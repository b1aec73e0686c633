------------------------------ MODULE MCFreezer ------------------------------
EXTENDS Freezer

CONSTANTS c1, c2, b1, b2, pw, tex

MCClients == {c1, c2}
MCBans == {b1, b2}
OnlyB1 == {b1}
MCPasswords == {pw}
MCBlobs == {tex}
MCUserNames == {"zoe"}
MCChannelNames == {"c"}
=============================================================================
