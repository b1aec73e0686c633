---------------------------- MODULE MCCryptState ----------------------------
EXTENDS CryptState

\* Shortly before the second digit wraps around, and in the middle of its range.
MCStarts == {61, 29}
=============================================================================
