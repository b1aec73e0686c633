------------------------- MODULE MCClientLifecycle --------------------------
EXTENDS ClientLifecycle

CONSTANTS c1, c2, c3, u1

TwoClients == {c1, c2}
ThreeClients == {c1, c2, c3}
OnlyC1 == {c1}
Nobody == {}

\* Guests only, or two connections of one registered user.
NoUsers == [c \in Clients |-> NoUser]
OneUser == [c \in Clients |-> IF c \in {c1, c2} THEN u1 ELSE NoUser]

Silent == {}
Kicks == {"UserRemove"}
Control == {"UserState", "UserRemove"}
Voice == {"opus", "ping"}
All == Control \cup Voice
OldVoice == {"celt"}
=============================================================================
