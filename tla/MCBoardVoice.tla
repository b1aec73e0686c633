---------------------------- MODULE MCBoardVoice ----------------------------
EXTENDS BoardVoice, TLC

CONSTANTS c1, c2, c3, bA, bB, u1, u2, u3

TwoClients == {c1, c2}
ThreeClients == {c1, c2, c3}
MCBoards == {bA, bB}
MCUsers == {u1, u2, u3}
None == {}
OnlyC1 == {c1}
OnlyC3 == {c3}
C1AndC3 == {c1, c3}

\* Three different users of one board.
DistinctUsers == (c1 :> u1) @@ (c2 :> u2) @@ (c3 :> u3)
AllA == (c1 :> bA) @@ (c2 :> bA) @@ (c3 :> bA)
\* c1 on one board, c2 on another, c3 without a board.
ABNone == (c1 :> bA) @@ (c2 :> bB) @@ (c3 :> NoBoard)
\* Two clients, one of them without a board.
TwoUsers == (c1 :> u1) @@ (c2 :> u2)
ANone == (c1 :> bA) @@ (c2 :> NoBoard)
\* One user with two connections to the same board, and somebody else.
TwoTabs == (c1 :> u1) @@ (c2 :> u1) @@ (c3 :> u2)
=============================================================================
