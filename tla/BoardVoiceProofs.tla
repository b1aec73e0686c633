-------------------------- MODULE BoardVoiceProofs --------------------------
(* Boards are kept apart for any set of clients, boards, users and             *)
(* permissions and any bound on the channels.  The inductive invariant is      *)
(* TypeOK /\ OwnersRespected: the two properties say nothing about the handler *)
(* on its way into a channel, nor about a channel whose room is gone while its *)
(* members are not, so neither is inductive alone.                             *)
(* Who uses a board's room, and where its users are.  RoomInv holds for any    *)
(* constants: the room's participants have connections that have not left, and *)
(* the handler, the channels' members and the clients' own channels agree.     *)
(* HomeInv adds, for users with one connection each and nobody who may create  *)
(* channels, that a ready client with a board is in its room's channel, until  *)
(* that channel is removed under the room.  Quiet: if everybody is on a board  *)
(* and nobody edits channels, the handler empties no channel.                  *)
EXTENDS BoardVoice, TLAPS

\* Channel ids are naturals, and nil is not one of them.
LEMMA ChanFacts == /\ NoChan \notin Chans
                   /\ Root \in Chans
                   /\ \A ch \in Chans : ch \in Nat
                   /\ \A n \in Nat : n <= MaxChan => n \in Chans
BY BoardAssumption DEF NoChan, Root, Chans

\* Zenon is the prover of most steps; those that need another one cite it.
USE BoardAssumption, ChanFacts, Zenon

\* The type invariant by groups of variables that change together.
TypeTree == /\ channels \in SUBSET Chans
            /\ temporary \in SUBSET Chans
            /\ owner \in [Chans -> Boards \cup {NoBoard}]
            /\ nextChanId \in 1..(MaxChan + 1)
TypeRooms == /\ roomChan \in [Boards -> Chans \cup {NoChan}]
             /\ parts \in [Boards -> SUBSET Users]
TypePlaces == /\ at \in [Clients -> Chans \cup {NoChan}]
              /\ members \in [Chans -> SUBSET Clients]
TypeConns == /\ state \in [Clients -> ClientStates]
             /\ registered \in SUBSET Clients
             /\ late \in SUBSET Clients
TypeQueue == tempRemove \in Seq(Chans) /\ Len(tempRemove) <= 1
TypeTeardown == /\ td \in [Clients -> TeardownStates]
                /\ tdChan \in [Clients -> Chans \cup {NoChan}]
TypeHandler == h \in HandlerStates

\* TypeOK is the conjunction of its groups, in this state and in the next.
LEMMA TypeSplit == TypeOK <=> /\ TypeTree /\ TypeRooms /\ TypePlaces /\ TypeConns
                              /\ TypeQueue /\ TypeTeardown /\ TypeHandler
BY DEF TypeOK, TypeTree, TypeRooms, TypePlaces, TypeConns, TypeQueue, TypeTeardown, TypeHandler

\* The same in the next state.
LEMMA TypeSplitNext == TypeOK' <=> /\ TypeTree' /\ TypeRooms' /\ TypePlaces' /\ TypeConns'
                                  /\ TypeQueue' /\ TypeTeardown' /\ TypeHandler'
BY DEF TypeOK, TypeTree, TypeRooms, TypePlaces, TypeConns, TypeQueue, TypeTeardown, TypeHandler

\* The handler at its select statement.
LEMMA IdleType == Idle \in HandlerStates
BY DEF Idle, HandlerStates, HandlerPcs

\* The handler after a call of userEnterChannel.
LEMMA ContinueType == ASSUME TypeHandler PROVE Continue(h) \in HandlerStates
BY IdleType, SMT DEF Continue, HandlerStates, HandlerPcs, TypeHandler

\* The start of RemoveClient keeps the types.
LEMMA ClaimType == ASSUME NEW c, TypeConns, TypeTeardown, TypePlaces, Claim(c)
                   PROVE  registered' \in SUBSET Clients /\ TypeTeardown'
<1>1. td' \in [Clients -> TeardownStates]
  BY DEF Claim, TypeTeardown, TeardownStates
<1>2. tdChan' \in [Clients -> Chans \cup {NoChan}]
  BY DEF Claim, TypeTeardown, TypePlaces
<1>. QED BY <1>1, <1>2 DEF Claim, TypeTeardown, TypeConns

\* So does creating a channel.
LEMMA AddChannelType ==
    ASSUME NEW temp, NEW b \in Boards \cup {NoBoard}, TypeTree, AddChannel(temp, b)
    PROVE  TypeTree' /\ nextChanId \in Chans
BY SMT DEF AddChannel, TypeTree

\* VoiceRoomManager.Join keeps the types of the rooms.
LEMMA JoinType ==
    ASSUME NEW b \in Boards, NEW u \in Users, NEW ch \in Chans, TypeRooms, Join(b, u, ch)
    PROVE  TypeRooms'
BY DEF Join, TypeRooms

\* So does VoiceRoomManager.Leave.
LEMMA LeaveType == ASSUME NEW b \in Boards, NEW u, TypeRooms, Leave(b, u) PROVE TypeRooms'
BY DEF Leave, TypeRooms

\* The end of RemoveClient keeps the types.
LEMMA ReturnedType == ASSUME NEW c, TypeTeardown, Returned(c) PROVE TypeTeardown'
BY DEF Returned, TypeTeardown, TeardownStates

\* A group whose variables do not change keeps its type.
LEMMA TypeFrame ==
    ASSUME TypeOK
    PROVE  /\ UNCHANGED treeVars => TypeTree'
           /\ UNCHANGED roomVars => TypeRooms'
           /\ UNCHANGED chanVars => TypePlaces'
           /\ UNCHANGED connVars => TypeConns'
           /\ UNCHANGED tempRemove => TypeQueue'
           /\ UNCHANGED tdVars => TypeTeardown'
           /\ UNCHANGED h => TypeHandler'
<1>1. UNCHANGED treeVars => TypeTree'
  BY TypeSplit DEF TypeTree, treeVars
<1>2. UNCHANGED roomVars => TypeRooms'
  BY TypeSplit DEF TypeRooms, roomVars
<1>3. UNCHANGED chanVars => TypePlaces'
  BY TypeSplit DEF TypePlaces, chanVars
<1>4. UNCHANGED connVars => TypeConns'
  BY TypeSplit DEF TypeConns, connVars
<1>5. UNCHANGED tempRemove => TypeQueue'
  BY TypeSplit DEF TypeQueue
<1>6. UNCHANGED tdVars => TypeTeardown'
  BY TypeSplit DEF TypeTeardown, tdVars
<1>7. UNCHANGED h => TypeHandler'
  BY TypeSplit DEF TypeHandler
<1>. QED BY <1>1, <1>2, <1>3, <1>4, <1>5, <1>6, <1>7

\* Every step keeps the types; a step into a channel needs that the handler
\* holds a client whenever it holds a channel.
LEMMA BoardTypeStep == TypeOK /\ OwnersRespected /\ [Next]_vars => TypeOK'
<1>. SUFFICES ASSUME TypeOK, OwnersRespected, [Next]_vars PROVE TypeOK'
  OBVIOUS
<1>0. /\ TypeTree /\ TypeRooms /\ TypePlaces /\ TypeConns
      /\ TypeQueue /\ TypeTeardown /\ TypeHandler
  BY TypeSplit
<1>1. ASSUME NEW c \in Clients, resolveAuthenticatedChannel(c) PROVE TypeOK'
  <2>1. TypeTree'
    <3>1. CASE Scoped(c) /\ roomChan[BoardOf[c]] \notin channels
      <4>1. BoardOf[c] \in Boards \cup {NoBoard} /\ AddChannel(TRUE, BoardOf[c])
        BY <1>1, <3>1 DEF resolveAuthenticatedChannel
      <4>. QED BY <1>0, <4>1, AddChannelType
    <3>2. CASE ~(Scoped(c) /\ roomChan[BoardOf[c]] \notin channels)
      <4>1. UNCHANGED treeVars
        BY <1>1, <3>2 DEF resolveAuthenticatedChannel
      <4>. QED BY <4>1, TypeFrame
    <3>. QED BY <3>1, <3>2
  <2>2. TypeConns'
    BY <1>0, <1>1 DEF resolveAuthenticatedChannel, TypeConns, ClientStates
  <2>3. TypeHandler'
    <3>1. \E ch \in Chans : h' = [h EXCEPT !.pc = "join", !.c = c, !.to = ch]
      <4>1. CASE Scoped(c) /\ roomChan[BoardOf[c]] \notin channels
        <5>1. AddChannel(TRUE, BoardOf[c]) /\ BoardOf[c] \in Boards \cup {NoBoard}
          BY <1>1, <4>1 DEF resolveAuthenticatedChannel
        <5>2. nextChanId \in Chans
          BY <1>0, <5>1, AddChannelType
        <5>. QED BY <1>1, <4>1, <5>2 DEF resolveAuthenticatedChannel
      <4>2. CASE ~(Scoped(c) /\ roomChan[BoardOf[c]] \notin channels)
        BY <1>0, <1>1, <4>2 DEF resolveAuthenticatedChannel, TypeTree
      <4>. QED BY <4>1, <4>2
    <3>2. PICK ch \in Chans : h' = [h EXCEPT !.pc = "join", !.c = c, !.to = ch]
      BY <3>1
    <3>. QED BY <1>0, <3>2 DEF TypeHandler, HandlerStates, HandlerPcs
  <2>4. UNCHANGED <<roomVars, chanVars, tempRemove, tdVars>>
    BY <1>1 DEF resolveAuthenticatedChannel, roomVars, chanVars, tdVars
  <2>. QED BY <2>1, <2>2, <2>3, <2>4, TypeFrame, TypeSplitNext
<1>2. ASSUME joinBoardVoiceRoom PROVE TypeOK'
  <2>1. TypeRooms'
    <3>1. h.c \in Clients /\ h.to \in Chans
      BY <1>0, <1>2 DEF joinBoardVoiceRoom, OwnersRespected, TypeHandler, HandlerStates
    <3>2. CASE Scoped(h.c)
      <4>1. BoardOf[h.c] \in Boards /\ UserOf[h.c] \in Users
        BY <3>1, <3>2 DEF Scoped
      <4>. QED BY <1>0, <1>2, <3>1, <3>2, <4>1, JoinType DEF joinBoardVoiceRoom
    <3>3. CASE ~Scoped(h.c)
      BY <1>2, <3>3, TypeFrame DEF joinBoardVoiceRoom
    <3>. QED BY <3>2, <3>3
  <2>2. TypeConns'
    <3>1. h.c \in Clients
      BY <1>2 DEF joinBoardVoiceRoom, OwnersRespected
    <3>. QED BY <1>0, <1>2, <3>1 DEF joinBoardVoiceRoom, TypeConns
  <2>3. TypeHandler'
    BY <1>0, <1>2 DEF joinBoardVoiceRoom, TypeHandler, HandlerStates, HandlerPcs
  <2>4. UNCHANGED <<treeVars, chanVars, tempRemove, tdVars>>
    BY <1>2 DEF joinBoardVoiceRoom, treeVars, chanVars, tdVars
  <2>. QED BY <2>1, <2>2, <2>3, <2>4, TypeFrame, TypeSplitNext
<1>3. ASSUME sendChannelList PROVE TypeOK'
  <2>1. TypeHandler'
    BY <1>0, <1>3 DEF sendChannelList, TypeHandler, HandlerStates, HandlerPcs
  <2>2. UNCHANGED <<treeVars, roomVars, chanVars, connVars, tempRemove, tdVars>>
    BY <1>3 DEF sendChannelList, treeVars, roomVars, chanVars, connVars, tdVars
  <2>. QED BY <2>1, <2>2, TypeFrame, TypeSplitNext
<1>4. ASSUME sendChannelListFails PROVE TypeOK'
  <2>1. TypeTeardown'
    BY <1>0, <1>4, ClaimType DEF sendChannelListFails
  <2>2. TypeConns'
    BY <1>0, <1>4, ClaimType DEF sendChannelListFails, TypeConns
  <2>3. TypeHandler'
    BY <1>0, <1>4 DEF sendChannelListFails, TypeHandler, HandlerStates, HandlerPcs
  <2>4. UNCHANGED <<treeVars, roomVars, chanVars, tempRemove>>
    BY <1>4 DEF sendChannelListFails, treeVars, roomVars, chanVars
  <2>. QED BY <2>1, <2>2, <2>3, <2>4, TypeFrame, TypeSplitNext
<1>5. ASSUME finishAuthenticate PROVE TypeOK'
  <2>1. TypeConns'
    BY <1>0, <1>5 DEF finishAuthenticate, TypeConns, ClientStates
  <2>2. TypeHandler'
    BY <1>5, IdleType DEF finishAuthenticate, TypeHandler
  <2>3. UNCHANGED <<treeVars, roomVars, chanVars, tempRemove, tdVars>>
    BY <1>5 DEF finishAuthenticate, treeVars, roomVars, chanVars, tdVars
  <2>. QED BY <2>1, <2>2, <2>3, TypeFrame, TypeSplitNext
<1>6. ASSUME finishAuthenticateFails PROVE TypeOK'
  <2>1. TypeTeardown'
    BY <1>0, <1>6, ClaimType, TypeFrame DEF finishAuthenticateFails
  <2>2. TypeConns'
    BY <1>0, <1>6, ClaimType DEF finishAuthenticateFails, TypeConns
  <2>3. TypeHandler'
    <3>1. h' = Idle \/ h' = [h EXCEPT !.pc = "teardown", !.next = "idle"]
      BY <1>6 DEF finishAuthenticateFails
    <3>2. [h EXCEPT !.pc = "teardown", !.next = "idle"] \in HandlerStates
      BY <1>0 DEF TypeHandler, HandlerStates, HandlerPcs
    <3>. QED BY <3>1, <3>2, IdleType DEF TypeHandler
  <2>4. UNCHANGED <<treeVars, roomVars, chanVars, tempRemove>>
    BY <1>6 DEF finishAuthenticateFails, treeVars, roomVars, chanVars
  <2>. QED BY <2>1, <2>2, <2>3, <2>4, TypeFrame, TypeSplitNext
<1>7. ASSUME userLeavesOldChannel PROVE TypeOK'
  <2>1. TypePlaces'
    <3>1. \/ UNCHANGED chanVars
          \/ /\ members' = [members EXCEPT ![at[h.c]] = members[at[h.c]] \ {h.c}]
             /\ at' = [at EXCEPT ![h.c] = NoChan]
      BY <1>7 DEF userLeavesOldChannel
    <3>. QED BY <1>0, <3>1, TypeFrame, SMT DEF TypePlaces
  <2>2. TypeHandler'
    <3>. DEFINE old == at[h.c]
    <3>1. \/ h' = Continue(h)
          \/ h' = [h EXCEPT !.pc = "add"]
          \/ old \in Chans /\ h' = [h EXCEPT !.pc = "send", !.from = old]
      BY <1>0, <1>7 DEF userLeavesOldChannel, TypeTree
    <3>. HIDE DEF old
    <3>2. [h EXCEPT !.pc = "add"] \in HandlerStates
      BY <1>0 DEF TypeHandler, HandlerStates, HandlerPcs
    <3>3. old \in Chans => [h EXCEPT !.pc = "send", !.from = old] \in HandlerStates
      BY <1>0 DEF TypeHandler, HandlerStates, HandlerPcs
    <3>. QED BY <1>0, <3>1, <3>2, <3>3, ContinueType DEF TypeHandler
  <2>3. UNCHANGED <<treeVars, roomVars, connVars, tempRemove, tdVars>>
    BY <1>7 DEF userLeavesOldChannel, treeVars, roomVars, connVars, tdVars
  <2>. QED BY <2>1, <2>2, <2>3, TypeFrame, TypeSplitNext
<1>8. ASSUME sendTempRemove PROVE TypeOK'
  <2>1. TypeQueue'
    <3>1. h.from \in Chans
      BY <1>8 DEF sendTempRemove, OwnersRespected
    <3>. QED BY <1>0, <1>8, <3>1, SMT DEF sendTempRemove, TypeQueue
  <2>2. TypeHandler'
    BY <1>0, <1>8 DEF sendTempRemove, TypeHandler, HandlerStates, HandlerPcs
  <2>3. UNCHANGED <<treeVars, roomVars, chanVars, connVars, tdVars>>
    BY <1>8 DEF sendTempRemove, treeVars, roomVars, chanVars, connVars, tdVars
  <2>. QED BY <2>1, <2>2, <2>3, TypeFrame, TypeSplitNext
<1>9. ASSUME userEntersNewChannel PROVE TypeOK'
  <2>1. TypePlaces'
    <3>1. h.to \in Chans => h.c \in Clients
      BY DEF OwnersRespected
    <3>2. h.to \in Chans \cup {NoChan}
      BY <1>0 DEF TypeHandler, HandlerStates
    <3>. QED BY <1>0, <1>9, <3>1, <3>2 DEF userEntersNewChannel, TypePlaces
  <2>2. TypeHandler'
    BY <1>0, <1>9, ContinueType DEF userEntersNewChannel, TypeHandler
  <2>3. UNCHANGED <<treeVars, roomVars, connVars, tempRemove, tdVars>>
    BY <1>9 DEF userEntersNewChannel, treeVars, roomVars, connVars, tdVars
  <2>. QED BY <2>1, <2>2, <2>3, TypeFrame, TypeSplitNext
<1>10. ASSUME NEW a \in Clients, NEW t \in Clients, NEW ch \in Chans, handleUserState(a, t, ch)
       PROVE  TypeOK'
  <2>1. TypeHandler'
    BY <1>0, <1>10 DEF handleUserState, TypeHandler, HandlerStates, HandlerPcs
  <2>2. UNCHANGED <<treeVars, roomVars, chanVars, connVars, tempRemove, tdVars>>
    BY <1>10 DEF handleUserState, treeVars, roomVars, chanVars, connVars, tdVars
  <2>. QED BY <2>1, <2>2, TypeFrame, TypeSplitNext
<1>11. ASSUME NEW a \in Clients, NEW temp \in BOOLEAN, handleChannelCreate(a, temp)
       PROVE  TypeOK'
  <2>1. TypeTree'
    BY <1>0, <1>11, AddChannelType DEF handleChannelCreate
  <2>2. TypeConns'
    BY <1>0, <1>11 DEF handleChannelCreate, Sends, TypeConns
  <2>3. TypeHandler'
    <3>1. nextChanId \in Chans
      BY <1>0, <1>11, AddChannelType DEF handleChannelCreate
    <3>2. [h EXCEPT !.pc = "enter", !.c = a, !.to = nextChanId] \in HandlerStates
      BY <1>0, <3>1 DEF TypeHandler, HandlerStates, HandlerPcs
    <3>. QED BY <1>0, <1>11, <3>2 DEF handleChannelCreate, TypeHandler
  <2>4. UNCHANGED <<roomVars, chanVars, tempRemove, tdVars>>
    BY <1>11 DEF handleChannelCreate, roomVars, chanVars, tdVars
  <2>. QED BY <2>1, <2>2, <2>3, <2>4, TypeFrame, TypeSplitNext
<1>12. ASSUME NEW a \in Clients, NEW ch \in Chans, handleChannelRemove(a, ch) PROVE TypeOK'
  <2>1. TypeConns'
    BY <1>0, <1>12 DEF handleChannelRemove, Sends, TypeConns
  <2>2. TypeHandler'
    <3>1. members[ch] \in SUBSET Clients
      BY <1>0, <1>12 DEF TypePlaces
    <3>. QED BY <1>0, <1>12, <3>1
                DEF handleChannelRemove, TypeHandler, HandlerStates, HandlerPcs
  <2>3. UNCHANGED <<treeVars, roomVars, chanVars, tempRemove, tdVars>>
    BY <1>12 DEF handleChannelRemove, treeVars, roomVars, chanVars, tdVars
  <2>. QED BY <2>1, <2>2, <2>3, TypeFrame, TypeSplitNext
<1>13. ASSUME NEW t \in Clients, RemoveChannelEvict(t) PROVE TypeOK'
  <2>1. TypeHandler'
    BY <1>0, <1>13 DEF RemoveChannelEvict, TypeHandler, HandlerStates, HandlerPcs
  <2>2. UNCHANGED <<treeVars, roomVars, chanVars, connVars, tempRemove, tdVars>>
    BY <1>13 DEF RemoveChannelEvict, treeVars, roomVars, chanVars, connVars, tdVars
  <2>. QED BY <2>1, <2>2, TypeFrame, TypeSplitNext
<1>14. ASSUME RemoveChannelDelete PROVE TypeOK'
  <2>1. TypeTree'
    BY <1>0, <1>14 DEF RemoveChannelDelete, TypeTree
  <2>2. TypeHandler'
    BY <1>14, IdleType DEF RemoveChannelDelete, TypeHandler
  <2>3. UNCHANGED <<roomVars, chanVars, connVars, tempRemove, tdVars>>
    BY <1>14 DEF RemoveChannelDelete, roomVars, chanVars, connVars, tdVars
  <2>. QED BY <2>1, <2>2, <2>3, TypeFrame, TypeSplitNext
<1>15. ASSUME removeTempChannel PROVE TypeOK'
  <2>1. TypeQueue'
    BY <1>0, <1>15, SMT DEF removeTempChannel, TypeQueue
  <2>2. TypeTree'
    BY <1>0, <1>15 DEF removeTempChannel, TypeTree
  <2>3. UNCHANGED <<roomVars, chanVars, connVars, tdVars, h>>
    BY <1>15 DEF removeTempChannel, roomVars, chanVars, connVars, tdVars
  <2>. QED BY <2>1, <2>2, <2>3, TypeFrame, TypeSplitNext
<1>16. ASSUME NEW t \in Clients, handleUserRemove(t) PROVE TypeOK'
  <2>1. TypeTeardown'
    BY <1>0, <1>16, ClaimType DEF handleUserRemove
  <2>2. TypeConns'
    BY <1>0, <1>16, ClaimType DEF handleUserRemove, TypeConns
  <2>3. TypeHandler'
    BY <1>0, <1>16 DEF handleUserRemove, TypeHandler, HandlerStates, HandlerPcs
  <2>4. UNCHANGED <<treeVars, roomVars, chanVars, tempRemove>>
    BY <1>16 DEF handleUserRemove, treeVars, roomVars, chanVars
  <2>. QED BY <2>1, <2>2, <2>3, <2>4, TypeFrame, TypeSplitNext
<1>17. ASSUME teardownReturns PROVE TypeOK'
  <2>1. TypeHandler'
    <3>1. [h EXCEPT !.pc = "enter", !.next = "sync"] \in HandlerStates
      BY <1>0 DEF TypeHandler, HandlerStates, HandlerPcs
    <3>. QED BY <1>17, <3>1, IdleType DEF teardownReturns, TypeHandler
  <2>2. UNCHANGED <<treeVars, roomVars, chanVars, connVars, tempRemove, tdVars>>
    BY <1>17 DEF teardownReturns, treeVars, roomVars, chanVars, connVars, tdVars
  <2>. QED BY <2>1, <2>2, TypeFrame, TypeSplitNext
<1>18. ASSUME NEW c \in Clients, Authenticate(c) PROVE TypeOK'
  <2>1. TypeConns'
    BY <1>0, <1>18 DEF Authenticate, TypeConns, ClientStates
  <2>2. UNCHANGED <<treeVars, roomVars, chanVars, tempRemove, tdVars, h>>
    BY <1>18 DEF Authenticate, treeVars, roomVars, chanVars, tdVars
  <2>. QED BY <2>1, <2>2, TypeFrame, TypeSplitNext
<1>19. ASSUME NEW c \in Clients, AuthenticateFails(c) PROVE TypeOK'
  <2>1. TypeTeardown'
    BY <1>0, <1>19, ClaimType DEF AuthenticateFails
  <2>2. TypeConns'
    BY <1>0, <1>19, ClaimType DEF AuthenticateFails, TypeConns
  <2>3. UNCHANGED <<treeVars, roomVars, chanVars, tempRemove, h>>
    BY <1>19 DEF AuthenticateFails, treeVars, roomVars, chanVars
  <2>. QED BY <2>1, <2>2, <2>3, TypeFrame, TypeSplitNext
<1>20. ASSUME NEW c \in Clients, disconnect(c) PROVE TypeOK'
  <2>1. TypeTeardown'
    BY <1>0, <1>20, ClaimType DEF disconnect
  <2>2. TypeConns'
    BY <1>0, <1>20, ClaimType DEF disconnect, TypeConns
  <2>3. UNCHANGED <<treeVars, roomVars, chanVars, tempRemove, h>>
    BY <1>20 DEF disconnect, treeVars, roomVars, chanVars
  <2>. QED BY <2>1, <2>2, <2>3, TypeFrame, TypeSplitNext
<1>21. ASSUME NEW c \in Clients, RemoveClientFromChannel(c) PROVE TypeOK'
  <2>1. TypePlaces'
    BY <1>0, <1>21, SMT DEF RemoveClientFromChannel, TypePlaces, TypeTeardown, chanVars
  <2>2. TypeTeardown'
    BY <1>0, <1>21 DEF RemoveClientFromChannel, TypeTeardown, TeardownStates
  <2>3. UNCHANGED <<treeVars, roomVars, connVars, tempRemove, h>>
    BY <1>21 DEF RemoveClientFromChannel, treeVars, roomVars, connVars
  <2>. QED BY <2>1, <2>2, <2>3, TypeFrame, TypeSplitNext
<1>22. ASSUME NEW c \in Clients, leaveBoardVoiceRoom(c) PROVE TypeOK'
  <2>1. TypeRooms'
    BY <1>0, <1>22, LeaveType, TypeFrame DEF leaveBoardVoiceRoom, Scoped
  <2>2. TypeTeardown'
    BY <1>0, <1>22, ReturnedType DEF leaveBoardVoiceRoom, TypeTeardown, TeardownStates
  <2>3. UNCHANGED <<treeVars, chanVars, connVars, tempRemove, h>>
    BY <1>22 DEF leaveBoardVoiceRoom, treeVars, chanVars, connVars
  <2>. QED BY <2>1, <2>2, <2>3, TypeFrame, TypeSplitNext
<1>23. ASSUME NEW c \in Clients, signalTempRemove(c) PROVE TypeOK'
  <2>1. TypeTeardown'
    BY <1>0, <1>23, ReturnedType DEF signalTempRemove
  <2>2. TypeQueue'
    BY <1>0, <1>23, SMT DEF signalTempRemove, TypeQueue, TypeTeardown, TypeTree
  <2>3. UNCHANGED <<treeVars, roomVars, chanVars, connVars, h>>
    BY <1>23 DEF signalTempRemove, treeVars, roomVars, chanVars, connVars
  <2>. QED BY <2>1, <2>2, <2>3, TypeFrame, TypeSplitNext
<1>24. CASE UNCHANGED vars
  <2>1. UNCHANGED <<treeVars, roomVars, chanVars, connVars, tempRemove, tdVars, h>>
    BY <1>24 DEF vars
  <2>. QED BY <2>1, TypeFrame, TypeSplitNext
<1>. QED
  BY <1>1, <1>2, <1>3, <1>4, <1>5, <1>6, <1>7, <1>8, <1>9, <1>10, <1>11, <1>12,
     <1>13, <1>14, <1>15, <1>16, <1>17, <1>18, <1>19, <1>20, <1>21, <1>22, <1>23,
     <1>24
  DEF Next, HandlerContinues, HandlerSelects, Teardown

\* The inductive invariant in two parts: what is in the tree, the rooms and the
\* channels, and where the handler is heading.
OwnersOutside ==
    /\ owner[Root] = NoBoard
    /\ \A b \in Boards : roomChan[b] # NoChan =>
           roomChan[b] < nextChanId /\ owner[roomChan[b]] = b
    /\ \A ch \in Chans : \A c \in members[ch] : ch < nextChanId /\ MayEnter(c, ch)
    /\ \A c \in Clients : at[c] # NoChan => at[c] < nextChanId /\ MayEnter(c, at[c])
    /\ \A ch \in channels : ch < nextChanId
OwnersHandler ==
    /\ h.pc = "idle" => h = Idle
    /\ h.to # NoChan => h.c \in Clients /\ h.to < nextChanId /\ MayEnter(h.c, h.to)
    /\ h.pc = "join" => /\ h.c \in Clients
                        /\ h.to # NoChan
                        /\ Scoped(h.c) => owner[h.to] = BoardOf[h.c]
    /\ h.pc = "send" => h.from \in Chans

\* OwnersRespected is its two parts, in this state and in the next.
LEMMA OwnersSplit == /\ OwnersRespected <=> OwnersOutside /\ OwnersHandler
                     /\ OwnersRespected' <=> OwnersOutside' /\ OwnersHandler'
BY DEF OwnersRespected, OwnersOutside, OwnersHandler

\* Channels, rooms and memberships that only go away respect their owners.
LEMMA OutsideShrinks ==
    ASSUME TypeOK, OwnersOutside, UNCHANGED <<owner, nextChanId>>,
           channels' \subseteq channels,
           \A b \in Boards : roomChan'[b] \in {roomChan[b], NoChan},
           \A ch \in Chans : members'[ch] \subseteq members[ch],
           \A c \in Clients : at'[c] \in {at[c], NoChan}
    PROVE  OwnersOutside'
BY DEF OwnersOutside, MayEnter, TypeOK

\* A new channel has no members, no room and no client on its way into it.
LEMMA OutsideGrows ==
    ASSUME TypeOK, OwnersOutside, NEW temp, NEW b \in Boards \cup {NoBoard},
           AddChannel(temp, b), UNCHANGED <<chanVars, roomVars>>
    PROVE  /\ OwnersOutside'
           /\ \A ch \in Chans : ch < nextChanId => owner'[ch] = owner[ch]
           /\ nextChanId \in Chans /\ nextChanId' = nextChanId + 1
           /\ owner'[nextChanId] = b
<1>1. /\ nextChanId \in Chans /\ nextChanId' = nextChanId + 1 /\ nextChanId \in Nat
      /\ nextChanId # Root
      /\ owner'[nextChanId] = b
      /\ \A ch \in Chans : ch # nextChanId => owner'[ch] = owner[ch]
      /\ channels' = channels \cup {nextChanId}
  BY SMT DEF AddChannel, TypeOK, Root
<1>2. \A ch \in Chans : ch < nextChanId => owner'[ch] = owner[ch] /\ ch < nextChanId'
  <2>. TAKE ch \in Chans
  <2>1. ch \in Nat
    OBVIOUS
  <2>. QED BY <1>1, <2>1, SMT
<1>3. \A b1 \in Boards : roomChan'[b1] # NoChan =>
          roomChan'[b1] < nextChanId' /\ owner'[roomChan'[b1]] = b1
  BY <1>2, SMT DEF OwnersOutside, TypeOK, roomVars
<1>4. \A ch \in Chans : \A c \in members'[ch] : ch < nextChanId' /\ MayEnter(c, ch)'
  <2>. TAKE ch \in Chans
  <2>. TAKE c \in members'[ch]
  <2>1. ch < nextChanId /\ MayEnter(c, ch)
    BY DEF OwnersOutside, chanVars
  <2>. QED BY <1>2, <2>1 DEF MayEnter
<1>5. \A c \in Clients : at'[c] # NoChan => at'[c] < nextChanId' /\ MayEnter(c, at[c])'
  BY <1>2, SMT DEF OwnersOutside, TypeOK, chanVars, MayEnter
<1>6. \A ch \in channels' : ch < nextChanId'
  BY <1>1, <1>2, SMT DEF OwnersOutside, TypeOK
<1>7. owner'[Root] = NoBoard
  BY <1>1 DEF OwnersOutside
<1>. QED BY <1>1, <1>2, <1>3, <1>4, <1>5, <1>6, <1>7 DEF OwnersOutside

\* The handler stays on the way it is on, or comes to its select statement.
LEMMA HandlerStays ==
    ASSUME TypeOK, OwnersHandler, UNCHANGED <<owner, nextChanId>>,
           \/ h' = Idle
           \/ h' = h
           \/ /\ h'.c = h.c /\ h'.to = h.to
              /\ h'.pc \notin {"idle", "join"}
              /\ h'.pc = "send" => h'.from \in Chans
    PROVE  OwnersHandler'
<1>1. CASE h' = Idle
  BY <1>1 DEF OwnersHandler, Idle
<1>2. CASE h' = h
  BY <1>2 DEF OwnersHandler, MayEnter
<1>3. CASE /\ h'.c = h.c /\ h'.to = h.to
           /\ h'.pc \notin {"idle", "join"}
           /\ h'.pc = "send" => h'.from \in Chans
  BY <1>3 DEF OwnersHandler, MayEnter
<1>. QED BY <1>1, <1>2, <1>3

\* At the start there is only the root, which belongs to no board.
LEMMA OwnersInit == Init => OwnersRespected
BY SMT DEF Init, OwnersRespected, Idle, MayEnter, Root

\* Every step respects the owners: only resolveAuthenticatedChannel and
\* handleChannelCreate make channels, only joinBoardVoiceRoom maps a room and
\* only userEntersNewChannel adds a member.
LEMMA OwnersStep == TypeOK /\ OwnersRespected /\ [Next]_vars => OwnersRespected'
<1>. SUFFICES ASSUME TypeOK, OwnersRespected, [Next]_vars PROVE OwnersRespected'
  OBVIOUS
<1>. USE OwnersSplit
<1>1. ASSUME NEW c \in Clients, resolveAuthenticatedChannel(c) PROVE OwnersRespected'
  <2>. DEFINE b == BoardOf[c]
  <2>1. CASE Scoped(c) /\ roomChan[b] \notin channels
    <3>1. AddChannel(TRUE, b) /\ h' = [h EXCEPT !.pc = "join", !.c = c, !.to = nextChanId]
      BY <1>1, <2>1 DEF resolveAuthenticatedChannel
    <3>2. b \in Boards /\ UNCHANGED <<chanVars, roomVars>>
      BY <1>1, <2>1 DEF Scoped, resolveAuthenticatedChannel
    <3>3. /\ OwnersOutside'
          /\ nextChanId \in Chans /\ nextChanId' = nextChanId + 1
          /\ owner'[nextChanId] = b
      BY <3>1, <3>2, OutsideGrows
    <3>4. h'.pc = "join" /\ h'.c = c /\ h'.to = nextChanId
      BY <3>1 DEF TypeOK, HandlerStates
    <3>5. OwnersHandler'
      BY <3>3, <3>4, SMT DEF OwnersHandler, MayEnter
    <3>. QED BY <3>3, <3>5
  <2>2. CASE ~(Scoped(c) /\ roomChan[b] \notin channels)
    <3>. DEFINE ch == IF Scoped(c) THEN roomChan[b] ELSE Root
    <3>1. UNCHANGED treeVars /\ h' = [h EXCEPT !.pc = "join", !.c = c, !.to = ch]
      BY <1>1, <2>2 DEF resolveAuthenticatedChannel
    <3>2. OwnersOutside'
      BY <1>1, <3>1, OutsideShrinks
         DEF resolveAuthenticatedChannel, chanVars, roomVars, treeVars
    <3>3. h'.pc = "join" /\ h'.c = c /\ h'.to = ch
      BY <3>1 DEF TypeOK, HandlerStates
    <3>4. /\ ch \in Chans /\ ch < nextChanId
          /\ Scoped(c) => owner[ch] = b
      <4>1. CASE Scoped(c)
        <5>1. b \in Boards /\ roomChan[b] \in channels /\ channels \subseteq Chans
          BY <2>2, <4>1 DEF Scoped, TypeOK
        <5>2. roomChan[b] \in Chans /\ roomChan[b] # NoChan
          BY <5>1
        <5>. QED BY <4>1, <5>1, <5>2 DEF OwnersOutside
      <4>2. CASE ~Scoped(c)
        <5>1. Root < nextChanId
          BY SMT DEF TypeOK, Root
        <5>. QED BY <4>2, <5>1
      <4>. QED BY <4>1, <4>2
    <3>5. OwnersHandler'
      <4>1. UNCHANGED <<owner, nextChanId>>
        BY <3>1 DEF treeVars
      <4>2. MayEnter(c, ch)
        BY <3>4 DEF MayEnter
      <4>. HIDE DEF ch
      <4>. QED BY <3>3, <3>4, <4>1, <4>2 DEF OwnersHandler, MayEnter
    <3>. QED BY <3>2, <3>5
  <2>. QED BY <2>1, <2>2
<1>2. ASSUME joinBoardVoiceRoom PROVE OwnersRespected'
  <2>1. h.c \in Clients /\ h.to \in Chans /\ h.to < nextChanId
        /\ (Scoped(h.c) => owner[h.to] = BoardOf[h.c])
    BY <1>2 DEF joinBoardVoiceRoom, OwnersHandler, TypeOK, HandlerStates
  <2>2. \A b \in Boards : roomChan'[b] # NoChan =>
            roomChan'[b] < nextChanId /\ owner[roomChan'[b]] = b
    BY <1>2, <2>1, SMT DEF joinBoardVoiceRoom, Join, OwnersOutside, roomVars, TypeOK
  <2>3. OwnersOutside'
    BY <1>2, <2>2 DEF joinBoardVoiceRoom, OwnersOutside, MayEnter, chanVars, treeVars
  <2>4. OwnersHandler'
    <3>1. h'.c = h.c /\ h'.to = h.to /\ h'.pc = "list"
      BY <1>2 DEF joinBoardVoiceRoom, TypeOK, HandlerStates
    <3>2. UNCHANGED <<owner, nextChanId>>
      BY <1>2 DEF joinBoardVoiceRoom, treeVars
    <3>. QED BY <3>1, <3>2, HandlerStays
  <2>. QED BY <2>3, <2>4
<1>3. ASSUME sendChannelList PROVE OwnersRespected'
  <2>1. OwnersOutside'
    BY <1>3, OutsideShrinks DEF sendChannelList, chanVars, roomVars, treeVars
  <2>2. OwnersHandler'
    <3>1. h'.c = h.c /\ h'.to = h.to /\ h'.pc = "enter"
      BY <1>3 DEF sendChannelList, TypeOK, HandlerStates
    <3>2. UNCHANGED <<owner, nextChanId>>
      BY <1>3 DEF sendChannelList, treeVars
    <3>. QED BY <3>1, <3>2, HandlerStays
  <2>. QED BY <2>1, <2>2
<1>4. ASSUME sendChannelListFails PROVE OwnersRespected'
  <2>1. OwnersOutside'
    BY <1>4, OutsideShrinks DEF sendChannelListFails, chanVars, roomVars, treeVars
  <2>2. OwnersHandler'
    <3>1. h'.c = h.c /\ h'.to = h.to /\ h'.pc = "teardown"
      BY <1>4 DEF sendChannelListFails, TypeOK, HandlerStates
    <3>2. UNCHANGED <<owner, nextChanId>>
      BY <1>4 DEF sendChannelListFails, treeVars
    <3>. QED BY <3>1, <3>2, HandlerStays
  <2>. QED BY <2>1, <2>2
<1>5. ASSUME finishAuthenticate PROVE OwnersRespected'
  <2>1. OwnersOutside'
    BY <1>5, OutsideShrinks DEF finishAuthenticate, chanVars, roomVars, treeVars
  <2>2. OwnersHandler'
    BY <1>5, HandlerStays DEF finishAuthenticate, treeVars
  <2>. QED BY <2>1, <2>2
<1>6. ASSUME finishAuthenticateFails PROVE OwnersRespected'
  <2>1. OwnersOutside'
    BY <1>6, OutsideShrinks DEF finishAuthenticateFails, chanVars, roomVars, treeVars
  <2>2. h' = Idle \/ h' = [h EXCEPT !.pc = "teardown", !.next = "idle"]
    BY <1>6 DEF finishAuthenticateFails
  <2>3. h' = Idle \/ (h'.c = h.c /\ h'.to = h.to /\ h'.pc = "teardown")
    BY <2>2 DEF TypeOK, HandlerStates
  <2>4. UNCHANGED <<owner, nextChanId>>
    BY <1>6 DEF finishAuthenticateFails, treeVars
  <2>5. OwnersHandler'
    BY <2>3, <2>4, HandlerStays
  <2>. QED BY <2>1, <2>5
<1>7. ASSUME userLeavesOldChannel PROVE OwnersRespected'
  <2>. DEFINE old == at[h.c]
  <2>1. \/ UNCHANGED chanVars
        \/ /\ members' = [members EXCEPT ![old] = members[old] \ {h.c}]
           /\ at' = [at EXCEPT ![h.c] = NoChan]
    BY <1>7 DEF userLeavesOldChannel
  <2>2. /\ \A ch \in Chans : members'[ch] \subseteq members[ch]
        /\ \A c \in Clients : at'[c] \in {at[c], NoChan}
    <3>1. CASE UNCHANGED chanVars
      BY <3>1 DEF chanVars
    <3>2. CASE /\ members' = [members EXCEPT ![old] = members[old] \ {h.c}]
               /\ at' = [at EXCEPT ![h.c] = NoChan]
      <4>. HIDE DEF old
      <4>. QED BY <3>2 DEF TypeOK
    <3>. QED BY <2>1, <3>1, <3>2
  <2>3. OwnersOutside'
    BY <1>7, <2>2, OutsideShrinks DEF userLeavesOldChannel, roomVars, treeVars
  <2>4. \/ h' \in {Idle, [h EXCEPT !.pc = h.next], [h EXCEPT !.pc = "add"]}
        \/ old \in Chans /\ h' = [h EXCEPT !.pc = "send", !.from = old]
    BY <1>7 DEF userLeavesOldChannel, Continue, TypeOK
  <2>5. h' = Idle \/ h.next # "idle" \/ h' # [h EXCEPT !.pc = h.next]
    BY <1>7 DEF userLeavesOldChannel, Continue, TypeOK, HandlerStates
  <2>6. OwnersHandler'
    <3>. HIDE DEF old
    <3>1. UNCHANGED <<owner, nextChanId>>
      BY <1>7 DEF userLeavesOldChannel, treeVars
    <3>2. h \in HandlerStates
      BY DEF TypeOK
    <3>3. CASE h' = Idle
      BY <3>1, <3>3, HandlerStays
    <3>4. CASE h' = [h EXCEPT !.pc = h.next] /\ h.next # "idle"
      <4>1. h'.c = h.c /\ h'.to = h.to /\ h'.pc \in {"enter", "sync", "evict"}
        BY <3>2, <3>4 DEF HandlerStates
      <4>. QED BY <3>1, <4>1, HandlerStays
    <3>5. CASE h' = [h EXCEPT !.pc = "add"]
      <4>1. h'.c = h.c /\ h'.to = h.to /\ h'.pc = "add"
        BY <3>2, <3>5 DEF HandlerStates
      <4>. QED BY <3>1, <4>1, HandlerStays
    <3>6. CASE old \in Chans /\ h' = [h EXCEPT !.pc = "send", !.from = old]
      <4>1. h'.c = h.c /\ h'.to = h.to /\ h'.pc = "send" /\ h'.from \in Chans
        BY <3>2, <3>6 DEF HandlerStates
      <4>. QED BY <3>1, <4>1, HandlerStays
    <3>. QED BY <2>4, <2>5, <3>3, <3>4, <3>5, <3>6
  <2>. QED BY <2>3, <2>6
<1>8. ASSUME sendTempRemove PROVE OwnersRespected'
  <2>1. OwnersOutside'
    BY <1>8, OutsideShrinks DEF sendTempRemove, chanVars, roomVars, treeVars
  <2>2. OwnersHandler'
    <3>1. h'.c = h.c /\ h'.to = h.to /\ h'.pc = "add"
      BY <1>8 DEF sendTempRemove, TypeOK, HandlerStates
    <3>2. UNCHANGED <<owner, nextChanId>>
      BY <1>8 DEF sendTempRemove, treeVars
    <3>. QED BY <3>1, <3>2, HandlerStays
  <2>. QED BY <2>1, <2>2
<1>9. ASSUME userEntersNewChannel PROVE OwnersRespected'
  <2>1. h.to \in Chans =>
            h.c \in Clients /\ h.to < nextChanId /\ MayEnter(h.c, h.to)
    BY DEF OwnersHandler
  <2>2. \A ch \in Chans : \A c \in members'[ch] : ch < nextChanId /\ MayEnter(c, ch)
    BY <1>9, <2>1, SMT DEF userEntersNewChannel, OwnersOutside, TypeOK
  <2>3. \A c \in Clients : at'[c] # NoChan => at'[c] < nextChanId /\ MayEnter(c, at'[c])
    BY <1>9, <2>1, SMT DEF userEntersNewChannel, OwnersOutside, TypeOK, HandlerStates
  <2>4. OwnersOutside'
    BY <1>9, <2>2, <2>3 DEF userEntersNewChannel, OwnersOutside, MayEnter, roomVars, treeVars
  <2>5. h' = Idle \/ (h.next # "idle" /\ h' = [h EXCEPT !.pc = h.next])
    BY <1>9 DEF userEntersNewChannel, Continue
  <2>6. OwnersHandler'
    <3>1. h' = Idle \/ (h'.c = h.c /\ h'.to = h.to /\ h'.pc \in {"enter", "sync", "evict"})
      BY <2>5 DEF TypeOK, HandlerStates
    <3>2. UNCHANGED <<owner, nextChanId>>
      BY <1>9 DEF userEntersNewChannel, treeVars
    <3>. QED BY <3>1, <3>2, HandlerStays
  <2>. QED BY <2>4, <2>6
<1>10. ASSUME NEW a \in Clients, NEW t \in Clients, NEW ch \in Chans, handleUserState(a, t, ch)
       PROVE  OwnersRespected'
  <2>1. OwnersOutside'
    BY <1>10, OutsideShrinks DEF handleUserState, chanVars, roomVars, treeVars
  <2>2. ch < nextChanId /\ MayEnter(t, ch)
    BY <1>10, SMT
       DEF handleUserState, canMoveBoardScopedClient, FindByChannelID, sameBoard,
           OwnersOutside, MayEnter
  <2>3. OwnersHandler'
    BY <1>10, <2>2 DEF handleUserState, OwnersHandler, MayEnter, treeVars, TypeOK, HandlerStates
  <2>. QED BY <2>1, <2>3
<1>11. ASSUME NEW a \in Clients, NEW temp \in BOOLEAN, handleChannelCreate(a, temp)
       PROVE  OwnersRespected'
  <2>1. /\ OwnersOutside'
        /\ nextChanId \in Chans /\ nextChanId' = nextChanId + 1
        /\ owner'[nextChanId] = NoBoard
    BY <1>11, OutsideGrows DEF handleChannelCreate
  <2>2. h = Idle
    BY <1>11 DEF handleChannelCreate, OwnersHandler
  <2>3. h' = Idle \/ h' = [Idle EXCEPT !.pc = "enter", !.c = a, !.to = nextChanId]
    BY <1>11, <2>2 DEF handleChannelCreate
  <2>4. h' = Idle \/ (h'.pc = "enter" /\ h'.c = a /\ h'.to = nextChanId)
    BY <2>3 DEF Idle
  <2>5. CASE h' = Idle
    BY <2>1, <2>5 DEF OwnersHandler, Idle
  <2>6. CASE h'.pc = "enter" /\ h'.c = a /\ h'.to = nextChanId
    BY <2>1, <2>6, SMT DEF OwnersHandler, MayEnter
  <2>. QED BY <2>1, <2>4, <2>5, <2>6
<1>12. ASSUME NEW a \in Clients, NEW ch \in Chans, handleChannelRemove(a, ch)
       PROVE  OwnersRespected'
  <2>1. OwnersOutside'
    BY <1>12, OutsideShrinks DEF handleChannelRemove, chanVars, roomVars, treeVars
  <2>2. OwnersHandler'
    <3>1. h'.c = h.c /\ h'.to = h.to /\ h'.pc = "evict"
      BY <1>12 DEF handleChannelRemove, TypeOK, HandlerStates
    <3>2. UNCHANGED <<owner, nextChanId>>
      BY <1>12 DEF handleChannelRemove, treeVars
    <3>. QED BY <3>1, <3>2, HandlerStays
  <2>. QED BY <2>1, <2>2
<1>13. ASSUME NEW t \in Clients, RemoveChannelEvict(t) PROVE OwnersRespected'
  <2>1. OwnersOutside'
    BY <1>13, OutsideShrinks DEF RemoveChannelEvict, chanVars, roomVars, treeVars
  <2>2. Root < nextChanId /\ MayEnter(t, Root)
    <3>1. Root < nextChanId
      BY SMT DEF TypeOK, Root
    <3>2. owner[Root] = NoBoard
      BY DEF OwnersOutside
    <3>. QED BY <3>1, <3>2 DEF MayEnter
  <2>3. h'.pc = "enter" /\ h'.c = t /\ h'.to = Root
    BY <1>13 DEF RemoveChannelEvict, TypeOK, HandlerStates
  <2>4. UNCHANGED <<owner, nextChanId>>
    BY <1>13 DEF RemoveChannelEvict, treeVars
  <2>5. OwnersHandler'
    BY <2>2, <2>3, <2>4 DEF OwnersHandler, MayEnter
  <2>. QED BY <2>1, <2>5
<1>14. ASSUME RemoveChannelDelete PROVE OwnersRespected'
  <2>1. OwnersOutside'
    BY <1>14, OutsideShrinks DEF RemoveChannelDelete, chanVars, roomVars, treeVars
  <2>2. OwnersHandler'
    BY <1>14, HandlerStays DEF RemoveChannelDelete, treeVars
  <2>. QED BY <2>1, <2>2
<1>15. ASSUME removeTempChannel PROVE OwnersRespected'
  <2>1. OwnersOutside'
    BY <1>15, OutsideShrinks DEF removeTempChannel, chanVars, roomVars, treeVars
  <2>2. OwnersHandler'
    BY <1>15, HandlerStays DEF removeTempChannel, treeVars
  <2>. QED BY <2>1, <2>2
<1>16. ASSUME NEW t \in Clients, handleUserRemove(t) PROVE OwnersRespected'
  <2>1. OwnersOutside'
    BY <1>16, OutsideShrinks DEF handleUserRemove, chanVars, roomVars, treeVars
  <2>2. h = Idle
    BY <1>16 DEF handleUserRemove, OwnersHandler
  <2>3. OwnersHandler'
    BY <1>16, <2>2 DEF handleUserRemove, OwnersHandler, Idle
  <2>. QED BY <2>1, <2>3
<1>17. ASSUME teardownReturns PROVE OwnersRespected'
  <2>1. OwnersOutside'
    BY <1>17, OutsideShrinks DEF teardownReturns, chanVars, roomVars, treeVars
  <2>2. OwnersHandler'
    <3>1. h' = Idle \/ (h'.c = h.c /\ h'.to = h.to /\ h'.pc = "enter")
      BY <1>17 DEF teardownReturns, TypeOK, HandlerStates
    <3>2. UNCHANGED <<owner, nextChanId>>
      BY <1>17 DEF teardownReturns, treeVars
    <3>. QED BY <3>1, <3>2, HandlerStays
  <2>. QED BY <2>1, <2>2
<1>18. ASSUME NEW c \in Clients, Authenticate(c) PROVE OwnersRespected'
  <2>1. OwnersOutside'
    BY <1>18, OutsideShrinks DEF Authenticate, chanVars, roomVars, treeVars
  <2>2. OwnersHandler'
    BY <1>18, HandlerStays DEF Authenticate, treeVars
  <2>. QED BY <2>1, <2>2
<1>19. ASSUME NEW c \in Clients, AuthenticateFails(c) PROVE OwnersRespected'
  <2>1. OwnersOutside'
    BY <1>19, OutsideShrinks DEF AuthenticateFails, chanVars, roomVars, treeVars
  <2>2. OwnersHandler'
    BY <1>19, HandlerStays DEF AuthenticateFails, treeVars
  <2>. QED BY <2>1, <2>2
<1>20. ASSUME NEW c \in Clients, disconnect(c) PROVE OwnersRespected'
  <2>1. OwnersOutside'
    BY <1>20, OutsideShrinks DEF disconnect, chanVars, roomVars, treeVars
  <2>2. OwnersHandler'
    BY <1>20, HandlerStays DEF disconnect, treeVars
  <2>. QED BY <2>1, <2>2
<1>21. ASSUME NEW c \in Clients, RemoveClientFromChannel(c) PROVE OwnersRespected'
  <2>1. /\ \A ch \in Chans : members'[ch] \subseteq members[ch]
        /\ \A d \in Clients : at'[d] \in {at[d], NoChan}
    <3>1. CASE tdChan[c] = NoChan
      BY <1>21, <3>1 DEF RemoveClientFromChannel, chanVars
    <3>2. CASE tdChan[c] # NoChan
      <4>1. members' = [members EXCEPT ![tdChan[c]] = @ \ {c}] /\
            at' = [at EXCEPT ![c] = NoChan]
        BY <1>21, <3>2 DEF RemoveClientFromChannel
      <4>2. members \in [Chans -> SUBSET Clients] /\ at \in [Clients -> Chans \cup {NoChan}]
        BY DEF TypeOK
      <4>. QED BY <4>1, <4>2
    <3>. QED BY <3>1, <3>2
  <2>2. OwnersOutside'
    BY <1>21, <2>1, OutsideShrinks DEF RemoveClientFromChannel, roomVars, treeVars
  <2>3. OwnersHandler'
    BY <1>21, HandlerStays DEF RemoveClientFromChannel, treeVars
  <2>. QED BY <2>2, <2>3
<1>22. ASSUME NEW c \in Clients, leaveBoardVoiceRoom(c) PROVE OwnersRespected'
  <2>1. \A b \in Boards : roomChan'[b] \in {roomChan[b], NoChan}
    BY <1>22 DEF leaveBoardVoiceRoom, Leave, roomVars, TypeOK
  <2>2. OwnersOutside'
    BY <1>22, <2>1, OutsideShrinks DEF leaveBoardVoiceRoom, chanVars, treeVars
  <2>3. OwnersHandler'
    BY <1>22, HandlerStays DEF leaveBoardVoiceRoom, treeVars
  <2>. QED BY <2>2, <2>3
<1>23. ASSUME NEW c \in Clients, signalTempRemove(c) PROVE OwnersRespected'
  <2>1. OwnersOutside'
    BY <1>23, OutsideShrinks DEF signalTempRemove, chanVars, roomVars, treeVars
  <2>2. OwnersHandler'
    BY <1>23, HandlerStays DEF signalTempRemove, treeVars
  <2>. QED BY <2>1, <2>2
<1>24. CASE UNCHANGED vars
  BY <1>24, OutsideShrinks, HandlerStays DEF vars, chanVars, roomVars, treeVars
<1>. QED
  BY <1>1, <1>2, <1>3, <1>4, <1>5, <1>6, <1>7, <1>8, <1>9, <1>10, <1>11, <1>12, <1>13,
     <1>14, <1>15, <1>16, <1>17, <1>18, <1>19, <1>20, <1>21, <1>22, <1>23, <1>24
  DEF Next, HandlerContinues, HandlerSelects, Teardown

\* The server starts well typed.
LEMMA BoardTypeInit == Init => TypeOK
BY IdleType, SMT DEF Init, TypeOK, ClientStates, TeardownStates

\* Every reachable state is well typed; a channel made for a board is mapped to
\* that board only and, of the board-scoped clients, entered or headed for by
\* those of that board only (resolveAuthenticatedChannel, userEnterChannel).
THEOREM BoardInvariant == Spec => [](TypeOK /\ OwnersRespected)
<1>1. Init => TypeOK /\ OwnersRespected
  BY BoardTypeInit, OwnersInit
<1>2. TypeOK /\ OwnersRespected /\ [Next]_vars => (TypeOK /\ OwnersRespected)'
  BY BoardTypeStep, OwnersStep
<1>. QED BY <1>1, <1>2, PTL DEF Spec

\* Different boards never share a channel: rooms of two boards map to different
\* channels, and no board-scoped member of a room's channel is of another board.
THEOREM BoardRoomsApart == Spec => []BoardsNeverShareRoom
<1>1. TypeOK /\ OwnersRespected => BoardsNeverShareRoom
  BY SMT DEF TypeOK, OwnersRespected, BoardsNeverShareRoom, MayEnter, Scoped
<1>. QED BY <1>1, BoardInvariant, PTL

\* The fanout never carries the voice of a board-scoped speaker to a client of
\* another board or of none.
THEOREM BoardSilence == Spec => []CrossBoardSilence
<1>1. TypeOK /\ OwnersRespected => CrossBoardSilence
  <2>. SUFFICES ASSUME TypeOK, OwnersRespected, NEW s \in Clients, NEW t \in Clients,
                       t \in Audience(s), Scoped(s)
                PROVE  BoardOf[t] = BoardOf[s]
    BY DEF CrossBoardSilence
  <2>1. at[s] \in Chans /\ canReceiveFromClient(t, s)
    BY DEF Audience, TypeOK
  <2>2. PICK b \in Boards : roomChan[b] # NoChan /\ roomChan[b] = at[s] /\ BoardOf[t] = b
    BY <2>1 DEF canReceiveFromClient, FindByChannelID, sameBoard
  <2>3. owner[at[s]] = b /\ owner[at[s]] \in {NoBoard, BoardOf[s]}
    BY <2>1, <2>2 DEF OwnersRespected, MayEnter
  <2>. QED BY <2>2, <2>3
<1>. QED BY <1>1, BoardInvariant, PTL

-----------------------------------------------------------------------------
\* Who uses a board's room.

\* A client that has reached its room, and one whose teardown has not left it.
Entered == {"joining", "ready"}
Using == {"no", "claimed", "detached"}
Moving == {"enter", "send", "add"}
InUse(c) == state[c] \in Entered /\ td[c] \in Using

\* c's finishAuthenticate is under way and has registered c.
Finishing(c) == /\ h.c = c
                /\ \/ h.pc \in {"list", "sync"}
                   \/ h.pc \in Moving /\ h.next = "sync"

\* The client that is about to join is not being torn down.
JoinSound == h.pc = "join" => state[h.c] = "joining" /\ td[h.c] = "no"

\* A room has participants, and each of them a connection that has not left.
RoomsSound ==
    \A b \in Boards :
        /\ roomChan[b] = NoChan <=> parts[b] = {}
        /\ \A u \in parts[b] : \E c \in Clients : BoardOf[c] = b /\ UserOf[c] = u /\ InUse(c)

\* A registered client is not being torn down; only the handler's own client is
\* between joining and ready.
Known == /\ \A c \in registered : td[c] = "no" /\ state[c] \in Entered
         /\ \A c \in Clients : state[c] = "joining" /\ td[c] = "no" =>
                                   h.c = c /\ (h.pc = "join" \/ Finishing(c))

\* A client's channel has it as a member; until its teardown, no other has.
Attached == /\ \A c \in Clients : at[c] # NoChan => c \in members[at[c]]
            /\ \A ch \in Chans : \A c \in members[ch] :
                  state[c] \in Entered /\ (td[c] = "no" => at[c] = ch)

\* What the handler holds while it finishes an authentication or moves a client.
Holds == \/ h.pc \in {"join", "list", "enter", "send", "add", "sync"}
         \/ h.pc = "teardown" /\ h.next = "enter"
Busy == /\ Holds => h.c \in Clients /\ h.to \in Chans /\ state[h.c] \in Entered
        /\ h.pc \in {"send", "add"} => at[h.c] = NoChan
        /\ \A c \in late : state[c] \in Entered

\* The clients that RemoveChannel has yet to move are in the channel it removes.
Evicting == /\ \A t \in h.todo : state[t] \in Entered /\ (td[t] = "no" => at[t] = h.rm)
            /\ h.todo # {} => h.rm # NoChan
            /\ h.rm # NoChan <=> h.pc = "evict" \/ (h.pc \in Moving /\ h.next = "evict")
            /\ h.pc \in Moving => h.c \notin h.todo

RoomInv == /\ TypeOK /\ OwnersRespected /\ JoinSound /\ RoomsSound
           /\ Known /\ Attached /\ Busy /\ Evicting

-----------------------------------------------------------------------------
\* What each step can change.

\* The steps of a client's own goroutine.
Reader(c) == Authenticate(c) \/ AuthenticateFails(c) \/ disconnect(c) \/ Teardown(c)

\* A step is the handler's or a client's own.
LEMMA StepKinds == [Next]_vars => \/ HandlerContinues
                                  \/ HandlerSelects
                                  \/ \E c \in Clients : Reader(c)
                                  \/ UNCHANGED vars
BY DEF Next, Reader

\* Rooms are changed by Join and Leave only.
LEMMA WhoRooms == [Next]_vars => \/ UNCHANGED roomVars
                                 \/ joinBoardVoiceRoom
                                 \/ \E c \in Clients : leaveBoardVoiceRoom(c)
BY
   DEF Next, HandlerContinues, HandlerSelects, Teardown, vars, sendChannelList,
       sendChannelListFails, finishAuthenticate, finishAuthenticateFails,
       userLeavesOldChannel, sendTempRemove, userEntersNewChannel, RemoveChannelEvict,
       RemoveChannelDelete, teardownReturns, resolveAuthenticatedChannel, handleUserState,
       handleChannelCreate, handleChannelRemove, handleUserRemove, removeTempChannel,
       Authenticate, AuthenticateFails, disconnect, RemoveClientFromChannel,
       signalTempRemove

\* Channel memberships are changed by userEnterChannel and RemoveClient only.
LEMMA WhoPlaces == [Next]_vars => \/ UNCHANGED chanVars
                                  \/ userLeavesOldChannel
                                  \/ userEntersNewChannel
                                  \/ \E c \in Clients : RemoveClientFromChannel(c)
BY
   DEF Next, HandlerContinues, HandlerSelects, Teardown, vars, joinBoardVoiceRoom,
       sendChannelList, sendChannelListFails, finishAuthenticate, finishAuthenticateFails,
       sendTempRemove, RemoveChannelEvict, RemoveChannelDelete, teardownReturns,
       resolveAuthenticatedChannel, handleUserState, handleChannelCreate,
       handleChannelRemove, handleUserRemove, removeTempChannel, Authenticate,
       AuthenticateFails, disconnect, leaveBoardVoiceRoom, signalTempRemove

\* A client's state is changed by its authentication only.
LEMMA WhoState == [Next]_vars => \/ UNCHANGED state
                                 \/ \E c \in Clients : Authenticate(c)
                                 \/ \E c \in Clients : resolveAuthenticatedChannel(c)
                                 \/ finishAuthenticate
BY
   DEF Next, HandlerContinues, HandlerSelects, Teardown, vars, connVars, joinBoardVoiceRoom,
       sendChannelList, sendChannelListFails, finishAuthenticateFails, userLeavesOldChannel,
       sendTempRemove, userEntersNewChannel, RemoveChannelEvict, RemoveChannelDelete,
       teardownReturns, handleUserState, handleChannelCreate, handleChannelRemove,
       handleUserRemove, removeTempChannel, AuthenticateFails, disconnect,
       RemoveClientFromChannel, leaveBoardVoiceRoom, signalTempRemove

\* Teardowns are started by Claim and advanced by their own steps.
LEMMA WhoTeardown == [Next]_vars => \/ UNCHANGED td
                                    \/ Claim(h.c)
                                    \/ \E c \in Clients : Claim(c) \/ Teardown(c)
BY
   DEF Next, HandlerContinues, HandlerSelects, vars, tdVars, joinBoardVoiceRoom,
       sendChannelList, sendChannelListFails, finishAuthenticate, finishAuthenticateFails,
       userLeavesOldChannel, sendTempRemove, userEntersNewChannel, RemoveChannelEvict,
       RemoveChannelDelete, teardownReturns, resolveAuthenticatedChannel, handleUserState,
       handleChannelCreate, handleChannelRemove, handleUserRemove, removeTempChannel,
       Authenticate, AuthenticateFails, disconnect

\* Channels come with new ids and go with removals.
LEMMA WhoTree == [Next]_vars => \/ UNCHANGED <<channels, nextChanId>>
                                \/ \E temp, b : AddChannel(temp, b)
                                \/ channels' \subseteq channels
BY
   DEF Next, HandlerContinues, HandlerSelects, Teardown, vars, treeVars, joinBoardVoiceRoom,
       sendChannelList, sendChannelListFails, finishAuthenticate, finishAuthenticateFails,
       userLeavesOldChannel, sendTempRemove, userEntersNewChannel, RemoveChannelEvict,
       RemoveChannelDelete, teardownReturns, resolveAuthenticatedChannel, handleUserState,
       handleChannelCreate, handleChannelRemove, handleUserRemove, removeTempChannel,
       Authenticate, AuthenticateFails, disconnect, RemoveClientFromChannel,
       leaveBoardVoiceRoom, signalTempRemove

\* A client that has entered stays so; it gets there by finishAuthenticate.
LEMMA StateGrows ==
    ASSUME TypeOK, Busy, [Next]_vars, NEW c \in Clients
    PROVE  /\ state[c] \in Entered => state'[c] \in Entered
           /\ state'[c] \in Entered => state[c] \in Entered \/ resolveAuthenticatedChannel(c)
           /\ state'[c] = "ready" => state[c] = "ready" \/ (finishAuthenticate /\ h.c = c)
           /\ state'[c] = "joining" => state[c] = "joining" \/ resolveAuthenticatedChannel(c)
<1>0. state \in [Clients -> ClientStates]
  BY DEF TypeOK
<1>1. CASE UNCHANGED state
  BY <1>1
<1>2. ASSUME NEW d \in Clients, Authenticate(d)
      PROVE  state[d] = "connected" /\ state' = [state EXCEPT ![d] = "authenticated"]
  BY <1>2 DEF Authenticate
<1>3. ASSUME NEW d \in Clients, resolveAuthenticatedChannel(d)
      PROVE  state[d] = "authenticated" /\ state' = [state EXCEPT ![d] = "joining"]
  BY <1>3 DEF resolveAuthenticatedChannel
<1>4. CASE finishAuthenticate
  <2>1. state' = [state EXCEPT ![h.c] = "ready"] /\ state[h.c] \in Entered
    BY <1>4 DEF finishAuthenticate, Busy, Holds
  <2>. QED BY <1>0, <1>4, <2>1 DEF Entered
<1>5. CASE \E d \in Clients : Authenticate(d)
  BY <1>0, <1>2, <1>5 DEF Entered
<1>6. CASE \E d \in Clients : resolveAuthenticatedChannel(d)
  <2>1. PICK d \in Clients : resolveAuthenticatedChannel(d)
    BY <1>6
  <2>. QED BY <1>0, <1>3, <2>1 DEF Entered
<1>. QED BY <1>1, <1>4, <1>5, <1>6, WhoState

\* A teardown goes forward, and leaves the room in leaveBoardVoiceRoom only.
LEMMA TeardownGrows ==
    ASSUME TypeOK, [Next]_vars, NEW c \in Clients
    PROVE  /\ td'[c] = "no" => td[c] = "no"
           /\ td'[c] \in Using => td[c] \in Using
           /\ td[c] \in Using => td'[c] \in Using \/ leaveBoardVoiceRoom(c)
<1>0. td \in [Clients -> TeardownStates]
  BY DEF TypeOK
<1>1. CASE UNCHANGED td
  BY <1>1
<1>2. ASSUME NEW d, Claim(d) PROVE td[d] = "no" /\ td' = [td EXCEPT ![d] = "claimed"]
  BY <1>2 DEF Claim
<1>3. CASE Claim(h.c)
  BY <1>0, <1>2, <1>3 DEF Using
<1>4. CASE \E d \in Clients : Claim(d)
  BY <1>0, <1>2, <1>4 DEF Using
<1>5. CASE \E d \in Clients : RemoveClientFromChannel(d)
  BY <1>0, <1>5 DEF RemoveClientFromChannel, Using
<1>6. CASE \E d \in Clients : leaveBoardVoiceRoom(d)
  <2>1. PICK d \in Clients : leaveBoardVoiceRoom(d)
    BY <1>6
  <2>2. td[d] = "detached" /\ td' \in {[td EXCEPT ![d] = "destroyed"],
        [td EXCEPT ![d] = "done"]}
    BY <2>1 DEF leaveBoardVoiceRoom, Returned
  <2>. QED BY <1>0, <2>1, <2>2 DEF Using
<1>7. CASE \E d \in Clients : signalTempRemove(d)
  <2>1. PICK d \in Clients : td[d] = "destroyed" /\ td' = [td EXCEPT ![d] = "done"]
    BY <1>7 DEF signalTempRemove, Returned
  <2>. QED BY <1>0, <2>1 DEF Using
<1>. QED BY <1>1, <1>3, <1>4, <1>5, <1>6, <1>7, WhoTeardown DEF Teardown

\* A channel id that is gone does not come back.
LEMMA OrphanStays ==
    ASSUME TypeOK, OwnersRespected, [Next]_vars, NEW b \in Boards,
           roomChan'[b] = roomChan[b], Orphaned(b)
    PROVE  Orphaned(b)'
<1>1. roomChan[b] \in Chans /\ roomChan[b] \notin channels /\ roomChan[b] < nextChanId
  BY DEF Orphaned, OwnersRespected
<1>2. roomChan[b] \in Nat /\ nextChanId \in Nat
  BY <1>1, SMT DEF TypeOK
<1>3. roomChan[b] \notin channels'
  <2>1. CASE \E temp, b2 : AddChannel(temp, b2)
    <3>1. channels' = channels \cup {nextChanId}
      BY <2>1 DEF AddChannel
    <3>. QED BY <1>1, <1>2, <3>1, SMT
  <2>. QED BY <1>1, <2>1, WhoTree
<1>. QED BY <1>1, <1>3 DEF Orphaned

\* A room that is there before and after a step keeps its channel.
LEMMA RoomStable ==
    ASSUME TypeOK, [Next]_vars, NEW b \in Boards, roomChan[b] # NoChan, roomChan'[b] # NoChan
    PROVE  roomChan'[b] = roomChan[b]
<1>0. roomChan \in [Boards -> Chans \cup {NoChan}]
  BY DEF TypeOK
<1>1. CASE UNCHANGED roomVars
  BY <1>1 DEF roomVars
<1>2. CASE joinBoardVoiceRoom
  BY <1>0, <1>2 DEF joinBoardVoiceRoom, Join, roomVars
<1>3. CASE \E c \in Clients : leaveBoardVoiceRoom(c)
  BY <1>0, <1>3 DEF leaveBoardVoiceRoom, Leave, roomVars
<1>. QED BY <1>1, <1>2, <1>3, WhoRooms

-----------------------------------------------------------------------------
\* What the handler's steps do to its locals.

\* finishAuthenticate up to the channel list.
LEMMA JoinFields ==
    ASSUME TypeOK
    PROVE  /\ \A c \in Clients : resolveAuthenticatedChannel(c) =>
                  h'.pc = "join" /\ h'.c = c /\ h'.next = h.next /\ h'.rm = h.rm /\
                    h'.todo = h.todo
           /\ joinBoardVoiceRoom =>
                  h'.pc = "list" /\ h'.c = h.c /\ h'.to = h.to /\ h'.next = h.next
                  /\ h'.rm = h.rm /\ h'.todo = h.todo
           /\ sendChannelList =>
                  h'.pc = "enter" /\ h'.c = h.c /\ h'.to = h.to /\ h'.next = "sync"
                  /\ h'.rm = h.rm /\ h'.todo = h.todo
           /\ sendChannelListFails =>
                  h'.pc = "teardown" /\ h'.c = h.c /\ h'.to = h.to /\ h'.next = "enter"
                  /\ h'.rm = h.rm /\ h'.todo = h.todo
<1>0. h \in HandlerStates
  BY DEF TypeOK
<1>1. ASSUME NEW c \in Clients, resolveAuthenticatedChannel(c)
      PROVE  h'.pc = "join" /\ h'.c = c /\ h'.next = h.next /\ h'.rm = h.rm /\ h'.todo = h.todo
  <2>1. PICK ch : h' = [h EXCEPT !.pc = "join", !.c = c, !.to = ch]
    BY <1>1 DEF resolveAuthenticatedChannel
  <2>. QED BY <1>0, <2>1 DEF HandlerStates
<1>2. joinBoardVoiceRoom => h'.pc = "list" /\ h'.c = h.c /\ h'.to = h.to /\ h'.next = h.next
                            /\ h'.rm = h.rm /\ h'.todo = h.todo
  BY <1>0 DEF joinBoardVoiceRoom, HandlerStates
<1>3. sendChannelList => h'.pc = "enter" /\ h'.c = h.c /\ h'.to = h.to /\ h'.next = "sync"
                         /\ h'.rm = h.rm /\ h'.todo = h.todo
  BY <1>0 DEF sendChannelList, HandlerStates
<1>4. sendChannelListFails => h'.pc = "teardown" /\ h'.c = h.c /\ h'.to = h.to /\
      h'.next = "enter"
                              /\ h'.rm = h.rm /\ h'.todo = h.todo
  BY <1>0 DEF sendChannelListFails, HandlerStates
<1>. QED BY <1>1, <1>2, <1>3, <1>4

\* The end of finishAuthenticate, and of the handler's own call of disconnect.
LEMMA FinishFields ==
    ASSUME TypeOK
    PROVE  /\ finishAuthenticate => h' = Idle
           /\ finishAuthenticateFails =>
                  h' = Idle \/
                    (h'.pc = "teardown" /\ h'.c = h.c /\ h'.to = h.to /\ h'.next = "idle"
                                /\ h'.rm = h.rm /\ h'.todo = h.todo)
           /\ teardownReturns =>
                  h' = Idle \/
                    (h.next = "enter" /\ h'.pc = "enter" /\ h'.c = h.c /\ h'.to = h.to
                                /\ h'.next = "sync" /\ h'.rm = h.rm /\ h'.todo = h.todo)
<1>0. h \in HandlerStates
  BY DEF TypeOK
<1>1. finishAuthenticate => h' = Idle
  BY DEF finishAuthenticate
<1>2. finishAuthenticateFails =>
          h' = Idle \/ (h'.pc = "teardown" /\ h'.c = h.c /\ h'.to = h.to /\ h'.next = "idle"
                        /\ h'.rm = h.rm /\ h'.todo = h.todo)
  <2>1. finishAuthenticateFails => h' = Idle \/
        h' = [h EXCEPT !.pc = "teardown", !.next = "idle"]
    BY DEF finishAuthenticateFails
  <2>. QED BY <1>0, <2>1 DEF HandlerStates
<1>3. teardownReturns =>
          h' = Idle \/ (h.next = "enter" /\ h'.pc = "enter" /\ h'.c = h.c /\ h'.to = h.to
                        /\ h'.next = "sync" /\ h'.rm = h.rm /\ h'.todo = h.todo)
  <2>1. teardownReturns =>
          h' = Idle \/ (h.next = "enter" /\ h' = [h EXCEPT !.pc = "enter", !.next = "sync"])
    BY DEF teardownReturns
  <2>. QED BY <1>0, <2>1 DEF HandlerStates
<1>. QED BY <1>1, <1>2, <1>3

\* userEnterChannel keeps its arguments and its caller's locals until it returns.
SameCall == h'.c = h.c /\ h'.to = h.to /\ h'.next = h.next /\ h'.rm = h.rm /\ h'.todo = h.todo
Returns == (h.next = "idle" /\ h' = Idle) \/ (h.next # "idle" /\ h'.pc = h.next /\ SameCall)

\* The steps of userEnterChannel.
LEMMA EnterFields ==
    ASSUME TypeOK
    PROVE  /\ userLeavesOldChannel =>
                  \/ at[h.c] = h.to /\ Returns /\ UNCHANGED chanVars
                  \/ at[h.c] = NoChan /\ h'.pc = "add" /\ SameCall /\ UNCHANGED chanVars
                  \/ /\ at[h.c] # h.to /\ at[h.c] # NoChan
                     /\ h'.pc \in {"send", "add"} /\ SameCall
                     /\ members' = [members EXCEPT ![at[h.c]] = members[at[h.c]] \ {h.c}]
                     /\ at' = [at EXCEPT ![h.c] = NoChan]
           /\ sendTempRemove => h'.pc = "add" /\ SameCall
           /\ userEntersNewChannel => Returns
<1>0. h \in HandlerStates
  BY DEF TypeOK
<1>1. h' = Continue(h) => Returns
  <2>1. h' = Continue(h) => (h.next = "idle" /\ h' = Idle) \/
        (h.next # "idle" /\ h' = [h EXCEPT !.pc = h.next])
    BY DEF Continue
  <2>2. h' = [h EXCEPT !.pc = h.next] => h'.pc = h.next /\ SameCall
    BY <1>0 DEF HandlerStates, SameCall
  <2>. QED BY <2>1, <2>2 DEF Returns
<1>2. h' = [h EXCEPT !.pc = "add"] => h'.pc = "add" /\ SameCall
  BY <1>0 DEF HandlerStates, SameCall
<1>3. \A ch : h' = [h EXCEPT !.pc = "send", !.from = ch] => h'.pc = "send" /\ SameCall
  BY <1>0 DEF HandlerStates, SameCall
<1>4. h' = [h EXCEPT !.pc = "add", !.from = NoChan] => h'.pc = "add" /\ SameCall
  BY <1>0 DEF HandlerStates, SameCall
<1>5. userLeavesOldChannel =>
          \/ at[h.c] = h.to /\ h' = Continue(h) /\ UNCHANGED chanVars
          \/ at[h.c] = NoChan /\ h' = [h EXCEPT !.pc = "add"] /\ UNCHANGED chanVars
          \/ /\ at[h.c] # h.to /\ at[h.c] # NoChan
             /\ \/ h' = [h EXCEPT !.pc = "add"]
                \/ h' = [h EXCEPT !.pc = "send", !.from = at[h.c]]
             /\ members' = [members EXCEPT ![at[h.c]] = members[at[h.c]] \ {h.c}]
             /\ at' = [at EXCEPT ![h.c] = NoChan]
  BY DEF userLeavesOldChannel
<1>6. sendTempRemove => h'.pc = "add" /\ SameCall
  BY <1>4 DEF sendTempRemove
<1>7. userEntersNewChannel => Returns
  BY <1>1 DEF userEntersNewChannel
<1>. QED BY <1>1, <1>2, <1>3, <1>5, <1>6, <1>7

\* What the handler takes up at its select statement, and RemoveChannel.
LEMMA SelectFields ==
    ASSUME TypeOK
    PROVE  /\ \A a, t \in Clients : \A ch \in Chans : handleUserState(a, t, ch) =>
                  h'.pc = "enter" /\ h'.c = t /\ h'.to = ch /\ h'.next = h.next
                  /\ h'.rm = h.rm /\ h'.todo = h.todo
           /\ \A a \in Clients : \A temp \in BOOLEAN : handleChannelCreate(a, temp) =>
                  h' = h \/
                    (h'.pc = "enter" /\ h'.c = a /\ h'.to = nextChanId /\ h'.next = h.next
                             /\ h'.rm = h.rm /\ h'.todo = h.todo)
           /\ \A a \in Clients : \A ch \in Chans : handleChannelRemove(a, ch) =>
                  h'.pc = "evict" /\ h'.next = h.next /\ h'.rm = ch /\ h'.todo = members[ch]
           /\ \A t \in Clients : handleUserRemove(t) =>
                  h'.pc = "teardown" /\ h'.c = t /\ h'.next = h.next
                  /\ h'.rm = h.rm /\ h'.todo = h.todo
           /\ \A t \in Clients : RemoveChannelEvict(t) =>
                  h'.pc = "enter" /\ h'.c = t /\ h'.to = Root /\ h'.next = "evict"
                  /\ h'.rm = h.rm /\ h'.todo = h.todo \ {t}
<1>0. h \in HandlerStates
  BY DEF TypeOK
<1>1. ASSUME NEW a \in Clients, NEW t \in Clients, NEW ch \in Chans, handleUserState(a, t, ch)
      PROVE  h'.pc = "enter" /\ h'.c = t /\ h'.to = ch /\ h'.next = h.next
             /\ h'.rm = h.rm /\ h'.todo = h.todo
  BY <1>0, <1>1 DEF handleUserState, HandlerStates
<1>2. ASSUME NEW a \in Clients, NEW temp \in BOOLEAN, handleChannelCreate(a, temp)
      PROVE  h' = h \/ (h'.pc = "enter" /\ h'.c = a /\ h'.to = nextChanId /\ h'.next = h.next
                        /\ h'.rm = h.rm /\ h'.todo = h.todo)
  <2>1. h' = h \/ h' = [h EXCEPT !.pc = "enter", !.c = a, !.to = nextChanId]
    BY <1>2 DEF handleChannelCreate
  <2>. QED BY <1>0, <2>1 DEF HandlerStates
<1>3. ASSUME NEW a \in Clients, NEW ch \in Chans, handleChannelRemove(a, ch)
      PROVE  h'.pc = "evict" /\ h'.next = h.next /\ h'.rm = ch /\ h'.todo = members[ch]
  BY <1>0, <1>3 DEF handleChannelRemove, HandlerStates
<1>4. ASSUME NEW t \in Clients, handleUserRemove(t)
      PROVE  h'.pc = "teardown" /\ h'.c = t /\ h'.next = h.next
             /\ h'.rm = h.rm /\ h'.todo = h.todo
  BY <1>0, <1>4 DEF handleUserRemove, HandlerStates
<1>5. ASSUME NEW t \in Clients, RemoveChannelEvict(t)
      PROVE  h'.pc = "enter" /\ h'.c = t /\ h'.to = Root /\ h'.next = "evict"
             /\ h'.rm = h.rm /\ h'.todo = h.todo \ {t}
  BY <1>0, <1>5 DEF RemoveChannelEvict, HandlerStates
<1>. QED BY <1>1, <1>2, <1>3, <1>4, <1>5

\* A client's own goroutine leaves the handler and the tree alone, and touches
\* the states of no other client; it does nothing between joining and ready.
LEMMA ReaderSteps ==
    ASSUME TypeOK, NEW c \in Clients, Reader(c)
    PROVE  /\ h' = h /\ UNCHANGED treeVars /\ late' = late
           /\ \A d \in Clients \ {c} : /\ state'[d] = state[d] /\ td'[d] = td[d] /\
                                          at'[d] = at[d]
                                       /\ d \in registered' <=> d \in registered
           /\ td'[c] = "no" => state[c] = "connected" /\ registered' = registered
           /\ td[c] = "no" => state[c] \in {"connected", "ready"}
           /\ td[c] = "no" /\ td'[c] # "no" => c \notin registered'
           /\ at'[c] \in {at[c], NoChan}
           /\ td'[c] = "no" => at'[c] = at[c]
           /\ registered' \subseteq registered
<1>0. /\ state \in [Clients -> ClientStates] /\ td \in [Clients -> TeardownStates]
      /\ at \in [Clients -> Chans \cup {NoChan}]
  BY DEF TypeOK
<1>1. CASE Authenticate(c)
  BY <1>0, <1>1 DEF Authenticate, tdVars, chanVars
<1>2. ASSUME Claim(c)
      PROVE  td[c] = "no" /\ td' = [td EXCEPT ![c] = "claimed"] /\
        registered' = registered \ {c}
  BY <1>2 DEF Claim
<1>3. CASE AuthenticateFails(c)
  <2>1. /\ state[c] = "connected" /\ state' = state /\ at' = at /\ h' = h /\ late' = late
        /\ Claim(c) /\ UNCHANGED treeVars
    BY <1>3 DEF AuthenticateFails, chanVars
  <2>. QED BY <1>0, <1>2, <2>1
<1>4. CASE disconnect(c)
  <2>1. /\ state[c] = "ready" /\ state' = state /\ at' = at /\ h' = h /\ late' = late
        /\ Claim(c) /\ UNCHANGED treeVars
    BY <1>4 DEF disconnect, chanVars
  <2>. QED BY <1>0, <1>2, <2>1
<1>5. CASE RemoveClientFromChannel(c)
  <2>1. /\ td[c] = "claimed" /\ td' = [td EXCEPT ![c] = "detached"]
        /\ at' = at \/ at' = [at EXCEPT ![c] = NoChan]
        /\ state' = state /\ registered' = registered /\ h' = h /\ late' = late /\
           UNCHANGED treeVars
    BY <1>5 DEF RemoveClientFromChannel, chanVars, connVars
  <2>. QED BY <1>0, <2>1
<1>6. CASE leaveBoardVoiceRoom(c)
  <2>1. /\ td[c] = "detached"
        /\ td' = [td EXCEPT ![c] = "destroyed"] \/ td' = [td EXCEPT ![c] = "done"]
        /\ state' = state /\ registered' = registered /\ at' = at /\ h' = h /\ late' = late
        /\ UNCHANGED treeVars
    BY <1>6 DEF leaveBoardVoiceRoom, Returned, chanVars, connVars
  <2>. QED BY <1>0, <2>1
<1>7. CASE signalTempRemove(c)
  <2>1. /\ td[c] = "destroyed" /\ td' = [td EXCEPT ![c] = "done"]
        /\ state' = state /\ registered' = registered /\ at' = at /\ h' = h /\ late' = late
        /\ UNCHANGED treeVars
    BY <1>7 DEF signalTempRemove, Returned, chanVars, connVars
  <2>. QED BY <1>0, <2>1
<1>. QED BY <1>1, <1>3, <1>4, <1>5, <1>6, <1>7 DEF Reader, Teardown

\* The handler waits in front of Join until it joins.
LEMMA JoinWaits ==
    ASSUME TypeOK, [Next]_vars, h.pc = "join", ~joinBoardVoiceRoom
    PROVE  h' = h /\ (UNCHANGED vars \/ \E c \in Clients : Reader(c))
<1>1. ~HandlerContinues
  BY
     DEF HandlerContinues, sendChannelList, sendChannelListFails, finishAuthenticate,
         finishAuthenticateFails, userLeavesOldChannel, sendTempRemove,
         userEntersNewChannel, RemoveChannelEvict, RemoveChannelDelete, teardownReturns
<1>2. ~HandlerSelects
  BY
     DEF HandlerSelects, resolveAuthenticatedChannel, handleUserState, handleChannelCreate,
         handleChannelRemove, handleUserRemove, removeTempChannel
<1>3. UNCHANGED vars => h' = h
  BY DEF vars
<1>. QED BY <1>1, <1>2, <1>3, StepKinds, ReaderSteps

\* The handler gets in front of Join by resolveAuthenticatedChannel.
LEMMA JoinStarts ==
    ASSUME TypeOK, OwnersRespected, [Next]_vars, h'.pc = "join"
    PROVE  \/ \E c \in Clients : resolveAuthenticatedChannel(c)
           \/ h.pc = "join" /\ ~joinBoardVoiceRoom
<1>1. Idle.pc = "idle" /\ h.next # "join"
  BY DEF Idle, TypeOK, HandlerStates
<1>2. ~HandlerContinues
  <2>1. ~(joinBoardVoiceRoom \/ sendChannelList \/ sendChannelListFails)
    BY JoinFields
  <2>2. ~(finishAuthenticate \/ finishAuthenticateFails \/ teardownReturns)
    BY <1>1, FinishFields
  <2>3. ~Returns
    BY <1>1 DEF Returns
  <2>4. ~(userLeavesOldChannel \/ sendTempRemove \/ userEntersNewChannel)
    BY <2>3, EnterFields
  <2>5. ~(\E t \in Clients : RemoveChannelEvict(t))
    BY SelectFields
  <2>6. ~RemoveChannelDelete
    BY <1>1 DEF RemoveChannelDelete
  <2>. QED BY <2>1, <2>2, <2>4, <2>5, <2>6 DEF HandlerContinues
<1>3. HandlerSelects => \E c \in Clients : resolveAuthenticatedChannel(c)
  <2>1. ~(\E a, t \in Clients : \E ch \in Chans : handleUserState(a, t, ch))
    BY SelectFields
  <2>2. ~(\E a \in Clients : \E temp \in BOOLEAN : handleChannelCreate(a, temp))
    <3>1. ASSUME NEW a \in Clients, NEW temp \in BOOLEAN, handleChannelCreate(a, temp)
          PROVE  FALSE
      <4>1. h.pc = "idle"
        BY <3>1 DEF handleChannelCreate
      <4>. QED BY <3>1, <4>1, SelectFields
    <3>. QED BY <3>1
  <2>3. ~(\E a \in Clients : \E ch \in Chans : handleChannelRemove(a, ch))
    BY SelectFields
  <2>4. ~(\E t \in Clients : handleUserRemove(t))
    BY SelectFields
  <2>5. ~removeTempChannel
    BY DEF removeTempChannel
  <2>. QED BY <2>1, <2>2, <2>3, <2>4, <2>5 DEF HandlerSelects
<1>4. (\E c \in Clients : Reader(c)) \/ UNCHANGED vars => h' = h
  BY ReaderSteps DEF vars
<1>5. joinBoardVoiceRoom => HandlerContinues
  BY DEF HandlerContinues
<1>. QED BY <1>2, <1>3, <1>4, <1>5, StepKinds

-----------------------------------------------------------------------------
\* Each part of RoomInv is kept by every step.

\* The client in front of Join is touched by nobody else.
LEMMA JoinSoundStep ==
    ASSUME TypeOK, OwnersRespected, JoinSound, [Next]_vars PROVE JoinSound'
<1>. SUFFICES ASSUME h'.pc = "join" PROVE state'[h'.c] = "joining" /\ td'[h'.c] = "no"
  BY DEF JoinSound
<1>1. ASSUME NEW c \in Clients, resolveAuthenticatedChannel(c)
      PROVE  state'[h'.c] = "joining" /\ td'[h'.c] = "no"
  <2>1. h'.c = c
    BY <1>1, JoinFields
  <2>2. state' = [state EXCEPT ![c] = "joining"] /\ td[c] = "no" /\ td' = td
    BY <1>1 DEF resolveAuthenticatedChannel, tdVars
  <2>. QED BY <2>1, <2>2 DEF TypeOK
<1>2. ASSUME h.pc = "join", ~joinBoardVoiceRoom
      PROVE  state'[h'.c] = "joining" /\ td'[h'.c] = "no"
  <2>1. h.c \in Clients /\ state[h.c] = "joining" /\ td[h.c] = "no"
    BY <1>2 DEF OwnersRespected, JoinSound
  <2>2. h' = h
    BY <1>2, JoinWaits
  <2>3. PICK d \in Clients : d = h.c
    BY <2>1
  <2>4. state'[d] = state[d] /\ td'[d] = td[d]
    <3>1. CASE UNCHANGED vars
      BY <3>1 DEF vars, connVars, tdVars
    <3>2. ASSUME NEW c \in Clients, Reader(c) PROVE state'[d] = state[d] /\ td'[d] = td[d]
      <4>1. c # d
        BY <2>1, <2>3, <3>2, ReaderSteps, SMT
      <4>. QED BY <3>2, <4>1, ReaderSteps, SMT
    <3>. QED BY <1>2, <3>1, <3>2, JoinWaits
  <2>. QED BY <2>1, <2>2, <2>3, <2>4
<1>. QED BY <1>1, <1>2, JoinStarts

\* A participant's connection stays until it leaves, and takes its user along.
LEMMA RoomsSoundStep ==
    ASSUME TypeOK, OwnersRespected, JoinSound, Busy, RoomsSound, [Next]_vars PROVE RoomsSound'
<1>0. /\ roomChan \in [Boards -> Chans \cup {NoChan}]
      /\ parts \in [Boards -> SUBSET Users]
  BY DEF TypeOK
<1>1. ASSUME NEW c \in Clients, InUse(c), ~leaveBoardVoiceRoom(c) PROVE InUse(c)'
  BY <1>1, StateGrows, TeardownGrows DEF InUse
<1>2. CASE joinBoardVoiceRoom
  <2>1. h.c \in Clients /\ h.to \in Chans /\ InUse(h.c)
    BY <1>2 DEF joinBoardVoiceRoom, Busy, Holds, JoinSound, InUse, Using
  <2>2. PICK d \in Clients : d = h.c
    BY <2>1
  <2>3. \A c \in Clients : InUse(c) => InUse(c)'
    BY <1>2 DEF joinBoardVoiceRoom, InUse, tdVars
  <2>4. CASE ~Scoped(d)
    <3>1. UNCHANGED roomVars
      BY <1>2, <2>2, <2>4 DEF joinBoardVoiceRoom
    <3>. QED BY <2>3, <3>1, SMT DEF RoomsSound, roomVars
  <2>5. CASE Scoped(d)
    <3>1. Join(BoardOf[d], UserOf[d], h.to) /\ BoardOf[d] \in Boards
      BY <1>2, <2>2, <2>5 DEF joinBoardVoiceRoom, Scoped
    <3>. SUFFICES ASSUME NEW b \in Boards
                  PROVE  /\ roomChan'[b] = NoChan <=> parts'[b] = {}
                         /\ \A u \in parts'[b] :
                               \E c \in Clients : BoardOf[c] = b /\ UserOf[c] = u /\ InUse(c)'
      BY DEF RoomsSound
    <3>2. CASE b = BoardOf[d]
      <4>1. parts'[b] = parts[b] \cup {UserOf[d]} /\ roomChan'[b] # NoChan
        BY <1>0, <2>1, <3>1, <3>2 DEF Join
      <4>2. InUse(d)'
        BY <2>1, <2>2, <2>3
      <4>. QED BY <2>3, <3>2, <4>1, <4>2 DEF RoomsSound
    <3>3. CASE b # BoardOf[d]
      <4>1. parts'[b] = parts[b] /\ roomChan'[b] = roomChan[b]
        BY <1>0, <3>1, <3>3 DEF Join
      <4>. QED BY <2>3, <4>1, SMT DEF RoomsSound
    <3>. QED BY <3>2, <3>3
  <2>. QED BY <2>4, <2>5
<1>3. ASSUME NEW d \in Clients, leaveBoardVoiceRoom(d) PROVE RoomsSound'
  <2>1. \A c \in Clients \ {d} : InUse(c) => InUse(c)'
    <3>1. Reader(d)
      BY <1>3 DEF Reader, Teardown
    <3>. QED BY <3>1, ReaderSteps DEF InUse
  <2>. SUFFICES ASSUME NEW b \in Boards
                PROVE  /\ roomChan'[b] = NoChan <=> parts'[b] = {}
                       /\ \A u \in parts'[b] :
                             \E c \in Clients : BoardOf[c] = b /\ UserOf[c] = u /\ InUse(c)'
    BY DEF RoomsSound
  <2>2. CASE Scoped(d) /\ roomChan[BoardOf[d]] # NoChan
    <3>1. Leave(BoardOf[d], UserOf[d]) /\ BoardOf[d] \in Boards
      BY <1>3, <2>2 DEF leaveBoardVoiceRoom, Scoped
    <3>2. CASE b = BoardOf[d]
      <4>1. /\ parts'[b] = parts[b] \ {UserOf[d]}
            /\ roomChan'[b] = NoChan <=> parts'[b] = {}
        BY <1>0, <2>2, <3>1, <3>2 DEF Leave
      <4>. QED BY <2>1, <4>1 DEF RoomsSound
    <3>3. CASE b # BoardOf[d]
      <4>1. parts'[b] = parts[b] /\ roomChan'[b] = roomChan[b]
        BY <1>0, <3>1, <3>3 DEF Leave
      <4>. QED BY <2>1, <3>3, <4>1, SMT DEF RoomsSound
    <3>. QED BY <3>2, <3>3
  <2>3. CASE ~(Scoped(d) /\ roomChan[BoardOf[d]] # NoChan)
    <3>1. UNCHANGED roomVars
      BY <1>3, <2>3 DEF leaveBoardVoiceRoom
    <3>2. parts'[b] = parts[b] /\ roomChan'[b] = roomChan[b]
      BY <3>1 DEF roomVars
    <3>3. b # BoardOf[d] \/ parts[b] = {}
      BY <2>3, SMT DEF Scoped, RoomsSound
    <3>. QED BY <2>1, <3>2, <3>3, SMT DEF RoomsSound
  <2>. QED BY <2>2, <2>3
<1>4. CASE UNCHANGED roomVars /\ ~(\E d \in Clients : leaveBoardVoiceRoom(d))
  BY <1>1, <1>4, SMT DEF RoomsSound, roomVars
<1>. QED BY <1>2, <1>3, <1>4, WhoRooms

\* Clients are registered by finishAuthenticate and go with their Claim.
LEMMA WhoRegistered == [Next]_vars => \/ UNCHANGED <<registered, td>>
                                      \/ joinBoardVoiceRoom
                                      \/ Claim(h.c)
                                      \/ \E c \in Clients : Claim(c) \/ Teardown(c)
BY
   DEF Next, HandlerContinues, HandlerSelects, vars, tdVars, connVars, sendChannelList,
       sendChannelListFails, finishAuthenticate, finishAuthenticateFails,
       userLeavesOldChannel, sendTempRemove, userEntersNewChannel, RemoveChannelEvict,
       RemoveChannelDelete, teardownReturns, resolveAuthenticatedChannel, handleUserState,
       handleChannelCreate, handleChannelRemove, handleUserRemove, removeTempChannel,
       Authenticate, AuthenticateFails, disconnect

\* Only a kicked client is late.
LEMMA WhoLate == [Next]_vars => late' \subseteq late \/
  \E t \in registered : late' = late \cup {t}
BY
   DEF Next, HandlerContinues, HandlerSelects, Teardown, vars, connVars, Sends,
       joinBoardVoiceRoom, sendChannelList, sendChannelListFails, finishAuthenticate,
       finishAuthenticateFails, userLeavesOldChannel, sendTempRemove, userEntersNewChannel,
       RemoveChannelEvict, RemoveChannelDelete, teardownReturns,
       resolveAuthenticatedChannel, handleUserState, handleChannelCreate,
       handleChannelRemove, handleUserRemove, removeTempChannel, Authenticate,
       AuthenticateFails, disconnect, RemoveClientFromChannel, leaveBoardVoiceRoom,
       signalTempRemove

\* Where the handler is says which step it can take; otherwise it stays there.
Stays == h' = h /\ (UNCHANGED vars \/ \E c \in Clients : Reader(c))
LEMMA HandlerAt ==
    ASSUME TypeOK, [Next]_vars
    PROVE  \/ Stays
           \/ h.pc = "idle" /\ HandlerSelects
           \/ h.pc = "join" /\ joinBoardVoiceRoom
           \/ h.pc = "list" /\ (sendChannelList \/ sendChannelListFails)
           \/ h.pc = "enter" /\ userLeavesOldChannel
           \/ h.pc = "send" /\ sendTempRemove
           \/ h.pc = "add" /\ userEntersNewChannel
           \/ h.pc = "sync" /\ (finishAuthenticate \/ finishAuthenticateFails)
           \/ h.pc = "evict" /\
              ((\E t \in Clients : RemoveChannelEvict(t)) \/ RemoveChannelDelete)
           \/ h.pc = "teardown" /\ teardownReturns
<1>1. HandlerSelects => h.pc = "idle"
  BY
     DEF HandlerSelects, resolveAuthenticatedChannel, handleUserState, handleChannelCreate,
         handleChannelRemove, handleUserRemove, removeTempChannel
<1>2. UNCHANGED vars => h' = h
  BY DEF vars
<1>3. (\E c \in Clients : Reader(c)) => Stays
  BY ReaderSteps DEF Stays
<1>4. CASE HandlerContinues
  <2>1. /\ joinBoardVoiceRoom => h.pc = "join"
        /\ sendChannelList \/ sendChannelListFails => h.pc = "list"
        /\ userLeavesOldChannel => h.pc = "enter"
        /\ sendTempRemove => h.pc = "send"
        /\ userEntersNewChannel => h.pc = "add"
    BY DEF joinBoardVoiceRoom, sendChannelList, sendChannelListFails, userLeavesOldChannel,
       sendTempRemove, userEntersNewChannel
  <2>2. /\ finishAuthenticate \/ finishAuthenticateFails => h.pc = "sync"
        /\ (\E t \in Clients : RemoveChannelEvict(t)) \/ RemoveChannelDelete => h.pc = "evict"
        /\ teardownReturns => h.pc = "teardown"
    BY
       DEF finishAuthenticate, finishAuthenticateFails, RemoveChannelEvict,
           RemoveChannelDelete, teardownReturns
  <2>. QED BY <1>4, <2>1, <2>2 DEF HandlerContinues
<1>. QED BY <1>1, <1>2, <1>3, <1>4, StepKinds DEF Stays

\* A client is registered by Join and leaves the map when its teardown starts;
\* between joining and ready it is the handler's.
LEMMA KnownStep ==
    ASSUME TypeOK, OwnersRespected, JoinSound, Busy, Known, [Next]_vars PROVE Known'
<1>0. td \in [Clients -> TeardownStates] /\ registered \in SUBSET Clients
  BY DEF TypeOK
<1>1. ASSUME NEW c \in registered' PROVE td'[c] = "no" /\ state'[c] \in Entered
  <2>1. CASE UNCHANGED <<registered, td>>
    BY <1>0, <2>1, StateGrows DEF Known
  <2>2. CASE joinBoardVoiceRoom
    <3>1. registered' = registered \cup {h.c} /\ td' = td /\ state' = state
      BY <2>2 DEF joinBoardVoiceRoom, tdVars
    <3>2. td[h.c] = "no" /\ state[h.c] \in Entered
      BY <2>2 DEF joinBoardVoiceRoom, JoinSound, Entered
    <3>. QED BY <3>1, <3>2 DEF Known
  <2>3. ASSUME NEW d, Claim(d) PROVE td'[c] = "no" /\ state'[c] \in Entered
    <3>1. registered' = registered \ {d} /\ td' = [td EXCEPT ![d] = "claimed"]
      BY <2>3 DEF Claim
    <3>2. c \in registered /\ c \in Clients /\ td'[c] = td[c]
      BY <1>0, <3>1
    <3>. QED BY <3>2, StateGrows DEF Known
  <2>4. ASSUME NEW d \in Clients, Teardown(d) PROVE td'[c] = "no" /\ state'[c] \in Entered
    <3>1. Reader(d)
      BY <2>4 DEF Reader
    <3>2. td[d] # "no"
      BY <2>4 DEF Teardown, RemoveClientFromChannel, leaveBoardVoiceRoom, signalTempRemove
    <3>3. c \in registered /\ c \in Clients /\ c # d
      BY <1>0, <3>1, <3>2, ReaderSteps, SMT DEF Known
    <3>4. td'[c] = td[c]
      BY <3>1, <3>3, ReaderSteps
    <3>. QED BY <3>3, <3>4, StateGrows DEF Known
  <2>. QED BY <2>1, <2>2, <2>3, <2>4, WhoRegistered
<1>2. ASSUME NEW c \in Clients, state'[c] = "joining", td'[c] = "no"
      PROVE  h'.c = c /\ (h'.pc = "join" \/ Finishing(c)')
  <2>1. CASE resolveAuthenticatedChannel(c)
    BY <2>1, JoinFields
  <2>2. CASE ~resolveAuthenticatedChannel(c)
    <3>1. state[c] = "joining" /\ td[c] = "no"
      BY <1>2, <2>2, StateGrows, TeardownGrows
    <3>2. h.c = c /\ (h.pc = "join" \/ Finishing(c))
      BY <3>1 DEF Known
    <3>3. h.pc \in {"join", "list", "sync"} \/ (h.pc \in Moving /\ h.next = "sync")
      BY <3>2 DEF Finishing
    <3>4. CASE Stays
      BY <3>2, <3>4 DEF Stays, Finishing
    <3>5. CASE h.pc = "join" /\ joinBoardVoiceRoom
      BY <3>2, <3>5, JoinFields DEF Finishing
    <3>6. CASE sendChannelList
      BY <3>2, <3>6, JoinFields DEF Finishing, Moving
    <3>7. ASSUME Claim(c) PROVE FALSE
      BY <1>0, <1>2, <3>7 DEF Claim
    <3>8. ~sendChannelListFails
      BY <3>2, <3>7 DEF sendChannelListFails
    <3>9. ~finishAuthenticateFails
      BY <3>1, <3>2, <3>7 DEF finishAuthenticateFails
    <3>10. ~finishAuthenticate
      BY <1>2, <3>2 DEF finishAuthenticate, TypeOK
    <3>11. Returns /\ h.next = "sync" => h'.c = c /\ Finishing(c)'
      BY <3>2 DEF Returns, SameCall, Finishing
    <3>12. h'.pc \in {"send", "add"} /\ SameCall /\ h.next = "sync" => h'.c = c /\ Finishing(c)'
      BY <3>2 DEF SameCall, Finishing, Moving
    <3>13. CASE h.pc = "enter" /\ userLeavesOldChannel
      BY <3>3, <3>11, <3>12, <3>13, EnterFields DEF Moving
    <3>14. CASE h.pc = "send" /\ sendTempRemove
      BY <3>3, <3>12, <3>14, EnterFields DEF Moving
    <3>15. CASE h.pc = "add" /\ userEntersNewChannel
      BY <3>3, <3>11, <3>15, EnterFields DEF Moving
    <3>. QED BY <3>3, <3>4, <3>5, <3>6, <3>8, <3>9, <3>10, <3>13, <3>14, <3>15, HandlerAt
                DEF Moving
  <2>. QED BY <2>1, <2>2
<1>. QED BY <1>1, <1>2 DEF Known

\* Membership and the client's own channel change together.
LEMMA AttachedStep == ASSUME TypeOK, Busy, Attached, [Next]_vars PROVE Attached'
<1>0. /\ members \in [Chans -> SUBSET Clients] /\ at \in [Clients -> Chans \cup {NoChan}]
  BY DEF TypeOK
<1>1. \A c \in Clients : /\ state[c] \in Entered => state'[c] \in Entered
                         /\ td'[c] = "no" => td[c] = "no"
  BY StateGrows, TeardownGrows
<1>2. CASE UNCHANGED chanVars
  BY <1>0, <1>1, <1>2 DEF Attached, chanVars
<1>3. CASE userLeavesOldChannel /\ ~UNCHANGED chanVars
  <2>1. PICK c \in Clients : c = h.c
    BY <1>3 DEF userLeavesOldChannel, Busy, Holds
  <2>2. /\ at[c] # NoChan
        /\ members' = [members EXCEPT ![at[c]] = members[at[c]] \ {c}]
        /\ at' = [at EXCEPT ![c] = NoChan]
    BY <1>3, <2>1, EnterFields
  <2>3. \A d \in Clients : at'[d] # NoChan => d # c /\ at'[d] = at[d] /\ d \in members'[at[d]]
    BY <1>0, <2>2, SMT DEF Attached
  <2>4. \A ch \in Chans : \A d \in members'[ch] :
            state'[d] \in Entered /\ (td'[d] = "no" => at'[d] = ch)
    BY <1>0, <1>1, <2>2 DEF Attached
  <2>. QED BY <2>3, <2>4 DEF Attached
<1>4. CASE userEntersNewChannel
  <2>1. h.c \in Clients /\ h.to \in Chans /\ state[h.c] \in Entered /\ at[h.c] = NoChan
    BY <1>4 DEF userEntersNewChannel, Busy, Holds
  <2>2. PICK c \in Clients, ch0 \in Chans : c = h.c /\ ch0 = h.to
    BY <2>1
  <2>3. /\ members' = [members EXCEPT ![ch0] = members[ch0] \cup {c}]
        /\ at' = [at EXCEPT ![c] = ch0]
    BY <1>4, <2>2 DEF userEntersNewChannel
  <2>4. \A d \in Clients : at'[d] # NoChan => d \in members'[at'[d]]
    BY <1>0, <2>3, SMT DEF Attached
  <2>5. state'[c] \in Entered
    BY <1>1, <2>1, <2>2
  <2>6. \A ch \in Chans : c \in members[ch] /\ td[c] = "no" => FALSE
    BY <2>1, <2>2 DEF Attached
  <2>7. \A ch \in Chans : \A d \in members'[ch] :
            state'[d] \in Entered /\ (td'[d] = "no" => at'[d] = ch)
    BY <1>0, <1>1, <2>3, <2>5, <2>6, SMT DEF Attached
  <2>. QED BY <2>4, <2>7 DEF Attached
<1>5. ASSUME NEW c \in Clients, RemoveClientFromChannel(c) PROVE Attached'
  <2>1. td'[c] # "no" /\ state' = state /\ \A d \in Clients \ {c} : td'[d] = td[d]
    BY <1>5 DEF RemoveClientFromChannel, TypeOK, connVars
  <2>2. CASE UNCHANGED chanVars
    BY <1>2, <2>2
  <2>3. CASE ~UNCHANGED chanVars
    <3>1. PICK old \in Chans \cup {NoChan} : old = tdChan[c]
      BY DEF TypeOK
    <3>2. /\ members' = [members EXCEPT ![old] = members[old] \ {c}]
          /\ at' = [at EXCEPT ![c] = NoChan]
      BY <1>5, <2>3, <3>1 DEF RemoveClientFromChannel
    <3>3. \A ch \in Chans : members'[ch] \subseteq members[ch] /\
          \A d \in members[ch] : d # c => d \in members'[ch]
      BY <1>0, <3>2
    <3>4. \A d \in Clients : at'[d] # NoChan => d # c /\ at'[d] = at[d]
      BY <1>0, <3>2
    <3>5. \A d \in Clients : d # c => at'[d] = at[d]
      BY <1>0, <3>2
    <3>6. \A d \in Clients : at'[d] # NoChan => d \in members'[at'[d]]
      BY <1>0, <3>3, <3>4, SMT DEF Attached
    <3>7. \A ch \in Chans : \A d \in members'[ch] :
              state'[d] \in Entered /\ (td'[d] = "no" => at'[d] = ch)
      BY <1>0, <2>1, <3>3, <3>5 DEF Attached
    <3>. QED BY <3>6, <3>7 DEF Attached
  <2>. QED BY <2>2, <2>3
<1>. QED BY <1>2, <1>3, <1>4, <1>5, WhoPlaces

\* The handler holds a client that has entered, and takes up only such clients.
LEMMA BusyStep ==
    ASSUME TypeOK, OwnersRespected, TypeOK', OwnersRespected', Known, Attached, Busy, Evicting,
           [Next]_vars
    PROVE  Busy'
<1>0. /\ at \in [Clients -> Chans \cup {NoChan}] /\ h' \in HandlerStates /\ Idle.pc = "idle"
      /\ h.next \in {"idle", "enter", "sync", "evict"} /\ registered \subseteq Clients
  BY DEF TypeOK, Idle, HandlerStates
<1>1. \A c \in Clients : state[c] \in Entered => state'[c] \in Entered
  BY StateGrows
<1>2. \A c \in late' : state'[c] \in Entered
  <2>1. \A c \in late \cup registered : state[c] \in Entered /\ c \in Clients
    BY DEF Busy, Known, TypeOK
  <2>. QED BY <1>1, <2>1, WhoLate
<1>. DEFINE Good == /\ Holds' => h'.c \in Clients /\ h'.to \in Chans /\ state'[h'.c] \in Entered
                    /\ h'.pc \in {"send", "add"} => at'[h'.c] = NoChan
<1>. SUFFICES Good
  BY <1>2 DEF Busy
<1>3. h' = Idle => Good
  BY <1>0 DEF Holds
<1>4. h'.c = h.c /\ h'.to = h.to /\ Holds => h'.c \in Clients /\ h'.to \in Chans /\
      state'[h'.c] \in Entered
  BY <1>1 DEF Busy
<1>5. CASE Stays
  <2>1. h' = h
    BY <1>5 DEF Stays
  <2>2. Holds' => Holds
    BY <2>1 DEF Holds
  <2>3. h.pc \in {"send", "add"} => at'[h.c] = NoChan
    <3>1. SUFFICES ASSUME h.pc \in {"send", "add"} PROVE at'[h.c] = NoChan
      OBVIOUS
    <3>2. PICK c \in Clients : c = h.c /\ at[c] = NoChan
      BY <3>1 DEF Busy, Holds
    <3>3. UNCHANGED vars => at'[c] = at[c]
      BY DEF vars, chanVars
    <3>4. ASSUME NEW d \in Clients, Reader(d) PROVE at'[c] = NoChan
      BY <3>2, <3>4, ReaderSteps
    <3>. QED BY <1>5, <3>2, <3>3, <3>4 DEF Stays
  <2>. QED BY <1>4, <2>1, <2>2, <2>3
<1>6. CASE h.pc = "idle" /\ HandlerSelects
  <2>0. h = Idle /\ h.next = "idle"
    BY <1>6, SMT DEF OwnersRespected, Idle
  <2>1. ASSUME NEW c \in Clients, resolveAuthenticatedChannel(c) PROVE Good
    <3>1. h'.pc = "join" /\ h'.c = c /\ state'[c] = "joining"
      BY <2>1, JoinFields DEF resolveAuthenticatedChannel, TypeOK
    <3>2. h'.to \in Chans
      BY <1>0, <3>1 DEF OwnersRespected, HandlerStates
    <3>. QED BY <3>1, <3>2 DEF Entered
  <2>2. ASSUME NEW a \in Clients, NEW t \in Clients, NEW ch \in Chans, handleUserState(a, t, ch)
        PROVE  Good
    <3>1. h'.pc = "enter" /\ h'.c = t /\ h'.to = ch
      BY <2>2, SelectFields, SMT
    <3>2. state'[t] \in Entered
      BY <1>1, <2>2 DEF handleUserState, Known
    <3>. QED BY <3>1, <3>2
  <2>3. ASSUME NEW a \in Clients, NEW temp \in BOOLEAN, handleChannelCreate(a, temp) PROVE Good
    <3>1. h' = h \/ (h'.pc = "enter" /\ h'.c = a /\ h'.to = nextChanId)
      BY <2>3, SelectFields, SMT
    <3>2. state'[a] \in Entered
      BY <1>1, <2>3 DEF handleChannelCreate, Sends, Known, Busy
    <3>3. nextChanId \in Chans
      BY <2>3, AddChannelType, TypeSplit DEF handleChannelCreate
    <3>. QED BY <1>3, <2>0, <3>1, <3>2, <3>3
  <2>4. ASSUME NEW a \in Clients, NEW ch \in Chans, handleChannelRemove(a, ch) PROVE Good
    BY <2>4, SelectFields DEF Holds
  <2>5. ASSUME NEW t \in Clients, handleUserRemove(t) PROVE Good
    BY <2>0, <2>5, SelectFields DEF Holds
  <2>6. CASE removeTempChannel
    BY <1>3, <2>0, <2>6 DEF removeTempChannel
  <2>. HIDE DEF Good
  <2>. QED BY <1>6, <2>1, <2>2, <2>3, <2>4, <2>5, <2>6 DEF HandlerSelects
<1>7. CASE \/ h.pc = "join" /\ joinBoardVoiceRoom
           \/ h.pc = "list" /\ (sendChannelList \/ sendChannelListFails)
  BY <1>4, <1>7, JoinFields DEF Holds
<1>8. CASE h.pc = "sync" /\ (finishAuthenticate \/ finishAuthenticateFails)
  BY <1>3, <1>8, FinishFields DEF Holds
<1>9. CASE h.pc = "teardown" /\ teardownReturns
  BY <1>3, <1>4, <1>9, FinishFields DEF Holds
<1>10. Returns /\ Holds => Good
  BY <1>0, <1>3, <1>4 DEF Returns, SameCall
<1>11. CASE h.pc = "enter" /\ userLeavesOldChannel
  <2>1. Holds /\ h.c \in Clients
    BY <1>11 DEF Holds, Busy
  <2>2. CASE Returns
    BY <1>10, <2>1, <2>2
  <2>3. CASE ~Returns
    <3>1. SameCall /\ at'[h.c] = NoChan
      BY <1>0, <1>11, <2>1, <2>3, EnterFields DEF chanVars
    <3>. QED BY <1>4, <2>1, <3>1 DEF SameCall
  <2>. QED BY <2>2, <2>3
<1>12. CASE h.pc = "send" /\ sendTempRemove
  <2>1. at'[h.c] = NoChan
    BY <1>12 DEF sendTempRemove, chanVars, Busy
  <2>. QED BY <1>4, <1>12, <2>1, EnterFields DEF SameCall, Holds
<1>13. CASE h.pc = "add" /\ userEntersNewChannel
  BY <1>10, <1>13, EnterFields DEF Holds
<1>14. ASSUME NEW t \in Clients, RemoveChannelEvict(t) PROVE Good
  <2>1. state'[t] \in Entered
    BY <1>1, <1>14 DEF RemoveChannelEvict, Evicting
  <2>. QED BY <1>14, <2>1, SelectFields
<1>15. CASE RemoveChannelDelete
  BY <1>3, <1>15 DEF RemoveChannelDelete
<1>. HIDE DEF Good
<1>. QED BY <1>5, <1>6, <1>7, <1>8, <1>9, <1>11, <1>12, <1>13, <1>14, <1>15, HandlerAt

\* RemoveChannel's snapshot is of clients that only the handler could move.
LEMMA EvictingStep ==
    ASSUME TypeOK, OwnersRespected, Attached, Busy, Evicting, [Next]_vars PROVE Evicting'
<1>0. /\ at \in [Clients -> Chans \cup {NoChan}] /\ members \in [Chans -> SUBSET Clients]
      /\ h \in HandlerStates
      /\ h.next \in {"idle", "enter", "sync", "evict"} /\ h.todo \subseteq Clients
  BY DEF TypeOK, HandlerStates
<1>1. \A c \in Clients : /\ state[c] \in Entered => state'[c] \in Entered
                         /\ td'[c] = "no" => td[c] = "no"
  BY StateGrows, TeardownGrows
<1>2. h' = Idle => Evicting'
  BY SMT DEF Evicting, Idle, Moving
<1>3. /\ \A t \in h.todo : td'[t] = "no" => at'[t] = at[t]
      /\ h'.todo \subseteq h.todo /\ h'.rm = h.rm
      => \A t \in h'.todo : state'[t] \in Entered /\ (td'[t] = "no" => at'[t] = h'.rm)
  BY <1>0, <1>1 DEF Evicting
<1>4. h.pc \notin {"evict", "enter", "send", "add"} => h.rm = NoChan /\ h.todo = {}
  BY DEF Evicting, Moving
<1>5. h'.todo = {} /\ h'.rm = NoChan /\ h'.pc # "evict" /\
      (h'.pc \in Moving => h'.next # "evict") => Evicting'
  BY DEF Evicting
<1>6. CASE Stays
  <2>1. h' = h
    BY <1>6 DEF Stays
  <2>2. \A t \in h.todo : td'[t] = "no" => at'[t] = at[t]
    <3>. TAKE t \in h.todo
    <3>1. UNCHANGED vars => at'[t] = at[t]
      BY DEF vars, chanVars
    <3>2. ASSUME NEW d \in Clients, Reader(d), td'[t] = "no" PROVE at'[t] = at[t]
      BY <1>0, <3>2, ReaderSteps
    <3>. QED BY <1>6, <3>1, <3>2 DEF Stays
  <2>. QED BY <1>3, <2>1, <2>2 DEF Evicting
<1>7. CASE h.pc = "idle" /\ HandlerSelects
  <2>0. h = Idle /\ h.next = "idle" /\ h.rm = NoChan /\ h.todo = {}
    BY <1>7, SMT DEF OwnersRespected, Idle
  <2>1. ASSUME NEW c \in Clients, resolveAuthenticatedChannel(c) PROVE Evicting'
    BY <1>5, <2>0, <2>1, JoinFields DEF Moving
  <2>2. ASSUME NEW a \in Clients, NEW t \in Clients, NEW ch \in Chans, handleUserState(a, t, ch)
        PROVE  Evicting'
    BY <1>5, <2>0, <2>2, SelectFields
  <2>3. ASSUME NEW a \in Clients, NEW temp \in BOOLEAN, handleChannelCreate(a, temp)
        PROVE  Evicting'
    BY <1>2, <1>5, <2>0, <2>3, SelectFields, SMT
  <2>4. ASSUME NEW a \in Clients, NEW ch \in Chans, handleChannelRemove(a, ch) PROVE Evicting'
    <3>1. h'.pc = "evict" /\ h'.rm = ch /\ h'.todo = members[ch]
      BY <2>4, SelectFields
    <3>2. at' = at
      BY <2>4 DEF handleChannelRemove, chanVars
    <3>3. \A t \in members[ch] : state'[t] \in Entered /\ (td'[t] = "no" => at'[t] = ch)
      BY <1>0, <1>1, <3>2 DEF Attached
    <3>. QED BY <3>1, <3>3 DEF Evicting, Moving
  <2>5. ASSUME NEW t \in Clients, handleUserRemove(t) PROVE Evicting'
    BY <1>5, <2>0, <2>5, SelectFields DEF Moving
  <2>6. CASE removeTempChannel
    BY <1>2, <2>0, <2>6 DEF removeTempChannel
  <2>. QED BY <1>7, <2>1, <2>2, <2>3, <2>4, <2>5, <2>6 DEF HandlerSelects
<1>8. CASE \/ h.pc = "join" /\ joinBoardVoiceRoom
           \/ h.pc = "list" /\ (sendChannelList \/ sendChannelListFails)
  BY <1>4, <1>5, <1>8, JoinFields DEF Moving
<1>9. CASE \/ h.pc = "sync" /\ (finishAuthenticate \/ finishAuthenticateFails)
           \/ h.pc = "teardown" /\ teardownReturns
  BY <1>2, <1>4, <1>5, <1>9, FinishFields DEF Moving
<1>10. ASSUME h.pc \in Moving, \A t \in h.todo : at'[t] = at[t],
              Returns \/ (h'.pc \in {"send", "add"} /\ SameCall)
       PROVE  Evicting'
  <2>1. CASE h' = Idle
    BY <1>2, <2>1
  <2>2. CASE SameCall /\ (h'.pc \in {"send", "add"} \/ (h.next # "idle" /\ h'.pc = h.next))
    <3>1. \A t \in h'.todo : state'[t] \in Entered /\ (td'[t] = "no" => at'[t] = h'.rm)
      BY <1>3, <1>10, <2>2 DEF SameCall
    <3>2. h'.rm # NoChan <=> h'.pc = "evict" \/ (h'.pc \in Moving /\ h'.next = "evict")
      BY <1>0, <1>10, <2>2 DEF SameCall, Evicting, Moving
    <3>. QED BY <1>10, <2>2, <3>1, <3>2 DEF SameCall, Evicting
  <2>. QED BY <1>10, <2>1, <2>2 DEF Returns
<1>11. CASE h.pc = "enter" /\ userLeavesOldChannel
  <2>1. h.c \notin h.todo /\ h.pc \in Moving
    BY <1>11 DEF Evicting, Moving
  <2>2. at' = at \/ at' = [at EXCEPT ![h.c] = NoChan]
    BY <1>11, EnterFields DEF chanVars
  <2>3. \A t \in h.todo : at'[t] = at[t]
    BY <1>0, <2>1, <2>2
  <2>. QED BY <1>10, <1>11, <2>1, <2>3, EnterFields
<1>12. CASE h.pc = "send" /\ sendTempRemove
  BY <1>10, <1>12, EnterFields DEF sendTempRemove, chanVars, Moving
<1>13. CASE h.pc = "add" /\ userEntersNewChannel
  <2>1. h.c \notin h.todo /\ h.pc \in Moving
    BY <1>13 DEF Evicting, Moving
  <2>2. \A t \in h.todo : at'[t] = at[t]
    BY <1>0, <1>13, <2>1 DEF userEntersNewChannel
  <2>. QED BY <1>10, <1>13, <2>1, <2>2, EnterFields
<1>14. ASSUME NEW t \in Clients, RemoveChannelEvict(t) PROVE Evicting'
  <2>1. at' = at /\ h.pc = "evict"
    BY <1>14 DEF RemoveChannelEvict, chanVars
  <2>2. h'.pc = "enter" /\ h'.c = t /\ h'.next = "evict" /\ h'.rm = h.rm /\
        h'.todo = h.todo \ {t}
    BY <1>14, SelectFields
  <2>3. \A u \in h'.todo : state'[u] \in Entered /\ (td'[u] = "no" => at'[u] = h'.rm)
    BY <1>3, <2>1, <2>2
  <2>. QED BY <2>1, <2>2, <2>3 DEF Evicting, Moving
<1>15. CASE RemoveChannelDelete
  BY <1>2, <1>15 DEF RemoveChannelDelete
<1>. QED BY <1>6, <1>7, <1>8, <1>9, <1>11, <1>12, <1>13, <1>14, <1>15, HandlerAt

\* At the start nobody is connected.
LEMMA RoomInit == Init => RoomInv
<1>. SUFFICES ASSUME Init PROVE RoomInv
  OBVIOUS
<1>1. h = Idle /\ Idle.pc = "idle" /\ Idle.rm = NoChan /\ Idle.todo = {}
  BY DEF Init, Idle
<1>2. JoinSound /\ Busy /\ Evicting
  BY <1>1 DEF Init, JoinSound, Busy, Holds, Evicting, Moving
<1>3. RoomsSound /\ Known /\ Attached
  BY DEF Init, RoomsSound, Known, Attached
<1>. QED BY <1>2, <1>3, BoardTypeInit, OwnersInit DEF RoomInv

\* Every step keeps the whole of it.
LEMMA RoomStep == ASSUME RoomInv, [Next]_vars PROVE RoomInv'
<1>1. TypeOK' /\ OwnersRespected'
  BY BoardTypeStep, OwnersStep DEF RoomInv
<1>2. JoinSound' /\ RoomsSound' /\ Known'
  BY JoinSoundStep, RoomsSoundStep, KnownStep DEF RoomInv
<1>3. Attached' /\ Busy' /\ Evicting'
  BY <1>1, AttachedStep, BusyStep, EvictingStep DEF RoomInv
<1>. QED BY <1>1, <1>2, <1>3 DEF RoomInv

\* The handler's locals, the rooms, the members of channels and the states of
\* clients agree in every reachable state, for any constants.
THEOREM RoomInvariant == Spec => []RoomInv
<1>1. RoomInv /\ [Next]_vars => RoomInv'
  BY RoomStep
<1>. QED BY <1>1, RoomInit, PTL DEF Spec

\* A board's room exists only while one of its participants has a connection that
\* has joined it and has not reached Leave, also for users with several tabs.
THEOREM RoomsStayUsed == Spec => []RoomsAreUsed
<1>1. RoomInv => RoomsAreUsed
  <2>. SUFFICES ASSUME RoomInv, NEW b \in Boards, roomChan[b] # NoChan
                PROVE  \E c \in Clients : /\ BoardOf[c] = b
                                          /\ UserOf[c] \in parts[b]
                                          /\ state[c] \in {"joining", "ready"}
                                          /\ td[c] \in {"no", "claimed", "detached"}
    BY DEF RoomsAreUsed
  <2>1. PICK u : u \in parts[b]
    BY SMT DEF RoomInv, RoomsSound, TypeOK
  <2>. QED BY <2>1, SMT DEF RoomInv, RoomsSound, InUse, Entered, Using
<1>. QED BY <1>1, RoomInvariant, PTL

-----------------------------------------------------------------------------
\* Where the clients of a board are.

\* Each user has one connection to its board; nobody may create channels.
UsersApart == \A c, d \in Clients :
    Scoped(c) /\ BoardOf[c] = BoardOf[d] /\ UserOf[c] = UserOf[d] => c = d
OneTabEach == UsersApart /\ Creators = {}

\* c has joined its room and not left it.
InRoom(c) == InUse(c) /\ ~(h.pc = "join" /\ h.c = c)

\* Whoever is in a room is one of its participants.
Participating == \A c \in Clients : Scoped(c) /\ InRoom(c) => UserOf[c] \in parts[BoardOf[c]]

\* The channel of b's room is gone, or RemoveChannel is at it.
Lost(b) == Orphaned(b) \/ (h.rm # NoChan /\ h.rm = roomChan[b])
Home(c) == at[c] = roomChan[BoardOf[c]] \/ Lost(BoardOf[c])

\* Ready clients with a board are home.
Homes == \A c \in Clients : Scoped(c) /\ td[c] = "no" /\ state[c] = "ready" => Home(c)

\* The handler takes a client with a board nowhere else: in front of Join the
\* room it has looked up may be gone, but not have another channel.
Heading ==
    /\ h.pc = "join" /\ Scoped(h.c) =>
           roomChan[BoardOf[h.c]] \in {NoChan, h.to} \/ Orphaned(BoardOf[h.c])
    /\ h.pc \in Moving \cup {"list"} /\ Scoped(h.c) /\ td[h.c] = "no" =>
           h.to = roomChan[BoardOf[h.c]] \/ Lost(BoardOf[h.c])
    /\ h.pc = "sync" /\ Scoped(h.c) /\ td[h.c] = "no" => Home(h.c)

HomeInv == RoomInv /\ Participating /\ Homes /\ Heading

\* With one connection for each user, nobody else's teardown takes a participant
\* out of the room.
LEMMA ParticipatingStep ==
    ASSUME UsersApart, RoomInv, Participating, [Next]_vars PROVE Participating'
<1>0. /\ parts \in [Boards -> SUBSET Users] /\ TypeOK /\ OwnersRespected /\ Busy
  BY DEF RoomInv, TypeOK
<1>. SUFFICES ASSUME NEW c \in Clients, Scoped(c), InRoom(c)'
              PROVE  UserOf[c] \in parts'[BoardOf[c]]
  BY DEF Participating
<1>1. BoardOf[c] \in Boards
  BY DEF Scoped
<1>2. CASE joinBoardVoiceRoom
  <2>1. PICK d \in Clients : d = h.c
    BY <1>0, <1>2 DEF joinBoardVoiceRoom, Busy, Holds
  <2>2. parts' = parts \/ Join(BoardOf[d], UserOf[d], h.to)
    BY <1>2, <2>1 DEF joinBoardVoiceRoom, roomVars
  <2>3. parts[BoardOf[c]] \subseteq parts'[BoardOf[c]]
    BY <1>0, <1>1, <2>2, SMT DEF Join
  <2>4. CASE c = d
    BY <1>0, <1>1, <1>2, <2>1, <2>4, SMT DEF joinBoardVoiceRoom, Join
  <2>5. CASE c # d
    <3>1. InRoom(c)
      BY <1>2, <2>1, <2>5 DEF joinBoardVoiceRoom, InRoom, InUse, tdVars
    <3>. QED BY <2>3, <3>1 DEF Participating
  <2>. QED BY <2>4, <2>5
<1>3. ASSUME NEW d \in Clients, leaveBoardVoiceRoom(d) PROVE UserOf[c] \in parts'[BoardOf[c]]
  <2>1. c # d
    BY <1>0, <1>3 DEF leaveBoardVoiceRoom, Returned, InRoom, InUse, Using, TypeOK
  <2>2. Reader(d)
    BY <1>3 DEF Reader, Teardown
  <2>3. InRoom(c)
    BY <1>0, <2>1, <2>2, ReaderSteps, SMT DEF InRoom, InUse
  <2>4. parts' = parts \/ Leave(BoardOf[d], UserOf[d])
    BY <1>3 DEF leaveBoardVoiceRoom, roomVars
  <2>5. BoardOf[c] # BoardOf[d] \/ UserOf[c] # UserOf[d]
    BY <2>1 DEF UsersApart
  <2>6. UserOf[c] \in parts[BoardOf[c]]
    BY <2>3 DEF Participating
  <2>. QED BY <1>0, <1>1, <2>4, <2>5, <2>6 DEF Leave
<1>4. CASE UNCHANGED roomVars /\ ~joinBoardVoiceRoom
  <2>1. td[c] \in Using
    BY <1>0, TeardownGrows DEF InRoom, InUse
  <2>2. ~resolveAuthenticatedChannel(c)
    BY <1>0, JoinFields DEF InRoom
  <2>3. state[c] \in Entered
    BY <1>0, <2>2, StateGrows DEF InRoom, InUse
  <2>4. h.pc = "join" => h' = h
    BY <1>0, <1>4, JoinWaits
  <2>5. InRoom(c)
    BY <2>1, <2>3, <2>4 DEF InRoom, InUse
  <2>. QED BY <1>4, <2>5 DEF Participating, roomVars
<1>. QED BY <1>2, <1>3, <1>4, WhoRooms

\* RemoveChannel goes on until the channel is gone.
LEMMA RemovalGoesOn ==
    ASSUME TypeOK, Evicting, [Next]_vars, h.rm # NoChan
    PROVE  h'.rm = h.rm \/ h.rm \notin channels'
<1>1. h.pc = "evict" \/ (h.pc \in Moving /\ h.next = "evict")
  BY DEF Evicting
<1>2. Stays => h'.rm = h.rm
  BY DEF Stays
<1>3. h.next = "evict" /\ (Returns \/ SameCall) => h'.rm = h.rm
  BY DEF Returns, SameCall
<1>4. CASE h.pc \in Moving /\ h.next = "evict"
  <2>1. userLeavesOldChannel \/ sendTempRemove \/ userEntersNewChannel \/ Stays
    BY <1>4, HandlerAt DEF Moving
  <2>. QED BY <1>2, <1>3, <1>4, <2>1, EnterFields
<1>5. CASE h.pc = "evict"
  <2>1. (\E t \in Clients : RemoveChannelEvict(t)) \/ RemoveChannelDelete \/ Stays
    BY <1>5, HandlerAt
  <2>2. RemoveChannelDelete => h.rm \notin channels'
    BY DEF RemoveChannelDelete
  <2>. QED BY <1>2, <2>1, <2>2, SelectFields
<1>. QED BY <1>1, <1>4, <1>5

\* As long as c is in it, a room keeps its channel, and a lost channel stays lost.
LEMMA RoomKept ==
    ASSUME RoomInv, Participating, RoomInv', Participating', [Next]_vars,
           NEW c \in Clients, Scoped(c), InRoom(c), InRoom(c)'
    PROVE  /\ roomChan[BoardOf[c]] \in Chans /\ roomChan'[BoardOf[c]] = roomChan[BoardOf[c]]
           /\ Lost(BoardOf[c]) => Lost(BoardOf[c])'
<1>0. TypeOK /\ OwnersRespected /\ Evicting /\ TypeOK'
  BY DEF RoomInv
<1>1. PICK b \in Boards : b = BoardOf[c]
  BY DEF Scoped
<1>2. roomChan[b] # NoChan /\ roomChan'[b] # NoChan
  BY <1>1 DEF Participating, RoomInv, RoomsSound
<1>3. roomChan'[b] = roomChan[b] /\ roomChan[b] \in Chans
  BY <1>0, <1>2, RoomStable DEF TypeOK
<1>4. Orphaned(b) => Orphaned(b)'
  BY <1>0, <1>3, OrphanStays
<1>5. h.rm # NoChan /\ h.rm = roomChan[b] => Lost(b)'
  <2>. SUFFICES ASSUME h.rm # NoChan, h.rm = roomChan[b] PROVE Lost(b)'
    OBVIOUS
  <2>1. h'.rm = h.rm \/ h.rm \notin channels'
    BY <1>0, RemovalGoesOn
  <2>. QED BY <1>3, <2>1 DEF Lost, Orphaned
<1>6. Lost(b) => Lost(b)'
  BY <1>4, <1>5 DEF Lost
<1>. QED BY <1>1, <1>3, <1>6

\* A ready client is in its room; so is one that the handler is moving.
LEMMA InTheRoom ==
    ASSUME RoomInv, NEW c \in Clients, td[c] = "no"
    PROVE  /\ state[c] = "ready" => InRoom(c)
           /\ h.c = c /\ h.pc \in Moving \cup {"list", "sync"} => InRoom(c)
<1>1. state[c] = "ready" => InRoom(c)
  BY DEF RoomInv, JoinSound, InRoom, InUse, Entered, Using
<1>2. h.c = c /\ h.pc \in Moving \cup {"list", "sync"} => InRoom(c)
  BY DEF RoomInv, Busy, Holds, InRoom, InUse, Using, Moving
<1>. QED BY <1>1, <1>2

\* The same in the next state.
LEMMA InTheRoomNext ==
    ASSUME RoomInv', NEW c \in Clients, td'[c] = "no"
    PROVE  /\ state'[c] = "ready" => InRoom(c)'
           /\ h'.c = c /\ h'.pc \in Moving \cup {"list", "sync"} => InRoom(c)'
<1>1. state'[c] = "ready" => InRoom(c)'
  BY DEF RoomInv, JoinSound, InRoom, InUse, Entered, Using
<1>2. h'.c = c /\ h'.pc \in Moving \cup {"list", "sync"} => InRoom(c)'
  BY DEF RoomInv, Busy, Holds, InRoom, InUse, Using, Moving
<1>. QED BY <1>1, <1>2

\* A ready client is moved only home, or out of a channel that is being removed.
LEMMA HomesStep ==
    ASSUME HomeInv, RoomInv', Participating', [Next]_vars PROVE Homes'
<1>0. /\ RoomInv /\ Participating /\ Homes /\ Heading
      /\ TypeOK /\ Busy /\ Evicting /\ at \in [Clients -> Chans \cup {NoChan}]
  BY DEF HomeInv, RoomInv, TypeOK
<1>. SUFFICES ASSUME NEW c \in Clients, Scoped(c), td'[c] = "no", state'[c] = "ready"
              PROVE  Home(c)'
  BY DEF Homes
<1>1. td[c] = "no" /\ InRoom(c)'
  BY <1>0, TeardownGrows, InTheRoomNext
<1>2. CASE finishAuthenticate /\ h.c = c
  <2>1. InRoom(c) /\ Home(c)
    BY <1>0, <1>1, <1>2, InTheRoom DEF finishAuthenticate, Heading
  <2>2. at' = at
    BY <1>2 DEF finishAuthenticate, chanVars
  <2>. QED BY <1>0, <1>1, <2>1, <2>2, RoomKept DEF Home
<1>3. CASE state[c] = "ready"
  <2>1. InRoom(c) /\ Home(c)
    BY <1>0, <1>1, <1>3, InTheRoom DEF Homes
  <2>2. /\ roomChan[BoardOf[c]] \in Chans /\ roomChan'[BoardOf[c]] = roomChan[BoardOf[c]]
        /\ Lost(BoardOf[c]) => Lost(BoardOf[c])'
    BY <1>0, <1>1, <2>1, RoomKept
  <2>3. CASE at'[c] = at[c]
    BY <2>1, <2>2, <2>3 DEF Home
  <2>4. CASE at'[c] # at[c]
    <3>1. UNCHANGED chanVars => FALSE
      BY <2>4 DEF chanVars
    <3>2. ASSUME NEW d \in Clients, RemoveClientFromChannel(d) PROVE FALSE
      <4>1. Reader(d)
        BY <3>2 DEF Reader, Teardown
      <4>. QED BY <1>0, <2>4, <4>1, ReaderSteps
    <3>3. CASE userEntersNewChannel
      <4>1. h.c = c /\ at'[c] = h.to /\ h.pc \in Moving
        BY <1>0, <2>4, <3>3 DEF userEntersNewChannel, Moving
      <4>2. h.to = roomChan[BoardOf[c]] \/ Lost(BoardOf[c])
        BY <1>0, <1>1, <4>1 DEF Heading
      <4>. QED BY <2>2, <4>1, <4>2 DEF Home
    <3>4. CASE userLeavesOldChannel
      <4>1. at' = at \/ (at[h.c] # h.to /\ at' = [at EXCEPT ![h.c] = NoChan])
        BY <1>0, <3>4, EnterFields DEF chanVars
      <4>2. h.c = c /\ at[c] # h.to /\ h.pc \in Moving
        BY <1>0, <2>4, <3>4, <4>1 DEF userLeavesOldChannel, Moving
      <4>3. h.to = roomChan[BoardOf[c]] \/ Lost(BoardOf[c])
        BY <1>0, <1>1, <4>2 DEF Heading
      <4>. QED BY <2>1, <2>2, <4>2, <4>3 DEF Home
    <3>. QED BY <3>1, <3>2, <3>3, <3>4, WhoPlaces
  <2>. QED BY <2>3, <2>4
<1>. QED BY <1>0, <1>2, <1>3, StateGrows

\* In front of Join, the room that was looked up can only have gone.
LEMMA HeadingJoin ==
    ASSUME HomeInv, RoomInv', [Next]_vars,
           NEW x \in Clients, h'.c = x, h'.pc = "join", Scoped(x)
    PROVE  roomChan'[BoardOf[x]] \in {NoChan, h'.to} \/ Orphaned(BoardOf[x])'
<1>0. TypeOK /\ OwnersRespected /\ Heading /\ roomChan \in [Boards -> Chans \cup {NoChan}]
  BY DEF HomeInv, RoomInv, TypeOK
<1>1. ASSUME NEW c \in Clients, resolveAuthenticatedChannel(c)
      PROVE  roomChan'[BoardOf[x]] \in {NoChan, h'.to} \/ Orphaned(BoardOf[x])'
  <2>1. x = c /\ roomChan' = roomChan /\ BoardOf[c] \in Boards
    BY <1>0, <1>1, JoinFields DEF resolveAuthenticatedChannel, roomVars, Scoped
  <2>2. CASE roomChan[BoardOf[c]] \in channels
    <3>1. h' = [h EXCEPT !.pc = "join", !.c = c, !.to = roomChan[BoardOf[c]]]
      BY <1>1, <2>1, <2>2 DEF resolveAuthenticatedChannel
    <3>2. h'.to = roomChan[BoardOf[c]]
      BY <1>0, <3>1 DEF TypeOK, HandlerStates
    <3>. QED BY <2>1, <3>2
  <2>3. CASE roomChan[BoardOf[c]] \notin channels /\ roomChan[BoardOf[c]] # NoChan
    <3>1. Orphaned(BoardOf[c])
      BY <1>0, <2>1, <2>3 DEF Orphaned
    <3>. QED BY <1>0, <2>1, <3>1, OrphanStays
  <2>. QED BY <2>1, <2>2, <2>3
<1>2. ASSUME h.pc = "join", ~joinBoardVoiceRoom
      PROVE  roomChan'[BoardOf[x]] \in {NoChan, h'.to} \/ Orphaned(BoardOf[x])'
  <2>1. h' = h
    BY <1>0, <1>2, JoinWaits
  <2>2. PICK b \in Boards : b = BoardOf[x]
    BY <1>0, <1>2, <2>1 DEF Scoped
  <2>3. roomChan'[b] = roomChan[b] \/ roomChan'[b] = NoChan
    <3>1. UNCHANGED roomVars => roomChan'[b] = roomChan[b]
      BY DEF roomVars
    <3>2. ASSUME NEW d \in Clients, leaveBoardVoiceRoom(d)
          PROVE  roomChan'[b] = roomChan[b] \/ roomChan'[b] = NoChan
      BY <1>0, <3>2 DEF leaveBoardVoiceRoom, Leave, roomVars
    <3>. QED BY <1>2, <3>1, <3>2, WhoRooms
  <2>4. roomChan[b] \in {NoChan, h.to} \/ Orphaned(b)
    BY <1>0, <1>2, <2>1, <2>2 DEF Heading
  <2>5. roomChan'[b] = roomChan[b] /\ Orphaned(b) => Orphaned(b)'
    BY <1>0, OrphanStays
  <2>. QED BY <2>1, <2>2, <2>3, <2>4, <2>5
<1>. QED BY <1>0, <1>1, <1>2, JoinStarts

\* On the way into a channel: Join has settled which, a UserState message may
\* name no other, and RemoveChannel moves only whom it finds in its channel.
LEMMA HeadingMoves ==
    ASSUME Creators = {}, HomeInv, RoomInv', Participating', [Next]_vars,
           NEW c \in Clients, c = h'.c, h'.pc \in Moving \cup {"list"}, Scoped(c), td'[c] = "no"
    PROVE  h'.to = roomChan'[BoardOf[c]] \/ Lost(BoardOf[c])'
<1>0. /\ RoomInv /\ Participating /\ Homes /\ Heading /\ TypeOK /\ OwnersRespected
      /\ Busy /\ Evicting /\ Known /\ Idle.pc = "idle"
      /\ roomChan \in [Boards -> Chans \cup {NoChan}]
  BY DEF HomeInv, RoomInv, TypeOK, Idle
<1>2. PICK b \in Boards : b = BoardOf[c]
  BY DEF Scoped
<1>3. td[c] = "no" /\ InRoom(c)' /\ Scoped(c)
  BY <1>0, TeardownGrows, InTheRoomNext
<1>. DEFINE Good == h'.to = roomChan'[b] \/ Lost(b)'
<1>. SUFFICES Good
  BY <1>2
<1>4. ASSUME h'.c = h.c, h'.to = h.to, h.pc \in Moving \cup {"list"} PROVE Good
  <2>1. InRoom(c) /\ (h.to = roomChan[b] \/ Lost(b))
    BY <1>0, <1>2, <1>3, <1>4, InTheRoom DEF Heading
  <2>. QED BY <1>0, <1>2, <1>3, <1>4, <2>1, RoomKept
<1>5. h' # Idle /\ h'.pc \notin {"idle", "join", "sync", "evict", "teardown"}
  BY <1>0 DEF Moving
<1>. HIDE DEF Good
<1>6. CASE Stays
  <2>1. h' = h
    BY <1>6 DEF Stays
  <2>. QED BY <1>4, <2>1
<1>7. CASE h.pc = "idle" /\ HandlerSelects
  <2>1. ASSUME NEW a \in Clients, NEW t \in Clients, NEW ch \in Chans, handleUserState(a, t, ch)
        PROVE  Good
    <3>1. t = c /\ h'.to = ch
      BY <1>0, <2>1, SelectFields, SMT
    <3>2. roomChan' = roomChan /\ canMoveBoardScopedClient(t, ch)
      BY <2>1 DEF handleUserState, roomVars
    <3>3. roomChan[b] = ch
      BY <1>2, <1>3, <3>1, <3>2 DEF canMoveBoardScopedClient, FindByChannelID, sameBoard
    <3>. QED BY <3>1, <3>2, <3>3 DEF Good
  <2>2. ~(\E d \in Clients : resolveAuthenticatedChannel(d))
    BY <1>0, <1>5, JoinFields
  <2>3. ~(\E a \in Clients : \E temp \in BOOLEAN : handleChannelCreate(a, temp))
    BY DEF handleChannelCreate
  <2>4. ~(\E a \in Clients : \E ch \in Chans : handleChannelRemove(a, ch))
    BY <1>0, <1>5, SelectFields
  <2>5. ~(\E t \in Clients : handleUserRemove(t))
    BY <1>0, <1>5, SelectFields
  <2>6. ~removeTempChannel
    BY <1>5, <1>7 DEF removeTempChannel
  <2>. QED BY <1>7, <2>1, <2>2, <2>3, <2>4, <2>5, <2>6 DEF HandlerSelects
<1>8. CASE joinBoardVoiceRoom
  <2>1. h.pc = "join" /\ h.c = c /\ h'.to = h.to /\ h.to \in Chans
    BY <1>0, <1>8, JoinFields DEF joinBoardVoiceRoom, Busy, Holds
  <2>2. roomChan' = [roomChan EXCEPT ![b] = IF @ = NoChan THEN h.to ELSE @] /\
        channels' = channels
    BY <1>2, <1>3, <1>8, <2>1 DEF joinBoardVoiceRoom, Join, treeVars
  <2>3. roomChan[b] \in {NoChan, h.to} \/ Orphaned(b)
    BY <1>0, <1>2, <1>3, <2>1 DEF Heading
  <2>4. CASE roomChan[b] \in {NoChan, h.to}
    BY <1>0, <2>1, <2>2, <2>4 DEF Good
  <2>5. CASE Orphaned(b)
    <3>1. Orphaned(b)'
      BY <1>0, <2>2, <2>5 DEF Orphaned
    <3>. QED BY <3>1 DEF Good, Lost
  <2>. QED BY <2>3, <2>4, <2>5
<1>9. CASE h.pc = "list" /\ (sendChannelList \/ sendChannelListFails)
  BY <1>0, <1>4, <1>5, <1>9, JoinFields
<1>10. ASSUME h.pc \in Moving, Returns \/ SameCall PROVE Good
  BY <1>4, <1>5, <1>10 DEF Returns, SameCall
<1>11. CASE \/ h.pc = "enter" /\ userLeavesOldChannel
            \/ h.pc = "send" /\ sendTempRemove
            \/ h.pc = "add" /\ userEntersNewChannel
  BY <1>0, <1>10, <1>11, EnterFields DEF Moving
<1>12. ~(finishAuthenticate \/ finishAuthenticateFails)
  BY <1>0, <1>5, FinishFields
<1>13. ASSUME NEW t \in Clients, RemoveChannelEvict(t) PROVE Good
  <2>1. h.pc = "evict" /\ t \in h.todo /\ t = c
    BY <1>0, <1>13, SelectFields DEF RemoveChannelEvict
  <2>2. h.rm # NoChan /\ at[c] = h.rm /\ state[c] \in Entered
    BY <1>0, <1>3, <2>1 DEF Evicting
  <2>3. state[c] = "ready"
    BY <1>0, <1>3, <2>1, <2>2 DEF Known, Finishing, Entered, Moving
  <2>4. Lost(b)
    BY <1>0, <1>2, <1>3, <2>2, <2>3 DEF Homes, Home, Lost
  <2>5. InRoom(c)
    BY <1>0, <1>3, <2>3, InTheRoom
  <2>. QED BY <1>0, <1>2, <1>3, <2>4, <2>5, RoomKept DEF Good
<1>14. ~RemoveChannelDelete
  BY <1>5 DEF RemoveChannelDelete
<1>15. ~teardownReturns
  <2>. SUFFICES ASSUME teardownReturns PROVE FALSE
    OBVIOUS
  <2>1. h'.c = h.c /\ td[h.c] = "done"
    BY <1>0, <1>5, FinishFields DEF teardownReturns
  <2>. QED BY <1>3, <2>1
<1>. QED BY <1>0, <1>6, <1>7, <1>8, <1>9, <1>11, <1>12, <1>13, <1>14, <1>15, HandlerAt

\* Before its sync the client is where it was headed.
LEMMA HeadingSync ==
    ASSUME HomeInv, RoomInv', Participating', [Next]_vars,
           NEW c \in Clients, c = h'.c, h'.pc = "sync", Scoped(c), td'[c] = "no"
    PROVE  Home(c)'
<1>0. /\ RoomInv /\ Participating /\ Heading /\ TypeOK /\ OwnersRespected
      /\ Busy /\ Idle.pc = "idle" /\ at \in [Clients -> Chans \cup {NoChan}]
      /\ h.next # "teardown" /\ h.next # "join"
  BY DEF HomeInv, RoomInv, TypeOK, Idle, HandlerStates
<1>2. PICK b \in Boards : b = BoardOf[c]
  BY DEF Scoped
<1>3. td[c] = "no" /\ InRoom(c)' /\ Scoped(c)
  BY <1>0, TeardownGrows, InTheRoomNext
<1>. DEFINE Good == at'[c] = roomChan'[b] \/ Lost(b)'
<1>. SUFFICES Good
  BY <1>2 DEF Home
<1>4. ASSUME h.c = c, h.pc \in Moving, at'[c] = h.to PROVE Good
  <2>1. InRoom(c) /\ (h.to = roomChan[b] \/ Lost(b))
    BY <1>0, <1>2, <1>3, <1>4, InTheRoom DEF Heading
  <2>. QED BY <1>0, <1>2, <1>3, <1>4, <2>1, RoomKept
<1>. HIDE DEF Good
<1>5. CASE Stays
  <2>1. h' = h
    BY <1>5 DEF Stays
  <2>2. InRoom(c) /\ Home(c)
    BY <1>0, <1>3, <2>1, InTheRoom DEF Heading
  <2>3. at'[c] = at[c]
    <3>1. UNCHANGED vars => at' = at
      BY DEF vars, chanVars
    <3>2. ASSUME NEW d \in Clients, Reader(d) PROVE at'[c] = at[c]
      BY <1>0, <3>2, ReaderSteps
    <3>. QED BY <1>5, <3>1, <3>2 DEF Stays
  <2>. QED BY <1>0, <1>2, <1>3, <2>2, <2>3, RoomKept DEF Good, Home
<1>6. ~(h.pc = "idle" /\ HandlerSelects)
  <2>1. ~(\E d \in Clients : resolveAuthenticatedChannel(d))
    BY <1>0, JoinFields
  <2>2. h.pc = "idle" => h # h'
    OBVIOUS
  <2>3. h.pc = "idle" =>
        ~(\E a \in Clients : \E temp \in BOOLEAN : handleChannelCreate(a, temp))
    BY <1>0, <2>2, SelectFields
  <2>4. ~(\E a, t \in Clients : \E ch \in Chans : handleUserState(a, t, ch))
    BY <1>0, SelectFields
  <2>5. ~(\E a \in Clients : \E ch \in Chans : handleChannelRemove(a, ch))
    BY <1>0, SelectFields
  <2>6. ~(\E t \in Clients : handleUserRemove(t))
    BY <1>0, SelectFields
  <2>7. h.pc = "idle" => ~removeTempChannel
    BY <2>2 DEF removeTempChannel
  <2>. QED BY <2>1, <2>3, <2>4, <2>5, <2>6, <2>7 DEF HandlerSelects
<1>7. ~(joinBoardVoiceRoom \/ sendChannelList \/ sendChannelListFails)
  BY <1>0, JoinFields
<1>8. ~(finishAuthenticate \/ finishAuthenticateFails \/ teardownReturns)
  BY <1>0, FinishFields
<1>9. ~(\E t \in Clients : RemoveChannelEvict(t)) /\ ~RemoveChannelDelete /\ ~sendTempRemove
  BY <1>0, SelectFields, EnterFields DEF RemoveChannelDelete
<1>10. CASE h.pc = "enter" /\ userLeavesOldChannel
  <2>1. at[h.c] = h.to /\ Returns /\ UNCHANGED chanVars
    BY <1>0, <1>10, EnterFields
  <2>2. h.c = c /\ at'[c] = h.to
    BY <1>0, <2>1 DEF Returns, SameCall, chanVars
  <2>. QED BY <1>4, <1>10, <2>2 DEF Moving
<1>11. CASE h.pc = "add" /\ userEntersNewChannel
  <2>1. h.c = c
    BY <1>0, <1>11, EnterFields DEF Returns, SameCall
  <2>2. at'[c] = h.to
    BY <1>0, <1>11, <2>1 DEF userEntersNewChannel
  <2>. QED BY <1>4, <1>11, <2>1, <2>2 DEF Moving
<1>. QED BY <1>0, <1>5, <1>6, <1>7, <1>8, <1>9, <1>10, <1>11, HandlerAt

\* At the start nobody is in a room.
LEMMA HomeInit == Init => HomeInv
<1>. SUFFICES ASSUME Init PROVE HomeInv
  OBVIOUS
<1>1. h.pc = "idle" /\ \A c \in Clients : state[c] = "connected"
  BY DEF Init, Idle
<1>2. Participating /\ Homes /\ Heading
  BY <1>1 DEF Participating, InRoom, InUse, Entered, Homes, Heading, Moving
<1>. QED BY <1>2, RoomInit DEF HomeInv

\* Every step keeps clients home.
LEMMA HomeStep == ASSUME OneTabEach, HomeInv, [Next]_vars PROVE HomeInv'
<1>1. RoomInv' /\ Participating'
  BY RoomStep, ParticipatingStep DEF HomeInv, OneTabEach
<1>2. Homes'
  BY <1>1, HomesStep
<1>3. Heading'
  <2>1. Creators = {}
    BY DEF OneTabEach
  <2>2. CASE h'.pc \in {"join", "list", "sync"} \cup Moving
    <3>1. PICK c \in Clients : c = h'.c
      BY <1>1, <2>2 DEF RoomInv, Busy, Holds, Moving
    <3>2. h'.pc = "join" /\ Scoped(c)
          => roomChan'[BoardOf[c]] \in {NoChan, h'.to} \/ Orphaned(BoardOf[c])'
      BY <1>1, <3>1, HeadingJoin
    <3>3. h'.pc \in Moving \cup {"list"} /\ Scoped(c) /\ td'[c] = "no"
          => h'.to = roomChan'[BoardOf[c]] \/ Lost(BoardOf[c])'
      BY <1>1, <2>1, <3>1, HeadingMoves
    <3>4. h'.pc = "sync" /\ Scoped(c) /\ td'[c] = "no" => Home(c)'
      BY <1>1, <3>1, HeadingSync
    <3>. QED BY <3>1, <3>2, <3>3, <3>4 DEF Heading
  <2>. QED BY <2>2 DEF Heading
<1>. QED BY <1>1, <1>2, <1>3 DEF HomeInv

\* For users with one connection each and nobody who creates channels: ready
\* clients with a board are in their room's channel, or that was removed.
THEOREM HomeInvariant == OneTabEach => (Spec => []HomeInv)
<1>. SUFFICES ASSUME OneTabEach PROVE Spec => []HomeInv
  OBVIOUS
<1>1. HomeInv /\ [Next]_vars => HomeInv'
  BY HomeStep
<1>. QED BY <1>1, HomeInit, PTL DEF Spec

\* The home of a registered ready client, when the handler is between two calls.
LEMMA HomeBetweenCalls ==
    ASSUME HomeInv, h.pc = "idle", NEW c \in registered, Scoped(c), state[c] = "ready"
    PROVE  /\ at[c] = roomChan[BoardOf[c]] \/ Orphaned(BoardOf[c])
           /\ roomChan[BoardOf[c]] # NoChan
<1>1. c \in Clients /\ td[c] = "no" /\ BoardOf[c] \in Boards
  BY DEF HomeInv, RoomInv, TypeOK, Known, Scoped
<1>2. h.rm = NoChan
  BY DEF HomeInv, RoomInv, Evicting, Moving
<1>3. Home(c)
  BY <1>1 DEF HomeInv, Homes
<1>4. UserOf[c] \in parts[BoardOf[c]]
  BY <1>1, InTheRoom DEF HomeInv, Participating
<1>5. roomChan[BoardOf[c]] # NoChan
  BY <1>1, <1>4 DEF HomeInv, RoomInv, RoomsSound
<1>. QED BY <1>2, <1>3, <1>5 DEF Home, Lost

\* Between two handler calls a ready client with a board is in the channel of its
\* board's room, unless that channel was removed under the room: for any number
\* of clients and boards, with removals, moves and kicks, as long as each user has
\* one connection and nobody may create channels.
THEOREM ScopedClientsStayHome == OneTabEach => (Spec => []ScopedStaysHome)
<1>1. HomeInv => ScopedStaysHome
  BY HomeBetweenCalls DEF ScopedStaysHome
<1>. QED BY <1>1, HomeInvariant, PTL

\* Under the same conditions ready clients of one board are in each other's
\* audience whenever the handler fans voice out.
THEOREM BoardIsAudible == OneTabEach => (Spec => []SameBoardAudible)
<1>1. HomeInv => SameBoardAudible
  <2>. SUFFICES ASSUME HomeInv, h.pc = "idle", NEW c \in registered, NEW d \in registered,
                       c # d, Scoped(c), BoardOf[c] = BoardOf[d],
                       state[c] = "ready", state[d] = "ready", ~Orphaned(BoardOf[c])
                PROVE  d \in Audience(c)
    BY DEF SameBoardAudible
  <2>1. Scoped(d) /\ d \in Clients /\ BoardOf[d] \in Boards
    BY DEF Scoped, HomeInv, RoomInv, TypeOK
  <2>2. at[c] = roomChan[BoardOf[d]] /\ at[d] = roomChan[BoardOf[d]] /\
        roomChan[BoardOf[d]] # NoChan
    BY <2>1, HomeBetweenCalls
  <2>3. d \in members[at[c]]
    BY <2>1, <2>2 DEF HomeInv, RoomInv, Attached
  <2>4. canReceiveFromClient(d, c)
    BY <2>1, <2>2 DEF canReceiveFromClient, FindByChannelID, sameBoard
  <2>. QED BY <2>2, <2>3, <2>4 DEF Audience
<1>. QED BY <1>1, HomeInvariant, PTL

-----------------------------------------------------------------------------
\* The handler's own sends to tempRemove.

\* Everyone connects through a board, once, and nobody may edit channels.
BoardsOnly == OneTabEach /\ Writers = {} /\ \A c \in Clients : Scoped(c)

\* The handler empties no channel: it takes clients in that are nowhere, and
\* moves others to where they are.
Quiet == /\ h.pc \notin {"send", "evict"} /\ h.next # "evict"
         /\ h.pc = "idle" => h.next = "idle"
         /\ h.pc \in {"join", "list"} => at[h.c] = NoChan
         /\ h.pc = "teardown" /\ h.next = "enter" => at[h.c] = NoChan
         /\ h.pc = "enter" => at[h.c] \in {NoChan, h.to}

\* canMoveBoardScopedClient lets a client into the channel of its room only, and
\* that is where it is.
LEMMA QuietStep == ASSUME BoardsOnly, HomeInv, Quiet, [Next]_vars PROVE Quiet'
<1>0. /\ TypeOK /\ Busy /\ Homes /\ Known /\ Evicting /\ Attached /\ Idle.pc = "idle" /\
         Idle.next = "idle"
      /\ at \in [Clients -> Chans \cup {NoChan}] /\ h.next \notin {"send", "join", "list",
         "teardown"}
  BY DEF HomeInv, RoomInv, TypeOK, Idle, HandlerStates
<1>1. h' = Idle => Quiet'
  BY <1>0 DEF Quiet
<1>2. CASE Stays
  <2>1. h' = h
    BY <1>2 DEF Stays
  <2>2. ASSUME NEW c \in Clients PROVE at'[c] \in {at[c], NoChan}
    <3>1. UNCHANGED chanVars => at' = at
      BY DEF chanVars
    <3>2. ASSUME NEW d \in Clients, RemoveClientFromChannel(d) PROVE at'[c] \in {at[c], NoChan}
      BY <1>0, <3>2 DEF RemoveClientFromChannel, chanVars
    <3>3. userLeavesOldChannel => at'[c] \in {at[c], NoChan}
      BY <1>0, EnterFields DEF chanVars
    <3>4. ~userEntersNewChannel
      <4>1. userEntersNewChannel => h.pc = "add" /\ (h' = Idle \/ h'.pc = h.next)
        BY <1>0, EnterFields DEF Returns, userEntersNewChannel
      <4>. QED BY <1>0, <2>1, <4>1 DEF HomeInv, RoomInv, TypeOK, HandlerStates
    <3>. QED BY <3>1, <3>2, <3>3, <3>4, WhoPlaces
  <2>3. CASE Holds
    <3>1. PICK c \in Clients : h.c = c
      BY <1>0, <2>3 DEF Busy
    <3>. QED BY <2>1, <2>2, <3>1 DEF Quiet
  <2>4. CASE ~Holds
    BY <2>1, <2>4 DEF Quiet, Holds
  <2>. QED BY <2>3, <2>4
<1>3. CASE h.pc = "idle" /\ HandlerSelects
  <2>0. h.next = "idle" /\ h.rm = NoChan
    BY <1>0, <1>3 DEF Quiet, Evicting, Moving
  <2>1. ASSUME NEW c \in Clients, resolveAuthenticatedChannel(c) PROVE Quiet'
    <3>1. state[c] = "authenticated" /\ at' = at
      BY <2>1 DEF resolveAuthenticatedChannel, chanVars
    <3>2. at[c] = NoChan
      BY <1>0, <3>1, SMT DEF Attached, Entered
    <3>3. h'.pc = "join" /\ h'.c = c /\ h'.next = "idle"
      BY <1>0, <2>0, <2>1, JoinFields
    <3>. QED BY <3>1, <3>2, <3>3 DEF Quiet
  <2>2. ASSUME NEW a \in Clients, NEW t \in Clients, NEW ch \in Chans, handleUserState(a, t, ch)
        PROVE  Quiet'
    <3>1. t \in registered /\ ch \in channels /\ at' = at /\ canMoveBoardScopedClient(t, ch)
      BY <2>2 DEF handleUserState, chanVars
    <3>2. Scoped(t) /\ td[t] = "no" /\ state[t] = "ready"
      BY <1>0, <1>3, <3>1 DEF BoardsOnly, Known, Finishing, Entered, Moving
    <3>3. roomChan[BoardOf[t]] = ch
      BY <3>1, <3>2 DEF canMoveBoardScopedClient, FindByChannelID, sameBoard
    <3>4. at[t] = ch
      BY <1>0, <2>0, <3>1, <3>2, <3>3 DEF Homes, Home, Lost, Orphaned
    <3>5. h'.pc = "enter" /\ h'.c = t /\ h'.to = ch /\ h'.next = "idle"
      BY <1>0, <2>0, <2>2, SelectFields, SMT
    <3>. QED BY <3>1, <3>4, <3>5 DEF Quiet
  <2>3. ~(\E a \in Clients : \E temp \in BOOLEAN : handleChannelCreate(a, temp))
    BY DEF handleChannelCreate, BoardsOnly, OneTabEach
  <2>4. ~(\E a \in Clients : \E ch \in Chans : handleChannelRemove(a, ch))
    BY DEF handleChannelRemove, BoardsOnly
  <2>5. ASSUME NEW t \in Clients, handleUserRemove(t) PROVE Quiet'
    <3>1. h'.pc = "teardown" /\ h'.next = "idle"
      BY <1>0, <2>0, <2>5, SelectFields
    <3>. QED BY <3>1 DEF Quiet
  <2>6. CASE removeTempChannel
    <3>1. h' = h
      BY <2>6 DEF removeTempChannel
    <3>. QED BY <1>3, <2>0, <3>1 DEF Quiet
  <2>. QED BY <1>3, <2>1, <2>2, <2>3, <2>4, <2>5, <2>6 DEF HandlerSelects
<1>4. CASE h.pc = "join" /\ joinBoardVoiceRoom
  <2>1. at' = at /\ h'.pc = "list" /\ h'.c = h.c /\ h'.next = h.next
    BY <1>0, <1>4, JoinFields DEF joinBoardVoiceRoom, chanVars
  <2>. QED BY <1>4, <2>1 DEF Quiet
<1>5. CASE h.pc = "list" /\ (sendChannelList \/ sendChannelListFails)
  <2>1. at' = at
    BY <1>5 DEF sendChannelList, sendChannelListFails, chanVars
  <2>2. /\ h'.c = h.c
        /\ \/ h'.pc = "enter" /\ h'.next = "sync"
           \/ h'.pc = "teardown" /\ h'.next = "enter"
    <3>1. CASE sendChannelList
      BY <1>0, <3>1, JoinFields
    <3>2. CASE sendChannelListFails
      BY <1>0, <3>2, JoinFields
    <3>. QED BY <1>5, <3>1, <3>2
  <2>. QED BY <1>5, <2>1, <2>2 DEF Quiet
<1>6. CASE h.pc = "enter" /\ userLeavesOldChannel
  <2>1. at[h.c] \in {NoChan, h.to}
    BY <1>6 DEF Quiet
  <2>2. UNCHANGED chanVars /\ (Returns \/ (h'.pc = "add" /\ SameCall))
    BY <1>0, <1>6, <2>1, EnterFields
  <2>0. at' = at
    BY <2>2 DEF chanVars
  <2>3. CASE Returns
    BY <1>0, <1>1, <1>6, <2>0, <2>1, <2>3 DEF Quiet, Returns, SameCall
  <2>4. CASE h'.pc = "add" /\ SameCall
    BY <2>4 DEF Quiet, SameCall
  <2>. QED BY <2>2, <2>3, <2>4
<1>7. CASE h.pc = "add" /\ userEntersNewChannel
  <2>1. h.c \in Clients /\ at'[h.c] = h.to
    BY <1>0, <1>7 DEF userEntersNewChannel, Busy, Holds
  <2>. QED BY <1>0, <1>1, <1>7, <2>1, EnterFields DEF Quiet, Returns, SameCall
<1>8. CASE h.pc = "sync" /\ (finishAuthenticate \/ finishAuthenticateFails)
  BY <1>0, <1>1, <1>8, FinishFields DEF Quiet
<1>9. CASE h.pc = "teardown" /\ teardownReturns
  <2>1. at' = at
    BY <1>9 DEF teardownReturns, chanVars
  <2>. QED BY <1>0, <1>1, <1>9, <2>1, FinishFields DEF Quiet
<1>10. h.pc \notin {"send", "evict"}
  BY DEF Quiet
<1>. QED BY <1>0, <1>2, <1>3, <1>4, <1>5, <1>6, <1>7, <1>8, <1>9, <1>10, HandlerAt

\* With users of boards only, who may not edit channels, the handler never sends
\* to the channel that it alone receives from: the fan-out cannot block on it.
THEOREM HandlerStaysFree == BoardsOnly => (Spec => []HandlerNeverBlocks)
<1>. SUFFICES ASSUME BoardsOnly PROVE Spec => []HandlerNeverBlocks
  OBVIOUS
<1>1. Init => Quiet
  BY SMT DEF Init, Idle, Quiet
<1>2. HomeInv /\ Quiet /\ [Next]_vars => Quiet'
  BY QuietStep
<1>3. Spec => []HomeInv
  BY HomeInvariant DEF BoardsOnly
<1>4. Quiet => HandlerNeverBlocks
  BY DEF Quiet, HandlerNeverBlocks
<1>. QED BY <1>1, <1>2, <1>3, <1>4, PTL DEF Spec
=============================================================================
