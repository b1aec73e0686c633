----------------------------- MODULE BoardVoice -----------------------------
(* Board voice rooms of Teamlancer mode with internal authentication: the room *)
(* manager (pkg/teamlancer/voice), the channels it is mapped to, and the two   *)
(* kinds of goroutine that change them.  The server's synchronous handler      *)
(* finishes authentications, moves and kicks clients, creates and removes      *)
(* channels; a client's reader goroutine tears the client down when its        *)
(* connection ends (RemoveClient), concurrently with the handler.  Each step   *)
(* below is the stretch of code between two accesses to state the other        *)
(* goroutines can change.  Channels lie directly under the root.               *)
EXTENDS Integers, Sequences, FiniteSets

CONSTANTS Clients, NoClient,    \* connections
          Boards, NoBoard,
          BoardOf,    \* BoardOf[c]: the board_id of c's identity, or NoBoard
          Users,
          UserOf,     \* UserOf[c]: the user id of c's identity
          Creators,   \* may create channels (certificate and ACL)
          Writers,    \* have WritePermission; a creator has it on its channel
          Movers,     \* have MovePermission on every channel
          MaxChan     \* bound: the largest channel id the model creates

Root == 0
NoChan == -1

ASSUME BoardAssumption == /\ NoBoard \notin Boards
                          /\ NoClient \notin Clients
                          /\ BoardOf \in [Clients -> Boards \cup {NoBoard}]
                          /\ UserOf \in [Clients -> Users]
                          /\ Creators \subseteq Writers
                          /\ MaxChan \in Nat

VARIABLES
    state,       \* state[c]: client.state from the point of view of the rooms
    registered,  \* the values of server.clients
    late,        \* disconnected by the handler with a message still to be handled
    at,          \* at[c]: the id of client.Channel, NoChan for nil
    members,     \* members[ch]: the values of channel.clients
    channels,    \* the keys of server.Channels
    temporary,   \* channels created with temporary = true
    owner,       \* history: the board a channel was created for
    nextChanId,  \* server.nextChanId
    roomChan,    \* roomChan[b]: ChannelID of b's room, NoChan if b has none
    parts,       \* parts[b]: Participants of b's room
    tempRemove,  \* server.tempRemove, a Go channel with one buffer slot
    td,          \* td[c]: progress of RemoveClient(c)
    tdChan,      \* tdChan[c]: RemoveClient's local variable channel
    h            \* the handler: pc and locals of the call it is in

connVars == <<state, registered, late>>
chanVars == <<at, members>>
treeVars == <<channels, temporary, owner, nextChanId>>
roomVars == <<roomChan, parts>>
tdVars == <<td, tdChan>>
vars == <<connVars, chanVars, treeVars, roomVars, tempRemove, tdVars, h>>

Chans == 0..MaxChan
Scoped(c) == BoardOf[c] # NoBoard
Idle == [pc |-> "idle", c |-> NoClient, to |-> NoChan,
         next |-> "idle", from |-> NoChan, rm |-> NoChan, todo |-> {}]

-----------------------------------------------------------------------------
\* pkg/teamlancer/voice/policy.go and teamlancer_voice.go, read-only.

\* FindByChannelID walks a Go map: any room with that channel id may be found.
FindByChannelID(ch) == {b \in Boards : roomChan[b] # NoChan /\ roomChan[b] = ch}

\* Faulty: any board will do.
anyBoard(c, b) == Scoped(c)

sameBoard(c, b) == Scoped(c) /\ BoardOf[c] = b

\* Faulty: isolation is not applied to moves.
canMoveAnywhere(c, ch) == TRUE

canMoveBoardScopedClient(c, ch) ==
    Scoped(c) => \E b \in FindByChannelID(ch) : sameBoard(c, b)

\* Faulty: being on some board is enough; board rooms are not looked up.
canReceiveIfScoped(target, sender) == Scoped(target) <=> Scoped(sender)
canReceiveWithoutRooms(target, sender) == ~Scoped(target) /\ ~Scoped(sender)

canReceiveFromClient(target, sender) ==
    \/ ~Scoped(target) /\ ~Scoped(sender)
    \/ \E b \in FindByChannelID(at[sender]) : sameBoard(target, b)

\* Who is sent a voice packet that the handler fans out for s.
Audience(s) ==
    IF at[s] = NoChan THEN {}
    ELSE {t \in members[at[s]] \ {s} : canReceiveFromClient(t, s)}

-----------------------------------------------------------------------------
Init == /\ state = [c \in Clients |-> "connected"]
        /\ registered = {}
        /\ late = {}
        /\ at = [c \in Clients |-> NoChan]
        /\ members = [ch \in Chans |-> {}]
        /\ channels = {Root}
        /\ temporary = {}
        /\ owner = [ch \in Chans |-> NoBoard]
        /\ nextChanId = 1
        /\ roomChan = [b \in Boards |-> NoChan]
        /\ parts = [b \in Boards |-> {}]
        /\ tempRemove = <<>>
        /\ td = [c \in Clients |-> "no"]
        /\ tdChan = [c \in Clients |-> NoChan]
        /\ h = Idle

AddChannel(temp, b) ==
    /\ nextChanId <= MaxChan
    /\ channels' = channels \cup {nextChanId}
    /\ temporary' = IF temp THEN temporary \cup {nextChanId} ELSE temporary
    /\ owner' = [owner EXCEPT ![nextChanId] = b]
    /\ nextChanId' = nextChanId + 1

\* Start of disconnect() and RemoveClient: c leaves server.clients and its
\* channel is read.  A second call returns at once; see ClientLifecycle for the
\* unlocked flag itself.
Claim(c) ==
    /\ td[c] = "no"
    /\ td' = [td EXCEPT ![c] = "claimed"]
    /\ tdChan' = [tdChan EXCEPT ![c] = at[c]]
    /\ registered' = registered \ {c}

-----------------------------------------------------------------------------
\* Authentication, in the client's own goroutine.

\* handleTeamlancerAuthenticate accepts the identity, the CryptSetup is sent.
Authenticate(c) ==
    /\ state[c] = "connected"
    /\ td[c] = "no"
    /\ state' = [state EXCEPT ![c] = "authenticated"]
    /\ UNCHANGED <<registered, late, chanVars, treeVars, roomVars, tempRemove, tdVars, h>>

\* The identity is set already when sending the CryptSetup fails: the client is
\* torn down as a member of its board although it never joined the room.
AuthenticateFails(c) ==
    /\ state[c] = "connected"
    /\ Claim(c)
    /\ UNCHANGED <<state, late, chanVars, treeVars, roomVars, tempRemove, h>>

-----------------------------------------------------------------------------
\* finishAuthenticate, in the handler: resolve, join, send the channel list,
\* enter the channel, send the sync.

resolveAuthenticatedChannel(c) ==
    /\ h.pc = "idle"
    /\ state[c] = "authenticated"
    /\ td[c] = "no"
    /\ state' = [state EXCEPT ![c] = "joining"]
    /\ LET b == BoardOf[c]
           found == Scoped(c) /\ roomChan[b] \in channels
           ch == IF ~Scoped(c) THEN Root
                 ELSE IF found THEN roomChan[b] ELSE nextChanId
       IN /\ h' = [h EXCEPT !.pc = "join", !.c = c, !.to = ch]
          /\ IF Scoped(c) /\ ~found
             THEN AddChannel(TRUE, b)
             ELSE UNCHANGED treeVars
    /\ UNCHANGED <<registered, late, chanVars, roomVars, tempRemove, tdVars>>

\* VoiceRoomManager.Join: an existing room keeps its ChannelID.
Join(b, u, ch) ==
    /\ roomChan' = [roomChan EXCEPT ![b] = IF @ = NoChan THEN ch ELSE @]
    /\ parts' = [parts EXCEPT ![b] = @ \cup {u}]

joinBoardVoiceRoom ==
    /\ h.pc = "join"
    /\ IF Scoped(h.c)
       THEN Join(BoardOf[h.c], UserOf[h.c], h.to)
       ELSE UNCHANGED roomVars
    /\ registered' = registered \cup {h.c}
    /\ h' = [h EXCEPT !.pc = "list"]
    /\ UNCHANGED <<state, late, chanVars, treeVars, tempRemove, tdVars>>

sendChannelList ==
    /\ h.pc = "list"
    /\ h' = [h EXCEPT !.pc = "enter", !.next = "sync"]
    /\ UNCHANGED <<connVars, chanVars, treeVars, roomVars, tempRemove, tdVars>>

\* A failed send disconnects the client, and finishAuthenticate goes on.
sendChannelListFails ==
    /\ h.pc = "list"
    /\ Claim(h.c)
    /\ h' = [h EXCEPT !.pc = "teardown", !.next = "enter"]
    /\ UNCHANGED <<state, late, chanVars, treeVars, roomVars, tempRemove>>

\* Faulty: the client is not set to ready.
finishWithoutReady ==
    /\ h.pc = "sync"
    /\ td[h.c] = "no"
    /\ h' = Idle
    /\ UNCHANGED <<connVars, chanVars, treeVars, roomVars, tempRemove, tdVars>>

\* The ServerSync and ServerConfig messages reach the client.
finishAuthenticate ==
    /\ h.pc = "sync"
    /\ td[h.c] = "no"
    /\ state' = [state EXCEPT ![h.c] = "ready"]
    /\ h' = Idle
    /\ UNCHANGED <<registered, late, chanVars, treeVars, roomVars, tempRemove, tdVars>>

\* They do not: the client is disconnected, unless it was before.
finishAuthenticateFails ==
    /\ h.pc = "sync"
    /\ IF td[h.c] = "no"
       THEN /\ Claim(h.c)
            /\ h' = [h EXCEPT !.pc = "teardown", !.next = "idle"]
       ELSE /\ h' = Idle
            /\ UNCHANGED <<registered, tdVars>>
    /\ UNCHANGED <<state, late, chanVars, treeVars, roomVars, tempRemove>>

-----------------------------------------------------------------------------
\* userEnterChannel(h.c, h.to), continuing at h.next.

Continue(hs) == IF hs.next = "idle" THEN Idle ELSE [hs EXCEPT !.pc = hs.next]

userLeavesOldChannel ==
    /\ h.pc = "enter"
    /\ LET old == at[h.c]
           rest == members[old] \ {h.c}
       IN IF old = h.to
          THEN /\ h' = Continue(h)
               /\ UNCHANGED chanVars
          ELSE IF old = NoChan
          THEN /\ h' = [h EXCEPT !.pc = "add"]
               /\ UNCHANGED chanVars
          ELSE /\ members' = [members EXCEPT ![old] = rest]
               /\ at' = [at EXCEPT ![h.c] = NoChan]
               /\ h' = IF old \in temporary /\ rest = {}
                       THEN [h EXCEPT !.pc = "send", !.from = old]
                       ELSE [h EXCEPT !.pc = "add"]
    /\ UNCHANGED <<connVars, treeVars, roomVars, tempRemove, tdVars>>

\* The handler is the only receiver of tempRemove: it blocks when it is full.
sendTempRemove ==
    /\ h.pc = "send"
    /\ Len(tempRemove) < 1
    /\ tempRemove' = Append(tempRemove, h.from)
    /\ h' = [h EXCEPT !.pc = "add", !.from = NoChan]
    /\ UNCHANGED <<connVars, chanVars, treeVars, roomVars, tdVars>>

userEntersNewChannel ==
    /\ h.pc = "add"
    /\ members' = [members EXCEPT ![h.to] = @ \cup {h.c}]
    /\ at' = [at EXCEPT ![h.c] = h.to]
    /\ h' = Continue(h)
    /\ UNCHANGED <<connVars, treeVars, roomVars, tempRemove, tdVars>>

-----------------------------------------------------------------------------
\* Control messages, in the handler.

\* Senders of a message: of a late one it is the last.
Sends(a) == /\ a \in registered \cup late
            /\ late' = late \ {a}

\* handleUserStateMessage with a channel id: actor a moves target t.  For a late
\* actor the process panics instead (ClientLifecycle).
handleUserState(a, t, ch) ==
    /\ h.pc = "idle"
    /\ a \in registered /\ t \in registered
    /\ ch \in channels
    /\ canMoveBoardScopedClient(t, ch)
    /\ a = t \/ a \in Movers
    /\ h' = [h EXCEPT !.pc = "enter", !.c = t, !.to = ch]
    /\ UNCHANGED <<connVars, chanVars, treeVars, roomVars, tempRemove, tdVars>>

\* handleChannelStateMessage without a channel id: a is moved into the channel
\* when it is temporary, without a look at a's board.
handleChannelCreate(a, temp) ==
    /\ h.pc = "idle"
    /\ Sends(a) /\ a \in Creators
    /\ AddChannel(temp, NoBoard)
    /\ h' = IF temp THEN [h EXCEPT !.pc = "enter", !.c = a, !.to = nextChanId] ELSE h
    /\ UNCHANGED <<state, registered, chanVars, roomVars, tempRemove, tdVars>>

handleChannelRemove(a, ch) ==
    /\ h.pc = "idle"
    /\ Sends(a) /\ a \in Writers
    /\ ch \in channels \ {Root}
    /\ h' = [h EXCEPT !.pc = "evict", !.rm = ch, !.todo = members[ch]]
    /\ UNCHANGED <<state, registered, chanVars, treeVars, roomVars, tempRemove, tdVars>>

\* RemoveChannel moves the members of its snapshot to the root, one by one.
RemoveChannelEvict(t) ==
    /\ h.pc = "evict"
    /\ t \in h.todo
    /\ h' = [h EXCEPT !.pc = "enter", !.c = t, !.to = Root, !.next = "evict",
                      !.todo = @ \ {t}]
    /\ UNCHANGED <<connVars, chanVars, treeVars, roomVars, tempRemove, tdVars>>

RemoveChannelDelete ==
    /\ h.pc = "evict"
    /\ h.todo = {}
    /\ channels' = channels \ {h.rm}
    /\ h' = Idle
    /\ UNCHANGED <<connVars, chanVars, temporary, owner, nextChanId, roomVars,
                   tempRemove, tdVars>>

\* handlerLoop takes a channel from tempRemove and removes it if it is empty.
removeTempChannel ==
    /\ h.pc = "idle"
    /\ tempRemove # <<>>
    /\ tempRemove' = Tail(tempRemove)
    /\ channels' = IF members[Head(tempRemove)] = {}
                   THEN channels \ {Head(tempRemove)} ELSE channels
    /\ UNCHANGED <<connVars, chanVars, temporary, owner, nextChanId, roomVars, tdVars, h>>

\* handleUserRemoveMessage: the handler tears t down itself, while t's reader
\* may be waiting to hand over a message.
handleUserRemove(t) ==
    /\ h.pc = "idle"
    /\ t \in registered
    /\ Claim(t)
    /\ late' \in {late, late \cup {t}}
    /\ h' = [h EXCEPT !.pc = "teardown", !.c = t]
    /\ UNCHANGED <<state, chanVars, treeVars, roomVars, tempRemove>>

\* The handler's own call of disconnect returns.
teardownReturns ==
    /\ h.pc = "teardown"
    /\ td[h.c] = "done"
    /\ h' = IF h.next = "enter" THEN [h EXCEPT !.pc = "enter", !.next = "sync"]
            ELSE Idle
    /\ UNCHANGED <<connVars, chanVars, treeVars, roomVars, tempRemove, tdVars>>

-----------------------------------------------------------------------------
\* RemoveClient, in c's reader or in the handler.

\* The reader of a ready client sees the connection end.
disconnect(c) ==
    /\ state[c] = "ready"
    /\ Claim(c)
    /\ UNCHANGED <<state, late, chanVars, treeVars, roomVars, tempRemove, h>>

RemoveClientFromChannel(c) ==
    /\ td[c] = "claimed"
    /\ td' = [td EXCEPT ![c] = "detached"]
    /\ IF tdChan[c] = NoChan
       THEN UNCHANGED chanVars
       ELSE /\ members' = [members EXCEPT ![tdChan[c]] = @ \ {c}]
            /\ at' = [at EXCEPT ![c] = NoChan]
    /\ UNCHANGED <<connVars, treeVars, roomVars, tempRemove, tdChan, h>>

\* Faulty: the first to leave destroys the room; nobody does.
LeaveDestroys(b, u) == /\ parts' = [parts EXCEPT ![b] = {}]
                       /\ roomChan' = [roomChan EXCEPT ![b] = NoChan]
LeaveKeepsRoom(b, u) == parts' = [parts EXCEPT ![b] = @ \ {u}] /\ UNCHANGED roomChan

\* VoiceRoomManager.Leave removes the user, and with the last one the room.
Leave(b, u) ==
    LET rest == parts[b] \ {u}
    IN /\ parts' = [parts EXCEPT ![b] = rest]
       /\ roomChan' = [roomChan EXCEPT ![b] = IF rest = {} THEN NoChan ELSE @]

\* RemoveClient is done with c; its local variable is gone.
Returned(c) == /\ td' = [td EXCEPT ![c] = "done"]
               /\ tdChan' = [tdChan EXCEPT ![c] = NoChan]

leaveBoardVoiceRoom(c) ==
    /\ td[c] = "detached"
    /\ IF Scoped(c) /\ roomChan[BoardOf[c]] # NoChan
       THEN /\ Leave(BoardOf[c], UserOf[c])
            /\ IF parts[BoardOf[c]] \subseteq {UserOf[c]}
               THEN td' = [td EXCEPT ![c] = "destroyed"] /\ UNCHANGED tdChan
               ELSE Returned(c)
       ELSE Returned(c) /\ UNCHANGED roomVars
    /\ UNCHANGED <<connVars, chanVars, treeVars, tempRemove, h>>

\* The room was destroyed: hand its empty channel to the handler, unless
\* tempRemove is full.
signalTempRemove(c) ==
    /\ td[c] = "destroyed"
    /\ Returned(c)
    /\ tempRemove' = IF /\ tdChan[c] \in temporary
                        /\ members[tdChan[c]] = {}
                        /\ Len(tempRemove) < 1
                     THEN Append(tempRemove, tdChan[c]) ELSE tempRemove
    /\ UNCHANGED <<connVars, chanVars, treeVars, roomVars, h>>

-----------------------------------------------------------------------------

\* The handler is inside a call: one of these steps is next.
HandlerContinues ==
    \/ joinBoardVoiceRoom
    \/ sendChannelList
    \/ sendChannelListFails
    \/ finishAuthenticate
    \/ finishAuthenticateFails
    \/ userLeavesOldChannel
    \/ sendTempRemove
    \/ userEntersNewChannel
    \/ \E t \in Clients : RemoveChannelEvict(t)
    \/ RemoveChannelDelete
    \/ teardownReturns

\* The handler is at its select statement and takes up something new.
HandlerSelects ==
    \/ \E c \in Clients : resolveAuthenticatedChannel(c)
    \/ \E a, t \in Clients : \E ch \in Chans : handleUserState(a, t, ch)
    \/ \E a \in Clients : \E temp \in BOOLEAN : handleChannelCreate(a, temp)
    \/ \E a \in Clients : \E ch \in Chans : handleChannelRemove(a, ch)
    \/ \E t \in Clients : handleUserRemove(t)
    \/ removeTempChannel

Teardown(c) == \/ RemoveClientFromChannel(c)
               \/ leaveBoardVoiceRoom(c)
               \/ signalTempRemove(c)

Next == \/ HandlerContinues
        \/ HandlerSelects
        \/ \E c \in Clients : Authenticate(c)
        \/ \E c \in Clients : AuthenticateFails(c)
        \/ \E c \in Clients : disconnect(c)
        \/ \E c \in Clients : Teardown(c)

Spec == Init /\ [][Next]_vars

\* Goroutines that can run do run; Go's select chooses among the ready cases at
\* random, so a case that stays ready, or keeps becoming ready, is taken.
Fairness == /\ WF_vars(HandlerContinues)
            /\ SF_vars(removeTempChannel)
            /\ \A c \in Clients : /\ SF_vars(resolveAuthenticatedChannel(c))
                                  /\ WF_vars(Teardown(c))

FairSpec == Spec /\ Fairness

-----------------------------------------------------------------------------
ClientStates == {"connected", "authenticated", "joining", "ready"}
TeardownStates == {"no", "claimed", "detached", "destroyed", "done"}
HandlerPcs == {"idle", "join", "list", "enter", "send", "add", "sync", "evict", "teardown"}
HandlerStates ==
    [pc : HandlerPcs, c : Clients \cup {NoClient}, to : Chans \cup {NoChan},
     next : {"idle", "enter", "sync", "evict"}, from : Chans \cup {NoChan},
     rm : Chans \cup {NoChan}, todo : SUBSET Clients]

\* Types; tempRemove never holds more than its one buffered channel (NewServer).
TypeOK == /\ state \in [Clients -> ClientStates]
          /\ registered \in SUBSET Clients
          /\ late \in SUBSET Clients
          /\ at \in [Clients -> Chans \cup {NoChan}]
          /\ members \in [Chans -> SUBSET Clients]
          /\ channels \in SUBSET Chans
          /\ temporary \in SUBSET Chans
          /\ owner \in [Chans -> Boards \cup {NoBoard}]
          /\ nextChanId \in 1..(MaxChan + 1)
          /\ roomChan \in [Boards -> Chans \cup {NoChan}]
          /\ parts \in [Boards -> SUBSET Users]
          /\ tempRemove \in Seq(Chans) /\ Len(tempRemove) <= 1
          /\ td \in [Clients -> TeardownStates]
          /\ tdChan \in [Clients -> Chans \cup {NoChan}]
          /\ h \in HandlerStates

\* Why the two properties below hold: a channel made for a board is mapped and
\* entered for that board only, also while the handler is still on its way into
\* the channel; a channel id not yet used is referred to by nothing.
MayEnter(c, ch) == Scoped(c) => owner[ch] \in {NoBoard, BoardOf[c]}
OwnersRespected ==
    /\ owner[Root] = NoBoard
    /\ \A b \in Boards : roomChan[b] # NoChan =>
           roomChan[b] < nextChanId /\ owner[roomChan[b]] = b
    /\ \A ch \in Chans : \A c \in members[ch] : ch < nextChanId /\ MayEnter(c, ch)
    /\ \A c \in Clients : at[c] # NoChan => at[c] < nextChanId /\ MayEnter(c, at[c])
    /\ \A ch \in channels : ch < nextChanId
    /\ h.pc = "idle" => h = Idle
    /\ h.to # NoChan => h.c \in Clients /\ h.to < nextChanId /\ MayEnter(h.c, h.to)
    /\ h.pc = "join" => /\ h.c \in Clients
                        /\ h.to # NoChan
                        /\ Scoped(h.c) => owner[h.to] = BoardOf[h.c]
    /\ h.pc = "send" => h.from \in Chans

\* Different boards never share a Grumble channel: the rooms of two boards have
\* different channels, and the board-scoped members of a room's channel are of
\* that board, whatever moves, kicks, removals and disconnects come in between.
BoardsNeverShareRoom ==
    \A b \in Boards : roomChan[b] # NoChan =>
        /\ \A b2 \in Boards : roomChan[b2] = roomChan[b] => b2 = b
        /\ \A c \in members[roomChan[b]] : Scoped(c) => BoardOf[c] = b

\* Cross-board audio is dropped by the fanout: a board-scoped client is only
\* sent voice by speakers of its own board or by speakers without a board, and
\* a client without a board is never sent the voice of a board-scoped speaker.
CrossBoardSilence ==
    \A s, t \in Clients : t \in Audience(s) /\ Scoped(s) => BoardOf[t] = BoardOf[s]

\* A room exists only while somebody uses it or is about to: the handler is
\* joining it, or a participant has not reached Leave yet.
RoomsAreUsed ==
    \A b \in Boards : roomChan[b] # NoChan =>
        \E c \in Clients : /\ BoardOf[c] = b
                           /\ UserOf[c] \in parts[b]
                           /\ state[c] \in {"joining", "ready"}
                           /\ td[c] \in {"no", "claimed", "detached"}

\* The channel of b's room was removed and the room is still there: Join keeps
\* mapping later users to a channel they cannot find.
Orphaned(b) == roomChan[b] \in Chans \ channels

\* Between two handler calls, a ready client with a board is in the channel that
\* the board's room maps to, as long as that channel has not been removed under
\* the room: neither moves nor the comings and goings of other users, whatever
\* the teardowns they overlap with, take the client out or replace the room.
ScopedStaysHome ==
    h.pc = "idle" =>
        \A c \in registered : Scoped(c) /\ state[c] = "ready" =>
            at[c] = roomChan[BoardOf[c]] \/ Orphaned(BoardOf[c])

\* A user with a board remains in the channel of the board's room: the same
\* without the exception.
RemainsInRoom ==
    h.pc = "idle" =>
        \A c \in registered : Scoped(c) /\ state[c] = "ready" => at[c] = roomChan[BoardOf[c]]

\* When the handler fans voice out (between two of its calls), ready clients of
\* one board hear each other, unless their room has lost its channel.
SameBoardAudible ==
    h.pc = "idle" =>
        \A c, d \in registered :
            c # d /\ Scoped(c) /\ BoardOf[c] = BoardOf[d] /\ state[c] = "ready" /\ state[d] = "ready"
                => d \in Audience(c) \/ Orphaned(BoardOf[c])

\* Users on the same board join the same Grumble channel.
SameBoardSameChannel ==
    \A c, d \in registered :
        Scoped(c) /\ BoardOf[c] = BoardOf[d] /\ state[c] = "ready" /\ state[d] = "ready"
            => at[c] = at[d]

\* The handler never blocks on its own tempRemove channel.
HandlerNeverBlocks == h.pc = "send" => tempRemove = <<>>

\* Every authenticated client becomes ready or is torn down.
AuthenticationCompletes ==
    \A c \in Clients : state[c] = "authenticated" ~> state[c] = "ready" \/ td[c] = "done"

\* A move that the handler has accepted completes, unless the client leaves.
AcceptedMoveCompletes ==
    \A c \in Clients : \A ch \in Chans :
        (h.pc = "enter" /\ h.c = c /\ h.to = ch) ~> (at[c] = ch \/ td[c] = "done")
=============================================================================
