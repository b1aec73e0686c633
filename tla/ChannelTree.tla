----------------------------- MODULE ChannelTree -----------------------------
(* The handler's changes to the channel tree of one server, to the clients in  *)
(* it and to what depends on both: who may do what (Acl), who is suppressed,   *)
(* which temporary channels are to go, and the caches of voice targets.        *)
(* Each message is handled as one step, as there is one handler; BoardVoice    *)
(* has the interleavings of its steps with the clients' goroutines.  Iteration *)
(* over a Go map takes some fixed order.  Left out: descriptions, positions,   *)
(* board isolation (BoardVoice), what is stored (Freezer).                     *)
EXTENDS Acl

CONSTANTS Clients,
          Uid,               \* Uid[c]: the user id, -1 for an unregistered client
          LastChannel,       \* LastChannel[c]: user.LastChannelId, the root if there is none
          Names, Edits, AclMessages, UserStates,   \* what messages may ask for
          MaxChan, MaxOps    \* bounds: channel ids, messages that change something

VARIABLES
    tree, nextChan,
    connected,    \* the clients in server.clients
    chan,         \* client.Channel, or NoChannel
    flags,        \* client.Mute, Deaf, SelfMute, SelfDeaf and Suppress
    tempRemove,   \* the buffer of the channel of that name
    blocked,      \* the handler waits to send on tempRemove
    cache,        \* the caches of a client's voice target, or Nil
    ops,          \* bounded
    uncleared,    \* history: changes that clear no cache, since a client's was made or cleared
    abandoned,    \* history: temporary channels whose last client disconnected
    stale         \* history: clients whose channel's permissions have changed

Nil == [kind |-> "nil"]

state == [tree |-> tree, chan |-> chan, flags |-> flags, queue |-> tempRemove, blocked |-> blocked,
          clears |-> FALSE, stale |-> stale]

User(s, c) == [uid |-> Uid[c], hash |-> c, tokens |-> {}, chan |-> s.chan[c]]

May(s, c, ch, p) == HasPermission(s.tree, ch, User(s, c), p)

Members(s, ch) == {c \in Clients : s.chan[c] = ch}

-----------------------------------------------------------------------------
\* The parts of userEnterChannel.  A temporary channel that is left empty is sent to
\* the handler itself, through a buffer of one; nothing more is done if it is full.
LeftEmpty(s, ch) == ch \in DOMAIN s.tree /\ s.tree[ch].temporary /\ Members(s, ch) = {}

Leave(s, c) == [s EXCEPT !.chan[c] = NoChannel]

SendIf(empty, s, ch) ==
    IF ~empty THEN s ELSE IF Len(s.queue) = 1 THEN [s EXCEPT !.blocked = TRUE] ELSE [s EXCEPT !.queue = <<ch>>]

Enter(s, c, ch) == IF s.blocked THEN s ELSE [s EXCEPT !.chan[c] = ch, !.clears = TRUE, !.stale = @ \ {c}]

Suppress(s, c, silent) == IF s.blocked THEN s ELSE [s EXCEPT !.flags[c].suppress = silent]

SuppressIn(s, c, ch) == Suppress(s, c, ~May(s, c, ch, "speak"))

\* Faulty: the channel is looked at before it is left; the speak permission is asked
\* for before the client has entered.
userEnterChannelLooksFirst(s, c, ch) ==
    IF s.blocked \/ s.chan[c] = ch THEN s
    ELSE SuppressIn(Enter(SendIf(LeftEmpty(s, s.chan[c]), Leave(s, c), s.chan[c]), c, ch), c, ch)

userEnterChannelAsksFirst(s, c, ch) ==
    IF s.blocked \/ s.chan[c] = ch THEN s
    ELSE Suppress(Enter(SendIf(LeftEmpty(Leave(s, c), s.chan[c]), Leave(s, c), s.chan[c]), c, ch),
                  c, ~May(s, c, ch, "speak"))

\* userEnterChannel: the client leaves its channel, which may have to go, enters the
\* other one, and is suppressed if it may not speak there.
userEnterChannel(s, c, ch) ==
    IF s.blocked \/ s.chan[c] = ch THEN s
    ELSE SuppressIn(Enter(SendIf(LeftEmpty(Leave(s, c), s.chan[c]), Leave(s, c), s.chan[c]), c, ch), c, ch)

\* Where a client of a removed channel goes: up to the first channel it may enter.
Refuge(s, ch, c) ==
    LET chain == buildChain(s.tree, s.tree[ch].parent)
    IN chain[Max({1} \cup {i \in DOMAIN chain : May(s, c, chain[i], "enter")})]

MoveOut(s, ch) == FoldSet(LAMBDA c, r : userEnterChannel(r, c, Refuge(r, ch, c)), s, Members(s, ch))

\* Faulty: the clients of subchannels are not moved.
Without(s, ch) == IF s.blocked THEN s ELSE [s EXCEPT !.tree = RemoveChannel(@, ch)]

RemoveTreeTopOnly(s, ch) == IF ch = Root \/ s.blocked THEN s ELSE Without(MoveOut(s, ch), ch)

Drop(s, ch) == IF s.blocked THEN s ELSE [s EXCEPT !.tree = DropChannel(@, ch)]

\* RemoveChannel: links, then subchannels, then clients, then the channel.
RECURSIVE RemoveTree(_, _)
RemoveTree(s, ch) ==
    IF ch = Root \/ s.blocked THEN s
    ELSE Drop(MoveOut(FoldSet(LAMBDA d, r : RemoveTree(r, d), [s EXCEPT !.tree = UnlinkOthers(@, ch)],
                              s.tree[ch].children), ch), ch)

-----------------------------------------------------------------------------
\* The handler takes a message of client a.
Takes(a) == ~blocked /\ a \in connected /\ ops < MaxOps

\* It has changed the state to post.  Kind: what was changed without clearing the
\* caches; whom: the clients whose permissions may be others now.
Handle(post, kind, whom) ==
    \E s \in {post} :
        /\ ops' = ops + 1
        /\ tree' = s.tree /\ chan' = s.chan /\ flags' = s.flags
        /\ tempRemove' = s.queue /\ blocked' = s.blocked
        /\ cache' = IF s.clears THEN [c \in Clients |-> Nil] ELSE cache
        /\ uncleared' = [c \in Clients |-> IF s.clears THEN {} ELSE uncleared[c] \cup kind]
        /\ stale' = s.stale \cup whom

\* The clients in ch and below.
Within(s, ch) == {c \in Clients : s.chan[c] \in {ch} \cup AllSubChannels(s.tree, ch)}

NoGroup == [kind |-> "name", name |-> "", here |-> FALSE, invert |-> FALSE]
OwnHash(c) == [kind |-> "hash", name |-> c, here |-> FALSE, invert |-> FALSE]

\* The entry that lets client a write in a channel.
WriteEntry(a, subs) ==
    [uid |-> IF Uid[a] # -1 THEN Uid[a] ELSE 0, group |-> IF Uid[a] # -1 THEN NoGroup ELSE OwnHash(a),
     applyHere |-> TRUE, applySubs |-> subs, allow |-> {"write", "traverse"}, deny |-> {}]

NewGroup == [inherit |-> FALSE, inheritable |-> FALSE, add |-> {}, remove |-> {}]

\* A ChannelState message without a channel id.
handleChannelCreate(a, p, name, temp) ==
    LET id == nextChan
        ch == [NewChannel(name) EXCEPT !.temporary = temp,
                   !.groups = IF Uid[a] # -1 THEN "admin" :> [NewGroup EXCEPT !.add = {Uid[a]}] ELSE <<>>]
        added == [state EXCEPT !.tree = AddChild(AddChannel(@, id, ch), p, id)]
        owned == IF May(added, a, id, "write") THEN added
                 ELSE [added EXCEPT !.tree[id].acls = <<WriteEntry(a, TRUE)>>, !.clears = TRUE]
    IN /\ Takes(a)
       /\ id <= MaxChan
       /\ p \in DOMAIN tree
       /\ May(state, a, p, IF temp THEN "temp" ELSE "make")
       /\ ~tree[p].temporary
       /\ Handle(IF temp THEN userEnterChannel(owned, a, id) ELSE owned, {}, {})
       /\ nextChan' = id + 1
       /\ UNCHANGED <<connected, abandoned>>

\* One with a channel id.  Links to channels that do not exist are skipped.  A
\* client that moves a channel below itself is disconnected (Disconnect).
handleChannelEdit(a, ch, e) ==
    LET known == Restrict(e, {f \in DOMAIN e : f \in {"add", "remove"} => e[f] \in DOMAIN tree})
        relinks == {"add", "remove"} \cap DOMAIN e # {}
    IN /\ Takes(a)
       /\ ch \in DOMAIN tree
       /\ "parent" \in DOMAIN e => e.parent \in DOMAIN tree
       /\ EditAllowed(tree, ch, e)
       /\ {"name", "parent"} \cap DOMAIN e # {} => May(state, a, ch, "write")
       /\ "parent" \in DOMAIN e => May(state, a, e.parent, "make")
       /\ relinks => May(state, a, ch, "link")
       /\ "add" \in DOMAIN known => May(state, a, known.add, "link")
       /\ Handle([state EXCEPT !.tree = Edited(tree, ch, known)],
                 IF DOMAIN known \subseteq {"name"} THEN {} ELSE {"tree"},
                 IF "parent" \in DOMAIN e THEN Within(state, ch) ELSE {})
       /\ UNCHANGED <<nextChan, connected, abandoned>>

handleChannelRemove(a, ch) ==
    /\ Takes(a)
    /\ ch \in DOMAIN tree
    /\ May(state, a, ch, "write")
    /\ Handle(RemoveTree(state, ch), {"tree"}, {})
    /\ UNCHANGED <<nextChan, connected, abandoned>>

\* Faulty: the caches are not cleared.
handleAclKeepsCaches(a, m) ==
    LET ch == m.channel
        set == [state EXCEPT !.tree[ch].inherit = m.inherit, !.tree[ch].groups = m.groups,
                             !.tree[ch].acls = Append(m.acls, WriteEntry(a, FALSE))]
    IN /\ Takes(a)
       /\ ch \in DOMAIN tree
       /\ \/ May(state, a, ch, "write")
          \/ tree[ch].parent # NoChannel /\ May(state, a, tree[ch].parent, "write")
       /\ Handle(set, {}, Within(state, ch))
       /\ UNCHANGED <<nextChan, connected, abandoned>>

\* Setting the ACL of a channel: m has the fields channel, inherit, acls and groups.
\* Every client here has a certificate and is given write permission last.
handleAcl(a, m) ==
    LET ch == m.channel
        set == [state EXCEPT !.tree[ch].inherit = m.inherit, !.tree[ch].groups = m.groups,
                             !.tree[ch].acls = Append(m.acls, WriteEntry(a, FALSE)), !.clears = TRUE]
    IN /\ Takes(a)
       /\ ch \in DOMAIN tree
       /\ \/ May(state, a, ch, "write")
          \/ tree[ch].parent # NoChannel /\ May(state, a, tree[ch].parent, "write")
       /\ Handle(set, {}, Within(state, ch))
       /\ UNCHANGED <<nextChan, connected, abandoned>>

-----------------------------------------------------------------------------
\* A UserState message m of client a about client t, with some of the fields
\* channel, mute, deaf, selfMute and selfDeaf.
NewFlags == [mute |-> FALSE, deaf |-> FALSE, selfMute |-> FALSE, selfDeaf |-> FALSE, suppress |-> FALSE]

SelfFlags(f, m) ==
    LET d == IF "selfDeaf" \in DOMAIN m
             THEN [f EXCEPT !.selfDeaf = m.selfDeaf, !.selfMute = @ \/ m.selfDeaf] ELSE f
    IN IF "selfMute" \in DOMAIN m
       THEN [d EXCEPT !.selfMute = m.selfMute, !.selfDeaf = @ /\ m.selfMute] ELSE d

\* A deaf user is mute, and one who is not mute is not deaf.
MuteFlags(f, m) ==
    LET deafens == "deaf" \in DOMAIN m /\ m.deaf
        d == IF "deaf" \in DOMAIN m THEN [f EXCEPT !.deaf = m.deaf] ELSE f
        mute == deafens \/ ("mute" \in DOMAIN m /\ m.mute)
    IN IF deafens \/ "mute" \in DOMAIN m
       THEN [d EXCEPT !.mute = mute, !.deaf = @ /\ mute] ELSE d

MayUserState(a, t, m) ==
    /\ "channel" \in DOMAIN m =>
           /\ m.channel \in DOMAIN tree
           /\ a # t => May(state, a, chan[t], "move")
           /\ May(state, a, m.channel, "move") \/ May(state, t, m.channel, "enter")
    /\ {"mute", "deaf"} \cap DOMAIN m # {} => Uid[t] # 0 /\ May(state, a, chan[t], "mute")
    /\ {"selfMute", "selfDeaf"} \cap DOMAIN m # {} => a = t

handleUserState(a, t, m) ==
    LET flagged == [state EXCEPT !.flags[t] = MuteFlags(SelfFlags(@, m), m)]
    IN /\ Takes(a)
       /\ t \in connected
       /\ MayUserState(a, t, m)
       /\ Handle(IF "channel" \in DOMAIN m THEN userEnterChannel(flagged, t, m.channel) ELSE flagged, {}, {})
       /\ UNCHANGED <<nextChan, connected, abandoned>>

-----------------------------------------------------------------------------
\* What is not a message: a temporary channel received from tempRemove, which may
\* be gone or in use again; a client that enters its last channel, as it was
\* when the server was loaded; one that disconnects, in its own goroutine.
removeTempChannel ==
    LET taken == [state EXCEPT !.queue = Tail(@)]
        ch == Head(tempRemove)
        s == IF ch \in DOMAIN tree /\ Members(state, ch) = {} THEN RemoveTree(taken, ch) ELSE taken
    IN /\ ~blocked /\ tempRemove # <<>>
       /\ tree' = s.tree /\ tempRemove' = s.queue
       /\ uncleared' = [c \in Clients |-> uncleared[c] \cup {"tree"}]
       /\ UNCHANGED <<nextChan, connected, chan, flags, blocked, cache, ops, abandoned, stale>>

finishAuthenticate(c) ==
    LET s == userEnterChannel(state, c, IF LastChannel[c] \in DOMAIN tree THEN LastChannel[c] ELSE Root)
    IN /\ ~blocked /\ c \notin connected
       /\ connected' = connected \cup {c}
       /\ chan' = s.chan /\ flags' = s.flags
       /\ cache' = [d \in Clients |-> Nil] /\ uncleared' = [d \in Clients |-> {}]
       /\ UNCHANGED <<tree, nextChan, tempRemove, blocked, ops, abandoned, stale>>

Disconnect(c) ==
    LET left == [state EXCEPT !.chan[c] = NoChannel]
        ch == chan[c]
    IN /\ c \in connected
       /\ connected' = connected \ {c}
       /\ chan' = left.chan /\ flags' = [flags EXCEPT ![c] = NewFlags]
       /\ cache' = [cache EXCEPT ![c] = Nil]
       /\ uncleared' = [d \in Clients |-> IF d = c THEN {} ELSE uncleared[d] \cup {"gone"}]
       /\ abandoned' = IF Members(left, ch) = {} THEN abandoned \cup {ch} ELSE abandoned
       /\ stale' = stale \ {c}
       /\ UNCHANGED <<tree, nextChan, tempRemove, blocked, ops>>
=============================================================================
