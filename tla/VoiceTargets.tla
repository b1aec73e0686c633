---------------------------- MODULE VoiceTargets ----------------------------
(* The whisper targets of clients over the channel tree, with their caches     *)
(* (voicetarget.go).  A client has one target here: the 30 ids of a client are *)
(* independent.  Sessions are not reused, and board isolation is BoardVoice's. *)
EXTENDS ChannelTree

CONSTANTS TargetMessages, Whisperers,  \* targets that are asked for, and by whom
          Senders, Leavers             \* clients that send messages; that come and go

VARIABLE target           \* client.voiceTargets[id], or NoTarget

treeVars == <<tree, nextChan, connected, chan, flags, tempRemove, blocked, ops>>
histVars == <<abandoned, stale>>
vars == <<treeVars, cache, uncleared, histVars, target>>

NoTarget == [sessions |-> {}, channel |-> NoChannel]

-----------------------------------------------------------------------------
\* The channels a target means.
TargetChannels(t, vt) ==
    IF vt.channel \notin DOMAIN t THEN {}
    ELSE (IF vt.links THEN AllLinks(t, vt.channel) ELSE {vt.channel})
         \cup (IF vt.children THEN AllSubChannels(t, vt.channel) ELSE {})

\* Those in one of the channels where c may whisper, and in the group if one is
\* given.
FromChannels(c, vt) ==
    {d \in Clients \ {c} :
        /\ chan[d] \in TargetChannels(tree, vt)
        /\ May(state, c, chan[d], "whisper")
        /\ vt.group.name = "" \/ GroupMemberCheck(tree, chan[d], chan[d], vt.group, User(state, d))}

Caches(c, vt, channels) ==
    [channels |-> channels, direct |-> ((vt.sessions \cap connected) \ channels) \ {c}]

Resolve(c, vt) == Caches(c, vt, FromChannels(c, vt))

\* A VoiceTarget message with one target: unknown sessions are skipped, and so is
\* the whole target if its channel is unknown.  An empty target is deleted.
handleVoiceTarget(c, m) ==
    LET vt == [m EXCEPT !.sessions = @ \cap connected]
    IN /\ c \in connected /\ ~blocked
       /\ m.channel \in DOMAIN tree \cup {NoChannel}
       /\ target' = [target EXCEPT ![c] = IF vt.sessions = {} /\ vt.channel = NoChannel THEN NoTarget ELSE vt]
       /\ cache' = [cache EXCEPT ![c] = Nil]
       /\ uncleared' = [uncleared EXCEPT ![c] = {}]
       /\ UNCHANGED <<treeVars, histVars>>

\* A voice packet for the target: the caches are made when they are not there.
SendVoiceBroadcast(c) ==
    /\ c \in connected /\ ~blocked
    /\ target[c] # NoTarget
    /\ cache[c] = Nil
    /\ cache' = [cache EXCEPT ![c] = Resolve(c, target[c])]
    /\ uncleared' = [uncleared EXCEPT ![c] = {}]
    /\ UNCHANGED <<treeVars, histVars, target>>

-----------------------------------------------------------------------------
\* A server with channel 1 below the root and the temporary channel 2 below that,
\* in which are the clients who whisper.
Init ==
    LET temp == [NewChannel("b") EXCEPT !.temporary = TRUE]
        three == AddChannel(AddChannel(Root :> NewChannel("Root"), 1, NewChannel("a")), 2, temp)
        start(c) == IF c \in Leavers THEN NoChannel ELSE IF c \in Whisperers THEN 2 ELSE Root
    IN /\ tree = AddChild(AddChild(three, Root, 1), 1, 2) /\ nextChan = 3
       /\ connected = Clients \ Leavers
       /\ chan = [c \in Clients |-> start(c)]
       /\ flags = [c \in Clients |-> [NewFlags EXCEPT !.suppress = c \notin Leavers /\ Uid[c] = 0]]
       /\ tempRemove = <<>> /\ blocked = FALSE
       /\ cache = [c \in Clients |-> Nil] /\ target = [c \in Clients |-> NoTarget]
       /\ ops = 0
       /\ uncleared = [c \in Clients |-> {}] /\ abandoned = {} /\ stale = {}

Chans == 0..MaxChan

Message(a) ==
    \/ \E p \in Chans, name \in Names, temp \in BOOLEAN : handleChannelCreate(a, p, name, temp)
    \/ \E ch \in Chans, e \in Edits : handleChannelEdit(a, ch, e)
    \/ \E ch \in Chans : handleChannelRemove(a, ch)
    \/ \E m \in AclMessages : handleAcl(a, m)
    \/ \E t \in Clients, m \in UserStates : handleUserState(a, t, m)

Next ==
    \/ \E a \in Senders : Message(a) /\ UNCHANGED target
    \/ removeTempChannel /\ UNCHANGED target
    \/ \E c \in Leavers : finishAuthenticate(c) /\ UNCHANGED target
    \/ \E c \in Leavers : Disconnect(c) /\ target' = [target EXCEPT ![c] = NoTarget]
    \/ \E c \in Whisperers, m \in TargetMessages : handleVoiceTarget(c, m)
    \/ \E c \in Whisperers : SendVoiceBroadcast(c)

Spec == Init /\ [][Next]_vars

-----------------------------------------------------------------------------
\* Types of the server's maps, the clients and the buffer (Server in server.go,
\* Channel in channel.go).
TypeOK ==
    /\ DOMAIN tree \subseteq 0..nextChan - 1 /\ Root \in DOMAIN tree
    /\ connected \subseteq Clients
    /\ chan \in [Clients -> Chans \cup {NoChannel}]
    /\ \A c \in Clients : flags[c] \in [{"mute", "deaf", "selfMute", "selfDeaf", "suppress"} -> BOOLEAN]
    /\ Len(tempRemove) <= 1
    /\ \A c \in Clients : cache[c] = Nil \/ (cache[c].direct \cup cache[c].channels) \subseteq Clients \ {c}

\* However channels are created, moved, linked and removed, parent and children
\* fields agree, every channel in server.Channels is below the root, and links are
\* symmetric and lead to channels that exist: a move is never a cycle and a removal
\* leaves no orphan and no dangling link (handleChannelStateMessage, RemoveChannel).
OneTree ==
    ~blocked => /\ \A c \in DOMAIN tree, d \in DOMAIN tree : d \in tree[c].children <=> tree[d].parent = c
                /\ \A c \in DOMAIN tree : tree[c].children \subseteq DOMAIN tree
                /\ \A c \in DOMAIN tree : Root \in Ancestors(tree, c)
                /\ \A c \in DOMAIN tree : \A d \in tree[c].links : d \in DOMAIN tree /\ c \in tree[d].links

\* A client that is connected is in a channel that exists: removing a tree of
\* channels moves all of their clients out, whatever they may enter.
ClientsHaveChannel ==
    ~blocked => \A c \in Clients : (c \in connected <=> chan[c] # NoChannel)
                                   /\ (c \in connected => chan[c] \in DOMAIN tree)

\* HasPermission's walk down the channels computes what the rules mean: the last
\* thing said about a permission decides, and a channel that can be neither
\* traversed nor written closes all below it.
PermissionsExact ==
    \A c \in connected, ch \in DOMAIN tree :
        LET u == User(state, c) IN
        \A p \in {"write", "enter", "speak"} :
            HasPermission(tree, ch, u, p) <=> MeansPermission(tree, ch, u, p)

\* Suppress is what the speak permission in the client's channel says, unless an
\* ACL or a parent has changed since it came (userEnterChannel); and a deaf user is
\* mute, in whatever order the flags were set (handleUserStateMessage).
FlagsExact ==
    /\ ~blocked => \A c \in connected \ stale : flags[c].suppress = ~May(state, c, chan[c], "speak")
    /\ \A c \in Clients : /\ flags[c].deaf => flags[c].mute
                          /\ flags[c].selfDeaf => flags[c].selfMute

\* A temporary channel without clients is waiting to be removed, unless its last
\* client disconnected (userEnterChannel and tempRemove in handlerLoop).
EmptyTemporariesGo ==
    ~blocked => \A c \in DOMAIN tree :
        (tree[c].temporary /\ Members(state, c) = {}) => c \in Range(tempRemove) \cup abandoned

\* The caches are those that would be made now, or have clients more that are gone.
Current(c, now) ==
    IF uncleared[c] = {} THEN cache[c] = now
    ELSE \A f \in {"channels", "direct"} : cache[c][f] \cap connected = now[f]

\* The caches of a voice target hold exactly whom it means now: ClearCaches is
\* called wherever the answer changes, apart from moves, links and removals of
\* channels.  After a disconnect they hold the client that is gone too.
CachesExact ==
    \A c \in connected :
        (cache[c] # Nil /\ ~blocked /\ "tree" \notin uncleared[c]) =>
            Current(c, Resolve(c, target[c]))
=============================================================================
