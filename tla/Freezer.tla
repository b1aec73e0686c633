------------------------------- MODULE Freezer -------------------------------
(* What the server keeps on disk: a snapshot of the whole server (main.fz) and *)
(* a log of the changes made since (log.fz).  The handler writes a log entry   *)
(* with each change; after LogOpsBeforeSync entries, at the start of the       *)
(* process and when it stops it writes a new snapshot and then starts a new    *)
(* log, and the process may end between any two of these steps.  Accept loops  *)
(* write to the log too, when they drop expired bans.                          *)
(* Left out: permission checks (ChannelTree), passwords, positions and         *)
(* descriptions of channels, e-mail addresses and times of users.  A record of *)
(* the log holds the fields that are set: an empty list is not stored.         *)
EXTENDS Channels, Sequences, FiniteSetsExt

CONSTANTS Clients,           \* clients with a certificate, reconnecting at each launch
          UserNames,         \* names that users are given by a user list
          ChannelNames,
          Bans, Expirable,   \* bans; those with a duration
          Passwords,         \* values of the one configuration key modelled
          Blobs, NoBlob,     \* textures and comments of users
          LogOpsBeforeSync,
          MaxOps, MaxChan, MaxUser, MaxBoots   \* bounds

NoUid == -1
NoFile == [kind |-> "none"]
NoCfg == [kind |-> "default"]

ASSUME FreezerAssumption ==
    /\ NoCfg \notin Passwords
    /\ LogOpsBeforeSync \in Nat /\ MaxOps \in Nat /\ MaxChan \in Nat /\ MaxUser \in Nat /\ MaxBoots \in Nat

VARIABLES
    main,       \* main.fz, or NoFile
    log,        \* log.fz: the entries of complete transactions and a torn end, or NoFile
    dir,        \* the server's directory exists
    up,         \* the process: "off", "boot", "run", "stop" or "idle"
    fz,         \* the step of FreezeToFile that is next, "done" outside of it
    logOpen,    \* server.freezelog is an open file
    mem,        \* the server in memory
    frozen,     \* the frozen server in the temporary file
    who,        \* client.user: the uid, or NoUid
    pending,    \* a value set in memory and on its way to the handler, or NoCfg
    numLogOps,
    ops, boots, \* bounded
    unlogged,   \* history: changes since the last new log that replay may miss
    temps       \* history: channels that were temporary

procVars == <<up, fz, logOpen>>
histVars == <<unlogged, temps>>
vars == <<main, log, dir, procVars, mem, frozen, who, pending, numLogOps, ops, boots, histVars>>

-----------------------------------------------------------------------------
\* Freezing: the fields of a message that are set.
Absent == [parent |-> NoChannel, acls |-> <<>>, groups |-> <<>>, links |-> {}]

\* Only one of user and group is stored, and -1 stands for a group entry.
FreezeACL(e) == IF e.uid # NoUid THEN [uid |-> e.uid, group |-> ""] ELSE e

FreezeChannel(ch) ==
    [x \in {"name", "inherit"} \cup {y \in DOMAIN Absent : ch[y] # Absent[y]} |->
        IF x = "acls" THEN [i \in DOMAIN ch.acls |-> FreezeACL(ch.acls[i])] ELSE ch[x]]

FreezeACLs(ch) ==
    LET f == FreezeChannel(ch) IN Restrict(f, DOMAIN f \cap {"inherit", "acls", "groups"})

Freeze(s) == [kind |-> "server", cfg |-> s.cfg, bans |-> s.bans, users |-> s.users,
              chans |-> [c \in DOMAIN s.tree |-> FreezeChannel(s.tree[c])]]

\* Unfreezing.  A group loses its name, and one with members is a write to a nil
\* map.
GroupPanics(f) == "groups" \in DOMAIN f /\ \E g \in DOMAIN f.groups : f.groups[g] # {}

Unfreeze(ch, f) ==
    [x \in DOMAIN ch |-> IF x \notin DOMAIN f \ {"parent"} THEN ch[x]
                         ELSE IF x = "groups" THEN [g \in {""} |-> {}] ELSE f[x]]

NewUser(name) == [name |-> name, cert |-> "", last |-> Root, blob |-> NoBlob]

\* The fields of a stored user over those of the user.
Overlay(user, f) == [x \in DOMAIN user |-> IF x \in DOMAIN f THEN f[x] ELSE user[x]]

\* Faulty: an entry for a known user replaces all of its fields.
ReplayUserReplaces(ls, e) ==
    IF e.id \notin DOMAIN ls.users /\ "name" \notin DOMAIN e.set THEN ls
    ELSE [ls EXCEPT !.users = With(@, e.id, Overlay(NewUser(""), e.set)),
                    !.nextUser = Max({@, e.id + 1})]

\* Replay of one log entry into the state ls of the load.
ReplayUser(ls, e) ==
    LET known == e.id \in DOMAIN ls.users
        old == IF known THEN ls.users[e.id] ELSE NewUser("")
    IN IF ~known /\ "name" \notin DOMAIN e.set THEN ls
       ELSE [ls EXCEPT !.users = With(@, e.id, Overlay(old, e.set)),
                       !.nextUser = Max({@, e.id + 1})]

\* The parent is taken for a channel that is new.
ReplayChannel(ls, e) ==
    LET known == e.id \in DOMAIN ls.raw
        old == IF known THEN ls.raw[e.id] ELSE NewChannel("")
    IN IF ~known /\ "name" \notin DOMAIN e.set THEN ls
       ELSE [ls EXCEPT !.raw = With(@, e.id, Unfreeze(old, e.set)),
                       !.parents = IF known \/ "parent" \notin DOMAIN e.set THEN @
                                   ELSE With(@, e.id, e.set.parent),
                       !.panic = @ \/ GroupPanics(e.set),
                       !.nextChan = Max({@, e.id + 1})]

\* A removed channel stays in the map as a nil pointer, which is dereferenced
\* when the links are hooked up.
Replay(ls, e) ==
    CASE e.kind = "User" -> ReplayUser(ls, e)
      [] e.kind = "UserRemove" -> [ls EXCEPT !.users = Restrict(@, DOMAIN @ \ {e.id})]
      [] e.kind = "Channel" -> ReplayChannel(ls, e)
      [] e.kind = "ChannelRemove" -> [ls EXCEPT !.panic = TRUE]
      [] e.kind = "BanList" -> [ls EXCEPT !.bans = e.bans]
      [] e.kind = "Config" -> [ls EXCEPT !.cfg = e.value]

\* The snapshot m alone.
LoadSnapshot(m) ==
    LET cs == m.chans
    IN [cfg |-> m.cfg, bans |-> m.bans, users |-> m.users,
        raw |-> [c \in DOMAIN cs |-> Unfreeze(NewChannel(""), cs[c])],
        parents |-> [c \in {d \in DOMAIN cs : "parent" \in DOMAIN cs[d]} |-> cs[c].parent],
        panic |-> \E c \in DOMAIN cs : GroupPanics(cs[c]),
        nextChan |-> Max({1} \cup {c + 1 : c \in DOMAIN cs}),
        nextUser |-> Max({1} \cup {u + 1 : u \in DOMAIN m.users})]

\* The walk over the complete transactions of the log, entry by entry.
ReplayAll(ls, es) ==
    LET After[i \in 0..Len(es)] == IF i = 0 THEN ls ELSE Replay(After[i - 1], es[i])
    IN After[Len(es)]

LoadLog == IF log = NoFile THEN LoadSnapshot(main) ELSE ReplayAll(LoadSnapshot(main), log.entries)

\* The end of the load: children and links are hooked up, a link on both sides.
HookUp(ls) ==
    LET ids == DOMAIN ls.raw
    IN [c \in ids |-> [ls.raw[c] EXCEPT
            !.parent = IF c \in DOMAIN ls.parents THEN ls.parents[c] ELSE NoChannel,
            !.children = {d \in DOMAIN ls.parents : ls.parents[d] = c},
            !.links = {d \in ids : d \in ls.raw[c].links \/ c \in ls.raw[d].links}]]

Loaded ==
    LET ls == LoadLog
    IN [cfg |-> ls.cfg, bans |-> ls.bans, users |-> ls.users, tree |-> HookUp(ls),
        nextChan |-> ls.nextChan, nextUser |-> ls.nextUser]

\* NewServerFromFrozen succeeds.  Fewer than the four bytes of a record's size
\* at the end of the log are taken for its end, anything more is an error; so
\* is a log that is not there, and a parent that is not.
Loads == /\ main # NoFile
         /\ log # NoFile /\ log.torn # "body"
         /\ LET ls == LoadLog IN ~ls.panic /\ Range(ls.parents) \subseteq DOMAIN ls.raw

-----------------------------------------------------------------------------
\* NewServer.
Fresh == [cfg |-> NoCfg, bans |-> {}, users |-> <<>>, tree |-> [c \in {Root} |-> NewChannel("Root")],
          nextChan |-> 1, nextUser |-> 1]

\* A server as a clean stop leaves it: a user, and two channels that are linked.
Used ==
    LET two == AddChannel(AddChannel(Fresh.tree, 1, NewChannel("a")), 2, NewChannel("b"))
        tree == LinkChannels(AddChild(AddChild(two, Root, 1), Root, 2), 1, 2)
        user == [NewUser("ann") EXCEPT !.cert = CHOOSE c \in Clients : TRUE]
    IN [Fresh EXCEPT !.tree = tree, !.users = [u \in {1} |-> user], !.nextChan = 3, !.nextUser = 2]

NewLog == [entries |-> <<>>, torn |-> "no"]

Init == /\ \/ dir = FALSE /\ main = NoFile /\ log = NoFile
           \/ dir = TRUE /\ main = Freeze(Used) /\ log = NewLog
        /\ up = "off" /\ fz = "done" /\ logOpen = FALSE
        /\ mem = Fresh /\ frozen = NoFile
        /\ who = [c \in Clients |-> NoUid]
        /\ pending = NoCfg /\ numLogOps = 0
        /\ ops = 0 /\ boots = 0
        /\ unlogged = {} /\ temps = {}

\* The process ends: nothing but the files is left.
Dies == /\ up' = "off" /\ fz' = "done" /\ logOpen' = FALSE
        /\ mem' = Fresh /\ frozen' = NoFile
        /\ who' = [c \in Clients |-> NoUid]
        /\ pending' = NoCfg /\ numLogOps' = 0

\* It is killed, or ends because of an error elsewhere.
Crash ==
    /\ up # "off"
    /\ Dies
    /\ UNCHANGED <<main, log, dir, ops, boots, histVars>>

-----------------------------------------------------------------------------
\* main: the server is loaded, or made when there is none, and frozen at once.
Boot ==
    /\ up = "off" /\ boots < MaxBoots
    /\ boots' = boots + 1
    /\ dir' = TRUE
    /\ IF dir THEN Loads /\ mem' = Loaded ELSE mem' = Fresh
    /\ up' = "boot" /\ fz' = "write"
    /\ UNCHANGED <<main, log, logOpen, frozen, who, pending, numLogOps, ops, histVars>>

\* Faulty: the log is emptied before the new snapshot is in place.
freezeCloseEmpties ==
    /\ up \in {"run", "stop"}
    /\ \/ fz = "close"
       \/ fz = "done" /\ up = "run" /\ numLogOps >= LogOpsBeforeSync
    /\ logOpen' = FALSE /\ log' = NewLog
    /\ fz' = "write"
    /\ UNCHANGED <<main, dir, up, mem, frozen, who, pending, numLogOps, ops, boots, histVars>>

\* FreezeToFile, step by step.  The log is closed, the server frozen into a
\* temporary file, which is synced and renamed.
freezeClose ==
    /\ up \in {"run", "stop"}
    /\ \/ fz = "close"
       \/ fz = "done" /\ up = "run" /\ numLogOps >= LogOpsBeforeSync
    /\ logOpen' = FALSE
    /\ fz' = "write"
    /\ UNCHANGED <<main, log, dir, up, mem, frozen, who, pending, numLogOps, ops, boots, histVars>>

freezeWrite ==
    /\ fz = "write"
    /\ frozen' = Freeze(mem)
    /\ fz' = "rename"
    /\ UNCHANGED <<main, log, dir, up, logOpen, mem, who, pending, numLogOps, ops, boots, histVars>>

\* The log is opened anew only when the server is running.
freezeRename ==
    /\ fz = "rename"
    /\ main' = frozen
    /\ frozen' = NoFile
    /\ fz' = IF up = "boot" THEN "start" ELSE "remove"
    /\ UNCHANGED <<log, dir, up, logOpen, mem, who, pending, numLogOps, ops, boots, histVars>>

\* openFreezeLog removes the log and creates an empty one.
openRemove ==
    /\ fz = "remove"
    /\ log' = NoFile
    /\ fz' = "create"
    /\ UNCHANGED <<main, dir, up, logOpen, mem, frozen, who, pending, numLogOps, ops, boots, histVars>>

Logins ==
    {w \in [Clients -> {NoUid} \cup DOMAIN mem.users] :
        \A c \in Clients :
            LET mine == {u \in DOMAIN mem.users : mem.users[u].cert = c}
            IN w[c] \in IF mine = {} THEN {NoUid} ELSE mine}

\* When the server starts, clients come back as a user with their certificate.
openCreate ==
    /\ fz = "create"
    /\ log' = NewLog
    /\ unlogged' = {}
    /\ up' = IF up = "boot" THEN "run" ELSE up
    /\ fz' = "done" /\ logOpen' = TRUE /\ numLogOps' = 0
    /\ who' \in IF up = "boot" THEN Logins ELSE {who}
    /\ UNCHANGED <<main, dir, mem, frozen, pending, ops, boots, temps>>

\* Start: the listeners are opened, or the process goes on without a server.
startListens ==
    /\ fz = "start"
    /\ fz' = "remove"
    /\ UNCHANGED <<main, log, dir, up, logOpen, mem, frozen, who, pending, numLogOps, ops, boots, histVars>>

startFails ==
    /\ fz = "start"
    /\ fz' = "done" /\ up' = "idle"
    /\ UNCHANGED <<main, log, dir, logOpen, mem, frozen, who, pending, numLogOps, ops, boots, histVars>>

\* Stop has ended the handler and closed the listeners.
stopFreezes ==
    /\ up = "run" /\ fz = "done" /\ numLogOps < LogOpsBeforeSync
    /\ up' = "stop" /\ fz' = "close"
    /\ UNCHANGED <<main, log, dir, logOpen, mem, frozen, who, pending, numLogOps, ops, boots, histVars>>

\* netwg.Wait returns, and the process exits.
stopExits ==
    /\ up = "stop" /\ fz = "done"
    /\ Dies
    /\ UNCHANGED <<main, log, dir, ops, boots, histVars>>

-----------------------------------------------------------------------------
\* Changes, in the handler.

\* The handler takes a message when no snapshot is due.
Handles == /\ up = "run" /\ fz = "done"
           /\ numLogOps < LogOpsBeforeSync
           /\ ops < MaxOps
           /\ ops' = ops + 1

\* It has changed the server to s and written transactions with these
\* entries, of which n are counted.
Store(s, entries, n) ==
    /\ Handles
    /\ mem' = s
    /\ log' = [log EXCEPT !.entries = @ \o entries]
    /\ numLogOps' = numLogOps + n
    /\ UNCHANGED <<main, dir, procVars, frozen, boots>>

Put(entry) == <<entry>>

\* A write to the log fails, whatever the change is: the process ends and part
\* of the transaction may be in the log.
PutFails(torn) ==
    /\ Handles
    /\ log' = [log EXCEPT !.torn = torn]
    /\ Dies
    /\ UNCHANGED <<main, dir, boots, histVars>>

\* setConfigPassword: the value is set at once and reaches the handler later.
setConfigPassword(v) ==
    /\ up = "run"
    /\ pending = NoCfg /\ mem.cfg # v
    /\ ops < MaxOps
    /\ mem' = [mem EXCEPT !.cfg = v]
    /\ pending' = v
    /\ UNCHANGED <<main, log, dir, procVars, frozen, who, numLogOps, ops, boots, histVars>>

UpdateConfig ==
    /\ pending # NoCfg
    /\ Store(mem, Put([kind |-> "Config", value |-> pending]), 1)
    /\ pending' = NoCfg
    /\ UNCHANGED <<who, histVars>>

\* handleBanListMessage, and handleUserRemoveMessage with a ban.
handleBanList(bans) ==
    /\ bans # mem.bans
    /\ Store([mem EXCEPT !.bans = bans], Put([kind |-> "BanList", bans |-> bans]), 1)
    /\ UNCHANGED <<who, pending, histVars>>

\* RemoveExpiredBans, in an accept loop: the handler may have closed the log, and
\* the write to it then ends the process.
RemoveExpiredBans ==
    /\ up \in {"run", "stop"}
    /\ mem.bans \cap Expirable # {}
    /\ LET left == mem.bans \ Expirable
       IN IF logOpen
          THEN /\ mem' = [mem EXCEPT !.bans = left]
               /\ log' = [log EXCEPT !.entries = Append(@, [kind |-> "BanList", bans |-> left])]
               /\ numLogOps' = numLogOps + 1
               /\ UNCHANGED <<procVars, frozen, who, pending>>
          ELSE Dies /\ UNCHANGED log
    /\ UNCHANGED <<main, dir, ops, boots, histVars>>

-----------------------------------------------------------------------------
\* Registered users: handleUserStateMessage and handleUserList.

UserEntry(u, set) == [kind |-> "User", id |-> u, set |-> set]

\* RegisterClient makes a user of client t.  The user field that is set is that
\* of the sender a, and the entry is written if t has a user after that: only
\* when they are the same.  The name of a client and its certificate are t.
handleRegister(a, t) ==
    LET u == mem.nextUser
        user == [NewUser(t) EXCEPT !.cert = t]
    IN /\ u <= MaxUser
       /\ who[t] = NoUid
       /\ Store([mem EXCEPT !.users = With(@, u, user), !.nextUser = @ + 1],
                IF a = t THEN Put(UserEntry(u, user)) ELSE <<>>, IF a = t THEN 1 ELSE 0)
       /\ who' = [who EXCEPT ![a] = u]
       /\ unlogged' = IF a = t THEN unlogged ELSE unlogged \cup {<<"user", u>>}
       /\ UNCHANGED <<pending, temps>>

\* A new texture or comment of a registered client, whose user may have been
\* removed meanwhile.
handleBlob(c, b) ==
    /\ who[c] # NoUid
    /\ who[c] \in DOMAIN mem.users => mem.users[who[c]].blob # b
    /\ Store(IF who[c] \in DOMAIN mem.users THEN [mem EXCEPT !.users[who[c]].blob = b] ELSE mem,
             Put(UserEntry(who[c], [blob |-> b])), 1)
    /\ UNCHANGED <<who, pending, histVars>>

\* A client enters channel ch (userEnterChannel): the last channel is written to
\* the log and not kept in memory.  A UserState message writes it twice.
handleEnter(c, ch) ==
    /\ who[c] # NoUid
    /\ LET tx == Put(UserEntry(who[c], [last |-> ch])) IN Store(mem, tx \o tx, 2)
    /\ UNCHANGED <<who, pending, histVars>>

\* RemoveRegistration takes a user out of the ACLs and groups of all channels.
ForgetUsers(t, us) ==
    [c \in DOMAIN t |-> [t[c] EXCEPT
        !.acls = SelectSeq(@, LAMBDA e : e.uid \notin us),
        !.groups = [g \in DOMAIN @ |-> @[g] \ us]]]

\* The users of a message, as the message lists them.
UsersInOrder(us) == CHOOSE f \in [1..Cardinality(us) -> us] : IsInjective(f)

\* A user list message: one transaction, which numLogOps does not count.  It
\* renames the users of a set, or removes them.
handleUserList(us, name) ==
    LET removes == name = ""
        users == IF removes THEN Restrict(mem.users, DOMAIN mem.users \ us)
                 ELSE [u \in DOMAIN mem.users |-> IF u \in us THEN [mem.users[u] EXCEPT !.name = name]
                                                  ELSE mem.users[u]]
        entry(u) == IF removes THEN [kind |-> "UserRemove", id |-> u]
                    ELSE UserEntry(u, [name |-> name])
    IN /\ us \subseteq DOMAIN mem.users
       /\ Store([mem EXCEPT !.users = users,
                            !.tree = IF removes THEN ForgetUsers(@, us) ELSE @],
                [i \in 1..Cardinality(us) |-> entry(UsersInOrder(us)[i])], 0)
       /\ UNCHANGED <<who, pending, histVars>>

-----------------------------------------------------------------------------
\* Channels: handleChannelStateMessage, handleChannelRemoveMessage and
\* handleAclMessage, of clients that have the permissions.

ChannelEntry(c, set) == [kind |-> "Channel", id |-> c, set |-> set]

\* The entry that gives the creator of a channel write permission: the user id
\* of an unregistered client's entry is left at 0.
CreatorACL(a) == IF who[a] # NoUid THEN [uid |-> who[a], group |-> ""]
                 ELSE [uid |-> 0, group |-> "$hash"]

\* Faulty: a channel may be created in a temporary one.
handleChannelCreateAnywhere(a, p, name, temp) ==
    LET c == mem.nextChan
        ch == [NewChannel(name) EXCEPT !.temporary = temp, !.acls = <<CreatorACL(a)>>,
                   !.groups = IF who[a] # NoUid THEN [g \in {"admin"} |-> {who[a]}] ELSE <<>>]
        tx == IF ~temp THEN Put(ChannelEntry(c, [name |-> name, parent |-> p]))
              ELSE IF who[a] # NoUid THEN Put(UserEntry(who[a], [last |-> c])) ELSE <<>>
    IN /\ c <= MaxChan
       /\ p \in DOMAIN mem.tree
       /\ Store([mem EXCEPT !.tree = AddChild(AddChannel(@, c, ch), p, c), !.nextChan = @ + 1],
                tx, Len(tx))
       /\ temps' = IF temp THEN temps \cup {c} ELSE temps
       /\ UNCHANGED <<who, pending, unlogged>>

\* A registered creator is in the channel's admin group.  The entry has no ACLs
\* and groups.  A temporary channel has none, but its creator enters it.
handleChannelCreate(a, p, name, temp) ==
    LET c == mem.nextChan
        ch == [NewChannel(name) EXCEPT !.temporary = temp, !.acls = <<CreatorACL(a)>>,
                   !.groups = IF who[a] # NoUid THEN [g \in {"admin"} |-> {who[a]}] ELSE <<>>]
        tx == IF ~temp THEN Put(ChannelEntry(c, [name |-> name, parent |-> p]))
              ELSE IF who[a] # NoUid THEN Put(UserEntry(who[a], [last |-> c])) ELSE <<>>
    IN /\ c <= MaxChan
       /\ p \in DOMAIN mem.tree /\ ~mem.tree[p].temporary
       /\ Store([mem EXCEPT !.tree = AddChild(AddChannel(@, c, ch), p, c), !.nextChan = @ + 1],
                tx, Len(tx))
       /\ temps' = IF temp THEN temps \cup {c} ELSE temps
       /\ UNCHANGED <<who, pending, unlogged>>

\* The links are stored as a whole, when there are any.
UpdateFrozenChannel(t, c, e) ==
    LET linked == DOMAIN e \cap {"add", "remove"} # {} /\ t[c].links # Absent.links
    IN ChannelEntry(c, [x \in (DOMAIN e \cap {"name", "parent"}) \cup (IF linked THEN {"links"} ELSE {}) |->
                           IF x = "links" THEN t[c].links ELSE e[x]])

handleChannelEdit(c, e) ==
    LET t == Edited(mem.tree, c, e)
        tx == IF t[c].temporary THEN <<>> ELSE Put(UpdateFrozenChannel(t, c, e))
    IN /\ c \in DOMAIN mem.tree
       /\ Range(Restrict(e, DOMAIN e \ {"name"})) \subseteq DOMAIN mem.tree
       /\ EditAllowed(mem.tree, c, e)
       /\ Store([mem EXCEPT !.tree = t], tx, Len(tx))
       /\ unlogged' = unlogged \cup (IF "parent" \in DOMAIN e THEN {<<"moved", c>>} ELSE {})
                               \cup (IF "remove" \in DOMAIN e THEN {<<"unlinked", {c, e.remove}>>} ELSE {})
       /\ UNCHANGED <<who, pending, temps>>

\* The root is written as removed and kept.  For a temporary channel this is
\* also what the handler does when it is empty.
handleChannelRemove(c) ==
    LET tx == IF mem.tree[c].temporary THEN <<>> ELSE Put([kind |-> "ChannelRemove", id |-> c])
    IN /\ c \in DOMAIN mem.tree
       /\ Store([mem EXCEPT !.tree = IF c = Root THEN @ ELSE RemoveChannel(@, c)], tx, Len(tx))
       /\ unlogged' = IF tx = <<>> THEN unlogged ELSE unlogged \cup {<<"removed", c>>}
       /\ UNCHANGED <<who, pending, temps>>

\* The sender, who has a certificate, is given write permission by a last entry.
handleAcl(a, c, acls, groups) ==
    LET ch == [mem.tree[c] EXCEPT !.inherit = TRUE, !.groups = groups,
                                  !.acls = Append(acls, CreatorACL(a))]
    IN /\ c \in DOMAIN mem.tree
       /\ Store([mem EXCEPT !.tree[c] = ch], Put(ChannelEntry(c, FreezeACLs(ch))), 1)
       /\ UNCHANGED <<who, pending, histVars>>

-----------------------------------------------------------------------------
Chans == 0..MaxChan

Edits == [name : ChannelNames] \cup [parent : Chans] \cup [add : Chans] \cup [remove : Chans]

\* Group entries come with the user id 0 (handleAclMessage).
ACLLists == {<<[uid |-> 0, group |-> "all"]>>}
GroupSets == [{"g"} -> {{}, {1}}]

FreezeStep == freezeClose \/ freezeWrite \/ freezeRename \/ openRemove \/ openCreate

ProcessStep == Boot \/ startListens \/ startFails \/ stopFreezes \/ stopExits \/ Crash

HandlerStep ==
    \/ \E torn \in {"no", "size", "body"} : PutFails(torn)
    \/ UpdateConfig
    \/ \E bans \in SUBSET Bans : handleBanList(bans)
    \/ \E a, t \in Clients : handleRegister(a, t)
    \/ \E c \in Clients, b \in Blobs : handleBlob(c, b)
    \/ \E c \in Clients, ch \in DOMAIN mem.tree : handleEnter(c, ch)
    \/ \E us \in SUBSET DOMAIN mem.users, name \in UserNames \cup {""} : handleUserList(us, name)
    \/ \E a \in Clients, p \in Chans, name \in ChannelNames, temp \in BOOLEAN :
           handleChannelCreate(a, p, name, temp)
    \/ \E c \in Chans, e \in Edits : handleChannelEdit(c, e)
    \/ \E c \in Chans : handleChannelRemove(c)
    \/ \E a \in Clients, c \in Chans, acls \in ACLLists, groups \in GroupSets :
           handleAcl(a, c, acls, groups)

Next == \/ FreezeStep
        \/ ProcessStep
        \/ HandlerStep
        \/ RemoveExpiredBans
        \/ \E v \in Passwords : setConfigPassword(v)

Spec == Init /\ [][Next]_vars

-----------------------------------------------------------------------------
\* Types of the files, the process and the server in memory (Server in
\* server.go, freezer/types.pb.go).
TypeOK ==
    /\ dir \in BOOLEAN /\ logOpen \in BOOLEAN
    /\ up \in {"off", "boot", "run", "stop", "idle"}
    /\ fz \in {"done", "close", "write", "rename", "start", "remove", "create"}
    /\ log # NoFile => log.torn \in {"no", "size", "body"}
    /\ logOpen => log # NoFile /\ log.torn = "no"
    /\ mem.bans \subseteq Bans /\ mem.cfg \in Passwords \cup {NoCfg}
    /\ DOMAIN mem.users \subseteq 1..mem.nextUser - 1
    /\ DOMAIN mem.tree \subseteq 0..mem.nextChan - 1
    /\ who \in [Clients -> {NoUid} \cup 1..MaxUser]
    /\ numLogOps \in 0..MaxOps * 2 + MaxBoots

\* A channel removal is in the log, or a group with members is in a file: the
\* two kinds of change that NewServerFromFrozen cannot load.
RemovalLogged == \E u \in unlogged : u[1] = "removed"
MembersStored == LoadLog.panic /\ ~RemovalLogged

\* Whenever the handler is between two messages the files can be loaded, so that
\* a server that is killed starts again; apart from the two kinds of change
\* above.  It depends on the order of rename, removal and creation in
\* FreezeToFile and openFreezeLog, and on every parent being on disk before its
\* children.
RunningLoads ==
    (logOpen /\ ~RemovalLogged /\ ~MembersStored) => Loads

Permanent == {c \in DOMAIN mem.tree : ~mem.tree[c].temporary}

\* What NewServerFromFrozen makes of the files at any moment, between the steps
\* of a snapshot too, is the server in memory: its bans and users, its password
\* once the handler has it, and the names, parents and links of its permanent
\* channels.  The exceptions are users registered by another user, the parent
\* of a channel moved and links removed since the log was begun, and channels
\* that were temporary, which may come back.
RecoveryExact ==
    (up \in {"run", "stop"} /\ Loads) =>
        LET l == Loaded
            known(users) == [u \in {v \in DOMAIN users : <<"user", v>> \notin unlogged} |->
                                [f \in {"name", "cert", "blob"} |-> users[u][f]]]
        IN /\ l.bans = mem.bans
           /\ pending = NoCfg => l.cfg = mem.cfg
           /\ known(l.users) = known(mem.users)
           /\ Permanent \subseteq DOMAIN l.tree /\ DOMAIN l.tree \subseteq DOMAIN mem.tree \cup temps
           /\ \A c \in Permanent :
                 /\ l.tree[c].name = mem.tree[c].name
                 /\ <<"moved", c>> \notin unlogged => l.tree[c].parent = mem.tree[c].parent
                 /\ \A d \in Permanent :
                       /\ d \in mem.tree[c].links => d \in l.tree[c].links
                       /\ <<"unlinked", {c, d}>> \notin unlogged =>
                             (d \in l.tree[c].links => d \in mem.tree[c].links)

\* The bans as a store that only the running server changes: a crash at any
\* point, a start and a snapshot keep them (DurableStore).
BanStore == INSTANCE DurableStore
            WITH value <- IF up = "off" THEN (IF main = NoFile THEN {} ELSE LoadLog.bans) ELSE mem.bans,
                 running <- up \in {"run", "stop"}

BansAreDurable == BanStore!Spec
=============================================================================
