--------------------------------- MODULE Acl ---------------------------------
(* Permissions (pkg/acl): who is in a group and who has a permission in a      *)
(* channel, as functions of the channel tree.  A context is a channel; its     *)
(* ACL entries, groups and InheritACL flag are fields of the channel.          *)
(* A permission set is a set of names for the bits of the code.  The group of  *)
(* an entry is a record: its kind ("name", "hash" or "token" for # and $), the *)
(* name, and the flags ! and ~.  The group "sub" is left out: its branch       *)
(* slices past the end of the name.                                            *)
EXTENDS Channels, Sequences, SequencesExt

Permissions == {"write", "traverse", "enter", "speak", "whisper", "text", "mute", "move", "make", "temp", "link"}

Defaults == {"traverse", "enter", "speak", "whisper", "text"}

-----------------------------------------------------------------------------
\* The definitions of a group along a chain of channels: a sequence of one group or
\* none for each channel.
Definitions(t, chain, name) ==
    [i \in DOMAIN chain |-> IF name \in DOMAIN t[chain[i]].groups THEN <<t[chain[i]].groups[name]>> ELSE <<>>]

\* Those that count at the end of the chain: from the last one that does not
\* inherit, or after the last one further up that is not inheritable.
FirstInForce(defs, last) ==
    IF last \in 1..Len(defs) - 1 /\ ~defs[last][1].inheritable THEN last + 1 ELSE Max({1, last})

InForce(defs) ==
    LET cuts(i) == defs[i] # <<>> /\ (~defs[i][1].inherit \/ (i < Len(defs) /\ ~defs[i][1].inheritable))
    IN SubSeq(defs, FirstInForce(defs, Max({0} \cup {i \in DOMAIN defs : cuts(i)})), Len(defs))

\* MembersInContext: those added and not removed further down.
MembersInContext(t, c, name) ==
    FoldLeft(LAMBDA m, d : IF d = <<>> THEN m ELSE (m \cup d[1].add) \ d[1].remove, {},
             InForce(Definitions(t, buildChain(t, c), name)))

\* Membership in a group with a special name, or in one that channels define.
IsMember(t, channel, g, u) ==
    CASE g.kind = "hash" -> g.name = u.hash
      [] g.kind = "token" -> g.name \in u.tokens
      [] g.name \in {"none", "strong"} -> FALSE
      [] g.name = "all" -> TRUE
      [] g.name = "auth" -> u.uid >= 0
      [] g.name = "in" -> u.chan = channel
      [] g.name = "out" -> u.chan # channel
      [] OTHER -> u.uid \in MembersInContext(t, channel, g.name)

\* GroupMemberCheck: ~ evaluates in the channel of the entry, ! inverts; an empty
\* name has no members.
GroupMemberCheck(t, current, entryChannel, g, u) ==
    /\ g.name # ""
    /\ IsMember(t, IF g.here THEN entryChannel ELSE current, g, u) # g.invert

-----------------------------------------------------------------------------
\* Entries match a user by id or by group; entries of a group have the user id 0.
Matches(t, c, at, e, u) == \/ e.uid # -1 /\ e.uid = u.uid
                           \/ GroupMemberCheck(t, c, at, e.group, u)

Applies(c, at, e) == IF c = at THEN e.applyHere ELSE e.applySubs

\* One entry at channel "at" of the chain of c.
ApplyEntry(t, c, at, u, s, e) ==
    LET flag(p, old) == IF p \in e.deny THEN FALSE ELSE old \/ p \in e.allow
    IN IF ~Matches(t, c, at, e, u) THEN s
       ELSE [s EXCEPT !.traverse = flag("traverse", @), !.write = flag("write", @),
                      !.granted = IF Applies(c, at, e) THEN (@ \cup e.allow) \ e.deny ELSE @]

\* The entries of channel "at", one after the other.
ApplyEntries(t, c, at, u, s) ==
    LET After[i \in 0..Len(t[at].acls)] ==
            IF i = 0 THEN (IF t[at].inherit THEN s ELSE [s EXCEPT !.granted = Defaults])
            ELSE ApplyEntry(t, c, at, u, After[i - 1], t[at].acls[i])
    IN After[Len(t[at].acls)]

\* Faulty: the walk goes on below a channel that cannot be traversed.
ApplyContextGoesOn(t, c, u, s, at) == ApplyEntries(t, c, at, u, s)

\* The walk ends where neither traverse nor write is left.
StopOrGoOn(s) == IF s.traverse \/ s.write THEN s ELSE [s EXCEPT !.granted = {}, !.stop = TRUE]

\* One channel of the chain.
ApplyContext(t, c, u, s, at) == IF s.stop THEN s ELSE StopOrGoOn(ApplyEntries(t, c, at, u, s))

Granted(t, c, u) ==
    LET chain == buildChain(t, c)
        After[i \in 0..Len(chain)] ==
            IF i = 0 THEN [granted |-> Defaults, traverse |-> TRUE, write |-> FALSE, stop |-> FALSE]
            ELSE ApplyContext(t, c, u, After[i - 1], chain[i])
    IN After[Len(chain)].granted

\* The super user may do all but speak and whisper, as may those with "write".
HasPermission(t, c, u, p) ==
    IF u.uid = 0 THEN p \notin {"speak", "whisper"}
    ELSE Granted(t, c, u) \cap (IF p \in {"speak", "whisper"} THEN {p} ELSE {p, "write"}) # {}

-----------------------------------------------------------------------------
\* What the walk means, for one permission: the last thing said about it on the
\* way down to the channel decides, where a channel that does not inherit says the
\* default; and everything is refused if on the way there is a channel at which
\* what was said last about both traverse and write is a refusal.
SaidAt(t, c, at, u, p, always) ==
    LET entry(e) == IF ~Matches(t, c, at, e, u) \/ ~(always \/ Applies(c, at, e)) THEN "nothing"
                    ELSE IF p \in e.deny THEN "no" ELSE IF p \in e.allow THEN "yes" ELSE "nothing"
    IN (IF always \/ t[at].inherit THEN <<>> ELSE <<IF p \in Defaults THEN "yes" ELSE "no">>)
       \o SelectSeq([i \in DOMAIN t[at].acls |-> entry(t[at].acls[i])], LAMBDA s : s # "nothing")

SaidLast(t, c, upTo, u, p, always, initially) ==
    LET chain == buildChain(t, upTo)
        said == FlattenSeq([i \in DOMAIN chain |-> SaidAt(t, c, chain[i], u, p, always)])
    IN IF said = <<>> THEN initially ELSE Last(said) = "yes"

MeansPermission(t, c, u, p) ==
    LET open == \A at \in Ancestors(t, c) : \/ SaidLast(t, c, at, u, "traverse", TRUE, TRUE)
                                             \/ SaidLast(t, c, at, u, "write", TRUE, FALSE)
        says(q) == open /\ SaidLast(t, c, c, u, q, FALSE, q \in Defaults)
    IN IF u.uid = 0 THEN p \notin {"speak", "whisper"}
       ELSE says(p) \/ (p \notin {"speak", "whisper"} /\ says("write"))
=============================================================================
