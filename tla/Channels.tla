------------------------------ MODULE Channels ------------------------------
(* The channel tree of one virtual server and the operations on it (channel.go *)
(* and server.go), as functions of a tree: a function from the ids in          *)
(* server.Channels to channels.  A channel knows its parent, its children and  *)
(* the channels it is linked to, as the Go structure does; that these agree is *)
(* a property of the modules that change the tree.                             *)
EXTENDS Integers, FiniteSets, Sequences, Functions, TLC

Root == 0
NoChannel == -1

NewChannel(name) ==
    [name |-> name, parent |-> NoChannel, children |-> {}, links |-> {}, temporary |-> FALSE,
     inherit |-> FALSE, acls |-> <<>>, groups |-> <<>>]

\* f with the value v at x.
With(f, x, v) == [y \in DOMAIN f \cup {x} |-> IF y = x THEN v ELSE f[y]]

AddChannel(t, id, ch) == With(t, id, ch)

AddChild(t, p, c) == [t EXCEPT ![c].parent = p, ![p].children = @ \cup {c}]

RemoveChild(t, p, c) == [t EXCEPT ![c].parent = NoChannel, ![p].children = @ \ {c}]

LinkChannels(t, a, b) == [t EXCEPT ![a].links = @ \cup {b}, ![b].links = @ \cup {a}]

UnlinkChannels(t, a, b) == [t EXCEPT ![a].links = @ \ {b}, ![b].links = @ \ {a}]

\* What a walk along step reaches from the channels of S, S included.
Walk(step, S) ==
    LET N == Cardinality(DOMAIN step)
        Seen[n \in 0..N] == IF n = 0 THEN S
                            ELSE LET seen == Seen[n - 1] IN seen \cup UNION {step[c] : c \in seen}
    IN Seen[N]

Children(t) == [c \in DOMAIN t |-> t[c].children]
Links(t) == [c \in DOMAIN t |-> t[c].links]

\* The way from the root down to c.
buildChain(t, c) ==
    LET Up[n \in Nat] == IF n = 0 THEN <<c>>
                         ELSE LET chain == Up[n - 1] IN
                              IF t[Head(chain)].parent = NoChannel THEN chain
                              ELSE <<t[Head(chain)].parent>> \o chain
    IN Up[Cardinality(DOMAIN t)]

\* The channel and everything above it.
Ancestors(t, c) == Range(buildChain(t, c))

\* AllSubChannels walks down from c, AllLinks along the links; both start with
\* what the channel itself leads to, so that c is in AllLinks only by a link.
AllSubChannels(t, c) == Walk(Children(t), t[c].children)
AllLinks(t, c) == Walk(Links(t), t[c].links)

\* RemoveChannel's first loop: the other ends of the links forget c.
UnlinkOthers(t, c) ==
    [d \in DOMAIN t |-> IF d \in t[c].links THEN [t[d] EXCEPT !.links = @ \ {c}] ELSE t[d]]

\* Its end: c leaves its parent and the map.
DropChannel(t, c) ==
    Restrict([t EXCEPT ![t[c].parent].children = @ \ {c}], DOMAIN t \ {c})

\* RemoveChannel for a channel whose tree is empty of clients: c, all below it.
RemoveChannel(t, c) ==
    LET gone == {c} \cup AllSubChannels(t, c)
        rest == [d \in DOMAIN t \ gone |-> [t[d] EXCEPT !.links = @ \ gone]]
    IN [rest EXCEPT ![t[c].parent].children = @ \ {c}]
-----------------------------------------------------------------------------
\* An edit of a channel, of which some of the fields name, parent, add (a link)
\* and remove are present.

\* Faulty: the channels between the root and the new parent are not looked at.
MoveAllowedUnchecked(t, c, p) ==
    /\ p # t[c].parent /\ c \notin {p, Root}
    /\ ~t[p].temporary
    /\ \A d \in t[p].children : t[d].name # t[c].name

\* A new parent is not the old one, not below the channel and not temporary.
MoveAllowed(t, c, p) ==
    /\ p # t[c].parent
    /\ c \notin Ancestors(t, p)
    /\ ~t[p].temporary
    /\ \A d \in t[p].children : t[d].name # t[c].name

\* The root is not renamed, and siblings have different names.
RenameAllowed(t, c, p, name) ==
    /\ c # Root
    /\ \A d \in t[p].children : t[d].name # name

EditAllowed(t, c, e) ==
    /\ "name" \in DOMAIN e =>
           RenameAllowed(t, c, IF "parent" \in DOMAIN e THEN e.parent ELSE t[c].parent, e.name)
    /\ "parent" \in DOMAIN e => MoveAllowed(t, c, e.parent)

Edited(t, c, e) ==
    LET moved == IF "parent" \in DOMAIN e THEN AddChild(RemoveChild(t, t[c].parent, c), e.parent, c) ELSE t
        named == IF "name" \in DOMAIN e THEN [moved EXCEPT ![c].name = e.name] ELSE moved
        added == IF "add" \in DOMAIN e THEN LinkChannels(named, c, e.add) ELSE named
    IN IF "remove" \in DOMAIN e THEN UnlinkChannels(added, c, e.remove) ELSE added
=============================================================================
