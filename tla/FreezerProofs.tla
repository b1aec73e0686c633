---------------------------- MODULE FreezerProofs ----------------------------
(* Proofs about Freezer, for any users, names, bans and bounds.  First part:   *)
(* the files and the bans, the users and the password, and what the handlers   *)
(* do to the channel tree.  What a log does is stated as a function of the     *)
(* load it starts from, for every load: after the rename of FreezeToFile the   *)
(* old log lies beside the new snapshot until it is removed, and a process     *)
(* that ends there is started from both.                                       *)
EXTENDS Freezer, FiniteSetTheorems, WellFoundedInduction, TLAPS

USE ZenonT(40)

-----------------------------------------------------------------------------
\* Induction over the naturals, from the library's theorem that they are
\* well-founded, for the positions in a log.

\* A nonempty set of naturals has a least element.
LEMMA LeastPosition ==
    ASSUME NEW T \in SUBSET Nat, T # {}
    PROVE  \E x \in T : \A y \in T : x <= y
<1>1. PICK x \in T : \A y \in T : <<y, x>> \notin OpToRel(<, Nat)
  BY NatLessThanWellFounded, WFMin
<1>2. \A y \in T : <<y, x>> \in Nat \X Nat
  OBVIOUS
<1>3. \A y \in T : ~(y < x)
  BY <1>1, <1>2 DEF OpToRel
<1>. QED BY <1>3, SMTT(30)

\* A set that has 0 and, up to n, the successors of its elements, has 0..n.
LEMMA Positions ==
    ASSUME NEW n \in Nat, NEW S, 0 \in S, \A i \in 0..n - 1 : i \in S => i + 1 \in S
    PROVE  \A i \in 0..n : i \in S
<1> DEFINE T == {i \in 0..n : i \notin S}
<1>1. SUFFICES ASSUME T # {} PROVE FALSE
  OBVIOUS
<1>2. T \in SUBSET Nat
  BY SMTT(30)
<1>3. PICK x \in T : \A y \in T : x <= y
  BY <1>1, <1>2, LeastPosition
<1>4. x - 1 \in 0..n - 1 /\ x - 1 \notin T /\ (x - 1) + 1 = x
  BY <1>3, SMTT(30)
<1>. QED BY <1>3, <1>4, SMTT(30)

-----------------------------------------------------------------------------
\* The load, entry by entry: its states f[i].
Chain(ls, es, f) ==
    f = [i \in 0..Len(es) |-> IF i = 0 THEN ls ELSE Replay(f[i - 1], es[i])]

\* ReplayAll is the end of such a chain.
LEMMA ReplayChain ==
    ASSUME NEW S, NEW es \in Seq(S), NEW ls
    PROVE  \E f : Chain(ls, es, f) /\ ReplayAll(ls, es) = f[Len(es)]
<1> DEFINE n == Len(es)
           C(m, f) == f = [i \in 0..m |-> IF i = 0 THEN ls ELSE Replay(f[i - 1], es[i])]
           T == {m \in 0..n : \E f : C(m, f)}
<1>0. n \in Nat
  BY SMTT(30)
<1>1. 0 \in T
  <2>1. C(0, [i \in 0..0 |-> ls])
    BY SMTT(30)
  <2>2. 0 \in 0..n
    BY <1>0, SMTT(30)
  <2>. HIDE DEF C
  <2>. QED BY <2>1, <2>2
<1>2. ASSUME NEW m \in 0..n - 1, m \in T PROVE m + 1 \in T
  <2>1. PICK f : C(m, f)
    BY <1>2
  <2> DEFINE g == [i \in 0..m + 1 |-> IF i = m + 1 THEN Replay(f[m], es[m + 1]) ELSE f[i]]
  <2>2. ASSUME NEW i \in 0..m + 1
        PROVE  g[i] = IF i = 0 THEN ls ELSE Replay(g[i - 1], es[i])
    <3>1. CASE i = 0
      BY <2>1, <3>1, SMTT(30)
    <3>2. CASE i # 0
      <4>1. i - 1 \in 0..m /\ i - 1 \in 0..m + 1 /\ i - 1 # m + 1
        BY <3>2, SMTT(30)
      <4>2. g[i - 1] = f[i - 1]
        BY <4>1
      <4>3. CASE i = m + 1
        <5>1. i - 1 = m /\ g[i] = Replay(f[m], es[m + 1])
          BY <4>3, SMTT(30)
        <5>. QED BY <3>2, <4>2, <4>3, <5>1
      <4>4. CASE i # m + 1
        <5>1. i \in 0..m
          BY <4>4, SMTT(30)
        <5>2. g[i] = f[i]
          BY <4>4
        <5>3. f[i] = Replay(f[i - 1], es[i])
          BY <2>1, <3>2, <5>1
        <5>. QED BY <3>2, <4>2, <5>2, <5>3
      <4>. QED BY <4>3, <4>4
    <3>. QED BY <3>1, <3>2
  <2>3. g = [i \in 0..m + 1 |-> g[i]]
    OBVIOUS
  <2>4. C(m + 1, g)
    <3>. HIDE DEF g
    <3>. QED BY <2>2, <2>3
  <2>5. m + 1 \in 0..n
    BY <1>0, SMTT(30)
  <2>. QED BY <2>4, <2>5
<1>3. n \in T
  <2>. HIDE DEF T, n
  <2>1. \A i \in 0..n : i \in T
    BY <1>0, <1>1, <1>2, Positions
  <2>. QED BY <1>0, <2>1, SMTT(30)
<1>4. \E f : C(n, f)
  BY <1>3
<1> DEFINE F == CHOOSE f : f = [i \in 0..Len(es) |-> IF i = 0 THEN ls ELSE Replay(f[i - 1], es[i])]
<1>5. C(n, F)
  BY <1>4
<1>6. ReplayAll(ls, es) = F[Len(es)]
  BY DEF ReplayAll
<1>. HIDE DEF F
<1>. QED BY <1>5, <1>6 DEF Chain

\* The states of a load.
LEMMA ChainSteps ==
    ASSUME NEW S, NEW es \in Seq(S), NEW ls, NEW f, Chain(ls, es, f)
    PROVE  /\ Len(es) \in Nat
           /\ f[0] = ls
           /\ \A i \in 0..Len(es) - 1 : i + 1 \in 1..Len(es) /\ f[i + 1] = Replay(f[i], es[i + 1])
<1>1. Len(es) \in Nat
  BY SMTT(30)
<1>2. f[0] = ls
  BY <1>1, SMTT(30) DEF Chain
<1>3. ASSUME NEW i \in 0..Len(es) - 1 PROVE i + 1 \in 1..Len(es) /\ f[i + 1] = Replay(f[i], es[i + 1])
  <2>1. i + 1 \in 0..Len(es) /\ i + 1 # 0 /\ (i + 1) - 1 = i /\ i + 1 \in 1..Len(es)
    BY <1>1, SMTT(30)
  <2>2. f[i + 1] = Replay(f[(i + 1) - 1], es[i + 1])
    BY <2>1 DEF Chain
  <2>. QED BY <2>1, <2>2
<1>. QED BY <1>1, <1>2, <1>3

\* An empty log is no change (NewServerFromFrozen's walk ends at once).
LEMMA ReplayNothing ==
    ASSUME NEW ls
    PROVE  ReplayAll(ls, <<>>) = ls
<1> DEFINE es == <<>>
<1>1. es \in Seq({ls}) /\ Len(es) = 0
  BY SMTT(30)
<1>. HIDE DEF es
<1>2. PICK f : Chain(ls, es, f) /\ ReplayAll(ls, es) = f[Len(es)]
  BY <1>1, ReplayChain
<1>3. 0 \in 0..Len(es)
  BY <1>1, SMTT(30)
<1>4. f[0] = ls
  BY <1>2, <1>3 DEF Chain
<1>. QED BY <1>1, <1>2, <1>4 DEF es

\* What is appended to a log is replayed at the end.
LEMMA ReplayConcat ==
    ASSUME NEW S, NEW es \in Seq(S), NEW fs \in Seq(S), NEW ls
    PROVE  ReplayAll(ls, es \o fs) = ReplayAll(ReplayAll(ls, es), fs)
<1> DEFINE m == Len(es)  n == Len(fs)  hs == es \o fs
<1>1. /\ m \in Nat /\ n \in Nat /\ hs \in Seq(S) /\ Len(hs) = m + n
      /\ \A i \in 1..m : hs[i] = es[i]
      /\ \A i \in 1..n : hs[m + i] = fs[i]
  BY SMTT(30)
<1>2. PICK f : Chain(ls, es, f) /\ ReplayAll(ls, es) = f[m]
  BY ReplayChain
<1>3. PICK g : Chain(f[m], fs, g) /\ ReplayAll(f[m], fs) = g[n]
  BY ReplayChain
<1>4. PICK h : Chain(ls, hs, h) /\ ReplayAll(ls, hs) = h[m + n]
  BY <1>1, ReplayChain
<1>5. f[0] = ls /\ \A i \in 0..m - 1 : i + 1 \in 1..m /\ f[i + 1] = Replay(f[i], es[i + 1])
  BY <1>2, ChainSteps, SMTT(30)
<1>6. g[0] = f[m] /\ \A i \in 0..n - 1 : i + 1 \in 1..n /\ g[i + 1] = Replay(g[i], fs[i + 1])
  BY <1>3, ChainSteps, SMTT(30)
<1>7. h[0] = ls /\ \A i \in 0..(m + n) - 1 : h[i + 1] = Replay(h[i], hs[i + 1])
  <2>1. h[0] = ls /\ \A i \in 0..Len(hs) - 1 : h[i + 1] = Replay(h[i], hs[i + 1])
    <3>1. hs \in Seq(S) /\ Chain(ls, hs, h)
      BY <1>1, <1>4
    <3>. HIDE DEF hs
    <3>. QED BY <3>1, ChainSteps, SMTT(30)
  <2>. QED BY <1>1, <2>1
<1>. HIDE DEF m, n, hs
<1>8. h[m] = f[m]
  <2> DEFINE T == {i \in 0..m : h[i] = f[i]}
  <2>1. 0 \in T
    BY <1>1, <1>5, <1>7, SMTT(30)
  <2>2. ASSUME NEW i \in 0..m - 1, i \in T PROVE i + 1 \in T
    <3>1. i \in 0..(m + n) - 1 /\ i + 1 \in 1..m /\ i + 1 \in 0..m
      BY <1>1, SMTT(30)
    <3>2. h[i + 1] = Replay(h[i], es[i + 1]) /\ f[i + 1] = Replay(f[i], es[i + 1])
      BY <1>1, <1>5, <1>7, <3>1
    <3>. QED BY <2>2, <3>1, <3>2
  <2>3. \A i \in 0..m : i \in T
    <3>. HIDE DEF T
    <3>. QED BY <1>1, <2>1, <2>2, Positions
  <2>. QED BY <1>1, <2>3, SMTT(30)
<1>9. h[m + n] = g[n]
  <2> DEFINE T == {i \in 0..n : h[m + i] = g[i]}
  <2>1. 0 \in T
    BY <1>1, <1>6, <1>8, SMTT(30)
  <2>2. ASSUME NEW i \in 0..n - 1, i \in T PROVE i + 1 \in T
    <3>1. m + i \in 0..(m + n) - 1 /\ i + 1 \in 1..n /\ i + 1 \in 0..n /\ (m + i) + 1 = m + (i + 1)
      BY <1>1, SMTT(30)
    <3>2. h[m + (i + 1)] = Replay(h[m + i], fs[i + 1]) /\ g[i + 1] = Replay(g[i], fs[i + 1])
      BY <1>1, <1>6, <1>7, <3>1, SMTT(30)
    <3>. QED BY <2>2, <3>1, <3>2
  <2>3. \A i \in 0..n : i \in T
    <3>. HIDE DEF T
    <3>. QED BY <1>1, <2>1, <2>2, Positions
  <2>. QED BY <1>1, <2>3, SMTT(30)
<1>. QED BY <1>2, <1>3, <1>4, <1>9 DEF hs

\* One more entry.
LEMMA ReplayOne ==
    ASSUME NEW ls, NEW e
    PROVE  ReplayAll(ls, <<e>>) = Replay(ls, e)
<1> DEFINE es == <<e>>
<1>1. es \in Seq({e}) /\ Len(es) = 1 /\ es[1] = e
  BY SMTT(30)
<1>. HIDE DEF es
<1>2. PICK f : Chain(ls, es, f) /\ ReplayAll(ls, es) = f[Len(es)]
  BY <1>1, ReplayChain
<1>3. f[0] = ls /\ \A i \in 0..Len(es) - 1 : f[i + 1] = Replay(f[i], es[i + 1])
  BY <1>1, <1>2, ChainSteps, SMTT(30)
<1>4. 0 \in 0..Len(es) - 1 /\ 0 + 1 = 1
  BY <1>1, SMTT(30)
<1>5. f[0 + 1] = Replay(f[0], es[0 + 1])
  BY <1>3, <1>4
<1>. QED BY <1>1, <1>2, <1>3, <1>4, <1>5 DEF es

-----------------------------------------------------------------------------
\* Types of what is loaded and stored.
UserFields == {"name", "cert", "last", "blob"}
ChanFields == {"name", "parent", "children", "links", "temporary", "inherit", "acls", "groups"}
FrozenFields == {"name", "parent", "links", "inherit", "acls", "groups"}
LoadFields == {"cfg", "bans", "users", "raw", "parents", "panic", "nextChan", "nextUser"}

UsersOK(us) == IsFiniteSet(DOMAIN us) /\ \A u \in DOMAIN us : DOMAIN us[u] = UserFields

\* A state of the load.
IsLoad(ls) ==
    /\ DOMAIN ls = LoadFields
    /\ UsersOK(ls.users)
    /\ \A c \in DOMAIN ls.raw : DOMAIN ls.raw[c] = ChanFields /\ ls.raw[c].temporary = FALSE
    /\ ls.nextChan \in Nat /\ DOMAIN ls.raw \subseteq 0..ls.nextChan - 1
    /\ DOMAIN ls.parents \subseteq DOMAIN ls.raw

\* An entry of the log.
IsEntry(e) ==
    \/ e.kind = "User" /\ DOMAIN e.set \subseteq UserFields
    \/ e.kind = "Channel" /\ e.id \in Nat /\ DOMAIN e.set \subseteq FrozenFields
    \/ e.kind \in {"UserRemove", "ChannelRemove", "BanList", "Config"}

\* It creates or changes user u, or channel c, of the load.
SetsUser(ls, e, u) == e.kind = "User" /\ e.id = u /\ (u \in DOMAIN ls.users \/ "name" \in DOMAIN e.set)
SetsChan(ls, e, c) == e.kind = "Channel" /\ e.id = c /\ (c \in DOMAIN ls.raw \/ "name" \in DOMAIN e.set)

-----------------------------------------------------------------------------
\* What one entry does to the load, field by field.

\* Replay of an entry changes values of the load's fields, never the fields.
LEMMA ReplayDomain ==
    ASSUME NEW ls, NEW e, IsLoad(ls), IsEntry(e)
    PROVE  DOMAIN Replay(ls, e) = LoadFields
<1>1. DOMAIN ls = LoadFields
  BY DEF IsLoad
<1>2. CASE e.kind = "User"
  BY <1>1, <1>2 DEF Replay, ReplayUser
<1>3. CASE e.kind = "Channel"
  BY <1>1, <1>3 DEF Replay, ReplayChannel
<1>4. CASE e.kind \in {"UserRemove", "ChannelRemove", "BanList", "Config"}
  BY <1>1, <1>4 DEF Replay
<1>. QED BY <1>2, <1>3, <1>4 DEF IsEntry

\* The bans and the password: the last entry that is about them decides.
LEMMA ReplayPlain ==
    ASSUME NEW ls, NEW e, IsLoad(ls), IsEntry(e)
    PROVE  /\ Replay(ls, e).bans = IF e.kind = "BanList" THEN e.bans ELSE ls.bans
           /\ Replay(ls, e).cfg = IF e.kind = "Config" THEN e.value ELSE ls.cfg
<1>1. DOMAIN ls = LoadFields /\ "bans" \in LoadFields /\ "cfg" \in LoadFields
  BY DEF IsLoad, LoadFields
<1>2. CASE e.kind = "User"
  BY <1>1, <1>2 DEF Replay, ReplayUser
<1>3. CASE e.kind = "Channel"
  BY <1>1, <1>3 DEF Replay, ReplayChannel
<1>4. CASE e.kind \in {"UserRemove", "ChannelRemove", "BanList", "Config"}
  BY <1>1, <1>4 DEF Replay
<1>. QED BY <1>2, <1>3, <1>4 DEF IsEntry

\* Its users: k is the load ls after entry e.
UsersEffect(ls, e, k) ==
    /\ UsersOK(k.users)
    /\ \A u : u \in DOMAIN k.users <=> \/ u \in DOMAIN ls.users /\ ~(e.kind = "UserRemove" /\ e.id = u)
                                       \/ SetsUser(ls, e, u)
    /\ \A u \in DOMAIN k.users : \A f \in UserFields :
          k.users[u][f] = IF SetsUser(ls, e, u) /\ f \in DOMAIN e.set THEN e.set[f]
                          ELSE IF u \in DOMAIN ls.users THEN ls.users[u][f] ELSE NewUser("")[f]

\* What unfreezing a user entry, or the removal of a user, does to the users
\* of the load.
LEMMA ReplayUsers ==
    ASSUME NEW ls, NEW e, IsLoad(ls), IsEntry(e)
    PROVE  UsersEffect(ls, e, Replay(ls, e))
<1>1. DOMAIN ls = LoadFields /\ "users" \in LoadFields
  BY DEF IsLoad, LoadFields
<1>2. CASE e.kind = "User"
  <2> DEFINE known == e.id \in DOMAIN ls.users
             old == IF known THEN ls.users[e.id] ELSE NewUser("")
  <2>0. DOMAIN old = UserFields /\ DOMAIN e.set \subseteq UserFields
    BY <1>2 DEF IsLoad, UsersOK, IsEntry, NewUser, UserFields
  <2>1. CASE ~known /\ "name" \notin DOMAIN e.set
    BY <1>2, <2>1 DEF Replay, ReplayUser, SetsUser, IsLoad, UsersEffect
  <2>2. CASE ~(~known /\ "name" \notin DOMAIN e.set)
    <3>1. Replay(ls, e).users = With(ls.users, e.id, Overlay(old, e.set))
      BY <1>1, <1>2, <2>2 DEF Replay, ReplayUser
    <3>2. DOMAIN Replay(ls, e).users = {e.id} \cup DOMAIN ls.users
      BY <3>1 DEF With
    <3>3. \A u \in DOMAIN Replay(ls, e).users :
             Replay(ls, e).users[u] = IF u = e.id THEN Overlay(old, e.set) ELSE ls.users[u]
      BY <3>1, <3>2 DEF With
    <3>4. /\ DOMAIN (Overlay(old, e.set)) = UserFields
          /\ \A f \in UserFields : (Overlay(old, e.set))[f] = IF f \in DOMAIN e.set THEN e.set[f] ELSE old[f]
      BY <2>0 DEF Overlay
    <3>5. UsersOK(Replay(ls, e).users)
      <4>1. IsFiniteSet({e.id} \cup DOMAIN ls.users)
        BY FS_AddElement, SMTT(30) DEF IsLoad, UsersOK
      <4>. QED BY <3>2, <3>3, <3>4, <4>1 DEF UsersOK, IsLoad
    <3>. QED BY <1>2, <2>2, <3>2, <3>3, <3>4, <3>5 DEF SetsUser, UsersEffect
  <2>. QED BY <2>1, <2>2
<1>3. CASE e.kind = "UserRemove"
  <2>1. Replay(ls, e).users = [u \in DOMAIN ls.users \ {e.id} |-> ls.users[u]]
    BY <1>1, <1>3 DEF Replay, Restrict
  <2>2. IsFiniteSet(DOMAIN ls.users \ {e.id})
    BY FS_RemoveElement DEF IsLoad, UsersOK
  <2>. QED BY <1>3, <2>1, <2>2 DEF SetsUser, UsersOK, IsLoad, UsersEffect
<1>4. CASE e.kind \in {"Channel", "ChannelRemove", "BanList", "Config"}
  <2>1. Replay(ls, e).users = ls.users
    BY <1>1, <1>4 DEF Replay, ReplayChannel
  <2>. QED BY <1>4, <2>1 DEF SetsUser, IsLoad, UsersEffect
<1>. QED BY <1>2, <1>3, <1>4 DEF IsEntry

\* Max of two numbers.
LEMMA MaxOfTwo ==
    ASSUME NEW a \in Nat, NEW b \in Nat
    PROVE  Max({a, b}) \in Nat /\ a <= Max({a, b}) /\ b <= Max({a, b})
<1> DEFINE m == IF a >= b THEN a ELSE b
<1>1. m \in {a, b} /\ \A y \in {a, b} : m >= y
  BY SMTT(30)
<1>. HIDE DEF m
<1>2. Max({a, b}) \in {a, b} /\ \A y \in {a, b} : Max({a, b}) >= y
  BY <1>1 DEF Max
<1>. QED BY <1>2

\* A channel that is read from a stored one.
LEMMA UnfreezeFields ==
    ASSUME NEW ch, DOMAIN ch = ChanFields, NEW f, DOMAIN f \subseteq FrozenFields
    PROVE  /\ DOMAIN Unfreeze(ch, f) = ChanFields
           /\ Unfreeze(ch, f).temporary = ch.temporary
           /\ \A x \in {"name", "links"} : Unfreeze(ch, f)[x] = IF x \in DOMAIN f THEN f[x] ELSE ch[x]
<1>1. "temporary" \in ChanFields /\ "name" \in ChanFields /\ "links" \in ChanFields /\ "temporary" \notin FrozenFields
  BY DEF ChanFields, FrozenFields
<1>2. \A x \in ChanFields : x # "parent" /\ x # "groups" => Unfreeze(ch, f)[x] = IF x \in DOMAIN f THEN f[x] ELSE ch[x]
  BY DEF Unfreeze
<1>3. DOMAIN Unfreeze(ch, f) = ChanFields
  BY DEF Unfreeze
<1>. QED BY <1>1, <1>2, <1>3

\* Its channels: k is the load ls after entry e.
RawEffect(ls, e, k) ==
    /\ \A c : c \in DOMAIN k.raw <=> c \in DOMAIN ls.raw \/ SetsChan(ls, e, c)
    /\ \A c \in DOMAIN k.raw :
          /\ DOMAIN k.raw[c] = ChanFields /\ k.raw[c].temporary = FALSE
          /\ \A x \in {"name", "links"} :
                k.raw[c][x] = IF SetsChan(ls, e, c) /\ x \in DOMAIN e.set THEN e.set[x]
                              ELSE IF c \in DOMAIN ls.raw THEN ls.raw[c][x] ELSE NewChannel("")[x]
    /\ \A c : c \in DOMAIN k.parents <=>
                \/ c \in DOMAIN ls.parents
                \/ SetsChan(ls, e, c) /\ c \notin DOMAIN ls.raw /\ "parent" \in DOMAIN e.set
    /\ \A c \in DOMAIN k.parents :
          k.parents[c] = IF c \in DOMAIN ls.raw THEN ls.parents[c] ELSE e.set.parent
    /\ k.nextChan \in Nat /\ DOMAIN k.raw \subseteq 0..k.nextChan - 1
    /\ ls.panic => k.panic
    /\ e.kind = "ChannelRemove" => k.panic

\* What an entry of the log does to the channels of the load: a channel
\* entry sets the fields it has in a known channel, and makes a new one if
\* it has a name; the parent counts for a new one only.
LEMMA ReplayRaw ==
    ASSUME NEW ls, NEW e, IsLoad(ls), IsEntry(e)
    PROVE  RawEffect(ls, e, Replay(ls, e))
<1> DEFINE k == Replay(ls, e)
<1>0. SUFFICES RawEffect(ls, e, k)
  OBVIOUS
<1>1. DOMAIN ls = LoadFields /\ {"raw", "parents", "nextChan", "panic"} \subseteq LoadFields
  BY DEF IsLoad, LoadFields
<1>2. CASE e.kind = "Channel"
  <2> DEFINE known == e.id \in DOMAIN ls.raw
             old == IF known THEN ls.raw[e.id] ELSE NewChannel("")
  <2>0. DOMAIN old = ChanFields /\ old.temporary = FALSE
    BY <1>2 DEF IsLoad, NewChannel, ChanFields
  <2>00. DOMAIN e.set \subseteq FrozenFields
    BY <1>2 DEF IsEntry
  <2>01. e.id \in Nat
    BY <1>2 DEF IsEntry
  <2>1. CASE ~known /\ "name" \notin DOMAIN e.set
    <3>1. k = ls
      BY <1>2, <2>1 DEF Replay, ReplayChannel
    <3>2. \A c : ~SetsChan(ls, e, c)
      BY <2>1 DEF SetsChan
    <3>. HIDE DEF k
    <3>. QED BY <1>2, <3>1, <3>2 DEF IsLoad, RawEffect
  <2>2. CASE ~(~known /\ "name" \notin DOMAIN e.set)
    <3>1. /\ k.raw = With(ls.raw, e.id, Unfreeze(old, e.set))
          /\ k.parents = IF known \/ "parent" \notin DOMAIN e.set THEN ls.parents
                         ELSE With(ls.parents, e.id, e.set.parent)
          /\ k.panic = (ls.panic \/ GroupPanics(e.set))
          /\ k.nextChan = Max({ls.nextChan, e.id + 1})
      BY <1>1, <1>2, <2>2 DEF Replay, ReplayChannel
    <3>2. /\ DOMAIN Unfreeze(old, e.set) = ChanFields
          /\ Unfreeze(old, e.set).temporary = FALSE
          /\ \A x \in {"name", "links"} :
                Unfreeze(old, e.set)[x] = IF x \in DOMAIN e.set THEN e.set[x] ELSE old[x]
      <4>. HIDE DEF old
      <4>. QED BY <2>0, <2>00, UnfreezeFields
    <3>3. /\ DOMAIN k.raw = DOMAIN ls.raw \cup {e.id}
          /\ \A c \in DOMAIN k.raw : k.raw[c] = IF c = e.id THEN Unfreeze(old, e.set) ELSE ls.raw[c]
      <4>. HIDE DEF k, old
      <4>. QED BY <3>1 DEF With
    <3>4. \A c : SetsChan(ls, e, c) <=> c = e.id
      BY <1>2, <2>2 DEF SetsChan
    <3>5. ls.nextChan \in Nat /\ DOMAIN ls.raw \subseteq 0..ls.nextChan - 1
      BY DEF IsLoad
    <3>6. k.nextChan \in Nat /\ DOMAIN k.raw \subseteq 0..k.nextChan - 1
      <4>1. e.id + 1 \in Nat
        BY <2>01, SMTT(30)
      <4>2. k.nextChan \in Nat /\ ls.nextChan <= k.nextChan /\ e.id + 1 <= k.nextChan
        BY <3>1, <3>5, <4>1, MaxOfTwo
      <4>3. DOMAIN k.raw = DOMAIN ls.raw \cup {e.id}
        BY <3>3
      <4>. HIDE DEF k
      <4>. QED BY <2>01, <3>5, <4>2, <4>3, SMTT(30)
    <3>7. DOMAIN ls.parents \subseteq DOMAIN ls.raw
      BY DEF IsLoad
    <3>8. /\ \A c : c \in DOMAIN k.parents <=>
                          \/ c \in DOMAIN ls.parents
                          \/ SetsChan(ls, e, c) /\ c \notin DOMAIN ls.raw /\ "parent" \in DOMAIN e.set
          /\ \A c \in DOMAIN k.parents :
                k.parents[c] = IF c \in DOMAIN ls.raw THEN ls.parents[c] ELSE e.set.parent
      <4>. HIDE DEF k
      <4>1. CASE known \/ "parent" \notin DOMAIN e.set
        <5>1. k.parents = ls.parents
          BY <3>1, <4>1
        <5>. QED BY <3>4, <3>7, <4>1, <5>1
      <4>2. CASE ~(known \/ "parent" \notin DOMAIN e.set)
        <5>1. k.parents = With(ls.parents, e.id, e.set.parent)
          BY <3>1, <4>2
        <5>. QED BY <3>4, <3>7, <4>2, <5>1 DEF With
      <4>. QED BY <4>1, <4>2
    <3>9. \A c \in DOMAIN k.raw :
             /\ DOMAIN k.raw[c] = ChanFields /\ k.raw[c].temporary = FALSE
             /\ \A x \in {"name", "links"} :
                    k.raw[c][x] = IF SetsChan(ls, e, c) /\ x \in DOMAIN e.set THEN e.set[x]
                                  ELSE IF c \in DOMAIN ls.raw THEN ls.raw[c][x] ELSE NewChannel("")[x]
      <4>. HIDE DEF k
      <4>. QED BY <3>2, <3>3, <3>4 DEF IsLoad
    <3>. HIDE DEF k
    <3>10. ls.panic => k.panic
      BY <3>1
    <3>11. \A c : c \in DOMAIN k.raw <=> c \in DOMAIN ls.raw \/ SetsChan(ls, e, c)
      BY <3>3, <3>4
    <3>12. ~(e.kind = "ChannelRemove")
      BY <1>2
    <3>. QED BY <3>6, <3>8, <3>9, <3>10, <3>11, <3>12 DEF RawEffect
  <2>. QED BY <2>1, <2>2
<1>3. CASE e.kind \in {"User", "UserRemove", "ChannelRemove", "BanList", "Config"}
  <2>1. /\ k.raw = ls.raw /\ k.parents = ls.parents /\ k.nextChan = ls.nextChan
        /\ k.panic = IF e.kind = "ChannelRemove" THEN TRUE ELSE ls.panic
    <3>1. CASE e.kind = "User"
      BY <1>1, <3>1 DEF Replay, ReplayUser
    <3>2. CASE e.kind \in {"UserRemove", "ChannelRemove", "BanList", "Config"}
      BY <1>1, <3>2 DEF Replay
    <3>. QED BY <1>3, <3>1, <3>2
  <2>2. \A c : ~SetsChan(ls, e, c)
    BY <1>3 DEF SetsChan
  <2>. HIDE DEF k
  <2>. QED BY <2>1, <2>2 DEF IsLoad, RawEffect
<1>. QED BY <1>2, <1>3 DEF IsEntry

\* Replay of an entry that the server writes leaves a state of the load.
LEMMA ReplayIsLoad ==
    ASSUME NEW ls, NEW e, IsLoad(ls), IsEntry(e)
    PROVE  IsLoad(Replay(ls, e))
<1>1. DOMAIN Replay(ls, e) = LoadFields
  BY ReplayDomain
<1>2. UsersOK(Replay(ls, e).users)
  BY ReplayUsers DEF UsersEffect
<1>3. DOMAIN ls.parents \subseteq DOMAIN ls.raw
  BY DEF IsLoad
<1>. QED BY <1>1, <1>2, <1>3, ReplayRaw DEF IsLoad, RawEffect

-----------------------------------------------------------------------------
\* The files.

\* A snapshot.
IsSnapshot(m) ==
    /\ m.kind = "server"
    /\ UsersOK(m.users)
    /\ \E n \in Nat : DOMAIN m.chans \subseteq 0..n
    /\ \A c \in DOMAIN m.chans : DOMAIN m.chans[c] \subseteq FrozenFields

\* A sequence of entries, and a log.
IsTx(es) == \E S : es \in Seq(S) /\ \A e \in S : IsEntry(e)
IsLog(l) == DOMAIN l = {"entries", "torn"} /\ IsTx(l.entries)

\* The load ls after the log l.
RunLog(l, ls) == IF l = NoFile THEN ls ELSE ReplayAll(ls, l.entries)

\* Max of a bounded set of ids, each plus one.
LEMMA MaxOfIds ==
    ASSUME NEW D, NEW n \in Nat, D \subseteq 0..n
    PROVE  LET m == Max({1} \cup {c + 1 : c \in D}) IN m \in Nat /\ D \subseteq 0..m - 1
<1> DEFINE S == {1} \cup {c + 1 : c \in D}
           U == {x \in 0..n + 1 : \A s \in S : s <= x}
<1>1. S \subseteq 1..n + 1
  BY SMTT(30)
<1>2. n + 1 \in U /\ U \in SUBSET Nat
  BY <1>1, SMTT(30)
<1>3. PICK x \in U : \A y \in U : x <= y
  <2>. HIDE DEF U
  <2>. QED BY <1>2, LeastPosition
<1>4. x \in Nat /\ \A s \in S : s <= x
  BY <1>3, SMTT(30)
<1>5. x \in S
  <2>1. SUFFICES ASSUME x \notin S PROVE FALSE
    OBVIOUS
  <2>2. \A s \in S : s \in Nat /\ s <= x /\ s # x
    BY <1>1, <1>4, <2>1, SMTT(30)
  <2>3. 1 \in S
    OBVIOUS
  <2>. HIDE DEF S
  <2>4. x - 1 \in 0..n + 1 /\ \A s \in S : s <= x - 1
    BY <1>3, <1>4, <2>2, <2>3, SMTT(30)
  <2>5. x - 1 \in U
    BY <2>4
  <2>. QED BY <1>3, <1>4, <2>5, SMTT(30)
<1>6. Max(S) \in S /\ \A y \in S : Max(S) >= y
  <2>1. x \in S /\ \A y \in S : x >= y
    <3>. HIDE DEF S
    <3>1. \A y \in S : y \in Nat
      BY <1>1, SMTT(30)
    <3>. QED BY <1>4, <1>5, <3>1
  <2>. HIDE DEF S
  <2>. QED BY <2>1 DEF Max
<1>7. Max(S) \in Nat
  BY <1>1, <1>6, SMTT(30)
<1>8. ASSUME NEW c \in D PROVE c \in 0..Max(S) - 1
  <2>1. c + 1 \in S /\ c \in Nat
    BY SMTT(30)
  <2>. HIDE DEF S
  <2>2. Max(S) >= c + 1
    BY <1>6, <2>1
  <2>. QED BY <1>7, <2>1, <2>2, SMTT(30)
<1>. QED BY <1>7, <1>8

\* What is loaded from a snapshot alone.
LEMMA SnapshotLoad ==
    ASSUME NEW m, IsSnapshot(m)
    PROVE  LET k == LoadSnapshot(m)
           IN /\ IsLoad(k)
              /\ k.bans = m.bans /\ k.cfg = m.cfg /\ k.users = m.users
              /\ DOMAIN k.raw = DOMAIN m.chans
              /\ DOMAIN k.parents = {c \in DOMAIN m.chans : "parent" \in DOMAIN m.chans[c]}
              /\ \A c \in DOMAIN k.parents : k.parents[c] = m.chans[c].parent
              /\ \A c \in DOMAIN k.raw : \A x \in {"name", "links"} :
                    k.raw[c][x] = IF x \in DOMAIN m.chans[c] THEN m.chans[c][x] ELSE NewChannel("")[x]
<1> DEFINE k == LoadSnapshot(m)
           cs == m.chans
<1>1. /\ DOMAIN k = LoadFields
      /\ k.bans = m.bans /\ k.cfg = m.cfg /\ k.users = m.users
      /\ k.nextChan = Max({1} \cup {c + 1 : c \in DOMAIN cs})
  BY DEF LoadSnapshot, LoadFields
<1>2. k.raw = [c \in DOMAIN cs |-> Unfreeze(NewChannel(""), cs[c])]
  BY DEF LoadSnapshot
<1>3. k.parents = [c \in {d \in DOMAIN cs : "parent" \in DOMAIN cs[d]} |-> cs[c].parent]
  BY DEF LoadSnapshot
<1>4. PICK n \in Nat : DOMAIN cs \subseteq 0..n
  BY DEF IsSnapshot
<1>5. k.nextChan \in Nat /\ DOMAIN cs \subseteq 0..k.nextChan - 1
  <2>. HIDE DEF k, cs
  <2>. QED BY <1>1, <1>4, MaxOfIds
<1>6. DOMAIN NewChannel("") = ChanFields /\ NewChannel("").temporary = FALSE
  BY DEF NewChannel, ChanFields
<1>7. \A c \in DOMAIN cs :
         /\ DOMAIN Unfreeze(NewChannel(""), cs[c]) = ChanFields
         /\ Unfreeze(NewChannel(""), cs[c]).temporary = FALSE
         /\ \A x \in {"name", "links"} :
              Unfreeze(NewChannel(""), cs[c])[x] = IF x \in DOMAIN cs[c] THEN cs[c][x] ELSE NewChannel("")[x]
  <2>1. \A c \in DOMAIN cs : DOMAIN cs[c] \subseteq FrozenFields
    BY DEF IsSnapshot
  <2>. HIDE DEF cs
  <2>. QED BY <1>6, <2>1, UnfreezeFields
<1>8. UsersOK(k.users)
  BY <1>1 DEF IsSnapshot
<1>. HIDE DEF k, cs
<1>9. IsLoad(k)
  BY <1>1, <1>2, <1>3, <1>5, <1>7, <1>8 DEF IsLoad
<1>10. DOMAIN k.raw = DOMAIN cs /\ DOMAIN k.parents = {c \in DOMAIN cs : "parent" \in DOMAIN cs[c]}
  BY <1>2, <1>3
<1>11. \A c \in DOMAIN k.parents : k.parents[c] = cs[c].parent
  BY <1>3
<1>12. \A c \in DOMAIN k.raw : \A x \in {"name", "links"} :
          k.raw[c][x] = IF x \in DOMAIN cs[c] THEN cs[c][x] ELSE NewChannel("")[x]
  BY <1>2, <1>7
<1>. QED BY <1>1, <1>9, <1>10, <1>11, <1>12 DEF k, cs

\* A transaction leaves a state of the load.
LEMMA ReplayAllIsLoad ==
    ASSUME NEW es, IsTx(es), NEW ls, IsLoad(ls)
    PROVE  IsLoad(ReplayAll(ls, es))
<1>1. PICK S : es \in Seq(S) /\ \A e \in S : IsEntry(e)
  BY DEF IsTx
<1>2. PICK f : Chain(ls, es, f) /\ ReplayAll(ls, es) = f[Len(es)]
  BY <1>1, ReplayChain
<1>3. /\ Len(es) \in Nat /\ f[0] = ls
      /\ \A i \in 0..Len(es) - 1 : i + 1 \in 1..Len(es) /\ f[i + 1] = Replay(f[i], es[i + 1])
  BY <1>1, <1>2, ChainSteps, SMTT(30)
<1> DEFINE n == Len(es)
           T == {i \in 0..n : IsLoad(f[i])}
<1>4. 0 \in T
  BY <1>3, SMTT(30)
<1>5. ASSUME NEW i \in 0..n - 1, i \in T PROVE i + 1 \in T
  <2>1. i + 1 \in 0..n /\ i + 1 \in 1..n
    BY <1>3, SMTT(30)
  <2>2. IsEntry(es[i + 1])
    BY <1>1, <2>1, SMTT(30)
  <2>3. IsLoad(f[i + 1])
    BY <1>3, <1>5, <2>2, ReplayIsLoad
  <2>. QED BY <2>1, <2>3
<1>6. \A i \in 0..n : i \in T
  <2>. HIDE DEF T, n
  <2>1. n \in Nat
    BY <1>3 DEF n
  <2>. QED BY <1>4, <1>5, <2>1, Positions
<1>. QED BY <1>2, <1>3, <1>6, SMTT(30)

\* Entries of other kinds leave the bans, and the password, as they are.
LEMMA ReplayAllPlain ==
    ASSUME NEW S, NEW es \in Seq(S), \A e \in S : IsEntry(e), NEW ls, IsLoad(ls)
    PROVE  /\ (\A e \in S : e.kind # "BanList") => ReplayAll(ls, es).bans = ls.bans
           /\ (\A e \in S : e.kind # "Config") => ReplayAll(ls, es).cfg = ls.cfg
<1>2. PICK f : Chain(ls, es, f) /\ ReplayAll(ls, es) = f[Len(es)]
  BY ReplayChain
<1>3. /\ Len(es) \in Nat /\ f[0] = ls
      /\ \A i \in 0..Len(es) - 1 : i + 1 \in 1..Len(es) /\ f[i + 1] = Replay(f[i], es[i + 1])
  BY <1>2, ChainSteps, SMTT(30)
<1> DEFINE n == Len(es)
           T == {i \in 0..n : /\ IsLoad(f[i])
                              /\ (\A e \in S : e.kind # "BanList") => f[i].bans = ls.bans
                              /\ (\A e \in S : e.kind # "Config") => f[i].cfg = ls.cfg}
<1>4. 0 \in T
  BY <1>3, SMTT(30)
<1>5. ASSUME NEW i \in 0..n - 1, i \in T PROVE i + 1 \in T
  <2>1. i + 1 \in 0..n /\ i + 1 \in 1..n
    BY <1>3, SMTT(30)
  <2>2. es[i + 1] \in S /\ IsEntry(es[i + 1])
    BY <2>1, SMTT(30)
  <2>3. IsLoad(f[i]) /\ f[i + 1] = Replay(f[i], es[i + 1])
    BY <1>3, <1>5
  <2>4. IsLoad(f[i + 1])
    BY <2>2, <2>3, ReplayIsLoad
  <2>5. /\ f[i + 1].bans = IF es[i + 1].kind = "BanList" THEN es[i + 1].bans ELSE f[i].bans
        /\ f[i + 1].cfg = IF es[i + 1].kind = "Config" THEN es[i + 1].value ELSE f[i].cfg
    BY <2>2, <2>3, ReplayPlain, SMTT(30)
  <2>. QED BY <1>5, <2>1, <2>2, <2>4, <2>5
<1>6. \A i \in 0..n : i \in T
  <2>. HIDE DEF T, n
  <2>1. n \in Nat
    BY <1>3 DEF n
  <2>. QED BY <1>4, <1>5, <2>1, Positions
<1>. QED BY <1>2, <1>3, <1>6, SMTT(30)

\* What is written at the end of a log.
LEMMA AppendLog ==
    ASSUME NEW l, IsLog(l), NEW es, IsTx(es), NEW k, k = [l EXCEPT !.entries = @ \o es]
    PROVE  /\ IsLog(k) /\ k # NoFile /\ k.torn = l.torn
           /\ \A ls : RunLog(k, ls) = ReplayAll(RunLog(l, ls), es)
<1>1. PICK S : l.entries \in Seq(S) /\ \A e \in S : IsEntry(e)
  BY DEF IsLog, IsTx
<1>2. PICK T : es \in Seq(T) /\ \A e \in T : IsEntry(e)
  BY DEF IsTx
<1>3. l.entries \in Seq(S \cup T) /\ es \in Seq(S \cup T)
  BY <1>1, <1>2, SMTT(30)
<1>4. DOMAIN k = {"entries", "torn"} /\ k.entries = l.entries \o es /\ k.torn = l.torn
  BY DEF IsLog
<1>5. k.entries \in Seq(S \cup T)
  BY <1>3, <1>4, SMTT(30)
<1>6. l # NoFile /\ k # NoFile
  <2>1. DOMAIN NoFile = {"kind"}
    BY DEF NoFile
  <2>2. "kind" \notin {"entries", "torn"}
    OBVIOUS
  <2>. QED BY <1>4, <2>1, <2>2 DEF IsLog
<1>7. \A ls : ReplayAll(ls, k.entries) = ReplayAll(ReplayAll(ls, l.entries), es)
  BY <1>3, <1>4, ReplayConcat, SMTT(30)
<1>8. IsLog(k)
  BY <1>1, <1>2, <1>4, <1>5, SMTT(30) DEF IsLog, IsTx
<1>. QED BY <1>4, <1>6, <1>7, <1>8 DEF RunLog

\* A change for which nothing is written.
LEMMA EmptyTx == IsTx(<<>>)
<1>1. <<>> \in Seq({}) /\ \A e \in {} : IsEntry(e)
  BY SMTT(30)
<1> DEFINE es == <<>>
<1>. HIDE DEF es
<1>2. es \in Seq({}) /\ \A e \in {} : IsEntry(e)
  BY <1>1 DEF es
<1>3. IsTx(es)
  BY <1>2, SMTT(30) DEF IsTx
<1>. QED BY <1>3 DEF es

\* A transaction with one entry, as most handlers write it.
LEMMA OneTx ==
    ASSUME NEW e, IsEntry(e)
    PROVE  IsTx(<<e>>)
<1> DEFINE es == <<e>>
<1>1. es \in Seq({e}) /\ \A x \in {e} : IsEntry(x)
  BY SMTT(30)
<1>. HIDE DEF es
<1>2. IsTx(es)
  BY <1>1, SMTT(30) DEF IsTx
<1>. QED BY <1>2 DEF es

\* The last channel of a user that moves is written twice
\* (handleUserStateMessage).
LEMMA TwoTx ==
    ASSUME NEW e, IsEntry(e)
    PROVE  /\ IsTx(<<e>> \o <<e>>)
           /\ \A ls : ReplayAll(ls, <<e>> \o <<e>>) = Replay(Replay(ls, e), e)
<1> DEFINE es == <<e>>
<1>1. es \in Seq({e}) /\ es \o es \in Seq({e}) /\ \A x \in {e} : IsEntry(x)
  BY SMTT(30)
<1>2. \A ls : ReplayAll(ls, es) = Replay(ls, e)
  BY ReplayOne
<1>. HIDE DEF es
<1>3. IsTx(es \o es)
  BY <1>1, SMTT(30) DEF IsTx
<1>4. \A ls : ReplayAll(ls, es \o es) = ReplayAll(ReplayAll(ls, es), es)
  BY <1>1, ReplayConcat
<1>. QED BY <1>2, <1>3, <1>4 DEF es

\* A log is not NoFile, a new one is empty.
LEMMA LogFile ==
    /\ \A l : IsLog(l) => l # NoFile
    /\ IsLog(NewLog) /\ NewLog.torn = "no"
    /\ \A ls : RunLog(NewLog, ls) = ls
    /\ \A m : IsSnapshot(m) => m # NoFile
<1>1. DOMAIN NoFile = {"kind"} /\ NoFile.kind = "none"
  BY DEF NoFile
<1>2. \A l : IsLog(l) => l # NoFile
  BY <1>1 DEF IsLog
<1>3. DOMAIN NewLog = {"entries", "torn"} /\ NewLog.entries = <<>> /\ NewLog.torn = "no"
  BY DEF NewLog
<1>5. IsLog(NewLog)
  BY <1>3, EmptyTx DEF IsLog
<1>6. \A ls : RunLog(NewLog, ls) = ls
  BY <1>2, <1>3, <1>5, ReplayNothing DEF RunLog
<1>7. \A m : IsSnapshot(m) => m # NoFile
  BY <1>1 DEF IsSnapshot
<1>. QED BY <1>2, <1>3, <1>5, <1>6, <1>7

MemFields == {"cfg", "bans", "users", "tree", "nextChan", "nextUser"}

\* The server in memory.
MemTyped(s) ==
    /\ DOMAIN s = MemFields
    /\ UsersOK(s.users)
    /\ s.nextChan \in Nat /\ DOMAIN s.tree \subseteq 0..s.nextChan - 1

\* Entries that are neither bans nor the password.
IsPlain(e) == IsEntry(e) /\ e.kind # "BanList" /\ e.kind # "Config"
PlainTx(es) == \E S : es \in Seq(S) /\ \A e \in S : IsPlain(e)

\* The entries es are written to the open log.
Writes(es) ==
    /\ logOpen /\ up \in {"run", "stop"}
    /\ log' = [log EXCEPT !.entries = @ \o es]
    /\ UNCHANGED <<main, dir, procVars, frozen>>

\* A handler that changes neither bans nor the password.
PlainWrite ==
    /\ \E es : PlainTx(es) /\ Writes(es)
    /\ MemTyped(mem')
    /\ mem'.bans = mem.bans /\ mem'.cfg = mem.cfg /\ pending' = pending

-----------------------------------------------------------------------------
\* A handler that writes nothing changes neither bans nor password on disk.
LEMMA PlainNone == PlainTx(<<>>)
<1> DEFINE es == <<>>
<1>1. es \in Seq({}) /\ \A e \in {} : IsPlain(e)
  BY SMTT(30)
<1>. HIDE DEF es
<1>2. PlainTx(es)
  BY <1>1, SMTT(30) DEF PlainTx
<1>. QED BY <1>2 DEF es

\* Nor does one that writes a user or a channel, once or twice.
LEMMA PlainOne ==
    ASSUME NEW e, IsPlain(e)
    PROVE  PlainTx(<<e>>) /\ PlainTx(<<e>> \o <<e>>)
<1> DEFINE es == <<e>>
<1>1. es \in Seq({e}) /\ es \o es \in Seq({e}) /\ \A x \in {e} : IsPlain(x)
  BY SMTT(30)
<1>. HIDE DEF es
<1>2. PlainTx(es)
  BY <1>1, SMTT(30) DEF PlainTx
<1>3. PlainTx(es \o es)
  BY <1>1, SMTT(30) DEF PlainTx
<1>. QED BY <1>2, <1>3 DEF es

\* Replay of such a transaction leaves bans and password.
LEMMA PlainReplay ==
    ASSUME NEW es, PlainTx(es)
    PROVE  /\ IsTx(es)
           /\ \A ls : IsLoad(ls) => ReplayAll(ls, es).bans = ls.bans /\ ReplayAll(ls, es).cfg = ls.cfg
<1>1. PICK S : es \in Seq(S) /\ \A e \in S : IsPlain(e)
  BY DEF PlainTx
<1>2. \A e \in S : IsEntry(e) /\ e.kind # "BanList" /\ e.kind # "Config"
  BY <1>1 DEF IsPlain
<1>3. IsTx(es)
  BY <1>1, <1>2 DEF IsTx
<1>4. \A ls : IsLoad(ls) => ReplayAll(ls, es).bans = ls.bans /\ ReplayAll(ls, es).cfg = ls.cfg
  BY <1>1, <1>2, ReplayAllPlain, SMTT(30)
<1>. QED BY <1>3, <1>4

\* The users of a user list, one after the other.
LEMMA InOrder ==
    ASSUME NEW us, IsFiniteSet(us)
    PROVE  /\ Cardinality(us) \in Nat
           /\ UsersInOrder(us) \in [1..Cardinality(us) -> us]
           /\ \A u \in us : \E i \in 1..Cardinality(us) : UsersInOrder(us)[i] = u
<1> DEFINE n == Cardinality(us)
<1>1. n \in Nat /\ ExistsBijection(1..n, us)
  BY FS_CardinalityType
<1>2. PICK g \in [1..n -> us] : IsInjective(g)
  BY <1>1 DEF ExistsBijection, Bijection, Injection
<1>3. UsersInOrder(us) \in [1..n -> us] /\ IsInjective(UsersInOrder(us))
  BY <1>2 DEF UsersInOrder
<1>4. UsersInOrder(us) \in Injection(1..n, us)
  BY <1>3 DEF Injection
<1>5. Cardinality(1..n) = n
  BY <1>1, FS_Interval, SMTT(30)
<1>6. UsersInOrder(us) \in Surjection(1..n, us)
  BY <1>4, <1>5, FS_Injection
<1>. QED BY <1>1, <1>3, <1>6 DEF Surjection

-----------------------------------------------------------------------------
\* The handlers, one by one.

\* What Store does to the files, and to the server in memory.
LEMMA StoreWrites ==
    ASSUME NEW s, NEW es, NEW n, Store(s, es, n), logOpen
    PROVE  Writes(es) /\ mem' = s
BY DEF Store, Handles, Writes, procVars

\* The entries of a user list.
ListEntry(u, name) == IF name = "" THEN [kind |-> "UserRemove", id |-> u] ELSE UserEntry(u, [name |-> name])
ListTx(us, name) == [i \in 1..Cardinality(us) |-> ListEntry(UsersInOrder(us)[i], name)]
Listed(us, name) ==
    IF name = "" THEN Restrict(mem.users, DOMAIN mem.users \ us)
    ELSE [u \in DOMAIN mem.users |-> IF u \in us THEN [mem.users[u] EXCEPT !.name = name] ELSE mem.users[u]]
ListedTree(us, name) == IF name = "" THEN ForgetUsers(mem.tree, us) ELSE mem.tree

\* handleUserList, with its effect on the users, the channels and the log
\* named.
LEMMA ListStores ==
    ASSUME NEW us, NEW name, handleUserList(us, name), DOMAIN mem = MemFields
    PROVE  /\ us \subseteq DOMAIN mem.users
           /\ Store([mem EXCEPT !.users = Listed(us, name), !.tree = ListedTree(us, name)], ListTx(us, name), 0)
           /\ UNCHANGED <<who, pending, histVars>>
<1>1. ListTx(us, name) = [i \in 1..Cardinality(us) |->
                            IF name = "" THEN [kind |-> "UserRemove", id |-> UsersInOrder(us)[i]]
                            ELSE UserEntry(UsersInOrder(us)[i], [name |-> name])]
  BY DEF ListTx, ListEntry
<1>. QED BY <1>1 DEF handleUserList, Listed, ListedTree, MemFields

\* Its transaction has one entry for each user of the list.
LEMMA ListEntries ==
    ASSUME NEW us, IsFiniteSet(us), NEW name
    PROVE  /\ ListTx(us, name) \in Seq({ListEntry(u, name) : u \in us})
           /\ Len(ListTx(us, name)) = Cardinality(us)
           /\ \A u \in us : IsPlain(ListEntry(u, name))
           /\ PlainTx(ListTx(us, name))
<1> DEFINE S == {ListEntry(u, name) : u \in us}
           es == ListTx(us, name)
<1>1. /\ Cardinality(us) \in Nat /\ UsersInOrder(us) \in [1..Cardinality(us) -> us]
  BY InOrder
<1>2. \A u \in us : ListEntry(u, name) \in S
  OBVIOUS
<1>3. \A u \in us : IsPlain(ListEntry(u, name))
  BY DEF ListEntry, IsPlain, IsEntry, UserEntry, UserFields
<1>. HIDE DEF S
<1>4. es \in Seq(S) /\ Len(es) = Cardinality(us)
  BY <1>1, <1>2, SMTT(30) DEF ListTx
<1>5. \A e \in S : IsPlain(e)
  BY <1>3 DEF S
<1>. HIDE DEF es
<1>6. PlainTx(es)
  BY <1>4, <1>5 DEF PlainTx
<1>. QED BY <1>3, <1>4, <1>6 DEF S, es

\* The channel that is created, and the transaction.
Created(a, name, temp) ==
    [NewChannel(name) EXCEPT !.temporary = temp, !.acls = <<CreatorACL(a)>>,
         !.groups = IF who[a] # NoUid THEN [g \in {"admin"} |-> {who[a]}] ELSE <<>>]
CreateTx(a, p, name, temp) ==
    IF ~temp THEN <<ChannelEntry(mem.nextChan, [name |-> name, parent |-> p])>>
    ELSE IF who[a] # NoUid THEN <<UserEntry(who[a], [last |-> mem.nextChan])>> ELSE <<>>
WithCreated(a, p, name, temp) ==
    AddChild(AddChannel(mem.tree, mem.nextChan, Created(a, name, temp)), p, mem.nextChan)

\* handleChannelStateMessage without a channel id, with its parts named.
LEMMA CreateStores ==
    ASSUME NEW a, NEW p, NEW name, NEW temp, handleChannelCreate(a, p, name, temp)
    PROVE  /\ p \in DOMAIN mem.tree /\ ~mem.tree[p].temporary
           /\ Store([mem EXCEPT !.tree = WithCreated(a, p, name, temp), !.nextChan = mem.nextChan + 1],
                    CreateTx(a, p, name, temp), Len(CreateTx(a, p, name, temp)))
           /\ temps' = (IF temp THEN temps \cup {mem.nextChan} ELSE temps)
           /\ UNCHANGED <<who, pending, unlogged>>
BY DEF handleChannelCreate, WithCreated, CreateTx, Created, Put

\* An edit, and the transaction.
EditTx(c, e) ==
    LET t == Edited(mem.tree, c, e) IN IF t[c].temporary THEN <<>> ELSE <<UpdateFrozenChannel(t, c, e)>>

\* handleChannelStateMessage with a channel id, with its parts named.
LEMMA EditStores ==
    ASSUME NEW c, NEW e, handleChannelEdit(c, e)
    PROVE  /\ c \in DOMAIN mem.tree
           /\ Range(Restrict(e, DOMAIN e \ {"name"})) \subseteq DOMAIN mem.tree
           /\ EditAllowed(mem.tree, c, e)
           /\ Store([mem EXCEPT !.tree = Edited(mem.tree, c, e)], EditTx(c, e), Len(EditTx(c, e)))
           /\ unlogged' = unlogged \cup (IF "parent" \in DOMAIN e THEN {<<"moved", c>>} ELSE {})
                                   \cup (IF "remove" \in DOMAIN e THEN {<<"unlinked", {c, e.remove}>>} ELSE {})
           /\ UNCHANGED <<who, pending, temps>>
BY DEF handleChannelEdit, EditTx, Put

\* UpdateFrozenChannel makes an entry of a channel.
LEMMA FrozenEdit ==
    ASSUME NEW t, NEW c \in Nat, NEW e
    PROVE  IsPlain(UpdateFrozenChannel(t, c, e))
BY DEF UpdateFrozenChannel, ChannelEntry, IsPlain, IsEntry, FrozenFields

\* A removal, and the transaction.
RemoveTx(c) == IF mem.tree[c].temporary THEN <<>> ELSE <<[kind |-> "ChannelRemove", id |-> c]>>
Removed(c) == IF c = Root THEN mem.tree ELSE RemoveChannel(mem.tree, c)

\* handleChannelRemoveMessage, with its parts named.
LEMMA RemoveStores ==
    ASSUME NEW c, handleChannelRemove(c)
    PROVE  /\ c \in DOMAIN mem.tree
           /\ Store([mem EXCEPT !.tree = Removed(c)], RemoveTx(c), Len(RemoveTx(c)))
           /\ unlogged' = (IF RemoveTx(c) = <<>> THEN unlogged ELSE unlogged \cup {<<"removed", c>>})
           /\ UNCHANGED <<who, pending, temps>>
BY DEF handleChannelRemove, Removed, RemoveTx, Put

\* New ACLs and groups, and the entry.
Given(a, c, acls, groups) ==
    [mem.tree[c] EXCEPT !.inherit = TRUE, !.groups = groups, !.acls = Append(acls, CreatorACL(a))]

\* handleAclMessage, with its parts named.
LEMMA AclStores ==
    ASSUME NEW a, NEW c, NEW acls, NEW groups, handleAcl(a, c, acls, groups), DOMAIN mem = MemFields
    PROVE  /\ c \in DOMAIN mem.tree
           /\ Store([mem EXCEPT !.tree = [mem.tree EXCEPT ![c] = Given(a, c, acls, groups)]],
                    <<ChannelEntry(c, FreezeACLs(Given(a, c, acls, groups)))>>, 1)
           /\ UNCHANGED <<who, pending, histVars>>
BY DEF handleAcl, Given, Put, MemFields

-----------------------------------------------------------------------------
\* The inductive invariant.

\* The steps of FreezeToFile, and the files that are there.
ProcInv ==
    /\ \/ up \in {"off", "idle"} /\ fz = "done" /\ logOpen = FALSE
       \/ up = "boot" /\ fz \in {"write", "rename", "start", "remove", "create"} /\ logOpen = FALSE
       \/ up \in {"run", "stop"} /\ fz = "done" /\ logOpen = TRUE
       \/ up = "stop" /\ fz = "close" /\ logOpen = TRUE
       \/ up \in {"run", "stop"} /\ fz \in {"write", "rename", "remove", "create"} /\ logOpen = FALSE
    /\ up \in {"run", "stop", "idle"} \/ fz \in {"start", "remove", "create"} => main # NoFile
    /\ logOpen => log # NoFile /\ log.torn = "no"
    /\ dir \in BOOLEAN /\ (up # "off" => dir = TRUE) /\ (dir = FALSE => main = NoFile)
    /\ main = NoFile => log = NoFile
    /\ pending # NoCfg => up \in {"run", "stop"} /\ mem.cfg = pending

\* m is a snapshot of the server in memory.
SnapshotOf(m) ==
    /\ m.bans = mem.bans /\ m.users = mem.users
    /\ m.chans = [c \in DOMAIN mem.tree |-> FreezeChannel(mem.tree[c])]
    /\ pending = NoCfg => m.cfg = mem.cfg

FilesInv ==
    /\ main # NoFile => IsSnapshot(main)
    /\ log # NoFile => IsLog(log)
    /\ fz = "rename" => IsSnapshot(frozen) /\ SnapshotOf(frozen)
    /\ fz \in {"start", "remove", "create"} => SnapshotOf(main)
    /\ MemTyped(mem)

\* The log holds the bans, or says nothing of them.
KeepsBans(l) ==
    \/ \A ls : IsLoad(ls) => RunLog(l, ls).bans = ls.bans
    \/ \E B : \A ls : IsLoad(ls) => RunLog(l, ls).bans = B

BansInv ==
    /\ KeepsBans(log)
    /\ up # "off" => IF main = NoFile THEN mem.bans = {} ELSE LoadLog.bans = mem.bans

FreezerInv == ProcInv /\ FilesInv /\ BansInv

-----------------------------------------------------------------------------
\* What is in the files is a state of the load.
LEMMA LoadLogIs ==
    /\ LoadLog = RunLog(log, LoadSnapshot(main))
    /\ FilesInv /\ main # NoFile => IsLoad(LoadSnapshot(main)) /\ IsLoad(LoadLog)
    /\ FilesInv => \A ls : IsLoad(ls) => IsLoad(RunLog(log, ls))
<1>1. LoadLog = RunLog(log, LoadSnapshot(main))
  BY DEF LoadLog, RunLog
<1>2. FilesInv => \A ls : IsLoad(ls) => IsLoad(RunLog(log, ls))
  BY ReplayAllIsLoad DEF FilesInv, IsLog, RunLog
<1>3. FilesInv /\ main # NoFile => IsLoad(LoadSnapshot(main))
  BY SnapshotLoad DEF FilesInv
<1>. QED BY <1>1, <1>2, <1>3

\* NewServer makes a server without bans and password.
LEMMA FreshTyped == MemTyped(Fresh) /\ Fresh.bans = {} /\ Fresh.cfg = NoCfg
<1>1. /\ DOMAIN Fresh = MemFields /\ Fresh.bans = {} /\ Fresh.cfg = NoCfg /\ Fresh.users = <<>>
      /\ DOMAIN Fresh.tree = {0} /\ Fresh.nextChan = 1
  BY DEF Fresh, MemFields, Root
<1>2. DOMAIN <<>> = {}
  BY SMTT(30)
<1>3. UsersOK(Fresh.users)
  <2>1. DOMAIN Fresh.users = {}
    BY <1>1, <1>2
  <2>. QED BY <2>1, FS_EmptySet DEF UsersOK
<1>. QED BY <1>1, <1>3, SMTT(30) DEF MemTyped

\* NewServerFromFrozen takes the bans from the files.
LEMMA LoadedTyped ==
    ASSUME FilesInv, main # NoFile
    PROVE  MemTyped(Loaded) /\ Loaded.bans = LoadLog.bans
<1>1. IsLoad(LoadLog)
  BY LoadLogIs
<1>2. /\ DOMAIN Loaded = MemFields /\ Loaded.bans = LoadLog.bans /\ Loaded.users = LoadLog.users
      /\ Loaded.tree = HookUp(LoadLog) /\ Loaded.nextChan = LoadLog.nextChan
  BY DEF Loaded, MemFields
<1>3. DOMAIN HookUp(LoadLog) = DOMAIN LoadLog.raw
  BY DEF HookUp
<1>. QED BY <1>1, <1>2, <1>3 DEF MemTyped, IsLoad

\* main: a load, or a new server when there is no directory.
LEMMA BootStep ==
    ASSUME FreezerInv, Boot
    PROVE  FreezerInv'
<1>1. MemTyped(mem') /\ (IF main = NoFile THEN mem'.bans = {} ELSE LoadLog.bans = mem'.bans)
  <2>1. CASE dir
    <3>1. main # NoFile /\ mem' = Loaded
      BY <2>1 DEF Boot, Loads
    <3>. QED BY <3>1, LoadedTyped DEF FreezerInv
  <2>2. CASE ~dir
    <3>1. main = NoFile /\ mem' = Fresh
      BY <2>2 DEF Boot, FreezerInv, ProcInv
    <3>. QED BY <3>1, FreshTyped
  <2>. QED BY <2>1, <2>2
<1>2. ProcInv'
  BY DEF Boot, FreezerInv, ProcInv
<1>3. FilesInv'
  BY <1>1 DEF Boot, FreezerInv, FilesInv
<1>4. BansInv'
  <2>1. LoadLog' = LoadLog
    BY DEF Boot, LoadLog
  <2>. QED BY <1>1, <2>1 DEF Boot, FreezerInv, BansInv
<1>. QED BY <1>2, <1>3, <1>4 DEF FreezerInv

\* Freeze has the bans, the users, the password and every channel of the
\* server.
LEMMA FreezeIsSnapshot ==
    ASSUME NEW s, MemTyped(s)
    PROVE  LET m == Freeze(s)
           IN /\ IsSnapshot(m)
              /\ m.bans = s.bans /\ m.users = s.users /\ m.cfg = s.cfg
              /\ m.chans = [c \in DOMAIN s.tree |-> FreezeChannel(s.tree[c])]
<1> DEFINE m == Freeze(s)
<1>1. /\ m.kind = "server" /\ m.bans = s.bans /\ m.users = s.users /\ m.cfg = s.cfg
      /\ m.chans = [c \in DOMAIN s.tree |-> FreezeChannel(s.tree[c])]
  BY DEF Freeze
<1>2. \A ch : DOMAIN FreezeChannel(ch) \subseteq FrozenFields
  BY DEF FreezeChannel, Absent, FrozenFields
<1>3. DOMAIN m.chans = DOMAIN s.tree /\ \A c \in DOMAIN m.chans : DOMAIN m.chans[c] \subseteq FrozenFields
  <2>. HIDE DEF m
  <2>. QED BY <1>1, <1>2
<1>4. \E n \in Nat : DOMAIN m.chans \subseteq 0..n
  <2>1. s.nextChan \in Nat /\ DOMAIN s.tree \subseteq 0..s.nextChan
    BY SMTT(30) DEF MemTyped
  <2>. HIDE DEF m
  <2>. QED BY <1>3, <2>1
<1>5. IsSnapshot(m)
  <2>. HIDE DEF m
  <2>. QED BY <1>1, <1>3, <1>4 DEF IsSnapshot, MemTyped
<1>. QED BY <1>1, <1>5

\* The new log is empty, so that the snapshot alone is loaded.
LEMMA CreateStep ==
    ASSUME FreezerInv, openCreate
    PROVE  FreezerInv' /\ LoadLog' = LoadSnapshot(main)
<1>1. /\ UNCHANGED <<main, dir, mem, pending>> /\ fz = "create" /\ fz' = "done" /\ log' = NewLog
      /\ logOpen' = TRUE /\ up' = IF up = "boot" THEN "run" ELSE up
  BY DEF openCreate
<1>2. main # NoFile /\ IsSnapshot(main) /\ SnapshotOf(main)
  BY <1>1 DEF FreezerInv, FilesInv, ProcInv
<1>3. IsLog(log') /\ log' # NoFile /\ log'.torn = "no" /\ \A ls : RunLog(log', ls) = ls
  BY <1>1, LogFile
<1>4. ProcInv'
  BY <1>1, <1>2, <1>3 DEF FreezerInv, ProcInv
<1>5. FilesInv'
  BY <1>1, <1>2, <1>3 DEF FreezerInv, FilesInv
<1>6. LoadLog' = LoadSnapshot(main)
  BY <1>1, <1>3 DEF LoadLog, RunLog
<1>7. BansInv'
  <2>1. LoadSnapshot(main).bans = mem.bans
    BY <1>2, SnapshotLoad DEF SnapshotOf
  <2>2. KeepsBans(log')
    BY <1>3 DEF KeepsBans
  <2>. QED BY <1>1, <1>2, <1>6, <2>1, <2>2 DEF BansInv
<1>. QED BY <1>4, <1>5, <1>6, <1>7 DEF FreezerInv

\* Entries are written at the end of the open log and replayed last.
LEMMA LogStep ==
    ASSUME FreezerInv, NEW es, IsTx(es), Writes(es)
    PROVE  /\ main # NoFile /\ log # NoFile /\ IsLog(log')
           /\ \A ls : RunLog(log', ls) = ReplayAll(RunLog(log, ls), es)
           /\ LoadLog' = ReplayAll(LoadLog, es)
<1>1. log # NoFile /\ main # NoFile /\ IsLog(log)
  BY DEF Writes, FreezerInv, ProcInv, FilesInv
<1>2. log' = [log EXCEPT !.entries = @ \o es] /\ main' = main
  BY DEF Writes
<1>3. IsLog(log') /\ \A ls : RunLog(log', ls) = ReplayAll(RunLog(log, ls), es)
  BY <1>1, <1>2, AppendLog, SMTT(30)
<1>4. LoadLog' = RunLog(log', LoadSnapshot(main)) /\ LoadLog = RunLog(log, LoadSnapshot(main))
  BY <1>2, SMTT(30) DEF LoadLog, RunLog
<1>. QED BY <1>1, <1>3, <1>4

\* A write to the log keeps the invariant if bans and password on disk stay
\* those in memory.
LEMMA WritesStep ==
    ASSUME FreezerInv, NEW es, IsTx(es), Writes(es), MemTyped(mem'),
           pending' # NoCfg => mem'.cfg = pending',
           KeepsBans(log'), LoadLog'.bans = mem'.bans
    PROVE  FreezerInv'
<1>1. log # NoFile /\ main # NoFile /\ IsLog(log)
  BY DEF Writes, FreezerInv, ProcInv, FilesInv
<1>2. log' = [log EXCEPT !.entries = @ \o es]
  BY DEF Writes
<1>3. IsLog(log') /\ log' # NoFile /\ log'.torn = log.torn
  BY <1>1, <1>2, AppendLog
<1>4. UNCHANGED <<main, dir, up, fz, logOpen, frozen>> /\ logOpen /\ up \in {"run", "stop"}
  BY DEF Writes, procVars
<1>5. ProcInv'
  BY <1>3, <1>4 DEF FreezerInv, ProcInv
<1>6. FilesInv'
  <2>1. fz \in {"done", "close"}
    BY <1>4 DEF FreezerInv, ProcInv
  <2>. QED BY <1>3, <1>4, <2>1 DEF FreezerInv, FilesInv
<1>7. BansInv'
  BY <1>1, <1>4 DEF BansInv
<1>. QED BY <1>5, <1>6, <1>7 DEF FreezerInv

\* The bans change, with their entry.
BanEntry(bans) == [kind |-> "BanList", bans |-> bans]

\* UpdateConfig: the password reaches the log.
LEMMA ConfigStep ==
    ASSUME FreezerInv, UpdateConfig
    PROVE  FreezerInv' /\ Writes(<<[kind |-> "Config", value |-> pending]>>) /\ mem' = mem /\ pending' = NoCfg
<1> DEFINE e == [kind |-> "Config", value |-> pending]
           es == <<e>>
<1>1. IsEntry(e) /\ e.kind = "Config"
  BY DEF IsEntry
<1>2. Store(mem, es, 1) /\ pending' = NoCfg
  BY DEF UpdateConfig, Put
<1>3. logOpen
  BY <1>2 DEF Store, Handles, FreezerInv, ProcInv
<1>4. IsTx(es) /\ \A ls : ReplayAll(ls, es) = Replay(ls, e)
  <2>. HIDE DEF e
  <2>. QED BY <1>1, OneTx, ReplayOne
<1>. HIDE DEF e, es
<1>5. Writes(es) /\ mem' = mem
  BY <1>2, <1>3, StoreWrites
<1>6. /\ main # NoFile /\ LoadLog' = Replay(LoadLog, e)
      /\ \A ls : RunLog(log', ls) = Replay(RunLog(log, ls), e)
  BY <1>4, <1>5, LogStep
<1>7. \A ls : IsLoad(ls) => Replay(ls, e).bans = ls.bans
  BY <1>1, ReplayPlain
<1>8. \A ls : IsLoad(ls) => RunLog(log', ls).bans = RunLog(log, ls).bans
  BY <1>6, <1>7, LoadLogIs DEF FreezerInv
<1>9. KeepsBans(log')
  BY <1>8 DEF KeepsBans, FreezerInv, BansInv
<1>10. LoadLog'.bans = mem'.bans
  BY <1>5, <1>6, <1>7, LoadLogIs DEF FreezerInv, BansInv, Writes
<1>11. MemTyped(mem')
  BY <1>5 DEF FreezerInv, FilesInv
<1>12. FreezerInv'
  BY <1>2, <1>4, <1>5, <1>9, <1>10, <1>11, WritesStep
<1>. QED BY <1>2, <1>5, <1>12 DEF es, e

\* The handlers that write an entry which is neither bans nor the password.
PlainHandler ==
    \/ \E a, t \in Clients : handleRegister(a, t)
    \/ \E c \in Clients, b \in Blobs : handleBlob(c, b)
    \/ \E c \in Clients, ch \in DOMAIN mem.tree : handleEnter(c, ch)
    \/ \E us \in SUBSET DOMAIN mem.users, name \in UserNames \cup {""} : handleUserList(us, name)
    \/ \E a \in Clients, p \in Chans, name \in ChannelNames, temp \in BOOLEAN :
           handleChannelCreate(a, p, name, temp)
    \/ \E c \in Chans, e \in Edits : handleChannelEdit(c, e)
    \/ \E c \in Chans : handleChannelRemove(c)
    \/ \E a \in Clients, c \in Chans, acls \in ACLLists, groups \in GroupSets :
           handleAcl(a, c, acls, groups)

\* The handlers of users and channels.
LEMMA PlainHandlers ==
    ASSUME FreezerInv, PlainHandler
    PROVE  PlainWrite /\ FreezerInv'
\* RegisterClient writes the new user or nothing.
<1>RegisterPlain.
    ASSUME MemTyped(mem), logOpen, NEW a \in Clients, NEW t \in Clients, handleRegister(a, t)
    PROVE  PlainWrite
  <2>. USE <1>RegisterPlain
  <2> DEFINE u == mem.nextUser
             user == [NewUser(t) EXCEPT !.cert = t]
             s == [mem EXCEPT !.users = With(@, u, user), !.nextUser = @ + 1]
             es == IF a = t THEN Put(UserEntry(u, user)) ELSE <<>>
  <2>1. Store(s, es, IF a = t THEN 1 ELSE 0) /\ pending' = pending
    BY DEF handleRegister
  <2>2. Writes(es) /\ mem' = s
    <3>. HIDE DEF s, es
    <3>. QED BY <2>1, StoreWrites
  <2>3. DOMAIN user = UserFields
    BY DEF NewUser, UserFields
  <2>4. PlainTx(es)
    <3>1. IsPlain(UserEntry(u, user))
      <4>. HIDE DEF u, user
      <4>. QED BY <2>3 DEF IsPlain, IsEntry, UserEntry
    <3>. HIDE DEF u, user
    <3>2. CASE a = t
      BY <3>1, <3>2, PlainOne DEF Put
    <3>3. CASE a # t
      BY <3>3, PlainNone
    <3>. QED BY <3>2, <3>3
  <2>5. /\ DOMAIN s = MemFields /\ s.users = With(mem.users, u, user)
        /\ s.tree = mem.tree /\ s.nextChan = mem.nextChan /\ s.bans = mem.bans /\ s.cfg = mem.cfg
    <3>. HIDE DEF u, user
    <3>. QED BY DEF MemTyped, MemFields
  <2>6. UsersOK(With(mem.users, u, user))
    <3>1. IsFiniteSet(DOMAIN mem.users \cup {u})
      BY FS_AddElement DEF MemTyped, UsersOK
    <3>. HIDE DEF u, user
    <3>. QED BY <2>3, <3>1 DEF With, UsersOK, MemTyped
  <2>7. MemTyped(s)
    <3>. HIDE DEF s, u, user
    <3>. QED BY <2>5, <2>6 DEF MemTyped
  <2>. HIDE DEF s, es
  <2>. QED BY <2>1, <2>2, <2>4, <2>5, <2>7 DEF PlainWrite
\* A new texture or comment is one entry of a user.
<1>BlobPlain.
    ASSUME MemTyped(mem), logOpen, NEW c \in Clients, NEW b \in Blobs, handleBlob(c, b)
    PROVE  PlainWrite
  <2>. USE <1>BlobPlain
  <2> DEFINE w == who[c]
             s == IF w \in DOMAIN mem.users THEN [mem EXCEPT !.users[w].blob = b] ELSE mem
             e == UserEntry(w, [blob |-> b])
  <2>1. Store(s, Put(e), 1) /\ pending' = pending
    BY DEF handleBlob
  <2>2. Writes(<<e>>) /\ mem' = s
    <3>. HIDE DEF s, e
    <3>. QED BY <2>1, StoreWrites DEF Put
  <2>3. IsPlain(e)
    BY DEF IsPlain, IsEntry, UserEntry, UserFields
  <2>4. /\ DOMAIN s = MemFields
        /\ s.tree = mem.tree /\ s.nextChan = mem.nextChan /\ s.bans = mem.bans /\ s.cfg = mem.cfg
    BY DEF MemTyped, MemFields
  <2>5. UsersOK(s.users)
    BY DEF MemTyped, MemFields, UsersOK
  <2>6. MemTyped(s)
    <3>. HIDE DEF s
    <3>. QED BY <2>4, <2>5 DEF MemTyped
  <2>. HIDE DEF s, e
  <2>. QED BY <2>1, <2>2, <2>3, <2>4, <2>6, PlainOne DEF PlainWrite
\* userEnterChannel writes the last channel of the user.
<1>EnterPlain.
    ASSUME MemTyped(mem), logOpen, NEW c \in Clients, NEW ch, handleEnter(c, ch)
    PROVE  PlainWrite
  <2>. USE <1>EnterPlain
  <2> DEFINE e == UserEntry(who[c], [last |-> ch])
  <2>1. Store(mem, Put(e) \o Put(e), 2) /\ pending' = pending
    BY DEF handleEnter
  <2>2. IsPlain(e)
    BY DEF IsPlain, IsEntry, UserEntry, UserFields
  <2>. HIDE DEF e
  <2>3. Writes(<<e>> \o <<e>>) /\ mem' = mem
    BY <2>1, StoreWrites DEF Put
  <2>. QED BY <2>1, <2>2, <2>3, PlainOne DEF PlainWrite
\* handleUserList changes neither bans nor password.
<1>UserListPlain.
    ASSUME MemTyped(mem), logOpen, NEW us, NEW name, handleUserList(us, name)
    PROVE  PlainWrite
  <2>. USE <1>UserListPlain
  <2> DEFINE s == [mem EXCEPT !.users = Listed(us, name), !.tree = ListedTree(us, name)]
             es == ListTx(us, name)
  <2>1. us \subseteq DOMAIN mem.users /\ Store(s, es, 0) /\ pending' = pending
    BY ListStores DEF MemTyped
  <2>2. IsFiniteSet(us)
    BY <2>1, FS_Subset DEF MemTyped, UsersOK
  <2>3. PlainTx(es)
    BY <2>2, ListEntries
  <2>4. Writes(es) /\ mem' = s
    <3>. HIDE DEF s, es
    <3>. QED BY <2>1, StoreWrites
  <2>5. /\ DOMAIN s = MemFields /\ s.users = Listed(us, name) /\ s.tree = ListedTree(us, name)
        /\ s.nextChan = mem.nextChan /\ s.bans = mem.bans /\ s.cfg = mem.cfg
    BY DEF MemTyped, MemFields
  <2>6. UsersOK(Listed(us, name))
    <3>1. IsFiniteSet(DOMAIN mem.users \ us)
      BY FS_Difference DEF MemTyped, UsersOK
    <3>. QED BY <3>1 DEF Listed, Restrict, UsersOK, MemTyped
  <2>7. DOMAIN ListedTree(us, name) = DOMAIN mem.tree
    BY DEF ListedTree, ForgetUsers
  <2>8. MemTyped(s)
    <3>. HIDE DEF s
    <3>. QED BY <2>5, <2>6, <2>7 DEF MemTyped
  <2>. HIDE DEF s, es
  <2>. QED BY <2>1, <2>3, <2>4, <2>5, <2>8 DEF PlainWrite
\* A server with another tree.
<1>TreeTyped.
    ASSUME MemTyped(mem), NEW t, DOMAIN t \subseteq DOMAIN mem.tree
    PROVE  LET s == [mem EXCEPT !.tree = t]
           IN /\ MemTyped(s) /\ s.tree = t
              /\ \A f \in MemFields \ {"tree"} : s[f] = mem[f]
  <2>. USE <1>TreeTyped
  <2> DEFINE s == [mem EXCEPT !.tree = t]
  <2>1. /\ DOMAIN s = MemFields /\ s.tree = t /\ s.users = mem.users /\ s.nextChan = mem.nextChan
        /\ \A f \in MemFields \ {"tree"} : s[f] = mem[f]
    BY DEF MemTyped, MemFields
  <2>2. MemTyped(s)
    <3>. HIDE DEF s
    <3>. QED BY <2>1 DEF MemTyped
  <2>. QED BY <2>1, <2>2
\* It writes the new channel, or the creator's last channel, or nothing.
<1>CreatePlain.
    ASSUME MemTyped(mem), logOpen, NEW a \in Clients, NEW p, NEW name, NEW temp, handleChannelCreate(a, p, name, temp)
    PROVE  PlainWrite
  <2>. USE <1>CreatePlain
  <2> DEFINE c == mem.nextChan
             t == WithCreated(a, p, name, temp)
             s == [mem EXCEPT !.tree = t, !.nextChan = c + 1]
             es == CreateTx(a, p, name, temp)
  <2>1. Store(s, es, Len(es)) /\ pending' = pending
    BY CreateStores
  <2>2. c \in Nat
    BY DEF MemTyped
  <2>3. PlainTx(es)
    <3>1. IsPlain(ChannelEntry(c, [name |-> name, parent |-> p]))
      <4>1. c \in Nat
        BY <2>2
      <4>. HIDE DEF c
      <4>. QED BY <4>1 DEF IsPlain, IsEntry, ChannelEntry, FrozenFields
    <3>2. IsPlain(UserEntry(who[a], [last |-> c]))
      BY DEF IsPlain, IsEntry, UserEntry, UserFields
    <3>. QED BY <3>1, <3>2, PlainOne, PlainNone DEF CreateTx
  <2>4. Writes(es) /\ mem' = s
    <3>. HIDE DEF s, es
    <3>. QED BY <2>1, StoreWrites
  <2>5. DOMAIN t = DOMAIN mem.tree \cup {c}
    BY DEF WithCreated, AddChild, AddChannel, With
  <2>6. /\ DOMAIN s = MemFields /\ s.tree = t /\ s.nextChan = c + 1
        /\ s.users = mem.users /\ s.bans = mem.bans /\ s.cfg = mem.cfg
    <3>. HIDE DEF t, c
    <3>. QED BY DEF MemTyped, MemFields
  <2>7. c + 1 \in Nat /\ DOMAIN t \subseteq 0..(c + 1) - 1
    <3>1. DOMAIN mem.tree \subseteq 0..c - 1
      BY DEF MemTyped
    <3>. HIDE DEF t, c
    <3>. QED BY <2>2, <2>5, <3>1, SMTT(30)
  <2>8. MemTyped(s)
    <3>1. s.nextChan \in Nat /\ DOMAIN s.tree \subseteq 0..s.nextChan - 1
      <4>. HIDE DEF s, t, c
      <4>. QED BY <2>6, <2>7
    <3>. HIDE DEF s, t, c
    <3>. QED BY <2>6, <3>1 DEF MemTyped
  <2>. HIDE DEF s, es, t, c
  <2>. QED BY <2>1, <2>3, <2>4, <2>6, <2>8 DEF PlainWrite
\* An edit neither makes nor removes a channel.
<1>EditDomain.
    ASSUME NEW t, NEW c, NEW e
    PROVE  DOMAIN Edited(t, c, e) = DOMAIN t
  BY <1>EditDomain DEF Edited, AddChild, RemoveChild, LinkChannels, UnlinkChannels
\* An edit writes the entry of a channel, unless that is temporary.
<1>EditPlain.
    ASSUME MemTyped(mem), logOpen, NEW c \in Chans, NEW e, handleChannelEdit(c, e)
    PROVE  PlainWrite
  <2>. USE <1>EditPlain
  <2> DEFINE t == Edited(mem.tree, c, e)
             s == [mem EXCEPT !.tree = t]
             es == EditTx(c, e)
  <2>1. Store(s, es, Len(es)) /\ pending' = pending
    BY EditStores
  <2>2. c \in Nat
    BY SMTT(30) DEF Chans
  <2>3. PlainTx(es)
    BY <2>2, FrozenEdit, PlainOne, PlainNone DEF EditTx
  <2>4. Writes(es) /\ mem' = s
    <3>. HIDE DEF s, es
    <3>. QED BY <2>1, StoreWrites
  <2>5. MemTyped(s) /\ \A f \in MemFields \ {"tree"} : s[f] = mem[f]
    <3>1. DOMAIN t \subseteq DOMAIN mem.tree
      BY <1>EditDomain
    <3>. HIDE DEF t
    <3>. QED BY <3>1, <1>TreeTyped
  <2>6. s.bans = mem.bans /\ s.cfg = mem.cfg
    <3>. HIDE DEF s
    <3>. QED BY <2>5 DEF MemFields
  <2>. HIDE DEF s, es
  <2>. QED BY <2>1, <2>3, <2>4, <2>5, <2>6 DEF PlainWrite
\* A removal writes the removal, unless the channel is temporary.
<1>RemovePlain.
    ASSUME MemTyped(mem), logOpen, NEW c \in Chans, handleChannelRemove(c)
    PROVE  PlainWrite
  <2>. USE <1>RemovePlain
  <2> DEFINE t == Removed(c)
             s == [mem EXCEPT !.tree = t]
             es == RemoveTx(c)
  <2>1. Store(s, es, Len(es)) /\ pending' = pending
    BY RemoveStores
  <2>3. PlainTx(es)
    <3>1. IsPlain([kind |-> "ChannelRemove", id |-> c])
      BY DEF IsPlain, IsEntry
    <3>. QED BY <3>1, PlainOne, PlainNone DEF RemoveTx
  <2>4. Writes(es) /\ mem' = s
    <3>. HIDE DEF s, es
    <3>. QED BY <2>1, StoreWrites
  <2>5. MemTyped(s) /\ \A f \in MemFields \ {"tree"} : s[f] = mem[f]
    <3>1. DOMAIN t \subseteq DOMAIN mem.tree
      BY DEF Removed, RemoveChannel
    <3>. HIDE DEF t
    <3>. QED BY <3>1, <1>TreeTyped
  <2>6. s.bans = mem.bans /\ s.cfg = mem.cfg
    <3>. HIDE DEF s
    <3>. QED BY <2>5 DEF MemFields
  <2>. HIDE DEF s, es
  <2>. QED BY <2>1, <2>3, <2>4, <2>5, <2>6 DEF PlainWrite
\* handleAclMessage writes one entry of the channel.
<1>AclPlain.
    ASSUME MemTyped(mem), logOpen, NEW a, NEW c \in Chans, NEW acls, NEW groups, handleAcl(a, c, acls, groups)
    PROVE  PlainWrite
  <2>. USE <1>AclPlain
  <2> DEFINE ch == Given(a, c, acls, groups)
             t == [mem.tree EXCEPT ![c] = ch]
             s == [mem EXCEPT !.tree = t]
             e == ChannelEntry(c, FreezeACLs(ch))
  <2>1. Store(s, <<e>>, 1) /\ pending' = pending
    BY AclStores DEF MemTyped
  <2>3. IsPlain(e)
    <3>1. DOMAIN FreezeACLs(ch) \subseteq FrozenFields
      BY DEF FreezeACLs, Restrict, FrozenFields
    <3>. HIDE DEF ch
    <3>. QED BY <3>1, SMTT(30) DEF IsPlain, IsEntry, ChannelEntry, Chans
  <2>4. Writes(<<e>>) /\ mem' = s
    <3>. HIDE DEF s, e
    <3>. QED BY <2>1, StoreWrites
  <2>5. MemTyped(s) /\ \A f \in MemFields \ {"tree"} : s[f] = mem[f]
    <3>1. DOMAIN t \subseteq DOMAIN mem.tree
      OBVIOUS
    <3>. HIDE DEF t
    <3>. QED BY <3>1, <1>TreeTyped
  <2>6. s.bans = mem.bans /\ s.cfg = mem.cfg
    <3>. HIDE DEF s
    <3>. QED BY <2>5 DEF MemFields
  <2>. HIDE DEF s, e
  <2>. QED BY <2>1, <2>3, <2>4, <2>5, <2>6, PlainOne DEF PlainWrite
\* A handler that writes neither bans nor the password keeps it.
<1>PlainStep.
    ASSUME FreezerInv, PlainWrite
    PROVE  FreezerInv'
  <2>. USE <1>PlainStep
  <2>1. PICK es : PlainTx(es) /\ Writes(es)
    BY DEF PlainWrite
  <2>2. IsTx(es) /\ \A ls : IsLoad(ls) => ReplayAll(ls, es).bans = ls.bans
    BY <2>1, PlainReplay
  <2>3. /\ main # NoFile /\ LoadLog' = ReplayAll(LoadLog, es)
        /\ \A ls : RunLog(log', ls) = ReplayAll(RunLog(log, ls), es)
    BY <2>1, <2>2, LogStep
  <2>4. \A ls : IsLoad(ls) => IsLoad(RunLog(log, ls))
    BY LoadLogIs DEF FreezerInv
  <2>5. \A ls : IsLoad(ls) => RunLog(log', ls).bans = RunLog(log, ls).bans
    BY <2>2, <2>3, <2>4
  <2>6. KeepsBans(log')
    BY <2>5 DEF KeepsBans, FreezerInv, BansInv
  <2>7. LoadLog'.bans = mem'.bans
    <3>1. IsLoad(LoadLog) /\ LoadLog.bans = mem.bans
      BY <2>1, <2>3, LoadLogIs DEF FreezerInv, BansInv, Writes
    <3>. QED BY <2>2, <2>3, <3>1 DEF PlainWrite
  <2>8. pending' # NoCfg => mem'.cfg = pending'
    BY DEF PlainWrite, FreezerInv, ProcInv
  <2>. QED BY <2>1, <2>2, <2>6, <2>7, <2>8, WritesStep DEF PlainWrite
<1>1. MemTyped(mem)
  BY DEF FreezerInv, FilesInv
<1>2. logOpen
  <2>1. Handles
    BY DEF PlainHandler, handleRegister, handleBlob, handleEnter, handleUserList, handleChannelCreate,
                 handleChannelEdit, handleChannelRemove, handleAcl, Store
  <2>. QED BY <2>1 DEF Handles, FreezerInv, ProcInv
<1>3. PlainWrite
  BY <1>1, <1>2, <1>RegisterPlain, <1>BlobPlain, <1>EnterPlain, <1>UserListPlain, <1>CreatePlain, <1>EditPlain, <1>RemovePlain, <1>AclPlain
     DEF PlainHandler
<1>. QED BY <1>3, <1>PlainStep

\* The kinds of step.
Ends == Dies /\ UNCHANGED <<main, dir>> /\ \A ls : RunLog(log', ls) = RunLog(log, ls)
Prepares == freezeClose \/ startListens \/ startFails \/ stopFreezes
SetsBans == \E bans : /\ Writes(<<BanEntry(bans)>>) /\ mem' = [mem EXCEPT !.bans = bans]
                      /\ UNCHANGED <<pending, who, histVars>>

\* Every step keeps the invariant, and is one of a few kinds.
LEMMA StepKinds ==
    ASSUME FreezerInv, Next
    PROVE  /\ FreezerInv'
           /\ \/ Ends \/ Boot \/ Prepares \/ freezeWrite \/ freezeRename \/ openRemove \/ openCreate
              \/ UpdateConfig \/ PlainHandler \/ SetsBans
              \/ \E v \in Passwords : setConfigPassword(v)
\* The process ends, at any point; a write that failed may have left a torn
\* end, which a load skips or refuses.
<1>DiesStep.
    ASSUME FreezerInv, Dies, UNCHANGED <<main, dir>>, NEW torn,
           log' = log \/ (log # NoFile /\ log' = [log EXCEPT !.torn = torn])
    PROVE  FreezerInv' /\ \A ls : RunLog(log', ls) = RunLog(log, ls)
  <2>. USE <1>DiesStep
  <2>1. log' = NoFile <=> log = NoFile
    <3>1. log # NoFile => DOMAIN log = {"entries", "torn"}
      BY DEF FreezerInv, FilesInv, IsLog
    <3>2. DOMAIN NoFile = {"kind"} /\ "kind" \notin {"entries", "torn"}
      BY DEF NoFile
    <3>. QED BY <3>1, <3>2
  <2>2. log # NoFile => IsLog(log') /\ log'.entries = log.entries
    BY DEF FreezerInv, FilesInv, IsLog
  <2>3. \A ls : RunLog(log', ls) = RunLog(log, ls)
    BY <2>1, <2>2 DEF RunLog
  <2>4. ProcInv'
    BY <2>1 DEF FreezerInv, ProcInv, Dies
  <2>5. FilesInv'
    BY <2>1, <2>2, FreshTyped DEF FreezerInv, FilesInv, Dies
  <2>6. BansInv'
    <3>1. KeepsBans(log')
      BY <2>3 DEF KeepsBans, FreezerInv, BansInv
    <3>. QED BY <3>1 DEF BansInv, Dies
  <2>. QED BY <2>3, <2>4, <2>5, <2>6 DEF FreezerInv
\* Closing the log, opening listeners and the order to stop leave the files.
<1>CloseStep.
    ASSUME FreezerInv, freezeClose \/ startListens \/ startFails \/ stopFreezes
    PROVE  FreezerInv'
  <2>. USE <1>CloseStep
  <2>1. UNCHANGED <<main, log, dir, mem, frozen, pending>>
    BY DEF freezeClose, startListens, startFails, stopFreezes
  <2>2. ProcInv'
    BY DEF freezeClose, startListens, startFails, stopFreezes, FreezerInv, ProcInv
  <2>3. FilesInv'
    <3>1. SnapshotOf(main)' <=> SnapshotOf(main)
      BY <2>1 DEF SnapshotOf
    <3>2. fz' # "rename" /\ (fz' \in {"start", "remove", "create"} => fz \in {"start", "remove", "create"})
      BY DEF freezeClose, startListens, startFails, stopFreezes
    <3>. QED BY <2>1, <3>1, <3>2 DEF FreezerInv, FilesInv
  <2>4. BansInv'
    <3>1. LoadLog' = LoadLog
      BY <2>1 DEF LoadLog
    <3>2. up # "off"
      BY DEF freezeClose, startListens, startFails, stopFreezes, FreezerInv, ProcInv
    <3>. QED BY <2>1, <3>1, <3>2 DEF FreezerInv, BansInv
  <2>. QED BY <2>2, <2>3, <2>4 DEF FreezerInv
\* The temporary file is a snapshot of the server.
<1>WriteStep.
    ASSUME FreezerInv, freezeWrite
    PROVE  FreezerInv'
  <2>. USE <1>WriteStep
  <2>1. UNCHANGED <<main, log, dir, up, logOpen, mem, pending>> /\ fz = "write" /\ fz' = "rename" /\ frozen' = Freeze(mem)
    BY DEF freezeWrite
  <2>2. ProcInv'
    BY <2>1 DEF FreezerInv, ProcInv
  <2>3. FilesInv'
    <3>1. MemTyped(mem)
      BY DEF FreezerInv, FilesInv
    <3>2. IsSnapshot(frozen') /\ SnapshotOf(frozen')
      BY <2>1, <3>1, FreezeIsSnapshot DEF SnapshotOf
    <3>3. SnapshotOf(frozen)'
      BY <2>1, <3>2 DEF SnapshotOf
    <3>. QED BY <2>1, <3>2, <3>3 DEF FreezerInv, FilesInv
  <2>4. BansInv'
    <3>1. LoadLog' = LoadLog
      BY <2>1 DEF LoadLog
    <3>. QED BY <2>1, <3>1 DEF FreezerInv, BansInv
  <2>. QED BY <2>2, <2>3, <2>4 DEF FreezerInv
\* The rename: main.fz is new and log.fz is still the old one, which does
\* not bring bans of the past back.
<1>RenameStep.
    ASSUME FreezerInv, freezeRename
    PROVE  FreezerInv'
  <2>. USE <1>RenameStep
  <2>1. /\ UNCHANGED <<log, dir, up, logOpen, mem, pending>> /\ fz = "rename" /\ main' = frozen
        /\ fz' = IF up = "boot" THEN "start" ELSE "remove"
    BY DEF freezeRename
  <2>2. IsSnapshot(frozen) /\ SnapshotOf(frozen)
    BY <2>1 DEF FreezerInv, FilesInv
  <2>3. main' # NoFile
    BY <2>1, <2>2, LogFile
  <2>4. ProcInv'
    BY <2>1, <2>3 DEF FreezerInv, ProcInv
  <2>5. FilesInv'
    <3>1. SnapshotOf(main)'
      BY <2>1, <2>2 DEF SnapshotOf
    <3>2. fz' # "rename"
      BY <2>1
    <3>. QED BY <2>1, <2>2, <3>1, <3>2 DEF FreezerInv, FilesInv
  <2>6. BansInv'
    <3>1. up # "off"
      BY <2>1 DEF FreezerInv, ProcInv
    <3>2. LoadLog' = RunLog(log, LoadSnapshot(frozen))
      BY <2>1 DEF LoadLog, RunLog
    <3>3. IsLoad(LoadSnapshot(frozen)) /\ LoadSnapshot(frozen).bans = mem.bans
      BY <2>2, SnapshotLoad DEF SnapshotOf
    <3>4. RunLog(log, LoadSnapshot(frozen)).bans = mem.bans
      <4>1. CASE main = NoFile
        <5>1. log = NoFile
          BY <4>1 DEF FreezerInv, ProcInv
        <5>. QED BY <3>3, <5>1 DEF RunLog
      <4>2. CASE main # NoFile
        <5>1. IsLoad(LoadSnapshot(main)) /\ LoadLog = RunLog(log, LoadSnapshot(main)) /\ LoadLog.bans = mem.bans
          BY <3>1, <4>2, LoadLogIs DEF FreezerInv, BansInv
        <5>. QED BY <3>3, <5>1 DEF FreezerInv, BansInv, KeepsBans
      <4>. QED BY <4>1, <4>2
    <3>. QED BY <2>1, <2>3, <3>1, <3>2, <3>4 DEF FreezerInv, BansInv
  <2>. QED BY <2>4, <2>5, <2>6 DEF FreezerInv
\* openFreezeLog removes the log only when main.fz is a snapshot of the
\* server.
<1>RemoveStep.
    ASSUME FreezerInv, openRemove
    PROVE  FreezerInv'
  <2>. USE <1>RemoveStep
  <2>1. UNCHANGED <<main, dir, up, logOpen, mem, pending>> /\ fz = "remove" /\ fz' = "create" /\ log' = NoFile
    BY DEF openRemove
  <2>2. main # NoFile /\ IsSnapshot(main) /\ SnapshotOf(main)
    BY <2>1 DEF FreezerInv, FilesInv, ProcInv
  <2>3. ProcInv'
    BY <2>1 DEF FreezerInv, ProcInv
  <2>4. FilesInv'
    <3>1. SnapshotOf(main)'
      BY <2>1, <2>2 DEF SnapshotOf
    <3>. QED BY <2>1, <2>2, <3>1 DEF FreezerInv, FilesInv
  <2>5. BansInv'
    <3>1. LoadLog' = LoadSnapshot(main)
      BY <2>1 DEF LoadLog
    <3>2. LoadSnapshot(main).bans = mem.bans
      BY <2>2, SnapshotLoad DEF SnapshotOf
    <3>3. KeepsBans(log')
      BY <2>1 DEF KeepsBans, RunLog
    <3>. QED BY <2>1, <2>2, <3>1, <3>2, <3>3 DEF BansInv
  <2>. QED BY <2>3, <2>4, <2>5 DEF FreezerInv
\* A write of the whole list of bans keeps it.
<1>BansStep.
    ASSUME FreezerInv, NEW bans, Writes(<<BanEntry(bans)>>), mem' = [mem EXCEPT !.bans = bans], pending' = pending
    PROVE  FreezerInv'
  <2>. USE <1>BansStep
  <2> DEFINE e == BanEntry(bans)
             es == <<e>>
  <2>1. IsEntry(e) /\ e.kind = "BanList" /\ e.bans = bans
    BY DEF IsEntry, BanEntry
  <2>2. IsTx(es) /\ \A ls : ReplayAll(ls, es) = Replay(ls, e)
    <3>. HIDE DEF e
    <3>. QED BY <2>1, OneTx, ReplayOne
  <2>3. Writes(es)
    OBVIOUS
  <2>. HIDE DEF e, es
  <2>4. /\ main # NoFile /\ LoadLog' = Replay(LoadLog, e)
        /\ \A ls : RunLog(log', ls) = Replay(RunLog(log, ls), e)
    BY <2>2, <2>3, LogStep
  <2>5. \A ls : IsLoad(ls) => Replay(ls, e).bans = bans
    BY <2>1, ReplayPlain
  <2>6. \A ls : IsLoad(ls) => RunLog(log', ls).bans = bans
    BY <2>4, <2>5, LoadLogIs DEF FreezerInv
  <2>7. KeepsBans(log')
    BY <2>6 DEF KeepsBans
  <2>8. /\ MemTyped(mem) /\ DOMAIN mem' = MemFields /\ mem'.bans = bans /\ mem'.cfg = mem.cfg
        /\ mem'.users = mem.users /\ mem'.tree = mem.tree /\ mem'.nextChan = mem.nextChan
    BY DEF FreezerInv, FilesInv, MemTyped, MemFields
  <2>9. MemTyped(mem')
    BY <2>8 DEF MemTyped
  <2>10. LoadLog'.bans = mem'.bans
    BY <2>4, <2>5, <2>8, LoadLogIs DEF FreezerInv
  <2>11. pending' # NoCfg => mem'.cfg = pending'
    BY <2>8 DEF FreezerInv, ProcInv
  <2>. QED BY <2>2, <2>3, <2>7, <2>9, <2>10, <2>11, WritesStep
\* setConfigPassword: until then it is pending.
<1>SetConfigStep.
    ASSUME FreezerInv, NEW v \in Passwords, setConfigPassword(v)
    PROVE  FreezerInv'
  <2>. USE <1>SetConfigStep
  <2>1. /\ UNCHANGED <<main, log, dir, up, fz, logOpen, frozen>> /\ up = "run"
        /\ mem' = [mem EXCEPT !.cfg = v] /\ pending' = v
    BY DEF setConfigPassword, procVars
  <2>2. v # NoCfg
    BY FreezerAssumption
  <2>3. MemTyped(mem)
    BY DEF FreezerInv, FilesInv
  <2>4. /\ DOMAIN mem' = MemFields /\ mem'.cfg = v /\ mem'.bans = mem.bans
        /\ mem'.users = mem.users /\ mem'.tree = mem.tree /\ mem'.nextChan = mem.nextChan
    BY <2>1, <2>3 DEF MemTyped, MemFields
  <2>5. MemTyped(mem')
    BY <2>3, <2>4 DEF MemTyped
  <2>6. ProcInv'
    BY <2>1, <2>4 DEF FreezerInv, ProcInv
  <2>7. FilesInv'
    <3>1. \A m : SnapshotOf(m) => SnapshotOf(m)'
      BY <2>1, <2>2, <2>4 DEF SnapshotOf
    <3>2. SnapshotOf(main) => SnapshotOf(main)'
      BY <2>1, <2>2, <2>4 DEF SnapshotOf
    <3>3. SnapshotOf(frozen) => SnapshotOf(frozen)'
      BY <2>1, <2>2, <2>4 DEF SnapshotOf
    <3>. QED BY <2>1, <2>5, <3>2, <3>3 DEF FreezerInv, FilesInv
  <2>8. BansInv'
    <3>1. LoadLog' = LoadLog
      BY <2>1 DEF LoadLog
    <3>. QED BY <2>1, <2>4, <3>1 DEF FreezerInv, BansInv
  <2>. QED BY <2>6, <2>7, <2>8 DEF FreezerInv
\* RemoveExpiredBans, in an accept loop: bans that have expired are written
\* while the log is open, and the process ends if it is closed.
<1>ExpireStep.
    ASSUME FreezerInv, RemoveExpiredBans
    PROVE  /\ FreezerInv'
           /\ ~logOpen => Dies /\ UNCHANGED <<main, dir, log>>
           /\ logOpen => /\ \E bans : Writes(<<BanEntry(bans)>>) /\ mem' = [mem EXCEPT !.bans = bans]
                         /\ UNCHANGED <<pending, who>>
  <2>. USE <1>ExpireStep
  <2> DEFINE left == mem.bans \ Expirable
  <2>1. CASE logOpen
    <3>1. /\ mem' = [mem EXCEPT !.bans = left] /\ pending' = pending /\ who' = who
          /\ log' = [log EXCEPT !.entries = Append(@, BanEntry(left))]
          /\ UNCHANGED <<main, dir, procVars, frozen>> /\ up \in {"run", "stop"}
      BY <2>1 DEF RemoveExpiredBans, BanEntry
    <3>2. IsLog(log)
      BY <2>1 DEF FreezerInv, ProcInv, FilesInv
    <3>. HIDE DEF left
    <3>3. Append(log.entries, BanEntry(left)) = log.entries \o <<BanEntry(left)>>
      <4>1. PICK S : log.entries \in Seq(S)
        BY <3>2 DEF IsLog, IsTx
      <4> DEFINE e == BanEntry(left)
      <4>2. log.entries \in Seq(S \cup {e}) /\ e \in S \cup {e}
        BY <4>1, SMTT(30)
      <4>. HIDE DEF e
      <4>3. Append(log.entries, e) = log.entries \o <<e>>
        BY <4>2, SMTT(30)
      <4>. QED BY <4>3 DEF e
    <3>4. Writes(<<BanEntry(left)>>)
      BY <2>1, <3>1, <3>3 DEF Writes
    <3>5. FreezerInv'
      BY <3>1, <3>4, <1>BansStep
    <3>. QED BY <2>1, <3>1, <3>4, <3>5
  <2>2. CASE ~logOpen
    <3>1. Dies /\ UNCHANGED <<main, dir, log>>
      BY <2>2 DEF RemoveExpiredBans
    <3>2. FreezerInv'
      BY <3>1, <1>DiesStep
    <3>. QED BY <2>2, <3>1, <3>2
  <2>. QED BY <2>1, <2>2
\* A write to the log fails: the process ends and no entry is added.
<1>FailsStep.
    ASSUME FreezerInv, NEW torn, PutFails(torn)
    PROVE  FreezerInv' /\ Dies /\ (\A ls : RunLog(log', ls) = RunLog(log, ls)) /\ UNCHANGED <<main, dir>>
  <2>. USE <1>FailsStep
  <2>1. Dies /\ UNCHANGED <<main, dir>> /\ log' = [log EXCEPT !.torn = torn] /\ up = "run" /\ fz = "done"
    BY DEF PutFails, Handles
  <2>2. log # NoFile
    BY <2>1 DEF FreezerInv, ProcInv
  <2>. QED BY <2>1, <2>2, <1>DiesStep
\* handleBanListMessage.
<1>BanListStep.
    ASSUME FreezerInv, NEW bans, handleBanList(bans)
    PROVE  /\ FreezerInv' /\ Writes(<<BanEntry(bans)>>) /\ mem' = [mem EXCEPT !.bans = bans]
           /\ UNCHANGED <<pending, who, histVars>>
  <2>. USE <1>BanListStep
  <2> DEFINE s == [mem EXCEPT !.bans = bans]
             es == <<BanEntry(bans)>>
  <2>1. Store(s, es, 1) /\ UNCHANGED <<pending, who, histVars>>
    BY DEF handleBanList, Put, BanEntry
  <2>2. logOpen
    BY <2>1 DEF Store, Handles, FreezerInv, ProcInv
  <2>3. Writes(es) /\ mem' = s
    <3>. HIDE DEF s, es
    <3>. QED BY <2>1, <2>2, StoreWrites
  <2>. QED BY <2>1, <2>3, <1>BansStep
<1>1. CASE FreezeStep
  BY <1>1, <1>CloseStep, <1>WriteStep, <1>RenameStep, <1>RemoveStep, CreateStep DEF FreezeStep, Prepares
<1>2. CASE ProcessStep
  <2>1. CASE Crash \/ stopExits
    <3>1. Dies /\ UNCHANGED <<main, dir, log>>
      BY <2>1 DEF Crash, stopExits
    <3>. QED BY <3>1, <1>DiesStep DEF Ends
  <2>. QED BY <1>2, <2>1, BootStep, <1>CloseStep DEF ProcessStep, Prepares
<1>3. CASE HandlerStep
  <2>1. CASE \E torn \in {"no", "size", "body"} : PutFails(torn)
    BY <2>1, <1>FailsStep DEF Ends
  <2>2. CASE UpdateConfig
    BY <2>2, ConfigStep
  <2>3. CASE \E bans \in SUBSET Bans : handleBanList(bans)
    BY <2>3, <1>BanListStep DEF SetsBans
  <2>4. CASE PlainHandler
    BY <2>4, PlainHandlers
  <2>. QED BY <1>3, <2>1, <2>2, <2>3, <2>4 DEF HandlerStep, PlainHandler
<1>4. CASE RemoveExpiredBans
  <2>1. UNCHANGED histVars
    BY <1>4 DEF RemoveExpiredBans, histVars
  <2>2. CASE logOpen
    BY <1>4, <2>1, <2>2, <1>ExpireStep DEF SetsBans
  <2>3. CASE ~logOpen
    BY <1>4, <2>3, <1>ExpireStep, <1>DiesStep DEF Ends
  <2>. QED BY <2>2, <2>3
<1>5. CASE \E v \in Passwords : setConfigPassword(v)
  BY <1>5, <1>SetConfigStep
<1>. QED BY <1>1, <1>2, <1>3, <1>4, <1>5 DEF Next

\* The invariant holds when the first process starts.
LEMMA InitStep ==
    ASSUME Init
    PROVE  FreezerInv /\ (main # NoFile => LoadLog.bans = {})
\* The server that a clean stop has left in the files.
<1>UsedTyped. MemTyped(Used) /\ Used.bans = {}
  <2> DEFINE two == AddChannel(AddChannel(Fresh.tree, 1, NewChannel("a")), 2, NewChannel("b"))
             tree == LinkChannels(AddChild(AddChild(two, Root, 1), Root, 2), 1, 2)
             user == [NewUser("ann") EXCEPT !.cert = CHOOSE c \in Clients : TRUE]
             users == [u \in {1} |-> user]
  <2>1. Used = [Fresh EXCEPT !.tree = tree, !.users = users, !.nextChan = 3, !.nextUser = 2]
    BY DEF Used
  <2>2. DOMAIN tree = {0, 1, 2}
    <3>1. DOMAIN Fresh.tree = {0}
      BY DEF Fresh, Root
    <3>2. DOMAIN two = {0, 1, 2}
      BY <3>1 DEF AddChannel, With
    <3>. HIDE DEF two
    <3>. QED BY <3>2 DEF LinkChannels, AddChild
  <2>3. UsersOK(users)
    <3>1. DOMAIN user = UserFields
      BY DEF NewUser, UserFields
    <3>2. IsFiniteSet({1})
      BY FS_Singleton
    <3>. HIDE DEF user
    <3>. QED BY <3>1, <3>2 DEF UsersOK
  <2>. HIDE DEF tree, users
  <2>4. DOMAIN Fresh = MemFields /\ Fresh.bans = {}
    BY DEF Fresh, MemFields
  <2>5. DOMAIN Used = MemFields /\ Used.tree = tree /\ Used.users = users /\ Used.nextChan = 3 /\ Used.bans = {}
    BY <2>1, <2>4 DEF MemFields
  <2>. QED BY <2>2, <2>3, <2>5, SMTT(30) DEF MemTyped
<1>1. /\ up = "off" /\ fz = "done" /\ logOpen = FALSE /\ mem = Fresh /\ pending = NoCfg
      /\ \/ dir = FALSE /\ main = NoFile /\ log = NoFile
         \/ dir = TRUE /\ main = Freeze(Used) /\ log = NewLog
  BY DEF Init
<1>2. IsSnapshot(Freeze(Used)) /\ Freeze(Used).bans = {}
  BY <1>UsedTyped, FreezeIsSnapshot
<1>3. IsLog(NewLog) /\ \A ls : RunLog(NewLog, ls) = ls
  BY LogFile
<1>4. main = NoFile => log = NoFile
  BY <1>1, <1>2, LogFile
<1>5. ProcInv
  BY <1>1, <1>4 DEF ProcInv
<1>6. FilesInv
  BY <1>1, <1>2, <1>3, FreshTyped DEF FilesInv
<1>7. \A ls : RunLog(log, ls) = ls
  BY <1>1, <1>3 DEF RunLog
<1>8. BansInv
  BY <1>1, <1>7 DEF BansInv, KeepsBans
<1>9. main # NoFile => LoadLog.bans = {}
  <2>1. LoadLog = LoadSnapshot(main)
    BY <1>7 DEF LoadLog, RunLog
  <2>. QED BY <1>1, <1>2, <2>1, SnapshotLoad
<1>. QED BY <1>5, <1>6, <1>8, <1>9 DEF FreezerInv

\* It holds while nothing happens.
LEMMA StutterStep ==
    ASSUME FreezerInv, UNCHANGED vars
    PROVE  FreezerInv'
<1>1. UNCHANGED <<main, log, dir, up, fz, logOpen, mem, frozen, pending>>
  BY DEF vars, procVars
<1>2. LoadLog' = LoadLog
  BY <1>1 DEF LoadLog
<1>3. SnapshotOf(main)' = SnapshotOf(main) /\ SnapshotOf(frozen)' = SnapshotOf(frozen)
  BY <1>1 DEF SnapshotOf
<1>. QED BY <1>1, <1>2, <1>3 DEF FreezerInv, ProcInv, FilesInv, BansInv

\* The steps of FreezeToFile leave files that NewServerFromFrozen can read,
\* and these always say what the bans are: main.fz with the log beside it,
\* whichever of the two is the newer.
THEOREM FreezerInvariant == Spec => []FreezerInv
<1>1. Init => FreezerInv
  BY InitStep
<1>2. FreezerInv /\ [Next]_vars => FreezerInv'
  BY StepKinds, StutterStep
<1>. QED BY <1>1, <1>2, PTL DEF Spec

-----------------------------------------------------------------------------
\* The bans are a store that only the running server changes: a crash at any
\* point, a start and a snapshot keep them (RemoveExpiredBans,
\* handleBanListMessage, FreezeToFile).
THEOREM BansAreDurableTheorem == Spec => BansAreDurable
<1> DEFINE value == IF up = "off" THEN (IF main = NoFile THEN {} ELSE LoadLog.bans) ELSE mem.bans
           running == up \in {"run", "stop"}
<1>1. Init => BanStore!Init
  <2>. SUFFICES ASSUME Init PROVE value = {} /\ running = FALSE
    BY DEF BanStore!Init
  <2>1. up = "off"
    BY DEF Init
  <2>. QED BY <2>1, InitStep, SMTT(30)
<1>2. FreezerInv /\ [Next]_vars => [BanStore!Update \/ BanStore!StartOrEnd]_<<value, running>>
  <2>. SUFFICES ASSUME FreezerInv, [Next]_vars
                PROVE  \/ running /\ running' /\ value' # value
                       \/ running' # running /\ value' = value
                       \/ value' = value /\ running' = running
    BY DEF BanStore!Update, BanStore!StartOrEnd
  <2>1. CASE UNCHANGED vars
    <3>1. LoadLog' = LoadLog /\ up' = up /\ main' = main /\ mem' = mem
      BY <2>1 DEF vars, procVars, LoadLog
    <3>. QED BY <3>1
  <2>2. CASE Ends
    <3>1. LoadLog' = LoadLog /\ up' = "off" /\ main' = main
      <4>1. main' = main /\ up' = "off" /\ \A ls : RunLog(log', ls) = RunLog(log, ls)
        BY <2>2 DEF Ends, Dies
      <4>2. LoadLog' = RunLog(log', LoadSnapshot(main')) /\ LoadLog = RunLog(log, LoadSnapshot(main))
        BY DEF LoadLog, RunLog
      <4>. QED BY <4>1, <4>2
    <3>2. value' = value
      BY <3>1 DEF FreezerInv, BansInv
    <3>. QED BY <3>2
  <2>3. CASE Boot
    <3>1. running = FALSE /\ running' = FALSE /\ up = "off" /\ up' = "boot"
      BY <2>3, SMTT(30) DEF Boot
    <3>2. (IF main = NoFile THEN mem'.bans = {} ELSE LoadLog'.bans = mem'.bans) /\ LoadLog' = LoadLog /\ main' = main
      <4>1. FreezerInv'
        BY <2>3, BootStep
      <4>2. main' = main /\ log' = log
        BY <2>3 DEF Boot
      <4>. QED BY <3>1, <4>1, <4>2 DEF FreezerInv, BansInv, LoadLog
    <3>. QED BY <3>1, <3>2
  <2>4. CASE Prepares \/ freezeWrite \/ freezeRename \/ openRemove \/ openCreate
    <3>1. mem' = mem /\ up # "off" /\ up' # "off"
      BY <2>4 DEF Prepares, freezeClose, startListens, startFails, stopFreezes, freezeWrite, freezeRename, openRemove,
                  openCreate, FreezerInv, ProcInv
    <3>. QED BY <3>1
  <2>5. CASE UpdateConfig \/ PlainHandler \/ SetsBans \/ \E v \in Passwords : setConfigPassword(v)
    <3>1. running /\ running'
      <4>1. CASE UpdateConfig
        BY <4>1, ConfigStep DEF Writes, procVars
      <4>2. CASE PlainHandler
        BY <4>2, PlainHandlers DEF PlainWrite, Writes, procVars
      <4>3. CASE SetsBans
        BY <4>3 DEF SetsBans, Writes, procVars
      <4>4. CASE \E v \in Passwords : setConfigPassword(v)
        BY <4>4 DEF setConfigPassword, procVars
      <4>. QED BY <2>5, <4>1, <4>2, <4>3, <4>4
    <3>. QED BY <3>1
  <2>. QED BY <2>1, <2>2, <2>3, <2>4, <2>5, StepKinds
<1>3. BanStore!Spec <=> BanStore!Init /\ [][BanStore!Update \/ BanStore!StartOrEnd]_<<value, running>>
  BY DEF BanStore!Spec
<1>. QED BY <1>1, <1>2, <1>3, FreezerInvariant, PTL DEF Spec, BansAreDurable

-----------------------------------------------------------------------------
\* The users.

\* The fields that a load has to bring back.
Kept == {"name", "cert", "blob"}

\* Both have the same users, in these fields.
SameUsers(ls, k) ==
    /\ \A u : u \in DOMAIN k.users <=> u \in DOMAIN ls.users
    /\ \A u \in DOMAIN ls.users : \A f \in Kept : k.users[u][f] = ls.users[u][f]

\* An entry that says nothing of them.
UserQuiet(e) == \/ e.kind \notin {"User", "UserRemove"}
                \/ e.kind = "User" /\ DOMAIN e.set \cap Kept = {}

\* User u of the load is the one of us.
SameUser(ls, us, u) ==
    /\ u \in DOMAIN ls.users <=> u \in DOMAIN us
    /\ u \in DOMAIN us => \A f \in Kept : ls.users[u][f] = us[u][f]

\* Nothing in the log l is older than user u of us.
KeepsUser(l, us, u) ==
    \A ls : IsLoad(ls) =>
        IF u \in DOMAIN us
        THEN u \in DOMAIN ls.users =>
                 /\ u \in DOMAIN RunLog(l, ls).users
                 /\ \A f \in Kept : ls.users[u][f] = us[u][f] => RunLog(l, ls).users[u][f] = us[u][f]
        ELSE u \notin DOMAIN ls.users => u \notin DOMAIN RunLog(l, ls).users

\* The entries es carry the change of user u from us to vs.
CarriesUser(es, us, vs, u) ==
    \A ls : IsLoad(ls) =>
        LET k == ReplayAll(ls, es)
        IN /\ u \in DOMAIN vs /\ (u \in DOMAIN us => u \in DOMAIN ls.users) => u \in DOMAIN k.users
           /\ u \notin DOMAIN vs /\ (u \notin DOMAIN us => u \notin DOMAIN ls.users) => u \notin DOMAIN k.users
           /\ u \in DOMAIN vs /\ (u \in DOMAIN us => u \in DOMAIN ls.users) =>
                \A f \in Kept : \/ k.users[u][f] = vs[u][f]
                                \/ /\ u \in DOMAIN us /\ u \in DOMAIN ls.users
                                   /\ k.users[u][f] = ls.users[u][f] /\ vs[u][f] = us[u][f]

\* An entry of a channel, of bans or of the last channel of a user says
\* nothing of the users' names, certificates and blobs.
LEMMA QuietUserEntry ==
    ASSUME NEW ls, IsLoad(ls), NEW e, IsEntry(e), UserQuiet(e)
    PROVE  SameUsers(ls, Replay(ls, e))
<1> DEFINE k == Replay(ls, e)
<1>1. UsersEffect(ls, e, k)
  BY ReplayUsers
<1>. HIDE DEF k
<1>2. \A u : SetsUser(ls, e, u) => u \in DOMAIN ls.users /\ DOMAIN e.set \cap Kept = {}
  BY DEF SetsUser, UserQuiet, Kept
<1>3. e.kind # "UserRemove"
  BY DEF UserQuiet
<1>4. \A u : u \in DOMAIN k.users <=> u \in DOMAIN ls.users
  BY <1>1, <1>2, <1>3 DEF UsersEffect
<1>5. \A f \in Kept : f \in UserFields
  BY DEF Kept, UserFields
<1>6. \A u \in DOMAIN ls.users : \A f \in Kept : k.users[u][f] = ls.users[u][f]
  BY <1>1, <1>2, <1>4, <1>5 DEF UsersEffect
<1>7. SameUsers(ls, k)
  BY <1>4, <1>6 DEF SameUsers
<1>. QED BY <1>7 DEF k

\* Nor does a transaction of such entries.
LEMMA QuietUsers ==
    ASSUME NEW S, NEW es \in Seq(S), \A e \in S : IsEntry(e) /\ UserQuiet(e), NEW ls, IsLoad(ls)
    PROVE  SameUsers(ls, ReplayAll(ls, es))
<1>2. PICK f : Chain(ls, es, f) /\ ReplayAll(ls, es) = f[Len(es)]
  BY ReplayChain
<1>3. /\ Len(es) \in Nat /\ f[0] = ls
      /\ \A i \in 0..Len(es) - 1 : i + 1 \in 1..Len(es) /\ f[i + 1] = Replay(f[i], es[i + 1])
  BY <1>2, ChainSteps, SMTT(30)
<1> DEFINE n == Len(es)
           T == {i \in 0..n : IsLoad(f[i]) /\ SameUsers(ls, f[i])}
<1>4. 0 \in T
  <2>1. SameUsers(ls, ls)
    BY DEF SameUsers
  <2>. QED BY <1>3, <2>1, SMTT(30)
<1>5. ASSUME NEW i \in 0..n - 1, i \in T PROVE i + 1 \in T
  <2>1. i + 1 \in 0..n /\ i + 1 \in 1..n
    BY <1>3, SMTT(30)
  <2>2. es[i + 1] \in S /\ IsEntry(es[i + 1]) /\ UserQuiet(es[i + 1])
    BY <2>1, SMTT(30)
  <2>3. IsLoad(f[i]) /\ f[i + 1] = Replay(f[i], es[i + 1]) /\ SameUsers(ls, f[i])
    BY <1>3, <1>5
  <2>4. IsLoad(f[i + 1]) /\ SameUsers(f[i], f[i + 1])
    BY <2>2, <2>3, ReplayIsLoad, QuietUserEntry
  <2>5. SameUsers(ls, f[i + 1])
    BY <2>3, <2>4 DEF SameUsers
  <2>. QED BY <2>1, <2>4, <2>5
<1>6. \A i \in 0..n : i \in T
  <2>. HIDE DEF T, n
  <2>1. n \in Nat
    BY <1>3 DEF n
  <2>. QED BY <1>4, <1>5, <2>1, Positions
<1>. QED BY <1>2, <1>3, <1>6, SMTT(30)

\* They carry no change.
QuietForUsers(es) == \E S : es \in Seq(S) /\ \A e \in S : IsEntry(e) /\ UserQuiet(e)

\* Such a transaction carries a change that leaves the users.
LEMMA QuietCarries ==
    ASSUME NEW es, QuietForUsers(es), NEW us, NEW u
    PROVE  CarriesUser(es, us, us, u)
<1>1. \A ls : IsLoad(ls) => SameUsers(ls, ReplayAll(ls, es))
  BY QuietUsers DEF QuietForUsers
<1>. QED BY <1>1 DEF CarriesUser, SameUsers

\* Transactions of one entry, or the same twice.
LEMMA QuietShapes ==
    ASSUME NEW e, IsEntry(e), UserQuiet(e)
    PROVE  QuietForUsers(<<e>>) /\ QuietForUsers(<<e>> \o <<e>>)
<1> DEFINE es == <<e>>
<1>1. es \in Seq({e}) /\ es \o es \in Seq({e}) /\ \A x \in {e} : IsEntry(x) /\ UserQuiet(x)
  BY SMTT(30)
<1>. HIDE DEF es
<1>2. QuietForUsers(es) /\ QuietForUsers(es \o es)
  BY <1>1, SMTT(30) DEF QuietForUsers
<1>. QED BY <1>2 DEF es

-----------------------------------------------------------------------------
\* A user list.

\* Where the user list has got to: done is the set of users it has been
\* through, from the load ls to k.
ListedSoFar(ls, k, done, name) ==
    /\ \A u : u \notin done =>
          /\ u \in DOMAIN k.users <=> u \in DOMAIN ls.users
          /\ u \in DOMAIN ls.users => \A f \in Kept : k.users[u][f] = ls.users[u][f]
    /\ \A u \in done :
          IF name = "" THEN u \notin DOMAIN k.users
          ELSE /\ u \in DOMAIN k.users /\ k.users[u].name = name
               /\ u \in DOMAIN ls.users => \A f \in Kept \ {"name"} : k.users[u][f] = ls.users[u][f]

-----------------------------------------------------------------------------
\* The handlers and the users.

\* A handler writes what it does to the users, to those that are not in unlogged.
UsersWrite ==
    /\ unlogged \subseteq unlogged'
    /\ \E es : /\ PlainTx(es) /\ Writes(es)
               /\ \A u : <<"user", u>> \notin unlogged' => CarriesUser(es, mem.users, mem'.users, u)

\* Each of the handlers writes what it changes of the users.
LEMMA HandlersUsers ==
    ASSUME FreezerInv, PlainHandler
    PROVE  UsersWrite
\* A change for which nothing is written.
<1>QuietNone. QuietForUsers(<<>>)
  <2> DEFINE es == <<>>
  <2>1. es \in Seq({}) /\ \A x \in {} : IsEntry(x) /\ UserQuiet(x)
    BY SMTT(30)
  <2>. HIDE DEF es
  <2>2. QuietForUsers(es)
    BY <2>1, SMTT(30) DEF QuietForUsers
  <2>. QED BY <2>2 DEF es
\* handleUserList's entries are replayed one by one.
<1>ListStep.
    ASSUME NEW ls, NEW k, NEW done, NEW name, NEW v, IsLoad(k), ListedSoFar(ls, k, done, name)
    PROVE  ListedSoFar(ls, Replay(k, ListEntry(v, name)), done \cup {v}, name)
  <2>. USE <1>ListStep
  <2> DEFINE e == ListEntry(v, name)
             m == Replay(k, e)
  <2>1. IsEntry(e)
    BY DEF ListEntry, IsEntry, UserEntry, UserFields
  <2>2. UsersEffect(k, e, m)
    BY <2>1, ReplayUsers
  <2>3. \A f \in Kept : f \in UserFields
    BY DEF Kept, UserFields
  <2>4. CASE name = ""
    <3>1. e.kind = "UserRemove" /\ e.id = v /\ \A u : ~SetsUser(k, e, u)
      BY <2>4 DEF ListEntry, SetsUser
    <3>. HIDE DEF e, m
    <3>2. \A u : u \in DOMAIN m.users <=> u \in DOMAIN k.users /\ u # v
      BY <2>2, <3>1 DEF UsersEffect
    <3>3. \A u \in DOMAIN m.users : \A f \in Kept : m.users[u][f] = k.users[u][f]
      BY <2>2, <2>3, <3>1, <3>2 DEF UsersEffect
    <3>4. ListedSoFar(ls, m, done \cup {v}, name)
      BY <2>4, <3>2, <3>3 DEF ListedSoFar
    <3>. QED BY <3>4 DEF m, e
  <2>5. CASE name # ""
    <3>1. /\ e.kind = "User" /\ DOMAIN e.set = {"name"} /\ e.set["name"] = name
          /\ \A u : SetsUser(k, e, u) <=> u = v
      BY <2>5 DEF ListEntry, SetsUser, UserEntry
    <3>. HIDE DEF e, m
    <3>2. \A u : u \in DOMAIN m.users <=> u \in DOMAIN k.users \/ u = v
      BY <2>2, <3>1 DEF UsersEffect
    <3>3. \A u \in DOMAIN k.users : u # v => \A f \in Kept : m.users[u][f] = k.users[u][f]
      BY <2>2, <2>3, <3>1, <3>2 DEF UsersEffect
    <3>4. m.users[v]["name"] = name /\ (v \in DOMAIN k.users => \A f \in Kept \ {"name"} : m.users[v][f] = k.users[v][f])
      BY <2>2, <2>3, <3>1, <3>2 DEF UsersEffect, UserFields
    <3>5. ListedSoFar(ls, m, done \cup {v}, name)
      <4>1. ASSUME NEW u, u \notin done \cup {v}
            PROVE  /\ u \in DOMAIN m.users <=> u \in DOMAIN ls.users
                   /\ u \in DOMAIN ls.users => \A f \in Kept : m.users[u][f] = ls.users[u][f]
        BY <3>2, <3>3, <4>1 DEF ListedSoFar
      <4>2. ASSUME NEW u \in done \cup {v}
            PROVE  /\ u \in DOMAIN m.users /\ m.users[u].name = name
                   /\ u \in DOMAIN ls.users => \A f \in Kept \ {"name"} : m.users[u][f] = ls.users[u][f]
        <5>1. CASE u = v
          <6>1. u \in DOMAIN ls.users => u \in DOMAIN k.users
            BY <2>5, <5>1 DEF ListedSoFar
          <6>2. u \in DOMAIN ls.users => \A f \in Kept \ {"name"} : k.users[u][f] = ls.users[u][f]
            BY <2>5 DEF ListedSoFar
          <6>. QED BY <3>2, <3>4, <5>1, <6>1, <6>2
        <5>2. CASE u # v
          <6>1. u \in done
            BY <5>2
          <6>2. /\ u \in DOMAIN k.users /\ k.users[u].name = name
                /\ u \in DOMAIN ls.users => \A f \in Kept \ {"name"} : k.users[u][f] = ls.users[u][f]
            BY <2>5, <6>1 DEF ListedSoFar
          <6>3. "name" \in Kept
            BY DEF Kept
          <6>. QED BY <3>2, <3>3, <5>2, <6>2, <6>3
        <5>. QED BY <5>1, <5>2
      <4>. QED BY <2>5, <4>1, <4>2 DEF ListedSoFar
    <3>. QED BY <3>5 DEF m, e
  <2>. QED BY <2>4, <2>5
\* All of them, in whatever order a Go map gave the users.
<1>ListReplay.
    ASSUME NEW us, IsFiniteSet(us), NEW name, NEW ls, IsLoad(ls)
    PROVE  ListedSoFar(ls, ReplayAll(ls, ListTx(us, name)), us, name)
  <2>. USE <1>ListReplay
  <2> DEFINE es == ListTx(us, name)
             n == Cardinality(us)
             q == UsersInOrder(us)
             S == {ListEntry(u, name) : u \in us}
  <2>1. n \in Nat /\ q \in [1..n -> us] /\ \A u \in us : \E i \in 1..n : q[i] = u
    BY InOrder
  <2>2. es \in Seq(S) /\ Len(es) = n /\ \A u \in us : IsPlain(ListEntry(u, name))
    BY ListEntries
  <2>3. \A i \in 1..n : es[i] = ListEntry(q[i], name)
    BY DEF ListTx
  <2>. HIDE DEF es, S, q, n
  <2>4. PICK f : Chain(ls, es, f) /\ ReplayAll(ls, es) = f[n]
    BY <2>2, ReplayChain
  <2>5. f[0] = ls /\ \A i \in 0..n - 1 : i + 1 \in 1..n /\ f[i + 1] = Replay(f[i], es[i + 1])
    BY <2>2, <2>4, ChainSteps, SMTT(30)
  <2> DEFINE done(i) == {q[j] : j \in 1..i}
             T == {i \in 0..n : IsLoad(f[i]) /\ ListedSoFar(ls, f[i], done(i), name)}
  <2>6. 0 \in T
    <3>1. done(0) = {}
      BY SMTT(30)
    <3>2. ListedSoFar(ls, ls, {}, name)
      BY DEF ListedSoFar
    <3>3. IsLoad(f[0]) /\ ListedSoFar(ls, f[0], done(0), name)
      BY <2>5, <3>1, <3>2
    <3>4. 0 \in 0..n
      BY <2>1, SMTT(30)
    <3>. HIDE DEF done
    <3>. QED BY <3>3, <3>4
  <2>7. ASSUME NEW i \in 0..n - 1, i \in T PROVE i + 1 \in T
    <3>1. i + 1 \in 0..n /\ i + 1 \in 1..n /\ i \in Nat
      BY <2>1, SMTT(30)
    <3>2. q[i + 1] \in us /\ es[i + 1] = ListEntry(q[i + 1], name)
      BY <2>1, <2>3, <3>1
    <3>3. IsLoad(f[i]) /\ ListedSoFar(ls, f[i], done(i), name) /\ f[i + 1] = Replay(f[i], es[i + 1])
      BY <2>5, <2>7
    <3>4. IsEntry(es[i + 1])
      BY <2>2, <3>2 DEF IsPlain
    <3>5. IsLoad(f[i + 1])
      BY <3>3, <3>4, ReplayIsLoad
    <3>6. done(i + 1) = done(i) \cup {q[i + 1]}
      <4>1. \A j : j \in 1..i + 1 <=> j \in 1..i \/ j = i + 1
        BY <3>1, SMTT(30)
      <4>. QED BY <4>1
    <3>7. ListedSoFar(ls, f[i + 1], done(i + 1), name)
      <4>. HIDE DEF done
      <4>1. ListedSoFar(ls, f[i + 1], done(i) \cup {q[i + 1]}, name)
        BY <3>2, <3>3, <1>ListStep, SMTT(30)
      <4>. QED BY <3>6, <4>1
    <3>. QED BY <3>1, <3>5, <3>7
  <2>8. \A i \in 0..n : i \in T
    <3>. HIDE DEF T
    <3>. QED BY <2>1, <2>6, <2>7, Positions
  <2>9. done(n) = us
    BY <2>1
  <2>10. n \in 0..n
    BY <2>1, SMTT(30)
  <2>. QED BY <2>4, <2>8, <2>9, <2>10 DEF es
\* RegisterClient: a user that is written has all of its fields.
<1>RegisterUsers.
    ASSUME MemTyped(mem), logOpen, NEW a \in Clients, NEW t \in Clients, handleRegister(a, t)
    PROVE  UsersWrite
  <2>. USE <1>RegisterUsers
  <2> DEFINE u == mem.nextUser
             user == [NewUser(t) EXCEPT !.cert = t]
             s == [mem EXCEPT !.users = With(@, u, user), !.nextUser = @ + 1]
             e == UserEntry(u, user)
             es == IF a = t THEN Put(e) ELSE <<>>
  <2>1. Store(s, es, IF a = t THEN 1 ELSE 0)
    BY DEF handleRegister
  <2>2. unlogged' = IF a = t THEN unlogged ELSE unlogged \cup {<<"user", u>>}
    BY DEF handleRegister
  <2>3. Writes(es) /\ mem' = s
    <3>. HIDE DEF s, es
    <3>. QED BY <2>1, StoreWrites
  <2>4. DOMAIN user = UserFields
    BY DEF NewUser, UserFields
  <2>5. mem'.users = With(mem.users, u, user)
    <3>. HIDE DEF u, user, es
    <3>. QED BY <2>3 DEF MemTyped, MemFields
  <2> DEFINE us == mem.users
             vs == With(us, u, user)
  <2>6. DOMAIN vs = DOMAIN us \cup {u} /\ vs[u] = user /\ \A v \in DOMAIN us : v # u => vs[v] = us[v]
    BY DEF With
  <2>7. \A f \in Kept : f \in UserFields
    BY DEF Kept, UserFields
  <2>8. CASE a = t
    <3>1. /\ e.kind = "User" /\ e.id = u /\ e.set = user
      BY DEF UserEntry
    <3>2. IsEntry(e) /\ IsPlain(e)
      BY <2>4, <3>1 DEF IsEntry, IsPlain
    <3>3. "name" \in DOMAIN user
      BY <2>4 DEF UserFields
    <3>. HIDE DEF e, user, vs
    <3>4. ASSUME NEW v PROVE CarriesUser(<<e>>, us, vs, v)
      <4>1. ASSUME NEW ls, IsLoad(ls)
            PROVE  LET k == ReplayAll(ls, <<e>>)
                   IN /\ v \in DOMAIN vs /\ (v \in DOMAIN us => v \in DOMAIN ls.users) => v \in DOMAIN k.users
                      /\ v \notin DOMAIN vs /\ (v \notin DOMAIN us => v \notin DOMAIN ls.users) => v \notin DOMAIN k.users
                      /\ v \in DOMAIN vs /\ (v \in DOMAIN us => v \in DOMAIN ls.users) =>
                           \A f \in Kept : \/ k.users[v][f] = vs[v][f]
                                           \/ /\ v \in DOMAIN us /\ v \in DOMAIN ls.users
                                              /\ k.users[v][f] = ls.users[v][f] /\ vs[v][f] = us[v][f]
        <5> DEFINE k == ReplayAll(ls, <<e>>)
        <5>1. UsersEffect(ls, e, k)
          BY <3>2, <4>1, ReplayOne, ReplayUsers
        <5>. HIDE DEF k
        <5>2. SetsUser(ls, e, v) <=> v = u
          BY <3>1, <3>3 DEF SetsUser
        <5>3. v \in DOMAIN k.users <=> v \in DOMAIN ls.users \/ v = u
          BY <3>1, <5>1, <5>2 DEF UsersEffect
        <5>4. v = u => \A f \in Kept : k.users[v][f] = user[f]
          BY <2>4, <2>7, <3>1, <5>1, <5>2, <5>3 DEF UsersEffect
        <5>5. v # u /\ v \in DOMAIN ls.users => \A f \in Kept : k.users[v][f] = ls.users[v][f]
          BY <2>7, <5>1, <5>2, <5>3 DEF UsersEffect
        <5>6. /\ v \in DOMAIN vs /\ (v \in DOMAIN us => v \in DOMAIN ls.users) => v \in DOMAIN k.users
              /\ v \notin DOMAIN vs /\ (v \notin DOMAIN us => v \notin DOMAIN ls.users) => v \notin DOMAIN k.users
          BY <2>6, <5>3
        <5>7. v \in DOMAIN vs /\ (v \in DOMAIN us => v \in DOMAIN ls.users) =>
                  \A f \in Kept : \/ k.users[v][f] = vs[v][f]
                                  \/ /\ v \in DOMAIN us /\ v \in DOMAIN ls.users
                                     /\ k.users[v][f] = ls.users[v][f] /\ vs[v][f] = us[v][f]
          BY <2>6, <5>3, <5>4, <5>5
        <5>. QED BY <5>6, <5>7 DEF k
      <4>. QED BY <4>1 DEF CarriesUser
    <3>5. PlainTx(<<e>>) /\ Writes(<<e>>)
      BY <2>3, <2>8, <3>2, PlainOne DEF Put
    <3>6. unlogged \subseteq unlogged'
      BY <2>2, <2>8
    <3>7. mem'.users = vs
      BY <2>5 DEF vs
    <3>. QED BY <3>4, <3>5, <3>6, <3>7 DEF UsersWrite
  <2>9. CASE a # t
    <3>1. PlainTx(<<>>) /\ Writes(<<>>)
      BY <2>3, <2>9, PlainNone
    <3>2. unlogged \subseteq unlogged' /\ <<"user", u>> \in unlogged'
      BY <2>2, <2>9
    <3>. HIDE DEF vs, user, u
    <3>3. ASSUME NEW v, v # u PROVE CarriesUser(<<>>, us, vs, v)
      BY <2>6, <3>3, ReplayNothing DEF CarriesUser
    <3>4. \A v : <<"user", v>> \notin unlogged' => CarriesUser(<<>>, us, vs, v)
      BY <3>2, <3>3
    <3>5. mem'.users = vs
      BY <2>5 DEF vs
    <3>. QED BY <3>1, <3>2, <3>4, <3>5 DEF UsersWrite
  <2>. QED BY <2>8, <2>9
\* A texture or comment: one field, of a user that may not be there.
<1>BlobUsers.
    ASSUME MemTyped(mem), logOpen, NEW c \in Clients, NEW b \in Blobs, handleBlob(c, b)
    PROVE  UsersWrite
  <2>. USE <1>BlobUsers
  <2> DEFINE w == who[c]
             us == mem.users
             vs == IF w \in DOMAIN us THEN [us EXCEPT ![w].blob = b] ELSE us
             s == IF w \in DOMAIN mem.users THEN [mem EXCEPT !.users[w].blob = b] ELSE mem
             e == UserEntry(w, [blob |-> b])
  <2>1. Store(s, Put(e), 1) /\ unlogged' = unlogged
    BY DEF handleBlob, histVars
  <2>2. Writes(<<e>>) /\ mem' = s
    <3>. HIDE DEF s, e
    <3>. QED BY <2>1, StoreWrites DEF Put
  <2>3. mem'.users = vs
    BY <2>2 DEF MemTyped, MemFields
  <2>4. /\ DOMAIN vs = DOMAIN us
        /\ \A v \in DOMAIN us : v # w => vs[v] = us[v]
        /\ w \in DOMAIN us => vs[w]["blob"] = b /\ \A f \in Kept \ {"blob"} : vs[w][f] = us[w][f]
    BY DEF MemTyped, UsersOK, UserFields, Kept
  <2>5. e.kind = "User" /\ e.id = w /\ DOMAIN e.set = {"blob"} /\ e.set["blob"] = b
    BY DEF UserEntry
  <2>6. IsPlain(e) /\ IsEntry(e)
    BY DEF IsPlain, IsEntry, UserEntry, UserFields
  <2>7. \A f \in Kept : f \in UserFields
    BY DEF Kept, UserFields
  <2>. HIDE DEF s, e, vs
  <2>8. ASSUME NEW v PROVE CarriesUser(<<e>>, us, vs, v)
    <3>1. ASSUME NEW ls, IsLoad(ls)
          PROVE  LET k == ReplayAll(ls, <<e>>)
                 IN /\ v \in DOMAIN vs /\ (v \in DOMAIN us => v \in DOMAIN ls.users) => v \in DOMAIN k.users
                    /\ v \notin DOMAIN vs /\ (v \notin DOMAIN us => v \notin DOMAIN ls.users) => v \notin DOMAIN k.users
                    /\ v \in DOMAIN vs /\ (v \in DOMAIN us => v \in DOMAIN ls.users) =>
                         \A f \in Kept : \/ k.users[v][f] = vs[v][f]
                                         \/ /\ v \in DOMAIN us /\ v \in DOMAIN ls.users
                                            /\ k.users[v][f] = ls.users[v][f] /\ vs[v][f] = us[v][f]
      <4> DEFINE k == ReplayAll(ls, <<e>>)
      <4>1. UsersEffect(ls, e, k)
        BY <2>6, <3>1, ReplayOne, ReplayUsers
      <4>. HIDE DEF k
      <4>2. SetsUser(ls, e, v) <=> v = w /\ v \in DOMAIN ls.users
        BY <2>5 DEF SetsUser
      <4>3. v \in DOMAIN k.users <=> v \in DOMAIN ls.users
        BY <2>5, <4>1, <4>2 DEF UsersEffect
      <4>4. v \in DOMAIN ls.users => \A f \in Kept : k.users[v][f] = IF v = w /\ f = "blob" THEN b ELSE ls.users[v][f]
        BY <2>5, <2>7, <4>1, <4>2, <4>3 DEF UsersEffect
      <4>5. v \in DOMAIN vs /\ (v \in DOMAIN us => v \in DOMAIN ls.users) =>
                \A f \in Kept : \/ k.users[v][f] = vs[v][f]
                                \/ /\ v \in DOMAIN us /\ v \in DOMAIN ls.users
                                   /\ k.users[v][f] = ls.users[v][f] /\ vs[v][f] = us[v][f]
        <5>1. CASE v = w
          BY <2>4, <4>3, <4>4, <5>1
        <5>2. CASE v # w
          BY <2>4, <4>3, <4>4, <5>2
        <5>. QED BY <5>1, <5>2
      <4>. QED BY <2>4, <4>3, <4>5 DEF k
    <3>. QED BY <3>1 DEF CarriesUser
  <2>. QED BY <2>1, <2>2, <2>3, <2>6, <2>8, PlainOne DEF UsersWrite
\* A user list: every user of the list once, in some order.
<1>UserListUsers.
    ASSUME MemTyped(mem), logOpen, NEW us, NEW name, handleUserList(us, name)
    PROVE  UsersWrite
  <2>. USE <1>UserListUsers
  <2> DEFINE s == [mem EXCEPT !.users = Listed(us, name), !.tree = ListedTree(us, name)]
             es == ListTx(us, name)
             vs == mem.users
             ws == Listed(us, name)
  <2>1. us \subseteq DOMAIN vs /\ Store(s, es, 0) /\ unlogged' = unlogged
    BY ListStores DEF MemTyped, histVars
  <2>2. IsFiniteSet(us)
    BY <2>1, FS_Subset DEF MemTyped, UsersOK
  <2>3. PlainTx(es)
    BY <2>2, ListEntries
  <2>4. Writes(es) /\ mem' = s
    <3>. HIDE DEF s, es
    <3>. QED BY <2>1, StoreWrites
  <2>5. mem'.users = ws
    BY <2>4 DEF MemTyped, MemFields
  <2>6. \A u \in DOMAIN vs : DOMAIN vs[u] = UserFields
    BY DEF MemTyped, UsersOK
  <2>. HIDE DEF s, es
  <2>7. ASSUME NEW u PROVE CarriesUser(es, vs, ws, u)
    <3>1. ASSUME NEW ls, IsLoad(ls)
          PROVE  LET k == ReplayAll(ls, es)
                 IN /\ u \in DOMAIN ws /\ (u \in DOMAIN vs => u \in DOMAIN ls.users) => u \in DOMAIN k.users
                    /\ u \notin DOMAIN ws /\ (u \notin DOMAIN vs => u \notin DOMAIN ls.users) => u \notin DOMAIN k.users
                    /\ u \in DOMAIN ws /\ (u \in DOMAIN vs => u \in DOMAIN ls.users) =>
                         \A f \in Kept : \/ k.users[u][f] = ws[u][f]
                                         \/ /\ u \in DOMAIN vs /\ u \in DOMAIN ls.users
                                            /\ k.users[u][f] = ls.users[u][f] /\ ws[u][f] = vs[u][f]
      <4> DEFINE k == ReplayAll(ls, es)
      <4>1. ListedSoFar(ls, k, us, name)
        BY <2>2, <3>1, <1>ListReplay DEF es
      <4>. HIDE DEF k
      <4>2. CASE name = ""
        <5>1. DOMAIN ws = DOMAIN vs \ us /\ \A v \in DOMAIN vs \ us : ws[v] = vs[v]
          BY <4>2 DEF Listed, Restrict
        <5>. HIDE DEF ws
        <5>2. u \in us => u \notin DOMAIN k.users
          BY <4>1, <4>2 DEF ListedSoFar
        <5>3. u \notin us => /\ u \in DOMAIN k.users <=> u \in DOMAIN ls.users
                             /\ u \in DOMAIN ls.users => \A f \in Kept : k.users[u][f] = ls.users[u][f]
          BY <4>1 DEF ListedSoFar
        <5>4. /\ u \in DOMAIN ws /\ (u \in DOMAIN vs => u \in DOMAIN ls.users) => u \in DOMAIN k.users
              /\ u \notin DOMAIN ws /\ (u \notin DOMAIN vs => u \notin DOMAIN ls.users) => u \notin DOMAIN k.users
          BY <2>1, <5>1, <5>2, <5>3
        <5>5. u \in DOMAIN ws /\ (u \in DOMAIN vs => u \in DOMAIN ls.users) =>
                  \A f \in Kept : /\ u \in DOMAIN vs /\ u \in DOMAIN ls.users
                                  /\ k.users[u][f] = ls.users[u][f] /\ ws[u][f] = vs[u][f]
          BY <5>1, <5>3
        <5>. QED BY <5>4, <5>5 DEF k
      <4>3. CASE name # ""
        <5>1. /\ DOMAIN ws = DOMAIN vs /\ \A v \in DOMAIN vs \ us : ws[v] = vs[v]
              /\ \A v \in us : ws[v] = [vs[v] EXCEPT !.name = name]
          BY <2>1, <4>3 DEF Listed
        <5>2. u \in us => ws[u].name = name /\ \A f \in Kept \ {"name"} : ws[u][f] = vs[u][f]
          <6>1. ASSUME u \in us PROVE ws[u].name = name /\ \A f \in Kept \ {"name"} : ws[u][f] = vs[u][f]
            <7>. HIDE DEF ws
            <7>1. ws[u] = [vs[u] EXCEPT !.name = name] /\ DOMAIN vs[u] = UserFields
              BY <2>1, <2>6, <5>1, <6>1
            <7>. QED BY <7>1 DEF UserFields, Kept
          <6>. QED BY <6>1
        <5>. HIDE DEF ws
        <5>3. u \in us => /\ u \in DOMAIN k.users /\ k.users[u].name = name
                          /\ u \in DOMAIN ls.users => \A f \in Kept \ {"name"} : k.users[u][f] = ls.users[u][f]
          BY <4>1, <4>3 DEF ListedSoFar
        <5>4. u \notin us => /\ u \in DOMAIN k.users <=> u \in DOMAIN ls.users
                             /\ u \in DOMAIN ls.users => \A f \in Kept : k.users[u][f] = ls.users[u][f]
          BY <4>1 DEF ListedSoFar
        <5>5. /\ u \in DOMAIN ws /\ (u \in DOMAIN vs => u \in DOMAIN ls.users) => u \in DOMAIN k.users
              /\ u \notin DOMAIN ws /\ (u \notin DOMAIN vs => u \notin DOMAIN ls.users) => u \notin DOMAIN k.users
          BY <2>1, <5>1, <5>3, <5>4
        <5>6. u \in DOMAIN ws /\ (u \in DOMAIN vs => u \in DOMAIN ls.users) =>
                  \A f \in Kept : \/ k.users[u][f] = ws[u][f]
                                  \/ /\ u \in DOMAIN vs /\ u \in DOMAIN ls.users
                                     /\ k.users[u][f] = ls.users[u][f] /\ ws[u][f] = vs[u][f]
          <6>1. CASE u \in us
            BY <2>1, <5>2, <5>3, <6>1
          <6>2. CASE u \notin us
            BY <5>1, <5>4, <6>2
          <6>. QED BY <6>1, <6>2
        <5>. QED BY <5>5, <5>6 DEF k
      <4>. QED BY <4>2, <4>3
    <3>. QED BY <3>1 DEF CarriesUser
  <2>. QED BY <2>1, <2>3, <2>4, <2>5, <2>7 DEF UsersWrite
\* The handlers that leave the users as they are.
<1>QuietWrite.
    ASSUME NEW es, PlainTx(es), Writes(es), QuietForUsers(es), mem'.users = mem.users, unlogged \subseteq unlogged'
    PROVE  UsersWrite
  <2>. USE <1>QuietWrite
  <2>1. \A u : CarriesUser(es, mem.users, mem'.users, u)
    BY QuietCarries
  <2>. QED BY <2>1 DEF UsersWrite
\* userEnterChannel: the last channel is not one of the fields.
<1>EnterUsers.
    ASSUME MemTyped(mem), logOpen, NEW c \in Clients, NEW ch, handleEnter(c, ch)
    PROVE  UsersWrite
  <2>. USE <1>EnterUsers
  <2> DEFINE e == UserEntry(who[c], [last |-> ch])
  <2>1. Store(mem, Put(e) \o Put(e), 2) /\ unlogged' = unlogged
    BY DEF handleEnter, histVars
  <2>2. IsPlain(e) /\ IsEntry(e) /\ UserQuiet(e)
    BY DEF IsPlain, IsEntry, UserEntry, UserFields, UserQuiet, Kept
  <2>. HIDE DEF e
  <2>3. Writes(<<e>> \o <<e>>) /\ mem' = mem
    BY <2>1, StoreWrites DEF Put
  <2>4. PlainTx(<<e>> \o <<e>>) /\ QuietForUsers(<<e>> \o <<e>>)
    BY <2>2, PlainOne, QuietShapes
  <2>. QED BY <2>1, <2>3, <2>4, <1>QuietWrite
\* handleChannelStateMessage with a new channel.
<1>CreateUsers.
    ASSUME MemTyped(mem), logOpen, NEW a \in Clients, NEW p, NEW name, NEW temp, handleChannelCreate(a, p, name, temp)
    PROVE  UsersWrite
  <2>. USE <1>CreateUsers
  <2> DEFINE c == mem.nextChan
             t == WithCreated(a, p, name, temp)
             s == [mem EXCEPT !.tree = t, !.nextChan = c + 1]
             es == CreateTx(a, p, name, temp)
  <2>1. Store(s, es, Len(es)) /\ unlogged' = unlogged
    BY CreateStores
  <2>2. PlainTx(es) /\ QuietForUsers(es)
    <3>1. c \in Nat
      BY DEF MemTyped
    <3>2. \A x \in {"name", "parent"} : x \in FrozenFields
      BY DEF FrozenFields
    <3>3. IsPlain(ChannelEntry(c, [name |-> name, parent |-> p])) /\ UserQuiet(ChannelEntry(c, [name |-> name, parent |-> p]))
      BY <3>1, <3>2 DEF IsPlain, IsEntry, ChannelEntry, UserQuiet
    <3>4. IsPlain(UserEntry(who[a], [last |-> c])) /\ UserQuiet(UserEntry(who[a], [last |-> c]))
      BY DEF IsPlain, IsEntry, UserEntry, UserFields, UserQuiet, Kept
    <3>. QED BY <3>3, <3>4, PlainOne, PlainNone, QuietShapes, <1>QuietNone DEF CreateTx, IsPlain
  <2>3. Writes(es) /\ mem' = s
    <3>. HIDE DEF s, es
    <3>. QED BY <2>1, StoreWrites
  <2>4. mem'.users = mem.users
    <3>. HIDE DEF t, es
    <3>. QED BY <2>3 DEF MemTyped, MemFields
  <2>. HIDE DEF es
  <2>. QED BY <2>1, <2>2, <2>3, <2>4, <1>QuietWrite
\* handleChannelStateMessage with an old one.
<1>EditUsers.
    ASSUME MemTyped(mem), logOpen, NEW c \in Chans, NEW e, handleChannelEdit(c, e)
    PROVE  UsersWrite
  <2>. USE <1>EditUsers
  <2> DEFINE t == Edited(mem.tree, c, e)
             s == [mem EXCEPT !.tree = t]
             es == EditTx(c, e)
  <2>1. Store(s, es, Len(es)) /\ unlogged \subseteq unlogged'
    BY EditStores
  <2>2. c \in Nat
    BY SMTT(30) DEF Chans
  <2>3. PlainTx(es) /\ QuietForUsers(es)
    <3>1. IsPlain(UpdateFrozenChannel(t, c, e))
      BY <2>2, FrozenEdit
    <3>2. UserQuiet(UpdateFrozenChannel(t, c, e))
      BY DEF UserQuiet, UpdateFrozenChannel, ChannelEntry
    <3>. QED BY <3>1, <3>2, PlainOne, PlainNone, QuietShapes, <1>QuietNone DEF EditTx, IsPlain
  <2>4. Writes(es) /\ mem' = s
    <3>. HIDE DEF s, es
    <3>. QED BY <2>1, StoreWrites
  <2>5. mem'.users = mem.users
    <3>. HIDE DEF t, es
    <3>. QED BY <2>4 DEF MemTyped, MemFields
  <2>. HIDE DEF es
  <2>. QED BY <2>1, <2>3, <2>4, <2>5, <1>QuietWrite
\* handleChannelRemoveMessage.
<1>RemoveUsers.
    ASSUME MemTyped(mem), logOpen, NEW c \in Chans, handleChannelRemove(c)
    PROVE  UsersWrite
  <2>. USE <1>RemoveUsers
  <2> DEFINE t == Removed(c)
             s == [mem EXCEPT !.tree = t]
             es == RemoveTx(c)
  <2>1. Store(s, es, Len(es)) /\ unlogged \subseteq unlogged'
    BY RemoveStores
  <2>2. PlainTx(es) /\ QuietForUsers(es)
    <3>1. IsPlain([kind |-> "ChannelRemove", id |-> c]) /\ UserQuiet([kind |-> "ChannelRemove", id |-> c])
      BY DEF IsPlain, IsEntry, UserQuiet
    <3>. QED BY <3>1, PlainOne, PlainNone, QuietShapes, <1>QuietNone DEF RemoveTx, IsPlain
  <2>3. Writes(es) /\ mem' = s
    <3>. HIDE DEF s, es
    <3>. QED BY <2>1, StoreWrites
  <2>4. mem'.users = mem.users
    <3>. HIDE DEF t, es
    <3>. QED BY <2>3 DEF MemTyped, MemFields
  <2>. HIDE DEF es
  <2>. QED BY <2>1, <2>2, <2>3, <2>4, <1>QuietWrite
\* handleAclMessage.
<1>AclUsers.
    ASSUME MemTyped(mem), logOpen, NEW a, NEW c \in Chans, NEW acls, NEW groups, handleAcl(a, c, acls, groups)
    PROVE  UsersWrite
  <2>. USE <1>AclUsers
  <2> DEFINE ch == Given(a, c, acls, groups)
             t == [mem.tree EXCEPT ![c] = ch]
             s == [mem EXCEPT !.tree = t]
             e == ChannelEntry(c, FreezeACLs(ch))
  <2>1. Store(s, <<e>>, 1) /\ unlogged' = unlogged
    BY AclStores DEF MemTyped, histVars
  <2>2. IsPlain(e) /\ UserQuiet(e)
    <3>1. DOMAIN FreezeACLs(ch) \subseteq FrozenFields
      BY DEF FreezeACLs, Restrict, FrozenFields
    <3>2. c \in Nat
      BY SMTT(30) DEF Chans
    <3>. HIDE DEF ch
    <3>. QED BY <3>1, <3>2 DEF IsPlain, IsEntry, ChannelEntry, UserQuiet
  <2>3. Writes(<<e>>) /\ mem' = s
    <3>. HIDE DEF s, e
    <3>. QED BY <2>1, StoreWrites
  <2>4. mem'.users = mem.users
    <3>. HIDE DEF t, e
    <3>. QED BY <2>3 DEF MemTyped, MemFields
  <2>. HIDE DEF e
  <2>5. PlainTx(<<e>>) /\ QuietForUsers(<<e>>)
    BY <2>2, PlainOne, QuietShapes DEF IsPlain
  <2>. QED BY <2>1, <2>3, <2>4, <2>5, <1>QuietWrite
<1>1. MemTyped(mem)
  BY DEF FreezerInv, FilesInv
<1>2. logOpen
  <2>1. PlainWrite
    BY PlainHandlers
  <2>. QED BY <2>1 DEF PlainWrite, Writes
<1>. QED BY <1>1, <1>2, <1>RegisterUsers, <1>BlobUsers, <1>EnterUsers, <1>UserListUsers, <1>CreateUsers, <1>EditUsers, <1>RemoveUsers, <1>AclUsers
        DEF PlainHandler

-----------------------------------------------------------------------------
\* The steps of a running server, as far as users, password and channels go.

Running == up \in {"run", "stop"}

\* Nothing but a password in memory changes.
Silent ==
    /\ Running /\ UNCHANGED <<main, log, unlogged, temps>> /\ LoadLog' = LoadLog
    /\ \A f \in MemFields \ {"cfg"} : mem'[f] = mem[f]
    /\ pending' = NoCfg => pending = NoCfg /\ mem'.cfg = mem.cfg

\* A snapshot m of the server in memory becomes the file that is loaded, under
\* the old log or one that says nothing.
Snapshots(m) ==
    /\ IsSnapshot(m) /\ SnapshotOf(m)
    /\ LoadLog' = RunLog(log', LoadSnapshot(m))
    /\ UNCHANGED <<mem, pending, temps>>
    /\ unlogged' = unlogged \/ unlogged' = {}
    /\ \/ Running /\ log' = log /\ unlogged' = unlogged
       \/ \A ls : RunLog(log', ls) = ls

\* While the server runs a step is silent, a write to the log or part of a
\* snapshot.
LEMMA RunningSteps ==
    ASSUME FreezerInv, Next
    PROVE  \/ ~Running' \/ Silent \/ UpdateConfig \/ PlainHandler \/ SetsBans
           \/ \E m : Snapshots(m)
<1>1. \/ Ends \/ Boot \/ Prepares \/ freezeWrite \/ freezeRename \/ openRemove \/ openCreate
      \/ UpdateConfig \/ PlainHandler \/ SetsBans
      \/ \E v \in Passwords : setConfigPassword(v)
  BY StepKinds
<1>2. CASE Ends
  BY <1>2 DEF Ends, Dies, Running
<1>3. CASE Boot
  BY <1>3 DEF Boot, Running
<1>4. CASE Prepares \/ freezeWrite
  <2>1. UNCHANGED <<main, log, mem, pending, unlogged, temps>> /\ (Running' => Running)
    BY <1>4 DEF Prepares, freezeWrite, freezeClose, startListens, startFails, stopFreezes, histVars, Running
  <2>2. LoadLog' = LoadLog
    BY <2>1 DEF LoadLog
  <2>. QED BY <2>1, <2>2 DEF Silent
<1>5. CASE \E v \in Passwords : setConfigPassword(v)
  <2>1. PICK v \in Passwords : setConfigPassword(v)
    BY <1>5
  <2>2. UNCHANGED <<main, log, unlogged, temps>> /\ mem' = [mem EXCEPT !.cfg = v] /\ pending' = v /\ up = "run"
    BY <2>1 DEF setConfigPassword, histVars
  <2>3. DOMAIN mem = MemFields
    BY DEF FreezerInv, FilesInv, MemTyped
  <2>4. \A f \in MemFields \ {"cfg"} : mem'[f] = mem[f]
    BY <2>2, <2>3
  <2>5. pending' # NoCfg
    BY <2>2, FreezerAssumption
  <2>6. LoadLog' = LoadLog
    BY <2>2 DEF LoadLog
  <2>. QED BY <2>2, <2>4, <2>5, <2>6 DEF Silent, Running
<1>6. CASE freezeRename
  <2>1. UNCHANGED <<log, mem, pending, unlogged, temps, up>> /\ fz = "rename" /\ main' = frozen
    BY <1>6 DEF freezeRename, histVars
  <2>2. IsSnapshot(frozen) /\ SnapshotOf(frozen)
    BY <2>1 DEF FreezerInv, FilesInv
  <2>3. LoadLog' = RunLog(log', LoadSnapshot(frozen))
    BY <2>1 DEF LoadLog, RunLog
  <2>4. Running' = Running
    BY <2>1 DEF Running
  <2>. QED BY <2>1, <2>2, <2>3, <2>4 DEF Snapshots
<1>7. CASE openRemove
  <2>1. UNCHANGED <<main, mem, pending, unlogged, temps>> /\ fz = "remove" /\ log' = NoFile
    BY <1>7 DEF openRemove, histVars
  <2>2. IsSnapshot(main) /\ SnapshotOf(main)
    BY <2>1 DEF FreezerInv, FilesInv, ProcInv
  <2>3. LoadLog' = RunLog(log', LoadSnapshot(main)) /\ \A ls : RunLog(log', ls) = ls
    BY <2>1 DEF LoadLog, RunLog
  <2>. QED BY <2>1, <2>2, <2>3 DEF Snapshots
<1>8. CASE openCreate
  <2>1. UNCHANGED <<main, mem, pending, temps>> /\ unlogged' = {} /\ fz = "create" /\ log' = NewLog
    BY <1>8 DEF openCreate
  <2>2. IsSnapshot(main) /\ SnapshotOf(main)
    BY <2>1 DEF FreezerInv, FilesInv, ProcInv
  <2>3. LoadLog' = RunLog(log', LoadSnapshot(main))
    BY <2>1 DEF LoadLog, RunLog
  <2>4. \A ls : RunLog(log', ls) = ls
    BY <2>1, LogFile
  <2>. QED BY <2>1, <2>2, <2>3, <2>4 DEF Snapshots
<1>. QED BY <1>1, <1>2, <1>3, <1>4, <1>5, <1>6, <1>7, <1>8

\* The password, unless one is on its way to the handler.
KeepsCfg(l, v) == \A ls : IsLoad(ls) /\ ls.cfg = v => RunLog(l, ls).cfg = v
CfgInv == Running /\ pending = NoCfg => LoadLog.cfg = mem.cfg /\ KeepsCfg(log, mem.cfg)

\* The users, apart from those in unlogged.
UsersInv ==
    Running => \A u : <<"user", u>> \notin unlogged =>
                  SameUser(LoadLog, mem.users, u) /\ KeepsUser(log, mem.users, u)

\* What the entries of a transaction do to the log and to a load of it.
LEMMA TxStep ==
    ASSUME FreezerInv, NEW es, IsTx(es), Writes(es)
    PROVE  /\ Running
           /\ IsLoad(LoadLog) /\ LoadLog' = ReplayAll(LoadLog, es)
           /\ \A ls : IsLoad(ls) => IsLoad(RunLog(log, ls))
           /\ \A ls : RunLog(log', ls) = ReplayAll(RunLog(log, ls), es)
<1>1. main # NoFile /\ LoadLog' = ReplayAll(LoadLog, es) /\ \A ls : RunLog(log', ls) = ReplayAll(RunLog(log, ls), es)
  BY LogStep
<1>2. FilesInv
  BY DEF FreezerInv
<1>. QED BY <1>1, <1>2, LoadLogIs DEF Writes, Running

\* A new list of bans.
LEMMA BansTx ==
    ASSUME FreezerInv, SetsBans
    PROVE  /\ UNCHANGED <<pending, unlogged, temps>>
           /\ \A f \in MemFields \ {"bans"} : mem'[f] = mem[f]
           /\ \E bans : IsEntry(BanEntry(bans)) /\ IsTx(<<BanEntry(bans)>>) /\ Writes(<<BanEntry(bans)>>)
<1>1. PICK bans : Writes(<<BanEntry(bans)>>) /\ mem' = [mem EXCEPT !.bans = bans] /\ UNCHANGED <<pending, who, histVars>>
  BY DEF SetsBans
<1>2. IsEntry(BanEntry(bans))
  BY DEF IsEntry, BanEntry
<1>3. DOMAIN mem = MemFields
  BY DEF FreezerInv, FilesInv, MemTyped
<1>4. \A f \in MemFields \ {"bans"} : mem'[f] = mem[f]
  BY <1>1, <1>3
<1>5. UNCHANGED <<pending, unlogged, temps>>
  BY <1>1 DEF histVars
<1>. QED BY <1>1, <1>2, <1>4, <1>5, OneTx

\* The password that the handler has been told of.
LEMMA ConfigTx ==
    ASSUME FreezerInv, UpdateConfig
    PROVE  /\ UNCHANGED <<mem, unlogged, temps>> /\ pending' = NoCfg
           /\ \E e : /\ e.kind = "Config" /\ e.value = mem.cfg /\ IsEntry(e)
                     /\ IsTx(<<e>>) /\ Writes(<<e>>)
<1> DEFINE e == [kind |-> "Config", value |-> pending]
<1>1. Writes(<<e>>) /\ mem' = mem /\ pending' = NoCfg
  BY ConfigStep
<1>2. e.kind = "Config" /\ e.value = pending /\ IsEntry(e)
  BY DEF IsEntry
<1>3. pending # NoCfg /\ UNCHANGED <<unlogged, temps>>
  BY DEF UpdateConfig, histVars
<1>4. mem.cfg = pending
  BY <1>3 DEF FreezerInv, ProcInv
<1>. HIDE DEF e
<1>. QED BY <1>1, <1>2, <1>3, <1>4, OneTx

\* Every step keeps the password.
LEMMA CfgSteps ==
    ASSUME FreezerInv, CfgInv, Next
    PROVE  CfgInv'
<1>1. SUFFICES ASSUME Running', pending' = NoCfg PROVE LoadLog'.cfg = mem'.cfg /\ KeepsCfg(log', mem'.cfg)
  BY DEF CfgInv
<1>2. CASE Silent
  <2>1. log' = log /\ LoadLog' = LoadLog /\ mem'.cfg = mem.cfg /\ Running /\ pending = NoCfg
    BY <1>1, <1>2 DEF Silent
  <2>. QED BY <2>1 DEF CfgInv
<1>3. CASE UpdateConfig
  <2>1. PICK e : e.kind = "Config" /\ e.value = mem.cfg /\ IsEntry(e) /\ IsTx(<<e>>) /\ Writes(<<e>>)
    BY <1>3, ConfigTx
  <2>2. mem' = mem
    BY <1>3, ConfigTx
  <2>3. /\ IsLoad(LoadLog) /\ LoadLog' = ReplayAll(LoadLog, <<e>>)
        /\ \A ls : IsLoad(ls) => IsLoad(RunLog(log, ls))
        /\ \A ls : RunLog(log', ls) = ReplayAll(RunLog(log, ls), <<e>>)
    BY <2>1, TxStep
  <2>4. \A ls : IsLoad(ls) => ReplayAll(ls, <<e>>).cfg = mem.cfg
    BY <2>1, ReplayOne, ReplayPlain, SMTT(30)
  <2>. QED BY <2>2, <2>3, <2>4 DEF KeepsCfg
<1>4. CASE PlainHandler
  <2>1. PlainWrite
    BY <1>4, PlainHandlers
  <2>2. PICK es : PlainTx(es) /\ Writes(es)
    BY <2>1 DEF PlainWrite
  <2>3. mem'.cfg = mem.cfg /\ pending' = pending
    BY <2>1 DEF PlainWrite
  <2>4. IsTx(es) /\ \A ls : IsLoad(ls) => ReplayAll(ls, es).cfg = ls.cfg
    BY <2>2, PlainReplay
  <2>5. /\ IsLoad(LoadLog) /\ LoadLog' = ReplayAll(LoadLog, es) /\ Running
        /\ \A ls : IsLoad(ls) => IsLoad(RunLog(log, ls))
        /\ \A ls : RunLog(log', ls) = ReplayAll(RunLog(log, ls), es)
    BY <2>2, <2>4, TxStep
  <2>6. LoadLog.cfg = mem.cfg /\ KeepsCfg(log, mem.cfg)
    BY <1>1, <2>3, <2>5 DEF CfgInv
  <2>. QED BY <2>3, <2>4, <2>5, <2>6 DEF KeepsCfg
<1>5. CASE SetsBans
  <2>1. PICK bans : IsEntry(BanEntry(bans)) /\ IsTx(<<BanEntry(bans)>>) /\ Writes(<<BanEntry(bans)>>)
    BY <1>5, BansTx
  <2> DEFINE e == BanEntry(bans)
  <2>2. mem'.cfg = mem.cfg /\ pending' = pending
    BY <1>5, BansTx DEF MemFields
  <2>3. e.kind = "BanList"
    BY DEF BanEntry
  <2>. HIDE DEF e
  <2>4. IsEntry(e) /\ IsTx(<<e>>) /\ Writes(<<e>>)
    BY <2>1 DEF e
  <2>5. \A ls : IsLoad(ls) => ReplayAll(ls, <<e>>).cfg = ls.cfg
    BY <2>3, <2>4, ReplayOne, ReplayPlain, SMTT(30)
  <2>6. /\ IsLoad(LoadLog) /\ LoadLog' = ReplayAll(LoadLog, <<e>>) /\ Running
        /\ \A ls : IsLoad(ls) => IsLoad(RunLog(log, ls))
        /\ \A ls : RunLog(log', ls) = ReplayAll(RunLog(log, ls), <<e>>)
    BY <2>4, TxStep
  <2>7. LoadLog.cfg = mem.cfg /\ KeepsCfg(log, mem.cfg)
    BY <1>1, <2>2, <2>6 DEF CfgInv
  <2>. QED BY <2>2, <2>5, <2>6, <2>7 DEF KeepsCfg
<1>6. CASE \E m : Snapshots(m)
  <2>1. PICK m : Snapshots(m)
    BY <1>6
  <2>2. /\ LoadLog' = RunLog(log', LoadSnapshot(m)) /\ mem' = mem /\ pending' = pending
        /\ (Running /\ log' = log) \/ \A ls : RunLog(log', ls) = ls
        /\ m.cfg = mem.cfg /\ IsSnapshot(m)
    BY <1>1, <2>1 DEF Snapshots, SnapshotOf
  <2>3. KeepsCfg(log', mem.cfg)
    BY <1>1, <2>2 DEF CfgInv, KeepsCfg
  <2>4. IsLoad(LoadSnapshot(m)) /\ LoadSnapshot(m).cfg = mem.cfg
    BY <2>2, SnapshotLoad
  <2>. QED BY <2>2, <2>3, <2>4 DEF KeepsCfg
<1>. QED BY <1>1, <1>2, <1>3, <1>4, <1>5, <1>6, RunningSteps

\* Every step keeps the users.
LEMMA UsersSteps ==
    ASSUME FreezerInv, UsersInv, Next
    PROVE  UsersInv'
\* Then user u stays right, and nothing in the log is older.
<1>UserCarried.
    ASSUME NEW l, NEW k, NEW es, NEW us, NEW vs, NEW u,
           \A ls : IsLoad(ls) => IsLoad(RunLog(l, ls)),
           \A ls : RunLog(k, ls) = ReplayAll(RunLog(l, ls), es),
           CarriesUser(es, us, vs, u), KeepsUser(l, us, u)
    PROVE  /\ KeepsUser(k, vs, u)
           /\ \A ls : IsLoad(ls) /\ SameUser(ls, us, u) => SameUser(ReplayAll(ls, es), vs, u)
  <2>. USE <1>UserCarried
  <2>1. ASSUME NEW ls, IsLoad(ls)
        PROVE  IF u \in DOMAIN vs
               THEN u \in DOMAIN ls.users =>
                        /\ u \in DOMAIN RunLog(k, ls).users
                        /\ \A f \in Kept : ls.users[u][f] = vs[u][f] => RunLog(k, ls).users[u][f] = vs[u][f]
               ELSE u \notin DOMAIN ls.users => u \notin DOMAIN RunLog(k, ls).users
    <3> DEFINE m == RunLog(l, ls)
               n == ReplayAll(m, es)
    <3>1. IsLoad(m) /\ RunLog(k, ls) = n
      BY <2>1
    <3>2. IF u \in DOMAIN us
          THEN u \in DOMAIN ls.users =>
                   /\ u \in DOMAIN m.users
                   /\ \A f \in Kept : ls.users[u][f] = us[u][f] => m.users[u][f] = us[u][f]
          ELSE u \notin DOMAIN ls.users => u \notin DOMAIN m.users
      BY <2>1 DEF KeepsUser
    <3>3. /\ u \in DOMAIN vs /\ (u \in DOMAIN us => u \in DOMAIN m.users) => u \in DOMAIN n.users
          /\ u \notin DOMAIN vs /\ (u \notin DOMAIN us => u \notin DOMAIN m.users) => u \notin DOMAIN n.users
          /\ u \in DOMAIN vs /\ (u \in DOMAIN us => u \in DOMAIN m.users) =>
               \A f \in Kept : \/ n.users[u][f] = vs[u][f]
                               \/ /\ u \in DOMAIN us /\ u \in DOMAIN m.users
                                  /\ n.users[u][f] = m.users[u][f] /\ vs[u][f] = us[u][f]
      BY <3>1 DEF CarriesUser
    <3>. HIDE DEF m, n
    <3>. QED BY <3>1, <3>2, <3>3
  <2>2. KeepsUser(k, vs, u)
    BY <2>1 DEF KeepsUser
  <2>3. ASSUME NEW ls, IsLoad(ls), SameUser(ls, us, u) PROVE SameUser(ReplayAll(ls, es), vs, u)
    <3> DEFINE n == ReplayAll(ls, es)
    <3>1. /\ u \in DOMAIN vs /\ (u \in DOMAIN us => u \in DOMAIN ls.users) => u \in DOMAIN n.users
          /\ u \notin DOMAIN vs /\ (u \notin DOMAIN us => u \notin DOMAIN ls.users) => u \notin DOMAIN n.users
          /\ u \in DOMAIN vs /\ (u \in DOMAIN us => u \in DOMAIN ls.users) =>
               \A f \in Kept : \/ n.users[u][f] = vs[u][f]
                               \/ /\ u \in DOMAIN us /\ u \in DOMAIN ls.users
                                  /\ n.users[u][f] = ls.users[u][f] /\ vs[u][f] = us[u][f]
      BY <2>3 DEF CarriesUser
    <3>. HIDE DEF n
    <3>2. SameUser(n, vs, u)
      BY <2>3, <3>1 DEF SameUser
    <3>. QED BY <3>2 DEF n
  <2>. QED BY <2>2, <2>3
<1>1. SUFFICES ASSUME Running', NEW u, <<"user", u>> \notin unlogged'
               PROVE  SameUser(LoadLog', mem'.users, u) /\ KeepsUser(log', mem'.users, u)
  BY DEF UsersInv
<1>2. CASE Silent
  <2>1. log' = log /\ LoadLog' = LoadLog /\ mem'.users = mem.users /\ Running /\ unlogged' = unlogged
    BY <1>2 DEF Silent, MemFields
  <2>. QED BY <1>1, <2>1 DEF UsersInv
<1>3. ASSUME NEW es, IsTx(es), Writes(es), CarriesUser(es, mem.users, mem'.users, u), <<"user", u>> \notin unlogged
      PROVE  SameUser(LoadLog', mem'.users, u) /\ KeepsUser(log', mem'.users, u)
  <2>1. /\ IsLoad(LoadLog) /\ LoadLog' = ReplayAll(LoadLog, es) /\ Running
        /\ \A ls : IsLoad(ls) => IsLoad(RunLog(log, ls))
        /\ \A ls : RunLog(log', ls) = ReplayAll(RunLog(log, ls), es)
    BY <1>3, TxStep
  <2>2. SameUser(LoadLog, mem.users, u) /\ KeepsUser(log, mem.users, u)
    BY <1>3, <2>1 DEF UsersInv
  <2>3. /\ KeepsUser(log', mem'.users, u)
        /\ \A ls : IsLoad(ls) /\ SameUser(ls, mem.users, u) => SameUser(ReplayAll(ls, es), mem'.users, u)
    BY <1>3, <2>1, <2>2, <1>UserCarried
  <2>. QED BY <2>1, <2>2, <2>3
<1>4. ASSUME NEW e, IsEntry(e), UserQuiet(e), IsTx(<<e>>), Writes(<<e>>), mem'.users = mem.users, unlogged' = unlogged
      PROVE  SameUser(LoadLog', mem'.users, u) /\ KeepsUser(log', mem'.users, u)
  <2> DEFINE es == <<e>>
  <2>1. QuietForUsers(es)
    BY <1>4, QuietShapes
  <2>2. IsTx(es) /\ Writes(es)
    BY <1>4
  <2>. HIDE DEF es
  <2>3. CarriesUser(es, mem.users, mem'.users, u)
    BY <1>4, <2>1, QuietCarries
  <2>. QED BY <1>1, <1>3, <1>4, <2>2, <2>3
<1>5. CASE UpdateConfig
  <2>1. PICK e : e.kind = "Config" /\ e.value = mem.cfg /\ IsEntry(e) /\ IsTx(<<e>>) /\ Writes(<<e>>)
    BY <1>5, ConfigTx
  <2>2. mem' = mem /\ unlogged' = unlogged
    BY <1>5, ConfigTx
  <2>3. UserQuiet(e)
    BY <2>1 DEF UserQuiet
  <2>. QED BY <1>4, <2>1, <2>2, <2>3
<1>6. CASE SetsBans
  <2>1. PICK bans : IsEntry(BanEntry(bans)) /\ IsTx(<<BanEntry(bans)>>) /\ Writes(<<BanEntry(bans)>>)
    BY <1>6, BansTx
  <2>2. mem'.users = mem.users /\ unlogged' = unlogged
    BY <1>6, BansTx DEF MemFields
  <2>3. UserQuiet(BanEntry(bans))
    BY DEF BanEntry, UserQuiet
  <2>. QED BY <1>4, <2>1, <2>2, <2>3
<1>7. CASE PlainHandler
  <2>1. UsersWrite
    BY <1>7, HandlersUsers
  <2>2. PICK es : PlainTx(es) /\ Writes(es) /\ CarriesUser(es, mem.users, mem'.users, u)
    BY <1>1, <2>1 DEF UsersWrite
  <2>3. IsTx(es)
    BY <2>2, PlainReplay
  <2>4. <<"user", u>> \notin unlogged
    BY <1>1, <2>1 DEF UsersWrite
  <2>. QED BY <1>3, <2>2, <2>3, <2>4
<1>8. CASE \E m : Snapshots(m)
  <2>1. PICK m : Snapshots(m)
    BY <1>8
  <2>2. /\ LoadLog' = RunLog(log', LoadSnapshot(m)) /\ mem' = mem
        /\ (Running /\ log' = log) \/ \A ls : RunLog(log', ls) = ls
        /\ m.users = mem.users /\ IsSnapshot(m)
        /\ unlogged' = unlogged \/ unlogged' = {}
    BY <2>1 DEF Snapshots, SnapshotOf
  <2>3. KeepsUser(log', mem.users, u)
    <3>1. CASE \A ls : RunLog(log', ls) = ls
      BY <3>1 DEF KeepsUser
    <3>2. CASE Running /\ log' = log
      <4>1. CASE unlogged' = unlogged
        BY <1>1, <3>2, <4>1 DEF UsersInv
      <4>2. CASE unlogged' = {} /\ unlogged' # unlogged
        BY <2>1, <3>1, <4>2 DEF Snapshots
      <4>. QED BY <2>2, <4>1, <4>2
    <3>. QED BY <2>2, <3>1, <3>2
  <2>4. IsLoad(LoadSnapshot(m)) /\ LoadSnapshot(m).users = mem.users
    BY <2>2, SnapshotLoad
  <2>5. SameUser(RunLog(log', LoadSnapshot(m)), mem.users, u)
    BY <2>3, <2>4 DEF KeepsUser, SameUser
  <2>. QED BY <2>2, <2>3, <2>5
<1>. QED BY <1>1, <1>2, <1>5, <1>6, <1>7, <1>8, RunningSteps

-----------------------------------------------------------------------------
\* The walk down from a channel (AllSubChannels).

\* One more level.
Grown(step, seen) == seen \cup UNION {step[c] : c \in seen}

\* The walk of AllSubChannels and AllLinks, level by level.
LEMMA WalkLevels ==
    ASSUME NEW step, IsFiniteSet(DOMAIN step), NEW S
    PROVE  LET n == Cardinality(DOMAIN step)
           IN \E f : /\ f[0] = S /\ Walk(step, S) = f[n]
                     /\ \A i \in 0..n - 1 : f[i + 1] = Grown(step, f[i])
<1> DEFINE n == Cardinality(DOMAIN step)
           C(m, f) == f = [i \in 0..m |-> IF i = 0 THEN S ELSE Grown(step, f[i - 1])]
           T == {m \in 0..n : \E f : C(m, f)}
<1>0. n \in Nat
  BY FS_CardinalityType
<1>. HIDE DEF n
<1>1. 0 \in T
  <2>1. C(0, [i \in 0..0 |-> S])
    BY SMTT(30)
  <2>2. 0 \in 0..n
    BY <1>0, SMTT(30)
  <2>. HIDE DEF C
  <2>. QED BY <2>1, <2>2
<1>2. ASSUME NEW m \in 0..n - 1, m \in T PROVE m + 1 \in T
  <2>1. PICK f : C(m, f)
    BY <1>2
  <2> DEFINE g == [i \in 0..m + 1 |-> IF i = m + 1 THEN Grown(step, f[m]) ELSE f[i]]
  <2>2. ASSUME NEW i \in 0..m + 1
        PROVE  g[i] = IF i = 0 THEN S ELSE Grown(step, g[i - 1])
    <3>1. CASE i = 0
      BY <1>0, <2>1, <3>1, SMTT(30)
    <3>2. CASE i # 0
      <4>1. i - 1 \in 0..m /\ i - 1 \in 0..m + 1 /\ i - 1 # m + 1
        BY <1>0, <3>2, SMTT(30)
      <4>2. g[i - 1] = f[i - 1]
        BY <4>1
      <4>3. CASE i = m + 1
        <5>1. i - 1 = m /\ g[i] = Grown(step, f[m])
          BY <1>0, <4>3, SMTT(30)
        <5>. QED BY <3>2, <4>2, <4>3, <5>1
      <4>4. CASE i # m + 1
        <5>1. i \in 0..m
          BY <1>0, <4>4, SMTT(30)
        <5>2. g[i] = f[i]
          BY <4>4
        <5>3. f[i] = Grown(step, f[i - 1])
          BY <2>1, <3>2, <5>1
        <5>. QED BY <3>2, <4>2, <5>2, <5>3
      <4>. QED BY <4>3, <4>4
    <3>. QED BY <3>1, <3>2
  <2>3. g = [i \in 0..m + 1 |-> g[i]]
    OBVIOUS
  <2>4. C(m + 1, g)
    <3>. HIDE DEF g
    <3>. QED BY <2>2, <2>3
  <2>5. m + 1 \in 0..n
    BY <1>0, SMTT(30)
  <2>. HIDE DEF C, g
  <2>. QED BY <2>4, <2>5
<1>3. \E f : C(n, f)
  <2>1. n \in 0..n
    BY <1>0, SMTT(30)
  <2>2. n \in T
    <3>. HIDE DEF T
    <3>. QED BY <1>0, <1>1, <1>2, <2>1, Positions
  <2>. HIDE DEF C
  <2>. QED BY <2>2
<1> DEFINE f == CHOOSE f : C(n, f)
<1>4. C(n, f)
  <2>. HIDE DEF C
  <2>. QED BY <1>3
<1>5. Walk(step, S) = f[n]
  BY DEF Walk, Grown, n
<1>. HIDE DEF f
<1>6. f[0] = S
  BY <1>0, <1>4, SMTT(30)
<1>7. ASSUME NEW i \in 0..n - 1 PROVE f[i + 1] = Grown(step, f[i])
  <2>1. i + 1 \in 0..n /\ i + 1 # 0 /\ (i + 1) - 1 = i
    BY <1>0, SMTT(30)
  <2>2. f[i + 1] = IF i + 1 = 0 THEN S ELSE Grown(step, f[(i + 1) - 1])
    BY <1>4, <2>1
  <2>. QED BY <2>1, <2>2
<1>. QED BY <1>5, <1>6, <1>7 DEF n

\* It ends with everything that is below: what it has reached is closed under
\* step, and each element was reached from one of S.
LEMMA WalkClosed ==
    ASSUME NEW step, IsFiniteSet(DOMAIN step), \A c \in DOMAIN step : step[c] \subseteq DOMAIN step,
           NEW S \in SUBSET DOMAIN step
    PROVE  /\ S \subseteq Walk(step, S) /\ Walk(step, S) \subseteq DOMAIN step
           /\ \A c \in Walk(step, S) : step[c] \subseteq Walk(step, S)
           /\ \A x \in Walk(step, S) : x \in S \/ \E y \in Walk(step, S) : x \in step[y]
           /\ S = {} => Walk(step, S) = {}
<1> DEFINE n == Cardinality(DOMAIN step)
           D == DOMAIN step
<1>1. n \in Nat
  BY FS_CardinalityType
<1>2. PICK f : /\ f[0] = S /\ Walk(step, S) = f[n]
               /\ \A i \in 0..n - 1 : f[i + 1] = Grown(step, f[i])
  BY WalkLevels, SMTT(30)
<1>. HIDE DEF n, D
<1> DEFINE Closed(W) == \A c \in W : step[c] \subseteq W
           Ok(W, i) == /\ S \subseteq W /\ W \subseteq D
                       /\ \A x \in W : x \in S \/ \E y \in W : x \in step[y]
                       /\ S = {} => W = {}
                       /\ Closed(W) \/ Cardinality(W) >= i
           T == {i \in 0..n : Ok(f[i], i)}
<1>3. 0 \in T
  <2>1. IsFiniteSet(S)
    BY FS_Subset
  <2>2. Cardinality(S) >= 0
    BY <2>1, FS_CardinalityType, SMTT(30)
  <2>3. Ok(S, 0)
    BY <2>2 DEF D
  <2>. HIDE DEF Ok
  <2>. QED BY <1>1, <1>2, <2>3, SMTT(30)
<1>4. ASSUME NEW i \in 0..n - 1, i \in T PROVE i + 1 \in T
  <2> DEFINE W == f[i]
             V == f[i + 1]
  <2>1. i + 1 \in 0..n /\ i \in Nat
    BY <1>1, SMTT(30)
  <2>2. V = W \cup UNION {step[c] : c \in W}
    BY <1>2 DEF Grown
  <2>3. Ok(W, i)
    BY <1>4
  <2>. HIDE DEF V, W
  <2>4. S \subseteq V /\ V \subseteq D /\ W \subseteq V
    <3>1. \A c \in W : step[c] \subseteq D
      BY <2>3 DEF D
    <3>. QED BY <2>2, <2>3, <3>1
  <2>5. ASSUME NEW x \in V PROVE x \in S \/ \E y \in V : x \in step[y]
    BY <2>2, <2>3, <2>4
  <2>6. S = {} => V = {}
    BY <2>2, <2>3
  <2>7. Closed(V) \/ Cardinality(V) >= i + 1
    <3>1. CASE Closed(W)
      <4>1. V = W
        BY <2>2, <3>1
      <4>. QED BY <3>1, <4>1
    <3>2. CASE ~Closed(W)
      <4>1. V # W
        BY <2>2, <3>2
      <4>2. IsFiniteSet(V)
        BY <2>4, FS_Subset DEF D
      <4>3. Cardinality(W) <= Cardinality(V) /\ Cardinality(V) # Cardinality(W) /\ IsFiniteSet(W)
        BY <2>4, <4>1, <4>2, FS_Subset
      <4>4. Cardinality(W) \in Nat /\ Cardinality(V) \in Nat
        BY <4>2, <4>3, FS_CardinalityType
      <4>5. Cardinality(W) >= i
        BY <2>3, <3>2
      <4>6. Cardinality(V) >= i + 1
        <5>. HIDE DEF Closed
        <5>. QED BY <2>1, <4>3, <4>4, <4>5, SMTT(30)
      <4>. QED BY <4>6
    <3>. QED BY <3>1, <3>2
  <2>8. Ok(V, i + 1)
    <3>. HIDE DEF Closed
    <3>. QED BY <2>4, <2>5, <2>6, <2>7
  <2>. HIDE DEF Ok
  <2>. QED BY <2>1, <2>8 DEF V
<1>5. Ok(f[n], n)
  <2>1. n \in T
    <3>. HIDE DEF T
    <3>. QED BY <1>1, <1>3, <1>4, Positions, SMTT(30)
  <2>. QED BY <2>1
<1>6. Closed(f[n])
  <2>1. CASE Cardinality(f[n]) >= n
    <3>1. Cardinality(f[n]) <= n /\ IsFiniteSet(f[n])
      BY <1>5, FS_Subset DEF n, D
    <3>2. Cardinality(f[n]) \in Nat
      BY <3>1, FS_CardinalityType
    <3>3. Cardinality(f[n]) = n
      <4>. HIDE DEF Ok, Closed
      <4>. QED BY <1>1, <2>1, <3>1, <3>2, SMTT(30)
    <3>4. f[n] = D
      BY <1>5, <3>3, FS_Subset DEF n, D
    <3>. QED BY <3>4 DEF D
  <2>. QED BY <1>5, <2>1
<1>. QED BY <1>2, <1>5, <1>6 DEF D

-----------------------------------------------------------------------------
\* The channel tree in memory.

\* Parents and children agree, a link is on both sides, and a temporary channel
\* has nothing below it.
TreeOK(t, tmp) ==
    /\ \A c \in DOMAIN t : DOMAIN t[c] = ChanFields
    /\ \A c \in DOMAIN t : t[c].parent # NoChannel => t[c].parent \in DOMAIN t /\ c \in t[t[c].parent].children
    /\ \A c \in DOMAIN t : \A d \in t[c].children : d \in DOMAIN t /\ t[d].parent = c
    /\ \A c \in DOMAIN t : \A d \in t[c].links : d \in DOMAIN t /\ c \in t[d].links
    /\ \A c \in DOMAIN t : t[c].temporary => t[c].children = {} /\ c \in tmp

\* The same tree, but for names and permissions.
SameShape(t, r) ==
    /\ DOMAIN r = DOMAIN t
    /\ \A c \in DOMAIN t : DOMAIN r[c] = DOMAIN t[c]
    /\ \A c \in DOMAIN t : r[c].parent = t[c].parent /\ r[c].children = t[c].children
    /\ \A c \in DOMAIN t : r[c].links = t[c].links /\ r[c].temporary = t[c].temporary

\* Names and permissions do not matter for the tree.
LEMMA ShapeOK ==
    ASSUME NEW t, NEW tmp, TreeOK(t, tmp), NEW r, SameShape(t, r)
    PROVE  TreeOK(r, tmp)
<1>1. \A c \in DOMAIN r : DOMAIN r[c] = ChanFields
  BY DEF TreeOK, SameShape
<1>2. \A c \in DOMAIN r : r[c].parent # NoChannel => r[c].parent \in DOMAIN r /\ c \in r[r[c].parent].children
  BY SMTT(30) DEF TreeOK, SameShape
<1>3. \A c \in DOMAIN r : \A d \in r[c].children : d \in DOMAIN r /\ r[d].parent = c
  BY DEF TreeOK, SameShape
<1>4. \A c \in DOMAIN r : \A d \in r[c].links : d \in DOMAIN r /\ c \in r[d].links
  BY DEF TreeOK, SameShape
<1>5. \A c \in DOMAIN r : r[c].temporary => r[c].children = {} /\ c \in tmp
  BY DEF TreeOK, SameShape
<1>. QED BY <1>1, <1>2, <1>3, <1>4, <1>5 DEF TreeOK

\* NewServer makes a tree of one channel.
LEMMA FreshTree == \A tmp : TreeOK(Fresh.tree, tmp)
<1>1. DOMAIN Fresh.tree = {0} /\ Fresh.tree[0] = NewChannel("Root")
  BY DEF Fresh, Root
<1>2. /\ DOMAIN NewChannel("Root") = ChanFields /\ NewChannel("Root").parent = NoChannel
      /\ NewChannel("Root").children = {} /\ NewChannel("Root").links = {}
      /\ NewChannel("Root").temporary = FALSE
  BY DEF NewChannel, ChanFields
<1>. QED BY <1>1, <1>2 DEF TreeOK

\* The tree t is made of the load ls: parents, children, and links on both sides.
HooksUp(ls, t) ==
    /\ DOMAIN t = DOMAIN ls.raw
    /\ \A c \in DOMAIN t : DOMAIN t[c] = ChanFields
    /\ \A c \in DOMAIN t : t[c].parent = IF c \in DOMAIN ls.parents THEN ls.parents[c] ELSE NoChannel
    /\ \A c \in DOMAIN t : t[c].children = {d \in DOMAIN ls.parents : ls.parents[d] = c}
    /\ \A c \in DOMAIN t : t[c].links = {d \in DOMAIN t : d \in ls.raw[c].links \/ c \in ls.raw[d].links}
    /\ \A c \in DOMAIN t : t[c].temporary = FALSE /\ t[c].name = ls.raw[c].name

\* The end of NewServerFromFrozen, field by field.
LEMMA HookUpCells ==
    ASSUME NEW ls, IsLoad(ls)
    PROVE  HooksUp(ls, HookUp(ls))
<1>1. DOMAIN HookUp(ls) = DOMAIN ls.raw
  BY DEF HookUp
<1>2. ASSUME NEW c \in DOMAIN ls.raw
      PROVE  /\ DOMAIN HookUp(ls)[c] = ChanFields
             /\ HookUp(ls)[c].parent = IF c \in DOMAIN ls.parents THEN ls.parents[c] ELSE NoChannel
             /\ HookUp(ls)[c].children = {d \in DOMAIN ls.parents : ls.parents[d] = c}
             /\ HookUp(ls)[c].links = {d \in DOMAIN ls.raw : d \in ls.raw[c].links \/ c \in ls.raw[d].links}
             /\ HookUp(ls)[c].temporary = FALSE /\ HookUp(ls)[c].name = ls.raw[c].name
  <2> DEFINE P == IF c \in DOMAIN ls.parents THEN ls.parents[c] ELSE NoChannel
             K == {d \in DOMAIN ls.parents : ls.parents[d] = c}
             L == {d \in DOMAIN ls.raw : d \in ls.raw[c].links \/ c \in ls.raw[d].links}
  <2>1. HookUp(ls)[c] = [ls.raw[c] EXCEPT !.parent = P, !.children = K, !.links = L]
    BY DEF HookUp
  <2>2. DOMAIN ls.raw[c] = ChanFields /\ ls.raw[c].temporary = FALSE
    BY DEF IsLoad
  <2>. HIDE DEF P, K, L
  <2>3. /\ DOMAIN HookUp(ls)[c] = ChanFields /\ HookUp(ls)[c].parent = P /\ HookUp(ls)[c].children = K
        /\ HookUp(ls)[c].links = L /\ HookUp(ls)[c].temporary = FALSE /\ HookUp(ls)[c].name = ls.raw[c].name
    BY <2>1, <2>2 DEF ChanFields
  <2>. QED BY <2>3 DEF P, K, L
<1> DEFINE t == HookUp(ls)
<1>. HIDE DEF t
<1>3. DOMAIN t = DOMAIN ls.raw
  BY <1>1 DEF t
<1>4. \A c \in DOMAIN t : t[c].links = {d \in DOMAIN t : d \in ls.raw[c].links \/ c \in ls.raw[d].links}
  BY <1>2, <1>3 DEF t
<1>5. \A c \in DOMAIN t : t[c].children = {d \in DOMAIN ls.parents : ls.parents[d] = c}
  BY <1>2, <1>3 DEF t
<1>6. \A c \in DOMAIN t : t[c].parent = IF c \in DOMAIN ls.parents THEN ls.parents[c] ELSE NoChannel
  BY <1>2, <1>3 DEF t
<1>7. \A c \in DOMAIN t : DOMAIN t[c] = ChanFields /\ t[c].temporary = FALSE /\ t[c].name = ls.raw[c].name
  BY <1>2, <1>3 DEF t
<1>8. HooksUp(ls, t)
  BY <1>3, <1>4, <1>5, <1>6, <1>7 DEF HooksUp
<1>. QED BY <1>8 DEF t

\* It makes a tree whenever every parent is there.
LEMMA LoadedTree ==
    ASSUME NEW ls, IsLoad(ls), Range(ls.parents) \subseteq DOMAIN ls.raw
    PROVE  \A tmp : TreeOK(HookUp(ls), tmp)
<1> DEFINE t == HookUp(ls)
<1>. HIDE DEF t
<1>1. HooksUp(ls, t)
  BY HookUpCells DEF t
<1>2. \A c \in DOMAIN ls.parents : c \in DOMAIN t /\ ls.parents[c] \in DOMAIN t
  BY <1>1 DEF IsLoad, Range, HooksUp
<1>3. \A c \in DOMAIN t : t[c].parent # NoChannel => t[c].parent \in DOMAIN t /\ c \in t[t[c].parent].children
  BY <1>1, <1>2 DEF HooksUp
<1>4. \A c \in DOMAIN t : \A d \in t[c].children : d \in DOMAIN t /\ t[d].parent = c
  BY <1>1, <1>2 DEF HooksUp
<1>5. \A c \in DOMAIN t : \A d \in t[c].links : d \in DOMAIN t /\ c \in t[d].links
  BY <1>1 DEF HooksUp
<1>6. \A tmp : TreeOK(t, tmp)
  BY <1>1, <1>3, <1>4, <1>5 DEF TreeOK, HooksUp
<1>. QED BY <1>6 DEF t

-----------------------------------------------------------------------------
\* The operations of Channels.tla, cell by cell.
TreeFields(t) == \A c \in DOMAIN t : DOMAIN t[c] = ChanFields

\* r is t with c below p.
AddsChild(t, r, p, c) ==
    /\ DOMAIN r = DOMAIN t
    /\ \A x \in DOMAIN t : DOMAIN r[x] = ChanFields
    /\ \A x \in DOMAIN t : r[x].parent = IF x = c THEN p ELSE t[x].parent
    /\ \A x \in DOMAIN t : r[x].children = IF x = p THEN t[x].children \cup {c} ELSE t[x].children
    /\ \A x \in DOMAIN t : r[x].links = t[x].links /\ r[x].name = t[x].name /\ r[x].temporary = t[x].temporary

\* AddChild, field by field.
LEMMA AddChildCells ==
    ASSUME NEW t, TreeFields(t), NEW p, NEW c
    PROVE  AddsChild(t, AddChild(t, p, c), p, c)
<1> DEFINE r == AddChild(t, p, c)
<1>1. r = [t EXCEPT ![c].parent = p, ![p].children = @ \cup {c}]
  BY DEF AddChild
<1>2. DOMAIN r = DOMAIN t
  BY <1>1
<1>3. ASSUME NEW x \in DOMAIN t
      PROVE  /\ DOMAIN r[x] = ChanFields
             /\ r[x].parent = IF x = c THEN p ELSE t[x].parent
             /\ r[x].children = IF x = p THEN t[x].children \cup {c} ELSE t[x].children
             /\ r[x].links = t[x].links /\ r[x].name = t[x].name /\ r[x].temporary = t[x].temporary
  <2>0. DOMAIN t[x] = ChanFields
    BY DEF TreeFields
  <2>1. CASE x = c /\ x = p
    <3>1. r[x] = [[t[x] EXCEPT !.parent = p] EXCEPT !.children = @ \cup {c}]
      BY <1>1, <2>1, SMTT(30)
    <3>. HIDE DEF r
    <3>. QED BY <2>0, <2>1, <3>1 DEF ChanFields
  <2>2. CASE x = c /\ x # p
    <3>1. r[x] = [t[x] EXCEPT !.parent = p]
      BY <1>1, <2>2
    <3>. HIDE DEF r
    <3>. QED BY <2>0, <2>2, <3>1 DEF ChanFields
  <2>3. CASE x # c /\ x = p
    <3>1. r[x] = [t[x] EXCEPT !.children = @ \cup {c}]
      BY <1>1, <2>3
    <3>. HIDE DEF r
    <3>. QED BY <2>0, <2>3, <3>1 DEF ChanFields
  <2>4. CASE x # c /\ x # p
    <3>1. r[x] = t[x]
      BY <1>1, <2>4
    <3>. HIDE DEF r
    <3>. QED BY <2>0, <2>4, <3>1
  <2>. QED BY <2>1, <2>2, <2>3, <2>4
<1>. HIDE DEF r
<1>4. AddsChild(t, r, p, c)
  BY <1>2, <1>3 DEF AddsChild
<1>. QED BY <1>4 DEF r

\* r is t with c no longer below p.
DropsChild(t, r, p, c) ==
    /\ DOMAIN r = DOMAIN t
    /\ \A x \in DOMAIN t : DOMAIN r[x] = ChanFields
    /\ \A x \in DOMAIN t : r[x].parent = IF x = c THEN NoChannel ELSE t[x].parent
    /\ \A x \in DOMAIN t : r[x].children = IF x = p THEN t[x].children \ {c} ELSE t[x].children
    /\ \A x \in DOMAIN t : r[x].links = t[x].links /\ r[x].name = t[x].name /\ r[x].temporary = t[x].temporary

\* RemoveChild, field by field.
LEMMA RemoveChildCells ==
    ASSUME NEW t, TreeFields(t), NEW p, NEW c
    PROVE  DropsChild(t, RemoveChild(t, p, c), p, c)
<1> DEFINE r == RemoveChild(t, p, c)
<1>1. r = [t EXCEPT ![c].parent = NoChannel, ![p].children = @ \ {c}]
  BY DEF RemoveChild
<1>2. DOMAIN r = DOMAIN t
  BY <1>1
<1>3. ASSUME NEW x \in DOMAIN t
      PROVE  /\ DOMAIN r[x] = ChanFields
             /\ r[x].parent = IF x = c THEN NoChannel ELSE t[x].parent
             /\ r[x].children = IF x = p THEN t[x].children \ {c} ELSE t[x].children
             /\ r[x].links = t[x].links /\ r[x].name = t[x].name /\ r[x].temporary = t[x].temporary
  <2>0. DOMAIN t[x] = ChanFields
    BY DEF TreeFields
  <2>1. CASE x = c /\ x = p
    <3>1. r[x] = [[t[x] EXCEPT !.parent = NoChannel] EXCEPT !.children = @ \ {c}]
      BY <1>1, <2>1, SMTT(30)
    <3>. HIDE DEF r
    <3>. QED BY <2>0, <2>1, <3>1 DEF ChanFields
  <2>2. CASE x = c /\ x # p
    <3>1. r[x] = [t[x] EXCEPT !.parent = NoChannel]
      BY <1>1, <2>2
    <3>. HIDE DEF r
    <3>. QED BY <2>0, <2>2, <3>1 DEF ChanFields
  <2>3. CASE x # c /\ x = p
    <3>1. r[x] = [t[x] EXCEPT !.children = @ \ {c}]
      BY <1>1, <2>3
    <3>. HIDE DEF r
    <3>. QED BY <2>0, <2>3, <3>1 DEF ChanFields
  <2>4. CASE x # c /\ x # p
    <3>1. r[x] = t[x]
      BY <1>1, <2>4
    <3>. HIDE DEF r
    <3>. QED BY <2>0, <2>4, <3>1
  <2>. QED BY <2>1, <2>2, <2>3, <2>4
<1>. HIDE DEF r
<1>4. DropsChild(t, r, p, c)
  BY <1>2, <1>3 DEF DropsChild
<1>. QED BY <1>4 DEF r

\* LinkChannels changes both ends of the link.
LEMMA LinkCells ==
    ASSUME NEW t, TreeFields(t), NEW a, NEW b
    PROVE  LET r == LinkChannels(t, a, b)
           IN /\ DOMAIN r = DOMAIN t
              /\ \A x \in DOMAIN t :
                    /\ DOMAIN r[x] = ChanFields
                    /\ \A y : y \in r[x].links <=> y \in t[x].links \/ (x = a /\ y = b) \/ (x = b /\ y = a)
                    /\ \A f \in ChanFields \ {"links"} : r[x][f] = t[x][f]
<1> DEFINE r == LinkChannels(t, a, b)
<1>1. r = [t EXCEPT ![a].links = @ \cup {b}, ![b].links = @ \cup {a}]
  BY DEF LinkChannels
<1>2. DOMAIN r = DOMAIN t
  BY <1>1
<1>3. ASSUME NEW x \in DOMAIN t
      PROVE  /\ DOMAIN r[x] = ChanFields
             /\ \A y : y \in r[x].links <=> y \in t[x].links \/ (x = a /\ y = b) \/ (x = b /\ y = a)
             /\ \A f \in ChanFields \ {"links"} : r[x][f] = t[x][f]
  <2>0. DOMAIN t[x] = ChanFields
    BY DEF TreeFields
  <2>1. CASE x = a /\ x = b
    <3>1. r[x] = [t[x] EXCEPT !.links = @ \cup {a}]
      BY <1>1, <2>1
    <3>. HIDE DEF r
    <3>2. r[x].links = t[x].links \cup {a}
      BY <2>0, <3>1 DEF ChanFields
    <3>3. DOMAIN r[x] = ChanFields /\ \A f \in ChanFields \ {"links"} : r[x][f] = t[x][f]
      BY <2>0, <3>1
    <3>. QED BY <2>1, <3>2, <3>3
  <2>2. CASE x = a /\ x # b
    <3>1. r[x] = [t[x] EXCEPT !.links = @ \cup {b}]
      BY <1>1, <2>2
    <3>. HIDE DEF r
    <3>. QED BY <2>0, <2>2, <3>1, SMTT(30) DEF ChanFields
  <2>3. CASE x # a /\ x = b
    <3>1. r[x] = [t[x] EXCEPT !.links = @ \cup {a}]
      BY <1>1, <2>3
    <3>. HIDE DEF r
    <3>. QED BY <2>0, <2>3, <3>1, SMTT(30) DEF ChanFields
  <2>4. CASE x # a /\ x # b
    <3>1. r[x] = t[x]
      BY <1>1, <2>4
    <3>. HIDE DEF r
    <3>. QED BY <2>0, <2>4, <3>1
  <2>. QED BY <2>1, <2>2, <2>3, <2>4
<1>. QED BY <1>2, <1>3

\* UnlinkChannels changes both ends too.
LEMMA UnlinkCells ==
    ASSUME NEW t, TreeFields(t), NEW a, NEW b
    PROVE  LET r == UnlinkChannels(t, a, b)
           IN /\ DOMAIN r = DOMAIN t
              /\ \A x \in DOMAIN t :
                    /\ DOMAIN r[x] = ChanFields
                    /\ \A y : y \in r[x].links <=> y \in t[x].links /\ ~(x = a /\ y = b) /\ ~(x = b /\ y = a)
                    /\ \A f \in ChanFields \ {"links"} : r[x][f] = t[x][f]
<1> DEFINE r == UnlinkChannels(t, a, b)
<1>1. r = [t EXCEPT ![a].links = @ \ {b}, ![b].links = @ \ {a}]
  BY DEF UnlinkChannels
<1>2. DOMAIN r = DOMAIN t
  BY <1>1
<1>3. ASSUME NEW x \in DOMAIN t
      PROVE  /\ DOMAIN r[x] = ChanFields
             /\ \A y : y \in r[x].links <=> y \in t[x].links /\ ~(x = a /\ y = b) /\ ~(x = b /\ y = a)
             /\ \A f \in ChanFields \ {"links"} : r[x][f] = t[x][f]
  <2>0. DOMAIN t[x] = ChanFields
    BY DEF TreeFields
  <2>1. CASE x = a /\ x = b
    <3>1. r[x] = [t[x] EXCEPT !.links = @ \ {a}]
      BY <1>1, <2>1
    <3>. HIDE DEF r
    <3>2. r[x].links = t[x].links \ {a}
      BY <2>0, <3>1 DEF ChanFields
    <3>3. DOMAIN r[x] = ChanFields /\ \A f \in ChanFields \ {"links"} : r[x][f] = t[x][f]
      BY <2>0, <3>1
    <3>. QED BY <2>1, <3>2, <3>3
  <2>2. CASE x = a /\ x # b
    <3>1. r[x] = [t[x] EXCEPT !.links = @ \ {b}]
      BY <1>1, <2>2
    <3>. HIDE DEF r
    <3>. QED BY <2>0, <2>2, <3>1, SMTT(30) DEF ChanFields
  <2>3. CASE x # a /\ x = b
    <3>1. r[x] = [t[x] EXCEPT !.links = @ \ {a}]
      BY <1>1, <2>3
    <3>. HIDE DEF r
    <3>. QED BY <2>0, <2>3, <3>1, SMTT(30) DEF ChanFields
  <2>4. CASE x # a /\ x # b
    <3>1. r[x] = t[x]
      BY <1>1, <2>4
    <3>. HIDE DEF r
    <3>. QED BY <2>0, <2>4, <3>1
  <2>. QED BY <2>1, <2>2, <2>3, <2>4
<1>. QED BY <1>2, <1>3

-----------------------------------------------------------------------------
\* The changes of the tree.

\* A channel c is added below p.
Grows(t, r, p, c, name, temp) ==
    /\ DOMAIN r = DOMAIN t \cup {c} /\ c \notin DOMAIN t /\ p \in DOMAIN t
    /\ \A x \in DOMAIN r : DOMAIN r[x] = ChanFields
    /\ \A x \in DOMAIN t : /\ r[x].parent = t[x].parent /\ r[x].links = t[x].links
                           /\ r[x].name = t[x].name /\ r[x].temporary = t[x].temporary
    /\ \A x \in DOMAIN t : r[x].children = IF x = p THEN t[x].children \cup {c} ELSE t[x].children
    /\ r[c].parent = p /\ r[c].children = {} /\ r[c].links = {} /\ r[c].name = name /\ r[c].temporary = temp

\* A created channel is a new leaf below its parent.
LEMMA CreateGrows ==
    ASSUME TreeFields(mem.tree), mem.nextChan \notin DOMAIN mem.tree, NEW p \in DOMAIN mem.tree,
           NEW a, NEW name, NEW temp
    PROVE  Grows(mem.tree, WithCreated(a, p, name, temp), p, mem.nextChan, name, temp)
<1> DEFINE t == mem.tree
           c == mem.nextChan
           ch == Created(a, name, temp)
           s == AddChannel(t, c, ch)
           r == AddChild(s, p, c)
<1>1. /\ DOMAIN ch = ChanFields /\ ch.children = {} /\ ch.links = {} /\ ch.name = name /\ ch.temporary = temp
  BY DEF Created, NewChannel, ChanFields
<1>. HIDE DEF ch
<1>2. DOMAIN s = DOMAIN t \cup {c} /\ s[c] = ch /\ \A x \in DOMAIN t : s[x] = t[x]
  BY DEF AddChannel, With
<1>. HIDE DEF s
<1>3. TreeFields(s)
  BY <1>1, <1>2 DEF TreeFields
<1>4. AddsChild(s, r, p, c)
  BY <1>3, AddChildCells
<1>5. WithCreated(a, p, name, temp) = r
  BY DEF WithCreated, s, ch
<1>. HIDE DEF r
<1>6. \A x \in DOMAIN r : DOMAIN r[x] = ChanFields
  BY <1>4 DEF AddsChild
<1>8. p # c /\ c \notin DOMAIN t
  OBVIOUS
<1>9. ASSUME NEW x \in DOMAIN t
      PROVE  /\ r[x].parent = t[x].parent /\ r[x].links = t[x].links
             /\ r[x].name = t[x].name /\ r[x].temporary = t[x].temporary
             /\ r[x].children = IF x = p THEN t[x].children \cup {c} ELSE t[x].children
  <2>1. x \in DOMAIN s /\ s[x] = t[x] /\ x # c
    BY <1>2, <1>8
  <2>. HIDE DEF t, c
  <2>. QED BY <1>4, <2>1 DEF AddsChild
<1>10. r[c].parent = p /\ r[c].children = {} /\ r[c].links = {} /\ r[c].name = name /\ r[c].temporary = temp
  <2>1. c \in DOMAIN s /\ s[c] = ch
    BY <1>2
  <2>. HIDE DEF t, c
  <2>. QED BY <1>1, <1>4, <1>8, <2>1 DEF AddsChild
<1>. HIDE DEF t, c
<1>11. Grows(t, r, p, c, name, temp)
  BY <1>2, <1>4, <1>6, <1>8, <1>9, <1>10 DEF Grows, t, AddsChild
<1>. QED BY <1>5, <1>11 DEF t, c

\* A leaf below a permanent channel leaves a tree.
LEMMA GrowsOK ==
    ASSUME NEW t, NEW tmp, TreeOK(t, tmp), NEW r, NEW p, NEW c, NEW name, NEW temp, NEW new,
           Grows(t, r, p, c, name, temp), ~t[p].temporary, NoChannel \notin DOMAIN t,
           tmp \subseteq new, temp => c \in new
    PROVE  TreeOK(r, new)
<1>1. \A x \in DOMAIN r : r[x].parent # NoChannel => r[x].parent \in DOMAIN r /\ x \in r[r[x].parent].children
  <2>1. ASSUME NEW x \in DOMAIN r, r[x].parent # NoChannel
        PROVE  r[x].parent \in DOMAIN r /\ x \in r[r[x].parent].children
    <3>1. CASE x = c
      BY <3>1 DEF Grows
    <3>2. CASE x # c
      <4>1. x \in DOMAIN t /\ r[x].parent = t[x].parent
        BY <3>2 DEF Grows
      <4>2. t[x].parent \in DOMAIN t /\ x \in t[t[x].parent].children
        BY <2>1, <4>1 DEF TreeOK
      <4>. QED BY <4>1, <4>2 DEF Grows
    <3>. QED BY <3>1, <3>2
  <2>. QED BY <2>1
<1>2. \A x \in DOMAIN r : \A d \in r[x].children : d \in DOMAIN r /\ r[d].parent = x
  <2>1. ASSUME NEW x \in DOMAIN r, NEW d \in r[x].children
        PROVE  d \in DOMAIN r /\ r[d].parent = x
    <3>1. x \in DOMAIN t
      BY DEF Grows
    <3>2. CASE d = c
      <4>1. c \notin t[x].children
        BY <3>1 DEF Grows, TreeOK
      <4>2. x = p
        BY <3>1, <3>2, <4>1 DEF Grows
      <4>. QED BY <3>2, <4>2 DEF Grows
    <3>3. CASE d # c
      <4>1. d \in t[x].children
        BY <3>1, <3>3 DEF Grows
      <4>2. d \in DOMAIN t /\ t[d].parent = x
        BY <3>1, <4>1 DEF TreeOK
      <4>. QED BY <4>2 DEF Grows
    <3>. QED BY <3>2, <3>3
  <2>. QED BY <2>1
<1>3. \A x \in DOMAIN r : \A d \in r[x].links : d \in DOMAIN r /\ x \in r[d].links
  BY SMTT(30) DEF TreeOK, Grows
<1>4. \A x \in DOMAIN r : r[x].temporary => r[x].children = {} /\ x \in new
  BY DEF TreeOK, Grows
<1>5. \A x \in DOMAIN r : DOMAIN r[x] = ChanFields
  BY DEF Grows
<1>. QED BY <1>1, <1>2, <1>3, <1>4, <1>5 DEF TreeOK

\* Channel c moves to p.
Moves(t, r, c, p) ==
    /\ DOMAIN r = DOMAIN t
    /\ \A x \in DOMAIN t : DOMAIN r[x] = ChanFields
    /\ \A x \in DOMAIN t : r[x].links = t[x].links /\ r[x].name = t[x].name /\ r[x].temporary = t[x].temporary
    /\ \A x \in DOMAIN t : r[x].parent = IF x = c THEN p ELSE t[x].parent
    /\ \A x \in DOMAIN t : r[x].children = (IF x = t[c].parent THEN t[x].children \ {c} ELSE t[x].children)
                                           \cup (IF x = p THEN {c} ELSE {})

\* RemoveChild and AddChild move a channel.
LEMMA EditMoves ==
    ASSUME NEW t, TreeFields(t), NEW c, NEW p
    PROVE  Moves(t, AddChild(RemoveChild(t, t[c].parent, c), p, c), c, p)
<1> DEFINE o == t[c].parent
           s == RemoveChild(t, o, c)
           r == AddChild(s, p, c)
<1>1. DropsChild(t, s, o, c)
  BY RemoveChildCells
<1>. HIDE DEF s, o
<1>2. TreeFields(s)
  BY <1>1 DEF TreeFields, DropsChild
<1>3. AddsChild(s, r, p, c)
  BY <1>2, AddChildCells
<1>. HIDE DEF r
<1>4. /\ DOMAIN r = DOMAIN t /\ \A x \in DOMAIN t : DOMAIN r[x] = ChanFields
      /\ \A x \in DOMAIN t : r[x].links = t[x].links /\ r[x].name = t[x].name /\ r[x].temporary = t[x].temporary
  BY <1>1, <1>3 DEF AddsChild, DropsChild
<1>5. \A x \in DOMAIN t : r[x].parent = IF x = c THEN p ELSE t[x].parent
  BY <1>1, <1>3 DEF AddsChild, DropsChild
<1>6. \A x \in DOMAIN t : r[x].children = (IF x = o THEN t[x].children \ {c} ELSE t[x].children)
                                          \cup (IF x = p THEN {c} ELSE {})
  BY <1>1, <1>3 DEF AddsChild, DropsChild
<1>7. Moves(t, r, c, p)
  BY <1>4, <1>5, <1>6 DEF Moves, o
<1>. QED BY <1>7 DEF r, s, o

\* A move below a permanent channel leaves a tree.
LEMMA MovesOK ==
    ASSUME NEW t, NEW tmp, TreeOK(t, tmp), NEW r, NEW c \in DOMAIN t, NEW p \in DOMAIN t, Moves(t, r, c, p),
           ~t[p].temporary, NoChannel \notin DOMAIN t
    PROVE  TreeOK(r, tmp)
<1>1. \A x \in DOMAIN r : r[x].parent # NoChannel => r[x].parent \in DOMAIN r /\ x \in r[r[x].parent].children
  <2>1. ASSUME NEW x \in DOMAIN r, r[x].parent # NoChannel
        PROVE  r[x].parent \in DOMAIN r /\ x \in r[r[x].parent].children
    <3>1. CASE x = c
      BY <3>1 DEF Moves
    <3>2. CASE x # c
      <4>1. x \in DOMAIN t /\ r[x].parent = t[x].parent
        BY <3>2 DEF Moves
      <4>2. t[x].parent \in DOMAIN t /\ x \in t[t[x].parent].children
        BY <2>1, <4>1 DEF TreeOK
      <4>. QED BY <3>2, <4>1, <4>2 DEF Moves
    <3>. QED BY <3>1, <3>2
  <2>. QED BY <2>1
<1>2. \A x \in DOMAIN r : \A d \in r[x].children : d \in DOMAIN r /\ r[d].parent = x
  <2>1. ASSUME NEW x \in DOMAIN r, NEW d \in r[x].children
        PROVE  d \in DOMAIN r /\ r[d].parent = x
    <3>1. CASE d = c
      <4>1. CASE x = p
        BY <3>1, <4>1 DEF Moves
      <4>2. CASE x # p
        <5>1. x \in DOMAIN t /\ c \in t[x].children /\ x # t[c].parent
          BY <2>1, <3>1, <4>2 DEF Moves
        <5>. QED BY <5>1 DEF TreeOK
      <4>. QED BY <4>1, <4>2
    <3>2. CASE d # c
      <4>1. x \in DOMAIN t /\ d \in t[x].children
        BY <2>1, <3>2, SMTT(30) DEF Moves
      <4>2. d \in DOMAIN t /\ t[d].parent = x
        BY <4>1 DEF TreeOK
      <4>. QED BY <3>2, <4>2 DEF Moves
    <3>. QED BY <3>1, <3>2
  <2>. QED BY <2>1
<1>3. \A x \in DOMAIN r : \A d \in r[x].links : d \in DOMAIN r /\ x \in r[d].links
  BY DEF TreeOK, Moves
<1>4. \A x \in DOMAIN r : r[x].temporary => r[x].children = {} /\ x \in tmp
  BY SMTT(30) DEF TreeOK, Moves
<1>5. \A x \in DOMAIN r : DOMAIN r[x] = ChanFields
  BY DEF Moves
<1>. QED BY <1>1, <1>2, <1>3, <1>4, <1>5 DEF TreeOK

\* Links change, on both sides.
Relinks(t, r) ==
    /\ DOMAIN r = DOMAIN t
    /\ \A x \in DOMAIN t : DOMAIN r[x] = ChanFields /\ \A f \in ChanFields \ {"links"} : r[x][f] = t[x][f]
    /\ \A x \in DOMAIN t : \A d \in r[x].links : d \in DOMAIN t /\ x \in r[d].links

\* So does a change of links that is made at both ends.
LEMMA RelinksOK ==
    ASSUME NEW t, NEW tmp, TreeOK(t, tmp), NEW r, Relinks(t, r)
    PROVE  TreeOK(r, tmp)
<1>1. /\ DOMAIN r = DOMAIN t
      /\ \A x \in DOMAIN t : /\ r[x].parent = t[x].parent /\ r[x].children = t[x].children
                             /\ r[x].temporary = t[x].temporary
  BY DEF Relinks, ChanFields
<1>. QED BY <1>1, SMTT(30) DEF TreeOK, Relinks

\* LinkChannels and UnlinkChannels make it at both ends.
LEMMA LinkRelinks ==
    ASSUME NEW t, NEW tmp, TreeOK(t, tmp), NEW a \in DOMAIN t, NEW b \in DOMAIN t
    PROVE  Relinks(t, LinkChannels(t, a, b)) /\ Relinks(t, UnlinkChannels(t, a, b))
<1>1. TreeFields(t)
  BY DEF TreeOK, TreeFields
<1>2. Relinks(t, LinkChannels(t, a, b))
  <2> DEFINE r == LinkChannels(t, a, b)
  <2>1. /\ DOMAIN r = DOMAIN t
        /\ \A x \in DOMAIN t :
              /\ DOMAIN r[x] = ChanFields
              /\ \A y : y \in r[x].links <=> y \in t[x].links \/ (x = a /\ y = b) \/ (x = b /\ y = a)
              /\ \A f \in ChanFields \ {"links"} : r[x][f] = t[x][f]
    BY <1>1, LinkCells, SMTT(30)
  <2>. HIDE DEF r
  <2>2. \A x \in DOMAIN t : \A d \in r[x].links : d \in DOMAIN t /\ x \in r[d].links
    BY <2>1, SMTT(30) DEF TreeOK
  <2>3. Relinks(t, r)
    BY <2>1, <2>2 DEF Relinks
  <2>. QED BY <2>3 DEF r
<1>3. Relinks(t, UnlinkChannels(t, a, b))
  <2> DEFINE r == UnlinkChannels(t, a, b)
  <2>1. /\ DOMAIN r = DOMAIN t
        /\ \A x \in DOMAIN t :
              /\ DOMAIN r[x] = ChanFields
              /\ \A y : y \in r[x].links <=> y \in t[x].links /\ ~(x = a /\ y = b) /\ ~(x = b /\ y = a)
              /\ \A f \in ChanFields \ {"links"} : r[x][f] = t[x][f]
    BY <1>1, UnlinkCells, SMTT(30)
  <2>. HIDE DEF r
  <2>2. \A x \in DOMAIN t : \A d \in r[x].links : d \in DOMAIN t /\ x \in r[d].links
    BY <2>1, SMTT(30) DEF TreeOK
  <2>3. Relinks(t, r)
    BY <2>1, <2>2 DEF Relinks
  <2>. QED BY <2>3 DEF r
<1>. QED BY <1>2, <1>3

\* Channel c is removed, with everything below it.
Removes(t, r, c, gone) ==
    /\ c \in gone /\ gone \subseteq DOMAIN t /\ DOMAIN r = DOMAIN t \ gone
    /\ \A x \in gone : t[x].children \subseteq gone
    /\ \A x \in gone : x = c \/ t[x].parent \in gone
    /\ t[c].temporary => gone = {c}
    /\ \A x \in DOMAIN r : DOMAIN r[x] = ChanFields
    /\ \A x \in DOMAIN r : r[x].parent = t[x].parent /\ r[x].name = t[x].name /\ r[x].temporary = t[x].temporary
    /\ \A x \in DOMAIN r : r[x].links = t[x].links \ gone
    /\ \A x \in DOMAIN r : r[x].children = IF x = t[c].parent THEN t[x].children \ {c} ELSE t[x].children

\* RemoveChannel takes a channel and all that AllSubChannels reaches.
LEMMA RemoveRemoves ==
    ASSUME NEW t, NEW tmp, TreeOK(t, tmp), IsFiniteSet(DOMAIN t), NEW c \in DOMAIN t
    PROVE  \E gone : Removes(t, RemoveChannel(t, c), c, gone)
<1> DEFINE W == AllSubChannels(t, c)
           gone == {c} \cup W
           p == t[c].parent
           rest == [d \in DOMAIN t \ gone |-> [t[d] EXCEPT !.links = @ \ gone]]
           r == [rest EXCEPT ![p].children = @ \ {c}]
<1>1. RemoveChannel(t, c) = r
  BY DEF RemoveChannel
<1>2. /\ DOMAIN Children(t) = DOMAIN t
      /\ \A x \in DOMAIN t : Children(t)[x] = t[x].children /\ t[x].children \subseteq DOMAIN t
  BY DEF Children, TreeOK
<1>3. /\ t[c].children \subseteq W /\ W \subseteq DOMAIN t
      /\ \A x \in W : t[x].children \subseteq W
      /\ \A x \in W : x \in t[c].children \/ \E y \in W : x \in t[y].children
      /\ t[c].children = {} => W = {}
  <2> DEFINE step == Children(t)
             S == t[c].children
  <2>1. W = Walk(step, S)
    BY DEF AllSubChannels
  <2>2. /\ IsFiniteSet(DOMAIN step) /\ S \in SUBSET DOMAIN step
        /\ \A x \in DOMAIN step : step[x] \subseteq DOMAIN step
    BY <1>2
  <2>. HIDE DEF step, S
  <2>3. /\ S \subseteq Walk(step, S) /\ Walk(step, S) \subseteq DOMAIN step
        /\ \A x \in Walk(step, S) : step[x] \subseteq Walk(step, S)
        /\ \A x \in Walk(step, S) : x \in S \/ \E y \in Walk(step, S) : x \in step[y]
        /\ S = {} => Walk(step, S) = {}
    BY <2>2, WalkClosed
  <2>. HIDE DEF W
  <2>. QED BY <1>2, <2>1, <2>3 DEF step, S
<1>. HIDE DEF W
<1>4. c \in gone /\ gone \subseteq DOMAIN t
  BY <1>3
<1>5. \A x \in gone : t[x].children \subseteq gone
  BY <1>3
<1>6. \A x \in gone : x = c \/ t[x].parent \in gone
  BY <1>3, SMTT(30) DEF TreeOK
<1>7. t[c].temporary => gone = {c}
  BY <1>3 DEF TreeOK
<1>. HIDE DEF gone
<1>8. DOMAIN rest = DOMAIN t \ gone /\ DOMAIN r = DOMAIN rest
  OBVIOUS
<1>9. ASSUME NEW x \in DOMAIN rest
      PROVE  /\ DOMAIN rest[x] = ChanFields /\ rest[x].parent = t[x].parent /\ rest[x].name = t[x].name
             /\ rest[x].temporary = t[x].temporary /\ rest[x].children = t[x].children
             /\ rest[x].links = t[x].links \ gone
  <2>1. rest[x] = [t[x] EXCEPT !.links = @ \ gone]
    OBVIOUS
  <2>2. DOMAIN t[x] = ChanFields
    BY DEF TreeOK
  <2>. HIDE DEF rest
  <2>. QED BY <2>1, <2>2 DEF ChanFields
<1>. HIDE DEF rest
<1>10. ASSUME NEW x \in DOMAIN r
       PROVE  /\ DOMAIN r[x] = ChanFields /\ r[x].parent = t[x].parent /\ r[x].name = t[x].name
              /\ r[x].temporary = t[x].temporary /\ r[x].links = t[x].links \ gone
              /\ r[x].children = IF x = p THEN t[x].children \ {c} ELSE t[x].children
  <2>1. CASE x = p
    <3>1. r[x] = [rest[x] EXCEPT !.children = @ \ {c}]
      BY <1>8, <2>1
    <3>. HIDE DEF r
    <3>. QED BY <1>8, <1>9, <2>1, <3>1 DEF ChanFields
  <2>2. CASE x # p
    <3>1. r[x] = rest[x]
      BY <1>8, <2>2
    <3>. HIDE DEF r
    <3>. QED BY <1>8, <1>9, <2>2, <3>1
  <2>. QED BY <2>1, <2>2
<1>. HIDE DEF r
<1>11. Removes(t, r, c, gone)
  BY <1>4, <1>5, <1>6, <1>7, <1>8, <1>10 DEF Removes
<1>. QED BY <1>1, <1>11

\* What is left is a tree: no orphans, and no links to what is gone.
LEMMA RemovesOK ==
    ASSUME NEW t, NEW tmp, TreeOK(t, tmp), NEW r, NEW c \in DOMAIN t, NEW gone, Removes(t, r, c, gone)
    PROVE  TreeOK(r, tmp)
<1>0. \A x \in DOMAIN r : x \in DOMAIN t /\ x \notin gone /\ x # c
  BY DEF Removes
<1>1. ASSUME NEW x \in DOMAIN r, r[x].parent # NoChannel
      PROVE  r[x].parent \in DOMAIN r /\ x \in r[r[x].parent].children
  <2> DEFINE p == t[x].parent
  <2>1. r[x].parent = p
    BY DEF Removes
  <2>2. p \in DOMAIN t /\ x \in t[p].children
    BY <1>0, <1>1, <2>1 DEF TreeOK
  <2>3. p \notin gone
    BY <1>0, <2>2 DEF Removes
  <2>. HIDE DEF p
  <2>4. p \in DOMAIN r
    BY <2>2, <2>3 DEF Removes
  <2>. QED BY <1>0, <2>1, <2>2, <2>4 DEF Removes
<1>2. ASSUME NEW x \in DOMAIN r, NEW d \in r[x].children
      PROVE  d \in DOMAIN r /\ r[d].parent = x
  <2>1. d \in t[x].children /\ ~(d = c /\ x = t[c].parent)
    BY DEF Removes
  <2>2. d \in DOMAIN t /\ t[d].parent = x
    BY <1>0, <2>1 DEF TreeOK
  <2>3. d \notin gone
    BY <1>0, <2>1, <2>2 DEF Removes
  <2>. QED BY <2>2, <2>3 DEF Removes
<1>3. ASSUME NEW x \in DOMAIN r, NEW d \in r[x].links
      PROVE  d \in DOMAIN r /\ x \in r[d].links
  <2>1. d \in t[x].links /\ d \notin gone
    BY SMTT(30) DEF Removes
  <2>2. d \in DOMAIN t /\ x \in t[d].links
    BY <1>0, <2>1 DEF TreeOK
  <2>. QED BY <1>0, <2>1, <2>2, SMTT(30) DEF Removes
<1>4. \A x \in DOMAIN r : r[x].temporary => r[x].children = {} /\ x \in tmp
  BY <1>0 DEF TreeOK, Removes
<1>5. \A x \in DOMAIN r : DOMAIN r[x] = ChanFields
  BY DEF Removes
<1>. QED BY <1>1, <1>2, <1>3, <1>4, <1>5 DEF TreeOK

\* RemoveRegistration leaves shape and names of the channels.
LEMMA ForgetShape ==
    ASSUME NEW t, TreeFields(t), NEW us
    PROVE  SameShape(t, ForgetUsers(t, us)) /\ \A c \in DOMAIN t : ForgetUsers(t, us)[c].name = t[c].name
<1> DEFINE r == ForgetUsers(t, us)
<1>1. DOMAIN r = DOMAIN t
  BY DEF ForgetUsers
<1>2. ASSUME NEW c \in DOMAIN t
      PROVE  /\ DOMAIN r[c] = DOMAIN t[c] /\ r[c].parent = t[c].parent /\ r[c].children = t[c].children
             /\ r[c].links = t[c].links /\ r[c].temporary = t[c].temporary /\ r[c].name = t[c].name
  <2> DEFINE A == SelectSeq(t[c].acls, LAMBDA e : e.uid \notin us)
             G == [g \in DOMAIN t[c].groups |-> t[c].groups[g] \ us]
  <2>1. r[c] = [t[c] EXCEPT !.acls = A, !.groups = G]
    BY DEF ForgetUsers
  <2>2. DOMAIN t[c] = ChanFields
    BY DEF TreeFields
  <2>. HIDE DEF A, G, r
  <2>. QED BY <2>1, <2>2 DEF ChanFields
<1>. HIDE DEF r
<1>3. SameShape(t, r) /\ \A c \in DOMAIN t : r[c].name = t[c].name
  BY <1>1, <1>2 DEF SameShape
<1>. QED BY <1>3 DEF r

\* A new name leaves the shape.
LEMMA RenameShape ==
    ASSUME NEW t, TreeFields(t), NEW c \in DOMAIN t, NEW name
    PROVE  LET r == [t EXCEPT ![c].name = name]
           IN SameShape(t, r) /\ \A x \in DOMAIN t : r[x].name = IF x = c THEN name ELSE t[x].name
<1> DEFINE r == [t EXCEPT ![c].name = name]
<1>1. DOMAIN r = DOMAIN t
  OBVIOUS
<1>2. ASSUME NEW x \in DOMAIN t
      PROVE  /\ DOMAIN r[x] = DOMAIN t[x] /\ r[x].parent = t[x].parent /\ r[x].children = t[x].children
             /\ r[x].links = t[x].links /\ r[x].temporary = t[x].temporary
             /\ r[x].name = IF x = c THEN name ELSE t[x].name
  <2>1. r[x] = IF x = c THEN [t[x] EXCEPT !.name = name] ELSE t[x]
    OBVIOUS
  <2>2. DOMAIN t[x] = ChanFields
    BY DEF TreeFields
  <2>. HIDE DEF r
  <2>. QED BY <2>1, <2>2 DEF ChanFields
<1>. HIDE DEF r
<1>3. SameShape(t, r) /\ \A x \in DOMAIN t : r[x].name = IF x = c THEN name ELSE t[x].name
  BY <1>1, <1>2 DEF SameShape
<1>. QED BY <1>3 DEF r

\* handleAclMessage leaves shape and names.
LEMMA AclShape ==
    ASSUME TreeFields(mem.tree), NEW a, NEW c \in DOMAIN mem.tree, NEW acls, NEW groups
    PROVE  LET r == [mem.tree EXCEPT ![c] = Given(a, c, acls, groups)]
           IN SameShape(mem.tree, r) /\ \A x \in DOMAIN mem.tree : r[x].name = mem.tree[x].name
<1> DEFINE t == mem.tree
           g == Given(a, c, acls, groups)
           r == [t EXCEPT ![c] = g]
<1>1. DOMAIN r = DOMAIN t
  OBVIOUS
<1>2. /\ DOMAIN g = DOMAIN t[c] /\ g.parent = t[c].parent /\ g.children = t[c].children
      /\ g.links = t[c].links /\ g.temporary = t[c].temporary /\ g.name = t[c].name
  <2> DEFINE A == Append(acls, CreatorACL(a))
  <2>1. g = [t[c] EXCEPT !.inherit = TRUE, !.groups = groups, !.acls = A]
    BY DEF Given
  <2>2. DOMAIN t[c] = ChanFields
    BY DEF TreeFields
  <2>. HIDE DEF t, g, A
  <2>. QED BY <2>1, <2>2 DEF ChanFields
<1>. HIDE DEF g
<1>3. \A x \in DOMAIN t : r[x] = IF x = c THEN g ELSE t[x]
  OBVIOUS
<1>. HIDE DEF r
<1>4. SameShape(t, r) /\ \A x \in DOMAIN t : r[x].name = t[x].name
  BY <1>1, <1>2, <1>3 DEF SameShape
<1>. QED BY <1>4 DEF r, g
==============================================================================
