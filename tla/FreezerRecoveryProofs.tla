------------------------ MODULE FreezerRecoveryProofs ------------------------
(* Proofs about Freezer, second part: the channels on disk, and the recovery   *)
(* of the whole server.  What is in the files is right, apart from the changes *)
(* that the code does not log, and the log keeps right any load that is        *)
(* already right.                                                              *)
EXTENDS FreezerProofs

USE ZenonT(40)

-----------------------------------------------------------------------------
\* The channels in the files.

\* The channels that are stored.
Lasting(t) == {c \in DOMAIN t : ~t[c].temporary}

\* A load links c and d, from one side or the other.
LinkedIn(ls, c, d) == \/ c \in DOMAIN ls.raw /\ d \in ls.raw[c].links
                      \/ d \in DOMAIN ls.raw /\ c \in ls.raw[d].links

\* No link of c and d has been written to the log: one of them is not there
\* yet, or they are not linked and none has been taken back.
Apart(s, unl, c, d) ==
    \/ c >= s.nextChan \/ d >= s.nextChan
    \/ /\ c \in Lasting(s.tree) /\ d \in Lasting(s.tree) /\ d \notin s.tree[c].links
       /\ <<"unlinked", {c, d}>> \notin unl

\* The load ls has the channels of the server s.
Right(ls, s, unl, tmp) ==
    /\ \A c \in Lasting(s.tree) : c \in DOMAIN ls.raw
    /\ ~ls.panic => \A c \in DOMAIN ls.raw : c \in DOMAIN s.tree \/ c \in tmp
    /\ \A c \in DOMAIN ls.raw : c < s.nextChan
    /\ \A c \in Lasting(s.tree) : ls.raw[c].name = s.tree[c].name
    /\ \A c \in Lasting(s.tree) : <<"moved", c>> \notin unl =>
          /\ c \in DOMAIN ls.parents <=> s.tree[c].parent # NoChannel
          /\ c \in DOMAIN ls.parents => ls.parents[c] = s.tree[c].parent
    /\ \A c, d \in Lasting(s.tree) : d \in s.tree[c].links => LinkedIn(ls, c, d)
    /\ \A c, d \in Nat : Apart(s, unl, c, d) => ~LinkedIn(ls, c, d)

\* The load k that a log makes of ls is not behind ls.
Keeps(ls, k, s, unl, tmp) ==
    /\ ls.panic => k.panic
    /\ \A c \in DOMAIN ls.raw : c \in DOMAIN k.raw
    /\ ~k.panic => \A c \in DOMAIN k.raw : c \in DOMAIN ls.raw \/ c \in DOMAIN s.tree \/ c \in tmp
    /\ \A c \in DOMAIN k.raw : c \in DOMAIN ls.raw \/ c < s.nextChan
    /\ \A c \in Lasting(s.tree) : c \in DOMAIN ls.raw /\ ls.raw[c].name = s.tree[c].name =>
          k.raw[c].name = s.tree[c].name
    /\ \A c \in DOMAIN ls.raw : /\ c \in DOMAIN k.parents <=> c \in DOMAIN ls.parents
                                /\ c \in DOMAIN ls.parents => k.parents[c] = ls.parents[c]
    /\ \A c, d \in Lasting(s.tree) :
          c \in DOMAIN ls.raw /\ d \in DOMAIN ls.raw /\ d \in s.tree[c].links /\ LinkedIn(ls, c, d) => LinkedIn(k, c, d)
    /\ \A c, d \in Nat : Apart(s, unl, c, d) /\ ~LinkedIn(ls, c, d) => ~LinkedIn(k, c, d)

KeepsChans(l, s, unl, tmp) == \A ls : IsLoad(ls) => Keeps(ls, RunLog(l, ls), s, unl, tmp)

\* A transaction that takes the load k to m carries the change of the server
\* from s to v, with the histories before and after it.
Carried(k, m, s, v, unl, unlNew, tmp, tmpNew) ==
    /\ \A c \in DOMAIN k.raw : c \in DOMAIN m.raw
    /\ ~m.panic => /\ ~k.panic
                   /\ \A c \in DOMAIN m.raw : c \in DOMAIN k.raw \/ c \in DOMAIN v.tree \/ c \in tmpNew
                   /\ \A c : c \in DOMAIN s.tree \/ c \in tmp => c \in DOMAIN v.tree \/ c \in tmpNew
    /\ \A c \in DOMAIN m.raw : c \in DOMAIN k.raw \/ c < v.nextChan
    /\ s.nextChan \in Nat /\ v.nextChan \in Nat /\ s.nextChan <= v.nextChan
    /\ \A c \in Lasting(v.tree) : c \in Lasting(s.tree) \/ c \in DOMAIN m.raw
    /\ \A c \in Lasting(v.tree) : c \in DOMAIN m.raw =>
          \/ m.raw[c].name = v.tree[c].name
          \/ /\ c \in Lasting(s.tree) /\ c \in DOMAIN k.raw
             /\ m.raw[c].name = k.raw[c].name /\ v.tree[c].name = s.tree[c].name
    /\ \A c \in DOMAIN k.raw : /\ c \in DOMAIN m.parents <=> c \in DOMAIN k.parents
                               /\ c \in DOMAIN k.parents => m.parents[c] = k.parents[c]
    /\ \A c \in Lasting(v.tree) : <<"moved", c>> \notin unlNew =>
          \/ c \in Lasting(s.tree) /\ v.tree[c].parent = s.tree[c].parent
          \/ /\ ~(c < s.nextChan)
             /\ c \notin DOMAIN k.raw => /\ v.tree[c].parent # NoChannel
                                         /\ c \in DOMAIN m.parents /\ m.parents[c] = v.tree[c].parent
    /\ \A c, d \in Lasting(v.tree) : d \in v.tree[c].links =>
          /\ c \in Lasting(s.tree) /\ d \in Lasting(s.tree)
          /\ c \in DOMAIN k.raw /\ d \in DOMAIN k.raw =>
                LinkedIn(m, c, d) \/ (d \in s.tree[c].links /\ (LinkedIn(k, c, d) => LinkedIn(m, c, d)))
    /\ \A c, d \in Nat : Apart(v, unlNew, c, d) => Apart(s, unl, c, d) /\ (LinkedIn(m, c, d) => LinkedIn(k, c, d))
    /\ \A x \in unl : x \in unlNew
    /\ (\A c \in Lasting(s.tree) : c \in DOMAIN k.raw) =>
          \A c \in DOMAIN m.parents : c \in DOMAIN k.raw \/ m.parents[c] \in DOMAIN k.raw

\* If a transaction carries the change, channels that were right on disk are
\* right after it.
LEMMA RightCarried ==
    ASSUME NEW k, NEW m, NEW s, NEW v, NEW unl, NEW unlNew, NEW tmp, NEW tmpNew,
           IsLoad(k), Carried(k, m, s, v, unl, unlNew, tmp, tmpNew), Right(k, s, unl, tmp)
    PROVE  Right(m, v, unlNew, tmpNew)
<1>0. \A c \in DOMAIN k.raw : c \in Nat
  BY SMTT(30) DEF IsLoad
<1>1. \A c \in Lasting(v.tree) : c \in DOMAIN m.raw
  BY DEF Right, Carried
<1>2. ~m.panic => \A c \in DOMAIN m.raw : c \in DOMAIN v.tree \/ c \in tmpNew
  BY DEF Right, Carried
<1>3. \A c \in DOMAIN m.raw : c < v.nextChan
  <2>1. \A c \in DOMAIN k.raw : c < s.nextChan
    BY DEF Right
  <2>2. /\ \A c \in DOMAIN m.raw : c \in DOMAIN k.raw \/ c < v.nextChan
        /\ s.nextChan \in Nat /\ v.nextChan \in Nat /\ s.nextChan <= v.nextChan
    BY DEF Carried
  <2>. QED BY <1>0, <2>1, <2>2, SMTT(30)
<1>4. \A c \in Lasting(v.tree) : m.raw[c].name = v.tree[c].name
  BY <1>1 DEF Right, Carried
<1>5. ASSUME NEW c \in Lasting(v.tree), <<"moved", c>> \notin unlNew
      PROVE  /\ c \in DOMAIN m.parents <=> v.tree[c].parent # NoChannel
             /\ c \in DOMAIN m.parents => m.parents[c] = v.tree[c].parent
  <2>1. <<"moved", c>> \notin unl
    BY <1>5 DEF Carried
  <2>2. CASE c \in Lasting(s.tree) /\ v.tree[c].parent = s.tree[c].parent
    <3>1. /\ c \in DOMAIN k.parents <=> s.tree[c].parent # NoChannel
          /\ c \in DOMAIN k.parents => k.parents[c] = s.tree[c].parent
          /\ c \in DOMAIN k.raw
      BY <2>1, <2>2 DEF Right
    <3>2. /\ c \in DOMAIN m.parents <=> c \in DOMAIN k.parents
          /\ c \in DOMAIN k.parents => m.parents[c] = k.parents[c]
      BY <3>1 DEF Carried
    <3>. QED BY <2>2, <3>1, <3>2
  <2>3. CASE ~(c \in Lasting(s.tree) /\ v.tree[c].parent = s.tree[c].parent)
    <3>1. /\ ~(c < s.nextChan)
          /\ c \notin DOMAIN k.raw => /\ v.tree[c].parent # NoChannel
                                      /\ c \in DOMAIN m.parents /\ m.parents[c] = v.tree[c].parent
      BY <1>5, <2>3 DEF Carried
    <3>2. c \notin DOMAIN k.raw
      BY <3>1 DEF Right
    <3>. QED BY <3>1, <3>2
  <2>. QED BY <2>2, <2>3
<1>6. \A c, d \in Lasting(v.tree) : d \in v.tree[c].links => LinkedIn(m, c, d)
  <2>1. ASSUME NEW c \in Lasting(v.tree), NEW d \in Lasting(v.tree), d \in v.tree[c].links
        PROVE  LinkedIn(m, c, d)
    <3>1. c \in Lasting(s.tree) /\ d \in Lasting(s.tree)
      BY <2>1 DEF Carried
    <3>2. c \in DOMAIN k.raw /\ d \in DOMAIN k.raw
      BY <3>1 DEF Right
    <3>3. LinkedIn(m, c, d) \/ (d \in s.tree[c].links /\ (LinkedIn(k, c, d) => LinkedIn(m, c, d)))
      BY <2>1, <3>2 DEF Carried
    <3>4. d \in s.tree[c].links => LinkedIn(k, c, d)
      BY <3>1 DEF Right
    <3>. QED BY <3>3, <3>4
  <2>. QED BY <2>1
<1>7. \A c, d \in Nat : Apart(v, unlNew, c, d) => ~LinkedIn(m, c, d)
  BY DEF Right, Carried
<1>. QED BY <1>1, <1>2, <1>3, <1>4, <1>5, <1>6, <1>7 DEF Right

\* And the log, replayed over any snapshot, stays as new as that snapshot.
LEMMA KeepsCarried ==
    ASSUME NEW ls, NEW k, NEW m, NEW s, NEW v, NEW unl, NEW unlNew, NEW tmp, NEW tmpNew,
           IsLoad(k), Carried(k, m, s, v, unl, unlNew, tmp, tmpNew), Keeps(ls, k, s, unl, tmp)
    PROVE  Keeps(ls, m, v, unlNew, tmpNew)
<1>0. \A c \in DOMAIN k.raw : c \in Nat
  BY SMTT(30) DEF IsLoad
<1>1. \A c \in DOMAIN ls.raw : c \in DOMAIN k.raw /\ c \in DOMAIN m.raw
  BY DEF Keeps, Carried
<1>2. /\ ls.panic => m.panic
      /\ ~m.panic => \A c \in DOMAIN m.raw : c \in DOMAIN ls.raw \/ c \in DOMAIN v.tree \/ c \in tmpNew
  BY DEF Keeps, Carried
<1>3. \A c \in DOMAIN m.raw : c \in DOMAIN ls.raw \/ c < v.nextChan
  <2>1. \A c \in DOMAIN k.raw : c \in DOMAIN ls.raw \/ c < s.nextChan
    BY DEF Keeps
  <2>2. /\ \A c \in DOMAIN m.raw : c \in DOMAIN k.raw \/ c < v.nextChan
        /\ s.nextChan \in Nat /\ v.nextChan \in Nat /\ s.nextChan <= v.nextChan
    BY DEF Carried
  <2>. QED BY <1>0, <2>1, <2>2, SMTT(30)
<1>4. \A c \in Lasting(v.tree) : c \in DOMAIN ls.raw /\ ls.raw[c].name = v.tree[c].name =>
         m.raw[c].name = v.tree[c].name
  BY <1>1 DEF Keeps, Carried
<1>5. \A c \in DOMAIN ls.raw : /\ c \in DOMAIN m.parents <=> c \in DOMAIN ls.parents
                               /\ c \in DOMAIN ls.parents => m.parents[c] = ls.parents[c]
  BY <1>1 DEF Keeps, Carried
<1>6. ASSUME NEW c \in Lasting(v.tree), NEW d \in Lasting(v.tree), c \in DOMAIN ls.raw, d \in DOMAIN ls.raw,
             d \in v.tree[c].links, LinkedIn(ls, c, d)
      PROVE  LinkedIn(m, c, d)
  <2>1. c \in Lasting(s.tree) /\ d \in Lasting(s.tree)
    BY <1>6 DEF Carried
  <2>2. c \in DOMAIN k.raw /\ d \in DOMAIN k.raw
    BY <1>1, <1>6
  <2>3. LinkedIn(m, c, d) \/ (d \in s.tree[c].links /\ (LinkedIn(k, c, d) => LinkedIn(m, c, d)))
    BY <1>6, <2>2 DEF Carried
  <2>4. d \in s.tree[c].links => LinkedIn(k, c, d)
    BY <1>6, <2>1 DEF Keeps
  <2>. QED BY <2>3, <2>4
<1>7. \A c, d \in Nat : Apart(v, unlNew, c, d) /\ ~LinkedIn(ls, c, d) => ~LinkedIn(m, c, d)
  BY DEF Keeps, Carried
<1>. QED BY <1>1, <1>2, <1>3, <1>4, <1>5, <1>6, <1>7 DEF Keeps

\* A snapshot that is right stays right under the old log, which is what a
\* crash after the rename leaves.
LEMMA RightKept ==
    ASSUME NEW ls, NEW k, NEW s, NEW unl, NEW tmp, Right(ls, s, unl, tmp), Keeps(ls, k, s, unl, tmp)
    PROVE  Right(k, s, unl, tmp)
<1>1. \A c \in Lasting(s.tree) : c \in DOMAIN k.raw /\ c \in DOMAIN ls.raw
  BY DEF Right, Keeps
<1>2. ~k.panic => \A c \in DOMAIN k.raw : c \in DOMAIN s.tree \/ c \in tmp
  <2>1. ASSUME ~k.panic, NEW c \in DOMAIN ls.raw PROVE c \in DOMAIN s.tree \/ c \in tmp
    BY <2>1 DEF Right, Keeps
  <2>. QED BY <2>1 DEF Keeps
<1>3. \A c \in DOMAIN k.raw : c < s.nextChan
  BY DEF Right, Keeps
<1>4. \A c \in Lasting(s.tree) : k.raw[c].name = s.tree[c].name
  BY DEF Right, Keeps
<1>5. \A c \in Lasting(s.tree) : <<"moved", c>> \notin unl =>
         /\ c \in DOMAIN k.parents <=> s.tree[c].parent # NoChannel
         /\ c \in DOMAIN k.parents => k.parents[c] = s.tree[c].parent
  BY <1>1 DEF Right, Keeps
<1>6. \A c, d \in Lasting(s.tree) : d \in s.tree[c].links => LinkedIn(k, c, d)
  BY <1>1 DEF Right, Keeps
<1>7. \A c, d \in Nat : Apart(s, unl, c, d) => ~LinkedIn(k, c, d)
  BY DEF Right, Keeps
<1>. QED BY <1>1, <1>2, <1>3, <1>4, <1>5, <1>6, <1>7 DEF Right

\* Both loads have the same channels; the second may have panicked.
SameChans(k, m) ==
    /\ \A c : c \in DOMAIN m.raw <=> c \in DOMAIN k.raw
    /\ \A c \in DOMAIN k.raw : m.raw[c].name = k.raw[c].name /\ m.raw[c].links = k.raw[c].links
    /\ \A c : c \in DOMAIN m.parents <=> c \in DOMAIN k.parents
    /\ \A c \in DOMAIN k.parents : m.parents[c] = k.parents[c]
    /\ k.panic => m.panic

\* An entry that gives a channel neither name nor links.
ChanQuiet(e) == e.kind = "Channel" => "name" \notin DOMAIN e.set /\ "links" \notin DOMAIN e.set

\* An entry of a user, of bans, of the password or of a channel without name
\* and links says nothing of names, parents and links; a removal only makes
\* the load panic.
LEMMA QuietChanEntry ==
    ASSUME NEW ls, IsLoad(ls), NEW e, IsEntry(e), ChanQuiet(e)
    PROVE  SameChans(ls, Replay(ls, e))
<1> DEFINE k == Replay(ls, e)
<1>1. RawEffect(ls, e, k)
  BY ReplayRaw
<1>. HIDE DEF k
<1>2. \A c : SetsChan(ls, e, c) => c \in DOMAIN ls.raw /\ "name" \notin DOMAIN e.set /\ "links" \notin DOMAIN e.set
  BY DEF SetsChan, ChanQuiet
<1>3. \A c : c \in DOMAIN k.raw <=> c \in DOMAIN ls.raw
  BY <1>1, <1>2 DEF RawEffect
<1>4. \A c \in DOMAIN ls.raw : k.raw[c].name = ls.raw[c].name /\ k.raw[c].links = ls.raw[c].links
  BY <1>1, <1>2, <1>3 DEF RawEffect
<1>5. \A c : c \in DOMAIN k.parents <=> c \in DOMAIN ls.parents
  BY <1>1, <1>2 DEF RawEffect
<1>6. \A c \in DOMAIN ls.parents : k.parents[c] = ls.parents[c]
  BY <1>1, <1>5 DEF RawEffect, IsLoad
<1>7. SameChans(ls, k)
  BY <1>1, <1>3, <1>4, <1>5, <1>6 DEF SameChans, RawEffect
<1>. QED BY <1>7 DEF k

QuietForChans(es) == \E S : es \in Seq(S) /\ \A e \in S : IsEntry(e) /\ ChanQuiet(e)

\* Nor does a transaction of such entries.
LEMMA QuietChans ==
    ASSUME NEW es, QuietForChans(es), NEW ls, IsLoad(ls)
    PROVE  SameChans(ls, ReplayAll(ls, es))
<1>1. PICK S : es \in Seq(S) /\ \A e \in S : IsEntry(e) /\ ChanQuiet(e)
  BY DEF QuietForChans
<1>2. PICK f : Chain(ls, es, f) /\ ReplayAll(ls, es) = f[Len(es)]
  BY <1>1, ReplayChain
<1>3. /\ Len(es) \in Nat /\ f[0] = ls
      /\ \A i \in 0..Len(es) - 1 : i + 1 \in 1..Len(es) /\ f[i + 1] = Replay(f[i], es[i + 1])
  BY <1>1, <1>2, ChainSteps, SMTT(30)
<1> DEFINE n == Len(es)
           T == {i \in 0..n : IsLoad(f[i]) /\ SameChans(ls, f[i])}
<1>4. 0 \in T
  <2>1. SameChans(ls, ls)
    BY DEF SameChans
  <2>. QED BY <1>3, <2>1, SMTT(30)
<1>5. ASSUME NEW i \in 0..n - 1, i \in T PROVE i + 1 \in T
  <2>1. i + 1 \in 0..n /\ i + 1 \in 1..n
    BY <1>3, SMTT(30)
  <2>2. es[i + 1] \in S /\ IsEntry(es[i + 1]) /\ ChanQuiet(es[i + 1])
    BY <1>1, <2>1, SMTT(30)
  <2>3. IsLoad(f[i]) /\ f[i + 1] = Replay(f[i], es[i + 1]) /\ SameChans(ls, f[i])
    BY <1>3, <1>5
  <2>4. IsLoad(f[i + 1]) /\ SameChans(f[i], f[i + 1])
    BY <2>2, <2>3, ReplayIsLoad, QuietChanEntry
  <2>5. SameChans(ls, f[i + 1])
    BY <2>3, <2>4 DEF SameChans
  <2>. QED BY <2>1, <2>4, <2>5
<1>6. \A i \in 0..n : i \in T
  <2>. HIDE DEF T, n
  <2>1. n \in Nat
    BY <1>3 DEF n
  <2>. QED BY <1>4, <1>5, <2>1, Positions
<1>. QED BY <1>2, <1>3, <1>6, SMTT(30)

\* Transactions of one entry, or the same twice.
LEMMA QuietChanShapes ==
    ASSUME NEW e, IsEntry(e), ChanQuiet(e)
    PROVE  QuietForChans(<<e>>) /\ QuietForChans(<<e>> \o <<e>>)
<1> DEFINE es == <<e>>
<1>1. es \in Seq({e}) /\ es \o es \in Seq({e}) /\ \A x \in {e} : IsEntry(x) /\ ChanQuiet(x)
  BY SMTT(30)
<1>. HIDE DEF es
<1>2. QuietForChans(es) /\ QuietForChans(es \o es)
  BY <1>1, SMTT(30) DEF QuietForChans
<1>. QED BY <1>2 DEF es

\* A change for which nothing is written.
LEMMA QuietChanNone == QuietForChans(<<>>)
<1> DEFINE es == <<>>
<1>1. es \in Seq({}) /\ \A x \in {} : IsEntry(x) /\ ChanQuiet(x)
  BY SMTT(30)
<1>. HIDE DEF es
<1>2. QuietForChans(es)
  BY <1>1, SMTT(30) DEF QuietForChans
<1>. QED BY <1>2 DEF es

\* Nothing that the files have to say of the channels changes from s to v,
\* except that channels may go.
Settled(s, v, unl, unlNew) ==
    /\ s.nextChan \in Nat /\ v.nextChan \in Nat /\ s.nextChan <= v.nextChan
    /\ \A c \in Lasting(v.tree) : c \in Lasting(s.tree) /\ v.tree[c].name = s.tree[c].name
    /\ \A c \in Lasting(v.tree) : v.tree[c].parent = s.tree[c].parent \/ <<"moved", c>> \in unlNew
    /\ \A c, d \in Lasting(v.tree) : d \in v.tree[c].links <=> d \in s.tree[c].links
    /\ \A x \in unl : x \in unlNew

\* Every channel of s is one of v or temporary.
Covered(s, v, tmp, tmpNew) ==
    \A c : c \in DOMAIN s.tree \/ c \in tmp => c \in DOMAIN v.tree \/ c \in tmpNew

\* A quiet transaction carries a change after which the permanent channels
\* are as before, apart from what the history says.
LEMMA QuietCarried ==
    ASSUME NEW k, NEW m, NEW s, NEW v, NEW unl, NEW unlNew, NEW tmp, NEW tmpNew, IsLoad(k),
           SameChans(k, m), Settled(s, v, unl, unlNew), m.panic \/ Covered(s, v, tmp, tmpNew)
    PROVE  Carried(k, m, s, v, unl, unlNew, tmp, tmpNew)
<1>1. \A c, d : LinkedIn(m, c, d) <=> LinkedIn(k, c, d)
  BY DEF LinkedIn, SameChans
<1>2. /\ \A c \in DOMAIN k.raw : c \in DOMAIN m.raw
      /\ \A c \in DOMAIN m.raw : c \in DOMAIN k.raw
      /\ \A c \in DOMAIN k.raw : /\ c \in DOMAIN m.parents <=> c \in DOMAIN k.parents
                                 /\ c \in DOMAIN k.parents => m.parents[c] = k.parents[c]
      /\ \A c \in DOMAIN m.parents : c \in DOMAIN k.raw
  BY DEF SameChans, IsLoad
<1>3. ~m.panic => ~k.panic /\ \A c : c \in DOMAIN s.tree \/ c \in tmp => c \in DOMAIN v.tree \/ c \in tmpNew
  BY DEF SameChans, Covered
<1>4. \A c \in Lasting(v.tree) : c \in DOMAIN m.raw =>
          /\ c \in Lasting(s.tree) /\ c \in DOMAIN k.raw
          /\ m.raw[c].name = k.raw[c].name /\ v.tree[c].name = s.tree[c].name
  BY DEF SameChans, Settled
<1>5. \A c, d \in Lasting(v.tree) : d \in v.tree[c].links =>
          /\ c \in Lasting(s.tree) /\ d \in Lasting(s.tree) /\ d \in s.tree[c].links
  BY DEF Settled
<1>6. ASSUME NEW c \in Nat, NEW d \in Nat, Apart(v, unlNew, c, d) PROVE Apart(s, unl, c, d)
  <2>1. CASE c >= v.nextChan \/ d >= v.nextChan
    BY <2>1, SMTT(30) DEF Apart, Settled
  <2>2. CASE ~(c >= v.nextChan \/ d >= v.nextChan)
    <3>1. /\ c \in Lasting(v.tree) /\ d \in Lasting(v.tree) /\ d \notin v.tree[c].links
          /\ <<"unlinked", {c, d}>> \notin unlNew
      BY <1>6, <2>2 DEF Apart
    <3>. QED BY <3>1 DEF Settled, Apart
  <2>. QED BY <2>1, <2>2
<1>7. /\ s.nextChan \in Nat /\ v.nextChan \in Nat /\ s.nextChan <= v.nextChan
      /\ \A c \in Lasting(v.tree) : c \in Lasting(s.tree)
      /\ \A c \in Lasting(v.tree) : <<"moved", c>> \notin unlNew => v.tree[c].parent = s.tree[c].parent
      /\ \A x \in unl : x \in unlNew
  BY DEF Settled
<1>. QED BY <1>1, <1>2, <1>3, <1>4, <1>5, <1>6, <1>7 DEF Carried

\* The entry of a new permanent channel, with its name and parent, carries
\* its creation.
LEMMA CreateCarried ==
    ASSUME NEW k, IsLoad(k), NEW e, NEW m, RawEffect(k, e, m), NEW s, NEW v, NEW unl, NEW tmp,
           NEW c, NEW p, NEW name, c \in Nat, p # NoChannel, ~s.tree[p].temporary,
           s.nextChan = c, v.nextChan = c + 1, DOMAIN s.tree \subseteq 0..c - 1,
           TreeOK(s.tree, tmp), Grows(s.tree, v.tree, p, c, name, FALSE), e.kind = "Channel", e.id = c,
           DOMAIN e.set = {"name", "parent"}, e.set["name"] = name, e.set["parent"] = p
    PROVE  Carried(k, m, s, v, unl, unl, tmp, tmp)
<1>1. \A x : SetsChan(k, e, x) <=> x = c
  BY DEF SetsChan
<1>2. \A x : x \in DOMAIN m.raw <=> x \in DOMAIN k.raw \/ x = c
  BY <1>1 DEF RawEffect
<1>3. m.raw[c].name = name /\ \A x \in DOMAIN k.raw : x # c => m.raw[x].name = k.raw[x].name
  BY <1>1, <1>2 DEF RawEffect
<1>4. NewChannel("").links = {}
  BY DEF NewChannel
<1>5. \A x \in DOMAIN m.raw : m.raw[x].links = IF x \in DOMAIN k.raw THEN k.raw[x].links ELSE {}
  <2>1. \A x \in DOMAIN m.raw : m.raw[x]["links"] = IF x \in DOMAIN k.raw THEN k.raw[x]["links"] ELSE NewChannel("")["links"]
    BY DEF RawEffect
  <2>. QED BY <1>4, <2>1
<1>6. \A x, y : LinkedIn(m, x, y) <=> LinkedIn(k, x, y)
  BY <1>2, <1>5 DEF LinkedIn
<1>7. /\ \A x : x \in DOMAIN m.parents <=> x \in DOMAIN k.parents \/ (x = c /\ c \notin DOMAIN k.raw)
      /\ \A x \in DOMAIN m.parents : m.parents[x] = IF x \in DOMAIN k.raw THEN k.parents[x] ELSE p
  BY <1>1 DEF RawEffect
<1>8. DOMAIN k.parents \subseteq DOMAIN k.raw
  BY DEF IsLoad
<1>9. /\ c \notin DOMAIN s.tree /\ DOMAIN v.tree = DOMAIN s.tree \cup {c} /\ p \in DOMAIN s.tree
      /\ v.tree[c].parent = p /\ v.tree[c].links = {} /\ v.tree[c].name = name /\ v.tree[c].temporary = FALSE
      /\ \A x \in DOMAIN s.tree : /\ v.tree[x].parent = s.tree[x].parent /\ v.tree[x].links = s.tree[x].links
                                  /\ v.tree[x].name = s.tree[x].name /\ v.tree[x].temporary = s.tree[x].temporary
  BY DEF Grows
<1>10. /\ \A x : x \in Lasting(v.tree) <=> x \in Lasting(s.tree) \/ x = c
       /\ \A x \in Lasting(s.tree) : x # c /\ x \in DOMAIN s.tree
       /\ p \in Lasting(s.tree)
  BY <1>9 DEF Lasting
<1>11. /\ ~m.panic => ~k.panic
       /\ \A x \in DOMAIN m.raw : x \in DOMAIN k.raw \/ x \in DOMAIN v.tree
       /\ \A x : x \in DOMAIN s.tree \/ x \in tmp => x \in DOMAIN v.tree \/ x \in tmp
  BY <1>2, <1>9 DEF RawEffect
<1>12. /\ \A x \in DOMAIN m.raw : x \in DOMAIN k.raw \/ x < v.nextChan
       /\ s.nextChan \in Nat /\ v.nextChan \in Nat /\ s.nextChan <= v.nextChan /\ ~(c < s.nextChan)
  BY <1>2, SMTT(30)
<1>13. \A x \in Lasting(v.tree) : x \in DOMAIN m.raw =>
          \/ m.raw[x].name = v.tree[x].name
          \/ /\ x \in Lasting(s.tree) /\ x \in DOMAIN k.raw
             /\ m.raw[x].name = k.raw[x].name /\ v.tree[x].name = s.tree[x].name
  BY <1>2, <1>3, <1>9, <1>10
<1>14. \A x \in DOMAIN k.raw : /\ x \in DOMAIN m.parents <=> x \in DOMAIN k.parents
                               /\ x \in DOMAIN k.parents => m.parents[x] = k.parents[x]
  BY <1>7
<1>15. \A x \in Lasting(v.tree) :
          \/ x \in Lasting(s.tree) /\ v.tree[x].parent = s.tree[x].parent
          \/ /\ ~(x < s.nextChan)
             /\ x \notin DOMAIN k.raw => /\ v.tree[x].parent # NoChannel
                                         /\ x \in DOMAIN m.parents /\ m.parents[x] = v.tree[x].parent
  BY <1>7, <1>9, <1>10, <1>12
<1>16. \A x, y \in Lasting(v.tree) : y \in v.tree[x].links =>
          x \in Lasting(s.tree) /\ y \in Lasting(s.tree) /\ y \in s.tree[x].links
  <2>1. ASSUME NEW x \in Lasting(v.tree), NEW y \in Lasting(v.tree), y \in v.tree[x].links
        PROVE  x \in Lasting(s.tree) /\ y \in s.tree[x].links
    BY <1>9, <1>10, <2>1
  <2>2. \A x \in Lasting(s.tree) : \A y \in s.tree[x].links : y # c
    BY <1>9, <1>10, SMTT(30) DEF TreeOK
  <2>. QED BY <1>10, <2>1, <2>2
<1>17. ASSUME NEW x \in Nat, NEW y \in Nat, Apart(v, unl, x, y) PROVE Apart(s, unl, x, y)
  <2>1. CASE x >= v.nextChan \/ y >= v.nextChan
    BY <2>1, SMTT(30) DEF Apart
  <2>2. CASE x = c \/ y = c
    BY <2>2, SMTT(30) DEF Apart
  <2>3. CASE ~(x >= v.nextChan \/ y >= v.nextChan) /\ x # c /\ y # c
    <3>1. /\ x \in Lasting(v.tree) /\ y \in Lasting(v.tree) /\ y \notin v.tree[x].links
          /\ <<"unlinked", {x, y}>> \notin unl
      BY <1>17, <2>3 DEF Apart
    <3>. QED BY <1>9, <1>10, <2>3, <3>1 DEF Apart
  <2>. QED BY <2>1, <2>2, <2>3
<1>18. (\A x \in Lasting(s.tree) : x \in DOMAIN k.raw) =>
          \A x \in DOMAIN m.parents : x \in DOMAIN k.raw \/ m.parents[x] \in DOMAIN k.raw
  BY <1>7, <1>8, <1>10
<1>19. \A x \in Lasting(v.tree) : x \in Lasting(s.tree) \/ x \in DOMAIN m.raw
  BY <1>2, <1>10
<1>. QED BY <1>2, <1>6, <1>11, <1>12, <1>13, <1>14, <1>15, <1>16, <1>17, <1>18, <1>19 DEF Carried

\* The entry of a new name carries the edit.
LEMMA RenameCarried ==
    ASSUME NEW k, IsLoad(k), NEW e, NEW m, RawEffect(k, e, m), NEW s, NEW v, NEW unl, NEW tmp, NEW c, NEW name,
           s.nextChan \in Nat, v.nextChan = s.nextChan, DOMAIN s.tree \subseteq 0..s.nextChan - 1,
           c \in DOMAIN s.tree, SameShape(s.tree, v.tree),
           \A x \in DOMAIN s.tree : v.tree[x].name = IF x = c THEN name ELSE s.tree[x].name,
           e.kind = "Channel", e.id = c, DOMAIN e.set = {"name"}, e.set["name"] = name
    PROVE  Carried(k, m, s, v, unl, unl, tmp, tmp)
<1>1. \A x : SetsChan(k, e, x) <=> x = c
  BY DEF SetsChan
<1>2. \A x : x \in DOMAIN m.raw <=> x \in DOMAIN k.raw \/ x = c
  BY <1>1 DEF RawEffect
<1>3. m.raw[c].name = name /\ \A x \in DOMAIN k.raw : x # c => m.raw[x].name = k.raw[x].name
  BY <1>1, <1>2 DEF RawEffect
<1>4. NewChannel("").links = {}
  BY DEF NewChannel
<1>5. \A x \in DOMAIN m.raw : m.raw[x].links = IF x \in DOMAIN k.raw THEN k.raw[x].links ELSE {}
  <2>1. \A x \in DOMAIN m.raw : m.raw[x]["links"] = IF x \in DOMAIN k.raw THEN k.raw[x]["links"] ELSE NewChannel("")["links"]
    BY DEF RawEffect
  <2>. QED BY <1>4, <2>1
<1>6. \A x, y : LinkedIn(m, x, y) <=> LinkedIn(k, x, y)
  BY <1>2, <1>5 DEF LinkedIn
<1>7. /\ \A x : x \in DOMAIN m.parents <=> x \in DOMAIN k.parents
      /\ \A x \in DOMAIN k.parents : m.parents[x] = k.parents[x] /\ x \in DOMAIN k.raw
  BY <1>1 DEF RawEffect, IsLoad
<1>9. /\ DOMAIN v.tree = DOMAIN s.tree
      /\ \A x \in DOMAIN s.tree : /\ v.tree[x].parent = s.tree[x].parent /\ v.tree[x].links = s.tree[x].links
                                  /\ v.tree[x].temporary = s.tree[x].temporary
  BY DEF SameShape
<1>10. /\ \A x : x \in Lasting(v.tree) <=> x \in Lasting(s.tree)
       /\ \A x \in Lasting(s.tree) : x \in DOMAIN s.tree
  BY <1>9 DEF Lasting
<1>11. /\ ~m.panic => ~k.panic
       /\ \A x \in DOMAIN m.raw : x \in DOMAIN k.raw \/ x \in DOMAIN v.tree
       /\ \A x : x \in DOMAIN s.tree \/ x \in tmp => x \in DOMAIN v.tree \/ x \in tmp
  BY <1>2, <1>9 DEF RawEffect
<1>12. /\ \A x \in DOMAIN m.raw : x \in DOMAIN k.raw \/ x < v.nextChan
       /\ s.nextChan <= v.nextChan /\ v.nextChan \in Nat
  <2>1. c < s.nextChan
    BY SMTT(30)
  <2>. QED BY <1>2, <2>1, SMTT(30)
<1>13. \A x \in Lasting(v.tree) : x \in DOMAIN m.raw =>
          \/ m.raw[x].name = v.tree[x].name
          \/ /\ x \in Lasting(s.tree) /\ x \in DOMAIN k.raw
             /\ m.raw[x].name = k.raw[x].name /\ v.tree[x].name = s.tree[x].name
  BY <1>2, <1>3, <1>9, <1>10
<1>15. \A x \in Lasting(v.tree) : x \in Lasting(s.tree) /\ v.tree[x].parent = s.tree[x].parent
  BY <1>9, <1>10
<1>16. \A x, y \in Lasting(v.tree) : y \in v.tree[x].links =>
          x \in Lasting(s.tree) /\ y \in Lasting(s.tree) /\ y \in s.tree[x].links
  BY <1>9, <1>10
<1>17. ASSUME NEW x \in Nat, NEW y \in Nat, Apart(v, unl, x, y) PROVE Apart(s, unl, x, y)
  BY <1>9, <1>10, <1>17 DEF Apart
<1>18. \A x \in DOMAIN m.parents : x \in DOMAIN k.raw
  BY <1>7
<1>. QED BY <1>2, <1>6, <1>7, <1>11, <1>12, <1>13, <1>15, <1>16, <1>17, <1>18 DEF Carried

\* The links of channel c change: those of others do not, and a link that goes
\* is remembered.
LinksOf(t, r, c, unlNew) ==
    /\ \A x \in DOMAIN t : x # c => \A y : y # c => (y \in r[x].links <=> y \in t[x].links)
    /\ \A x \in DOMAIN t : \A y \in t[x].links : y \in r[x].links \/ <<"unlinked", {x, y}>> \in unlNew

\* The entry with all links of one end carries the link; a link taken back
\* may come back from the other end's entry, which the history says.
LEMMA LinksCarried ==
    ASSUME NEW k, IsLoad(k), NEW e, NEW m, RawEffect(k, e, m), NEW s, NEW v, NEW unl, NEW unlNew, NEW tmp, NEW c,
           s.nextChan \in Nat, v.nextChan = s.nextChan, DOMAIN s.tree \subseteq 0..s.nextChan - 1,
           c \in DOMAIN s.tree, Relinks(s.tree, v.tree), LinksOf(s.tree, v.tree, c, unlNew),
           \A x \in unl : x \in unlNew,
           e.kind = "Channel", e.id = c,
           DOMAIN e.set = (IF v.tree[c].links = {} THEN {} ELSE {"links"}),
           v.tree[c].links # {} => e.set["links"] = v.tree[c].links
    PROVE  Carried(k, m, s, v, unl, unlNew, tmp, tmp)
<1>1. \A x : SetsChan(k, e, x) <=> x = c /\ c \in DOMAIN k.raw
  BY SMTT(30) DEF SetsChan
<1>2. \A x : x \in DOMAIN m.raw <=> x \in DOMAIN k.raw
  BY <1>1 DEF RawEffect
<1>3. \A x \in DOMAIN k.raw : m.raw[x].name = k.raw[x].name
  BY <1>1, <1>2 DEF RawEffect
<1>4. \A x \in DOMAIN k.raw : x # c => m.raw[x].links = k.raw[x].links
  BY <1>1, <1>2 DEF RawEffect
<1>5. c \in DOMAIN k.raw =>
         /\ v.tree[c].links # {} => m.raw[c].links = v.tree[c].links
         /\ v.tree[c].links = {} => m.raw[c].links = k.raw[c].links
  <2>1. c \in DOMAIN k.raw => m.raw[c]["links"] = IF "links" \in DOMAIN e.set THEN e.set["links"] ELSE k.raw[c]["links"]
    BY <1>1, <1>2 DEF RawEffect
  <2>. QED BY <2>1
<1>7. /\ \A x : x \in DOMAIN m.parents <=> x \in DOMAIN k.parents
      /\ \A x \in DOMAIN k.parents : m.parents[x] = k.parents[x] /\ x \in DOMAIN k.raw
  BY <1>1 DEF RawEffect, IsLoad
<1>9. /\ DOMAIN v.tree = DOMAIN s.tree
      /\ \A x \in DOMAIN s.tree : /\ v.tree[x].parent = s.tree[x].parent /\ v.tree[x].name = s.tree[x].name
                                  /\ v.tree[x].temporary = s.tree[x].temporary
      /\ \A x \in DOMAIN s.tree : \A y \in v.tree[x].links : y \in DOMAIN s.tree /\ x \in v.tree[y].links
  BY DEF Relinks, ChanFields
<1>10. /\ \A x : x \in Lasting(v.tree) <=> x \in Lasting(s.tree)
       /\ \A x \in Lasting(s.tree) : x \in DOMAIN s.tree
  BY <1>9 DEF Lasting
<1>11. ~m.panic => ~k.panic
  BY DEF RawEffect
<1>13. \A x \in Lasting(v.tree) : x \in DOMAIN m.raw =>
             /\ x \in Lasting(s.tree) /\ x \in DOMAIN k.raw
             /\ m.raw[x].name = k.raw[x].name /\ v.tree[x].name = s.tree[x].name
  BY <1>2, <1>3, <1>9, <1>10
<1>15. \A x \in Lasting(v.tree) : x \in Lasting(s.tree) /\ v.tree[x].parent = s.tree[x].parent
  BY <1>9, <1>10
<1>16. ASSUME NEW x \in Lasting(v.tree), NEW y \in Lasting(v.tree), y \in v.tree[x].links,
              x \in DOMAIN k.raw, y \in DOMAIN k.raw
       PROVE  LinkedIn(m, x, y) \/ (y \in s.tree[x].links /\ (LinkedIn(k, x, y) => LinkedIn(m, x, y)))
  <2>1. CASE x = c
    BY <1>2, <1>5, <1>16, <2>1 DEF LinkedIn
  <2>2. CASE y = c
    <3>1. x \in v.tree[y].links
      BY <1>9, <1>10, <1>16
    <3>. QED BY <1>2, <1>5, <1>16, <2>2, <3>1 DEF LinkedIn
  <2>3. CASE x # c /\ y # c
    <3>1. y \in s.tree[x].links
      BY <1>10, <1>16, <2>3 DEF LinksOf
    <3>. QED BY <1>2, <1>4, <1>16, <2>3, <3>1 DEF LinkedIn
  <2>. QED BY <2>1, <2>2, <2>3
<1>17. ASSUME NEW x \in Nat, NEW y \in Nat, Apart(v, unlNew, x, y) PROVE Apart(s, unl, x, y)
  <2>1. CASE x >= v.nextChan \/ y >= v.nextChan
    BY <2>1 DEF Apart
  <2>2. CASE ~(x >= v.nextChan \/ y >= v.nextChan)
    <3>1. /\ x \in Lasting(v.tree) /\ y \in Lasting(v.tree) /\ y \notin v.tree[x].links
          /\ <<"unlinked", {x, y}>> \notin unlNew
      BY <1>17, <2>2 DEF Apart
    <3>2. y \notin s.tree[x].links
      BY <1>10, <3>1 DEF LinksOf
    <3>3. <<"unlinked", {x, y}>> \notin unl
      BY <3>1
    <3>. QED BY <1>10, <3>1, <3>2, <3>3 DEF Apart
  <2>. QED BY <2>1, <2>2
<1>18. ASSUME NEW y \in v.tree[c].links, Apart(v, unlNew, c, y) \/ Apart(v, unlNew, y, c) PROVE FALSE
  <2>1. y \in DOMAIN s.tree /\ c \in v.tree[y].links
    BY <1>9
  <2>2. \A x \in DOMAIN s.tree : ~(x >= v.nextChan)
    BY SMTT(30)
  <2>. QED BY <1>18, <2>1, <2>2 DEF Apart
<1>19. ASSUME NEW x \in Nat, NEW y \in Nat, Apart(v, unlNew, x, y), LinkedIn(m, x, y) PROVE LinkedIn(k, x, y)
  <2>1. CASE x \in DOMAIN m.raw /\ y \in m.raw[x].links
    <3>1. x # c \/ v.tree[c].links = {} \/ m.raw[c].links # v.tree[c].links
      BY <1>18, <1>19, <2>1
    <3>2. m.raw[x].links = k.raw[x].links
      BY <1>2, <1>4, <1>5, <2>1, <3>1
    <3>. QED BY <1>2, <2>1, <3>2 DEF LinkedIn
  <2>2. CASE y \in DOMAIN m.raw /\ x \in m.raw[y].links
    <3>1. y # c \/ v.tree[c].links = {} \/ m.raw[c].links # v.tree[c].links
      BY <1>18, <1>19, <2>2
    <3>2. m.raw[y].links = k.raw[y].links
      BY <1>2, <1>4, <1>5, <2>2, <3>1
    <3>. QED BY <1>2, <2>2, <3>2 DEF LinkedIn
  <2>. QED BY <1>19, <2>1, <2>2 DEF LinkedIn
<1>20. s.nextChan <= v.nextChan /\ v.nextChan \in Nat
  BY SMTT(30)
<1>21. \A x \in DOMAIN m.parents : x \in DOMAIN k.raw
  BY <1>7
<1>. QED BY <1>2, <1>7, <1>9, <1>11, <1>13, <1>15, <1>16, <1>17, <1>19, <1>20, <1>21 DEF Carried

\* A write that carries the change of the channels.
ChansWrite ==
    /\ TreeOK(mem'.tree, temps')
    /\ \E es : /\ IsTx(es) /\ Writes(es)
               /\ \A k : IsLoad(k) => Carried(k, ReplayAll(k, es), mem, mem', unlogged, unlogged', temps, temps')

\* A handler whose entries say nothing of names and links.
LEMMA QuietChansWrite ==
    ASSUME TreeOK(mem'.tree, temps'), NEW es, IsTx(es), Writes(es), QuietForChans(es),
           Settled(mem, mem', unlogged, unlogged'), Covered(mem, mem', temps, temps')
    PROVE  ChansWrite
<1>1. \A k : IsLoad(k) => Carried(k, ReplayAll(k, es), mem, mem', unlogged, unlogged', temps, temps')
  BY QuietChans, QuietCarried
<1>. QED BY <1>1 DEF ChansWrite

\* A handler that leaves shape and names of the tree.
LEMMA ShapeWrite ==
    ASSUME MemTyped(mem), TreeOK(mem.tree, temps), NEW es, IsTx(es), Writes(es), QuietForChans(es),
           SameShape(mem.tree, mem'.tree), \A c \in DOMAIN mem.tree : mem'.tree[c].name = mem.tree[c].name,
           mem'.nextChan = mem.nextChan, unlogged \subseteq unlogged', temps' = temps
    PROVE  ChansWrite
<1>1. TreeOK(mem'.tree, temps')
  BY ShapeOK
<1>2. DOMAIN mem'.tree = DOMAIN mem.tree
  BY DEF SameShape
<1>3. Covered(mem, mem', temps, temps')
  BY <1>2 DEF Covered
<1>4. \A c \in Lasting(mem'.tree) : c \in Lasting(mem.tree) /\ c \in DOMAIN mem.tree
  BY DEF SameShape, Lasting
<1>5. mem.nextChan \in Nat
  BY DEF MemTyped
<1>6. \A c \in DOMAIN mem.tree : mem'.tree[c].parent = mem.tree[c].parent /\ mem'.tree[c].links = mem.tree[c].links
  BY DEF SameShape
<1>7. Settled(mem, mem', unlogged, unlogged')
  BY <1>4, <1>5, <1>6, SMTT(30) DEF Settled
<1>. QED BY <1>1, <1>3, <1>7, QuietChansWrite

\* A handler that leaves the tree.
LEMMA TreeWrite ==
    ASSUME MemTyped(mem), TreeOK(mem.tree, temps), NEW es, IsTx(es), Writes(es), QuietForChans(es),
           mem'.tree = mem.tree, mem'.nextChan = mem.nextChan, unlogged \subseteq unlogged', temps' = temps
    PROVE  ChansWrite
<1>1. SameShape(mem.tree, mem'.tree)
  BY DEF SameShape
<1>. QED BY <1>1, ShapeWrite

\* RegisterClient leaves the channels.
LEMMA RegisterChans ==
    ASSUME MemTyped(mem), logOpen, TreeOK(mem.tree, temps), NEW a \in Clients, NEW t \in Clients, handleRegister(a, t)
    PROVE  ChansWrite
<1> DEFINE u == mem.nextUser
           user == [NewUser(t) EXCEPT !.cert = t]
           us == With(mem.users, u, user)
           s == [mem EXCEPT !.users = us, !.nextUser = u + 1]
           es == IF a = t THEN Put(UserEntry(u, user)) ELSE <<>>
<1>1. Store(s, es, IF a = t THEN 1 ELSE 0) /\ temps' = temps /\ unlogged \subseteq unlogged'
  BY DEF handleRegister
<1>2. Writes(es) /\ mem' = s
  <2>. HIDE DEF s, es
  <2>. QED BY <1>1, StoreWrites
<1>3. DOMAIN user = UserFields
  BY DEF NewUser, UserFields
<1>4. IsTx(es) /\ QuietForChans(es)
  <2> DEFINE e == UserEntry(u, user)
  <2>1. IsEntry(e) /\ ChanQuiet(e)
    <3>. HIDE DEF u, user
    <3>. QED BY <1>3 DEF IsEntry, UserEntry, ChanQuiet
  <2>. HIDE DEF u, user, e
  <2>2. CASE a = t
    <3>1. es = <<e>>
      BY <2>2 DEF Put, e
    <3>. QED BY <2>1, <3>1, OneTx, QuietChanShapes
  <2>3. CASE a # t
    BY <2>3, EmptyTx, QuietChanNone
  <2>. QED BY <2>2, <2>3
<1>5. mem'.tree = mem.tree /\ mem'.nextChan = mem.nextChan
  <2>. HIDE DEF us, u, es
  <2>. QED BY <1>2 DEF MemTyped, MemFields
<1>. HIDE DEF es
<1>. QED BY <1>1, <1>2, <1>4, <1>5, TreeWrite

\* A texture or comment leaves the channels.
LEMMA BlobChans ==
    ASSUME MemTyped(mem), logOpen, TreeOK(mem.tree, temps), NEW c \in Clients, NEW b \in Blobs, handleBlob(c, b)
    PROVE  ChansWrite
<1> DEFINE w == who[c]
           s == IF w \in DOMAIN mem.users THEN [mem EXCEPT !.users[w].blob = b] ELSE mem
           e == UserEntry(w, [blob |-> b])
<1>1. Store(s, Put(e), 1) /\ temps' = temps /\ unlogged' = unlogged
  BY DEF handleBlob, histVars
<1>2. Writes(<<e>>) /\ mem' = s
  <2>. HIDE DEF s, e
  <2>. QED BY <1>1, StoreWrites DEF Put
<1>3. IsEntry(e) /\ ChanQuiet(e)
  BY DEF IsEntry, UserEntry, UserFields, ChanQuiet
<1>4. mem'.tree = mem.tree /\ mem'.nextChan = mem.nextChan
  <2>. HIDE DEF e
  <2>. QED BY <1>2 DEF MemTyped, MemFields
<1>. HIDE DEF e
<1>5. IsTx(<<e>>) /\ QuietForChans(<<e>>)
  BY <1>3, OneTx, QuietChanShapes
<1>. QED BY <1>1, <1>2, <1>4, <1>5, TreeWrite

\* userEnterChannel leaves the channels.
LEMMA EnterChans ==
    ASSUME MemTyped(mem), logOpen, TreeOK(mem.tree, temps), NEW c \in Clients, NEW ch, handleEnter(c, ch)
    PROVE  ChansWrite
<1> DEFINE e == UserEntry(who[c], [last |-> ch])
<1>1. Store(mem, Put(e) \o Put(e), 2) /\ unlogged' = unlogged /\ temps' = temps
  BY DEF handleEnter, histVars
<1>2. IsEntry(e) /\ ChanQuiet(e)
  BY DEF IsEntry, UserEntry, UserFields, ChanQuiet
<1>. HIDE DEF e
<1>3. Writes(<<e>> \o <<e>>) /\ mem' = mem
  BY <1>1, StoreWrites DEF Put
<1>4. IsTx(<<e>> \o <<e>>) /\ QuietForChans(<<e>> \o <<e>>)
  BY <1>2, TwoTx, QuietChanShapes
<1>. QED BY <1>1, <1>3, <1>4, TreeWrite

\* handleUserList changes permissions of channels at most.
LEMMA UserListChans ==
    ASSUME MemTyped(mem), logOpen, TreeOK(mem.tree, temps), NEW us, NEW name, handleUserList(us, name)
    PROVE  ChansWrite
<1> DEFINE s == [mem EXCEPT !.users = Listed(us, name), !.tree = ListedTree(us, name)]
           es == ListTx(us, name)
           S == {ListEntry(u, name) : u \in us}
<1>1. us \subseteq DOMAIN mem.users /\ Store(s, es, 0) /\ unlogged' = unlogged /\ temps' = temps
  BY ListStores DEF MemTyped, histVars
<1>2. IsFiniteSet(us)
  BY <1>1, FS_Subset DEF MemTyped, UsersOK
<1>3. es \in Seq(S) /\ \A u \in us : IsPlain(ListEntry(u, name))
  BY <1>2, ListEntries
<1>4. \A u \in us : ChanQuiet(ListEntry(u, name))
  BY DEF ListEntry, ChanQuiet, UserEntry
<1>5. \A e \in S : IsEntry(e) /\ ChanQuiet(e)
  BY <1>3, <1>4 DEF IsPlain
<1>6. Writes(es) /\ mem' = s
  <2>. HIDE DEF s, es
  <2>. QED BY <1>1, StoreWrites
<1>7. mem'.tree = ListedTree(us, name) /\ mem'.nextChan = mem.nextChan
  <2>. HIDE DEF es
  <2>. QED BY <1>6 DEF MemTyped, MemFields
<1>. HIDE DEF es, S
<1>8. IsTx(es) /\ QuietForChans(es)
  BY <1>3, <1>5 DEF IsTx, QuietForChans
<1>9. TreeFields(mem.tree)
  BY DEF TreeOK, TreeFields
<1>10. SameShape(mem.tree, mem'.tree) /\ \A c \in DOMAIN mem.tree : mem'.tree[c].name = mem.tree[c].name
  <2>1. CASE name = ""
    <3> DEFINE t == mem.tree
               r == ForgetUsers(t, us)
    <3>1. SameShape(t, r) /\ \A c \in DOMAIN t : r[c].name = t[c].name
      <4>. HIDE DEF t
      <4>1. TreeFields(t)
        BY <1>9 DEF t
      <4>. QED BY <4>1, ForgetShape
    <3>2. mem'.tree = r
      BY <1>7, <2>1 DEF ListedTree
    <3>. HIDE DEF r
    <3>. QED BY <3>1, <3>2
  <2>2. CASE name # ""
    BY <1>7, <2>2 DEF ListedTree, SameShape
  <2>. QED BY <2>1, <2>2
<1>. QED BY <1>1, <1>6, <1>7, <1>8, <1>10, ShapeWrite

\* handleAclMessage changes permissions of one channel.
LEMMA AclChans ==
    ASSUME MemTyped(mem), logOpen, TreeOK(mem.tree, temps),
           NEW a, NEW c \in Chans, NEW acls, NEW groups, handleAcl(a, c, acls, groups)
    PROVE  ChansWrite
<1> DEFINE ch == Given(a, c, acls, groups)
           t == [mem.tree EXCEPT ![c] = ch]
           s == [mem EXCEPT !.tree = t]
           e == ChannelEntry(c, FreezeACLs(ch))
<1>1. Store(s, <<e>>, 1) /\ unlogged' = unlogged /\ temps' = temps /\ c \in DOMAIN mem.tree
  BY AclStores DEF MemTyped, histVars
<1>2. IsEntry(e) /\ ChanQuiet(e)
  <2>1. DOMAIN FreezeACLs(ch) \subseteq FrozenFields /\ DOMAIN FreezeACLs(ch) \subseteq {"inherit", "acls", "groups"}
    BY DEF FreezeACLs, Restrict, FrozenFields
  <2>2. c \in Nat
    BY SMTT(30) DEF Chans
  <2>. HIDE DEF ch
  <2>. QED BY <2>1, <2>2 DEF IsEntry, ChannelEntry, ChanQuiet
<1>3. Writes(<<e>>) /\ mem' = s
  <2>. HIDE DEF s, e
  <2>. QED BY <1>1, StoreWrites
<1>4. TreeFields(mem.tree)
  BY DEF TreeOK, TreeFields
<1>5. SameShape(mem.tree, t) /\ \A x \in DOMAIN mem.tree : t[x].name = mem.tree[x].name
  BY <1>1, <1>4, AclShape, SMTT(30)
<1>6. mem'.tree = t /\ mem'.nextChan = mem.nextChan
  <2>. HIDE DEF t, e
  <2>. QED BY <1>3 DEF MemTyped, MemFields
<1>. HIDE DEF e, t
<1>7. IsTx(<<e>>) /\ QuietForChans(<<e>>)
  BY <1>2, OneTx, QuietChanShapes
<1>. QED BY <1>1, <1>3, <1>5, <1>6, <1>7, ShapeWrite

\* New bans and the password leave the channels.
LEMMA BansChans ==
    ASSUME FreezerInv, TreeOK(mem.tree, temps), SetsBans \/ UpdateConfig
    PROVE  ChansWrite
<1>1. MemTyped(mem)
  BY DEF FreezerInv, FilesInv
<1>2. CASE SetsBans
  <2>1. PICK bans : IsEntry(BanEntry(bans)) /\ IsTx(<<BanEntry(bans)>>) /\ Writes(<<BanEntry(bans)>>)
    BY <1>2, BansTx
  <2>2. mem'.tree = mem.tree /\ mem'.nextChan = mem.nextChan /\ unlogged' = unlogged /\ temps' = temps
    BY <1>2, BansTx DEF MemFields
  <2>3. ChanQuiet(BanEntry(bans))
    BY DEF BanEntry, ChanQuiet
  <2>4. QuietForChans(<<BanEntry(bans)>>)
    BY <2>1, <2>3, QuietChanShapes
  <2>. QED BY <1>1, <2>1, <2>2, <2>4, TreeWrite
<1>3. CASE UpdateConfig
  <2>1. PICK e : e.kind = "Config" /\ e.value = mem.cfg /\ IsEntry(e) /\ IsTx(<<e>>) /\ Writes(<<e>>)
    BY <1>3, ConfigTx
  <2>2. mem' = mem /\ unlogged' = unlogged /\ temps' = temps
    BY <1>3, ConfigTx
  <2>3. QuietForChans(<<e>>)
    BY <2>1, QuietChanShapes DEF ChanQuiet
  <2>. QED BY <1>1, <2>1, <2>2, <2>3, TreeWrite
<1>. QED BY <1>2, <1>3

\* A handler that writes one entry.
LEMMA EntryWrite ==
    ASSUME TreeOK(mem'.tree, temps'), NEW e, IsEntry(e), Writes(<<e>>),
           \A k : IsLoad(k) => Carried(k, Replay(k, e), mem, mem', unlogged, unlogged', temps, temps')
    PROVE  ChansWrite
<1> DEFINE es == <<e>>
<1>1. IsTx(es) /\ Writes(es) /\ \A k : ReplayAll(k, es) = Replay(k, e)
  BY OneTx, ReplayOne
<1>. HIDE DEF es
<1>. QED BY <1>1 DEF ChansWrite

\* Channel ids are naturals below the next one.
LEMMA TreeIds ==
    ASSUME MemTyped(mem), TreeOK(mem.tree, temps)
    PROVE  /\ mem.nextChan \in Nat /\ mem.nextChan \notin DOMAIN mem.tree /\ NoChannel \notin DOMAIN mem.tree
           /\ IsFiniteSet(DOMAIN mem.tree) /\ TreeFields(mem.tree)
<1>1. mem.nextChan \in Nat /\ DOMAIN mem.tree \subseteq 0..mem.nextChan - 1
  BY DEF MemTyped
<1>2. mem.nextChan \notin DOMAIN mem.tree /\ NoChannel \notin DOMAIN mem.tree
  BY <1>1, SMTT(30) DEF NoChannel
<1>3. IsFiniteSet(0..mem.nextChan - 1)
  BY <1>1, FS_Interval, SMTT(30)
<1>4. IsFiniteSet(DOMAIN mem.tree)
  BY <1>1, <1>3, FS_Subset
<1>. QED BY <1>1, <1>2, <1>4 DEF TreeOK, TreeFields

\* handleChannelStateMessage with a new channel, permanent or temporary.
LEMMA CreateChans ==
    ASSUME MemTyped(mem), logOpen, TreeOK(mem.tree, temps),
           NEW a \in Clients, NEW p, NEW name, NEW temp \in BOOLEAN, handleChannelCreate(a, p, name, temp)
    PROVE  ChansWrite
<1> DEFINE c == mem.nextChan
           t == mem.tree
           r == WithCreated(a, p, name, temp)
           s == [mem EXCEPT !.tree = r, !.nextChan = c + 1]
           es == CreateTx(a, p, name, temp)
<1>1. /\ Store(s, es, Len(es)) /\ unlogged' = unlogged /\ p \in DOMAIN t /\ ~t[p].temporary
      /\ temps' = (IF temp THEN temps \cup {c} ELSE temps)
  BY CreateStores
<1>2. c \in Nat /\ c \notin DOMAIN t /\ NoChannel \notin DOMAIN t /\ TreeFields(t) /\ DOMAIN t \subseteq 0..c - 1
  BY TreeIds DEF MemTyped
<1>3. Grows(t, r, p, c, name, temp)
  BY <1>1, <1>2, CreateGrows
<1>4. Writes(es) /\ mem' = s
  <2>. HIDE DEF s, es
  <2>. QED BY <1>1, StoreWrites
<1>5. mem'.tree = r /\ mem'.nextChan = c + 1
  <2>. HIDE DEF r, es, c
  <2>. QED BY <1>4 DEF MemTyped, MemFields
<1>. HIDE DEF r
<1>6. TreeOK(mem'.tree, temps')
  <2>1. TreeOK(t, temps) /\ temps \subseteq temps' /\ (temp => c \in temps')
    BY <1>1
  <2>2. TreeOK(r, temps')
    <3>. HIDE DEF t, c
    <3>. QED BY <1>1, <1>2, <1>3, <2>1, GrowsOK
  <2>. QED BY <1>5, <2>2
<1>7. CASE ~temp
  <2> DEFINE e == ChannelEntry(c, [name |-> name, parent |-> p])
  <2>1. /\ e.kind = "Channel" /\ e.id = c /\ DOMAIN e.set = {"name", "parent"}
        /\ e.set["name"] = name /\ e.set["parent"] = p
    BY DEF ChannelEntry
  <2>2. es = <<e>>
    BY <1>7 DEF CreateTx
  <2>. HIDE DEF e
  <2>3. IsEntry(e)
    BY <1>2, <2>1 DEF IsEntry, FrozenFields
  <2>4. ASSUME NEW k, IsLoad(k)
        PROVE  Carried(k, Replay(k, e), mem, mem', unlogged, unlogged', temps, temps')
    <3> DEFINE m == Replay(k, e)
    <3>1. RawEffect(k, e, m)
      BY <2>3, <2>4, ReplayRaw
    <3>2. Grows(mem.tree, mem'.tree, p, c, name, FALSE) /\ temps' = temps /\ unlogged' = unlogged
      BY <1>1, <1>3, <1>5, <1>7
    <3>3. p # NoChannel /\ ~mem.tree[p].temporary /\ DOMAIN mem.tree \subseteq 0..c - 1 /\ mem.nextChan = c
      BY <1>1, <1>2
    <3>. HIDE DEF m, c, t
    <3>4. Carried(k, m, mem, mem', unlogged, unlogged, temps, temps)
      BY <1>2, <1>5, <2>1, <2>4, <3>1, <3>2, <3>3, CreateCarried
    <3>. QED BY <3>2, <3>4 DEF m
  <2>. HIDE DEF c, t, es
  <2>. QED BY <1>4, <1>6, <2>2, <2>3, <2>4, EntryWrite
<1>8. CASE temp
  <2>1. IsTx(es) /\ QuietForChans(es)
    <3> DEFINE e == UserEntry(who[a], [last |-> c])
    <3>1. IsEntry(e) /\ ChanQuiet(e)
      BY DEF IsEntry, UserEntry, UserFields, ChanQuiet
    <3>. HIDE DEF e
    <3>2. es = <<e>> \/ es = <<>>
      BY <1>8 DEF CreateTx, e
    <3>. QED BY <3>1, <3>2, OneTx, EmptyTx, QuietChanShapes, QuietChanNone
  <2>2. /\ DOMAIN r = DOMAIN t \cup {c} /\ r[c].temporary
        /\ \A x \in DOMAIN t : /\ r[x].parent = t[x].parent /\ r[x].links = t[x].links
                               /\ r[x].name = t[x].name /\ r[x].temporary = t[x].temporary
    BY <1>3, <1>8 DEF Grows
  <2>3. \A x \in Lasting(r) : x \in Lasting(t) /\ x \in DOMAIN t
    BY <2>2 DEF Lasting
  <2>4. mem.nextChan <= mem'.nextChan /\ mem'.nextChan \in Nat
    BY <1>2, <1>5, SMTT(30)
  <2>5. Settled(mem, mem', unlogged, unlogged')
    BY <1>1, <1>2, <1>5, <2>2, <2>3, <2>4 DEF Settled
  <2>6. Covered(mem, mem', temps, temps')
    BY <1>1, <1>5, <2>2 DEF Covered
  <2>. HIDE DEF es
  <2>. QED BY <1>4, <1>6, <2>1, <2>5, <2>6, QuietChansWrite
<1>. QED BY <1>7, <1>8

\* handleChannelRemoveMessage: a load of the log panics from here on, or the
\* channel was temporary.
LEMMA RemoveChans ==
    ASSUME MemTyped(mem), logOpen, TreeOK(mem.tree, temps), NEW c \in Chans, handleChannelRemove(c)
    PROVE  ChansWrite
<1> DEFINE t == mem.tree
           r == Removed(c)
           s == [mem EXCEPT !.tree = r]
           es == RemoveTx(c)
<1>1. Store(s, es, Len(es)) /\ c \in DOMAIN t /\ unlogged \subseteq unlogged' /\ temps' = temps
  BY RemoveStores
<1>2. Writes(es) /\ mem' = s
  <2>. HIDE DEF s, es
  <2>. QED BY <1>1, StoreWrites
<1>3. mem'.tree = r /\ mem'.nextChan = mem.nextChan
  <2>. HIDE DEF r, es
  <2>. QED BY <1>2 DEF MemTyped, MemFields
<1>4. mem.nextChan \in Nat
  BY TreeIds
<1>5. TreeOK(r, temps) /\ Settled(mem, mem', unlogged, unlogged') /\ (t[c].temporary => Covered(mem, mem', temps, temps'))
  <2>1. CASE c = Root
    <3>1. r = t
      BY <2>1 DEF Removed
    <3>2. mem'.tree = mem.tree
      BY <1>3, <3>1
    <3>. QED BY <1>1, <1>3, <1>4, <3>1, <3>2, SMTT(30) DEF Settled, Covered
  <2>2. CASE c # Root
    <3>1. r = RemoveChannel(t, c)
      BY <2>2 DEF Removed
    <3>2. PICK gone : Removes(t, r, c, gone)
      BY <1>1, <3>1, TreeIds, RemoveRemoves
    <3>. HIDE DEF r
    <3>3. TreeOK(r, temps)
      BY <1>1, <3>2, RemovesOK
    <3>4. \A x \in DOMAIN r : /\ x \in DOMAIN t /\ x \notin gone
                              /\ r[x].parent = t[x].parent /\ r[x].name = t[x].name
                              /\ r[x].temporary = t[x].temporary /\ r[x].links = t[x].links \ gone
      BY <3>2 DEF Removes
    <3>5. \A x \in Lasting(r) : x \in Lasting(t) /\ x \in DOMAIN r
      BY <3>4 DEF Lasting
    <3>6. Settled(mem, mem', unlogged, unlogged')
      BY <1>1, <1>3, <1>4, <3>4, <3>5, SMTT(30) DEF Settled
    <3>7. t[c].temporary => gone = {c} /\ c \in temps /\ DOMAIN r = DOMAIN t \ gone
      BY <1>1, <3>2 DEF Removes, TreeOK
    <3>. QED BY <1>1, <1>3, <3>3, <3>6, <3>7 DEF Covered
  <2>. QED BY <2>1, <2>2
<1>6. TreeOK(mem'.tree, temps')
  BY <1>1, <1>3, <1>5
<1>7. CASE t[c].temporary
  <2>1. es = <<>>
    BY <1>7 DEF RemoveTx
  <2>. HIDE DEF es
  <2>. QED BY <1>2, <1>5, <1>6, <1>7, <2>1, EmptyTx, QuietChanNone, QuietChansWrite
<1>8. CASE ~t[c].temporary
  <2> DEFINE e == [kind |-> "ChannelRemove", id |-> c]
  <2>1. e.kind = "ChannelRemove"
    OBVIOUS
  <2>2. es = <<e>>
    BY <1>8 DEF RemoveTx
  <2>. HIDE DEF e
  <2>3. IsEntry(e) /\ ChanQuiet(e)
    BY <2>1 DEF IsEntry, ChanQuiet
  <2>4. ASSUME NEW k, IsLoad(k)
        PROVE  Carried(k, Replay(k, e), mem, mem', unlogged, unlogged', temps, temps')
    <3> DEFINE m == Replay(k, e)
    <3>1. SameChans(k, m) /\ m.panic
      BY <2>1, <2>3, <2>4, ReplayRaw, QuietChanEntry DEF RawEffect
    <3>. HIDE DEF m
    <3>2. Carried(k, m, mem, mem', unlogged, unlogged', temps, temps')
      BY <1>5, <2>4, <3>1, QuietCarried
    <3>. QED BY <3>2 DEF m
  <2>. HIDE DEF es
  <2>. QED BY <1>2, <1>6, <2>2, <2>3, <2>4, EntryWrite
<1>. QED BY <1>7, <1>8

\* handleChannelStateMessage with an old channel.
Edits1(c, e) ==
    /\ c \in DOMAIN mem.tree /\ mem'.tree = Edited(mem.tree, c, e) /\ mem'.nextChan = mem.nextChan
    /\ Writes(EditTx(c, e)) /\ temps' = temps
    /\ unlogged' = unlogged \cup (IF "parent" \in DOMAIN e THEN {<<"moved", c>>} ELSE {})
                            \cup (IF "remove" \in DOMAIN e THEN {<<"unlinked", {c, e.remove}>>} ELSE {})
    /\ \A x \in DOMAIN e \ {"name"} : e[x] \in DOMAIN mem.tree
    /\ "parent" \in DOMAIN e => ~mem.tree[e.parent].temporary

\* handleChannelStateMessage with a channel id, as far as channels go.
LEMMA EditFacts ==
    ASSUME MemTyped(mem), logOpen, NEW c, NEW e, handleChannelEdit(c, e)
    PROVE  Edits1(c, e)
<1> DEFINE t == Edited(mem.tree, c, e)
           s == [mem EXCEPT !.tree = t]
           es == EditTx(c, e)
<1>1. /\ Store(s, es, Len(es)) /\ c \in DOMAIN mem.tree /\ temps' = temps
      /\ Range(Restrict(e, DOMAIN e \ {"name"})) \subseteq DOMAIN mem.tree
      /\ EditAllowed(mem.tree, c, e)
      /\ unlogged' = unlogged \cup (IF "parent" \in DOMAIN e THEN {<<"moved", c>>} ELSE {})
                              \cup (IF "remove" \in DOMAIN e THEN {<<"unlinked", {c, e.remove}>>} ELSE {})
  BY EditStores
<1>2. Writes(es) /\ mem' = s
  <2>. HIDE DEF s, es
  <2>. QED BY <1>1, StoreWrites
<1>3. mem'.tree = t /\ mem'.nextChan = mem.nextChan
  <2>. HIDE DEF t, es
  <2>. QED BY <1>2 DEF MemTyped, MemFields
<1>4. \A x \in DOMAIN e \ {"name"} : e[x] \in DOMAIN mem.tree
  BY <1>1 DEF Range, Restrict
<1>5. "parent" \in DOMAIN e => ~mem.tree[e.parent].temporary
  BY <1>1 DEF EditAllowed, MoveAllowed
<1>. HIDE DEF t, es
<1>. QED BY <1>1, <1>2, <1>3, <1>4, <1>5 DEF Edits1, t, es

\* An edit of the name.
LEMMA NameChans ==
    ASSUME MemTyped(mem), logOpen, TreeOK(mem.tree, temps), NEW c, NEW e, DOMAIN e = {"name"}, Edits1(c, e)
    PROVE  ChansWrite
<1> DEFINE t == mem.tree
           name == e.name
           r == [t EXCEPT ![c].name = name]
<1>1. c \in DOMAIN t /\ Writes(EditTx(c, e)) /\ temps' = temps /\ unlogged' = unlogged /\ mem'.nextChan = mem.nextChan
  BY DEF Edits1
<1>2. Edited(t, c, e) = r
  BY DEF Edited
<1>3. mem'.tree = r
  BY <1>2 DEF Edits1
<1>4. mem.nextChan \in Nat /\ TreeFields(t) /\ DOMAIN t \subseteq 0..mem.nextChan - 1
  BY TreeIds DEF MemTyped
<1>5. SameShape(t, r) /\ \A x \in DOMAIN t : r[x].name = IF x = c THEN name ELSE t[x].name
  <2>. HIDE DEF t, name
  <2>. QED BY <1>1, <1>4, RenameShape
<1>. HIDE DEF r
<1>6. TreeOK(mem'.tree, temps')
  BY <1>1, <1>3, <1>5, ShapeOK
<1>7. r[c].temporary = t[c].temporary /\ c \in Nat
  BY <1>1, <1>4, <1>5, SMTT(30) DEF SameShape
<1>8. CASE t[c].temporary
  <2>1. EditTx(c, e) = <<>>
    BY <1>2, <1>7, <1>8 DEF EditTx
  <2>2. \A x \in Lasting(r) : x \in Lasting(t) /\ x \in DOMAIN t /\ x # c
    BY <1>5, <1>8 DEF SameShape, Lasting
  <2>3. \A x \in DOMAIN t : r[x].parent = t[x].parent /\ r[x].links = t[x].links
    BY <1>5 DEF SameShape
  <2>4. Settled(mem, mem', unlogged, unlogged')
    BY <1>1, <1>3, <1>4, <1>5, <2>2, <2>3, SMTT(30) DEF Settled
  <2>5. Covered(mem, mem', temps, temps')
    BY <1>1, <1>3, <1>5 DEF Covered, SameShape
  <2>. QED BY <1>1, <1>6, <2>1, <2>4, <2>5, EmptyTx, QuietChanNone, QuietChansWrite
<1>9. CASE ~t[c].temporary
  <2> DEFINE u == UpdateFrozenChannel(r, c, e)
  <2>1. EditTx(c, e) = <<u>>
    BY <1>2, <1>7, <1>9 DEF EditTx
  <2>2. u.kind = "Channel" /\ u.id = c /\ DOMAIN u.set = {"name"} /\ u.set["name"] = name
    BY DEF UpdateFrozenChannel, ChannelEntry
  <2>. HIDE DEF u
  <2>3. IsEntry(u)
    BY <1>7, <2>2 DEF IsEntry, FrozenFields
  <2>4. ASSUME NEW k, IsLoad(k)
        PROVE  Carried(k, Replay(k, u), mem, mem', unlogged, unlogged', temps, temps')
    <3> DEFINE m == Replay(k, u)
    <3>1. RawEffect(k, u, m)
      BY <2>3, <2>4, ReplayRaw
    <3>2. SameShape(mem.tree, mem'.tree) /\ \A x \in DOMAIN mem.tree : mem'.tree[x].name = IF x = c THEN name ELSE mem.tree[x].name
      BY <1>3, <1>5
    <3>3. c \in DOMAIN mem.tree /\ DOMAIN mem.tree \subseteq 0..mem.nextChan - 1
      BY <1>1, <1>4
    <3>. HIDE DEF m, name, t
    <3>4. Carried(k, m, mem, mem', unlogged, unlogged, temps, temps)
      BY <1>1, <1>4, <2>2, <2>4, <3>1, <3>2, <3>3, RenameCarried, SMTT(30)
    <3>. QED BY <1>1, <3>4 DEF m
  <2>. QED BY <1>1, <1>6, <2>1, <2>3, <2>4, EntryWrite
<1>. QED BY <1>8, <1>9

\* An edit of the parent: the entry has the parent, which the replay of a
\* known channel ignores.
LEMMA MoveChans ==
    ASSUME MemTyped(mem), logOpen, TreeOK(mem.tree, temps), NEW c, NEW e, DOMAIN e = {"parent"}, Edits1(c, e)
    PROVE  ChansWrite
<1> DEFINE t == mem.tree
           p == e.parent
           r == AddChild(RemoveChild(t, t[c].parent, c), p, c)
<1>1. /\ c \in DOMAIN t /\ Writes(EditTx(c, e)) /\ temps' = temps /\ mem'.nextChan = mem.nextChan
      /\ unlogged \subseteq unlogged' /\ <<"moved", c>> \in unlogged' /\ p \in DOMAIN t /\ ~t[p].temporary
  BY DEF Edits1
<1>2. Edited(t, c, e) = r
  BY DEF Edited
<1>3. mem'.tree = r
  BY <1>2 DEF Edits1
<1>4. mem.nextChan \in Nat /\ TreeFields(t) /\ DOMAIN t \subseteq 0..mem.nextChan - 1 /\ NoChannel \notin DOMAIN t
  BY TreeIds DEF MemTyped
<1>5. Moves(t, r, c, p)
  BY <1>4, EditMoves
<1>. HIDE DEF r, p
<1>6. TreeOK(mem'.tree, temps')
  BY <1>1, <1>3, <1>4, <1>5, MovesOK
<1>7. /\ c \in Nat /\ DOMAIN r = DOMAIN t
      /\ \A x \in DOMAIN t : r[x].links = t[x].links /\ r[x].name = t[x].name /\ r[x].temporary = t[x].temporary
      /\ \A x \in DOMAIN t : x = c \/ r[x].parent = t[x].parent
  BY <1>1, <1>4, <1>5, SMTT(30) DEF Moves
<1>8. \A x \in Lasting(r) : x \in Lasting(t) /\ x \in DOMAIN t
  BY <1>7 DEF Lasting
<1>9. Settled(mem, mem', unlogged, unlogged')
  BY <1>1, <1>3, <1>4, <1>7, <1>8, SMTT(30) DEF Settled
<1>10. Covered(mem, mem', temps, temps')
  BY <1>1, <1>3, <1>7 DEF Covered
<1>11. IsTx(EditTx(c, e)) /\ QuietForChans(EditTx(c, e))
  <2> DEFINE u == UpdateFrozenChannel(r, c, e)
  <2>1. EditTx(c, e) = <<>> \/ EditTx(c, e) = <<u>>
    BY <1>2 DEF EditTx
  <2>2. u.kind = "Channel" /\ u.id = c /\ DOMAIN u.set = {"parent"}
    BY DEF UpdateFrozenChannel, ChannelEntry
  <2>. HIDE DEF u
  <2>3. IsEntry(u) /\ ChanQuiet(u)
    BY <1>7, <2>2 DEF IsEntry, FrozenFields, ChanQuiet
  <2>. QED BY <2>1, <2>3, OneTx, EmptyTx, QuietChanShapes, QuietChanNone
<1>. QED BY <1>1, <1>6, <1>9, <1>10, <1>11, QuietChansWrite

\* An edit that adds or removes a link.
LEMMA LinkChans ==
    ASSUME MemTyped(mem), logOpen, TreeOK(mem.tree, temps), NEW c, NEW e, DOMAIN e \in {{"add"}, {"remove"}}, Edits1(c, e)
    PROVE  ChansWrite
<1> DEFINE t == mem.tree
           b == IF "add" \in DOMAIN e THEN e.add ELSE e.remove
           r == IF "add" \in DOMAIN e THEN LinkChannels(t, c, b) ELSE UnlinkChannels(t, c, b)
<1>1. /\ c \in DOMAIN t /\ Writes(EditTx(c, e)) /\ temps' = temps /\ mem'.nextChan = mem.nextChan
      /\ unlogged \subseteq unlogged' /\ ("add" \notin DOMAIN e => <<"unlinked", {c, b}>> \in unlogged') /\ b \in DOMAIN t
  BY DEF Edits1
<1>2. Edited(t, c, e) = r
  BY DEF Edited
<1>3. mem'.tree = r
  BY <1>2 DEF Edits1
<1>4. mem.nextChan \in Nat /\ TreeFields(t) /\ DOMAIN t \subseteq 0..mem.nextChan - 1
  BY TreeIds DEF MemTyped
<1>. HIDE DEF b
<1>5. Relinks(t, r) /\ LinksOf(t, r, c, unlogged')
  <2>1. CASE "add" \in DOMAIN e
    <3> DEFINE l == LinkChannels(t, c, b)
    <3>1. Relinks(t, l)
      BY <1>1, LinkRelinks
    <3>2. \A x \in DOMAIN t : \A y : y \in l[x].links <=> y \in t[x].links \/ (x = c /\ y = b) \/ (x = b /\ y = c)
      BY <1>4, LinkCells, SMTT(30)
    <3>3. r = l
      BY <2>1
    <3>. HIDE DEF r, l
    <3>. QED BY <3>1, <3>2, <3>3 DEF LinksOf
  <2>2. CASE "add" \notin DOMAIN e
    <3> DEFINE l == UnlinkChannels(t, c, b)
    <3>1. Relinks(t, l)
      BY <1>1, LinkRelinks
    <3>2. \A x \in DOMAIN t : \A y : y \in l[x].links <=> y \in t[x].links /\ ~(x = c /\ y = b) /\ ~(x = b /\ y = c)
      BY <1>4, UnlinkCells, SMTT(30)
    <3>3. r = l
      BY <2>2
    <3>. HIDE DEF r, l
    <3>4. {c, b} = {b, c}
      OBVIOUS
    <3>. QED BY <1>1, <2>2, <3>1, <3>2, <3>3, <3>4 DEF LinksOf
  <2>. QED BY <2>1, <2>2
<1>. HIDE DEF r
<1>6. TreeOK(mem'.tree, temps')
  BY <1>1, <1>3, <1>5, RelinksOK
<1>7. /\ c \in Nat /\ DOMAIN r = DOMAIN t
      /\ \A x \in DOMAIN t : r[x].name = t[x].name /\ r[x].temporary = t[x].temporary /\ r[x].parent = t[x].parent
  BY <1>1, <1>4, <1>5, SMTT(30) DEF Relinks, ChanFields
<1>8. CASE t[c].temporary
  <2>1. EditTx(c, e) = <<>>
    BY <1>1, <1>2, <1>7, <1>8 DEF EditTx
  <2>2. \A x \in Lasting(r) : x \in Lasting(t) /\ x \in DOMAIN t /\ x # c
    BY <1>7, <1>8 DEF Lasting
  <2>3. \A x, y \in Lasting(r) : y \in r[x].links <=> y \in t[x].links
    BY <1>5, <2>2 DEF LinksOf
  <2>4. Settled(mem, mem', unlogged, unlogged')
    BY <1>1, <1>3, <1>4, <1>7, <2>2, <2>3, SMTT(30) DEF Settled
  <2>5. Covered(mem, mem', temps, temps')
    BY <1>1, <1>3, <1>7 DEF Covered
  <2>. QED BY <1>1, <1>6, <2>1, <2>4, <2>5, EmptyTx, QuietChanNone, QuietChansWrite
<1>9. CASE ~t[c].temporary
  <2> DEFINE u == UpdateFrozenChannel(r, c, e)
  <2>1. EditTx(c, e) = <<u>>
    BY <1>1, <1>2, <1>7, <1>9 DEF EditTx
  <2>2. /\ u.kind = "Channel" /\ u.id = c
        /\ DOMAIN u.set = (IF r[c].links = {} THEN {} ELSE {"links"})
        /\ r[c].links # {} => u.set["links"] = r[c].links
    <3>1. Absent.links = {}
      BY DEF Absent
    <3>. QED BY <3>1 DEF UpdateFrozenChannel, ChannelEntry
  <2>. HIDE DEF u
  <2>3. IsEntry(u)
    BY <1>7, <2>2 DEF IsEntry, FrozenFields
  <2>4. ASSUME NEW k, IsLoad(k)
        PROVE  Carried(k, Replay(k, u), mem, mem', unlogged, unlogged', temps, temps')
    <3> DEFINE m == Replay(k, u)
    <3>1. RawEffect(k, u, m)
      BY <2>3, <2>4, ReplayRaw
    <3>2. Relinks(mem.tree, mem'.tree) /\ LinksOf(mem.tree, mem'.tree, c, unlogged')
      BY <1>3, <1>5
    <3>3. c \in DOMAIN mem.tree /\ DOMAIN mem.tree \subseteq 0..mem.nextChan - 1 /\ \A x \in unlogged : x \in unlogged'
      BY <1>1, <1>4
    <3>5. /\ DOMAIN u.set = (IF mem'.tree[c].links = {} THEN {} ELSE {"links"})
          /\ mem'.tree[c].links # {} => u.set["links"] = mem'.tree[c].links
      BY <1>3, <2>2
    <3>. HIDE DEF m, t
    <3>4. Carried(k, m, mem, mem', unlogged, unlogged', temps, temps)
      BY <1>1, <1>4, <2>2, <2>4, <3>1, <3>2, <3>3, <3>5, LinksCarried
    <3>. QED BY <1>1, <3>4 DEF m
  <2>. QED BY <1>1, <1>6, <2>1, <2>3, <2>4, EntryWrite
<1>. QED BY <1>8, <1>9

\* Each of the handlers writes what it changes of the channels.
LEMMA HandlersChans ==
    ASSUME FreezerInv, TreeOK(mem.tree, temps), PlainHandler
    PROVE  ChansWrite
<1>1. MemTyped(mem)
  BY DEF FreezerInv, FilesInv
<1>2. logOpen
  <2>1. PlainWrite
    BY PlainHandlers
  <2>. QED BY <2>1 DEF PlainWrite, Writes
<1>3. ASSUME NEW c \in Chans, NEW e \in Edits, handleChannelEdit(c, e) PROVE ChansWrite
  <2>1. Edits1(c, e)
    BY <1>1, <1>2, <1>3, EditFacts
  <2>2. DOMAIN e = {"name"} \/ DOMAIN e = {"parent"} \/ DOMAIN e \in {{"add"}, {"remove"}}
    BY DEF Edits
  <2>. QED BY <1>1, <1>2, <2>1, <2>2, NameChans, MoveChans, LinkChans, SMTT(30)
<1>. QED BY <1>1, <1>2, <1>3, RegisterChans, BlobChans, EnterChans, UserListChans, CreateChans, RemoveChans, AclChans
        DEF PlainHandler

\* Every parent in the files is there.
Closed(ls) == \A c \in DOMAIN ls.parents : ls.parents[c] \in DOMAIN ls.raw

TreeInv == TreeOK(mem.tree, temps)

ChansInv ==
    Running => /\ Right(LoadLog, mem, unlogged, temps)
               /\ KeepsChans(log, mem, unlogged, temps)

ClosedInv == logOpen => Closed(LoadLog)

\* A snapshot has the names, parents and links of all channels, and every
\* parent.
LEMMA SnapshotRight ==
    ASSUME MemTyped(mem), TreeOK(mem.tree, temps), NEW m, IsSnapshot(m), SnapshotOf(m)
    PROVE  Closed(LoadSnapshot(m)) /\ \A unl : Right(LoadSnapshot(m), mem, unl, temps)
<1> DEFINE t == mem.tree
           k == LoadSnapshot(m)
<1>1. m.chans = [c \in DOMAIN t |-> FreezeChannel(t[c])]
  BY DEF SnapshotOf
<1>2. DOMAIN m.chans = DOMAIN t /\ \A c \in DOMAIN t : m.chans[c] = FreezeChannel(t[c])
  BY <1>1
<1>3. ASSUME NEW c \in DOMAIN t
      PROVE  /\ "name" \in DOMAIN m.chans[c] /\ m.chans[c].name = t[c].name
             /\ "parent" \in DOMAIN m.chans[c] <=> t[c].parent # NoChannel
             /\ t[c].parent # NoChannel => m.chans[c].parent = t[c].parent
             /\ "links" \in DOMAIN m.chans[c] <=> t[c].links # {}
             /\ t[c].links # {} => m.chans[c].links = t[c].links
  <2> DEFINE ch == t[c]
  <2>. HIDE DEF ch
  <2>1. DOMAIN Absent = {"parent", "acls", "groups", "links"} /\ Absent.parent = NoChannel /\ Absent.links = {}
    BY DEF Absent
  <2>2. DOMAIN FreezeChannel(ch) = {"name", "inherit"} \cup {y \in DOMAIN Absent : ch[y] # Absent[y]}
    BY DEF FreezeChannel
  <2>3. \A x \in DOMAIN FreezeChannel(ch) : x # "acls" => FreezeChannel(ch)[x] = ch[x]
    BY DEF FreezeChannel
  <2>4. m.chans[c] = FreezeChannel(ch)
    BY <1>2 DEF ch
  <2>. QED BY <2>1, <2>2, <2>3, <2>4 DEF ch
<1>4. /\ IsLoad(k) /\ DOMAIN k.raw = DOMAIN t
      /\ DOMAIN k.parents = {c \in DOMAIN t : "parent" \in DOMAIN m.chans[c]}
      /\ \A c \in DOMAIN k.parents : k.parents[c] = m.chans[c].parent
      /\ \A c \in DOMAIN k.raw : \A x \in {"name", "links"} :
            k.raw[c][x] = IF x \in DOMAIN m.chans[c] THEN m.chans[c][x] ELSE NewChannel("")[x]
  <2>1. /\ IsLoad(k) /\ DOMAIN k.raw = DOMAIN m.chans
        /\ DOMAIN k.parents = {c \in DOMAIN m.chans : "parent" \in DOMAIN m.chans[c]}
        /\ \A c \in DOMAIN k.parents : k.parents[c] = m.chans[c].parent
        /\ \A c \in DOMAIN k.raw : \A x \in {"name", "links"} :
              k.raw[c][x] = IF x \in DOMAIN m.chans[c] THEN m.chans[c][x] ELSE NewChannel("")[x]
    BY SnapshotLoad
  <2>. HIDE DEF k, t
  <2>. QED BY <1>2, <2>1
<1>5. NewChannel("").links = {}
  BY DEF NewChannel
<1>. HIDE DEF k, t
<1>6. \A c \in DOMAIN t : k.raw[c].name = t[c].name /\ k.raw[c].links = t[c].links
  BY <1>3, <1>4, <1>5
<1>7. \A c \in DOMAIN t : /\ c \in DOMAIN k.parents <=> t[c].parent # NoChannel
                          /\ c \in DOMAIN k.parents => k.parents[c] = t[c].parent
  BY <1>3, <1>4
<1>8. TreeOK(t, temps) /\ mem.nextChan \in Nat /\ DOMAIN t \subseteq 0..mem.nextChan - 1
  BY DEF MemTyped, t
<1>9. Closed(k)
  BY <1>4, <1>7, <1>8 DEF Closed, TreeOK
<1>10. \A c \in Lasting(t) : c \in DOMAIN t
  BY DEF Lasting
<1>11. \A c \in DOMAIN t : c < mem.nextChan /\ ~(c >= mem.nextChan)
  BY <1>8, SMTT(30)
<1>12. \A c, d : LinkedIn(k, c, d) => c \in DOMAIN t /\ d \in DOMAIN t /\ d \in t[c].links
  BY <1>4, <1>6, <1>8 DEF LinkedIn, TreeOK
<1>13. \A c, d \in Lasting(t) : d \in t[c].links => LinkedIn(k, c, d)
  BY <1>4, <1>6, <1>10 DEF LinkedIn
<1>14. ASSUME NEW unl PROVE Right(k, mem, unl, temps)
  <2>1. \A c, d \in Nat : Apart(mem, unl, c, d) => ~LinkedIn(k, c, d)
    BY <1>11, <1>12 DEF Apart, t
  <2>. QED BY <1>4, <1>6, <1>7, <1>10, <1>11, <1>13, <2>1 DEF Right, t
<1>. QED BY <1>9, <1>14 DEF k

\* An empty log, or none, leaves every snapshot as it is.
LEMMA KeepsItself ==
    ASSUME NEW ls, NEW s, NEW unl, NEW tmp
    PROVE  Keeps(ls, ls, s, unl, tmp)
BY DEF Keeps

\* Only the tree and the next id of the server matter.
LEMMA RightSame ==
    ASSUME NEW ls, NEW s, NEW v, NEW unl, NEW tmp, v.tree = s.tree, v.nextChan = s.nextChan
    PROVE  /\ Right(ls, s, unl, tmp) => Right(ls, v, unl, tmp)
           /\ \A k : Keeps(ls, k, s, unl, tmp) => Keeps(ls, k, v, unl, tmp)
<1>1. \A c, d : Apart(v, unl, c, d) <=> Apart(s, unl, c, d)
  BY DEF Apart
<1>2. Right(ls, s, unl, tmp) => Right(ls, v, unl, tmp)
  BY <1>1 DEF Right
<1>3. \A k : Keeps(ls, k, s, unl, tmp) => Keeps(ls, k, v, unl, tmp)
  BY <1>1 DEF Keeps
<1>. QED BY <1>2, <1>3

\* A write keeps the tree, the channels on disk and their parents.
LEMMA ChansWriteStep ==
    ASSUME FreezerInv, ChansInv, ClosedInv, ChansWrite
    PROVE  TreeInv' /\ ChansInv' /\ ClosedInv'
<1>1. PICK es : /\ IsTx(es) /\ Writes(es)
                /\ \A k : IsLoad(k) => Carried(k, ReplayAll(k, es), mem, mem', unlogged, unlogged', temps, temps')
  BY DEF ChansWrite
<1>2. /\ Running /\ IsLoad(LoadLog) /\ LoadLog' = ReplayAll(LoadLog, es)
      /\ \A ls : IsLoad(ls) => IsLoad(RunLog(log, ls))
      /\ \A ls : RunLog(log', ls) = ReplayAll(RunLog(log, ls), es)
  BY <1>1, TxStep
<1>3. Right(LoadLog, mem, unlogged, temps) /\ KeepsChans(log, mem, unlogged, temps)
  BY <1>2 DEF ChansInv
<1>4. Carried(LoadLog, LoadLog', mem, mem', unlogged, unlogged', temps, temps')
  BY <1>1, <1>2
<1>5. Right(LoadLog', mem', unlogged', temps')
  BY <1>2, <1>3, <1>4, RightCarried
<1>6. KeepsChans(log', mem', unlogged', temps')
  <2>1. ASSUME NEW ls, IsLoad(ls) PROVE Keeps(ls, RunLog(log', ls), mem', unlogged', temps')
    <3> DEFINE k == RunLog(log, ls)
               m == RunLog(log', ls)
    <3>1. IsLoad(k) /\ Keeps(ls, k, mem, unlogged, temps)
      BY <1>2, <1>3, <2>1 DEF KeepsChans
    <3>2. Carried(k, m, mem, mem', unlogged, unlogged', temps, temps')
      BY <1>1, <1>2, <3>1
    <3>. HIDE DEF k, m
    <3>3. Keeps(ls, m, mem', unlogged', temps')
      BY <3>1, <3>2, KeepsCarried
    <3>. QED BY <3>3 DEF m
  <2>. QED BY <2>1 DEF KeepsChans
<1>7. Closed(LoadLog')
  <2>1. Closed(LoadLog)
    BY <1>1 DEF ClosedInv, Writes
  <2> DEFINE k == LoadLog
             m == LoadLog'
  <2>2. IsLoad(k) /\ Closed(k) /\ Carried(k, m, mem, mem', unlogged, unlogged', temps, temps') /\ Right(k, mem, unlogged, temps)
    BY <1>2, <1>3, <1>4, <2>1
  <2>. HIDE DEF k, m
  <2>3. \A c \in Lasting(mem.tree) : c \in DOMAIN k.raw
    BY <2>2 DEF Right
  <2>4. \A c \in DOMAIN m.parents : c \in DOMAIN k.raw \/ m.parents[c] \in DOMAIN k.raw
    BY <2>2, <2>3 DEF Carried
  <2>5. /\ \A c \in DOMAIN k.raw : c \in DOMAIN m.raw
        /\ \A c \in DOMAIN k.raw : /\ c \in DOMAIN m.parents <=> c \in DOMAIN k.parents
                                   /\ c \in DOMAIN k.parents => m.parents[c] = k.parents[c]
    BY <2>2 DEF Carried
  <2>6. \A c \in DOMAIN m.parents : m.parents[c] \in DOMAIN m.raw
    BY <2>2, <2>4, <2>5 DEF Closed
  <2>7. Closed(m)
    BY <2>6 DEF Closed
  <2>. QED BY <2>7 DEF m
<1>. QED BY <1>5, <1>6, <1>7 DEF TreeInv, ChansInv, ClosedInv, ChansWrite

\* Every step that writes to the log carries the change of the channels.
LEMMA WriteKinds ==
    ASSUME FreezerInv, TreeInv, UpdateConfig \/ PlainHandler \/ SetsBans
    PROVE  ChansWrite
BY HandlersChans, BansChans DEF TreeInv

\* Every step keeps the tree of the server a tree.
LEMMA TreeSteps ==
    ASSUME FreezerInv, TreeInv, Next
    PROVE  TreeInv' \/ ChansWrite
<1>1. \/ Ends \/ Boot \/ Prepares \/ freezeWrite \/ freezeRename \/ openRemove \/ openCreate
      \/ UpdateConfig \/ PlainHandler \/ SetsBans
      \/ \E v \in Passwords : setConfigPassword(v)
  BY StepKinds
<1>2. CASE Ends
  BY <1>2, FreshTree DEF Ends, Dies, TreeInv
<1>3. CASE Boot
  <2>1. CASE dir
    <3>1. Loads /\ mem' = Loaded
      BY <1>3, <2>1 DEF Boot
    <3>2. main # NoFile /\ Range(LoadLog.parents) \subseteq DOMAIN LoadLog.raw
      BY <3>1 DEF Loads
    <3>3. IsLoad(LoadLog)
      BY <3>2, LoadLogIs DEF FreezerInv
    <3>4. mem'.tree = HookUp(LoadLog)
      BY <3>1 DEF Loaded
    <3>5. \A tmp : TreeOK(HookUp(LoadLog), tmp)
      BY <3>2, <3>3, LoadedTree
    <3>. QED BY <3>4, <3>5 DEF TreeInv
  <2>2. CASE ~dir
    <3>1. mem' = Fresh
      BY <1>3, <2>2 DEF Boot
    <3>. QED BY <3>1, FreshTree DEF TreeInv
  <2>. QED BY <2>1, <2>2
<1>4. CASE Prepares \/ freezeWrite \/ freezeRename \/ openRemove \/ openCreate
  <2>1. mem' = mem /\ temps' = temps
    BY <1>4 DEF Prepares, freezeWrite, freezeClose, startListens, startFails, stopFreezes,
                freezeRename, openRemove, openCreate, histVars
  <2>. QED BY <2>1 DEF TreeInv
<1>5. CASE \E v \in Passwords : setConfigPassword(v)
  <2>1. PICK v \in Passwords : setConfigPassword(v)
    BY <1>5
  <2>2. temps' = temps /\ mem' = [mem EXCEPT !.cfg = v]
    BY <2>1 DEF setConfigPassword, histVars
  <2>3. mem'.tree = mem.tree
    BY <2>2 DEF FreezerInv, FilesInv, MemTyped, MemFields
  <2>. QED BY <2>2, <2>3 DEF TreeInv
<1>. QED BY <1>1, <1>2, <1>3, <1>4, <1>5, WriteKinds

\* Every step that is no write keeps the channels on disk.
LEMMA ChansSteps ==
    ASSUME FreezerInv, TreeInv, ChansInv, ~ChansWrite, Next
    PROVE  ChansInv'
<1>1. SUFFICES ASSUME Running'
               PROVE  Right(LoadLog', mem', unlogged', temps') /\ KeepsChans(log', mem', unlogged', temps')
  BY DEF ChansInv
<1>2. CASE Silent
  <2>1. /\ log' = log /\ LoadLog' = LoadLog /\ unlogged' = unlogged /\ temps' = temps /\ Running
        /\ mem'.tree = mem.tree /\ mem'.nextChan = mem.nextChan
    BY <1>2 DEF Silent, MemFields
  <2>2. Right(LoadLog, mem, unlogged, temps) /\ KeepsChans(log, mem, unlogged, temps)
    BY <2>1 DEF ChansInv
  <2>. QED BY <2>1, <2>2, RightSame DEF KeepsChans
<1>3. CASE \E m : Snapshots(m)
  <2>1. PICK m : Snapshots(m)
    BY <1>3
  <2>2. /\ IsSnapshot(m) /\ SnapshotOf(m) /\ LoadLog' = RunLog(log', LoadSnapshot(m)) /\ mem' = mem /\ temps' = temps
        /\ (Running /\ log' = log /\ unlogged' = unlogged) \/ \A ls : RunLog(log', ls) = ls
    BY <2>1 DEF Snapshots
  <2>3. MemTyped(mem) /\ TreeOK(mem.tree, temps)
    BY DEF FreezerInv, FilesInv, TreeInv
  <2> DEFINE k == LoadSnapshot(m)
  <2>4. IsLoad(k)
    BY <2>2, SnapshotLoad
  <2>5. Right(k, mem, unlogged', temps)
    BY <2>2, <2>3, SnapshotRight
  <2>6. KeepsChans(log', mem, unlogged', temps)
    <3>1. CASE Running /\ log' = log /\ unlogged' = unlogged
      BY <3>1 DEF ChansInv
    <3>2. CASE \A ls : RunLog(log', ls) = ls
      BY <3>2, KeepsItself DEF KeepsChans
    <3>. QED BY <2>2, <3>1, <3>2
  <2>. HIDE DEF k
  <2>7. Keeps(k, RunLog(log', k), mem, unlogged', temps)
    BY <2>4, <2>6 DEF KeepsChans
  <2>8. Right(RunLog(log', k), mem, unlogged', temps)
    BY <2>5, <2>7, RightKept
  <2>. QED BY <2>2, <2>6, <2>8 DEF k
<1>. QED BY <1>1, <1>2, <1>3, WriteKinds, RunningSteps

\* And every parent there: a log is begun only over a snapshot of the
\* server.
LEMMA ClosedSteps ==
    ASSUME FreezerInv, TreeInv, ClosedInv, ~ChansWrite, Next
    PROVE  ClosedInv'
<1>1. SUFFICES ASSUME logOpen' PROVE Closed(LoadLog')
  BY DEF ClosedInv
<1>2. \/ Ends \/ Boot \/ Prepares \/ freezeWrite \/ freezeRename \/ openRemove \/ openCreate
      \/ UpdateConfig \/ PlainHandler \/ SetsBans
      \/ \E v \in Passwords : setConfigPassword(v)
  BY StepKinds
<1>3. CASE Ends
  BY <1>1, <1>3 DEF Ends, Dies
<1>4. CASE Boot \/ freezeWrite \/ freezeRename \/ openRemove
  <2>1. logOpen' = logOpen /\ (up = "off" \/ fz \in {"write", "rename", "remove"})
    BY <1>4 DEF Boot, freezeWrite, freezeRename, openRemove
  <2>. QED BY <1>1, <2>1 DEF FreezerInv, ProcInv
<1>5. CASE Prepares
  <2>1. UNCHANGED <<main, log>> /\ (logOpen' = FALSE \/ logOpen' = logOpen)
    BY <1>5 DEF Prepares, freezeClose, startListens, startFails, stopFreezes
  <2>2. LoadLog' = LoadLog
    BY <2>1 DEF LoadLog
  <2>. QED BY <1>1, <2>1, <2>2 DEF ClosedInv
<1>6. CASE \E v \in Passwords : setConfigPassword(v)
  <2>1. UNCHANGED <<main, log, logOpen>>
    BY <1>6 DEF setConfigPassword, procVars
  <2>2. LoadLog' = LoadLog
    BY <2>1 DEF LoadLog
  <2>. QED BY <1>1, <2>1, <2>2 DEF ClosedInv
<1>7. CASE openCreate
  <2>1. LoadLog' = LoadSnapshot(main) /\ fz = "create"
    BY <1>7, CreateStep DEF openCreate
  <2>2. IsSnapshot(main) /\ SnapshotOf(main) /\ MemTyped(mem)
    BY <2>1 DEF FreezerInv, FilesInv, ProcInv
  <2>3. Closed(LoadSnapshot(main))
    BY <2>2, SnapshotRight DEF TreeInv
  <2>. QED BY <2>1, <2>3
<1>. QED BY <1>2, <1>3, <1>4, <1>5, <1>6, <1>7, WriteKinds

-----------------------------------------------------------------------------
\* The inductive invariant.
RecoveryInv == FreezerInv /\ CfgInv /\ UsersInv /\ TreeInv /\ ChansInv /\ ClosedInv

\* The invariant holds when the first process starts.
LEMMA RecoveryInit ==
    ASSUME Init
    PROVE  RecoveryInv
<1>1. up = "off" /\ logOpen = FALSE /\ mem = Fresh
  BY DEF Init
<1>2. ~Running
  BY <1>1 DEF Running
<1>3. CfgInv /\ UsersInv /\ ChansInv /\ ClosedInv
  BY <1>1, <1>2 DEF CfgInv, UsersInv, ChansInv, ClosedInv
<1>4. TreeInv
  BY <1>1, FreshTree DEF TreeInv
<1>. QED BY <1>3, <1>4, InitStep DEF RecoveryInv

\* Every step keeps it.
LEMMA RecoveryStep ==
    ASSUME RecoveryInv, Next
    PROVE  RecoveryInv'
<1>1. FreezerInv /\ CfgInv /\ UsersInv /\ TreeInv /\ ChansInv /\ ClosedInv
  BY DEF RecoveryInv
<1>2. FreezerInv' /\ CfgInv' /\ UsersInv'
  BY <1>1, StepKinds, CfgSteps, UsersSteps
<1>3. TreeInv' /\ ChansInv' /\ ClosedInv'
  BY <1>1, ChansWriteStep, TreeSteps, ChansSteps, ClosedSteps
<1>. QED BY <1>2, <1>3 DEF RecoveryInv

\* It holds while nothing happens.
LEMMA RecoveryStutter ==
    ASSUME RecoveryInv, UNCHANGED vars
    PROVE  RecoveryInv'
<1>1. UNCHANGED <<main, log, up, logOpen, mem, pending, unlogged, temps>>
  BY DEF vars, procVars, histVars
<1>2. LoadLog' = LoadLog /\ Running' = Running
  BY <1>1 DEF LoadLog, Running
<1>3. FreezerInv'
  BY StutterStep DEF RecoveryInv
<1>4. CfgInv' /\ UsersInv' /\ TreeInv' /\ ChansInv' /\ ClosedInv'
  BY <1>1, <1>2 DEF RecoveryInv, CfgInv, UsersInv, TreeInv, ChansInv, ClosedInv
<1>. QED BY <1>3, <1>4 DEF RecoveryInv

\* The inductive invariant of recovery: what is on disk, with the log there
\* is and with any log that a crash may leave beside a newer snapshot, has
\* the users, the password and the channels of the server in memory
\* (FreezeToFile, openFreezeLog, NewServerFromFrozen).
THEOREM RecoveryInvariant == Spec => []RecoveryInv
<1>1. Init => RecoveryInv
  BY RecoveryInit
<1>2. RecoveryInv /\ [Next]_vars => RecoveryInv'
  BY RecoveryStep, RecoveryStutter
<1>. QED BY <1>1, <1>2, PTL DEF Spec

\* Whenever the log is open, NewServerFromFrozen can load the files, unless
\* a removal or a group with members was written: a server that is killed
\* between two messages starts again.
THEOREM RunningLoadsTheorem == Spec => []RunningLoads
<1>1. RecoveryInv => RunningLoads
  <2>. SUFFICES ASSUME RecoveryInv, logOpen, ~RemovalLogged, ~MembersStored PROVE Loads
    BY DEF RunningLoads
  <2>1. main # NoFile /\ log # NoFile /\ log.torn = "no"
    BY DEF RecoveryInv, FreezerInv, ProcInv
  <2>2. ~LoadLog.panic
    BY DEF MembersStored
  <2>3. Range(LoadLog.parents) \subseteq DOMAIN LoadLog.raw
    BY DEF RecoveryInv, ClosedInv, Closed, Range
  <2>. QED BY <2>1, <2>2, <2>3 DEF Loads
<1>. QED BY <1>1, RecoveryInvariant, PTL

\* What NewServerFromFrozen makes of the files at any moment is the server
\* in memory, up to the changes that the code does not write: at every step
\* of a snapshot, after every sequence of messages, for any bounds.
THEOREM RecoveryExactTheorem == Spec => []RecoveryExact
<1>1. RecoveryInv => RecoveryExact
  <2>. SUFFICES ASSUME RecoveryInv, up \in {"run", "stop"}, Loads PROVE RecoveryExact
    BY DEF RecoveryExact
  <2> DEFINE ls == LoadLog
             t == HookUp(ls)
             l == Loaded
             known(users) == [u \in {v \in DOMAIN users : <<"user", v>> \notin unlogged} |->
                                [f \in {"name", "cert", "blob"} |-> users[u][f]]]
  <2>1. /\ main # NoFile /\ ~ls.panic /\ IsLoad(ls)
        /\ ls.bans = mem.bans /\ (pending = NoCfg => ls.cfg = mem.cfg)
        /\ \A u : <<"user", u>> \notin unlogged => SameUser(ls, mem.users, u)
        /\ Right(ls, mem, unlogged, temps) /\ MemTyped(mem) /\ TreeOK(mem.tree, temps)
    <3>1. main # NoFile /\ ~ls.panic /\ Running
      BY DEF Loads, Running
    <3>2. FreezerInv /\ CfgInv /\ UsersInv /\ TreeInv /\ ChansInv
      BY DEF RecoveryInv
    <3>3. IsLoad(ls)
      BY <3>1, <3>2, LoadLogIs DEF FreezerInv
    <3>4. ls.bans = mem.bans
      BY <3>1, <3>2 DEF FreezerInv, BansInv
    <3>. QED BY <3>1, <3>2, <3>3, <3>4 DEF CfgInv, UsersInv, ChansInv, TreeInv, FreezerInv, FilesInv
  <2>2. l.bans = ls.bans /\ l.cfg = ls.cfg /\ l.users = ls.users /\ l.tree = t
    BY DEF Loaded
  <2>3. HooksUp(ls, t)
    BY <2>1, HookUpCells
  <2>4. known(ls.users) = known(mem.users)
    <3>. HIDE DEF ls
    <3>. QED BY <2>1 DEF SameUser, Kept
  <2>. HIDE DEF t, ls
  <2>5. Permanent = Lasting(mem.tree) /\ \A c \in Permanent : c \in Nat /\ c \in DOMAIN mem.tree
    BY <2>1, SMTT(30) DEF Permanent, Lasting, MemTyped
  <2>6. Permanent \subseteq DOMAIN t /\ DOMAIN t \subseteq DOMAIN mem.tree \cup temps
    BY <2>1, <2>3, <2>5 DEF Right, HooksUp
  <2>7. \A c \in Permanent : t[c].name = mem.tree[c].name
    BY <2>1, <2>3, <2>5, <2>6 DEF Right, HooksUp
  <2>8. \A c \in Permanent : <<"moved", c>> \notin unlogged => t[c].parent = mem.tree[c].parent
    BY <2>1, <2>3, <2>5, <2>6 DEF Right, HooksUp
  <2>9. \A c, d \in Permanent : d \in t[c].links <=> LinkedIn(ls, c, d)
    BY <2>3, <2>6 DEF HooksUp, LinkedIn
  <2>10. \A c, d \in Permanent : d \in mem.tree[c].links => d \in t[c].links
    BY <2>1, <2>5, <2>9 DEF Right
  <2>11. \A c, d \in Permanent : <<"unlinked", {c, d}>> \notin unlogged =>
             (d \in t[c].links => d \in mem.tree[c].links)
    <3>1. \A c, d \in Permanent : Apart(mem, unlogged, c, d) => ~LinkedIn(ls, c, d)
      BY <2>1, <2>5 DEF Right
    <3>. QED BY <2>5, <2>9, <3>1 DEF Apart
  <2>12. /\ l.bans = mem.bans
         /\ pending = NoCfg => l.cfg = mem.cfg
         /\ known(l.users) = known(mem.users)
    BY <2>1, <2>2, <2>4
  <2>. HIDE DEF l
  <2>13. /\ Permanent \subseteq DOMAIN l.tree /\ DOMAIN l.tree \subseteq DOMAIN mem.tree \cup temps
         /\ \A c \in Permanent :
                 /\ l.tree[c].name = mem.tree[c].name
                 /\ <<"moved", c>> \notin unlogged => l.tree[c].parent = mem.tree[c].parent
                 /\ \A d \in Permanent :
                       /\ d \in mem.tree[c].links => d \in l.tree[c].links
                       /\ <<"unlinked", {c, d}>> \notin unlogged =>
                             (d \in l.tree[c].links => d \in mem.tree[c].links)
    BY <2>2, <2>6, <2>7, <2>8, <2>10, <2>11
  <2>. QED BY <2>12, <2>13 DEF RecoveryExact, l
<1>. QED BY <1>1, RecoveryInvariant, PTL
==============================================================================
