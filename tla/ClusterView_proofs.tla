------------------------- MODULE ClusterView_proofs -------------------------
(***************************************************************************)
(* Proofs about the registries of a torchrun job, for every job: any       *)
(* ranks, hosts and addresses, any intervals and any number of faults.     *)
(* Whatever reports, late reports, sweeps and answers a registry takes, in *)
(* whatever order, its entries and its rank index agree.                   *)
(***************************************************************************)
EXTENDS ClusterView, FiniteSetTheorems, SequenceTheorems, TLAPS

\* A set of naturals that is not empty has a least element: of the sets of its
\* elements up to one of them, some is minimal.
LEMMA Least ==
  ASSUME NEW S \in SUBSET Nat, S # {}
  PROVE \E m \in S : \A x \in S : m <= x
  <1> DEFINE Upto(x) == {y \in S : y <= x}
             T == {Upto(x) : x \in S}
             R == StrictSubsetOrdering(S)
  <1>1. \A x \in S : Upto(x) \in FiniteSubsetsOf(S)
    <2> SUFFICES ASSUME NEW x \in S PROVE Upto(x) \in FiniteSubsetsOf(S)
      OBVIOUS
    <2>1. Upto(x) \in SUBSET Nat /\ x \in Nat /\ \A y \in Upto(x) : y <= x
      OBVIOUS
    <2>2. IsFiniteSet(Upto(x))
      BY <2>1, FS_BoundedSetOfNaturals
    <2> QED
      BY <2>2 DEF FiniteSubsetsOf
  <1>2. T \subseteq FiniteSubsetsOf(S) /\ T # {}
    BY <1>1
  <1>3. IsWellFoundedOn(R, FiniteSubsetsOf(S))
    BY FS_StrictSubsetOrderingWellFounded
  <1> HIDE DEF R, T
  <1>4. \E A \in T : \A B \in T : ~ (<<B, A>> \in R)
    BY <1>2, <1>3, WFMin
  <1> USE DEF R, T
  <1>5. PICK m \in S : \A x \in S : ~ (<<Upto(x), Upto(m)>> \in R)
    BY <1>4
  <1>6. ASSUME NEW x \in S, ~(m <= x) PROVE FALSE
    <2>0. x \in Nat /\ m \in Nat /\ x < m /\ \A y \in S : y \in Nat
      BY <1>6
    <2>a. Upto(x) \subseteq Upto(m)
      <3> SUFFICES ASSUME NEW y \in S, y <= x PROVE y <= m
        OBVIOUS
      <3> y \in Nat
        OBVIOUS
      <3> QED
        BY <2>0
    <2>b. m \in Upto(m) /\ m \notin Upto(x)
      BY <2>0
    <2>1. Upto(x) \subseteq Upto(m) /\ m \in Upto(m) /\ m \notin Upto(x) /\ Upto(m) \subseteq S
      BY <2>a, <2>b
    <2>2. <<Upto(x), Upto(m)>> \in R
      BY <2>1 DEF StrictSubsetOrdering
    <2> QED
      BY <1>5, <2>2
  <1> QED
    BY <1>6

(***************************************************************************)
(* A registry, as a value: a report is put one item at a time, the sweep   *)
(* and the removals take entries away.                                     *)
(***************************************************************************)
Slots == Entry \union {NoEntry}

\* The rank index names the entries, and nothing else.
Exact(ns, ix) ==
    /\ \A a \in Addrs : ns[a].rank \in Ranks => ix[ns[a].rank] = a
    /\ \A r \in Ranks : ix[r] # NoAddr => ns[ix[r]].rank = r

Sound(reg) ==
    /\ reg.nodes \in [Addrs -> Slots] /\ reg.index \in [Ranks -> Addrs \union {NoAddr}]
    /\ Exact(reg.nodes, reg.index)

\* An entry is present where it has a rank.
LEMMA SlotFacts ==
  ASSUME NEW e \in Slots
  PROVE  /\ e # NoEntry <=> e.rank \in Ranks
         /\ e # NoEntry => e \in Entry
  BY ClusterAssumption DEF Slots, Entry, NoEntry

LEMMA NoEntryFacts == NoEntry \in Slots /\ NoEntry.rank \notin Ranks /\ NoEntry.rank = -1
  BY ClusterAssumption DEF Slots, NoEntry

\* An entry just put.
LEMMA FreshEntry ==
  ASSUME NEW item \in Item
  PROVE  /\ [rank |-> item.rank, status |-> item.status, age |-> 0] \in Slots
         /\ item.rank \in Ranks /\ item.addr \in Addrs
  BY ClusterAssumption DEF Item, Slots, Entry, AgeCap

\* A registry whose parts are given is sound when they are.
LEMMA SoundParts ==
  ASSUME NEW ns \in [Addrs -> Slots], NEW ix \in [Ranks -> Addrs \union {NoAddr}], Exact(ns, ix)
  PROVE  Sound([nodes |-> ns, index |-> ix])
  BY DEF Sound

\* Cluster::put keeps the index exact, whatever it is given: a new rank at a known
\* address, a new address of a known rank, or both.
LEMMA PutSound ==
  ASSUME NEW reg, Sound(reg), NEW item \in Item
  PROVE  Sound(Put(reg, item))
  <1> PICK ns, ix : ns = reg.nodes /\ ix = reg.index
    OBVIOUS
  <1> PICK a, q, e : /\ a = item.addr /\ q = item.rank
                     /\ e = [rank |-> item.rank, status |-> item.status, age |-> 0]
    OBVIOUS
  <1> DEFINE was == ns[a].rank
             gone == ns[a] # NoEntry /\ was # q /\ ix[was] = a
             idx == IF gone THEN [ix EXCEPT ![was] = NoAddr] ELSE ix
             prev == idx[q]
             ns2 == [b \in Addrs |-> IF b = a THEN e ELSE IF b = prev THEN NoEntry ELSE ns[b]]
             ix2 == [idx EXCEPT ![q] = a]
  <1>1. Put(reg, item) = [nodes |-> ns2, index |-> ix2]
    BY Zenon DEF Put, Present
  <1>2. /\ ns \in [Addrs -> Slots] /\ ix \in [Ranks -> Addrs \union {NoAddr}] /\ Exact(ns, ix)
        /\ a \in Addrs /\ q \in Ranks /\ e \in Slots /\ e.rank = q
    BY FreshEntry DEF Sound
  <1>3. NoAddr \notin Addrs
    BY ClusterAssumption
  <1>4. \A b \in Addrs : ns[b] # NoEntry <=> ns[b].rank \in Ranks
    BY <1>2, SlotFacts
  <1>5. idx \in [Ranks -> Addrs \union {NoAddr}]
    BY <1>2
  <1>6. \A r \in Ranks : idx[r] = IF gone /\ r = was THEN NoAddr ELSE ix[r]
    BY <1>2
  <1>7. prev = ix[q]
    BY <1>2, <1>6
  <1> HIDE DEF idx
  <1>8. ix2 \in [Ranks -> Addrs \union {NoAddr}]
        /\ \A r \in Ranks : ix2[r] = IF r = q THEN a ELSE idx[r]
    BY <1>2, <1>5
  <1>9. ns2 \in [Addrs -> Slots]
        /\ \A b \in Addrs : ns2[b] = IF b = a THEN e ELSE IF b = prev THEN NoEntry ELSE ns[b]
    BY <1>2, NoEntryFacts
  <1> HIDE DEF ix2, ns2, prev
  <1>10. ASSUME NEW b \in Addrs, ns2[b].rank \in Ranks PROVE ix2[ns2[b].rank] = b
    <2>1. CASE b = a
      BY <1>2, <1>8, <1>9, <2>1
    <2>2. CASE b # a
      <3>1. b # prev /\ ns2[b] = ns[b]
        BY <1>9, <1>10, <2>2, NoEntryFacts
      <3>2. ix[ns[b].rank] = b
        BY <1>2, <1>10, <3>1 DEF Exact
      <3>3. ns[b].rank # q
        BY <1>7, <3>1, <3>2
      <3>4. ~(gone /\ ns[b].rank = was)
        BY <2>2, <3>2
      <3> QED
        BY <1>6, <1>8, <1>10, <3>1, <3>2, <3>3, <3>4
    <2> QED
      BY <2>1, <2>2
  <1>11. ASSUME NEW r \in Ranks, ix2[r] # NoAddr PROVE ns2[ix2[r]].rank = r
    <2>1. CASE r = q
      BY <1>2, <1>8, <1>9, <2>1
    <2>2. CASE r # q
      <3>1. ix2[r] = ix[r] /\ ~(gone /\ r = was)
        BY <1>6, <1>8, <1>11, <2>2
      <3>2. ix[r] \in Addrs /\ ns[ix[r]].rank = r
        BY <1>2, <1>11, <3>1 DEF Exact
      <3>3. ix[r] # a
        <4> SUFFICES ASSUME ix[r] = a PROVE FALSE
          OBVIOUS
        <4>1. was = r
          BY <3>2
        <4> QED
          BY <1>4, <2>2, <3>1, <3>2, <4>1
      <3>4. ix[r] # prev
        <4> SUFFICES ASSUME ix[r] = ix[q] PROVE FALSE
          BY <1>7
        <4>1. ns[ix[q]].rank = q
          BY <1>2, <1>3, <3>2 DEF Exact
        <4> QED
          BY <2>2, <3>2, <4>1
      <3> QED
        BY <1>9, <3>1, <3>2, <3>3, <3>4
    <2> QED
      BY <2>1, <2>2
  <1>12. Exact(ns2, ix2)
    BY <1>10, <1>11 DEF Exact
  <1> QED
    BY <1>1, <1>8, <1>9, <1>12, SoundParts

\* Nothing put leaves the registry as it is, and each item is put on top of those before:
\* the recursion has a solution, built one item at a time.
LEMMA PutSteps ==
  ASSUME NEW reg, NEW items \in Seq(Item)
  PROVE  /\ Puts(reg, items)[0] = reg
         /\ \A n \in 1 .. Len(items) : Puts(reg, items)[n] = Put(Puts(reg, items)[n - 1], items[n])
  <1> PICK len \in Nat : len = Len(items)
    OBVIOUS
  <1> DEFINE Upto(f, n) == /\ DOMAIN f = 0 .. n /\ f[0] = reg
                           /\ \A k \in 1 .. n : f[k] = Put(f[k - 1], items[k])
             S == {n \in 0 .. len : ~ \E f : Upto(f, n)}
  <1>1. S = {}
    <2> SUFFICES ASSUME S # {} PROVE FALSE
      OBVIOUS
    <2>1. S \in SUBSET Nat
      OBVIOUS
    <2>2. PICK n \in S : \A x \in S : n <= x
      BY <2>1, Least
    <2>3. n \in Nat /\ n <= len
      BY <2>2
    <2>4. CASE n = 0
      <3> DEFINE f == [k \in 0 .. 0 |-> reg]
      <3>1. Upto(f, 0)
        OBVIOUS
      <3> QED
        BY <2>2, <2>4, <3>1
    <2>5. CASE n # 0
      <3>1. n - 1 \in 0 .. len /\ n - 1 < n
        BY <2>3, <2>5
      <3>2. n - 1 \notin S
        BY <2>2, <2>3, <3>1
      <3>3. PICK f : Upto(f, n - 1)
        BY <3>1, <3>2
      <3> DEFINE g == [k \in 0 .. n |-> IF k < n THEN f[k] ELSE Put(f[n - 1], items[n])]
      <3>4. DOMAIN g = 0 .. n /\ g[0] = reg
        BY <2>3, <2>5, <3>3
      <3>5. ASSUME NEW k \in 1 .. n PROVE g[k] = Put(g[k - 1], items[k])
        <4>1. k \in Nat /\ k - 1 \in 0 .. n /\ k \in 0 .. n /\ k - 1 < n
          BY <2>3
        <4>2. g[k - 1] = f[k - 1]
          BY <4>1
        <4>3. CASE k < n
          <5>1. k \in 1 .. n - 1 /\ g[k] = f[k]
            BY <2>3, <4>1, <4>3
          <5> QED
            BY <3>3, <4>2, <5>1
        <4>4. CASE k = n
          <5>1. g[k] = Put(f[n - 1], items[n])
            BY <2>3, <4>1, <4>4
          <5> QED
            BY <4>2, <4>4, <5>1
        <4> QED
          BY <2>3, <4>1, <4>3, <4>4
      <3> HIDE DEF g
      <3>6. Upto(g, n)
        BY <3>4, <3>5
      <3> QED
        BY <2>2, <3>6
    <2> QED
      BY <2>4, <2>5
  <1>2. PICK f : Upto(f, len)
    BY <1>1
  <1> DEFINE body(h, n) == IF n = 0 THEN reg ELSE Put(h[n - 1], items[n])
  <1>3. \E h : h = [n \in 0 .. len |-> body(h, n)]
    <2> DEFINE h == [n \in 0 .. len |-> f[n]]
    <2>1. ASSUME NEW n \in 0 .. len PROVE h[n] = body(h, n)
      <3>1. CASE n = 0
        BY <1>2, <3>1
      <3>2. CASE n # 0
        <4>1. n \in 1 .. len /\ n - 1 \in 0 .. len
          BY <3>2
        <4>2. h[n] = f[n] /\ h[n - 1] = f[n - 1]
          BY <4>1
        <4> HIDE DEF h
        <4> QED
          BY <1>2, <3>2, <4>1, <4>2
      <3> QED
        BY <3>1, <3>2
    <2>2. DOMAIN h = 0 .. len /\ h = [n \in 0 .. len |-> h[n]]
      OBVIOUS
    <2> HIDE DEF h
    <2>3. h = [n \in 0 .. len |-> body(h, n)]
      BY <2>1, <2>2
    <2> QED
      BY <2>3
  <1> DEFINE t == Puts(reg, items)
  <1>4. t = [n \in 0 .. len |-> body(t, n)]
    <2>1. \E h : h = [n \in 0 .. Len(items) |-> body(h, n)]
      BY <1>3
    <2>2. t = [n \in 0 .. Len(items) |-> body(t, n)]
      BY <2>1, Zenon DEF Puts
    <2> QED
      BY <2>2
  <1> HIDE DEF t
  <1>5. ASSUME NEW n \in 0 .. len PROVE t[n] = body(t, n)
    BY <1>4
  <1>6. t[0] = reg
    BY <1>5
  <1>7. ASSUME NEW n \in 1 .. len PROVE t[n] = Put(t[n - 1], items[n])
    <2>1. n \in 0 .. len /\ n # 0
      OBVIOUS
    <2> QED
      BY <1>5, <2>1
  <1> QED
    BY <1>6, <1>7 DEF t

\* update_node for every item of a report: the registry stays sound.
LEMMA PutAllSound ==
  ASSUME NEW reg, Sound(reg), NEW items \in Seq(Item)
  PROVE  Sound(PutAll(reg, items))
  <1> PICK len \in Nat : len = Len(items)
    OBVIOUS
  <1> DEFINE f == Puts(reg, items)
             S == {n \in 0 .. len : ~ Sound(f[n])}
  <1>1. f[0] = reg /\ \A n \in 1 .. len : f[n] = Put(f[n - 1], items[n]) /\ items[n] \in Item
    BY PutSteps
  <1> HIDE DEF f
  <1>2. ASSUME S # {} PROVE FALSE
    <2>1. S \in SUBSET Nat
      OBVIOUS
    <2>2. PICK n \in S : \A x \in S : n <= x
      BY <1>2, <2>1, Least
    <2>3. n # 0
      BY <1>1, <2>2
    <2>4. n \in 1 .. len /\ n - 1 \in 0 .. len /\ n - 1 < n
      BY <2>2, <2>3
    <2>5. Sound(f[n - 1])
      BY <2>2, <2>4
    <2> QED
      BY <1>1, <2>2, <2>4, <2>5, PutSound
  <1>3. Sound(f[len])
    BY <1>2
  <1> QED
    BY <1>3 DEF PutAll, f

\* The removals of an answer keep the index exact: an entry goes with its rank's index.
LEMMA RemoveSound ==
  ASSUME NEW reg, Sound(reg), NEW keys
  PROVE  Sound(RemoveByAddrs(reg, keys))
  <1> PICK ns, ix : ns = reg.nodes /\ ix = reg.index
    OBVIOUS
  <1> DEFINE ns2 == [a \in Addrs |-> IF a \in keys THEN NoEntry ELSE ns[a]]
             hit(r) == \E a \in keys \intersect Addrs : ns[a].rank = r
             ix2 == [r \in Ranks |-> IF hit(r) THEN NoAddr ELSE ix[r]]
  <1>1. RemoveByAddrs(reg, keys) = [nodes |-> ns2, index |-> ix2]
    BY Zenon DEF RemoveByAddrs
  <1>2. ns \in [Addrs -> Slots] /\ ix \in [Ranks -> Addrs \union {NoAddr}] /\ Exact(ns, ix)
    BY DEF Sound
  <1>3. ns2 \in [Addrs -> Slots] /\ ix2 \in [Ranks -> Addrs \union {NoAddr}]
    BY <1>2, NoEntryFacts
  <1>4. ASSUME NEW a \in Addrs, ns2[a].rank \in Ranks PROVE ix2[ns2[a].rank] = a
    <2>1. a \notin keys /\ ns2[a] = ns[a]
      BY <1>4, NoEntryFacts
    <2>2. ix[ns[a].rank] = a
      BY <1>2, <1>4, <2>1 DEF Exact
    <2>3. ASSUME NEW b \in keys \intersect Addrs, ns[b].rank = ns[a].rank PROVE FALSE
      <3>1. ix[ns[b].rank] = b
        BY <1>2, <1>4, <2>1, <2>3 DEF Exact
      <3> QED
        BY <2>1, <2>2, <2>3, <3>1
    <2> QED
      BY <1>4, <2>1, <2>2, <2>3
  <1>5. ASSUME NEW r \in Ranks, ix2[r] # NoAddr PROVE ns2[ix2[r]].rank = r
    <2>1. ix2[r] = ix[r] /\ ~hit(r)
      BY <1>5
    <2>2. ix[r] \in Addrs /\ ns[ix[r]].rank = r
      BY <1>2, <1>5, <2>1 DEF Exact
    <2>3. ix[r] \notin keys
      BY <2>1, <2>2
    <2> QED
      BY <2>1, <2>2, <2>3
  <1>6. Exact(ns2, ix2)
    BY <1>4, <1>5 DEF Exact
  <1> QED
    BY <1>1, <1>3, <1>6, SoundParts

\* So does the sweep, which drops the index of an entry that expired.
LEMMA SweepSound ==
  ASSUME NEW reg, Sound(reg)
  PROVE  Sound(Sweep(reg))
  <1> PICK ns, ix : ns = reg.nodes /\ ix = reg.index
    OBVIOUS
  <1> PICK X, D : X = Expired(ns) /\ D = NewlyDead(ns)
    OBVIOUS
  <1> DEFINE ns2 == [a \in Addrs |-> IF a \in X THEN NoEntry
                                     ELSE IF a \in D THEN [ns[a] EXCEPT !.status = "dead"]
                                     ELSE ns[a]]
             ix2 == [r \in Ranks |-> IF ix[r] \in X /\ ns[ix[r]].rank = r THEN NoAddr ELSE ix[r]]
  <1>1. Sweep(reg) = [nodes |-> ns2, index |-> ix2]
    BY Zenon DEF Sweep
  <1>2. ns \in [Addrs -> Slots] /\ ix \in [Ranks -> Addrs \union {NoAddr}] /\ Exact(ns, ix)
    BY DEF Sound
  <1>3. \A a \in D : a \in Addrs /\ ns[a].status = "running"
    BY DEF NewlyDead
  <1>4. ASSUME NEW a \in D
        PROVE  [ns[a] EXCEPT !.status = "dead"] \in Slots /\ [ns[a] EXCEPT !.status = "dead"].rank = ns[a].rank
    <2>1. ns[a] \in Entry
      <3>1. ns[a] \in Slots /\ ns[a].status = "running"
        BY <1>2, <1>3
      <3>2. NoEntry.status # "running"
        BY DEF NoEntry
      <3> QED
        BY <3>1, <3>2, SlotFacts
    <2> QED
      BY <2>1 DEF Entry, Slots
  <1>5. X \subseteq Addrs
    BY DEF Expired
  <1>6. \A a \in Addrs : ns2[a] \in Slots /\ (IF a \in X THEN ns2[a] = NoEntry ELSE ns2[a].rank = ns[a].rank)
    BY <1>2, <1>4, NoEntryFacts
  <1>7. ns2 \in [Addrs -> Slots] /\ ix2 \in [Ranks -> Addrs \union {NoAddr}]
    BY <1>2, <1>6
  <1>8. \A r \in Ranks : ix2[r] = IF ix[r] \in X /\ ns[ix[r]].rank = r THEN NoAddr ELSE ix[r]
    OBVIOUS
  <1> HIDE DEF ns2, ix2
  <1>9. ASSUME NEW a \in Addrs, ns2[a].rank \in Ranks PROVE ix2[ns2[a].rank] = a
    <2>1. a \notin X /\ ns2[a].rank = ns[a].rank
      BY <1>6, <1>9, NoEntryFacts
    <2>2. ix[ns[a].rank] = a
      BY <1>2, <1>9, <2>1 DEF Exact
    <2> QED
      BY <1>8, <1>9, <2>1, <2>2
  <1>10. ASSUME NEW r \in Ranks, ix2[r] # NoAddr PROVE ns2[ix2[r]].rank = r
    <2>1. ix2[r] = ix[r] /\ ~(ix[r] \in X /\ ns[ix[r]].rank = r)
      BY <1>8, <1>10
    <2>2. ix[r] \in Addrs /\ ns[ix[r]].rank = r
      BY <1>2, <1>10, <2>1 DEF Exact
    <2> QED
      BY <1>6, <2>1, <2>2
  <1>11. Exact(ns2, ix2)
    BY <1>9, <1>10 DEF Exact
  <1> QED
    BY <1>1, <1>7, <1>11, SoundParts

\* A report taken and swept.
LEMMA ReportSound ==
  ASSUME NEW reg, Sound(reg), NEW items \in Seq(Item)
  PROVE  Sound(Merged(reg, items)) /\ Sound(AfterReport(reg, items))
  BY PutAllSound, SweepSound, Zenon DEF Merged, AfterReport

(***************************************************************************)
(* What reports, answers and waits are made of.                            *)
(***************************************************************************)
Resp == [nodes : Seq(Item), removed : SUBSET (Addrs \union {NoAddr}), fresh : BOOLEAN]

\* An enumeration of a set of items is a report's tail.
LEMMA ItemSeq ==
  ASSUME NEW S \in SUBSET Item, NEW n \in Nat, NEW s \in [1 .. n -> S]
  PROVE  s \in Seq(Item)
  OBVIOUS

\* What an entry of a registry says of it.
LEMMA ItemOfType ==
  ASSUME NEW ns \in [Addrs -> Slots], NEW a \in Addrs, ns[a].rank \in Ranks
  PROVE  ItemOf(ns, a) \in Item
  <1>1. ns[a] \in Entry
    BY SlotFacts
  <1> QED
    BY <1>1 DEF ItemOf, Item, Entry

\* The items of some addresses can be enumerated.
LEMMA ItemsOfFinite ==
  ASSUME NEW ns, NEW A \in SUBSET Addrs
  PROVE  IsFiniteSet({ItemOf(ns, a) : a \in A})
  <1> DEFINE T == {ItemOf(ns, a) : a \in A}
             f == [a \in A |-> ItemOf(ns, a)]
  <1>1. IsFiniteSet(A)
    BY ClusterAssumption, FS_Subset
  <1>2. f \in Surjection(A, T)
    BY DEF Surjection
  <1> QED
    BY <1>1, <1>2, FS_Surjection

LEMMA SeqOfSet ==
  ASSUME NEW S \in SUBSET Item, IsFiniteSet(S)
  PROVE  SetToSeq(S) \in Seq(Item)
  <1>1. PICK n \in Nat : n = Cardinality(S)
    BY FS_CardinalityType
  <1>2. ExistsBijection(1 .. n, S)
    BY <1>1, FS_CardinalityType
  <1>3. \E f \in [1 .. n -> S] : IsInjective(f)
    BY <1>2 DEF ExistsBijection, Bijection, Injection
  <1>4. SetToSeq(S) \in [1 .. n -> S]
    BY <1>1, <1>3, Zenon DEF SetToSeq
  <1> QED
    BY <1>4, ItemSeq

\* apply_node_report answers with items and keys.
LEMMA AnswerType ==
  ASSUME NEW reg, Sound(reg), NEW items \in Seq(Item), NEW seen \in BOOLEAN
  PROVE  Answer(reg, items, seen) \in Resp
  <1> PICK mns, ans : mns = Merged(reg, items).nodes /\ ans = Sweep(Merged(reg, items)).nodes
    OBVIOUS
  <1> DEFINE stored(it) == IF Present(ans, it.addr) THEN ItemOf(ans, it.addr) ELSE it
             died == {ItemOf(ans, a) : a \in NewlyDead(mns)}
             told == [i \in DOMAIN items |-> stored(items[i])]
             gone == Replaced(reg, items) \union Expired(mns)
  <1>1. Answer(reg, items, seen) = [nodes |-> IF seen THEN told \o SetToSeq(died) ELSE <<>>,
                                    removed |-> gone, fresh |-> TRUE]
    BY Zenon DEF Answer
  <1>2. Sound(Merged(reg, items)) /\ Sound(Sweep(Merged(reg, items)))
    BY ReportSound, Zenon DEF AfterReport
  <1>3. mns \in [Addrs -> Slots] /\ ans \in [Addrs -> Slots]
    BY <1>2 DEF Sound
  <1>4. told \in Seq(Item)
    <2>1. ASSUME NEW it \in Item PROVE stored(it) \in Item
      <3>1. it.addr \in Addrs
        BY DEF Item
      <3>2. Present(ans, it.addr) => ans[it.addr].rank \in Ranks
        BY <1>3, <3>1, SlotFacts DEF Present
      <3> QED
        BY <1>3, <3>1, <3>2, ItemOfType
    <2>2. PICK n \in Nat : n = Len(items)
      OBVIOUS
    <2>3. DOMAIN items = 1 .. n /\ \A i \in 1 .. n : items[i] \in Item
      BY <2>2
    <2>4. told \in [1 .. n -> Item]
      BY <2>1, <2>3
    <2> HIDE DEF told
    <2> QED
      BY <2>4
  <1>5. died \subseteq Item /\ IsFiniteSet(died)
    <2>1. NewlyDead(mns) \subseteq Addrs
      BY DEF NewlyDead
    <2>2. ASSUME NEW a \in NewlyDead(mns) PROVE ans[a].rank \in Ranks
      <3>1. a \in Addrs /\ mns[a].status = "running"
        BY DEF NewlyDead
      <3>2. mns[a] # NoEntry
        BY <3>1 DEF NoEntry
      <3>3. mns[a].rank \in Ranks /\ mns[a] \in Entry
        BY <1>3, <3>1, <3>2, SlotFacts
      <3>4. a \notin Expired(mns)
        BY <3>1 DEF Expired
      <3>5. ans[a] = [mns[a] EXCEPT !.status = "dead"]
        BY <3>1, <3>4 DEF Sweep
      <3> QED
        BY <3>3, <3>5 DEF Entry
    <2>3. \A a \in NewlyDead(mns) : ItemOf(ans, a) \in Item
      BY <1>3, <2>1, <2>2, ItemOfType
    <2>4. IsFiniteSet(died)
      BY <2>1, ItemsOfFinite
    <2> QED
      BY <2>3, <2>4
  <1>6. SetToSeq(died) \in Seq(Item)
    BY <1>5, SeqOfSet
  <1>7. gone \in SUBSET (Addrs \union {NoAddr})
    <2>1. Replaced(reg, items) \subseteq Addrs \union {NoAddr}
      <3>1. reg.index \in [Ranks -> Addrs \union {NoAddr}]
        BY DEF Sound
      <3>2. ToSet(items) \subseteq Item
        BY DEF ToSet
      <3>3. \A it \in Item : it.rank \in Ranks
        BY DEF Item
      <3> QED
        BY <3>1, <3>2, <3>3 DEF Replaced
    <2>2. Expired(mns) \subseteq Addrs
      BY DEF Expired
    <2> QED
      BY <2>1, <2>2
  <1> HIDE DEF told, gone, died
  <1>8. (IF seen THEN told \o SetToSeq(died) ELSE <<>>) \in Seq(Item)
    <2>1. told \o SetToSeq(died) \in Seq(Item)
      BY <1>4, <1>6
    <2>2. << >> \in Seq(Item)
      OBVIOUS
    <2> QED
      BY <2>1, <2>2
  <1> QED
    BY <1>1, <1>7, <1>8 DEF Resp

\* Before anything is answered.
LEMMA NoRespType == NoResp \in Resp
  <1>1. << >> \in Seq(Item)
    OBVIOUS
  <1> QED
    BY <1>1 DEF NoResp, Resp

\* Doubling the base interval gives a number.
LEMMA DoubledType == \A s \in 0 .. StreakCap : Doubled[s] \in Nat
  <1> DEFINE B == Base
             C == StreakCap
             Upto(f, n) == /\ f \in [0 .. n -> Nat] /\ f[0] = B
                           /\ \A k \in 1 .. n : f[k] = 2 * f[k - 1]
             S == {n \in 0 .. C : ~ \E f : Upto(f, n)}
             body(h, s) == IF s = 0 THEN B ELSE 2 * h[s - 1]
  <1>0. B \in Nat /\ C \in Nat
    BY ClusterAssumption
  <1>d. Doubled = CHOOSE h : h = [s \in 0 .. C |-> body(h, s)]
    BY DEF Doubled
  <1> HIDE DEF B, C
  <1>1. S = {}
    <2> SUFFICES ASSUME S # {} PROVE FALSE
      OBVIOUS
    <2>1. S \in SUBSET Nat
      OBVIOUS
    <2>2. PICK n \in S : \A x \in S : n <= x
      BY <2>1, Least
    <2>3. n \in Nat /\ n <= C
      BY <1>0, <2>2
    <2>4. CASE n = 0
      <3> DEFINE f == [k \in 0 .. 0 |-> B]
      <3>1. Upto(f, 0)
        BY <1>0
      <3> QED
        BY <2>2, <2>4, <3>1
    <2>5. CASE n # 0
      <3>1. n - 1 \in 0 .. C /\ n - 1 < n /\ n - 1 \in Nat
        BY <1>0, <2>3, <2>5
      <3>2. PICK f : Upto(f, n - 1)
        BY <2>2, <2>3, <3>1
      <3> DEFINE g == [k \in 0 .. n |-> IF k < n THEN f[k] ELSE 2 * f[n - 1]]
      <3>3. f[n - 1] \in Nat
        BY <3>1, <3>2
      <3>4. g \in [0 .. n -> Nat] /\ g[0] = B
        BY <2>3, <2>5, <3>1, <3>2, <3>3
      <3>5. ASSUME NEW k \in 1 .. n PROVE g[k] = 2 * g[k - 1]
        <4>1. k \in Nat /\ k - 1 \in 0 .. n /\ k \in 0 .. n /\ k - 1 < n
          BY <2>3
        <4>2. g[k - 1] = f[k - 1]
          BY <4>1
        <4>3. CASE k < n
          <5>1. k \in 1 .. n - 1 /\ g[k] = f[k]
            BY <2>3, <4>1, <4>3
          <5> QED
            BY <3>2, <4>2, <5>1
        <4>4. CASE k = n
          <5>1. g[k] = 2 * f[n - 1]
            BY <2>3, <4>1, <4>4
          <5> QED
            BY <4>2, <4>4, <5>1
        <4> QED
          BY <2>3, <4>1, <4>3, <4>4
      <3> HIDE DEF g
      <3>6. Upto(g, n)
        BY <3>4, <3>5
      <3> QED
        BY <2>2, <3>6
    <2> QED
      BY <2>4, <2>5
  <1>a. C \in 0 .. C
    BY <1>0
  <1>b. \E f : Upto(f, C)
    <2> HIDE DEF Upto
    <2> QED
      BY <1>1, <1>a, Zenon
  <1>2. PICK f : Upto(f, C)
    BY <1>b
  <1>3. \E h : h = [s \in 0 .. C |-> body(h, s)]
    <2>1. ASSUME NEW s \in 0 .. C PROVE f[s] = body(f, s)
      <3>1. CASE s = 0
        BY <1>2, <3>1
      <3>2. CASE s # 0
        <4>1. s \in 1 .. C
          BY <1>0, <3>2
        <4> QED
          BY <1>2, <3>2, <4>1
      <3> QED
        BY <3>1, <3>2
    <2>2. f = [s \in 0 .. C |-> f[s]]
      BY <1>2
    <2>3. f = [s \in 0 .. C |-> body(f, s)]
      BY <2>1, <2>2
    <2> QED
      BY <2>3
  <1> DEFINE D == Doubled
  <1>4. D = [s \in 0 .. C |-> body(D, s)]
    BY <1>3, <1>d, Zenon
  <1> HIDE DEF D
  <1>5. ASSUME NEW s \in 0 .. C PROVE D[s] = body(D, s)
    BY <1>4
  <1> DEFINE bad == {s \in 0 .. C : D[s] \notin Nat}
  <1>6. ASSUME bad # {} PROVE FALSE
    <2>1. bad \in SUBSET Nat
      OBVIOUS
    <2>2. PICK n \in bad : \A x \in bad : n <= x
      BY <1>6, <2>1, Least
    <2>3. n # 0
      BY <1>0, <1>5, <2>2
    <2>4. n \in 0 .. C /\ n - 1 \in 0 .. C /\ n - 1 < n
      BY <1>0, <2>2, <2>3
    <2>5. D[n - 1] \in Nat
      BY <2>2, <2>4
    <2>6. D[n] = 2 * D[n - 1]
      BY <1>5, <2>3, <2>4
    <2> QED
      BY <2>2, <2>5, <2>6
  <1> QED
    BY <1>6 DEF C, D

\* So the worker sleeps for a number of units.
LEMMA SleepType == \A s \in 0 .. StreakCap : SleepDuration(s) \in Nat
  <1>1. MaxInterval \in Nat /\ Base \in Nat
    <2> PICK h : h = Stale \div 2
      OBVIOUS
    <2>1. h \in Nat
      BY ClusterAssumption
    <2> QED
      BY <2>1, ClusterAssumption DEF MaxInterval, Larger, Smaller
  <1> QED
    BY <1>1, DoubledType DEF SleepDuration, Larger, Smaller


(***************************************************************************)
(* The invariant: where the workers are, what they carry, and that every   *)
(* registry is sound.                                                      *)
(***************************************************************************)
Workers ==
    /\ up \subseteq Ranks
    /\ addr \in [Ranks -> Addrs]
    /\ current \in [Heads -> BOOLEAN]
    /\ pc \in [Ranks -> {"setup", "idle", "put", "reply", "lost"}]
    /\ wait \in [Ranks -> Nat]
    /\ streak \in [Ranks -> 0 .. StreakCap]

Carried == batch \in [Ranks -> Seq(Item)] /\ resp \in [Ranks -> Resp]

Registries ==
    /\ nodes \in [Heads -> [Addrs -> Slots]]
    /\ index \in [Heads -> [Ranks -> Addrs \union {NoAddr}]]
    /\ \A p \in Heads : Exact(nodes[p], index[p])

Budget == left \in [FaultKinds -> Nat] /\ lost \subseteq Ranks

RegInv == Workers /\ Carried /\ Registries /\ Budget

\* Rank 0 keeps a registry, and so does every rank's parent.
LEMMA HeadFacts ==
  /\ 0 \in Heads /\ Heads \subseteq Ranks
  /\ \A r \in Ranks : Parent(r) \in Heads
  BY ClusterAssumption DEF Heads, Parent

\* A registry of the state, as a value.
LEMMA RegSound ==
  ASSUME Registries, NEW p \in Heads
  PROVE  Sound(Reg(p))
  BY DEF Registries, Reg, Sound

\* One registry is replaced by a sound one.
LEMMA RegistryStep ==
  ASSUME Registries, NEW p \in Heads, NEW after, Sound(after),
         nodes' = [nodes EXCEPT ![p] = after.nodes],
         index' = [index EXCEPT ![p] = after.index]
  PROVE  Registries'
  <1> PICK ns, ix : ns = after.nodes /\ ix = after.index
    OBVIOUS
  <1>1. ns \in [Addrs -> Slots] /\ ix \in [Ranks -> Addrs \union {NoAddr}] /\ Exact(ns, ix)
    BY DEF Sound
  <1>2. nodes' = [nodes EXCEPT ![p] = ns] /\ index' = [index EXCEPT ![p] = ix]
    OBVIOUS
  <1>3. nodes' \in [Heads -> [Addrs -> Slots]] /\ index' \in [Heads -> [Ranks -> Addrs \union {NoAddr}]]
    BY <1>1, <1>2 DEF Registries
  <1>4. ASSUME NEW q \in Heads PROVE Exact(nodes'[q], index'[q])
    <2>1. CASE q = p
      <3>1. nodes'[q] = ns /\ index'[q] = ix
        BY <1>2, <2>1 DEF Registries
      <3> QED
        BY <1>1, <3>1
    <2>2. CASE q # p
      <3>1. nodes'[q] = nodes[q] /\ index'[q] = index[q]
        BY <1>2, <2>2 DEF Registries
      <3> QED
        BY <3>1 DEF Registries
    <2> QED
      BY <2>1, <2>2
  <1> QED
    BY <1>3, <1>4 DEF Registries

\* The worker's sleep.
LEMMA SleepStep ==
  ASSUME Workers, Carried, NEW r \in Ranks, NEW s \in 0 .. StreakCap, Sleep(r, s)
  PROVE  /\ pc' \in [Ranks -> {"setup", "idle", "put", "reply", "lost"}]
         /\ wait' \in [Ranks -> Nat] /\ streak' \in [Ranks -> 0 .. StreakCap]
         /\ Carried'
  <1> PICK d \in Nat : d = SleepDuration(s)
    BY SleepType
  <1>1. /\ pc' = [pc EXCEPT ![r] = "idle"] /\ wait' = [wait EXCEPT ![r] = d]
        /\ streak' = [streak EXCEPT ![r] = s]
    BY DEF Sleep
  <1>2. /\ batch' = [batch EXCEPT ![r] = <<>>] /\ resp' = [resp EXCEPT ![r] = NoResp]
    BY DEF Sleep
  <1>3. <<>> \in Seq(Item)
    OBVIOUS
  <1>4. Carried'
    BY <1>2, <1>3, NoRespType DEF Carried
  <1> QED
    BY <1>1, <1>4 DEF Workers

\* What a rank says of itself.
LEMMA SelfType ==
  ASSUME Workers, NEW r \in Ranks
  PROVE  Self(r) \in Item
  BY DEF Workers, Self, Item

\* What it reports.
LEMMA UpstreamType ==
  ASSUME Workers, Registries, NEW r \in Ranks, NEW items \in Upstream(r)
  PROVE  items \in Seq(Item)
  <1> PICK self \in Item : self = Self(r)
    BY SelfType
  <1>1. <<self>> \in Seq(Item)
    OBVIOUS
  <1>2. CASE r \in Heads
    <2>1. PICK s \in LeafItems(r) : items = <<self>> \o s
      BY <1>2 DEF Upstream
    <2> DEFINE A == {b \in Addrs : nodes[r][b].rank \in Group(r) \ {r}}
               leaves == {ItemOf(nodes[r], a) : a \in A}
    <2>2. s \in [1 .. Cardinality(leaves) -> leaves]
      BY <2>1 DEF LeafItems
    <2>3. \A a \in A : ItemOf(nodes[r], a) \in Item
      BY <1>2, ItemOfType DEF Registries, Group
    <2>4. leaves \subseteq Item /\ IsFiniteSet(leaves)
      BY <2>3, ItemsOfFinite
    <2> HIDE DEF leaves
    <2>5. s \in Seq(Item)
      <3>1. PICK n \in Nat : n = Cardinality(leaves)
        BY <2>4, FS_CardinalityType
      <3> QED
        BY <2>2, <2>4, <3>1, ItemSeq
    <2> QED
      BY <1>1, <2>1, <2>5, ConcatProperties
  <1>3. CASE r \notin Heads
    BY <1>1, <1>3 DEF Upstream
  <1> QED
    BY <1>2, <1>3

\* put_node at the parent, on time or late.
LEMMA ApplyStep ==
  ASSUME RegInv, NEW r \in Ranks, NEW seen \in BOOLEAN, Apply(r, seen)
  PROVE  /\ Registries'
         /\ current' \in [Heads -> BOOLEAN]
         /\ resp' \in [Ranks -> Resp]
  <1> PICK p \in Heads : p = Parent(r)
    BY HeadFacts
  <1> PICK items \in Seq(Item) : items = batch[r]
    BY DEF RegInv, Carried
  <1> PICK reg : reg = Reg(p)
    OBVIOUS
  <1>1. Sound(reg)
    BY RegSound DEF RegInv
  <1> PICK after : after = AfterReport(reg, items)
    OBVIOUS
  <1>2. Sound(after)
    BY <1>1, ReportSound
  <1> PICK told : told = Answer(reg, items, seen)
    OBVIOUS
  <1>3. told \in Resp
    BY <1>1, AnswerType
  <1>4. /\ nodes' = [nodes EXCEPT ![p] = after.nodes]
        /\ index' = [index EXCEPT ![p] = after.index]
    BY DEF Apply
  <1>5. Registries'
    BY <1>2, <1>4, RegistryStep DEF RegInv
  <1> DEFINE answers == [resp EXCEPT ![r] = told]
  <1>6. answers \in [Ranks -> Resp]
    BY <1>3 DEF RegInv, Carried
  <1>7. IF p = 0
        THEN /\ current' = [q \in Heads |-> FALSE]
             /\ resp' = [q \in Ranks |-> IF q = r THEN answers[q]
                                         ELSE [resp[q] EXCEPT !.fresh = FALSE]]
        ELSE resp' = answers /\ UNCHANGED current
    BY Zenon DEF Apply
  <1>8. \A q \in Ranks : [resp[q] EXCEPT !.fresh = FALSE] \in Resp
    <2> SUFFICES ASSUME NEW q \in Ranks PROVE [resp[q] EXCEPT !.fresh = FALSE] \in Resp
      OBVIOUS
    <2> PICK x \in Resp : x = resp[q]
      BY DEF RegInv, Carried
    <2>1. [x EXCEPT !.fresh = FALSE] \in Resp
      BY DEF Resp
    <2> QED
      BY <2>1
  <1>9. resp' \in [Ranks -> Resp]
    <2> HIDE DEF answers
    <2>1. CASE p = 0
      BY <1>6, <1>7, <1>8, <2>1
    <2> QED
      BY <1>6, <1>7, <2>1
  <1>10. current' \in [Heads -> BOOLEAN]
    BY <1>7 DEF RegInv, Workers
  <1> QED
    BY <1>5, <1>9, <1>10

\* apply_global_snapshot: a local0 takes the answer into its own registry.
LEMMA SnapshotSound ==
  ASSUME NEW reg, Sound(reg), NEW answer \in Resp
  PROVE  Sound(Snapshot(reg, answer))
  <1> PICK items \in Seq(Item) : items = answer.nodes
    BY DEF Resp
  <1> PICK keys : keys = answer.removed
    OBVIOUS
  <1>1. Sound(PutAll(reg, items))
    BY PutAllSound
  <1> PICK put : put = PutAll(reg, items)
    OBVIOUS
  <1>2. Sound(RemoveByAddrs(put, keys))
    BY <1>1, RemoveSound
  <1> QED
    BY <1>2 DEF Snapshot

\* Time goes by: entries age, and keep their ranks.
LEMMA TickStep ==
  ASSUME RegInv, Tick
  PROVE  RegInv'
  <1> DEFINE aged(p, a) == IF p \in up /\ Present(nodes[p], a)
                           THEN [nodes[p][a] EXCEPT !.age = Smaller(@ + 1, AgeCap)]
                           ELSE nodes[p][a]
  <1>1. ASSUME NEW p \in Heads, NEW a \in Addrs
        PROVE aged(p, a) \in Slots /\ aged(p, a).rank = nodes[p][a].rank
    <2> PICK e \in Slots : e = nodes[p][a]
      BY DEF RegInv, Registries
    <2>1. CASE p \in up /\ e # NoEntry
      <3>1. e \in Entry
        BY <2>1, SlotFacts
      <3>2. e.age \in 0 .. AgeCap /\ AgeCap \in Nat
        BY <3>1, ClusterAssumption DEF Entry, AgeCap
      <3>3. Smaller(e.age + 1, AgeCap) \in 0 .. AgeCap
        <4> PICK x \in Nat, y \in Nat : x = e.age /\ y = AgeCap
          BY <3>2
        <4>1. x <= y
          BY <3>2
        <4>2. Smaller(x + 1, y) \in 0 .. y
          BY <4>1 DEF Smaller
        <4> QED
          BY <4>2
      <3> PICK z \in 0 .. AgeCap : z = Smaller(e.age + 1, AgeCap)
        BY <3>3
      <3>4. aged(p, a) = [e EXCEPT !.age = z]
        BY <2>1 DEF Present
      <3>5. [e EXCEPT !.age = z] \in Entry /\ [e EXCEPT !.age = z].rank = e.rank
        BY <3>1 DEF Entry
      <3> QED
        BY <3>4, <3>5 DEF Slots
    <2>2. CASE ~ (p \in up /\ e # NoEntry)
      <3>1. aged(p, a) = nodes[p][a]
        BY <2>2 DEF Present
      <3> QED
        BY <3>1
    <2> QED
      BY <2>1, <2>2
  <1>2. nodes' = [p \in Heads |-> [a \in Addrs |-> aged(p, a)]]
    BY DEF Tick
  <1>3. UNCHANGED <<up, addr, index, current, pc, streak, batch, resp, left, lost>>
    BY DEF Tick
  <1>4. Workers'
    <2>1. wait' \in [Ranks -> Nat]
      <3>1. \A r \in up : wait[r] - 1 \in Nat
        BY DEF Tick, RegInv, Workers
      <3>2. wait' = [r \in Ranks |-> IF r \in up THEN wait[r] - 1 ELSE wait[r]]
        BY DEF Tick
      <3> QED
        BY <3>1, <3>2 DEF RegInv, Workers
    <2> QED
      BY <1>3, <2>1 DEF RegInv, Workers
  <1>5. Carried' /\ Budget'
    BY <1>3 DEF RegInv, Carried, Budget
  <1> HIDE DEF aged
  <1>6. nodes' \in [Heads -> [Addrs -> Slots]]
    BY <1>1, <1>2
  <1>7. \A p \in Heads, a \in Addrs : nodes'[p][a].rank = nodes[p][a].rank
    BY <1>1, <1>2
  <1>8. ASSUME NEW p \in Heads PROVE Exact(nodes'[p], index'[p])
    <2> PICK ns, ms, ix : ns = nodes[p] /\ ms = nodes'[p] /\ ix = index[p]
      OBVIOUS
    <2>1. Exact(ns, ix) /\ ix \in [Ranks -> Addrs \union {NoAddr}]
      BY DEF RegInv, Registries
    <2>2. \A a \in Addrs : ms[a].rank = ns[a].rank
      BY <1>7
    <2>3. Exact(ms, ix)
      BY <2>1, <2>2 DEF Exact
    <2> QED
      BY <1>3, <2>3
  <1>9. Registries'
    BY <1>3, <1>6, <1>8 DEF RegInv, Registries
  <1> QED
    BY <1>4, <1>5, <1>9 DEF RegInv

(***************************************************************************)
(* The invariant holds at first, and every step keeps it.                  *)
(***************************************************************************)
LEMMA InitReg ==
  ASSUME Init
  PROVE  RegInv
  <1>1. Heads \subseteq Ranks
    BY HeadFacts
  <1>2. Workers
    <2>1. wait \in [Ranks -> Nat]
      BY ClusterAssumption DEF Init
    <2>2. streak \in [Ranks -> 0 .. StreakCap]
      BY ClusterAssumption DEF Init
    <2>3. addr \in [Ranks -> Addrs]
      BY ClusterAssumption DEF Init
    <2>4. /\ up \subseteq Ranks /\ current \in [Heads -> BOOLEAN]
          /\ pc \in [Ranks -> {"setup", "idle", "put", "reply", "lost"}]
      BY DEF Init
    <2> QED
      BY <2>1, <2>2, <2>3, <2>4 DEF Workers
  <1>3. Carried
    <2>1. <<>> \in Seq(Item)
      OBVIOUS
    <2> QED
      BY <2>1, NoRespType DEF Init, Carried
  <1>4. Registries
    <2>1. nodes \in [Heads -> [Addrs -> Slots]]
      BY NoEntryFacts DEF Init
    <2>2. index \in [Heads -> [Ranks -> Addrs \union {NoAddr}]]
      BY DEF Init
    <2>3. ASSUME NEW p \in Heads PROVE Exact(nodes[p], index[p])
      <3>1. nodes[p] = [a \in Addrs |-> NoEntry] /\ index[p] = [r \in Ranks |-> NoAddr]
        BY DEF Init
      <3> QED
        BY <3>1, NoEntryFacts DEF Exact
    <2> QED
      BY <2>1, <2>2, <2>3 DEF Registries
  <1>5. Budget
    BY ClusterAssumption DEF Init, Budget
  <1> QED
    BY <1>2, <1>3, <1>4, <1>5 DEF RegInv

\* A fault is taken from the budget.
LEMMA SpendStep ==
  ASSUME Budget, NEW kind \in FaultKinds, Spend(kind)
  PROVE  left' \in [FaultKinds -> Nat]
  <1>1. left[kind] \in Nat /\ left[kind] > 0
    BY DEF Budget, Spend
  <1>2. left[kind] - 1 \in Nat
    BY <1>1
  <1> QED
    BY <1>2 DEF Budget, Spend

LEMMA SetupStep ==
  ASSUME RegInv, NEW r \in Ranks, Setup(r)
  PROVE  RegInv'
  <1>1. Workers'
    BY DEF RegInv, Setup, Workers
  <1>2. Carried' /\ Budget' /\ Registries'
    BY DEF RegInv, Setup, Carried, Budget, Registries
  <1> QED
    BY <1>1, <1>2 DEF RegInv

LEMMA SkipStep ==
  ASSUME RegInv, NEW r \in Ranks, Skip(r)
  PROVE  RegInv'
  <1> PICK s \in 0 .. StreakCap : s = streak[r]
    BY DEF RegInv, Workers
  <1>1. Sleep(r, s) /\ UNCHANGED <<up, addr, nodes, index, current, left, lost>>
    BY DEF Skip
  <1>2. /\ pc' \in [Ranks -> {"setup", "idle", "put", "reply", "lost"}]
        /\ wait' \in [Ranks -> Nat] /\ streak' \in [Ranks -> 0 .. StreakCap]
        /\ Carried'
    BY <1>1, SleepStep DEF RegInv
  <1>3. Workers' /\ Budget' /\ Registries'
    BY <1>1, <1>2 DEF RegInv, Workers, Budget, Registries
  <1> QED
    BY <1>2, <1>3 DEF RegInv

LEMMA CollectStep ==
  ASSUME RegInv, NEW r \in Ranks, Collect(r)
  PROVE  RegInv'
  <1>1. /\ pc' = [pc EXCEPT ![r] = "put"]
        /\ UNCHANGED <<up, addr, nodes, index, current, wait, streak, resp, lost>>
    BY DEF Collect
  <1>2. PICK items \in Seq(Item) : batch' = [batch EXCEPT ![r] = items]
    <2>1. CASE \E items \in Upstream(r) : batch' = [batch EXCEPT ![r] = items]
      BY <2>1, UpstreamType DEF RegInv
    <2>2. CASE batch' = [batch EXCEPT ![r] = <<Self(r)>>]
      <3> PICK self \in Item : self = Self(r)
        BY SelfType DEF RegInv
      <3>1. <<self>> \in Seq(Item)
        OBVIOUS
      <3> QED
        BY <2>2, <3>1
    <2> QED
      BY <2>1, <2>2 DEF Collect
  <1>3. left' \in [FaultKinds -> Nat]
    <2>1. CASE UNCHANGED left
      BY <2>1 DEF RegInv, Budget
    <2>2. CASE Spend("refuse")
      BY <2>2, SpendStep DEF RegInv, FaultKinds
    <2> QED
      BY <2>1, <2>2 DEF Collect
  <1>4. Workers'
    BY <1>1 DEF RegInv, Workers
  <1>5. Carried'
    BY <1>1, <1>2 DEF RegInv, Carried
  <1>6. Budget' /\ Registries'
    BY <1>1, <1>3 DEF RegInv, Budget, Registries
  <1> QED
    BY <1>4, <1>5, <1>6 DEF RegInv

\* What a late or a timely report may be told the reporter has seen.
LEMMA SeenType ==
  ASSUME Workers, NEW r \in Ranks, NEW seen \in (IF r \in Heads THEN {current[r]} ELSE BOOLEAN)
  PROVE  seen \in BOOLEAN
  BY DEF Workers

LEMMA PutNodeStep ==
  ASSUME RegInv, NEW r \in Ranks, PutNode(r)
  PROVE  RegInv'
  <1>1. PICK seen \in BOOLEAN : Apply(r, seen)
    BY SeenType DEF PutNode, RegInv
  <1>2. /\ pc' = [pc EXCEPT ![r] = "reply"]
        /\ UNCHANGED <<up, addr, wait, streak, batch, left, lost>>
    BY DEF PutNode
  <1>3. Registries' /\ current' \in [Heads -> BOOLEAN] /\ resp' \in [Ranks -> Resp]
    BY <1>1, ApplyStep
  <1>4. Workers'
    BY <1>2, <1>3 DEF RegInv, Workers
  <1>5. Carried' /\ Budget'
    BY <1>2, <1>3 DEF RegInv, Carried, Budget
  <1> QED
    BY <1>3, <1>4, <1>5 DEF RegInv

LEMMA LatePutStep ==
  ASSUME RegInv, NEW r \in Ranks, LatePut(r)
  PROVE  RegInv'
  <1>1. PICK seen \in BOOLEAN : Apply(r, seen)
    BY SeenType DEF LatePut, RegInv
  <1>2. /\ batch' = [batch EXCEPT ![r] = <<>>]
        /\ UNCHANGED <<up, addr, pc, wait, streak, left, lost>>
    BY DEF LatePut
  <1>3. Registries' /\ current' \in [Heads -> BOOLEAN] /\ resp' \in [Ranks -> Resp]
    BY <1>1, ApplyStep
  <1>4. Workers'
    BY <1>2, <1>3 DEF RegInv, Workers
  <1>5. Carried' /\ Budget'
    <2>1. <<>> \in Seq(Item)
      OBVIOUS
    <2> QED
      BY <1>2, <1>3, <2>1 DEF RegInv, Carried, Budget
  <1> QED
    BY <1>3, <1>4, <1>5 DEF RegInv

LEMMA RefusedStep ==
  ASSUME RegInv, NEW r \in Ranks, Refused(r)
  PROVE  RegInv'
  <1>1. Sleep(r, 0) /\ UNCHANGED <<up, addr, nodes, index, current, lost>>
    BY DEF Refused
  <1>2. 0 \in 0 .. StreakCap
    BY ClusterAssumption
  <1>3. /\ pc' \in [Ranks -> {"setup", "idle", "put", "reply", "lost"}]
        /\ wait' \in [Ranks -> Nat] /\ streak' \in [Ranks -> 0 .. StreakCap]
        /\ Carried'
    BY <1>1, <1>2, SleepStep DEF RegInv
  <1>4. left' \in [FaultKinds -> Nat]
    <2>1. CASE UNCHANGED left
      BY <2>1 DEF RegInv, Budget
    <2>2. CASE Spend("refuse")
      BY <2>2, SpendStep DEF RegInv, FaultKinds
    <2> QED
      BY <2>1, <2>2 DEF Refused
  <1>5. Workers' /\ Budget' /\ Registries'
    BY <1>1, <1>3, <1>4 DEF RegInv, Workers, Budget, Registries
  <1> QED
    BY <1>3, <1>5 DEF RegInv

LEMMA LoseStep ==
  ASSUME RegInv, NEW r \in Ranks, Lose(r)
  PROVE  RegInv'
  <1>1. /\ pc' = [pc EXCEPT ![r] = "lost"] /\ wait' = [wait EXCEPT ![r] = Timeout]
        /\ lost' = lost \union {r}
        /\ UNCHANGED <<up, addr, nodes, index, current, streak, batch, resp>>
    BY DEF Lose
  <1>2. left' \in [FaultKinds -> Nat]
    BY SpendStep DEF RegInv, FaultKinds, Lose
  <1>3. Workers'
    BY <1>1, ClusterAssumption DEF RegInv, Workers
  <1>4. Carried' /\ Budget' /\ Registries'
    BY <1>1, <1>2 DEF RegInv, Carried, Budget, Registries
  <1> QED
    BY <1>3, <1>4 DEF RegInv

LEMMA GiveUpStep ==
  ASSUME RegInv, NEW r \in Ranks, GiveUp(r)
  PROVE  RegInv'
  <1>1. Sleep(r, 0) /\ UNCHANGED <<up, addr, nodes, index, current, left, lost>>
    BY DEF GiveUp
  <1>2. 0 \in 0 .. StreakCap
    BY ClusterAssumption
  <1>3. /\ pc' \in [Ranks -> {"setup", "idle", "put", "reply", "lost"}]
        /\ wait' \in [Ranks -> Nat] /\ streak' \in [Ranks -> 0 .. StreakCap]
        /\ Carried'
    BY <1>1, <1>2, SleepStep DEF RegInv
  <1>4. Workers' /\ Budget' /\ Registries'
    BY <1>1, <1>3 DEF RegInv, Workers, Budget, Registries
  <1> QED
    BY <1>3, <1>4 DEF RegInv

LEMMA ReplyStep ==
  ASSUME RegInv, NEW r \in Ranks, Reply(r)
  PROVE  RegInv'
  <1> PICK answer \in Resp : answer = resp[r]
    BY DEF RegInv, Carried
  <1>1. PICK s \in 0 .. StreakCap : Sleep(r, s)
    <2> PICK m \in 0 .. StreakCap : m = streak[r]
      BY DEF RegInv, Workers
    <2> PICK s : s = IF Stable(r, resp[r]) THEN Smaller(streak[r] + 1, StreakCap) ELSE 0
      OBVIOUS
    <2>1. Smaller(m + 1, StreakCap) \in 0 .. StreakCap
      BY ClusterAssumption DEF Smaller
    <2>2. s \in 0 .. StreakCap
      BY <2>1, ClusterAssumption
    <2>3. Sleep(r, s)
      BY Zenon DEF Reply
    <2> QED
      BY <2>2, <2>3
  <1>2. /\ pc' \in [Ranks -> {"setup", "idle", "put", "reply", "lost"}]
        /\ wait' \in [Ranks -> Nat] /\ streak' \in [Ranks -> 0 .. StreakCap]
        /\ Carried'
    BY <1>1, SleepStep DEF RegInv
  <1>3. UNCHANGED <<up, addr, left, lost>>
    BY DEF Reply
  <1>4. current' \in [Heads -> BOOLEAN]
    <2>1. answer.fresh \in BOOLEAN
      BY DEF Resp
    <2> PICK fresh \in BOOLEAN : fresh = answer.fresh
      BY <2>1
    <2>2. current' = IF r \in Heads THEN [current EXCEPT ![r] = fresh] ELSE current
      BY DEF Reply
    <2> QED
      BY <2>2 DEF RegInv, Workers
  <1>5. Registries'
    <2>1. CASE r \in Heads \ {0}
      <3> PICK reg : reg = Reg(r)
        OBVIOUS
      <3>1. Sound(reg)
        BY <2>1, RegSound DEF RegInv
      <3> PICK after : after = Snapshot(reg, answer)
        OBVIOUS
      <3>2. Sound(after)
        BY <3>1, SnapshotSound
      <3>3. /\ nodes' = [nodes EXCEPT ![r] = after.nodes]
            /\ index' = [index EXCEPT ![r] = after.index]
        BY <2>1 DEF Reply
      <3>4. r \in Heads
        BY <2>1
      <3> QED
        BY <3>2, <3>3, <3>4, RegistryStep DEF RegInv
    <2>2. CASE r \notin Heads \ {0}
      BY <2>2 DEF Reply, RegInv, Registries
    <2> QED
      BY <2>1, <2>2
  <1>6. Workers' /\ Budget'
    BY <1>2, <1>3, <1>4 DEF RegInv, Workers, Budget
  <1> QED
    BY <1>2, <1>5, <1>6 DEF RegInv

LEMMA CrashStep ==
  ASSUME RegInv, NEW r \in Ranks, Crash(r)
  PROVE  RegInv'
  <1>1. /\ up' = up \ {r} /\ pc' = [pc EXCEPT ![r] = IF @ = "setup" THEN @ ELSE "idle"]
        /\ wait' = [wait EXCEPT ![r] = Base] /\ streak' = [streak EXCEPT ![r] = 0]
        /\ UNCHANGED <<addr, nodes, index, current, lost>>
    BY DEF Crash
  <1>2. batch' = [batch EXCEPT ![r] = <<>>] /\ resp' = [resp EXCEPT ![r] = NoResp]
    BY DEF Crash
  <1>3. <<>> \in Seq(Item)
    OBVIOUS
  <1>4. Carried'
    BY <1>2, <1>3, NoRespType DEF RegInv, Carried
  <1>5. left' \in [FaultKinds -> Nat]
    BY SpendStep DEF RegInv, FaultKinds, Crash
  <1>6. Workers'
    <2>1. pc' \in [Ranks -> {"setup", "idle", "put", "reply", "lost"}]
      BY <1>1 DEF RegInv, Workers
    <2>2. wait' \in [Ranks -> Nat] /\ streak' \in [Ranks -> 0 .. StreakCap]
      BY <1>1, ClusterAssumption DEF RegInv, Workers
    <2> QED
      BY <1>1, <2>1, <2>2 DEF RegInv, Workers
  <1>7. Budget' /\ Registries'
    BY <1>1, <1>5 DEF RegInv, Budget, Registries
  <1> QED
    BY <1>4, <1>6, <1>7 DEF RegInv

LEMMA RebindStep ==
  ASSUME RegInv, NEW r \in Ranks, Rebind(r)
  PROVE  RegInv'
  <1>1. /\ \E a \in Addrs : addr' = [addr EXCEPT ![r] = a]
        /\ UNCHANGED <<up, nodes, index, current, pc, wait, streak, batch, resp, lost>>
    BY DEF Rebind
  <1>2. left' \in [FaultKinds -> Nat]
    BY SpendStep DEF RegInv, FaultKinds, Rebind
  <1>3. Workers'
    BY <1>1 DEF RegInv, Workers
  <1>4. Carried' /\ Budget' /\ Registries'
    BY <1>1, <1>2 DEF RegInv, Carried, Budget, Registries
  <1> QED
    BY <1>3, <1>4 DEF RegInv

LEMMA NextReg ==
  ASSUME RegInv, [Next]_vars
  PROVE  RegInv'
  <1>1. CASE Tick
    BY <1>1, TickStep
  <1>2. ASSUME NEW r \in Ranks, Work(r) PROVE RegInv'
    BY <1>2, SetupStep, SkipStep, CollectStep, PutNodeStep, RefusedStep, GiveUpStep, ReplyStep DEF Work
  <1>3. ASSUME NEW r \in Ranks, Fault(r) PROVE RegInv'
    BY <1>3, LoseStep, LatePutStep, CrashStep, RebindStep DEF Fault
  <1>4. CASE UNCHANGED vars
    <2>1. Workers' /\ Budget'
      BY <1>4 DEF RegInv, vars, Workers, Budget
    <2>2. Carried' /\ Registries'
      BY <1>4 DEF RegInv, vars, Carried, Registries
    <2> QED
      BY <2>1, <2>2 DEF RegInv
  <1> QED
    BY <1>1, <1>2, <1>3, <1>4 DEF Next

LEMMA RegInvSound ==
  ASSUME RegInv
  PROVE  RegistrySound
  <1>1. TypeOK
    <2>1. \A r \in Ranks : batch[r] \in Seq(Item) /\ resp[r].nodes \in Seq(Item)
      BY DEF RegInv, Carried, Resp
    <2>2. nodes \in [Heads -> [Addrs -> Entry \union {NoEntry}]]
      BY DEF RegInv, Registries, Slots
    <2> QED
      BY <2>1, <2>2 DEF TypeOK, RegInv, Workers, Registries, Budget
  <1>2. IndexExact
    <2> SUFFICES ASSUME NEW p \in Heads
                 PROVE /\ \A a \in Addrs : Present(nodes[p], a) => index[p][nodes[p][a].rank] = a
                       /\ \A r \in Ranks : index[p][r] # NoAddr => nodes[p][index[p][r]].rank = r
      BY DEF IndexExact
    <2>1. nodes[p] \in [Addrs -> Slots] /\ Exact(nodes[p], index[p])
      BY DEF RegInv, Registries
    <2>2. ASSUME NEW a \in Addrs, Present(nodes[p], a) PROVE nodes[p][a].rank \in Ranks
      <3> PICK e \in Slots : e = nodes[p][a]
        BY <2>1
      <3> QED
        BY <2>2, SlotFacts DEF Present
    <2> QED
      BY <2>1, <2>2 DEF Exact
  <1> QED
    BY <1>1, <1>2 DEF RegistrySound

\* Cluster::put, remove_by_addr and sweep_stale_nodes, as reports, answers,
\* crashes and new addresses make them happen in any order: in the registry of
\* every local0 and of rank 0, a rank has at most one entry, the one its index
\* names, and no index names an entry that is gone or another rank's.
THEOREM RegistriesAreSound == Spec => []RegistrySound
  <1>1. Init => RegInv
    BY InitReg
  <1>2. RegInv /\ [Next]_vars => RegInv'
    BY NextReg
  <1>3. RegInv => RegistrySound
    BY RegInvSound
  <1> QED
    BY <1>1, <1>2, <1>3, PTL DEF Spec
=============================================================================
