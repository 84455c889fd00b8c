-------------------------- MODULE MemhProbe_proofs --------------------------
(***************************************************************************)
(* Proofs about open addressing in the MEMH table, for every number of     *)
(* buckets, every set of keys and values, every hash and every arena.      *)
(***************************************************************************)
EXTENDS MemhProbe, FiniteSetTheorems, WellFoundedInduction, TLAPS

----------------------------------------------------------------------------
(***************************************************************************)
(* Numbers.                                                                *)
(***************************************************************************)
\* A set of naturals that is not empty has a least element: of the sets of its
\* elements up to one of them, some is minimal.
LEMMA Least ==
  ASSUME NEW S \in SUBSET Nat, S # {}
  PROVE \E m \in S : \A x \in S : m <= x
  <1> DEFINE Upto(x) == {y \in S : y <= x}
             T == {Upto(x) : x \in S}
             R == StrictSubsetOrdering(S)
  <1>1. \A x \in S : Upto(x) \in FiniteSubsetsOf(S)
    <2> SUFFICES ASSUME NEW x \in S PROVE Upto(x) \in FiniteSubsetsOf(S)
      OBVIOUS
    <2>1. Upto(x) \in SUBSET Nat /\ x \in Nat /\ \A y \in Upto(x) : y <= x
      OBVIOUS
    <2>2. IsFiniteSet(Upto(x))
      BY <2>1, FS_BoundedSetOfNaturals
    <2> QED
      BY <2>2 DEF FiniteSubsetsOf
  <1>2. T \subseteq FiniteSubsetsOf(S) /\ T # {}
    BY <1>1
  <1>3. IsWellFoundedOn(R, FiniteSubsetsOf(S))
    BY FS_StrictSubsetOrderingWellFounded
  <1> HIDE DEF R, T
  <1>4. \E A \in T : \A B \in T : ~ (<<B, A>> \in R)
    BY <1>2, <1>3, WFMin
  <1> USE DEF R, T
  <1>5. PICK m \in S : \A x \in S : ~ (<<Upto(x), Upto(m)>> \in R)
    BY <1>4
  <1>6. ASSUME NEW x \in S, ~(m <= x) PROVE FALSE
    <2>0. x \in Nat /\ m \in Nat /\ x < m /\ \A y \in S : y \in Nat
      BY <1>6
    <2>a. Upto(x) \subseteq Upto(m)
      <3> SUFFICES ASSUME NEW y \in S, y <= x PROVE y <= m
        OBVIOUS
      <3> y \in Nat
        OBVIOUS
      <3> QED
        BY <2>0
    <2>b. m \in Upto(m) /\ m \notin Upto(x)
      BY <2>0
    <2>1. Upto(x) \subseteq Upto(m) /\ m \in Upto(m) /\ m \notin Upto(x) /\ Upto(m) \subseteq S
      BY <2>a, <2>b
    <2>2. <<Upto(x), Upto(m)>> \in R
      BY <2>1 DEF StrictSubsetOrdering
    <2> QED
      BY <1>5, <2>2
  <1> QED
    BY <1>6

LEMMA MinFact ==
  ASSUME NEW S \in SUBSET Nat, S # {}
  PROVE Min(S) \in S /\ \A x \in S : Min(S) <= x
  <1>1. \E m \in S : \A x \in S : m <= x
    BY Least
  <1> QED
    BY <1>1, Zenon DEF Min

\* The probe path of a key is a permutation of the buckets.
LEMMA ProbeFacts ==
  ASSUME NEW k \in Keys
  PROVE /\ \A i \in Buckets : Probe(k, i) \in Buckets
        /\ \A i, j \in Buckets : Probe(k, i) = Probe(k, j) => i = j
        /\ \A b \in Buckets : \E i \in Buckets : Probe(k, i) = b
  <1> DEFINE N == NumBuckets
             h == Home[k]
  <1>1. N \in Nat /\ N > 0 /\ h \in 0 .. N - 1
    BY ProbeAssumption
  <1>2. \A i \in Buckets : Probe(k, i) = IF h + i < N THEN h + i ELSE h + i - N
    <2> SUFFICES ASSUME NEW i \in 0 .. N - 1
                 PROVE (h + i) % N = IF h + i < N THEN h + i ELSE h + i - N
      BY DEF Probe, Buckets
    <2> HIDE DEF h, N
    <2>1. CASE h + i < N
      BY <1>1, <2>1
    <2>2. CASE h + i >= N
      BY <1>1, <2>2
    <2> QED
      BY <1>1, <2>1, <2>2
  <1> HIDE DEF h
  <1>3. \A i \in Buckets : Probe(k, i) \in Buckets
    BY <1>1, <1>2 DEF Buckets
  <1>4. \A i, j \in Buckets : Probe(k, i) = Probe(k, j) => i = j
    BY <1>1, <1>2 DEF Buckets
  <1>5. ASSUME NEW b \in Buckets PROVE \E i \in Buckets : Probe(k, i) = b
    <2> DEFINE i == IF b >= h THEN b - h ELSE b - h + N
    <2>1. i \in Buckets
      BY <1>1 DEF Buckets
    <2>2. (IF h + i < N THEN h + i ELSE h + i - N) = b
      BY <1>1 DEF Buckets
    <2> QED
      BY <1>2, <2>1, <2>2
  <1> QED
    BY <1>3, <1>4, <1>5

----------------------------------------------------------------------------
(***************************************************************************)
(* A table, whoever looks at it.  No sentinel has to be distinct from the  *)
(* keys and the values: what is absent is known by its slot's tag.         *)
(***************************************************************************)
Tags == {"EMPTY", "OCCUPIED", "INLINE", "TOMBSTONE"}
Maybe == Values \cup {None}
Records == [flag : {"PUT", "TOMBSTONE", "PUT_INLINE"}, idx : Buckets, key : Keys, val : Maybe]
Slots == [tag : Tags, key : Keys \cup {None}, head : Records \cup {NoRecord}, val : Maybe]

\* What a slot of a tag holds at bucket b: a live one a record of its own and of
\* its kind, which is what iter asks of it.
SlotOk(s, b) ==
    /\ Live(s) => s.key \in Keys /\ s.head.key = s.key /\ s.head.idx = b
    /\ s.tag = "INLINE" => s.head.flag = "PUT_INLINE" /\ s.val \in Values
    /\ s.tag = "OCCUPIED" => s.head.flag = "PUT" /\ s.head.val \in Values
    /\ s.tag = "TOMBSTONE" => s.head = NoRecord \/ (s.head.idx = b /\ s.head.key = s.key)

Formed(tb) == tb \in [Buckets -> Slots] /\ \A b \in Buckets : SlotOk(tb[b], b)

Holds(tb, k, b) == Live(tb[b]) /\ tb[b].key = k

\* OneSlot, of any table.
Reached(tb) ==
    /\ \A k \in Keys, b, c \in Buckets : Holds(tb, k, b) /\ Holds(tb, k, c) => b = c
    /\ \A k \in Keys, b \in Buckets : Holds(tb, k, b) => \E i \in Path(tb, k) : Probe(k, i) = b

(***************************************************************************)
(* The inductive invariant.                                                *)
(***************************************************************************)
Ops == {"none", "get", "iter"}
Locals == [op : Ops, i : 0 .. NumBuckets, stable : SUBSET Keys, got : [Keys -> Nat]]
Lookups == [pc : {"idle", "pending", "done"}, key : Keys \cup {None}, seen : SUBSET Maybe,
            res : Maybe]

Typed ==
    /\ Formed(table)
    /\ bump \in Nat /\ bump <= ArenaCap
    /\ rd \in [Readers -> Locals]
    /\ lookup \in [Readers -> Lookups]

\* The slot the writer is about to commit is still the one its key belongs in.
Aimed ==
    /\ wr.pc \in {"idle", "put", "remove"}
    /\ wr.pc = "put" =>
         /\ wr.key \in Keys /\ wr.val \in Values /\ wr.idx \in Target(table, wr.key)
         /\ wr.head = Record(Flag(wr.val), wr.idx, wr.key, wr.val)
    /\ wr.pc = "remove" =>
         /\ wr.key \in Keys /\ wr.idx \in Buckets /\ Holds(table, wr.key, wr.idx)
         /\ wr.head \in {NoRecord, Record("TOMBSTONE", wr.idx, wr.key, None)}

\* A lookup under way has seen the value its key has, and either a moment at which
\* the key was absent or it has yet to come to the slot.
Chasing(tb, t, l) ==
    /\ t.op = "get" <=> l.pc = "pending"
    /\ t.op = "get" =>
         /\ l.key \in Keys /\ t.i \in Buckets
         /\ MapOf(tb)[l.key] \in l.seen
         /\ \/ None \in l.seen
            \/ \E j \in Path(tb, l.key) : t.i <= j /\ Holds(tb, l.key, Probe(l.key, j))

\* An iteration has counted the keys that stayed, up to where it is.
Counted(tb, t) ==
    t.op = "iter" =>
      \A k \in t.stable : \E b \in Buckets :
         Holds(tb, k, b) /\ t.got[k] = IF b < t.i THEN 1 ELSE 0

Reading == \A r \in Readers : Chasing(table, rd[r], lookup[r]) /\ Counted(table, rd[r])

Inv == Typed /\ Reached(table) /\ Aimed /\ Reading

----------------------------------------------------------------------------
(***************************************************************************)
(* Reading a table.                                                        *)
(***************************************************************************)
LEMMA BucketFacts ==
  /\ Buckets \subseteq Nat /\ NumBuckets \in Nat /\ NumBuckets > 0 /\ 0 \in Buckets
  /\ \A i \in Buckets : i < NumBuckets
  /\ \A i \in Nat : i < NumBuckets => i \in Buckets
  BY ProbeAssumption DEF Buckets

LEMMA PathFacts ==
  ASSUME NEW tb, NEW k \in Keys
  PROVE /\ Path(tb, k) \subseteq Buckets /\ Path(tb, k) \subseteq Nat
        /\ Hits(tb, k) \subseteq Path(tb, k) /\ Hits(tb, k) \subseteq Nat
        /\ \A tag : At(tb, k, tag) \subseteq Path(tb, k) /\ At(tb, k, tag) \subseteq Nat
        /\ \A i \in Path(tb, k), j \in Buckets :
              j < i => tb[Probe(k, j)].tag # "EMPTY"
  <1>1. Path(tb, k) \subseteq Buckets
    BY DEF Path
  <1>2. \A i \in Path(tb, k), j \in Buckets : j < i => tb[Probe(k, j)].tag # "EMPTY"
    <2> SUFFICES ASSUME NEW i \in Path(tb, k), NEW j \in Buckets, j < i
                 PROVE tb[Probe(k, j)].tag # "EMPTY"
      OBVIOUS
    <2>1. i \in Nat /\ j \in Nat
      BY <1>1, BucketFacts
    <2>2. j \in 0 .. i - 1
      BY <2>1
    <2> QED
      BY <2>2 DEF Path
  <1> QED
    BY <1>1, <1>2, BucketFacts DEF Hits, At

\* What Hits finds is the slot that holds the key, and there is one if any holds it.
LEMMA HitFacts ==
  ASSUME NEW tb, NEW k \in Keys
  PROVE /\ \A i \in Hits(tb, k) : Probe(k, i) \in Buckets /\ Holds(tb, k, Probe(k, i))
        /\ Hits(tb, k) # {} => Min(Hits(tb, k)) \in Hits(tb, k)
        /\ Reached(tb) =>
             \A b \in Buckets : Holds(tb, k, b) => \E i \in Hits(tb, k) : Probe(k, i) = b
  <1>1. \A i \in Hits(tb, k) : Probe(k, i) \in Buckets /\ Holds(tb, k, Probe(k, i))
    BY PathFacts, ProbeFacts DEF Hits, Holds
  <1>2. Hits(tb, k) # {} => Min(Hits(tb, k)) \in Hits(tb, k)
    BY PathFacts, MinFact
  <1>3. Reached(tb) => \A b \in Buckets : Holds(tb, k, b) => \E i \in Hits(tb, k) : Probe(k, i) = b
    BY DEF Reached, Hits, Holds
  <1> QED
    BY <1>1, <1>2, <1>3

LEMMA MapFacts ==
  ASSUME NEW tb, NEW k \in Keys, Reached(tb)
  PROVE /\ \A b \in Buckets : Holds(tb, k, b) => MapOf(tb)[k] = ValueOf(tb[b])
        /\ (\A b \in Buckets : ~ Holds(tb, k, b)) => MapOf(tb)[k] = None
  <1>1. ASSUME NEW b \in Buckets, Holds(tb, k, b)
        PROVE MapOf(tb)[k] = ValueOf(tb[b])
    <2> DEFINE i == Min(Hits(tb, k))
    <2>1. Hits(tb, k) # {} /\ i \in Hits(tb, k)
      BY <1>1, HitFacts
    <2>2. Probe(k, i) = b
      BY <1>1, <2>1, HitFacts DEF Reached
    <2> QED
      BY <2>1, <2>2 DEF MapOf
  <1>2. ASSUME \A b \in Buckets : ~ Holds(tb, k, b)
        PROVE MapOf(tb)[k] = None
    <2>1. Hits(tb, k) = {}
      BY <1>2, HitFacts
    <2> QED
      BY <2>1 DEF MapOf
  <1> QED
    BY <1>1, <1>2

\* Where insert writes: on the key's path, at the key's slot if it has one.
LEMMA TargetFacts ==
  ASSUME NEW tb, NEW k \in Keys, Reached(tb), NEW idx \in Target(tb, k)
  PROVE /\ idx \in Buckets
        /\ \E i \in Path(tb, k) : Probe(k, i) = idx
        /\ \A b \in Buckets : Holds(tb, k, b) => b = idx
        /\ ~ Holds(tb, k, idx) => tb[idx].tag \in {"TOMBSTONE", "EMPTY"}
  <1> DEFINE H == Hits(tb, k)
             T == At(tb, k, "TOMBSTONE")
             E == At(tb, k, "EMPTY")
  <1>1. PICK i \in IF H # {} THEN {Min(H)} ELSE IF T # {} THEN {Min(T)} ELSE E : idx = Probe(k, i)
    BY DEF Target
  <1>2. T # {} => Min(T) \in T
    BY PathFacts, MinFact
  <1>3. CASE H # {}
    <2>1. i \in H
      BY <1>1, <1>3, HitFacts
    <2> QED
      BY <2>1, <1>1, HitFacts, PathFacts, ProbeFacts DEF Reached
  <1>4. CASE H = {}
    <2>1. i \in T \/ i \in E
      BY <1>1, <1>2, <1>4
    <2>2. i \in Path(tb, k) /\ tb[idx].tag \in {"TOMBSTONE", "EMPTY"}
      BY <2>1, <1>1 DEF At
    <2> HIDE DEF H
    <2>3. \A b \in Buckets : ~ Holds(tb, k, b)
      BY <1>4, HitFacts DEF H
    <2> QED
      BY <2>2, <2>3, <1>1, PathFacts, ProbeFacts
  <1> QED
    BY <1>3, <1>4

----------------------------------------------------------------------------
(***************************************************************************)
(* Writing a slot that stays in use.  No path gets shorter.                *)
(***************************************************************************)
Writes(tb, idx, s, tb2) ==
    tb2 \in [Buckets -> Slots] /\ tb2[idx] = s /\ \A b \in Buckets \ {idx} : tb2[b] = tb[b]

LEMMA PathGrows ==
  ASSUME NEW tb, NEW idx \in Buckets, NEW s, s.tag # "EMPTY", NEW tb2, Writes(tb, idx, s, tb2),
         NEW k \in Keys
  PROVE Path(tb, k) \subseteq Path(tb2, k)
  <1>1. \A b \in Buckets : tb[b].tag # "EMPTY" => tb2[b].tag # "EMPTY"
    BY DEF Writes
  <1>2. ASSUME NEW i \in Path(tb, k) PROVE i \in Path(tb2, k)
    <2>1. i \in Buckets /\ \A j \in 0 .. i - 1 : tb[Probe(k, j)].tag # "EMPTY"
      BY DEF Path
    <2>2. \A j \in 0 .. i - 1 : j \in Buckets
      <3> i \in Nat /\ i < NumBuckets
        BY <2>1, BucketFacts
      <3> QED
        BY BucketFacts
    <2>3. \A j \in 0 .. i - 1 : tb2[Probe(k, j)].tag # "EMPTY"
      BY <2>1, <2>2, <1>1, ProbeFacts
    <2> QED
      BY <2>1, <2>3 DEF Path
  <1> QED
    BY <1>2

\* Which slot holds which key, after a slot was written.
LEMMA HoldsAfter ==
  ASSUME NEW tb, NEW idx \in Buckets, NEW s, NEW tb2, Writes(tb, idx, s, tb2)
  PROVE /\ \A k : \A b \in Buckets : b # idx => (Holds(tb2, k, b) <=> Holds(tb, k, b))
        /\ \A k : Holds(tb2, k, idx) <=> Live(s) /\ s.key = k
  BY DEF Holds, Writes

\* insert's commit: the key's slot is the one written, every other key keeps its own.
LEMMA PutFacts ==
  ASSUME NEW tb, Reached(tb), NEW k \in Keys, NEW idx \in Target(tb, k),
         NEW s, Live(s), s.key = k, NEW tb2, Writes(tb, idx, s, tb2)
  PROVE /\ Reached(tb2)
        /\ \A b \in Buckets : Holds(tb2, k, b) <=> b = idx
        /\ \A kk \in Keys \ {k}, b \in Buckets :
             /\ Holds(tb2, kk, b) <=> Holds(tb, kk, b)
             /\ Holds(tb, kk, b) => b # idx
        /\ MapOf(tb2) = [MapOf(tb) EXCEPT ![k] = ValueOf(s)]
  <1>1. /\ idx \in Buckets /\ \E i \in Path(tb, k) : Probe(k, i) = idx
        /\ \A b \in Buckets : Holds(tb, k, b) => b = idx
        /\ ~ Holds(tb, k, idx) => tb[idx].tag \in {"TOMBSTONE", "EMPTY"}
    BY TargetFacts
  <1>2. /\ \A kk : \A b \in Buckets : b # idx => (Holds(tb2, kk, b) <=> Holds(tb, kk, b))
        /\ \A kk : Holds(tb2, kk, idx) <=> kk = k
    BY <1>1, HoldsAfter
  <1>3. \A kk \in Keys : Path(tb, kk) \subseteq Path(tb2, kk)
    <2> s.tag # "EMPTY"
      BY DEF Live
    <2> QED
      BY <1>1, PathGrows
  <1>4. \A kk \in Keys \ {k} : ~ Holds(tb, kk, idx)
    BY <1>1 DEF Holds, Live
  <1>5. tb2[idx] = s /\ \A b \in Buckets : b # idx => tb2[b] = tb[b]
    BY DEF Writes
  <1>6. DOMAIN MapOf(tb) = Keys /\ DOMAIN MapOf(tb2) = Keys
    BY DEF MapOf
  <1>x. MapOf(tb2) = [kk \in Keys |-> MapOf(tb2)[kk]]
    BY DEF MapOf
  <1>y. MapOf(tb) = [kk \in Keys |-> MapOf(tb)[kk]]
    BY DEF MapOf
  <1>7. Reached(tb2)
    <2>1. \A kk \in Keys, b, c \in Buckets : Holds(tb2, kk, b) /\ Holds(tb2, kk, c) => b = c
      BY <1>1, <1>2, <1>4 DEF Reached
    <2>2. ASSUME NEW kk \in Keys, NEW b \in Buckets, Holds(tb2, kk, b)
          PROVE \E i \in Path(tb2, kk) : Probe(kk, i) = b
      <3>1. CASE b = idx
        BY <1>1, <1>2, <1>3, <2>2, <3>1
      <3>2. CASE b # idx
        BY <1>2, <1>3, <2>2, <3>2 DEF Reached
      <3> QED
        BY <3>1, <3>2
    <2> QED
      BY <2>1, <2>2 DEF Reached
  <1>8. \A b \in Buckets : Holds(tb2, k, b) <=> b = idx
    BY <1>1, <1>2
  <1>9. \A kk \in Keys \ {k}, b \in Buckets :
           /\ Holds(tb2, kk, b) <=> Holds(tb, kk, b)
           /\ Holds(tb, kk, b) => b # idx
    BY <1>2, <1>4
  <1>10. MapOf(tb2)[k] = ValueOf(s)
    BY <1>1, <1>5, <1>7, <1>8, MapFacts
  <1>11. ASSUME NEW kk \in Keys \ {k} PROVE MapOf(tb2)[kk] = MapOf(tb)[kk]
    <2>1. CASE \E b \in Buckets : Holds(tb, kk, b)
      <3>1. PICK b \in Buckets : Holds(tb, kk, b)
        BY <2>1
      <3>2. Holds(tb2, kk, b) /\ tb2[b] = tb[b]
        BY <1>5, <1>9, <3>1
      <3> QED
        BY <1>7, <3>1, <3>2, MapFacts
    <2>2. CASE ~ \E b \in Buckets : Holds(tb, kk, b)
      <3>1. \A b \in Buckets : ~ Holds(tb2, kk, b)
        BY <1>9, <2>2
      <3> QED
        BY <1>7, <2>2, <3>1, MapFacts
    <2> QED
      BY <2>1, <2>2
  <1>12. MapOf(tb2) = [MapOf(tb) EXCEPT ![k] = ValueOf(s)]
    <2> DEFINE f == MapOf(tb)
               g == MapOf(tb2)
    <2>1. /\ f = [kk \in Keys |-> f[kk]] /\ g = [kk \in Keys |-> g[kk]]
          /\ g[k] = ValueOf(s) /\ \A kk \in Keys \ {k} : g[kk] = f[kk]
      BY <1>x, <1>y, <1>10, <1>11
    <2> HIDE DEF f, g
    <2>2. g = [f EXCEPT ![k] = ValueOf(s)]
      BY <2>1
    <2> QED
      BY <2>2 DEF f, g
  <1> QED
    BY <1>7, <1>8, <1>9, <1>12

\* remove's commit: the key has no slot, every other key keeps its own.
LEMMA DropFacts ==
  ASSUME NEW tb, Reached(tb), NEW k \in Keys, NEW idx \in Buckets, Holds(tb, k, idx),
         NEW s, s.tag = "TOMBSTONE", NEW tb2, Writes(tb, idx, s, tb2)
  PROVE /\ Reached(tb2)
        /\ \A b \in Buckets : ~ Holds(tb2, k, b)
        /\ \A kk \in Keys \ {k}, b \in Buckets : Holds(tb2, kk, b) <=> Holds(tb, kk, b)
        /\ MapOf(tb2) = [MapOf(tb) EXCEPT ![k] = None]
  <1>2. /\ \A kk : \A b \in Buckets : b # idx => (Holds(tb2, kk, b) <=> Holds(tb, kk, b))
        /\ \A kk : ~ Holds(tb2, kk, idx)
    BY HoldsAfter DEF Live
  <1>3. \A kk \in Keys : Path(tb, kk) \subseteq Path(tb2, kk)
    BY PathGrows
  <1>4. \A kk \in Keys \ {k} : ~ Holds(tb, kk, idx)
    BY DEF Holds
  <1>5. \A b \in Buckets : b # idx => tb2[b] = tb[b]
    BY DEF Writes
  <1>x. MapOf(tb2) = [kk \in Keys |-> MapOf(tb2)[kk]]
    BY DEF MapOf
  <1>y. MapOf(tb) = [kk \in Keys |-> MapOf(tb)[kk]]
    BY DEF MapOf
  <1>7. Reached(tb2)
    <2>1. \A kk \in Keys, b, c \in Buckets : Holds(tb2, kk, b) /\ Holds(tb2, kk, c) => b = c
      BY <1>2 DEF Reached
    <2>2. \A kk \in Keys, b \in Buckets :
             Holds(tb2, kk, b) => \E i \in Path(tb2, kk) : Probe(kk, i) = b
      BY <1>2, <1>3 DEF Reached
    <2> QED
      BY <2>1, <2>2 DEF Reached
  <1>8. \A b \in Buckets : ~ Holds(tb2, k, b)
    BY <1>2 DEF Reached
  <1>9. \A kk \in Keys \ {k}, b \in Buckets : Holds(tb2, kk, b) <=> Holds(tb, kk, b)
    BY <1>2, <1>4
  <1>10. MapOf(tb2)[k] = None
    BY <1>7, <1>8, MapFacts
  <1>11. ASSUME NEW kk \in Keys \ {k} PROVE MapOf(tb2)[kk] = MapOf(tb)[kk]
    <2>1. CASE \E b \in Buckets : Holds(tb, kk, b)
      <3>1. PICK b \in Buckets : Holds(tb, kk, b)
        BY <2>1
      <3>2. Holds(tb2, kk, b) /\ tb2[b] = tb[b]
        BY <1>4, <1>5, <1>9, <3>1
      <3> QED
        BY <1>7, <3>1, <3>2, MapFacts
    <2>2. CASE ~ \E b \in Buckets : Holds(tb, kk, b)
      <3>1. \A b \in Buckets : ~ Holds(tb2, kk, b)
        BY <1>9, <2>2
      <3> QED
        BY <1>7, <2>2, <3>1, MapFacts
    <2> QED
      BY <2>1, <2>2
  <1>12. MapOf(tb2) = [MapOf(tb) EXCEPT ![k] = None]
    <2> DEFINE f == MapOf(tb)
               g == MapOf(tb2)
    <2>1. /\ f = [kk \in Keys |-> f[kk]] /\ g = [kk \in Keys |-> g[kk]]
          /\ g[k] = None /\ \A kk \in Keys \ {k} : g[kk] = f[kk]
      BY <1>x, <1>y, <1>10, <1>11
    <2> HIDE DEF f, g
    <2>2. g = [f EXCEPT ![k] = None]
      BY <2>1
    <2> QED
      BY <2>2 DEF f, g
  <1> QED
    BY <1>7, <1>8, <1>9, <1>12

----------------------------------------------------------------------------
(***************************************************************************)
(* The steps that write a slot.                                            *)
(***************************************************************************)
\* What a commit makes of the readers, and what KvMap sees of it: no path gets
\* shorter, and no key but k loses its slot, nor k unless it is gone.
LEMMA NoticeStep ==
  ASSUME Inv, NEW k \in Keys, NEW v \in Maybe, Notice(k), Formed(table)', Reached(table)',
         MapOf(table)' = [MapOf(table) EXCEPT ![k] = v],
         \A kk \in Keys : Path(table, kk) \subseteq Path(table, kk)',
         \A kk \in Keys, b \in Buckets :
            Holds(table, kk, b) => Holds(table, kk, b)' \/ (kk = k /\ v = None)
  PROVE /\ rd' \in [Readers -> Locals] /\ lookup' \in [Readers -> Lookups]
        /\ Reading' /\ Map!Set(k, v)
  <1>1. /\ MapOf(table)'[k] = v
        /\ \A kk \in Keys \ {k} : MapOf(table)'[kk] = MapOf(table)[kk]
    BY DEF MapOf
  <1>2. lookup' = [r \in Readers |->
                     IF lookup[r].pc = "pending" /\ lookup[r].key = k
                       THEN [lookup[r] EXCEPT !.seen = @ \cup {v}] ELSE lookup[r]]
    BY <1>1 DEF Notice
  <1>3. rd' = [r \in Readers |-> IF v = None THEN [rd[r] EXCEPT !.stable = @ \ {k}] ELSE rd[r]]
    BY <1>1 DEF Notice
  <1>4. rd' \in [Readers -> Locals]
    <2> SUFFICES ASSUME NEW r \in Readers
                 PROVE (IF v = None THEN [rd[r] EXCEPT !.stable = @ \ {k}] ELSE rd[r]) \in Locals
      BY <1>3
    <2> rd[r] \in Locals
      BY DEF Inv, Typed
    <2> QED
      BY DEF Locals
  <1>5. lookup' \in [Readers -> Lookups]
    <2> SUFFICES ASSUME NEW r \in Readers
                 PROVE (IF lookup[r].pc = "pending" /\ lookup[r].key = k
                          THEN [lookup[r] EXCEPT !.seen = @ \cup {v}] ELSE lookup[r]) \in Lookups
      BY <1>2
    <2> lookup[r] \in Lookups
      BY DEF Inv, Typed
    <2> QED
      BY DEF Lookups
  <1>6. ASSUME NEW r \in Readers
        PROVE /\ rd'[r].op = rd[r].op /\ rd'[r].i = rd[r].i /\ rd'[r].got = rd[r].got
              /\ rd'[r].stable \subseteq rd[r].stable /\ (v = None => k \notin rd'[r].stable)
              /\ lookup'[r].pc = lookup[r].pc /\ lookup'[r].key = lookup[r].key
              /\ lookup[r].seen \subseteq lookup'[r].seen
              /\ lookup[r].pc = "pending" /\ lookup[r].key = k => v \in lookup'[r].seen
    <2> rd[r] \in Locals /\ lookup[r] \in Lookups
      BY DEF Inv, Typed
    <2> QED
      BY <1>2, <1>3 DEF Locals, Lookups
  <1>7. ASSUME NEW r \in Readers PROVE Chasing(table, rd[r], lookup[r])'
    <2>1. Chasing(table, rd[r], lookup[r])
      BY DEF Inv, Reading
    <2> SUFFICES ASSUME rd[r].op = "get", NEW kk \in Keys, kk = lookup[r].key
                 PROVE /\ MapOf(table)'[kk] \in lookup'[r].seen
                       /\ \/ None \in lookup'[r].seen
                          \/ \E j \in Path(table, kk)' :
                                rd[r].i <= j /\ Holds(table, kk, Probe(kk, j))'
      BY <1>6, <2>1 DEF Chasing
    <2>2. kk \in Keys /\ MapOf(table)[kk] \in lookup[r].seen /\ lookup[r].pc = "pending"
      BY <2>1 DEF Chasing
    <2>3. MapOf(table)'[kk] \in lookup'[r].seen
      BY <1>1, <1>6, <2>2
    <2>4. CASE None \in lookup[r].seen
      BY <1>6, <2>3, <2>4
    <2>5. CASE None \notin lookup[r].seen
      <3>1. PICK j \in Path(table, kk) : rd[r].i <= j /\ Holds(table, kk, Probe(kk, j))
        BY <2>1, <2>5 DEF Chasing
      <3>2. Probe(kk, j) \in Buckets /\ j \in Path(table, kk)'
        BY <2>2, <3>1, PathFacts, ProbeFacts
      <3>3. Holds(table, kk, Probe(kk, j))' \/ (kk = k /\ v = None)
        BY <2>2, <3>1, <3>2
      <3>4. CASE kk = k /\ v = None
        BY <1>6, <2>2, <2>3, <3>4
      <3> QED
        BY <2>3, <3>1, <3>2, <3>3, <3>4
    <2> QED
      BY <2>4, <2>5
  <1>8. ASSUME NEW r \in Readers PROVE Counted(table, rd[r])'
    <2>1. Counted(table, rd[r])
      BY DEF Inv, Reading
    <2> SUFFICES ASSUME rd[r].op = "iter", NEW kk \in rd'[r].stable
                 PROVE \E b \in Buckets : /\ Holds(table, kk, b)'
                                          /\ rd'[r].got[kk] = IF b < rd'[r].i THEN 1 ELSE 0
      BY <1>6 DEF Counted
    <2>2. kk \in rd[r].stable /\ kk \in Keys /\ ~ (kk = k /\ v = None)
      <3> rd[r] \in Locals
        BY DEF Inv, Typed
      <3> QED
        BY <1>6 DEF Locals
    <2>3. PICK b \in Buckets : Holds(table, kk, b) /\ rd[r].got[kk] = IF b < rd[r].i THEN 1 ELSE 0
      BY <2>1, <2>2 DEF Counted
    <2> QED
      BY <1>6, <2>2, <2>3
  <1>9. Map!Set(k, v)
    BY <1>2 DEF Map!Set, Current
  <1> QED
    BY <1>4, <1>5, <1>7, <1>8, <1>9 DEF Reading

\* A slot is a slot after its value or its tag and head were replaced.
LEMMA ValueFacts ==
  ASSUME NEW tb, Formed(tb), NEW b \in Buckets
  PROVE tb[b] \in Slots /\ SlotOk(tb[b], b) /\ (Live(tb[b]) => ValueOf(tb[b]) \in Values)
  BY DEF Formed, SlotOk, Live, ValueOf

LEMMA PutStep ==
  ASSUME Inv, NEW k \in Keys, NEW idx \in Target(table, k), NEW s \in Slots, Live(s), s.key = k,
         SlotOk(s, idx), table' = [table EXCEPT ![idx] = s], Notice(k)
  PROVE /\ Formed(table)' /\ Reached(table)' /\ Reading'
        /\ rd' \in [Readers -> Locals] /\ lookup' \in [Readers -> Lookups]
        /\ ValueOf(s) \in Values /\ Map!Set(k, ValueOf(s))
  <1>1. table \in [Buckets -> Slots] /\ Formed(table) /\ Reached(table)
    BY DEF Inv, Typed, Formed
  <1>2. idx \in Buckets /\ s.tag # "EMPTY"
    BY <1>1, TargetFacts DEF Live
  <1>w. Writes(table, idx, s, table')
    BY <1>1, <1>2 DEF Writes
  <1>3. Formed(table)'
    BY <1>1, <1>2 DEF Formed
  <1>4. /\ Reached(table)'
        /\ \A b \in Buckets : Holds(table, k, b)' <=> b = idx
        /\ \A kk \in Keys \ {k}, b \in Buckets : Holds(table, kk, b)' <=> Holds(table, kk, b)
        /\ MapOf(table)' = [MapOf(table) EXCEPT ![k] = ValueOf(s)]
    <2>1. ASSUME NEW u, Writes(table, idx, s, u)
          PROVE /\ Reached(u)
                /\ \A b \in Buckets : Holds(u, k, b) <=> b = idx
                /\ \A kk \in Keys \ {k}, b \in Buckets : Holds(u, kk, b) <=> Holds(table, kk, b)
                /\ MapOf(u) = [MapOf(table) EXCEPT ![k] = ValueOf(s)]
      BY <1>1, <2>1, PutFacts, SMTT(30)
    <2> QED
      BY <1>w, <2>1
  <1>5. \A b \in Buckets : Holds(table, k, b) => b = idx
    BY <1>1, TargetFacts
  <1>6. \A kk \in Keys : Path(table, kk) \subseteq Path(table, kk)'
    BY <1>1, <1>2, <1>w, PathGrows
  <1>7. ValueOf(s) \in Values /\ ValueOf(s) \in Maybe
    BY DEF SlotOk, Live, ValueOf, Maybe
  <1>8. \A kk \in Keys, b \in Buckets : Holds(table, kk, b) => Holds(table, kk, b)'
    BY <1>4, <1>5
  <1> HIDE DEF Inv, Notice, Formed, Reached, Reading, Maybe
  <1> QED
    BY <1>3, <1>4, <1>6, <1>7, <1>8, NoticeStep

LEMMA DropStep ==
  ASSUME Inv, NEW k \in Keys, NEW idx \in Buckets, Holds(table, k, idx), NEW s \in Slots,
         s.tag = "TOMBSTONE", SlotOk(s, idx), table' = [table EXCEPT ![idx] = s], Notice(k)
  PROVE /\ Formed(table)' /\ Reached(table)' /\ Reading'
        /\ rd' \in [Readers -> Locals] /\ lookup' \in [Readers -> Lookups]
        /\ Map!Set(k, None)
  <1>1. table \in [Buckets -> Slots] /\ Formed(table) /\ Reached(table)
    BY DEF Inv, Typed, Formed
  <1>w. Writes(table, idx, s, table')
    BY <1>1 DEF Writes
  <1>3. Formed(table)'
    BY <1>1 DEF Formed
  <1>4. /\ Reached(table)'
        /\ \A kk \in Keys \ {k}, b \in Buckets : Holds(table, kk, b)' <=> Holds(table, kk, b)
        /\ MapOf(table)' = [MapOf(table) EXCEPT ![k] = None]
    BY <1>1, <1>w, DropFacts
  <1>6. \A kk \in Keys : Path(table, kk) \subseteq Path(table, kk)'
    BY <1>1, <1>w, PathGrows
  <1>7. None \in Maybe
    BY DEF Maybe
  <1>8. \A kk \in Keys, b \in Buckets :
           Holds(table, kk, b) => Holds(table, kk, b)' \/ (kk = k /\ None = None)
    BY <1>4
  <1> HIDE DEF Inv, Notice, Formed, Reached, Reading, Maybe
  <1> QED
    BY <1>3, <1>4, <1>6, <1>7, <1>8, NoticeStep

----------------------------------------------------------------------------
(***************************************************************************)
(* The writer's steps.                                                     *)
(***************************************************************************)
LEMMA FlagFacts ==
  /\ \A v : Flag(v) \in {"PUT", "PUT_INLINE"}
  /\ \A v \in Values : Flag(v) = "PUT" => v \in Strings
  BY DEF Flag, Values

LEMMA RecordFacts ==
  ASSUME NEW flag \in {"PUT", "TOMBSTONE", "PUT_INLINE"}, NEW idx \in Buckets, NEW k \in Keys,
         NEW v \in Maybe
  PROVE /\ Record(flag, idx, k, v) \in Records
        /\ Record(flag, idx, k, v).flag = flag /\ Record(flag, idx, k, v).idx = idx
        /\ Record(flag, idx, k, v).key = k /\ Record(flag, idx, k, v).val = v
  BY DEF Record, Records

LEMMA AppendFacts ==
  ASSUME Inv, NEW rec, rec.flag \in {"PUT", "TOMBSTONE", "PUT_INLINE"}, Fits(rec.flag),
         AppendRecord(rec)
  PROVE bump' \in Nat /\ bump' <= ArenaCap
  <1>1. bump \in Nat /\ ArenaCap \in Nat
    BY ProbeAssumption DEF Inv, Typed
  <1>2. RecLen[rec.flag] \in Nat
    BY ProbeAssumption
  <1> QED
    BY <1>1, <1>2 DEF Fits, AppendRecord

\* A step that leaves the slots and the readers alone.
LEMMA QuietStep ==
  ASSUME Inv, UNCHANGED <<table, rd, lookup>>, bump' \in Nat /\ bump' <= ArenaCap, Aimed'
  PROVE Inv'
  <1>1. Formed(table)' /\ Reached(table)'
    BY DEF Inv, Typed
  <1>2. Typed'
    BY <1>1 DEF Inv, Typed
  <1>3. ASSUME NEW r \in Readers PROVE Chasing(table, rd[r], lookup[r])' /\ Counted(table, rd[r])'
    <2>1. Chasing(table, rd[r], lookup[r]) /\ Counted(table, rd[r])
      BY DEF Inv, Reading
    <2> QED
      BY <2>1
  <1> QED
    BY <1>1, <1>2, <1>3 DEF Inv, Reading

\* The slot a commit leaves.
LEMMA InlineSlot ==
  ASSUME Inv, NEW idx \in Buckets, table[idx].tag = "INLINE", NEW v \in Values, NEW s,
         s = [table[idx] EXCEPT !.val = v]
  PROVE /\ s \in Slots /\ SlotOk(s, idx) /\ Live(s) /\ s.key = table[idx].key /\ ValueOf(s) = v
        /\ table[idx].key \in Keys
  <1>1. table[idx] \in Slots /\ SlotOk(table[idx], idx)
    BY ValueFacts DEF Inv, Typed
  <1> QED
    BY <1>1 DEF Slots, SlotOk, Live, ValueOf, Maybe

LEMMA UpdateInlineStep ==
  ASSUME Inv, NEW k \in Keys, NEW v \in Values, UpdateInline(k, v)
  PROVE Inv' /\ Map!Set(k, v)
  <1>1. PICK idx \in Target(table, k) :
           /\ table[idx].tag = "INLINE" /\ table[idx].key = k
           /\ table' = [table EXCEPT ![idx].val = v]
    BY DEF UpdateInline
  <1>2. wr' = wr /\ wr.pc = "idle" /\ bump' = bump /\ Notice(k)
    BY DEF UpdateInline
  <1>3. idx \in Buckets /\ table \in [Buckets -> Slots]
    BY TargetFacts DEF Inv, Typed, Formed
  <1> DEFINE s == [table[idx] EXCEPT !.val = v]
  <1>4. s \in Slots /\ SlotOk(s, idx) /\ Live(s) /\ s.key = k /\ ValueOf(s) = v
    BY <1>1, <1>3, InlineSlot
  <1>5. table' = [table EXCEPT ![idx] = s]
    BY <1>1, <1>3
  <1> HIDE DEF s
  <1>6. /\ Formed(table)' /\ Reached(table)' /\ Reading'
        /\ rd' \in [Readers -> Locals] /\ lookup' \in [Readers -> Lookups]
        /\ Map!Set(k, v)
    BY <1>2, <1>4, <1>5, PutStep
  <1>7. Aimed'
    BY <1>2 DEF Aimed
  <1> QED
    BY <1>2, <1>6, <1>7 DEF Inv, Typed

LEMMA InsertRecordStep ==
  ASSUME Inv, NEW k \in Keys, NEW v \in Values, InsertRecord(k, v)
  PROVE Inv' /\ UNCHANGED <<table, lookup>>
  <1>1. PICK idx \in Target(table, k) :
           /\ AppendRecord(Record(Flag(v), idx, k, v))
           /\ wr' = [pc |-> "put", key |-> k, val |-> v, idx |-> idx,
                     head |-> Record(Flag(v), idx, k, v)]
    BY DEF InsertRecord
  <1>2. Fits(Flag(v)) /\ UNCHANGED <<table, rd, lookup>>
    BY DEF InsertRecord, Quiet
  <1>3. idx \in Buckets
    BY TargetFacts DEF Inv
  <1>4. Record(Flag(v), idx, k, v).flag = Flag(v) /\ Flag(v) \in {"PUT", "TOMBSTONE", "PUT_INLINE"}
    BY FlagFacts DEF Record
  <1>5. bump' \in Nat /\ bump' <= ArenaCap
    BY <1>1, <1>2, <1>4, AppendFacts
  <1>6. Aimed'
    <2> /\ wr'.pc = "put" /\ wr'.key = k /\ wr'.val = v /\ wr'.idx = idx
        /\ wr'.head = Record(Flag(v), idx, k, v)
      BY <1>1
    <2>1. Target(table, k)' = Target(table, k)
      BY <1>2
    <2> QED
      BY <1>1, <1>2 DEF Aimed
  <1> QED
    BY <1>2, <1>5, <1>6, QuietStep

LEMMA PutSlot ==
  ASSUME NEW old \in Slots, NEW k \in Keys, NEW v \in Values, NEW idx \in Buckets, NEW tag,
         tag = IF v \in Scalars THEN "INLINE" ELSE "OCCUPIED", NEW s,
         s = [tag |-> tag, key |-> k, head |-> Record(Flag(v), idx, k, v),
              val |-> IF tag = "INLINE" THEN v ELSE IF Live(old) THEN old.val ELSE None]
  PROVE s \in Slots /\ SlotOk(s, idx) /\ Live(s) /\ s.key = k /\ ValueOf(s) = v
  <1> DEFINE h == Record(Flag(v), idx, k, v)
  <1>1. Flag(v) = IF v \in Scalars THEN "PUT_INLINE" ELSE "PUT"
    BY DEF Flag
  <1>2. /\ h \in Records /\ h.flag = Flag(v) /\ h.idx = idx /\ h.key = k /\ h.val = v
    BY FlagFacts, RecordFacts DEF Maybe
  <1> HIDE DEF h
  <1>3. /\ s.tag = tag /\ s.key = k /\ s.head = h
        /\ s.val = IF tag = "INLINE" THEN v ELSE IF Live(old) THEN old.val ELSE None
    BY DEF h
  <1>4. s.val \in Maybe
    BY <1>3 DEF Slots, Maybe
  <1>5. s \in Slots
    BY <1>2, <1>3, <1>4 DEF Slots, Tags, h
  <1> QED
    BY <1>1, <1>2, <1>3, <1>5 DEF SlotOk, Live, ValueOf

LEMMA CommitPutStep ==
  ASSUME Inv, CommitPut
  PROVE Inv' /\ \E k \in Keys, v \in Maybe : Map!Set(k, v)
  <1>1. /\ wr.key \in Keys /\ wr.val \in Values /\ wr.idx \in Target(table, wr.key)
        /\ wr.head = Record(Flag(wr.val), wr.idx, wr.key, wr.val)
    BY DEF CommitPut, Inv, Aimed
  <1>2. wr' = IdleWriter /\ bump' = bump /\ Notice(wr.key)
    BY DEF CommitPut
  <1>3. wr.idx \in Buckets /\ table \in [Buckets -> Slots]
    BY <1>1, TargetFacts DEF Inv, Typed, Formed
  <1> DEFINE tag == IF wr.val \in Scalars THEN "INLINE" ELSE "OCCUPIED"
             old == table[wr.idx]
             s == [tag |-> tag, key |-> wr.key, head |-> wr.head,
                   val |-> IF tag = "INLINE" THEN wr.val
                           ELSE IF Live(old) THEN old.val ELSE None]
  <1>4. s \in Slots /\ SlotOk(s, wr.idx) /\ Live(s) /\ s.key = wr.key /\ ValueOf(s) = wr.val
    BY <1>1, <1>3, PutSlot
  <1>5. table' = [table EXCEPT ![wr.idx] = s]
    BY DEF CommitPut
  <1> HIDE DEF s
  <1>6. /\ Formed(table)' /\ Reached(table)' /\ Reading'
        /\ rd' \in [Readers -> Locals] /\ lookup' \in [Readers -> Lookups]
        /\ Map!Set(wr.key, ValueOf(s))
    BY <1>1, <1>2, <1>4, <1>5, PutStep
  <1>7. Aimed'
    BY <1>2 DEF Aimed, IdleWriter
  <1> QED
    BY <1>1, <1>2, <1>4, <1>6, <1>7 DEF Inv, Typed, Maybe

LEMMA RemoveRecordStep ==
  ASSUME Inv, NEW k \in Keys, RemoveRecord(k)
  PROVE Inv' /\ UNCHANGED <<table, lookup>>
  <1> DEFINE idx == Probe(k, Min(Hits(table, k)))
             rec == Record("TOMBSTONE", idx, k, None)
  <1>1. idx \in Buckets /\ Holds(table, k, idx)
    BY HitFacts DEF RemoveRecord
  <1>2. UNCHANGED <<table, rd, lookup>>
    BY DEF RemoveRecord, Quiet
  <1>3. rec.flag = "TOMBSTONE"
    BY DEF Record
  <1>4. /\ wr'.pc = "remove" /\ wr'.key = k /\ wr'.idx = idx
        /\ \/ wr'.head = rec /\ AppendRecord(rec) /\ Fits("TOMBSTONE")
           \/ wr'.head = NoRecord /\ bump' = bump
    <2>1. CASE Fits("TOMBSTONE")
      BY <2>1 DEF RemoveRecord, IdleWriter
    <2>2. CASE ~ Fits("TOMBSTONE")
      BY <2>2 DEF RemoveRecord, IdleWriter
    <2> QED
      BY <2>1, <2>2
  <1> HIDE DEF rec, idx
  <1>5. bump' \in Nat /\ bump' <= ArenaCap
    <2>1. CASE wr'.head = NoRecord /\ bump' = bump
      BY <2>1 DEF Inv, Typed
    <2>2. CASE AppendRecord(rec) /\ Fits("TOMBSTONE")
      BY <1>3, <2>2, AppendFacts
    <2> QED
      BY <1>4, <2>1, <2>2
  <1>6. Aimed'
    BY <1>1, <1>2, <1>4 DEF Aimed, rec, Holds
  <1> QED
    BY <1>2, <1>5, <1>6, QuietStep

LEMMA CommitRemoveStep ==
  ASSUME Inv, CommitRemove
  PROVE Inv' /\ Map!Set(wr.key, None) /\ wr.key \in Keys
  <1>1. /\ wr.key \in Keys /\ wr.idx \in Buckets /\ Holds(table, wr.key, wr.idx)
        /\ wr.head \in {NoRecord, Record("TOMBSTONE", wr.idx, wr.key, None)}
    BY DEF CommitRemove, Inv, Aimed
  <1>2. wr' = IdleWriter /\ bump' = bump /\ Notice(wr.key)
    BY DEF CommitRemove
  <1>3. table \in [Buckets -> Slots]
    BY DEF Inv, Typed, Formed
  <1> DEFINE s == [table[wr.idx] EXCEPT !.tag = "TOMBSTONE", !.head = wr.head]
  <1>4. wr.head = NoRecord \/ (wr.head \in Records /\ wr.head.idx = wr.idx /\ wr.head.key = wr.key)
    BY <1>1, RecordFacts DEF Maybe
  <1>5. table[wr.idx] \in Slots /\ table[wr.idx].key = wr.key
    BY <1>1, <1>3 DEF Holds
  <1>6. s \in Slots /\ s.tag = "TOMBSTONE" /\ s.head = wr.head /\ s.key = wr.key
    BY <1>4, <1>5 DEF Slots, Tags
  <1>7. SlotOk(s, wr.idx)
    BY <1>4, <1>6 DEF SlotOk, Live
  <1>8. table' = [table EXCEPT ![wr.idx] = s]
    BY <1>3 DEF CommitRemove
  <1> HIDE DEF s
  <1>9. /\ Formed(table)' /\ Reached(table)' /\ Reading'
        /\ rd' \in [Readers -> Locals] /\ lookup' \in [Readers -> Lookups]
        /\ Map!Set(wr.key, None)
    BY <1>1, <1>2, <1>6, <1>7, <1>8, DropStep
  <1>10. Aimed'
    BY <1>2 DEF Aimed, IdleWriter
  <1> QED
    BY <1>1, <1>2, <1>9, <1>10 DEF Inv, Typed

LEMMA WriterDiesStep ==
  ASSUME Inv, WriterDies
  PROVE Inv' /\ UNCHANGED <<table, lookup>>
  <1>1. UNCHANGED <<table, rd, lookup>> /\ bump' = bump /\ wr' = IdleWriter
    BY DEF WriterDies, Quiet
  <1>2. Aimed'
    BY <1>1 DEF Aimed, IdleWriter
  <1>3. bump' \in Nat /\ bump' <= ArenaCap
    BY <1>1 DEF Inv, Typed
  <1> QED
    BY <1>1, <1>2, <1>3, QuietStep

----------------------------------------------------------------------------
(***************************************************************************)
(* The readers' steps.                                                     *)
(***************************************************************************)
LEMMA ReaderStep ==
  ASSUME Inv, NEW r \in Readers, Still, NEW t \in Locals, NEW l \in Lookups,
         rd' = [rd EXCEPT ![r] = t], lookup' = [lookup EXCEPT ![r] = l],
         Chasing(table, t, l), Counted(table, t)
  PROVE Inv'
  <1>1. UNCHANGED <<table, bump, wr>>
    BY DEF Still
  <1>2. Formed(table)' /\ Reached(table)' /\ Aimed'
    BY <1>1 DEF Inv, Typed, Aimed
  <1>3. rd \in [Readers -> Locals] /\ lookup \in [Readers -> Lookups]
    BY DEF Inv, Typed
  <1>4. Typed'
    BY <1>1, <1>2, <1>3 DEF Inv, Typed
  <1>5. ASSUME NEW q \in Readers
        PROVE Chasing(table', rd'[q], lookup'[q]) /\ Counted(table', rd'[q])
    <2>1. Chasing(table, rd[q], lookup[q]) /\ Counted(table, rd[q])
      BY DEF Inv, Reading
    <2>2. CASE q = r
      BY <1>1, <1>3, <2>2
    <2>3. CASE q # r
      BY <1>1, <1>3, <2>1, <2>3
    <2> QED
      BY <2>2, <2>3
  <1> QED
    BY <1>2, <1>4, <1>5 DEF Inv, Reading

LEMMA MapTyped ==
  ASSUME Inv, NEW k \in Keys
  PROVE /\ Current[k] \in Maybe
        /\ Current[k] # None => \E b \in Buckets : Holds(table, k, b)
  <1>1. Formed(table) /\ Reached(table)
    BY DEF Inv, Typed
  <1>2. CASE \E b \in Buckets : Holds(table, k, b)
    <2>1. PICK b \in Buckets : Holds(table, k, b)
      BY <1>2
    <2>2. Current[k] = ValueOf(table[b])
      BY <1>1, <2>1, MapFacts DEF Current
    <2> QED
      BY <1>1, <1>2, <2>1, <2>2, ValueFacts DEF Holds, Maybe
  <1>3. CASE ~ \E b \in Buckets : Holds(table, k, b)
    <2>1. Current[k] = None
      BY <1>1, <1>3, MapFacts DEF Current
    <2> QED
      BY <2>1 DEF Maybe
  <1> QED
    BY <1>2, <1>3

LEMMA IdleFacts ==
  /\ IdleReader \in Locals /\ IdleReader.op = "none" /\ IdleReader.i = 0
  /\ Resting \in Lookups /\ Resting.pc = "idle"
  <1>1. IdleReader \in Locals
    BY BucketFacts DEF IdleReader, Locals, Ops
  <1> QED
    BY <1>1 DEF IdleReader, Resting, Lookups, Maybe

LEMMA GetStart ==
  ASSUME Inv, NEW r \in Readers, NEW k \in Keys, Get(r, k)
  PROVE Inv' /\ table' = table /\ Map!Begin(r, k)
  <1> DEFINE t == [rd[r] EXCEPT !.op = "get", !.i = 0]
             l == [pc |-> "pending", key |-> k, seen |-> {Current[k]}, res |-> None]
  <1>1. rd \in [Readers -> Locals] /\ lookup \in [Readers -> Lookups] /\ Reached(table)
    BY DEF Inv, Typed
  <1>2. /\ rd' = [rd EXCEPT ![r].op = "get", ![r].i = 0]
        /\ lookup' = [lookup EXCEPT ![r] = l] /\ Still /\ lookup[r].pc = "idle"
    BY DEF Get
  <1>3. rd' = [rd EXCEPT ![r] = t]
    BY <1>1, <1>2
  <1>4. rd[r] \in Locals
    BY <1>1
  <1>x. 0 \in 0 .. NumBuckets
    BY BucketFacts
  <1>5. t \in Locals /\ t.op = "get" /\ t.i = 0
    BY <1>4, <1>x DEF Locals, Ops
  <1>6. l \in Lookups /\ l.pc = "pending" /\ l.key = k /\ l.seen = {Current[k]}
    BY MapTyped DEF Lookups, Maybe
  <1> HIDE DEF t, l
  <1>7. Chasing(table, t, l)
    <2>1. CASE \E b \in Buckets : Holds(table, k, b)
      <3>1. PICK i \in Hits(table, k) : TRUE
        BY <1>1, <2>1, HitFacts
      <3>2. i \in Path(table, k) /\ 0 <= i /\ Holds(table, k, Probe(k, i))
        BY <1>1, <3>1, HitFacts, PathFacts
      <3> QED
        BY <1>5, <1>6, <3>2, BucketFacts DEF Chasing, Current
    <2>2. CASE ~ \E b \in Buckets : Holds(table, k, b)
      <3>1. Current[k] = None
        BY <1>1, <2>2, MapFacts DEF Current
      <3> QED
        BY <1>5, <1>6, <3>1, BucketFacts DEF Chasing, Current
    <2> QED
      BY <2>1, <2>2
  <1>8. Counted(table, t)
    BY <1>5 DEF Counted
  <1>9. Inv'
    BY <1>2, <1>3, <1>5, <1>6, <1>7, <1>8, ReaderStep
  <1>10. table' = table
    BY <1>2 DEF Still
  <1>11. Map!Begin(r, k)
    BY <1>2, <1>10 DEF Map!Begin, Current, l
  <1> QED
    BY <1>9, <1>10, <1>11

\* What a lookup finds at the slot it has come to.
LEMMA LookedAt ==
  ASSUME Inv, NEW r \in Readers, rd[r].op = "get", NEW k, k = lookup[r].key, NEW i, i = rd[r].i,
         NEW slot, slot = table[Probe(k, i)]
  PROVE /\ k \in Keys /\ i \in Buckets /\ slot \in Slots
        /\ slot.tag = "EMPTY" => None \in lookup[r].seen
        /\ Live(slot) /\ slot.head.key = k => ValueOf(slot) \in lookup[r].seen
        /\ ~ (Live(slot) /\ slot.head.key = k) /\ i + 1 = NumBuckets => None \in lookup[r].seen
        /\ ~ (Live(slot) /\ slot.head.key = k) /\ slot.tag # "EMPTY" /\ None \notin lookup[r].seen =>
              \E j \in Path(table, k) : i + 1 <= j /\ Holds(table, k, Probe(k, j))
  <1>1. /\ k \in Keys /\ i \in Buckets /\ Current[k] \in lookup[r].seen
        /\ \/ None \in lookup[r].seen
           \/ \E j \in Path(table, k) : i <= j /\ Holds(table, k, Probe(k, j))
    BY DEF Inv, Reading, Chasing, Current
  <1>2. Formed(table) /\ Reached(table)
    BY DEF Inv, Typed
  <1>3. Probe(k, i) \in Buckets /\ i \in Nat /\ i < NumBuckets
    BY <1>1, ProbeFacts, BucketFacts
  <1>4. slot \in Slots /\ SlotOk(slot, Probe(k, i))
    BY <1>2, <1>3, ValueFacts
  <1>5. Live(slot) /\ slot.head.key = k <=> Holds(table, k, Probe(k, i))
    BY <1>4 DEF Holds, SlotOk
  <1>6. Live(slot) /\ slot.head.key = k => ValueOf(slot) \in lookup[r].seen
    BY <1>1, <1>2, <1>3, <1>5, MapFacts DEF Current
  <1>7. ASSUME None \notin lookup[r].seen
        PROVE /\ slot.tag # "EMPTY"
              /\ ~ Holds(table, k, Probe(k, i)) =>
                   \E j \in Path(table, k) :
                      i + 1 <= j /\ j < NumBuckets /\ Holds(table, k, Probe(k, j))
    <2>1. PICK j \in Path(table, k) : i <= j /\ Holds(table, k, Probe(k, j))
      BY <1>1, <1>7
    <2>2. j \in Nat /\ j < NumBuckets
      BY <1>1, <2>1, PathFacts, BucketFacts
    <2>3. CASE j = i
      BY <2>1, <2>3 DEF Holds, Live
    <2>4. CASE j # i
      <3>1. i < j /\ i + 1 <= j
        BY <1>3, <2>1, <2>2, <2>4
      <3>2. slot.tag # "EMPTY"
        BY <1>1, <3>1, PathFacts
      <3> QED
        BY <2>1, <2>2, <3>1, <3>2
    <2> QED
      BY <2>3, <2>4
  <1>8. ~ Holds(table, k, Probe(k, i)) /\ i + 1 = NumBuckets => None \in lookup[r].seen
    <2> SUFFICES ASSUME ~ Holds(table, k, Probe(k, i)), i + 1 = NumBuckets,
                        None \notin lookup[r].seen
                 PROVE FALSE
      OBVIOUS
    <2>1. PICK j \in Path(table, k) : i + 1 <= j /\ j < NumBuckets
      BY <1>7
    <2>2. j \in Nat /\ NumBuckets \in Nat
      BY <1>1, <2>1, PathFacts, BucketFacts
    <2> QED
      BY <2>1, <2>2
  <1> QED
    BY <1>1, <1>4, <1>5, <1>6, <1>7, <1>8

LEMMA FinishStep ==
  ASSUME Inv, NEW r \in Readers, rd[r].op = "get", NEW v \in lookup[r].seen, Finish(r, v), Still
  PROVE Inv' /\ table' = table /\ Map!End(r)
  <1> DEFINE l == [lookup[r] EXCEPT !.pc = "done", !.res = v]
  <1>1. lookup \in [Readers -> Lookups] /\ rd \in [Readers -> Locals]
    BY DEF Inv, Typed
  <1>2. lookup[r] \in Lookups /\ lookup[r].pc = "pending"
    BY <1>1 DEF Inv, Reading, Chasing
  <1>3. l \in Lookups /\ l.pc = "done"
    BY <1>2 DEF Lookups
  <1>4. lookup' = [lookup EXCEPT ![r] = l]
    BY <1>1 DEF Finish
  <1> HIDE DEF l
  <1>5. Chasing(table, IdleReader, l) /\ Counted(table, IdleReader)
    BY <1>3, IdleFacts DEF Chasing, Counted
  <1>6. rd' = [rd EXCEPT ![r] = IdleReader]
    BY DEF Finish
  <1>7. Inv'
    BY <1>3, <1>4, <1>5, <1>6, IdleFacts, ReaderStep
  <1>8. table' = table
    BY DEF Still
  <1>9. Map!End(r)
    BY <1>2, <1>8 DEF Map!End, Current, Finish
  <1> QED
    BY <1>7, <1>8, <1>9

LEMMA GetStepStep ==
  ASSUME Inv, NEW r \in Readers, GetStep(r)
  PROVE Inv' /\ table' = table /\ (Map!End(r) \/ lookup' = lookup)
  <1> DEFINE k == lookup[r].key
             i == rd[r].i
             slot == table[Probe(k, i)]
             Step ==
               IF slot.tag = "EMPTY" THEN Finish(r, None)
               ELSE IF Live(slot) /\ slot.head.key = k THEN Finish(r, ValueOf(slot))
               ELSE IF i + 1 = NumBuckets THEN Finish(r, None)
               ELSE rd' = [rd EXCEPT ![r].i = @ + 1] /\ UNCHANGED lookup
  <1>1. rd[r].op = "get" /\ Still /\ Step
    BY DEF GetStep
  <1>2. /\ k \in Keys /\ i \in Buckets /\ slot \in Slots
        /\ slot.tag = "EMPTY" => None \in lookup[r].seen
        /\ Live(slot) /\ slot.head.key = k => ValueOf(slot) \in lookup[r].seen
        /\ ~ (Live(slot) /\ slot.head.key = k) /\ i + 1 = NumBuckets => None \in lookup[r].seen
        /\ ~ (Live(slot) /\ slot.head.key = k) /\ slot.tag # "EMPTY" /\ None \notin lookup[r].seen =>
              \E j \in Path(table, k) : i + 1 <= j /\ Holds(table, k, Probe(k, j))
    BY <1>1, LookedAt
  <1> HIDE DEF slot
  <1>3. CASE \E v \in lookup[r].seen : Finish(r, v)
    BY <1>1, <1>3, FinishStep
  <1>4. CASE ~ \E v \in lookup[r].seen : Finish(r, v)
    <2>1. /\ slot.tag # "EMPTY" /\ ~ (Live(slot) /\ slot.head.key = k) /\ i + 1 # NumBuckets
          /\ rd' = [rd EXCEPT ![r].i = @ + 1] /\ UNCHANGED lookup
      BY <1>1, <1>2, <1>4
    <2> DEFINE t == [rd[r] EXCEPT !.i = @ + 1]
    <2>2. rd \in [Readers -> Locals] /\ lookup \in [Readers -> Lookups] /\ rd[r] \in Locals
      BY DEF Inv, Typed
    <2>3. i + 1 \in Buckets /\ i + 1 \in 0 .. NumBuckets
      <3> i \in Nat /\ i < NumBuckets /\ NumBuckets \in Nat
        BY <1>2, BucketFacts
      <3> i + 1 \in Nat /\ i + 1 < NumBuckets
        BY <2>1
      <3> QED
        BY BucketFacts
    <2>4. t \in Locals /\ t.op = "get" /\ t.i = i + 1
      BY <1>1, <2>2, <2>3 DEF Locals
    <2>5. rd' = [rd EXCEPT ![r] = t] /\ lookup' = [lookup EXCEPT ![r] = lookup[r]]
      BY <2>1, <2>2
    <2>6. Chasing(table, rd[r], lookup[r])
      BY DEF Inv, Reading
    <2> HIDE DEF t
    <2>7. Chasing(table, t, lookup[r])
      BY <1>1, <1>2, <2>1, <2>3, <2>4, <2>6 DEF Chasing
    <2>8. Counted(table, t)
      BY <2>4 DEF Counted
    <2>9. lookup[r] \in Lookups
      BY <2>2
    <2>10. Inv'
      BY <1>1, <2>4, <2>5, <2>7, <2>8, <2>9, ReaderStep
    <2> QED
      BY <1>1, <2>1, <2>10 DEF Still
  <1> QED
    BY <1>3, <1>4

LEMMA GetReturnStep ==
  ASSUME Inv, NEW r \in Readers, GetReturn(r)
  PROVE Inv' /\ table' = table /\ Map!Return(r)
  <1>1. rd \in [Readers -> Locals] /\ lookup \in [Readers -> Lookups]
    BY DEF Inv, Typed
  <1>2. /\ lookup[r].pc = "done" /\ lookup' = [lookup EXCEPT ![r] = Resting]
        /\ rd' = rd /\ Still /\ table' = table
    BY DEF GetReturn, Still
  <1>3. Chasing(table, rd[r], lookup[r]) /\ Counted(table, rd[r])
    BY DEF Inv, Reading
  <1>4. Chasing(table, rd[r], Resting)
    BY <1>2, <1>3, IdleFacts DEF Chasing
  <1>5. rd' = [rd EXCEPT ![r] = rd[r]] /\ rd[r] \in Locals
    BY <1>1, <1>2
  <1>6. Inv'
    BY <1>2, <1>3, <1>4, <1>5, IdleFacts, ReaderStep
  <1>7. Map!Return(r)
    BY <1>2 DEF Map!Return, Current, Map!Resting, Resting
  <1> QED
    BY <1>2, <1>6, <1>7

LEMMA IterStart ==
  ASSUME Inv, NEW r \in Readers, Iter(r)
  PROVE Inv' /\ table' = table
  <1> DEFINE t == [IdleReader EXCEPT !.op = "iter", !.stable = {k \in Keys : Current[k] # None}]
  <1>1. rd \in [Readers -> Locals] /\ lookup \in [Readers -> Lookups]
    BY DEF Inv, Typed
  <1>2. /\ rd' = [rd EXCEPT ![r] = t] /\ lookup' = [lookup EXCEPT ![r] = lookup[r]]
        /\ lookup[r] \in Lookups /\ lookup[r].pc = "idle" /\ Still /\ table' = table
    BY <1>1 DEF Iter, Still
  <1>3. t \in Locals
    <2>1. IdleReader \in Locals
      BY IdleFacts
    <2> QED
      BY <2>1 DEF Locals, Ops
  <1>4. /\ t.op = "iter" /\ t.stable = {k \in Keys : Current[k] # None}
        /\ t.i = 0 /\ \A k \in Keys : t.got[k] = 0
    BY DEF IdleReader
  <1> HIDE DEF t
  <1>5. Chasing(table, t, lookup[r])
    BY <1>2, <1>4 DEF Chasing
  <1>6. Counted(table, t)
    <2> SUFFICES ASSUME NEW k \in Keys, Current[k] # None
                 PROVE \E b \in Buckets : Holds(table, k, b) /\ 0 = IF b < 0 THEN 1 ELSE 0
      BY <1>4 DEF Counted
    <2>1. PICK b \in Buckets : Holds(table, k, b)
      BY MapTyped
    <2>2. ~ (b < 0)
      BY BucketFacts
    <2> QED
      BY <2>1, <2>2
  <1>7. Inv'
    BY <1>2, <1>3, <1>5, <1>6, ReaderStep
  <1> QED
    BY <1>2, <1>7

\* A live slot is yielded; what a slot yields is the key it holds.
LEMMA YieldFacts ==
  ASSUME NEW b \in Buckets, Formed(table)
  PROVE /\ Yields(b) <=> Live(table[b])
        /\ Yields(b) => /\ table[b].head.key \in Keys
                        /\ Holds(table, table[b].head.key, b)
                        /\ ValueOf(table[b]) \in Values
        /\ \A k \in Keys : Holds(table, k, b) => Yields(b) /\ table[b].head.key = k
  <1>1. table[b] \in Slots /\ SlotOk(table[b], b) /\ (Live(table[b]) => ValueOf(table[b]) \in Values)
    BY ValueFacts
  <1>2. Yields(b) <=> Live(table[b])
    BY <1>1 DEF Yields, SlotOk, Live
  <1> QED
    BY <1>1, <1>2 DEF SlotOk, Holds

LEMMA IterStepStep ==
  ASSUME Inv, NEW r \in Readers, IterStep(r)
  PROVE Inv' /\ table' = table
  <1> DEFINE i == rd[r].i
             key == table[i].head.key
             got == Tally(rd[r].got, i)
             t == [rd[r] EXCEPT !.i = i + 1, !.got = got]
  <1>1. rd \in [Readers -> Locals] /\ lookup \in [Readers -> Lookups] /\ Formed(table)
        /\ Reached(table)
    BY DEF Inv, Typed
  <1>2. /\ rd[r].op = "iter" /\ i < NumBuckets /\ Still /\ table' = table
        /\ lookup' = [lookup EXCEPT ![r] = lookup[r]] /\ lookup[r] \in Lookups
    BY <1>1 DEF IterStep, Still
  <1>3. rd' = [rd EXCEPT ![r] = t]
    <2>1. rd' = [rd EXCEPT ![r].i = i + 1, ![r].got = got]
      BY DEF IterStep
    <2> HIDE DEF got
    <2> QED
      BY <1>1, <2>1
  <1>4. rd[r] \in Locals
    BY <1>1
  <1>5. i \in Nat /\ i \in Buckets /\ i + 1 \in 0 .. NumBuckets
    <2>1. i \in 0 .. NumBuckets
      BY <1>4 DEF Locals
    <2> QED
      BY <1>2, <2>1, BucketFacts
  <1>6. /\ got \in [Keys -> Nat]
        /\ \A k \in Keys : got[k] = IF Yields(i) /\ k = key THEN rd[r].got[k] + 1 ELSE rd[r].got[k]
    <2>1. rd[r].got \in [Keys -> Nat]
      BY <1>4 DEF Locals
    <2>2. Yields(i) => key \in Keys
      BY <1>1, <1>5, YieldFacts
    <2> QED
      BY <2>1, <2>2 DEF Tally
  <1> HIDE DEF got
  <1>7. /\ t \in Locals /\ t.op = "iter" /\ t.i = i + 1 /\ t.stable = rd[r].stable
        /\ t.got = got /\ t.stable \subseteq Keys
    BY <1>2, <1>4, <1>5, <1>6 DEF Locals
  <1> HIDE DEF t
  <1>8. Chasing(table, rd[r], lookup[r]) /\ Counted(table, rd[r])
    BY DEF Inv, Reading
  <1>9. Chasing(table, t, lookup[r])
    BY <1>2, <1>7, <1>8 DEF Chasing
  <1>10. Counted(table, t)
    <2> SUFFICES ASSUME NEW k \in rd[r].stable
                 PROVE \E b \in Buckets : Holds(table, k, b) /\ got[k] = IF b < i + 1 THEN 1 ELSE 0
      BY <1>7 DEF Counted
    <2>1. PICK b \in Buckets : Holds(table, k, b) /\ rd[r].got[k] = IF b < i THEN 1 ELSE 0
      BY <1>2, <1>8 DEF Counted
    <2>2. k \in Keys /\ b \in Nat
      BY <1>7, BucketFacts
    <2>3. CASE b = i
      <3>1. Yields(i) /\ key = k
        BY <1>1, <1>5, <2>1, <2>2, <2>3, YieldFacts
      <3>2. got[k] = 1 /\ b < i + 1
        BY <1>5, <1>6, <2>1, <2>2, <2>3, <3>1
      <3> QED
        BY <2>1, <3>2
    <2>4. CASE b # i
      <3>1. ~ (Yields(i) /\ key = k)
        BY <1>1, <1>5, <2>1, <2>2, <2>4, YieldFacts DEF Reached
      <3>2. got[k] = rd[r].got[k]
        BY <1>6, <2>2, <3>1
      <3>3. b < i + 1 <=> b < i
        BY <1>5, <2>2, <2>4
      <3> QED
        BY <2>1, <3>2, <3>3
    <2> QED
      BY <2>3, <2>4
  <1>11. Inv'
    BY <1>2, <1>3, <1>7, <1>9, <1>10, ReaderStep
  <1> QED
    BY <1>2, <1>11

LEMMA IterEndStep ==
  ASSUME Inv, NEW r \in Readers, IterEnd(r)
  PROVE Inv' /\ table' = table
  <1>1. rd \in [Readers -> Locals] /\ lookup \in [Readers -> Lookups]
    BY DEF Inv, Typed
  <1>2. /\ rd[r].op = "iter" /\ rd' = [rd EXCEPT ![r] = IdleReader] /\ Still /\ table' = table
        /\ lookup' = [lookup EXCEPT ![r] = lookup[r]] /\ lookup[r] \in Lookups
    BY <1>1 DEF IterEnd, Still
  <1>3. Chasing(table, rd[r], lookup[r])
    BY DEF Inv, Reading
  <1>4. Chasing(table, IdleReader, lookup[r]) /\ Counted(table, IdleReader)
    BY <1>2, <1>3, IdleFacts DEF Chasing, Counted
  <1>5. Inv'
    BY <1>2, <1>4, IdleFacts, ReaderStep
  <1> QED
    BY <1>2, <1>5

----------------------------------------------------------------------------
(***************************************************************************)
(* The invariant, and the steps as KvMap sees them.                        *)
(***************************************************************************)
LEMMA InitInv == Init => Inv /\ Map!Init
  <1> SUFFICES ASSUME Init PROVE Inv /\ Map!Init
    OBVIOUS
  <1> EmptySlot \in Slots /\ EmptySlot.tag = "EMPTY"
    BY DEF EmptySlot, Slots, Tags, Maybe
  <1>1. table \in [Buckets -> Slots] /\ \A b \in Buckets : table[b].tag = "EMPTY"
    BY DEF Init
  <1>2. \A k : \A b \in Buckets : ~ Holds(table, k, b)
    BY <1>1 DEF Holds, Live
  <1>3. Formed(table)
    BY <1>1 DEF Formed, SlotOk, Live
  <1>4. Reached(table)
    BY <1>2 DEF Reached
  <1>5. Typed
    <2>1. rd \in [Readers -> Locals] /\ lookup \in [Readers -> Lookups]
      BY IdleFacts DEF Init
    <2>2. bump \in Nat /\ bump <= ArenaCap
      BY ProbeAssumption DEF Init
    <2> QED
      BY <1>3, <2>1, <2>2 DEF Typed
  <1>6. Aimed
    BY DEF Init, Aimed, IdleWriter
  <1>7. Reading
    BY IdleFacts DEF Init, Reading, Chasing, Counted
  <1>8. Current = [k \in Keys |-> None]
    <2>1. \A k \in Keys : Current[k] = None
      BY <1>2, <1>4, MapFacts DEF Current
    <2> QED
      BY <2>1 DEF Current, MapOf
  <1> QED
    BY <1>4, <1>5, <1>6, <1>7, <1>8 DEF Inv, Map!Init, Map!Resting, Init, Resting

LEMMA NextInv == Inv /\ [Next]_vars => Inv' /\ [Map!Next]_(Map!kvVars)
  <1> SUFFICES ASSUME Inv, [Next]_vars PROVE Inv' /\ [Map!Next]_(Map!kvVars)
    OBVIOUS
  <1>a. ASSUME UNCHANGED <<table, lookup>> PROVE UNCHANGED Map!kvVars
    BY <1>a DEF Map!kvVars, Current
  <1>b. \A k \in Keys, v \in Maybe : Map!Set(k, v) => Map!Next
    BY DEF Map!Next, Map!Entry, Maybe
  <1>c. \A r \in Readers :
           /\ Map!End(r) => Map!Next
           /\ Map!Return(r) => Map!Next
           /\ \A k \in Keys : Map!Begin(r, k) => Map!Next
    BY DEF Map!Next
  <1>1. ASSUME NEW k \in Keys, RemoveRecord(k) PROVE Inv' /\ [Map!Next]_(Map!kvVars)
    BY <1>1, <1>a, RemoveRecordStep
  <1>2. ASSUME NEW k \in Keys, NEW v \in Values, UpdateInline(k, v)
        PROVE Inv' /\ [Map!Next]_(Map!kvVars)
    BY <1>2, <1>b, UpdateInlineStep DEF Maybe
  <1>3. ASSUME NEW k \in Keys, NEW v \in Values, InsertRecord(k, v)
        PROVE Inv' /\ [Map!Next]_(Map!kvVars)
    BY <1>3, <1>a, InsertRecordStep
  <1>4. CASE CommitPut
    BY <1>4, <1>b, CommitPutStep
  <1>5. CASE CommitRemove
    BY <1>5, <1>b, CommitRemoveStep DEF Maybe
  <1>6. CASE WriterDies
    BY <1>6, <1>a, WriterDiesStep
  <1>7. ASSUME NEW r \in Readers, NEW k \in Keys, Get(r, k)
        PROVE Inv' /\ [Map!Next]_(Map!kvVars)
    BY <1>7, <1>c, GetStart
  <1>8. ASSUME NEW r \in Readers, GetStep(r) PROVE Inv' /\ [Map!Next]_(Map!kvVars)
    BY <1>8, <1>a, <1>c, GetStepStep
  <1>9. ASSUME NEW r \in Readers, GetReturn(r) PROVE Inv' /\ [Map!Next]_(Map!kvVars)
    BY <1>9, <1>c, GetReturnStep
  <1>10. ASSUME NEW r \in Readers, Iter(r) \/ IterStep(r) \/ IterEnd(r)
         PROVE Inv' /\ [Map!Next]_(Map!kvVars)
    <2>1. Inv' /\ table' = table
      BY <1>10, IterStart, IterStepStep, IterEndStep
    <2>2. lookup' = lookup
      BY <1>10 DEF Iter, IterStep, IterEnd
    <2> QED
      BY <2>1, <2>2, <1>a
  <1>11. CASE UNCHANGED vars
    <2>1. UNCHANGED <<table, bump, wr, rd, lookup>>
      BY <1>11 DEF vars
    <2>2. Aimed' /\ bump' \in Nat /\ bump' <= ArenaCap
      BY <2>1 DEF Inv, Typed, Aimed
    <2> QED
      BY <2>1, <2>2, <1>a, QuietStep
  <1> HIDE DEF Inv
  <1> QED
    BY <1>1, <1>2, <1>3, <1>4, <1>5, <1>6, <1>7, <1>8, <1>9, <1>10, <1>11 DEF Next, Writer, Reader

LEMMA Invariant == Spec => []Inv
  BY InitInv, NextInv, PTL DEF Spec

\* The table of slots, records and probes implements the map of KvMap: a put or a
\* removal is one step of the map, and a get that walks the slots while the writer
\* changes them returns a value its key had during the call (table.rs:
\* MemhView::get, MemhWriter::insert, MemhWriter::remove).
THEOREM TableImplementsMap == Spec => MapSpec
  <1>1. Init => Map!Init
    BY InitInv
  <1>2. Inv /\ [Next]_vars => [Map!Next]_(Map!kvVars)
    BY NextInv
  <1> QED
    BY <1>1, <1>2, Invariant, PTL DEF Spec, MapSpec, Map!Spec

\* An iteration yields every key that stays in the table exactly once, whatever else
\* is inserted, removed and inserted again meanwhile (table.rs: MemhView::iter).
THEOREM IterationComplete == Spec => []IterComplete
  <1>1. Inv => IterComplete
    <2> SUFFICES ASSUME Inv, NEW r \in Readers, rd[r].op = "iter", rd[r].i = NumBuckets,
                        NEW k \in rd[r].stable
                 PROVE rd[r].got[k] = 1
      BY DEF IterComplete
    <2>1. PICK b \in Buckets : rd[r].got[k] = IF b < rd[r].i THEN 1 ELSE 0
      BY DEF Inv, Reading, Counted
    <2> QED
      BY <2>1, BucketFacts
  <1> HIDE DEF Inv, IterComplete
  <1> QED
    BY <1>1, Invariant, PTL

----------------------------------------------------------------------------
(***************************************************************************)
(* compact.  The copy after n slots holds what those slots hold; as they   *)
(* are fewer than the buckets, it has room for one more.                   *)
(***************************************************************************)
Before(k, n) == \E b \in Buckets : b < n /\ Holds(table, k, b)

CopyOk(tb, n) ==
    /\ Formed(tb) /\ Reached(tb) /\ \A b \in Buckets : tb[b].tag # "TOMBSTONE"
    /\ \A k \in Keys : /\ (\E c \in Buckets : Holds(tb, k, c)) <=> Before(k, n)
                       /\ MapOf(tb)[k] = IF Before(k, n) THEN Current[k] ELSE None

\* What a slot adds to the copy.
Added(tb, n) ==
    IF Yields(n) THEN Inserted(tb, table[n].head.key, ValueOf(table[n])) ELSE tb

\* A probe finds an EMPTY slot if there is one.
LEMMA FullPath ==
  ASSUME NEW tb, NEW k \in Keys, At(tb, k, "EMPTY") = {}
  PROVE \A b \in Buckets : tb[b].tag # "EMPTY"
  <1> DEFINE S == {i \in Buckets : tb[Probe(k, i)].tag = "EMPTY"}
  <1>1. S = {}
    <2> SUFFICES ASSUME S # {} PROVE FALSE
      OBVIOUS
    <2>1. S \in SUBSET Nat
      BY BucketFacts
    <2>2. PICK m \in S : \A x \in S : m <= x
      BY <2>1, Least
    <2>3. \A j \in 0 .. m - 1 : j \in Buckets /\ j \notin S
      <3> SUFFICES ASSUME NEW j \in 0 .. m - 1 PROVE j \in Buckets /\ j \notin S
        OBVIOUS
      <3>1. m \in Nat /\ m < NumBuckets /\ NumBuckets \in Nat
        BY <2>2, BucketFacts
      <3>2. j \in Nat /\ j < m /\ j < NumBuckets
        BY <3>1
      <3> QED
        BY <2>2, <3>1, <3>2, BucketFacts
    <2>4. m \in Path(tb, k)
      BY <2>2, <2>3 DEF Path
    <2> QED
      BY <2>2, <2>4 DEF At
  <1>2. ASSUME NEW b \in Buckets PROVE tb[b].tag # "EMPTY"
    <2>1. PICK i \in Buckets : Probe(k, i) = b
      BY ProbeFacts
    <2> QED
      BY <1>1, <2>1
  <1> QED
    BY <1>2

LEMMA RoomLeft ==
  ASSUME NEW n \in Buckets, NEW tb, CopyOk(tb, n), NEW k \in Keys
  PROVE Target(tb, k) # {}
  <1> SUFFICES ASSUME Target(tb, k) = {} PROVE FALSE
    OBVIOUS
  <1>1. At(tb, k, "EMPTY") = {}
    BY DEF Target
  <1>2. \A b \in Buckets : Live(tb[b]) /\ tb[b].key \in Keys
    <2> SUFFICES ASSUME NEW b \in Buckets PROVE Live(tb[b]) /\ tb[b].key \in Keys
      OBVIOUS
    <2>1. tb[b] \in Slots /\ SlotOk(tb[b], b)
      BY ValueFacts DEF CopyOk
    <2>2. tb[b].tag # "EMPTY" /\ tb[b].tag # "TOMBSTONE"
      BY <1>1, FullPath DEF CopyOk
    <2>3. Live(tb[b])
      BY <2>1, <2>2 DEF Slots, Tags, Live
    <2> QED
      BY <2>1, <2>3 DEF SlotOk
  <1>3. n \in Nat /\ n < NumBuckets /\ NumBuckets \in Nat
    BY BucketFacts
  <1>4. \A b \in Buckets : \E x \in 0 .. n - 1 : Holds(table, tb[b].key, x)
    <2> SUFFICES ASSUME NEW b \in Buckets PROVE \E x \in 0 .. n - 1 : Holds(table, tb[b].key, x)
      OBVIOUS
    <2>1. Holds(tb, tb[b].key, b)
      BY <1>2 DEF Holds
    <2>2. Before(tb[b].key, n)
      BY <1>2, <2>1 DEF CopyOk
    <2>3. PICK x \in Buckets : x < n /\ Holds(table, tb[b].key, x)
      BY <2>2 DEF Before
    <2>4. x \in 0 .. n - 1
      BY <1>3, <2>3, BucketFacts
    <2> QED
      BY <2>3, <2>4
  <1> DEFINE from(b) == CHOOSE x \in 0 .. n - 1 : Holds(table, tb[b].key, x)
             g == [b \in Buckets |-> from(b)]
  <1>5. \A b \in Buckets : from(b) \in 0 .. n - 1 /\ Holds(table, tb[b].key, from(b))
    BY <1>4, Zenon
  <1> HIDE DEF from
  <1>6. g \in [Buckets -> 0 .. n - 1]
    BY <1>5
  <1>7. /\ IsFiniteSet(Buckets) /\ Cardinality(Buckets) = NumBuckets
        /\ IsFiniteSet(0 .. n - 1) /\ Cardinality(0 .. n - 1) = n
    <2>1. 0 \in Int /\ NumBuckets - 1 \in Int /\ n - 1 \in Int
      BY <1>3
    <2>2. /\ IsFiniteSet(0 .. NumBuckets - 1)
          /\ Cardinality(0 .. NumBuckets - 1) =
               IF 0 > NumBuckets - 1 THEN 0 ELSE NumBuckets - 1 - 0 + 1
          /\ IsFiniteSet(0 .. n - 1)
          /\ Cardinality(0 .. n - 1) = IF 0 > n - 1 THEN 0 ELSE n - 1 - 0 + 1
      BY <2>1, FS_Interval
    <2> QED
      BY <1>3, <2>2, BucketFacts DEF Buckets
  <1>8. PICK b, c \in Buckets : b # c /\ g[b] = g[c]
    <2>1. Cardinality(0 .. n - 1) < Cardinality(Buckets)
      BY <1>3, <1>7
    <2> DEFINE T == 0 .. n - 1
    <2>2. IsFiniteSet(Buckets) /\ IsFiniteSet(T) /\ g \in [Buckets -> T]
          /\ Cardinality(T) < Cardinality(Buckets)
      BY <1>6, <1>7, <2>1
    <2> HIDE DEF g, T
    <2> QED
      <3> SUFFICES ASSUME ~ \E b, c \in Buckets : b # c /\ g[b] = g[c]
                   PROVE FALSE
        OBVIOUS
      <3>1. g \in Injection(Buckets, T)
        BY <2>2 DEF Injection, IsInjective
      <3>2. Cardinality(Buckets) <= Cardinality(T)
        BY <2>2, <3>1, FS_Injection
      <3>3. Cardinality(Buckets) \in Nat /\ Cardinality(T) \in Nat
        BY <2>2, FS_CardinalityType
      <3> QED
        BY <2>2, <3>2, <3>3
  <1>9. tb[b].key = tb[c].key
    BY <1>5, <1>8 DEF Holds
  <1>10. Holds(tb, tb[b].key, b) /\ Holds(tb, tb[b].key, c)
    BY <1>2, <1>9 DEF Holds
  <1> QED
    BY <1>2, <1>8, <1>10 DEF CopyOk, Reached

LEMMA EmptyCopy == CopyOk([b \in Buckets |-> EmptySlot], 0)
  <1> DEFINE tb == [b \in Buckets |-> EmptySlot]
  <1>1. EmptySlot \in Slots /\ EmptySlot.tag = "EMPTY"
    BY DEF EmptySlot, Slots, Tags, Maybe
  <1>2. Formed(tb) /\ \A b \in Buckets : tb[b].tag # "TOMBSTONE"
    BY <1>1 DEF Formed, SlotOk, Live
  <1>3. \A k : \A b \in Buckets : ~ Holds(tb, k, b)
    BY <1>1 DEF Holds, Live
  <1> HIDE DEF tb
  <1>4. Reached(tb)
    BY <1>3 DEF Reached
  <1>5. \A k : ~ Before(k, 0)
    BY BucketFacts DEF Before
  <1>6. \A k \in Keys : MapOf(tb)[k] = None
    BY <1>3, <1>4, MapFacts
  <1>7. CopyOk(tb, 0)
    BY <1>2, <1>3, <1>4, <1>5, <1>6 DEF CopyOk
  <1> QED
    BY <1>7 DEF tb

LEMMA BeforeFacts ==
  ASSUME NEW n \in Buckets, NEW k
  PROVE Before(k, n + 1) <=> Before(k, n) \/ Holds(table, k, n)
  <1>1. n \in Nat /\ \A b \in Buckets : b \in Nat /\ (b < n + 1 <=> b < n \/ b = n)
    BY BucketFacts
  <1> QED
    BY <1>1 DEF Before

LEMMA CopyStep ==
  ASSUME Inv, NEW n \in Buckets, NEW tb, CopyOk(tb, n)
  PROVE CopyOk(Added(tb, n), n + 1)
  <1>1. Formed(table) /\ Reached(table) /\ Formed(tb) /\ Reached(tb) /\ tb \in [Buckets -> Slots]
    BY DEF Inv, Typed, CopyOk, Formed
  <1>2. CASE ~ Yields(n)
    <2>1. Added(tb, n) = tb
      BY <1>2 DEF Added
    <2>2. \A k \in Keys : ~ Holds(table, k, n)
      BY <1>1, <1>2, YieldFacts
    <2>3. \A k \in Keys : Before(k, n + 1) <=> Before(k, n)
      BY <2>2, BeforeFacts
    <2> QED
      BY <2>1, <2>3 DEF CopyOk
  <1>3. CASE Yields(n)
    <2> DEFINE k == table[n].head.key
               v == ValueOf(table[n])
               idx == CHOOSE b \in Target(tb, k) : TRUE
               tag == IF v \in Scalars THEN "INLINE" ELSE "OCCUPIED"
               s == [tag |-> tag, key |-> k, head |-> Record(Flag(v), idx, k, v),
                     val |-> IF v \in Scalars THEN v ELSE None]
               tb2 == [tb EXCEPT ![idx] = s]
    <2>1. Added(tb, n) = tb2
      BY <1>3 DEF Added, Inserted
    <2>2. k \in Keys /\ Holds(table, k, n) /\ v \in Values /\ Current[k] = v
      BY <1>1, <1>3, YieldFacts, MapFacts DEF Current
    <2>3. idx \in Target(tb, k)
      <3>1. Target(tb, k) # {}
        BY <2>2, RoomLeft
      <3> QED
        BY <3>1, Zenon
    <2> HIDE DEF idx, k, v
    <2>4. idx \in Buckets
      BY <1>1, <2>2, <2>3, TargetFacts
    <2>5. s \in Slots /\ SlotOk(s, idx) /\ Live(s) /\ s.key = k /\ ValueOf(s) = v
      <3>1. EmptySlot \in Slots /\ ~ Live(EmptySlot)
        BY DEF EmptySlot, Slots, Tags, Maybe, Live
      <3>2. s = [tag |-> tag, key |-> k, head |-> Record(Flag(v), idx, k, v),
                 val |-> IF tag = "INLINE" THEN v
                         ELSE IF Live(EmptySlot) THEN EmptySlot.val ELSE None]
        BY <3>1
      <3> QED
        BY <2>2, <2>4, <3>1, <3>2, PutSlot
    <2>6. s.tag # "TOMBSTONE"
      OBVIOUS
    <2> HIDE DEF s
    <2>7. Writes(tb, idx, s, tb2) /\ Formed(tb2) /\ \A b \in Buckets : tb2[b].tag # "TOMBSTONE"
      BY <1>1, <2>4, <2>5, <2>6 DEF Writes, Formed, CopyOk
    <2> HIDE DEF tb2
    <2>8. /\ Reached(tb2)
          /\ \A b \in Buckets : Holds(tb2, k, b) <=> b = idx
          /\ \A kk \in Keys \ {k}, b \in Buckets : Holds(tb2, kk, b) <=> Holds(tb, kk, b)
          /\ MapOf(tb2) = [MapOf(tb) EXCEPT ![k] = ValueOf(s)]
      BY <1>1, <2>2, <2>3, <2>5, <2>7, PutFacts
    <2>9. MapOf(tb2)[k] = v /\ \A kk \in Keys \ {k} : MapOf(tb2)[kk] = MapOf(tb)[kk]
      BY <2>2, <2>5, <2>8 DEF MapOf
    <2>10. Before(k, n + 1) /\ \A kk \in Keys \ {k} : Before(kk, n + 1) <=> Before(kk, n)
      <3>1. \A kk \in Keys \ {k} : ~ Holds(table, kk, n)
        BY <2>2 DEF Holds
      <3> QED
        BY <2>2, <3>1, BeforeFacts
    <2>11. ASSUME NEW kk \in Keys
           PROVE /\ (\E c \in Buckets : Holds(tb2, kk, c)) <=> Before(kk, n + 1)
                 /\ MapOf(tb2)[kk] = IF Before(kk, n + 1) THEN Current[kk] ELSE None
      <3>1. CASE kk = k
        BY <2>2, <2>4, <2>8, <2>9, <2>10, <3>1
      <3>2. CASE kk # k
        BY <2>8, <2>9, <2>10, <3>2 DEF CopyOk
      <3> QED
        BY <3>1, <3>2
    <2> QED
      BY <2>1, <2>7, <2>8, <2>11 DEF CopyOk
  <1> QED
    BY <1>2, <1>3

\* The copying is a function: for every number of slots there is one that agrees
\* with the recursion so far, or there were a least number without.
LEMMA CopiedFacts ==
  /\ Copied[0] = [b \in Buckets |-> EmptySlot]
  /\ \A n \in Buckets : Copied[n + 1] = Added(Copied[n], n)
  <1> DEFINE E == [b \in Buckets |-> EmptySlot]
             Upto(f, n) == /\ DOMAIN f = 0 .. n /\ f[0] = E
                           /\ \A m \in 1 .. n : f[m] = Added(f[m - 1], m - 1)
             S == {n \in 0 .. NumBuckets : ~ \E f : Upto(f, n)}
  <1>1. NumBuckets \in Nat
    BY BucketFacts
  <1> HIDE DEF E
  <1>2. S = {}
    <2> SUFFICES ASSUME S # {} PROVE FALSE
      OBVIOUS
    <2>1. S \in SUBSET Nat
      BY <1>1
    <2>2. PICK n \in S : \A x \in S : n <= x
      BY <2>1, Least
    <2>3. n \in Nat /\ n <= NumBuckets
      BY <1>1, <2>2
    <2>4. CASE n = 0
      <3> DEFINE f == [m \in 0 .. 0 |-> E]
      <3>1. Upto(f, 0)
        OBVIOUS
      <3> QED
        BY <2>2, <2>4, <3>1
    <2>5. CASE n # 0
      <3>1. n - 1 \in 0 .. NumBuckets /\ n - 1 < n
        BY <1>1, <2>3, <2>5
      <3>2. n - 1 \notin S
        BY <2>2, <2>3, <3>1
      <3>3. PICK f : Upto(f, n - 1)
        BY <3>1, <3>2
      <3> DEFINE g == [m \in 0 .. n |-> IF m < n THEN f[m] ELSE Added(f[n - 1], n - 1)]
      <3>4. DOMAIN g = 0 .. n /\ g[0] = E
        BY <2>3, <2>5, <3>3
      <3>5. ASSUME NEW m \in 1 .. n PROVE g[m] = Added(g[m - 1], m - 1)
        <4>1. m \in Nat /\ m - 1 \in 0 .. n /\ m \in 0 .. n /\ m - 1 < n
          BY <2>3
        <4>2. g[m - 1] = f[m - 1]
          BY <4>1
        <4>3. CASE m < n
          <5>1. m \in 1 .. n - 1 /\ g[m] = f[m]
            BY <2>3, <4>1, <4>3
          <5> QED
            BY <3>3, <4>2, <5>1
        <4>4. CASE m = n
          <5>1. g[m] = Added(f[n - 1], n - 1)
            BY <2>3, <4>1, <4>4
          <5> QED
            BY <4>2, <4>4, <5>1
        <4> QED
          BY <2>3, <4>1, <4>3, <4>4
      <3> HIDE DEF g
      <3>6. Upto(g, n)
        BY <3>4, <3>5
      <3> QED
        BY <2>2, <3>6
    <2> QED
      BY <2>4, <2>5
  <1>3. PICK f : Upto(f, NumBuckets)
    BY <1>1, <1>2
  <1> DEFINE body(h, n) ==
               IF n = 0 THEN [b \in Buckets |-> EmptySlot]
               ELSE IF Yields(n - 1)
                 THEN Inserted(h[n - 1], table[n - 1].head.key, ValueOf(table[n - 1]))
                 ELSE h[n - 1]
  <1>4. \A h, n : body(h, n) = IF n = 0 THEN E ELSE Added(h[n - 1], n - 1)
    BY DEF Added, E
  <1>5. \E h : h = [n \in 0 .. NumBuckets |-> body(h, n)]
    <2> HIDE DEF body
    <2> DEFINE h == [n \in 0 .. NumBuckets |-> f[n]]
    <2>1. ASSUME NEW n \in 0 .. NumBuckets PROVE h[n] = body(h, n)
      <3>1. CASE n = 0
        BY <1>1, <1>3, <1>4, <3>1
      <3>2. CASE n # 0
        <4>1. n \in 1 .. NumBuckets /\ n - 1 \in 0 .. NumBuckets
          BY <1>1, <3>2
        <4>2. h[n] = f[n] /\ h[n - 1] = f[n - 1]
          BY <4>1
        <4> HIDE DEF h
        <4> QED
          BY <1>3, <1>4, <3>2, <4>1, <4>2
      <3> QED
        BY <3>1, <3>2
    <2>2. DOMAIN h = 0 .. NumBuckets /\ h = [n \in 0 .. NumBuckets |-> h[n]]
      OBVIOUS
    <2> HIDE DEF h
    <2>3. h = [n \in 0 .. NumBuckets |-> body(h, n)]
      BY <2>1, <2>2
    <2> QED
      BY <2>3
  <1>6. Copied = [n \in 0 .. NumBuckets |-> body(Copied, n)]
    BY <1>5, Zenon DEF Copied
  <1> HIDE DEF body
  <1>7. \A n \in 0 .. NumBuckets : Copied[n] = IF n = 0 THEN E ELSE Added(Copied[n - 1], n - 1)
    <2> DEFINE c == Copied
    <2>1. \A n \in 0 .. NumBuckets : c[n] = body(c, n)
      <3> HIDE DEF c
      <3>1. c = [n \in 0 .. NumBuckets |-> body(c, n)]
        BY <1>6 DEF c
      <3> QED
        BY <3>1, Zenon
    <2> QED
      BY <1>4, <2>1
  <1>8. Copied[0] = E
    BY <1>1, <1>7
  <1>9. ASSUME NEW n \in Buckets PROVE Copied[n + 1] = Added(Copied[n], n)
    <2>1. n \in Nat /\ n + 1 \in 0 .. NumBuckets /\ n + 1 # 0 /\ n + 1 - 1 = n
      BY BucketFacts
    <2> QED
      BY <1>7, <2>1
  <1> QED
    BY <1>8, <1>9 DEF E

LEMMA CopiesOk ==
  ASSUME Inv
  PROVE \A n \in 0 .. NumBuckets : CopyOk(Copied[n], n)
  <1> DEFINE S == {n \in 0 .. NumBuckets : ~ CopyOk(Copied[n], n)}
  <1>1. NumBuckets \in Nat
    BY BucketFacts
  <1>2. S = {}
    <2> SUFFICES ASSUME S # {} PROVE FALSE
      OBVIOUS
    <2>1. S \in SUBSET Nat
      BY <1>1
    <2>2. PICK n \in S : \A x \in S : n <= x
      BY <2>1, Least
    <2>3. n \in Nat /\ n <= NumBuckets
      BY <1>1, <2>2
    <2>4. CASE n = 0
      BY <2>2, <2>4, CopiedFacts, EmptyCopy
    <2>5. CASE n # 0
      <3>1. n - 1 \in 0 .. NumBuckets /\ n - 1 < n /\ n - 1 \in Buckets /\ n - 1 + 1 = n
        BY <1>1, <2>3, <2>5, BucketFacts
      <3>2. CopyOk(Copied[n - 1], n - 1)
        BY <2>2, <2>3, <3>1
      <3>3. Copied[n - 1 + 1] = Added(Copied[n - 1], n - 1)
        BY <3>1, CopiedFacts
      <3>4. CopyOk(Copied[n], n)
        BY <3>1, <3>2, <3>3, CopyStep
      <3> QED
        BY <2>2, <3>4
    <2> QED
      BY <2>4, <2>5
  <1> QED
    BY <1>2

\* Whatever was inserted and removed, with the arena full and after crashes: a key has
\* at most one live slot, which its probe path reaches; opening the table accepts it;
\* and compact's copy has the same value for every key (table.rs: insert_locked,
\* remove_locked, validate_memh, compact).
THEOREM TableStaysSound == Spec => []TableSound
  <1>1. Inv => OneSlot
    <2> SUFFICES ASSUME Inv PROVE OneSlot
      OBVIOUS
    <2>1. \A b \in Buckets : Live(table[b]) =>
             table[b].key \in Keys /\ Holds(table, table[b].key, b)
      BY ValueFacts DEF Inv, Typed, SlotOk, Holds
    <2>2. \A b, c \in Buckets :
             Live(table[b]) /\ Live(table[c]) /\ table[b].key = table[c].key => b = c
      BY <2>1 DEF Inv, Reached
    <2>3. \A b \in Buckets : Live(table[b]) =>
             \E i \in Path(table, table[b].key) : Probe(table[b].key, i) = b
      BY <2>1 DEF Inv, Reached
    <2> QED
      BY <2>2, <2>3 DEF OneSlot
  <1>2. Inv => Validates
    <2> SUFFICES ASSUME Inv, NEW b \in Buckets
                 PROVE \/ table[b].tag = "EMPTY"
                       \/ table[b].tag = "TOMBSTONE" /\ table[b].head = NoRecord
                       \/ table[b].head.idx = b /\ table[b].head.key = table[b].key
      BY DEF Validates, Inv, Typed
    <2>1. table[b] \in Slots /\ SlotOk(table[b], b)
      BY ValueFacts DEF Inv, Typed
    <2> QED
      BY <2>1 DEF Slots, Tags, SlotOk, Live
  <1>3. Inv => CompactKeeps
    <2> SUFFICES ASSUME Inv PROVE CompactKeeps
      OBVIOUS
    <2>1. CopyOk(Compacted, NumBuckets)
      BY CopiesOk, BucketFacts DEF Compacted
    <2>2. \A k \in Keys : MapOf(Compacted)[k] = Current[k]
      <3> SUFFICES ASSUME NEW k \in Keys PROVE MapOf(Compacted)[k] = Current[k]
        OBVIOUS
      <3>1. CASE Before(k, NumBuckets)
        BY <2>1, <3>1 DEF CopyOk
      <3>2. CASE ~ Before(k, NumBuckets)
        <4>1. \A b \in Buckets : ~ Holds(table, k, b)
          BY <3>2, BucketFacts DEF Before
        <4>2. Current[k] = None
          BY <4>1, MapTyped
        <4> QED
          BY <2>1, <3>2, <4>2 DEF CopyOk
      <3> QED
        BY <3>1, <3>2
    <2>3. /\ MapOf(Compacted) = [k \in Keys |-> MapOf(Compacted)[k]]
          /\ Current = [k \in Keys |-> Current[k]]
      BY DEF MapOf, Current
    <2> QED
      BY <2>2, <2>3 DEF CompactKeeps
  <1> HIDE DEF Inv, OneSlot, Validates, CompactKeeps
  <1> QED
    BY <1>1, <1>2, <1>3, Invariant, PTL DEF TableSound
=============================================================================
