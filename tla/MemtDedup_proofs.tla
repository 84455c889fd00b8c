-------------------------- MODULE MemtDedup_proofs --------------------------
(***************************************************************************)
(* Proofs about the contents of a MEMT chunk: rows decode to what was      *)
(* written, and readers get them, for every schema, chunk size and set of  *)
(* strings, every hash with all its collisions and every set of readers.   *)
(***************************************************************************)
EXTENDS MemtDedup, FiniteSetTheorems, SequenceTheorems, WellFoundedInduction, TLAPS

----------------------------------------------------------------------------
(***************************************************************************)
(* How strings, columns, rows and chunks lie in the cells m.               *)
(***************************************************************************)
\* String v with its length prefix, from offset o and below lim.
Stands(m, o, v, lim) ==
    /\ o \in Nat /\ HeaderSize <= o /\ v \in Seq(Nat) /\ o + 1 + Len(v) <= lim
    /\ m[o] = Len(v) /\ \A i \in 1 .. Len(v) : m[o + i] = v[i]

\* A column of the row that starts at s: the string, or a reference to one before s.
ColAt(m, o, v, s, next) ==
    \/ next = o + 1 + Len(v) /\ Stands(m, o, v, next)
    \/ next = o + 1 /\ m[o] \in Int /\ m[o] < 0 /\ Stands(m, -m[o], v, s)

Rises(f, n) == \A i, j \in 1 .. n : i < j => f[i] < f[j]

\* The columns at p of a row that starts at s, up to e.
Laid(m, p, vals, s, e) ==
    /\ p \in [1 .. Len(vals) + 1 -> Nat] /\ p[1] = s + 1 /\ p[Len(vals) + 1] = e
    /\ Rises(p, Len(vals) + 1)
    /\ \A j \in 1 .. Len(vals) : ColAt(m, p[j], vals[j], s, p[j + 1])

Row(m, s, vals, e) ==
    /\ s \in Nat /\ HeaderSize <= s /\ m[s] = e - s - 1
    /\ vals \in Seq(Seq(Nat)) /\ \E p : Laid(m, p, vals, s, e)

\* The rows at the offsets at, of n columns each, up to e.
Filled(m, at, rs, e, n) ==
    /\ rs \in Seq(Seq(Seq(Nat)))
    /\ at \in [1 .. Len(rs) + 1 -> Nat] /\ at[1] = HeaderSize /\ at[Len(rs) + 1] = e
    /\ Rises(at, Len(rs) + 1)
    /\ \A i \in 1 .. Len(rs) : Len(rs[i]) = n /\ Row(m, at[i], rs[i], at[i + 1])

\* A dictionary entry: what looks like a string, below lim.
Known(m, o, lim) == o \in Nat /\ HeaderSize <= o /\ m[o] \in Nat /\ o + 1 + m[o] <= lim

\* The cells below e are the same, but for the one at s.
Agree(m, m2, e) == \A o \in Nat : HeaderSize <= o /\ o < e => m2[o] = m[o]
AgreeBut(m, m2, s, e) == \A o \in Nat : HeaderSize <= o /\ o < e /\ o # s => m2[o] = m[o]

LEMMA HeaderFact == HeaderSize \in Nat /\ HeaderSize > 0
  BY DedupAssumption

LEMMA RiseFacts ==
  ASSUME NEW n \in Nat, NEW f \in [1 .. n + 1 -> Nat], Rises(f, n + 1)
  PROVE  /\ \A i \in 1 .. n + 1 : f[i] \in Nat /\ f[1] <= f[i] /\ f[i] <= f[n + 1]
         /\ \A i \in 1 .. n : f[i] \in Nat /\ f[i + 1] \in Nat /\ f[i] < f[i + 1]
  <1>1. \A i, j \in 1 .. n + 1 : i < j => f[i] < f[j]
    BY DEF Rises
  <1>2. ASSUME NEW i \in 1 .. n + 1 PROVE f[i] \in Nat /\ f[1] <= f[i] /\ f[i] <= f[n + 1]
    <2>1. 1 \in 1 .. n + 1 /\ n + 1 \in 1 .. n + 1
      OBVIOUS
    <2>2. f[i] \in Nat /\ f[1] \in Nat /\ f[n + 1] \in Nat
      BY <2>1
    <2>3. f[1] <= f[i]
      BY <1>1, <2>1, <2>2
    <2>4. f[i] <= f[n + 1]
      BY <1>1, <2>1, <2>2
    <2> QED
      BY <2>2, <2>3, <2>4
  <1>3. ASSUME NEW i \in 1 .. n PROVE f[i] \in Nat /\ f[i + 1] \in Nat /\ f[i] < f[i + 1]
    <2>1. i \in 1 .. n + 1 /\ i + 1 \in 1 .. n + 1 /\ i < i + 1
      OBVIOUS
    <2> QED
      BY <1>1, <2>1
  <1> QED
    BY <1>2, <1>3

Extended(f, n, next) == [j \in 1 .. n + 2 |-> IF j <= n + 1 THEN f[j] ELSE next]

LEMMA RiseMore ==
  ASSUME NEW n \in Nat, NEW f \in [1 .. n + 1 -> Nat], NEW next \in Nat, Rises(f, n + 1),
         f[n + 1] < next
  PROVE  /\ Extended(f, n, next) \in [1 .. n + 2 -> Nat] /\ Rises(Extended(f, n, next), n + 2)
         /\ Extended(f, n, next)[n + 2] = next
         /\ \A j \in 1 .. n + 1 : Extended(f, n, next)[j] = f[j]
  <1> DEFINE q == Extended(f, n, next)
  <1>1. /\ q \in [1 .. n + 2 -> Nat] /\ q[n + 2] = next
        /\ \A j \in 1 .. n + 1 : q[j] = f[j]
    BY DEF Extended
  <1>2. \A i \in 1 .. n + 1 : f[i] \in Nat /\ f[i] <= f[n + 1]
    BY RiseFacts
  <1>3. \A i, j \in 1 .. n + 1 : i < j => f[i] < f[j]
    BY DEF Rises
  <1> HIDE DEF q
  <1>4. ASSUME NEW i \in 1 .. n + 2, NEW j \in 1 .. n + 2, i < j PROVE q[i] < q[j]
    <2>1. i \in 1 .. n + 1 /\ n + 1 \in 1 .. n + 1
      BY <1>4
    <2>2. q[i] = f[i]
      BY <1>1, <2>1
    <2>3. CASE j = n + 2
      BY <1>1, <1>2, <2>1, <2>2, <2>3
    <2>4. CASE j # n + 2
      <3>1. j \in 1 .. n + 1
        BY <2>4
      <3> QED
        BY <1>1, <1>3, <1>4, <2>1, <2>2, <3>1
    <2> QED
      BY <2>3, <2>4
  <1>5. Rises(q, n + 2)
    BY <1>4 DEF Rises
  <1> QED
    BY <1>1, <1>5 DEF q

LEMMA StandsKept ==
  ASSUME NEW m, NEW m2, NEW o, NEW v, NEW lim \in Int, NEW s, NEW e \in Int,
         Stands(m, o, v, lim), AgreeBut(m, m2, s, e), lim <= e, s \in Int, s < o \/ lim <= s
  PROVE  Stands(m2, o, v, lim)
  <1>1. o \in Nat /\ HeaderSize <= o /\ v \in Seq(Nat) /\ Len(v) \in Nat /\ o + 1 + Len(v) <= lim
    BY DEF Stands
  <1>2. m2[o] = m[o]
    BY <1>1 DEF AgreeBut
  <1>3. ASSUME NEW i \in 1 .. Len(v) PROVE m2[o + i] = m[o + i]
    <2>1. i \in Nat /\ o + i \in Nat /\ HeaderSize <= o + i /\ o + i < e /\ o + i # s
      BY <1>1, HeaderFact
    <2> QED
      BY <2>1 DEF AgreeBut
  <1> QED
    BY <1>1, <1>2, <1>3 DEF Stands

LEMMA ColKept ==
  ASSUME NEW m, NEW m2, NEW o \in Nat, NEW v, NEW s \in Nat, NEW next \in Nat, NEW e \in Int,
         ColAt(m, o, v, s, next), AgreeBut(m, m2, s, e), HeaderSize <= s, s < o, next <= e, o < next
  PROVE  ColAt(m2, o, v, s, next)
  <1>1. CASE next = o + 1 + Len(v) /\ Stands(m, o, v, next)
    BY <1>1, StandsKept DEF ColAt
  <1>2. CASE next = o + 1 /\ m[o] \in Int /\ m[o] < 0 /\ Stands(m, -m[o], v, s)
    <2>1. m2[o] = m[o]
      BY HeaderFact DEF AgreeBut
    <2>2. Stands(m2, -m[o], v, s)
      BY <1>2, StandsKept
    <2> QED
      BY <1>2, <2>1, <2>2 DEF ColAt
  <1> QED
    BY <1>1, <1>2 DEF ColAt

\* What has been laid stays when the cells behind it change, or the row's length.
LEMMA LaidKept ==
  ASSUME NEW m, NEW m2, NEW p, NEW vals, NEW s \in Nat, NEW e \in Nat, NEW lim \in Int,
         vals \in Seq(Seq(Nat)), Laid(m, p, vals, s, e), AgreeBut(m, m2, s, lim), HeaderSize <= s,
         e <= lim
  PROVE  Laid(m2, p, vals, s, e)
  <1>1. Len(vals) \in Nat /\ p \in [1 .. Len(vals) + 1 -> Nat] /\ Rises(p, Len(vals) + 1)
        /\ p[1] = s + 1 /\ p[Len(vals) + 1] = e
    BY DEF Laid
  <1>2. ASSUME NEW j \in 1 .. Len(vals) PROVE ColAt(m2, p[j], vals[j], s, p[j + 1])
    <2>1. j \in 1 .. Len(vals) + 1 /\ j + 1 \in 1 .. Len(vals) + 1
      BY <1>1
    <2>2. p[j] \in Nat /\ p[j + 1] \in Nat /\ p[j] < p[j + 1]
      BY <1>1, RiseFacts
    <2>3. p[1] <= p[j] /\ p[j + 1] <= p[Len(vals) + 1]
      BY <1>1, <2>1, RiseFacts
    <2>4. s < p[j] /\ p[j + 1] <= lim
      BY <1>1, <2>2, <2>3
    <2>5. ColAt(m, p[j], vals[j], s, p[j + 1])
      BY DEF Laid
    <2> QED
      BY <2>2, <2>4, <2>5, ColKept
  <1> QED
    BY <1>1, <1>2 DEF Laid

\* One more column.
LEMMA LaidMore ==
  ASSUME NEW m, NEW p, NEW vals \in Seq(Seq(Nat)), NEW s \in Nat, NEW e \in Nat, NEW v \in Seq(Nat),
         NEW next \in Nat, Laid(m, p, vals, s, e), ColAt(m, e, v, s, next), e < next
  PROVE  \E q : Laid(m, q, Append(vals, v), s, next)
  <1> DEFINE ws == Append(vals, v)
  <1>0. PICK n \in Nat : n = Len(vals)
    OBVIOUS
  <1>1. p \in [1 .. n + 1 -> Nat] /\ p[1] = s + 1 /\ p[n + 1] = e /\ Rises(p, n + 1)
    BY <1>0 DEF Laid
  <1>2. Len(ws) = n + 1 /\ ws[n + 1] = v /\ \A j \in 1 .. n : ws[j] = vals[j]
    BY <1>0
  <1> DEFINE q == Extended(p, n, next)
  <1>3. /\ q \in [1 .. n + 2 -> Nat] /\ Rises(q, n + 2) /\ q[n + 2] = next
        /\ \A j \in 1 .. n + 1 : q[j] = p[j]
    <2>1. p[n + 1] < next
      BY <1>1
    <2>2. q \in [1 .. n + 2 -> Nat] /\ Rises(q, n + 2)
      BY <1>1, <2>1, RiseMore
    <2>3. q[n + 2] = next
      BY <1>1, <2>1, RiseMore
    <2>4. \A j \in 1 .. n + 1 : q[j] = p[j]
      BY DEF Extended
    <2> QED
      BY <2>2, <2>3, <2>4
  <1> HIDE DEF q
  <1>4. q[1] = s + 1
    BY <1>1, <1>3
  <1>5. ASSUME NEW j \in 1 .. n + 1 PROVE ColAt(m, q[j], ws[j], s, q[j + 1])
    <2>1. CASE j = n + 1
      <3>1. j + 1 = n + 2
        BY <1>1, <2>1
      <3>2. q[j] = e /\ ws[j] = v
        BY <1>1, <1>2, <1>3, <2>1
      <3> QED
        BY <1>3, <3>1, <3>2
    <2>2. CASE j # n + 1
      <3>1. j \in 1 .. n /\ j + 1 \in 1 .. n + 1
        BY <1>1, <2>2
      <3>2. q[j] = p[j] /\ q[j + 1] = p[j + 1] /\ ws[j] = vals[j]
        BY <1>2, <1>3, <3>1
      <3> QED
        BY <1>0, <3>1, <3>2 DEF Laid
    <2> QED
      BY <2>1, <2>2
  <1>6. Len(ws) + 1 = n + 2
    BY <1>1, <1>2
  <1> HIDE DEF ws
  <1>7. Laid(m, q, ws, s, next)
    BY <1>2, <1>3, <1>4, <1>5, <1>6 DEF Laid
  <1> QED
    BY <1>7 DEF ws

LEMMA FilledFacts ==
  ASSUME NEW m, NEW at, NEW rs, NEW e, NEW n, Filled(m, at, rs, e, n)
  PROVE  /\ Len(rs) \in Nat /\ e \in Nat /\ HeaderSize <= e
         /\ \A i \in 1 .. Len(rs) :
              /\ at[i] \in Nat /\ at[i + 1] \in Nat /\ HeaderSize <= at[i] /\ at[i] < at[i + 1]
              /\ at[i + 1] <= e /\ rs[i] \in Seq(Seq(Nat))
  <1>1. /\ rs \in Seq(Seq(Seq(Nat))) /\ Len(rs) \in Nat
        /\ at \in [1 .. Len(rs) + 1 -> Nat] /\ at[1] = HeaderSize /\ at[Len(rs) + 1] = e
        /\ Rises(at, Len(rs) + 1)
    BY DEF Filled
  <1>2. e \in Nat /\ HeaderSize <= e
    <2>1. Len(rs) + 1 \in 1 .. Len(rs) + 1
      BY <1>1
    <2> QED
      BY <1>1, <2>1, RiseFacts
  <1>3. ASSUME NEW i \in 1 .. Len(rs)
        PROVE  /\ at[i] \in Nat /\ at[i + 1] \in Nat /\ HeaderSize <= at[i] /\ at[i] < at[i + 1]
               /\ at[i + 1] <= e /\ rs[i] \in Seq(Seq(Nat))
    <2>1. i \in 1 .. Len(rs) + 1 /\ i + 1 \in 1 .. Len(rs) + 1
      BY <1>1
    <2>2. at[i] \in Nat /\ at[1] <= at[i] /\ at[i + 1] <= at[Len(rs) + 1]
      BY <1>1, <2>1, RiseFacts
    <2>3. at[i + 1] \in Nat /\ at[i] < at[i + 1]
      BY <1>1, RiseFacts
    <2> QED
      BY <1>1, <2>2, <2>3
  <1> QED
    BY <1>1, <1>2, <1>3

\* Rows stay when the cells behind them change.
LEMMA FilledKept ==
  ASSUME NEW m, NEW m2, NEW at, NEW rs, NEW e, NEW n, NEW lim \in Int,
         Filled(m, at, rs, e, n), Agree(m, m2, lim), e <= lim
  PROVE  Filled(m2, at, rs, e, n)
  <1>1. ASSUME NEW i \in 1 .. Len(rs) PROVE Row(m2, at[i], rs[i], at[i + 1])
    <2>1. /\ e \in Nat /\ at[i] \in Nat /\ at[i + 1] \in Nat /\ HeaderSize <= at[i]
          /\ at[i] < at[i + 1] /\ at[i + 1] <= e /\ rs[i] \in Seq(Seq(Nat))
      BY FilledFacts
    <2>2. Row(m, at[i], rs[i], at[i + 1])
      BY DEF Filled
    <2>3. PICK p : Laid(m, p, rs[i], at[i], at[i + 1])
      BY <2>2 DEF Row
    <2>4. AgreeBut(m, m2, at[i], lim) /\ m2[at[i]] = m[at[i]]
      BY <2>1 DEF Agree, AgreeBut
    <2>5. Laid(m2, p, rs[i], at[i], at[i + 1])
      BY <2>1, <2>3, <2>4, LaidKept
    <2> QED
      BY <2>2, <2>4, <2>5 DEF Row
  <1> QED
    BY <1>1 DEF Filled

\* One more row.
LEMMA FilledMore ==
  ASSUME NEW m, NEW at, NEW rs, NEW e, NEW n, NEW vals \in Seq(Seq(Nat)), NEW next \in Nat,
         Filled(m, at, rs, e, n), Row(m, e, vals, next), e < next, Len(vals) = n
  PROVE  \E at2 : Filled(m, at2, Append(rs, vals), next, n)
  <1> DEFINE ws == Append(rs, vals)
  <1>0. PICK k \in Nat : k = Len(rs)
    BY FilledFacts
  <1>1. /\ rs \in Seq(Seq(Seq(Nat))) /\ e \in Nat
        /\ at \in [1 .. k + 1 -> Nat] /\ at[1] = HeaderSize /\ at[k + 1] = e /\ Rises(at, k + 1)
    BY <1>0, FilledFacts DEF Filled
  <1>2. /\ Len(ws) = k + 1 /\ ws[k + 1] = vals /\ \A j \in 1 .. k : ws[j] = rs[j]
        /\ ws \in Seq(Seq(Seq(Nat)))
    BY <1>0, <1>1
  <1> DEFINE q == Extended(at, k, next)
  <1>3. /\ q \in [1 .. k + 2 -> Nat] /\ Rises(q, k + 2) /\ q[k + 2] = next
        /\ \A j \in 1 .. k + 1 : q[j] = at[j]
    <2>1. at[k + 1] < next
      BY <1>1
    <2>2. q \in [1 .. k + 2 -> Nat] /\ Rises(q, k + 2)
      BY <1>1, <2>1, RiseMore
    <2>3. q[k + 2] = next
      BY <1>1, <2>1, RiseMore
    <2>4. \A j \in 1 .. k + 1 : q[j] = at[j]
      BY DEF Extended
    <2> QED
      BY <2>2, <2>3, <2>4
  <1> HIDE DEF q
  <1>4. q[1] = HeaderSize
    BY <1>1, <1>3
  <1>5. ASSUME NEW j \in 1 .. k + 1 PROVE Len(ws[j]) = n /\ Row(m, q[j], ws[j], q[j + 1])
    <2>1. CASE j = k + 1
      <3>1. j + 1 = k + 2
        BY <1>1, <2>1
      <3>2. q[j] = e /\ ws[j] = vals
        BY <1>1, <1>2, <1>3, <2>1
      <3> QED
        BY <1>3, <3>1, <3>2
    <2>2. CASE j # k + 1
      <3>1. j \in 1 .. k /\ j + 1 \in 1 .. k + 1
        BY <1>1, <2>2
      <3>2. q[j] = at[j] /\ q[j + 1] = at[j + 1] /\ ws[j] = rs[j]
        BY <1>2, <1>3, <3>1
      <3> QED
        BY <1>0, <3>1, <3>2 DEF Filled
    <2> QED
      BY <2>1, <2>2
  <1>6. Len(ws) + 1 = k + 2
    BY <1>1, <1>2
  <1> HIDE DEF ws
  <1>7. Filled(m, q, ws, next, n)
    BY <1>2, <1>3, <1>4, <1>5, <1>6 DEF Filled
  <1> QED
    BY <1>7 DEF ws

\* An empty chunk, and a row without columns.
LEMMA FilledNone ==
  ASSUME NEW m, NEW n PROVE \E at : Filled(m, at, <<>>, HeaderSize, n)
  <1> DEFINE at == [i \in 1 .. 1 |-> HeaderSize]
  <1>1. Len(<<>>) = 0 /\ <<>> \in Seq(Seq(Seq(Nat))) /\ 1 .. 0 = {} /\ 0 + 1 = 1
    OBVIOUS
  <1>2. at \in [1 .. 1 -> Nat] /\ at[1] = HeaderSize /\ Rises(at, 1)
    BY HeaderFact DEF Rises
  <1> HIDE DEF at
  <1>3. Filled(m, at, <<>>, HeaderSize, n)
    BY <1>1, <1>2 DEF Filled
  <1> QED
    BY <1>3

LEMMA LaidNone ==
  ASSUME NEW m, NEW s \in Nat PROVE \E p : Laid(m, p, <<>>, s, s + 1)
  <1> DEFINE p == [i \in 1 .. 1 |-> s + 1]
  <1>1. Len(<<>>) = 0 /\ 1 .. 0 = {} /\ 0 + 1 = 1
    OBVIOUS
  <1>2. p \in [1 .. 1 -> Nat] /\ p[1] = s + 1 /\ Rises(p, 1)
    BY DEF Rises
  <1> HIDE DEF p
  <1>3. Laid(m, p, <<>>, s, s + 1)
    BY <1>1, <1>2 DEF Laid
  <1> QED
    BY <1>3

\* A set of naturals that is not empty has a least element: of the sets of its
\* elements up to one of them, some is minimal.
LEMMA Least ==
  ASSUME NEW S \in SUBSET Nat, S # {}
  PROVE \E m \in S : \A x \in S : m <= x
  <1> DEFINE Upto(x) == {y \in S : y <= x}
             T == {Upto(x) : x \in S}
             R == StrictSubsetOrdering(S)
  <1>1. \A x \in S : Upto(x) \in FiniteSubsetsOf(S)
    <2> SUFFICES ASSUME NEW x \in S PROVE Upto(x) \in FiniteSubsetsOf(S)
      OBVIOUS
    <2>1. Upto(x) \in SUBSET Nat /\ x \in Nat /\ \A y \in Upto(x) : y <= x
      OBVIOUS
    <2>2. IsFiniteSet(Upto(x))
      BY <2>1, FS_BoundedSetOfNaturals
    <2> QED
      BY <2>2 DEF FiniteSubsetsOf
  <1>2. T \subseteq FiniteSubsetsOf(S) /\ T # {}
    BY <1>1
  <1>3. IsWellFoundedOn(R, FiniteSubsetsOf(S))
    BY FS_StrictSubsetOrderingWellFounded
  <1> HIDE DEF R, T
  <1>4. \E A \in T : \A B \in T : ~ (<<B, A>> \in R)
    BY <1>2, <1>3, WFMin
  <1> USE DEF R, T
  <1>5. PICK m \in S : \A x \in S : ~ (<<Upto(x), Upto(m)>> \in R)
    BY <1>4
  <1>6. ASSUME NEW x \in S, ~(m <= x) PROVE FALSE
    <2>0. x \in Nat /\ m \in Nat /\ x < m /\ \A y \in S : y \in Nat
      BY <1>6
    <2>a. Upto(x) \subseteq Upto(m)
      <3> SUFFICES ASSUME NEW y \in S, y <= x PROVE y <= m
        OBVIOUS
      <3> y \in Nat
        OBVIOUS
      <3> QED
        BY <2>0
    <2>b. m \in Upto(m) /\ m \notin Upto(x)
      BY <2>0
    <2>1. Upto(x) \subseteq Upto(m) /\ m \in Upto(m) /\ m \notin Upto(x) /\ Upto(m) \subseteq S
      BY <2>a, <2>b
    <2>2. <<Upto(x), Upto(m)>> \in R
      BY <2>1 DEF StrictSubsetOrdering
    <2> QED
      BY <1>5, <2>2
  <1> QED
    BY <1>6

----------------------------------------------------------------------------
(***************************************************************************)
(* Cells that are written, and what they hold then.                        *)
(***************************************************************************)
\* Cells s stand in m from offset a on.
Holding(m, a, s) == \A i \in 1 .. Len(s) : m[a + i - 1] = s[i]

Memories == [Cells -> Int]

LEMMA StoreFacts ==
  ASSUME NEW m \in Memories, NEW a \in Nat, HeaderSize <= a, NEW s \in Seq(Int),
         ChunkSize \in Nat, a + Len(s) <= ChunkSize
  PROVE  Store(m, a, s) \in Memories /\ Agree(m, Store(m, a, s), a) /\ Holding(Store(m, a, s), a, s)
  <1> DEFINE m2 == Store(m, a, s)
  <1>0. HeaderSize \in Nat /\ Len(s) \in Nat
    BY HeaderFact
  <1>1. ASSUME NEW o \in Cells PROVE m2[o] \in Int /\ (o < a => m2[o] = m[o])
    <2>1. o \in Int
      BY <1>0 DEF Cells
    <2>2. m2[o] = IF o \in a .. a + Len(s) - 1 THEN s[o - a + 1] ELSE m[o]
      BY DEF Store
    <2>3. o \in a .. a + Len(s) - 1 => o - a + 1 \in 1 .. Len(s)
      BY <1>0, <2>1
    <2>4. o \in a .. a + Len(s) - 1 => s[o - a + 1] \in Int
      BY <2>3
    <2>5. m[o] \in Int
      BY DEF Memories
    <2> QED
      BY <1>0, <2>1, <2>2, <2>4, <2>5
  <1>2. m2 \in Memories
    <2>1. m2 = [o \in Cells |-> m2[o]]
      BY DEF Store
    <2> HIDE DEF m2
    <2> QED
      BY <1>1, <2>1 DEF Memories
  <1>3. Agree(m, m2, a)
    <2> SUFFICES ASSUME NEW o \in Nat, HeaderSize <= o, o < a PROVE m2[o] = m[o]
      BY DEF Agree
    <2>1. CASE o \in Cells
      BY <1>1, <2>1
    <2>2. CASE o \notin Cells
      <3>1. o > ChunkSize - 1
        BY <1>0, <2>2 DEF Cells
      <3> QED
        BY <1>0, <3>1
    <2> QED
      BY <2>1, <2>2
  <1>4. ASSUME NEW i \in 1 .. Len(s) PROVE m2[a + i - 1] = s[i]
    <2>1. a + i - 1 \in Cells /\ a + i - 1 \in a .. a + Len(s) - 1 /\ a + i - 1 - a + 1 = i
      BY <1>0 DEF Cells
    <2> QED
      BY <2>1 DEF Store
  <1> QED
    BY <1>2, <1>3, <1>4 DEF Holding

\* The dictionary names strings below the committed end of the write chunk.
DictOk == \A k \in DOMAIN seen : Known(mem[wc], seen[k], HeaderSize + used[wc])

\* What a column takes.
Part(col, v, dup) == IF dup THEN Ref(col, v) ELSE Inline(v)

\* A hit of the dictionary is the string, whatever its hash collided with.
LEMMA LookupFacts ==
  ASSUME NEW col, NEW v \in Seq(Nat), Lookup(col, v), DictOk, HeaderSize + used[wc] \in Nat
  PROVE  Stands(mem[wc], seen[Key(col, v)], v, HeaderSize + used[wc])
  <1> DEFINE o == seen[Key(col, v)]
             m == mem[wc]
             lim == HeaderSize + used[wc]
  <1>1. /\ Key(col, v) \in DOMAIN seen /\ m[o] = Len(v)
        /\ Slice(m, o + 1, o + 1 + Len(v)) = v
    BY DEF Lookup
  <1>2. o \in Nat /\ HeaderSize <= o /\ m[o] \in Nat /\ o + 1 + m[o] <= lim
    BY <1>1 DEF DictOk, Known
  <1>3. ASSUME NEW i \in 1 .. Len(v) PROVE m[o + i] = v[i]
    <2>1. Slice(m, o + 1, o + 1 + Len(v))[i] = m[o + 1 + i - 1]
      <3>1. i \in 1 .. (o + 1 + Len(v)) - (o + 1)
        BY <1>2
      <3> QED
        BY <3>1 DEF Slice
    <2>2. o + 1 + i - 1 = o + i
      BY <1>2
    <2> QED
      BY <1>1, <2>1, <2>2
  <1> QED
    BY <1>1, <1>2, <1>3 DEF Stands

LEMMA PartFacts ==
  ASSUME NEW col, NEW v \in Seq(Nat), NEW dup \in BOOLEAN, dup => Lookup(col, v),
         DictOk, HeaderSize + used[wc] \in Nat
  PROVE  Part(col, v, dup) \in Seq(Int) /\ Len(Part(col, v, dup)) = IF dup THEN 1 ELSE 1 + Len(v)
  <1>1. CASE dup
    <2>1. seen[Key(col, v)] \in Nat
      BY <1>1, LookupFacts DEF Stands
    <2> QED
      BY <1>1, <2>1 DEF Part, Ref
  <1>2. CASE ~dup
    <2>1. Len(v) \in Nat /\ v \in Seq(Int)
      OBVIOUS
    <2> QED
      BY <1>2, <2>1 DEF Part, Inline
  <1> QED
    BY <1>1, <1>2

\* A column that was written is there.
LEMMA PartStands ==
  ASSUME NEW col, NEW v \in Seq(Nat), NEW dup \in BOOLEAN, dup => Lookup(col, v),
         DictOk, HeaderSize + used[wc] \in Nat, NEW m, NEW o \in Nat,
         HeaderSize + used[wc] < o, HeaderSize <= HeaderSize + used[wc],
         Agree(mem[wc], m, HeaderSize + used[wc]), Holding(m, o, Part(col, v, dup))
  PROVE  /\ ColAt(m, o, v, HeaderSize + used[wc], o + Len(Part(col, v, dup)))
         /\ ~dup => Known(m, o, o + Len(Part(col, v, dup)))
  <1> DEFINE s == HeaderSize + used[wc]
  <1>0. Len(v) \in Nat /\ HeaderSize \in Nat
    BY HeaderFact
  <1>1. CASE dup
    <2> DEFINE q == seen[Key(col, v)]
    <2>1. Stands(mem[wc], q, v, s)
      BY <1>1, LookupFacts
    <2>2. q \in Nat /\ HeaderSize <= q
      BY <2>1 DEF Stands
    <2>3. Part(col, v, dup) = <<-q>> /\ Len(<<-q>>) = 1 /\ <<-q>>[1] = -q
      BY <1>1 DEF Part, Ref
    <2> HIDE DEF q
    <2>4. m[o] = -q
      <3>1. 1 \in 1 .. Len(Part(col, v, dup)) /\ o + 1 - 1 = o
        BY <2>3
      <3>2. m[o + 1 - 1] = Part(col, v, dup)[1]
        BY <3>1 DEF Holding
      <3> QED
        BY <2>3, <3>1, <3>2
    <2>5. Stands(m, q, v, s)
      <3>1. AgreeBut(mem[wc], m, s, s)
        BY DEF Agree, AgreeBut
      <3>2. q < s
        BY <1>0, <2>1 DEF Stands
      <3>3. s \in Int /\ s <= s
        OBVIOUS
      <3> HIDE DEF s
      <3>4. s <= s /\ (s < q \/ s <= s)
        BY <3>3
      <3> QED
        BY <2>1, <3>1, <3>3, <3>4, StandsKept
    <2>6. q > 0 /\ -(-q) = q /\ -q \in Int /\ -q < 0
      BY <2>2, HeaderFact
    <2> QED
      BY <1>1, <2>3, <2>4, <2>5, <2>6 DEF ColAt
  <1>2. CASE ~dup
    <2>1. /\ Part(col, v, dup) = <<Len(v)>> \o v
          /\ Len(<<Len(v)>> \o v) = 1 + Len(v) /\ (<<Len(v)>> \o v)[1] = Len(v)
          /\ \A i \in 1 .. Len(v) : (<<Len(v)>> \o v)[i + 1] = v[i]
      BY <1>2 DEF Part, Inline
    <2>2. m[o] = Len(v)
      <3>1. 1 \in 1 .. Len(Part(col, v, dup)) /\ o + 1 - 1 = o
        BY <1>0, <2>1
      <3>2. m[o + 1 - 1] = Part(col, v, dup)[1]
        BY <3>1 DEF Holding
      <3> QED
        BY <2>1, <3>1, <3>2
    <2>3. ASSUME NEW i \in 1 .. Len(v) PROVE m[o + i] = v[i]
      <3>1. i + 1 \in 1 .. Len(Part(col, v, dup)) /\ o + (i + 1) - 1 = o + i
        BY <1>0, <2>1
      <3>2. m[o + (i + 1) - 1] = Part(col, v, dup)[i + 1]
        BY <3>1 DEF Holding
      <3> QED
        BY <2>1, <3>1, <3>2
    <2>4. Stands(m, o, v, o + 1 + Len(v))
      BY <1>0, <2>2, <2>3 DEF Stands
    <2>5. o + Len(Part(col, v, dup)) = o + 1 + Len(v)
      BY <1>0, <2>1
    <2>6. Known(m, o, o + 1 + Len(v))
      BY <1>0, <2>2 DEF Known
    <2> QED
      BY <2>4, <2>5, <2>6 DEF ColAt
  <1> QED
    BY <1>1, <1>2

----------------------------------------------------------------------------
(***************************************************************************)
(* The recursive functions of the model are functions: for every number of *)
(* steps there is one that agrees with the recursion so far, or there were *)
(* a least number without.                                                 *)
(***************************************************************************)
Hopped(nxt, end, done) == IF Last(done) < end THEN Append(done, nxt[Last(done)]) ELSE done

LEMMA HopsSteps ==
  ASSUME NEW nxt, NEW first, NEW end, NEW N \in Nat
  PROVE  /\ Hops(nxt, first, end, N)[0] = <<first>>
         /\ \A n \in 1 .. N : Hops(nxt, first, end, N)[n] = Hopped(nxt, end, Hops(nxt, first, end, N)[n - 1])
  <1> DEFINE E == <<first>>
             Upto(f, n) == /\ DOMAIN f = 0 .. n /\ f[0] = E
                           /\ \A k \in 1 .. n : f[k] = Hopped(nxt, end, f[k - 1])
             S == {n \in 0 .. N : ~ \E f : Upto(f, n)}
  <1> HIDE DEF E
  <1>1. S = {}
    <2> SUFFICES ASSUME S # {} PROVE FALSE
      OBVIOUS
    <2>1. S \in SUBSET Nat
      OBVIOUS
    <2>2. PICK n \in S : \A x \in S : n <= x
      BY <2>1, Least
    <2>3. n \in Nat /\ n <= N
      BY <2>2
    <2>4. CASE n = 0
      <3> DEFINE f == [k \in 0 .. 0 |-> E]
      <3>1. Upto(f, 0)
        OBVIOUS
      <3> QED
        BY <2>2, <2>4, <3>1
    <2>5. CASE n # 0
      <3>1. n - 1 \in 0 .. N /\ n - 1 < n
        BY <2>3, <2>5
      <3>2. n - 1 \notin S
        BY <2>2, <2>3, <3>1
      <3>3. PICK f : Upto(f, n - 1)
        BY <3>1, <3>2
      <3> DEFINE g == [k \in 0 .. n |-> IF k < n THEN f[k] ELSE Hopped(nxt, end, f[n - 1])]
      <3>4. DOMAIN g = 0 .. n /\ g[0] = E
        BY <2>3, <2>5, <3>3
      <3>5. ASSUME NEW k \in 1 .. n PROVE g[k] = Hopped(nxt, end, g[k - 1])
        <4>1. k \in Nat /\ k - 1 \in 0 .. n /\ k \in 0 .. n /\ k - 1 < n
          BY <2>3
        <4>2. g[k - 1] = f[k - 1]
          BY <4>1
        <4>3. CASE k < n
          <5>1. k \in 1 .. n - 1 /\ g[k] = f[k]
            BY <2>3, <4>1, <4>3
          <5> QED
            BY <3>3, <4>2, <5>1
        <4>4. CASE k = n
          <5>1. g[k] = Hopped(nxt, end, f[n - 1])
            BY <2>3, <4>1, <4>4
          <5> QED
            BY <4>2, <4>4, <5>1
        <4> QED
          BY <2>3, <4>1, <4>3, <4>4
      <3> HIDE DEF g
      <3>6. Upto(g, n)
        BY <3>4, <3>5
      <3> QED
        BY <2>2, <3>6
    <2> QED
      BY <2>4, <2>5
  <1>2. PICK f : Upto(f, N)
    BY <1>1
  <1> DEFINE body(h, n) == IF n = 0 THEN <<first>>
                          ELSE LET done == h[n - 1]
                               IN IF Last(done) < end THEN Append(done, nxt[Last(done)]) ELSE done
  <1>3. \A h, n : body(h, n) = IF n = 0 THEN E ELSE Hopped(nxt, end, h[n - 1])
    BY DEF Hopped, E
  <1>4. \E h : h = [n \in 0 .. N |-> body(h, n)]
    <2> HIDE DEF body
    <2> DEFINE h == [n \in 0 .. N |-> f[n]]
    <2>1. ASSUME NEW n \in 0 .. N PROVE h[n] = body(h, n)
      <3>1. CASE n = 0
        BY <1>2, <1>3, <3>1
      <3>2. CASE n # 0
        <4>1. n \in 1 .. N /\ n - 1 \in 0 .. N
          BY <3>2
        <4>2. h[n] = f[n] /\ h[n - 1] = f[n - 1]
          BY <4>1
        <4> HIDE DEF h
        <4> QED
          BY <1>2, <1>3, <3>2, <4>1, <4>2
      <3> QED
        BY <3>1, <3>2
    <2>2. DOMAIN h = 0 .. N /\ h = [n \in 0 .. N |-> h[n]]
      OBVIOUS
    <2> HIDE DEF h
    <2>3. h = [n \in 0 .. N |-> body(h, n)]
      BY <2>1, <2>2
    <2> QED
      BY <2>3
  <1> DEFINE t == Hops(nxt, first, end, N)
  <1>5. t = [n \in 0 .. N |-> body(t, n)]
    BY <1>4, Zenon DEF Hops
  <1> HIDE DEF t, body
  <1>6. \A n \in 0 .. N : t[n] = IF n = 0 THEN E ELSE Hopped(nxt, end, t[n - 1])
    <2>1. \A n \in 0 .. N : t[n] = body(t, n)
      BY <1>5, Zenon
    <2> QED
      BY <1>3, <2>1
  <1>7. t[0] = E /\ \A n \in 1 .. N : t[n] = Hopped(nxt, end, t[n - 1])
    <2>1. 0 \in 0 .. N /\ \A n \in 1 .. N : n \in 0 .. N /\ n # 0
      OBVIOUS
    <2> QED
      BY <1>6, <2>1
  <1> QED
    BY <1>7 DEF t, E

LEMMA SeqOfFun ==
  ASSUME NEW S, NEW n \in Nat, NEW f \in [1 .. n -> S]
  PROVE  f \in Seq(S) /\ Len(f) = n
  OBVIOUS

LEMMA SeqIsFun ==
  ASSUME NEW T, NEW s \in Seq(T)
  PROVE  DOMAIN s = 1 .. Len(s) /\ s = [i \in 1 .. Len(s) |-> s[i]]
  OBVIOUS

\* The first n of the values of p.
Start(p, n) == [i \in 1 .. n |-> p[i]]

LEMMA StartFacts ==
  ASSUME NEW k \in Nat, NEW p \in [1 .. k + 1 -> Nat], NEW n \in 1 .. k
  PROVE  /\ Start(p, n) \in Seq(Nat) /\ Len(Start(p, n)) = n /\ Last(Start(p, n)) = p[n]
         /\ Append(Start(p, n), p[n + 1]) = Start(p, n + 1)
  <1>1. Start(p, n) \in [1 .. n -> Nat]
    BY DEF Start
  <1>2. Start(p, n) \in Seq(Nat) /\ Len(Start(p, n)) = n
    BY <1>1
  <1>3. Last(Start(p, n)) = p[n]
    BY <1>2 DEF Last, Start
  <1>4. p[n + 1] \in Nat
    OBVIOUS
  <1>5. Append(Start(p, n), p[n + 1]) = Start(p, n + 1)
    <2>1. Append(Start(p, n), p[n + 1]) = [i \in 1 .. n + 1 |-> IF i <= n THEN Start(p, n)[i] ELSE p[n + 1]]
      BY <1>2, <1>4
    <2>2. \A i \in 1 .. n + 1 : (IF i <= n THEN Start(p, n)[i] ELSE p[n + 1]) = p[i]
      BY DEF Start
    <2> QED
      BY <2>1, <2>2 DEF Start
  <1> QED
    BY <1>2, <1>3, <1>5

\* A walk over offsets that follow each other returns them all.
LEMMA HopsAre ==
  ASSUME NEW nxt, NEW k \in Nat, NEW p \in [1 .. k + 1 -> Nat], Rises(p, k + 1),
         \A i \in 1 .. k : nxt[p[i]] = p[i + 1], NEW N \in Nat, k <= N
  PROVE  Hops(nxt, p[1], p[k + 1], N)[N] = p
  <1> DEFINE f == Hops(nxt, p[1], p[k + 1], N)
             done(n) == IF n < k THEN n + 1 ELSE k + 1
             S == {n \in 0 .. N : f[n] # Start(p, done(n))}
  <1>1. f[0] = <<p[1]>> /\ \A n \in 1 .. N : f[n] = Hopped(nxt, p[k + 1], f[n - 1])
    <2>1. f[0] = <<p[1]>>
      BY HopsSteps
    <2>2. \A n \in 1 .. N : f[n] = Hopped(nxt, p[k + 1], f[n - 1])
      BY HopsSteps
    <2> QED
      BY <2>1, <2>2
  <1> HIDE DEF f
  <1>2. S = {}
    <2> SUFFICES ASSUME S # {} PROVE FALSE
      OBVIOUS
    <2>1. S \in SUBSET Nat
      OBVIOUS
    <2>2. PICK n \in S : \A x \in S : n <= x
      BY <2>1, Least
    <2>3. n \in Nat /\ n <= N
      OBVIOUS
    <2>4. CASE n = 0
      <3>1. done(n) = 1
        BY <2>4
      <3>2. Start(p, 1) = <<p[1]>>
        BY DEF Start
      <3> QED
        BY <1>1, <2>2, <2>4, <3>1, <3>2
    <2>5. CASE n # 0
      <3>1. n \in 1 .. N /\ n - 1 \in 0 .. N /\ n - 1 < n
        BY <2>3, <2>5
      <3>2. f[n - 1] = Start(p, done(n - 1))
        <4>1. n - 1 \notin S
          BY <2>2, <2>3, <3>1
        <4> QED
          BY <3>1, <4>1
      <3>3. f[n] = Hopped(nxt, p[k + 1], f[n - 1])
        BY <1>1, <3>1
      <3>4. CASE n - 1 < k
        <4>1. n \in 1 .. k /\ done(n - 1) = n /\ done(n) = n + 1
          BY <2>3, <2>5, <3>4
        <4>2. Last(Start(p, n)) = p[n] /\ Append(Start(p, n), p[n + 1]) = Start(p, n + 1)
          BY <4>1, StartFacts
        <4>3. p[n] < p[k + 1]
          BY <4>1 DEF Rises
        <4>4. nxt[p[n]] = p[n + 1]
          BY <4>1
        <4>5. f[n] = Start(p, n + 1)
          BY <3>2, <3>3, <4>1, <4>2, <4>3, <4>4 DEF Hopped
        <4> QED
          BY <2>2, <4>1, <4>5
      <3>5. CASE ~(n - 1 < k)
        <4>1. done(n - 1) = k + 1 /\ done(n) = k + 1
          BY <2>3, <3>5
        <4>2. Last(Start(p, k + 1)) = p[k + 1]
          <5>1. Start(p, k + 1) \in Seq(Nat) /\ Len(Start(p, k + 1)) = k + 1
            <6>1. Start(p, k + 1) \in [1 .. k + 1 -> Nat]
              BY DEF Start
            <6>2. k + 1 \in Nat
              OBVIOUS
            <6> QED
              BY <6>1, <6>2, SeqOfFun
          <5> QED
            BY <5>1 DEF Last, Start
        <4>3. ~(p[k + 1] < p[k + 1])
          <5>1. p[k + 1] \in Nat
            OBVIOUS
          <5> QED
            BY <5>1
        <4>4. f[n] = Start(p, k + 1)
          BY <3>2, <3>3, <4>1, <4>2, <4>3 DEF Hopped
        <4> QED
          BY <2>2, <4>1, <4>4
      <3> QED
        BY <3>4, <3>5
    <2> QED
      BY <2>4, <2>5
  <1>3. f[N] = Start(p, k + 1)
    <2>1. N \in 0 .. N /\ done(N) = k + 1
      OBVIOUS
    <2> QED
      BY <1>2, <2>1
  <1>4. Start(p, k + 1) = p
    BY DEF Start
  <1> QED
    BY <1>3, <1>4 DEF f

\* What rises has room for its values.
LEMMA RiseRoom ==
  ASSUME NEW n \in Nat, NEW f \in [1 .. n + 1 -> Nat], Rises(f, n + 1)
  PROVE  n <= f[n + 1]
  <1> DEFINE S == {i \in 1 .. n + 1 : f[i] < i - 1}
  <1>1. S = {}
    <2> SUFFICES ASSUME S # {} PROVE FALSE
      OBVIOUS
    <2>1. S \in SUBSET Nat
      OBVIOUS
    <2>2. PICK i \in S : \A x \in S : i <= x
      BY <2>1, Least
    <2>3. i \in 1 .. n + 1 /\ f[i] \in Nat /\ f[i] < i - 1
      OBVIOUS
    <2>4. i - 1 \in 1 .. n + 1 /\ i - 1 < i
      BY <2>3
    <2>5. f[i - 1] < f[i] /\ f[i - 1] \in Nat
      BY <2>3, <2>4 DEF Rises
    <2>6. i - 1 \in S
      BY <2>3, <2>4, <2>5
    <2> QED
      BY <2>2, <2>4, <2>6
  <1>2. n + 1 \in 1 .. n + 1 /\ n + 1 \notin S /\ f[n + 1] \in Nat
    BY <1>1
  <1> QED
    BY <1>2

LEMMA KnownWider ==
  ASSUME NEW m, NEW o, NEW lim \in Int, NEW more \in Int, Known(m, o, lim), lim <= more
  PROVE  Known(m, o, more)
  BY DEF Known

\* What is learnt is what was known or what is new.
LEMMA LearnFacts ==
  ASSUME NEW dict, NEW T, NEW entries \in Seq(T), NEW k \in DOMAIN Learn(dict, entries)
  PROVE  \/ k \in DOMAIN dict /\ Learn(dict, entries)[k] = dict[k]
         \/ \E i \in DOMAIN entries : Learn(dict, entries)[k] = entries[i][2]
  <1> DEFINE of == {i \in DOMAIN entries : entries[i][1] = k}
             last == CHOOSE i \in of : \A j \in of : j <= i
  <1>1. k \in DOMAIN dict \cup {entries[i][1] : i \in DOMAIN entries}
    BY DEF Learn
  <1>2. Learn(dict, entries)[k] = IF of = {} THEN dict[k] ELSE entries[last][2]
    BY <1>1 DEF Learn
  <1>3. CASE of = {}
    BY <1>1, <1>2, <1>3
  <1>4. CASE of # {}
    <2> PICK n \in Nat : n = Len(entries)
      OBVIOUS
    <2>1. of \subseteq 1 .. n
      OBVIOUS
    <2> DEFINE B == {b \in Nat : \A j \in of : j <= b}
    <2>2. B \in SUBSET Nat /\ n \in B
      BY <2>1
    <2>3. PICK b \in B : \A x \in B : b <= x
      BY <2>2, Least
    <2>4. b \in of
      <3> SUFFICES ASSUME b \notin of PROVE FALSE
        OBVIOUS
      <3>1. PICK j \in of : TRUE
        BY <1>4
      <3>2. j \in Nat /\ j <= b /\ j > 0
        BY <2>1, <2>3
      <3>3. \A i \in of : i \in Nat /\ i <= b /\ i # b
        BY <2>1, <2>3
      <3>4. b - 1 \in Nat /\ \A i \in of : i <= b - 1
        BY <2>3, <3>2, <3>3
      <3>5. b - 1 \in B
        BY <3>4
      <3> QED
        BY <2>3, <3>5
    <2>5. \E i \in of : \A j \in of : j <= i
      BY <2>3, <2>4
    <2> HIDE DEF of
    <2>6. last \in of
      BY <2>5, Zenon
    <2>7. last \in DOMAIN entries
      BY <2>6 DEF of
    <2> QED
      BY <1>2, <1>4, <2>7
  <1> QED
    BY <1>3, <1>4

----------------------------------------------------------------------------
(***************************************************************************)
(* What the writers make of a row.                                         *)
(***************************************************************************)
Encoded(vals, o, fresh, n, done) ==
    LET v == vals[n]
    IN IF ~fresh /\ Lookup(n, v)
       THEN [cells |-> done.cells \o Ref(n, v), entries |-> done.entries]
       ELSE [cells |-> done.cells \o Inline(v),
             entries |-> done.entries \o Entry(n, v, o + Len(done.cells))]

LEMMA EncodingSteps ==
  ASSUME NEW vals, NEW o, NEW fresh, NumCols \in Nat
  PROVE  /\ Encoding(vals, o, fresh)[0] = [cells |-> <<>>, entries |-> <<>>]
         /\ \A n \in 1 .. NumCols : Encoding(vals, o, fresh)[n] = Encoded(vals, o, fresh, n, Encoding(vals, o, fresh)[n - 1])
  <1> DEFINE E == [cells |-> <<>>, entries |-> <<>>]
             Upto(f, n) == /\ DOMAIN f = 0 .. n /\ f[0] = E
                           /\ \A k \in 1 .. n : f[k] = Encoded(vals, o, fresh, k, f[k - 1])
             S == {n \in 0 .. NumCols : ~ \E f : Upto(f, n)}
  <1> HIDE DEF E
  <1>1. S = {}
    <2> SUFFICES ASSUME S # {} PROVE FALSE
      OBVIOUS
    <2>1. S \in SUBSET Nat
      OBVIOUS
    <2>2. PICK n \in S : \A x \in S : n <= x
      BY <2>1, Least
    <2>3. n \in Nat /\ n <= NumCols
      BY <2>2
    <2>4. CASE n = 0
      <3> DEFINE f == [k \in 0 .. 0 |-> E]
      <3>1. Upto(f, 0)
        OBVIOUS
      <3> QED
        BY <2>2, <2>4, <3>1
    <2>5. CASE n # 0
      <3>1. n - 1 \in 0 .. NumCols /\ n - 1 < n
        BY <2>3, <2>5
      <3>2. n - 1 \notin S
        BY <2>2, <2>3, <3>1
      <3>3. PICK f : Upto(f, n - 1)
        BY <3>1, <3>2
      <3> DEFINE g == [k \in 0 .. n |-> IF k < n THEN f[k] ELSE Encoded(vals, o, fresh, n, f[n - 1])]
      <3>4. DOMAIN g = 0 .. n /\ g[0] = E
        BY <2>3, <2>5, <3>3
      <3>5. ASSUME NEW k \in 1 .. n PROVE g[k] = Encoded(vals, o, fresh, k, g[k - 1])
        <4>1. k \in Nat /\ k - 1 \in 0 .. n /\ k \in 0 .. n /\ k - 1 < n
          BY <2>3
        <4>2. g[k - 1] = f[k - 1]
          BY <4>1
        <4>3. CASE k < n
          <5>1. k \in 1 .. n - 1 /\ g[k] = f[k]
            BY <2>3, <4>1, <4>3
          <5> QED
            BY <3>3, <4>2, <5>1
        <4>4. CASE k = n
          <5>1. g[k] = Encoded(vals, o, fresh, n, f[n - 1])
            BY <2>3, <4>1, <4>4
          <5> QED
            BY <4>2, <4>4, <5>1
        <4> QED
          BY <2>3, <4>1, <4>3, <4>4
      <3> HIDE DEF g
      <3>6. Upto(g, n)
        BY <3>4, <3>5
      <3> QED
        BY <2>2, <3>6
    <2> QED
      BY <2>4, <2>5
  <1>2. PICK f : Upto(f, NumCols)
    BY <1>1
  <1> DEFINE body(h, n) == IF n = 0 THEN [cells |-> <<>>, entries |-> <<>>]
                          ELSE LET done == h[n - 1]
                                   v == vals[n]
                               IN IF ~fresh /\ Lookup(n, v)
                                  THEN [cells |-> done.cells \o Ref(n, v), entries |-> done.entries]
                                  ELSE [cells |-> done.cells \o Inline(v),
                                        entries |-> done.entries \o Entry(n, v, o + Len(done.cells))]
  <1>3. \A h, n : body(h, n) = IF n = 0 THEN E ELSE Encoded(vals, o, fresh, n, h[n - 1])
    BY DEF Encoded, E
  <1>4. \E h : h = [n \in 0 .. NumCols |-> body(h, n)]
    <2> HIDE DEF body
    <2> DEFINE h == [n \in 0 .. NumCols |-> f[n]]
    <2>1. ASSUME NEW n \in 0 .. NumCols PROVE h[n] = body(h, n)
      <3>1. CASE n = 0
        BY <1>2, <1>3, <3>1
      <3>2. CASE n # 0
        <4>1. n \in 1 .. NumCols /\ n - 1 \in 0 .. NumCols
          BY <3>2
        <4>2. h[n] = f[n] /\ h[n - 1] = f[n - 1]
          BY <4>1
        <4> HIDE DEF h
        <4> QED
          BY <1>2, <1>3, <3>2, <4>1, <4>2
      <3> QED
        BY <3>1, <3>2
    <2>2. DOMAIN h = 0 .. NumCols /\ h = [n \in 0 .. NumCols |-> h[n]]
      OBVIOUS
    <2> HIDE DEF h
    <2>3. h = [n \in 0 .. NumCols |-> body(h, n)]
      BY <2>1, <2>2
    <2> QED
      BY <2>3
  <1> DEFINE t == Encoding(vals, o, fresh)
  <1>5. t = [n \in 0 .. NumCols |-> body(t, n)]
    BY <1>4, Zenon DEF Encoding
  <1> HIDE DEF t, body
  <1>6. \A n \in 0 .. NumCols : t[n] = IF n = 0 THEN E ELSE Encoded(vals, o, fresh, n, t[n - 1])
    <2>1. \A n \in 0 .. NumCols : t[n] = body(t, n)
      BY <1>5, Zenon
    <2> QED
      BY <1>3, <2>1
  <1>7. t[0] = E /\ \A n \in 1 .. NumCols : t[n] = Encoded(vals, o, fresh, n, t[n - 1])
    <2>1. 0 \in 0 .. NumCols /\ \A n \in 1 .. NumCols : n \in 0 .. NumCols /\ n # 0
      OBVIOUS
    <2> QED
      BY <1>6, <2>1
  <1> QED
    BY <1>7 DEF t, E

Hashes == {Key(c, v) : c \in Cols, v \in Values}
Entries == Hashes \X Nat

LEMMA EntryFacts ==
  ASSUME NEW col \in Cols, NEW v \in Values, NEW o \in Nat
  PROVE  Entry(col, v, o) \in Seq(Entries) /\ \A i \in DOMAIN Entry(col, v, o) : Entry(col, v, o)[i][2] = o
  <1>1. <<Key(col, v), o>> \in Entries
    BY DEF Entries, Hashes
  <1>2. <<<<Key(col, v), o>>>> \in Seq(Entries)
    BY <1>1
  <1> QED
    BY <1>1, <1>2 DEF Entry

\* An inline string that was written is there, in any chunk.
LEMMA InlineStands ==
  ASSUME NEW v \in Seq(Nat), NEW s \in Nat, NEW m, NEW o \in Nat, HeaderSize <= s, s < o,
         Holding(m, o, Inline(v))
  PROVE  /\ Inline(v) \in Seq(Int) /\ Len(Inline(v)) = 1 + Len(v)
         /\ ColAt(m, o, v, s, o + Len(Inline(v))) /\ Known(m, o, o + Len(Inline(v)))
  <1>1. /\ Inline(v) \in Seq(Int) /\ Len(v) \in Nat
        /\ Len(<<Len(v)>> \o v) = 1 + Len(v) /\ (<<Len(v)>> \o v)[1] = Len(v)
        /\ \A i \in 1 .. Len(v) : (<<Len(v)>> \o v)[i + 1] = v[i]
    BY DEF Inline
  <1>2. Inline(v) = <<Len(v)>> \o v
    BY DEF Inline
  <1>3. m[o] = Len(v)
    <2>1. 1 \in 1 .. Len(Inline(v)) /\ o + 1 - 1 = o
      BY <1>1, <1>2
    <2>2. m[o + 1 - 1] = Inline(v)[1]
      BY <2>1 DEF Holding
    <2> QED
      BY <1>1, <1>2, <2>1, <2>2
  <1>4. ASSUME NEW i \in 1 .. Len(v) PROVE m[o + i] = v[i]
    <2>1. i + 1 \in 1 .. Len(Inline(v)) /\ o + (i + 1) - 1 = o + i
      BY <1>1, <1>2
    <2>2. m[o + (i + 1) - 1] = Inline(v)[i + 1]
      BY <2>1 DEF Holding
    <2> QED
      BY <1>1, <1>2, <2>1, <2>2
  <1>5. HeaderSize \in Nat
    BY HeaderFact
  <1>6. Stands(m, o, v, o + 1 + Len(v))
    BY <1>1, <1>3, <1>4, <1>5 DEF Stands
  <1>7. o + Len(Inline(v)) = o + 1 + Len(v)
    BY <1>1, <1>2
  <1>8. Known(m, o, o + 1 + Len(v))
    BY <1>1, <1>3, <1>5 DEF Known
  <1> QED
    BY <1>1, <1>2, <1>6, <1>7, <1>8 DEF ColAt

\* Where the cells of a row stand, its columns do, and what it adds to the dictionary.
Encodes(m, s, vals, n, cells, entries) ==
    /\ cells \in Seq(Int) /\ entries \in Seq(Entries)
    /\ Holding(m, s + 1, cells) =>
         /\ \E p : Laid(m, p, Start(vals, n), s, s + 1 + Len(cells))
         /\ \A i \in DOMAIN entries : s < entries[i][2] /\ Known(m, entries[i][2], s + 1 + Len(cells))

\* Cells that grow at the end hold what they held.
LEMMA HoldingParts ==
  ASSUME NEW m, NEW a \in Nat, NEW x \in Seq(Int), NEW y \in Seq(Int), Holding(m, a, x \o y)
  PROVE  Holding(m, a, x) /\ Holding(m, a + Len(x), y)
  <1>1. /\ Len(x) \in Nat /\ Len(y) \in Nat /\ Len(x \o y) = Len(x) + Len(y)
        /\ \A i \in 1 .. Len(x) : (x \o y)[i] = x[i]
        /\ \A i \in 1 .. Len(y) : (x \o y)[Len(x) + i] = y[i]
    OBVIOUS
  <1>2. ASSUME NEW i \in 1 .. Len(x) PROVE m[a + i - 1] = x[i]
    <2>1. i \in 1 .. Len(x \o y)
      BY <1>1
    <2> QED
      BY <1>1, <2>1 DEF Holding
  <1>3. ASSUME NEW i \in 1 .. Len(y) PROVE m[a + Len(x) + i - 1] = y[i]
    <2>1. Len(x) + i \in 1 .. Len(x \o y) /\ a + (Len(x) + i) - 1 = a + Len(x) + i - 1
      BY <1>1
    <2>2. m[a + (Len(x) + i) - 1] = (x \o y)[Len(x) + i]
      BY <2>1 DEF Holding
    <2> QED
      BY <1>1, <2>1, <2>2
  <1> QED
    BY <1>2, <1>3 DEF Holding

News(n, v, dup, o) == IF dup THEN <<>> ELSE Entry(n, v, o)

LEMMA ColumnsGrow ==
  ASSUME NumCols \in Nat, NEW vals \in [Cols -> Values], NEW n \in Cols
  PROVE  /\ Start(vals, n - 1) \in Seq(Seq(Nat)) /\ Len(Start(vals, n - 1)) = n - 1
         /\ Append(Start(vals, n - 1), vals[n]) = Start(vals, n)
  <1>0. n \in 1 .. NumCols /\ \A i \in 1 .. NumCols : vals[i] \in Seq(Nat)
    BY DedupAssumption DEF Cols
  <1> DEFINE x == Start(vals, n - 1)
  <1>1. x \in [1 .. n - 1 -> Seq(Nat)] /\ n - 1 \in Nat
    BY <1>0 DEF Start
  <1>2. x \in Seq(Seq(Nat)) /\ Len(x) = n - 1
    BY <1>1, SeqOfFun
  <1>3. \A i \in 1 .. n - 1 : x[i] = vals[i]
    BY DEF Start
  <1> HIDE DEF x
  <1>4. Append(x, vals[n]) = [i \in 1 .. n |-> IF i <= n - 1 THEN x[i] ELSE vals[n]]
    BY <1>0, <1>2
  <1>5. \A i \in 1 .. n : (IF i <= n - 1 THEN x[i] ELSE vals[n]) = vals[i]
    BY <1>0, <1>3
  <1>6. [i \in 1 .. n |-> IF i <= n - 1 THEN x[i] ELSE vals[n]] = Start(vals, n)
    BY <1>5 DEF Start
  <1> QED
    BY <1>2, <1>4, <1>6 DEF x

LEMMA EncodesMore ==
  ASSUME NumCols \in Nat, NEW vals \in [Cols -> Values], NEW dup \in BOOLEAN, NEW s \in Nat,
         HeaderSize <= s, NEW m, NEW n \in Cols, NEW x \in Seq(Int), NEW y \in Seq(Entries),
         Encodes(m, s, vals, n - 1, x, y),
         dup => DictOk /\ s = HeaderSize + used[wc] /\ Agree(mem[wc], m, s) /\ Lookup(n, vals[n])
  PROVE  Encodes(m, s, vals, n, x \o Part(n, vals[n], dup), y \o News(n, vals[n], dup, s + 1 + Len(x)))
  <1> DEFINE v == vals[n]
             part == Part(n, v, dup)
             o == s + 1 + Len(x)
             old == News(n, v, dup, o)
  <1> HIDE DEF v, part, old, o
  <1>1. v \in Values /\ v \in Seq(Nat) /\ HeaderSize \in Nat /\ n \in 1 .. NumCols
    BY DedupAssumption DEF Cols, v
  <1>2. Len(x) \in Nat /\ o \in Nat /\ s < o /\ o = s + 1 + Len(x)
    BY DEF o
  <1>3. part \in Seq(Int) /\ Len(part) \in Nat /\ Len(part) > 0
    <2>1. CASE dup
      <3>1. DictOk /\ HeaderSize + used[wc] \in Nat /\ Lookup(n, v)
        BY <2>1 DEF v
      <3>2. part \in Seq(Int) /\ Len(part) = 1
        BY <1>1, <2>1, <3>1, PartFacts DEF part
      <3> QED
        BY <3>2
    <2>2. CASE ~dup
      <3>1. part = Inline(v) /\ Len(v) \in Nat /\ v \in Seq(Int)
        BY <1>1, <2>2 DEF part, Part
      <3>2. <<Len(v)>> \o v \in Seq(Int) /\ Len(<<Len(v)>> \o v) = 1 + Len(v)
        BY <3>1
      <3> QED
        BY <3>1, <3>2 DEF Inline
    <2> QED
      BY <2>1, <2>2
  <1>4. old \in Seq(Entries) /\ \A i \in DOMAIN old : ~dup /\ old[i][2] = o
    <2>1. CASE dup
      BY <2>1 DEF old, News
    <2>2. CASE ~dup
      <3>1. Entry(n, v, o) \in Seq(Entries) /\ \A i \in DOMAIN Entry(n, v, o) : Entry(n, v, o)[i][2] = o
        BY <1>1, <1>2, EntryFacts
      <3> QED
        BY <2>2, <3>1 DEF old, News
    <2> QED
      BY <2>1, <2>2
  <1>5. ASSUME Holding(m, s + 1, x \o part)
        PROVE  /\ \E p : Laid(m, p, Start(vals, n), s, s + 1 + Len(x \o part))
               /\ \A i \in DOMAIN (y \o old) :
                    s < (y \o old)[i][2] /\ Known(m, (y \o old)[i][2], s + 1 + Len(x \o part))
    <2> DEFINE next == o + Len(part)
    <2>1. Holding(m, s + 1, x) /\ Holding(m, o, part)
      <3>1. s + 1 \in Nat
        OBVIOUS
      <3> QED
        BY <1>3, <1>5, <3>1, HoldingParts DEF o
    <2>2. next \in Nat /\ o < next /\ next = s + 1 + Len(x \o part)
      <3>1. Len(x \o part) = Len(x) + Len(part)
        BY <1>3
      <3> QED
        BY <1>2, <1>3, <3>1
    <2>3. ColAt(m, o, v, s, next) /\ (~dup => Known(m, o, next))
      <3>1. CASE dup
        <4>1. DictOk /\ s = HeaderSize + used[wc] /\ Agree(mem[wc], m, s) /\ Lookup(n, v)
          BY <3>1 DEF v
        <4>2. ColAt(m, o, v, s, o + Len(part))
          BY <1>1, <1>2, <2>1, <3>1, <4>1, PartStands DEF part
        <4> QED
          BY <3>1, <4>2
      <3>2. CASE ~dup
        <4>1. part = Inline(v)
          BY <3>2 DEF part, Part
        <4>2. ColAt(m, o, v, s, o + Len(Inline(v))) /\ Known(m, o, o + Len(Inline(v)))
          BY <1>1, <1>2, <2>1, <4>1, InlineStands
        <4> QED
          BY <4>1, <4>2
      <3> QED
        BY <3>1, <3>2
    <2> HIDE DEF next
    <2>4. PICK p : Laid(m, p, Start(vals, n - 1), s, o)
      BY <2>1 DEF Encodes, o
    <2>5. Start(vals, n - 1) \in Seq(Seq(Nat)) /\ Append(Start(vals, n - 1), v) = Start(vals, n)
      BY ColumnsGrow DEF v
    <2>6. \E q : Laid(m, q, Start(vals, n), s, next)
      <3>1. \E q : Laid(m, q, Append(Start(vals, n - 1), v), s, next)
        BY <1>1, <1>2, <2>2, <2>3, <2>4, <2>5, LaidMore
      <3> QED
        BY <2>5, <3>1
    <2>7. ASSUME NEW i \in DOMAIN (y \o old)
          PROVE s < (y \o old)[i][2] /\ Known(m, (y \o old)[i][2], next)
      <3>1. \/ i \in DOMAIN y /\ (y \o old)[i] = y[i]
            \/ \E j \in DOMAIN old : (y \o old)[i] = old[j]
        <4>1. /\ Len(y) \in Nat /\ Len(old) \in Nat /\ i \in 1 .. Len(y) + Len(old)
              /\ (y \o old)[i] = IF i <= Len(y) THEN y[i] ELSE old[i - Len(y)]
          BY <1>4
        <4> QED
          BY <1>4, <4>1
      <3>2. CASE i \in DOMAIN y /\ (y \o old)[i] = y[i]
        <4>1. s < y[i][2] /\ Known(m, y[i][2], o)
          BY <2>1, <3>2 DEF Encodes, o
        <4>2. Known(m, y[i][2], next)
          BY <1>2, <2>2, <4>1, KnownWider
        <4> QED
          BY <3>2, <4>1, <4>2
      <3>3. CASE \E j \in DOMAIN old : (y \o old)[i] = old[j]
        <4>1. (y \o old)[i][2] = o /\ ~dup
          BY <1>4, <3>3
        <4> QED
          BY <1>2, <2>3, <4>1
      <3> QED
        BY <3>1, <3>2, <3>3
    <2> QED
      BY <2>2, <2>6, <2>7
  <1>6. x \o part \in Seq(Int) /\ y \o old \in Seq(Entries)
    BY <1>3, <1>4
  <1> QED
    BY <1>5, <1>6 DEF Encodes, v, part, old, o

LEMMA EncodedEncodes ==
  ASSUME NumCols \in Nat, NEW vals \in [Cols -> Values], NEW fresh \in BOOLEAN, NEW s \in Nat,
         HeaderSize <= s, NEW m, NEW n \in Cols,
         NEW done, Encodes(m, s, vals, n - 1, done.cells, done.entries),
         ~fresh => DictOk /\ s = HeaderSize + used[wc] /\ Agree(mem[wc], m, s)
  PROVE  Encodes(m, s, vals, n, Encoded(vals, s + 1, fresh, n, done).cells,
                 Encoded(vals, s + 1, fresh, n, done).entries)
  <1> DEFINE dup == ~fresh /\ Lookup(n, vals[n])
             enc == Encoded(vals, s + 1, fresh, n, done)
  <1>1. done.cells \in Seq(Int) /\ done.entries \in Seq(Entries)
    BY DEF Encodes
  <1>2. dup \in BOOLEAN /\ (dup => DictOk /\ s = HeaderSize + used[wc] /\ Agree(mem[wc], m, s)
                                    /\ Lookup(n, vals[n]))
    OBVIOUS
  <1>3. /\ enc.cells = done.cells \o Part(n, vals[n], dup)
        /\ enc.entries = done.entries \o News(n, vals[n], dup, s + 1 + Len(done.cells))
    <2>1. CASE dup
      <3>1. done.entries \o <<>> = done.entries
        BY <1>1
      <3> QED
        BY <2>1, <3>1 DEF Encoded, Part, News
    <2>2. CASE ~dup
      BY <2>2 DEF Encoded, Part, News
    <2> QED
      BY <2>1, <2>2
  <1> HIDE DEF dup, enc
  <1>4. Encodes(m, s, vals, n, done.cells \o Part(n, vals[n], dup),
                done.entries \o News(n, vals[n], dup, s + 1 + Len(done.cells)))
    BY <1>1, <1>2, EncodesMore
  <1> QED
    BY <1>3, <1>4 DEF enc

LEMMA EncodesAll ==
  ASSUME NumCols \in Nat, NEW vals \in [Cols -> Values], NEW fresh \in BOOLEAN, NEW s \in Nat,
         HeaderSize <= s, NEW m,
         ~fresh => DictOk /\ s = HeaderSize + used[wc] /\ Agree(mem[wc], m, s)
  PROVE  Encodes(m, s, vals, NumCols, Encode(vals, s + 1, fresh).cells,
                 Encode(vals, s + 1, fresh).entries)
  <1> DEFINE f == Encoding(vals, s + 1, fresh)
             S == {n \in 0 .. NumCols : ~ Encodes(m, s, vals, n, f[n].cells, f[n].entries)}
  <1>1. /\ f[0] = [cells |-> <<>>, entries |-> <<>>]
        /\ \A n \in 1 .. NumCols : f[n] = Encoded(vals, s + 1, fresh, n, f[n - 1])
    BY EncodingSteps
  <1> HIDE DEF f
  <1>2. S = {}
    <2> SUFFICES ASSUME S # {} PROVE FALSE
      OBVIOUS
    <2>1. S \in SUBSET Nat
      OBVIOUS
    <2>2. PICK n \in S : \A x \in S : n <= x
      BY <2>1, Least
    <2>3. n \in Nat /\ n <= NumCols
      OBVIOUS
    <2>4. CASE n = 0
      <3>1. f[0].cells = <<>> /\ f[0].entries = <<>> /\ Len(<<>>) = 0 /\ DOMAIN <<>> = {}
        BY <1>1
      <3>2. Start(vals, 0) = <<>>
        BY DEF Start
      <3>3. \E p : Laid(m, p, Start(vals, 0), s, s + 1 + Len(f[0].cells))
        <4>1. s + 1 + Len(f[0].cells) = s + 1
          BY <3>1
        <4> QED
          BY <3>2, <4>1, LaidNone
      <3>4. Encodes(m, s, vals, 0, f[0].cells, f[0].entries)
        BY <3>1, <3>3 DEF Encodes
      <3> QED
        BY <2>2, <2>4, <3>4
    <2>5. CASE n # 0
      <3>1. n \in 1 .. NumCols /\ n \in Cols /\ n - 1 \in 0 .. NumCols /\ n - 1 < n
        BY <2>3, <2>5 DEF Cols
      <3>2. n - 1 \notin S
        BY <2>2, <2>3, <3>1
      <3>3. Encodes(m, s, vals, n - 1, f[n - 1].cells, f[n - 1].entries)
        BY <3>1, <3>2
      <3>4. Encodes(m, s, vals, n, f[n].cells, f[n].entries)
        BY <1>1, <3>1, <3>3, EncodedEncodes
      <3> QED
        BY <2>2, <3>4
    <2> QED
      BY <2>4, <2>5
  <1>3. Encodes(m, s, vals, NumCols, f[NumCols].cells, f[NumCols].entries)
    BY <1>2
  <1> QED
    BY <1>3 DEF f, Encode

----------------------------------------------------------------------------
(***************************************************************************)
(* The invariant of the buffer and its writer.                             *)
(***************************************************************************)
End(c) == HeaderSize + used[c]

Typed ==
    /\ table \in Tables
    /\ mem \in [Chunks -> Memories] /\ used \in [Chunks -> 0 .. ChunkSize - HeaderSize]
    /\ gen \in [Chunks -> 0 .. MaxGen] /\ wc \in Chunks /\ gen[0] > 0
    /\ rows \in [Chunks -> Seq(Seq(Seq(Nat)))]

\* What is below `used' is the rows that were committed.
Contents == \A c \in Chunks : \E at : Filled(mem[c], at, rows[c], End(c), NumCols)

RowTypes == [open : BOOLEAN, start : Nat, pos : Nat, overflow : BOOLEAN, vals : Seq(Seq(Nat))]

\* The open row lies behind them; what it will add to the dictionary is inside it.
OpenRow ==
    /\ row \in RowTypes /\ row.start = End(wc) /\ Len(row.vals) <= NumCols
    /\ row.start < row.pos /\ row.pos <= ChunkSize + 1
    /\ pending \in Seq(Entries)
    /\ \A i \in DOMAIN pending :
         row.start < pending[i][2] /\ Known(mem[wc], pending[i][2], row.pos) /\ row.pos <= ChunkSize
    /\ ~row.overflow => /\ \E p : Laid(mem[wc], p, row.vals, row.start, row.pos)
                        /\ row.vals # <<>> => row.pos <= ChunkSize
RowOk == IF row.open THEN OpenRow ELSE row = NoRow /\ pending = <<>>

WriterInv == Typed /\ Contents /\ DictOk /\ RowOk

LEMMA TableFacts ==
  ASSUME table \in Tables
  PROVE  /\ NumCols \in Nat /\ NumCols > 0 /\ NumChunks \in Nat /\ NumChunks > 0
         /\ ChunkSize \in Nat /\ ChunkSize > HeaderSize /\ HeaderSize \in Nat /\ HeaderSize > 0
         /\ 0 \in Chunks /\ Values \subseteq Seq(Nat) /\ MaxGen \in Nat
  <1>1. /\ {table.cols, table.chunks} \subseteq Nat \ {0} /\ table.size \in Nat
        /\ table.size > HeaderSize /\ HeaderSize \in Nat \ {0} /\ Values \subseteq Seq(Nat) /\ MaxGen \in Nat
    BY DedupAssumption
  <1> QED
    BY <1>1 DEF NumCols, NumChunks, ChunkSize, Chunks

LEMMA EndFacts ==
  ASSUME Typed, NEW c \in Chunks
  PROVE  /\ used[c] \in Nat /\ End(c) \in Nat /\ HeaderSize <= End(c) /\ End(c) <= ChunkSize
         /\ mem[c] \in Memories /\ rows[c] \in Seq(Seq(Seq(Nat)))
  BY TableFacts DEF Typed, End

\* A row that comes behind the others.
LEMMA RowAdded ==
  ASSUME NEW m, NEW m2, NEW at, NEW rs, NEW s \in Nat, NEW vals \in Seq(Seq(Nat)), NEW next \in Nat,
         Filled(m, at, rs, s, Len(vals)), Agree(m, m2, s), Row(m2, s, vals, next), s < next
  PROVE  \E at2 : Filled(m2, at2, Append(rs, vals), next, Len(vals))
  <1>1. Filled(m2, at, rs, s, Len(vals))
    BY FilledKept
  <1> QED
    BY <1>1, FilledMore

LEMMA KnownKept ==
  ASSUME NEW m, NEW m2, NEW o, NEW lim \in Int, Known(m, o, lim), Agree(m, m2, lim)
  PROVE  Known(m2, o, lim)
  <1>1. o \in Nat /\ HeaderSize <= o /\ m[o] \in Nat /\ o + 1 + m[o] <= lim
    BY DEF Known
  <1>2. m2[o] = m[o]
    BY <1>1 DEF Agree
  <1> QED
    BY <1>1, <1>2 DEF Known

LEMMA AgreeLess ==
  ASSUME NEW m, NEW m2, NEW lim \in Int, NEW less \in Int, less <= lim, Agree(m, m2, lim)
  PROVE  Agree(m, m2, less)
  BY DEF Agree

\* The dictionary stands as long as the committed cells do.
LEMMA DictKept ==
  ASSUME Typed, DictOk, UNCHANGED <<used, wc, seen>>, Agree(mem[wc], mem'[wc], End(wc))
  PROVE  DictOk'
  <1>1. End(wc) \in Int /\ wc \in Chunks
    BY EndFacts DEF Typed
  <1>2. ASSUME NEW k \in DOMAIN seen PROVE Known(mem'[wc], seen[k], End(wc))
    <2>1. Known(mem[wc], seen[k], End(wc))
      BY DEF DictOk, End
    <2> QED
      BY <1>1, <2>1, KnownKept
  <1> QED
    BY <1>2 DEF DictOk, End

\* The cells of a column that fits.
LEMMA ColumnWritten ==
  ASSUME Typed, DictOk, OpenRow, ~row.overflow, Len(row.vals) < NumCols,
         NEW v \in Seq(Nat), NEW col, NEW dup \in BOOLEAN, dup => Lookup(col, v),
         row.pos + Len(Part(col, v, dup)) <= ChunkSize
  PROVE  LET m == Store(mem[wc], row.pos, Part(col, v, dup))
             next == row.pos + Len(Part(col, v, dup))
         IN /\ m \in Memories /\ Agree(mem[wc], m, row.pos) /\ next \in Nat /\ row.pos < next
            /\ \E p : Laid(m, p, Append(row.vals, v), row.start, next)
            /\ ~dup => Known(m, row.pos, next)
  <1> DEFINE part == Part(col, v, dup)
             m == Store(mem[wc], row.pos, part)
             next == row.pos + Len(part)
  <1>1. /\ row.pos \in Nat /\ row.start \in Nat /\ row.vals \in Seq(Seq(Nat))
        /\ row.start = End(wc) /\ row.start < row.pos
    BY DEF OpenRow, RowTypes
  <1>2. /\ End(wc) \in Nat /\ HeaderSize <= End(wc) /\ mem[wc] \in Memories /\ HeaderSize \in Nat
        /\ ChunkSize \in Nat /\ HeaderSize + used[wc] = End(wc)
    BY EndFacts, TableFacts DEF Typed, End
  <1>3. part \in Seq(Int) /\ Len(part) \in Nat /\ Len(part) > 0
    <2>1. part \in Seq(Int) /\ Len(part) = IF dup THEN 1 ELSE 1 + Len(v)
      BY <1>2, PartFacts
    <2>2. Len(v) \in Nat
      OBVIOUS
    <2> HIDE DEF part
    <2> QED
      BY <2>1, <2>2
  <1>4. m \in Memories /\ Agree(mem[wc], m, row.pos) /\ Holding(m, row.pos, part)
    <2>1. HeaderSize <= row.pos /\ row.pos + Len(part) <= ChunkSize
      BY <1>1, <1>2
    <2> HIDE DEF part
    <2> QED
      BY <1>1, <1>2, <1>3, <2>1, StoreFacts
  <1>5. next \in Nat /\ row.pos < next
    BY <1>1, <1>3
  <1>6. Agree(mem[wc], m, End(wc))
    <2>1. row.pos \in Int /\ End(wc) \in Int /\ End(wc) <= row.pos
      BY <1>1, <1>2
    <2> HIDE DEF m
    <2> QED
      BY <1>4, <2>1, AgreeLess
  <1>7. ColAt(m, row.pos, v, row.start, next) /\ (~dup => Known(m, row.pos, next))
    <2> HIDE DEF m
    <2>1. Holding(m, row.pos, Part(col, v, dup))
      BY <1>4
    <2>2. Agree(mem[wc], m, HeaderSize + used[wc]) /\ HeaderSize + used[wc] < row.pos
      BY <1>1, <1>2, <1>6
    <2>3. ColAt(m, row.pos, v, HeaderSize + used[wc], row.pos + Len(Part(col, v, dup)))
      BY <1>1, <1>2, <2>1, <2>2, PartStands
    <2>4. ~dup => Known(m, row.pos, row.pos + Len(Part(col, v, dup)))
      BY <1>1, <1>2, <2>1, <2>2, PartStands
    <2> QED
      BY <1>1, <1>2, <2>3, <2>4
  <1> HIDE DEF m, next, part
  <1>8. \E p : Laid(m, p, Append(row.vals, v), row.start, next)
    <2>1. PICK p : Laid(mem[wc], p, row.vals, row.start, row.pos)
      BY DEF OpenRow
    <2>2. AgreeBut(mem[wc], m, row.start, row.pos)
      BY <1>4 DEF Agree, AgreeBut
    <2>3. HeaderSize <= row.start /\ row.pos <= row.pos /\ row.pos \in Int
      BY <1>1, <1>2
    <2>4. Laid(m, p, row.vals, row.start, row.pos)
      BY <1>1, <2>1, <2>2, <2>3, LaidKept
    <2> QED
      BY <1>1, <1>5, <1>7, <2>4, LaidMore
  <1> QED
    BY <1>4, <1>5, <1>7, <1>8 DEF m, next, part

\* A chunk is taken over or what it holds grows.
Extends(x, y) == Len(x) <= Len(y) /\ \A i \in 1 .. Len(x) : y[i] = x[i]
Grows(m, m2, u, u2, rs, rs2) == u <= u2 /\ Agree(m, m2, HeaderSize + u) /\ Extends(rs, rs2)
Kept ==
    \A c \in Chunks : /\ gen[c] <= gen'[c]
                      /\ gen'[c] = gen[c] => Grows(mem[c], mem'[c], used[c], used'[c], rows[c], rows'[c])

Written(c, m, u, rs, g) ==
    /\ mem' = [mem EXCEPT ![c] = m] /\ used' = [used EXCEPT ![c] = u]
    /\ rows' = [rows EXCEPT ![c] = rs] /\ gen' = [gen EXCEPT ![c] = g]

LEMMA SameGrows ==
  ASSUME NEW m, NEW u \in Nat, NEW rs, Len(rs) \in Nat PROVE Grows(m, m, u, u, rs, rs)
  BY DEF Grows, Agree, Extends

\* One chunk is written, the others are left alone.
LEMMA ChunkWritten ==
  ASSUME Typed, Contents, UNCHANGED table, NEW c \in Chunks, NEW m \in Memories,
         NEW u \in 0 .. ChunkSize - HeaderSize, NEW rs, \E at : Filled(m, at, rs, HeaderSize + u, NumCols),
         NEW g \in gen[c] .. MaxGen, wc' \in Chunks, Written(c, m, u, rs, g),
         g = gen[c] => Grows(mem[c], m, used[c], u, rows[c], rs)
  PROVE  Typed' /\ Contents' /\ Kept
  <1> USE DEF Written
  <1>1. Chunks' = Chunks /\ NumCols' = NumCols /\ ChunkSize' = ChunkSize /\ Memories' = Memories
    BY DEF Chunks, NumChunks, NumCols, ChunkSize, Memories, Cells
  <1>2. rs \in Seq(Seq(Seq(Nat)))
    BY DEF Filled
  <1>3. gen[c] \in Nat /\ g \in 0 .. MaxGen /\ g >= gen[c]
    <2>1. gen[c] \in 0 .. MaxGen /\ MaxGen \in Nat
      BY TableFacts DEF Typed
    <2> QED
      BY <2>1
  <1>4. /\ mem'[c] = m /\ used'[c] = u /\ rows'[c] = rs /\ gen'[c] = g
        /\ \A d \in Chunks : d # c => mem'[d] = mem[d] /\ used'[d] = used[d] /\ rows'[d] = rows[d]
                                      /\ gen'[d] = gen[d]
    BY DEF Typed
  <1>5. Typed'
    <2>1. table' \in Tables /\ wc' \in Chunks'
      BY <1>1 DEF Typed
    <2>2. mem' \in [Chunks' -> Memories'] /\ rows' \in [Chunks' -> Seq(Seq(Seq(Nat)))]
      BY <1>1, <1>2 DEF Typed
    <2>3. used' \in [Chunks' -> 0 .. ChunkSize' - HeaderSize]
      BY <1>1 DEF Typed
    <2>4. gen' \in [Chunks' -> 0 .. MaxGen] /\ gen'[0] > 0
      <3>1. 0 \in Chunks
        BY TableFacts DEF Typed
      <3> QED
        BY <1>1, <1>3, <3>1 DEF Typed
    <2> QED
      BY <2>1, <2>2, <2>3, <2>4 DEF Typed
  <1>6. Contents'
    <2>1. ASSUME NEW d \in Chunks PROVE \E at : Filled(mem'[d], at, rows'[d], HeaderSize + used'[d], NumCols)
      <3>1. CASE d = c
        BY <1>4, <3>1
      <3>2. CASE d # c
        BY <1>4, <3>2 DEF Contents, End
      <3> QED
        BY <3>1, <3>2
    <2> QED
      BY <1>1, <2>1 DEF Contents, End
  <1>7. Kept
    <2>1. ASSUME NEW d \in Chunks
          PROVE  /\ gen[d] <= gen'[d]
                 /\ gen'[d] = gen[d] => Grows(mem[d], mem'[d], used[d], used'[d], rows[d], rows'[d])
      <3>1. CASE d = c
        BY <1>3, <1>4, <3>1
      <3>2. CASE d # c
        <4>1. used[d] \in Nat /\ Len(rows[d]) \in Nat /\ gen[d] \in Nat
          BY EndFacts, TableFacts DEF Typed
        <4> QED
          BY <1>4, <3>2, <4>1, SameGrows
      <3> QED
        BY <3>1, <3>2
    <2> QED
      BY <2>1 DEF Kept
  <1> QED
    BY <1>5, <1>6, <1>7

\* A chunk that is left in its generation.
LEMMA SameGen ==
  ASSUME Typed, NEW c \in Chunks PROVE gen = [gen EXCEPT ![c] = gen[c]] /\ gen[c] \in gen[c] .. MaxGen
  BY TableFacts DEF Typed

LEMMA ExtendsMore ==
  ASSUME NEW rs \in Seq(Seq(Seq(Nat))), NEW vals \in Seq(Seq(Nat))
  PROVE  Extends(rs, Append(rs, vals))
  BY DEF Extends

\* The writer leaves the chunks alone.
LEMMA NothingWritten ==
  ASSUME Typed, Contents, UNCHANGED <<table, mem, used, rows, gen, wc>>
  PROVE  Typed' /\ Contents' /\ Kept
  <1>1. wc \in Chunks
    BY DEF Typed
  <1>2. /\ Written(wc, mem[wc], used[wc], rows[wc], gen[wc])
        /\ gen[wc] \in gen[wc] .. MaxGen /\ wc' \in Chunks
    BY <1>1, SameGen DEF Typed, Written
  <1>3. /\ mem[wc] \in Memories /\ used[wc] \in 0 .. ChunkSize - HeaderSize
        /\ \E at : Filled(mem[wc], at, rows[wc], HeaderSize + used[wc], NumCols)
    BY <1>1 DEF Typed, Contents, End
  <1>4. Grows(mem[wc], mem[wc], used[wc], used[wc], rows[wc], rows[wc])
    BY <1>1, EndFacts, SameGrows
  <1> QED
    BY <1>1, <1>2, <1>3, <1>4, ChunkWritten

LEMMA TableKept ==
  ASSUME UNCHANGED table
  PROVE  /\ NumCols' = NumCols /\ NumChunks' = NumChunks /\ ChunkSize' = ChunkSize
         /\ Chunks' = Chunks /\ Cells' = Cells /\ Cols' = Cols /\ Memories' = Memories
         /\ RowTypes' = RowTypes /\ Hashes' = Hashes /\ Entries' = Entries
  BY DEF NumCols, NumChunks, ChunkSize, Chunks, Cells, Cols, Memories, RowTypes, Hashes, Entries

LEMMA IdleWriter ==
  ASSUME WriterInv, UNCHANGED <<table, mem, used, rows, gen, wc, seen>>
  PROVE  Typed' /\ Contents' /\ Kept /\ DictOk' /\ End(wc)' = End(wc)
  <1>1. Agree(mem[wc], mem'[wc], End(wc))
    BY DEF Agree
  <1>2. Typed' /\ Contents' /\ Kept
    BY NothingWritten DEF WriterInv
  <1>3. DictOk'
    BY <1>1, DictKept DEF WriterInv
  <1> QED
    BY <1>2, <1>3 DEF End

LEMMA BeginRowKeeps ==
  ASSUME WriterInv, BeginRow, UNCHANGED table PROVE WriterInv' /\ Kept
  <1>1. Typed' /\ Contents' /\ Kept /\ DictOk' /\ End(wc)' = End(wc)
    BY IdleWriter DEF BeginRow
  <1>2. row' = [open |-> TRUE, start |-> End(wc), pos |-> End(wc) + 1, overflow |-> FALSE, vals |-> <<>>]
    BY DEF BeginRow, NoRow, End
  <1>3. End(wc) \in Nat /\ End(wc) <= ChunkSize /\ NumCols \in Nat /\ ChunkSize \in Nat
    BY EndFacts, TableFacts DEF WriterInv, Typed
  <1>4. OpenRow'
    <2>1. row' \in RowTypes' /\ row'.start = End(wc)' /\ Len(row'.vals) <= NumCols'
      BY <1>1, <1>2, <1>3, TableKept DEF RowTypes
    <2>2. row'.start < row'.pos /\ row'.pos <= ChunkSize' + 1
      BY <1>2, <1>3, TableKept
    <2>3. pending' = <<>>
      BY DEF BeginRow
    <2>4. \E p : Laid(mem'[wc'], p, row'.vals, row'.start, row'.pos)
      BY <1>2, <1>3, LaidNone
    <2>5. row'.vals = <<>>
      BY <1>2
    <2>6. pending' \in Seq(Entries') /\ DOMAIN pending' = {}
      BY <2>3
    <2> QED
      BY <2>1, <2>2, <2>4, <2>5, <2>6 DEF OpenRow
  <1>5. row'.open
    BY <1>2
  <1> QED
    BY <1>1, <1>4, <1>5 DEF WriterInv, RowOk

LEMMA DropRowKeeps ==
  ASSUME WriterInv, DropRow, UNCHANGED table PROVE WriterInv' /\ Kept
  <1>1. Typed' /\ Contents' /\ Kept /\ DictOk'
    BY IdleWriter DEF DropRow
  <1>2. RowOk'
    BY DEF DropRow, RowOk, NoRow
  <1> QED
    BY <1>1, <1>2 DEF WriterInv

LEMMA ReopenKeeps ==
  ASSUME WriterInv, Reopen, UNCHANGED table PROVE WriterInv' /\ Kept
  <1>1. Typed' /\ Contents' /\ Kept
    BY NothingWritten DEF WriterInv, Reopen
  <1>2. RowOk'
    BY DEF Reopen, RowOk, NoRow
  <1>3. seen' = <<>> /\ DOMAIN seen' = {}
    BY DEF Reopen
  <1>4. DictOk'
    BY <1>3 DEF DictOk
  <1> QED
    BY <1>1, <1>2, <1>4 DEF WriterInv

\* Readers do not write.
LEMMA ReadersKeep ==
  ASSUME WriterInv, WriterFrame, UNCHANGED table PROVE WriterInv' /\ Kept
  <1>1. Typed' /\ Contents' /\ Kept /\ DictOk' /\ End(wc)' = End(wc)
    BY IdleWriter DEF WriterFrame
  <1>2. UNCHANGED <<row, pending, mem, wc>>
    BY DEF WriterFrame
  <1>3. RowOk'
    BY <1>1, <1>2, TableKept DEF WriterInv, RowOk, OpenRow, NoRow
  <1> QED
    BY <1>1, <1>3 DEF WriterInv

\* Cells behind the committed ones of the write chunk.
LEMMA BehindWritten ==
  ASSUME WriterInv, NEW m \in Memories, Agree(mem[wc], m, End(wc)),
         UNCHANGED <<table, used, rows, gen, wc, seen>>, mem' = [mem EXCEPT ![wc] = m]
  PROVE  Typed' /\ Contents' /\ Kept /\ DictOk' /\ End(wc)' = End(wc) /\ mem'[wc] = m
  <1>1. /\ wc \in Chunks /\ End(wc) \in Int /\ used[wc] \in Nat /\ Len(rows[wc]) \in Nat
        /\ used[wc] \in 0 .. ChunkSize - HeaderSize
    BY EndFacts DEF WriterInv, Typed
  <1>2. mem'[wc] = m
    BY <1>1 DEF WriterInv, Typed
  <1>3. Written(wc, m, used[wc], rows[wc], gen[wc]) /\ gen[wc] \in gen[wc] .. MaxGen /\ wc' \in Chunks
    BY <1>1, SameGen DEF WriterInv, Typed, Written
  <1>4. \E at : Filled(m, at, rows[wc], HeaderSize + used[wc], NumCols)
    <2>1. PICK at : Filled(mem[wc], at, rows[wc], End(wc), NumCols)
      BY <1>1 DEF WriterInv, Contents
    <2>2. End(wc) <= End(wc)
      BY <1>1
    <2>3. Filled(m, at, rows[wc], End(wc), NumCols)
      BY <1>1, <2>1, <2>2, FilledKept
    <2> QED
      BY <2>3 DEF End
  <1>5. Grows(mem[wc], m, used[wc], used[wc], rows[wc], rows[wc])
    BY <1>1 DEF Grows, Extends, End
  <1>6. Typed' /\ Contents' /\ Kept
    BY <1>1, <1>3, <1>4, <1>5, ChunkWritten DEF WriterInv
  <1>7. DictOk'
    BY <1>2, DictKept DEF WriterInv
  <1> QED
    BY <1>2, <1>6, <1>7 DEF End

\* A column that is written.
LEMMA PutStrFits ==
  ASSUME WriterInv, UNCHANGED table, row.open, ~row.overflow, Len(row.vals) < NumCols,
         NEW v \in Values, NEW dup \in BOOLEAN, NEW col, col \in Cols, dup => Lookup(col, v),
         NEW m, m = Store(mem[wc], row.pos, Part(col, v, dup)),
         NEW next, next = row.pos + Len(Part(col, v, dup)), next <= ChunkSize,
         mem' = [mem EXCEPT ![wc] = m],
         pending' = IF dup THEN pending ELSE pending \o Entry(col, v, row.pos),
         row' = [row EXCEPT !.pos = next, !.vals = Append(row.vals, v)],
         UNCHANGED <<used, rows, gen, wc, seen>>
  PROVE  WriterInv' /\ Kept
  <1>1. OpenRow /\ Typed /\ DictOk /\ v \in Seq(Nat)
    BY TableFacts DEF WriterInv, RowOk, Typed
  <1>2. /\ row \in RowTypes /\ row.pos \in Nat /\ row.start \in Nat /\ row.start = End(wc) /\ row.start < row.pos
        /\ End(wc) \in Nat /\ NumCols \in Nat /\ row.vals \in Seq(Seq(Nat)) /\ wc \in Chunks
        /\ ChunkSize \in Nat /\ mem[wc] \in Memories
    BY <1>1, EndFacts, TableFacts DEF OpenRow, RowTypes, Typed
  <1>3. /\ m \in Memories /\ Agree(mem[wc], m, row.pos) /\ next \in Nat /\ row.pos < next
        /\ \E p : Laid(m, p, Append(row.vals, v), row.start, next)
        /\ ~dup => Known(m, row.pos, next)
    BY <1>1, ColumnWritten
  <1>4. Agree(mem[wc], m, End(wc))
    BY <1>2, <1>3, AgreeLess
  <1>5. Typed' /\ Contents' /\ Kept /\ DictOk' /\ End(wc)' = End(wc) /\ mem'[wc] = m
    BY <1>3, <1>4, BehindWritten
  <1>6. /\ row'.open = row.open /\ row'.pos = next /\ row'.vals = Append(row.vals, v)
        /\ row'.start = row.start /\ row'.overflow = row.overflow
        /\ row' \in RowTypes
    <2>1. Append(row.vals, v) \in Seq(Seq(Nat))
      BY <1>1, <1>2
    <2> DEFINE vals == Append(row.vals, v)
    <2>2. vals \in Seq(Seq(Nat)) /\ row' = [row EXCEPT !.pos = next, !.vals = vals]
      BY <2>1
    <2> HIDE DEF vals
    <2>3. /\ row'.open = row.open /\ row'.pos = next /\ row'.vals = vals
          /\ row'.start = row.start /\ row'.overflow = row.overflow /\ row' \in RowTypes
      BY <1>2, <1>3, <2>2 DEF RowTypes
    <2> QED
      BY <2>3 DEF vals
  <1>7. OpenRow'
    <2>1. row' \in RowTypes' /\ row'.start = End(wc)' /\ Len(row'.vals) <= NumCols'
      BY <1>2, <1>5, <1>6, TableKept
    <2>2. row'.start < row'.pos /\ row'.pos <= ChunkSize' + 1 /\ row'.pos <= ChunkSize'
      BY <1>2, <1>3, <1>6, TableKept
    <2>3. Entry(col, v, row.pos) \in Seq(Entries)
          /\ \A i \in DOMAIN Entry(col, v, row.pos) : Entry(col, v, row.pos)[i][2] = row.pos
      BY <1>2, EntryFacts
    <2>4. pending \in Seq(Entries)
          /\ \A i \in DOMAIN pending : row.start < pending[i][2] /\ Known(mem[wc], pending[i][2], row.pos)
      BY <1>1 DEF OpenRow
    <2>5. ASSUME NEW i \in DOMAIN pending
          PROVE  row.start < pending[i][2] /\ Known(m, pending[i][2], next)
      <3>1. Known(m, pending[i][2], row.pos)
        BY <1>2, <1>3, <2>4, KnownKept
      <3> QED
        BY <1>2, <1>3, <2>4, <3>1, KnownWider
    <2>6. /\ pending' \in Seq(Entries)
          /\ \A i \in DOMAIN pending' : row.start < pending'[i][2] /\ Known(m, pending'[i][2], next)
      <3>1. CASE dup
        BY <2>4, <2>5, <3>1
      <3>2. CASE ~dup
        <4> DEFINE new == Entry(col, v, row.pos)
        <4>0. pending' = pending \o new
          BY <3>2
        <4> HIDE DEF new
        <4>1. new \in Seq(Entries) /\ \A i \in DOMAIN new : new[i][2] = row.pos
          BY <2>3 DEF new
        <4>2. pending' \in Seq(Entries)
          <5>1. pending \in Seq(Entries) /\ new \in Seq(Entries)
            BY <2>4, <4>1
          <5>2. pending \o new \in Seq(Entries)
            BY <5>1, ConcatProperties
          <5> QED
            BY <4>0, <5>2
        <4>3. ASSUME NEW i \in DOMAIN pending'
              PROVE  \/ i \in DOMAIN pending /\ pending'[i] = pending[i]
                     \/ \E j \in DOMAIN new : pending'[i] = new[j]
          BY <2>4, <4>0, <4>1
        <4>4. row.start < row.pos /\ Known(m, row.pos, next)
          BY <1>2, <1>3, <3>2
        <4>5. ASSUME NEW i \in DOMAIN pending'
              PROVE  row.start < pending'[i][2] /\ Known(m, pending'[i][2], next)
          <5>1. CASE i \in DOMAIN pending /\ pending'[i] = pending[i]
            BY <2>5, <5>1
          <5>2. CASE \E j \in DOMAIN new : pending'[i] = new[j]
            BY <4>1, <4>4, <5>2
          <5> QED
            BY <4>3, <5>1, <5>2
        <4> QED
          BY <4>2, <4>5
      <3> QED
        BY <3>1, <3>2
    <2>7. \E p : Laid(mem'[wc'], p, row'.vals, row'.start, row'.pos)
      BY <1>3, <1>5, <1>6
    <2>8. /\ pending' \in Seq(Entries')
          /\ \A i \in DOMAIN pending' : /\ row'.start < pending'[i][2]
                                        /\ Known(mem'[wc'], pending'[i][2], row'.pos) /\ row'.pos <= ChunkSize'
      BY <1>5, <1>6, <2>2, <2>6, TableKept
    <2> QED
      BY <2>1, <2>2, <2>7, <2>8 DEF OpenRow
  <1> QED
    BY <1>5, <1>6, <1>7 DEF WriterInv, RowOk

LEMMA PutStrKeeps ==
  ASSUME WriterInv, NEW v \in Values, PutStr(v), UNCHANGED table PROVE WriterInv' /\ Kept
  <1> DEFINE col == Len(row.vals) + 1
             dup == ~row.overflow /\ Lookup(col, v)
             cells == Part(col, v, dup)
  <1>1. /\ row.open /\ Len(row.vals) < NumCols
        /\ IF CanWrite(Len(cells))
           THEN /\ mem' = [mem EXCEPT ![wc] = Store(mem[wc], row.pos, cells)]
                /\ pending' = IF dup THEN pending ELSE pending \o Entry(col, v, row.pos)
                /\ row' = [row EXCEPT !.pos = row.pos + Len(cells), !.vals = Append(row.vals, v)]
           ELSE /\ row' = [row EXCEPT !.overflow = TRUE, !.vals = Append(row.vals, v)]
                /\ UNCHANGED <<mem, pending>>
        /\ UNCHANGED <<used, gen, wc, seen, rows>>
    <2>1. cells = IF dup THEN Ref(col, v) ELSE Inline(v)
      BY DEF Part
    <2> QED
      BY <2>1, Zenon DEF PutStr
  <1>2. OpenRow /\ wc \in Chunks /\ row \in RowTypes /\ v \in Seq(Nat) /\ NumCols \in Nat
    BY <1>1, TableFacts DEF WriterInv, RowOk, OpenRow, Typed
  <1>3. dup \in BOOLEAN /\ (dup => Lookup(col, v)) /\ col \in Cols
    <2>1. row.vals \in Seq(Seq(Nat)) /\ Len(row.vals) \in Nat
      BY <1>2 DEF RowTypes
    <2> QED
      BY <1>1, <1>2, <2>1 DEF Cols
  <1> HIDE DEF cells, dup, col
  <1>4. CASE CanWrite(Len(cells))
    <2> DEFINE m == Store(mem[wc], row.pos, cells)
               next == row.pos + Len(cells)
    <2>1. ~row.overflow /\ next <= ChunkSize
      BY <1>4 DEF CanWrite
    <2>2. /\ mem' = [mem EXCEPT ![wc] = m]
          /\ pending' = IF dup THEN pending ELSE pending \o Entry(col, v, row.pos)
          /\ row' = [row EXCEPT !.pos = next, !.vals = Append(row.vals, v)]
      BY <1>1, <1>4
    <2>3. m = Store(mem[wc], row.pos, Part(col, v, dup)) /\ next = row.pos + Len(Part(col, v, dup))
      BY DEF cells
    <2> HIDE DEF m, next
    <2> QED
      BY <1>1, <1>3, <2>1, <2>2, <2>3, PutStrFits
  <1>5. CASE ~CanWrite(Len(cells))
    <2>1. /\ row' = [row EXCEPT !.overflow = TRUE, !.vals = Append(row.vals, v)]
          /\ UNCHANGED <<mem, pending, used, gen, wc, seen, rows>>
      BY <1>1, <1>5
    <2>2. Typed' /\ Contents' /\ Kept /\ DictOk' /\ End(wc)' = End(wc)
      BY <2>1, IdleWriter
    <2>3. /\ row'.open = row.open /\ row'.pos = row.pos /\ row'.start = row.start /\ row'.overflow = TRUE
          /\ Len(row'.vals) = Len(row.vals) + 1 /\ row' \in RowTypes /\ Len(row.vals) \in Nat
      <3>0. row.vals \in Seq(Seq(Nat))
        BY <1>2 DEF RowTypes
      <3>1. Append(row.vals, v) \in Seq(Seq(Nat)) /\ Len(Append(row.vals, v)) = Len(row.vals) + 1
            /\ Len(row.vals) \in Nat
        BY <1>2, <3>0
      <3> DEFINE vals == Append(row.vals, v)
      <3>2. vals \in Seq(Seq(Nat)) /\ row' = [row EXCEPT !.overflow = TRUE, !.vals = vals]
        BY <2>1, <3>1
      <3> HIDE DEF vals
      <3>3. /\ row'.open = row.open /\ row'.pos = row.pos /\ row'.vals = vals
            /\ row'.start = row.start /\ row'.overflow = TRUE /\ row' \in RowTypes
        BY <1>2, <3>2 DEF RowTypes
      <3> QED
        BY <3>1, <3>3 DEF vals
    <2>4. OpenRow'
      <3>1. row' \in RowTypes' /\ row'.start = End(wc)' /\ Len(row'.vals) <= NumCols'
        BY <1>1, <1>2, <2>2, <2>3, TableKept DEF OpenRow
      <3>2. row'.start < row'.pos /\ row'.pos <= ChunkSize' + 1
        BY <1>2, <2>3, TableKept DEF OpenRow
      <3>3. pending' \in Seq(Entries') /\ \A i \in DOMAIN pending' :
              /\ row'.start < pending'[i][2]
              /\ Known(mem'[wc'], pending'[i][2], row'.pos) /\ row'.pos <= ChunkSize'
        BY <1>2, <2>1, <2>3, TableKept DEF OpenRow
      <3> QED
        BY <2>3, <3>1, <3>2, <3>3 DEF OpenRow
    <2> QED
      BY <1>1, <2>2, <2>3, <2>4 DEF WriterInv, RowOk
  <1> QED
    BY <1>4, <1>5

\* The dictionary learns what stands below the new end.
LEMMA DictLearns ==
  ASSUME NEW dict, NEW m, NEW m2, NEW s \in Nat, NEW next \in Nat, s <= next, HeaderSize <= s,
         \A k \in DOMAIN dict : Known(m, dict[k], s), Agree(m, m2, s),
         NEW entries \in Seq(Entries), \A i \in DOMAIN entries : Known(m2, entries[i][2], next)
  PROVE  \A k \in DOMAIN Learn(dict, entries) : Known(m2, Learn(dict, entries)[k], next)
  <1> SUFFICES ASSUME NEW k \in DOMAIN Learn(dict, entries)
               PROVE  Known(m2, Learn(dict, entries)[k], next)
    OBVIOUS
  <1>1. \/ k \in DOMAIN dict /\ Learn(dict, entries)[k] = dict[k]
        \/ \E i \in DOMAIN entries : Learn(dict, entries)[k] = entries[i][2]
    BY LearnFacts
  <1>2. CASE k \in DOMAIN dict /\ Learn(dict, entries)[k] = dict[k]
    <2>1. Known(m, dict[k], s)
      BY <1>2
    <2>2. Known(m2, dict[k], s)
      BY <2>1, KnownKept
    <2>3. Known(m2, dict[k], next)
      BY <2>2, KnownWider
    <2> QED
      BY <1>2, <2>3
  <1>3. CASE \E i \in DOMAIN entries : Learn(dict, entries)[k] = entries[i][2]
    BY <1>3
  <1> QED
    BY <1>1, <1>2, <1>3

\* A row that comes behind the committed ones.
LEMMA RowCommitted ==
  ASSUME WriterInv, NEW m \in Memories, NEW next \in Nat, NEW vals \in Seq(Seq(Nat)), Len(vals) = NumCols,
         NEW entries \in Seq(Entries), Agree(mem[wc], m, End(wc)), Row(m, End(wc), vals, next),
         End(wc) < next, next <= ChunkSize, \A i \in DOMAIN entries : Known(m, entries[i][2], next),
         UNCHANGED <<table, gen, wc>>,
         mem' = [mem EXCEPT ![wc] = m], used' = [used EXCEPT ![wc] = next - HeaderSize],
         rows' = [rows EXCEPT ![wc] = Append(rows[wc], vals)], seen' = Learn(seen, entries)
  PROVE  Typed' /\ Contents' /\ Kept /\ DictOk'
  <1>1. /\ wc \in Chunks /\ End(wc) \in Nat /\ HeaderSize <= End(wc) /\ used[wc] \in Nat
        /\ rows[wc] \in Seq(Seq(Seq(Nat))) /\ End(wc) = HeaderSize + used[wc] /\ NumCols \in Nat
        /\ HeaderSize \in Nat /\ ChunkSize \in Nat
    BY EndFacts, TableFacts DEF WriterInv, Typed, End
  <1> DEFINE u == next - HeaderSize
             rs == Append(rows[wc], vals)
  <1>2. u \in 0 .. ChunkSize - HeaderSize /\ HeaderSize + u = next /\ used[wc] <= u
    BY <1>1
  <1>3. \E at : Filled(m, at, rs, HeaderSize + u, NumCols)
    <2>1. PICK at : Filled(mem[wc], at, rows[wc], End(wc), Len(vals))
      BY <1>1 DEF WriterInv, Contents
    <2>2. \E at2 : Filled(m, at2, Append(rows[wc], vals), next, Len(vals))
      BY <1>1, <2>1, RowAdded
    <2> QED
      BY <1>2, <2>2
  <1>4. Grows(mem[wc], m, used[wc], u, rows[wc], rs)
    BY <1>1, <1>2, ExtendsMore DEF Grows
  <1> HIDE DEF u, rs
  <1>5. Written(wc, m, u, rs, gen[wc]) /\ gen[wc] \in gen[wc] .. MaxGen /\ wc' \in Chunks
    BY <1>1, SameGen DEF WriterInv, Typed, Written, u, rs
  <1>6. Typed' /\ Contents' /\ Kept
    BY <1>1, <1>2, <1>3, <1>4, <1>5, ChunkWritten DEF WriterInv
  <1>7. \A k \in DOMAIN Learn(seen, entries) : Known(m, Learn(seen, entries)[k], next)
    <2>1. \A k \in DOMAIN seen : Known(mem[wc], seen[k], End(wc))
      BY <1>1 DEF WriterInv, DictOk
    <2>2. End(wc) \in Nat /\ End(wc) <= next /\ HeaderSize <= End(wc) /\ next \in Nat
      BY <1>1
    <2> DEFINE a == mem[wc]
               e == End(wc)
    <2>3. /\ \A k \in DOMAIN seen : Known(a, seen[k], e)
          /\ e \in Nat /\ e <= next /\ HeaderSize <= e /\ Agree(a, m, e)
      BY <2>1, <2>2
    <2> HIDE DEF a, e
    <2> QED
      BY <2>3, DictLearns
  <1>8. mem'[wc'] = m /\ HeaderSize + used'[wc'] = next
    BY <1>1, <1>2 DEF WriterInv, Typed, u
  <1>9. DictOk'
    BY <1>7, <1>8 DEF DictOk
  <1> QED
    BY <1>6, <1>9

LEMMA FinishKeeps ==
  ASSUME WriterInv, Finish, UNCHANGED table PROVE WriterInv' /\ Kept
  <1>1. OpenRow /\ Typed /\ row.open /\ Len(row.vals) = NumCols
    BY DEF Finish, WriterInv, RowOk
  <1>2. /\ row \in RowTypes /\ row.pos \in Nat /\ row.start \in Nat /\ row.start = End(wc) /\ row.start < row.pos
        /\ End(wc) \in Nat /\ NumCols \in Nat /\ NumCols > 0 /\ row.vals \in Seq(Seq(Nat)) /\ wc \in Chunks
        /\ ChunkSize \in Nat /\ mem[wc] \in Memories /\ HeaderSize \in Nat /\ HeaderSize <= End(wc)
        /\ pending \in Seq(Entries)
    BY <1>1, EndFacts, TableFacts DEF OpenRow, RowTypes, Typed
  <1>3. RowOk'
    BY DEF Finish, RowOk, NoRow
  <1>4. CASE row.overflow
    <2>1. UNCHANGED <<mem, used, rows, gen, wc, seen>>
      BY <1>4 DEF Finish
    <2>2. Typed' /\ Contents' /\ Kept /\ DictOk'
      BY <2>1, IdleWriter
    <2> QED
      BY <1>3, <2>2 DEF WriterInv
  <1>5. CASE ~row.overflow
    <2> DEFINE s == row.start
               next == row.pos
               m == [mem[wc] EXCEPT ![s] = next - s - 1]
    <2>1. /\ mem' = [mem EXCEPT ![wc] = m] /\ used' = [used EXCEPT ![wc] = next - HeaderSize]
          /\ rows' = [rows EXCEPT ![wc] = Append(rows[wc], row.vals)] /\ seen' = Learn(seen, pending)
          /\ UNCHANGED <<gen, wc>>
      BY <1>2, <1>5, Zenon DEF Finish
    <2>2. next <= ChunkSize /\ next \in Nat /\ s \in Nat /\ HeaderSize <= s /\ s < next /\ s = End(wc)
      <3>1. row.vals # <<>>
        BY <1>1, <1>2
      <3> QED
        BY <1>1, <1>2, <1>5, <3>1 DEF OpenRow
    <2>3. /\ m \in Memories /\ m[s] = next - s - 1
          /\ \A o \in Nat : HeaderSize <= o /\ o < next /\ o # s => m[o] = mem[wc][o]
      <3>1. s \in Cells
        BY <1>2, <2>2 DEF Cells
      <3>2. next - s - 1 \in Int
        BY <2>2
      <3> QED
        BY <1>2, <3>1, <3>2 DEF Memories
    <2>4. AgreeBut(mem[wc], m, s, next) /\ Agree(mem[wc], m, End(wc))
      BY <2>2, <2>3 DEF Agree, AgreeBut
    <2>5. PICK p : Laid(mem[wc], p, row.vals, s, next)
      BY <1>1, <1>5 DEF OpenRow
    <2>6. \A i \in DOMAIN pending : s < pending[i][2] /\ Known(mem[wc], pending[i][2], next)
      BY <1>1 DEF OpenRow
    <2> HIDE DEF m, s, next
    <2>7. Laid(m, p, row.vals, s, next)
      <3>1. next \in Int /\ next <= next
        BY <2>2
      <3> QED
        BY <1>2, <2>2, <2>4, <2>5, <3>1, LaidKept
    <2>8. Row(m, End(wc), row.vals, next)
      BY <1>2, <2>2, <2>3, <2>7 DEF Row
    <2>9. \A i \in DOMAIN pending : Known(m, pending[i][2], next)
      <3> SUFFICES ASSUME NEW i \in DOMAIN pending PROVE Known(m, pending[i][2], next)
        OBVIOUS
      <3> DEFINE o == pending[i][2]
      <3>1. s < o /\ Known(mem[wc], o, next)
        BY <2>6
      <3> HIDE DEF o
      <3>2. Known(m, o, next)
        BY <2>2, <2>3, <3>1 DEF Known
      <3> QED
        BY <3>2 DEF o
    <2>10. Typed' /\ Contents' /\ Kept /\ DictOk'
      BY <1>1, <1>2, <2>1, <2>2, <2>3, <2>4, <2>8, <2>9, RowCommitted
    <2> QED
      BY <1>3, <2>10 DEF WriterInv
  <1> QED
    BY <1>4, <1>5

\* A whole row of cells, stored with its length in front.
LEMMA RowStored ==
  ASSUME NumCols \in Nat, ChunkSize \in Nat, NEW vals \in [Cols -> Values], NEW m0 \in Memories, NEW s \in Nat,
         HeaderSize <= s, NEW cells \in Seq(Int), NEW entries, s + 1 + Len(cells) <= ChunkSize,
         Values \subseteq Seq(Nat), HeaderSize \in Nat,
         NEW m, m = Store(m0, s, <<Len(cells)>> \o cells),
         Agree(m0, m, s) => Encodes(m, s, vals, NumCols, cells, entries)
  PROVE  /\ m \in Memories /\ Agree(m0, m, s) /\ vals \in Seq(Seq(Nat)) /\ Len(vals) = NumCols
         /\ entries \in Seq(Entries)
         /\ Row(m, s, vals, s + 1 + Len(cells))
         /\ \A i \in DOMAIN entries : Known(m, entries[i][2], s + 1 + Len(cells))
  <1> DEFINE n == Len(cells)
             all == <<n>> \o cells
             next == s + 1 + n
  <1>1. n \in Nat /\ <<n>> \in Seq(Int) /\ Len(<<n>>) = 1 /\ <<n>>[1] = n
    OBVIOUS
  <1>2. all \in Seq(Int) /\ Len(all) = 1 + n
    <2> HIDE DEF n
    <2>1. Len(<<n>> \o cells) = Len(<<n>>) + Len(cells)
      BY <1>1
    <2>2. Len(cells) = n
      BY DEF n
    <2>3. <<n>> \o cells \in Seq(Int)
      BY <1>1, ConcatProperties
    <2> QED
      BY <1>1, <2>1, <2>2, <2>3
  <1>3. m = Store(m0, s, all)
    OBVIOUS
  <1>4. s + Len(all) <= ChunkSize
    BY <1>1, <1>2
  <1> HIDE DEF all
  <1>5. m \in Memories /\ Agree(m0, m, s) /\ Holding(m, s, all)
    BY <1>2, <1>3, <1>4, StoreFacts
  <1>6. Holding(m, s, <<n>>) /\ Holding(m, s + 1, cells)
    <2> HIDE DEF n
    <2>1. Holding(m, s, <<n>> \o cells)
      BY <1>5 DEF all
    <2>2. Holding(m, s, <<n>>) /\ Holding(m, s + Len(<<n>>), cells)
      BY <1>1, <2>1, HoldingParts
    <2> QED
      BY <1>1, <2>2
  <1>7. m[s] = n
    <2> HIDE DEF n
    <2>1. 1 \in 1 .. Len(<<n>>) /\ s + 1 - 1 = s
      BY <1>1
    <2>2. m[s + 1 - 1] = <<n>>[1]
      BY <1>6, <2>1 DEF Holding
    <2> QED
      BY <1>1, <2>1, <2>2
  <1>8. vals \in Seq(Seq(Nat)) /\ Len(vals) = NumCols /\ Start(vals, NumCols) = vals
    <2>1. Cols = 1 .. NumCols
      BY DEF Cols
    <2>2. vals \in [1 .. NumCols -> Seq(Nat)]
      BY <2>1
    <2>3. Start(vals, NumCols) = vals
      BY <2>2 DEF Start
    <2> QED
      BY <2>2, <2>3, SeqOfFun
  <1>9. Encodes(m, s, vals, NumCols, cells, entries)
    BY <1>5
  <1>10. /\ entries \in Seq(Entries) /\ \E p : Laid(m, p, vals, s, next)
         /\ \A i \in DOMAIN entries : Known(m, entries[i][2], next)
    BY <1>6, <1>8, <1>9 DEF Encodes
  <1>11. next - s - 1 = n
    BY <1>1
  <1>12. Row(m, s, vals, next)
    <2> HIDE DEF next, n
    <2> QED
      BY <1>7, <1>8, <1>10, <1>11 DEF Row
  <1> QED
    BY <1>5, <1>8, <1>10, <1>12

LEMMA AppendRowKeeps ==
  ASSUME WriterInv, NEW vals \in [Cols -> Values], AppendRow(vals), UNCHANGED table PROVE WriterInv' /\ Kept
  <1>1. /\ NumCols \in Nat /\ ChunkSize \in Nat /\ wc \in Chunks /\ End(wc) \in Nat /\ HeaderSize <= End(wc)
        /\ mem[wc] \in Memories /\ HeaderSize \in Nat /\ used[wc] \in Nat /\ End(wc) = HeaderSize + used[wc]
        /\ Values \subseteq Seq(Nat) /\ DictOk
    BY EndFacts, TableFacts DEF WriterInv, Typed, End
  <1> DEFINE s == End(wc)
             enc == Encode(vals, s + 1, FALSE)
             m == Store(mem[wc], s, <<Len(enc.cells)>> \o enc.cells)
  <1>2. /\ HeaderSize + used[wc] + 1 + Len(enc.cells) <= ChunkSize
        /\ mem' = [mem EXCEPT ![wc] = m] /\ used' = [used EXCEPT ![wc] = used[wc] + 1 + Len(enc.cells)]
        /\ seen' = Learn(seen, enc.entries) /\ rows' = [rows EXCEPT ![wc] = Append(rows[wc], vals)]
        /\ UNCHANGED <<gen, wc, pending, row>> /\ ~row.open
    BY <1>1, Zenon DEF AppendRow, Fits, Commit
  <1>3. ASSUME NEW x, Agree(mem[wc], x, s) PROVE Encodes(x, s, vals, NumCols, enc.cells, enc.entries)
    BY <1>1, <1>3, EncodesAll
  <1> DEFINE cells == enc.cells
             entries == enc.entries
             next == s + 1 + Len(cells)
  <1>4. cells \in Seq(Int)
    <2>1. Agree(mem[wc], mem[wc], s)
      BY DEF Agree
    <2> QED
      BY <1>3, <2>1 DEF Encodes
  <1>5. /\ m = Store(mem[wc], s, <<Len(cells)>> \o cells)
        /\ \A x : Agree(mem[wc], x, s) => Encodes(x, s, vals, NumCols, cells, entries)
        /\ s \in Nat /\ s = End(wc) /\ HeaderSize <= s /\ s = HeaderSize + used[wc]
        /\ s + 1 + Len(cells) <= ChunkSize /\ next = s + 1 + Len(cells)
        /\ mem' = [mem EXCEPT ![wc] = m] /\ used' = [used EXCEPT ![wc] = used[wc] + 1 + Len(cells)]
        /\ seen' = Learn(seen, entries)
    BY <1>1, <1>2, <1>3
  <1>6. next \in Nat /\ s < next /\ next - HeaderSize = used[wc] + 1 + Len(cells)
    <2> HIDE DEF cells
    <2>1. Len(cells) \in Nat
      BY <1>4
    <2> HIDE DEF s
    <2>2. s = HeaderSize + used[wc] /\ s \in Nat /\ used[wc] \in Nat /\ HeaderSize \in Nat
      BY <1>1, <1>5
    <2> QED
      BY <2>1, <2>2
  <1> HIDE DEF m, cells, entries, next, s, enc
  <1>7. /\ m \in Memories /\ Agree(mem[wc], m, s) /\ vals \in Seq(Seq(Nat)) /\ Len(vals) = NumCols
        /\ entries \in Seq(Entries) /\ Row(m, s, vals, next)
        /\ \A i \in DOMAIN entries : Known(m, entries[i][2], next)
    BY <1>1, <1>4, <1>5, RowStored
  <1>8. used' = [used EXCEPT ![wc] = next - HeaderSize]
    BY <1>5, <1>6
  <1>9. Typed' /\ Contents' /\ Kept /\ DictOk'
    <2>1. /\ Agree(mem[wc], m, End(wc)) /\ Row(m, End(wc), vals, next) /\ End(wc) < next /\ next <= ChunkSize
          /\ UNCHANGED <<table, gen, wc>> /\ rows' = [rows EXCEPT ![wc] = Append(rows[wc], vals)]
      BY <1>2, <1>5, <1>6, <1>7
    <2>2. mem' = [mem EXCEPT ![wc] = m] /\ seen' = Learn(seen, entries)
      BY <1>5
    <2> QED
      BY <1>6, <1>7, <1>8, <2>1, <2>2, RowCommitted
  <1>10. RowOk'
    BY <1>2 DEF WriterInv, RowOk, NoRow
  <1> QED
    BY <1>9, <1>10 DEF WriterInv

LEMMA NextFacts ==
  ASSUME Typed, Recyclable(NextChunk)
  PROVE  NextChunk \in Chunks /\ gen[NextChunk] + 1 \in gen[NextChunk] .. MaxGen
         /\ gen[NextChunk] + 1 # gen[NextChunk] /\ gen[NextChunk] \in Nat
  <1>1. /\ NumChunks \in Nat /\ NumChunks > 0 /\ wc \in 0 .. NumChunks - 1 /\ MaxGen \in Nat
        /\ gen \in [Chunks -> 0 .. MaxGen] /\ gen[NextChunk] < MaxGen
    BY TableFacts DEF Typed, Chunks, Recyclable
  <1>2. NextChunk \in Chunks
    <2>1. wc + 1 \in Nat
      BY <1>1
    <2>2. (wc + 1) % NumChunks \in 0 .. NumChunks - 1
      BY <1>1, <2>1
    <2> QED
      BY <2>2 DEF NextChunk, Chunks
  <1>3. gen[NextChunk] \in 0 .. MaxGen
    BY <1>1, <1>2
  <1> QED
    BY <1>1, <1>2, <1>3

\* The next chunk with nothing in it, or with one row.
LEMMA ChunkTaken ==
  ASSUME Typed, Contents, UNCHANGED table, NEW c \in Chunks, NEW m \in Memories,
         NEW u \in 0 .. ChunkSize - HeaderSize, NEW rs, \E at : Filled(m, at, rs, HeaderSize + u, NumCols),
         gen[c] + 1 \in gen[c] .. MaxGen, gen[c] \in Nat, wc' = c,
         mem' = [mem EXCEPT ![c] = m], used' = [used EXCEPT ![c] = u],
         rows' = [rows EXCEPT ![c] = rs], gen' = [gen EXCEPT ![c] = gen[c] + 1],
         \A k \in DOMAIN seen' : Known(m, seen'[k], HeaderSize + u), UNCHANGED row, ~row.open, RowOk,
         pending' = <<>>
  PROVE  WriterInv' /\ Kept
  <1> DEFINE g == gen[c] + 1
  <1>1. g \in gen[c] .. MaxGen /\ g # gen[c] /\ wc' \in Chunks
    OBVIOUS
  <1>2. Written(c, m, u, rs, g)
    BY DEF Written
  <1> HIDE DEF g
  <1>3. Typed' /\ Contents' /\ Kept
    BY <1>1, <1>2, ChunkWritten
  <1>4. mem'[wc'] = m /\ used'[wc'] = u
    BY DEF Typed
  <1>5. DictOk'
    BY <1>4 DEF DictOk
  <1>6. RowOk'
    BY DEF RowOk, NoRow
  <1> QED
    BY <1>3, <1>5, <1>6 DEF WriterInv

LEMMA AdvanceChunkKeeps ==
  ASSUME WriterInv, AdvanceChunk, UNCHANGED table PROVE WriterInv' /\ Kept
  <1> DEFINE c == NextChunk
             m == mem[c]
             u == 0
             rs == <<>>
  <1>1. c \in Chunks /\ gen[c] + 1 \in gen[c] .. MaxGen /\ gen[c] \in Nat
    BY NextFacts DEF WriterInv, AdvanceChunk
  <1> HIDE DEF c
  <1>2. /\ wc' = c /\ gen' = [gen EXCEPT ![c] = gen[c] + 1] /\ used' = [used EXCEPT ![c] = 0]
        /\ rows' = [rows EXCEPT ![c] = <<>>] /\ seen' = <<>> /\ pending' = <<>> /\ UNCHANGED <<mem, row>>
        /\ ~row.open
    BY DEF AdvanceChunk, Forgotten, c
  <1>3. mem' = [mem EXCEPT ![c] = m] /\ m \in Memories
    BY <1>1, <1>2 DEF WriterInv, Typed
  <1>4. u \in 0 .. ChunkSize - HeaderSize /\ HeaderSize + u = HeaderSize
    BY TableFacts DEF WriterInv, Typed
  <1>5. \E at : Filled(m, at, rs, HeaderSize + u, NumCols)
    BY <1>4, FilledNone
  <1>6. \A k \in DOMAIN seen' : Known(m, seen'[k], HeaderSize + u)
    BY <1>2
  <1>7. used' = [used EXCEPT ![c] = u] /\ rows' = [rows EXCEPT ![c] = rs]
    BY <1>2
  <1> HIDE DEF m, u, rs
  <1> QED
    BY <1>1, <1>2, <1>3, <1>4, <1>5, <1>6, <1>7, ChunkTaken DEF WriterInv

LEMMA PushRowKeeps ==
  ASSUME WriterInv, NEW vals \in [Cols -> Values], PushRow(vals), UNCHANGED table PROVE WriterInv' /\ Kept
  <1> DEFINE c == NextChunk
             s == HeaderSize
             enc == Encode(vals, s + 1, TRUE)
             cells == enc.cells
             entries == enc.entries
             m == Store(mem[c], s, <<Len(cells)>> \o cells)
             u == 1 + Len(cells)
             next == s + 1 + Len(cells)
  <1>1. c \in Chunks /\ gen[c] + 1 \in gen[c] .. MaxGen /\ gen[c] \in Nat
    BY NextFacts DEF WriterInv, PushRow
  <1>2. /\ wc' = c /\ gen' = [gen EXCEPT ![c] = gen[c] + 1] /\ pending' = <<>> /\ UNCHANGED row /\ ~row.open
    BY DEF PushRow
  <1>3. /\ NumCols \in Nat /\ ChunkSize \in Nat /\ mem[c] \in Memories /\ HeaderSize \in Nat
        /\ Values \subseteq Seq(Nat) /\ ChunkSize > HeaderSize
    BY <1>1, TableFacts DEF WriterInv, Typed
  <1>4. CASE Fits(0, enc)
    <2>1. /\ mem' = [mem EXCEPT ![c] = Store(mem[c], HeaderSize + 0, <<Len(cells)>> \o cells)]
          /\ used' = [used EXCEPT ![c] = 0 + 1 + Len(cells)]
          /\ seen' = Learn(<<>>, entries) /\ rows' = [rows EXCEPT ![c] = <<vals>>]
      BY <1>4, Zenon DEF PushRow, Commit, Forgotten
    <2>2. HeaderSize + 0 + 1 + Len(cells) <= ChunkSize
      BY <1>4 DEF Fits
    <2>3. ASSUME NEW x PROVE Encodes(x, s, vals, NumCols, cells, entries)
      <3>1. s \in Nat /\ HeaderSize <= s /\ TRUE \in BOOLEAN
        BY <1>3
      <3> QED
        BY <1>3, <3>1, EncodesAll
    <2> HIDE DEF enc
    <2>4. cells \in Seq(Int)
      BY <2>3 DEF Encodes
    <2> HIDE DEF cells, entries, c
    <2>5. Len(cells) \in Nat
      BY <2>4
    <2>6. /\ s \in Nat /\ HeaderSize <= s /\ s + 1 + Len(cells) <= ChunkSize /\ HeaderSize + 0 = s
          /\ u \in 0 .. ChunkSize - HeaderSize /\ 0 + 1 + Len(cells) = u /\ HeaderSize + u = next /\ next \in Nat
          /\ s < next
      BY <1>3, <2>2, <2>5
    <2>7. /\ mem' = [mem EXCEPT ![c] = m] /\ used' = [used EXCEPT ![c] = u]
      BY <2>1, <2>6
    <2>8. m = Store(mem[c], s, <<Len(cells)>> \o cells) /\ Encodes(m, s, vals, NumCols, cells, entries)
      BY <2>3
    <2>9. next = s + 1 + Len(cells)
      OBVIOUS
    <2> HIDE DEF m, u, next, s
    <2>10. /\ m \in Memories /\ vals \in Seq(Seq(Nat)) /\ Len(vals) = NumCols
           /\ entries \in Seq(Entries) /\ Row(m, s, vals, next)
           /\ \A i \in DOMAIN entries : Known(m, entries[i][2], next)
      BY <1>3, <2>4, <2>6, <2>8, <2>9, RowStored
    <2>11. \E at : Filled(m, at, <<vals>>, HeaderSize + u, NumCols)
      <3>1. HeaderSize = s
        BY DEF s
      <3>2. PICK at : Filled(m, at, <<>>, s, Len(vals))
        BY <3>1, FilledNone
      <3>3. \E at2 : Filled(m, at2, Append(<<>>, vals), next, Len(vals))
        BY <2>6, <2>10, <3>2, FilledMore
      <3>4. Append(<<>>, vals) = <<vals>>
        OBVIOUS
      <3> QED
        BY <2>6, <2>10, <3>3, <3>4
    <2>12. \A k \in DOMAIN seen' : Known(m, seen'[k], HeaderSize + u)
      <3>1. Agree(m, m, s)
        BY DEF Agree
      <3> DEFINE dict == <<>>
      <3>2. \A k \in DOMAIN dict : Known(m, dict[k], s)
        OBVIOUS
      <3>3. seen' = Learn(dict, entries) /\ s <= next
        BY <2>1, <2>6
      <3> HIDE DEF dict
      <3>4. \A k \in DOMAIN Learn(dict, entries) : Known(m, Learn(dict, entries)[k], next)
        BY <2>6, <2>10, <3>1, <3>2, <3>3, DictLearns
      <3> QED
        BY <2>6, <3>3, <3>4
    <2> DEFINE rs == <<vals>>
    <2>13. \E at : Filled(m, at, rs, HeaderSize + u, NumCols)
      BY <2>11
    <2>14. rows' = [rows EXCEPT ![c] = rs]
      BY <2>1
    <2> HIDE DEF rs
    <2> QED
      BY <1>1, <1>2, <2>6, <2>7, <2>10, <2>12, <2>13, <2>14, ChunkTaken DEF WriterInv, c
  <1>5. CASE ~Fits(0, enc)
    <2>1. /\ used' = [used EXCEPT ![c] = 0] /\ rows' = [rows EXCEPT ![c] = <<>>] /\ seen' = <<>> /\ UNCHANGED mem
      BY <1>5, Zenon DEF PushRow, Forgotten
    <2> HIDE DEF c
    <2> DEFINE x == mem[c]
               v == 0
               rs == <<>>
    <2>2. mem' = [mem EXCEPT ![c] = x] /\ x \in Memories
      BY <1>1, <1>3, <2>1 DEF WriterInv, Typed
    <2>3. v \in 0 .. ChunkSize - HeaderSize /\ HeaderSize + v = HeaderSize
      BY <1>3
    <2>4. \E at : Filled(x, at, rs, HeaderSize + v, NumCols)
      BY <2>3, FilledNone
    <2>5. \A k \in DOMAIN seen' : Known(x, seen'[k], HeaderSize + v)
      BY <2>1
    <2>6. used' = [used EXCEPT ![c] = v] /\ rows' = [rows EXCEPT ![c] = rs]
      BY <2>1
    <2> HIDE DEF x, v, rs
    <2> QED
      BY <1>1, <1>2, <2>2, <2>3, <2>4, <2>5, <2>6, ChunkTaken DEF WriterInv, c
  <1> QED
    BY <1>4, <1>5

----------------------------------------------------------------------------
LEMMA WriterStarts == Init => WriterInv
  <1> SUFFICES ASSUME Init PROVE WriterInv
    OBVIOUS
  <1>1. /\ table \in Tables /\ mem = [c \in Chunks |-> [o \in Cells |-> 0]] /\ used = [c \in Chunks |-> 0]
        /\ gen = [c \in Chunks |-> IF c = 0 THEN 1 ELSE 0] /\ wc = 0 /\ seen = <<>> /\ pending = <<>>
        /\ row = NoRow /\ rows = [c \in Chunks |-> <<>>]
    BY DEF Init
  <1>2. /\ 0 \in Chunks /\ NumCols \in Nat /\ ChunkSize \in Nat /\ ChunkSize > HeaderSize /\ HeaderSize \in Nat
        /\ MaxGen \in Nat /\ MaxGen > 0
    BY <1>1, TableFacts, DedupAssumption
  <1>3. Typed
    <2>1. mem \in [Chunks -> Memories] /\ used \in [Chunks -> 0 .. ChunkSize - HeaderSize]
      BY <1>1, <1>2 DEF Memories
    <2>2. gen \in [Chunks -> 0 .. MaxGen] /\ gen[0] > 0
      BY <1>1, <1>2
    <2>3. rows \in [Chunks -> Seq(Seq(Seq(Nat)))]
      BY <1>1
    <2> QED
      BY <1>1, <1>2, <2>1, <2>2, <2>3 DEF Typed
  <1>4. Contents
    <2>1. ASSUME NEW c \in Chunks PROVE \E at : Filled(mem[c], at, rows[c], End(c), NumCols)
      <3>1. rows[c] = <<>> /\ End(c) = HeaderSize
        BY <1>1, <1>2 DEF End
      <3> QED
        BY <3>1, FilledNone
    <2> QED
      BY <2>1 DEF Contents
  <1>5. DictOk
    BY <1>1 DEF DictOk
  <1>6. RowOk
    BY <1>1 DEF RowOk, NoRow
  <1> QED
    BY <1>3, <1>4, <1>5, <1>6 DEF WriterInv

LEMMA WriterSteps == WriterInv /\ [Next]_vars => WriterInv' /\ Kept
  <1> SUFFICES ASSUME WriterInv, [Next]_vars PROVE WriterInv' /\ Kept
    OBVIOUS
  <1>1. CASE UNCHANGED vars
    <2>1. WriterFrame /\ UNCHANGED table
      BY <1>1 DEF vars, WriterFrame
    <2> QED
      BY <2>1, ReadersKeep
  <1>2. CASE Next
    <2>0. UNCHANGED table
      BY <1>2 DEF Next
    <2>1. CASE BeginRow
      BY <2>0, <2>1, BeginRowKeeps
    <2>2. CASE \E v \in Values : PutStr(v)
      BY <2>0, <2>2, PutStrKeeps
    <2>3. CASE Finish
      BY <2>0, <2>3, FinishKeeps
    <2>4. CASE DropRow
      BY <2>0, <2>4, DropRowKeeps
    <2>5. CASE \E w \in [Cols -> Values] : AppendRow(w)
      BY <2>0, <2>5, AppendRowKeeps
    <2>6. CASE \E w \in [Cols -> Values] : PushRow(w)
      BY <2>0, <2>6, PushRowKeeps
    <2>7. CASE AdvanceChunk
      BY <2>0, <2>7, AdvanceChunkKeeps
    <2>8. CASE Reopen
      BY <2>0, <2>8, ReopenKeeps
    <2>9. CASE \E r \in Readers : Read(r) \/ Adopt(r)
      <3>1. WriterFrame
        BY <2>9, Zenon DEF Read, PinChunk, NextRow, ReadCol, Unpin, Adopt
      <3> QED
        BY <2>0, <3>1, ReadersKeep
    <2>10. CASE \E p, q \in Readers : Fork(p, q)
      <3>1. WriterFrame
        BY <2>10, Zenon DEF Fork
      <3> QED
        BY <2>0, <3>1, ReadersKeep
    <2> QED
      BY <1>2, <2>1, <2>2, <2>3, <2>4, <2>5, <2>6, <2>7, <2>8, <2>9, <2>10 DEF Next, Write
  <1> QED
    BY <1>1, <1>2

\* The rows of every chunk are the ones that were committed to it, every entry of
\* the dictionary and of the open row stands among them (writer.rs, dedup.rs).
THEOREM RowsStand == Spec => []WriterInv
  <1>1. WriterInv /\ [Next]_vars => WriterInv'
    BY WriterSteps
  <1> QED
    BY <1>1, WriterStarts, PTL DEF Spec

\* Committed bytes never change while the generation stays (row.rs: ChunkReadPin).
THEOREM BytesStay == Spec => CommittedFixed
  <1>1. WriterInv /\ [Next]_vars =>
          [\A c \in Chunks : gen'[c] = gen[c] =>
              /\ used'[c] >= used[c]
              /\ \A o \in HeaderSize .. HeaderSize + used[c] - 1 : mem'[c][o] = mem[c][o]]_vars
    <2> SUFFICES ASSUME WriterInv, [Next]_vars, NEW c \in Chunks, gen'[c] = gen[c]
                 PROVE  /\ used'[c] >= used[c]
                        /\ \A o \in HeaderSize .. HeaderSize + used[c] - 1 : mem'[c][o] = mem[c][o]
      OBVIOUS
    <2>1. Grows(mem[c], mem'[c], used[c], used'[c], rows[c], rows'[c])
      BY WriterSteps DEF Kept
    <2>2. used[c] \in Nat /\ used'[c] \in Nat /\ HeaderSize \in Nat
      <3>1. Typed /\ Typed' /\ table' = table /\ Chunks' = Chunks /\ ChunkSize' = ChunkSize
        <4>1. table' = table
          BY DEF Next, vars
        <4> QED
          BY <4>1, WriterSteps, TableKept DEF WriterInv
      <3> QED
        BY <3>1, TableFacts DEF Typed
    <2>3. ASSUME NEW o \in HeaderSize .. HeaderSize + used[c] - 1 PROVE mem'[c][o] = mem[c][o]
      <3>1. o \in Nat /\ HeaderSize <= o /\ o < HeaderSize + used[c]
        BY <2>2
      <3> QED
        BY <2>1, <3>1 DEF Grows, Agree
    <2> QED
      BY <2>1, <2>2, <2>3 DEF Grows
  <1> QED
    BY <1>1, RowsStand, PTL DEF Spec, CommittedFixed

----------------------------------------------------------------------------
(***************************************************************************)
(* What the walks over a chunk find.                                       *)
(***************************************************************************)
Decoded(m, p) == LET o == IF m[p] < 0 THEN -m[p] ELSE p
                 IN Slice(m, o + 1, o + 1 + m[o])

LEMMA SliceIs ==
  ASSUME NEW m, NEW o, NEW v, NEW lim \in Int, Stands(m, o, v, lim)
  PROVE  Slice(m, o + 1, o + 1 + m[o]) = v /\ o \in Nat /\ m[o] \in Nat /\ HeaderSize <= o /\ o + 1 + m[o] <= lim
  <1>1. /\ o \in Nat /\ HeaderSize <= o /\ v \in Seq(Nat) /\ Len(v) \in Nat /\ o + 1 + Len(v) <= lim
        /\ m[o] = Len(v) /\ \A i \in 1 .. Len(v) : m[o + i] = v[i]
    BY DEF Stands
  <1>2. o + 1 + m[o] - (o + 1) = Len(v)
    BY <1>1
  <1>3. \A i \in 1 .. Len(v) : m[o + 1 + i - 1] = v[i]
    <2> SUFFICES ASSUME NEW i \in 1 .. Len(v) PROVE m[o + 1 + i - 1] = v[i]
      OBVIOUS
    <2>1. o + 1 + i - 1 = o + i
      BY <1>1
    <2> QED
      BY <1>1, <2>1
  <1>4. Slice(m, o + 1, o + 1 + m[o]) = [i \in 1 .. Len(v) |-> v[i]]
    <2> DEFINE a == o + 1
               b == o + 1 + m[o]
    <2>0. b - a = Len(v)
      BY <1>1
    <2>1. \A i \in 1 .. Len(v) : m[a + i - 1] = v[i]
      BY <1>3
    <2> HIDE DEF a, b
    <2>2. Slice(m, a, b) = [i \in 1 .. Len(v) |-> v[i]]
      BY <2>0, <2>1 DEF Slice
    <2> QED
      BY <2>2 DEF a, b
  <1>5. [i \in 1 .. Len(v) |-> v[i]] = v
    BY <1>1
  <1> QED
    BY <1>1, <1>4, <1>5

\* A column decodes to its string, and the walk goes to the next one.
LEMMA ColFacts ==
  ASSUME NEW m, NEW o \in Nat, HeaderSize <= o, NEW v, NEW s \in Nat, NEW next \in Nat, ColAt(m, o, v, s, next), s < o
  PROVE  /\ Decoded(m, o) = v /\ After(m, o) = next /\ m[o] \in Int /\ o < next
         /\ m[o] < 0 => /\ -m[o] \in Nat /\ HeaderSize <= -m[o] /\ -m[o] < s
                        /\ m[-m[o]] \in Nat /\ -m[o] + 1 + m[-m[o]] <= s
         /\ m[o] >= 0 => o + 1 + m[o] = next
  <1>1. CASE next = o + 1 + Len(v) /\ Stands(m, o, v, next)
    <2>1. /\ Slice(m, o + 1, o + 1 + m[o]) = v /\ m[o] \in Nat
      BY <1>1, SliceIs
    <2>2. m[o] = Len(v)
      BY <1>1 DEF Stands
    <2> QED
      BY <1>1, <2>1, <2>2 DEF Decoded, After
  <1>2. CASE next = o + 1 /\ m[o] \in Int /\ m[o] < 0 /\ Stands(m, -m[o], v, s)
    <2> DEFINE b == -m[o]
    <2>1. Stands(m, b, v, s) /\ s \in Int
      BY <1>2
    <2> HIDE DEF b
    <2>2. Slice(m, b + 1, b + 1 + m[b]) = v /\ b \in Nat /\ m[b] \in Nat /\ HeaderSize <= b /\ b + 1 + m[b] <= s
      BY <2>1, SliceIs
    <2>3. b < s
      BY <2>2
    <2> QED
      BY <1>2, <2>2, <2>3 DEF Decoded, After, b
  <1> QED
    BY <1>1, <1>2 DEF ColAt

\* The walk over the rows.
LEMMA StartsAre ==
  ASSUME Typed, NEW c \in Chunks, NEW at, Filled(mem[c], at, rows[c], End(c), NumCols)
  PROVE  RowStarts(c) = at
  <1> DEFINE m == mem[c]
             k == Len(rows[c])
             nxt == [o \in Cells |-> Behind(m, o)]
  <1>1. /\ k \in Nat /\ at \in [1 .. k + 1 -> Nat] /\ Rises(at, k + 1) /\ at[1] = HeaderSize /\ at[k + 1] = End(c)
        /\ End(c) <= ChunkSize /\ ChunkSize \in Nat /\ End(c) = HeaderSize + used[c] /\ End(c) \in Nat
        /\ HeaderSize \in Nat
    <2>1. /\ k \in Nat /\ at \in [1 .. k + 1 -> Nat] /\ Rises(at, k + 1) /\ at[1] = HeaderSize
          /\ at[k + 1] = End(c)
      BY DEF Filled
    <2>2. End(c) <= ChunkSize /\ ChunkSize \in Nat /\ HeaderSize \in Nat /\ End(c) \in Nat
      BY EndFacts, TableFacts DEF Typed
    <2> QED
      BY <2>1, <2>2 DEF End
  <1>2. \A i \in 1 .. k : /\ at[i] \in Nat /\ at[i + 1] \in Nat /\ HeaderSize <= at[i] /\ at[i] < at[i + 1]
                          /\ at[i + 1] <= End(c)
    BY FilledFacts
  <1>3. \A i \in 1 .. k : m[at[i]] = at[i + 1] - at[i] - 1
    BY DEF Filled, Row
  <1>4. ASSUME NEW i \in 1 .. k PROVE nxt[at[i]] = at[i + 1]
    <2> DEFINE o == at[i]
               e == at[i + 1]
    <2>1. m[o] = e - o - 1 /\ o \in Nat /\ e \in Nat /\ o < e /\ HeaderSize <= o /\ e <= End(c)
      BY <1>2, <1>3
    <2> HIDE DEF o, e, m
    <2>2. o \in Cells
      BY <1>1, <2>1 DEF Cells
    <2>3. o \in Cells /\ m[o] = e - o - 1 /\ o \in Nat /\ e \in Nat /\ o < e
      BY <2>1, <2>2
    <2>4. Behind(m, o) = e
      BY <2>3 DEF Behind
    <2>5. nxt[o] = e
      BY <2>3, <2>4
    <2> QED
      BY <2>5 DEF o, e
  <1>5. k <= ChunkSize
    <2>1. k <= at[k + 1]
      BY <1>1, RiseRoom
    <2> QED
      BY <1>1, <2>1
  <1> HIDE DEF nxt, k, m
  <1>6. Hops(nxt, at[1], at[k + 1], ChunkSize)[ChunkSize] = at
    <2>1. /\ k \in Nat /\ at \in [1 .. k + 1 -> Nat] /\ Rises(at, k + 1)
          /\ \A i \in 1 .. k : nxt[at[i]] = at[i + 1]
          /\ ChunkSize \in Nat /\ k <= ChunkSize
      BY <1>1, <1>4, <1>5
    <2> QED
      BY <2>1, HopsAre
  <1> QED
    BY <1>1, <1>6 DEF RowStarts, nxt, m

Walk(nxt, p, k) ==
    p \in [1 .. k + 1 -> Nat] /\ Rises(p, k + 1) /\ \A i \in 1 .. k : nxt[p[i]] = p[i + 1]

LEMMA HopsAll ==
  ASSUME NEW nxt, NEW k \in Nat, NEW p, Walk(nxt, p, k)
  PROVE  Hops(nxt, p[1], p[k + 1], k)[k] = p
  <1>1. k <= k
    OBVIOUS
  <1> QED
    BY <1>1, HopsAre DEF Walk

\* The walk over the columns of a row.
LEMMA ColsAre ==
  ASSUME NEW m, NEW vals, NEW s \in Nat, NEW e \in Nat, NEW p, Laid(m, p, vals, s, e), m[s] = e - s - 1,
         vals \in Seq(Seq(Nat)), Len(vals) = NumCols, HeaderSize <= s, e <= ChunkSize, ChunkSize \in Nat,
         HeaderSize \in Nat
  PROVE  /\ ColStarts(m, s) = p
         /\ \A j \in 1 .. NumCols :
              /\ p[j] \in Nat /\ p[j + 1] \in Nat /\ s < p[j] /\ p[j] < p[j + 1] /\ p[j + 1] <= e
              /\ ColAt(m, p[j], vals[j], s, p[j + 1])
  <1> DEFINE k == NumCols
             nxt == [o \in Cells |-> After(m, o)]
  <1>1. /\ k \in Nat /\ p \in [1 .. k + 1 -> Nat] /\ Rises(p, k + 1) /\ p[1] = s + 1 /\ p[k + 1] = e
        /\ \A j \in 1 .. k : ColAt(m, p[j], vals[j], s, p[j + 1])
    BY DEF Laid
  <1> HIDE DEF k
  <1>2. ASSUME NEW j \in 1 .. k
        PROVE  p[j] \in Nat /\ p[j + 1] \in Nat /\ s < p[j] /\ p[j] < p[j + 1] /\ p[j + 1] <= e
    <2>1. p[j] \in Nat /\ p[j + 1] \in Nat /\ p[j] < p[j + 1]
      BY <1>1, RiseFacts
    <2>2. j \in 1 .. k + 1 /\ j + 1 \in 1 .. k + 1
      BY <1>1
    <2>3. p[1] <= p[j] /\ p[j + 1] <= p[k + 1]
      BY <1>1, <2>2, RiseFacts
    <2> QED
      BY <1>1, <2>1, <2>3
  <1>3. ASSUME NEW j \in 1 .. k PROVE nxt[p[j]] = p[j + 1]
    <2> DEFINE o == p[j]
               n == p[j + 1]
    <2>1. o \in Nat /\ n \in Nat /\ s < o /\ o < n /\ n <= e /\ ColAt(m, o, vals[j], s, n)
      BY <1>1, <1>2
    <2> HIDE DEF o, n
    <2>2. o \in Cells /\ HeaderSize <= o
      BY <2>1 DEF Cells
    <2>3. After(m, o) = n
      BY <2>1, <2>2, ColFacts
    <2>4. nxt[o] = n
      BY <2>2, <2>3
    <2> QED
      BY <2>4 DEF o, n
  <1>4. s + 1 + m[s] = e
    OBVIOUS
  <1> HIDE DEF nxt
  <1>5. Hops(nxt, p[1], p[k + 1], k)[k] = p
    <2>1. k \in Nat /\ Walk(nxt, p, k)
      BY <1>1, <1>3 DEF Walk
    <2> QED
      BY <2>1, HopsAll, Zenon
  <1>6. ColStarts(m, s) = p
    BY <1>1, <1>4, <1>5 DEF ColStarts, nxt, k
  <1> QED
    BY <1>1, <1>2, <1>6 DEF k

LEMMA FilledRows ==
  ASSUME Typed, NEW c \in Chunks, NEW at, Filled(mem[c], at, rows[c], End(c), NumCols), NEW i \in 1 .. Len(rows[c])
  PROVE  /\ at[i] \in Nat /\ at[i + 1] \in Nat /\ HeaderSize <= at[i] /\ at[i] < at[i + 1] /\ at[i + 1] <= End(c)
         /\ at[i + 1] <= ChunkSize /\ rows[c][i] \in Seq(Seq(Nat)) /\ Len(rows[c][i]) = NumCols
         /\ mem[c][at[i]] = at[i + 1] - at[i] - 1
         /\ \E p : Laid(mem[c], p, rows[c][i], at[i], at[i + 1])
  <1>1. /\ at[i] \in Nat /\ at[i + 1] \in Nat /\ HeaderSize <= at[i] /\ at[i] < at[i + 1] /\ at[i + 1] <= End(c)
    BY FilledFacts
  <1>2. Len(rows[c][i]) = NumCols /\ Row(mem[c], at[i], rows[c][i], at[i + 1])
    BY DEF Filled
  <1>3. End(c) <= ChunkSize /\ End(c) \in Nat /\ ChunkSize \in Nat
    BY EndFacts, TableFacts DEF Typed
  <1> DEFINE e == at[i + 1]
  <1>4. e <= ChunkSize
    <2>1. e \in Nat /\ e <= End(c)
      BY <1>1
    <2> HIDE DEF e
    <2> QED
      BY <1>3, <2>1
  <1> QED
    BY <1>1, <1>2, <1>4 DEF Row

LEMMA RowDecodes ==
  ASSUME NumCols \in Nat, NEW m, NEW vals, NEW s \in Nat, NEW e \in Nat, NEW p, Laid(m, p, vals, s, e), m[s] = e - s - 1,
         vals \in Seq(Seq(Nat)), Len(vals) = NumCols, HeaderSize <= s, e <= ChunkSize, ChunkSize \in Nat,
         HeaderSize \in Nat
  PROVE  LET offs == ColStarts(m, s)
         IN /\ [j \in 1 .. Len(offs) - 1 |-> Decoded(m, offs[j])] = vals
            /\ \A q \in Range(offs) : q < s + 1 + m[s] /\ m[q] < 0 => -m[q] \in HeaderSize .. s - 1
  <1>1. /\ ColStarts(m, s) = p
        /\ \A j \in 1 .. NumCols :
              /\ p[j] \in Nat /\ p[j + 1] \in Nat /\ s < p[j] /\ p[j] < p[j + 1] /\ p[j + 1] <= e
              /\ ColAt(m, p[j], vals[j], s, p[j + 1])
    BY ColsAre
  <1>2. p \in [1 .. NumCols + 1 -> Nat] /\ p[NumCols + 1] = e /\ Len(p) = NumCols + 1 /\ DOMAIN p = 1 .. NumCols + 1
    <2>1. p \in [1 .. NumCols + 1 -> Nat] /\ p[NumCols + 1] = e
      BY DEF Laid
    <2>2. NumCols + 1 \in Nat
      OBVIOUS
    <2> QED
      BY <2>1, <2>2, SeqOfFun
  <1>3. ASSUME NEW j \in 1 .. NumCols
        PROVE  Decoded(m, p[j]) = vals[j] /\ (m[p[j]] < 0 => -m[p[j]] \in HeaderSize .. s - 1)
    <2> DEFINE o == p[j]
               n == p[j + 1]
    <2>1. o \in Nat /\ n \in Nat /\ s < o /\ ColAt(m, o, vals[j], s, n) /\ HeaderSize <= o
      BY <1>1
    <2> HIDE DEF o, n
    <2>2. Decoded(m, o) = vals[j] /\ (m[o] < 0 => -m[o] \in Nat /\ HeaderSize <= -m[o] /\ -m[o] < s)
      BY <2>1, ColFacts
    <2>3. m[o] < 0 => -m[o] \in HeaderSize .. s - 1
      BY <2>2
    <2> QED
      BY <2>2, <2>3 DEF o
  <1>4. [j \in 1 .. Len(p) - 1 |-> Decoded(m, p[j])] = vals
    <2>1. Len(p) - 1 = NumCols
      BY <1>2
    <2>2. vals = [j \in 1 .. NumCols |-> vals[j]]
      OBVIOUS
    <2> QED
      BY <1>3, <2>1, <2>2
  <1>5. ASSUME NEW q \in Range(p), q < s + 1 + m[s], m[q] < 0 PROVE -m[q] \in HeaderSize .. s - 1
    <2>1. PICK j \in 1 .. NumCols + 1 : q = p[j]
      BY <1>2 DEF Range
    <2>2. s + 1 + m[s] = e
      OBVIOUS
    <2>3. j # NumCols + 1
      BY <1>2, <1>5, <2>1, <2>2
    <2>4. j \in 1 .. NumCols
      BY <2>3
    <2> QED
      BY <1>3, <1>5, <2>1, <2>4
  <1> HIDE DEF Decoded
  <1> QED
    BY <1>1, <1>4, <1>5

DecodedRow(m, s) == LET offs == ColStarts(m, s) IN [j \in 1 .. Len(offs) - 1 |-> Decoded(m, offs[j])]

LEMMA ChunksDecode ==
  ASSUME Typed, Contents, NEW c \in Chunks
  PROVE  /\ rows[c] = [i \in 1 .. Len(RowStarts(c)) - 1 |-> DecodedRow(mem[c], RowStarts(c)[i])]
         /\ ValidChunk(c)
  <1> DEFINE m == mem[c]
             k == Len(rows[c])
  <1>1. PICK at : Filled(mem[c], at, rows[c], End(c), NumCols)
    BY DEF Contents
  <1>2. RowStarts(c) = at
    BY <1>1, StartsAre
  <1>3. /\ k \in Nat /\ at \in [1 .. k + 1 -> Nat] /\ at[k + 1] = End(c) /\ rows[c] \in Seq(Seq(Seq(Nat)))
    BY <1>1 DEF Filled
  <1>4. Len(at) = k + 1 /\ Len(at) - 1 = k
    <2>1. k + 1 \in Nat
      BY <1>3
    <2>2. Len(at) = k + 1
      BY <1>3, <2>1, SeqOfFun
    <2> HIDE DEF k
    <2> QED
      BY <1>3, <2>2
  <1>5. NumCols \in Nat /\ ChunkSize \in Nat /\ HeaderSize \in Nat /\ End(c) \in Nat /\ End(c) = HeaderSize + used[c]
    BY TableFacts, EndFacts DEF Typed, End
  <1>6. ASSUME NEW i \in 1 .. k
        PROVE  /\ DecodedRow(m, at[i]) = rows[c][i]
               /\ \A q \in Range(ColStarts(m, at[i])) :
                    q < at[i] + 1 + m[at[i]] /\ m[q] < 0 => -m[q] \in HeaderSize .. HeaderSize + used[c] - 1
    <2> DEFINE s == at[i]
               e == at[i + 1]
               vals == rows[c][i]
    <2>1. /\ s \in Nat /\ e \in Nat /\ HeaderSize <= s /\ s < e /\ e <= End(c) /\ e <= ChunkSize
          /\ vals \in Seq(Seq(Nat)) /\ Len(vals) = NumCols /\ m[s] = e - s - 1
          /\ \E p : Laid(m, p, vals, s, e)
      BY <1>1, FilledRows
    <2> HIDE DEF s, e, vals, m
    <2>2. PICK p : Laid(m, p, vals, s, e)
      BY <2>1
    <2> DEFINE offs == ColStarts(m, s)
    <2>3. /\ [j \in 1 .. Len(offs) - 1 |-> Decoded(m, offs[j])] = vals
          /\ \A q \in Range(offs) : q < s + 1 + m[s] /\ m[q] < 0 => -m[q] \in HeaderSize .. s - 1
      BY <1>5, <2>1, <2>2, RowDecodes
    <2>4. DecodedRow(m, s) = vals
      BY <2>3 DEF DecodedRow
    <2> HIDE DEF offs
    <2>5. ASSUME NEW q \in Range(offs), q < s + 1 + m[s], m[q] < 0
          PROVE  -m[q] \in HeaderSize .. HeaderSize + used[c] - 1
      <3> DEFINE b == -m[q]
      <3>1. b \in HeaderSize .. s - 1
        BY <2>3, <2>5
      <3>2. s \in Nat /\ e \in Nat /\ s < e /\ e <= HeaderSize + used[c]
        BY <1>5, <2>1
      <3>3. used[c] \in Nat
        BY EndFacts
      <3> HIDE DEF b
      <3>4. b \in HeaderSize .. HeaderSize + used[c] - 1
        BY <1>5, <3>1, <3>2, <3>3
      <3> QED
        BY <3>4 DEF b
    <2> QED
      BY <2>4, <2>5 DEF s, vals, offs
  <1>7. rows[c] = [i \in 1 .. Len(at) - 1 |-> DecodedRow(m, at[i])]
    <2>1. rows[c] = [i \in 1 .. k |-> rows[c][i]]
      <3>1. PICK T, rs : T = Seq(Seq(Nat)) /\ rs = rows[c]
        OBVIOUS
      <3>2. rs \in Seq(T) /\ Len(rs) = k
        BY <1>3, <3>1
      <3>3. rs = [i \in 1 .. Len(rs) |-> rs[i]]
        BY <3>2, SeqIsFun, Zenon
      <3> QED
        BY <3>1, <3>2, <3>3, Zenon
    <2>2. \A i \in 1 .. k : DecodedRow(m, at[i]) = rows[c][i]
      BY <1>6
    <2> HIDE DEF m
    <2> QED
      BY <1>4, <2>1, <2>2
  <1>8. ValidChunk(c)
    <2>1. Last(at) = HeaderSize + used[c]
      BY <1>3, <1>4, <1>5 DEF Last
    <2>2. ASSUME NEW o \in {at[i] : i \in 1 .. Len(at) - 1}, NEW q \in Range(ColStarts(m, o)),
                 q < o + 1 + m[o], m[q] < 0
          PROVE  -m[q] \in HeaderSize .. HeaderSize + used[c] - 1
      <3>1. PICK i \in 1 .. k : o = at[i]
        BY <1>4
      <3> HIDE DEF m
      <3> QED
        BY <1>6, <2>2, <3>1
    <2> QED
      BY <1>2, <2>1, <2>2 DEF ValidChunk
  <1> QED
    BY <1>2, <1>7, <1>8

LEMMA BufferReads == WriterInv => RowsDecode /\ Reopenable
  <1> SUFFICES ASSUME WriterInv PROVE RowsDecode /\ Reopenable
    OBVIOUS
  <1>1. Reopenable
    BY ChunksDecode DEF WriterInv, Reopenable
  <1>2. RowsDecode
    <2> SUFFICES ASSUME NEW c \in Chunks
                 PROVE  rows[c] = [i \in 1 .. Len(RowStarts(c)) - 1 |-> DecodedRow(mem[c], RowStarts(c)[i])]
      BY DEF RowsDecode, DecodedRow, Decoded
    <2> QED
      BY ChunksDecode DEF WriterInv
  <1> QED
    BY <1>1, <1>2

----------------------------------------------------------------------------
(***************************************************************************)
(* What a reader has got and where it stands, in a chunk that is still the *)
(* one it pinned.                                                          *)
(***************************************************************************)
\* Between two rows: the first Len(out) of those it wants have been read.
Between(m, pos, end, out, want) ==
    \E at : /\ Filled(m, at, want, end, NumCols) /\ out \in Seq(Seq(Seq(Nat))) /\ Len(out) <= Len(want)
            /\ pos = at[Len(out) + 1] /\ \A i \in 1 .. Len(out) : out[i] = want[i]

\* In a row: behind the ones in done it has some columns, but not all of them.
InRow(m, at, p, done, part, pos, end, cur, rend, want) ==
    /\ Filled(m, at, want, end, NumCols)
    /\ done \in Seq(Seq(Seq(Nat))) /\ Len(done) < Len(want) /\ \A i \in 1 .. Len(done) : done[i] = want[i]
    /\ pos = at[Len(done) + 2] /\ rend = pos
    /\ Laid(m, p, want[Len(done) + 1], at[Len(done) + 1], rend)
    /\ part \in Seq(Seq(Nat)) /\ Len(part) < NumCols
    /\ \A j \in 1 .. Len(part) : part[j] = want[Len(done) + 1][j]
    /\ cur = p[Len(part) + 1]

Inside(m, pos, end, cur, rend, out, want) ==
    \E at, p, done, part : out = Append(done, part) /\ InRow(m, at, p, done, part, pos, end, cur, rend, want)

LEMMA FilledAt ==
  ASSUME NEW m, NEW at, NEW rs, NEW e, NEW n, Filled(m, at, rs, e, n), NEW i \in 1 .. Len(rs)
  PROVE  /\ at[i] \in Nat /\ at[i + 1] \in Nat /\ HeaderSize <= at[i] /\ at[i] < at[i + 1] /\ at[i + 1] <= e
         /\ rs[i] \in Seq(Seq(Nat)) /\ Len(rs[i]) = n /\ m[at[i]] = at[i + 1] - at[i] - 1
         /\ \E p : Laid(m, p, rs[i], at[i], at[i + 1])
  <1>1. /\ at[i] \in Nat /\ at[i + 1] \in Nat /\ HeaderSize <= at[i] /\ at[i] < at[i + 1]
        /\ at[i + 1] <= e /\ rs[i] \in Seq(Seq(Nat))
    BY FilledFacts
  <1>2. Len(rs[i]) = n /\ Row(m, at[i], rs[i], at[i + 1])
    BY DEF Filled
  <1> QED
    BY <1>1, <1>2 DEF Row

LEMMA PinnedBetween ==
  ASSUME NEW m, NEW at, NEW rs, NEW e, Filled(m, at, rs, e, NumCols)
  PROVE  Between(m, HeaderSize, e, <<>>, rs)
  <1>1. Len(rs) \in Nat /\ at[1] = HeaderSize /\ Len(<<>>) = 0 /\ <<>> \in Seq(Seq(Seq(Nat)))
    BY DEF Filled
  <1>2. Len(<<>>) + 1 = 1 /\ Len(<<>>) <= Len(rs) /\ \A i \in 1 .. Len(<<>>) : <<>>[i] = rs[i]
    BY <1>1
  <1> QED
    BY <1>1, <1>2 DEF Between

\* The next row is there, whole.
LEMMA NextRowReads ==
  ASSUME NumCols \in Nat, NumCols > 0, NEW m, NEW pos, NEW end, NEW out, NEW want,
         Between(m, pos, end, out, want), pos < end
  PROVE  /\ m[pos] \in Nat /\ pos + 1 + m[pos] <= end
         /\ Inside(m, pos + 1 + m[pos], end, pos + 1, pos + 1 + m[pos], Append(out, <<>>), want)
  <1>1. PICK at : /\ Filled(m, at, want, end, NumCols) /\ out \in Seq(Seq(Seq(Nat))) /\ Len(out) <= Len(want)
                  /\ pos = at[Len(out) + 1] /\ \A i \in 1 .. Len(out) : out[i] = want[i]
    BY DEF Between
  <1> DEFINE d == Len(out)
             n == d + 1
  <1>2. d \in Nat /\ Len(want) \in Nat /\ at[Len(want) + 1] = end /\ end \in Nat
    BY <1>1, FilledFacts DEF Filled
  <1>3. d < Len(want)
    <2>1. ASSUME d = Len(want) PROVE FALSE
      <3>1. pos = end
        BY <1>1, <1>2, <2>1
      <3> QED
        BY <1>2, <3>1
    <2> HIDE DEF d
    <2> QED
      BY <1>1, <1>2, <2>1 DEF d
  <1>4. n \in 1 .. Len(want) /\ n + 1 = d + 2
    <2> HIDE DEF d
    <2> QED
      BY <1>2, <1>3
  <1> HIDE DEF d
  <1>5. pos = at[n]
    BY <1>1 DEF d
  <1> HIDE DEF n
  <1> DEFINE e == at[n + 1]
             s == at[n]
             vals == want[n]
  <1>6. /\ s \in Nat /\ e \in Nat /\ s < e /\ e <= end /\ vals \in Seq(Seq(Nat)) /\ Len(vals) = NumCols
        /\ m[s] = e - s - 1 /\ \E p : Laid(m, p, vals, s, e)
    BY <1>1, <1>4, FilledAt
  <1>7. s = pos
    BY <1>5
  <1>8. m[pos] \in Nat /\ pos + 1 + m[pos] = e /\ pos + 1 + m[pos] <= end
    <2> HIDE DEF s, e, vals
    <2> QED
      BY <1>2, <1>6, <1>7
  <1>9. PICK p : Laid(m, p, vals, s, e)
    BY <1>6
  <1>10. p[1] = pos + 1
    BY <1>7, <1>9 DEF Laid
  <1>11. InRow(m, at, p, out, <<>>, e, end, pos + 1, e, want)
    <2> DEFINE part == <<>>
    <2>1. part \in Seq(Seq(Nat)) /\ Len(part) = 0
      OBVIOUS
    <2> HIDE DEF part
    <2>2. Len(part) < NumCols /\ pos + 1 = p[Len(part) + 1]
      BY <1>10, <2>1
    <2>3. \A j \in 1 .. Len(part) : part[j] = want[Len(out) + 1][j]
      BY <2>1
    <2>4. n = Len(out) + 1
      BY DEF n, d
    <2>5. e = at[Len(out) + 2] /\ e = e
      <3>1. e = at[d + 2]
        BY <1>4
      <3> QED
        BY <3>1 DEF d
    <2>6. Laid(m, p, want[Len(out) + 1], at[Len(out) + 1], e)
      BY <1>9, <2>4
    <2>7. Len(out) < Len(want)
      BY <1>3 DEF d
    <2> HIDE DEF e, s, vals
    <2>8. InRow(m, at, p, out, part, e, end, pos + 1, e, want)
      BY <1>1, <2>1, <2>2, <2>3, <2>5, <2>6, <2>7, Zenon DEF InRow
    <2> QED
      BY <2>8 DEF part
  <1>12. Inside(m, e, end, pos + 1, e, Append(out, <<>>), want)
    BY <1>11, Zenon DEF Inside
  <1> QED
    BY <1>8, <1>12

\* The string a cursor stands at, and what it checks before it reads it.
LEMMA CursorReads ==
  ASSUME NumCols \in Nat, ChunkSize \in Nat, HeaderSize \in Nat, NEW m, NEW at, NEW p, NEW done, NEW part, NEW pos,
         NEW end, NEW cur, NEW rend, NEW want, InRow(m, at, p, done, part, pos, end, cur, rend, want),
         end <= ChunkSize
  PROVE  /\ Len(done) \in Nat /\ Len(part) \in Nat /\ Len(done) + 1 \in 1 .. Len(want) /\ Len(part) + 1 \in 1 .. NumCols
         /\ want[Len(done) + 1] \in Seq(Seq(Nat)) /\ Len(want[Len(done) + 1]) = NumCols
         /\ Decoded(m, cur) = want[Len(done) + 1][Len(part) + 1]
         /\ After(m, cur) = p[Len(part) + 2] /\ m[cur] \in Int /\ cur \in Nat /\ rend \in Nat /\ cur < rend
         /\ m[cur] < 0 => Known(m, -m[cur], end) /\ Within(m, -m[cur], ChunkSize)
         /\ m[cur] >= 0 => Within(m, cur, rend)
  <1> DEFINE n == Len(done) + 1
             j == Len(part) + 1
             vals == want[n]
             s == at[n]
             e == at[n + 1]
             nxt == p[j + 1]
  <1>1. /\ Filled(m, at, want, end, NumCols) /\ Len(done) \in Nat /\ Len(part) \in Nat /\ Len(done) < Len(want)
        /\ Len(part) < NumCols /\ pos = at[Len(done) + 2] /\ rend = pos /\ cur = p[j]
        /\ Laid(m, p, vals, s, rend)
    BY DEF InRow
  <1>2. Len(want) \in Nat /\ end \in Nat
    BY <1>1, FilledFacts
  <1>3. n \in 1 .. Len(want) /\ n + 1 = Len(done) + 2 /\ j \in 1 .. NumCols /\ j + 1 = Len(part) + 2
    <2> DEFINE a == Len(done)
               b == Len(part)
    <2>1. a \in Nat /\ b \in Nat /\ a < Len(want) /\ b < NumCols
      BY <1>1
    <2> HIDE DEF a, b
    <2>2. a + 1 \in 1 .. Len(want) /\ a + 1 + 1 = a + 2 /\ b + 1 \in 1 .. NumCols /\ b + 1 + 1 = b + 2
      BY <1>2, <2>1
    <2> QED
      BY <2>2 DEF a, b
  <1>4. rend = e
    BY <1>1, <1>3
  <1> HIDE DEF n, j
  <1>5. /\ s \in Nat /\ e \in Nat /\ HeaderSize <= s /\ s < e /\ e <= end /\ vals \in Seq(Seq(Nat))
        /\ Len(vals) = NumCols /\ m[s] = e - s - 1
    BY <1>1, <1>3, FilledAt
  <1> HIDE DEF s, e, vals
  <1>6. e <= ChunkSize
    BY <1>2, <1>5
  <1>7. /\ p[j] \in Nat /\ p[j + 1] \in Nat /\ s < p[j] /\ p[j] < p[j + 1] /\ p[j + 1] <= e
        /\ ColAt(m, p[j], vals[j], s, p[j + 1])
    BY <1>1, <1>3, <1>4, <1>5, <1>6, ColsAre
  <1>8. cur \in Nat /\ nxt \in Nat /\ s < cur /\ cur < nxt /\ nxt <= e /\ ColAt(m, cur, vals[j], s, nxt)
    BY <1>1, <1>7
  <1> HIDE DEF nxt
  <1>9. HeaderSize <= cur
    BY <1>5, <1>8
  <1>10. /\ Decoded(m, cur) = vals[j] /\ After(m, cur) = nxt /\ m[cur] \in Int
         /\ m[cur] < 0 => /\ -m[cur] \in Nat /\ HeaderSize <= -m[cur] /\ -m[cur] < s
                          /\ m[-m[cur]] \in Nat /\ -m[cur] + 1 + m[-m[cur]] <= s
         /\ m[cur] >= 0 => cur + 1 + m[cur] = nxt
    BY <1>5, <1>8, <1>9, ColFacts
  <1>11. ASSUME m[cur] < 0 PROVE Known(m, -m[cur], end) /\ Within(m, -m[cur], ChunkSize)
    <2> DEFINE o == -m[cur]
    <2>1. o \in Nat /\ HeaderSize <= o /\ o < s /\ m[o] \in Nat /\ o + 1 + m[o] <= s
      BY <1>10, <1>11
    <2> HIDE DEF o
    <2>2. s <= end /\ s <= ChunkSize
      BY <1>2, <1>5, <1>6
    <2>3. o + 1 + m[o] <= end /\ o + 1 + m[o] <= ChunkSize /\ o \in HeaderSize .. ChunkSize - 1
      BY <1>2, <1>5, <2>1, <2>2
    <2> QED
      BY <2>1, <2>3 DEF Known, Within, o
  <1>12. ASSUME m[cur] >= 0 PROVE Within(m, cur, rend)
    <2>1. cur + 1 + m[cur] <= e /\ cur \in HeaderSize .. e - 1
      BY <1>5, <1>8, <1>9, <1>10, <1>12
    <2> QED
      BY <1>4, <1>12, <2>1 DEF Within
  <1>13. rend \in Nat /\ cur < rend
    BY <1>4, <1>5, <1>8
  <1>14. nxt = p[Len(part) + 2] /\ vals = want[Len(done) + 1] /\ vals[j] = want[Len(done) + 1][Len(part) + 1]
    BY <1>3 DEF nxt, vals, n, j
  <1>15. n = Len(done) + 1 /\ j = Len(part) + 1
    BY DEF n, j
  <1> QED
    BY <1>1, <1>3, <1>5, <1>8, <1>10, <1>11, <1>12, <1>13, <1>14, <1>15

\* A row that has got its last column is like the one that was written.
LEMMA RowComplete ==
  ASSUME NEW part \in Seq(Seq(Nat)), NEW vals \in Seq(Seq(Nat)), Len(part) + 1 = Len(vals),
         \A j \in 1 .. Len(part) : part[j] = vals[j]
  PROVE  Append(part, vals[Len(part) + 1]) = vals
  <1> DEFINE k == Len(part)
             row2 == Append(part, vals[k + 1])
  <1>1. k \in Nat /\ vals \in [1 .. k + 1 -> Seq(Nat)] /\ vals[k + 1] \in Seq(Nat)
    BY DEF k
  <1>2. row2 \in [1 .. k + 1 -> Seq(Nat)] /\ row2[k + 1] = vals[k + 1] /\ \A j \in 1 .. k : row2[j] = part[j]
    <2> DEFINE v == vals[k + 1]
    <2>1. v \in Seq(Nat)
      BY <1>1
    <2> HIDE DEF v
    <2>2. /\ Append(part, v) \in Seq(Seq(Nat)) /\ Len(Append(part, v)) = k + 1 /\ Append(part, v)[k + 1] = v
          /\ \A j \in 1 .. k : Append(part, v)[j] = part[j]
      BY <2>1
    <2> DEFINE a == Append(part, v)
    <2> HIDE DEF a
    <2>3. a \in Seq(Seq(Nat)) /\ Len(a) = k + 1
      BY <2>2 DEF a
    <2>4. a \in [1 .. k + 1 -> Seq(Nat)]
      BY <2>3
    <2> QED
      BY <2>2, <2>4 DEF a, v
  <1>3. \A j \in 1 .. k + 1 : row2[j] = vals[j]
    <2> SUFFICES ASSUME NEW j \in 1 .. k + 1 PROVE row2[j] = vals[j]
      OBVIOUS
    <2>1. CASE j = k + 1
      BY <1>2, <2>1
    <2>2. CASE j # k + 1
      <3>1. j \in 1 .. k
        BY <1>1, <2>2
      <3> QED
        BY <1>2, <3>1
    <2> QED
      BY <2>1, <2>2
  <1> HIDE DEF row2, k
  <1>4. row2 = vals
    BY <1>1, <1>2, <1>3
  <1> QED
    BY <1>4 DEF row2, k

\* The cursor has returned v.
LEMMA CursorMoves ==
  ASSUME NumCols \in Nat, ChunkSize \in Nat, HeaderSize \in Nat, NEW m, NEW at, NEW p, NEW done, NEW part, NEW pos,
         NEW end, NEW cur, NEW rend, NEW want, InRow(m, at, p, done, part, pos, end, cur, rend, want),
         end <= ChunkSize, NEW v, v = Decoded(m, cur)
  PROVE  IF Len(Append(part, v)) = NumCols
         THEN Between(m, pos, end, Append(done, Append(part, v)), want)
         ELSE Inside(m, pos, end, After(m, cur), rend, Append(done, Append(part, v)), want)
  <1> DEFINE d == Len(done)
             n == d + 1
             k == Len(part)
             vals == want[n]
             part2 == Append(part, v)
             out2 == Append(done, part2)
  <1>1. /\ Filled(m, at, want, end, NumCols) /\ done \in Seq(Seq(Seq(Nat))) /\ d < Len(want)
        /\ \A i \in 1 .. d : done[i] = want[i]
        /\ pos = at[d + 2] /\ rend = pos
        /\ Laid(m, p, vals, at[n], rend) /\ part \in Seq(Seq(Nat)) /\ k < NumCols
        /\ \A j \in 1 .. k : part[j] = vals[j]
    BY DEF InRow
  <1>2. /\ d \in Nat /\ k \in Nat /\ n \in 1 .. Len(want) /\ k + 1 \in 1 .. NumCols /\ vals \in Seq(Seq(Nat))
        /\ Len(vals) = NumCols /\ v = vals[k + 1] /\ After(m, cur) = p[k + 2]
    BY CursorReads
  <1>3. Len(want) \in Nat
    BY <1>1, FilledFacts
  <1> HIDE DEF vals
  <1>4. v \in Seq(Nat)
    BY <1>2
  <1>5. /\ part2 \in Seq(Seq(Nat)) /\ Len(part2) = k + 1 /\ part2[k + 1] = v
        /\ \A j \in 1 .. k : part2[j] = part[j]
    BY <1>1, <1>4
  <1>6. \A j \in 1 .. k + 1 : part2[j] = vals[j]
    <2> SUFFICES ASSUME NEW j \in 1 .. k + 1 PROVE part2[j] = vals[j]
      OBVIOUS
    <2> HIDE DEF part2, k
    <2>1. CASE j = k + 1
      BY <1>2, <1>5, <2>1
    <2>2. CASE j # k + 1
      <3>1. j \in 1 .. k
        BY <1>2, <2>2
      <3> QED
        BY <1>1, <1>5, <3>1
    <2> QED
      BY <2>1, <2>2
  <1>7. CASE k + 1 = NumCols
    <2>1. part2 = vals
      <3>1. Append(part, vals[Len(part) + 1]) = vals
        BY <1>1, <1>2, <1>7, RowComplete
      <3> QED
        BY <1>2, <3>1
    <2> HIDE DEF part2
    <2>2. /\ out2 \in Seq(Seq(Seq(Nat))) /\ Len(out2) = d + 1 /\ out2[d + 1] = part2
          /\ \A i \in 1 .. d : out2[i] = done[i]
      BY <1>1, <1>5
    <2> HIDE DEF out2
    <2>3. \A i \in 1 .. Len(out2) : out2[i] = want[i]
      <3> SUFFICES ASSUME NEW i \in 1 .. d + 1 PROVE out2[i] = want[i]
        BY <2>2
      <3>1. CASE i = d + 1
        BY <2>1, <2>2, <3>1 DEF vals
      <3>2. CASE i # d + 1
        <4>1. i \in 1 .. d
          BY <1>2, <3>2
        <4> QED
          BY <1>1, <2>2, <4>1
      <3> QED
        BY <3>1, <3>2
    <2>4. Len(out2) <= Len(want) /\ Len(out2) + 1 = d + 2
      <3> HIDE DEF d
      <3> QED
        BY <1>1, <1>2, <1>3, <2>2
    <2>5. Between(m, pos, end, out2, want)
      BY <1>1, <2>2, <2>3, <2>4 DEF Between
    <2> QED
      BY <1>5, <1>7, <2>5 DEF out2, part2
  <1>8. CASE k + 1 # NumCols
    <2>1. Len(part2) < NumCols /\ Len(part2) + 1 = k + 2
      <3> HIDE DEF k, part2
      <3> QED
        BY <1>1, <1>2, <1>5, <1>8
    <2>2. After(m, cur) = p[Len(part2) + 1]
      BY <1>2, <2>1
    <2>3. \A j \in 1 .. Len(part2) : part2[j] = want[Len(done) + 1][j]
      BY <1>5, <1>6 DEF vals
    <2> HIDE DEF part2
    <2>4. InRow(m, at, p, done, part2, pos, end, After(m, cur), rend, want)
      <3>1. Laid(m, p, want[Len(done) + 1], at[Len(done) + 1], rend)
        BY <1>1 DEF vals
      <3>2. \A i \in 1 .. Len(done) : done[i] = want[i]
        BY <1>1
      <3>3. Len(done) < Len(want) /\ pos = at[Len(done) + 2]
        BY <1>1
      <3> QED
        BY <1>1, <1>5, <2>1, <2>2, <2>3, <3>1, <3>2, <3>3, Zenon DEF InRow
    <2>5. Inside(m, pos, end, After(m, cur), rend, out2, want)
      BY <2>4, Zenon DEF Inside
    <2>6. Len(Append(part, v)) # NumCols
      BY <1>5, <1>8 DEF part2
    <2> QED
      BY <2>5, <2>6 DEF part2
  <1> QED
    BY <1>7, <1>8

LEMMA BetweenKept ==
  ASSUME NEW m, NEW m2, NEW pos, NEW end, NEW out, NEW want, NEW lim \in Int,
         Between(m, pos, end, out, want), Agree(m, m2, lim), end <= lim
  PROVE  Between(m2, pos, end, out, want)
  <1>1. PICK at : /\ Filled(m, at, want, end, NumCols) /\ out \in Seq(Seq(Seq(Nat))) /\ Len(out) <= Len(want)
                  /\ pos = at[Len(out) + 1] /\ \A i \in 1 .. Len(out) : out[i] = want[i]
    BY DEF Between
  <1>2. Filled(m2, at, want, end, NumCols)
    BY <1>1, FilledKept
  <1> QED
    BY <1>1, <1>2, Zenon DEF Between

LEMMA InRowFacts ==
  ASSUME NEW m, NEW at, NEW p, NEW done, NEW part, NEW pos, NEW end, NEW cur, NEW rend, NEW want,
         InRow(m, at, p, done, part, pos, end, cur, rend, want)
  PROVE  /\ Len(done) \in Nat /\ Len(part) \in Nat /\ Len(want) \in Nat /\ Len(done) + 1 \in 1 .. Len(want)
         /\ end \in Nat /\ at[Len(done) + 1] \in Nat /\ rend \in Nat /\ HeaderSize <= at[Len(done) + 1]
         /\ rend <= end /\ want[Len(done) + 1] \in Seq(Seq(Nat)) /\ Len(want[Len(done) + 1]) = NumCols
  <1> DEFINE d == Len(done)
             n == d + 1
  <1>1. /\ Filled(m, at, want, end, NumCols) /\ d \in Nat /\ Len(part) \in Nat /\ d < Len(want)
        /\ rend = at[d + 2]
    BY DEF InRow
  <1>2. Len(want) \in Nat /\ end \in Nat
    BY <1>1, FilledFacts
  <1>3. n \in 1 .. Len(want) /\ n + 1 = d + 2
    <2> HIDE DEF d
    <2> QED
      BY <1>1, <1>2
  <1> HIDE DEF n
  <1>4. /\ at[n] \in Nat /\ at[n + 1] \in Nat /\ HeaderSize <= at[n] /\ at[n + 1] <= end
        /\ want[n] \in Seq(Seq(Nat)) /\ Len(want[n]) = NumCols
    BY <1>1, <1>3, FilledAt
  <1>5. rend = at[n + 1] /\ n = Len(done) + 1
    BY <1>1, <1>3 DEF n
  <1> QED
    BY <1>1, <1>2, <1>3, <1>4, <1>5

LEMMA InsideKept ==
  ASSUME NEW m, NEW m2, NEW pos, NEW end, NEW cur, NEW rend, NEW out, NEW want, NEW lim \in Int,
         Inside(m, pos, end, cur, rend, out, want), Agree(m, m2, lim), end <= lim
  PROVE  Inside(m2, pos, end, cur, rend, out, want)
  <1>1. PICK at, p, done, part : /\ out = Append(done, part)
                                 /\ InRow(m, at, p, done, part, pos, end, cur, rend, want)
    BY Zenon DEF Inside
  <1> DEFINE s == at[Len(done) + 1]
             vals == want[Len(done) + 1]
  <1>2. s \in Nat /\ rend \in Nat /\ HeaderSize <= s /\ rend <= end /\ end \in Nat /\ vals \in Seq(Seq(Nat))
    BY <1>1, InRowFacts
  <1>3. Filled(m, at, want, end, NumCols) /\ Laid(m, p, vals, s, rend)
    BY <1>1, Zenon DEF InRow
  <1>4. Filled(m2, at, want, end, NumCols)
    BY <1>3, FilledKept
  <1> HIDE DEF s, vals
  <1>5. Laid(m2, p, vals, s, rend)
    <2>1. AgreeBut(m, m2, s, lim)
      BY DEF Agree, AgreeBut
    <2>2. rend <= lim
      BY <1>2
    <2> QED
      BY <1>2, <1>3, <2>1, <2>2, LaidKept
  <1>6. InRow(m2, at, p, done, part, pos, end, cur, rend, want)
    BY <1>1, <1>4, <1>5, Zenon DEF InRow, s, vals
  <1> QED
    BY <1>1, <1>6, Zenon DEF Inside

LEMMA WholePrefix ==
  ASSUME NEW w \in Seq(Seq(Nat)), NEW x \in Seq(Seq(Nat)), Len(x) <= Len(w), \A j \in 1 .. Len(x) : x[j] = w[j]
  PROVE  x = SubSeq(w, 1, Len(x))
  <1> DEFINE k == Len(x)
  <1>1. k \in Nat /\ x \in [1 .. k -> Seq(Nat)] /\ Len(w) \in Nat
    BY DEF k
  <1> DEFINE y == SubSeq(w, 1, k)
  <1>2. y \in [1 .. k -> Seq(Nat)] /\ \A j \in 1 .. k : y[j] = w[j]
    <2> HIDE DEF k
    <2>1. \A j \in 1 .. k : w[j] \in Seq(Nat)
      BY <1>1 DEF k
    <2>2. k - 1 + 1 = k /\ 1 \in Int /\ k \in Int /\ (IF 1 <= k THEN k - 1 + 1 ELSE 0) = k
      BY <1>1
    <2>3. y \in Seq(Seq(Nat)) /\ Len(y) = k /\ \A j \in 1 .. k : y[j] = w[1 + j - 1]
      BY <2>1, <2>2, SubSeqProperties
    <2>4. \A j \in 1 .. k : 1 + j - 1 = j
      BY <1>1
    <2> HIDE DEF y
    <2> QED
      BY <2>3, <2>4
  <1>3. y \in [1 .. k -> Seq(Nat)] /\ \A j \in 1 .. k : y[j] = x[j]
    BY <1>2
  <1> HIDE DEF y, k
  <1>4. x = y
    BY <1>1, <1>3
  <1> QED
    BY <1>4 DEF y, k

LEMMA BetweenGot ==
  ASSUME NEW m, NEW pos, NEW end, NEW out, NEW want, Between(m, pos, end, out, want)
  PROVE  /\ Len(out) <= Len(want) /\ \A i \in DOMAIN out : out[i] = SubSeq(want[i], 1, Len(out[i]))
         /\ pos >= end => Len(out) = Len(want)
  <1>1. PICK at : /\ Filled(m, at, want, end, NumCols) /\ out \in Seq(Seq(Seq(Nat))) /\ Len(out) <= Len(want)
                  /\ pos = at[Len(out) + 1] /\ \A i \in 1 .. Len(out) : out[i] = want[i]
    BY DEF Between
  <1> DEFINE d == Len(out)
  <1>2. d \in Nat /\ Len(want) \in Nat /\ DOMAIN out = 1 .. d
    BY <1>1, FilledFacts
  <1>3. ASSUME NEW i \in DOMAIN out PROVE out[i] = SubSeq(want[i], 1, Len(out[i]))
    <2> DEFINE x == out[i]
               w == want[i]
    <2>1. x \in Seq(Seq(Nat)) /\ x = w
      BY <1>1, <1>2
    <2> HIDE DEF x, w
    <2>2. Len(x) <= Len(x) /\ \A j \in 1 .. Len(x) : x[j] = x[j]
      BY <2>1
    <2>3. x = SubSeq(x, 1, Len(x))
      BY <2>1, <2>2, WholePrefix
    <2> QED
      BY <2>1, <2>3 DEF x, w
  <1>4. ASSUME pos >= end, d # Len(want) PROVE FALSE
    <2> HIDE DEF d
    <2>1. d \in Nat /\ d < Len(want) /\ pos = at[d + 1]
      BY <1>1, <1>2, <1>4 DEF d
    <2> DEFINE n == d + 1
    <2>2. n \in 1 .. Len(want)
      BY <1>2, <2>1
    <2> HIDE DEF n
    <2>3. at[n] \in Nat /\ at[n + 1] \in Nat /\ at[n] < at[n + 1] /\ at[n + 1] <= end /\ end \in Nat
      BY <1>1, <2>2, FilledAt, FilledFacts
    <2>4. pos = at[n]
      BY <2>1 DEF n
    <2> QED
      BY <1>4, <2>3, <2>4
  <1> QED
    BY <1>1, <1>3, <1>4

LEMMA InsideGot ==
  ASSUME NEW m, NEW pos, NEW end, NEW cur, NEW rend, NEW out, NEW want, NumCols \in Nat,
         Inside(m, pos, end, cur, rend, out, want)
  PROVE  Len(out) <= Len(want) /\ \A i \in DOMAIN out : out[i] = SubSeq(want[i], 1, Len(out[i]))
  <1>1. PICK at, p, done, part : /\ out = Append(done, part)
                                 /\ InRow(m, at, p, done, part, pos, end, cur, rend, want)
    BY Zenon DEF Inside
  <1> DEFINE d == Len(done)
             n == d + 1
  <1>2. /\ Filled(m, at, want, end, NumCols) /\ done \in Seq(Seq(Seq(Nat))) /\ d < Len(want) /\ part \in Seq(Seq(Nat))
        /\ \A i \in 1 .. d : done[i] = want[i]
        /\ Len(part) < NumCols /\ \A j \in 1 .. Len(part) : part[j] = want[n][j]
    BY <1>1 DEF InRow
  <1>3. /\ d \in Nat /\ Len(want) \in Nat /\ n \in 1 .. Len(want) /\ want[n] \in Seq(Seq(Nat))
        /\ Len(want[n]) = NumCols /\ Len(part) \in Nat
    BY <1>1, InRowFacts
  <1>4. /\ Len(out) = n /\ DOMAIN out = 1 .. n /\ out[n] = part /\ \A i \in 1 .. d : out[i] = done[i]
    BY <1>1, <1>2
  <1>5. ASSUME NEW i \in 1 .. n PROVE out[i] = SubSeq(want[i], 1, Len(out[i]))
    <2> DEFINE x == out[i]
               w == want[i]
    <2>1. x \in Seq(Seq(Nat)) /\ w \in Seq(Seq(Nat)) /\ Len(x) <= Len(w) /\ \A j \in 1 .. Len(x) : x[j] = w[j]
      <3>1. CASE i = n
        <4>1. x = part /\ w = want[n]
          BY <1>4, <3>1
        <4> HIDE DEF x, w
        <4> QED
          BY <1>2, <1>3, <4>1
      <3>2. CASE i # n
        <4>1. i \in 1 .. d
          BY <1>3, <3>2
        <4>2. x = done[i] /\ w = done[i] /\ done[i] \in Seq(Seq(Nat))
          BY <1>2, <1>4, <4>1
        <4> DEFINE z == done[i]
        <4>3. x = z /\ w = z /\ z \in Seq(Seq(Nat))
          BY <4>2
        <4> HIDE DEF x, w, z
        <4> QED
          BY <4>3
      <3> QED
        BY <3>1, <3>2
    <2> HIDE DEF x, w
    <2>2. x = SubSeq(w, 1, Len(x))
      BY <2>1, WholePrefix
    <2> QED
      BY <2>2 DEF x, w
  <1> HIDE DEF n
  <1> QED
    BY <1>3, <1>4, <1>5

----------------------------------------------------------------------------
(***************************************************************************)
(* The invariant of the readers.                                           *)
(***************************************************************************)
Phases == {"none", "idle", "rows", "cols", "stale"}

Shaped(x) ==
    x = [phase |-> x.phase, chunk |-> x.chunk, gen |-> x.gen, end |-> x.end, pos |-> x.pos, owner |-> x.owner,
         cur |-> x.cur, rend |-> x.rend, out |-> x.out, want |-> x.want]

\* In the chunk it pinned a reader stands at the start of a row or a column.
Stood(m, x) ==
    IF x.phase = "rows" THEN Between(m, x.pos, x.end, x.out, x.want)
    ELSE Inside(m, x.pos, x.end, x.cur, x.rend, x.out, x.want)

\* The lease is its own, another live process's, lost or not there.
Owned(r, x) ==
    /\ x.owner \in Readers \cup {"none", "invalid"}
    /\ x.owner \in Readers => IF x.owner = r THEN x.phase # "none" ELSE rd[x.owner].phase # "none"

\* What a process of its own lease pinned stays; what it pinned without, as long
\* as the generation does.
ReaderOk(r, x) ==
    /\ Shaped(x) /\ x.phase \in Phases /\ Owned(r, x)
    /\ x.chunk \in Chunks /\ x.gen \in Nat /\ x.gen <= gen[x.chunk]
    /\ x.phase \notin {"none", "idle"} /\ x.owner = r => gen[x.chunk] = x.gen /\ x.phase # "stale"
    /\ x.phase \in {"rows", "cols"} /\ gen[x.chunk] = x.gen =>
         x.end <= End(x.chunk) /\ Stood(mem[x.chunk], x)

\* A cached range is that of the string at the offset, while the generation stays.
RangeRight(k, range) ==
    /\ k \in Nat \X Nat \X Nat /\ k[1] \in Chunks /\ HeaderSize <= k[2] /\ k[3] <= gen[k[1]]
    /\ k[3] = gen[k[1]] => /\ Known(mem[k[1]], k[2], End(k[1]))
                           /\ range = <<k[2] + 1, k[2] + 1 + mem[k[1]][k[2]]>>

Fifo(map, order, wpos) ==
    /\ order \in Seq(Nat \X Nat \X Nat) /\ Len(order) <= MaxEntries /\ IsInjective(order)
    /\ Range(order) = DOMAIN map /\ wpos \in 1 .. MaxEntries

CacheOk(ca) ==
    /\ ca = [last |-> ca.last, range |-> ca.range, map |-> ca.map, order |-> ca.order, wpos |-> ca.wpos]
    /\ Fifo(ca.map, ca.order, ca.wpos)
    /\ ca.last = NoKey \/ RangeRight(ca.last, ca.range)
    /\ \A k \in DOMAIN ca.map : RangeRight(k, ca.map[k])

ReaderInv ==
    /\ rd = [r \in Readers |-> rd[r]] /\ cache = [r \in Readers |-> cache[r]]
    /\ \A r \in Readers : ReaderOk(r, rd[r]) /\ CacheOk(cache[r])

LEMMA StoodKept ==
  ASSUME NEW m, NEW m2, NEW x, NEW lim \in Int, Stood(m, x), Agree(m, m2, lim), x.end <= lim
  PROVE  Stood(m2, x)
  BY BetweenKept, InsideKept DEF Stood

LEMMA KnownGrows ==
  ASSUME NEW m, NEW m2, NEW o, NEW lim \in Int, NEW more \in Int, Known(m, o, lim), Agree(m, m2, lim), lim <= more
  PROVE  Known(m2, o, more) /\ m2[o] = m[o]
  <1>1. Known(m2, o, lim)
    BY KnownKept
  <1>2. Known(m2, o, more)
    BY <1>1, KnownWider
  <1>3. o \in Nat /\ HeaderSize <= o /\ m[o] \in Nat /\ o + 1 + m[o] <= lim
    BY DEF Known
  <1> QED
    BY <1>2, <1>3 DEF Agree

\* What the writer does to the chunks leaves readers and caches right.
LEMMA ChunkStays ==
  ASSUME Typed, Kept, UNCHANGED table, Typed', NEW c \in Chunks, NEW g \in Nat, g <= gen[c], gen'[c] = g
  PROVE  gen[c] = g /\ Agree(mem[c], mem'[c], End(c)) /\ End(c) <= End(c)' /\ End(c) \in Nat /\ End(c)' \in Nat
  <1>1. gen[c] \in Nat /\ gen[c] <= gen'[c]
    <2>1. gen[c] \in 0 .. MaxGen /\ MaxGen \in Nat
      BY TableFacts DEF Typed
    <2>2. gen[c] <= gen'[c]
      BY Zenon DEF Kept
    <2> QED
      BY <2>1, <2>2
  <1>2. gen[c] = g
    BY <1>1
  <1>3. Grows(mem[c], mem'[c], used[c], used'[c], rows[c], rows'[c])
    BY <1>2 DEF Kept
  <1>4. used[c] \in Nat /\ HeaderSize \in Nat /\ used'[c] \in Nat
    BY EndFacts, TableFacts, TableKept DEF Typed
  <1> QED
    BY <1>2, <1>3, <1>4 DEF Grows, End

LEMMA RangeKept ==
  ASSUME Typed, Kept, UNCHANGED table, Typed', NEW k, NEW range, RangeRight(k, range)
  PROVE  RangeRight(k, range)'
  <1> DEFINE c == k[1]
             o == k[2]
             g == k[3]
  <1>1. k \in Nat \X Nat \X Nat /\ c \in Chunks /\ HeaderSize <= o /\ g \in Nat /\ g <= gen[c] /\ o \in Nat
    BY DEF RangeRight
  <1>2. gen[c] <= gen'[c] /\ gen[c] \in Nat /\ gen'[c] \in Nat /\ Chunks' = Chunks
    BY <1>1, TableFacts, TableKept DEF Typed, Kept
  <1>3. g <= gen'[c]
    BY <1>1, <1>2
  <1>4. ASSUME g = gen'[c]
        PROVE  Known(mem'[c], o, End(c)') /\ range = <<o + 1, o + 1 + mem'[c][o]>>
    <2>1. gen[c] = g /\ Agree(mem[c], mem'[c], End(c)) /\ End(c) <= End(c)' /\ End(c) \in Nat /\ End(c)' \in Nat
      BY <1>1, <1>4, ChunkStays
    <2>2. Known(mem[c], o, End(c)) /\ range = <<o + 1, o + 1 + mem[c][o]>>
      BY <2>1 DEF RangeRight
    <2> HIDE DEF c, o
    <2>3. Known(mem'[c], o, End(c)') /\ mem'[c][o] = mem[c][o]
      BY <2>1, <2>2, KnownGrows
    <2> QED
      BY <2>2, <2>3
  <1> QED
    BY <1>1, <1>2, <1>3, <1>4 DEF RangeRight

\* A chunk some process holds a lease on is not taken over.
Spared == \A r \in Readers, c \in Chunks : Holds(r, c) => gen'[c] = gen[c]

LEMMA ReadersOutlast ==
  ASSUME ReaderInv, Typed, Typed', Kept, Spared, UNCHANGED <<table, rd, cache>>
  PROVE  ReaderInv'
  <1>1. rd' = [r \in Readers |-> rd'[r]] /\ cache' = [r \in Readers |-> cache'[r]]
    BY DEF ReaderInv
  <1>2. ASSUME NEW r \in Readers PROVE ReaderOk(r, rd[r])'
    <2>0. PICK x, c : x = rd[r] /\ c = x.chunk
      OBVIOUS
    <2>1. ReaderOk(r, x)
      BY <2>0 DEF ReaderInv
    <2>2. c \in Chunks /\ x.gen \in Nat /\ x.gen <= gen[c]
      BY <2>0, <2>1 DEF ReaderOk
    <2>3. gen[c] <= gen'[c] /\ gen[c] \in Nat /\ gen'[c] \in Nat /\ Chunks' = Chunks /\ NumCols' = NumCols
      BY <2>2, TableFacts, TableKept DEF Typed, Kept
    <2>5. x.gen <= gen'[c]
      BY <2>2, <2>3
    <2>6. Shaped(x) /\ x.phase \in Phases /\ Owned(r, x)'
      BY <2>1 DEF ReaderOk, Owned
    <2>7. ASSUME x.phase \notin {"none", "idle"}, x.owner = r PROVE gen'[c] = x.gen /\ x.phase # "stale"
      <3>1. Holds(r, c)
        BY <2>0, <2>7 DEF Holds
      <3>2. gen'[c] = gen[c]
        BY <2>2, <3>1 DEF Spared
      <3> QED
        BY <2>0, <2>1, <2>7, <3>2 DEF ReaderOk
    <2>8. ASSUME x.phase \in {"rows", "cols"}, gen'[c] = x.gen
          PROVE  x.end <= End(c)' /\ Stood(mem'[c], x)
      <3>1. /\ gen[c] = x.gen /\ Agree(mem[c], mem'[c], End(c)) /\ End(c) <= End(c)' /\ End(c) \in Nat
            /\ End(c)' \in Nat
        BY <2>2, <2>8, ChunkStays
      <3>2. x.end <= End(c) /\ Stood(mem[c], x)
        BY <2>0, <2>1, <2>8, <3>1 DEF ReaderOk
      <3>3. Stood(mem'[c], x)
        BY <3>1, <3>2, StoodKept
      <3>4. x.end \in Nat
        <4>1. Filled(mem[c], CHOOSE at : Filled(mem[c], at, x.want, x.end, NumCols), x.want, x.end, NumCols)
          BY <3>2, Zenon DEF Stood, Between, Inside, InRow
        <4> QED
          BY <4>1, FilledFacts
      <3> QED
        BY <3>1, <3>2, <3>3, <3>4
    <2>9. Stood(mem[c], x)' <=> Stood(mem'[c], x)
      BY <2>0, <2>3 DEF Stood, Between, Inside, InRow
    <2>10. ReaderOk(r, x)'
      <3>1. End(x.chunk)' = End(c)'
        BY <2>0
      <3> QED
        BY <2>0, <2>2, <2>3, <2>5, <2>6, <2>7, <2>8, <2>9, <3>1 DEF ReaderOk, Shaped
    <2> QED
      BY <2>0, <2>10
  <1>3. ASSUME NEW r \in Readers PROVE CacheOk(cache[r])'
    <2> DEFINE ca == cache[r]
    <2>1. CacheOk(ca) /\ ca' = ca
      BY DEF ReaderInv
    <2> HIDE DEF ca
    <2>2. ca.last = NoKey \/ RangeRight(ca.last, ca.range)'
      <3>1. RangeRight(ca.last, ca.range) => RangeRight(ca.last, ca.range)'
        BY <2>1, RangeKept
      <3> QED
        BY <2>1, <3>1 DEF CacheOk
    <2> QED
      BY <2>1, <2>2, RangeKept DEF CacheOk, ca
  <1> QED
    BY <1>1, <1>2, <1>3 DEF ReaderInv

\* A step of one reader.
LEMMA OneReader ==
  ASSUME ReaderInv, Typed, WriterFrame, UNCHANGED table, NEW r \in Readers, NEW x, NEW ca,
         rd' = [rd EXCEPT ![r] = x], cache' = [cache EXCEPT ![r] = ca], ReaderOk(r, x), CacheOk(ca),
         rd[r].phase # "none" => x.phase # "none"
  PROVE  ReaderInv'
  <1>1. /\ rd' = [q \in Readers |-> rd'[q]] /\ cache' = [q \in Readers |-> cache'[q]]
        /\ rd'[r] = x /\ cache'[r] = ca
        /\ \A q \in Readers : q # r => rd'[q] = rd[q] /\ cache'[q] = cache[q]
    BY DEF ReaderInv
  <1>2. UNCHANGED <<table, mem, used, gen, wc, rows>>
    BY DEF WriterFrame
  <1>3. \A q \in Readers : rd[q].phase # "none" => rd'[q].phase # "none"
    BY <1>1
  <1>4. ASSUME NEW q \in Readers, NEW y, ReaderOk(q, y), q = r => y = x PROVE ReaderOk(q, y)'
    <2>1. Owned(q, y)'
      BY <1>1, <1>3, <1>4 DEF ReaderOk, Owned
    <2>2. /\ Shaped(y) /\ y.phase \in Phases /\ y.chunk \in Chunks' /\ y.gen \in Nat /\ y.gen <= gen'[y.chunk]
          /\ y.phase \notin {"none", "idle"} /\ y.owner = q => gen'[y.chunk] = y.gen /\ y.phase # "stale"
      BY <1>2, <1>4, TableKept DEF ReaderOk
    <2>3. ASSUME y.phase \in {"rows", "cols"}, gen'[y.chunk] = y.gen
          PROVE  y.end <= End(y.chunk)' /\ Stood(mem[y.chunk], y)'
      <3>1. y.end <= End(y.chunk) /\ Stood(mem[y.chunk], y)
        BY <1>2, <1>4, <2>3 DEF ReaderOk
      <3>2. PICK m : m = mem[y.chunk] /\ m = mem'[y.chunk]
        BY <1>2
      <3>3. Stood(m, y)' <=> Stood(m, y)
        BY <1>2, TableKept DEF Stood, Between, Inside, InRow
      <3>4. Stood(mem[y.chunk], y)'
        BY <3>1, <3>2, <3>3
      <3> QED
        BY <1>2, <3>1, <3>4 DEF End
    <2> QED
      BY <2>1, <2>2, <2>3 DEF ReaderOk, Shaped
  <1>5. ASSUME NEW k, NEW range PROVE RangeRight(k, range)' <=> RangeRight(k, range)
    BY <1>2, TableKept DEF RangeRight, End
  <1>6. ASSUME NEW y, CacheOk(y) PROVE CacheOk(y)'
    BY <1>5, <1>6 DEF CacheOk
  <1>7. ASSUME NEW q \in Readers PROVE ReaderOk(q, rd[q])' /\ CacheOk(cache[q])'
    <2>1. PICK y, z : y = rd'[q] /\ z = cache'[q]
      OBVIOUS
    <2>2. ReaderOk(q, y) /\ CacheOk(z) /\ (q = r => y = x)
      BY <1>1, <2>1 DEF ReaderInv
    <2>3. ReaderOk(q, y)' /\ CacheOk(z)'
      BY <1>4, <1>6, <2>2
    <2> QED
      BY <2>1, <2>3
  <1> QED
    BY <1>1, <1>7 DEF ReaderInv

LEMMA CacheSame ==
  ASSUME ReaderInv, NEW r \in Readers
  PROVE  cache = [cache EXCEPT ![r] = cache[r]] /\ CacheOk(cache[r]) /\ ReaderOk(r, rd[r])
  BY DEF ReaderInv

LEMMA ReadersStart == Init => ReaderInv
  <1> SUFFICES ASSUME Init PROVE ReaderInv
    OBVIOUS
  <1>1. WriterInv
    BY WriterStarts
  <1>2. 0 \in Chunks /\ gen[0] \in Nat /\ MaxEntries \in Nat /\ MaxEntries > 0
    BY <1>1, TableFacts, DedupAssumption DEF WriterInv, Typed
  <1>3. /\ rd = [r \in Readers |-> [Idle EXCEPT !.phase = IF r \in table.first THEN "idle" ELSE "none"]]
        /\ cache = [r \in Readers |-> EmptyCache]
    BY DEF Init
  <1>4. ASSUME NEW r \in Readers PROVE ReaderOk(r, rd[r])
    <2>1. PICK ph \in {"none", "idle"} : rd[r] = [Idle EXCEPT !.phase = ph]
      BY <1>3
    <2> DEFINE x == [Idle EXCEPT !.phase = ph]
    <2>2. x.phase = ph /\ x.chunk = 0 /\ x.gen = 0 /\ x.owner = "none" /\ Shaped(x)
      BY DEF Idle, Shaped
    <2> HIDE DEF x
    <2>3. "none" \notin Readers
      BY DedupAssumption
    <2>4. ReaderOk(r, x)
      BY <1>2, <2>2, <2>3 DEF ReaderOk, Owned, Phases
    <2> QED
      BY <2>1, <2>4 DEF x
  <1>5. CacheOk(EmptyCache)
    <2> DEFINE e == <<>>
    <2>1. e \in Seq(Nat \X Nat \X Nat) /\ Len(e) = 0 /\ DOMAIN e = {}
      OBVIOUS
    <2>2. Fifo(e, e, 1)
      <3> HIDE DEF e
      <3> QED
        BY <1>2, <2>1 DEF Fifo, IsInjective, Range
    <2> QED
      BY <2>1, <2>2 DEF CacheOk, EmptyCache
  <1> QED
    BY <1>3, <1>4, <1>5 DEF ReaderInv

----------------------------------------------------------------------------
(***************************************************************************)
(* The cache.                                                              *)
(***************************************************************************)
Keys == Nat \X Nat \X Nat

Replaced(order, wpos, k) == [order EXCEPT ![wpos] = k]

\* A key that is new goes in place of the oldest one.
LEMMA FifoFull ==
  ASSUME NEW map, NEW order, NEW wpos, Fifo(map, order, wpos), NEW k \in Keys, k \notin DOMAIN map,
         Len(order) = MaxEntries, MaxEntries \in Nat, MaxEntries > 0
  PROVE  LET order2 == Replaced(order, wpos, k)
         IN /\ order2 \in Seq(Keys) /\ Len(order2) = MaxEntries /\ IsInjective(order2)
            /\ Range(order2) = (DOMAIN map \ {order[wpos]}) \cup {k}
            /\ (wpos % MaxEntries) + 1 \in 1 .. MaxEntries
  <1> DEFINE n == MaxEntries
             order2 == Replaced(order, wpos, k)
  <1>1. /\ order \in Seq(Keys) /\ Len(order) = n /\ DOMAIN order = 1 .. n /\ wpos \in 1 .. n
        /\ \A i, j \in 1 .. n : order[i] = order[j] => i = j
        /\ {order[i] : i \in 1 .. n} = DOMAIN map
    <2>1. order \in Seq(Keys) /\ IsInjective(order) /\ Range(order) = DOMAIN map /\ wpos \in 1 .. n
      BY DEF Fifo, Keys
    <2>2. DOMAIN order = 1 .. n
      BY <2>1
    <2> QED
      BY <2>1, <2>2 DEF IsInjective, Range
  <1>2. /\ DOMAIN order2 = 1 .. n /\ order2[wpos] = k
        /\ \A i \in 1 .. n : i # wpos => order2[i] = order[i]
    BY <1>1 DEF Replaced
  <1>3. order2 \in Seq(Keys) /\ Len(order2) = n
    <2>1. order2 \in [1 .. n -> Keys]
      BY <1>1 DEF Replaced
    <2> QED
      BY <2>1, SeqOfFun
  <1> HIDE DEF order2
  <1>4. \A i \in 1 .. n : order[i] # k
    BY <1>1
  <1>5. IsInjective(order2)
    <2> SUFFICES ASSUME NEW i \in 1 .. n, NEW j \in 1 .. n, order2[i] = order2[j] PROVE i = j
      BY <1>2 DEF IsInjective
    <2> QED
      BY <1>1, <1>2, <1>4
  <1>6. Range(order2) = (DOMAIN map \ {order[wpos]}) \cup {k}
    <2>1. ASSUME NEW y \in Range(order2) PROVE y \in (DOMAIN map \ {order[wpos]}) \cup {k}
      <3>1. PICK i \in 1 .. n : y = order2[i]
        BY <1>2 DEF Range
      <3> QED
        BY <1>1, <1>2, <3>1
    <2>2. ASSUME NEW y \in DOMAIN map, y # order[wpos] PROVE y \in Range(order2)
      <3>1. PICK i \in 1 .. n : y = order[i]
        BY <1>1
      <3> QED
        BY <1>2, <2>2, <3>1 DEF Range
    <2>3. k \in Range(order2)
      BY <1>1, <1>2 DEF Range
    <2> QED
      BY <2>1, <2>2, <2>3
  <1>7. (wpos % n) + 1 \in 1 .. n
    <2>1. wpos \in Nat
      BY <1>1
    <2>2. wpos % n \in 0 .. n - 1
      BY <2>1
    <2> QED
      BY <2>2
  <1> QED
    BY <1>3, <1>5, <1>6, <1>7 DEF order2

LEMMA FifoAppend ==
  ASSUME NEW map, NEW order, NEW wpos, Fifo(map, order, wpos), NEW k \in Keys, k \notin DOMAIN map,
         Len(order) # MaxEntries, MaxEntries \in Nat
  PROVE  LET order2 == Append(order, k)
         IN /\ order2 \in Seq(Keys) /\ Len(order2) <= MaxEntries /\ IsInjective(order2)
            /\ Range(order2) = DOMAIN map \cup {k} /\ wpos \in 1 .. MaxEntries
  <1> DEFINE order2 == Append(order, k)
             n == Len(order)
  <1>1. /\ order \in Seq(Keys) /\ DOMAIN order = 1 .. n /\ wpos \in 1 .. MaxEntries /\ n \in Nat /\ n < MaxEntries
        /\ \A i, j \in 1 .. n : order[i] = order[j] => i = j
        /\ {order[i] : i \in 1 .. n} = DOMAIN map
    <2>1. /\ order \in Seq(Keys) /\ IsInjective(order) /\ Range(order) = DOMAIN map /\ wpos \in 1 .. MaxEntries
          /\ n <= MaxEntries
      BY DEF Fifo, Keys
    <2>2. DOMAIN order = 1 .. n /\ n \in Nat /\ n < MaxEntries
      BY <2>1
    <2> QED
      BY <2>1, <2>2 DEF IsInjective, Range
  <1>2. /\ order2 \in Seq(Keys) /\ Len(order2) = n + 1 /\ DOMAIN order2 = 1 .. n + 1 /\ order2[n + 1] = k
        /\ \A i \in 1 .. n : order2[i] = order[i]
    <2>1. order \in Seq(Keys) /\ n = Len(order) /\ n \in Nat
      BY <1>1
    <2>2. order2 \in Seq(Keys) /\ Len(order2) = Len(order) + 1
      BY <2>1, AppendProperties
    <2>3. DOMAIN order2 = 1 .. n + 1
      BY <2>1, <2>2
    <2>4. order2[Len(order) + 1] = k
      BY <2>1, AppendProperties
    <2>5. \A i \in 1 .. Len(order) : order2[i] = order[i]
      BY <2>1, AppendProperties
    <2> QED
      BY <2>2, <2>3, <2>4, <2>5
  <1> HIDE DEF order2, n
  <1>3. \A i \in 1 .. n : order[i] # k
    BY <1>1
  <1>4. \A i \in 1 .. n + 1 : i = n + 1 \/ i \in 1 .. n
    BY <1>1
  <1>5. IsInjective(order2)
    <2> SUFFICES ASSUME NEW i \in 1 .. n + 1, NEW j \in 1 .. n + 1, order2[i] = order2[j] PROVE i = j
      BY <1>2 DEF IsInjective
    <2> QED
      BY <1>1, <1>2, <1>3, <1>4
  <1>6. Range(order2) = DOMAIN map \cup {k}
    <2>1. ASSUME NEW y \in Range(order2) PROVE y \in DOMAIN map \cup {k}
      <3>1. PICK i \in 1 .. n + 1 : y = order2[i]
        BY <1>2 DEF Range
      <3> QED
        BY <1>1, <1>2, <1>4, <3>1
    <2>2. ASSUME NEW y \in DOMAIN map PROVE y \in Range(order2)
      <3>1. PICK i \in 1 .. n : y = order[i]
        BY <1>1
      <3>2. i \in 1 .. n + 1
        BY <1>1
      <3> QED
        BY <1>2, <3>1, <3>2 DEF Range
    <2>3. k \in Range(order2)
      <3>1. n + 1 \in 1 .. n + 1
        BY <1>1
      <3> QED
        BY <1>2, <3>1 DEF Range
    <2> QED
      BY <2>1, <2>2, <2>3
  <1>7. Len(order2) <= MaxEntries
    BY <1>1, <1>2
  <1> QED
    BY <1>1, <1>2, <1>5, <1>6, <1>7 DEF order2

LEMMA Remembers ==
  ASSUME NEW ca, CacheOk(ca), NEW k \in Keys, NEW range, k \notin DOMAIN ca.map, RangeRight(k, range)
  PROVE  LET new == Remember(k, range, ca) IN CacheOk(new) /\ new.last = k /\ new.range = range
  <1> DEFINE full == Len(ca.order) = MaxEntries
             kept == IF full THEN Evict(k, ca.order[ca.wpos], ca.map) ELSE ca.map
             map2 == [x \in DOMAIN kept \cup {k} |-> IF x = k THEN range ELSE kept[x]]
             order2 == IF full THEN [ca.order EXCEPT ![ca.wpos] = k] ELSE Append(ca.order, k)
             wpos2 == IF full THEN (ca.wpos % MaxEntries) + 1 ELSE ca.wpos
  <1>1. Remember(k, range, ca) = [last |-> k, range |-> range, map |-> map2, order |-> order2, wpos |-> wpos2]
    BY DEF Remember
  <1>2. Fifo(ca.map, ca.order, ca.wpos) /\ \A x \in DOMAIN ca.map : RangeRight(x, ca.map[x])
    BY DEF CacheOk
  <1>3. MaxEntries \in Nat /\ MaxEntries > 0
    BY DedupAssumption
  <1>4. PICK map, order, wpos : map = ca.map /\ order = ca.order /\ wpos = ca.wpos
    OBVIOUS
  <1>5. Fifo(map, order, wpos) /\ k \notin DOMAIN map
    BY <1>2, <1>4
  <1>6. DOMAIN map2 = DOMAIN kept \cup {k} /\ map2[k] = range /\ \A x \in DOMAIN kept : x # k => map2[x] = kept[x]
    OBVIOUS
  <1>7. Fifo(map2, order2, wpos2) /\ DOMAIN kept \subseteq DOMAIN map /\ \A x \in DOMAIN kept : kept[x] = map[x]
    <2>1. CASE full
      <3>1. order2 = Replaced(order, wpos, k) /\ wpos2 = (wpos % MaxEntries) + 1
        BY <1>4, <2>1 DEF Replaced
      <3>2. DOMAIN kept = DOMAIN map \ {order[wpos]} /\ \A x \in DOMAIN kept : kept[x] = map[x]
        BY <1>4, <2>1 DEF Evict
      <3> HIDE DEF order2, wpos2, kept, map2
      <3>3. /\ order2 \in Seq(Keys) /\ Len(order2) = MaxEntries /\ IsInjective(order2)
            /\ Range(order2) = (DOMAIN map \ {order[wpos]}) \cup {k} /\ wpos2 \in 1 .. MaxEntries
        <4>1. Len(order) = MaxEntries
          BY <1>4, <2>1
        <4> QED
          BY <1>3, <1>5, <3>1, <4>1, FifoFull
      <3>4. Len(order2) <= MaxEntries
        BY <1>3, <3>3
      <3>5. Range(order2) = DOMAIN map2
        BY <1>6, <3>2, <3>3
      <3> QED
        BY <3>2, <3>3, <3>4, <3>5 DEF Fifo, Keys
    <2>2. CASE ~full
      <3>1. order2 = Append(order, k) /\ wpos2 = wpos
        BY <1>4, <2>2
      <3>2. kept = map
        BY <1>4, <2>2
      <3> HIDE DEF order2, wpos2, kept, map2
      <3>3. /\ order2 \in Seq(Keys) /\ Len(order2) <= MaxEntries /\ IsInjective(order2)
            /\ Range(order2) = DOMAIN map \cup {k} /\ wpos2 \in 1 .. MaxEntries
        <4>1. Len(order) # MaxEntries
          BY <1>4, <2>2
        <4> QED
          BY <1>3, <1>5, <3>1, <4>1, FifoAppend
      <3>4. Range(order2) = DOMAIN map2
        BY <1>6, <3>2, <3>3
      <3> QED
        BY <3>2, <3>3, <3>4 DEF Fifo, Keys
    <2> QED
      BY <2>1, <2>2
  <1>8. \A x \in DOMAIN map2 : RangeRight(x, map2[x])
    <2> SUFFICES ASSUME NEW x \in DOMAIN map2 PROVE RangeRight(x, map2[x])
      OBVIOUS
    <2> HIDE DEF map2, kept
    <2>1. CASE x = k
      BY <1>6, <2>1
    <2>2. CASE x # k
      <3>1. x \in DOMAIN kept /\ map2[x] = map[x] /\ x \in DOMAIN map
        BY <1>6, <1>7, <2>2
      <3> QED
        BY <1>2, <1>4, <3>1
    <2> QED
      BY <2>1, <2>2
  <1> HIDE DEF map2, order2, wpos2
  <1>9. PICK new : new = [last |-> k, range |-> range, map |-> map2, order |-> order2, wpos |-> wpos2]
    OBVIOUS
  <1>10. CacheOk(new) /\ new.last = k /\ new.range = range
    BY <1>7, <1>8, <1>9 DEF CacheOk
  <1> QED
    BY <1>1, <1>9, <1>10

\* A lookup in the cache finds the string at the offset, or goes to the chunk for it.
LEMMA Resolves ==
  ASSUME NEW r \in Readers, NEW o \in Nat, CacheOk(cache[r]), HeaderSize <= o, rd[r].chunk \in Chunks, rd[r].gen \in Nat,
         rd[r].chunk \in Nat,
         rd[r].gen <= gen[rd[r].chunk], rd[r].gen = gen[rd[r].chunk] => Known(mem[rd[r].chunk], o, End(rd[r].chunk))
  PROVE  /\ CacheOk(Resolve(r, o))
         /\ rd[r].gen = gen[rd[r].chunk] => Resolve(r, o).range = <<o + 1, o + 1 + mem[rd[r].chunk][o]>>
  <1> DEFINE c == rd[r].chunk
             k == CacheKey(r, o)
             ca == cache[r]
             range == <<o + 1, o + 1 + mem[c][o]>>
  <1>1. k \in Keys /\ k[1] = c /\ k[2] = o /\ k[3] = rd[r].gen
    BY DEF CacheKey, Keys
  <1>2. RangeRight(k, range)
    BY <1>1 DEF RangeRight, Keys
  <1>3. ASSUME NEW x, RangeRight(k, x), rd[r].gen = gen[c] PROVE x = range
    BY <1>1, <1>3 DEF RangeRight
  <1>4. k # NoKey
    <2>1. k[2] # 0
      BY <1>1, HeaderFact
    <2> QED
      BY <2>1 DEF NoKey
  <1>5. Resolve(r, o) = IF k = ca.last THEN ca
                        ELSE IF k \in DOMAIN ca.map THEN [ca EXCEPT !.last = k, !.range = ca.map[k]]
                        ELSE Remember(k, range, ca)
    BY DEF Resolve
  <1> HIDE DEF k, range
  <1>6. CASE k = ca.last
    BY <1>3, <1>4, <1>5, <1>6 DEF CacheOk, range, c
  <1>7. CASE k # ca.last /\ k \in DOMAIN ca.map
    <2>1. PICK new, map, y : new = [ca EXCEPT !.last = k, !.range = y] /\ map = ca.map /\ y = map[k]
      OBVIOUS
    <2>2. Resolve(r, o) = new
      BY <1>5, <1>7, <2>1
    <2>3. RangeRight(k, y)
      BY <1>7, <2>1 DEF CacheOk
    <2>4. /\ new.last = k /\ new.range = y /\ new.map = ca.map /\ new.order = ca.order /\ new.wpos = ca.wpos
          /\ new = [last |-> new.last, range |-> new.range, map |-> new.map, order |-> new.order, wpos |-> new.wpos]
      <3>1. PICK old : old = ca /\ old = [last |-> old.last, range |-> old.range, map |-> old.map,
                                         order |-> old.order, wpos |-> old.wpos]
        BY DEF CacheOk
      <3>2. new = [old EXCEPT !.last = k, !.range = y]
        BY <2>1, <3>1
      <3> QED
        BY <3>1, <3>2
    <2>5. CacheOk(new)
      BY <2>3, <2>4 DEF CacheOk
    <2> QED
      BY <1>3, <2>2, <2>3, <2>4, <2>5 DEF range, c
  <1>8. CASE k # ca.last /\ k \notin DOMAIN ca.map
    <2>1. Resolve(r, o) = Remember(k, range, ca)
      BY <1>5, <1>8
    <2>2. CacheOk(Remember(k, range, ca)) /\ Remember(k, range, ca).range = range
      BY <1>1, <1>2, <1>8, Remembers
    <2> QED
      BY <2>1, <2>2 DEF range, c
  <1> QED
    BY <1>6, <1>7, <1>8

----------------------------------------------------------------------------
(***************************************************************************)
(* The readers' steps.                                                     *)
(***************************************************************************)
LEMMA PinChunkKeeps ==
  ASSUME ReaderInv, WriterInv, NEW r \in Readers, NEW c \in Chunks, PinChunk(r, c), UNCHANGED table
  PROVE  ReaderInv'
  <1> DEFINE x == [Idle EXCEPT !.phase = "rows", !.chunk = c, !.gen = gen[c], !.pos = HeaderSize,
                               !.end = HeaderSize + used[c], !.owner = r, !.want = rows[c]]
  <1>1. rd' = [rd EXCEPT ![r] = x] /\ cache' = cache /\ WriterFrame
    BY DEF PinChunk
  <1>2. /\ Shaped(x) /\ x.phase = "rows" /\ x.chunk = c /\ x.gen = gen[c] /\ x.owner = r
        /\ x.pos = HeaderSize /\ x.end = End(c) /\ x.want = rows[c] /\ x.out = <<>>
    <2>1. PICK g, e, w, h, y :
            /\ g = gen[c] /\ e = HeaderSize + used[c] /\ w = rows[c] /\ h = HeaderSize
            /\ y = [Idle EXCEPT !.phase = "rows", !.chunk = c, !.gen = g, !.pos = h,
                                !.end = e, !.owner = r, !.want = w]
      OBVIOUS
    <2>2. y = [phase |-> "rows", chunk |-> c, gen |-> g, end |-> e, pos |-> h, owner |-> r,
               cur |-> 0, rend |-> 0, out |-> <<>>, want |-> w]
      BY <2>1 DEF Idle
    <2>3. x = y
      BY <2>1
    <2> HIDE DEF x
    <2> QED
      BY <2>1, <2>2, <2>3 DEF Shaped, End
  <1> HIDE DEF x
  <1>3. gen[c] \in Nat /\ gen[c] <= gen[c] /\ End(c) \in Nat /\ End(c) <= End(c)
    <2>1. gen[c] \in Nat /\ End(c) \in Nat
      BY TableFacts, EndFacts DEF WriterInv, Typed
    <2> QED
      BY <2>1
  <1>4. Stood(mem[c], x)
    <2>1. PICK at : Filled(mem[c], at, rows[c], End(c), NumCols)
      BY DEF WriterInv, Contents
    <2>2. Between(mem[c], HeaderSize, End(c), <<>>, rows[c])
      BY <2>1, PinnedBetween
    <2> QED
      BY <1>2, <2>2 DEF Stood
  <1>5. ReaderOk(r, x)
    BY <1>2, <1>3, <1>4 DEF ReaderOk, Owned, Phases
  <1>6. cache' = [cache EXCEPT ![r] = cache[r]] /\ CacheOk(cache[r]) /\ x.phase # "none"
    BY <1>1, <1>2, CacheSame
  <1> QED
    BY <1>1, <1>5, <1>6, OneReader DEF WriterInv

LEMMA UnpinKeeps ==
  ASSUME ReaderInv, WriterInv, NEW r \in Readers, Unpin(r), UNCHANGED table
  PROVE  ReaderInv'
  <1>1. rd' = [rd EXCEPT ![r] = Idle] /\ cache' = cache /\ WriterFrame
    BY DEF Unpin
  <1>2. Shaped(Idle) /\ Idle.phase = "idle" /\ Idle.chunk = 0 /\ Idle.gen = 0 /\ Idle.owner = "none"
    BY DEF Idle, Shaped
  <1>3. 0 \in Chunks /\ gen[0] \in Nat /\ "none" \notin Readers
    BY TableFacts, DedupAssumption DEF WriterInv, Typed
  <1>4. ReaderOk(r, Idle)
    BY <1>2, <1>3 DEF ReaderOk, Owned, Phases
  <1>5. cache' = [cache EXCEPT ![r] = cache[r]] /\ CacheOk(cache[r]) /\ Idle.phase # "none"
    BY <1>1, <1>2, CacheSame
  <1> QED
    BY <1>1, <1>4, <1>5, OneReader DEF WriterInv

\* A reader with a lease of its own is never told that the rows are gone.
LEMMA Leased ==
  ASSUME ReaderInv, NEW r \in Readers, Reading(r), rd[r].owner = r
  PROVE  gen[rd[r].chunk] = rd[r].gen
  BY DEF ReaderInv, ReaderOk, Reading

LEMMA StoodFacts ==
  ASSUME WriterInv, NEW r \in Readers, ReaderInv, Reading(r), gen[rd[r].chunk] = rd[r].gen
  PROVE  /\ rd[r].chunk \in Chunks /\ Stood(mem[rd[r].chunk], rd[r]) /\ rd[r].end <= ChunkSize
         /\ rd[r].end <= End(rd[r].chunk) /\ rd[r].end \in Nat
  <1> DEFINE c == rd[r].chunk
             e == rd[r].end
  <1>1. c \in Chunks /\ e <= End(c) /\ Stood(mem[c], rd[r])
    BY DEF ReaderInv, ReaderOk, Reading
  <1>2. e \in Nat
    <2>1. Filled(mem[c], CHOOSE at : Filled(mem[c], at, rd[r].want, e, NumCols), rd[r].want, e, NumCols)
      BY <1>1, Zenon DEF Stood, Between, Inside, InRow
    <2> QED
      BY <2>1, FilledFacts
  <1> HIDE DEF e
  <1>3. End(c) <= ChunkSize /\ End(c) \in Nat /\ ChunkSize \in Nat
    BY <1>1, EndFacts, TableFacts DEF WriterInv, Typed
  <1>4. e <= ChunkSize
    BY <1>1, <1>2, <1>3
  <1> QED
    BY <1>1, <1>2, <1>4 DEF e

LEMMA NextRowKeeps ==
  ASSUME ReaderInv, WriterInv, NEW r \in Readers, NextRow(r), UNCHANGED table
  PROVE  ReaderInv'
  <1>1. PICK x, m, len, rend :
          /\ x = rd[r] /\ m = mem[x.chunk] /\ len = m[x.pos] /\ rend = x.pos + 1 + len
    OBVIOUS
  <1>2. /\ x.phase = "rows" /\ x.owner = r /\ x.pos < x.end /\ WriterFrame /\ cache' = cache
    BY <1>1 DEF NextRow
  <1>3. Reading(r) /\ rd[r].owner = r /\ ReaderOk(r, x)
    BY <1>1, <1>2 DEF Reading, ReaderInv
  <1>4. gen[x.chunk] = x.gen
    BY <1>1, <1>3, Leased
  <1>5. Stood(m, x) /\ x.chunk \in Chunks /\ x.end <= End(x.chunk) /\ x.end \in Nat
    BY <1>1, <1>3, <1>4, StoodFacts
  <1>6. Between(m, x.pos, x.end, x.out, x.want)
    BY <1>2, <1>5 DEF Stood
  <1>7. /\ len \in Nat /\ rend <= x.end
        /\ Inside(m, rend, x.end, x.pos + 1, rend, Append(x.out, <<>>), x.want)
    <2>1. NumCols \in Nat /\ NumCols > 0
      BY TableFacts DEF WriterInv, Typed
    <2>2. PICK pos, end, out, want : pos = x.pos /\ end = x.end /\ out = x.out /\ want = x.want
      OBVIOUS
    <2>3. Between(m, pos, end, out, want) /\ pos < end
      BY <1>2, <1>6, <2>2
    <2>4. /\ m[pos] \in Nat /\ pos + 1 + m[pos] <= end
          /\ Inside(m, pos + 1 + m[pos], end, pos + 1, pos + 1 + m[pos], Append(out, <<>>), want)
      BY <2>1, <2>3, NextRowReads
    <2> QED
      BY <1>1, <2>2, <2>4
  <1>8. ~(len < 0 \/ rend > x.end)
    <2>1. len >= 0
      BY <1>7
    <2>2. rend \in Int
      <3>1. x.pos \in Nat
        BY <1>6, <1>5, FilledFacts DEF Between, Filled
      <3> QED
        BY <1>1, <1>7, <3>1
    <2> QED
      BY <1>5, <1>7, <2>1, <2>2
  <1>9. PICK y : y = [x EXCEPT !.phase = "cols", !.cur = x.pos + 1, !.rend = rend,
                               !.pos = rend, !.out = Append(x.out, <<>>)]
    OBVIOUS
  <1>10. /\ Shaped(y) /\ y.phase = "cols" /\ y.cur = x.pos + 1 /\ y.rend = rend /\ y.pos = rend
         /\ y.out = Append(x.out, <<>>) /\ y.want = x.want /\ y.end = x.end /\ y.chunk = x.chunk
         /\ y.gen = x.gen /\ y.owner = x.owner
    BY <1>3, <1>9 DEF ReaderOk, Shaped
  <1>11. Stood(m, y)
    BY <1>7, <1>10 DEF Stood
  <1>12. ReaderOk(r, y)
    BY <1>1, <1>2, <1>3, <1>4, <1>5, <1>10, <1>11 DEF ReaderOk, Owned, Phases
  <1>13. cache' = [cache EXCEPT ![r] = cache[r]] /\ CacheOk(cache[r]) /\ y.phase # "none"
    BY <1>2, <1>10, CacheSame
  <1>14. rd' = [rd EXCEPT ![r] = y]
    <2>1. Entered(r) = IF len < 0 \/ rend > x.end THEN [x EXCEPT !.phase = "stale"]
                       ELSE [x EXCEPT !.phase = "cols", !.cur = x.pos + 1, !.rend = rend,
                                      !.pos = rend, !.out = Append(x.out, <<>>)]
      BY <1>1 DEF Entered
    <2>2. Entered(r) = y
      BY <1>8, <1>9, <2>1
    <2>3. rd' = [rd EXCEPT ![r] = Entered(r)]
      BY DEF NextRow
    <2> QED
      BY <2>2, <2>3
  <1> QED
    BY <1>2, <1>12, <1>13, <1>14, OneReader DEF WriterInv

Parts == Seq(Seq(Nat))
And(done, part) == Append(done, part)
LastIs(s, x) == s[Len(s)] = x /\ Last(s) = x

LEMMA LastReplaced ==
  ASSUME NEW done \in Seq(Parts), NEW part \in Parts, NEW part2 \in Parts, NEW out, out = And(done, part),
         NEW out2, out2 = Replaced(out, Len(out), part2)
  PROVE  out2 = And(done, part2) /\ LastIs(out2, part2)
  <1> USE DEF And
  <1>1. PICK n, b : n = Len(done) + 1 /\ b = Append(done, part2)
    OBVIOUS
  <1>2. /\ out \in Seq(Parts) /\ Len(out) = n /\ out[n] = part /\ n \in Nat /\ n \in 1 .. n
        /\ \A i \in 1 .. Len(done) : out[i] = done[i]
    BY <1>1, AppendProperties
  <1>3. /\ b \in Seq(Parts) /\ Len(b) = n /\ b[n] = part2 /\ \A i \in 1 .. Len(done) : b[i] = done[i]
    BY <1>1, AppendProperties
  <1>4. \A i \in 1 .. n : i = n \/ i \in 1 .. Len(done)
    BY <1>1, <1>2
  <1>5. DOMAIN out = 1 .. n /\ out = [i \in 1 .. n |-> out[i]]
    <2>1. out \in Seq(Parts) /\ Len(out) = n
      BY <1>2
    <2>2. DOMAIN out = 1 .. Len(out) /\ out = [i \in 1 .. Len(out) |-> out[i]]
      BY <2>1, SeqIsFun, Zenon
    <2> QED
      BY <2>1, <2>2, Zenon
  <1>6. DOMAIN b = 1 .. n /\ b = [i \in 1 .. n |-> b[i]]
    <2>1. b \in Seq(Parts) /\ Len(b) = n
      BY <1>3
    <2>2. DOMAIN b = 1 .. Len(b) /\ b = [i \in 1 .. Len(b) |-> b[i]]
      BY <2>1, SeqIsFun, Zenon
    <2> QED
      BY <2>1, <2>2, Zenon
  <1>7. out2 = [i \in 1 .. n |-> IF i = n THEN part2 ELSE out[i]]
    <2>1. out2 = [out EXCEPT ![n] = part2]
      BY <1>2 DEF Replaced
    <2>2. out2 = [i \in DOMAIN out |-> IF i = n THEN part2 ELSE out[i]]
      BY <2>1, Zenon
    <2> QED
      BY <1>5, <2>2
  <1>8. \A i \in 1 .. n : (IF i = n THEN part2 ELSE out[i]) = b[i]
    BY <1>2, <1>3, <1>4
  <1>9. out2 = b
    BY <1>6, <1>7, <1>8
  <1>10. LastIs(out2, part2)
    BY <1>3, <1>9 DEF Last, LastIs
  <1> QED
    BY <1>1, <1>9, <1>10

LEMMA ReturnedFacts ==
  ASSUME NEW r, NEW v, NEW cur, Shaped(rd[r]), NEW y, y = Returned(r, v, cur), NEW out, out = rd[r].out
  PROVE  LET out2 == [out EXCEPT ![Len(out)] = Append(out[Len(out)], v)]
         IN /\ Shaped(y) /\ y.chunk = rd[r].chunk /\ y.gen = rd[r].gen /\ y.end = rd[r].end /\ y.pos = rd[r].pos
            /\ y.owner = rd[r].owner /\ y.cur = cur /\ y.rend = rd[r].rend /\ y.out = out2 /\ y.want = rd[r].want
            /\ y.phase = IF Len(Last(out2)) = NumCols THEN "rows" ELSE "cols"
  <1> DEFINE out2 == [out EXCEPT ![Len(out)] = Append(out[Len(out)], v)]
             ph == IF Len(Last(out2)) = NumCols THEN "rows" ELSE "cols"
  <1>1. y = [rd[r] EXCEPT !.out = out2, !.cur = cur, !.phase = ph]
    BY DEF Returned
  <1> HIDE DEF out2, ph
  <1>2. /\ Shaped(y) /\ y.chunk = rd[r].chunk /\ y.gen = rd[r].gen /\ y.end = rd[r].end /\ y.pos = rd[r].pos
        /\ y.owner = rd[r].owner /\ y.cur = cur /\ y.rend = rd[r].rend /\ y.out = out2 /\ y.want = rd[r].want
        /\ y.phase = ph
    BY <1>1 DEF Shaped
  <1> QED
    BY <1>2 DEF out2, ph

LEMMA ReturnedSame ==
  ASSUME NEW r, NEW v, NEW cur, NEW x, x = rd[r], Shaped(x), NEW y, y = Returned(r, v, cur)
  PROVE  /\ Shaped(y) /\ y.chunk = x.chunk /\ y.gen = x.gen /\ y.owner = x.owner /\ y.end = x.end
         /\ y.phase \in {"rows", "cols"}
  <1>1. PICK out, out2 : out = rd[r].out /\ out2 = [out EXCEPT ![Len(out)] = Append(out[Len(out)], v)]
    OBVIOUS
  <1>2. /\ Shaped(y) /\ y.chunk = rd[r].chunk /\ y.gen = rd[r].gen /\ y.owner = rd[r].owner /\ y.end = rd[r].end
        /\ y.phase = IF Len(Last(out2)) = NumCols THEN "rows" ELSE "cols"
    BY <1>1, ReturnedFacts
  <1> QED
    BY <1>2

\* A column is returned as it was written.
LEMMA ReturnedStands ==
  ASSUME NumCols \in Nat, ChunkSize \in Nat, HeaderSize \in Nat, NEW r, NEW m, Shaped(rd[r]),
         rd[r].phase = "cols", Stood(m, rd[r]), rd[r].end <= ChunkSize,
         NEW y, y = Returned(r, Decoded(m, rd[r].cur), After(m, rd[r].cur))
  PROVE  Stood(m, y)
  <1>1. PICK pos, end, cur, rend, out, want :
          /\ pos = rd[r].pos /\ end = rd[r].end /\ cur = rd[r].cur /\ rend = rd[r].rend /\ out = rd[r].out
          /\ want = rd[r].want
    OBVIOUS
  <1>2. Inside(m, pos, end, cur, rend, out, want) /\ end <= ChunkSize
    BY <1>1 DEF Stood
  <1>3. PICK at, p, done, part : /\ out = Append(done, part)
                                 /\ InRow(m, at, p, done, part, pos, end, cur, rend, want)
    BY <1>2, Zenon DEF Inside
  <1>4. PICK v : v = Decoded(m, cur)
    OBVIOUS
  <1>5. /\ done \in Seq(Seq(Seq(Nat))) /\ part \in Seq(Seq(Nat)) /\ v \in Seq(Nat)
        /\ Append(part, v) \in Seq(Seq(Nat))
    <2>1. done \in Seq(Seq(Seq(Nat))) /\ part \in Seq(Seq(Nat))
      BY <1>3 DEF InRow
    <2> DEFINE vals == want[Len(done) + 1]
               j == Len(part) + 1
    <2>2. vals \in Seq(Seq(Nat)) /\ Len(vals) = NumCols /\ j \in 1 .. NumCols /\ v = vals[j]
      BY <1>2, <1>3, <1>4, CursorReads
    <2> HIDE DEF vals, j
    <2>3. v \in Seq(Nat)
      BY <2>2
    <2>4. Append(part, v) \in Seq(Seq(Nat))
      BY <2>1, <2>3, AppendProperties
    <2> QED
      BY <2>1, <2>3, <2>4
  <1>6. PICK out2 : out2 = [out EXCEPT ![Len(out)] = Append(out[Len(out)], v)]
    OBVIOUS
  <1>7. out2 = Append(done, Append(part, v)) /\ Last(out2) = Append(part, v)
    <2>1. PICK part2 : part2 = Append(part, v)
      OBVIOUS
    <2>2. part2 \in Seq(Seq(Nat)) /\ Len(out) = Len(done) + 1 /\ out[Len(done) + 1] = part
      BY <1>3, <1>5, <2>1, AppendProperties
    <2>3. out2 = [out EXCEPT ![Len(out)] = part2]
      <3>1. out[Len(out)] = part
        BY <2>2
      <3> QED
        BY <1>6, <2>1, <3>1
    <2>4. out2 = Replaced(out, Len(out), part2)
      BY <2>3 DEF Replaced
    <2>5. out2 = Append(done, part2) /\ Last(out2) = part2
      <3>1. out = And(done, part)
        BY <1>3 DEF And
      <3>2. done \in Seq(Parts) /\ part \in Parts /\ part2 \in Parts
        BY <1>5, <2>2 DEF Parts
      <3>3. out2 = And(done, part2) /\ LastIs(out2, part2)
        BY <2>4, <3>1, <3>2, LastReplaced, Zenon
      <3> QED
        BY <3>3 DEF And, LastIs
    <2> QED
      BY <2>1, <2>5
  <1>8. /\ y.pos = pos /\ y.end = end /\ y.cur = After(m, cur) /\ y.rend = rend /\ y.out = out2 /\ y.want = want
        /\ y.phase = IF Len(Last(out2)) = NumCols THEN "rows" ELSE "cols"
    BY <1>1, <1>4, <1>6, ReturnedFacts
  <1>9. IF Len(Append(part, v)) = NumCols
        THEN Between(m, pos, end, out2, want) ELSE Inside(m, pos, end, After(m, cur), rend, out2, want)
    BY <1>2, <1>3, <1>4, <1>7, CursorMoves
  <1> QED
    BY <1>7, <1>8, <1>9 DEF Stood

\* A column of a chunk that is still the one pinned is all there.
LEMMA ColReads ==
  ASSUME ReaderInv, WriterInv, NEW r \in Readers, NEW x, x = rd[r], x.phase = "cols", gen[x.chunk] = x.gen,
         NEW m, m = mem[x.chunk]
  PROVE  /\ x.cur \in Nat /\ x.rend \in Nat /\ x.cur < x.rend /\ m[x.cur] \in Int
         /\ m[x.cur] < 0 => Known(m, -m[x.cur], End(x.chunk)) /\ Within(m, -m[x.cur], ChunkSize)
         /\ m[x.cur] >= 0 => Within(m, x.cur, x.rend)
  <1>1. /\ x.chunk \in Chunks /\ Stood(m, x) /\ x.end <= ChunkSize /\ x.end <= End(x.chunk) /\ x.end \in Nat
    BY StoodFacts DEF Reading
  <1>2. PICK pos, end, cur, rend, out, want :
          /\ pos = x.pos /\ end = x.end /\ cur = x.cur /\ rend = x.rend /\ out = x.out /\ want = x.want
    OBVIOUS
  <1>3. Inside(m, pos, end, cur, rend, out, want) /\ end <= ChunkSize
    BY <1>1, <1>2 DEF Stood
  <1>4. PICK at, p, done, part : /\ out = Append(done, part)
                                 /\ InRow(m, at, p, done, part, pos, end, cur, rend, want)
    BY <1>3, Zenon DEF Inside
  <1>5. NumCols \in Nat /\ ChunkSize \in Nat /\ HeaderSize \in Nat /\ End(x.chunk) \in Nat
    BY <1>1, TableFacts, EndFacts DEF WriterInv, Typed
  <1>6. /\ m[cur] \in Int /\ cur \in Nat /\ rend \in Nat /\ cur < rend
        /\ m[cur] < 0 => Known(m, -m[cur], end) /\ Within(m, -m[cur], ChunkSize)
        /\ m[cur] >= 0 => Within(m, cur, rend)
    BY <1>3, <1>4, <1>5, CursorReads
  <1>7. ASSUME m[cur] < 0 PROVE Known(m, -m[cur], End(x.chunk))
    BY <1>1, <1>2, <1>5, <1>6, <1>7, KnownWider
  <1> QED
    BY <1>2, <1>6, <1>7

\* A reader that moves within the chunk it pinned.
LEMMA StillOk ==
  ASSUME ReaderInv, NEW r \in Readers, NEW x, x = rd[r], x.phase \in {"rows", "cols"}, NEW y, Shaped(y),
         y.chunk = x.chunk, y.gen = x.gen, y.owner = x.owner, y.end = x.end, y.phase \in {"rows", "cols", "stale"},
         gen[x.chunk] = x.gen => y.phase # "stale" /\ Stood(mem[x.chunk], y)
  PROVE  ReaderOk(r, y) /\ y.phase # "none"
  <1>1. ReaderOk(r, x)
    BY DEF ReaderInv
  <1> QED
    BY <1>1 DEF ReaderOk, Owned, Phases

LEMMA ReadColKeeps ==
  ASSUME ReaderInv, WriterInv, NEW r \in Readers, ReadCol(r), UNCHANGED table
  PROVE  ReaderInv'
  <1>1. PICK x, m, cur, o, lim :
          /\ x = rd[r] /\ m = mem[x.chunk] /\ cur = x.cur /\ o = (IF m[cur] < 0 THEN -m[cur] ELSE cur)
          /\ lim = (IF m[cur] < 0 THEN ChunkSize ELSE x.rend)
    OBVIOUS
  <1> DEFINE stale == cur >= x.rend \/ ~Within(m, o, lim)
  <1>2. x.phase = "cols" /\ WriterFrame
    BY <1>1 DEF ReadCol
  <1>3. \/ stale /\ rd' = [rd EXCEPT ![r].phase = "stale"] /\ UNCHANGED cache
        \/ /\ ~stale /\ rd' = [rd EXCEPT ![r] = Returned(r, Slice(m, o + 1, o + 1 + m[o]), After(m, cur))]
           /\ UNCHANGED cache
        \/ /\ ~stale /\ m[cur] < 0 /\ cache' = [cache EXCEPT ![r] = Resolve(r, o)]
           /\ rd' = [rd EXCEPT ![r] = Returned(r, Slice(m, cache'[r].range[1], cache'[r].range[2]), cur + 1)]
    BY <1>1 DEF ReadCol
  <1>4. /\ CacheOk(cache[r]) /\ ReaderOk(r, x) /\ cache = [cache EXCEPT ![r] = cache[r]]
        /\ rd = [q \in Readers |-> rd[q]] /\ cache = [q \in Readers |-> cache[q]]
    BY <1>1, CacheSame DEF ReaderInv
  <1>5. Shaped(x) /\ x.chunk \in Chunks /\ x.gen \in Nat /\ x.gen <= gen[x.chunk]
    BY <1>4 DEF ReaderOk
  <1>6. NumCols \in Nat /\ ChunkSize \in Nat /\ HeaderSize \in Nat
    BY TableFacts DEF WriterInv, Typed
  <1>7. ASSUME gen[x.chunk] = x.gen
        PROVE  ~stale /\ (m[cur] < 0 => Known(m, o, End(x.chunk))) /\ Stood(m, x) /\ x.end <= ChunkSize
    <2>1. /\ cur \in Nat /\ x.rend \in Nat /\ cur < x.rend /\ m[cur] \in Int
          /\ m[cur] < 0 => Known(m, -m[cur], End(x.chunk)) /\ Within(m, -m[cur], ChunkSize)
          /\ m[cur] >= 0 => Within(m, cur, x.rend)
      BY <1>1, <1>2, <1>7, ColReads
    <2>2. Stood(m, x) /\ x.end <= ChunkSize
      BY <1>1, <1>2, <1>7, StoodFacts DEF Reading
    <2>3. CASE m[cur] < 0
      BY <1>1, <2>1, <2>2, <2>3
    <2>4. CASE m[cur] >= 0
      BY <1>1, <2>1, <2>2, <2>4
    <2> QED
      BY <2>1, <2>3, <2>4
  <1>8. ASSUME NEW v, NEW next, NEW y, y = Returned(r, v, next),
               gen[x.chunk] = x.gen => v = Decoded(m, cur) /\ next = After(m, cur)
        PROVE  ReaderOk(r, y) /\ y.phase # "none"
    <2>1. /\ Shaped(y) /\ y.chunk = x.chunk /\ y.gen = x.gen /\ y.owner = x.owner /\ y.end = x.end
          /\ y.phase \in {"rows", "cols"}
      BY <1>1, <1>5, <1>8, ReturnedSame
    <2>2. ASSUME gen[x.chunk] = x.gen PROVE y.phase # "stale" /\ Stood(mem[x.chunk], y)
      <3>1. Stood(m, y)
        BY <1>1, <1>2, <1>5, <1>6, <1>7, <1>8, <2>2, ReturnedStands
      <3> QED
        BY <1>1, <2>1, <3>1
    <2> QED
      BY <1>1, <1>2, <2>1, <2>2, StillOk
  <1>9. CASE stale /\ rd' = [rd EXCEPT ![r].phase = "stale"] /\ UNCHANGED cache
    <2>1. PICK y : y = [x EXCEPT !.phase = "stale"]
      OBVIOUS
    <2>2. /\ Shaped(y) /\ y.chunk = x.chunk /\ y.gen = x.gen /\ y.owner = x.owner /\ y.end = x.end
          /\ y.phase = "stale"
      BY <1>5, <2>1 DEF Shaped
    <2>3. gen[x.chunk] # x.gen
      BY <1>7, <1>9
    <2>4. ReaderOk(r, y) /\ y.phase # "none"
      BY <1>1, <1>2, <2>2, <2>3, StillOk
    <2>5. rd' = [rd EXCEPT ![r] = y]
      BY <1>1, <1>9, <2>1
    <2> QED
      BY <1>2, <1>4, <1>9, <2>4, <2>5, OneReader DEF WriterInv
  <1>10. CASE /\ ~stale /\ rd' = [rd EXCEPT ![r] = Returned(r, Slice(m, o + 1, o + 1 + m[o]), After(m, cur))]
              /\ UNCHANGED cache
    <2>1. PICK v, y : v = Slice(m, o + 1, o + 1 + m[o]) /\ y = Returned(r, v, After(m, cur))
      OBVIOUS
    <2>2. v = Decoded(m, cur)
      BY <1>1, <2>1 DEF Decoded
    <2>3. ReaderOk(r, y) /\ y.phase # "none"
      BY <1>8, <2>1, <2>2
    <2>4. rd' = [rd EXCEPT ![r] = y]
      BY <1>10, <2>1
    <2> QED
      BY <1>2, <1>4, <1>10, <2>3, <2>4, OneReader DEF WriterInv
  <1>11. CASE /\ ~stale /\ m[cur] < 0 /\ cache' = [cache EXCEPT ![r] = Resolve(r, o)]
              /\ rd' = [rd EXCEPT ![r] = Returned(r, Slice(m, cache'[r].range[1], cache'[r].range[2]), cur + 1)]
    <2>1. PICK ca, v, y : /\ ca = Resolve(r, o) /\ v = Slice(m, ca.range[1], ca.range[2])
                          /\ y = Returned(r, v, cur + 1)
      OBVIOUS
    <2>2. cache'[r] = ca /\ cache' = [cache EXCEPT ![r] = ca]
      BY <1>4, <1>11, <2>1
    <2>3. o \in Nat /\ HeaderSize <= o
      BY <1>1, <1>6, <1>11 DEF Within
    <2>4. x.chunk \in Nat
      BY <1>5, TableFacts DEF WriterInv, Typed, Chunks
    <2>5. /\ CacheOk(ca)
          /\ x.gen = gen[x.chunk] => ca.range = <<o + 1, o + 1 + m[o]>>
      BY <1>1, <1>4, <1>5, <1>7, <1>11, <2>1, <2>3, <2>4, Resolves
    <2>6. ASSUME gen[x.chunk] = x.gen PROVE v = Decoded(m, cur) /\ cur + 1 = After(m, cur)
      <3>1. v = Slice(m, o + 1, o + 1 + m[o])
        BY <2>1, <2>5, <2>6
      <3> QED
        BY <1>1, <1>11, <3>1 DEF Decoded, After
    <2>7. ReaderOk(r, y) /\ y.phase # "none"
      BY <1>8, <2>1, <2>6
    <2>8. rd' = [rd EXCEPT ![r] = y]
      BY <1>11, <2>1, <2>2
    <2> QED
      BY <1>2, <2>2, <2>5, <2>7, <2>8, OneReader DEF WriterInv
  <1> QED
    BY <1>3, <1>9, <1>10, <1>11

LEMMA AdoptKeeps ==
  ASSUME ReaderInv, WriterInv, NEW r \in Readers, Adopt(r), UNCHANGED table
  PROVE  ReaderInv'
  <1>1. PICK x : x = rd[r]
    OBVIOUS
  <1>2. /\ x.phase \in {"rows", "cols"} /\ WriterFrame /\ cache' = cache
        /\ \/ gen[x.chunk] = x.gen /\ rd' = [rd EXCEPT ![r].owner = r]
           \/ rd' = [rd EXCEPT ![r].owner = "invalid", ![r].phase = "stale"]
    BY <1>1 DEF Adopt, Reading, Adoptable
  <1>3. /\ ReaderOk(r, x) /\ Shaped(x) /\ CacheOk(cache[r]) /\ cache' = [cache EXCEPT ![r] = cache[r]]
        /\ rd = [q \in Readers |-> rd[q]]
    BY <1>1, <1>2, CacheSame DEF ReaderInv, ReaderOk
  <1>4. CASE gen[x.chunk] = x.gen /\ rd' = [rd EXCEPT ![r].owner = r]
    <2>1. PICK y : y = [x EXCEPT !.owner = r]
      OBVIOUS
    <2>2. /\ Shaped(y) /\ y.phase = x.phase /\ y.chunk = x.chunk /\ y.gen = x.gen /\ y.end = x.end /\ y.pos = x.pos
          /\ y.cur = x.cur /\ y.rend = x.rend /\ y.out = x.out /\ y.want = x.want /\ y.owner = r
      BY <1>3, <2>1 DEF Shaped
    <2>3. Stood(mem[x.chunk], y) <=> Stood(mem[x.chunk], x)
      BY <2>2 DEF Stood
    <2>4. Owned(r, y)
      BY <1>2, <2>2 DEF Owned
    <2>5. ReaderOk(r, y) /\ y.phase # "none"
      BY <1>2, <1>3, <1>4, <2>2, <2>3, <2>4 DEF ReaderOk
    <2>6. rd' = [rd EXCEPT ![r] = y]
      BY <1>1, <1>4, <2>1
    <2> QED
      BY <1>2, <1>3, <2>5, <2>6, OneReader DEF WriterInv
  <1>5. CASE rd' = [rd EXCEPT ![r].owner = "invalid", ![r].phase = "stale"]
    <2>1. PICK y : y = [x EXCEPT !.owner = "invalid", !.phase = "stale"]
      OBVIOUS
    <2>2. Shaped(y) /\ y.phase = "stale" /\ y.chunk = x.chunk /\ y.gen = x.gen /\ y.owner = "invalid"
      BY <1>3, <2>1 DEF Shaped
    <2>3. "invalid" \notin Readers
      BY DedupAssumption
    <2>4. ReaderOk(r, y) /\ y.phase # "none"
      BY <1>3, <2>2, <2>3 DEF ReaderOk, Owned, Phases
    <2>5. rd' = [rd EXCEPT ![r] = y]
      BY <1>1, <1>5, <2>1
    <2> QED
      BY <1>2, <1>3, <2>4, <2>5, OneReader DEF WriterInv
  <1> QED
    BY <1>2, <1>4, <1>5

LEMMA ForkKeeps ==
  ASSUME ReaderInv, WriterInv, NEW p \in Readers, NEW q \in Readers, Fork(p, q), UNCHANGED table
  PROVE  ReaderInv'
  <1>1. PICK x, ca : x = rd[p] /\ ca = cache[p]
    OBVIOUS
  <1>2. /\ x.phase \in {"rows", "cols"} /\ rd[q].phase = "none" /\ WriterFrame
        /\ rd' = [rd EXCEPT ![q] = x] /\ cache' = [cache EXCEPT ![q] = ca]
    BY <1>1 DEF Fork, Reading
  <1>3. ReaderOk(p, x) /\ CacheOk(ca) /\ p # q
    BY <1>1, <1>2 DEF ReaderInv
  <1>4. x.owner # q /\ Owned(q, x)
    BY <1>1, <1>2, <1>3 DEF ReaderOk, Owned
  <1>5. ReaderOk(q, x) /\ x.phase # "none"
    BY <1>2, <1>3, <1>4 DEF ReaderOk
  <1> QED
    BY <1>2, <1>3, <1>5, OneReader DEF WriterInv

\* The writer passes over a chunk that is leased.
LEMMA WriterSpares ==
  ASSUME WriterInv, Write
  PROVE  Spared /\ UNCHANGED <<rd, cache>>
  <1>1. UNCHANGED <<rd, cache>>
    BY Zenon DEF Write, BeginRow, PutStr, Finish, DropRow, AppendRow, PushRow, AdvanceChunk, Reopen, ReaderFrame
  <1>2. CASE UNCHANGED gen
    BY <1>1, <1>2 DEF Spared
  <1>3. CASE Recyclable(NextChunk) /\ gen' = [gen EXCEPT ![NextChunk] = @ + 1]
    <2> SUFFICES ASSUME NEW r \in Readers, NEW c \in Chunks, Holds(r, c) PROVE gen'[c] = gen[c]
      BY <1>1 DEF Spared
    <2>1. c # NextChunk
      BY <1>3 DEF Recyclable
    <2>2. gen \in [Chunks -> 0 .. MaxGen]
      BY DEF WriterInv, Typed
    <2> QED
      BY <1>3, <2>1, <2>2
  <1>4. UNCHANGED gen \/ (Recyclable(NextChunk) /\ gen' = [gen EXCEPT ![NextChunk] = @ + 1])
    BY Zenon DEF Write, BeginRow, PutStr, Finish, DropRow, AppendRow, PushRow, AdvanceChunk, Reopen
  <1> QED
    BY <1>1, <1>2, <1>3, <1>4

LEMMA ReaderSteps == WriterInv /\ ReaderInv /\ [Next]_vars => ReaderInv'
  <1> SUFFICES ASSUME WriterInv, ReaderInv, [Next]_vars PROVE ReaderInv'
    OBVIOUS
  <1>1. Typed /\ Typed' /\ Kept
    BY WriterSteps DEF WriterInv
  <1>2. CASE UNCHANGED vars
    <2>1. UNCHANGED <<table, rd, cache>> /\ Spared
      BY <1>2 DEF vars, Spared
    <2> QED
      BY <1>1, <2>1, ReadersOutlast
  <1>3. CASE Next
    <2>1. UNCHANGED table
      BY <1>3 DEF Next
    <2>2. CASE Write
      BY <1>1, <2>1, <2>2, WriterSpares, ReadersOutlast
    <2>3. ASSUME NEW r \in Readers, Read(r) PROVE ReaderInv'
      <3>1. CASE \E c \in Chunks : PinChunk(r, c)
        BY <2>1, <3>1, PinChunkKeeps
      <3>2. CASE NextRow(r)
        BY <2>1, <3>2, NextRowKeeps
      <3>3. CASE ReadCol(r)
        BY <2>1, <3>3, ReadColKeeps
      <3>4. CASE Unpin(r)
        BY <2>1, <3>4, UnpinKeeps
      <3> QED
        BY <2>3, <3>1, <3>2, <3>3, <3>4 DEF Read
    <2>4. ASSUME NEW r \in Readers, Adopt(r) PROVE ReaderInv'
      BY <2>1, <2>4, AdoptKeeps
    <2>5. ASSUME NEW p \in Readers, NEW q \in Readers, Fork(p, q) PROVE ReaderInv'
      BY <2>1, <2>5, ForkKeeps
    <2> QED
      BY <1>3, <2>2, <2>3, <2>4, <2>5 DEF Next
  <1> QED
    BY <1>2, <1>3

\* A reader stands where it should in a chunk that is still the one it pinned, and
\* what it has cached is right as long as the generation stays (row.rs, cache.rs).
THEOREM ReadersStand == Spec => [](WriterInv /\ ReaderInv)
  <1>1. Init => WriterInv /\ ReaderInv
    BY WriterStarts, ReadersStart
  <1>2. (WriterInv /\ ReaderInv) /\ [Next]_vars => (WriterInv /\ ReaderInv)'
    BY WriterSteps, ReaderSteps
  <1> QED
    BY <1>1, <1>2, PTL DEF Spec

\* A reader gets the rows that were committed when it pinned the chunk, in order and
\* as they were written, plain or through the cache, and is told that they are gone
\* only if it holds no lease of its own (row.rs: ensure_current_process; cache.rs:
\* resolve_range).
THEOREM ReadsFaithful == Spec => []ReadsWritten
  <1>1. ASSUME WriterInv, ReaderInv PROVE ReadsWritten
    <2> SUFFICES ASSUME NEW r \in Readers
                 PROVE  /\ rd[r].phase = "stale" => rd[r].owner # r
                        /\ Reading(r) /\ rd[r].owner = r =>
                             /\ Len(rd[r].out) <= Len(rd[r].want)
                             /\ \A i \in DOMAIN rd[r].out :
                                  rd[r].out[i] = SubSeq(rd[r].want[i], 1, Len(rd[r].out[i]))
                             /\ (rd[r].phase = "rows" /\ rd[r].pos >= rd[r].end) =>
                                  Len(rd[r].out) = Len(rd[r].want)
      BY DEF ReadsWritten
    <2>1. PICK x, out, want, pos, end, cur, rend :
            /\ x = rd[r] /\ out = x.out /\ want = x.want /\ pos = x.pos /\ end = x.end /\ cur = x.cur
            /\ rend = x.rend
      OBVIOUS
    <2>2. x.phase = "stale" => x.owner # r
      BY <1>1, <2>1 DEF ReaderInv, ReaderOk
    <2>3. ASSUME Reading(r), x.owner = r
          PROVE  /\ Len(out) <= Len(want)
                 /\ \A i \in DOMAIN out : out[i] = SubSeq(want[i], 1, Len(out[i]))
                 /\ (x.phase = "rows" /\ pos >= end) => Len(out) = Len(want)
      <3>1. Stood(mem[x.chunk], x)
        BY <1>1, <2>1, <2>3, Leased, StoodFacts
      <3>2. PICK m : m = mem[x.chunk]
        OBVIOUS
      <3>3. CASE x.phase = "rows"
        <4>1. Between(m, pos, end, out, want)
          BY <2>1, <3>1, <3>2, <3>3 DEF Stood
        <4> QED
          BY <4>1, BetweenGot
      <3>4. CASE x.phase # "rows"
        <4>1. Inside(m, pos, end, cur, rend, out, want)
          BY <2>1, <3>1, <3>2, <3>4 DEF Stood
        <4>2. NumCols \in Nat
          BY <1>1, TableFacts DEF WriterInv, Typed
        <4> QED
          BY <3>4, <4>1, <4>2, InsideGot
      <3> QED
        BY <3>3, <3>4
    <2> QED
      BY <2>1, <2>2, <2>3
  <1> QED
    BY <1>1, ReadersStand, PTL

\* What stands in a chunk decodes to the rows that were committed, whatever was
\* dropped, overflowed, left open by a crash or recycled before; every open accepts
\* the buffer; and the cache's queue holds what its map does (dedup.rs: lookup;
\* memtable.rs: validate_chunk_rows; cache.rs: resolve_slow).
THEOREM BufferIsSound == Spec => []BufferSound
  <1>1. ASSUME WriterInv, ReaderInv PROVE TypeOK
    <2>1. /\ mem \in [Chunks -> [Cells -> Int]] /\ used \in [Chunks -> 0 .. ChunkSize - HeaderSize]
          /\ gen \in [Chunks -> 0 .. MaxGen] /\ wc \in Chunks
      BY <1>1 DEF WriterInv, Typed, Memories
    <2>2. End(wc) \in Nat /\ End(wc) <= ChunkSize /\ HeaderSize <= End(wc) /\ HeaderSize \in Nat /\ ChunkSize \in Nat
      BY <1>1, <2>1, EndFacts, TableFacts DEF WriterInv, Typed
    <2>3. ASSUME NEW m, NEW o, NEW lim \in Int, Known(m, o, lim), lim <= ChunkSize PROVE o \in Cells
      BY <2>2, <2>3 DEF Known, Cells
    <2>4. \A k \in DOMAIN seen : seen[k] \in Cells
      <3>1. \A k \in DOMAIN seen : Known(mem[wc], seen[k], End(wc))
        BY <1>1 DEF WriterInv, DictOk, End
      <3> QED
        BY <2>2, <2>3, <3>1
    <2>5. /\ \A i \in DOMAIN pending : pending[i][2] \in Cells
          /\ row.open => row.pos \in HeaderSize + 1 .. ChunkSize + 1
      <3>1. CASE row.open
        <4>1. OpenRow
          BY <1>1, <3>1 DEF WriterInv, RowOk
        <4>2. row.pos \in Nat /\ row.start \in Nat
          BY <4>1 DEF OpenRow, RowTypes
        <4>3. row.pos \in HeaderSize + 1 .. ChunkSize + 1
          BY <2>2, <4>1, <4>2 DEF OpenRow
        <4>4. ASSUME NEW i \in DOMAIN pending PROVE pending[i][2] \in Cells
          BY <2>3, <4>1, <4>2 DEF OpenRow
        <4> QED
          BY <4>3, <4>4
      <3>2. CASE ~row.open
        BY <1>1, <3>2 DEF WriterInv, RowOk
      <3> QED
        BY <3>1, <3>2
    <2>6. \A r \in Readers : rd[r].phase \in {"none", "idle", "rows", "cols", "stale"}
      BY <1>1 DEF ReaderInv, ReaderOk, Phases
    <2> QED
      BY <2>1, <2>4, <2>5, <2>6 DEF TypeOK
  <1>2. ReaderInv => CacheFifo
    BY DEF ReaderInv, CacheOk, Fifo, CacheFifo
  <1>3. WriterInv /\ ReaderInv => BufferSound
    BY <1>1, <1>2, BufferReads DEF BufferSound
  <1> QED
    BY <1>3, ReadersStand, PTL
=============================================================================
