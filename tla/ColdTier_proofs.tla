--------------------------- MODULE ColdTier_proofs ---------------------------
(***************************************************************************)
(* Proofs about the two tiers, for every number of chunks, rows, tables    *)
(* and leases and every budget: the compactor drains a chunk's generation  *)
(* into one page and whole, its watermarks tell no lie, and a query over   *)
(* both tiers counts no row twice and misses none that stays put.  And for *)
(* every number of processes: retention takes no segment that is written,  *)
(* and passes that do not overlap remove only what the limits ask for.     *)
(***************************************************************************)
EXTENDS ColdTier, ColdStore, FiniteSetTheorems, SequenceTheorems, WellFoundedInduction, TLAPS

----------------------------------------------------------------------------
(***************************************************************************)
(* The invariant.                                                          *)
(***************************************************************************)
States == {"Empty", "Writing", "Sealed"}
ChunkTypes == [state : States, gen : Nat, n : 0 .. ChunkRows, pins : SUBSET Readers]
Rings == [ch : [Chunks -> ChunkTypes], wc : Chunks, hidden : States \cup {"none"}]
Keys == [inst : Insts, chunk : Chunks, gen : Nat]
PageTypes == [key : Keys, n : Nat]
Rows == [key : Keys, i : Nat]
SegTypes == [state : {"open", "sealed", "gone"}, pages : Seq(PageTypes)]
CpPcs == {"idle", "state", "gen", "before", "pin", "unpin", "after", "append", "size", "enforce",
          "done", "down"}
CpTypes == [pc : CpPcs, src : Nat, todo : Seq(Chunks), mark : [Chunks -> Nat],
            seed : [Insts -> [Chunks -> Nat]], open : Nat, stop : BOOLEAN, final : BOOLEAN, saw : Nat]
QPcs == {"idle", "cold", "exclude", "before", "pin", "unpin", "after", "done"}
QTypes == [pc : QPcs, inst : Nat, todo : Seq(Nat), covered : SUBSET Keys, got : SUBSET Rows,
           dup : BOOLEAN]
Lefts == [rows : Nat, advances : Int, tables : Nat, crashes : Nat, queries : Nat]

Gen(i, c) == hot[i].ch[c].gen
Filled(i, c) == hot[i].ch[c].n
NextOf(i) == (hot[i].wc + 1) % NumChunks

\* A chunk is sealed, though the writer may have hidden it, and holds all its rows.
Closed(i, c) ==
    hot[i].ch[c].state = "Sealed" \/ (hot[i].hidden = "Sealed" /\ c = NextOf(i))

RingOk(i) ==
    /\ hot[i].ch[hot[i].wc].state # "Sealed" /\ Gen(i, hot[i].wc) > 0
    /\ hot[i].hidden # "none" =>
          /\ Filled(i, hot[i].wc) > 0 /\ hot[i].ch[NextOf(i)].state = "Empty"
          /\ hot[i].hidden = "Sealed" => NextOf(i) # hot[i].wc
          /\ hot[i].hidden = "Writing" => Gen(i, NextOf(i)) > 0
    /\ \A c \in Chunks :
          /\ hot[i].ch[c].state # "Empty" => Gen(i, c) > 0
          /\ Cardinality(hot[i].ch[c].pins) <= LeaseSlots
          /\ Closed(i, c) => /\ Gen(i, c) > 0 /\ Filled(i, c) > 0
                             /\ Page(Key(i, c, Gen(i, c)), Filled(i, c)) \in sealed

\* What is known of a page that was sealed: its generation has passed, or is closed.
SealedOk(p) ==
    LET i == p.key.inst
        c == p.key.chunk
    IN /\ p \in PageTypes /\ p.key.gen <= Gen(i, c)
       /\ p.key.gen = Gen(i, c) => Closed(i, c) /\ p.n = Filled(i, c)

HotInv ==
    /\ hot \in [Insts -> Rings] /\ cur \in Insts /\ left \in Lefts /\ cur + left.tables <= MaxInst
    /\ odd \subseteq Keys
    /\ \A i \in Insts : RingOk(i)
    /\ \A p \in sealed : SealedOk(p)

\* The pages of a segment that is there.
Stored(s) == IF segs[s].state = "gone" THEN {} ELSE Range(segs[s].pages)
\* The keys up to the watermarks, those of the source and those of tables to come.
Marked(k) ==
    /\ k.inst = cp.src => k.gen <= cp.mark[k.chunk]
    /\ k.inst > cp.src => k.gen <= cp.seed[k.inst][k.chunk]
Accounted(k) == k.gen = 0 \/ k \in odd \/ Archived(k)

PageOk(p) ==
    /\ p.key.gen > 0 /\ p.key.gen <= Gen(p.key.inst, p.key.chunk)
    /\ p.key \notin odd => p \in sealed

OnePage ==
    \A s, t \in Present : \A i \in DOMAIN segs[s].pages, j \in DOMAIN segs[t].pages :
        segs[s].pages[i].key = segs[t].pages[j].key => s = t /\ i = j

SegsInv ==
    /\ segs \in Seq(SegTypes)
    /\ \A s \in DOMAIN segs : /\ segs[s].pages # <<>>
                              /\ \A p \in Stored(s) : PageOk(p)
    /\ OnePage

MarksOk ==
    /\ \A i \in Insts, c \in Chunks : cp.seed[i][c] <= Gen(i, c)
    /\ \A i \in Insts, c \in Chunks : i > cp.src => Accounted(Key(i, c, cp.seed[i][c]))
    /\ cp.src # 0 => \A c \in Chunks : /\ cp.mark[c] <= Gen(cp.src, c)
                                       /\ Accounted(Key(cp.src, c, cp.mark[c]))
    /\ cp.pc # "down" => \A s \in DOMAIN segs : \A p \in Stored(s) : Marked(p.key)

\* The chunk the compactor is at, and what it has read of it.
AtChunk == {"gen", "before", "pin", "unpin", "after", "append", "size"}
Took == rd["compactor"]
TookKey == Key(cp.src, Chunk, Took.gen)
Whole == Took.n > 0 /\ Page(TookKey, Took.n) \in sealed
PassInv ==
    /\ cp \in CpTypes /\ cp.src <= cur
    /\ cp.pc \in AtChunk \cup {"state", "enforce"} => cp.src # 0
    /\ cp.pc = "down" => cp.src = 0 /\ cp.open = 0
    /\ cp.open # 0 => cp.open \in DOMAIN segs /\ segs[cp.open].state = "open"
    /\ cp.pc = "size" => cp.open # 0
    /\ Took \in [gen : Nat, n : Nat]
    /\ cp.pc \in AtChunk => cp.todo # <<>>
    /\ cp.pc \in {"gen", "before", "pin", "unpin", "after"} =>
          cp.saw <= Gen(cp.src, Chunk) /\ (cp.saw = Gen(cp.src, Chunk) => Closed(cp.src, Chunk))
    /\ cp.pc \in {"before", "pin", "unpin", "after"} => Gen(cp.src, Chunk) > cp.mark[Chunk]
    /\ cp.pc \in {"pin", "unpin", "after", "append"} =>
          Took.gen <= Gen(cp.src, Chunk) /\ Took.gen > cp.mark[Chunk]
    /\ cp.pc \in {"unpin", "after"} =>
          TookKey \in odd \/ Took.gen # Gen(cp.src, Chunk) \/ Whole
    /\ cp.pc = "append" => Took.n > 0 /\ (TookKey \in odd \/ Whole)

\* The query: what it has covered, what it has got, and what it still comes by.
Seen(k) == k \in odd \/ \E p \in sealed : p.key = k /\ RowsOf(p) \subseteq q.got
RowAt(s, r) == \E p \in Stored(s) : r \in RowsOf(p)
InHot == {"exclude", "before", "pin", "unpin", "after"}
QTook == rd["query"]
ColdPhase ==
    q.pc = "cold" =>
      /\ Range(q.todo) \subseteq DOMAIN segs
      /\ \A s \in Range(q.todo) : \A p \in Stored(s) : p.key \notin q.covered
      /\ cp.open \in Range(q.todo) => \A k \in q.covered : Marked(k)
      /\ \A r \in q.got : r.key \in q.covered
      /\ \A r \in must.cold : r \in q.got \/ \E s \in Range(q.todo) : RowAt(s, r)
HotPhase ==
    q.pc \in InHot =>
      /\ Range(q.todo) \subseteq Chunks
      /\ must.cold \subseteq q.got
      /\ \A r \in q.got : r.key \in q.covered
                            \/ (r.key.inst = q.inst /\ r.key.chunk \notin Range(q.todo))
      /\ q.pc # "exclude" =>
           /\ q.todo # <<>>
           /\ \A k \in q.covered : k.inst = q.inst /\ k.chunk = QChunk =>
                 k.gen < IF q.pc = "before" THEN Gen(q.inst, QChunk) ELSE QTook.gen
Leased ==
    \A i \in Insts, c \in Chunks :
        "query" \in hot[i].ch[c].pins => q.pc = "unpin" /\ i = q.inst /\ c = QChunk
Awaited ==
    /\ q.pc \in InHot => \A r \in must.hot : \/ r.key \in odd \/ r \in q.got
                                             \/ r.key.chunk \in Range(q.todo)
    /\ q.pc \in {"pin", "unpin", "after"} =>
         \A r \in must.hot : r.key.chunk = QChunk =>
             r.key.gen = QTook.gen /\ (q.pc # "pin" => r.i <= QTook.n)
    /\ q.pc = "done" => \A r \in must.hot \cup must.cold : r.key \in odd \/ r \in q.got
QueryInv ==
    /\ q \in QTypes /\ must \in [hot : SUBSET Rows, cold : SUBSET Rows]
    /\ QTook \in [gen : Nat, n : Nat]
    /\ ~q.dup
    /\ q.pc # "idle" => q.inst \in Insts /\ must.hot \subseteq HotRows(q.inst)
    /\ q.pc = "idle" => must = NoRows
    /\ IsInjective(q.todo)
    /\ \A k \in q.covered : k.gen <= Gen(k.inst, k.chunk) /\ Seen(k)
    /\ ColdPhase /\ HotPhase /\ Leased
    /\ LeaseSlots >= 2 => Awaited
ReadsOk == rd \in [Readers -> [gen : Nat, n : Nat]]
Inv == HotInv /\ SegsInv /\ MarksOk /\ PassInv /\ ReadsOk /\ QueryInv

----------------------------------------------------------------------------
(***************************************************************************)
(* Facts about the data.                                                   *)
(***************************************************************************)
LEMMA NextFacts ==
  ASSUME NEW w \in Chunks
  PROVE (w + 1) % NumChunks \in Chunks
  BY ColdAssumption DEF Chunks

LEMMA HotType ==
  ASSUME HotInv, NEW i \in Insts
  PROVE /\ hot[i] \in Rings /\ hot[i].wc \in Chunks /\ NextOf(i) \in Chunks /\ RingOk(i)
        /\ \A c \in Chunks : hot[i].ch[c] \in ChunkTypes /\ Gen(i, c) \in Nat
                             /\ Filled(i, c) \in 0 .. ChunkRows /\ hot[i].ch[c].pins \subseteq Readers
  <1>1. hot[i] \in Rings /\ RingOk(i)
    BY DEF HotInv
  <1>2. hot[i].wc \in Chunks
    BY <1>1 DEF Rings
  <1>3. NextOf(i) \in Chunks
    BY <1>2, NextFacts DEF NextOf
  <1>4. \A c \in Chunks : hot[i].ch[c] \in ChunkTypes
    BY <1>1 DEF Rings
  <1> QED
    BY <1>1, <1>2, <1>3, <1>4 DEF ChunkTypes, Gen, Filled

\* Of a sequence that takes each value once, the tail has all but the head.
LEMMA TailFacts ==
  ASSUME NEW S, NEW s \in Seq(S), s # <<>>
  PROVE /\ Head(s) \in S /\ Head(s) \in Range(s) /\ Tail(s) \in Seq(S)
        /\ Range(Tail(s)) \subseteq Range(s)
        /\ IsInjective(s) => IsInjective(Tail(s)) /\ Range(Tail(s)) = Range(s) \ {Head(s)}
  <1> PICK n \in Nat : n = Len(s)
    BY LenProperties
  <1>1. DOMAIN s = 1 .. n /\ n > 0 /\ Head(s) = s[1] /\ s[1] \in S
    BY LenProperties, EmptySeq, HeadTailProperties, ElementOfSeq
  <1>2. Tail(s) \in Seq(S) /\ Len(Tail(s)) = n - 1
    BY HeadTailProperties
  <1>3. DOMAIN Tail(s) = 1 .. n - 1
    BY <1>2, LenProperties
  <1>4. \A m \in 1 .. n - 1 : Tail(s)[m] = s[m + 1] /\ m + 1 \in 1 .. n
    BY <1>1, <1>2, HeadTailProperties
  <1>5. Range(Tail(s)) \subseteq Range(s)
    BY <1>1, <1>3, <1>4 DEF Range
  <1>6. ASSUME IsInjective(s) PROVE IsInjective(Tail(s))
    <2> SUFFICES ASSUME NEW a \in 1 .. n - 1, NEW b \in 1 .. n - 1, Tail(s)[a] = Tail(s)[b]
                 PROVE a = b
      BY <1>3 DEF IsInjective
    <2>1. s[a + 1] = s[b + 1] /\ a + 1 \in 1 .. n /\ b + 1 \in 1 .. n
      BY <1>4
    <2>2. a + 1 = b + 1
      BY <1>1, <1>6, <2>1 DEF IsInjective
    <2> QED
      BY <2>2
  <1>7. ASSUME IsInjective(s) PROVE Range(Tail(s)) = Range(s) \ {Head(s)}
    <2>1. ASSUME NEW x \in Range(Tail(s)) PROVE x # Head(s)
      <3>1. PICK m \in 1 .. n - 1 : x = Tail(s)[m]
        BY <1>3 DEF Range
      <3>2. x = s[m + 1] /\ m + 1 \in 1 .. n /\ 1 \in 1 .. n /\ m + 1 # 1
        BY <1>1, <1>4, <3>1
      <3> QED
        BY <1>1, <1>7, <3>2 DEF IsInjective
    <2>2. ASSUME NEW x \in Range(s), x # Head(s) PROVE x \in Range(Tail(s))
      <3>1. PICK m \in 1 .. n : x = s[m]
        BY <1>1 DEF Range
      <3>2. m # 1
        BY <1>1, <2>2, <3>1
      <3>3. m - 1 \in 1 .. n - 1 /\ (m - 1) + 1 = m
        BY <3>2
      <3>4. Tail(s)[m - 1] = s[m]
        BY <1>4, <3>3
      <3> QED
        BY <1>3, <3>1, <3>3, <3>4 DEF Range
    <2> QED
      BY <1>5, <2>1, <2>2
  <1>8. Head(s) \in Range(s)
    <2>1. 1 \in DOMAIN s
      BY <1>1
    <2> QED
      BY <1>1, <2>1 DEF Range
  <1> QED
    BY <1>1, <1>2, <1>5, <1>6, <1>7, <1>8

LEMMA SourceType ==
  ASSUME HotInv, PassInv
  PROVE /\ cp \in CpTypes /\ (cp.src # 0 => cp.src \in Insts) /\ cur \in Nat
        /\ cp.todo # <<>> => Chunk \in Chunks
  <1>1. cp \in CpTypes /\ cp.src <= cur /\ cur \in 1 .. MaxInst /\ MaxInst \in Nat
    BY ColdAssumption DEF HotInv, PassInv, Insts
  <1>2. cp.src \in Nat /\ cp.todo \in Seq(Chunks)
    BY <1>1 DEF CpTypes
  <1>3. cp.src # 0 => cp.src \in Insts
    BY <1>1, <1>2 DEF Insts
  <1> QED
    BY <1>1, <1>2, <1>3, HeadTailProperties DEF Chunk

\* The invariant says what the runs check.
LEMMA InvImplies ==
  ASSUME Inv
  PROVE DrainSound /\ PageWhole /\ CountedOnce /\ (LeaseSlots >= 2 => QueryExact)
  <1>1. TypeOK
    <2>1. \A i \in Insts, c \in Chunks :
             /\ hot[i].ch[c].state \in {"Empty", "Writing", "Sealed"}
             /\ hot[i].ch[c].gen \in Nat /\ hot[i].ch[c].n \in 0 .. ChunkRows
             /\ Cardinality(hot[i].ch[c].pins) <= LeaseSlots
      BY HotType DEF Inv, ChunkTypes, States, RingOk, Gen, Filled
    <2>2. cp.open # 0 => segs[cp.open].state = "open"
      BY DEF Inv, PassInv
    <2>3. \A s \in DOMAIN segs : segs[s].pages # <<>>
      BY DEF Inv, SegsInv
    <2> QED
      BY <2>1, <2>2, <2>3 DEF TypeOK
  <1>2. ExactlyOnce
    BY DEF Inv, SegsInv, OnePage, ExactlyOnce, Present
  <1>3. MarkSound
    <2> SUFFICES ASSUME cp.src # 0, NEW c \in Chunks, hot[cp.src].ch[c].state = "Sealed",
                        Gen(cp.src, c) <= cp.mark[c], Key(cp.src, c, Gen(cp.src, c)) \notin odd
                 PROVE Archived(Key(cp.src, c, Gen(cp.src, c)))
      BY DEF MarkSound, Gen
    <2>1. cp.src \in Insts
      BY SourceType DEF Inv
    <2>2. cp.mark[c] <= Gen(cp.src, c) /\ Accounted(Key(cp.src, c, cp.mark[c]))
      BY DEF Inv, MarksOk
    <2>3. Gen(cp.src, c) \in Nat /\ Gen(cp.src, c) > 0 /\ cp.mark[c] \in Nat
      BY <2>1, HotType DEF Inv, RingOk, Closed, PassInv, CpTypes
    <2>4. cp.mark[c] = Gen(cp.src, c)
      BY <2>2, <2>3
    <2> QED
      BY <2>2, <2>3, <2>4 DEF Accounted, Key
  <1>4. PageWhole
    BY DEF Inv, SegsInv, PageOk, PageWhole, Present, Stored
  <1>5. CountedOnce
    BY DEF Inv, QueryInv, CountedOnce
  <1>6. LeaseSlots >= 2 => QueryComplete
    BY DEF Inv, QueryInv, Awaited, QueryComplete
  <1> QED
    BY <1>1, <1>2, <1>3, <1>4, <1>5, <1>6 DEF DrainSound, QueryExact

LEMMA NewRingFacts ==
  /\ NewRing.hidden = "none" /\ NewRing.wc = 0
  /\ \A c \in Chunks : /\ NewRing.ch[c].state = IF c = 0 THEN "Writing" ELSE "Empty"
                       /\ NewRing.ch[c].gen = IF c = 0 THEN 1 ELSE 0
                       /\ NewRing.ch[c].n = 0 /\ NewRing.ch[c].pins = {}
  <1> DEFINE ch == [c \in Chunks |-> [state |-> IF c = 0 THEN "Writing" ELSE "Empty",
                                     gen |-> IF c = 0 THEN 1 ELSE 0, n |-> 0, pins |-> {}]]
  <1>1. \A c \in Chunks : /\ ch[c].state = IF c = 0 THEN "Writing" ELSE "Empty"
                          /\ ch[c].gen = IF c = 0 THEN 1 ELSE 0
                          /\ ch[c].n = 0 /\ ch[c].pins = {}
    OBVIOUS
  <1>2. NewRing = [ch |-> ch, wc |-> 0, hidden |-> "none"]
    BY DEF NewRing
  <1> HIDE DEF ch
  <1> QED
    BY <1>1, <1>2

LEMMA InitInv == Init => Inv
  <1> SUFFICES ASSUME Init PROVE Inv
    OBVIOUS
  <1>1. NewRing \in Rings /\ 0 \in Chunks /\ 1 \in Insts
    BY ColdAssumption DEF NewRing, Rings, ChunkTypes, States, Chunks, Insts
  <1>2. \A i \in Insts : hot[i] = NewRing
    BY DEF Init
  <1>3. \A i \in Insts : RingOk(i)
    <2>1. Cardinality({}) = 0 /\ LeaseSlots \in Nat
      BY FS_EmptySet, ColdAssumption
    <2> SUFFICES ASSUME NEW i \in Insts PROVE RingOk(i)
      OBVIOUS
    <2>2. /\ hot[i].hidden = "none" /\ hot[i].wc = 0
          /\ \A c \in Chunks : /\ hot[i].ch[c].state = IF c = 0 THEN "Writing" ELSE "Empty"
                               /\ hot[i].ch[c].gen = IF c = 0 THEN 1 ELSE 0
                               /\ hot[i].ch[c].n = 0 /\ hot[i].ch[c].pins = {}
      BY <1>2, NewRingFacts
    <2>3. \A c \in Chunks : ~Closed(i, c)
      BY <2>2 DEF Closed
    <2>4. hot[i].ch[0].state # "Sealed" /\ hot[i].ch[0].gen > 0
      BY <1>1, <2>2
    <2>5. \A c \in Chunks : /\ hot[i].ch[c].state # "Empty" => hot[i].ch[c].gen > 0
                            /\ Cardinality(hot[i].ch[c].pins) <= LeaseSlots
      <3> SUFFICES ASSUME NEW c \in Chunks
                   PROVE /\ hot[i].ch[c].state # "Empty" => hot[i].ch[c].gen > 0
                         /\ Cardinality(hot[i].ch[c].pins) <= LeaseSlots
        OBVIOUS
      <3>1. Cardinality(hot[i].ch[c].pins) = 0
        BY <2>1, <2>2, Zenon
      <3>2. hot[i].ch[c].state # "Empty" => hot[i].ch[c].gen > 0
        BY <2>2
      <3> QED
        BY <2>1, <3>1, <3>2
    <2> QED
      BY <2>2, <2>3, <2>4, <2>5 DEF RingOk, Gen
  <1>4. HotInv
    <2>1. hot \in [Insts -> Rings]
      BY <1>1 DEF Init
    <2>2. left \in Lefts /\ left.tables <= MaxInst - 1 /\ MaxInst \in Nat
      BY ColdAssumption DEF Init, Lefts
    <2>3. cur + left.tables <= MaxInst
      BY <2>2 DEF Init, Lefts
    <2> QED
      BY <1>1, <1>3, <2>1, <2>2, <2>3 DEF HotInv, Init
  <1>5. SegsInv
    <2>1. segs = <<>> /\ DOMAIN segs = {} /\ segs \in Seq(SegTypes)
      BY DEF Init
    <2>2. Present = {}
      BY <2>1 DEF Present
    <2> QED
      BY <2>1, <2>2 DEF SegsInv, OnePage
  <1>6. NoMarks \in [Insts -> [Chunks -> Nat]] /\ \A i \in Insts, c \in Chunks : NoMarks[i][c] = 0
    BY DEF NoMarks
  <1>7. cp \in CpTypes /\ cp.pc = "idle" /\ cp.src = 0 /\ cp.open = 0 /\ cp.seed = NoMarks
    BY <1>6 DEF Init, NewCompactor, CpTypes, CpPcs
  <1>8. MarksOk
    <2>1. \A i \in Insts, c \in Chunks : Gen(i, c) \in Nat
      BY <1>4, HotType
    <2> QED
      BY <1>6, <1>7, <2>1 DEF MarksOk, Accounted, Key, Init
  <1>9. PassInv
    BY <1>1, <1>7 DEF PassInv, AtChunk, Took, Init, NoRead, Readers, Insts
  <1>10. QueryInv
    <2>1. q \in QTypes /\ q.pc = "idle" /\ q.todo = <<>> /\ q.covered = {} /\ ~q.dup
      BY DEF Init, IdleQuery, QTypes, QPcs
    <2>2. must = NoRows /\ must \in [hot : SUBSET Rows, cold : SUBSET Rows]
      BY DEF Init, NoRows
    <2>3. IsInjective(q.todo)
      BY <2>1 DEF IsInjective
    <2>4. Leased
      BY <1>2, NewRingFacts DEF Leased
    <2> QED
      BY <2>1, <2>2, <2>3, <2>4 DEF QueryInv, ColdPhase, HotPhase, Awaited, InHot, QTook, Init, NoRead,
         Readers
  <1>11. ReadsOk
    BY DEF ReadsOk, Init, NoRead
  <1> QED
    BY <1>4, <1>5, <1>8, <1>9, <1>10, <1>11 DEF Inv

----------------------------------------------------------------------------
(***************************************************************************)
(* The ring moves on.                                                      *)
(***************************************************************************)
\* Generations only grow, and as long as one lasts a closed chunk stays as it is.
HotStep ==
    /\ \A i \in Insts, c \in Chunks :
          /\ Gen(i, c) <= Gen(i, c)'
          /\ Gen(i, c)' = Gen(i, c) /\ Closed(i, c) => Closed(i, c)' /\ Filled(i, c)' = Filled(i, c)
    /\ sealed \subseteq sealed' /\ odd \subseteq odd' /\ cur \in Nat /\ cur' \in Nat /\ cur <= cur'
PinsKept(r) == \A i \in Insts, c \in Chunks : r \in hot'[i].ch[c].pins => r \in hot[i].ch[c].pins

\* A step of one ring.
LEMMA RingStep ==
  ASSUME HotInv, NEW j \in Insts, NEW R \in Rings, hot' = [hot EXCEPT ![j] = R],
         left' \in Lefts, cur' \in Insts, cur <= cur', cur' + left'.tables <= MaxInst,
         odd \subseteq odd', odd' \subseteq Keys, sealed \subseteq sealed', RingOk(j)',
         \A c \in Chunks :
            /\ Gen(j, c) <= R.ch[c].gen
            /\ R.ch[c].gen = Gen(j, c) /\ Closed(j, c) => Closed(j, c)' /\ R.ch[c].n = Filled(j, c),
         \A p \in sealed' \ sealed : SealedOk(p)'
  PROVE HotInv' /\ HotStep
  <1>1. hot' \in [Insts -> Rings] /\ hot'[j] = R /\ \A i \in Insts \ {j} : hot'[i] = hot[i]
    BY DEF HotInv
  <1>2. HotStep
    <2>1. cur \in Nat /\ cur' \in Nat
      BY DEF HotInv, Insts
    <2>2. ASSUME NEW i \in Insts, NEW c \in Chunks
          PROVE /\ Gen(i, c) <= Gen(i, c)'
                /\ Gen(i, c)' = Gen(i, c) /\ Closed(i, c)
                      => Closed(i, c)' /\ Filled(i, c)' = Filled(i, c)
      <3>1. CASE i = j
        BY <1>1, <3>1 DEF Gen, Filled
      <3>2. CASE i # j
        <4>1. hot'[i] = hot[i] /\ Gen(i, c) \in Nat
          BY <1>1, <3>2, HotType
        <4> QED
          BY <4>1 DEF Gen, Filled, Closed, NextOf
      <3> QED
        BY <3>1, <3>2
    <2> QED
      BY <2>1, <2>2 DEF HotStep
  <1>3. ASSUME NEW i \in Insts PROVE RingOk(i)'
    <2>1. CASE i # j
      <3>1. hot'[i] = hot[i] /\ RingOk(i)
        BY <1>1, <2>1 DEF HotInv
      <3> QED
        BY <3>1 DEF RingOk, Gen, Filled, Closed, NextOf
    <2> QED
      BY <2>1
  <1>4. ASSUME NEW p \in sealed PROVE SealedOk(p)'
    <2>1. SealedOk(p)
      BY DEF HotInv
    <2>2. p.key.inst \in Insts /\ p.key.chunk \in Chunks /\ p.key.gen \in Nat
      BY <2>1 DEF SealedOk, PageTypes, Keys
    <2>3. Gen(p.key.inst, p.key.chunk) \in Nat /\ Gen(p.key.inst, p.key.chunk)' \in Nat
      <3>1. Gen(p.key.inst, p.key.chunk) \in Nat
        BY <2>2, HotType
      <3>2. hot'[p.key.inst] \in Rings
        BY <1>1, <2>2
      <3> QED
        BY <2>2, <3>1, <3>2 DEF Rings, ChunkTypes, Gen
    <2>4. /\ Gen(p.key.inst, p.key.chunk) <= Gen(p.key.inst, p.key.chunk)'
          /\ Gen(p.key.inst, p.key.chunk)' = Gen(p.key.inst, p.key.chunk)
                /\ Closed(p.key.inst, p.key.chunk)
               => Closed(p.key.inst, p.key.chunk)'
                  /\ Filled(p.key.inst, p.key.chunk)' = Filled(p.key.inst, p.key.chunk)
      BY <1>2, <2>2 DEF HotStep
    <2> QED
      BY <2>1, <2>2, <2>3, <2>4 DEF SealedOk
  <1>5. \A p \in sealed' : SealedOk(p)'
    BY <1>4
  <1> QED
    BY <1>1, <1>2, <1>3, <1>5 DEF HotInv

\* A step in which at most the pins change.
LEMMA PinStep ==
  ASSUME HotInv, hot' \in [Insts -> Rings],
         \A i \in Insts : hot'[i].wc = hot[i].wc /\ hot'[i].hidden = hot[i].hidden,
         \A i \in Insts, c \in Chunks :
            /\ hot'[i].ch[c].state = hot[i].ch[c].state /\ hot'[i].ch[c].gen = hot[i].ch[c].gen
            /\ hot'[i].ch[c].n = hot[i].ch[c].n
            /\ Cardinality(hot'[i].ch[c].pins) <= LeaseSlots,
         left' \in Lefts, left'.tables = left.tables, UNCHANGED <<cur, sealed>>,
         odd \subseteq odd', odd' \subseteq Keys
  PROVE HotInv' /\ HotStep
  <1>1. \A i \in Insts : /\ hot[i].wc \in Chunks /\ NextOf(i) \in Chunks /\ RingOk(i)
                         /\ NextOf(i)' = NextOf(i) /\ hot'[i].wc = hot[i].wc
                         /\ hot'[i].hidden = hot[i].hidden
    BY HotType DEF NextOf
  <1>2. \A i \in Insts, c \in Chunks :
           /\ Gen(i, c)' = Gen(i, c) /\ Filled(i, c)' = Filled(i, c) /\ Closed(i, c)' = Closed(i, c)
           /\ Gen(i, c) \in Nat
    <2> SUFFICES ASSUME NEW i \in Insts, NEW c \in Chunks
                 PROVE /\ Gen(i, c)' = Gen(i, c) /\ Filled(i, c)' = Filled(i, c)
                       /\ Closed(i, c)' = Closed(i, c) /\ Gen(i, c) \in Nat
      OBVIOUS
    <2>1. Gen(i, c)' = Gen(i, c) /\ Filled(i, c)' = Filled(i, c) /\ Gen(i, c) \in Nat
      BY HotType DEF Gen, Filled
    <2>2. Closed(i, c)' = Closed(i, c)
      BY <1>1 DEF Closed
    <2> QED
      BY <2>1, <2>2
  <1>3. ASSUME NEW i \in Insts PROVE RingOk(i)'
    <2>1. (hot[i].ch[hot[i].wc].state # "Sealed" /\ Gen(i, hot[i].wc) > 0)'
      BY <1>1 DEF RingOk, Gen
    <2>2. (hot[i].hidden # "none" =>
            /\ Filled(i, hot[i].wc) > 0 /\ hot[i].ch[NextOf(i)].state = "Empty"
            /\ hot[i].hidden = "Sealed" => NextOf(i) # hot[i].wc
            /\ hot[i].hidden = "Writing" => Gen(i, NextOf(i)) > 0)'
      BY <1>1 DEF RingOk, Gen, Filled
    <2>3. ASSUME NEW c \in Chunks
          PROVE (/\ hot[i].ch[c].state # "Empty" => Gen(i, c) > 0
                 /\ Cardinality(hot[i].ch[c].pins) <= LeaseSlots
                 /\ Closed(i, c) => /\ Gen(i, c) > 0 /\ Filled(i, c) > 0
                                    /\ Page(Key(i, c, Gen(i, c)), Filled(i, c)) \in sealed)'
      BY <1>1, <1>2 DEF RingOk
    <2> QED
      BY <2>1, <2>2, <2>3 DEF RingOk
  <1>4. \A p \in sealed : SealedOk(p)'
    <2> SUFFICES ASSUME NEW p \in sealed PROVE SealedOk(p)'
      OBVIOUS
    <2>1. SealedOk(p)
      BY DEF HotInv
    <2>2. p.key.inst \in Insts /\ p.key.chunk \in Chunks
      BY <2>1 DEF SealedOk, PageTypes, Keys
    <2> QED
      BY <1>2, <2>1, <2>2 DEF SealedOk
  <1>5. HotStep
    <2>1. cur \in Nat
      BY DEF HotInv, Insts
    <2> QED
      BY <1>2, <2>1 DEF HotStep
  <1> QED
    BY <1>3, <1>4, <1>5 DEF HotInv

\* The writer: whatever it does to the ring, no pin of a reader appears.
LEMMA PushHot ==
  ASSUME HotInv, Push
  PROVE HotInv' /\ HotStep /\ PinsKept("query")
  <1> PICK j \in Insts : j = cur
    BY DEF HotInv
  <1> DEFINE h == hot[j]
             w == h.wc
             x == [h.ch[w] EXCEPT !.n = h.ch[w].n + 1]
             ch == [h.ch EXCEPT ![w] = x]
             R == [h EXCEPT !.ch = ch]
  <1>1. h \in Rings /\ w \in Chunks /\ h.hidden = "none" /\ h.ch[w].n < ChunkRows /\ RingOk(j)
    BY HotType DEF Push, Ring
  <1>2. h.ch[w] \in ChunkTypes /\ ChunkRows \in Nat
    BY <1>1, ColdAssumption DEF Rings
  <1>3. x \in ChunkTypes /\ x.state = h.ch[w].state /\ x.gen = h.ch[w].gen /\ x.pins = h.ch[w].pins
    BY <1>1, <1>2 DEF ChunkTypes
  <1>4. R \in Rings /\ R.wc = w /\ R.hidden = "none" /\ R.ch = ch
    BY <1>1, <1>3 DEF Rings
  <1>5. hot' = [hot EXCEPT ![j] = R]
    BY <1>1 DEF Push, Ring, HotInv, Rings, ChunkTypes
  <1>6. \A c \in Chunks : /\ ch[c].state = h.ch[c].state /\ ch[c].gen = h.ch[c].gen
                          /\ ch[c].pins = h.ch[c].pins
                          /\ c # w => ch[c] = h.ch[c]
    BY <1>1, <1>3 DEF Rings
  <1>7. hot'[j] = R
    BY <1>5 DEF HotInv
  <1>8. left' \in Lefts /\ left'.tables = left.tables /\ UNCHANGED <<cur, sealed, odd>>
    BY DEF Push, WriterQuiet, HotInv, Lefts
  <1> HIDE DEF x, ch, R
  <1>9. \A c \in Chunks : Closed(j, c) => c # w
    BY <1>1 DEF RingOk, Closed
  <1>10. \A c \in Chunks : Closed(j, c)' <=> Closed(j, c)
    BY <1>1, <1>4, <1>6, <1>7 DEF Closed
  <1>11. RingOk(j)'
    <2>1. (hot[j].ch[hot[j].wc].state # "Sealed" /\ Gen(j, hot[j].wc) > 0)'
      BY <1>1, <1>4, <1>6, <1>7 DEF RingOk, Gen
    <2>2. ASSUME NEW c \in Chunks
          PROVE (/\ hot[j].ch[c].state # "Empty" => Gen(j, c) > 0
                 /\ Cardinality(hot[j].ch[c].pins) <= LeaseSlots
                 /\ Closed(j, c) => /\ Gen(j, c) > 0 /\ Filled(j, c) > 0
                                    /\ Page(Key(j, c, Gen(j, c)), Filled(j, c)) \in sealed)'
      BY <1>1, <1>4, <1>6, <1>7, <1>8, <1>9, <1>10 DEF RingOk, Gen, Filled
    <2> QED
      BY <1>4, <1>7, <2>1, <2>2 DEF RingOk
  <1>12. \A c \in Chunks :
            /\ Gen(j, c) <= R.ch[c].gen
            /\ R.ch[c].gen = Gen(j, c) /\ Closed(j, c) => Closed(j, c)' /\ R.ch[c].n = Filled(j, c)
    BY <1>4, <1>6, <1>9, <1>10, HotType DEF Gen, Filled
  <1>13. HotInv' /\ HotStep
    <2>1. cur \in Insts /\ cur <= cur /\ cur + left'.tables <= MaxInst /\ odd \subseteq Keys
      BY <1>8 DEF HotInv, Insts
    <2> QED
      BY <1>4, <1>5, <1>8, <1>11, <1>12, <2>1, RingStep
  <1>14. PinsKept("query")
    BY <1>4, <1>5, <1>6 DEF PinsKept, HotInv
  <1> QED
    BY <1>13, <1>14

LEMMA HideHot ==
  ASSUME HotInv, Hide
  PROVE HotInv' /\ HotStep /\ PinsKept("query")
  <1> PICK j \in Insts : j = cur
    BY DEF HotInv
  <1> DEFINE h == hot[j]
             w == h.wc
             nx == NextOf(j)
             x == [h.ch[nx] EXCEPT !.state = "Empty"]
             ch == [h.ch EXCEPT ![nx] = x]
             R == [h EXCEPT !.hidden = h.ch[nx].state, !.ch = ch]
  <1>1. h \in Rings /\ w \in Chunks /\ nx \in Chunks /\ h.hidden = "none" /\ h.ch[w].n > 0 /\ RingOk(j)
    BY HotType DEF Hide, Ring
  <1>2. h.ch[nx] \in ChunkTypes
    BY <1>1 DEF Rings
  <1>3. x \in ChunkTypes /\ x.state = "Empty" /\ x.gen = h.ch[nx].gen /\ x.n = h.ch[nx].n
        /\ x.pins = h.ch[nx].pins
    BY <1>2 DEF ChunkTypes, States
  <1>4. R \in Rings /\ R.wc = w /\ R.hidden = h.ch[nx].state /\ R.ch = ch
    BY <1>1, <1>2, <1>3 DEF Rings, ChunkTypes
  <1>5. hot' = [hot EXCEPT ![j] = R]
    BY <1>1 DEF Hide, Ring, HotInv, Rings, ChunkTypes, NextChunk, NextOf
  <1>6. \A c \in Chunks : /\ ch[c].gen = h.ch[c].gen /\ ch[c].n = h.ch[c].n
                          /\ ch[c].pins = h.ch[c].pins
                          /\ ch[c].state = IF c = nx THEN "Empty" ELSE h.ch[c].state
    BY <1>1, <1>3 DEF Rings
  <1>7. hot'[j] = R /\ NextOf(j)' = nx
    BY <1>1, <1>4, <1>5 DEF HotInv, NextOf
  <1>8. UNCHANGED <<left, cur, sealed, odd>>
    BY DEF Hide, WriterQuiet
  <1> HIDE DEF x, ch, R, nx
  <1>9. \A c \in Chunks : Closed(j, c)' <=> Closed(j, c)
    <2>1. \A c \in Chunks : Closed(j, c) <=> h.ch[c].state = "Sealed"
      BY <1>1 DEF Closed
    <2>2. \A c \in Chunks : Closed(j, c)' <=> ch[c].state = "Sealed" \/ (h.ch[nx].state = "Sealed" /\ c = nx)
      BY <1>4, <1>7 DEF Closed
    <2> QED
      BY <1>1, <1>6, <2>1, <2>2
  <1>10. RingOk(j)'
    <2>1. (hot[j].ch[hot[j].wc].state # "Sealed" /\ Gen(j, hot[j].wc) > 0)'
      BY <1>1, <1>4, <1>6, <1>7 DEF RingOk, Gen
    <2>2. (hot[j].hidden # "none" =>
             /\ Filled(j, hot[j].wc) > 0 /\ hot[j].ch[NextOf(j)].state = "Empty"
             /\ hot[j].hidden = "Sealed" => NextOf(j) # hot[j].wc
             /\ hot[j].hidden = "Writing" => Gen(j, NextOf(j)) > 0)'
      BY <1>1, <1>4, <1>6, <1>7 DEF RingOk, Gen, Filled
    <2>3. ASSUME NEW c \in Chunks
          PROVE (/\ hot[j].ch[c].state # "Empty" => Gen(j, c) > 0
                 /\ Cardinality(hot[j].ch[c].pins) <= LeaseSlots
                 /\ Closed(j, c) => /\ Gen(j, c) > 0 /\ Filled(j, c) > 0
                                    /\ Page(Key(j, c, Gen(j, c)), Filled(j, c)) \in sealed)'
      BY <1>1, <1>4, <1>6, <1>7, <1>8, <1>9 DEF RingOk, Gen, Filled
    <2> QED
      BY <2>1, <2>2, <2>3 DEF RingOk
  <1>11. \A c \in Chunks :
            /\ Gen(j, c) <= R.ch[c].gen
            /\ R.ch[c].gen = Gen(j, c) /\ Closed(j, c) => Closed(j, c)' /\ R.ch[c].n = Filled(j, c)
    BY <1>4, <1>6, <1>9, HotType DEF Gen, Filled
  <1>12. HotInv' /\ HotStep
    <2>1. left' \in Lefts /\ cur \in Insts /\ cur <= cur /\ cur + left'.tables <= MaxInst
          /\ odd \subseteq Keys
      BY <1>8 DEF HotInv, Insts
    <2> QED
      BY <1>4, <1>5, <1>8, <1>10, <1>11, <2>1, RingStep
  <1>13. PinsKept("query")
    BY <1>4, <1>5, <1>6 DEF PinsKept, HotInv
  <1> QED
    BY <1>12, <1>13

LEMMA RestoreHot ==
  ASSUME HotInv, Restore
  PROVE HotInv' /\ HotStep /\ PinsKept("query")
  <1> PICK j \in Insts : j = cur
    BY DEF HotInv
  <1> DEFINE h == hot[j]
             w == h.wc
             nx == NextOf(j)
             x == [h.ch[nx] EXCEPT !.state = h.hidden]
             ch == [h.ch EXCEPT ![nx] = x]
             R == [h EXCEPT !.hidden = "none", !.ch = ch]
  <1>1. h \in Rings /\ w \in Chunks /\ nx \in Chunks /\ h.hidden \in States /\ RingOk(j)
    BY HotType DEF Restore, Ring, Rings
  <1>2. h.ch[nx] \in ChunkTypes
    BY <1>1 DEF Rings
  <1>3. x \in ChunkTypes /\ x.state = h.hidden /\ x.gen = h.ch[nx].gen /\ x.n = h.ch[nx].n
        /\ x.pins = h.ch[nx].pins
    BY <1>1, <1>2 DEF ChunkTypes
  <1>4. R \in Rings /\ R.wc = w /\ R.hidden = "none" /\ R.ch = ch
    BY <1>1, <1>3 DEF Rings
  <1>5. hot' = [hot EXCEPT ![j] = R]
    BY <1>1 DEF Restore, Ring, HotInv, Rings, ChunkTypes, NextChunk, NextOf
  <1>6. \A c \in Chunks : /\ ch[c].gen = h.ch[c].gen /\ ch[c].n = h.ch[c].n
                          /\ ch[c].pins = h.ch[c].pins
                          /\ ch[c].state = IF c = nx THEN h.hidden ELSE h.ch[c].state
    BY <1>1, <1>3 DEF Rings
  <1>7. hot'[j] = R /\ NextOf(j)' = nx
    BY <1>1, <1>4, <1>5 DEF HotInv, NextOf
  <1>8. UNCHANGED <<left, cur, sealed, odd>>
    BY DEF Restore, WriterQuiet
  <1> HIDE DEF x, ch, R
  <1>9. \A c \in Chunks : Closed(j, c)' <=> Closed(j, c)
    <2>1. \A c \in Chunks : Closed(j, c)' <=> ch[c].state = "Sealed"
      BY <1>4, <1>7 DEF Closed
    <2>2. h.ch[nx].state = "Empty"
      BY <1>1 DEF RingOk, States
    <2> QED
      BY <1>1, <1>6, <2>1, <2>2 DEF Closed
  <1> HIDE DEF nx
  <1>10. RingOk(j)'
    <2>1. (hot[j].ch[hot[j].wc].state # "Sealed" /\ Gen(j, hot[j].wc) > 0)'
      BY <1>1, <1>4, <1>6, <1>7 DEF RingOk, Gen, nx, States
    <2>2. h.hidden = "Writing" => h.ch[nx].gen > 0
      BY <1>1 DEF RingOk, Gen, nx
    <2>3. h.hidden = "Sealed" => h.ch[nx].gen > 0
      BY <1>1 DEF RingOk, Gen, nx, Closed
    <2>4. ASSUME NEW c \in Chunks
          PROVE (/\ hot[j].ch[c].state # "Empty" => Gen(j, c) > 0
                 /\ Cardinality(hot[j].ch[c].pins) <= LeaseSlots
                 /\ Closed(j, c) => /\ Gen(j, c) > 0 /\ Filled(j, c) > 0
                                    /\ Page(Key(j, c, Gen(j, c)), Filled(j, c)) \in sealed)'
      BY <1>1, <1>4, <1>6, <1>7, <1>8, <1>9, <2>2, <2>3 DEF RingOk, Gen, Filled, States
    <2> QED
      BY <1>4, <1>7, <2>1, <2>4 DEF RingOk
  <1>11. \A c \in Chunks :
            /\ Gen(j, c) <= R.ch[c].gen
            /\ R.ch[c].gen = Gen(j, c) /\ Closed(j, c) => Closed(j, c)' /\ R.ch[c].n = Filled(j, c)
    BY <1>4, <1>6, <1>9, HotType DEF Gen, Filled
  <1>12. HotInv' /\ HotStep
    <2>1. left' \in Lefts /\ cur \in Insts /\ cur <= cur /\ cur + left'.tables <= MaxInst
          /\ odd \subseteq Keys
      BY <1>8 DEF HotInv, Insts
    <2> QED
      BY <1>4, <1>5, <1>8, <1>10, <1>11, <2>1, RingStep
  <1>13. PinsKept("query")
    BY <1>4, <1>5, <1>6 DEF PinsKept, HotInv
  <1> QED
    BY <1>12, <1>13

LEMMA RecycleHot ==
  ASSUME HotInv, Recycle
  PROVE HotInv' /\ HotStep /\ PinsKept("query")
  <1> PICK j \in Insts : j = cur
    BY DEF HotInv
  <1>0. hot[j] \in Rings /\ hot[j].wc \in Chunks /\ NextOf(j) \in Chunks /\ RingOk(j)
    BY HotType
  <1> PICK h \in Rings : h = hot[j]
    BY <1>0
  <1> PICK w \in Chunks : w = h.wc
    BY <1>0
  <1> PICK nx \in Chunks : nx = NextOf(j)
    BY <1>0
  <1> PICK pg : pg = Page(Key(j, w, Gen(j, w)), Filled(j, w))
    OBVIOUS
  <1> DEFINE x == [state |-> "Writing", gen |-> h.ch[nx].gen + 1, n |-> 0, pins |-> {}]
             y == [h.ch[w] EXCEPT !.state = "Sealed"]
             ch == [[h.ch EXCEPT ![w] = y] EXCEPT ![nx] = x]
             R == [ch |-> ch, wc |-> nx, hidden |-> "none"]
  <1>1. h.hidden # "none" /\ RingOk(j) /\ h.ch[nx].pins = {}
    BY <1>0 DEF Recycle, Ring, NextChunk, NextOf
  <1>2. h.ch[nx] \in ChunkTypes /\ h.ch[w] \in ChunkTypes /\ ChunkRows \in Nat
    BY <1>1, ColdAssumption DEF Rings
  <1>3. x \in ChunkTypes
    BY <1>1, <1>2 DEF ChunkTypes, States
  <1>4. y \in ChunkTypes /\ y.state = "Sealed" /\ y.gen = h.ch[w].gen /\ y.n = h.ch[w].n
        /\ y.pins = h.ch[w].pins
    BY <1>2 DEF ChunkTypes, States
  <1>5. R \in Rings /\ R.wc = nx /\ R.hidden = "none" /\ R.ch = ch
    BY <1>1, <1>3, <1>4 DEF Rings
  <1>6. hot' = [hot EXCEPT ![j] = R]
    BY DEF Recycle, Ring, NextChunk, NextOf
  <1>7. \A c \in Chunks : /\ c = nx => ch[c] = x
                          /\ c # nx /\ c = w => ch[c] = y
                          /\ c # nx /\ c # w => ch[c] = h.ch[c]
    BY <1>1 DEF Rings
  <1>8. hot'[j] = R /\ hot'[j].hidden = "none" /\ hot'[j].wc = nx /\ hot'[j].ch = ch
    BY <1>5, <1>6 DEF HotInv
  <1>9. UNCHANGED <<cur, odd>> /\ left' \in Lefts /\ left'.tables = left.tables
        /\ sealed' = sealed \cup {pg}
    <2>1. UNCHANGED <<cur, odd>> /\ sealed' = sealed \cup {pg}
      BY DEF Recycle, WriterQuiet, Ring, Gen, Filled
    <2>2. left \in Lefts /\ left' = [left EXCEPT !.advances = left.advances - 1]
      BY DEF Recycle, HotInv
    <2>3. left' \in Lefts /\ left'.tables = left.tables
      BY <2>2 DEF Lefts
    <2> QED
      BY <2>1, <2>3
  <1> HIDE DEF ch, R
  <1>10. \A c \in Chunks : /\ Closed(j, c)' <=> c # nx /\ (c = w \/ h.ch[c].state = "Sealed")
                           /\ Closed(j, c) /\ c # nx => h.ch[c].state = "Sealed" /\ c # w
    <2>1. \A c \in Chunks : Closed(j, c)' <=> ch[c].state = "Sealed"
      BY <1>8 DEF Closed
    <2>2. h.ch[w].state # "Sealed"
      BY <1>1 DEF RingOk
    <2>3. \A c \in Chunks : Closed(j, c) /\ c # nx => h.ch[c].state = "Sealed"
      BY DEF Closed
    <2>4. \A c \in Chunks : ch[c].state = "Sealed" <=> c # nx /\ (c = w \/ h.ch[c].state = "Sealed")
      <3> SUFFICES ASSUME NEW c \in Chunks
                   PROVE ch[c].state = "Sealed" <=> c # nx /\ (c = w \/ h.ch[c].state = "Sealed")
        OBVIOUS
      <3>1. x.state # "Sealed"
        OBVIOUS
      <3> HIDE DEF x, y
      <3> QED
        BY <1>4, <1>7, <3>1
    <2> QED
      BY <2>1, <2>2, <2>3, <2>4
  <1>11. \A c \in Chunks : Gen(j, c) \in Nat /\ Filled(j, c) \in Nat
    BY <1>2, HotType
  <1>12. Gen(j, w) > 0 /\ Filled(j, w) > 0
    BY <1>1 DEF RingOk
  <1>13. RingOk(j)'
    <2>1. (hot[j].ch[hot[j].wc].state # "Sealed" /\ Gen(j, hot[j].wc) > 0)'
      BY <1>1, <1>7, <1>8, <1>11 DEF Gen
    <2>2. ASSUME NEW c \in Chunks
          PROVE (/\ hot[j].ch[c].state # "Empty" => Gen(j, c) > 0
                 /\ Cardinality(hot[j].ch[c].pins) <= LeaseSlots
                 /\ Closed(j, c) => /\ Gen(j, c) > 0 /\ Filled(j, c) > 0
                                    /\ Page(Key(j, c, Gen(j, c)), Filled(j, c)) \in sealed)'
      <3>1. CASE c = nx
        <4>0. h.ch[nx].gen \in Nat
          BY <1>11 DEF Gen
        <4>a. ch[c] = x
          BY <1>7, <3>1, Zenon
        <4>b. x.gen > 0 /\ x.pins = {}
          BY <4>0
        <4>c. ~Closed(j, c)'
          BY <1>10, <3>1, Zenon
        <4>1. ch[c] = x /\ x.gen > 0 /\ x.pins = {} /\ ~Closed(j, c)'
          BY <4>a, <4>b, <4>c, Zenon
        <4>2. Cardinality({}) = 0 /\ LeaseSlots \in Nat
          BY FS_EmptySet, ColdAssumption
        <4>3. Cardinality(hot'[j].ch[c].pins) = 0
          BY <1>8, <4>1, <4>2
        <4> QED
          BY <1>8, <4>1, <4>2, <4>3 DEF Gen
      <3>2. CASE c # nx /\ c = w
        <4>1. ch[c] = y
          BY <1>7, <3>2
        <4>2. Gen(j, c)' = Gen(j, w) /\ Filled(j, c)' = Filled(j, w)
              /\ hot'[j].ch[c].pins = h.ch[w].pins
          BY <1>4, <1>8, <4>1 DEF Gen, Filled
        <4>3. Cardinality(h.ch[w].pins) <= LeaseSlots
          BY <1>1 DEF RingOk
        <4>4. Page(Key(j, w, Gen(j, w)), Filled(j, w)) \in sealed'
          BY <1>9
        <4> QED
          BY <1>12, <3>2, <4>2, <4>3, <4>4
      <3>3. CASE c # nx /\ c # w
        <4>1. hot'[j].ch[c] = hot[j].ch[c]
          BY <1>7, <1>8, <3>3
        <4>2. Closed(j, c)' => Closed(j, c)
          BY <1>10, <3>3 DEF Closed
        <4> QED
          BY <1>1, <1>9, <4>1, <4>2 DEF RingOk, Gen, Filled
      <3> QED
        BY <3>1, <3>2, <3>3
    <2> QED
      BY <1>8, <2>1, <2>2 DEF RingOk
  <1>14. \A c \in Chunks :
            /\ Gen(j, c) <= R.ch[c].gen
            /\ R.ch[c].gen = Gen(j, c) /\ Closed(j, c) => Closed(j, c)' /\ R.ch[c].n = Filled(j, c)
    <2> SUFFICES ASSUME NEW c \in Chunks
                 PROVE /\ Gen(j, c) <= R.ch[c].gen
                       /\ R.ch[c].gen = Gen(j, c) /\ Closed(j, c)
                             => Closed(j, c)' /\ R.ch[c].n = Filled(j, c)
      OBVIOUS
    <2>1. CASE c = nx
      BY <1>5, <1>7, <1>11, <2>1 DEF Gen
    <2>2. CASE c # nx
      <3>1. R.ch[c].gen = Gen(j, c) /\ R.ch[c].n = Filled(j, c)
        BY <1>4, <1>5, <1>7, <2>2 DEF Gen, Filled
      <3>2. Closed(j, c) => Closed(j, c)'
        BY <1>10, <2>2
      <3> QED
        BY <1>11, <3>1, <3>2
    <2> QED
      BY <2>1, <2>2
  <1>15. SealedOk(pg)'
    <2>1. pg \in PageTypes /\ pg.key.inst = j /\ pg.key.chunk = w /\ pg.key.gen = Gen(j, w)
          /\ pg.n = Filled(j, w)
      BY <1>1, <1>11 DEF Page, Key, PageTypes, Keys
    <2>2. CASE w = nx
      <3>1. Gen(j, w)' = Gen(j, w) + 1
        BY <1>1, <1>7, <1>8, <2>2 DEF Gen
      <3> QED
        BY <1>11, <2>1, <3>1 DEF SealedOk
    <2>3. CASE w # nx
      <3>1. Gen(j, w)' = Gen(j, w) /\ Filled(j, w)' = Filled(j, w)
        BY <1>1, <1>4, <1>7, <1>8, <2>3 DEF Gen, Filled
      <3>2. Closed(j, w)'
        BY <1>1, <1>10, <2>3
      <3> QED
        BY <1>11, <2>1, <3>1, <3>2 DEF SealedOk
    <2> QED
      BY <2>2, <2>3
  <1>16. HotInv' /\ HotStep
    <2>1. cur \in Insts /\ cur <= cur /\ cur + left'.tables <= MaxInst /\ odd \subseteq Keys
      BY <1>9 DEF HotInv, Insts
    <2>2. \A p \in sealed' \ sealed : SealedOk(p)'
      BY <1>9, <1>15
    <2> QED
      BY <1>5, <1>6, <1>9, <1>13, <1>14, <2>1, <2>2, RingStep
  <1>17. PinsKept("query")
    <2> SUFFICES ASSUME NEW i \in Insts, NEW c \in Chunks, "query" \in hot'[i].ch[c].pins
                 PROVE "query" \in hot[i].ch[c].pins
      BY DEF PinsKept
    <2>1. CASE i # j
      BY <1>6, <2>1 DEF HotInv
    <2>2. CASE i = j
      <3>1. CASE c = nx
        BY <1>7, <1>8, <2>2, <3>1
      <3>2. CASE c # nx
        <4> HIDE DEF y
        <4> QED
          BY <1>4, <1>7, <1>8, <2>2, <3>2
      <3> QED
        BY <3>1, <3>2
    <2> QED
      BY <2>1, <2>2
  <1> QED
    BY <1>16, <1>17

LEMMA ReplaceHot ==
  ASSUME HotInv, Replace
  PROVE HotInv' /\ HotStep /\ PinsKept("query")
  <1>1. left' = [left EXCEPT !.tables = left.tables - 1] /\ left.tables > 0 /\ left \in Lefts
    BY DEF Replace, HotInv
  <1>2. left' \in Lefts /\ left'.tables = left.tables - 1 /\ left.tables \in Nat
    BY <1>1 DEF Lefts
  <1>3. cur' = cur + 1 /\ cur \in 1 .. MaxInst /\ MaxInst \in Nat /\ cur + left.tables <= MaxInst
    BY ColdAssumption DEF Replace, HotInv, Insts
  <1>4. cur' \in Insts /\ cur \in Nat /\ cur <= cur' /\ cur' + left'.tables <= MaxInst
    BY <1>1, <1>2, <1>3 DEF Insts
  <1>5. UNCHANGED <<hot, sealed, odd>>
    BY DEF Replace, WriterQuiet
  <1>6. \A i \in Insts : RingOk(i)'
    BY <1>5 DEF HotInv, RingOk, Gen, Filled, Closed, NextOf
  <1>7. \A p \in sealed' : SealedOk(p)'
    BY <1>5 DEF HotInv, SealedOk, Gen, Filled, Closed, NextOf
  <1>8. HotInv'
    BY <1>2, <1>4, <1>5, <1>6, <1>7 DEF HotInv
  <1>9. HotStep
    <2>1. \A i \in Insts, c \in Chunks : Gen(i, c) \in Nat
      BY HotType
    <2>2. \A i \in Insts, c \in Chunks :
             /\ Gen(i, c)' = Gen(i, c) /\ Filled(i, c)' = Filled(i, c)
             /\ Closed(i, c)' <=> Closed(i, c)
      BY <1>5 DEF Gen, Filled, Closed, NextOf
    <2> QED
      BY <1>4, <1>5, <2>1, <2>2 DEF HotStep, Insts
  <1> QED
    BY <1>5, <1>8, <1>9 DEF PinsKept

LEMMA FiniteReaders == IsFiniteSet(Readers)
  <1>1. IsFiniteSet({"compactor"})
    BY FS_Singleton
  <1>2. IsFiniteSet({"compactor"} \cup {"query"})
    BY <1>1, FS_AddElement
  <1>3. {"compactor"} \cup {"query"} = Readers
    BY DEF Readers
  <1> QED
    BY <1>2, <1>3

\* A reader pins a chunk, or takes its pin away.
LEMMA PinHot ==
  ASSUME HotInv, NEW r \in Readers, NEW j \in Insts, NEW d \in Chunks, Pin(r, j, d),
         UNCHANGED <<left, cur, sealed>>, odd \subseteq odd', odd' \subseteq Keys
  PROVE /\ HotInv' /\ HotStep
        /\ \A i \in Insts, c \in Chunks :
              hot'[i].ch[c].pins = IF i = j /\ c = d /\ Pinnable(j, d) THEN hot[i].ch[c].pins \cup {r}
                                   ELSE hot[i].ch[c].pins
  <1>1. hot \in [Insts -> Rings] /\ left' \in Lefts /\ left'.tables = left.tables
    BY DEF HotInv
  <1>2. \A i \in Insts, c \in Chunks : Cardinality(hot[i].ch[c].pins) <= LeaseSlots
    BY HotType DEF RingOk
  <1>3. CASE ~Pinnable(j, d)
    <2>1. hot' = hot
      BY <1>3 DEF Pin
    <2>2. HotInv' /\ HotStep
      BY <1>1, <1>2, <2>1, PinStep
    <2> QED
      BY <1>3, <2>1, <2>2
  <1>4. CASE Pinnable(j, d)
    <2> DEFINE h == hot[j]
               x == [h.ch[d] EXCEPT !.pins = h.ch[d].pins \cup {r}]
               ch == [h.ch EXCEPT ![d] = x]
               R == [h EXCEPT !.ch = ch]
    <2>1. h \in Rings /\ h.ch[d] \in ChunkTypes /\ h.ch[d].pins \subseteq Readers
      BY HotType
    <2>2. x \in ChunkTypes /\ x.state = h.ch[d].state /\ x.gen = h.ch[d].gen /\ x.n = h.ch[d].n
          /\ x.pins = h.ch[d].pins \cup {r}
      BY <2>1 DEF ChunkTypes
    <2>3. R \in Rings /\ R.wc = h.wc /\ R.hidden = h.hidden /\ R.ch = ch
      BY <2>1, <2>2 DEF Rings
    <2>4. hot' = [hot EXCEPT ![j] = R]
      BY <1>1, <1>4, <2>1 DEF Pin, Rings, ChunkTypes
    <2>5. Cardinality(x.pins) <= LeaseSlots
      <3>1. IsFiniteSet(Readers)
        BY FiniteReaders
      <3>2. IsFiniteSet(h.ch[d].pins) /\ Cardinality(h.ch[d].pins) \in Nat
        BY <2>1, <3>1, FS_Subset, FS_CardinalityType
      <3>3. \/ Cardinality(x.pins) = Cardinality(h.ch[d].pins)
            \/ Cardinality(x.pins) = Cardinality(h.ch[d].pins) + 1
        BY <2>2, <3>2, FS_AddElement
      <3>4. Cardinality(h.ch[d].pins) < LeaseSlots /\ LeaseSlots \in Nat
        BY <1>4, ColdAssumption DEF Pinnable
      <3> QED
        BY <3>2, <3>3, <3>4
    <2>6. \A c \in Chunks : /\ c = d => ch[c] = x
                            /\ c # d => ch[c] = h.ch[c]
      BY <2>1 DEF Rings
    <2> HIDE DEF x, ch, R
    <2>7. /\ hot' \in [Insts -> Rings] /\ hot'[j] = R
          /\ \A i \in Insts : i # j => hot'[i] = hot[i]
      BY <1>1, <2>3, <2>4
    <2>8. \A i \in Insts : hot'[i].wc = hot[i].wc /\ hot'[i].hidden = hot[i].hidden
      BY <2>3, <2>7
    <2>9. ASSUME NEW i \in Insts, NEW c \in Chunks
          PROVE /\ hot'[i].ch[c].state = hot[i].ch[c].state /\ hot'[i].ch[c].gen = hot[i].ch[c].gen
                /\ hot'[i].ch[c].n = hot[i].ch[c].n
                /\ Cardinality(hot'[i].ch[c].pins) <= LeaseSlots
                /\ hot'[i].ch[c].pins = IF i = j /\ c = d THEN hot[i].ch[c].pins \cup {r}
                                        ELSE hot[i].ch[c].pins
      <3>1. CASE i = j /\ c = d
        BY <2>2, <2>3, <2>5, <2>6, <2>7, <3>1
      <3>2. CASE ~(i = j /\ c = d)
        <4>1. hot'[i].ch[c] = hot[i].ch[c]
          BY <2>3, <2>6, <2>7, <3>2
        <4> QED
          BY <1>2, <3>2, <4>1
      <3> QED
        BY <3>1, <3>2
    <2>10. HotInv' /\ HotStep
      BY <1>1, <2>7, <2>8, <2>9, PinStep
    <2> QED
      BY <1>4, <2>9, <2>10
  <1> QED
    BY <1>3, <1>4

\* Pins go away.
LEMMA UnpinHot ==
  ASSUME HotInv, hot' \in [Insts -> Rings],
         \A i \in Insts : hot'[i].wc = hot[i].wc /\ hot'[i].hidden = hot[i].hidden,
         \A i \in Insts, c \in Chunks :
            /\ hot'[i].ch[c].state = hot[i].ch[c].state /\ hot'[i].ch[c].gen = hot[i].ch[c].gen
            /\ hot'[i].ch[c].n = hot[i].ch[c].n /\ hot'[i].ch[c].pins \subseteq hot[i].ch[c].pins,
         left' \in Lefts, left'.tables = left.tables, UNCHANGED <<cur, sealed, odd>>
  PROVE HotInv' /\ HotStep
  <1>1. \A i \in Insts, c \in Chunks : Cardinality(hot'[i].ch[c].pins) <= LeaseSlots
    <2> SUFFICES ASSUME NEW i \in Insts, NEW c \in Chunks
                 PROVE Cardinality(hot'[i].ch[c].pins) <= LeaseSlots
      OBVIOUS
    <2>1. hot[i].ch[c].pins \subseteq Readers /\ Cardinality(hot[i].ch[c].pins) <= LeaseSlots
      BY HotType DEF RingOk
    <2>2. IsFiniteSet(Readers)
      BY FiniteReaders
    <2>3. IsFiniteSet(hot[i].ch[c].pins)
      BY <2>1, <2>2, FS_Subset
    <2>4. /\ IsFiniteSet(hot'[i].ch[c].pins)
          /\ Cardinality(hot'[i].ch[c].pins) <= Cardinality(hot[i].ch[c].pins)
      BY <2>3, FS_Subset
    <2>5. /\ Cardinality(hot'[i].ch[c].pins) \in Nat /\ Cardinality(hot[i].ch[c].pins) \in Nat
          /\ LeaseSlots \in Nat
      BY <2>3, <2>4, FS_CardinalityType, ColdAssumption
    <2> QED
      BY <2>1, <2>4, <2>5
  <1>2. odd \subseteq odd' /\ odd' \subseteq Keys
    BY DEF HotInv
  <1> QED
    BY <1>1, <1>2, PinStep

LEMMA UnpinOne ==
  ASSUME HotInv, NEW r \in Readers, NEW j \in Insts, NEW d \in Chunks, Unpin(r, j, d),
         UNCHANGED <<left, cur, sealed, odd>>
  PROVE /\ HotInv' /\ HotStep
        /\ \A i \in Insts, c \in Chunks :
              hot'[i].ch[c].pins = IF i = j /\ c = d THEN hot[i].ch[c].pins \ {r}
                                   ELSE hot[i].ch[c].pins
  <1> DEFINE h == hot[j]
             x == [h.ch[d] EXCEPT !.pins = h.ch[d].pins \ {r}]
             ch == [h.ch EXCEPT ![d] = x]
             R == [h EXCEPT !.ch = ch]
  <1>1. hot \in [Insts -> Rings] /\ left' \in Lefts /\ left'.tables = left.tables
    BY DEF HotInv
  <1>2. h \in Rings /\ h.ch[d] \in ChunkTypes /\ h.ch[d].pins \subseteq Readers
    BY HotType
  <1>3. x \in ChunkTypes /\ x.state = h.ch[d].state /\ x.gen = h.ch[d].gen /\ x.n = h.ch[d].n
        /\ x.pins = h.ch[d].pins \ {r}
    BY <1>2 DEF ChunkTypes
  <1>4. R \in Rings /\ R.wc = h.wc /\ R.hidden = h.hidden /\ R.ch = ch
    BY <1>2, <1>3 DEF Rings
  <1>5. hot' = [hot EXCEPT ![j] = R]
    BY <1>1, <1>2 DEF Unpin, Rings, ChunkTypes
  <1>6. \A c \in Chunks : /\ c = d => ch[c] = x
                          /\ c # d => ch[c] = h.ch[c]
    BY <1>2 DEF Rings
  <1> HIDE DEF x, ch, R
  <1>7. /\ hot' \in [Insts -> Rings] /\ hot'[j] = R
        /\ \A i \in Insts : i # j => hot'[i] = hot[i]
    BY <1>1, <1>4, <1>5
  <1>8. \A i \in Insts : hot'[i].wc = hot[i].wc /\ hot'[i].hidden = hot[i].hidden
    BY <1>4, <1>7
  <1>9. ASSUME NEW i \in Insts, NEW c \in Chunks
        PROVE /\ hot'[i].ch[c].state = hot[i].ch[c].state /\ hot'[i].ch[c].gen = hot[i].ch[c].gen
              /\ hot'[i].ch[c].n = hot[i].ch[c].n /\ hot'[i].ch[c].pins \subseteq hot[i].ch[c].pins
              /\ hot'[i].ch[c].pins = IF i = j /\ c = d THEN hot[i].ch[c].pins \ {r}
                                      ELSE hot[i].ch[c].pins
    <2>1. CASE i = j /\ c = d
      BY <1>3, <1>4, <1>6, <1>7, <2>1
    <2>2. CASE ~(i = j /\ c = d)
      BY <1>4, <1>6, <1>7, <2>2
    <2> QED
      BY <2>1, <2>2
  <1>10. HotInv' /\ HotStep
    BY <1>1, <1>7, <1>8, <1>9, UnpinHot
  <1> QED
    BY <1>9, <1>10

\* Nothing happens to the rings.
LEMMA SameHot ==
  ASSUME HotInv, UNCHANGED <<hot, cur, sealed, odd>>, left' \in Lefts, left'.tables = left.tables
  PROVE HotInv' /\ HotStep /\ PinsKept("query")
  <1>1. hot' \in [Insts -> Rings] /\ hot' = hot
    BY DEF HotInv
  <1>2. HotInv' /\ HotStep
    BY <1>1, UnpinHot
  <1> QED
    BY <1>1, <1>2 DEF PinsKept

----------------------------------------------------------------------------
(***************************************************************************)
(* What the other parts of the invariant stand on when they do not move    *)
(* themselves.                                                             *)
(***************************************************************************)
LEMMA GenTypes ==
  ASSUME HotInv, HotInv', HotStep, NEW i \in Insts, NEW c \in Chunks
  PROVE Gen(i, c) \in Nat /\ Gen(i, c)' \in Nat /\ Gen(i, c) <= Gen(i, c)'
  <1>1. Gen(i, c) \in Nat
    BY HotType
  <1>2. Gen(i, c)' \in Nat
    BY DEF HotInv, Rings, ChunkTypes, Gen
  <1> QED
    BY <1>1, <1>2 DEF HotStep

LEMMA StoredIn ==
  ASSUME NEW s \in DOMAIN segs, NEW p \in Stored(s)
  PROVE s \in Present /\ p \in Range(segs[s].pages)
  BY DEF Stored, Present

LEMMA StoredType ==
  ASSUME SegsInv, NEW s \in DOMAIN segs
  PROVE /\ segs[s] \in SegTypes /\ Stored(s) \subseteq PageTypes
        /\ \A p \in Stored(s) : p.key \in Keys /\ p.key.inst \in Insts /\ p.key.chunk \in Chunks
                                /\ p.key.gen \in Nat
  <1>1. segs[s] \in SegTypes
    BY ElementOfSeq, LenProperties DEF SegsInv
  <1>2. segs[s].pages \in Seq(PageTypes)
    BY <1>1 DEF SegTypes
  <1>3. Stored(s) \subseteq PageTypes
    BY <1>2, ElementOfSeq, LenProperties DEF Stored, Range
  <1> QED
    BY <1>1, <1>3 DEF PageTypes, Keys

LEMMA SegsKept ==
  ASSUME HotInv, HotInv', HotStep, SegsInv, UNCHANGED segs
  PROVE SegsInv'
  <1>1. ASSUME NEW s \in DOMAIN segs, NEW p \in Stored(s) PROVE PageOk(p)'
    <2>1. PageOk(p)
      BY DEF SegsInv
    <2>2. p.key.inst \in Insts /\ p.key.chunk \in Chunks /\ p.key.gen \in Nat
      BY StoredType
    <2>3. p.key.gen <= Gen(p.key.inst, p.key.chunk)'
      BY <2>1, <2>2, GenTypes DEF PageOk
    <2> QED
      BY <2>1, <2>3 DEF PageOk, HotStep
  <1>2. \A s \in DOMAIN segs' : \A p \in Stored(s)' : PageOk(p)'
    BY <1>1 DEF Stored
  <1> QED
    BY <1>2 DEF SegsInv, OnePage, Present

LEMMA MarksKept ==
  ASSUME HotInv, HotInv', HotStep, SegsInv, PassInv, MarksOk, UNCHANGED segs,
         cp'.seed = cp.seed, cp'.src = cp.src, cp'.mark = cp.mark,
         cp'.pc = "down" <=> cp.pc = "down"
  PROVE MarksOk'
  <1>1. \A k \in Keys : Accounted(k) => Accounted(k)'
    BY DEF HotStep, Accounted, Archived
  <1>2. /\ cp.seed \in [Insts -> [Chunks -> Nat]] /\ cp.mark \in [Chunks -> Nat]
        /\ cp.src # 0 => cp.src \in Insts
    BY SourceType DEF CpTypes
  <1>3. \A i \in Insts, c \in Chunks, g \in Nat : Key(i, c, g) \in Keys
    BY DEF Key, Keys
  <1>4. ASSUME NEW i \in Insts, NEW c \in Chunks, NEW g \in Nat
        PROVE /\ g <= Gen(i, c) => g <= Gen(i, c)'
              /\ Accounted(Key(i, c, g)) => Accounted(Key(i, c, g))'
    BY <1>1, <1>3, GenTypes
  <1>5. ASSUME NEW i \in Insts, NEW c \in Chunks
        PROVE (cp.seed[i][c] <= Gen(i, c) /\ (i > cp.src => Accounted(Key(i, c, cp.seed[i][c]))))'
    <2> PICK g \in Nat : g = cp.seed[i][c]
      BY <1>2
    <2>1. cp'.seed[i][c] = g /\ cp'.src = cp.src
      OBVIOUS
    <2>2. g <= Gen(i, c)' /\ (i > cp.src => Accounted(Key(i, c, g))')
      BY <1>4 DEF MarksOk
    <2> QED
      BY <2>1, <2>2
  <1>6. ASSUME cp.src # 0, NEW c \in Chunks
        PROVE (cp.mark[c] <= Gen(cp.src, c) /\ Accounted(Key(cp.src, c, cp.mark[c])))'
    <2> PICK i \in Insts : i = cp.src
      BY <1>2, <1>6
    <2> PICK g \in Nat : g = cp.mark[c]
      BY <1>2
    <2>1. cp'.src = i /\ cp'.mark[c] = g
      OBVIOUS
    <2>2. g <= Gen(i, c)' /\ Accounted(Key(i, c, g))'
      BY <1>4, <1>6 DEF MarksOk
    <2> QED
      BY <2>1, <2>2
  <1>7. cp'.pc # "down" => \A s \in DOMAIN segs' : \A p \in Stored(s)' : Marked(p.key)'
    BY DEF MarksOk, Stored, Marked
  <1> QED
    BY <1>5, <1>6, <1>7 DEF MarksOk

LEMMA PassKept ==
  ASSUME HotInv, HotInv', HotStep, PassInv, cp' \in CpTypes, cp'.pc = cp.pc, cp'.src = cp.src,
         cp'.todo = cp.todo, cp'.mark = cp.mark, cp'.open = cp.open, cp'.saw = cp.saw,
         cp.open # 0 => cp.open \in DOMAIN segs' /\ segs'[cp.open].state = "open",
         rd'["compactor"] = rd["compactor"]
  PROVE PassInv'
  <1>1. /\ cp.pc \in AtChunk \cup {"state", "enforce"} => cp.src \in Insts
        /\ cp.todo # <<>> => Chunk \in Chunks
        /\ cur <= cur' /\ cur \in Nat /\ cur' \in Nat /\ cp.src \in Nat /\ cp.saw \in Nat
        /\ cp.mark \in [Chunks -> Nat] /\ Took \in [gen : Nat, n : Nat]
    BY SourceType DEF PassInv, HotStep, CpTypes
  <1>2. Chunk' = Chunk /\ Took' = Took
    BY DEF Chunk, Took
  <1>3. CASE cp.pc \notin AtChunk
    BY <1>1, <1>2, <1>3 DEF PassInv, AtChunk
  <1>4. CASE cp.pc \in AtChunk
    <2> PICK i \in Insts : i = cp.src
      BY <1>1, <1>4
    <2> PICK c \in Chunks : c = Chunk
      BY <1>1, <1>4 DEF PassInv
    <2>1. /\ Gen(i, c) \in Nat /\ Gen(i, c)' \in Nat /\ Gen(i, c) <= Gen(i, c)'
          /\ Gen(i, c)' = Gen(i, c) /\ Closed(i, c) => Closed(i, c)' /\ Filled(i, c)' = Filled(i, c)
          /\ sealed \subseteq sealed' /\ odd \subseteq odd'
      BY GenTypes DEF HotStep
    <2>2. /\ Gen(cp.src, Chunk)' = Gen(i, c)' /\ (Closed(cp.src, Chunk)' <=> Closed(i, c)')
          /\ TookKey' = TookKey /\ Took.gen \in Nat /\ Took.n \in Nat /\ cp.mark[c] \in Nat
      BY <1>1, <1>2 DEF Gen, Closed, NextOf, TookKey
    <2>3. Whole => Whole'
      BY <1>2, <2>1, <2>2 DEF Whole
    <2>4. cp.pc \in {"gen", "before", "pin", "unpin", "after"} =>
            cp.saw <= Gen(i, c)' /\ (cp.saw = Gen(i, c)' => Closed(i, c)')
      BY <1>1, <2>1 DEF PassInv
    <2>5. cp.pc \in {"before", "pin", "unpin", "after"} => Gen(i, c)' > cp.mark[c]
      BY <1>1, <2>1, <2>2 DEF PassInv
    <2>6. cp.pc \in {"pin", "unpin", "after", "append"} => Took.gen <= Gen(i, c)' /\ Took.gen > cp.mark[c]
      BY <1>1, <2>1, <2>2 DEF PassInv
    <2>7. cp.pc \in {"unpin", "after"} => TookKey \in odd' \/ Took.gen # Gen(i, c)' \/ Whole'
      BY <1>1, <2>1, <2>2, <2>3 DEF PassInv
    <2>8. cp.pc = "append" => Took.n > 0 /\ (TookKey \in odd' \/ Whole')
      BY <1>1, <2>1, <2>2, <2>3 DEF PassInv
    <2>9. /\ cp' \in CpTypes /\ cp'.src <= cur' /\ cp'.src # 0
          /\ cp'.open # 0 => cp'.open \in DOMAIN segs' /\ segs'[cp'.open].state = "open"
          /\ cp'.pc = "size" => cp'.open # 0
          /\ cp'.todo # <<>>
          /\ Took' \in [gen : Nat, n : Nat]
      BY <1>1, <1>2, <1>4 DEF PassInv
    <2> QED
      BY <1>2, <1>4, <2>2, <2>4, <2>5, <2>6, <2>7, <2>8, <2>9 DEF PassInv, AtChunk
  <1> QED
    BY <1>3, <1>4

\* The history of a query that has not just begun.
LEMMA TrackFacts ==
  ASSUME QueryInv, Track, q'.pc # "cold" \/ q.pc = "cold"
  PROVE /\ must' \in [hot : SUBSET Rows, cold : SUBSET Rows]
        /\ must'.hot \subseteq must.hot /\ must'.cold \subseteq must.cold
        /\ q'.pc = "idle" => must' = NoRows
        /\ q'.pc # "idle" => /\ must'.hot \subseteq HotRows(q.inst)'
                             /\ must'.cold \subseteq ColdRows(q.inst)'
  <1>1. must \in [hot : SUBSET Rows, cold : SUBSET Rows]
    BY DEF QueryInv
  <1>2. CASE q'.pc = "idle"
    <2>1. must' = [hot |-> {}, cold |-> {}]
      BY <1>2 DEF Track, NoRows
    <2> QED
      BY <1>1, <1>2, <2>1 DEF NoRows
  <1>3. CASE q'.pc # "idle"
    <2>1. must' = [hot |-> must.hot \cap HotRows(q.inst)', cold |-> must.cold \cap ColdRows(q.inst)']
      BY <1>3 DEF Track
    <2> QED
      BY <1>1, <1>3, <2>1
  <1> QED
    BY <1>2, <1>3

LEMMA RowTypes ==
  ASSUME QueryInv
  PROVE \A r \in must.hot \cup must.cold \cup q.got : r \in Rows /\ r.key \in Keys /\ r.i \in Nat
  BY DEF QueryInv, QTypes, Rows

\* The query itself rests.
LEMMA QueryKept ==
  ASSUME HotInv, HotInv', HotStep, PinsKept("query"), QueryInv, Track, UNCHANGED q,
         rd'["query"] = rd["query"], ColdPhase'
  PROVE QueryInv'
  <1>1. /\ must' \in [hot : SUBSET Rows, cold : SUBSET Rows]
        /\ must'.hot \subseteq must.hot /\ must'.cold \subseteq must.cold
        /\ q.pc = "idle" => must' = NoRows
        /\ q.pc # "idle" => must'.hot \subseteq HotRows(q.inst)'
    BY TrackFacts
  <1>2. QTook' = QTook /\ QTook.gen \in Nat /\ QTook.n \in Nat /\ q \in QTypes
    BY DEF QTook, QueryInv
  <1>3. \A k \in q.covered : k \in Keys /\ k.inst \in Insts /\ k.chunk \in Chunks /\ k.gen \in Nat
    BY <1>2 DEF QTypes, Keys
  <1>4. ASSUME NEW k \in q.covered
        PROVE k.gen <= Gen(k.inst, k.chunk)' /\ Seen(k)'
    <2>1. k.gen <= Gen(k.inst, k.chunk) /\ Seen(k)
      BY DEF QueryInv
    <2>2. k.gen <= Gen(k.inst, k.chunk)'
      BY <1>3, <2>1, GenTypes
    <2>3. Seen(k)'
      BY <2>1 DEF Seen, HotStep
    <2> QED
      BY <2>2, <2>3
  <1>5. HotPhase'
    <2> SUFFICES ASSUME q.pc \in InHot PROVE HotPhase'
      BY DEF HotPhase
    <2>1. q.inst \in Insts /\ Range(q.todo) \subseteq Chunks /\ must.cold \subseteq q.got
          /\ \A r \in q.got : r.key \in q.covered
                                \/ (r.key.inst = q.inst /\ r.key.chunk \notin Range(q.todo))
      BY DEF QueryInv, HotPhase, InHot
    <2>2. ASSUME q.pc # "exclude"
          PROVE /\ q.todo # <<>>
                /\ \A k \in q.covered : k.inst = q.inst /\ k.chunk = QChunk =>
                      k.gen < IF q.pc = "before" THEN Gen(q.inst, QChunk)' ELSE QTook.gen
      <3>1. q.todo # <<>>
        BY <2>2 DEF QueryInv, HotPhase
      <3>2. QChunk \in Chunks
        BY <1>2, <2>1, <3>1, TailFacts DEF QTypes, QChunk
      <3> SUFFICES ASSUME NEW k \in q.covered, k.inst = q.inst, k.chunk = QChunk
                   PROVE k.gen < IF q.pc = "before" THEN Gen(q.inst, QChunk)' ELSE QTook.gen
        BY <3>1
      <3>3. k.gen < IF q.pc = "before" THEN Gen(q.inst, QChunk) ELSE QTook.gen
        BY <2>2 DEF QueryInv, HotPhase
      <3> PICK i \in Insts : i = q.inst
        BY <2>1
      <3> PICK c \in Chunks : c = QChunk
        BY <3>2
      <3>4. Gen(i, c) \in Nat /\ Gen(i, c)' \in Nat /\ Gen(i, c) <= Gen(i, c)'
        BY GenTypes
      <3>5. Gen(q.inst, QChunk)' = Gen(i, c)' /\ Gen(q.inst, QChunk) = Gen(i, c) /\ k.gen \in Nat
        BY <1>3 DEF Gen, QChunk
      <3> QED
        BY <1>2, <3>3, <3>4, <3>5
    <2>3. q' = q /\ QChunk' = QChunk
      BY DEF QChunk
    <2> QED
      BY <1>1, <1>2, <2>1, <2>2, <2>3 DEF HotPhase, Gen
  <1>6. Leased'
    BY DEF QueryInv, Leased, PinsKept, QChunk
  <1>7. Awaited => Awaited'
    BY <1>1, <1>2, RowTypes DEF Awaited, HotStep, QChunk
  <1> QED
    BY <1>1, <1>2, <1>4, <1>5, <1>6, <1>7 DEF QueryInv

\* Neither the segments nor the compactor's state move.
LEMMA ColdKept ==
  ASSUME QueryInv, SegsInv, Track, UNCHANGED <<q, segs>>, cp'.open \in {0, cp.open},
         \A k \in Keys : Marked(k) => Marked(k)'
  PROVE ColdPhase'
  <1>1. must'.cold \subseteq must.cold
    BY TrackFacts
  <1>2. q.covered \subseteq Keys
    BY DEF QueryInv, QTypes
  <1>3. 0 \notin DOMAIN segs
    BY LenProperties DEF SegsInv
  <1> QED
    BY <1>1, <1>2, <1>3 DEF QueryInv, ColdPhase, Stored, RowAt

LEMMA WriterStep ==
  ASSUME Inv, HotInv', HotStep, PinsKept("query"), WriterQuiet
  PROVE Inv'
  <1>1. UNCHANGED <<cp, segs, rd, q, odd>> /\ Track /\ HotInv /\ SegsInv /\ MarksOk /\ PassInv /\ QueryInv
    BY DEF WriterQuiet, Inv
  <1>2. SegsInv' /\ MarksOk'
    BY <1>1, SegsKept, MarksKept
  <1>3. PassInv'
    BY <1>1, PassKept DEF PassInv
  <1>4. ColdPhase'
    BY <1>1, ColdKept DEF Marked
  <1>5. QueryInv'
    BY <1>1, <1>4, QueryKept
  <1>6. ReadsOk'
    BY <1>1 DEF Inv, ReadsOk
  <1> QED
    BY <1>2, <1>3, <1>5, <1>6 DEF Inv

LEMMA WriterInv ==
  ASSUME Inv, Writer
  PROVE Inv'
  <1>1. HotInv
    BY DEF Inv
  <1>2. CASE Push
    BY <1>1, <1>2, PushHot, WriterStep DEF Push
  <1>3. CASE Hide
    BY <1>1, <1>3, HideHot, WriterStep DEF Hide
  <1>4. CASE Restore
    BY <1>1, <1>4, RestoreHot, WriterStep DEF Restore
  <1>5. CASE Recycle
    BY <1>1, <1>5, RecycleHot, WriterStep DEF Recycle
  <1>6. CASE Replace
    BY <1>1, <1>6, ReplaceHot, WriterStep DEF Replace
  <1> QED
    BY <1>2, <1>3, <1>4, <1>5, <1>6 DEF Writer

----------------------------------------------------------------------------
(***************************************************************************)
(* The query.                                                              *)
(***************************************************************************)
LEMMA WiderSeq ==
  ASSUME NEW S, NEW T, S \subseteq T, NEW s \in Seq(S)
  PROVE s \in Seq(T)
  <1>1. PICK n \in Nat : s \in [1 .. n -> S]
    BY SeqDef
  <1>2. s \in [1 .. n -> T]
    BY <1>1
  <1> QED
    BY <1>2, SeqDef

\* A listing of a finite set names each of its elements once.
LEMMA ListingFacts ==
  ASSUME NEW S, IsFiniteSet(S), NEW s \in SetToSeqs(S)
  PROVE s \in Seq(S) /\ IsInjective(s) /\ Range(s) = S
  <1> PICK n \in Nat : n = Cardinality(S)
    BY FS_CardinalityType
  <1>1. s \in [1 .. n -> S] /\ \A i, j \in 1 .. n : i # j => s[i] # s[j]
    BY DEF SetToSeqs
  <1>2. IsInjective(s) /\ DOMAIN s = 1 .. n
    BY <1>1 DEF IsInjective
  <1>3. s \in Injection(1 .. n, S)
    BY <1>1, <1>2 DEF Injection
  <1>4. Cardinality(1 .. n) = n
    BY FS_Interval
  <1>5. s \in Surjection(1 .. n, S)
    BY <1>3, <1>4, FS_Injection
  <1>6. Range(s) = S
    BY <1>1, <1>2, <1>5 DEF Surjection, Range
  <1>7. s \in Seq(S)
    BY <1>1, SeqDef
  <1> QED
    BY <1>2, <1>6, <1>7

LEMMA LogicalFacts ==
  ASSUME NEW i, NEW s \in Logical(i)
  PROVE s \in Seq(Chunks) /\ IsInjective(s) /\ Range(s) = WithRows(i) /\ WithRows(i) \subseteq Chunks
  <1>1. WithRows(i) \subseteq Chunks /\ s \in SetToSeqs(WithRows(i))
    BY DEF WithRows, Logical
  <1>2. IsFiniteSet(Chunks)
    BY FS_Interval, ColdAssumption DEF Chunks
  <1>3. IsFiniteSet(WithRows(i))
    BY <1>1, <1>2, FS_Subset
  <1>4. s \in Seq(WithRows(i)) /\ IsInjective(s) /\ Range(s) = WithRows(i)
    BY <1>1, <1>3, ListingFacts
  <1>5. s \in Seq(Chunks)
    BY <1>1, <1>4, WiderSeq
  <1> QED
    BY <1>1, <1>4, <1>5

LEMMA KeysApart ==
  ASSUME SegsInv, NEW s \in DOMAIN segs, NEW t \in DOMAIN segs, s # t, NEW p \in Stored(s),
         NEW r \in Stored(t)
  PROVE p.key # r.key
  <1>1. s \in Present /\ \E i \in DOMAIN segs[s].pages : p = segs[s].pages[i]
    BY StoredIn DEF Range
  <1>2. t \in Present /\ \E j \in DOMAIN segs[t].pages : r = segs[t].pages[j]
    BY StoredIn DEF Range
  <1> QED
    BY <1>1, <1>2 DEF SegsInv, OnePage

LEMMA RowsOfFacts ==
  ASSUME NEW p, NEW r \in RowsOf(p)
  PROVE /\ r.key = p.key /\ r.i \in 1 .. p.n
        /\ p \in PageTypes => r \in Rows
  BY DEF RowsOf, Rows, PageTypes

LEMMA InRowsOf ==
  ASSUME NEW p, NEW r \in Rows, r.key = p.key, p.n \in Nat, r.i > 0, r.i <= p.n
  PROVE r \in RowsOf(p)
  <1>1. r = [key |-> p.key, i |-> r.i] /\ r.i \in 1 .. p.n
    BY DEF Rows
  <1> QED
    BY <1>1 DEF RowsOf

\* A row of the ring: where it is.
LEMMA HotRowFacts ==
  ASSUME HotInv, NEW i \in Insts, NEW r \in HotRows(i)
  PROVE /\ r.key.inst = i /\ r.key.chunk \in Chunks /\ r.key.gen = Gen(i, r.key.chunk)
        /\ r.key = Key(i, r.key.chunk, Gen(i, r.key.chunk))
        /\ r.i > 0 /\ r.i <= Filled(i, r.key.chunk) /\ r.i \in Nat /\ r \in Rows
        /\ hot[i].ch[r.key.chunk].state # "Empty"
        /\ r.key.chunk \in WithRows(i)
  <1>1. PICK c \in Chunks : /\ hot[i].ch[c].state # "Empty"
                            /\ r \in RowsOf(Page(Key(i, c, Gen(i, c)), Filled(i, c)))
    BY DEF HotRows, Gen, Filled
  <1>2. r.key = Key(i, c, Gen(i, c)) /\ r.i \in 1 .. Filled(i, c)
    BY <1>1, RowsOfFacts DEF Page
  <1>3. r.key.inst = i /\ r.key.chunk = c /\ r.key.gen = Gen(i, c)
    BY <1>2 DEF Key
  <1>4. Gen(i, c) \in Nat /\ Filled(i, c) \in Nat /\ Gen(i, c) > 0
    BY <1>1, HotType, ColdAssumption DEF RingOk
  <1>5. r \in Rows
    BY <1>1, <1>4, RowsOfFacts DEF Page, Key, PageTypes, Keys
  <1>6. c \in WithRows(i)
    BY <1>2, <1>4 DEF WithRows, Gen, Filled
  <1> QED
    BY <1>1, <1>2, <1>3, <1>4, <1>5, <1>6

LEMMA QueryStep ==
  ASSUME Inv, QueryQuiet, HotInv', HotStep, rd'["compactor"] = rd["compactor"], ReadsOk', QueryInv'
  PROVE Inv'
  <1>1. /\ UNCHANGED <<cur, cp, segs, sealed, odd>>
        /\ HotInv /\ SegsInv /\ MarksOk /\ PassInv
    BY DEF QueryQuiet, Inv
  <1>2. SegsInv' /\ MarksOk'
    BY <1>1, SegsKept, MarksKept
  <1>3. PassInv'
    BY <1>1, PassKept DEF PassInv
  <1> QED
    BY <1>2, <1>3 DEF Inv

\* A query that is not in the middle of a chunk holds no pin.
LEMMA NoPins ==
  ASSUME QueryInv, q.pc # "unpin", UNCHANGED hot
  PROVE Leased'
  BY DEF QueryInv, Leased

\* The query is over before it got to the ring.
LEMMA IdleInv ==
  ASSUME HotInv, QueryInv, QueryQuiet, UNCHANGED <<hot, rd>>, q.pc # "unpin", q' = IdleQuery
  PROVE QueryInv'
  <1>1. q'.pc = "idle" /\ q'.todo = <<>> /\ q'.covered = {} /\ ~q'.dup /\ q' \in QTypes
    BY DEF IdleQuery, QTypes, QPcs
  <1>2. must' = NoRows /\ must' \in [hot : SUBSET Rows, cold : SUBSET Rows]
    BY <1>1, TrackFacts DEF QueryQuiet
  <1>3. IsInjective(q'.todo)
    BY <1>1 DEF IsInjective
  <1>4. Leased'
    BY NoPins
  <1> QED
    BY <1>1, <1>2, <1>3, <1>4 DEF QueryInv, ColdPhase, HotPhase, Awaited, InHot, QTook

LEMMA ColdRowFacts ==
  ASSUME SegsInv, NEW i, NEW r \in ColdRows(i)
  PROVE r \in Rows /\ \E s \in Present : RowAt(s, r)
  <1>1. PICK s \in Present : \E p \in Range(segs[s].pages) : r \in RowsOf(p)
    BY DEF ColdRows
  <1>2. PICK p \in Stored(s) : r \in RowsOf(p)
    BY <1>1 DEF Stored, Present
  <1>3. p \in PageTypes
    BY StoredType DEF Present
  <1> QED
    BY <1>2, <1>3, RowsOfFacts DEF RowAt

LEMMA QueryStartInv ==
  ASSUME Inv, QueryStart
  PROVE Inv'
  <1>1. /\ QueryQuiet /\ UNCHANGED <<hot, rd, cur, cp, segs, sealed, odd>> /\ Track
        /\ q.pc \in {"idle", "done"}
        /\ HotInv /\ SegsInv /\ QueryInv
    BY DEF QueryStart, QueryQuiet, Inv
  <1>2. left' \in Lefts /\ left'.tables = left.tables
    <2>1. left \in Lefts /\ left' = [left EXCEPT !.queries = left.queries - 1] /\ left.queries > 0
      BY DEF QueryStart, Inv, HotInv
    <2> QED
      BY <2>1 DEF Lefts
  <1>3. HotInv' /\ HotStep
    BY <1>1, <1>2, SameHot
  <1>4. PICK todo \in SetToSeqs(Present) :
           q' = [IdleQuery EXCEPT !.pc = "cold", !.inst = cur, !.todo = todo]
    BY DEF QueryStart
  <1>5. todo \in Seq(Nat) /\ IsInjective(todo) /\ Range(todo) = Present
    <2>1. DOMAIN segs = 1 .. Len(segs) /\ Len(segs) \in Nat
      BY <1>1, LenProperties DEF SegsInv
    <2>2. IsFiniteSet(1 .. Len(segs))
      BY <2>1, FS_Interval
    <2>3. Present \subseteq 1 .. Len(segs)
      BY <2>1 DEF Present
    <2>4. IsFiniteSet(Present) /\ todo \in SetToSeqs(Present)
      BY <2>2, <2>3, FS_Subset
    <2>5. todo \in Seq(Present) /\ IsInjective(todo) /\ Range(todo) = Present
      BY <2>4, ListingFacts
    <2>6. Present \subseteq Nat
      BY <2>1, <2>3
    <2>7. todo \in Seq(Nat)
      BY <2>5, <2>6, WiderSeq
    <2> QED
      BY <2>5, <2>7
  <1>6. /\ q'.pc = "cold" /\ q'.inst = cur /\ q'.todo = todo /\ q'.covered = {} /\ q'.got = {}
        /\ q'.dup = FALSE
    BY <1>4 DEF IdleQuery
  <1>7. q' \in QTypes /\ cur \in Insts /\ cur \in Nat
    <2>1. cur \in Insts /\ cur \in Nat
      BY <1>1 DEF HotInv, Insts
    <2> QED
      BY <1>4, <1>5, <2>1 DEF IdleQuery, QTypes, QPcs
  <1>8. must' = [hot |-> HotRows(cur), cold |-> ColdRows(cur)]
    BY <1>1, <1>6 DEF Track
  <1>9. must' \in [hot : SUBSET Rows, cold : SUBSET Rows]
    <2>1. HotRows(cur) \subseteq Rows
      BY <1>1, <1>7, HotRowFacts
    <2>2. ColdRows(cur) \subseteq Rows
      BY <1>1, ColdRowFacts
    <2> QED
      BY <1>8, <2>1, <2>2
  <1>10. must'.hot \subseteq HotRows(q.inst)'
    <2>1. HotRows(q.inst)' = HotRows(cur)
      BY <1>1, <1>6 DEF HotRows
    <2> QED
      BY <1>8, <2>1
  <1>11. ColdPhase'
    <2>1. \A r \in must'.cold : \E s \in Range(todo) : RowAt(s, r)'
      BY <1>1, <1>5, <1>8, ColdRowFacts DEF RowAt, Stored
    <2>2. Range(todo) \subseteq DOMAIN segs'
      BY <1>1, <1>5 DEF Present
    <2> QED
      BY <1>6, <2>1, <2>2 DEF ColdPhase
  <1>12. Leased'
    BY <1>1, NoPins
  <1>13. QueryInv'
    BY <1>1, <1>5, <1>6, <1>7, <1>9, <1>10, <1>11, <1>12 DEF QueryInv, HotPhase, Awaited, InHot, QTook
  <1>14. ReadsOk'
    BY <1>1 DEF Inv, ReadsOk
  <1> QED
    BY <1>1, <1>3, <1>13, <1>14, QueryStep

LEMMA QueryColdInv ==
  ASSUME Inv, QueryCold
  PROVE Inv'
  <1>1. /\ QueryQuiet /\ UNCHANGED <<hot, rd, left, cur, cp, segs, sealed, odd>> /\ Track
        /\ q.pc = "cold" /\ q.todo # <<>>
        /\ HotInv /\ SegsInv /\ MarksOk /\ PassInv /\ QueryInv
    BY DEF QueryCold, QueryQuiet, Inv
  <1>2. HotInv' /\ HotStep
    BY <1>1, SameHot DEF HotInv
  <1>3. ReadsOk'
    BY <1>1 DEF Inv, ReadsOk
  <1>4. CASE q' = IdleQuery
    <2>1. QueryInv'
      BY <1>1, <1>4, IdleInv
    <2> QED
      BY <1>1, <1>2, <1>3, <2>1, QueryStep
  <1>5. CASE q' # IdleQuery
    <2> PICK s : s = Head(q.todo)
      OBVIOUS
    <2> DEFINE rows == UNION {RowsOf(p) : p \in Stored(s)}
               keys == {p.key : p \in Stored(s)}
    <2>1. q' = [Collect(rows) EXCEPT !.todo = Tail(q.todo), !.covered = q.covered \cup keys]
      BY <1>5 DEF QueryCold, Collect, Stored
    <2>2. /\ q'.pc = "cold" /\ q'.inst = q.inst /\ q'.todo = Tail(q.todo)
          /\ q'.covered = q.covered \cup keys /\ q'.got = q.got \cup rows
          /\ q'.dup = (q.dup \/ rows \cap q.got # {})
          /\ q \in QTypes /\ q' = [pc |-> q'.pc, inst |-> q'.inst, todo |-> q'.todo,
                                    covered |-> q'.covered, got |-> q'.got, dup |-> q'.dup]
      <3>1. q \in QTypes
        BY <1>1 DEF QueryInv
      <3> HIDE DEF rows, keys
      <3> QED
        BY <1>1, <2>1, <3>1 DEF Collect, QTypes
    <2>3. /\ s \in Range(q.todo) /\ Tail(q.todo) \in Seq(Nat) /\ IsInjective(Tail(q.todo))
          /\ Range(Tail(q.todo)) = Range(q.todo) \ {s}
      BY <1>1, <2>2, TailFacts DEF QTypes, QueryInv
    <2>4. s \in DOMAIN segs /\ Range(q.todo) \subseteq DOMAIN segs
      BY <1>1, <2>3 DEF QueryInv, ColdPhase
    <2>5. /\ Stored(s) \subseteq PageTypes
          /\ \A p \in Stored(s) : p.key \in Keys /\ PageOk(p) /\ p.key \notin q.covered
      BY <1>1, <2>3, <2>4, StoredType DEF SegsInv, QueryInv, ColdPhase
    <2>6. \A r \in rows : r \in Rows /\ \E p \in Stored(s) : r.key = p.key /\ r \in RowsOf(p)
      BY <2>5, RowsOfFacts
    <2>7. \A r \in q.got : r.key \in q.covered
      BY <1>1 DEF QueryInv, ColdPhase
    <2>8. rows \cap q.got = {}
      BY <2>5, <2>6, <2>7
    <2>9. q' \in QTypes
      <3>1. rows \subseteq Rows /\ keys \subseteq Keys
        BY <2>5, <2>6
      <3>2. q'.got \subseteq Rows /\ q'.covered \subseteq Keys /\ q'.dup \in BOOLEAN
        BY <2>2, <2>8, <3>1 DEF QTypes
      <3>3. q'.pc \in QPcs /\ q'.inst \in Nat /\ q'.todo \in Seq(Nat)
        BY <2>2, <2>3 DEF QTypes, QPcs
      <3> HIDE DEF rows, keys
      <3> QED
        BY <2>2, <3>2, <3>3 DEF QTypes
    <2>10. ~q'.dup
      BY <1>1, <2>2, <2>8 DEF QueryInv
    <2>11. /\ must' \in [hot : SUBSET Rows, cold : SUBSET Rows]
           /\ must'.hot \subseteq HotRows(q.inst)' /\ must'.cold \subseteq must.cold
      BY <1>1, <2>2, TrackFacts
    <2>12. ASSUME NEW k \in q'.covered PROVE k.gen <= Gen(k.inst, k.chunk)' /\ Seen(k)'
      <3>1. CASE k \in q.covered
        <4>1. k.gen <= Gen(k.inst, k.chunk) /\ Seen(k)
          BY <1>1, <3>1 DEF QueryInv
        <4> QED
          BY <1>1, <2>2, <4>1 DEF Gen, Seen
      <3>2. CASE k \notin q.covered
        <4>1. PICK p \in Stored(s) : k = p.key
          BY <2>2, <3>2
        <4>2. RowsOf(p) \subseteq q'.got
          BY <2>2
        <4> QED
          BY <1>1, <2>5, <4>1, <4>2 DEF Gen, Seen, PageOk
      <3> QED
        BY <3>1, <3>2
    <2>13. ColdPhase'
      <3>1. \A t \in Range(q'.todo) : \A p \in Stored(t)' : p.key \notin q'.covered
        <4> SUFFICES ASSUME NEW t \in Range(q.todo), t # s, NEW p \in Stored(t)
                     PROVE p.key \notin q'.covered
          BY <1>1, <2>2, <2>3 DEF Stored
        <4>1. p.key \notin q.covered
          BY <1>1 DEF QueryInv, ColdPhase
        <4>2. p.key \notin keys
          BY <1>1, <2>4, KeysApart
        <4> QED
          BY <2>2, <4>1, <4>2
      <3>2. cp.open \in Range(q'.todo) => \A k \in q'.covered : Marked(k)'
        <4> SUFFICES ASSUME cp.open \in Range(q.todo), NEW k \in q'.covered PROVE Marked(k)
          BY <1>1, <2>2, <2>3 DEF Marked
        <4>1. k \in q.covered => Marked(k)
          BY <1>1 DEF QueryInv, ColdPhase
        <4>2. cp.open # 0
          BY <1>1, <2>4, LenProperties DEF SegsInv
        <4>3. cp.pc # "down"
          BY <1>1, <4>2 DEF PassInv
        <4>4. k \in keys => Marked(k)
          BY <1>1, <2>4, <4>3 DEF MarksOk
        <4> QED
          BY <2>2, <4>1, <4>4
      <3>3. \A r \in q'.got : r.key \in q'.covered
        BY <2>2, <2>6, <2>7
      <3>4. ASSUME NEW r \in must'.cold
            PROVE r \in q'.got \/ \E t \in Range(q'.todo) : RowAt(t, r)'
        <4>1. r \in q.got \/ \E t \in Range(q.todo) : RowAt(t, r)
          BY <1>1, <2>11 DEF QueryInv, ColdPhase
        <4>2. RowAt(s, r) => r \in rows
          BY DEF RowAt
        <4> QED
          BY <1>1, <2>2, <2>3, <4>1, <4>2 DEF RowAt, Stored
      <3>5. Range(q'.todo) \subseteq DOMAIN segs'
        BY <1>1, <2>2, <2>3, <2>4
      <3> QED
        BY <1>1, <3>1, <3>2, <3>3, <3>4, <3>5 DEF ColdPhase
    <2>14. Leased'
      BY <1>1, NoPins
    <2>15. QueryInv'
      BY <1>1, <2>2, <2>3, <2>9, <2>10, <2>11, <2>12, <2>13, <2>14
         DEF QueryInv, HotPhase, Awaited, InHot, QTook
    <2> QED
      BY <1>1, <1>2, <1>3, <2>15, QueryStep
  <1> QED
    BY <1>4, <1>5

\* The query turns to the ring: every row that has been in it is in a chunk it lists.
LEMMA QueryHotInv ==
  ASSUME Inv, QueryHot
  PROVE Inv'
  <1>1. /\ QueryQuiet /\ UNCHANGED <<hot, rd, left, cur, cp, segs, sealed, odd>> /\ Track
        /\ q.pc = "cold" /\ q.todo = <<>>
        /\ HotInv /\ QueryInv
    BY DEF QueryHot, QueryQuiet, Inv
  <1>2. HotInv' /\ HotStep
    BY <1>1, SameHot DEF HotInv
  <1>3. PICK todo \in Logical(q.inst) : q' = [q EXCEPT !.pc = "exclude", !.todo = todo]
    BY DEF QueryHot
  <1>4. /\ todo \in Seq(Chunks) /\ IsInjective(todo) /\ Range(todo) = WithRows(q.inst)
        /\ WithRows(q.inst) \subseteq Chunks
    BY LogicalFacts
  <1>5. todo \in Seq(Nat)
    <2>1. Chunks \subseteq Nat
      BY ColdAssumption DEF Chunks
    <2> QED
      BY <1>4, <2>1, WiderSeq
  <1>6. /\ q'.pc = "exclude" /\ q'.inst = q.inst /\ q'.todo = todo /\ q'.covered = q.covered
        /\ q'.got = q.got /\ q'.dup = q.dup /\ q' \in QTypes /\ q.inst \in Insts
    BY <1>1, <1>3, <1>5 DEF QueryInv, QTypes, QPcs
  <1>7. /\ must' \in [hot : SUBSET Rows, cold : SUBSET Rows]
        /\ must'.hot \subseteq HotRows(q.inst)' /\ must'.hot \subseteq must.hot
        /\ must'.cold \subseteq must.cold
    BY <1>1, <1>6, TrackFacts
  <1>8. \A k \in q.covered : k.gen <= Gen(k.inst, k.chunk)' /\ Seen(k)'
    BY <1>1, <1>6 DEF QueryInv, Gen, Seen
  <1>9. must'.cold \subseteq q'.got
    <2>1. Range(q.todo) = {}
      BY <1>1 DEF Range
    <2> QED
      BY <1>1, <1>6, <1>7, <2>1 DEF QueryInv, ColdPhase
  <1>10. \A r \in q.got : r.key \in q.covered
    BY <1>1 DEF QueryInv, ColdPhase
  <1>11. \A r \in must'.hot : r.key.chunk \in Range(todo)
    <2>1. must'.hot \subseteq HotRows(q.inst)
      BY <1>1, <1>6, <1>7 DEF HotRows
    <2> QED
      BY <1>1, <1>4, <1>6, <2>1, HotRowFacts
  <1>12. Leased'
    BY <1>1, NoPins
  <1>13. ColdPhase' /\ HotPhase' /\ Awaited'
    BY <1>4, <1>6, <1>9, <1>10, <1>11 DEF ColdPhase, HotPhase, Awaited, InHot
  <1>14. QueryInv'
    BY <1>1, <1>4, <1>6, <1>7, <1>8, <1>12, <1>13 DEF QueryInv, QTook
  <1>15. ReadsOk'
    BY <1>1 DEF Inv, ReadsOk
  <1> QED
    BY <1>1, <1>2, <1>14, <1>15, QueryStep

\* In the ring the query does not touch what it has covered.
LEMMA HotParts ==
  ASSUME HotInv, HotInv', HotStep, QueryInv, Track, q.pc \in InHot, q'.pc \in InHot \cup {"done"},
         q'.inst = q.inst, q'.covered = q.covered, q.got \subseteq q'.got, UNCHANGED odd
  PROVE /\ must' \in [hot : SUBSET Rows, cold : SUBSET Rows]
        /\ must'.hot \subseteq HotRows(q.inst)' /\ must'.hot \subseteq must.hot
        /\ must'.cold \subseteq q'.got
        /\ \A k \in q'.covered : k.gen <= Gen(k.inst, k.chunk)' /\ Seen(k)'
        /\ q.inst \in Insts /\ Range(q.todo) \subseteq Chunks /\ q \in QTypes
        /\ q.todo # <<>> => QChunk \in Chunks /\ QChunk \in Range(q.todo)
        /\ ColdPhase'
  <1>1. /\ must' \in [hot : SUBSET Rows, cold : SUBSET Rows]
        /\ must'.hot \subseteq HotRows(q.inst)' /\ must'.hot \subseteq must.hot
        /\ must'.cold \subseteq must.cold
    BY TrackFacts DEF InHot
  <1>2. q.inst \in Insts /\ Range(q.todo) \subseteq Chunks /\ q \in QTypes /\ must.cold \subseteq q.got
    BY DEF QueryInv, HotPhase, InHot
  <1>3. ASSUME NEW k \in q'.covered PROVE k.gen <= Gen(k.inst, k.chunk)' /\ Seen(k)'
    <2>1. k.gen <= Gen(k.inst, k.chunk) /\ Seen(k) /\ k \in Keys
      BY DEF QueryInv, QTypes
    <2>2. k.inst \in Insts /\ k.chunk \in Chunks /\ k.gen \in Nat
      BY <2>1 DEF Keys
    <2>3. k.gen <= Gen(k.inst, k.chunk)'
      BY <2>1, <2>2, GenTypes
    <2> QED
      BY <2>1, <2>3 DEF Seen, HotStep
  <1>4. q.todo # <<>> => QChunk \in Range(q.todo)
    BY <1>2, TailFacts DEF QTypes, QChunk
  <1>5. ColdPhase'
    BY DEF ColdPhase, InHot
  <1> QED
    BY <1>1, <1>2, <1>3, <1>4, <1>5

\* What every step of the query in the ring has to show.
LEMMA HotQuery ==
  ASSUME Inv, HotInv', HotStep, QueryQuiet, rd'["compactor"] = rd["compactor"], q.pc \in InHot,
         q'.pc \in InHot \cup {"done"}, q'.inst = q.inst, q'.covered = q.covered, q.got \subseteq q'.got,
         q' \in QTypes, ~q'.dup, IsInjective(q'.todo), ReadsOk',
         HotPhase', Leased', LeaseSlots >= 2 => Awaited'
  PROVE Inv'
  <1>1. /\ HotInv /\ QueryInv /\ Track /\ UNCHANGED odd
    BY DEF Inv, QueryQuiet
  <1>2. /\ must' \in [hot : SUBSET Rows, cold : SUBSET Rows]
        /\ must'.hot \subseteq HotRows(q.inst)'
        /\ \A k \in q'.covered : k.gen <= Gen(k.inst, k.chunk)' /\ Seen(k)'
        /\ q.inst \in Insts /\ ColdPhase'
    BY <1>1, HotParts
  <1>3. q'.pc # "idle"
    BY DEF InHot
  <1>4. QTook' \in [gen : Nat, n : Nat]
    BY DEF ReadsOk, QTook, Readers
  <1>5. QueryInv'
    BY <1>2, <1>3, <1>4 DEF QueryInv
  <1> QED
    BY <1>5, QueryStep

\* The state of a query in the ring, and that of the chunk it is at.
LEMMA HotFacts ==
  ASSUME Inv, q.pc \in InHot
  PROVE /\ HotInv /\ QueryInv /\ HotPhase /\ Leased /\ q \in QTypes /\ q.inst \in Insts
        /\ Range(q.todo) \subseteq Chunks /\ QTook \in [gen : Nat, n : Nat]
        /\ \A r \in must.hot : r \in HotRows(q.inst) /\ r.key.inst = q.inst /\ r.key.chunk \in Chunks
              /\ r.key = Key(q.inst, r.key.chunk, Gen(q.inst, r.key.chunk)) /\ r \in Rows
              /\ r.i > 0 /\ r.i <= Filled(q.inst, r.key.chunk) /\ r.i \in Nat
              /\ hot[q.inst].ch[r.key.chunk].state # "Empty"
        /\ q.todo # <<>> =>
              /\ QChunk \in Chunks /\ QChunk \in Range(q.todo)
              /\ Tail(q.todo) \in Seq(Nat) /\ IsInjective(Tail(q.todo))
              /\ Range(Tail(q.todo)) = Range(q.todo) \ {QChunk}
              /\ Gen(q.inst, QChunk) \in Nat /\ Filled(q.inst, QChunk) \in Nat
  <1>1. /\ HotInv /\ QueryInv /\ HotPhase /\ Leased /\ q \in QTypes /\ q.inst \in Insts
        /\ Range(q.todo) \subseteq Chunks /\ QTook \in [gen : Nat, n : Nat]
        /\ must.hot \subseteq HotRows(q.inst) /\ IsInjective(q.todo)
    BY DEF Inv, QueryInv, HotPhase, InHot
  <1>2. ASSUME NEW r \in must.hot
        PROVE /\ r \in HotRows(q.inst) /\ r.key.inst = q.inst /\ r.key.chunk \in Chunks
              /\ r.key = Key(q.inst, r.key.chunk, Gen(q.inst, r.key.chunk)) /\ r \in Rows
              /\ r.i > 0 /\ r.i <= Filled(q.inst, r.key.chunk) /\ r.i \in Nat
              /\ hot[q.inst].ch[r.key.chunk].state # "Empty"
    <2>1. r \in HotRows(q.inst)
      BY <1>1
    <2> QED
      BY <1>1, <2>1, HotRowFacts
  <1>3. ASSUME q.todo # <<>>
        PROVE /\ QChunk \in Chunks /\ QChunk \in Range(q.todo)
              /\ Tail(q.todo) \in Seq(Nat) /\ IsInjective(Tail(q.todo))
              /\ Range(Tail(q.todo)) = Range(q.todo) \ {QChunk}
              /\ Gen(q.inst, QChunk) \in Nat /\ Filled(q.inst, QChunk) \in Nat
    <2>1. q.todo \in Seq(Nat)
      BY <1>1 DEF QTypes
    <2>2. /\ QChunk \in Range(q.todo) /\ Tail(q.todo) \in Seq(Nat) /\ IsInjective(Tail(q.todo))
          /\ Range(Tail(q.todo)) = Range(q.todo) \ {QChunk}
      BY <1>1, <1>3, <2>1, TailFacts DEF QChunk
    <2>3. QChunk \in Chunks
      BY <1>1, <2>2
    <2>4. Gen(q.inst, QChunk) \in Nat /\ Filled(q.inst, QChunk) \in 0 .. ChunkRows /\ ChunkRows \in Nat
      BY <1>1, <2>3, HotType, ColdAssumption
    <2> QED
      BY <2>2, <2>3, <2>4
  <1> QED
    BY <1>1, <1>2, <1>3

\* A chunk that is covered is left out, and all that was sealed of it is there.
LEMMA QueryExcludeInv ==
  ASSUME Inv, QueryExclude
  PROVE Inv'
  <1>1. /\ QueryQuiet /\ UNCHANGED <<hot, rd, left, cur, cp, segs, sealed, odd>> /\ Track
        /\ q.pc = "exclude" /\ q.pc \in InHot /\ q.todo # <<>>
    BY DEF QueryExclude, QueryQuiet, InHot
  <1> PICK c : c = QChunk
    OBVIOUS
  <1>2. /\ HotInv /\ QueryInv /\ HotPhase /\ q \in QTypes /\ q.inst \in Insts
        /\ c \in Chunks /\ c \in Range(q.todo) /\ Tail(q.todo) \in Seq(Nat) /\ IsInjective(Tail(q.todo))
        /\ Range(q.todo) \subseteq Chunks /\ Range(Tail(q.todo)) = Range(q.todo) \ {c}
        /\ Gen(q.inst, c) \in Nat /\ Filled(q.inst, c) \in Nat
    BY <1>1, HotFacts
  <1>3. HotInv' /\ HotStep
    BY <1>1, <1>2, SameHot DEF HotInv
  <1>4. ReadsOk' /\ rd'["compactor"] = rd["compactor"]
    BY <1>1 DEF Inv, ReadsOk
  <1>5. Leased'
    BY <1>1, <1>2, NoPins
  <1>6. must'.hot \subseteq must.hot
    BY <1>1, <1>2, TrackFacts DEF QueryExclude, QSkip, QTypes
  <1> DEFINE k == Key(q.inst, c, Gen(q.inst, c))
  <1>7. CASE k \in q.covered
    <2>1. q' = [q EXCEPT !.pc = "exclude", !.todo = Tail(q.todo)]
      BY <1>7 DEF QueryExclude, Covered, QSkip, Gen
    <2>2. /\ q'.pc = "exclude" /\ q'.todo = Tail(q.todo) /\ q'.inst = q.inst /\ q'.covered = q.covered
          /\ q'.got = q.got /\ q'.dup = q.dup /\ q' \in QTypes
      BY <1>2, <2>1 DEF QTypes, QPcs
    <2>3. HotPhase'
      <3>1. must'.cold \subseteq q'.got
        BY <1>1, <1>2, <1>3, <2>2, HotParts DEF InHot
      <3>2. \A r \in q.got : r.key \in q.covered
                                \/ (r.key.inst = q.inst /\ r.key.chunk \notin Range(Tail(q.todo)))
        BY <1>1, <1>2 DEF HotPhase, InHot
      <3> QED
        BY <1>2, <2>2, <3>1, <3>2 DEF HotPhase
    <2>4. ASSUME LeaseSlots >= 2, NEW r \in must'.hot
          PROVE r.key \in odd \/ r \in q.got \/ r.key.chunk \in Range(Tail(q.todo))
      <3>1. r.key \in odd \/ r \in q.got \/ r.key.chunk \in Range(q.todo)
        BY <1>1, <1>2, <1>6, <2>4 DEF QueryInv, Awaited, InHot
      <3>2. CASE r.key.chunk = c
        <4>1. /\ r.key = k /\ r.i > 0 /\ r.i <= Filled(q.inst, c) /\ r.i \in Nat /\ r \in Rows
          BY <1>1, <1>6, <3>2, HotFacts
        <4>2. Seen(k)
          BY <1>2, <1>7 DEF QueryInv
        <4>3. CASE k \notin odd
          <5>1. PICK p \in sealed : p.key = k /\ RowsOf(p) \subseteq q.got
            BY <4>2, <4>3 DEF Seen
          <5>2. SealedOk(p)
            BY <1>2 DEF HotInv
          <5>3. k.inst = q.inst /\ k.chunk = c /\ k.gen = Gen(q.inst, c)
            BY DEF Key
          <5>4. p.n = Filled(q.inst, c)
            BY <5>1, <5>2, <5>3 DEF SealedOk
          <5>5. r \in RowsOf(p)
            BY <1>2, <4>1, <5>1, <5>4, InRowsOf
          <5> QED
            BY <5>1, <5>5
        <4> QED
          BY <4>1, <4>3
      <3> QED
        BY <1>2, <3>1, <3>2
    <2>5. LeaseSlots >= 2 => Awaited'
      BY <1>1, <2>2, <2>4 DEF Awaited, InHot
    <2>6. ~q'.dup
      BY <1>2, <2>2 DEF QueryInv
    <2> QED
      BY <1>1, <1>2, <1>3, <1>4, <1>5, <2>2, <2>3, <2>5, <2>6, HotQuery
  <1>8. CASE k \notin q.covered
    <2>1. q' = [q EXCEPT !.pc = "before"]
      BY <1>8 DEF QueryExclude, Covered, Gen
    <2>2. /\ q'.pc = "before" /\ q'.todo = q.todo /\ q'.inst = q.inst /\ q'.covered = q.covered
          /\ q'.got = q.got /\ q'.dup = q.dup /\ q' \in QTypes /\ q'.pc \in InHot
      BY <1>2, <2>1 DEF QTypes, QPcs, InHot
    <2>3. HotPhase'
      <3>1. must'.cold \subseteq q'.got
        BY <1>1, <1>2, <1>3, <2>2, HotParts
      <3>2. ASSUME NEW j \in q.covered, j.inst = q.inst, j.chunk = c PROVE j.gen < Gen(q.inst, c)'
        <4>1. j.gen <= Gen(q.inst, c) /\ j \in Keys
          BY <1>2, <3>2 DEF QueryInv, QTypes
        <4>2. j = Key(q.inst, c, j.gen) /\ j.gen \in Nat
          BY <3>2, <4>1 DEF Keys, Key
        <4>3. j.gen # Gen(q.inst, c)
          BY <1>8, <4>2
        <4>4. Gen(q.inst, c)' = Gen(q.inst, c)
          BY <1>1, <2>2 DEF Gen
        <4> QED
          BY <1>2, <4>1, <4>2, <4>3, <4>4
      <3>3. \A r \in q.got : r.key \in q.covered
                                \/ (r.key.inst = q.inst /\ r.key.chunk \notin Range(q.todo))
        BY <1>1, <1>2 DEF HotPhase, InHot
      <3>4. QChunk' = c
        BY <2>2 DEF QChunk
      <3>5. \A j \in q'.covered : j.inst = q'.inst /\ j.chunk = QChunk' => j.gen < Gen(q.inst, QChunk)'
        BY <2>2, <3>2, <3>4 DEF Gen
      <3> QED
        BY <1>1, <1>2, <2>2, <3>1, <3>3, <3>5 DEF HotPhase
    <2>4. LeaseSlots >= 2 => Awaited'
      <3>1. LeaseSlots >= 2 => \A r \in must.hot : r.key \in odd \/ r \in q.got
                                                      \/ r.key.chunk \in Range(q.todo)
        BY <1>1, <1>2 DEF QueryInv, Awaited, InHot
      <3> QED
        BY <1>1, <1>6, <2>2, <3>1 DEF Awaited
    <2>5. ~q'.dup /\ IsInjective(q'.todo)
      BY <1>2, <2>2 DEF QueryInv
    <2> QED
      BY <1>1, <1>3, <1>4, <1>5, <2>2, <2>3, <2>4, <2>5, HotQuery
  <1> QED
    BY <1>7, <1>8

LEMMA QueryBeforeInv ==
  ASSUME Inv, QueryBefore
  PROVE Inv'
  <1>1. /\ QueryQuiet /\ UNCHANGED <<hot, left, cur, cp, segs, sealed, odd>> /\ Track
        /\ q.pc = "before" /\ q.pc \in InHot
    BY DEF QueryBefore, QueryQuiet, InHot
  <1> PICK c : c = QChunk
    OBVIOUS
  <1>2. q.todo # <<>>
    BY <1>1 DEF Inv, QueryInv, HotPhase
  <1>3. /\ HotInv /\ QueryInv /\ HotPhase /\ q \in QTypes /\ q.inst \in Insts
        /\ c \in Chunks /\ Range(q.todo) \subseteq Chunks /\ Gen(q.inst, c) \in Nat
    BY <1>1, <1>2, HotFacts
  <1>4. HotInv' /\ HotStep
    BY <1>1, <1>3, SameHot DEF HotInv
  <1>5. rd'["query"] = [gen |-> Gen(q.inst, c), n |-> 0] /\ rd'["compactor"] = rd["compactor"]
        /\ ReadsOk'
    <2>1. rd' = [rd EXCEPT !["query"] = [gen |-> Gen(q.inst, c), n |-> 0]]
      BY DEF QueryBefore, GenBefore, Gen
    <2>2. rd \in [Readers -> [gen : Nat, n : Nat]]
      BY DEF Inv, ReadsOk
    <2> QED
      BY <1>3, <2>1, <2>2 DEF ReadsOk, Readers
  <1>6. /\ q'.pc = "pin" /\ q'.todo = q.todo /\ q'.inst = q.inst /\ q'.covered = q.covered
        /\ q'.got = q.got /\ q'.dup = q.dup /\ q' \in QTypes /\ q'.pc \in InHot
    BY <1>3 DEF QueryBefore, QTypes, QPcs, InHot
  <1>7. must'.hot \subseteq must.hot /\ must'.cold \subseteq q'.got
    BY <1>1, <1>3, <1>4, <1>6, HotParts
  <1>8. QChunk' = c /\ QTook'.gen = Gen(q.inst, c) /\ QTook' \in [gen : Nat, n : Nat]
    BY <1>3, <1>5, <1>6 DEF QChunk, QTook
  <1>9. HotPhase'
    <2>1. \A k \in q.covered : k.inst = q.inst /\ k.chunk = c => k.gen < Gen(q.inst, c)
      BY <1>1, <1>3 DEF HotPhase
    <2>2. \A r \in q.got : r.key \in q.covered
                              \/ (r.key.inst = q.inst /\ r.key.chunk \notin Range(q.todo))
      BY <1>1, <1>3 DEF HotPhase
    <2> QED
      BY <1>2, <1>3, <1>6, <1>7, <1>8, <2>1, <2>2 DEF HotPhase
  <1>10. LeaseSlots >= 2 => Awaited'
    <2>1. LeaseSlots >= 2 => \A r \in must.hot : r.key \in odd \/ r \in q.got
                                                    \/ r.key.chunk \in Range(q.todo)
      BY <1>1, <1>3 DEF QueryInv, Awaited
    <2>2. ASSUME NEW r \in must.hot, r.key.chunk = c PROVE r.key.gen = Gen(q.inst, c)
      <3>1. r.key = Key(q.inst, c, Gen(q.inst, c))
        BY <1>1, <2>2, HotFacts
      <3> QED
        BY <3>1 DEF Key
    <2> QED
      BY <1>1, <1>6, <1>7, <1>8, <2>1, <2>2 DEF Awaited
  <1>11. Leased'
    BY <1>1, <1>3, NoPins
  <1>12. ~q'.dup /\ IsInjective(q'.todo)
    BY <1>3, <1>6 DEF QueryInv
  <1> QED
    BY <1>1, <1>4, <1>5, <1>6, <1>8, <1>9, <1>10, <1>11, <1>12, HotQuery DEF QTook

\* With a lease for each reader, the query always gets one: it reads all that is in the chunk.
LEMMA QueryPinInv ==
  ASSUME Inv, QueryPin
  PROVE Inv'
  <1>1. /\ QueryQuiet /\ UNCHANGED <<left, cur, cp, segs, sealed, odd>> /\ Track
        /\ q.pc = "pin" /\ q.pc \in InHot /\ Pin("query", q.inst, QChunk) /\ "query" \in Readers
    BY DEF QueryPin, QueryQuiet, InHot, Readers
  <1> PICK c : c = QChunk
    OBVIOUS
  <1>2. q.todo # <<>>
    BY <1>1 DEF Inv, QueryInv, HotPhase
  <1>3. /\ HotInv /\ QueryInv /\ HotPhase /\ Leased /\ q \in QTypes /\ q.inst \in Insts
        /\ c \in Chunks /\ Range(q.todo) \subseteq Chunks /\ Gen(q.inst, c) \in Nat
        /\ Filled(q.inst, c) \in Nat /\ QTook \in [gen : Nat, n : Nat]
    BY <1>1, <1>2, HotFacts
  <1>4. /\ HotInv' /\ HotStep
        /\ \A i \in Insts, d \in Chunks :
              hot'[i].ch[d].pins =
                 IF i = q.inst /\ d = c /\ Pinnable(q.inst, c) THEN hot[i].ch[d].pins \cup {"query"}
                 ELSE hot[i].ch[d].pins
    <2>1. odd \subseteq odd' /\ odd' \subseteq Keys
      BY <1>1, <1>3 DEF HotInv
    <2> QED
      BY <1>1, <1>3, <2>1, PinHot
  <1>5. /\ rd'["compactor"] = rd["compactor"] /\ ReadsOk'
        /\ rd'["query"].gen = QTook.gen /\ (Pinnable(q.inst, c) => rd'["query"].n = Filled(q.inst, c))
    <2>1. rd \in [Readers -> [gen : Nat, n : Nat]]
      BY DEF Inv, ReadsOk
    <2>2. CASE Pinnable(q.inst, c)
      <3>1. rd' = [rd EXCEPT !["query"].n = Filled(q.inst, c)]
        BY <1>1, <2>2 DEF Pin, Filled
      <3> QED
        BY <1>3, <2>1, <2>2, <3>1 DEF QTook, ReadsOk, Readers
    <2>3. CASE ~Pinnable(q.inst, c)
      BY <1>1, <2>1, <2>3 DEF Pin, QTook, ReadsOk
    <2> QED
      BY <2>2, <2>3
  <1>6. /\ q'.pc = (IF Pinnable(q.inst, c) THEN "unpin" ELSE "after") /\ q'.todo = q.todo
        /\ q'.inst = q.inst /\ q'.covered = q.covered
        /\ q'.got = q.got /\ q'.dup = q.dup /\ q' \in QTypes /\ q'.pc \in InHot
    BY <1>3 DEF QueryPin, QTypes, QPcs, InHot
  <1>7. must'.hot \subseteq must.hot /\ must'.cold \subseteq q'.got
    BY <1>1, <1>3, <1>4, <1>6, HotParts
  <1>8. QChunk' = c /\ QTook'.gen = QTook.gen
    BY <1>5, <1>6 DEF QChunk, QTook
  <1>9. HotPhase'
    <2>1. \A k \in q.covered : k.inst = q.inst /\ k.chunk = c => k.gen < QTook.gen
      BY <1>1, <1>3 DEF HotPhase
    <2>2. \A r \in q.got : r.key \in q.covered
                              \/ (r.key.inst = q.inst /\ r.key.chunk \notin Range(q.todo))
      BY <1>1, <1>3 DEF HotPhase
    <2> QED
      BY <1>2, <1>3, <1>6, <1>7, <1>8, <2>1, <2>2 DEF HotPhase
  <1>10. ASSUME NEW i \in Insts, NEW d \in Chunks PROVE "query" \notin hot[i].ch[d].pins
    BY <1>1, <1>3 DEF Leased
  <1>11. Leased'
    <2> SUFFICES ASSUME NEW i \in Insts, NEW d \in Chunks, "query" \in hot'[i].ch[d].pins
                 PROVE q'.pc = "unpin" /\ i = q'.inst /\ d = QChunk'
      BY DEF Leased
    <2> QED
      BY <1>4, <1>6, <1>8, <1>10
  <1>12. ASSUME LeaseSlots >= 2, NEW r \in must'.hot, r.key.chunk = c
         PROVE Pinnable(q.inst, c) /\ r.key.gen = QTook.gen /\ r.i <= Filled(q.inst, c)
    <2>1. hot[q.inst].ch[c].state # "Empty" /\ r.i <= Filled(q.inst, c)
      BY <1>1, <1>7, <1>12, HotFacts
    <2>2. r.key.gen = QTook.gen
      BY <1>1, <1>3, <1>7, <1>12 DEF QueryInv, Awaited
    <2>3. hot[q.inst].ch[c].pins \subseteq {"compactor"}
      BY <1>3, <1>10, HotType DEF Readers
    <2>4. Cardinality(hot[q.inst].ch[c].pins) <= 1
      <3>1. IsFiniteSet({"compactor"}) /\ Cardinality({"compactor"}) = 1
        BY FS_Singleton
      <3> QED
        BY <2>3, <3>1, FS_Subset
    <2>5. Cardinality(hot[q.inst].ch[c].pins) \in Nat
      BY <1>3, <2>3, FiniteReaders, FS_Subset, FS_CardinalityType, HotType
    <2>6. LeaseSlots \in Nat
      BY ColdAssumption
    <2> QED
      BY <1>12, <2>1, <2>2, <2>4, <2>5, <2>6 DEF Pinnable
  <1>13. LeaseSlots >= 2 => Awaited'
    <2>1. LeaseSlots >= 2 => \A r \in must.hot : r.key \in odd \/ r \in q.got
                                                    \/ r.key.chunk \in Range(q.todo)
      BY <1>1, <1>3 DEF QueryInv, Awaited
    <2>2. LeaseSlots >= 2 => \A r \in must'.hot : r.key.chunk = c =>
             r.key.gen = QTook'.gen /\ r.i <= QTook'.n
      BY <1>5, <1>8, <1>12 DEF QTook
    <2> QED
      BY <1>1, <1>6, <1>7, <1>8, <2>1, <2>2 DEF Awaited, InHot
  <1>14. ~q'.dup /\ IsInjective(q'.todo)
    BY <1>3, <1>6 DEF QueryInv
  <1> QED
    BY <1>1, <1>4, <1>5, <1>6, <1>9, <1>11, <1>13, <1>14, HotQuery

LEMMA QueryUnpinInv ==
  ASSUME Inv, QueryUnpin
  PROVE Inv'
  <1>1. /\ QueryQuiet /\ UNCHANGED <<rd, left, cur, cp, segs, sealed, odd>> /\ Track
        /\ q.pc = "unpin" /\ q.pc \in InHot /\ Unpin("query", q.inst, QChunk) /\ "query" \in Readers
    BY DEF QueryUnpin, QueryQuiet, InHot, Readers
  <1> PICK c : c = QChunk
    OBVIOUS
  <1>2. q.todo # <<>>
    BY <1>1 DEF Inv, QueryInv, HotPhase
  <1>3. /\ HotInv /\ QueryInv /\ HotPhase /\ Leased /\ q \in QTypes /\ q.inst \in Insts
        /\ c \in Chunks /\ Range(q.todo) \subseteq Chunks /\ QTook \in [gen : Nat, n : Nat]
    BY <1>1, <1>2, HotFacts
  <1>4. /\ HotInv' /\ HotStep
        /\ \A i \in Insts, d \in Chunks :
              hot'[i].ch[d].pins = IF i = q.inst /\ d = c THEN hot[i].ch[d].pins \ {"query"}
                                   ELSE hot[i].ch[d].pins
    <2>1. HotInv /\ q.inst \in Insts /\ c \in Chunks /\ "query" \in Readers
      BY <1>1, <1>3
    <2>2. Unpin("query", q.inst, c) /\ UNCHANGED <<left, cur, sealed, odd>>
      BY <1>1
    <2> QED
      BY <2>1, <2>2, UnpinOne
  <1>5. /\ q'.pc = "after" /\ q'.todo = q.todo /\ q'.inst = q.inst /\ q'.covered = q.covered
        /\ q'.got = q.got /\ q'.dup = q.dup /\ q' \in QTypes /\ q'.pc \in InHot
    BY <1>3 DEF QueryUnpin, QTypes, QPcs, InHot
  <1>6. must'.hot \subseteq must.hot /\ must'.cold \subseteq q'.got
    BY <1>1, <1>3, <1>4, <1>5, HotParts
  <1>7. QChunk' = c /\ QTook' = QTook /\ ReadsOk'
    BY <1>1, <1>3, <1>5 DEF QChunk, QTook, ReadsOk, Inv
  <1>8. HotPhase'
    <2>1. \A k \in q.covered : k.inst = q.inst /\ k.chunk = c => k.gen < QTook.gen
      BY <1>1, <1>3 DEF HotPhase
    <2>2. \A r \in q.got : r.key \in q.covered
                              \/ (r.key.inst = q.inst /\ r.key.chunk \notin Range(q.todo))
      BY <1>1, <1>3 DEF HotPhase
    <2> QED
      BY <1>2, <1>3, <1>5, <1>6, <1>7, <2>1, <2>2 DEF HotPhase
  <1>9. Leased'
    <2> SUFFICES ASSUME NEW i \in Insts, NEW d \in Chunks, "query" \in hot'[i].ch[d].pins PROVE FALSE
      BY DEF Leased
    <2>1. "query" \in hot[i].ch[d].pins /\ ~(i = q.inst /\ d = c)
      BY <1>4
    <2> QED
      BY <1>3, <2>1 DEF Leased
  <1>10. LeaseSlots >= 2 => Awaited'
    <2>1. LeaseSlots >= 2 =>
            \A r \in must.hot : /\ r.key \in odd \/ r \in q.got \/ r.key.chunk \in Range(q.todo)
                                /\ r.key.chunk = c => r.key.gen = QTook.gen /\ r.i <= QTook.n
      BY <1>1, <1>3 DEF QueryInv, Awaited
    <2> QED
      BY <1>1, <1>5, <1>6, <1>7, <2>1 DEF Awaited
  <1>11. ~q'.dup /\ IsInjective(q'.todo)
    BY <1>3, <1>5 DEF QueryInv
  <1> QED
    BY <1>1, <1>4, <1>5, <1>7, <1>8, <1>9, <1>10, <1>11, HotQuery

\* A generation that moved takes the rows of the old one along: nothing that stayed is lost.
LEMMA QueryAfterInv ==
  ASSUME Inv, QueryAfter
  PROVE Inv'
  <1>1. /\ QueryQuiet /\ UNCHANGED <<hot, rd, left, cur, cp, segs, sealed, odd>> /\ Track
        /\ q.pc = "after" /\ q.pc \in InHot
    BY DEF QueryAfter, QueryQuiet, InHot
  <1> PICK c : c = QChunk
    OBVIOUS
  <1>2. q.todo # <<>>
    BY <1>1 DEF Inv, QueryInv, HotPhase
  <1>3. /\ HotInv /\ QueryInv /\ HotPhase /\ q \in QTypes /\ q.inst \in Insts
        /\ c \in Chunks /\ c \in Range(q.todo) /\ Tail(q.todo) \in Seq(Nat) /\ IsInjective(Tail(q.todo))
        /\ Range(q.todo) \subseteq Chunks /\ Range(Tail(q.todo)) = Range(q.todo) \ {c}
        /\ QTook \in [gen : Nat, n : Nat]
    BY <1>1, <1>2, HotFacts
  <1>4. HotInv' /\ HotStep
    BY <1>1, <1>3, SameHot DEF HotInv
  <1>5. ReadsOk' /\ rd'["compactor"] = rd["compactor"]
    BY <1>1 DEF Inv, ReadsOk
  <1>6. Leased'
    BY <1>1, <1>3, NoPins
  <1>7. \A r \in q.got : r.key \in q.covered
                            \/ (r.key.inst = q.inst /\ r.key.chunk \notin Range(q.todo))
    BY <1>1, <1>3 DEF HotPhase
  <1>8. LeaseSlots >= 2 =>
          \A r \in must.hot : /\ r.key \in odd \/ r \in q.got \/ r.key.chunk \in Range(q.todo)
                              /\ r.key.chunk = c => r.key.gen = QTook.gen /\ r.i <= QTook.n
    BY <1>1, <1>3 DEF QueryInv, Awaited
  <1> DEFINE k == Key(q.inst, c, QTook.gen)
             rows == RowsOf(Page(k, QTook.n))
  <1>9. CASE Gen(q.inst, c) # QTook.gen
    <2>1. q' = [q EXCEPT !.pc = "exclude", !.todo = Tail(q.todo)]
      BY <1>9 DEF QueryAfter, SameGen, QSkip, Gen, QTook
    <2>2. /\ q'.pc = "exclude" /\ q'.todo = Tail(q.todo) /\ q'.inst = q.inst /\ q'.covered = q.covered
          /\ q'.got = q.got /\ q'.dup = q.dup /\ q' \in QTypes /\ q'.pc \in InHot
      BY <1>3, <2>1 DEF QTypes, QPcs, InHot
    <2>3. must'.hot \subseteq must.hot /\ must'.cold \subseteq q'.got
      BY <1>1, <1>3, <1>4, <2>2, HotParts
    <2>4. HotPhase'
      BY <1>3, <1>7, <2>2, <2>3 DEF HotPhase
    <2>5. ASSUME NEW r \in must.hot, r.key.chunk = c PROVE r.key.gen # QTook.gen
      <3>1. r.key = Key(q.inst, c, Gen(q.inst, c))
        BY <1>1, <2>5, HotFacts
      <3> QED
        BY <1>9, <3>1 DEF Key
    <2>6. LeaseSlots >= 2 => Awaited'
      BY <1>1, <1>3, <1>8, <2>2, <2>3, <2>5 DEF Awaited
    <2>7. ~q'.dup
      BY <1>3, <2>2 DEF QueryInv
    <2> QED
      BY <1>1, <1>3, <1>4, <1>5, <1>6, <2>2, <2>4, <2>6, <2>7, HotQuery
  <1>10. CASE Gen(q.inst, c) = QTook.gen
    <2>1. q' = [Collect(rows) EXCEPT !.pc = "exclude", !.todo = Tail(q.todo)]
      BY <1>10 DEF QueryAfter, SameGen, Collect, Gen, QTook
    <2>2. k \in Keys /\ Page(k, QTook.n) \in PageTypes
      BY <1>3 DEF Key, Keys, Page, PageTypes
    <2>3. \A r \in rows : r.key = k /\ r \in Rows
      <3>1. Page(k, QTook.n).key = k
        BY DEF Page
      <3> QED
        BY <2>2, <3>1, RowsOfFacts
    <2>4. k.inst = q.inst /\ k.chunk = c /\ k.gen = QTook.gen /\ QTook.gen \in Nat /\ QTook.n \in Nat
      BY <1>3 DEF Key
    <2>5. k \notin q.covered
      <3>1. \A j \in q.covered : j.inst = q.inst /\ j.chunk = c => j.gen < QTook.gen
        BY <1>1, <1>3 DEF HotPhase
      <3> HIDE DEF k
      <3> QED
        BY <2>4, <3>1
    <2> HIDE DEF k, rows
    <2>6. rows \cap q.got = {}
      BY <1>3, <1>7, <2>3, <2>4, <2>5
    <2>7. /\ q'.pc = "exclude" /\ q'.todo = Tail(q.todo) /\ q'.inst = q.inst /\ q'.covered = q.covered
          /\ q'.got = q.got \cup rows /\ q'.dup = q.dup /\ q' \in QTypes /\ q'.pc \in InHot
      <3>1. Collect(rows) = [q EXCEPT !.got = q.got \cup rows, !.dup = q.dup \/ rows \cap q.got # {}]
        BY DEF Collect
      <3>2. (q.dup \/ rows \cap q.got # {}) = q.dup
        BY <1>3, <2>6 DEF QTypes
      <3>3. q' = [q EXCEPT !.got = q.got \cup rows, !.dup = q.dup, !.pc = "exclude",
                           !.todo = Tail(q.todo)]
        BY <1>3, <2>1, <3>1, <3>2 DEF QTypes
      <3>4. rows \subseteq Rows
        BY <2>3
      <3> QED
        BY <1>3, <3>3, <3>4 DEF QTypes, QPcs, InHot
    <2>8. must'.hot \subseteq must.hot /\ must'.cold \subseteq q'.got
      BY <1>1, <1>3, <1>4, <2>7, HotParts
    <2>9. HotPhase'
      <3>1. \A r \in q'.got : r.key \in q'.covered
                                 \/ (r.key.inst = q'.inst /\ r.key.chunk \notin Range(q'.todo))
        BY <1>3, <1>7, <2>3, <2>4, <2>7
      <3> QED
        BY <1>3, <2>7, <2>8, <3>1 DEF HotPhase
    <2>10. ASSUME LeaseSlots >= 2, NEW r \in must.hot, r.key.chunk = c PROVE r \in rows
      <3>1. r.key = Key(q.inst, c, Gen(q.inst, c)) /\ r \in Rows /\ r.i > 0
        BY <1>1, <2>10, HotFacts
      <3>2. r.i <= QTook.n
        BY <1>8, <2>10
      <3>3. Page(k, QTook.n).key = k /\ Page(k, QTook.n).n = QTook.n
        BY DEF Page
      <3>4. r.key = k
        BY <1>10, <3>1 DEF k
      <3> QED
        BY <2>4, <3>1, <3>2, <3>3, <3>4, InRowsOf DEF rows
    <2>11. LeaseSlots >= 2 => Awaited'
      BY <1>1, <1>3, <1>8, <2>7, <2>8, <2>10 DEF Awaited
    <2>12. ~q'.dup
      BY <1>3, <2>7 DEF QueryInv
    <2> QED
      BY <1>1, <1>3, <1>4, <1>5, <1>6, <2>7, <2>9, <2>11, <2>12, HotQuery
  <1> QED
    BY <1>9, <1>10

LEMMA QueryDoneInv ==
  ASSUME Inv, QueryDone
  PROVE Inv'
  <1>1. /\ QueryQuiet /\ UNCHANGED <<hot, rd, left, cur, cp, segs, sealed, odd>> /\ Track
        /\ q.pc = "exclude" /\ q.pc \in InHot /\ q.todo = <<>>
    BY DEF QueryDone, QueryQuiet, InHot
  <1>2. HotInv /\ QueryInv /\ q \in QTypes
    BY <1>1, HotFacts
  <1>3. HotInv' /\ HotStep
    BY <1>1, <1>2, SameHot DEF HotInv
  <1>4. ReadsOk' /\ rd'["compactor"] = rd["compactor"]
    BY <1>1 DEF Inv, ReadsOk
  <1>5. Leased'
    BY <1>1, <1>2, NoPins
  <1>6. /\ q'.pc = "done" /\ q'.todo = q.todo /\ q'.inst = q.inst /\ q'.covered = q.covered
        /\ q'.got = q.got /\ q'.dup = q.dup /\ q' \in QTypes
    BY <1>2 DEF QueryDone, QTypes, QPcs
  <1>7. must'.hot \subseteq must.hot /\ must'.cold \subseteq q'.got
    BY <1>1, <1>2, <1>3, <1>6, HotParts
  <1>8. HotPhase' /\ ~q'.dup /\ IsInjective(q'.todo)
    BY <1>2, <1>6 DEF HotPhase, InHot, QueryInv
  <1>9. LeaseSlots >= 2 => Awaited'
    <2>1. Range(q.todo) = {}
      BY <1>1 DEF Range
    <2>2. LeaseSlots >= 2 => \A r \in must.hot : r.key \in odd \/ r \in q.got
      BY <1>1, <1>2, <2>1 DEF QueryInv, Awaited
    <2> QED
      BY <1>1, <1>6, <1>7, <2>2 DEF Awaited, InHot
  <1> QED
    BY <1>1, <1>3, <1>4, <1>5, <1>6, <1>8, <1>9, HotQuery

LEMMA QueryInvStep ==
  ASSUME Inv, Query
  PROVE Inv'
  BY QueryColdInv, QueryHotInv, QueryExcludeInv, QueryBeforeInv, QueryPinInv, QueryUnpinInv,
     QueryAfterInv, QueryDoneInv DEF Query

----------------------------------------------------------------------------
(***************************************************************************)
(* The compactor.                                                          *)
(***************************************************************************)
\* What a step of the compactor has to show: the segments, the watermarks, the chunk it is at
\* and what a query that reads the segments still finds there.
LEMMA CompactorStep ==
  ASSUME Inv, HotInv', HotStep, PinsKept("query"), UNCHANGED q, Track, rd'["query"] = rd["query"],
         ReadsOk', SegsInv', MarksOk', PassInv', ColdPhase'
  PROVE Inv'
  <1>1. QueryInv'
    BY QueryKept DEF Inv
  <1> QED
    BY <1>1 DEF Inv

\* The segments and the watermarks rest.
LEMMA CalmStep ==
  ASSUME Inv, HotInv', HotStep, PinsKept("query"), UNCHANGED <<q, segs>>, Track,
         rd'["query"] = rd["query"], ReadsOk', PassInv', cp'.open = cp.open,
         cp'.seed = cp.seed, cp'.src = cp.src, cp'.mark = cp.mark,
         cp'.pc = "down" <=> cp.pc = "down"
  PROVE Inv'
  <1>1. HotInv /\ SegsInv /\ MarksOk /\ PassInv /\ QueryInv
    BY DEF Inv
  <1>2. SegsInv' /\ MarksOk'
    BY <1>1, SegsKept, MarksKept
  <1>3. ColdPhase'
    BY <1>1, ColdKept DEF Marked
  <1> QED
    BY <1>1, <1>2, <1>3, CompactorStep

\* Between two chunks there is nothing to show of what was read.
LEMMA BetweenChunks ==
  ASSUME cp' \in CpTypes, cp'.pc \in {"idle", "state", "enforce", "done"}, cp'.src <= cur',
         cp'.pc \in {"state", "enforce"} => cp'.src # 0, ReadsOk',
         cp'.open # 0 => cp'.open \in DOMAIN segs' /\ segs'[cp'.open].state = "open"
  PROVE PassInv'
  BY DEF PassInv, AtChunk, ReadsOk, Took, Readers

LEMMA SkipFacts ==
  ASSUME HotInv, PassInv, cp.todo # <<>>
  PROVE /\ Skip \in CpTypes /\ Skip.pc = "state" /\ Skip.todo = Tail(cp.todo)
        /\ Skip.src = cp.src /\ Skip.mark = cp.mark /\ Skip.seed = cp.seed /\ Skip.open = cp.open
  <1>1. cp \in CpTypes
    BY DEF PassInv
  <1>2. cp.todo \in Seq(Chunks)
    BY <1>1 DEF CpTypes
  <1>3. Tail(cp.todo) \in Seq(Chunks)
    BY <1>2, HeadTailProperties
  <1> QED
    BY <1>1, <1>3 DEF Skip, CpTypes, CpPcs

LEMMA SkipInv ==
  ASSUME Inv, cp.pc \in AtChunk \cup {"state"}, cp.todo # <<>>, cp' = Skip,
         UNCHANGED <<hot, segs, rd>>, CompactorQuiet
  PROVE Inv'
  <1>1. UNCHANGED <<hot, segs, rd, cur, q, left, sealed, odd>> /\ Track /\ HotInv /\ PassInv
    BY DEF CompactorQuiet, Inv
  <1>2. HotInv' /\ HotStep /\ PinsKept("query")
    BY <1>1, SameHot DEF HotInv
  <1>3. /\ cp' \in CpTypes /\ cp'.pc = "state" /\ cp'.src = cp.src /\ cp'.mark = cp.mark
        /\ cp'.seed = cp.seed /\ cp'.open = cp.open
    BY <1>1, SkipFacts
  <1>4. ReadsOk'
    BY <1>1 DEF Inv, ReadsOk
  <1>5. PassInv'
    <2>1. cp'.src <= cur' /\ cp'.src # 0
      BY <1>1, <1>3 DEF PassInv
    <2>2. cp'.open # 0 => cp'.open \in DOMAIN segs' /\ segs'[cp'.open].state = "open"
      BY <1>1, <1>3 DEF PassInv
    <2> QED
      BY <1>3, <1>4, <2>1, <2>2, BetweenChunks
  <1>6. cp.pc # "down"
    BY DEF AtChunk
  <1> QED
    BY <1>1, <1>2, <1>3, <1>4, <1>5, <1>6, CalmStep

\* The state of a compactor that is at a chunk.
LEMMA AtFacts ==
  ASSUME Inv, cp.pc \in AtChunk
  PROVE /\ HotInv /\ SegsInv /\ MarksOk /\ PassInv /\ QueryInv /\ cp \in CpTypes
        /\ cp.src \in Insts /\ cp.todo # <<>> /\ Chunk \in Chunks /\ cp.pc # "down"
        /\ Gen(cp.src, Chunk) \in Nat /\ Filled(cp.src, Chunk) \in Nat /\ RingOk(cp.src)
        /\ cp.mark[Chunk] \in Nat /\ cp.saw \in Nat /\ Took \in [gen : Nat, n : Nat]
        /\ rd \in [Readers -> [gen : Nat, n : Nat]] /\ cur \in Nat /\ cp.src \in Nat
        /\ cp.src # 0 /\ cp.src <= cur
  <1>1. /\ HotInv /\ SegsInv /\ MarksOk /\ PassInv /\ QueryInv
        /\ rd \in [Readers -> [gen : Nat, n : Nat]] /\ cp.pc # "down"
    BY DEF Inv, ReadsOk, AtChunk
  <1>2. cp.src # 0 /\ cp.todo # <<>> /\ Took \in [gen : Nat, n : Nat] /\ cp.src <= cur
    BY <1>1 DEF PassInv
  <1>3. cp \in CpTypes /\ cp.src \in Insts /\ Chunk \in Chunks /\ cur \in Nat
    BY <1>1, <1>2, SourceType
  <1>4. cp.mark[Chunk] \in Nat /\ cp.saw \in Nat /\ cp.src \in Nat
    BY <1>3 DEF CpTypes
  <1>5. Gen(cp.src, Chunk) \in Nat /\ Filled(cp.src, Chunk) \in 0 .. ChunkRows /\ ChunkRows \in Nat
        /\ RingOk(cp.src)
    BY <1>1, <1>3, HotType, ColdAssumption
  <1> QED
    BY <1>1, <1>2, <1>3, <1>4, <1>5

LEMMA CheckStateInv ==
  ASSUME Inv, CheckState
  PROVE Inv'
  <1>1. /\ UNCHANGED <<hot, segs, rd, cur, q, left, sealed, odd>> /\ Track /\ CompactorQuiet
        /\ HotInv /\ PassInv /\ cp.pc = "state" /\ cp.todo # <<>>
    BY DEF CheckState, CompactorQuiet, Inv
  <1>2. HotInv' /\ HotStep /\ PinsKept("query")
    BY <1>1, SameHot DEF HotInv
  <1>3. /\ cp \in CpTypes /\ cp.src \in Insts /\ Chunk \in Chunks /\ cp.src # 0 /\ cp.src <= cur
    BY <1>1, SourceType DEF PassInv
  <1>4. CASE hot[cp.src].ch[Chunk].state = "Sealed"
    <2>1. cp' = [cp EXCEPT !.pc = "gen", !.saw = Gen(cp.src, Chunk)]
      BY <1>4 DEF CheckState, Go, Gen
    <2>2. Closed(cp.src, Chunk) /\ Gen(cp.src, Chunk) \in Nat
      BY <1>1, <1>3, <1>4, HotType DEF Closed
    <2>3. /\ cp'.pc = "gen" /\ cp'.saw = Gen(cp.src, Chunk) /\ cp'.src = cp.src /\ cp'.todo = cp.todo
          /\ cp'.mark = cp.mark /\ cp'.seed = cp.seed /\ cp'.open = cp.open /\ cp' \in CpTypes
      BY <1>3, <2>1, <2>2 DEF CpTypes, CpPcs
    <2>4. /\ Gen(cp.src, Chunk)' = Gen(cp.src, Chunk) /\ (Closed(cp.src, Chunk)' <=> Closed(cp.src, Chunk))
      BY <1>1, <2>3 DEF Gen, Closed, NextOf, Chunk
    <2>5. PassInv'
      BY <1>1, <1>3, <2>2, <2>3, <2>4 DEF PassInv, AtChunk, Took
    <2>6. ReadsOk'
      BY <1>1 DEF Inv, ReadsOk
    <2> QED
      BY <1>1, <1>2, <2>3, <2>5, <2>6, CalmStep
  <1>5. CASE hot[cp.src].ch[Chunk].state # "Sealed"
    <2>1. cp' = Skip
      BY <1>5 DEF CheckState
    <2> QED
      BY <1>1, <2>1, SkipInv
  <1> QED
    BY <1>4, <1>5

LEMMA CheckGenInv ==
  ASSUME Inv, CheckGen
  PROVE Inv'
  <1>1. /\ UNCHANGED <<hot, segs, rd, cur, q, left, sealed, odd>> /\ Track /\ CompactorQuiet
        /\ cp.pc = "gen" /\ cp.pc \in AtChunk
    BY DEF CheckGen, CompactorQuiet, AtChunk
  <1>2. /\ HotInv /\ PassInv /\ cp \in CpTypes /\ cp.src \in Insts /\ cp.todo # <<>>
        /\ Chunk \in Chunks /\ Gen(cp.src, Chunk) \in Nat /\ cp.mark[Chunk] \in Nat
        /\ cp.src # 0 /\ cp.src <= cur
    BY <1>1, AtFacts
  <1>3. HotInv' /\ HotStep /\ PinsKept("query")
    BY <1>1, <1>2, SameHot DEF HotInv
  <1>4. CASE Gen(cp.src, Chunk) = 0 \/ Gen(cp.src, Chunk) <= cp.mark[Chunk]
    <2>1. cp' = Skip
      BY <1>4 DEF CheckGen, Gen
    <2> QED
      BY <1>1, <1>2, <2>1, SkipInv
  <1>5. CASE ~(Gen(cp.src, Chunk) = 0 \/ Gen(cp.src, Chunk) <= cp.mark[Chunk])
    <2>1. cp' = [cp EXCEPT !.pc = "before"]
      BY <1>5 DEF CheckGen, Gen
    <2>2. /\ cp'.pc = "before" /\ cp'.saw = cp.saw /\ cp'.src = cp.src /\ cp'.todo = cp.todo
          /\ cp'.mark = cp.mark /\ cp'.seed = cp.seed /\ cp'.open = cp.open /\ cp' \in CpTypes
      BY <1>2, <2>1 DEF CpTypes, CpPcs
    <2>3. /\ Gen(cp.src, Chunk)' = Gen(cp.src, Chunk) /\ (Closed(cp.src, Chunk)' <=> Closed(cp.src, Chunk))
          /\ Chunk' = Chunk
      BY <1>1, <2>2 DEF Gen, Closed, NextOf, Chunk
    <2>4. PassInv'
      BY <1>1, <1>2, <1>5, <2>2, <2>3 DEF PassInv, AtChunk, Took
    <2>5. ReadsOk'
      BY <1>1 DEF Inv, ReadsOk
    <2> QED
      BY <1>1, <1>3, <2>2, <2>4, <2>5, CalmStep
  <1> QED
    BY <1>4, <1>5

LEMMA BeforeInv ==
  ASSUME Inv, Before
  PROVE Inv'
  <1>1. /\ UNCHANGED <<hot, segs, cur, q, left, sealed, odd>> /\ Track
        /\ cp.pc = "before" /\ cp.pc \in AtChunk
        /\ rd' = [rd EXCEPT !["compactor"] = [gen |-> Gen(cp.src, Chunk), n |-> 0]]
        /\ cp' = [cp EXCEPT !.pc = "pin"]
    BY DEF Before, GenBefore, CompactorQuiet, AtChunk, Gen
  <1>2. /\ HotInv /\ PassInv /\ cp \in CpTypes /\ cp.src \in Insts /\ cp.todo # <<>>
        /\ Chunk \in Chunks /\ Gen(cp.src, Chunk) \in Nat /\ cp.mark[Chunk] \in Nat
        /\ cp.src # 0 /\ cp.src <= cur /\ rd \in [Readers -> [gen : Nat, n : Nat]]
    BY <1>1, AtFacts
  <1>3. HotInv' /\ HotStep /\ PinsKept("query")
    BY <1>1, <1>2, SameHot DEF HotInv
  <1>4. /\ ReadsOk' /\ rd'["query"] = rd["query"] /\ Took'.gen = Gen(cp.src, Chunk)
        /\ Took' \in [gen : Nat, n : Nat]
    BY <1>1, <1>2 DEF ReadsOk, Took, Readers
  <1>5. /\ cp'.pc = "pin" /\ cp'.saw = cp.saw /\ cp'.src = cp.src /\ cp'.todo = cp.todo
        /\ cp'.mark = cp.mark /\ cp'.seed = cp.seed /\ cp'.open = cp.open /\ cp' \in CpTypes
    BY <1>1, <1>2 DEF CpTypes, CpPcs
  <1>6. /\ Gen(cp.src, Chunk)' = Gen(cp.src, Chunk) /\ (Closed(cp.src, Chunk)' <=> Closed(cp.src, Chunk))
        /\ Chunk' = Chunk
    BY <1>1, <1>5 DEF Gen, Closed, NextOf, Chunk
  <1>7. PassInv'
    BY <1>1, <1>2, <1>4, <1>5, <1>6 DEF PassInv, AtChunk
  <1> QED
    BY <1>1, <1>3, <1>4, <1>5, <1>7, CalmStep

\* What the pin gives away: a chunk that still has the generation whose state was tested
\* is closed, and all of it is read; any other read is a fault of the history.
LEMMA PinChunkInv ==
  ASSUME Inv, PinChunk
  PROVE Inv'
  <1>1. /\ UNCHANGED <<segs, cur, q, left, sealed>> /\ Track /\ cp.pc = "pin" /\ cp.pc \in AtChunk
        /\ Pin("compactor", cp.src, Chunk) /\ "compactor" \in Readers
    BY DEF PinChunk, AtChunk, Readers
  <1>2. /\ HotInv /\ PassInv /\ cp \in CpTypes /\ cp.src \in Insts /\ cp.todo # <<>>
        /\ Chunk \in Chunks /\ cp.mark[Chunk] \in Nat /\ cp.saw \in Nat
        /\ cp.src # 0 /\ cp.src <= cur /\ rd \in [Readers -> [gen : Nat, n : Nat]]
    BY <1>1, AtFacts
  <1>3. odd' = (IF Pinnable(cp.src, Chunk) /\ Took.gen = cp.saw THEN odd
                ELSE odd \cup {Key(cp.src, Chunk, Took.gen)})
    BY DEF PinChunk, Took
  <1>4. odd \subseteq odd' /\ odd' \subseteq Keys
    <2>1. Key(cp.src, Chunk, Took.gen) \in Keys
      BY <1>2 DEF Key, Keys, Took, Readers
    <2> QED
      BY <1>2, <1>3, <2>1 DEF HotInv
  <1>5. /\ HotInv' /\ HotStep
        /\ \A j \in Insts, d \in Chunks :
              hot'[j].ch[d].pins = IF j = cp.src /\ d = Chunk /\ Pinnable(cp.src, Chunk)
                                   THEN hot[j].ch[d].pins \cup {"compactor"} ELSE hot[j].ch[d].pins
    BY <1>1, <1>2, <1>4, PinHot
  <1> PICK i \in Insts : i = cp.src
    BY <1>2
  <1> PICK c \in Chunks : c = Chunk
    BY <1>2
  <1> PICK g \in Nat : g = Took.gen
    BY <1>2 DEF Took, Readers
  <1>6. /\ g <= Gen(i, c) /\ g > cp.mark[c] /\ cp.saw <= Gen(i, c) /\ (cp.saw = Gen(i, c) => Closed(i, c))
        /\ Gen(i, c) > cp.mark[c]
    BY <1>1, <1>2 DEF PassInv
  <1>7. PinsKept("query")
    <2> SUFFICES ASSUME NEW j \in Insts, NEW d \in Chunks, "query" \in hot'[j].ch[d].pins
                 PROVE "query" \in hot[j].ch[d].pins
      BY DEF PinsKept
    <2>1. \/ hot'[j].ch[d].pins = hot[j].ch[d].pins
          \/ hot'[j].ch[d].pins = hot[j].ch[d].pins \cup {"compactor"}
      BY <1>5
    <2> QED
      BY <2>1
  <1>8. /\ rd'["query"] = rd["query"] /\ ReadsOk' /\ Took'.gen = g /\ Took' \in [gen : Nat, n : Nat]
        /\ Pinnable(i, c) => Took'.n = Filled(i, c)
    <2>1. CASE Pinnable(i, c)
      <3>1. rd' = [rd EXCEPT !["compactor"].n = Filled(i, c)]
        BY <1>1, <2>1 DEF Pin, Filled
      <3>2. Filled(i, c) \in Nat
        BY <1>1, AtFacts
      <3> QED
        BY <1>2, <2>1, <3>1, <3>2 DEF Took, ReadsOk, Readers
    <2>2. CASE ~Pinnable(i, c)
      BY <1>1, <1>2, <2>2 DEF Pin, Took, ReadsOk, Readers
    <2> QED
      BY <2>1, <2>2
  <1>9. /\ cp'.pc = (IF Pinnable(i, c) THEN "unpin" ELSE "after") /\ cp'.saw = cp.saw /\ cp'.src = i
        /\ cp'.todo = cp.todo /\ cp'.mark = cp.mark /\ cp'.seed = cp.seed /\ cp'.open = cp.open
        /\ cp' \in CpTypes
    BY <1>2 DEF PinChunk, CpTypes, CpPcs
  <1>10. /\ Gen(cp.src, Chunk)' = Gen(i, c)' /\ (Closed(cp.src, Chunk)' <=> Closed(i, c)')
         /\ Chunk' = c /\ TookKey' = Key(i, c, g)
    BY <1>8, <1>9 DEF Gen, Closed, NextOf, Chunk, TookKey
  <1>11. /\ Gen(i, c) \in Nat /\ Gen(i, c)' \in Nat /\ Gen(i, c) <= Gen(i, c)'
         /\ Gen(i, c)' = Gen(i, c) /\ Closed(i, c) => Closed(i, c)'
         /\ sealed' = sealed
    BY <1>1, <1>2, <1>5, GenTypes DEF HotStep
  <1>12. Key(i, c, g) \in odd' \/ g # Gen(i, c)' \/ Whole'
    <2>1. CASE Pinnable(i, c) /\ g = cp.saw /\ g = Gen(i, c)'
      <3>1. g = Gen(i, c) /\ Closed(i, c)
        BY <1>2, <1>6, <1>11, <2>1
      <3>2. Filled(i, c) > 0 /\ Page(Key(i, c, g), Filled(i, c)) \in sealed
        BY <1>2, <3>1 DEF HotInv, RingOk
      <3> QED
        BY <1>8, <1>10, <1>11, <2>1, <3>2 DEF Whole
    <2>2. CASE ~(Pinnable(i, c) /\ g = cp.saw)
      BY <1>3, <2>2
    <2> QED
      BY <2>1, <2>2
  <1>13. PassInv'
    <2>1. cp'.saw <= Gen(i, c)' /\ (cp'.saw = Gen(i, c)' => Closed(i, c)')
      BY <1>2, <1>6, <1>9, <1>11
    <2>2. Gen(i, c)' > cp'.mark[c] /\ g <= Gen(i, c)' /\ g > cp'.mark[c]
      BY <1>2, <1>6, <1>9, <1>11
    <2>3. cp'.src <= cur' /\ cp'.src # 0 /\ cp'.todo # <<>>
          /\ (cp'.open # 0 => cp'.open \in DOMAIN segs' /\ segs'[cp'.open].state = "open")
      BY <1>1, <1>2, <1>9 DEF PassInv
    <2> QED
      BY <1>8, <1>9, <1>10, <1>12, <2>1, <2>2, <2>3 DEF PassInv, AtChunk
  <1> QED
    BY <1>1, <1>5, <1>7, <1>8, <1>9, <1>13, CalmStep

LEMMA UnpinCompactor ==
  ASSUME HotInv, cp.src \in Insts, Chunk \in Chunks, "compactor" \in Readers,
         Unpin("compactor", cp.src, Chunk), UNCHANGED <<left, cur, sealed, odd>>
  PROVE HotInv' /\ HotStep /\ PinsKept("query")
  <1>1. /\ HotInv' /\ HotStep
        /\ \A i \in Insts, d \in Chunks :
              hot'[i].ch[d].pins = IF i = cp.src /\ d = Chunk THEN hot[i].ch[d].pins \ {"compactor"}
                                   ELSE hot[i].ch[d].pins
    BY UnpinOne
  <1> QED
    BY <1>1 DEF PinsKept

LEMMA UnpinChunkInv ==
  ASSUME Inv, UnpinChunk
  PROVE Inv'
  <1>1. /\ UNCHANGED <<segs, rd, cur, q, left, sealed, odd>> /\ Track
        /\ cp.pc = "unpin" /\ cp.pc \in AtChunk
        /\ Unpin("compactor", cp.src, Chunk) /\ "compactor" \in Readers
    BY DEF UnpinChunk, CompactorQuiet, AtChunk, Readers
  <1>2. /\ HotInv /\ PassInv /\ cp \in CpTypes /\ cp.src \in Insts /\ cp.todo # <<>>
        /\ Chunk \in Chunks /\ cp.mark[Chunk] \in Nat /\ cp.saw \in Nat
        /\ cp.src # 0 /\ cp.src <= cur /\ rd \in [Readers -> [gen : Nat, n : Nat]]
    BY <1>1, AtFacts
  <1>3. HotInv' /\ HotStep /\ PinsKept("query")
    BY <1>1, <1>2, UnpinCompactor
  <1> PICK i \in Insts : i = cp.src
    BY <1>2
  <1> PICK c \in Chunks : c = Chunk
    BY <1>2
  <1> PICK g \in Nat : g = Took.gen
    BY <1>2 DEF Took, Readers
  <1>4. /\ g <= Gen(i, c) /\ g > cp.mark[c] /\ cp.saw <= Gen(i, c) /\ (cp.saw = Gen(i, c) => Closed(i, c))
        /\ Gen(i, c) > cp.mark[c] /\ (TookKey \in odd \/ g # Gen(i, c) \/ Whole)
    BY <1>1, <1>2 DEF PassInv
  <1>5. /\ cp'.pc = "after" /\ cp'.saw = cp.saw /\ cp'.src = i
        /\ cp'.todo = cp.todo /\ cp'.mark = cp.mark /\ cp'.seed = cp.seed /\ cp'.open = cp.open
        /\ cp' \in CpTypes
    BY <1>2 DEF UnpinChunk, CpTypes, CpPcs
  <1>6. /\ Gen(cp.src, Chunk)' = Gen(i, c)' /\ (Closed(cp.src, Chunk)' <=> Closed(i, c)')
        /\ Chunk' = c /\ TookKey' = TookKey /\ Took' = Took /\ (Whole' <=> Whole) /\ ReadsOk'
    BY <1>1, <1>2, <1>5 DEF Gen, Closed, NextOf, Chunk, TookKey, Took, Whole, ReadsOk
  <1>7. /\ Gen(i, c) \in Nat /\ Gen(i, c)' \in Nat /\ Gen(i, c) <= Gen(i, c)'
        /\ Gen(i, c)' = Gen(i, c) /\ Closed(i, c) => Closed(i, c)'
    BY <1>1, <1>2, <1>3, GenTypes DEF HotStep
  <1>8. PassInv'
    <2>1. cp'.saw <= Gen(i, c)' /\ (cp'.saw = Gen(i, c)' => Closed(i, c)')
      BY <1>2, <1>4, <1>5, <1>7
    <2>2. /\ Gen(i, c)' > cp'.mark[c] /\ g <= Gen(i, c)' /\ g > cp'.mark[c]
          /\ (TookKey' \in odd' \/ g # Gen(i, c)' \/ Whole')
      BY <1>1, <1>2, <1>4, <1>5, <1>6, <1>7
    <2>3. cp'.src <= cur' /\ cp'.src # 0 /\ cp'.todo # <<>> /\ Took' \in [gen : Nat, n : Nat]
          /\ (cp'.open # 0 => cp'.open \in DOMAIN segs' /\ segs'[cp'.open].state = "open")
      BY <1>1, <1>2, <1>5, <1>6 DEF PassInv
    <2> QED
      BY <1>5, <1>6, <2>1, <2>2, <2>3 DEF PassInv, AtChunk
  <1> QED
    BY <1>1, <1>3, <1>5, <1>6, <1>8, CalmStep

\* The watermark of a chunk moves up to what was read of it.
LEMMA MarkUp ==
  ASSUME HotInv, PassInv, NEW i \in Insts, NEW c \in Chunks, NEW g \in Nat, i = cp.src, g > cp.mark[c],
         cp'.src = i, cp'.seed = cp.seed, cp'.mark = [cp.mark EXCEPT ![c] = g]
  PROVE /\ \A k \in Keys : Marked(k) => Marked(k)'
        /\ \A d \in Chunks : cp'.mark[d] = IF d = c THEN g ELSE cp.mark[d]
  <1>1. cp.mark \in [Chunks -> Nat]
    BY SourceType DEF CpTypes
  <1>2. \A d \in Chunks : cp'.mark[d] = IF d = c THEN g ELSE cp.mark[d]
    BY <1>1
  <1>3. ASSUME NEW k \in Keys, Marked(k) PROVE Marked(k)'
    <2>1. k.gen \in Nat /\ k.chunk \in Chunks /\ cp.mark[k.chunk] \in Nat
      BY <1>1 DEF Keys
    <2>2. k.inst = cp.src => k.gen <= cp'.mark[k.chunk]
      BY <1>1, <1>2, <1>3, <2>1 DEF Marked
    <2> QED
      BY <1>3, <2>2 DEF Marked
  <1> QED
    BY <1>2, <1>3

LEMMA MarksUp ==
  ASSUME HotInv, PassInv, MarksOk, NEW i \in Insts, NEW c \in Chunks, NEW g \in Nat, i = cp.src,
         g > cp.mark[c], g <= Gen(i, c), UNCHANGED hot,
         cp'.src = i, cp'.seed = cp.seed, cp'.mark = [cp.mark EXCEPT ![c] = g],
         \A k \in Keys : Accounted(k) => Accounted(k)', Accounted(Key(i, c, g))',
         \A s \in DOMAIN segs' : \A p \in Stored(s)' : Marked(p.key)'
  PROVE MarksOk'
  <1>1. /\ cp.seed \in [Insts -> [Chunks -> Nat]] /\ cp.mark \in [Chunks -> Nat] /\ i # 0
    BY SourceType DEF CpTypes, Insts
  <1>2. \A d \in Chunks : cp'.mark[d] = IF d = c THEN g ELSE cp.mark[d]
    BY MarkUp
  <1>3. \A j \in Insts, d \in Chunks : Gen(j, d)' = Gen(j, d)
    BY DEF Gen
  <1>4. ASSUME NEW j \in Insts, NEW d \in Chunks
        PROVE (cp.seed[j][d] <= Gen(j, d) /\ (j > cp.src => Accounted(Key(j, d, cp.seed[j][d]))))'
    <2> PICK m \in Nat : m = cp.seed[j][d]
      BY <1>1
    <2>1. cp'.seed[j][d] = m /\ cp'.src = cp.src /\ Key(j, d, m) \in Keys
      BY DEF Key, Keys
    <2>2. m <= Gen(j, d)' /\ (j > cp.src => Accounted(Key(j, d, m))')
      BY <1>3, <2>1 DEF MarksOk
    <2> QED
      BY <2>1, <2>2
  <1>5. ASSUME NEW d \in Chunks
        PROVE (cp.mark[d] <= Gen(cp.src, d) /\ Accounted(Key(cp.src, d, cp.mark[d])))'
    <2>1. CASE d = c
      <3>1. cp'.mark[d] = g /\ cp'.src = i
        BY <1>2, <2>1
      <3>2. g <= Gen(i, d)' /\ Accounted(Key(i, d, g))'
        <4>1. Gen(i, d)' = Gen(i, d)
          BY <1>3
        <4> QED
          BY <2>1, <4>1
      <3> QED
        BY <3>1, <3>2
    <2>2. CASE d # c
      <3> PICK m \in Nat : m = cp.mark[d]
        BY <1>1
      <3>1. cp'.mark[d] = m /\ cp'.src = i /\ Key(i, d, m) \in Keys
        BY <1>2, <2>2 DEF Key, Keys
      <3>2. m <= Gen(i, d)' /\ Accounted(Key(i, d, m))'
        BY <1>1, <1>3, <3>1 DEF MarksOk
      <3> QED
        BY <3>1, <3>2
    <2> QED
      BY <2>1, <2>2
  <1> QED
    BY <1>4, <1>5 DEF MarksOk

\* A chunk without rows moves the watermark though nothing is stored: a fault of the history.
LEMMA CheckAfterInv ==
  ASSUME Inv, CheckAfter
  PROVE Inv'
  <1>1. /\ UNCHANGED <<hot, segs, rd, cur, q, left, sealed, odd>> /\ Track /\ CompactorQuiet
        /\ cp.pc = "after" /\ cp.pc \in AtChunk
    BY DEF CheckAfter, CompactorQuiet, AtChunk
  <1>2. /\ HotInv /\ SegsInv /\ MarksOk /\ PassInv /\ QueryInv /\ cp \in CpTypes
        /\ cp.src \in Insts /\ cp.todo # <<>> /\ Chunk \in Chunks /\ cp.src # 0 /\ cp.src <= cur
        /\ Gen(cp.src, Chunk) \in Nat /\ Took \in [gen : Nat, n : Nat] /\ cp.mark[Chunk] \in Nat
        /\ cp.pc # "down"
    BY <1>1, AtFacts
  <1>3. HotInv' /\ HotStep /\ PinsKept("query")
    BY <1>1, <1>2, SameHot DEF HotInv
  <1>4. ReadsOk' /\ rd'["query"] = rd["query"]
    BY <1>1 DEF Inv, ReadsOk
  <1>5. /\ Took.gen <= Gen(cp.src, Chunk) /\ Took.gen > cp.mark[Chunk]
        /\ TookKey \in odd \/ Took.gen # Gen(cp.src, Chunk) \/ Whole
    BY <1>1, <1>2 DEF PassInv
  <1>6. CASE Gen(cp.src, Chunk) # Took.gen
    <2>1. cp' = Skip
      BY <1>6 DEF CheckAfter, SameGen, Gen, Took
    <2> QED
      BY <1>1, <1>2, <2>1, SkipInv
  <1>7. CASE Gen(cp.src, Chunk) = Took.gen /\ Took.n = 0
    <2>1. cp' = [Skip EXCEPT !.mark[Chunk] = Took.gen]
      BY <1>7 DEF CheckAfter, SameGen, Gen, Took
    <2>2. /\ Skip \in CpTypes /\ Skip.pc = "state" /\ Skip.todo = Tail(cp.todo)
          /\ Skip.src = cp.src /\ Skip.mark = cp.mark /\ Skip.seed = cp.seed /\ Skip.open = cp.open
      BY <1>2, SkipFacts
    <2>3. /\ cp' \in CpTypes /\ cp'.pc = "state" /\ cp'.src = cp.src /\ cp'.seed = cp.seed
          /\ cp'.open = cp.open /\ cp'.mark = [cp.mark EXCEPT ![Chunk] = Took.gen]
      BY <1>2, <2>1, <2>2 DEF CpTypes
    <2> PICK i \in Insts : i = cp.src
      BY <1>2
    <2> PICK c \in Chunks : c = Chunk
      BY <1>2
    <2> PICK g \in Nat : g = Took.gen
      BY <1>2
    <2>4. Accounted(Key(i, c, g))'
      <3>1. Key(i, c, g) \in odd
        BY <1>5, <1>7 DEF Whole, TookKey
      <3> QED
        BY <1>1, <3>1 DEF Accounted
    <2>5. \A k \in Keys : Marked(k) => Marked(k)'
      BY <1>2, <1>5, <2>3, MarkUp
    <2>6. \A k \in Keys : Accounted(k) => Accounted(k)'
      BY <1>1 DEF Accounted, Archived
    <2>7. \A s \in DOMAIN segs' : \A p \in Stored(s)' : Marked(p.key)'
      <3> SUFFICES ASSUME NEW s \in DOMAIN segs, NEW p \in Stored(s) PROVE Marked(p.key)'
        BY <1>1 DEF Stored
      <3>1. Marked(p.key) /\ p.key \in Keys
        BY <1>2, StoredType DEF MarksOk
      <3> QED
        BY <2>5, <3>1
    <2>8. MarksOk'
      BY <1>1, <1>2, <1>5, <2>3, <2>4, <2>6, <2>7, MarksUp
    <2>9. PassInv'
      <3>1. cp'.src <= cur' /\ cp'.src # 0
            /\ (cp'.open # 0 => cp'.open \in DOMAIN segs' /\ segs'[cp'.open].state = "open")
        BY <1>1, <1>2, <2>3 DEF PassInv
      <3> QED
        BY <1>4, <2>3, <3>1, BetweenChunks
    <2>10. SegsInv' /\ ColdPhase'
      BY <1>1, <1>2, <1>3, <2>3, <2>5, SegsKept, ColdKept
    <2> QED
      BY <1>1, <1>3, <1>4, <2>8, <2>9, <2>10, CompactorStep
  <1>8. CASE Gen(cp.src, Chunk) = Took.gen /\ Took.n # 0
    <2>1. cp' = [cp EXCEPT !.pc = "append"]
      BY <1>8 DEF CheckAfter, SameGen, Gen, Took
    <2>2. /\ cp'.pc = "append" /\ cp'.saw = cp.saw /\ cp'.src = cp.src /\ cp'.todo = cp.todo
          /\ cp'.mark = cp.mark /\ cp'.seed = cp.seed /\ cp'.open = cp.open /\ cp' \in CpTypes
      BY <1>2, <2>1 DEF CpTypes, CpPcs
    <2>3. /\ Gen(cp.src, Chunk)' = Gen(cp.src, Chunk) /\ Chunk' = Chunk /\ Took' = Took
          /\ TookKey' = TookKey /\ (Whole' <=> Whole)
      BY <1>1, <2>2 DEF Gen, Chunk, Took, TookKey, Whole
    <2>4. Took.n > 0
      BY <1>2, <1>8
    <2>5. PassInv'
      BY <1>1, <1>2, <1>5, <1>8, <2>2, <2>3, <2>4 DEF PassInv, AtChunk
    <2> QED
      BY <1>1, <1>2, <1>3, <1>4, <2>2, <2>5, CalmStep
  <1> QED
    BY <1>6, <1>7, <1>8

\* A pass over a new table starts with what was primed for it; the marks of the old one go.
LEMMA StartPassInv ==
  ASSUME Inv, StartPass
  PROVE Inv'
  <1>1. /\ UNCHANGED <<hot, segs, rd, cur, q, left, sealed, odd>> /\ Track /\ cp.pc = "idle"
        /\ HotInv /\ SegsInv /\ MarksOk /\ PassInv /\ QueryInv
    BY DEF StartPass, CompactorQuiet, Inv
  <1>2. /\ cp \in CpTypes /\ cur \in Insts /\ cur \in Nat /\ cp.src \in Nat /\ cp.src <= cur
        /\ cp.seed \in [Insts -> [Chunks -> Nat]] /\ cp.mark \in [Chunks -> Nat] /\ cur # 0
    BY <1>1, SourceType DEF HotInv, PassInv, CpTypes, Insts
  <1>3. HotInv' /\ HotStep /\ PinsKept("query")
    BY <1>1, SameHot DEF HotInv
  <1>4. ReadsOk' /\ rd'["query"] = rd["query"]
    BY <1>1 DEF Inv, ReadsOk
  <1>5. PICK todo \in Logical(cur) :
           cp' = [cp EXCEPT !.pc = "state", !.todo = todo, !.final = cp.stop, !.src = cur,
                            !.mark = IF cp.src = cur THEN cp.mark ELSE SeedOf(cur)]
    BY DEF StartPass
  <1>6. todo \in Seq(Chunks)
    BY LogicalFacts
  <1> DEFINE mark == IF cp.src = cur THEN cp.mark ELSE cp.seed[cur]
  <1>7. mark \in [Chunks -> Nat] /\ cp' = [cp EXCEPT !.pc = "state", !.todo = todo, !.final = cp.stop,
                                                      !.src = cur, !.mark = mark]
    BY <1>2, <1>5 DEF SeedOf
  <1>8. /\ cp'.pc = "state" /\ cp'.src = cur /\ cp'.mark = mark /\ cp'.seed = cp.seed
        /\ cp'.open = cp.open /\ cp' \in CpTypes
    <2> HIDE DEF mark
    <2> QED
      BY <1>2, <1>6, <1>7 DEF CpTypes, CpPcs
  <1>9. PassInv'
    <2>1. cp'.src <= cur' /\ cp'.src # 0
          /\ (cp'.open # 0 => cp'.open \in DOMAIN segs' /\ segs'[cp'.open].state = "open")
      BY <1>1, <1>2, <1>8 DEF PassInv
    <2> QED
      BY <1>4, <1>8, <2>1, BetweenChunks
  <1>10. ASSUME NEW k \in Keys, Marked(k) PROVE Marked(k)'
    <2>1. k.inst \in Insts /\ k.inst \in Nat /\ k.chunk \in Chunks
      BY DEF Keys, Insts
    <2>2. k.inst = cur => k.gen <= mark[k.chunk]
      BY <1>2, <1>10, <2>1 DEF Marked
    <2>3. k.inst > cur => k.gen <= cp.seed[k.inst][k.chunk]
      BY <1>2, <1>10, <2>1 DEF Marked
    <2> QED
      BY <1>8, <2>2, <2>3 DEF Marked
  <1>11. SegsInv' /\ ColdPhase'
    BY <1>1, <1>3, <1>8, <1>10, SegsKept, ColdKept
  <1>12. MarksOk'
    <2>1. \A i \in Insts, c \in Chunks : Gen(i, c)' = Gen(i, c)
      BY <1>1 DEF Gen
    <2>2. \A k \in Keys : Accounted(k) => Accounted(k)'
      BY <1>1 DEF Accounted, Archived
    <2>3. ASSUME NEW i \in Insts, NEW c \in Chunks
          PROVE (cp.seed[i][c] <= Gen(i, c) /\ (i > cp.src => Accounted(Key(i, c, cp.seed[i][c]))))'
      <3> PICK m \in Nat : m = cp.seed[i][c]
        BY <1>2
      <3>1. cp'.seed[i][c] = m /\ cp'.src = cur /\ Key(i, c, m) \in Keys
        BY <1>8 DEF Key, Keys
      <3>2. m <= Gen(i, c) /\ (i > cp.src => Accounted(Key(i, c, m)))
        BY <1>1 DEF MarksOk
      <3>3. m <= Gen(i, c)'
        BY <2>1, <3>2
      <3>4. i > cur => i > cp.src
        BY <1>2 DEF Insts
      <3>5. i > cur => Accounted(Key(i, c, m))'
        BY <2>2, <3>1, <3>2, <3>4
      <3> QED
        BY <3>1, <3>3, <3>5
    <2>4. ASSUME NEW c \in Chunks
          PROVE (cp.mark[c] <= Gen(cp.src, c) /\ Accounted(Key(cp.src, c, cp.mark[c])))'
      <3> PICK i \in Insts : i = cur
        BY <1>2
      <3> PICK m \in Nat : m = mark[c]
        BY <1>7
      <3>1. cp'.mark[c] = m /\ cp'.src = i /\ Key(i, c, m) \in Keys
        BY <1>8 DEF Key, Keys
      <3>2. m <= Gen(i, c) /\ Accounted(Key(i, c, m))
        <4>1. CASE cp.src = cur
          BY <1>1, <1>2, <4>1 DEF MarksOk
        <4>2. CASE cp.src # cur
          <5>1. m = cp.seed[i][c] /\ i > cp.src
            BY <1>2, <4>2
          <5> QED
            BY <1>1, <5>1 DEF MarksOk
        <4> QED
          BY <4>1, <4>2
      <3>3. m <= Gen(i, c)' /\ Accounted(Key(i, c, m))'
        BY <2>1, <2>2, <3>1, <3>2
      <3> QED
        BY <3>1, <3>3
    <2>5. ASSUME NEW s \in DOMAIN segs', NEW p \in Stored(s)' PROVE Marked(p.key)'
      <3>1. s \in DOMAIN segs /\ p \in Stored(s)
        BY <1>1, <2>5 DEF Stored
      <3>2. Marked(p.key) /\ p.key \in Keys
        BY <1>1, <3>1, StoredType DEF MarksOk
      <3> QED
        BY <1>10, <3>2
    <2> QED
      BY <2>3, <2>4, <2>5 DEF MarksOk
  <1> QED
    BY <1>1, <1>3, <1>4, <1>9, <1>11, <1>12, CompactorStep

LEMMA StopInv ==
  ASSUME Inv, Stop
  PROVE Inv'
  <1>1. /\ UNCHANGED <<hot, segs, rd, cur, q, left, sealed, odd>> /\ Track
        /\ HotInv /\ PassInv /\ cp \in CpTypes /\ cp.pc # "down"
        /\ cp' = [cp EXCEPT !.stop = TRUE]
    BY DEF Stop, CompactorQuiet, Inv, PassInv
  <1>2. HotInv' /\ HotStep /\ PinsKept("query")
    BY <1>1, SameHot DEF HotInv
  <1>3. ReadsOk' /\ rd'["query"] = rd["query"] /\ rd'["compactor"] = rd["compactor"]
    BY <1>1 DEF Inv, ReadsOk
  <1>4. /\ cp' \in CpTypes /\ cp'.pc = cp.pc /\ cp'.src = cp.src /\ cp'.todo = cp.todo
        /\ cp'.mark = cp.mark /\ cp'.open = cp.open /\ cp'.saw = cp.saw /\ cp'.seed = cp.seed
    BY <1>1 DEF CpTypes
  <1>5. cp.open # 0 => cp.open \in DOMAIN segs' /\ segs'[cp.open].state = "open"
    BY <1>1 DEF PassInv
  <1>6. PassInv'
    BY <1>1, <1>2, <1>3, <1>4, <1>5, PassKept
  <1> QED
    BY <1>1, <1>2, <1>3, <1>4, <1>6, CalmStep

LEMMA NewFacts ==
  ASSUME NEW seed \in [Insts -> [Chunks -> Nat]]
  PROVE /\ NewCompactor(seed) \in CpTypes /\ NewCompactor(seed).pc = "idle"
        /\ NewCompactor(seed).src = 0 /\ NewCompactor(seed).open = 0 /\ NewCompactor(seed).seed = seed
  BY DEF NewCompactor, CpTypes, CpPcs

\* The marks and the open segment die with the compactor, what it stored does not.
LEMMA CrashInv ==
  ASSUME Inv, Crash
  PROVE Inv'
  <1>1. /\ UNCHANGED <<cur, segs, q, sealed, odd>> /\ Track /\ cp.pc # "down"
        /\ HotInv /\ SegsInv /\ MarksOk /\ PassInv /\ QueryInv
        /\ left' = [left EXCEPT !.crashes = left.crashes - 1] /\ left.crashes > 0 /\ left \in Lefts
        /\ rd' = [rd EXCEPT !["compactor"] = NoRead] /\ rd \in [Readers -> [gen : Nat, n : Nat]]
    BY DEF Crash, Inv, HotInv, ReadsOk
  <1>2. /\ hot' \in [Insts -> Rings]
        /\ \A i \in Insts : hot'[i].wc = hot[i].wc /\ hot'[i].hidden = hot[i].hidden
        /\ \A i \in Insts, c \in Chunks :
              /\ hot'[i].ch[c].state = hot[i].ch[c].state /\ hot'[i].ch[c].gen = hot[i].ch[c].gen
              /\ hot'[i].ch[c].n = hot[i].ch[c].n
              /\ hot'[i].ch[c].pins = hot[i].ch[c].pins \ {"compactor"}
    <2> DEFINE ring(i) ==
          [hot[i] EXCEPT !.ch =
             [c \in Chunks |-> [hot[i].ch[c] EXCEPT !.pins = hot[i].ch[c].pins \ {"compactor"}]]]
    <2>1. hot' = [i \in Insts |-> ring(i)]
      BY DEF Crash
    <2>2. ASSUME NEW i \in Insts
          PROVE /\ ring(i) \in Rings /\ ring(i).wc = hot[i].wc /\ ring(i).hidden = hot[i].hidden
                /\ \A c \in Chunks :
                      /\ ring(i).ch[c].state = hot[i].ch[c].state /\ ring(i).ch[c].gen = hot[i].ch[c].gen
                      /\ ring(i).ch[c].n = hot[i].ch[c].n
                      /\ ring(i).ch[c].pins = hot[i].ch[c].pins \ {"compactor"}
      <3> DEFINE x(c) == [hot[i].ch[c] EXCEPT !.pins = hot[i].ch[c].pins \ {"compactor"}]
                 ch == [c \in Chunks |-> x(c)]
      <3>1. hot[i] \in Rings /\ \A c \in Chunks : hot[i].ch[c] \in ChunkTypes
        BY <1>1, HotType
      <3>2. \A c \in Chunks : /\ x(c) \in ChunkTypes /\ x(c).state = hot[i].ch[c].state
                              /\ x(c).gen = hot[i].ch[c].gen /\ x(c).n = hot[i].ch[c].n
                              /\ x(c).pins = hot[i].ch[c].pins \ {"compactor"}
        BY <3>1 DEF ChunkTypes
      <3> HIDE DEF x
      <3>3. ch \in [Chunks -> ChunkTypes] /\ \A c \in Chunks : ch[c] = x(c)
        BY <3>2
      <3>4. ring(i) = [hot[i] EXCEPT !.ch = ch]
        BY DEF x
      <3> HIDE DEF ch, ring
      <3>5. ring(i) \in Rings /\ ring(i).wc = hot[i].wc /\ ring(i).hidden = hot[i].hidden
            /\ ring(i).ch = ch
        BY <3>1, <3>3, <3>4 DEF Rings
      <3> QED
        BY <3>2, <3>3, <3>5
    <2> HIDE DEF ring
    <2> QED
      BY <2>1, <2>2
  <1>3. left' \in Lefts /\ left'.tables = left.tables
    BY <1>1 DEF Lefts
  <1>4. HotInv' /\ HotStep
    BY <1>1, <1>2, <1>3, UnpinHot
  <1>5. PinsKept("query")
    BY <1>2 DEF PinsKept
  <1>6. ReadsOk' /\ rd'["query"] = rd["query"]
    BY <1>1 DEF ReadsOk, NoRead, Readers
  <1>7. NoMarks \in [Insts -> [Chunks -> Nat]] /\ \A i \in Insts, c \in Chunks : NoMarks[i][c] = 0
    BY DEF NoMarks
  <1>8. /\ cp' \in CpTypes /\ cp'.pc = "down" /\ cp'.src = 0 /\ cp'.open = 0 /\ cp'.seed = NoMarks
    <2>1. cp' = [NewCompactor(NoMarks) EXCEPT !.pc = "down"]
      BY DEF Crash
    <2>2. /\ NewCompactor(NoMarks) \in CpTypes /\ NewCompactor(NoMarks).src = 0
          /\ NewCompactor(NoMarks).open = 0 /\ NewCompactor(NoMarks).seed = NoMarks
      BY <1>7, NewFacts
    <2> QED
      BY <2>1, <2>2 DEF CpTypes, CpPcs
  <1>9. PassInv'
    <2>1. cur' \in Nat /\ 0 <= cur' /\ Took' \in [gen : Nat, n : Nat]
      BY <1>1, <1>6 DEF HotInv, Insts, Took, ReadsOk, Readers
    <2> QED
      BY <1>8, <2>1 DEF PassInv, AtChunk
  <1>10. MarksOk'
    <2>1. \A i \in Insts, c \in Chunks : Gen(i, c)' \in Nat
      BY <1>1, <1>4, GenTypes
    <2>2. \A i \in Insts, c \in Chunks : Accounted(Key(i, c, 0))'
      BY DEF Accounted, Key
    <2>3. ASSUME NEW i \in Insts, NEW c \in Chunks
          PROVE (cp.seed[i][c] <= Gen(i, c) /\ (i > cp.src => Accounted(Key(i, c, cp.seed[i][c]))))'
      <3>1. cp'.seed[i][c] = 0
        BY <1>7, <1>8
      <3> QED
        BY <2>1, <2>2, <3>1
    <2> QED
      BY <1>8, <2>3 DEF MarksOk
  <1>11. SegsInv'
    BY <1>1, <1>4, SegsKept
  <1>12. ColdPhase'
    <2>1. must'.cold \subseteq must.cold
      BY <1>1, TrackFacts
    <2>2. 0 \notin DOMAIN segs
      BY <1>1, LenProperties DEF SegsInv
    <2> QED
      BY <1>1, <1>8, <2>1, <2>2 DEF QueryInv, ColdPhase, Stored, RowAt
  <1> QED
    BY <1>1, <1>4, <1>5, <1>6, <1>9, <1>10, <1>11, <1>12, CompactorStep

\* A segment stays with its pages, or it goes.
Thinned ==
    /\ DOMAIN segs' = DOMAIN segs
    /\ \A s \in DOMAIN segs : /\ segs'[s].pages = segs[s].pages
                              /\ segs'[s].state = "gone" \/ segs[s].state # "gone"

LEMMA ThinnedFacts ==
  ASSUME Thinned, NEW s \in DOMAIN segs'
  PROVE /\ s \in DOMAIN segs /\ Stored(s)' \subseteq Stored(s)
        /\ segs'[s].state # "gone" => Stored(s)' = Stored(s)
        /\ s \in Present' => s \in Present
  BY DEF Thinned, Stored, Present

LEMMA ThinnedInv ==
  ASSUME Inv, HotInv', HotStep, UNCHANGED <<hot, sealed, odd, q>>, Track, segs' \in Seq(SegTypes), Thinned,
         cp'.src = cp.src, cp'.seed = cp.seed, cp'.mark = cp.mark, cp'.open \in {0, cp.open},
         cp.pc # "down", cp'.pc # "down"
  PROVE SegsInv' /\ MarksOk' /\ ColdPhase'
  <1>1. HotInv /\ SegsInv /\ MarksOk /\ PassInv /\ QueryInv
    BY DEF Inv
  <1>2. \A s \in DOMAIN segs' : /\ s \in DOMAIN segs /\ Stored(s)' \subseteq Stored(s)
                                /\ segs'[s].state # "gone" => Stored(s)' = Stored(s)
    BY ThinnedFacts
  <1>3. DOMAIN segs' = DOMAIN segs
    BY DEF Thinned
  <1>4. SegsInv'
    <2>1. \A s \in DOMAIN segs' : segs'[s].pages # <<>>
      BY <1>1 DEF SegsInv, Thinned
    <2>2. ASSUME NEW s \in DOMAIN segs', NEW p \in Stored(s)' PROVE PageOk(p)'
      <3>1. p \in Stored(s) /\ s \in DOMAIN segs
        BY <1>2
      <3>2. PageOk(p)
        BY <1>1, <3>1 DEF SegsInv
      <3> QED
        BY <3>2 DEF PageOk, Gen
    <2>3. OnePage'
      <3>1. \A s \in Present' : s \in Present /\ segs'[s].pages = segs[s].pages
        BY DEF Thinned, Present
      <3> QED
        BY <1>1, <3>1 DEF SegsInv, OnePage
    <2> QED
      BY <2>1, <2>2, <2>3 DEF SegsInv
  <1>5. ASSUME NEW k, Archived(k) PROVE Archived(k)'
    BY <1>5 DEF Archived, Thinned
  <1>6. \A k : Accounted(k) => Accounted(k)'
    BY <1>5 DEF Accounted
  <1>7. MarksOk'
    <2>1. /\ cp.seed \in [Insts -> [Chunks -> Nat]] /\ cp.mark \in [Chunks -> Nat]
          /\ cp.src # 0 => cp.src \in Insts
      BY <1>1, SourceType DEF CpTypes
    <2>2. \A j \in Insts, d \in Chunks : Gen(j, d)' = Gen(j, d)
      BY DEF Gen
    <2>3. ASSUME NEW j \in Insts, NEW d \in Chunks
          PROVE (cp.seed[j][d] <= Gen(j, d) /\ (j > cp.src => Accounted(Key(j, d, cp.seed[j][d]))))'
      <3> PICK m \in Nat : m = cp.seed[j][d]
        BY <2>1
      <3>1. cp'.seed[j][d] = m /\ cp'.src = cp.src
        OBVIOUS
      <3>2. m <= Gen(j, d)' /\ (j > cp.src => Accounted(Key(j, d, m))')
        BY <1>1, <1>6, <2>2 DEF MarksOk
      <3> QED
        BY <3>1, <3>2
    <2>4. ASSUME cp.src # 0, NEW d \in Chunks
          PROVE (cp.mark[d] <= Gen(cp.src, d) /\ Accounted(Key(cp.src, d, cp.mark[d])))'
      <3> PICK i \in Insts : i = cp.src
        BY <2>1, <2>4
      <3> PICK m \in Nat : m = cp.mark[d]
        BY <2>1
      <3>1. cp'.mark[d] = m /\ cp'.src = i
        OBVIOUS
      <3>2. m <= Gen(i, d)' /\ Accounted(Key(i, d, m))'
        BY <1>1, <1>6, <2>2, <2>4 DEF MarksOk
      <3> QED
        BY <3>1, <3>2
    <2>5. ASSUME NEW s \in DOMAIN segs', NEW p \in Stored(s)' PROVE Marked(p.key)'
      <3>1. Marked(p.key)
        BY <1>1, <1>2, <2>5 DEF MarksOk
      <3> QED
        BY <3>1 DEF Marked
    <2> QED
      BY <2>3, <2>4, <2>5 DEF MarksOk
  <1>8. ColdPhase'
    <2> SUFFICES ASSUME q.pc = "cold"
                 PROVE /\ Range(q.todo) \subseteq DOMAIN segs'
                       /\ \A s \in Range(q.todo) : \A p \in Stored(s)' : p.key \notin q.covered
                       /\ cp'.open \in Range(q.todo) => \A k \in q.covered : Marked(k)'
                       /\ \A r \in q.got : r.key \in q.covered
                       /\ \A r \in must'.cold : r \in q.got \/ \E s \in Range(q.todo) : RowAt(s, r)'
      BY DEF ColdPhase
    <2>1. Range(q.todo) \subseteq DOMAIN segs
      BY <1>1 DEF QueryInv, ColdPhase
    <2>2. \A s \in Range(q.todo) : \A p \in Stored(s)' : p.key \notin q.covered
      BY <1>1, <1>2, <1>3, <2>1 DEF QueryInv, ColdPhase
    <2>3. ASSUME cp'.open \in Range(q.todo), NEW k \in q.covered PROVE Marked(k)'
      <3>1. 0 \notin DOMAIN segs
        BY <1>1, LenProperties DEF SegsInv
      <3>2. cp.open \in Range(q.todo)
        BY <2>1, <2>3, <3>1
      <3>3. Marked(k)
        BY <1>1, <2>3, <3>2 DEF QueryInv, ColdPhase
      <3> QED
        BY <3>3 DEF Marked
    <2>4. \A r \in q.got : r.key \in q.covered
      BY <1>1 DEF QueryInv, ColdPhase
    <2>5. ASSUME NEW r \in must'.cold PROVE r \in q.got \/ \E s \in Range(q.todo) : RowAt(s, r)'
      <3>1. r \in must.cold /\ r \in ColdRows(q.inst)'
        BY <1>1, <2>5, TrackFacts
      <3>2. r \in q.got \/ \E s \in Range(q.todo) : RowAt(s, r)
        BY <1>1, <3>1 DEF QueryInv, ColdPhase
      <3>3. ASSUME NEW s \in Range(q.todo), RowAt(s, r) PROVE RowAt(s, r)'
        <4>1. PICK p \in Stored(s) : r \in RowsOf(p)
          BY <3>3 DEF RowAt
        <4>2. PICK t \in Present' : \E x \in Range(segs'[t].pages) : r \in RowsOf(x)
          BY <3>1 DEF ColdRows
        <4>3. PICK x \in Stored(t)' : r \in RowsOf(x)
          BY <4>2 DEF Stored, Present
        <4>4. t \in DOMAIN segs /\ x \in Stored(t)
          BY <1>2, <4>2 DEF Present
        <4>5. p.key = x.key
          BY <4>1, <4>3, RowsOfFacts
        <4>6. s = t
          BY <1>1, <2>1, <4>4, <4>5, KeysApart
        <4> QED
          BY <4>3, <4>6 DEF RowAt
      <3> QED
        BY <3>2, <3>3
    <2> QED
      BY <1>3, <2>1, <2>2, <2>3, <2>4, <2>5
  <1> QED
    BY <1>4, <1>7, <1>8

LEMMA RollFacts ==
  ASSUME SegsInv, cp.open # 0 => cp.open \in DOMAIN segs /\ segs[cp.open].state = "open",
         segs' = IF cp.open = 0 THEN segs ELSE [segs EXCEPT ![cp.open].state = "sealed"]
  PROVE segs' \in Seq(SegTypes) /\ Thinned
  <1>1. CASE cp.open = 0
    BY <1>1 DEF SegsInv, Thinned
  <1>2. CASE cp.open # 0
    <2> PICK n \in Nat : n = Len(segs)
      BY LenProperties DEF SegsInv
    <2> PICK o \in 1 .. n : o = cp.open
      BY <1>2, LenProperties DEF SegsInv
    <2>1. segs \in Seq(SegTypes) /\ DOMAIN segs = 1 .. n /\ segs[o].state = "open"
      BY <1>2, LenProperties DEF SegsInv
    <2>2. segs[o] \in SegTypes
      BY <2>1, StoredType
    <2> DEFINE x == [segs[o] EXCEPT !.state = "sealed"]
    <2>3. x \in SegTypes /\ x.state = "sealed" /\ x.pages = segs[o].pages
      BY <2>2 DEF SegTypes
    <2>4. segs' = [segs EXCEPT ![o] = x]
      BY <1>2, <2>1
    <2> HIDE DEF x
    <2>5. /\ segs' \in Seq(SegTypes) /\ DOMAIN segs' = DOMAIN segs
          /\ \A s \in DOMAIN segs : segs'[s] = IF s = o THEN x ELSE segs[s]
      BY <2>1, <2>3, <2>4, ExceptSeq
    <2> QED
      BY <2>1, <2>3, <2>5 DEF Thinned
  <1> QED
    BY <1>1, <1>2

\* A step that rolls or evicts leaves the compactor between two chunks.
LEMMA ThinnedStep ==
  ASSUME Inv, UNCHANGED <<hot, rd>>, CompactorQuiet, segs' \in Seq(SegTypes), Thinned,
         cp' \in CpTypes, cp'.pc \in {"idle", "state", "enforce", "done"}, cp.pc # "down", cp.src # 0,
         cp'.src = cp.src, cp'.seed = cp.seed, cp'.mark = cp.mark,
         \/ cp'.open = 0
         \/ cp'.open = cp.open /\ (cp.open # 0 => segs'[cp.open] = segs[cp.open])
  PROVE Inv'
  <1>1. /\ UNCHANGED <<cur, q, left, sealed, odd>> /\ Track /\ HotInv /\ PassInv
    BY DEF CompactorQuiet, Inv
  <1>2. HotInv' /\ HotStep /\ PinsKept("query")
    BY <1>1, SameHot DEF HotInv
  <1>3. SegsInv' /\ MarksOk' /\ ColdPhase'
    BY <1>1, <1>2, ThinnedInv
  <1>4. ReadsOk'
    BY DEF Inv, ReadsOk
  <1>5. PassInv'
    <2>1. cp'.open # 0 => cp'.open \in DOMAIN segs' /\ segs'[cp'.open].state = "open"
      BY <1>1 DEF PassInv, Thinned
    <2>2. cp'.src <= cur' /\ cp'.src # 0
      BY <1>1 DEF PassInv
    <2> QED
      BY <1>4, <2>1, <2>2, BetweenChunks
  <1> QED
    BY <1>1, <1>2, <1>3, <1>4, <1>5, CompactorStep

LEMMA SizeRollInv ==
  ASSUME Inv, SizeRoll
  PROVE Inv'
  <1>1. UNCHANGED <<hot, rd>> /\ CompactorQuiet /\ cp.pc = "size" /\ cp.pc \in AtChunk
    BY DEF SizeRoll, AtChunk
  <1>2. HotInv /\ SegsInv /\ PassInv /\ cp.todo # <<>> /\ cp.src # 0 /\ cp.pc # "down"
    BY <1>1, AtFacts
  <1>3. /\ Skip \in CpTypes /\ Skip.pc = "state" /\ Skip.todo = Tail(cp.todo)
        /\ Skip.src = cp.src /\ Skip.mark = cp.mark /\ Skip.seed = cp.seed /\ Skip.open = cp.open
    BY <1>2, SkipFacts
  <1>4. CASE Roll(Skip)
    <2>1. segs' \in Seq(SegTypes) /\ Thinned
      BY <1>2, <1>4, RollFacts DEF Roll, PassInv
    <2>2. cp' = [Skip EXCEPT !.open = 0]
      BY <1>4 DEF Roll
    <2> PICK x : x = Skip
      OBVIOUS
    <2>3. /\ cp' \in CpTypes /\ cp'.pc = "state" /\ cp'.src = cp.src /\ cp'.seed = cp.seed
          /\ cp'.mark = cp.mark /\ cp'.open = 0
      BY <1>3, <2>2 DEF CpTypes
    <2> QED
      BY <1>1, <1>2, <2>1, <2>3, ThinnedStep
  <1>5. CASE cp' = Skip /\ UNCHANGED segs
    BY <1>1, <1>2, <1>5, SkipInv DEF CompactorQuiet
  <1> QED
    BY <1>4, <1>5 DEF SizeRoll

LEMMA AgeRollInv ==
  ASSUME Inv, AgeRoll
  PROVE Inv'
  <1>1. /\ UNCHANGED <<hot, rd>> /\ CompactorQuiet /\ cp.pc = "state" /\ HotInv /\ SegsInv /\ PassInv
    BY DEF AgeRoll, Inv
  <1>2. cp \in CpTypes /\ cp.src # 0 /\ cp.pc # "down"
    BY <1>1 DEF PassInv
  <1>3. CASE Roll([cp EXCEPT !.pc = "enforce"])
    <2>1. segs' \in Seq(SegTypes) /\ Thinned
      BY <1>1, <1>3, RollFacts DEF Roll, PassInv
    <2>2. cp' = [[cp EXCEPT !.pc = "enforce"] EXCEPT !.open = 0]
      BY <1>3 DEF Roll
    <2>3. /\ cp' \in CpTypes /\ cp'.pc = "enforce" /\ cp'.src = cp.src /\ cp'.seed = cp.seed
          /\ cp'.mark = cp.mark /\ cp'.open = 0
      BY <1>2, <2>2 DEF CpTypes, CpPcs
    <2> QED
      BY <1>1, <1>2, <2>1, <2>3, ThinnedStep
  <1>4. CASE cp' = [cp EXCEPT !.pc = "enforce"] /\ UNCHANGED segs
    <2>1. segs' \in Seq(SegTypes) /\ Thinned
      BY <1>1, <1>4 DEF SegsInv, Thinned
    <2>2. /\ cp' \in CpTypes /\ cp'.pc = "enforce" /\ cp'.src = cp.src /\ cp'.seed = cp.seed
          /\ cp'.mark = cp.mark /\ cp'.open = cp.open
      BY <1>2, <1>4 DEF CpTypes, CpPcs
    <2> QED
      BY <1>1, <1>2, <1>4, <2>1, <2>2, ThinnedStep
  <1> QED
    BY <1>3, <1>4 DEF AgeRoll

\* Retention takes sealed segments only, so never the one that is still written.
LEMMA EnforceInv ==
  ASSUME Inv, Enforce
  PROVE Inv'
  <1>1. /\ UNCHANGED <<hot, rd>> /\ CompactorQuiet /\ cp.pc = "enforce" /\ HotInv /\ SegsInv /\ PassInv
    BY DEF Enforce, Inv
  <1>2. cp \in CpTypes /\ cp.src # 0 /\ cp.pc # "down"
    BY <1>1 DEF PassInv
  <1>3. \A s \in Evicted : segs[s].state = "sealed"
    BY DEF Evicted
  <1> DEFINE out(s) == Present # {} /\ s \in Evicted
             none(s) == [segs[s] EXCEPT !.state = "gone"]
  <1>4. segs' = [s \in DOMAIN segs |-> IF out(s) THEN none(s) ELSE segs[s]]
    BY DEF Enforce
  <1>5. \A s \in DOMAIN segs :
           none(s) \in SegTypes /\ none(s).state = "gone" /\ none(s).pages = segs[s].pages
    BY <1>1, StoredType DEF SegTypes
  <1>6. \A s \in DOMAIN segs : out(s) => segs[s].state = "sealed"
    BY <1>3
  <1> HIDE DEF out, none
  <1> PICK n \in Nat : n = Len(segs)
    BY <1>1, LenProperties DEF SegsInv
  <1>7. segs \in Seq(SegTypes) /\ DOMAIN segs = 1 .. n
    BY <1>1, LenProperties DEF SegsInv
  <1>8. \A s \in 1 .. n : segs[s] \in SegTypes
    BY <1>1, <1>7, StoredType
  <1>9. segs' \in Seq(SegTypes)
    <2>1. segs' \in [1 .. n -> SegTypes]
      BY <1>4, <1>5, <1>7, <1>8
    <2> QED
      BY <2>1, SeqDef
  <1>10. /\ DOMAIN segs' = DOMAIN segs
         /\ \A s \in DOMAIN segs : segs'[s] = IF out(s) THEN none(s) ELSE segs[s]
    BY <1>4
  <1>11. Thinned
    BY <1>5, <1>10 DEF Thinned
  <1>12. cp.open # 0 => segs'[cp.open] = segs[cp.open]
    <2>1. cp.open # 0 => cp.open \in DOMAIN segs /\ segs[cp.open].state = "open"
      BY <1>1 DEF PassInv
    <2> QED
      BY <1>6, <1>10, <2>1
  <1>13. /\ cp' \in CpTypes /\ cp'.pc \in {"idle", "done"} /\ cp'.src = cp.src /\ cp'.seed = cp.seed
         /\ cp'.mark = cp.mark /\ cp'.open = cp.open
    BY <1>2 DEF Enforce, CpTypes, CpPcs
  <1> QED
    BY <1>1, <1>2, <1>9, <1>11, <1>12, <1>13, ThinnedStep

\* A page has gone to the open segment, or has started one.
Appended(at, page) ==
    /\ segs' \in Seq(SegTypes) /\ at \in DOMAIN segs' /\ segs'[at].state = "open" /\ at # 0
    /\ segs'[at].pages # <<>>
    /\ DOMAIN segs' = DOMAIN segs \cup {at} /\ (at \in DOMAIN segs <=> at = cp.open)
    /\ \A s \in DOMAIN segs : /\ segs'[s].state = segs[s].state
                              /\ s # at => segs'[s] = segs[s]
                              /\ Stored(s) \subseteq Stored(s)'
    /\ page \in Stored(at)'
    /\ \A j \in DOMAIN segs'[at].pages :
          \/ at \in DOMAIN segs /\ j \in DOMAIN segs[at].pages
             /\ segs'[at].pages[j] = segs[at].pages[j]
          \/ j = Len(segs'[at].pages) /\ segs'[at].pages[j] = page

LEMMA AppendSegs ==
  ASSUME SegsInv, NEW page \in PageTypes, NEW at, cp.open \in Nat,
         at = IF cp.open # 0 THEN cp.open ELSE Len(segs) + 1,
         cp.open # 0 => cp.open \in DOMAIN segs /\ segs[cp.open].state = "open",
         segs' = IF cp.open # 0 THEN [segs EXCEPT ![at].pages = Append(segs[at].pages, page)]
                 ELSE Append(segs, [state |-> "open", pages |-> <<page>>])
  PROVE Appended(at, page)
  <1> PICK n \in Nat : n = Len(segs)
    BY LenProperties DEF SegsInv
  <1>1. segs \in Seq(SegTypes) /\ DOMAIN segs = 1 .. n
    BY LenProperties DEF SegsInv
  <1>2. CASE cp.open # 0
    <2>1. at = cp.open /\ at \in 1 .. n /\ segs[at].state = "open"
      BY <1>1, <1>2
    <2>2. segs[at] \in SegTypes /\ segs[at].pages \in Seq(PageTypes)
      BY <1>1, <2>1, StoredType DEF SegTypes
    <2> PICK old \in Seq(PageTypes) : old = segs[at].pages
      BY <2>2
    <2> PICK m \in Nat : m = Len(old)
      BY LenProperties
    <2> DEFINE new == Append(old, page)
    <2>3. /\ new \in Seq(PageTypes) /\ DOMAIN new = 1 .. m + 1 /\ Len(new) = m + 1 /\ DOMAIN old = 1 .. m
          /\ new[m + 1] = page /\ \A j \in 1 .. m : new[j] = old[j]
      BY AppendProperties, LenProperties
    <2>4. new # <<>>
      BY <2>3
    <2> HIDE DEF new
    <2> DEFINE x == [segs[at] EXCEPT !.pages = new]
    <2>5. x \in SegTypes /\ x.state = "open" /\ x.pages = new
      BY <2>1, <2>2, <2>3 DEF SegTypes
    <2>6. segs' = [segs EXCEPT ![at] = x]
      BY <1>2, <2>1, <1>1 DEF new
    <2> HIDE DEF x
    <2>7. /\ segs' \in Seq(SegTypes) /\ DOMAIN segs' = 1 .. n
          /\ \A s \in 1 .. n : segs'[s] = IF s = at THEN x ELSE segs[s]
      <3>1. at \in 1 .. Len(segs)
        BY <2>1
      <3>2. /\ [segs EXCEPT ![at] = x] \in Seq(SegTypes)
            /\ \A j \in 1 .. Len(segs) : [segs EXCEPT ![at] = x][j] = IF j = at THEN x ELSE segs[j]
        BY <1>1, <2>5, <3>1, ExceptSeq
      <3> QED
        BY <1>1, <2>6, <3>2
    <2>8. segs'[at].pages = new /\ segs'[at].state = "open"
      BY <2>1, <2>5, <2>7
    <2>9. \A j \in DOMAIN new : \/ j \in DOMAIN old /\ new[j] = old[j]
                                \/ j = m + 1 /\ new[j] = page
      <3> SUFFICES ASSUME NEW j \in 1 .. m + 1
                   PROVE \/ j \in DOMAIN old /\ new[j] = old[j]
                         \/ j = m + 1 /\ new[j] = page
        BY <2>3
      <3>1. j = m + 1 \/ j \in 1 .. m
        OBVIOUS
      <3> QED
        BY <2>3, <3>1
    <2>10. page \in Range(new) /\ \A y \in Range(old) : y \in Range(new)
      <3>1. \A j \in DOMAIN old : j \in DOMAIN new /\ new[j] = old[j]
        BY <2>3
      <3>2. m + 1 \in DOMAIN new
        BY <2>3
      <3>3. page \in Range(new)
        BY <2>3, <3>2 DEF Range
      <3>4. ASSUME NEW y \in Range(old) PROVE y \in Range(new)
        <4>1. PICK j \in DOMAIN old : y = old[j]
          BY DEF Range
        <4>2. j \in DOMAIN new /\ y = new[j]
          BY <3>1, <4>1
        <4> QED
          BY <4>2 DEF Range
      <3> QED
        BY <3>3, <3>4
    <2>11. page \in Stored(at)' /\ Stored(at) \subseteq Stored(at)'
      BY <2>8, <2>10 DEF Stored
    <2>12. \A s \in DOMAIN segs : s # at => segs'[s] = segs[s] /\ Stored(s)' = Stored(s)
      BY <1>1, <2>7 DEF Stored
    <2>13. \A s \in DOMAIN segs : /\ segs'[s].state = segs[s].state
                                  /\ Stored(s) \subseteq Stored(s)'
      BY <2>1, <2>8, <2>11, <2>12
    <2>14. \A j \in DOMAIN segs'[at].pages :
              \/ at \in DOMAIN segs /\ j \in DOMAIN segs[at].pages
                 /\ segs'[at].pages[j] = segs[at].pages[j]
              \/ j = Len(segs'[at].pages) /\ segs'[at].pages[j] = page
      <3>1. at \in DOMAIN segs
        BY <1>1, <2>1
      <3>2. \A j \in DOMAIN segs'[at].pages :
               \/ at \in DOMAIN segs /\ j \in DOMAIN segs[at].pages
                  /\ segs'[at].pages[j] = segs[at].pages[j]
               \/ j = m + 1 /\ segs'[at].pages[j] = page
        BY <2>8, <2>9, <3>1
      <3>3. Len(segs'[at].pages) = m + 1
        BY <2>3, <2>8
      <3> QED
        BY <3>2, <3>3
    <2>15. at # 0 /\ at \in DOMAIN segs' /\ DOMAIN segs' = DOMAIN segs \cup {at} /\ at \in DOMAIN segs
      BY <1>1, <2>1, <2>7
    <2>16. segs'[at].pages # <<>>
      BY <2>4, <2>8
    <2> QED
      BY <2>1, <2>7, <2>8, <2>11, <2>12, <2>13, <2>14, <2>15, <2>16 DEF Appended
  <1>3. CASE cp.open = 0
    <2> DEFINE x == [state |-> "open", pages |-> <<page>>]
    <2>1. at = n + 1 /\ at \notin 1 .. n /\ at # 0 /\ at # cp.open
      BY <1>3
    <2>2. x \in SegTypes /\ x.state = "open" /\ x.pages = <<page>>
      BY DEF SegTypes
    <2>3. segs' = Append(segs, x)
      BY <1>3
    <2> HIDE DEF x
    <2>4. /\ segs' \in Seq(SegTypes) /\ DOMAIN segs' = 1 .. n + 1 /\ segs'[at] = x
          /\ \A s \in 1 .. n : segs'[s] = segs[s]
      BY <1>1, <2>1, <2>2, <2>3, AppendProperties, LenProperties
    <2>5. DOMAIN segs' = DOMAIN segs \cup {at}
      BY <1>1, <2>1, <2>4
    <2>6. <<page>> # <<>> /\ DOMAIN <<page>> = {1} /\ <<page>>[1] = page
      OBVIOUS
    <2>7. page \in Stored(at)'
      <3>1. segs'[at].state = "open" /\ segs'[at].pages = <<page>>
        BY <2>2, <2>4
      <3>2. page \in Range(<<page>>)
        BY <2>6 DEF Range
      <3>3. Stored(at)' = Range(segs'[at].pages)
        BY <3>1 DEF Stored
      <3> QED
        BY <3>1, <3>2, <3>3
    <2>8. \A s \in DOMAIN segs : /\ segs'[s].state = segs[s].state /\ segs'[s] = segs[s]
                                 /\ Stored(s) \subseteq Stored(s)'
      BY <1>1, <2>4 DEF Stored
    <2>9. \A j \in DOMAIN segs'[at].pages :
             \/ at \in DOMAIN segs /\ j \in DOMAIN segs[at].pages
                /\ segs'[at].pages[j] = segs[at].pages[j]
             \/ j = Len(segs'[at].pages) /\ segs'[at].pages[j] = page
      <3>1. \A j \in DOMAIN segs'[at].pages : j = 1 /\ segs'[at].pages[j] = page
        BY <2>2, <2>4, <2>6
      <3>2. Len(segs'[at].pages) = 1
        BY <2>2, <2>4
      <3> QED
        BY <3>1, <3>2
    <2>10. /\ at \in DOMAIN segs' /\ segs'[at].state = "open" /\ segs'[at].pages # <<>>
           /\ at \notin DOMAIN segs
      BY <1>1, <2>1, <2>2, <2>4, <2>5, <2>6
    <2> QED
      BY <2>1, <2>4, <2>5, <2>7, <2>8, <2>9, <2>10 DEF Appended
  <1> QED
    BY <1>2, <1>3

\* The generation is above the watermark, so it is in no page yet.
LEMMA AppendPageInv ==
  ASSUME Inv, AppendPage
  PROVE Inv'
  <1>1. /\ UNCHANGED <<hot, rd, cur, q, left, sealed, odd>> /\ Track /\ CompactorQuiet
        /\ cp.pc = "append" /\ cp.pc \in AtChunk
    BY DEF AppendPage, CompactorQuiet, AtChunk
  <1>2. /\ HotInv /\ SegsInv /\ MarksOk /\ PassInv /\ QueryInv /\ cp \in CpTypes
        /\ cp.src \in Insts /\ cp.todo # <<>> /\ Chunk \in Chunks /\ cp.src # 0 /\ cp.src <= cur
        /\ Took \in [gen : Nat, n : Nat] /\ cp.mark[Chunk] \in Nat
        /\ cp.pc # "down" /\ cp.mark \in [Chunks -> Nat] /\ cp.open \in Nat
    BY <1>1, AtFacts DEF CpTypes
  <1>3. HotInv' /\ HotStep /\ PinsKept("query")
    BY <1>1, <1>2, SameHot DEF HotInv
  <1>4. ReadsOk' /\ rd'["query"] = rd["query"]
    BY <1>1 DEF Inv, ReadsOk
  <1>5. /\ Took.gen <= Gen(cp.src, Chunk) /\ Took.gen > cp.mark[Chunk] /\ Took.n > 0
        /\ TookKey \in odd \/ Whole
    BY <1>1, <1>2 DEF PassInv
  <1>6. cp.open # 0 => cp.open \in DOMAIN segs /\ segs[cp.open].state = "open"
    BY <1>2 DEF PassInv
  <1> PICK at : at = IF cp.open # 0 THEN cp.open ELSE Len(segs) + 1
    OBVIOUS
  <1> PICK i \in Insts : i = cp.src
    BY <1>2
  <1> PICK c \in Chunks : c = Chunk
    BY <1>2
  <1> PICK g \in Nat : g = Took.gen
    BY <1>2
  <1> PICK k : k = Key(i, c, g)
    OBVIOUS
  <1> PICK page : page = Page(k, Took.n)
    OBVIOUS
  <1>7. /\ k \in Keys /\ k.inst = i /\ k.chunk = c /\ k.gen = g /\ page.key = k /\ page.n = Took.n
        /\ page \in PageTypes /\ g > 0 /\ g <= Gen(i, c) /\ g > cp.mark[c]
        /\ k \in odd \/ page \in sealed
    <2>1. k \in Keys /\ k.inst = i /\ k.chunk = c /\ k.gen = g
      BY DEF Key, Keys
    <2>2. page.key = k /\ page.n = Took.n /\ page \in PageTypes
      BY <1>2, <2>1 DEF Page, PageTypes
    <2>3. TookKey = k
      BY DEF TookKey
    <2>4. k \in odd \/ page \in sealed
      BY <1>5, <2>3 DEF Whole
    <2>5. g > 0
      BY <1>2, <1>5
    <2> QED
      BY <1>5, <2>1, <2>2, <2>4, <2>5
  <1>8. ~Marked(k)
    <2>1. cp.mark[c] \in Nat
      BY <1>2
    <2> QED
      BY <1>7, <2>1 DEF Marked
  <1>9. segs' = IF cp.open # 0 THEN [segs EXCEPT ![at].pages = Append(segs[at].pages, page)]
                ELSE Append(segs, [state |-> "open", pages |-> <<page>>])
    BY DEF AppendPage, Took
  <1>10. cp' = [cp EXCEPT !.pc = "size", !.open = at, !.mark[c] = g]
    BY DEF AppendPage, Took
  <1>11. Appended(at, page)
    <2>1. SegsInv /\ page \in PageTypes /\ cp.open \in Nat
      BY <1>2, <1>7
    <2>2. at = IF cp.open # 0 THEN cp.open ELSE Len(segs) + 1
      OBVIOUS
    <2> QED
      BY <1>6, <1>9, <2>1, <2>2, AppendSegs
  <1>12. /\ segs' \in Seq(SegTypes) /\ at \in DOMAIN segs' /\ segs'[at].state = "open" /\ at # 0
         /\ segs'[at].pages # <<>>
         /\ DOMAIN segs' = DOMAIN segs \cup {at} /\ (at \in DOMAIN segs <=> at = cp.open)
         /\ \A s \in DOMAIN segs : /\ segs'[s].state = segs[s].state
                                   /\ s # at => segs'[s] = segs[s]
                                   /\ Stored(s) \subseteq Stored(s)'
         /\ page \in Stored(at)'
         /\ \A j \in DOMAIN segs'[at].pages :
               \/ at \in DOMAIN segs /\ j \in DOMAIN segs[at].pages
                  /\ segs'[at].pages[j] = segs[at].pages[j]
               \/ j = Len(segs'[at].pages) /\ segs'[at].pages[j] = page
    BY <1>11 DEF Appended
  <1>13. at \in Nat
    BY <1>2, LenProperties DEF SegsInv
  <1>14. /\ cp'.pc = "size" /\ cp'.open = at /\ cp'.src = i /\ cp'.seed = cp.seed /\ cp'.todo = cp.todo
         /\ cp'.mark = [cp.mark EXCEPT ![c] = g] /\ cp' \in CpTypes
    <2>1. [cp.mark EXCEPT ![c] = g] \in [Chunks -> Nat]
      BY <1>2
    <2> QED
      BY <1>2, <1>10, <1>13, <2>1 DEF CpTypes, CpPcs
  <1>15. \A j \in Keys : Marked(j) => Marked(j)'
    BY <1>2, <1>7, <1>14, MarkUp
  <1>16. \A s \in DOMAIN segs' : \A j \in DOMAIN segs'[s].pages :
           \/ s \in DOMAIN segs /\ j \in DOMAIN segs[s].pages /\ segs'[s].pages[j] = segs[s].pages[j]
           \/ s = at /\ j = Len(segs'[at].pages) /\ segs'[s].pages[j] = page
    BY <1>12
  <1>17. ASSUME NEW s \in DOMAIN segs', NEW p \in Stored(s)'
         PROVE \/ p = page /\ s = at
               \/ s \in DOMAIN segs /\ p \in Stored(s)
    <2>1. PICK j \in DOMAIN segs'[s].pages : p = segs'[s].pages[j]
      BY DEF Stored, Range
    <2>2. CASE s \in DOMAIN segs /\ j \in DOMAIN segs[s].pages /\ segs'[s].pages[j] = segs[s].pages[j]
      <3>1. segs[s].state # "gone"
        BY <1>12, <2>2 DEF Stored
      <3>2. p \in Range(segs[s].pages)
        BY <2>1, <2>2 DEF Range
      <3> QED
        BY <2>2, <3>1, <3>2 DEF Stored
    <2>3. CASE s = at /\ segs'[s].pages[j] = page
      BY <2>1, <2>3
    <2> QED
      BY <1>16, <2>1, <2>2, <2>3
  <1>18. SegsInv'
    <2>1. ASSUME NEW s \in DOMAIN segs' PROVE segs'[s].pages # <<>>
      <3>1. CASE s = at
        BY <1>12, <3>1
      <3>2. CASE s # at
        BY <1>2, <1>12, <3>2 DEF SegsInv
      <3> QED
        BY <3>1, <3>2
    <2>2. ASSUME NEW s \in DOMAIN segs', NEW p \in Stored(s)' PROVE PageOk(p)'
      <3>1. CASE p = page
        BY <1>1, <1>7, <3>1 DEF PageOk, Gen
      <3>2. CASE s \in DOMAIN segs /\ p \in Stored(s)
        <4>1. PageOk(p)
          BY <1>2, <3>2 DEF SegsInv
        <4> QED
          BY <1>1, <4>1 DEF PageOk, Gen
      <3> QED
        BY <1>17, <3>1, <3>2
    <2>3. ASSUME NEW s \in Present, NEW j \in DOMAIN segs[s].pages PROVE segs[s].pages[j].key # k
      <3>1. s \in DOMAIN segs /\ segs[s].pages[j] \in Stored(s)
        BY DEF Stored, Range, Present
      <3>2. Marked(segs[s].pages[j].key)
        BY <1>2, <3>1 DEF MarksOk
      <3> QED
        BY <1>8, <3>2
    <2>4. OnePage'
      <3> SUFFICES ASSUME NEW s \in Present', NEW t \in Present',
                          NEW a \in DOMAIN segs'[s].pages, NEW b \in DOMAIN segs'[t].pages,
                          segs'[s].pages[a].key = segs'[t].pages[b].key
                   PROVE s = t /\ a = b
        BY DEF OnePage
      <3>0. \A x \in Present' : x \in DOMAIN segs' /\ (x \in DOMAIN segs => x \in Present)
        BY <1>12 DEF Present
      <3>1. \/ s \in Present /\ a \in DOMAIN segs[s].pages /\ segs'[s].pages[a] = segs[s].pages[a]
            \/ s = at /\ a = Len(segs'[at].pages) /\ segs'[s].pages[a] = page
        BY <1>16, <3>0
      <3>2. \/ t \in Present /\ b \in DOMAIN segs[t].pages /\ segs'[t].pages[b] = segs[t].pages[b]
            \/ t = at /\ b = Len(segs'[at].pages) /\ segs'[t].pages[b] = page
        BY <1>16, <3>0
      <3>3. CASE s \in Present /\ a \in DOMAIN segs[s].pages /\ segs'[s].pages[a] = segs[s].pages[a]
        <4>1. segs'[t].pages[b] # page
          BY <1>7, <2>3, <3>3
        <4> QED
          BY <1>2, <3>2, <3>3, <4>1 DEF SegsInv, OnePage
      <3>4. CASE s = at /\ a = Len(segs'[at].pages) /\ segs'[s].pages[a] = page
        <4>1. ~(t \in Present /\ b \in DOMAIN segs[t].pages /\ segs'[t].pages[b] = segs[t].pages[b])
          BY <1>7, <2>3, <3>4
        <4> QED
          BY <3>2, <3>4, <4>1
      <3> QED
        BY <3>1, <3>3, <3>4
    <2> QED
      BY <1>12, <2>1, <2>2, <2>4 DEF SegsInv
  <1>19. ASSUME NEW j, Archived(j) PROVE Archived(j)'
    <2>0. PICK s \in DOMAIN segs : \E p \in Range(segs[s].pages) : p.key = j
      BY <1>19 DEF Archived
    <2>1. PICK p \in Range(segs[s].pages) : p.key = j
      BY <2>0
    <2>2. CASE s # at
      BY <1>12, <2>0, <2>1, <2>2 DEF Archived
    <2>3. CASE s = at
      <3>1. segs[s].state = "open" /\ segs'[s].state = "open"
        BY <1>6, <1>12, <2>3
      <3>2. p \in Range(segs'[s].pages)
        BY <1>12, <3>1 DEF Stored
      <3> QED
        BY <1>12, <2>1, <3>2 DEF Archived
    <2> QED
      BY <2>2, <2>3
  <1>20. MarksOk'
    <2>1. \A j \in Keys : Accounted(j) => Accounted(j)'
      BY <1>1, <1>19 DEF Accounted
    <2>2. Accounted(Key(i, c, g))'
      <3>1. Archived(k)'
        BY <1>7, <1>12 DEF Archived, Stored
      <3> QED
        BY <3>1 DEF Accounted
    <2>3. ASSUME NEW s \in DOMAIN segs', NEW p \in Stored(s)' PROVE Marked(p.key)'
      <3>1. CASE p = page
        <4>1. cp'.mark[c] = g
          BY <1>2, <1>14
        <4> QED
          BY <1>7, <1>14, <3>1, <4>1 DEF Marked, Insts
      <3>2. CASE s \in DOMAIN segs /\ p \in Stored(s)
        <4>1. Marked(p.key) /\ p.key \in Keys
          BY <1>2, <3>2, StoredType DEF MarksOk
        <4> QED
          BY <1>15, <4>1
      <3> QED
        BY <1>17, <3>1, <3>2
    <2> QED
      BY <1>1, <1>2, <1>7, <1>14, <2>1, <2>2, <2>3, MarksUp
  <1>21. PassInv'
    <2>1. /\ cp'.src <= cur' /\ cp'.src # 0 /\ cp'.open # 0 /\ cp'.open \in DOMAIN segs'
          /\ segs'[cp'.open].state = "open" /\ cp'.todo # <<>>
      BY <1>1, <1>2, <1>12, <1>14
    <2>2. Took' \in [gen : Nat, n : Nat]
      BY <1>1, <1>2 DEF Took
    <2> QED
      BY <1>14, <2>1, <2>2 DEF PassInv, AtChunk
  <1>22. ColdPhase'
    <2> SUFFICES ASSUME q.pc = "cold"
                 PROVE /\ Range(q.todo) \subseteq DOMAIN segs'
                       /\ \A s \in Range(q.todo) : \A p \in Stored(s)' : p.key \notin q.covered
                       /\ cp'.open \in Range(q.todo) => \A j \in q.covered : Marked(j)'
                       /\ \A r \in q.got : r.key \in q.covered
                       /\ \A r \in must'.cold : r \in q.got \/ \E s \in Range(q.todo) : RowAt(s, r)'
      BY <1>1 DEF ColdPhase
    <2>1. Range(q.todo) \subseteq DOMAIN segs
      BY <1>2 DEF QueryInv, ColdPhase
    <2>2. at \in Range(q.todo) => \A j \in q.covered : Marked(j) /\ j \in Keys
      BY <1>2, <1>12, <2>1 DEF QueryInv, ColdPhase, QTypes
    <2>3. ASSUME NEW s \in Range(q.todo), NEW p \in Stored(s)' PROVE p.key \notin q.covered
      <3>1. CASE p = page /\ s = at
        BY <1>7, <1>8, <2>2, <3>1
      <3>2. CASE s \in DOMAIN segs /\ p \in Stored(s)
        BY <1>2, <3>2 DEF QueryInv, ColdPhase
      <3>3. s \in DOMAIN segs'
        BY <1>12, <2>1
      <3> QED
        BY <1>17, <3>1, <3>2, <3>3
    <2>4. cp'.open \in Range(q.todo) => \A j \in q.covered : Marked(j)'
      BY <1>14, <1>15, <2>2
    <2>5. \A r \in q.got : r.key \in q.covered
      BY <1>2 DEF QueryInv, ColdPhase
    <2>6. must'.cold \subseteq must.cold
      BY <1>1, <1>2, TrackFacts
    <2>7. ASSUME NEW r \in must'.cold PROVE r \in q.got \/ \E s \in Range(q.todo) : RowAt(s, r)'
      <3>1. r \in q.got \/ \E s \in Range(q.todo) : RowAt(s, r)
        BY <1>2, <2>6 DEF QueryInv, ColdPhase
      <3>2. \A s \in Range(q.todo) : RowAt(s, r) => RowAt(s, r)'
        BY <1>12, <2>1 DEF RowAt
      <3> QED
        BY <3>1, <3>2
    <2>8. Range(q.todo) \subseteq DOMAIN segs'
      BY <1>12, <2>1
    <2> QED
      BY <2>3, <2>4, <2>5, <2>7, <2>8
  <1> QED
    BY <1>1, <1>3, <1>4, <1>18, <1>20, <1>21, <1>22, CompactorStep

\* A bounded set of naturals that is not empty has a largest element: of the sets of its
\* elements from one of them on, some is minimal.
LEMMA Largest ==
  ASSUME NEW S \in SUBSET Nat, NEW b \in Nat, S # {}, \A x \in S : x <= b
  PROVE \E m \in S : \A x \in S : m >= x
  <1> DEFINE From(x) == {y \in S : y >= x}
             T == {From(x) : x \in S}
             R == StrictSubsetOrdering(S)
  <1>1. IsFiniteSet(S)
    BY FS_BoundedSetOfNaturals
  <1>2. \A x \in S : From(x) \in FiniteSubsetsOf(S)
    <2> SUFFICES ASSUME NEW x \in S PROVE From(x) \in FiniteSubsetsOf(S)
      OBVIOUS
    <2>1. From(x) \subseteq S
      OBVIOUS
    <2>2. IsFiniteSet(From(x))
      BY <1>1, <2>1, FS_Subset
    <2> QED
      BY <2>1, <2>2 DEF FiniteSubsetsOf
  <1>3. T \subseteq FiniteSubsetsOf(S) /\ T # {}
    BY <1>2
  <1>4. IsWellFoundedOn(R, FiniteSubsetsOf(S))
    BY FS_StrictSubsetOrderingWellFounded
  <1> HIDE DEF R, T
  <1>5. \E A \in T : \A B \in T : ~ (<<B, A>> \in R)
    BY <1>3, <1>4, WFMin
  <1> USE DEF R, T
  <1>6. PICK m \in S : \A x \in S : ~ (<<From(x), From(m)>> \in R)
    BY <1>5
  <1>7. ASSUME NEW x \in S, ~(m >= x) PROVE FALSE
    <2>1. x \in Nat /\ m \in Nat /\ m < x /\ \A y \in S : y \in Nat
      BY <1>7
    <2>2. From(x) \subseteq From(m)
      <3> SUFFICES ASSUME NEW y \in S, y >= x PROVE y >= m
        OBVIOUS
      <3> y \in Nat
        OBVIOUS
      <3> QED
        BY <2>1
    <2>3. m \in From(m) /\ m \notin From(x)
      BY <2>1
    <2>4. From(x) \subseteq From(m) /\ m \in From(m) /\ m \notin From(x) /\ From(m) \subseteq S
      BY <2>2, <2>3
    <2>5. <<From(x), From(m)>> \in R
      BY <2>4 DEF StrictSubsetOrdering
    <2> QED
      BY <1>6, <2>5
  <1> QED
    BY <1>7

LEMMA MaxFacts ==
  ASSUME NEW S \in SUBSET Nat, NEW b \in Nat, S # {}, \A x \in S : x <= b
  PROVE Max(S) \in S /\ \A x \in S : Max(S) >= x
  <1>1. \E m \in S : \A x \in S : m >= x
    BY Largest
  <1> QED
    BY <1>1, Zenon DEF Max

\* The generations of a chunk that segments have.
Gens(i, c) == {p.key.gen : p \in {p \in UNION {Range(segs[s].pages) : s \in Present} :
                                     p.key.inst = i /\ p.key.chunk = c}}

LEMMA PrimedFacts ==
  ASSUME HotInv, SegsInv
  PROVE /\ Primed \in [Insts -> [Chunks -> Nat]]
        /\ \A i \in Insts, c \in Chunks :
              /\ Primed[i][c] <= Gen(i, c)
              /\ Primed[i][c] = 0 \/ Archived(Key(i, c, Primed[i][c]))
        /\ \A s \in DOMAIN segs : \A p \in Stored(s) : p.key.gen <= Primed[p.key.inst][p.key.chunk]
  <1> DEFINE all(i, c) == {0} \cup Gens(i, c)
  <1>1. ASSUME NEW i \in Insts, NEW c \in Chunks, NEW g \in Gens(i, c)
        PROVE g \in Nat /\ g <= Gen(i, c) /\ Archived(Key(i, c, g))
    <2>1. PICK p \in UNION {Range(segs[s].pages) : s \in Present} :
             p.key.inst = i /\ p.key.chunk = c /\ g = p.key.gen
      BY DEF Gens
    <2>2. PICK s \in Present : p \in Range(segs[s].pages)
      BY <2>1
    <2>3. s \in DOMAIN segs /\ p \in Stored(s) /\ p \in Range(segs[s].pages)
      BY <2>2 DEF Present, Stored
    <2>4. p.key \in Keys /\ PageOk(p)
      BY <2>3, StoredType DEF SegsInv
    <2>5. p.key = Key(i, c, g) /\ g \in Nat
      BY <2>1, <2>4 DEF Keys, Key
    <2>6. g <= Gen(i, c)
      BY <2>1, <2>4 DEF PageOk
    <2> QED
      BY <2>3, <2>5, <2>6 DEF Archived
  <1>2. ASSUME NEW i \in Insts, NEW c \in Chunks
        PROVE /\ Max(all(i, c)) \in all(i, c) /\ \A g \in all(i, c) : Max(all(i, c)) >= g
              /\ all(i, c) \subseteq Nat
    <2>1. Gen(i, c) \in Nat
      BY HotType
    <2>2. all(i, c) \in SUBSET Nat /\ all(i, c) # {} /\ \A g \in all(i, c) : g <= Gen(i, c)
      BY <1>1, <2>1
    <2> HIDE DEF all
    <2> QED
      BY <2>1, <2>2, MaxFacts
  <1>3. Primed = [i \in Insts |-> [c \in Chunks |-> Max(all(i, c))]]
    BY DEF Primed, Gens
  <1>4. \A i \in Insts, c \in Chunks : Primed[i][c] = Max(all(i, c))
    <2> HIDE DEF all
    <2> QED
      BY <1>3
  <1>5. Primed \in [Insts -> [Chunks -> Nat]]
    <2>1. \A i \in Insts, c \in Chunks : Max(all(i, c)) \in Nat
      BY <1>2
    <2> HIDE DEF all
    <2> QED
      BY <1>3, <2>1
  <1>6. ASSUME NEW i \in Insts, NEW c \in Chunks
        PROVE Primed[i][c] <= Gen(i, c) /\ (Primed[i][c] = 0 \/ Archived(Key(i, c, Primed[i][c])))
    <2> PICK g : g = Primed[i][c]
      OBVIOUS
    <2>1. g = 0 \/ g \in Gens(i, c)
      BY <1>2, <1>4
    <2>2. g = 0 => g <= Gen(i, c)
      BY HotType
    <2> QED
      BY <1>1, <2>1, <2>2
  <1>7. ASSUME NEW s \in DOMAIN segs, NEW p \in Stored(s)
        PROVE p.key.gen <= Primed[p.key.inst][p.key.chunk]
    <2>1. p.key \in Keys /\ p.key.inst \in Insts /\ p.key.chunk \in Chunks /\ p.key.gen \in Nat
      BY StoredType
    <2>2. s \in Present /\ p \in Range(segs[s].pages)
      BY StoredIn
    <2>3. p \in UNION {Range(segs[t].pages) : t \in Present}
      BY <2>2
    <2>4. p.key.gen \in Gens(p.key.inst, p.key.chunk)
      BY <2>3 DEF Gens
    <2>5. Max(all(p.key.inst, p.key.chunk)) >= p.key.gen
          /\ Max(all(p.key.inst, p.key.chunk)) \in Nat
      BY <1>2, <2>1, <2>4
    <2> HIDE DEF all
    <2> QED
      BY <1>4, <2>1, <2>5
  <1> QED
    BY <1>5, <1>6, <1>7

\* A new compactor knows from the segments what the old one had drained.
LEMMA RestartInv ==
  ASSUME Inv, Restart
  PROVE Inv'
  <1>1. /\ UNCHANGED <<hot, segs, rd, cur, q, left, sealed, odd>> /\ Track
        /\ HotInv /\ SegsInv /\ MarksOk /\ PassInv /\ QueryInv /\ cp' = NewCompactor(Primed)
    BY DEF Restart, CompactorQuiet, Inv
  <1>2. HotInv' /\ HotStep /\ PinsKept("query")
    BY <1>1, SameHot DEF HotInv
  <1>3. ReadsOk' /\ rd'["query"] = rd["query"]
    BY <1>1 DEF Inv, ReadsOk
  <1>4. PICK seed : seed = Primed
    OBVIOUS
  <1>5. /\ seed \in [Insts -> [Chunks -> Nat]]
        /\ \A i \in Insts, c \in Chunks :
              seed[i][c] <= Gen(i, c) /\ (seed[i][c] = 0 \/ Archived(Key(i, c, seed[i][c])))
        /\ \A s \in DOMAIN segs : \A p \in Stored(s) : p.key.gen <= seed[p.key.inst][p.key.chunk]
    BY <1>1, <1>4, PrimedFacts
  <1>6. /\ cp' \in CpTypes /\ cp'.pc = "idle" /\ cp'.src = 0 /\ cp'.open = 0 /\ cp'.seed = seed
    BY <1>1, <1>4, <1>5, NewFacts
  <1>7. SegsInv'
    BY <1>1, <1>2, SegsKept
  <1>8. PassInv'
    <2>1. cur' \in Nat /\ 0 <= cur'
      BY <1>2 DEF HotInv, Insts
    <2> QED
      BY <1>3, <1>6, <2>1, BetweenChunks
  <1>9. MarksOk'
    <2>1. ASSUME NEW i \in Insts, NEW c \in Chunks
          PROVE (cp.seed[i][c] <= Gen(i, c) /\ (i > cp.src => Accounted(Key(i, c, cp.seed[i][c]))))'
      <3> PICK m \in Nat : m = seed[i][c]
        BY <1>5
      <3>1. cp'.seed[i][c] = m
        BY <1>6
      <3>2. m <= Gen(i, c)'
        BY <1>1, <1>5 DEF Gen
      <3>3. Accounted(Key(i, c, m))'
        <4>1. m = 0 \/ Archived(Key(i, c, m))
          BY <1>5
        <4> QED
          BY <1>1, <4>1 DEF Accounted, Archived, Key
      <3> QED
        BY <3>1, <3>2, <3>3
    <2>2. ASSUME NEW s \in DOMAIN segs', NEW p \in Stored(s)' PROVE Marked(p.key)'
      <3>1. s \in DOMAIN segs /\ p \in Stored(s)
        BY <1>1, <2>2 DEF Stored
      <3>2. p.key.inst \in Insts /\ p.key.gen <= seed[p.key.inst][p.key.chunk]
        BY <1>1, <1>5, <3>1, StoredType
      <3> QED
        BY <1>6, <3>2 DEF Marked, Insts
    <2> QED
      BY <1>6, <2>1, <2>2 DEF MarksOk
  <1>10. ColdPhase'
    <2>1. must'.cold \subseteq must.cold
      BY <1>1, TrackFacts
    <2>2. 0 \notin DOMAIN segs
      BY <1>1, LenProperties DEF SegsInv
    <2> QED
      BY <1>1, <1>6, <2>1, <2>2 DEF QueryInv, ColdPhase, Stored, RowAt
  <1> QED
    BY <1>1, <1>2, <1>3, <1>7, <1>8, <1>9, <1>10, CompactorStep

----------------------------------------------------------------------------
(***************************************************************************)
(* The theorems.                                                           *)
(***************************************************************************)
LEMMA CompactInv ==
  ASSUME Inv, Compact
  PROVE Inv'
  BY StartPassInv, CheckStateInv, CheckGenInv, BeforeInv, PinChunkInv, UnpinChunkInv, CheckAfterInv,
     AppendPageInv, SizeRollInv, AgeRollInv, EnforceInv, RestartInv DEF Compact

LEMMA NextInv == Inv /\ [Next]_vars => Inv'
  <1> SUFFICES ASSUME Inv, [Next]_vars PROVE Inv'
    OBVIOUS
  <1>1. CASE Next
    BY <1>1, WriterInv, CompactInv, StopInv, CrashInv, QueryStartInv, QueryInvStep DEF Next
  <1>2. CASE UNCHANGED vars
    <2>1. /\ UNCHANGED <<hot, cur, cp, segs, rd, q, left, sealed, odd, must>>
          /\ HotInv /\ SegsInv /\ MarksOk /\ PassInv /\ ReadsOk /\ QueryInv
      BY <1>2 DEF vars, Inv
    <2>2. HotInv'
      BY <2>1, SameHot DEF HotInv
    <2>3. SegsInv' /\ MarksOk'
      BY <2>1 DEF SegsInv, OnePage, Present, Stored, PageOk, Gen, MarksOk, Accounted, Archived, Marked, Key
    <2>4. PassInv' /\ ReadsOk'
      BY <2>1 DEF PassInv, ReadsOk, Took, TookKey, Whole, Chunk, Gen, Closed, NextOf
    <2>5. QueryInv'
      BY <2>1 DEF QueryInv, QTook, HotRows, Seen, ColdPhase, Stored, RowAt, Marked, HotPhase, QChunk, Gen,
         Leased, Awaited
    <2> QED
      BY <2>2, <2>3, <2>4, <2>5 DEF Inv
  <1> QED
    BY <1>1, <1>2

LEMMA Invariant == Spec => []Inv
  BY InitInv, NextInv, PTL DEF Spec

\* The watermarks and the segments tell the same story: no generation of a chunk is in two cold
\* pages, and what a watermark covers is in a segment, or was in one that retention removed,
\* unless the chunk was recycled, hidden or out of leases as it was read; whatever passes,
\* crashes, restarts and evictions there were (compactor.rs: drain_view, prime_from_cold).
THEOREM DrainIsSound == Spec => []DrainSound
  <1>1. Inv => DrainSound
    BY InvImplies
  <1> QED
    BY <1>1, Invariant, PTL

\* A cold page has every row that its chunk had when it was sealed: the test of the state, the
\* pin and the second look at the generation leave no way for a part of a chunk to become a page
\* (compactor.rs: drain_view and transpose_chunk), except the one odd keeps the history of.
THEOREM PagesAreWhole == Spec => []PageWhole
  <1>1. Inv => PageWhole
    BY InvImplies
  <1> QED
    BY <1>1, Invariant, PTL

\* No query counts a row twice, however the compactor moves chunks to segments while it runs
\* (memtable_sql.rs: HotColdTable::scan leaves out of the ring what it covered in the segments).
THEOREM CountsOnce == Spec => []CountedOnce
  <1>1. Inv => CountedOnce
    BY InvImplies
  <1> QED
    BY <1>1, Invariant, PTL

\* Where a chunk has a lease for the compactor and one for the query, a query that is done has
\* every row that stayed in one tier while it ran (memtable_sql.rs: scan, chunk_to_recordbatch).
THEOREM QueriesAreExact ==
  ASSUME LeaseSlots >= 2
  PROVE Spec => []QueryExact
  <1>1. Inv => QueryExact
    BY InvImplies
  <1> QED
    BY <1>1, Invariant, PTL

----------------------------------------------------------------------------
(***************************************************************************)
(* Retention.  The directory of segments that the processes of a machine   *)
(* share is a specification of its own, ColdStore, with state of its own.  *)
(*                                                                         *)
(* The invariant says of each pass what it knows: the segments it may      *)
(* remove are sealed or gone, the total it keeps covers their bytes, and   *)
(* while no passes overlap, the newest is still there and the total counts *)
(* no byte that is gone.                                                   *)
(***************************************************************************)
\* StoreAssumption, for the provers.
Limits == /\ Enforcers \subseteq Procs
          /\ {MaxBytes, Ttl, MaxSegs, MaxSize, MaxClock, MaxDeaths} \subseteq Nat


\* A set of naturals that is not empty has a least element: of the sets of its
\* elements up to one of them, some is minimal.
LEMMA Least ==
  ASSUME NEW S \in SUBSET Nat, S # {}
  PROVE \E m \in S : \A x \in S : m <= x
  <1> DEFINE Upto(x) == {y \in S : y <= x}
             T == {Upto(x) : x \in S}
             R == StrictSubsetOrdering(S)
  <1>1. \A x \in S : Upto(x) \in FiniteSubsetsOf(S)
    <2> SUFFICES ASSUME NEW x \in S PROVE Upto(x) \in FiniteSubsetsOf(S)
      OBVIOUS
    <2>1. Upto(x) \in SUBSET Nat /\ x \in Nat /\ \A y \in Upto(x) : y <= x
      OBVIOUS
    <2>2. IsFiniteSet(Upto(x))
      BY <2>1, FS_BoundedSetOfNaturals
    <2> QED
      BY <2>2 DEF FiniteSubsetsOf
  <1>2. T \subseteq FiniteSubsetsOf(S) /\ T # {}
    BY <1>1
  <1>3. IsWellFoundedOn(R, FiniteSubsetsOf(S))
    BY FS_StrictSubsetOrderingWellFounded
  <1> HIDE DEF R, T
  <1>4. \E A \in T : \A B \in T : ~ (<<B, A>> \in R)
    BY <1>2, <1>3, WFMin
  <1> USE DEF R, T
  <1>5. PICK m \in S : \A x \in S : ~ (<<Upto(x), Upto(m)>> \in R)
    BY <1>4
  <1>6. ASSUME NEW x \in S, ~(m <= x) PROVE FALSE
    <2>0. x \in Nat /\ m \in Nat /\ x < m /\ \A y \in S : y \in Nat
      BY <1>6
    <2>a. Upto(x) \subseteq Upto(m)
      <3> SUFFICES ASSUME NEW y \in S, y <= x PROVE y <= m
        OBVIOUS
      <3> y \in Nat
        OBVIOUS
      <3> QED
        BY <2>0
    <2>b. m \in Upto(m) /\ m \notin Upto(x)
      BY <2>0
    <2>1. Upto(x) \subseteq Upto(m) /\ m \in Upto(m) /\ m \notin Upto(x) /\ Upto(m) \subseteq S
      BY <2>a, <2>b
    <2>2. <<Upto(x), Upto(m)>> \in R
      BY <2>1 DEF StrictSubsetOrdering
    <2> QED
      BY <1>5, <2>2
  <1> QED
    BY <1>6


Seg == [state : {"stub", "open", "sealed", "gone"}, size : 0 .. MaxSize, mtime : Nat]
Pass == [pc : {"idle", "validate", "evict", "down"}, paths : Seq(Nat), i : Nat \ {0},
         protected : SUBSET Nat, total : Nat]

Files ==
    /\ dir \in Seq(Seg) /\ Len(dir) <= MaxSegs
    /\ clock \in Nat /\ crossed \in BOOLEAN /\ excess \in BOOLEAN
    /\ \A s \in 1 .. Len(dir) : dir[s].mtime <= clock /\ (dir[s].state = "gone" => dir[s].size = 0)

\* Nobody else writes a process's segment, and it is not sealed.
Writers ==
    /\ writing \in [Procs -> Nat]
    /\ \A p \in Procs : writing[p] # 0 => writing[p] \in 1 .. Len(dir) /\ dir[writing[p]].state \in {"stub", "open"}
    /\ \A p, o \in Procs : writing[p] # 0 /\ writing[p] = writing[o] => p = o

\* What a segment adds to the bytes of the segments ss, and their bytes.
Weight(d, ss, n) == IF n \in ss THEN d[n].size ELSE 0
BytesIn(d, ss) ==
    LET bytes[n \in 0 .. Len(d)] == IF n = 0 THEN 0 ELSE bytes[n - 1] + Weight(d, ss, n)
    IN bytes[Len(d)]

\* The segments a pass has yet to look at and may remove.
Ahead(paths, i, protected) == {paths[j] : j \in {k \in 1 .. Len(paths) : i <= k}} \ protected
Listed(paths) == {paths[j] : j \in 1 .. Len(paths)}

\* A pass lists each segment once, and may remove one that is sealed or gone.
Sane(d, paths, seen, protected) ==
    /\ paths # <<>>
    /\ \A j \in 1 .. Len(paths) : paths[j] \in 1 .. Len(d)
    /\ \A j, k \in 1 .. Len(paths) : paths[j] = paths[k] => j = k
    /\ \A j \in 1 .. Len(paths) :
         j < seen /\ paths[j] \notin protected => d[paths[j]].state \in {"sealed", "gone"}

\* Its total covers what it may still remove, and unless passes overlap it
\* counts nothing that is gone.
Counted(d, paths, i, protected, total, company) ==
    /\ paths[Len(paths)] \in protected
    /\ BytesIn(d, Ahead(paths, i, protected)) <= total
    /\ company = "none" => /\ d[paths[Len(paths)]].state # "gone"
                /\ total <= BytesIn(d, Listed(paths))

PassOK(e, d, company) ==
    /\ e.protected \subseteq 1 .. Len(d) /\ e.total <= MaxSegs * MaxSize
    /\ e.pc = "validate" => Sane(d, e.paths, e.i, e.protected)
    /\ e.pc = "evict" => /\ Sane(d, e.paths, Len(e.paths) + 1, e.protected)
                         /\ Counted(d, e.paths, e.i, e.protected, e.total, company)

Company == IF crossed THEN "others" ELSE "none"
Passes == en \in [Procs -> Pass] /\ \A p \in Procs : PassOK(en[p], dir, Company)

There(d) == {n \in 1 .. Len(d) : d[n].state # "gone"}
Remains == dir # <<>> /\ ~crossed => There(dir) # {}

StoreInv == Files /\ Writers /\ Passes /\ Remains /\ ~excess

(***************************************************************************)
(* Bytes of segments.                                                      *)
(***************************************************************************)
\* Segment by segment, each adds its own.
Adds(f, d, ss, N) == /\ BytesIn(d, ss) = f[N] /\ f[0] = 0
                     /\ \A n \in 1 .. N : f[n] = f[n - 1] + Weight(d, ss, n)

LEMMA BytesSteps ==
  ASSUME NEW d, NEW ss, NEW N \in Nat, N = Len(d)
  PROVE  \E f : Adds(f, d, ss, N)
  <1> DEFINE w(n) == Weight(d, ss, n)
             Upto(f, n) == /\ DOMAIN f = 0 .. n /\ f[0] = 0
                           /\ \A k \in 1 .. n : f[k] = f[k - 1] + w(k)
             S == {n \in 0 .. N : ~ \E f : Upto(f, n)}
             body(h, n) == IF n = 0 THEN 0 ELSE h[n - 1] + w(n)
  <1>b. BytesIn(d, ss) = (CHOOSE h : h = [n \in 0 .. N |-> body(h, n)])[N]
    BY Zenon DEF BytesIn
  <1> HIDE DEF w
  <1>1. S = {}
    <2> SUFFICES ASSUME S # {} PROVE FALSE
      OBVIOUS
    <2>1. S \in SUBSET Nat
      OBVIOUS
    <2>2. PICK n \in S : \A x \in S : n <= x
      BY <2>1, Least
    <2>3. n \in Nat /\ n <= N
      BY <2>2
    <2>4. CASE n = 0
      <3> DEFINE f == [k \in 0 .. 0 |-> 0]
      <3>1. Upto(f, 0)
        OBVIOUS
      <3> QED
        BY <2>2, <2>4, <3>1
    <2>5. CASE n # 0
      <3>1. n - 1 \in 0 .. N /\ n - 1 < n
        BY <2>3, <2>5
      <3>2. n - 1 \notin S
        BY <2>2, <2>3, <3>1
      <3>3. PICK f : Upto(f, n - 1)
        BY <3>1, <3>2
      <3> DEFINE g == [k \in 0 .. n |-> IF k < n THEN f[k] ELSE f[n - 1] + w(n)]
      <3>4. DOMAIN g = 0 .. n /\ g[0] = 0
        BY <2>3, <2>5, <3>3
      <3>5. ASSUME NEW k \in 1 .. n PROVE g[k] = g[k - 1] + w(k)
        <4>1. k \in Nat /\ k - 1 \in 0 .. n /\ k \in 0 .. n /\ k - 1 < n
          BY <2>3
        <4>2. g[k - 1] = f[k - 1]
          BY <4>1
        <4>3. CASE k < n
          <5>1. k \in 1 .. n - 1 /\ g[k] = f[k]
            BY <2>3, <4>1, <4>3
          <5> QED
            BY <3>3, <4>2, <5>1
        <4>4. CASE k = n
          <5>1. g[k] = f[n - 1] + w(n)
            BY <2>3, <4>1, <4>4
          <5> QED
            BY <4>2, <4>4, <5>1
        <4> QED
          BY <2>3, <4>1, <4>3, <4>4
      <3> HIDE DEF g
      <3>6. Upto(g, n)
        BY <3>4, <3>5
      <3> QED
        BY <2>2, <3>6
    <2> QED
      BY <2>4, <2>5
  <1>2. PICK f : Upto(f, N)
    <2>1. N \in 0 .. N
      OBVIOUS
    <2>2. \E f : Upto(f, N)
      <3> HIDE DEF Upto
      <3> QED
        BY <1>1, <2>1, Zenon
    <2> QED
      BY <2>2
  <1>4. \E h : h = [n \in 0 .. N |-> body(h, n)]
    <2> DEFINE h == [n \in 0 .. N |-> f[n]]
    <2>1. ASSUME NEW n \in 0 .. N PROVE h[n] = body(h, n)
      <3>1. CASE n = 0
        BY <1>2, <3>1
      <3>2. CASE n # 0
        <4>1. n \in 1 .. N /\ n - 1 \in 0 .. N
          BY <3>2
        <4>2. h[n] = f[n] /\ h[n - 1] = f[n - 1]
          BY <4>1
        <4> HIDE DEF h
        <4> QED
          BY <1>2, <3>2, <4>1, <4>2
      <3> QED
        BY <3>1, <3>2
    <2>2. DOMAIN h = 0 .. N /\ h = [n \in 0 .. N |-> h[n]]
      OBVIOUS
    <2> HIDE DEF h
    <2>3. h = [n \in 0 .. N |-> body(h, n)]
      BY <2>1, <2>2
    <2> QED
      BY <2>3
  <1> DEFINE t == CHOOSE h : h = [n \in 0 .. N |-> body(h, n)]
  <1>5. t = [n \in 0 .. N |-> body(t, n)]
    BY <1>4, Zenon
  <1>c. BytesIn(d, ss) = t[N]
    BY <1>b
  <1> HIDE DEF t
  <1>6. ASSUME NEW n \in 0 .. N PROVE t[n] = body(t, n)
    BY <1>5
  <1>7. t[0] = 0
    BY <1>6
  <1>8. ASSUME NEW n \in 1 .. N PROVE t[n] = t[n - 1] + w(n)
    <2>1. n \in 0 .. N /\ n # 0
      OBVIOUS
    <2> QED
      BY <1>6, <2>1
  <1> QED
    BY <1>7, <1>8, <1>c DEF w, Adds

\* A weight is a size.
LEMMA WeightType ==
  ASSUME MaxSize \in Nat, NEW d \in Seq(Seg), NEW ss, NEW n \in 1 .. Len(d)
  PROVE  Weight(d, ss, n) \in 0 .. MaxSize
  <1> PICK x \in Seg : x = d[n]
    OBVIOUS
  <1>1. x.size \in 0 .. MaxSize
    BY DEF Seg
  <1> QED
    BY <1>1 DEF Weight

\* The sizes of N segments add up to a number, of at most N times the largest.
LEMMA BytesType ==
  ASSUME MaxSize \in Nat, NEW d \in Seq(Seg), NEW ss
  PROVE  BytesIn(d, ss) \in Nat /\ BytesIn(d, ss) <= Len(d) * MaxSize
  <1> PICK N \in Nat, M \in Nat : N = Len(d) /\ M = MaxSize
    OBVIOUS
  <1>a. PICK f : Adds(f, d, ss, N)
    BY BytesSteps
  <1> /\ BytesIn(d, ss) = f[N] /\ f[0] = 0
      /\ \A n \in 1 .. N : f[n] = f[n - 1] + Weight(d, ss, n)
    BY <1>a DEF Adds
  <1> DEFINE Good(n) == f[n] \in Nat /\ f[n] <= n * M
             S == {n \in 0 .. N : ~ Good(n)}
  <1>1. ASSUME S # {} PROVE FALSE
    <2>1. S \in SUBSET Nat
      OBVIOUS
    <2>2. PICK n \in S : \A x \in S : n <= x
      BY <1>1, <2>1, Least
    <2>3. n # 0
      BY <2>2
    <2>4. n \in 1 .. N /\ n - 1 \in 0 .. N /\ n - 1 < n
      BY <2>2, <2>3
    <2>5. Good(n - 1)
      BY <2>2, <2>4
    <2>6. PICK w \in 0 .. M : f[n] = f[n - 1] + w
      BY <2>4, WeightType
    <2>7. (n - 1) * M + M = n * M /\ (n - 1) * M \in Int /\ n * M \in Int
      BY <2>4
    <2> QED
      BY <2>2, <2>5, <2>6, <2>7
  <1>2. Good(N)
    <2>1. N \in 0 .. N
      OBVIOUS
    <2> HIDE DEF Good
    <2> QED
      BY <1>1, <2>1
  <1> QED
    BY <1>2

\* Where no weight is more, the bytes are not.
LEMMA BytesLe ==
  ASSUME MaxSize \in Nat, NEW d \in Seq(Seg), NEW e \in Seq(Seg), NEW ss, NEW tt, Len(d) = Len(e),
         \A n \in 1 .. Len(d) : Weight(d, ss, n) <= Weight(e, tt, n)
  PROVE  BytesIn(d, ss) <= BytesIn(e, tt)
  <1> PICK N \in Nat : N = Len(d)
    OBVIOUS
  <1>a. PICK f : Adds(f, d, ss, N)
    BY BytesSteps
  <1> /\ BytesIn(d, ss) = f[N] /\ f[0] = 0
      /\ \A n \in 1 .. N : f[n] = f[n - 1] + Weight(d, ss, n)
    BY <1>a DEF Adds
  <1>b. PICK g : Adds(g, e, tt, N)
    BY BytesSteps
  <1> /\ BytesIn(e, tt) = g[N] /\ g[0] = 0
      /\ \A n \in 1 .. N : g[n] = g[n - 1] + Weight(e, tt, n)
    BY <1>b DEF Adds
  <1> DEFINE Good(n) == f[n] \in Nat /\ g[n] \in Nat /\ f[n] <= g[n]
             S == {n \in 0 .. N : ~ Good(n)}
  <1>1. ASSUME S # {} PROVE FALSE
    <2>1. S \in SUBSET Nat
      OBVIOUS
    <2>2. PICK n \in S : \A x \in S : n <= x
      BY <1>1, <2>1, Least
    <2>3. n # 0
      BY <2>2
    <2>4. n \in 1 .. N /\ n - 1 \in 0 .. N /\ n - 1 < n
      BY <2>2, <2>3
    <2>5. Good(n - 1)
      BY <2>2, <2>4
    <2>6. PICK w, x : w = Weight(d, ss, n) /\ x = Weight(e, tt, n)
      OBVIOUS
    <2>7. w \in Nat /\ x \in Nat /\ w <= x
      BY <2>4, <2>6, WeightType
    <2>8. f[n] = f[n - 1] + w /\ g[n] = g[n - 1] + x
      BY <2>4, <2>6
    <2> QED
      BY <2>2, <2>5, <2>7, <2>8
  <1>2. Good(N)
    <2>1. N \in 0 .. N
      OBVIOUS
    <2> HIDE DEF Good
    <2> QED
      BY <1>1, <2>1
  <1> QED
    BY <1>2

\* Where one segment is left out, the bytes are less by its size.
LEMMA BytesDrop ==
  ASSUME MaxSize \in Nat, NEW d \in Seq(Seg), NEW e \in Seq(Seg), NEW ss, NEW tt, Len(d) = Len(e),
         NEW s \in 1 .. Len(d),
         \A n \in 1 .. Len(d) : Weight(e, tt, n) = IF n = s THEN 0 ELSE Weight(d, ss, n)
  PROVE  BytesIn(e, tt) = BytesIn(d, ss) - Weight(d, ss, s)
  <1> PICK N \in Nat : N = Len(d)
    OBVIOUS
  <1> PICK c : c = Weight(d, ss, s)
    OBVIOUS
  <1>c. c \in Nat
    BY WeightType
  <1>a. PICK f : Adds(f, d, ss, N)
    BY BytesSteps
  <1> /\ BytesIn(d, ss) = f[N] /\ f[0] = 0
      /\ \A n \in 1 .. N : f[n] = f[n - 1] + Weight(d, ss, n)
    BY <1>a DEF Adds
  <1>n. N = Len(e)
    OBVIOUS
  <1>b. PICK g : Adds(g, e, tt, N)
    BY <1>n, BytesSteps, Zenon
  <1> /\ BytesIn(e, tt) = g[N] /\ g[0] = 0
      /\ \A n \in 1 .. N : g[n] = g[n - 1] + Weight(e, tt, n)
    BY <1>b DEF Adds
  <1> DEFINE Good(n) == f[n] \in Nat /\ g[n] = IF n < s THEN f[n] ELSE f[n] - c
             S == {n \in 0 .. N : ~ Good(n)}
  <1>1. ASSUME S # {} PROVE FALSE
    <2>1. S \in SUBSET Nat
      OBVIOUS
    <2>2. PICK n \in S : \A x \in S : n <= x
      BY <1>1, <2>1, Least
    <2>3. n # 0
      BY <2>2
    <2>4. n \in 1 .. N /\ n - 1 \in 0 .. N /\ n - 1 < n
      BY <2>2, <2>3
    <2>5. Good(n - 1)
      BY <2>2, <2>4
    <2>6. PICK w, x : w = Weight(d, ss, n) /\ x = Weight(e, tt, n)
      OBVIOUS
    <2>7. w \in Nat /\ x = IF n = s THEN 0 ELSE w
      BY <2>4, <2>6, WeightType
    <2>8. f[n] = f[n - 1] + w /\ g[n] = g[n - 1] + x
      BY <2>4, <2>6
    <2>9. n = s => w = c
      BY <2>6
    <2> QED
      BY <1>c, <2>2, <2>4, <2>5, <2>7, <2>8, <2>9
  <1>2. Good(N)
    <2>1. N \in 0 .. N
      OBVIOUS
    <2> HIDE DEF Good
    <2> QED
      BY <1>1, <2>1
  <1>3. ~ (N < s)
    OBVIOUS
  <1> QED
    BY <1>2, <1>3

\* A segment that is added adds nothing when it weighs nothing.
LEMMA BytesAppend ==
  ASSUME MaxSize \in Nat, NEW d \in Seq(Seg), NEW x \in Seg, NEW ss, ss \subseteq 1 .. Len(d)
  PROVE  BytesIn(Append(d, x), ss) = BytesIn(d, ss)
  <1> PICK N \in Nat : N = Len(d)
    OBVIOUS
  <1> PICK e : e = Append(d, x)
    OBVIOUS
  <1>e. /\ e \in Seq(Seg) /\ Len(e) = N + 1 /\ N + 1 \in Nat
        /\ \A n \in 1 .. N : e[n] = d[n]
    OBVIOUS
  <1>w. /\ Weight(e, ss, N + 1) = 0
        /\ \A n \in 1 .. N : Weight(e, ss, n) = Weight(d, ss, n)
    BY <1>e DEF Weight
  <1>a. PICK f : Adds(f, d, ss, N)
    BY BytesSteps
  <1> /\ BytesIn(d, ss) = f[N] /\ f[0] = 0
      /\ \A n \in 1 .. N : f[n] = f[n - 1] + Weight(d, ss, n)
    BY <1>a DEF Adds
  <1> PICK M \in Nat : M = N + 1
    BY <1>e
  <1>m. M = Len(e)
    BY <1>e
  <1>b. PICK g : Adds(g, e, ss, M)
    BY <1>m, BytesSteps, Zenon
  <1> /\ BytesIn(e, ss) = g[M] /\ g[0] = 0
      /\ \A n \in 1 .. M : g[n] = g[n - 1] + Weight(e, ss, n)
    BY <1>b DEF Adds
  <1> DEFINE Good(n) == f[n] \in Nat /\ g[n] = f[n]
             S == {n \in 0 .. N : ~ Good(n)}
  <1>1. ASSUME S # {} PROVE FALSE
    <2>1. S \in SUBSET Nat
      OBVIOUS
    <2>2. PICK n \in S : \A y \in S : n <= y
      BY <1>1, <2>1, Least
    <2>3. n # 0
      BY <2>2
    <2>4. n \in 1 .. N /\ n \in 1 .. M /\ n - 1 \in 0 .. N /\ n - 1 < n
      BY <2>2, <2>3
    <2>5. Good(n - 1)
      BY <2>2, <2>4
    <2>6. PICK w : w = Weight(d, ss, n)
      OBVIOUS
    <2>7. w \in Nat /\ Weight(e, ss, n) = w
      BY <1>w, <2>4, <2>6, WeightType
    <2>8. f[n] = f[n - 1] + w /\ g[n] = g[n - 1] + w
      BY <2>4, <2>6, <2>7
    <2> QED
      BY <2>2, <2>5, <2>8, <2>7
  <1>2. Good(N)
    <2>1. N \in 0 .. N
      OBVIOUS
    <2> HIDE DEF Good
    <2> QED
      BY <1>1, <2>1
  <1>3. g[M] = g[N] + 0
    <2>1. M \in 1 .. M /\ M - 1 = N
      OBVIOUS
    <2> QED
      BY <1>w, <2>1
  <1> QED
    BY <1>2, <1>3

(***************************************************************************)
(* Passes.                                                                 *)
(***************************************************************************)
Frozen == {"sealed", "gone"}

\* The parts of a pass.
LEMMA PassParts ==
  ASSUME NEW e \in Pass
  PROVE  /\ e.paths \in Seq(Nat) /\ e.i \in Nat /\ e.i > 0 /\ e.total \in Nat
         /\ e.protected \in SUBSET Nat /\ e.pc \in {"idle", "validate", "evict", "down"}
  BY DEF Pass

\* What a pass has yet to look at is listed, and may be removed.
LEMMA AheadFacts ==
  ASSUME NEW d \in Seq(Seg), NEW paths \in Seq(Nat), NEW i \in Nat, NEW protected,
         NEW N \in Nat, N = Len(paths), Sane(d, paths, N + 1, protected)
  PROVE  /\ Listed(paths) \subseteq 1 .. Len(d)
         /\ Ahead(paths, i, protected) \subseteq Listed(paths)
         /\ \A n \in Ahead(paths, i, protected) : d[n].state \in Frozen
  <1>1. Listed(paths) \subseteq 1 .. Len(d)
    BY DEF Sane, Listed
  <1>2. Ahead(paths, i, protected) \subseteq Listed(paths)
    BY DEF Ahead, Listed
  <1>3. ASSUME NEW n \in Ahead(paths, i, protected) PROVE d[n].state \in Frozen
    <2>1. PICK j \in 1 .. N : n = paths[j] /\ n \notin protected
      BY DEF Ahead
    <2>2. j < N + 1
      OBVIOUS
    <2> QED
      BY <2>1, <2>2 DEF Sane, Frozen
  <1> QED
    BY <1>1, <1>2, <1>3

\* What becomes of the segments a pass lists, sealed ones staying as they are.
LEMMA SaneKept ==
  ASSUME NEW d \in Seq(Seg), NEW d2 \in Seq(Seg), Len(d) <= Len(d2),
         NEW paths \in Seq(Nat), NEW seen \in Nat, NEW protected,
         \A n \in 1 .. Len(d) : d[n].state \in Frozen => d2[n].state \in Frozen,
         Sane(d, paths, seen, protected)
  PROVE  Sane(d2, paths, seen, protected)
  <1> PICK N \in Nat, K \in Nat, K2 \in Nat : N = Len(paths) /\ K = Len(d) /\ K2 = Len(d2)
    OBVIOUS
  <1>1. ASSUME NEW j \in 1 .. N PROVE paths[j] \in 1 .. K2
    <2>1. paths[j] \in 1 .. K
      BY DEF Sane
    <2> QED
      BY <2>1
  <1>2. ASSUME NEW j \in 1 .. N, j < seen, paths[j] \notin protected
        PROVE  d2[paths[j]].state \in Frozen
    <2>1. paths[j] \in 1 .. K /\ d[paths[j]].state \in Frozen
      BY <1>2 DEF Sane, Frozen
    <2> QED
      BY <2>1
  <1>3. paths # <<>> /\ \A j, k \in 1 .. N : paths[j] = paths[k] => j = k
    BY DEF Sane
  <1> QED
    BY <1>1, <1>2, <1>3 DEF Sane, Frozen

\* Nothing is removed and what is sealed stays as it is: every pass stays right.
LEMMA PassStays ==
  ASSUME MaxSize \in Nat, NEW d \in Seq(Seg), NEW d2 \in Seq(Seg), Len(d) <= Len(d2),
         NEW e \in Pass, NEW company, PassOK(e, d, company),
         \A n \in 1 .. Len(d) : /\ d[n].state \in Frozen => d2[n].state \in Frozen
                                /\ d2[n].state = "gone" => d[n].state = "gone",
         \A ss \in SUBSET (1 .. Len(d)) :
            /\ BytesIn(d, ss) <= BytesIn(d2, ss)
            /\ (\A n \in ss : d[n].state \in Frozen) => BytesIn(d2, ss) = BytesIn(d, ss)
  PROVE  PassOK(e, d2, company)
  <1> PICK paths \in Seq(Nat), i \in Nat, protected \in SUBSET Nat, total \in Nat :
        paths = e.paths /\ i = e.i /\ protected = e.protected /\ total = e.total
    BY PassParts
  <1> PICK N \in Nat : N = Len(paths)
    OBVIOUS
  <1> PICK K \in Nat, K2 \in Nat : K = Len(d) /\ K2 = Len(d2)
    OBVIOUS
  <1>1. protected \subseteq 1 .. K2 /\ e.total <= MaxSegs * MaxSize
    <2>1. protected \subseteq 1 .. K /\ K <= K2 /\ e.total <= MaxSegs * MaxSize
      BY DEF PassOK
    <2>2. 1 .. K \subseteq 1 .. K2
      BY <2>1
    <2> QED
      BY <2>1, <2>2
  <1>2. CASE e.pc = "validate"
    <2>1. Sane(d, paths, i, protected)
      BY <1>2 DEF PassOK
    <2>2. Sane(d2, paths, i, protected)
      BY <2>1, SaneKept
    <2> QED
      BY <1>1, <1>2, <2>2 DEF PassOK
  <1>3. CASE e.pc = "evict"
    <2>1. Sane(d, paths, N + 1, protected) /\ Counted(d, paths, i, protected, total, company)
      BY <1>3 DEF PassOK
    <2>2. Sane(d2, paths, N + 1, protected)
      BY <2>1, SaneKept
    <2>3. /\ Listed(paths) \subseteq 1 .. K
          /\ Ahead(paths, i, protected) \subseteq Listed(paths)
          /\ \A n \in Ahead(paths, i, protected) : d[n].state \in Frozen
      BY <2>1, AheadFacts
    <2>4. BytesIn(d2, Ahead(paths, i, protected)) = BytesIn(d, Ahead(paths, i, protected))
      BY <2>3
    <2>5. BytesIn(d, Listed(paths)) <= BytesIn(d2, Listed(paths))
      BY <2>3
    <2>6. N \in 1 .. N /\ paths[N] \in 1 .. K
      BY <2>1 DEF Sane
    <2>7. /\ paths[N] \in protected /\ BytesIn(d2, Ahead(paths, i, protected)) <= total
      BY <2>1, <2>4 DEF Counted
    <2>8. ASSUME company = "none" PROVE d2[paths[N]].state # "gone" /\ total <= BytesIn(d2, Listed(paths))
      <3>1. d[paths[N]].state # "gone" /\ total <= BytesIn(d, Listed(paths))
        BY <2>1, <2>8 DEF Counted
      <3>2. d2[paths[N]].state # "gone"
        BY <2>6, <3>1
      <3> PICK x \in Nat, y \in Nat : x = BytesIn(d, Listed(paths)) /\ y = BytesIn(d2, Listed(paths))
        BY BytesType
      <3> QED
        BY <2>5, <3>1, <3>2
    <2>9. Counted(d2, paths, i, protected, total, company)
      BY <2>7, <2>8 DEF Counted
    <2> QED
      BY <1>1, <1>3, <2>2, <2>9 DEF PassOK
  <1>4. CASE e.pc \notin {"validate", "evict"}
    BY <1>1, <1>4 DEF PassOK
  <1> QED
    BY <1>2, <1>3, <1>4

\* A segment is removed during somebody else's pass.
LEMMA PassCrossed ==
  ASSUME MaxSize \in Nat, NEW d \in Seq(Seg), NEW d2 \in Seq(Seg), Len(d) = Len(d2),
         NEW e \in Pass, NEW company, PassOK(e, d, company),
         \A n \in 1 .. Len(d) : d[n].state \in Frozen => d2[n].state \in Frozen,
         \A ss \in SUBSET (1 .. Len(d)) : BytesIn(d2, ss) <= BytesIn(d, ss)
  PROVE  PassOK(e, d2, "others")
  <1> PICK paths \in Seq(Nat), i \in Nat, protected \in SUBSET Nat, total \in Nat :
        paths = e.paths /\ i = e.i /\ protected = e.protected /\ total = e.total
    BY PassParts
  <1> PICK N \in Nat : N = Len(paths)
    OBVIOUS
  <1>0. Len(d) <= Len(d2)
    OBVIOUS
  <1>1. protected \subseteq 1 .. Len(d2) /\ e.total <= MaxSegs * MaxSize
    BY DEF PassOK
  <1>2. CASE e.pc = "validate"
    <2>1. Sane(d, paths, i, protected)
      BY <1>2 DEF PassOK
    <2>2. Sane(d2, paths, i, protected)
      BY <1>0, <2>1, SaneKept
    <2> QED
      BY <1>1, <1>2, <2>2 DEF PassOK
  <1>3. CASE e.pc = "evict"
    <2>1. Sane(d, paths, N + 1, protected) /\ Counted(d, paths, i, protected, total, company)
      BY <1>3 DEF PassOK
    <2>2. Sane(d2, paths, N + 1, protected)
      BY <2>1, SaneKept
    <2>3. Ahead(paths, i, protected) \subseteq 1 .. Len(d)
      BY <2>1, AheadFacts
    <2> PICK x \in Nat, y \in Nat : /\ x = BytesIn(d, Ahead(paths, i, protected))
                                    /\ y = BytesIn(d2, Ahead(paths, i, protected))
      BY BytesType
    <2>4. y <= x
      BY <2>3
    <2>5. x <= total /\ paths[N] \in protected
      BY <2>1 DEF Counted
    <2>6. y <= total
      BY <2>4, <2>5
    <2>7. Counted(d2, paths, i, protected, total, "others")
      BY <2>5, <2>6 DEF Counted
    <2> QED
      BY <1>1, <1>3, <2>2, <2>7 DEF PassOK
  <1>4. CASE e.pc \notin {"validate", "evict"}
    BY <1>1, <1>4 DEF PassOK
  <1> QED
    BY <1>2, <1>3, <1>4

\* A pass that is not under way.
LEMMA PassIdle ==
  ASSUME NEW e \in Pass, e.pc \in {"idle", "down"}, e.protected = {}, e.total = 0,
         MaxSegs \in Nat, MaxSize \in Nat, NEW d, NEW company
  PROVE  PassOK(e, d, company)
  <1> PICK a \in Nat, b \in Nat : a = MaxSegs /\ b = MaxSize
    OBVIOUS
  <1>1. 0 <= a * b
    OBVIOUS
  <1> QED
    BY <1>1 DEF PassOK

\* The passes begin: nothing is seen yet.
LEMMA PassBegins ==
  ASSUME NEW e \in Pass, e.pc = "validate", e.protected = {}, e.total = 0, e.i = 1,
         MaxSegs \in Nat, MaxSize \in Nat, NEW d \in Seq(Seg), NEW company,
         e.paths # <<>>,
         \A j \in 1 .. Len(e.paths) : e.paths[j] \in 1 .. Len(d),
         \A j, k \in 1 .. Len(e.paths) : e.paths[j] = e.paths[k] => j = k
  PROVE  PassOK(e, d, company)
  <1> PICK a \in Nat, b \in Nat : a = MaxSegs /\ b = MaxSize
    OBVIOUS
  <1>1. 0 <= a * b
    OBVIOUS
  <1> PICK paths \in Seq(Nat) : paths = e.paths
    BY PassParts
  <1>2. Sane(d, paths, 1, {})
    <2> PICK N \in Nat : N = Len(paths)
      OBVIOUS
    <2>1. \A j \in 1 .. N : ~ (j < 1)
      OBVIOUS
    <2> QED
      BY <2>1 DEF Sane
  <1> QED
    BY <1>1, <1>2 DEF PassOK

\* One more segment has been opened.
LEMMA PassValidates ==
  ASSUME NEW e \in Pass, NEW e2 \in Pass, NEW d \in Seq(Seg), NEW company, PassOK(e, d, company),
         e.pc = "validate", e2.pc = "validate", e2.paths = e.paths, e2.total = e.total,
         e.i <= Len(e.paths), e2.i = e.i + 1,
         NEW s, s = e.paths[e.i],
         e2.protected = IF d[s].state \in Frozen THEN e.protected ELSE e.protected \cup {s}
  PROVE  PassOK(e2, d, company)
  <1> PICK paths \in Seq(Nat), i \in Nat, protected \in SUBSET Nat, more \in SUBSET Nat :
        paths = e.paths /\ i = e.i /\ protected = e.protected /\ more = e2.protected
    BY PassParts
  <1> PICK N \in Nat : N = Len(paths)
    OBVIOUS
  <1>0. i > 0 /\ i <= N /\ s = paths[i] /\ s \in 1 .. Len(d) /\ Sane(d, paths, i, protected)
    <2>1. i > 0 /\ i <= N /\ Sane(d, paths, i, protected)
      BY PassParts DEF PassOK
    <2>2. i \in 1 .. N
      BY <2>1
    <2> QED
      BY <2>1, <2>2 DEF Sane
  <1>1. more \subseteq 1 .. Len(d) /\ protected \subseteq more /\ e.total <= MaxSegs * MaxSize
    BY <1>0 DEF PassOK
  <1>2. ASSUME NEW j \in 1 .. N, j < i + 1, paths[j] \notin more
        PROVE  d[paths[j]].state \in Frozen
    <2>1. CASE j < i
      BY <1>0, <1>1, <1>2, <2>1 DEF Sane, Frozen
    <2>2. CASE j = i
      BY <1>0, <1>2, <2>2
    <2> QED
      BY <1>0, <1>2, <2>1, <2>2
  <1>3. Sane(d, paths, i + 1, more)
    BY <1>0, <1>2 DEF Sane, Frozen
  <1> QED
    BY <1>1, <1>3 DEF PassOK

LEMMA TotalBound ==
  ASSUME NEW t \in Nat, NEW n \in Nat, NEW a \in Nat, NEW b \in Nat, t <= n * b, n <= a
  PROVE  t <= a * b
  <1> PICK k \in Nat : a = n + k
    <2>1. a - n \in Nat /\ a = n + (a - n)
      OBVIOUS
    <2> QED
      BY <2>1
  <1> PICK x \in Nat, y \in Nat : x = n * b /\ y = k * b
    OBVIOUS
  <1>1. a * b = x + y
    OBVIOUS
  <1> QED
    BY <1>1

\* All are opened and measured; the newest is protected.
LEMMA PassMeasures ==
  ASSUME MaxSize \in Nat, MaxSegs \in Nat,
         NEW e \in Pass, NEW e2 \in Pass, NEW d \in Seq(Seg), NEW company, PassOK(e, d, company),
         Len(d) <= MaxSegs,
         e.pc = "validate", e2.pc = "evict", e2.paths = e.paths, e.i > Len(e.paths), e2.i = 1,
         \A j \in 1 .. Len(e.paths) : d[e.paths[j]].state # "gone",
         e2.protected = e.protected \cup {e.paths[Len(e.paths)]},
         e2.total = BytesIn(d, Listed(e.paths))
  PROVE  PassOK(e2, d, company)
  <1> PICK paths \in Seq(Nat), i \in Nat, protected \in SUBSET Nat, more \in SUBSET Nat, total \in Nat :
        /\ paths = e.paths /\ i = e.i /\ protected = e.protected /\ more = e2.protected
        /\ total = e2.total
    BY PassParts
  <1> PICK N \in Nat : N = Len(paths)
    OBVIOUS
  <1>0. N < i /\ more = protected \cup {paths[N]} /\ total = BytesIn(d, Listed(paths))
    OBVIOUS
  <1>1. Sane(d, paths, i, protected) /\ protected \subseteq 1 .. Len(d)
    BY DEF PassOK
  <1>2. N \in 1 .. N /\ paths[N] \in 1 .. Len(d) /\ d[paths[N]].state # "gone"
    <2>1. N # 0
      BY <1>1 DEF Sane
    <2>2. N \in 1 .. N
      BY <2>1
    <2> QED
      BY <1>1, <2>2 DEF Sane
  <1>3. Sane(d, paths, N + 1, more)
    <2>1. \A j \in 1 .. N : j < i
      BY <1>0
    <2>2. \A j \in 1 .. N : paths[j] \notin more => d[paths[j]].state \in Frozen
      BY <1>0, <1>1, <2>1 DEF Sane, Frozen
    <2> QED
      BY <1>1, <2>2 DEF Sane, Frozen
  <1>4. more \subseteq 1 .. Len(d)
    BY <1>0, <1>1, <1>2
  <1>5. total <= MaxSegs * MaxSize
    <2> PICK n \in Nat, a \in Nat, b \in Nat : n = Len(d) /\ a = MaxSegs /\ b = MaxSize
      OBVIOUS
    <2>1. total <= n * b
      BY <1>0, BytesType
    <2>2. n <= a
      OBVIOUS
    <2> QED
      BY <2>1, <2>2, TotalBound, Zenon
  <1>6. BytesIn(d, Ahead(paths, 1, more)) <= total
    <2>1. Ahead(paths, 1, more) \subseteq Listed(paths)
      BY DEF Ahead, Listed
    <2>2. ASSUME NEW n \in 1 .. Len(d)
          PROVE  Weight(d, Ahead(paths, 1, more), n) <= Weight(d, Listed(paths), n)
      <3> PICK w \in Nat, x \in Nat : /\ w = Weight(d, Ahead(paths, 1, more), n)
                                      /\ x = Weight(d, Listed(paths), n)
        BY WeightType
      <3>1. CASE n \in Ahead(paths, 1, more)
        BY <2>1, <3>1 DEF Weight
      <3>2. CASE n \notin Ahead(paths, 1, more)
        BY <3>2 DEF Weight
      <3> QED
        BY <3>1, <3>2
    <2>3. BytesIn(d, Ahead(paths, 1, more)) <= BytesIn(d, Listed(paths))
      BY <2>2, BytesLe
    <2> QED
      BY <1>0, <2>3
  <1>7. Counted(d, paths, 1, more, total, company)
    BY <1>0, <1>2, <1>6 DEF Counted
  <1> QED
    BY <1>3, <1>4, <1>5, <1>7 DEF PassOK

\* A segment is passed over.
LEMMA PassSkips ==
  ASSUME MaxSize \in Nat,
         NEW e \in Pass, NEW e2 \in Pass, NEW d \in Seq(Seg), NEW company, PassOK(e, d, company),
         e.pc = "evict", e2.pc = "evict", e2.paths = e.paths, e2.i = e.i + 1,
         e2.protected = e.protected, e2.total = e.total
  PROVE  PassOK(e2, d, company)
  <1> PICK paths \in Seq(Nat), i \in Nat, protected \in SUBSET Nat, total \in Nat :
        paths = e.paths /\ i = e.i /\ protected = e.protected /\ total = e.total
    BY PassParts
  <1> PICK N \in Nat : N = Len(paths)
    OBVIOUS
  <1>1. Sane(d, paths, N + 1, protected) /\ Counted(d, paths, i, protected, total, company)
    BY DEF PassOK
  <1> PICK A, B : A = Ahead(paths, i, protected) /\ B = Ahead(paths, i + 1, protected)
    OBVIOUS
  <1>2. B \subseteq A
    <2>1. \A k \in 1 .. N : i + 1 <= k => i <= k
      OBVIOUS
    <2> QED
      BY <2>1 DEF Ahead
  <1>3. ASSUME NEW n \in 1 .. Len(d) PROVE Weight(d, B, n) <= Weight(d, A, n)
    <2> PICK w \in Nat, x \in Nat : w = Weight(d, B, n) /\ x = Weight(d, A, n)
      BY WeightType
    <2>1. CASE n \in B
      BY <1>2, <2>1 DEF Weight
    <2>2. CASE n \notin B
      BY <2>2 DEF Weight
    <2> QED
      BY <2>1, <2>2
  <1>4. BytesIn(d, B) <= BytesIn(d, A)
    BY <1>3, BytesLe
  <1> PICK x \in Nat, y \in Nat : x = BytesIn(d, A) /\ y = BytesIn(d, B)
    BY BytesType
  <1>5. y <= total
    BY <1>1, <1>4 DEF Counted
  <1>6. Counted(d, paths, i + 1, protected, total, company)
    BY <1>1, <1>5 DEF Counted
  <1>7. protected \subseteq 1 .. Len(d) /\ total <= MaxSegs * MaxSize
    BY DEF PassOK
  <1> QED
    BY <1>1, <1>6, <1>7 DEF PassOK

\* The directory without one segment.
Removed(d, s) == [d EXCEPT ![s].state = "gone", ![s].size = 0]

LEMMA RemovedFacts ==
  ASSUME MaxSize \in Nat, NEW d \in Seq(Seg), NEW s \in 1 .. Len(d)
  PROVE  /\ Removed(d, s) \in Seq(Seg) /\ Len(Removed(d, s)) = Len(d)
         /\ Removed(d, s)[s].state = "gone" /\ Removed(d, s)[s].size = 0
         /\ Removed(d, s)[s].mtime = d[s].mtime
         /\ \A n \in 1 .. Len(d) : n # s => Removed(d, s)[n] = d[n]
         /\ \A ss : BytesIn(Removed(d, s), ss) = BytesIn(d, ss) - Weight(d, ss, s)
  <1> PICK x \in Seg : x = d[s]
    OBVIOUS
  <1>0. x = [state |-> x.state, size |-> x.size, mtime |-> x.mtime] /\ x.mtime \in Nat
    BY DEF Seg
  <1> PICK y \in Nat : y = x.mtime
    BY <1>0
  <1> PICK z : z = [state |-> "gone", size |-> 0, mtime |-> y]
    OBVIOUS
  <1>1. z \in Seg /\ z.state = "gone" /\ z.size = 0 /\ z.mtime = y
    BY DEF Seg
  <1> PICK e : e = Removed(d, s)
    OBVIOUS
  <1>2. e = [d EXCEPT ![s] = z]
    <2>1. z = [x EXCEPT !.state = "gone", !.size = 0]
      <3> PICK u, v : u = x.state /\ v = x.size
        OBVIOUS
      <3>1. x = [state |-> u, size |-> v, mtime |-> y]
        BY <1>0
      <3>2. [x EXCEPT !.state = "gone"] = [state |-> "gone", size |-> v, mtime |-> y]
        BY <3>1
      <3>3. [[state |-> "gone", size |-> v, mtime |-> y] EXCEPT !.size = 0] = z
        OBVIOUS
      <3> QED
        BY <3>2, <3>3
    <2>2. e = [d EXCEPT ![s] = [x EXCEPT !.state = "gone", !.size = 0]]
      BY DEF Removed
    <2> QED
      BY <2>1, <2>2
  <1>3. /\ e \in Seq(Seg) /\ Len(e) = Len(d) /\ e[s] = z
        /\ \A n \in 1 .. Len(d) : n # s => e[n] = d[n]
    BY <1>1, <1>2
  <1>4. ASSUME NEW ss PROVE BytesIn(e, ss) = BytesIn(d, ss) - Weight(d, ss, s)
    <2>1. ASSUME NEW n \in 1 .. Len(d)
          PROVE  Weight(e, ss, n) = IF n = s THEN 0 ELSE Weight(d, ss, n)
      <3>1. CASE n = s
        BY <1>1, <1>3, <3>1 DEF Weight
      <3>2. CASE n # s
        BY <1>3, <3>2 DEF Weight
      <3> QED
        BY <3>1, <3>2
    <2> QED
      BY <1>3, <2>1, BytesDrop
  <1> QED
    BY <1>1, <1>3, <1>4

\* A directory and a set without one segment.
WithoutFile(d, d2, s) ==
    /\ d2[s].state = "gone" /\ d2[s].size = 0
    /\ \A n \in 1 .. Len(d) : n # s => d2[n] = d[n]
Without(A, B, s) == s \in A /\ \A n : n # s => (n \in A <=> n \in B)

LEMMA SaneRemoved ==
  ASSUME NEW d \in Seq(Seg), NEW d2 \in Seq(Seg), Len(d2) = Len(d), NEW s \in 1 .. Len(d),
         WithoutFile(d, d2, s),
         NEW paths \in Seq(Nat), NEW seen \in Nat, NEW protected, Sane(d, paths, seen, protected)
  PROVE  Sane(d2, paths, seen, protected)
  <1>1. \A n \in 1 .. Len(d) : d[n].state \in Frozen => d2[n].state \in Frozen
    BY DEF Frozen, WithoutFile
  <1>2. Len(d) <= Len(d2)
    OBVIOUS
  <1> QED
    BY <1>1, <1>2, SaneKept

LEMMA BytesRemoved ==
  ASSUME MaxSize \in Nat, NEW d \in Seq(Seg), NEW d2 \in Seq(Seg), Len(d2) = Len(d),
         NEW s \in 1 .. Len(d), WithoutFile(d, d2, s), NEW A, NEW B, Without(A, B, s)
  PROVE  BytesIn(d2, B) = BytesIn(d, A) - d[s].size
  <1>1. ASSUME NEW n \in 1 .. Len(d)
        PROVE  Weight(d2, B, n) = IF n = s THEN 0 ELSE Weight(d, A, n)
    <2>1. CASE n = s
      BY <2>1 DEF Weight, WithoutFile
    <2>2. CASE n # s
      BY <2>2 DEF Weight, WithoutFile, Without
    <2> QED
      BY <2>1, <2>2
  <1>2. Weight(d, A, s) = d[s].size
    BY DEF Weight, Without
  <1>3. BytesIn(d2, B) = BytesIn(d, A) - Weight(d, A, s)
    BY <1>1, BytesDrop
  <1> QED
    BY <1>2, <1>3

LEMMA BytesRemovedAll ==
  ASSUME MaxSize \in Nat, NEW d \in Seq(Seg), NEW d2 \in Seq(Seg), Len(d2) = Len(d),
         NEW s \in 1 .. Len(d), WithoutFile(d, d2, s), NEW A, s \in A
  PROVE  BytesIn(d2, A) = BytesIn(d, A) - d[s].size
  <1>1. ASSUME NEW n \in 1 .. Len(d)
        PROVE  Weight(d2, A, n) = IF n = s THEN 0 ELSE Weight(d, A, n)
    <2>1. CASE n = s
      BY <2>1 DEF Weight, WithoutFile
    <2>2. CASE n # s
      BY <2>2 DEF Weight, WithoutFile
    <2> QED
      BY <2>1, <2>2
  <1>2. Weight(d, A, s) = d[s].size
    BY DEF Weight
  <1>3. BytesIn(d2, A) = BytesIn(d, A) - Weight(d, A, s)
    BY <1>1, BytesDrop
  <1> QED
    BY <1>2, <1>3

\* Going on by one leaves one segment behind.
LEMMA AheadStep ==
  ASSUME NEW d \in Seq(Seg), NEW paths \in Seq(Nat), NEW i \in Nat, NEW protected,
         NEW N \in Nat, N = Len(paths), i \in 1 .. N, Sane(d, paths, N + 1, protected),
         paths[i] \notin protected
  PROVE  /\ Without(Ahead(paths, i, protected), Ahead(paths, i + 1, protected), paths[i])
         /\ paths[i] \in Listed(paths)
         /\ paths[i] \in 1 .. Len(d) /\ d[paths[i]].state \in Frozen
         /\ paths[N] \in 1 .. Len(d)
  <1>1. \A k \in 1 .. N : i + 1 <= k <=> i <= k /\ k # i
    OBVIOUS
  <1>2. ASSUME NEW n, n # paths[i]
        PROVE  n \in Ahead(paths, i, protected) <=> n \in Ahead(paths, i + 1, protected)
    BY <1>1, <1>2 DEF Ahead
  <1>3. paths[i] \in Ahead(paths, i, protected) /\ paths[i] \in Listed(paths)
    BY DEF Ahead, Listed
  <1>4. i < N + 1 /\ N \in 1 .. N
    OBVIOUS
  <1>5. /\ paths[i] \in 1 .. Len(d) /\ d[paths[i]].state \in Frozen
        /\ paths[N] \in 1 .. Len(d)
    BY <1>4 DEF Sane, Frozen
  <1> QED
    BY <1>2, <1>3, <1>5 DEF Without

LEMMA LessCovered ==
  ASSUME NEW a \in Nat, NEW b \in Nat, NEW c \in Nat, NEW t \in Nat, b = a - c, a <= t
  PROVE  c <= t /\ b <= t - c
  OBVIOUS

LEMMA LessBoth ==
  ASSUME NEW t \in Nat, NEW c \in Nat, NEW l \in Nat, NEW m, m = l - c, t <= l
  PROVE  t - c <= m
  OBVIOUS

\* A segment that may be removed is, and its bytes come off the total.
LEMMA CountedRemoved ==
  ASSUME MaxSize \in Nat, NEW d \in Seq(Seg), NEW paths \in Seq(Nat), NEW i \in Nat, NEW protected,
         NEW total \in Nat, NEW company, NEW N \in Nat, N = Len(paths), i \in 1 .. N,
         Sane(d, paths, N + 1, protected), Counted(d, paths, i, protected, total, company),
         paths[i] \notin protected
  PROVE  /\ d[paths[i]].size \in Nat /\ d[paths[i]].size <= total
         /\ Sane(Removed(d, paths[i]), paths, N + 1, protected)
         /\ Counted(Removed(d, paths[i]), paths, i + 1, protected, total - d[paths[i]].size, company)
  <1> PICK s : s = paths[i]
    OBVIOUS
  <1>a. Without(Ahead(paths, i, protected), Ahead(paths, i + 1, protected), s) /\ s \in Listed(paths)
    BY AheadStep
  <1>1. s \in 1 .. Len(d) /\ paths[N] \in 1 .. Len(d)
    BY AheadStep
  <1> PICK e3 : e3 = Removed(d, s)
    OBVIOUS
  <1>2. e3 \in Seq(Seg) /\ Len(e3) = Len(d) /\ e3[s].state = "gone" /\ e3[s].size = 0
    BY <1>1, RemovedFacts
  <1>3. WithoutFile(d, e3, s)
    <2>1. \A n \in 1 .. Len(d) : n # s => e3[n] = d[n]
      BY <1>1, RemovedFacts
    <2> QED
      BY <1>2, <2>1 DEF WithoutFile
  <1>4. Sane(e3, paths, N + 1, protected)
    BY <1>1, <1>2, <1>3, SaneRemoved
  <1>c. PICK c \in Nat : c = d[s].size
    <2> PICK x \in Seg : x = d[s]
      BY <1>1
    <2> QED
      BY DEF Seg
  <1>5. BytesIn(e3, Ahead(paths, i + 1, protected)) = BytesIn(d, Ahead(paths, i, protected)) - c
    BY <1>a, <1>1, <1>2, <1>3, <1>c, BytesRemoved
  <1>6. BytesIn(e3, Listed(paths)) = BytesIn(d, Listed(paths)) - c
    BY <1>a, <1>1, <1>2, <1>3, <1>c, BytesRemovedAll
  <1>7. e3[paths[N]] = d[paths[N]]
    <2>1. paths[N] # s
      BY DEF Counted
    <2> QED
      BY <1>1, <1>3, <2>1 DEF WithoutFile
  <1>8. /\ BytesIn(d, Ahead(paths, i, protected)) \in Nat
        /\ BytesIn(e3, Ahead(paths, i + 1, protected)) \in Nat
        /\ BytesIn(d, Listed(paths)) \in Nat /\ BytesIn(e3, Listed(paths)) \in Nat
    BY <1>2, BytesType
  <1>9. c <= total /\ Counted(e3, paths, i + 1, protected, total - c, company)
    <2>p. PICK a \in Nat, b \in Nat, l \in Nat, l2 \in Nat :
          /\ a = BytesIn(d, Ahead(paths, i, protected))
          /\ b = BytesIn(e3, Ahead(paths, i + 1, protected))
          /\ l = BytesIn(d, Listed(paths)) /\ l2 = BytesIn(e3, Listed(paths))
      BY <1>8
    <2>1. b = a - c
      BY <1>5, <2>p
    <2>2. l2 = l - c
      BY <1>6, <2>p
    <2>3. e3[paths[Len(paths)]] = d[paths[Len(paths)]]
      BY <1>7
    <2>4. Counted(d, paths, i, protected, total, company)
      OBVIOUS
    <2>5. a <= total
      BY <2>4, <2>p DEF Counted
    <2>6. c <= total /\ b <= total - c
      BY <2>1, <2>5, LessCovered
    <2>7. ASSUME company = "none" PROVE e3[paths[Len(paths)]].state # "gone" /\ total - c <= l2
      <3>1. d[paths[Len(paths)]].state # "gone" /\ total <= l
        BY <2>4, <2>7, <2>p DEF Counted
      <3>2. e3[paths[Len(paths)]].state # "gone"
        BY <2>3, <3>1
      <3>3. total - c <= l2
        <4>1. total <= l
          BY <3>1
        <4> HIDE <2>2
        <4> QED
          BY <2>2, <4>1, LessBoth
      <3> QED
        BY <3>2, <3>3
    <2>8. paths[Len(paths)] \in protected
      BY <2>4 DEF Counted
    <2>9. Counted(e3, paths, i + 1, protected, total - c, company)
      BY <2>6, <2>7, <2>8, <2>p DEF Counted
    <2> QED
      BY <2>6, <2>9
  <1> QED
    BY <1>4, <1>9, <1>c

\* A pass promises less where others overlap it.
LEMMA PassWeaker ==
  ASSUME NEW e \in Pass, NEW d, NEW company, NEW company2, company2 = "none" => company = "none",
         PassOK(e, d, company)
  PROVE  PassOK(e, d, company2)
  BY DEF PassOK, Counted

\* What is gone has no bytes.
LEMMA BytesThere ==
  ASSUME MaxSize \in Nat, NEW d \in Seq(Seg), NEW ss, ss \subseteq 1 .. Len(d),
         \A n \in 1 .. Len(d) : d[n].state = "gone" => d[n].size = 0
  PROVE  BytesIn(d, ss) <= BytesIn(d, There(d))
  <1>1. ASSUME NEW n \in 1 .. Len(d) PROVE Weight(d, ss, n) <= Weight(d, There(d), n)
    <2> PICK w \in Nat, x \in Nat : w = Weight(d, ss, n) /\ x = Weight(d, There(d), n)
      BY WeightType
    <2>1. CASE n \in ss /\ d[n].state # "gone"
      BY <2>1 DEF Weight, There
    <2>2. CASE n \in ss /\ d[n].state = "gone"
      BY <2>2 DEF Weight
    <2>3. CASE n \notin ss
      BY <2>3 DEF Weight
    <2> QED
      BY <2>1, <2>2, <2>3
  <1> QED
    BY <1>1, BytesLe

LEMMA LessStays ==
  ASSUME NEW t \in Nat, NEW c \in Nat, NEW m \in Nat, t <= m
  PROVE  t - c <= m
  OBVIOUS

\* A pass is about to remove the segment at i.
About(d, paths, i, protected, total, company) ==
    /\ Sane(d, paths, Len(paths) + 1, protected) /\ Counted(d, paths, i, protected, total, company)
    /\ i \in 1 .. Len(paths) /\ paths[i] \notin protected

LEMMA AboutRemoved ==
  ASSUME MaxSize \in Nat, NEW d \in Seq(Seg), NEW paths \in Seq(Nat), NEW i \in Nat, NEW protected,
         NEW total \in Nat, NEW company, About(d, paths, i, protected, total, company)
  PROVE  /\ d[paths[i]].size \in Nat /\ d[paths[i]].size <= total
         /\ Sane(Removed(d, paths[i]), paths, Len(paths) + 1, protected)
         /\ Counted(Removed(d, paths[i]), paths, i + 1, protected, total - d[paths[i]].size, company)
  <1> PICK N \in Nat : N = Len(paths)
    OBVIOUS
  <1>1. /\ Sane(d, paths, N + 1, protected) /\ Counted(d, paths, i, protected, total, company)
        /\ i \in 1 .. N /\ paths[i] \notin protected
    BY DEF About
  <1>2. d[paths[i]].size \in Nat /\ d[paths[i]].size <= total
    BY <1>1, CountedRemoved
  <1>3. Sane(Removed(d, paths[i]), paths, N + 1, protected)
    BY <1>1, CountedRemoved
  <1>4. Counted(Removed(d, paths[i]), paths, i + 1, protected, total - d[paths[i]].size, company)
    BY <1>1, CountedRemoved
  <1> QED
    BY <1>2, <1>3, <1>4

\* What a pass that is about to remove a segment knows.
Another(d, s) == \E n \in There(d) : n # s

LEMMA EvictFacts ==
  ASSUME MaxSize \in Nat, NEW d \in Seq(Seg), NEW e \in Pass, NEW company,
         PassOK(e, d, company), e.pc = "evict", e.i <= Len(e.paths),
         NEW s, s = e.paths[e.i], s \notin e.protected
  PROVE  /\ s \in 1 .. Len(d) /\ d[s].state \in Frozen
         /\ d[s].size \in Nat /\ d[s].size <= e.total
         /\ company = "none" => /\ Another(d, s)
                     /\ e.total <= BytesIn(d, Listed(e.paths))
         /\ Listed(e.paths) \subseteq 1 .. Len(d)
  <1>p. PICK paths \in Seq(Nat), i \in Nat, protected \in SUBSET Nat, total \in Nat :
        paths = e.paths /\ i = e.i /\ protected = e.protected /\ total = e.total
    BY PassParts
  <1> PICK N \in Nat : N = Len(paths)
    OBVIOUS
  <1>1. /\ Sane(d, paths, N + 1, protected) /\ Counted(d, paths, i, protected, total, company)
        /\ i \in 1 .. N /\ s = paths[i] /\ s \notin protected
    BY <1>p, PassParts DEF PassOK
  <1>2. s \in 1 .. Len(d) /\ d[s].state \in Frozen /\ paths[N] \in 1 .. Len(d)
    BY <1>1, AheadStep
  <1>3. d[s].size \in Nat /\ d[s].size <= total
    <2>1. paths[i] \notin protected
      BY <1>1
    <2>a. About(d, paths, i, protected, total, company)
      BY <1>1, <2>1 DEF About
    <2>2. d[paths[i]].size \in Nat /\ d[paths[i]].size <= total
      BY <2>a, AboutRemoved, Zenon
    <2> QED
      BY <1>1, <2>2
  <1>4. ASSUME company = "none" PROVE paths[N] \in There(d) /\ paths[N] # s /\ total <= BytesIn(d, Listed(paths))
    BY <1>1, <1>2, <1>4 DEF Counted, There
  <1>6. company = "none" => Another(d, s)
    BY <1>4 DEF Another
  <1>5. Listed(paths) \subseteq 1 .. Len(d)
    BY <1>1, AheadFacts
  <1> QED
    BY <1>p, <1>2, <1>3, <1>4, <1>5, <1>6

\* The pass that removes a segment stays right.
LEMMA PassRemoves ==
  ASSUME MaxSize \in Nat, MaxSegs \in Nat, NEW d \in Seq(Seg), NEW e \in Pass, NEW e2 \in Pass,
         NEW company, PassOK(e, d, company), e.pc = "evict", e.i <= Len(e.paths),
         NEW s, s = e.paths[e.i], s \notin e.protected,
         e2.pc = "evict", e2.paths = e.paths, e2.i = e.i + 1, e2.protected = e.protected,
         e2.total = e.total - d[s].size
  PROVE  PassOK(e2, Removed(d, s), company)
  <1>p. PICK paths \in Seq(Nat), i \in Nat, protected \in SUBSET Nat, total \in Nat :
        paths = e.paths /\ i = e.i /\ protected = e.protected /\ total = e.total
    BY PassParts
  <1> PICK N \in Nat : N = Len(paths)
    OBVIOUS
  <1>1. /\ Sane(d, paths, N + 1, protected) /\ Counted(d, paths, i, protected, total, company)
        /\ i \in 1 .. N /\ s = paths[i] /\ s \notin protected
    BY <1>p, PassParts DEF PassOK
  <1>2. s \in 1 .. Len(d)
    BY <1>1, AheadStep
  <1> PICK d2 : d2 = Removed(d, s)
    OBVIOUS
  <1>3. Len(d2) = Len(d)
    BY <1>2, RemovedFacts
  <1>4. /\ Sane(d2, paths, N + 1, protected)
        /\ Counted(d2, paths, i + 1, protected, total - d[s].size, company)
        /\ d[s].size \in Nat /\ d[s].size <= total
    <2>1. paths[i] \notin protected
      BY <1>1
    <2>a. About(d, paths, i, protected, total, company)
      BY <1>1, <2>1 DEF About
    <2>2. d[paths[i]].size \in Nat /\ d[paths[i]].size <= total
      BY <2>a, AboutRemoved, Zenon
    <2>3. Sane(Removed(d, paths[i]), paths, Len(paths) + 1, protected)
      BY <2>a, AboutRemoved, Zenon
    <2>4. Counted(Removed(d, paths[i]), paths, i + 1, protected, total - d[paths[i]].size, company)
      BY <2>a, AboutRemoved, Zenon
    <2> QED
      BY <1>1, <2>2, <2>3, <2>4
  <1>5. e2.total <= MaxSegs * MaxSize
    <2> PICK c \in Nat, a \in Nat, b \in Nat : c = d[s].size /\ a = MaxSegs /\ b = MaxSize
      BY <1>4
    <2> PICK m \in Nat : m = a * b
      OBVIOUS
    <2>1. total <= m
      BY <1>p DEF PassOK
    <2>2. total - c <= m
      BY <2>1, LessStays
    <2>3. e2.total = total - c
      BY <1>p
    <2> QED
      BY <2>2, <2>3
  <1>6. protected \subseteq 1 .. Len(d2)
    BY <1>3, <1>p DEF PassOK
  <1> QED
    BY <1>p, <1>4, <1>5, <1>6 DEF PassOK

\* What is not under way looks at no directory.
LEMMA PassAway ==
  ASSUME NEW d \in Seq(Seg), NEW d2 \in Seq(Seg), Len(d) <= Len(d2), NEW e \in Pass, NEW company,
         NEW company2, PassOK(e, d, company), e.pc \notin {"validate", "evict"}
  PROVE  PassOK(e, d2, company2)
  BY DEF PassOK

\* The bytes and the segments ColdStore speaks of.
LEMMA StoreBytes ==
  ASSUME NEW ss
  PROVE  Bytes(ss) = BytesIn(dir, ss)
  BY Zenon DEF Bytes, BytesBefore, BytesIn, Weight

LEMMA StorePresent ==
  ASSUME Files
  PROVE  Ids = 1 .. Len(dir) /\ Remaining = There(dir)
  BY DEF Files, Ids, Remaining, There

----------------------------------------------------------------------------
(***************************************************************************)
(* The steps of a directory and its processes.                             *)
(***************************************************************************)
\* What a directory does while nothing is removed.
Grows(d, d2) ==
    /\ Len(d) <= Len(d2)
    /\ \A n \in 1 .. Len(d) : /\ d[n].state \in Frozen => d2[n].state \in Frozen
                              /\ d2[n].state = "gone" => d[n].state = "gone"
    /\ \A ss \in SUBSET (1 .. Len(d)) :
          /\ BytesIn(d, ss) <= BytesIn(d2, ss)
          /\ (\A n \in ss : d[n].state \in Frozen) => BytesIn(d2, ss) = BytesIn(d, ss)

LEMMA PassGrows ==
  ASSUME MaxSize \in Nat, NEW d \in Seq(Seg), NEW d2 \in Seq(Seg), Grows(d, d2),
         NEW e \in Pass, NEW company, PassOK(e, d, company)
  PROVE  PassOK(e, d2, company)
  <1>1. Len(d) <= Len(d2)
    BY DEF Grows
  <1>2. \A n \in 1 .. Len(d) : /\ d[n].state \in Frozen => d2[n].state \in Frozen
                               /\ d2[n].state = "gone" => d[n].state = "gone"
    BY DEF Grows
  <1>3. \A ss \in SUBSET (1 .. Len(d)) :
            /\ BytesIn(d, ss) <= BytesIn(d2, ss)
            /\ (\A n \in ss : d[n].state \in Frozen) => BytesIn(d2, ss) = BytesIn(d, ss)
    BY DEF Grows
  <1> QED
    BY <1>1, <1>2, <1>3, PassStays, Zenon

\* Each pass stays right while nothing is removed.
LEMMA GrowStep ==
  ASSUME Limits, StoreInv, Files', Writers', Remains', ~excess', Grows(dir, dir'),
         UNCHANGED <<en, crossed>>
  PROVE  StoreInv'
  <1>0. MaxSize \in Nat /\ dir \in Seq(Seg) /\ dir' \in Seq(Seg)
    BY DEF Limits, StoreInv, Files
  <1>1. en \in [Procs -> Pass] /\ \A p \in Procs : PassOK(en[p], dir, Company)
    BY DEF StoreInv, Passes
  <1>2. Company' = Company
    BY DEF Company
  <1>3. ASSUME NEW p \in Procs PROVE PassOK(en[p], dir', Company)
    <2>1. en[p] \in Pass /\ PassOK(en[p], dir, Company)
      BY <1>1
    <2> QED
      BY <1>0, <2>1, PassGrows
  <1>4. Passes'
    BY <1>1, <1>2, <1>3 DEF Passes
  <1> QED
    BY <1>4 DEF StoreInv

\* One process takes a step of its own.
LEMMA LocalStep ==
  ASSUME StoreInv, Writers', NEW p \in Procs, NEW e \in Pass, PassOK(e, dir, Company),
         en' = [en EXCEPT ![p] = e], UNCHANGED <<dir, clock, crossed, excess>>
  PROVE  StoreInv'
  <1>1. Files' /\ Remains' /\ ~excess'
    BY DEF StoreInv, Files, Remains, There
  <1>2. Company' = Company
    BY DEF Company
  <1>3. en \in [Procs -> Pass] /\ \A o \in Procs : PassOK(en[o], dir, Company)
    BY DEF StoreInv, Passes
  <1>4. en' \in [Procs -> Pass]
    BY <1>3
  <1>5. ASSUME NEW o \in Procs PROVE PassOK(en'[o], dir, Company)
    <2>1. CASE o = p
      BY <1>3, <2>1
    <2>2. CASE o # p
      BY <1>3, <2>2
    <2> QED
      BY <2>1, <2>2
  <1>6. Passes'
    BY <1>2, <1>4, <1>5 DEF Passes
  <1> QED
    BY <1>1, <1>6 DEF StoreInv

LEMMA InitStore ==
  ASSUME Limits, StoreInit
  PROVE  StoreInv
  <1> USE DEF StoreInit
  <1>0. MaxSegs \in Nat /\ dir = <<>> /\ clock = 0 /\ crossed = FALSE /\ excess = FALSE
    BY DEF Limits
  <1>1. Files
    <2>1. dir \in Seq(Seg) /\ Len(dir) = 0
      BY <1>0
    <2>2. Len(dir) <= MaxSegs
      BY <1>0, <2>1
    <2>3. \A s \in 1 .. Len(dir) : dir[s].mtime <= clock /\ (dir[s].state = "gone" => dir[s].size = 0)
      BY <2>1
    <2>4. clock \in Nat /\ crossed \in BOOLEAN /\ excess \in BOOLEAN
      <3>1. clock \in Nat
        BY <1>0
      <3>2. crossed \in BOOLEAN /\ excess \in BOOLEAN
        BY <1>0, Zenon
      <3> QED
        BY <3>1, <3>2
    <2> HIDE DEF StoreInit
    <2> QED
      BY <2>1, <2>2, <2>3, <2>4, Zenon DEF Files
  <1>2. Writers
    BY DEF Writers
  <1>3. Remains /\ ~excess
    BY DEF Remains
  <1>4. Idle \in Pass
    BY DEF Idle, Pass
  <1>5. PassOK(Idle, dir, Company)
    <2>1. /\ Idle.pc \in {"idle", "down"} /\ Idle.protected = {} /\ Idle.total = 0
      BY DEF Idle
    <2> QED
      BY <1>4, <2>1, PassIdle DEF Limits
  <1>6. Passes
    BY <1>4, <1>5 DEF Passes
  <1> QED
    BY <1>1, <1>2, <1>3, <1>6 DEF StoreInv

\* Where the weights are the same the bytes are.
LEMMA BytesSame ==
  ASSUME MaxSize \in Nat, NEW d \in Seq(Seg), NEW e \in Seq(Seg), NEW ss, Len(d) = Len(e),
         \A n \in 1 .. Len(d) : Weight(d, ss, n) = Weight(e, ss, n)
  PROVE  BytesIn(d, ss) = BytesIn(e, ss)
  <1>1. ASSUME NEW n \in 1 .. Len(d)
        PROVE  Weight(d, ss, n) <= Weight(e, ss, n) /\ Weight(e, ss, n) <= Weight(d, ss, n)
    <2> PICK w \in Nat : w = Weight(d, ss, n)
      BY WeightType
    <2> QED
      OBVIOUS
  <1>2. BytesIn(d, ss) <= BytesIn(e, ss)
    BY <1>1, BytesLe
  <1>3. BytesIn(e, ss) <= BytesIn(d, ss)
    BY <1>1, BytesLe
  <1> PICK x \in Nat, y \in Nat : x = BytesIn(d, ss) /\ y = BytesIn(e, ss)
    BY BytesType
  <1> QED
    BY <1>2, <1>3

LEMMA TickInv ==
  ASSUME Limits, StoreInv, Tick
  PROVE  StoreInv'
  <1> USE DEF Tick
  <1>1. Files'
    <2>1. ASSUME NEW s \in 1 .. Len(dir) PROVE dir[s].mtime <= clock + 1
      <3>1. dir[s] \in Seg /\ dir[s].mtime <= clock /\ clock \in Nat
        BY DEF StoreInv, Files
      <3> PICK m \in Nat, t \in Nat : m = dir[s].mtime /\ t = clock
        BY <3>1 DEF Seg
      <3> QED
        BY <3>1
    <2>2. clock + 1 \in Nat
      BY DEF StoreInv, Files
    <2> QED
      BY <2>1, <2>2 DEF StoreInv, Files
  <1>2. Writers' /\ Remains' /\ ~excess'
    BY DEF StoreInv, Writers, Remains, There
  <1>3. Passes'
    BY DEF StoreInv, Passes, Company
  <1> QED
    BY <1>1, <1>2, <1>3 DEF StoreInv

LEMMA CreateInv ==
  ASSUME Limits, StoreInv, NEW p \in Procs, Create(p)
  PROVE  StoreInv'
  <1> PICK N \in Nat, m \in Nat : N = Len(dir) /\ m = clock
    BY DEF StoreInv, Files
  <1> PICK x : x = [state |-> "stub", size |-> 0, mtime |-> m]
    OBVIOUS
  <1>1. x \in Seg /\ x.state = "stub" /\ x.size = 0 /\ x.mtime = m
    BY DEF Seg, Limits
  <1>2. /\ dir \in Seq(Seg) /\ dir' = Append(dir, x) /\ N < MaxSegs
        /\ writing[p] = 0 /\ writing' = [writing EXCEPT ![p] = N + 1]
        /\ UNCHANGED <<en, clock, crossed, excess>>
    BY DEF StoreInv, Files, Create
  <1>3. /\ dir' \in Seq(Seg) /\ Len(dir') = N + 1 /\ N + 1 <= MaxSegs /\ dir'[N + 1] = x
        /\ \A n \in 1 .. N : dir'[n] = dir[n]
    BY <1>1, <1>2 DEF Limits
  <1>4. Files'
    <2>1. ASSUME NEW n \in 1 .. Len(dir')
          PROVE  dir'[n].mtime <= m /\ (dir'[n].state = "gone" => dir'[n].size = 0)
      <3>1. CASE n = N + 1
        BY <1>1, <1>3, <3>1
      <3>2. CASE n # N + 1
        <4>1. n \in 1 .. N
          BY <1>3, <3>2
        <4> QED
          BY <1>3, <4>1 DEF StoreInv, Files
      <3> QED
        BY <3>1, <3>2
    <2> QED
      BY <1>2, <1>3, <2>1 DEF StoreInv, Files
  <1>5. Writers'
    <2>0. /\ writing \in [Procs -> Nat]
          /\ \A o \in Procs : writing[o] # 0 => writing[o] \in 1 .. N /\ dir[writing[o]].state \in {"stub", "open"}
          /\ \A o, r \in Procs : writing[o] # 0 /\ writing[o] = writing[r] => o = r
      BY DEF StoreInv, Writers
    <2>1. writing' \in [Procs -> Nat] /\ writing'[p] = N + 1 /\ \A o \in Procs : o # p => writing'[o] = writing[o]
      BY <1>2, <2>0
    <2>2. ASSUME NEW o \in Procs, writing'[o] # 0
          PROVE  writing'[o] \in 1 .. N + 1 /\ dir'[writing'[o]].state \in {"stub", "open"}
      <3>1. CASE o = p
        BY <1>1, <1>3, <2>1, <3>1
      <3>2. CASE o # p
        <4>1. writing'[o] = writing[o] /\ writing[o] \in 1 .. N /\ dir[writing[o]].state \in {"stub", "open"}
          BY <2>0, <2>1, <2>2, <3>2
        <4> QED
          BY <1>3, <4>1
      <3> QED
        BY <3>1, <3>2
    <2>3. ASSUME NEW o \in Procs, NEW r \in Procs, writing'[o] # 0, writing'[o] = writing'[r] PROVE o = r
      <3>1. CASE o # p /\ r # p
        BY <2>0, <2>1, <2>3, <3>1
      <3>2. ASSUME o = p, r # p PROVE FALSE
        BY <2>0, <2>1, <2>3, <3>2
      <3>3. ASSUME r = p, o # p PROVE FALSE
        BY <2>0, <2>1, <2>3, <3>3
      <3> QED
        BY <3>1, <3>2, <3>3
    <2> QED
      BY <1>3, <2>1, <2>2, <2>3 DEF Writers
  <1>6. Remains' /\ ~excess'
    BY <1>1, <1>2, <1>3 DEF StoreInv, Remains, There
  <1>7. Grows(dir, dir')
    <2>1. ASSUME NEW ss \in SUBSET (1 .. Len(dir))
          PROVE  /\ BytesIn(dir, ss) <= BytesIn(dir', ss)
                 /\ (\A n \in ss : dir[n].state \in Frozen) => BytesIn(dir', ss) = BytesIn(dir, ss)
      <3>1. BytesIn(dir', ss) = BytesIn(dir, ss)
        BY <1>1, <1>2, BytesAppend DEF Limits
      <3> PICK y \in Nat : y = BytesIn(dir, ss)
        BY <1>2, BytesType DEF Limits
      <3> QED
        BY <3>1
    <2>2. Len(dir) <= Len(dir')
      BY <1>3
    <2> QED
      BY <1>3, <2>1, <2>2 DEF Grows
  <1> QED
    BY <1>2, <1>4, <1>5, <1>6, <1>7, GrowStep

\* Of the file a process writes: it grows, and seals in the end.
LEMMA WriteInv ==
  ASSUME Limits, StoreInv, NEW p \in Procs, NEW from \in {"stub", "open"},
         NEW to \in {"open", "sealed"}, Write(p, from, to)
  PROVE  StoreInv'
  <1> PICK s \in Nat, m \in Nat : s = writing[p] /\ m = clock
    BY DEF StoreInv, Files, Writers
  <1>0. MaxSize \in Nat
    BY DEF Limits
  <1>1. /\ dir \in Seq(Seg) /\ s \in 1 .. Len(dir) /\ s \in Nat /\ s # 0
        /\ dir[s].state = from /\ dir[s].size < MaxSize
    BY DEF Write, StoreInv, Files, Writers
  <1>2. PICK x \in Seg : x = dir[s]
    BY <1>1
  <1>3. PICK c \in Nat : c = x.size /\ c < MaxSize
    BY <1>0, <1>1, <1>2 DEF Seg
  <1> PICK y : y = [state |-> to, size |-> c + 1, mtime |-> m]
    OBVIOUS
  <1>4. y \in Seg /\ y.state = to /\ y.size = c + 1 /\ y.mtime = m
    <2>1. c + 1 \in 0 .. MaxSize
      BY <1>0, <1>3
    <2> QED
      BY <2>1 DEF Seg
  <1>5. /\ dir' = [dir EXCEPT ![s] = y]
        /\ writing' = [writing EXCEPT ![p] = IF to = "sealed" THEN 0 ELSE writing[p]]
        /\ UNCHANGED <<en, clock, crossed, excess>>
    BY <1>2, <1>3 DEF Write
  <1>6. /\ dir' \in Seq(Seg) /\ Len(dir') = Len(dir) /\ dir'[s] = y
        /\ \A n \in 1 .. Len(dir) : n # s => dir'[n] = dir[n]
    BY <1>1, <1>4, <1>5
  <1>7. Files'
    <2>1. ASSUME NEW n \in 1 .. Len(dir)
          PROVE  dir'[n].mtime <= m /\ (dir'[n].state = "gone" => dir'[n].size = 0)
      <3>1. CASE n = s
        BY <1>4, <1>6, <3>1
      <3>2. CASE n # s
        BY <1>6, <3>2 DEF StoreInv, Files
      <3> QED
        BY <3>1, <3>2
    <2> QED
      BY <1>5, <1>6, <2>1 DEF StoreInv, Files
  <1>8. Writers'
    <2>0. /\ writing \in [Procs -> Nat]
          /\ \A o \in Procs : writing[o] # 0 => writing[o] \in 1 .. Len(dir) /\ dir[writing[o]].state \in {"stub", "open"}
          /\ \A o, r \in Procs : writing[o] # 0 /\ writing[o] = writing[r] => o = r
      BY DEF StoreInv, Writers
    <2> PICK t : t = IF to = "sealed" THEN 0 ELSE s
      OBVIOUS
    <2>1. t \in Nat /\ (t = 0 \/ (t = s /\ to = "open"))
      BY <1>1
    <2>2. writing' \in [Procs -> Nat] /\ writing'[p] = t /\ \A o \in Procs : o # p => writing'[o] = writing[o]
      BY <1>5, <2>0, <2>1
    <2>3. ASSUME NEW o \in Procs, writing'[o] # 0
          PROVE  writing'[o] \in 1 .. Len(dir) /\ dir'[writing'[o]].state \in {"stub", "open"}
      <3>1. CASE o = p
        BY <1>1, <1>4, <1>6, <2>1, <2>2, <2>3, <3>1
      <3>2. CASE o # p
        <4>1. writing'[o] = writing[o] /\ writing[o] \in 1 .. Len(dir) /\ dir[writing[o]].state \in {"stub", "open"}
          BY <2>0, <2>2, <2>3, <3>2
        <4>2. writing[o] # s
          BY <1>1, <2>0, <3>2
        <4> QED
          BY <1>6, <4>1, <4>2
      <3> QED
        BY <3>1, <3>2
    <2>4. ASSUME NEW o \in Procs, NEW r \in Procs, writing'[o] # 0, writing'[o] = writing'[r] PROVE o = r
      <3>1. writing'[o] = writing[o] /\ writing'[r] = writing[r]
        BY <2>1, <2>2, <2>4
      <3> QED
        BY <2>0, <2>4, <3>1
    <2> QED
      BY <1>6, <2>2, <2>3, <2>4 DEF Writers
  <1>9. Remains' /\ ~excess'
    BY <1>1, <1>4, <1>5, <1>6 DEF StoreInv, Remains, There
  <1>10. Grows(dir, dir')
    <2>1. \A n \in 1 .. Len(dir) : /\ dir[n].state \in Frozen => dir'[n].state \in Frozen
                                   /\ dir'[n].state = "gone" => dir[n].state = "gone"
      BY <1>1, <1>4, <1>6 DEF Frozen
    <2>2. ASSUME NEW ss \in SUBSET (1 .. Len(dir))
          PROVE  /\ BytesIn(dir, ss) <= BytesIn(dir', ss)
                 /\ (\A n \in ss : dir[n].state \in Frozen) => BytesIn(dir', ss) = BytesIn(dir, ss)
      <3>1. ASSUME NEW n \in 1 .. Len(dir) PROVE Weight(dir, ss, n) <= Weight(dir', ss, n)
        <4>1. CASE n = s
          BY <1>2, <1>3, <1>4, <1>6, <4>1 DEF Weight
        <4>2. CASE n # s
          <5> PICK w \in Nat : w = Weight(dir, ss, n)
            BY <1>0, <1>1, WeightType
          <5>1. Weight(dir', ss, n) = w
            BY <1>6, <4>2 DEF Weight
          <5> QED
            BY <5>1
        <4> QED
          BY <4>1, <4>2
      <3>2. BytesIn(dir, ss) <= BytesIn(dir', ss)
        BY <1>0, <1>1, <1>6, <3>1, BytesLe
      <3>3. ASSUME \A n \in ss : dir[n].state \in Frozen PROVE BytesIn(dir', ss) = BytesIn(dir, ss)
        <4>1. s \notin ss
          BY <1>1, <3>3 DEF Frozen
        <4>2. ASSUME NEW n \in 1 .. Len(dir) PROVE Weight(dir, ss, n) = Weight(dir', ss, n)
          BY <1>6, <4>1 DEF Weight
        <4> QED
          BY <1>0, <1>1, <1>6, <4>2, BytesSame
      <3> QED
        BY <3>2, <3>3
    <2>3. Len(dir) <= Len(dir')
      BY <1>1, <1>6
    <2> QED
      BY <2>1, <2>2, <2>3 DEF Grows
  <1> QED
    BY <1>5, <1>7, <1>8, <1>9, <1>10, GrowStep

LEMMA DieInv ==
  ASSUME Limits, StoreInv, NEW p \in Procs, Die(p)
  PROVE  StoreInv'
  <1> PICK e : e = Down
    OBVIOUS
  <1>1. e \in Pass /\ e.pc = "down" /\ e.protected = {} /\ e.total = 0
    <2>1. e = [pc |-> "down", paths |-> <<>>, i |-> 1, protected |-> {}, total |-> 0]
      BY DEF Down, Idle
    <2> QED
      BY <2>1 DEF Pass
  <1>2. PassOK(e, dir, Company)
    BY <1>1, PassIdle DEF Limits
  <1>3. /\ en' = [en EXCEPT ![p] = e] /\ writing' = [writing EXCEPT ![p] = 0]
        /\ UNCHANGED <<dir, clock, crossed, excess>>
    BY DEF Die
  <1>4. Writers'
    <2>0. /\ writing \in [Procs -> Nat]
          /\ \A o \in Procs : writing[o] # 0 => writing[o] \in 1 .. Len(dir) /\ dir[writing[o]].state \in {"stub", "open"}
          /\ \A o, r \in Procs : writing[o] # 0 /\ writing[o] = writing[r] => o = r
      BY DEF StoreInv, Writers
    <2>1. writing' \in [Procs -> Nat] /\ \A o \in Procs : writing'[o] # 0 => writing'[o] = writing[o]
      BY <1>3, <2>0
    <2> QED
      BY <1>3, <2>0, <2>1 DEF Writers
  <1> QED
    BY <1>1, <1>2, <1>3, <1>4, LocalStep

----------------------------------------------------------------------------
(***************************************************************************)
(* The steps of a pass.                                                    *)
(***************************************************************************)
\* A pass that ends, in whatever way.
LEMMA PassEnds ==
  ASSUME Limits, StoreInv, NEW p \in Procs, en' = [en EXCEPT ![p] = Idle],
         UNCHANGED <<dir, writing, clock, crossed, excess>>
  PROVE  StoreInv'
  <1> PICK e : e = Idle
    OBVIOUS
  <1>1. e \in Pass /\ e.pc = "idle" /\ e.protected = {} /\ e.total = 0
    BY DEF Idle, Pass
  <1>2. PassOK(e, dir, Company)
    BY <1>1, PassIdle DEF Limits
  <1>3. Writers'
    BY DEF StoreInv, Writers
  <1> QED
    BY <1>1, <1>2, <1>3, LocalStep

\* A pass that goes on while the directory stays as it is.
LEMMA PassMoves ==
  ASSUME StoreInv, NEW p \in Procs, NEW e \in Pass, PassOK(e, dir, Company),
         en' = [en EXCEPT ![p] = e], UNCHANGED <<dir, writing, clock, crossed, excess>>
  PROVE  StoreInv'
  <1>1. Writers'
    BY DEF StoreInv, Writers
  <1> QED
    BY <1>1, LocalStep

LEMMA ListInv ==
  ASSUME Limits, StoreInv, NEW p \in Procs, List(p)
  PROVE  StoreInv'
  <1> PICK N \in Nat : N = Len(dir)
    BY DEF StoreInv, Files
  <1>1. Ids = 1 .. N /\ Remaining = There(dir) /\ There(dir) \subseteq 1 .. N
    BY StorePresent DEF StoreInv, There
  <1> PICK K : K = Cardinality(There(dir))
    OBVIOUS
  <1>2. K \in Nat
    <2>1. IsFiniteSet(There(dir))
      <3>1. IsFiniteSet(1 .. N)
        BY FS_Interval
      <3> QED
        BY <1>1, <3>1, FS_Subset
    <2> QED
      BY <2>1, FS_CardinalityType
  <1>3. K > 1
    BY <1>1 DEF List
  <1>4. PICK paths \in Sorted :
          en' = [en EXCEPT ![p] = [Idle EXCEPT !.pc = "validate", !.paths = paths]]
    BY DEF List, Local
  <1>5. paths \in [1 .. K -> 1 .. N]
    BY <1>1 DEF Sorted
  <1>6. paths \in Seq(Nat) /\ Len(paths) = K /\ paths # <<>>
    BY <1>2, <1>3, <1>5
  <1>7. \A j \in 1 .. K : paths[j] \in 1 .. N
    BY <1>5
  <1>8. ASSUME NEW j \in 1 .. K, NEW k \in 1 .. K, j < k PROVE paths[j] # paths[k]
    <2>1. Earlier(paths[j], paths[k])
      BY <1>1, <1>5, <1>8 DEF Sorted
    <2>2. ASSUME NEW n \in 1 .. N, Earlier(n, n) PROVE FALSE
      <3>1. dir[n] \in Seg
        BY DEF StoreInv, Files
      <3> PICK m \in Nat : m = dir[n].mtime
        BY <3>1 DEF Seg
      <3> QED
        BY <2>2 DEF Earlier
    <2> QED
      BY <1>7, <2>1, <2>2
  <1>9. \A j, k \in 1 .. K : paths[j] = paths[k] => j = k
    BY <1>2, <1>8
  <1>e. PICK e : e = [Idle EXCEPT !.pc = "validate", !.paths = paths]
    OBVIOUS
  <1>10. e = [pc |-> "validate", paths |-> paths, i |-> 1, protected |-> {}, total |-> 0]
    BY <1>e DEF Idle
  <1>11. e \in Pass /\ e.pc = "validate" /\ e.paths = paths /\ e.i = 1 /\ e.protected = {} /\ e.total = 0
    BY <1>6, <1>10 DEF Pass
  <1>12. PassOK(e, dir, Company)
    <2>1. dir \in Seq(Seg) /\ MaxSegs \in Nat /\ MaxSize \in Nat
      BY DEF StoreInv, Files, Limits
    <2>2. /\ e.paths # <<>> /\ \A j \in 1 .. Len(e.paths) : e.paths[j] \in 1 .. Len(dir)
          /\ \A j, k \in 1 .. Len(e.paths) : e.paths[j] = e.paths[k] => j = k
      BY <1>6, <1>7, <1>9, <1>11
    <2> QED
      BY <1>11, <2>1, <2>2, PassBegins
  <1>13. en' = [en EXCEPT ![p] = e] /\ UNCHANGED <<dir, writing, clock, crossed, excess>>
    BY <1>4, <1>e DEF List
  <1> QED
    BY <1>11, <1>12, <1>13, PassMoves

\* A pass, part by part.
Parts(a, b, c, d, t) == [pc |-> a, paths |-> b, i |-> c, protected |-> d, total |-> t]

GoesOn(e, c, d) == [e EXCEPT !.i = c, !.protected = d]
Measured(e, a, c, d, t) == [e EXCEPT !.pc = a, !.i = c, !.protected = d, !.total = t]

LEMMA PartsSeen ==
  ASSUME NEW a, NEW b, NEW c, NEW d, NEW t, NEW c2, NEW d2
  PROVE  GoesOn(Parts(a, b, c, d, t), c2, d2) = Parts(a, b, c2, d2, t)
  <1>1. [Parts(a, b, c, d, t) EXCEPT !.i = c2] = Parts(a, b, c2, d, t)
    BY DEF Parts
  <1>2. [Parts(a, b, c2, d, t) EXCEPT !.protected = d2] = Parts(a, b, c2, d2, t)
    BY DEF Parts
  <1> QED
    BY <1>1, <1>2 DEF GoesOn

LEMMA PartsMeasured ==
  ASSUME NEW a, NEW b, NEW c, NEW d, NEW t, NEW a2, NEW c2, NEW d2, NEW t2
  PROVE  Measured(Parts(a, b, c, d, t), a2, c2, d2, t2) = Parts(a2, b, c2, d2, t2)
  <1>1. [Parts(a, b, c, d, t) EXCEPT !.pc = a2] = Parts(a2, b, c, d, t)
    BY DEF Parts
  <1>2. [Parts(a2, b, c, d, t) EXCEPT !.i = c2] = Parts(a2, b, c2, d, t)
    BY DEF Parts
  <1>3. [Parts(a2, b, c2, d, t) EXCEPT !.protected = d2] = Parts(a2, b, c2, d2, t)
    BY DEF Parts
  <1>4. [Parts(a2, b, c2, d2, t) EXCEPT !.total = t2] = Parts(a2, b, c2, d2, t2)
    BY DEF Parts
  <1> QED
    BY <1>1, <1>2, <1>3, <1>4 DEF Measured

LEMMA ValidateInv ==
  ASSUME Limits, StoreInv, NEW p \in Procs, Validate(p)
  PROVE  StoreInv'
  <1>0. UNCHANGED <<dir, writing, clock, crossed, excess>>
    BY DEF Validate
  <1> PICK s : s = Path(p)
    OBVIOUS
  <1>1. PICK e \in Pass : e = en[p] /\ PassOK(e, dir, Company)
    BY DEF StoreInv, Passes
  <1>2. CASE dir[s].state \in {"stub", "gone"}
    <2>1. en' = [en EXCEPT ![p] = Idle]
      BY <1>2 DEF Validate, Local
    <2> QED
      BY <1>0, <2>1, PassEnds
  <1>3. CASE dir[s].state \notin {"stub", "gone"}
    <2>c. PICK e2 : e2 = [e EXCEPT !.i = @ + 1,
                          !.protected = IF dir[s].state \in Unprotected THEN @ ELSE @ \cup {s}]
      OBVIOUS
    <2>1. en' = [en EXCEPT ![p] = e2]
      BY <1>1, <1>3, <2>c DEF Validate, Local
    <2>2. e.pc = "validate" /\ e.i <= Len(e.paths) /\ s = e.paths[e.i]
      BY <1>1 DEF Validate, More, Path
    <2>3. dir[s].state \in Unprotected <=> dir[s].state \in Frozen
      BY <1>3 DEF Unprotected, Frozen
    <2>4. s \in Nat
      <3> PICK paths \in Seq(Nat), i \in Nat : paths = e.paths /\ i = e.i
        BY PassParts
      <3>1. i \in 1 .. Len(paths) /\ s = paths[i]
        BY <2>2, PassParts
      <3> QED
        BY <3>1
    <2>5. /\ e2.pc = "validate" /\ e2.paths = e.paths /\ e2.total = e.total /\ e2.i = e.i + 1
          /\ e2.protected = IF dir[s].state \in Frozen THEN e.protected ELSE e.protected \cup {s}
          /\ e2 \in Pass
      <3>p. PICK paths \in Seq(Nat), i \in Nat, protected \in SUBSET Nat, total \in Nat :
            /\ paths = e.paths /\ i = e.i /\ protected = e.protected /\ total = e.total
            /\ e = [pc |-> e.pc, paths |-> paths, i |-> i, protected |-> protected, total |-> total]
        BY PassParts DEF Pass
      <3>m. PICK more : more = IF dir[s].state \in Frozen THEN protected ELSE protected \cup {s}
        OBVIOUS
      <3>1. e2 = [pc |-> "validate", paths |-> paths, i |-> i + 1, protected |-> more, total |-> total]
        <4>1. (IF dir[s].state \in Unprotected THEN e.protected ELSE e.protected \cup {s}) = more
          BY <2>3, <3>p, <3>m
        <4>2. e2 = GoesOn(e, i + 1, more)
          BY <2>c, <3>p, <4>1 DEF GoesOn
        <4>3. e = Parts("validate", paths, i, protected, total)
          BY <2>2, <3>p DEF Parts
        <4>4. e2 = Parts("validate", paths, i + 1, more, total)
          BY <4>2, <4>3, PartsSeen
        <4> QED
          BY <4>4 DEF Parts
      <3>2. i + 1 \in Nat \ {0}
        OBVIOUS
      <3>4. more \in SUBSET Nat
        <4>1. CASE dir[s].state \in Frozen
          BY <3>m, <4>1
        <4>2. CASE dir[s].state \notin Frozen
          <5>1. more = protected \cup {s}
            BY <3>m, <4>2
          <5> QED
            BY <2>4, <5>1
        <4> QED
          BY <4>1, <4>2
      <3>3. e2 \in Pass
        BY <3>1, <3>2, <3>4 DEF Pass
      <3> QED
        BY <3>1, <3>3, <3>p, <3>m
    <2>6. PassOK(e2, dir, Company)
      BY <1>1, <2>2, <2>5, PassValidates DEF StoreInv, Files
    <2> QED
      BY <1>0, <2>1, <2>5, <2>6, PassMoves
  <1> QED
    BY <1>2, <1>3

LEMMA MeasureInv ==
  ASSUME Limits, StoreInv, NEW p \in Procs, Measure(p)
  PROVE  StoreInv'
  <1>0. UNCHANGED <<dir, writing, clock, crossed, excess>>
    BY DEF Measure
  <1>1. PICK e \in Pass : e = en[p] /\ PassOK(e, dir, Company)
    BY DEF StoreInv, Passes
  <1>p. PICK paths \in Seq(Nat), i \in Nat, protected \in SUBSET Nat, total \in Nat :
          /\ paths = e.paths /\ i = e.i /\ protected = e.protected /\ total = e.total
          /\ e = [pc |-> e.pc, paths |-> paths, i |-> i, protected |-> protected, total |-> total]
    BY PassParts DEF Pass
  <1>2. e.pc = "validate" /\ ~ (i <= Len(paths))
    BY <1>1, <1>p DEF Measure, More
  <1>3. Range(paths) = Listed(paths)
    BY DEF Range, Listed
  <1>4. CASE ~ (Listed(paths) \subseteq There(dir))
    <2>1. en' = [en EXCEPT ![p] = Idle]
      BY <1>1, <1>3, <1>4, <1>p, StorePresent DEF StoreInv, Measure, Local
    <2> QED
      BY <1>0, <2>1, PassEnds
  <1>5. CASE Listed(paths) \subseteq There(dir)
    <2>a. PICK t \in Nat : t = BytesIn(dir, Listed(paths))
      BY BytesType DEF StoreInv, Files, Limits
    <2>b. Bytes(Range(paths)) = t
      BY <1>3, <2>a, StoreBytes
    <2>c. PICK N \in Nat : N = Len(paths) /\ N > 0
      BY <1>1, <1>2, <1>p DEF PassOK, Sane
    <2>d. paths[N] \in Nat
      BY <2>c
    <2>e. PICK e2 : e2 = [pc |-> "evict", paths |-> paths, i |-> 1,
                          protected |-> protected \cup {paths[N]}, total |-> t]
      OBVIOUS
    <2>1. en' = [en EXCEPT ![p] = e2]
      <3>1. Newest(p) = {paths[N]}
        BY <1>1, <1>p, <2>c DEF Newest, Last
      <3>2. en' = [en EXCEPT ![p] = [en[p] EXCEPT !.pc = "evict", !.i = 1,
                      !.protected = @ \cup Newest(p), !.total = Bytes(Range(en[p].paths))]]
        BY <1>1, <1>3, <1>5, <1>p, StorePresent DEF StoreInv, Measure, Local
      <3>3. en' = [en EXCEPT ![p] = Measured(e, "evict", 1, protected \cup {paths[N]}, t)]
        BY <1>1, <1>p, <2>b, <3>1, <3>2 DEF Measured
      <3>4. e = Parts("validate", paths, i, protected, total)
        BY <1>2, <1>p DEF Parts
      <3>5. e2 = Parts("evict", paths, 1, protected \cup {paths[N]}, t)
        BY <2>e DEF Parts
      <3>6. Measured(e, "evict", 1, protected \cup {paths[N]}, t) = e2
        BY <3>4, <3>5, PartsMeasured
      <3> QED
        BY <3>3, <3>6
    <2>2. /\ e2 \in Pass /\ e2.pc = "evict" /\ e2.paths = e.paths /\ e2.i = 1
          /\ e2.protected = e.protected \cup {e.paths[Len(e.paths)]}
          /\ e2.total = BytesIn(dir, Listed(e.paths))
      <3>1. protected \cup {paths[N]} \in SUBSET Nat
        <4> PICK x \in Nat : x = paths[N]
          BY <2>d
        <4> QED
          OBVIOUS
      <3>2. e2 \in Pass
        BY <2>e, <3>1 DEF Pass
      <3> QED
        BY <1>p, <2>a, <2>c, <2>e, <3>2
    <2>3. e.i > Len(e.paths) /\ \A j \in 1 .. Len(e.paths) : dir[e.paths[j]].state # "gone"
      <3>1. \A j \in 1 .. Len(paths) : paths[j] \in There(dir)
        BY <1>5 DEF Listed
      <3>2. i > Len(paths)
        BY <1>2
      <3> QED
        BY <1>p, <3>1, <3>2 DEF There
    <2>4. PassOK(e2, dir, Company)
      <3>1. MaxSize \in Nat /\ MaxSegs \in Nat /\ dir \in Seq(Seg) /\ Len(dir) <= MaxSegs
        BY DEF StoreInv, Files, Limits
      <3> QED
        BY <1>1, <1>2, <2>2, <2>3, <3>1, PassMeasures
    <2> QED
      BY <1>0, <2>1, <2>2, <2>4, PassMoves
  <1> QED
    BY <1>4, <1>5

LEMMA EvictEndInv ==
  ASSUME Limits, StoreInv, NEW p \in Procs, EvictEnd(p)
  PROVE  StoreInv'
  BY PassEnds DEF EvictEnd, Local

\* What the removal of a segment is to the passes of the others.
LEMMA OtherKept ==
  ASSUME MaxSize \in Nat, NEW d \in Seq(Seg), NEW s \in 1 .. Len(d), NEW e \in Pass,
         NEW company, NEW company2, PassOK(e, d, company),
         e.pc \in {"validate", "evict"} => company2 = "others"
  PROVE  PassOK(e, Removed(d, s), company2)
  <1> PICK d2 : d2 = Removed(d, s)
    OBVIOUS
  <1>1. /\ d2 \in Seq(Seg) /\ Len(d2) = Len(d) /\ d2[s].state = "gone" /\ d2[s].size = 0
        /\ \A n \in 1 .. Len(d) : n # s => d2[n] = d[n]
    BY RemovedFacts
  <1>2. CASE e.pc \in {"validate", "evict"}
    <2>1. \A n \in 1 .. Len(d) : d[n].state \in Frozen => d2[n].state \in Frozen
      BY <1>1 DEF Frozen
    <2>2. ASSUME NEW ss \in SUBSET (1 .. Len(d)) PROVE BytesIn(d2, ss) <= BytesIn(d, ss)
      <3>1. ASSUME NEW n \in 1 .. Len(d) PROVE Weight(d2, ss, n) <= Weight(d, ss, n)
        <4> PICK w \in Nat : w = Weight(d, ss, n)
          BY WeightType
        <4>1. CASE n = s
          <5>1. Weight(d2, ss, n) = 0
            BY <1>1, <4>1 DEF Weight
          <5> QED
            BY <5>1
        <4>2. CASE n # s
          <5>1. Weight(d2, ss, n) = w
            BY <1>1, <4>2 DEF Weight
          <5> QED
            BY <5>1
        <4> QED
          BY <4>1, <4>2
      <3> QED
        BY <1>1, <3>1, BytesLe
    <2>3. \A ss \in SUBSET (1 .. Len(d)) : BytesIn(d2, ss) <= BytesIn(d, ss)
      BY <2>2
    <2>4. Len(d) = Len(d2)
      BY <1>1
    <2>5. PassOK(e, d2, "others")
      BY <1>1, <2>1, <2>3, <2>4, PassCrossed, Zenon
    <2> QED
      BY <1>2, <2>5
  <1>3. CASE e.pc \notin {"validate", "evict"}
    BY <1>1, <1>3 DEF PassOK
  <1> QED
    BY <1>2, <1>3

\* A segment is removed: the passes of the others no longer count.
LEMMA RemoveStep ==
  ASSUME Limits, StoreInv, NEW p \in Procs, NEW e \in Pass, NEW s, s \in 1 .. Len(dir),
         dir[s].state \in Frozen, Company' = "none" => Another(dir, s),
         PassOK(e, Removed(dir, s), Company'), Removed(dir, s) = dir',
         en' = [en EXCEPT ![p] = e], UNCHANGED <<writing, clock>>, crossed' \in BOOLEAN, excess' = FALSE,
         \A o \in Procs \ {p} : en[o].pc \in {"validate", "evict"} => Company' = "others"
  PROVE  StoreInv'
  <1>0. MaxSize \in Nat /\ MaxSegs \in Nat /\ dir \in Seq(Seg)
    BY DEF Limits, StoreInv, Files
  <1>1. en \in [Procs -> Pass] /\ \A o \in Procs : PassOK(en[o], dir, Company)
    BY DEF StoreInv, Passes
  <1>3. /\ dir' \in Seq(Seg) /\ Len(dir') = Len(dir) /\ dir'[s].state = "gone" /\ dir'[s].size = 0
        /\ dir'[s].mtime = dir[s].mtime
        /\ \A n \in 1 .. Len(dir) : n # s => dir'[n] = dir[n]
    BY <1>0, RemovedFacts
  <1>5. Files'
    <2>1. ASSUME NEW n \in 1 .. Len(dir)
          PROVE  dir'[n].mtime <= clock /\ (dir'[n].state = "gone" => dir'[n].size = 0)
      <3>0. dir[n].mtime <= clock /\ (dir[n].state = "gone" => dir[n].size = 0)
        BY DEF StoreInv, Files
      <3>1. CASE n = s
        <4>1. dir'[n].mtime = dir[n].mtime /\ dir'[n].size = 0
          BY <1>3, <3>1
        <4> QED
          BY <3>0, <4>1
      <3>2. CASE n # s
        <4>1. dir'[n] = dir[n]
          BY <1>3, <3>2
        <4> QED
          BY <3>0, <4>1
      <3> QED
        BY <3>1, <3>2
    <2>2. Len(dir) <= MaxSegs /\ clock \in Nat
      BY DEF StoreInv, Files
    <2>3. excess' \in BOOLEAN
      OBVIOUS
    <2>4. Len(dir') <= MaxSegs /\ clock' \in Nat /\ clock' = clock
      BY <1>3, <2>2
    <2>5. \A n \in 1 .. Len(dir') : dir'[n].mtime <= clock' /\ (dir'[n].state = "gone" => dir'[n].size = 0)
      BY <1>3, <2>1, <2>4
    <2> QED
      BY <1>3, <2>3, <2>4, <2>5, Zenon DEF Files
  <1>6. Writers'
    BY <1>3 DEF StoreInv, Writers, Frozen
  <1>7. Remains'
    <2>1. ASSUME ~crossed' PROVE There(dir') # {}
      <3>1. Company' = "none"
        BY <2>1, Zenon DEF Company
      <3>2. PICK n \in There(dir) : n # s
        BY <3>1 DEF Another
      <3>3. n \in There(dir')
        BY <1>3, <3>2 DEF There
      <3> QED
        BY <3>3
    <2> QED
      BY <2>1 DEF Remains
  <1>8. ASSUME NEW o \in Procs PROVE PassOK(en'[o], dir', Company')
    <2>1. CASE o = p
      BY <1>1, <2>1
    <2>2. CASE o # p
      <3> PICK x \in Pass : x = en[o]
        BY <1>1
      <3>1. en'[o] = x /\ PassOK(x, dir, Company) /\ (x.pc \in {"validate", "evict"} => Company' = "others")
        BY <1>1, <2>2
      <3>2. PassOK(x, Removed(dir, s), Company')
        BY <1>0, <3>1, OtherKept, Zenon
      <3> QED
        BY <3>1, <3>2
    <2> QED
      BY <2>1, <2>2
  <1>9. Passes'
    BY <1>1, <1>8 DEF Passes
  <1>10. ~excess'
    OBVIOUS
  <1> QED
    BY <1>5, <1>6, <1>7, <1>9, <1>10 DEF StoreInv

LEMMA EvictInv ==
  ASSUME Limits, StoreInv, NEW p \in Procs, Evict(p)
  PROVE  StoreInv'
  <1>0. /\ MaxSize \in Nat /\ MaxSegs \in Nat /\ MaxBytes \in Nat /\ dir \in Seq(Seg)
        /\ UNCHANGED <<writing, clock>>
    BY DEF Limits, StoreInv, Files, Evict
  <1>1. PICK e \in Pass : e = en[p] /\ PassOK(e, dir, Company)
    BY DEF StoreInv, Passes
  <1>p. PICK paths \in Seq(Nat), i \in Nat, protected \in SUBSET Nat, total \in Nat :
          /\ paths = e.paths /\ i = e.i /\ protected = e.protected /\ total = e.total
          /\ e = [pc |-> e.pc, paths |-> paths, i |-> i, protected |-> protected, total |-> total]
    BY PassParts DEF Pass
  <1>2. e.pc = "evict" /\ e.i <= Len(e.paths)
    BY <1>1 DEF Evict, More
  <1>3. PICK s : s = Path(p) /\ s = e.paths[e.i]
    BY <1>1 DEF Path
  <1>4. e = [pc |-> "evict", paths |-> paths, i |-> i, protected |-> protected, total |-> total]
    BY <1>2, <1>p
  <1>5. CASE s \in protected \/ s \notin Remaining
    <2>1. en' = [en EXCEPT ![p] = [en[p] EXCEPT !.i = @ + 1]] /\ UNCHANGED <<dir, crossed, excess>>
      BY <1>1, <1>3, <1>5, <1>p DEF Evict, Local
    <2>2. PICK e2 : e2 = [pc |-> "evict", paths |-> paths, i |-> i + 1, protected |-> protected, total |-> total]
      OBVIOUS
    <2>3. [e EXCEPT !.i = i + 1] = e2
      BY <1>4, <2>2
    <2>4. en' = [en EXCEPT ![p] = e2]
      BY <1>1, <1>p, <2>1, <2>3
    <2>5. e2 \in Pass /\ e2.pc = "evict" /\ e2.paths = e.paths /\ e2.i = e.i + 1
            /\ e2.protected = e.protected /\ e2.total = e.total
      <3>1. i + 1 \in Nat \ {0}
        OBVIOUS
      <3>2. e2 \in Pass
        BY <2>2, <3>1 DEF Pass
      <3> QED
        BY <1>p, <2>2, <3>2
    <2>6. PassOK(e2, dir, Company)
      BY <1>0, <1>1, <1>2, <2>5, PassSkips
    <2> QED
      BY <1>0, <2>1, <2>4, <2>5, <2>6, PassMoves
  <1>6. CASE ~ (s \in protected \/ s \notin Remaining) /\ ~TooOld(s) /\ total <= MaxBytes
    <2>1. en' = [en EXCEPT ![p] = Idle] /\ UNCHANGED <<dir, crossed, excess>>
      BY <1>1, <1>3, <1>6, <1>p DEF Evict, Local
    <2> QED
      BY <1>0, <2>1, PassEnds
  <1>7. CASE ~ (s \in protected \/ s \notin Remaining) /\ (TooOld(s) \/ ~ (total <= MaxBytes))
    <2>0. /\ s \in 1 .. Len(dir) /\ dir[s].state \in Frozen /\ dir[s].size \in Nat /\ dir[s].size <= total
          /\ Company = "none" => Another(dir, s)
          /\ Company = "none" => total <= BytesIn(dir, Listed(paths))
          /\ Listed(paths) \subseteq 1 .. Len(dir)
      <3>1. s \notin e.protected
        BY <1>7, <1>p
      <3>2. /\ s \in 1 .. Len(dir) /\ dir[s].state \in Frozen
            /\ dir[s].size \in Nat /\ dir[s].size <= e.total
        BY <1>0, <1>1, <1>2, <1>3, <3>1, EvictFacts
      <3>3. Listed(e.paths) \subseteq 1 .. Len(dir)
        BY <1>0, <1>1, <1>2, <1>3, <3>1, EvictFacts
      <3>4. ASSUME Company = "none" PROVE Another(dir, s)
        BY <1>0, <1>1, <1>2, <1>3, <3>1, <3>4, EvictFacts
      <3>5. ASSUME Company = "none" PROVE e.total <= BytesIn(dir, Listed(e.paths))
        BY <1>0, <1>1, <1>2, <1>3, <3>1, <3>5, EvictFacts
      <3> QED
        BY <1>p, <3>2, <3>3, <3>4, <3>5
    <2>1. /\ dir' = Removed(dir, s)
          /\ en' = [en EXCEPT ![p] = [en[p] EXCEPT !.i = @ + 1, !.total = Left(p, s)]]
          /\ crossed' = (crossed \/ \E o \in Procs \ {p} : en[o].pc \in {"validate", "evict"})
          /\ excess' = (excess \/ (~crossed' /\ ~TooOld(s) /\ Bytes(Remaining) <= MaxBytes))
      BY <1>1, <1>3, <1>7, <1>p DEF Evict, Local, Removed
    <2>2. PICK e2 : e2 = [pc |-> "evict", paths |-> paths, i |-> i + 1, protected |-> protected,
                          total |-> total - dir[s].size]
      OBVIOUS
    <2>3. [e EXCEPT !.i = i + 1, !.total = total - dir[s].size] = e2
      <3>1. [e EXCEPT !.i = i + 1]
              = [pc |-> "evict", paths |-> paths, i |-> i + 1, protected |-> protected, total |-> total]
        BY <1>4
      <3>2. [[pc |-> "evict", paths |-> paths, i |-> i + 1, protected |-> protected, total |-> total]
               EXCEPT !.total = total - dir[s].size] = e2
        BY <2>2
      <3> QED
        BY <3>1, <3>2
    <2>4. en' = [en EXCEPT ![p] = e2]
      <3>1. Left(p, s) = total - dir[s].size
        BY <1>1, <1>p DEF Left
      <3>2. [en[p] EXCEPT !.i = @ + 1, !.total = Left(p, s)]
              = [e EXCEPT !.i = i + 1, !.total = total - dir[s].size]
        BY <1>1, <1>p, <3>1
      <3> QED
        BY <2>1, <2>3, <3>2
    <2>5. e2 \in Pass /\ e2.pc = "evict" /\ e2.paths = e.paths /\ e2.i = e.i + 1
            /\ e2.protected = e.protected /\ e2.total = e.total - dir[s].size
      <3>1. i + 1 \in Nat \ {0}
        OBVIOUS
      <3>2. total - dir[s].size \in Nat
        BY <2>0
      <3>3. e2 \in Pass
        BY <2>2, <3>1, <3>2 DEF Pass
      <3> QED
        BY <1>p, <2>2, <3>3
    <2>6. crossed' \in BOOLEAN
      BY <2>1 DEF StoreInv, Files
    <2>7. Company' = "none" => Company = "none" /\ ~crossed'
      BY <2>1, Zenon DEF Company
    <2>8. \A o \in Procs \ {p} : en[o].pc \in {"validate", "evict"} => Company' = "others"
      BY <2>1, Zenon DEF Company
    <2>9. PassOK(e2, Removed(dir, s), Company')
      <3>1. s \notin e.protected
        BY <1>7, <1>p
      <3>2. PassOK(e2, Removed(dir, s), Company)
        BY <1>0, <1>1, <1>2, <1>3, <2>5, <3>1, PassRemoves
      <3> QED
        BY <2>5, <2>7, <3>2, PassWeaker
    <2>10. excess' = FALSE
      <3>1. ASSUME ~crossed', ~TooOld(s), Bytes(Remaining) <= MaxBytes PROVE FALSE
        <4>1. Company = "none"
          BY <2>1, <3>1 DEF Company
        <4>p. PICK l \in Nat, t \in Nat : l = BytesIn(dir, Listed(paths)) /\ t = BytesIn(dir, There(dir))
          BY <1>0, BytesType
        <4>2. total <= l
          BY <2>0, <4>1, <4>p
        <4>3. l <= t
          <5>1. \A n \in 1 .. Len(dir) : dir[n].state = "gone" => dir[n].size = 0
            BY DEF StoreInv, Files
          <5> QED
            BY <1>0, <2>0, <4>p, <5>1, BytesThere
        <4>4. t <= MaxBytes
          BY <3>1, <4>p, StoreBytes, StorePresent DEF StoreInv
        <4>5. ~ (total <= MaxBytes)
          BY <1>7, <3>1
        <4> QED
          BY <1>0, <4>2, <4>3, <4>4, <4>5
      <3>2. ~excess
        BY DEF StoreInv
      <3> QED
        BY <2>1, <3>1, <3>2, Zenon
    <2>11. Company' = "none" => Another(dir, s)
      BY <2>0, <2>7
    <2> QED
      BY <1>0, <2>0, <2>1, <2>4, <2>5, <2>6, <2>8, <2>9, <2>10, <2>11, RemoveStep
  <1> QED
    BY <1>5, <1>6, <1>7

----------------------------------------------------------------------------
LEMMA NextStore ==
  ASSUME Limits, StoreInv, [StoreNext]_storeVars
  PROVE  StoreInv'
  <1>1. CASE Tick
    BY <1>1, TickInv
  <1>2. ASSUME NEW p \in Procs, \/ Write(p, "stub", "open") \/ Write(p, "open", "open")
                                \/ Write(p, "open", "sealed")
        PROVE  StoreInv'
    BY <1>2, WriteInv
  <1>3. ASSUME NEW p \in Procs, Create(p) \/ Die(p) PROVE StoreInv'
    BY <1>3, CreateInv, DieInv
  <1>4. ASSUME NEW p \in Procs, EnforceLimits(p) PROVE StoreInv'
    BY <1>4, ListInv, ValidateInv, MeasureInv, EvictInv, EvictEndInv DEF EnforceLimits
  <1>5. CASE UNCHANGED storeVars
    BY <1>5 DEF storeVars, StoreInv, Files, Writers, Passes, Company, Remains, There
  <1> QED
    BY <1>1, <1>2, <1>3, <1>4, <1>5 DEF StoreNext

LEMMA StoreImplies ==
  ASSUME Limits, StoreInv
  PROVE  RetentionSound
  <1>1. Ids = 1 .. Len(dir) /\ Remaining = There(dir)
    BY StorePresent DEF StoreInv
  <1>2. StoreTypeOK
    <2>1. ASSUME NEW s \in 1 .. Len(dir)
          PROVE  /\ dir[s].state \in {"stub", "open", "sealed", "gone"}
                 /\ dir[s].size \in 0 .. MaxSize /\ dir[s].mtime \in 0 .. clock
      <3>1. dir[s] \in Seg /\ dir[s].mtime <= clock /\ clock \in Nat
        BY DEF StoreInv, Files
      <3> PICK x \in Seg : x = dir[s]
        BY <3>1
      <3>2. x.state \in {"stub", "open", "sealed", "gone"} /\ x.size \in 0 .. MaxSize /\ x.mtime \in Nat
        BY DEF Seg
      <3>3. x.mtime \in 0 .. clock
        BY <3>1, <3>2
      <3> QED
        BY <3>2, <3>3
    <2>2. ASSUME NEW p \in Procs
          PROVE  /\ en[p].protected \subseteq 1 .. Len(dir) /\ writing[p] \in (1 .. Len(dir)) \cup {0}
                 /\ en[p].total \in 0 .. MaxSegs * MaxSize
      <3>1. PICK e \in Pass : e = en[p] /\ PassOK(e, dir, Company)
        BY DEF StoreInv, Passes
      <3>2. e.protected \subseteq 1 .. Len(dir) /\ e.total <= MaxSegs * MaxSize /\ e.total \in Nat
        BY <3>1 DEF PassOK, Pass
      <3>3. e.total \in 0 .. MaxSegs * MaxSize
        <4> PICK a \in Nat, b \in Nat : a = MaxSegs /\ b = MaxSize
          BY DEF Limits
        <4> PICK m \in Nat : m = a * b
          OBVIOUS
        <4>1. e.total \in 0 .. m
          BY <3>2
        <4> QED
          BY <4>1
      <3>4. writing[p] \in (1 .. Len(dir)) \cup {0}
        BY DEF StoreInv, Writers
      <3> QED
        BY <3>1, <3>2, <3>3, <3>4
    <2> QED
      BY <1>1, <2>1, <2>2 DEF StoreTypeOK
  <1>3. WriterKeepsSegment
    BY <1>1 DEF StoreInv, Writers, There, WriterKeepsSegment
  <1>4. SomethingKept
    BY <1>1 DEF StoreInv, Remains, SomethingKept
  <1>5. EvictsOnlyExcess
    BY DEF StoreInv, EvictsOnlyExcess
  <1> QED
    BY <1>2, <1>3, <1>4, <1>5 DEF RetentionSound

\* Whatever the processes that share a directory of segments, their number,
\* budgets, deaths and the interleaving of their passes: no process loses the
\* segment it writes to a pass, passes that do not overlap leave the newest
\* segment and remove nothing the limits do not ask for (enforce_limits).
THEOREM RetentionIsSound == StoreSpec => []RetentionSound
  <1>0. Limits
    BY StoreAssumption DEF Limits
  <1>1. StoreInit => StoreInv
    BY <1>0, InitStore
  <1>2. StoreInv /\ [StoreNext]_storeVars => StoreInv'
    BY <1>0, NextStore
  <1>3. StoreInv => RetentionSound
    BY <1>0, StoreImplies
  <1> QED
    BY <1>1, <1>2, <1>3, PTL DEF StoreSpec
=============================================================================
