-------------------------- MODULE HeapSlots_proofs --------------------------
(***************************************************************************)
(* Every page of a chunk is accounted for, slots of a Ppage never overlap  *)
(* and frames are only shared within a Ppage, for any number of threads    *)
(* and any sizes.  The argument follows a page through a call: while it is *)
(* ahead of the call nothing has happened to it, and the piece that covers *)
(* it maps, registers or unregisters it.                                   *)
(*                                                                         *)
(* The vlists and the two maps agree although the lists lose members: what *)
(* a list leads to is in use and leads back, and its count misses at most  *)
(* one page.  Together this makes HeapInv inductive, from which the        *)
(* properties of the heap follow.                                          *)
(***************************************************************************)
EXTENDS HeapPages_proofs, FiniteSetTheorems

(***************************************************************************)
(* Where a piece lies.                                                     *)
(***************************************************************************)
(* The numbers of a call that is at a piece.                               *)
LEMMA CallNumbers ==
  ASSUME TypeOK, CallOK, NEW t \in Busy
  PROVE  /\ t \in Thread /\ op[t].beg \in Nat /\ op[t].vaddr \in Nat /\ op[t].remain \in Nat
         /\ op[t].cls \in Class /\ ClassSize[op[t].cls] \in Nat \ {0}
         /\ op[t].beg <= op[t].vaddr
         /\ op[t].vaddr + op[t].remain = op[t].beg + ClassSize[op[t].cls]
         /\ op[t].vaddr = op[t].beg \/ Aligned(op[t].vaddr) \/ op[t].remain = 0
         /\ \A b \in Pages(InCall(t)) : 
              /\ b \in Nat /\ Aligned(b) /\ RoundDownTo(op[t].beg) <= b 
              /\ b < op[t].beg + ClassSize[op[t].cls]
<1>1. t \in Thread
  BY DEF Busy
<1>2. /\ op[t].beg \in Nat /\ op[t].vaddr \in Nat /\ op[t].remain \in Nat
      /\ op[t].cls \in Class /\ ClassSize[op[t].cls] \in Nat \ {0}
      /\ RoundDownTo(op[t].beg) \in Nat
      /\ Pages(InCall(t)) = 
           {b \in RoundDownTo(op[t].beg)..(op[t].beg + ClassSize[op[t].cls] - 1) : Aligned(b)}
  BY <1>1, CallPages
<1>3. /\ op[t].beg <= op[t].vaddr
      /\ op[t].vaddr + op[t].remain = op[t].beg + ClassSize[op[t].cls]
      /\ op[t].vaddr = op[t].beg \/ Aligned(op[t].vaddr) \/ op[t].remain = 0
  BY <1>2 DEF CallOK
<1> QED
  BY <1>1, <1>2, <1>3

(* A partial piece is all its chunk has in that page.                      *)
LEMMA PieceBytes ==
  ASSUME TypeOK, CallOK, NEW t \in Busy, IsPartial(op[t].vaddr, op[t].remain)
  PROVE  /\ SameBytes(PieceSlot(t), SlotIn(InCall(t), PieceBase(t)))
         /\ PieceSlot(t).size < PageSize
         /\ Partial(InCall(t), PieceBase(t))
<1> DEFINE v == op[t].vaddr
           r == op[t].remain
           s == PartialSize(v, r)
           b == RoundDownTo(v)
           o == OffsetOf(v)
           x == InCall(t)
           beg == op[t].beg
           cs == ClassSize[op[t].cls]
<1>1. /\ v \in Nat /\ r \in Nat /\ beg \in Nat /\ cs \in Nat
      /\ beg <= v /\ v + r = beg + cs /\ (v = beg \/ Aligned(v) \/ r = 0)
  BY CallNumbers
<1>2. s \in Nat /\ s < PageSize /\ s = (IF PageSize - o < r THEN PageSize - o ELSE r)
      /\ r > 0
  BY <1>1, PartialSizeBounds DEF PartialSize, Least, IsPartial
<1>3. b \in Nat /\ o \in Nat /\ v = b + o /\ o < PageSize /\ (Aligned(v) => o = 0)
      /\ PageSize \in Nat
  BY <1>1, RoundDownBounds, PageSizeAssumption DEF Aligned
<1> DEFINE from == IF beg < b THEN b ELSE beg
           to == IF beg + cs < b + PageSize THEN beg + cs ELSE b + PageSize
<1>4. SlotIn(x, b).offset = from - b /\ SlotIn(x, b).size = to - from
  BY DEF SlotIn, Slot, Least, InCall
<1>5. PieceSlot(t).offset = o /\ PieceSlot(t).size = s /\ PieceBase(t) = b
  BY DEF PieceSlot, Slot, PieceBase
<1> HIDE DEF v, r, s, b, o, x, beg, cs
<1>6. from = v
  BY <1>1, <1>2, <1>3
<1>7. to = v + s
  BY <1>1, <1>2, <1>3
<1> HIDE DEF from, to
<1>8. SlotIn(x, b).offset = o /\ SlotIn(x, b).size = s
  BY <1>1, <1>2, <1>3, <1>4, <1>6, <1>7
<1> QED
  BY <1>2, <1>5, <1>8 DEF x, SameBytes, Partial

(* A whole page of a chunk is not a partial one.                           *)
LEMMA WholeBytes ==
  ASSUME TypeOK, CallOK, NEW t \in Busy, IsWhole(op[t].vaddr, op[t].remain),
         NEW b \in PagesOf(op[t].vaddr, WholeSize(op[t].remain))
  PROVE  ~Partial(InCall(t), b)
<1> DEFINE v == op[t].vaddr
           r == op[t].remain
           s == WholeSize(r)
           x == InCall(t)
           beg == op[t].beg
           cs == ClassSize[op[t].cls]
<1>1. /\ v \in Nat /\ r \in Nat /\ beg \in Nat /\ cs \in Nat
      /\ beg <= v /\ v + r = beg + cs
  BY CallNumbers
<1>2. s \in Nat /\ s <= r /\ Aligned(v) /\ Aligned(v + s)
  BY <1>1, WholeSizeBounds, WholeInChunk
<1>3. RoundDownTo(v) = v
  BY <1>1, <1>2, RoundDownOfAligned
<1>4. b \in Nat /\ Aligned(b) /\ v <= b /\ b < v + s
  BY <1>1, <1>2, <1>3, PagesOfNat
<1>5. b + PageSize <= v + s
  BY <1>1, <1>2, <1>4, AlignedApart
<1>6. SlotIn(x, b).size = (IF beg + cs < b + PageSize THEN beg + cs ELSE b + PageSize)
                          - (IF beg < b THEN b ELSE beg)
  BY DEF SlotIn, Slot, Least, InCall
<1> HIDE DEF v, r, s, x, beg, cs
<1>7. SlotIn(x, b).size = PageSize
  BY <1>1, <1>2, <1>4, <1>5, <1>6, PageSizeAssumption
<1> QED
  BY <1>7, PageSizeAssumption DEF Partial, x

(* What a call has worked through is what it is not ahead of.              *)
LEMMA ReachedBehind ==
  ASSUME TypeOK, CallOK, NEW t \in Busy
  PROVE  \A b : b \in Reached(t) <=> b \in Pages(InCall(t)) /\ ~Ahead(t, b)
<1>1. op[t].vaddr \in Nat /\ \A b \in Pages(InCall(t)) : b \in Nat
  BY CallNumbers
<1> QED
  BY <1>1 DEF Reached, Ahead

(* A step of a call leaves the other calls where they are.                 *)
LEMMA AdvanceFrame ==
  ASSUME TypeOK, NEW t \in Thread, NEW size \in Nat, size <= op[t].remain, Advance(t, size)
  PROVE  /\ Busy' = Busy /\ Mallocing' = Mallocing /\ Freeing' = Freeing
         /\ \A u \in Thread : InCall(u)' = InCall(u)
         /\ \A u \in Thread : \A b : u # t => (Ahead(u, b)' <=> Ahead(u, b))
         /\ op'[t].beg = op[t].beg /\ op'[t].vaddr = op[t].vaddr + size
<1>1. /\ op' \in [Thread -> Call]
      /\ \A u \in Thread : u # t => op'[u] = op[u]
      /\ op'[t].kind = op[t].kind /\ op'[t].cls = op[t].cls /\ op'[t].beg = op[t].beg
      /\ op'[t].vaddr = op[t].vaddr + size /\ op'[t].remain = op[t].remain - size
  BY AdvanceType DEF TypeOK, CallTypes
<1> QED
  BY <1>1 DEF Busy, Mallocing, Freeing, InCall, Ahead

(* The pages ahead of a call become fewer by those of the piece.           *)
LEMMA PartialProgress ==
  ASSUME TypeOK, CallOK, NEW t \in Busy, IsPartial(op[t].vaddr, op[t].remain),
         Advance(t, PieceSlot(t).size)
  PROVE  /\ PieceBase(t) \in Pages(InCall(t)) /\ Ahead(t, PieceBase(t))
         /\ \A b \in Pages(InCall(t)) : 
              Ahead(t, b)' <=> (Ahead(t, b) /\ b # PieceBase(t))
<1> DEFINE v == op[t].vaddr
           s == PieceSlot(t).size
           base == PieceBase(t)
           beg == op[t].beg
<1>1. /\ t \in Thread /\ v \in Nat /\ beg \in Nat /\ beg <= v
      /\ (v = beg \/ Aligned(v))
  BY CallNumbers DEF IsPartial
<1>2. /\ s \in Nat /\ 0 < s /\ s <= op[t].remain /\ base \in Pages(InCall(t)) /\ base < v + s
  BY PieceInChunk
<1>3. /\ base \in Nat /\ base <= v /\ Aligned(base) /\ v < base + PageSize
      /\ base = RoundDownTo(v)
  BY <1>1, RoundDownBounds, RoundDownAligned DEF PieceBase
<1>4. v + s <= base + PageSize
  <2>1. s + OffsetOf(v) <= PageSize /\ v = base + OffsetOf(v) /\ OffsetOf(v) \in Nat
    BY <1>1, <1>3, PartialSizeBounds, RoundDownBounds, CallNumbers DEF PieceSlot, Slot
  <2> QED BY <2>1, <1>1, <1>2, <1>3, PageSizeAssumption
<1>5. op'[t].beg = beg /\ op'[t].vaddr = v + s
  BY <1>1, <1>2, AdvanceFrame
<1>6. v # beg => base = v
  BY <1>1, <1>3, RoundDownBounds DEF Aligned
<1> HIDE DEF v, s, base, beg
<1>7. ASSUME NEW b \in Pages(InCall(t)) 
      PROVE  (v + s = beg \/ b >= v + s) <=> ((v = beg \/ b >= v) /\ b # base)
  <2>1. /\ b \in Nat /\ Aligned(b) /\ RoundDownTo(beg) <= b
    BY CallNumbers DEF beg
  <2>2. v = beg => base <= b
    BY <2>1, <1>3
  <2>3. base < b => base + PageSize <= b
    BY <2>1, <1>3, AlignedApart
  <2> QED BY <2>1, <2>2, <2>3, <1>1, <1>2, <1>3, <1>4, <1>6, PageSizeAssumption
<1>8. \A b : /\ Ahead(t, b) <=> (v = beg \/ b >= v)
             /\ Ahead(t, b)' <=> (v + s = beg \/ b >= v + s)
  BY <1>5 DEF Ahead, v, beg
<1>9. Ahead(t, base)
  BY <1>1, <1>6, <1>8
<1>10. \A b \in Pages(InCall(t)) : Ahead(t, b)' <=> (Ahead(t, b) /\ b # base)
  BY <1>7, <1>8
<1> QED
  BY <1>2, <1>9, <1>10 DEF base

(* The whole pages that a call passes were ahead of it, and no longer are. *)
LEMMA WholeProgress ==
  ASSUME TypeOK, CallOK, NEW t \in Busy, IsWhole(op[t].vaddr, op[t].remain),
         Advance(t, WholeSize(op[t].remain))
  PROVE  LET new == PagesOf(op[t].vaddr, WholeSize(op[t].remain)) IN
         /\ \A b \in new : b \in Pages(InCall(t)) /\ Ahead(t, b)
         /\ \A b \in Pages(InCall(t)) : Ahead(t, b)' <=> (Ahead(t, b) /\ b \notin new)
<1> DEFINE v == op[t].vaddr
           s == WholeSize(op[t].remain)
           beg == op[t].beg
           new == PagesOf(v, s)
<1>1. /\ t \in Thread /\ v \in Nat /\ beg \in Nat /\ beg <= v /\ op[t].remain \in Nat
  BY CallNumbers
<1>2. /\ s \in Nat /\ 0 < s /\ s <= op[t].remain /\ Aligned(v)
      /\ \A b \in new : b \in Pages(InCall(t)) /\ b < v + s
  BY <1>1, WholeInChunk DEF IsWhole
<1>3. RoundDownTo(v) = v
  BY <1>1, <1>2, RoundDownOfAligned
<1>4. \A b : b \in new <=> b \in v..(v + s - 1) /\ Aligned(b)
  BY <1>3 DEF PagesOf
<1>5. op'[t].beg = beg /\ op'[t].vaddr = v + s
  BY <1>1, <1>2, AdvanceFrame
<1> HIDE DEF v, s, beg, new
<1>7. ASSUME NEW b \in Pages(InCall(t)) 
      PROVE  /\ b \in Nat
             /\ (v = beg \/ b >= v) <=> (b \in new \/ b >= v + s)
             /\ (v + s = beg \/ b >= v + s) <=> b >= v + s
  <2>1. /\ b \in Nat /\ Aligned(b) /\ RoundDownTo(beg) <= b
    BY CallNumbers DEF beg
  <2> QED BY <2>1, <1>1, <1>2, <1>3, <1>4
<1>8. \A b : /\ Ahead(t, b) <=> (v = beg \/ b >= v)
             /\ Ahead(t, b)' <=> (v + s = beg \/ b >= v + s)
  BY <1>5 DEF Ahead, v, beg
<1>9. \A b \in new : b \in Pages(InCall(t)) /\ Ahead(t, b)
  BY <1>2, <1>7, <1>8
<1>10. ASSUME NEW b \in Pages(InCall(t)) PROVE Ahead(t, b)' <=> (Ahead(t, b) /\ b \notin new)
  BY <1>1, <1>2, <1>7, <1>8
<1> QED
  BY <1>9, <1>10 DEF new, v, s

(* Nothing is mapped of what malloc is ahead of.                           *)
LEMMA AheadUnmapped ==
  ASSUME TypeOK, AddressInv, NEW t \in Mallocing, NEW b \in Pages(InCall(t)), Ahead(t, b)
  PROVE  b \notin DOMAIN vm
<1>1. t \in Busy /\ t \notin Freeing /\ Freeing \subseteq Busy /\ Mallocing \subseteq Busy
  BY DEF Mallocing, Busy, Freeing
<1>2. PagesExclusive
  BY AddressInvImplies
<1>3. \A x \in live : b \notin Pages(x)
  BY <1>1, <1>2 DEF PagesExclusive
<1>4. \A u \in Busy : u # t => b \notin Pages(InCall(u))
  BY <1>1, <1>2 DEF PagesExclusive
<1>5. b \notin Reached(t)
  BY <1>1, ReachedBehind DEF AddressInv
<1>6. \A u \in Mallocing : b \notin Reached(u)
  BY <1>1, <1>4, <1>5 DEF Reached
<1> QED
  BY <1>1, <1>3, <1>4, <1>6 DEF AddressInv, MappedOwned

(* What a call can say of its pages it alone can say.                      *)
LEMMA OwnPage ==
  ASSUME TypeOK, AddressInv, NEW t \in Busy, NEW b \in Pages(InCall(t))
  PROVE  /\ \A x \in live : b \notin Pages(x)
         /\ \A u \in Busy : u # t => b \notin Pages(InCall(u))
         /\ \A u \in Freeing : u # t => b \notin Pages(InCall(u))
         /\ \A u \in Mallocing : u # t => b \notin Pages(InCall(u)) /\ b \notin Reached(u)
<1>1. Freeing \subseteq Busy /\ Mallocing \subseteq Busy
  BY DEF Mallocing, Busy, Freeing
<1>2. PagesExclusive
  BY AddressInvImplies
<1>3. /\ \A x \in live : b \notin Pages(x)
      /\ \A u \in Busy : u # t => b \notin Pages(InCall(u))
  BY <1>2 DEF PagesExclusive
<1> QED
  BY <1>1, <1>3 DEF Reached

(***************************************************************************)
(* The pages of the chunks.                                                *)
(***************************************************************************)
PageInv == HeldGeometry /\ Registered /\ Covered

(* Malloc maps the page of a partial piece, holds its slot and registers   *)
(* it.                                                                     *)
LEMMA MapPiecePages ==
  ASSUME TypeOK, TypeOK', AddressInv, PageInv, NEW t \in Mallocing, 
         IsPartial(op[t].vaddr, op[t].remain), Advance(t, PieceSlot(t).size), 
         NEW p, NEW f, UNCHANGED live,
         vm' = Put(vm, PieceBase(t), f), 
         held' = Put(held, PieceBase(t), PageSlot(p, PieceSlot(t))),
         pagemap' = Put(pagemap, PieceBase(t), p)
  PROVE  PageInv'
<1> DEFINE b == PieceBase(t)
           slot == PageSlot(p, PieceSlot(t))
<1>1. CallOK /\ t \in Thread /\ t \in Busy /\ t \notin Freeing /\ Freeing \subseteq Busy
      /\ Mallocing \subseteq Busy /\ Busy \subseteq Thread
  BY DEF AddressInv, Mallocing, Busy, Freeing
<1>2. /\ b \in Pages(InCall(t)) /\ Ahead(t, b)
      /\ \A d \in Pages(InCall(t)) : Ahead(t, d)' <=> (Ahead(t, d) /\ d # b)
  BY <1>1, PartialProgress
<1>3. /\ \A x \in live : b \notin Pages(x)
      /\ \A u \in Busy : u # t => b \notin Pages(InCall(u))
      /\ b \notin DOMAIN vm
  BY <1>1, <1>2, OwnPage, AheadUnmapped
<1>4. /\ Busy' = Busy /\ Mallocing' = Mallocing /\ Freeing' = Freeing
      /\ \A u \in Thread : InCall(u)' = InCall(u)
      /\ \A u \in Thread : \A d : u # t => (Ahead(u, d)' <=> Ahead(u, d))
  BY <1>1, PieceInChunk, AdvanceFrame
<1>5. /\ DOMAIN vm' = DOMAIN vm \cup {b} /\ DOMAIN held' = DOMAIN held \cup {b}
      /\ DOMAIN pagemap' = DOMAIN pagemap \cup {b}
      /\ \A d \in DOMAIN held' : held'[d] = IF d = b THEN slot ELSE held[d]
      /\ \A d \in DOMAIN pagemap' : pagemap'[d] = IF d = b THEN p ELSE pagemap[d]
  BY DEF Put
<1>6. /\ slot.page = p /\ slot.size < PageSize 
      /\ SameBytes(slot, SlotIn(InCall(t), b)) /\ Partial(InCall(t), b)
  BY <1>1, PieceBytes DEF PageSlot, SameBytes
<1>7. \A u \in Busy : Pages(InCall(u)') = Pages(InCall(u))
  BY <1>1, <1>4
<1> HIDE DEF b, slot
<1>8. HeldGeometry'
  <2>1. ASSUME NEW d \in DOMAIN held'
        PROVE  /\ held'[d].size < PageSize
               /\ \A x \in live : d \in Pages(x) => SameBytes(held'[d], SlotIn(x, d))
               /\ \A u \in Busy : d \in Pages(InCall(u)) 
                                   => SameBytes(held'[d], SlotIn(InCall(u), d))
    <3>1. CASE d = b
      BY <3>1, <1>3, <1>5, <1>6
    <3>2. CASE d # b
      BY <3>2, <1>5 DEF PageInv, HeldGeometry
    <3> QED BY <3>1, <3>2
  <2>2. \A u \in Busy : InCall(u)' = InCall(u)
    BY <1>1, <1>4
  <2> QED BY <2>1, <2>2, <1>4, <1>7 DEF HeldGeometry, Pages
<1>9. Registered'
  <2>1. DOMAIN pagemap' \subseteq DOMAIN held'
    BY <1>5 DEF PageInv, Registered
  <2>2. \A d \in DOMAIN pagemap' : held'[d].page = pagemap'[d]
    BY <1>5, <1>6, <2>1 DEF PageInv, Registered
  <2>3. \A d \in DOMAIN held' : d \in DOMAIN pagemap' \/ \E u \in Freeing : d \in Pages(InCall(u))
    BY <1>5 DEF PageInv, Registered
  <2>4. ASSUME NEW u \in Freeing, NEW d \in Pages(InCall(u)), d \in DOMAIN pagemap'
        PROVE  Ahead(u, d)'
    <3>1. u \in Busy /\ u # t /\ d # b
      BY <1>1, <1>3
    <3> QED BY <3>1, <1>1, <1>4, <1>5, <2>4 DEF PageInv, Registered
  <2> QED BY <2>1, <2>2, <2>3, <2>4, <1>1, <1>4, <1>7 DEF Registered, Pages
<1>10. Covered'
  <2>1. \A x \in live : \A d \in Pages(x) : 
          d \in DOMAIN vm' /\ (Partial(x, d) => d \in DOMAIN pagemap')
    BY <1>5 DEF PageInv, Covered
  <2>2. ASSUME NEW u \in Mallocing, NEW d \in Pages(InCall(u)), ~Ahead(u, d)'
        PROVE  d \in DOMAIN vm' /\ (Partial(InCall(u), d) => d \in DOMAIN pagemap')
    <3>1. CASE u = t /\ d = b
      BY <3>1, <1>5
    <3>2. CASE ~(u = t /\ d = b)
      <4>1. ~Ahead(u, d)
        BY <3>2, <2>2, <1>1, <1>2, <1>4
      <4>2. d \in Reached(u)
        BY <4>1, <1>1, ReachedBehind
      <4> QED BY <4>2, <1>5 DEF PageInv, Covered
    <3> QED BY <3>1, <3>2
  <2>3. ASSUME NEW u \in Freeing, NEW d \in Pages(InCall(u)), Ahead(u, d)', 
               Partial(InCall(u), d)
        PROVE  d \in DOMAIN pagemap'
    <3>1. Ahead(u, d)
      BY <2>3, <1>1, <1>4
    <3> QED BY <3>1, <2>3, <1>5 DEF PageInv, Covered
  <2>4. \A u \in Busy : InCall(u)' = InCall(u)
    BY <1>1, <1>4
  <2>5. \A u \in Mallocing : \A d : d \in Reached(u)' => d \in Pages(InCall(u)) /\ ~Ahead(u, d)'
    <3>1. \A u \in Mallocing : 
            /\ op'[u].vaddr \in Nat /\ Pages(InCall(u))' = Pages(InCall(u))
            /\ \A d \in Pages(InCall(u)) : d \in Nat
      BY <1>1, <1>7, CallNumbers DEF TypeOK, CallTypes, Call, Pages
    <3> QED BY <3>1 DEF Reached, Ahead
  <2>6. \A u \in Mallocing : \A d \in Reached(u)' : 
          d \in DOMAIN vm' /\ (Partial(InCall(u)', d) => d \in DOMAIN pagemap')
    BY <2>2, <2>4, <2>5, <1>1
  <2>7. \A u \in Freeing : \A d \in Pages(InCall(u)') : 
          Ahead(u, d)' /\ Partial(InCall(u)', d) => d \in DOMAIN pagemap'
    BY <2>3, <2>4, <1>1, <1>7
  <2> QED BY <2>1, <2>6, <2>7, <1>4 DEF Covered, Pages, Partial
<1> QED
  BY <1>8, <1>9, <1>10 DEF PageInv

(* A piece that holds no new slot: whole pages, and pieces of free.        *)
LEMMA StepOverPages ==
  ASSUME TypeOK, TypeOK', AddressInv, PageInv, NEW t \in Busy, 
         NEW size \in Nat, size <= op[t].remain, Advance(t, size), 
         UNCHANGED <<live, held>>, DOMAIN vm \subseteq DOMAIN vm',
         NEW piece, \A b \in piece : b \in Pages(InCall(t)) /\ Ahead(t, b),
         \A b \in Pages(InCall(t)) : Ahead(t, b)' <=> (Ahead(t, b) /\ b \notin piece),
         NEW gone, gone \subseteq piece, DOMAIN pagemap' = DOMAIN pagemap \ gone,
         \A b \in DOMAIN pagemap' : pagemap'[b] = pagemap[b],
         t \in Mallocing => /\ gone = {} /\ piece \subseteq DOMAIN vm' 
                           /\ \A b \in piece : ~Partial(InCall(t), b),
         t \in Freeing => piece \cap DOMAIN pagemap \subseteq gone
  PROVE  PageInv'
<1>1. CallOK /\ Freeing \subseteq Busy /\ Mallocing \subseteq Busy /\ Busy \subseteq Thread
      /\ (t \in Freeing \/ t \in Mallocing) /\ ~(t \in Freeing /\ t \in Mallocing)
  BY DEF AddressInv, Mallocing, Busy, Freeing, TypeOK, CallTypes, Call
<1>2. /\ \A b \in piece, x \in live : b \notin Pages(x)
      /\ \A b \in piece, u \in Busy : u # t => b \notin Pages(InCall(u))
  BY OwnPage
<1>3. /\ Busy' = Busy /\ Mallocing' = Mallocing /\ Freeing' = Freeing
      /\ \A u \in Busy : InCall(u)' = InCall(u)
      /\ \A u \in Busy : \A d : u # t => (Ahead(u, d)' <=> Ahead(u, d))
  BY <1>1, AdvanceFrame
<1>4. \A u \in Busy : Pages(InCall(u)') = Pages(InCall(u))
  BY <1>3
<1>5. HeldGeometry'
  <2>1. \A d \in DOMAIN held' : 
          /\ held'[d].size < PageSize
          /\ \A x \in live : d \in Pages(x) => SameBytes(held'[d], SlotIn(x, d))
          /\ \A u \in Busy : d \in Pages(InCall(u)) 
                              => SameBytes(held'[d], SlotIn(InCall(u), d))
    BY DEF PageInv, HeldGeometry
  <2> QED BY <2>1, <1>3, <1>4 DEF HeldGeometry, Pages
<1>6. Registered'
  <2>1. /\ DOMAIN pagemap' \subseteq DOMAIN held'
        /\ \A d \in DOMAIN pagemap' : held'[d].page = pagemap'[d]
    BY DEF PageInv, Registered
  <2>2. ASSUME NEW d \in DOMAIN held' 
        PROVE  d \in DOMAIN pagemap' \/ \E u \in Freeing : d \in Pages(InCall(u))
    <3>1. CASE d \in gone
      <4>1. t \in Freeing
        BY <3>1, <1>1
      <4> QED BY <3>1, <4>1
    <3>2. CASE d \notin gone
      BY <3>2 DEF PageInv, Registered
    <3> QED BY <3>1, <3>2
  <2>3. ASSUME NEW u \in Freeing, NEW d \in Pages(InCall(u)), d \in DOMAIN pagemap'
        PROVE  Ahead(u, d)'
    <3>1. Ahead(u, d)
      BY <2>3 DEF PageInv, Registered
    <3>2. u = t => d \notin piece
      BY <2>3
    <3> QED BY <3>1, <3>2, <1>1, <1>3
  <2> QED BY <2>1, <2>2, <2>3, <1>1, <1>3, <1>4 DEF Registered, Pages
<1>7. Covered'
  <2>1. \A x \in live : \A d \in Pages(x) : 
          d \in DOMAIN vm' /\ (Partial(x, d) => d \in DOMAIN pagemap')
    BY <1>2 DEF PageInv, Covered
  <2>2. ASSUME NEW u \in Mallocing, NEW d \in Pages(InCall(u)), ~Ahead(u, d)'
        PROVE  d \in DOMAIN vm' /\ (Partial(InCall(u), d) => d \in DOMAIN pagemap')
    <3>1. CASE u = t /\ d \in piece
      BY <3>1, <2>2
    <3>2. CASE ~(u = t /\ d \in piece)
      <4>1. ~Ahead(u, d)
        BY <3>2, <2>2, <1>1, <1>3
      <4>2. d \in Reached(u) /\ u \in Busy
        BY <4>1, <1>1, ReachedBehind
      <4>3. d \notin gone
        BY <3>2, <4>2, <1>2, <2>2
      <4> QED BY <4>2, <4>3 DEF PageInv, Covered
    <3> QED BY <3>1, <3>2
  <2>3. ASSUME NEW u \in Freeing, NEW d \in Pages(InCall(u)), Ahead(u, d)', 
               Partial(InCall(u), d)
        PROVE  d \in DOMAIN pagemap'
    <3>1. Ahead(u, d) /\ d \notin gone
      BY <2>3, <1>1, <1>2, <1>3
    <3> QED BY <3>1, <2>3 DEF PageInv, Covered
  <2>5. \A u \in Mallocing : \A d : d \in Reached(u)' => d \in Pages(InCall(u)) /\ ~Ahead(u, d)'
    <3>1. \A u \in Mallocing : 
            /\ op'[u].vaddr \in Nat /\ Pages(InCall(u))' = Pages(InCall(u))
            /\ \A d \in Pages(InCall(u)) : d \in Nat
      BY <1>1, <1>4, CallNumbers DEF TypeOK, CallTypes, Call, Pages
    <3> QED BY <3>1 DEF Reached, Ahead
  <2>6. \A u \in Mallocing : \A d \in Reached(u)' : 
          d \in DOMAIN vm' /\ (Partial(InCall(u)', d) => d \in DOMAIN pagemap')
    BY <2>2, <2>5, <1>1, <1>3
  <2>7. \A u \in Freeing : \A d \in Pages(InCall(u)') : 
          Ahead(u, d)' /\ Partial(InCall(u)', d) => d \in DOMAIN pagemap'
    BY <2>3, <1>1, <1>3, <1>4
  <2> QED BY <2>1, <2>6, <2>7, <1>3 DEF Covered, Pages, Partial
<1> QED
  BY <1>5, <1>6, <1>7 DEF PageInv

(* Fresh frames for whole pages.                                           *)
LEMMA MallocWholePages ==
  ASSUME TypeOK, TypeOK', AddressInv, PageInv, NEW t \in Thread, MallocWhole(t)
  PROVE  PageInv'
<1> DEFINE size == WholeSize(op[t].remain)
           piece == PagesOf(op[t].vaddr, size)
           none == {}
<1>1. /\ t \in Busy /\ t \notin Freeing /\ CallOK /\ IsWhole(op[t].vaddr, op[t].remain)
      /\ Advance(t, size) /\ UNCHANGED <<live, held, pagemap>>
      /\ DOMAIN vm' = DOMAIN vm \cup piece
  BY DEF MallocWhole, AtWhole, Busy, Freeing, AddressInv, mapVars
<1>2. size \in Nat /\ size <= op[t].remain
  BY <1>1, WholeInChunk
<1>3. /\ \A b \in piece : b \in Pages(InCall(t)) /\ Ahead(t, b)
      /\ \A b \in Pages(InCall(t)) : Ahead(t, b)' <=> (Ahead(t, b) /\ b \notin piece)
  BY <1>1, WholeProgress
<1>4. \A b \in piece : ~Partial(InCall(t), b)
  BY <1>1, WholeBytes
<1>5. none = {}
  OBVIOUS
<1> HIDE DEF size, piece, none
<1> QED
  BY <1>1, <1>2, <1>3, <1>4, <1>5, StepOverPages

(* The whole pages of a chunk lose their frames.                           *)
LEMMA FreeWholePages ==
  ASSUME TypeOK, TypeOK', AddressInv, PageInv, NEW t \in Thread, FreeWhole(t)
  PROVE  PageInv'
<1> DEFINE size == WholeSize(op[t].remain)
           piece == PagesOf(op[t].vaddr, size)
           none == {}
<1>1. /\ t \in Busy /\ t \notin Mallocing /\ CallOK /\ IsWhole(op[t].vaddr, op[t].remain)
      /\ Advance(t, size) /\ UNCHANGED <<live, held, pagemap, vm>>
  BY DEF FreeWhole, AtWhole, Busy, Mallocing, AddressInv, mapVars, memoryVars
<1>2. size \in Nat /\ size <= op[t].remain
  BY <1>1, WholeInChunk
<1>3. /\ \A b \in piece : b \in Pages(InCall(t)) /\ Ahead(t, b)
      /\ \A b \in Pages(InCall(t)) : Ahead(t, b)' <=> (Ahead(t, b) /\ b \notin piece)
  BY <1>1, WholeProgress
<1>4. piece \cap DOMAIN pagemap = {}
  <2> SUFFICES ASSUME NEW b \in piece, b \in DOMAIN pagemap PROVE FALSE
    OBVIOUS
  <2>1. ~Partial(InCall(t), b)
    BY <1>1, WholeBytes
  <2>2. b \in DOMAIN held /\ b \in Pages(InCall(t))
    BY <1>3 DEF PageInv, Registered
  <2>3. held[b].size < PageSize /\ SameBytes(held[b], SlotIn(InCall(t), b))
    BY <1>1, <2>2 DEF PageInv, HeldGeometry
  <2> QED BY <2>1, <2>3 DEF SameBytes, Partial
<1>5. none = {}
  OBVIOUS
<1> HIDE DEF size, piece, none
<1> QED
  BY <1>1, <1>2, <1>3, <1>4, <1>5, StepOverPages

(* The page of a partial piece leaves the map.                             *)
LEMMA FreePartialPages ==
  ASSUME TypeOK, TypeOK', AddressInv, PageInv, NEW t \in Thread, FreePartial(t)
  PROVE  PageInv'
<1> DEFINE size == PieceSlot(t).size
           b == PieceBase(t)
           piece == {b}
<1>1. /\ t \in Busy /\ t \notin Mallocing /\ CallOK /\ IsPartial(op[t].vaddr, op[t].remain)
      /\ Advance(t, size) /\ UNCHANGED <<live, held, vm>>
      /\ pagemap' = Drop(pagemap, piece)
  BY DEF FreePartial, AtPartial, Busy, Mallocing, AddressInv, memoryVars, Unregister
<1>2. size \in Nat /\ size <= op[t].remain
  BY <1>1, PieceInChunk
<1>3. /\ b \in Pages(InCall(t)) /\ Ahead(t, b)
      /\ \A d \in Pages(InCall(t)) : Ahead(t, d)' <=> (Ahead(t, d) /\ d # b)
  BY <1>1, PartialProgress
<1>4. /\ \A d \in piece : d \in Pages(InCall(t)) /\ Ahead(t, d)
      /\ \A d \in Pages(InCall(t)) : Ahead(t, d)' <=> (Ahead(t, d) /\ d \notin piece)
  BY <1>3
<1>5. /\ DOMAIN pagemap' = DOMAIN pagemap \ piece
      /\ \A d \in DOMAIN pagemap' : pagemap'[d] = pagemap[d]
  BY <1>1 DEF Drop
<1> HIDE DEF size, b, piece
<1> QED
  BY <1>1, <1>2, <1>4, <1>5, StepOverPages

(* Steps that touch no page.                                               *)
LEMMA PagesUnchanged ==
  ASSUME PageInv, UNCHANGED <<live, op, vm, held, pagemap>>
  PROVE  PageInv'
<1>1. /\ Busy' = Busy /\ Mallocing' = Mallocing /\ Freeing' = Freeing
      /\ \A u : InCall(u)' = InCall(u) /\ Reached(u)' = Reached(u)
      /\ \A u, b : Ahead(u, b)' <=> Ahead(u, b)
  BY DEF Busy, Mallocing, Freeing, InCall, Reached, Pages, Ahead
<1>2. HeldGeometry'
  BY <1>1 DEF PageInv, HeldGeometry, Pages
<1>3. Registered'
  BY <1>1 DEF PageInv, Registered, Pages
<1>4. Covered'
  BY <1>1 DEF PageInv, Covered, Pages, Partial
<1> QED
  BY <1>2, <1>3, <1>4 DEF PageInv

(* Pages are exclusive in the next state too.                              *)
LEMMA ExclusiveNext == (TypeOK /\ AddressInv)' => PagesExclusive'
<1>1. TypeOK /\ AddressInv => PagesExclusive
  BY AddressInvImplies
<1> QED
  BY <1>1, PTL

(* A call of malloc begins: its pages are new.                             *)
LEMMA NewMallocPages ==
  ASSUME TypeOK, TypeOK', AddressInv, AddressInv', PageInv, 
         NEW t \in Thread, op[t].kind = "idle", NEW c \in Class, NEW beg \in Nat,
         op' = [op EXCEPT ![t] = NewCall("malloc", c, beg)],
         UNCHANGED <<live, held, pagemap, vm>>
  PROVE  PageInv'
<1>1. /\ op \in [Thread -> Call] /\ \A u \in Thread : u # t => op'[u] = op[u]
      /\ op'[t] = NewCall("malloc", c, beg)
  BY DEF TypeOK, CallTypes
<1>2. /\ Busy' = Busy \cup {t} /\ Mallocing' = Mallocing \cup {t} /\ Freeing' = Freeing
      /\ t \notin Busy /\ Freeing \subseteq Busy /\ Mallocing \subseteq Busy
      /\ Busy \subseteq Thread
  BY <1>1 DEF Busy, Mallocing, Freeing, NewCall
<1>3. /\ \A u \in Busy : InCall(u)' = InCall(u) /\ Reached(u)' = Reached(u)
      /\ \A u \in Busy : \A b : Ahead(u, b)' <=> Ahead(u, b)
  BY <1>1, <1>2 DEF InCall, Reached, Pages, Ahead
<1>4. Reached(t)' = {}
  BY <1>1 DEF Reached, NewCall
<1>5. \A u \in Busy : Pages(InCall(u)') = Pages(InCall(u))
  BY <1>3
<1>6. \A b \in DOMAIN held : b \notin Pages(InCall(t)')
  <2>1. PagesExclusive'
    BY ExclusiveNext
  <2>2. \A x \in live : Pages(InCall(t)') \cap Pages(x) = {}
    BY <2>1, <1>2 DEF PagesExclusive, Pages
  <2>3. \A u \in Busy : Pages(InCall(t)') \cap Pages(InCall(u)) = {}
    <3>1. \A u \in Busy : Pages(InCall(t)') \cap Pages(InCall(u)') = {}
      BY <2>1, <1>2 DEF PagesExclusive, Pages
    <3> QED BY <3>1, <1>5
  <2>4. DOMAIN held \subseteq DOMAIN vm
    BY DEF TypeOK, MemoryTypes
  <2> QED BY <2>2, <2>3, <2>4, <1>2 DEF AddressInv, MappedOwned, Reached
<1>7. HeldGeometry'
  <2>1. \A d \in DOMAIN held : 
          /\ held[d].size < PageSize
          /\ \A x \in live : d \in Pages(x) => SameBytes(held[d], SlotIn(x, d))
          /\ \A u \in Busy : d \in Pages(InCall(u)) 
                              => SameBytes(held[d], SlotIn(InCall(u), d))
    BY DEF PageInv, HeldGeometry
  <2>2. \A d \in DOMAIN held, u \in Busy' : d \in Pages(InCall(u)') 
          => SameBytes(held[d], SlotIn(InCall(u)', d))
    BY <2>1, <1>2, <1>3, <1>6
  <2> QED BY <2>1, <2>2 DEF HeldGeometry, Pages
<1>8. Registered'
  BY <1>2, <1>3, <1>5 DEF PageInv, Registered, Pages
<1>9. Covered'
  BY <1>2, <1>3, <1>4, <1>5 DEF PageInv, Covered, Pages, Partial
<1> QED
  BY <1>7, <1>8, <1>9 DEF PageInv

(* The chunk goes to the program with all its pages.                       *)
LEMMA FinishMallocPages ==
  ASSUME TypeOK, AddressInv, PageInv, NEW t \in Thread, FinishMalloc(t)
  PROVE  PageInv'
<1> DEFINE new == InCall(t)
<1>1. /\ op[t].kind = "malloc" /\ op[t].remain = 0 /\ UNCHANGED <<vm, held, pagemap>>
      /\ live' = live \cup {new} /\ op' = [op EXCEPT ![t] = Idle]
  BY DEF FinishMalloc, AtEnd, memoryVars, mapVars, InCall
<1>2. /\ op \in [Thread -> Call] /\ op'[t] = Idle /\ \A u \in Thread : u # t => op'[u] = op[u]
  BY <1>1 DEF TypeOK, CallTypes
<1>3. /\ Busy' = Busy \ {t} /\ Mallocing' = Mallocing \ {t} /\ Freeing' = Freeing
      /\ t \in Busy /\ t \in Mallocing /\ t \notin Freeing
      /\ Freeing \subseteq Busy /\ Mallocing \subseteq Busy /\ Busy \subseteq Thread
  BY <1>1, <1>2 DEF Busy, Mallocing, Freeing, Idle
<1>4. /\ \A u \in Busy : u # t => InCall(u)' = InCall(u) /\ Reached(u)' = Reached(u)
      /\ \A u \in Busy : \A b : u # t => (Ahead(u, b)' <=> Ahead(u, b))
  BY <1>2, <1>3 DEF InCall, Reached, Pages, Ahead
<1>5. \A u \in Busy : u # t => Pages(InCall(u)') = Pages(InCall(u))
  BY <1>4
<1>6. Pages(new) = Reached(t)
  <2>1. CallOK
    BY DEF AddressInv
  <2>2. \A b \in Pages(new) : b < op[t].vaddr /\ op[t].vaddr # op[t].beg
    BY <2>1, <1>1, <1>3, CallNumbers
  <2> QED BY <2>2 DEF Reached
<1>7. HeldGeometry'
  <2>1. \A d \in DOMAIN held : 
          /\ held[d].size < PageSize
          /\ \A x \in live \cup {new} : d \in Pages(x) => SameBytes(held[d], SlotIn(x, d))
          /\ \A u \in Busy : d \in Pages(InCall(u)) 
                              => SameBytes(held[d], SlotIn(InCall(u), d))
    BY <1>3 DEF PageInv, HeldGeometry
  <2>2. \A d \in DOMAIN held, u \in Busy' : d \in Pages(InCall(u)') 
          => SameBytes(held[d], SlotIn(InCall(u)', d))
    BY <2>1, <1>3, <1>4
  <2> HIDE DEF new
  <2> QED BY <2>1, <2>2, <1>1 DEF HeldGeometry, Pages
<1>8. Registered'
  BY <1>1, <1>3, <1>4, <1>5 DEF PageInv, Registered, Pages
<1>9. Covered'
  <2>1. \A x \in live \cup {new} : \A b \in Pages(x) : 
          b \in DOMAIN vm /\ (Partial(x, b) => b \in DOMAIN pagemap)
    BY <1>3, <1>6 DEF PageInv, Covered
  <2> HIDE DEF new
  <2>2. \A u \in Mallocing' : \A b \in Reached(u)' : 
          b \in DOMAIN vm /\ (Partial(InCall(u)', b) => b \in DOMAIN pagemap)
    BY <1>3, <1>4 DEF PageInv, Covered
  <2>3. \A u \in Freeing' : \A b \in Pages(InCall(u)') : 
          Ahead(u, b)' /\ Partial(InCall(u)', b) => b \in DOMAIN pagemap
    BY <1>3, <1>4, <1>5 DEF PageInv, Covered
  <2> QED BY <2>1, <2>2, <2>3, <1>1 DEF Covered, Pages, Partial
<1> QED
  BY <1>7, <1>8, <1>9 DEF PageInv

(* The chunk comes back with all its pages.                                *)
LEMMA StartFreePages ==
  ASSUME TypeOK, AddressInv, PageInv, NEW t \in Thread, StartFree(t)
  PROVE  PageInv'
<1>1. PICK ch \in live : /\ live' = live \ {ch} 
                        /\ op' = [op EXCEPT ![t] = NewCall("free", ch.cls, ch.beg)]
  BY DEF StartFree
<1>2. /\ op[t].kind = "idle" /\ UNCHANGED <<vm, held, pagemap>>
      /\ op \in [Thread -> Call] /\ \A u \in Thread : u # t => op'[u] = op[u]
      /\ op'[t] = NewCall("free", ch.cls, ch.beg) /\ ch \in Chunk
  BY <1>1 DEF StartFree, memoryVars, mapVars, TypeOK, CallTypes
<1>3. /\ Busy' = Busy \cup {t} /\ Freeing' = Freeing \cup {t} /\ Mallocing' = Mallocing
      /\ t \notin Busy /\ t \notin Freeing /\ t \notin Mallocing
      /\ Freeing \subseteq Busy /\ Mallocing \subseteq Busy /\ Busy \subseteq Thread
  BY <1>2 DEF Busy, Mallocing, Freeing, NewCall
<1>4. /\ \A u \in Busy : InCall(u)' = InCall(u) /\ Reached(u)' = Reached(u)
      /\ \A u \in Busy : \A b : Ahead(u, b)' <=> Ahead(u, b)
  BY <1>2, <1>3 DEF InCall, Reached, Pages, Ahead
<1>5. InCall(t)' = ch /\ \A b : Ahead(t, b)'
  BY <1>2 DEF InCall, Ahead, NewCall, Chunk
<1>6. \A u \in Busy : Pages(InCall(u)') = Pages(InCall(u))
  BY <1>4
<1>7. HeldGeometry'
  <2>1. \A d \in DOMAIN held : 
          /\ held[d].size < PageSize
          /\ \A x \in live : d \in Pages(x) => SameBytes(held[d], SlotIn(x, d))
          /\ \A u \in Busy : d \in Pages(InCall(u)) 
                              => SameBytes(held[d], SlotIn(InCall(u), d))
    BY DEF PageInv, HeldGeometry
  <2>2. \A d \in DOMAIN held, u \in Busy' : d \in Pages(InCall(u)') 
          => SameBytes(held[d], SlotIn(InCall(u)', d))
    BY <2>1, <1>1, <1>3, <1>4, <1>5
  <2> QED BY <2>1, <2>2, <1>1, <1>2 DEF HeldGeometry, Pages
<1>8. Registered'
  <2>1. \A d \in DOMAIN held : d \in DOMAIN pagemap \/ \E u \in Freeing' : d \in Pages(InCall(u)')
    BY <1>3, <1>6 DEF PageInv, Registered
  <2>2. \A u \in Freeing' : \A d \in Pages(InCall(u)') \cap DOMAIN pagemap : Ahead(u, d)'
    BY <1>3, <1>4, <1>5, <1>6 DEF PageInv, Registered
  <2> QED BY <2>1, <2>2, <1>2 DEF PageInv, Registered, Pages
<1>9. Covered'
  <2>1. \A x \in live' : \A b \in Pages(x) : 
          b \in DOMAIN vm /\ (Partial(x, b) => b \in DOMAIN pagemap)
    BY <1>1 DEF PageInv, Covered
  <2>2. \A u \in Mallocing' : \A b \in Reached(u)' : 
          b \in DOMAIN vm /\ (Partial(InCall(u)', b) => b \in DOMAIN pagemap)
    BY <1>3, <1>4 DEF PageInv, Covered
  <2>3. \A u \in Freeing' : \A b \in Pages(InCall(u)') : 
          Ahead(u, b)' /\ Partial(InCall(u)', b) => b \in DOMAIN pagemap
    BY <1>1, <1>3, <1>4, <1>5, <1>6 DEF PageInv, Covered
  <2> QED BY <2>1, <2>2, <2>3, <1>2 DEF Covered, Pages, Partial
<1> QED
  BY <1>7, <1>8, <1>9 DEF PageInv

(* The fixed mapping takes the pages of the chunk away.                    *)
LEMMA FinishFreePages ==
  ASSUME TypeOK, AddressInv, PageInv, NEW t \in Thread, FinishFree(t)
  PROVE  PageInv'
<1> DEFINE gone == Pages(InCall(t))
<1>1. /\ op[t].kind = "free" /\ op[t].remain = 0 /\ UNCHANGED <<live, pagemap>>
      /\ vm' = Drop(vm, gone) /\ held' = Drop(held, gone)
      /\ op' = [op EXCEPT ![t] = Idle]
  BY DEF FinishFree, AtEnd, mapVars, Pages, InCall
<1>2. /\ op \in [Thread -> Call] /\ op'[t] = Idle /\ \A u \in Thread : u # t => op'[u] = op[u]
  BY <1>1 DEF TypeOK, CallTypes
<1>3. /\ Busy' = Busy \ {t} /\ Freeing' = Freeing \ {t} /\ Mallocing' = Mallocing
      /\ t \in Busy /\ t \in Freeing /\ t \notin Mallocing
      /\ Freeing \subseteq Busy /\ Mallocing \subseteq Busy /\ Busy \subseteq Thread
  BY <1>1, <1>2 DEF Busy, Mallocing, Freeing, Idle
<1>4. /\ \A u \in Busy : u # t => InCall(u)' = InCall(u) /\ Reached(u)' = Reached(u)
      /\ \A u \in Busy : \A b : u # t => (Ahead(u, b)' <=> Ahead(u, b))
  BY <1>2, <1>3 DEF InCall, Reached, Pages, Ahead
<1>5. \A u \in Busy : u # t => Pages(InCall(u)') = Pages(InCall(u))
  BY <1>4
<1>6. \A b \in gone : ~Ahead(t, b)
  <2>1. CallOK
    BY DEF AddressInv
  <2>2. \A b \in gone : b \in Nat /\ b < op[t].vaddr /\ op[t].vaddr # op[t].beg
    BY <2>1, <1>1, <1>3, CallNumbers
  <2>3. op[t].vaddr \in Nat
    BY <1>2 DEF Call
  <2> QED BY <2>2, <2>3 DEF Ahead
<1>7. gone \cap DOMAIN pagemap = {}
  BY <1>3, <1>6 DEF PageInv, Registered
<1>8. /\ \A x \in live : gone \cap Pages(x) = {}
      /\ \A u \in Busy : u # t => gone \cap Pages(InCall(u)) = {}
  BY <1>3, OwnPage
<1> HIDE DEF gone
<1>9. /\ DOMAIN held' = DOMAIN held \ gone /\ DOMAIN vm' = DOMAIN vm \ gone
      /\ \A d \in DOMAIN held' : held'[d] = held[d]
  BY <1>1 DEF Drop
<1>10. HeldGeometry'
  <2>1. \A d \in DOMAIN held' : 
          /\ held'[d].size < PageSize
          /\ \A x \in live : d \in Pages(x) => SameBytes(held'[d], SlotIn(x, d))
          /\ \A u \in Busy : d \in Pages(InCall(u)) 
                              => SameBytes(held'[d], SlotIn(InCall(u), d))
    BY <1>9 DEF PageInv, HeldGeometry
  <2>2. \A d \in DOMAIN held', u \in Busy' : d \in Pages(InCall(u)') 
          => SameBytes(held'[d], SlotIn(InCall(u)', d))
    BY <2>1, <1>3, <1>4
  <2> QED BY <2>1, <2>2, <1>1 DEF HeldGeometry, Pages
<1>11. Registered'
  <2>1. DOMAIN pagemap \subseteq DOMAIN held' /\ \A d \in DOMAIN pagemap : held'[d].page = pagemap[d]
    BY <1>7, <1>9 DEF PageInv, Registered
  <2>2. \A d \in DOMAIN held' : d \in DOMAIN pagemap \/ \E u \in Freeing' : d \in Pages(InCall(u)')
    <3>1. \A d \in DOMAIN held' : d \in DOMAIN pagemap \/ \E u \in Freeing : u # t /\ d \in Pages(InCall(u))
      BY <1>9 DEF PageInv, Registered, gone
    <3> QED BY <3>1, <1>3, <1>5
  <2>3. \A u \in Freeing' : \A d \in Pages(InCall(u)') \cap DOMAIN pagemap : Ahead(u, d)'
    BY <1>3, <1>4, <1>5 DEF PageInv, Registered
  <2> QED BY <2>1, <2>2, <2>3, <1>1 DEF Registered, Pages
<1>12. Covered'
  <2>1. \A x \in live : \A b \in Pages(x) : 
          b \in DOMAIN vm' /\ (Partial(x, b) => b \in DOMAIN pagemap)
    BY <1>8, <1>9 DEF PageInv, Covered
  <2>2. \A u \in Mallocing' : \A b \in Reached(u)' : 
          b \in DOMAIN vm' /\ (Partial(InCall(u)', b) => b \in DOMAIN pagemap)
    <3>1. \A u \in Mallocing : \A b \in Reached(u) : b \notin gone
      BY <1>3, <1>8 DEF Reached
    <3> QED BY <3>1, <1>3, <1>4, <1>9 DEF PageInv, Covered
  <2>3. \A u \in Freeing' : \A b \in Pages(InCall(u)') : 
          Ahead(u, b)' /\ Partial(InCall(u)', b) => b \in DOMAIN pagemap
    BY <1>3, <1>4, <1>5 DEF PageInv, Covered
  <2> QED BY <2>1, <2>2, <2>3, <1>1 DEF Covered, Pages, Partial
<1> QED
  BY <1>10, <1>11, <1>12 DEF PageInv

(***************************************************************************)
(* Slots do not overlap.                                                   *)
(***************************************************************************)
LEMMA ProductGap ==
  ASSUME NEW a \in Nat, NEW b \in Nat, NEW c \in Nat, a < b
  PROVE  a * c \in Nat /\ b * c \in Nat /\ a * c + c <= b * c
<1>1. PICK d \in Nat : b = a + 1 + d
  <2>1. b - (a + 1) \in Nat /\ b = a + 1 + (b - (a + 1))
    OBVIOUS
  <2> QED BY <2>1
<1>2. b * c = a * c + c + d * c /\ d * c \in Nat /\ a * c \in Nat
  BY <1>1
<1> QED
  BY <1>2

(* The slots behind the first piece of a page begin behind it, those in    *)
(* front end before it, and all are apart.                                 *)
LEMMA PopulateApart ==
  ASSUME NEW offset \in Nat, offset < PageSize, NEW csize \in Nat \ {0},
         NEW size \in Nat, size <= csize
  PROVE  LET more == Populate(offset, csize) IN
         /\ \A k \in DOMAIN more : DisjointSlots(Slot(offset, size), more[k])
         /\ \A j, k \in DOMAIN more : j # k => DisjointSlots(more[j], more[k])
<1> DEFINE n == (PageSize - 1 - offset) \div csize
           m == (offset + (csize - 1)) \div csize
           back == BackSlots(offset, csize)
           front == FrontSlots(offset, csize)
           more == Populate(offset, csize)
<1>1. n \in Nat /\ csize * n <= PageSize - 1 - offset
  BY PageSizeAssumption
<1>2. m \in Nat /\ csize * m <= offset + (csize - 1)
  OBVIOUS
<1>3. /\ DOMAIN back = 1..n /\ DOMAIN front = 1..m
      /\ \A k \in 1..n : back[k] = Slot(offset + k * csize, Least(PageSize - (offset + k * csize), csize))
      /\ \A k \in 1..m : front[k] = Slot((k - 1) * csize, Least(offset - (k - 1) * csize, csize))
  BY DEF BackSlots, FrontSlots
<1> HIDE DEF n, m, back, front
<1>4. ASSUME NEW k \in 1..n
      PROVE  /\ back[k].offset = offset + k * csize /\ k * csize \in Nat /\ csize <= k * csize
             /\ back[k].size \in Int /\ back[k].size <= csize
  <2>1. back[k].offset = offset + k * csize
        /\ back[k].size = Least(PageSize - (offset + k * csize), csize)
    BY <1>3 DEF Slot
  <2>2. k * csize \in Nat /\ csize <= k * csize
    <3>1. 0 * csize + csize <= k * csize /\ 0 * csize = 0 /\ k * csize \in Nat
      BY ProductGap, <1>1
    <3> QED BY <3>1
  <2> QED BY <2>1, <2>2, PageSizeAssumption DEF Least
<1>5. ASSUME NEW k \in 1..m
      PROVE  /\ front[k].offset = (k - 1) * csize /\ (k - 1) * csize \in Nat
             /\ front[k].size \in Int /\ front[k].size <= csize 
             /\ front[k].offset + front[k].size <= offset
  <2>1. front[k].offset = (k - 1) * csize
        /\ front[k].size = Least(offset - (k - 1) * csize, csize)
    BY <1>3 DEF Slot
  <2>2. (k - 1) * csize \in Nat
    BY <1>2
  <2> QED BY <2>1, <2>2 DEF Least
<1>6. ASSUME NEW j \in 1..n, NEW k \in 1..n, j < k PROVE DisjointSlots(back[j], back[k])
  <2>1. j * csize + csize <= k * csize
    BY <1>1, <1>6, ProductGap
  <2> QED BY <2>1, <1>4 DEF DisjointSlots
<1>7. ASSUME NEW j \in 1..m, NEW k \in 1..m, j < k PROVE DisjointSlots(front[j], front[k])
  <2>1. j - 1 \in Nat /\ k - 1 \in Nat /\ j - 1 < k - 1
    BY <1>2, <1>7
  <2>2. (j - 1) * csize + csize <= (k - 1) * csize
    BY <2>1, ProductGap
  <2> QED BY <2>2, <1>5 DEF DisjointSlots
<1>8. ASSUME NEW j \in 1..n, NEW k \in 1..m 
      PROVE  DisjointSlots(back[j], front[k]) /\ DisjointSlots(front[k], back[j])
  BY <1>4, <1>5 DEF DisjointSlots
<1>9. /\ \A k \in 1..n : DisjointSlots(Slot(offset, size), back[k])
      /\ \A k \in 1..m : DisjointSlots(Slot(offset, size), front[k])
  BY <1>4, <1>5 DEF DisjointSlots, Slot
<1>10. \A f, g : DisjointSlots(f, g) => DisjointSlots(g, f)
  BY DEF DisjointSlots
<1>11. /\ back = [k \in 1..n |-> back[k]] /\ front = [k \in 1..m |-> front[k]] 
       /\ more = back \o front
  BY DEF Populate, back, front, n, m, BackSlots, FrontSlots
<1>12. /\ DOMAIN more = 1..(n + m)
       /\ \A k \in 1..(n + m) : more[k] = IF k <= n THEN back[k] ELSE front[k - n]
  <2>1. Len(back) = n /\ Len(front) = m
    BY <1>1, <1>2, <1>3, <1>11
  <2> QED BY <2>1, <1>1, <1>2, <1>11
<1> HIDE DEF more
<1>13. ASSUME NEW k \in DOMAIN more PROVE DisjointSlots(Slot(offset, size), more[k])
  <2>1. \/ k \in 1..n /\ more[k] = back[k] 
        \/ k - n \in 1..m /\ more[k] = front[k - n]
    BY <1>1, <1>2, <1>12
  <2> QED BY <2>1, <1>9
<1>14. ASSUME NEW j \in DOMAIN more, NEW k \in DOMAIN more, j < k
       PROVE  DisjointSlots(more[j], more[k])
  <2>1. CASE k <= n
    <3>1. j \in 1..n /\ k \in 1..n /\ more[j] = back[j] /\ more[k] = back[k]
      BY <2>1, <1>1, <1>2, <1>12, <1>14
    <3> QED BY <3>1, <1>6, <1>14
  <2>2. CASE j <= n /\ ~(k <= n)
    <3>1. j \in 1..n /\ k - n \in 1..m /\ more[j] = back[j] /\ more[k] = front[k - n]
      BY <2>2, <1>1, <1>2, <1>12
    <3> QED BY <3>1, <1>8
  <2>3. CASE ~(j <= n)
    <3>1. /\ j - n \in 1..m /\ k - n \in 1..m /\ j - n < k - n
          /\ more[j] = front[j - n] /\ more[k] = front[k - n]
      BY <2>3, <1>1, <1>2, <1>12, <1>14
    <3> QED BY <3>1, <1>7
  <2> QED BY <2>1, <2>2, <2>3, <1>1, <1>2, <1>12
<1>15. ASSUME NEW j \in DOMAIN more, NEW k \in DOMAIN more, j # k
       PROVE  DisjointSlots(more[j], more[k])
  <2>1. j < k \/ k < j
    BY <1>1, <1>2, <1>12, <1>15
  <2> QED BY <2>1, <1>10, <1>14
<1> QED
  BY <1>13, <1>15 DEF more

(* SlotsDisjoint, with the registered pages for those in use.              *)
Clash(f, g) == f.page = g.page /\ ~DisjointSlots(f, g)

HeldApart == \A b, d \in DOMAIN pagemap : b # d => ~Clash(held[b], held[d])

HeldFreeApart == 
  \A b \in DOMAIN pagemap, t \in Thread, c \in Class : 
    \A i \in DOMAIN free[t][c] : ~Clash(held[b], free[t][c][i])

FreeApart ==
  \A t, u \in Thread, c, d \in Class : 
    \A i \in DOMAIN free[t][c], j \in DOMAIN free[u][d] :
       <<t, c, i>> # <<u, d, j>> => ~Clash(free[t][c][i], free[u][d][j])

SlotsApart == HeldApart /\ HeldFreeApart /\ FreeApart

(* Slots apart by pairs of holders are disjoint slots.                     *)
LEMMA ApartDisjoint == Registered => (SlotsDisjoint <=> SlotsApart)
<1> SUFFICES ASSUME Registered PROVE SlotsDisjoint <=> SlotsApart
  OBVIOUS
<1>1. \A b : b \in {d \in DOMAIN pagemap : d \in DOMAIN held} <=> b \in DOMAIN pagemap
  BY DEF Registered
<1>2. SlotsDisjoint => SlotsApart
  BY <1>1 DEF SlotsDisjoint, SlotsApart, HeldApart, HeldFreeApart, FreeApart, Clash
<1>3. SlotsApart => SlotsDisjoint
  BY <1>1 DEF SlotsDisjoint, SlotsApart, HeldApart, HeldFreeApart, FreeApart, Clash
<1> QED
  BY <1>2, <1>3

(* Clashing is symmetric.                                                  *)
LEMMA ClashSymmetric == \A f, g : Clash(f, g) <=> Clash(g, f)
  BY DEF Clash, DisjointSlots

(* Where the slots of a shortened list come from.                          *)
Place(i, j) == IF j < i THEN j ELSE j + 1

(* The entries of a list without one of them, and where they were.         *)
LEMMA WithoutPlace ==
  ASSUME NEW list \in Seq(Freed), NEW i \in DOMAIN list
  PROVE  /\ \A j \in DOMAIN Without(list, i) : 
              /\ Place(i, j) \in DOMAIN list /\ Place(i, j) # i
              /\ Without(list, i)[j] = list[Place(i, j)]
         /\ \A j, k \in DOMAIN Without(list, i) : j # k => Place(i, j) # Place(i, k)
         /\ \A k \in DOMAIN list : k # i => 
              \E j \in DOMAIN Without(list, i) : Place(i, j) = k
<1>1. DOMAIN list = 1..Len(list) /\ Len(list) \in Nat
  OBVIOUS
<1>2. /\ DOMAIN Without(list, i) = 1..(Len(list) - 1)
      /\ \A j \in 1..(Len(list) - 1) : Without(list, i)[j] = list[Place(i, j)]
  BY DEF Without, Place
<1>3. \A k \in DOMAIN list : k # i => 
        \E j \in 1..(Len(list) - 1) : Place(i, j) = k
  <2> SUFFICES ASSUME NEW k \in DOMAIN list, k # i
               PROVE  \E j \in 1..(Len(list) - 1) : Place(i, j) = k
    OBVIOUS
  <2>1. CASE k < i
    BY <2>1, <1>1 DEF Place
  <2>2. CASE k > i
    <3>1. k - 1 \in 1..(Len(list) - 1) /\ Place(i, k - 1) = k
      BY <2>2, <1>1 DEF Place
    <3> QED BY <3>1
  <2> QED BY <2>1, <2>2, <1>1
<1>4. i \in 1..Len(list)
  OBVIOUS
<1>5. \A j \in 1..(Len(list) - 1) : Place(i, j) \in 1..Len(list) /\ Place(i, j) # i
  BY <1>1, <1>4 DEF Place
<1>6. \A j, k \in 1..(Len(list) - 1) : j # k => Place(i, j) # Place(i, k)
  BY <1>1, <1>4 DEF Place
<1> QED
  BY <1>1, <1>2, <1>3, <1>5, <1>6

(* A slot moves from a free list to a page.                                *)
LEMMA SlotTaken ==
  ASSUME CacheTypes, SlotsApart, NEW t \in Thread, NEW c \in Class, 
         NEW i \in DOMAIN free[t][c], NEW b, b \notin DOMAIN pagemap, NEW p, 
         free' = [free EXCEPT ![t][c] = Without(free[t][c], i)],
         held' = Put(held, b, free[t][c][i]), pagemap' = Put(pagemap, b, p), 
         DOMAIN pagemap \subseteq DOMAIN held
  PROVE  SlotsApart'
<1> DEFINE list == free[t][c]
           slot == list[i]
           rest == Without(list, i)
<1>1. free \in [Thread -> [Class -> Seq(Freed)]] /\ list \in Seq(Freed) /\ i \in DOMAIN list
  BY DEF CacheTypes
<1>2. /\ \A j \in DOMAIN rest : /\ Place(i, j) \in DOMAIN list /\ Place(i, j) # i
                                /\ rest[j] = list[Place(i, j)]
      /\ \A j, k \in DOMAIN rest : j # k => Place(i, j) # Place(i, k)
  BY <1>1, WithoutPlace
<1>3. \A u \in Thread, d \in Class : 
        free'[u][d] = IF u = t /\ d = c THEN rest ELSE free[u][d]
  BY <1>1
<1>4. /\ DOMAIN pagemap' = DOMAIN pagemap \cup {b}
      /\ held'[b] = slot /\ \A d \in DOMAIN pagemap : held'[d] = held[d]
  BY DEF Put
<1> DEFINE from(u, d, j) == IF u = t /\ d = c THEN Place(i, j) ELSE j
<1>5. ASSUME NEW u \in Thread, NEW d \in Class, NEW j \in DOMAIN free'[u][d]
      PROVE  /\ from(u, d, j) \in DOMAIN free[u][d]
             /\ free'[u][d][j] = free[u][d][from(u, d, j)]
             /\ <<u, d, from(u, d, j)>> # <<t, c, i>>
  <2>1. CASE u = t /\ d = c
    <3>1. free'[u][d] = rest /\ j \in DOMAIN rest /\ from(u, d, j) = Place(i, j)
      BY <2>1, <1>3
    <3> HIDE DEF rest, from
    <3> QED BY <2>1, <3>1, <1>2
  <2>2. CASE ~(u = t /\ d = c)
    BY <2>2, <1>3
  <2> QED BY <2>1, <2>2
<1>6. ASSUME NEW u \in Thread, NEW d \in Class, NEW j \in DOMAIN free'[u][d],
             NEW w \in Thread, NEW e \in Class, NEW k \in DOMAIN free'[w][e],
             <<u, d, j>> # <<w, e, k>>
      PROVE  <<u, d, from(u, d, j)>> # <<w, e, from(w, e, k)>>
  <2>1. CASE u = t /\ d = c /\ w = t /\ e = c
    <3>1. j \in DOMAIN rest /\ k \in DOMAIN rest /\ j # k
      BY <2>1, <1>3, <1>6
    <3> HIDE DEF rest
    <3>2. from(u, d, j) # from(w, e, k)
      BY <2>1, <3>1, <1>2
    <3> QED BY <3>2
  <2>2. CASE ~(u = t /\ d = c) /\ ~(w = t /\ e = c)
    BY <2>2, <1>6
  <2>3. CASE <<u, d>> # <<w, e>>
    BY <2>3
  <2> QED BY <2>1, <2>2, <2>3
<1> HIDE DEF list, slot, rest, from
<1>7. slot = free[t][c][i]
  BY DEF list, slot
<1>8. HeldApart'
  <2>1. \A d \in DOMAIN pagemap : ~Clash(held[d], slot) /\ ~Clash(slot, held[d])
    BY <1>7, ClashSymmetric DEF SlotsApart, HeldFreeApart
  <2>2. \A d, e \in DOMAIN pagemap' : d # e => ~Clash(held'[d], held'[e])
    BY <2>1, <1>4 DEF SlotsApart, HeldApart
  <2> QED BY <2>2 DEF HeldApart
<1>9. HeldFreeApart'
  <2> SUFFICES ASSUME NEW d \in DOMAIN pagemap', NEW u \in Thread, NEW e \in Class,
                      NEW j \in DOMAIN free'[u][e]
               PROVE  ~Clash(held'[d], free'[u][e][j])
    BY DEF HeldFreeApart
  <2>1. CASE d = b
    <3>1. ~Clash(slot, free[u][e][from(u, e, j)])
      BY <1>5, <1>7 DEF SlotsApart, FreeApart
    <3> QED BY <3>1, <2>1, <1>4, <1>5
  <2>2. CASE d # b
    BY <2>2, <1>4, <1>5 DEF SlotsApart, HeldFreeApart
  <2> QED BY <2>1, <2>2
<1>10. FreeApart'
  <2> SUFFICES ASSUME NEW u \in Thread, NEW d \in Class, NEW j \in DOMAIN free'[u][d],
                      NEW w \in Thread, NEW e \in Class, NEW k \in DOMAIN free'[w][e],
                      <<u, d, j>> # <<w, e, k>>
               PROVE  ~Clash(free'[u][d][j], free'[w][e][k])
    BY DEF FreeApart
  <2> QED BY <1>5, <1>6 DEF SlotsApart, FreeApart
<1> QED
  BY <1>8, <1>9, <1>10 DEF SlotsApart

(* A slot moves from a page to a free list.                                *)
LEMMA SlotReturned ==
  ASSUME CacheTypes, SlotsApart, NEW t \in Thread, NEW c \in Class, 
         NEW b \in DOMAIN pagemap, held[b] \in Freed,
         free' = [free EXCEPT ![t][c] = Append(free[t][c], held[b])],
         UNCHANGED held, pagemap' = Drop(pagemap, {b})
  PROVE  SlotsApart'
<1> DEFINE list == free[t][c]
           slot == held[b]
           more == Append(list, slot)
           n == Len(list) + 1
<1>1. free \in [Thread -> [Class -> Seq(Freed)]] /\ list \in Seq(Freed) /\ slot \in Freed
  BY DEF CacheTypes
<1>2. /\ DOMAIN more = DOMAIN list \cup {n} /\ n \notin DOMAIN list
      /\ more[n] = slot /\ \A j \in DOMAIN list : more[j] = list[j]
  <2> HIDE DEF list, slot
  <2> QED BY <1>1
<1>3. \A u \in Thread, d \in Class : 
        free'[u][d] = IF u = t /\ d = c THEN more ELSE free[u][d]
  BY <1>1
<1>4. DOMAIN pagemap' = DOMAIN pagemap \ {b}
  BY DEF Drop
<1> HIDE DEF list, more, slot, n
<1>5. ASSUME NEW u \in Thread, NEW d \in Class, NEW j \in DOMAIN free'[u][d]
      PROVE  \/ u = t /\ d = c /\ j = n /\ free'[u][d][j] = slot
             \/ j \in DOMAIN free[u][d] /\ free'[u][d][j] = free[u][d][j]
  <2>1. CASE u = t /\ d = c
    <3>1. free'[u][d] = more /\ free[u][d] = list
      BY <2>1, <1>3 DEF list
    <3> QED BY <2>1, <3>1, <1>2, <1>5
  <2>2. CASE ~(u = t /\ d = c)
    BY <2>2, <1>3, <1>5
  <2> QED BY <2>1, <2>2
<1>6. HeldApart'
  BY <1>4 DEF SlotsApart, HeldApart
<1>7. HeldFreeApart'
  <2> SUFFICES ASSUME NEW d \in DOMAIN pagemap', NEW u \in Thread, NEW e \in Class,
                      NEW j \in DOMAIN free'[u][e]
               PROVE  ~Clash(held[d], free'[u][e][j])
    BY DEF HeldFreeApart
  <2>1. d \in DOMAIN pagemap /\ d # b
    BY <1>4
  <2>2. ~Clash(held[d], slot)
    BY <2>1 DEF SlotsApart, HeldApart, slot
  <2> QED BY <2>1, <2>2, <1>5 DEF SlotsApart, HeldFreeApart
<1>8. FreeApart'
  <2> SUFFICES ASSUME NEW u \in Thread, NEW d \in Class, NEW j \in DOMAIN free'[u][d],
                      NEW w \in Thread, NEW e \in Class, NEW k \in DOMAIN free'[w][e],
                      <<u, d, j>> # <<w, e, k>>
               PROVE  ~Clash(free'[u][d][j], free'[w][e][k])
    BY DEF FreeApart
  <2>1. \A v \in Thread, f \in Class : \A l \in DOMAIN free[v][f] : 
          ~Clash(slot, free[v][f][l]) /\ ~Clash(free[v][f][l], slot)
    BY ClashSymmetric DEF SlotsApart, HeldFreeApart, slot
  <2>2. \/ u = t /\ d = c /\ j = n /\ free'[u][d][j] = slot
        \/ j \in DOMAIN free[u][d] /\ free'[u][d][j] = free[u][d][j]
    BY <1>5
  <2>3. \/ w = t /\ e = c /\ k = n /\ free'[w][e][k] = slot
        \/ k \in DOMAIN free[w][e] /\ free'[w][e][k] = free[w][e][k]
    BY <1>5
  <2> QED BY <2>1, <2>2, <2>3 DEF SlotsApart, FreeApart
<1> QED
  BY <1>6, <1>7, <1>8 DEF SlotsApart

(* The slots of a new Ppage appear.                                        *)
NewSlots(t, c, q, fresh, slot, b) ==
  /\ b \notin DOMAIN pagemap /\ DOMAIN pagemap \subseteq DOMAIN held
  /\ free' = [free EXCEPT ![t][c] = free[t][c] \o fresh]
  /\ held' = Put(held, b, slot) /\ pagemap' = Put(pagemap, b, q)
  /\ slot.page = q /\ \A k \in DOMAIN fresh : fresh[k].page = q
  /\ \A d \in DOMAIN pagemap : held[d].page # q
  /\ \A u \in Thread, d \in Class : \A j \in DOMAIN free[u][d] : free[u][d][j].page # q
  /\ \A k \in DOMAIN fresh : DisjointSlots(slot, fresh[k])
  /\ \A j, k \in DOMAIN fresh : j # k => DisjointSlots(fresh[j], fresh[k])

(* The slots of a new Ppage are apart from each other and from all others. *)
LEMMA SlotsCreated ==
  ASSUME CacheTypes, SlotsApart, NEW t \in Thread, NEW c \in Class, 
         NEW q, NEW fresh \in Seq(Freed), NEW slot, NEW b, 
         NewSlots(t, c, q, fresh, slot, b)
  PROVE  SlotsApart'
<1> USE DEF NewSlots
<1> DEFINE list == free[t][c]
           more == list \o fresh
           n == Len(list)
<1>1. free \in [Thread -> [Class -> Seq(Freed)]] /\ list \in Seq(Freed)
  BY DEF CacheTypes
<1>2. ASSUME NEW j \in DOMAIN more
      PROVE  \/ j \in DOMAIN list /\ more[j] = list[j]
             \/ j \notin DOMAIN list /\ j - n \in DOMAIN fresh /\ more[j] = fresh[j - n]
  <2> HIDE DEF list
  <2> QED BY <1>1
<1>3. \A u \in Thread, d \in Class : 
        free'[u][d] = IF u = t /\ d = c THEN more ELSE free[u][d]
  BY <1>1
<1>4. /\ DOMAIN pagemap' = DOMAIN pagemap \cup {b}
      /\ held'[b] = slot /\ \A d \in DOMAIN pagemap : held'[d] = held[d]
  BY DEF Put
<1>5. n \in Nat /\ DOMAIN more \subseteq Nat
  <2> HIDE DEF list
  <2> QED BY <1>1
<1> HIDE DEF list, more, n
<1>6. ASSUME NEW u \in Thread, NEW d \in Class, NEW j \in DOMAIN free'[u][d]
      PROVE  \/ j \in DOMAIN free[u][d] /\ free'[u][d][j] = free[u][d][j]
             \/ /\ u = t /\ d = c /\ j \in Nat /\ j - n \in DOMAIN fresh 
                /\ free'[u][d][j] = fresh[j - n]
  <2>1. CASE u = t /\ d = c
    <3>0. free[u][d] = list
      BY <2>1 DEF list
    <3>1. free'[u][d] = more /\ free[u][d] = list
      BY ONLY <2>1, <1>3, <3>0
    <3>2. j \in DOMAIN more
      BY <3>1, <1>6
    <3> QED BY <2>1, <3>1, <3>2, <1>2, <1>5
  <2>2. CASE ~(u = t /\ d = c)
    BY <2>2, <1>3, <1>6
  <2> QED BY <2>1, <2>2
<1>7. HeldApart'
  BY <1>4 DEF SlotsApart, HeldApart, Clash
<1>8. HeldFreeApart'
  <2> SUFFICES ASSUME NEW d \in DOMAIN pagemap', NEW u \in Thread, NEW e \in Class,
                      NEW j \in DOMAIN free'[u][e]
               PROVE  ~Clash(held'[d], free'[u][e][j])
    BY DEF HeldFreeApart
  <2>1. \/ j \in DOMAIN free[u][e] /\ free'[u][e][j] = free[u][e][j]
        \/ j - n \in DOMAIN fresh /\ free'[u][e][j] = fresh[j - n]
    BY <1>6
  <2>2. \/ d = b /\ held'[d] = slot 
        \/ d \in DOMAIN pagemap /\ held'[d] = held[d]
    BY <1>4
  <2> QED BY <2>1, <2>2 DEF SlotsApart, HeldFreeApart, Clash
<1>9. FreeApart'
  <2> SUFFICES ASSUME NEW u \in Thread, NEW d \in Class, NEW j \in DOMAIN free'[u][d],
                      NEW w \in Thread, NEW e \in Class, NEW k \in DOMAIN free'[w][e],
                      <<u, d, j>> # <<w, e, k>>
               PROVE  ~Clash(free'[u][d][j], free'[w][e][k])
    BY DEF FreeApart
  <2>1. \/ j \in DOMAIN free[u][d] /\ free'[u][d][j] = free[u][d][j]
        \/ /\ u = t /\ d = c /\ j \in Nat /\ j - n \in DOMAIN fresh 
           /\ free'[u][d][j] = fresh[j - n]
    BY <1>6
  <2>2. \/ k \in DOMAIN free[w][e] /\ free'[w][e][k] = free[w][e][k]
        \/ /\ w = t /\ e = c /\ k \in Nat /\ k - n \in DOMAIN fresh 
           /\ free'[w][e][k] = fresh[k - n]
    BY <1>6
  <2>3. CASE /\ j \in DOMAIN free[u][d] /\ free'[u][d][j] = free[u][d][j]
             /\ k \in DOMAIN free[w][e] /\ free'[w][e][k] = free[w][e][k]
    BY <2>3 DEF SlotsApart, FreeApart
  <2>4. CASE /\ u = t /\ d = c /\ j \in Nat /\ j - n \in DOMAIN fresh 
             /\ free'[u][d][j] = fresh[j - n]
             /\ w = t /\ e = c /\ k \in Nat /\ k - n \in DOMAIN fresh 
             /\ free'[w][e][k] = fresh[k - n]
    <3>1. j - n # k - n
      BY <2>4, <1>5
    <3> QED BY <3>1, <2>4 DEF Clash
  <2>5. CASE /\ j \in DOMAIN free[u][d] /\ free'[u][d][j] = free[u][d][j]
             /\ k - n \in DOMAIN fresh /\ free'[w][e][k] = fresh[k - n]
    BY <2>5 DEF Clash
  <2>6. CASE /\ k \in DOMAIN free[w][e] /\ free'[w][e][k] = free[w][e][k]
             /\ j - n \in DOMAIN fresh /\ free'[u][d][j] = fresh[j - n]
    BY <2>6 DEF Clash
  <2> QED BY <2>1, <2>2, <2>3, <2>4, <2>5, <2>6
<1> QED
  BY <1>7, <1>8, <1>9 DEF SlotsApart

(* Steps that touch no slot.                                               *)
LEMMA SlotsKept ==
  ASSUME SlotsApart, UNCHANGED <<free, pagemap>>, \A b \in DOMAIN pagemap : held'[b] = held[b]
  PROVE  SlotsApart'
  BY DEF SlotsApart, HeldApart, HeldFreeApart, FreeApart

(***************************************************************************)
(* Frames are shared within a Ppage.                                       *)
(***************************************************************************)
(* A page gets a new frame, or that of a page of the same Ppage.           *)
LEMMA PieceSharing ==
  ASSUME MemoryTypes, SharingWithinPpage, NEW b, b \notin DOMAIN vm, NEW f, NEW slot,
         vm' = Put(vm, b, f), held' = Put(held, b, slot),
         \/ f = frames + 1
         \/ \E src \in DOMAIN held : vm[src] = f /\ held[src].page = slot.page
  PROVE  SharingWithinPpage'
<1>1. /\ DOMAIN vm' = DOMAIN vm \cup {b} /\ DOMAIN held' = DOMAIN held \cup {b}
      /\ vm'[b] = f /\ held'[b] = slot
      /\ \A d \in DOMAIN vm : vm'[d] = vm[d]
      /\ \A d \in DOMAIN held : d # b /\ held'[d] = held[d] /\ d \in DOMAIN vm
  BY DEF Put, MemoryTypes
<1>2. ASSUME NEW d \in DOMAIN vm, vm[d] = f
      PROVE  d \in DOMAIN held /\ held[d].page = slot.page
  <2>1. f # frames + 1
    BY <1>2 DEF MemoryTypes
  <2>2. PICK src \in DOMAIN held : vm[src] = f /\ held[src].page = slot.page
    BY <2>1
  <2> QED BY <2>2, <1>1, <1>2 DEF SharingWithinPpage
<1>3. \A d, e \in DOMAIN vm' : 
        d # e /\ vm'[d] = vm'[e] => /\ {d, e} \subseteq DOMAIN held'
                                   /\ held'[d].page = held'[e].page
  <2> SUFFICES ASSUME NEW d \in DOMAIN vm', NEW e \in DOMAIN vm', d # e, vm'[d] = vm'[e]
               PROVE  {d, e} \subseteq DOMAIN held' /\ held'[d].page = held'[e].page
    OBVIOUS
  <2>1. CASE d = b
    BY <2>1, <1>1, <1>2
  <2>2. CASE e = b
    BY <2>2, <1>1, <1>2
  <2>3. CASE d # b /\ e # b
    BY <2>3, <1>1 DEF SharingWithinPpage
  <2> QED BY <2>1, <2>2, <2>3
<1> QED
  BY <1>3 DEF SharingWithinPpage

(* Whole pages get frames of their own.                                    *)
LEMMA WholeSharing ==
  ASSUME TypeOK, AddressInv, SharingWithinPpage, NEW t \in Thread, MallocWhole(t)
  PROVE  SharingWithinPpage'
<1> DEFINE v == op[t].vaddr
           size == WholeSize(op[t].remain)
           new == PagesOf(v, size)
           F(b) == frames + 1 + ((b - v) \div PageSize)
<1>1. /\ t \in Busy /\ CallOK /\ IsWhole(v, op[t].remain) /\ UNCHANGED held
      /\ DOMAIN vm' = DOMAIN vm \cup new
      /\ \A b \in DOMAIN vm' : vm'[b] = IF b \in new THEN F(b) ELSE vm[b]
  BY DEF MallocWhole, AtWhole, Busy, AddressInv
<1>2. v \in Nat /\ size \in Nat /\ Aligned(v) /\ RoundDownTo(v) = v
  <2>1. v \in Nat /\ size \in Nat /\ Aligned(v)
    BY <1>1, CallNumbers, WholeInChunk DEF IsWhole
  <2> QED BY <2>1, RoundDownOfAligned
<1> HIDE DEF v, size
<1>3. ASSUME NEW b \in new PROVE b - v \in Nat /\ Aligned(b - v)
  <2>1. b \in Nat /\ v <= b /\ Aligned(b)
    BY <1>2, PagesOfNat
  <2>2. b - v \in Nat /\ b = v + (b - v)
    BY <2>1, <1>2
  <2> QED BY <2>1, <2>2, <1>2, AlignedSum DEF Aligned
<1> HIDE DEF new
<1>4. ASSUME NEW b \in new, NEW d \in new, b < d PROVE F(b) # F(d)
  <2>1. b - v < d - v
    BY <1>2, <1>3, <1>4 DEF new, PagesOf
  <2>2. (b - v) \div PageSize \in Nat /\ (d - v) \div PageSize \in Nat
        /\ (b - v) \div PageSize < (d - v) \div PageSize
    BY <2>1, <1>3, PageNumber
  <2> QED BY <2>2 DEF TypeOK, MemoryTypes
<1>5. ASSUME NEW b \in new PROVE F(b) \in Nat /\ F(b) > frames
  <2>1. (b - v) \div PageSize \in Nat
    BY <1>3, PageAndOffset
  <2> QED BY <2>1 DEF TypeOK, MemoryTypes
<1>6. \A b \in DOMAIN vm : vm[b] \in Nat /\ vm[b] <= frames /\ frames \in Nat
  BY DEF TypeOK, MemoryTypes
<1>7. new \subseteq Nat
  BY <1>2, PagesOfNat DEF new
<1> HIDE DEF F
<1>8. ASSUME NEW b \in DOMAIN vm', NEW d \in DOMAIN vm', b # d, vm'[b] = vm'[d]
      PROVE  {b, d} \subseteq DOMAIN held /\ held[b].page = held[d].page
  <2>1. CASE b \in new /\ d \in new
    <3>1. b < d \/ d < b
      BY <2>1, <1>7, <1>8
    <3> QED BY <2>1, <3>1, <1>1, <1>4, <1>8
  <2>2. CASE b \in new /\ d \notin new
    BY <2>2, <1>1, <1>5, <1>6, <1>8
  <2>3. CASE b \notin new /\ d \in new
    BY <2>3, <1>1, <1>5, <1>6, <1>8
  <2>4. CASE b \notin new /\ d \notin new
    BY <2>4, <1>1, <1>8 DEF SharingWithinPpage
  <2> QED BY <2>1, <2>2, <2>3, <2>4
<1> QED
  BY <1>1, <1>8 DEF SharingWithinPpage

(***************************************************************************)
(* The lists of the Ppages.                                                *)
(***************************************************************************)
(* A Vpage in use exists, and its entry in Pagemap is that of its Ppage.   *)
LEMMA InUseExists ==
  ASSUME ListTypes, MapsOK, NEW v, InUse(v)
  PROVE  /\ v \in DOMAIN vpage /\ v \in 1..Len(vpage) /\ v # Null /\ v # Wild
         /\ vpage[v].addr \in DOMAIN pagemap
         /\ pagemap[vpage[v].addr] = vpage[v].page
<1>1. v \in DOMAIN vpage /\ vpage[v].addr \in DOMAIN pagemap 
      /\ vpage[v].page = pagemap[vpage[v].addr]
  BY DEF InUse, MapsOK
<1>2. DOMAIN vpage = 1..Len(vpage) /\ Len(vpage) \in Nat
  BY DEF ListTypes
<1> QED
  BY <1>1, <1>2 DEF Null, Wild

(* A link other than null or garbage leads to a Vpage of the same Ppage.   *)
LEMMA LinkPages ==
  ASSUME ListTypes, ListsOK, NEW v \in DOMAIN vpage
  PROVE  /\ next[v] \notin {Null, Wild} => next[v] \in DOMAIN vpage /\ vpage[next[v]].page = vpage[v].page
         /\ prev[v] \notin {Null, Wild} => prev[v] \in DOMAIN vpage /\ vpage[prev[v]].page = vpage[v].page
  BY DEF ListsOK, Links

(* InUse of the next state, of a Vpage named in this state or the next.     *)
InUseNext(v) == vpage'[v].addr \in DOMAIN forkmap' /\ forkmap'[vpage'[v].addr] = v

(* A new Vpage at the end of the list of its Ppage, or alone in it when    *)
(* the list passes for empty.                                              *)
LEMMA PushKeepsLists ==
  ASSUME ListTypes, MapTypes, ListsOK, MapsOK, VlistInv,
         NEW p \in DOMAIN ppage, NEW list, 
         \/ IsEmpty(ppage[p]) /\ list = EmptyList
         \/ ~IsEmpty(ppage[p]) /\ list = ppage[p] /\ ~AliasFaults(list),
         NEW addr \in Int, addr \notin DOMAIN forkmap, PushVpage(p, list, addr)
  PROVE  VlistInv'
<1> DEFINE n == Len(vpage) + 1
           pv == Append(prev, Null)
           nx == Append(next, Null)
           r == PushBack(list, pv, nx, n)
           l == list.last
           empty == IsEmpty(ppage[p])
<1>1. /\ n \in Nat /\ DOMAIN vpage = 1..(n - 1) /\ n \notin 1..(n - 1) /\ n \in 1..n
      /\ p \in DOMAIN ppage /\ ppage \in Seq(Vlist) /\ ppage[p] \in Vlist
      /\ DOMAIN forkmap = DOMAIN pagemap
  BY DEF ListTypes, MapsOK
<1>2. /\ DOMAIN vpage' = 1..n /\ \A v \in 1..(n - 1) : vpage'[v] = vpage[v]
      /\ vpage'[n].addr = addr /\ vpage'[n].page = p
  <2>1. vpage' = Append(vpage, NewVpage(addr, p)) /\ vpage \in Seq(Vpage)
    BY DEF PushVpage, ListTypes
  <2>2. NewVpage(addr, p) \in Vpage /\ NewVpage(addr, p).page = p /\ NewVpage(addr, p).addr = addr
    BY DEF NewVpage, Vpage, ListTypes
  <2> QED BY <2>1, <2>2
<1>3. /\ DOMAIN forkmap' = DOMAIN forkmap \cup {addr}
      /\ DOMAIN pagemap' = DOMAIN pagemap \cup {addr}
      /\ \A b \in DOMAIN forkmap' : forkmap'[b] = IF b = addr THEN n ELSE forkmap[b]
      /\ \A b \in DOMAIN pagemap' : pagemap'[b] = IF b = addr THEN p ELSE pagemap[b]
  BY DEF PushVpage, Register, Put
<1>4. \A b \in DOMAIN forkmap : forkmap[b] \in 1..(n - 1)
  BY <1>1 DEF MapsOK
<1>5. /\ ppage' = [ppage EXCEPT ![p] = r.list] /\ prev' = r.prev /\ next' = r.next
  BY DEF PushVpage
<1>6. /\ pv \in Seq(Int) /\ Len(pv) = n /\ nx \in Seq(Int) /\ Len(nx) = n
      /\ \A v \in 1..(n - 1) : pv[v] = prev[v] /\ nx[v] = next[v]
      /\ pv[n] = Null /\ nx[n] = Null
  <2>1. prev \in Seq(Int) /\ next \in Seq(Int) /\ Len(prev) = n - 1 /\ Len(next) = n - 1 /\ Null \in Int
    BY DEF ListTypes, Null
  <2> QED BY <2>1, <1>1
<1>7. ~empty => /\ InUse(l) /\ next[l] = Null /\ l \in 1..(n - 1) /\ vpage[l].page = p
                /\ list = ppage[p] /\ ppage[p].size > 0
  <2> SUFFICES ASSUME ~empty PROVE /\ InUse(l) /\ next[l] = Null /\ l \in 1..(n - 1) 
                                   /\ vpage[l].page = p /\ list = ppage[p] /\ ppage[p].size > 0
    OBVIOUS
  <2>1. list = ppage[p] /\ ~IsEmpty(list) /\ l \notin {Null, Wild}
    BY DEF AliasFaults, PushBackFaults
  <2>2. ppage[p].size > 0
    BY <1>1, <2>1 DEF VlistInv, Counted, IsEmpty
  <2>3. InUse(l) /\ next[l] = Null
    BY <2>1, <2>2 DEF VlistInv, EndsInUse
  <2>4. l \in Links(vpage, p)
    BY <2>1 DEF ListsOK
  <2> QED BY <1>1, <2>1, <2>2, <2>3, <2>4 DEF Links
<1> HIDE DEF n, pv, nx, l, empty
<1>8. /\ \A v \in 1..(n - 1) : prev'[v] = prev[v]
      /\ \A v \in 1..(n - 1) : next'[v] = IF ~empty /\ v = l THEN n ELSE next[v]
      /\ next'[n] = Null
      /\ prev'[n] = IF empty THEN Null ELSE l
      /\ r.list.last = n
      /\ r.list.first = IF empty THEN n ELSE ppage[p].first
      /\ r.list.size = IF empty THEN 1 ELSE ppage[p].size + 1
  <2>1. CASE empty
    <3>1. /\ r.list = [size |-> 1, first |-> n, last |-> n]
          /\ r.prev = [pv EXCEPT ![n] = Null] /\ r.next = [nx EXCEPT ![n] = Null]
      BY <2>1 DEF PushBack, EmptyList, IsEmpty, empty
    <3>2. DOMAIN pv = 1..n /\ DOMAIN nx = 1..n
      BY <1>6
    <3> HIDE DEF r
    <3> QED BY <2>1, <3>1, <3>2, <1>1, <1>5, <1>6
  <2>2. CASE ~empty
    <3>1. list = ppage[p] /\ ~IsEmpty(list)
      BY <2>2, <1>7 DEF empty
    <3>2. /\ r.list = [size |-> list.size + 1, first |-> list.first, last |-> n]
          /\ r.prev = [pv EXCEPT ![n] = l]
          /\ r.next = [nx EXCEPT ![n] = Null, ![l] = n]
      BY <3>1 DEF PushBack, l
    <3>3. DOMAIN pv = 1..n /\ DOMAIN nx = 1..n /\ l \in 1..n /\ l # n
      BY <2>2, <1>1, <1>6, <1>7
    <3> HIDE DEF r
    <3>4. \A v \in 1..n : r.next[v] = IF v = l THEN n ELSE IF v = n THEN Null ELSE nx[v]
      BY <3>2, <3>3
    <3>5. \A v \in 1..n : r.prev[v] = IF v = n THEN l ELSE pv[v]
      BY <3>2, <3>3
    <3>6. \A v \in 1..(n - 1) : v \in 1..n /\ v # n
      BY <1>1
    <3> QED BY <2>2, <3>1, <3>2, <3>3, <3>4, <3>5, <3>6, <1>1, <1>5, <1>6
  <2> QED BY <2>1, <2>2
<1> HIDE DEF r
<1>9. \A q \in DOMAIN ppage : ppage'[q] = IF q = p THEN r.list ELSE ppage[q]
  BY <1>1, <1>5
<1>10. DOMAIN ppage' = DOMAIN ppage
  BY <1>5
<1>11. /\ \A v : InUse(v) => v \in 1..(n - 1) 
       /\ \A v \in 1..(n - 1) : InUseNext(v) <=> InUse(v)
       /\ InUseNext(n)
  <2>1. \A v : InUse(v) => v \in 1..(n - 1)
    BY <1>4 DEF InUse
  <2>2. ASSUME NEW v \in 1..(n - 1) PROVE InUseNext(v) <=> InUse(v)
    BY <1>1, <1>2, <1>3 DEF InUse, InUseNext
  <2>3. InUseNext(n)
    BY <1>2, <1>3 DEF InUseNext
  <2> QED BY <2>1, <2>2, <2>3
<1>12. Null \notin 1..n /\ Wild \notin 1..n
  BY <1>1 DEF Null, Wild
<1>13. EntriesAgree'
  <2>1. \A b \in DOMAIN forkmap' : vpage'[forkmap'[b]].addr = b
    BY <1>2, <1>3, <1>4 DEF VlistInv, EntriesAgree
  <2> QED BY <2>1 DEF EntriesAgree
<1>14. LinksInUse'
  <2> SUFFICES ASSUME NEW v \in 1..n, InUseNext(v)
               PROVE  /\ next'[v] \in {Null, Wild} \/ (InUseNext(next'[v]) /\ prev'[next'[v]] = v)
                      /\ prev'[v] \in {Null, Wild} \/ (InUseNext(prev'[v]) /\ next'[prev'[v]] = v)
    BY <1>2 DEF LinksInUse, InUse, InUseNext
  <2>1. CASE v = n
    <3>1. next'[v] = Null
      BY <2>1, <1>8
    <3>2. CASE empty
      BY <2>1, <3>1, <3>2, <1>8
    <3>3. CASE ~empty
      <4>1. prev'[v] = l /\ next'[l] = n
        BY <2>1, <3>3, <1>7, <1>8
      <4>2. InUseNext(prev'[v])
        BY <4>1, <3>3, <1>7, <1>11
      <4> QED BY <2>1, <3>1, <4>1, <4>2
    <3> QED BY <3>2, <3>3
  <2>2. CASE v # n
    <3>1. v \in 1..(n - 1) /\ InUse(v) /\ prev'[v] = prev[v]
      BY <2>2, <1>1, <1>8, <1>11
    <3>2. /\ next[v] \in {Null, Wild} \/ (InUse(next[v]) /\ prev[next[v]] = v)
          /\ prev[v] \in {Null, Wild} \/ (InUse(prev[v]) /\ next[prev[v]] = v)
      BY <3>1, <1>1 DEF VlistInv, LinksInUse
    <3>3. next'[v] \in {Null, Wild} \/ (InUseNext(next'[v]) /\ prev'[next'[v]] = v)
      <4>1. CASE ~empty /\ v = l
        <5>1. next'[v] = n /\ prev'[n] = v
          BY <4>1, <3>1, <1>8
        <5> QED BY <5>1, <1>11
      <4>2. CASE ~(~empty /\ v = l)
        <5>1. next'[v] = next[v]
          BY <4>2, <3>1, <1>8
        <5>2. CASE next[v] \notin {Null, Wild}
          <6>1. next[v] \in 1..(n - 1) /\ InUse(next[v]) /\ prev[next[v]] = v
            BY <5>2, <3>2, <1>11
          <6> DEFINE w == next[v]
          <6>2. w \in 1..(n - 1) /\ InUseNext(w) /\ prev'[w] = v
            BY <6>1, <1>8, <1>11
          <6> QED BY <5>1, <6>2
        <5> QED BY <5>1, <5>2
      <4> QED BY <4>1, <4>2
    <3>4. prev'[v] \in {Null, Wild} \/ (InUseNext(prev'[v]) /\ next'[prev'[v]] = v)
      <4>1. CASE prev[v] \notin {Null, Wild}
        <5> DEFINE w == prev[v]
        <5>1. w \in 1..(n - 1) /\ InUse(w) /\ next[w] = v
          BY <4>1, <3>2, <1>11
        <5>2. ~(~empty /\ w = l)
          BY <5>1, <3>1, <1>7, <1>12, <1>1
        <5>3. InUseNext(w) /\ next'[w] = v
          BY <5>1, <5>2, <1>8, <1>11
        <5> QED BY <5>3, <3>1
      <4> QED BY <4>1, <3>1
    <3> QED BY <3>3, <3>4
  <2> QED BY <2>1, <2>2
<1>15. EndsInUse'
  <2> SUFFICES ASSUME NEW q \in DOMAIN ppage, ppage'[q].size > 0
               PROVE  /\ ppage'[q].first = Null 
                         \/ (InUseNext(ppage'[q].first) /\ prev'[ppage'[q].first] = Null)
                      /\ ppage'[q].last = Null 
                         \/ (InUseNext(ppage'[q].last) /\ next'[ppage'[q].last] = Null)
    BY <1>10 DEF EndsInUse, InUse, InUseNext
  <2>1. CASE q = p
    <3>1. ppage'[q] = r.list
      BY <2>1, <1>9
    <3>2. ppage'[q].last = n /\ InUseNext(n) /\ next'[n] = Null
      BY <3>1, <1>8, <1>11
    <3>3. CASE empty
      <4>1. ppage'[q].first = n /\ prev'[n] = Null
        BY <3>1, <3>3, <1>8
      <4> QED BY <3>2, <4>1
    <3>4. CASE ~empty
      <4> DEFINE f == ppage[p].first
      <4>1. ppage'[q].first = f
        BY <3>1, <3>4, <1>8
      <4>2. f = Null \/ (InUse(f) /\ prev[f] = Null)
        BY <3>4, <1>7 DEF VlistInv, EndsInUse
      <4>3. f = Null \/ (InUseNext(f) /\ prev'[f] = Null)
        BY <4>2, <1>8, <1>11
      <4> QED BY <3>2, <4>1, <4>3
    <3> QED BY <3>3, <3>4
  <2>2. CASE q # p
    <3> DEFINE f == ppage[q].first
               k == ppage[q].last
    <3>1. ppage'[q] = ppage[q]
      BY <2>2, <1>9
    <3>2. /\ f = Null \/ (InUse(f) /\ prev[f] = Null)
          /\ k = Null \/ (InUse(k) /\ next[k] = Null)
      BY <3>1 DEF VlistInv, EndsInUse
    <3>3. f = Null \/ (InUseNext(f) /\ prev'[f] = Null)
      BY <3>2, <1>8, <1>11
    <3>4. k = Null \/ (InUseNext(k) /\ next'[k] = Null)
      <4>1. InUse(k) => vpage[k].page = q
        BY <1>11, <1>12, <1>1 DEF ListsOK, Links, InUse
      <4> QED BY <4>1, <2>2, <3>2, <1>7, <1>8, <1>11
    <3> QED BY <3>1, <3>3, <3>4
  <2> QED BY <2>1, <2>2
<1>16. Counted'
  <2> SUFFICES ASSUME NEW q \in DOMAIN ppage
               PROVE  /\ ppage'[q].size \in Nat /\ IsFiniteSet(RegisteredFor(q)')
                      /\ Cardinality(RegisteredFor(q)') - ppage'[q].size \in {0, 1}
    BY <1>10 DEF Counted, RegisteredFor
  <2>0. /\ ppage[q].size \in Nat /\ IsFiniteSet(RegisteredFor(q))
        /\ Cardinality(RegisteredFor(q)) - ppage[q].size \in {0, 1}
    BY DEF VlistInv, Counted
  <2>1. CASE q = p
    <3>1. RegisteredFor(q)' = RegisteredFor(q) \cup {addr} /\ addr \notin RegisteredFor(q)
      BY <2>1, <1>1, <1>3 DEF RegisteredFor
    <3>2. /\ IsFiniteSet(RegisteredFor(q)')
          /\ Cardinality(RegisteredFor(q)') = Cardinality(RegisteredFor(q)) + 1
      BY <3>1, <2>0, FS_AddElement
    <3>3. ppage'[q].size = IF empty THEN 1 ELSE ppage[p].size + 1
      BY <2>1, <1>8, <1>9
    <3>4. empty => ppage[p].size = 0
      BY DEF empty, IsEmpty
    <3>5. Cardinality(RegisteredFor(q)) \in Nat
      BY <2>0, FS_CardinalityType
    <3> QED BY <2>0, <2>1, <3>2, <3>3, <3>4, <3>5
  <2>2. CASE q # p
    <3>1. RegisteredFor(q)' = RegisteredFor(q)
      BY <2>2, <1>1, <1>3 DEF RegisteredFor
    <3> QED BY <2>0, <2>2, <3>1, <1>9
  <2> QED BY <2>1, <2>2
<1> QED
  BY <1>13, <1>14, <1>15, <1>16 DEF VlistInv

(* A new Ppage: its first Vpage is registered, but the list is empty and   *)
(* the links of the Vpage are null or garbage.                             *)
LEMMA NewPpageKeepsLists ==
  ASSUME ListTypes, MapTypes, ListsOK, MapsOK, VlistInv,
         NEW addr \in Int, addr \notin DOMAIN forkmap, NEW link \in StaleLinks,
         ppage' = Append(ppage, EmptyList),
         vpage' = Append(vpage, NewVpage(addr, Len(ppage) + 1)),
         prev' = Append(prev, link), next' = Append(next, link),
         Register(addr, Len(vpage) + 1, Len(ppage) + 1)
  PROVE  VlistInv'
<1> DEFINE n == Len(vpage) + 1
           p == Len(ppage) + 1
<1>1. /\ n \in Nat /\ DOMAIN vpage = 1..(n - 1) /\ n \notin 1..(n - 1) /\ n \in 1..n
      /\ p \in Nat /\ DOMAIN ppage = 1..(p - 1) /\ p \notin 1..(p - 1) /\ p \in 1..p
      /\ DOMAIN forkmap = DOMAIN pagemap
  BY DEF ListTypes, MapsOK
<1>2. /\ DOMAIN vpage' = 1..n /\ \A v \in 1..(n - 1) : vpage'[v] = vpage[v]
      /\ vpage'[n].addr = addr /\ vpage'[n].page = p
  <2>1. vpage' = Append(vpage, NewVpage(addr, p)) /\ vpage \in Seq(Vpage) /\ p \in Nat
    BY DEF ListTypes
  <2>2. NewVpage(addr, p) \in Vpage /\ NewVpage(addr, p).page = p /\ NewVpage(addr, p).addr = addr
    BY <2>1 DEF NewVpage, Vpage
  <2> QED BY <2>1, <2>2
<1>3. /\ DOMAIN ppage' = 1..p /\ \A q \in 1..(p - 1) : ppage'[q] = ppage[q]
      /\ ppage'[p] = EmptyList
  <2>1. EmptyList \in Vlist /\ ppage \in Seq(Vlist)
    BY DEF ListTypes, EmptyList, Vlist, Null
  <2> QED BY <2>1
<1>4. /\ \A v \in 1..(n - 1) : prev'[v] = prev[v] /\ next'[v] = next[v]
      /\ prev'[n] = link /\ next'[n] = link /\ link \in {Null, Wild}
  <2>1. /\ prev \in Seq(Int) /\ next \in Seq(Int) /\ Len(prev) = n - 1 /\ Len(next) = n - 1
        /\ link \in Int /\ link \in {Null, Wild}
    BY HeapAssumption DEF ListTypes, Null, Wild
  <2> QED BY <2>1, <1>1
<1>5. /\ DOMAIN forkmap' = DOMAIN forkmap \cup {addr}
      /\ DOMAIN pagemap' = DOMAIN pagemap \cup {addr}
      /\ \A b \in DOMAIN forkmap' : forkmap'[b] = IF b = addr THEN n ELSE forkmap[b]
      /\ \A b \in DOMAIN pagemap' : pagemap'[b] = IF b = addr THEN p ELSE pagemap[b]
  BY DEF Register, Put
<1> HIDE DEF n, p
<1>0. \A v \in 1..n : v # n => v \in 1..(n - 1)
  BY ONLY <1>1
<1>6. \A b \in DOMAIN forkmap : forkmap[b] \in 1..(n - 1)
  BY <1>1 DEF MapsOK
<1>7. \A v : InUse(v) => v \in 1..(n - 1)
  BY <1>6 DEF InUse
<1>8. \A v \in 1..(n - 1) : InUseNext(v) <=> InUse(v)
  BY <1>1, <1>2, <1>5 DEF InUse, InUseNext
<1>9. EntriesAgree'
  <2>1. ASSUME NEW b \in DOMAIN forkmap' PROVE vpage'[forkmap'[b]].addr = b
    <3>1. CASE b = addr
      BY <3>1, <1>2, <1>5
    <3>2. CASE b # addr
      <4>1. b \in DOMAIN forkmap /\ forkmap'[b] = forkmap[b] /\ vpage[forkmap[b]].addr = b
        BY <3>2, <1>5 DEF VlistInv, EntriesAgree
      <4> QED BY <4>1, <1>2, <1>6
    <3> QED BY <3>1, <3>2
  <2> QED BY <2>1 DEF EntriesAgree
<1>10. LinksInUse'
  <2> SUFFICES ASSUME NEW v \in 1..n, InUseNext(v)
               PROVE  /\ next'[v] \in {Null, Wild} \/ (InUseNext(next'[v]) /\ prev'[next'[v]] = v)
                      /\ prev'[v] \in {Null, Wild} \/ (InUseNext(prev'[v]) /\ next'[prev'[v]] = v)
    BY <1>2 DEF LinksInUse, InUse, InUseNext
  <2>1. CASE v = n
    BY <2>1, <1>4
  <2>2. CASE v # n
    <3>1. v \in 1..(n - 1) /\ InUse(v) /\ prev'[v] = prev[v] /\ next'[v] = next[v]
      <4>1. v \in 1..(n - 1)
        BY <2>2, <1>0
      <4> QED BY <4>1, <1>4, <1>8
    <3>2. /\ next[v] \in {Null, Wild} \/ (InUse(next[v]) /\ prev[next[v]] = v)
          /\ prev[v] \in {Null, Wild} \/ (InUse(prev[v]) /\ next[prev[v]] = v)
      BY <3>1, <1>1 DEF VlistInv, LinksInUse
    <3> QED BY <3>1, <3>2, <1>4, <1>7, <1>8
  <2> QED BY <2>1, <2>2
<1>11. EndsInUse'
  <2> SUFFICES ASSUME NEW q \in 1..p, ppage'[q].size > 0
               PROVE  /\ ppage'[q].first = Null 
                         \/ (InUseNext(ppage'[q].first) /\ prev'[ppage'[q].first] = Null)
                      /\ ppage'[q].last = Null 
                         \/ (InUseNext(ppage'[q].last) /\ next'[ppage'[q].last] = Null)
    BY <1>3 DEF EndsInUse, InUse, InUseNext
  <2>1. q # p
    BY <1>3 DEF EmptyList
  <2>2. q \in 1..(p - 1) /\ ppage'[q] = ppage[q]
    BY <2>1, <1>1, <1>3
  <2>3. /\ ppage[q].first = Null \/ (InUse(ppage[q].first) /\ prev[ppage[q].first] = Null)
        /\ ppage[q].last = Null \/ (InUse(ppage[q].last) /\ next[ppage[q].last] = Null)
    BY <2>2, <1>1 DEF VlistInv, EndsInUse
  <2> QED BY <2>2, <2>3, <1>4, <1>7, <1>8
<1>12. Counted'
  <2> SUFFICES ASSUME NEW q \in 1..p
               PROVE  /\ ppage'[q].size \in Nat /\ IsFiniteSet(RegisteredFor(q)')
                      /\ Cardinality(RegisteredFor(q)') - ppage'[q].size \in {0, 1}
    BY <1>3 DEF Counted, RegisteredFor
  <2>1. CASE q = p
    <3>1. \A d \in DOMAIN pagemap : pagemap[d] # p
      BY <1>1 DEF MapsOK
    <3>2. RegisteredFor(q)' = {addr}
      BY <2>1, <3>1, <1>5 DEF RegisteredFor
    <3>3. IsFiniteSet({addr}) /\ Cardinality({addr}) = 1
      BY FS_Singleton
    <3>4. ppage'[q].size = 0
      BY <2>1, <1>3 DEF EmptyList
    <3> QED BY <3>2, <3>3, <3>4
  <2>2. CASE q # p
    <3>1. q \in DOMAIN ppage /\ ppage'[q] = ppage[q]
      BY <2>2, <1>1, <1>3
    <3>2. RegisteredFor(q)' = RegisteredFor(q)
      BY <2>2, <1>1, <1>5 DEF RegisteredFor
    <3> QED BY <3>1, <3>2 DEF VlistInv, Counted
  <2> QED BY <2>1, <2>2
<1> QED
  BY <1>9, <1>10, <1>11, <1>12 DEF VlistInv

(* A Vpage is taken off its list, or the list passes for empty and stays   *)
(* as it is: then no other Vpage of the Ppage is left.                     *)
LEMMA RemoveKeepsLists ==
  ASSUME ListTypes, MapTypes, ListsOK, MapsOK, VlistInv, NEW b \in DOMAIN forkmap,
         ~RemoveFaults(ppage[pagemap[b]], prev, next, forkmap[b]),
         NEW r, r = Remove(ppage[pagemap[b]], prev, next, forkmap[b]),
         ppage' = [ppage EXCEPT ![pagemap[b]] = r.list],
         prev' = r.prev, next' = r.next, vpage' = vpage,
         forkmap' = Drop(forkmap, {b}), pagemap' = Drop(pagemap, {b})
  PROVE  VlistInv'
<1> DEFINE x == forkmap[b]
           p == pagemap[b]
           list == ppage[p]
<1>1. /\ b \in DOMAIN pagemap /\ p \in DOMAIN ppage /\ x \in DOMAIN vpage
      /\ vpage[x].page = p /\ vpage[x].addr = b /\ InUse(x)
      /\ DOMAIN prev = DOMAIN vpage /\ DOMAIN next = DOMAIN vpage
      /\ x # Null /\ x # Wild
  <2>1. b \in DOMAIN pagemap /\ p \in DOMAIN ppage /\ x \in DOMAIN vpage /\ vpage[x].page = p
    BY DEF MapsOK
  <2>2. vpage[x].addr = b
    BY DEF VlistInv, EntriesAgree
  <2>3. DOMAIN prev = DOMAIN vpage /\ DOMAIN next = DOMAIN vpage /\ DOMAIN vpage = 1..Len(vpage)
    BY DEF ListTypes
  <2> QED BY <2>1, <2>2, <2>3 DEF InUse, Null, Wild
<1>2. /\ DOMAIN forkmap' = DOMAIN forkmap \ {b} /\ DOMAIN pagemap' = DOMAIN pagemap \ {b}
      /\ \A d \in DOMAIN forkmap' : forkmap'[d] = forkmap[d]
      /\ \A d \in DOMAIN pagemap' : pagemap'[d] = pagemap[d]
  BY DEF Drop
<1>3. \A q \in DOMAIN ppage : ppage'[q] = IF q = p THEN r.list ELSE ppage[q]
  BY <1>1
<1>4. DOMAIN ppage' = DOMAIN ppage
  OBVIOUS
<1> HIDE DEF x, p
<1>5. \A v : InUseNext(v) <=> (InUse(v) /\ v # x)
  BY <1>1, <1>2 DEF InUse, InUseNext, x
<1>6. \A v : InUse(v) => v \in DOMAIN vpage /\ v # Null /\ v # Wild
  BY InUseExists
<1>7. EntriesAgree'
  BY <1>2 DEF VlistInv, EntriesAgree
<1>8. Counted'
  <2> SUFFICES ASSUME NEW q \in DOMAIN ppage
               PROVE  /\ ppage'[q].size \in Nat /\ IsFiniteSet(RegisteredFor(q)')
                      /\ Cardinality(RegisteredFor(q)') - ppage'[q].size \in {0, 1}
    BY <1>4 DEF Counted, RegisteredFor
  <2>1. /\ ppage[q].size \in Nat /\ IsFiniteSet(RegisteredFor(q))
        /\ Cardinality(RegisteredFor(q)) - ppage[q].size \in {0, 1}
    BY DEF VlistInv, Counted
  <2>2. CASE q = p
    <3>1. RegisteredFor(q)' = RegisteredFor(q) \ {b} /\ b \in RegisteredFor(q)
      BY <2>2, <1>1, <1>2 DEF RegisteredFor, p
    <3>2. /\ IsFiniteSet(RegisteredFor(q)')
          /\ Cardinality(RegisteredFor(q)') = Cardinality(RegisteredFor(q)) - 1
      BY <2>1, <3>1, FS_RemoveElement
    <3>3. Cardinality(RegisteredFor(q)) \in Nat /\ Cardinality(RegisteredFor(q)') \in Nat
      BY <2>1, <3>2, FS_CardinalityType
    <3>4. ppage'[q].size = IF IsEmpty(list) THEN 0 ELSE ppage[q].size - 1
      BY <2>2, <1>3 DEF Remove, IsEmpty, p, x
    <3>5. IsEmpty(list) <=> ppage[q].size = 0
      BY <2>2 DEF IsEmpty
    <3> HIDE DEF list
    <3> QED BY <2>1, <3>2, <3>3, <3>4, <3>5
  <2>3. CASE q # p
    <3>1. RegisteredFor(q)' = RegisteredFor(q)
      BY <2>3, <1>1, <1>2 DEF RegisteredFor, p
    <3> QED BY <2>1, <2>3, <3>1, <1>3
  <2> QED BY <2>2, <2>3
<1>9. ASSUME NEW q \in DOMAIN ppage, q # p, NEW v \in Links(vpage, q)
      PROVE  v # x
  BY <1>1, <1>9 DEF Links
<1>10. CASE IsEmpty(list)
  <2>1. ppage' = ppage /\ prev' = prev /\ next' = next
    <3>1. r.list = list /\ r.prev = prev /\ r.next = next
      BY <1>10 DEF Remove, x, p
    <3>2. ppage \in Seq(Vlist) /\ p \in DOMAIN ppage
      BY <1>1 DEF ListTypes
    <3>3. [ppage EXCEPT ![p] = list] = ppage
      BY ONLY <3>2
    <3> HIDE DEF list
    <3> QED BY <3>1, <3>3 DEF p
  <2>2. \A d \in RegisteredFor(p) : d = b
    <3>1. /\ IsFiniteSet(RegisteredFor(p)) /\ Cardinality(RegisteredFor(p)) - list.size \in {0, 1}
          /\ list.size = 0 /\ Cardinality(RegisteredFor(p)) \in Nat
      BY <1>1, <1>10, FS_CardinalityType DEF VlistInv, Counted, IsEmpty
    <3>2. b \in RegisteredFor(p)
      BY <1>1 DEF RegisteredFor, p
    <3>3. Cardinality(RegisteredFor(p)) = 1
      <4>1. Cardinality(RegisteredFor(p)) # 0
        BY <3>1, <3>2, FS_EmptySet
      <4> QED BY <3>1, <4>1
    <3> QED BY <3>1, <3>2, <3>3, FS_Singleton
  <2>3. \A v : InUse(v) /\ vpage[v].page = p => v = x
    <3> SUFFICES ASSUME NEW v, InUse(v), vpage[v].page = p PROVE v = x
      OBVIOUS
    <3>1. vpage[v].addr \in RegisteredFor(p)
      BY InUseExists DEF RegisteredFor
    <3> QED BY <2>2, <3>1 DEF InUse, x
  <2>4. LinksInUse'
    <3> SUFFICES ASSUME NEW v \in DOMAIN vpage, InUseNext(v)
                 PROVE  /\ next'[v] \in {Null, Wild} \/ (InUseNext(next'[v]) /\ prev'[next'[v]] = v)
                        /\ prev'[v] \in {Null, Wild} \/ (InUseNext(prev'[v]) /\ next'[prev'[v]] = v)
      BY DEF LinksInUse, InUse, InUseNext
    <3>1. InUse(v) /\ v # x /\ vpage[v].page # p
      BY <1>5, <2>3
    <3>2. /\ next[v] \notin {Null, Wild} => next[v] # x
          /\ prev[v] \notin {Null, Wild} => prev[v] # x
      BY <3>1, <1>1, LinkPages
    <3>3. /\ next[v] \in {Null, Wild} \/ (InUse(next[v]) /\ prev[next[v]] = v)
          /\ prev[v] \in {Null, Wild} \/ (InUse(prev[v]) /\ next[prev[v]] = v)
      BY <3>1 DEF VlistInv, LinksInUse
    <3> QED BY <3>2, <3>3, <2>1, <1>5
  <2>5. EndsInUse'
    <3>1. ASSUME NEW q \in DOMAIN ppage, ppage[q].size > 0
          PROVE  /\ ppage[q].first = Null 
                    \/ (InUseNext(ppage[q].first) /\ prev[ppage[q].first] = Null)
                 /\ ppage[q].last = Null 
                    \/ (InUseNext(ppage[q].last) /\ next[ppage[q].last] = Null)
      <4>1. q # p
        BY <1>10, <3>1 DEF IsEmpty
      <4>2. ppage[q].first # x /\ ppage[q].last # x
        BY <4>1, <1>9 DEF ListsOK
      <4> QED BY <3>1, <4>2, <1>5 DEF VlistInv, EndsInUse
    <3> QED BY ONLY <2>1, <3>1 DEF EndsInUse, InUse, InUseNext
  <2> QED BY <1>7, <1>8, <2>4, <2>5 DEF VlistInv
<1>11. CASE ~IsEmpty(list)
  <2> DEFINE w == prev[x]
             y == next[x]
  <2>1. /\ ppage'[p] = [size  |-> list.size - 1,
                        first |-> IF w = Null THEN y ELSE list.first,
                        last  |-> IF y = Null THEN w ELSE list.last]
        /\ \A i \in DOMAIN vpage : 
             /\ prev'[i] = IF i = x THEN Null ELSE IF i = y THEN w ELSE prev[i]
             /\ next'[i] = IF i = x THEN Null ELSE IF i = w THEN y ELSE next[i]
    BY <1>11, <1>1, <1>3 DEF Remove, x, p
  <2>2. w # Wild /\ y # Wild
    BY <1>11 DEF RemoveFaults, x, p
  <2>3. /\ y = Null \/ (InUse(y) /\ prev[y] = x)
        /\ w = Null \/ (InUse(w) /\ next[w] = x)
    BY <2>2, <1>1 DEF VlistInv, LinksInUse
  <2>4. list.size > 0
    BY <1>1, <1>11 DEF VlistInv, Counted, IsEmpty
  <2>5. /\ y = Null \/ vpage[y].page = p
        /\ w = Null \/ vpage[w].page = p
    BY <1>1, <2>2, LinkPages
  <2> HIDE DEF w, y, list
  <2>6. \A v : InUse(v) => 
          /\ next[v] \in {Null, Wild} \/ (InUse(next[v]) /\ prev[next[v]] = v)
          /\ prev[v] \in {Null, Wild} \/ (InUse(prev[v]) /\ next[prev[v]] = v)
    BY <1>6 DEF VlistInv, LinksInUse
  <2>7. LinksInUse'
    <3> SUFFICES ASSUME NEW v \in DOMAIN vpage, InUseNext(v)
                 PROVE  /\ next'[v] \in {Null, Wild} \/ (InUseNext(next'[v]) /\ prev'[next'[v]] = v)
                        /\ prev'[v] \in {Null, Wild} \/ (InUseNext(prev'[v]) /\ next'[prev'[v]] = v)
      BY DEF LinksInUse, InUse, InUseNext
    <3>1. InUse(v) /\ v # x
      BY <1>5
    <3>2. next'[v] \in {Null, Wild} \/ (InUseNext(next'[v]) /\ prev'[next'[v]] = v)
      <4>1. CASE v = w
        <5>1. next'[v] = y
          BY <4>1, <3>1, <2>1
        <5>2. y # Null => InUse(y) /\ y # x /\ prev'[y] = v
          BY <4>1, <3>1, <1>6, <2>1, <2>3 DEF w
        <5> QED BY <5>1, <5>2, <1>5
      <4>2. CASE v # w
        <5>1. next'[v] = next[v]
          BY <4>2, <3>1, <2>1
        <5>2. next[v] \notin {Null, Wild} => 
                 /\ InUse(next[v]) /\ prev[next[v]] = v
                 /\ next[v] # x /\ next[v] # y
          BY <4>2, <3>1, <2>3, <2>6 DEF w
        <5> QED BY <5>1, <5>2, <1>5, <1>6, <2>1
      <4> QED BY <4>1, <4>2
    <3>3. prev'[v] \in {Null, Wild} \/ (InUseNext(prev'[v]) /\ next'[prev'[v]] = v)
      <4>1. CASE v = y
        <5>1. prev'[v] = w
          BY <4>1, <3>1, <2>1
        <5>2. w # Null => InUse(w) /\ w # x /\ next'[w] = v
          BY <4>1, <3>1, <1>6, <2>1, <2>3 DEF y
        <5> QED BY <5>1, <5>2, <1>5
      <4>2. CASE v # y
        <5>1. prev'[v] = prev[v]
          BY <4>2, <3>1, <2>1
        <5>2. prev[v] \notin {Null, Wild} => 
                 /\ InUse(prev[v]) /\ next[prev[v]] = v
                 /\ prev[v] # x /\ prev[v] # w
          BY <4>2, <3>1, <2>3, <2>6 DEF y
        <5> QED BY <5>1, <5>2, <1>5, <1>6, <2>1
      <4> QED BY <4>1, <4>2
    <3> QED BY <3>2, <3>3
  <2>8. EndsInUse'
    <3> SUFFICES ASSUME NEW q \in DOMAIN ppage, ppage'[q].size > 0
                 PROVE  /\ ppage'[q].first = Null 
                           \/ (InUseNext(ppage'[q].first) /\ prev'[ppage'[q].first] = Null)
                        /\ ppage'[q].last = Null 
                           \/ (InUseNext(ppage'[q].last) /\ next'[ppage'[q].last] = Null)
      BY <1>4 DEF EndsInUse, InUse, InUseNext
    <3>1. CASE q = p
      <4>1. /\ list.first = Null \/ (InUse(list.first) /\ prev[list.first] = Null)
            /\ list.last = Null \/ (InUse(list.last) /\ next[list.last] = Null)
        BY <1>1, <2>4 DEF VlistInv, EndsInUse, list
      <4>2. ppage'[q].first = Null \/ (InUseNext(ppage'[q].first) /\ prev'[ppage'[q].first] = Null)
        <5>1. CASE w = Null
          <6>1. ppage'[q].first = y
            BY <5>1, <3>1, <2>1
          <6>2. y # Null => InUse(y) /\ y # x /\ prev'[y] = Null
            BY <5>1, <1>1, <1>6, <2>1, <2>3 DEF w
          <6> QED BY <6>1, <6>2, <1>5
        <5>2. CASE w # Null
          <6>1. ppage'[q].first = list.first
            BY <5>2, <3>1, <2>1
          <6>2. list.first # Null => 
                  InUse(list.first) /\ list.first # x /\ prev'[list.first] = Null
            BY <4>1, <5>2, <1>1, <1>6, <2>1, <2>3 DEF w
          <6> QED BY <6>1, <6>2, <1>5
        <5> QED BY <5>1, <5>2
      <4>3. ppage'[q].last = Null \/ (InUseNext(ppage'[q].last) /\ next'[ppage'[q].last] = Null)
        <5>1. CASE y = Null
          <6>1. ppage'[q].last = w
            BY <5>1, <3>1, <2>1
          <6>2. w # Null => InUse(w) /\ w # x /\ next'[w] = Null
            BY <5>1, <1>1, <1>6, <2>1, <2>3 DEF y
          <6> QED BY <6>1, <6>2, <1>5
        <5>2. CASE y # Null
          <6>1. ppage'[q].last = list.last
            BY <5>2, <3>1, <2>1
          <6>2. list.last # Null => 
                  InUse(list.last) /\ list.last # x /\ next'[list.last] = Null
            BY <4>1, <5>2, <1>1, <1>6, <2>1, <2>3 DEF y
          <6> QED BY <6>1, <6>2, <1>5
        <5> QED BY <5>1, <5>2
      <4> QED BY <4>2, <4>3
    <3>2. CASE q # p
      <4>1. ppage'[q] = ppage[q]
        BY <3>2, <1>3
      <4>2. ASSUME NEW v \in {ppage[q].first, ppage[q].last}, InUse(v)
            PROVE  v # x /\ v # w /\ v # y /\ v \in DOMAIN vpage
        <5>1. v \in DOMAIN vpage /\ v \in Links(vpage, q) /\ vpage[v].page = q
          BY <4>2, <1>6 DEF ListsOK, Links
        <5> QED BY <5>1, <4>2, <3>2, <1>6, <1>9, <2>5
      <4>3. /\ ppage[q].first = Null \/ (InUse(ppage[q].first) /\ prev[ppage[q].first] = Null)
            /\ ppage[q].last = Null \/ (InUse(ppage[q].last) /\ next[ppage[q].last] = Null)
        BY <4>1 DEF VlistInv, EndsInUse
      <4> QED BY <4>1, <4>2, <4>3, <1>5, <2>1
    <3> QED BY <3>1, <3>2
  <2> QED BY <1>7, <1>8, <2>7, <2>8 DEF VlistInv
<1> QED
  BY <1>10, <1>11

(* A step that leaves the lists and the maps alone.                        *)
LEMMA ListsKept ==
  ASSUME VlistInv, UNCHANGED <<listVars, mapVars>>
  PROVE  VlistInv'
<1>1. UNCHANGED <<ppage, vpage, prev, next, forkmap, pagemap>>
  BY DEF listVars, mapVars
<1>2. EntriesAgree' /\ Counted'
  BY <1>1 DEF VlistInv, EntriesAgree, Counted, RegisteredFor
<1>3. LinksInUse' /\ EndsInUse'
  BY <1>1 DEF VlistInv, LinksInUse, EndsInUse, InUse
<1> QED
  BY <1>2, <1>3 DEF VlistInv

(***************************************************************************)
(* The steps of the heap.                                                  *)
(***************************************************************************)
(* The front of a list that does not pass for empty, if there is one, is a *)
(* registered and mapped page of the Ppage.                                *)
LEMMA FrontRegistered ==
  ASSUME ListTypes, MemoryTypes, ListsOK, MapsOK, VlistInv, Registered, 
         NEW p \in DOMAIN ppage, ppage[p].size > 0, ppage[p].first # Null
  PROVE  LET src == vpage[ppage[p].first].addr IN
         /\ src \in DOMAIN pagemap /\ pagemap[src] = p 
         /\ src \in DOMAIN held /\ held[src].page = p /\ src \in DOMAIN vm
<1> DEFINE v == ppage[p].first
<1>1. InUse(v) /\ v \in Links(vpage, p)
  BY DEF VlistInv, EndsInUse, ListsOK
<1>2. v \in DOMAIN vpage /\ v # Null /\ v # Wild /\ vpage[v].addr \in DOMAIN pagemap
      /\ pagemap[vpage[v].addr] = vpage[v].page
  BY <1>1, InUseExists
<1>3. vpage[v].page = p
  BY <1>1, <1>2 DEF Links
<1> QED
  BY <1>2, <1>3 DEF Registered, MemoryTypes

(* A partial piece that malloc is at is not mapped yet.                    *)
LEMMA MallocBase ==
  ASSUME HeapInv, NEW t \in Thread, AtPartial(t, "malloc")
  PROVE  /\ t \in Mallocing /\ t \in Busy /\ IsPartial(op[t].vaddr, op[t].remain)
         /\ op[t].cls \in Class /\ PieceBase(t) \in Nat /\ PieceBase(t) \in Int
         /\ PieceSlot(t).offset \in Nat /\ PieceSlot(t).offset < PageSize
         /\ PieceSlot(t).size \in Nat /\ PieceSlot(t).size <= ClassSize[op[t].cls]
         /\ ClassSize[op[t].cls] \in Nat \ {0}
         /\ PieceBase(t) \notin DOMAIN vm /\ PieceBase(t) \notin DOMAIN pagemap
         /\ PieceBase(t) \notin DOMAIN forkmap
<1> DEFINE b == PieceBase(t)
           s == PieceSlot(t)
<1>1. /\ TypeOK /\ CallOK /\ AddressInv /\ Registered /\ MapsOK /\ MemoryTypes
      /\ op \in [Thread -> Call]
  BY DEF HeapInv, TypeInv, IndexOK, AddressInv, SlotInv, TypeOK, CallTypes
<1>2. t \in Mallocing /\ t \in Busy /\ IsPartial(op[t].vaddr, op[t].remain)
  BY DEF AtPartial, Mallocing, Busy
<1>3. b \in Nat /\ s.offset \in Nat /\ s.offset < PageSize
      /\ s.size \in Nat /\ s.size <= op[t].remain
      /\ op[t].cls \in Class /\ ClassSize[op[t].cls] \in Nat \ {0}
  BY <1>1, <1>2, PieceType
<1>4. s.size <= ClassSize[op[t].cls]
  <2>1. /\ op[t].beg \in Nat /\ op[t].vaddr \in Nat /\ op[t].remain \in Nat
        /\ op[t].beg <= op[t].vaddr
        /\ op[t].vaddr + op[t].remain = op[t].beg + ClassSize[op[t].cls]
    BY <1>1, <1>2, CallNumbers
  <2> HIDE DEF s
  <2> QED BY <1>3, <2>1
<1>5. b \in Pages(InCall(t)) /\ Ahead(t, b)
  <2>1. b \in Pages(InCall(t))
    BY <1>1, <1>2, PieceInChunk
  <2>2. op[t].vaddr = op[t].beg \/ Aligned(op[t].vaddr)
    BY <1>1, <1>2, CallNumbers DEF IsPartial
  <2>3. op[t].vaddr \in Nat
    BY <1>1, <1>2, CallNumbers
  <2>4. Aligned(op[t].vaddr) => b = op[t].vaddr
    <3>1. /\ op[t].vaddr = RoundDownTo(op[t].vaddr) + OffsetOf(op[t].vaddr)
          /\ RoundDownTo(op[t].vaddr) \in Nat
      BY <2>3, RoundDownBounds
    <3> QED BY <3>1 DEF PieceBase, Aligned
  <2> HIDE DEF b
  <2> QED BY <2>1, <2>2, <2>3, <2>4 DEF Ahead
<1>6. b \notin DOMAIN vm
  BY <1>1, <1>2, <1>5, AheadUnmapped
<1>7. b \notin DOMAIN pagemap /\ b \notin DOMAIN forkmap
  BY <1>1, <1>6 DEF Registered, MapsOK, MemoryTypes
<1> QED
  BY <1>2, <1>3, <1>4, <1>6, <1>7

(* What AllocateChunk does with a slot from the free list: in both cases   *)
(* it maps the piece, at a new frame or at that of its Ppage, because the  *)
(* mremap never fails.                                                     *)
LEMMA MallocPiece ==
  ASSUME HeapInv, NEW t \in Thread, NEW i \in DOMAIN free[t][op[t].cls],
         MallocOwn(t, i) \/ MallocAlias(t, i)
  PROVE  LET c == op[t].cls
             b == PieceBase(t)
             p == free[t][c][i].page 
         IN
         /\ AtPartial(t, "malloc") /\ Advance(t, PieceSlot(t).size) /\ UNCHANGED live
         /\ p \in DOMAIN ppage 
         /\ PageSlot(p, PieceSlot(t)) = free[t][c][i]
         /\ free' = [free EXCEPT ![t][c] = Without(free[t][c], i)]
         /\ held' = Put(held, b, PageSlot(p, PieceSlot(t))) 
         /\ pagemap' = Put(pagemap, b, p)
         /\ \E f : /\ vm' = Put(vm, b, f) 
                   /\ f = frames + 1 \/ \E src \in DOMAIN held : vm[src] = f /\ held[src].page = p
         /\ \E list : /\ PushVpage(p, list, b)
                      /\ \/ IsEmpty(ppage[p]) /\ list = EmptyList
                         \/ ~IsEmpty(ppage[p]) /\ list = ppage[p] /\ ~AliasFaults(list)
<1> DEFINE c == op[t].cls
           b == PieceBase(t)
           slot == PieceSlot(t)
           f == free[t][c][i]
           p == f.page
<1>1. TakeSlot(t, i)
  BY DEF MallocOwn, MallocAlias
<1>2. /\ CacheTypes /\ ListTypes /\ MemoryTypes /\ FreedOK /\ ListsOK /\ MapsOK
      /\ VlistInv /\ Registered
  BY DEF HeapInv, TypeInv, TypeOK, IndexOK, SlotInv
<1>3. AtPartial(t, "malloc") /\ Advance(t, slot.size) /\ UNCHANGED live /\ Fits(f, slot)
      /\ free' = [free EXCEPT ![t][c] = Without(free[t][c], i)]
  BY <1>1 DEF TakeSlot, FirstFit
<1>4. c \in Class
  BY <1>3, MallocBase
<1>5. f \in Freed /\ p \in DOMAIN ppage
  BY <1>2, <1>4 DEF CacheTypes, FreedOK
<1>6. PageSlot(p, slot) = f
  BY <1>3, <1>5 DEF Fits, PageSlot, Freed
<1>7. CASE MallocOwn(t, i)
  <2>1. /\ IsEmpty(ppage[p]) /\ vm' = Put(vm, b, frames + 1) 
        /\ held' = Put(held, b, PageSlot(p, slot))
        /\ PushVpage(p, EmptyList, b)
    BY <1>7 DEF MallocOwn
  <2>2. pagemap' = Put(pagemap, b, p)
    BY <2>1 DEF PushVpage, Register
  <2> QED BY <1>3, <1>5, <1>6, <2>1, <2>2
<1>8. CASE MallocAlias(t, i)
  <2> DEFINE src == vpage[ppage[p].first].addr
  <2>1. ~IsEmpty(ppage[p]) /\ ~AliasFaults(ppage[p])
    BY <1>8 DEF MallocAlias
  <2>2. ppage[p].size > 0 /\ ppage[p].first # Null
    <3>1. ppage[p].size \in Nat
      BY <1>2, <1>5 DEF VlistInv, Counted
    <3>2. ppage[p].size # 0 /\ ppage[p].first # Null
      BY ONLY <2>1 DEF IsEmpty, AliasFaults, Front
    <3> HIDE DEF p
    <3> QED BY ONLY <3>1, <3>2
  <2>3. src \in DOMAIN held /\ held[src].page = p /\ src \in DOMAIN vm
    BY <1>2, <1>5, <2>2, FrontRegistered
  <2>4. /\ vm' = Put(vm, b, vm[src]) /\ held' = Put(held, b, PageSlot(p, slot))
        /\ PushVpage(p, ppage[p], b)
    BY <1>8, <2>3 DEF MallocAlias, Front
  <2>5. pagemap' = Put(pagemap, b, p)
    BY <2>4 DEF PushVpage, Register
  <2> HIDE DEF src
  <2> QED BY <1>3, <1>5, <1>6, <2>1, <2>3, <2>4, <2>5
<1> QED
  BY <1>7, <1>8

(* The parts of SlotInv, with SlotsDisjoint as SlotsApart.                 *)
Parts == PageInv /\ VlistInv /\ SlotsApart /\ SharingWithinPpage

(* The slot invariant by its parts.                                        *)
LEMMA PartsOfSlotInv == SlotInv <=> Parts
  BY ApartDisjoint DEF SlotInv, Parts, PageInv

(* The same, of the next state.                                            *)
LEMMA PartsNext == SlotInv' <=> Parts'
<1>1. SlotInv <=> Parts
  BY PartsOfSlotInv
<1> QED
  BY <1>1, PTL

(* A piece of malloc in a slot from the free list.                         *)
LEMMA MallocPieceParts ==
  ASSUME HeapInv, TypeOK', NEW t \in Thread, NEW i \in DOMAIN free[t][op[t].cls],
         MallocOwn(t, i) \/ MallocAlias(t, i)
  PROVE  Parts'
<1> DEFINE c == op[t].cls
           b == PieceBase(t)
           p == free[t][c][i].page 
           slot == PageSlot(p, PieceSlot(t))
<1>1. /\ AtPartial(t, "malloc") /\ Advance(t, PieceSlot(t).size) /\ UNCHANGED live
      /\ p \in DOMAIN ppage /\ slot = free[t][c][i]
      /\ free' = [free EXCEPT ![t][c] = Without(free[t][c], i)]
      /\ held' = Put(held, b, slot) /\ pagemap' = Put(pagemap, b, p)
  BY MallocPiece
<1>2. PICK f : /\ vm' = Put(vm, b, f) 
               /\ f = frames + 1 \/ \E src \in DOMAIN held : vm[src] = f /\ held[src].page = p
  BY MallocPiece
<1>3. PICK list : /\ PushVpage(p, list, b)
                  /\ \/ IsEmpty(ppage[p]) /\ list = EmptyList
                     \/ ~IsEmpty(ppage[p]) /\ list = ppage[p] /\ ~AliasFaults(list)
  BY MallocPiece
<1>4. /\ TypeOK /\ CacheTypes /\ ListTypes /\ MapTypes /\ MemoryTypes /\ ListsOK /\ MapsOK 
      /\ AddressInv /\ PageInv /\ Registered /\ VlistInv /\ SlotsApart /\ SharingWithinPpage
  BY PartsOfSlotInv DEF HeapInv, TypeInv, TypeOK, IndexOK, Parts, PageInv
<1>5. /\ t \in Mallocing /\ IsPartial(op[t].vaddr, op[t].remain) /\ c \in Class /\ b \in Int
      /\ b \notin DOMAIN vm /\ b \notin DOMAIN pagemap /\ b \notin DOMAIN forkmap
  BY <1>1, MallocBase
<1>6. slot.page = p
  BY DEF PageSlot
<1>7. PageInv'
  BY <1>1, <1>2, <1>4, <1>5, MapPiecePages
<1>8. VlistInv'
  <2> HIDE DEF b, p
  <2> QED BY <1>1, <1>3, <1>4, <1>5, PushKeepsLists
<1>9. SharingWithinPpage'
  <2> HIDE DEF b, p, slot
  <2> QED BY <1>1, <1>2, <1>4, <1>5, <1>6, PieceSharing
<1>10. SlotsApart'
  <2>1. DOMAIN pagemap \subseteq DOMAIN held
    BY <1>4 DEF Registered
  <2> QED BY <1>1, <1>4, <1>5, <2>1, SlotTaken
<1> QED
  BY <1>7, <1>8, <1>9, <1>10 DEF Parts

(* The slots a new Ppage offers, with the number of the Ppage.             *)
LEMMA PageSlotsType ==
  ASSUME NEW p \in Nat, NEW more \in Seq([offset : Nat, size : Nat]),
         NEW fresh, fresh = [k \in DOMAIN more |-> PageSlot(p, more[k])]
  PROVE  /\ fresh \in Seq(Freed) /\ DOMAIN fresh = DOMAIN more
         /\ \A k \in DOMAIN fresh : /\ fresh[k].page = p
                                    /\ fresh[k].offset = more[k].offset 
                                    /\ fresh[k].size = more[k].size
<1> DEFINE R == [offset : Nat, size : Nat]
<1> HIDE DEF R
<1>1. more \in Seq(R)
  BY DEF R
<1>2. ASSUME NEW k \in DOMAIN more
      PROVE  /\ fresh[k] \in Freed /\ fresh[k].page = p
             /\ fresh[k].offset = more[k].offset /\ fresh[k].size = more[k].size
  <2>1. more[k] \in R
    BY ONLY <1>1, k \in DOMAIN more
  <2>2. fresh[k] = [page |-> p, offset |-> more[k].offset, size |-> more[k].size]
    BY DEF PageSlot
  <2> QED BY <2>1, <2>2 DEF Freed, R
<1>3. DOMAIN fresh = DOMAIN more
  OBVIOUS
<1>4. DOMAIN more = 1..Len(more) /\ Len(more) \in Nat
  BY ONLY <1>1
<1>5. fresh = [k \in 1..Len(more) |-> fresh[k]]
  BY <1>4
<1>6. fresh \in Seq(Freed)
  BY ONLY <1>2, <1>4, <1>5
<1> QED
  BY <1>2, <1>3, <1>6

(* A piece of malloc in a new Ppage, whose other slots become available.   *)
LEMMA MallocFreshParts ==
  ASSUME HeapInv, TypeOK', NEW t \in Thread, MallocFresh(t)
  PROVE  Parts'
<1> DEFINE c == op[t].cls
           b == PieceBase(t)
           p == Len(ppage) + 1
           slot == PageSlot(p, PieceSlot(t))
           more == Populate(PieceSlot(t).offset, ClassSize[c])
           fresh == [k \in DOMAIN more |-> PageSlot(p, more[k])]
<1>1. /\ AtPartial(t, "malloc") /\ Advance(t, PieceSlot(t).size) /\ UNCHANGED live
      /\ vm' = Put(vm, b, frames + 1) /\ held' = Put(held, b, slot) 
      /\ ppage' = Append(ppage, EmptyList) 
      /\ vpage' = Append(vpage, NewVpage(b, p)) /\ Register(b, Len(vpage) + 1, p)
      /\ free' = [free EXCEPT ![t][c] = free[t][c] \o fresh]
  BY DEF MallocFresh
<1>2. PICK link \in StaleLinks : prev' = Append(prev, link) /\ next' = Append(next, link)
  BY DEF MallocFresh
<1>3. pagemap' = Put(pagemap, b, p)
  BY <1>1 DEF Register
<1>4. /\ TypeOK /\ CacheTypes /\ ListTypes /\ MapTypes /\ MemoryTypes /\ ListsOK /\ MapsOK 
      /\ AddressInv /\ PageInv /\ Registered /\ VlistInv /\ SlotsApart /\ SharingWithinPpage
      /\ FreedOK
  BY PartsOfSlotInv DEF HeapInv, TypeInv, TypeOK, IndexOK, Parts, PageInv
<1>5. /\ t \in Mallocing /\ IsPartial(op[t].vaddr, op[t].remain) /\ c \in Class /\ b \in Int
      /\ PieceSlot(t).offset \in Nat /\ PieceSlot(t).offset < PageSize
      /\ PieceSlot(t).size \in Nat /\ PieceSlot(t).size <= ClassSize[c]
      /\ ClassSize[c] \in Nat \ {0}
      /\ b \notin DOMAIN vm /\ b \notin DOMAIN pagemap /\ b \notin DOMAIN forkmap
  BY <1>1, MallocBase
<1>6. /\ p \in Nat /\ p \notin DOMAIN ppage
  BY <1>4 DEF ListTypes
<1> HIDE DEF c, b, p, more
<1>7. PageInv'
  BY <1>1, <1>3, <1>4, <1>5, MapPiecePages DEF b
<1>8. VlistInv'
  BY <1>1, <1>2, <1>4, <1>5, NewPpageKeepsLists DEF p
<1>9. SharingWithinPpage'
  <2>1. frames + 1 = frames + 1
    OBVIOUS
  <2> HIDE DEF slot
  <2> QED BY <1>1, <1>4, <1>5, <2>1, PieceSharing
<1>10. SlotsApart'
  <2>1. /\ more \in Seq([offset : Nat, size : Nat])
        /\ \A k \in DOMAIN more : 
             DisjointSlots(Slot(PieceSlot(t).offset, PieceSlot(t).size), more[k])
        /\ \A j, k \in DOMAIN more : j # k => DisjointSlots(more[j], more[k])
    BY <1>5, PopulateType, PopulateApart DEF more
  <2>2. /\ \A k \in DOMAIN fresh : /\ fresh[k].page = p
                                   /\ fresh[k].offset = more[k].offset 
                                   /\ fresh[k].size = more[k].size
        /\ DOMAIN fresh = DOMAIN more /\ fresh \in Seq(Freed)
    <3>1. fresh = [k \in DOMAIN more |-> PageSlot(p, more[k])]
      OBVIOUS
    <3> HIDE DEF fresh
    <3> QED BY <1>6, <2>1, <3>1, PageSlotsType
  <2>3. fresh \in Seq(Freed)
    BY <2>2
  <2>4. /\ slot.page = p /\ slot.offset = PieceSlot(t).offset /\ slot.size = PieceSlot(t).size
    BY DEF PageSlot
  <2> HIDE DEF fresh, slot
  <2>5. /\ \A k \in DOMAIN fresh : DisjointSlots(slot, fresh[k])
        /\ \A j, k \in DOMAIN fresh : j # k => DisjointSlots(fresh[j], fresh[k])
    BY <2>1, <2>2, <2>4 DEF DisjointSlots, Slot
  <2>6. \A d \in DOMAIN pagemap : held[d].page # p
    BY <1>4, <1>6 DEF Registered, MapsOK
  <2>7. \A u \in Thread, d \in Class : \A j \in DOMAIN free[u][d] : free[u][d][j].page # p
    BY <1>4, <1>6 DEF FreedOK
  <2>8. DOMAIN pagemap \subseteq DOMAIN held
    BY <1>4 DEF Registered
  <2>9. NewSlots(t, c, p, fresh, slot, b)
    BY <1>1, <1>3, <1>5, <2>2, <2>4, <2>5, <2>6, <2>7, <2>8 DEF NewSlots
  <2>10. CacheTypes /\ SlotsApart /\ c \in Class
    BY <1>4, <1>5
  <2> QED 
    BY <2>3, <2>9, <2>10, SlotsCreated
<1> QED
  BY <1>7, <1>8, <1>9, <1>10 DEF Parts

(* What DeallocateChunk does with a partial piece: the slot that was held  *)
(* for its page goes to the free list of the thread.                       *)
LEMMA FreePiece ==
  ASSUME HeapInv, NEW t \in Thread, FreePartial(t)
  PROVE  LET c == op[t].cls
             b == PieceBase(t)
         IN
         /\ AtPartial(t, "free") /\ c \in Class
         /\ b \in DOMAIN forkmap /\ b \in DOMAIN pagemap
         /\ held[b] \in Freed /\ held[b].page = pagemap[b]
         /\ ~RemoveFaults(ppage[pagemap[b]], prev, next, forkmap[b])
         /\ forkmap' = Drop(forkmap, {b}) /\ pagemap' = Drop(pagemap, {b})
         /\ free' = [free EXCEPT ![t][c] = Append(free[t][c], held[b])]
         /\ UNCHANGED <<vpage, vm, frames, held, live>>
<1> DEFINE c == op[t].cls
           b == PieceBase(t)
           p == pagemap[b]
<1>1. /\ AtPartial(t, "free") /\ Known(b) 
      /\ ~RemoveFaults(ppage[p], prev, next, forkmap[b])
      /\ forkmap' = Drop(forkmap, {b}) /\ pagemap' = Drop(pagemap, {b})
      /\ free' = [free EXCEPT ![t][c] = Append(free[t][c], PageSlot(p, PieceSlot(t)))]
      /\ UNCHANGED <<vpage, vm, frames, held, live>>
  BY DEF FreePartial, Unregister, memoryVars
<1>2. TypeOK /\ MemoryTypes /\ CallOK /\ Registered /\ HeldGeometry 
  BY DEF HeapInv, TypeInv, TypeOK, SlotInv, AddressInv
<1>3. t \in Busy /\ IsPartial(op[t].vaddr, op[t].remain) /\ c \in Class
      /\ b \in DOMAIN forkmap /\ b \in DOMAIN pagemap
  BY <1>1, <1>2 DEF AtPartial, Busy, Known, TypeOK, CallTypes, Call
<1>4. held[b] \in Freed /\ held[b].page = p
  BY <1>2, <1>3 DEF Registered, MemoryTypes
<1>5. SameBytes(held[b], SlotIn(InCall(t), b))
  BY <1>2, <1>3, PieceInChunk DEF HeldGeometry, Registered
<1>6. SameBytes(PieceSlot(t), SlotIn(InCall(t), b))
  BY <1>2, <1>3, PieceBytes
<1>7. PageSlot(p, PieceSlot(t)) = held[b]
  BY <1>4, <1>5, <1>6 DEF SameBytes, PageSlot, Freed
<1> QED
  BY <1>1, <1>3, <1>4, <1>7

(* A piece of free: the slot goes to the free list of the thread.          *)
LEMMA FreePartialParts ==
  ASSUME HeapInv, TypeOK', NEW t \in Thread, FreePartial(t)
  PROVE  Parts'
<1> DEFINE c == op[t].cls
           b == PieceBase(t)
           p == pagemap[b]
<1>1. /\ c \in Class /\ b \in DOMAIN forkmap /\ b \in DOMAIN pagemap
      /\ held[b] \in Freed /\ ~RemoveFaults(ppage[p], prev, next, forkmap[b])
      /\ forkmap' = Drop(forkmap, {b}) /\ pagemap' = Drop(pagemap, {b})
      /\ free' = [free EXCEPT ![t][c] = Append(free[t][c], held[b])]
      /\ UNCHANGED <<vpage, vm, held>>
  BY FreePiece
<1>2. PICK r : /\ r = Remove(ppage[p], prev, next, forkmap[b])
               /\ ppage' = [ppage EXCEPT ![p] = r.list] /\ prev' = r.prev /\ next' = r.next
  BY DEF FreePartial
<1>3. /\ TypeOK /\ CacheTypes /\ ListTypes /\ MapTypes /\ ListsOK /\ MapsOK 
      /\ AddressInv /\ PageInv /\ VlistInv /\ SlotsApart /\ SharingWithinPpage
  BY PartsOfSlotInv DEF HeapInv, TypeInv, TypeOK, IndexOK, Parts, PageInv
<1>4. PageInv'
  BY <1>3, FreePartialPages
<1> HIDE DEF b
<1>5. VlistInv'
  BY <1>1, <1>2, <1>3, RemoveKeepsLists
<1>6. SharingWithinPpage'
  BY <1>1, <1>3 DEF SharingWithinPpage
<1>7. SlotsApart'
  BY <1>1, <1>3, SlotReturned
<1> QED
  BY <1>4, <1>5, <1>6, <1>7 DEF Parts

(* The end of free: the slots of the chunk were given back before.         *)
LEMMA FinishFreeParts ==
  ASSUME HeapInv, TypeOK', NEW t \in Thread, FinishFree(t)
  PROVE  Parts'
<1> DEFINE gone == PagesOf(op[t].beg, ClassSize[op[t].cls])
<1>1. /\ AtEnd(t, "free") /\ vm' = Drop(vm, gone) /\ held' = Drop(held, gone)
      /\ UNCHANGED <<free, listVars, mapVars>>
  BY DEF FinishFree, cacheVars
<1>2. /\ TypeOK /\ MemoryTypes /\ AddressInv /\ CallOK /\ PageInv /\ Registered 
      /\ VlistInv /\ SlotsApart /\ SharingWithinPpage
  BY PartsOfSlotInv DEF HeapInv, TypeInv, TypeOK, Parts, PageInv, AddressInv
<1>3. t \in Busy /\ t \in Freeing /\ gone = Pages(InCall(t))
  BY <1>1 DEF AtEnd, Busy, Freeing, Pages, InCall
<1>4. \A b \in gone : ~Ahead(t, b)
  <2>1. /\ op[t].beg \in Nat /\ op[t].vaddr \in Nat /\ op[t].remain = 0
        /\ op[t].cls \in Class /\ ClassSize[op[t].cls] \in Nat \ {0}
        /\ op[t].vaddr + op[t].remain = op[t].beg + ClassSize[op[t].cls]
        /\ \A b \in gone : b \in Nat /\ b < op[t].beg + ClassSize[op[t].cls]
    BY <1>1, <1>2, <1>3, CallNumbers DEF AtEnd
  <2> HIDE DEF gone
  <2> QED BY <2>1 DEF Ahead
<1> HIDE DEF gone
<1>5. \A b \in DOMAIN pagemap : b \in DOMAIN held /\ b \notin gone
  BY <1>2, <1>3, <1>4 DEF Registered
<1>6. PageInv'
  BY <1>2, FinishFreePages
<1>7. VlistInv'
  BY <1>1, <1>2, ListsKept
<1>8. SlotsApart'
  <2>1. \A b \in DOMAIN pagemap : held'[b] = held[b]
    BY <1>1, <1>5 DEF Drop
  <2>2. UNCHANGED <<free, pagemap>>
    BY <1>1 DEF mapVars
  <2> QED BY <1>2, <2>1, <2>2, SlotsKept
<1>9. SharingWithinPpage'
  <2>1. /\ DOMAIN vm' = DOMAIN vm \ gone /\ DOMAIN held' = DOMAIN held \ gone
        /\ \A b \in DOMAIN vm' : vm'[b] = vm[b]
        /\ \A b \in DOMAIN held' : held'[b] = held[b]
    BY <1>1 DEF Drop
  <2> SUFFICES ASSUME NEW b \in DOMAIN vm', NEW d \in DOMAIN vm', b # d, vm'[b] = vm'[d]
               PROVE  {b, d} \subseteq DOMAIN held' /\ held'[b].page = held'[d].page
    BY DEF SharingWithinPpage
  <2>2. {b, d} \subseteq DOMAIN held /\ held[b].page = held[d].page
    BY <1>2, <2>1 DEF SharingWithinPpage
  <2> QED BY <2>1, <2>2
<1> QED
  BY <1>6, <1>7, <1>8, <1>9 DEF Parts

(* A step that leaves slots, lists and page table alone.                   *)
LEMMA PartsKept ==
  ASSUME Parts, PageInv', UNCHANGED <<free, listVars, mapVars, vm, held>>
  PROVE  Parts'
<1>1. VlistInv'
  BY ListsKept DEF Parts
<1>2. SlotsApart'
  BY SlotsKept DEF Parts, mapVars
<1>3. SharingWithinPpage'
  BY DEF Parts, SharingWithinPpage
<1> QED
  BY <1>1, <1>2, <1>3 DEF Parts

(* Every step keeps the slot invariant.                                    *)
LEMMA SlotStep ==
  ASSUME HeapInv, TypeInv', AddressInv', [Next]_vars
  PROVE  SlotInv'
<1>1. TypeOK /\ TypeOK' /\ AddressInv /\ Parts /\ PageInv /\ op \in [Thread -> Call]
      /\ CacheTypes
  BY PartsOfSlotInv DEF HeapInv, TypeInv, Parts, TypeOK, CallTypes
<1>2. ASSUME UNCHANGED <<live, op, free, listVars, mapVars, vm, held>> PROVE Parts'
  BY <1>1, <1>2, PagesUnchanged, PartsKept DEF mapVars
<1>3. CASE UNCHANGED vars
  BY <1>2, <1>3, PartsNext DEF vars, cacheVars, memoryVars
<1>4. ASSUME NEW how, Die(how) PROVE Parts'
  BY <1>2, <1>4 DEF Die, cacheVars, memoryVars
<1>5. ASSUME NEW t \in Thread, NEW c \in Class, StartMalloc(t, c) PROVE Parts'
  <2>1. /\ op[t].kind = "idle" /\ op' = [op EXCEPT ![t] = NewCall("malloc", c, lower[t][c])]
        /\ UNCHANGED <<live, held, pagemap, vm, free, listVars, mapVars>>
    BY <1>5 DEF StartMalloc, cacheVars, memoryVars, mapVars
  <2>2. lower[t][c] \in Nat
    BY <1>1 DEF CacheTypes
  <2>3. PageInv'
    BY <1>1, <2>1, <2>2, NewMallocPages
  <2> QED BY <1>1, <2>1, <2>3, PartsKept
<1>6. ASSUME NEW t \in Thread, NEW c \in Class, Refill(t, c) PROVE Parts'
  <2>1. /\ op[t].kind = "idle" /\ op' = [op EXCEPT ![t] = NewCall("malloc", c, NextRange(c))]
        /\ UNCHANGED <<live, held, pagemap, vm, free, listVars, mapVars>>
    BY <1>6 DEF Refill, memoryVars, mapVars
  <2>2. NextRange(c) \in Nat
    BY <1>1, Regions
  <2>3. PageInv'
    BY <1>1, <2>1, <2>2, NewMallocPages
  <2> QED BY <1>1, <2>1, <2>3, PartsKept
<1>7. ASSUME NEW t \in Thread, MallocWhole(t) PROVE Parts'
  <2>1. PageInv' /\ SharingWithinPpage'
    BY <1>1, <1>7, MallocWholePages, WholeSharing DEF Parts
  <2>2. UNCHANGED <<free, listVars, mapVars, pagemap, held>>
    BY <1>7 DEF MallocWhole, cacheVars, mapVars
  <2>3. VlistInv' /\ SlotsApart'
    BY <1>1, <2>2, ListsKept, SlotsKept DEF Parts
  <2> QED BY <2>1, <2>3 DEF Parts
<1>8. ASSUME NEW t \in Thread, FinishMalloc(t) PROVE Parts'
  BY <1>1, <1>8, FinishMallocPages, PartsKept DEF FinishMalloc, memoryVars
<1>9. ASSUME NEW t \in Thread, StartFree(t) PROVE Parts'
  BY <1>1, <1>9, StartFreePages, PartsKept DEF StartFree, memoryVars, cacheVars
<1>10. ASSUME NEW t \in Thread, FreeWhole(t) PROVE Parts'
  BY <1>1, <1>10, FreeWholePages, PartsKept DEF FreeWhole, memoryVars, cacheVars
<1>11. ASSUME NEW t \in Thread, Malloc(t) PROVE Parts'
  BY <1>1, <1>4, <1>5, <1>6, <1>7, <1>8, <1>11, MallocPieceParts, MallocFreshParts 
     DEF Malloc, Exhausted, MallocDies
<1>12. ASSUME NEW t \in Thread, Free(t) PROVE Parts'
  BY <1>1, <1>4, <1>9, <1>10, <1>12, FreePartialParts, FinishFreeParts DEF Free, FreeDies
<1> QED
  BY <1>3, <1>11, <1>12, PartsNext DEF Next

(* Every step keeps the inductive invariant of the heap.                   *)
LEMMA HeapInvStep == HeapInv /\ [Next]_vars => HeapInv'
<1>1. HeapInv /\ [Next]_vars => TypeInv' /\ AddressInv'
  BY TypeStep, AddressStep DEF HeapInv
<1> QED
  BY <1>1, SlotStep DEF HeapInv

(* It holds of the empty heap.                                             *)
LEMMA HeapInvInit == Init => HeapInv
<1> SUFFICES ASSUME Init PROVE SlotInv
  BY TypeInit, AddressInit DEF HeapInv
<1>1. /\ DOMAIN held = {} /\ DOMAIN pagemap = {} /\ DOMAIN forkmap = {} /\ DOMAIN vm = {}
      /\ DOMAIN ppage = {} /\ DOMAIN vpage = {} /\ live = {}
      /\ Busy = {} /\ Freeing = {} /\ Mallocing = {}
      /\ \A t \in Thread, c \in Class : DOMAIN free[t][c] = {}
  BY DEF Init, Busy, Freeing, Mallocing, Idle
<1>2. HeldGeometry /\ Registered /\ Covered /\ SharingWithinPpage
  BY <1>1 DEF HeldGeometry, Registered, Covered, SharingWithinPpage
<1>3. VlistInv
  BY <1>1 DEF VlistInv, EntriesAgree, LinksInUse, EndsInUse, Counted
<1>4. SlotsDisjoint
  BY <1>1 DEF SlotsDisjoint
<1> QED
  BY <1>2, <1>3, <1>4 DEF SlotInv

(* The whole invariant of the heap holds in every state, for all numbers   *)
(* of threads, class sizes and page sizes: the addresses, slots and vlists *)
(* of AllocateChunk and DeallocateChunk stay together.                     *)
THEOREM HeapInvariantHolds == Spec => []HeapInv
  BY HeapInvInit, HeapInvStep, PTL DEF Spec

(***************************************************************************)
(* What follows from the invariant.                                        *)
(***************************************************************************)
(* No two slots of a Ppage overlap, be they in use or in free lists of any *)
(* threads: AllocateChunk never puts two chunks on the same bytes.         *)
THEOREM SlotsAreDisjoint == Spec => []SlotsDisjoint
<1>1. HeapInv => SlotsDisjoint
  BY DEF HeapInv, SlotInv
<1> QED
  BY <1>1, HeapInvariantHolds, PTL

(* Forkmap, Pagemap and the Vpages speak of the same pages, although one   *)
(* map is written after the other (RegisterVpage, UnregisterVpage).        *)
THEOREM TheMapsAgree == Spec => []MapsAgree
<1>1. HeapInv => MapsAgree
  BY DEF HeapInv, TypeInv, IndexOK, MapsOK, SlotInv, VlistInv, EntriesAgree, Registered, MapsAgree
<1> QED
  BY <1>1, HeapInvariantHolds, PTL

(* The page at the front of a vlist is mapped, registered and of that very *)
(* Ppage, so the mremap of AllocateChunk always finds a page to alias.     *)
THEOREM FrontIsInUse == Spec => []FrontInUse
<1>1. HeapInv => FrontInUse
  <2> SUFFICES ASSUME HeapInv, NEW p \in DOMAIN ppage, 
                      ppage[p].size > 0, ppage[p].first # Null
               PROVE  LET b == vpage[ppage[p].first].addr
                      IN  b \in DOMAIN vm /\ b \in DOMAIN pagemap /\ pagemap[b] = p
    BY DEF FrontInUse
  <2> QED 
    BY FrontRegistered DEF HeapInv, TypeInv, TypeOK, IndexOK, SlotInv
<1> QED
  BY <1>1, HeapInvariantHolds, PTL

(* What malloc returned is mapped to its last page, and nothing is mapped  *)
(* that no chunk owns: the red zones stay inaccessible.                    *)
THEOREM ChunksAreMapped == Spec => []ExactlyMapped
<1>1. HeapInv => ExactlyMapped
  <2> SUFFICES ASSUME HeapInv PROVE ExactlyMapped
    OBVIOUS
  <2>1. Covered /\ MappedOwned
    BY DEF HeapInv, SlotInv, AddressInv
  <2>2. Freeing \subseteq Busy /\ Mallocing \subseteq Busy
    BY DEF Freeing, Mallocing, Busy
  <2>3. \A t : Reached(t) \subseteq Pages(InCall(t))
    BY DEF Reached
  <2> QED BY <2>1, <2>2, <2>3 DEF Covered, MappedOwned, ExactlyMapped
<1> QED
  BY <1>1, HeapInvariantHolds, PTL

(* A vlist misses at most one of the registered pages of its Ppage: it can *)
(* pass for empty while a page is left, but never while two are.           *)
THEOREM AtMostOneMissed == Spec => []MissesAtMostOne
<1>1. HeapInv => MissesAtMostOne
  BY DEF HeapInv, SlotInv, VlistInv, Counted, RegisteredFor, MissesAtMostOne
<1> QED
  BY <1>1, HeapInvariantHolds, PTL

(* The page of a partial piece that free comes to is in both maps.         *)
LEMMA PieceKnown ==
  ASSUME HeapInv, NEW t \in Thread, AtPartial(t, "free")
  PROVE  Known(PieceBase(t)) /\ PieceBase(t) \in Pages(InCall(t))
<1>1. TypeOK /\ CallOK /\ Covered /\ MapsOK
  BY DEF HeapInv, TypeInv, IndexOK, AddressInv, SlotInv
<1>2. t \in Freeing /\ t \in Busy /\ IsPartial(op[t].vaddr, op[t].remain)
  BY DEF AtPartial, Freeing, Busy
<1>3. PieceBase(t) \in Pages(InCall(t)) /\ Partial(InCall(t), PieceBase(t))
  BY <1>1, <1>2, PieceInChunk, PieceBytes
<1>4. Ahead(t, PieceBase(t))
  <2>1. op[t].vaddr \in Nat /\ (op[t].vaddr = op[t].beg \/ Aligned(op[t].vaddr))
    BY <1>1, <1>2, CallNumbers DEF IsPartial
  <2>2. /\ op[t].vaddr = RoundDownTo(op[t].vaddr) + OffsetOf(op[t].vaddr)
        /\ RoundDownTo(op[t].vaddr) \in Nat
    BY <2>1, RoundDownBounds
  <2>3. CASE Aligned(op[t].vaddr)
    <3>1. PieceBase(t) = op[t].vaddr
      BY <2>2, <2>3 DEF PieceBase, Aligned
    <3> QED BY <2>1, <3>1 DEF Ahead
  <2> QED BY <2>1, <2>3 DEF Ahead
<1>5. PieceBase(t) \in DOMAIN pagemap
  BY <1>1, <1>2, <1>3, <1>4 DEF Covered
<1> QED
  BY <1>1, <1>3, <1>5 DEF Known, MapsOK

(* The CHECK_NEs of DeallocateChunk never fail.                            *)
THEOREM TheChecksHold == Spec => []ChecksHold
<1>1. HeapInv /\ ChecksHold /\ [Next]_vars => ChecksHold'
  <2> SUFFICES ASSUME HeapInv, ChecksHold, [Next]_vars PROVE ChecksHold'
    OBVIOUS
  <2>1. CASE UNCHANGED fate
    BY <2>1 DEF ChecksHold
  <2>2. ASSUME NEW t \in Thread, Malloc(t) PROVE UNCHANGED fate \/ fate' \in {"exhausted", "bad_deref"}
    BY <2>2 DEF Malloc, StartMalloc, Refill, Exhausted, MallocOwn, MallocAlias, TakeSlot, 
                MallocDies, MallocFresh, MallocWhole, FinishMalloc, Die
  <2>3. ASSUME NEW t \in Thread, Free(t), ~UNCHANGED fate PROVE fate' = "bad_deref"
    <3>1. FreeDies(t)
      BY <2>3 DEF Free, StartFree, FreePartial, FreeWhole, FinishFree
    <3>2. Known(PieceBase(t))
      BY <3>1, PieceKnown DEF FreeDies
    <3> QED BY <3>1, <3>2 DEF FreeDies, Die
  <2>4. UNCHANGED vars => UNCHANGED fate
    BY DEF vars
  <2> QED BY <2>1, <2>2, <2>3, <2>4 DEF Next, ChecksHold
<1>2. Init => ChecksHold
  BY DEF Init, ChecksHold
<1> QED
  BY <1>1, <1>2, HeapInvariantHolds, PTL DEF Spec

(***************************************************************************)
(* Slots move between the pages in use and the free lists.                 *)
(***************************************************************************)
(* The slots of Ppage p, in use or free, one by one.                       *)
HasSlot(p, s) ==
  \/ \E b \in DOMAIN pagemap : 
       b \in DOMAIN held /\ pagemap[b] = p /\ s = <<held[b].offset, held[b].size>>
  \/ \E t \in Thread, c \in Class : \E i \in DOMAIN free[t][c] : 
       free[t][c][i].page = p /\ s = <<free[t][c][i].offset, free[t][c][i].size>>

(* A slot of a Ppage, as a predicate.                                      *)
LEMMA SlotsOfMember ==
  ASSUME NEW p, NEW s
  PROVE  /\ s \in SlotsOf(p) <=> HasSlot(p, s)
         /\ s \in SlotsOf(p)' <=> HasSlot(p, s)'
<1>1. s \in SlotsOf(p) <=> HasSlot(p, s)
  <2> DEFINE A == {<<held[b].offset, held[b].size>> : 
                     b \in {d \in DOMAIN pagemap : d \in DOMAIN held /\ pagemap[d] = p}}
             B(t, c) == {<<free[t][c][i].offset, free[t][c][i].size>> :
                           i \in {j \in DOMAIN free[t][c] : free[t][c][j].page = p}}
  <2>1. SlotsOf(p) = A \cup UNION {B(t, c) : t \in Thread, c \in Class}
    BY DEF SlotsOf
  <2>2. s \in A <=> \E b \in DOMAIN pagemap : b \in DOMAIN held /\ pagemap[b] = p 
                                                /\ s = <<held[b].offset, held[b].size>>
    OBVIOUS
  <2>3. \A t \in Thread, c \in Class : 
          s \in B(t, c) <=> \E i \in DOMAIN free[t][c] : 
                              /\ free[t][c][i].page = p 
                              /\ s = <<free[t][c][i].offset, free[t][c][i].size>>
    OBVIOUS
  <2> HIDE DEF A, B
  <2>4. s \in UNION {B(t, c) : t \in Thread, c \in Class} 
          <=> \E t \in Thread, c \in Class : s \in B(t, c)
    OBVIOUS
  <2> QED BY <2>1, <2>2, <2>3, <2>4 DEF HasSlot
<1>2. (s \in SlotsOf(p) <=> HasSlot(p, s))'
  BY <1>1, PTL
<1> QED
  BY <1>1, <1>2

(* The slots of a Ppage stay when no entry and no free list changes.       *)
LEMMA SlotsStay ==
  ASSUME NEW p, UNCHANGED <<free, pagemap>>, DOMAIN pagemap \subseteq DOMAIN held,
         \A b \in DOMAIN pagemap : b \in DOMAIN held' /\ held'[b] = held[b]
  PROVE  SlotsOf(p)' = SlotsOf(p)
<1>1. \A s : HasSlot(p, s)' <=> HasSlot(p, s)
  BY DEF HasSlot
<1> QED
  BY <1>1, SlotsOfMember

(* They stay when malloc takes one of them from a free list.               *)
LEMMA SlotsStayTaken ==
  ASSUME CacheTypes, NEW p, NEW t \in Thread, NEW c \in Class, NEW i \in DOMAIN free[t][c], 
         NEW b, b \notin DOMAIN pagemap, DOMAIN pagemap \subseteq DOMAIN held,
         free' = [free EXCEPT ![t][c] = Without(free[t][c], i)],
         held' = Put(held, b, free[t][c][i]), 
         pagemap' = Put(pagemap, b, free[t][c][i].page)
  PROVE  SlotsOf(p)' = SlotsOf(p)
<1> DEFINE list == free[t][c]
           rest == Without(list, i)
           slot == list[i]
           Is(f, s) == f.page = p /\ s = <<f.offset, f.size>>
<1>1. list \in Seq(Freed) /\ free \in [Thread -> [Class -> Seq(Freed)]]
  BY DEF CacheTypes
<1>2. /\ \A j \in DOMAIN rest : Place(i, j) \in DOMAIN list /\ rest[j] = list[Place(i, j)]
      /\ \A k \in DOMAIN list : k # i => \E j \in DOMAIN rest : Place(i, j) = k
  BY <1>1, WithoutPlace
<1>3. \A u \in Thread, d \in Class : 
        free'[u][d] = IF u = t /\ d = c THEN rest ELSE free[u][d]
  BY <1>1
<1>4. /\ DOMAIN pagemap' = DOMAIN pagemap \cup {b} /\ DOMAIN held' = DOMAIN held \cup {b}
      /\ held'[b] = slot /\ pagemap'[b] = slot.page
      /\ \A d \in DOMAIN pagemap : d # b /\ held'[d] = held[d] /\ pagemap'[d] = pagemap[d]
  BY DEF Put
<1> HIDE DEF list, rest, slot
<1>5. ASSUME NEW s 
      PROVE  (\E j \in DOMAIN list : Is(list[j], s)) 
               <=> (Is(slot, s) \/ \E j \in DOMAIN rest : Is(rest[j], s))
  <2>1. ASSUME NEW j \in DOMAIN list, Is(list[j], s)
        PROVE  Is(slot, s) \/ \E k \in DOMAIN rest : Is(rest[k], s)
    <3>1. CASE j = i
      BY <2>1, <3>1 DEF slot
    <3>2. CASE j # i
      <4>1. PICK k \in DOMAIN rest : Place(i, k) = j
        BY <1>2, <3>2
      <4>2. rest[k] = list[j]
        BY <1>2, <4>1
      <4> QED BY <2>1, <4>2
    <3> QED BY <3>1, <3>2
  <2>2. ASSUME NEW j \in DOMAIN rest, Is(rest[j], s)
        PROVE  \E k \in DOMAIN list : Is(list[k], s)
    BY <1>2, <2>2
  <2>3. ASSUME Is(slot, s) PROVE \E k \in DOMAIN list : Is(list[k], s)
    BY <2>3 DEF slot, list
  <2> QED BY <2>1, <2>2, <2>3
<1> DEFINE InHeld(s) == \E d \in DOMAIN pagemap : 
                          pagemap[d] = p /\ s = <<held[d].offset, held[d].size>>
           InList(u, d, s) == \E j \in DOMAIN free[u][d] : Is(free[u][d][j], s)
           InHeldNext(s) == \E d \in DOMAIN pagemap' : 
                          pagemap'[d] = p /\ s = <<held'[d].offset, held'[d].size>>
           InListNext(u, d, s) == \E j \in DOMAIN free'[u][d] : Is(free'[u][d][j], s)
<1>6. \A s : /\ HasSlot(p, s) <=> (InHeld(s) \/ \E u \in Thread, d \in Class : InList(u, d, s))
             /\ HasSlot(p, s)' <=> (InHeldNext(s) \/ \E u \in Thread, d \in Class : InListNext(u, d, s))
  BY <1>4 DEF HasSlot
<1>7. ASSUME NEW s 
      PROVE  InHeldNext(s) <=> (InHeld(s) \/ Is(slot, s))
  <2>1. ASSUME InHeldNext(s) PROVE InHeld(s) \/ Is(slot, s)
    <3>1. PICK d \in DOMAIN pagemap' : pagemap'[d] = p /\ s = <<held'[d].offset, held'[d].size>>
      BY <2>1
    <3>2. CASE d = b
      BY <1>4, <3>1, <3>2
    <3>3. CASE d # b
      BY <1>4, <3>1, <3>3
    <3> QED BY <3>2, <3>3
  <2>2. ASSUME InHeld(s) PROVE InHeldNext(s)
    <3>1. PICK d \in DOMAIN pagemap : pagemap[d] = p /\ s = <<held[d].offset, held[d].size>>
      BY <2>2
    <3>2. /\ d \in DOMAIN pagemap' /\ pagemap'[d] = p
          /\ s = <<held'[d].offset, held'[d].size>>
      BY ONLY <1>4, <3>1
    <3> QED BY ONLY <3>2
  <2>3. ASSUME Is(slot, s) PROVE InHeldNext(s)
    <3>1. /\ b \in DOMAIN pagemap' /\ pagemap'[b] = p
          /\ s = <<held'[b].offset, held'[b].size>>
      BY ONLY <1>4, <2>3
    <3> QED BY ONLY <3>1
  <2> HIDE DEF Is, InHeld, InHeldNext
  <2> QED BY <2>1, <2>2, <2>3
<1>8. ASSUME NEW s, NEW u \in Thread, NEW d \in Class, <<u, d>> # <<t, c>> 
      PROVE  InListNext(u, d, s) <=> InList(u, d, s)
  <2>1. free'[u][d] = free[u][d]
    BY <1>3, <1>8
  <2> QED BY ONLY <2>1
<1>9. \A s : InList(t, c, s) <=> (Is(slot, s) \/ InListNext(t, c, s))
  BY <1>3, <1>5 DEF list
<1> HIDE DEF Is, InHeld, InList, InHeldNext, InListNext
<1>10. \A s : HasSlot(p, s)' <=> HasSlot(p, s)
  BY <1>6, <1>7, <1>8, <1>9
<1> QED
  BY <1>10, SlotsOfMember

(* They stay when free returns one of them.                                *)
LEMMA SlotsStayReturned ==
  ASSUME CacheTypes, NEW p, NEW t \in Thread, NEW c \in Class, 
         NEW b \in DOMAIN pagemap, held[b] \in Freed, held[b].page = pagemap[b],
         DOMAIN pagemap \subseteq DOMAIN held,
         free' = [free EXCEPT ![t][c] = Append(free[t][c], held[b])],
         UNCHANGED held, pagemap' = Drop(pagemap, {b})
  PROVE  SlotsOf(p)' = SlotsOf(p)
<1> DEFINE list == free[t][c]
           slot == held[b]
           more == Append(list, slot)
           n == Len(list) + 1
           Is(f, s) == f.page = p /\ s = <<f.offset, f.size>>
<1>1. list \in Seq(Freed) /\ free \in [Thread -> [Class -> Seq(Freed)]]
  BY DEF CacheTypes
<1>2. /\ DOMAIN more = DOMAIN list \cup {n} /\ more[n] = slot 
      /\ \A j \in DOMAIN list : more[j] = list[j]
  <2> HIDE DEF list, slot
  <2>1. slot \in Freed
    BY DEF slot
  <2> QED BY <1>1, <2>1
<1>3. \A u \in Thread, d \in Class : 
        free'[u][d] = IF u = t /\ d = c THEN more ELSE free[u][d]
  BY <1>1
<1>4. /\ DOMAIN pagemap' = DOMAIN pagemap \ {b}
      /\ \A d \in DOMAIN pagemap' : pagemap'[d] = pagemap[d]
  BY DEF Drop
<1> HIDE DEF list, more, slot, n
<1> DEFINE InHeld(s) == \E d \in DOMAIN pagemap : 
                          pagemap[d] = p /\ s = <<held[d].offset, held[d].size>>
           InList(u, d, s) == \E j \in DOMAIN free[u][d] : Is(free[u][d][j], s)
           InHeldNext(s) == \E d \in DOMAIN pagemap' : 
                          pagemap'[d] = p /\ s = <<held[d].offset, held[d].size>>
           InListNext(u, d, s) == \E j \in DOMAIN free'[u][d] : Is(free'[u][d][j], s)
<1>6. \A s : /\ HasSlot(p, s) <=> (InHeld(s) \/ \E u \in Thread, d \in Class : InList(u, d, s))
             /\ HasSlot(p, s)' <=> (InHeldNext(s) \/ \E u \in Thread, d \in Class : InListNext(u, d, s))
  BY <1>4 DEF HasSlot
<1>7. \A s : InHeld(s) <=> (InHeldNext(s) \/ Is(slot, s))
  BY <1>4 DEF slot
<1>8. \A s : \A u \in Thread, d \in Class : <<u, d>> # <<t, c>> => (InListNext(u, d, s) <=> InList(u, d, s))
  BY <1>3
<1>9. \A s : InListNext(t, c, s) <=> (Is(slot, s) \/ InList(t, c, s))
  <2>1. free'[t][c] = more
    BY <1>3
  <2> QED BY <1>2, <2>1 DEF list
<1> HIDE DEF Is, InHeld, InList, InHeldNext, InListNext
<1>10. \A s : HasSlot(p, s)' <=> HasSlot(p, s)
  BY <1>6, <1>7, <1>8, <1>9
<1> QED
  BY <1>10, SlotsOfMember

(* They stay when another Ppage appears.                                   *)
LEMMA SlotsStayCreated ==
  ASSUME CacheTypes, NEW p, NEW t \in Thread, NEW c \in Class, NEW q, q # p,
         NEW fresh \in Seq(Freed), \A k \in DOMAIN fresh : fresh[k].page = q,
         NEW slot, NEW b, b \notin DOMAIN pagemap, DOMAIN pagemap \subseteq DOMAIN held,
         free' = [free EXCEPT ![t][c] = free[t][c] \o fresh],
         held' = Put(held, b, slot), pagemap' = Put(pagemap, b, q)
  PROVE  SlotsOf(p)' = SlotsOf(p)
<1> DEFINE list == free[t][c]
           more == list \o fresh
           n == Len(list)
<1>1. list \in Seq(Freed) /\ free \in [Thread -> [Class -> Seq(Freed)]]
  BY DEF CacheTypes
<1>2. /\ \A j \in DOMAIN list : j \in DOMAIN more /\ more[j] = list[j]
      /\ \A j \in DOMAIN more : \/ j \in DOMAIN list /\ more[j] = list[j]
                                \/ more[j].page = q
  <2> HIDE DEF list
  <2>1. /\ \A j \in DOMAIN list : j \in DOMAIN more /\ more[j] = list[j]
        /\ \A j \in DOMAIN more : \/ j \in DOMAIN list /\ more[j] = list[j]
                                  \/ j - n \in DOMAIN fresh /\ more[j] = fresh[j - n]
    BY <1>1
  <2> QED BY <2>1
<1>3. \A u \in Thread, d \in Class : 
        free'[u][d] = IF u = t /\ d = c THEN more ELSE free[u][d]
  BY <1>1
<1>4. /\ DOMAIN pagemap' = DOMAIN pagemap \cup {b} /\ DOMAIN held' = DOMAIN held \cup {b}
      /\ pagemap'[b] = q
      /\ \A d \in DOMAIN pagemap : d # b /\ held'[d] = held[d] /\ pagemap'[d] = pagemap[d]
  BY DEF Put
<1> HIDE DEF more, n
<1> DEFINE Is(f, s) == f.page = p /\ s = <<f.offset, f.size>>
           InHeld(s) == \E d \in DOMAIN pagemap : 
                          pagemap[d] = p /\ s = <<held[d].offset, held[d].size>>
           InList(u, d, s) == \E j \in DOMAIN free[u][d] : Is(free[u][d][j], s)
           InHeldNext(s) == \E d \in DOMAIN pagemap' : 
                          pagemap'[d] = p /\ s = <<held'[d].offset, held'[d].size>>
           InListNext(u, d, s) == \E j \in DOMAIN free'[u][d] : Is(free'[u][d][j], s)
<1>6. \A s : /\ HasSlot(p, s) <=> (InHeld(s) \/ \E u \in Thread, d \in Class : InList(u, d, s))
             /\ HasSlot(p, s)' <=> (InHeldNext(s) \/ \E u \in Thread, d \in Class : InListNext(u, d, s))
  BY <1>4 DEF HasSlot
<1>7. \A s : InHeld(s) <=> InHeldNext(s)
  BY <1>4
<1>8. \A s : \A u \in Thread, d \in Class : InListNext(u, d, s) <=> InList(u, d, s)
  <2> SUFFICES ASSUME NEW s, NEW u \in Thread, NEW d \in Class 
               PROVE  InListNext(u, d, s) <=> InList(u, d, s)
    OBVIOUS
  <2> HIDE DEF list
  <2>1. CASE u = t /\ d = c
    <3>1. free'[u][d] = more /\ free[u][d] = list
      BY <1>3, <2>1 DEF list
    <3>2. \A j \in DOMAIN more : more[j].page = p => j \in DOMAIN list /\ more[j] = list[j]
      BY <1>2
    <3> QED BY ONLY <1>2, <3>1, <3>2 DEF InListNext, InList, Is
  <2>2. CASE ~(u = t /\ d = c)
    <3>1. free'[u][d] = free[u][d]
      BY <1>3, <2>2
    <3> QED BY ONLY <3>1 DEF InListNext, InList
  <2> QED BY <2>1, <2>2
<1> HIDE DEF Is, InHeld, InList, InHeldNext, InListNext
<1>10. \A s : HasSlot(p, s)' <=> HasSlot(p, s)
  BY <1>6, <1>7, <1>8
<1> QED
  BY <1>10, SlotsOfMember

(* Every slot of a Ppage stays available, whoever allocates and whoever    *)
(* frees: what one thread takes from its list another may return to its    *)
(* own (AllocateChunk, DeallocateChunk), and nothing is lost or doubled.   *)
THEOREM TheSlotsAreConserved == Spec => SlotsConserved
<1>1. ASSUME HeapInv, HeapInv', [Next]_vars, NEW p \in DOMAIN ppage 
      PROVE  SlotsOf(p)' = SlotsOf(p)
  <2>1. /\ CacheTypes /\ ListTypes /\ FreedOK /\ Registered /\ CallOK /\ TypeOK 
        /\ DOMAIN pagemap \subseteq DOMAIN held
    BY <1>1 DEF HeapInv, TypeInv, TypeOK, IndexOK, SlotInv, Registered, AddressInv
  <2>2. ASSUME UNCHANGED <<free, pagemap, held>> PROVE SlotsOf(p)' = SlotsOf(p)
    BY <2>1, <2>2, SlotsStay
  <2>3. ASSUME NEW t \in Thread, NEW i \in DOMAIN free[t][op[t].cls], 
               MallocOwn(t, i) \/ MallocAlias(t, i)
        PROVE  SlotsOf(p)' = SlotsOf(p)
    <3> DEFINE c == op[t].cls
               b == PieceBase(t)
    <3>1. /\ AtPartial(t, "malloc")
          /\ PageSlot(free[t][c][i].page, PieceSlot(t)) = free[t][c][i]
          /\ free' = [free EXCEPT ![t][c] = Without(free[t][c], i)]
          /\ held' = Put(held, b, PageSlot(free[t][c][i].page, PieceSlot(t))) 
          /\ pagemap' = Put(pagemap, b, free[t][c][i].page)
      BY <1>1, <2>3, MallocPiece
    <3>2. held' = Put(held, b, free[t][c][i])
      BY <3>1
    <3>3. c \in Class /\ b \notin DOMAIN pagemap
      BY <1>1, <3>1, MallocBase
    <3> HIDE DEF c, b
    <3>4. i \in DOMAIN free[t][c]
      BY <2>3 DEF c
    <3> QED BY <2>1, <3>1, <3>2, <3>3, <3>4, SlotsStayTaken
  <2>4. ASSUME NEW t \in Thread, MallocFresh(t) PROVE SlotsOf(p)' = SlotsOf(p)
    <3> DEFINE c == op[t].cls
               b == PieceBase(t)
               q == Len(ppage) + 1
               more == Populate(PieceSlot(t).offset, ClassSize[c])
               fresh == [k \in DOMAIN more |-> PageSlot(q, more[k])]
    <3>1. /\ AtPartial(t, "malloc") /\ held' = Put(held, b, PageSlot(q, PieceSlot(t))) 
          /\ pagemap' = Put(pagemap, b, q)
          /\ free' = [free EXCEPT ![t][c] = free[t][c] \o fresh]
      BY <2>4 DEF MallocFresh, Register
    <3>2. /\ c \in Class /\ b \notin DOMAIN pagemap
          /\ PieceSlot(t).offset \in Nat /\ PieceSlot(t).offset < PageSize
          /\ ClassSize[c] \in Nat \ {0}
      BY <1>1, <3>1, MallocBase
    <3>3. q \in Nat /\ q # p
      BY <1>1, <2>1 DEF ListTypes
    <3>4. more \in Seq([offset : Nat, size : Nat])
      BY <3>2, PopulateType
    <3> HIDE DEF c, b, q, more
    <3>5. fresh \in Seq(Freed) /\ \A k \in DOMAIN fresh : fresh[k].page = q
      BY <3>3, <3>4, PageSlotsType
    <3> HIDE DEF fresh
    <3> QED BY <2>1, <3>1, <3>2, <3>3, <3>5, SlotsStayCreated
  <2>5. ASSUME NEW t \in Thread, FreePartial(t) PROVE SlotsOf(p)' = SlotsOf(p)
    <3> DEFINE c == op[t].cls
               b == PieceBase(t)
    <3>1. /\ c \in Class /\ b \in DOMAIN pagemap
          /\ held[b] \in Freed /\ held[b].page = pagemap[b]
          /\ pagemap' = Drop(pagemap, {b}) /\ UNCHANGED held
          /\ free' = [free EXCEPT ![t][c] = Append(free[t][c], held[b])]
      BY <1>1, <2>5, FreePiece
    <3> HIDE DEF c, b
    <3> QED BY <2>1, <3>1, SlotsStayReturned
  <2>6. ASSUME NEW t \in Thread, FinishFree(t) PROVE SlotsOf(p)' = SlotsOf(p)
    <3>1. UNCHANGED <<free, pagemap>> /\ \E gone : held' = Drop(held, gone)
      BY <2>6 DEF FinishFree, cacheVars, mapVars
    <3>2. DOMAIN pagemap' \subseteq DOMAIN held'
      BY <1>1 DEF HeapInv, SlotInv, Registered
    <3>3. \A b \in DOMAIN pagemap : b \in DOMAIN held' /\ held'[b] = held[b]
      BY <3>1, <3>2 DEF Drop
    <3> QED BY <2>1, <3>1, <3>3, SlotsStay
  <2>7. UNCHANGED vars => UNCHANGED <<free, pagemap, held>>
    BY DEF vars, cacheVars, mapVars, memoryVars
  <2>8. \A how : Die(how) => UNCHANGED <<free, pagemap, held>>
    BY DEF Die, cacheVars, mapVars, memoryVars
  <2>9. ASSUME NEW t \in Thread, Malloc(t) PROVE SlotsOf(p)' = SlotsOf(p)
    BY <2>2, <2>3, <2>4, <2>8, <2>9 DEF Malloc, StartMalloc, Refill, Exhausted, MallocDies, 
       MallocWhole, FinishMalloc, cacheVars, mapVars, memoryVars
  <2>10. ASSUME NEW t \in Thread, Free(t) PROVE SlotsOf(p)' = SlotsOf(p)
    BY <2>2, <2>5, <2>6, <2>8, <2>10 DEF Free, StartFree, FreeDies, FreeWhole, 
       cacheVars, mapVars, memoryVars
  <2> QED BY <1>1, <2>2, <2>7, <2>9, <2>10 DEF Next
<1>2. HeapInv /\ [Next]_vars => [\A p \in DOMAIN ppage : SlotsOf(p)' = SlotsOf(p)]_vars
  BY <1>1, HeapInvStep
<1> QED
  BY <1>2, HeapInvariantHolds, PTL DEF Spec, SlotsConserved
=============================================================================
