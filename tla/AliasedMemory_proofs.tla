------------------------ MODULE AliasedMemory_proofs ------------------------
(***************************************************************************)
(* AliasedMemory implements PrivateMemory: for any number of threads, size *)
(* classes and page sizes the chunks a program holds behave as memory of   *)
(* their own, although their partial pages share frames.                   *)
(***************************************************************************)
EXTENDS AliasedMemory, HeapSlots_proofs

(* No range ends beyond the last region.                                   *)
UpperOK == \A t \in Thread, c \in Class : upper[t][c] <= RegionBegin(NumClasses)

(* Every frame has a value in each of its bytes.                           *)
MemTypes == mem \in [1..frames -> [0..(PageSize - 1) -> Value]]

MemInv == HeapInv /\ UpperOK /\ MemTypes

(* A region ends where the next begins, or where the space ends.           *)
LEMMA RegionEnd ==
  ASSUME NEW c \in Class
  PROVE  /\ RegionBegin(c + 1) \in Nat /\ RegionBegin(NumClasses) \in Nat
         /\ RegionBegin(c + 1) <= RegionBegin(NumClasses)
         /\ RegionBegin(NumClasses) = SpaceBeg + RegionSize * NumClasses
<1>1. /\ c \in Nat /\ RegionSize \in Nat /\ SpaceBeg \in Nat /\ NumClasses \in Nat
      /\ c < NumClasses
  BY HeapAssumption DEF Class
<1>2. PICK k \in Nat : NumClasses = c + 1 + k
  <2>1. NumClasses - (c + 1) \in Nat /\ NumClasses = c + 1 + (NumClasses - (c + 1))
    BY <1>1
  <2> QED BY <2>1
<1>3. RegionSize * NumClasses = RegionSize * (c + 1) + RegionSize * k
  BY <1>1, <1>2
<1>4. /\ RegionSize * k \in Nat /\ RegionSize * NumClasses \in Nat 
      /\ RegionSize * (c + 1) \in Nat
  BY <1>1, <1>2
<1> QED
  BY <1>1, <1>3, <1>4 DEF RegionBegin

(* The ends of the ranges stay aligned.                                    *)
LEMMA UpperStep ==
  ASSUME HeapInv, UpperOK, [Next]_vars
  PROVE  UpperOK'
<1>1. TypeOK /\ CacheTypes /\ RangesOK
  BY DEF HeapInv, TypeInv, TypeOK, AddressInv
<1>2. ASSUME UNCHANGED upper PROVE UpperOK'
  BY <1>2 DEF UpperOK, RegionBegin
<1>3. ASSUME NEW t \in Thread, NEW c \in Class, Refill(t, c) PROVE UpperOK'
  <2>1. /\ NextRange(c) < RegionBegin(c + 1)
        /\ upper' = [upper EXCEPT ![t][c] = NextRange(c) + PopulateSize]
    BY <1>3 DEF Refill
  <2>2. NextRange(c) + PopulateSize <= RegionBegin(NumClasses)
    <3>1. NextRange(c) + PopulateSize <= RegionBegin(c + 1)
      BY <1>1, <2>1, RangeFits
    <3>2. RegionBegin(c + 1) <= RegionBegin(NumClasses)
      BY RegionEnd
    <3>3. /\ NextRange(c) \in Nat /\ PopulateSize \in Nat 
          /\ RegionBegin(c + 1) \in Nat /\ RegionBegin(NumClasses) \in Nat
      BY <1>1, Regions, RegionEnd, HeapAssumption
    <3> QED BY <3>1, <3>2, <3>3
  <2>3. upper \in [Thread -> [Class -> Nat]]
    BY <1>1 DEF CacheTypes
  <2>4. \A u \in Thread, d \in Class : 
          upper'[u][d] = IF u = t /\ d = c THEN NextRange(c) + PopulateSize ELSE upper[u][d]
    BY <2>1, <2>3
  <2> QED BY <2>2, <2>4 DEF UpperOK, RegionBegin
<1>4. CASE UNCHANGED vars
  BY <1>2, <1>4 DEF vars, cacheVars
<1>5. \A how : Die(how) => UNCHANGED upper
  BY DEF Die, cacheVars
<1>6. ASSUME NEW t \in Thread, Malloc(t) PROVE UpperOK'
  BY <1>2, <1>3, <1>5, <1>6 DEF Malloc, StartMalloc, Exhausted, MallocOwn, MallocAlias, 
     TakeSlot, MallocDies, MallocFresh, MallocWhole, FinishMalloc, cacheVars
<1>7. ASSUME NEW t \in Thread, Free(t) PROVE UpperOK'
  BY <1>2, <1>5, <1>7 DEF Free, StartFree, FreePartial, FreeDies, FreeWhole, FinishFree, cacheVars
<1> QED
  BY <1>4, <1>6, <1>7 DEF Next

(* A byte of a chunk lies in a page of the chunk, within the chunk's slot. *)
LEMMA ByteInSlot ==
  ASSUME NEW ch \in Chunk, NEW i \in Offsets(ch)
  PROVE  LET b == RoundDownTo(ch.beg + i)
             o == OffsetOf(ch.beg + i)
             s == SlotIn(ch, b)
         IN  /\ b \in Nat /\ b \in Pages(ch) /\ o \in 0..(PageSize - 1)
             /\ s.offset <= o /\ o < s.offset + s.size
             /\ ch.beg + i = b + o /\ ch.beg \in Nat /\ i \in Nat
<1> DEFINE a == ch.beg + i
           b == RoundDownTo(a)
           o == OffsetOf(a)
           cs == ClassSize[ch.cls]
           beg == ch.beg
<1>1. beg \in Nat /\ cs \in Nat \ {0} /\ i \in Nat /\ i < cs /\ a \in Nat
  BY HeapAssumption DEF Chunk, Offsets
<1>2. /\ b \in Nat /\ b <= a /\ a < b + PageSize /\ o \in Nat /\ o < PageSize /\ a = b + o
      /\ Aligned(b)
  <2>1. a \in Nat
    BY <1>1
  <2> HIDE DEF a
  <2> QED BY ONLY <2>1, RoundDownBounds, RoundDownAligned DEF b, o
<1>3. RoundDownTo(beg) \in Nat /\ RoundDownTo(beg) <= b
  <2>1. a \in Nat /\ beg \in Nat /\ beg <= a
    BY <1>1
  <2> HIDE DEF a, beg
  <2> QED BY ONLY <2>1, RoundDownBounds, RoundDownMonotone DEF b
<1>4. PageSize \in Nat \ {0}
  BY PageSizeAssumption
<1> HIDE DEF b, o
<1>5. b \in Pages(ch)
  BY <1>1, <1>2, <1>3 DEF Pages, PagesOf
<1>6. SlotIn(ch, b).offset <= o /\ o < SlotIn(ch, b).offset + SlotIn(ch, b).size
  <2> DEFINE from == IF beg < b THEN b ELSE beg
             to == Least(beg + cs, b + PageSize)
  <2>1. from \in Nat /\ from <= a /\ to \in Nat /\ a < to
    BY <1>1, <1>2, <1>4 DEF Least
  <2>2. SlotIn(ch, b).offset = from - b /\ SlotIn(ch, b).size = to - from
    BY DEF SlotIn, Slot
  <2> HIDE DEF from, to
  <2> QED BY <1>2, <2>1, <2>2
<1> QED
  <2>1. o \in 0..(PageSize - 1)
    BY <1>2, <1>4
  <2> QED BY <1>1, <1>2, <1>5, <1>6, <2>1 DEF b, o

(* A byte of a chunk the program holds has a frame.                        *)
LEMMA BytesMapped ==
  HeapInv => \A ch \in live : \A i \in Offsets(ch) : 
    /\ RoundDownTo(ch.beg + i) \in DOMAIN vm
    /\ vm[RoundDownTo(ch.beg + i)] \in 1..frames
    /\ OffsetOf(ch.beg + i) \in 0..(PageSize - 1)
<1> SUFFICES ASSUME HeapInv, NEW ch \in live, NEW i \in Offsets(ch)
             PROVE  /\ RoundDownTo(ch.beg + i) \in DOMAIN vm
                    /\ vm[RoundDownTo(ch.beg + i)] \in 1..frames
                    /\ OffsetOf(ch.beg + i) \in 0..(PageSize - 1)
  OBVIOUS
<1>1. ch \in Chunk /\ Covered /\ MemoryTypes
  BY DEF HeapInv, TypeInv, TypeOK, CallTypes, SlotInv
<1>2. RoundDownTo(ch.beg + i) \in Pages(ch) /\ OffsetOf(ch.beg + i) \in 0..(PageSize - 1)
  BY <1>1, ByteInSlot
<1> QED
  BY <1>1, <1>2 DEF Covered, MemoryTypes

(* The bytes of chunks in use stay in mapped pages.                        *)
LEMMA BytesMappedNext ==
  HeapInv' => \A ch \in live' : \A i \in Offsets(ch) : 
    /\ RoundDownTo(ch.beg + i) \in DOMAIN vm'
    /\ vm'[RoundDownTo(ch.beg + i)] \in 1..frames'
    /\ OffsetOf(ch.beg + i) \in 0..(PageSize - 1)
<1>1. (HeapInv => \A ch \in live : \A i \in Offsets(ch) : 
        /\ RoundDownTo(ch.beg + i) \in DOMAIN vm
        /\ vm[RoundDownTo(ch.beg + i)] \in 1..frames
        /\ OffsetOf(ch.beg + i) \in 0..(PageSize - 1))'
  BY BytesMapped, PTL
<1> QED
  BY <1>1 DEF Offsets, RoundDownTo, OffsetOf

(* Different bytes of the program are different bytes of memory: pages     *)
(* that share a frame hold slots of one Ppage, which do not overlap.       *)
LEMMA BytesApart ==
  ASSUME HeapInv, NEW ch \in live, NEW i \in Offsets(ch), NEW d \in live, NEW j \in Offsets(d),
         vm[RoundDownTo(ch.beg + i)] = vm[RoundDownTo(d.beg + j)],
         OffsetOf(ch.beg + i) = OffsetOf(d.beg + j)
  PROVE  ch = d /\ i = j
<1> DEFINE b == RoundDownTo(ch.beg + i)
           e == RoundDownTo(d.beg + j)
           o == OffsetOf(ch.beg + i)
<1>1. /\ TypeOK /\ AddressInv /\ ch \in Chunk /\ d \in Chunk /\ HeldGeometry /\ Registered 
      /\ MemoryTypes /\ SharingWithinPpage /\ SlotsApart
  BY PartsOfSlotInv DEF HeapInv, TypeInv, TypeOK, CallTypes, SlotInv, Parts
<1>2. /\ b \in Pages(ch) /\ e \in Pages(d) /\ b \in DOMAIN vm /\ e \in DOMAIN vm
      /\ b \in Nat /\ e \in Nat /\ o \in Nat
      /\ SlotIn(ch, b).offset <= o /\ o < SlotIn(ch, b).offset + SlotIn(ch, b).size
      /\ SlotIn(d, e).offset <= o /\ o < SlotIn(d, e).offset + SlotIn(d, e).size
      /\ ch.beg + i = b + o /\ d.beg + j = e + o 
      /\ ch.beg \in Nat /\ i \in Nat /\ d.beg \in Nat /\ j \in Nat
  BY <1>1, ByteInSlot, BytesMapped
<1>3. PagesExclusive
  BY <1>1, AddressInvImplies
<1> HIDE DEF b, e, o
<1>4. CASE b = e
  <2>1. ch = d
    BY <1>2, <1>3, <1>4 DEF PagesExclusive
  <2> QED BY <1>2, <1>4, <2>1
<1>5. CASE b # e
  <2>1. b \in DOMAIN held /\ e \in DOMAIN held /\ held[b].page = held[e].page
    BY <1>1, <1>2, <1>5 DEF SharingWithinPpage, b, e
  <2>2. Freeing \subseteq Busy
    BY DEF Freeing, Busy
  <2>3. b \in DOMAIN pagemap /\ e \in DOMAIN pagemap
    BY <1>1, <1>2, <1>3, <2>1, <2>2 DEF Registered, PagesExclusive
  <2>4. SameBytes(held[b], SlotIn(ch, b)) /\ SameBytes(held[e], SlotIn(d, e))
    BY <1>1, <1>2, <2>1 DEF HeldGeometry
  <2>5. DisjointSlots(held[b], held[e])
    BY <1>1, <1>5, <2>1, <2>3 DEF SlotsApart, HeldApart, Clash
  <2>6. held[b] \in Freed /\ held[e] \in Freed
    BY <1>1, <2>1 DEF MemoryTypes
  <2>7. /\ held[b].offset \in Nat /\ held[b].size \in Nat
        /\ held[e].offset \in Nat /\ held[e].size \in Nat
        /\ held[b].offset <= o /\ o < held[b].offset + held[b].size
        /\ held[e].offset <= o /\ o < held[e].offset + held[e].size
    BY <1>2, <2>4, <2>6 DEF SameBytes, Freed
  <2> QED BY <1>2, <2>5, <2>7 DEF DisjointSlots
<1> QED
  BY <1>4, <1>5

(* No step of the allocator moves the pages of a chunk that is held.       *)
LEMMA FramesKept ==
  ASSUME HeapInv, [Next]_vars, NEW x \in live, NEW b \in Pages(x)
  PROVE  vm'[b] = vm[b]
<1>1. /\ TypeOK /\ AddressInv /\ CallOK /\ b \in DOMAIN vm /\ x \in Chunk
  BY DEF HeapInv, TypeInv, TypeOK, CallTypes, SlotInv, Covered, AddressInv
<1>2. PagesExclusive
  BY <1>1, AddressInvImplies
<1>3. ASSUME UNCHANGED vm PROVE vm'[b] = vm[b]
  BY <1>3
<1>4. ASSUME NEW e, e # b, NEW f, vm' = Put(vm, e, f) PROVE vm'[b] = vm[b]
  BY <1>1, <1>4 DEF Put
<1>5. ASSUME NEW t \in Thread, NEW i \in DOMAIN free[t][op[t].cls], 
             MallocOwn(t, i) \/ MallocAlias(t, i)
      PROVE  vm'[b] = vm[b]
  <2>1. AtPartial(t, "malloc") /\ \E f : vm' = Put(vm, PieceBase(t), f)
    BY <1>5, MallocPiece
  <2>2. PieceBase(t) # b
    BY <1>1, <2>1, MallocBase
  <2> QED BY <1>4, <2>1, <2>2
<1>6. ASSUME NEW t \in Thread, MallocFresh(t) PROVE vm'[b] = vm[b]
  <2>1. AtPartial(t, "malloc") /\ vm' = Put(vm, PieceBase(t), frames + 1)
    BY <1>6 DEF MallocFresh
  <2>2. PieceBase(t) # b
    BY <1>1, <2>1, MallocBase
  <2> QED BY <1>4, <2>1, <2>2
<1>7. ASSUME NEW t \in Thread, MallocWhole(t) PROVE vm'[b] = vm[b]
  <2> DEFINE new == PagesOf(op[t].vaddr, WholeSize(op[t].remain))
  <2>1. /\ t \in Busy /\ IsWhole(op[t].vaddr, op[t].remain)
        /\ \A e \in DOMAIN vm : e \notin new => vm'[e] = vm[e]
    BY <1>7 DEF MallocWhole, AtWhole, Busy
  <2>2. \A e \in new : e \in Pages(InCall(t))
    BY <1>1, <2>1, WholeInChunk
  <2>3. b \notin new
    BY <1>2, <2>1, <2>2 DEF PagesExclusive
  <2> QED BY <1>1, <2>1, <2>3
<1>8. ASSUME NEW t \in Thread, FinishFree(t) PROVE vm'[b] = vm[b]
  <2>1. t \in Busy /\ vm' = Drop(vm, Pages(InCall(t)))
    BY <1>8 DEF FinishFree, AtEnd, Busy, Pages, InCall
  <2>2. b \notin Pages(InCall(t))
    BY <1>2, <2>1 DEF PagesExclusive
  <2> QED BY <1>1, <2>1, <2>2 DEF Drop
<1>9. \A how : Die(how) => UNCHANGED vm
  BY DEF Die, memoryVars
<1>10. ASSUME NEW t \in Thread, Malloc(t) PROVE vm'[b] = vm[b]
  BY <1>3, <1>5, <1>6, <1>7, <1>9, <1>10 
     DEF Malloc, StartMalloc, Refill, Exhausted, MallocDies, FinishMalloc, memoryVars
<1>11. ASSUME NEW t \in Thread, Free(t) PROVE vm'[b] = vm[b]
  BY <1>3, <1>8, <1>9, <1>11 DEF Free, StartFree, FreePartial, FreeDies, FreeWhole, memoryVars
<1>12. UNCHANGED vars => UNCHANGED vm
  BY DEF vars, memoryVars
<1> QED
  BY <1>3, <1>10, <1>11, <1>12 DEF Next

(* The chunks the program holds change one at a time.                      *)
LEMMA LiveStep ==
  ASSUME HeapInv, UpperOK, [Next]_vars
  PROVE  \/ live' = live
         \/ \E ch \in [beg : 0..(SpaceBeg + RegionSize * NumClasses), cls : Class] : 
              ch \notin live /\ live' = live \cup {ch}
         \/ \E ch \in live : live' = live \ {ch}
<1>1. /\ TypeOK /\ CallOK /\ AddressInv /\ CacheTypes
  BY DEF HeapInv, TypeInv, TypeOK, AddressInv
<1>2. PagesExclusive
  BY <1>1, AddressInvImplies
<1>3. ASSUME NEW t \in Thread, FinishMalloc(t)
      PROVE  \E ch \in [beg : 0..(SpaceBeg + RegionSize * NumClasses), cls : Class] : 
                ch \notin live /\ live' = live \cup {ch}
  <2> DEFINE ch == InCall(t)
             c == op[t].cls
  <2>1. t \in Busy /\ op[t].kind = "malloc" /\ live' = live \cup {ch}
    BY <1>3 DEF FinishMalloc, AtEnd, Busy, InCall
  <2>2. /\ op[t].beg \in Nat /\ c \in Class /\ ClassSize[c] \in Nat \ {0}
    BY <1>1, <2>1, CallNumbers
  <2>3. op[t].beg + ClassSize[c] <= upper[t][c]
    BY <1>1, <2>1 DEF CallOK
  <2>4. upper[t][c] \in Nat /\ upper[t][c] <= SpaceBeg + RegionSize * NumClasses
    BY <1>1, <2>2, RegionEnd DEF UpperOK, CacheTypes
  <2>5. SpaceBeg + RegionSize * NumClasses \in Nat
    BY <2>2, RegionEnd
  <2>6. op[t].beg \in 0..(SpaceBeg + RegionSize * NumClasses)
    <3> DEFINE top == SpaceBeg + RegionSize * NumClasses
    <3> HIDE DEF top
    <3>1. op[t].beg \in 0..top
      BY <2>2, <2>3, <2>4, <2>5 DEF top
    <3> QED BY <3>1 DEF top
  <2>7. ch \in [beg : 0..(SpaceBeg + RegionSize * NumClasses), cls : Class]
    BY <2>2, <2>6 DEF InCall
  <2>8. RoundDownTo(op[t].beg) \in Pages(ch)
    <3>1. /\ Pages(ch) = {b \in RoundDownTo(op[t].beg)..(op[t].beg + ClassSize[c] - 1) : Aligned(b)}
          /\ RoundDownTo(op[t].beg) \in Nat
      BY <1>1, CallPages
    <3>2. RoundDownTo(op[t].beg) <= op[t].beg /\ Aligned(RoundDownTo(op[t].beg))
      BY <2>2, RoundDownBounds, RoundDownAligned
    <3> QED BY <2>2, <3>1, <3>2
  <2>9. ch \notin live
    BY <1>2, <2>1, <2>8 DEF PagesExclusive
  <2> QED BY <2>1, <2>7, <2>9
<1>4. \A how : Die(how) => live' = live
  BY DEF Die
<1>5. ASSUME NEW t \in Thread, Malloc(t) PROVE live' = live \/ FinishMalloc(t)
  BY <1>4, <1>5 DEF Malloc, StartMalloc, Refill, Exhausted, MallocOwn, MallocAlias, 
     TakeSlot, MallocDies, MallocFresh, MallocWhole
<1>6. ASSUME NEW t \in Thread, Free(t) PROVE live' = live \/ \E ch \in live : live' = live \ {ch}
  BY <1>4, <1>6 DEF Free, StartFree, FreePartial, FreeDies, FreeWhole, FinishFree
<1>7. UNCHANGED vars => live' = live
  BY DEF vars
<1> QED
  BY <1>3, <1>5, <1>6, <1>7 DEF Next

(* Reading a byte of a chunk that is held before and after a step.         *)
Byte(ch, i) == mem[vm[RoundDownTo(ch.beg + i)]][OffsetOf(ch.beg + i)]

(* The contents of a chunk, byte by byte.                                  *)
LEMMA ContentsAre == 
  /\ DOMAIN Contents = live
  /\ \A ch \in live : Contents[ch] = [i \in Offsets(ch) |-> Byte(ch, i)]
  BY DEF Contents, Byte

(* The allocator changes no byte of a chunk that stays.                    *)
LEMMA HeapKeepsBytes ==
  ASSUME MemInv, MemInv', HeapStep, NEW ch \in live, ch \in live'
  PROVE  Contents'[ch] = Contents[ch]
<1>1. /\ HeapInv /\ HeapInv' /\ MemTypes /\ [Next]_vars /\ ch \in Chunk
      /\ mem' = [f \in 1..frames' |-> 
                   IF f \in DOMAIN mem THEN mem[f] ELSE [i \in 0..(PageSize - 1) |-> Zero]]
  BY DEF MemInv, HeapStep, HeapInv, TypeInv, TypeOK, CallTypes
<1>2. ASSUME NEW i \in Offsets(ch)
      PROVE  mem'[vm'[RoundDownTo(ch.beg + i)]][OffsetOf(ch.beg + i)]
               = mem[vm[RoundDownTo(ch.beg + i)]][OffsetOf(ch.beg + i)]
  <2> DEFINE b == RoundDownTo(ch.beg + i)
  <2>1. vm[b] \in 1..frames /\ vm'[b] \in 1..frames'
    BY <1>1, BytesMapped, BytesMappedNext
  <2>2. vm'[b] = vm[b]
    <3>1. b \in Pages(ch)
      BY <1>1, ByteInSlot
    <3> QED BY <1>1, <3>1, FramesKept
  <2> HIDE DEF b
  <2>3. DOMAIN mem = 1..frames
    BY <1>1 DEF MemTypes
  <2>4. mem'[vm[b]] = mem[vm[b]]
    BY <1>1, <2>1, <2>2, <2>3
  <2> QED BY <2>2, <2>4 DEF b
<1>3. Contents'[ch] = [i \in Offsets(ch) |-> 
                         mem'[vm'[RoundDownTo(ch.beg + i)]][OffsetOf(ch.beg + i)]]
  BY DEF Contents, Offsets, RoundDownTo, OffsetOf
<1>4. Contents[ch] = [i \in Offsets(ch) |-> 
                        mem[vm[RoundDownTo(ch.beg + i)]][OffsetOf(ch.beg + i)]]
  BY DEF Contents
<1> QED
  BY <1>2, <1>3, <1>4

(* The values of a chunk that malloc hands out are those of some memory.   *)
LEMMA FirstContents ==
  ASSUME MemInv', NEW ch \in live'
  PROVE  Contents'[ch] \in [Offsets(ch) -> Value]
<1>1. mem' \in [1..frames' -> [0..(PageSize - 1) -> Value]] /\ HeapInv'
  BY DEF MemInv, MemTypes
<1>2. ASSUME NEW i \in Offsets(ch)
      PROVE  mem'[vm'[RoundDownTo(ch.beg + i)]][OffsetOf(ch.beg + i)] \in Value
  BY <1>1, BytesMappedNext
<1>3. Contents'[ch] = [i \in Offsets(ch) |-> 
                         mem'[vm'[RoundDownTo(ch.beg + i)]][OffsetOf(ch.beg + i)]]
  BY DEF Contents, Offsets, RoundDownTo, OffsetOf
<1> QED
  BY <1>2, <1>3

(* A write changes that byte of that chunk and no other.                   *)
LEMMA WriteOne ==
  ASSUME MemInv, NEW ch \in live, NEW i \in Offsets(ch), NEW value, Write(ch, i, value)
  PROVE  Contents' = [Contents EXCEPT ![ch][i] = value]
<1> DEFINE F(d, j) == vm[RoundDownTo(d.beg + j)]
           O(d, j) == OffsetOf(d.beg + j)
<1>1. HeapInv /\ mem \in [1..frames -> [0..(PageSize - 1) -> Value]]
  BY DEF MemInv, MemTypes
<1>2. /\ mem' = [mem EXCEPT ![F(ch, i)][O(ch, i)] = value]
      /\ live' = live /\ vm' = vm
  BY DEF Write, vars, memoryVars
<1>3. \A d \in live : \A j \in Offsets(d) : F(d, j) \in 1..frames /\ O(d, j) \in 0..(PageSize - 1)
  BY <1>1, BytesMapped
<1>4. ASSUME NEW d \in live, NEW j \in Offsets(d), F(d, j) = F(ch, i), O(d, j) = O(ch, i)
      PROVE  d = ch /\ j = i
  BY <1>1, <1>4, BytesApart
<1>5. Contents' = [d \in live |-> [j \in Offsets(d) |-> mem'[F(d, j)][O(d, j)]]]
  BY <1>2 DEF Contents, Offsets, RoundDownTo, OffsetOf
<1>6. Contents = [d \in live |-> [j \in Offsets(d) |-> mem[F(d, j)][O(d, j)]]]
  BY DEF Contents
<1> HIDE DEF F, O
<1>7. \A f \in 1..frames, o \in 0..(PageSize - 1) : 
        mem'[f][o] = IF f = F(ch, i) /\ o = O(ch, i) THEN value ELSE mem[f][o]
  BY <1>1, <1>2, <1>3
<1>8. \A d \in live : \A j \in Offsets(d) : 
        mem'[F(d, j)][O(d, j)] = IF d = ch /\ j = i THEN value ELSE mem[F(d, j)][O(d, j)]
  BY <1>3, <1>4, <1>7
<1> DEFINE old(d) == [j \in Offsets(d) |-> mem[F(d, j)][O(d, j)]]
           new(d) == [j \in Offsets(d) |-> mem'[F(d, j)][O(d, j)]]
<1>9. \A d \in live : d # ch => new(d) = old(d)
  BY <1>8
<1>10. new(ch) = [old(ch) EXCEPT ![i] = value]
  BY <1>8
<1>11. Contents = [d \in live |-> old(d)] /\ Contents' = [d \in live |-> new(d)]
  BY <1>5, <1>6
<1> HIDE DEF old, new
<1>12. [Contents EXCEPT ![ch][i] = value] = [Contents EXCEPT ![ch] = [Contents[ch] EXCEPT ![i] = value]]
  OBVIOUS
<1>13. Contents[ch] = old(ch)
  BY <1>11
<1>14. Contents' = [Contents EXCEPT ![ch] = new(ch)]
  BY <1>9, <1>11
<1> QED
  BY <1>10, <1>12, <1>13, <1>14

(* Nothing is mapped and no memory exists at the beginning.                *)
LEMMA MemInvInit == MemInit => MemInv
<1> SUFFICES ASSUME MemInit PROVE MemInv
  OBVIOUS
<1>1. HeapInv
  BY HeapInvInit DEF MemInit
<1>2. UpperOK
  <2> SUFFICES ASSUME NEW t \in Thread, NEW c \in Class PROVE 0 <= RegionBegin(NumClasses)
    BY DEF UpperOK, MemInit, Init
  <2> QED BY RegionEnd
<1>3. MemTypes
  <2>1. frames = 0 /\ mem = <<>>
    BY DEF MemInit, Init
  <2>2. 1..0 = {}
    OBVIOUS
  <2> QED BY <2>1, <2>2 DEF MemTypes
<1> QED
  BY <1>1, <1>2, <1>3 DEF MemInv

(* Every step, also a store of the program, keeps the invariant.           *)
LEMMA MemInvStep == MemInv /\ [MemNext]_<<vars, mem>> => MemInv'
<1> SUFFICES ASSUME MemInv, [MemNext]_<<vars, mem>> PROVE MemInv'
  OBVIOUS
<1>1. [Next]_vars
  BY DEF MemNext, HeapStep, Write
<1>2. HeapInv' /\ UpperOK'
  BY <1>1, HeapInvStep, UpperStep DEF MemInv
<1>3. MemTypes'
  <2>1. mem \in [1..frames -> [0..(PageSize - 1) -> Value]]
    BY DEF MemInv, MemTypes
  <2>2. CASE HeapStep
    <3>1. mem' = [f \in 1..frames' |-> 
                    IF f \in DOMAIN mem THEN mem[f] ELSE [i \in 0..(PageSize - 1) |-> Zero]]
      BY <2>2 DEF HeapStep
    <3>2. [i \in 0..(PageSize - 1) |-> Zero] \in [0..(PageSize - 1) -> Value]
      BY ValueAssumption
    <3> QED BY <2>1, <3>1, <3>2 DEF MemTypes
  <2>3. ASSUME NEW ch \in live, NEW i \in Offsets(ch), NEW value \in Value, Write(ch, i, value)
        PROVE  MemTypes'
    <3>1. mem' = [mem EXCEPT ![vm[RoundDownTo(ch.beg + i)]][OffsetOf(ch.beg + i)] = value]
          /\ UNCHANGED frames
      BY <2>3 DEF Write, vars, memoryVars
    <3> QED BY <2>1, <3>1 DEF MemTypes
  <2>4. CASE UNCHANGED <<vars, mem>>
    BY <2>1, <2>4 DEF MemTypes, vars, memoryVars
  <2> QED BY <2>2, <2>3, <2>4 DEF MemNext
<1> QED
  BY <1>2, <1>3 DEF MemInv

(* An empty heap is an empty private memory.                               *)
LEMMA PromiseInit == MemInit => Promise!Init
  BY DEF MemInit, Init, Promise!Init, Contents

(* A step of the heap gives out a chunk, takes one back, or is invisible   *)
(* to the program; a write is a write to private memory.                   *)
LEMMA PromiseStep ==
  ASSUME MemInv, MemInv', [MemNext]_<<vars, mem>>
  PROVE  [Promise!Next]_Contents
<1>1. CASE UNCHANGED <<vars, mem>>
  BY <1>1 DEF vars, memoryVars, Contents, Offsets, RoundDownTo, OffsetOf
<1>2. ASSUME NEW ch \in live, NEW i \in Offsets(ch), NEW value \in Value, Write(ch, i, value)
      PROVE  Promise!Next
  <2>1. Contents' = [Contents EXCEPT ![ch][i] = value] /\ ch \in DOMAIN Contents
    BY <1>2, WriteOne, ContentsAre
  <2> QED BY <2>1 DEF Promise!Next, Promise!Write
<1>3. CASE HeapStep
  <2>1. \A ch \in live : ch \in live' => Contents'[ch] = Contents[ch]
    BY <1>3, HeapKeepsBytes
  <2>2. DOMAIN Contents = live /\ DOMAIN Contents' = live'
    BY DEF Contents
  <2>3. HeapInv /\ UpperOK /\ [Next]_vars
    BY <1>3 DEF MemInv, HeapStep
  <2>4. CASE live' = live
    <3>1. /\ Contents = [ch \in live |-> Contents[ch]]
          /\ Contents' = [ch \in live' |-> Contents'[ch]]
      BY DEF Contents
    <3> QED BY <2>1, <2>4, <3>1
  <2>5. ASSUME NEW ch \in [beg : 0..(SpaceBeg + RegionSize * NumClasses), cls : Class],
               ch \notin live, live' = live \cup {ch}
        PROVE  Promise!Next
    <3>1. Contents'[ch] \in [Offsets(ch) -> Value]
      BY <2>5, FirstContents
    <3> QED BY <2>1, <2>2, <2>5, <3>1 DEF Promise!Next, Promise!Malloc, Promise!Same
  <2>6. ASSUME NEW ch \in live, live' = live \ {ch} PROVE Promise!Next
    BY <2>1, <2>2, <2>6 DEF Promise!Next, Promise!Free, Promise!Same
  <2> QED BY <2>3, <2>4, <2>5, <2>6, LiveStep
<1> QED
  BY <1>1, <1>2, <1>3 DEF MemNext

(* The heap implements private memory: whatever the threads do, a chunk    *)
(* holds what the program last wrote to it until the program frees it,     *)
(* although AllocateChunk maps pieces of many chunks to one frame.         *)
THEOREM MemoryIsPrivate == MemSpec => PrivateMemoryKept
<1>1. MemInv /\ [MemNext]_<<vars, mem>> => MemInv'
  BY MemInvStep
<1>2. MemInv /\ MemInv' /\ [MemNext]_<<vars, mem>> => [Promise!Next]_Contents
  BY PromiseStep
<1> QED
  BY MemInvInit, PromiseInit, <1>1, <1>2, PTL DEF MemSpec, PrivateMemoryKept, Promise!Spec
=============================================================================
