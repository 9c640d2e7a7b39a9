---------------------------- MODULE AliasingHeap ----------------------------
(***************************************************************************)
(* The primary heap of MEDS: AliasingAllocator (regions of virtual         *)
(* addresses, one per size class), AliasingAllocatorLocalCache (one per    *)
(* thread: address ranges and lists of freed slots) and the kernel's page  *)
(* table as the mmap and mremap calls change it.                           *)
(*                                                                         *)
(* Every chunk has virtual pages of its own.  The partial pages of several *)
(* chunks of a class share a physical page (Ppage), each chunk at another  *)
(* offset.  Malloc and free run piece by piece; a step of a thread handles *)
(* one piece, so the operations of several threads interleave.             *)
(***************************************************************************)
EXTENDS ChunkLayout, DoubleList, FiniteSets

CONSTANTS
  Thread,           \* threads that have a cache
  NumClasses,       \* size classes 0..NumClasses-1
  ClassSize,        \* ClassIdToSize
  RzSize,           \* rz_size, the gap left behind every chunk
  PopulateSize,     \* kPopulateSize, what a cache takes from a region
  RegionSize,       \* kRegionSize
  SpaceBeg,         \* SpaceBeg()
  StaleLinks        \* what the unwritten links of a new Vpage may hold

Class == 0..(NumClasses - 1)

ASSUME HeapAssumption ==
  /\ NumClasses \in Nat \ {0}
  /\ ClassSize \in [Class -> Nat \ {0}]
  /\ RzSize \in Nat /\ Aligned(RzSize) /\ RzSize >= PageSize
  /\ PopulateSize \in Nat /\ Aligned(PopulateSize)
  /\ \A c \in Class : ClassSize[c] <= PopulateSize
  /\ RegionSize \in Nat /\ Aligned(RegionSize)
  /\ RegionSize % PopulateSize = 0
  /\ SpaceBeg \in Nat \ {0} /\ Aligned(SpaceBeg)
  /\ StaleLinks \subseteq {Null, Wild}

VARIABLES
  pos,        \* pos[c]: RegionInfo::pos
  lower,      \* lower[t][c]: PerClass::lower_bound
  upper,      \* upper[t][c]: PerClass::upper_bound
  free,       \* free[t][c]: PerClass::free_list, a sequence of Freed
  ppage,      \* ppage[p]: the vlist header of the p-th Ppage
  vpage,      \* vpage[v]: address and Ppage of the v-th Vpage
  prev, next, \* prev[v], next[v]: its links
  forkmap,    \* Forkmap: virtual page -> Vpage
  pagemap,    \* Pagemap: virtual page -> Ppage
  vm,         \* page table: accessible virtual page -> frame
  frames,     \* number of frames the kernel has handed out
  live,       \* chunks the application holds
  op,         \* op[t]: the call thread t is in
  fate,       \* whether the process still runs, or how it died
  held,       \* auxiliary: the slot behind each mapped partial page
  retired     \* auxiliary: virtual pages of chunks that were freed

cacheVars  == <<lower, upper, free>>
listVars   == <<ppage, vpage, prev, next>>
mapVars    == <<forkmap, pagemap>>
memoryVars == <<vm, frames, held, retired>>
vars == <<pos, cacheVars, listVars, mapVars, memoryVars, live, op, fate>>

(***************************************************************************)
(* States.                                                                 *)
(***************************************************************************)
Fate  == {"running", "exhausted", "bad_deref", "check_failed"}
Vpage == [addr : Int, page : Nat]
Vlist == [size : Int, first : Int, last : Int]
Freed == [page : Nat, offset : Nat, size : Nat]
Chunk == [beg : Nat, cls : Class]
Call  == [kind : {"idle", "malloc", "free"}, cls : Class, beg : Nat,
          vaddr : Nat, remain : Nat]

Idle == [kind |-> "idle", cls |-> 0, beg |-> 0, vaddr |-> 0, remain |-> 0]

MapFailed == -1       \* what a failed mremap returns; CHECK_NE(res, 0) lets it pass

RegionBegin(c) == SpaceBeg + RegionSize * c       \* GetRegionBeginBySizeClass

(* Mutant: the region forgets the ranges it has given out.                 *)
SameRange(c) == RegionBegin(c)

(* Where the next range of a region begins; pos is set up on first use.    *)
NextRange(c) == IF pos[c] = 0 THEN RegionBegin(c) ELSE pos[c]

Running == fate = "running"
Die(how) == /\ fate' = how
            /\ UNCHANGED <<pos, cacheVars, listVars, mapVars, memoryVars, live, op>>

Put(f, x, y) == [z \in DOMAIN f \cup {x} |-> IF z = x THEN y ELSE f[z]]
Drop(f, S)   == [z \in DOMAIN f \ S |-> f[z]]

Init ==
  /\ pos = [c \in Class |-> 0]
  /\ lower = [t \in Thread |-> [c \in Class |-> 0]]
  /\ upper = [t \in Thread |-> [c \in Class |-> 0]]
  /\ free = [t \in Thread |-> [c \in Class |-> <<>>]]
  /\ ppage = <<>> /\ vpage = <<>> /\ prev = <<>> /\ next = <<>>
  /\ forkmap = <<>> /\ pagemap = <<>>
  /\ vm = <<>> /\ frames = 0 /\ held = <<>> /\ retired = {}
  /\ live = {}
  /\ op = [t \in Thread |-> Idle]
  /\ fate = "running"

(***************************************************************************)
(* Malloc.                                                                 *)
(***************************************************************************)
NewCall(kind, c, beg) == 
  [kind |-> kind, cls |-> c, beg |-> beg, vaddr |-> beg, remain |-> ClassSize[c]]

(* The cache range still has room for a chunk.                             *)
StartMalloc(t, c) ==
  /\ Running /\ op[t].kind = "idle"
  /\ lower[t][c] + ClassSize[c] <= upper[t][c]
  /\ op' = [op EXCEPT ![t] = NewCall("malloc", c, lower[t][c])]
  /\ UNCHANGED <<pos, cacheVars, listVars, mapVars, memoryVars, live, fate>>

(* It has not: GetFromAllocator, under the mutex of the region.  The rest  *)
(* of the old range is lost.                                               *)
Refill(t, c) ==
  /\ Running /\ op[t].kind = "idle"
  /\ lower[t][c] + ClassSize[c] > upper[t][c]
  /\ NextRange(c) < RegionBegin(c + 1)
  /\ pos' = [pos EXCEPT ![c] = NextRange(c) + PopulateSize]
  /\ lower' = [lower EXCEPT ![t][c] = NextRange(c)]
  /\ upper' = [upper EXCEPT ![t][c] = NextRange(c) + PopulateSize]
  /\ op' = [op EXCEPT ![t] = NewCall("malloc", c, NextRange(c))]
  /\ UNCHANGED <<free, listVars, mapVars, memoryVars, live, fate>>

(* The region has no range left: "Address space insufficient".             *)
Exhausted(t, c) ==
  /\ Running /\ op[t].kind = "idle"
  /\ lower[t][c] + ClassSize[c] > upper[t][c]
  /\ NextRange(c) >= RegionBegin(c + 1)
  /\ Die("exhausted")

(* The piece thread t is at, and the call with that piece behind it.       *)
AtPartial(t, kind) == 
  Running /\ op[t].kind = kind /\ IsPartial(op[t].vaddr, op[t].remain)
AtWhole(t, kind) == 
  Running /\ op[t].kind = kind /\ IsWhole(op[t].vaddr, op[t].remain)
AtEnd(t, kind) == Running /\ op[t].kind = kind /\ op[t].remain = 0

(* Mutant: every piece goes to the first page of the chunk.                *)
FirstBase(t) == RoundDownTo(op[t].beg)

PieceBase(t) == RoundDownTo(op[t].vaddr)
PieceSlot(t) == Slot(OffsetOf(op[t].vaddr), PartialSize(op[t].vaddr, op[t].remain))

Behind(call, size) == 
  [kind |-> call.kind, cls |-> call.cls, beg |-> call.beg,
   vaddr |-> call.vaddr + size, remain |-> call.remain - size]

Advance(t, size) == op' = [op EXCEPT ![t] = Behind(op[t], size)]

(* Mutant: a slot of the right size at any offset will do.                 *)
FitsAnywhere(f, slot) == f.size = slot.size

Fits(f, slot) == f.offset = slot.offset /\ f.size = slot.size

(* The i-th slot of a free list is the first one that fits.                *)
FirstFit(list, slot, i) == 
  Fits(list[i], slot) /\ \A j \in 1..(i - 1) : ~Fits(list[j], slot)

NoneFits(list, slot) == \A i \in DOMAIN list : ~Fits(list[i], slot)

(* Mutant: the slot after the one found is removed.                        *)
WithoutNext(list, i) == 
  [j \in 1..(Len(list) - 1) |-> IF j <= i THEN list[j] ELSE list[j + 1]]

Without(list, i) == 
  [j \in 1..(Len(list) - 1) |-> IF j < i THEN list[j] ELSE list[j + 1]]

PageSlot(p, slot) ==
  [page |-> p, offset |-> slot.offset, size |-> slot.size]

NewVpage(addr, p) == [addr |-> addr, page |-> p]

(* Mutant: the new page is entered in Forkmap only.                        *)
RegisterFork(addr, v, p) == forkmap' = Put(forkmap, addr, v) /\ pagemap' = pagemap

(* Both maps get the new virtual page; both lose a page that is freed.     *)
Register(addr, v, p) == /\ forkmap' = Put(forkmap, addr, v)
                        /\ pagemap' = Put(pagemap, addr, p)

(* Mutant: the entry in Pagemap stays.                                     *)
UnregisterFork(b) == forkmap' = Drop(forkmap, {b}) /\ pagemap' = pagemap

Unregister(b) == forkmap' = Drop(forkmap, {b}) /\ pagemap' = Drop(pagemap, {b})

AliasFaults(list) == Front(list) \in {Null, Wild} \/ PushBackFaults(list)

(* A new Vpage for addr goes to the end of list, the vlist of Ppage p.     *)
PushVpage(p, list, addr) == 
  LET v == Len(vpage) + 1
      r == PushBack(list, Append(prev, Null), Append(next, Null), v)
  IN
  /\ ppage' = [ppage EXCEPT ![p] = r.list]
  /\ vpage' = Append(vpage, NewVpage(addr, p))
  /\ prev' = r.prev /\ next' = r.next
  /\ Register(addr, v, p)

(* The i-th slot of the free list is the first that fits and is taken.     *)
TakeSlot(t, i) == 
  LET c == op[t].cls IN
  /\ AtPartial(t, "malloc")
  /\ FirstFit(free[t][c], PieceSlot(t), i)
  /\ free' = [free EXCEPT ![t][c] = Without(@, i)]
  /\ Advance(t, PieceSlot(t).size)
  /\ UNCHANGED <<pos, lower, upper, retired, live, fate>>

(* Its Ppage has no Vpage in its list: the piece gets a frame of its own.  *)
MallocOwn(t, i) ==
  LET p == free[t][op[t].cls][i].page
      b == PieceBase(t)
  IN
  /\ TakeSlot(t, i)
  /\ IsEmpty(ppage[p])
  /\ vm' = Put(vm, b, frames + 1) /\ frames' = frames + 1
  /\ held' = Put(held, b, PageSlot(p, PieceSlot(t)))
  /\ PushVpage(p, EmptyList, b)

(* It has: the piece becomes an alias of the page at the front of the      *)
(* list.  If that page is not mapped mremap fails, which nobody notices.   *)
MallocAlias(t, i) ==
  LET p      == free[t][op[t].cls][i].page
      b      == PieceBase(t)
      src    == vpage[Front(ppage[p])].addr
      mapped == src \in DOMAIN vm
  IN
  /\ TakeSlot(t, i)
  /\ ~IsEmpty(ppage[p]) /\ ~AliasFaults(ppage[p])
  /\ vm' = IF mapped THEN Put(vm, b, vm[src]) ELSE vm
  /\ held' = IF mapped THEN Put(held, b, PageSlot(p, PieceSlot(t))) ELSE held
  /\ UNCHANGED frames
  /\ PushVpage(p, ppage[p], IF mapped THEN b ELSE MapFailed)

(* The list says it is not empty, but has no front or no back.             *)
MallocDies(t, i) ==
  LET list == ppage[free[t][op[t].cls][i].page] IN
  /\ AtPartial(t, "malloc")
  /\ FirstFit(free[t][op[t].cls], PieceSlot(t), i)
  /\ ~IsEmpty(list) /\ AliasFaults(list)
  /\ Die("bad_deref")

(* No slot fits: the piece gets a fresh frame and a new Ppage, whose other *)
(* slots go to the free list.  The Vpage of the piece is entered in both   *)
(* maps but not in the list of the Ppage, and its links are not written.   *)
MallocFresh(t) ==
  LET c    == op[t].cls
      slot == PieceSlot(t)
      b    == PieceBase(t)
      p    == Len(ppage) + 1
      more == Populate(slot.offset, ClassSize[c])
  IN
  /\ AtPartial(t, "malloc")
  /\ NoneFits(free[t][c], slot)
  /\ vm' = Put(vm, b, frames + 1) /\ frames' = frames + 1
  /\ held' = Put(held, b, PageSlot(p, slot))
  /\ ppage' = Append(ppage, EmptyList)
  /\ vpage' = Append(vpage, NewVpage(b, p))
  /\ \E link \in StaleLinks : prev' = Append(prev, link) /\ next' = Append(next, link)
  /\ Register(b, Len(vpage) + 1, p)
  /\ free' = [free EXCEPT ![t][c] = @ \o
                [k \in DOMAIN more |-> PageSlot(p, more[k])]]
  /\ Advance(t, slot.size)
  /\ UNCHANGED <<pos, lower, upper, retired, live, fate>>

(* Whole pages get frames of their own.                                    *)
MallocWhole(t) ==
  LET size == WholeSize(op[t].remain)
      new  == PagesOf(op[t].vaddr, size)
  IN
  /\ AtWhole(t, "malloc")
  /\ vm' = [b \in DOMAIN vm \cup new |->
              IF b \in new THEN frames + 1 + ((b - op[t].vaddr) \div PageSize)
              ELSE vm[b]]
  /\ frames' = frames + (size \div PageSize)
  /\ Advance(t, size)
  /\ UNCHANGED <<pos, cacheVars, listVars, mapVars, held, retired, live, fate>>

(* Mutant: no red zone behind a chunk.                                     *)
BareStride(c) == ClassSize[c]

(* How far apart the chunks of a range are.                                *)
Stride(c) == ClassSize[c] + RzSize

(* The chunk is complete; the cache moves on past it and its red zone.     *)
FinishMalloc(t) ==
  LET c == op[t].cls IN
  /\ AtEnd(t, "malloc")
  /\ lower' = [lower EXCEPT ![t][c] = @ + Stride(c)]
  /\ live' = live \cup {[beg |-> op[t].beg, cls |-> c]}
  /\ op' = [op EXCEPT ![t] = Idle]
  /\ UNCHANGED <<pos, upper, free, listVars, mapVars, memoryVars, fate>>

(***************************************************************************)
(* Free, of any chunk the application holds, by any thread.                *)
(***************************************************************************)
StartFree(t) ==
  /\ Running /\ op[t].kind = "idle"
  /\ \E ch \in live : 
       /\ live' = live \ {ch}
       /\ op' = [op EXCEPT ![t] = NewCall("free", ch.cls, ch.beg)]
  /\ UNCHANGED <<pos, cacheVars, listVars, mapVars, memoryVars, fate>>

(* DeallocateChunk: both map entries and the list entry go, the slot goes  *)
(* to the free list of the thread that frees.                              *)
Known(b) == b \in DOMAIN forkmap /\ b \in DOMAIN pagemap      \* the CHECK_NEs

FreePartial(t) ==
  LET c == op[t].cls
      b == PieceBase(t)
      p == pagemap[b]
      r == Remove(ppage[p], prev, next, forkmap[b])
  IN
  /\ AtPartial(t, "free")
  /\ Known(b) /\ ~RemoveFaults(ppage[p], prev, next, forkmap[b])
  /\ ppage' = [ppage EXCEPT ![p] = r.list]
  /\ prev' = r.prev /\ next' = r.next
  /\ Unregister(b)
  /\ free' = [free EXCEPT ![t][c] = Append(@, PageSlot(p, PieceSlot(t)))]
  /\ Advance(t, PieceSlot(t).size)
  /\ UNCHANGED <<pos, lower, upper, vpage, memoryVars, live, fate>>

FreeDies(t) ==
  LET b == PieceBase(t) IN
  /\ AtPartial(t, "free")
  /\ Known(b) => RemoveFaults(ppage[pagemap[b]], prev, next, forkmap[b])
  /\ Die(IF Known(b) THEN "bad_deref" ELSE "check_failed")

(* Whole pages are only stepped over.                                      *)
FreeWhole(t) ==
  /\ AtWhole(t, "free")
  /\ Advance(t, WholeSize(op[t].remain))
  /\ UNCHANGED <<pos, cacheVars, listVars, mapVars, memoryVars, live, fate>>

(* MmapFixedNoAccess over all pages of the chunk.                          *)
FinishFree(t) ==
  LET gone == PagesOf(op[t].beg, ClassSize[op[t].cls]) IN
  /\ AtEnd(t, "free")
  /\ vm' = Drop(vm, gone)
  /\ held' = Drop(held, gone)
  /\ retired' = retired \cup gone
  /\ op' = [op EXCEPT ![t] = Idle]
  /\ UNCHANGED <<pos, cacheVars, listVars, mapVars, frames, live, fate>>

Malloc(t) == \/ \E c \in Class : StartMalloc(t, c) \/ Refill(t, c) \/ Exhausted(t, c)
             \/ \E i \in DOMAIN free[t][op[t].cls] : 
                  MallocOwn(t, i) \/ MallocAlias(t, i) \/ MallocDies(t, i)
             \/ MallocFresh(t)
             \/ MallocWhole(t)
             \/ FinishMalloc(t)

Free(t) == \/ StartFree(t)
           \/ FreePartial(t) \/ FreeDies(t)
           \/ FreeWhole(t)
           \/ FinishFree(t)

Next == \E t \in Thread : Malloc(t) \/ Free(t)

Spec == Init /\ [][Next]_vars

(***************************************************************************)
(* Properties.                                                             *)
(***************************************************************************)
(* The variables of each part of the state.                                *)
CacheTypes == /\ pos \in [Class -> Nat]
              /\ lower \in [Thread -> [Class -> Nat]]
              /\ upper \in [Thread -> [Class -> Nat]]
              /\ free \in [Thread -> [Class -> Seq(Freed)]]

ListTypes == /\ ppage \in Seq(Vlist)
             /\ vpage \in Seq(Vpage)
             /\ prev \in Seq(Int) /\ Len(prev) = Len(vpage)
             /\ next \in Seq(Int) /\ Len(next) = Len(vpage)

MapTypes == /\ DOMAIN forkmap \subseteq Int
            /\ \A b \in DOMAIN forkmap : forkmap[b] \in Nat
            /\ DOMAIN pagemap \subseteq Int
            /\ \A b \in DOMAIN pagemap : pagemap[b] \in Nat

MemoryTypes == /\ frames \in Nat
               /\ DOMAIN vm \subseteq Nat
               /\ \A b \in DOMAIN vm : vm[b] \in 1..frames
               /\ DOMAIN held \subseteq DOMAIN vm
               /\ \A b \in DOMAIN held : held[b] \in Freed
               /\ retired \subseteq Nat

CallTypes == live \subseteq Chunk /\ op \in [Thread -> Call] /\ fate \in Fate

(* Type invariant of all variables of the allocator: in particular no      *)
(* piece is longer than what is left of its chunk, and every frame behind  *)
(* a page was obtained from the kernel.                                    *)
TypeOK == CacheTypes /\ ListTypes /\ MapTypes /\ MemoryTypes /\ CallTypes

Pages(ch) == PagesOf(ch.beg, ClassSize[ch.cls])
InCall(t) == [beg |-> op[t].beg, cls |-> op[t].cls]
Busy      == {t \in Thread : op[t].kind # "idle"}

(* Chunks own their virtual pages: the pages of a chunk belong to no other *)
(* chunk that is held, being handed out or being freed (Allocate,          *)
(* GetFromAllocator), although threads take ranges independently.          *)
PagesExclusive ==
  /\ \A x, y \in live : x # y => Pages(x) \cap Pages(y) = {}
  /\ \A t \in Busy : \A x \in live : Pages(InCall(t)) \cap Pages(x) = {}
  /\ \A t, u \in Busy : t # u => Pages(InCall(t)) \cap Pages(InCall(u)) = {}

(* A dangling pointer never reaches accessible memory: a page of a freed   *)
(* chunk is neither mapped again nor given to another chunk (Deallocate,   *)
(* MmapFixedNoAccess).                                                     *)
NoRevival ==
  /\ retired \cap DOMAIN vm = {}
  /\ \A x \in live : Pages(x) \cap retired = {}
  /\ \A t \in Busy : Pages(InCall(t)) \cap retired = {}

(* What malloc returned can be used: every page of a held chunk is mapped, *)
(* which needs each mremap to have found a mapped page at the front of a   *)
(* vlist (AllocateChunk).  No other page is mapped, so a red zone is       *)
(* inaccessible.                                                           *)
ExactlyMapped ==
  /\ \A x \in live : Pages(x) \subseteq DOMAIN vm
  /\ \A b \in DOMAIN vm : \/ \E x \in live : b \in Pages(x)
                          \/ \E t \in Busy : b \in Pages(InCall(t))

(* The slots of a Ppage that are in free lists of any thread and those     *)
(* that are in use never overlap (AllocateChunk, DeallocateChunk).         *)
SlotsDisjoint ==
  LET InUse == {b \in DOMAIN pagemap : b \in DOMAIN held} 
      Clash(f, g) == f.page = g.page /\ ~DisjointSlots(f, g)
  IN
  /\ \A b, d \in InUse : b # d => ~Clash(held[b], held[d])
  /\ \A b \in InUse, t \in Thread, c \in Class : 
       \A i \in DOMAIN free[t][c] : ~Clash(held[b], free[t][c][i])
  /\ \A t, u \in Thread, c, d \in Class : 
       \A i \in DOMAIN free[t][c], j \in DOMAIN free[u][d] :
          <<t, c, i>> # <<u, d, j>> => ~Clash(free[t][c][i], free[u][d][j])

(* Two virtual pages have the same frame only if both are partial pages of *)
(* one Ppage: neither whole pages nor the pages of two Ppages are aliased. *)
SharingWithinPpage ==
  \A b, d \in DOMAIN vm : 
    b # d /\ vm[b] = vm[d] => /\ {b, d} \subseteq DOMAIN held
                              /\ held[b].page = held[d].page

(* The assertions of DeallocateChunk hold: a partial page that is being    *)
(* freed is in Forkmap and in Pagemap, because both were entered under the *)
(* address that mmap or mremap returned.                                   *)
ChecksHold == fate # "check_failed"

(* Both maps and the lists speak of the same pages: Forkmap and Pagemap    *)
(* have the same keys, and a Vpage found in Forkmap is the one of that     *)
(* page and of the Ppage found in Pagemap.                                 *)
MapsAgree ==
  /\ DOMAIN forkmap = DOMAIN pagemap
  /\ \A b \in DOMAIN forkmap : /\ vpage[forkmap[b]].addr = b
                               /\ vpage[forkmap[b]].page = pagemap[b]
                               /\ b \in DOMAIN held => held[b].page = pagemap[b]

(* The page an alias is made from is in use: the front of a vlist is null, *)
(* or a Vpage of that very Ppage that is mapped and registered.            *)
FrontInUse ==
  \A p \in DOMAIN ppage : 
    ppage[p].size > 0 /\ ppage[p].first # Null =>
      LET b == vpage[ppage[p].first].addr
      IN  b \in DOMAIN vm /\ b \in DOMAIN pagemap /\ pagemap[b] = p

(* The size of a vlist never exceeds the number of virtual pages of its    *)
(* Ppage and misses at most one of them, the page the Ppage was created    *)
(* for or the one that page's removal cut off.                             *)
MissesAtMostOne ==
  Running => 
    \A p \in DOMAIN ppage : 
      Cardinality({b \in DOMAIN pagemap : pagemap[b] = p}) - ppage[p].size \in {0, 1}

(* DoubleList::CheckConsistency holds of the vlist of every Ppage.         *)
VlistConsistent == 
  \A p \in DOMAIN ppage : CheckConsistency(ppage[p], next)

(* Every slot of a Ppage stays available: it is in use or in the free list *)
(* of some thread from the moment the Ppage exists, whoever allocates and  *)
(* whoever frees.                                                          *)
SlotsOf(p) == 
  {<<held[b].offset, held[b].size>> : 
     b \in {d \in DOMAIN pagemap : d \in DOMAIN held /\ pagemap[d] = p}}
  \cup
  UNION {{<<free[t][c][i].offset, free[t][c][i].size>> :
            i \in {j \in DOMAIN free[t][c] : free[t][c][j].page = p}} : 
         t \in Thread, c \in Class}

SlotsConserved == 
  [][\A p \in DOMAIN ppage : SlotsOf(p)' = SlotsOf(p)]_vars
=============================================================================
