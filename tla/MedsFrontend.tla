---------------------------- MODULE MedsFrontend ----------------------------
(***************************************************************************)
(* The front end of the MEDS allocator (meds_allocator.cc) over the        *)
(* combined allocator: where an object lies in its chunk, and the shadow   *)
(* bytes by which the instrumented program tells the object from the gap   *)
(* around it.  The primary allocator appears by what AliasingHeap promises *)
(* of it (a chunk lies in pages nobody had before), the secondary one by   *)
(* what LargeMmap does; here several threads change one shadow.            *)
(*                                                                         *)
(* Memory is a line of bytes: the region of the one size class, then the   *)
(* pages the kernel maps for large chunks.  A granule is Granule bytes and *)
(* has one byte of shadow.                                                 *)
(***************************************************************************)
EXTENDS Integers, FiniteSets

CONSTANTS
  Thread,
  PageSize, Granule,   \* bytes of a page; SHADOW_GRANULARITY
  MetaSize, RedZone,   \* kMetaSize and RZLog2Size(14)
  ClassSize,           \* the size of the one size class, kMaxSize as well
  RangeSize,           \* kPopulateSize
  RegionSize,          \* bound: bytes of the region of the size class
  MmapSize,            \* bound: bytes the kernel has for large chunks
  Request              \* bound: pairs of a size and an alignment to ask for

(* The red zone of a chunk is at least a page and ranges are whole pages;  *)
(* alignments are powers of two, as is a granule.  A granule is at most    *)
(* 128 bytes (the CHECK of SHADOW_SCALE): a count of its bytes is no       *)
(* poison.                                                                 *)
ASSUME SizesAssumption ==
  /\ {PageSize, Granule, MetaSize, RedZone, ClassSize, RangeSize, RegionSize} \subseteq Nat \ {0}
  /\ MmapSize \in Nat /\ Granule <= 128
  /\ PageSize % Granule = 0 /\ MetaSize % Granule = 0
  /\ ClassSize % Granule = 0 /\ RedZone % Granule = 0
  /\ PageSize <= RedZone /\ ClassSize <= RangeSize
  /\ RangeSize % PageSize = 0 /\ RegionSize % RangeSize = 0
  /\ (RegionSize + MmapSize) % (PageSize * Granule) = 0
  /\ \A r \in Request : r \in Nat \X Nat /\ (r[2] < Granule \/ r[2] % Granule = 0)

VARIABLES
  shadow,        \* the shadow byte of a granule
  mapped,        \* pages the program can access
  spent,         \* pages that were freed and are reserved without access
  lower, upper,  \* the rest of a thread's range of addresses
  pos,           \* where the next range begins
  live,          \* chunks of the objects the program holds
  op,            \* what a thread is doing
  wiped,         \* history: granules whose shadow a free has replaced
  process        \* "runs", or how it ended

vars == <<shadow, mapped, spent, lower, upper, pos, live, op, wiped, process>>

RoundDownTo(x, n) == x - (x % n)
RoundUpTo(x, n)   == RoundDownTo(x + n - 1, n)

(* kAsanHeapLeftRedzoneMagic, and a shadow byte whose page is unmapped.    *)
Poison == 250
Gone   == -1

Byte  == 0..(RegionSize + MmapSize - 1)
Cell  == 0..((RegionSize + MmapSize) \div Granule - 1)
PagesIn(beg, size) == (beg \div PageSize)..((beg + size - 1) \div PageSize)
CellsIn(beg, size) == (beg \div Granule)..((beg + size - 1) \div Granule)
CellsOf(pages)     == {c \in Cell : (c * Granule) \div PageSize \in pages}

----------------------------------------------------------------------------
(* The request as Allocate reads it: a size of 0 is 1, no alignment is     *)
(* below a granule.                                                        *)
SizeOf(r)  == IF r[1] = 0 THEN 1 ELSE r[1]
AlignOf(r) == IF r[2] < Granule THEN Granule ELSE r[2]

(* Mutant: the object is aligned within a bare chunk.                       *)
NoAlignRoom(r) == 0
AlignRoom(r) == IF AlignOf(r) > Granule THEN AlignOf(r) ELSE 0

Padded(r) == RoundUpTo(SizeOf(r), AlignOf(r)) + MetaSize + AlignRoom(r)

CanAllocate(size) == size <= ClassSize

Needed(r) == IF CanAllocate(Padded(r)) THEN Padded(r) ELSE Padded(r) + 2 * RedZone

(* A chunk with the object in it: user and size are what the metadata in   *)
(* front of the object leads from and to.                                  *)
NewChunk(beg, r) == 
  [beg |-> beg, needed |-> Needed(r), primary |-> CanAllocate(Padded(r)),
   user |-> RoundUpTo(beg + MetaSize, AlignOf(r)), size |-> SizeOf(r)]

GetActuallyAllocatedSize(ch) == 
  IF ch.primary THEN ClassSize ELSE RoundUpTo(ch.needed, PageSize)

(* The pages of a chunk; a large one has its header in the page before it. *)
PagesOf(ch) == 
  IF ch.primary THEN PagesIn(ch.beg, ClassSize)
  ELSE PagesIn(ch.beg - PageSize, RoundUpTo(ch.needed, PageSize) + PageSize)

(* What OnMap was called for: the page of the head, the whole pages, the   *)
(* page of the tail.                                                       *)
(* Mutant: no OnMap for the last page.                                      *)
OnMapNoTail(ch) ==
  {p \in PagesOf(ch) : \E q \in PagesOf(ch) : q > p}
OnMapPages(ch) == PagesOf(ch)

(* What MmapFixedNoAccess is called for when a chunk is freed.             *)
(* Mutant: the size is rounded down to pages.                               *)
ReleasedWhole(ch) ==
  IF ch.primary THEN PagesIn(ch.beg, RoundDownTo(ClassSize, PageSize)) ELSE PagesOf(ch)
ReleasedPages(ch) == PagesOf(ch)

(* The whole pages of shadow that UnmapShadow replaces.                    *)
Window(ch) == 
  LET span == PageSize * Granule
      end  == RoundUpTo(ch.beg + GetActuallyAllocatedSize(ch), span) IN
  CellsIn(RoundDownTo(ch.beg, span), end - RoundDownTo(ch.beg, span))

----------------------------------------------------------------------------
None == [pc |-> "none"]
Idle == [pc |-> "idle"]

Init ==
  /\ shadow = [c \in Cell |-> 0]
  /\ mapped = {} /\ spent = {}
  /\ lower = [t \in Thread |-> 0] /\ upper = [t \in Thread |-> 0]
  /\ pos = 0
  /\ live = {}
  /\ op = [t \in Thread |-> Idle]
  /\ wiped = {}
  /\ process = "runs"

At(t, pc) == process = "runs" /\ op[t].pc = pc

(* A thread reads or writes the shadow of the granules in cells: without   *)
(* its page the process dies of a fault, otherwise Change happens.         *)
Touch(cells, Change) ==
  \/ /\ \A c \in cells : shadow[c] # Gone
     /\ Change
     /\ UNCHANGED process
  \/ /\ \E c \in cells : shadow[c] = Gone
     /\ process' = "faulted"
     /\ UNCHANGED <<shadow, mapped, spent, live, op>>

Fill(cells, value) == shadow' = [c \in Cell |-> IF c \in cells THEN value ELSE shadow[c]]

(* A thread begins an allocation, on its own or for realloc (old).  The    *)
(* combined allocator picks the primary or the secondary one; the pages    *)
(* are mapped.  A range that cannot be had ends the process.               *)
HasRoom(t) == lower[t] + ClassSize <= upper[t]
(* Mutant: chunks without a gap.                                            *)
NoRedZone == ClassSize
Stride == ClassSize + RedZone

Place(t, r, beg, old) ==
  /\ op' = [op EXCEPT ![t] = [pc |-> "poison", ch |-> NewChunk(beg, r), old |-> old]]
  /\ mapped' = mapped \cup PagesOf(NewChunk(beg, r))

FromPrimary(t, r, old) == 
  LET beg == IF HasRoom(t) THEN lower[t] ELSE pos IN
  /\ CanAllocate(Padded(r))
  /\ HasRoom(t) \/ pos < RegionSize
  /\ Place(t, r, beg, old)
  /\ lower' = [lower EXCEPT ![t] = beg + Stride]
  /\ IF HasRoom(t) THEN UNCHANGED <<upper, pos>>
     ELSE upper' = [upper EXCEPT ![t] = pos + RangeSize] /\ pos' = pos + RangeSize

(* MmapOrDie: the kernel picks pages that are neither in use nor reserved. *)
FromSecondary(t, r, old) ==
  LET map_size == RoundUpTo(Needed(r), PageSize) + PageSize IN
  /\ ~CanAllocate(Padded(r))
  /\ \E page \in (RegionSize \div PageSize)..((RegionSize + MmapSize - map_size) \div PageSize) :
       /\ PagesIn(page * PageSize, map_size) \cap (mapped \cup spent) = {}
       /\ Place(t, r, (page + 1) * PageSize, old)
  /\ UNCHANGED <<lower, upper, pos>>

Allocate(t, r, old) ==
  /\ FromPrimary(t, r, old) \/ FromSecondary(t, r, old)
  /\ UNCHANGED <<shadow, spent, wiped, process>>

Malloc(t) == 
  /\ At(t, "idle") 
  /\ \E r \in Request : Allocate(t, r, None) 
  /\ UNCHANGED live

(* realloc: the old object is freed after the new one has its contents.    *)
Realloc(t) == 
  /\ At(t, "idle")
  /\ \E r \in Request, old \in live : 
       r[1] # 0 /\ Allocate(t, <<r[1], Granule>>, old) /\ live' = live \ {old}

Exhausted(t) ==
  /\ At(t, "idle") /\ ~HasRoom(t) /\ pos >= RegionSize
  /\ \E r \in Request : CanAllocate(Padded(r))
  /\ process' = "exhausted"
  /\ UNCHANGED <<shadow, mapped, spent, lower, upper, pos, live, op, wiped>>

Goto(t, pc) == op' = [op EXCEPT ![t].pc = pc]

(* AsanMapUnmapCallback::OnMap.  A memset is not atomic; what a remapping  *)
(* in the middle of it leaves is zero or poison, as before or after it.    *)
OnMap(t) ==
  LET cells == CellsOf(OnMapPages(op[t].ch)) IN
  /\ At(t, "poison")
  /\ Touch(cells, Fill(cells, Poison) /\ Goto(t, "check") /\ UNCHANGED <<mapped, spent, live>>)
  /\ UNCHANGED <<lower, upper, pos, wiped>>

(* Allocate looks at the first shadow byte of the chunk and poisons all of  *)
(* them again when a free has wiped that one since.                         *)
PoisonAgain(t) ==
  LET ch == op[t].ch
      first == ch.beg \div Granule
      cells == CellsIn(ch.beg, GetActuallyAllocatedSize(ch)) 
      again == shadow[first] = 0 IN
  /\ At(t, "check")
  /\ Touch(IF again THEN cells ELSE {first}, 
           /\ IF again THEN Fill(cells, Poison) ELSE UNCHANGED shadow
           /\ Goto(t, "unpoison")
           /\ UNCHANGED <<mapped, spent, live>>)
  /\ UNCHANGED <<lower, upper, pos, wiped>>

(* The object's place is settled (CHECK_LE), and its whole granules become *)
(* addressable.                                                            *)
Fits(ch) == ch.user + ch.size <= ch.beg + ch.needed

(* Mutant: as if the object followed the metadata.                          *)
CellsUnaligned(ch) ==
  IF ch.size < Granule THEN {} 
  ELSE CellsIn(ch.beg + MetaSize, RoundDownTo(ch.size, Granule))
WholeCells(ch) == 
  IF ch.size < Granule THEN {} ELSE CellsIn(ch.user, RoundDownTo(ch.size, Granule))

Unpoison(t) ==
  LET ch == op[t].ch IN
  /\ At(t, "unpoison")
  /\ IF Fits(ch) 
     THEN Touch(WholeCells(ch), 
                Fill(WholeCells(ch), 0) /\ Goto(t, "partial") /\ UNCHANGED <<mapped, spent, live>>)
     ELSE process' = "check failed" /\ UNCHANGED <<shadow, mapped, spent, live, op>>
  /\ UNCHANGED <<lower, upper, pos, wiped>>

(* The shadow of the last granule says how many of its bytes the object    *)
(* has; the object goes to the program, or realloc goes on to the old one. *)
LastBytes(ch) == ch.size % Granule
Publish(t) ==
  LET ch   == op[t].ch
      rest == IF LastBytes(ch) = 0 THEN {} 
              ELSE {(ch.user + RoundDownTo(ch.size, Granule)) \div Granule} IN
  /\ At(t, "partial")
  /\ Touch(rest, 
           /\ Fill(rest, LastBytes(ch))
           /\ live' = live \cup {ch}
           /\ op' = [op EXCEPT ![t] = IF @.old = None THEN Idle
                                      ELSE [pc |-> "free", ch |-> @.old, old |-> None]]
           /\ UNCHANGED <<mapped, spent>>)
  /\ UNCHANGED <<lower, upper, pos, wiped>>

(* Deallocate follows the metadata to the chunk and unmaps its shadow ...  *)
UnmapShadow(t, ch) ==
  /\ Fill(Window(ch), Gone)
  /\ wiped' = wiped \cup Window(ch)
  /\ op' = [op EXCEPT ![t] = [pc |-> "remap", ch |-> ch, old |-> None]]
  /\ UNCHANGED <<mapped, spent, lower, upper, pos, process>>

Free(t)    == At(t, "idle") /\ \E ch \in live : UnmapShadow(t, ch) /\ live' = live \ {ch}
FreeOld(t) == At(t, "free") /\ UnmapShadow(t, op[t].ch) /\ UNCHANGED live

(* ... maps it again, all zero ...                                         *)
MapShadow(t) ==
  /\ At(t, "remap")
  /\ Fill(Window(op[t].ch), 0)
  /\ Goto(t, "release")
  /\ UNCHANGED <<mapped, spent, lower, upper, pos, live, wiped, process>>

(* ... and the pages lose their access.  For a large chunk OnUnmap clears  *)
(* the shadow of all its pages before.                                     *)
Release(t) ==
  LET ch    == op[t].ch
      cells == IF ch.primary THEN {} ELSE CellsOf(PagesOf(ch)) IN
  /\ At(t, "release")
  /\ Touch(cells,
           /\ Fill(cells, 0)
           /\ mapped' = mapped \ ReleasedPages(ch)
           /\ spent' = spent \cup ReleasedPages(ch)
           /\ op' = [op EXCEPT ![t] = Idle]
           /\ UNCHANGED live)
  /\ UNCHANGED <<lower, upper, pos>>
  /\ wiped' = IF process' = "runs" THEN wiped \cup cells ELSE wiped

Step(t) == 
  \/ Malloc(t) \/ Realloc(t) \/ Exhausted(t)
  \/ OnMap(t) \/ PoisonAgain(t) \/ Unpoison(t) \/ Publish(t)
  \/ Free(t) \/ FreeOld(t) \/ MapShadow(t) \/ Release(t)

Next == \E t \in Thread : Step(t)

Spec == Init /\ [][Next]_vars
----------------------------------------------------------------------------
(* Chunks whose memory is in someone's hands.                              *)
Busy == {t \in Thread : op[t].pc # "idle"}
Old  == {op[t].old : t \in Busy} \ {None}
Held == live \cup Old \cup {op[t].ch : t \in Busy}

User(ch) == ch.user..(ch.user + ch.size - 1)

BytesAround(ch) == {b \in Byte \ User(ch) : b \div PageSize \in PagesOf(ch)}

(* What the check in front of an access finds in the shadow of byte b.     *)
Traps(b) == 
  LET s == shadow[b \div Granule] IN
  \/ b \div PageSize \notin mapped
  \/ s = Gone \/ s = Poison
  \/ s > 0 /\ b % Granule >= s

(* The types of the variables, and no CHECK of Allocate has failed.        *)
TypeOK ==
  /\ shadow \in [Cell -> {Gone, Poison} \cup 0..(Granule - 1)]
  /\ mapped \cap spent = {}
  /\ process \in {"runs", "exhausted", "faulted"}
  /\ \A ch \in Held : ch.beg \in Byte /\ Window(ch) \subseteq Cell

(* An object lies in its chunk behind its metadata, aligned for Allocate's *)
(* caller, and chunks are apart: no page, hence no shadow byte of a page,  *)
(* belongs to two of them (the sizes Allocate asks for, the size class or  *)
(* the mapping it gets, the red zone the primary leaves).                  *)
ObjectsApart ==
  \A ch \in Held : 
    /\ ch.beg + MetaSize <= ch.user
    /\ ch.user + ch.size <= ch.beg + GetActuallyAllocatedSize(ch)
    /\ \A other \in Held \ {ch} : PagesOf(ch) \cap PagesOf(other) = {}

(* No false report: an access to an object the program holds passes the    *)
(* check, whatever allocations and frees of neighbours are under way; only *)
(* while a free has a page of shadow unmapped may it fault.                *)
ObjectsAddressable ==
  \A ch \in live \cup Old : \A b \in User(ch) :
    \/ ~Traps(b)
    \/ shadow[b \div Granule] = Gone /\ \E t \in Busy : 
         op[t].pc = "remap" /\ b \div Granule \in Window(op[t].ch)

(* A missed overflow has one cause: a free has replaced the page of shadow *)
(* (UnmapShadow rounds to whole pages).  Everywhere else in the pages of a *)
(* chunk each byte outside the object traps.                               *)
MissesOnlyNearFrees ==
  \A ch \in live : \A b \in BytesAround(ch) : Traps(b) \/ b \div Granule \in wiped

(* A dangling pointer traps: only pages of chunks in use are accessible,   *)
(* although the shadow of a freed chunk says addressable.                  *)
DanglingTraps == mapped = UNION {PagesOf(ch) : ch \in Held}

(* What the test meds_heap_oob.cc says of the program: a write behind an   *)
(* object, in the gap around it, is reported.                              *)
OverflowsReported ==
  \A ch \in live : \A b \in BytesAround(ch) : b < ch.user \/ Traps(b)
=============================================================================
