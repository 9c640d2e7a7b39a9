--------------------------- MODULE AliasedMemory ---------------------------
(***************************************************************************)
(* The heap of AliasingHeap together with the bytes behind it.  A frame    *)
(* comes zeroed from the kernel and keeps its bytes from one chunk to the  *)
(* next; a write goes through the page table.  The chunks then behave as   *)
(* PrivateMemory although their pages share frames.                        *)
(***************************************************************************)
EXTENDS AliasingHeap

CONSTANTS
  Value, Zero,      \* what a byte holds, and what the kernel fills pages with
  MaxDirty          \* bound: bytes other than Zero at a time

ASSUME ValueAssumption == Zero \in Value

VARIABLE mem      \* mem[f][i]: the i-th byte of frame f

MemInit == Init /\ mem = <<>>

(* A step of the allocator writes no byte of the application's pages; the  *)
(* frames it obtains are zero.                                             *)
HeapStep == 
  /\ Next
  /\ mem' = [f \in 1..frames' |-> 
               IF f \in DOMAIN mem THEN mem[f] ELSE [i \in 0..(PageSize - 1) |-> Zero]]

(* The physical bytes that are not zero.                                   *)
Dirty == {x \in (DOMAIN mem) \X (0..(PageSize - 1)) : 
            mem[x[1]][x[2]] # Zero}

(* The bytes of a chunk, counted from its beginning.                       *)
Offsets(ch) == 0..(ClassSize[ch.cls] - 1)

(* The program writes a byte of a chunk it holds.                          *)
Write(ch, i, value) ==
  LET b == RoundDownTo(ch.beg + i) IN
  /\ Running /\ ch \in live
  /\ b \in DOMAIN vm
  /\ value = Zero \/ Cardinality(Dirty) < MaxDirty
  /\ mem' = [mem EXCEPT ![vm[b]][OffsetOf(ch.beg + i)] = value]
  /\ UNCHANGED vars

MemNext == 
  \/ HeapStep
  \/ \E ch \in live : \E i \in Offsets(ch), value \in Value :
       Write(ch, i, value)

MemSpec == MemInit /\ [][MemNext]_<<vars, mem>>

(* The bytes of the chunks that the program holds, as it sees them through *)
(* the page table.                                                         *)
Contents == 
  [ch \in live |-> [i \in Offsets(ch) |-> 
     mem[vm[RoundDownTo(ch.beg + i)]][OffsetOf(ch.beg + i)]]]

(* The promise of malloc and free: seen this way, the chunks are private   *)
(* memory (AllocateChunk's aliasing and DeallocateChunk's reuse of slots   *)
(* are invisible to the program).                                          *)
Promise == INSTANCE PrivateMemory WITH
  Chunk   <- [beg : 0..(SpaceBeg + RegionSize * NumClasses), cls : Class],
  content <- Contents

PrivateMemoryKept == Promise!Spec
=============================================================================
