---------------------------- MODULE ChunkLayout ----------------------------
(***************************************************************************)
(* How the aliasing allocator cuts a chunk into pieces that each lie in    *)
(* one virtual page, and which slots a fresh physical page offers to later *)
(* chunks of the same size class.  Pure arithmetic of                      *)
(* sanitizer_common/sanitizer_aliasing.h.                                  *)
(***************************************************************************)
EXTENDS Integers, Sequences

CONSTANT PageSize                \* page_size_ of the thread cache

ASSUME PageSizeAssumption == PageSize \in Nat \ {0}

RoundDownTo(x) == x - (x % PageSize)
OffsetOf(x)    == x % PageSize
Aligned(x)     == OffsetOf(x) = 0

Least(a, b) == IF a < b THEN a ELSE b

(* A chunk is handled from its address upwards.  Its bytes up to the next  *)
(* page boundary are a partial piece unless they fill whole pages; the     *)
(* whole pages after it are handled together; the rest is a partial piece. *)
IsPartial(vaddr, remain) == remain > 0 /\ (~Aligned(vaddr) \/ remain < PageSize)
IsWhole(vaddr, remain)   == Aligned(vaddr) /\ remain >= PageSize

(* Mutant: the piece is not cut at the end of the chunk.                   *)
UncutPartialSize(vaddr, remain) == PageSize - OffsetOf(vaddr)

PartialSize(vaddr, remain) == Least(PageSize - OffsetOf(vaddr), remain)
WholeSize(remain)          == RoundDownTo(remain)

(* The base addresses of the pages that [beg, beg + size) touches.         *)
PagesOf(beg, size) == 
  {b \in RoundDownTo(beg)..(beg + size - 1) : Aligned(b)}

(* A slot is a byte range of a physical page.                              *)
Slot(offset, size)  == [offset |-> offset, size |-> size]
DisjointSlots(a, b) == \/ a.offset + a.size <= b.offset 
                       \/ b.offset + b.size <= a.offset

(* The slots behind and in front of the first piece of a fresh page, at    *)
(* every multiple of the class size from that piece, cut at the page end   *)
(* and at the piece.                                                       *)
BackSlots(offset, csize) == 
  [k \in 1..((PageSize - 1 - offset) \div csize) |-> 
     LET pos == offset + k * csize IN Slot(pos, Least(PageSize - pos, csize))]

(* Mutant: the last slot in front is not cut where the first piece begins. *)
UncutFrontSlots(offset, csize) == 
  [k \in 1..((offset + (csize - 1)) \div csize) |-> Slot((k - 1) * csize, csize)]

FrontSlots(offset, csize) == 
  [k \in 1..((offset + (csize - 1)) \div csize) |-> 
     LET pos == (k - 1) * csize IN Slot(pos, Least(offset - pos, csize))]

Populate(offset, csize) == BackSlots(offset, csize) \o FrontSlots(offset, csize)
=============================================================================
