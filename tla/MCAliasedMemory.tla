-------------------------- MODULE MCAliasedMemory --------------------------
(***************************************************************************)
(* An instance of AliasedMemory for TLC: chunks of 3 bytes in pages of 8,  *)
(* so that a page offers the slots 0-2, 3-5 and 6-7 and a chunk at offset  *)
(* 6 has a piece in two pages; two values of which one is that of fresh    *)
(* memory.                                                                 *)
(***************************************************************************)
EXTENDS AliasedMemory, TLC

CONSTANTS t1, t2

SmallClass == (0 :> 3)
AnyLinks   == {Null, Wild}
Symmetry   == Permutations(Thread)
=============================================================================
