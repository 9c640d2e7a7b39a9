--------------------------- MODULE MCAliasingHeap ---------------------------
(***************************************************************************)
(* Instances of AliasingHeap for TLC.  A region ends and addresses are     *)
(* never used again, so every behaviour is finite: RegionSize is the only  *)
(* bound.                                                                  *)
(***************************************************************************)
EXTENDS HeapInvariant, TLC

CONSTANTS t1, t2

(* Chunks of 3 bytes in pages of 8: a page offers the slots 0-2, 3-5 and   *)
(* 6-7.                                                                    *)
SmallClass == (0 :> 3)

(* Chunks of 10 bytes: a whole page and a tail, or two partial pieces.     *)
SpanningClass == (0 :> 10)

(* What the links nobody wrote hold: memory that is still zero, or memory  *)
(* that was used before.                                                   *)
ZeroLinks == {Null}
WildLinks == {Wild}

Symmetry == Permutations(Thread)
=============================================================================
