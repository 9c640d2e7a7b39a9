--------------------------- MODULE MCMedsFrontend ---------------------------
(***************************************************************************)
(* An instance of MedsFrontend for TLC: pages of two granules of 4 bytes,  *)
(* so that a page of shadow covers four pages.  Chunks of 20 bytes, 28     *)
(* apart, begin at the start or in the middle of a page; a page of shadow  *)
(* covers bytes of two or three chunks, and of the large one.              *)
(***************************************************************************)
EXTENDS MedsFrontend, TLC

CONSTANTS t1, t2

(* malloc(0), an aligned object with a partial granule, a large one.       *)
Requests == {<<0, 1>>, <<5, 8>>, <<17, 1>>}

Symmetry == Permutations(Thread)
=============================================================================
