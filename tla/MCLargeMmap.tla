---------------------------- MODULE MCLargeMmap ----------------------------
(***************************************************************************)
(* Instances of LargeMmap for TLC.                                         *)
(***************************************************************************)
EXTENDS LargeMmap, TLC

CONSTANTS t1, t2

ThreadsAlike == Permutations(Thread)
=============================================================================
