----------------------- MODULE MCAddrHashMapIterator -----------------------
(***************************************************************************)
(* An instance of AddrHashMapIterator for TLC.                             *)
(***************************************************************************)
EXTENDS AddrHashMapIterator, TLC

CONSTANTS t1, t2, k1, k2, k3, k4, v1

ThreadsAndKeys == Permutations(Thread) \cup Permutations(Key)
=============================================================================
