---------------------------- MODULE MCThreadLife ----------------------------
(***************************************************************************)
(* An instance of ThreadLife for TLC: a first thread and three others,     *)
(* each of which can create the next, so that two creations, or a creation *)
(* and an end, overlap; fewer addresses than threads, so that an object is *)
(* mapped where a dead one was.                                            *)
(***************************************************************************)
EXTENDS ThreadLife, TLC

CONSTANTS o1, o2, o3, o4, a1, a2, a3

Symmetry == Permutations({a1, a2, a3})
=============================================================================
