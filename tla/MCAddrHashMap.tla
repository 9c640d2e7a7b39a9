--------------------------- MODULE MCAddrHashMap ---------------------------
(***************************************************************************)
(* An instance of AddrHashMap for TLC.                                     *)
(***************************************************************************)
EXTENDS AddrHashMap

CONSTANTS t1, t2, k1, k2, k3, v1, v2
=============================================================================
