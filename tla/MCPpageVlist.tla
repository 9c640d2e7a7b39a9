---------------------------- MODULE MCPpageVlist ----------------------------
(***************************************************************************)
(* An instance of PpageVlist for TLC: three threads, so that two sleep for *)
(* the mutex at once, and enough Vpages for the middle of a list.          *)
(***************************************************************************)
EXTENDS PpageVlist, TLC

CONSTANTS t1, t2, t3
=============================================================================
