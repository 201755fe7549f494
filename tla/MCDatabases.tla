---------------------------- MODULE MCDatabases ----------------------------
(***************************************************************************)
(* Databases for TLC.  Requests, tables and records are interchangeable:   *)
(* nothing in Databases names or orders them.                              *)
(***************************************************************************)
EXTENDS Databases, TLC

MCSymmetry == Permutations(Threads) \cup Permutations(Tables) \cup Permutations(Ids)
=============================================================================
