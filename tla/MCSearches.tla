----------------------------- MODULE MCSearches ------------------------------
(***************************************************************************)
(* Searches on every graph with at most three nodes, for every root and end*)
(* key, 4 being a key that no graph has.                                   *)
(***************************************************************************)
EXTENDS Searches

const_Node == 1 .. 3
const_Key  == 1 .. 4
=============================================================================
