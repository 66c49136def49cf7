-------------------------------- MODULE MCRpo --------------------------------
(***************************************************************************)
(* Rpo on every graph with at most three nodes, for every root, 4 being a  *)
(* key that no graph has.                                                  *)
(***************************************************************************)
EXTENDS Rpo

const_Node == 1 .. 3
const_Key  == 1 .. 4
=============================================================================
