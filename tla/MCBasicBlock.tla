---------------------------- MODULE MCBasicBlock ----------------------------
(***************************************************************************)
(* Blocks and instructions of BasicBlock are interchangeable: no operation *)
(* looks at which ones it gets.                                            *)
(***************************************************************************)
EXTENDS BasicBlock

Symmetry == Permutations(Instr) \cup Permutations(Block)
=============================================================================
