-------------------------- MODULE MCCheckElimination --------------------------
(***************************************************************************)
(* CheckElimination with four checks of at most two signatures in three    *)
(* graphs: a branch that joins inside a loop, a chain that ends in a loop, *)
(* and an unreachable block; with every order RPO may choose.              *)
(***************************************************************************)
EXTENDS CheckElimination

const_Node  == 1 .. 3
const_Check == 1 .. 4
const_Sig   == {"a", "b"}

Flow == {<<{2, 3}, {3}, {1}>>, <<{2}, {3}, {2}>>, <<{2}, {}, {2}>>}

Orders(g) ==
  {s \in [1 .. Cardinality(Reach(g, 1)) -> Reach(g, 1)] : RpoSequence(g, 1, s)}

const_Graphs ==
  UNION {{[succ |-> g, header |-> 1, rpo |-> s] : s \in Orders(g)} :
           g \in Flow}
=============================================================================
