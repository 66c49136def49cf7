------------------------------ MODULE MCLoopTree ------------------------------
(***************************************************************************)
(* LoopTree on every graph of at most three nodes, and on the graphs of    *)
(* four nodes without self-loops in which nothing points at node 1.        *)
(***************************************************************************)
EXTENDS LoopTree

const_Node == 1 .. 4
const_Key  == 1 .. 5

Small ==
  {[live |-> L, succ |-> [n \in const_Node |-> IF n \in L THEN s[n] ELSE {}]] :
     L \in SUBSET (1 .. 3), s \in [1 .. 3 -> SUBSET (1 .. 3)]}
Others(n) == SUBSET ((2 .. 4) \ {n})
Rooted ==
  {[live |-> const_Node, succ |-> <<s1, s2, s3, s4>>] :
     s1 \in Others(1), s2 \in Others(2), s3 \in Others(3), s4 \in Others(4)}

const_Graphs == {g \in Small : IsGraph(g.live, g.succ)} \cup Rooted
=============================================================================
