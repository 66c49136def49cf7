---------------------------- MODULE MCDominance ----------------------------
(***************************************************************************)
(* Dominance on every graph of nodes 1 to 4 without self-loops in which    *)
(* nothing points at node 1, on every graph without self-loops of the      *)
(* nodes 1 to 3 any arcs of which, and node 3, were cut before the query,  *)
(* and on those of nodes 1 and 2 beside a cut node 3 where an arc to or    *)
(* from node 4 was cut and node 4 then deleted.                            *)
(***************************************************************************)
EXTENDS Dominance

const_Node == 1 .. 4
const_Key  == 1 .. 4

Others(n) == SUBSET ((2 .. 4) \ {n})
Whole ==
  {[live |-> const_Node, succ |-> <<s1, s2, s3, s4>>,
    hidVert |-> {}, hidArc |-> {}] :
     s1 \in Others(1), s2 \in Others(2), s3 \in Others(3), s4 \in Others(4)}

Pairs(L) == {a \in L \X L : a[1] # a[2]}
SuccOf(A) == [n \in const_Node |-> {a[2] : a \in {b \in A : b[1] = n}}]
PartlyCut(L, V) ==
  UNION {{[live |-> L, succ |-> SuccOf(A), hidVert |-> V, hidArc |-> H] :
            H \in SUBSET (Pairs(L \cup V) \ A)} : A \in SUBSET Pairs(L)}

Dangling(a) ==
  {[g EXCEPT !.hidArc = @ \cup {a}] : g \in PartlyCut({1, 2}, {3})}

const_Graphs ==
  Whole \cup PartlyCut({1, 2, 3}, {}) \cup PartlyCut({1, 2}, {3})
    \cup Dangling(<<1, 4>>) \cup Dangling(<<4, 2>>)
=============================================================================
