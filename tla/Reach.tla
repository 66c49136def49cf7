-------------------------------- MODULE Reach --------------------------------
(***************************************************************************)
(* What the graph algorithms of include/graph.hpp are measured against:    *)
(* reachability and dominance in a graph given by its successor sets, with *)
(* no reference to an order of visits.  A node is reachable when it is in  *)
(* every set that holds the root and is closed under successors.           *)
(***************************************************************************)
EXTENDS Integers, FiniteSets

CONSTANT Node           \* node keys

ASSUME NodeAssumption == Node \subseteq Nat \ {0}

Closed(S, C)  == \A n \in C : S[n] \subseteq C
Reach(S, r)   == {n \in Node :
                    \A C \in SUBSET Node : r \in C /\ Closed(S, C) => n \in C}

(* A graph as a caller of the algorithms has it: the live nodes and, for    *)
(* each of them, its successors, live too.                                 *)
IsGraph(L, S) ==
  /\ L \in SUBSET Node
  /\ S \in [Node -> SUBSET L]
  /\ \A n \in Node \ L : S[n] = {}

(* The graph without node a, which is what cut_node(a) leaves.             *)
Without(S, a) == [n \in Node |-> IF n = a THEN {} ELSE S[n] \ {a}]

(* Every walk from r to b passes through a.                                *)
Dominates(S, r, a, b) ==
  /\ b \in Reach(S, r)
  /\ a = r \/ b \notin Reach(Without(S, a), r)

(* The paths from r to b over the nodes L: sequences of distinct nodes each *)
(* of which is a successor of the one before.                              *)
Paths(L, S, r, b) ==
  UNION {{p \in [1 .. k -> L] :
            /\ p[1] = r /\ p[k] = b
            /\ \A i \in 1 .. k - 1 : p[i + 1] \in S[p[i]]
            /\ \A i, j \in 1 .. k : p[i] = p[j] => i = j} :
           k \in 1 .. Cardinality(L)}

(* m is the first key of the ordered container S.                          *)
IsFirst(m, S) == m \in S /\ \A k \in S : m <= k
=============================================================================
