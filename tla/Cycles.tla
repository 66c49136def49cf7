-------------------------------- MODULE Cycles --------------------------------
(***************************************************************************)
(* Graph::get_cycles and its recursion get_cycles_ (include/graph.hpp:     *)
(* 758-810), the first step of the loop analyzer: a depth-first search     *)
(* that reports every edge to a GRAY node as the back edge of a cycle,     *)
(* then one dominance query per cycle to tell the reducible ones.          *)
(*                                                                         *)
(* The search is laid out as in Dfs, without its early end: end_key is not *)
(* used.  A cycle is its back edge; the key that get_edge_id finds for it  *)
(* is left out, CfgGraph!NoTwinEdges makes it a function of the two ends.  *)
(* A query of is_a_dominates_b is the relation Dominates, the property     *)
(* DominatesEveryPath of Dominance, on a graph nothing of which is cut.    *)
(***************************************************************************)
EXTENDS Coloring

CONSTANT Graphs         \* the graphs to search

ASSUME GraphsAssumption ==
  \A g \in Graphs : IsGraph(g.live, g.succ) /\ IsFiniteSet(g.live)

VARIABLES saved,        \* result of preserve_colors_
          root,         \* argument of the call
          stack, rest,  \* the calls of get_cycles_ under way
          vec,          \* the cycles found
          next,         \* the cycle the dominance query is made for
          pc            \* "idle", "scan", "ask", or "done"

cycleLocals == <<saved, root, stack, rest, vec, next, pc>>
cycleVars   ==
  <<live, succ, color, saved, root, stack, rest, vec, next, pc>>

Cycle(head, start) ==
  [head_node |-> head, back_edge_start |-> start, is_reducible |-> FALSE]

Init ==
  /\ \E g \in Graphs : live = g.live /\ succ = g.succ
  /\ AllWhite
  /\ saved = color
  /\ root = 0
  /\ stack = <<>>
  /\ rest = [n \in Node |-> {}]
  /\ vec = <<>>
  /\ next = 1
  /\ pc = "idle"

Top == stack[Len(stack)]

(* The call.  A root that is not WHITE is not entered, there are no cycles *)
(* then and the colours are recovered at once.                             *)
get_cycles(r) ==
  /\ pc \in {"idle", "done"}
  /\ root' = r
  /\ vec' = <<>>
  /\ next' = 1
  /\ \/ /\ r \notin live
        /\ pc' = "done"
        /\ UNCHANGED <<color, saved, stack, rest>>
     \/ /\ r \in live
        /\ saved' = color
        /\ IF color[r] = "WHITE"
             THEN /\ color' = [color EXCEPT ![r] = "GRAY"]
                  /\ stack' = <<r>>
                  /\ rest' = [rest EXCEPT ![r] = succ[r]]
             ELSE UNCHANGED <<color, stack, rest>>
        /\ pc' = "scan"
  /\ UNCHANGED graph

(* One turn of the for loop: the successor is GRAY, a cycle is reported.   *)
BackEdge ==
  /\ pc = "scan" /\ stack # <<>>
  /\ \E m \in rest[Top] :
       /\ IsFirst(m, rest[Top]) /\ color[m] = "GRAY"
       /\ rest' = [rest EXCEPT ![Top] = @ \ {m}]
       /\ vec' = Append(vec, Cycle(m, Top))
  /\ UNCHANGED <<graph, color, saved, root, stack, next, pc>>

(* Mutant: a node is BLACK from its first visit on.                        *)
DescendBlack ==
  /\ pc = "scan" /\ stack # <<>>
  /\ \E m \in rest[Top] :
       /\ IsFirst(m, rest[Top]) /\ color[m] = "WHITE"
       /\ color' = [color EXCEPT ![m] = "BLACK"]
       /\ stack' = Append(stack, m)
       /\ rest' = [rest EXCEPT ![Top] = @ \ {m}, ![m] = succ[m]]
  /\ UNCHANGED <<graph, saved, root, vec, next, pc>>

(* The successor is WHITE, get_cycles_ is called on it.                    *)
Descend ==
  /\ pc = "scan" /\ stack # <<>>
  /\ \E m \in rest[Top] :
       /\ IsFirst(m, rest[Top]) /\ color[m] = "WHITE"
       /\ color' = [color EXCEPT ![m] = "GRAY"]
       /\ stack' = Append(stack, m)
       /\ rest' = [rest EXCEPT ![Top] = @ \ {m}, ![m] = succ[m]]
  /\ UNCHANGED <<graph, saved, root, vec, next, pc>>

(* Mutant: the iterator is not moved past the BLACK successor.             *)
SkipStuck ==
  /\ pc = "scan" /\ stack # <<>>
  /\ \E m \in rest[Top] : IsFirst(m, rest[Top]) /\ color[m] = "BLACK"
  /\ UNCHANGED cycleVars

(* The successor is BLACK.                                                 *)
Skip ==
  /\ pc = "scan" /\ stack # <<>>
  /\ \E m \in rest[Top] :
       /\ IsFirst(m, rest[Top]) /\ color[m] = "BLACK"
       /\ rest' = [rest EXCEPT ![Top] = @ \ {m}]
  /\ UNCHANGED <<graph, color, saved, root, stack, vec, next, pc>>

(* Mutant: the node stays GRAY.                                            *)
LeaveGray ==
  /\ pc = "scan" /\ stack # <<>> /\ rest[Top] = {}
  /\ stack' = SubSeq(stack, 1, Len(stack) - 1)
  /\ UNCHANGED <<graph, color, saved, root, rest, vec, next, pc>>

(* The return of get_cycles_.                                              *)
Leave ==
  /\ pc = "scan" /\ stack # <<>> /\ rest[Top] = {}
  /\ color' = [color EXCEPT ![Top] = "BLACK"]
  /\ stack' = SubSeq(stack, 1, Len(stack) - 1)
  /\ UNCHANGED <<graph, saved, root, rest, vec, next, pc>>

(* Mutant: recover_colors_ is not called.                                  *)
RecoverNothing ==
  /\ pc = "scan" /\ stack = <<>>
  /\ pc' = "ask"
  /\ UNCHANGED <<graph, color, saved, root, stack, rest, vec, next>>

(* recover_colors_ in get_cycles.                                          *)
Recover ==
  /\ pc = "scan" /\ stack = <<>>
  /\ color' = [n \in Node |-> IF n \in live THEN saved[n] ELSE color[n]]
  /\ pc' = "ask"
  /\ UNCHANGED <<graph, saved, root, stack, rest, vec, next>>

(* Mutant: the arguments of the dominance query are swapped.               *)
AskSwapped ==
  /\ pc = "ask" /\ next <= Len(vec)
  /\ vec' = [vec EXCEPT ![next].is_reducible =
               Dominates(succ, root, vec[next].back_edge_start,
                         vec[next].head_node)]
  /\ next' = next + 1
  /\ UNCHANGED <<graph, color, saved, root, stack, rest, pc>>

(* One turn of the loop over the cycles.                                   *)
Ask ==
  /\ pc = "ask" /\ next <= Len(vec)
  /\ vec' = [vec EXCEPT ![next].is_reducible =
               Dominates(succ, root, vec[next].head_node,
                         vec[next].back_edge_start)]
  /\ next' = next + 1
  /\ UNCHANGED <<graph, color, saved, root, stack, rest, pc>>

Return ==
  /\ pc = "ask" /\ next > Len(vec)
  /\ pc' = "done"
  /\ UNCHANGED <<graph, color, saved, root, stack, rest, vec, next>>

Step == BackEdge \/ Descend \/ Skip \/ Leave \/ Recover \/ Ask \/ Return
Next == Step \/ \E r \in Key : get_cycles(r)

(* One thread runs a call to its end; nothing obliges it to make a call.   *)
Spec == Init /\ [][Next]_cycleVars /\ WF_cycleVars(Step)

-----------------------------------------------------------------------------
(* PROPERTIES *)

Reported(n, m) ==
  \E i \in 1 .. Len(vec) : vec[i].back_edge_start = n /\ vec[i].head_node = m

(* Every cycle that can be entered from the root contains a reported back  *)
(* edge: without those edges the reachable part of the graph is acyclic.   *)
EveryCycleReported ==
  pc = "done" /\ root \in live =>
    LET S == [n \in Node |-> {m \in succ[n] : ~Reported(n, m)}]
    IN  \A n \in Reach(succ, root) : \A m \in S[n] : n \notin Reach(S, m)

(* And nothing else is: a reported edge is an edge that lies on a cycle.   *)
OnlyCyclesReported ==
  \A i \in 1 .. Len(vec) :
    /\ vec[i].head_node \in succ[vec[i].back_edge_start]
    /\ vec[i].back_edge_start \in Reach(succ, vec[i].head_node)

(* The natural loops do not depend on the order of the search: the cycles  *)
(* marked reducible are exactly the edges whose target dominates their     *)
(* source.                                                                 *)
ReducibleAreNatural ==
  pc = "done" /\ root \in live =>
    \A n, m \in Node :
      m \in succ[n] /\ Dominates(succ, root, m, n) <=>
        \E i \in 1 .. Len(vec) : /\ vec[i].back_edge_start = n
                                 /\ vec[i].head_node = m
                                 /\ vec[i].is_reducible
=============================================================================
