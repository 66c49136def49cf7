--------------------------------- MODULE Rpo ---------------------------------
(***************************************************************************)
(* Graph::RPO (include/graph.hpp:833-862): the order in which the passes   *)
(* and buildLoopTree visit basic blocks.                                   *)
(*                                                                         *)
(* The queue and the result are one sequence here: every key pushed, in    *)
(* order, is found; the first head of them were popped and appended to the *)
(* result.                                                                 *)
(***************************************************************************)
EXTENDS Coloring

VARIABLES start,        \* argument of the call
          found, head,  \* the keys pushed, and how many of them were popped
          look,         \* successors the for loop has still to pass
          stage         \* "idle", "scan", or "done": a result is ready

rpoLocals == <<start, found, head, look, stage>>
rpoVars   == <<live, succ, color, start, found, head, look, stage>>

listed == SubSeq(found, 1, head)
q      == SubSeq(found, head + 1, Len(found))

RpoInit ==
  /\ IsGraph(live, succ)
  /\ AllWhite
  /\ start = 0
  /\ found = <<>> /\ head = 0
  /\ look = {}
  /\ stage = "idle"

(* The call, up to the loop.  An unknown root gives an empty vector.       *)
RPO(r) ==
  /\ stage # "scan"
  /\ start' = r
  /\ head' = 0
  /\ look' = {}
  /\ \/ /\ r \notin live
        /\ found' = <<>>
        /\ stage' = "done"
        /\ UNCHANGED color
     \/ /\ r \in live
        /\ color' = [color EXCEPT ![r] = "BLACK"]
        /\ found' = <<r>>
        /\ stage' = "scan"
  /\ UNCHANGED graph

(* One turn of the while loop: pop a key, list it, look at its successors. *)
Pop ==
  /\ stage = "scan" /\ look = {} /\ head < Len(found)
  /\ head' = head + 1
  /\ look' = succ[found[head + 1]]
  /\ UNCHANGED <<graph, color, start, found, stage>>

(* Mutant: a successor is put in front of the result, as a list built      *)
(* backwards would have it.                                                *)
LookFront ==
  /\ stage = "scan"
  /\ \E m \in look :
       /\ IsFirst(m, look)
       /\ look' = look \ {m}
       /\ \/ color[m] = "BLACK" /\ UNCHANGED <<color, found, head>>
          \/ /\ color[m] # "BLACK"
             /\ color' = [color EXCEPT ![m] = "BLACK"]
             /\ found' = <<m>> \o found
             /\ head' = head + 1
  /\ UNCHANGED <<graph, start, stage>>

(* One turn of the for loop: a successor is pushed unless it is BLACK.     *)
Look ==
  /\ stage = "scan"
  /\ \E m \in look :
       /\ IsFirst(m, look)
       /\ look' = look \ {m}
       /\ \/ color[m] = "BLACK" /\ UNCHANGED <<color, found>>
          \/ /\ color[m] # "BLACK"
             /\ color' = [color EXCEPT ![m] = "BLACK"]
             /\ found' = Append(found, m)
  /\ UNCHANGED <<graph, start, head, stage>>

(* Mutant: the nodes are left BLACK.                                       *)
RpoFinishColored ==
  /\ stage = "scan" /\ look = {} /\ head = Len(found)
  /\ stage' = "done"
  /\ UNCHANGED <<graph, color, start, found, head, look>>

(* The queue is empty: every node of the graph is made WHITE.              *)
RpoFinish ==
  /\ stage = "scan" /\ look = {} /\ head = Len(found)
  /\ color' = [n \in Node |-> IF n \in live THEN "WHITE" ELSE color[n]]
  /\ stage' = "done"
  /\ UNCHANGED <<graph, start, found, head, look>>

RpoStep == Pop \/ Look \/ RpoFinish
RpoNext == RpoStep \/ \E r \in Key : RPO(r)

(* One thread runs a call to its end; nothing obliges it to make a call.   *)
RpoSpec == RpoInit /\ [][RpoNext]_rpoVars /\ WF_rpoVars(RpoStep)

-----------------------------------------------------------------------------
(* PROPERTIES *)

RpoListed == {found[i] : i \in 1 .. head}

(* Type invariant of the search.                                           *)
RpoTypeOK ==
  /\ IsGraph(live, succ)
  /\ color \in [Node -> ColorT]
  /\ start \in Key \cup {0}
  /\ found \in Seq(Node)
  /\ head \in 0 .. Len(found)
  /\ look \in SUBSET Node
  /\ stage \in {"idle", "scan", "done"}

(* RPO lists exactly the nodes reachable from a live root.                 *)
RpoListsReachable ==
  stage = "done" /\ start \in live => RpoListed = Reach(succ, start)

(* No node is listed twice.                                                *)
RpoNoRepeats == \A i, j \in 1 .. Len(found) : found[i] = found[j] => i = j

(* Whatever the graph, a node is listed after every node that dominates    *)
(* it.  This is what doCheckElimination (checkElimination.hpp:41) needs of *)
(* the order: the dominating check has been seen when the dominated one    *)
(* comes up.                                                               *)
DominatorsFirst ==
  \A b \in 1 .. head, a \in Node :
    Dominates(succ, start, a, found[b]) =>
      \E j \in 1 .. b : found[j] = a

(* Between calls every node is WHITE, as DFS and get_cycles expect.        *)
RpoColorsRestored == stage # "scan" => \A n \in Node : color[n] = "WHITE"

(* What the name promises: in a graph without cycles a reverse postorder   *)
(* lists every node before its successors.                                 *)
Acyclic == \A n \in Node : \A m \in succ[n] : n \notin Reach(succ, m)
ReversePostorder ==
  stage = "done" /\ Acyclic =>
    \A i, j \in 1 .. head : found[j] \in succ[found[i]] => i < j
=============================================================================
