--------------------------------- MODULE Dfs ---------------------------------
(***************************************************************************)
(* Graph::DFS and its recursion DFS_ (include/graph.hpp:719-756), with the *)
(* colours of the nodes, and hasPath (912-918), which is DFS with an end   *)
(* key followed by a look at the last element.                             *)
(*                                                                         *)
(* The recursion is a stack of node keys; rest[n] holds the successors     *)
(* that the iterator of the call on n has still to pass.  Each call of     *)
(* DFS_ collects a vector of its own and its caller appends it; as the     *)
(* appends happen in order of return, the concatenation is one vector that *)
(* grows by the node entered, and that is vec.                             *)
(***************************************************************************)
EXTENDS Coloring

KEY_UNDEF == 0          \* as end_key it matches no node

VARIABLES saved,        \* result of preserve_colors_
          root, endKey, \* arguments of the call
          stack, rest,  \* the calls of DFS_ under way
          vec,          \* the keys collected
          pc            \* "idle", "scan", or "done": a result is ready

search  == <<color, saved, root, endKey, stack, rest, vec, pc>>
dfsVars == <<graph, search>>

SearchInit ==
  /\ AllWhite
  /\ saved = color
  /\ root = KEY_UNDEF /\ endKey = KEY_UNDEF
  /\ stack = <<>>
  /\ rest = [n \in Node |-> {}]
  /\ vec = <<>>
  /\ pc = "idle"

Top == stack[Len(stack)]
(* Mutant: the last key of a nested call is not compared with end_key.     *)
EndNotLookedAt == FALSE

EndReached == vec # <<>> /\ vec[Len(vec)] = endKey

(* The first lines of DFS_ for node n, called with the frames below on the *)
(* stack; R is rest with the caller's iterator already moved on.           *)
Enter(n, below, end, R) ==
  IF n = end
    THEN /\ color' = [color EXCEPT ![n] = "BLACK"]
         /\ stack' = below
         /\ rest' = R
    ELSE /\ color' = [color EXCEPT ![n] = "GRAY"]
         /\ stack' = Append(below, n)
         /\ rest' = [R EXCEPT ![n] = succ[n]]

(* DFS(r, e).  An unknown root, or one that is not WHITE, gives an empty   *)
(* vector.                                                                 *)
DFS(r, e) ==
  /\ pc # "scan"
  /\ root' = r /\ endKey' = e
  /\ \/ /\ ~(r \in live /\ color[r] = "WHITE")
        /\ vec' = <<>>
        /\ pc' = "done"
        /\ UNCHANGED <<color, saved, stack, rest>>
     \/ /\ r \in live /\ color[r] = "WHITE"
        /\ saved' = color
        /\ vec' = <<r>>
        /\ Enter(r, <<>>, e, rest)
        /\ pc' = "scan"
  /\ UNCHANGED graph

(* One turn of the for loop: the next successor is WHITE and is entered.   *)
Descend ==
  /\ pc = "scan" /\ stack # <<>> /\ ~EndReached
  /\ \E m \in rest[Top] :
       /\ IsFirst(m, rest[Top])
       /\ color[m] = "WHITE"
       /\ vec' = Append(vec, m)
       /\ Enter(m, stack, endKey, [rest EXCEPT ![Top] = @ \ {m}])
  /\ UNCHANGED <<graph, saved, root, endKey, pc>>

(* Mutant: the iterator is not moved past a visited successor.             *)
SkipStuck ==
  /\ pc = "scan" /\ stack # <<>> /\ ~EndReached
  /\ \E m \in rest[Top] : IsFirst(m, rest[Top]) /\ color[m] # "WHITE"
  /\ UNCHANGED dfsVars

(* One turn of the for loop: the next successor was visited before.        *)
Skip ==
  /\ pc = "scan" /\ stack # <<>> /\ ~EndReached
  /\ \E m \in rest[Top] :
       /\ IsFirst(m, rest[Top])
       /\ color[m] # "WHITE"
       /\ rest' = [rest EXCEPT ![Top] = @ \ {m}]
  /\ UNCHANGED <<graph, color, saved, root, endKey, stack, vec, pc>>

(* The return of DFS_, at the end of the loop or, after a call that ended  *)
(* at end_key, out of the middle of it.                                    *)
Leave ==
  /\ pc = "scan" /\ stack # <<>>
  /\ EndReached \/ rest[Top] = {}
  /\ color' = [color EXCEPT ![Top] = "BLACK"]
  /\ stack' = SubSeq(stack, 1, Len(stack) - 1)
  /\ rest' = [rest EXCEPT ![Top] = {}]
  /\ UNCHANGED <<graph, saved, root, endKey, vec, pc>>

(* Mutant: recover_colors_ is not called.                                  *)
FinishColored ==
  /\ pc = "scan" /\ stack = <<>>
  /\ pc' = "done"
  /\ UNCHANGED <<graph, color, saved, root, endKey, stack, rest, vec>>

(* recover_colors_ and the return of DFS.                                  *)
Finish ==
  /\ pc = "scan" /\ stack = <<>>
  /\ color' = [n \in Node |-> IF n \in live THEN saved[n] ELSE color[n]]
  /\ pc' = "done"
  /\ UNCHANGED <<graph, saved, root, endKey, stack, rest, vec>>

(* What hasPath(root, endKey) returns once the DFS is done.                *)
hasPath == vec # <<>> /\ vec[Len(vec)] = endKey

Step == Descend \/ Skip \/ Leave \/ Finish

Init == IsGraph(live, succ) /\ SearchInit
Next == Step \/ \E r, e \in Key \cup {KEY_UNDEF} : DFS(r, e)

(* One thread runs a call to its end; nothing obliges it to make a call.   *)
Spec == Init /\ [][Next]_dfsVars /\ WF_dfsVars(Step)

-----------------------------------------------------------------------------
(* PROPERTIES *)

Visited == {n \in Node : color[n] # "WHITE"}
Listed  == {vec[i] : i \in 1 .. Len(vec)}

(* Type invariant of the search.                                           *)
TypeOK ==
  /\ IsGraph(live, succ)
  /\ color \in [Node -> ColorT]
  /\ saved \in [Node -> ColorT]
  /\ root \in Key \cup {KEY_UNDEF} /\ endKey \in Key \cup {KEY_UNDEF}
  /\ stack \in Seq(Node)
  /\ rest \in [Node -> SUBSET Node]
  /\ vec \in Seq(Node)
  /\ pc \in {"idle", "scan", "done"}

(* Between calls every node is WHITE again, however the last one ended:    *)
(* the next DFS, get_cycles or RPO starts from a clean graph.              *)
ColorsRestored == pc # "scan" => Visited = {}

(* A DFS without an early end lists exactly the nodes reachable from a     *)
(* live root (DFS returns before the end key only when it is unreachable). *)
ListsReachable ==
  pc = "done" /\ root \in live /\ ~hasPath => Listed = Reach(succ, root)

(* hasPath(a, b) answers whether b is reachable from a.                    *)
HasPathCorrect ==
  pc = "done" /\ root \in live =>
    (hasPath <=> endKey \in Reach(succ, root))

(* No node is listed twice, also when the search ends early.               *)
NoRepeats ==
  \A i, j \in 1 .. Len(vec) : vec[i] = vec[j] => i = j

(* The GRAY nodes are those on the stack, and they form a walk from the    *)
(* root: this is what lets get_cycles_ call an edge to a GRAY node a back  *)
(* edge.                                                                   *)
GrayIsPath ==
  pc = "scan" =>
    /\ {n \in Node : color[n] = "GRAY"} = {stack[i] : i \in 1 .. Len(stack)}
    /\ \A i \in 1 .. Len(stack) - 1 : stack[i + 1] \in succ[stack[i]]
=============================================================================
