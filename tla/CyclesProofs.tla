--------------------------- MODULE CyclesProofs ---------------------------
(***************************************************************************)
(* get_cycles: without the edges it reports the part of the graph that the *)
(* root reaches is acyclic, each edge it reports lies on a cycle, the ones *)
(* it marks reducible are the natural back edges, and it leaves the nodes  *)
(* WHITE.  The same holds when buildLoopTree is the caller.                *)
(***************************************************************************)
EXTENDS LoopTree, RpoProofs

-----------------------------------------------------------------------------
(* THE CYCLES *)

OnStack(n)  == \E i \in 1 .. Len(stack) : stack[i] = n
Unreported  == [n \in Node |-> {m \in succ[n] : ~Reported(n, m)}]
CycleT      == [head_node : Node, back_edge_start : Node, is_reducible : BOOLEAN]

CycleTypes ==
  /\ IsGraph(live, succ)
  /\ color \in [Node -> ColorT]
  /\ stack \in Seq(Node)
  /\ rest \in [Node -> SUBSET Node]
  /\ vec \in Seq(CycleT)
  /\ next \in Nat \ {0}
  /\ pc \in {"idle", "scan", "ask", "done"}

(* Between calls the nodes are WHITE, and that is what a call has saved.   *)
WhiteBetween ==
  \A n \in Node :
    IF pc = "scan" THEN saved[n] = "WHITE" ELSE color[n] = "WHITE"

(* The GRAY nodes are the stack, which starts at the root; nothing else    *)
(* has successors ahead of it; only live nodes are visited.                *)
GrayIsStack ==
  /\ pc = "scan" => root \in live /\ color[root] # "WHITE"
  /\ pc # "scan" => stack = <<>>
  /\ stack # <<>> => stack[1] = root
  /\ \A i, j \in 1 .. Len(stack) : stack[i] = stack[j] => i = j
  /\ \A n \in Node : color[n] = "GRAY" <=> OnStack(n)
  /\ \A n \in Node : color[n] # "WHITE" => n \in live
  /\ \A n \in Node : rest[n] \subseteq succ[n] /\ (rest[n] # {} => OnStack(n))

(* The stack is a walk from the root that takes no node twice: it reaches  *)
(* each of its nodes from those below it, and from the root without any    *)
(* node that is not below it.                                              *)
StackIsWalk ==
  /\ \A i, j \in 1 .. Len(stack) : i <= j => stack[j] \in Reach(succ, stack[i])
  /\ \A j \in 1 .. Len(stack), m \in Node :
       (\A i \in 1 .. j : stack[i] # m) =>
         stack[j] \in Reach(Without(succ, m), root)

(* What became of the edges that the search has passed.                    *)
PassedEdges ==
  pc = "scan" =>
    /\ \A n, m \in Node : Reported(n, m) => color[m] # "WHITE"
    /\ \A i \in 1 .. Len(stack) : \A m \in succ[stack[i]] \ rest[stack[i]] :
         \/ color[m] = "BLACK"
         \/ Reported(stack[i], m)
         \/ i < Len(stack) /\ m = stack[i + 1]
    /\ \A n \in Node : color[n] = "BLACK" =>
         \A m \in succ[n] : color[m] = "BLACK" \/ Reported(n, m)
    /\ \A n \in Node : color[n] # "WHITE" =>
         \A m \in succ[n] \ rest[n] :
           Dominates(succ, root, m, n) => Reported(n, m)

(* No finished node lies on a cycle of unreported edges.                   *)
FinishedAcyclic ==
  pc = "scan" =>
    \A n \in Node : color[n] = "BLACK" =>
      \A m \in Unreported[n] : n \notin Reach(Unreported, m)

(* After the search: the cycles are found, and those judged so far are     *)
(* judged as dominance has it.                                             *)
Results ==
  pc \in {"ask", "done"} /\ root \in live =>
    \A n \in Reach(succ, root) :
      /\ \A m \in Unreported[n] : n \notin Reach(Unreported, m)
      /\ \A m \in succ[n] : Dominates(succ, root, m, n) => Reported(n, m)
Judged ==
  /\ pc = "scan" => next = 1
  /\ pc = "done" => next > Len(vec)
  /\ \A i \in 1 .. Len(vec) : i < next =>
       (vec[i].is_reducible <=>
          Dominates(succ, root, vec[i].head_node, vec[i].back_edge_start))

(* The search goes from nodes that the root reaches.                       *)
SourcesReached ==
  \A i \in 1 .. Len(vec) :
    root \in live /\ vec[i].back_edge_start \in Reach(succ, root)

CycleInv ==
  /\ CycleTypes
  /\ WhiteBetween
  /\ GrayIsStack
  /\ StackIsWalk
  /\ PassedEdges
  /\ FinishedAcyclic
  /\ OnlyCyclesReported
  /\ SourcesReached
  /\ Results
  /\ Judged
-----------------------------------------------------------------------------

LEMMA TopFacts == ASSUME CycleTypes, stack # <<>>
                  PROVE  Len(stack) \in Nat \ {0} /\ Top \in Node
  BY DEF CycleTypes, Top

LEMMA UnreportedType ==
  ASSUME CycleTypes
  PROVE  /\ Unreported \in [Node -> SUBSET Node]
         /\ \A n \in Node : Unreported[n] \subseteq succ[n]
  BY DEF CycleTypes, IsGraph, Unreported

(* Fewer edges are unreported when more are reported.                      *)
LEMMA StaysAcyclic ==
  ASSUME CycleTypes, CycleTypes', succ' = succ,
         \A n, m \in Node : Reported(n, m) => Reported(n, m)',
         NEW n \in Node, \A m \in Unreported[n] : n \notin Reach(Unreported, m)
  PROVE  \A m \in Unreported'[n] : n \notin Reach(Unreported', m)
<1>1. \A k \in Node : Unreported'[k] \subseteq Unreported[k]
  BY DEF Unreported, CycleTypes, IsGraph
<1>2. \A m \in Node : Reach(Unreported', m) \subseteq Reach(Unreported, m)
  BY <1>1, ReachMonotone
<1>3. Unreported'[n] \subseteq Unreported[n] /\ Unreported[n] \subseteq Node
  BY <1>1, UnreportedType
<1> QED BY <1>2, <1>3

LEMMA CyclesCall ==
  ASSUME CycleInv, NEW r, get_cycles(r)
  PROVE  CycleInv'
<1> USE DEF CycleInv, graph
<1>1. /\ pc \in {"idle", "done"} /\ live' = live /\ succ' = succ
      /\ root' = r /\ vec' = <<>> /\ next' = 1
  BY DEF get_cycles
<1>2. /\ stack = <<>> /\ Len(stack) = 0
      /\ \A n \in Node : color[n] = "WHITE" /\ rest[n] = {}
  BY <1>1 DEF GrayIsStack, WhiteBetween, OnStack
<1>3. /\ vec' \in Seq(CycleT) /\ Len(vec') = 0
      /\ \A n, m \in Node : ~Reported(n, m)'
  BY <1>1 DEF Reported
<1>4. OnlyCyclesReported' /\ SourcesReached' /\ Judged'
  BY <1>1, <1>3 DEF OnlyCyclesReported, SourcesReached, Judged
<1>5. CASE r \notin live
  <2>1. pc' = "done" /\ color' = color /\ stack' = stack /\ rest' = rest
    BY <1>5 DEF get_cycles
  <2>2. CycleTypes'
    BY <1>1, <1>3, <2>1 DEF CycleTypes
  <2>3. WhiteBetween' /\ GrayIsStack' /\ StackIsWalk'
    BY <1>1, <1>2, <2>1 DEF WhiteBetween, GrayIsStack, StackIsWalk, OnStack
  <2>4. PassedEdges' /\ FinishedAcyclic' /\ Results'
    BY <1>1, <1>5, <2>1 DEF PassedEdges, FinishedAcyclic, Results
  <2> QED BY <1>4, <2>2, <2>3, <2>4
<1>6. CASE r \in live
  <2>1. r \in Node /\ succ[r] \in SUBSET Node
    BY <1>6 DEF CycleTypes, IsGraph
  <2>2. /\ color' = [color EXCEPT ![r] = "GRAY"] /\ stack' = <<r>>
        /\ rest' = [rest EXCEPT ![r] = succ[r]] /\ pc' = "scan"
        /\ saved' = color
    BY <1>2, <1>6, <2>1 DEF get_cycles
  <2>3. CycleTypes'
    BY <1>1, <1>3, <2>2, <2>1 DEF CycleTypes, ColorT
  <2>4. Len(stack') = 1 /\ stack'[1] = r /\ \A n \in Node : OnStack(n)' <=> n = r
    BY <2>2 DEF OnStack
  <2>5. /\ color'[r] = "GRAY" /\ rest'[r] = succ[r]
        /\ \A n \in Node \ {r} : color'[n] = "WHITE" /\ rest'[n] = {}
    BY <1>2, <2>2, <2>1 DEF CycleTypes
  <2>6. WhiteBetween' /\ GrayIsStack'
    BY <1>1, <1>2, <1>6, <2>1, <2>2, <2>4, <2>5 DEF WhiteBetween, GrayIsStack
  <2>7. StackIsWalk'
    BY <1>1, <2>1, <2>4, ReachRoot DEF StackIsWalk
  <2>8. PassedEdges' /\ FinishedAcyclic' /\ Results'
    BY <1>1, <1>3, <2>2, <2>4, <2>5 DEF PassedEdges, FinishedAcyclic, Results
  <2> QED BY <1>4, <2>3, <2>6, <2>7, <2>8
<1> QED BY <1>5, <1>6

LEMMA CyclesBackEdge == ASSUME CycleInv, BackEdge PROVE CycleInv'
<1> USE DEF CycleInv, graph
<1>1. PICK m \in rest[Top] :
        /\ color[m] = "GRAY"
        /\ rest' = [rest EXCEPT ![Top] = @ \ {m}]
        /\ vec' = Append(vec, Cycle(m, Top))
  BY DEF BackEdge
<1>2. /\ pc = "scan" /\ pc' = pc /\ saved' = saved /\ stack # <<>>
      /\ live' = live /\ succ' = succ /\ color' = color /\ root' = root
      /\ stack' = stack /\ next' = next
  BY DEF BackEdge
<1>3. /\ Top \in Node /\ Len(stack) \in Nat \ {0}
      /\ m \in succ[Top] /\ m \in Node /\ succ \in [Node -> SUBSET Node]
  BY <1>1, <1>2, TopFacts DEF CycleTypes, GrayIsStack, IsGraph
<1>4. Cycle(m, Top) \in CycleT
  BY <1>3 DEF Cycle, CycleT
<1>5. /\ vec' \in Seq(CycleT) /\ Len(vec') = Len(vec) + 1 /\ Len(vec) \in Nat
      /\ vec'[Len(vec) + 1] = Cycle(m, Top)
      /\ \A i \in 1 .. Len(vec) : vec'[i] = vec[i]
  BY <1>1, <1>4 DEF CycleTypes
<1>6. Cycle(m, Top).head_node = m /\ Cycle(m, Top).back_edge_start = Top
  BY DEF Cycle
<1>7. \A k, l \in Node : Reported(k, l)' <=> Reported(k, l) \/ (k = Top /\ l = m)
  BY <1>5, <1>6 DEF Reported
<1>8. CycleTypes'
  BY <1>1, <1>2, <1>3, <1>5 DEF CycleTypes
<1>9. /\ rest'[Top] = rest[Top] \ {m}
      /\ \A n \in Node \ {Top} : rest'[n] = rest[n]
  BY <1>1, <1>3 DEF CycleTypes
<1>10. WhiteBetween' /\ GrayIsStack' /\ StackIsWalk'
  <2>1. WhiteBetween'
    BY <1>2 DEF WhiteBetween
  <2>2. GrayIsStack'
    <3>1. \A n \in Node : rest'[n] \subseteq rest[n]
      BY <1>3, <1>9
    <3> QED BY <1>2, <3>1 DEF GrayIsStack, OnStack
  <2>3. StackIsWalk'
    BY <1>2 DEF StackIsWalk, OnStack
  <2> QED BY <2>1, <2>2, <2>3
<1>11. PassedEdges'
  <2>1. \A n, l \in Node : Reported(n, l)' => color'[l] # "WHITE"
    BY <1>1, <1>2, <1>7 DEF PassedEdges
  <2>2. ASSUME NEW i \in 1 .. Len(stack), NEW l \in succ[stack[i]] \ rest'[stack[i]]
        PROVE  \/ color'[l] = "BLACK"
               \/ Reported(stack[i], l)'
               \/ i < Len(stack) /\ l = stack[i + 1]
    <3>1. stack[i] \in Node /\ l \in Node
      BY <1>3 DEF CycleTypes
    <3>2. CASE l \in rest[stack[i]]
      <4>1. stack[i] = Top /\ l = m
        BY <1>9, <2>2, <3>1, <3>2
      <4> QED BY <1>2, <1>3, <1>7, <4>1
    <3>3. CASE l \notin rest[stack[i]]
      BY <1>2, <1>7, <3>1, <3>3 DEF PassedEdges
    <3> QED BY <3>2, <3>3
  <2>3. \A n \in Node : color'[n] = "BLACK" =>
          \A l \in succ[n] : color'[l] = "BLACK" \/ Reported(n, l)'
    BY <1>2, <1>3, <1>7 DEF PassedEdges
  <2>4. ASSUME NEW n \in Node, color'[n] # "WHITE", NEW l \in succ[n] \ rest'[n],
               Dominates(succ, root, l, n)
        PROVE  Reported(n, l)'
    <3>1. l \in Node
      BY <1>3
    <3>2. CASE l \in rest[n]
      <4>1. n = Top /\ l = m
        BY <1>9, <2>4, <3>1, <3>2
      <4> QED BY <1>3, <1>7, <4>1
    <3>3. CASE l \notin rest[n]
      BY <1>2, <1>7, <2>4, <3>1, <3>3 DEF PassedEdges
    <3> QED BY <3>2, <3>3
  <2> QED BY <1>2, <2>1, <2>2, <2>3, <2>4 DEF PassedEdges
<1>12. FinishedAcyclic'
  BY <1>2, <1>7, <1>8, StaysAcyclic DEF FinishedAcyclic
<1>13. OnlyCyclesReported' /\ SourcesReached'
  <2>1. Top \in Reach(succ, m)
    <3>1. PICK i \in 1 .. Len(stack) : stack[i] = m
      BY <1>1, <1>3 DEF GrayIsStack, OnStack
    <3> QED BY <1>3, <3>1 DEF StackIsWalk, Top
  <2>2. Top \in Reach(succ, root) /\ root \in live
    BY <1>2, <1>3 DEF StackIsWalk, GrayIsStack, Top
  <2> QED BY <1>2, <1>3, <1>5, <1>6, <2>1, <2>2 DEF OnlyCyclesReported, SourcesReached
<1>14. Results' /\ Judged'
  BY <1>2, <1>5 DEF Results, Judged, CycleTypes
<1> QED BY <1>8, <1>10, <1>11, <1>12, <1>13, <1>14

LEMMA CyclesSkip == ASSUME CycleInv, Skip PROVE CycleInv'
<1> USE DEF CycleInv, graph
<1>1. PICK m \in rest[Top] :
        color[m] = "BLACK" /\ rest' = [rest EXCEPT ![Top] = @ \ {m}]
  BY DEF Skip
<1>2. /\ pc = "scan" /\ pc' = pc /\ saved' = saved /\ stack # <<>>
      /\ live' = live /\ succ' = succ /\ color' = color /\ root' = root
      /\ stack' = stack /\ vec' = vec /\ next' = next
  BY DEF Skip
<1>3. /\ Top \in Node /\ Len(stack) \in Nat \ {0}
      /\ m \in succ[Top] /\ m \in Node /\ succ \in [Node -> SUBSET Node]
  BY <1>1, <1>2, TopFacts DEF CycleTypes, GrayIsStack, IsGraph
<1>4. CycleTypes'
  BY <1>1, <1>2, <1>3 DEF CycleTypes
<1>5. /\ rest'[Top] = rest[Top] \ {m}
      /\ \A n \in Node \ {Top} : rest'[n] = rest[n]
  BY <1>1, <1>3 DEF CycleTypes
<1>6. WhiteBetween' /\ GrayIsStack' /\ StackIsWalk'
  <2>1. WhiteBetween'
    BY <1>2 DEF WhiteBetween
  <2>2. GrayIsStack'
    <3>1. \A n \in Node : rest'[n] \subseteq rest[n]
      BY <1>3, <1>5
    <3> QED BY <1>2, <3>1 DEF GrayIsStack, OnStack
  <2>3. StackIsWalk'
    BY <1>2 DEF StackIsWalk, OnStack
  <2> QED BY <2>1, <2>2, <2>3
<1>7. \A k, l \in Node : Reported(k, l)' <=> Reported(k, l)
  BY <1>2 DEF Reported
<1>8. ~Dominates(succ, root, m, Top)
  <2>1. ~OnStack(m)
    BY <1>1, <1>3 DEF GrayIsStack
  <2>2. Top \in Reach(Without(succ, m), root) /\ m # root
    BY <1>2, <1>3, <2>1 DEF OnStack, StackIsWalk, GrayIsStack, Top
  <2> QED BY <2>2 DEF Dominates
<1>9. PassedEdges'
  <2>1. ASSUME NEW i \in 1 .. Len(stack), NEW l \in succ[stack[i]] \ rest'[stack[i]]
        PROVE  \/ color'[l] = "BLACK"
               \/ Reported(stack[i], l)'
               \/ i < Len(stack) /\ l = stack[i + 1]
    <3>1. stack[i] \in Node /\ l \in Node
      BY <1>3 DEF CycleTypes
    <3>2. l = m \/ l \notin rest[stack[i]]
      BY <1>5, <2>1, <3>1
    <3> QED BY <1>1, <1>2, <1>7, <3>1, <3>2 DEF PassedEdges
  <2>2. ASSUME NEW n \in Node, color'[n] # "WHITE", NEW l \in succ[n] \ rest'[n],
               Dominates(succ, root, l, n)
        PROVE  Reported(n, l)'
    <3>1. l \notin rest[n]
      BY <1>5, <1>8, <2>2
    <3>2. l \in Node
      BY <1>3
    <3> QED BY <1>2, <1>7, <2>2, <3>1, <3>2 DEF PassedEdges
  <2>3. /\ \A n, l \in Node : Reported(n, l)' => color'[l] # "WHITE"
        /\ \A n \in Node : color'[n] = "BLACK" =>
             \A l \in succ[n] : color'[l] = "BLACK" \/ Reported(n, l)'
    BY <1>2, <1>3, <1>7 DEF PassedEdges
  <2> QED BY <1>2, <2>1, <2>2, <2>3 DEF PassedEdges
<1>10. FinishedAcyclic'
  BY <1>2, <1>4, <1>7, StaysAcyclic DEF FinishedAcyclic
<1>11. OnlyCyclesReported' /\ SourcesReached' /\ Results' /\ Judged'
  BY <1>2 DEF OnlyCyclesReported, SourcesReached, Results, Judged
<1> QED BY <1>4, <1>6, <1>9, <1>10, <1>11

LEMMA CyclesDescend == ASSUME CycleInv, Descend PROVE CycleInv'
<1> USE DEF CycleInv, graph
<1>1. PICK m \in rest[Top] :
        /\ color[m] = "WHITE" /\ color' = [color EXCEPT ![m] = "GRAY"]
        /\ stack' = Append(stack, m)
        /\ rest' = [rest EXCEPT ![Top] = @ \ {m}, ![m] = succ[m]]
  BY DEF Descend
<1>2. /\ pc = "scan" /\ pc' = pc /\ saved' = saved /\ stack # <<>>
      /\ live' = live /\ succ' = succ /\ root' = root /\ vec' = vec
      /\ next' = next
  BY DEF Descend
<1>3. /\ Top \in Node /\ Len(stack) \in Nat \ {0} /\ stack \in Seq(Node)
      /\ m \in succ[Top] /\ m \in Node /\ m \in live
      /\ succ \in [Node -> SUBSET Node]
  BY <1>1, <1>2, TopFacts DEF CycleTypes, GrayIsStack, IsGraph
<1>4. ~OnStack(m) /\ OnStack(Top) /\ m # Top
  BY <1>1, <1>2, <1>3 DEF GrayIsStack, OnStack, Top
<1>5. /\ Len(stack') = Len(stack) + 1 /\ stack'[Len(stack) + 1] = m
      /\ \A i \in 1 .. Len(stack) : stack'[i] = stack[i]
      /\ stack' \in Seq(Node)
  BY <1>1, <1>3
<1>6. /\ rest'[m] = succ[m] /\ rest'[Top] = rest[Top] \ {m}
      /\ \A n \in Node \ {m, Top} : rest'[n] = rest[n]
      /\ rest' \in [Node -> SUBSET Node]
  BY <1>1, <1>3, <1>4 DEF CycleTypes
<1>7. /\ color'[m] = "GRAY" /\ \A n \in Node \ {m} : color'[n] = color[n]
      /\ color' \in [Node -> ColorT]
  BY <1>1, <1>3 DEF CycleTypes, ColorT
<1>8. CycleTypes'
  BY <1>2, <1>5, <1>6, <1>7 DEF CycleTypes
<1>9. \A n \in Node : OnStack(n)' <=> OnStack(n) \/ n = m
  BY <1>3, <1>5 DEF OnStack
<1>10. WhiteBetween'
  BY <1>2 DEF WhiteBetween
<1>11. GrayIsStack'
  <2>1. \A i, j \in 1 .. Len(stack') : stack'[i] = stack'[j] => i = j
    BY <1>3, <1>4, <1>5 DEF GrayIsStack, OnStack
  <2>2. stack' # <<>> /\ stack'[1] = root'
    BY <1>2, <1>3, <1>5 DEF GrayIsStack
  <2>3. \A n \in Node : /\ color'[n] = "GRAY" <=> OnStack(n)'
                        /\ color'[n] # "WHITE" => n \in live'
    BY <1>2, <1>3, <1>7, <1>9 DEF GrayIsStack
  <2>4. \A n \in Node : rest'[n] \subseteq succ'[n] /\ (rest'[n] # {} => OnStack(n)')
    BY <1>2, <1>4, <1>6, <1>9 DEF GrayIsStack
  <2>5. root' \in live' /\ color'[root'] # "WHITE"
    BY <1>2, <1>3, <1>7 DEF GrayIsStack, CycleTypes, IsGraph
  <2> QED BY <1>2, <2>1, <2>2, <2>3, <2>4, <2>5 DEF GrayIsStack
<1>12. StackIsWalk'
  <2>1. ASSUME NEW i \in 1 .. Len(stack'), NEW j \in 1 .. Len(stack'), i <= j
        PROVE  stack'[j] \in Reach(succ, stack'[i])
    <3>1. CASE j \in 1 .. Len(stack)
      BY <1>3, <1>5, <2>1, <3>1 DEF StackIsWalk
    <3>2. CASE j = Len(stack) + 1 /\ i = j
      BY <1>3, <1>5, <3>2, ReachRoot
    <3>3. CASE j = Len(stack) + 1 /\ i # j
      <4>1. i \in 1 .. Len(stack) /\ stack[i] \in Node /\ i <= Len(stack)
        BY <1>3, <1>5, <2>1, <3>3
      <4>2. Top \in Reach(succ, stack[i])
        BY <1>3, <4>1 DEF StackIsWalk, Top
      <4> QED BY <1>3, <1>5, <3>3, <4>1, <4>2, ReachStep
    <3> QED BY <1>3, <1>5, <3>1, <3>2, <3>3
  <2>2. ASSUME NEW j \in 1 .. Len(stack'), NEW a \in Node,
               \A i \in 1 .. j : stack'[i] # a
        PROVE  stack'[j] \in Reach(Without(succ, a), root)
    <3>1. CASE j \in 1 .. Len(stack)
      BY <1>3, <1>5, <2>2, <3>1 DEF StackIsWalk
    <3>2. CASE j = Len(stack) + 1
      <4>1. Top \in Reach(Without(succ, a), root) /\ Top # a /\ m # a
        BY <1>3, <1>5, <2>2, <3>2 DEF StackIsWalk, Top
      <4>2. m \in Without(succ, a)[Top]
        BY <1>3, <4>1 DEF Without
      <4>3. root \in Node
        BY <1>2 DEF GrayIsStack, CycleTypes, IsGraph
      <4>4. m \in Reach(Without(succ, a), root)
        BY <1>3, <4>1, <4>2, <4>3, ReachStep, WithoutType
      <4> QED BY <1>5, <3>2, <4>4
    <3> QED BY <1>3, <1>5, <3>1, <3>2
  <2> QED BY <1>2, <2>1, <2>2 DEF StackIsWalk
<1>13. \A k, l \in Node : Reported(k, l)' <=> Reported(k, l)
  BY <1>2 DEF Reported
<1>14. ~Dominates(succ, root, m, Top)
  <2>1. Top \in Reach(Without(succ, m), root) /\ m # root
    BY <1>2, <1>3, <1>4 DEF OnStack, StackIsWalk, GrayIsStack, Top
  <2> QED BY <2>1 DEF Dominates
<1>15. PassedEdges'
  <2>1. ASSUME NEW i \in 1 .. Len(stack'),
               NEW l \in succ[stack'[i]] \ rest'[stack'[i]]
        PROVE  \/ color'[l] = "BLACK"
               \/ Reported(stack[i], l)'
               \/ i < Len(stack') /\ l = stack'[i + 1]
    <3>1. CASE i = Len(stack) + 1
      BY <1>5, <1>6, <2>1, <3>1
    <3>2. CASE i = Len(stack)
      <4>1. stack'[i] = Top /\ l \in Node
        BY <1>3, <1>5, <3>2 DEF Top
      <4>2. l = m \/ l \in succ[stack[i]] \ rest[stack[i]]
        BY <1>3, <1>6, <2>1, <3>2, <4>1 DEF Top
      <4>3. l = m \/ color[l] = "BLACK" \/ Reported(stack[i], l)
        BY <1>2, <1>3, <3>2, <4>2 DEF PassedEdges
      <4> QED BY <1>1, <1>3, <1>5, <1>7, <1>13, <3>2, <4>1, <4>3 DEF Top
    <3>3. CASE i < Len(stack)
      <4>1. /\ i \in 1 .. Len(stack) /\ i + 1 \in 1 .. Len(stack)
            /\ stack'[i] = stack[i] /\ stack'[i + 1] = stack[i + 1]
            /\ stack[i] \in Node /\ l \in Node
        BY <1>3, <1>5, <2>1, <3>3
      <4>2. stack[i] # Top /\ stack[i] # m
        BY <1>3, <1>4, <3>3, <4>1 DEF GrayIsStack, OnStack, Top
      <4>3. l \in succ[stack[i]] \ rest[stack[i]]
        BY <1>6, <2>1, <4>1, <4>2
      <4>4. \/ color[l] = "BLACK" \/ Reported(stack[i], l)
            \/ i < Len(stack) /\ l = stack[i + 1]
        BY <1>2, <4>1, <4>3 DEF PassedEdges
      <4> QED BY <1>1, <1>3, <1>5, <1>7, <1>13, <3>3, <4>1, <4>4
    <3> QED BY <1>3, <1>5, <3>1, <3>2, <3>3
  <2>2. ASSUME NEW n \in Node, color'[n] # "WHITE", NEW l \in succ[n] \ rest'[n],
               Dominates(succ, root, l, n)
        PROVE  Reported(n, l)'
    <3>1. n # m
      BY <1>6, <2>2
    <3>2. l \notin rest[n] /\ color[n] # "WHITE" /\ l \in Node
      BY <1>3, <1>6, <1>7, <1>14, <2>2, <3>1
    <3> QED BY <1>2, <1>13, <2>2, <3>2 DEF PassedEdges
  <2>3. \A n, l \in Node : Reported(n, l)' => color'[l] # "WHITE"
    BY <1>2, <1>7, <1>13 DEF PassedEdges
  <2>4. \A n \in Node : color'[n] = "BLACK" =>
          \A l \in succ[n] : color'[l] = "BLACK" \/ Reported(n, l)'
    BY <1>1, <1>2, <1>3, <1>7, <1>13 DEF PassedEdges
  <2> QED BY <1>2, <2>1, <2>2, <2>3, <2>4 DEF PassedEdges
<1>16. FinishedAcyclic'
  <2>1. \A n \in Node : color'[n] = "BLACK" => color[n] = "BLACK"
    BY <1>7
  <2> QED BY <1>2, <1>8, <1>13, <2>1, StaysAcyclic DEF FinishedAcyclic
<1>17. OnlyCyclesReported' /\ SourcesReached' /\ Results' /\ Judged'
  BY <1>2 DEF OnlyCyclesReported, SourcesReached, Results, Judged
<1> QED BY <1>8, <1>10, <1>11, <1>12, <1>15, <1>16, <1>17

(* The node that returns is on no cycle of unreported edges: they lead to  *)
(* finished nodes only, which lead only to each other.                     *)
LEMMA CyclesLeave == ASSUME CycleInv, Leave PROVE CycleInv'
<1> USE DEF CycleInv, graph
<1>1. /\ pc = "scan" /\ pc' = pc /\ saved' = saved /\ stack # <<>> /\ rest[Top] = {}
      /\ color' = [color EXCEPT ![Top] = "BLACK"]
      /\ stack' = SubSeq(stack, 1, Len(stack) - 1)
      /\ live' = live /\ succ' = succ /\ root' = root /\ vec' = vec
      /\ next' = next /\ rest' = rest
  BY DEF Leave
<1>2. /\ Top \in Node /\ Len(stack) \in Nat \ {0} /\ stack \in Seq(Node)
      /\ succ \in [Node -> SUBSET Node]
  BY <1>1, TopFacts DEF CycleTypes, IsGraph
<1>3. /\ stack' \in Seq(Node) /\ Len(stack') = Len(stack) - 1
      /\ \A i \in 1 .. Len(stack) - 1 : stack'[i] = stack[i]
  <2> DEFINE k == Len(stack) - 1
  <2>1. k \in 0 .. Len(stack)
    BY <1>2
  <2>2. stack' = SubSeq(stack, 1, k) /\ stack \in Seq(Node)
    BY <1>1, <1>2
  <2> HIDE DEF k
  <2>3. /\ SubSeq(stack, 1, k) \in Seq(Node) /\ Len(SubSeq(stack, 1, k)) = k
        /\ \A i \in 1 .. k : SubSeq(stack, 1, k)[i] = stack[i]
    BY <2>1, <2>2, PrefixFacts
  <2> QED BY <2>2, <2>3 DEF k
<1>4. \A n \in Node : OnStack(n)' <=> OnStack(n) /\ n # Top
  <2>1. ASSUME NEW i \in 1 .. Len(stack')
        PROVE  i \in 1 .. Len(stack) /\ stack'[i] = stack[i] /\ stack[i] # Top
    BY <1>2, <1>3 DEF GrayIsStack, Top
  <2>2. ASSUME NEW i \in 1 .. Len(stack), stack[i] # Top
        PROVE  i \in 1 .. Len(stack') /\ stack'[i] = stack[i]
    BY <1>2, <1>3, <2>2 DEF Top
  <2> QED BY <2>1, <2>2 DEF OnStack
<1>5. /\ color'[Top] = "BLACK" /\ \A n \in Node \ {Top} : color'[n] = color[n]
      /\ color' \in [Node -> ColorT]
  BY <1>1, <1>2 DEF CycleTypes, ColorT
<1>6. OnStack(Top) /\ color[Top] = "GRAY"
  BY <1>2 DEF OnStack, Top, GrayIsStack
<1>7. CycleTypes'
  BY <1>1, <1>3, <1>5 DEF CycleTypes
<1>8. WhiteBetween'
  BY <1>1 DEF WhiteBetween
<1>9. GrayIsStack'
  <2>1. \A i, j \in 1 .. Len(stack') : stack'[i] = stack'[j] => i = j
    BY <1>2, <1>3 DEF GrayIsStack
  <2>2. stack' # <<>> => stack'[1] = root'
    BY <1>1, <1>2, <1>3 DEF GrayIsStack
  <2>3. \A n \in Node : /\ color'[n] = "GRAY" <=> OnStack(n)'
                        /\ color'[n] # "WHITE" => n \in live'
    BY <1>1, <1>4, <1>5, <1>6 DEF GrayIsStack
  <2>4. \A n \in Node : rest'[n] \subseteq succ'[n] /\ (rest'[n] # {} => OnStack(n)')
    BY <1>1, <1>4 DEF GrayIsStack
  <2>5. root' \in live' /\ color'[root'] # "WHITE"
    BY <1>1, <1>5 DEF GrayIsStack, CycleTypes, IsGraph
  <2> QED BY <1>1, <2>1, <2>2, <2>3, <2>4, <2>5 DEF GrayIsStack
<1>10. StackIsWalk'
  <2>1. /\ \A i \in 1 .. Len(stack') :
             i \in 1 .. Len(stack) /\ stack'[i] = stack[i]
        /\ \A j \in 1 .. Len(stack') : \A i \in 1 .. j : i \in 1 .. Len(stack')
    BY <1>2, <1>3
  <2> QED BY <1>1, <2>1 DEF StackIsWalk
<1>11. \A k, l \in Node : Reported(k, l)' <=> Reported(k, l)
  BY <1>1 DEF Reported
<1>12. \A m \in succ[Top] : color[m] = "BLACK" \/ Reported(Top, m)
  BY <1>1, <1>2 DEF PassedEdges, Top
<1>13. PassedEdges'
  <2>1. ASSUME NEW i \in 1 .. Len(stack'),
               NEW l \in succ[stack'[i]] \ rest[stack'[i]]
        PROVE  \/ color'[l] = "BLACK"
               \/ Reported(stack[i], l)'
               \/ i < Len(stack') /\ l = stack'[i + 1]
    <3>1. /\ i \in 1 .. Len(stack) /\ stack'[i] = stack[i] /\ i < Len(stack)
          /\ stack[i] \in Node /\ l \in Node
      BY <1>2, <1>3
    <3>2. \/ color[l] = "BLACK" \/ Reported(stack[i], l) \/ l = stack[i + 1]
      BY <1>1, <2>1, <3>1 DEF PassedEdges
    <3>3. CASE l = stack[i + 1] /\ i + 1 = Len(stack)
      BY <1>5, <3>3 DEF Top
    <3>4. CASE l = stack[i + 1] /\ i + 1 # Len(stack)
      BY <1>2, <1>3, <3>1, <3>4
    <3>5. CASE Reported(stack[i], l)
      BY <1>11, <3>1, <3>5
    <3>6. CASE color[l] = "BLACK"
      BY <1>5, <3>1, <3>6
    <3> QED BY <3>2, <3>3, <3>4, <3>5, <3>6
  <2>2. \A n, l \in Node : Reported(n, l)' => color'[l] # "WHITE"
    BY <1>1, <1>5, <1>11 DEF PassedEdges
  <2>3. \A n \in Node : color'[n] = "BLACK" =>
          \A l \in succ[n] : color'[l] = "BLACK" \/ Reported(n, l)'
    BY <1>1, <1>2, <1>5, <1>11, <1>12 DEF PassedEdges
  <2>4. \A n \in Node : color'[n] # "WHITE" => color[n] # "WHITE"
    BY <1>5, <1>6
  <2>5. \A n \in Node : color'[n] # "WHITE" =>
          \A l \in succ[n] \ rest[n] :
            Dominates(succ, root, l, n) => Reported(n, l)'
    BY <1>1, <1>2, <1>11, <2>4 DEF PassedEdges
  <2> QED BY <1>1, <2>1, <2>2, <2>3, <2>5 DEF PassedEdges
<1>14. FinishedAcyclic'
  <2>1. ASSUME NEW n \in Node, color'[n] = "BLACK"
        PROVE  \A m \in Unreported[n] : n \notin Reach(Unreported, m)
    <3>1. CASE n # Top
      BY <1>1, <1>5, <2>1, <3>1 DEF FinishedAcyclic
    <3>2. CASE n = Top
      <4> DEFINE B == {k \in Node : color[k] = "BLACK"}
      <4>1. Closed(Unreported, B)
        BY <1>1, <1>2 DEF Closed, Unreported, PassedEdges
      <4>2. ASSUME NEW m \in Unreported[Top] PROVE m \in B
        BY <1>2, <1>12 DEF Unreported
      <4>3. \A m \in B : Reach(Unreported, m) \subseteq B
        BY <4>1, ReachLeast
      <4>4. Top \notin B
        BY <1>6
      <4> QED BY <3>2, <4>2, <4>3, <4>4
    <3> QED BY <3>1, <3>2
  <2> QED BY <1>1, <1>7, <1>11, <2>1, StaysAcyclic DEF FinishedAcyclic
<1>15. OnlyCyclesReported' /\ SourcesReached' /\ Results' /\ Judged'
  BY <1>1 DEF OnlyCyclesReported, SourcesReached, Results, Judged
<1> QED BY <1>7, <1>8, <1>9, <1>10, <1>13, <1>14, <1>15

(* The stack is empty: all that the root reaches is finished.              *)
LEMMA CyclesRecover == ASSUME CycleInv, Recover PROVE CycleInv'
<1> USE DEF CycleInv, graph
<1>1. /\ pc = "scan" /\ pc' = "ask" /\ stack = <<>> /\ Len(stack) = 0
      /\ color' = [n \in Node |-> IF n \in live THEN saved[n] ELSE color[n]]
      /\ live' = live /\ succ' = succ /\ root' = root /\ stack' = stack
      /\ rest' = rest /\ vec' = vec /\ next' = next
  BY DEF Recover
<1>2. \A n \in Node : color'[n] = "WHITE"
  BY <1>1 DEF GrayIsStack, WhiteBetween
<1>3. color' \in [Node -> ColorT]
  BY <1>1, <1>2 DEF ColorT
<1>4. CycleTypes' /\ WhiteBetween'
  BY <1>1, <1>2, <1>3 DEF CycleTypes, WhiteBetween
<1>5. GrayIsStack' /\ StackIsWalk'
  BY <1>1, <1>2 DEF GrayIsStack, StackIsWalk, OnStack
<1>6. PassedEdges' /\ FinishedAcyclic' /\ OnlyCyclesReported' /\ SourcesReached'
  BY <1>1 DEF PassedEdges, FinishedAcyclic, OnlyCyclesReported, SourcesReached
<1>7. ASSUME root \in live, NEW n \in Reach(succ, root)
      PROVE  color[n] = "BLACK" /\ rest[n] = {} /\ n \in Node
  <2> DEFINE B == {k \in Node : color[k] # "WHITE"}
  <2>1. \A k \in Node : color[k] # "GRAY" /\ rest[k] = {}
    BY <1>1 DEF GrayIsStack, OnStack
  <2>2. \A k \in B : color[k] = "BLACK"
    BY <2>1 DEF CycleTypes, ColorT
  <2>3. Closed(succ, B)
    <3> SUFFICES ASSUME NEW k \in B, NEW m \in succ[k] PROVE m \in B
      BY DEF Closed
    <3>1. m \in Node
      BY DEF CycleTypes, IsGraph
    <3> QED BY <1>1, <2>2, <3>1 DEF PassedEdges
  <2>4. root \in B
    BY <1>1 DEF GrayIsStack, CycleTypes, IsGraph
  <2>5. n \in B
    BY <2>3, <2>4, ReachLeast
  <2> QED BY <2>1, <2>2, <2>5
<1>8. Results'
  <2> SUFFICES ASSUME root \in live, NEW n \in Reach(succ, root)
               PROVE  /\ \A m \in Unreported[n] : n \notin Reach(Unreported, m)
                      /\ \A m \in succ[n] :
                           Dominates(succ, root, m, n) => Reported(n, m)
    BY <1>1 DEF Results, Unreported, Reported
  <2> QED BY <1>1, <1>7 DEF FinishedAcyclic, PassedEdges
<1>9. Judged'
  BY <1>1 DEF Judged, CycleTypes
<1> QED BY <1>4, <1>5, <1>6, <1>8, <1>9

(* The results stay true while the same edges are reported.                *)
LEMMA ResultsStay ==
  ASSUME CycleInv, CycleTypes', pc \in {"ask", "done"},
         live' = live, succ' = succ, root' = root,
         \A n, m \in Node : Reported(n, m)' <=> Reported(n, m)
  PROVE  Results'
<1> SUFFICES ASSUME root \in live, NEW n \in Reach(succ, root)
             PROVE  /\ \A m \in Unreported'[n] : n \notin Reach(Unreported', m)
                    /\ \A m \in succ[n] :
                         Dominates(succ, root, m, n) => Reported(n, m)'
  BY DEF Results
<1>1. n \in Node /\ succ[n] \subseteq Node
  BY DEF Reach, CycleInv, CycleTypes, IsGraph
<1>2. \A m \in Unreported[n] : n \notin Reach(Unreported, m)
  BY DEF CycleInv, Results
<1>3. \A m \in Unreported'[n] : n \notin Reach(Unreported', m)
  BY <1>1, <1>2, StaysAcyclic DEF CycleInv
<1>4. \A m \in succ[n] : Dominates(succ, root, m, n) => Reported(n, m)'
  BY <1>1 DEF CycleInv, Results
<1> QED BY <1>3, <1>4

LEMMA JudgeOne ==
  ASSUME NEW v \in Seq(CycleT), NEW k \in 1 .. Len(v), NEW d \in BOOLEAN
  PROVE  LET w == [v EXCEPT ![k].is_reducible = d] IN
         /\ w \in Seq(CycleT) /\ Len(w) = Len(v)
         /\ \A i \in 1 .. Len(v) :
              /\ w[i].head_node = v[i].head_node
              /\ w[i].back_edge_start = v[i].back_edge_start
              /\ i # k => w[i] = v[i]
         /\ w[k].is_reducible = d
<1> DEFINE w == [v EXCEPT ![k].is_reducible = d]
<1>1. v[k] \in CycleT
  OBVIOUS
<1>2. w = [v EXCEPT ![k] = [v[k] EXCEPT !.is_reducible = d]]
  OBVIOUS
<1> DEFINE c == [v[k] EXCEPT !.is_reducible = d]
<1>3. /\ c \in CycleT /\ c.is_reducible = d
      /\ c.head_node = v[k].head_node
      /\ c.back_edge_start = v[k].back_edge_start
  BY <1>1 DEF CycleT
<1> HIDE DEF c
<1>4. w = [v EXCEPT ![k] = c]
  BY <1>2 DEF c
<1> QED BY <1>3, <1>4

LEMMA CyclesAsk == ASSUME CycleInv, Ask PROVE CycleInv'
<1> USE DEF CycleInv, graph
<1> DEFINE d == Dominates(succ, root, vec[next].head_node,
                          vec[next].back_edge_start)
<1>1. /\ pc = "ask" /\ pc' = pc /\ next \in 1 .. Len(vec) /\ next' = next + 1
      /\ vec' = [vec EXCEPT ![next].is_reducible = d]
      /\ live' = live /\ succ' = succ /\ color' = color /\ root' = root
      /\ stack' = stack /\ rest' = rest
  BY DEF Ask, CycleTypes
<1>2. d \in BOOLEAN /\ vec \in Seq(CycleT) /\ next \in Nat
  BY DEF Dominates, CycleTypes
<1> HIDE DEF d
<1>3. /\ vec' \in Seq(CycleT) /\ Len(vec') = Len(vec)
      /\ \A i \in 1 .. Len(vec) :
           /\ vec'[i].head_node = vec[i].head_node
           /\ vec'[i].back_edge_start = vec[i].back_edge_start
           /\ i # next => vec'[i] = vec[i]
      /\ vec'[next].is_reducible = d
  <2> DEFINE w == [vec EXCEPT ![next].is_reducible = d]
  <2>1. next \in 1 .. Len(vec) /\ vec' = w
    BY <1>1
  <2>2. /\ w \in Seq(CycleT) /\ Len(w) = Len(vec)
        /\ \A i \in 1 .. Len(vec) :
             /\ w[i].head_node = vec[i].head_node
             /\ w[i].back_edge_start = vec[i].back_edge_start
             /\ i # next => w[i] = vec[i]
        /\ w[next].is_reducible = d
    BY <1>2, <2>1, JudgeOne
  <2> QED BY <2>1, <2>2
<1>4. CycleTypes'
  BY <1>1, <1>2, <1>3 DEF CycleTypes
<1>5. WhiteBetween' /\ GrayIsStack' /\ StackIsWalk'
  BY <1>1 DEF WhiteBetween, GrayIsStack, StackIsWalk, OnStack
<1>6. PassedEdges' /\ FinishedAcyclic'
  BY <1>1 DEF PassedEdges, FinishedAcyclic
<1>7. OnlyCyclesReported' /\ SourcesReached'
  BY <1>1, <1>3 DEF OnlyCyclesReported, SourcesReached
<1>8. \A n, m \in Node : Reported(n, m)' <=> Reported(n, m)
  BY <1>3 DEF Reported
<1>9. Results'
  BY <1>1, <1>4, <1>8, ResultsStay
<1>10. Judged'
  <2>1. ASSUME NEW i \in 1 .. Len(vec), i < next + 1
        PROVE  vec'[i].is_reducible <=>
                 Dominates(succ, root, vec'[i].head_node, vec'[i].back_edge_start)
    <3>1. CASE i = next
      BY <1>3, <3>1 DEF d
    <3>2. CASE i # next
      <4>1. i < next /\ vec'[i] = vec[i]
        BY <1>2, <1>3, <2>1, <3>2
      <4> QED BY <4>1 DEF Judged
    <3> QED BY <3>1, <3>2
  <2> QED BY <1>1, <1>3, <2>1 DEF Judged
<1> QED BY <1>4, <1>5, <1>6, <1>7, <1>9, <1>10

LEMMA CyclesReturn == ASSUME CycleInv, Return PROVE CycleInv'
<1> USE DEF CycleInv, graph
<1>1. /\ pc = "ask" /\ pc' = "done" /\ next > Len(vec)
      /\ live' = live /\ succ' = succ /\ color' = color /\ root' = root
      /\ stack' = stack /\ rest' = rest /\ vec' = vec /\ next' = next
  BY DEF Return
<1>2. CycleTypes' /\ WhiteBetween' /\ GrayIsStack' /\ StackIsWalk'
  BY <1>1 DEF CycleTypes, WhiteBetween, GrayIsStack, StackIsWalk, OnStack
<1>3. PassedEdges' /\ FinishedAcyclic' /\ OnlyCyclesReported' /\ SourcesReached' /\ Judged'
  BY <1>1 DEF PassedEdges, FinishedAcyclic, OnlyCyclesReported, SourcesReached, Judged
<1>4. \A n, m \in Node : Reported(n, m)' <=> Reported(n, m)
  BY <1>1 DEF Reported
<1>5. Results'
  BY <1>1, <1>2, <1>4, ResultsStay
<1> QED BY <1>2, <1>3, <1>5

LEMMA CyclesUnchanged == CycleInv /\ UNCHANGED cycleVars => CycleInv'
<1> SUFFICES ASSUME CycleInv, UNCHANGED cycleVars PROVE CycleInv'
  OBVIOUS
<1> USE DEF CycleInv
<1>1. /\ live' = live /\ succ' = succ /\ color' = color /\ root' = root
      /\ stack' = stack /\ rest' = rest /\ vec' = vec /\ next' = next
      /\ pc' = pc /\ saved' = saved
  BY DEF cycleVars
<1>2. CycleTypes' /\ WhiteBetween' /\ GrayIsStack' /\ StackIsWalk'
  BY <1>1 DEF CycleTypes, WhiteBetween, GrayIsStack, StackIsWalk, OnStack
<1>3. \A n, m \in Node : Reported(n, m)' <=> Reported(n, m)
  BY <1>1 DEF Reported
<1>4. PassedEdges' /\ OnlyCyclesReported' /\ SourcesReached' /\ Judged'
  BY <1>1 DEF PassedEdges, OnlyCyclesReported, SourcesReached, Judged, Reported
<1>5. FinishedAcyclic'
  BY <1>1, <1>2, <1>3, StaysAcyclic DEF FinishedAcyclic
<1>6. Results'
  <2>1. CASE pc \in {"ask", "done"}
    BY <1>1, <1>2, <1>3, <2>1, ResultsStay
  <2>2. CASE pc \notin {"ask", "done"}
    BY <1>1, <2>2 DEF Results
  <2> QED BY <2>1, <2>2
<1> QED BY <1>2, <1>4, <1>5, <1>6

LEMMA CyclesInit == Init => CycleInv
<1> SUFFICES ASSUME Init PROVE CycleInv
  OBVIOUS
<1>1. Len(stack) = 0 /\ Len(vec) = 0 /\ pc = "idle"
  BY DEF Init
<1>2. CycleTypes /\ WhiteBetween
  BY GraphsAssumption
     DEF Init, AllWhite, CycleTypes, ColorT, IsGraph, WhiteBetween
<1>3. GrayIsStack /\ StackIsWalk
  BY <1>1, <1>2 DEF Init, AllWhite, GrayIsStack, StackIsWalk, OnStack
<1>4. OnlyCyclesReported /\ SourcesReached /\ Judged
  BY <1>1 DEF OnlyCyclesReported, SourcesReached, Judged
<1> QED BY <1>1, <1>2, <1>3, <1>4
        DEF CycleInv, PassedEdges, FinishedAcyclic, Results

(* The invariant that the results on cycles are read off, and that every   *)
(* caller of get_cycles may rely on.                                       *)
LEMMA CyclesStep == CycleInv /\ [Next]_cycleVars => CycleInv'
  BY CyclesCall, CyclesBackEdge, CyclesSkip, CyclesDescend, CyclesLeave,
     CyclesRecover, CyclesAsk, CyclesReturn, CyclesUnchanged DEF Next, Step

THEOREM CycleInvCorrect == Spec => []CycleInv
  BY CyclesInit, CyclesStep, PTL DEF Spec

-----------------------------------------------------------------------------
(* THE LOOP TREE *)

(* get_cycles has returned: what it leaves, without the colours, which RPO *)
(* uses for a while.                                                       *)
Asleep ==
  /\ pc = "done" /\ IsGraph(live, succ)
  /\ stack = <<>> /\ rest = [n \in Node |-> {}]
  /\ vec \in Seq(CycleT) /\ next \in Nat \ {0}
  /\ OnlyCyclesReported /\ SourcesReached /\ Results /\ Judged

(* The parts of the build follow each other, each on what the one before   *)
(* left.                                                                   *)
BuildOrder ==
  /\ phase \in {"ready", "search", "order", "link", "built"}
  /\ phase # "order" => stage # "scan"
  /\ stage # "scan" => CycleInv
  /\ stage = "scan" => Asleep
  /\ phase \in {"ready", "search"} =>
       start = 0 /\ found = <<>> /\ head = 0 /\ look = {} /\ stage = "idle"
  /\ phase \notin {"ready", "search"} => RpoInv /\ pc = "done" /\ start = 1
  /\ phase # "ready" => root = 1 /\ live = 1 .. Cardinality(live)
  /\ IsFiniteSet(live)
  /\ phase \in {"ready", "search", "order"} =>
       m_loop = [n \in Node |-> 0] /\ arcs = {}
  /\ phase \in {"order", "link"} => loops = Sources

(* The loop over rpo has passed a suffix of what RPO listed.               *)
LoopPassed(l) ==
  l \in Sources /\ \E j \in Len(todo) + 1 .. Len(found) : found[j] = l

TodoIsPrefix ==
  /\ stage = "done"
  /\ todo \in Seq(Node) /\ Len(todo) <= Len(found)
  /\ \A i \in 1 .. Len(todo) : todo[i] = found[i]
  /\ phase = "built" =>
       /\ todo = <<>>
       /\ loops = Sources \cup
            (IF Outside = {} THEN {} ELSE {Cardinality(live) + 1})

(* A label is a loop around the node.                                      *)
LabelsAround ==
  /\ m_loop \in [Node -> Node \cup {0}]
  /\ \A n \in Node : m_loop[n] # 0 =>
       LoopPassed(m_loop[n]) /\ n \in Reach(succ, m_loop[n])

(* A node that a loop has relabelled is labelled by that loop or by one    *)
(* that hangs under it, however often it was relabelled since.             *)
LabelsBelow ==
  \A n \in Node, l \in Node :
    LoopPassed(l) /\ n \in Reach(succ, l) =>
      m_loop[n] # 0 /\ m_loop[n] \in Above(l)

(* The links lead from a loop to one that was passed later.                *)
ArcsForward ==
  \A a \in arcs :
    /\ LoopPassed(a[1]) /\ LoopPassed(a[2])
    /\ \E i, j \in 1 .. Len(found) : i < j /\ found[j] = a[1] /\ found[i] = a[2]

(* Loops that overlap hang together.                                       *)
OverlapHangs ==
  \A k, l \in Node : \A i, j \in 1 .. Len(found) :
    /\ LoopPassed(k) /\ LoopPassed(l)
    /\ i < j /\ found[i] = k /\ found[j] = l
    /\ Reach(succ, k) \cap Reach(succ, l) # {}
    => k \in Above(l)

Linking ==
  phase \in {"link", "built"} =>
    TodoIsPrefix /\ LabelsAround /\ LabelsBelow /\ ArcsForward /\ OverlapHangs

TreeInv == BuildOrder /\ Linking

-----------------------------------------------------------------------------

White == color \in [Node -> ColorT] /\ \A n \in Node : color[n] = "WHITE"

LEMMA FallsAsleep == CycleInv /\ pc = "done" => Asleep /\ White
<1> SUFFICES ASSUME CycleInv, pc = "done" PROVE Asleep /\ White
  OBVIOUS
<1>1. stack = <<>> /\ Len(stack) = 0
  BY DEF CycleInv, GrayIsStack
<1>2. rest = [n \in Node |-> {}]
  BY <1>1 DEF CycleInv, CycleTypes, GrayIsStack, OnStack
<1> QED BY <1>1, <1>2 DEF CycleInv, CycleTypes, Asleep, White, WhiteBetween

LEMMA StaysAsleep ==
  ASSUME Asleep, UNCHANGED <<live, succ, cycleLocals>>
  PROVE  Asleep'
<1>1. /\ live' = live /\ succ' = succ /\ root' = root /\ stack' = stack
      /\ rest' = rest /\ vec' = vec /\ next' = next /\ pc' = pc
  BY DEF cycleLocals
<1>2. OnlyCyclesReported' /\ SourcesReached' /\ Judged'
  BY <1>1 DEF Asleep, OnlyCyclesReported, SourcesReached, Judged
<1>3. Unreported' = Unreported
  BY <1>1 DEF Unreported, Reported
<1>4. \A n, m \in Node : Reported(n, m)' <=> Reported(n, m)
  BY <1>1 DEF Reported
<1>5. Results'
  <2> SUFFICES ASSUME root \in live, NEW n \in Reach(succ, root)
               PROVE  /\ \A m \in Unreported[n] : n \notin Reach(Unreported, m)
                      /\ \A m \in succ[n] :
                           Dominates(succ, root, m, n) => Reported(n, m)'
    BY <1>1, <1>3 DEF Results
  <2>1. n \in Node /\ succ[n] \subseteq Node
    BY DEF Reach, Asleep, IsGraph
  <2> QED BY <1>4, <2>1 DEF Asleep, Results
<1> QED BY <1>1, <1>2, <1>5 DEF Asleep

LEMMA WakesUp == Asleep /\ White => CycleInv
<1> SUFFICES ASSUME Asleep, White PROVE CycleInv
  OBVIOUS
<1>1. Len(stack) = 0 /\ pc = "done" /\ rest \in [Node -> SUBSET Node]
  BY DEF Asleep
<1>2. CycleTypes /\ WhiteBetween
  BY <1>1 DEF Asleep, White, CycleTypes, WhiteBetween
<1>3. GrayIsStack /\ StackIsWalk
  BY <1>1 DEF Asleep, White, GrayIsStack, StackIsWalk, OnStack
<1> QED BY <1>1, <1>2, <1>3 DEF Asleep, CycleInv, PassedEdges, FinishedAcyclic

(* Before the loops are created only get_cycles moves.                     *)
LEMMA TreeSearch ==
  ASSUME TreeInv,
         \/ Search
         \/ buildLoopTree
         \/ /\ phase = "ready"
            /\ \E r \in Key : get_cycles(r)
            /\ UNCHANGED <<rpoLocals, loopVars>>
  PROVE  TreeInv'
<1> USE DEF TreeInv, BuildOrder
<1>1. /\ phase \in {"ready", "search"} /\ stage = "idle" /\ CycleInv
      /\ UNCHANGED <<rpoLocals, m_loop, loops, arcs, todo>>
      /\ phase' \in {"ready", "search"}
  BY DEF Search, buildLoopTree, loopVars
<1>2. live' = live /\ CycleInv'
  <2>1. CASE Search
    <3>1. live' = live
      BY <2>1 DEF Search, Step, BackEdge, Descend, Skip, Leave, Recover, Ask,
                  Return, graph
    <3> QED BY <1>1, <2>1, <3>1, CyclesStep DEF Search, Next
  <2>2. CASE buildLoopTree \/ \E r \in Key : get_cycles(r)
    BY <1>1, <2>2, CyclesCall DEF buildLoopTree, get_cycles, graph
  <2> QED BY <2>1, <2>2
<1>3. phase' # "ready" => root' = 1 /\ live' = 1 .. Cardinality(live')
  <2>1. CASE Search
    <3>1. root' = root /\ phase' = phase
      BY <2>1 DEF Search, Step, BackEdge, Descend, Skip, Leave, Recover, Ask,
                  Return, loopVars
    <3> QED BY <1>2, <3>1
  <2>2. CASE buildLoopTree
    BY <1>2, <2>2 DEF buildLoopTree, get_cycles
  <2>3. CASE phase = "ready" /\ UNCHANGED <<rpoLocals, loopVars>>
    BY <2>3 DEF loopVars
  <2> QED BY <2>1, <2>2, <2>3
<1> QED BY <1>1, <1>2, <1>3 DEF Linking, rpoLocals

LEMMA TreeCreate == ASSUME TreeInv, CreateLoops PROVE TreeInv'
<1> USE DEF TreeInv, BuildOrder
<1>1. /\ phase = "search" /\ phase' = "order" /\ pc = "done" /\ RPO(1)
      /\ UNCHANGED <<cycleLocals, m_loop, arcs, todo>>
      /\ loops' = Sources
      /\ live' = live /\ succ' = succ /\ start' = 1
      /\ pc' = pc /\ root' = root /\ vec' = vec
  BY DEF CreateLoops, Sources, RPO, graph, cycleLocals
<1>2. /\ CycleInv /\ stage = "idle" /\ start = 0 /\ found = <<>> /\ head = 0
      /\ look = {} /\ root = 1 /\ live = 1 .. Cardinality(live)
  BY <1>1
<1>3. Asleep /\ White
  BY <1>1, <1>2, FallsAsleep
<1>4. Asleep'
  BY <1>1, <1>3, StaysAsleep
<1>5. RpoInv'
  <2>1. found \in Seq(Node) /\ Len(found) = 0
    BY <1>2
  <2>2. RpoQuiet
    BY <1>2, <1>3, <2>1 DEF RpoQuiet, RpoTypeOK, Asleep, White
  <2> QED BY <1>1, <2>2, EntryAssumption, RpoCalled
<1>6. ASSUME stage' # "scan" PROVE CycleInv'
  <2>1. (Asleep /\ White)'
    BY <1>4, <1>5, <1>6 DEF RpoInv, RpoTypeOK, RpoColorsRestored, White
  <2> QED BY <2>1, WakesUp, PTL
<1>7. Sources' = Sources
  BY <1>1 DEF Sources
<1> QED BY <1>1, <1>2, <1>4, <1>5, <1>6, <1>7 DEF Linking

LEMMA TreeOrder == ASSUME TreeInv, Order PROVE TreeInv'
<1> USE DEF TreeInv, BuildOrder
<1>1. /\ phase = "order" /\ RpoStep /\ UNCHANGED <<cycleLocals, loopVars>>
      /\ live' = live /\ succ' = succ /\ start' = start /\ stage = "scan"
  BY DEF Order, RpoStep, Pop, Look, RpoFinish, graph
<1>2. /\ Asleep /\ RpoInv /\ start = 1 /\ root = 1 /\ loops = Sources
      /\ live = 1 .. Cardinality(live)
  BY <1>1
<1>3. Asleep' /\ RpoInv'
  BY <1>1, <1>2, StaysAsleep, RpoStepKeeps
<1>4. ASSUME stage' # "scan" PROVE CycleInv'
  <2>1. (Asleep /\ White)'
    BY <1>3, <1>4 DEF RpoInv, RpoTypeOK, RpoColorsRestored, White
  <2> QED BY <2>1, WakesUp, PTL
<1>5. /\ phase' = phase /\ m_loop' = m_loop /\ arcs' = arcs /\ loops' = loops
      /\ root' = root /\ pc' = pc /\ Sources' = Sources
  BY <1>1 DEF loopVars, cycleLocals, Sources
<1> QED BY <1>1, <1>2, <1>3, <1>4, <1>5 DEF Asleep, Linking

(* From here on only the loop tree changes.                                *)
LEMMA BothUnchanged ==
  ASSUME TreeInv, phase \in {"order", "link", "built"}, stage = "done",
         UNCHANGED <<cycleVars, rpoLocals>>
  PROVE  /\ CycleInv' /\ RpoInv' /\ pc' = "done" /\ start' = 1 /\ root' = 1
         /\ stage' = "done" /\ live' = live /\ succ' = succ /\ found' = found
         /\ live = 1 .. Cardinality(live) /\ IsFiniteSet(live)
         /\ Sources' = Sources
<1>1. CycleInv /\ RpoInv /\ pc = "done" /\ start = 1 /\ root = 1
  BY DEF TreeInv, BuildOrder
<1>2. UNCHANGED cycleVars /\ UNCHANGED rpoVars
  BY DEF cycleVars, rpoLocals, rpoVars
<1> QED BY <1>1, <1>2, CyclesUnchanged, RpoUnchanged
        DEF TreeInv, BuildOrder, cycleVars, rpoVars, Sources

LEMMA TreeVisit == ASSUME TreeInv, Visit PROVE TreeInv'
<1> USE DEF TreeInv
<1>1. /\ phase = "order" /\ phase' = "link" /\ stage = "done" /\ todo' = listed
      /\ m_loop' = m_loop /\ arcs' = arcs /\ loops' = loops
      /\ UNCHANGED <<cycleVars, rpoLocals>>
  BY DEF Visit
<1>2. /\ CycleInv' /\ RpoInv' /\ pc' = "done" /\ start' = 1 /\ root' = 1
      /\ stage' = "done" /\ live' = live /\ succ' = succ /\ found' = found
      /\ live = 1 .. Cardinality(live) /\ IsFiniteSet(live)
      /\ Sources' = Sources
  BY <1>1, BothUnchanged
<1>3. m_loop = [n \in Node |-> 0] /\ arcs = {} /\ loops = Sources /\ RpoInv
  BY <1>1 DEF BuildOrder
<1>4. BuildOrder'
  BY <1>1, <1>2, <1>3 DEF BuildOrder
<1>5. head = Len(found) /\ found \in Seq(Node) /\ head \in 0 .. Len(found)
  BY <1>1, <1>3 DEF RpoInv, RpoPassed, RpoTypeOK
<1>6. /\ todo' \in Seq(Node) /\ Len(todo') = Len(found)
      /\ \A i \in 1 .. Len(found) : todo'[i] = found[i]
  BY <1>1, <1>5, PrefixFacts DEF listed
<1>7. \A l : ~LoopPassed(l)'
  BY <1>2, <1>5, <1>6 DEF LoopPassed
<1>8. Linking'
  BY <1>1, <1>2, <1>3, <1>5, <1>6, <1>7
     DEF Linking, TodoIsPrefix, LabelsAround, LabelsBelow, ArcsForward,
         OverlapHangs
<1> QED BY <1>4, <1>8

Below(A) == [k \in Node |-> {a[2] : a \in {b \in A : b[1] = k}}]

LEMMA BelowType == ASSUME NEW A, \A a \in A : a[2] \in Node
                   PROVE  Below(A) \in [Node -> SUBSET Node]
  BY DEF Below

(* One turn of the loop over rpo, when it comes to the source of a cycle.  *)
LEMMA TreeLinkSource ==
  ASSUME TreeInv, Link, BuildOrder', Last(todo) \in Sources,
         found \in Seq(Node), RpoNoRepeats,
         succ \in [Node -> SUBSET Node],
         succ' = succ, found' = found, Sources' = Sources, stage' = stage
  PROVE  Linking'
<1>0. PICK c : c = Last(todo)
  OBVIOUS
<1> DEFINE N == Len(todo)
           body == Reach(succ, c)
<1>1. /\ phase = "link" /\ phase' = "link" /\ loops = Sources
      /\ todo # <<>> /\ todo' = Front(todo)
      /\ TodoIsPrefix /\ LabelsAround /\ LabelsBelow /\ ArcsForward
      /\ OverlapHangs
  BY DEF TreeInv, BuildOrder, Linking, Link
<1>2. /\ m_loop' = [n \in Node |-> IF n \in body THEN c ELSE m_loop[n]]
      /\ arcs' = arcs \cup {<<m_loop[n], c>> : n \in {k \in body : m_loop[k] # 0}}
  BY <1>0, <1>1 DEF Link, Label
<1>3. /\ N \in Nat \ {0} /\ N <= Len(found) /\ c = found[N]
      /\ c \in Node /\ c # 0
      /\ todo' \in Seq(Node) /\ Len(todo') = N - 1
      /\ \A i \in 1 .. N - 1 : todo'[i] = found[i]
  <2>1. N \in Nat \ {0} /\ N <= Len(found) /\ c = found[N] /\ c \in Node
    BY <1>0, <1>1 DEF TodoIsPrefix, Last
  <2>2. todo' = SubSeq(todo, 1, N - 1)
    BY <1>1 DEF Front
  <2>3. N - 1 \in 0 .. Len(todo) /\ todo \in Seq(Node)
    BY <1>1, <2>1 DEF TodoIsPrefix
  <2>4. /\ todo' \in Seq(Node) /\ Len(todo') = N - 1
        /\ \A i \in 1 .. N - 1 : todo'[i] = todo[i]
    BY <2>2, <2>3, PrefixFacts
  <2> QED BY <1>1, <2>1, <2>4, NodeAssumption DEF TodoIsPrefix
<1>4. TodoIsPrefix'
  BY <1>1, <1>3 DEF TodoIsPrefix
<1>5. \A l : LoopPassed(l)' <=> LoopPassed(l) \/ l = c
  BY <1>0, <1>1, <1>3 DEF LoopPassed
<1>6. /\ ~LoopPassed(c)
      /\ \A l : LoopPassed(l) => \E j \in N + 1 .. Len(found) : found[j] = l
  BY <1>3 DEF LoopPassed, RpoNoRepeats
<1>7. c \in body /\ body \subseteq Node
  BY <1>3, ReachRoot, ReachInNode
<1>8. LabelsAround'
  <2>1. m_loop' \in [Node -> Node \cup {0}]
    BY <1>1, <1>2, <1>3 DEF LabelsAround
  <2>2. ASSUME NEW n \in Node, m_loop'[n] # 0
        PROVE  LoopPassed(m_loop[n])' /\ n \in Reach(succ, m_loop'[n])
    BY <1>1, <1>2, <1>5, <2>2 DEF LabelsAround
  <2> QED BY <2>1, <2>2 DEF LabelsAround
<1>9. ArcsForward'
  <2>1. ASSUME NEW a \in arcs'
        PROVE  /\ LoopPassed(a[1])' /\ LoopPassed(a[2])'
               /\ \E i, j \in 1 .. Len(found) :
                    i < j /\ found[j] = a[1] /\ found[i] = a[2]
    <3>1. CASE a \in arcs
      BY <1>1, <1>5, <3>1 DEF ArcsForward
    <3>2. CASE a \notin arcs
      <4>1. PICK n \in body : m_loop[n] # 0 /\ a = <<m_loop[n], c>>
        BY <1>2, <3>2
      <4>2. LoopPassed(m_loop[n])
        BY <1>1, <1>7, <4>1 DEF LabelsAround
      <4>3. PICK j \in N + 1 .. Len(found) : found[j] = m_loop[n]
        BY <1>6, <4>2
      <4> QED BY <1>3, <1>5, <4>1, <4>2, <4>3
    <3> QED BY <3>1, <3>2
  <2> QED BY <2>1 DEF ArcsForward
<1>10. /\ \A l : Above(l) = Reach(Below(arcs), l)
       /\ \A l : Above(l)' = Reach(Below(arcs'), l)
  BY DEF Above, Below
<1>11. Below(arcs') \in [Node -> SUBSET Node]
  <2>1. \A a \in arcs' : a[2] \in Node
    BY <1>9 DEF ArcsForward
  <2> QED BY <2>1, BelowType
<1>12. \A l : Above(l) \subseteq Above(l)'
  <2>1. \A n \in Node : Below(arcs)[n] \subseteq Below(arcs')[n]
    BY <1>2 DEF Below
  <2> QED BY <1>10, <2>1, ReachMonotone
<1>13. ASSUME NEW l \in Node, LoopPassed(l), Reach(succ, l) \cap body # {}
       PROVE  c \in Above(l)'
  <2>1. PICK n \in Reach(succ, l) : n \in body
    BY <1>13
  <2>2. m_loop[n] # 0 /\ m_loop[n] \in Above(l)
    BY <1>1, <1>7, <1>13, <2>1 DEF LabelsBelow
  <2>3. m_loop[n] \in Reach(Below(arcs'), l)
    BY <1>10, <1>12, <2>2
  <2>4. <<m_loop[n], c>> \in arcs' /\ m_loop[n] \in Node
    BY <1>2, <2>1, <2>2, <2>3, ReachInNode
  <2>5. c \in Below(arcs')[m_loop[n]]
    BY <2>4 DEF Below
  <2> QED BY <1>10, <1>11, <2>3, <2>5, ReachStep
<1>14. LabelsBelow'
  <2>1. ASSUME NEW n \in Node, NEW l \in Node, LoopPassed(l)', n \in Reach(succ, l)
        PROVE  m_loop'[n] # 0 /\ m_loop'[n] \in Above(l)'
    <3>1. CASE n \in body
      <4>1. m_loop'[n] = c
        BY <1>2, <3>1
      <4>2. c \in Above(c)'
        BY <1>3, <1>10, ReachRoot
      <4> QED BY <1>3, <1>5, <1>13, <2>1, <3>1, <4>1, <4>2
    <3>2. CASE n \notin body
      BY <1>1, <1>2, <1>5, <1>12, <2>1, <3>2 DEF LabelsBelow
    <3> QED BY <3>1, <3>2
  <2> QED BY <2>1 DEF LabelsBelow
<1>15. OverlapHangs'
  <2>1. ASSUME NEW k \in Node, NEW l \in Node,
               NEW i \in 1 .. Len(found), NEW j \in 1 .. Len(found),
               LoopPassed(k)', LoopPassed(l)', i < j, found[i] = k, found[j] = l,
               Reach(succ, k) \cap Reach(succ, l) # {}
        PROVE  k \in Above(l)'
    <3>1. CASE l = c
      <4>1. j = N
        BY <1>3, <2>1, <3>1 DEF RpoNoRepeats
      <4>2. k # c
        BY <1>3, <2>1, <3>1, <4>1 DEF RpoNoRepeats
      <4>3. PICK o \in N + 1 .. Len(found) : found[o] = k
        BY <1>5, <1>6, <2>1, <4>2
      <4>4. o = i
        BY <1>3, <2>1, <4>3 DEF RpoNoRepeats
      <4> QED BY <1>3, <2>1, <4>1, <4>3, <4>4
    <3>2. CASE l # c /\ k = c
      BY <1>5, <1>13, <2>1, <3>2
    <3>3. CASE l # c /\ k # c
      BY <1>1, <1>5, <1>12, <2>1, <3>3 DEF OverlapHangs
    <3> QED BY <3>1, <3>2, <3>3
  <2> QED BY <2>1 DEF OverlapHangs
<1> QED BY <1>1, <1>4, <1>8, <1>9, <1>14, <1>15 DEF Linking

LEMMA TreeLink == ASSUME TreeInv, Link PROVE TreeInv'
<1>1. /\ phase = "link" /\ phase' = "link" /\ loops' = loops /\ loops = Sources
      /\ todo # <<>> /\ todo' = Front(todo) /\ stage = "done"
      /\ TodoIsPrefix /\ LabelsAround
      /\ UNCHANGED <<cycleVars, rpoLocals>>
  BY DEF TreeInv, BuildOrder, Linking, TodoIsPrefix, Link
<1>2. /\ CycleInv' /\ RpoInv' /\ pc' = "done" /\ start' = 1 /\ root' = 1
      /\ stage' = "done" /\ live' = live /\ succ' = succ /\ found' = found
      /\ live = 1 .. Cardinality(live) /\ IsFiniteSet(live)
      /\ Sources' = Sources
  BY <1>1, BothUnchanged
<1>3. BuildOrder'
  BY <1>1, <1>2 DEF BuildOrder
<1>4. /\ found \in Seq(Node) /\ RpoNoRepeats /\ succ \in [Node -> SUBSET Node]
  BY <1>1 DEF TreeInv, BuildOrder, RpoInv, RpoTypeOK, IsGraph
<1>5. CASE Last(todo) \in Sources
  <2>1. Linking'
    BY <1>1, <1>2, <1>3, <1>4, <1>5, TreeLinkSource
  <2> QED BY <1>3, <2>1 DEF TreeInv
<1>6. CASE Last(todo) \notin Sources
  <2>1. m_loop' = m_loop /\ arcs' = arcs
    BY <1>1, <1>6 DEF Link, LabelsAround
  <2>2. /\ Len(todo) \in Nat \ {0} /\ Len(todo) <= Len(found)
        /\ Last(todo) = found[Len(todo)]
        /\ todo' = SubSeq(todo, 1, Len(todo) - 1)
        /\ Len(todo) - 1 \in 0 .. Len(todo) /\ todo \in Seq(Node)
    BY <1>1 DEF TodoIsPrefix, Last, Front
  <2>3. /\ todo' \in Seq(Node) /\ Len(todo') = Len(todo) - 1
        /\ \A i \in 1 .. Len(todo) - 1 : todo'[i] = todo[i]
    BY <2>2, PrefixFacts
  <2>4. TodoIsPrefix'
    BY <1>1, <1>2, <2>2, <2>3 DEF TodoIsPrefix
  <2>5. \A l : LoopPassed(l)' <=> LoopPassed(l)
    BY <1>2, <1>6, <2>2, <2>3 DEF LoopPassed
  <2>6. \A l : Above(l)' = Above(l)
    BY <2>1 DEF Above
  <2>7. LabelsAround' /\ LabelsBelow' /\ ArcsForward' /\ OverlapHangs'
    BY <1>1, <1>2, <2>1, <2>5, <2>6
       DEF TreeInv, Linking, LabelsAround, LabelsBelow, ArcsForward, OverlapHangs
  <2> QED BY <1>3, <2>4, <2>7 DEF TreeInv, Linking
<1> QED BY <1>5, <1>6

(* What stays of the links when nothing but the set of loops changes.      *)
LEMMA LinksStay ==
  ASSUME TreeInv, phase \in {"link", "built"},
         UNCHANGED <<cycleVars, rpoLocals, m_loop, arcs, todo>>, Sources' = Sources
  PROVE  LabelsAround' /\ LabelsBelow' /\ ArcsForward' /\ OverlapHangs'
<1>1. /\ succ' = succ /\ found' = found /\ todo' = todo /\ m_loop' = m_loop
      /\ arcs' = arcs
  BY DEF cycleVars, rpoLocals
<1>2. \A l : LoopPassed(l)' <=> LoopPassed(l)
  BY <1>1 DEF LoopPassed
<1>3. \A l : Above(l)' = Above(l)
  BY <1>1 DEF Above
<1> QED
  BY <1>1, <1>2, <1>3
     DEF TreeInv, Linking, LabelsAround, LabelsBelow, ArcsForward, OverlapHangs

LEMMA TreeAddRoot == ASSUME TreeInv, AddRoot PROVE TreeInv'
<1>1. /\ phase = "link" /\ phase' = "built" /\ loops = Sources
      /\ todo = <<>> /\ todo' = todo /\ stage = "done"
      /\ loops' = loops \cup
                    (IF Outside = {} THEN {} ELSE {Cardinality(live) + 1})
      /\ m_loop' = m_loop /\ arcs' = arcs
      /\ TodoIsPrefix /\ LabelsAround
      /\ UNCHANGED <<cycleVars, rpoLocals>>
  BY DEF TreeInv, BuildOrder, Linking, TodoIsPrefix, AddRoot
<1>2. /\ CycleInv' /\ RpoInv' /\ pc' = "done" /\ start' = 1 /\ root' = 1
      /\ stage' = "done" /\ live' = live /\ succ' = succ /\ found' = found
      /\ live = 1 .. Cardinality(live) /\ IsFiniteSet(live)
      /\ Sources' = Sources
  BY <1>1, BothUnchanged
<1>3. BuildOrder'
  BY <1>1, <1>2 DEF BuildOrder
<1>4. Outside' = Outside
  BY <1>1, <1>2 DEF Outside
<1>5. TodoIsPrefix'
  BY <1>1, <1>2, <1>4 DEF TodoIsPrefix
<1> QED BY <1>1, <1>2, <1>3, <1>5, LinksStay DEF TreeInv, Linking

LEMMA TreeUnchanged == TreeInv /\ UNCHANGED treeVars => TreeInv'
<1> SUFFICES ASSUME TreeInv, UNCHANGED treeVars PROVE TreeInv'
  OBVIOUS
<1>1. /\ UNCHANGED <<cycleVars, rpoLocals, m_loop, loops, arcs, todo, phase>>
      /\ UNCHANGED cycleVars /\ UNCHANGED rpoVars /\ UNCHANGED cycleLocals
      /\ live' = live /\ succ' = succ /\ root' = root /\ pc' = pc
      /\ start' = start /\ found' = found /\ head' = head /\ look' = look
      /\ stage' = stage /\ Sources' = Sources /\ Outside' = Outside
  BY DEF treeVars, loopVars, cycleVars, rpoLocals, rpoVars, cycleLocals,
         Sources, Outside
<1>2. stage' # "scan" => CycleInv'
  BY <1>1, CyclesUnchanged DEF TreeInv, BuildOrder
<1>3. stage' = "scan" => Asleep'
  BY <1>1, StaysAsleep DEF TreeInv, BuildOrder
<1>4. phase' \notin {"ready", "search"} => RpoInv'
  BY <1>1, RpoUnchanged DEF TreeInv, BuildOrder
<1>5. BuildOrder'
  BY <1>1, <1>2, <1>3, <1>4 DEF TreeInv, BuildOrder
<1>6. Linking'
  BY <1>1, LinksStay DEF TreeInv, Linking, TodoIsPrefix
<1> QED BY <1>5, <1>6 DEF TreeInv

(* What buildLoopTree works on in every state it can reach.                *)
THEOREM TreeInvCorrect == TreeSpec => []TreeInv
<1>1. TreeInit => TreeInv
  <2> SUFFICES ASSUME TreeInit PROVE TreeInv
    OBVIOUS
  <2>1. CycleInv /\ phase = "ready" /\ stage = "idle"
    BY CyclesInit DEF TreeInit, RpoInit
  <2>2. IsFiniteSet(live)
    BY GraphsAssumption DEF TreeInit, Init
  <2> QED BY <2>1, <2>2 DEF TreeInit, RpoInit, TreeInv, BuildOrder, Linking
<1>2. TreeInv /\ [TreeNext]_treeVars => TreeInv'
  BY TreeSearch, TreeCreate, TreeOrder, TreeVisit, TreeLink, TreeAddRoot,
     TreeUnchanged
     DEF TreeNext, TreeStep
<1> QED
  BY <1>1, <1>2, PTL DEF TreeSpec

-----------------------------------------------------------------------------
(* What follows from the invariant.                                        *)

(* What get_cycles found stays so while RPO runs.                          *)
LEMMA TreeCycles ==
  ASSUME TreeInv
  PROVE  /\ OnlyCyclesReported /\ SourcesReached /\ Results /\ Judged
         /\ Len(vec) \in Nat /\ next \in Nat
  BY DEF TreeInv, BuildOrder, CycleInv, CycleTypes, Asleep

(* Every cycle that can be entered from the root has a reported edge.      *)
THEOREM EveryCycleReportedCorrect == TreeSpec => []EveryCycleReported
<1>1. TreeInv => EveryCycleReported
  BY TreeCycles DEF Results, EveryCycleReported, Unreported
<1> QED
  BY <1>1, TreeInvCorrect, PTL

(* A reported edge lies on a cycle.                                        *)
THEOREM OnlyCyclesReportedCorrect == TreeSpec => []OnlyCyclesReported
<1>1. TreeInv => OnlyCyclesReported
  BY TreeCycles
<1> QED
  BY <1>1, TreeInvCorrect, PTL

LEMMA InvNatural == TreeInv => ReducibleAreNatural
<1> SUFFICES ASSUME TreeInv, pc = "done", root \in live,
                    NEW n \in Node, NEW m \in Node
             PROVE  m \in succ[n] /\ Dominates(succ, root, m, n) <=>
                      \E i \in 1 .. Len(vec) : /\ vec[i].back_edge_start = n
                                               /\ vec[i].head_node = m
                                               /\ vec[i].is_reducible
  BY DEF ReducibleAreNatural
<1>1. \A i \in 1 .. Len(vec) :
        vec[i].is_reducible <=>
          Dominates(succ, root, vec[i].head_node, vec[i].back_edge_start)
  <2>1. Len(vec) \in Nat /\ next \in Nat /\ next > Len(vec)
    BY TreeCycles DEF Judged
  <2> QED BY <2>1, TreeCycles DEF Judged
<1>2. ASSUME m \in succ[n], Dominates(succ, root, m, n)
      PROVE  \E i \in 1 .. Len(vec) : /\ vec[i].back_edge_start = n
                                      /\ vec[i].head_node = m
                                      /\ vec[i].is_reducible
  <2>1. n \in Reach(succ, root)
    BY <1>2 DEF Dominates
  <2>2. Reported(n, m)
    BY <1>2, <2>1, TreeCycles DEF Results
  <2> QED BY <1>1, <1>2, <2>2 DEF Reported
<1>3. ASSUME NEW i \in 1 .. Len(vec), vec[i].back_edge_start = n,
             vec[i].head_node = m, vec[i].is_reducible
      PROVE  m \in succ[n] /\ Dominates(succ, root, m, n)
  BY <1>1, <1>3, TreeCycles DEF OnlyCyclesReported
<1> QED BY <1>2, <1>3

(* The cycles marked reducible are those of the natural back edges.        *)
THEOREM ReducibleAreNaturalCorrect == TreeSpec => []ReducibleAreNatural
  BY InvNatural, TreeInvCorrect, PTL

(* The nodes are WHITE whenever another search starts on them.             *)
THEOREM CyclesColorsRestoredCorrect == TreeSpec => []ColorsRestored
<1>1. TreeInv => ColorsRestored
  BY DEF TreeInv, BuildOrder, CycleInv, WhiteBetween, ColorsRestored
<1> QED
  BY <1>1, TreeInvCorrect, PTL

(* When the tree is built every source was found by RPO, and passed.       *)
LEMMA BuiltFacts ==
  ASSUME TreeInv, phase = "built"
  PROVE  /\ found \in Seq(Node) /\ RpoNoRepeats
         /\ LabelsAround /\ LabelsBelow /\ ArcsForward /\ OverlapHangs
         /\ \A l \in Sources : LoopPassed(l)
         /\ \A l : LoopPassed(l) => \E i \in 1 .. Len(found) : found[i] = l
         /\ \A l \in Sources : l \in live /\ l \in Node
         /\ IsFiniteSet(live) /\ live = 1 .. Cardinality(live)
         /\ loops = Sources \cup
              (IF Outside = {} THEN {} ELSE {Cardinality(live) + 1})
<1>1. /\ RpoInv /\ start = 1 /\ root = 1 /\ TodoIsPrefix
      /\ LabelsAround /\ LabelsBelow /\ ArcsForward /\ OverlapHangs
      /\ IsFiniteSet(live) /\ live = 1 .. Cardinality(live)
  BY DEF TreeInv, BuildOrder, Linking
<1>2. /\ found \in Seq(Node) /\ RpoNoRepeats /\ stage = "done"
      /\ head = Len(found) /\ IsGraph(live, succ)
      /\ todo = <<>> /\ Len(todo) = 0
  BY <1>1 DEF RpoInv, RpoTypeOK, RpoPassed, TodoIsPrefix
<1>3. ASSUME NEW l \in Sources
      PROVE  LoopPassed(l) /\ l \in live /\ l \in Node
  <2>1. PICK i \in 1 .. Len(vec) : l = vec[i].back_edge_start
    BY DEF Sources
  <2>2. root \in live /\ l \in Reach(succ, root) /\ vec[i].head_node \in succ[l]
    BY <2>1, TreeCycles DEF SourcesReached, OnlyCyclesReported
  <2>3. l \in RpoListed
    BY <1>1, <1>2, <2>2, InvRpoLists DEF RpoListsReachable
  <2>4. LoopPassed(l)
    BY <1>2, <2>3 DEF RpoListed, LoopPassed
  <2> QED BY <1>2, <2>2, <2>4, ReachInNode DEF IsGraph
<1>4. \A l : LoopPassed(l) => \E i \in 1 .. Len(found) : found[i] = l
  BY <1>2 DEF LoopPassed
<1> QED BY <1>1, <1>2, <1>3, <1>4 DEF TodoIsPrefix

(* What is above a loop was found by RPO no later.                         *)
LEMMA AboveEarlier ==
  ASSUME TreeInv, phase = "built", NEW i \in 1 .. Len(found)
  PROVE  Above(found[i]) \subseteq {found[p] : p \in 1 .. i}
<1> DEFINE C == {found[p] : p \in 1 .. i}
<1>1. found \in Seq(Node) /\ RpoNoRepeats /\ ArcsForward
  BY BuiltFacts
<1>2. Above(found[i]) = Reach(Below(arcs), found[i])
  BY DEF Above, Below
<1>3. C \in SUBSET Node /\ found[i] \in C
  BY <1>1
<1>4. ASSUME NEW n \in C, NEW m \in Below(arcs)[n] PROVE m \in C
  <2>1. PICK p \in 1 .. i : found[p] = n
    OBVIOUS
  <2>2. PICK a \in arcs : a[1] = n /\ a[2] = m
    BY <1>3 DEF Below
  <2>3. PICK s, t \in 1 .. Len(found) : s < t /\ found[t] = n /\ found[s] = m
    BY <1>1, <2>2 DEF ArcsForward
  <2>4. t = p
    BY <1>1, <2>1, <2>3 DEF RpoNoRepeats
  <2> QED BY <2>1, <2>3, <2>4
<1>5. Closed(Below(arcs), C)
  BY <1>4 DEF Closed
<1> QED BY <1>2, <1>3, <1>5, ReachLeast

LEMMA InvLoopsNest == TreeInv => LoopsNest
<1> SUFFICES ASSUME TreeInv, phase = "built", NEW k \in Sources, NEW l \in Sources,
                    k # l, Reach(succ, k) \cap Reach(succ, l) # {}
             PROVE  (k \in Above(l)) # (l \in Above(k))
  BY DEF LoopsNest
<1>1. /\ found \in Seq(Node) /\ RpoNoRepeats /\ OverlapHangs
      /\ LoopPassed(k) /\ LoopPassed(l) /\ k \in Node /\ l \in Node
  BY BuiltFacts
<1>2. PICK i \in 1 .. Len(found) : found[i] = k
  BY <1>1, BuiltFacts
<1>3. PICK j \in 1 .. Len(found) : found[j] = l
  BY <1>1, BuiltFacts
<1>4. CASE i < j
  <2>1. k \in Above(l)
    BY <1>1, <1>2, <1>3, <1>4 DEF OverlapHangs
  <2>2. l \notin {found[p] : p \in 1 .. i}
    BY <1>1, <1>2, <1>3, <1>4 DEF RpoNoRepeats
  <2>3. l \notin Above(k)
    BY <1>2, <2>2, AboveEarlier
  <2> QED BY <2>1, <2>3
<1>5. CASE j < i
  <2>1. l \in Above(k)
    BY <1>1, <1>2, <1>3, <1>5 DEF OverlapHangs
  <2>2. k \notin {found[p] : p \in 1 .. j}
    BY <1>1, <1>2, <1>3, <1>5 DEF RpoNoRepeats
  <2>3. k \notin Above(l)
    BY <1>3, <2>2, AboveEarlier
  <2> QED BY <2>1, <2>3
<1> QED BY <1>2, <1>3, <1>4, <1>5

(* Loops that overlap hang under each other, one way.                      *)
THEOREM LoopsNestCorrect == TreeSpec => []LoopsNest
  BY InvLoopsNest, TreeInvCorrect, PTL

LEMMA InvInnermost == TreeInv => LabelsAreInnermost
<1> SUFFICES ASSUME TreeInv, phase = "built" PROVE LabelsAreInnermost
  BY DEF LabelsAreInnermost
<1>1. /\ found \in Seq(Node) /\ RpoNoRepeats
      /\ LabelsAround /\ LabelsBelow
      /\ \A l \in Sources : LoopPassed(l) /\ l \in Node /\ l \in live
      /\ live \subseteq Node /\ IsFiniteSet(live) /\ live = 1 .. Cardinality(live)
      /\ loops = Sources \cup
           (IF Outside = {} THEN {} ELSE {Cardinality(live) + 1})
  BY BuiltFacts DEF TreeInv, BuildOrder, RpoInv, RpoTypeOK, IsGraph
<1>2. ASSUME NEW n \in live
      PROVE  LET around == {l \in Sources : n \in Reach(succ, l)} IN
             IF around = {} THEN m_loop[n] = 0
             ELSE m_loop[n] \in around /\ Above(m_loop[n]) \cap around = {m_loop[n]}
  <2> DEFINE around == {l \in Sources : n \in Reach(succ, l)}
  <2>1. m_loop[n] # 0 => m_loop[n] \in around
    BY <1>1 DEF LabelsAround, LoopPassed
  <2>2. ASSUME NEW l \in around PROVE m_loop[n] # 0 /\ m_loop[n] \in Above(l)
    BY <1>1 DEF LabelsBelow
  <2>3. ASSUME NEW l \in around, l \in Above(m_loop[n]) PROVE l = m_loop[n]
    <3>1. m_loop[n] \in Above(l) /\ m_loop[n] \in around
      BY <2>1, <2>2
    <3>2. PICK i \in 1 .. Len(found) : found[i] = l
      BY <1>1, BuiltFacts
    <3>3. PICK j \in 1 .. Len(found) : found[j] = m_loop[n]
      BY <1>1, <3>1, BuiltFacts
    <3>4. l \in {found[p] : p \in 1 .. j}
      BY <2>3, <3>3, AboveEarlier
    <3>5. m_loop[n] \in {found[p] : p \in 1 .. i}
      BY <3>1, <3>2, AboveEarlier
    <3>6. i <= j
      BY <1>1, <3>2, <3>4 DEF RpoNoRepeats
    <3>7. j <= i
      BY <1>1, <3>3, <3>5 DEF RpoNoRepeats
    <3> QED BY <3>2, <3>3, <3>6, <3>7
  <2>4. ASSUME around # {} PROVE m_loop[n] \in around
    BY <2>1, <2>2, <2>4
  <2>5. ASSUME m_loop[n] \in around PROVE m_loop[n] \in Above(m_loop[n])
    BY <1>1, <2>5, ReachRoot DEF Above
  <2> QED BY <2>1, <2>3, <2>4, <2>5
<1>3. Cardinality(live) + 1 \in loops <=> Outside # {}
  <2>1. Cardinality(live) \in Nat
    BY <1>1, FS_CardinalityType
  <2>2. Cardinality(live) + 1 \notin Sources
    BY <1>1, <2>1
  <2> QED BY <1>1, <2>2
<1> QED BY <1>2, <1>3 DEF LabelsAreInnermost

(* Every block ends with the label of the innermost loop around it.        *)
THEOREM LabelsAreInnermostCorrect == TreeSpec => []LabelsAreInnermost
  BY InvInnermost, TreeInvCorrect, PTL
=============================================================================
