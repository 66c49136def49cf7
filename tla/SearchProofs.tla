---------------------------- MODULE SearchProofs ----------------------------
(***************************************************************************)
(* The searches of a graph.  DFS lists the nodes reachable from its root,  *)
(* each once, unless it stops at its end key; hasPath is reachability;     *)
(* each search leaves the nodes WHITE, so that calls of DFS and RPO can    *)
(* follow each other in any order; and a dominance query, made of two      *)
(* searches, agrees with the definition by paths and gives the graph back. *)
(***************************************************************************)
EXTENDS Searches, Dominance, RpoProofs

-----------------------------------------------------------------------------
(* DFS AND hasPath *)

OnStack(n) == \E i \in 1 .. Len(stack) : stack[i] = n
InVec(n)   == \E i \in 1 .. Len(vec) : vec[i] = n

(* While a search runs the nodes that are not WHITE are those listed, the  *)
(* GRAY ones are those on the stack, and recover_colors_ will make every   *)
(* node WHITE.                                                             *)
ScanColors ==
  pc = "scan" =>
    /\ \A n \in Node : saved[n] = "WHITE"
    /\ \A n \in Node : color[n] # "WHITE" <=> InVec(n)
    /\ \A n \in Node : color[n] = "GRAY" <=> OnStack(n)

StackIsPath ==
  /\ \A i, j \in 1 .. Len(stack) : stack[i] = stack[j] => i = j
  /\ \A i \in 1 .. Len(stack) - 1 : stack[i + 1] \in succ[stack[i]]
  /\ pc # "scan" => stack = <<>>

ListedReachable ==
  /\ vec # <<>> => vec[1] = root /\ root \in live
  /\ pc = "scan" => vec # <<>>
  /\ pc = "done" /\ root \in live => vec # <<>>
  /\ \A i \in 1 .. Len(vec) : vec[i] \in Reach(succ, root)

(* The end key can only be the last key listed.                            *)
EndIsLast == \A i \in 1 .. Len(vec) - 1 : vec[i] # endKey

(* Until the end key is met, every successor of a listed node is listed or *)
(* still ahead of the iterator of a running call.                          *)
AllPassed ==
  /\ \A n \in Node : rest[n] \subseteq succ[n]
  /\ pc # "idle" /\ ~EndReached =>
       \A n \in Node : InVec(n) =>
         \A m \in succ[n] : InVec(m) \/ (OnStack(n) /\ m \in rest[n])

(* A call that returned has passed all its successors.                     *)
RestOnStack == \A n \in Node : rest[n] # {} => OnStack(n)

DfsInv ==
  /\ TypeOK
  /\ ColorsRestored
  /\ ScanColors
  /\ StackIsPath
  /\ ListedReachable
  /\ EndIsLast
  /\ AllPassed
  /\ RestOnStack
  /\ NoRepeats

(* What a call of DFS needs of the state it is made in, and leaves behind. *)
DfsQuiet ==
  /\ TypeOK
  /\ pc # "scan" /\ stack = <<>>
  /\ \A n \in Node : color[n] = "WHITE" /\ rest[n] = {}

LEMMA QuietBetween == DfsInv /\ pc # "scan" => DfsQuiet
<1> SUFFICES ASSUME DfsInv, pc # "scan" PROVE DfsQuiet
  OBVIOUS
<1>1. Len(stack) = 0 /\ stack = <<>>
  BY DEF DfsInv, StackIsPath
<1> QED BY <1>1 DEF DfsInv, DfsQuiet, ColorsRestored, Visited, RestOnStack, OnStack

-----------------------------------------------------------------------------

LEMMA TopType == ASSUME TypeOK, stack # <<>>
                 PROVE  Len(stack) \in Nat \ {0} /\ Top \in Node
  BY DEF TypeOK, Top

LEMMA EnterType ==
  ASSUME TypeOK, NEW n \in Node, NEW below \in Seq(Node), NEW end,
         NEW R \in [Node -> SUBSET Node], Enter(n, below, end, R)
  PROVE  /\ color' \in [Node -> ColorT]
         /\ stack' \in Seq(Node)
         /\ rest' \in [Node -> SUBSET Node]
<1>1. CASE n = end
  BY <1>1 DEF Enter, TypeOK, ColorT
<1>2. CASE n # end
  <2>1. succ[n] \in SUBSET Node
    BY DEF TypeOK, IsGraph
  <2>2. /\ color' = [color EXCEPT ![n] = "GRAY"]
        /\ stack' = Append(below, n)
        /\ rest' = [R EXCEPT ![n] = succ[n]]
    BY <1>2 DEF Enter
  <2>3. stack' \in Seq(Node)
    BY <2>2
  <2>4. color' \in [Node -> ColorT]
    BY <2>2 DEF TypeOK, ColorT
  <2>5. rest' \in [Node -> SUBSET Node]
    BY <2>1, <2>2
  <2> QED BY <2>3, <2>4, <2>5
<1> QED BY <1>1, <1>2

LEMMA DfsTypeStep == TypeOK /\ [Next]_dfsVars => TypeOK'
<1> SUFFICES ASSUME TypeOK, [Next]_dfsVars PROVE TypeOK'
  OBVIOUS
<1>1. ASSUME NEW r \in Key \cup {KEY_UNDEF}, NEW e \in Key \cup {KEY_UNDEF},
             DFS(r, e)
      PROVE  TypeOK'
  <2>1. CASE ~(r \in live /\ color[r] = "WHITE")
    <3>1. vec' = <<>>
      BY <1>1, <2>1 DEF DFS
    <3>2. vec' \in Seq(Node)
      BY <3>1
    <3> QED BY <1>1, <2>1, <3>2 DEF DFS, TypeOK, graph, IsGraph
  <2>2. CASE r \in live /\ color[r] = "WHITE"
    <3>1. r \in Node /\ succ[r] \in SUBSET Node
      BY <2>2 DEF TypeOK, IsGraph
    <3>2. vec' = <<r>> /\ Enter(r, <<>>, e, rest)
      BY <1>1, <2>2, <3>1 DEF DFS
    <3>5. vec' \in Seq(Node)
      BY <3>1, <3>2
    <3>3. <<>> \in Seq(Node) /\ rest \in [Node -> SUBSET Node]
      BY DEF TypeOK
    <3>4. /\ color' \in [Node -> ColorT] /\ stack' \in Seq(Node)
          /\ rest' \in [Node -> SUBSET Node]
      BY <3>1, <3>2, <3>3, EnterType
    <3> QED BY <1>1, <2>2, <3>4, <3>5 DEF DFS, TypeOK, graph, IsGraph
  <2> QED BY <2>1, <2>2
<1>2. CASE Descend
  <2>1. PICK m \in rest[Top] :
          /\ vec' = Append(vec, m)
          /\ Enter(m, stack, endKey, [rest EXCEPT ![Top] = @ \ {m}])
    BY <1>2 DEF Descend
  <2>2. Top \in Node
    BY <1>2, TopType DEF Descend
  <2>3. m \in Node /\ succ[m] \in SUBSET Node
    BY <2>1, <2>2 DEF TypeOK, IsGraph
  <2>4. vec' \in Seq(Node)
    BY <2>1, <2>3 DEF TypeOK
  <2>5. [rest EXCEPT ![Top] = @ \ {m}] \in [Node -> SUBSET Node]
    BY <2>2 DEF TypeOK
  <2>6. /\ color' \in [Node -> ColorT] /\ stack' \in Seq(Node)
        /\ rest' \in [Node -> SUBSET Node]
    BY <2>1, <2>3, <2>5, EnterType DEF TypeOK
  <2> QED BY <1>2, <2>4, <2>6 DEF Descend, TypeOK, graph, IsGraph
<1>3. CASE Skip
  <2>1. rest' \in [Node -> SUBSET Node]
    BY <1>3 DEF Skip, TypeOK
  <2> QED BY <1>3, <2>1 DEF Skip, TypeOK, graph, IsGraph
<1>4. CASE Leave
  <2>1. Top \in Node
    BY <1>4, TopType DEF Leave
  <2>2. stack' \in Seq(Node)
    BY <1>4, TopType DEF Leave, TypeOK
  <2> QED BY <1>4, <2>1, <2>2 DEF Leave, TypeOK, ColorT, graph, IsGraph
<1>5. CASE Finish
  BY <1>5 DEF Finish, TypeOK, graph, IsGraph
<1>6. CASE UNCHANGED dfsVars
  BY <1>6 DEF dfsVars, graph, search, TypeOK, IsGraph
<1> QED BY <1>1, <1>2, <1>3, <1>4, <1>5, <1>6 DEF Next, Step

(* Every reachable state of the search has the right type.                 *)
THEOREM DfsTypeCorrect == Spec => []TypeOK
<1>1. Init => TypeOK
  BY DEF Init, SearchInit, AllWhite, TypeOK, IsGraph, ColorT, KEY_UNDEF
<1> QED
  BY <1>1, DfsTypeStep, PTL DEF Spec

-----------------------------------------------------------------------------
(* One lemma per action: it preserves the invariant.                       *)

LEMMA DfsCall ==
  ASSUME DfsQuiet, TypeOK', DFS(root', endKey')
  PROVE  DfsInv'
<1> USE DEF DfsInv, graph
<1> DEFINE r == root' e == endKey'
<1>1. pc # "scan" /\ live' = live /\ succ' = succ /\ stack = <<>>
  BY DEF DFS, DfsQuiet
<1>2. TypeOK /\ \A n \in Node : color[n] = "WHITE" /\ rest[n] = {}
  BY DEF DfsQuiet
<1>3. CASE ~(r \in live /\ color[r] = "WHITE")
  <2>1. /\ vec' = <<>> /\ pc' = "done" /\ color' = color /\ stack' = <<>>
        /\ rest' = rest /\ r \notin live
    BY <1>1, <1>2, <1>3 DEF DFS, TypeOK, IsGraph
  <2>2. Len(vec') = 0 /\ Len(stack') = 0
    BY <2>1
  <2>3. ColorsRestored' /\ ScanColors' /\ StackIsPath'
    BY <1>2, <2>1, <2>2 DEF ColorsRestored, Visited, ScanColors, StackIsPath
  <2>4. ListedReachable' /\ EndIsLast' /\ NoRepeats'
    BY <1>1, <2>1, <2>2 DEF ListedReachable, EndIsLast, NoRepeats
  <2>5. AllPassed' /\ RestOnStack'
    BY <1>1, <1>2, <2>1, <2>2 DEF AllPassed, InVec, RestOnStack
  <2> QED BY <2>3, <2>4, <2>5
<1>4. CASE r \in live /\ color[r] = "WHITE"
  <2>1. vec' = <<r>> /\ saved' = color /\ pc' = "scan" /\ Enter(r, <<>>, e, rest)
    BY <1>4 DEF DFS
  <2>2. r \in Node /\ Len(vec') = 1 /\ vec'[1] = r
    BY <1>2, <1>4, <2>1 DEF TypeOK, IsGraph
  <2>3. \A n \in Node : InVec(n)' <=> n = r
    BY <2>2 DEF InVec
  <2>4. ListedReachable' /\ EndIsLast' /\ NoRepeats' /\ ColorsRestored'
    BY <1>1, <1>4, <2>1, <2>2, ReachRoot
       DEF ListedReachable, EndIsLast, NoRepeats, ColorsRestored
  <2>5. CASE r = e
    <3>1. color' = [color EXCEPT ![r] = "BLACK"] /\ stack' = <<>> /\ rest' = rest
      BY <2>1, <2>5 DEF Enter
    <3>2. Len(stack') = 0 /\ EndReached'
      BY <2>1, <2>2, <2>5, <3>1 DEF EndReached
    <3>3. ScanColors' /\ StackIsPath'
      BY <1>2, <2>1, <2>2, <2>3, <3>1, <3>2
         DEF ScanColors, StackIsPath, OnStack, TypeOK
    <3>4. AllPassed' /\ RestOnStack'
      BY <1>1, <1>2, <3>1, <3>2 DEF AllPassed, RestOnStack
    <3> QED BY <2>4, <3>3, <3>4
  <2>6. CASE r # e
    <3>1. /\ color' = [color EXCEPT ![r] = "GRAY"]
          /\ stack' = Append(<<>>, r)
          /\ rest' = [rest EXCEPT ![r] = succ[r]]
      BY <2>1, <2>6 DEF Enter
    <3>2. Len(stack') = 1 /\ stack'[1] = r
      BY <3>1
    <3>3. \A n \in Node : OnStack(n)' <=> n = r
      BY <3>2 DEF OnStack
    <3>4. ScanColors' /\ StackIsPath'
      BY <1>2, <2>1, <2>2, <2>3, <3>1, <3>2, <3>3
         DEF ScanColors, StackIsPath, TypeOK
    <3>5. AllPassed' /\ RestOnStack'
      BY <1>1, <1>2, <2>2, <2>3, <3>1, <3>3 DEF AllPassed, RestOnStack, TypeOK
    <3> QED BY <2>4, <3>4, <3>5
  <2> QED BY <2>5, <2>6
<1> QED BY <1>3, <1>4

LEMMA DfsSkip == ASSUME DfsInv, TypeOK', Skip PROVE DfsInv'
<1> USE DEF DfsInv, graph
<1>1. PICK m \in rest[Top] :
        color[m] # "WHITE" /\ rest' = [rest EXCEPT ![Top] = @ \ {m}]
  BY DEF Skip
<1>2. /\ pc = "scan" /\ pc' = pc /\ stack # <<>> /\ live' = live /\ succ' = succ
      /\ color' = color /\ saved' = saved /\ root' = root /\ endKey' = endKey
      /\ stack' = stack /\ vec' = vec
  BY DEF Skip
<1>3. ColorsRestored' /\ ScanColors' /\ StackIsPath'
  BY <1>2 DEF ColorsRestored, Visited, ScanColors, StackIsPath, InVec, OnStack
<1>4. ListedReachable' /\ EndIsLast' /\ NoRepeats'
  BY <1>2 DEF ListedReachable, EndIsLast, NoRepeats
<1>5. Top \in Node /\ rest[Top] \subseteq Node
  BY <1>2, TopType DEF TypeOK
<1>6. m \in Node /\ InVec(m)
  BY <1>1, <1>2, <1>5 DEF ScanColors
<1>7. \A n \in Node : rest'[n] \subseteq rest[n] /\ rest[n] \subseteq rest'[n] \cup {m}
  BY <1>1, <1>5 DEF TypeOK
<1>8. AllPassed' /\ RestOnStack'
  BY <1>2, <1>6, <1>7 DEF AllPassed, RestOnStack, InVec, OnStack, EndReached
<1> QED BY <1>3, <1>4, <1>8

LEMMA DfsDescend == ASSUME DfsInv, TypeOK', Descend PROVE DfsInv'
<1> USE DEF DfsInv, graph
<1>1. PICK m \in rest[Top] :
        /\ color[m] = "WHITE"
        /\ vec' = Append(vec, m)
        /\ Enter(m, stack, endKey, [rest EXCEPT ![Top] = @ \ {m}])
  BY DEF Descend
<1>2. /\ pc = "scan" /\ pc' = pc /\ stack # <<>> /\ ~EndReached
      /\ live' = live /\ succ' = succ /\ saved' = saved /\ root' = root
      /\ endKey' = endKey
  BY DEF Descend
<1>3. /\ Top \in Node /\ Len(stack) \in Nat \ {0} /\ m \in Node
      /\ m \in succ[Top] /\ succ \in [Node -> SUBSET Node]
      /\ rest \in [Node -> SUBSET Node]
  BY <1>1, <1>2, TopType DEF TypeOK, IsGraph, AllPassed
<1>4. /\ Len(vec') = Len(vec) + 1 /\ Len(vec) \in Nat \ {0}
      /\ vec'[Len(vec) + 1] = m
      /\ \A i \in 1 .. Len(vec) : vec'[i] = vec[i]
  BY <1>1, <1>2, <1>3 DEF TypeOK, ListedReachable
<1>5. ~InVec(m) /\ ~OnStack(m)
  BY <1>1, <1>2, <1>3 DEF ScanColors
<1>6. \A n \in Node : InVec(n)' <=> InVec(n) \/ n = m
  BY <1>4 DEF InVec
<1>7. InVec(Top) /\ OnStack(Top) /\ color[Top] = "GRAY"
  BY <1>2, <1>3 DEF OnStack, ScanColors, Top
<1>8. root \in Node
  BY <1>2 DEF ListedReachable, TypeOK, IsGraph
<1>9. m \in Reach(succ, root)
  <2>1. Top \in Reach(succ, root)
    BY <1>7 DEF InVec, ListedReachable
  <2> QED BY <1>3, <1>8, <2>1, ReachStep
<1>10. ListedReachable'
  <2>1. vec # <<>> /\ vec'[1] = vec[1]
    BY <1>4
  <2> QED BY <1>2, <1>4, <1>9, <2>1 DEF ListedReachable
<1>11. EndIsLast'
  BY <1>2, <1>4 DEF EndIsLast, EndReached
<1>12. NoRepeats'
  BY <1>4, <1>5 DEF NoRepeats, InVec
<1>13. ColorsRestored'
  BY <1>2 DEF ColorsRestored
<1>14. CASE m = endKey
  <2>1. /\ color' = [color EXCEPT ![m] = "BLACK"] /\ stack' = stack
        /\ rest' = [rest EXCEPT ![Top] = @ \ {m}]
    BY <1>1, <1>14 DEF Enter
  <2>2. EndReached'
    BY <1>2, <1>4, <1>14 DEF EndReached
  <2>3. ScanColors'
    BY <1>2, <1>3, <1>5, <1>6, <2>1 DEF ScanColors, OnStack, TypeOK
  <2>4. StackIsPath'
    BY <1>2, <2>1 DEF StackIsPath
  <2>5. AllPassed'
    BY <1>2, <1>3, <2>1, <2>2 DEF AllPassed
  <2>6. RestOnStack'
    BY <1>3, <1>7, <2>1 DEF RestOnStack, OnStack
  <2> QED BY <1>10, <1>11, <1>12, <1>13, <2>3, <2>4, <2>5, <2>6
<1>15. CASE m # endKey
  <2>1. /\ color' = [color EXCEPT ![m] = "GRAY"]
        /\ stack' = Append(stack, m)
        /\ rest' = [[rest EXCEPT ![Top] = @ \ {m}] EXCEPT ![m] = succ[m]]
    BY <1>1, <1>15 DEF Enter
  <2>2. /\ Len(stack') = Len(stack) + 1 /\ stack'[Len(stack) + 1] = m
        /\ \A i \in 1 .. Len(stack) : stack'[i] = stack[i]
    BY <1>3, <2>1 DEF TypeOK
  <2>3. \A n \in Node : OnStack(n)' <=> OnStack(n) \/ n = m
    BY <1>3, <2>2 DEF OnStack
  <2>4. ScanColors'
    BY <1>2, <1>3, <1>6, <2>1, <2>3 DEF ScanColors, TypeOK
  <2>5. StackIsPath'
    <3>1. \A i, j \in 1 .. Len(stack') : stack'[i] = stack'[j] => i = j
      BY <1>3, <1>5, <2>2 DEF StackIsPath, OnStack
    <3>2. ASSUME NEW i \in 1 .. Len(stack') - 1
          PROVE  stack'[i + 1] \in succ[stack'[i]]
      <4>1. CASE i = Len(stack)
        BY <1>3, <2>2, <4>1 DEF Top
      <4>2. CASE i # Len(stack)
        <5>1. i \in 1 .. Len(stack) - 1 /\ i + 1 \in 1 .. Len(stack)
          BY <1>3, <2>2, <4>2
        <5> QED BY <2>2, <5>1 DEF StackIsPath
      <4> QED BY <4>1, <4>2
    <3> QED BY <1>2, <3>1, <3>2 DEF StackIsPath
  <2>6. m # Top
    BY <1>1, <1>7
  <2>7. /\ rest'[m] = succ[m] /\ rest'[Top] = rest[Top] \ {m}
        /\ \A n \in Node \ {m, Top} : rest'[n] = rest[n]
    BY <1>3, <2>1, <2>6
  <2>8. \A n \in Node : rest'[n] \subseteq succ[n]
    BY <1>3, <2>7 DEF AllPassed
  <2>9. ASSUME NEW n \in Node, InVec(n)', NEW w \in succ[n]
        PROVE  InVec(w)' \/ (OnStack(n)' /\ w \in rest'[n])
    <3>1. w \in Node
      BY <1>3
    <3>2. CASE n = m
      BY <2>3, <2>7, <3>2
    <3>3. CASE n # m
      <4>1. InVec(w) \/ (OnStack(n) /\ w \in rest[n])
        BY <1>2, <1>6, <2>9, <3>3 DEF AllPassed
      <4> QED BY <1>6, <2>3, <2>7, <3>1, <3>3, <4>1
    <3> QED BY <3>2, <3>3
  <2>10. AllPassed'
    BY <1>2, <2>8, <2>9 DEF AllPassed
  <2>11. RestOnStack'
    BY <1>3, <1>7, <2>3, <2>7 DEF RestOnStack
  <2> QED BY <1>10, <1>11, <1>12, <1>13, <2>4, <2>5, <2>10, <2>11
<1> QED BY <1>14, <1>15

LEMMA DfsLeave == ASSUME DfsInv, TypeOK', Leave PROVE DfsInv'
<1> USE DEF DfsInv, graph
<1>1. /\ pc = "scan" /\ pc' = pc /\ stack # <<>>
      /\ EndReached \/ rest[Top] = {}
      /\ color' = [color EXCEPT ![Top] = "BLACK"]
      /\ stack' = SubSeq(stack, 1, Len(stack) - 1)
      /\ rest' = [rest EXCEPT ![Top] = {}]
      /\ live' = live /\ succ' = succ /\ saved' = saved /\ root' = root
      /\ endKey' = endKey /\ vec' = vec
  BY DEF Leave
<1>2. /\ Top \in Node /\ Len(stack) \in Nat \ {0}
      /\ stack[Len(stack)] = Top
  BY <1>1, TopType DEF Top
<1>3. /\ Len(stack') = Len(stack) - 1
      /\ \A i \in 1 .. Len(stack) - 1 : stack'[i] = stack[i]
  <2>1. stack \in Seq(Node) /\ Len(stack) - 1 \in 0 .. Len(stack)
    BY <1>2 DEF TypeOK
  <2> QED BY <1>1, <2>1, PrefixFacts
<1>4. \A n \in Node : OnStack(n)' <=> OnStack(n) /\ n # Top
  BY <1>2, <1>3 DEF OnStack, StackIsPath
<1>5. InVec(Top)
  BY <1>1, <1>2 DEF ScanColors, OnStack
<1>6. ColorsRestored' /\ ScanColors'
  BY <1>1, <1>2, <1>4, <1>5 DEF ColorsRestored, ScanColors, InVec, TypeOK
<1>7. StackIsPath'
  BY <1>1, <1>2, <1>3 DEF StackIsPath
<1>8. ListedReachable' /\ EndIsLast' /\ NoRepeats'
  BY <1>1 DEF ListedReachable, EndIsLast, NoRepeats
<1>9. /\ rest'[Top] = {} /\ \A n \in Node \ {Top} : rest'[n] = rest[n]
  BY <1>1, <1>2 DEF TypeOK
<1>10. AllPassed'
  <2>1. \A n \in Node : rest'[n] \subseteq succ[n]
    BY <1>9 DEF AllPassed
  <2>2. ASSUME ~EndReached, NEW n \in Node, InVec(n), NEW m \in succ[n]
        PROVE  InVec(m) \/ (OnStack(n)' /\ m \in rest'[n])
    BY <1>1, <1>4, <1>9, <2>2 DEF AllPassed
  <2> QED BY <1>1, <2>1, <2>2 DEF AllPassed, InVec, EndReached
<1>11. RestOnStack'
  BY <1>4, <1>9 DEF RestOnStack
<1> QED BY <1>6, <1>7, <1>8, <1>10, <1>11

LEMMA DfsFinish == ASSUME DfsInv, TypeOK', Finish PROVE DfsInv'
<1> USE DEF DfsInv, graph
<1>1. /\ pc = "scan" /\ pc' = "done" /\ stack = <<>> /\ stack' = stack
      /\ color' = [n \in Node |-> IF n \in live THEN saved[n] ELSE color[n]]
      /\ live' = live /\ succ' = succ /\ saved' = saved /\ root' = root
      /\ endKey' = endKey /\ vec' = vec /\ rest' = rest
  BY DEF Finish
<1>2. \A n \in Node : color'[n] = "WHITE"
  <2>1. ASSUME NEW n \in Node, color[n] # "WHITE" PROVE n \in live
    <3>1. n \in Reach(succ, root)
      BY <1>1, <2>1 DEF ScanColors, InVec, ListedReachable
    <3>2. root \in live /\ live \in SUBSET Node /\ Closed(succ, live)
      BY <1>1 DEF ListedReachable, TypeOK, IsGraph, Closed
    <3> QED BY <3>1, <3>2, ReachLeast
  <2> QED BY <1>1, <2>1 DEF ScanColors
<1>3. ColorsRestored' /\ ScanColors' /\ StackIsPath'
  BY <1>1, <1>2 DEF ColorsRestored, Visited, ScanColors, StackIsPath
<1>4. ListedReachable' /\ EndIsLast' /\ NoRepeats'
  BY <1>1 DEF ListedReachable, EndIsLast, NoRepeats
<1>5. AllPassed' /\ RestOnStack'
  BY <1>1 DEF AllPassed, RestOnStack, InVec, OnStack, EndReached
<1> QED BY <1>3, <1>4, <1>5

LEMMA DfsUnchanged == DfsInv /\ UNCHANGED dfsVars => DfsInv'
  BY DEF DfsInv, dfsVars, graph, search, TypeOK, IsGraph, ColorsRestored, Visited,
     ScanColors, StackIsPath, ListedReachable, EndIsLast, AllPassed, RestOnStack,
     NoRepeats, InVec, OnStack, EndReached

LEMMA DfsStep == DfsInv /\ Step => DfsInv'
<1> SUFFICES ASSUME DfsInv, Step PROVE DfsInv'
  OBVIOUS
<1>1. TypeOK'
  BY DfsTypeStep DEF DfsInv, Next
<1> QED
  BY <1>1, DfsSkip, DfsDescend, DfsLeave, DfsFinish DEF Step

LEMMA DfsCalled ==
  ASSUME DfsQuiet, NEW r \in Key \cup {KEY_UNDEF}, NEW e \in Key \cup {KEY_UNDEF},
         DFS(r, e)
  PROVE  DfsInv'
<1>1. r = root' /\ e = endKey'
  BY DEF DFS
<1>2. TypeOK'
  BY DfsTypeStep DEF DfsQuiet, Next
<1> QED BY <1>1, <1>2, DfsCall

LEMMA DfsInit == IsGraph(live, succ) /\ SearchInit => DfsInv
<1> SUFFICES ASSUME IsGraph(live, succ), SearchInit PROVE DfsInv
  OBVIOUS
<1>1. TypeOK /\ Len(vec) = 0 /\ Len(stack) = 0 /\ pc = "idle"
  BY DEF SearchInit, AllWhite, TypeOK, IsGraph, ColorT, KEY_UNDEF
<1>2. ColorsRestored /\ ScanColors /\ StackIsPath /\ ListedReachable
  BY <1>1 DEF SearchInit, AllWhite, ColorsRestored, Visited, ScanColors,
              StackIsPath, ListedReachable
<1>3. EndIsLast /\ NoRepeats /\ AllPassed /\ RestOnStack
  BY <1>1 DEF SearchInit, AllWhite, EndIsLast, NoRepeats, AllPassed, RestOnStack
<1> QED BY <1>1, <1>2, <1>3 DEF DfsInv

(* The invariant that all the results below are read off.                  *)
THEOREM DfsInvCorrect == Spec => []DfsInv
<1>1. Init => DfsInv
  BY DfsInit DEF Init
<1>2. DfsInv /\ [Next]_dfsVars => DfsInv'
  <2> SUFFICES ASSUME DfsInv, [Next]_dfsVars PROVE DfsInv'
    OBVIOUS
  <2>1. ASSUME NEW r \in Key \cup {KEY_UNDEF}, NEW e \in Key \cup {KEY_UNDEF},
               DFS(r, e)
        PROVE  DfsInv'
    <3>1. DfsQuiet
      BY <2>1, QuietBetween DEF DFS
    <3> QED BY <2>1, <3>1, DfsCalled
  <2> QED
    BY <2>1, DfsStep, DfsUnchanged DEF Next
<1> QED
  BY <1>1, <1>2, PTL DEF Spec

-----------------------------------------------------------------------------

(* When a search has not met its end key, what it lists is closed.         *)
LEMMA ListedClosed ==
  ASSUME DfsInv, pc = "done", root \in live, ~EndReached
  PROVE  Listed = Reach(succ, root)
<1> USE DEF DfsInv
<1>1. vec # <<>> /\ vec \in Seq(Node) /\ Len(stack) = 0
  BY DEF ListedReachable, StackIsPath, TypeOK
<1>2. Listed \in SUBSET Node /\ root \in Listed
  BY <1>1 DEF Listed, ListedReachable
<1>3. Closed(succ, Listed)
  <2> SUFFICES ASSUME NEW n \in Listed, NEW m \in succ[n]
               PROVE  m \in Listed
    BY DEF Closed
  <2>1. n \in Node /\ InVec(n) /\ ~OnStack(n)
    BY <1>1, <1>2 DEF Listed, InVec, OnStack
  <2>2. InVec(m)
    BY <2>1 DEF AllPassed
  <2> QED BY <2>2 DEF Listed, InVec
<1>4. Listed \subseteq Reach(succ, root)
  BY DEF Listed, ListedReachable
<1>5. Reach(succ, root) \subseteq Listed
  BY <1>2, <1>3, ReachLeast
<1> QED BY <1>4, <1>5

LEMMA InvLists == DfsInv => ListsReachable
  BY ListedClosed DEF ListsReachable, hasPath, EndReached

(* DFS lists exactly the nodes reachable from its root.                    *)
THEOREM ListsReachableCorrect == Spec => []ListsReachable
  BY InvLists, DfsInvCorrect, PTL

LEMMA InvHasPath == DfsInv => HasPathCorrect
<1> SUFFICES ASSUME DfsInv, pc = "done", root \in live
             PROVE  hasPath <=> endKey \in Reach(succ, root)
  BY DEF HasPathCorrect
<1>1. vec # <<>> /\ vec \in Seq(Node)
  BY DEF DfsInv, ListedReachable, TypeOK
<1>2. CASE hasPath
  <2>1. Len(vec) \in 1 .. Len(vec)
    BY <1>1
  <2> QED BY <1>2, <2>1 DEF hasPath, DfsInv, ListedReachable
<1>3. CASE ~hasPath
  <2>1. Listed = Reach(succ, root)
    BY <1>3, ListedClosed DEF hasPath, EndReached
  <2>2. ASSUME NEW i \in 1 .. Len(vec) PROVE vec[i] # endKey
    <3>1. CASE i = Len(vec)
      BY <1>1, <1>3, <3>1 DEF hasPath
    <3>2. CASE i # Len(vec)
      BY <1>1, <3>2 DEF DfsInv, EndIsLast
    <3> QED BY <3>1, <3>2
  <2> QED BY <1>3, <2>1, <2>2 DEF Listed
<1> QED BY <1>2, <1>3

(* hasPath answers reachability.                                           *)
THEOREM HasPathCorrectness == Spec => []HasPathCorrect
  BY InvHasPath, DfsInvCorrect, PTL

(* A call of DFS leaves no colour behind.                                  *)
THEOREM ColorsRestoredCorrect == Spec => []ColorsRestored
<1>1. DfsInv => ColorsRestored
  BY DEF DfsInv
<1> QED
  BY <1>1, DfsInvCorrect, PTL

(* DFS lists no node twice.                                                *)
THEOREM NoRepeatsCorrect == Spec => []NoRepeats
<1>1. DfsInv => NoRepeats
  BY DEF DfsInv
<1> QED
  BY <1>1, DfsInvCorrect, PTL

(* The GRAY nodes are the current walk from the root.                      *)
THEOREM GrayIsPathCorrect == Spec => []GrayIsPath
<1>1. DfsInv => GrayIsPath
  <2> SUFFICES ASSUME DfsInv, pc = "scan" PROVE GrayIsPath
    BY DEF GrayIsPath
  <2>1. stack \in Seq(Node)
    BY DEF DfsInv, TypeOK
  <2> QED BY <2>1 DEF DfsInv, ScanColors, StackIsPath, GrayIsPath, OnStack
<1> QED
  BY <1>1, DfsInvCorrect, PTL

-----------------------------------------------------------------------------
(* CALLS IN ANY ORDER *)

(* One search runs at a time; while it does, the other is as at the start. *)
CallsInv ==
  /\ pc = "scan" => stage # "scan"
  /\ stage # "scan" => DfsInv
  /\ pc # "scan" => RpoInv
  /\ stage = "scan" =>
       /\ saved = [n \in Node |-> "WHITE"]
       /\ root = KEY_UNDEF /\ endKey = KEY_UNDEF
       /\ stack = <<>> /\ rest = [n \in Node |-> {}]
       /\ vec = <<>> /\ pc = "idle"
  /\ pc = "scan" =>
       start = 0 /\ found = <<>> /\ head = 0 /\ look = {} /\ stage = "idle"

LEMMA WhiteAgain ==
  ASSUME color \in [Node -> ColorT], \A n \in Node : color[n] = "WHITE"
  PROVE  color = [n \in Node |-> "WHITE"]
  OBVIOUS

LEMMA CallDFSKeeps ==
  ASSUME CallsInv, NEW r \in Key \cup {KEY_UNDEF}, NEW e \in Key \cup {KEY_UNDEF},
         CallDFS(r, e)
  PROVE  CallsInv'
<1>1. stage # "scan" /\ DFS(r, e) /\ pc # "scan" /\ DfsInv
  BY DEF CallDFS, DFS, CallsInv
<1>2. DfsQuiet
  BY <1>1, QuietBetween
<1>3. DfsInv'
  BY <1>1, <1>2, DfsCalled
<1>4. /\ start' = 0 /\ found' = <<>> /\ head' = 0 /\ look' = {}
      /\ stage' = "idle"
  BY DEF CallDFS
<1>5. ASSUME pc' # "scan" PROVE RpoInv'
  <2>1. \A n \in Node : color'[n] = "WHITE"
    BY <1>3, <1>5 DEF DfsInv, ColorsRestored, Visited
  <2>2. RpoInit'
    BY <1>3, <1>4, <2>1 DEF RpoInit, AllWhite, DfsInv, TypeOK
  <2> QED BY <2>2, RpoStart, PTL
<1> QED BY <1>3, <1>4, <1>5 DEF CallsInv

LEMMA CallRPOKeeps ==
  ASSUME CallsInv, NEW r \in Key, CallRPO(r)
  PROVE  CallsInv'
<1>1. pc # "scan" /\ stage # "scan" /\ RPO(r) /\ RpoInv /\ DfsInv
  BY DEF CallRPO, RPO, CallsInv
<1>2. RpoQuiet
  BY <1>1 DEF RpoInv, RpoQuiet, RpoColorsRestored
<1>3. RpoInv'
  BY <1>1, <1>2, RpoCalled
<1>4. DfsQuiet
  BY <1>1, QuietBetween
<1>5. /\ saved' = [n \in Node |-> "WHITE"]
      /\ root' = KEY_UNDEF /\ endKey' = KEY_UNDEF
      /\ stack' = <<>> /\ rest' = [n \in Node |-> {}]
      /\ vec' = <<>> /\ pc' = "idle"
  BY <1>4 DEF CallRPO, DfsQuiet, TypeOK
<1>6. ASSUME stage' # "scan" PROVE DfsInv'
  <2>1. \A n \in Node : color'[n] = "WHITE"
    BY <1>3, <1>6 DEF RpoInv, RpoColorsRestored
  <2>2. IsGraph(live', succ') /\ color' = [n \in Node |-> "WHITE"]
    BY <1>3, <2>1 DEF RpoInv, RpoTypeOK
  <2>3. (IsGraph(live, succ) /\ SearchInit)'
    BY <1>5, <2>2 DEF SearchInit, AllWhite
  <2> QED BY <2>3, DfsInit, PTL
<1> QED BY <1>3, <1>5, <1>6 DEF CallsInv

LEMMA CallStepKeeps == CallsInv /\ CallStep => CallsInv'
<1>1. ASSUME CallsInv, stage # "scan", Step, UNCHANGED rpoLocals
      PROVE  CallsInv'
  <2>1. DfsInv /\ DfsInv' /\ pc = "scan"
    BY <1>1, DfsStep DEF CallsInv, Step, Descend, Skip, Leave, Finish
  <2>2. /\ start' = 0 /\ found' = <<>> /\ head' = 0 /\ look' = {}
        /\ stage' = "idle"
    BY <1>1, <2>1 DEF CallsInv, rpoLocals
  <2>3. ASSUME pc' # "scan" PROVE RpoInv'
    <3>1. \A n \in Node : color'[n] = "WHITE"
      BY <2>1, <2>3 DEF DfsInv, ColorsRestored, Visited
    <3>2. RpoInit'
      BY <2>1, <2>2, <3>1 DEF RpoInit, AllWhite, DfsInv, TypeOK
    <3> QED BY <3>2, RpoStart, PTL
  <2> QED BY <2>1, <2>2, <2>3 DEF CallsInv
<1>2. ASSUME CallsInv, pc # "scan", RpoStep, UNCHANGED dfsLocals
      PROVE  CallsInv'
  <2>1. RpoInv /\ RpoInv' /\ stage = "scan"
    BY <1>2, RpoStepKeeps DEF CallsInv, RpoStep, Pop, Look, RpoFinish
  <2>2. /\ saved' = [n \in Node |-> "WHITE"]
        /\ root' = KEY_UNDEF /\ endKey' = KEY_UNDEF
        /\ stack' = <<>> /\ rest' = [n \in Node |-> {}]
        /\ vec' = <<>> /\ pc' = "idle"
    BY <1>2, <2>1 DEF CallsInv, dfsLocals
  <2>3. ASSUME stage' # "scan" PROVE DfsInv'
    <3>1. \A n \in Node : color'[n] = "WHITE"
      BY <2>1, <2>3 DEF RpoInv, RpoColorsRestored
    <3>2. IsGraph(live', succ') /\ color' = [n \in Node |-> "WHITE"]
      BY <2>1, <3>1 DEF RpoInv, RpoTypeOK
    <3>3. (IsGraph(live, succ) /\ SearchInit)'
      BY <2>2, <3>2 DEF SearchInit, AllWhite
    <3> QED BY <3>3, DfsInit, PTL
  <2> QED BY <2>1, <2>2, <2>3 DEF CallsInv
<1> QED BY <1>1, <1>2 DEF CallStep

LEMMA CallsUnchanged == CallsInv /\ UNCHANGED allVars => CallsInv'
<1> SUFFICES ASSUME CallsInv, UNCHANGED allVars PROVE CallsInv'
  OBVIOUS
<1>1. UNCHANGED dfsVars /\ UNCHANGED rpoVars
  BY DEF allVars, dfsVars, graph, search, rpoLocals, rpoVars
<1>2. /\ DfsInv => DfsInv'
      /\ RpoInv => RpoInv'
  BY <1>1, DfsUnchanged, RpoUnchanged
<1> QED BY <1>1, <1>2 DEF CallsInv, dfsVars, search, rpoVars

(* Whatever is searched in whatever order, each search meets the state it  *)
(* takes for granted.                                                      *)
THEOREM CallsInvCorrect == CallsSpec => []CallsInv
<1>1. CallsInit => CallsInv
  <2> SUFFICES ASSUME CallsInit PROVE CallsInv
    OBVIOUS
  <2>1. DfsInv /\ pc = "idle"
    BY DfsInit DEF CallsInit, Init, SearchInit
  <2>2. RpoInv /\ stage = "idle"
    BY RpoStart DEF CallsInit, RpoInit
  <2> QED BY <2>1, <2>2 DEF CallsInv
<1>2. CallsInv /\ [CallsNext]_allVars => CallsInv'
  BY CallDFSKeeps, CallRPOKeeps, CallStepKeeps, CallsUnchanged DEF CallsNext
<1> QED
  BY <1>1, <1>2, PTL DEF CallsSpec

(* DFS and hasPath answer reachability whatever was searched before.       *)
THEOREM CallsDfsCorrect == CallsSpec => []ListsReachable /\ []HasPathCorrect
<1>1. CallsInv => ListsReachable /\ HasPathCorrect
  <2>1. DfsInv => ListsReachable /\ HasPathCorrect
    BY InvLists, InvHasPath
  <2>2. CASE stage = "scan"
    BY <2>2 DEF CallsInv, ListsReachable, HasPathCorrect
  <2> QED BY <2>1, <2>2 DEF CallsInv
<1> QED
  BY <1>1, CallsInvCorrect, PTL

(* RPO lists the reachable nodes, dominators first, whatever was searched  *)
(* before.                                                                 *)
THEOREM CallsRpoCorrect == CallsSpec => []RpoListsReachable /\ []DominatorsFirst
<1>1. CallsInv => RpoListsReachable /\ DominatorsFirst
  <2>1. RpoInv => RpoListsReachable /\ DominatorsFirst
    BY InvRpoLists, InvDominators
  <2>2. CASE pc = "scan"
    BY <2>2 DEF CallsInv, RpoListsReachable, DominatorsFirst
  <2> QED BY <2>1, <2>2 DEF CallsInv
<1> QED
  BY <1>1, CallsInvCorrect, PTL

-----------------------------------------------------------------------------
(* DOMINANCE *)

(* The graph is the one asked about without its target.                    *)
IsCut ==
  /\ target \in before.live
  /\ live = before.live \ {target}
  /\ succ = Without(before.succ, target)
  /\ hidVert = before.hidVert \cup {target}
  /\ hidArc = before.hidArc \cup
       {a \in Node \X Node : /\ a[2] \in before.succ[a[1]]
                             /\ target \in {a[1], a[2]}}

(* The first list, without the keys of the second erased from it so far.   *)
OriginLeft ==
  /\ \A i, j \in 1 .. Len(origin) : origin[i] = origin[j] => i = j
  /\ \A n \in Node :
       (\E i \in 1 .. Len(origin) : origin[i] = n) <=>
          /\ n \in Reach(before.succ, root)
          /\ \A i \in 1 .. erased : vec[i] # n

QueryTypes ==
  /\ WellCut(Current) /\ WellCut(before)
  /\ phase \in {"ready", "origin", "cut", "reduced"}
  /\ origin \in Seq(Node)
  /\ erased \in Nat

AnswerRight ==
  Answered /\ Asked(root) /\ Asked(target) =>
    \A b \in Node :
      is_a_dominates_b(b) <=> Dominates(before.succ, root, target, b)

(* The search that is under way, or its result, at each stage of a query.  *)
Stages ==
  /\ phase = "ready" => DfsQuiet
  /\ phase = "origin" =>
       /\ DfsInv /\ pc # "idle" /\ endKey = KEY_UNDEF
       /\ Current = before
       /\ root \in before.live /\ target \in before.live
       /\ erased = 0
  /\ phase = "cut" =>
       DfsQuiet /\ pc = "done" /\ IsCut /\ OriginLeft /\ erased = 0
         /\ root \in before.live
  /\ phase = "reduced" =>
       /\ DfsInv /\ pc # "idle" /\ endKey = KEY_UNDEF
       /\ IsCut /\ OriginLeft /\ root \in before.live
       /\ erased <= Len(vec)
       /\ pc = "scan" => erased = 0

(* What holds between the steps of a query.                                *)
QueryInv == QueryTypes /\ Stages /\ AnswerRight /\ QueryRestores

-----------------------------------------------------------------------------

LEMMA ConcatFacts ==
  ASSUME NEW a \in Seq(Node), NEW b \in Seq(Node)
  PROVE  /\ a \o b \in Seq(Node) /\ Len(a \o b) = Len(a) + Len(b)
         /\ \A i \in 1 .. Len(a) + Len(b) :
              (a \o b)[i] = IF i <= Len(a) THEN a[i] ELSE b[i - Len(a)]
  OBVIOUS

LEMMA RemoveFirstErases ==
  ASSUME NEW s \in Seq(Node), NEW e \in Node,
         \A i, j \in 1 .. Len(s) : s[i] = s[j] => i = j
  PROVE  /\ RemoveFirst(s, e) \in Seq(Node)
         /\ \A i, j \in 1 .. Len(RemoveFirst(s, e)) :
              RemoveFirst(s, e)[i] = RemoveFirst(s, e)[j] => i = j
         /\ \A n \in Node :
              (\E i \in 1 .. Len(RemoveFirst(s, e)) : RemoveFirst(s, e)[i] = n)
                <=> n # e /\ \E i \in 1 .. Len(s) : s[i] = n
<1>1. CASE ~\E i \in 1 .. Len(s) : s[i] = e
  <2>1. RemoveFirst(s, e) = s
    BY <1>1 DEF RemoveFirst
  <2> QED BY <1>1, <2>1
<1>2. ASSUME NEW k \in 1 .. Len(s), s[k] = e
      PROVE  /\ RemoveFirst(s, e) \in Seq(Node)
             /\ Len(RemoveFirst(s, e)) = Len(s) - 1
             /\ \A i \in 1 .. Len(s) - 1 :
                  RemoveFirst(s, e)[i] = IF i < k THEN s[i] ELSE s[i + 1]
  <2>1. {i \in 1 .. Len(s) : s[i] = e} = {k}
    BY <1>2
  <2>2. Min({k}) = k
    BY DEF Min
  <2>3. SelectInSeq(s, LAMBDA v : v = e) = k
    BY <2>1, <2>2 DEF SelectInSeq
  <2> DEFINE a == SubSeq(s, 1, k - 1)
             b == SubSeq(s, k + 1, Len(s))
  <2>4. RemoveFirst(s, e) = a \o b
    BY <1>2, <2>3 DEF RemoveFirst, RemoveAt
  <2>5. /\ a \in Seq(Node) /\ Len(a) = k - 1
        /\ \A i \in 1 .. k - 1 : a[i] = s[i]
    <3>1. /\ 1 \in Int /\ k - 1 \in Int
          /\ \A i \in 1 .. k - 1 : s[i] \in Node
      BY <1>2
    <3>2. /\ a \in Seq(Node)
          /\ Len(a) = IF 1 <= k - 1 THEN (k - 1) - 1 + 1 ELSE 0
          /\ \A i \in 1 .. (k - 1) - 1 + 1 : a[i] = s[1 + i - 1]
      BY <3>1, SubSeqProperties
    <3> QED BY <3>2
  <2>6. /\ b \in Seq(Node) /\ Len(b) = Len(s) - k
        /\ \A i \in 1 .. Len(s) - k : b[i] = s[k + i]
    <3>1. /\ k + 1 \in Int /\ Len(s) \in Int
          /\ \A i \in k + 1 .. Len(s) : s[i] \in Node
      BY <1>2
    <3>2. /\ b \in Seq(Node)
          /\ Len(b) = IF k + 1 <= Len(s) THEN Len(s) - (k + 1) + 1 ELSE 0
          /\ \A i \in 1 .. Len(s) - (k + 1) + 1 : b[i] = s[(k + 1) + i - 1]
      BY <3>1, SubSeqProperties
    <3> QED BY <3>2
  <2> HIDE DEF a, b
  <2>7. /\ a \o b \in Seq(Node) /\ Len(a \o b) = Len(s) - 1
        /\ \A i \in 1 .. Len(s) - 1 :
             (a \o b)[i] = IF i < k THEN a[i] ELSE b[i - (k - 1)]
    <3>1. a \in Seq(Node) /\ b \in Seq(Node)
      BY <2>5, <2>6
    <3>2. /\ a \o b \in Seq(Node) /\ Len(a \o b) = Len(a) + Len(b)
          /\ \A i \in 1 .. Len(a) + Len(b) :
               (a \o b)[i] = IF i <= Len(a) THEN a[i] ELSE b[i - Len(a)]
      BY <3>1, ConcatFacts
    <3>3. Len(a) + Len(b) = Len(s) - 1
      BY <2>5, <2>6
    <3> QED BY <2>5, <3>2, <3>3
  <2>8. \A i \in 1 .. Len(s) - 1 : i < k => a[i] = s[i]
    BY <2>5
  <2>9. \A i \in 1 .. Len(s) - 1 : ~(i < k) => b[i - (k - 1)] = s[i + 1]
    BY <2>6
  <2> QED BY <2>4, <2>7, <2>8, <2>9
<1>3. CASE \E i \in 1 .. Len(s) : s[i] = e
  <2>1. PICK k \in 1 .. Len(s) : s[k] = e
    BY <1>3
  <2> DEFINE t == RemoveFirst(s, e)
  <2>2. /\ t \in Seq(Node) /\ Len(t) = Len(s) - 1
        /\ \A i \in 1 .. Len(s) - 1 : t[i] = IF i < k THEN s[i] ELSE s[i + 1]
    BY <1>2, <2>1
  <2> HIDE DEF t
  <2>3. \A i, j \in 1 .. Len(t) : t[i] = t[j] => i = j
    BY <2>2
  <2>4. ASSUME NEW n \in Node
        PROVE  (\E i \in 1 .. Len(t) : t[i] = n)
                 <=> n # e /\ \E i \in 1 .. Len(s) : s[i] = n
    <3>1. ASSUME NEW i \in 1 .. Len(t), t[i] = n
          PROVE  n # e /\ \E j \in 1 .. Len(s) : s[j] = n
      BY <2>1, <2>2, <3>1
    <3>2. ASSUME n # e, NEW j \in 1 .. Len(s), s[j] = n
          PROVE  \E i \in 1 .. Len(t) : t[i] = n
      <4>1. CASE j < k
        BY <2>2, <3>2, <4>1
      <4>2. CASE k < j
        <5>1. j - 1 \in 1 .. Len(t) /\ t[j - 1] = s[j]
          BY <2>2, <4>2
        <5> QED BY <3>2, <5>1
      <4> QED BY <2>1, <3>2, <4>1, <4>2
    <3> QED BY <3>1, <3>2
  <2> QED BY <2>2, <2>3, <2>4 DEF t
<1> QED BY <1>1, <1>3

LEMMA CutGraph ==
  ASSUME NEW L, NEW S, IsGraph(L, S), NEW t \in L
  PROVE  IsGraph(L \ {t}, Without(S, t))
  BY DEF IsGraph, Without

LEMMA QueryAsk ==
  ASSUME QueryInv, NEW r \in Key, NEW t \in Key, getDominatedNodes(r, t)
  PROVE  QueryInv'
<1> USE DEF graph
<1>1. /\ phase = "ready" /\ DfsQuiet /\ before' = Current
      /\ live' = live /\ succ' = succ /\ hidVert' = hidVert /\ hidArc' = hidArc
      /\ root' = r /\ target' = t /\ origin' = <<>> /\ erased' = 0
  BY DEF getDominatedNodes, QueryInv, Stages, DFS
<1>2. Current' = before' /\ WellCut(before') /\ before'.live = live
  BY <1>1 DEF Current, QueryInv, QueryTypes
<1>3. origin' \in Seq(Node) /\ erased' \in Nat
  BY <1>1
<1>4. CASE ~({r, t} \subseteq live)
  <2>1. phase' = phase /\ UNCHANGED <<graph, color, saved, endKey, stack, rest, vec, pc>>
    BY <1>4 DEF getDominatedNodes
  <2>2. DfsQuiet'
    BY <1>1, <2>1 DEF DfsQuiet, TypeOK
  <2>3. ~(Asked(root)' /\ Asked(target)')
    BY <1>1, <1>2, <1>4 DEF Asked
  <2> QED BY <1>1, <1>2, <1>3, <2>1, <2>2, <2>3
          DEF QueryInv, QueryTypes, Stages, AnswerRight, QueryRestores
<1>5. CASE {r, t} \subseteq live
  <2>1. DFS(r, KEY_UNDEF) /\ phase' = "origin"
    BY <1>5 DEF getDominatedNodes
  <2>2. DfsInv'
    BY <1>1, <2>1, DfsCalled
  <2>3. pc' # "idle" /\ endKey' = KEY_UNDEF
    BY <2>1 DEF DFS
  <2> QED BY <1>1, <1>2, <1>3, <1>5, <2>1, <2>2, <2>3
          DEF QueryInv, QueryTypes, Stages, AnswerRight, QueryRestores, Answered
<1> QED BY <1>4, <1>5

LEMMA QuerySearch ==
  ASSUME QueryInv, Search
  PROVE  QueryInv'
<1>1. /\ pc = "scan" /\ pc' # "idle" /\ live' = live /\ succ' = succ
      /\ root' = root /\ endKey' = endKey /\ Step /\ UNCHANGED query
  BY DEF Search, Step, Descend, Skip, Leave, Finish, graph
<1>2. phase \in {"origin", "reduced"}
  BY <1>1 DEF QueryInv, QueryTypes, Stages, DfsQuiet
<1>3. DfsInv'
  BY <1>1, <1>2, DfsStep DEF QueryInv, Stages
<1>4. QueryTypes' /\ Current' = Current
  BY <1>1 DEF QueryInv, QueryTypes, query, Current
<1>5. CASE phase = "origin"
  BY <1>1, <1>3, <1>4, <1>5
     DEF QueryInv, Stages, AnswerRight, QueryRestores, Answered, query
<1>6. CASE phase = "reduced"
  <2>1. erased = 0 /\ erased' = 0 /\ phase' = "reduced"
    BY <1>1, <1>6 DEF QueryInv, Stages, query
  <2>2. IsCut' /\ OriginLeft'
    BY <1>1, <1>6, <2>1 DEF QueryInv, Stages, query, IsCut, OriginLeft
  <2>3. Len(vec') \in Nat
    BY <1>3 DEF DfsInv, TypeOK
  <2> QED BY <1>1, <1>3, <1>4, <1>6, <2>1, <2>2, <2>3
          DEF QueryInv, Stages, AnswerRight, QueryRestores, Answered, query
<1> QED BY <1>2, <1>5, <1>6

(* Cutting the target leaves a graph, its keys and arcs those asked about. *)
LEMMA QueryCut ==
  ASSUME QueryInv, CutTarget
  PROVE  QueryInv'
<1>1. /\ phase = "origin" /\ phase' = "cut" /\ pc = "done" /\ origin' = vec
      /\ live' = live \ {target} /\ succ' = Without(succ, target)
      /\ hidVert' = hidVert \cup {target}
      /\ hidArc' = hidArc \cup {a \in Node \X Node :
                       /\ a[2] \in succ[a[1]] /\ target \in {a[1], a[2]}}
      /\ erased' = erased /\ before' = before /\ target' = target
      /\ UNCHANGED search
  BY DEF CutTarget
<1>2. /\ DfsInv /\ endKey = KEY_UNDEF /\ Current = before /\ erased = 0
      /\ root \in before.live /\ target \in before.live
      /\ WellCut(Current) /\ WellCut(before)
  BY <1>1 DEF QueryInv, QueryTypes, Stages
<1>3. /\ before.live = live /\ before.succ = succ
      /\ before.hidVert = hidVert /\ before.hidArc = hidArc
  BY <1>2 DEF Current
<1>4. /\ IsGraph(live, succ) /\ IsFiniteSet(live \cup hidVert)
      /\ hidVert \subseteq Node \ live /\ target \in live /\ live \subseteq Node
      /\ hidArc \subseteq Node \X Node
  BY <1>2, <1>3 DEF WellCut, Current, IsGraph
<1>5. WellCut(Current)'
  <2>1. IsGraph(live', succ')
    BY <1>1, <1>4, CutGraph
  <2>2. live' \cup hidVert' = live \cup hidVert
    BY <1>1, <1>4
  <2>3. hidVert' \subseteq Node \ live'
    BY <1>1, <1>4
  <2>4. hidArc' \subseteq Node \X Node
    BY <1>1, <1>4
  <2> QED BY <1>4, <2>1, <2>2, <2>3, <2>4 DEF WellCut, Current
<1>6. vec \in Seq(Node) /\ ~EndReached /\ Listed = Reach(succ, root)
  <2>1. vec \in Seq(Node)
    BY <1>2 DEF DfsInv, TypeOK
  <2>2. ~EndReached
    BY <1>2, <2>1, NodeAssumption DEF EndReached, KEY_UNDEF
  <2> QED BY <1>1, <1>2, <1>3, <2>1, <2>2, ListedClosed
<1>7. QueryTypes'
  BY <1>1, <1>2, <1>5, <1>6 DEF QueryTypes
<1>8. DfsQuiet'
  <2>1. DfsQuiet
    BY <1>1, <1>2, QuietBetween
  <2> QED BY <1>1, <1>5, <2>1 DEF DfsQuiet, TypeOK, search, WellCut, Current
<1>9. IsCut'
  BY <1>1, <1>2, <1>3 DEF IsCut
<1>10. OriginLeft'
  <2>1. root' = root /\ vec' = vec
    BY <1>1 DEF search
  <2> QED BY <1>1, <1>2, <1>3, <1>6, <2>1
          DEF OriginLeft, DfsInv, NoRepeats, Listed
<1> QED BY <1>1, <1>2, <1>7, <1>8, <1>9, <1>10
        DEF QueryInv, Stages, AnswerRight, QueryRestores, Answered, search

LEMMA QuerySecond ==
  ASSUME QueryInv, SecondDFS
  PROVE  QueryInv'
<1>1. /\ phase = "cut" /\ phase' = "reduced" /\ DFS(root, KEY_UNDEF)
      /\ UNCHANGED <<hidVert, hidArc, target, origin, erased, before>>
      /\ live' = live /\ succ' = succ /\ root' = root /\ endKey' = KEY_UNDEF
      /\ pc' # "idle"
  BY DEF SecondDFS, DFS, graph
<1>2. /\ DfsQuiet /\ IsCut /\ OriginLeft /\ erased = 0 /\ root \in before.live
      /\ QueryTypes
  BY <1>1 DEF QueryInv, Stages
<1>3. DfsInv'
  <2>1. root \in Key \cup {KEY_UNDEF}
    BY <1>2 DEF DfsQuiet, TypeOK
  <2> QED BY <1>1, <1>2, <2>1, DfsCalled
<1>4. QueryTypes' /\ IsCut'
  BY <1>1, <1>2 DEF QueryTypes, IsCut, Current
<1>5. OriginLeft'
  BY <1>1, <1>2 DEF OriginLeft
<1>6. Len(vec') \in Nat
  BY <1>3 DEF DfsInv, TypeOK
<1> QED BY <1>1, <1>2, <1>3, <1>4, <1>5, <1>6
        DEF QueryInv, Stages, AnswerRight, QueryRestores, Answered

LEMMA QueryErase ==
  ASSUME QueryInv, Erase
  PROVE  QueryInv'
<1>1. /\ phase = "reduced" /\ phase' = phase /\ pc = "done" /\ erased < Len(vec)
      /\ erased' = erased + 1 /\ origin' = RemoveFirst(origin, vec[erased + 1])
      /\ UNCHANGED <<live, succ, search, hidVert, hidArc, target, before>>
  BY DEF Erase, graph
<1>2. /\ DfsInv /\ IsCut /\ OriginLeft /\ QueryTypes
      /\ erased \in Nat /\ origin \in Seq(Node) /\ vec \in Seq(Node)
  BY <1>1 DEF QueryInv, QueryTypes, Stages, DfsInv, TypeOK
<1>3. vec[erased + 1] \in Node
  BY <1>1, <1>2
<1>4. /\ origin' \in Seq(Node)
      /\ \A i, j \in 1 .. Len(origin') : origin'[i] = origin'[j] => i = j
      /\ \A n \in Node : (\E i \in 1 .. Len(origin') : origin'[i] = n)
           <=> n # vec[erased + 1] /\ \E i \in 1 .. Len(origin) : origin[i] = n
  <2>1. \A i, j \in 1 .. Len(origin) : origin[i] = origin[j] => i = j
    BY <1>2 DEF OriginLeft
  <2>2. origin \in Seq(Node)
    BY <1>2
  <2>3. origin' = RemoveFirst(origin, vec[erased + 1])
    BY <1>1
  <2> DEFINE e == vec[erased + 1] t == RemoveFirst(origin, e)
  <2>4. e \in Node
    BY <1>3
  <2> HIDE DEF e
  <2>5. /\ t \in Seq(Node)
        /\ \A i, j \in 1 .. Len(t) : t[i] = t[j] => i = j
        /\ \A n \in Node : (\E i \in 1 .. Len(t) : t[i] = n)
             <=> n # e /\ \E i \in 1 .. Len(origin) : origin[i] = n
    BY <2>1, <2>2, <2>4, RemoveFirstErases
  <2> QED BY <2>3, <2>5 DEF e
<1>5. DfsInv' /\ IsCut' /\ QueryTypes'
  <2>1. UNCHANGED dfsVars
    BY <1>1 DEF dfsVars, graph
  <2> QED BY <1>1, <1>2, <1>4, <2>1, DfsUnchanged DEF QueryTypes, IsCut, Current
<1>6. OriginLeft'
  <2>1. root' = root /\ vec' = vec
    BY <1>1 DEF search
  <2>2. \A n \in Node : (\A i \in 1 .. erased' : vec[i] # n) <=>
          n # vec[erased + 1] /\ \A i \in 1 .. erased : vec[i] # n
    BY <1>1, <1>2
  <2>3. \A n \in Node : (\E i \in 1 .. Len(origin) : origin[i] = n) <=>
          /\ n \in Reach(before.succ, root)
          /\ \A i \in 1 .. erased : vec[i] # n
    BY <1>2 DEF OriginLeft
  <2>4. \A n \in Node : (\E i \in 1 .. Len(origin') : origin'[i] = n) <=>
          /\ n \in Reach(before.succ, root)
          /\ \A i \in 1 .. erased' : vec[i] # n
    BY <1>4, <2>2, <2>3, Zenon
  <2>5. before' = before
    BY <1>1
  <2>6. \A n \in Node : (\E i \in 1 .. Len(origin') : origin'[i] = n) <=>
          /\ n \in Reach(before'.succ, root')
          /\ \A i \in 1 .. erased' : vec'[i] # n
    BY <2>1, <2>4, <2>5
  <2> QED BY <1>4, <2>6 DEF OriginLeft
<1> QED BY <1>1, <1>2, <1>5, <1>6
        DEF QueryInv, Stages, AnswerRight, QueryRestores, Answered, search

(* What paste_all does not bring back stays cut: together they are what    *)
(* was asked about.  When no end is deleted nothing stays.                 *)
LEMMA QueryAnswer ==
  ASSUME QueryInv, Answer
  PROVE  QueryInv'
<1>0. PICK A \in Pasted :
        /\ succ' = [n \in Node |-> succ[n] \cup {m \in Node : <<n, m>> \in A}]
        /\ hidArc' = hidArc \ A
  BY DEF Answer
<1>1. /\ phase = "reduced" /\ phase' = "ready" /\ pc = "done"
      /\ erased = Len(vec) /\ result' = origin
      /\ live' = live \cup hidVert /\ hidVert' = {}
      /\ UNCHANGED <<search, target, origin, erased, before>>
  BY DEF Answer
<1>2. /\ DfsInv /\ IsCut /\ OriginLeft /\ QueryTypes /\ endKey = KEY_UNDEF
      /\ root \in before.live /\ target \in before.live
      /\ origin \in Seq(Node) /\ vec \in Seq(Node)
  BY <1>1 DEF QueryInv, QueryTypes, Stages, DfsInv, TypeOK, IsCut
<1>3. /\ live = before.live \ {target} /\ succ = Without(before.succ, target)
      /\ hidVert = before.hidVert \cup {target}
      /\ hidArc = before.hidArc \cup
           {a \in Node \X Node : /\ a[2] \in before.succ[a[1]]
                                 /\ target \in {a[1], a[2]}}
  BY <1>2 DEF IsCut
<1>4. /\ IsGraph(before.live, before.succ)
      /\ before.live \subseteq Node /\ before.succ \in [Node -> SUBSET Node]
      /\ before.hidArc \subseteq Node \X Node
      /\ target \in Node /\ root \in Node
  BY <1>2 DEF QueryTypes, WellCut, IsGraph
<1>5. live' = before.live \cup before.hidVert
  BY <1>1, <1>2, <1>3
<1>5a. /\ A \subseteq hidArc /\ A \subseteq Node \X Node
       /\ \A a \in A : {a[1], a[2]} \subseteq live'
       /\ Stuck(Current) = {} => A = hidArc
  <2>1. hidArc \subseteq Node \X Node
    BY <1>2 DEF QueryTypes, WellCut, Current
  <2> QED BY <1>0, <1>1, <2>1 DEF Pasted, Stuck, Current
<1>5b. Stuck(before) = {} => hidArc' = {}
  <2> SUFFICES ASSUME Stuck(before) = {} PROVE Stuck(Current) = {}
    BY <1>0, <1>5a
  <2>1. ASSUME NEW a \in hidArc
        PROVE  {a[1], a[2]} \subseteq live \cup hidVert
    <3>1. live \cup hidVert = before.live \cup before.hidVert
      BY <1>2, <1>3
    <3>2. CASE a \in before.hidArc
      BY <3>1, <3>2 DEF Stuck
    <3>3. CASE a \notin before.hidArc
      BY <1>3, <1>4, <2>1, <3>1, <3>3 DEF IsGraph
    <3> QED BY <3>2, <3>3
  <2> QED BY <2>1 DEF Stuck, Current
<1>6. Arcs(succ)' \cup hidArc' = Arcs(before.succ) \cup before.hidArc
  <2>1. ASSUME NEW n \in Node, NEW m \in Node
        PROVE  m \in succ'[n] \/ <<n, m>> \in hidArc' <=>
                 m \in before.succ[n] \/ <<n, m>> \in before.hidArc
    <3>1. m \in succ'[n] <=> m \in succ[n] \/ <<n, m>> \in A
      BY <1>0, <2>1
    <3>2. m \in succ[n] <=> m \in before.succ[n] /\ n # target /\ m # target
      BY <1>3, <2>1 DEF Without
    <3>3. <<n, m>> \in hidArc <=>
            \/ <<n, m>> \in before.hidArc
            \/ m \in before.succ[n] /\ (n = target \/ m = target)
      BY <1>3, <2>1
    <3> QED BY <1>0, <1>5a, <3>1, <3>2, <3>3
  <2>2. hidArc' \subseteq Node \X Node
    BY <1>0, <1>3, <1>4
  <2>3. ASSUME NEW n \in Node, NEW m \in Node
        PROVE  /\ <<n, m>> \in Arcs(succ)' <=> m \in succ'[n]
               /\ <<n, m>> \in Arcs(before.succ) <=> m \in before.succ[n]
    BY <2>3 DEF Arcs
  <2>4. Arcs(succ)' \subseteq Node \X Node /\ Arcs(before.succ) \subseteq Node \X Node
    BY DEF Arcs
  <2> QED BY <1>4, <2>1, <2>2, <2>3, <2>4
<1>7. WellCut(Current)' /\ WellCut(before)'
  <2>1. /\ IsGraph(live, succ) /\ IsFiniteSet(live \cup hidVert)
        /\ hidVert \subseteq Node \ live /\ live \subseteq Node
        /\ hidArc \subseteq Node \X Node
    BY <1>2 DEF QueryTypes, WellCut, Current, IsGraph
  <2>2. IsGraph(live', succ')
    <3>1. live' \in SUBSET Node
      BY <1>1, <2>1
    <3>2. ASSUME NEW n \in Node
          PROVE  /\ succ'[n] \subseteq live'
                 /\ n \notin live' => succ'[n] = {}
      BY <1>0, <1>1, <1>5a, <2>1 DEF IsGraph
    <3>3. succ' \in [Node -> SUBSET live']
      BY <1>0, <3>2
    <3> QED BY <3>1, <3>2, <3>3 DEF IsGraph
  <2>3. IsFiniteSet(live' \cup hidVert')
    BY <1>1, <2>1
  <2>4. hidVert' \subseteq Node \ live' /\ hidArc' \subseteq Node \X Node
    BY <1>0, <1>1, <2>1
  <2> QED BY <1>1, <1>2, <2>2, <2>3, <2>4 DEF WellCut, Current, QueryTypes
<1>8. QueryTypes'
  BY <1>1, <1>2, <1>7 DEF QueryTypes
<1>9. DfsQuiet'
  <2>1. DfsQuiet
    BY <1>1, <1>2, QuietBetween
  <2> QED BY <1>1, <1>7, <2>1 DEF DfsQuiet, TypeOK, search, WellCut, Current
<1>10. ASSUME NEW b \in Node
       PROVE  is_a_dominates_b(b)' <=> Dominates(before.succ, root, target, b)
  <2>1. is_a_dominates_b(b)' <=>
          /\ b \in Reach(before.succ, root)
          /\ \A i \in 1 .. Len(vec) : vec[i] # b
    BY <1>1, <1>2 DEF is_a_dominates_b, OriginLeft
  <2>2. CASE target = root
    <3>1. vec = <<>> /\ Len(vec) = 0
      BY <1>2, <1>3, <2>2 DEF DfsInv, ListedReachable
    <3> QED BY <2>1, <2>2, <3>1 DEF Dominates
  <2>3. CASE target # root
    <3>1. ~EndReached
      BY <1>2, NodeAssumption DEF EndReached, KEY_UNDEF
    <3>2. root \in live
      BY <1>2, <1>3, <2>3
    <3>3. Listed = Reach(Without(before.succ, target), root)
      BY <1>1, <1>2, <1>3, <3>1, <3>2, ListedClosed
    <3> QED BY <2>1, <2>3, <3>3 DEF Dominates, Listed
  <2> QED BY <2>2, <2>3
<1>11. AnswerRight'
  BY <1>1, <1>10 DEF AnswerRight, search
<1>12. QueryRestores'
  BY <1>1, <1>5, <1>5b, <1>6 DEF QueryRestores, Stuck
<1> QED BY <1>1, <1>8, <1>9, <1>11, <1>12 DEF QueryInv, Stages

LEMMA QueryUnchanged == QueryInv /\ UNCHANGED domVars => QueryInv'
<1> SUFFICES ASSUME QueryInv, UNCHANGED domVars PROVE QueryInv'
  OBVIOUS
<1>1. UNCHANGED dfsVars /\ UNCHANGED <<graph, search, query>>
  BY DEF domVars, dfsVars
<1>2. DfsInv => DfsInv'
  BY <1>1, DfsUnchanged
<1>3. QueryTypes'
  BY <1>1 DEF QueryInv, QueryTypes, Current, query, graph
<1>4. Stages'
  BY <1>1, <1>2
     DEF QueryInv, Stages, DfsQuiet, TypeOK, IsCut, OriginLeft, Current,
         query, graph, search
<1>5. AnswerRight' /\ QueryRestores'
  BY <1>1 DEF QueryInv, AnswerRight, QueryRestores, Answered, Asked,
              is_a_dominates_b, query, graph, search
<1> QED BY <1>3, <1>4, <1>5 DEF QueryInv

(* The invariant that the results on dominance are read off.               *)
THEOREM QueryInvCorrect == QuerySpec => []QueryInv
<1>1. QueryInit => QueryInv
  <2> SUFFICES ASSUME QueryInit PROVE QueryInv
    OBVIOUS
  <2>1. WellCut(Current)
    BY GraphsAssumption DEF QueryInit, WellCut, Current
  <2>2. DfsInv /\ pc = "idle"
    BY <2>1, DfsInit DEF QueryInit, SearchInit, WellCut, Current
  <2>3. QueryTypes /\ DfsQuiet
    BY <2>1, <2>2, QuietBetween DEF QueryInit, QueryTypes
  <2> QED BY <2>3 DEF QueryInit, QueryInv, Stages, AnswerRight, QueryRestores,
                      Answered
<1>2. QueryInv /\ [QueryNext]_domVars => QueryInv'
  BY QueryAsk, QuerySearch, QueryCut, QuerySecond, QueryErase, QueryAnswer,
     QueryUnchanged DEF QueryNext, QueryStep
<1> QED
  BY <1>1, <1>2, PTL DEF QuerySpec

(* is_a_dominates_b answers whether the target lies on every path from the *)
(* root to the node.                                                       *)
THEOREM DominatesEveryPathCorrect == QuerySpec => []DominatesEveryPath
<1>1. QueryInv => DominatesEveryPath
  <2> SUFFICES ASSUME QueryInv, Answered, Asked(root), Asked(target), NEW b \in Node
               PROVE  is_a_dominates_b(b) <=>
                        /\ Paths(before.live, before.succ, root, b) # {}
                        /\ \A p \in Paths(before.live, before.succ, root, b) :
                             \E i \in DOMAIN p : p[i] = target
    BY DEF DominatesEveryPath
  <2>1. is_a_dominates_b(b) <=> Dominates(before.succ, root, target, b)
    BY DEF QueryInv, AnswerRight
  <2>2. IsGraph(before.live, before.succ) /\ root \in before.live
    BY DEF QueryInv, QueryTypes, WellCut, Asked
  <2>3. IsFiniteSet(before.live)
    BY FS_Subset DEF QueryInv, QueryTypes, WellCut
  <2> QED BY <2>1, <2>2, <2>3, DominatesMeansPaths
<1> QED
  BY <1>1, QueryInvCorrect, PTL

(* A query gives the graph back, with everything that was cut before it.   *)
THEOREM QueryRestoresCorrect == QuerySpec => []QueryRestores
<1>1. QueryInv => QueryRestores
  BY DEF QueryInv
<1> QED
  BY <1>1, QueryInvCorrect, PTL

(* A query leaves every node WHITE.                                        *)
THEOREM QueryRestoresColorsCorrect == QuerySpec => []QueryRestoresColors
<1>1. QueryInv => QueryRestoresColors
  BY DEF QueryInv, Stages, DfsQuiet, QueryRestoresColors, Visited
<1> QED
  BY <1>1, QueryInvCorrect, PTL

(* All that a query does to the graph it does as DiGraph allows: it hides  *)
(* its target and, with no end of a hidden arc deleted, brings back what   *)
(* is hidden.                                                              *)
THEOREM OnlyHidesAndRestoresCorrect == QuerySpec => OnlyHidesAndRestores
<1>1. QueryInv /\ [QueryNext]_domVars =>
        [DG!HideVertex(target) \/ (Stuck(Current) = {} => DG!Restore)]_(DG!vars)
  <2> SUFFICES ASSUME QueryInv, [QueryNext]_domVars
               PROVE  \/ DG!HideVertex(target)
                      \/ Stuck(Current) = {} => DG!Restore
                      \/ UNCHANGED DG!vars
    OBVIOUS
  <2>1. CASE UNCHANGED <<live, succ, hidVert, hidArc>>
    BY <2>1 DEF DG!vars
  <2>2. CASE CutTarget
    <3>1. phase = "origin" /\ target \in live /\ succ \in [Node -> SUBSET Node]
      BY <2>2 DEF CutTarget, QueryInv, QueryTypes, Stages, WellCut, Current, IsGraph
    <3>2. \A n, m \in Node : m \in succ'[n] <=>
            m \in succ[n] /\ target \notin {n, m}
      BY <2>2, <3>1 DEF CutTarget, Without
    <3>3. DG!HideVertex(target)
      BY <2>2, <3>1, <3>2 DEF CutTarget, DG!HideVertex, DG!Incident, Arcs
    <3> QED BY <3>3
  <2>3. CASE Answer
    <3> SUFFICES ASSUME Stuck(Current) = {} PROVE DG!Restore
      OBVIOUS
    <3>1. hidArc \subseteq Node \X Node
      BY DEF QueryInv, QueryTypes, WellCut, Current
    <3>2. /\ succ' = [n \in Node |->
                        succ[n] \cup {m \in Node : <<n, m>> \in hidArc}]
          /\ hidArc' = {}
      BY <2>3, <3>1 DEF Answer, Pasted
    <3>3. Arcs(succ') = Arcs(succ) \cup hidArc
      BY <3>1, <3>2 DEF Arcs
    <3> QED BY <2>3, <3>2, <3>3 DEF Answer, DG!Restore, Arcs
  <2> QED BY <2>1, <2>2, <2>3
          DEF QueryNext, QueryStep, Search, Step, Descend, Skip, Leave, Finish,
              SecondDFS, DFS, Erase, getDominatedNodes, domVars, dfsVars, graph,
              query
<1> QED
  BY <1>1, QueryInvCorrect, PTL DEF QuerySpec, OnlyHidesAndRestores
=============================================================================
