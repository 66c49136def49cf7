------------------------------ MODULE RpoProofs ------------------------------
(***************************************************************************)
(* RPO lists exactly the reachable nodes, each once and after the nodes    *)
(* that dominate it, and leaves every node WHITE.                          *)
(***************************************************************************)
EXTENDS Rpo, ReachProofs

(* A key was pushed.                                                       *)
Found(n) == \E i \in 1 .. Len(found) : found[i] = n

(* While the search runs a node is BLACK exactly when it was pushed.       *)
ColorsRight ==
  /\ \A n \in Node : color[n] \in {"WHITE", "BLACK"}
  /\ stage = "scan" => \A n \in Node : color[n] = "BLACK" <=> Found(n)

(* The first key pushed is the root, and a scan has pushed it.             *)
RootFirst ==
  /\ found # <<>> => found[1] = start /\ start \in live
  /\ stage = "scan" => found # <<>>
  /\ stage = "done" /\ start \in live => found # <<>>

FoundReachable == \A i \in 1 .. Len(found) : found[i] \in Reach(succ, start)

(* The successors of the keys popped so far were pushed, except those that *)
(* the for loop has still to pass.                                         *)
RpoPassed ==
  /\ head = 0 => look = {}
  /\ head > 0 => look \subseteq succ[found[head]]
  /\ \A i \in 1 .. head : \A m \in succ[found[i]] :
       Found(m) \/ (i = head /\ m \in look)
  /\ stage = "done" => head = Len(found) /\ look = {}

(* A key pushed before node a is reachable without a.                      *)
AroundLater ==
  \A i \in 1 .. Len(found), a \in Node :
    (\A j \in 1 .. i : found[j] # a) =>
      found[i] \in Reach(Without(succ, a), start)

RpoInv ==
  /\ RpoTypeOK
  /\ RpoColorsRestored
  /\ ColorsRight
  /\ RootFirst
  /\ FoundReachable
  /\ RpoPassed
  /\ AroundLater
  /\ RpoNoRepeats

(* What a call of RPO needs of the state it is made in.                    *)
RpoQuiet ==
  /\ RpoTypeOK
  /\ stage # "scan"
  /\ \A n \in Node : color[n] = "WHITE"

-----------------------------------------------------------------------------

LEMMA RpoTypeStep == RpoTypeOK /\ [RpoNext]_rpoVars => RpoTypeOK'
<1> SUFFICES ASSUME RpoTypeOK, [RpoNext]_rpoVars
             PROVE  RpoTypeOK'
  OBVIOUS
<1> USE DEF RpoTypeOK, IsGraph, ColorT, graph
<1>1. ASSUME NEW r \in Key, RPO(r) PROVE RpoTypeOK'
  <2>1. live' = live /\ succ' = succ /\ start' = r /\ head' = 0 /\ look' = {}
    BY <1>1 DEF RPO
  <2>2. CASE r \notin live
    <3>1. color' = color /\ found' = <<>> /\ stage' = "done"
      BY <1>1, <2>2 DEF RPO
    <3>2. found' \in Seq(Node) /\ Len(found') = 0
      BY <3>1
    <3> QED BY <2>1, <3>1, <3>2
  <2>3. CASE r \in live
    <3>1. color' = [color EXCEPT ![r] = "BLACK"] /\ found' = <<r>>
          /\ stage' = "scan"
      BY <1>1, <2>3 DEF RPO
    <3>2. found' \in Seq(Node) /\ Len(found') = 1
      BY <2>3, <3>1
    <3> QED BY <2>1, <3>1, <3>2
  <2> QED BY <2>2, <2>3
<1>2. CASE Pop
  BY <1>2 DEF Pop
<1>3. CASE Look
  <2>1. PICK m \in look :
          /\ look' = look \ {m}
          /\ \/ color[m] = "BLACK" /\ UNCHANGED <<color, found>>
             \/ /\ color' = [color EXCEPT ![m] = "BLACK"]
                /\ found' = Append(found, m)
    BY <1>3 DEF Look
  <2>2. found' \in Seq(Node) /\ Len(found) <= Len(found')
    BY <2>1
  <2> QED BY <1>3, <2>1, <2>2 DEF Look
<1>4. CASE RpoFinish
  BY <1>4 DEF RpoFinish
<1>5. CASE UNCHANGED rpoVars
  BY <1>5 DEF rpoVars
<1> QED
  BY <1>1, <1>2, <1>3, <1>4, <1>5 DEF RpoNext, RpoStep

(* Every reachable state of RPO has the right type.                        *)
THEOREM RpoTypeCorrect == RpoSpec => []RpoTypeOK
<1>1. RpoInit => RpoTypeOK
  BY DEF RpoInit, AllWhite, RpoTypeOK, IsGraph, ColorT
<1> QED
  BY <1>1, RpoTypeStep, PTL DEF RpoSpec

-----------------------------------------------------------------------------
(* One lemma per action: it preserves the invariant.                       *)

LEMMA RpoCall == ASSUME RpoQuiet, RpoTypeOK', NEW r \in Key, RPO(r) PROVE RpoInv'
<1> USE DEF RpoInv, RpoQuiet, graph
<1>1. /\ live' = live /\ succ' = succ /\ start' = r /\ head' = 0 /\ look' = {}
      /\ stage # "scan"
  BY DEF RPO
<1>2. \A n \in Node : color[n] = "WHITE"
  OBVIOUS
<1>3. CASE r \notin live
  <2>1. color' = color /\ found' = <<>> /\ stage' = "done"
    BY <1>3 DEF RPO
  <2>2. Len(found') = 0
    BY <2>1
  <2>3. RpoColorsRestored' /\ ColorsRight'
    BY <1>2, <2>1 DEF RpoColorsRestored, ColorsRight
  <2>4. RootFirst' /\ RpoPassed'
    BY <1>1, <1>3, <2>1, <2>2 DEF RootFirst, RpoPassed
  <2>5. FoundReachable' /\ AroundLater' /\ RpoNoRepeats'
    BY <2>2 DEF FoundReachable, AroundLater, RpoNoRepeats
  <2> QED BY <2>3, <2>4, <2>5
<1>4. CASE r \in live
  <2>1. color' = [color EXCEPT ![r] = "BLACK"] /\ found' = <<r>> /\ stage' = "scan"
    BY <1>4 DEF RPO
  <2>2. Len(found') = 1 /\ found'[1] = r /\ r \in Node
    BY <1>4, <2>1 DEF RpoTypeOK, IsGraph
  <2>3. RpoColorsRestored' /\ ColorsRight'
    BY <1>2, <2>1, <2>2 DEF RpoColorsRestored, ColorsRight, Found, RpoTypeOK
  <2>4. RootFirst' /\ RpoPassed'
    BY <1>1, <1>4, <2>1, <2>2 DEF RootFirst, RpoPassed
  <2>5. FoundReachable' /\ RpoNoRepeats'
    BY <1>1, <2>2, ReachRoot DEF FoundReachable, RpoNoRepeats
  <2>6. AroundLater'
    BY <1>1, <2>2, ReachRoot DEF AroundLater
  <2> QED BY <2>3, <2>4, <2>5, <2>6
<1> QED BY <1>3, <1>4

LEMMA RpoPop == ASSUME RpoInv, RpoTypeOK', Pop PROVE RpoInv'
<1> USE DEF RpoInv, graph
<1>1. /\ stage = "scan" /\ look = {} /\ head < Len(found) /\ head' = head + 1
      /\ look' = succ[found[head + 1]]
      /\ live' = live /\ succ' = succ /\ color' = color /\ start' = start
      /\ found' = found /\ stage' = stage
  BY DEF Pop
<1>2. RpoColorsRestored' /\ ColorsRight' /\ RootFirst'
  BY <1>1 DEF RpoColorsRestored, ColorsRight, RootFirst, Found
<1>3. FoundReachable' /\ AroundLater' /\ RpoNoRepeats'
  BY <1>1 DEF FoundReachable, AroundLater, RpoNoRepeats
<1>4. RpoPassed'
  <2>1. head \in Nat /\ head' # 0
    BY <1>1 DEF RpoTypeOK
  <2>2. ASSUME NEW i \in 1 .. head', NEW m \in succ[found[i]]
        PROVE  Found(m) \/ (i = head' /\ m \in look')
    <3>1. CASE i = head'
      BY <1>1, <3>1
    <3>2. CASE i # head'
      BY <1>1, <2>1, <3>2 DEF RpoPassed
    <3> QED BY <3>1, <3>2
  <2> QED BY <1>1, <2>1, <2>2 DEF RpoPassed, Found
<1> QED BY <1>2, <1>3, <1>4

LEMMA RpoLook == ASSUME RpoInv, RpoTypeOK', Look PROVE RpoInv'
<1> USE DEF RpoInv, graph
<1>1. PICK m \in look :
        /\ look' = look \ {m}
        /\ \/ color[m] = "BLACK" /\ UNCHANGED <<color, found>>
           \/ /\ color[m] # "BLACK"
              /\ color' = [color EXCEPT ![m] = "BLACK"]
              /\ found' = Append(found, m)
  BY DEF Look
<1>2. /\ stage = "scan" /\ stage' = stage /\ live' = live /\ succ' = succ
      /\ start' = start /\ head' = head
  BY DEF Look
<1>3. /\ m \in Node /\ head \in 1 .. Len(found) /\ m \in succ[found[head]]
      /\ found[head] \in Node /\ start \in Node /\ succ \in [Node -> SUBSET Node]
  BY <1>1, <1>2 DEF RpoTypeOK, RpoPassed, RootFirst, IsGraph
<1>4. CASE color[m] = "BLACK" /\ UNCHANGED <<color, found>>
  <2>1. RpoColorsRestored' /\ ColorsRight' /\ RootFirst'
    BY <1>2, <1>4 DEF RpoColorsRestored, ColorsRight, RootFirst, Found
  <2>2. FoundReachable' /\ AroundLater' /\ RpoNoRepeats'
    BY <1>2, <1>4 DEF FoundReachable, AroundLater, RpoNoRepeats
  <2>3. Found(m)
    BY <1>2, <1>3, <1>4 DEF ColorsRight
  <2>4. RpoPassed'
    BY <1>1, <1>2, <1>3, <1>4, <2>3 DEF RpoPassed, Found
  <2> QED BY <2>1, <2>2, <2>4
<1>5. CASE /\ color[m] # "BLACK"
           /\ color' = [color EXCEPT ![m] = "BLACK"]
           /\ found' = Append(found, m)
  <2>1. /\ Len(found') = Len(found) + 1
        /\ found'[Len(found) + 1] = m
        /\ \A i \in 1 .. Len(found) : found'[i] = found[i]
        /\ Len(found) \in Nat
    BY <1>3, <1>5 DEF RpoTypeOK
  <2>2. ~Found(m)
    BY <1>2, <1>3, <1>5 DEF ColorsRight
  <2>3. \A n \in Node : Found(n)' <=> Found(n) \/ n = m
    BY <2>1 DEF Found
  <2>4. RpoColorsRestored' /\ ColorsRight'
    BY <1>2, <1>3, <1>5, <2>3 DEF RpoColorsRestored, ColorsRight, RpoTypeOK
  <2>5. found # <<>> /\ found' # <<>> /\ found'[1] = found[1]
    BY <1>3, <2>1
  <2>6. RootFirst'
    BY <1>2, <2>5 DEF RootFirst
  <2>7. found[head] \in Reach(succ, start)
    BY <1>3 DEF FoundReachable
  <2>8. m \in Reach(succ, start)
    BY <1>3, <2>7, ReachStep
  <2>9. FoundReachable'
    BY <1>2, <2>1, <2>8 DEF FoundReachable
  <2>10. RpoNoRepeats'
    BY <2>1, <2>2 DEF RpoNoRepeats, Found
  <2>11. RpoPassed'
    <3>1. ASSUME NEW i \in 1 .. head', NEW n \in succ'[found'[i]]
          PROVE  Found(n)' \/ (i = head' /\ n \in look')
      <4>1. i \in 1 .. Len(found) /\ found'[i] = found[i] /\ n \in Node
        BY <1>2, <1>3, <2>1 DEF RpoTypeOK
      <4>2. Found(n) \/ (i = head /\ n \in look)
        BY <1>2, <4>1 DEF RpoPassed
      <4> QED BY <1>1, <1>2, <2>3, <4>1, <4>2
    <3>2. head' # 0 /\ look' \subseteq succ'[found'[head']]
      BY <1>1, <1>2, <1>3, <2>1 DEF RpoPassed
    <3> QED BY <1>2, <3>1, <3>2 DEF RpoPassed
  <2>12. AroundLater'
    <3> SUFFICES ASSUME NEW i \in 1 .. Len(found'), NEW a \in Node,
                        \A j \in 1 .. i : found'[j] # a
                 PROVE  found'[i] \in Reach(Without(succ, a), start)
      BY <1>2 DEF AroundLater
    <3>1. CASE i \in 1 .. Len(found)
      BY <2>1, <3>1 DEF AroundLater
    <3>2. CASE i = Len(found) + 1
      <4>1. found[head] \in Reach(Without(succ, a), start)
        BY <1>3, <2>1, <3>2 DEF AroundLater
      <4>2. m # a /\ found[head] # a
        BY <1>3, <2>1, <3>2
      <4>3. m \in Without(succ, a)[found[head]]
        BY <1>3, <4>2 DEF Without
      <4>4. m \in Reach(Without(succ, a), start)
        BY <1>3, <4>1, <4>3, ReachStep, WithoutType
      <4> QED BY <2>1, <3>2, <4>4
    <3> QED BY <2>1, <3>1, <3>2
  <2> QED BY <2>4, <2>6, <2>9, <2>10, <2>11, <2>12
<1> QED BY <1>1, <1>4, <1>5

LEMMA RpoEnd == ASSUME RpoInv, RpoTypeOK', RpoFinish PROVE RpoInv'
<1> USE DEF RpoInv, graph
<1>1. /\ stage = "scan" /\ stage' = "done" /\ look = {} /\ head = Len(found)
      /\ live' = live /\ succ' = succ /\ start' = start /\ found' = found
      /\ head' = head /\ look' = look
      /\ color' = [n \in Node |-> IF n \in live THEN "WHITE" ELSE color[n]]
  BY DEF RpoFinish
<1>2. \A n \in Node : color'[n] = "WHITE"
  <2>1. ASSUME NEW n \in Node, color[n] # "WHITE" PROVE n \in live
    <3>1. Found(n)
      BY <1>1, <2>1 DEF ColorsRight
    <3>2. n \in Reach(succ, start)
      BY <3>1 DEF Found, FoundReachable
    <3>3. start \in live /\ live \in SUBSET Node /\ Closed(succ, live)
      BY <1>1 DEF RootFirst, RpoTypeOK, IsGraph, Closed
    <3> QED BY <3>2, <3>3, ReachLeast
  <2> QED BY <1>1, <2>1
<1>3. RpoColorsRestored' /\ ColorsRight' /\ RootFirst'
  BY <1>1, <1>2 DEF RpoColorsRestored, ColorsRight, RootFirst
<1>4. FoundReachable' /\ AroundLater' /\ RpoNoRepeats' /\ RpoPassed'
  BY <1>1 DEF FoundReachable, AroundLater, RpoNoRepeats, RpoPassed, Found
<1> QED BY <1>3, <1>4

LEMMA RpoUnchanged == RpoInv /\ UNCHANGED rpoVars => RpoInv'
  BY DEF RpoInv, rpoVars, RpoTypeOK, RpoColorsRestored, ColorsRight, RootFirst,
     FoundReachable, RpoPassed, AroundLater, RpoNoRepeats, Found

LEMMA RpoStepKeeps == RpoInv /\ RpoStep => RpoInv'
<1> SUFFICES ASSUME RpoInv, RpoStep PROVE RpoInv'
  OBVIOUS
<1>1. RpoTypeOK'
  BY RpoTypeStep DEF RpoInv, RpoNext
<1> QED BY <1>1, RpoPop, RpoLook, RpoEnd DEF RpoStep

LEMMA RpoCalled == ASSUME RpoQuiet, NEW r \in Key, RPO(r) PROVE RpoInv'
<1>1. RpoTypeOK'
  BY RpoTypeStep DEF RpoQuiet, RpoNext
<1> QED BY <1>1, RpoCall

LEMMA RpoStart == RpoInit => RpoInv
<1> SUFFICES ASSUME RpoInit PROVE RpoInv
  OBVIOUS
<1>1. RpoTypeOK /\ RpoColorsRestored /\ Len(found) = 0
  BY DEF RpoInit, AllWhite, RpoTypeOK, IsGraph, ColorT, RpoColorsRestored
<1>2. ColorsRight /\ RootFirst /\ RpoPassed
  BY <1>1 DEF RpoInit, AllWhite, ColorsRight, RootFirst, RpoPassed
<1> QED BY <1>1, <1>2 DEF RpoInv, FoundReachable, AroundLater, RpoNoRepeats

(* The invariant that all the results below are read off.                  *)
THEOREM RpoInvCorrect == RpoSpec => []RpoInv
<1>1. RpoInv /\ [RpoNext]_rpoVars => RpoInv'
  <2> SUFFICES ASSUME RpoInv, [RpoNext]_rpoVars PROVE RpoInv'
    OBVIOUS
  <2>1. ASSUME NEW r \in Key, RPO(r) PROVE RpoInv'
    <3>1. RpoQuiet
      BY <2>1 DEF RPO, RpoInv, RpoQuiet, RpoColorsRestored
    <3> QED BY <2>1, <3>1, RpoCalled
  <2> QED
    BY <2>1, RpoStepKeeps, RpoUnchanged DEF RpoNext
<1> QED
  BY <1>1, RpoStart, PTL DEF RpoSpec

-----------------------------------------------------------------------------

LEMMA InvRpoLists == RpoInv => RpoListsReachable
<1> SUFFICES ASSUME RpoInv, stage = "done", start \in live
             PROVE  RpoListed = Reach(succ, start)
  BY DEF RpoListsReachable
<1> USE DEF RpoInv
<1>1. head = Len(found) /\ look = {} /\ found # <<>> /\ found \in Seq(Node)
  BY DEF RpoPassed, RootFirst, RpoTypeOK
<1>2. RpoListed \subseteq Reach(succ, start)
  BY <1>1 DEF FoundReachable, RpoListed
<1>3. RpoListed \in SUBSET Node /\ start \in RpoListed
  BY <1>1 DEF RpoListed, RootFirst
<1>4. Closed(succ, RpoListed)
  <2> SUFFICES ASSUME NEW n \in RpoListed, NEW m \in succ[n]
               PROVE  m \in RpoListed
    BY DEF Closed
  <2>1. Found(m)
    BY <1>1 DEF RpoListed, RpoPassed
  <2> QED BY <1>1, <2>1 DEF RpoListed, Found
<1>5. Reach(succ, start) \subseteq RpoListed
  BY <1>3, <1>4, ReachLeast
<1> QED BY <1>2, <1>5

(* RPO returns exactly the nodes reachable from its root.                  *)
THEOREM RpoListsReachableCorrect == RpoSpec => []RpoListsReachable
  BY InvRpoLists, RpoInvCorrect, PTL

(* RPO lists no node twice.                                                *)
THEOREM RpoNoRepeatsCorrect == RpoSpec => []RpoNoRepeats
<1>1. RpoInv => RpoNoRepeats
  BY DEF RpoInv
<1> QED
  BY <1>1, RpoInvCorrect, PTL

(* RPO leaves every node WHITE.                                            *)
THEOREM RpoColorsRestoredCorrect == RpoSpec => []RpoColorsRestored
<1>1. RpoInv => RpoColorsRestored
  BY DEF RpoInv
<1> QED
  BY <1>1, RpoInvCorrect, PTL

LEMMA InvDominators == RpoInv => DominatorsFirst
<1> SUFFICES ASSUME RpoInv, NEW b \in 1 .. head, NEW a \in Node,
                    Dominates(succ, start, a, found[b]),
                    \A j \in 1 .. b : found[j] # a
             PROVE  FALSE
  BY DEF DominatorsFirst
<1>1. b \in 1 .. Len(found) /\ 1 \in 1 .. b /\ found # <<>>
  BY DEF RpoInv, RpoTypeOK
<1>2. found[b] \in Reach(Without(succ, a), start)
  BY <1>1 DEF RpoInv, AroundLater
<1>3. a # start
  BY <1>1 DEF RpoInv, RootFirst
<1> QED BY <1>2, <1>3 DEF Dominates

(* RPO lists every node after all the nodes that dominate it.              *)
THEOREM DominatorsFirstCorrect == RpoSpec => []DominatorsFirst
  BY InvDominators, RpoInvCorrect, PTL
=============================================================================
