------------------------ MODULE CheckEliminationProofs ------------------------
(***************************************************************************)
(* Check elimination loses no check and leaves none it could erase, in     *)
(* every program: for every set of checks, every control-flow graph and    *)
(* every order of its blocks that lists dominators first.                  *)
(***************************************************************************)
EXTENDS CheckElimination, ReachProofs, SequenceTheorems, FiniteSetTheorems

-----------------------------------------------------------------------------
(* DOMINANCE *)

(* A node that dominates a dominator of c dominates c: a walk without a    *)
(* cannot pass through b, so it is a walk without b.                       *)
LEMMA DominatesTransitive ==
  ASSUME NEW S \in [Node -> SUBSET Node], NEW r \in Node,
         NEW a \in Node, NEW b \in Node, NEW c \in Node,
         Dominates(S, r, a, b), Dominates(S, r, b, c)
  PROVE  Dominates(S, r, a, c)
<1> DEFINE A == Reach(Without(S, a), r)
           B == Reach(Without(S, b), r)
<1>1. c \in Reach(S, r)
  BY DEF Dominates
<1>2. CASE a = r
  BY <1>1, <1>2 DEF Dominates
<1>3. CASE a # r
  <2>1. b \notin A
    BY <1>3 DEF Dominates
  <2>2. /\ Without(S, a) \in [Node -> SUBSET Node]
        /\ Without(S, b) \in [Node -> SUBSET Node]
    BY WithoutType
  <2>3. r \in A /\ r \in B
    BY ReachRoot
  <2>4. c \notin B
    BY <2>1, <2>3 DEF Dominates
  <2>5. Closed(Without(S, a), A \cap B)
    <3>1. SUFFICES ASSUME NEW n \in A \cap B, NEW m \in Without(S, a)[n]
                   PROVE  m \in A /\ m \in B
      BY DEF Closed
    <3>2. n \in Node
      BY ReachInNode
    <3>3. m \in A
      BY <2>2, ReachStep
    <3>4. m # b /\ n # b
      BY <2>1, <3>3
    <3>5. m \in S[n]
      BY <3>2 DEF Without
    <3>6. m \in Without(S, b)[n]
      BY <3>2, <3>4, <3>5 DEF Without
    <3> HIDE DEF A, B
    <3>7. n \in B
      BY <3>1
    <3>8. m \in B
      BY <2>2, <3>6, <3>7, ReachStep DEF B
    <3> QED BY <3>3, <3>8
  <2>6. A \cap B \in SUBSET Node
    BY ReachInNode
  <2>7. A \subseteq A \cap B
    BY <2>3, <2>5, <2>6, ReachLeast
  <2> QED
    BY <1>1, <2>4, <2>7 DEF Dominates
<1> QED
  BY <1>2, <1>3

(* Two nodes do not dominate each other: a walk that avoids both would     *)
(* otherwise be all there is.                                              *)
LEMMA DominatesAntisymmetric ==
  ASSUME NEW S \in [Node -> SUBSET Node], NEW r \in Node,
         NEW a \in Node, NEW b \in Node,
         Dominates(S, r, a, b), Dominates(S, r, b, a)
  PROVE  a = b
<1> SUFFICES ASSUME a # b
             PROVE  FALSE
  OBVIOUS
<1> DEFINE A == Reach(Without(S, a), r)
           B == Reach(Without(S, b), r)
<1>1. r \in A /\ r \in B
  BY ReachRoot
<1>2. a # r /\ b # r
  BY <1>1 DEF Dominates
<1>3. b \notin A /\ a \notin B
  BY <1>2 DEF Dominates
<1>4. /\ Without(S, a) \in [Node -> SUBSET Node]
      /\ Without(S, b) \in [Node -> SUBSET Node]
  BY WithoutType
<1>5. Closed(S, A \cap B)
  <2>1. SUFFICES ASSUME NEW n \in A \cap B, NEW m \in S[n]
                 PROVE  m \in A /\ m \in B
    BY DEF Closed
  <2>2. n \in Node /\ m \in Node
    BY ReachInNode
  <2>3. n # a /\ n # b
    BY <1>3
  <2>4. m # a
    <3>1. SUFFICES ASSUME m = a PROVE FALSE
      OBVIOUS
    <3>2. m \in Without(S, b)[n]
      BY <2>2, <2>3, <3>1 DEF Without
    <3>3. m \in B
      BY <1>4, <3>2, ReachStep
    <3> QED BY <1>3, <3>1, <3>3
  <2>5. m # b
    <3>1. SUFFICES ASSUME m = b PROVE FALSE
      OBVIOUS
    <3>2. m \in Without(S, a)[n]
      BY <2>2, <2>3, <3>1 DEF Without
    <3>3. m \in A
      BY <1>4, <3>2, ReachStep
    <3> QED BY <1>3, <3>1, <3>3
  <2>6. m \in Without(S, a)[n] /\ m \in Without(S, b)[n]
    BY <2>2, <2>3, <2>4, <2>5 DEF Without
  <2>7. m \in A
    BY <1>4, <2>6, ReachStep
  <2>8. m \in B
    BY <1>4, <2>6, ReachStep
  <2> QED BY <2>7, <2>8
<1>6. Reach(S, r) \subseteq A \cap B
  <2>1. A \cap B \in SUBSET Node
    BY ReachInNode
  <2> QED BY <1>1, <1>5, <2>1, ReachLeast
<1> QED
  BY <1>3, <1>6 DEF Dominates

-----------------------------------------------------------------------------
(* THE INVARIANT *)

(* The graph and the order of its blocks.                                  *)
ProgramRight ==
  /\ header \in Node
  /\ succ \in [Node -> SUBSET Node]
  /\ bb \in [Check -> Node]
  /\ sig \in [Check -> Sig]
  /\ RpoSequence(succ, header, sequence)

(* The list holds the checks of reachable blocks that were not erased, in  *)
(* the order of the collecting loop.                                       *)
ListRight ==
  /\ checks \in Seq(Check)
  /\ \A i, j \in 1 .. Len(checks) : i < j => Before(checks[i], checks[j])
  /\ pc = "start" => instrs = Check /\ checks = <<>>
  /\ pc # "start" =>
       {checks[i] : i \in 1 .. Len(checks)} = instrs \cap Collected

(* No two checks before cur are left to be compared, and the current one   *)
(* was compared with all before prev.                                      *)
Compared ==
  /\ \A i, j \in 1 .. Len(checks) :
       i < j /\ (j < cur \/ (j = cur /\ i < prev)) =>
         ~dominativeCheckAnalysis(checks[i], checks[j])
  /\ pc = "start" => prev = 1 /\ cur = 2
  /\ pc = "done" => cur > Len(checks)

IInv == TypeOK /\ ProgramRight /\ ListRight /\ Compared /\ ErasedAreCovered

-----------------------------------------------------------------------------
(* THE ORDER OF THE CHECKS *)

(* Two checks of one block stand in the order of their numbers.            *)
LEMMA BeforeInBlock ==
  ASSUME ProgramRight, NEW c \in Check, NEW d \in Check,
         Before(c, d), bb[c] = bb[d]
  PROVE  c < d
  BY DEF ProgramRight, RpoSequence, Before

(* No check is before itself.                                              *)
LEMMA BeforeIrreflexive ==
  ASSUME ProgramRight, NEW c \in Check, Before(c, c)
  PROVE  FALSE
<1>1. c < c
  BY BeforeInBlock
<1> QED
  BY <1>1, CheckAssumption

(* A check is not covered by a later one.                                  *)
LEMMA CoveredByEarlier ==
  ASSUME ProgramRight, NEW p \in Check, NEW c \in Check,
         Covers(p, c), Before(c, p)
  PROVE  FALSE
<1>1. CASE bb[p] = bb[c]
  <2>1. p < c
    BY <1>1 DEF Covers
  <2>2. c < p
    BY <1>1, BeforeInBlock
  <2> QED BY <2>1, <2>2, CheckAssumption
<1>2. CASE bb[p] # bb[c]
  <2>1. Dominates(succ, header, bb[p], bb[c])
    BY <1>2 DEF Covers
  <2>2. PICK i, j \in 1 .. Len(sequence) :
          i < j /\ sequence[i] = bb[c] /\ sequence[j] = bb[p]
    BY <1>2 DEF Before
  <2>3. bb[p] \in Node
    BY DEF ProgramRight
  <2>4. Len(sequence) \in Nat
    BY DEF ProgramRight, RpoSequence
  <2>5. PICK k \in 1 .. i : sequence[k] = bb[p]
    BY <2>1, <2>2, <2>3 DEF ProgramRight, RpoSequence
  <2>6. k \in 1 .. Len(sequence)
    BY <2>4
  <2>7. k = j
    BY <2>2, <2>5, <2>6 DEF ProgramRight, RpoSequence
  <2> QED BY <2>2, <2>4, <2>7
<1> QED
  BY <1>1, <1>2

(* An earlier check that the analysis matches covers.                      *)
LEMMA AnalysisCovers ==
  ASSUME ProgramRight, NEW p \in Check, NEW c \in Check,
         Before(p, c), dominativeCheckAnalysis(p, c)
  PROVE  Covers(p, c)
  BY BeforeInBlock DEF dominativeCheckAnalysis, Covers

(* Covering is transitive: what covers a check that covers another may     *)
(* take its place.                                                         *)
LEMMA CoversTransitive ==
  ASSUME ProgramRight, NEW p \in Check, NEW c \in Check, NEW d \in Check,
         Covers(p, c), Covers(c, d)
  PROVE  Covers(p, d)
<1>1. /\ bb[p] \in Node /\ bb[c] \in Node /\ bb[d] \in Node
      /\ header \in Node /\ succ \in [Node -> SUBSET Node]
  BY DEF ProgramRight
<1>2. sig[p] = sig[d]
  BY DEF Covers
<1>3. CASE bb[p] = bb[c] /\ bb[c] = bb[d]
  <2>1. p < c /\ c < d
    BY <1>3 DEF Covers
  <2>2. p < d
    BY <2>1, CheckAssumption
  <2> QED BY <1>2, <1>3, <2>2 DEF Covers
<1>4. CASE bb[p] = bb[c] /\ bb[c] # bb[d]
  BY <1>2, <1>4 DEF Covers
<1>5. CASE bb[p] # bb[c] /\ bb[c] = bb[d]
  BY <1>2, <1>5 DEF Covers
<1>6. CASE bb[p] # bb[c] /\ bb[c] # bb[d]
  <2>1. /\ Dominates(succ, header, bb[p], bb[c])
        /\ Dominates(succ, header, bb[c], bb[d])
    BY <1>6 DEF Covers
  <2>2. bb[p] # bb[d]
    BY <1>1, <1>6, <2>1, DominatesAntisymmetric
  <2>3. Dominates(succ, header, bb[p], bb[d])
    BY <1>1, <2>1, DominatesTransitive
  <2> QED BY <1>2, <2>2, <2>3 DEF Covers
<1> QED
  BY <1>3, <1>4, <1>5, <1>6

(* What list::erase leaves.                                                *)
LEMMA EraseAt ==
  ASSUME NEW T, NEW s \in Seq(T), NEW k \in 1 .. Len(s),
         NEW t, t = SubSeq(s, 1, k - 1) \o SubSeq(s, k + 1, Len(s))
  PROVE  /\ t \in Seq(T)
         /\ Len(t) = Len(s) - 1
         /\ \A i \in 1 .. Len(s) - 1 :
              t[i] = IF i < k THEN s[i] ELSE s[i + 1]
<1> DEFINE u == SubSeq(s, 1, k - 1)
           v == SubSeq(s, k + 1, Len(s))
<1>1. u \in Seq(T) /\ Len(u) = k - 1 /\ \A i \in 1 .. k - 1 : u[i] = s[i]
  OBVIOUS
<1>2. /\ v \in Seq(T) /\ Len(v) = Len(s) - k
      /\ \A i \in 1 .. Len(s) - k : v[i] = s[i + k]
  OBVIOUS
<1> HIDE DEF u, v
<1>3. t = u \o v
  BY DEF u, v
<1>4. /\ u \o v \in Seq(T)
      /\ Len(u \o v) = Len(u) + Len(v)
      /\ \A i \in 1 .. Len(u) + Len(v) :
           (u \o v)[i] = IF i <= Len(u) THEN u[i] ELSE v[i - Len(u)]
  BY <1>1, <1>2, ConcatProperties
<1>5. Len(u) + Len(v) = Len(s) - 1
  BY <1>1, <1>2
<1>6. \A i \in 1 .. Len(s) - 1 :
        t[i] = IF i <= k - 1 THEN u[i] ELSE v[i - (k - 1)]
  <2>1. \A i \in 1 .. Len(s) - 1 :
          t[i] = IF i <= Len(u) THEN u[i] ELSE v[i - Len(u)]
    BY <1>3, <1>4, <1>5, Zenon
  <2> QED BY <2>1, <1>1, Zenon
<1>7. ASSUME NEW i \in 1 .. Len(s) - 1
      PROVE  t[i] = IF i < k THEN s[i] ELSE s[i + 1]
  <2>1. CASE i < k
    <3>1. i <= k - 1 /\ i \in 1 .. k - 1
      BY <2>1
    <3>2. t[i] = u[i]
      BY <1>6, <3>1, Zenon
    <3> QED BY <1>1, <2>1, <3>1, <3>2, Zenon
  <2>2. CASE ~(i < k)
    <3>1. ~(i <= k - 1) /\ i - (k - 1) \in 1 .. Len(s) - k
      BY <2>2
    <3>2. t[i] = v[i - (k - 1)]
      BY <1>6, <3>1, Zenon
    <3>3. v[i - (k - 1)] = s[i - (k - 1) + k]
      BY <1>2, <3>1, Zenon
    <3>4. i - (k - 1) + k = i + 1
      OBVIOUS
    <3> QED BY <2>2, <3>2, <3>3, <3>4, Zenon
  <2> QED BY <2>1, <2>2
<1>8. t \in Seq(T) /\ Len(t) = Len(s) - 1
  BY <1>3, <1>4, <1>5
<1> QED
  BY <1>7, <1>8


-----------------------------------------------------------------------------
(* THE STEPS *)

LEMMA InitRight == Init => IInv
<1> SUFFICES ASSUME Init
             PROVE  IInv
  OBVIOUS
<1>1. PICK g \in Graphs :
        succ = g.succ /\ header = g.header /\ sequence = g.rpo
  BY DEF Init
<1>2. ProgramRight
  BY <1>1, GraphsAssumption DEF Init, ProgramRight
<1>3. checks = <<>> /\ Len(checks) = 0 /\ checks \in Seq(Check)
  BY DEF Init
<1>4. TypeOK
  BY <1>2, <1>3 DEF Init, TypeOK, ProgramRight, RpoSequence
<1>5. ListRight
  BY <1>3 DEF Init, ListRight
<1>6. Compared
  BY <1>3 DEF Init, Compared
<1>7. ErasedAreCovered
  BY DEF Init, ErasedAreCovered
<1> QED
  BY <1>2, <1>4, <1>5, <1>6, <1>7 DEF IInv

(* The program is not changed, so what is said of it alone stays true.     *)
LEMMA ProgramStep ==
  ASSUME ProgramRight, UNCHANGED program
  PROVE  /\ ProgramRight'
         /\ Collected' = Collected
         /\ \A c, d : Before(c, d)' <=> Before(c, d)
         /\ \A c, d : Covers(c, d)' <=> Covers(c, d)
         /\ \A c, d : dominativeCheckAnalysis(c, d)' <=>
                        dominativeCheckAnalysis(c, d)
  BY DEF program, ProgramRight, Collected, Before, Covers,
         dominativeCheckAnalysis

LEMMA CollectStep == IInv /\ Collect => IInv'
<1> SUFFICES ASSUME IInv, Collect
             PROVE  IInv'
  OBVIOUS
<1> DEFINE n == Cardinality(Collected)
<1>1. n \in Nat
  <2>1. IsFiniteSet(Collected)
    BY CheckAssumption, FS_Subset DEF Collected
  <2> QED BY <2>1, FS_CardinalityType
<1>2. PICK list \in [1 .. n -> Collected] :
        /\ {list[i] : i \in DOMAIN list} = Collected
        /\ \A i, j \in DOMAIN list : i < j => Before(list[i], list[j])
        /\ checks' = list
  BY DEF Collect
<1> HIDE DEF n
<1>3. /\ pc = "start" /\ pc' = "scan" /\ UNCHANGED program
      /\ instrs' = instrs /\ prev' = prev /\ cur' = cur
  BY DEF Collect
<1>4. list \in Seq(Check) /\ Len(list) = n /\ DOMAIN list = 1 .. n
  BY <1>1, <1>2 DEF Collected
<1>5. ProgramRight'
  BY <1>3, ProgramStep DEF IInv
<1>6. instrs = Check /\ prev = 1 /\ cur = 2
  BY <1>3 DEF IInv, ListRight, Compared
<1>7. checks' \in Seq(Check) /\ Len(checks') = n
  BY <1>2, <1>4
<1>8. TypeOK'
  BY <1>3, <1>7 DEF IInv, TypeOK, program
<1>9. ListRight'
  <2>1. \A i, j \in 1 .. n : i < j => Before(checks'[i], checks'[j])
    BY <1>2, <1>4
  <2>2. {checks'[i] : i \in 1 .. n} = Collected'
    BY <1>2, <1>3, <1>4, ProgramStep DEF IInv
  <2>3. \A i, j \in 1 .. n : i < j => Before(checks[i], checks[j])'
    BY <2>1, <1>3 DEF Before, program
  <2>4. \A i, j \in 1 .. Len(checks') :
           i < j => Before(checks[i], checks[j])'
    BY <2>3, <1>7
  <2>5. instrs' \cap Collected' = Collected'
    BY <1>3, <1>6 DEF Collected
  <2>6. pc' # "start"
    BY <1>3
  <2>7. {checks'[i] : i \in 1 .. Len(checks')} = instrs' \cap Collected'
    BY <2>2, <2>5, <1>7
  <2> QED
    BY <1>7, <2>4, <2>6, <2>7 DEF ListRight
<1>10. Compared'
  BY <1>1, <1>3, <1>6, <1>7 DEF Compared
<1>11. ErasedAreCovered'
  BY <1>3, <1>6 DEF ErasedAreCovered
<1> QED
  BY <1>5, <1>8, <1>9, <1>10, <1>11 DEF IInv

LEMMA EraseStep == IInv /\ Erase => IInv'
<1> SUFFICES ASSUME IInv, Erase
             PROVE  IInv'
  OBVIOUS
<1> DEFINE p == checks[prev]
           c == checks[cur]
           n == Len(checks)
<1>1. /\ pc = "scan" /\ cur <= n
      /\ dominativeCheckAnalysis(p, c)
      /\ instrs' = instrs \ {c}
      /\ checks' = SubSeq(checks, 1, cur - 1) \o SubSeq(checks, cur + 1, n)
      /\ prev' = 1
      /\ UNCHANGED program /\ cur' = cur /\ pc' = pc
  BY DEF Erase, RemoveAt
<1>2. checks \in Seq(Check) /\ n \in Nat /\ cur \in 1 .. n /\ prev \in 1 .. n
      /\ prev < cur /\ cur > 1 /\ cur \in Nat
  BY <1>1 DEF IInv, TypeOK
<1>3. /\ checks' \in Seq(Check)
      /\ Len(checks') = n - 1
      /\ \A i \in 1 .. n - 1 :
           checks'[i] = IF i < cur THEN checks[i] ELSE checks[i + 1]
  <2>1. \A t : t = SubSeq(checks, 1, cur - 1) \o SubSeq(checks, cur + 1, n) =>
               /\ t \in Seq(Check)
               /\ Len(t) = n - 1
               /\ \A i \in 1 .. n - 1 :
                    t[i] = IF i < cur THEN checks[i] ELSE checks[i + 1]
    BY <1>2, EraseAt, Zenon
  <2>2. checks' = SubSeq(checks, 1, cur - 1) \o SubSeq(checks, cur + 1, n)
    BY <1>1
  <2> HIDE DEF n
  <2> QED BY <2>1, <2>2
<1>4. p \in Check /\ c \in Check
  BY <1>2
<1>5. ProgramRight
  BY DEF IInv
<1>6. \A i, j \in 1 .. n : i < j => Before(checks[i], checks[j])
  BY DEF IInv, ListRight
<1>7. \A i \in 1 .. n : checks[i] = c => i = cur
  <2>1. SUFFICES ASSUME NEW i \in 1 .. n, checks[i] = c, i # cur
                 PROVE  FALSE
    OBVIOUS
  <2>2. Before(c, c)
    <3>1. CASE i < cur
      BY <1>2, <1>6, <2>1, <3>1
    <3>2. CASE cur < i
      BY <1>2, <1>6, <2>1, <3>2
    <3> QED BY <1>2, <2>1, <3>1, <3>2
  <2> QED BY <1>4, <1>5, <2>2, BeforeIrreflexive
<1>8. Before(p, c)
  BY <1>2, <1>6
<1>9. Covers(p, c)
  BY <1>1, <1>4, <1>5, <1>8, AnalysisCovers
<1>10. p # c
  BY <1>2, <1>7
<1>11. {checks[i] : i \in 1 .. n} = instrs \cap Collected
  BY <1>1 DEF IInv, ListRight
<1> HIDE DEF p, c, n
<1>12. ProgramRight'
  BY <1>1, <1>5, ProgramStep
<1>13. TypeOK'
  BY <1>1, <1>2, <1>3 DEF IInv, TypeOK, program
<1>14. ListRight'
  <2>1. ASSUME NEW i \in 1 .. n - 1, NEW j \in 1 .. n - 1, i < j
        PROVE  Before(checks'[i], checks'[j])
    <3>1. PICK k, l \in 1 .. n :
            k < l /\ checks'[i] = checks[k] /\ checks'[j] = checks[l]
      <4>1. CASE j < cur
        BY <1>2, <1>3, <2>1, <4>1
      <4>2. CASE i < cur /\ ~(j < cur)
        <5>1. i < j + 1 /\ j + 1 \in 1 .. n /\ i \in 1 .. n
          BY <1>2, <2>1
        <5> QED BY <1>3, <2>1, <4>2, <5>1
      <4>3. CASE ~(i < cur) /\ ~(j < cur)
        <5>1. i + 1 < j + 1 /\ j + 1 \in 1 .. n /\ i + 1 \in 1 .. n
          BY <1>2, <2>1
        <5> QED BY <1>3, <2>1, <4>3, <5>1
      <4> QED BY <1>2, <2>1, <4>1, <4>2, <4>3
    <3>2. Before(checks[k], checks[l])
      BY <1>6, <3>1
    <3> QED BY <3>1, <3>2
  <2>2. {checks'[i] : i \in 1 .. n - 1} = {checks[i] : i \in 1 .. n} \ {c}
    <3>1. ASSUME NEW i \in 1 .. n - 1
          PROVE  checks'[i] \in {checks[k] : k \in 1 .. n} \ {c}
      <4>1. PICK k \in 1 .. n : k # cur /\ checks'[i] = checks[k]
        <5>1. CASE i < cur
          BY <1>2, <1>3, <5>1
        <5>2. CASE ~(i < cur)
          <6>1. i + 1 \in 1 .. n /\ i + 1 # cur
            BY <1>2, <5>2
          <6> QED BY <1>3, <5>2, <6>1
        <5> QED BY <5>1, <5>2
      <4> QED BY <1>7, <4>1
    <3>2. ASSUME NEW k \in 1 .. n, checks[k] # c
          PROVE  checks[k] \in {checks'[i] : i \in 1 .. n - 1}
      <4>1. k # cur
        BY <3>2 DEF c
      <4>2. CASE k < cur
        <5>1. k \in 1 .. n - 1
          BY <1>2, <4>2
        <5>2. checks'[k] = checks[k]
          BY <1>3, <4>2, <5>1
        <5> QED BY <5>1, <5>2
      <4>3. CASE k > cur
        <5>1. k - 1 \in 1 .. n - 1 /\ ~(k - 1 < cur) /\ k - 1 + 1 = k
          BY <1>2, <4>3
        <5>2. checks'[k - 1] = checks[k]
          BY <1>3, <5>1
        <5> QED BY <5>1, <5>2
      <4> QED BY <1>2, <4>1, <4>2, <4>3
    <3> QED BY <3>1, <3>2
  <2>3. {checks'[i] : i \in 1 .. n - 1} = instrs' \cap Collected'
    BY <1>1, <1>5, <1>11, <2>2, ProgramStep
  <2> QED
    <3>1. \A i, j \in 1 .. Len(checks') :
            i < j => Before(checks'[i], checks'[j])
      BY <1>3, <2>1
    <3>2. {checks'[i] : i \in 1 .. Len(checks')} = instrs' \cap Collected'
      BY <1>3, <2>3, Zenon
    <3>3. checks' \in Seq(Check) /\ pc' = "scan"
      BY <1>1, <1>3
    <3>4. ASSUME NEW i, NEW j, Before(checks'[i], checks'[j])
          PROVE  (Before(checks[i], checks[j]))'
      BY <1>1, <3>4 DEF Before, program
    <3>5. (\A i, j \in 1 .. Len(checks) :
             i < j => Before(checks[i], checks[j]))'
      BY <3>1, <3>4, Zenon
    <3> QED BY <3>2, <3>3, <3>5 DEF ListRight
<1>15. Compared'
  <2>1. ASSUME NEW i \in 1 .. n - 1, NEW j \in 1 .. n - 1, i < j, j < cur
        PROVE  ~dominativeCheckAnalysis(checks'[i], checks'[j])
    <3>1. i \in 1 .. n /\ j \in 1 .. n /\ i < cur
      BY <1>2, <2>1
    <3>2. checks'[i] = checks[i] /\ checks'[j] = checks[j]
      BY <1>3, <2>1, <3>1
    <3>3. ~dominativeCheckAnalysis(checks[i], checks[j])
      BY <2>1, <3>1 DEF IInv, Compared, n
    <3> QED BY <3>2, <3>3
  <2>2. ASSUME NEW i \in 1 .. n - 1, i < prev'
        PROVE  FALSE
    BY <1>1, <2>2
  <2>3. pc' = "scan"
    BY <1>1
  <2> QED
    <3>1. ASSUME NEW i \in 1 .. Len(checks'), NEW j \in 1 .. Len(checks'),
                 i < j, j < cur' \/ (j = cur' /\ i < prev')
          PROVE  ~(dominativeCheckAnalysis(checks[i], checks[j]))'
      <4>1. i \in 1 .. n - 1 /\ j \in 1 .. n - 1 /\ j < cur
        BY <1>1, <1>3, <2>2, <3>1
      <4>2. ~dominativeCheckAnalysis(checks'[i], checks'[j])
        BY <2>1, <3>1, <4>1
      <4> QED BY <1>1, <4>2 DEF dominativeCheckAnalysis, program
    <3> QED BY <2>3, <3>1 DEF Compared
<1>16. ErasedAreCovered'
  <2>1. p \in instrs' /\ c \in instrs
    BY <1>1, <1>2, <1>10, <1>11 DEF p, c
  <2>2. ASSUME NEW d \in Check, d \notin instrs'
        PROVE  \E q \in instrs' : Covers(q, d)
    <3>1. CASE d = c
      BY <1>9, <2>1, <3>1
    <3>2. CASE d # c
      <4>1. d \notin instrs
        BY <1>1, <2>2, <3>2
      <4>2. PICK q \in instrs : Covers(q, d)
        BY <4>1 DEF IInv, ErasedAreCovered
      <4>3. CASE q # c
        BY <1>1, <4>2, <4>3
      <4>4. CASE q = c
        <5>1. Covers(p, d)
          BY <1>4, <1>5, <1>9, <4>2, <4>4, CoversTransitive
        <5> QED BY <2>1, <5>1
      <4> QED BY <4>3, <4>4
    <3> QED BY <3>1, <3>2
  <2>3. \A q, d : Covers(q, d)' <=> Covers(q, d)
    BY <1>1, <1>5, ProgramStep
  <2> QED
    BY <2>2, <2>3 DEF ErasedAreCovered
<1> QED
  BY <1>12, <1>13, <1>14, <1>15, <1>16 DEF IInv


LEMMA AdvanceStep == IInv /\ Advance => IInv'
<1> SUFFICES ASSUME IInv, Advance
             PROVE  IInv'
  OBVIOUS
<1>1. /\ pc = "scan" /\ cur <= Len(checks)
      /\ ~dominativeCheckAnalysis(checks[prev], checks[cur])
      /\ \/ prev + 1 = cur /\ prev' = 1 /\ cur' = cur + 1
         \/ prev + 1 # cur /\ prev' = prev + 1 /\ cur' = cur
      /\ UNCHANGED program
      /\ instrs' = instrs /\ checks' = checks /\ pc' = pc
  BY DEF Advance
<1>2. prev \in Nat \ {0} /\ cur \in Nat \ {0} /\ prev < cur
  BY DEF IInv, TypeOK
<1>3. ProgramRight'
  BY <1>1, ProgramStep DEF IInv
<1>4. TypeOK'
  BY <1>1, <1>2 DEF IInv, TypeOK, program
<1>5. ListRight'
  BY <1>1 DEF IInv, ListRight, Before, Collected, program
<1>6. Compared'
  <2>1. ASSUME NEW i \in 1 .. Len(checks), NEW j \in 1 .. Len(checks),
               i < j, j < cur' \/ (j = cur' /\ i < prev')
        PROVE  ~dominativeCheckAnalysis(checks[i], checks[j])
    <3>1. CASE i = prev /\ j = cur
      BY <1>1, <3>1
    <3>2. CASE ~(i = prev /\ j = cur)
      <4>1. j < cur \/ (j = cur /\ i < prev)
        BY <1>1, <1>2, <2>1, <3>2
      <4> QED BY <2>1, <4>1 DEF IInv, Compared
    <3> QED BY <3>1, <3>2
  <2>2. ASSUME NEW i \in 1 .. Len(checks'), NEW j \in 1 .. Len(checks'),
               i < j, j < cur' \/ (j = cur' /\ i < prev')
        PROVE  ~(dominativeCheckAnalysis(checks[i], checks[j]))'
    <3>1. ~dominativeCheckAnalysis(checks[i], checks[j])
      BY <1>1, <2>1, <2>2
    <3> QED BY <1>1, <3>1 DEF dominativeCheckAnalysis, program
  <2>3. pc' = "scan"
    BY <1>1
  <2> QED BY <2>2, <2>3 DEF Compared
<1>7. ErasedAreCovered'
  BY <1>1 DEF IInv, ErasedAreCovered, Covers, program
<1> QED
  BY <1>3, <1>4, <1>5, <1>6, <1>7 DEF IInv

LEMMA ReturnStep == IInv /\ Return => IInv'
<1> SUFFICES ASSUME IInv, Return
             PROVE  IInv'
  OBVIOUS
<1>1. /\ pc = "scan" /\ cur > Len(checks) /\ pc' = "done"
      /\ UNCHANGED program
      /\ instrs' = instrs /\ checks' = checks /\ prev' = prev /\ cur' = cur
  BY DEF Return
<1>2. ProgramRight'
  BY <1>1, ProgramStep DEF IInv
<1>3. TypeOK'
  BY <1>1 DEF IInv, TypeOK, program
<1>4. ListRight'
  BY <1>1 DEF IInv, ListRight, Before, Collected, program
<1>5. Compared'
  BY <1>1 DEF IInv, Compared, dominativeCheckAnalysis, program
<1>6. ErasedAreCovered'
  BY <1>1 DEF IInv, ErasedAreCovered, Covers, program
<1> QED
  BY <1>2, <1>3, <1>4, <1>5, <1>6 DEF IInv

LEMMA StutterStep == IInv /\ UNCHANGED passVars => IInv'
  BY DEF IInv, TypeOK, ProgramRight, ListRight, Compared, ErasedAreCovered,
         Before, Collected, Covers, dominativeCheckAnalysis,
         passVars, program

-----------------------------------------------------------------------------
(* THE THEOREMS *)

(* The inductive invariant of doCheckElimination.                          *)
THEOREM InvCorrect == Spec => []IInv
<1>1. IInv /\ [Next]_passVars => IInv'
  BY CollectStep, EraseStep, AdvanceStep, ReturnStep, StutterStep DEF Next
<1> QED
  BY InitRight, <1>1, PTL DEF Spec

(* Type correctness; prevCheckIt always stands before currentCheckIt.      *)
THEOREM TypeCorrect == Spec => []TypeOK
<1>1. IInv => TypeOK
  BY DEF IInv
<1> QED
  BY InvCorrect, <1>1, PTL

(* The pass loses no check, in any program.                                *)
THEOREM ErasedAreCoveredCorrect == Spec => []ErasedAreCovered
<1>1. IInv => ErasedAreCovered
  BY DEF IInv
<1> QED
  BY InvCorrect, <1>1, PTL

(* The pass erases every check it could, in any program.                   *)
THEOREM NothingLeftToEraseCorrect == Spec => []NothingLeftToErase
<1>1. IInv => NothingLeftToErase
  <2>1. SUFFICES ASSUME IInv, pc = "done",
                        NEW p \in instrs \cap Collected,
                        NEW c \in instrs \cap Collected,
                        p # c, Covers(p, c)
                 PROVE  FALSE
    BY DEF NothingLeftToErase
  <2>2. p \in Check /\ c \in Check
    BY <2>1 DEF Collected
  <2>3. PICK i \in 1 .. Len(checks) : checks[i] = p
    BY <2>1 DEF IInv, ListRight
  <2>4. PICK j \in 1 .. Len(checks) : checks[j] = c
    BY <2>1 DEF IInv, ListRight
  <2>5. Len(checks) \in Nat /\ cur \in Nat /\ cur > Len(checks)
    BY <2>1 DEF IInv, TypeOK, Compared
  <2>6. CASE i < j
    <3>1. j < cur
      BY <2>5
    <3>2. ~dominativeCheckAnalysis(p, c)
      BY <2>1, <2>3, <2>4, <2>6, <3>1 DEF IInv, Compared
    <3> QED BY <2>1, <3>2 DEF Covers, dominativeCheckAnalysis
  <2>7. CASE j < i
    <3>1. Before(c, p)
      BY <2>1, <2>3, <2>4, <2>7 DEF IInv, ListRight
    <3> QED BY <2>1, <2>2, <3>1, CoveredByEarlier DEF IInv
  <2> QED
    BY <2>1, <2>3, <2>4, <2>5, <2>6, <2>7
<1> QED
  BY InvCorrect, <1>1, PTL
=============================================================================
