----------------------------- MODULE ReachProofs -----------------------------
(***************************************************************************)
(* Facts about reachability that the proofs of the searches use, and the   *)
(* agreement of its two notions: closed sets, which proofs use, and paths. *)
(***************************************************************************)
EXTENDS Reach, Sequences, SequenceTheorems, FiniteSetTheorems, TLAPS

LEMMA ReachInNode == ASSUME NEW S, NEW r
                     PROVE  Reach(S, r) \subseteq Node
  BY DEF Reach

(* The root is reachable.                                                  *)
LEMMA ReachRoot == ASSUME NEW S, NEW r \in Node
                   PROVE  r \in Reach(S, r)
  BY DEF Reach

(* A successor of a reachable node is reachable.                           *)
LEMMA ReachStep ==
  ASSUME NEW S \in [Node -> SUBSET Node], NEW r \in Node,
         NEW n \in Reach(S, r), NEW m \in S[n]
  PROVE  m \in Reach(S, r)
<1>1. n \in Node /\ m \in Node
  BY DEF Reach
<1>2. SUFFICES ASSUME NEW C \in SUBSET Node, r \in C, Closed(S, C)
               PROVE  m \in C
  BY <1>1 DEF Reach
<1>3. n \in C
  BY <1>2 DEF Reach
<1> QED
  BY <1>2, <1>3 DEF Closed

(* Nothing outside a closed set that holds the root is reachable.          *)
LEMMA ReachLeast ==
  ASSUME NEW S, NEW r, NEW C \in SUBSET Node, r \in C, Closed(S, C)
  PROVE  Reach(S, r) \subseteq C
  BY DEF Reach

(* What a reachable node reaches is reachable.                             *)
LEMMA ReachTrans ==
  ASSUME NEW S, NEW a, NEW b \in Reach(S, a)
  PROVE  Reach(S, b) \subseteq Reach(S, a)
  BY DEF Reach

(* With fewer successors nothing more is reachable.                        *)
LEMMA ReachMonotone ==
  ASSUME NEW S, NEW T, \A n \in Node : T[n] \subseteq S[n], NEW r
  PROVE  Reach(T, r) \subseteq Reach(S, r)
<1>1. \A C \in SUBSET Node : Closed(S, C) => Closed(T, C)
  BY DEF Closed
<1> QED BY <1>1 DEF Reach

LEMMA WithoutType ==
  ASSUME NEW S \in [Node -> SUBSET Node], NEW a
  PROVE  Without(S, a) \in [Node -> SUBSET Node]
  BY DEF Without

LEMMA PrefixFacts ==
  ASSUME NEW s \in Seq(Node), NEW n \in 0 .. Len(s)
  PROVE  /\ SubSeq(s, 1, n) \in Seq(Node)
         /\ Len(SubSeq(s, 1, n)) = n
         /\ \A i \in 1 .. n : SubSeq(s, 1, n)[i] = s[i]
<1>1. n \in Int /\ 1 \in Int /\ \A i \in 1 .. n : s[i] \in Node
  OBVIOUS
<1>2. /\ SubSeq(s, 1, n) \in Seq(Node)
      /\ Len(SubSeq(s, 1, n)) = IF 1 <= n THEN n - 1 + 1 ELSE 0
      /\ \A i \in 1 .. n - 1 + 1 : SubSeq(s, 1, n)[i] = s[1 + i - 1]
  BY <1>1, SubSeqProperties
<1> QED BY <1>2

-----------------------------------------------------------------------------
(* Induction on the natural numbers, as the existence of a least element.  *)

LEMMA LessThanIsWellFounded ==
  \E R : /\ IsWellFoundedOn(R, Nat)
         /\ \A x, y \in Nat : x < y => <<x, y>> \in R
<1>1. IsWellFoundedOn(OpToRel(<, Nat), Nat)
  BY NatLessThanWellFounded
<1>2. \A x, y \in Nat : x < y => <<x, y>> \in OpToRel(<, Nat)
  BY DEF OpToRel
<1> QED BY <1>1, <1>2, Zenon

LEMMA LeastElement == ASSUME NEW T \in SUBSET Nat, T # {}
                      PROVE  \E x \in T : \A y \in T : x <= y
<1>1. PICK R : /\ IsWellFoundedOn(R, Nat)
               /\ \A x, y \in Nat : x < y => <<x, y>> \in R
  BY LessThanIsWellFounded
<1>2. T \subseteq Nat /\ IsWellFoundedOn(R, Nat)
  BY <1>1
<1>3. \E x \in T : \A y \in T : ~(<<y, x>> \in R)
  BY <1>2, WFMin, Zenon
<1>4. PICK x \in T : \A y \in T : ~(<<y, x>> \in R)
  BY <1>3
<1>5. \A y \in T : x \in Nat /\ y \in Nat /\ ~(y < x)
  BY <1>1, <1>4
<1> QED BY <1>5

-----------------------------------------------------------------------------
(* Walks: paths that may come back to a node.                              *)

IsWalk(p, k, L, S, r, b) ==
  /\ p \in [1 .. k -> L] /\ p[1] = r /\ p[k] = b
  /\ \A i \in 1 .. k - 1 : p[i + 1] \in S[p[i]]

(* What a walk leads to is reachable.                                      *)
LEMMA WalkReach ==
  ASSUME NEW S \in [Node -> SUBSET Node], NEW L \in SUBSET Node, NEW r \in L,
         NEW b, NEW k \in Nat \ {0}, NEW p, IsWalk(p, k, L, S, r, b)
  PROVE  b \in Reach(S, r)
<1> DEFINE U == {i \in 1 .. k : p[i] \notin Reach(S, r)}
<1>1. SUFFICES ASSUME U # {} PROVE FALSE
  BY DEF IsWalk
<1>2. U \in SUBSET Nat
  OBVIOUS
<1>3. PICK m \in U : \A i \in U : m <= i
  BY <1>1, <1>2, LeastElement
<1>4. m # 1
  BY ReachRoot DEF IsWalk
<1>5. m - 1 \in 1 .. k - 1 /\ m - 1 \in 1 .. k /\ ~(m <= m - 1)
  BY <1>4
<1>6. p[m - 1] \in Reach(S, r)
  BY <1>3, <1>5
<1>7. p[(m - 1) + 1] \in S[p[m - 1]] /\ (m - 1) + 1 = m
  BY <1>5 DEF IsWalk
<1>8. p[m] \in Reach(S, r)
  BY <1>6, <1>7, ReachStep
<1> QED BY <1>8

(* What is reachable can be walked to.                                     *)
LEMMA ReachWalk ==
  ASSUME NEW L, NEW S, IsGraph(L, S), NEW r \in L, NEW b \in Reach(S, r)
  PROVE  \E k \in Nat \ {0} : \E p : IsWalk(p, k, L, S, r, b)
<1> DEFINE C == {n \in L : \E k \in Nat \ {0} : \E p : IsWalk(p, k, L, S, r, n)}
<1>1. C \in SUBSET Node /\ S \in [Node -> SUBSET L] /\ L \in SUBSET Node
  BY DEF IsGraph
<1>2. r \in C
  <2> DEFINE p == [i \in 1 .. 1 |-> r]
  <2>1. IsWalk(p, 1, L, S, r, r)
    BY DEF IsWalk
  <2> QED BY <2>1
<1>3. Closed(S, C)
  <2> SUFFICES ASSUME NEW n \in C, NEW m \in S[n] PROVE m \in C
    BY DEF Closed
  <2>0. PICK k \in Nat \ {0} : \E p : IsWalk(p, k, L, S, r, n)
    OBVIOUS
  <2>1. PICK p : IsWalk(p, k, L, S, r, n)
    BY <2>0
  <2> DEFINE q == [i \in 1 .. k + 1 |-> IF i = k + 1 THEN m ELSE p[i]]
  <2>2. m \in L
    BY <1>1
  <2>3. q \in [1 .. k + 1 -> L] /\ q[1] = r /\ q[k + 1] = m
    BY <2>1, <2>2 DEF IsWalk
  <2>4. ASSUME NEW i \in 1 .. (k + 1) - 1 PROVE q[i + 1] \in S[q[i]]
    <3>1. CASE i = k
      BY <2>1, <3>1 DEF IsWalk
    <3>2. CASE i # k
      <4>1. i \in 1 .. k - 1 /\ q[i] = p[i] /\ q[i + 1] = p[i + 1]
        BY <3>2
      <4> QED BY <2>1, <4>1 DEF IsWalk
    <3> QED BY <3>1, <3>2
  <2> HIDE DEF q
  <2>5. IsWalk(q, k + 1, L, S, r, m)
    BY <2>3, <2>4 DEF IsWalk
  <2>6. k + 1 \in Nat \ {0}
    OBVIOUS
  <2> QED BY <2>2, <2>5, <2>6
<1>4. b \in C
  BY <1>1, <1>2, <1>3, ReachLeast
<1> QED BY <1>4

(* A shortest walk is a path.                                              *)
LEMMA WalkPath ==
  ASSUME NEW L, IsFiniteSet(L), NEW S, NEW r \in L, NEW b,
         \E k \in Nat \ {0} : \E p : IsWalk(p, k, L, S, r, b)
  PROVE  \E p \in Paths(L, S, r, b) : TRUE
<1> DEFINE K == {k \in Nat \ {0} : \E p : IsWalk(p, k, L, S, r, b)}
<1>1. K \in SUBSET Nat /\ K # {}
  OBVIOUS
<1>2. PICK k \in K : \A l \in K : k <= l
  BY <1>1, LeastElement
<1>3. PICK p : IsWalk(p, k, L, S, r, b)
  OBVIOUS
<1>4. k \in Nat \ {0} /\ p \in [1 .. k -> L]
  BY <1>3 DEF IsWalk
<1>5. ASSUME NEW i \in 1 .. k, NEW j \in 1 .. k, i < j, p[i] = p[j]
      PROVE  FALSE
  <2> DEFINE l == k - (j - i)
             q == [n \in 1 .. l |-> IF n <= i THEN p[n] ELSE p[n + (j - i)]]
  <2>1. l \in Nat \ {0} /\ l < k /\ i <= l
    BY <1>4, <1>5
  <2>2. \A n \in 1 .. l : n \in 1 .. k /\ (n > i => n + (j - i) \in 1 .. k)
    BY <1>4, <1>5, <2>1
  <2>3. q \in [1 .. l -> L]
    BY <1>4, <2>2
  <2>4. q[1] = r
    BY <1>3, <2>1 DEF IsWalk
  <2>5. q[l] = b
    <3>1. CASE l = i
      BY <1>3, <1>4, <1>5, <2>1, <3>1 DEF IsWalk
    <3>2. CASE l # i
      BY <1>3, <1>4, <1>5, <2>1, <3>2 DEF IsWalk
    <3> QED BY <3>1, <3>2
  <2>6. ASSUME NEW n \in 1 .. l - 1 PROVE q[n + 1] \in S[q[n]]
    <3>1. CASE n < i
      <4>1. q[n] = p[n] /\ q[n + 1] = p[n + 1] /\ n \in 1 .. k - 1
        BY <2>1, <3>1
      <4> QED BY <1>3, <4>1 DEF IsWalk
    <3>2. CASE n >= i
      <4>1. /\ n + (j - i) \in 1 .. k - 1
            /\ q[n + 1] = p[(n + (j - i)) + 1]
        BY <1>4, <1>5, <2>1, <3>2
      <4>2. q[n] = p[n + (j - i)]
        <5>1. CASE n = i
          BY <1>5, <2>1, <5>1
        <5>2. CASE n # i
          BY <2>1, <3>2, <5>2
        <5> QED BY <5>1, <5>2
      <4> QED BY <1>3, <4>1, <4>2 DEF IsWalk
    <3> QED BY <1>5, <3>1, <3>2
  <2>7. l \in K
    BY <2>1, <2>3, <2>4, <2>5, <2>6 DEF IsWalk
  <2> HIDE DEF l
  <2> QED BY <1>2, <1>4, <2>1, <2>7
<1>6. \A i, j \in 1 .. k : p[i] = p[j] => i = j
  BY <1>4, <1>5
<1>7. k \in 1 .. Cardinality(L)
  <2>1. Cardinality(L) \in Nat /\ IsFiniteSet(1 .. k) /\ Cardinality(1 .. k) = k
    BY <1>4, FS_CardinalityType, FS_Interval
  <2>2. ~(Cardinality(L) < Cardinality(1 .. k))
    BY <1>4, <1>6, <2>1, FS_PigeonHole
  <2> QED BY <1>4, <2>1, <2>2
<1>8. p \in {w \in [1 .. k -> L] :
                /\ w[1] = r /\ w[k] = b
                /\ \A i \in 1 .. k - 1 : w[i + 1] \in S[w[i]]
                /\ \A i, j \in 1 .. k : w[i] = w[j] => i = j}
  BY <1>3, <1>6 DEF IsWalk
<1>9. p \in Paths(L, S, r, b)
  BY <1>7, <1>8 DEF Paths
<1> QED BY <1>9

(* Dominance by closed sets is dominance by paths: b can be reached, and   *)
(* every path to it passes a.  This is the sense in which                  *)
(* is_a_dominates_b (graph.hpp:901) is used by the passes.                 *)
THEOREM DominatesMeansPaths ==
  ASSUME NEW L, NEW S, IsGraph(L, S), IsFiniteSet(L),
         NEW r \in L, NEW a, NEW b
  PROVE  Dominates(S, r, a, b) <=>
           /\ Paths(L, S, r, b) # {}
           /\ \A p \in Paths(L, S, r, b) : \E i \in DOMAIN p : p[i] = a
<1>1. /\ L \in SUBSET Node /\ S \in [Node -> SUBSET Node]
      /\ Without(S, a) \in [Node -> SUBSET Node]
      /\ IsGraph(L, Without(S, a))
  BY DEF IsGraph, Without
<1>2. ASSUME NEW p \in Paths(L, S, r, b)
      PROVE  \E k \in Nat \ {0} : IsWalk(p, k, L, S, r, b)
  <2>1. Cardinality(L) \in Nat
    BY FS_CardinalityType
  <2> QED BY <2>1 DEF Paths, IsWalk
<1>3. Paths(L, S, r, b) # {} <=> b \in Reach(S, r)
  <2>1. ASSUME NEW p \in Paths(L, S, r, b) PROVE b \in Reach(S, r)
    BY <1>1, <1>2, WalkReach
  <2>2. ASSUME b \in Reach(S, r) PROVE Paths(L, S, r, b) # {}
    BY <2>2, ReachWalk, WalkPath
  <2> QED BY <2>1, <2>2
<1>4. ASSUME NEW p \in Paths(L, S, r, b), a # r,
             b \notin Reach(Without(S, a), r)
      PROVE  \E i \in DOMAIN p : p[i] = a
  <2>1. SUFFICES ASSUME \A i \in DOMAIN p : p[i] # a PROVE FALSE
    OBVIOUS
  <2>2. PICK k \in Nat \ {0} : IsWalk(p, k, L, S, r, b)
    BY <1>2
  <2>3. DOMAIN p = 1 .. k
    BY <2>2 DEF IsWalk
  <2>4. ASSUME NEW i \in 1 .. k - 1 PROVE p[i + 1] \in Without(S, a)[p[i]]
    <3>1. /\ i \in 1 .. k /\ i + 1 \in 1 .. k /\ p[i] # a /\ p[i + 1] # a
          /\ p[i] \in Node /\ p[i + 1] \in S[p[i]]
      BY <1>1, <2>1, <2>2, <2>3 DEF IsWalk
    <3> QED BY <3>1 DEF Without
  <2>5. IsWalk(p, k, L, Without(S, a), r, b)
    BY <2>2, <2>4 DEF IsWalk
  <2> QED BY <1>1, <1>4, <2>5, WalkReach
<1>5. ASSUME NEW p \in Paths(L, S, r, b) PROVE \E i \in DOMAIN p : p[i] = r
  <2>1. PICK k \in Nat \ {0} : IsWalk(p, k, L, S, r, b)
    BY <1>2
  <2> QED BY <2>1 DEF IsWalk
<1>6. ASSUME a # r, b \in Reach(Without(S, a), r)
      PROVE  \E p \in Paths(L, S, r, b) : \A i \in DOMAIN p : p[i] # a
  <2>1. PICK p \in Paths(L, Without(S, a), r, b) : TRUE
    BY <1>1, <1>6, ReachWalk, WalkPath
  <2>2. PICK k \in 1 .. Cardinality(L) :
          /\ p \in [1 .. k -> L] /\ p[1] = r /\ p[k] = b
          /\ \A i \in 1 .. k - 1 : p[i + 1] \in Without(S, a)[p[i]]
          /\ \A i, j \in 1 .. k : p[i] = p[j] => i = j
    BY <2>1 DEF Paths
  <2>3. k \in Nat \ {0}
    BY FS_CardinalityType
  <2>4. ASSUME NEW i \in 1 .. k - 1 PROVE p[i + 1] \in S[p[i]] /\ p[i + 1] # a
    <3>1. p[i] \in Node
      BY <1>1, <2>2, <2>3
    <3> QED BY <2>2, <3>1 DEF Without
  <2>5. ASSUME NEW i \in 1 .. k PROVE p[i] # a
    <3>1. CASE i = 1
      BY <1>6, <2>2, <3>1
    <3>2. CASE i # 1
      <4>1. i - 1 \in 1 .. k - 1 /\ (i - 1) + 1 = i
        BY <2>3, <3>2
      <4> QED BY <2>4, <4>1
    <3> QED BY <3>1, <3>2
  <2>6. p \in Paths(L, S, r, b)
    BY <2>2, <2>4 DEF Paths
  <2> QED BY <2>2, <2>5, <2>6
<1>7. CASE a = r
  BY <1>3, <1>5, <1>7 DEF Dominates
<1>8. CASE a # r
  BY <1>3, <1>4, <1>6, <1>8 DEF Dominates
<1> QED BY <1>7, <1>8
=============================================================================
