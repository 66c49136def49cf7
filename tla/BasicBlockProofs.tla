-------------------------- MODULE BasicBlockProofs --------------------------
(***************************************************************************)
(* Whatever calls a client makes that keeps the contract, for any number   *)
(* of instructions and blocks: the lists agree with m_bb, m_prev and       *)
(* m_next, definitions agree with uses, and the self-check of a block is   *)
(* silent unless an instruction is used that is in no block.               *)
(***************************************************************************)
EXTENDS BasicBlock, SequenceTheorems, TLAPS

(* An erased instruction is in no block: erase_instr puts it out and       *)
(* nothing puts it in again.                                               *)
ErasedOut == \A i \in erased : bb[i] = Null

IInv == TypeOK /\ Placed /\ Linked /\ DefUse /\ ErasedOut

-----------------------------------------------------------------------------
(* SEQUENCES *)

LEMMA AppendFacts ==
  ASSUME NEW S, NEW s \in Seq(S), NEW x \in S
  PROVE  /\ Append(s, x) \in Seq(S) /\ Len(Append(s, x)) = Len(s) + 1
         /\ Append(s, x)[Len(s) + 1] = x
         /\ \A k \in 1 .. Len(s) : Append(s, x)[k] = s[k]
OBVIOUS

LEMMA RemoveAtFacts ==
  ASSUME NEW S, NEW s \in Seq(S), NEW k \in 1 .. Len(s)
  PROVE  /\ RemoveAt(s, k) \in Seq(S) /\ Len(RemoveAt(s, k)) = Len(s) - 1
         /\ \A j \in 1 .. Len(s) - 1 :
              RemoveAt(s, k)[j] = IF j < k THEN s[j] ELSE s[j + 1]
<1> DEFINE a == SubSeq(s, 1, k - 1)
           c == SubSeq(s, k + 1, Len(s))
<1>1. Len(s) \in Nat /\ k \in Int
  OBVIOUS
<1>2. /\ a \in Seq(S) /\ Len(a) = k - 1 /\ \A j \in 1 .. k - 1 : a[j] = s[j]
  BY <1>1, SubSeqProperties
<1>3. /\ c \in Seq(S) /\ Len(c) = Len(s) - k
      /\ \A j \in 1 .. Len(s) - k : c[j] = s[k + j]
  <2>1. \A j \in k + 1 .. Len(s) : s[j] \in S
    BY <1>1
  <2>2. /\ c \in Seq(S) /\ Len(c) = IF k + 1 <= Len(s) THEN Len(s) - (k + 1) + 1 ELSE 0
        /\ \A j \in 1 .. Len(s) - (k + 1) + 1 : c[j] = s[(k + 1) + j - 1]
    BY <1>1, <2>1, SubSeqProperties
  <2> QED BY <1>1, <2>2
<1> HIDE DEF a, c
<1>4. RemoveAt(s, k) = a \o c
  BY DEF RemoveAt, a, c
<1>5. /\ a \o c \in Seq(S) /\ Len(a \o c) = Len(a) + Len(c)
      /\ \A j \in 1 .. Len(a) + Len(c) :
           (a \o c)[j] = IF j <= Len(a) THEN a[j] ELSE c[j - Len(a)]
  BY <1>2, <1>3, ConcatProperties
<1>6. ASSUME NEW j \in 1 .. Len(s) - 1
      PROVE  (a \o c)[j] = IF j < k THEN s[j] ELSE s[j + 1]
  <2>1. CASE j < k
    BY <1>1, <1>2, <1>3, <1>5, <2>1
  <2>2. CASE ~(j < k)
    <3>1. j - (k - 1) \in 1 .. Len(s) - k /\ k + (j - (k - 1)) = j + 1
      BY <1>1, <2>2
    <3>2. (a \o c)[j] = c[j - (k - 1)]
      BY <1>1, <1>2, <1>3, <1>5, <2>2
    <3> QED BY <1>3, <2>2, <3>1, <3>2
  <2> QED BY <2>1, <2>2
<1> QED BY <1>1, <1>2, <1>3, <1>4, <1>5, <1>6

-----------------------------------------------------------------------------
(* TYPES *)

LEMMA UnlinkType ==
  ASSUME TypeOK, NEW b \in Block, NEW k \in 1 .. Len(instrs[b]), Unlink(b, k)
  PROVE  /\ instrs' \in [Block -> Seq(Instr)]
         /\ bb' \in [Instr -> Block \cup {Null}]
         /\ prev' \in [Instr -> Instr \cup {Null}]
         /\ next' \in [Instr -> Instr \cup {Null}]
<1>1. RemoveAt(instrs[b], k) \in Seq(Instr)
  BY RemoveAtFacts DEF TypeOK
<1>2. instrs' = [instrs EXCEPT ![b] = RemoveAt(instrs[b], k)]
  BY DEF Unlink
<1>3. instrs[b][k] \in Instr
  BY DEF TypeOK
<1> QED BY <1>1, <1>2, <1>3 DEF Unlink, TypeOK

(* What Forgotten and the erasure of one use do to each count.             *)
UseT == [Instr -> [Instr -> 0 .. MaxUses]]

LEMMA ForgottenFacts ==
  ASSUME TypeOK, NEW i \in Instr, Forgotten(i)
  PROVE  /\ inputs' \in UseT /\ users' \in UseT
         /\ \A x, e \in Instr :
              /\ inputs'[x][e] = IF e = i /\ users'[i][x] > 0 THEN 0 ELSE inputs[x][e]
              /\ users'[x][e] = IF e = i /\ inputs[i][x] > 0 THEN 0 ELSE users[x][e]
<1>1. /\ 0 \in 0 .. MaxUses
      /\ \A x \in Instr : /\ inputs[x] \in [Instr -> 0 .. MaxUses]
                          /\ users[x] \in [Instr -> 0 .. MaxUses]
  BY BlockAssumption DEF TypeOK
<1>2. /\ inputs' \in UseT
      /\ \A x, e \in Instr :
           inputs'[x][e] = IF e = i /\ users'[i][x] > 0 THEN 0 ELSE inputs[x][e]
  <2>1. inputs' = [x \in Instr |-> [inputs[x] EXCEPT ![i] = IF users'[i][x] > 0 THEN 0 ELSE inputs[x][i]]]
    BY DEF Forgotten
  <2>2. ASSUME NEW x \in Instr
        PROVE  /\ inputs'[x] \in [Instr -> 0 .. MaxUses]
               /\ \A e \in Instr :
                    inputs'[x][e] = IF e = i /\ users'[i][x] > 0 THEN 0 ELSE inputs[x][e]
    BY <1>1, <2>1
  <2> QED BY <2>1, <2>2 DEF UseT
<1>3. /\ users' \in UseT
      /\ \A x, e \in Instr :
           users'[x][e] = IF e = i /\ inputs[i][x] > 0 THEN 0 ELSE users[x][e]
  <2>1. users' = [x \in Instr |-> [users[x] EXCEPT ![i] = IF inputs[i][x] > 0 THEN 0 ELSE users[x][i]]]
    BY DEF Forgotten
  <2>2. ASSUME NEW x \in Instr
        PROVE  /\ users'[x] \in [Instr -> 0 .. MaxUses]
               /\ \A e \in Instr :
                    users'[x][e] = IF e = i /\ inputs[i][x] > 0 THEN 0 ELSE users[x][e]
    BY <1>1, <2>1
  <2> QED BY <2>1, <2>2 DEF UseT
<1> QED BY <1>2, <1>3

LEMMA SetUse ==
  ASSUME NEW f \in UseT, NEW i \in Instr, NEW e \in Instr, NEW n \in 0 .. MaxUses
  PROVE  /\ [f EXCEPT ![i][e] = n] \in UseT
         /\ \A x, y \in Instr :
              [f EXCEPT ![i][e] = n][x][y] = IF x = i /\ y = e THEN n ELSE f[x][y]
BY DEF UseT

LEMMA EraseType ==
  ASSUME TypeOK, NEW b \in Block, NEW k \in 1 .. Len(instrs[b]), erase_instr(b, k)
  PROVE  TypeOK'
<1>1. /\ Unlink(b, k) /\ Forgotten(instrs[b][k])
      /\ erased' = erased \cup {instrs[b][k]} /\ edited' = edited
  BY DEF erase_instr
<1>2. instrs[b][k] \in Instr
  BY DEF TypeOK
<1>3. inputs' \in UseT /\ users' \in UseT
  BY <1>1, <1>2, ForgottenFacts
<1> QED BY <1>1, <1>2, <1>3, UnlinkType DEF TypeOK, UseT

(* A list of one instruction is attached as a whole.                       *)
LEMMA ConstructOne ==
  ASSUME NEW b \in Block, NEW i \in Instr, Construct(b, <<i>>)
  PROVE  /\ instrs' = [instrs EXCEPT ![b] = <<i>>]
         /\ bb' = [x \in Instr |-> IF x = i THEN b ELSE bb[x]]
         /\ prev' = [x \in Instr |-> IF x = i THEN Null ELSE prev[x]]
         /\ UNCHANGED <<next, inputs, users, past>>
<1>1. Len(<<i>>) = 1 /\ <<i>>[1] = i /\ IsInjective(<<i>>)
  BY DEF IsInjective
<1>2. Attached(<<i>>) = {1}
  BY <1>1 DEF Attached
<1>3. /\ {<<i>>[k] : k \in Attached(<<i>>)} = {i}
      /\ \A x \in Instr : {k \in Attached(<<i>>) : k > 1 /\ <<i>>[k] = x} = {}
  BY <1>1, <1>2
<1> QED BY <1>1, <1>3 DEF Construct, uses

LEMMA TypeStep == TypeOK /\ [ContractNext]_vars => TypeOK'
<1> SUFFICES ASSUME TypeOK, [ContractNext]_vars PROVE TypeOK'
  OBVIOUS
<1> USE BlockAssumption
<1>1. ASSUME NEW i \in Instr, NEW e \in Instr, push_input(i, e) PROVE TypeOK'
  <2>1. inputs' = [inputs EXCEPT ![i][e] = @ + 1] /\ inputs[i][e] + 1 \in 0 .. MaxUses
    BY <1>1 DEF push_input, TypeOK
  <2>2. users' = [users EXCEPT ![e][i] = @ + 1] /\ users[e][i] + 1 \in 0 .. MaxUses
    BY <1>1 DEF push_input, TypeOK
  <2>3. UNCHANGED <<lists, links, past>>
    BY <1>1 DEF push_input
  <2> QED BY <2>1, <2>2, <2>3 DEF TypeOK, lists, links, past
<1>2. ASSUME NEW i \in Instr, NEW e \in Instr, NEW b \in Block,
             erase_input(i, b, e) \/ erase_user(e, b, i)
      PROVE  TypeOK'
  <2>1. /\ inputs' = [inputs EXCEPT ![i][e] = 0]
        /\ users' = [users EXCEPT ![e][i] = 0]
        /\ UNCHANGED <<lists, links, past>>
    BY <1>2 DEF erase_input, erase_user
  <2>2. inputs' \in UseT /\ users' \in UseT
    <3>1. inputs \in UseT /\ users \in UseT /\ 0 \in 0 .. MaxUses
      BY DEF TypeOK, UseT
    <3> QED BY <2>1, <3>1, SetUse
  <2> QED BY <2>1, <2>2 DEF TypeOK, UseT, lists, links, past
<1>3. ASSUME NEW b \in Block, NEW i \in Instr, push_instrs(b, i) PROVE TypeOK'
  <2>1. Append(instrs[b], i) \in Seq(Instr) /\ LastOf(b) \in Instr \cup {Null}
    BY DEF TypeOK, LastOf, Last
  <2>2. /\ instrs' = [instrs EXCEPT ![b] = Append(instrs[b], i)]
        /\ bb' = [bb EXCEPT ![i] = b]
        /\ prev' = [prev EXCEPT ![i] = LastOf(b)]
        /\ next' = [x \in Instr |-> IF x = LastOf(b) THEN i
                                    ELSE IF x = i THEN Null ELSE next[x]]
        /\ UNCHANGED <<inputs, users, past>>
    BY <1>3 DEF push_instrs, uses
  <2> QED BY <2>1, <2>2 DEF TypeOK, past
<1>4. ASSUME NEW b \in Block, NEW i \in Instr, Construct(b, <<i>>) PROVE TypeOK'
  <2>1. <<i>> \in Seq(Instr)
    OBVIOUS
  <2>2. /\ instrs' = [instrs EXCEPT ![b] = <<i>>]
        /\ bb' = [x \in Instr |-> IF x = i THEN b ELSE bb[x]]
        /\ prev' = [x \in Instr |-> IF x = i THEN Null ELSE prev[x]]
        /\ UNCHANGED <<next, inputs, users, past>>
    BY <1>4, ConstructOne
  <2> QED BY <2>1, <2>2 DEF TypeOK, past
<1>5. ASSUME NEW b \in Block, NEW k \in 1 .. Len(instrs[b]), erase_instr(b, k)
      PROVE  TypeOK'
  BY <1>5, EraseType
<1>6. ASSUME NEW b \in Block, NEW k \in 1 .. Len(instrs[b]), cut_instr(b, k)
      PROVE  TypeOK'
  BY <1>6, UnlinkType DEF cut_instr, TypeOK, uses, past
<1>7. ASSUME NEW i \in Instr, NEW e \in Instr, use_once(i, e) PROVE TypeOK'
  <2>1. inputs \in UseT /\ inputs[i][e] = 2
    BY <1>7 DEF use_once, TypeOK, UseT
  <2>2. 1 \in 0 .. MaxUses
    BY <2>1 DEF UseT
  <2>3. inputs' \in UseT
    BY <1>7, <2>1, <2>2, SetUse DEF use_once
  <2>4. UNCHANGED <<instrs, bb, prev, next, users, erased>>
    BY <1>7 DEF use_once, lists, links
  <2>5. edited' \in SUBSET Instr
    BY <1>7 DEF use_once, TypeOK
  <2> QED BY <2>3, <2>4, <2>5 DEF TypeOK, UseT
<1>8. CASE UNCHANGED vars
  BY <1>8 DEF vars, lists, links, uses, past, TypeOK
<1> QED
  BY <1>1, <1>2, <1>3, <1>4, <1>5, <1>6, <1>7, <1>8
     DEF ContractNext, erase_unused_instr

(* A client that keeps the contract keeps the state well typed.            *)
THEOREM TypeCorrect == ContractSpec => []TypeOK
<1>1. Init => TypeOK
  BY BlockAssumption DEF Init, TypeOK
<1> QED
  BY <1>1, TypeStep, PTL DEF ContractSpec

-----------------------------------------------------------------------------
(* PLACES AND LINKS *)

(* Placed by place instead of by Range: l the lists, p the blocks.         *)
ByIndex(l, p) ==
  /\ \A c \in Block : \A j, k \in 1 .. Len(l[c]) : l[c][j] = l[c][k] => j = k
  /\ \A c \in Block : \A k \in 1 .. Len(l[c]) :
       l[c][k] \in Instr /\ p[l[c][k]] = c
  /\ \A i \in Instr : p[i] # Null =>
       p[i] \in Block /\ \E k \in 1 .. Len(l[p[i]]) : l[p[i]][k] = i

LEMMA PlacedByIndex ==
  ASSUME NEW l \in [Block -> Seq(Instr)], NEW p \in [Instr -> Block \cup {Null}]
  PROVE  /\ \A c \in Block : IsInjective(l[c])
         /\ \A i \in Instr, c \in Block : p[i] = c <=> i \in Range(l[c])
         <=> ByIndex(l, p)
<1>1. \A c \in Block : /\ DOMAIN l[c] = 1 .. Len(l[c])
                       /\ \A k \in 1 .. Len(l[c]) : l[c][k] \in Instr
  OBVIOUS
<1>2. \A c \in Block : IsInjective(l[c]) <=>
        \A j, k \in 1 .. Len(l[c]) : l[c][j] = l[c][k] => j = k
  BY <1>1 DEF IsInjective
<1>3. \A i \in Instr, c \in Block :
        i \in Range(l[c]) <=> \E k \in 1 .. Len(l[c]) : l[c][k] = i
  BY <1>1 DEF Range
<1>4. \A i \in Instr : p[i] # Null => p[i] \in Block
  OBVIOUS
<1>5. \A c \in Block : c # Null
  BY BlockAssumption
<1>6. (\A i \in Instr, c \in Block : p[i] = c <=> i \in Range(l[c]))
      <=> /\ \A c \in Block : \A k \in 1 .. Len(l[c]) :
               l[c][k] \in Instr /\ p[l[c][k]] = c
          /\ \A i \in Instr : p[i] # Null =>
               p[i] \in Block /\ \E k \in 1 .. Len(l[p[i]]) : l[p[i]][k] = i
  <2>1. ASSUME \A i \in Instr, c \in Block : p[i] = c <=> i \in Range(l[c])
        PROVE  /\ \A c \in Block : \A k \in 1 .. Len(l[c]) :
                    l[c][k] \in Instr /\ p[l[c][k]] = c
               /\ \A i \in Instr : p[i] # Null =>
                    p[i] \in Block /\ \E k \in 1 .. Len(l[p[i]]) : l[p[i]][k] = i
    BY <1>1, <1>3, <1>4, <2>1
  <2>2. ASSUME \A c \in Block : \A k \in 1 .. Len(l[c]) :
                 l[c][k] \in Instr /\ p[l[c][k]] = c,
               \A i \in Instr : p[i] # Null =>
                 p[i] \in Block /\ \E k \in 1 .. Len(l[p[i]]) : l[p[i]][k] = i
        PROVE  \A i \in Instr, c \in Block : p[i] = c <=> i \in Range(l[c])
    BY <1>3, <1>5, <2>2
  <2> QED BY <2>1, <2>2
<1> QED BY <1>2, <1>6 DEF ByIndex

LEMMA PlacedNow ==
  /\ TypeOK => (Placed <=> ByIndex(instrs, bb))
  /\ TypeOK' => (Placed' <=> ByIndex(instrs', bb'))
BY PlacedByIndex DEF TypeOK, Placed

LEMMA UnlinkPlaces ==
  ASSUME TypeOK, Placed, Linked, TypeOK',
         NEW b \in Block, NEW k \in 1 .. Len(instrs[b]), Unlink(b, k)
  PROVE  Placed' /\ Linked'
<1> DEFINE i == instrs[b][k]
           s == instrs[b]
           t == RemoveAt(s, k)
<1>1. /\ s \in Seq(Instr) /\ Len(s) \in Nat /\ t \in Seq(Instr) /\ Len(t) = Len(s) - 1
      /\ \A j \in 1 .. Len(t) : t[j] = IF j < k THEN s[j] ELSE s[j + 1]
  <2>1. s \in Seq(Instr) /\ k \in 1 .. Len(s)
    BY DEF TypeOK
  <2> HIDE DEF s
  <2>2. /\ t \in Seq(Instr) /\ Len(t) = Len(s) - 1
        /\ \A j \in 1 .. Len(s) - 1 : t[j] = IF j < k THEN s[j] ELSE s[j + 1]
    BY <2>1, RemoveAtFacts
  <2>3. Len(s) \in Nat
    BY <2>1
  <2> HIDE DEF t
  <2> QED BY <2>1, <2>2, <2>3
<1>2. /\ \A x \in Instr : prev'[x] = IF x = i THEN Null
                                    ELSE IF x = next[i] THEN prev[i] ELSE prev[x]
      /\ \A x \in Instr : next'[x] = IF x = i THEN Null
                                    ELSE IF x = prev[i] THEN next[i] ELSE next[x]
      /\ \A x \in Instr : bb'[x] = IF x = i THEN Null ELSE bb[x]
      /\ \A c \in Block : instrs'[c] = IF c = b THEN t ELSE instrs[c]
  BY DEF Unlink, TypeOK
<1>3. /\ \A c \in Block : \A j, l \in 1 .. Len(instrs[c]) :
           instrs[c][j] = instrs[c][l] => j = l
      /\ \A c \in Block : \A l \in 1 .. Len(instrs[c]) :
           instrs[c][l] \in Instr /\ bb[instrs[c][l]] = c
      /\ \A x \in Instr : bb[x] # Null =>
           bb[x] \in Block /\ \E l \in 1 .. Len(instrs[bb[x]]) : instrs[bb[x]][l] = x
  BY PlacedNow DEF ByIndex
<1>4. /\ \A c \in Block : \A l \in 1 .. Len(instrs[c]) :
           /\ prev[instrs[c][l]] = IF l = 1 THEN Null ELSE instrs[c][l - 1]
           /\ next[instrs[c][l]] = IF l = Len(instrs[c]) THEN Null ELSE instrs[c][l + 1]
      /\ \A x \in Instr : bb[x] = Null => prev[x] = Null /\ next[x] = Null
  BY DEF Linked
<1>5. /\ i \in Instr /\ bb[i] = b
      /\ prev[i] = IF k = 1 THEN Null ELSE s[k - 1]
      /\ next[i] = IF k = Len(s) THEN Null ELSE s[k + 1]
  BY <1>3, <1>4
<1> HIDE DEF i, s, t
<1>6. \A x \in Instr : (x = prev[i] \/ x = next[i]) => bb[x] = b
  <2>1. \A l \in 1 .. Len(s) : bb[s[l]] = b
    BY <1>3 DEF s
  <2>2. Null \notin Instr
    BY BlockAssumption
  <2>3. k \in 1 .. Len(s)
    BY DEF s
  <2>4. ASSUME NEW x \in Instr, x = prev[i]
        PROVE  bb[x] = b
    <3>1. k # 1 /\ x = s[k - 1]
      BY <1>5, <2>2, <2>4
    <3>2. k - 1 \in 1 .. Len(s)
      BY <1>1, <2>3, <3>1
    <3> QED BY <2>1, <3>1, <3>2
  <2>5. ASSUME NEW x \in Instr, x = next[i]
        PROVE  bb[x] = b
    <3>1. k # Len(s) /\ x = s[k + 1]
      BY <1>5, <2>2, <2>5
    <3>2. k + 1 \in 1 .. Len(s)
      BY <1>1, <2>3, <3>1
    <3> QED BY <2>1, <3>1, <3>2
  <2> QED BY <2>4, <2>5
<1>7. \A j \in 1 .. Len(t) :
        /\ t[j] = s[IF j < k THEN j ELSE j + 1]
        /\ (IF j < k THEN j ELSE j + 1) \in 1 .. Len(s)
        /\ (IF j < k THEN j ELSE j + 1) # k
  BY <1>1 DEF s
<1>8. Placed'
  <2>1. ASSUME NEW c \in Block, NEW j \in 1 .. Len(instrs'[c]), NEW l \in 1 .. Len(instrs'[c]),
               instrs'[c][j] = instrs'[c][l]
        PROVE  j = l
    <3>1. CASE c # b
      BY <1>2, <1>3, <2>1, <3>1
    <3>2. CASE c = b
      <4>1. (IF j < k THEN j ELSE j + 1) = (IF l < k THEN l ELSE l + 1)
        BY <1>2, <1>3, <1>7, <2>1, <3>2 DEF s
      <4> QED BY <1>1, <1>2, <3>2, <4>1
    <3> QED BY <3>1, <3>2
  <2>2. ASSUME NEW c \in Block, NEW l \in 1 .. Len(instrs'[c])
        PROVE  bb'[instrs'[c][l]] = c
    <3>1. CASE c # b
      BY <1>2, <1>3, <1>5, <3>1
    <3>2. CASE c = b
      <4>1. t[l] # i /\ t[l] \in Instr /\ bb[t[l]] = b
        BY <1>2, <1>3, <1>7, <3>2 DEF s, i
      <4> QED BY <1>2, <3>2, <4>1
    <3> QED BY <3>1, <3>2
  <2>3. ASSUME NEW x \in Instr, bb'[x] # Null
        PROVE  \E l \in 1 .. Len(instrs'[bb'[x]]) : instrs'[bb'[x]][l] = x
    <3>1. x # i /\ bb'[x] = bb[x] /\ bb[x] \in Block
      BY <1>2, <1>3, <2>3
    <3>2. PICK l \in 1 .. Len(instrs[bb[x]]) : instrs[bb[x]][l] = x
      BY <1>3, <2>3, <3>1
    <3>3. CASE bb[x] # b
      BY <1>2, <3>1, <3>2, <3>3
    <3>4. CASE bb[x] = b
      <4>1. l # k /\ s[l] = x /\ l \in 1 .. Len(s)
        BY <3>1, <3>2, <3>4 DEF s, i
      <4>2. CASE l < k
        <5>1. l \in 1 .. Len(t) /\ t[l] = x
          BY <1>1, <4>1, <4>2 DEF s
        <5> QED BY <1>2, <3>1, <3>4, <5>1
      <4>3. CASE l > k
        <5>1. l - 1 \in 1 .. Len(t) /\ t[l - 1] = x
          BY <1>1, <4>1, <4>3 DEF s
        <5> QED BY <1>2, <3>1, <3>4, <5>1
      <4> QED BY <4>1, <4>2, <4>3
    <3> QED BY <3>3, <3>4
  <2>4. \A c \in Block : \A l \in 1 .. Len(instrs'[c]) : instrs'[c][l] \in Instr
    BY DEF TypeOK
  <2>5. \A x \in Instr : bb'[x] # Null => bb'[x] \in Block
    BY DEF TypeOK
  <2> QED BY <2>1, <2>2, <2>3, <2>4, <2>5, PlacedNow DEF ByIndex
<1>9. Linked'
  <2>1. ASSUME NEW c \in Block, c # b, NEW l \in 1 .. Len(instrs'[c])
        PROVE  /\ prev'[instrs'[c][l]] = IF l = 1 THEN Null ELSE instrs'[c][l - 1]
               /\ next'[instrs'[c][l]] =
                    IF l = Len(instrs'[c]) THEN Null ELSE instrs'[c][l + 1]
    <3>1. instrs'[c] = instrs[c] /\ instrs[c][l] \in Instr /\ bb[instrs[c][l]] # b
      BY <1>2, <1>3, <2>1
    <3> DEFINE y == instrs[c][l]
    <3>2. y # i /\ y # prev[i] /\ y # next[i]
      BY <1>5, <1>6, <3>1
    <3>3. prev'[y] = prev[y] /\ next'[y] = next[y]
      BY <1>2, <3>1, <3>2
    <3> HIDE DEF y
    <3>4. /\ prev[y] = IF l = 1 THEN Null ELSE instrs[c][l - 1]
          /\ next[y] = IF l = Len(instrs[c]) THEN Null ELSE instrs[c][l + 1]
      BY <1>4, <2>1, <3>1 DEF y
    <3>5. instrs'[c][l] = y
      BY <3>1 DEF y
    <3> QED BY <3>1, <3>3, <3>4, <3>5
  <2>2. ASSUME NEW l \in 1 .. Len(t)
        PROVE  /\ prev'[t[l]] = IF l = 1 THEN Null ELSE t[l - 1]
               /\ next'[t[l]] = IF l = Len(t) THEN Null ELSE t[l + 1]
    <3> DEFINE m == IF l < k THEN l ELSE l + 1
    <3>1. m \in 1 .. Len(s) /\ m # k /\ t[l] = s[m] /\ s[m] \in Instr /\ s[m] # i
      BY <1>3, <1>7, <2>2 DEF s, i
    <3>2. /\ prev[s[m]] = IF m = 1 THEN Null ELSE s[m - 1]
          /\ next[s[m]] = IF m = Len(s) THEN Null ELSE s[m + 1]
      BY <1>4, <3>1 DEF s
    <3>3. \A y \in 1 .. Len(s) : s[y] = s[m] => y = m
      BY <1>3, <3>1 DEF s
    <3>4. s[m] = next[i] <=> m = k + 1
      BY <1>1, <1>5, <3>1, <3>3, BlockAssumption DEF s
    <3>5. s[m] = prev[i] <=> m = k - 1
      BY <1>1, <1>5, <3>1, <3>3, BlockAssumption DEF s
    <3>6. prev'[t[l]] = IF m = k + 1 THEN prev[i] ELSE prev[s[m]]
      BY <1>2, <3>1, <3>4
    <3>7. next'[t[l]] = IF m = k - 1 THEN next[i] ELSE next[s[m]]
      BY <1>2, <3>1, <3>5
    <3>8. prev'[t[l]] = IF l = 1 THEN Null ELSE t[l - 1]
      BY <1>1, <1>5, <3>1, <3>2, <3>6 DEF s
    <3>9. next'[t[l]] = IF l = Len(t) THEN Null ELSE t[l + 1]
      BY <1>1, <1>5, <3>1, <3>2, <3>7 DEF s
    <3> QED BY <3>8, <3>9
  <2>3. ASSUME NEW x \in Instr, bb'[x] = Null
        PROVE  prev'[x] = Null /\ next'[x] = Null
    <3>1. CASE x = i
      BY <1>2, <3>1
    <3>2. CASE x # i
      <4>1. bb[x] = Null /\ bb[x] # b
        BY <1>2, <2>3, <3>2, BlockAssumption
      <4> QED BY <1>2, <1>4, <1>6, <3>2, <4>1
    <3> QED BY <3>1, <3>2
  <2> QED BY <1>2, <2>1, <2>2, <2>3 DEF Linked
<1> QED BY <1>8, <1>9

LEMMA PushPlaces ==
  ASSUME TypeOK, Placed, Linked, TypeOK',
         NEW b \in Block, NEW i \in Instr, push_instrs(b, i)
  PROVE  Placed' /\ Linked'
<1> DEFINE s == instrs[b]
           n == Len(s)
           t == Append(s, i)
           last == LastOf(b)
<1>1. /\ s \in Seq(Instr) /\ n \in Nat /\ t \in Seq(Instr) /\ Len(t) = n + 1
      /\ t[n + 1] = i
      /\ \A j \in 1 .. n : t[j] = s[j]
  <2>1. s \in Seq(Instr) /\ n \in Nat
    BY DEF TypeOK
  <2> HIDE DEF s
  <2>2. /\ t \in Seq(Instr) /\ Len(t) = Len(s) + 1 /\ t[Len(s) + 1] = i
        /\ \A j \in 1 .. Len(s) : t[j] = s[j]
    BY <2>1, AppendFacts
  <2> HIDE DEF t
  <2> QED BY <2>1, <2>2
<1>2. last = IF n = 0 THEN Null ELSE s[n]
  BY <1>1 DEF LastOf, Last
<1>3. /\ bb[i] = Null
      /\ \A x \in Instr : prev'[x] = IF x = i THEN last ELSE prev[x]
      /\ \A x \in Instr : next'[x] = IF x = last THEN i
                                    ELSE IF x = i THEN Null ELSE next[x]
      /\ \A x \in Instr : bb'[x] = IF x = i THEN b ELSE bb[x]
      /\ \A c \in Block : instrs'[c] = IF c = b THEN t ELSE instrs[c]
  BY DEF push_instrs, TypeOK
<1>4. /\ \A c \in Block : \A j, l \in 1 .. Len(instrs[c]) :
           instrs[c][j] = instrs[c][l] => j = l
      /\ \A c \in Block : \A l \in 1 .. Len(instrs[c]) :
           instrs[c][l] \in Instr /\ bb[instrs[c][l]] = c
      /\ \A x \in Instr : bb[x] # Null =>
           bb[x] \in Block /\ \E l \in 1 .. Len(instrs[bb[x]]) : instrs[bb[x]][l] = x
  BY PlacedNow DEF ByIndex
<1>5. /\ \A c \in Block : \A l \in 1 .. Len(instrs[c]) :
           /\ prev[instrs[c][l]] = IF l = 1 THEN Null ELSE instrs[c][l - 1]
           /\ next[instrs[c][l]] = IF l = Len(instrs[c]) THEN Null ELSE instrs[c][l + 1]
      /\ \A x \in Instr : bb[x] = Null => prev[x] = Null /\ next[x] = Null
  BY DEF Linked
<1>6. \A c \in Block : c # Null /\ \A l \in 1 .. Len(instrs[c]) : instrs[c][l] # i
  BY <1>3, <1>4, BlockAssumption
<1>7. /\ n # 0 => last \in Instr /\ bb[last] = b /\ last # i
      /\ n = 0 => last \notin Instr
  BY <1>1, <1>2, <1>4, <1>6, BlockAssumption
<1> HIDE DEF n, last, t
<1>8. \A j \in 1 .. n : s[j] \in Instr /\ s[j] # i /\ bb[s[j]] = b
  BY <1>4, <1>6 DEF n
<1>9. Placed'
  <2>1. ASSUME NEW c \in Block, NEW j \in 1 .. Len(instrs'[c]), NEW l \in 1 .. Len(instrs'[c]),
               instrs'[c][j] = instrs'[c][l]
        PROVE  j = l
    <3>1. CASE c # b
      BY <1>3, <1>4, <2>1, <3>1
    <3>2. CASE c = b
      <4>1. j \in 1 .. n + 1 /\ l \in 1 .. n + 1 /\ t[j] = t[l]
        BY <1>1, <1>3, <2>1, <3>2
      <4>2. \A x, y \in 1 .. n : s[x] = s[y] => x = y
        BY <1>4 DEF n
      <4> HIDE DEF s
      <4> QED BY <1>1, <1>8, <4>1, <4>2
    <3> QED BY <3>1, <3>2
  <2>2. ASSUME NEW c \in Block, NEW l \in 1 .. Len(instrs'[c])
        PROVE  instrs'[c][l] \in Instr /\ bb'[instrs'[c][l]] = c
    <3>1. CASE c # b
      BY <1>3, <1>4, <1>6, <3>1
    <3>2. CASE c = b
      <4>1. l \in 1 .. n + 1 /\ instrs'[c][l] = t[l]
        BY <1>1, <1>3, <2>2, <3>2
      <4> HIDE DEF s
      <4> QED BY <1>1, <1>3, <1>8, <3>2, <4>1
    <3> QED BY <3>1, <3>2
  <2>3. ASSUME NEW x \in Instr, bb'[x] # Null
        PROVE  bb'[x] \in Block /\ \E l \in 1 .. Len(instrs'[bb'[x]]) : instrs'[bb'[x]][l] = x
    <3>1. CASE x = i
      <4>1. bb'[x] = b /\ instrs'[b] = t /\ n + 1 \in 1 .. Len(t)
        BY <1>1, <1>3, <3>1
      <4> QED BY <1>1, <3>1, <4>1
    <3>2. CASE x # i
      <4>1. bb'[x] = bb[x] /\ bb[x] \in Block
        BY <1>3, <1>4, <2>3, <3>2
      <4>2. PICK l \in 1 .. Len(instrs[bb[x]]) : instrs[bb[x]][l] = x
        BY <1>4, <2>3, <4>1
      <4>3. CASE bb[x] = b
        <5>1. l \in 1 .. n /\ s[l] = x
          BY <4>2, <4>3 DEF n
        <5>2. l \in 1 .. Len(t) /\ t[l] = x
          BY <1>1, <5>1
        <5> QED BY <1>3, <4>1, <4>3, <5>2
      <4>4. CASE bb[x] # b
        BY <1>3, <4>1, <4>2, <4>4
      <4> QED BY <4>3, <4>4
    <3> QED BY <3>1, <3>2
  <2> QED BY <2>1, <2>2, <2>3, PlacedNow DEF ByIndex
<1>10. Linked'
  <2>1. ASSUME NEW c \in Block, c # b, NEW l \in 1 .. Len(instrs'[c])
        PROVE  /\ prev'[instrs'[c][l]] = IF l = 1 THEN Null ELSE instrs'[c][l - 1]
               /\ next'[instrs'[c][l]] =
                    IF l = Len(instrs'[c]) THEN Null ELSE instrs'[c][l + 1]
    <3> DEFINE y == instrs[c][l]
    <3>1. instrs'[c] = instrs[c] /\ y \in Instr /\ bb[y] = c /\ y # i
      BY <1>3, <1>4, <1>6, <2>1
    <3>2. y # last
      BY <1>7, <2>1, <3>1
    <3>3. prev'[y] = prev[y] /\ next'[y] = next[y]
      BY <1>3, <3>1, <3>2
    <3> HIDE DEF y
    <3>4. /\ prev[y] = IF l = 1 THEN Null ELSE instrs[c][l - 1]
          /\ next[y] = IF l = Len(instrs[c]) THEN Null ELSE instrs[c][l + 1]
      BY <1>5, <2>1, <3>1 DEF y
    <3>5. instrs'[c][l] = y
      BY <3>1 DEF y
    <3> QED BY <3>1, <3>3, <3>4, <3>5
  <2>2. ASSUME NEW l \in 1 .. n
        PROVE  /\ prev'[s[l]] = IF l = 1 THEN Null ELSE s[l - 1]
               /\ next'[s[l]] = IF l = n THEN i ELSE s[l + 1]
    <3>1. /\ prev[s[l]] = IF l = 1 THEN Null ELSE s[l - 1]
          /\ next[s[l]] = IF l = n THEN Null ELSE s[l + 1]
      BY <1>5 DEF n
    <3>2. s[l] = last <=> l = n
      <4>1. \A x, y \in 1 .. n : s[x] = s[y] => x = y
        BY <1>4 DEF n
      <4> HIDE DEF s
      <4> QED BY <1>1, <1>2, <4>1
    <3> HIDE DEF s
    <3> QED BY <1>3, <1>8, <3>1, <3>2
  <2>3. ASSUME NEW l \in 1 .. Len(t)
        PROVE  /\ prev'[t[l]] = IF l = 1 THEN Null ELSE t[l - 1]
               /\ next'[t[l]] = IF l = Len(t) THEN Null ELSE t[l + 1]
    <3> HIDE DEF s
    <3>1. CASE l = n + 1
      <4>1. prev'[i] = last /\ next'[i] = Null
        BY <1>3, <1>7
      <4>2. last = IF l = 1 THEN Null ELSE t[l - 1]
        BY <1>1, <1>2, <3>1
      <4> QED BY <1>1, <3>1, <4>1, <4>2
    <3>2. CASE l \in 1 .. n
      <4>1. t[l] = s[l] /\ (l # 1 => t[l - 1] = s[l - 1])
            /\ t[l + 1] = IF l = n THEN i ELSE s[l + 1]
        BY <1>1, <3>2
      <4> QED BY <1>1, <2>2, <3>2, <4>1
    <3> QED BY <1>1, <3>1, <3>2
  <2>4. ASSUME NEW x \in Instr, bb'[x] = Null
        PROVE  prev'[x] = Null /\ next'[x] = Null
    <3>1. x # i /\ bb[x] = Null
      BY <1>3, <1>6, <2>4
    <3>2. x # last
      BY <1>6, <1>7, <3>1
    <3> QED BY <1>3, <1>5, <3>1, <3>2
  <2> QED BY <1>3, <2>1, <2>3, <2>4 DEF Linked
<1> QED BY <1>9, <1>10

(* A block constructed from one instruction that is in no block is what    *)
(* push_instrs makes of an empty one.                                      *)
LEMMA ConstructIsPush ==
  ASSUME TypeOK, Linked, NEW b \in Block, NEW i \in Instr,
         bb[i] = Null, Construct(b, <<i>>)
  PROVE  push_instrs(b, i)
<1>1. /\ instrs' = [instrs EXCEPT ![b] = <<i>>]
      /\ bb' = [x \in Instr |-> IF x = i THEN b ELSE bb[x]]
      /\ prev' = [x \in Instr |-> IF x = i THEN Null ELSE prev[x]]
      /\ UNCHANGED <<next, inputs, users, past>>
  BY ConstructOne
<1>2. instrs[b] = <<>> /\ LastOf(b) = Null /\ Append(instrs[b], i) = <<i>>
  BY DEF Construct, LastOf
<1>3. next[i] = Null
  BY DEF Linked
<1>4. next' = [x \in Instr |-> IF x = LastOf(b) THEN i
                              ELSE IF x = i THEN Null ELSE next[x]]
  BY <1>1, <1>2, <1>3, BlockAssumption DEF TypeOK
<1>5. bb' = [bb EXCEPT ![i] = b]
  BY <1>1 DEF TypeOK
<1>6. prev' = [prev EXCEPT ![i] = LastOf(b)]
  BY <1>1, <1>2 DEF TypeOK
<1>7. instrs' = [instrs EXCEPT ![b] = Append(@, i)]
  BY <1>1, <1>2
<1>8. UNCHANGED <<uses, past>>
  BY <1>1 DEF uses
<1> QED BY <1>4, <1>5, <1>6, <1>7, <1>8 DEF push_instrs

-----------------------------------------------------------------------------
(* DEFINITIONS AND USES *)

(* What DefUse says of the two entries for the use of e by i.              *)
Agree(i, e) ==
  \/ inputs[i][e] = users[e][i]
  \/ i \in edited /\ 0 < inputs[i][e] /\ inputs[i][e] < users[e][i]

LEMMA ErasePlaces ==
  ASSUME IInv, TypeOK', NEW b \in Block, NEW k \in 1 .. Len(instrs[b]),
         erase_instr(b, k)
  PROVE  IInv'
<1> DEFINE i == instrs[b][k]
<1>1. /\ Unlink(b, k) /\ Forgotten(i)
      /\ erased' = erased \cup {i} /\ edited' = edited
  BY DEF erase_instr
<1>2. i \in Instr /\ bb[i] = b
  BY PlacedNow DEF IInv, ByIndex
<1>3. i \notin erased /\ erased \subseteq Instr
  BY <1>2, BlockAssumption DEF IInv, ErasedOut, TypeOK
<1> HIDE DEF i
<1>4. Placed' /\ Linked'
  BY <1>1, UnlinkPlaces DEF IInv
<1>5. \A x \in Instr : bb'[x] = IF x = i THEN Null ELSE bb[x]
  BY <1>1 DEF Unlink, IInv, TypeOK, i
<1>6. ErasedOut'
  BY <1>1, <1>2, <1>3, <1>5 DEF IInv, ErasedOut
<1>7. \A x, e \in Instr :
        /\ inputs'[x][e] = IF e = i /\ users'[i][x] > 0 THEN 0 ELSE inputs[x][e]
        /\ users'[x][e] = IF e = i /\ inputs[i][x] > 0 THEN 0 ELSE users[x][e]
  BY <1>1, <1>2, ForgottenFacts DEF IInv
<1>8. \A x, e \in Instr : inputs[x][e] \in Nat /\ users[x][e] \in Nat
  BY BlockAssumption DEF IInv, TypeOK
<1>9. ASSUME NEW x \in Instr \ erased', NEW e \in Instr
      PROVE  IF e \in erased' THEN inputs'[x][e] = 0 /\ users'[x][e] = 0
                              ELSE Agree(x, e)'
  <2>1. x \notin erased /\ x # i
    BY <1>1, <1>9
  <2>2. CASE e = i
    <3>1. /\ inputs[x][i] > 0 => users[i][x] > 0
          /\ users[x][i] > 0 => inputs[i][x] > 0
      BY <1>2, <1>3, <1>8, <2>1 DEF IInv, DefUse
    <3>2. users'[i][x] = users[i][x]
      BY <1>2, <1>7, <2>1
    <3>3. users'[x][i] = 0
      BY <1>2, <1>7, <1>8, <2>1, <3>1
    <3>4. inputs'[x][i] = 0
      BY <1>2, <1>7, <1>8, <2>1, <3>1, <3>2
    <3> QED BY <1>1, <2>2, <3>3, <3>4
  <2>3. CASE e # i
    <3>1. /\ inputs'[x][e] = inputs[x][e] /\ users'[x][e] = users[x][e]
          /\ users'[e][x] = users[e][x]
      BY <1>7, <2>1, <2>3
    <3>2. IF e \in erased THEN inputs[x][e] = 0 /\ users[x][e] = 0
                          ELSE Agree(x, e)
      BY <2>1 DEF IInv, DefUse, Agree
    <3> QED BY <1>1, <2>1, <2>3, <3>1, <3>2 DEF Agree
  <2> QED BY <2>2, <2>3
<1>10. DefUse'
  BY <1>9 DEF DefUse, Agree
<1> QED BY <1>4, <1>6, <1>10 DEF IInv

LEMMA PushUse ==
  ASSUME IInv, NEW i \in Instr, NEW e \in Instr,
         {i, e} \cap erased = {}, push_input(i, e)
  PROVE  DefUse'
<1>1. /\ \A x, y \in Instr : inputs'[x][y] =
           IF x = i /\ y = e THEN inputs[i][e] + 1 ELSE inputs[x][y]
      /\ \A x, y \in Instr : users'[x][y] =
           IF x = e /\ y = i THEN users[e][i] + 1 ELSE users[x][y]
      /\ erased' = erased /\ edited' = edited
      /\ \A x, y \in Instr : inputs[x][y] \in Nat /\ users[x][y] \in Nat
  <2>1. /\ inputs' = [inputs EXCEPT ![i][e] = @ + 1]
        /\ users' = [users EXCEPT ![e][i] = @ + 1]
        /\ erased' = erased /\ edited' = edited
    BY DEF push_input, past
  <2>2. /\ inputs \in [Instr -> [Instr -> 0 .. MaxUses]]
        /\ users \in [Instr -> [Instr -> 0 .. MaxUses]]
    BY DEF IInv, TypeOK
  <2>3. \A x, y \in Instr : inputs[x][y] \in Nat /\ users[x][y] \in Nat
    BY <2>2, BlockAssumption
  <2> QED BY <2>1, <2>2, <2>3
<1>2. i \notin erased /\ e \notin erased
  OBVIOUS
<1>3. ASSUME NEW x \in Instr \ erased, NEW y \in Instr
      PROVE  IF y \in erased THEN inputs'[x][y] = 0 /\ users'[x][y] = 0
                             ELSE Agree(x, y)'
  <2>1. IF y \in erased THEN inputs[x][y] = 0 /\ users[x][y] = 0
                        ELSE Agree(x, y)
    BY DEF IInv, DefUse, Agree
  <2>2. CASE x = i /\ y = e
    BY <1>1, <1>2, <2>1, <2>2 DEF Agree
  <2>3. CASE ~(x = i /\ y = e)
    <3>1. inputs'[x][y] = inputs[x][y] /\ users'[y][x] = users[y][x]
      BY <1>1, <2>3
    <3>2. y \in erased => users'[x][y] = users[x][y]
      BY <1>1, <1>2
    <3> QED BY <1>1, <2>1, <3>1, <3>2 DEF Agree
  <2> QED BY <2>2, <2>3
<1> QED BY <1>1, <1>3 DEF DefUse, Agree

LEMMA EraseUse ==
  ASSUME IInv, NEW i \in Instr, NEW e \in Instr,
         inputs' = [inputs EXCEPT ![i][e] = 0],
         users' = [users EXCEPT ![e][i] = 0],
         UNCHANGED past
  PROVE  DefUse'
<1>1. /\ \A x, y \in Instr :
           inputs'[x][y] = IF x = i /\ y = e THEN 0 ELSE inputs[x][y]
      /\ \A x, y \in Instr :
           users'[x][y] = IF x = e /\ y = i THEN 0 ELSE users[x][y]
      /\ erased' = erased /\ edited' = edited
  BY DEF IInv, TypeOK, past
<1>2. ASSUME NEW x \in Instr \ erased, NEW y \in Instr
      PROVE  IF y \in erased THEN inputs'[x][y] = 0 /\ users'[x][y] = 0
                             ELSE Agree(x, y)'
  <2>1. IF y \in erased THEN inputs[x][y] = 0 /\ users[x][y] = 0
                        ELSE Agree(x, y)
    BY DEF IInv, DefUse, Agree
  <2> QED BY <1>1, <2>1 DEF Agree
<1> QED BY <1>1, <1>2 DEF DefUse, Agree

(* One entry of two is left among the inputs, both among the users.        *)
LEMMA UseOnce ==
  ASSUME IInv, NEW i \in Instr, NEW e \in Instr, bb[i] # Null, use_once(i, e)
  PROVE  DefUse'
<1>1. /\ \A x, y \in Instr :
           inputs'[x][y] = IF x = i /\ y = e THEN 1 ELSE inputs[x][y]
      /\ inputs[i][e] = 2 /\ users' = users
      /\ erased' = erased /\ edited' = edited \cup {i}
      /\ \A x, y \in Instr : inputs[x][y] \in Nat /\ users[x][y] \in Nat
  <2>1. /\ inputs[i] = [x \in Instr |-> IF x = e THEN 2 ELSE 0]
        /\ inputs' = [inputs EXCEPT ![i][e] = 1]
        /\ users' = users /\ erased' = erased /\ edited' = edited \cup {i}
    BY DEF use_once
  <2>2. /\ inputs \in [Instr -> [Instr -> 0 .. MaxUses]]
        /\ users \in [Instr -> [Instr -> 0 .. MaxUses]]
    BY DEF IInv, TypeOK
  <2>3. inputs[i][e] = 2
    BY <2>1
  <2>4. \A x, y \in Instr :
          inputs'[x][y] = IF x = i /\ y = e THEN 1 ELSE inputs[x][y]
    BY <2>1, <2>2
  <2>5. \A x, y \in Instr : inputs[x][y] \in Nat /\ users[x][y] \in Nat
    BY <2>2, BlockAssumption
  <2> QED BY <2>1, <2>3, <2>4, <2>5
<1>2. i \notin erased
  BY DEF IInv, ErasedOut
<1>3. ASSUME NEW x \in Instr \ erased, NEW y \in Instr
      PROVE  IF y \in erased THEN inputs'[x][y] = 0 /\ users'[x][y] = 0
                             ELSE Agree(x, y)'
  <2>1. IF y \in erased THEN inputs[x][y] = 0 /\ users[x][y] = 0
                        ELSE Agree(x, y)
    BY DEF IInv, DefUse, Agree
  <2> QED BY <1>1, <1>2, <2>1 DEF Agree
<1> QED BY <1>1, <1>3 DEF DefUse, Agree

LEMMA PushInv ==
  ASSUME IInv, TypeOK', NEW b \in Block, NEW i \in Instr, i \notin erased,
         push_instrs(b, i)
  PROVE  IInv'
<1>1. Placed' /\ Linked'
  BY PushPlaces DEF IInv
<1>2. UNCHANGED <<inputs, users, past>>
  BY DEF push_instrs, uses
<1>3. \A x \in Instr : bb'[x] = IF x = i THEN b ELSE bb[x]
  BY DEF push_instrs, IInv, TypeOK
<1>4. ErasedOut'
  BY <1>2, <1>3 DEF IInv, ErasedOut, TypeOK, past
<1>5. DefUse'
  BY <1>2 DEF IInv, DefUse, past
<1> QED BY <1>1, <1>4, <1>5 DEF IInv

LEMMA InvStep == IInv /\ [ContractNext]_vars => IInv'
<1> SUFFICES ASSUME IInv, [ContractNext]_vars PROVE IInv'
  OBVIOUS
<1>0. TypeOK'
  BY TypeStep DEF IInv
<1>1. ASSUME NEW i \in Instr, NEW e \in Instr, {i, e} \cap erased = {}, push_input(i, e)
      PROVE  IInv'
  <2>1. DefUse'
    BY <1>1, PushUse
  <2>2. UNCHANGED <<lists, links, past>>
    BY <1>1 DEF push_input
  <2>3. UNCHANGED <<instrs, bb, prev, next, past>>
    BY <2>2 DEF lists, links
  <2> QED BY <1>0, <2>1, <2>3 DEF IInv, Placed, Linked, ErasedOut, past
<1>2. ASSUME NEW i \in Instr, NEW e \in Instr, NEW b \in Block,
             erase_input(i, b, e) \/ erase_user(e, b, i)
      PROVE  IInv'
  <2>1. /\ inputs' = [inputs EXCEPT ![i][e] = 0]
        /\ users' = [users EXCEPT ![e][i] = 0]
        /\ UNCHANGED <<lists, links, past>>
    BY <1>2 DEF erase_input, erase_user
  <2>2. UNCHANGED <<instrs, bb, prev, next, past>>
    BY <2>1 DEF lists, links
  <2>3. DefUse'
    BY <2>1, <2>2, EraseUse
  <2> QED BY <1>0, <2>2, <2>3 DEF IInv, Placed, Linked, ErasedOut, past
<1>3. ASSUME NEW b \in Block, NEW i \in Instr, i \notin erased, push_instrs(b, i)
      PROVE  IInv'
  BY <1>0, <1>3, PushInv
<1>4. ASSUME NEW b \in Block, NEW i \in Instr, bb[i] = Null, i \notin erased,
             Construct(b, <<i>>)
      PROVE  IInv'
  <2>1. push_instrs(b, i)
    BY <1>4, ConstructIsPush DEF IInv
  <2> QED BY <1>0, <1>4, <2>1, PushInv
<1>5. ASSUME NEW b \in Block, NEW k \in 1 .. Len(instrs[b]), erase_instr(b, k)
      PROVE  IInv'
  BY <1>0, <1>5, ErasePlaces
<1>6. ASSUME NEW b \in Block, NEW k \in 1 .. Len(instrs[b]), cut_instr(b, k)
      PROVE  IInv'
  <2>1. Unlink(b, k) /\ UNCHANGED <<inputs, users, past>>
    BY <1>6 DEF cut_instr, uses
  <2>2. Placed' /\ Linked'
    BY <1>0, <2>1, UnlinkPlaces DEF IInv
  <2>3. instrs[b][k] \in Instr
    BY DEF IInv, TypeOK
  <2>4. \A x \in Instr : bb'[x] = IF x = instrs[b][k] THEN Null ELSE bb[x]
    BY <2>1, <2>3 DEF Unlink, IInv, TypeOK
  <2>5. ErasedOut'
    BY <2>1, <2>4 DEF IInv, ErasedOut, TypeOK, past
  <2>6. DefUse'
    BY <2>1 DEF IInv, DefUse, past
  <2> QED BY <1>0, <2>2, <2>5, <2>6 DEF IInv
<1>7. ASSUME NEW i \in Instr, NEW e \in Instr, bb[i] # Null, use_once(i, e)
      PROVE  IInv'
  <2>1. DefUse'
    BY <1>7, UseOnce
  <2>2. UNCHANGED <<instrs, bb, prev, next, erased>>
    BY <1>7 DEF use_once, lists, links
  <2> QED BY <1>0, <2>1, <2>2 DEF IInv, Placed, Linked, ErasedOut
<1>8. CASE UNCHANGED vars
  BY <1>0, <1>8 DEF vars, lists, links, uses, past, IInv, Placed, Linked, DefUse,
                    ErasedOut
<1> QED
  BY <1>1, <1>2, <1>3, <1>4, <1>5, <1>6, <1>7, <1>8
     DEF ContractNext, erase_unused_instr

LEMMA InvInit == Init => IInv
<1> SUFFICES ASSUME Init PROVE IInv
  OBVIOUS
<1>1. TypeOK /\ DefUse /\ ErasedOut
  BY BlockAssumption DEF Init, TypeOK, DefUse, ErasedOut
<1>2. /\ \A b \in Block : instrs[b] = <<>> /\ Len(instrs[b]) = 0
      /\ \A i \in Instr : bb[i] = Null /\ prev[i] = Null /\ next[i] = Null
  BY DEF Init
<1>3. Placed
  BY <1>1, <1>2, PlacedNow DEF ByIndex
<1>4. Linked
  BY <1>2 DEF Linked
<1> QED BY <1>1, <1>3, <1>4 DEF IInv

LEMMA InvAlways == ContractSpec => []IInv
BY InvInit, InvStep, PTL DEF ContractSpec

-----------------------------------------------------------------------------
(* RESULTS *)

(* For any number of instructions and blocks, a block lists exactly the    *)
(* instructions that point at it (basicblock.cpp, m_instrs and m_bb).      *)
THEOREM PlacedCorrect == ContractSpec => []Placed
<1>1. IInv => Placed
  BY DEF IInv
<1> QED BY <1>1, InvAlways, PTL

(* Neighbours point at each other, through all pushing, cutting and        *)
(* erasing (m_prev and m_next in basicblock.cpp and instruction.cc).       *)
THEOREM LinkedCorrect == ContractSpec => []Linked
<1>1. IInv => Linked
  BY DEF IInv
<1> QED BY <1>1, InvAlways, PTL

(* Inputs and users agree, and no instruction lists one that erase_instr   *)
(* took out (erase_dependencies in instruction.cc).                        *)
THEOREM DefUseCorrect == ContractSpec => []DefUse
<1>1. IInv => DefUse
  BY DEF IInv
<1> QED BY <1>1, InvAlways, PTL

LEMMA LooseUses == IInv => OnlyLooseUsesThrow
<1> SUFFICES ASSUME IInv, NEW b \in Block, Throws(b)
             PROVE  \E i \in Range(instrs[b]), x \in Instr \ erased :
                      bb[x] = Null /\ (inputs[i][x] > 0 \/ users[i][x] > 0)
  BY DEF OnlyLooseUsesThrow
<1> DEFINE s == instrs[b]
<1>1. PICK k \in 1 .. Len(s) :
        WrongDeps(s[k]) \/ bb[s[k]] # b \/ \E l \in 1 .. k - 1 : s[l] = s[k]
  BY DEF Throws
<1>2. s \in Seq(Instr) /\ Len(s) \in Nat
  BY DEF IInv, TypeOK
<1>3. /\ \A j, l \in 1 .. Len(s) : s[j] = s[l] => j = l
      /\ \A l \in 1 .. Len(s) : s[l] \in Instr /\ bb[s[l]] = b
  BY PlacedNow DEF IInv, ByIndex
<1>4. \A l \in 1 .. Len(s) :
        /\ prev[s[l]] = IF l = 1 THEN Null ELSE s[l - 1]
        /\ next[s[l]] = IF l = Len(s) THEN Null ELSE s[l + 1]
  BY DEF IInv, Linked
<1> DEFINE i == s[k]
<1> HIDE DEF s
<1>5. i \in Instr /\ bb[i] = b /\ i \notin erased
  BY <1>3, BlockAssumption DEF IInv, ErasedOut
<1>6. WrongDeps(i)
  <2>1. ~\E l \in 1 .. k - 1 : s[l] = s[k]
    BY <1>2, <1>3
  <2> QED BY <1>1, <1>3, <2>1
<1>7. i \in Range(instrs[b])
  BY <1>2 DEF Range, s
<1>8. /\ prev[i] # Null => next[prev[i]] = i
      /\ next[i] # Null => prev[next[i]] = i
  <2>1. ASSUME prev[i] # Null PROVE next[prev[i]] = i
    <3>1. /\ k # 1 /\ prev[i] = s[k - 1]
          /\ k - 1 \in 1 .. Len(s) /\ k - 1 # Len(s) /\ (k - 1) + 1 = k
      BY <1>2, <1>4, <2>1
    <3> QED BY <1>4, <3>1
  <2>2. ASSUME next[i] # Null PROVE prev[next[i]] = i
    <3>1. /\ k # Len(s) /\ next[i] = s[k + 1]
          /\ k + 1 \in 1 .. Len(s) /\ k + 1 # 1 /\ (k + 1) - 1 = k
      BY <1>2, <1>4, <2>2
    <3> QED BY <1>4, <3>1
  <2> QED BY <2>1, <2>2
<1> HIDE DEF i
<1>9. \A x, y \in Instr : inputs[x][y] \in Nat /\ users[x][y] \in Nat
  BY BlockAssumption DEF IInv, TypeOK
<1>10. CASE \E e \in Instr : inputs[i][e] > 0 /\ (bb[e] = Null \/ users[e][i] = 0)
  <2>1. PICK e \in Instr : inputs[i][e] > 0 /\ (bb[e] = Null \/ users[e][i] = 0)
    BY <1>10
  <2>2. e \notin erased /\ users[e][i] > 0
    BY <1>5, <1>9, <2>1 DEF IInv, DefUse
  <2> QED BY <1>7, <1>9, <2>1, <2>2
<1>11. CASE \E u \in Instr : users[i][u] > 0 /\ (bb[u] = Null \/ inputs[u][i] = 0)
  <2>1. PICK u \in Instr : users[i][u] > 0 /\ (bb[u] = Null \/ inputs[u][i] = 0)
    BY <1>11
  <2>2. u \notin erased /\ inputs[u][i] > 0
    BY <1>5, <1>9, <2>1 DEF IInv, DefUse
  <2> QED BY <1>7, <1>9, <2>1, <2>2
<1> QED BY <1>6, <1>8, <1>10, <1>11 DEF WrongDeps

(* The self-check of a block (throwIfNotConsistent_) fires only for an     *)
(* instruction that uses, or is used by, one that is in no block.          *)
THEOREM OnlyLooseUsesThrowCorrect == ContractSpec => []OnlyLooseUsesThrow
BY LooseUses, InvAlways, PTL
=============================================================================
