---------------------------- MODULE PassesProofs ----------------------------
(***************************************************************************)
(* The passes, for any well-formed program, blocks, order and bounds: they *)
(* keep lists and uses in agreement and operands before their users, what  *)
(* stops them is known, folding and the atomic peepholes leave nothing     *)
(* that they would do again, and every check is given what it was given    *)
(* before the first pass, as long as no value was folded to a wrong one.   *)
(***************************************************************************)
EXTENDS Passes, SequenceTheorems, FiniteSetTheorems, WellFoundedInduction, TLAPS

ControlOK ==
  /\ pass \in Passes \cup {"idle", "consts", "aborted"}
  /\ at \in 1 .. Len(Order) + 1 /\ it \in Nat \ {0}
  /\ pass = "fold" => at = 1
  /\ pass \in {"peep", "atomic"} => at >= 2

(* What removeUnusedConsts found is still there and still unused.          *)
KeysUnused == pass = "consts" =>
  \A key \in keys : key \in Placed(Header) /\ ir[key].users = {}

(* Nothing applies to what a pass has already left behind.                 *)
Settled(i) == Len(ir[i].inputs) = 2 => ~IsZero(i) /\ ~IsDouble(i)
BehindSettled ==
  /\ pass = "fold" =>
       \A k \in 1 .. Len(instrs[Second]) : k < it => ~Foldable(instrs[Second][k])
  /\ pass = "atomic" =>
       \A n \in 2 .. Len(Order) : \A k \in 1 .. Len(instrs[Order[n]]) :
         n < at \/ (n = at /\ k < it) => Settled(instrs[Order[n]][k])

Stopped == pass = "aborted" =>
  Stripped(ir, Current) \/ (at = 1 /\ ~Throws(ir, instrs, Current))

PassesInv == /\ WellFormed(ir, instrs, made)
             /\ ControlOK /\ KeysUnused /\ BehindSettled /\ Stopped

-----------------------------------------------------------------------------
(* LISTS: cutting one element, appending one.                              *)

(* What RemoveFirst leaves of a list without repetitions, place by place.  *)
LEMMA CutPlaces ==
  ASSUME NEW S, NEW s \in Seq(S), IsInjective(s), NEW k \in 1 .. Len(s)
  PROVE  /\ RemoveFirst(s, s[k]) \in Seq(S)
         /\ Len(RemoveFirst(s, s[k])) = Len(s) - 1
         /\ \A j \in 1 .. Len(s) - 1 :
              RemoveFirst(s, s[k])[j] = IF j < k THEN s[j] ELSE s[j + 1]
<1>1. {j \in 1 .. Len(s) : s[j] = s[k]} = {k}
  BY DEF IsInjective
<1>2. Min({k}) = k
  BY DEF Min
<1>3. SelectInSeq(s, LAMBDA v : v = s[k]) = k
  BY <1>1, <1>2 DEF SelectInSeq
<1> DEFINE a == SubSeq(s, 1, k - 1)
           b == SubSeq(s, k + 1, Len(s))
<1>4. RemoveFirst(s, s[k]) = a \o b
  BY <1>3 DEF RemoveFirst, RemoveAt
<1>5. /\ a \in Seq(S) /\ Len(a) = k - 1
      /\ \A i \in 1 .. k - 1 : a[i] = s[i]
  <2>1. /\ 1 \in Int /\ k - 1 \in Int /\ \A i \in 1 .. k - 1 : s[i] \in S
    OBVIOUS
  <2>2. /\ a \in Seq(S) /\ Len(a) = IF 1 <= k - 1 THEN (k - 1) - 1 + 1 ELSE 0
        /\ \A i \in 1 .. (k - 1) - 1 + 1 : a[i] = s[1 + i - 1]
    BY <2>1, SubSeqProperties
  <2> QED BY <2>2
<1>6. /\ b \in Seq(S) /\ Len(b) = Len(s) - k
      /\ \A i \in 1 .. Len(s) - k : b[i] = s[k + i]
  <2>1. /\ k + 1 \in Int /\ Len(s) \in Int /\ \A i \in k + 1 .. Len(s) : s[i] \in S
    OBVIOUS
  <2>2. /\ b \in Seq(S) /\ Len(b) = IF k + 1 <= Len(s) THEN Len(s) - (k + 1) + 1 ELSE 0
        /\ \A i \in 1 .. Len(s) - (k + 1) + 1 : b[i] = s[(k + 1) + i - 1]
    BY <2>1, SubSeqProperties
  <2> QED BY <2>2
<1> HIDE DEF a, b
<1>7. /\ a \o b \in Seq(S) /\ Len(a \o b) = Len(a) + Len(b)
      /\ \A i \in 1 .. Len(a) + Len(b) :
           (a \o b)[i] = IF i <= Len(a) THEN a[i] ELSE b[i - Len(a)]
  BY <1>5, <1>6, ConcatProperties
<1>8. Len(a) + Len(b) = Len(s) - 1
  BY <1>5, <1>6
<1>9. ASSUME NEW j \in 1 .. Len(s) - 1
      PROVE  (a \o b)[j] = IF j < k THEN s[j] ELSE s[j + 1]
  <2>1. CASE j < k
    BY <1>5, <1>7, <1>8, <2>1
  <2>2. CASE ~(j < k)
    <3>1. j - (k - 1) \in 1 .. Len(s) - k /\ k + (j - (k - 1)) = j + 1
      BY <2>2
    <3>2. (a \o b)[j] = b[j - (k - 1)]
      BY <1>5, <1>7, <1>8, <2>2
    <3> QED BY <1>6, <2>2, <3>1, <3>2
  <2> QED BY <2>1, <2>2
<1> QED BY <1>4, <1>7, <1>8, <1>9

(* The other elements keep their order.                                    *)
LEMMA CutList ==
  ASSUME NEW S, NEW s \in Seq(S), IsInjective(s), NEW i \in ToSet(s)
  PROVE  /\ RemoveFirst(s, i) \in Seq(S) /\ IsInjective(RemoveFirst(s, i))
         /\ ToSet(RemoveFirst(s, i)) = ToSet(s) \ {i}
         /\ \A a, c : a # i /\ c # i /\ Before(s, a, c)
                       => Before(RemoveFirst(s, i), a, c)
<1>1. PICK k \in 1 .. Len(s) : s[k] = i
  BY DEF ToSet
<1> DEFINE t == RemoveFirst(s, i)
<1>2. /\ t \in Seq(S) /\ Len(t) = Len(s) - 1
      /\ \A j \in 1 .. Len(s) - 1 : t[j] = IF j < k THEN s[j] ELSE s[j + 1]
  BY <1>1, CutPlaces
<1> HIDE DEF t
<1> DEFINE from(j) == IF j < k THEN j ELSE j + 1
           to(j) == IF j < k THEN j ELSE j - 1
<1>3. /\ \A j \in 1 .. Len(t) : /\ from(j) \in 1 .. Len(s) /\ from(j) # k
                                /\ t[j] = s[from(j)]
      /\ \A j, h \in 1 .. Len(t) : from(j) = from(h) => j = h
  BY <1>2
<1>4. \A j \in 1 .. Len(s) : j # k => to(j) \in 1 .. Len(t) /\ t[to(j)] = s[j]
  <2>1. ASSUME NEW j \in 1 .. Len(s), j # k
        PROVE  to(j) \in 1 .. Len(t) /\ t[to(j)] = s[j]
    <3>1. CASE j < k
      BY <1>2, <3>1
    <3>2. CASE ~(j < k)
      <4>1. /\ to(j) = j - 1 /\ j - 1 \in 1 .. Len(s) - 1
            /\ ~(j - 1 < k) /\ (j - 1) + 1 = j
        BY <2>1, <3>2
      <4> QED BY <1>2, <4>1
    <3> QED BY <3>1, <3>2
  <2> QED BY <2>1
<1>5. IsInjective(t)
  <2>1. ASSUME NEW j \in 1 .. Len(t), NEW h \in 1 .. Len(t), t[j] = t[h] PROVE j = h
    <3>1. s[from(j)] = s[from(h)]
      BY <1>3, <2>1
    <3>2. from(j) = from(h)
      BY <1>3, <3>1 DEF IsInjective
    <3> QED BY <1>3, <3>2
  <2> QED BY <1>2, <2>1 DEF IsInjective
<1>6. ToSet(t) = ToSet(s) \ {i}
  <2>1. ASSUME NEW v \in ToSet(t) PROVE v \in ToSet(s) /\ v # i
    <3>1. PICK j \in 1 .. Len(t) : t[j] = v
      BY <1>2, <2>1 DEF ToSet
    <3>2. s[from(j)] = v /\ from(j) \in 1 .. Len(s) /\ from(j) # k
      BY <1>3, <3>1
    <3> QED BY <1>1, <3>2 DEF ToSet, IsInjective
  <2>2. ASSUME NEW v \in ToSet(s), v # i PROVE v \in ToSet(t)
    <3>1. PICK j \in 1 .. Len(s) : s[j] = v
      BY DEF ToSet
    <3>2. to(j) \in 1 .. Len(t) /\ t[to(j)] = v
      BY <1>1, <1>4, <2>2, <3>1
    <3> QED BY <1>2, <3>2 DEF ToSet
  <2> QED BY <2>1, <2>2
<1>7. ASSUME NEW a, NEW c, a # i, c # i, Before(s, a, c) PROVE Before(t, a, c)
  <2>1. PICK j \in 1 .. Len(s), h \in 1 .. Len(s) : j < h /\ s[j] = a /\ s[h] = c
    BY <1>7 DEF Before
  <2>2. j # k /\ h # k
    BY <1>1, <1>7, <2>1
  <2>3. to(j) < to(h)
    BY <2>1, <2>2
  <2>4. to(j) \in 1 .. Len(t) /\ t[to(j)] = a /\ to(h) \in 1 .. Len(t) /\ t[to(h)] = c
    BY <1>4, <2>1, <2>2
  <2> HIDE DEF to
  <2> QED BY <2>3, <2>4 DEF Before
<1> QED BY <1>2, <1>5, <1>6, <1>7 DEF t

LEMMA PushList ==
  ASSUME NEW S, NEW s \in Seq(S), IsInjective(s), NEW i \in S, i \notin ToSet(s)
  PROVE  /\ Append(s, i) \in Seq(S) /\ IsInjective(Append(s, i))
         /\ ToSet(Append(s, i)) = ToSet(s) \cup {i}
<1> DEFINE t == Append(s, i)
<1>1. /\ t \in Seq(S) /\ Len(t) = Len(s) + 1 /\ t[Len(s) + 1] = i
      /\ \A k \in 1 .. Len(s) : t[k] = s[k]
  OBVIOUS
<1> HIDE DEF t
<1>2. \A k \in 1 .. Len(s) : s[k] # i
  BY DEF ToSet
<1>3. IsInjective(t)
  <2>1. ASSUME NEW j \in 1 .. Len(s) + 1, NEW h \in 1 .. Len(s) + 1, t[j] = t[h]
        PROVE  j = h
    BY <1>1, <1>2, <2>1 DEF IsInjective
  <2> QED BY <1>1, <2>1 DEF IsInjective
<1>4. ToSet(t) = ToSet(s) \cup {i}
  <2>1. \A v \in ToSet(t) : v \in ToSet(s) \cup {i}
    BY <1>1 DEF ToSet
  <2>2. \A v \in ToSet(s) : v \in ToSet(t)
    BY <1>1 DEF ToSet
  <2>3. i \in ToSet(t)
    BY <1>1 DEF ToSet
  <2> QED BY <2>1, <2>2, <2>3
<1> QED BY <1>1, <1>3, <1>4 DEF t

-----------------------------------------------------------------------------
(* THE LISTS OF THE BLOCKS                                                 *)

Lists(l) ==
  /\ l \in [Block -> Seq(Instr)]
  /\ \A b \in Block : IsInjective(l[b])
  /\ \A b, c \in Block : b # c => In(l, b) \cap In(l, c) = {}

Cut(l, b, i)  == [l EXCEPT ![b] = RemoveFirst(@, i)]
Push(l, b, i) == [l EXCEPT ![b] = Append(@, i)]

LEMMA InInstr ==
  ASSUME NEW l \in [Block -> Seq(Instr)]
  PROVE  /\ \A b \in Block : In(l, b) \subseteq Instr
         /\ AllIn(l) \subseteq Instr
<1>1. \A b \in Block : In(l, b) \subseteq Instr
  BY DEF In, ToSet
<1> QED BY <1>1 DEF AllIn

LEMMA InAll ==
  ASSUME NEW l, NEW b \in Block
  PROVE  In(l, b) \subseteq AllIn(l)
BY DEF AllIn

LEMMA CutLists ==
  ASSUME NEW l, Lists(l), NEW b \in Block, NEW i \in In(l, b)
  PROVE  LET r == Cut(l, b, i) IN
         /\ Lists(r)
         /\ In(r, b) = In(l, b) \ {i}
         /\ \A c \in Block \ {b} : r[c] = l[c] /\ In(r, c) = In(l, c)
         /\ AllIn(r) = AllIn(l) \ {i}
         /\ r[b] = RemoveFirst(l[b], i)
         /\ \A c \in Block : \A a, d : a # i /\ d # i /\ Before(l[c], a, d)
                                     => Before(r[c], a, d)
<1> DEFINE t == RemoveFirst(l[b], i)
           r == Cut(l, b, i)
<1>1. /\ l \in [Block -> Seq(Instr)] /\ r = [l EXCEPT ![b] = t]
      /\ l[b] \in Seq(Instr) /\ IsInjective(l[b]) /\ i \in ToSet(l[b])
  BY DEF Lists, In, Cut
<1>2. /\ t \in Seq(Instr) /\ IsInjective(t) /\ ToSet(t) = ToSet(l[b]) \ {i}
      /\ \A a, d : a # i /\ d # i /\ Before(l[b], a, d) => Before(t, a, d)
  BY <1>1, CutList
<1> HIDE DEF t, r
<1>3. /\ r \in [Block -> Seq(Instr)] /\ r[b] = t
      /\ \A c \in Block \ {b} : r[c] = l[c]
  BY <1>1, <1>2
<1>4. In(r, b) = In(l, b) \ {i} /\ \A c \in Block \ {b} : In(r, c) = In(l, c)
  BY <1>2, <1>3 DEF In
<1>5. \A c \in Block : IsInjective(r[c])
  BY <1>2, <1>3 DEF Lists
<1>6. \A c \in Block \ {b} : i \notin In(l, c)
  BY DEF Lists
<1>7. \A c, d \in Block : c # d => In(r, c) \cap In(r, d) = {}
  BY <1>4 DEF Lists
<1>8. AllIn(r) = AllIn(l) \ {i}
  BY <1>4, <1>6 DEF AllIn
<1>9. ASSUME NEW c \in Block, NEW a, NEW d, a # i, d # i, Before(l[c], a, d)
      PROVE  Before(r[c], a, d)
  BY <1>2, <1>3, <1>9
<1> QED BY <1>3, <1>4, <1>5, <1>7, <1>8, <1>9 DEF Lists, t, r

LEMMA PushLists ==
  ASSUME NEW l, Lists(l), NEW h \in Block, NEW i \in Instr, i \notin AllIn(l)
  PROVE  LET r == Push(l, h, i) IN
         /\ Lists(r)
         /\ In(r, h) = In(l, h) \cup {i}
         /\ \A c \in Block \ {h} : r[c] = l[c] /\ In(r, c) = In(l, c)
         /\ AllIn(r) = AllIn(l) \cup {i}
<1> DEFINE t == Append(l[h], i)
           r == Push(l, h, i)
<1>1. /\ l \in [Block -> Seq(Instr)] /\ r = [l EXCEPT ![h] = t]
      /\ l[h] \in Seq(Instr) /\ IsInjective(l[h]) /\ i \notin ToSet(l[h])
  BY DEF Lists, In, AllIn, Push
<1>2. t \in Seq(Instr) /\ IsInjective(t) /\ ToSet(t) = ToSet(l[h]) \cup {i}
  BY <1>1, PushList
<1> HIDE DEF t, r
<1>3. /\ r \in [Block -> Seq(Instr)] /\ r[h] = t
      /\ \A c \in Block \ {h} : r[c] = l[c]
  BY <1>1, <1>2
<1>4. In(r, h) = In(l, h) \cup {i} /\ \A c \in Block \ {h} : In(r, c) = In(l, c)
  BY <1>2, <1>3 DEF In
<1>5. \A c \in Block : IsInjective(r[c])
  BY <1>2, <1>3 DEF Lists
<1>6. \A c \in Block : i \notin In(l, c)
  BY DEF AllIn
<1>7. ASSUME NEW c \in Block, NEW d \in Block, c # d
      PROVE  In(r, c) \cap In(r, d) = {}
  <2>1. In(l, c) \cap In(l, d) = {} /\ i \notin In(l, c) /\ i \notin In(l, d)
    BY <1>6, <1>7 DEF Lists
  <2> QED BY <1>4, <1>7, <2>1
<1>8. AllIn(r) = AllIn(l) \cup {i}
  BY <1>4 DEF AllIn
<1> QED BY <1>3, <1>4, <1>5, <1>7, <1>8 DEF Lists, r

Moved(r, b, i) ==
  /\ Lists(r)
  /\ In(r, b) = In(instrs, b) \ {i}
  /\ In(r, Header) = In(instrs, Header) \cup {i}
  /\ \A c \in Block \ {b, Header} : r[c] = instrs[c] /\ In(r, c) = In(instrs, c)
  /\ AllIn(r) = AllIn(instrs)
  /\ r[b] = RemoveFirst(instrs[b], i)
  /\ \A c \in Block \ {Header} :
       \A a, d : a # i /\ d # i /\ Before(instrs[c], a, d) => Before(r[c], a, d)

LEMMA MoveLists ==
  ASSUME Lists(instrs), NEW b \in Block \ {Header}, NEW i \in In(instrs, b)
  PROVE  Moved(MovedToHead(b, i), b, i)
<1> DEFINE l == instrs
           s == Cut(l, b, i)
           r == Push(s, Header, i)
<1>1. Header \in Block /\ b \in Block /\ b # Header
  BY PassesAssumption
<1>2. i \in Instr /\ i \in AllIn(l)
  BY <1>1, InInstr, InAll DEF Lists
<1>3. /\ Lists(s) /\ In(s, b) = In(l, b) \ {i}
      /\ \A c \in Block \ {b} : s[c] = l[c] /\ In(s, c) = In(l, c)
      /\ AllIn(s) = AllIn(l) \ {i} /\ s[b] = RemoveFirst(l[b], i)
      /\ \A c \in Block : \A a, d : a # i /\ d # i /\ Before(l[c], a, d)
                                  => Before(s[c], a, d)
  BY <1>1, CutLists
<1> HIDE DEF s
<1>4. /\ Lists(r) /\ In(r, Header) = In(s, Header) \cup {i}
      /\ \A c \in Block \ {Header} : r[c] = s[c] /\ In(r, c) = In(s, c)
      /\ AllIn(r) = AllIn(s) \cup {i}
  BY <1>1, <1>2, <1>3, PushLists
<1> HIDE DEF r
<1>5. AllIn(r) = AllIn(l)
  BY <1>2, <1>3, <1>4
<1>6. MovedToHead(b, i) = r
  BY DEF MovedToHead, Push, Cut, s, r
<1>7. Moved(r, b, i)
  BY <1>1, <1>3, <1>4, <1>5 DEF Moved
<1> QED BY <1>6, <1>7

-----------------------------------------------------------------------------
(* OPERANDS BEFORE USERS                                                   *)

LEMMA OrderFacts ==
  /\ Header \in Block /\ Len(Order) \in Nat \ {0}
  /\ \A n \in 2 .. Len(Order) : Order[n] \in Block \ {Header}
  /\ \A n, m \in 2 .. Len(Order) : Order[n] = Order[m] => n = m
<1>1. /\ Order \in Seq(Block) /\ Order # <<>> /\ Order[1] = Header
      /\ \A n, m \in 1 .. Len(Order) : Order[n] = Order[m] => n = m
  BY PassesAssumption DEF IsInjective
<1>2. Header \in Block /\ Len(Order) \in Nat \ {0}
  BY <1>1, PassesAssumption
<1>3. ASSUME NEW n \in 2 .. Len(Order) PROVE Order[n] \in Block \ {Header}
  BY <1>1, <1>2
<1> QED BY <1>1, <1>2, <1>3

LEMMA BeforeIn ==
  ASSUME NEW l \in [Block -> Seq(Instr)], NEW b \in Block, NEW e, NEW i,
         Before(l[b], e, i)
  PROVE  e \in In(l, b) /\ i \in In(l, b)
BY DEF Before, In, ToSet

LEMMA BeforeTrans ==
  ASSUME NEW S, NEW s \in Seq(S), IsInjective(s), NEW a, NEW c, NEW d,
         Before(s, a, c), Before(s, c, d)
  PROVE  Before(s, a, d)
<1>1. PICK j \in 1 .. Len(s), k \in 1 .. Len(s) : j < k /\ s[j] = a /\ s[k] = c
  BY DEF Before
<1>2. PICK g \in 1 .. Len(s), h \in 1 .. Len(s) : g < h /\ s[g] = c /\ s[h] = d
  BY DEF Before
<1>3. k = g
  BY <1>1, <1>2 DEF IsInjective
<1>4. j < h
  BY <1>1, <1>2, <1>3
<1> QED BY <1>1, <1>2, <1>4 DEF Before

(* Ordered, of one operand of an instruction in the n-th block.            *)
Known(l, n, e, i) ==
  \/ e \in In(l, Header)
  \/ \E m \in 2 .. n - 1 : e \in In(l, Order[m])
  \/ Before(l[Order[n]], e, i)

(* An operand of an operand is known as well.                              *)
LEMMA KnownTrans ==
  ASSUME NEW p, NEW l, Lists(l), Ordered(p, l), NEW n \in 2 .. Len(Order),
         NEW i \in In(l, Order[n]), NEW y \in Operands(p, i),
         y \notin In(l, Header), NEW e \in Operands(p, y)
  PROVE  Known(l, n, e, i)
<1>1. Known(l, n, y, i)
  BY DEF Ordered, Known
<1>2. CASE \E m \in 2 .. n - 1 : y \in In(l, Order[m])
  <2>1. PICK m \in 2 .. n - 1 : y \in In(l, Order[m])
    BY <1>2
  <2>2. m \in 2 .. Len(Order)
    BY OrderFacts
  <2>3. Known(l, m, e, y)
    BY <2>1, <2>2 DEF Ordered, Known
  <2>4. CASE \E g \in 2 .. m - 1 : e \in In(l, Order[g])
    BY <2>4 DEF Known
  <2>5. CASE Before(l[Order[m]], e, y)
    <3>1. e \in In(l, Order[m])
      BY <2>2, <2>5, OrderFacts, BeforeIn DEF Lists
    <3> QED BY <3>1 DEF Known
  <2> QED BY <2>3, <2>4, <2>5 DEF Known
<1>3. CASE Before(l[Order[n]], y, i)
  <2>1. /\ Order[n] \in Block /\ l[Order[n]] \in Seq(Instr)
        /\ IsInjective(l[Order[n]]) /\ l \in [Block -> Seq(Instr)]
    BY OrderFacts DEF Lists
  <2>2. y \in In(l, Order[n])
    BY <1>3, <2>1, BeforeIn
  <2>3. Known(l, n, e, y)
    BY <2>2 DEF Ordered, Known
  <2>4. CASE Before(l[Order[n]], e, y)
    <3>1. Before(l[Order[n]], e, i)
      BY <1>3, <2>1, <2>4, BeforeTrans
    <3> QED BY <3>1 DEF Known
  <2> QED BY <2>3, <2>4 DEF Known
<1> QED BY <1>1, <1>2, <1>3 DEF Known

(* Within a block of Order an operand stands before its user.              *)
LEMMA KnownInside ==
  ASSUME NEW l, Lists(l), NEW n \in 2 .. Len(Order), NEW i,
         NEW e \in In(l, Order[n]), Known(l, n, e, i)
  PROVE  Before(l[Order[n]], e, i)
<1>1. e \notin In(l, Header)
  BY OrderFacts DEF Lists
<1>2. ASSUME NEW m \in 2 .. n - 1 PROVE e \notin In(l, Order[m])
  <2>1. m \in 2 .. Len(Order) /\ m # n
    BY OrderFacts
  <2> QED BY <2>1, OrderFacts DEF Lists
<1> QED BY <1>1, <1>2 DEF Known

(* The lists l become r and the instructions p become q: the order is kept *)
(* when no list but the header's gets anything or changes its order, and   *)
(* an instruction gets no operand but one in the header, or one of an      *)
(* operand of its own.                                                     *)
LEMMA OrderedKept ==
  ASSUME NEW p, NEW l, NEW q, NEW r, Lists(l), Lists(r),
         Ordered(p, l), OrderedInside(p, l),
         \A b \in Block \ {Header} :
           /\ In(r, b) \subseteq In(l, b)
           /\ \A a, d \in In(r, b) : Before(l[b], a, d) => Before(r[b], a, d),
         \A b \in Block \ {Header} : \A i \in In(r, b) : \A e \in Operands(q, i) :
           \/ e \in In(r, Header)
           \/ /\ \A c \in Block : e \in In(l, c) => e \in In(r, c)
              /\ \/ e \in Operands(p, i)
                 \/ /\ \E n \in 2 .. Len(Order) : b = Order[n]
                    /\ \E y \in Operands(p, i) :
                         y \notin In(l, Header) /\ e \in Operands(p, y)
  PROVE  Ordered(q, r) /\ OrderedInside(q, r)
<1>1. ASSUME NEW n \in 2 .. Len(Order), NEW i \in In(r, Order[n]),
             NEW e \in Operands(q, i)
      PROVE  Known(r, n, e, i)
  <2> DEFINE b == Order[n]
  <2>1. b \in Block \ {Header} /\ i \in In(l, b) /\ i \in In(r, b)
    BY OrderFacts
  <2>2. CASE e \in In(r, Header)
    BY <2>2 DEF Known
  <2>3. CASE e \notin In(r, Header)
    <3>1. \A c \in Block : e \in In(l, c) => e \in In(r, c)
      BY <2>1, <2>3
    <3>2. Known(l, n, e, i)
      <4>1. CASE e \in Operands(p, i)
        BY <2>1, <4>1 DEF Ordered, Known
      <4>2. CASE e \notin Operands(p, i)
        <5>1. PICK y \in Operands(p, i) : y \notin In(l, Header) /\ e \in Operands(p, y)
          BY <2>1, <2>3, <4>2
        <5> QED BY <2>1, <5>1, KnownTrans
      <4> QED BY <4>1, <4>2
    <3>3. ASSUME NEW m \in 2 .. n - 1, e \in In(l, Order[m])
          PROVE  e \in In(r, Order[m])
      <4>1. m \in 2 .. Len(Order)
        BY OrderFacts
      <4> QED BY <3>1, <3>3, <4>1, OrderFacts
    <3>4. ASSUME Before(l[b], e, i) PROVE Before(r[b], e, i)
      <4>1. e \in In(l, b)
        BY <2>1, <3>4, BeforeIn DEF Lists
      <4> QED BY <2>1, <3>1, <3>4, <4>1
    <3>5. e \notin In(l, Header)
      BY <2>3, <3>1, OrderFacts
    <3> QED BY <3>2, <3>3, <3>4, <3>5 DEF Known
  <2> QED BY <2>2, <2>3
<1>2. Ordered(q, r)
  BY <1>1 DEF Ordered, Known
<1>3. ASSUME NEW b \in Block \ {Header}, NEW i \in In(r, b), NEW e \in In(r, b),
             e \in Operands(q, i)
      PROVE  Before(r[b], e, i)
  <2>1. CASE \E n \in 2 .. Len(Order) : b = Order[n]
    BY <1>1, <1>3, <2>1, KnownInside
  <2>2. CASE ~\E n \in 2 .. Len(Order) : b = Order[n]
    <3>1. e \notin In(r, Header)
      BY OrderFacts DEF Lists
    <3>2. e \in Operands(p, i) /\ i \in In(l, b) /\ e \in In(l, b)
      BY <1>3, <2>2, <3>1
    <3>3. Before(l[b], e, i)
      BY <3>2 DEF OrderedInside
    <3> QED BY <3>3
  <2> QED BY <2>1, <2>2
<1>4. OrderedInside(q, r)
  BY <1>3 DEF OrderedInside
<1> QED BY <1>2, <1>4

-----------------------------------------------------------------------------
(* THE EDITS KEEP A PROGRAM WELL FORMED                                    *)

Shaped(p) ==
  p = [i \in Instr |-> [opcd |-> p[i].opcd, type |-> p[i].type, val |-> p[i].val,
                        inputs |-> p[i].inputs, users |-> p[i].users]]

LEMMA WellFormedFacts ==
  ASSUME NEW p, NEW l, NEW m, WellFormed(p, l, m)
  PROVE  /\ Shaped(p) /\ Lists(l) /\ m \in 0 .. MaxInstr
         /\ \A i \in Instr : p[i].inputs \in Seq(Instr) /\ p[i].users \subseteq Instr
         /\ AllIn(l) \subseteq Instr /\ AllIn(l) \subseteq 1 .. m
<1>1. WellTyped(p, l, m) /\ Agree(p, l)
  BY DEF WellFormed
<1>2. Shaped(p) /\ Lists(l)
  BY <1>1 DEF WellTyped, Agree, Shaped, Lists
<1>3. AllIn(l) \subseteq Instr
  BY <1>1, InInstr DEF WellTyped
<1> QED BY <1>1, <1>2, <1>3 DEF WellTyped

LEMMA WellFormedIntro ==
  ASSUME NEW p, NEW l, NEW m \in 0 .. MaxInstr, Shaped(p), Lists(l),
         \A i \in Instr : p[i].inputs \in Seq(Instr) /\ p[i].users \subseteq Instr,
         AllIn(l) \subseteq 1 .. m,
         \A i, e \in AllIn(l) : e \in Operands(p, i) <=> i \in p[e].users,
         \A i \in AllIn(l) : Operands(p, i) \cup p[i].users \subseteq AllIn(l),
         Ordered(p, l), OrderedInside(p, l),
         \A i \in AllIn(l) : Throws(p, l, i) => Stripped(p, i)
  PROVE  WellFormed(p, l, m)
<1>1. WellTyped(p, l, m)
  BY DEF WellTyped, Shaped, Lists
<1>2. Agree(p, l)
  BY DEF Agree, Lists
<1> QED BY <1>1, <1>2 DEF WellFormed

(* An instruction is a constant with value v now.                          *)
AsConst(i, v) == [ir EXCEPT ![i].type = "CONST", ![i].val = v]

LEMMA AsConstFacts ==
  ASSUME Shaped(ir), NEW i \in Instr, NEW v
  PROVE  LET q == AsConst(i, v) IN
         /\ Shaped(q) /\ q[i].type = "CONST" /\ q[i].val = v
         /\ \A k \in Instr : /\ q[k].opcd = ir[k].opcd /\ q[k].inputs = ir[k].inputs
                             /\ q[k].users = ir[k].users
         /\ \A k \in Instr \ {i} : q[k] = ir[k]
<1> DEFINE q == AsConst(i, v)
<1>1. q = [k \in Instr |-> IF k = i
             THEN [opcd |-> ir[i].opcd, type |-> "CONST", val |-> v,
                   inputs |-> ir[i].inputs, users |-> ir[i].users]
             ELSE ir[k]]
  <2> DEFINE one == [ir EXCEPT ![i].type = "CONST"]
  <2>1. /\ ir = [k \in Instr |-> ir[k]]
        /\ ir[i] = [opcd |-> ir[i].opcd, type |-> ir[i].type, val |-> ir[i].val,
                    inputs |-> ir[i].inputs, users |-> ir[i].users]
    BY DEF Shaped
  <2>2. one = [k \in Instr |-> IF k = i
                 THEN [opcd |-> ir[i].opcd, type |-> "CONST", val |-> ir[i].val,
                       inputs |-> ir[i].inputs, users |-> ir[i].users]
                 ELSE ir[k]]
    BY <2>1
  <2>3. q = [one EXCEPT ![i].val = v]
    BY DEF AsConst
  <2> HIDE DEF one, q
  <2> QED BY <2>2, <2>3
<1> HIDE DEF q
<1> QED BY <1>1 DEF Shaped, q

(* Folded or made zero: the instruction goes to the header.                *)
LEMMA AsConstWell ==
  ASSUME WellFormed(ir, instrs, made), NEW b \in Block \ {Header},
         NEW i \in Placed(b), Len(ir[i].inputs) = 2, NEW v
  PROVE  WellFormed(AsConst(i, v), MovedToHead(b, i), made)
<1> DEFINE q == AsConst(i, v)
           r == MovedToHead(b, i)
<1>1. /\ Shaped(ir) /\ Lists(instrs) /\ made \in 0 .. MaxInstr
      /\ AllIn(instrs) \subseteq Instr /\ AllIn(instrs) \subseteq 1 .. made
      /\ \A k \in Instr : ir[k].inputs \in Seq(Instr) /\ ir[k].users \subseteq Instr
  BY WellFormedFacts
<1>2. i \in AllIn(instrs) /\ i \in Instr /\ i \in In(instrs, b)
  BY <1>1, InAll DEF Placed
<1> HIDE DEF q, r
<1>4. /\ Lists(r) /\ AllIn(r) = AllIn(instrs)
      /\ In(r, b) = In(instrs, b) \ {i} /\ In(r, Header) = In(instrs, Header) \cup {i}
      /\ \A c \in Block \ {b, Header} : In(r, c) = In(instrs, c)
      /\ \A c \in Block \ {Header} :
           \A a, d : a # i /\ d # i /\ Before(instrs[c], a, d) => Before(r[c], a, d)
  <2>1. Moved(r, b, i)
    BY <1>1, <1>2, MoveLists DEF r
  <2> QED BY <2>1 DEF Moved
<1>5. /\ Shaped(q) /\ q[i].type = "CONST"
      /\ \A k \in Instr : /\ q[k].opcd = ir[k].opcd /\ q[k].inputs = ir[k].inputs
                          /\ q[k].users = ir[k].users
      /\ \A k \in Instr \ {i} : q[k] = ir[k]
  BY <1>1, <1>2, AsConstFacts DEF q
<1>6. \A k \in Instr : Operands(q, k) = Operands(ir, k)
  BY <1>5 DEF Operands
<1>7. Ordered(q, r) /\ OrderedInside(q, r)
  <2>1. \A c \in Block \ {Header} : In(r, c) \subseteq In(instrs, c) \ {i}
    <3>1. \A c \in Block \ {b} : i \notin In(instrs, c)
      BY <1>1, <1>2 DEF Lists
    <3> QED BY <1>4, <3>1
  <2>2. ASSUME NEW c \in Block \ {Header}, NEW k \in In(r, c), NEW e \in Operands(q, k),
               e \notin In(r, Header)
        PROVE  e \in Operands(ir, k) /\ \A d \in Block : e \in In(instrs, d) => e \in In(r, d)
    <3>1. k \in Instr
      BY <1>1, <2>1, InAll
    <3>2. e # i
      BY <1>4, <2>2
    <3>3. \A d \in Block : In(instrs, d) \ {i} \subseteq In(r, d)
      BY <1>4
    <3>4. \A d \in Block : e \in In(instrs, d) => e \in In(r, d)
      BY <3>2, <3>3
    <3> QED BY <1>6, <3>1, <3>4
  <2>3. Ordered(ir, instrs) /\ OrderedInside(ir, instrs)
    BY DEF WellFormed
  <2>4. \A c \in Block \ {Header} :
          /\ In(r, c) \subseteq In(instrs, c)
          /\ \A a, d \in In(r, c) : Before(instrs[c], a, d) => Before(r[c], a, d)
    BY <1>4, <2>1
  <2>5. \A c \in Block \ {Header} : \A k \in In(r, c) : \A e \in Operands(q, k) :
          \/ e \in In(r, Header)
          \/ /\ \A d \in Block : e \in In(instrs, d) => e \in In(r, d)
             /\ e \in Operands(ir, k)
    BY <2>2
  <2> QED BY <1>1, <1>4, <2>3, <2>4, <2>5, OrderedKept
<1>8. ASSUME NEW k \in AllIn(r), Throws(q, r, k) PROVE Stripped(q, k)
  <2>1. k \in Instr /\ k \in AllIn(instrs)
    BY <1>1, <1>4
  <2>2. CASE k = i
    <3>1. WrongInputCount(ir, i)
      BY <1>5, <1>8, <2>1, <2>2 DEF Throws, WrongInputCount
    <3>2. Stripped(ir, i)
      BY <1>2, <3>1 DEF WellFormed, Throws
    <3> QED BY <3>2 DEF Stripped
  <2>3. CASE k # i
    <3>1. q[k] = ir[k] /\ (k \in In(r, Header) => k \in In(instrs, Header))
      BY <1>4, <1>5, <2>1, <2>3
    <3>2. Throws(ir, instrs, k)
      BY <1>8, <3>1 DEF Throws, WrongInputCount
    <3> QED BY <2>1, <3>1, <3>2 DEF WellFormed, Stripped
  <2> QED BY <2>2, <2>3
<1>9. /\ \A k, e \in AllIn(r) : e \in Operands(q, k) <=> k \in q[e].users
      /\ \A k \in AllIn(r) : Operands(q, k) \cup q[k].users \subseteq AllIn(r)
  BY <1>1, <1>4, <1>5, <1>6 DEF WellFormed, Agree
<1> QED BY <1>1, <1>4, <1>5, <1>7, <1>8, <1>9, WellFormedIntro DEF q, r

LEMMA ForgottenFacts ==
  ASSUME Shaped(ir), NEW e \in Instr, ir[e].users = {}
  PROVE  LET q == Forgotten(e) IN
         /\ Shaped(q)
         /\ \A k \in Instr :
              /\ q[k].opcd = ir[k].opcd /\ q[k].type = ir[k].type
              /\ q[k].val = ir[k].val /\ q[k].inputs = ir[k].inputs
              /\ q[k].users = IF k \in Uses(e) THEN ir[k].users \ {e} ELSE ir[k].users
<1> DEFINE q == Forgotten(e)
           left(k) == IF k \in Uses(e) THEN ir[k].users \ {e} ELSE ir[k].users
<1>1. ASSUME NEW k \in Instr
      PROVE  q[k] = [opcd |-> ir[k].opcd, type |-> ir[k].type, val |-> ir[k].val,
                     inputs |-> ir[k].inputs, users |-> left(k)]
  <2>1. ir[k] = [opcd |-> ir[k].opcd, type |-> ir[k].type, val |-> ir[k].val,
                 inputs |-> ir[k].inputs, users |-> ir[k].users]
    BY DEF Shaped
  <2>2. q[k] = [ir[k] EXCEPT !.users = left(k), !.inputs = ir[k].inputs]
    BY DEF Forgotten
  <2> HIDE DEF left
  <2> QED BY <2>1, <2>2
<1>2. q = [k \in Instr |-> q[k]]
  BY DEF Forgotten
<1> HIDE DEF q
<1>3. \A k \in Instr :
        /\ q[k].opcd = ir[k].opcd /\ q[k].type = ir[k].type
        /\ q[k].val = ir[k].val /\ q[k].inputs = ir[k].inputs
        /\ q[k].users = left(k)
  <2> TAKE k \in Instr
  <2> DEFINE u == left(k)
  <2>1. q[k] = [opcd |-> ir[k].opcd, type |-> ir[k].type, val |-> ir[k].val,
                inputs |-> ir[k].inputs, users |-> u]
    BY <1>1
  <2> HIDE DEF u
  <2>2. /\ q[k].opcd = ir[k].opcd /\ q[k].type = ir[k].type
        /\ q[k].val = ir[k].val /\ q[k].inputs = ir[k].inputs
        /\ q[k].users = u
    BY <2>1
  <2> QED BY <2>2 DEF u
<1>4. Shaped(q)
  <2>1. \A k \in Instr : q[k] = [opcd |-> q[k].opcd, type |-> q[k].type,
                                val |-> q[k].val, inputs |-> q[k].inputs,
                                users |-> q[k].users]
    BY <1>1, <1>3
  <2> QED BY <1>2, <2>1 DEF Shaped
<1> QED BY <1>3, <1>4 DEF q

(* An unused instruction is erased from its block.                         *)
LEMMA ErasedWell ==
  ASSUME WellFormed(ir, instrs, made), NEW b \in Block,
         NEW e \in Placed(b), ir[e].users = {}
  PROVE  WellFormed(Forgotten(e), Without(b, e), made)
<1> DEFINE q == Forgotten(e)
           r == Without(b, e)
<1>1. /\ Shaped(ir) /\ Lists(instrs) /\ made \in 0 .. MaxInstr
      /\ AllIn(instrs) \subseteq Instr /\ AllIn(instrs) \subseteq 1 .. made
      /\ \A k \in Instr : ir[k].inputs \in Seq(Instr) /\ ir[k].users \subseteq Instr
  BY WellFormedFacts
<1>2. e \in AllIn(instrs) /\ e \in Instr /\ e \in In(instrs, b)
  BY <1>1, InAll DEF Placed
<1>3. r = Cut(instrs, b, e)
  BY DEF Without, Cut
<1> HIDE DEF q, r
<1>4. /\ Lists(r) /\ AllIn(r) = AllIn(instrs) \ {e}
      /\ In(r, b) = In(instrs, b) \ {e}
      /\ \A c \in Block \ {b} : In(r, c) = In(instrs, c)
      /\ \A c \in Block : \A a, d : a # e /\ d # e /\ Before(instrs[c], a, d)
                                  => Before(r[c], a, d)
  <2> DEFINE w == Cut(instrs, b, e)
  <2> Lists(instrs) /\ e \in In(instrs, b)
    BY <1>1, <1>2
  <2>1. /\ Lists(w) /\ AllIn(w) = AllIn(instrs) \ {e}
        /\ In(w, b) = In(instrs, b) \ {e}
        /\ \A c \in Block \ {b} : In(w, c) = In(instrs, c)
        /\ \A c \in Block : \A a, d : a # e /\ d # e /\ Before(instrs[c], a, d)
                                    => Before(w[c], a, d)
    BY CutLists
  <2> QED BY <1>3, <2>1
<1>5. /\ Shaped(q)
      /\ \A k \in Instr :
           /\ q[k].opcd = ir[k].opcd /\ q[k].type = ir[k].type
           /\ q[k].val = ir[k].val /\ q[k].inputs = ir[k].inputs
           /\ q[k].users = IF k \in Uses(e) THEN ir[k].users \ {e} ELSE ir[k].users
  BY <1>1, <1>2, ForgottenFacts DEF q
<1>6. \A k \in Instr : Operands(q, k) = Operands(ir, k)
  BY <1>5 DEF Operands
<1>7. \A k \in AllIn(instrs) : e \notin Operands(ir, k)
  BY <1>2 DEF WellFormed, Agree
<1>8. \A c \in Block : In(r, c) = In(instrs, c) \ {e}
  <2>1. \A c \in Block \ {b} : e \notin In(instrs, c)
    BY <1>1, <1>2 DEF Lists
  <2> QED BY <1>4, <2>1
<1>9. Ordered(q, r) /\ OrderedInside(q, r)
  <2>1. ASSUME NEW c \in Block, NEW k \in In(r, c), NEW x \in Operands(q, k)
        PROVE  /\ x \in Operands(ir, k)
               /\ \A d \in Block : x \in In(instrs, d) => x \in In(r, d)
    <3>1. k \in Instr /\ k \in AllIn(instrs)
      BY <1>1, <1>8, InAll
    <3>2. x \in Operands(ir, k) /\ x # e
      BY <1>6, <1>7, <3>1
    <3> QED BY <1>8, <3>2
  <2>2. Ordered(ir, instrs) /\ OrderedInside(ir, instrs)
    BY DEF WellFormed
  <2>3. \A c \in Block \ {Header} :
          /\ In(r, c) \subseteq In(instrs, c)
          /\ \A a, d \in In(r, c) : Before(instrs[c], a, d) => Before(r[c], a, d)
    BY <1>4, <1>8
  <2>4. \A c \in Block \ {Header} : \A k \in In(r, c) : \A x \in Operands(q, k) :
          \/ x \in In(r, Header)
          \/ /\ \A d \in Block : x \in In(instrs, d) => x \in In(r, d)
             /\ x \in Operands(ir, k)
    BY <2>1
  <2> QED BY <1>1, <1>4, <2>2, <2>3, <2>4, OrderedKept
<1>10. ASSUME NEW k \in AllIn(r), Throws(q, r, k) PROVE Stripped(q, k)
  <2>1. k \in Instr /\ k \in AllIn(instrs)
    BY <1>1, <1>4
  <2>2. k \in In(r, Header) => k \in In(instrs, Header)
    BY <1>8, OrderFacts
  <2>3. Throws(ir, instrs, k)
    BY <1>5, <1>10, <2>1, <2>2 DEF Throws, WrongInputCount
  <2> QED BY <1>5, <2>1, <2>3 DEF WellFormed, Stripped
<1>11. ASSUME NEW k \in AllIn(r), NEW x \in AllIn(r)
       PROVE  x \in Operands(q, k) <=> k \in q[x].users
  <2>1. /\ k \in Instr /\ k \in AllIn(instrs) /\ k # e
        /\ x \in Instr /\ x \in AllIn(instrs)
    BY <1>1, <1>4
  <2>2. x \in Operands(ir, k) <=> k \in ir[x].users
    BY <2>1 DEF WellFormed, Agree
  <2> QED BY <1>5, <1>6, <2>1, <2>2
<1>12. ASSUME NEW k \in AllIn(r)
       PROVE  Operands(q, k) \cup q[k].users \subseteq AllIn(r)
  <2>1. k \in Instr /\ k \in AllIn(instrs)
    BY <1>1, <1>4
  <2>2. Operands(ir, k) \cup ir[k].users \subseteq AllIn(instrs)
    BY <2>1 DEF WellFormed, Agree
  <2>3. k \in Uses(e) <=> e \in ir[k].users
    BY <1>2, <2>1 DEF WellFormed, Agree, Uses
  <2>4. q[k].users \subseteq ir[k].users \ {e}
    BY <1>5, <2>1, <2>3
  <2> QED BY <1>4, <1>6, <1>7, <2>1, <2>2, <2>4
<1>13. \A k \in Instr : q[k].inputs \in Seq(Instr) /\ q[k].users \subseteq Instr
  BY <1>1, <1>5
<1> QED BY <1>1, <1>4, <1>5, <1>9, <1>10, <1>11, <1>12, <1>13, WellFormedIntro DEF q, r

(* The next constant goes to the header.                                   *)
WithConst == Push(instrs, Header, made + 1)

LEMMA WithConstFacts ==
  ASSUME WellFormed(ir, instrs, made), made < MaxInstr
  PROVE  /\ made + 1 \in Instr /\ made + 1 \in 1 .. MaxInstr
         /\ made + 1 \notin AllIn(instrs)
         /\ Lists(WithConst) /\ AllIn(WithConst) = AllIn(instrs) \cup {made + 1}
         /\ AllIn(WithConst) \subseteq 1 .. made + 1
         /\ In(WithConst, Header) = In(instrs, Header) \cup {made + 1}
         /\ \A c \in Block \ {Header} :
              WithConst[c] = instrs[c] /\ In(WithConst, c) = In(instrs, c)
<1>1. Lists(instrs) /\ made \in 0 .. MaxInstr /\ AllIn(instrs) \subseteq 1 .. made
  BY WellFormedFacts
<1>2. made + 1 \in Instr /\ made + 1 \in 1 .. MaxInstr /\ made + 1 \notin AllIn(instrs)
  BY <1>1, PassesAssumption DEF Instr
<1>3. /\ Lists(WithConst) /\ AllIn(WithConst) = AllIn(instrs) \cup {made + 1}
      /\ In(WithConst, Header) = In(instrs, Header) \cup {made + 1}
      /\ \A c \in Block \ {Header} :
           WithConst[c] = instrs[c] /\ In(WithConst, c) = In(instrs, c)
  BY <1>1, <1>2, OrderFacts, PushLists DEF WithConst
<1>4. AllIn(WithConst) \subseteq 1 .. made + 1
  BY <1>1, <1>2, <1>3
<1> QED BY <1>2, <1>3, <1>4

(* ADD a, a becomes SHL a, 1.                                              *)
AsShift(i) ==
  [ir EXCEPT ![i].opcd = "SHL", ![i].inputs = <<@[1], made + 1>>,
             ![made + 1] = Const(1, {i})]

LEMMA AsShiftFacts ==
  ASSUME Shaped(ir), NEW i \in Instr, ir[i].inputs \in Seq(Instr),
         Len(ir[i].inputs) = 2, made + 1 \in Instr, made + 1 # i
  PROVE  LET q == AsShift(i)
             n == made + 1 IN
         /\ Shaped(q)
         /\ q[i].opcd = "SHL" /\ q[i].type = ir[i].type /\ q[i].users = ir[i].users
         /\ q[i].val = ir[i].val /\ q[i].inputs = <<ir[i].inputs[1], n>>
         /\ q[i].inputs \in Seq(Instr) /\ Len(q[i].inputs) = 2
         /\ Operands(q, i) = {ir[i].inputs[1], n}
         /\ q[n].opcd = "ICONST" /\ q[n].type = "CONST" /\ q[n].inputs = <<>>
         /\ q[n].users = {i} /\ q[n].val = 1
         /\ \A k \in Instr \ {i, n} : q[k] = ir[k]
<1> DEFINE q == AsShift(i)
           n == made + 1
           two == <<ir[i].inputs[1], n>>
           a == [ir EXCEPT ![i].opcd = "SHL"]
           b == [a EXCEPT ![i].inputs = <<@[1], n>>]
           c == Const(1, {i})
<1>1. /\ ir = [k \in Instr |-> ir[k]]
      /\ ir[i] = [opcd |-> ir[i].opcd, type |-> ir[i].type, val |-> ir[i].val,
                  inputs |-> ir[i].inputs, users |-> ir[i].users]
  BY DEF Shaped
<1>2. a = [k \in Instr |-> IF k = i
             THEN [opcd |-> "SHL", type |-> ir[i].type, val |-> ir[i].val,
                   inputs |-> ir[i].inputs, users |-> ir[i].users]
             ELSE ir[k]]
  BY <1>1
<1>3. b = [k \in Instr |-> IF k = i
             THEN [opcd |-> "SHL", type |-> ir[i].type, val |-> ir[i].val,
                   inputs |-> two, users |-> ir[i].users]
             ELSE ir[k]]
  <2>1. /\ a[i] = [opcd |-> "SHL", type |-> ir[i].type, val |-> ir[i].val,
                    inputs |-> ir[i].inputs, users |-> ir[i].users]
        /\ a = [k \in Instr |-> a[k]] /\ \A k \in Instr \ {i} : a[k] = ir[k]
    BY <1>2
  <2> HIDE DEF a
  <2>2. a[i].inputs = ir[i].inputs
    BY <2>1
  <2>3. b = [a EXCEPT ![i].inputs = two]
    BY <2>2
  <2> HIDE DEF b, two
  <2> QED BY <2>1, <2>3
<1>4. c = [opcd |-> "ICONST", type |-> "CONST", val |-> 1, inputs |-> <<>>,
           users |-> {i}]
  BY DEF Const
<1>5. q = [b EXCEPT ![n] = c]
  BY DEF AsShift
<1>6. two \in Seq(Instr) /\ Len(two) = 2 /\ ToSet(two) = {ir[i].inputs[1], n}
  <2>1. ir[i].inputs[1] \in Instr
    OBVIOUS
  <2>2. /\ two \in Seq(Instr) /\ Len(two) = 2 /\ DOMAIN two = {1, 2}
        /\ two[1] = ir[i].inputs[1] /\ two[2] = n
    BY <2>1
  <2> HIDE DEF two, n
  <2> QED BY <2>2 DEF ToSet
<1> HIDE DEF a, b, c, q, two
<1>7. q = [k \in Instr |->
             IF k = i THEN [opcd |-> "SHL", type |-> ir[i].type, val |-> ir[i].val,
                            inputs |-> two, users |-> ir[i].users]
             ELSE IF k = n THEN c ELSE ir[k]]
  BY <1>3, <1>5
<1>8. /\ q[i] = [opcd |-> "SHL", type |-> ir[i].type, val |-> ir[i].val,
                 inputs |-> two, users |-> ir[i].users]
      /\ q[n] = c /\ \A k \in Instr \ {i, n} : q[k] = ir[k]
  BY <1>7
<1>9. Shaped(q)
  <2>1. ASSUME NEW k \in Instr
        PROVE  q[k] = [opcd |-> q[k].opcd, type |-> q[k].type, val |-> q[k].val,
                       inputs |-> q[k].inputs, users |-> q[k].users]
    <3>1. CASE k = i
      BY <1>8, <3>1
    <3>2. CASE k = n
      BY <1>4, <1>8, <3>2
    <3>3. CASE k # i /\ k # n
      <4>1. ir[k] = [opcd |-> ir[k].opcd, type |-> ir[k].type, val |-> ir[k].val,
                     inputs |-> ir[k].inputs, users |-> ir[k].users]
        BY DEF Shaped
      <4> QED BY <1>8, <3>3, <4>1
    <3> QED BY <3>1, <3>2, <3>3
  <2>2. q = [k \in Instr |-> q[k]]
    BY <1>7
  <2> QED BY <2>1, <2>2 DEF Shaped
<1>10. /\ q[i].opcd = "SHL" /\ q[i].type = ir[i].type /\ q[i].users = ir[i].users
       /\ q[i].inputs = two /\ q[i].val = ir[i].val
  BY <1>8
<1>11. /\ q[n].opcd = "ICONST" /\ q[n].type = "CONST" /\ q[n].inputs = <<>>
       /\ q[n].users = {i} /\ q[n].val = 1
  BY <1>4, <1>8
<1>12. Operands(q, i) = {ir[i].inputs[1], n}
  BY <1>6, <1>10 DEF Operands
<1>13. q[i].inputs = <<ir[i].inputs[1], n>>
  BY <1>10 DEF two
<1> QED BY <1>6, <1>8, <1>9, <1>10, <1>11, <1>12, <1>13 DEF q

LEMMA AsShiftWell ==
  ASSUME WellFormed(ir, instrs, made), made < MaxInstr, NEW b \in Block \ {Header},
         NEW i \in Placed(b), Len(ir[i].inputs) = 2, IsDouble(i)
  PROVE  WellFormed(AsShift(i), WithConst, made + 1)
<1> DEFINE q == AsShift(i)
           r == WithConst
           n == made + 1
           a == ir[i].inputs[1]
<1>1. /\ Shaped(ir) /\ Lists(instrs) /\ made \in 0 .. MaxInstr
      /\ AllIn(instrs) \subseteq Instr
      /\ \A k \in Instr : ir[k].inputs \in Seq(Instr) /\ ir[k].users \subseteq Instr
  BY WellFormedFacts
<1>2. /\ n \in Instr /\ n \in 0 .. MaxInstr /\ n \notin AllIn(instrs)
      /\ Lists(r) /\ AllIn(r) = AllIn(instrs) \cup {n} /\ AllIn(r) \subseteq 1 .. n
      /\ In(r, Header) = In(instrs, Header) \cup {n}
      /\ \A c \in Block \ {Header} : r[c] = instrs[c] /\ In(r, c) = In(instrs, c)
  BY <1>1, WithConstFacts
<1>3. i \in AllIn(instrs) /\ i \in Instr /\ i \in In(instrs, b) /\ i # n
  BY <1>1, <1>2, InAll DEF Placed
<1> HIDE DEF r
<1>4. /\ Shaped(q)
      /\ q[i].opcd = "SHL" /\ q[i].type = ir[i].type /\ q[i].users = ir[i].users
      /\ q[i].inputs \in Seq(Instr) /\ Len(q[i].inputs) = 2
      /\ Operands(q, i) = {a, n}
      /\ q[n].opcd = "ICONST" /\ q[n].type = "CONST" /\ q[n].inputs = <<>>
      /\ q[n].users = {i}
      /\ \A k \in Instr \ {i, n} : q[k] = ir[k]
  BY <1>1, <1>2, <1>3, AsShiftFacts
<1> HIDE DEF q, n
<1>5. Operands(ir, i) = {a}
  BY <1>1, <1>3 DEF IsDouble, Operands, ToSet
<1>6. /\ Operands(q, n) = {}
      /\ \A k \in Instr \ {i, n} : Operands(q, k) = Operands(ir, k)
  BY <1>2, <1>4 DEF Operands, ToSet
<1>7. /\ \A k, x \in AllIn(instrs) : x \in Operands(ir, k) <=> k \in ir[x].users
      /\ \A k \in AllIn(instrs) : Operands(ir, k) \cup ir[k].users \subseteq AllIn(instrs)
  BY DEF WellFormed, Agree
<1>8. ASSUME NEW k \in AllIn(r), NEW x \in AllIn(r)
      PROVE  x \in Operands(q, k) <=> k \in q[x].users
  <2>1. CASE x = n
    BY <1>1, <1>2, <1>4, <1>6, <1>7, <2>1
  <2>2. CASE x # n /\ k = n
    BY <1>1, <1>2, <1>3, <1>4, <1>6, <1>7, <2>2
  <2>3. CASE x # n /\ k # n
    <3>1. q[x].users = ir[x].users /\ x \in AllIn(instrs) /\ k \in AllIn(instrs)
      BY <1>1, <1>2, <1>4, <2>3
    <3>2. x \in Operands(q, k) <=> x \in Operands(ir, k)
      BY <1>1, <1>4, <1>5, <1>6, <2>3, <3>1
    <3> QED BY <1>7, <3>1, <3>2
  <2> QED BY <2>1, <2>2, <2>3
<1>9. ASSUME NEW k \in AllIn(r)
      PROVE  Operands(q, k) \cup q[k].users \subseteq AllIn(r)
  <2>1. CASE k = n
    BY <1>2, <1>3, <1>4, <1>6, <2>1
  <2>2. CASE k = i
    BY <1>2, <1>3, <1>4, <1>5, <1>7, <2>2
  <2>3. CASE k # n /\ k # i
    BY <1>1, <1>2, <1>4, <1>6, <1>7, <2>3
  <2> QED BY <2>1, <2>2, <2>3
<1>10. Ordered(q, r) /\ OrderedInside(q, r)
  <2>1. ASSUME NEW c \in Block \ {Header}, NEW k \in In(r, c), NEW e \in Operands(q, k)
        PROVE  \/ e \in In(r, Header)
               \/ /\ \A d \in Block : e \in In(instrs, d) => e \in In(r, d)
                  /\ e \in Operands(ir, k)
    <3>1. k \in AllIn(instrs) /\ k \in Instr /\ k # n
      BY <1>1, <1>2, InAll
    <3>2. \A d \in Block : In(instrs, d) \subseteq In(r, d)
      BY <1>2
    <3>3. e = n \/ e \in Operands(ir, k)
      BY <1>4, <1>5, <1>6, <3>1
    <3> QED BY <1>2, <3>2, <3>3
  <2>2. Ordered(ir, instrs) /\ OrderedInside(ir, instrs)
    BY DEF WellFormed
  <2>3. \A c \in Block \ {Header} :
          /\ In(r, c) \subseteq In(instrs, c)
          /\ \A x, d \in In(r, c) : Before(instrs[c], x, d) => Before(r[c], x, d)
    BY <1>2
  <2>4. \A c \in Block \ {Header} : \A k \in In(r, c) : \A e \in Operands(q, k) :
          \/ e \in In(r, Header)
          \/ /\ \A d \in Block : e \in In(instrs, d) => e \in In(r, d)
             /\ e \in Operands(ir, k)
    BY <2>1
  <2> QED BY <1>1, <1>2, <2>2, <2>3, <2>4, OrderedKept
<1>11. ASSUME NEW k \in AllIn(r), Throws(q, r, k) PROVE Stripped(q, k)
  <2>1. CASE k = n
    BY <1>4, <1>11, <2>1 DEF Throws, WrongInputCount, Binary
  <2>2. CASE k = i
    <3>1. i \notin In(r, Header)
      BY <1>1, <1>2, <1>3, OrderFacts DEF Lists
    <3> QED BY <1>4, <1>11, <2>2, <3>1 DEF Throws, WrongInputCount, Binary
  <2>3. CASE k # n /\ k # i
    <3>1. /\ q[k] = ir[k] /\ k \in AllIn(instrs)
          /\ k \in In(r, Header) => k \in In(instrs, Header)
      BY <1>1, <1>2, <1>4, <2>3
    <3>2. Throws(ir, instrs, k)
      BY <1>11, <3>1 DEF Throws, WrongInputCount
    <3> QED BY <3>1, <3>2 DEF WellFormed, Stripped
  <2> QED BY <2>1, <2>2, <2>3
<1>12. ASSUME NEW k \in Instr
       PROVE  q[k].inputs \in Seq(Instr) /\ q[k].users \subseteq Instr
  <2>1. CASE k = n
    <3>1. <<>> \in Seq(Instr) /\ {i} \subseteq Instr
      BY <1>3
    <3> QED BY <1>4, <2>1, <3>1
  <2>2. CASE k # n
    BY <1>1, <1>3, <1>4, <2>2
  <2> QED BY <2>1, <2>2
<1>13. WellFormed(q, r, n)
  BY <1>2, <1>4, <1>8, <1>9, <1>10, <1>11, <1>12, WellFormedIntro
<1> QED BY <1>13 DEF q, r, n

(* An operand is another instruction.                                      *)
LEMMA KnownOther ==
  ASSUME NEW l, Lists(l), NEW n \in 2 .. Len(Order), NEW i \in In(l, Order[n]),
         NEW e, Known(l, n, e, i)
  PROVE  e # i
<1>1. SUFFICES ASSUME e = i PROVE FALSE
  OBVIOUS
<1>2. Before(l[Order[n]], i, i)
  BY <1>1, KnownInside
<1>3. Order[n] \in Block /\ l[Order[n]] \in Seq(Instr) /\ IsInjective(l[Order[n]])
  BY OrderFacts DEF Lists
<1> QED BY <1>2, <1>3 DEF Before, IsInjective

LEMMA KnownPlace ==
  ASSUME NEW l, Lists(l), NEW n \in 2 .. Len(Order), NEW i, NEW e,
         Known(l, n, e, i), e \notin In(l, Header)
  PROVE  \E m \in 2 .. Len(Order) : e \in In(l, Order[m])
<1>1. CASE \E m \in 2 .. n - 1 : e \in In(l, Order[m])
  BY <1>1, OrderFacts
<1>2. CASE Before(l[Order[n]], e, i)
  BY <1>2, OrderFacts, BeforeIn DEF Lists
<1> QED BY <1>1, <1>2 DEF Known

(* What makePeepholes finds where it changes something.                    *)
ReducedParts(i, e, c, x, d) ==
  /\ {i, e, c, x, d} \subseteq AllIn(instrs)
  /\ i # e /\ i # c /\ i # x /\ i # d
  /\ e # c /\ e # x /\ e # d /\ x # c /\ x # d
  /\ Operands(ir, i) = {e, c} /\ Operands(ir, e) = {x, d}
  /\ ir[i].opcd = "ADD" /\ ir[e].opcd = "ADD" /\ ir[e].users = {i}
  /\ e \notin In(instrs, Header)
  /\ ir[e].type # "CONST" /\ ir[c].type = "CONST" /\ ir[d].type = "CONST"
  /\ Len(ir[e].inputs) = 2
  /\ \/ ir[e].inputs[1] = x /\ ir[e].inputs[2] = d
     \/ ir[e].inputs[1] = d /\ ir[e].inputs[2] = x

LEMMA ReducibleFacts ==
  ASSUME WellFormed(ir, instrs, made), NEW n \in 2 .. Len(Order),
         NEW i \in Placed(Order[n]), Len(ir[i].inputs) = 2, Reducible(i)
  PROVE  LET e == ir[i].inputs[1]
             c == ir[i].inputs[2]
             x == Detachable(e)[1]
             d == Detachable(e)[2]
         IN  ReducedParts(i, e, c, x, d)
<1> DEFINE e == ir[i].inputs[1]
           c == ir[i].inputs[2]
           x == Detachable(e)[1]
           d == Detachable(e)[2]
<1>1. /\ Lists(instrs) /\ AllIn(instrs) \subseteq Instr
      /\ \A k \in Instr : ir[k].inputs \in Seq(Instr) /\ ir[k].users \subseteq Instr
  BY WellFormedFacts
<1>2. i \in AllIn(instrs) /\ i \in In(instrs, Order[n]) /\ i \in Instr
  BY <1>1, OrderFacts, InAll DEF Placed
<1>3. Operands(ir, i) = {e, c}
  BY <1>1, <1>2 DEF Operands, ToSet
<1>4. /\ ir[i].opcd = "ADD" /\ ir[e].opcd = "ADD" /\ ir[e].type # "CONST"
      /\ ir[c].type = "CONST" /\ ir[e].users = {i}
      /\ ~(IsConst(ir[e].inputs[1]) <=> IsConst(ir[e].inputs[2]))
  BY DEF Reducible, OnlyUser, IsConst
<1>5. e \in AllIn(instrs) /\ c \in AllIn(instrs) /\ e \in Instr /\ c \in Instr
  BY <1>1, <1>2, <1>3 DEF WellFormed, Agree
<1>6. ~Throws(ir, instrs, e)
  BY <1>4, <1>5 DEF WellFormed, Stripped
<1>7. Len(ir[e].inputs) = 2 /\ e \notin In(instrs, Header)
  BY <1>4, <1>6 DEF Throws, WrongInputCount, Binary
<1>8. /\ Operands(ir, e) = {x, d} /\ ir[x].type # "CONST" /\ ir[d].type = "CONST"
      /\ \/ ir[e].inputs[1] = x /\ ir[e].inputs[2] = d
         \/ ir[e].inputs[1] = d /\ ir[e].inputs[2] = x
  <2> DEFINE f == ir[e].inputs[1]
             g == ir[e].inputs[2]
  <2>1. Operands(ir, e) = {f, g}
    BY <1>1, <1>5, <1>7 DEF Operands, ToSet
  <2>2. CASE IsConst(f)
    <3>1. x = g /\ d = f
      BY <2>2 DEF Detachable
    <3> QED BY <1>4, <2>1, <2>2, <3>1 DEF IsConst
  <2>3. CASE ~IsConst(f)
    <3>1. x = f /\ d = g
      BY <2>3 DEF Detachable
    <3> QED BY <1>4, <2>1, <2>3, <3>1 DEF IsConst
  <2> QED BY <2>2, <2>3
<1> HIDE DEF e, c, x, d
<1>9. x \in AllIn(instrs) /\ d \in AllIn(instrs)
  BY <1>5, <1>8 DEF WellFormed, Agree
<1>10. Ordered(ir, instrs)
  BY DEF WellFormed
<1>11. Known(instrs, n, e, i) /\ Known(instrs, n, c, i)
  BY <1>2, <1>3, <1>10 DEF Ordered, Known
<1>12. Known(instrs, n, x, i) /\ Known(instrs, n, d, i)
  BY <1>1, <1>2, <1>3, <1>7, <1>8, <1>10, KnownTrans
<1>13. e # i /\ c # i /\ x # i /\ d # i
  BY <1>1, <1>2, <1>11, <1>12, KnownOther
<1>14. PICK m \in 2 .. Len(Order) : e \in In(instrs, Order[m])
  BY <1>1, <1>7, <1>11, KnownPlace
<1>15. Known(instrs, m, x, e)
  BY <1>8, <1>10, <1>14 DEF Ordered, Known
<1>16. x # e
  BY <1>1, <1>14, <1>15, KnownOther
<1>17. ReducedParts(i, e, c, x, d)
  BY <1>2, <1>3, <1>4, <1>5, <1>7, <1>8, <1>9, <1>13, <1>16 DEF ReducedParts
<1> QED BY <1>17 DEF e, c, x, d

(* The rewriting, field by field.                                          *)
DetachedFields(q, i, e, x, c, d, n) ==
  /\ Shaped(q)
  /\ \A k \in Instr \ {n} : /\ q[k].opcd = ir[k].opcd /\ q[k].type = ir[k].type
                           /\ q[k].val = ir[k].val
  /\ q[i].inputs = <<x, n>> /\ q[e].inputs = <<>>
  /\ \A k \in Instr \ {i, e, n} : q[k].inputs = ir[k].inputs
  /\ q[i].users = ir[i].users /\ q[e].users = ir[e].users \ {i}
  /\ q[x].users = (ir[x].users \ {e}) \cup {i}
  /\ \A k \in Instr \ {i, e, x, n} :
       q[k].users = (IF k = d THEN ir[k].users \ {e} ELSE ir[k].users)
                      \ (IF k = c THEN {i} ELSE {})
  /\ q[n].opcd = "ICONST" /\ q[n].type = "CONST" /\ q[n].inputs = <<>>
  /\ q[n].users = {i} /\ q[n].val = ThroughInt(ir[c].val + ir[d].val)

LEMMA DetachedFacts ==
  ASSUME Shaped(ir), NEW i \in Instr, NEW e \in Instr, NEW x \in Instr,
         NEW c \in Instr, NEW d \in Instr, NEW n \in Instr,
         i # e, i # x, i # n, e # x, e # n, x # n, i # c, i # d, e # c, e # d,
         x # c, x # d, n # c, n # d
  PROVE  DetachedFields(Detached(i, e, x, c, d, n), i, e, x, c, d, n)
<1> DEFINE q == Detached(i, e, x, c, d, n)
           left(k) == (IF k = d THEN ir[k].users \ {e} ELSE ir[k].users)
                        \ (IF k = c THEN {i} ELSE {})
           With(k, s, U) == [opcd |-> ir[k].opcd, type |-> ir[k].type,
                             val |-> ir[k].val, inputs |-> s, users |-> U]
<1>1. \A k \in Instr : ir[k] = With(k, ir[k].inputs, ir[k].users)
  BY DEF Shaped
<1>2. q[i] = With(i, <<x, n>>, ir[i].users)
  <2> DEFINE s == <<x, n>>
  <2>1. q[i] = [ir[i] EXCEPT !.inputs = s]
    BY DEF Detached
  <2> HIDE DEF s, q
  <2>2. q[i] = With(i, s, ir[i].users)
    BY <1>1, <2>1
  <2> QED BY <2>2 DEF s
<1>3. q[e] = With(e, <<>>, ir[e].users \ {i})
  <2> DEFINE s == <<>>
  <2>1. q[e] = [ir[e] EXCEPT !.inputs = s, !.users = ir[e].users \ {i}]
    BY DEF Detached
  <2> HIDE DEF s, q
  <2>2. ir[e] = With(e, ir[e].inputs, ir[e].users)
    BY <1>1
  <2>3. q[e] = With(e, s, ir[e].users \ {i})
    BY <2>1, <2>2
  <2> QED BY <2>3 DEF s
<1>4. q[x] = With(x, ir[x].inputs, (ir[x].users \ {e}) \cup {i})
  <2>1. q[x] = [ir[x] EXCEPT !.users = (ir[x].users \ {e}) \cup {i}]
    BY DEF Detached
  <2> HIDE DEF q
  <2>2. ir[x] = With(x, ir[x].inputs, ir[x].users)
    BY <1>1
  <2> QED BY <2>1, <2>2
<1>5. /\ q[n].opcd = "ICONST" /\ q[n].type = "CONST" /\ q[n].inputs = <<>>
      /\ q[n].users = {i} /\ q[n].val = ThroughInt(ir[c].val + ir[d].val)
      /\ q[n] = [opcd |-> q[n].opcd, type |-> q[n].type, val |-> q[n].val,
                 inputs |-> q[n].inputs, users |-> q[n].users]
  <2> DEFINE v == ThroughInt(ir[c].val + ir[d].val)
  <2>1. q[n] = Const(v, {i})
    BY DEF Detached
  <2> HIDE DEF v, q
  <2>2. /\ q[n].opcd = "ICONST" /\ q[n].type = "CONST" /\ q[n].inputs = <<>>
        /\ q[n].users = {i} /\ q[n].val = v
        /\ q[n] = [opcd |-> q[n].opcd, type |-> q[n].type, val |-> q[n].val,
                   inputs |-> q[n].inputs, users |-> q[n].users]
    BY <2>1 DEF Const
  <2> QED BY <2>2 DEF v
<1>6. ASSUME NEW k \in Instr \ {i, e, x, n} PROVE q[k] = With(k, ir[k].inputs, left(k))
  <2> DEFINE U == left(k)
  <2>1. q[k] = [ir[k] EXCEPT !.users = U]
    BY DEF Detached
  <2> HIDE DEF U, q
  <2>2. ir[k] = With(k, ir[k].inputs, ir[k].users)
    BY <1>1
  <2>3. q[k] = With(k, ir[k].inputs, U)
    BY <2>1, <2>2
  <2> QED BY <2>3 DEF U
<1>7. q = [k \in Instr |-> q[k]]
  BY DEF Detached
<1> HIDE DEF q
<1>8. /\ q[i].opcd = ir[i].opcd /\ q[i].type = ir[i].type /\ q[i].val = ir[i].val
      /\ q[i].inputs = <<x, n>> /\ q[i].users = ir[i].users
  BY <1>2
<1>9. /\ q[e].opcd = ir[e].opcd /\ q[e].type = ir[e].type /\ q[e].val = ir[e].val
      /\ q[e].inputs = <<>> /\ q[e].users = ir[e].users \ {i}
  BY <1>3
<1>10. /\ q[x].opcd = ir[x].opcd /\ q[x].type = ir[x].type /\ q[x].val = ir[x].val
       /\ q[x].inputs = ir[x].inputs /\ q[x].users = (ir[x].users \ {e}) \cup {i}
  BY <1>4
<1>11. ASSUME NEW k \in Instr \ {i, e, x, n}
       PROVE  /\ q[k].opcd = ir[k].opcd /\ q[k].type = ir[k].type
              /\ q[k].val = ir[k].val
              /\ q[k].inputs = ir[k].inputs /\ q[k].users = left(k)
  <2> DEFINE U == left(k)
  <2>1. q[k] = With(k, ir[k].inputs, U)
    BY <1>6
  <2> HIDE DEF U
  <2>2. /\ q[k].opcd = ir[k].opcd /\ q[k].type = ir[k].type
        /\ q[k].val = ir[k].val
        /\ q[k].inputs = ir[k].inputs /\ q[k].users = U
    BY <2>1
  <2> QED BY <2>2 DEF U
<1>12. ASSUME NEW k \in Instr
       PROVE  q[k] = [opcd |-> q[k].opcd, type |-> q[k].type, val |-> q[k].val,
                      inputs |-> q[k].inputs, users |-> q[k].users]
  <2>1. CASE k = i
    BY <1>2, <1>8, <2>1
  <2>2. CASE k = e
    BY <1>3, <1>9, <2>2
  <2>3. CASE k = x
    BY <1>4, <1>10, <2>3
  <2>4. CASE k = n
    BY <1>5, <2>4
  <2>5. CASE k \in Instr \ {i, e, x, n}
    <3>1. q[k] = With(k, ir[k].inputs, left(k))
      BY <1>6, <2>5
    <3> HIDE DEF left
    <3> QED BY <1>11, <2>5, <3>1
  <2> QED BY <2>1, <2>2, <2>3, <2>4, <2>5
<1>13. Shaped(q)
  BY <1>7, <1>12 DEF Shaped
<1>14. \A k \in Instr \ {n} : /\ q[k].opcd = ir[k].opcd /\ q[k].type = ir[k].type
                              /\ q[k].val = ir[k].val
  BY <1>8, <1>9, <1>10, <1>11
<1>15. \A k \in Instr \ {i, e, n} : q[k].inputs = ir[k].inputs
  BY <1>10, <1>11
<1>16. DetachedFields(q, i, e, x, c, d, n)
  BY <1>5, <1>8, <1>9, <1>10, <1>11, <1>13, <1>14, <1>15 DEF DetachedFields
<1> QED BY <1>16 DEF q

LEMMA DetachedWell ==
  ASSUME WellFormed(ir, instrs, made), made < MaxInstr, NEW h \in 2 .. Len(Order),
         NEW i \in Placed(Order[h]), Len(ir[i].inputs) = 2, Reducible(i)
  PROVE  LET e == ir[i].inputs[1]
             c == ir[i].inputs[2]
             x == Detachable(e)[1]
             d == Detachable(e)[2]
         IN  WellFormed(Detached(i, e, x, c, d, made + 1), WithConst, made + 1)
<1> DEFINE e == ir[i].inputs[1]
           c == ir[i].inputs[2]
           x == Detachable(e)[1]
           d == Detachable(e)[2]
           n == made + 1
           q == Detached(i, e, x, c, d, n)
           r == WithConst
<1>1. /\ Shaped(ir) /\ Lists(instrs) /\ made \in 0 .. MaxInstr
      /\ AllIn(instrs) \subseteq Instr
      /\ \A k \in Instr : ir[k].inputs \in Seq(Instr) /\ ir[k].users \subseteq Instr
  BY WellFormedFacts
<1>2. /\ n \in Instr /\ n \in 0 .. MaxInstr /\ n \notin AllIn(instrs)
      /\ Lists(r) /\ AllIn(r) = AllIn(instrs) \cup {n} /\ AllIn(r) \subseteq 1 .. n
      /\ In(r, Header) = In(instrs, Header) \cup {n}
      /\ \A k \in Block \ {Header} : r[k] = instrs[k] /\ In(r, k) = In(instrs, k)
  BY <1>1, WithConstFacts
<1>3. /\ {i, e, c, x, d} \subseteq AllIn(instrs)
      /\ i # e /\ i # c /\ i # x /\ i # d
      /\ e # c /\ e # x /\ e # d /\ x # c /\ x # d
      /\ Operands(ir, i) = {e, c} /\ Operands(ir, e) = {x, d}
      /\ ir[i].opcd = "ADD" /\ ir[e].opcd = "ADD" /\ ir[e].users = {i}
      /\ e \notin In(instrs, Header)
  <2>1. ReducedParts(i, e, c, x, d)
    <3> HIDE DEF n, q, r
    <3> QED BY ReducibleFacts
  <2> HIDE DEF e, c, x, d
  <2> QED BY <2>1 DEF ReducedParts
<1> HIDE DEF e, c, x, d, n, q, r
<1>4. /\ {i, e, c, x, d} \subseteq Instr
      /\ n # i /\ n # e /\ n # x /\ n # c /\ n # d
  BY <1>1, <1>2, <1>3
<1>5. /\ Shaped(q)
      /\ \A k \in Instr \ {n} : q[k].opcd = ir[k].opcd /\ q[k].type = ir[k].type
      /\ q[i].inputs = <<x, n>> /\ q[e].inputs = <<>>
      /\ \A k \in Instr \ {i, e, n} : q[k].inputs = ir[k].inputs
      /\ q[i].users = ir[i].users /\ q[e].users = ir[e].users \ {i}
      /\ q[x].users = (ir[x].users \ {e}) \cup {i}
      /\ \A k \in Instr \ {i, e, x, n} :
           q[k].users = (IF k = d THEN ir[k].users \ {e} ELSE ir[k].users)
                          \ (IF k = c THEN {i} ELSE {})
      /\ q[n].opcd = "ICONST" /\ q[n].type = "CONST" /\ q[n].inputs = <<>>
      /\ q[n].users = {i}
  <2> /\ Shaped(ir) /\ i \in Instr /\ e \in Instr /\ x \in Instr
      /\ c \in Instr /\ d \in Instr /\ n \in Instr
      /\ i # e /\ i # x /\ i # n /\ e # x /\ e # n /\ x # n /\ i # c /\ i # d
      /\ e # c /\ e # d /\ x # c /\ x # d /\ n # c /\ n # d
    BY <1>1, <1>2, <1>3, <1>4
  <2>1. DetachedFields(q, i, e, x, c, d, n)
    BY DetachedFacts DEF q
  <2> QED BY <2>1 DEF DetachedFields
<1>6. /\ Operands(q, i) = {x, n} /\ Operands(q, e) = {} /\ Operands(q, n) = {}
      /\ \A k \in Instr \ {i, e, n} : Operands(q, k) = Operands(ir, k)
  <2>1. DOMAIN <<x, n>> = {1, 2} /\ <<x, n>>[1] = x /\ <<x, n>>[2] = n
    OBVIOUS
  <2>2. ToSet(<<x, n>>) = {x, n}
    BY <2>1 DEF ToSet
  <2>3. ToSet(<<>>) = {}
    BY DEF ToSet
  <2> QED BY <1>5, <2>2, <2>3 DEF Operands
<1>7. /\ \A k, y \in AllIn(instrs) : y \in Operands(ir, k) <=> k \in ir[y].users
      /\ \A k \in AllIn(instrs) : Operands(ir, k) \cup ir[k].users \subseteq AllIn(instrs)
  BY DEF WellFormed, Agree
<1>8. ASSUME NEW k \in AllIn(r), NEW y \in AllIn(r)
      PROVE  y \in Operands(q, k) <=> k \in q[y].users
  <2>1. /\ k = n \/ (k \in AllIn(instrs) /\ k \in Instr /\ k # n)
        /\ y = n \/ (y \in AllIn(instrs) /\ y \in Instr /\ y # n)
    BY <1>1, <1>2
  <2>2. CASE y = n
    <3>1. n \notin Operands(ir, k) \/ k = n
      BY <1>2, <1>7, <2>1
    <3> QED BY <1>4, <1>5, <1>6, <2>1, <2>2, <3>1
  <2>3. CASE y # n /\ k = n
    <3>1. n \notin ir[y].users /\ q[y].users \subseteq ir[y].users \cup {i}
      BY <1>2, <1>3, <1>5, <1>7, <2>1, <2>3
    <3> QED BY <1>4, <1>6, <2>3, <3>1
  <2>4. CASE y # n /\ k = i
    <3>1. i \in ir[y].users <=> y \in {e, c}
      BY <1>3, <1>7, <2>1, <2>4
    <3>2. i \in q[y].users <=> y = x
      BY <1>3, <1>4, <1>5, <2>1, <2>4, <3>1
    <3> QED BY <1>6, <2>4, <3>2
  <2>5. CASE y # n /\ k = e
    <3>1. e \in ir[y].users <=> y \in {x, d}
      BY <1>3, <1>7, <2>1, <2>5
    <3>2. e \notin q[y].users
      BY <1>3, <1>4, <1>5, <2>1, <2>5, <3>1
    <3> QED BY <1>6, <2>5, <3>2
  <2>6. CASE y # n /\ k \notin {n, i, e}
    <3>1. k \in q[y].users <=> k \in ir[y].users
      BY <1>3, <1>4, <1>5, <2>1, <2>6
    <3> QED BY <1>6, <1>7, <2>1, <2>6, <3>1
  <2> QED BY <2>2, <2>3, <2>4, <2>5, <2>6
<1>9. ASSUME NEW k \in AllIn(r)
      PROVE  Operands(q, k) \cup q[k].users \subseteq AllIn(r)
  <2>1. k = n \/ (k \in AllIn(instrs) /\ k \in Instr /\ k # n)
    BY <1>1, <1>2
  <2>2. CASE k = n
    BY <1>2, <1>3, <1>5, <1>6, <2>2
  <2>3. CASE k # n
    <3>1. Operands(ir, k) \cup ir[k].users \subseteq AllIn(instrs)
      BY <1>7, <2>1, <2>3
    <3>2. q[k].users \subseteq ir[k].users \cup {i}
      BY <1>3, <1>4, <1>5, <2>1, <2>3
    <3>3. Operands(q, k) \subseteq Operands(ir, k) \cup {x, n}
      BY <1>6, <2>1, <2>3
    <3> QED BY <1>2, <1>3, <3>1, <3>2, <3>3
  <2> QED BY <2>2, <2>3
<1>10. Ordered(q, r) /\ OrderedInside(q, r)
  <2>1. ASSUME NEW b \in Block \ {Header}, NEW k \in In(r, b), NEW y \in Operands(q, k)
        PROVE  \/ y \in In(r, Header)
               \/ /\ \A g \in Block : y \in In(instrs, g) => y \in In(r, g)
                  /\ \/ y \in Operands(ir, k)
                     \/ /\ \E g \in 2 .. Len(Order) : b = Order[g]
                        /\ \E z \in Operands(ir, k) :
                             z \notin In(instrs, Header) /\ y \in Operands(ir, z)
    <3>1. k \in AllIn(instrs) /\ k \in Instr /\ k # n /\ k \in In(instrs, b)
      BY <1>1, <1>2, InAll
    <3>2. \A g \in Block : In(instrs, g) \subseteq In(r, g)
      BY <1>2
    <3>3. CASE k = i
      <4>1. y = n \/ y = x
        BY <1>6, <3>3
      <4>2. e \in Operands(ir, k) /\ x \in Operands(ir, e) /\ e \notin In(instrs, Header)
        BY <1>3, <3>3
      <4>3. b = Order[h]
        <5>1. i \in In(instrs, Order[h]) /\ Order[h] \in Block
          BY OrderFacts DEF Placed
        <5> QED BY <1>1, <3>1, <3>3, <5>1 DEF Lists
      <4> QED BY <1>2, <3>2, <4>1, <4>2, <4>3
    <3>4. CASE k = e
      BY <1>6, <3>4
    <3>5. CASE k # i /\ k # e
      <4>1. y \in Operands(ir, k)
        BY <1>6, <3>1, <3>5
      <4> QED BY <3>2, <4>1
    <3> QED BY <3>3, <3>4, <3>5
  <2>2. Ordered(ir, instrs) /\ OrderedInside(ir, instrs)
    BY DEF WellFormed
  <2>3. \A b \in Block \ {Header} :
          /\ In(r, b) \subseteq In(instrs, b)
          /\ \A y, z \in In(r, b) : Before(instrs[b], y, z) => Before(r[b], y, z)
    BY <1>2
  <2>4. \A b \in Block \ {Header} : \A k \in In(r, b) : \A y \in Operands(q, k) :
          \/ y \in In(r, Header)
          \/ /\ \A g \in Block : y \in In(instrs, g) => y \in In(r, g)
             /\ \/ y \in Operands(ir, k)
                \/ /\ \E g \in 2 .. Len(Order) : b = Order[g]
                   /\ \E z \in Operands(ir, k) :
                        z \notin In(instrs, Header) /\ y \in Operands(ir, z)
    BY <2>1
  <2> QED BY <1>1, <1>2, <2>2, <2>3, <2>4, OrderedKept
<1>11. ASSUME NEW k \in AllIn(r), Throws(q, r, k) PROVE Stripped(q, k)
  <2>1. k = n \/ (k \in AllIn(instrs) /\ k \in Instr /\ k # n)
    BY <1>1, <1>2
  <2>2. CASE k = n
    BY <1>5, <1>11, <2>2 DEF Throws, WrongInputCount, Binary
  <2>3. CASE k = e
    BY <1>3, <1>4, <1>5, <2>3 DEF Stripped
  <2>4. CASE k = i
    <3>1. i \notin In(r, Header)
      <4>1. i \in In(r, Order[h]) /\ Order[h] \in Block \ {Header}
        BY <1>2, OrderFacts DEF Placed
      <4> QED BY <1>2, <4>1, OrderFacts DEF Lists
    <3>2. Len(q[i].inputs) = 2 /\ q[i].opcd = "ADD"
      BY <1>3, <1>4, <1>5
    <3> QED BY <1>11, <2>4, <3>1, <3>2 DEF Throws, WrongInputCount, Binary
  <2>5. CASE k \notin {n, e, i}
    <3>1. /\ q[k].opcd = ir[k].opcd /\ q[k].type = ir[k].type
          /\ q[k].inputs = ir[k].inputs
          /\ k \in In(r, Header) => k \in In(instrs, Header)
      BY <1>2, <1>5, <2>1, <2>5
    <3>2. Throws(ir, instrs, k)
      BY <1>11, <3>1 DEF Throws, WrongInputCount
    <3>3. Stripped(ir, k)
      BY <2>1, <2>5, <3>2 DEF WellFormed
    <3>4. k # x
      BY <1>3, <1>7, <2>1, <2>5, <3>3 DEF Stripped
    <3>5. q[k].users \subseteq ir[k].users
      BY <1>5, <2>1, <2>5, <3>4
    <3> QED BY <3>1, <3>3, <3>5 DEF Stripped
  <2> QED BY <2>2, <2>3, <2>4, <2>5
<1>12. ASSUME NEW k \in Instr
       PROVE  q[k].inputs \in Seq(Instr) /\ q[k].users \subseteq Instr
  <2>1. <<>> \in Seq(Instr) /\ <<x, n>> \in Seq(Instr)
    BY <1>2, <1>4
  <2>2. q[k].inputs \in Seq(Instr)
    <3>1. CASE k \in {n, e}
      BY <1>5, <2>1, <3>1
    <3>2. CASE k = i
      BY <1>5, <2>1, <3>2
    <3>3. CASE k \notin {n, e, i}
      BY <1>1, <1>5, <3>3
    <3> QED BY <3>1, <3>2, <3>3
  <2>3. q[k].users \subseteq ir[k].users \cup {i}
    <3>1. CASE k = n
      BY <1>5, <3>1
    <3>2. CASE k # n
      BY <1>5, <3>2
    <3> QED BY <3>1, <3>2
  <2> QED BY <1>1, <1>4, <2>2, <2>3
<1>13. WellFormed(q, r, n)
  BY <1>2, <1>5, <1>8, <1>9, <1>10, <1>11, <1>12, WellFormedIntro
<1> QED BY <1>13 DEF e, c, x, d, n, q, r

-----------------------------------------------------------------------------
(* THE LOOPS                                                               *)

(* Every nonempty set of naturals has a least element, by well-foundedness.*)
LEMMA LeastNat ==
  ASSUME NEW S \in SUBSET Nat, S # {}
  PROVE  \E b \in S : \A c \in S : b <= c
<1>1. PICK R : IsWellFoundedOn(R, Nat) /\ \A x, y \in Nat : x < y => <<x, y>> \in R
  <2>1. IsWellFoundedOn(OpToRel(<, Nat), Nat)
    BY NatLessThanWellFounded, Zenon
  <2>2. \A x, y \in Nat : x < y => <<x, y>> \in OpToRel(<, Nat)
    BY DEF OpToRel
  <2> QED BY <2>1, <2>2
<1>2. PICK b \in S : \A c \in S : ~(<<c, b>> \in R)
  <2>1. IsWellFoundedOn(R, S)
    BY <1>1, IsWellFoundedOnSubset
  <2> QED BY <2>1, WFMin
<1>3. \A c \in S : b \in Nat /\ c \in Nat /\ ~(c < b)
  BY <1>1, <1>2
<1> QED BY <1>3

LEMMA SecondFacts ==
  /\ Second \in Block \ {Header}
  /\ \A b \in Block \ {Header} : Second <= b
<1>1. /\ Block \ {Header} \in SUBSET Nat /\ Block \ {Header} # {}
  BY PassesAssumption
<1>2. \E b \in Block \ {Header} : \A c \in Block \ {Header} : b <= c
  BY <1>1, LeastNat
<1> QED BY <1>2 DEF Second

(* Where a loop stands.                                                    *)
LEMMA ScanFacts ==
  ASSUME WellFormed(ir, instrs, made), ControlOK, pass \in Passes, at <= Len(Order)
  PROVE  /\ at \in Nat /\ it \in Nat /\ Bb \in Block \ {Header}
         /\ instrs[Bb] \in Seq(Instr) /\ IsInjective(instrs[Bb])
         /\ pass = "fold" => Bb = Second
         /\ pass # "fold" => at \in 2 .. Len(Order) /\ Bb = Order[at]
         /\ it <= Len(instrs[Bb]) => /\ it \in 1 .. Len(instrs[Bb])
                                     /\ Current \in Placed(Bb)
                                     /\ Current \in Instr /\ Current \in Alive
<1>1. Lists(instrs) /\ AllIn(instrs) \subseteq Instr
  BY WellFormedFacts
<1>2. at \in Nat \ {0} /\ it \in Nat \ {0}
  BY OrderFacts DEF ControlOK
<1>3. /\ Bb \in Block \ {Header}
      /\ pass = "fold" => Bb = Second
      /\ pass # "fold" => at \in 2 .. Len(Order) /\ Bb = Order[at]
  BY <1>2, SecondFacts, OrderFacts DEF ControlOK, Bb, Passes
<1>4. instrs[Bb] \in Seq(Instr) /\ IsInjective(instrs[Bb])
  BY <1>1, <1>3 DEF Lists
<1>5. ASSUME it <= Len(instrs[Bb])
      PROVE  /\ it \in 1 .. Len(instrs[Bb]) /\ Current \in Placed(Bb)
             /\ Current \in Instr /\ Current \in Alive
  <2>1. it \in 1 .. Len(instrs[Bb])
    BY <1>2, <1>4, <1>5
  <2>2. Current \in Placed(Bb)
    BY <1>4, <2>1 DEF Current, Placed, In, ToSet
  <2>3. Current \in Alive
    BY <1>3, <2>2, InAll DEF Placed, Alive
  <2> QED BY <1>1, <2>1, <2>2, <2>3 DEF Alive
<1> QED BY <1>2, <1>3, <1>4, <1>5

(* What has been scanned in a list stays where it is when the current      *)
(* instruction is cut, and it does not use what is cut.                    *)
LEMMA CutCurrent ==
  ASSUME NEW s \in Seq(Instr), IsInjective(s), NEW j \in 1 .. Len(s), NEW k \in 1 .. Len(s),
         k < j
  PROVE  RemoveFirst(s, s[j])[k] = s[k] /\ ~Before(s, s[j], s[k]) /\ s[k] # s[j]
<1>1. RemoveFirst(s, s[j])[k] = s[k]
  <2>1. \A g \in 1 .. Len(s) - 1 :
          RemoveFirst(s, s[j])[g] = IF g < j THEN s[g] ELSE s[g + 1]
    BY CutPlaces
  <2>2. k \in 1 .. Len(s) - 1
    OBVIOUS
  <2> QED BY <2>1, <2>2
<1> QED BY <1>1 DEF Before, IsInjective

(* In a block of Order, what stands behind the iterator does not use the   *)
(* current instruction, nor does anything in an earlier block.             *)
LEMMA BehindDoesNotUse ==
  ASSUME WellFormed(ir, instrs, made), ControlOK, pass = "atomic", at <= Len(Order),
         it <= Len(instrs[Bb]), NEW n \in 2 .. Len(Order),
         NEW k \in 1 .. Len(instrs[Order[n]]), n < at \/ (n = at /\ k < it)
  PROVE  LET w == instrs[Order[n]][k] IN
         w \in Alive /\ w \in Instr /\ w # Current /\ Current \notin Uses(w)
<1> DEFINE w == instrs[Order[n]][k]
           i == Current
<1>1. /\ Lists(instrs) /\ AllIn(instrs) \subseteq Instr
  BY WellFormedFacts
<1>2. /\ at \in 2 .. Len(Order) /\ Bb = Order[at] /\ it \in 1 .. Len(instrs[Bb])
      /\ i \in In(instrs, Order[at])
  BY ScanFacts DEF Passes, Placed
<1>3. /\ Order[n] \in Block \ {Header} /\ Order[at] \in Block \ {Header}
      /\ \A m \in 2 .. Len(Order) : m # at => Order[m] # Order[at]
  BY <1>2, OrderFacts
<1>4. /\ instrs[Order[n]] \in Seq(Instr) /\ IsInjective(instrs[Order[n]])
  BY <1>1, <1>3 DEF Lists
<1>5. w \in In(instrs, Order[n])
  BY <1>4 DEF In, ToSet
<1>6. w \in Alive /\ w \in Instr
  BY <1>1, <1>3, <1>5, InAll DEF Alive
<1>7. \A m \in 2 .. Len(Order) : m # at => i \notin In(instrs, Order[m])
  BY <1>1, <1>2, <1>3, OrderFacts DEF Lists
<1>8. i \notin In(instrs, Header)
  BY <1>1, <1>2, <1>3, OrderFacts DEF Lists
<1>9. CASE n < at
  <2>1. n # at /\ \A m \in 2 .. n - 1 : m \in 2 .. Len(Order) /\ m # at
    BY <1>2, <1>9, OrderFacts
  <2>2. w # i
    BY <1>5, <1>7, <2>1
  <2>3. ASSUME i \in Uses(w) PROVE FALSE
    <3>1. Known(instrs, n, i, w)
      BY <1>5, <2>3 DEF WellFormed, Ordered, Known, Uses
    <3>2. ASSUME Before(instrs[Order[n]], i, w) PROVE FALSE
      <4>1. instrs \in [Block -> Seq(Instr)] /\ Order[n] \in Block
        BY <1>1, <1>3 DEF Lists
      <4>2. i \in In(instrs, Order[n])
        BY <3>2, <4>1, BeforeIn
      <4> QED BY <1>7, <2>1, <4>2
    <3> QED BY <1>7, <1>8, <2>1, <3>1, <3>2 DEF Known
  <2> QED BY <1>6, <2>2, <2>3
<1>10. CASE n = at /\ k < it
  <2>1. i = instrs[Order[n]][it] /\ it \in 1 .. Len(instrs[Order[n]])
    BY <1>2, <1>10 DEF Current
  <2>2. ~Before(instrs[Order[n]], i, w) /\ w # i
    BY <1>4, <1>10, <2>1, CutCurrent
  <2>3. ASSUME i \in Uses(w) PROVE FALSE
    <3>1. Known(instrs, n, i, w)
      BY <1>5, <2>3 DEF WellFormed, Ordered, Known, Uses
    <3>2. \A m \in 2 .. n - 1 : m \in 2 .. Len(Order) /\ m # at
      BY <1>2, <1>10, OrderFacts
    <3> QED BY <1>7, <1>8, <2>2, <3>1, <3>2 DEF Known
  <2> QED BY <1>6, <2>2, <2>3
<1> QED BY <1>9, <1>10

(* The same for doConstFoldProp, in the second block.                      *)
LEMMA FoldedBehind ==
  ASSUME WellFormed(ir, instrs, made), ControlOK, pass = "fold", at <= Len(Order),
         it <= Len(instrs[Bb]), NEW k \in 1 .. Len(instrs[Second]), k < it
  PROVE  LET w == instrs[Second][k] IN
         w \in Alive /\ w \in Instr /\ w # Current /\ Current \notin Uses(w)
<1> DEFINE w == instrs[Second][k]
           i == Current
<1>1. Lists(instrs) /\ AllIn(instrs) \subseteq Instr
  BY WellFormedFacts
<1>2. /\ Bb = Second /\ it \in 1 .. Len(instrs[Second]) /\ i \in In(instrs, Second)
      /\ i = instrs[Second][it]
      /\ instrs[Second] \in Seq(Instr) /\ IsInjective(instrs[Second])
      /\ Second \in Block \ {Header}
  BY ScanFacts, SecondFacts DEF Passes, Placed, Current
<1>3. w \in In(instrs, Second)
  BY <1>2 DEF In, ToSet
<1>4. w \in Alive /\ w \in Instr
  BY <1>1, <1>2, <1>3, InAll DEF Alive
<1>5. ~Before(instrs[Second], i, w) /\ w # i
  BY <1>2, CutCurrent
<1>6. i \notin Uses(w)
  BY <1>2, <1>3, <1>5 DEF WellFormed, OrderedInside, Uses
<1> QED BY <1>4, <1>5, <1>6

LEMMA SettledKept ==
  ASSUME NEW w \in Instr, ir[w].inputs \in Seq(Instr), Settled(w),
         ir'[w].opcd = ir[w].opcd, ir'[w].inputs = ir[w].inputs,
         \A e \in Uses(w) : ir'[e].type = ir[e].type /\ ir'[e].val = ir[e].val
  PROVE  Settled(w)'
<1> SUFFICES ASSUME Len(ir[w].inputs) = 2 PROVE ~IsZero(w)' /\ ~IsDouble(w)'
  BY DEF Settled
<1>1. ir[w].inputs[1] \in Uses(w) /\ ir[w].inputs[2] \in Uses(w)
  BY DEF Uses, Operands, ToSet
<1>2. ~IsZero(w) /\ ~IsDouble(w)
  BY DEF Settled
<1> QED BY <1>1, <1>2 DEF IsZero, IsDouble, Zero, IsConst

LEMMA NotFoldableKept ==
  ASSUME NEW w \in Instr, ~Foldable(w), ir'[w].inputs = ir[w].inputs,
         \A e \in Uses(w) : ir'[e].type = ir[e].type
  PROVE  ~Foldable(w)'
BY DEF Foldable, IsConst, Uses, Operands

-----------------------------------------------------------------------------
(* THE STEPS                                                               *)

LEMMA InvStart ==
  ASSUME Init PROVE PassesInv
<1>1. PICK q \in Programs : ir = q.ir /\ instrs = q.instrs /\ made = q.made
  BY DEF Init
<1>2. WellFormed(ir, instrs, made)
  BY <1>1, ProgramsAssumption
<1>3. ControlOK
  BY OrderFacts DEF Init, ControlOK
<1>4. KeysUnused /\ BehindSettled /\ Stopped
  BY DEF Init, KeysUnused, BehindSettled, Stopped
<1> QED BY <1>2, <1>3, <1>4 DEF PassesInv

LEMMA SameProgram ==
  ASSUME PassesInv, UNCHANGED program
  PROVE  /\ WellFormed(ir, instrs, made)'
         /\ \A w : Settled(w) => Settled(w)'
         /\ \A w : ~Foldable(w) => ~Foldable(w)'
         /\ \A w : Stripped(ir, w) => Stripped(ir, w)'
         /\ \A w : ~Throws(ir, instrs, w) => ~Throws(ir, instrs, w)'
<1>1. ir' = ir /\ instrs' = instrs /\ made' = made
  BY DEF program
<1>2. WellFormed(ir, instrs, made)'
  BY <1>1 DEF PassesInv
<1>3. \A w : Settled(w) => Settled(w)'
  BY <1>1 DEF Settled, IsZero, IsDouble, Zero, IsConst
<1>4. \A w : ~Foldable(w) => ~Foldable(w)'
  BY <1>1 DEF Foldable, Uses, Operands, IsConst
<1>5. \A w : Stripped(ir, w) => Stripped(ir, w)'
  BY <1>1
<1>6. \A w : ~Throws(ir, instrs, w) => ~Throws(ir, instrs, w)'
  BY <1>1
<1> QED BY <1>2, <1>3, <1>4, <1>5, <1>6

(* The program stops only where the self-check would have thrown, so at a  *)
(* stripped ADD, or where doConstFoldProp meets less than two operands.    *)
LEMMA AbortKeeps ==
  ASSUME PassesInv, Abort PROVE PassesInv'
<1>1. /\ WellFormed(ir, instrs, made) /\ ControlOK /\ UNCHANGED program
      /\ at' = at /\ it' = it /\ pass' = "aborted"
      /\ pass \in Passes /\ at <= Len(Order) /\ it <= Len(instrs[Bb])
  BY DEF PassesInv, Abort, Scanning, program
<1>2. Current \in Alive
  BY <1>1, ScanFacts
<1>3. Current' = Current
  BY <1>1 DEF Current, Bb, program
<1>4. Throws(ir, instrs, Current) => Stripped(ir, Current)
  BY <1>1, <1>2 DEF WellFormed, Alive
<1>5. at = 1 \/ Throws(ir, instrs, Current)
  <2>1. CASE pass = "fold"
    BY <1>1, <2>1 DEF ControlOK
  <2>2. CASE pass # "fold"
    BY <1>1, <2>2 DEF Abort, WantsTwo, Throws, WrongInputCount, Binary
  <2> QED BY <2>1, <2>2
<1>6. Stripped(ir, Current) \/ (at = 1 /\ ~Throws(ir, instrs, Current))
  BY <1>4, <1>5
<1>7. Stopped'
  BY <1>1, <1>3, <1>6, SameProgram DEF Stopped
<1>8. ControlOK' /\ KeysUnused' /\ BehindSettled'
  BY <1>1 DEF ControlOK, KeysUnused, BehindSettled, Passes
<1> QED BY <1>1, <1>7, <1>8, SameProgram DEF PassesInv

(* An instruction that stays does so because nothing applies to it.        *)
LEMMA KeepKeeps ==
  ASSUME PassesInv, Keep PROVE PassesInv'
<1>1. /\ WellFormed(ir, instrs, made) /\ ControlOK /\ BehindSettled /\ UNCHANGED program
      /\ at' = at /\ it' = it + 1 /\ pass' = pass
      /\ pass \in Passes /\ at <= Len(Order) /\ it <= Len(instrs[Bb])
      /\ instrs' = instrs
  BY DEF PassesInv, Keep, Scanning, program
<1>2. /\ it \in Nat /\ (pass = "fold" => Bb = Second)
      /\ (pass # "fold" => Bb = Order[at] /\ at \in 2 .. Len(Order))
  BY <1>1, ScanFacts
<1>3. pass = "fold" => ~Foldable(Current)
  BY DEF Keep, WantsTwo, Applies
<1>4. pass = "atomic" => Settled(Current)
  BY DEF Keep, WantsTwo, Applies, Settled, IsZero, IsDouble
<1>5. ASSUME pass' = "fold", NEW k \in 1 .. Len(instrs[Second]), k < it + 1
      PROVE  ~Foldable(instrs[Second][k])'
  <2>1. CASE k < it
    BY <1>1, <1>5, <2>1, SameProgram DEF BehindSettled, program
  <2>2. CASE k = it
    BY <1>1, <1>2, <1>3, <1>5, <2>2, SameProgram DEF Current
  <2> QED BY <1>2, <1>5, <2>1, <2>2
<1>6. ASSUME pass' = "atomic", NEW n \in 2 .. Len(Order),
             NEW k \in 1 .. Len(instrs[Order[n]]), n < at \/ (n = at /\ k < it + 1)
      PROVE  Settled(instrs[Order[n]][k])'
  <2>1. CASE n < at \/ (n = at /\ k < it)
    BY <1>1, <1>6, <2>1, SameProgram DEF BehindSettled
  <2>2. CASE n = at /\ k = it
    BY <1>1, <1>2, <1>4, <1>6, <2>2, SameProgram DEF Current
  <2> QED BY <1>2, <1>6, <2>1, <2>2
<1>7. BehindSettled'
  BY <1>1, <1>5, <1>6 DEF BehindSettled
<1>8. ControlOK' /\ KeysUnused' /\ Stopped'
  BY <1>1, <1>2 DEF ControlOK, KeysUnused, Stopped, Passes
<1> QED BY <1>1, <1>7, <1>8, SameProgram DEF PassesInv

LEMMA NextBlockKeeps ==
  ASSUME PassesInv, NextBlock PROVE PassesInv'
<1>1. /\ WellFormed(ir, instrs, made) /\ ControlOK /\ BehindSettled /\ UNCHANGED program
      /\ at' = at + 1 /\ it' = 1 /\ pass' = pass
      /\ pass \in {"peep", "atomic"} /\ at <= Len(Order) /\ it > Len(instrs[Bb])
      /\ instrs' = instrs
  BY DEF PassesInv, NextBlock, program
<1>2. /\ it \in Nat /\ Bb = Order[at] /\ at \in 2 .. Len(Order)
      /\ instrs[Bb] \in Seq(Instr)
  BY <1>1, ScanFacts DEF Passes
<1>3. ASSUME pass' = "atomic", NEW n \in 2 .. Len(Order),
             NEW k \in 1 .. Len(instrs[Order[n]]), n < at + 1 \/ (n = at + 1 /\ k < 1)
      PROVE  Settled(instrs[Order[n]][k])'
  <2>1. n < at \/ (n = at /\ k < it)
    BY <1>1, <1>2, <1>3
  <2> QED BY <1>1, <1>3, <2>1, SameProgram DEF BehindSettled
<1>4. BehindSettled'
  BY <1>1, <1>3 DEF BehindSettled
<1>5. ControlOK' /\ KeysUnused' /\ Stopped'
  BY <1>1, <1>2 DEF ControlOK, KeysUnused, Stopped, Passes
<1> QED BY <1>1, <1>4, <1>5, SameProgram DEF PassesInv

LEMMA ControlStepsKeep ==
  ASSUME PassesInv, FindUnusedConsts \/ Return \/ \E p \in Passes : Call(p)
  PROVE  PassesInv'
<1>1. /\ WellFormed(ir, instrs, made)' /\ ControlOK
      /\ UNCHANGED program /\ ir' = ir /\ instrs' = instrs
  <2>1. UNCHANGED program
    BY DEF FindUnusedConsts, Return, Call
  <2> QED BY <2>1, SameProgram DEF PassesInv, program
<1>2. CASE FindUnusedConsts
  <2>1. KeysUnused'
    BY <1>1, <1>2 DEF FindUnusedConsts, UnusedConsts, KeysUnused, Placed
  <2>2. ControlOK' /\ BehindSettled' /\ Stopped'
    BY <1>1, <1>2 DEF FindUnusedConsts, ControlOK, BehindSettled, Stopped
  <2> QED BY <1>1, <2>1, <2>2 DEF PassesInv
<1>3. CASE Return
  BY <1>1, <1>3, OrderFacts
    DEF Return, ControlOK, KeysUnused, BehindSettled, Stopped, PassesInv
<1>4. ASSUME NEW p \in Passes, Call(p) PROVE PassesInv'
  <2>1. /\ pass' = p /\ at' = (IF p = "fold" THEN 1 ELSE 2) /\ it' = 1
    BY <1>4 DEF Call
  <2>2. ControlOK' /\ KeysUnused' /\ Stopped'
    BY <2>1, OrderFacts DEF ControlOK, KeysUnused, Stopped, Passes
  <2>3. BehindSettled'
    BY <1>1, <2>1 DEF BehindSettled
  <2> QED BY <1>1, <2>2, <2>3 DEF PassesInv
<1> QED BY <1>2, <1>3, <1>4

LEMMA EraseConstKeeps ==
  ASSUME PassesInv, EraseConst PROVE PassesInv'
<1>1. PICK key \in keys : /\ ir' = Forgotten(key) /\ instrs' = Without(Header, key)
                          /\ keys' = keys \ {key}
  BY DEF EraseConst
<1>2. /\ WellFormed(ir, instrs, made) /\ made' = made /\ pass = "consts" /\ pass' = "consts"
      /\ \A k \in keys : k \in Placed(Header) /\ ir[k].users = {}
      /\ at' = at /\ it' = it /\ ControlOK
  BY DEF PassesInv, EraseConst, KeysUnused
<1>3. WellFormed(ir, instrs, made)'
  BY <1>1, <1>2, ErasedWell, OrderFacts
<1>4. Shaped(ir) /\ Lists(instrs) /\ In(instrs, Header) \subseteq Instr /\ Header \in Block
  BY <1>2, WellFormedFacts, OrderFacts, InInstr DEF Lists
<1>5. In(instrs', Header) = In(instrs, Header) \ {key}
  <2>1. key \in In(instrs, Header) /\ instrs' = Cut(instrs, Header, key)
    BY <1>1, <1>2 DEF Without, Cut, Placed
  <2> QED BY <1>4, <2>1, CutLists
<1>6. \A k \in Instr : ir'[k].users \subseteq ir[k].users
  <2>1. key \in Instr /\ ir[key].users = {}
    BY <1>2, <1>4 DEF Placed
  <2> QED BY <1>1, <1>4, <2>1, ForgottenFacts
<1>7. KeysUnused'
  BY <1>1, <1>2, <1>4, <1>5, <1>6 DEF KeysUnused, Placed
<1>8. ControlOK' /\ BehindSettled' /\ Stopped'
  BY <1>2 DEF ControlOK, BehindSettled, Stopped
<1> QED BY <1>3, <1>7, <1>8 DEF PassesInv

LEMMA EraseOddKeeps ==
  ASSUME PassesInv, EraseOdd PROVE PassesInv'
<1>1. /\ WellFormed(ir, instrs, made) /\ made' = made /\ pass = "peep" /\ pass' = "peep"
      /\ at' = at /\ at <= Len(Order) /\ ControlOK
      /\ it' = Len(instrs'[Bb]) + 1
  BY DEF PassesInv, EraseOdd
<1>2. Bb \in Block /\ at \in Nat
  BY <1>1, ScanFacts DEF Passes
<1>3. WellFormed(ir, instrs, made)'
  <2> DEFINE e == Last(odd)
  <2>1. CASE e \in Placed(Bb) /\ ir[e].users = {}
    <3>1. ir' = Forgotten(e) /\ instrs' = Without(Bb, e)
      BY <2>1 DEF EraseOdd
    <3> HIDE DEF e
    <3> QED BY <1>1, <1>2, <2>1, <3>1, ErasedWell
  <2>2. CASE ~(e \in Placed(Bb) /\ ir[e].users = {})
    <3>1. ir' = ir /\ instrs' = instrs
      BY <2>2 DEF EraseOdd
    <3> QED BY <1>1, <3>1
  <2> QED BY <2>1, <2>2
<1>4. instrs'[Bb] \in Seq(Instr)
  BY <1>2, <1>3 DEF WellFormed, WellTyped
<1>5. ControlOK' /\ KeysUnused' /\ BehindSettled' /\ Stopped'
  BY <1>1, <1>2, <1>4 DEF ControlOK, KeysUnused, BehindSettled, Stopped, Passes
<1> QED BY <1>3, <1>5 DEF PassesInv

LEMMA ReduceKeeps ==
  ASSUME PassesInv, Reduce PROVE PassesInv'
<1> DEFINE i == Current
           e == ir[i].inputs[1]
           c == ir[i].inputs[2]
           x == Detachable(e)[1]
           d == Detachable(e)[2]
<1>1. /\ WellFormed(ir, instrs, made) /\ ControlOK /\ made < MaxInstr
      /\ pass = "peep" /\ pass' = "peep" /\ at' = at /\ it' = it + 1
      /\ at <= Len(Order) /\ it <= Len(instrs[Bb])
      /\ made' = made + 1 /\ Len(ir[i].inputs) = 2 /\ Reducible(i)
      /\ ir' = Detached(i, e, x, c, d, made + 1)
      /\ instrs' = WithConst
  BY DEF PassesInv, Reduce, Scanning, WithConst, Push
<1>2. at \in 2 .. Len(Order) /\ i \in Placed(Order[at]) /\ it \in Nat
  BY <1>1, ScanFacts DEF Passes
<1>3. WellFormed(ir, instrs, made)'
  <2> HIDE DEF i
  <2>1. WellFormed(Detached(i, e, x, c, d, made + 1), WithConst, made + 1)
    BY <1>1, <1>2, DetachedWell
  <2> QED BY <1>1, <2>1
<1>4. ControlOK' /\ KeysUnused' /\ BehindSettled' /\ Stopped'
  BY <1>1, <1>2 DEF ControlOK, KeysUnused, BehindSettled, Stopped, Passes
<1> QED BY <1>3, <1>4 DEF PassesInv

(* The instruction that is folded is cut, and nothing behind it used it.   *)
LEMMA FoldKeeps ==
  ASSUME PassesInv, Fold PROVE PassesInv'
<1> DEFINE i == Current
<1>1. /\ WellFormed(ir, instrs, made) /\ ControlOK /\ BehindSettled
      /\ pass = "fold" /\ pass' = "fold" /\ at' = at /\ it' = it
      /\ at <= Len(Order) /\ it <= Len(instrs[Bb])
      /\ made' = made /\ Len(ir[i].inputs) = 2
      /\ ir' = AsConst(i, Folded(i)) /\ instrs' = MovedToHead(Bb, i)
  BY DEF PassesInv, Fold, Scanning, AtFollowing, control, AsConst
<1>2. /\ Bb = Second /\ Second \in Block \ {Header} /\ i \in Placed(Second) /\ i \in Instr
      /\ instrs[Second] \in Seq(Instr) /\ IsInjective(instrs[Second])
      /\ it \in 1 .. Len(instrs[Second])
      /\ i = instrs[Second][it]
  BY <1>1, ScanFacts, SecondFacts DEF Passes, Current
<1>3. Shaped(ir) /\ Lists(instrs)
  BY <1>1, WellFormedFacts
<1>4. instrs'[Second] = RemoveFirst(instrs[Second], i)
  <2>1. Moved(MovedToHead(Second, i), Second, i)
    BY <1>2, <1>3, MoveLists DEF Placed
  <2> QED BY <1>1, <1>2, <2>1 DEF Moved
<1>5. ASSUME NEW k \in 1 .. Len(instrs'[Second]), k < it
      PROVE  ~Foldable(instrs[Second][k])'
  <2>1. k \in 1 .. Len(instrs[Second])
    <3>1. Len(RemoveFirst(instrs[Second], instrs[Second][it])) = Len(instrs[Second]) - 1
      BY <1>2, CutPlaces
    <3> QED BY <1>2, <1>4, <3>1
  <2> PICK w : w = instrs[Second][k]
    OBVIOUS
  <2>2. w \in Alive /\ w \in Instr /\ w # i /\ i \notin Uses(w)
    BY <1>1, <1>5, <2>1, FoldedBehind
  <2>3. instrs'[Second][k] = w
    BY <1>2, <1>4, <1>5, <2>1, CutCurrent
  <2>4. ~Foldable(w)
    BY <1>1, <1>5, <2>1 DEF BehindSettled
  <2>5. Uses(w) \subseteq Instr
    BY <1>1, <2>2, WellFormedFacts DEF Uses, Operands, ToSet
  <2> HIDE DEF i
  <2>6. ir'[w].inputs = ir[w].inputs /\ \A e \in Uses(w) : ir'[e].type = ir[e].type
    BY <1>1, <1>2, <1>3, <2>2, <2>5, AsConstFacts
  <2>7. ~Foldable(w)'
    BY <2>2, <2>4, <2>6, NotFoldableKept
  <2> QED BY <2>3, <2>7
<1>6. WellFormed(ir, instrs, made)'
  <2> HIDE DEF i
  <2> QED BY <1>1, <1>2, AsConstWell
<1>7. BehindSettled'
  BY <1>1, <1>5 DEF BehindSettled
<1>8. ControlOK' /\ KeysUnused' /\ Stopped'
  BY <1>1 DEF ControlOK, KeysUnused, Stopped
<1> QED BY <1>6, <1>7, <1>8 DEF PassesInv

LEMMA MakeZeroKeeps ==
  ASSUME PassesInv, MakeZero PROVE PassesInv'
<1> DEFINE i == Current
<1>1. /\ WellFormed(ir, instrs, made) /\ ControlOK /\ BehindSettled
      /\ pass = "atomic" /\ pass' = "atomic" /\ at' = at /\ it' = it
      /\ at <= Len(Order) /\ it <= Len(instrs[Bb])
      /\ made' = made /\ Len(ir[i].inputs) = 2
      /\ ir' = AsConst(i, 0) /\ instrs' = MovedToHead(Bb, i)
  BY DEF PassesInv, MakeZero, Scanning, AtFollowing, control, AsConst
<1>2. /\ at \in 2 .. Len(Order) /\ Bb = Order[at] /\ Bb \in Block \ {Header}
      /\ i \in Placed(Bb) /\ i \in Instr
      /\ instrs[Bb] \in Seq(Instr) /\ IsInjective(instrs[Bb])
      /\ it \in 1 .. Len(instrs[Bb]) /\ i = instrs[Bb][it]
  BY <1>1, ScanFacts DEF Passes, Current
<1>3. Shaped(ir) /\ Lists(instrs)
  BY <1>1, WellFormedFacts
<1>4. /\ instrs'[Bb] = RemoveFirst(instrs[Bb], i)
      /\ \A b \in Block \ {Bb, Header} : instrs'[b] = instrs[b]
  <2>1. Moved(MovedToHead(Bb, i), Bb, i)
    BY <1>2, <1>3, MoveLists DEF Placed
  <2> QED BY <1>1, <2>1 DEF Moved
<1>5. ASSUME NEW n \in 2 .. Len(Order), NEW k \in 1 .. Len(instrs'[Order[n]]),
             n < at \/ (n = at /\ k < it)
      PROVE  Settled(instrs[Order[n]][k])'
  <2> PICK w : w = instrs[Order[n]][k]
    OBVIOUS
  <2>1. n # at => instrs'[Order[n]] = instrs[Order[n]]
    BY <1>2, <1>4, OrderFacts
  <2>2. k \in 1 .. Len(instrs[Order[n]]) /\ instrs'[Order[n]][k] = w
    <3>1. CASE n # at
      BY <2>1, <3>1
    <3>2. CASE n = at
      <4>1. k \in 1 .. Len(instrs[Bb]) /\ k < it
        <5>1. Len(RemoveFirst(instrs[Bb], instrs[Bb][it])) = Len(instrs[Bb]) - 1
          BY <1>2, CutPlaces
        <5> QED BY <1>2, <1>4, <1>5, <3>2, <5>1
      <4>2. RemoveFirst(instrs[Bb], instrs[Bb][it])[k] = instrs[Bb][k]
        BY <1>2, <4>1, CutCurrent
      <4> QED BY <1>2, <1>4, <3>2, <4>1, <4>2
    <3> QED BY <3>1, <3>2
  <2>3. w \in Alive /\ w \in Instr /\ w # i /\ i \notin Uses(w)
    BY <1>1, <1>5, <2>2, BehindDoesNotUse
  <2>4. Settled(w)
    BY <1>1, <1>5, <2>2 DEF BehindSettled
  <2>5. Uses(w) \subseteq Instr /\ ir[w].inputs \in Seq(Instr)
    <3>1. ir[w].inputs \in Seq(Instr)
      BY <1>1, <2>3, WellFormedFacts
    <3> QED BY <3>1 DEF Uses, Operands, ToSet
  <2> HIDE DEF i
  <2>6. /\ ir'[w].opcd = ir[w].opcd /\ ir'[w].inputs = ir[w].inputs
        /\ \A e \in Uses(w) : ir'[e].type = ir[e].type /\ ir'[e].val = ir[e].val
    <3>1. \A j \in Instr \ {i} : AsConst(i, 0)[j] = ir[j]
      BY <1>2, <1>3, AsConstFacts
    <3>2. w \in Instr \ {i} /\ Uses(w) \subseteq Instr \ {i}
      BY <2>3, <2>5
    <3> QED BY <1>1, <3>1, <3>2
  <2>7. Settled(w)'
    BY <2>3, <2>4, <2>5, <2>6, SettledKept
  <2> QED BY <2>2, <2>7
<1>6. WellFormed(ir, instrs, made)'
  <2> HIDE DEF i
  <2> QED BY <1>1, <1>2, AsConstWell
<1>7. BehindSettled'
  BY <1>1, <1>5 DEF BehindSettled
<1>8. ControlOK' /\ KeysUnused' /\ Stopped'
  BY <1>1 DEF ControlOK, KeysUnused, Stopped
<1> QED BY <1>6, <1>7, <1>8 DEF PassesInv

(* The instruction is a SHL now, and the new constant is used by it only.  *)
LEMMA MakeShiftKeeps ==
  ASSUME PassesInv, MakeShift PROVE PassesInv'
<1> DEFINE i == Current
<1>1. /\ WellFormed(ir, instrs, made) /\ ControlOK /\ BehindSettled /\ made < MaxInstr
      /\ pass = "atomic" /\ pass' = "atomic" /\ at' = at /\ it' = it + 1
      /\ at <= Len(Order) /\ it <= Len(instrs[Bb])
      /\ made' = made + 1 /\ Len(ir[i].inputs) = 2 /\ IsDouble(i)
      /\ ir' = AsShift(i) /\ instrs' = WithConst
  BY DEF PassesInv, MakeShift, Scanning, AsShift, WithConst, Push
<1>2. /\ at \in 2 .. Len(Order) /\ Bb = Order[at] /\ Bb \in Block \ {Header}
      /\ i \in Placed(Bb) /\ i \in Instr /\ i \in Alive
      /\ it \in 1 .. Len(instrs[Bb]) /\ i = instrs[Bb][it]
  BY <1>1, ScanFacts DEF Passes, Current
<1>3. /\ Shaped(ir) /\ ir[i].inputs \in Seq(Instr)
      /\ made + 1 \in Instr /\ made + 1 \notin Alive /\ made + 1 # i
      /\ \A b \in Block \ {Header} : instrs'[b] = instrs[b]
  BY <1>1, <1>2, WellFormedFacts, WithConstFacts DEF Alive
<1> HIDE DEF i
<1>4. ir'[i].opcd = "SHL" /\ \A k \in Instr \ {i, made + 1} : ir'[k] = ir[k]
  BY <1>1, <1>2, <1>3, AsShiftFacts
<1>5. ASSUME NEW n \in 2 .. Len(Order), NEW k \in 1 .. Len(instrs[Order[n]]),
             n < at \/ (n = at /\ k < it)
      PROVE  Settled(instrs[Order[n]][k])'
  <2> PICK w : w = instrs[Order[n]][k]
    OBVIOUS
  <2>1. w \in Alive /\ w \in Instr /\ w # i /\ i \notin Uses(w)
    BY <1>1, <1>5, BehindDoesNotUse DEF i
  <2>2. Settled(w)
    BY <1>1, <1>5 DEF BehindSettled
  <2>3. /\ Uses(w) \subseteq Alive /\ Alive \subseteq Instr
        /\ ir[w].inputs \in Seq(Instr)
    BY <1>1, <2>1, WellFormedFacts DEF WellFormed, Agree, Uses, Alive
  <2>4. /\ ir'[w].opcd = ir[w].opcd /\ ir'[w].inputs = ir[w].inputs
        /\ \A e \in Uses(w) : ir'[e].type = ir[e].type /\ ir'[e].val = ir[e].val
    BY <1>3, <1>4, <2>1, <2>3
  <2>5. Settled(w)'
    BY <2>1, <2>2, <2>3, <2>4, SettledKept
  <2>6. instrs'[Order[n]] = instrs[Order[n]]
    BY <1>3, OrderFacts
  <2> QED BY <2>5, <2>6
<1>6. \A w : w = i => Settled(w)'
  BY <1>4 DEF Settled, IsZero, IsDouble
<1>7. ASSUME NEW n \in 2 .. Len(Order), NEW k \in 1 .. Len(instrs'[Order[n]]),
             n < at \/ (n = at /\ k < it + 1)
      PROVE  Settled(instrs[Order[n]][k])'
  <2>1. instrs'[Order[n]] = instrs[Order[n]]
    BY <1>3, OrderFacts
  <2>2. CASE n < at \/ (n = at /\ k < it)
    BY <1>5, <2>1, <2>2
  <2>3. CASE n = at /\ k = it
    BY <1>2, <1>6, <2>1, <2>3
  <2> QED BY <1>2, <1>7, <2>2, <2>3
<1>8. WellFormed(ir, instrs, made)'
  BY <1>1, <1>2, AsShiftWell
<1>9. BehindSettled'
  BY <1>1, <1>7 DEF BehindSettled
<1>10. ControlOK' /\ KeysUnused' /\ Stopped'
  BY <1>1, <1>2 DEF ControlOK, KeysUnused, Stopped
<1> QED BY <1>8, <1>9, <1>10 DEF PassesInv

LEMMA InvStep ==
  ASSUME PassesInv, [Next]_passVars PROVE PassesInv'
<1>1. CASE Step
  BY <1>1, AbortKeeps, KeepKeeps, FoldKeeps, ReduceKeeps, MakeZeroKeeps, MakeShiftKeeps,
     EraseOddKeeps, NextBlockKeeps, EraseConstKeeps, ControlStepsKeep DEF Step
<1>2. CASE \E p \in Passes : Call(p)
  BY <1>2, ControlStepsKeep
<1>3. CASE UNCHANGED passVars
  <2>1. UNCHANGED program /\ UNCHANGED control /\ instrs' = instrs /\ ir' = ir
    BY <1>3 DEF passVars, program
  <2>2. Current' = Current /\ pass' = pass /\ at' = at /\ it' = it /\ keys' = keys
    BY <2>1 DEF control, Current, Bb
  <2>3. ControlOK' /\ KeysUnused'
    BY <2>1, <2>2 DEF PassesInv, ControlOK, KeysUnused, Placed
  <2>4. BehindSettled'
    BY <2>1, <2>2, SameProgram DEF PassesInv, BehindSettled
  <2>5. Stopped'
    BY <2>1, <2>2, SameProgram DEF PassesInv, Stopped
  <2> QED BY <2>1, <2>3, <2>4, <2>5, SameProgram DEF PassesInv
<1> QED BY <1>1, <1>2, <1>3 DEF Next

-----------------------------------------------------------------------------
(* RECURSIVE FUNCTIONS                                                     *)

StaysIn(D, V, G) == \A d \in D : \A f \in [D -> V] : G[<<d, f>>] \in V

(* G gives the value at d from the values at what has a lower rank.        *)
Descends(D, V, rank, G) ==
  \A d \in D : \A f, g \in [D -> V] :
    (\A e \in D : rank[e] < rank[d] => f[e] = g[e]) => G[<<d, f>>] = G[<<d, g>>]

SolvesBelow(D, rank, G, n, f) == \A d \in D : rank[d] < n => f[d] = G[<<d, f>>]

LEMMA SolutionsAgree ==
  ASSUME NEW D, NEW V, NEW rank \in [D -> Nat], NEW G, Descends(D, V, rank, G),
         NEW f \in [D -> V], NEW g \in [D -> V], NEW n \in Nat,
         SolvesBelow(D, rank, G, n, f), SolvesBelow(D, rank, G, n, g)
  PROVE  \A d \in D : rank[d] < n => f[d] = g[d]
<1> DEFINE S == {k \in Nat : k < n /\ \E d \in D : rank[d] = k /\ f[d] # g[d]}
<1>1. ASSUME S # {} PROVE FALSE
  <2>1. PICK k \in S : \A c \in S : k <= c
    <3>1. S \in SUBSET Nat
      OBVIOUS
    <3> HIDE DEF S
    <3> QED BY <1>1, <3>1, LeastNat
  <2>2. PICK d \in D : rank[d] = k /\ f[d] # g[d]
    BY <2>1
  <2>3. k \in Nat /\ k < n
    BY <2>1
  <2>4. ASSUME NEW e \in D, rank[e] < rank[d] PROVE f[e] = g[e]
    <3>1. rank[e] \in Nat /\ rank[e] < n /\ rank[e] < k
      BY <2>2, <2>3, <2>4
    <3>2. rank[e] \notin S
      BY <2>1, <2>3, <3>1
    <3> QED BY <3>1, <3>2
  <2>5. G[<<d, f>>] = G[<<d, g>>]
    BY <2>4 DEF Descends
  <2> QED BY <2>2, <2>3, <2>5 DEF SolvesBelow
<1> QED BY <1>1

LEMMA SolutionsBelow ==
  ASSUME NEW D, NEW V, NEW zero \in V, NEW rank \in [D -> Nat], NEW G,
         StaysIn(D, V, G), Descends(D, V, rank, G)
  PROVE  \A n \in Nat : \E f \in [D -> V] : SolvesBelow(D, rank, G, n, f)
<1> DEFINE S == {n \in Nat : ~\E f \in [D -> V] : SolvesBelow(D, rank, G, n, f)}
<1>1. ASSUME S # {} PROVE FALSE
  <2>1. PICK n \in S : \A c \in S : n <= c
    <3>1. S \in SUBSET Nat
      OBVIOUS
    <3> HIDE DEF S
    <3> QED BY <1>1, <3>1, LeastNat
  <2>2. CASE n = 0
    <3>1. [d \in D |-> zero] \in [D -> V]
      OBVIOUS
    <3>2. SolvesBelow(D, rank, G, 0, [d \in D |-> zero])
      BY DEF SolvesBelow
    <3> QED BY <2>1, <2>2, <3>1, <3>2
  <2>3. CASE n # 0
    <3>1. n - 1 \in Nat /\ n \in Nat /\ n - 1 \notin S
      BY <2>1, <2>3
    <3>2. PICK f \in [D -> V] : SolvesBelow(D, rank, G, n - 1, f)
      BY <3>1
    <3> DEFINE g == [d \in D |-> IF rank[d] = n - 1 THEN G[<<d, f>>] ELSE f[d]]
    <3>3. g \in [D -> V]
      BY DEF StaysIn
    <3>4. ASSUME NEW d \in D, rank[d] < n PROVE g[d] = G[<<d, g>>]
      <4>1. \A e \in D : rank[e] < rank[d] => f[e] = g[e]
        BY <3>1, <3>4
      <4>2. g[d] = G[<<d, f>>]
        BY <3>1, <3>2, <3>4 DEF SolvesBelow
      <4> HIDE DEF g
      <4>3. G[<<d, f>>] = G[<<d, g>>]
        BY <3>3, <4>1 DEF Descends
      <4> QED BY <4>2, <4>3
    <3> HIDE DEF g
    <3>5. SolvesBelow(D, rank, G, n, g)
      BY <3>4 DEF SolvesBelow
    <3> QED BY <2>1, <3>3, <3>5
  <2> QED BY <2>2, <2>3
<1> QED BY <1>1

(* A function defined by recursion on the rank exists, and there is one.   *)
Recursion(D, V, rank, G) ==
  V # {} /\ rank \in [D -> Nat] /\ StaysIn(D, V, G) /\ Descends(D, V, rank, G)

LEMMA RecursiveFunction ==
  ASSUME NEW D, NEW V, NEW rank, NEW G, Recursion(D, V, rank, G)
  PROVE  \E f \in [D -> V] : \A d \in D : f[d] = G[<<d, f>>]
<1>a. /\ rank \in [D -> Nat]
      /\ StaysIn(D, V, G) /\ Descends(D, V, rank, G)
  BY DEF Recursion
<1>b. PICK zero \in V : TRUE
  BY DEF Recursion
<1> DEFINE F(n) == CHOOSE f \in [D -> V] : SolvesBelow(D, rank, G, n, f)
           h == [d \in D |-> F(rank[d] + 1)[d]]
<1>1. \A n \in Nat : F(n) \in [D -> V] /\ SolvesBelow(D, rank, G, n, F(n))
  BY <1>a, <1>b, SolutionsBelow
<1> HIDE DEF F
<1>2. h \in [D -> V]
  BY <1>a, <1>1
<1>3. ASSUME NEW d \in D PROVE h[d] = G[<<d, h>>]
  <2> DEFINE n == rank[d] + 1
  <2>1. n \in Nat /\ rank[d] \in Nat /\ rank[d] < n
    BY <1>a
  <2>2. ASSUME NEW e \in D, rank[e] < rank[d] PROVE h[e] = F(n)[e]
    <3> DEFINE k == rank[e] + 1
    <3>1. k \in Nat /\ rank[e] \in Nat /\ rank[e] < k /\ k <= n
      BY <1>a, <2>2
    <3>2. F(k) \in [D -> V] /\ F(n) \in [D -> V] /\ SolvesBelow(D, rank, G, k, F(k))
      BY <1>1, <2>1, <3>1
    <3>3. SolvesBelow(D, rank, G, n, F(n))
      BY <1>1, <2>1
    <3>4. SolvesBelow(D, rank, G, k, F(n))
      BY <1>a, <2>1, <3>1, <3>3 DEF SolvesBelow
    <3> HIDE DEF k
    <3>5. F(k)[e] = F(n)[e]
      BY <1>a, <3>1, <3>2, <3>4, SolutionsAgree
    <3> QED BY <3>5 DEF k
  <2>3. F(n) \in [D -> V] /\ SolvesBelow(D, rank, G, n, F(n))
    BY <1>1, <2>1
  <2>4. h[d] = F(n)[d]
    OBVIOUS
  <2> HIDE DEF h, n
  <2>5. G[<<d, h>>] = G[<<d, F(n)>>]
    BY <1>2, <1>a, <2>2, <2>3 DEF Descends
  <2>6. F(n)[d] = G[<<d, F(n)>>]
    BY <2>1, <2>3 DEF SolvesBelow
  <2> QED BY <2>4, <2>5, <2>6
<1> HIDE DEF h
<1> QED BY <1>2, <1>3

LEMMA OnlyRecursiveFunction ==
  ASSUME NEW D, NEW V, NEW rank \in [D -> Nat], NEW G, Descends(D, V, rank, G),
         NEW f \in [D -> V], NEW g \in [D -> V],
         \A d \in D : f[d] = G[<<d, f>>], \A d \in D : g[d] = G[<<d, g>>]
  PROVE  f = g
<1>1. ASSUME NEW d \in D PROVE f[d] = g[d]
  <2>1. rank[d] + 1 \in Nat /\ rank[d] < rank[d] + 1
    OBVIOUS
  <2>2. /\ SolvesBelow(D, rank, G, rank[d] + 1, f)
        /\ SolvesBelow(D, rank, G, rank[d] + 1, g)
    BY DEF SolvesBelow
  <2>3. \A e \in D : rank[e] < rank[d] + 1 => f[e] = g[e]
    BY <2>1, <2>2, SolutionsAgree
  <2> QED BY <2>1, <2>3
<1> QED BY <1>1

(* Induction on the rank.                                                  *)
LEMMA ByRank ==
  ASSUME NEW D, NEW rank \in [D -> Nat], NEW Good,
         \A d \in D : (\A e \in D : rank[e] < rank[d] => e \in Good) => d \in Good
  PROVE  D \subseteq Good
<1> DEFINE S == {n \in Nat : \E d \in D \ Good : rank[d] = n}
<1>1. ASSUME S # {} PROVE FALSE
  <2>1. PICK n \in S : \A c \in S : n <= c
    <3>1. S \in SUBSET Nat
      OBVIOUS
    <3> HIDE DEF S
    <3> QED BY <1>1, <3>1, LeastNat
  <2>2. PICK d \in D \ Good : rank[d] = n
    BY <2>1
  <2>3. ASSUME NEW e \in D, rank[e] < rank[d] PROVE e \in Good
    <3>1. rank[e] \in Nat /\ n \in Nat /\ rank[e] < n
      BY <2>2, <2>3
    <3>2. rank[e] \notin S
      BY <2>1, <3>1
    <3> QED BY <3>1, <3>2
  <2> QED BY <2>2, <2>3
<1>2. ASSUME NEW d \in D, d \notin Good PROVE FALSE
  <2>1. rank[d] \in S
    BY <1>2
  <2> QED BY <1>1, <2>1
<1> QED BY <1>2

-----------------------------------------------------------------------------
(* VALUES                                                                  *)

Pairs == Nat \X Nat
Half(p) == <<p[1] \div 2, p[2] \div 2>>
SumOf == [p \in Pairs |-> p[1] + p[2]]

LEMMA HalfFacts ==
  ASSUME NEW p \in Pairs
  PROVE  /\ p[1] \in Nat /\ p[2] \in Nat /\ Half(p) \in Pairs
         /\ p[1] % 2 \in {0, 1} /\ p[2] % 2 \in {0, 1}
         /\ p[1] # 0 \/ p[2] # 0 => SumOf[Half(p)] < SumOf[p]
<1>1. p[1] \in Nat /\ p[2] \in Nat
  BY DEF Pairs
<1>2. \A v \in Nat : v \div 2 \in Nat /\ v % 2 \in {0, 1} /\ v \div 2 <= v
                     /\ (v # 0 => v \div 2 < v)
  OBVIOUS
<1>3. Half(p) \in Pairs
  BY <1>1, <1>2 DEF Half, Pairs
<1>4. SumOf[Half(p)] = (p[1] \div 2) + (p[2] \div 2) /\ SumOf[p] = p[1] + p[2]
  BY <1>3 DEF Half, SumOf
<1> QED BY <1>1, <1>2, <1>3, <1>4

LEMMA SumOfType == SumOf \in [Pairs -> Nat]
<1>1. \A p \in Pairs : p[1] + p[2] \in Nat
  BY HalfFacts
<1> QED BY <1>1 DEF SumOf

(* A recursion on halves that ends at the pairs of Ends, with 0, and adds  *)
(* a bit elsewhere.                                                        *)
LEMMA ByHalves ==
  ASSUME NEW Ends, <<0, 0>> \in Ends, NEW bit \in [Pairs -> Nat]
  PROVE  LET P(f) == f = [p \in Pairs |-> IF p \in Ends THEN 0
                                          ELSE 2 * f[Half(p)] + bit[p]]
         IN  /\ \E f : P(f)
             /\ \A f : P(f) => f \in [Pairs -> Nat]
<1> DEFINE R(f) == [p \in Pairs |-> IF p \in Ends THEN 0 ELSE 2 * f[Half(p)] + bit[p]]
           G == [q \in Pairs \X [Pairs -> Nat] |->
                   IF q[1] \in Ends THEN 0 ELSE 2 * q[2][Half(q[1])] + bit[q[1]]]
<1>1. ASSUME NEW d \in Pairs, NEW f \in [Pairs -> Nat]
      PROVE  /\ G[<<d, f>>] = IF d \in Ends THEN 0 ELSE 2 * f[Half(d)] + bit[d]
             /\ G[<<d, f>>] \in Nat
  <2>1. <<d, f>> \in Pairs \X [Pairs -> Nat]
    OBVIOUS
  <2>2. G[<<d, f>>] = IF d \in Ends THEN 0 ELSE 2 * f[Half(d)] + bit[d]
    BY <2>1
  <2> HIDE DEF G
  <2>3. f[Half(d)] \in Nat /\ bit[d] \in Nat
    BY HalfFacts
  <2> QED BY <2>2, <2>3
<1> HIDE DEF G
<1>2. Descends(Pairs, Nat, SumOf, G)
  <2> SUFFICES ASSUME NEW d \in Pairs, NEW f \in [Pairs -> Nat], NEW g \in [Pairs -> Nat],
                      \A e \in Pairs : SumOf[e] < SumOf[d] => f[e] = g[e]
               PROVE  G[<<d, f>>] = G[<<d, g>>]
    BY DEF Descends
  <2>1. CASE d \in Ends
    BY <1>1, <2>1
  <2>2. CASE d \notin Ends
    <3>1. d # <<0, 0>>
      BY <2>2
    <3>2. d[1] # 0 \/ d[2] # 0
      BY <3>1 DEF Pairs
    <3>3. f[Half(d)] = g[Half(d)]
      BY <3>2, HalfFacts
    <3> QED BY <1>1, <2>2, <3>3
  <2> QED BY <2>1, <2>2
<1>3. \E f : f = R(f)
  <2>1. \A d \in Pairs : \A f \in [Pairs -> Nat] : G[<<d, f>>] \in Nat
    BY <1>1
  <2>2. PICK f \in [Pairs -> Nat] : \A d \in Pairs : f[d] = G[<<d, f>>]
    <3>1. StaysIn(Pairs, Nat, G) /\ Nat # {}
      BY <2>1 DEF StaysIn
    <3>2. Recursion(Pairs, Nat, SumOf, G)
      BY <1>2, <3>1, SumOfType DEF Recursion
    <3> QED BY <3>2, RecursiveFunction
  <2>3. \A d \in Pairs : G[<<d, f>>] = IF d \in Ends THEN 0 ELSE 2 * f[Half(d)] + bit[d]
    BY <1>1
  <2>4. f = R(f)
    BY <2>2, <2>3
  <2> QED BY <2>4
<1>4. ASSUME NEW f, f = R(f) PROVE f \in [Pairs -> Nat]
  <2> DEFINE Good == {p \in Pairs : f[p] \in Nat}
  <2>1. \A d \in Pairs : f[d] = IF d \in Ends THEN 0 ELSE 2 * f[Half(d)] + bit[d]
    BY <1>4
  <2>2. ASSUME NEW d \in Pairs, \A e \in Pairs : SumOf[e] < SumOf[d] => e \in Good
        PROVE  d \in Good
    <3>1. CASE d \in Ends
      BY <2>1, <3>1
    <3>2. CASE d \notin Ends
      <4>1. d # <<0, 0>>
        BY <3>2
      <4>2. d[1] # 0 \/ d[2] # 0
        BY <4>1 DEF Pairs
      <4>3. f[Half(d)] \in Nat /\ bit[d] \in Nat
        BY <2>2, <4>2, HalfFacts
      <4> QED BY <2>1, <3>2, <4>3
    <3> QED BY <3>1, <3>2
  <2> HIDE DEF Good
  <2>3. Pairs \subseteq Good
    BY <2>2, SumOfType, ByRank
  <2>4. \A p \in Pairs : f[p] \in Nat
    BY <2>3 DEF Good
  <2> QED BY <1>4, <2>4
<1> QED BY <1>3, <1>4

LEMMA BitAndFacts ==
  ASSUME NEW v \in Nat, NEW w \in Nat
  PROVE  BitAnd(v, w) \in Nat /\ (v = 0 \/ w = 0 => BitAnd(v, w) = 0)
<1> DEFINE Ends == {p \in Pairs : p[1] = 0 \/ p[2] = 0}
           bit == [p \in Pairs |-> (p[1] % 2) * (p[2] % 2)]
           P(f) == f = [p \in Pairs |-> IF p \in Ends THEN 0 ELSE 2 * f[Half(p)] + bit[p]]
           Q(f) == f = [p \in Nat \X Nat |->
                     IF p[1] = 0 \/ p[2] = 0 THEN 0
                     ELSE 2 * f[<<p[1] \div 2, p[2] \div 2>>] + (p[1] % 2) * (p[2] % 2)]
           and == CHOOSE f : Q(f)
<1>1. <<0, 0>> \in Ends
  BY DEF Pairs
<1>2. bit \in [Pairs -> Nat]
  <2>1. \A p \in Pairs : (p[1] % 2) * (p[2] % 2) \in Nat
    <3>1. ASSUME NEW y \in {0, 1}, NEW z \in {0, 1} PROVE y * z \in Nat
      OBVIOUS
    <3> QED BY <3>1, HalfFacts
  <2> QED BY <2>1
<1>3. \A f : P(f) <=> Q(f)
  BY DEF Half, Pairs
<1>4. (\E f : P(f)) /\ \A f : P(f) => f \in [Pairs -> Nat]
  <2> HIDE DEF Ends, bit
  <2> QED BY <1>1, <1>2, ByHalves
<1>5. Q(and) /\ and \in [Pairs -> Nat]
  <2> HIDE DEF P, Q
  <2>1. \E f : Q(f)
    BY <1>3, <1>4
  <2>2. Q(and)
    BY <2>1
  <2> QED BY <1>3, <1>4, <2>2
<1>6. BitAnd(v, w) = and[<<v, w>>]
  BY DEF BitAnd
<1> HIDE DEF and
<1>7. <<v, w>> \in Pairs
  BY DEF Pairs
<1>8. v = 0 \/ w = 0 => and[<<v, w>>] = 0
  BY <1>5
<1> QED BY <1>5, <1>6, <1>7, <1>8

LEMMA BitXorFacts ==
  ASSUME NEW v \in Nat, NEW w \in Nat
  PROVE  BitXor(v, w) \in Nat /\ (v = w => BitXor(v, w) = 0)
<1> DEFINE Ends == {p \in Pairs : p[1] = p[2]}
           bit == [p \in Pairs |-> (p[1] + p[2]) % 2]
           P(f) == f = [p \in Pairs |-> IF p \in Ends THEN 0 ELSE 2 * f[Half(p)] + bit[p]]
           Q(f) == f = [p \in Nat \X Nat |->
                     IF p[1] = p[2] THEN 0
                     ELSE 2 * f[<<p[1] \div 2, p[2] \div 2>>] + ((p[1] + p[2]) % 2)]
           xor == CHOOSE f : Q(f)
<1>1. <<0, 0>> \in Ends
  BY DEF Pairs
<1>2. bit \in [Pairs -> Nat]
  <2>1. \A p \in Pairs : (p[1] + p[2]) % 2 \in Nat
    BY HalfFacts
  <2> QED BY <2>1
<1>3. \A f : P(f) <=> Q(f)
  BY DEF Half, Pairs
<1>4. (\E f : P(f)) /\ \A f : P(f) => f \in [Pairs -> Nat]
  <2> HIDE DEF Ends, bit
  <2> QED BY <1>1, <1>2, ByHalves
<1>5. Q(xor) /\ xor \in [Pairs -> Nat]
  <2> HIDE DEF P, Q
  <2>1. \E f : Q(f)
    BY <1>3, <1>4
  <2>2. Q(xor)
    BY <2>1
  <2> QED BY <1>3, <1>4, <2>2
<1>6. BitXor(v, w) = xor[<<v, w>>]
  BY DEF BitXor
<1> HIDE DEF xor
<1>7. <<v, w>> \in Pairs
  BY DEF Pairs
<1>8. v = w => xor[<<v, w>>] = 0
  BY <1>5
<1> QED BY <1>5, <1>6, <1>7, <1>8

LEMMA ShiftedFacts ==
  ASSUME NEW v \in Nat, NEW w \in Nat
  PROVE  Shifted(v, w) \in Nat /\ Shifted(v, 1) = (2 * v) % Size
<1> DEFINE P(f) == f = [k \in Nat |-> IF k = 0 THEN v ELSE (2 * f[k - 1]) % Size]
           rank == [k \in Nat |-> k]
           G == [q \in Nat \X [Nat -> Nat] |->
                   IF q[1] = 0 THEN v ELSE (2 * q[2][q[1] - 1]) % Size]
           shl == CHOOSE f : P(f)
<1>1. Size \in Nat \ {0}
  BY PassesAssumption
<1>m. \A y \in Nat : (2 * y) % Size \in Nat
  BY <1>1
<1>2. ASSUME NEW k \in Nat, NEW f \in [Nat -> Nat]
      PROVE  /\ G[<<k, f>>] = IF k = 0 THEN v ELSE (2 * f[k - 1]) % Size
             /\ G[<<k, f>>] \in Nat
  <2>1. G[<<k, f>>] = IF k = 0 THEN v ELSE (2 * f[k - 1]) % Size
    OBVIOUS
  <2> HIDE DEF G
  <2>2. CASE k = 0
    BY <2>1, <2>2
  <2>3. CASE k # 0
    <3>1. f[k - 1] \in Nat
      BY <2>3
    <3> QED BY <1>m, <2>1, <2>3, <3>1
  <2> QED BY <2>2, <2>3
<1> HIDE DEF G
<1>3. Recursion(Nat, Nat, rank, G)
  <2>1. Descends(Nat, Nat, rank, G)
    <3> SUFFICES ASSUME NEW k \in Nat, NEW f \in [Nat -> Nat], NEW g \in [Nat -> Nat],
                        \A e \in Nat : rank[e] < rank[k] => f[e] = g[e]
                 PROVE  G[<<k, f>>] = G[<<k, g>>]
      BY DEF Descends
    <3>1. k # 0 => f[k - 1] = g[k - 1]
      OBVIOUS
    <3> QED BY <1>2, <3>1
  <2> QED BY <1>2, <2>1 DEF Recursion, StaysIn
<1>4. \E f : P(f)
  <2>1. PICK f \in [Nat -> Nat] : \A k \in Nat : f[k] = G[<<k, f>>]
    <3> HIDE DEF P, rank
    <3> QED BY <1>3, RecursiveFunction
  <2>2. \A k \in Nat : f[k] = IF k = 0 THEN v ELSE (2 * f[k - 1]) % Size
    BY <1>2, <2>1
  <2> QED BY <2>2
<1>5. P(shl)
  <2> HIDE DEF P
  <2> QED BY <1>4
<1>6. Shifted(v, w) = shl[w] /\ Shifted(v, 1) = shl[1]
  BY DEF Shifted
<1> HIDE DEF shl
<1>7. \A k \in Nat : shl[k] = IF k = 0 THEN v ELSE (2 * shl[k - 1]) % Size
  BY <1>5
<1>8. shl[0] = v /\ shl[1] = (2 * v) % Size
  BY <1>7
<1>9. Nat \subseteq {k \in Nat : shl[k] \in Nat}
  <2> DEFINE Good == {k \in Nat : shl[k] \in Nat}
  <2>1. ASSUME NEW k \in Nat, \A e \in Nat : rank[e] < rank[k] => e \in Good
        PROVE  k \in Good
    <3>1. CASE k = 0
      BY <1>8, <3>1
    <3>2. CASE k # 0
      <4>1. shl[k - 1] \in Nat
        BY <2>1, <3>2
      <4> QED BY <1>m, <1>7, <3>2, <4>1
    <3> QED BY <3>1, <3>2
  <2>2. rank \in [Nat -> Nat]
    OBVIOUS
  <2> HIDE DEF Good, rank
  <2>3. Nat \subseteq Good
    BY <2>1, <2>2, ByRank
  <2> QED BY <2>3 DEF Good
<1> QED BY <1>6, <1>8, <1>9

LEMMA OperationNat ==
  ASSUME NEW v \in Nat, NEW w \in Nat, NEW o \in Binary
  PROVE  Operation(o, v, w) \in Nat
<1>1. (v + w) % Size \in Nat
  BY PassesAssumption
<1> QED BY <1>1, BitAndFacts, BitXorFacts, ShiftedFacts DEF Operation, Binary

LEMMA ThroughIntNat == ASSUME NEW v \in Nat PROVE ThroughInt(v) \in Nat
<1>1. IntSize \in Nat \ {0} /\ Size \in Nat /\ IntSize <= Size
  BY PassesAssumption
<1>2. v % IntSize \in Nat
  BY <1>1
<1> DEFINE low == v % IntSize
<1>3. ThroughInt(v) = IF 2 * low < IntSize THEN low ELSE low + (Size - IntSize)
  BY DEF ThroughInt
<1> HIDE DEF low
<1> QED BY <1>1, <1>2, <1>3 DEF low

(* Two sums with constants are one sum, if the words wrap around.          *)
LEMMA SumOfSums ==
  ASSUME NEW x \in Nat, NEW c \in Nat, NEW d \in Nat
  PROVE  (((x + d) % Size) + c) % Size = (x + ((c + d) % Size)) % Size
<1>1. Size \in Nat \ {0}
  BY PassesAssumption
<1>2. ASSUME NEW a \in Nat, NEW b \in Nat PROVE ((a % Size) + b) % Size = (a + b) % Size
  <2> DEFINE q == a \div Size
             r == a % Size
             s == (r + b) \div Size
             t == (r + b) % Size
  <2>1. a = Size * q + r /\ q \in Nat /\ r \in 0 .. Size - 1
    BY <1>1
  <2>2. r + b \in Nat
    BY <2>1
  <2>3. r + b = Size * s + t /\ s \in Nat /\ t \in 0 .. Size - 1
    BY <1>1, <2>2
  <2> HIDE DEF q, r, s, t
  <2>4. a + b = Size * (q + s) + t /\ q + s \in Nat
    BY <1>1, <2>1, <2>3
  <2>5. (a + b) % Size = t
    <3>1. ASSUME NEW m \in Nat \ {0}, NEW k \in Nat, NEW u \in 0 .. m - 1
          PROVE  (m * k + u) % m = u
      OBVIOUS
    <3> QED BY <1>1, <2>3, <2>4, <3>1
  <2> QED BY <2>5 DEF r, t
<1>3. (((x + d) % Size) + c) % Size = ((x + d) + c) % Size
  BY <1>2
<1>4. (((c + d) % Size) + x) % Size = ((c + d) + x) % Size
  BY <1>2
<1>5. (c + d) % Size \in Nat
  BY <1>1
<1>6. ((c + d) % Size) + x = x + ((c + d) % Size) /\ (c + d) + x = (x + d) + c
  BY <1>5
<1> QED BY <1>3, <1>4, <1>6

-----------------------------------------------------------------------------
(* THE CODE THAT IS REACHED                                                *)

(* No list has more instructions than there are ids.                       *)
LEMMA ListLength ==
  ASSUME NEW l, Lists(l), NEW b \in Block
  PROVE  Len(l[b]) \in 0 .. MaxInstr
<1> DEFINE s == l[b]
           S == 1 .. Len(s)
<1>1. s \in Seq(Instr) /\ IsInjective(s) /\ MaxInstr \in Nat
  BY PassesAssumption DEF Lists
<1> HIDE DEF s
<1>2. /\ IsFiniteSet(S) /\ Cardinality(S) = Len(s)
      /\ IsFiniteSet(Instr) /\ Cardinality(Instr) = MaxInstr
  <2>1. \A n \in Nat : IsFiniteSet(1 .. n) /\ Cardinality(1 .. n) = n
    <3> TAKE n \in Nat
    <3>1. /\ IsFiniteSet(1 .. n)
          /\ Cardinality(1 .. n) = IF 1 > n THEN 0 ELSE n - 1 + 1
      BY FS_Interval
    <3> QED BY <3>1
  <2> QED BY <1>1, <2>1 DEF Instr
<1>3. ASSUME MaxInstr < Len(s) PROVE FALSE
  <2>1. s \in [S -> Instr]
    BY <1>1
  <2>2. \E y, z \in S : y # z /\ s[y] = s[z]
    <3> HIDE DEF S
    <3> QED BY <1>2, <1>3, <2>1, FS_PigeonHole
  <2> QED BY <1>1, <2>2 DEF IsInjective
<1>4. Len(s) \in Nat
  BY <1>1
<1> QED BY <1>1, <1>3, <1>4 DEF s

LEMMA LiveFacts ==
  ASSUME NEW l, Lists(l)
  PROVE  /\ Live(l) \subseteq AllIn(l) /\ AllIn(l) \subseteq Instr
         /\ \A n \in 1 .. Len(Order) : Order[n] \in Block /\ In(l, Order[n]) \subseteq Live(l)
         /\ In(l, Header) \subseteq Live(l)
         /\ \A i \in Live(l) :
              i \in In(l, Header) \/ \E n \in 2 .. Len(Order) : i \in In(l, Order[n])
<1>1. /\ \A n \in 1 .. Len(Order) : Order[n] \in Block
      /\ Order[1] = Header /\ 1 \in 1 .. Len(Order) /\ Len(Order) \in Nat
  BY PassesAssumption
<1>2. \A n \in 1 .. Len(Order) : In(l, Order[n]) \subseteq Live(l)
  BY DEF Live
<1>3. Live(l) \subseteq AllIn(l)
  BY <1>1 DEF Live, AllIn
<1>4. AllIn(l) \subseteq Instr
  BY InInstr DEF Lists
<1>5. ASSUME NEW i \in Live(l)
      PROVE  i \in In(l, Header) \/ \E n \in 2 .. Len(Order) : i \in In(l, Order[n])
  <2>1. PICK n \in 1 .. Len(Order) : i \in In(l, Order[n])
    BY DEF Live
  <2>2. n = 1 \/ n \in 2 .. Len(Order)
    BY <1>1
  <2> QED BY <1>1, <2>1, <2>2
<1>6. In(l, Header) \subseteq Live(l)
  BY <1>1, <1>2
<1> QED BY <1>1, <1>2, <1>3, <1>4, <1>5, <1>6

(* What an instruction does with the values of its operands matters only   *)
(* if it is a binary operation still.                                      *)
Reads(p, i) == p[i].type # "CONST" /\ p[i].opcd \in Binary /\ Len(p[i].inputs) = 2

(* A reached instruction reads reached ones, and is not in the header.     *)
LEMMA ReadsLive ==
  ASSUME NEW p, NEW l, NEW m, WellFormed(p, l, m), NEW i \in Live(l), Reads(p, i)
  PROVE  /\ p[i].inputs[1] \in Live(l) /\ p[i].inputs[2] \in Live(l)
         /\ Operands(p, i) = {p[i].inputs[1], p[i].inputs[2]}
         /\ i \notin In(l, Header)
         /\ \E n \in 2 .. Len(Order) :
              i \in In(l, Order[n]) /\ \A e \in Operands(p, i) : Known(l, n, e, i)
<1>1. /\ Lists(l) /\ AllIn(l) \subseteq Instr
      /\ \A k \in Instr : p[k].inputs \in Seq(Instr)
  BY WellFormedFacts
<1>2. i \in AllIn(l) /\ i \in Instr
  BY <1>1, LiveFacts
<1>3. Operands(p, i) = {p[i].inputs[1], p[i].inputs[2]}
  BY <1>1, <1>2 DEF Operands, ToSet, Reads
<1>4. i \notin In(l, Header)
  <2>1. ASSUME i \in In(l, Header) PROVE FALSE
    <3>1. Throws(p, l, i)
      BY <2>1 DEF Throws, Reads
    <3>2. p[i].inputs = <<>>
      BY <1>2, <3>1 DEF WellFormed, Stripped
    <3> QED BY <3>2 DEF Reads
  <2> QED BY <2>1
<1>5. PICK n \in 2 .. Len(Order) : i \in In(l, Order[n])
  BY <1>1, <1>4, LiveFacts
<1>6. \A e \in Operands(p, i) : Known(l, n, e, i)
  BY <1>5 DEF WellFormed, Ordered, Known
<1>7. ASSUME NEW e \in Operands(p, i) PROVE e \in Live(l)
  <2>1. CASE e \in In(l, Header)
    BY <1>1, <2>1, LiveFacts
  <2>2. CASE e \notin In(l, Header)
    <3>1. PICK j \in 2 .. Len(Order) : e \in In(l, Order[j])
      BY <1>1, <1>6, <2>2, KnownPlace
    <3>2. j \in 1 .. Len(Order)
      OBVIOUS
    <3> QED BY <1>1, <3>1, <3>2, LiveFacts
  <2> QED BY <2>1, <2>2
<1> QED BY <1>3, <1>4, <1>5, <1>6, <1>7

(* The blocks in Order, and the places in their lists, rank the reached    *)
(* instructions: what one reads has a lower rank.                          *)
Ranks(p, l, rank) ==
  /\ rank \in [Live(l) -> Nat]
  /\ \A i \in Live(l) : Reads(p, i) => \A e \in Operands(p, i) : rank[e] < rank[i]

LEMMA LiveRank ==
  ASSUME NEW p, NEW l, NEW m, WellFormed(p, l, m)
  PROVE  \E rank : Ranks(p, l, rank)
<1> DEFINE Num(i) == CHOOSE n \in 1 .. Len(Order) : i \in In(l, Order[n])
           Pos(i) == CHOOSE k \in 1 .. Len(l[Order[Num(i)]]) : l[Order[Num(i)]][k] = i
           W == MaxInstr + 1
           rank == [i \in Live(l) |-> Num(i) * W + Pos(i)]
<1>1. /\ Lists(l) /\ Len(Order) \in Nat /\ IsInjective(Order) /\ MaxInstr \in Nat
      /\ \A n \in 1 .. Len(Order) : Order[n] \in Block
      /\ Order[1] = Header /\ 1 \in 1 .. Len(Order)
  BY WellFormedFacts, LiveFacts, PassesAssumption
<1>2. ASSUME NEW n \in 1 .. Len(Order), NEW i \in In(l, Order[n])
      PROVE  /\ i \in Live(l) /\ Num(i) = n
             /\ Pos(i) \in 1 .. Len(l[Order[n]]) /\ l[Order[n]][Pos(i)] = i
             /\ Pos(i) \in 1 .. MaxInstr
  <2>1. i \in Live(l)
    BY <1>1, LiveFacts
  <2>2. \A j \in 1 .. Len(Order) : i \in In(l, Order[j]) => j = n
    BY <1>1 DEF Lists, IsInjective
  <2>3. Num(i) = n
    BY <2>2
  <2> HIDE DEF Num
  <2>4. \E k \in 1 .. Len(l[Order[n]]) : l[Order[n]][k] = i
    BY <1>1 DEF In, ToSet, Lists
  <2>5. Pos(i) \in 1 .. Len(l[Order[n]]) /\ l[Order[n]][Pos(i)] = i
    BY <2>3, <2>4
  <2> HIDE DEF Pos
  <2>6. Len(l[Order[n]]) \in 0 .. MaxInstr
    BY <1>1, ListLength
  <2>7. Pos(i) \in 1 .. MaxInstr
    BY <1>1, <2>5, <2>6
  <2> QED BY <2>1, <2>3, <2>5, <2>7
<1> HIDE DEF Num, Pos
<1>3. ASSUME NEW i \in Live(l)
      PROVE  Num(i) \in 1 .. Len(Order) /\ i \in In(l, Order[Num(i)]) /\ Pos(i) \in 1 .. MaxInstr
  <2>1. PICK n \in 1 .. Len(Order) : i \in In(l, Order[n])
    BY DEF Live
  <2> QED BY <1>2, <2>1
<1>4. \A n \in Nat : n * W \in Nat
  BY <1>1
<1>5. rank \in [Live(l) -> Nat]
  <2>1. ASSUME NEW i \in Live(l) PROVE Num(i) * W + Pos(i) \in Nat
    BY <1>1, <1>3, <1>4
  <2> QED BY <2>1
<1>6. ASSUME NEW n \in 1 .. Len(Order), NEW k \in 1 .. n - 1,
             NEW a \in 1 .. MaxInstr, NEW b \in 1 .. MaxInstr
      PROVE  k * W + a < n * W + b
  <2>1. n * W = k * W + (n - k) * W /\ (n - k) * W >= W
    <3>1. n \in Nat /\ k \in Nat /\ n - k \in Nat \ {0} /\ W \in Nat
      BY <1>1
    <3>2. n - k = 1 + (n - k - 1) /\ n - k - 1 \in Nat
      BY <3>1
    <3>3. (n - k - 1) * W \in Nat /\ (n - k) * W = W + (n - k - 1) * W
      BY <3>1, <3>2
    <3> HIDE DEF W
    <3> QED BY <3>1, <3>3
  <2>2. k * W \in Nat /\ n * W \in Nat /\ (n - k) * W \in Int
    BY <1>1
  <2> QED BY <1>1, <2>1, <2>2
<1>7. ASSUME NEW i \in Live(l), Reads(p, i), NEW e \in Operands(p, i)
      PROVE  rank[e] < rank[i]
  <2>1. PICK n \in 2 .. Len(Order) : i \in In(l, Order[n]) /\ Known(l, n, e, i)
    BY <1>7, ReadsLive
  <2>2. n \in 1 .. Len(Order) /\ Num(i) = n /\ Pos(i) \in 1 .. MaxInstr
    BY <1>2, <2>1
  <2>3. e \in Live(l)
    BY <1>7, ReadsLive
  <2>4. rank[i] = n * W + Pos(i) /\ rank[e] = Num(e) * W + Pos(e)
    BY <2>2, <2>3
  <2>5. CASE e \in In(l, Header) \/ \E j \in 2 .. n - 1 : e \in In(l, Order[j])
    <3>1. PICK k \in 1 .. n - 1 : e \in In(l, Order[k])
      <4>1. 1 \in 1 .. n - 1
        BY <2>1
      <4> QED BY <1>1, <2>5, <4>1
    <3>2. k \in 1 .. Len(Order)
      BY <1>1, <2>2, <3>1
    <3>3. Num(e) = k /\ Pos(e) \in 1 .. MaxInstr
      BY <1>2, <3>1, <3>2
    <3> HIDE DEF rank, W
    <3> QED BY <1>6, <2>2, <2>4, <3>1, <3>3
  <2>6. CASE Before(l[Order[n]], e, i)
    <3> DEFINE s == l[Order[n]]
    <3>1. s \in Seq(Instr) /\ IsInjective(s) /\ e \in In(l, Order[n])
      BY <1>1, <2>2, <2>6, BeforeIn DEF Lists
    <3>2. /\ Num(e) = n /\ s[Pos(e)] = e /\ s[Pos(i)] = i
          /\ Pos(e) \in 1 .. Len(s) /\ Pos(i) \in 1 .. Len(s)
      BY <1>2, <2>1, <2>2, <3>1
    <3>3. PICK j \in 1 .. Len(s), k \in 1 .. Len(s) : j < k /\ s[j] = e /\ s[k] = i
      BY <2>6 DEF Before
    <3>4. Pos(e) = j /\ Pos(i) = k
      BY <3>1, <3>2, <3>3 DEF IsInjective
    <3>5. n * W \in Nat
      BY <1>4
    <3> HIDE DEF s, W, rank
    <3> QED BY <2>4, <3>2, <3>3, <3>4, <3>5
  <2> QED BY <2>1, <2>5, <2>6 DEF Known
<1>8. Ranks(p, l, rank)
  <2> HIDE DEF rank
  <2> QED BY <1>5, <1>7 DEF Ranks
<1> QED BY <1>8

-----------------------------------------------------------------------------
(* THE VALUES OF THE INSTRUCTIONS                                          *)

LEMMA YieldOf ==
  ASSUME NEW p, NEW v, NEW x, NEW i
  PROVE  /\ p[i].type = "CONST" => Yield(p, v, x, i) = p[i].val
         /\ p[i].type # "CONST" /\ p[i].opcd = "LOAD" => Yield(p, v, x, i) = x
         /\ Reads(p, i) => Yield(p, v, x, i) =
              Operation(p[i].opcd, v[p[i].inputs[1]], v[p[i].inputs[2]])
         /\ p[i].type # "CONST" /\ p[i].opcd # "LOAD" /\ ~Reads(p, i) =>
              Yield(p, v, x, i) = 0
<1>1. "LOAD" \notin Binary
  BY DEF Binary
<1> QED BY <1>1 DEF Yield, Reads

(* The value of an instruction that stays as it is depends on the values   *)
(* of its operands only.                                                   *)
LEMMA YieldSame ==
  ASSUME NEW p, NEW q, NEW v, NEW u, NEW x, NEW i,
         q[i].type = p[i].type, q[i].opcd = p[i].opcd, q[i].val = p[i].val,
         q[i].inputs = p[i].inputs,
         Reads(p, i) => /\ u[p[i].inputs[1]] = v[p[i].inputs[1]]
                        /\ u[p[i].inputs[2]] = v[p[i].inputs[2]]
  PROVE  Yield(q, u, x, i) = Yield(p, v, x, i)
<1>1. Reads(q, i) <=> Reads(p, i)
  BY DEF Reads
<1>2. CASE p[i].type = "CONST"
  BY <1>2, YieldOf
<1>3. CASE p[i].type # "CONST" /\ p[i].opcd = "LOAD"
  BY <1>3, YieldOf
<1>4. CASE Reads(p, i)
  BY <1>1, <1>4, YieldOf
<1>5. CASE p[i].type # "CONST" /\ p[i].opcd # "LOAD" /\ ~Reads(p, i)
  BY <1>1, <1>5, YieldOf
<1> QED BY <1>2, <1>3, <1>4, <1>5

LEMMA YieldNat ==
  ASSUME NEW p, NEW l, Valued(p, l), NEW x \in Nat, NEW i \in AllIn(l), NEW v,
         Reads(p, i) => v[p[i].inputs[1]] \in Nat /\ v[p[i].inputs[2]] \in Nat
  PROVE  Yield(p, v, x, i) \in Nat
<1>1. p[i].val \in Nat
  BY DEF Valued
<1>2. ASSUME Reads(p, i) PROVE Yield(p, v, x, i) \in Nat
  <2>1. Operation(p[i].opcd, v[p[i].inputs[1]], v[p[i].inputs[2]]) \in Nat
    BY <1>2, OperationNat DEF Reads
  <2> QED BY <1>2, <2>1, YieldOf
<1> QED BY <1>1, <1>2, YieldOf

(* v gives every reached instruction what it yields when LOAD reads x.     *)
Solution(p, l, x, v) ==
  v \in [Live(l) -> Nat] /\ \A i \in Live(l) : v[i] = Yield(p, v, x, i)

LEMMA SolutionRecursion ==
  ASSUME NEW p, NEW l, NEW m, WellFormed(p, l, m), Valued(p, l), NEW x \in Nat,
         NEW rank, Ranks(p, l, rank), NEW G,
         G = [q \in Live(l) \X [Live(l) -> Nat] |-> Yield(p, q[2], x, q[1])]
  PROVE  Recursion(Live(l), Nat, rank, G)
<1>1. rank \in [Live(l) -> Nat] /\ Live(l) \subseteq AllIn(l)
  BY WellFormedFacts, LiveFacts DEF Ranks
<1>2. \A i \in Live(l) : \A v \in [Live(l) -> Nat] : G[<<i, v>>] = Yield(p, v, x, i)
  OBVIOUS
<1>3. StaysIn(Live(l), Nat, G)
  <2> SUFFICES ASSUME NEW i \in Live(l), NEW v \in [Live(l) -> Nat]
               PROVE  Yield(p, v, x, i) \in Nat
    BY <1>2 DEF StaysIn
  <2>1. Reads(p, i) => v[p[i].inputs[1]] \in Nat /\ v[p[i].inputs[2]] \in Nat
    BY ReadsLive
  <2> QED BY <1>1, <2>1, YieldNat
<1>4. Descends(Live(l), Nat, rank, G)
  <2> SUFFICES ASSUME NEW i \in Live(l), NEW v \in [Live(l) -> Nat],
                      NEW u \in [Live(l) -> Nat],
                      \A e \in Live(l) : rank[e] < rank[i] => v[e] = u[e]
               PROVE  Yield(p, v, x, i) = Yield(p, u, x, i)
    BY <1>2 DEF Descends
  <2>1. ASSUME Reads(p, i)
        PROVE  /\ v[p[i].inputs[1]] = u[p[i].inputs[1]]
               /\ v[p[i].inputs[2]] = u[p[i].inputs[2]]
    <3>1. /\ p[i].inputs[1] \in Live(l) /\ p[i].inputs[2] \in Live(l)
          /\ Operands(p, i) = {p[i].inputs[1], p[i].inputs[2]}
      BY <2>1, ReadsLive
    <3>2. \A e \in Operands(p, i) : rank[e] < rank[i]
      BY <2>1 DEF Ranks
    <3> QED BY <3>1, <3>2
  <2> QED BY <2>1, YieldSame
<1>5. Nat # {}
  OBVIOUS
<1> QED BY <1>1, <1>3, <1>4, <1>5 DEF Recursion

(* Value is the one solution.                                              *)
LEMMA ValueSolves ==
  ASSUME NEW p, NEW l, NEW m, WellFormed(p, l, m), Valued(p, l), NEW x \in Nat
  PROVE  /\ Solution(p, l, x, Value(p, l, x))
         /\ \A v : Solution(p, l, x, v) => v = Value(p, l, x)
<1> DEFINE P(v) == v = [i \in Live(l) |-> Yield(p, v, x, i)]
           w == CHOOSE v : P(v)
           G == [q \in Live(l) \X [Live(l) -> Nat] |-> Yield(p, q[2], x, q[1])]
<1>1. PICK rank : Ranks(p, l, rank)
  BY LiveRank
<1>2. Recursion(Live(l), Nat, rank, G)
  <2>1. G = [q \in Live(l) \X [Live(l) -> Nat] |-> Yield(p, q[2], x, q[1])]
    OBVIOUS
  <2> HIDE DEF G
  <2> QED BY <1>1, <2>1, SolutionRecursion
<1>3. \A i \in Live(l) : \A v \in [Live(l) -> Nat] : G[<<i, v>>] = Yield(p, v, x, i)
  OBVIOUS
<1> HIDE DEF G
<1>4. \E v : P(v)
  <2>1. PICK v \in [Live(l) -> Nat] : \A i \in Live(l) : v[i] = G[<<i, v>>]
    BY <1>2, RecursiveFunction
  <2>2. v = [i \in Live(l) |-> Yield(p, v, x, i)]
    BY <1>3, <2>1
  <2> QED BY <2>2
<1>5. P(w)
  <2> HIDE DEF P
  <2> QED BY <1>4
<1>6. Value(p, l, x) = w
  BY DEF Value
<1> HIDE DEF w
<1>7. \A i \in Live(l) : w[i] = Yield(p, w, x, i)
  BY <1>5
<1>8. Live(l) \subseteq AllIn(l) /\ rank \in [Live(l) -> Nat]
  BY <1>1, WellFormedFacts, LiveFacts DEF Ranks
<1>9. Live(l) \subseteq {i \in Live(l) : w[i] \in Nat}
  <2> DEFINE Good == {i \in Live(l) : w[i] \in Nat}
  <2>1. ASSUME NEW i \in Live(l), \A e \in Live(l) : rank[e] < rank[i] => e \in Good
        PROVE  i \in Good
    <3>1. ASSUME Reads(p, i)
          PROVE  w[p[i].inputs[1]] \in Nat /\ w[p[i].inputs[2]] \in Nat
      BY <1>1, <2>1, <3>1, ReadsLive DEF Ranks
    <3>2. Yield(p, w, x, i) \in Nat
      BY <1>8, <3>1, YieldNat
    <3> QED BY <1>7, <3>2
  <2> HIDE DEF Good
  <2>2. Live(l) \subseteq Good
    BY <1>8, <2>1, ByRank
  <2> QED BY <2>2 DEF Good
<1>10. Solution(p, l, x, w)
  <2>1. w \in [Live(l) -> Nat]
    BY <1>5, <1>9
  <2> QED BY <1>7, <2>1 DEF Solution
<1>11. ASSUME NEW v, Solution(p, l, x, v) PROVE v = w
  <2>1. v \in [Live(l) -> Nat] /\ \A i \in Live(l) : v[i] = G[<<i, v>>]
    BY <1>3, <1>11 DEF Solution
  <2>2. w \in [Live(l) -> Nat] /\ \A i \in Live(l) : w[i] = G[<<i, w>>]
    BY <1>3, <1>10 DEF Solution
  <2>3. rank \in [Live(l) -> Nat] /\ Descends(Live(l), Nat, rank, G)
    BY <1>2 DEF Recursion
  <2> QED BY <2>1, <2>2, <2>3, OnlyRecursiveFunction
<1> QED BY <1>6, <1>10, <1>11

(* A check has one operand, which is reached with it.                      *)
LEMMA CheckFacts ==
  ASSUME NEW p, NEW l, NEW m, WellFormed(p, l, m), Valued(p, l)
  PROVE  /\ \A i \in In(l, Header) : p[i].opcd # "CHECK"
         /\ \A i \in AllIn(l) : Len(p[i].inputs) = 2 => p[i].opcd # "CHECK"
         /\ \A i \in Checks(p, l) : /\ i \in AllIn(l) /\ Len(p[i].inputs) = 1
                                    /\ p[i].inputs[1] \in Operands(p, i)
                                    /\ p[i].inputs[1] \in Live(l)
<1>1. /\ Lists(l) /\ AllIn(l) \subseteq Instr
      /\ \A k \in Instr : p[k].inputs \in Seq(Instr)
      /\ Live(l) \subseteq AllIn(l) /\ In(l, Header) \subseteq AllIn(l)
  BY WellFormedFacts, LiveFacts
<1>2. ASSUME NEW i \in AllIn(l), p[i].opcd = "CHECK"
      PROVE  Len(p[i].inputs) = 1 /\ i \notin In(l, Header)
  <2>1. ~Throws(p, l, i)
    BY <1>2 DEF WellFormed, Stripped
  <2> QED BY <1>2, <2>1 DEF Throws, WrongInputCount, Valued
<1>3. ASSUME NEW i \in Checks(p, l)
      PROVE  /\ i \in AllIn(l) /\ Len(p[i].inputs) = 1
             /\ p[i].inputs[1] \in Operands(p, i) /\ p[i].inputs[1] \in Live(l)
  <2>1. i \in Live(l) /\ i \in AllIn(l) /\ p[i].opcd = "CHECK"
    BY <1>1 DEF Checks
  <2>2. Len(p[i].inputs) = 1 /\ i \notin In(l, Header)
    BY <1>2, <2>1
  <2> DEFINE e == p[i].inputs[1]
  <2>3. e \in Operands(p, i)
    BY <1>1, <2>1, <2>2 DEF Operands, ToSet
  <2>4. PICK n \in 2 .. Len(Order) : i \in In(l, Order[n])
    BY <1>1, <2>1, <2>2, LiveFacts
  <2>5. Known(l, n, e, i)
    BY <2>3, <2>4 DEF WellFormed, Ordered, Known
  <2> HIDE DEF e
  <2>6. e \in Live(l)
    <3>1. CASE e \in In(l, Header)
      BY <1>1, <3>1, LiveFacts
    <3>2. CASE e \notin In(l, Header)
      <4>1. PICK j \in 2 .. Len(Order) : e \in In(l, Order[j])
        BY <1>1, <2>4, <2>5, <3>2, KnownPlace
      <4>2. j \in 1 .. Len(Order)
        OBVIOUS
      <4> QED BY <1>1, <4>1, <4>2, LiveFacts
    <3> QED BY <3>1, <3>2
  <2> QED BY <2>1, <2>2, <2>3, <2>6 DEF e
<1>4. ASSUME NEW i \in AllIn(l), Len(p[i].inputs) = 2 PROVE p[i].opcd # "CHECK"
  BY <1>2, <1>4
<1> QED BY <1>1, <1>2, <1>3, <1>4

WordFacts == \A x \in Word : x \in Nat
LEMMA WordNat == WordFacts
BY PassesAssumption DEF Word, WordFacts

(* Two programs with the same checks have the same meaning, if what was a  *)
(* value of an operand of a check is one still.                            *)
LEMMA SameMeaning ==
  ASSUME NEW p, NEW l, NEW m, WellFormed(p, l, m), Valued(p, l),
         NEW q, NEW r, NEW k, WellFormed(q, r, k), Valued(q, r),
         Checks(q, r) = Checks(p, l),
         \A i \in Checks(p, l) : q[i].inputs = p[i].inputs,
         \A x \in Word : \E u : /\ Solution(q, r, x, u)
                                /\ \A i \in Checks(p, l) :
                                     u[p[i].inputs[1]] = Value(p, l, x)[p[i].inputs[1]]
  PROVE  Meaning(q, r) = Meaning(p, l)
<1> DEFINE M(x) == [i \in Checks(p, l) |-> Value(p, l, x)[p[i].inputs[1]]]
           N(x) == [i \in Checks(q, r) |-> Value(q, r, x)[q[i].inputs[1]]]
<1>1. ASSUME NEW x \in Word PROVE M(x) = N(x)
  <2>1. x \in Nat
    BY WordNat DEF WordFacts
  <2>2. PICK u : /\ Solution(q, r, x, u)
                 /\ \A i \in Checks(p, l) :
                      u[p[i].inputs[1]] = Value(p, l, x)[p[i].inputs[1]]
    OBVIOUS
  <2>3. u = Value(q, r, x)
    BY <2>1, <2>2, ValueSolves
  <2> QED BY <2>2, <2>3
<1>2. Meaning(p, l) = [x \in Word |-> M(x)] /\ Meaning(q, r) = [x \in Word |-> N(x)]
  BY DEF Meaning
<1> HIDE DEF M, N
<1> QED BY <1>1, <1>2

-----------------------------------------------------------------------------
(* WHAT THE STEPS DO TO THE VALUES                                         *)

(* Something came to the header.                                           *)
LEMMA LiveGrown ==
  ASSUME NEW l, Lists(l), NEW r, Lists(r), NEW a, In(r, Header) = In(l, Header) \cup {a},
         \A c \in Block \ {Header} :
           In(r, c) \subseteq In(l, c) /\ In(l, c) \subseteq In(r, c) \cup {a}
  PROVE  Live(r) = Live(l) \cup {a}
<1>1. a \in Live(r)
  BY LiveFacts
<1>2. \A n \in 1 .. Len(Order) :
        /\ In(r, Order[n]) \subseteq In(l, Order[n]) \cup {a}
        /\ In(l, Order[n]) \subseteq In(r, Order[n]) \cup {a}
  <2> TAKE n \in 1 .. Len(Order)
  <2>1. Order[n] \in Block
    BY LiveFacts
  <2> QED BY <2>1
<1>3. ASSUME NEW k \in Live(r) PROVE k \in Live(l) \cup {a}
  <2>1. PICK n \in 1 .. Len(Order) : k \in In(r, Order[n])
    BY DEF Live
  <2>2. k \in In(l, Order[n]) \cup {a}
    BY <1>2, <2>1
  <2> QED BY <2>2 DEF Live
<1>4. ASSUME NEW k \in Live(l) PROVE k \in Live(r) \cup {a}
  <2>1. PICK n \in 1 .. Len(Order) : k \in In(l, Order[n])
    BY DEF Live
  <2>2. k \in In(r, Order[n]) \cup {a}
    BY <1>2, <2>1
  <2> QED BY <2>2 DEF Live
<1> QED BY <1>1, <1>3, <1>4

LEMMA AsConstValued ==
  ASSUME WellFormed(ir, instrs, made), Valued(ir, instrs), NEW b \in Block \ {Header},
         NEW i \in Placed(b), Len(ir[i].inputs) = 2, NEW v \in Nat
  PROVE  Valued(AsConst(i, v), MovedToHead(b, i))
<1> DEFINE q == AsConst(i, v)
           r == MovedToHead(b, i)
<1>1. Shaped(ir) /\ Lists(instrs) /\ AllIn(instrs) \subseteq Instr
  BY WellFormedFacts
<1>2. i \in AllIn(instrs) /\ i \in Instr /\ i \in In(instrs, b)
  BY <1>1, InAll DEF Placed
<1>3. /\ q[i].val = v /\ q[i].opcd = ir[i].opcd
      /\ \A k \in Instr \ {i} : q[k] = ir[k]
  BY <1>1, <1>2, AsConstFacts
<1>4. AllIn(r) = AllIn(instrs) /\ In(r, Header) = In(instrs, Header) \cup {i}
  BY <1>1, <1>2, MoveLists DEF Moved
<1>5. ir[i].opcd # "CHECK"
  BY <1>2, CheckFacts
<1>6. Valued(q, r)
  <2> HIDE DEF q, r
  <2> QED BY <1>1, <1>2, <1>3, <1>4, <1>5 DEF Valued
<1> QED BY <1>6

(* An instruction that yields v becomes a constant with this value.        *)
LEMMA AsConstMeaning ==
  ASSUME WellFormed(ir, instrs, made), Valued(ir, instrs), NEW b \in Block \ {Header},
         NEW i \in Placed(b), Len(ir[i].inputs) = 2, NEW v \in Nat,
         \A x \in Word : i \in Live(instrs) => Value(ir, instrs, x)[i] = v
  PROVE  Meaning(AsConst(i, v), MovedToHead(b, i)) = Meaning(ir, instrs)
<1> DEFINE q == AsConst(i, v)
           r == MovedToHead(b, i)
<1>1. /\ Shaped(ir) /\ Lists(instrs) /\ AllIn(instrs) \subseteq Instr
      /\ \A k \in Instr : ir[k].inputs \in Seq(Instr)
  BY WellFormedFacts
<1>2. i \in AllIn(instrs) /\ i \in Instr /\ i \in In(instrs, b)
  BY <1>1, InAll DEF Placed
<1>3. WellFormed(q, r, made) /\ Valued(q, r)
  BY AsConstWell, AsConstValued
<1> HIDE DEF q, r
<1>4. /\ q[i].type = "CONST" /\ q[i].val = v /\ q[i].opcd = ir[i].opcd
      /\ \A k \in Instr : q[k].opcd = ir[k].opcd /\ q[k].inputs = ir[k].inputs
      /\ \A k \in Instr \ {i} : q[k] = ir[k]
  BY <1>1, <1>2, AsConstFacts DEF q
<1>5. Live(r) = Live(instrs) \cup {i}
  <2>1. Moved(r, b, i)
    BY <1>1, <1>2, MoveLists DEF r
  <2>2. Lists(r) /\ In(r, Header) = In(instrs, Header) \cup {i}
    BY <2>1 DEF Moved
  <2>3. \A c \in Block \ {Header} :
          In(r, c) \subseteq In(instrs, c) /\ In(instrs, c) \subseteq In(r, c) \cup {i}
    BY <2>1 DEF Moved
  <2> QED BY <1>1, <2>2, <2>3, LiveGrown
<1>6. Live(instrs) \subseteq Instr /\ Live(r) \subseteq Instr
  BY <1>1, <1>2, <1>5, LiveFacts
<1>7. Checks(q, r) = Checks(ir, instrs)
  <2>1. ir[i].opcd # "CHECK"
    BY <1>2, CheckFacts
  <2> QED BY <1>2, <1>4, <1>5, <1>6, <2>1 DEF Checks
<1>8. ASSUME NEW x \in Word
      PROVE  \E u : /\ Solution(q, r, x, u)
                    /\ \A k \in Checks(ir, instrs) :
                         u[ir[k].inputs[1]] = Value(ir, instrs, x)[ir[k].inputs[1]]
  <2> PICK w : w = Value(ir, instrs, x)
    OBVIOUS
  <2>1. Solution(ir, instrs, x, w)
    BY WordNat, ValueSolves DEF WordFacts
  <2> DEFINE u == [k \in Live(r) |-> IF k = i THEN v ELSE w[k]]
  <2>2. \A k \in Live(instrs) : u[k] = w[k]
    BY <1>5
  <2>3. u[i] = v /\ u \in [Live(r) -> Nat]
    BY <1>5, <2>1 DEF Solution
  <2> HIDE DEF u
  <2>4. ASSUME NEW k \in Live(r) PROVE u[k] = Yield(q, u, x, k)
    <3>1. CASE k = i
      BY <1>4, <2>3, <3>1, YieldOf
    <3>2. CASE k # i
      <4>1. k \in Live(instrs) /\ k \in Instr \ {i}
        BY <1>5, <1>6, <3>2
      <4>2. ASSUME Reads(ir, k)
            PROVE  /\ u[ir[k].inputs[1]] = w[ir[k].inputs[1]]
                   /\ u[ir[k].inputs[2]] = w[ir[k].inputs[2]]
        BY <2>2, <4>1, <4>2, ReadsLive
      <4>3. q[k] = ir[k]
        BY <1>4, <4>1
      <4>4. Yield(q, u, x, k) = Yield(ir, w, x, k)
        BY <4>2, <4>3, YieldSame
      <4> QED BY <2>1, <2>2, <4>1, <4>4 DEF Solution
    <3> QED BY <3>1, <3>2
  <2>5. Solution(q, r, x, u)
    BY <2>3, <2>4 DEF Solution
  <2>6. \A k \in Checks(ir, instrs) : u[ir[k].inputs[1]] = w[ir[k].inputs[1]]
    BY <2>2, CheckFacts
  <2> QED BY <2>5, <2>6
<1>9. \A k \in Checks(ir, instrs) : q[k].inputs = ir[k].inputs
  BY <1>4, <1>6 DEF Checks
<1>10. Meaning(q, r) = Meaning(ir, instrs)
  BY <1>3, <1>7, <1>8, <1>9, SameMeaning
<1> QED BY <1>10 DEF q, r

(* An unused instruction that is no check is erased.                       *)
LEMMA ErasedMeaning ==
  ASSUME WellFormed(ir, instrs, made), Valued(ir, instrs), NEW b \in Block,
         NEW e \in Placed(b), ir[e].users = {}, ir[e].opcd # "CHECK"
  PROVE  /\ Valued(Forgotten(e), Without(b, e))
         /\ Meaning(Forgotten(e), Without(b, e)) = Meaning(ir, instrs)
<1> DEFINE q == Forgotten(e)
           r == Without(b, e)
<1>1. /\ Shaped(ir) /\ Lists(instrs) /\ AllIn(instrs) \subseteq Instr
      /\ \A k \in Instr : ir[k].inputs \in Seq(Instr)
  BY WellFormedFacts
<1>2. e \in AllIn(instrs) /\ e \in Instr /\ e \in In(instrs, b)
  BY <1>1, InAll DEF Placed
<1>3. WellFormed(q, r, made)
  BY ErasedWell
<1> HIDE DEF q, r
<1>4. \A k \in Instr : /\ q[k].opcd = ir[k].opcd /\ q[k].type = ir[k].type
                       /\ q[k].val = ir[k].val /\ q[k].inputs = ir[k].inputs
  BY <1>1, <1>2, ForgottenFacts DEF q
<1>5. /\ AllIn(r) = AllIn(instrs) \ {e}
      /\ \A c \in Block : In(r, c) = In(instrs, c) \ {e}
  <2>1. r = Cut(instrs, b, e)
    BY DEF r, Without, Cut
  <2>2. /\ AllIn(r) = AllIn(instrs) \ {e} /\ In(r, b) = In(instrs, b) \ {e}
        /\ \A c \in Block \ {b} : In(r, c) = In(instrs, c)
    BY <1>1, <1>2, <2>1, CutLists
  <2>3. \A c \in Block \ {b} : e \notin In(instrs, c)
    BY <1>1, <1>2 DEF Lists
  <2> QED BY <2>2, <2>3
<1>6. Live(r) = Live(instrs) \ {e}
  <2>1. \A n \in 1 .. Len(Order) : In(r, Order[n]) = In(instrs, Order[n]) \ {e}
    BY <1>1, <1>5, LiveFacts
  <2>2. ASSUME NEW k \in Live(r) PROVE k \in Live(instrs) \ {e}
    <3>1. PICK n \in 1 .. Len(Order) : k \in In(r, Order[n])
      BY DEF Live
    <3>2. k \in In(instrs, Order[n]) /\ k # e
      BY <2>1, <3>1
    <3> QED BY <3>2 DEF Live
  <2>3. ASSUME NEW k \in Live(instrs), k # e PROVE k \in Live(r)
    <3>1. PICK n \in 1 .. Len(Order) : k \in In(instrs, Order[n])
      BY DEF Live
    <3>2. k \in In(r, Order[n])
      BY <2>1, <2>3, <3>1
    <3> QED BY <3>2 DEF Live
  <2> QED BY <2>2, <2>3
<1>7. Live(instrs) \subseteq AllIn(instrs)
  BY <1>1, LiveFacts
<1>8. Valued(q, r)
  <2>1. In(r, Header) = In(instrs, Header) \ {e}
    BY <1>5, OrderFacts
  <2> QED BY <1>1, <1>4, <1>5, <2>1 DEF Valued
<1>9. Checks(q, r) = Checks(ir, instrs)
  BY <1>1, <1>4, <1>6, <1>7 DEF Checks
<1>10. \A k \in AllIn(instrs) : e \notin Operands(ir, k)
  BY <1>2 DEF WellFormed, Agree
<1>11. ASSUME NEW x \in Word
      PROVE  \E u : /\ Solution(q, r, x, u)
                    /\ \A k \in Checks(ir, instrs) :
                         u[ir[k].inputs[1]] = Value(ir, instrs, x)[ir[k].inputs[1]]
  <2> PICK w : w = Value(ir, instrs, x)
    OBVIOUS
  <2>1. Solution(ir, instrs, x, w)
    BY WordNat, ValueSolves DEF WordFacts
  <2> DEFINE u == [k \in Live(r) |-> w[k]]
  <2>2. u \in [Live(r) -> Nat] /\ \A k \in Live(instrs) \ {e} : u[k] = w[k]
    BY <1>6, <2>1 DEF Solution
  <2> HIDE DEF u
  <2>3. ASSUME NEW k \in Live(r) PROVE u[k] = Yield(q, u, x, k)
    <3>1. k \in Live(instrs) \ {e} /\ k \in AllIn(instrs) /\ k \in Instr
      BY <1>1, <1>6, <1>7
    <3>2. ASSUME Reads(ir, k)
          PROVE  /\ u[ir[k].inputs[1]] = w[ir[k].inputs[1]]
                 /\ u[ir[k].inputs[2]] = w[ir[k].inputs[2]]
      BY <1>10, <2>2, <3>1, <3>2, ReadsLive
    <3>3. Yield(q, u, x, k) = Yield(ir, w, x, k)
      BY <1>4, <3>1, <3>2, YieldSame
    <3> QED BY <2>1, <2>2, <3>1, <3>3 DEF Solution
  <2>4. Solution(q, r, x, u)
    BY <2>2, <2>3 DEF Solution
  <2>5. \A k \in Checks(ir, instrs) : u[ir[k].inputs[1]] = w[ir[k].inputs[1]]
    BY <1>10, <2>2, CheckFacts
  <2> QED BY <2>4, <2>5
<1>12. \A k \in Checks(ir, instrs) : q[k].inputs = ir[k].inputs
  BY <1>1, <1>4, <1>7 DEF Checks
<1>13. Meaning(q, r) = Meaning(ir, instrs)
  BY <1>3, <1>8, <1>9, <1>11, <1>12, SameMeaning
<1> QED BY <1>8, <1>13 DEF q, r

(* Twice a is a shifted by one.                                            *)
LEMMA AsShiftMeaning ==
  ASSUME WellFormed(ir, instrs, made), Valued(ir, instrs), made < MaxInstr,
         NEW b \in Block \ {Header}, NEW i \in Placed(b), Len(ir[i].inputs) = 2, IsDouble(i)
  PROVE  /\ Valued(AsShift(i), WithConst)
         /\ Meaning(AsShift(i), WithConst) = Meaning(ir, instrs)
<1> DEFINE q == AsShift(i)
           r == WithConst
           n == made + 1
           a == ir[i].inputs[1]
<1>1. /\ Shaped(ir) /\ Lists(instrs) /\ AllIn(instrs) \subseteq Instr
      /\ \A k \in Instr : ir[k].inputs \in Seq(Instr)
  BY WellFormedFacts
<1>2. /\ i \in AllIn(instrs) /\ i \in Instr /\ i \in In(instrs, b)
      /\ i \notin In(instrs, Header)
  BY <1>1, OrderFacts, InAll DEF Placed, Lists
<1>3. /\ n \in Instr /\ n \notin AllIn(instrs) /\ n # i
      /\ Lists(r) /\ AllIn(r) = AllIn(instrs) \cup {n}
      /\ In(r, Header) = In(instrs, Header) \cup {n}
      /\ \A c \in Block \ {Header} : In(r, c) = In(instrs, c)
  BY <1>2, WithConstFacts
<1>4. WellFormed(q, r, n)
  BY AsShiftWell
<1> HIDE DEF r
<1>5. /\ q[i].opcd = "SHL" /\ q[i].type = ir[i].type /\ q[i].val = ir[i].val
      /\ q[i].inputs = <<a, n>>
      /\ q[n].opcd = "ICONST" /\ q[n].type = "CONST" /\ q[n].val = 1
      /\ \A k \in Instr \ {i, n} : q[k] = ir[k]
  BY <1>1, <1>2, <1>3, AsShiftFacts
<1> HIDE DEF q, n
<1>6. /\ ir[i].opcd = "ADD" /\ ir[i].inputs[2] = a /\ ir[i].type # "CONST"
  BY <1>2 DEF IsDouble, Valued, Binary
<1> HIDE DEF a
<1>7. Valued(q, r)
  <2>1. q[n].val \in Nat
    BY <1>5
  <2>2. \A k \in AllIn(instrs) \ {i} : k \in Instr \ {i, n}
    BY <1>1, <1>3
  <2> QED BY <1>1, <1>2, <1>3, <1>5, <1>6, <2>1, <2>2 DEF Valued
<1>8. Live(r) = Live(instrs) \cup {n}
  <2>1. \A c \in Block \ {Header} :
          In(r, c) \subseteq In(instrs, c) /\ In(instrs, c) \subseteq In(r, c) \cup {n}
    BY <1>3
  <2> QED BY <1>1, <1>3, <2>1, LiveGrown
<1>9. Live(instrs) \subseteq AllIn(instrs)
  BY <1>1, LiveFacts
<1>10. Checks(q, r) = Checks(ir, instrs)
  <2>1. ir[i].opcd # "CHECK" /\ q[i].opcd # "CHECK" /\ q[n].opcd # "CHECK"
    BY <1>5, <1>6
  <2>2. \A k \in Live(instrs) \ {i} : q[k] = ir[k]
    BY <1>1, <1>3, <1>5, <1>9
  <2> QED BY <1>8, <2>1, <2>2 DEF Checks
<1>11. Reads(ir, i) /\ ir[i].inputs[1] = a
  BY <1>6 DEF Reads, Binary, a
<1>12. ASSUME NEW x \in Word
       PROVE  \E u : /\ Solution(q, r, x, u)
                     /\ \A k \in Checks(ir, instrs) :
                          u[ir[k].inputs[1]] = Value(ir, instrs, x)[ir[k].inputs[1]]
  <2> PICK w : w = Value(ir, instrs, x)
    OBVIOUS
  <2>1. Solution(ir, instrs, x, w)
    BY WordNat, ValueSolves DEF WordFacts
  <2> DEFINE u == [k \in Live(r) |-> IF k = n THEN 1 ELSE w[k]]
  <2>2. /\ u \in [Live(r) -> Nat] /\ u[n] = 1
        /\ \A k \in Live(instrs) : u[k] = w[k]
    BY <1>3, <1>8, <1>9, <2>1 DEF Solution
  <2> HIDE DEF u
  <2>3. ASSUME NEW k \in Live(r) PROVE u[k] = Yield(q, u, x, k)
    <3>1. CASE k = n
      BY <1>5, <2>2, <3>1, YieldOf
    <3>2. CASE k = i
      <4>1. k \in Live(instrs)
        BY <1>3, <1>8, <3>2
      <4>2. a \in Live(instrs)
        BY <1>11, <3>2, <4>1, ReadsLive
      <4>3. w[a] \in Nat /\ u[a] = w[a]
        BY <2>1, <2>2, <4>2 DEF Solution
      <4>4. w[i] = (w[a] + w[a]) % Size
        <5>1. w[i] = Yield(ir, w, x, i)
          BY <2>1, <3>2, <4>1 DEF Solution
        <5>2. Yield(ir, w, x, i) = Operation("ADD", w[a], w[a])
          BY <1>6, <1>11, YieldOf
        <5> QED BY <5>1, <5>2 DEF Operation
      <4>5. Yield(q, u, x, i) = (2 * w[a]) % Size
        <5>1. Len(<<a, n>>) = 2 /\ <<a, n>>[1] = a /\ <<a, n>>[2] = n
          OBVIOUS
        <5>2. Reads(q, i)
          BY <1>5, <1>6, <5>1 DEF Reads, Binary
        <5>3. Yield(q, u, x, i) = Operation("SHL", u[a], u[n])
          BY <1>5, <5>1, <5>2, YieldOf
        <5>4. Operation("SHL", u[a], u[n]) = Shifted(w[a], 1)
          BY <2>2, <4>3 DEF Operation
        <5> QED BY <4>3, <5>3, <5>4, ShiftedFacts
      <4>6. w[a] + w[a] = 2 * w[a]
        BY <4>3
      <4> QED BY <2>2, <3>2, <4>1, <4>4, <4>5, <4>6
    <3>3. CASE k \notin {i, n}
      <4>1. k \in Live(instrs) /\ k \in Instr \ {i, n}
        BY <1>1, <1>8, <1>9, <3>3
      <4>2. ASSUME Reads(ir, k)
            PROVE  /\ u[ir[k].inputs[1]] = w[ir[k].inputs[1]]
                   /\ u[ir[k].inputs[2]] = w[ir[k].inputs[2]]
        BY <2>2, <4>1, <4>2, ReadsLive
      <4>3. q[k] = ir[k]
        BY <1>5, <4>1
      <4>4. Yield(q, u, x, k) = Yield(ir, w, x, k)
        BY <4>2, <4>3, YieldSame
      <4> QED BY <2>1, <2>2, <4>1, <4>4 DEF Solution
    <3> QED BY <3>1, <3>2, <3>3
  <2>4. Solution(q, r, x, u)
    BY <2>2, <2>3 DEF Solution
  <2>5. \A k \in Checks(ir, instrs) : u[ir[k].inputs[1]] = w[ir[k].inputs[1]]
    BY <2>2, CheckFacts
  <2> QED BY <2>4, <2>5
<1>13. \A k \in Checks(ir, instrs) : q[k].inputs = ir[k].inputs
  <2>1. \A k \in Checks(ir, instrs) : k \in Instr \ {i, n}
    BY <1>1, <1>3, <1>6, <1>9 DEF Checks
  <2> QED BY <1>5, <2>1
<1>14. Meaning(q, r) = Meaning(ir, instrs)
  BY <1>4, <1>7, <1>10, <1>12, <1>13, SameMeaning
<1> QED BY <1>7, <1>14 DEF q, r

(* x + d + c is x + (c + d), if the sum of the constants came out right.   *)
LEMMA DetachedMeaning ==
  ASSUME WellFormed(ir, instrs, made), Valued(ir, instrs), made < MaxInstr,
         NEW h \in 2 .. Len(Order), NEW i \in Placed(Order[h]),
         Len(ir[i].inputs) = 2, Reducible(i)
  PROVE  LET e == ir[i].inputs[1]
             c == ir[i].inputs[2]
             x == Detachable(e)[1]
             d == Detachable(e)[2]
             q == Detached(i, e, x, c, d, made + 1)
             sum == ir[c].val + ir[d].val
         IN  /\ Valued(q, WithConst)
             /\ \A k \in 1 .. made : q[k].opcd = ir[k].opcd
             /\ e \in 1 .. made /\ ir[e].opcd = "ADD"
             /\ ThroughInt(sum) = sum % Size => Meaning(q, WithConst) = Meaning(ir, instrs)
<1> DEFINE e == ir[i].inputs[1]
           c == ir[i].inputs[2]
           x == Detachable(e)[1]
           d == Detachable(e)[2]
           n == made + 1
           q == Detached(i, e, x, c, d, n)
           r == WithConst
           sum == ir[c].val + ir[d].val
<1>1. /\ Shaped(ir) /\ Lists(instrs) /\ AllIn(instrs) \subseteq Instr
      /\ AllIn(instrs) \subseteq 1 .. made /\ made \in 0 .. MaxInstr
      /\ \A k \in Instr : ir[k].inputs \in Seq(Instr)
      /\ Live(instrs) \subseteq AllIn(instrs)
  BY WellFormedFacts, LiveFacts
<1>2. /\ i \in AllIn(instrs) /\ i \in Instr /\ i \in In(instrs, Order[h])
      /\ i \notin In(instrs, Header) /\ i \in Live(instrs)
  <2>1. h \in 1 .. Len(Order)
    OBVIOUS
  <2> QED BY <1>1, <2>1, OrderFacts, LiveFacts, InAll DEF Placed, Lists
<1>3. /\ n \in Instr /\ n \notin AllIn(instrs)
      /\ Lists(r) /\ AllIn(r) = AllIn(instrs) \cup {n}
      /\ In(r, Header) = In(instrs, Header) \cup {n}
      /\ \A b \in Block \ {Header} : In(r, b) = In(instrs, b)
  BY WithConstFacts
<1>4. /\ {i, e, c, x, d} \subseteq AllIn(instrs)
      /\ i # e /\ i # c /\ i # x /\ i # d
      /\ e # c /\ e # x /\ e # d /\ x # c /\ x # d
      /\ Operands(ir, i) = {e, c} /\ Operands(ir, e) = {x, d}
      /\ ir[i].opcd = "ADD" /\ ir[e].opcd = "ADD" /\ ir[e].users = {i}
      /\ ir[e].type # "CONST" /\ ir[c].type = "CONST" /\ ir[d].type = "CONST"
      /\ Len(ir[e].inputs) = 2
      /\ \/ ir[e].inputs[1] = x /\ ir[e].inputs[2] = d
         \/ ir[e].inputs[1] = d /\ ir[e].inputs[2] = x
  <2>1. ReducedParts(i, e, c, x, d)
    BY ReducibleFacts
  <2> HIDE DEF e, c, x, d
  <2> QED BY <2>1 DEF ReducedParts
<1>5. WellFormed(q, r, n)
  BY DetachedWell
<1>6. ir[i].inputs[1] = e /\ ir[i].inputs[2] = c
  OBVIOUS
<1> HIDE DEF e, c, x, d, n, q, r
<1>7. /\ {i, e, c, x, d} \subseteq Instr
      /\ n # i /\ n # e /\ n # x /\ n # c /\ n # d
  BY <1>1, <1>3, <1>4
<1>8. /\ \A k \in Instr \ {n} : /\ q[k].opcd = ir[k].opcd /\ q[k].type = ir[k].type
                                /\ q[k].val = ir[k].val
      /\ q[i].inputs = <<x, n>> /\ q[e].inputs = <<>>
      /\ \A k \in Instr \ {i, e, n} : q[k].inputs = ir[k].inputs
      /\ q[n].opcd = "ICONST" /\ q[n].type = "CONST"
      /\ q[n].val = ThroughInt(sum)
  <2> i \in Instr /\ e \in Instr /\ x \in Instr /\ c \in Instr /\ d \in Instr /\ n \in Instr
    BY <1>3, <1>7
  <2>1. DetachedFields(q, i, e, x, c, d, n)
    BY <1>1, <1>4, <1>7, DetachedFacts DEF q
  <2> QED BY <2>1 DEF DetachedFields
<1>9. ir[c].val \in Nat /\ ir[d].val \in Nat /\ sum \in Nat
  BY <1>4 DEF Valued
<1> HIDE DEF sum
<1>10. ir[i].type # "CONST"
  BY <1>2, <1>4 DEF Valued, Binary
<1>11. Valued(q, r)
  <2>1. q[n].val \in Nat
    BY <1>8, <1>9, ThroughIntNat
  <2>2. \A k \in AllIn(instrs) : k \in Instr \ {n}
    BY <1>1, <1>3
  <2>3. \A k \in AllIn(r) : k = n \/ (k \in AllIn(instrs) /\ k \in Instr \ {n})
    BY <1>3, <2>2
  <2>4. n \in In(r, Header) /\ In(instrs, Header) \subseteq In(r, Header)
    BY <1>3
  <2> QED BY <1>8, <2>1, <2>3, <2>4 DEF Valued
<1>12. Live(r) = Live(instrs) \cup {n}
  <2>1. \A b \in Block \ {Header} :
          In(r, b) \subseteq In(instrs, b) /\ In(instrs, b) \subseteq In(r, b) \cup {n}
    BY <1>3
  <2> QED BY <1>1, <1>3, <2>1, LiveGrown
<1>13. \A k \in 1 .. made : q[k].opcd = ir[k].opcd
  <2>1. \A k \in 1 .. made : k \in Instr \ {n}
    <3>1. made \in Nat /\ MaxInstr \in Nat /\ made <= MaxInstr
      BY <1>1, PassesAssumption
    <3> QED BY ONLY <3>1 DEF Instr, n
  <2> QED BY <1>8, <2>1
<1>14. \A k \in AllIn(instrs) : e \in Operands(ir, k) => k = i
  BY <1>4 DEF WellFormed, Agree
<1>15. Checks(q, r) = Checks(ir, instrs)
  <2>1. \A k \in Live(instrs) : q[k].opcd = ir[k].opcd
    BY <1>1, <1>3, <1>8
  <2>2. q[n].opcd # "CHECK"
    BY <1>8
  <2> QED BY <1>12, <2>1, <2>2 DEF Checks
<1>16. \A k \in Checks(ir, instrs) : q[k].inputs = ir[k].inputs
  <2>1. \A k \in Checks(ir, instrs) : k \in Instr \ {i, e, n}
    BY <1>1, <1>3, <1>4 DEF Checks
  <2> QED BY <1>8, <2>1
<1>17. ASSUME NEW y \in Word, ThroughInt(sum) = sum % Size
       PROVE  \E u : /\ Solution(q, r, y, u)
                     /\ \A k \in Checks(ir, instrs) :
                          u[ir[k].inputs[1]] = Value(ir, instrs, y)[ir[k].inputs[1]]
  <2> PICK w : w = Value(ir, instrs, y)
    OBVIOUS
  <2>1. Solution(ir, instrs, y, w)
    BY WordNat, ValueSolves DEF WordFacts
  <2>2. sum % Size \in Nat
    BY <1>9, PassesAssumption
  <2> DEFINE u == [k \in Live(r) |-> IF k = n THEN sum % Size ELSE IF k = e THEN 0 ELSE w[k]]
  <2>3. /\ u \in [Live(r) -> Nat] /\ u[n] = sum % Size
        /\ e \in Live(instrs) => u[e] = 0
        /\ \A k \in Live(instrs) \ {e} : u[k] = w[k]
    BY <1>1, <1>3, <1>7, <1>12, <2>1, <2>2 DEF Solution
  <2> HIDE DEF u
  <2>4. ASSUME NEW k \in Live(r) PROVE u[k] = Yield(q, u, y, k)
    <3>1. CASE k = n
      BY <1>8, <1>17, <2>3, <3>1, YieldOf
    <3>2. CASE k = e
      <4>1. q[e].type # "CONST" /\ q[e].opcd # "LOAD" /\ ~Reads(q, e)
        BY <1>4, <1>7, <1>8 DEF Reads
      <4>2. e \in Live(instrs)
        BY <1>7, <1>12, <3>2
      <4> QED BY <2>3, <3>2, <4>1, <4>2, YieldOf
    <3>3. CASE k = i
      <4>1. Reads(ir, i) /\ Reads(ir, e)
        BY <1>4, <1>10 DEF Reads, Binary
      <4>2. e \in Live(instrs) /\ c \in Live(instrs)
        BY <1>2, <1>6, <4>1, ReadsLive
      <4>3. x \in Live(instrs) /\ d \in Live(instrs)
        BY <1>4, <4>1, <4>2, ReadsLive
      <4>4. w[x] \in Nat /\ u[x] = w[x] /\ u[i] = w[i] /\ w[c] = ir[c].val /\ w[d] = ir[d].val
        <5>1. w[x] \in Nat /\ w[c] = Yield(ir, w, y, c) /\ w[d] = Yield(ir, w, y, d)
          BY <2>1, <4>2, <4>3 DEF Solution
        <5>2. u[x] = w[x] /\ u[i] = w[i]
          BY <1>2, <1>4, <2>3, <4>3
        <5> QED BY <1>4, <5>1, <5>2, YieldOf
      <4>5. w[e] = (w[x] + w[d]) % Size
        <5>1. w[e] = Operation("ADD", w[ir[e].inputs[1]], w[ir[e].inputs[2]])
          BY <1>4, <2>1, <4>1, <4>2, YieldOf DEF Solution
        <5>2. w[x] + w[d] = w[d] + w[x]
          BY <1>9, <4>4
        <5> QED BY <1>4, <5>1, <5>2 DEF Operation
      <4>6. w[i] = (w[e] + w[c]) % Size
        <5>1. w[i] = Operation("ADD", w[ir[i].inputs[1]], w[ir[i].inputs[2]])
          BY <1>2, <1>4, <2>1, <4>1, YieldOf DEF Solution
        <5> QED BY <1>6, <5>1 DEF Operation
      <4>7. Yield(q, u, y, i) = (u[x] + u[n]) % Size
        <5>1. Len(<<x, n>>) = 2 /\ <<x, n>>[1] = x /\ <<x, n>>[2] = n
          OBVIOUS
        <5>2. q[i].inputs = <<x, n>> /\ q[i].opcd = "ADD" /\ q[i].type # "CONST"
          BY <1>4, <1>7, <1>8, <1>10
        <5>3. Reads(q, i)
          BY <5>1, <5>2 DEF Reads, Binary
        <5>4. Yield(q, u, y, i) = Operation("ADD", u[x], u[n])
          BY <5>1, <5>2, <5>3, YieldOf
        <5> QED BY <5>4 DEF Operation
      <4>8. (((w[x] + ir[d].val) % Size) + ir[c].val) % Size
              = (w[x] + ((ir[c].val + ir[d].val) % Size)) % Size
        BY <1>9, <4>4, SumOfSums
      <4>9. w[i] = (w[x] + (sum % Size)) % Size
        BY <4>4, <4>5, <4>6, <4>8 DEF sum
      <4> QED BY <2>3, <3>3, <4>4, <4>7, <4>9
    <3>4. CASE k \notin {i, e, n}
      <4>1. k \in Live(instrs) \ {e} /\ k \in AllIn(instrs) /\ k \in Instr \ {i, e, n}
        BY <1>1, <1>12, <3>4
      <4>2. ASSUME Reads(ir, k)
            PROVE  /\ u[ir[k].inputs[1]] = w[ir[k].inputs[1]]
                   /\ u[ir[k].inputs[2]] = w[ir[k].inputs[2]]
        BY <1>14, <2>3, <4>1, <4>2, ReadsLive
      <4>3. /\ q[k].type = ir[k].type /\ q[k].opcd = ir[k].opcd /\ q[k].val = ir[k].val
            /\ q[k].inputs = ir[k].inputs
        BY <1>8, <4>1
      <4>4. Yield(q, u, y, k) = Yield(ir, w, y, k)
        BY <4>2, <4>3, YieldSame
      <4> QED BY <2>1, <2>3, <4>1, <4>4 DEF Solution
    <3> QED BY <3>1, <3>2, <3>3, <3>4
  <2>5. Solution(q, r, y, u)
    BY <2>3, <2>4 DEF Solution
  <2>6. \A k \in Checks(ir, instrs) : u[ir[k].inputs[1]] = w[ir[k].inputs[1]]
    <3>1. \A k \in Checks(ir, instrs) : ir[k].inputs[1] \in Live(instrs) \ {e}
      <4>1. \A k \in Checks(ir, instrs) : k # i
        BY <1>4 DEF Checks
      <4> QED BY <1>14, <4>1, CheckFacts
    <3> QED BY <2>3, <3>1
  <2> QED BY <2>5, <2>6
<1>18. ThroughInt(sum) = sum % Size => Meaning(q, r) = Meaning(ir, instrs)
  BY <1>5, <1>11, <1>15, <1>16, <1>17, SameMeaning
<1>19. e \in 1 .. made
  BY <1>1, <1>4
<1> QED BY <1>4, <1>11, <1>13, <1>18, <1>19 DEF e, c, x, d, n, q, r, sum

-----------------------------------------------------------------------------
(* THE MEANING                                                             *)

(* What makePeepholes put aside are the ADDs it stripped.                  *)
OddAdds == pass = "peep" =>
  odd \in Seq(1 .. made) /\ \A n \in 1 .. Len(odd) : ir[odd[n]].opcd = "ADD"

MeaningInv == Valued(ir, instrs) /\ OddAdds /\ MeaningKept

LEMMA MeaningStart == ASSUME Init PROVE MeaningInv
<1>1. PICK p \in Programs : ir = p.ir /\ instrs = p.instrs /\ made = p.made
  BY DEF Init
<1>2. Valued(ir, instrs)
  BY <1>1, ProgramsAssumption
<1>3. OddAdds /\ MeaningKept
  BY DEF Init, OddAdds, MeaningKept
<1> QED BY <1>2, <1>3 DEF MeaningInv

LEMMA MeaningUntouched ==
  ASSUME MeaningInv, UNCHANGED <<program, gap, meaning>>,
         pass' = "peep" => (pass = "peep" /\ odd' = odd) \/ odd' = <<>>
  PROVE  MeaningInv'
<1>1. ir' = ir /\ instrs' = instrs /\ made' = made /\ gap' = gap /\ meaning' = meaning
  BY DEF program
<1>2. Valued(ir, instrs)' /\ MeaningKept'
  BY <1>1 DEF MeaningInv, MeaningKept
<1>3. OddAdds'
  <2>1. CASE odd' = <<>>
    BY <2>1 DEF OddAdds
  <2>2. CASE odd' # <<>>
    BY <1>1, <2>2 DEF OddAdds, MeaningInv
  <2> QED BY <2>1, <2>2
<1> QED BY <1>2, <1>3 DEF MeaningInv

LEMMA ControlStepsMean ==
  ASSUME MeaningInv,
         \/ Abort \/ Keep \/ NextBlock \/ FindUnusedConsts \/ Return
         \/ \E p \in Passes : Call(p)
         \/ UNCHANGED passVars
  PROVE  MeaningInv'
<1>1. UNCHANGED <<program, gap, meaning>>
  BY DEF Abort, Keep, NextBlock, FindUnusedConsts, Return, Call, passVars
<1>2. pass' = "peep" => (pass = "peep" /\ odd' = odd) \/ odd' = <<>>
  BY DEF Abort, Keep, NextBlock, FindUnusedConsts, Return, Call, passVars, control
<1> QED BY <1>1, <1>2, MeaningUntouched

(* A binary operation outside the header yields what it does to the values *)
(* of its operands.                                                        *)
LEMMA OperationYields ==
  ASSUME WellFormed(ir, instrs, made), Valued(ir, instrs), NEW i \in Live(instrs),
         i \notin In(instrs, Header), ir[i].opcd \in Binary, Len(ir[i].inputs) = 2,
         NEW x \in Word, NEW w, w = Value(ir, instrs, x)
  PROVE  /\ w[i] = Operation(ir[i].opcd, w[ir[i].inputs[1]], w[ir[i].inputs[2]])
         /\ \A e \in Uses(i) : w[e] \in Nat /\ (IsConst(e) => w[e] = ir[e].val)
         /\ ir[i].inputs[1] \in Uses(i) /\ ir[i].inputs[2] \in Uses(i)
<1>1. Solution(ir, instrs, x, w)
  BY WordNat, ValueSolves DEF WordFacts
<1>2. i \in AllIn(instrs)
  BY WellFormedFacts, LiveFacts
<1>3. Reads(ir, i)
  BY <1>2 DEF Reads, Valued
<1>4. /\ ir[i].inputs[1] \in Live(instrs) /\ ir[i].inputs[2] \in Live(instrs)
      /\ Uses(i) = {ir[i].inputs[1], ir[i].inputs[2]}
  BY <1>3, ReadsLive DEF Uses
<1>5. w[i] = Operation(ir[i].opcd, w[ir[i].inputs[1]], w[ir[i].inputs[2]])
  BY <1>1, <1>3, YieldOf DEF Solution
<1>6. ASSUME NEW e \in Uses(i)
      PROVE  w[e] \in Nat /\ (IsConst(e) => w[e] = ir[e].val)
  <2>1. e \in Live(instrs)
    BY <1>4
  <2>2. w[e] \in Nat /\ w[e] = Yield(ir, w, x, e)
    BY <1>1, <2>1 DEF Solution
  <2> QED BY <2>2, YieldOf DEF IsConst
<1> QED BY <1>4, <1>5, <1>6

(* One place outside the header, one value for every word: the instruction *)
(* there may become this constant.                                         *)
LEMMA ConstMeans ==
  ASSUME WellFormed(ir, instrs, made), MeaningInv,
         NEW b \in Block \ {Header}, NEW i \in Placed(b), Len(ir[i].inputs) = 2,
         NEW v \in Nat,
         ir' = AsConst(i, v), instrs' = MovedToHead(b, i), meaning' = meaning,
         pass' # "peep",
         ~gap' => ~gap /\ \A x \in Word : i \in Live(instrs) => Value(ir, instrs, x)[i] = v
  PROVE  MeaningInv'
<1>1. Valued(ir', instrs')
  BY AsConstValued DEF MeaningInv
<1>2. ASSUME ~gap' PROVE Meaning(ir', instrs') = meaning'
  <2>1. Meaning(AsConst(i, v), MovedToHead(b, i)) = Meaning(ir, instrs)
    BY <1>2, AsConstMeaning DEF MeaningInv
  <2> QED BY <1>2, <2>1 DEF MeaningInv, MeaningKept
<1>3. MeaningKept' /\ OddAdds'
  BY <1>2 DEF MeaningKept, OddAdds
<1> QED BY <1>1, <1>3 DEF MeaningInv

LEMMA FoldMeans ==
  ASSUME PassesInv, MeaningInv, Fold PROVE MeaningInv'
<1> PICK i : i = Current
  OBVIOUS
<1>1. /\ WellFormed(ir, instrs, made) /\ ControlOK /\ Valued(ir, instrs)
      /\ pass = "fold" /\ pass' = "fold" /\ at <= Len(Order) /\ it <= Len(instrs[Bb])
      /\ Len(ir[i].inputs) = 2 /\ Foldable(i)
      /\ ir' = AsConst(i, Folded(i)) /\ instrs' = MovedToHead(Bb, i)
      /\ meaning' = meaning
      /\ gap' = (gap \/ ir[i].opcd \notin Binary \/ Folded(i) # OfConstants(i))
  BY DEF PassesInv, MeaningInv, Fold, Scanning, AtFollowing, control, AsConst
<1>2. Bb \in Block \ {Header} /\ i \in Placed(Bb) /\ i \in Instr /\ i \in AllIn(instrs)
  BY <1>1, ScanFacts DEF Passes, Alive
<1>3. i \notin In(instrs, Header)
  BY <1>1, <1>2, WellFormedFacts, OrderFacts DEF Lists, Placed
<1>4. Folded(i) \in Nat
  <2>1. ir[i].inputs \in Seq(Instr) /\ ir[i].val \in Nat
    BY <1>1, <1>2, WellFormedFacts DEF Valued
  <2>2. {ir[i].inputs[1], ir[i].inputs[2]} \subseteq Operands(ir, i)
    BY <1>1, <2>1 DEF Operands, ToSet
  <2>3. Operands(ir, i) \subseteq AllIn(instrs)
    BY <1>1, <1>2 DEF WellFormed, Agree
  <2>4. ir[ir[i].inputs[1]].val \in Nat /\ ir[ir[i].inputs[2]].val \in Nat
    BY <1>1, <2>2, <2>3 DEF Valued
  <2>5. ir[i].opcd \in {"ADD", "AND", "XOR"} => OfConstants(i) \in Nat
    BY <2>4, OperationNat DEF OfConstants, Binary
  <2> QED BY <2>1, <2>5 DEF Folded
<1>5. ASSUME ~gap', NEW x \in Word, i \in Live(instrs)
      PROVE  Value(ir, instrs, x)[i] = Folded(i)
  <2> PICK w : w = Value(ir, instrs, x)
    OBVIOUS
  <2>1. /\ w[i] = Operation(ir[i].opcd, w[ir[i].inputs[1]], w[ir[i].inputs[2]])
        /\ \A e \in Uses(i) : IsConst(e) => w[e] = ir[e].val
        /\ ir[i].inputs[1] \in Uses(i) /\ ir[i].inputs[2] \in Uses(i)
    <3>1. ir[i].opcd \in Binary
      BY <1>1, <1>5
    <3> QED BY <1>1, <1>3, <1>5, <3>1, OperationYields
  <2>2. w[i] = OfConstants(i)
    BY <1>1, <2>1 DEF Foldable, OfConstants
  <2> QED BY <1>1, <1>5, <2>2
<1>6. ~gap' => ~gap /\ \A x \in Word : i \in Live(instrs) => Value(ir, instrs, x)[i] = Folded(i)
  BY <1>1, <1>5
<1> QED BY <1>1, <1>2, <1>4, <1>6, ConstMeans

LEMMA MakeZeroMeans ==
  ASSUME PassesInv, MeaningInv, MakeZero PROVE MeaningInv'
<1> PICK i : i = Current
  OBVIOUS
<1>1. /\ WellFormed(ir, instrs, made) /\ ControlOK /\ Valued(ir, instrs)
      /\ pass = "atomic" /\ pass' = "atomic" /\ at <= Len(Order) /\ it <= Len(instrs[Bb])
      /\ Len(ir[i].inputs) = 2 /\ IsZero(i)
      /\ ir' = AsConst(i, 0) /\ instrs' = MovedToHead(Bb, i)
      /\ meaning' = meaning /\ gap' = gap
  BY DEF PassesInv, MeaningInv, MakeZero, Scanning, AtFollowing, control, AsConst
<1>2. Bb \in Block \ {Header} /\ i \in Placed(Bb)
  BY <1>1, ScanFacts DEF Passes
<1>3. i \notin In(instrs, Header)
  BY <1>1, <1>2, WellFormedFacts, OrderFacts DEF Lists, Placed
<1>4. ASSUME NEW x \in Word, i \in Live(instrs) PROVE Value(ir, instrs, x)[i] = 0
  <2> PICK w : w = Value(ir, instrs, x)
    OBVIOUS
  <2>1. ir[i].opcd \in Binary
    BY <1>1 DEF IsZero, Binary
  <2>2. /\ w[i] = Operation(ir[i].opcd, w[ir[i].inputs[1]], w[ir[i].inputs[2]])
        /\ \A e \in Uses(i) : w[e] \in Nat /\ (IsConst(e) => w[e] = ir[e].val)
        /\ ir[i].inputs[1] \in Uses(i) /\ ir[i].inputs[2] \in Uses(i)
    BY <1>1, <1>3, <1>4, <2>1, OperationYields
  <2>3. CASE ir[i].opcd = "XOR" /\ ir[i].inputs[1] = ir[i].inputs[2]
    BY <2>2, <2>3, BitXorFacts DEF Operation
  <2>4. CASE ir[i].opcd = "AND" /\ (Zero(ir[i].inputs[1]) \/ Zero(ir[i].inputs[2]))
    <3>1. w[ir[i].inputs[1]] = 0 \/ w[ir[i].inputs[2]] = 0
      BY <2>2, <2>4 DEF Zero
    <3>2. w[i] = BitAnd(w[ir[i].inputs[1]], w[ir[i].inputs[2]])
      BY <2>2, <2>4 DEF Operation
    <3> QED BY <2>2, <3>1, <3>2, BitAndFacts
  <2> QED BY <1>1, <2>3, <2>4 DEF IsZero
<1>5. 0 \in Nat /\ pass' # "peep"
  BY <1>1
<1>6. ~gap' => ~gap /\ \A x \in Word : i \in Live(instrs) => Value(ir, instrs, x)[i] = 0
  BY <1>1, <1>4
<1> QED BY <1>1, <1>2, <1>5, <1>6, ConstMeans

LEMMA MakeShiftMeans ==
  ASSUME PassesInv, MeaningInv, MakeShift PROVE MeaningInv'
<1> PICK i : i = Current
  OBVIOUS
<1>1. /\ WellFormed(ir, instrs, made) /\ ControlOK /\ Valued(ir, instrs) /\ made < MaxInstr
      /\ pass = "atomic" /\ pass' = "atomic" /\ at <= Len(Order) /\ it <= Len(instrs[Bb])
      /\ Len(ir[i].inputs) = 2 /\ IsDouble(i)
      /\ ir' = AsShift(i) /\ instrs' = WithConst
      /\ meaning' = meaning /\ gap' = gap
  BY DEF PassesInv, MeaningInv, MakeShift, Scanning, AsShift, WithConst, Push
<1>2. Bb \in Block \ {Header} /\ i \in Placed(Bb)
  BY <1>1, ScanFacts DEF Passes
<1>3. /\ Valued(AsShift(i), WithConst)
      /\ Meaning(AsShift(i), WithConst) = Meaning(ir, instrs)
  BY <1>1, <1>2, AsShiftMeaning
<1>4. Valued(ir', instrs') /\ Meaning(ir', instrs') = Meaning(ir, instrs)
  BY <1>1, <1>3
<1>5. MeaningKept' /\ OddAdds'
  BY <1>1, <1>4 DEF MeaningInv, MeaningKept, OddAdds
<1> QED BY <1>4, <1>5 DEF MeaningInv

LEMMA ReduceMeans ==
  ASSUME PassesInv, MeaningInv, Reduce PROVE MeaningInv'
<1> PICK i : i = Current
  OBVIOUS
<1> DEFINE e == ir[i].inputs[1]
           c == ir[i].inputs[2]
           x == Detachable(e)[1]
           d == Detachable(e)[2]
           q == Detached(i, e, x, c, d, made + 1)
           sum == ir[c].val + ir[d].val
<1>1. /\ WellFormed(ir, instrs, made) /\ ControlOK /\ Valued(ir, instrs) /\ made < MaxInstr
      /\ pass = "peep" /\ at <= Len(Order) /\ it <= Len(instrs[Bb])
      /\ Len(ir[i].inputs) = 2 /\ Reducible(i)
      /\ ir' = q /\ instrs' = WithConst /\ odd' = Append(odd, e) /\ made' = made + 1
      /\ meaning' = meaning /\ gap' = (gap \/ ThroughInt(sum) # sum % Size)
      /\ odd \in Seq(1 .. made) /\ \A n \in 1 .. Len(odd) : ir[odd[n]].opcd = "ADD"
  BY DEF PassesInv, MeaningInv, OddAdds, Reduce, Scanning, WithConst, Push
<1>2. at \in 2 .. Len(Order) /\ i \in Placed(Order[at]) /\ made \in Nat
  <2> HIDE DEF q, sum
  <2>1. at \in 2 .. Len(Order) /\ i \in Placed(Order[at])
    BY <1>1, ScanFacts DEF Passes
  <2>2. made \in 0 .. MaxInstr
    BY <1>1, WellFormedFacts
  <2> QED BY <2>1, <2>2
<1>3. /\ Valued(q, WithConst)
      /\ \A k \in 1 .. made : q[k].opcd = ir[k].opcd
      /\ e \in 1 .. made /\ ir[e].opcd = "ADD"
      /\ ThroughInt(sum) = sum % Size => Meaning(q, WithConst) = Meaning(ir, instrs)
  BY <1>1, <1>2, DetachedMeaning
<1> HIDE DEF e, c, x, d, q, sum
<1>4. Valued(ir', instrs')
  BY <1>1, <1>3
<1>5. MeaningKept'
  <2>1. ASSUME ~gap' PROVE Meaning(ir', instrs') = meaning'
    BY <1>1, <1>3, <2>1 DEF MeaningInv, MeaningKept
  <2> QED BY <2>1 DEF MeaningKept
<1>6. OddAdds'
  <2> PICK t : t = Append(odd, e)
    OBVIOUS
  <2>1. /\ t \in Seq(1 .. made + 1) /\ Len(t) = Len(odd) + 1 /\ t[Len(odd) + 1] = e
        /\ \A n \in 1 .. Len(odd) : t[n] = odd[n] /\ odd[n] \in 1 .. made
        /\ Len(odd) \in Nat
    <3>1. Len(odd) \in Nat /\ \A n \in 1 .. Len(odd) : odd[n] \in 1 .. made
      <4>1. ASSUME NEW S, NEW s \in Seq(S)
            PROVE  Len(s) \in Nat /\ \A n \in 1 .. Len(s) : s[n] \in S
        OBVIOUS
      <4> QED BY <1>1, <4>1
    <3>2. odd \in Seq(1 .. made + 1) /\ e \in 1 .. made + 1
      <4>1. ASSUME NEW S, NEW T, S \subseteq T, NEW s \in Seq(S) PROVE s \in Seq(T)
        BY <4>1, SeqMonotonic
      <4>2. 1 .. made \subseteq 1 .. made + 1
        BY <1>2
      <4>3. odd \in Seq(1 .. made) /\ e \in 1 .. made
        BY <1>1, <1>3
      <4> QED BY <4>1, <4>2, <4>3
    <3>3. /\ t \in Seq(1 .. made + 1) /\ Len(t) = Len(odd) + 1 /\ t[Len(odd) + 1] = e
          /\ \A n \in 1 .. Len(odd) : t[n] = odd[n]
      BY ONLY <3>2, t = Append(odd, e), AppendProperties
    <3> QED BY <3>1, <3>3
  <2>2. ASSUME NEW n \in 1 .. Len(t) PROVE q[t[n]].opcd = "ADD"
    <3>1. CASE n \in 1 .. Len(odd)
      BY <1>1, <1>3, <2>1, <3>1
    <3>2. CASE n = Len(odd) + 1
      BY <1>3, <2>1, <3>2
    <3> QED BY <2>1, <3>1, <3>2
  <2>3. t \in Seq(1 .. made') /\ odd' = t /\ ir' = q
    BY <1>1, <2>1
  <2> QED BY <2>2, <2>3 DEF OddAdds
<1> QED BY <1>4, <1>5, <1>6 DEF MeaningInv

LEMMA EraseOddMeans ==
  ASSUME PassesInv, MeaningInv, EraseOdd PROVE MeaningInv'
<1> PICK e : e = Last(odd)
  OBVIOUS
<1>1. /\ WellFormed(ir, instrs, made) /\ ControlOK /\ Valued(ir, instrs)
      /\ pass = "peep" /\ at <= Len(Order) /\ odd # <<>> /\ odd' = Front(odd)
      /\ IF e \in Placed(Bb) /\ ir[e].users = {}
         THEN ir' = Forgotten(e) /\ instrs' = Without(Bb, e)
         ELSE ir' = ir /\ instrs' = instrs
      /\ made' = made /\ meaning' = meaning /\ gap' = gap
      /\ odd \in Seq(1 .. made) /\ \A n \in 1 .. Len(odd) : ir[odd[n]].opcd = "ADD"
  BY DEF PassesInv, MeaningInv, OddAdds, EraseOdd, Popped
<1>2. Bb \in Block /\ 1 .. made \subseteq Instr
  <2>1. Bb \in Block
    BY <1>1, ScanFacts DEF Passes
  <2>2. made \in 0 .. MaxInstr /\ MaxInstr \in Nat
    BY <1>1, WellFormedFacts, PassesAssumption
  <2> QED BY <2>1, <2>2 DEF Instr
<1>3. /\ odd' \in Seq(1 .. made)
      /\ \A n \in 1 .. Len(odd') : odd'[n] = odd[n] /\ n \in 1 .. Len(odd)
      /\ \A n \in 1 .. Len(odd) : odd[n] \in 1 .. made
      /\ e = odd[Len(odd)] /\ Len(odd) \in 1 .. Len(odd)
  <2> PICK f : f = Front(odd)
    OBVIOUS
  <2>0. Len(odd) \in Nat \ {0} /\ \A n \in 1 .. Len(odd) : odd[n] \in 1 .. made
    <3>1. ASSUME NEW S, NEW s \in Seq(S) PROVE \A n \in 1 .. Len(s) : s[n] \in S
      OBVIOUS
    <3>2. Len(odd) \in Nat \ {0}
      BY <1>1
    <3> QED BY <1>1, <3>1, <3>2
  <2>1. /\ f \in Seq(1 .. made) /\ Len(f) = Len(odd) - 1
        /\ \A n \in 1 .. Len(f) : f[n] = odd[n]
    <3> DEFINE h == Len(odd) - 1
    <3>1. h \in Nat /\ \A n \in 1 .. h : odd[n] \in 1 .. made
      BY <2>0
    <3>2. f = SubSeq(odd, 1, h)
      BY DEF Front
    <3> HIDE DEF h
    <3>3. /\ f \in Seq(1 .. made) /\ Len(f) = IF 1 <= h THEN h - 1 + 1 ELSE 0
          /\ \A n \in 1 .. h - 1 + 1 : f[n] = odd[1 + n - 1]
      BY <3>1, <3>2, SubSeqProperties
    <3>4. Len(f) = h /\ \A n \in 1 .. h : f[n] = odd[n]
      BY <3>1, <3>3
    <3> QED BY <3>3, <3>4 DEF h
  <2>2. Len(odd) \in Nat \ {0} /\ e = odd[Len(odd)]
    BY <1>1 DEF Last
  <2>3. odd' = f
    BY <1>1
  <2>5. Len(odd) \in 1 .. Len(odd)
    BY <2>2
  <2>6. \A n \in 1 .. Len(f) : n \in 1 .. Len(odd)
    BY <2>1, <2>2
  <2> QED BY <2>0, <2>1, <2>2, <2>3, <2>5, <2>6
<1>4. ir[e].opcd = "ADD" /\ e \in Instr
  BY <1>1, <1>2, <1>3
<1>5. /\ Valued(ir', instrs') /\ Meaning(ir', instrs') = Meaning(ir, instrs)
      /\ \A k \in Instr : ir'[k].opcd = ir[k].opcd
  <2>1. CASE e \in Placed(Bb) /\ ir[e].users = {}
    <3>1. /\ Valued(Forgotten(e), Without(Bb, e))
          /\ Meaning(Forgotten(e), Without(Bb, e)) = Meaning(ir, instrs)
      BY <1>1, <1>2, <1>4, <2>1, ErasedMeaning
    <3>2. \A k \in Instr : Forgotten(e)[k].opcd = ir[k].opcd
      BY <1>1, <1>4, <2>1, WellFormedFacts, ForgottenFacts
    <3>3. ir' = Forgotten(e) /\ instrs' = Without(Bb, e)
      BY <1>1, <2>1
    <3> QED BY <3>1, <3>2, <3>3
  <2>2. CASE ~(e \in Placed(Bb) /\ ir[e].users = {})
    BY <1>1, <2>2
  <2> QED BY <2>1, <2>2
<1>6. MeaningKept'
  BY <1>1, <1>5 DEF MeaningInv, MeaningKept
<1>7. OddAdds'
  BY <1>1, <1>2, <1>3, <1>5 DEF OddAdds
<1> QED BY <1>5, <1>6, <1>7 DEF MeaningInv

LEMMA EraseConstMeans ==
  ASSUME PassesInv, MeaningInv, EraseConst PROVE MeaningInv'
<1>1. PICK e \in keys : ir' = Forgotten(e) /\ instrs' = Without(Header, e)
  BY DEF EraseConst
<1>2. /\ WellFormed(ir, instrs, made) /\ Valued(ir, instrs)
      /\ pass' = "consts" /\ meaning' = meaning /\ gap' = gap
      /\ e \in Placed(Header) /\ ir[e].users = {} /\ Header \in Block
  BY OrderFacts DEF PassesInv, MeaningInv, EraseConst, KeysUnused
<1>3. ir[e].opcd # "CHECK"
  BY <1>2, CheckFacts DEF Placed
<1>4. /\ Valued(Forgotten(e), Without(Header, e))
      /\ Meaning(Forgotten(e), Without(Header, e)) = Meaning(ir, instrs)
  BY <1>2, <1>3, ErasedMeaning
<1>5. Valued(ir', instrs') /\ Meaning(ir', instrs') = Meaning(ir, instrs)
  BY <1>1, <1>4
<1>6. MeaningKept' /\ OddAdds'
  BY <1>2, <1>5 DEF MeaningInv, MeaningKept, OddAdds
<1> QED BY <1>5, <1>6 DEF MeaningInv

LEMMA MeaningStep ==
  ASSUME PassesInv, MeaningInv, [Next]_passVars PROVE MeaningInv'
<1>1. CASE Step
  BY <1>1, FoldMeans, ReduceMeans, MakeZeroMeans, MakeShiftMeans, EraseOddMeans,
     EraseConstMeans, ControlStepsMean DEF Step
<1>2. CASE \E p \in Passes : Call(p)
  BY <1>2, ControlStepsMean
<1>3. CASE UNCHANGED passVars
  BY <1>3, ControlStepsMean
<1> QED BY <1>1, <1>2, <1>3 DEF Next

-----------------------------------------------------------------------------
(* THEOREMS                                                                *)

(* In every state of every sequence of passes the program is well formed,  *)
(* the iterators are in range, the constants still to be erased are        *)
(* unused, and nothing applies to what a pass has left behind.             *)
THEOREM PassesInvCorrect == Spec => []PassesInv
<1>1. Init => PassesInv
  BY InvStart
<1>2. PassesInv /\ [Next]_passVars => PassesInv'
  BY InvStep
<1> QED BY <1>1, <1>2, PTL DEF Spec

(* Inputs and users agree among the instructions that are in a block, and  *)
(* none is in two places: what cut_instr, push_instrs, erase_instr and the *)
(* re-linking of makePeepholes do to them goes together in every step.     *)
THEOREM DefUseCorrect == Spec => []DefUse
<1>1. PassesInv => DefUse
  BY DEF PassesInv, WellFormed, DefUse
<1> QED BY <1>1, PassesInvCorrect, PTL

(* Every operand that is still read is in the header, in a block that      *)
(* comes earlier in RPO, or stands before its user: constants are moved to *)
(* the end of the header, and makePeepholes passes on operands of operands *)
(* only.                                                                   *)
THEOREM OperandsBeforeCorrect == Spec => []OperandsBefore
<1>1. PassesInv => OperandsBefore
  BY DEF PassesInv, WellFormed, OperandsBefore
<1> QED BY <1>1, PassesInvCorrect, PTL

(* BbGraph::throwIfNotConsistent accepts what the passes leave, except for *)
(* an ADD that makePeepholes stripped, and only such an ADD, or for        *)
(* doConstFoldProp an instruction without two operands, stops a pass.      *)
THEOREM OnlyStrippedStopCorrect == Spec => []OnlyStrippedStop
<1>1. PassesInv => OnlyStrippedStop
  BY DEF PassesInv, WellFormed, Stopped, Alive, OnlyStrippedStop
<1> QED BY <1>1, PassesInvCorrect, PTL

(* Where doConstFoldProp and doAtomicPeepholes have gone through, nothing  *)
(* is left that they would change: no instruction they folded or moved was *)
(* an operand of one they had already passed.                              *)
THEOREM OnePassSufficesCorrect == Spec => []OnePassSuffices
<1> SUFFICES ASSUME PassesInv PROVE OnePassSuffices
  BY PassesInvCorrect, PTL
<1>1. WellFormed(ir, instrs, made) /\ ControlOK /\ BehindSettled
  BY DEF PassesInv
<1>2. instrs \in [Block -> Seq(Instr)]
  BY <1>1 DEF WellFormed, WellTyped
<1>3. ASSUME pass = "fold", it > Len(instrs[Bb]), NEW i \in Placed(Second)
      PROVE  ~Foldable(i)
  <2>1. Bb = Second /\ it \in Nat /\ Second \in Block
    BY <1>1, <1>3, ScanFacts, OrderFacts DEF Passes, ControlOK
  <2>2. PICK k \in 1 .. Len(instrs[Second]) : instrs[Second][k] = i
    BY <1>2, <2>1 DEF Placed, In, ToSet
  <2> QED BY <1>1, <1>2, <1>3, <2>1, <2>2 DEF BehindSettled
<1>4. ASSUME pass = "atomic", at > Len(Order), NEW n \in 2 .. Len(Order),
             NEW i \in Placed(Order[n]), Len(ir[i].inputs) = 2
      PROVE  ~Applies(i)
  <2>1. n < at /\ Order[n] \in Block
    BY <1>1, <1>4, OrderFacts DEF ControlOK
  <2>2. PICK k \in 1 .. Len(instrs[Order[n]]) : instrs[Order[n]][k] = i
    BY <1>2, <2>1 DEF Placed, In, ToSet
  <2>3. Settled(i)
    BY <1>1, <1>4, <2>1, <2>2 DEF BehindSettled
  <2> QED BY <1>4, <2>3 DEF Settled, Applies
<1> QED BY <1>3, <1>4 DEF OnePassSuffices

(* In every state of every sequence of passes every check is given, for    *)
(* every loaded word, what the program gave it at the start, as long as no *)
(* value was folded to a wrong one; and what makePeepholes has put aside   *)
(* to be erased are ADDs, so no check.                                     *)
THEOREM MeaningInvCorrect == Spec => []MeaningInv
<1>1. Init => PassesInv /\ MeaningInv
  BY InvStart, MeaningStart
<1>2. PassesInv /\ MeaningInv /\ [Next]_passVars => PassesInv' /\ MeaningInv'
  BY InvStep, MeaningStep
<1> QED BY <1>1, <1>2, PTL DEF Spec

(* The passes keep the meaning of the program, for any words, blocks,      *)
(* order and well-formed program: the constants that are folded, the sums  *)
(* that are put together, the zeros, the shifts and what is erased.        *)
THEOREM MeaningKeptCorrect == Spec => []MeaningKept
<1>1. MeaningInv => MeaningKept
  BY DEF MeaningInv
<1> QED BY <1>1, MeaningInvCorrect, PTL
=============================================================================
