------------------------------- MODULE MCPasses -------------------------------
(***************************************************************************)
(* Programs for Passes: a header with two constants, a load, two or three  *)
(* operations and a check of the last one, spread over two blocks.  Every  *)
(* operation is used, operands are defined before.                         *)
(***************************************************************************)
EXTENDS Passes, Bitwise

(* BitAnd, BitXor and Shifted are the operations on words that they stand  *)
(* for, and ThroughInt keeps what an int can hold, negative or not.        *)
ASSUME OperationsOnWords ==
  /\ \A v, w \in Word : BitAnd(v, w) = v & w /\ BitXor(v, w) = v ^^ w
  /\ \A v \in Word, w \in 0 .. 7 : Shifted(v, w) = (v * 2^w) % Size
  /\ \A v \in -(IntSize \div 2) .. (IntSize \div 2) - 1 : ThroughInt(v % Size) = v % Size

const_Block == 1 .. 3
const_Order == <<1, 2, 3>>

Instruction(opcd, type, val, inputs) ==
  [opcd |-> opcd, type |-> type, val |-> val, inputs |-> inputs, users |-> {}]
Nothing == Instruction("", "", 0, <<>>)
Bin(b) == Instruction(b[1], "GENERAL64", 0, <<b[2], b[3]>>)

(* The constants v[1], v[2], the load, the operations, the check; the load *)
(* goes to block l and operation k to block w[k].                          *)
Program(v, bins, l, w) ==
  LET n == Len(bins)
      list(b) == (IF l = b THEN <<3>> ELSE <<>>)
                 \o SelectSeq([k \in 1 .. n |-> k + 3], LAMBDA i : w[i - 3] = b)
      p == <<Const(v[1], {}), Const(v[2], {}), Instruction("LOAD", "GENERAL64", 0, <<>>)>>
           \o [k \in 1 .. n |-> Bin(bins[k])]
           \o <<Instruction("CHECK", "CHECK", 0, <<n + 3>>)>>
      users(e) == {i \in 1 .. n + 4 : e \in ToSet(p[i].inputs)}
  IN  [ir |-> [e \in 1 .. n + 4 |-> [p[e] EXCEPT !.users = users(e)]]
              \o [k \in 1 .. MaxInstr - n - 4 |-> Nothing],
       instrs |-> <<<<1, 2>>, list(2), Append(list(3), n + 4)>>,
       made |-> n + 4]

Operations(opcds, refs) == {<<o, a, b>> : o \in opcds, a \in refs, b \in refs}
Reads(op, k) == op[2] = k \/ op[3] = k

Pairs(v, l) ==
  {Program(v, <<p, q>>, l, w) :
     p \in Operations(Binary, 1 .. 3),
     q \in {o \in Operations(Binary, 1 .. 4) : Reads(o, 4)},
     w \in {<<2, 2>>, <<2, 3>>, <<3, 3>>}}
Triples(l) ==
  {Program(<<1, 1>>, <<p, q, r>>, l, w) :
     p \in Operations({"ADD"}, {1, 3}),
     q \in {o \in Operations({"ADD", "XOR"}, 2 .. 4) : Reads(o, 4)},
     r \in {o \in Operations({"ADD"}, {1, 4, 5}) : Reads(o, 5)},
     w \in {<<2, 2, 2>>, <<2, 2, 3>>, <<2, 3, 3>>}}

(* The load does not come after its first use.                             *)
LoadFirst(p) ==
  3 \in ToSet(p.instrs[3]) =>
    \A i \in ToSet(p.instrs[2]) : 3 \notin {p.ir[i].inputs[k] : k \in DOMAIN p.ir[i].inputs}

const_Programs ==
  {p \in Pairs(<<1, 3>>, 3) \cup Pairs(<<0, 1>>, 2) \cup Triples(2) \cup Triples(3) :
     LoadFirst(p)}
=============================================================================
