-------------------------------- MODULE Passes --------------------------------
(***************************************************************************)
(* The three passes of include/constFoldProp.hpp: doConstFoldProp,         *)
(* doPeepholes and doAtomicPeepholes.  Each walks over blocks and changes  *)
(* them under its own iterator: instructions are folded to constants and   *)
(* moved to the header block, operands are re-linked around an instruction *)
(* that is erased later, constants are created and unused ones erased.     *)
(* The passes may be called in any order and again.                        *)
(*                                                                         *)
(* BasicBlock models the calls that edit blocks and def-use lists; here    *)
(* the links m_prev and m_next and the pointer m_bb, which follow the      *)
(* lists (Linked and Placed there), are left out, and the passes only ask  *)
(* of a user list which instructions are in it.  Inputs keep their order.  *)
(* Words are 0 .. Size - 1, in two's complement.                           *)
(***************************************************************************)
EXTENDS Integers, FiniteSets, SequencesExt

CONSTANTS Block,        \* the keys of the basic blocks
          Header,       \* the key of the header block
          Order,        \* RPO from the header
          MaxInstr,     \* bound: the ids InstrManager may give out
          Programs,     \* [ir, instrs, made]: programs to run the passes on
          Size, IntSize \* how many values int64_t has, and int

Instr == 1 .. MaxInstr
Word  == 0 .. Size - 1
Binary == {"ADD", "AND", "XOR", "SHL"}

-----------------------------------------------------------------------------
(* PROGRAMS: p gives every instruction its opcode, type, value, inputs and *)
(* users, l gives every block its list of instructions.                    *)

Operands(p, i) == ToSet(p[i].inputs)
In(l, b) == ToSet(l[b])
AllIn(l) == UNION {In(l, b) : b \in Block}

(* Inputs and users agree among the instructions that are in a block, and  *)
(* none is in two places.                                                  *)
Agree(p, l) ==
  /\ \A b \in Block : IsInjective(l[b])
  /\ \A b, c \in Block : b # c => In(l, b) \cap In(l, c) = {}
  /\ \A i, e \in AllIn(l) : e \in Operands(p, i) <=> i \in p[e].users
  /\ \A i \in AllIn(l) : Operands(p, i) \cup p[i].users \subseteq AllIn(l)

Before(list, e, i) ==
  \E j, k \in 1 .. Len(list) : j < k /\ list[j] = e /\ list[k] = i

(* Every operand is in the header, or in a block that comes earlier in     *)
(* Order, or stands before its user in the same list.                      *)
Ordered(p, l) ==
  \A n \in 2 .. Len(Order) : \A i \in In(l, Order[n]) : \A e \in Operands(p, i) :
    \/ e \in In(l, Header)
    \/ \E m \in 2 .. n - 1 : e \in In(l, Order[m])
    \/ Before(l[Order[n]], e, i)

(* Within one list this holds of blocks that are not in Order as well.     *)
OrderedInside(p, l) ==
  \A b \in Block \ {Header} : \A i, e \in In(l, b) :
    e \in Operands(p, i) => Before(l[b], e, i)

(* throwIfWrongInputCount_.                                                *)
WrongInputCount(p, i) ==
  \/ p[i].opcd \in Binary /\ Len(p[i].inputs) # 2
  \/ p[i].opcd = "CHECK" /\ Len(p[i].inputs) # 1
  \/ p[i].opcd = "ICONST" /\ p[i].inputs # <<>>

(* BbGraph::throwIfNotConsistent, of instruction i; throwIfWrongDeps_ is   *)
(* in Agree.                                                               *)
Throws(p, l, i) ==
  (i \in In(l, Header) /\ p[i].type # "CONST") \/ WrongInputCount(p, i)

(* An ADD whose operands went to its only user and that was not erased,    *)
(* because that user is in another block.                                  *)
Stripped(p, i) == p[i].opcd = "ADD" /\ p[i].inputs = <<>> /\ p[i].users = {}

(* What the code that builds a program sees to, and what a pass leaves.    *)
WellTyped(p, l, m) ==
  /\ p = [i \in Instr |-> [opcd |-> p[i].opcd, type |-> p[i].type, val |-> p[i].val,
                          inputs |-> p[i].inputs, users |-> p[i].users]]
  /\ \A i \in Instr : p[i].inputs \in Seq(Instr) /\ p[i].users \subseteq Instr
  /\ l \in [Block -> Seq(Instr)]
  /\ m \in 0 .. MaxInstr /\ AllIn(l) \subseteq 1 .. m
WellFormed(p, l, m) ==
  /\ WellTyped(p, l, m)
  /\ Agree(p, l) /\ Ordered(p, l) /\ OrderedInside(p, l)
  /\ \A i \in AllIn(l) : Throws(p, l, i) => Stripped(p, i)

(* InstrManager makes only ICONST constants; a binary operation that is one *)
(* was folded, which took it to the header.                                *)
Valued(p, l) ==
  \A i \in AllIn(l) :
    /\ p[i].val \in Nat
    /\ p[i].type = "CONST" => /\ p[i].opcd # "CHECK"
                              /\ p[i].opcd \in Binary => i \in In(l, Header)

(* Two blocks at least: doConstFoldProp steps to the second key without    *)
(* asking for it.  The header is the first in both orders.                 *)
ASSUME PassesAssumption ==
  /\ Block \subseteq Nat /\ Header \in Block
  /\ \A b \in Block : Header <= b
  /\ \E b \in Block : b # Header
  /\ Order \in Seq(Block) /\ Order # <<>> /\ Order[1] = Header
  /\ IsInjective(Order)
  /\ MaxInstr \in Nat /\ Size \in Nat \ {0} /\ IntSize \in 1 .. Size
  /\ \E k \in 1 .. Size : Size = 2^k
  /\ \E k \in 1 .. IntSize : IntSize = 2^k

ASSUME ProgramsAssumption ==
  \A q \in Programs : WellFormed(q.ir, q.instrs, q.made) /\ Valued(q.ir, q.instrs)

VARIABLES ir,           \* instruction -> [opcd, type, val, inputs, users]
          instrs,       \* block -> m_instrs
          made,         \* InstrManager: the ids given out so far
          pass,         \* the pass under way, "idle", or "aborted"
          at, it,       \* the iterators over Order and over m_instrs
          odd,          \* oddInstrs
          keys,         \* removeUnusedConsts: the keys still to be erased
          gap,          \* history: SHL folded, or a sum lost, to another value
          meaning       \* history: what the CHECKs were given at the start

program  == <<ir, instrs, made>>
control  == <<pass, at, it, odd, keys>>
passVars == <<program, control, gap, meaning>>

-----------------------------------------------------------------------------
(* VALUES *)

(* Bit by bit from the lowest; with 0, and of equal words, & and ^ are 0.  *)
BitAnd(v, w) ==
  LET and[p \in Nat \X Nat] ==
        IF p[1] = 0 \/ p[2] = 0 THEN 0
        ELSE 2 * and[<<p[1] \div 2, p[2] \div 2>>] + (p[1] % 2) * (p[2] % 2)
  IN  and[<<v, w>>]
BitXor(v, w) ==
  LET xor[p \in Nat \X Nat] ==
        IF p[1] = p[2] THEN 0
        ELSE 2 * xor[<<p[1] \div 2, p[2] \div 2>>] + ((p[1] + p[2]) % 2)
  IN  xor[<<v, w>>]
Shifted(v, w) ==
  LET shl[k \in Nat] == IF k = 0 THEN v ELSE (2 * shl[k - 1]) % Size
  IN  shl[w]

Operation(opcd, v, w) ==
  CASE opcd = "ADD" -> (v + w) % Size
    [] opcd = "AND" -> BitAnd(v, w)
    [] opcd = "XOR" -> BitXor(v, w)
    [] opcd = "SHL" -> Shifted(v, w)

(* A word that went through a variable of type int: its low bits, with the *)
(* sign extended.                                                          *)
ThroughInt(v) ==
  LET low == v % IntSize
  IN  IF 2 * low < IntSize THEN low ELSE low + (Size - IntSize)

(* What instruction i yields when LOAD reads x and its operands have the   *)
(* values v; without two operands nothing sensible, which 0 stands for.    *)
Yield(p, v, x, i) ==
  CASE p[i].type = "CONST" -> p[i].val
    [] p[i].type # "CONST" /\ p[i].opcd = "LOAD" -> x
    [] p[i].type # "CONST" /\ p[i].opcd \in Binary /\ Len(p[i].inputs) = 2 ->
         Operation(p[i].opcd, v[p[i].inputs[1]], v[p[i].inputs[2]])
    [] OTHER -> 0

(* The code that is reached from the header, and what it computes.         *)
Live(l) == UNION {In(l, Order[n]) : n \in 1 .. Len(Order)}

Value(p, l, x) ==
  LET v[i \in Live(l)] == Yield(p, v, x, i) IN v

Checks(p, l) == {i \in Live(l) : p[i].opcd = "CHECK"}

(* What the checks of a program are given, for every loaded word.          *)
Meaning(p, l) ==
  [x \in Word |-> LET v == Value(p, l, x)
                  IN  [i \in Checks(p, l) |-> v[p[i].inputs[1]]]]

Init ==
  /\ \E p \in Programs : ir = p.ir /\ instrs = p.instrs /\ made = p.made
  /\ pass = "idle" /\ at = 1 /\ it = 1 /\ odd = <<>> /\ keys = {}
  /\ gap = FALSE
  /\ meaning = Meaning(ir, instrs)

-----------------------------------------------------------------------------
(* WHAT THE PASSES DO TO A PROGRAM *)

Const(v, U) == [opcd |-> "ICONST", type |-> "CONST", val |-> v,
                inputs |-> <<>>, users |-> U]
IsConst(i) == ir[i].type = "CONST"
Placed(b) == In(instrs, b)
Alive == AllIn(instrs)
Uses(i) == Operands(ir, i)

(* Mutant: nobody forgets what is erased.                                  *)
ForgottenNot(e) == ir

(* BasicBlock::erase_instr: the inputs and the users of e forget it, it    *)
(* keeps its own lists.                                                    *)
Forgotten(e) ==
  [k \in Instr |->
     [ir[k] EXCEPT !.users = IF k \in Uses(e) THEN @ \ {e} ELSE @,
                   !.inputs = IF k \in ir[e].users
                              THEN SelectSeq(@, LAMBDA d : d # e) ELSE @]]

Without(b, i) == [instrs EXCEPT ![b] = RemoveFirst(@, i)]

(* Mutant: cut, and never pushed.                                          *)
MovedAway(b, i) == Without(b, i)

(* cut_instr from block b, and push_instrs to the header.                  *)
MovedToHead(b, i) ==
  [instrs EXCEPT ![b] = RemoveFirst(@, i), ![Header] = Append(@, i)]

(* calcConstants: the value of an operation on constants, and the one that *)
(* is stored.  SHL has no case, the value it was made with stays.          *)
OfConstants(i) ==
  Operation(ir[i].opcd, ir[ir[i].inputs[1]].val, ir[ir[i].inputs[2]].val)
Folded(i) ==
  IF ir[i].opcd \in {"ADD", "AND", "XOR"} THEN OfConstants(i) ELSE ir[i].val

Foldable(i) == \A e \in Uses(i) : IsConst(e)

(* Mutant: any number of users will do.                                    *)
OnlyUserAny(e, i) == ir[e].users # {}

OnlyUser(e, i) == ir[e].users = {i}

(* The conditions of makePeepholes, for i = e + c with e = x + d.  XOR     *)
(* passes its first test and fails the later one, AND the other way round. *)
Reducible(i) ==
  /\ ir[i].opcd = "ADD"
  /\ LET e == ir[i].inputs[1] IN
     /\ ir[e].opcd = "ADD" /\ ~IsConst(e) /\ IsConst(ir[i].inputs[2])
     /\ OnlyUser(e, i)
     /\ ~(IsConst(ir[e].inputs[1]) <=> IsConst(ir[e].inputs[2]))

(* What detachInputsFromArg returns: the other input, and the constant.    *)
Detachable(e) ==
  LET a == ir[e].inputs[1]
      b == ir[e].inputs[2]
  IN  IF IsConst(a) THEN <<b, a>> ELSE <<a, b>>

(* The rewriting: e = x + d loses its inputs, i = e + c becomes x + new.   *)
Detached(i, e, x, c, d, new) ==
  [k \in Instr |->
     CASE k = i -> [ir[i] EXCEPT !.inputs = <<x, new>>]
       [] k = e -> [ir[e] EXCEPT !.inputs = <<>>, !.users = @ \ {i}]
       [] k = x -> [ir[x] EXCEPT !.users = (@ \ {e}) \cup {i}]
       [] k = new -> Const(ThroughInt(ir[c].val + ir[d].val), {i})
       [] OTHER -> [ir[k] EXCEPT !.users =
                      (IF k = d THEN @ \ {e} ELSE @) \ (IF k = c THEN {i} ELSE {})]]

(* applyPeephole, XOR a, a and AND with a constant 0.  A second constant   *)
(* is not looked at.                                                       *)
Zero(e) == IsConst(e) /\ ir[e].val = 0
IsZero(i) ==
  \/ ir[i].opcd = "XOR" /\ ir[i].inputs[1] = ir[i].inputs[2]
  \/ /\ ir[i].opcd = "AND"
     /\ \/ Zero(ir[i].inputs[1])
        \/ ~IsConst(ir[i].inputs[1]) /\ Zero(ir[i].inputs[2])

(* applyPeephole, ADD a, a.                                                *)
IsDouble(i) == ir[i].opcd = "ADD" /\ ir[i].inputs[1] = ir[i].inputs[2]

-----------------------------------------------------------------------------
(* THE LOOPS *)

(* doConstFoldProp works on the second block in the order of the keys, the *)
(* other passes on all blocks after the first in RPO.                      *)
Second == CHOOSE b \in Block \ {Header} : \A c \in Block \ {Header} : b <= c
Bb == IF at = 1 THEN Second ELSE Order[at]
Current == instrs[Bb][it]

Passes == {"fold", "peep", "atomic"}
Scanning(p) ==
  /\ p \in Passes /\ pass = p
  /\ at <= Len(Order) /\ it <= Len(instrs[Bb])

Call(p) ==
  /\ pass = "idle"
  /\ pass' = p /\ at' = (IF p = "fold" THEN 1 ELSE 2) /\ it' = 1 /\ odd' = <<>>
  /\ UNCHANGED <<program, keys, gap, meaning>>

(* The passes that want two operands: doConstFoldProp of every             *)
(* instruction, doPeepholes of ADD and XOR, both by an assertion, and      *)
(* doAtomicPeepholes reads the ends of the list for ADD, AND and XOR.      *)
WantsTwo(i) ==
  \/ pass = "fold"
  \/ pass = "peep" /\ ir[i].opcd \in {"ADD", "XOR"}
  \/ pass = "atomic" /\ ir[i].opcd \in {"ADD", "XOR", "AND"}

(* An assertion fails, or an empty list is read, and the program stops.    *)
Abort ==
  /\ Scanning(pass)
  /\ WantsTwo(Current) /\ Len(ir[Current].inputs) # 2
  /\ pass' = "aborted"
  /\ UNCHANGED <<program, at, it, odd, keys, gap, meaning>>

Applies(i) ==
  \/ pass = "fold" /\ Foldable(i)
  \/ pass = "peep" /\ Reducible(i)
  \/ pass = "atomic" /\ (IsZero(i) \/ IsDouble(i))

(* The instruction stays as it is.                                         *)
Keep ==
  /\ Scanning(pass)
  /\ ~WantsTwo(Current) \/ (Len(ir[Current].inputs) = 2 /\ ~Applies(Current))
  /\ it' = it + 1
  /\ UNCHANGED <<program, pass, at, odd, keys, gap, meaning>>

(* Mutant: the iterator that cut_instr returned is advanced.               *)
AtFollowingPast == it' = it + 1 /\ UNCHANGED <<pass, at, odd, keys>>

(* it = cut.first: the following instruction has the place of the cut one. *)
AtFollowing == UNCHANGED control

(* doConstFoldProp and calcConstants: the instruction is a constant now    *)
(* and leaves for the header, the iterator is at the next one.             *)
Fold ==
  /\ Scanning("fold")
  /\ LET i == Current IN
     /\ Len(ir[i].inputs) = 2 /\ Foldable(i)
     /\ ir' = [ir EXCEPT ![i].type = "CONST", ![i].val = Folded(i)]
     /\ instrs' = MovedToHead(Bb, i)
     /\ gap' = (gap \/ ir[i].opcd \notin Binary \/ Folded(i) # OfConstants(i))
  /\ AtFollowing
  /\ UNCHANGED <<made, meaning>>

(* makePeepholes: I2 = (I0 + C0) + C1 becomes I2 = I0 + C2.                *)
Reduce ==
  /\ Scanning("peep") /\ made < MaxInstr
  /\ LET i == Current
         e == ir[i].inputs[1]
         c == ir[i].inputs[2]
         x == Detachable(e)[1]
         d == Detachable(e)[2]
         sum == ir[c].val + ir[d].val
     IN
     /\ Len(ir[i].inputs) = 2 /\ Reducible(i)
     /\ ir' = Detached(i, e, x, c, d, made + 1)
     /\ odd' = Append(odd, e)
     /\ gap' = (gap \/ ThroughInt(sum) # sum % Size)
  /\ instrs' = [instrs EXCEPT ![Header] = Append(@, made + 1)]
  /\ made' = made + 1 /\ it' = it + 1
  /\ UNCHANGED <<pass, at, keys, meaning>>

(* applyPeephole: the instruction is 0 and leaves for the header.          *)
MakeZero ==
  /\ Scanning("atomic")
  /\ LET i == Current IN
     /\ Len(ir[i].inputs) = 2 /\ IsZero(i)
     /\ ir' = [ir EXCEPT ![i].type = "CONST", ![i].val = 0]
     /\ instrs' = MovedToHead(Bb, i)
  /\ AtFollowing
  /\ UNCHANGED <<made, gap, meaning>>

(* applyPeephole: ADD a, a becomes SHL a, 1, with a new constant.          *)
MakeShift ==
  /\ Scanning("atomic") /\ made < MaxInstr
  /\ LET i == Current IN
     /\ Len(ir[i].inputs) = 2 /\ IsDouble(i)
     /\ ir' = [ir EXCEPT ![i].opcd = "SHL", ![i].inputs = <<@[1], made + 1>>,
                         ![made + 1] = Const(1, {i})]
  /\ instrs' = [instrs EXCEPT ![Header] = Append(@, made + 1)]
  /\ made' = made + 1 /\ it' = it + 1
  /\ UNCHANGED <<pass, at, odd, keys, gap, meaning>>

(* Mutant: oddInstrs.pop_back() is forgotten.                              *)
PoppedNot(s) == s

Popped(s) == Front(s)

(* The block is done: its odd instructions are erased, the last first, as  *)
(* far as they are in this block and unused.                               *)
EraseOdd ==
  /\ pass = "peep" /\ at <= Len(Order) /\ it > Len(instrs[Bb]) /\ odd # <<>>
  /\ odd' = Popped(odd)
  /\ LET e == Last(odd) IN
     IF e \in Placed(Bb) /\ ir[e].users = {}
     THEN ir' = Forgotten(e) /\ instrs' = Without(Bb, e)
     ELSE UNCHANGED <<ir, instrs>>
  /\ it' = Len(instrs'[Bb]) + 1
  /\ UNCHANGED <<made, pass, at, keys, gap, meaning>>

NextBlock ==
  /\ pass \in {"peep", "atomic"} /\ at <= Len(Order)
  /\ it > Len(instrs[Bb]) /\ odd = <<>>
  /\ at' = at + 1 /\ it' = 1
  /\ UNCHANGED <<program, pass, odd, keys, gap, meaning>>

(* Mutant: the users are not looked at.                                    *)
UnusedConstsAll == {i \in Placed(Header) : IsConst(i)}

UnusedConsts == {i \in Placed(Header) : IsConst(i) /\ ir[i].users = {}}

(* BbGraph::removeUnusedConsts: the unused constants of the header are     *)
(* found first and erased then, one by one.  Which comes first makes no    *)
(* difference to the others.                                               *)
FindUnusedConsts ==
  /\ pass = "peep" /\ at > Len(Order)
  /\ pass' = "consts" /\ keys' = UnusedConsts
  /\ UNCHANGED <<program, at, it, odd, gap, meaning>>

EraseConst ==
  /\ pass = "consts"
  /\ \E key \in keys :
       /\ ir' = Forgotten(key) /\ instrs' = Without(Header, key)
       /\ keys' = keys \ {key}
  /\ UNCHANGED <<made, pass, at, it, odd, gap, meaning>>

Return ==
  /\ \/ pass = "fold" /\ it > Len(instrs[Bb])
     \/ pass = "atomic" /\ at > Len(Order)
     \/ pass = "consts" /\ keys = {}
  /\ pass' = "idle" /\ at' = 1 /\ it' = 1
  /\ UNCHANGED <<program, odd, keys, gap, meaning>>

Step == \/ Abort \/ Keep \/ Fold \/ Reduce \/ MakeZero \/ MakeShift
        \/ EraseOdd \/ NextBlock \/ FindUnusedConsts \/ EraseConst \/ Return
Next == Step \/ \E p \in Passes : Call(p)

(* One thread runs a pass to its end; nothing obliges it to start one.     *)
Spec == Init /\ [][Next]_passVars /\ WF_passVars(Step)

-----------------------------------------------------------------------------
(* PROPERTIES *)

(* The passes keep the meaning of the program: what every check is given   *)
(* is the same in every state, for every loaded word, as long as no value  *)
(* was folded to a wrong one.                                              *)
MeaningKept == ~gap => Meaning(ir, instrs) = meaning

(* A value is folded to a wrong one in two ways only, both in arithmetic:  *)
(* a sum does not fit the int it goes through, or a SHL of constants was   *)
(* folded.  "calculate all conostants and move all middle or end results   *)
(* in head as constants" (include/constFoldProp.hpp:35) promises more.     *)
MeaningAlwaysKept == pass = "idle" => Meaning(ir, instrs) = meaning

(* Every operand that an instruction still reads is in the header or       *)
(* stands before it, in every state of every pass.                         *)
OperandsBefore == Ordered(ir, instrs)

(* Inputs and users agree among the instructions that are in a block, and  *)
(* none is in two places, in every state of every pass.                    *)
DefUse == Agree(ir, instrs)

(* The self-check of the graph accepts what the passes leave, and no       *)
(* assertion stops a pass, except for a stripped ADD, or where             *)
(* doConstFoldProp meets an instruction without two operands.              *)
OnlyStrippedStop ==
  /\ pass = "idle" => \A i \in Alive : Throws(ir, instrs, i) => Stripped(ir, i)
  /\ pass = "aborted" => 
       Stripped(ir, Current) \/ (at = 1 /\ ~Throws(ir, instrs, Current))

(* One pass is enough: where it went through, nothing is left that it      *)
(* would change.                                                           *)
OnePassSuffices ==
  /\ pass = "fold" /\ it > Len(instrs[Bb]) =>
       \A i \in Placed(Second) : ~Foldable(i)
  /\ pass = "atomic" /\ at > Len(Order) =>
       \A n \in 2 .. Len(Order) : \A i \in Placed(Order[n]) :
         Len(ir[i].inputs) = 2 => ~Applies(i)

(* Every pass ends.                                                        *)
PassReturns == pass # "idle" ~> pass \in {"idle", "aborted"}
=============================================================================
