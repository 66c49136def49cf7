----------------------------- MODULE BasicBlock -----------------------------
(***************************************************************************)
(* Instructions and the basic blocks that hold them (src/instruction.cc,   *)
(* src/basicblock.cpp).  Three doubly kept relations meet here: a block    *)
(* lists its instructions and each of them points at its block; neighbours *)
(* in the list point at each other (m_prev, m_next); and an instruction    *)
(* lists its inputs, which list it as a user.  Every operation is a set of *)
(* assignments to one side or both, so what can be wrong is that the two   *)
(* sides disagree.                                                         *)
(*                                                                         *)
(* Instructions have unique ids (InstrManager) and stand for them.  Of the *)
(* lists of inputs and users the order is left out: inputs[i][e] tells how *)
(* often e is an input of i, users[e][i] how often i is a user of e.       *)
(***************************************************************************)
EXTENDS SequencesExt

CONSTANTS Instr,        \* the instructions created
          Block,        \* the basic blocks
          General,      \* the instructions of group GENERAL64
          Null,         \* nullptr
          MaxUses,      \* bound: how often an instruction lists another
          MaxInputs     \* bound: how many inputs an instruction has

ASSUME BlockAssumption ==
  /\ Null \notin Instr /\ Null \notin Block
  /\ General \subseteq Instr
  /\ MaxUses \in Nat /\ MaxInputs \in Nat

VARIABLES instrs,       \* block -> m_instrs
          bb,           \* instruction -> m_bb
          prev, next,   \* instruction -> m_prev, m_next
          inputs, users,\* instruction -> how often it uses / is used by others
          erased,       \* history: the instructions erase_instr was called for
          edited        \* history: those whose inputs a pass edited by hand

lists == <<instrs, bb>>
links == <<prev, next>>
uses  == <<inputs, users>>
past  == <<erased, edited>>
vars  == <<lists, links, uses, past>>

Init ==
  /\ instrs = [b \in Block |-> <<>>]
  /\ bb = [i \in Instr |-> Null]
  /\ prev = [i \in Instr |-> Null] /\ next = [i \in Instr |-> Null]
  /\ inputs = [i \in Instr |-> [e \in Instr |-> 0]]
  /\ users = [i \in Instr |-> [e \in Instr |-> 0]]
  /\ erased = {} /\ edited = {}

-----------------------------------------------------------------------------
(* DATA FLOW *)

(* push_user of the input is the same step, and push_inputs and push_users *)
(* are runs of it.                                                         *)
push_input(i, e) ==
  /\ inputs[i][e] < MaxUses /\ users[e][i] < MaxUses
  /\ Cardinality(UNION {{x} \X (1 .. inputs[i][x]) : x \in Instr}) < MaxInputs
  /\ inputs' = [inputs EXCEPT ![i][e] = @ + 1]
  /\ users' = [users EXCEPT ![e][i] = @ + 1]
  /\ UNCHANGED <<lists, links, past>>

(* Mutant: remove(this) is left out.                                       *)
erase_inputHere(i, b, e) ==
  /\ \A x \in Instr : inputs[i][x] > 0 => bb[x] # Null
  /\ inputs[i][e] > 0 /\ bb[e] = b
  /\ inputs' = [inputs EXCEPT ![i][e] = 0]
  /\ UNCHANGED <<lists, links, users, past>>

(* Every occurrence of the input with id e of block b goes, on both sides. *)
(* An input without block is an assertion failure, whichever is asked for; *)
(* the call returns false when there is nothing to erase.                  *)
erase_input(i, b, e) ==
  /\ \A x \in Instr : inputs[i][x] > 0 => bb[x] # Null
  /\ inputs[i][e] > 0 /\ bb[e] = b
  /\ inputs' = [inputs EXCEPT ![i][e] = 0]
  /\ users' = [users EXCEPT ![e][i] = 0]
  /\ UNCHANGED <<lists, links, past>>

erase_user(e, b, i) ==
  /\ \A x \in Instr : users[e][x] > 0 => bb[x] # Null
  /\ users[e][i] > 0 /\ bb[i] = b
  /\ users' = [users EXCEPT ![e][i] = 0]
  /\ inputs' = [inputs EXCEPT ![i][e] = 0]
  /\ UNCHANGED <<lists, links, past>>

(* What applyPeephole does to the inputs of an ADD both of which are e:    *)
(* inputs().remove(e) and inputs().push_back(e).  One entry is left, and   *)
(* the users of e are not told.                                            *)
use_once(i, e) ==
  /\ inputs[i] = [x \in Instr |-> IF x = e THEN 2 ELSE 0]
  /\ inputs' = [inputs EXCEPT ![i][e] = 1]
  /\ edited' = edited \cup {i}
  /\ UNCHANGED <<lists, links, users, erased>>

(* Only the instruction forgets; the others still know it.                 *)
forget_dependencies(i) ==
  /\ prev' = [prev EXCEPT ![i] = Null] /\ next' = [next EXCEPT ![i] = Null]
  /\ bb' = [bb EXCEPT ![i] = Null]
  /\ users' = [users EXCEPT ![i] = [e \in Instr |-> 0]]
  /\ inputs' = [inputs EXCEPT ![i] = [e \in Instr |-> 0]]
  /\ UNCHANGED <<instrs, past>>

-----------------------------------------------------------------------------
(* BLOCKS *)

LastOf(b) == IF instrs[b] = <<>> THEN Null ELSE Last(instrs[b])

(* One turn of the loop of push_instrs; a call is a run of turns.  An      *)
(* instruction that is in a block, be it that the list names it twice,     *)
(* throws and leaves what the turns before it did.                         *)
push_instrs(b, i) ==
  /\ bb[i] = Null
  /\ instrs' = [instrs EXCEPT ![b] = Append(@, i)]
  /\ bb' = [bb EXCEPT ![i] = b]
  /\ prev' = [prev EXCEPT ![i] = LastOf(b)]
  /\ next' = [x \in Instr |-> IF x = LastOf(b) THEN i
                              ELSE IF x = i THEN Null ELSE next[x]]
  /\ UNCHANGED <<uses, past>>

(* The turns of the constructor's loop before it meets an id again.        *)
Attached(list) ==
  {k \in 1 .. Len(list) : \A l, m \in 1 .. k : list[l] = list[m] => l = m}

(* The constructor of a block from a list of instructions.  It does not    *)
(* look at m_bb and does not write m_next.  A list that names an           *)
(* instruction twice throws: there is no block then, but the instructions  *)
(* before the second one point at it, and at each other.                   *)
Construct(b, list) ==
  LET before(i) == {k \in Attached(list) : k > 1 /\ list[k] = i}
      reached == {list[k] : k \in Attached(list)}
  IN
  /\ instrs[b] = <<>> /\ \A i \in Instr : bb[i] # b
  /\ instrs' = [instrs EXCEPT ![b] = IF IsInjective(list) THEN list ELSE @]
  /\ bb' = [i \in Instr |-> IF i \in reached THEN b ELSE bb[i]]
  /\ prev' = [i \in Instr |->
                IF i \notin reached THEN prev[i]
                ELSE IF before(i) = {} THEN Null
                ELSE list[(CHOOSE k \in before(i) : TRUE) - 1]]
  /\ UNCHANGED <<next, uses, past>>

(* Mutant: m_bb is not reset.                                              *)
UnlinkInBlock(b, k) ==
  LET i == instrs[b][k] IN
  /\ prev' = [x \in Instr |-> IF x = i THEN Null
                              ELSE IF x = next[i] THEN prev[i] ELSE prev[x]]
  /\ next' = [x \in Instr |-> IF x = i THEN Null
                              ELSE IF x = prev[i] THEN next[i] ELSE next[x]]
  /\ instrs' = [instrs EXCEPT ![b] = RemoveAt(@, k)]
  /\ UNCHANGED bb

(* Mutant: the next instruction keeps its m_prev.                          *)
UnlinkNext(b, k) ==
  LET i == instrs[b][k] IN
  /\ prev' = [prev EXCEPT ![i] = Null]
  /\ next' = [x \in Instr |-> IF x = i THEN Null
                              ELSE IF x = prev[i] THEN next[i] ELSE next[x]]
  /\ bb' = [bb EXCEPT ![i] = Null]
  /\ instrs' = [instrs EXCEPT ![b] = RemoveAt(@, k)]

(* What erase_instr and cut_instr have in common: the neighbours are       *)
(* linked, the instruction leaves the list and forgets its place.          *)
Unlink(b, k) ==
  LET i == instrs[b][k] IN
  /\ prev' = [x \in Instr |-> IF x = i THEN Null
                              ELSE IF x = next[i] THEN prev[i] ELSE prev[x]]
  /\ next' = [x \in Instr |-> IF x = i THEN Null
                              ELSE IF x = prev[i] THEN next[i] ELSE next[x]]
  /\ bb' = [bb EXCEPT ![i] = Null]
  /\ instrs' = [instrs EXCEPT ![b] = RemoveAt(@, k)]

(* Mutant: the users keep it as an input.                                  *)
ForgottenByInputs(i) ==
  /\ users' = [e \in Instr |->
                 [users[e] EXCEPT ![i] = IF inputs[i][e] > 0 THEN 0 ELSE @]]
  /\ UNCHANGED inputs

(* Its inputs forget the instruction as their user, then those that still  *)
(* are its users forget it as their input; it keeps its own lists, but for *)
(* being its own user.                                                     *)
Forgotten(i) ==
  /\ users' = [e \in Instr |->
                 [users[e] EXCEPT ![i] = IF inputs[i][e] > 0 THEN 0 ELSE @]]
  /\ inputs' = [u \in Instr |->
                  [inputs[u] EXCEPT ![i] = IF users'[i][u] > 0 THEN 0 ELSE @]]

(* erase_instr, of an iterator or of the id of an instruction that is in   *)
(* the block; another id returns ID_UNDEF.                                 *)
erase_instr(b, k) ==
  /\ Unlink(b, k)
  /\ Forgotten(instrs[b][k])
  /\ erased' = erased \cup {instrs[b][k]}
  /\ UNCHANGED edited

erase_unused_instr(b, k) ==
  /\ \A u \in Instr : users[instrs[b][k]][u] = 0
  /\ erase_instr(b, k)

cut_instr(b, k) ==
  /\ Unlink(b, k)
  /\ UNCHANGED <<uses, past>>

(* The unused instructions leave the list and nothing else.                *)
removeUnusedInstrs(b) ==
  LET unused == {i \in General : \A u \in Instr : users[i][u] = 0} IN
  /\ instrs' = [instrs EXCEPT ![b] = SelectSeq(@, LAMBDA i : i \notin unused)]
  /\ UNCHANGED <<bb, links, uses, past>>

Singles == {<<i>> : i \in Instr}
Doubles == {<<i, j>> : i, j \in Instr}

Next ==
  \/ \E i, e \in Instr : push_input(i, e)
  \/ \E i, e \in Instr, b \in Block : erase_input(i, b, e) \/ erase_user(e, b, i)
  \/ \E i, e \in Instr : use_once(i, e)
  \/ \E i \in Instr : forget_dependencies(i)
  \/ \E b \in Block, i \in Instr : push_instrs(b, i)
  \/ \E b \in Block, list \in Singles \cup Doubles : Construct(b, list)
  \/ \E b \in Block : \E k \in 1 .. Len(instrs[b]) :
       erase_instr(b, k) \/ erase_unused_instr(b, k) \/ cut_instr(b, k)
  \/ \E b \in Block : removeUnusedInstrs(b)

(* Any calls.                                                              *)
Spec == Init /\ [][Next]_vars

-----------------------------------------------------------------------------
(* THE CONTRACT *)

(* The calls of the passes and tests: an instruction that was erased is    *)
(* not used again, a block is constructed empty or from one instruction    *)
(* that is in no block, and neither forget_dependencies nor                *)
(* removeUnusedInstrs is called.                                           *)
ContractNext ==
  \/ \E i, e \in Instr : {i, e} \cap erased = {} /\ push_input(i, e)
  \/ \E i, e \in Instr, b \in Block : erase_input(i, b, e) \/ erase_user(e, b, i)
  \/ \E i, e \in Instr : bb[i] # Null /\ use_once(i, e)
  \/ \E b \in Block, i \in Instr : i \notin erased /\ push_instrs(b, i)
  \/ \E b \in Block, i \in Instr :
       bb[i] = Null /\ i \notin erased /\ Construct(b, <<i>>)
  \/ \E b \in Block : \E k \in 1 .. Len(instrs[b]) :
       erase_instr(b, k) \/ erase_unused_instr(b, k) \/ cut_instr(b, k)

ContractSpec == Init /\ [][ContractNext]_vars

-----------------------------------------------------------------------------
(* PROPERTIES *)

(* Type invariant.                                                         *)
TypeOK ==
  /\ instrs \in [Block -> Seq(Instr)]
  /\ bb \in [Instr -> Block \cup {Null}]
  /\ prev \in [Instr -> Instr \cup {Null}]
  /\ next \in [Instr -> Instr \cup {Null}]
  /\ inputs \in [Instr -> [Instr -> 0 .. MaxUses]]
  /\ users \in [Instr -> [Instr -> 0 .. MaxUses]]
  /\ erased \in SUBSET Instr /\ edited \in SUBSET Instr

(* A block lists exactly the instructions that point at it, each once, so  *)
(* that no instruction is in two places.                                   *)
Placed ==
  /\ \A b \in Block : IsInjective(instrs[b])
  /\ \A i \in Instr, b \in Block : bb[i] = b <=> i \in Range(instrs[b])

(* Neighbours in a block point at each other, the ends at nothing, and so  *)
(* does an instruction that is in no block.                                *)
Linked ==
  /\ \A b \in Block : \A k \in 1 .. Len(instrs[b]) :
       /\ prev[instrs[b][k]] = IF k = 1 THEN Null ELSE instrs[b][k - 1]
       /\ next[instrs[b][k]] =
            IF k = Len(instrs[b]) THEN Null ELSE instrs[b][k + 1]
  /\ \A i \in Instr : bb[i] = Null => prev[i] = Null /\ next[i] = Null

(* Definitions and uses agree: of two instructions that were not erased    *)
(* one is listed as input as often as the other is listed as user, and     *)
(* nothing lists an erased one, although that keeps its own lists.  Where  *)
(* a pass edited the inputs by hand the user may be listed more often, but *)
(* it is listed if and only if it still uses the other.                    *)
DefUse ==
  \A i \in Instr \ erased, e \in Instr :
    IF e \in erased
      THEN inputs[i][e] = 0 /\ users[i][e] = 0
      ELSE \/ inputs[i][e] = users[e][i]
           \/ i \in edited /\ 0 < inputs[i][e] /\ inputs[i][e] < users[e][i]

(* InstrBase::throwIfWrongDeps_ of an instruction that is in a block.      *)
WrongDeps(i) ==
  \/ \E e \in Instr : inputs[i][e] > 0 /\ (bb[e] = Null \/ users[e][i] = 0)
  \/ \E u \in Instr : users[i][u] > 0 /\ (bb[u] = Null \/ inputs[u][i] = 0)
  \/ prev[i] # Null /\ next[prev[i]] # i
  \/ next[i] # Null /\ prev[next[i]] # i

(* BasicBlock::throwIfNotConsistent_; the number of inputs an opcode wants *)
(* is left out.                                                            *)
Throws(b) ==
  \E k \in 1 .. Len(instrs[b]) :
    LET i == instrs[b][k] IN
    WrongDeps(i) \/ bb[i] # b \/ \E l \in 1 .. k - 1 : instrs[b][l] = i

(* The self-check of a block fires only for an instruction that uses, or   *)
(* is used by, one that is in no block: one that was cut, or not put in a  *)
(* block yet, and never one that was erased.                               *)
OnlyLooseUsesThrow ==
  \A b \in Block :
    Throws(b) =>
      \E i \in Range(instrs[b]), x \in Instr \ erased :
        bb[x] = Null /\ (inputs[i][x] > 0 \/ users[i][x] > 0)

(* "copy instrs by ptr & create internal CF connections"                   *)
(* (include/basicblock.hpp:33): the block that the constructor makes has   *)
(* its neighbours linked in both directions.                               *)
InternalConnections ==
  \A b \in Block : \A k \in 1 .. Len(instrs[b]) - 1 :
    /\ next[instrs[b][k]] = instrs[b][k + 1]
    /\ prev[instrs[b][k + 1]] = instrs[b][k]
=============================================================================
