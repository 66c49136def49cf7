--------------------------- MODULE CheckElimination ---------------------------
(***************************************************************************)
(* doCheckElimination (include/checkElimination.hpp:39-78): the pass that  *)
(* removes a CHECK instruction when an equal one was executed on every way *)
(* to it.                                                                  *)
(*                                                                         *)
(* It composes two answers of the graph: the order of RPO, of which it     *)
(* needs only what Rpo proves (every reachable block once, dominators      *)
(* first), and is_a_dominates_b, which is the relation Dominates           *)
(* (Dominance!DominatesEveryPath).  Blocks are node keys.  A check is its  *)
(* number in the layout of the program, so that two checks of one block    *)
(* stand in the order of their numbers; its opcode and input list are its  *)
(* signature.  Other instructions never stop or move the pass.             *)
(***************************************************************************)
EXTENDS Reach, SequencesExt

CONSTANTS Check,        \* CHECK instructions
          Sig,          \* opcode and inputs of a check
          Graphs        \* control-flow graphs, each with what RPO returns

ASSUME CheckAssumption == Check \subseteq Nat /\ IsFiniteSet(Check)

(* What RPO(header) can return: Rpo!NoRepeats, ListsReachable and          *)
(* DominatorsFirst.                                                        *)
RpoSequence(S, h, s) ==
  /\ s \in Seq(Node)
  /\ \A i, j \in 1 .. Len(s) : s[i] = s[j] => i = j
  /\ {s[i] : i \in 1 .. Len(s)} = Reach(S, h)
  /\ \A j \in 1 .. Len(s), a \in Node :
       Dominates(S, h, a, s[j]) => \E i \in 1 .. j : s[i] = a

ASSUME GraphsAssumption ==
  \A g \in Graphs :
    /\ g.header \in Node
    /\ g.succ \in [Node -> SUBSET Node]
    /\ RpoSequence(g.succ, g.header, g.rpo)

VARIABLES succ, header, \* the graph and its header block
          sequence,     \* the result of RPO(header)
          bb,           \* check -> its block
          sig,          \* check -> its signature
          instrs,       \* the checks that are still in m_instrs of their block
          checks,       \* the list of checks under comparison
          prev, cur,    \* prevCheckIt and currentCheckIt, as positions
          pc            \* "start", "scan", "done"

program  == <<succ, header, sequence, bb, sig>>
passVars == <<program, instrs, checks, prev, cur, pc>>

Init ==
  /\ \E g \in Graphs :
       succ = g.succ /\ header = g.header /\ sequence = g.rpo
  /\ bb \in [Check -> Node] /\ sig \in [Check -> Sig]
  /\ instrs = Check
  /\ checks = <<>>
  /\ prev = 1 /\ cur = 2
  /\ pc = "start"

Collected == {c \in Check : \E i \in 1 .. Len(sequence) : sequence[i] = bb[c]}

(* c is met before d in the loop over the blocks and their instructions.   *)
Before(c, d) ==
  \/ bb[c] = bb[d] /\ c < d
  \/ \E i, j \in 1 .. Len(sequence) :
       i < j /\ sequence[i] = bb[c] /\ sequence[j] = bb[d]

(* The checks of the blocks in sequence, in the order of the loop.         *)
Collect ==
  /\ pc = "start"
  /\ \E list \in [1 .. Cardinality(Collected) -> Collected] :
       /\ {list[i] : i \in DOMAIN list} = Collected
       /\ \A i, j \in DOMAIN list : i < j => Before(list[i], list[j])
       /\ checks' = list
  /\ pc' = "scan"
  /\ UNCHANGED <<program, instrs, prev, cur>>

(* Mutant: domination is not asked for.                                    *)
dominativeCheckAnalysisEqual(p, c) == sig[p] = sig[c]

(* dominativeCheckAnalysis.                                                *)
dominativeCheckAnalysis(p, c) ==
  /\ sig[p] = sig[c]
  /\ bb[p] = bb[c] \/ Dominates(succ, header, bb[p], bb[c])

(* Mutant: the result of checks.erase is moved once more.                  *)
EraseAndMove ==
  /\ pc = "scan" /\ cur <= Len(checks)
  /\ dominativeCheckAnalysis(checks[prev], checks[cur])
  /\ instrs' = instrs \ {checks[cur]}
  /\ checks' = RemoveAt(checks, cur)
  /\ prev' = 1 /\ cur' = cur + 1
  /\ UNCHANGED <<program, pc>>

(* Mutant: the check stays in the list.                                    *)
EraseFromBlock ==
  /\ pc = "scan" /\ cur <= Len(checks)
  /\ dominativeCheckAnalysis(checks[prev], checks[cur])
  /\ instrs' = instrs \ {checks[cur]}
  /\ prev' = 1
  /\ UNCHANGED <<program, checks, cur, pc>>

(* One turn of the while loop: the current check goes, from its block and  *)
(* from the list, and the comparison starts again with the next one.       *)
Erase ==
  /\ pc = "scan" /\ cur <= Len(checks)
  /\ dominativeCheckAnalysis(checks[prev], checks[cur])
  /\ instrs' = instrs \ {checks[cur]}
  /\ checks' = RemoveAt(checks, cur)
  /\ prev' = 1
  /\ UNCHANGED <<program, cur, pc>>

(* One turn of the while loop: the current check stays for now.            *)
Advance ==
  /\ pc = "scan" /\ cur <= Len(checks)
  /\ ~dominativeCheckAnalysis(checks[prev], checks[cur])
  /\ IF prev + 1 = cur
       THEN prev' = 1 /\ cur' = cur + 1
       ELSE prev' = prev + 1 /\ cur' = cur
  /\ UNCHANGED <<program, instrs, checks, pc>>

(* The end of the list, at once for a list of one check or none.           *)
Return ==
  /\ pc = "scan" /\ cur > Len(checks)
  /\ pc' = "done"
  /\ UNCHANGED <<program, instrs, checks, prev, cur>>

Next == Collect \/ Erase \/ Advance \/ Return

(* The pass is called and runs in one thread.                              *)
Spec == Init /\ [][Next]_passVars /\ WF_passVars(Next)

-----------------------------------------------------------------------------
(* PROPERTIES *)

(* Type invariant; prev is always a valid position before cur.             *)
TypeOK ==
  /\ header \in Node
  /\ succ \in [Node -> SUBSET Node]
  /\ sequence \in Seq(Node)
  /\ bb \in [Check -> Node]
  /\ sig \in [Check -> Sig]
  /\ instrs \in SUBSET Check
  /\ checks \in Seq(Check)
  /\ prev \in Nat \ {0} /\ cur \in Nat \ {0} /\ prev < cur
  /\ pc \in {"start", "scan", "done"}

(* p is executed before c on every way from the header to c.               *)
Covers(p, c) ==
  /\ sig[p] = sig[c]
  /\ IF bb[p] = bb[c] THEN p < c ELSE Dominates(succ, header, bb[p], bb[c])

(* No check is lost: at any time every check that was erased is covered by *)
(* an equal one that is still in the program, although the one it was      *)
(* compared with may have been erased since.                               *)
ErasedAreCovered ==
  \A c \in Check \ instrs : \E p \in instrs : Covers(p, c)

(* The pass is complete: among the checks it leaves in reachable blocks    *)
(* none is covered by another, although the list changed under the two     *)
(* iterators.                                                              *)
NothingLeftToErase ==
  pc = "done" =>
    \A p, c \in instrs \cap Collected : p # c => ~Covers(p, c)

(* The pass ends.                                                          *)
PassReturns == <>(pc = "done")
=============================================================================
