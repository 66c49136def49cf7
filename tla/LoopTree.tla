------------------------------- MODULE LoopTree -------------------------------
(***************************************************************************)
(* buildLoopTree (src/LoopTreeBuilder.cc): a graph of loops, made from the *)
(* cycles of Cycles.  A loop is named by the source of its back edge; the  *)
(* loops are visited against the order of RPO, each relabels all nodes     *)
(* that its back edge source reaches (m_loop) and is linked from the loop  *)
(* whose label it finds.                                                   *)
(*                                                                         *)
(* It composes get_cycles of Cycles with RPO of Rpo, on the same coloured  *)
(* graph; DFS is Reach (Dfs!ListsReachable).  Cycle::blocks is left out:   *)
(* the nodes of loops keep references to the cycles, locals of             *)
(* buildLoopTree, so that nobody can read it.                              *)
(***************************************************************************)
EXTENDS Cycles, Rpo, SequencesExt

ASSUME EntryAssumption == 1 \in Key     \* what buildLoopTree asks for

VARIABLES m_loop,       \* node -> m_loop
          loops, arcs,  \* the graph *loops
          todo,         \* what the reverse iterator over rpo has to pass
          phase         \* of buildLoopTree

loopVars == <<m_loop, loops, arcs, todo, phase>>
treeVars == <<cycleVars, rpoLocals, loopVars>>

TreeInit ==
  /\ Init /\ RpoInit
  /\ m_loop = [n \in Node |-> 0]
  /\ loops = {} /\ arcs = {}
  /\ todo = <<>>
  /\ phase = "ready"

(* The contract: the keys are 1 .. n, as add_nodes gives them, and a graph *)
(* is analysed once, for m_loop is never reset.                            *)
buildLoopTree ==
  /\ phase = "ready"
  /\ live = 1 .. Cardinality(live)
  /\ get_cycles(1)
  /\ phase' = "search"
  /\ UNCHANGED <<rpoLocals, m_loop, loops, arcs, todo>>

(* The loop over the cycles, and the call of RPO.  Of two cycles with the  *)
(* same source the second is refused by add_node.                          *)
CreateLoops ==
  /\ phase = "search" /\ pc = "done"
  /\ loops' = {vec[i].back_edge_start : i \in 1 .. Len(vec)}
  /\ RPO(1)
  /\ phase' = "order"
  /\ UNCHANGED <<cycleLocals, m_loop, arcs, todo>>

(* RPO has returned.                                                       *)
Visit ==
  /\ phase = "order" /\ stage = "done"
  /\ todo' = listed
  /\ phase' = "link"
  /\ UNCHANGED <<cycleVars, rpoLocals, m_loop, loops, arcs>>

(* Mutant: a node that has a label keeps it.                               *)
LabelKept(n, current) == IF m_loop[n] = 0 THEN current ELSE m_loop[n]

Label(n, current) == current

(* One turn of the loop over rpo, with its DFS from the back edge source.  *)
Link ==
  /\ phase = "link" /\ todo # <<>>
  /\ LET current == Last(todo)
         body == IF current \in loops THEN Reach(succ, current) ELSE {}
     IN
     /\ m_loop' = [n \in Node |->
                     IF n \in body THEN Label(n, current) ELSE m_loop[n]]
     /\ arcs' = arcs \cup {<<m_loop[n], current>> :
                             n \in {k \in body : m_loop[k] # 0}}
  /\ todo' = Front(todo)
  /\ UNCHANGED <<cycleVars, rpoLocals, loops, phase>>

Outside == {n \in live : m_loop[n] = 0}

(* The last loop: what has no label goes to a root loop.                   *)
AddRoot ==
  /\ phase = "link" /\ todo = <<>>
  /\ loops' = loops \cup
                (IF Outside = {} THEN {} ELSE {Cardinality(live) + 1})
  /\ phase' = "built"
  /\ UNCHANGED <<cycleVars, rpoLocals, m_loop, arcs, todo>>

Search ==
  phase \in {"ready", "search"} /\ Step /\ UNCHANGED <<rpoLocals, loopVars>>
Order == phase = "order" /\ RpoStep /\ UNCHANGED <<cycleLocals, loopVars>>
TreeStep == Search \/ CreateLoops \/ Order \/ Visit \/ Link \/ AddRoot
TreeNext ==
  \/ TreeStep
  \/ buildLoopTree
  \/ /\ phase = "ready"
     /\ \E r \in Key : get_cycles(r)
     /\ UNCHANGED <<rpoLocals, loopVars>>

(* One thread runs a call to its end; nothing obliges it to make a call.   *)
TreeSpec == TreeInit /\ [][TreeNext]_treeVars /\ WF_treeVars(TreeStep)

-----------------------------------------------------------------------------
(* PROPERTIES *)

(* The graph is WHITE again when the dominance queries of get_cycles start *)
(* their DFS, when RPO is called, and when the DFS of each loop is.        *)
ColorsRestored ==
  pc # "scan" /\ stage # "scan" => \A n \in Node : color[n] = "WHITE"

Sources == {vec[i].back_edge_start : i \in 1 .. Len(vec)}
Above(l) == Reach([k \in Node |-> {a[2] : a \in {b \in arcs : b[1] = k}}], l)

(* Two loops whose blocks overlap are one above the other in the loop      *)
(* graph, never both: overlapping loops hang together and no loop encloses *)
(* itself, although the links are made from labels that later loops        *)
(* overwrite.                                                              *)
LoopsNest ==
  phase = "built" =>
    \A k, l \in Sources :
      k # l /\ Reach(succ, k) \cap Reach(succ, l) # {} =>
        (k \in Above(l)) # (l \in Above(k))

(* Every block ends with the label of a loop that exists and whose source  *)
(* reaches it, namely a loop that no other loop around it is under; the    *)
(* blocks that no loop reaches are why there is a root loop.               *)
LabelsAreInnermost ==
  phase = "built" =>
    /\ \A n \in live :
         LET around == {l \in Sources : n \in Reach(succ, l)} IN
         IF around = {} THEN m_loop[n] = 0
         ELSE m_loop[n] \in around /\ Above(m_loop[n]) \cap around = {m_loop[n]}
    /\ (Cardinality(live) + 1 \in loops) <=> (Outside # {})

(* Every call returns, and the loop tree is built.                         *)
BuildReturns ==
  /\ pc = "scan" ~> pc = "done"
  /\ phase = "search" ~> phase = "built"
=============================================================================
