------------------------------ MODULE Dominance ------------------------------
(***************************************************************************)
(* Graph::getDominatedNodes and is_a_dominates_b (include/graph.hpp:       *)
(* 864-910): a DFS from the root, cut_node of the target, a second DFS on  *)
(* what is left, the difference of the two lists, and paste_all.           *)
(*                                                                         *)
(* It composes the search of Dfs with the hiding of nodes that CfgGraph    *)
(* implements and DiGraph specifies: a query changes the very graph that   *)
(* it asks about, and the paste_all at its end is not limited to what the  *)
(* query cut itself.  Nor does the query look at what paste_all returns: a *)
(* cut arc of a node that was deleted stops it half way.                   *)
(***************************************************************************)
EXTENDS Dfs, SequencesExt

CONSTANT Graphs         \* the graphs, with their cut parts, to query

(* No key is live and cut at once, so that paste_node cannot fail; an end  *)
(* of an arc that is cut may have been deleted.                            *)
WellCut(g) ==
  /\ IsGraph(g.live, g.succ)
  /\ IsFiniteSet(g.live \cup g.hidVert)
  /\ g.hidVert \subseteq Node \ g.live
  /\ g.hidArc \subseteq Node \X Node

ASSUME GraphsAssumption == \A g \in Graphs : WellCut(g)

VARIABLES hidVert, hidArc,   \* m_nodes_buf and m_edges_buf
          phase,             \* where the query is
          target,            \* argument of the query
          origin,            \* the first list, shrinking
          erased,            \* keys of the second list looked for in it
          result,            \* what the last query returned
          before             \* history: the graph the query was asked about

query   == <<hidVert, hidArc, phase, target, origin, erased, result, before>>
domVars == <<dfsVars, query>>

Current == [live |-> live, succ |-> succ, hidVert |-> hidVert, hidArc |-> hidArc]

QueryInit ==
  /\ \E g \in Graphs : /\ live = g.live /\ succ = g.succ
                       /\ hidVert = g.hidVert /\ hidArc = g.hidArc
  /\ SearchInit
  /\ phase = "ready"
  /\ target = KEY_UNDEF
  /\ origin = <<>> /\ erased = 0 /\ result = <<>>
  /\ before = Current

(* getDominatedNodes(r, t) up to and including the first call of DFS.  An  *)
(* unknown root or target makes it return a vector that holds KEY_UNDEF.   *)
getDominatedNodes(r, t) ==
  /\ phase = "ready"
  /\ target' = t
  /\ before' = Current
  /\ origin' = <<>> /\ erased' = 0
  /\ UNCHANGED <<hidVert, hidArc>>
  /\ \/ /\ ~({r, t} \subseteq live)
        /\ result' = <<KEY_UNDEF>>
        /\ root' = r
        /\ UNCHANGED <<graph, color, saved, endKey, stack, rest, vec, pc, phase>>
     \/ /\ {r, t} \subseteq live
        /\ DFS(r, KEY_UNDEF)
        /\ result' = <<>>
        /\ phase' = "origin"

Search == Step /\ UNCHANGED query

(* Mutant: cut_node is forgotten.                                          *)
CutNothing ==
  /\ phase = "origin" /\ pc = "done"
  /\ origin' = vec
  /\ phase' = "cut"
  /\ UNCHANGED <<graph, search, hidVert, hidArc, target, erased, result, before>>

(* cut_node(target): the node and its arcs move to the buffer.             *)
CutTarget ==
  /\ phase = "origin" /\ pc = "done"
  /\ origin' = vec
  /\ live' = live \ {target}
  /\ succ' = Without(succ, target)
  /\ hidVert' = hidVert \cup {target}
  /\ hidArc' = hidArc \cup {a \in Node \X Node :
                              a[2] \in succ[a[1]] /\ target \in {a[1], a[2]}}
  /\ phase' = "cut"
  /\ UNCHANGED <<search, target, erased, result, before>>

(* Mutant: the second search starts from the target.                       *)
DFSOfTarget ==
  /\ phase = "cut"
  /\ DFS(target, KEY_UNDEF)
  /\ phase' = "reduced"
  /\ UNCHANGED <<hidVert, hidArc, target, origin, erased, result, before>>

SecondDFS ==
  /\ phase = "cut"
  /\ DFS(root, KEY_UNDEF)
  /\ phase' = "reduced"
  /\ UNCHANGED <<hidVert, hidArc, target, origin, erased, result, before>>

(* One turn of the loop over the second list: the key is erased from the   *)
(* first list, where it is met first.                                      *)
Erase ==
  /\ phase = "reduced" /\ pc = "done" /\ erased < Len(vec)
  /\ erased' = erased + 1
  /\ origin' = RemoveFirst(origin, vec[erased + 1])
  /\ UNCHANGED <<graph, search, hidVert, hidArc, phase, target, result, before>>

(* Mutant: paste_all is forgotten.                                         *)
AnswerKeepsCut ==
  /\ phase = "reduced" /\ pc = "done" /\ erased = Len(vec)
  /\ result' = origin
  /\ phase' = "ready"
  /\ UNCHANGED <<graph, search, hidVert, hidArc, target, origin, erased, before>>

(* The cut arcs at which paste_edge fails, also when all nodes are back.   *)
Stuck(g) == {a \in g.hidArc : ~({a[1], a[2]} \subseteq g.live \cup g.hidVert)}

(* The arcs that paste_all brings back: all, or those whose keys come      *)
(* before the first at which it stops; the order of the keys is left out.  *)
Pasted ==
  {A \in SUBSET (hidArc \ Stuck(Current)) : Stuck(Current) = {} => A = hidArc}

(* What is left of the first list is the answer; paste_all brings back the *)
(* cut nodes, then the cut arcs, and its result is not looked at.          *)
Answer ==
  /\ phase = "reduced" /\ pc = "done" /\ erased = Len(vec)
  /\ result' = origin
  /\ live' = live \cup hidVert /\ hidVert' = {}
  /\ \E A \in Pasted :
       /\ succ' = [n \in Node |-> succ[n] \cup {m \in Node : <<n, m>> \in A}]
       /\ hidArc' = hidArc \ A
  /\ phase' = "ready"
  /\ UNCHANGED <<search, target, origin, erased, before>>

(* is_a_dominates_b(root, target, b) once getDominatedNodes has returned.  *)
is_a_dominates_b(b) == \E i \in 1 .. Len(result) : result[i] = b

QueryStep == Search \/ CutTarget \/ SecondDFS \/ Erase \/ Answer
QueryNext == QueryStep \/ \E r, t \in Key : getDominatedNodes(r, t)

(* One thread runs a query to its end; nothing obliges it to ask one.      *)
QuerySpec == QueryInit /\ [][QueryNext]_domVars /\ WF_domVars(QueryStep)

-----------------------------------------------------------------------------
(* PROPERTIES *)

Answered == phase = "ready" /\ target # KEY_UNDEF
Asked(k) == k \in before.live

(* is_a_dominates_b answers for every node whether it is reachable and all *)
(* paths from the root to it pass through the target.                      *)
DominatesEveryPath ==
  Answered /\ Asked(root) /\ Asked(target) =>
    \A b \in Node :
      LET paths == Paths(before.live, before.succ, root, b) IN
      is_a_dominates_b(b) <=>
        paths # {} /\ \A p \in paths : \E i \in DOMAIN p : p[i] = target

Arcs(S) == {a \in Node \X Node : a[2] \in S[a[1]]}

(* After a query every node is back, whoever cut it, and no arc is lost:   *)
(* what was there or cut before is there or cut still.  Arcs stay cut only *)
(* when one was cut whose end is deleted, since the query does not look at *)
(* the result of paste_all; a caller with nothing cut gets its graph back. *)
QueryRestores ==
  Answered /\ Asked(root) /\ Asked(target) =>
    /\ hidVert = {}
    /\ live = before.live \cup before.hidVert
    /\ Arcs(succ) \cup hidArc = Arcs(before.succ) \cup before.hidArc
    /\ Stuck(before) = {} => hidArc = {}

(* A query leaves no colour behind, although the second DFS saw one node   *)
(* less than the first (recover_colors_ is positional).                    *)
QueryRestoresColors == phase = "ready" => Visited = {}

(* To everybody else a query is a node hidden and all brought back, as the *)
(* container promises it, unless an arc is cut whose end is deleted.       *)
DG == INSTANCE DiGraph WITH
        Vertex <- Node, vert <- live, arc <- Arcs(succ),
        hidVert <- hidVert, hidArc <- hidArc
OnlyHidesAndRestores ==
  [][DG!HideVertex(target) \/ (Stuck(Current) = {} => DG!Restore)]_(DG!vars)

(* Every query is answered.                                                *)
QueryReturns == phase # "ready" ~> phase = "ready"
=============================================================================
