------------------------------- MODULE DiGraph -------------------------------
(***************************************************************************)
(* What the control-flow graph container promises to the passes that use   *)
(* it: a directed graph without parallel arcs, part of which can be hidden *)
(* for a while (cut_node, cut_edge) and is brought back by one call        *)
(* (paste_all).  Everything the implementation keeps twice, adjacency maps *)
(* against the edge table, is here only once.                              *)
(*                                                                         *)
(* CfgGraph implements this module when its callers keep the contract that *)
(* CfgGraph!ContractNext states.                                           *)
(***************************************************************************)
CONSTANT Vertex       \* the keys a node can have

VARIABLES vert,       \* the vertices that traversals see
          arc,        \* the arcs between them
          hidVert,    \* the vertices that were cut
          hidArc      \* the arcs that were cut, on their own or with an end

vars == <<vert, arc, hidVert, hidArc>>

Incident(v) == {a \in arc : v \in {a[1], a[2]}}

Init == vert = {} /\ arc = {} /\ hidVert = {} /\ hidArc = {}

(* New vertices; a key never names a visible and a hidden vertex at once.  *)
AddVertices(S) ==
  /\ S \cap (vert \cup hidVert) = {}
  /\ vert' = vert \cup S
  /\ UNCHANGED <<arc, hidVert, hidArc>>

(* A vertex goes away for good only when nothing, hidden arcs included,    *)
(* still mentions it.                                                      *)
RemoveVertex(v) ==
  /\ v \in vert
  /\ \A a \in arc \cup hidArc : v \notin {a[1], a[2]}
  /\ vert' = vert \ {v}
  /\ UNCHANGED <<arc, hidVert, hidArc>>

AddArc(v, w) ==
  /\ {v, w} \subseteq vert
  /\ <<v, w>> \notin arc \cup hidArc
  /\ arc' = arc \cup {<<v, w>>}
  /\ UNCHANGED <<vert, hidVert, hidArc>>

RemoveArc(a) ==
  /\ a \in arc
  /\ arc' = arc \ {a}
  /\ UNCHANGED <<vert, hidVert, hidArc>>

HideArc(a) ==
  /\ a \in arc
  /\ arc' = arc \ {a}
  /\ hidArc' = hidArc \cup {a}
  /\ UNCHANGED <<vert, hidVert>>

(* A hidden vertex takes its arcs with it.                                 *)
HideVertex(v) ==
  /\ v \in vert
  /\ vert' = vert \ {v}
  /\ hidVert' = hidVert \cup {v}
  /\ arc' = arc \ Incident(v)
  /\ hidArc' = hidArc \cup Incident(v)

(* One call brings back everything that was hidden.                        *)
Restore ==
  /\ vert' = vert \cup hidVert
  /\ arc' = arc \cup hidArc
  /\ hidVert' = {} /\ hidArc' = {}

Next ==
  \/ \E S \in SUBSET Vertex : AddVertices(S)
  \/ \E v \in Vertex : RemoveVertex(v) \/ HideVertex(v)
  \/ \E v, w \in Vertex :
       AddArc(v, w) \/ RemoveArc(<<v, w>>) \/ HideArc(<<v, w>>)
  \/ Restore

Spec == Init /\ [][Next]_vars
=============================================================================
