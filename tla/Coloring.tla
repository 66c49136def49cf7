------------------------------- MODULE Coloring -------------------------------
(***************************************************************************)
(* The state that the searches of include/graph.hpp share: the graph, and  *)
(* the colour that every node carries (Node::m_color).  DFS, hasPath and   *)
(* RPO all mark nodes in it, and each relies on the others to leave it     *)
(* WHITE.                                                                  *)
(***************************************************************************)
EXTENDS Reach, Sequences

CONSTANT Key            \* the keys a caller may ask for, live or not

ASSUME KeyAssumption == Node \subseteq Key

VARIABLES live,         \* keys of m_nodes
          succ,         \* node -> its successors
          color         \* node -> m_color

graph == <<live, succ>>

ColorT == {"WHITE", "GRAY", "BLACK"}

AllWhite == color = [n \in Node |-> "WHITE"]
=============================================================================
