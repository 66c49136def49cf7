------------------------------ MODULE CfgGraph ------------------------------
(***************************************************************************)
(* The graph container of include/graph.hpp, G::Graph<N, E>, under every   *)
(* public call that changes it.                                            *)
(*                                                                         *)
(* The container keeps the same arcs twice: as rows of the edge table      *)
(* (m_edges) and as entries of the adjacency maps inside the two nodes     *)
(* (m_successors, m_predecessors).  Those maps hold Node pointers, so a    *)
(* node is here an address: the number of its allocation.  cut_node and    *)
(* cut_edge move nodes and edges to a buffer, paste_all moves the whole    *)
(* buffer back.                                                            *)
(***************************************************************************)
EXTENDS Integers, FiniteSets

CONSTANTS MaxNodeKey,   \* bound: largest node key a caller can see
          MaxEdgeKey,   \* bound: edges created in a behaviour
          MaxNodes      \* bound: nodes allocated in a behaviour

ASSUME BoundsAssumption ==
  /\ MaxNodeKey \in Nat \ {0}
  /\ MaxEdgeKey \in Nat \ {0}
  /\ MaxNodes \in Nat \ {0}

NodeKey == 1 .. MaxNodeKey
EdgeKey == 1 .. MaxEdgeKey
Ptr     == 1 .. MaxNodes
Null    == 0            \* nullptr, and the absent entry of a map

VARIABLES
  m_nodes,              \* NodeKey -> the live node with that key
  m_nodes_buf,          \* NodeKey -> the cut node with that key
  m_successors,         \* of each node: successor key -> Node*
  m_predecessors,       \* of each node: predecessor key -> Node*
  m_edges,              \* keys of the live edges
  m_edges_buf,          \* keys of the cut edges
  m_start_node_key,     \* of each edge that exists
  m_end_node_key,
  m_actual_node_key,    \* the next generated node key
  m_actual_edge_key,    \* the next edge key
  nextPtr,              \* the next address an allocation returns
  freed,                \* addresses given back by delete
  ret                   \* what the last call returned

nodeVars == <<m_nodes, m_nodes_buf, m_actual_node_key, nextPtr, freed>>
adjVars  == <<m_successors, m_predecessors>>
edgeVars == <<m_edges, m_edges_buf, m_start_node_key, m_end_node_key,
              m_actual_edge_key>>
store    == <<nodeVars, adjVars, edgeVars>>
vars     == <<store, ret>>

(* KEY_UNDEF and KEY_DUBLICATE; "corrupted" is the KEY_UNDEF of add_edge   *)
(* that is logged as corrupted data, "throw" the std::out_of_range of      *)
(* std::map::at.                                                           *)
Result == {"key", "undef", "dublicate", "corrupted", "throw"}

EmptyMap == [n \in NodeKey |-> Null]

Init ==
  /\ m_nodes = EmptyMap
  /\ m_nodes_buf = EmptyMap
  /\ m_successors = [p \in Ptr |-> EmptyMap]
  /\ m_predecessors = [p \in Ptr |-> EmptyMap]
  /\ m_edges = {}
  /\ m_edges_buf = {}
  /\ m_start_node_key = [k \in EdgeKey |-> Null]
  /\ m_end_node_key = [k \in EdgeKey |-> Null]
  /\ m_actual_node_key = 1
  /\ m_actual_edge_key = 1
  /\ nextPtr = 1
  /\ freed = {}
  /\ ret = "undef"

node_exists(n) == m_nodes[n] # Null

(* Edges between two nodes, and edges with an end at n, in the live table. *)
Between(s, e) ==
  {k \in m_edges : m_start_node_key[k] = s /\ m_end_node_key[k] = e}
Incident(n) ==
  {k \in m_edges : m_start_node_key[k] = n \/ m_end_node_key[k] = n}

(* Map lookups through a live node.                                        *)
HasSuccessor(s, e)   == m_successors[m_nodes[s]][e] # Null
HasPredecessor(e, s) == m_predecessors[m_nodes[e]][s] # Null

(* A call that fails before it touches anything.                           *)
Refuse(code) == ret' = code /\ UNCHANGED store

-----------------------------------------------------------------------------
(* NODES *)

(* Mutant: the key generator is not pushed past a caller's key.            *)
AddNodeNoMax(key) ==
  \/ node_exists(key) /\ Refuse("undef")
  \/ /\ ~node_exists(key)
     /\ nextPtr \in Ptr
     /\ m_nodes' = [m_nodes EXCEPT ![key] = nextPtr]
     /\ nextPtr' = nextPtr + 1
     /\ m_actual_node_key' = m_actual_node_key + 1
     /\ ret' = "key"
     /\ UNCHANGED <<m_nodes_buf, freed, adjVars, edgeVars>>

(* add_node with a key chosen by the caller.  The key is looked up in      *)
(* m_nodes only, and the key generator is pushed past it.                  *)
AddNode(key) ==
  \/ node_exists(key) /\ Refuse("undef")
  \/ /\ ~node_exists(key)
     /\ nextPtr \in Ptr                                          \* bound
     /\ m_nodes' = [m_nodes EXCEPT ![key] = nextPtr]
     /\ nextPtr' = nextPtr + 1
     /\ m_actual_node_key' =
          1 + IF key > m_actual_node_key THEN key ELSE m_actual_node_key
     /\ ret' = "key"
     /\ UNCHANGED <<m_nodes_buf, freed, adjVars, edgeVars>>

(* add_nodes, and add_node without a key (count = 1): the keys come from   *)
(* the generator.  For count = 0 it returns the KEY_UNDEF it started from. *)
AddNodes(count) ==
  \/ count = 0 /\ Refuse("undef")
  \/ /\ count > 0
     /\ m_actual_node_key + count - 1 \in NodeKey                \* bound
     /\ nextPtr + count - 1 \in Ptr                              \* bound
     /\ m_nodes' = [n \in NodeKey |->
          IF n \in m_actual_node_key .. m_actual_node_key + count - 1
            THEN nextPtr + (n - m_actual_node_key)
            ELSE m_nodes[n]]
     /\ nextPtr' = nextPtr + count
     /\ m_actual_node_key' = m_actual_node_key + count
     /\ ret' = "key"
     /\ UNCHANGED <<m_nodes_buf, freed, adjVars, edgeVars>>

(* delete_node frees the live edges at the node, then the node.  It does   *)
(* not visit the adjacency maps of the neighbours.                         *)
DeleteNode(n) ==
  \/ ~node_exists(n) /\ Refuse("undef")
  \/ /\ node_exists(n)
     /\ m_edges' = m_edges \ Incident(n)
     /\ m_start_node_key' = [k \in EdgeKey |->
          IF k \in Incident(n) THEN Null ELSE m_start_node_key[k]]
     /\ m_end_node_key' = [k \in EdgeKey |->
          IF k \in Incident(n) THEN Null ELSE m_end_node_key[k]]
     /\ freed' = freed \cup {m_nodes[n]}
     /\ m_successors' = [m_successors EXCEPT ![m_nodes[n]] = EmptyMap]
     /\ m_predecessors' = [m_predecessors EXCEPT ![m_nodes[n]] = EmptyMap]
     /\ m_nodes' = [m_nodes EXCEPT ![n] = Null]
     /\ ret' = "key"
     /\ UNCHANGED <<m_nodes_buf, m_actual_node_key, nextPtr,
                    m_edges_buf, m_actual_edge_key>>

(* The edges at n that cut_node hands to cut_edge, in key order, until one *)
(* of them has an end that is no longer live: there std::map::at throws.   *)
Dead(n) ==
  {k \in Incident(n) : ~node_exists(m_start_node_key[k])
                       \/ ~node_exists(m_end_node_key[k])}
Reached(n) == {k \in Incident(n) : \A d \in Dead(n) : k < d}

(* cut_edge(k) moves the edge if both adjacency entries were still there:  *)
(* of two edges with the same ends only the first finds them.              *)
Cuttable(n) ==
  {k \in Reached(n) :
     /\ HasSuccessor(m_start_node_key[k], m_end_node_key[k])
     /\ HasPredecessor(m_end_node_key[k], m_start_node_key[k])
     /\ \A j \in Reached(n) \cap Between(m_start_node_key[k],
                                         m_end_node_key[k]) : j >= k}

(* The edge that throws has its successor entry erased if its start lives. *)
Thrower(n) ==
  {k \in Dead(n) : /\ \A d \in Dead(n) : k <= d
                   /\ node_exists(m_start_node_key[k])}

CutIncident(n) ==
  /\ m_successors' = [p \in Ptr |-> [t \in NodeKey |->
       IF \E k \in Reached(n) \cup Thrower(n) :
            m_nodes[m_start_node_key[k]] = p /\ m_end_node_key[k] = t
         THEN Null ELSE m_successors[p][t]]]
  /\ m_predecessors' = [p \in Ptr |-> [t \in NodeKey |->
       IF \E k \in Reached(n) :
            m_nodes[m_end_node_key[k]] = p /\ m_start_node_key[k] = t
         THEN Null ELSE m_predecessors[p][t]]]
  /\ m_edges' = m_edges \ Cuttable(n)
  /\ m_edges_buf' = m_edges_buf \cup Cuttable(n)
  /\ UNCHANGED <<m_start_node_key, m_end_node_key, m_actual_edge_key>>

(* Mutants: the edges stay; the node is not put into the buffer; it is not *)
(* taken out of m_nodes.                                                   *)
CutNodeOnly(n) ==
  \/ ~node_exists(n) /\ Refuse("undef")
  \/ /\ node_exists(n)
     /\ m_nodes_buf' = [m_nodes_buf EXCEPT ![n] = m_nodes[n]]
     /\ m_nodes' = [m_nodes EXCEPT ![n] = Null]
     /\ ret' = "key"
     /\ UNCHANGED <<m_actual_node_key, nextPtr, freed, adjVars, edgeVars>>
CutNodeDrop(n) ==
  \/ ~node_exists(n) /\ Refuse("undef")
  \/ /\ node_exists(n) /\ CutIncident(n)
     /\ m_nodes' = [m_nodes EXCEPT ![n] = Null]
     /\ ret' = "key"
     /\ UNCHANGED <<m_nodes_buf, m_actual_node_key, nextPtr, freed>>
CutNodeKeep(n) ==
  \/ ~node_exists(n) /\ Refuse("undef")
  \/ /\ node_exists(n) /\ CutIncident(n)
     /\ m_nodes_buf' = [m_nodes_buf EXCEPT ![n] = m_nodes[n]]
     /\ ret' = "key"
     /\ UNCHANGED <<m_nodes, m_actual_node_key, nextPtr, freed>>

(* cut_node.  The insertion into the buffer is std::map::insert: it does   *)
(* nothing when a cut node with the same key is there already.             *)
CutNode(n) ==
  \/ ~node_exists(n) /\ Refuse("undef")
  \/ /\ node_exists(n)
     /\ CutIncident(n)
     /\ IF Dead(n) # {}
          THEN ret' = "throw" /\ UNCHANGED nodeVars
          ELSE /\ m_nodes_buf' = [m_nodes_buf EXCEPT
                    ![n] = IF @ = Null THEN m_nodes[n] ELSE @]
               /\ m_nodes' = [m_nodes EXCEPT ![n] = Null]
               /\ ret' = "key"
               /\ UNCHANGED <<m_actual_node_key, nextPtr, freed>>

-----------------------------------------------------------------------------
(* EDGES *)

(* Mutant: KEY_DUBLICATE from the two nodes is not looked at.              *)
AddEdgeTwice(s, e) ==
  \/ ~(node_exists(s) /\ node_exists(e)) /\ Refuse("undef")
  \/ /\ node_exists(s) /\ node_exists(e)
     /\ m_actual_edge_key \in EdgeKey
     /\ m_successors' = [m_successors EXCEPT ![m_nodes[s]][e] = m_nodes[e]]
     /\ m_predecessors' = [m_predecessors EXCEPT ![m_nodes[e]][s] = m_nodes[s]]
     /\ m_edges' = m_edges \cup {m_actual_edge_key}
     /\ m_start_node_key' = [m_start_node_key EXCEPT ![m_actual_edge_key] = s]
     /\ m_end_node_key' = [m_end_node_key EXCEPT ![m_actual_edge_key] = e]
     /\ m_actual_edge_key' = m_actual_edge_key + 1
     /\ ret' = "key"
     /\ UNCHANGED <<m_edges_buf, nodeVars>>

(* add_edge.  Both map insertions are tried before their results are       *)
(* looked at; when only one of them was possible the call gives up and     *)
(* leaves that one in place.                                               *)
AddEdge(s, e) ==
  \/ ~(node_exists(s) /\ node_exists(e)) /\ Refuse("undef")
  \/ /\ node_exists(s) /\ node_exists(e)
     /\ HasSuccessor(s, e) /\ HasPredecessor(e, s)
     /\ Refuse("dublicate")
  \/ /\ node_exists(s) /\ node_exists(e)
     /\ ~(HasSuccessor(s, e) /\ HasPredecessor(e, s))
     /\ m_successors' = [m_successors EXCEPT
          ![m_nodes[s]][e] = IF @ = Null THEN m_nodes[e] ELSE @]
     /\ m_predecessors' = [m_predecessors EXCEPT
          ![m_nodes[e]][s] = IF @ = Null THEN m_nodes[s] ELSE @]
     /\ IF HasSuccessor(s, e) \/ HasPredecessor(e, s)
          THEN ret' = "corrupted" /\ UNCHANGED edgeVars
          ELSE /\ m_actual_edge_key \in EdgeKey                  \* bound
               /\ m_edges' = m_edges \cup {m_actual_edge_key}
               /\ m_start_node_key' =
                    [m_start_node_key EXCEPT ![m_actual_edge_key] = s]
               /\ m_end_node_key' =
                    [m_end_node_key EXCEPT ![m_actual_edge_key] = e]
               /\ m_actual_edge_key' = m_actual_edge_key + 1
               /\ ret' = "key"
               /\ UNCHANGED m_edges_buf
     /\ UNCHANGED nodeVars

(* Mutant: delete_predecessor is forgotten.                                *)
UnlinkStart(s, e) ==
  /\ m_successors' = [m_successors EXCEPT ![m_nodes[s]][e] = Null]
  /\ UNCHANGED m_predecessors

(* delete_successor(e) on s and delete_predecessor(s) on e: both are       *)
(* called, whatever the first returns.                                     *)
Unlink(s, e) ==
  /\ m_successors' = [m_successors EXCEPT ![m_nodes[s]][e] = Null]
  /\ m_predecessors' = [m_predecessors EXCEPT ![m_nodes[e]][s] = Null]

Linked(s, e) == HasSuccessor(s, e) /\ HasPredecessor(e, s)

(* The loop over m_edges stops at the first edge from s to e.              *)
FirstBetween(k, s, e) == k \in Between(s, e) /\ \A j \in Between(s, e) : k <= j

(* delete_edge(s, e), which ends in the protected delete_edge(k).          *)
DeleteEdge(s, e) ==
  \/ /\ ~(node_exists(s) /\ node_exists(e)) \/ Between(s, e) = {}
     /\ Refuse("undef")
  \/ \E k \in EdgeKey :
       /\ node_exists(s) /\ node_exists(e) /\ FirstBetween(k, s, e)
       /\ Unlink(s, e)
       /\ IF Linked(s, e)
            THEN /\ m_edges' = m_edges \ {k}
                 /\ m_start_node_key' = [m_start_node_key EXCEPT ![k] = Null]
                 /\ m_end_node_key' = [m_end_node_key EXCEPT ![k] = Null]
                 /\ ret' = "key"
                 /\ UNCHANGED <<m_edges_buf, m_actual_edge_key>>
            ELSE ret' = "undef" /\ UNCHANGED edgeVars
       /\ UNCHANGED nodeVars

(* cut_edge(s, e), which ends in the protected cut_edge(k).                *)
CutEdge(s, e) ==
  \/ /\ ~(node_exists(s) /\ node_exists(e)) \/ Between(s, e) = {}
     /\ Refuse("undef")
  \/ \E k \in EdgeKey :
       /\ node_exists(s) /\ node_exists(e) /\ FirstBetween(k, s, e)
       /\ Unlink(s, e)
       /\ IF Linked(s, e)
            THEN /\ m_edges' = m_edges \ {k}
                 /\ m_edges_buf' = m_edges_buf \cup {k}
                 /\ ret' = "key"
                 /\ UNCHANGED <<m_start_node_key, m_end_node_key,
                                m_actual_edge_key>>
            ELSE ret' = "undef" /\ UNCHANGED edgeVars
       /\ UNCHANGED nodeVars

-----------------------------------------------------------------------------
(* THE BUFFER *)

(* paste_node refuses a key that is live; paste_all takes the keys from    *)
(* the largest down and gives up at the first refusal.                     *)
BlockedNodes == {n \in NodeKey : m_nodes_buf[n] # Null /\ node_exists(n)}
PastedNodes ==
  {n \in NodeKey : m_nodes_buf[n] # Null /\ \A b \in BlockedNodes : n > b}
NodesAfterPaste ==
  [n \in NodeKey |-> IF n \in PastedNodes THEN m_nodes_buf[n] ELSE m_nodes[n]]

PasteNodes ==
  /\ m_nodes' = NodesAfterPaste
  /\ m_nodes_buf' = [n \in NodeKey |->
       IF n \in PastedNodes THEN Null ELSE m_nodes_buf[n]]
  /\ UNCHANGED <<m_actual_node_key, nextPtr, freed>>

(* paste_edge refuses an edge whose ends are not both live by then.        *)
BlockedEdges ==
  {k \in m_edges_buf : \/ NodesAfterPaste[m_start_node_key[k]] = Null
                       \/ NodesAfterPaste[m_end_node_key[k]] = Null}
PastedEdges == {k \in m_edges_buf : \A b \in BlockedEdges : k > b}

(* Map insertion again: an entry that is there already stays as it is.     *)
PasteEdges ==
  /\ m_edges' = m_edges \cup PastedEdges
  /\ m_edges_buf' = m_edges_buf \ PastedEdges
  /\ m_successors' = [p \in Ptr |-> [t \in NodeKey |->
       IF /\ m_successors[p][t] = Null
          /\ \E k \in PastedEdges :
               /\ NodesAfterPaste[m_start_node_key[k]] = p
               /\ m_end_node_key[k] = t
         THEN NodesAfterPaste[t] ELSE m_successors[p][t]]]
  /\ m_predecessors' = [p \in Ptr |-> [t \in NodeKey |->
       IF /\ m_predecessors[p][t] = Null
          /\ \E k \in PastedEdges :
               /\ NodesAfterPaste[m_end_node_key[k]] = p
               /\ m_start_node_key[k] = t
         THEN NodesAfterPaste[t] ELSE m_predecessors[p][t]]]
  /\ UNCHANGED <<m_start_node_key, m_end_node_key, m_actual_edge_key>>

(* Mutant: the second loop, over the edges, is missing.                    *)
PasteAllNodes ==
  /\ PasteNodes
  /\ ret' = "key"
  /\ UNCHANGED <<adjVars, edgeVars>>

PasteAll ==
  /\ PasteNodes
  /\ IF BlockedNodes = {}
       THEN /\ PasteEdges
            /\ ret' = IF BlockedEdges = {} THEN "key" ELSE "undef"
       ELSE ret' = "undef" /\ UNCHANGED <<adjVars, edgeVars>>

-----------------------------------------------------------------------------
(* SPECIFICATIONS *)

(* Any client: every call with any key, in any order.                      *)
Next ==
  \/ \E key \in NodeKey : AddNode(key)
  \/ \E count \in 0 .. 2 : AddNodes(count)
  \/ \E n \in NodeKey : DeleteNode(n) \/ CutNode(n)
  \/ \E s, e \in NodeKey : AddEdge(s, e) \/ DeleteEdge(s, e) \/ CutEdge(s, e)
  \/ PasteAll

Spec == Init /\ [][Next]_vars

(* The contract that the container itself does not enforce: a caller's key *)
(* is not the key of a cut node, no edge is added while one with the same  *)
(* ends is cut, and a node is deleted only after its edges, the cut ones   *)
(* included.                                                               *)
KeyNotCut(key) == m_nodes_buf[key] = Null
ArcNotCut(s, e) ==
  \A k \in m_edges_buf : ~(m_start_node_key[k] = s /\ m_end_node_key[k] = e)
NoEdgeAt(n) ==
  \A k \in m_edges \cup m_edges_buf :
    m_start_node_key[k] # n /\ m_end_node_key[k] # n

ContractNext ==
  \/ \E key \in NodeKey : KeyNotCut(key) /\ AddNode(key)
  \/ \E count \in 0 .. 2 : AddNodes(count)
  \/ \E n \in NodeKey : NoEdgeAt(n) /\ DeleteNode(n)
  \/ \E n \in NodeKey : CutNode(n)
  \/ \E s, e \in NodeKey : ArcNotCut(s, e) /\ AddEdge(s, e)
  \/ \E s, e \in NodeKey : DeleteEdge(s, e) \/ CutEdge(s, e)
  \/ PasteAll

ContractSpec == Init /\ [][ContractNext]_vars

-----------------------------------------------------------------------------
(* PROPERTIES *)

Live == {m_nodes[n] : n \in NodeKey} \ {Null}
Cut  == {m_nodes_buf[n] : n \in NodeKey} \ {Null}

(* Type invariant of every client.                                         *)
TypeOK ==
  /\ m_nodes \in [NodeKey -> Ptr \cup {Null}]
  /\ m_nodes_buf \in [NodeKey -> Ptr \cup {Null}]
  /\ m_successors \in [Ptr -> [NodeKey -> Ptr \cup {Null}]]
  /\ m_predecessors \in [Ptr -> [NodeKey -> Ptr \cup {Null}]]
  /\ m_edges \subseteq EdgeKey
  /\ m_edges_buf \subseteq EdgeKey
  /\ m_start_node_key \in [EdgeKey -> NodeKey \cup {Null}]
  /\ m_end_node_key \in [EdgeKey -> NodeKey \cup {Null}]
  /\ m_actual_node_key \in Nat \ {0}
  /\ m_actual_edge_key \in Nat \ {0}
  /\ nextPtr \in Nat \ {0}
  /\ freed \subseteq Ptr
  /\ ret \in Result

(* Whatever a client does, the key generators are ahead of every node and  *)
(* edge, live or cut, so that the map insertions of add_node and add_edge  *)
(* (graph.hpp:344, 517) cannot fail; an edge is never live and cut at once.*)
KeysFresh ==
  /\ \A n \in NodeKey :
       m_nodes[n] # Null \/ m_nodes_buf[n] # Null => n < m_actual_node_key
  /\ \A k \in m_edges \cup m_edges_buf : k < m_actual_edge_key
  /\ m_edges \cap m_edges_buf = {}

(* Whatever a client does, no Node is reachable from two entries of the    *)
(* node tables, and none from them once it was deleted: ~Graph, which      *)
(* deletes both tables entry by entry, frees nothing twice.                *)
NeverOwnedTwice ==
  /\ Live \cap Cut = {}
  /\ (Live \cup Cut) \cap freed = {}
  /\ \A m, n \in NodeKey :
       /\ m_nodes[m] = m_nodes[n] /\ m_nodes[m] # Null => m = n
       /\ m_nodes_buf[m] = m_nodes_buf[n] /\ m_nodes_buf[m] # Null => m = n

(* Under the contract the two representations of an arc agree: the maps of *)
(* a live node have an entry exactly for the live edges, it points at the  *)
(* node that is live under that key now, and a cut node carries no entry   *)
(* back into the graph when it is pasted.                                  *)
AdjacencyMatchesEdges ==
  /\ \A s, e \in NodeKey : node_exists(s) =>
       /\ m_successors[m_nodes[s]][e] =
            IF Between(s, e) # {} THEN m_nodes[e] ELSE Null
       /\ m_predecessors[m_nodes[s]][e] =
            IF Between(e, s) # {} THEN m_nodes[e] ELSE Null
  /\ \A p \in Ptr \ Live :
       m_successors[p] = EmptyMap /\ m_predecessors[p] = EmptyMap

(* Under the contract no two edges, live or cut, join the same nodes: two  *)
(* such rows would share one map entry.                                    *)
NoTwinEdges ==
  \A j, k \in m_edges \cup m_edges_buf :
    /\ m_start_node_key[j] = m_start_node_key[k]
    /\ m_end_node_key[j] = m_end_node_key[k]
    => j = k

(* Under the contract paste_all can always finish: no key is live and cut  *)
(* at once, live edges have live ends, and an end of a cut edge is live or *)
(* cut.                                                                    *)
Restorable ==
  /\ \A n \in NodeKey : m_nodes[n] = Null \/ m_nodes_buf[n] = Null
  /\ \A k \in m_edges \cup m_edges_buf :
       m_start_node_key[k] # Null /\ m_end_node_key[k] # Null
  /\ \A k \in m_edges \cup m_edges_buf, n \in NodeKey :
       n \in {m_start_node_key[k], m_end_node_key[k]} =>
         node_exists(n) \/ (k \in m_edges_buf /\ m_nodes_buf[n] # Null)

(* Under the contract no node leaks: every allocated Node is live, cut or  *)
(* deleted.                                                                *)
NoLeak == \A p \in Ptr : p < nextPtr => p \in Live \cup Cut \cup freed

(* Under the contract add_edge never logs "Successor & Predecessor have    *)
(* corrupted data" and no call throws.                                     *)
NeverCorrupted == ret \notin {"corrupted", "throw"}

(* Under the contract a call that reports an error has changed nothing.    *)
FailedCallsChangeNothing == [][ret' # "key" => UNCHANGED store]_vars

(* Under the contract the container is the abstract graph with hiding.     *)
Arc(K) == {<<m_start_node_key[k], m_end_node_key[k]>> : k \in K}
DG == INSTANCE DiGraph WITH
        Vertex  <- NodeKey,
        vert    <- {n \in NodeKey : m_nodes[n] # Null},
        hidVert <- {n \in NodeKey : m_nodes_buf[n] # Null},
        arc     <- Arc(m_edges),
        hidArc  <- Arc(m_edges_buf)
RefinesDiGraph == DG!Spec
=============================================================================
