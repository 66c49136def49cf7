-------------------------------- MODULE GraphProofs ----------------------------
(***************************************************************************)
(* The graph container: its type invariant and the ownership of its nodes  *)
(* for every client, and for the clients that keep the contract, whatever  *)
(* the bounds, the agreement of its two representations of the arcs and    *)
(* the refinement of DiGraph.  Then the graph of basic blocks: that the    *)
(* graph's key is the block's id is inductive only together with the       *)
(* ownership of nodes (OwnInv) and with the numbering by the manager.      *)
(***************************************************************************)
EXTENDS BbGraph, FiniteSetTheorems, TLAPS

LEMMA TypeStep == TypeOK /\ [Next]_vars => TypeOK'
<1> SUFFICES ASSUME TypeOK, [Next]_vars PROVE TypeOK'
  OBVIOUS
<1> USE DEF store, nodeVars, adjVars, edgeVars, node_exists, Result, Null
<1>1. ASSUME NEW code \in Result, Refuse(code) PROVE TypeOK'
  BY <1>1 DEF Refuse, TypeOK
<1>2. ASSUME NEW key \in NodeKey, AddNode(key) PROVE TypeOK'
  <2>1. CASE Refuse("undef")
    BY <1>1, <2>1
  <2>2. CASE ~node_exists(key) /\ ~Refuse("undef")
    <3>1. m_actual_node_key' \in Nat \ {0} /\ nextPtr' \in Nat \ {0}
      BY <1>2, <2>2, BoundsAssumption DEF AddNode, TypeOK, NodeKey
    <3>2. /\ nextPtr \in Ptr /\ m_nodes' = [m_nodes EXCEPT ![key] = nextPtr]
          /\ ret' = "key" /\ UNCHANGED <<m_nodes_buf, freed, adjVars, edgeVars>>
      BY <1>2, <2>2 DEF AddNode
    <3>3. m_nodes' \in [NodeKey -> Ptr \cup {Null}]
      BY <3>2 DEF TypeOK
    <3> QED BY <3>1, <3>2, <3>3 DEF TypeOK
  <2> QED BY <1>2, <2>1, <2>2 DEF AddNode
<1>3. ASSUME NEW count \in 0 .. 2, AddNodes(count) PROVE TypeOK'
  <2>1. CASE Refuse("undef")
    BY <1>1, <2>1
  <2>2. CASE ~Refuse("undef")
    <3>1. ASSUME NEW n \in NodeKey,
                 n \in m_actual_node_key .. m_actual_node_key + count - 1
          PROVE  nextPtr + (n - m_actual_node_key) \in Ptr
      <4>1. nextPtr + count - 1 \in Ptr
        BY <1>3, <2>2 DEF AddNodes
      <4>2. n - m_actual_node_key \in 0 .. count - 1
        BY <3>1 DEF TypeOK
      <4> QED BY <4>1, <4>2, BoundsAssumption DEF Ptr, TypeOK
    <3>2. m_nodes' \in [NodeKey -> Ptr \cup {Null}]
      BY <1>3, <2>2, <3>1 DEF AddNodes, TypeOK
    <3>3. m_actual_node_key' \in Nat \ {0} /\ nextPtr' \in Nat \ {0}
      BY <1>3, <2>2 DEF AddNodes, TypeOK
    <3> QED BY <1>3, <2>2, <3>2, <3>3 DEF AddNodes, TypeOK
  <2> QED BY <2>1, <2>2
<1>4. ASSUME NEW n \in NodeKey, DeleteNode(n) PROVE TypeOK'
  <2>1. CASE Refuse("undef")
    BY <1>1, <2>1
  <2>2. CASE node_exists(n) /\ ~Refuse("undef")
    <3>1. m_nodes[n] \in Ptr
      BY <2>2 DEF TypeOK
    <3>2. EmptyMap \in [NodeKey -> Ptr \cup {Null}]
      BY DEF EmptyMap
    <3>3. /\ m_successors' \in [Ptr -> [NodeKey -> Ptr \cup {Null}]]
          /\ m_predecessors' \in [Ptr -> [NodeKey -> Ptr \cup {Null}]]
      <4>1. /\ m_successors' = [m_successors EXCEPT ![m_nodes[n]] = EmptyMap]
            /\ m_predecessors' = [m_predecessors EXCEPT ![m_nodes[n]] = EmptyMap]
        BY <1>4, <2>2 DEF DeleteNode
      <4> QED BY <3>1, <3>2, <4>1 DEF TypeOK
    <3>4. freed' \subseteq Ptr
      BY <1>4, <2>2, <3>1 DEF DeleteNode, TypeOK
    <3>5. m_nodes' \in [NodeKey -> Ptr \cup {Null}]
      BY <1>4, <2>2 DEF DeleteNode, TypeOK
    <3>6. /\ m_edges' \subseteq EdgeKey
          /\ m_start_node_key' \in [EdgeKey -> NodeKey \cup {Null}]
          /\ m_end_node_key' \in [EdgeKey -> NodeKey \cup {Null}]
      BY <1>4, <2>2 DEF DeleteNode, TypeOK
    <3> QED BY <1>4, <2>2, <3>3, <3>4, <3>5, <3>6 DEF DeleteNode, TypeOK
  <2> QED BY <1>4, <2>1, <2>2 DEF DeleteNode
<1>5. ASSUME NEW n \in NodeKey, CutNode(n) PROVE TypeOK'
  <2>1. CASE Refuse("undef")
    BY <1>1, <2>1
  <2>2. CASE ~Refuse("undef")
    <3>1. CutIncident(n)
      BY <1>5, <2>2 DEF CutNode
    <3>2. Cuttable(n) \subseteq m_edges
      BY DEF Cuttable, Reached, Incident
    <3>3. /\ m_successors' \in [Ptr -> [NodeKey -> Ptr \cup {Null}]]
          /\ m_predecessors' \in [Ptr -> [NodeKey -> Ptr \cup {Null}]]
      BY <3>1 DEF CutIncident, TypeOK
    <3>4. /\ m_edges' \subseteq EdgeKey /\ m_edges_buf' \subseteq EdgeKey
          /\ UNCHANGED <<m_start_node_key, m_end_node_key, m_actual_edge_key>>
      BY <3>1, <3>2 DEF CutIncident, TypeOK
    <3>5. /\ m_nodes' \in [NodeKey -> Ptr \cup {Null}]
          /\ m_nodes_buf' \in [NodeKey -> Ptr \cup {Null}]
          /\ ret' \in Result
          /\ UNCHANGED <<m_actual_node_key, nextPtr, freed>>
      BY <1>5, <2>2 DEF CutNode, TypeOK
    <3> QED BY <3>3, <3>4, <3>5 DEF TypeOK
  <2> QED BY <2>1, <2>2
<1>6. ASSUME NEW s \in NodeKey, NEW e \in NodeKey, AddEdge(s, e) PROVE TypeOK'
  <2>1. CASE Refuse("undef") \/ Refuse("dublicate")
    BY <1>1, <2>1
  <2>2. CASE ~Refuse("undef") /\ ~Refuse("dublicate")
    <3>1. m_nodes[s] \in Ptr /\ m_nodes[e] \in Ptr
      BY <1>6, <2>2 DEF AddEdge, TypeOK
    <3>2. /\ m_successors' = [m_successors EXCEPT
               ![m_nodes[s]][e] = IF @ = Null THEN m_nodes[e] ELSE @]
          /\ m_predecessors' = [m_predecessors EXCEPT
               ![m_nodes[e]][s] = IF @ = Null THEN m_nodes[s] ELSE @]
      BY <1>6, <2>2 DEF AddEdge
    <3>6. m_successors' \in [Ptr -> [NodeKey -> Ptr \cup {Null}]]
      BY <3>1, <3>2 DEF TypeOK
    <3>7. m_predecessors' \in [Ptr -> [NodeKey -> Ptr \cup {Null}]]
      BY <3>1, <3>2 DEF TypeOK
    <3>3. UNCHANGED nodeVars
      BY <1>6, <2>2 DEF AddEdge
    <3>4. CASE UNCHANGED edgeVars /\ ret' = "corrupted"
      BY <3>6, <3>7, <3>3, <3>4 DEF TypeOK
    <3>5. CASE ~(UNCHANGED edgeVars /\ ret' = "corrupted")
      <4>1. /\ m_actual_edge_key \in EdgeKey
            /\ m_edges' = m_edges \cup {m_actual_edge_key}
            /\ m_start_node_key' =
                 [m_start_node_key EXCEPT ![m_actual_edge_key] = s]
            /\ m_end_node_key' =
                 [m_end_node_key EXCEPT ![m_actual_edge_key] = e]
            /\ m_actual_edge_key' = m_actual_edge_key + 1
            /\ ret' = "key" /\ m_edges_buf' = m_edges_buf
        BY <1>6, <2>2, <3>5 DEF AddEdge
      <4> QED BY <3>3, <3>6, <3>7, <4>1 DEF TypeOK
    <3> QED BY <3>4, <3>5
  <2> QED BY <2>1, <2>2
<1>7. ASSUME NEW s \in NodeKey, NEW e \in NodeKey, Unlink(s, e)
      PROVE  /\ m_successors' \in [Ptr -> [NodeKey -> Ptr \cup {Null}]]
             /\ m_predecessors' \in [Ptr -> [NodeKey -> Ptr \cup {Null}]]
  BY <1>7 DEF Unlink, TypeOK
<1>8. ASSUME NEW s \in NodeKey, NEW e \in NodeKey, DeleteEdge(s, e)
      PROVE  TypeOK'
  <2>1. CASE Refuse("undef")
    BY <1>1, <2>1
  <2>2. CASE ~Refuse("undef")
    BY <1>7, <1>8, <2>2 DEF DeleteEdge, TypeOK
  <2> QED BY <2>1, <2>2
<1>9. ASSUME NEW s \in NodeKey, NEW e \in NodeKey, CutEdge(s, e)
      PROVE  TypeOK'
  <2>1. CASE Refuse("undef")
    BY <1>1, <2>1
  <2>2. CASE ~Refuse("undef")
    BY <1>7, <1>9, <2>2 DEF CutEdge, TypeOK
  <2> QED BY <2>1, <2>2
<1>10. CASE PasteAll
  <2>1. NodesAfterPaste \in [NodeKey -> Ptr \cup {Null}]
    BY DEF NodesAfterPaste, TypeOK
  <2>2. /\ m_nodes' \in [NodeKey -> Ptr \cup {Null}]
        /\ m_nodes_buf' \in [NodeKey -> Ptr \cup {Null}]
        /\ UNCHANGED <<m_actual_node_key, nextPtr, freed>>
    BY <1>10, <2>1 DEF PasteAll, PasteNodes, TypeOK
  <2>3. CASE PasteEdges
    <3>1. PastedEdges \subseteq m_edges_buf
      BY DEF PastedEdges
    <3>2. /\ m_successors' \in [Ptr -> [NodeKey -> Ptr \cup {Null}]]
          /\ m_predecessors' \in [Ptr -> [NodeKey -> Ptr \cup {Null}]]
      BY <2>1, <2>3 DEF PasteEdges, TypeOK
    <3>3. ret' \in Result
      BY <1>10 DEF PasteAll
    <3> QED BY <2>2, <2>3, <3>1, <3>2, <3>3 DEF PasteEdges, TypeOK
  <2>4. CASE UNCHANGED <<adjVars, edgeVars>>
    BY <1>10, <2>2, <2>4 DEF PasteAll, TypeOK
  <2> QED BY <1>10, <2>3, <2>4 DEF PasteAll
<1>11. CASE UNCHANGED vars
  BY <1>11 DEF vars, TypeOK
<1> QED
  BY <1>2, <1>3, <1>4, <1>5, <1>6, <1>8, <1>9, <1>10, <1>11 DEF Next

(* Every reachable state has the right type, whatever the client does.     *)
THEOREM TypeCorrect == Spec => []TypeOK
<1>1. Init => TypeOK
  BY DEF Init, TypeOK, EmptyMap, Result
<1> QED
  BY <1>1, TypeStep, PTL DEF Spec

-----------------------------------------------------------------------------
(* OWNERSHIP, for every client                                             *)

(* Addresses are handed out in order and each is used once.                *)
PtrsFresh ==
  /\ \A n \in NodeKey : m_nodes[n] < nextPtr /\ m_nodes_buf[n] < nextPtr
  /\ \A p \in freed : p < nextPtr

(* NeverOwnedTwice, entry by entry.                                        *)
OwnedOnce ==
  /\ \A m, n \in NodeKey : m_nodes[m] # Null => m_nodes[m] # m_nodes_buf[n]
  /\ \A n \in NodeKey : m_nodes[n] \notin freed /\ m_nodes_buf[n] \notin freed
  /\ \A m, n \in NodeKey :
       /\ m_nodes[m] = m_nodes[n] /\ m_nodes[m] # Null => m = n
       /\ m_nodes_buf[m] = m_nodes_buf[n] /\ m_nodes_buf[m] # Null => m = n

OwnInv == TypeOK /\ KeysFresh /\ PtrsFresh /\ OwnedOnce

LEMMA OwnedOnceSuffices == TypeOK /\ OwnedOnce => NeverOwnedTwice
  BY DEF TypeOK, OwnedOnce, NeverOwnedTwice, Live, Cut, Null, Ptr

(* The calls that leave the node tables alone.                             *)
LEMMA OwnSameNodes ==
  ASSUME OwnInv, UNCHANGED nodeVars
  PROVE  PtrsFresh' /\ OwnedOnce'
  BY DEF OwnInv, nodeVars, PtrsFresh, OwnedOnce

(* The calls that leave the edge tables alone.                             *)
LEMMA FreshSameEdges ==
  ASSUME OwnInv, UNCHANGED edgeVars,
         \A n \in NodeKey :
           m_nodes'[n] # Null \/ m_nodes_buf'[n] # Null => n < m_actual_node_key'
  PROVE  KeysFresh'
  BY DEF OwnInv, edgeVars, KeysFresh

LEMMA OwnAddNode ==
  ASSUME OwnInv, NEW key \in NodeKey, AddNode(key), ~Refuse("undef")
  PROVE  KeysFresh' /\ PtrsFresh' /\ OwnedOnce'
<1> USE DEF Null
<1>1. /\ nextPtr \in Ptr /\ m_nodes' = [m_nodes EXCEPT ![key] = nextPtr]
      /\ nextPtr' = nextPtr + 1
      /\ m_actual_node_key' =
           1 + IF key > m_actual_node_key THEN key ELSE m_actual_node_key
      /\ m_nodes_buf' = m_nodes_buf /\ freed' = freed /\ UNCHANGED edgeVars
  BY DEF AddNode
<1>2. /\ nextPtr \in Nat /\ nextPtr # Null /\ nextPtr \notin freed
      /\ \A n \in NodeKey : /\ m_nodes[n] \in Nat /\ m_nodes_buf[n] \in Nat
                            /\ m_nodes[n] # nextPtr /\ m_nodes_buf[n] # nextPtr
  BY DEF OwnInv, TypeOK, PtrsFresh, Ptr
<1>3. m_nodes'[key] = nextPtr /\ \A n \in NodeKey \ {key} : m_nodes'[n] = m_nodes[n]
  BY <1>1 DEF OwnInv, TypeOK
<1>4. PtrsFresh'
  <2>1. \A n \in NodeKey : m_nodes'[n] < nextPtr' /\ m_nodes_buf'[n] < nextPtr'
    BY <1>1, <1>2, <1>3 DEF OwnInv, PtrsFresh
  <2>2. \A p \in freed' : p < nextPtr'
    BY <1>1, <1>2 DEF OwnInv, PtrsFresh, TypeOK, Ptr
  <2> QED BY <2>1, <2>2 DEF PtrsFresh
<1>5. OwnedOnce'
  BY <1>1, <1>2, <1>3 DEF OwnInv, OwnedOnce
<1>6. KeysFresh'
  <2>1. /\ key \in Nat /\ m_actual_node_key \in Nat /\ NodeKey \subseteq Nat
        /\ key < m_actual_node_key' /\ m_actual_node_key < m_actual_node_key'
        /\ m_actual_node_key' \in Nat
    BY <1>1 DEF OwnInv, TypeOK, NodeKey
  <2>2. ASSUME NEW n \in NodeKey, m_nodes'[n] # Null \/ m_nodes_buf'[n] # Null
        PROVE  n < m_actual_node_key'
    <3>1. CASE n = key
      BY <2>1, <3>1
    <3>2. CASE n # key
      <4>1. n < m_actual_node_key /\ n \in Nat
        BY <1>1, <1>3, <2>1, <2>2, <3>2 DEF OwnInv, KeysFresh
      <4> QED BY <2>1, <4>1
    <3> QED BY <3>1, <3>2
  <2> QED BY <1>1, <2>2, FreshSameEdges
<1> QED BY <1>4, <1>5, <1>6

LEMMA OwnAddNodes ==
  ASSUME OwnInv, NEW count \in 0 .. 2, AddNodes(count), ~Refuse("undef")
  PROVE  KeysFresh' /\ PtrsFresh' /\ OwnedOnce'
<1> USE DEF Null
<1> DEFINE new == m_actual_node_key .. m_actual_node_key + count - 1
<1>1. /\ count > 0
      /\ m_nodes' = [n \in NodeKey |->
           IF n \in new THEN nextPtr + (n - m_actual_node_key) ELSE m_nodes[n]]
      /\ nextPtr' = nextPtr + count
      /\ m_actual_node_key' = m_actual_node_key + count
      /\ m_nodes_buf' = m_nodes_buf /\ freed' = freed /\ UNCHANGED edgeVars
  BY DEF AddNodes
<1>2. /\ nextPtr \in Nat \ {0} /\ m_actual_node_key \in Nat \ {0} /\ count \in Nat
      /\ NodeKey \subseteq Nat
      /\ \A n \in NodeKey : /\ m_nodes[n] \in Nat /\ m_nodes_buf[n] \in Nat
                            /\ m_nodes[n] < nextPtr /\ m_nodes_buf[n] < nextPtr
      /\ \A p \in freed : p \in Nat /\ p < nextPtr
  BY DEF OwnInv, TypeOK, PtrsFresh, Ptr, NodeKey
<1>3. \A n \in NodeKey :
        /\ n \in new => /\ m_nodes'[n] = nextPtr + (n - m_actual_node_key)
                        /\ m_nodes'[n] >= nextPtr /\ m_nodes'[n] < nextPtr'
        /\ n \notin new => m_nodes'[n] = m_nodes[n]
  BY <1>1, <1>2
<1> HIDE DEF new
<1>4. PtrsFresh'
  BY <1>1, <1>2, <1>3 DEF PtrsFresh
<1>5. OwnedOnce'
  <2>1. ASSUME NEW m \in NodeKey, NEW n \in NodeKey,
               m_nodes'[m] = m_nodes'[n], m_nodes'[m] # Null
        PROVE  m = n
    <3>1. CASE m \in new /\ n \in new
      BY <1>2, <1>3, <2>1, <3>1
    <3>2. CASE m \notin new /\ n \notin new
      BY <1>3, <2>1, <3>2 DEF OwnInv, OwnedOnce
    <3>3. CASE (m \in new) # (n \in new)
      BY <1>2, <1>3, <2>1, <3>3
    <3> QED BY <3>1, <3>2, <3>3
  <2>2. \A m, n \in NodeKey : m_nodes'[m] # Null => m_nodes'[m] # m_nodes_buf'[n]
    BY <1>1, <1>2, <1>3 DEF OwnInv, OwnedOnce
  <2>3. \A n \in NodeKey : m_nodes'[n] \notin freed' /\ m_nodes_buf'[n] \notin freed'
    BY <1>1, <1>2, <1>3 DEF OwnInv, OwnedOnce
  <2>4. \A m, n \in NodeKey :
          m_nodes_buf'[m] = m_nodes_buf'[n] /\ m_nodes_buf'[m] # Null => m = n
    BY <1>1 DEF OwnInv, OwnedOnce
  <2> QED BY <2>1, <2>2, <2>3, <2>4 DEF OwnedOnce
<1>6. KeysFresh'
  <2>1. ASSUME NEW n \in NodeKey, m_nodes'[n] # Null \/ m_nodes_buf'[n] # Null
        PROVE  n < m_actual_node_key'
    <3>1. CASE n \in new
      BY <1>1, <1>2, <3>1 DEF new
    <3>2. CASE n \notin new
      BY <1>1, <1>2, <1>3, <2>1, <3>2 DEF OwnInv, KeysFresh
    <3> QED BY <3>1, <3>2
  <2> QED BY <1>1, <2>1, FreshSameEdges
<1> QED BY <1>4, <1>5, <1>6

LEMMA OwnDeleteNode ==
  ASSUME OwnInv, NEW n \in NodeKey, DeleteNode(n), ~Refuse("undef")
  PROVE  KeysFresh' /\ PtrsFresh' /\ OwnedOnce'
<1> USE DEF Null
<1>1. /\ m_nodes[n] # Null
      /\ m_nodes' = [m_nodes EXCEPT ![n] = Null]
      /\ freed' = freed \cup {m_nodes[n]}
      /\ m_edges' \subseteq m_edges /\ m_edges_buf' = m_edges_buf
      /\ m_actual_edge_key' = m_actual_edge_key
      /\ m_nodes_buf' = m_nodes_buf /\ nextPtr' = nextPtr
      /\ m_actual_node_key' = m_actual_node_key
  BY DEF DeleteNode, node_exists
<1>2. m_nodes'[n] = Null /\ \A m \in NodeKey \ {n} : m_nodes'[m] = m_nodes[m]
  BY <1>1 DEF OwnInv, TypeOK
<1>3. freed' \subseteq Ptr /\ Null \notin freed'
  <2>1. m_nodes[n] \in Ptr /\ freed \subseteq Ptr
    BY <1>1 DEF OwnInv, TypeOK
  <2>2. Null \notin Ptr
    BY DEF Ptr
  <2> QED BY <1>1, <2>1, <2>2
<1>4. PtrsFresh'
  BY <1>1, <1>2 DEF OwnInv, PtrsFresh, TypeOK
<1>5. OwnedOnce'
  BY <1>1, <1>2, <1>3 DEF OwnInv, OwnedOnce
<1>6. KeysFresh'
  BY <1>1, <1>2 DEF OwnInv, KeysFresh
<1> QED BY <1>4, <1>5, <1>6

LEMMA OwnCutNode ==
  ASSUME OwnInv, NEW n \in NodeKey, CutNode(n), ~Refuse("undef")
  PROVE  KeysFresh' /\ PtrsFresh' /\ OwnedOnce'
<1> USE DEF Null
<1>1. /\ m_edges' = m_edges \ Cuttable(n)
      /\ m_edges_buf' = m_edges_buf \cup Cuttable(n)
      /\ m_actual_edge_key' = m_actual_edge_key
      /\ Cuttable(n) \subseteq m_edges
  BY DEF CutNode, CutIncident, Cuttable, Reached, Incident
<1>2. CASE UNCHANGED nodeVars
  <2>1. PtrsFresh' /\ OwnedOnce'
    BY <1>2, OwnSameNodes
  <2>2. KeysFresh'
    BY <1>1, <1>2 DEF OwnInv, KeysFresh, nodeVars
  <2> QED BY <2>1, <2>2
<1>3. CASE ~UNCHANGED nodeVars
  <2>1. /\ m_nodes[n] # Null
        /\ m_nodes_buf' = [m_nodes_buf EXCEPT
             ![n] = IF @ = Null THEN m_nodes[n] ELSE @]
        /\ m_nodes' = [m_nodes EXCEPT ![n] = Null]
        /\ UNCHANGED <<m_actual_node_key, nextPtr, freed>>
    BY <1>3 DEF CutNode, node_exists
  <2>2. /\ m_nodes'[n] = Null
        /\ m_nodes_buf'[n] \in {m_nodes[n], m_nodes_buf[n]}
        /\ \A m \in NodeKey \ {n} :
             m_nodes'[m] = m_nodes[m] /\ m_nodes_buf'[m] = m_nodes_buf[m]
    <3>1. m_nodes_buf'[n] = IF m_nodes_buf[n] = Null THEN m_nodes[n]
                                                    ELSE m_nodes_buf[n]
      BY <2>1 DEF OwnInv, TypeOK
    <3> QED BY <2>1, <3>1 DEF OwnInv, TypeOK
  <2>6. freed' = freed /\ nextPtr' = nextPtr
        /\ m_actual_node_key' = m_actual_node_key
    BY <2>1
  <2>3. PtrsFresh'
    <3>1. \A m \in NodeKey : m_nodes'[m] < nextPtr' /\ m_nodes_buf'[m] < nextPtr'
      BY <2>2, <2>6 DEF OwnInv, PtrsFresh, TypeOK
    <3> QED BY <2>6, <3>1 DEF OwnInv, PtrsFresh
  <2>4. OwnedOnce'
    <3>1. Null \notin freed
      BY DEF OwnInv, TypeOK, Ptr
    <3> QED BY <2>1, <2>2, <2>6, <3>1 DEF OwnInv, OwnedOnce
  <2>5. KeysFresh'
    BY <1>1, <2>1, <2>2, <2>6 DEF OwnInv, KeysFresh
  <2> QED BY <2>3, <2>4, <2>5
<1> QED BY <1>2, <1>3

LEMMA OwnPasteAll ==
  ASSUME OwnInv, PasteAll
  PROVE  KeysFresh' /\ PtrsFresh' /\ OwnedOnce'
<1> USE DEF Null
<1>1. /\ UNCHANGED <<m_actual_node_key, nextPtr, freed>>
      /\ \A n \in NodeKey :
           \/ m_nodes'[n] = m_nodes[n] /\ m_nodes_buf'[n] = m_nodes_buf[n]
           \/ m_nodes'[n] = m_nodes_buf[n] /\ m_nodes_buf'[n] = Null
              /\ m_nodes_buf[n] # Null
  <2>1. \A n \in NodeKey :
          /\ m_nodes'[n] = IF n \in PastedNodes THEN m_nodes_buf[n] ELSE m_nodes[n]
          /\ m_nodes_buf'[n] = IF n \in PastedNodes THEN Null ELSE m_nodes_buf[n]
    BY DEF PasteAll, PasteNodes, NodesAfterPaste
  <2>2. \A n \in PastedNodes : m_nodes_buf[n] # Null
    BY DEF PastedNodes
  <2>3. UNCHANGED <<m_actual_node_key, nextPtr, freed>>
    BY DEF PasteAll, PasteNodes
  <2> QED BY <2>1, <2>2, <2>3
<1>2. /\ m_edges' \cup m_edges_buf' \subseteq m_edges \cup m_edges_buf
      /\ m_edges' \cap m_edges_buf' \subseteq m_edges \cap m_edges_buf
      /\ m_actual_edge_key' = m_actual_edge_key
  <2>1. PastedEdges \subseteq m_edges_buf
    BY DEF PastedEdges
  <2>2. CASE PasteEdges
    BY <2>1, <2>2 DEF PasteEdges, OwnInv, KeysFresh
  <2>3. CASE UNCHANGED edgeVars
    BY <2>3 DEF edgeVars
  <2> QED BY <2>2, <2>3 DEF PasteAll
<1>3. PtrsFresh'
  <2>1. \A n \in NodeKey : m_nodes'[n] < nextPtr' /\ m_nodes_buf'[n] < nextPtr'
    BY <1>1 DEF OwnInv, PtrsFresh, TypeOK
  <2> QED BY <1>1, <2>1 DEF OwnInv, PtrsFresh
<1>4. OwnedOnce'
  <2>1. Null \notin freed
    BY DEF OwnInv, TypeOK, Ptr
  <2> QED BY <1>1, <2>1 DEF OwnInv, OwnedOnce
<1>5. KeysFresh'
  BY <1>1, <1>2 DEF OwnInv, KeysFresh
<1> QED BY <1>3, <1>4, <1>5

(* The calls on edges.                                                     *)
LEMMA OwnEdgeCalls ==
  ASSUME OwnInv, NEW s \in NodeKey, NEW e \in NodeKey, ~Refuse("undef"),
         AddEdge(s, e) \/ DeleteEdge(s, e) \/ CutEdge(s, e)
  PROVE  KeysFresh' /\ PtrsFresh' /\ OwnedOnce'
<1>1. UNCHANGED nodeVars
  BY DEF AddEdge, DeleteEdge, CutEdge, Refuse, store
<1>2. PtrsFresh' /\ OwnedOnce'
  BY <1>1, OwnSameNodes
<1>3. \/ UNCHANGED edgeVars
      \/ /\ m_edges' = m_edges \cup {m_actual_edge_key}
         /\ m_edges_buf' = m_edges_buf
         /\ m_actual_edge_key' = m_actual_edge_key + 1
      \/ /\ m_edges' \subseteq m_edges
         /\ m_edges_buf' = m_edges_buf
         /\ m_actual_edge_key' = m_actual_edge_key
      \/ \E k \in m_edges :
           /\ m_edges' = m_edges \ {k}
           /\ m_edges_buf' = m_edges_buf \cup {k}
           /\ m_actual_edge_key' = m_actual_edge_key
  <2>1. CASE AddEdge(s, e)
    BY <2>1 DEF AddEdge, Refuse, store
  <2>2. CASE DeleteEdge(s, e)
    BY <2>2 DEF DeleteEdge
  <2>3. CASE CutEdge(s, e)
    BY <2>3 DEF CutEdge, FirstBetween, Between
  <2> QED BY <2>1, <2>2, <2>3
<1>4. m_edges \cup m_edges_buf \subseteq Nat /\ m_actual_edge_key \in Nat
  BY DEF OwnInv, TypeOK, EdgeKey
<1>5. KeysFresh'
  BY <1>1, <1>3, <1>4 DEF OwnInv, KeysFresh, nodeVars, edgeVars
<1> QED BY <1>2, <1>5

LEMMA OwnStep == OwnInv /\ [Next]_vars => OwnInv'
<1> SUFFICES ASSUME OwnInv, [Next]_vars PROVE OwnInv'
  OBVIOUS
<1>1. TypeOK'
  BY TypeStep DEF OwnInv
<1>2. CASE UNCHANGED store
  BY <1>1, <1>2 DEF OwnInv, store, nodeVars, edgeVars, KeysFresh, PtrsFresh, OwnedOnce
<1>3. CASE ~UNCHANGED store
  <2>1. ~Refuse("undef") /\ ~UNCHANGED vars
    BY <1>3 DEF Refuse, vars
  <2>2. KeysFresh' /\ PtrsFresh' /\ OwnedOnce'
    BY <2>1, OwnAddNode, OwnAddNodes, OwnDeleteNode, OwnCutNode, OwnEdgeCalls,
       OwnPasteAll DEF Next
  <2> QED BY <1>1, <2>2 DEF OwnInv
<1> QED BY <1>2, <1>3

THEOREM OwnInvCorrect == Spec => []OwnInv
<1>1. Init => OwnInv
  BY DEF Init, OwnInv, TypeOK, KeysFresh, PtrsFresh, OwnedOnce, EmptyMap, Null,
         Result, NodeKey
<1> QED
  BY <1>1, OwnStep, PTL DEF Spec

(* Generated keys never collide, and an edge is never live and cut at once.*)
THEOREM KeysFreshCorrect == Spec => []KeysFresh
<1>1. OwnInv => KeysFresh
  BY DEF OwnInv
<1> QED
  BY <1>1, OwnInvCorrect, PTL

(* No sequence of calls makes the destructor free a node twice.            *)
THEOREM NeverOwnedTwiceCorrect == Spec => []NeverOwnedTwice
<1>1. OwnInv => NeverOwnedTwice
  BY OwnedOnceSuffices DEF OwnInv
<1> QED
  BY <1>1, OwnInvCorrect, PTL

-----------------------------------------------------------------------------
(* COHERENCE, for the clients that keep the contract                       *)

(* AdjacencyMatchesEdges in two parts: the maps of the live nodes, and     *)
(* those of all other addresses.                                           *)
AdjLive ==
  \A s, e \in NodeKey : m_nodes[s] # Null =>
    /\ m_successors[m_nodes[s]][e] =
         IF \E k \in m_edges : m_start_node_key[k] = s /\ m_end_node_key[k] = e
           THEN m_nodes[e] ELSE Null
    /\ m_predecessors[m_nodes[s]][e] =
         IF \E k \in m_edges : m_start_node_key[k] = e /\ m_end_node_key[k] = s
           THEN m_nodes[e] ELSE Null
AdjElse ==
  \A p \in Ptr : (\A n \in NodeKey : m_nodes[n] # p) =>
    m_successors[p] = EmptyMap /\ m_predecessors[p] = EmptyMap

Allocated ==
  \A p \in Ptr : p < nextPtr =>
    \/ \E n \in NodeKey : m_nodes[n] = p \/ m_nodes_buf[n] = p
    \/ p \in freed

CohInv ==
  /\ OwnInv
  /\ AdjLive
  /\ AdjElse
  /\ NoTwinEdges
  /\ Restorable
  /\ Allocated
  /\ NeverCorrupted

(* What a step owes to the invariant once OwnInv is known to hold.         *)
Coherent == AdjLive /\ AdjElse /\ NoTwinEdges /\ Restorable /\ Allocated

LEMMA AdjSuffices == TypeOK /\ AdjLive /\ AdjElse => AdjacencyMatchesEdges
<1> SUFFICES ASSUME TypeOK, AdjLive, AdjElse PROVE AdjacencyMatchesEdges
  OBVIOUS
<1>1. \A s, e \in NodeKey :
        Between(s, e) # {} <=>
          \E k \in m_edges : m_start_node_key[k] = s /\ m_end_node_key[k] = e
  BY DEF Between
<1>2. \A p \in Ptr \ Live : \A n \in NodeKey : m_nodes[n] # p
  BY DEF Live, Null, Ptr
<1> QED BY <1>1, <1>2 DEF AdjLive, AdjElse, AdjacencyMatchesEdges, node_exists

LEMMA AllocatedSuffices == TypeOK /\ Allocated => NoLeak
  BY DEF TypeOK, Allocated, NoLeak, Live, Cut, Null, Ptr

(* Nodes appear under keys that nothing mentions, at addresses never used. *)
LEMMA CohGrow ==
  ASSUME CohInv, TypeOK', NEW N \in SUBSET NodeKey,
         \A n \in NodeKey :
           /\ n \in N => /\ m_nodes[n] = Null /\ m_nodes_buf[n] = Null
                         /\ m_nodes'[n] \in Ptr /\ m_nodes'[n] >= nextPtr
           /\ n \notin N => m_nodes'[n] = m_nodes[n],
         \A p \in Ptr : p >= nextPtr /\ p < nextPtr' =>
           \E n \in NodeKey : m_nodes'[n] = p,
         UNCHANGED <<m_nodes_buf, freed, adjVars, edgeVars>>
  PROVE  Coherent'
<1> USE DEF CohInv, adjVars, edgeVars, Null
<1>1. \A k \in m_edges \cup m_edges_buf :
        m_start_node_key[k] \notin N /\ m_end_node_key[k] \notin N
  BY DEF Restorable, node_exists
<1>2. \A n \in NodeKey, p \in Ptr : m_nodes[n] = p => m_nodes'[n] = p
  BY DEF Ptr
<1>3. \A n \in N : /\ m_nodes'[n] # Null
                   /\ m_successors[m_nodes'[n]] = EmptyMap
                   /\ m_predecessors[m_nodes'[n]] = EmptyMap
  <2> SUFFICES ASSUME NEW n \in N
               PROVE  /\ m_nodes'[n] # Null
                      /\ m_successors[m_nodes'[n]] = EmptyMap
                      /\ m_predecessors[m_nodes'[n]] = EmptyMap
    OBVIOUS
  <2>1. m_nodes'[n] \in Ptr /\ m_nodes'[n] >= nextPtr
    OBVIOUS
  <2>2. \A m \in NodeKey : m_nodes[m] < nextPtr /\ m_nodes[m] \in Nat
    BY DEF OwnInv, PtrsFresh, TypeOK, Ptr
  <2>3. \A m \in NodeKey : m_nodes[m] # m_nodes'[n]
    BY <2>1, <2>2 DEF OwnInv, TypeOK, Ptr
  <2> QED BY <2>1, <2>3 DEF AdjElse, Ptr
<1>4. AdjLive'
  <2> SUFFICES ASSUME NEW s \in NodeKey, NEW e \in NodeKey, m_nodes'[s] # Null
               PROVE  /\ m_successors[m_nodes'[s]][e] =
                           IF \E k \in m_edges : m_start_node_key[k] = s
                                                 /\ m_end_node_key[k] = e
                             THEN m_nodes'[e] ELSE Null
                      /\ m_predecessors[m_nodes'[s]][e] =
                           IF \E k \in m_edges : m_start_node_key[k] = e
                                                 /\ m_end_node_key[k] = s
                             THEN m_nodes'[e] ELSE Null
    BY DEF AdjLive
  <2>1. CASE s \in N
    BY <1>1, <1>3, <2>1 DEF EmptyMap
  <2>2. CASE s \notin N /\ e \in N
    BY <1>1, <2>2 DEF AdjLive
  <2>3. CASE s \notin N /\ e \notin N
    BY <2>3 DEF AdjLive
  <2> QED BY <2>1, <2>2, <2>3
<1>5. AdjElse'
  BY <1>2 DEF AdjElse
<1>6. NoTwinEdges'
  BY DEF NoTwinEdges
<1>7. Restorable'
  BY <1>1 DEF Restorable, node_exists
<1>8. Allocated'
  <2> SUFFICES ASSUME NEW p \in Ptr, p < nextPtr'
               PROVE  \/ \E n \in NodeKey : m_nodes'[n] = p \/ m_nodes_buf[n] = p
                      \/ p \in freed
    BY DEF Allocated
  <2>1. CASE p < nextPtr
    BY <1>2, <2>1 DEF Allocated
  <2>2. CASE ~(p < nextPtr)
    BY <2>2 DEF OwnInv, TypeOK, Ptr
  <2> QED BY <2>1, <2>2
<1> QED BY <1>4, <1>5, <1>6, <1>7, <1>8 DEF Coherent

LEMMA CohAddNode ==
  ASSUME CohInv, TypeOK', NEW key \in NodeKey, KeyNotCut(key), AddNode(key),
         ~Refuse("undef")
  PROVE  Coherent' /\ ret' = "key"
<1>1. /\ m_nodes[key] = Null /\ m_nodes_buf[key] = Null
      /\ nextPtr \in Ptr /\ m_nodes' = [m_nodes EXCEPT ![key] = nextPtr]
      /\ nextPtr' = nextPtr + 1 /\ ret' = "key"
      /\ UNCHANGED <<m_nodes_buf, freed, adjVars, edgeVars>>
  BY DEF AddNode, KeyNotCut, node_exists
<1>2. m_nodes'[key] = nextPtr /\ \A n \in NodeKey \ {key} : m_nodes'[n] = m_nodes[n]
  BY <1>1 DEF CohInv, OwnInv, TypeOK
<1>3. nextPtr \in Nat /\ \A p \in Ptr : p >= nextPtr /\ p < nextPtr' => p = nextPtr
  BY <1>1 DEF Ptr
<1> DEFINE N == {key}
<1>4. \A n \in NodeKey :
        /\ n \in N => /\ m_nodes[n] = Null /\ m_nodes_buf[n] = Null
                      /\ m_nodes'[n] \in Ptr /\ m_nodes'[n] >= nextPtr
        /\ n \notin N => m_nodes'[n] = m_nodes[n]
  BY <1>1, <1>2, <1>3
<1>5. \A p \in Ptr : p >= nextPtr /\ p < nextPtr' =>
        \E n \in NodeKey : m_nodes'[n] = p
  BY <1>2, <1>3
<1>6. N \in SUBSET NodeKey
  OBVIOUS
<1> HIDE DEF N
<1> QED BY <1>1, <1>4, <1>5, <1>6, CohGrow

LEMMA CohAddNodes ==
  ASSUME CohInv, TypeOK', NEW count \in 0 .. 2, AddNodes(count), ~Refuse("undef")
  PROVE  Coherent' /\ ret' = "key"
<1> DEFINE N == m_actual_node_key .. m_actual_node_key + count - 1
<1>1. /\ count > 0
      /\ m_actual_node_key + count - 1 \in NodeKey
      /\ m_nodes' = [n \in NodeKey |->
           IF n \in N THEN nextPtr + (n - m_actual_node_key) ELSE m_nodes[n]]
      /\ nextPtr' = nextPtr + count /\ nextPtr + count - 1 \in Ptr
      /\ ret' = "key"
      /\ UNCHANGED <<m_nodes_buf, freed, adjVars, edgeVars>>
  BY DEF AddNodes
<1>2. nextPtr \in Nat \ {0} /\ m_actual_node_key \in Nat \ {0}
  BY DEF CohInv, OwnInv, TypeOK
<1>3. N \in SUBSET NodeKey
  BY <1>1, <1>2, BoundsAssumption DEF NodeKey
<1>4. \A n \in NodeKey :
        /\ n \in N => /\ m_nodes[n] = Null /\ m_nodes_buf[n] = Null
                      /\ m_nodes'[n] \in Ptr /\ m_nodes'[n] >= nextPtr
        /\ n \notin N => m_nodes'[n] = m_nodes[n]
  <2> SUFFICES ASSUME NEW n \in NodeKey, n \in N
               PROVE  /\ m_nodes[n] = Null /\ m_nodes_buf[n] = Null
                      /\ m_nodes'[n] \in Ptr /\ m_nodes'[n] >= nextPtr
    BY <1>1
  <2>1. n \in Int /\ ~(n < m_actual_node_key)
    BY <1>2
  <2>2. m_nodes[n] = Null /\ m_nodes_buf[n] = Null
    BY <2>1 DEF CohInv, OwnInv, KeysFresh
  <2>3. m_nodes'[n] = nextPtr + (n - m_actual_node_key)
    BY <1>1
  <2> QED BY <1>1, <1>2, <2>2, <2>3, BoundsAssumption DEF Ptr
<1>5. \A p \in Ptr : p >= nextPtr /\ p < nextPtr' =>
        \E n \in NodeKey : m_nodes'[n] = p
  <2> SUFFICES ASSUME NEW p \in Ptr, p >= nextPtr, p < nextPtr'
               PROVE  \E n \in NodeKey : m_nodes'[n] = p
    OBVIOUS
  <2> DEFINE n == m_actual_node_key + (p - nextPtr)
  <2>1. p \in Int /\ n \in N /\ n \in NodeKey
    BY <1>1, <1>2, <1>3 DEF Ptr
  <2>2. m_nodes'[n] = nextPtr + (n - m_actual_node_key)
    BY <1>1, <2>1
  <2> QED BY <1>2, <2>1, <2>2
<1> HIDE DEF N
<1> QED BY <1>1, <1>3, <1>4, <1>5, CohGrow

LEMMA CohDeleteNode ==
  ASSUME CohInv, TypeOK', NEW n \in NodeKey, NoEdgeAt(n), DeleteNode(n),
         ~Refuse("undef")
  PROVE  Coherent' /\ ret' = "key" /\ UNCHANGED edgeVars
<1> USE DEF CohInv, Null
<1>1. Incident(n) = {}
  BY DEF Incident, NoEdgeAt
<1>2. /\ m_nodes[n] # Null
      /\ m_nodes' = [m_nodes EXCEPT ![n] = Null]
      /\ m_successors' = [m_successors EXCEPT ![m_nodes[n]] = EmptyMap]
      /\ m_predecessors' = [m_predecessors EXCEPT ![m_nodes[n]] = EmptyMap]
      /\ freed' = freed \cup {m_nodes[n]}
      /\ m_nodes_buf' = m_nodes_buf /\ nextPtr' = nextPtr
      /\ m_edges' = m_edges /\ m_edges_buf' = m_edges_buf
      /\ m_actual_edge_key' = m_actual_edge_key
      /\ ret' = "key"
  BY <1>1 DEF DeleteNode, node_exists
<1>3. m_start_node_key' = m_start_node_key /\ m_end_node_key' = m_end_node_key
  BY <1>1 DEF DeleteNode, node_exists, Refuse, OwnInv, TypeOK
<1>4. /\ m_nodes'[n] = Null /\ m_nodes[n] \in Ptr
      /\ \A m \in NodeKey \ {n} :
           m_nodes'[m] = m_nodes[m] /\ (m_nodes[m] # Null => m_nodes[m] # m_nodes[n])
  BY <1>2 DEF OwnInv, TypeOK, OwnedOnce
<1>5. /\ m_successors'[m_nodes[n]] = EmptyMap
      /\ m_predecessors'[m_nodes[n]] = EmptyMap
      /\ \A p \in Ptr \ {m_nodes[n]} : /\ m_successors'[p] = m_successors[p]
                                       /\ m_predecessors'[p] = m_predecessors[p]
  BY <1>2, <1>4 DEF OwnInv, TypeOK
<1>6. \A k \in m_edges : m_start_node_key[k] # n /\ m_end_node_key[k] # n
  BY DEF NoEdgeAt
<1>7. AdjLive'
  <2> SUFFICES ASSUME NEW s \in NodeKey, NEW e \in NodeKey, m_nodes'[s] # Null
               PROVE  /\ m_successors'[m_nodes'[s]][e] =
                           IF \E k \in m_edges : m_start_node_key[k] = s
                                                 /\ m_end_node_key[k] = e
                             THEN m_nodes'[e] ELSE Null
                      /\ m_predecessors'[m_nodes'[s]][e] =
                           IF \E k \in m_edges : m_start_node_key[k] = e
                                                 /\ m_end_node_key[k] = s
                             THEN m_nodes'[e] ELSE Null
    BY <1>2, <1>3 DEF AdjLive
  <2>1. s # n /\ m_nodes'[s] = m_nodes[s] /\ m_nodes[s] \in Ptr \ {m_nodes[n]}
    BY <1>4 DEF OwnInv, TypeOK
  <2>2. /\ m_successors'[m_nodes'[s]] = m_successors[m_nodes[s]]
        /\ m_predecessors'[m_nodes'[s]] = m_predecessors[m_nodes[s]]
    BY <1>5, <2>1
  <2>3. CASE e = n
    BY <1>6, <2>1, <2>2, <2>3 DEF AdjLive
  <2>4. CASE e # n
    BY <1>4, <2>1, <2>2, <2>4 DEF AdjLive
  <2> QED BY <2>3, <2>4
<1>8. AdjElse'
  <2> SUFFICES ASSUME NEW p \in Ptr, \A m \in NodeKey : m_nodes'[m] # p
               PROVE  m_successors'[p] = EmptyMap /\ m_predecessors'[p] = EmptyMap
    BY DEF AdjElse
  <2>1. CASE p = m_nodes[n]
    BY <1>5, <2>1
  <2>2. CASE p # m_nodes[n]
    BY <1>4, <1>5, <2>2 DEF AdjElse
  <2> QED BY <2>1, <2>2
<1>9. NoTwinEdges' /\ Restorable'
  BY <1>2, <1>3, <1>4 DEF NoTwinEdges, Restorable, node_exists, NoEdgeAt
<1>10. Allocated'
  BY <1>2, <1>4 DEF Allocated
<1> QED BY <1>2, <1>3, <1>7, <1>8, <1>9, <1>10 DEF Coherent, edgeVars

(* A live edge has live ends, and both its map entries.                    *)
LEMMA LiveEnds ==
  ASSUME CohInv, NEW k \in m_edges
  PROVE  /\ m_start_node_key[k] \in NodeKey /\ m_end_node_key[k] \in NodeKey
         /\ m_nodes[m_start_node_key[k]] \in Ptr
         /\ m_nodes[m_end_node_key[k]] \in Ptr
         /\ m_successors[m_nodes[m_start_node_key[k]]][m_end_node_key[k]] # Null
         /\ m_predecessors[m_nodes[m_end_node_key[k]]][m_start_node_key[k]] # Null
<1> USE DEF CohInv
<1>1. m_start_node_key[k] \in NodeKey /\ m_end_node_key[k] \in NodeKey
  BY DEF Restorable, OwnInv, TypeOK
<1>2. /\ m_nodes[m_start_node_key[k]] # Null
      /\ m_nodes[m_end_node_key[k]] # Null
  <2>1. k \notin m_edges_buf
    BY DEF OwnInv, KeysFresh
  <2> QED BY <1>1, <2>1 DEF Restorable, node_exists
<1>3. /\ m_nodes[m_start_node_key[k]] \in Ptr
      /\ m_nodes[m_end_node_key[k]] \in Ptr
  BY <1>1, <1>2 DEF OwnInv, TypeOK
<1> QED BY <1>1, <1>2, <1>3 DEF AdjLive

LEMMA CohCutNode ==
  ASSUME CohInv, TypeOK', NEW n \in NodeKey, CutNode(n), ~Refuse("undef")
  PROVE  /\ Coherent' /\ ret' = "key"
         /\ m_nodes[n] # Null
         /\ m_nodes' = [m_nodes EXCEPT ![n] = Null]
         /\ m_nodes_buf' = [m_nodes_buf EXCEPT ![n] = m_nodes[n]]
         /\ m_edges' = m_edges \ Incident(n)
         /\ m_edges_buf' = m_edges_buf \cup Incident(n)
         /\ UNCHANGED <<m_start_node_key, m_end_node_key>>
<1> USE DEF CohInv, Null
<1>1. Dead(n) = {}
  <2>1. \A k \in m_edges : /\ m_nodes[m_start_node_key[k]] # Null
                           /\ m_nodes[m_end_node_key[k]] # Null
    BY LiveEnds DEF Ptr
  <2> QED BY <2>1 DEF Dead, Incident, node_exists
<1>2. Reached(n) = Incident(n) /\ Thrower(n) = {}
  BY <1>1 DEF Reached, Thrower
<1>3. Cuttable(n) = Incident(n)
  <2>1. ASSUME NEW k \in Incident(n),
               NEW j \in Incident(n) \cap Between(m_start_node_key[k], m_end_node_key[k])
        PROVE  j >= k
    <3>1. j = k
      BY DEF Incident, Between, NoTwinEdges
    <3> QED BY <3>1 DEF Incident, OwnInv, TypeOK, EdgeKey
  <2>2. ASSUME NEW k \in Incident(n)
        PROVE  /\ HasSuccessor(m_start_node_key[k], m_end_node_key[k])
               /\ HasPredecessor(m_end_node_key[k], m_start_node_key[k])
    <3>1. k \in m_edges
      BY DEF Incident
    <3> QED BY <3>1, LiveEnds DEF HasSuccessor, HasPredecessor
  <2> QED BY <1>2, <2>1, <2>2 DEF Cuttable
<1>4. /\ m_nodes[n] # Null /\ CutIncident(n) /\ ret' = "key"
      /\ m_nodes_buf' = [m_nodes_buf EXCEPT
           ![n] = IF @ = Null THEN m_nodes[n] ELSE @]
      /\ m_nodes' = [m_nodes EXCEPT ![n] = Null]
      /\ UNCHANGED <<m_actual_node_key, nextPtr, freed>>
  BY <1>1 DEF CutNode, node_exists
<1>5. m_nodes_buf[n] = Null
  BY <1>4 DEF Restorable
<1>6. m_nodes_buf' = [m_nodes_buf EXCEPT ![n] = m_nodes[n]]
  BY <1>4, <1>5 DEF OwnInv, TypeOK
<1>7. /\ m_edges' = m_edges \ Incident(n)
      /\ m_edges_buf' = m_edges_buf \cup Incident(n)
      /\ UNCHANGED <<m_start_node_key, m_end_node_key>>
  BY <1>3, <1>4 DEF CutIncident
<1>8. /\ m_nodes'[n] = Null /\ m_nodes[n] \in Ptr
      /\ m_nodes_buf'[n] = m_nodes[n]
      /\ \A m \in NodeKey \ {n} :
           m_nodes'[m] = m_nodes[m] /\ m_nodes_buf'[m] = m_nodes_buf[m]
      /\ \A m, r \in NodeKey : m_nodes[m] = m_nodes[r] /\ m_nodes[m] # Null => m = r
  BY <1>4, <1>6 DEF OwnInv, TypeOK, OwnedOnce
<1>9. \A p \in Ptr, t \in NodeKey :
        /\ m_successors'[p][t] =
             IF \E k \in Incident(n) :
                  m_nodes[m_start_node_key[k]] = p /\ m_end_node_key[k] = t
               THEN Null ELSE m_successors[p][t]
        /\ m_predecessors'[p][t] =
             IF \E k \in Incident(n) :
                  m_nodes[m_end_node_key[k]] = p /\ m_start_node_key[k] = t
               THEN Null ELSE m_predecessors[p][t]
  BY <1>2, <1>4 DEF CutIncident
<1>10. \A k \in m_edges : /\ m_start_node_key[k] \in NodeKey
                          /\ m_end_node_key[k] \in NodeKey
                          /\ m_nodes[m_start_node_key[k]] # Null
                          /\ m_nodes[m_end_node_key[k]] # Null
  BY LiveEnds DEF Ptr
<1>11. \A k : k \in Incident(n) <=>
         k \in m_edges /\ (m_start_node_key[k] = n \/ m_end_node_key[k] = n)
  BY DEF Incident
<1>12. AdjLive'
  <2> SUFFICES ASSUME NEW s \in NodeKey, NEW e \in NodeKey, m_nodes'[s] # Null
               PROVE  /\ m_successors'[m_nodes'[s]][e] =
                           IF \E k \in m_edges' : m_start_node_key[k] = s
                                                  /\ m_end_node_key[k] = e
                             THEN m_nodes'[e] ELSE Null
                      /\ m_predecessors'[m_nodes'[s]][e] =
                           IF \E k \in m_edges' : m_start_node_key[k] = e
                                                  /\ m_end_node_key[k] = s
                             THEN m_nodes'[e] ELSE Null
    BY <1>7 DEF AdjLive
  <2>1. s # n /\ m_nodes'[s] = m_nodes[s] /\ m_nodes[s] \in Ptr
    BY <1>8 DEF OwnInv, TypeOK
  <2>2. \A k \in m_edges : /\ m_nodes[m_start_node_key[k]] = m_nodes[s]
                                <=> m_start_node_key[k] = s
                           /\ m_nodes[m_end_node_key[k]] = m_nodes[s]
                                <=> m_end_node_key[k] = s
    BY <1>8, <1>10
  <2>3. CASE e = n
    BY <1>7, <1>9, <1>11, <2>1, <2>2, <2>3 DEF AdjLive
  <2>4. CASE e # n
    <3>1. \A k \in Incident(n) :
            /\ ~(m_nodes[m_start_node_key[k]] = m_nodes[s] /\ m_end_node_key[k] = e)
            /\ ~(m_nodes[m_end_node_key[k]] = m_nodes[s] /\ m_start_node_key[k] = e)
      BY <1>11, <2>1, <2>2, <2>4
    <3>2. /\ m_successors'[m_nodes'[s]][e] = m_successors[m_nodes[s]][e]
          /\ m_predecessors'[m_nodes'[s]][e] = m_predecessors[m_nodes[s]][e]
      BY <1>9, <2>1, <3>1
    <3>3. \A k : /\ m_start_node_key[k] \in {s, e} /\ m_end_node_key[k] \in {s, e}
                    => (k \in m_edges' <=> k \in m_edges)
      BY <1>7, <1>11, <2>1, <2>4
    <3> QED BY <1>8, <2>1, <2>4, <3>2, <3>3 DEF AdjLive
  <2> QED BY <2>3, <2>4
<1>13. AdjElse'
  <2> SUFFICES ASSUME NEW p \in Ptr, \A m \in NodeKey : m_nodes'[m] # p
               PROVE  m_successors'[p] = EmptyMap /\ m_predecessors'[p] = EmptyMap
    BY DEF AdjElse
  <2>1. ASSUME NEW t \in NodeKey
        PROVE  m_successors'[p][t] = Null /\ m_predecessors'[p][t] = Null
    <3>1. CASE p = m_nodes[n]
      <4>1. \A k \in m_edges :
              /\ m_start_node_key[k] = n => k \in Incident(n) /\ m_nodes[m_start_node_key[k]] = p
              /\ m_end_node_key[k] = n => k \in Incident(n) /\ m_nodes[m_end_node_key[k]] = p
        BY <1>11, <3>1
      <4>2. /\ m_successors[p][t] =
                 IF \E k \in m_edges : m_start_node_key[k] = n /\ m_end_node_key[k] = t
                   THEN m_nodes[t] ELSE Null
            /\ m_predecessors[p][t] =
                 IF \E k \in m_edges : m_start_node_key[k] = t /\ m_end_node_key[k] = n
                   THEN m_nodes[t] ELSE Null
        BY <1>4, <3>1 DEF AdjLive
      <4> QED BY <1>9, <4>1, <4>2
    <3>2. CASE p # m_nodes[n]
      <4>1. \A m \in NodeKey : m_nodes[m] # p
        BY <1>8, <3>2
      <4>2. m_successors[p] = EmptyMap /\ m_predecessors[p] = EmptyMap
        BY <4>1 DEF AdjElse
      <4> QED BY <1>9, <4>2 DEF EmptyMap
    <3> QED BY <3>1, <3>2
  <2>2. /\ m_successors'[p] \in [NodeKey -> Ptr \cup {Null}]
        /\ m_predecessors'[p] \in [NodeKey -> Ptr \cup {Null}]
    BY DEF TypeOK
  <2> QED BY <2>1, <2>2 DEF EmptyMap
<1>14. NoTwinEdges'
  <2>1. m_edges' \cup m_edges_buf' = m_edges \cup m_edges_buf
    BY <1>7, <1>11
  <2> QED BY <1>7, <2>1 DEF NoTwinEdges
<1>15. Restorable'
  <2>1. \A m \in NodeKey : m_nodes'[m] = Null \/ m_nodes_buf'[m] = Null
    BY <1>8 DEF Restorable
  <2>2. ASSUME NEW k \in m_edges' \cup m_edges_buf', NEW m \in NodeKey,
               m \in {m_start_node_key[k], m_end_node_key[k]}
        PROVE  m_nodes'[m] # Null \/ (k \in m_edges_buf' /\ m_nodes_buf'[m] # Null)
    <3>1. k \in m_edges \cup m_edges_buf
      BY <1>7, <1>11
    <3>2. CASE m = n
      BY <1>4, <1>7, <1>8, <1>11, <2>2, <3>2
    <3>3. CASE m # n
      BY <1>7, <1>8, <2>2, <3>1, <3>3 DEF Restorable, node_exists
    <3> QED BY <3>2, <3>3
  <2>3. m_edges' \cup m_edges_buf' = m_edges \cup m_edges_buf
    BY <1>7, <1>11
  <2>4. \A k \in m_edges' \cup m_edges_buf' :
          m_start_node_key'[k] # Null /\ m_end_node_key'[k] # Null
    BY <1>7, <2>3 DEF Restorable
  <2> QED BY <1>7, <2>1, <2>2, <2>4 DEF Restorable, node_exists
<1>16. Allocated'
  BY <1>4, <1>8 DEF Allocated
<1> QED BY <1>4, <1>6, <1>7, <1>12, <1>13, <1>14, <1>15, <1>16 DEF Coherent

(* An edge leaves the live table together with its two map entries; its    *)
(* row is freed (delete_edge) or goes to the buffer (cut_edge).            *)
LEMMA CohUnlink ==
  ASSUME CohInv, TypeOK', NEW s \in NodeKey, NEW e \in NodeKey,
         NEW k \in m_edges, m_start_node_key[k] = s, m_end_node_key[k] = e,
         m_nodes[s] # Null, m_nodes[e] # Null,
         Unlink(s, e), UNCHANGED nodeVars, m_edges' = m_edges \ {k},
         m_edges_buf' \in {m_edges_buf, m_edges_buf \cup {k}},
         \A j \in m_edges' \cup m_edges_buf' :
           /\ m_start_node_key'[j] = m_start_node_key[j]
           /\ m_end_node_key'[j] = m_end_node_key[j]
  PROVE  Coherent'
<1> USE DEF CohInv, Null
<1>1. /\ m_nodes' = m_nodes /\ m_nodes_buf' = m_nodes_buf
      /\ nextPtr' = nextPtr /\ freed' = freed
  BY DEF nodeVars
<1>2. /\ m_nodes[s] \in Ptr /\ m_nodes[e] \in Ptr
      /\ \A m, r \in NodeKey : m_nodes[m] = m_nodes[r] /\ m_nodes[m] # Null => m = r
  BY DEF OwnInv, TypeOK, OwnedOnce
<1>3. /\ m_successors' = [m_successors EXCEPT ![m_nodes[s]][e] = Null]
      /\ m_predecessors' = [m_predecessors EXCEPT ![m_nodes[e]][s] = Null]
  BY DEF Unlink
<1>4. \A p \in Ptr, t \in NodeKey :
        /\ m_successors'[p][t] =
             IF p = m_nodes[s] /\ t = e THEN Null ELSE m_successors[p][t]
        /\ m_predecessors'[p][t] =
             IF p = m_nodes[e] /\ t = s THEN Null ELSE m_predecessors[p][t]
  BY <1>2, <1>3 DEF OwnInv, TypeOK
<1>5. \A p \in Ptr : /\ p # m_nodes[s] => m_successors'[p] = m_successors[p]
                     /\ p # m_nodes[e] => m_predecessors'[p] = m_predecessors[p]
  BY <1>2, <1>3 DEF OwnInv, TypeOK
<1>6. \A j \in m_edges : m_start_node_key[j] = s /\ m_end_node_key[j] = e => j = k
  BY DEF NoTwinEdges
<1>7. AdjLive'
  <2> SUFFICES ASSUME NEW v \in NodeKey, NEW w \in NodeKey, m_nodes[v] # Null
               PROVE  /\ m_successors'[m_nodes[v]][w] =
                           IF \E j \in m_edges' : m_start_node_key'[j] = v
                                                  /\ m_end_node_key'[j] = w
                             THEN m_nodes[w] ELSE Null
                      /\ m_predecessors'[m_nodes[v]][w] =
                           IF \E j \in m_edges' : m_start_node_key'[j] = w
                                                  /\ m_end_node_key'[j] = v
                             THEN m_nodes[w] ELSE Null
    BY <1>1 DEF AdjLive
  <2>1. /\ m_nodes[v] \in Ptr
        /\ m_nodes[v] = m_nodes[s] <=> v = s
        /\ m_nodes[v] = m_nodes[e] <=> v = e
    BY <1>2 DEF OwnInv, TypeOK
  <2>2. ASSUME NEW x, NEW y, ~(x = s /\ y = e)
        PROVE  (\E j \in m_edges' : m_start_node_key'[j] = x /\ m_end_node_key'[j] = y)
                 <=> \E j \in m_edges : m_start_node_key[j] = x /\ m_end_node_key[j] = y
    BY <2>2
  <2>3. ~\E j \in m_edges' : m_start_node_key'[j] = s /\ m_end_node_key'[j] = e
    BY <1>6
  <2>4. m_successors'[m_nodes[v]][w] =
          IF \E j \in m_edges' : m_start_node_key'[j] = v /\ m_end_node_key'[j] = w
            THEN m_nodes[w] ELSE Null
    <3>1. CASE v = s /\ w = e
      BY <1>4, <2>1, <2>3, <3>1
    <3>2. CASE ~(v = s /\ w = e)
      BY <1>4, <2>1, <2>2, <3>2 DEF AdjLive
    <3> QED BY <3>1, <3>2
  <2>5. m_predecessors'[m_nodes[v]][w] =
          IF \E j \in m_edges' : m_start_node_key'[j] = w /\ m_end_node_key'[j] = v
            THEN m_nodes[w] ELSE Null
    <3>1. CASE w = s /\ v = e
      BY <1>4, <2>1, <2>3, <3>1
    <3>2. CASE ~(w = s /\ v = e)
      BY <1>4, <2>1, <2>2, <3>2 DEF AdjLive
    <3> QED BY <3>1, <3>2
  <2> QED BY <2>4, <2>5
<1>8. AdjElse'
  BY <1>1, <1>5 DEF AdjElse
<1>9. NoTwinEdges'
  <2>1. m_edges' \cup m_edges_buf' \subseteq m_edges \cup m_edges_buf
    OBVIOUS
  <2> QED BY <2>1 DEF NoTwinEdges
<1>10. Restorable'
  <2>1. m_edges' \cup m_edges_buf' \subseteq m_edges \cup m_edges_buf
    OBVIOUS
  <2> QED BY <1>1, <2>1 DEF Restorable, node_exists
<1>11. Allocated'
  BY <1>1 DEF Allocated
<1> QED BY <1>7, <1>8, <1>9, <1>10, <1>11 DEF Coherent

(* delete_edge and cut_edge find the edge linked both ways.                *)
LEMMA FirstLinked ==
  ASSUME CohInv, NEW s \in NodeKey, NEW e \in NodeKey, NEW k \in EdgeKey,
         FirstBetween(k, s, e)
  PROVE  k \in m_edges /\ m_start_node_key[k] = s /\ m_end_node_key[k] = e /\ Linked(s, e)
<1>1. k \in m_edges /\ m_start_node_key[k] = s /\ m_end_node_key[k] = e
  BY DEF FirstBetween, Between
<1> QED BY <1>1, LiveEnds DEF Linked, HasSuccessor, HasPredecessor

LEMMA CohDeleteEdge ==
  ASSUME CohInv, TypeOK', NEW s \in NodeKey, NEW e \in NodeKey, DeleteEdge(s, e),
         ~Refuse("undef")
  PROVE  /\ Coherent' /\ ret' = "key"
         /\ \E k \in m_edges :
              /\ m_start_node_key[k] = s /\ m_end_node_key[k] = e
              /\ m_edges' = m_edges \ {k} /\ m_edges_buf' = m_edges_buf
              /\ \A j \in EdgeKey \ {k} :
                   /\ m_start_node_key'[j] = m_start_node_key[j]
                   /\ m_end_node_key'[j] = m_end_node_key[j]
         /\ UNCHANGED nodeVars
<1>1. PICK k \in EdgeKey :
        /\ node_exists(s) /\ node_exists(e) /\ FirstBetween(k, s, e)
        /\ Unlink(s, e)
        /\ IF Linked(s, e)
             THEN /\ m_edges' = m_edges \ {k}
                  /\ m_start_node_key' = [m_start_node_key EXCEPT ![k] = Null]
                  /\ m_end_node_key' = [m_end_node_key EXCEPT ![k] = Null]
                  /\ ret' = "key"
                  /\ UNCHANGED <<m_edges_buf, m_actual_edge_key>>
             ELSE ret' = "undef" /\ UNCHANGED edgeVars
        /\ UNCHANGED nodeVars
  BY DEF DeleteEdge
<1>2. /\ k \in m_edges /\ m_start_node_key[k] = s /\ m_end_node_key[k] = e
      /\ Linked(s, e)
  BY <1>1, FirstLinked
<1>3. /\ m_edges' = m_edges \ {k} /\ m_edges_buf' = m_edges_buf /\ ret' = "key"
      /\ \A j \in EdgeKey \ {k} : /\ m_start_node_key'[j] = m_start_node_key[j]
                                  /\ m_end_node_key'[j] = m_end_node_key[j]
  BY <1>1, <1>2 DEF CohInv, OwnInv, TypeOK
<1>4. k \notin m_edges_buf /\ m_edges \cup m_edges_buf \subseteq EdgeKey
  BY <1>2 DEF CohInv, OwnInv, KeysFresh, TypeOK
<1>5. Coherent'
  BY <1>1, <1>2, <1>3, <1>4, CohUnlink DEF node_exists
<1> QED BY <1>1, <1>2, <1>3, <1>5

LEMMA CohCutEdge ==
  ASSUME CohInv, TypeOK', NEW s \in NodeKey, NEW e \in NodeKey, CutEdge(s, e),
         ~Refuse("undef")
  PROVE  /\ Coherent' /\ ret' = "key"
         /\ \E k \in m_edges :
              /\ m_start_node_key[k] = s /\ m_end_node_key[k] = e
              /\ m_edges' = m_edges \ {k} /\ m_edges_buf' = m_edges_buf \cup {k}
         /\ UNCHANGED <<nodeVars, m_start_node_key, m_end_node_key>>
<1>1. PICK k \in EdgeKey :
        /\ node_exists(s) /\ node_exists(e) /\ FirstBetween(k, s, e)
        /\ Unlink(s, e)
        /\ IF Linked(s, e)
             THEN /\ m_edges' = m_edges \ {k}
                  /\ m_edges_buf' = m_edges_buf \cup {k}
                  /\ ret' = "key"
                  /\ UNCHANGED <<m_start_node_key, m_end_node_key,
                                 m_actual_edge_key>>
             ELSE ret' = "undef" /\ UNCHANGED edgeVars
        /\ UNCHANGED nodeVars
  BY DEF CutEdge
<1>2. /\ k \in m_edges /\ m_start_node_key[k] = s /\ m_end_node_key[k] = e
      /\ Linked(s, e)
  BY <1>1, FirstLinked
<1>3. /\ m_edges' = m_edges \ {k} /\ m_edges_buf' = m_edges_buf \cup {k}
      /\ ret' = "key" /\ UNCHANGED <<m_start_node_key, m_end_node_key>>
  BY <1>1, <1>2
<1>4. Coherent'
  BY <1>1, <1>2, <1>3, CohUnlink DEF node_exists
<1> QED BY <1>1, <1>2, <1>3, <1>4

LEMMA CohAddEdge ==
  ASSUME CohInv, TypeOK', NEW s \in NodeKey, NEW e \in NodeKey, ArcNotCut(s, e),
         AddEdge(s, e), ~Refuse("undef"), ~Refuse("dublicate")
  PROVE  /\ Coherent' /\ ret' = "key"
         /\ m_nodes[s] # Null /\ m_nodes[e] # Null
         /\ \A j \in m_edges \cup m_edges_buf :
              ~(m_start_node_key[j] = s /\ m_end_node_key[j] = e)
         /\ \E k \in EdgeKey \ (m_edges \cup m_edges_buf) :
              /\ m_start_node_key' = [m_start_node_key EXCEPT ![k] = s]
              /\ m_end_node_key' = [m_end_node_key EXCEPT ![k] = e]
              /\ m_edges' = m_edges \cup {k} /\ m_edges_buf' = m_edges_buf
         /\ UNCHANGED nodeVars
<1> USE DEF CohInv, Null
<1>1. /\ m_nodes[s] # Null /\ m_nodes[e] # Null
      /\ ~(HasSuccessor(s, e) /\ HasPredecessor(e, s))
      /\ m_successors' = [m_successors EXCEPT
           ![m_nodes[s]][e] = IF @ = Null THEN m_nodes[e] ELSE @]
      /\ m_predecessors' = [m_predecessors EXCEPT
           ![m_nodes[e]][s] = IF @ = Null THEN m_nodes[s] ELSE @]
      /\ UNCHANGED nodeVars
  BY DEF AddEdge, node_exists
<1>2. ~HasSuccessor(s, e) /\ ~HasPredecessor(e, s)
  <2>1. HasSuccessor(s, e) <=>
          \E k \in m_edges : m_start_node_key[k] = s /\ m_end_node_key[k] = e
    BY <1>1 DEF AdjLive, HasSuccessor
  <2>2. HasPredecessor(e, s) <=>
          \E k \in m_edges : m_start_node_key[k] = s /\ m_end_node_key[k] = e
    BY <1>1 DEF AdjLive, HasPredecessor
  <2> QED BY <1>1, <2>1, <2>2
<1> DEFINE k == m_actual_edge_key
<1>3. /\ k \in EdgeKey /\ m_edges' = m_edges \cup {k} /\ m_edges_buf' = m_edges_buf
      /\ m_start_node_key' = [m_start_node_key EXCEPT ![k] = s]
      /\ m_end_node_key' = [m_end_node_key EXCEPT ![k] = e]
      /\ ret' = "key"
  BY <1>1, <1>2 DEF AddEdge
<1>4. k \notin m_edges \cup m_edges_buf
  BY DEF OwnInv, TypeOK, KeysFresh
<1> HIDE DEF k
<1>5. /\ m_start_node_key'[k] = s /\ m_end_node_key'[k] = e
      /\ \A j \in EdgeKey \ {k} : /\ m_start_node_key'[j] = m_start_node_key[j]
                                  /\ m_end_node_key'[j] = m_end_node_key[j]
      /\ m_edges \cup m_edges_buf \subseteq EdgeKey \ {k}
  BY <1>3, <1>4 DEF OwnInv, TypeOK
<1>6. \A j \in m_edges \cup m_edges_buf :
        ~(m_start_node_key[j] = s /\ m_end_node_key[j] = e)
  <2>1. \A j \in m_edges : ~(m_start_node_key[j] = s /\ m_end_node_key[j] = e)
    BY <1>1, <1>2 DEF AdjLive, HasSuccessor
  <2> QED BY <2>1 DEF ArcNotCut
<1>7. /\ m_nodes' = m_nodes /\ m_nodes_buf' = m_nodes_buf
      /\ nextPtr' = nextPtr /\ freed' = freed
      /\ m_nodes[s] \in Ptr /\ m_nodes[e] \in Ptr
      /\ \A m, r \in NodeKey : m_nodes[m] = m_nodes[r] /\ m_nodes[m] # Null => m = r
  BY <1>1 DEF nodeVars, OwnInv, TypeOK, OwnedOnce
<1>8. \A p \in Ptr, t \in NodeKey :
        /\ m_successors'[p][t] =
             IF p = m_nodes[s] /\ t = e THEN m_nodes[e] ELSE m_successors[p][t]
        /\ m_predecessors'[p][t] =
             IF p = m_nodes[e] /\ t = s THEN m_nodes[s] ELSE m_predecessors[p][t]
  <2>1. m_successors[m_nodes[s]][e] = Null /\ m_predecessors[m_nodes[e]][s] = Null
    BY <1>2 DEF HasSuccessor, HasPredecessor
  <2>2. \A p \in Ptr, t \in NodeKey : m_successors'[p][t] =
          IF p = m_nodes[s] /\ t = e THEN m_nodes[e] ELSE m_successors[p][t]
    BY <1>1, <1>7, <2>1 DEF OwnInv, TypeOK
  <2>3. \A p \in Ptr, t \in NodeKey : m_predecessors'[p][t] =
          IF p = m_nodes[e] /\ t = s THEN m_nodes[s] ELSE m_predecessors[p][t]
    BY <1>1, <1>7, <2>1 DEF OwnInv, TypeOK
  <2> QED BY <2>2, <2>3
<1>9. AdjLive'
  <2> SUFFICES ASSUME NEW v \in NodeKey, NEW w \in NodeKey, m_nodes[v] # Null
               PROVE  /\ m_successors'[m_nodes[v]][w] =
                           IF \E j \in m_edges' : m_start_node_key'[j] = v
                                                  /\ m_end_node_key'[j] = w
                             THEN m_nodes[w] ELSE Null
                      /\ m_predecessors'[m_nodes[v]][w] =
                           IF \E j \in m_edges' : m_start_node_key'[j] = w
                                                  /\ m_end_node_key'[j] = v
                             THEN m_nodes[w] ELSE Null
    BY <1>7 DEF AdjLive
  <2>1. /\ m_nodes[v] \in Ptr
        /\ m_nodes[v] = m_nodes[s] <=> v = s
        /\ m_nodes[v] = m_nodes[e] <=> v = e
    BY <1>1, <1>7 DEF OwnInv, TypeOK
  <2>2. \A x, y : (\E j \in m_edges' : m_start_node_key'[j] = x /\ m_end_node_key'[j] = y)
                    <=> \/ x = s /\ y = e
                        \/ \E j \in m_edges : m_start_node_key[j] = x
                                              /\ m_end_node_key[j] = y
    BY <1>3, <1>5
  <2>3. m_successors'[m_nodes[v]][w] =
          IF \E j \in m_edges' : m_start_node_key'[j] = v /\ m_end_node_key'[j] = w
            THEN m_nodes[w] ELSE Null
    <3>1. CASE v = s /\ w = e
      BY <1>8, <2>1, <2>2, <3>1
    <3>2. CASE ~(v = s /\ w = e)
      <4>1. m_successors'[m_nodes[v]][w] = m_successors[m_nodes[v]][w]
        BY <1>8, <2>1, <3>2
      <4>2. (\E j \in m_edges' : m_start_node_key'[j] = v /\ m_end_node_key'[j] = w)
              <=> \E j \in m_edges : m_start_node_key[j] = v /\ m_end_node_key[j] = w
        BY <2>2, <3>2
      <4> QED BY <4>1, <4>2 DEF AdjLive
    <3> QED BY <3>1, <3>2
  <2>4. m_predecessors'[m_nodes[v]][w] =
          IF \E j \in m_edges' : m_start_node_key'[j] = w /\ m_end_node_key'[j] = v
            THEN m_nodes[w] ELSE Null
    <3>1. CASE w = s /\ v = e
      BY <1>8, <2>1, <2>2, <3>1
    <3>2. CASE ~(w = s /\ v = e)
      <4>1. m_predecessors'[m_nodes[v]][w] = m_predecessors[m_nodes[v]][w]
        BY <1>8, <2>1, <3>2
      <4>2. (\E j \in m_edges' : m_start_node_key'[j] = w /\ m_end_node_key'[j] = v)
              <=> \E j \in m_edges : m_start_node_key[j] = w /\ m_end_node_key[j] = v
        BY <2>2, <3>2
      <4> QED BY <4>1, <4>2 DEF AdjLive
    <3> QED BY <3>1, <3>2
  <2> QED BY <2>3, <2>4
<1>10. AdjElse'
  <2>1. \A p \in Ptr : /\ p # m_nodes[s] => m_successors'[p] = m_successors[p]
                       /\ p # m_nodes[e] => m_predecessors'[p] = m_predecessors[p]
    BY <1>1, <1>7 DEF OwnInv, TypeOK
  <2> QED BY <1>7, <2>1 DEF AdjElse
<1>11. NoTwinEdges'
  BY <1>3, <1>5, <1>6 DEF NoTwinEdges
<1>12. Restorable'
  <2>1. \A j \in m_edges' \cup m_edges_buf' : j = k \/ j \in m_edges \cup m_edges_buf
    BY <1>3
  <2>2. s # Null /\ e # Null
    BY DEF NodeKey
  <2> QED BY <1>1, <1>3, <1>5, <1>7, <2>1, <2>2 DEF Restorable, node_exists
<1>13. Allocated'
  BY <1>7 DEF Allocated
<1>14. Coherent'
  BY <1>9, <1>10, <1>11, <1>12, <1>13 DEF Coherent
<1>15. \E j \in EdgeKey \ (m_edges \cup m_edges_buf) :
         /\ m_start_node_key' = [m_start_node_key EXCEPT ![j] = s]
         /\ m_end_node_key' = [m_end_node_key EXCEPT ![j] = e]
         /\ m_edges' = m_edges \cup {j} /\ m_edges_buf' = m_edges_buf
  BY <1>3, <1>4
<1> QED BY <1>1, <1>3, <1>6, <1>14, <1>15

LEMMA CohPasteAll ==
  ASSUME CohInv, TypeOK', PasteAll
  PROVE  /\ Coherent' /\ ret' = "key"
         /\ \A n \in NodeKey :
              /\ m_nodes'[n] = IF m_nodes_buf[n] # Null THEN m_nodes_buf[n] ELSE m_nodes[n]
              /\ m_nodes_buf'[n] = Null
         /\ m_edges' = m_edges \cup m_edges_buf /\ m_edges_buf' = {}
         /\ UNCHANGED <<m_start_node_key, m_end_node_key>>
<1> USE DEF CohInv, Null
<1> DEFINE NAP == NodesAfterPaste
<1>1. \A n \in NodeKey : m_nodes[n] = Null \/ m_nodes_buf[n] = Null
  BY DEF Restorable
<1>2. BlockedNodes = {}
  BY <1>1 DEF BlockedNodes, node_exists
<1>3. \A n \in NodeKey : n \in PastedNodes <=> m_nodes_buf[n] # Null
  BY <1>2 DEF PastedNodes
<1>4. \A n \in NodeKey :
        NAP[n] = IF m_nodes_buf[n] # Null THEN m_nodes_buf[n] ELSE m_nodes[n]
  BY <1>3 DEF NodesAfterPaste
<1>5. ASSUME NEW k \in m_edges \cup m_edges_buf
      PROVE  /\ m_start_node_key[k] \in NodeKey /\ m_end_node_key[k] \in NodeKey
             /\ NAP[m_start_node_key[k]] # Null /\ NAP[m_end_node_key[k]] # Null
  <2>1. m_start_node_key[k] \in NodeKey /\ m_end_node_key[k] \in NodeKey
    BY DEF Restorable, OwnInv, TypeOK
  <2> QED BY <1>4, <2>1 DEF Restorable, node_exists
<1> HIDE DEF NAP
<1>6. BlockedEdges = {}
  BY <1>5 DEF BlockedEdges, NAP
<1>7. PastedEdges = m_edges_buf
  BY <1>6 DEF PastedEdges
<1>8. PasteNodes /\ PasteEdges /\ ret' = "key"
  BY <1>2, <1>6 DEF PasteAll
<1>9. /\ m_nodes' = NAP
      /\ \A n \in NodeKey : m_nodes_buf'[n] = Null
      /\ UNCHANGED <<nextPtr, freed>>
  BY <1>3, <1>8 DEF PasteNodes, NAP
<1>10. /\ m_edges' = m_edges \cup m_edges_buf /\ m_edges_buf' = {}
       /\ UNCHANGED <<m_start_node_key, m_end_node_key>>
  BY <1>7, <1>8 DEF PasteEdges
<1>11. \A p \in Ptr, t \in NodeKey :
         /\ m_successors'[p][t] =
              IF /\ m_successors[p][t] = Null
                 /\ \E k \in m_edges_buf : NAP[m_start_node_key[k]] = p
                                           /\ m_end_node_key[k] = t
                THEN NAP[t] ELSE m_successors[p][t]
         /\ m_predecessors'[p][t] =
              IF /\ m_predecessors[p][t] = Null
                 /\ \E k \in m_edges_buf : NAP[m_end_node_key[k]] = p
                                           /\ m_start_node_key[k] = t
                THEN NAP[t] ELSE m_predecessors[p][t]
  BY <1>7, <1>8 DEF PasteEdges, NAP
<1>12. \A m, n \in NodeKey : NAP[m] = NAP[n] /\ NAP[m] # Null => m = n
  BY <1>4 DEF OwnInv, OwnedOnce
<1>13. \A k \in m_edges : /\ m_nodes[m_start_node_key[k]] # Null
                          /\ m_nodes[m_end_node_key[k]] # Null
  BY LiveEnds DEF Ptr
<1>14. ASSUME NEW s \in NodeKey, NEW e \in NodeKey, NAP[s] # Null
       PROVE  /\ m_successors[NAP[s]][e] =
                   IF \E k \in m_edges : m_start_node_key[k] = s /\ m_end_node_key[k] = e
                     THEN NAP[e] ELSE Null
              /\ m_predecessors[NAP[s]][e] =
                   IF \E k \in m_edges : m_start_node_key[k] = e /\ m_end_node_key[k] = s
                     THEN NAP[e] ELSE Null
  <2>1. (\E k \in m_edges : \/ m_start_node_key[k] = s /\ m_end_node_key[k] = e
                            \/ m_start_node_key[k] = e /\ m_end_node_key[k] = s)
          => NAP[e] = m_nodes[e] /\ m_nodes[s] # Null
    BY <1>1, <1>4, <1>13
  <2>2. CASE m_nodes_buf[s] = Null
    BY <1>4, <1>14, <2>1, <2>2 DEF AdjLive
  <2>3. CASE m_nodes_buf[s] # Null
    <3>1. NAP[s] = m_nodes_buf[s] /\ NAP[s] \in Ptr /\ m_nodes[s] = Null
      BY <1>1, <1>4, <2>3 DEF OwnInv, TypeOK
    <3>2. \A m \in NodeKey : m_nodes[m] # NAP[s]
      BY <3>1, <1>14 DEF OwnInv, OwnedOnce
    <3>3. m_successors[NAP[s]] = EmptyMap /\ m_predecessors[NAP[s]] = EmptyMap
      BY <3>1, <3>2 DEF AdjElse
    <3> QED BY <2>1, <3>1, <3>3 DEF EmptyMap
  <2> QED BY <2>2, <2>3
<1>15. AdjLive'
  <2> SUFFICES ASSUME NEW s \in NodeKey, NEW e \in NodeKey, NAP[s] # Null
               PROVE  /\ m_successors'[NAP[s]][e] =
                           IF \E k \in m_edges \cup m_edges_buf :
                                m_start_node_key[k] = s /\ m_end_node_key[k] = e
                             THEN NAP[e] ELSE Null
                      /\ m_predecessors'[NAP[s]][e] =
                           IF \E k \in m_edges \cup m_edges_buf :
                                m_start_node_key[k] = e /\ m_end_node_key[k] = s
                             THEN NAP[e] ELSE Null
    BY <1>9, <1>10 DEF AdjLive
  <2>1. NAP[s] \in Ptr
    BY <1>4 DEF OwnInv, TypeOK
  <2>2. \A k \in m_edges_buf : /\ NAP[m_start_node_key[k]] = NAP[s] <=> m_start_node_key[k] = s
                               /\ NAP[m_end_node_key[k]] = NAP[s] <=> m_end_node_key[k] = s
    BY <1>5, <1>12
  <2>3. \A k \in m_edges \cup m_edges_buf :
          (m_start_node_key[k] = e \/ m_end_node_key[k] = e) => NAP[e] # Null
    BY <1>5
  <2>4. m_successors'[NAP[s]][e] =
          IF \E k \in m_edges \cup m_edges_buf :
               m_start_node_key[k] = s /\ m_end_node_key[k] = e
            THEN NAP[e] ELSE Null
    BY <1>11, <1>14, <2>1, <2>2, <2>3
  <2>5. m_predecessors'[NAP[s]][e] =
          IF \E k \in m_edges \cup m_edges_buf :
               m_start_node_key[k] = e /\ m_end_node_key[k] = s
            THEN NAP[e] ELSE Null
    BY <1>11, <1>14, <2>1, <2>2, <2>3
  <2> QED BY <2>4, <2>5
<1>16. AdjElse'
  <2> SUFFICES ASSUME NEW p \in Ptr, \A m \in NodeKey : NAP[m] # p
               PROVE  m_successors'[p] = EmptyMap /\ m_predecessors'[p] = EmptyMap
    BY <1>9 DEF AdjElse
  <2>1. \A m \in NodeKey : m_nodes[m] # p
    BY <1>1, <1>4 DEF Ptr
  <2>2. m_successors[p] = EmptyMap /\ m_predecessors[p] = EmptyMap
    BY <2>1 DEF AdjElse
  <2>3. \A t \in NodeKey : m_successors'[p][t] = Null /\ m_predecessors'[p][t] = Null
    BY <1>5, <1>11, <2>2 DEF EmptyMap
  <2>4. /\ m_successors'[p] \in [NodeKey -> Ptr \cup {Null}]
        /\ m_predecessors'[p] \in [NodeKey -> Ptr \cup {Null}]
    BY DEF TypeOK
  <2> QED BY <2>3, <2>4 DEF EmptyMap
<1>17. NoTwinEdges'
  BY <1>10 DEF NoTwinEdges
<1>18. Restorable'
  <2>1. \A k \in m_edges \cup m_edges_buf :
          /\ m_start_node_key[k] # Null /\ m_end_node_key[k] # Null
    BY DEF Restorable
  <2>2. \A k \in m_edges \cup m_edges_buf, n \in NodeKey :
          n \in {m_start_node_key[k], m_end_node_key[k]} => NAP[n] # Null
    BY <1>5
  <2> QED BY <1>9, <1>10, <2>1, <2>2 DEF Restorable, node_exists
<1>19. Allocated'
  <2>1. \A n \in NodeKey, p \in Ptr :
          m_nodes[n] = p \/ m_nodes_buf[n] = p => NAP[n] = p
    BY <1>1, <1>4 DEF Ptr
  <2> QED BY <1>9, <2>1 DEF Allocated
<1> QED BY <1>4, <1>8, <1>9, <1>10, <1>15, <1>16, <1>17, <1>18, <1>19 DEF Coherent

-----------------------------------------------------------------------------
(* THE CONTRACT                                                            *)

LEMMA ContractIsNext == [ContractNext]_vars => [Next]_vars
  BY DEF ContractNext, Next

(* What every call of a client that keeps the contract does: it refuses    *)
(* and changes nothing, or it succeeds and the invariant survives.         *)
LEMMA ContractOutcome ==
  ASSUME CohInv, ContractNext
  PROVE  \/ Refuse("undef") \/ Refuse("dublicate")
         \/ Coherent' /\ ret' = "key"
<1>1. TypeOK'
  BY TypeStep, ContractIsNext DEF CohInv, OwnInv
<1>2. ASSUME ~Refuse("undef"), ~Refuse("dublicate")
      PROVE  Coherent' /\ ret' = "key"
  <2>1. ASSUME NEW key \in NodeKey, KeyNotCut(key), AddNode(key)
        PROVE  Coherent' /\ ret' = "key"
    BY <1>1, <1>2, <2>1, CohAddNode
  <2>2. ASSUME NEW count \in 0 .. 2, AddNodes(count)
        PROVE  Coherent' /\ ret' = "key"
    BY <1>1, <1>2, <2>2, CohAddNodes
  <2>3. ASSUME NEW n \in NodeKey, NoEdgeAt(n), DeleteNode(n)
        PROVE  Coherent' /\ ret' = "key"
    BY <1>1, <1>2, <2>3, CohDeleteNode
  <2>4. ASSUME NEW n \in NodeKey, CutNode(n)
        PROVE  Coherent' /\ ret' = "key"
    BY <1>1, <1>2, <2>4, CohCutNode
  <2>5. ASSUME NEW s \in NodeKey, NEW e \in NodeKey, ArcNotCut(s, e), AddEdge(s, e)
        PROVE  Coherent' /\ ret' = "key"
    BY <1>1, <1>2, <2>5, CohAddEdge
  <2>6. ASSUME NEW s \in NodeKey, NEW e \in NodeKey, DeleteEdge(s, e)
        PROVE  Coherent' /\ ret' = "key"
    BY <1>1, <1>2, <2>6, CohDeleteEdge
  <2>7. ASSUME NEW s \in NodeKey, NEW e \in NodeKey, CutEdge(s, e)
        PROVE  Coherent' /\ ret' = "key"
    BY <1>1, <1>2, <2>7, CohCutEdge
  <2>8. CASE PasteAll
    BY <1>1, <2>8, CohPasteAll
  <2> QED
    BY <2>1, <2>2, <2>3, <2>4, <2>5, <2>6, <2>7, <2>8 DEF ContractNext
<1> QED BY <1>2

LEMMA CohSameStore == CohInv /\ UNCHANGED store => Coherent'
  BY DEF CohInv, Coherent, store, nodeVars, adjVars, edgeVars, AdjLive, AdjElse,
         NoTwinEdges, Restorable, node_exists, Allocated

LEMMA CohStep == CohInv /\ [ContractNext]_vars => CohInv'
<1> SUFFICES ASSUME CohInv, [ContractNext]_vars PROVE CohInv'
  OBVIOUS
<1>1. OwnInv'
  BY OwnStep, ContractIsNext DEF CohInv
<1>2. CASE ContractNext
  BY <1>1, <1>2, ContractOutcome, CohSameStore
     DEF CohInv, Coherent, Refuse, NeverCorrupted
<1>3. CASE UNCHANGED vars
  BY <1>1, <1>3, CohSameStore DEF CohInv, Coherent, vars, NeverCorrupted
<1> QED BY <1>2, <1>3

THEOREM CohInvCorrect == ContractSpec => []CohInv
<1>1. Init => CohInv
  <2> SUFFICES ASSUME Init PROVE CohInv
    OBVIOUS
  <2>1. OwnInv
    BY DEF Init, OwnInv, TypeOK, KeysFresh, PtrsFresh, OwnedOnce, EmptyMap, Null,
           Result, NodeKey
  <2>2. AdjLive /\ AdjElse /\ NoTwinEdges /\ Restorable /\ NeverCorrupted
    BY DEF Init, AdjLive, AdjElse, NoTwinEdges, Restorable, NeverCorrupted,
           EmptyMap, Null, node_exists
  <2>3. Allocated
    BY DEF Init, Allocated, Ptr
  <2> QED BY <2>1, <2>2, <2>3 DEF CohInv
<1> QED
  BY <1>1, CohStep, PTL DEF ContractSpec

(* The adjacency maps and the edge table never disagree.                   *)
THEOREM AdjacencyMatchesEdgesCorrect == ContractSpec => []AdjacencyMatchesEdges
<1>1. CohInv => AdjacencyMatchesEdges
  BY AdjSuffices DEF CohInv, OwnInv
<1> QED
  BY <1>1, CohInvCorrect, PTL

(* No two edges, live or cut, join the same nodes.                         *)
THEOREM NoTwinEdgesCorrect == ContractSpec => []NoTwinEdges
<1>1. CohInv => NoTwinEdges
  BY DEF CohInv
<1> QED
  BY <1>1, CohInvCorrect, PTL

(* What was cut can always be pasted.                                      *)
THEOREM RestorableCorrect == ContractSpec => []Restorable
<1>1. CohInv => Restorable
  BY DEF CohInv
<1> QED
  BY <1>1, CohInvCorrect, PTL

(* No node is lost between the tables.                                     *)
THEOREM NoLeakCorrect == ContractSpec => []NoLeak
<1>1. CohInv => NoLeak
  BY AllocatedSuffices DEF CohInv, OwnInv
<1> QED
  BY <1>1, CohInvCorrect, PTL

(* No call reports corrupted data or throws.                               *)
THEOREM NeverCorruptedCorrect == ContractSpec => []NeverCorrupted
<1>1. CohInv => NeverCorrupted
  BY DEF CohInv
<1> QED
  BY <1>1, CohInvCorrect, PTL

(* A call that reports an error has changed nothing.                       *)
THEOREM FailedCallsCorrect == ContractSpec => FailedCallsChangeNothing
<1>1. CohInv /\ [ContractNext]_vars => [ret' # "key" => UNCHANGED store]_vars
  BY ContractOutcome DEF Refuse
<1> QED
  BY <1>1, CohInvCorrect, PTL DEF ContractSpec, FailedCallsChangeNothing

-----------------------------------------------------------------------------
(* The refinement: each call that succeeds is one step of the abstract     *)
(* graph, each call that fails is none.                                    *)


Vert == {n \in NodeKey : m_nodes[n] # Null}
Hid  == {n \in NodeKey : m_nodes_buf[n] # Null}

(* The arcs stay the same when the edge tables do.                         *)
LEMMA SameArcs ==
  ASSUME UNCHANGED edgeVars
  PROVE  Arc(m_edges)' = Arc(m_edges) /\ Arc(m_edges_buf)' = Arc(m_edges_buf)
  BY DEF edgeVars, Arc

LEMMA SameVertices ==
  ASSUME UNCHANGED nodeVars
  PROVE  Vert' = Vert /\ Hid' = Hid
  BY DEF nodeVars, Vert, Hid

LEMMA RefAddNode ==
  ASSUME CohInv, NEW key \in NodeKey, KeyNotCut(key), AddNode(key), ~Refuse("undef")
  PROVE  DG!AddVertices({key})
<1>1. /\ m_nodes[key] = Null /\ m_nodes_buf[key] = Null /\ nextPtr \in Ptr
      /\ m_nodes' = [m_nodes EXCEPT ![key] = nextPtr]
      /\ m_nodes_buf' = m_nodes_buf /\ UNCHANGED edgeVars
  BY DEF AddNode, KeyNotCut, node_exists
<1>2. m_nodes'[key] # Null /\ \A n \in NodeKey \ {key} : m_nodes'[n] = m_nodes[n]
  BY <1>1 DEF CohInv, OwnInv, TypeOK, Ptr, Null
<1>3. Vert' = Vert \cup {key} /\ Hid' = Hid /\ key \notin Vert \cup Hid
  BY <1>1, <1>2 DEF Vert, Hid
<1> QED BY <1>1, <1>3, SameArcs DEF DG!AddVertices, Vert, Hid

LEMMA RefAddNodes ==
  ASSUME CohInv, NEW count \in 0 .. 2, AddNodes(count), ~Refuse("undef")
  PROVE  \E S \in SUBSET NodeKey : DG!AddVertices(S)
<1> DEFINE S == m_actual_node_key .. m_actual_node_key + count - 1
<1>1. /\ m_actual_node_key + count - 1 \in NodeKey
      /\ m_nodes' = [n \in NodeKey |->
           IF n \in S THEN nextPtr + (n - m_actual_node_key) ELSE m_nodes[n]]
      /\ m_nodes_buf' = m_nodes_buf /\ UNCHANGED edgeVars
  BY DEF AddNodes
<1>2. nextPtr \in Nat \ {0} /\ m_actual_node_key \in Nat \ {0}
  BY DEF CohInv, OwnInv, TypeOK
<1>3. S \in SUBSET NodeKey
  BY <1>1, <1>2, BoundsAssumption DEF NodeKey
<1>4. \A n \in S : m_nodes[n] = Null /\ m_nodes_buf[n] = Null /\ m_nodes'[n] # Null
  <2> SUFFICES ASSUME NEW n \in S
               PROVE  m_nodes[n] = Null /\ m_nodes_buf[n] = Null /\ m_nodes'[n] # Null
    OBVIOUS
  <2>1. n \in NodeKey /\ n \in Int /\ ~(n < m_actual_node_key)
    BY <1>2, <1>3
  <2>2. m_nodes'[n] = nextPtr + (n - m_actual_node_key)
    BY <1>1, <2>1
  <2> QED BY <1>2, <2>1, <2>2 DEF CohInv, OwnInv, KeysFresh, Null
<1>5. \A n \in NodeKey \ S : m_nodes'[n] = m_nodes[n]
  BY <1>1
<1> HIDE DEF S
<1>6. Vert' = Vert \cup S /\ Hid' = Hid /\ S \cap (Vert \cup Hid) = {}
  BY <1>1, <1>3, <1>4, <1>5 DEF Vert, Hid
<1>7. DG!AddVertices(S)
  BY <1>1, <1>6, SameArcs DEF DG!AddVertices, Vert, Hid
<1> QED BY <1>3, <1>7 DEF DG!AddVertices

LEMMA RefDeleteNode ==
  ASSUME CohInv, TypeOK', NEW n \in NodeKey, NoEdgeAt(n), DeleteNode(n),
         ~Refuse("undef")
  PROVE  DG!RemoveVertex(n)
<1>1. UNCHANGED edgeVars
  BY CohDeleteNode
<1>2. /\ m_nodes[n] # Null /\ m_nodes' = [m_nodes EXCEPT ![n] = Null]
      /\ m_nodes_buf' = m_nodes_buf
  BY DEF DeleteNode, node_exists
<1>3. Vert' = Vert \ {n} /\ Hid' = Hid /\ n \in Vert
  BY <1>2 DEF Vert, Hid, CohInv, OwnInv, TypeOK
<1>4. \A a \in Arc(m_edges) \cup Arc(m_edges_buf) : n \notin {a[1], a[2]}
  BY DEF Arc, NoEdgeAt
<1> QED BY <1>1, <1>3, <1>4, SameArcs DEF DG!RemoveVertex, Vert, Hid

LEMMA RefCutNode ==
  ASSUME CohInv, TypeOK', NEW n \in NodeKey, CutNode(n), ~Refuse("undef")
  PROVE  DG!HideVertex(n)
<1>1. /\ m_nodes[n] # Null
      /\ m_nodes' = [m_nodes EXCEPT ![n] = Null]
      /\ m_nodes_buf' = [m_nodes_buf EXCEPT ![n] = m_nodes[n]]
      /\ m_edges' = m_edges \ Incident(n)
      /\ m_edges_buf' = m_edges_buf \cup Incident(n)
      /\ UNCHANGED <<m_start_node_key, m_end_node_key>>
  BY CohCutNode
<1>2. Vert' = Vert \ {n} /\ Hid' = Hid \cup {n} /\ n \in Vert
  BY <1>1 DEF Vert, Hid, CohInv, OwnInv, TypeOK
<1>3. \A k : k \in Incident(n) <=>
        k \in m_edges /\ (m_start_node_key[k] = n \/ m_end_node_key[k] = n)
  BY DEF Incident
<1>4. \A a : a \in DG!Incident(n) <=> a \in Arc(Incident(n))
  BY <1>3 DEF DG!Incident, Arc
<1>5. Arc(m_edges)' = Arc(m_edges) \ DG!Incident(n)
  <2>1. Arc(m_edges)' = Arc(m_edges \ Incident(n))
    BY <1>1 DEF Arc
  <2>2. ASSUME NEW k \in m_edges, NEW j \in Incident(n), k \notin Incident(n)
        PROVE  <<m_start_node_key[k], m_end_node_key[k]>> #
                 <<m_start_node_key[j], m_end_node_key[j]>>
    BY <1>3, <2>2
  <2> QED BY <1>3, <1>4, <2>1, <2>2 DEF Arc
<1>6. Arc(m_edges_buf)' = Arc(m_edges_buf) \cup DG!Incident(n)
  BY <1>1, <1>4 DEF Arc
<1> QED BY <1>2, <1>5, <1>6 DEF DG!HideVertex, Vert, Hid

LEMMA RefAddEdge ==
  ASSUME CohInv, TypeOK', NEW s \in NodeKey, NEW e \in NodeKey, ArcNotCut(s, e),
         AddEdge(s, e), ~Refuse("undef"), ~Refuse("dublicate")
  PROVE  DG!AddArc(s, e)
<1>1. /\ m_nodes[s] # Null /\ m_nodes[e] # Null /\ UNCHANGED nodeVars
      /\ \A j \in m_edges \cup m_edges_buf :
           ~(m_start_node_key[j] = s /\ m_end_node_key[j] = e)
  BY CohAddEdge
<1>2. PICK k \in EdgeKey \ (m_edges \cup m_edges_buf) :
        /\ m_start_node_key' = [m_start_node_key EXCEPT ![k] = s]
        /\ m_end_node_key' = [m_end_node_key EXCEPT ![k] = e]
        /\ m_edges' = m_edges \cup {k} /\ m_edges_buf' = m_edges_buf
  BY CohAddEdge
<1>3. /\ m_start_node_key'[k] = s /\ m_end_node_key'[k] = e
      /\ \A j \in m_edges \cup m_edges_buf :
           /\ m_start_node_key'[j] = m_start_node_key[j]
           /\ m_end_node_key'[j] = m_end_node_key[j]
  BY <1>2 DEF CohInv, OwnInv, TypeOK
<1>4. Arc(m_edges)' = Arc(m_edges) \cup {<<s, e>>}
  BY <1>2, <1>3 DEF Arc
<1>5. Arc(m_edges_buf)' = Arc(m_edges_buf)
  BY <1>2, <1>3 DEF Arc
<1>6. <<s, e>> \notin Arc(m_edges) \cup Arc(m_edges_buf)
  BY <1>1 DEF Arc
<1>7. {s, e} \subseteq Vert /\ Vert' = Vert /\ Hid' = Hid
  BY <1>1, SameVertices DEF Vert
<1> QED BY <1>4, <1>5, <1>6, <1>7 DEF DG!AddArc, Vert, Hid

LEMMA RefDeleteEdge ==
  ASSUME CohInv, TypeOK', NEW s \in NodeKey, NEW e \in NodeKey, DeleteEdge(s, e),
         ~Refuse("undef")
  PROVE  DG!RemoveArc(<<s, e>>)
<1>1. PICK k \in m_edges :
        /\ m_start_node_key[k] = s /\ m_end_node_key[k] = e
        /\ m_edges' = m_edges \ {k} /\ m_edges_buf' = m_edges_buf
        /\ \A j \in EdgeKey \ {k} :
             /\ m_start_node_key'[j] = m_start_node_key[j]
             /\ m_end_node_key'[j] = m_end_node_key[j]
  BY CohDeleteEdge
<1>2. UNCHANGED nodeVars
  BY CohDeleteEdge
<1>3. m_edges \cup m_edges_buf \subseteq EdgeKey /\ k \notin m_edges_buf
  BY DEF CohInv, OwnInv, TypeOK, KeysFresh
<1>4. \A j \in m_edges \ {k} : ~(m_start_node_key[j] = s /\ m_end_node_key[j] = e)
  BY <1>1 DEF CohInv, NoTwinEdges
<1>5. Arc(m_edges)' = Arc(m_edges) \ {<<s, e>>}
  BY <1>1, <1>3, <1>4 DEF Arc
<1>6. Arc(m_edges_buf)' = Arc(m_edges_buf)
  BY <1>1, <1>3 DEF Arc
<1>7. <<s, e>> \in Arc(m_edges)
  BY <1>1 DEF Arc
<1> QED BY <1>2, <1>5, <1>6, <1>7, SameVertices DEF DG!RemoveArc, Vert, Hid

LEMMA RefCutEdge ==
  ASSUME CohInv, TypeOK', NEW s \in NodeKey, NEW e \in NodeKey, CutEdge(s, e),
         ~Refuse("undef")
  PROVE  DG!HideArc(<<s, e>>)
<1>1. PICK k \in m_edges :
        /\ m_start_node_key[k] = s /\ m_end_node_key[k] = e
        /\ m_edges' = m_edges \ {k} /\ m_edges_buf' = m_edges_buf \cup {k}
  BY CohCutEdge
<1>2. UNCHANGED <<nodeVars, m_start_node_key, m_end_node_key>>
  BY CohCutEdge
<1>3. \A j \in m_edges \ {k} : ~(m_start_node_key[j] = s /\ m_end_node_key[j] = e)
  BY <1>1 DEF CohInv, NoTwinEdges
<1>4. Arc(m_edges)' = Arc(m_edges) \ {<<s, e>>}
  BY <1>1, <1>2, <1>3 DEF Arc
<1>5. Arc(m_edges_buf)' = Arc(m_edges_buf) \cup {<<s, e>>}
  BY <1>1, <1>2 DEF Arc
<1>6. <<s, e>> \in Arc(m_edges)
  BY <1>1 DEF Arc
<1> QED BY <1>2, <1>4, <1>5, <1>6, SameVertices DEF DG!HideArc, Vert, Hid

LEMMA RefPasteAll ==
  ASSUME CohInv, TypeOK', PasteAll
  PROVE  DG!Restore
<1>1. /\ \A n \in NodeKey :
           /\ m_nodes'[n] = IF m_nodes_buf[n] # Null THEN m_nodes_buf[n] ELSE m_nodes[n]
           /\ m_nodes_buf'[n] = Null
      /\ m_edges' = m_edges \cup m_edges_buf /\ m_edges_buf' = {}
      /\ UNCHANGED <<m_start_node_key, m_end_node_key>>
  BY CohPasteAll
<1>2. Vert' = Vert \cup Hid /\ Hid' = {}
  BY <1>1 DEF Vert, Hid
<1>3. Arc(m_edges)' = Arc(m_edges) \cup Arc(m_edges_buf) /\ Arc(m_edges_buf)' = {}
  BY <1>1 DEF Arc
<1> QED BY <1>2, <1>3 DEF DG!Restore, Vert, Hid

LEMMA RefineStep == CohInv /\ [ContractNext]_vars => [DG!Next]_(DG!vars)
<1> SUFFICES ASSUME CohInv, [ContractNext]_vars PROVE [DG!Next]_(DG!vars)
  OBVIOUS
<1>1. CASE UNCHANGED store
  <2>1. UNCHANGED nodeVars /\ UNCHANGED edgeVars
    BY <1>1 DEF store
  <2> QED BY <2>1, SameArcs, SameVertices DEF DG!vars, Vert, Hid
<1>2. CASE ContractNext /\ ~UNCHANGED store
  <2>1. TypeOK'
    BY TypeStep, ContractIsNext DEF CohInv, OwnInv
  <2>2. ~Refuse("undef") /\ ~Refuse("dublicate")
    BY <1>2 DEF Refuse
  <2>3. ASSUME NEW key \in NodeKey, KeyNotCut(key), AddNode(key)
        PROVE  DG!Next
    <3>1. DG!AddVertices({key})
      BY <2>2, <2>3, RefAddNode
    <3>2. {key} \in SUBSET NodeKey
      OBVIOUS
    <3> QED BY <3>1, <3>2 DEF DG!Next
  <2>4. ASSUME NEW count \in 0 .. 2, AddNodes(count) PROVE DG!Next
    BY <2>2, <2>4, RefAddNodes DEF DG!Next
  <2>5. ASSUME NEW n \in NodeKey, NoEdgeAt(n), DeleteNode(n) PROVE DG!Next
    BY <2>1, <2>2, <2>5, RefDeleteNode DEF DG!Next
  <2>6. ASSUME NEW n \in NodeKey, CutNode(n) PROVE DG!Next
    BY <2>1, <2>2, <2>6, RefCutNode DEF DG!Next
  <2>7. ASSUME NEW s \in NodeKey, NEW e \in NodeKey, ArcNotCut(s, e), AddEdge(s, e)
        PROVE  DG!Next
    BY <2>1, <2>2, <2>7, RefAddEdge DEF DG!Next
  <2>8. ASSUME NEW s \in NodeKey, NEW e \in NodeKey, DeleteEdge(s, e) PROVE DG!Next
    BY <2>1, <2>2, <2>8, RefDeleteEdge DEF DG!Next
  <2>9. ASSUME NEW s \in NodeKey, NEW e \in NodeKey, CutEdge(s, e) PROVE DG!Next
    BY <2>1, <2>2, <2>9, RefCutEdge DEF DG!Next
  <2>10. CASE PasteAll
    BY <2>1, <2>10, RefPasteAll DEF DG!Next
  <2> QED
    BY <1>2, <2>3, <2>4, <2>5, <2>6, <2>7, <2>8, <2>9, <2>10 DEF ContractNext
<1> QED BY <1>1, <1>2 DEF vars

(* The container used within its contract is the abstract graph.           *)
THEOREM Refinement == ContractSpec => RefinesDiGraph
<1>1. Init => DG!Init
  BY DEF Init, DG!Init, EmptyMap, Arc
<1>2. CohInv /\ [ContractNext]_vars => [DG!Next]_(DG!vars)
  BY RefineStep
<1> QED
  BY <1>1, <1>2, CohInvCorrect, PTL DEF ContractSpec, DG!Spec, RefinesDiGraph

-----------------------------------------------------------------------------
(* THE GRAPH OF BASIC BLOCKS: the three names of a block, for any bounds.   *)

BlockTypeOK ==
  /\ \E m \in Nat : blocks = 1 .. m
  /\ blocks \subseteq Block
  /\ bb_id \in [Block -> NodeKey \cup {Undef}]
  /\ m_id \in Nat \ {0}
  /\ data \in [Ptr -> Block \cup {Undef}]
  /\ m_headerBbKey \in NodeKey \cup {Undef}
  /\ header \in Block \cup {Undef}
  /\ mixed \in BOOLEAN

(* A block that is not made yet has no id.                                 *)
NotMade == \A b \in Block \ blocks : bb_id[b] = Undef

(* KeyIsBlockId, entry by entry.                                           *)
Named(p, n) == p # Null => data[p] \in blocks /\ bb_id[data[p]] = n
AllNamed == \A n \in NodeKey : Named(m_nodes[n], n) /\ Named(m_nodes_buf[n], n)

(* The manager's ids differ and are behind its counter.                    *)
IdsDiffer ==
  ~mixed => /\ \A b \in blocks : bb_id[b] < m_id
            /\ \A b, c \in blocks : bb_id[b] = bb_id[c] /\ bb_id[b] # Undef => b = c

(* The header keeps the id that it was made the header by.                 *)
HeaderNamed ==
  ~mixed /\ m_headerBbKey # Undef =>
    header \in blocks /\ bb_id[header] = m_headerBbKey

BbInv ==
  OwnInv /\ BlockTypeOK /\ NotMade /\ AllNamed /\ IdsDiffer /\ HeaderNamed

-----------------------------------------------------------------------------
(* STEPS *)

LEMMA KeyFacts == /\ NodeKey \subseteq Nat /\ Undef \notin NodeKey /\ Null \notin Ptr
                  /\ Undef \notin Block /\ Ptr \subseteq Nat
BY BoundsAssumption, MaxBlocksAssumption DEF NodeKey, Undef, Ptr, Null, Block

LEMMA NewFacts ==
  ASSUME BlockTypeOK
  PROVE  /\ New \notin blocks /\ New \in Nat
         /\ \E m \in Nat : blocks \cup {New} = 1 .. m
<1>1. PICK m \in Nat : blocks = 1 .. m
  BY DEF BlockTypeOK
<1>2. Cardinality(1 .. m) = m
  BY <1>1, FS_Interval
<1>3. New = m + 1
  BY <1>1, <1>2 DEF New
<1>4. blocks \cup {New} = 1 .. m + 1 /\ m + 1 \in Nat
  BY <1>1, <1>3
<1> QED BY <1>1, <1>3, <1>4

(* What the graph does to a block that is added: nothing, or one new node  *)
(* refers to it and carries its id.                                        *)
LEMMA AddBlockEffect ==
  ASSUME BbInv, NEW b \in blocks, NEW key \in NodeKey \cup {Undef},
         AddedOnce(b, key), AddBlock(b, key)
  PROVE  /\ [Next]_vars
         /\ UNCHANGED <<blocks, m_id, m_headerBbKey, header>>
         /\ mixed' = (mixed \/ key # Undef \/ bb_id[b] = Undef)
         /\ \/ UNCHANGED <<m_nodes, m_nodes_buf, data, bb_id>>
            \/ \E k \in NodeKey :
                 /\ ~InGraph(b) /\ nextPtr \in Ptr
                 /\ m_nodes' = [m_nodes EXCEPT ![k] = nextPtr]
                 /\ m_nodes_buf' = m_nodes_buf
                 /\ data' = [data EXCEPT ![nextPtr] = b]
                 /\ bb_id' = [bb_id EXCEPT ![b] = k]
                 /\ key = Undef /\ bb_id[b] # Undef => k = bb_id[b]
<1> DEFINE name == IF key = Undef THEN bb_id[b] ELSE key
<1>1. b \in Block /\ bb_id[b] \in NodeKey \cup {Undef} /\ name \in NodeKey \cup {Undef}
  BY DEF BbInv, BlockTypeOK
<1>2. /\ UNCHANGED <<blocks, m_id, m_headerBbKey, header>>
      /\ mixed' = (mixed \/ key # Undef \/ bb_id[b] = Undef)
  BY DEF AddBlock
<1>3. /\ IF name = Undef THEN AddNodes(1) ELSE AddNode(name)
      /\ IF ret' = "key"
           THEN /\ data' = [data EXCEPT ![nextPtr] = b]
                /\ bb_id' = [bb_id EXCEPT ![b] = IF name = Undef THEN m_actual_node_key
                                                              ELSE name]
           ELSE UNCHANGED <<data, bb_id>>
  BY DEF AddBlock, Renamed
<1>4. InGraph(b) => name \in NodeKey /\ node_exists(name)
  <2> SUFFICES ASSUME InGraph(b) PROVE name \in NodeKey /\ node_exists(name)
    OBVIOUS
  <2>1. PICK n \in NodeKey : Holds(m_nodes[n], b) \/ Holds(m_nodes_buf[n], b)
    BY DEF InGraph
  <2>2. bb_id[b] = n
    BY <2>1 DEF Holds, BbInv, AllNamed, Named
  <2>3. key = Undef /\ node_exists(bb_id[b])
    BY DEF AddedOnce
  <2> QED BY <2>2, <2>3
<1> HIDE DEF name
<1>5. CASE name = Undef
  <2>1. /\ m_actual_node_key \in Nat /\ m_actual_node_key \in NodeKey /\ nextPtr \in Ptr
        /\ m_nodes \in [NodeKey -> Ptr \cup {Null}] /\ nextPtr \in Nat
    <3>1. /\ m_actual_node_key \in Nat /\ nextPtr \in Nat
          /\ m_nodes \in [NodeKey -> Ptr \cup {Null}]
      BY DEF BbInv, OwnInv, TypeOK
    <3>2. m_actual_node_key + 1 - 1 \in NodeKey /\ nextPtr + 1 - 1 \in Ptr
      BY <1>3, <1>5 DEF AddNodes
    <3>3. m_actual_node_key + 1 - 1 = m_actual_node_key /\ nextPtr + 1 - 1 = nextPtr
      BY <3>1
    <3> QED BY <3>1, <3>2, <3>3
  <2>2. /\ m_nodes' = [n \in NodeKey |->
              IF n \in m_actual_node_key .. m_actual_node_key + 1 - 1
                THEN nextPtr + (n - m_actual_node_key) ELSE m_nodes[n]]
        /\ m_nodes_buf' = m_nodes_buf /\ ret' = "key"
    BY <1>3, <1>5 DEF AddNodes
  <2>3. m_nodes' = [m_nodes EXCEPT ![m_actual_node_key] = nextPtr]
    <3>1. \A n \in NodeKey : n \in Nat
      BY KeyFacts
    <3>2. \A n \in NodeKey :
            n \in m_actual_node_key .. m_actual_node_key + 1 - 1 <=> n = m_actual_node_key
      BY <2>1, <3>1
    <3>3. nextPtr + (m_actual_node_key - m_actual_node_key) = nextPtr
      BY <2>1
    <3>4. m_nodes' = [n \in NodeKey |-> IF n = m_actual_node_key THEN nextPtr ELSE m_nodes[n]]
      BY <2>2, <3>2, <3>3
    <3> QED BY <2>1, <3>4
  <2>4. ~InGraph(b)
    BY <1>4, <1>5, KeyFacts
  <2>5. Next
    BY <1>3, <1>5 DEF Next
  <2>6. key = Undef => bb_id[b] = Undef
    BY <1>5 DEF name
  <2>7. /\ data' = [data EXCEPT ![nextPtr] = b]
        /\ bb_id' = [bb_id EXCEPT ![b] = m_actual_node_key]
    BY <1>3, <1>5, <2>2
  <2> QED BY <1>2, <2>1, <2>2, <2>3, <2>4, <2>5, <2>6, <2>7
<1>6. CASE name # Undef
  <2>1. name \in NodeKey /\ AddNode(name)
    BY <1>1, <1>3, <1>6
  <2>2. Next
    BY <2>1 DEF Next
  <2>3. CASE node_exists(name)
    <3>1. Refuse("undef")
      BY <2>1, <2>3 DEF AddNode
    <3>2. UNCHANGED <<m_nodes, m_nodes_buf>> /\ ret' # "key"
      BY <3>1 DEF Refuse, store, nodeVars
    <3> QED BY <1>2, <1>3, <2>2, <3>2
  <2>4. CASE ~node_exists(name)
    <3>1. /\ nextPtr \in Ptr /\ ret' = "key"
          /\ m_nodes' = [m_nodes EXCEPT ![name] = nextPtr]
          /\ m_nodes_buf' = m_nodes_buf
      BY <2>1, <2>4 DEF AddNode
    <3>2. ~InGraph(b)
      BY <1>4, <2>4
    <3>3. key = Undef => name = bb_id[b]
      BY DEF name
    <3>4. data' = [data EXCEPT ![nextPtr] = b] /\ bb_id' = [bb_id EXCEPT ![b] = name]
      BY <1>3, <1>6, <3>1
    <3> QED BY <1>2, <2>1, <2>2, <3>1, <3>2, <3>3, <3>4
  <2> QED BY <2>3, <2>4
<1> QED BY <1>5, <1>6

(* The calls of the container move nodes between the two tables without    *)
(* changing their keys.                                                    *)
LEMMA ContainerFrame ==
  ASSUME OwnInv, ContainerCall
  PROVE  /\ Next /\ UNCHANGED nameVars
         /\ \A n \in NodeKey : /\ m_nodes'[n] \in {m_nodes[n], m_nodes_buf[n], Null}
                               /\ m_nodes_buf'[n] \in {m_nodes[n], m_nodes_buf[n], Null}
<1>1. UNCHANGED nameVars
  BY DEF ContainerCall
<1>2. /\ m_nodes \in [NodeKey -> Ptr \cup {Null}]
      /\ m_nodes_buf \in [NodeKey -> Ptr \cup {Null}]
  BY DEF OwnInv, TypeOK
<1>3. ASSUME NEW n \in NodeKey, DeleteNode(n)
      PROVE  /\ Next
             /\ \A k \in NodeKey : /\ m_nodes'[k] \in {m_nodes[k], m_nodes_buf[k], Null}
                                   /\ m_nodes_buf'[k] \in {m_nodes[k], m_nodes_buf[k], Null}
  BY <1>2, <1>3 DEF Next, DeleteNode, Refuse, store, nodeVars
<1>4. ASSUME NEW n \in NodeKey, CutNode(n)
      PROVE  /\ Next
             /\ \A k \in NodeKey : /\ m_nodes'[k] \in {m_nodes[k], m_nodes_buf[k], Null}
                                   /\ m_nodes_buf'[k] \in {m_nodes[k], m_nodes_buf[k], Null}
  <2>1. Next
    BY <1>4 DEF Next
  <2> QED BY <1>2, <1>4, <2>1 DEF CutNode, Refuse, store, nodeVars
<1>5. ASSUME NEW s \in NodeKey, NEW e \in NodeKey,
             AddEdge(s, e) \/ DeleteEdge(s, e) \/ CutEdge(s, e)
      PROVE  Next /\ UNCHANGED <<m_nodes, m_nodes_buf>>
  <2>1. Next
    BY <1>5 DEF Next
  <2> QED BY <1>5, <2>1 DEF AddEdge, DeleteEdge, CutEdge, Refuse, store, nodeVars
<1>6. ASSUME PasteAll
      PROVE  /\ Next
             /\ \A k \in NodeKey : /\ m_nodes'[k] \in {m_nodes[k], m_nodes_buf[k], Null}
                                   /\ m_nodes_buf'[k] \in {m_nodes[k], m_nodes_buf[k], Null}
  BY <1>2, <1>6 DEF Next, PasteAll, PasteNodes, NodesAfterPaste
<1> QED BY <1>1, <1>3, <1>4, <1>5, <1>6 DEF ContainerCall

LEMMA CreateInv ==
  ASSUME BbInv, NEW id \in NodeKey, id = m_id \/ Fresh(id), Create(id)
  PROVE  BlockTypeOK' /\ NotMade' /\ AllNamed' /\ IdsDiffer' /\ HeaderNamed'
<1>1. /\ New \in Block /\ New \notin blocks /\ New \in Nat
      /\ \E m \in Nat : blocks \cup {New} = 1 .. m
  BY NewFacts DEF Create, BbInv
<1> DEFINE new == New
<1>2. /\ blocks' = blocks \cup {new} /\ bb_id' = [bb_id EXCEPT ![new] = id]
      /\ m_id' = 1 + IF id > m_id THEN id ELSE m_id
      /\ UNCHANGED <<m_nodes, m_nodes_buf, data, m_headerBbKey, header, mixed>>
  BY DEF Create, IdAfter, vars, store, nodeVars
<1>3. /\ bb_id \in [Block -> NodeKey \cup {Undef}] /\ blocks \subseteq Block
      /\ m_id \in Nat \ {0} /\ id \in Nat \ {0}
      /\ \A b \in Block : bb_id[b] \in Nat
  BY BoundsAssumption DEF BbInv, BlockTypeOK, NodeKey, Undef
<1> HIDE DEF new
<1>4. \A b \in Block : bb_id'[b] = IF b = new THEN id ELSE bb_id[b]
  BY <1>2, <1>3
<1>5. BlockTypeOK'
  <2>1. (\E m \in Nat : blocks = 1 .. m)' /\ blocks' \subseteq Block
    BY <1>1, <1>2, <1>3 DEF new
  <2>2. m_id' \in Nat \ {0}
    BY <1>2, <1>3
  <2>3. bb_id' \in [Block -> NodeKey \cup {Undef}]
    BY <1>2, <1>3
  <2> QED BY <1>2, <2>1, <2>2, <2>3 DEF BbInv, BlockTypeOK
<1>6. NotMade'
  BY <1>2, <1>4 DEF BbInv, NotMade
<1>7. AllNamed'
  BY <1>1, <1>2, <1>3, <1>4 DEF BbInv, AllNamed, Named, new
<1>8. IdsDiffer'
  <2> SUFFICES ASSUME ~mixed PROVE /\ \A b \in blocks' : bb_id'[b] < m_id'
                                   /\ \A b, c \in blocks' :
                                        bb_id'[b] = bb_id'[c] /\ bb_id'[b] # Undef => b = c
    BY <1>2 DEF IdsDiffer
  <2>1. /\ \A b \in blocks : bb_id[b] < m_id
        /\ \A b, c \in blocks : bb_id[b] = bb_id[c] /\ bb_id[b] # Undef => b = c
    BY DEF BbInv, IdsDiffer
  <2>2. m_id' > id /\ m_id' > m_id
    BY <1>2, <1>3
  <2>3. \A b \in blocks : bb_id[b] # id
    BY <1>3, <2>1 DEF Fresh
  <2>4. \A b \in blocks : b # new /\ b \in Block /\ bb_id[b] \in Nat /\ m_id' \in Nat
    BY <1>1, <1>2, <1>3 DEF new
  <2>5. \A b \in blocks : bb_id'[b] = bb_id[b]
    BY <1>4, <2>4
  <2>6. bb_id'[new] = id
    BY <1>1, <1>4 DEF new
  <2>7. \A b \in blocks' : bb_id'[b] < m_id'
    BY <1>2, <1>3, <2>1, <2>2, <2>4, <2>5, <2>6
  <2>8. \A b, c \in blocks' : bb_id'[b] = bb_id'[c] /\ bb_id'[b] # Undef => b = c
    BY <1>2, <2>1, <2>3, <2>5, <2>6
  <2> QED BY <2>7, <2>8
<1>9. HeaderNamed'
  BY <1>1, <1>2, <1>3, <1>4 DEF BbInv, HeaderNamed, new
<1> QED BY <1>5, <1>6, <1>7, <1>8, <1>9

LEMMA DeclareInv ==
  ASSUME BbInv, Declare
  PROVE  BlockTypeOK' /\ NotMade' /\ AllNamed' /\ IdsDiffer' /\ HeaderNamed'
<1>1. /\ New \in Block /\ New \notin blocks /\ New \in Nat
      /\ \E m \in Nat : blocks \cup {New} = 1 .. m
  BY NewFacts DEF Declare, BbInv
<1> DEFINE new == New
<1>2. /\ blocks' = blocks \cup {new}
      /\ UNCHANGED <<bb_id, m_id, m_nodes, m_nodes_buf, data, m_headerBbKey, header, mixed>>
  BY DEF Declare, vars, store, nodeVars
<1>3. bb_id[new] = Undef
  BY <1>1 DEF BbInv, NotMade, new
<1>4. BlockTypeOK'
  BY <1>1, <1>2 DEF BbInv, BlockTypeOK, new
<1> HIDE DEF new
<1>5. NotMade' /\ AllNamed' /\ HeaderNamed'
  BY <1>2 DEF BbInv, NotMade, AllNamed, Named, HeaderNamed
<1>6. IdsDiffer'
  <2>1. Undef < m_id
    BY DEF BbInv, BlockTypeOK, Undef
  <2> QED BY <1>2, <1>3, <2>1 DEF BbInv, IdsDiffer
<1> QED BY <1>4, <1>5, <1>6

LEMMA AddBlockInv ==
  ASSUME BbInv, NEW b \in blocks, NEW key \in NodeKey \cup {Undef},
         AddedOnce(b, key), AddBlock(b, key)
  PROVE  BlockTypeOK' /\ NotMade' /\ AllNamed' /\ IdsDiffer' /\ HeaderNamed'
<1>1. /\ UNCHANGED <<blocks, m_id, m_headerBbKey, header>>
      /\ mixed' = (mixed \/ key # Undef \/ bb_id[b] = Undef)
  BY AddBlockEffect
<1>2. /\ bb_id \in [Block -> NodeKey \cup {Undef}] /\ blocks \subseteq Block /\ b \in Block
      /\ data \in [Ptr -> Block \cup {Undef}] /\ mixed' \in BOOLEAN
  BY <1>1 DEF BbInv, BlockTypeOK
<1>3. CASE UNCHANGED <<m_nodes, m_nodes_buf, data, bb_id>>
  <2>1. BlockTypeOK'
    BY <1>1, <1>2, <1>3 DEF BbInv, BlockTypeOK
  <2>2. ~mixed' => ~mixed
    BY <1>1
  <2> QED BY <1>1, <1>3, <2>1, <2>2
          DEF BbInv, NotMade, AllNamed, Named, IdsDiffer, HeaderNamed
<1>4. ASSUME NEW k \in NodeKey,
             ~InGraph(b), nextPtr \in Ptr,
             m_nodes' = [m_nodes EXCEPT ![k] = nextPtr],
             m_nodes_buf' = m_nodes_buf,
             data' = [data EXCEPT ![nextPtr] = b],
             bb_id' = [bb_id EXCEPT ![b] = k],
             key = Undef /\ bb_id[b] # Undef => k = bb_id[b]
      PROVE  BlockTypeOK' /\ NotMade' /\ AllNamed' /\ IdsDiffer' /\ HeaderNamed'
  <2>1. bb_id' \in [Block -> NodeKey \cup {Undef}] /\ data' \in [Ptr -> Block \cup {Undef}]
    BY <1>2, <1>4
  <2>2. BlockTypeOK'
    BY <1>1, <1>2, <2>1 DEF BbInv, BlockTypeOK
  <2>3. \A c \in Block : bb_id'[c] = IF c = b THEN k ELSE bb_id[c]
    BY <1>2, <1>4
  <2>4. NotMade'
    BY <1>1, <1>2, <2>3 DEF BbInv, NotMade
  <2>5. ASSUME NEW n \in NodeKey, NEW p \in {m_nodes[n], m_nodes_buf[n]}
        PROVE  p # Null => data'[p] \in blocks /\ bb_id'[data'[p]] = n
    <3> SUFFICES ASSUME p # Null PROVE data'[p] \in blocks /\ bb_id'[data'[p]] = n
      OBVIOUS
    <3>1. data[p] \in blocks /\ bb_id[data[p]] = n
      BY <2>5 DEF BbInv, AllNamed, Named
    <3>2. data[p] # b
      BY <1>4, <2>5 DEF InGraph, Holds
    <3>3. p < nextPtr /\ p \in Ptr
      BY <2>5 DEF BbInv, OwnInv, PtrsFresh, TypeOK
    <3>4. data'[p] = data[p]
      BY <1>2, <1>4, <3>3, KeyFacts
    <3> QED BY <1>2, <2>3, <3>1, <3>2, <3>4
  <2>6. AllNamed'
    <3>1. m_nodes \in [NodeKey -> Ptr \cup {Null}]
      BY DEF BbInv, OwnInv, TypeOK
    <3>2. data'[nextPtr] = b /\ bb_id'[b] = k
      BY <1>2, <1>4
    <3> QED BY <1>1, <1>4, <2>5, <3>1, <3>2 DEF AllNamed, Named
  <2>7. ~mixed' => ~mixed /\ bb_id' = bb_id
    <3> SUFFICES ASSUME ~mixed' PROVE ~mixed /\ bb_id' = bb_id
      OBVIOUS
    <3>1. ~mixed /\ k = bb_id[b]
      BY <1>1, <1>4
    <3> QED BY <1>2, <1>4, <3>1
  <2>8. IdsDiffer' /\ HeaderNamed'
    BY <1>1, <2>7 DEF BbInv, IdsDiffer, HeaderNamed
  <2> QED BY <2>2, <2>4, <2>6, <2>8
<1> QED BY <1>3, <1>4, AddBlockEffect

LEMMA SetHeaderInv ==
  ASSUME BbInv, NEW key \in NodeKey, setHeader(key)
  PROVE  BlockTypeOK' /\ NotMade' /\ AllNamed' /\ IdsDiffer' /\ HeaderNamed'
<1>1. /\ node_exists(key) /\ m_headerBbKey' = key /\ header' = data[m_nodes[key]]
      /\ UNCHANGED <<m_nodes, m_nodes_buf, blocks, bb_id, m_id, data, mixed>>
  BY DEF setHeader, CanBeHeader, blockVars, vars, store, nodeVars
<1>2. header' \in blocks /\ bb_id[header'] = key
  BY <1>1 DEF node_exists, BbInv, AllNamed, Named
<1>3. BlockTypeOK'
  BY <1>1, <1>2 DEF BbInv, BlockTypeOK
<1> QED BY <1>1, <1>2, <1>3
        DEF BbInv, NotMade, AllNamed, Named, IdsDiffer, HeaderNamed

LEMMA BbStep ==
  ASSUME BbInv, [BbNext]_bbVars
  PROVE  BbInv' /\ [Next]_vars
<1> DEFINE Rest == BlockTypeOK /\ NotMade /\ AllNamed /\ IdsDiffer /\ HeaderNamed
<1>1. ASSUME NEW id \in NodeKey, id = m_id \/ Fresh(id), Create(id)
      PROVE  Rest' /\ [Next]_vars
  BY <1>1, CreateInv DEF Create
<1>2. ASSUME Declare PROVE Rest' /\ [Next]_vars
  BY <1>2, DeclareInv DEF Declare
<1>3. ASSUME NEW b \in blocks, NEW key \in NodeKey \cup {Undef},
             AddedOnce(b, key), AddBlock(b, key)
      PROVE  Rest' /\ [Next]_vars
  BY <1>3, AddBlockInv, AddBlockEffect
<1>4. ASSUME NEW key \in NodeKey, setHeader(key) PROVE Rest' /\ [Next]_vars
  BY <1>4, SetHeaderInv DEF setHeader
<1>5. ASSUME ContainerCall PROVE Rest' /\ [Next]_vars
  <2>1. /\ Next /\ UNCHANGED <<blocks, bb_id, m_id, data, m_headerBbKey, header, mixed>>
        /\ \A n \in NodeKey : /\ m_nodes'[n] \in {m_nodes[n], m_nodes_buf[n], Null}
                              /\ m_nodes_buf'[n] \in {m_nodes[n], m_nodes_buf[n], Null}
    BY <1>5, ContainerFrame DEF BbInv, nameVars, blockVars
  <2>2. AllNamed'
    BY <2>1 DEF BbInv, AllNamed, Named
  <2>3. BlockTypeOK'
    BY <2>1 DEF BbInv, BlockTypeOK
  <2> QED BY <2>1, <2>2, <2>3 DEF BbInv, NotMade, IdsDiffer, HeaderNamed
<1>6. ASSUME UNCHANGED bbVars PROVE Rest' /\ [Next]_vars
  <2>1. UNCHANGED <<vars, m_nodes, m_nodes_buf, blocks, bb_id, m_id, data, m_headerBbKey,
                    header, mixed>>
    BY <1>6 DEF bbVars, nameVars, blockVars, vars, store, nodeVars
  <2>2. BlockTypeOK'
    BY <2>1 DEF BbInv, BlockTypeOK
  <2> QED BY <2>1, <2>2 DEF BbInv, NotMade, AllNamed, Named, IdsDiffer, HeaderNamed
<1>7. Rest' /\ [Next]_vars
  BY <1>1, <1>2, <1>3, <1>4, <1>5, <1>6 DEF BbNext
<1>8. OwnInv'
  BY <1>7, OwnStep DEF BbInv
<1> QED BY <1>7, <1>8 DEF BbInv

LEMMA BbStart == BbInit => BbInv
<1> SUFFICES ASSUME BbInit PROVE BbInv
  OBVIOUS
<1>1. OwnInv
  BY DEF BbInit, Init, OwnInv, TypeOK, KeysFresh, PtrsFresh, OwnedOnce, EmptyMap, Null,
         Result, NodeKey
<1>2. /\ blocks = {} /\ bb_id = [b \in Block |-> Undef] /\ m_id = 1
      /\ data = [p \in Ptr |-> Undef] /\ m_headerBbKey = Undef /\ header = Undef
      /\ mixed = FALSE
  BY DEF BbInit
<1>3. BlockTypeOK
  <2>1. blocks = 1 .. 0 /\ 0 \in Nat
    BY <1>2
  <2>2. \E m \in Nat : blocks = 1 .. m
    BY <2>1
  <2>3. m_id \in Nat \ {0}
    BY <1>2
  <2>4. /\ bb_id \in [Block -> NodeKey \cup {Undef}]
        /\ data \in [Ptr -> Block \cup {Undef}]
    BY <1>2
  <2> QED BY <1>2, <2>2, <2>3, <2>4 DEF BlockTypeOK
<1>4. \A n \in NodeKey : m_nodes[n] = Null /\ m_nodes_buf[n] = Null
  BY DEF BbInit, Init, EmptyMap
<1> QED BY <1>1, <1>2, <1>3, <1>4 DEF BbInv, NotMade, AllNamed, Named, IdsDiffer, HeaderNamed

THEOREM BbInvCorrect == BbSpec => []BbInv
BY BbStart, BbStep, PTL DEF BbSpec

-----------------------------------------------------------------------------
(* RESULTS *)

(* Seen from the container a client of the graph of basic blocks is one of *)
(* its clients (add_node of bbGraph.cc calls the inherited one).           *)
THEOREM ImplementsContainer == BbSpec => Spec
<1>1. BbInit => Init
  BY DEF BbInit
<1>2. BbInv /\ [BbNext]_bbVars => [Next]_vars
  BY BbStep
<1> QED BY <1>1, <1>2, BbInvCorrect, PTL DEF BbSpec, Spec

(* The key of a node is the id of its block, whatever is called of the     *)
(* container and whatever name a block is added under.                     *)
THEOREM KeyIsBlockIdCorrect == BbSpec => []KeyIsBlockId
<1>1. BbInv => KeyIsBlockId
  BY DEF BbInv, AllNamed, Named, KeyIsBlockId
<1> QED BY <1>1, BbInvCorrect, PTL

(* A client that takes blocks from the manager and lets them keep their    *)
(* ids is never refused (BasicBlockManager::create, add_node).             *)
THEOREM OwnIdsAreFreeCorrect == BbSpec => []OwnIdsAreFree
<1>1. BbInv => OwnIdsAreFree
  <2> SUFFICES ASSUME BbInv, ~mixed, NEW b \in blocks, ~InGraph(b), bb_id[b] # Undef
               PROVE  m_nodes[bb_id[b]] = Null /\ m_nodes_buf[bb_id[b]] = Null
    BY DEF OwnIdsAreFree
  <2>1. bb_id[b] \in NodeKey
    BY DEF BbInv, BlockTypeOK
  <2>2. ASSUME NEW p \in {m_nodes[bb_id[b]], m_nodes_buf[bb_id[b]]}, p # Null
        PROVE  FALSE
    <3>1. data[p] \in blocks /\ bb_id[data[p]] = bb_id[b]
      BY <2>1, <2>2 DEF BbInv, AllNamed, Named
    <3>2. data[p] = b
      BY <3>1 DEF BbInv, IdsDiffer
    <3> QED BY <2>1, <2>2, <3>2 DEF InGraph, Holds
  <2> QED BY <2>2
<1> QED BY <1>1, BbInvCorrect, PTL

(* accessHeader finds the block that setHeader was given, or none.         *)
THEOREM HeaderIsTheOneCorrect == BbSpec => []HeaderIsTheOne
<1>1. BbInv => HeaderIsTheOne
  <2> SUFFICES ASSUME BbInv, ~mixed, m_headerBbKey # Undef, node_exists(m_headerBbKey)
               PROVE  data[m_nodes[m_headerBbKey]] = header
    BY DEF HeaderIsTheOne
  <2> DEFINE p == m_nodes[m_headerBbKey]
  <2>1. m_headerBbKey \in NodeKey /\ p # Null
    BY DEF BbInv, BlockTypeOK, node_exists
  <2>2. data[p] \in blocks /\ bb_id[data[p]] = m_headerBbKey
    BY <2>1 DEF BbInv, AllNamed, Named
  <2>3. header \in blocks /\ bb_id[header] = m_headerBbKey
    BY DEF BbInv, HeaderNamed
  <2> QED BY <2>2, <2>3 DEF BbInv, IdsDiffer
<1> QED BY <1>1, BbInvCorrect, PTL
=============================================================================
