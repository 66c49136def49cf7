------------------------------- MODULE BbGraph -------------------------------
(***************************************************************************)
(* The graph of basic blocks (include/bbGraph.hpp, src/bbGraph.cc) on top  *)
(* of the container of CfgGraph, with the manager that makes the blocks    *)
(* (include/memManager.hpp).  Three parties name a block: its manager      *)
(* gives it an id, the graph a key, the header is remembered by key; and   *)
(* the passes take the one name for the other.                             *)
(*                                                                         *)
(* A Node refers to its block (Node::m_data is a reference), so data maps  *)
(* addresses of nodes to blocks.  InstrManager counts ids as               *)
(* BasicBlockManager does.  What is in the blocks, removeUnusedConsts      *)
(* included, is the subject of BasicBlock and Passes.                      *)
(***************************************************************************)
EXTENDS CfgGraph

CONSTANT MaxBlocks      \* bound: the blocks made in a behaviour

ASSUME MaxBlocksAssumption == MaxBlocks \in Nat \ {0}

Block == 1 .. MaxBlocks
Undef == 0              \* ID_UNDEF, KEY_UNDEF

VARIABLES blocks,       \* the blocks made so far
          bb_id,        \* block -> m_bb_id
          m_id,         \* BasicBlockManager: the next id
          data,         \* node -> its block
          m_headerBbKey,
          header,       \* history: the block that was made the header
          mixed         \* history: a name came from neither the manager
                        \* nor the block

blockVars == <<blocks, bb_id, m_id>>
nameVars  == <<blockVars, data, m_headerBbKey, header, mixed>>
bbVars    == <<vars, nameVars>>

BbInit ==
  /\ Init
  /\ blocks = {} /\ bb_id = [b \in Block |-> Undef] /\ m_id = 1
  /\ data = [p \in Ptr |-> Undef]
  /\ m_headerBbKey = Undef /\ header = Undef
  /\ mixed = FALSE

New == Cardinality(blocks) + 1

(* Mutant: an id chosen by the caller does not push the counter.           *)
IdAfterNoMax(id) == m_id + 1

IdAfter(id) == 1 + IF id > m_id THEN id ELSE m_id

(* BasicBlockManager::create, with the id of the caller or the next one.   *)
Create(id) ==
  /\ New \in Block                                               \* bound
  /\ blocks' = blocks \cup {New}
  /\ bb_id' = [bb_id EXCEPT ![New] = id]
  /\ m_id' = IdAfter(id)
  /\ UNCHANGED <<vars, data, m_headerBbKey, header, mixed>>

(* A block without a manager: BasicBlock().                                *)
Declare ==
  /\ New \in Block                                               \* bound
  /\ blocks' = blocks \cup {New}
  /\ UNCHANGED <<vars, bb_id, m_id, data, m_headerBbKey, header, mixed>>

(* Mutant: set_id is left out.                                             *)
RenamedNot(b, id) == bb_id

(* set_id of the block that was added.                                     *)
Renamed(b, id) == [bb_id EXCEPT ![b] = id]

(* add_node(b, key): the key of the caller, or the id of the block, or the *)
(* graph's own; the block takes it as its id.  The inherited add_nodes     *)
(* ends in this virtual function and is a run of calls without a key.      *)
AddBlock(b, key) ==
  LET name == IF key = Undef THEN bb_id[b] ELSE key IN
  /\ IF name = Undef THEN AddNodes(1) ELSE AddNode(name)
  /\ IF ret' = "key"
       THEN /\ data' = [data EXCEPT ![nextPtr] = b]
            /\ bb_id' = Renamed(b, IF name = Undef THEN m_actual_node_key
                                                   ELSE name)
       ELSE UNCHANGED <<data, bb_id>>
  /\ mixed' = (mixed \/ key # Undef \/ bb_id[b] = Undef)
  /\ UNCHANGED <<blocks, m_id, m_headerBbKey, header>>

CanBeHeader(key) == node_exists(key)

setHeader(key) ==
  /\ CanBeHeader(key)
  /\ m_headerBbKey' = key
  /\ header' = data[m_nodes[key]]
  /\ UNCHANGED <<vars, blockVars, data, mixed>>

(* The other calls are those of the container.                             *)
ContainerCall ==
  /\ \/ \E n \in NodeKey : DeleteNode(n) \/ CutNode(n)
     \/ \E s, e \in NodeKey : AddEdge(s, e) \/ DeleteEdge(s, e) \/ CutEdge(s, e)
     \/ PasteAll
  /\ UNCHANGED nameVars

-----------------------------------------------------------------------------
(* SPECIFICATION *)

Holds(p, b) == p # Null /\ data[p] = b
InGraph(b) == \E n \in NodeKey : Holds(m_nodes[n], b) \/ Holds(m_nodes_buf[n], b)

(* The contract: an id given to create is not the id of a block, and a     *)
(* block that is in the graph, or cut from it, is not added again, unless  *)
(* under its own id, which the graph refuses while the block is live.      *)
Fresh(id) == \A b \in blocks : bb_id[b] # id
AddedOnce(b, key) == InGraph(b) => key = Undef /\ node_exists(bb_id[b])

BbNext ==
  \/ \E id \in NodeKey : (id = m_id \/ Fresh(id)) /\ Create(id)
  \/ Declare
  \/ \E b \in blocks, key \in NodeKey \cup {Undef} :
       AddedOnce(b, key) /\ AddBlock(b, key)
  \/ \E key \in NodeKey : setHeader(key)
  \/ ContainerCall

BbSpec == BbInit /\ [][BbNext]_bbVars

-----------------------------------------------------------------------------
(* PROPERTIES *)

(* Under the contract, and whatever is called of the container, the key of *)
(* a node, live or cut, is the id of its block, so that the passes may     *)
(* look up bb()->get_id() in the graph (checkElimination.hpp) and the      *)
(* blocks differ by id.                                                    *)
KeyIsBlockId ==
  \A n \in NodeKey : \A p \in {m_nodes[n], m_nodes_buf[n]} \ {Null} :
    bb_id[data[p]] = n

(* A client that takes its blocks from the manager, some under ids of its  *)
(* own choice, and adds them under these ids is never refused.  A key of   *)
(* the caller or a block without id ends that: the counters of the manager *)
(* and the graph do not know each other, and nothing keeps them apart.     *)
OwnIdsAreFree ==
  ~mixed => \A b \in blocks :
              ~InGraph(b) /\ bb_id[b] # Undef =>
                m_nodes[bb_id[b]] = Null /\ m_nodes_buf[bb_id[b]] = Null

(* For such a client accessHeader finds the block that setHeader was given *)
(* or none, through all cutting, pasting, deleting and adding: no block    *)
(* comes under the key of a header that was deleted.                       *)
HeaderIsTheOne ==
  ~mixed /\ m_headerBbKey # Undef /\ node_exists(m_headerBbKey) =>
    data[m_nodes[m_headerBbKey]] = header
=============================================================================
