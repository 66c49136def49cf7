# A TLA+ model of compiler_research

The repository is a small compiler middle end in C++: a control-flow graph
container with graph algorithms, instructions and basic blocks with def-use
lists, and passes (check elimination, constant folding, peepholes, a loop
tree). It is single-threaded and keeps everything in memory. What is hard in it
is not concurrency but *double bookkeeping*: the same arc, use or place in a list
is written down two or three times, every call updates its own part of it, and a
disagreement shows only many calls later. The second difficulty is algorithms
that change the graph (colours, cut nodes) while they ask about it.

## 1. Inventory

| Component | State | Operations | Correct when |
|---|---|---|---|
| Graph container (`include/graph.hpp`) | `m_nodes`, `m_edges`, the two buffers, two key counters; in every node `m_successors`, `m_predecessors` (maps key -> `Node*`) | add_node(s), add_edge, delete_node, delete_edge, cut_node, cut_edge, paste_all | maps and edge table agree; every node is owned once; what is cut can be pasted; keys are fresh |
| DFS, hasPath, colours | `m_color` of the nodes, the recursion | DFS, DFS_, hasPath, preserve_colors_, recover_colors_ | lists the reachable nodes; leaves the colours as they were; returns |
| RPO | colours, a queue, the result | RPO | every reachable node once, dominators first |
| Dominance query | the whole graph, through cut_node and paste_all | getDominatedNodes, is_a_dominates_b | agrees with the path definition; nothing is lost and, unless paste_all stops, the graph is back afterwards |
| Cycle analysis | colours, the recursion, the cycles | get_cycles, get_cycles_ | every cycle contains a reported edge; natural loops are the reducible ones |
| Loop tree (`src/LoopTreeBuilder.cc`) | a second graph, `m_loop` of the nodes | buildLoopTree | overlapping loops hang one under the other; every block has the label of an innermost loop |
| Instructions, blocks (`src/instruction.cc`, `src/basicblock.cpp`) | m_instrs, m_bb, m_prev, m_next, m_inputs, m_users | push_instrs, erase_instr, cut_instr, push_input, erase_input, ... | list, links, block pointer and def-use lists agree |
| Block graph (`include/bbGraph.hpp`, `src/bbGraph.cc`) | header key, block ids | add_node, setHeader, removeUnusedConsts | node key = block id; the header key names the block that was made the header |
| Check elimination (`include/checkElimination.hpp`) | a list of checks, two iterators | doCheckElimination | no check is lost, none is left |
| Folding, peepholes (`include/constFoldProp.hpp`) | instructions, constants in the header, the iterators of a pass | doConstFoldProp, doPeepholes, doAtomicPeepholes | the checks are given the same values; operands stand before their uses; one pass leaves nothing to do |
| Managers (`include/memManager.hpp`) | all instructions, all blocks, id counters | create | ids are unique |

Interaction is by direct calls and shared pointers. The passes call RPO,
is_a_dominates_b and the block operations; is_a_dominates_b and get_cycles call
DFS, and the former cut_node and paste_all, on the very graph they were asked
about; buildLoopTree calls get_cycles, RPO and DFS and fills a second graph.

The hazards are listed in `PROJECT.json`, each with its line and the
properties that cover it, or the reason why none does yet.

## 2. Modules

| Module | Models |
|---|---|
| `DiGraph` | abstract: a directed graph part of which can be hidden and brought back |
| `CfgGraph` | the container, every mutating public call, for any client (`Spec`) and for a client that keeps the contract (`ContractSpec`) |
| `Reach`, `ReachProofs` | reachability and dominance, defined without an order of visits, and their facts |
| `Coloring` | the graph and the colours that all searches share |
| `Dfs` | DFS and hasPath, one action per turn of a loop or return of a call |
| `Rpo`, `RpoProofs`, `MCRpo` | RPO, likewise |
| `Searches`, `MCSearches` | DFS, hasPath and RPO, called one after the other in any order |
| `Dominance`, `MCDominance` | the query: two searches of `Dfs`, cut_node and paste_all, the loop that takes the second list from the first |
| `SearchProofs` | proofs about `Dfs`, `Searches` and `Dominance` |
| `Cycles` | get_cycles |
| `LoopTree`, `MCLoopTree` | buildLoopTree on top of `Cycles` and `Rpo` |
| `CyclesProofs` | proofs about `Cycles` and `LoopTree` |
| `CheckElimination`, `CheckEliminationProofs`, `MCCheckElimination` | the pass |
| `BasicBlock`, `BasicBlockProofs`, `MCBasicBlock` | instructions, blocks, def-use lists |
| `BbGraph` | the graph of basic blocks on top of `CfgGraph`, with the block manager |
| `GraphProofs` | proofs about `CfgGraph` and `BbGraph`; `ContractSpec` implements `DiGraph` |
| `Passes`, `PassesProofs`, `MCPasses` | folding and peephole passes, with the values that programs compute |

Composition:

* `Searches` extends `Dfs` and `Rpo` over the one colouring of `Coloring`, so that a
  search that left a colour behind would spoil the next one.
* `Dominance` extends `Dfs` with variables of its own and uses its actions. What it
  says about cut_node and paste_all is the abstract effect that
  `GraphProofs!Refinement` proves of the container: the theorem
  `OnlyHidesAndRestoresCorrect` says that every step of a query is, for `DiGraph`, hiding
  the target, restoring everything, or nothing, unless paste_all stops half way.
* `LoopTree` extends `Cycles` and `Rpo`: the tree is built from what get_cycles returned
  and in the order that RPO returns, both run on the same coloured graph, one after
  the other. The DFS of each loop enters by what it is proved to return.
* `BbGraph` extends `CfgGraph`: its add_node ends in the inherited one, all other
  calls are those of the container. `GraphProofs!ImplementsContainer` proves that
  a client of it is a client of the container.
* `Cycles` and `CheckElimination` use a dominance query as the relation `Dominates` of
  `Reach`. That a query answers this relation is `DominatesEveryPath` of `Dominance` with
  the theorem `DominatesMeansPaths` of `ReachProofs`; both are proved. `CheckElimination` takes any block order with
  the properties proved of `Rpo`.
* `Passes` uses the calls of `BasicBlock` by their effect on lists and uses.

### How state and actions correspond to the code

* `CfgGraph` keeps the names of the members. A `Node*` is the number of an
  allocation, so a node that is deleted and made again under the same key is
  another one. A call is one action with all its early returns; `ret` is its
  answer. One private step, cutting an edge whose other end is gone, throws
  `std::out_of_range`: the call then has the result "throw" and what was done up
  to it stays.
* In `Dfs`, `Rpo` and `Cycles` the recursion is a stack of keys and, per key, the
  successors the for loop has still to pass; successors are visited in key order,
  the order of the map. Colours are one function over the nodes; `saved` is what
  preserve_colors_ returned, and recover_colors_ writes it back.
* In `Dominance` the graph may have a part that was cut before the query, arcs among
  it whose end was deleted since (`Stuck`). paste_edge refuses such an arc and paste_all
  stops there; getDominatedNodes does not look at its result. How many arcs come back
  before it depends on the edge keys, which are left out, so `Answer` picks any set of
  those that can be pasted (`Pasted`); with no arc stuck it is all of them.
* In `BasicBlock` a list of inputs or users is the number of occurrences of each
  instruction: no property depends on the order. One turn of the loop of
  push_instrs is an action: a call is a run of turns, and its test for duplicates
  is the test of `m_bb`, which the first occurrence has set. The
  constructor attaches the instructions of its list up to the first repeated one
  (`Attached`) and throws there: they point at a block that does not exist. An
  instruction may use itself; erase_instr then clears its own users before it looks
  at them (`Forgotten`). `use_once` is the edit of `inputs()` by which applyPeephole
  takes one of two equal operands away without telling the operand. `Throws` is the
  code's own self-check. `erased` and `edited` are history variables: what erase_instr
  was called for, and whose inputs were edited by hand.
* In `BbGraph` `data` maps the address of a node to its block, as `Node::m_data` refers
  to it. `header` and `mixed` are history variables: which block was made the
  header, and whether a name ever came from neither the manager nor the block.
* In `LoopTree` the loop graph is a set of loop keys and a set of arcs. The payload
  of its nodes, a reference to a cycle that is local to buildLoopTree, is left out.
* In `Passes` one action is one turn of the loop of a pass; removeUnusedConsts, which
  ends doPeepholes, finds its keys in one and erases one key in each turn after it,
  in any order, for none of them uses another. A program is a function
  from instruction ids to records; `Value` computes what the instructions that are
  reached from the header yield for a loaded word, `meaning` keeps what the checks
  were given at first. There are `Size` words and `IntSize` values of an `int`, both
  powers of two, because the peephole adds two 64-bit constants in an `int`. AND,
  XOR and SHL are recursive functions on numbers (`BitAnd`, `BitXor`, `Shifted`), so
  that they can be reasoned about; `MCPasses` assumes, and TLC evaluates, that they
  are the operators of the community module Bitwise, on every word of the run. The links m_prev, m_next and m_bb, which follow the lists
  (`Linked`, `Placed`), are left out, and of a user list only its members count:
  rewriting ADD a, a to SHL a, 1 edits `inputs()` by hand and leaves a second entry
  of the same user, which no pass tells from one; what it does to
  the calls of a block is checked in `BasicBlock` (`use_once`). An assertion that fails
  ends in the pass "aborted". So does the read of the ends of an empty operand list by
  doAtomicPeepholes, which no assertion guards: it is undefined behaviour, and nothing
  is claimed of the program after it. `gap` notes that a
  constant was folded to a wrong value (section 5).
* In `CheckElimination` a check is its place in the layout, its signature its
  opcode and inputs; the iterators are positions in the list.

Undefined behaviour: paste_node, cut_edge and delete_edge use a map iterator just
after erasing it. The read value is the one before the erase with the
allocators the program is built with (a freed node of a map is not reused between
the two statements), and the model takes that value. Reads through a pointer to a
deleted node are not modelled: `ContractSpec` never makes them, and in `Spec` only
the mutating calls appear, which compare such pointers but do not follow them.
The self-check of an empty block dereferences `begin()` of the empty list and does
not use what it reads; the model ignores the read.

### The contract of the graph container

`ContractNext` is `Next` restricted to calls that respect:

1. delete_node only of a node without edges, cut edges included;
2. add_node never of a key that is in the buffer;
3. add_edge never between two ends whose edge is in the buffer.

Each clause is necessary: without it one of the properties fails. For the first,
the run `graph_corrupted` shows it.

### The other contracts

* `BasicBlock`: an erased instruction is not used again, the constructor gets at most
  one instruction, which is in no block, forget_dependencies and removeUnusedInstrs
  (which nothing calls) are not called, and the lists are changed through the calls,
  or as applyPeephole changes the inputs of an instruction that is in a block.
* `BbGraph`: an id given to the manager is not the id of another block; a block that is
  in the graph, or cut from it, is not added again except under its own id, which
  the graph refuses while the block is live. The claims about free ids and the
  header are for clients that keep `mixed` false. The others may find an id taken by
  a key that the graph gave out, since nothing keeps the two counters apart, and may
  put another block under the key of a header that was deleted: the code does both
  and promises nothing else, so no property speaks of it.
* `LoopTree`: the keys are 1 .. n and the graph is analysed once, because m_loop is
  never reset. Both hold in the tests.
* `Passes`: the header has the least key and comes first in RPO, which lists no block
  twice (`RpoNoRepeatsCorrect`), there are at least two blocks, and no phis. Programs are
  `WellFormed`: uses and inputs agree and every instruction is in one place, as
  `BasicBlock` has it, operands are defined before their uses (`Ordered`, and
  `OrderedInside` for blocks that RPO does not list), and the code's own self-check
  accepts them. They are `Valued`: a constant is no CHECK, and one that is a binary
  operation was folded and is in the header, since InstrManager makes no others.
  `ProgramsAssumption` demands this of the programs a run starts with, and TLC
  evaluates it on the 5510 of the runs.

## 3. Runs

| Run | Bounds | Shows |
|---|---|---|
| `graph_contract` | 3 keys, 2 edges, 4 allocations | under the contract: adjacency = edges, no twin edges, all that is cut can be pasted, nothing leaks, failing calls change nothing, refinement of `DiGraph` |
| `graph_corrupted` | 2 keys, 2 edges, 3 allocations | violation: outside the contract add_edge reports corrupted data |
| `searches` | every graph of at most 3 nodes, every root and end, calls in sequence | reachability for DFS and RPO, hasPath, dominators first, every call returns |
| `rpo_order` | every graph of at most 3 nodes | violation: the order is not a reverse postorder |
| `dominance` | rooted graphs of 4 nodes; graphs of 3 nodes with any part cut; the same beside a cut arc of a deleted node | the path definition of dominance; nothing lost, all restored that can be, colours restored; every query ends |
| `cycles` | every graph of at most 3 nodes, rooted graphs of 4 | every cycle reported, nothing else, natural loops reducible, colours; the loop tree nests and labels are innermost; termination |
| `check_elimination` | 4 checks, 2 signatures, 3 graphs with every admissible order | no check lost, none left, termination |
| `block` | 3 instructions, 2 blocks, at most 2 inputs, a user listed at most 3 times; instructions and blocks interchangeable | lists, links, def-use and self-check agree |
| `block_constructed` | 2 instructions, 1 block | violation: the constructor does not link `m_next` |
| `bb_graph` | 2 node keys, 2 edges, 3 allocations, 2 blocks | any calls of the container: node key = block id, keys fresh, nothing owned twice; for a client that keeps the manager's ids: never refused, the header is the one that was set |
| `passes` | 5510 programs of 2 or 3 operations over 3 blocks; 16 words, 8 values of an int; 10 instructions | the meaning of the program in every state, not only between passes; operand order, def-use, the self-check, one pass suffices, termination |
| `passes_meaning` | as `passes` | violation: a SHL of two constants is folded without being computed |

Why the bounds are enough to be interesting: three nodes have self-loops, two-way
arcs, triangles and unreachable parts; four are needed for a diamond and for a
loop with two entries, which dominance and reducibility are about. Two edges and
one allocation more than keys let an edge be cut and made again and a node be
deleted and made again. Four checks let an erase happen between two others with
one check behind. Two inputs are what the binary operations have; a third place
among the users lets an operand be used again after an edit by hand left two there
for one input. The instance of `block` is checked up to a permutation of instructions and of
blocks, which `BasicBlock` never tells apart, and has no liveness property. Two blocks and three allocations let a block be deleted and
another take its key, and let cut_node meet a dead end and throw. In `passes` the
programs enumerate the opcodes, repeated operands, constants that overflow the int,
shared subexpressions and all splits over two blocks; ten instructions leave room
for the constants that the passes make. The proofs below remove the bounds where
they exist.

Deadlock is checked except in `check_elimination` (the pass ends), `block` (the
instructions of the instance may all be erased), `cycles` (a graph is analysed once)
and the two runs of `Passes` (the program may abort).

Fairness: weak fairness of the steps of a call that has begun. The program is
single-threaded and blocks nowhere, so a call that can make a step makes it. No
fairness is assumed for making calls.

## 4. Proofs

All proofs are for every value of the constants (any finite or infinite number of
nodes in the searches, any finite graph in the dominance query and the loop tree,
any number of instructions and blocks, any bounds in the container and the block
graph, any width of words and of `int`).

* **Container, any client** (`GraphProofs`): `TypeOK`, `KeysFresh`,
  `NeverOwnedTwice`. The inductive invariant `OwnInv` adds that addresses of nodes
  in the tables are below the next allocation and that the tables are injective
  and disjoint.
* **Container, contract**: `CohInv` adds to `OwnInv` that the maps of live nodes
  mirror the edge table (`AdjLive`), that all other nodes have empty maps
  (`AdjElse`), no twins, restorability and that every allocated node is owned or
  freed. None of these is inductive alone: a paste needs restorability to find the
  ends and the absence of twins to insert each entry once; restorability needs
  fresh keys. From it follow the five contract properties, the action property
  `FailedCallsChangeNothing`, and `Refinement`: the abstraction forgets the maps
  and maps each call to one step of `DiGraph` or a stutter.
* **Searches** (`SearchProofs`, `RpoProofs`): soundness and completeness against the
  least-fixed-point definition `Reach`. The core for DFS: the stack is a path from
  the root, listed nodes are reachable, and a listed node that is no longer on the
  stack has all its successors listed, except when the end key stopped the search.
  For RPO `DominatorsFirst` rests on `AroundLater`: what is found before node a is
  reachable without a. `CallsInv` carries both over to calls in any order
  (`CallsDfsCorrect`, `CallsRpoCorrect`): what a search needs of its caller is only that
  all nodes are WHITE and no other search is under way (`DfsQuiet`, `RpoQuiet`).
* **Dominance, the definition** (`ReachProofs`): the modules say that a dominates b when
  b is reachable, and not without a. `DominatesMeansPaths` proves for every finite graph
  that this is dominance over all simple paths. A shortest walk is a path; its
  existence comes from the well-foundedness of < on the numbers (`LeastElement`), since
  the induction theorems cannot be used.
* **Dominance, the query** (`SearchProofs`): `DominatesEveryPath`, `QueryRestores`,
  `QueryRestoresColors` and the action property `OnlyHidesAndRestores`, on every finite
  graph of which anything may be cut. An arc that cannot be pasted may
  keep others cut; the claim is that even then every node is back and every arc is in
  the graph or in the buffer. `QueryInv` says for each stage what the graph is
  relative to the one the query was asked about, and what the lists hold: before the
  cut the graph of the caller and its reachable nodes, after it that graph without
  the target, and in the last loop the first list without the keys looked for so
  far. The search is used through `DfsInv`, which speaks of the graph of the moment and
  therefore survives the cut once its list was copied (`DfsQuiet`).
* **Cycles** (`CyclesProofs`): `EveryCycleReported`, `OnlyCyclesReported`,
  `ReducibleAreNatural` and `ColorsRestored` for every graph. `CycleInv` says of the
  search that the GRAY nodes are the stack, that the stack is a walk on which every
  node reaches those after it, and is reached from the root without any node that
  is not before it (`StackIsWalk`); that a finished node has only finished successors
  or reported edges (`PassedEdges`) and lies on no cycle of unreported edges
  (`FinishedAcyclic`). Natural back edges are reported whatever the order because an
  edge to a dominator of its source is met while that dominator is on the stack.
* **Loop tree** (`CyclesProofs`): `LoopsNest` and `LabelsAreInnermost` for every graph with
  keys 1 .. n. Labels are overwritten, so neither is inductive. `TreeInv` keeps, for
  the suffix of the order that was passed, that a label is a passed loop around the
  node (`LabelsAround`), that a node once relabelled by loop l carries a label that
  hangs under l (`LabelsBelow`), that links lead from a loop to one passed later
  (`ArcsForward`, which makes the tree acyclic because RPO lists no node twice), and that
  overlapping loops hang together (`OverlapHangs`). That every loop is visited at all
  rests on `RpoListsReachable` and on `SourcesReached`. While RPO uses the colours, what
  get_cycles left is kept without them (`Asleep`).
* **Check elimination**: dominance is transitive and antisymmetric
  (`DominatesTransitive`, `DominatesAntisymmetric`), so covering is transitive and
  an erased check whose witness is erased later inherits the witness of that
  (`ErasedAreCovered`). `NothingLeftToErase` rests on `Compared`: all pairs before
  the two iterators were compared, and covering never points backwards in an order
  that lists dominators first. The assumption `GraphsAssumption` is what is proved
  of `Rpo`.
* **Blocks** (`BasicBlockProofs`): `Placed`, `Linked`, `DefUse` and
  `OnlyLooseUsesThrow` for any number of instructions and blocks. They are inductive
  only together, with `ErasedOut` (an erased instruction is in no block): unlinking
  needs that neighbours are in the same block and listed once; erasing needs that
  users and inputs agree, for it clears the lists of others by following its own.
  After an edit by hand they agree only in who is listed, not in how often, and that
  is enough for it (`Agree`).
  Constructing a block from one free instruction is shown to be the step that
  push_instrs makes (`ConstructIsPush`).
* **Block graph** (`GraphProofs`): `KeyIsBlockId`, `OwnIdsAreFree`, `HeaderIsTheOne` for
  any bounds. `BbInv` adds to `OwnInv` that blocks are numbered as they are made, that
  the block of every node in the tables carries the key as its id, that ids of the
  manager differ and are behind its counter, and that the header keeps the id it
  was set by. `ImplementsContainer` carries `KeysFresh` and `NeverOwnedTwice` over.

* **Passes** (`PassesProofs`): `DefUse`, `OperandsBefore`, `OnlyStrippedStop` and
  `OnePassSuffices` for any well-formed programs, blocks, order and bounds. `PassesInv`
  says that the program stays `WellFormed`, which is what a pass hands to the next; its
  parts need each other. A folded instruction may go to the end of the header only
  because its users are in later places; re-linking I1 = (I0 + C0) + C1 to I0 keeps the
  order because an operand of an operand that is not in the header comes earlier
  still (`KnownTrans`); the five instructions that makePeepholes touches are different
  (`ReducibleFacts`), which rests on order and on there being one user; a self-check
  that accepted a program goes on doing so except for the ADD that was stripped.
  `KeysUnused`: erasing a constant cannot give another one a user. `BehindSettled`:
  nothing a pass can do applies behind its iterator, since what is behind does not use
  what is current (`BehindDoesNotUse`, `FoldedBehind`), and cutting the current
  instruction leaves what is before it in place (`CutPlaces`).

* **Passes, what the program computes** (`PassesProofs`): `MeaningKept`, for the same
  programs if they are `Valued`. `MeaningInv` adds to it that programs stay
  `Valued` and that doPeepholes puts aside only ADDs (`OddAdds`): without the first
  erasing a constant could erase a check, without the second erasing an odd
  instruction could. The argument needs no induction theorem:
  - *Recursive functions exist.* An equation for a function that looks only at
    arguments of lower rank has a solution (`RecursiveFunction`) and only one
    (`OnlyRecursiveFunction`): the solutions up to some rank are put together, and
    a least rank where two differ, or where none exists, contradicts itself
    (`ByRank`). This gives `BitAnd`, `BitXor` and `Shifted` their equations, and
    their type (`BitAndFacts`, `BitXorFacts`, `ShiftedFacts`).
  - *Programs have a value.* In a well-formed program operands that are not in the
    header come earlier in the lists that `Order` names; the place is the rank
    (`LiveRank`), an instruction of the header reads nothing but its own value, and
    so `Value` is the one function in which every instruction yields what its
    operands make of it (`ValueSolves`).
  - *A step keeps the meaning* if the old values also solve the equations of the new
    program and the checks read the same (`SameMeaning`). One lemma for each way in
    which a pass changes a program shows this: an instruction becomes the constant
    that it yields (`AsConstMeaning`), one that nobody uses is erased
    (`ErasedMeaning`), a + a becomes a << 1 (`AsShiftMeaning`), (x + d) + c becomes
    x + (d + c) (`DetachedMeaning`). The last is the delicate one: the stripped ADD
    yields something else afterwards, which nobody reads, and the sums agree
    because adding is associative modulo the number of words (`SumOfSums`); this is
    where the sum must fit the `int`, or `gap` is set.

Only model-checked: liveness everywhere (the searches, the query, the loop tree, the
passes), since fairness and ENABLED are beyond the prover, and that `BitAnd`, `BitXor`
and `Shifted` compute the operations on bits (`OperationsOnWords`), which the proof does
not need: it would go through for any `&` and `^` that are 0 where the peepholes say so. Every
invariant and action property of a passing run has a theorem.

## 5. Findings

* `graph_corrupted`: delete_node leaves dangling entries in the neighbours' maps,
  until add_edge meets its own "corrupted data" branch.
* `rpo_order`: what is called RPO is a breadth-first order. What the passes need,
  dominators first, it does have, and that is proved.
* `block_constructed`: the list constructor of a block promises connections and
  makes only the backward ones.
* `passes_meaning`: calcConstants marks a SHL of two constants as a constant but has no
  case that computes it, so the value it was made with stays; doAtomicPeepholes
  makes such SHL itself. The property fails for a
  second reason, which the run does not reach before: makePeepholes adds two 64-bit
  constants in an `int`, so that x + C0 + C1 becomes something else when C0 + C1 does
  not fit. `passes` and its theorem show that these two are the only ways in which
  the passes change what a program computes (`gap`).

## 6. Not modelled, and the plan

Next:

* A second analysis of the same graph by buildLoopTree, which meets the labels of the
   first.

Left out for good:

* text dumps and logging, edge payloads (no operation depends on them);
* the list of phis of a block (nothing fills it: push_phys has no caller) and the
  move constructor of a block (nothing calls it);
* the self-checks and destructors of the managers: they keep no state beyond what is
  created, and `BasicBlockManager` compares the number of blocks with a set that it
  never fills;
* Cycle::blocks and the payload of loop nodes, references to locals of
  buildLoopTree;
* `main.cc` (empty), the build.
