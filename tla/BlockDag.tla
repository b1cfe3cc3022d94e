------------------------------ MODULE BlockDag ------------------------------
(***************************************************************************)
(* The block DAG and what GHOSTDAG derives from it, for DAGs no wider than *)
(* the parameter K: every block of a mergeset is blue, so the blue score   *)
(* of a block is the number of its ancestors, and blocks of equal          *)
(* difficulty make the order by blue work the order by blue score.  Equal  *)
(* blue work is decided by the hash, here by Rank.                         *)
(***************************************************************************)
EXTENDS Naturals, FiniteSets

CONSTANTS
    Block,      \* block hashes
    Genesis,    \* the genesis block
    Parents,    \* [Block -> SUBSET Block], Header::direct_parents
    Rank        \* [Block -> Nat], the order of the hashes

ASSUME DagAssumption ==
    /\ Genesis \in Block
    /\ Parents \in [Block -> SUBSET Block]
    /\ \A b \in Block : Parents[b] = {} <=> b = Genesis
    /\ Rank \in [Block -> Nat]
    /\ \A b, c \in Block : Rank[b] = Rank[c] => b = c

\* The ancestors of a block, without and with the block itself.
Past[b \in Block] == Parents[b] \cup UNION {Past[p] : p \in Parents[b]}
PastOf(b) == Past[b] \cup {b}

\* is_dag_ancestor_of, which includes equality.
IsDagAncestorOf(b, c) == b \in PastOf(c)

\* GhostdagData::blue_score.
BlueScore[b \in Block] == Cardinality(Past[b])

\* The order of SortableBlock: blue work first, then the hash.
Heavier(b, c) ==
    \/ BlueScore[b] > BlueScore[c]
    \/ BlueScore[b] = BlueScore[c] /\ Rank[b] > Rank[c]

Heaviest(S) == CHOOSE b \in S : \A c \in S \ {b} : Heavier(b, c)

\* find_selected_parent.
SelectedParent[b \in Block \ {Genesis}] == Heaviest(Parents[b])

\* unordered_mergeset_without_selected_parent: what a block with parents P
\* and selected parent s merges.  A parent is merged whatever its past.
Mergeset(s, P) == (P \ {s}) \cup (UNION {Past[p] : p \in P \ {s}} \ PastOf(s))

\* The selected chain of a block, the block and genesis included.
ChainOf[b \in Block] == IF b = Genesis THEN {b} ELSE {b} \cup ChainOf[SelectedParent[b]]

\* is_chain_ancestor_of, which includes equality.
IsChainAncestorOf(b, c) == b \in ChainOf[c]

\* No block of S is an ancestor of another one.
IsAntichain(S) == \A b, c \in S : b # c => b \notin Past[c]

\* check_parents_incest: no parent of a block is in the past of another one.
ASSUME ParentsAssumption == \A b \in Block : IsAntichain(Parents[b])
=============================================================================
