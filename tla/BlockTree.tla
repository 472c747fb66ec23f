------------------------------ MODULE BlockTree ------------------------------
(***************************************************************************)
(* The Monero chain as the engine sees it through a node's RPC: a tree of  *)
(* blocks, of which the node follows one branch at a time.  Nothing here   *)
(* is code of the repository: it is the node, modelled from how the        *)
(* engine's scanner uses it (get_block_hash, get_block_outline,            *)
(* locate_transaction, is_key_image_spent).                                *)
(***************************************************************************)
EXTENDS Integers

CONSTANTS
    Block,      \* the blocks of every branch; a block stands for its hash
    Tx,         \* the transactions that pay the instance's orders
    MaxHeight,  \* bound: heights are 0..MaxHeight
    Depth,      \* Depth[b] is the height of block b
    Chain,      \* Chain[b][h] is the block at height h of the chain ending in b
    Holds,      \* Holds[b] are the transactions of Tx that block b contains
    Spends,     \* Spends[b] are those whose inputs another transaction of b spends
    None        \* no block, no height, no answer

Height == 0..MaxHeight

ASSUME HeightAssumption == MaxHeight \in Nat /\ None \notin Block /\ None \notin Height

\* A block is the last of its chain, and the chain of an ancestor is a prefix.
ASSUME ChainAssumption ==
    /\ Depth \in [Block -> Height]
    /\ Chain \in [Block -> [Height -> Block \cup {None}]]
    /\ \A b \in Block : \A h \in Height :
          /\ Chain[b][h] = None <=> h > Depth[b]
          /\ h <= Depth[b] => Depth[Chain[b][h]] = h
    /\ \A b \in Block : Chain[b][Depth[b]] = b
    /\ \A b \in Block : \A h \in Height : \A k \in Height :
          k <= h /\ h <= Depth[b] => Chain[Chain[b][h]][k] = Chain[b][k]

\* A transaction is in at most one block of a chain, and not beside a block
\* of the same chain that spends its inputs.
ASSUME ContentAssumption ==
    /\ Holds \in [Block -> SUBSET Tx]
    /\ Spends \in [Block -> SUBSET Tx]
    /\ \A b \in Block : \A h \in Height : \A k \in Height : \A x \in Tx :
          (Chain[b][h] # None /\ Chain[b][k] # None /\ x \in Holds[Chain[b][h]])
             => /\ x \in Holds[Chain[b][k]] => h = k
                /\ x \notin Spends[Chain[b][k]]

-----------------------------------------------------------------------------

\* The previous-block id in the header of b.
Parent(b) == IF Depth[b] = 0 THEN None ELSE Chain[b][Depth[b] - 1]

\* Whether the chain ending in b has x in a block, and whether it has x's
\* inputs spent (by x itself or by another transaction).
MinedIn(b, x) == \E h \in Height : Chain[b][h] # None /\ x \in Holds[Chain[b][h]]
RivalIn(b, x) == \E h \in Height : Chain[b][h] # None /\ x \in Spends[Chain[b][h]]
SpentIn(b, x) == MinedIn(b, x) \/ RivalIn(b, x)

\* The height at which the chain ending in b has x.
MinedAt(b, x) == CHOOSE h \in Height : Chain[b][h] # None /\ x \in Holds[Chain[b][h]]

=============================================================================
