------------------------------- MODULE TxStore -------------------------------
(***************************************************************************)
(* The blocks, txs and tx_outputs tables of internal/store, with one       *)
(* operator per statement that writes them.  Each operator is one atomic   *)
(* SQLite transaction or statement: the store has a single connection.     *)
(* tx_inputs is not a variable of its own: its rows are written with the   *)
(* row of txs and removed with it by ON DELETE CASCADE.  tx_outputs is one *)
(* because PruneMempool deletes from it separately.                        *)
(***************************************************************************)
EXTENDS ChainNode

VARIABLES
    blocks,     \* blocks[h]: the block row at height h, NoBlock when missing
    txs,        \* the transactions that have a row
    txHeight,   \* their block_height, Null for a mempool row
    outs,       \* the transactions whose outputs are stored
    txOld       \* the rows whose time is before the seven-day cutoff

store == <<blocks, txs, txHeight, outs, txOld>>
txRows == <<txs, txHeight, outs, txOld>>

Null == -1      \* SQL NULL in block_height: still in the mempool

Mined == {t \in txs : txHeight[t] # Null}

StoreTypeOK ==
    /\ blocks \in [Heights -> Block \cup {NoBlock}]
    /\ txs \subseteq Tx
    /\ txHeight \in [Tx -> Heights \cup {Null}]
    /\ \A t \in Tx \ txs : txHeight[t] = Null
    /\ outs \subseteq txs
    /\ txOld \subseteq txs

StoreInit ==
    /\ blocks = [h \in Heights |-> NoBlock]
    /\ txs = {}
    /\ txHeight = [t \in Tx |-> Null]
    /\ outs = {}
    /\ txOld = {}

(* top is what LatestHeight returns, -1 for an empty table.                 *)
IsLatest(top) ==
    /\ top \in -1..MaxHeight
    /\ top >= 0 => blocks[top] # NoBlock
    /\ \A h \in Heights : h > top => blocks[h] = NoBlock

UpsertBlock(b) == blocks' = [blocks EXCEPT ![Height[b]] = b]

(* UpsertTx for each transaction of T, all under block_height h; those of   *)
(* old have a time before the cutoff.  An existing row is overwritten,      *)
(* block_height included, and its outputs are replaced.                     *)
UpsertTxs(T, h, old) ==
    /\ txs' = txs \cup T
    /\ txHeight' = [t \in Tx |-> IF t \in T THEN h ELSE txHeight[t]]
    /\ outs' = outs \cup T
    /\ txOld' = (txOld \ T) \cup old

(* DELETE FROM txs for the rows of D; the outputs go by cascade.            *)
RemoveTxs(D) ==
    /\ txs' = txs \ D
    /\ txHeight' = [t \in Tx |-> IF t \in D THEN Null ELSE txHeight[t]]
    /\ outs' = outs \ D
    /\ txOld' = txOld \ D

(* Slips of DeleteBlocksFrom: the rows of the deleted blocks stay, it starts *)
(* one height too low, or only its second statement does.                   *)
DeleteBlocksOnly(h) ==
    /\ blocks' = [g \in Heights |-> IF g >= h THEN NoBlock ELSE blocks[g]]
    /\ UNCHANGED txRows

DeleteBlocksFromBelow(h) ==
    /\ blocks' = [g \in Heights |-> IF g >= h - 1 THEN NoBlock ELSE blocks[g]]
    /\ RemoveTxs({t \in Mined : txHeight[t] >= h - 1})

DeleteRowsFromBelow(h) ==
    /\ blocks' = [g \in Heights |-> IF g >= h THEN NoBlock ELSE blocks[g]]
    /\ RemoveTxs({t \in Mined : txHeight[t] >= h - 1})

DeleteBlocksFrom(h) ==
    /\ blocks' = [g \in Heights |-> IF g >= h THEN NoBlock ELSE blocks[g]]
    /\ RemoveTxs({t \in txs : txHeight[t] >= h})

(* The three deletions of PruneMempool.  The first one names no height.     *)
DeleteOutputs(t) == outs' = outs \ {t} /\ UNCHANGED <<blocks, txs, txHeight, txOld>>

(* A slip: the second one names no height either.                           *)
DeleteAnyway(t) == RemoveTxs({t}) /\ UNCHANGED blocks

DeleteUnconfirmed(t) == RemoveTxs({t} \ Mined) /\ UNCHANGED blocks

(* A slip: foreign keys are off, and the outputs of an expired row stay.    *)
DeleteExpiredRowsOnly ==
    /\ txs' = txs \ (txOld \ Mined)
    /\ txOld' = txOld \cap Mined
    /\ UNCHANGED <<blocks, txHeight, outs>>

DeleteExpired == RemoveTxs(txOld \ Mined) /\ UNCHANGED blocks
=============================================================================
