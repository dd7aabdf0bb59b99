------------------------------- MODULE Mempool -------------------------------
(***************************************************************************)
(* The mempool poller of internal/indexer/mempool.go and the pruning it    *)
(* ends with (PruneMempool of internal/store/txs.go).  One poll takes a    *)
(* snapshot of the daemon's mempool, adds a row without a height for each  *)
(* transaction that has none, and prunes.  No step of it is atomic with    *)
(* another: the syncer may run between the existence check and the upsert, *)
(* and between the two deletions of one transaction.                       *)
(***************************************************************************)
EXTENDS TxStore

CONSTANTS
    Relayable,  \* the transactions that can be in a mempool
    NoTx,
    ReadsFail   \* whether the existence check may fail, and so find no row

ASSUME MempoolAssumption ==
    Relayable \subseteq Tx /\ NoTx \notin Tx /\ ReadsFail \in BOOLEAN

VARIABLES
    pool,       \* the daemon's mempool
    poolOld,    \* its entries that are older than seven days
    mpc,        \* where the poll is
    keep,       \* the snapshot of pool this poll works from
    keepOld,    \* and of poolOld
    todo,       \* the entries of the snapshot not looked at yet
    cur,        \* the transaction being added, or being pruned
    toDel       \* what PruneMempool has selected and not deleted yet

nodePool == <<pool, poolOld>>
mempool == <<mpc, keep, keepOld, todo, cur, toDel>>

MempoolTypeOK ==
    /\ pool \subseteq Relayable
    /\ poolOld \subseteq pool
    /\ mpc \in {"idle", "each", "get", "put", "prune", "pruneTx"}
    /\ keep \subseteq Relayable
    /\ keepOld \subseteq keep
    /\ todo \subseteq keep
    /\ cur \in Tx \cup {NoTx}
    /\ cur # NoTx <=> mpc \in {"get", "put", "pruneTx"}
    /\ toDel \subseteq Tx \ keep
    /\ mpc \notin {"prune", "pruneTx"} => toDel = {}

EndPoll ==
    /\ mpc' = "idle" /\ cur' = NoTx
    /\ keep' = {} /\ keepOld' = {} /\ todo' = {} /\ toDel' = {}

MempoolInit ==
    /\ pool = {} /\ poolOld = {}
    /\ mpc = "idle" /\ cur = NoTx
    /\ keep = {} /\ keepOld = {} /\ todo = {} /\ toDel = {}

(* The transactions of the chain that ends in b.                            *)
ChainTxs(b) == UNION {TxsOf[Ancestor[b][h]] : h \in 0..Height[b]}

-----------------------------------------------------------------------------
(* The daemon's mempool.  None of these steps touches the explorer.         *)

(* The daemon adopts block b: the transactions of its chain leave the       *)
(* mempool, and those of the blocks it disconnects return to it.            *)
PoolFollows(b) ==
    /\ pool' = (pool \cup (ChainTxs(tip) \cap Relayable)) \ ChainTxs(b)
    /\ poolOld' = poolOld \cap pool'

PoolArrive(t) ==
    /\ t \in Relayable \ (pool \cup ChainTxs(tip))
    /\ pool' = pool \cup {t}
    /\ UNCHANGED <<tip, poolOld, store, mempool>>

PoolEvict(t) ==
    /\ t \in pool
    /\ pool' = pool \ {t}
    /\ poolOld' = poolOld \ {t}
    /\ UNCHANGED <<tip, store, mempool>>

(* Seven days go by between two polls.                                      *)
WeekPasses ==
    /\ mpc = "idle"
    /\ poolOld' = pool
    /\ txOld' = txs \ Mined
    /\ UNCHANGED <<tip, pool, blocks, txs, txHeight, outs, mempool>>

-----------------------------------------------------------------------------
(* The poll.  keep is all of the snapshot: a poll that leaves its loop      *)
(* early does not prune.                                                    *)
MempoolPoll ==
    /\ mpc = "idle"
    /\ mpc' = "each"
    /\ keep' = pool /\ keepOld' = poolOld /\ todo' = pool
    /\ UNCHANGED <<tip, nodePool, store, cur, toDel>>

(* SELECT 1 FROM txs WHERE txid = ?                                         *)
MempoolSkip(t) ==
    /\ mpc = "each"
    /\ t \in todo \cap txs
    /\ todo' = todo \ {t}
    /\ UNCHANGED <<tip, nodePool, store, mpc, keep, keepOld, cur, toDel>>

MempoolLookup(t) ==
    /\ mpc = "each"
    /\ t \in todo
    /\ t \notin txs \/ ReadsFail
    /\ todo' = todo \ {t}
    /\ cur' = t
    /\ mpc' = "get"
    /\ UNCHANGED <<tip, nodePool, store, keep, keepOld, toDel>>

(* getrawtransaction: the daemon runs with -txindex, so it also answers for *)
(* a transaction that has been mined since the snapshot.                    *)
MempoolGet(t) ==
    /\ mpc = "get"
    /\ cur = t
    /\ t \in pool \cup ChainTxs(tip)
    /\ mpc' = "put"
    /\ UNCHANGED <<tip, nodePool, store, keep, keepOld, todo, cur, toDel>>

(* UpsertTx with block_height NULL and the time of the mempool entry.       *)
MempoolPut(t) ==
    /\ mpc = "put"
    /\ cur = t
    /\ UpsertTxs({t}, Null, {t} \cap keepOld)
    /\ mpc' = "each"
    /\ cur' = NoTx
    /\ UNCHANGED <<tip, nodePool, blocks, keep, keepOld, todo, toDel>>

(* The fetch, the upsert or its commit fails: on to the next entry.         *)
MempoolNoPut ==
    /\ mpc \in {"get", "put"}
    /\ mpc' = "each"
    /\ cur' = NoTx
    /\ UNCHANGED <<tip, nodePool, store, keep, keepOld, todo, toDel>>

(* Slips of PruneSelect: an empty keep list prunes nothing, or the list is  *)
(* ignored.                                                                 *)
PruneSelectUnlessEmpty ==
    /\ mpc = "each"
    /\ todo = {}
    /\ toDel' = IF keep = {} THEN {} ELSE (txs \ Mined) \ keep
    /\ mpc' = "prune"
    /\ UNCHANGED <<tip, nodePool, store, keep, keepOld, todo, cur>>

PruneSelectAll ==
    /\ mpc = "each"
    /\ todo = {}
    /\ toDel' = txs \ Mined
    /\ mpc' = "prune"
    /\ UNCHANGED <<tip, nodePool, store, keep, keepOld, todo, cur>>

(* PruneMempool: SELECT txid FROM txs WHERE block_height IS NULL            *)
PruneSelect ==
    /\ mpc = "each"
    /\ todo = {}
    /\ toDel' = (txs \ Mined) \ keep
    /\ mpc' = "prune"
    /\ UNCHANGED <<tip, nodePool, store, keep, keepOld, todo, cur>>

PruneOutputs(t) ==
    /\ mpc = "prune"
    /\ t \in toDel
    /\ DeleteOutputs(t)
    /\ toDel' = toDel \ {t}
    /\ cur' = t
    /\ mpc' = "pruneTx"
    /\ UNCHANGED <<tip, nodePool, keep, keepOld, todo>>

PruneTx ==
    /\ mpc = "pruneTx"
    /\ DeleteUnconfirmed(cur)
    /\ cur' = NoTx
    /\ mpc' = "prune"
    /\ UNCHANGED <<tip, nodePool, keep, keepOld, todo, toDel>>

PruneExpired ==
    /\ mpc = "prune"
    /\ toDel = {}
    /\ DeleteExpired
    /\ EndPoll
    /\ UNCHANGED <<tip, nodePool>>

(* BeginTx or a statement of PruneMempool fails: the poll is over.          *)
MempoolFail ==
    /\ mpc \in {"put", "each", "prune", "pruneTx"}
    /\ EndPoll
    /\ UNCHANGED <<tip, nodePool, store>>

MempoolStep ==
    \/ MempoolPoll \/ MempoolNoPut \/ PruneSelect \/ PruneTx \/ PruneExpired
    \/ MempoolFail
    \/ \E t \in Relayable :
          MempoolSkip(t) \/ MempoolLookup(t) \/ MempoolGet(t) \/ MempoolPut(t)
    \/ \E t \in Tx : PruneOutputs(t)
=============================================================================
