------------------------------- MODULE Indexer -------------------------------
(***************************************************************************)
(* The two workers of internal/indexer that write the tables of blocks and *)
(* transactions, the syncer and the mempool poller, with the daemon they   *)
(* both read and the database they share.                                  *)
(***************************************************************************)
EXTENDS Syncer, Mempool

vars == <<tip, nodePool, store, syncer, mempool>>

Init == SyncInit /\ MempoolInit

(* The daemon adopts a block, and its mempool follows.                      *)
DaemonMove == \E b \in Block : MoveTo(b) /\ PoolFollows(b) /\ UNCHANGED <<store, syncer, mempool>>

DaemonPool ==
    \/ \E t \in Relayable : PoolArrive(t) \/ PoolEvict(t)
    \/ WeekPasses

(* The explorer is killed and started again: an open database transaction   *)
(* is rolled back and both workers begin anew on what the database holds.   *)
Restart ==
    /\ EndTick
    /\ EndPoll
    /\ UNCHANGED <<tip, nodePool, store>>

Next ==
    \/ SyncerStep /\ UNCHANGED <<nodePool, mempool>>
    \/ MempoolStep /\ UNCHANGED syncer
    \/ DaemonPool /\ UNCHANGED syncer
    \/ DaemonMove
    \/ Restart

Spec == Init /\ [][Next]_vars

(* The daemon does not fail for ever on one and the same transaction.       *)
PollerFairness ==
    \A t \in Relayable : SF_vars(MempoolGet(t) /\ UNCHANGED syncer)
                        /\ SF_vars(MempoolPut(t) /\ UNCHANGED syncer)

FairSpec == Spec /\ PollerFairness

-----------------------------------------------------------------------------
(* Properties *)

TypeOK == SyncTypeOK /\ MempoolTypeOK

(* The mempool poller never deletes the row of a mined transaction: rows of *)
(* mined transactions go only with their block, although PruneMempool       *)
(* deletes by txid what it selected some steps ago.                         *)
PruneSparesMined == [][UNCHANGED blocks => Mined \subseteq txs']_vars

(* With the poller at work the index is still used as a stack of blocks,    *)
(* but a mined transaction may cease to be listed while its block stays.    *)
UsedAsALossyStack == Index!LossySpec

(* "Skip tx we already have (either mempool or confirmed)" (mempool.go:42): *)
(* the poller never overwrites the row of a transaction that is mined in    *)
(* the index and on the daemon's chain.                                     *)
PollerSkipsMined ==
    [][MempoolStep => \A t \in Mined \cap txs' \cap ChainTxs(tip) :
          txHeight'[t] = txHeight[t]]_vars

(* "PruneMempool removes mempool entries (block_height IS NULL)"            *)
(* (txs.go:58): pruning leaves the outputs of a mined transaction alone.    *)
PruneSparesMinedOutputs ==
    [][\A t \in Relayable : PruneOutputs(t) /\ t \in Mined => t \in outs']_vars

(* Again and again a poll gets as far as the last statement of its pruning. *)
PollsComplete == []<><<PruneExpired>>_vars

(* A transaction that has left the daemon's mempool for good does not stay  *)
(* listed as pending, whatever the poller was doing when it left.           *)
DropsDeparted ==
    PollsComplete => \A t \in Relayable :
        <>[](t \notin pool) => <>[](t \in txs => t \in Mined)

(* A transaction that stays in the daemon's mempool is listed in the end,   *)
(* in spite of reorganisations that delete its row with a block.  Until it  *)
(* is a week old it remains listed; from then on each poll adds it and      *)
(* deletes it, and it is listed again and again (txs.go:86).                *)
ShowsPending ==
    PollsComplete => \A t \in Relayable :
        /\ <>[](t \in pool \ poolOld) => <>[](t \in txs)
        /\ <>[](t \in pool) => []<>(t \in txs)
=============================================================================
