---------------------------- MODULE IndexerProofs ----------------------------
(***************************************************************************)
(* What holds of the syncer and the mempool poller together, at any        *)
(* interleaving of their steps, with reorganisations and restarts.         *)
(***************************************************************************)
EXTENDS Indexer, SyncerProofs

Inv == SyncInv /\ MempoolTypeOK

(* What a step of the poller may do to the tables: no block changes, every  *)
(* mined row that keeps a height keeps its own, and no mined row goes.      *)
PollerTouchesOnlyPending ==
    /\ UNCHANGED blocks
    /\ \A t \in Mined' : t \in Mined /\ txHeight'[t] = txHeight[t]
    /\ Mined \subseteq txs'

(* An upsert under NULL, a deletion of rows that are not mined, and the     *)
(* deletion of outputs are all the poller does to the tables.               *)
LEMMA UpsertPending ==
    ASSUME StoreTypeOK, NEW t \in Tx, NEW old, UpsertTxs({t}, Null, {t} \cap old), UNCHANGED blocks
    PROVE  StoreTypeOK' /\ PollerTouchesOnlyPending
BY ChainAssumption DEF StoreTypeOK, UpsertTxs, PollerTouchesOnlyPending, Mined, Null, Heights

(* Deleting rows none of which is mined.                                    *)
LEMMA RemovePending ==
    ASSUME StoreTypeOK, NEW D, D \cap Mined = {}, RemoveTxs(D), UNCHANGED blocks
    PROVE  StoreTypeOK' /\ PollerTouchesOnlyPending
BY ChainAssumption DEF StoreTypeOK, RemoveTxs, PollerTouchesOnlyPending, Mined, Null, Heights

(* No step of the poller does more than that to the tables.                 *)
LEMMA PollerOnStore ==
    ASSUME StoreTypeOK, MempoolTypeOK, MempoolStep
    PROVE  StoreTypeOK' /\ PollerTouchesOnlyPending /\ tip' = tip
<1>0. ASSUME UNCHANGED store PROVE StoreTypeOK' /\ PollerTouchesOnlyPending
  BY <1>0 DEF store, StoreTypeOK, PollerTouchesOnlyPending, Mined
<1>1. CASE MempoolPoll \/ MempoolNoPut \/ PruneSelect \/ MempoolFail
  BY <1>0, <1>1 DEF MempoolPoll, MempoolNoPut, PruneSelect, MempoolFail
<1>2. CASE PruneTx
  BY <1>2, RemovePending DEF PruneTx, DeleteUnconfirmed
<1>3. CASE PruneExpired
  BY <1>3, RemovePending DEF PruneExpired, DeleteExpired
<1>4. CASE \E t \in Relayable : MempoolSkip(t) \/ MempoolLookup(t) \/ MempoolGet(t)
  BY <1>0, <1>4 DEF MempoolSkip, MempoolLookup, MempoolGet
<1>5. CASE \E t \in Relayable : MempoolPut(t)
  BY <1>5, UpsertPending, MempoolAssumption DEF MempoolPut
<1>6. CASE \E t \in Tx : PruneOutputs(t)
  BY <1>6 DEF PruneOutputs, DeleteOutputs, StoreTypeOK, PollerTouchesOnlyPending, Mined
<1> QED
  BY <1>1, <1>2, <1>3, <1>4, <1>5, <1>6 DEF MempoolStep

(* The poller's own variables keep their types.                             *)
LEMMA PollerTypes ==
    ASSUME StoreTypeOK, MempoolTypeOK, MempoolStep
    PROVE  MempoolTypeOK'
<1> USE MempoolAssumption DEF MempoolTypeOK, nodePool
<1>1. CASE MempoolPoll
  BY <1>1 DEF MempoolPoll
<1>2. CASE MempoolNoPut
  BY <1>2 DEF MempoolNoPut
<1>3. CASE PruneSelect
  BY <1>3 DEF PruneSelect, StoreTypeOK
<1>4. CASE PruneTx
  BY <1>4 DEF PruneTx
<1>5. CASE PruneExpired
  BY <1>5 DEF PruneExpired, EndPoll
<1>6. CASE MempoolFail
  BY <1>6 DEF MempoolFail, EndPoll
<1>7. CASE \E t \in Relayable : MempoolSkip(t)
  BY <1>7 DEF MempoolSkip
<1>8. CASE \E t \in Relayable : MempoolLookup(t)
  BY <1>8 DEF MempoolLookup
<1>9. CASE \E t \in Relayable : MempoolGet(t)
  BY <1>9 DEF MempoolGet
<1>10. CASE \E t \in Relayable : MempoolPut(t)
  BY <1>10 DEF MempoolPut
<1>11. CASE \E t \in Tx : PruneOutputs(t)
  BY <1>11 DEF PruneOutputs
<1> QED
  BY <1>1, <1>2, <1>3, <1>4, <1>5, <1>6, <1>7, <1>8, <1>9, <1>10, <1>11 DEF MempoolStep

(* The poller's effect on the tables is harmless to the syncer's invariant. *)
LEMMA PollerKeepsSyncInv ==
    ASSUME SyncInv, StoreTypeOK', PollerTouchesOnlyPending, tip' = tip, UNCHANGED syncer
    PROVE  SyncInv'
<1>1. SyncTypeOK'
  BY DEF SyncInv, SyncTypeOK, SyncerTypeOK, syncer
<1>2. RowsBelongToStoredBlock'
  BY DEF SyncInv, RowsBelongToStoredBlock, PollerTouchesOnlyPending
<1>3. StoredAtHeight' /\ FreshAbove'
  BY DEF SyncInv, StoredAtHeight, FreshAbove, PollerTouchesOnlyPending, syncer
<1> QED
  BY <1>1, <1>2, <1>3 DEF SyncInv

(* The invariant holds in the initial states.                               *)
LEMMA InvInit == Init => Inv
BY SyncInvInit, MempoolAssumption DEF Init, Inv, MempoolInit, MempoolTypeOK

(* Every step of either worker, the daemon, or a restart preserves it.      *)
LEMMA InvNext == Inv /\ [Next]_vars => Inv'
<1> SUFFICES ASSUME Inv, [Next]_vars PROVE Inv'
  OBVIOUS
<1>a. SyncInv /\ MempoolTypeOK /\ tip \in Block /\ StoreTypeOK
  BY DEF Inv, SyncInv, SyncTypeOK
<1>b. ASSUME UNCHANGED <<nodePool, mempool>> PROVE MempoolTypeOK'
  BY <1>a, <1>b DEF MempoolTypeOK, nodePool, mempool
<1>1. CASE SyncerStep /\ UNCHANGED <<nodePool, mempool>>
  BY <1>1, <1>a, <1>b, SyncInvStep DEF Inv
<1>2. CASE MempoolStep /\ UNCHANGED syncer
  <2>1. StoreTypeOK' /\ PollerTouchesOnlyPending /\ tip' = tip
    BY <1>2, <1>a, PollerOnStore
  <2>2. SyncInv'
    BY <1>2, <1>a, <2>1, PollerKeepsSyncInv
  <2> QED
    BY <1>2, <1>a, <2>2, PollerTypes DEF Inv
<1>3. CASE DaemonPool /\ UNCHANGED syncer
  <2>1. CASE \E t \in Relayable : PoolArrive(t) \/ PoolEvict(t)
    <3>1. SyncInv'
      BY <1>3, <2>1, <1>a, SyncInvNode DEF PoolArrive, PoolEvict
    <3>2. MempoolTypeOK'
      BY <2>1, <1>a DEF PoolArrive, PoolEvict, MempoolTypeOK, mempool
    <3> QED
      BY <3>1, <3>2 DEF Inv
  <2>2. CASE WeekPasses
    <3>1. StoreTypeOK' /\ PollerTouchesOnlyPending
      BY <2>2, <1>a DEF WeekPasses, StoreTypeOK, PollerTouchesOnlyPending, Mined
    <3>2. SyncInv'
      BY <1>3, <2>2, <3>1, <1>a, PollerKeepsSyncInv DEF WeekPasses
    <3>3. MempoolTypeOK'
      BY <2>2, <1>a DEF WeekPasses, MempoolTypeOK, mempool
    <3> QED
      BY <3>2, <3>3 DEF Inv
  <2> QED
    BY <1>3, <2>1, <2>2 DEF DaemonPool
<1>4. CASE DaemonMove
  <2>1. SyncInv'
    BY <1>4, <1>a, SyncInvNode DEF DaemonMove, MoveTo
  <2>2. MempoolTypeOK'
    BY <1>4, <1>a DEF DaemonMove, PoolFollows, MempoolTypeOK, mempool
  <2> QED
    BY <2>1, <2>2 DEF Inv
<1>5. CASE Restart
  <2>1. SyncerTypeOK' /\ FreshAbove'
    BY <1>5, <1>a, ChainAssumption DEF Restart, EndTick, SyncerTypeOK, FreshAbove, Heights
  <2>2. SyncInv'
    BY <1>5, <1>a, <2>1 DEF Restart, SyncInv, SyncTypeOK, StoreTypeOK, store,
                         RowsBelongToStoredBlock, StoredAtHeight, Mined
  <2>3. MempoolTypeOK'
    BY <1>5, <1>a DEF Restart, EndPoll, MempoolTypeOK, nodePool
  <2> QED
    BY <2>2, <2>3 DEF Inv
<1>6. CASE UNCHANGED vars
  BY <1>6, <1>a, <1>b, SyncInvNode DEF vars, Inv
<1> QED
  BY <1>1, <1>2, <1>3, <1>4, <1>5, <1>6 DEF Next

(* The syncer's invariant and the poller's types hold in every behaviour.   *)
THEOREM Invariant == Spec => []Inv
BY InvInit, InvNext, PTL DEF Spec

(* Type correctness of both workers, the daemon and the store.              *)
THEOREM TypeCorrect == Spec => []TypeOK
<1>1. Inv => TypeOK
  BY DEF Inv, SyncInv, TypeOK
<1> QED
  BY <1>1, Invariant, PTL

(* Rows of mined transactions lie under the block they were mined in, also  *)
(* with a poller that overwrites and deletes rows at the same time.         *)
THEOREM IndexedRowsBelong == Spec => []RowsBelongToStoredBlock
<1>1. Inv => RowsBelongToStoredBlock
  BY DEF Inv, SyncInv
<1> QED
  BY <1>1, Invariant, PTL

(* The row of a mined transaction is never deleted by the poller.           *)
THEOREM PruningSparesMined == Spec => PruneSparesMined
<1> DEFINE Spares == UNCHANGED blocks => Mined \subseteq txs'
<1>1. Inv /\ [Next]_vars => [Spares]_vars
  <2> SUFFICES ASSUME Inv, Next, UNCHANGED blocks PROVE Mined \subseteq txs'
    OBVIOUS
  <2>0. MaxHeight \in Nat
    BY ChainAssumption
  <2>a. /\ StoreTypeOK /\ SyncerTypeOK /\ RowsBelongToStoredBlock /\ MempoolTypeOK
        /\ FreshAbove
    BY DEF Inv, SyncInv, SyncTypeOK
  <2>1. CASE MempoolStep
    BY <2>1, <2>a, PollerOnStore DEF PollerTouchesOnlyPending
  <2>2. CASE SyncDelete
    <3> SUFFICES ASSUME NEW t \in Mined PROVE ~(txHeight[t] >= walk)
      BY <2>2 DEF SyncDelete, DeleteBlocksFrom, RemoveTxs, Mined
    <3>1. txHeight[t] \in Heights /\ blocks[txHeight[t]] # NoBlock
      BY <2>a DEF StoreTypeOK, RowsBelongToStoredBlock, Mined
    <3>2. blocks' = [g \in Heights |-> IF g >= walk THEN NoBlock ELSE blocks[g]]
      BY <2>2 DEF SyncDelete, DeleteBlocksFrom
    <3> QED
      BY <3>1, <3>2
  <2>3. CASE SyncPersist
    BY <2>3 DEF SyncPersist, UpsertTxs, Mined
  <2>4. CASE UNCHANGED txs
    BY <2>4 DEF Mined
  <2> QED
    BY <2>1, <2>2, <2>3, <2>4 DEF Next, SyncerStep, SyncBegin, SyncWalk, SyncWalkedPast,
         SyncFetch, SyncFail, DaemonPool, PoolArrive, PoolEvict, WeekPasses, DaemonMove,
         Restart, store
<1>2. Spec => [][Spares]_vars
  BY <1>1, Invariant, PTL DEF Spec
<1> QED
  BY <1>2 DEF PruneSparesMined

(* An upsert of a mined transaction under NULL is the one thing the poller  *)
(* can do to the index of mined transactions: it forgets one.               *)
LEMMA PollerForgets ==
    ASSUME StoreTypeOK, StoreTypeOK', MempoolStep
    PROVE  (\E t \in Tx : Index!Forget(t)) \/ UNCHANGED <<blocks, txHeight>>
<1> USE DEF StoreTypeOK
<1>1. CASE \E t \in Relayable : MempoolPut(t)
  <2> PICK t \in Relayable : MempoolPut(t)
    BY <1>1
  <2>1. /\ t \in Tx /\ blocks' = blocks
        /\ txHeight' = [s \in Tx |-> IF s \in {t} THEN -1 ELSE txHeight[s]]
    BY MempoolAssumption DEF MempoolPut, UpsertTxs, Null
  <2>2. CASE txHeight[t] = -1
    <3>1. txHeight' = txHeight
      BY <2>1, <2>2
    <3> QED
      BY <2>1, <3>1
  <2>3. CASE txHeight[t] # -1
    <3>1. txHeight' = [txHeight EXCEPT ![t] = -1]
      BY <2>1
    <3>2. Index!Forget(t)
      BY <2>1, <2>3, <3>1 DEF Index!Forget
    <3> QED
      BY <2>1, <3>2
  <2> QED
    BY <2>2, <2>3
<1>2. ASSUME NEW D, RemoveTxs(D), D \cap Mined = {}
      PROVE  txHeight' = txHeight
  BY <1>2 DEF RemoveTxs, Mined
<1>3. CASE PruneTx
  BY <1>2, <1>3 DEF PruneTx, DeleteUnconfirmed
<1>4. CASE PruneExpired
  BY <1>2, <1>4 DEF PruneExpired, DeleteExpired
<1>5. CASE UNCHANGED <<blocks, txHeight>>
  BY <1>5
<1> QED
  BY <1>1, <1>3, <1>4, <1>5 DEF MempoolStep, MempoolPoll, MempoolNoPut, PruneSelect,
       MempoolFail, MempoolSkip, MempoolLookup, MempoolGet, PruneOutputs, DeleteOutputs, store

(* The two workers together implement the stack of blocks in which a mined  *)
(* transaction may be forgotten, and nothing weaker.                        *)
THEOREM IndexerImplementsLossyIndex == Spec => UsedAsALossyStack
<1>1. Init => Index!Init
  BY DEF Init, SyncInit, StoreInit, Index!Init, Heights, Null
<1>2. Inv /\ Inv' /\ [Next]_vars => [Index!LossyNext]_<<blocks, txHeight>>
  <2> SUFFICES ASSUME Inv, Inv', [Next]_vars PROVE [Index!LossyNext]_<<blocks, txHeight>>
    OBVIOUS
  <2>a. SyncInv /\ StoreTypeOK /\ StoreTypeOK'
    BY DEF Inv, SyncInv, SyncTypeOK
  <2>1. CASE SyncerStep
    BY <2>1, <2>a, SyncerRefines DEF Index!LossyNext
  <2>2. CASE MempoolStep
    BY <2>2, <2>a, PollerForgets DEF Index!LossyNext
  <2>3. CASE UNCHANGED <<blocks, txHeight>>
    BY <2>3
  <2> QED
    BY <2>1, <2>2, <2>3 DEF Next, DaemonPool, PoolArrive, PoolEvict, WeekPasses, DaemonMove,
         Restart, store, vars
<1> QED
  BY <1>1, <1>2, Invariant, PTL
     DEF Spec, UsedAsALossyStack, Index!LossySpec, Index!index
=============================================================================
