----------------------------- MODULE SyncerProofs -----------------------------
(***************************************************************************)
(* What holds of the syncer for every tree of blocks, every backfill and   *)
(* every bound on a tick.  The invariants of Syncer are not inductive: a   *)
(* row keeps its block only because no block is ever overwritten, and that *)
(* holds because a tick knows that nothing is stored from next on.         *)
(***************************************************************************)
EXTENDS Seams, TLAPS

(* A block is stored at its own height.                                     *)
StoredAtHeight == \A h \in Heights : blocks[h] # NoBlock => Height[blocks[h]] = h

(* While a tick runs nothing is stored above the height it is working on:   *)
(* above walk during the reorg walk, from next on during the ingest.        *)
FreshAbove ==
    /\ spc \in {"walk", "delete"} =>
          walk < next /\ \A h \in Heights : h > walk => blocks[h] = NoBlock
    /\ spc \in {"fetch", "persist"} => \A h \in Heights : h >= next => blocks[h] = NoBlock

SyncInv == SyncTypeOK /\ RowsBelongToStoredBlock /\ StoredAtHeight /\ FreshAbove

-----------------------------------------------------------------------------
(* Lemmas about the chain and the store *)

(* What the daemon answers for a height is a block of that height, and the  *)
(* height is not above its tip.                                             *)
LEMMA NodeBlockFacts ==
    ASSUME tip \in Block, NEW h \in Heights, NodeHas(h)
    PROVE  /\ NodeBlockAt(h) \in Block
           /\ Height[NodeBlockAt(h)] = h
           /\ h <= Height[tip]
BY ChainAssumption DEF NodeHas, NodeBlockAt, Heights

(* LatestHeight is determined by the table.                                 *)
LEMMA LatestUnique ==
    ASSUME NEW t1 \in -1..MaxHeight, NEW t2 \in -1..MaxHeight, IsLatest(t1), IsLatest(t2)
    PROVE  t1 = t2
BY ChainAssumption DEF IsLatest, Heights

(* DeleteBlocksFrom leaves no block and no row at or above h, and keeps     *)
(* everything below.                                                        *)
LEMMA DeleteKeeps ==
    ASSUME StoreTypeOK, RowsBelongToStoredBlock, StoredAtHeight,
           NEW h \in Heights, DeleteBlocksFrom(h)
    PROVE  /\ StoreTypeOK'
           /\ RowsBelongToStoredBlock'
           /\ StoredAtHeight'
           /\ \A g \in Heights : g >= h => blocks'[g] = NoBlock
           /\ \A g \in Heights : g < h => blocks'[g] = blocks[g]
<1> USE DEF DeleteBlocksFrom, RemoveTxs, StoreTypeOK, Heights, Null
<1>0. MaxHeight \in Nat
  BY ChainAssumption
<1>1. StoreTypeOK'
  BY <1>0
<1>2. \A g \in Heights : blocks'[g] = IF g >= h THEN NoBlock ELSE blocks[g]
  BY <1>0
<1>3. StoredAtHeight'
  BY <1>2 DEF StoredAtHeight
<1>4. RowsBelongToStoredBlock'
  <2> SUFFICES ASSUME NEW t \in Mined'
               PROVE  /\ blocks'[txHeight'[t]] # NoBlock
                      /\ t \in TxsOf[blocks'[txHeight'[t]]]
    BY DEF RowsBelongToStoredBlock
  <2>1. t \in txs /\ txHeight[t] # Null /\ txHeight'[t] = txHeight[t] /\ ~(txHeight[t] >= h)
    BY DEF Mined
  <2>2. t \in Mined /\ txHeight[t] \in Heights
    BY <2>1 DEF Mined
  <2> QED
    BY <2>1, <2>2, <1>2 DEF RowsBelongToStoredBlock
<1> QED
  BY <1>1, <1>2, <1>3, <1>4

(* persistBlock of a block at whose height, and above which, nothing is     *)
(* stored.                                                                  *)
LEMMA PersistKeeps ==
    ASSUME StoreTypeOK, RowsBelongToStoredBlock, StoredAtHeight,
           NEW b \in Block,
           \A g \in Heights : g >= Height[b] => blocks[g] = NoBlock,
           UpsertBlock(b), UpsertTxs(TxsOf[b], Height[b], {})
    PROVE  /\ StoreTypeOK'
           /\ RowsBelongToStoredBlock'
           /\ StoredAtHeight'
           /\ blocks'[Height[b]] = b
           /\ \A g \in Heights : g # Height[b] => blocks'[g] = blocks[g]
<1> USE DEF UpsertBlock, UpsertTxs, StoreTypeOK, Heights, Null
<1>0. MaxHeight \in Nat /\ Height[b] \in Heights /\ TxsOf[b] \subseteq Tx
  BY ChainAssumption
<1>1. StoreTypeOK'
  BY <1>0
<1>2. blocks'[Height[b]] = b /\ \A g \in Heights : g # Height[b] => blocks'[g] = blocks[g]
  BY <1>0
<1>3. StoredAtHeight'
  BY <1>0, <1>2 DEF StoredAtHeight
<1>4. RowsBelongToStoredBlock'
  <2> SUFFICES ASSUME NEW t \in Mined'
               PROVE  /\ blocks'[txHeight'[t]] # NoBlock
                      /\ t \in TxsOf[blocks'[txHeight'[t]]]
    BY DEF RowsBelongToStoredBlock
  <2>1. CASE t \in TxsOf[b]
    <3>1. txHeight'[t] = Height[b]
      BY <2>1, <1>0
    <3> QED
      BY <3>1, <2>1, <1>0, <1>2, ChainAssumption
  <2>2. CASE t \notin TxsOf[b]
    <3>1. t \in txs /\ txHeight[t] # Null /\ txHeight'[t] = txHeight[t] /\ txHeight[t] \in Heights
      BY <2>2, <1>0 DEF Mined
    <3>2. blocks[txHeight[t]] # NoBlock /\ t \in TxsOf[blocks[txHeight[t]]]
      BY <3>1 DEF Mined, RowsBelongToStoredBlock
    <3>3. txHeight[t] # Height[b]
      BY <3>1, <3>2, <1>0
    <3> QED
      BY <3>1, <3>2, <3>3, <1>2
  <2> QED
    BY <2>1, <2>2
<1> QED
  BY <1>1, <1>2, <1>3, <1>4

-----------------------------------------------------------------------------
(* The inductive invariant *)

(* It holds before the first tick.                                          *)
LEMMA SyncInvInit == SyncInit => SyncInv
<1> SUFFICES ASSUME SyncInit PROVE SyncInv
  OBVIOUS
<1> USE DEF SyncInit, NodeInit, StoreInit, Idle
<1>1. SyncTypeOK
  BY ChainAssumption DEF SyncTypeOK, StoreTypeOK, SyncerTypeOK, Heights, Null
<1>2. RowsBelongToStoredBlock
  BY DEF RowsBelongToStoredBlock, Mined
<1>3. StoredAtHeight /\ FreshAbove
  BY DEF StoredAtHeight, FreshAbove
<1> QED
  BY <1>1, <1>2, <1>3 DEF SyncInv

(* Every step of the syncer preserves it, one case per step of the tick.    *)
LEMMA SyncInvStep == SyncInv /\ SyncerStep => SyncInv'
<1> SUFFICES ASSUME SyncInv, SyncerStep PROVE SyncInv'
  OBVIOUS
<1>0. MaxHeight \in Nat
  BY ChainAssumption
<1>a. /\ tip \in Block /\ StoreTypeOK /\ SyncerTypeOK
      /\ RowsBelongToStoredBlock /\ StoredAtHeight /\ FreshAbove
  BY DEF SyncInv, SyncTypeOK
<1>b. ASSUME UNCHANGED store
      PROVE  StoreTypeOK' /\ RowsBelongToStoredBlock' /\ StoredAtHeight'
  BY <1>a, <1>b DEF store, StoreTypeOK, RowsBelongToStoredBlock, StoredAtHeight, Mined
<1>c. ASSUME UNCHANGED <<tip, store>>, SyncerTypeOK', FreshAbove'
      PROVE  SyncInv'
  BY <1>a, <1>b, <1>c DEF SyncInv, SyncTypeOK
<1>d. ASSUME UNCHANGED <<tip, store>>, EndTick
      PROVE  SyncInv'
  BY <1>c, <1>d, <1>0 DEF EndTick, SyncerTypeOK, FreshAbove, Heights
<1>1. CASE SyncBegin
  <2> PICK top \in -1..MaxHeight :
          /\ IsLatest(top)
          /\ next' = (IF top < 0 THEN FirstHeight(Height[tip]) ELSE top + 1)
          /\ next' <= Height[tip]
          /\ end' = LastHeight(next', Height[tip])
          /\ walk' = top
          /\ spc' = (IF top < 0 THEN "fetch" ELSE "walk")
    BY <1>1 DEF SyncBegin
  <2>1. Height[tip] \in Heights
    BY <1>a, ChainAssumption
  <2>2. next' \in Heights
    BY <2>1, <1>0, SyncerAssumption DEF Heights, FirstHeight
  <2>3. end' \in Heights /\ next' <= end'
    BY <2>1, <2>2, <1>0, SyncerAssumption DEF Heights, LastHeight
  <2>4. UNCHANGED <<tip, store, hash>>
    BY <1>1 DEF SyncBegin
  <2>5. SyncerTypeOK'
    BY <2>2, <2>3, <2>4, <1>a DEF SyncerTypeOK
  <2>6. FreshAbove'
    BY <2>2, <2>4, <1>0 DEF FreshAbove, IsLatest, store, Heights
  <2> QED
    BY <2>4, <2>5, <2>6, <1>c
<1>2. CASE SyncWalk
  <2> USE DEF SyncWalk
  <2>1. SyncerTypeOK'
    BY <1>2, <1>a, <1>0 DEF SyncerTypeOK
  <2>2. FreshAbove'
    BY <1>2, <1>a, <1>0 DEF FreshAbove, SyncerTypeOK, store, Heights
  <2> QED
    BY <1>2, <2>1, <2>2, <1>c
<1>3. CASE SyncDelete
  <2>1. walk \in Heights /\ DeleteBlocksFrom(walk)
    BY <1>3, <1>a DEF SyncDelete, SyncerTypeOK, Heights
  <2>2. /\ StoreTypeOK' /\ RowsBelongToStoredBlock' /\ StoredAtHeight'
        /\ \A g \in Heights : g >= walk => blocks'[g] = NoBlock
    BY <2>1, <1>a, DeleteKeeps
  <2>3. SyncerTypeOK' /\ tip' \in Block
    BY <1>3, <1>a, <2>1, <1>0 DEF SyncDelete, SyncerTypeOK, Heights
  <2>4. FreshAbove'
    BY <1>3, <1>a, <2>1, <2>2, <1>0 DEF SyncDelete, FreshAbove, SyncerTypeOK, Heights
  <2> QED
    BY <2>2, <2>3, <2>4 DEF SyncInv, SyncTypeOK
<1>4. CASE SyncWalkedPast
  BY <1>4, <1>d DEF SyncWalkedPast
<1>5. CASE SyncFetch
  <2>1. NodeBlockAt(next) \in Block /\ Height[NodeBlockAt(next)] = next
    BY <1>5, <1>a, NodeBlockFacts DEF SyncFetch, SyncerTypeOK
  <2>2. SyncerTypeOK'
    BY <1>5, <1>a, <2>1 DEF SyncFetch, SyncerTypeOK
  <2>3. FreshAbove'
    BY <1>5, <1>a DEF SyncFetch, FreshAbove, store
  <2> QED
    BY <1>5, <2>2, <2>3, <1>c DEF SyncFetch
<1>6. CASE SyncPersist
  <2>1. hash \in Block /\ Height[hash] = next /\ next \in Heights /\ next <= end
    BY <1>6, <1>a DEF SyncPersist, SyncerTypeOK
  <2>2. \A g \in Heights : g >= Height[hash] => blocks[g] = NoBlock
    BY <1>6, <1>a, <2>1 DEF SyncPersist, FreshAbove
  <2>3. /\ StoreTypeOK' /\ RowsBelongToStoredBlock' /\ StoredAtHeight'
        /\ \A g \in Heights : g # Height[hash] => blocks'[g] = blocks[g]
    BY <1>6, <1>a, <2>1, <2>2, PersistKeeps DEF SyncPersist
  <2>4. SyncerTypeOK' /\ FreshAbove' /\ tip' \in Block
    <3>1. CASE next < end
      <4>1. /\ spc' = "fetch" /\ next' = next + 1 /\ hash' = NoBlock
            /\ UNCHANGED <<end, walk, tip>>
        BY <1>6, <3>1 DEF SyncPersist
      <4>2. SyncerTypeOK'
        BY <4>1, <3>1, <1>a, <1>0 DEF SyncerTypeOK, Heights
      <4>3. FreshAbove'
        BY <4>1, <2>1, <2>2, <2>3 DEF FreshAbove, Heights
      <4> QED
        BY <4>1, <4>2, <4>3, <1>a
    <3>2. CASE ~(next < end)
      BY <1>6, <3>2, <1>a, <1>0 DEF SyncPersist, EndTick, SyncerTypeOK, FreshAbove, Heights
    <3> QED
      BY <3>1, <3>2
  <2> QED
    BY <2>3, <2>4 DEF SyncInv, SyncTypeOK
<1>7. CASE SyncFail
  BY <1>7, <1>d DEF SyncFail
<1> QED
  BY <1>1, <1>2, <1>3, <1>4, <1>5, <1>6, <1>7 DEF SyncerStep

(* The daemon's steps preserve it: the tip is no part of it but for its     *)
(* type.                                                                    *)
LEMMA SyncInvNode ==
    SyncInv /\ tip' \in Block /\ UNCHANGED <<store, syncer>> => SyncInv'
BY DEF SyncInv, SyncTypeOK, StoreTypeOK, SyncerTypeOK, RowsBelongToStoredBlock,
       StoredAtHeight, FreshAbove, Mined, store, syncer

(* The syncer and the daemon preserve it together: it is an invariant of    *)
(* the specification.                                                       *)
THEOREM SyncInvariant == SyncSpec => []SyncInv
<1>1. SyncInv /\ [SyncNext]_syncVars => SyncInv'
  <2> SUFFICES ASSUME SyncInv, [SyncNext]_syncVars PROVE SyncInv'
    OBVIOUS
  <2>1. CASE SyncerStep
    BY <2>1, SyncInvStep
  <2>2. CASE NodeMove
    BY <2>2, SyncInvNode DEF NodeMove, MoveTo
  <2>3. CASE UNCHANGED syncVars
    BY <2>3, SyncInvNode DEF syncVars, SyncInv, SyncTypeOK
  <2> QED
    BY <2>1, <2>2, <2>3 DEF SyncNext
<1> QED
  BY SyncInvInit, <1>1, PTL DEF SyncSpec

(* Type correctness of the syncer and the store.                            *)
THEOREM SyncTypeCorrect == SyncSpec => []SyncTypeOK
BY SyncInvariant, PTL DEF SyncInv

(* No row of an abandoned fork survives under a block of another one.       *)
THEOREM RowsBelong == SyncSpec => []RowsBelongToStoredBlock
BY SyncInvariant, PTL DEF SyncInv

-----------------------------------------------------------------------------
(* A tick ends *)

(* Wherever a tick is it has a step before it, and none when it is over.    *)
LEMMA StepsLeftBound ==
    ASSUME SyncerTypeOK
    PROVE  StepsLeft \in Nat /\ (spc # "idle" => StepsLeft >= 1)
<1>1. MaxHeight \in Nat
  BY ChainAssumption
<1> QED
  BY <1>1 DEF StepsLeft, SyncerTypeOK, Heights

(* The cap on the work of one tick.                                         *)
LEMMA AtMostMaxPerTick ==
    ASSUME NEW start \in Nat, NEW nodeHeight \in Nat
    PROVE  LastHeight(start, nodeHeight) - start + 1 <= MaxPerTick
BY SyncerAssumption DEF LastHeight

(* A tick begins with at most MaxPerTick heights to ingest and every stored *)
(* height to walk back.                                                     *)
LEMMA BeginIsBounded ==
    ASSUME SyncerTypeOK, SyncerTypeOK', tip \in Block, SyncBegin
    PROVE  StepsLeft' \in 1..2 * (MaxPerTick + MaxHeight + 1) + 1
<1>0. MaxHeight \in Nat /\ MaxPerTick \in Nat /\ Height[tip] \in Heights
  BY ChainAssumption, SyncerAssumption
<1>1. end' = LastHeight(next', Height[tip]) /\ spc' \in {"walk", "fetch"}
  BY DEF SyncBegin
<1>2. /\ next' \in Nat /\ next' <= end' /\ walk' \in -1..MaxHeight
      /\ Height[tip] \in Nat /\ end' \in Nat
  BY <1>0 DEF SyncerTypeOK, Heights
<1>3. end' - next' + 1 <= MaxPerTick
  BY <1>1, <1>2, AtMostMaxPerTick
<1> QED
  BY <1>0, <1>1, <1>2, <1>3 DEF StepsLeft

(* Every step of a running tick, one case per step, lowers what is left.    *)
LEMMA StepsGoDown ==
    ASSUME SyncerTypeOK, SyncerTypeOK', SyncerStep, spc # "idle"
    PROVE  StepsLeft' < StepsLeft
<1>0. MaxHeight \in Nat
  BY ChainAssumption
<1>1. CASE SyncWalk
  BY <1>0, <1>1 DEF SyncWalk, StepsLeft, SyncerTypeOK, Heights
<1>2. CASE SyncDelete
  BY <1>0, <1>2 DEF SyncDelete, StepsLeft, SyncerTypeOK, Heights
<1>3. CASE SyncFetch
  BY <1>0, <1>3 DEF SyncFetch, StepsLeft, SyncerTypeOK, Heights
<1>4. CASE SyncPersist /\ next < end
  BY <1>0, <1>4 DEF SyncPersist, StepsLeft, SyncerTypeOK, Heights
<1>5. CASE EndTick
  <2>1. StepsLeft' = 0
    BY <1>5 DEF EndTick, StepsLeft
  <2> QED
    BY <2>1, StepsLeftBound
<1> QED
  BY <1>1, <1>2, <1>3, <1>4, <1>5 DEF SyncerStep, SyncBegin, SyncWalkedPast, SyncPersist, SyncFail

(* A tick has a bounded number of steps, whatever the daemon does while it  *)
(* runs: the part of "every tick ends" that needs no fairness.              *)
THEOREM TicksAreBounded == SyncSpec => TicksEnd
<1> DEFINE Lower == syncer' # syncer =>
                      IF spc = "idle"
                      THEN StepsLeft' \in 1..2 * (MaxPerTick + MaxHeight + 1) + 1
                      ELSE StepsLeft' \in 0..StepsLeft - 1
<1>1. SyncInv /\ SyncInv' /\ [SyncNext]_syncVars => Lower
  <2> SUFFICES ASSUME SyncInv, SyncInv', SyncNext, syncer' # syncer PROVE Lower
    BY DEF syncVars
  <2>1. tip \in Block /\ SyncerTypeOK /\ SyncerTypeOK'
    BY DEF SyncInv, SyncTypeOK
  <2>2. SyncerStep
    BY DEF SyncNext, NodeMove
  <2>3. CASE spc = "idle"
    <3>1. SyncBegin
      BY <2>2, <2>3 DEF SyncerStep, SyncWalk, SyncDelete, SyncWalkedPast,
                        SyncFetch, SyncPersist, SyncFail
    <3> QED
      BY <2>1, <2>3, <3>1, BeginIsBounded
  <2>4. CASE spc # "idle"
    <3>1. StepsLeft' < StepsLeft /\ StepsLeft \in Nat
      BY <2>1, <2>2, <2>4, StepsGoDown, StepsLeftBound
    <3>2. StepsLeft' \in Nat
      <4>1. MaxHeight \in Nat
        BY ChainAssumption
      <4> QED
        BY <2>1, <4>1 DEF StepsLeft, SyncerTypeOK, Heights
    <3> QED
      BY <2>4, <3>1, <3>2
  <2> QED
    BY <2>3, <2>4
<1>2. SyncSpec => [][Lower]_syncVars
  BY <1>1, SyncInvariant, PTL DEF SyncSpec
<1> QED
  BY <1>2 DEF TicksEnd

-----------------------------------------------------------------------------
(* The block table is a stack *)

(* Deleting from a height above which nothing is stored pops the block      *)
(* there with its rows, or changes nothing when there is none.              *)
LEMMA DeletePops ==
    ASSUME StoreTypeOK, RowsBelongToStoredBlock, NEW h \in Heights,
           \A g \in Heights : g > h => blocks[g] = NoBlock,
           DeleteBlocksFrom(h)
    PROVE  Index!Pop(h) \/ UNCHANGED <<blocks, txHeight>>
<1> USE DEF StoreTypeOK, DeleteBlocksFrom, RemoveTxs, Heights, Null
<1>0. MaxHeight \in Nat
  BY ChainAssumption
<1>1. ASSUME NEW t \in Tx, txHeight[t] >= h
      PROVE  txHeight[t] = h /\ t \in txs /\ blocks[h] # NoBlock
  <2>1. txHeight[t] \in Heights /\ txHeight[t] # Null
    BY <1>0, <1>1
  <2>2. t \in txs
    BY <2>1
  <2>3. blocks[txHeight[t]] # NoBlock
    BY <2>1, <2>2 DEF RowsBelongToStoredBlock, Mined
  <2> QED
    BY <1>0, <1>1, <2>1, <2>2, <2>3
<1>2. txHeight' = [t \in Tx |-> IF txHeight[t] = h THEN -1 ELSE txHeight[t]]
  <2> SUFFICES ASSUME NEW t \in Tx
               PROVE  txHeight'[t] = IF txHeight[t] = h THEN -1 ELSE txHeight[t]
    OBVIOUS
  <2> QED
    BY <1>0, <1>1
<1>3. blocks' = [blocks EXCEPT ![h] = NoBlock]
  <2> SUFFICES ASSUME NEW g \in Heights
               PROVE  blocks'[g] = IF g = h THEN NoBlock ELSE blocks[g]
    OBVIOUS
  <2> QED
    BY <1>0
<1>4. CASE blocks[h] # NoBlock
  <2>1. \A g \in (h + 1)..MaxHeight : blocks[g] = NoBlock
    BY <1>0
  <2> HIDE DEF DeleteBlocksFrom, StoreTypeOK, Null
  <2> QED
    BY <1>2, <1>3, <1>4, <2>1 DEF Index!Pop, Index!EmptyFrom
<1>5. CASE blocks[h] = NoBlock
  <2>1. blocks' = blocks
    BY <1>3, <1>5
  <2>2. ASSUME NEW t \in Tx PROVE txHeight[t] # h
    BY <1>0, <1>1, <1>5
  <2>3. txHeight' = txHeight
    BY <1>2, <2>2
  <2> QED
    BY <2>1, <2>3
<1> QED
  BY <1>4, <1>5

(* persistBlock at a height from which on nothing is stored pushes a block.  *)
LEMMA PersistPushes ==
    ASSUME NEW b \in Block,
           \A g \in Heights : g >= Height[b] => blocks[g] = NoBlock,
           UpsertBlock(b), UpsertTxs(TxsOf[b], Height[b], {})
    PROVE  Index!Push(b)
<1>1. Height[b] \in Heights /\ MaxHeight \in Nat
  BY ChainAssumption
<1> QED
  BY <1>1 DEF UpsertBlock, UpsertTxs, Heights, Index!Push, Index!EmptyFrom

(* Each step of the syncer is a push, a pop, or leaves the index as it is.  *)
LEMMA SyncerRefines == SyncInv /\ SyncerStep => [Index!Next]_<<blocks, txHeight>>
<1> SUFFICES ASSUME SyncInv, SyncerStep PROVE [Index!Next]_<<blocks, txHeight>>
  OBVIOUS
<1>0. MaxHeight \in Nat
  BY ChainAssumption
<1>a. StoreTypeOK /\ SyncerTypeOK /\ RowsBelongToStoredBlock /\ FreshAbove
  BY DEF SyncInv, SyncTypeOK
<1>1. CASE SyncDelete
  <2>1. walk \in Heights /\ DeleteBlocksFrom(walk) /\ \A g \in Heights : g > walk => blocks[g] = NoBlock
    BY <1>1, <1>a DEF SyncDelete, SyncerTypeOK, FreshAbove, Heights
  <2>2. Index!Pop(walk) \/ UNCHANGED <<blocks, txHeight>>
    BY <2>1, <1>a, DeletePops
  <2> QED
    BY <2>1, <2>2 DEF Index!Next, Heights
<1>2. CASE SyncPersist
  <2>1. hash \in Block /\ Height[hash] = next
    BY <1>2, <1>a DEF SyncPersist, SyncerTypeOK
  <2>2. Index!Push(hash)
    BY <1>2, <1>a, <2>1, PersistPushes DEF SyncPersist, FreshAbove
  <2> QED
    BY <2>1, <2>2 DEF Index!Next
<1>3. CASE SyncBegin \/ SyncWalk \/ SyncWalkedPast \/ SyncFetch \/ SyncFail
  BY <1>3 DEF SyncBegin, SyncWalk, SyncWalkedPast, SyncFetch, SyncFail, store
<1> QED
  BY <1>1, <1>2, <1>3 DEF SyncerStep

(* The syncer implements the stack of blocks that ChainIndex describes.     *)
THEOREM SyncerImplementsIndex == SyncSpec => UsedAsAStack
<1>1. SyncInit => Index!Init
  BY DEF SyncInit, StoreInit, Index!Init, Heights, Null
<1>2. SyncInv /\ [SyncNext]_syncVars => [Index!Next]_<<blocks, txHeight>>
  <2> SUFFICES ASSUME SyncInv, [SyncNext]_syncVars PROVE [Index!Next]_<<blocks, txHeight>>
    OBVIOUS
  <2>1. CASE SyncerStep
    BY <2>1, SyncerRefines
  <2>2. CASE NodeMove \/ UNCHANGED syncVars
    BY <2>2 DEF NodeMove, syncVars, store
  <2> QED
    BY <2>1, <2>2 DEF SyncNext
<1> QED
  BY <1>1, <1>2, SyncInvariant, PTL DEF SyncSpec, UsedAsAStack, Index!Spec, Index!index

-----------------------------------------------------------------------------
(* A daemon that reorganises between ticks only *)

(* Once the walk has ended, everything stored is on the daemon's chain; the *)
(* block about to be persisted is; and a block about to be deleted is not.  *)
TickAgrees ==
    /\ spc \in {"fetch", "persist"} =>
          \A h \in Heights : blocks[h] # NoBlock => blocks[h] = NodeBlockAt(h)
    /\ spc = "persist" => hash = NodeBlockAt(next)
    /\ spc = "delete" => blocks[walk] # NodeBlockAt(walk)

QuietInv == SyncInv /\ OneChain /\ BlocksComplete /\ TickAgrees

(* It holds before the first tick.                                          *)
LEMMA QuietInvInit == SyncInit => QuietInv
BY SyncInvInit DEF QuietInv, OneChain, BlocksComplete, TickAgrees, SyncInit, StoreInit, Idle, Heights

(* If the block stored highest is on the daemon's chain, all of them are.   *)
LEMMA TopDecides ==
    ASSUME tip \in Block, OneChain, NEW w \in Heights, NodeHas(w),
           blocks[w] = NodeBlockAt(w),
           \A h \in Heights : h > w => blocks[h] = NoBlock,
           NEW h \in Heights, blocks[h] # NoBlock
    PROVE  blocks[h] = NodeBlockAt(h)
<1>0. MaxHeight \in Nat
  BY ChainAssumption
<1>1. h \in 0..w /\ blocks[w] # NoBlock
  BY <1>0 DEF Heights, NodeHas
<1>2. blocks[h] = Ancestor[blocks[w]][h]
  BY <1>1 DEF OneChain
<1>3. w <= Height[tip]
  BY NodeBlockFacts
<1>4. Ancestor[Ancestor[tip][w]][h] = Ancestor[tip][h]
  BY <1>1, <1>3, ChainAssumption
<1> QED
  BY <1>2, <1>4 DEF NodeBlockAt

(* Every step of the syncer preserves it while the daemon stands still.     *)
LEMMA QuietInvStep == QuietInv /\ SyncerStep => QuietInv'
<1> SUFFICES ASSUME QuietInv, SyncerStep PROVE QuietInv'
  OBVIOUS
<1>0. MaxHeight \in Nat
  BY ChainAssumption
<1>a. /\ SyncInv /\ OneChain /\ BlocksComplete /\ TickAgrees
      /\ tip \in Block /\ StoreTypeOK /\ SyncerTypeOK
      /\ RowsBelongToStoredBlock /\ StoredAtHeight /\ FreshAbove
  BY DEF QuietInv, SyncInv, SyncTypeOK
<1>b. SyncInv'
  BY <1>a, SyncInvStep
<1>c. ASSUME UNCHANGED store, TickAgrees'
      PROVE  QuietInv'
  BY <1>a, <1>b, <1>c DEF QuietInv, OneChain, BlocksComplete, store
<1>1. CASE SyncBegin
  <2> PICK top \in -1..MaxHeight :
          IsLatest(top) /\ spc' = (IF top < 0 THEN "fetch" ELSE "walk")
    BY <1>1 DEF SyncBegin
  <2>1. spc' = "fetch" => \A h \in Heights : blocks[h] = NoBlock
    BY <1>0 DEF IsLatest, Heights
  <2>2. TickAgrees'
    BY <1>1, <2>1 DEF SyncBegin, TickAgrees, store
  <2> QED
    BY <1>1, <2>2, <1>c DEF SyncBegin
<1>2. CASE SyncWalk
  <2> USE DEF SyncWalk
  <2>1. walk \in Heights /\ \A h \in Heights : h > walk => blocks[h] = NoBlock
    BY <1>2, <1>a DEF SyncerTypeOK, FreshAbove, Heights
  <2>2. CASE blocks[walk] = NodeBlockAt(walk)
    <3>1. \A h \in Heights : blocks[h] # NoBlock => blocks[h] = NodeBlockAt(h)
      BY <1>2, <1>a, <2>1, <2>2, TopDecides
    <3>2. TickAgrees'
      BY <1>2, <2>2, <3>1 DEF TickAgrees, NodeBlockAt, store
    <3> QED
      BY <1>2, <3>2, <1>c
  <2>3. CASE blocks[walk] # NodeBlockAt(walk)
    <3>1. TickAgrees'
      BY <1>2, <2>3 DEF TickAgrees, NodeBlockAt, store
    <3> QED
      BY <1>2, <3>1, <1>c
  <2> QED
    BY <2>2, <2>3
<1>3. CASE SyncDelete
  <2>1. walk \in Heights /\ DeleteBlocksFrom(walk) /\ spc' = "walk"
    BY <1>3, <1>a DEF SyncDelete, SyncerTypeOK, Heights
  <2>2. \A g \in Heights : blocks'[g] # NoBlock => g < walk /\ blocks'[g] = blocks[g]
    BY <2>1, <1>0 DEF DeleteBlocksFrom, Heights
  <2>3. OneChain'
    <3> SUFFICES ASSUME NEW h \in Heights, blocks'[h] # NoBlock,
                        NEW g \in 0..h, blocks'[g] # NoBlock
                 PROVE  blocks'[g] = Ancestor[blocks'[h]][g]
      BY DEF OneChain
    <3>1. g \in Heights
      BY <1>0 DEF Heights
    <3> QED
      BY <2>2, <3>1, <1>a DEF OneChain
  <2>4. BlocksComplete'
    <3> SUFFICES ASSUME NEW h \in Heights, blocks'[h] # NoBlock, NEW t \in TxsOf[blocks'[h]]
                 PROVE  t \in outs' /\ txHeight'[t] = h
      BY DEF BlocksComplete
    <3>1. h < walk /\ blocks'[h] = blocks[h]
      BY <2>2
    <3>2. t \in outs /\ txHeight[t] = h
      BY <3>1, <1>a DEF BlocksComplete
    <3>3. t \in Tx
      BY <3>2, <1>a DEF StoreTypeOK
    <3> QED
      BY <3>1, <3>2, <3>3, <2>1, <1>0 DEF DeleteBlocksFrom, RemoveTxs, Heights
  <2>5. TickAgrees'
    BY <2>1 DEF TickAgrees
  <2> QED
    BY <1>b, <2>3, <2>4, <2>5 DEF QuietInv
<1>4. CASE SyncWalkedPast \/ SyncFail
  BY <1>4, <1>c DEF SyncWalkedPast, SyncFail, EndTick, TickAgrees
<1>5. CASE SyncFetch
  <2>1. TickAgrees'
    BY <1>5, <1>a DEF SyncFetch, TickAgrees, NodeBlockAt, store
  <2> QED
    BY <1>5, <2>1, <1>c DEF SyncFetch
<1>6. CASE SyncPersist
  <2>1. /\ hash \in Block /\ Height[hash] = next /\ next \in Heights
        /\ UpsertBlock(hash) /\ UpsertTxs(TxsOf[hash], Height[hash], {})
        /\ tip' = tip /\ spc' \in {"fetch", "idle"}
    BY <1>6, <1>a DEF SyncPersist, SyncerTypeOK, EndTick
  <2>2. \A g \in Heights : g >= next => blocks[g] = NoBlock
    BY <1>6, <1>a DEF SyncPersist, FreshAbove
  <2>3. \A g \in Heights : blocks[g] # NoBlock => g < next /\ blocks[g] = Ancestor[tip][g]
    BY <1>6, <1>a, <2>1, <2>2, <1>0 DEF SyncPersist, TickAgrees, NodeBlockAt, Heights
  <2>4. hash = Ancestor[tip][next] /\ next <= Height[tip]
    BY <1>6, <1>a, <2>1, ChainAssumption DEF SyncPersist, TickAgrees, NodeBlockAt, Heights
  <2>5. /\ blocks'[next] = hash
        /\ \A g \in Heights : g # next => blocks'[g] = blocks[g]
    BY <2>1, <2>2, <1>a, PersistKeeps
  <2>6. \A h \in Heights : blocks'[h] # NoBlock => h <= next /\ blocks'[h] = Ancestor[tip][h]
    BY <2>1, <2>3, <2>4, <2>5, <1>0 DEF Heights
  <2>7. OneChain'
    <3> SUFFICES ASSUME NEW h \in Heights, blocks'[h] # NoBlock,
                        NEW g \in 0..h, blocks'[g] # NoBlock
                 PROVE  blocks'[g] = Ancestor[blocks'[h]][g]
      BY DEF OneChain
    <3>1. g \in Heights
      BY <1>0 DEF Heights
    <3>2. h <= Height[tip]
      BY <2>1, <2>4, <2>6, <1>a, ChainAssumption DEF Heights
    <3>3. Ancestor[Ancestor[tip][h]][g] = Ancestor[tip][g]
      BY <3>2, <1>a, ChainAssumption
    <3> QED
      BY <2>6, <3>1, <3>3
  <2>8. BlocksComplete'
    <3> SUFFICES ASSUME NEW h \in Heights, blocks'[h] # NoBlock, NEW t \in TxsOf[blocks'[h]]
                 PROVE  t \in outs' /\ txHeight'[t] = h
      BY DEF BlocksComplete
    <3>1. t \in Tx
      BY <2>1, <2>5, <1>a, ChainAssumption DEF StoreTypeOK
    <3>2. CASE h = next
      BY <2>1, <2>5, <3>1, <3>2 DEF UpsertTxs
    <3>3. CASE h # next
      <4>1. blocks[h] # NoBlock /\ blocks'[h] = blocks[h]
        BY <2>5, <3>3
      <4>2. h \in 0..(next - 1) /\ blocks[h] = Ancestor[tip][h]
        BY <2>1, <2>3, <4>1, <1>0 DEF Heights
      <4>3. TxsOf[hash] \cap TxsOf[blocks[h]] = {}
        BY <2>1, <2>4, <4>2, <1>a, ChainAssumption
      <4>4. t \notin TxsOf[hash]
        BY <4>1, <4>3
      <4>5. t \in outs /\ txHeight[t] = h
        BY <4>1, <1>a DEF BlocksComplete
      <4> QED
        BY <2>1, <3>1, <4>4, <4>5 DEF UpsertTxs
    <3> QED
      BY <3>2, <3>3
  <2>9. TickAgrees'
    BY <2>1, <2>6 DEF TickAgrees, NodeBlockAt
  <2> QED
    BY <1>b, <2>7, <2>8, <2>9 DEF QuietInv
<1> QED
  BY <1>1, <1>2, <1>3, <1>4, <1>5, <1>6 DEF SyncerStep

(* So does a reorganisation between two ticks.                              *)
LEMMA QuietInvNext == QuietInv /\ [QuietNext]_syncVars => QuietInv'
<1> SUFFICES ASSUME QuietInv, [QuietNext]_syncVars PROVE QuietInv'
  OBVIOUS
<1>1. CASE SyncerStep
  BY <1>1, QuietInvStep
<1>2. CASE spc = "idle" /\ NodeMove
  <2>1. UNCHANGED <<store, syncer>> /\ tip' \in Block
    BY <1>2 DEF NodeMove, MoveTo
  <2>2. SyncInv'
    BY <2>1, SyncInvNode DEF QuietInv
  <2>3. OneChain' /\ BlocksComplete'
    BY <2>1 DEF QuietInv, OneChain, BlocksComplete, store
  <2>4. TickAgrees'
    BY <1>2, <2>1 DEF TickAgrees, syncer
  <2> QED
    BY <2>2, <2>3, <2>4 DEF QuietInv
<1>3. CASE UNCHANGED syncVars
  <2>1. SyncInv'
    BY <1>3, SyncInvNode DEF QuietInv, syncVars, SyncInv, SyncTypeOK
  <2> QED
    BY <1>3, <2>1 DEF QuietInv, OneChain, BlocksComplete, TickAgrees, NodeBlockAt,
                      syncVars, store, syncer
<1> QED
  BY <1>1, <1>2, <1>3 DEF QuietNext

(* It is an invariant when the daemon reorganises only between ticks.       *)
THEOREM QuietInvariant == QuietSpec => []QuietInv
BY QuietInvInit, QuietInvNext, PTL DEF QuietSpec

(* All stored blocks lie on one chain.                                      *)
THEOREM StoredBlocksAreOneChain == QuietSpec => []OneChain
BY QuietInvariant, PTL DEF QuietInv

(* No stored block has lost a transaction, or an output.                    *)
THEOREM StoredBlocksComplete == QuietSpec => []BlocksComplete
BY QuietInvariant, PTL DEF QuietInv

(* A reorganisation removes only what the daemon has abandoned.             *)
THEOREM WalkKeepsAgreed == QuietSpec => ReorgKeepsAgreed
<1> DEFINE Kept == \A h \in Heights : blocks[h] # NoBlock /\ blocks'[h] = NoBlock
                        => blocks[h] # NodeBlockAt(h)
<1>1. QuietInv /\ [QuietNext]_syncVars => [Kept]_syncVars
  <2> SUFFICES ASSUME QuietInv, QuietNext,
                      NEW h \in Heights, blocks[h] # NoBlock, blocks'[h] = NoBlock
               PROVE  blocks[h] # NodeBlockAt(h)
    OBVIOUS
  <2>0. MaxHeight \in Nat
    BY ChainAssumption
  <2>a. StoreTypeOK /\ SyncerTypeOK /\ FreshAbove /\ TickAgrees
    BY DEF QuietInv, SyncInv, SyncTypeOK
  <2>1. CASE SyncDelete
    <3>1. walk \in Heights /\ DeleteBlocksFrom(walk) /\ blocks[walk] # NodeBlockAt(walk)
      BY <2>1, <2>a DEF SyncDelete, SyncerTypeOK, TickAgrees, Heights
    <3>2. ~(h > walk) /\ ~(h < walk)
      BY <2>1, <2>a, <3>1, <2>0 DEF SyncDelete, FreshAbove, DeleteBlocksFrom, Heights
    <3> QED
      BY <3>1, <3>2, <2>0 DEF Heights
  <2>2. CASE SyncPersist
    <3>1. hash \in Block /\ UpsertBlock(hash)
      BY <2>2, <2>a DEF SyncPersist, SyncerTypeOK
    <3> QED
      BY <3>1, <2>a, ChainAssumption DEF UpsertBlock, StoreTypeOK
  <2>3. CASE UNCHANGED store
    BY <2>3 DEF store
  <2> QED
    BY <2>1, <2>2, <2>3 DEF QuietNext, SyncerStep, NodeMove, SyncBegin, SyncWalk,
                            SyncWalkedPast, SyncFetch, SyncFail
<1>2. QuietSpec => [][Kept]_syncVars
  BY <1>1, QuietInvariant, PTL DEF QuietSpec
<1> QED
  BY <1>2 DEF ReorgKeepsAgreed

-----------------------------------------------------------------------------
(* A daemon that reorganises in the middle of a tick *)

(* As long as the tick is not torn, the block stored highest and the block  *)
(* about to be persisted are on the daemon's chain.                         *)
TopAgrees ==
    /\ spc \in {"fetch", "persist"} =>
          \A g \in Heights : IsLatest(g) => blocks[g] = NodeBlockAt(g)
    /\ spc = "persist" => hash = NodeBlockAt(next)

SeamInv == SyncInv /\ (torn \/ TopAgrees)

(* New blocks on top of the tip change no answer for a height below it.     *)
LEMMA ExtendKeeps ==
    ASSUME tip \in Block, tip' \in Block, Extends(tip'),
           NEW h \in Heights, NodeHas(h)
    PROVE  NodeBlockAt(h)' = NodeBlockAt(h)
<1>0. MaxHeight \in Nat /\ Height[tip] \in Heights /\ Height[tip'] \in Heights
  BY ChainAssumption
<1>1. Ancestor[tip'][Height[tip]] = tip
  BY DEF Extends
<1>2. Height[tip] <= Height[tip']
  BY <1>0, <1>1, ChainAssumption DEF Heights
<1>3. h \in 0..Height[tip]
  BY <1>0, NodeBlockFacts DEF Heights
<1>4. Ancestor[Ancestor[tip'][Height[tip]]][h] = Ancestor[tip'][h]
  BY <1>0, <1>2, <1>3, ChainAssumption
<1> QED
  BY <1>1, <1>4 DEF NodeBlockAt

(* Every step of the syncer keeps the tick in agreement, if it was.         *)
LEMMA TopAgreesStep == SyncInv /\ SyncerStep /\ TopAgrees => TopAgrees'
<1> SUFFICES ASSUME SyncInv, SyncerStep, TopAgrees PROVE TopAgrees'
  OBVIOUS
<1>0. MaxHeight \in Nat
  BY ChainAssumption
<1>a. /\ tip \in Block /\ StoreTypeOK /\ SyncerTypeOK
      /\ RowsBelongToStoredBlock /\ StoredAtHeight /\ FreshAbove
  BY DEF SyncInv, SyncTypeOK
<1>1. CASE SyncBegin
  <2> PICK top \in -1..MaxHeight :
          IsLatest(top) /\ spc' = (IF top < 0 THEN "fetch" ELSE "walk")
    BY <1>1 DEF SyncBegin
  <2>1. spc' = "fetch" => \A g \in Heights : ~IsLatest(g)
    BY <1>0 DEF IsLatest, Heights
  <2> QED
    BY <1>1, <2>1 DEF SyncBegin, TopAgrees, IsLatest, store
<1>2. CASE SyncWalk
  <2>1. walk \in Heights /\ \A h \in Heights : h > walk => blocks[h] = NoBlock
    BY <1>2, <1>a DEF SyncWalk, SyncerTypeOK, FreshAbove, Heights
  <2>2. spc' = "fetch" => blocks[walk] = NodeBlockAt(walk) /\ blocks[walk] # NoBlock
    BY <1>2 DEF SyncWalk, NodeHas
  <2>3. ASSUME NEW g \in Heights, IsLatest(g), spc' = "fetch" PROVE g = walk
    BY <2>1, <2>2, <2>3, <1>0 DEF IsLatest, Heights
  <2> QED
    BY <1>2, <2>2, <2>3 DEF SyncWalk, TopAgrees, IsLatest, NodeBlockAt, store
<1>3. CASE SyncFetch
  BY <1>3 DEF SyncFetch, TopAgrees, IsLatest, NodeBlockAt, store
<1>4. CASE SyncPersist
  <2>1. /\ hash \in Block /\ Height[hash] = next /\ next \in Heights
        /\ UpsertBlock(hash) /\ UpsertTxs(TxsOf[hash], Height[hash], {})
        /\ tip' = tip /\ spc' \in {"fetch", "idle"} /\ hash = NodeBlockAt(next)
    BY <1>4, <1>a DEF SyncPersist, SyncerTypeOK, EndTick, TopAgrees
  <2>2. \A g \in Heights : g >= next => blocks[g] = NoBlock
    BY <1>4, <1>a DEF SyncPersist, FreshAbove
  <2>3. /\ blocks'[next] = hash
        /\ \A g \in Heights : g # next => blocks'[g] = blocks[g]
    BY <2>1, <2>2, <1>a, PersistKeeps
  <2>4. ASSUME NEW g \in Heights, IsLatest(g)' PROVE g = next
    BY <2>1, <2>2, <2>3, <2>4, <1>0, ChainAssumption DEF IsLatest, Heights
  <2> QED
    BY <2>1, <2>3, <2>4 DEF TopAgrees, NodeBlockAt
<1>5. CASE SyncDelete \/ SyncWalkedPast \/ SyncFail
  BY <1>5 DEF SyncDelete, SyncWalkedPast, SyncFail, EndTick, TopAgrees
<1> QED
  BY <1>1, <1>2, <1>3, <1>4, <1>5 DEF SyncerStep

(* Before the first tick nothing is torn.                                   *)
LEMMA SeamInvInit == SeamInit => SeamInv
BY SyncInvInit DEF SeamInit, SeamInv, TopAgrees, SyncInit, Idle

(* The daemon tears a tick or leaves it in agreement.                       *)
LEMMA SeamInvNext == SeamInv /\ [SeamNext]_<<syncVars, torn>> => SeamInv'
<1> SUFFICES ASSUME SeamInv, [SeamNext]_<<syncVars, torn>> PROVE SeamInv'
  OBVIOUS
<1>a. SyncInv /\ tip \in Block /\ SyncerTypeOK
  BY DEF SeamInv, SyncInv, SyncTypeOK
<1>1. CASE SeamNext /\ SyncerStep
  <2>1. SyncInv'
    BY <1>1, <1>a, SyncInvStep
  <2>2. CASE TopAgrees
    BY <1>1, <1>a, <2>1, <2>2, TopAgreesStep DEF SeamInv
  <2>3. CASE torn /\ spc # "idle" /\ spc' # "idle"
    BY <1>1, <2>1, <2>3 DEF SeamInv, SeamNext
  <2>4. CASE spc' = "idle"
    BY <2>1, <2>4 DEF SeamInv, TopAgrees
  <2>5. CASE spc = "idle"
    <3>1. TopAgrees
      BY <2>5 DEF TopAgrees
    <3> QED
      BY <1>1, <1>a, <2>1, <3>1, TopAgreesStep DEF SeamInv
  <2> QED
    BY <2>2, <2>3, <2>4, <2>5 DEF SeamInv
<1>2. CASE SeamNext /\ NodeMove
  <2>1. UNCHANGED <<store, syncer>> /\ tip' \in Block
    BY <1>2 DEF NodeMove, MoveTo
  <2>2. SyncInv'
    BY <1>a, <2>1, SyncInvNode
  <2>3. CASE spc = "idle"
    BY <2>1, <2>2, <2>3 DEF SeamInv, TopAgrees, syncer
  <2>4. CASE spc # "idle" /\ (torn \/ ~Extends(tip'))
    BY <1>2, <2>1, <2>2, <2>4 DEF SeamNext, SeamInv, syncer
  <2>5. CASE TopAgrees /\ Extends(tip')
    <3>1. ASSUME NEW g \in Heights, IsLatest(g), spc \in {"fetch", "persist"}
          PROVE  blocks[g] = NodeBlockAt(g)'
      <4>1. blocks[g] = NodeBlockAt(g) /\ NodeHas(g)
        BY <2>5, <3>1 DEF TopAgrees, IsLatest, NodeHas, Heights
      <4> QED
        BY <4>1, <1>a, <2>1, <2>5, ExtendKeeps
    <3>2. ASSUME spc = "persist" PROVE hash = Ancestor[tip'][next]
      <4>1. hash = NodeBlockAt(next) /\ next \in Heights /\ NodeHas(next)
        BY <2>5, <3>2, <1>a, ChainAssumption DEF TopAgrees, SyncerTypeOK, NodeHas
      <4>2. \A h \in Heights : NodeHas(h) => Ancestor[tip'][h] = Ancestor[tip][h]
        BY <1>a, <2>1, <2>5, ExtendKeeps DEF NodeBlockAt
      <4> QED
        BY <4>1, <4>2 DEF NodeBlockAt
    <3>3. next' = next
      BY <2>1 DEF syncer
    <3>4. TopAgrees'
      BY <2>1, <3>1, <3>2, <3>3 DEF TopAgrees, IsLatest, NodeBlockAt, store, syncer
    <3> QED
      BY <2>2, <3>4 DEF SeamInv
  <2> QED
    BY <2>3, <2>4, <2>5 DEF SeamInv
<1>3. CASE UNCHANGED <<syncVars, torn>>
  BY <1>3, SyncInvNode, <1>a DEF SeamInv, TopAgrees, IsLatest, NodeBlockAt, syncVars, store, syncer
<1> QED
  BY <1>1, <1>2, <1>3 DEF SeamNext, SyncNext

(* Only a reorganisation in the middle of a tick stores a block above one   *)
(* that is not its ancestor.                                                *)
THEOREM OnlyReorgsMakeSeams == SeamSpec => SeamsOnlyByReorg
<1> DEFINE Seamless ==
        \A g, h \in Heights :
            IsLatest(g) /\ blocks[h] = NoBlock /\ blocks'[h] # NoBlock
               => torn \/ blocks[g] = Ancestor[blocks'[h]][g]
<1>1. SeamInv /\ [SeamNext]_<<syncVars, torn>> => [Seamless]_<<syncVars, torn>>
  <2> SUFFICES ASSUME SeamInv, SeamNext, ~torn,
                      NEW g \in Heights, NEW h \in Heights, IsLatest(g),
                      blocks[h] = NoBlock, blocks'[h] # NoBlock
               PROVE  blocks[g] = Ancestor[blocks'[h]][g]
    OBVIOUS
  <2>0. MaxHeight \in Nat
    BY ChainAssumption
  <2>a. /\ TopAgrees /\ tip \in Block /\ StoreTypeOK /\ SyncerTypeOK
        /\ RowsBelongToStoredBlock /\ StoredAtHeight /\ FreshAbove
    BY DEF SeamInv, SyncInv, SyncTypeOK
  <2>1. CASE SyncPersist
    <3>1. /\ hash \in Block /\ Height[hash] = next /\ next \in Heights
          /\ UpsertBlock(hash) /\ UpsertTxs(TxsOf[hash], Height[hash], {})
      BY <2>1, <2>a DEF SyncPersist, SyncerTypeOK
    <3>2. \A i \in Heights : i >= next => blocks[i] = NoBlock
      BY <2>1, <2>a DEF SyncPersist, FreshAbove
    <3>3. blocks'[h] = hash
      BY <3>1, <3>2, <2>a, PersistKeeps
    <3>4. hash = Ancestor[tip][next] /\ blocks[g] = Ancestor[tip][g]
      BY <2>1, <2>a DEF SyncPersist, TopAgrees, NodeBlockAt
    <3>5. g \in 0..next /\ next <= Height[tip]
      <4>1. blocks[g] # NoBlock
        BY DEF IsLatest, Heights
      <4>2. g < next
        BY <2>0, <3>1, <3>2, <4>1 DEF Heights
      <4>3. NodeHas(next)
        BY <3>1, <3>4, ChainAssumption DEF NodeHas, NodeBlockAt
      <4> QED
        BY <2>0, <2>a, <3>1, <4>2, <4>3, NodeBlockFacts DEF Heights
    <3>6. Ancestor[Ancestor[tip][next]][g] = Ancestor[tip][g]
      BY <2>a, <3>1, <3>5, ChainAssumption
    <3> QED
      BY <3>3, <3>4, <3>6
  <2>2. CASE SyncDelete
    <3>1. walk \in Heights /\ DeleteBlocksFrom(walk)
      BY <2>2, <2>a DEF SyncDelete, SyncerTypeOK, Heights
    <3>2. blocks'[h] = IF h >= walk THEN NoBlock ELSE blocks[h]
      BY <2>0, <3>1, <2>a, DeleteKeeps DEF Heights
    <3> QED
      BY <3>2
  <2>3. CASE UNCHANGED store
    BY <2>3 DEF store
  <2> QED
    BY <2>1, <2>2, <2>3 DEF SeamNext, SyncNext, SyncerStep, NodeMove, SyncBegin, SyncWalk,
                            SyncWalkedPast, SyncFetch, SyncFail
<1> QED
  BY <1>1, SeamInvInit, SeamInvNext, PTL DEF SeamSpec, SeamsOnlyByReorg
=============================================================================
