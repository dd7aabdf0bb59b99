-------------------------------- MODULE Syncer --------------------------------
(***************************************************************************)
(* The block syncer of internal/indexer/syncer.go.  One tick (once) reads  *)
(* the two heights, walks back from the highest stored block while the     *)
(* daemon disowns it, and ingests up to MaxPerTick heights, each fetched   *)
(* and then persisted in one database transaction.  The daemon may adopt   *)
(* another block between any two of these steps.                           *)
(***************************************************************************)
EXTENDS TxStore

CONSTANTS
    InitialBackfill,    \* Syncer.InitialBackfill
    MaxPerTick          \* maxPerTick, 50 in the code

ASSUME SyncerAssumption == InitialBackfill \in Nat /\ MaxPerTick \in Nat \ {0}

VARIABLES
    spc,    \* where the tick is: "idle", "walk", "delete", "fetch", "persist"
    next,   \* start, then h, of the ingest loop of once
    end,    \* the last height of this tick
    walk,   \* h of reorgBackIfNeeded
    hash    \* the block ingestHeight has fetched

syncer == <<spc, next, end, walk, hash>>
syncVars == <<tip, store, syncer>>

SyncerTypeOK ==
    /\ spc \in {"idle", "walk", "delete", "fetch", "persist"}
    /\ next \in Heights
    /\ end \in Heights
    /\ walk \in -1..MaxHeight
    /\ hash \in Block \cup {NoBlock}
    /\ spc = "delete" => walk >= 0
    /\ next <= end
    /\ spc = "persist" => hash \in Block /\ Height[hash] = next

Idle == spc = "idle" /\ next = 0 /\ end = 0 /\ walk = -1 /\ hash = NoBlock

(* The tick is over; its local variables are dropped.                       *)
EndTick == spc' = "idle" /\ next' = 0 /\ end' = 0 /\ walk' = -1 /\ hash' = NoBlock

SyncInit == NodeInit /\ StoreInit /\ Idle

(* A slip: the backfill may reach below height 0.                           *)
FirstHeightUnclamped(nodeHeight) == nodeHeight - InitialBackfill

FirstHeight(nodeHeight) ==
    IF InitialBackfill >= nodeHeight THEN 0 ELSE nodeHeight - InitialBackfill

LastHeight(start, nodeHeight) ==
    IF start + MaxPerTick - 1 > nodeHeight THEN nodeHeight ELSE start + MaxPerTick - 1

(* Slips of SyncBegin: the tick returns already when start = nodeHeight, or *)
(* starts at the highest stored height instead of above it.                 *)
SyncBeginBehind ==
    /\ spc = "idle"
    /\ \E top \in -1..MaxHeight :
          /\ IsLatest(top)
          /\ next' = (IF top < 0 THEN FirstHeight(Height[tip]) ELSE top + 1)
          /\ next' < Height[tip]
          /\ end' = LastHeight(next', Height[tip])
          /\ walk' = top
          /\ spc' = (IF top < 0 THEN "fetch" ELSE "walk")
    /\ UNCHANGED <<tip, store, hash>>

SyncBeginAtTop ==
    /\ spc = "idle"
    /\ \E top \in -1..MaxHeight :
          /\ IsLatest(top)
          /\ next' = (IF top < 0 THEN FirstHeight(Height[tip]) ELSE top)
          /\ next' <= Height[tip]
          /\ end' = LastHeight(next', Height[tip])
          /\ walk' = top
          /\ spc' = (IF top < 0 THEN "fetch" ELSE "walk")
    /\ UNCHANGED <<tip, store, hash>>

(* once, up to the reorg check.  A tick with start > nodeHeight returns     *)
(* before it: nothing changes.                                              *)
SyncBegin ==
    /\ spc = "idle"
    /\ \E top \in -1..MaxHeight :
          /\ IsLatest(top)
          /\ next' = (IF top < 0 THEN FirstHeight(Height[tip]) ELSE top + 1)
          /\ next' <= Height[tip]
          /\ end' = LastHeight(next', Height[tip])
          /\ walk' = top
          /\ spc' = (IF top < 0 THEN "fetch" ELSE "walk")
    /\ UNCHANGED <<tip, store, hash>>

(* One round of reorgBackIfNeeded: the two hashes at height walk agree and  *)
(* the walk is over, or they differ ("" is the hash of a missing row).      *)
SyncWalk ==
    /\ spc = "walk"
    /\ walk >= 0
    /\ NodeHas(walk)
    /\ IF blocks[walk] = NodeBlockAt(walk)
       THEN spc' = "fetch" /\ walk' = -1
       ELSE spc' = "delete" /\ UNCHANGED walk
    /\ UNCHANGED <<tip, store, next, end, hash>>

(* A slip: the walk ends after the first deletion.                          *)
SyncDeleteOnce ==
    /\ spc = "delete"
    /\ DeleteBlocksFrom(walk)
    /\ spc' = "fetch"
    /\ walk' = -1
    /\ UNCHANGED <<tip, next, end, hash>>

(* Another: the loop does not go down.                                      *)
SyncDeleteStays ==
    /\ spc = "delete"
    /\ DeleteBlocksFrom(walk)
    /\ spc' = "walk"
    /\ UNCHANGED <<tip, next, end, walk, hash>>

SyncDelete ==
    /\ spc = "delete"
    /\ DeleteBlocksFrom(walk)
    /\ spc' = "walk"
    /\ walk' = walk - 1
    /\ UNCHANGED <<tip, next, end, hash>>

(* "reorg walked past height 0" ends the tick with an error.                *)
SyncWalkedPast ==
    /\ spc = "walk"
    /\ walk < 0
    /\ EndTick
    /\ UNCHANGED <<tip, store>>

(* ingestHeight: getblockhash next, then getblock of that hash.             *)
SyncFetch ==
    /\ spc = "fetch"
    /\ NodeHas(next)
    /\ hash' = NodeBlockAt(next)
    /\ spc' = "persist"
    /\ UNCHANGED <<tip, store, next, end, walk>>

(* persistBlock: the block and its transactions in one transaction.         *)
SyncPersist ==
    /\ spc = "persist"
    /\ UpsertBlock(hash)
    /\ UpsertTxs(TxsOf[hash], Height[hash], {})
    /\ IF next < end
       THEN spc' = "fetch" /\ next' = next + 1 /\ hash' = NoBlock /\ UNCHANGED <<end, walk>>
       ELSE EndTick
    /\ UNCHANGED tip

(* An RPC or database call fails, and the tick returns.  A database         *)
(* transaction that was open is rolled back.                                *)
SyncFail ==
    /\ spc # "idle"
    /\ EndTick
    /\ UNCHANGED <<tip, store>>

SyncerStep ==
    \/ SyncBegin \/ SyncWalk \/ SyncDelete \/ SyncWalkedPast
    \/ SyncFetch \/ SyncPersist \/ SyncFail

NodeMove == \E b \in Block : MoveTo(b) /\ UNCHANGED <<store, syncer>>

SyncNext == SyncerStep \/ NodeMove

SyncSpec == SyncInit /\ [][SyncNext]_syncVars

(* As SyncSpec, but the daemon reorganises only while no tick is running.   *)
QuietNext == SyncerStep \/ (spc = "idle" /\ NodeMove)

QuietSpec == SyncInit /\ [][QuietNext]_syncVars

(* The ticker never stops and every call returns (RPCs have a timeout), so  *)
(* a tick goes on or fails; and no call fails for ever: a step that gets    *)
(* its chance again and again is eventually taken.                          *)
SyncFairness ==
    /\ WF_syncVars(SyncerStep)
    /\ SF_syncVars(SyncWalk) /\ SF_syncVars(SyncDelete)
    /\ SF_syncVars(SyncFetch) /\ SF_syncVars(SyncPersist)

FairSyncSpec == SyncSpec /\ SyncFairness

-----------------------------------------------------------------------------
(* Properties *)

SyncTypeOK == tip \in Block /\ StoreTypeOK /\ SyncerTypeOK

(* A transaction row that names a block height belongs to the block stored  *)
(* at that height: a reorganisation leaves no row of the old fork behind    *)
(* under a block of the new one (DeleteBlocksFrom, persistBlock).           *)
RowsBelongToStoredBlock ==
    \A t \in Mined :
        /\ blocks[txHeight[t]] # NoBlock
        /\ t \in TxsOf[blocks[txHeight[t]]]

(* The table of blocks is used as a stack, whatever the daemon does and     *)
(* wherever a tick fails: a block is stored above all others or not at all, *)
(* and only the highest one is ever removed, with its transactions.  In     *)
(* particular ON CONFLICT(height) DO UPDATE never replaces a block.         *)
Index == INSTANCE ChainIndex WITH where <- txHeight
UsedAsAStack == Index!Spec

(* All stored blocks lie on one chain, the one of the highest of them, gaps *)
(* or not.  It takes the walk of reorgBackIfNeeded before every first block *)
(* of a tick, and a daemon that does not reorganise in the middle of one:   *)
(* nothing compares prev_hash with the block below.                         *)
OneChain ==
    \A h \in Heights : blocks[h] # NoBlock =>
        \A g \in 0..h : blocks[g] # NoBlock => blocks[g] = Ancestor[blocks[h]][g]

(* Every transaction of a stored block is listed under it.                  *)
BlocksComplete ==
    \A h \in Heights : blocks[h] # NoBlock =>
        \A t \in TxsOf[blocks[h]] : t \in outs /\ txHeight[t] = h

(* The reorg walk removes nothing that is still on the daemon's chain.      *)
ReorgKeepsAgreed ==
    [][\A h \in Heights : blocks[h] # NoBlock /\ blocks'[h] = NoBlock
          => blocks[h] # NodeBlockAt(h)]_syncVars

(* What a tick can still do at most: two steps for every height it has to   *)
(* ingest, two for every height the walk may go down, and the one that      *)
(* leaves the walk.                                                         *)
StepsLeft ==
    LET Ingest == 2 * (end - next + 1)
    IN  CASE spc = "idle" -> 0
          [] spc = "fetch" -> Ingest
          [] spc = "persist" -> Ingest - 1
          [] spc = "walk" -> Ingest + 2 * (walk + 1) + 1
          [] spc = "delete" -> Ingest + 2 * (walk + 1)

(* No tick goes on for ever, whatever the daemon does in the middle of it:  *)
(* a tick begins with a bounded number of steps before it, each step lowers *)
(* that number, and no reorganisation raises it again ("Cap work per tick   *)
(* so we don't stall the other workers", syncer.go:63).  Run calls once     *)
(* from its own loop: a tick without end would be the last one.             *)
TicksEnd ==
    [][syncer' # syncer =>
          IF spc = "idle"
          THEN StepsLeft' \in 1..2 * (MaxPerTick + MaxHeight + 1) + 1
          ELSE StepsLeft' \in 0..StepsLeft - 1]_syncVars

(* If the daemon settles on a tip, the index reaches that height: failed    *)
(* calls, a reorg walk and the bound on a tick only delay it.  And when no  *)
(* tick is running and the daemon is higher than the index, its tip gets    *)
(* stored unless the daemon leaves it: an index that kept another fork of   *)
(* the same height (start > nodeHeight, syncer.go:59) follows the daemon as *)
(* soon as its chain is the higher one.                                     *)
CatchesUp ==
    \A b \in Block :
        /\ <>[](tip = b) => <>[](\E h \in Height[b]..MaxHeight : blocks[h] # NoBlock)
        /\ (spc = "idle" /\ tip = b /\ \A h \in Height[b]..MaxHeight : blocks[h] = NoBlock)
              ~> (tip # b \/ blocks[Height[b]] = b)

(* "confirm that our stored block at (start-1) still matches the node's     *)
(* view; if not, walk back until it does" (syncer.go:70): when the ingest   *)
(* loop begins, the block below its first height is the daemon's, unless    *)
(* the table was empty.                                                     *)
ContinuesStoredChain ==
    [][spc = "walk" /\ spc' = "fetch" => blocks[next - 1] = NodeBlockAt(next - 1)]_syncVars
=============================================================================
