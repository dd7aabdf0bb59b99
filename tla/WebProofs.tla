------------------------------ MODULE WebProofs ------------------------------
(***************************************************************************)
(* What a page shows that is made of several queries, for every tree of    *)
(* blocks and every number of requests.  The pages of blocks, addresses    *)
(* and lists are read while the daemon reorganises only between ticks, and *)
(* the proofs rest on two facts about the syncer: until a block is removed *)
(* no stored row changes, and the list only grows.  The page of a          *)
(* transaction is read while both workers run.                             *)
(***************************************************************************)
EXTENDS LedgerProofs

(* The landing page lists blocks under their own heights.                   *)
LEMMA RecentStored ==
    ASSUME QuietInv, NEW rows \in RecentBlocks, NEW b \in rows
    PROVE  b \in Block /\ blocks[Height[b]] = b
<1>1. PICK h \in StoredHeights : b = blocks[h]
      BY DEF RecentBlocks, NewestBlocks
<1> QED
    BY <1>1, ListedUnderHeight DEF StoredHeights

-----------------------------------------------------------------------------
(* The invariant of the requests *)

(* Of the block page.  The queries have returned a block of the height that *)
(* was asked for, and what they returned is what is stored, until a block   *)
(* is removed.                                                              *)
BlockPage ==
    hArg \in Heights =>
        /\ hpc \in {"blockTxs", "shown"}
        /\ got = [Blank EXCEPT !.block = got.block, !.rows = got.rows, !.whole = got.whole]
        /\ got.block \in Block /\ Height[got.block] = hArg
        /\ removed \/ blocks[hArg] = got.block
        /\ clicked = NoBlock \/ removed \/ got.block = clicked

RowsOfBlock(b) ==
    got.rows \subseteq TxsOf[b] /\ (got.whole => got.rows = TxsOf[b])

BlockRows ==
    hArg \in Heights /\ hpc = "shown" =>
        /\ got.rows = {} \/ \E b \in Block : Height[b] = hArg /\ RowsOfBlock(b)
        /\ removed \/ RowsOfBlock(got.block)

(* Of the landing page.                                                     *)
LandingPage ==
    hpc = "landing" =>
        /\ hArg = Nobody /\ clicked = NoBlock
        /\ got = [Blank EXCEPT !.rows = got.rows]
        /\ \A b \in got.rows : b \in Block /\ (removed \/ blocks[Height[b]] = b)

NoRequest == hpc = "none" => hArg = Nobody /\ clicked = NoBlock

WebInv == BlockPage /\ BlockRows /\ LandingPage /\ NoRequest

(* The syncer keeps it: what it does not remove it does not change.         *)
LEMMA WebInvSyncer ==
    ASSUME QuietInv, [QuietNext]_syncVars, WebInv, IndexerWrites
    PROVE  WebInv'
<1> USE DEF WebInv, IndexerWrites, handler
<1>1. ASSUME ~removed', hpc # "none" PROVE ~removed /\ ~RemovesBlock
      BY <1>1
<1>2. ASSUME NEW h \in Heights, blocks[h] # NoBlock, ~RemovesBlock PROVE blocks'[h] = blocks[h]
      BY <1>2, NeverReplaced DEF RemovesBlock
<1>3. ASSUME NEW b \in Block, hpc # "none", removed \/ blocks[Height[b]] = b
      PROVE  removed' \/ blocks'[Height[b]] = b
  <2>1. Height[b] \in Heights /\ b # NoBlock
        BY ChainAssumption
  <2> QED
      BY <1>1, <1>2, <1>3, <2>1
<1>4. ASSUME hpc # "none", removed PROVE removed'
      BY <1>4
<1>5. BlockPage'
  <2> SUFFICES ASSUME hArg \in Heights PROVE BlockPage'
      BY DEF BlockPage
  <2>1. removed' \/ blocks'[hArg] = got.block
        BY <1>3 DEF BlockPage
  <2> QED
      BY <1>4, <2>1 DEF BlockPage
<1>6. BlockRows'
      BY <1>4 DEF BlockRows, RowsOfBlock
<1>7. LandingPage'
      BY <1>3 DEF LandingPage
<1>8. NoRequest'
      BY DEF NoRequest
<1> QED
    BY <1>5, <1>6, <1>7, <1>8

-----------------------------------------------------------------------------
(* A request keeps it *)

(* A page is asked for by what it is about: a height, or nothing.           *)
LEMMA NotHeights == /\ Nobody \notin Heights
                    /\ \A t \in Tx : t \notin Heights
                    /\ \A a \in Addr : a \notin Heights
BY HandlersAssumption

(* The first query of a block page, after a click or without one.           *)
LEMMA WebInvReadBlock ==
    ASSUME QuietInv, WebInv, Request, NEW h \in Heights, ReadBlock(h),
           \/ hpc = "none"
           \/ hpc = "landing" /\ \E b \in got.rows : Height[b] = h
    PROVE  WebInv'
<1>0. blocks' = blocks
      BY DEF Request, vars, syncVars, store
<1>1. CASE BlockByHeight(h) = NoBlock
  <2>1. hpc' = "none" /\ hArg' = Nobody /\ clicked' = NoBlock
        BY <1>1 DEF ReadBlock, Request
  <2> QED
      BY <2>1, NotHeights DEF WebInv, BlockPage, BlockRows, LandingPage, NoRequest
<1>2. CASE BlockByHeight(h) # NoBlock
  <2>1. /\ hpc' = "blockTxs" /\ hArg' = h
        /\ got' = [Blank EXCEPT !.block = blocks[h]]
        BY <1>2 DEF ReadBlock, BlockByHeight
  <2>2. got'.block = blocks[h] /\ got'.rows = <<>> /\ got'.whole = FALSE
        BY <2>1 DEF Blank
  <2>3. got' = [Blank EXCEPT !.block = got'.block, !.rows = got'.rows, !.whole = got'.whole]
        BY <2>1, <2>2 DEF Blank
  <2>4. blocks[h] \in Block /\ Height[blocks[h]] = h
        BY <1>2, ListedUnderHeight DEF BlockByHeight
  <2>5. removed => removed'
        BY <2>1 DEF Request
  <2>6. CASE hpc = "none"
    <3>1. clicked' = NoBlock
          BY <2>1, <2>6 DEF Request, ListShown, WebInv, NoRequest
    <3> QED
        BY <1>0, <2>1, <2>2, <2>3, <2>4, <3>1
        DEF WebInv, BlockPage, BlockRows, LandingPage, NoRequest
  <2>7. CASE hpc = "landing" /\ \E b \in got.rows : Height[b] = h
    <3>1. clicked' = CHOOSE b \in got.rows : Height[b] = h
          BY <2>1, <2>7 DEF Request
    <3>2. clicked' \in got.rows /\ Height[clicked'] = h
          BY <2>7, <3>1
    <3>3. removed' \/ blocks[h] = clicked'
          BY <2>5, <2>7, <3>2 DEF WebInv, LandingPage
    <3> QED
        BY <1>0, <2>1, <2>2, <2>3, <2>4, <3>3
        DEF WebInv, BlockPage, BlockRows, LandingPage, NoRequest
  <2> QED
      BY <2>6, <2>7
<1> QED
    BY <1>1, <1>2

(* Its second query.                                                        *)
LEMMA WebInvBlockTxs ==
    ASSUME QuietInv, WebInv, Request, BlockTxs
    PROVE  WebInv'
<1>0. /\ blocks' = blocks /\ hpc = "blockTxs" /\ hpc' = "shown" /\ hArg' = hArg
      /\ clicked' = clicked
      BY DEF Request, vars, syncVars, store, BlockTxs, Then, ListShown
<1>1. removed => removed'
      BY <1>0 DEF Request
<1>2. CASE hArg \notin Heights
      BY <1>0, <1>2 DEF WebInv, BlockPage, BlockRows, LandingPage, NoRequest
<1>3. CASE hArg \in Heights
  <2>1. PICK rows, whole :
            /\ got' = [got EXCEPT !.rows = rows, !.whole = whole]
            /\ rows \subseteq InBlock(hArg) /\ (whole => rows = InBlock(hArg))
        BY DEF BlockTxs, ReadsRows
  <2>2. got = [Blank EXCEPT !.block = got.block, !.rows = got.rows, !.whole = got.whole]
        BY <1>3 DEF WebInv, BlockPage
  <2>3. got' = [Blank EXCEPT !.block = got.block, !.rows = rows, !.whole = whole]
        BY <2>1, <2>2 DEF Blank
  <2>4. got'.block = got.block /\ got'.rows = rows /\ got'.whole = whole
        BY <2>3 DEF Blank
  <2>5. got' = [Blank EXCEPT !.block = got'.block, !.rows = got'.rows, !.whole = got'.whole]
        BY <2>3, <2>4
  <2>6. BlockPage'
        BY <1>0, <1>1, <1>3, <2>4, <2>5 DEF WebInv, BlockPage
  <2>7. BlockRows'
    <3>1. CASE InBlock(hArg) = {}
      <4>1. got'.rows = {}
            BY <2>1, <2>4, <3>1
      <4>2. ~removed' => TxsOf[got.block] = {}
            BY <1>1, <1>3, <3>1, ListedUnderHeight, ChainAssumption DEF WebInv, BlockPage
      <4> QED
          BY <1>0, <2>4, <4>1, <4>2 DEF BlockRows, RowsOfBlock
    <3>2. CASE InBlock(hArg) # {}
      <4>1. /\ InBlock(hArg) = TxsOf[blocks[hArg]]
            /\ blocks[hArg] \in Block /\ Height[blocks[hArg]] = hArg
            BY <1>3, <3>2, ListedUnderHeight
      <4>2. ~removed' => blocks[hArg] = got.block
            BY <1>1, <1>3 DEF WebInv, BlockPage
      <4> QED
          BY <1>0, <2>1, <2>4, <4>1, <4>2 DEF BlockRows, RowsOfBlock
    <3> QED
        BY <3>1, <3>2
  <2> QED
      BY <1>0, <2>6, <2>7 DEF WebInv, LandingPage, NoRequest
<1> QED
    BY <1>2, <1>3

LEMMA WebInvRequest ==
    ASSUME QuietInv, WebInv, Request
    PROVE  WebInv'
<1>0. blocks' = blocks
      BY DEF Request, vars, syncVars, store
<1>1. ASSUME hArg' \notin Heights, hpc' \notin {"none", "landing"} PROVE WebInv'
      BY <1>1 DEF WebInv, BlockPage, BlockRows, LandingPage, NoRequest
<1>2. ASSUME hArg \in Heights PROVE hpc \in {"blockTxs", "shown"}
      BY <1>2 DEF WebInv, BlockPage
<1>3. CASE ListBlocks
  <2>1. /\ hpc = "none" /\ hpc' = "landing" /\ hArg' = Nobody
        BY <1>3 DEF ListBlocks, Asked
  <2>2. got'.rows \in RecentBlocks /\ got' = [Blank EXCEPT !.rows = got'.rows]
        BY <1>3 DEF ListBlocks, Blank
  <2>3. clicked' = NoBlock
        BY <2>1, NotHeights DEF Request, ListShown, WebInv, NoRequest
  <2> QED
      BY <1>0, <2>1, <2>2, <2>3, NotHeights, RecentStored
      DEF WebInv, BlockPage, BlockRows, LandingPage, NoRequest
<1>4. CASE RefreshBlocks
  <2>1. hpc = "landing" /\ hpc' = "landing" /\ hArg = Nobody /\ hArg' = Nobody
        BY <1>4 DEF RefreshBlocks, WebInv, LandingPage
  <2>2. PICK rows \in RecentBlocks : got' = [got EXCEPT !.rows = rows]
        BY <1>4 DEF RefreshBlocks, Reads
  <2>3. got' = [Blank EXCEPT !.rows = rows]
        BY <2>1, <2>2 DEF WebInv, LandingPage, Blank
  <2>4. got'.rows = rows /\ got' = [Blank EXCEPT !.rows = got'.rows]
        BY <2>3 DEF Blank
  <2>5. clicked' = NoBlock
        BY <2>1, NotHeights DEF Request, ListShown, WebInv, LandingPage
  <2> QED
      BY <1>0, <2>1, <2>4, <2>5, NotHeights, RecentStored
      DEF WebInv, BlockPage, BlockRows, LandingPage, NoRequest
<1>5. CASE \E h \in Heights : BlockRow(h)
      BY <1>5, WebInvReadBlock DEF BlockRow
<1>6. CASE \E b \in Block : ClickBlock(b)
      BY <1>6, WebInvReadBlock, ChainAssumption DEF ClickBlock
<1>7. CASE BlockTxs
      BY <1>7, WebInvBlockTxs
<1>8. CASE Reply
  <2>1. hpc' = "none" /\ hArg' = Nobody /\ clicked' = NoBlock
        BY <1>8 DEF Reply, Request
  <2> QED
      BY <2>1, NotHeights DEF WebInv, BlockPage, BlockRows, LandingPage, NoRequest
<1>9. CASE \/ \E t \in Tx : TxRow(t)
           \/ \E a \in Addr, page \in Typed : AddressReceived(a, page)
      BY <1>1, <1>9, NotHeights DEF TxRow, AddressReceived, Asked
<1>10. CASE \/ \E page \in Typed : ListCount(page)
            \/ ListShown /\ \E page \in Links : FollowLink(page)
       BY <1>1, <1>10, NotHeights DEF ListCount, FollowLink, CountTxs
<1>11. CASE TxOutputs \/ TxInputs \/ TxNoInputs \/ TxRaw \/ TxResolved
       BY <1>1, <1>2, <1>11 DEF TxOutputs, TxInputs, TxNoInputs, TxRaw, TxResolved, Then
<1>12. CASE \E o \in Coins : TxResolve(o)
       BY <1>1, <1>2, <1>12 DEF TxResolve
<1>13. CASE AddressSent \/ AddressCount \/ AddressTxs \/ ListTxs
       BY <1>1, <1>2, <1>13 DEF AddressSent, AddressCount, AddressTxs, ListTxs, Then
<1>14. CASE RefreshTxs
       BY <1>1, <1>14, NotHeights DEF RefreshTxs, ListShown
<1> QED
    BY <1>3, <1>4, <1>5, <1>6, <1>7, <1>8, <1>9, <1>10, <1>11, <1>12, <1>13, <1>14
    DEF Request, HandlerStep

-----------------------------------------------------------------------------
(* The theorems *)

LEMMA WebInvInit == WebInit => QuietInv /\ WebInv
<1> SUFFICES ASSUME WebInit PROVE QuietInv /\ WebInv
    OBVIOUS
<1>1. QuietInv
      BY QuietInvInit DEF WebInit, Init
<1>2. hpc = "none" /\ hArg = Nobody /\ clicked = NoBlock
      BY DEF WebInit, HandlerInit
<1> QED
    BY <1>1, <1>2, NotHeights DEF WebInv, BlockPage, BlockRows, LandingPage, NoRequest

LEMMA WebInvNext == QuietInv /\ WebInv /\ [SyncedWebNext]_webVars => (QuietInv /\ WebInv)'
<1> SUFFICES ASSUME QuietInv, WebInv, [SyncedWebNext]_webVars PROVE QuietInv' /\ WebInv'
    OBVIOUS
<1>1. CASE QuietNext /\ IndexerWrites
      BY <1>1, QuietInvNext, WebInvSyncer
<1>2. CASE Request
  <2>1. UNCHANGED syncVars
        BY <1>2 DEF Request, vars, syncVars
  <2> QED
      BY <1>2, <2>1, QuietInvNext, WebInvRequest
<1>3. CASE UNCHANGED webVars
  <2>1. UNCHANGED <<syncVars, hpc, hArg, got, clicked, removed>>
        BY <1>3 DEF webVars, vars, syncVars, handler, history
  <2>2. blocks' = blocks
        BY <2>1 DEF syncVars, store
  <2> QED
      BY <2>1, <2>2, QuietInvNext
      DEF WebInv, BlockPage, BlockRows, RowsOfBlock, LandingPage, NoRequest
<1> QED
    BY <1>1, <1>2, <1>3 DEF SyncedWebNext

LEMMA WebInvariant == SyncedWebSpec => [](QuietInv /\ WebInv)
<1>1. QuietInv /\ WebInv /\ [SyncedWebNext]_webVars => (QuietInv /\ WebInv)'
      BY WebInvNext
<1> QED
    BY <1>1, WebInvInit, PTL DEF SyncedWebSpec

(* The transactions on a block's page are all of one block at that height,  *)
(* and of the block in its heading unless a block was removed since         *)
(* (BlockDetail, which makes its two queries outside of a transaction);     *)
(* they are the whole block, or a part of it when the query has failed.     *)
THEOREM BlockPagesUnmixed == SyncedWebSpec => []BlockPageUnmixed
<1>1. WebInv => BlockPageUnmixed
      BY DEF WebInv, BlockPage, BlockRows, RowsOfBlock, BlockPageUnmixed, Shown
<1> QED
    BY <1>1, WebInvariant, PTL

(* A row of the landing page leads to the block it names, or a block was    *)
(* removed since (the link carries the height only).                        *)
THEOREM BlockLinksKept == SyncedWebSpec => []BlockLinkKept
<1>1. WebInv => BlockLinkKept
      BY DEF WebInv, BlockPage, BlockLinkKept, Shown
<1> QED
    BY <1>1, WebInvariant, PTL

-----------------------------------------------------------------------------
(* The address page *)

(* What the queries have returned is a record with these fields, a page     *)
(* number that was typed or linked to, and a count.                         *)
GotShape ==
    /\ DOMAIN got = DOMAIN Blank
    /\ got.page \in Nat \ {0}
    /\ got.count \in Nat

(* Of the address page.  What it has read as received, less what it has     *)
(* read as sent or would read now, is at most the balance at its beginning, *)
(* until a block is removed: what is sent only grows.                       *)
AddressPage ==
    hArg \in Addr =>
        /\ hpc \in {"sent", "count", "addressTxs", "shown"}
        /\ got.received \in Int /\ got.sent \in Int /\ held \in Int
        /\ hpc = "sent" => removed \/ got.received - Sent(hArg) <= held
        /\ hpc # "sent" => removed \/ got.received - got.sent <= held

LEMMA BlankShape ==
    /\ DOMAIN Blank = {"block", "rows", "page", "count", "received", "sent", "known",
                       "listed", "resolved", "todo", "whole"}
    /\ Blank.page = 1 /\ Blank.count = 0 /\ Blank.received = 0 /\ Blank.sent = 0
BY DEF Blank

(* The syncer keeps it.                                                     *)
LEMMA AddressPageSyncer ==
    ASSUME QuietInv, NonePending, QuietInv', NonePending', [QuietNext]_syncVars,
           IndexerWrites, AddressPage
    PROVE  AddressPage'
<1> SUFFICES ASSUME hArg \in Addr PROVE AddressPage'
    BY DEF AddressPage, IndexerWrites, handler
<1>1. /\ hpc' = hpc /\ hArg' = hArg /\ got' = got /\ held' = held /\ hpc # "none"
      BY DEF AddressPage, IndexerWrites, handler
<1>2. removed => removed'
      BY DEF IndexerWrites
<1>3. RemovesBlock => removed'
      BY <1>1 DEF IndexerWrites
<1>4. PICK a \in Addr : a = hArg
      OBVIOUS
<1>5. hpc = "sent" => removed' \/ got.received - Sent(a)' <= held
  <2> SUFFICES ASSUME hpc = "sent", ~removed' PROVE got.received - Sent(a)' <= held
      OBVIOUS
  <2>1. got.received - Sent(a) <= held
        BY <1>2, <1>4 DEF AddressPage
  <2>2. Sent(a) <= Sent(a)'
        BY <1>3, SentGrows
  <2>3. Sent(a) \in Nat /\ Sent(a)' \in Nat
        BY SpentNow, SpentThen, SumNat DEF SpentFacts
  <2>4. got.received \in Int /\ held \in Int
        BY DEF AddressPage
  <2> QED
      BY <2>1, <2>2, <2>3, <2>4
<1>6. (hArg \in Addr)' /\ hArg' = a
      BY <1>1, <1>4
<1> QED
    BY <1>1, <1>2, <1>5, <1>6 DEF AddressPage

(* A link leads to a page that was counted, or to one before this one.      *)
LEMMA LinkedPages ==
    ASSUME GotShape, NEW page \in Links
    PROVE  /\ page \in Nat \ {0} /\ LastPage \in Nat /\ LastPage > 1
           /\ page <= LastPage \/ page < got.page
<1>1. /\ got.page \in Nat \ {0} /\ got.count \in Nat /\ Window \in Nat \ {0}
      /\ PerPage \in Nat \ {0}
      BY HandlersAssumption DEF GotShape
<1>2. LastPage \in Nat \ {0}
  <2>1. (got.count + PerPage - 1) \div PerPage \in Int
        BY <1>1
  <2> QED
      BY <2>1 DEF LastPage, TotalPages
<1>3. LastPage # 1
      BY DEF Links
<1>4. /\ RangeStart \in Nat \ {0}
      /\ RangeEnd \in Int /\ RangeEnd <= LastPage
      BY <1>1, <1>2 DEF RangeStart, RangeEnd
<1>5. \/ got.page > 1 /\ (page = 1 \/ page = got.page - 1)
      \/ page \in RangeStart..RangeEnd
      \/ got.page < LastPage /\ (page = got.page + 1 \/ page = LastPage)
      BY <1>3 DEF Links, HasPrev, HasNext
<1> QED
    BY <1>1, <1>2, <1>3, <1>4, <1>5

LEMMA GotShapeRequest ==
    ASSUME IsFiniteSet(txs), outs \subseteq txs, GotShape, Request
    PROVE  GotShape'
<1>0. \A page \in Typed : page \in Nat \ {0}
      BY HandlersAssumption
<1>1. ASSUME got' = Blank PROVE GotShape'
      BY <1>1, BlankShape DEF GotShape
<1>2. ASSUME NEW x, NEW f \in DOMAIN Blank \ {"page", "count"},
             got' = [Blank EXCEPT ![f] = x]
      PROVE  GotShape'
      BY <1>2, BlankShape DEF GotShape
<1>3. ASSUME NEW x, NEW f \in DOMAIN Blank \ {"page", "count"},
             got' = [got EXCEPT ![f] = x]
      PROVE  GotShape'
      BY <1>3, BlankShape DEF GotShape
<1>4. ASSUME NEW h, ReadBlock(h) PROVE GotShape'
      BY <1>1, <1>2, <1>4, BlankShape DEF ReadBlock
<1>5. ASSUME NEW page \in Nat \ {0}, CountTxs(page) PROVE GotShape'
  <2>1. PICK count \in {0, Cardinality(txs)} : got' = [Blank EXCEPT !.page = page, !.count = count]
        BY <1>5 DEF CountTxs
  <2>2. count \in Nat
        BY <2>1, FS_CardinalityType
  <2> QED
      BY <2>1, <2>2, BlankShape DEF GotShape
<1>6. CASE ListBlocks
      BY <1>2, <1>6, BlankShape DEF ListBlocks
<1>7. CASE RefreshBlocks \/ BlockTxs \/ AddressTxs \/ ListTxs \/ RefreshTxs
  <2>1. CASE RefreshBlocks
        BY <1>3, <2>1, BlankShape DEF RefreshBlocks, Reads
  <2>2. ASSUME NEW rows, NEW whole, ReadsRows(rows, whole) PROVE GotShape'
        BY <2>2, BlankShape DEF ReadsRows, GotShape
  <2> QED
      BY <1>7, <2>1, <2>2 DEF BlockTxs, AddressTxs, ListTxs, RefreshTxs, ReadsPage
<1>8. CASE (\E h \in Heights : BlockRow(h)) \/ (\E b \in Block : ClickBlock(b))
      BY <1>4, <1>8 DEF BlockRow, ClickBlock
<1>9. CASE (\E t \in Tx : TxRow(t)) \/ Reply
      BY <1>1, <1>9 DEF TxRow, Reply
<1>10. CASE \E a \in Addr, page \in Typed : AddressReceived(a, page)
  <2>1. PICK a \in Addr, page \in Typed :
            got' = [Blank EXCEPT !.page = page, !.received = Received(a)]
        BY <1>10 DEF AddressReceived
  <2> QED
      BY <1>0, <2>1, BlankShape DEF GotShape
<1>11. CASE \E page \in Typed : ListCount(page)
       BY <1>0, <1>5, <1>11 DEF ListCount
<1>12. CASE ListShown /\ \E page \in Links : FollowLink(page)
       BY <1>5, <1>12, LinkedPages DEF FollowLink
<1>13. CASE TxOutputs \/ TxNoInputs \/ TxResolved
       BY <1>13 DEF TxOutputs, TxNoInputs, TxResolved, GotShape
<1>14. CASE TxInputs \/ TxRaw \/ \E o \in Coins : TxResolve(o)
  <2>1. CASE TxInputs
        BY <2>1, BlankShape DEF TxInputs, GotShape
  <2>2. CASE TxRaw
        BY <2>2, BlankShape DEF TxRaw, GotShape
  <2>3. CASE \E o \in Coins : TxResolve(o)
        BY <2>3, BlankShape DEF TxResolve, GotShape
  <2> QED
      BY <1>14, <2>1, <2>2, <2>3
<1>15. CASE AddressSent
       BY <1>3, <1>15, BlankShape DEF AddressSent, Reads
<1>16. CASE AddressCount
  <2>1. Reads("count", TxCount(hArg))
        BY <1>16 DEF AddressCount
  <2>2. TxCount(hArg) \in Nat
        BY InvolvedStored, FS_Subset, FS_CardinalityType DEF TxCount
  <2> QED
      BY <2>1, <2>2, BlankShape DEF GotShape, Reads
<1> QED
    BY <1>6, <1>7, <1>8, <1>9, <1>10, <1>11, <1>12, <1>13, <1>14, <1>15, <1>16
    DEF Request, HandlerStep

LEMMA AddressPageRequest ==
    ASSUME QuietInv, NonePending, QuietInv', NonePending', GotShape, AddressPage, Request
    PROVE  AddressPage'
<1>0. /\ blocks' = blocks /\ txs' = txs /\ outs' = outs
      BY DEF Request, vars, syncVars, store
<1>1. ASSUME hArg' \notin Addr PROVE AddressPage'
      BY <1>1 DEF AddressPage
<1>2. ASSUME hArg \in Addr
      PROVE  hpc \in {"sent", "count", "addressTxs", "shown"} /\ hArg # Nobody
      BY <1>2, HandlersAssumption DEF AddressPage
<1>3. ASSUME hpc' # "none", removed PROVE removed'
      BY <1>3 DEF Request
<1>4. ASSUME hpc # "none", hpc' # "none" PROVE held' = held
      BY <1>4 DEF Request
<1>5. CASE \E a \in Addr, page \in Typed : AddressReceived(a, page)
  <2>1. PICK a \in Addr, page \in Typed : AddressReceived(a, page)
        BY <1>5
  <2>2. /\ hpc = "none" /\ hpc' = "sent" /\ hArg' = a
        /\ got' = [Blank EXCEPT !.page = page, !.received = Received(a)]
        BY <2>1 DEF AddressReceived, Asked
  <2>3. got'.received = Received(a) /\ got'.sent = 0 /\ held' = Received(a) - Sent(a)
        BY <2>2, BlankShape DEF Request, Balance
  <2>4. Sent(a) \in Nat /\ Received(a) \in Nat
        BY SentWithin
  <2>5. Sent(a)' = Sent(a)
    <3>1. SpentCoins(a)' = SpentCoins(a)
          BY <1>0 DEF SpentCoins, Owned, Stored
    <3> QED
        BY <3>1, SpentNow, SpentThen DEF SpentFacts
  <2> QED
      BY <2>2, <2>3, <2>4, <2>5 DEF AddressPage
<1>6. CASE AddressSent /\ hArg \in Addr
  <2>1. /\ hpc = "sent" /\ hpc' = "count" /\ hArg' = hArg
        /\ got' = [got EXCEPT !.sent = Sent(hArg)]
        BY <1>6 DEF AddressSent, Then, Reads
  <2>2. got'.received = got.received /\ got'.sent = Sent(hArg) /\ held' = held
        BY <1>4, <2>1, BlankShape DEF GotShape
  <2>3. PICK a \in Addr : a = hArg
        BY <1>6
  <2>4. Sent(a) \in Nat
        BY SentWithin
  <2> QED
      BY <1>3, <1>6, <2>1, <2>2, <2>3, <2>4 DEF AddressPage
<1>7. CASE (AddressCount \/ AddressTxs) /\ hArg \in Addr
  <2>1. /\ hpc \in {"count", "addressTxs"} /\ hpc' \in {"addressTxs", "shown"} /\ hArg' = hArg
        /\ \/ \E x : got' = [got EXCEPT !.count = x]
           \/ \E rows, whole : got' = [got EXCEPT !.rows = rows, !.whole = whole]
        BY <1>7 DEF AddressCount, AddressTxs, Then, Reads, ReadsPage, ReadsRows
  <2>2. got'.received = got.received /\ got'.sent = got.sent /\ held' = held
        BY <1>4, <2>1, BlankShape DEF GotShape
  <2> QED
      BY <1>3, <1>7, <2>1, <2>2 DEF AddressPage
<1>8. CASE (AddressSent \/ AddressCount \/ AddressTxs) /\ hArg \notin Addr
      BY <1>1, <1>8 DEF AddressSent, AddressCount, AddressTxs, Then
<1>9. CASE ListBlocks \/ (\E h \in Heights : BlockRow(h)) \/ (\E b \in Block : ClickBlock(b)) \/ Reply
      BY <1>1, <1>9, HandlersAssumption, ChainAssumption
      DEF ListBlocks, BlockRow, ClickBlock, ReadBlock, Reply, Asked
<1>10. CASE (\E t \in Tx : TxRow(t)) \/ (\E page \in Typed : ListCount(page))
            \/ (ListShown /\ \E page \in Links : FollowLink(page))
       BY <1>1, <1>10, HandlersAssumption DEF TxRow, Asked, ListCount, FollowLink, CountTxs
<1>11. CASE RefreshBlocks \/ RefreshTxs \/ ListTxs
       BY <1>1, <1>2, <1>11, HandlersAssumption
       DEF RefreshBlocks, RefreshTxs, ListShown, ListTxs, Then
<1>12. CASE BlockTxs \/ TxOutputs \/ TxInputs \/ TxNoInputs \/ TxRaw \/ TxResolved
            \/ \E o \in Coins : TxResolve(o)
       BY <1>1, <1>2, <1>12
       DEF BlockTxs, TxOutputs, TxInputs, TxNoInputs, TxRaw, TxResolved, TxResolve, Then
<1> QED
    BY <1>5, <1>6, <1>7, <1>8, <1>9, <1>10, <1>11, <1>12 DEF Request, HandlerStep

BalanceInv == QuietInv /\ NonePending /\ GotShape /\ AddressPage

LEMMA BalanceInvInit == WebInit => BalanceInv
<1> SUFFICES ASSUME WebInit PROVE BalanceInv
    OBVIOUS
<1>1. QuietInv /\ NonePending
      BY QuietInvInit DEF WebInit, Init, SyncInit, StoreInit, NonePending
<1>2. hArg = Nobody /\ got = Blank
      BY DEF WebInit, HandlerInit
<1>3. AddressPage
      BY <1>2, HandlersAssumption DEF AddressPage
<1>4. GotShape
      BY <1>2, BlankShape DEF GotShape
<1> QED
    BY <1>1, <1>3, <1>4 DEF BalanceInv

LEMMA BalanceInvNext == BalanceInv /\ [SyncedWebNext]_webVars => BalanceInv'
<1> SUFFICES ASSUME BalanceInv, [SyncedWebNext]_webVars PROVE BalanceInv'
    OBVIOUS
<1> USE DEF BalanceInv
<1>1. CASE QuietNext /\ IndexerWrites
  <2>1. QuietInv' /\ NonePending'
        BY <1>1, QuietInvNext, NonePendingNext
  <2>2. GotShape'
        BY <1>1, BlankShape DEF IndexerWrites, handler, GotShape
  <2> QED
      BY <1>1, <2>1, <2>2, AddressPageSyncer
<1>2. CASE Request
  <2>1. UNCHANGED syncVars
        BY <1>2 DEF Request, vars, syncVars
  <2>2. QuietInv' /\ NonePending'
        BY <2>1, QuietInvNext, NonePendingNext
  <2>3. GotShape'
        BY <1>2, FiniteTables, StoredRows, GotShapeRequest
  <2> QED
      BY <1>2, <2>2, <2>3, AddressPageRequest
<1>3. CASE UNCHANGED webVars
  <2>1. UNCHANGED syncVars /\ UNCHANGED <<hpc, hArg, got, held, removed>>
        BY <1>3 DEF webVars, vars, syncVars, handler, history
  <2>2. QuietInv' /\ NonePending'
        BY <2>1, QuietInvNext, NonePendingNext
  <2>3. GotShape'
        BY <2>1, BlankShape DEF GotShape
  <2>4. AddressPage'
    <3> SUFFICES ASSUME hArg \in Addr PROVE AddressPage'
        BY <2>1 DEF AddressPage
    <3>1. PICK a \in Addr : a = hArg
          OBVIOUS
    <3>2. SpentCoins(a)' = SpentCoins(a)
          BY <2>1 DEF syncVars, store, SpentCoins, Owned, Stored
    <3>3. Sent(a)' = Sent(a)
          BY <2>2, <3>2, SpentNow, SpentThen DEF SpentFacts
    <3> QED
        BY <2>1, <3>1, <3>3 DEF AddressPage
  <2> QED
      BY <2>2, <2>3, <2>4
<1> QED
    BY <1>1, <1>2, <1>3 DEF SyncedWebNext

LEMMA BalanceInvariant == SyncedWebSpec => []BalanceInv
BY BalanceInvInit, BalanceInvNext, PTL DEF SyncedWebSpec

(* The balance that a page shows, read in two queries, is at most the one   *)
(* at the beginning of the request, unless a block was removed since.       *)
THEOREM BalancesNotOverstated == SyncedWebSpec => []BalanceNotOverstated
<1>1. BalanceInv => BalanceNotOverstated
      BY DEF BalanceInv, AddressPage, BalanceNotOverstated, Shown
<1> QED
    BY <1>1, BalanceInvariant, PTL

-----------------------------------------------------------------------------
(* The pages of the list *)

OnList == hArg = Nobody /\ hpc \in {"listTxs", "shown"}

(* Lists are asked for without an argument, and nothing else is.            *)
ListAsked ==
    /\ hpc \in {"landing", "listTxs"} => hArg = Nobody
    /\ hArg = Nobody => hpc \in {"none", "landing", "listTxs", "shown"}

(* Of a page of the list, until a block is removed.  The count is at most   *)
(* what is stored; a page that has rows, or was linked to, begins before    *)
(* its end; and what the reader has still to see is behind the page read,   *)
(* or on the page to be read next.                                          *)
ListCounted == OnList /\ ~removed => got.count <= Cardinality(txs)

ListBegins ==
    OnList /\ ~removed =>
        /\ hpc = "shown" /\ got.rows # <<>> => (got.page - 1) * PerPage < Cardinality(txs)
        /\ clicked # NoBlock => got.count = 0 \/ (got.page - 1) * PerPage < got.count

LastRead == IF hpc = "listTxs" THEN got.page - 1 ELSE got.page

ListBehind ==
    /\ OnList /\ ~removed => behind \subseteq After(LastRead)
    /\ ~OnList => behind = {}

ListInv == ListAsked /\ ListCounted /\ ListBegins /\ ListBehind

(* The syncer keeps it: the list only grows.                                *)
LEMMA ListInvSyncer ==
    ASSUME QuietInv, NonePending, QuietInv', NonePending', GotShape, ListInv,
           [QuietNext]_syncVars, IndexerWrites
    PROVE  ListInv'
<1>0. /\ hpc' = hpc /\ hArg' = hArg /\ got' = got /\ clicked' = clicked /\ behind' = behind
      /\ OnList' = OnList
      BY DEF IndexerWrites, handler, OnList
<1>1. ListAsked' /\ (~OnList => behind' = {})
      BY <1>0 DEF ListInv, ListAsked, ListBehind
<1> SUFFICES ASSUME OnList, ~removed' PROVE ListInv'
    BY <1>0, <1>1 DEF ListInv, ListCounted, ListBegins, ListBehind
<1>2. ~removed /\ ~RemovesBlock
      BY <1>0 DEF IndexerWrites, OnList
<1>3. /\ Cardinality(txs) <= Cardinality(txs)'
      /\ \A p \in Nat : After(p) \subseteq After(p)'
      BY <1>2, ListGrows
<1>4. /\ got.page \in Nat \ {0} /\ got.count \in Nat
      /\ Cardinality(txs) \in Nat /\ Cardinality(txs)' \in Nat
      /\ PerPage \in Nat /\ (got.page - 1) * PerPage \in Nat
  <2>1. IsFiniteSet(txs) /\ IsFiniteSet(txs')
        BY ListNow, ListThen DEF ListFacts
  <2>2. Cardinality(txs) \in Nat /\ Cardinality(txs') \in Nat
        BY <2>1, FS_CardinalityType
  <2> QED
      BY <2>2, HandlersAssumption DEF GotShape
<1>5. LastRead \in Nat /\ LastRead' = LastRead
      BY <1>0, <1>4 DEF LastRead
<1>6. ListCounted'
      BY <1>0, <1>2, <1>3, <1>4 DEF ListInv, ListCounted
<1>7. ListBegins'
      BY <1>0, <1>2, <1>3, <1>4 DEF ListInv, ListBegins
<1>8. behind' \subseteq After(LastRead)'
  <2>1. PICK p \in Nat : p = LastRead
        BY <1>5
  <2>2. behind \subseteq After(p)
        BY <1>2, <2>1 DEF ListInv, ListBehind
  <2>3. After(p)' = After(LastRead)'
        BY <1>5, <2>1 DEF After
  <2> QED
      BY <1>0, <1>3, <2>2, <2>3
<1>9. ListBehind'
      BY <1>0, <1>1, <1>8 DEF ListBehind
<1> QED
    BY <1>1, <1>6, <1>7, <1>9 DEF ListInv

(* A link below a page of the list leads to one that begins before its end. *)
LEMMA LinkInside ==
    ASSUME QuietInv, NonePending, GotShape, ListInv, ListShown, ~removed,
           got.rows # <<>>, NEW page \in Links
    PROVE  page \in Nat \ {0} /\ (page - 1) * PerPage < Cardinality(txs)
<1>1. /\ page \in Nat \ {0} /\ LastPage > 1
      /\ page <= LastPage \/ page < got.page
      BY LinkedPages DEF GotShape
<1>2. /\ got.page \in Nat \ {0} /\ got.count \in Nat /\ PerPage \in Nat \ {0}
      /\ Cardinality(txs) \in Nat
  <2>1. IsFiniteSet(txs)
        BY ListNow DEF ListFacts
  <2> QED
      BY <2>1, HandlersAssumption, FS_CardinalityType DEF GotShape
<1>3. OnList /\ hpc = "shown"
      BY DEF ListShown, OnList
<1>4. got.count <= Cardinality(txs) /\ (got.page - 1) * PerPage < Cardinality(txs)
      BY <1>3 DEF ListInv, ListCounted, ListBegins
<1>5. ASSUME NEW x \in Nat, NEW y \in Nat, NEW z \in Nat, x <= y PROVE x * z <= y * z
      BY <1>5
<1>6. LastPage \in Nat \ {0} /\ (LastPage - 1) * PerPage < Cardinality(txs)
  <2>1. /\ LastPage \in Nat \ {0}
        /\ got.count # 0 => (LastPage - 1) * PerPage < got.count
        /\ got.count = 0 => LastPage = 1
        BY <1>2, PageCount DEF LastPage
  <2>2. (LastPage - 1) * PerPage \in Int
        BY <1>2, <2>1
  <2> QED
      BY <1>1, <1>2, <1>4, <2>1, <2>2
<1>7. \A last \in Nat \ {0} : page <= last => (page - 1) * PerPage <= (last - 1) * PerPage
  <2> SUFFICES ASSUME NEW last \in Nat \ {0}, page <= last
               PROVE  (page - 1) * PerPage <= (last - 1) * PerPage
      OBVIOUS
  <2>1. page - 1 \in Nat /\ last - 1 \in Nat /\ page - 1 <= last - 1
        BY <1>1
  <2> QED
      BY <1>2, <1>5, <2>1
<1>8. PICK last \in {LastPage, got.page} : page <= last
      BY <1>1, <1>2, <1>6
<1>9. last \in Nat \ {0} /\ (last - 1) * PerPage < Cardinality(txs)
      BY <1>2, <1>4, <1>6, <1>8
<1>10. /\ (page - 1) * PerPage \in Int /\ (last - 1) * PerPage \in Int
       /\ (page - 1) * PerPage <= (last - 1) * PerPage
       BY <1>1, <1>2, <1>7, <1>8, <1>9
<1> QED
    BY <1>1, <1>2, <1>9, <1>10

(* And pageRange does not fail on a page that is one of those counted.      *)
LEMMA RangeHolds ==
    ASSUME GotShape, got.count = 0 \/ (got.page - 1) * PerPage < got.count
    PROVE  ~RangeFails
<1>1. /\ got.page \in Nat \ {0} /\ got.count \in Nat /\ PerPage \in Nat \ {0}
      /\ Window \in Nat \ {0}
      BY HandlersAssumption DEF GotShape
<1>2. /\ LastPage \in Nat \ {0} /\ got.count <= LastPage * PerPage
      /\ got.count = 0 => LastPage = 1
      BY <1>1, PageCount DEF LastPage
<1>3. LastPage > 1 => got.page <= LastPage
  <2> SUFFICES ASSUME LastPage > 1, ~(got.page <= LastPage) PROVE FALSE
      OBVIOUS
  <2>1. ASSUME NEW x \in Nat, NEW y \in Nat, NEW z \in Nat, x <= y PROVE x * z <= y * z
        BY <2>1
  <2>2. LastPage <= got.page - 1 /\ got.page - 1 \in Nat
        BY <1>1, <1>2
  <2>3. LastPage * PerPage <= (got.page - 1) * PerPage
        BY <1>1, <1>2, <2>1, <2>2
  <2>4. LastPage * PerPage \in Int /\ (got.page - 1) * PerPage \in Int
        BY <1>1, <1>2
  <2> QED
      BY <1>1, <1>2, <2>3, <2>4
<1> QED
    BY <1>1, <1>2, <1>3 DEF RangeFails, RangeStart, RangeEnd

(* A query for another page does not touch what the reader has to see.      *)
LEMMA ListElsewhere ==
    ASSUME ListInv, Request, ~OnList, ~OnList', ListAsked'
    PROVE  ListInv'
<1>1. ~PageRead /\ ~ListShown
      BY DEF PageRead, RefreshTxs, ListShown, OnList, ListInv, ListAsked
<1>2. behind' = {}
      BY <1>1 DEF Request, ListInv, ListBehind
<1> QED
    BY <1>2 DEF ListInv, ListCounted, ListBegins, ListBehind

LEMMA ListCountedNow ==
    ASSUME QuietInv, NonePending
    PROVE  Cardinality(txs) \in Nat
BY ListNow, FS_CardinalityType DEF ListFacts

(* The count of a page that was typed in, or that a link led to.            *)
LEMMA ListInvCount ==
    ASSUME QuietInv, NonePending, GotShape, NoRequest, ListInv, Request,
           NEW page \in Nat \ {0}, CountTxs(page),
           hpc = "none" \/ (ListShown /\ page \in Links)
    PROVE  ListInv'
<1>0. PICK count \in {0, Cardinality(txs)} : got' = [Blank EXCEPT !.page = page, !.count = count]
      BY DEF CountTxs
<1>1. got'.page = page /\ got'.count = count
      BY <1>0, BlankShape
<1>2. /\ hArg' = Nobody /\ hpc' = "listTxs" /\ txs' = txs /\ blocks' = blocks
      /\ txHeight' = txHeight
      BY DEF CountTxs, Request, vars, syncVars, store
<1>3. /\ Cardinality(txs) \in Nat /\ count \in Nat /\ PerPage \in Nat
      /\ (page - 1) * PerPage \in Nat /\ got.page \in Nat \ {0}
      BY <1>0, ListCountedNow, HandlersAssumption DEF GotShape
<1>4. ~PageRead /\ (removed' => removed) /\ (removed => removed')
  <2>1. ~PageRead
    <3>1. hpc' # hpc /\ hpc' # "shown"
          BY <1>2 DEF ListShown
    <3> QED
        BY <3>1 DEF PageRead, RefreshTxs
  <2>2. (removed' => removed) /\ (removed => removed')
        BY <1>2 DEF Request
  <2> QED
      BY <2>1, <2>2
<1>5. ListAsked' /\ OnList'
      BY <1>2 DEF ListAsked, OnList
<1>6. ListCounted'
      BY <1>0, <1>1, <1>2, <1>3 DEF ListCounted
<1>7. ListBegins'
  <2>1. hpc = "none" => clicked' = NoBlock
        BY <1>2 DEF Request, ListShown, NoRequest
  <2>2. ListShown /\ clicked' # NoBlock => got.rows # <<>> /\ page \in Links
        BY <1>2, HandlersAssumption DEF Request, ListShown
  <2>3. ListShown /\ ~removed' /\ clicked' # NoBlock => (page - 1) * PerPage < Cardinality(txs)
        BY <1>4, <2>2, LinkInside
  <2> QED
      BY <1>0, <1>1, <1>2, <1>3, <2>1, <2>3 DEF ListBegins, ListShown
<1>8. ListBehind'
  <2>1. behind' = IF ListShown /\ page = got.page + 1 THEN behind ELSE {}
        BY <1>1, <1>2, <1>4 DEF Request, ListShown
  <2>2. CASE ListShown /\ page = got.page + 1 /\ ~removed'
    <3>1. behind \subseteq After(got.page)
          BY <1>4, <2>2 DEF ListInv, ListBehind, ListShown, OnList, LastRead
    <3>2. LastRead' = got.page
          BY <1>1, <1>2, <1>3, <2>2 DEF LastRead
    <3>3. After(LastRead)' = After(got.page)
          BY <1>2, <3>2
          DEF After, ListedRows, InOrder, RowAt, Before, NewerThan, RowTime, Mined
    <3> QED
        BY <1>5, <2>1, <2>2, <3>1, <3>3 DEF ListBehind
  <2>3. CASE ~(ListShown /\ page = got.page + 1) \/ removed'
        BY <1>5, <2>1, <2>3 DEF ListBehind
  <2> QED
      BY <2>2, <2>3
<1> QED
    BY <1>5, <1>6, <1>7, <1>8 DEF ListInv

(* The rows of the page, read for the first time or by a refresh.           *)
LEMMA ListInvRows ==
    ASSUME QuietInv, NonePending, GotShape, ListInv, Request,
           ReadsPage(Page(ListedRows, got.page, PerPage)),
           hArg = Nobody, hArg' = Nobody, hpc' = "shown",
           \/ hpc = "listTxs"
           \/ RefreshTxs
    PROVE  ListInv'
<1>0. PICK rows, whole :
          /\ ReadsRows(rows, whole)
          /\ \/ rows = Page(ListedRows, got.page, PerPage)
             \/ \E n \in 0..Len(Page(ListedRows, got.page, PerPage)) :
                   rows = SubSeq(Page(ListedRows, got.page, PerPage), 1, n)
      BY DEF ReadsPage
<1>1. /\ got'.page = got.page /\ got'.count = got.count /\ got'.rows = rows
      BY <1>0, BlankShape DEF GotShape, ReadsRows
<1>2. /\ Cardinality(txs) \in Nat /\ got.page \in Nat \ {0}
      /\ txs' = txs /\ blocks' = blocks /\ txHeight' = txHeight
      BY ListCountedNow DEF GotShape, Request, vars, syncVars, store
<1>3. OnList /\ OnList' /\ (removed' => removed) /\ (removed => removed')
      BY DEF OnList, RefreshTxs, ListShown, Request
<1>4. clicked' = clicked
      BY HandlersAssumption DEF Request, RefreshTxs, ListShown
<1>5. ListAsked' /\ ListCounted'
      BY <1>1, <1>2, <1>3 DEF ListInv, ListAsked, ListCounted
<1>6. rows # <<>> => (got.page - 1) * PerPage < Cardinality(txs)
  <2>1. StoreTypeOK /\ RowsBelongToStoredBlock /\ IsFiniteSet(txs)
        BY FiniteTables DEF QuietInv, SyncInv, SyncTypeOK
  <2>2. Page(ListedRows, got.page, PerPage) = <<>> => rows = <<>>
        BY <1>0
  <2> QED
      BY <1>2, <2>1, <2>2, PageByRank
<1>7. ListBegins'
      BY <1>1, <1>2, <1>3, <1>4, <1>6 DEF ListInv, ListBegins
<1>8. ListBehind'
  <2>1. LastRead' = got.page
        BY <1>1 DEF LastRead
  <2>2. After(LastRead)' = After(got.page)
        BY <1>2, <2>1
        DEF After, ListedRows, InOrder, RowAt, Before, NewerThan, RowTime, Mined
  <2>3. PageRead
        BY DEF PageRead
  <2>4. behind' = After(got.page)
        BY <1>1, <2>3 DEF Request
  <2> QED
      BY <1>3, <2>2, <2>4 DEF ListBehind
<1> QED
    BY <1>5, <1>7, <1>8 DEF ListInv

LEMMA ListInvLeave ==
    ASSUME GotShape, NoRequest, ListInv, Request, Reply
    PROVE  ListInv'
<1>1. hpc # "none" /\ hpc' = "none" /\ hArg' = Nobody /\ got' = Blank
      BY DEF Reply
<1>2. ~PageRead
      BY <1>1 DEF PageRead, RefreshTxs
<1>3. got'.page # got.page + 1
      BY <1>1, BlankShape DEF GotShape
<1>4. behind' = {}
      BY <1>1, <1>2, <1>3 DEF Request
<1> QED
    BY <1>1, <1>4 DEF ListInv, ListAsked, ListCounted, ListBegins, ListBehind, OnList

LEMMA ListInvRequest ==
    ASSUME QuietInv, NonePending, GotShape, NoRequest, ListInv, Request
    PROVE  ListInv'
<1>0. ListAsked
      BY DEF ListInv
<1>1. ASSUME hpc \notin {"listTxs", "shown"}, ListAsked', ~OnList' PROVE ListInv'
      BY <1>1, ListElsewhere DEF OnList
<1>2. ASSUME hArg # Nobody, hArg' = hArg, hpc' \notin {"landing", "listTxs"} PROVE ListInv'
      BY <1>2, ListElsewhere DEF OnList, ListAsked
<1>3. CASE ListBlocks \/ RefreshBlocks
      BY <1>0, <1>1, <1>3 DEF ListBlocks, RefreshBlocks, Asked, ListAsked, OnList
<1>4. ASSUME NEW h \in Heights, ReadBlock(h), hpc \in {"none", "landing"} PROVE ListInv'
  <2>1. \/ hpc' = "none" /\ hArg' = Nobody
        \/ hpc' = "blockTxs" /\ hArg' = h
        BY <1>4 DEF ReadBlock
  <2> QED
      BY <1>1, <1>4, <2>1, HandlersAssumption DEF ListAsked, OnList
<1>5. CASE (\E h \in Heights : BlockRow(h)) \/ (\E b \in Block : ClickBlock(b))
      BY <1>4, <1>5, ChainAssumption DEF BlockRow, ClickBlock
<1>6. CASE (\E t \in Tx : TxRow(t)) \/ (\E a \in Addr, page \in Typed : AddressReceived(a, page))
      BY <1>1, <1>6, HandlersAssumption DEF TxRow, AddressReceived, Asked, ListAsked, OnList
<1>7. CASE \E page \in Typed : ListCount(page)
      BY <1>7, ListInvCount, HandlersAssumption DEF ListCount
<1>8. CASE ListShown /\ \E page \in Links : FollowLink(page)
      BY <1>8, ListInvCount, LinkedPages DEF FollowLink, GotShape
<1>9. CASE BlockTxs \/ TxOutputs \/ TxInputs \/ TxNoInputs \/ TxRaw \/ TxResolved
  <2>1. /\ hpc \in {"blockTxs", "outputs", "inputs", "raw", "resolve"} /\ hArg' = hArg
        /\ hpc' \in {"shown", "inputs", "raw", "resolve"}
        BY <1>9 DEF BlockTxs, TxOutputs, TxInputs, TxNoInputs, TxRaw, TxResolved, Then
  <2> QED
      BY <1>0, <1>2, <2>1 DEF ListAsked
<1>10. CASE (\E o \in Coins : TxResolve(o)) \/ AddressSent \/ AddressCount \/ AddressTxs
  <2>1. /\ hpc \in {"resolve", "sent", "count", "addressTxs"} /\ hArg' = hArg
        /\ hpc' \in {"resolve", "count", "addressTxs", "shown"}
        BY <1>10 DEF TxResolve, AddressSent, AddressCount, AddressTxs, Then
  <2> QED
      BY <1>0, <1>2, <2>1 DEF ListAsked
<1>11. CASE ListTxs
  <2>1. hpc = "listTxs" /\ hpc' = "shown" /\ hArg = Nobody /\ hArg' = Nobody
        BY <1>0, <1>11 DEF ListTxs, Then, ListAsked
  <2> QED
      BY <1>11, <2>1, ListInvRows DEF ListTxs
<1>12. CASE RefreshTxs
  <2>1. got.page = 1 /\ hpc' = "shown" /\ hArg = Nobody /\ hArg' = Nobody
        BY <1>12 DEF RefreshTxs, ListShown
  <2>2. ReadsPage(Page(ListedRows, got.page, PerPage))
        BY <1>12, <2>1 DEF RefreshTxs
  <2> QED
      BY <1>12, <2>1, <2>2, ListInvRows
<1>13. CASE Reply
       BY <1>13, ListInvLeave
<1> QED
    BY <1>3, <1>5, <1>6, <1>7, <1>8, <1>9, <1>10, <1>11, <1>12, <1>13 DEF Request, HandlerStep

-----------------------------------------------------------------------------
(* The theorems about lists *)

ReaderInv == BalanceInv /\ NoRequest /\ ListInv

LEMMA ReaderInvInit == WebInit => BalanceInv /\ WebInv /\ ListInv
<1> SUFFICES ASSUME WebInit PROVE BalanceInv /\ WebInv /\ ListInv
    OBVIOUS
<1>1. hpc = "none" /\ hArg = Nobody /\ behind = {}
      BY DEF WebInit, HandlerInit
<1> QED
    BY <1>1, BalanceInvInit, WebInvInit
    DEF ListInv, ListAsked, ListCounted, ListBegins, ListBehind, OnList

LEMMA ListInvNext ==
    BalanceInv /\ BalanceInv' /\ NoRequest /\ ListInv /\ [SyncedWebNext]_webVars => ListInv'
<1> SUFFICES ASSUME BalanceInv, BalanceInv', NoRequest, ListInv, [SyncedWebNext]_webVars
             PROVE  ListInv'
    OBVIOUS
<1>0. /\ QuietInv /\ NonePending /\ GotShape
      /\ QuietInv' /\ NonePending'
      BY DEF BalanceInv
<1>1. CASE QuietNext /\ IndexerWrites
      BY <1>0, <1>1, ListInvSyncer
<1>2. CASE Request
      BY <1>0, <1>2, ListInvRequest
<1>3. CASE UNCHANGED webVars
  <2>1. UNCHANGED <<txs, blocks, txHeight, hpc, hArg, got, clicked, behind, removed>>
        BY <1>3 DEF webVars, vars, store, handler, history
  <2>2. OnList' = OnList /\ After(LastRead)' = After(LastRead)
        BY <2>1
        DEF OnList, LastRead, After, ListedRows, InOrder, RowAt, Before, NewerThan, RowTime, Mined
  <2> QED
      BY <2>1, <2>2 DEF ListInv, ListAsked, ListCounted, ListBegins, ListBehind
<1> QED
    BY <1>1, <1>2, <1>3 DEF SyncedWebNext

LEMMA ReaderInvariant == SyncedWebSpec => []ReaderInv
<1>1. WebInit => ReaderInv
      BY ReaderInvInit DEF ReaderInv, WebInv
<1>2. WebInv => NoRequest
      BY DEF WebInv
<1>3. ReaderInv <=> BalanceInv /\ NoRequest /\ ListInv
      BY DEF ReaderInv
<1> QED
    BY <1>1, <1>2, <1>3, BalanceInvariant, WebInvariant, ListInvNext, PTL DEF SyncedWebSpec

(* Every link below a list that has rows leads to a page with rows, and a   *)
(* page that a link led to has links of its own, until a block is removed:  *)
(* though the count is older than the rows, and both than the table.        *)
THEOREM LinksLead == SyncedWebSpec => []LinksLeadSomewhere
<1>1. ASSUME ReaderInv, ListShown, ~removed, got.rows # <<>>, NEW page \in Links
      PROVE  Page(ListedRows, page, PerPage) # <<>>
  <2>1. page \in Nat \ {0} /\ (page - 1) * PerPage < Cardinality(txs)
        BY <1>1, LinkInside DEF ReaderInv, BalanceInv
  <2>2. StoreTypeOK /\ RowsBelongToStoredBlock /\ IsFiniteSet(txs)
        BY <1>1, FiniteTables DEF ReaderInv, BalanceInv, QuietInv, SyncInv, SyncTypeOK
  <2> QED
      BY <2>1, <2>2, PageByRank
<1>2. ASSUME ReaderInv, ListShown, ~removed, clicked # NoBlock
      PROVE  ~RangeFails
      BY <1>2, RangeHolds DEF ReaderInv, BalanceInv, ListInv, ListBegins, ListShown, OnList
<1>3. ReaderInv => LinksLeadSomewhere
      BY <1>1, <1>2 DEF LinksLeadSomewhere
<1> QED
    BY <1>3, ReaderInvariant, PTL

(* Whoever goes on to the next page misses no transaction, until a block is *)
(* removed: rows only move to later places, and what a page leaves behind   *)
(* it is where the next one begins.  A failing query cuts its own page.     *)
THEOREM NextPageMissesNone == SyncedWebSpec => NextPageSkipsNone
<1> DEFINE Misses ==
               Request /\ PageRead /\ ~removed /\ got'.whole
               => behind \subseteq RowsOf(got'.rows) \cup After(got'.page)
<1>1. ReaderInv /\ [SyncedWebNext]_webVars => [Misses]_webVars
  <2> SUFFICES ASSUME ReaderInv, Request, PageRead, ~removed, got'.whole
               PROVE  behind \subseteq RowsOf(got'.rows) \cup After(got'.page)
      OBVIOUS
  <2>0. /\ GotShape /\ ListInv /\ got.page \in Nat \ {0}
        /\ StoreTypeOK /\ RowsBelongToStoredBlock /\ IsFiniteSet(txs)
        BY FiniteTables DEF ReaderInv, BalanceInv, QuietInv, SyncInv, SyncTypeOK, GotShape
  <2>1. CASE RefreshTxs
    <3>1. got'.page = got.page
          BY <2>0, <2>1, BlankShape DEF RefreshTxs, ReadsPage, ReadsRows, GotShape
    <3>2. behind \subseteq After(got.page)
          BY <2>0, <2>1
          DEF RefreshTxs, ListShown, ListInv, ListBehind, OnList, LastRead
    <3> QED
        BY <3>1, <3>2
  <2>2. CASE hpc = "listTxs" /\ hpc' = "shown"
    <3>1. ListTxs
          BY <2>2
          DEF Request, HandlerStep, ListBlocks, RefreshBlocks, BlockRow, ClickBlock, TxRow,
              AddressReceived, ListCount, FollowLink, ListShown, BlockTxs, TxOutputs, TxInputs,
              TxNoInputs, TxRaw, TxResolved, TxResolve, AddressSent, AddressCount, AddressTxs,
              RefreshTxs, Reply, Asked
    <3>2. got'.rows = Page(ListedRows, got.page, PerPage) /\ got'.page = got.page
          BY <2>0, <2>2, <3>1, BlankShape DEF ListTxs, ReadsPage, ReadsRows, GotShape
    <3>3. behind \subseteq After(got.page - 1)
          BY <2>0, <2>2 DEF ListInv, ListAsked, ListBehind, OnList, LastRead
    <3>4. After(got.page - 1) \subseteq RowsOf(Page(ListedRows, got.page, PerPage))
                                        \cup After(got.page)
          BY <2>0, PageByRank
    <3> QED
        BY <3>2, <3>3, <3>4
  <2> QED
      BY <2>1, <2>2 DEF PageRead
<1> QED
    BY <1>1, ReaderInvariant, PTL DEF SyncedWebSpec, NextPageSkipsNone

-----------------------------------------------------------------------------
(* The transaction page, with both workers running *)

(* The inputs that have been resolved, or are still to be, are inputs of    *)
(* the transaction.                                                         *)
TxPage ==
    hArg \in Tx =>
        /\ got.listed \subseteq InputsOf[hArg]
        /\ got.resolved \subseteq InputsOf[hArg] /\ got.todo \subseteq InputsOf[hArg]

LEMMA TxPageRequest ==
    ASSUME GotShape, TxPage, Request
    PROVE  TxPage'
<1>0. /\ \A h \in Heights : h \notin Tx
      /\ \A a \in Addr : a \notin Tx
      /\ Nobody \notin Tx
      BY HandlersAssumption
<1>1. ASSUME hArg' \notin Tx PROVE TxPage'
      BY <1>1 DEF TxPage
<1>2. ASSUME NEW x, NEW f \in DOMAIN Blank \ {"listed", "resolved", "todo"},
             NEW y, NEW g \in DOMAIN Blank \ {"listed", "resolved", "todo"},
             \/ got' = [got EXCEPT ![f] = x]
             \/ got' = [got EXCEPT ![f] = x, ![g] = y],
             hArg' = hArg
      PROVE  TxPage'
  <2>1. got'.listed = got.listed /\ got'.resolved = got.resolved /\ got'.todo = got.todo
        BY <1>2, BlankShape DEF GotShape
  <2> QED
      BY <1>2, <2>1 DEF TxPage
<1>3. ASSUME got' = got, hArg' = hArg PROVE TxPage'
      BY <1>3 DEF TxPage
<1>4. CASE ListBlocks \/ (\E h \in Heights : BlockRow(h)) \/ (\E b \in Block : ClickBlock(b)) \/ Reply
      BY <1>0, <1>1, <1>4, ChainAssumption
      DEF ListBlocks, BlockRow, ClickBlock, ReadBlock, Reply, Asked
<1>5. CASE \/ \E a \in Addr, page \in Typed : AddressReceived(a, page)
           \/ \E page \in Typed : ListCount(page)
           \/ ListShown /\ \E page \in Links : FollowLink(page)
      BY <1>0, <1>1, <1>5 DEF AddressReceived, Asked, ListCount, FollowLink, CountTxs
<1>6. CASE RefreshBlocks \/ RefreshTxs \/ BlockTxs \/ ListTxs
      BY <1>2, <1>6, BlankShape
      DEF RefreshBlocks, RefreshTxs, BlockTxs, ListTxs, Then, Reads, ReadsPage, ReadsRows
<1>7. CASE AddressSent \/ AddressCount \/ AddressTxs
      BY <1>2, <1>7, BlankShape
      DEF AddressSent, AddressCount, AddressTxs, Then, Reads, ReadsPage, ReadsRows
<1>8. CASE TxOutputs \/ TxNoInputs \/ TxResolved
      BY <1>3, <1>8 DEF TxOutputs, TxNoInputs, TxResolved, Then
<1>9. CASE \E t \in Tx : TxRow(t)
  <2>1. got' = Blank /\ Blank.listed = {} /\ Blank.resolved = {} /\ Blank.todo = {}
        BY <1>9 DEF TxRow, Blank
  <2> QED
      BY <2>1 DEF TxPage
<1>10. CASE TxInputs
  <2>1. PICK ins \in SUBSET InputsOf[hArg] :
            /\ got' = [got EXCEPT !.known = TRUE, !.listed = ins,
                                  !.resolved = {o \in ins : Resolved(o)}]
            /\ hArg' = hArg
        BY <1>10 DEF TxInputs, Then
  <2>2. /\ got'.listed = ins /\ got'.resolved = {o \in ins : Resolved(o)}
        /\ got'.todo = got.todo
        BY <2>1, BlankShape DEF GotShape
  <2> QED
      BY <2>1, <2>2 DEF TxPage
<1>11. CASE TxRaw
  <2>1. CASE /\ got' = [got EXCEPT !.known = TRUE, !.listed = InputsOf[hArg],
                                   !.todo = InputsOf[hArg]]
             /\ hArg' = hArg
    <3>1. /\ got'.resolved = got.resolved /\ got'.todo = InputsOf[hArg]
          /\ got'.listed = InputsOf[hArg]
          BY <2>1, BlankShape DEF GotShape
    <3> QED
        BY <2>1, <3>1 DEF TxPage
  <2> QED
      BY <1>3, <1>11, <2>1 DEF TxRaw, Then
<1>12. CASE \E o \in Coins : TxResolve(o)
  <2>1. PICK o \in got.todo, found \in SUBSET Coins :
            /\ found \subseteq {o}
            /\ got' = [got EXCEPT !.todo = @ \ {o}, !.resolved = @ \cup found]
            /\ hArg' = hArg
        BY <1>12 DEF TxResolve
  <2>2. /\ got'.resolved = got.resolved \cup found /\ got'.todo = got.todo \ {o}
        /\ got'.listed = got.listed
        BY <2>1, BlankShape DEF GotShape
  <2> QED
      BY <2>1, <2>2 DEF TxPage
<1> QED
    BY <1>4, <1>5, <1>6, <1>7, <1>8, <1>9, <1>10, <1>11, <1>12 DEF Request, HandlerStep

(* The fee on such a page.                                                  *)
LEMMA FeeOfInputs ==
    ASSUME TxPage
    PROVE  FeeExact
<1> SUFFICES ASSUME hArg \in Tx
             PROVE  /\ TotalValue(got.resolved) <= ValueIn(hArg)
                    /\ ShownFee <= TrueFee(hArg)
                    /\ got.listed = InputsOf[hArg] =>
                          /\ ShownFee \in {0, TrueFee(hArg)}
                          /\ InputsResolvedAll => ShownFee = TrueFee(hArg)
    BY DEF FeeExact
<1> DEFINE I == InputsOf[hArg]
           R == got.resolved
<1>1. R \subseteq I
      BY DEF TxPage
<1>2. I \in SUBSET Coins /\ IsFiniteSet(I)
      BY LedgerAssumption
<1> HIDE DEF I, R
<1>3. R \in SUBSET Coins /\ IsFiniteSet(R)
      BY <1>1, <1>2, FS_Subset
<1>4. TotalValue(I) = SumOver(Amounts, I) /\ TotalValue(R) = SumOver(Amounts, R)
      BY <1>2, <1>3, TotalIsSum
<1>5. \A o \in I : Amounts[o] \in Nat
      BY <1>2, AmountNat
<1>6. SumOver(Amounts, R) <= SumOver(Amounts, I)
      BY <1>1, <1>2, <1>5, SumMonotone
<1>7. TotalValue(R) <= ValueIn(hArg)
      BY <1>4, <1>6 DEF ValueIn, I
<1>8. InputsResolvedAll /\ got.listed = InputsOf[hArg] => R = I
      BY DEF InputsResolvedAll, R, I
<1>9. R = I => TotalValue(R) = ValueIn(hArg)
      BY DEF ValueIn, I
<1>10. ShownFee = Fee(InputsResolvedAll, TotalValue(R), hArg)
       BY DEF ShownFee, R
<1>11. TotalValue(R) \in Nat /\ ValueIn(hArg) \in Nat /\ ValueOut(hArg) \in Nat
  <2>1. TotalValue(I) \in Nat /\ TotalValue(R) \in Nat
        BY <1>1, <1>2, <1>3, <1>4, <1>5, SumNat
  <2>2. ValueOut(hArg) \in Nat
    <3> DEFINE D == DOMAIN OutputsOf[hArg]
               O == {o \in Coins : o[1] = hArg}
               f == [v \in D |-> <<hArg, v>>]
    <3>1. IsFiniteSet(D)
      <4>1. OutputsOf[hArg] \in Seq([addr : Addr \cup {NoAddr}, amount : Nat])
            BY LedgerAssumption
      <4>2. D = 1..Len(OutputsOf[hArg]) /\ Len(OutputsOf[hArg]) \in Nat
            BY <4>1
      <4> QED
          BY <4>2, FS_Interval
    <3>2. IsFiniteSet({f[v] : v \in D})
      <4> HIDE DEF f
      <4> QED
          BY <3>1, FiniteImage
    <3>3. O \subseteq {f[v] : v \in D}
          BY DEF Coins
    <3>4. O \in SUBSET Coins /\ IsFiniteSet(O)
          BY <3>2, <3>3, FS_Subset
    <3> HIDE DEF O
    <3>5. TotalValue(O) \in Nat
          BY <3>4, TotalIsSum, AmountNat, SumNat
    <3> QED
        BY <3>5 DEF ValueOut, O
  <2> QED
      BY <2>1, <2>2 DEF ValueIn, I
<1>12. ShownFee <= TrueFee(hArg)
       BY <1>7, <1>10, <1>11 DEF Fee, TrueFee
<1>13. InputsResolvedAll /\ R = I => ShownFee = TrueFee(hArg)
       BY <1>9, <1>10 DEF Fee, TrueFee
<1>14. ~InputsResolvedAll => ShownFee = 0
       BY <1>10 DEF Fee
<1> QED
    BY <1>7, <1>8, <1>12, <1>13, <1>14 DEF R

(* A fee and the sum of inputs are never overstated, and a fee is exact or  *)
(* none when all inputs are listed, at any interleaving with both workers:  *)
(* the inputs of a transaction do not change, however they are found        *)
(* (TxDetail), and what a failing query leaves out only lowers the sum.     *)
THEOREM FeesExact == WebSpec => []FeeExact
<1> DEFINE PageInv == Inv /\ IsFiniteSet(txs) /\ GotShape /\ TxPage
<1>1. WebInit => PageInv
  <2> SUFFICES ASSUME WebInit PROVE PageInv
      OBVIOUS
  <2>1. Inv /\ IsFiniteSet(txs)
        BY InvInit, FS_EmptySet DEF WebInit, Init, SyncInit, StoreInit
  <2>2. got = Blank /\ hArg = Nobody
        BY DEF WebInit, HandlerInit
  <2>3. GotShape
        BY <2>2, BlankShape DEF GotShape
  <2>4. TxPage
        BY <2>2, HandlersAssumption DEF TxPage
  <2> QED
      BY <2>1, <2>3, <2>4
<1>2. PageInv /\ [WebNext]_webVars => PageInv'
  <2> SUFFICES ASSUME PageInv, [WebNext]_webVars PROVE PageInv'
      OBVIOUS
  <2>1. [Next]_vars
        BY DEF WebNext, webVars, Request
  <2>2. Inv' /\ IsFiniteSet(txs')
        BY <2>1, InvNext, FiniteTxsNext
  <2>3. CASE Request
    <3>1. outs \subseteq txs
          BY DEF Inv, SyncInv, SyncTypeOK, StoreTypeOK
    <3> QED
        BY <2>2, <2>3, <3>1, GotShapeRequest, TxPageRequest
  <2>4. CASE UNCHANGED handler
    <3>1. hArg' = hArg /\ got' = got
          BY <2>4 DEF handler
    <3> QED
        BY <2>2, <3>1, BlankShape DEF GotShape, TxPage
  <2> QED
      BY <2>3, <2>4 DEF WebNext, IndexerWrites, webVars, handler
<1>3. PageInv => FeeExact
      BY FeeOfInputs
<1> QED
    BY <1>1, <1>2, <1>3, PTL DEF WebSpec
=============================================================================
