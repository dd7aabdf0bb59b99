------------------------------- MODULE Handlers -------------------------------
(***************************************************************************)
(* The page handlers of internal/web/handlers that read the chain tables.  *)
(* A handler makes one query after the other, with no transaction around   *)
(* them: the indexer may write between any two.  One request at a time is  *)
(* modelled, since requests do not change what others read.                *)
(***************************************************************************)
EXTENDS Ledger, Sequences

CONSTANTS
    PerPage,    \* transactions.per_page
    Window,     \* how many pages pagination.html links to on each side
    Recent,     \* how many blocks the landing page lists
    Typed,      \* bound: the values of ?page= that are typed in
    Requested,  \* bound: the heights, transactions and addresses asked for, and
                \* Nobody for the lists
    Nobody      \* no argument

(* The route tells what is asked for.                                       *)
ASSUME HandlersAssumption ==
    /\ PerPage \in Nat \ {0} /\ Window \in Nat \ {0} /\ Recent \in Nat
    /\ Typed \subseteq Nat \ {0}
    /\ Heights \cap Tx = {} /\ Heights \cap Addr = {} /\ Tx \cap Addr = {}
    /\ Nobody \notin Heights \cup Tx \cup Addr

VARIABLES
    hpc,    \* the query the handler makes next; "none", or when the page is
            \* rendered "shown", and "landing" for the landing page
    hArg,   \* the height, transaction or address of the request
    got     \* what its queries have returned

handler == <<hpc, hArg, got>>

Blank == [block |-> NoBlock, rows |-> <<>>, page |-> 1, count |-> 0,
          received |-> 0, sent |-> 0, known |-> FALSE, listed |-> {}, resolved |-> {},
          todo |-> {}, whole |-> FALSE]

HandlerInit == hpc = "none" /\ hArg = Nobody /\ got = Blank

Then(pc) == hpc' = pc /\ UNCHANGED hArg
Reads(field, value) == got' = [got EXCEPT ![field] = value]

(* The rows of a list of transactions, and whether the query ended without  *)
(* an error.  scanTxRows returns what it has read with rows.Err(), and the  *)
(* handlers render that: they log the error, or drop it.                    *)
ReadsRows(rows, whole) == got' = [got EXCEPT !.rows = rows, !.whole = whole]

ReadsPage(rows) ==
    \/ ReadsRows(rows, TRUE)
    \/ \E n \in 0..Len(rows) : ReadsRows(SubSeq(rows, 1, n), FALSE)

Asked(arg, pc) == hpc = "none" /\ arg \in Requested /\ hArg' = arg /\ hpc' = pc

(* The reader leaves the page; also http.Error after a failing first query. *)
Reply ==
    /\ hpc # "none"
    /\ hpc' = "none" /\ hArg' = Nobody /\ got' = Blank

-----------------------------------------------------------------------------
(* The landing page, and /_partial/latest-blocks every ten seconds: one     *)
(* query, for the highest blocks, from the top down.  When it fails on the  *)
(* way, what it has read so far is rendered.                                *)
StoredHeights == {h \in Heights : blocks[h] # NoBlock}

NewestBlocks(n) ==
    {blocks[h] : h \in {g \in StoredHeights :
                           Cardinality({f \in StoredHeights : f > g}) < n}}

RecentBlocks == {NewestBlocks(n) : n \in 0..Recent}

ListBlocks ==
    /\ Asked(Nobody, "landing")
    /\ \E rows \in RecentBlocks : got' = [Blank EXCEPT !.rows = rows]

RefreshBlocks ==
    /\ hpc = "landing"
    /\ UNCHANGED <<hpc, hArg>>
    /\ \E rows \in RecentBlocks : Reads("rows", rows)

-----------------------------------------------------------------------------
(* A slip: the block before the one asked for.                              *)
BlockBefore(h) == IF h > 0 THEN blocks[h - 1] ELSE blocks[h]

BlockByHeight(h) == blocks[h]

(* BlockDetail.  A missing block is answered by NotFound; an error of the   *)
(* second query is dropped, whatever it has read by then.                   *)
ReadBlock(h) ==
    IF BlockByHeight(h) = NoBlock THEN hpc' = "none" /\ hArg' = Nobody /\ got' = Blank
    ELSE hpc' = "blockTxs" /\ hArg' = h /\ got' = [Blank EXCEPT !.block = BlockByHeight(h)]

BlockRow(h) == hpc = "none" /\ h \in Requested /\ BlockByHeight(h) # NoBlock /\ ReadBlock(h)

(* A row of the landing page links to the block by its height.              *)
ClickBlock(b) == hpc = "landing" /\ b \in got.rows /\ ReadBlock(Height[b])

(* A slip: block_height >= ?, as in DeleteBlocksFrom.                       *)
FromBlock(h) == {t \in Mined : txHeight[t] >= h}

InBlock(h) == {t \in Mined : txHeight[t] = h}

BlockTxs ==
    /\ hpc = "blockTxs"
    /\ Then("shown")
    /\ \/ ReadsRows(InBlock(hArg), TRUE)
       \/ \E rows \in SUBSET InBlock(hArg) : ReadsRows(rows, FALSE)

-----------------------------------------------------------------------------
(* TxDetail: the row, its outputs, its inputs; and when there are none, the *)
(* inputs as the daemon gives them, each looked up in the outputs of the    *)
(* transaction it spends.                                                   *)
TxRow(t) ==
    /\ Asked(t, "outputs")
    /\ t \in txs
    /\ got' = Blank

TxOutputs == hpc = "outputs" /\ Then("inputs") /\ UNCHANGED got

(* InputsFor also returns what it has read together with rows.Err(), and    *)
(* TxDetail goes on with that: some of the inputs pass for all of them.     *)
TxInputs ==
    /\ hpc = "inputs"
    /\ hArg \in txs
    /\ Then("shown")
    /\ \E ins \in SUBSET InputsOf[hArg] :
          /\ ins # {} \/ InputsOf[hArg] = {}
          /\ got' = [got EXCEPT !.known = TRUE, !.listed = ins,
                                !.resolved = {o \in ins : Resolved(o)}]

(* The rows have gone since, or the query fails before the first one.       *)
TxNoInputs == hpc = "inputs" /\ Then("raw") /\ UNCHANGED got

TxRaw ==
    /\ hpc = "raw"
    /\ \/ Then("shown") /\ UNCHANGED got
       \/ /\ Then("resolve")
          /\ got' = [got EXCEPT !.known = TRUE, !.listed = InputsOf[hArg],
                                !.todo = InputsOf[hArg]]

(* OutputsFor finds the output, or has none, or fails.                      *)
TxResolve(o) ==
    /\ hpc = "resolve"
    /\ o \in got.todo
    /\ \E found \in SUBSET ({o} \cap Stored) :
          got' = [got EXCEPT !.todo = @ \ {o}, !.resolved = @ \cup found]
    /\ UNCHANGED <<hpc, hArg>>

TxResolved == hpc = "resolve" /\ got.todo = {} /\ Then("shown") /\ UNCHANGED got

(* A slip: the sum is taken as complete as soon as the inputs are listed.    *)
InputsListed == got.known

(* Of the inputs that are listed.  A coinbase has one, without a value,     *)
(* that counts as resolved.                                                 *)
InputsResolvedAll == got.known /\ got.resolved = got.listed

ShownFee == Fee(InputsResolvedAll, TotalValue(got.resolved), hArg)

-----------------------------------------------------------------------------
(* AddressDetail: AddressSummary is three queries, then one page of rows.   *)
AddressReceived(a, page) ==
    /\ Asked(a, "sent")
    /\ got' = [Blank EXCEPT !.page = page, !.received = Received(a)]

AddressSent == hpc = "sent" /\ Then("count") /\ Reads("sent", Sent(hArg))

(* A slip: the count is read together with a fresh sum of what was received. *)
AddressCountAndReceived ==
    /\ hpc = "count"
    /\ Then("addressTxs")
    /\ got' = [got EXCEPT !.count = TxCount(hArg), !.received = Received(hArg)]

AddressCount == hpc = "count" /\ Then("addressTxs") /\ Reads("count", TxCount(hArg))

AddressTxs ==
    /\ hpc = "addressTxs"
    /\ Then("shown")
    /\ ReadsPage(Page(AddressRows(hArg), got.page, PerPage))

-----------------------------------------------------------------------------
(* Transactions: the count, 0 when it fails, then the page, or the rows it  *)
(* had when it failed.                                                      *)
CountTxs(page) ==
    /\ hArg' = Nobody /\ hpc' = "listTxs"
    /\ \E count \in {0, Cardinality(txs)} :
          got' = [Blank EXCEPT !.page = page, !.count = count]

ListCount(page) == hpc = "none" /\ Nobody \in Requested /\ CountTxs(page)

ListTxs ==
    /\ hpc = "listTxs"
    /\ Then("shown")
    /\ ReadsPage(Page(ListedRows, got.page, PerPage))

ListShown == hpc = "shown" /\ hArg = Nobody

(* /_partial/latest-tx: every ten seconds, on the first page only.          *)
RefreshTxs ==
    /\ ListShown /\ got.page = 1
    /\ UNCHANGED <<hpc, hArg>>
    /\ ReadsPage(Page(ListedRows, 1, PerPage))

(* The links under the list: the first page and the previous one, those     *)
(* around it, the next and the last.  Far beyond the last page pageRange    *)
(* makes a slice of negative capacity, and the template ends there.         *)
LastPage == TotalPages(got.count, PerPage)
HasPrev == got.page > 1
HasNext == got.page < LastPage

RangeStart == IF got.page > Window THEN got.page - Window ELSE 1
RangeEnd == IF got.page + Window > LastPage THEN LastPage ELSE got.page + Window
RangeFails == LastPage > 1 /\ RangeEnd + 1 < RangeStart

Links ==
    IF LastPage = 1 THEN {}
    ELSE (IF HasPrev THEN {1, got.page - 1} ELSE {})
         \cup ((RangeStart..RangeEnd) \ {got.page})
         \cup (IF HasNext THEN {got.page + 1, LastPage} ELSE {})

FollowLink(page) == ListShown /\ page \in Links /\ CountTxs(page)

HandlerStep ==
    \/ ListBlocks \/ RefreshBlocks
    \/ \E h \in Heights : BlockRow(h)
    \/ \E b \in Block : ClickBlock(b)
    \/ \E t \in Tx : TxRow(t)
    \/ \E a \in Addr, page \in Typed : AddressReceived(a, page)
    \/ \E page \in Typed : ListCount(page)
    \/ BlockTxs \/ TxOutputs \/ TxInputs \/ TxNoInputs \/ TxRaw \/ TxResolved
    \/ \E o \in Coins : TxResolve(o)
    \/ AddressSent \/ AddressCount \/ AddressTxs \/ ListTxs \/ RefreshTxs
    \/ (ListShown /\ \E page \in Links : FollowLink(page))
    \/ Reply
=============================================================================
