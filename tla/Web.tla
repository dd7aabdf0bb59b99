--------------------------------- MODULE Web ---------------------------------
(***************************************************************************)
(* The page handlers over tables that the indexer keeps writing.           *)
(***************************************************************************)
EXTENDS Indexer, Handlers

(* History of the reader, for the properties only.                          *)
VARIABLES
    held,       \* the balance of the address when its page was asked for
    removed,    \* whether a block has been removed since
    clicked,    \* the block or the page number of the link that was followed
    behind      \* the transactions that came after those of the list that is
                \* shown, or was before the link to the next page was followed

history == <<held, removed, clicked, behind>>
webVars == <<vars, handler, history>>

Balance(a) == Received(a) - Sent(a)

RemovesBlock == \E h \in Heights : blocks[h] # NoBlock /\ blocks'[h] = NoBlock

WebInit == Init /\ HandlerInit /\ held = 0 /\ removed = FALSE /\ clicked = NoBlock /\ behind = {}

IndexerWrites ==
    /\ UNCHANGED <<handler, held, clicked, behind>>
    /\ removed' = (removed \/ (hpc # "none" /\ RemovesBlock))

RowsOf(seq) == {seq[i] : i \in DOMAIN seq}

(* The transactions behind a page of the list.                              *)
After(page) == {ListedRows[i] : i \in (page * PerPage + 1)..Cardinality(txs)}

(* A page of the list is rendered, with what the query has returned.        *)
PageRead == RefreshTxs \/ (hpc = "listTxs" /\ hpc' = "shown")

Request ==
    /\ HandlerStep
    /\ UNCHANGED vars
    /\ held' = IF hpc = "none" /\ hArg' \in Addr THEN Balance(hArg')
               ELSE IF hpc' = "none" THEN 0 ELSE held
    /\ removed' = (removed /\ hpc' # "none")
    /\ clicked' =
          IF hpc' = "none" THEN NoBlock
          ELSE IF hpc = "landing" /\ hArg' \in Heights THEN CHOOSE b \in got.rows : Height[b] = hArg'
          ELSE IF ListShown /\ hpc' = "listTxs"
               THEN IF got.rows = <<>> THEN NoBlock ELSE got'.page
          ELSE clicked
    /\ behind' =
          IF PageRead THEN After(got'.page)
          ELSE IF hpc' = hpc \/ (ListShown /\ got'.page = got.page + 1) THEN behind
          ELSE {}

(* Requests while both workers run.                                         *)
WebNext == (Next /\ IndexerWrites) \/ Request

WebSpec == WebInit /\ [][WebNext]_webVars

(* Requests while the syncer runs alone and the daemon reorganises only     *)
(* between its ticks.                                                       *)
SyncedWebNext ==
    \/ QuietNext /\ UNCHANGED <<nodePool, mempool>> /\ IndexerWrites
    \/ Request

SyncedWebSpec == WebInit /\ [][SyncedWebNext]_webVars

-----------------------------------------------------------------------------
(* Properties of the tables as the queries see them *)

(* With the syncer alone, no address has sent more than it has received, not*)
(* even in the middle of a reorganisation or above a gap in the stored      *)
(* blocks: a balance is never negative.  (With the poller it may be: it     *)
(* stores a pending double spend beside the mined one.)                     *)
SpentWithinReceived == \A a \in Addr : Sent(a) <= Received(a)

(* When the stored blocks reach down to height 0, the balance shown for an  *)
(* address is the value of its unspent outputs on that chain.               *)
Unspent(b, a) ==
    {o \in Coins : Owner(o) = a /\ o[1] \in ChainTxs(b)
                   /\ \A t \in ChainTxs(b) : o \notin InputsOf[t]}

BalanceIsUnspent ==
    \A b \in Block :
        (IsLatest(Height[b]) /\ \A h \in 0..Height[b] : blocks[h] = Ancestor[b][h])
        => \A a \in Addr : Balance(a) = TotalValue(Unspent(b, a))

(* The pages of a list, from the first to the last that is counted, hold    *)
(* each row exactly once, pending transactions before all mined ones; and   *)
(* the transactions counted for an address are those that are listed.       *)
PagesPartition ==
    /\ Pages(ListedRows, Cardinality(txs), PerPage) = ListedRows
    /\ \A i, j \in DOMAIN ListedRows :
          ListedRows[i] \in Mined /\ i < j => ListedRows[j] \in Mined
    /\ \A a \in Addr : Pages(AddressRows(a), TxCount(a), PerPage) = AddressRows(a)

-----------------------------------------------------------------------------
(* Properties of a response that several queries made *)

Shown == hpc = "shown"

(* The transactions listed on a block's page are all of one block at that   *)
(* height, and all of that block or none, or a part of it when the query    *)
(* has failed on the way; and unless a block was removed during the request *)
(* it is the block in the heading.                                          *)
BlockPageUnmixed ==
    Shown /\ hArg \in Heights =>
        /\ \E b \in Block :
              /\ Height[b] = hArg
              /\ IF got.whole THEN got.rows \in {{}, TxsOf[b]} ELSE got.rows \subseteq TxsOf[b]
        /\ \/ removed
           \/ got.rows \subseteq TxsOf[got.block] /\ (got.whole => got.rows = TxsOf[got.block])

(* The balance shown is at most what the address held when the request      *)
(* began, however many blocks are stored between its queries: received is   *)
(* read before sent.                                                        *)
BalanceNotOverstated ==
    Shown /\ hArg \in Addr /\ ~removed => got.received - got.sent <= held

(* The links under a list that has rows lead to pages with rows, as long as *)
(* no block is removed, although the count is older than the rows, and the  *)
(* rows may have been refreshed since; and under a page to which such a     *)
(* link led pageRange does not fail.                                        *)
LinksLeadSomewhere ==
    ListShown /\ ~removed =>
        /\ got.rows # <<>> => \A page \in Links : Page(ListedRows, page, PerPage) # <<>>
        /\ clicked # NoBlock => ~RangeFails

(* Whoever goes on to the next page misses no transaction: each one that    *)
(* was behind the page last read, the first time or by a refresh, is on the *)
(* page read now or still behind it, although pages are cut by OFFSET from  *)
(* a list that has grown (TxsPage).  A query that fails on the way loses    *)
(* what it has cut off its own page, and nothing of the next.               *)
NextPageSkipsNone ==
    [][Request /\ PageRead /\ ~removed /\ got'.whole
        => behind \subseteq RowsOf(got'.rows) \cup After(got'.page)]_webVars

(* A row of the landing page links to a block by its height: the page shows *)
(* the block that was clicked, or a block was removed since.                *)
BlockLinkKept ==
    Shown /\ hArg \in Heights /\ clicked # NoBlock => removed \/ got.block = clicked

(* The fee shown, and the sum shown for the inputs, are never above the true*)
(* ones, whatever outputs the poller has deleted since, whichever way the   *)
(* inputs were found, and whichever of them a failing query has returned.   *)
(* When all inputs are listed the fee is the true one or 0, and the true    *)
(* one when all are resolved: 0 for a transaction that creates value        *)
(* (coinbase, coinstake).                                                   *)
TrueFee(t) == IF ValueIn(t) > ValueOut(t) THEN ValueIn(t) - ValueOut(t) ELSE 0

FeeExact ==
    Shown /\ hArg \in Tx =>
        /\ TotalValue(got.resolved) <= ValueIn(hArg)
        /\ ShownFee <= TrueFee(hArg)
        /\ got.listed = InputsOf[hArg] =>
              /\ ShownFee \in {0, TrueFee(hArg)}
              /\ InputsResolvedAll => ShownFee = TrueFee(hArg)
=============================================================================
