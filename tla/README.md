# A specification of taler-explorer

taler-explorer is one Go process that follows a Taler daemon over JSON-RPC,
keeps what it learns in one SQLite file, and serves web pages from that file.
This directory holds TLA+ modules that model its parts, TLC configurations
that check them on small instances, and proofs that TLAPS checks for all
values of the constants. Paths below are relative to the repository root.

1. [The system](#the-system) – inventory of its parts, and what is hard in them
2. [The modules](#the-modules) – which models what, and how it corresponds to the code
3. [The runs](#the-runs) – what is checked, on which instances
4. [Fairness](#fairness)
5. [What is proved](#what-is-proved)
6. [Findings](#findings)
7. [What is left out](#what-is-left-out)
8. [The plan](#the-plan)
9. [How to run it](#how-to-run-it)

## The system

    Taler daemon <--RPC--  Syncer, Mempool, Peers, Stats      (internal/indexer)
    exchange     <--HTTP-- price worker                       (internal/prices)
    ip service   <--HTTP-- GeoIP resolver                     (internal/geoip)
                              |  write
                           SQLite, one connection             (internal/store)
                              |  read
    browser      <--HTTP-- page handlers                      (internal/web)
      app.js: translation, refresh, charts

`main.go` starts five workers as goroutines, each with a ticker of its own,
and the HTTP server. They share nothing but the database (and the GeoIP
resolver, whose state is a table, too). The database has **one** connection
(`store.go`), so every statement and every explicit transaction is atomic; but
hardly any worker wraps a whole operation in a transaction, and no handler
does. At shutdown only the HTTP server is waited for: a worker is cut off
wherever it is, and SQLite rolls an open transaction back.

| Part | State | Operations | What makes it correct |
|---|---|---|---|
| Block syncer, `indexer/syncer.go` | none between ticks; in a tick `start`, `end`, `h`, the fetched block | a tick: two heights, reorg walk, up to 50 blocks | one chain is stored, complete; no row of an abandoned fork survives; it catches up |
| Mempool poller, `indexer/mempool.go` | in a poll: the snapshot | existence check, fetch, upsert, prune | mined rows are left alone; what left the mempool disappears; what stays is listed |
| Chain tables, `store/{blocks,txs}.go`, `schema.sql` | `blocks`, `txs`, `tx_outputs`, `tx_inputs` | upserts, deletions by cascade, queries | rows belong to their block; sums agree with unspent outputs; pages partition the rows |
| Page handlers, `web/handlers` | none between requests; the page in the browser | sequences of queries, partial refreshes, links | a page read while the tables change is not wrong in a misleading way; its links, followed later, lead where they said |
| Peers worker, `indexer/peers.go`, `store/peers.go` | table `peers`; `firstRun` | getpeerinfo, resolve, merge, prune, scrub | nothing known is erased; what is listed is kept; the table stays bounded |
| GeoIP, `geoip/geoip.go` | table `geoip_cache` | look up, ask, store | entries heal; callers do not harm each other |
| Stats worker, `indexer/stats.go` | table `stats_snapshots`; `lastSupply`, `lastSupplyAt` | poll, insert, trim | the header stays fresh; a supply is not lost; heavy calls are spaced |
| Price worker, `prices/prices.go` | table `price_snapshots` | fetch, insert, trim | a price is shown again; the table stays bounded |
| Translation, `app.js`, `layout.html` | localStorage; per page `currentLang`, `currentCatalog` | load, choose, fetch | the page is in the selected language and not in an outdated catalog |
| Refresh, `app.js` | per page: stashed triggers | pause, resume | hidden pages are quiet, visible ones refresh |
| Charts, `app.js` | per page: the last series, the chart | answer of a series, swap of the tiles | the chart is in the tile that is shown, and of the last series |
| RPC client, configuration, templates, formatting, router | – | – | see [What is left out](#what-is-left-out) |

What is hard in it:

* **Interleaving.** The syncer and the poller write the same rows without a
  common transaction; the poller waits for an RPC between looking for a row and
  writing it. Two callers of the GeoIP resolver miss the cache for one address.
  Tabs of several builds write one localStorage.
* **A moving environment.** The daemon reorganises between any two calls. A
  tick reads its height once and works on it for up to 50 blocks.
* **Torn reads.** A page is three or four queries; a reorganisation or a
  pruning fits between any two of them. The page then stays open: its rows are
  refreshed under a pagination that is not, and its links carry heights and page
  numbers, which mean something else once the tables have changed.
* **Partial failure.** Any call may fail; some failures end a poll, others are
  logged, others are read as "no row".
* **Something must happen in the end**: catching up, dropping, forgetting,
  healing, refreshing – in spite of all that.

`PROJECT.json` lists each hazard at its line, with the properties that would
show it going wrong, or with the reason why no property covers it.

## The modules

    ChainNode        the daemon's tree of blocks        Snapshots   a table by timestamp
       |                                                   |
    TxStore          the tables, one operator           Telemetry   stats + prices + header
       |        \        per statement                     |
    Syncer     Mempool      Ledger   the queries        TelemetryProofs, SupplyCalls
       |    \     |            |
       |     Indexer        Handlers                    GeoIP
       |     both workers      |                           |
       |        \              |                        Peers -> Network -> NetworkProofs
       |          ------->   Web   pages over
    Seams: torn ticks     |  moving tables              Tabs -> I18n ----\
       |                  |                                |--> Polling --> Page -> PageProofs
    SyncerProofs          |                                |
       |                  |                                |
    IndexerProofs -> LedgerProofs -> WebProofs             \--> Charts ---/
                          |
                     FiniteFacts  sums, ranks        ChainIndex: the abstract stack of blocks

`MCSyncer`, `MCSeams`, `MCIndexer`, `MCWeb`, `MCNetwork` and `MCPage` give the
constants their values for TLC. Operators marked "a slip" in a comment are the
mutants: each is a plausible bug of the definition that follows it, is used by no
specification, and shows that some property notices the bug.

### Daemon and tables: `ChainNode`, `TxStore`

The daemon is external. It has a tree of blocks, given by the constants
`Height`, `Ancestor` and `TxsOf`, and a `tip` that may jump to any block at any
time, lower ones included. `getblockhash h` is `Ancestor[tip][h]`.
`ChainAssumption` says that the blocks form a tree and that a chain contains a
transaction once; proofs rest on nothing else about the daemon.

`TxStore` has one operator per writing statement of `store/blocks.go` and
`store/txs.go`. `blocks[h]` is the row at height `h` (the height is the primary
key); `txs` and `txHeight` are the rows of transactions and their
`block_height` (`Null` is SQL's NULL, a mempool row); `outs` says whose outputs
are stored. The outputs are apart from the row because `PruneMempool` deletes
them by a statement of its own; the inputs always follow the row (cascade) and
need no variable. `txOld` marks the rows older than the seven-day cutoff.

### `Syncer`, `Seams`

One action per RPC or database call of a tick: `SyncBegin` (both heights, the
backfill, the bound on a tick), `SyncWalk` and `SyncDelete` (a round of
`reorgBackIfNeeded`), `SyncWalkedPast`, `SyncFetch`, `SyncPersist` (one
transaction for a block and its transactions), `SyncFail` (any call fails at any
place). `GetBlockCount` and `LatestHeight` are one step: the first returns the
height of `tip`, the second is not changed by anybody else, and between them
nothing is decided. `QuietSpec` is the same under the premise that the daemon
reorganises between ticks only; `SyncSpec` has no such premise.

`ChainIndex` is the abstract specification: a stack of blocks, pushed above all
others with all transactions, popped from the top with all of its own.
`UsedAsAStack` says that the syncer implements it (`where <- txHeight`).

A stack may hold blocks of two forks one above the other, and the one of the
code can: a tick compares once, before its ingest loop, and nothing looks at
`prev_hash` later. `Seams` adds a history variable, `torn`: in the tick that is
running the daemon has moved to a tip that is not above its old one.
`SeamsOnlyByReorg` says that this is the only origin of a seam: every other tick
stores a block above an ancestor of its own, whatever gap or seam earlier ticks
left. Nothing in `Syncer` reads `torn`.

A tick looks at the stored chain only when `start <= nodeHeight`, that is, when
the daemon is *higher* than the index; a reorganisation to a chain of the same
height is noticed when that chain grows. The second part of `CatchesUp` is
about that: when no tick runs and the daemon is higher than all that is stored,
its tip gets stored, or the daemon leaves it. The instances therefore have forks of
at least two blocks, so that a walk really happens.

### `Mempool`, `Indexer`

The poll, one action per call: snapshot, existence check (`MempoolSkip`,
`MempoolLookup`), `MempoolGet`, `MempoolPut`, then `PruneSelect`,
`PruneOutputs` and `PruneTx` for each selected transaction, `PruneExpired`.
With `ReadsFail` the existence check may fail and be read as "no row". The
daemon runs with `-txindex` and so also answers for a transaction that has been
mined since. That `rows.Err()` is not looked at after the SELECT of
`PruneMempool` is not modelled. A week goes by only between two polls, since a
poll is a matter of seconds.

`Indexer` composes the syncer, the poller, a daemon whose mempool follows its
tip (transactions of disconnected blocks return to it), and `Restart`, which
drops what both workers were doing. With the poller the stack is lossy: a mined
transaction may cease to be listed (`UsedAsALossyStack`, `Index!LossySpec`) –
the two findings below are how – but nothing worse happens.

### `Ledger`, `Handlers`, `Web`

`Ledger` translates the queries: the sums of `AddressSummary` (with the join that
counts an output twice when two stored transactions spend it), `InputsFor`, the
fee of `TxDetail`, `ORDER BY`, `LIMIT`/`OFFSET` and the number of pages. A
sorted result is stated by what sorting means: at each place stands the row
that has as many others before it (`RowAt`, `InOrder`).
`LedgerAssumption` says that each chain is a valid ledger – an input spends an
output created on the chain, not above it, and no output is spent twice – that
blocks are finite, and that txids are different and ordered. Amounts are whole
numbers (the float64 sums of the code are not about rounding here), and time in
`MCWeb` is the height.

`Handlers` has one action per query of `BlockDetail`, `TxDetail` (with its
fallback to the daemon), `AddressDetail`, `Transactions` and the landing page;
an error that the code drops is an outcome of its own. `scanTxRows`,
`RecentBlocks` and `InputsFor` return the rows they have read together with
`rows.Err()`, and the handlers log that error, or drop it, and render the rows:
so a page may also hold the first rows of its result (`ReadsPage`), the page of
a block some of its transactions (`BlockTxs`), the page of a transaction some of
its inputs (`TxInputs`; the fallback is for none). `got.whole` remembers whether
the query of the rows ended without an error, `got.listed` which inputs were
returned; `InputsResolvedAll` compares with `got.listed`, as the code does, and
not with the inputs the transaction has. One request at a time is
modelled, as requests do not change what others read; `got` is what its queries
have returned, and then the page in the browser. What can be done with that
page is modelled, too: the refresh of its rows (`RefreshBlocks`, `RefreshTxs`),
a click on a row of the landing page (`ClickBlock`, a link by height), and a
link under the list of transactions (`FollowLink`; `Links` is `pageRange` with
the first, previous, next and last page of `pagination.html`, and `RangeFails`
is where `pageRange` makes a slice of negative capacity). `Web` lets the
indexer write between any two of these steps; its variables `held`, `removed`,
`clicked` and `behind` are history, for the properties only.

### `GeoIP`, `Peers`, `Network`

A row of `peers` has the set of fields that are known and an age. What the
daemon tells only after the handshake is one field (`"height"`), the place is two
(`"country"`, `"coords"`); the merge of `UpsertPeers` (`COALESCE`/`CASE`) is a
union. Ages replace the clock: `Tick` makes rows and a running poll older. The
cutoff of the pruning and the window of the page are the same number because
`main.go:91` and the handler take both from `network.history_hours`. Worker and
page read the age of a row at their statement; that the code computes a cutoff a
moment before it uses it is not represented. `GeoIP`
keeps its cache read, HTTP answer and cache write apart, so that the worker and
a request (`fetchSelfPeers`) may overlap. The initial tables may hold what older
releases left: rows of local addresses, entries without coordinates.

### `Snapshots`, `Telemetry`

`stats_snapshots` and `price_snapshots` are one module, instantiated twice: rows
by age. Of a stats snapshot the supply is kept, and whether the other readings
were all taken; of a price, whether it is above zero: `strNum` reads a price that
is null or empty as 0, and it is stored. Polls, trims and failures are actions; `PollTime`
bounds how old a poll can get, which the RPC timeouts do in the code. `readAll`
says whether the light calls of a poll have all succeeded: a reading whose call failed is stored as zero (`"unread"`). `gettxoutsetinfo` fails,
returns a supply, or succeeds with a total of zero, which is remembered like any
other (`TakeSupply`). The exchange stamps its answers with a
time of its own or with none, and its clock may be ahead: ages of the price
table count from `Ahead` ticks in the future. The tiles of the header are
`Stale`, `SupplyShown`, `ReadingsShown`, `PriceAvailable` and
`MarketCapAvailable`, which needs a supply and a price above zero. `SupplyCalls` adds to `Telemetry`
the age of the last call of `gettxoutsetinfo`, for one property.

### `Tabs`, `I18n`, `Polling`, `Charts`, `Page`

A catalog is a language and the build its strings come from. The server may be
upgraded while pages are open and is never downgraded; English needs no catalog.
`Page` has one action per task of a tab: the script in the head, `app.js`,
`DOMContentLoaded`, a choice, an answer, a swap, a change of visibility. htmx is
external: it starts the intervals of what has a trigger, and reads triggers
again when it is told to process an element.

`Charts` is the chart of the price. Its series is polled by an element of the
layout and the tiles by another, so swaps and series come in any order; a swap
throws away the canvas of the chart but not `pricePlot`. Each action ends with
`renderPriceInto`, as both callbacks of the code do. The chart of the hashrate
is the same code without the case of a missing tile.

## The runs

"Pass" means that TLC explores every reachable state of the instance.

| Run | Specification | Instance | Properties |
|---|---|---|---|
| `syncer` | `FairSeamSpec` | 11 blocks in three forks (one branching off another), height 4, 2 blocks per tick, backfill 1 | `SyncTypeOK`, `RowsBelongToStoredBlock`, `UsedAsAStack`, `SeamsOnlyByReorg`, `TicksEnd`, `CatchesUp` |
| `indexer` | `FairSpec` | 7 blocks in two forks of 3, one transaction in both forks and in the mempool, one in a block only | `TypeOK`, `RowsBelongToStoredBlock`, `PruneSparesMined`, `UsedAsALossyStack`, `DropsDeparted`, `ShowsPending` |
| `ledger` | `SyncedWebSpec` | a tree of the same shape; a double spend across the forks, a coinstake, two addresses; a block of two transactions; pages of two rows, links to one page on each side, pages 1 and 6 typed in, two blocks on the landing page | `OneChain`, `BlocksComplete`, `ReorgKeepsAgreed`, `SpentWithinReceived`, `BalanceIsUnspent`, `BlockPageUnmixed`, `BalanceNotOverstated`, `LinksLeadSomewhere`, `BlockLinkKept`, `NextPageSkipsNone` |
| `pages` | `WebSpec` | 5 blocks in two forks of 2, the poller at work, pages of two rows | `PagesPartition`, `FeeExact` |
| `network` | `FairNetSpec` | a public peer that shares its address with the daemon, a local one, worker and one request, window 1, one restart | `NetTypeOK`, `NothingErased`, `ListedLeavesByAge`, `Forgotten`, `Heals` |
| `telemetry` | `FairTeleSpec` | windows 1 (stats) and 0 (prices), supply interval 2, stale after 1, a clock one tick ahead, one restart | `TeleTypeOK`, `SupplyNotLost`, `Refreshed`, `AnswersShown`, `ZerosPass`, `TablesTrimmed` |
| `frontend` | `PageSpec` | two tabs, two languages, one upgrade, the chart of one tab | `PageTypeOK`, `NotOutdated`, `HiddenIsQuiet`, `ResumesPolling`, `ChartCurrent` |
| `reorg_gap`, `demotion`, `lost_outputs`, `supply_calls`, `language` | no fairness | as above, smaller | one property each, violated: see [Findings](#findings) |

What they show:

* `syncer`: with reorganisations at *any* moment and any call failing, no row
  outlives its block, no block is ever overwritten (the `ON CONFLICT` of
  `UpsertBlock` never fires on another block), no tick can be kept busy for ever
  by a daemon that reorganises again and again, and once the daemon settles the
  index reaches its height, and stores its tip as soon as that is higher than
  what is stored (`CatchesUp`). What is *not* true then is that the stored blocks
  lie on one chain – a tick may store `a1` and then `b2`. That takes a
  reorganisation in the middle of that tick (`SeamsOnlyByReorg`).
* `ledger`: with reorganisations between ticks only, the stored blocks are one
  chain, complete, and a walk removes only what the daemon has abandoned; a
  balance is never negative and, when nothing is missing, is the value of the
  unspent outputs. A page that was read while blocks were added errs on the
  safe side: `received` is read before `sent`, the count before the rows. Its
  links stay good as long as no block is removed: they lead to pages with rows
  although rows are refreshed and counts are not, a block is found under its
  height, and whoever goes on to the next page misses nothing, since the list
  grows at its front and `OFFSET` moves old rows to later pages only. A query
  that fails on the way makes that page short and says so nowhere: what it has
  cut off is missed (`got'.whole` in `NextPageSkipsNone`), what is on the next
  page is not, and what is listed for a block is a part of it and nothing else
  (`BlockPageUnmixed`). `NextPageSkipsNone` needs the syncer alone: with the poller a pending transaction may
  move, when its block comes, from a page the reader has not seen to one that
  lies behind, and no property is claimed there.
* `indexer`: the poller never deletes a mined row, although it deletes by txid
  what it selected steps ago; departed transactions disappear and lasting ones
  are listed – for a week without interruption, after that on and off, since
  each poll adds what it then prunes for its age (`ShowsPending`).
* `pages`: pagination partitions the rows even while pending and mined ones
  mix, and neither the fee nor the sum of the inputs is ever overstated –
  although the poller may have deleted outputs it needs, and a failing query may
  have returned some of the inputs. When all inputs are listed, a fee that is
  shown is exact (`FeeExact`); when some are missing it may be too low.
* `telemetry`: a supply once fetched stays shown; zeros put in the table by
  failing calls, or by a restart that forgot the supply, pass once the daemon
  answers again (`ZerosPass`), whatever was stored meanwhile, and with them the
  missing market capitalisation, when the exchange gives prices again; and an exchange
  that keeps answering is shown in the end, whether its clock is late, ahead or
  not given (`AnswersShown`).
* `network`, `frontend`: as the comments at the properties say.

**Why the bounds are enough.** Three or more heights above the root give a walk that
deletes more than one block, a tick that is cut off by its bound and continued
by the next, and a gap. Two forks give a transaction at different heights, in
and out of the mempool. Two transactions with different fates are enough for
the poller: its loop treats them one by one, and the proofs cover any number.
`Relayable = {t1}` in the passing run keeps the liveness check small; the
violation runs have two. In `network` one address is enough because no action
relates the rows of two addresses (the proofs cover any number); two callers
are the code's worker and one request. Windows of one unit have all three cases:
inside, at the edge, outside; in the price table, whose ages count from `Ahead`
= 1 tick in the future, a window of 0 leaves the ages ahead, now and past.
`Requested` bounds which pages are asked for.
A fork of four transactions makes two pages of two rows, so that a failing query
can cut a page in the middle, and page 6 is beyond the last by more than the
window, where `pageRange` fails; a page with neighbours on both sides is left to
the proofs, which cover any number of pages. One chart is followed, in one of
the two tabs, because tabs share no chart (the proof covers all of them); for
that the tabs are not interchangeable, and the run uses no symmetry.

## Fairness

Each fairness condition is one the code's scheduling gives, or states openly
what is assumed of the outside.

* `SyncFairness`: the ticker never stops and every call returns (`rpc/client.go`
  has a timeout), so a tick always goes on or fails: weak fairness of
  `SyncerStep`. That no call fails *for ever* is strong fairness of the walk,
  the deletion, the fetch and the persist. `CatchesUp` also has the premise
  that the daemon settles.
* `PollerFairness`: the daemon and the database do not fail for ever for one and
  the same transaction. `DropsDeparted` and `ShowsPending` have as premise that
  polls are completed again and again (`PollsComplete`); without it the poller
  may be killed or fail for ever, and nothing would be promised.
* `NetFairness`: time passes, the worker polls, neither database nor daemon nor
  locating service fails for ever, and the database does not fail *just when*
  there are coordinates to store. Nothing is assumed of requests.
* `TeleFairness`: timers never stop, the database does not fail for ever, the
  exchange answers again and again, with any timestamp. *Nothing* is assumed of
  the daemon: that is the point of `Refreshed`. `ZerosPass` has as premise that
  the daemon's calls stop failing or returning a total of zero, and, for the
  market capitalisation, that the exchange stops answering without a price.


Restarts are never fair, and `Network` and `Telemetry` bound them.

## What is proved

All theorems are about the specifications above, for every value of the
constants that satisfies the named assumptions (`ChainAssumption`,
`SyncerAssumption`, `MempoolAssumption`, `PeersAssumption`,
`NetworkAssumption`, `TelemetryAssumption`, `I18nAssumption`, `ChartsAssumption`,
`LedgerAssumption`, `HandlersAssumption`), which TLC
evaluates for each instance.

* **`SyncerProofs`.** `RowsBelongToStoredBlock` is not inductive: `SyncPersist`
  could overwrite a block and leave its rows behind. It does not, because a tick
  knows that nothing is stored above the height it works on (`FreshAbove`), and
  blocks are stored at their own height (`StoredAtHeight`). With the types these
  make `SyncInv`. From it follow `SyncTypeCorrect`, `RowsBelong`, and, step by
  step, the refinement `SyncerImplementsIndex`: `SyncPersist` is a push,
  `SyncDelete` a pop (or a stutter where nothing is stored), all else stutters.
  Under `QuietSpec`, `QuietInv` adds `OneChain`, `BlocksComplete` and
  `TickAgrees` – after the walk all that is stored is on the daemon's chain.
  The lemma that carries it, `TopDecides`, is the reason why the code may stop
  at the first agreeing block: if the highest stored block is on the daemon's
  chain, so are all below. It gives `StoredBlocksAreOneChain`,
  `StoredBlocksComplete` and `WalkKeepsAgreed`.
  Under `SeamSpec`, with the daemon moving at any moment, `TopAgrees` is what is
  left of `TickAgrees`: as long as the tick is not torn, the block stored highest
  is on the daemon's chain, and so is the block about to be persisted
  (`ExtendKeeps`: new blocks above the tip change nothing below it). That is
  enough for `OnlyReorgsMakeSeams`, since nothing is stored above `next`.
  `TicksAreBounded` is the part of "every tick ends" that needs no fairness:
  `StepsLeft` counts two steps for each height to ingest and each height to walk
  back, it is bounded when a tick begins (`AtMostMaxPerTick`), every step of the
  tick lowers it (`StepsGoDown`), and no step of the daemon changes it.
* **`IndexerProofs`.** `PollerOnStore` says what any step of the poller does to
  the tables: no block changes, no row gets a height, and no mined row goes.
  That preserves `SyncInv`, so `TypeCorrect`, `IndexedRowsBelong` and
  `PruningSparesMined` follow for all interleavings, and
  `IndexerImplementsLossyIndex`.
* **`NetworkProofs`.** `NetTypeOK` is inductive (it says, among others, that what
  the worker waits for is in its list). `OnlyWrites` lists the steps that touch
  the table; each of them erases nothing (`ErasesNothing`) and keeps the rows
  the page lists (`KeepsListed`).
* **`TelemetryProofs`.** `SupplyNotLost` needs that the worker remembers a supply
  once one was fetched in this process (`Remembered`).
* **`PageProofs`.** `NotOutdated` is about a page, but its reason is in the shared
  cache: an entry's strings are no older than its stamp (`StampsHold`), because
  a page fetches after it was served and the server is not downgraded. `QInv`
  relates visibility, hook and stash, for `HiddenIsQuiet` and `ResumesPolling`.
  `CInv` is for `ChartCurrent`: a tile has as many charts as the page knows of
  (one when `pricePlot` is in it, or else none), and a tile that is there has
  the chart its series calls for. In the middle of a callback only the first
  half is true, and `RenderSound` says that `renderPriceInto` restores the other.
* **`FiniteFacts`.** General lemmas. The provers cannot instantiate an induction
  theorem that takes a predicate, but they can use one about membership in a
  set: `SubsetInduction` (over the subsets of a finite set) and `NatSet` follow
  from well-foundedness, and carry all the rest. A sum (`MapThenSumSet`) is a
  fold that *chooses* the next element; `SumRemove` says that any element may be
  taken first, and with it sums over disjoint sets add, a part weighs no more
  than the whole, and a sum may be taken over the image of a one-to-one
  function. In a strict order the ranks of a finite set are exactly
  0, 1, ..., n - 1 (`RankGrows`, `RankOnto`).
* **`LedgerProofs`.** About what one query returns.
  *Balances*, of `SyncedWebSpec`, where `QuietInv` holds and every row is mined
  (`NonePending`). Stored blocks lie on one chain and are complete, so two
  stored transactions spend different outputs (`NoDoubleSpend`), and the sum
  over the join of inputs and outputs is one over the *set* of spent outputs
  (`SentIsSpent`), a part of those received. That is `NoBalanceNegative`. When
  nothing is missing below, what is left are the unspent outputs of the chain:
  `BalancesAreUnspent`.
  *Lists*, of `WebSpec`, with both workers. Rows differ in their txids, so the
  order is strict (`RowsOrdered`), each place of the list has exactly one row
  (`ListedInOrder`, `AddressInOrder`), and the pages, one after the other, are
  the list (`PagesWhole`, whose arithmetic is `PageCount`). There are finitely
  many rows, since each step adds a block's or one (`FiniteTxsNext`).
  `PagesPartitioned` follows.
  *Growth.* Until a block is removed a stored row changes in nothing
  (`RowsStay`), so what an address has sent only grows (`SentGrows`), and no row
  comes to stand further ahead in the list (`ListGrows`).
* **`WebProofs`.** About pages that several queries made, for any number of
  requests. Those of `SyncedWebSpec`:
  - *The page of a block.* A stored block is removed but never replaced
    (`NeverReplaced`), and what is listed under a height is exactly the
    transactions of the block stored there (`ListedUnderHeight`). `WebInv` carries
    this from the query that read a block to the page that shows it: until a
    block is removed, the block in the heading is still the one stored at its
    height, and so is each row of the landing page. What a failing query returns
    is a part of that. `BlockPagesUnmixed` and `BlockLinksKept` follow.
  - *The page of an address.* `BalanceNotOverstated` speaks of the page that is
    shown; the invariant `AddressPage` must speak of the time between the
    queries: what was read as received, less what *would be read now* as sent,
    is at most the balance at the start. `SentGrows` preserves it:
    `BalancesNotOverstated`.
  - *The list.* `ListInv` says that the count was at most what is stored
    (`ListCounted`), that a page with rows, and one that a link led to, begins
    before the end of the list or of the count (`ListBegins`), and that what the
    reader has still to see is behind the page read last (`ListBehind`). The
    syncer preserves it by `ListGrows`; a link by `LinkInside`; reading a page
    by `PageByRank`: what was behind the previous page is on this one or behind
    it, when its query ends without an error. `LinksLead` and `NextPageMissesNone` follow.

  Of `WebSpec`, with the poller at work: *the page of a transaction*. What was resolved, by whichever way, is a part of what is listed, and that a
  part of its inputs (`TxPage`), so the sum and the fee shown are at most the true
  ones, and exact when nothing is missing from the list: `FeesExact`.

Every invariant and every safety property of an action that a passing run
checks is also proved. Only model-checked is all liveness (`CatchesUp`,
`DropsDeparted`, `ShowsPending`, `Forgotten`, `Heals`, `Refreshed`,
`AnswersShown`, `ZerosPass`, `TablesTrimmed`), which rests on fairness and so is
out of the prover's reach. The properties of the violation runs are false.

The theorems of `SyncedWebSpec` are not claimed of `WebSpec`, and most are false
there: with the poller a mined row may lose its height or its outputs (findings
2 and 3), and a pending transaction may spend what a mined one has spent.

## Findings

Disagreements between the code and its own comments, each shown by a run with a
counterexample; `PROJECT.json` quotes the lines.

1. `reorg_gap` (`ContinuesStoredChain`): `once` computes `start` before the reorg
   walk and ingests from it after. The heights the walk removed are never
   fetched, in this tick or later; the stored chain has a gap, and balances are
   short of what was in it.
2. `demotion` (`PollerSkipsMined`): a transaction mined between the poller's
   existence check and its upsert is put back under NULL, and then pruned as a
   departed one, while its block is stored.
3. `lost_outputs` (`PruneSparesMinedOutputs`): the first deletion of a selected
   transaction has no `block_height IS NULL`; one mined in between keeps its row
   and loses its outputs.
4. `supply_calls` (`SupplyCallsSpaced`): a failing `gettxoutsetinfo` – the heavy
   call the interval is there for – is repeated by every poll.
5. `language` (`RowsInSelectedLanguage`): the catalog of a language that is no
   longer selected is applied when its fetch returns, and rows swapped in later
   are in it.

### Observed, without a run

Five more things were met while modelling. They have no run because nothing in
the repository says clearly enough what should happen, or because they need no
model checker.

* When `InputsFor` fails on the way it returns some of the inputs together with
  the error (`txs.go:180`). `TxDetail` logs the error, skips the fallback since
  there are inputs, and computes "all resolved", the total and the fee from them
  (`handlers.go:221-224`, `handlers.go:256-270`): a total that is not marked as
  partial, and a fee that is too low or 0. `FeeExact` says how far that goes.
* The other lists are rendered in the same way when their query fails on the way
  (`txs.go:331`): a short page looks like a complete one.
* A peer that is mid-handshake again keeps the height it had
  (`store/peers.go:27`), so the network page counts it as "recent & synced",
  while `handlers.go:379-381` counts peers in a handshake among the others.
* A page that is hidden when `app.js` runs and visible by `DOMContentLoaded` is
  paused while it is visible, until it is hidden and shown once more
  (`app.js:225`).
* A copy button clicked twice within 900 ms keeps its tick for good
  (`app.js:256`).

## What is left out

* **RPC client, configuration, router.** A call succeeds or fails; the envelope,
  authentication and decoding hold no state. Of the configuration the constants
  remain.
* **Templates.** `pageRange` and the links are modelled. Formatting, masking and
  agent strings are functions from values to text, and the repository tests them.
* **Pages that repeat others, or ask nothing.** `/movements` is one query; the
  sitemap is the landing page's query and that of the list, of which it keeps
  nothing; `/search`, `/about` and `robots.txt` make none. The list of the
  network page is `Listed`; how it is sorted, counted by version and country and
  drawn on the map are functions of that list, and that a failing query may
  return a part of it is not represented there.
* **Contents.** Of a block: height, parent, transactions. Of a transaction:
  outputs and inputs in `Ledger`, nothing else elsewhere. Of stats: the supply,
  and whether the other readings were made.
* **Other client code.** Copy buttons, brand animation, local times, the sticky
  offset: one page's presentation without state that outlives an event.
* **Clocks.** Ages, not times. Only the clock of the exchange may be ahead; the
  times of blocks order the lists and are heights in the instances.
* **The age of entries in the GeoIP cache.** `cached_at` is written and never
  read, so there is no behaviour to model.

## The plan

The core came first, because everything else reads what it writes:

1. `ChainNode`, `TxStore`, `Syncer`, `ChainIndex`: blocks and reorganisations –
   checked, proved, refinement proved.
2. `Mempool`, `Indexer`: the second writer – checked, safety and refinement proved.
3. `Ledger`, `Handlers`, `Web`: the readers, with what is done with a page after
   it was sent – checked, safety proved.
4. `GeoIP`, `Peers`, `Network` – checked, safety proved.
5. `Snapshots`, `Telemetry` – checked, safety proved.
6. `I18n`, `Polling`, `Charts`, `Page` – checked, safety proved.

What would come next:

* Theorems with the poller at work: which of the properties of lists and
  balances survive it, and what exactly a race of the two workers can cost.
* The network page as a request of its own between the statements of the worker.
* A variant of the syncer that ingests from the height the walk ended at, to
  check that it closes the gap of finding 1 (`ContinuesStoredChain`) and keeps
  everything else.

## How to run it

    tlc -workers 2 -config indexer.cfg MCIndexer     # a run
    tlapm SyncerProofs.tla                           # a module of proofs

The module of each run is in `PROJECT.json`: `MCSeams` (`syncer`), `MCSyncer`
(`reorg_gap`), `MCIndexer` (`indexer`, `demotion`, `lost_outputs`), `MCWeb`
(`ledger`, `pages`), `MCNetwork` (`network`), `Telemetry` (`telemetry`,
`supply_calls`), `MCPage` (`frontend`, `language`).
