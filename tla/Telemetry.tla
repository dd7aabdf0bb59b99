------------------------------ MODULE Telemetry ------------------------------
(***************************************************************************)
(* The workers behind the tiles of the header: the one of indexer/stats.go *)
(* and the one of internal/prices.  Each polls at the tick of a timer,     *)
(* inserts a snapshot, and at the tick of another trims its table.  Time   *)
(* is kept as ages.  Of a stats snapshot the model keeps whether it has a  *)
(* supply, and whether all its other readings were taken: a reading whose  *)
(* call fails is zero.  Of a price it keeps whether it is above zero.  The *)
(* exchange stamps its answers with a time of its own, which may be long   *)
(* past, or lie in the future.                                             *)
(***************************************************************************)
EXTENDS Naturals

CONSTANTS
    NoRow,          \* no row of a table
    StatsKeep,      \* 7 days (stats.go:39)
    PriceKeep,      \* 30 days (prices.go:172)
    SupplyRefreshEvery,
    StaleAfter,     \* 2 minutes (handlers.go:81)
    Ahead,          \* bound: how far the clock of the exchange is ahead
    PollTime,       \* bound: how old a poll grows, by the timeout of its calls
    MaxRestarts     \* bound: how often the program is restarted

(* A snapshot has no supply (zero, for want of one: the column may be NULL, *)
(* but is read into a float64), or lacks another reading, or is full.       *)
Snap == {"noSupply", "unread", "full"}

(* A price that is null, empty or 0 in the answer is stored as zero.        *)
Price == {"price", "zero"}

ASSUME TelemetryAssumption ==
    /\ StatsKeep \in Nat /\ PriceKeep \in Nat
    /\ SupplyRefreshEvery \in Nat \ {0} /\ MaxRestarts \in Nat /\ Ahead \in Nat
    /\ PollTime \in 0..StaleAfter /\ StaleAfter \in 0..StatsKeep
    /\ NoRow \notin Snap \cup Price

VARIABLES
    stats,          \* table stats_snapshots
    lastSupply,     \* Stats.lastSupply # 0
    supplyAge,      \* the age of Stats.lastSupplyAt
    spc,            \* where the stats worker is: "idle", "supply", "insert"
    polled,         \* the age of its snapshot
    readAll,        \* whether its light calls have all succeeded
    prices,         \* table price_snapshots
    ppc,            \* where the price worker is: "idle", "asked"
    restarts,
    fetched         \* history: whether the last call of gettxoutsetinfo that
                    \* succeeded in this process has returned a supply

stat == <<lastSupply, supplyAge, spc, polled, readAll, fetched>>
teleVars == <<stats, stat, prices, ppc, restarts>>

S == INSTANCE Snapshots WITH rows <- stats, Row <- Snap, Now <- 0, Keep <- StatsKeep
P == INSTANCE Snapshots WITH rows <- prices, Row <- Price, Now <- Ahead, Keep <- PriceKeep

(* Ages of the last supply count up to the point where it is due whatever   *)
(* the age of the poll that asks.                                           *)
Due == SupplyRefreshEvery + PollTime
SupplyOlder(a) == IF a = Due THEN a ELSE a + 1

TeleTypeOK ==
    /\ S!SnapshotsTypeOK /\ P!SnapshotsTypeOK
    /\ lastSupply \in BOOLEAN /\ supplyAge \in 0..Due
    /\ spc \in {"idle", "supply", "insert"} /\ polled \in 0..PollTime /\ readAll \in BOOLEAN
    /\ ppc \in {"idle", "asked"}
    /\ restarts \in 0..MaxRestarts /\ fetched \in BOOLEAN

NoSupply == lastSupply = FALSE /\ supplyAge = Due
StatsIdle == spc' = "idle" /\ polled' = 0 /\ readAll' = FALSE

TeleInit ==
    /\ S!Empty /\ P!Empty
    /\ NoSupply
    /\ spc = "idle" /\ polled = 0 /\ readAll = FALSE
    /\ ppc = "idle"
    /\ restarts = 0 /\ fetched = FALSE

-----------------------------------------------------------------------------
(* The stats worker *)

(* The snapshot gets its timestamp, and the light calls are made.  One that *)
(* fails is logged, and the poll goes on.                                   *)
StatsReadings(ok) ==
    /\ spc = "idle"
    /\ spc' = "supply" /\ polled' = 0 /\ readAll' = ok
    /\ UNCHANGED <<lastSupply, supplyAge, fetched, stats>>

SupplyDue == supplyAge - polled >= SupplyRefreshEvery \/ ~lastSupply

(* A call fails, or returns a supply, or succeeds with a total of zero.     *)
Total == {"fails", "zero", "supply"}

(* Slips: the supply of a failed call is stored, too, or only the time of   *)
(* the call is remembered.                                                  *)
TakeSupplyAlways(total) ==
    lastSupply' = (total = "supply") /\ supplyAge' = IF total = "fails" THEN supplyAge ELSE polled

TakeSupplyTime(total) ==
    UNCHANGED lastSupply /\ supplyAge' = IF total = "fails" THEN supplyAge ELSE polled

TakeSupply(total) ==
    IF total = "fails" THEN UNCHANGED <<lastSupply, supplyAge>>
    ELSE lastSupply' = (total = "supply") /\ supplyAge' = polled

GetTxOutSetInfo(total) ==
    /\ SupplyDue
    /\ fetched' = IF total = "fails" THEN fetched ELSE total = "supply"
    /\ TakeSupply(total)

(* A slip: without a supply there is no snapshot.                           *)
StatsSupplyOrReturn ==
    /\ spc = "supply"
    /\ \/ ~SupplyDue /\ spc' = "insert" /\ UNCHANGED <<lastSupply, supplyAge, fetched, polled, readAll>>
       \/ GetTxOutSetInfo("supply") /\ spc' = "insert" /\ UNCHANGED <<polled, readAll>>
       \/ GetTxOutSetInfo("fails") /\ StatsIdle
    /\ UNCHANGED stats

StatsSupply ==
    /\ spc = "supply"
    /\ spc' = "insert"
    /\ \/ ~SupplyDue /\ UNCHANGED <<lastSupply, supplyAge, fetched>>
       \/ \E total \in Total : GetTxOutSetInfo(total)
    /\ UNCHANGED <<polled, readAll, stats>>

(* A slip: an unknown supply is stored as NULL.                             *)
SupplyOrNull == IF ~lastSupply THEN "null" ELSE IF readAll THEN "full" ELSE "unread"

NewSnap == IF ~lastSupply THEN "noSupply" ELSE IF readAll THEN "full" ELSE "unread"

InsertStats ==
    /\ spc = "insert"
    /\ S!Insert(polled, NewSnap)
    /\ StatsIdle
    /\ UNCHANGED <<lastSupply, supplyAge, fetched>>

InsertStatsFails ==
    /\ spc = "insert"
    /\ StatsIdle
    /\ UNCHANGED <<stats, lastSupply, supplyAge, fetched>>

(* When it fails it changes nothing.                                        *)
TrimStats == spc = "idle" /\ S!Trim /\ UNCHANGED stat

StatsStep ==
    /\ (\E ok \in BOOLEAN : StatsReadings(ok)) \/ StatsSupply \/ InsertStats
       \/ InsertStatsFails \/ TrimStats
    /\ UNCHANGED <<prices, ppc, restarts>>

-----------------------------------------------------------------------------
(* The price worker *)

(* The exchange is asked for the pair.  It answers with a price and with a  *)
(* timestamp, of any age; strNum reads either of them as 0 when it is null  *)
(* or empty, or missing.                                                    *)
Unstamped == P!Oldest + 1
Stamp == P!Age \cup {Unstamped}

Fetch == ppc = "idle" /\ ppc' = "asked" /\ UNCHANGED prices

(* An answer without a timestamp is stored under the time of its storing.   *)
Timestamp(stamp) == IF stamp = Unstamped THEN Ahead ELSE stamp

(* A slip: a quote that is too old to be kept is not stored.                *)
InsertRecentPrice(stamp, p) ==
    /\ ppc = "asked" /\ ppc' = "idle"
    /\ IF Timestamp(stamp) = P!Oldest THEN UNCHANGED prices ELSE P!Insert(Timestamp(stamp), p)

InsertPrice(stamp, p) == ppc = "asked" /\ ppc' = "idle" /\ P!Insert(Timestamp(stamp), p)

InsertAnswer == \E stamp \in Stamp, p \in Price : InsertPrice(stamp, p)

(* There is no answer, or an error in it, or the insertion fails.           *)
PriceFails == ppc = "asked" /\ ppc' = "idle" /\ UNCHANGED prices

TrimPrices == ppc = "idle" /\ P!Trim /\ UNCHANGED ppc

PriceStep ==
    /\ Fetch \/ InsertAnswer \/ PriceFails \/ TrimPrices
    /\ UNCHANGED <<stats, stat, restarts>>

-----------------------------------------------------------------------------
Tick ==
    /\ spc # "idle" => polled < PollTime
    /\ S!Aged /\ P!Aged
    /\ supplyAge' = SupplyOlder(supplyAge)
    /\ polled' = IF spc = "idle" THEN 0 ELSE polled + 1
    /\ UNCHANGED <<lastSupply, readAll, spc, ppc, restarts, fetched>>

Restart ==
    /\ restarts < MaxRestarts
    /\ restarts' = restarts + 1
    /\ lastSupply' = FALSE /\ supplyAge' = Due
    /\ StatsIdle /\ ppc' = "idle"
    /\ fetched' = FALSE
    /\ UNCHANGED <<stats, prices>>

TeleNext == StatsStep \/ PriceStep \/ Tick \/ Restart

TeleSpec == TeleInit /\ [][TeleNext]_teleVars

(* The timers never stop and a call returns; the database does not fail for *)
(* ever, and the exchange answers again and again.  Nothing is assumed of   *)
(* the daemon.                                                              *)
TeleFairness ==
    /\ WF_teleVars(Tick)
    /\ WF_teleVars(((\E ok \in BOOLEAN : StatsReadings(ok)) \/ StatsSupply) /\ UNCHANGED <<prices, ppc, restarts>>)
    /\ SF_teleVars(InsertStats /\ UNCHANGED <<prices, ppc, restarts>>)
    /\ SF_teleVars(TrimStats /\ UNCHANGED <<prices, ppc, restarts>>)
    /\ WF_teleVars(Fetch /\ UNCHANGED <<stats, stat, restarts>>)
    /\ SF_teleVars(InsertAnswer /\ UNCHANGED <<stats, stat, restarts>>)
    /\ SF_teleVars(TrimPrices /\ UNCHANGED <<stats, stat, restarts>>)

FairTeleSpec == TeleSpec /\ TeleFairness

-----------------------------------------------------------------------------
(* The header, and properties *)

Stale == ~\E a \in S!Age : S!LatestAt(a) /\ a <= StaleAfter
SupplyShown == \E a \in S!Age : S!LatestAt(a) /\ stats[a] \in {"unread", "full"}
ReadingsShown == \E a \in S!Age : S!LatestAt(a) /\ stats[a] = "full"
PriceAvailable == P!Some
MarketCapAvailable == SupplyShown /\ \E a \in P!Age : P!LatestAt(a) /\ prices[a] = "price"

(* Once the process has fetched a supply and the header shows one, no       *)
(* failing call, failing insertion or trimming takes it away; only an empty *)
(* table, another process, or an answer of zero does.                       *)
SupplyNotLost ==
    [][fetched /\ SupplyShown /\ UNCHANGED restarts
        => SupplyShown' \/ ~S!Some']_teleVars

(* The header never remains stale, though all calls to the daemon may fail  *)
(* for ever ("the header tiles above it degrade on their own",              *)
(* handlers.go:330).                                                        *)
Refreshed == []<>~Stale

(* Once the daemon has stopped failing, the zeros go: those of the readings *)
(* whose calls failed, and that of the supply, which a restart forgets.     *)
(* From some time on whatever snapshot the header shows is complete; and    *)
(* when the exchange has stopped answering without a price, too, there is   *)
(* a market capitalisation whenever there is a row of prices: no zero that  *)
(* was stored, not even under a time in the future, stands for ever.        *)
DaemonFails ==
    StatsReadings(FALSE) \/ (spc = "supply" /\ \E total \in Total \ {"supply"} : GetTxOutSetInfo(total))

NoPrice == \E stamp \in Stamp : InsertPrice(stamp, "zero")

ZerosPass ==
    /\ []<><<DaemonFails>>_teleVars \/ <>[](S!Some => ReadingsShown)
    /\ \/ []<><<DaemonFails>>_teleVars
       \/ []<><<NoPrice>>_teleVars
       \/ <>[](S!Some /\ PriceAvailable => MarketCapAvailable)

(* The answer of the exchange becomes the one that is shown, again and      *)
(* again: neither a timestamp in the future hides all later answers for     *)
(* ever, nor does the trimming, which deletes a price as soon as the last   *)
(* trade is long ago while the answers still carry its time.                *)
AnswersShown ==
    []<><<\E stamp \in Stamp, p \in Price :
            InsertPrice(stamp, p) /\ P!LatestAt(Timestamp(stamp))'>>_teleVars

(* No row outlives its window for ever: both tables stay bounded.           *)
TablesTrimmed ==
    []<>(stats[S!Oldest] = NoRow) /\ []<>(prices[P!Oldest] = NoRow)
=============================================================================
