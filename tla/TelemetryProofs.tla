--------------------------- MODULE TelemetryProofs ---------------------------
(***************************************************************************)
(* Proofs about Telemetry: types, and that the supply stays shown.         *)
(***************************************************************************)
EXTENDS Telemetry, TLAPS

(* The bounds are numbers, and a poll is over before its row would be       *)
(* trimmed (newHeaderStats, Stats.Run).                                     *)
LEMMA Bounds ==
    /\ StatsKeep \in Nat /\ PriceKeep \in Nat /\ SupplyRefreshEvery \in Nat /\ MaxRestarts \in Nat
    /\ PollTime \in Nat /\ PollTime < S!Oldest /\ Due \in Nat
    /\ S!Oldest \in Nat /\ P!Oldest \in Nat /\ Ahead \in P!Age
  BY TelemetryAssumption DEF TelemetryAssumption, Due, S!Oldest, P!Oldest, P!Age

(* Whatever the ages of rows and polls, the tables and the workers keep     *)
(* their types.                                                             *)
LEMMA TeleTypesInit == TeleInit => TeleTypeOK
<1> SUFFICES ASSUME TeleInit PROVE TeleTypeOK
  OBVIOUS
<1>1. lastSupply \in BOOLEAN /\ fetched \in BOOLEAN /\ readAll \in BOOLEAN
  BY DEF TeleInit, NoSupply
<1>2. /\ S!SnapshotsTypeOK /\ P!SnapshotsTypeOK
      /\ supplyAge \in 0..Due
      /\ polled \in 0..PollTime /\ restarts \in 0..MaxRestarts
  BY Bounds DEF TeleInit, NoSupply, S!Empty, S!SnapshotsTypeOK, P!Empty, P!SnapshotsTypeOK
<1> QED
  BY <1>1, <1>2 DEF TeleInit, TeleTypeOK

LEMMA TeleTypesStep == TeleTypeOK /\ [TeleNext]_teleVars => TeleTypeOK'
<1> SUFFICES ASSUME TeleTypeOK, [TeleNext]_teleVars PROVE TeleTypeOK'
  OBVIOUS
<1> USE Bounds DEF TeleTypeOK
<1>1. ASSUME (\E ok \in BOOLEAN : StatsReadings(ok)) \/ StatsSupply, UNCHANGED <<prices, ppc, restarts>> PROVE TeleTypeOK'
  <2>1. CASE \E ok \in BOOLEAN : StatsReadings(ok)
    <3>1. PICK ok \in BOOLEAN : StatsReadings(ok)
      BY <2>1
    <3>2. readAll' \in BOOLEAN
      BY <3>1 DEF StatsReadings
    <3> QED
      BY <1>1, <3>1, <3>2 DEF StatsReadings, S!SnapshotsTypeOK, P!SnapshotsTypeOK
  <2>2. CASE StatsSupply
    <3>1. supplyAge' \in 0..Due
      <4>1. polled \in 0..Due
        BY DEF Due
      <4>2. supplyAge' \in {supplyAge, polled}
        BY <2>2 DEF StatsSupply, GetTxOutSetInfo, TakeSupply
      <4> QED
        BY <4>1, <4>2
    <3>2. lastSupply' \in BOOLEAN /\ fetched' \in BOOLEAN
      BY <2>2, ZenonT(30) DEF StatsSupply, GetTxOutSetInfo, TakeSupply
    <3>3. spc' = "insert" /\ UNCHANGED <<polled, readAll, stats>>
      BY <2>2 DEF StatsSupply
    <3> QED
      BY <1>1, <3>1, <3>2, <3>3 DEF S!SnapshotsTypeOK, P!SnapshotsTypeOK
  <2> QED
    BY <1>1, <2>1, <2>2
<1>2. ASSUME InsertStats \/ InsertStatsFails \/ TrimStats, UNCHANGED <<prices, ppc, restarts>> PROVE TeleTypeOK'
  <2>1. S!SnapshotsTypeOK'
    BY <1>2 DEF InsertStats, InsertStatsFails, TrimStats, NewSnap, Snap,
                S!Insert, S!Trim, S!SnapshotsTypeOK, S!Age, S!Oldest
  <2>2. /\ UNCHANGED <<lastSupply, supplyAge, fetched>>
        /\ spc' = "idle" /\ polled' \in 0..PollTime
    BY <1>2 DEF InsertStats, InsertStatsFails, TrimStats, StatsIdle, stat
  <2>3. readAll' = FALSE \/ UNCHANGED readAll
    BY <1>2, Zenon DEF InsertStats, InsertStatsFails, TrimStats, StatsIdle, stat
  <2>4. readAll' \in BOOLEAN
    BY <2>3, Zenon
  <2> QED
    BY <1>2, <2>1, <2>2, <2>4 DEF P!SnapshotsTypeOK
<1>3. ASSUME PriceStep PROVE TeleTypeOK'
  <2>1. CASE InsertAnswer
    <3>1. PICK stamp \in Stamp, p \in Price : InsertPrice(stamp, p)
      BY <2>1 DEF InsertAnswer
    <3>2. prices' = [prices EXCEPT ![Timestamp(stamp)] = p]
      BY <3>1 DEF InsertPrice, P!Insert
    <3> QED
      BY <1>3, <3>1, <3>2 DEF PriceStep, InsertPrice, stat, S!SnapshotsTypeOK, P!SnapshotsTypeOK
  <2>2. CASE Fetch \/ PriceFails \/ TrimPrices
    <3>1. P!SnapshotsTypeOK' /\ ppc' \in {"idle", "asked"}
      BY <2>2 DEF Fetch, PriceFails, TrimPrices, P!Trim, P!SnapshotsTypeOK
    <3> QED
      BY <1>3, <3>1 DEF PriceStep, stat, S!SnapshotsTypeOK
  <2> QED
    BY <1>3, <2>1, <2>2 DEF PriceStep
<1>4. ASSUME Tick PROVE TeleTypeOK'
  <2>1. S!SnapshotsTypeOK'
    BY <1>4 DEF Tick, S!Aged, S!SnapshotsTypeOK, S!Age, S!Oldest
  <2>2. P!SnapshotsTypeOK'
    BY <1>4 DEF Tick, P!Aged, P!SnapshotsTypeOK, P!Age, P!Oldest
  <2>3. supplyAge' \in 0..Due
    BY <1>4 DEF Tick, SupplyOlder, Due
  <2>4. polled' \in 0..PollTime
    BY <1>4 DEF Tick
  <2> QED
    BY <1>4, <2>1, <2>2, <2>3, <2>4 DEF Tick
<1>5. ASSUME Restart PROVE TeleTypeOK'
  <2>1. lastSupply' \in BOOLEAN /\ fetched' \in BOOLEAN /\ readAll' \in BOOLEAN
    BY <1>5 DEF Restart, StatsIdle
  <2>2. supplyAge' \in 0..Due /\ restarts' \in 0..MaxRestarts
    BY <1>5 DEF Restart
  <2>3. spc' = "idle" /\ polled' \in 0..PollTime /\ ppc' = "idle"
    BY <1>5 DEF Restart, StatsIdle
  <2> QED
    BY <1>5, <2>1, <2>2, <2>3 DEF Restart, S!SnapshotsTypeOK, P!SnapshotsTypeOK
<1>6. ASSUME UNCHANGED teleVars PROVE TeleTypeOK'
  BY <1>6 DEF teleVars, stat, S!SnapshotsTypeOK, P!SnapshotsTypeOK
<1> QED
  BY <1>1, <1>2, <1>3, <1>4, <1>5, <1>6 DEF TeleNext, StatsStep

(* Type correctness of the workers behind the header.                       *)
THEOREM TeleTypes == TeleSpec => []TeleTypeOK
  BY TeleTypesInit, TeleTypesStep, PTL DEF TeleSpec

(* A supply that the last successful call has returned is remembered as     *)
(* long as the process runs: a failure does not clear Stats.lastSupply.     *)
Remembered == fetched => lastSupply

LEMMA RemembersStep == Remembered /\ [TeleNext]_teleVars => Remembered'
<1> SUFFICES ASSUME Remembered, [TeleNext]_teleVars PROVE Remembered'
  OBVIOUS
<1>1. ASSUME StatsSupply PROVE Remembered'
  BY <1>1 DEF StatsSupply, GetTxOutSetInfo, TakeSupply, Remembered
<1>2. ASSUME (\E ok \in BOOLEAN : StatsReadings(ok)) \/ InsertStats \/ InsertStatsFails \/ TrimStats PROVE Remembered'
  BY <1>2 DEF StatsReadings, InsertStats, InsertStatsFails, TrimStats, stat, Remembered
<1>3. ASSUME PriceStep \/ Tick \/ Restart \/ UNCHANGED teleVars PROVE Remembered'
  BY <1>3 DEF PriceStep, Tick, Restart, teleVars, stat, Remembered
<1> QED
  BY <1>1, <1>2, <1>3 DEF TeleNext, StatsStep

LEMMA Remembers == TeleSpec => []Remembered
<1>1. TeleInit => Remembered
  BY DEF TeleInit, Remembered
<1> QED
  BY <1>1, RemembersStep, PTL DEF TeleSpec

-----------------------------------------------------------------------------
(* A step of a process that has fetched a supply keeps one in the latest    *)
(* row, by which statement it may write the table.                          *)
LEMMA KeepsSupplyStep ==
    TeleTypeOK /\ Remembered /\ [TeleNext]_teleVars
    => (fetched /\ SupplyShown /\ UNCHANGED restarts => SupplyShown' \/ ~S!Some')
<1> SUFFICES ASSUME TeleTypeOK, Remembered, [TeleNext]_teleVars,
                    fetched, SupplyShown, UNCHANGED restarts, S!Some'
             PROVE  SupplyShown'
  OBVIOUS
<1> USE TelemetryAssumption DEF TelemetryAssumption
<1>1. PICK a \in S!Age : S!LatestAt(a) /\ stats[a] \in {"unread", "full"}
  BY DEF SupplyShown
<1>2. stats \in [S!Age -> Snap \cup {NoRow}] /\ polled \in 0..PollTime /\ restarts \in Nat
  BY DEF TeleTypeOK, S!SnapshotsTypeOK
<1>3. CASE UNCHANGED stats
  BY <1>1, <1>3 DEF SupplyShown, S!LatestAt
<1>4. CASE InsertStats
  <2>1. /\ polled \in S!Age
        /\ \E snap \in {"unread", "full"} : stats' = [stats EXCEPT ![polled] = snap]
    <3>1. polled \in S!Age /\ stats' = [stats EXCEPT ![polled] = NewSnap]
      BY <1>2, <1>4 DEF InsertStats, S!Insert, S!Age, S!Oldest
    <3>2. NewSnap \in {"unread", "full"}
      BY Zenon DEF NewSnap, Remembered
    <3> QED
      BY <3>1, <3>2
  <2>2. CASE a < polled
    BY <1>1, <1>2, <2>1, <2>2 DEF SupplyShown, S!LatestAt, S!Age, S!Oldest
  <2>3. CASE ~(a < polled)
    <3>1. stats'[polled] \in {"unread", "full"} /\ \A b \in S!Age : b < polled => stats'[b] = NoRow
      BY <1>1, <1>2, <2>1, <2>3 DEF S!LatestAt, S!Age, S!Oldest
    <3> QED
      BY <2>1, <3>1 DEF SupplyShown, S!LatestAt, Snap
  <2> QED
    BY <2>2, <2>3
<1>5. CASE TrimStats
  <2>1. stats' = [stats EXCEPT ![S!Oldest] = NoRow]
    BY <1>5 DEF TrimStats, S!Trim
  <2>2. a # S!Oldest
    BY <1>1, <1>2, <2>1 DEF S!Some, S!LatestAt, S!Age, S!Oldest
  <2> QED
    BY <1>1, <1>2, <2>1, <2>2 DEF SupplyShown, S!LatestAt, S!Age, S!Oldest
<1>6. CASE Tick
  <2> DEFINE a2 == IF a = S!Oldest THEN a ELSE a + 1
  <2>1. a2 \in S!Age /\ stats' \in [S!Age -> Snap \cup {NoRow}]
    BY <1>2, <1>6 DEF Tick, S!Aged, S!Age, S!Oldest
  <2>2. stats'[a2] \in {"unread", "full"}
    BY <1>1, <1>2, <1>6 DEF Tick, S!Aged, S!LatestAt, S!Age, S!Oldest
  <2>3. \A b \in S!Age : b < a2 => stats'[b] = NoRow
    BY <1>1, <1>2, <1>6 DEF Tick, S!Aged, S!LatestAt, S!Age, S!Oldest
  <2> QED
    BY <2>1, <2>2, <2>3 DEF SupplyShown, S!LatestAt, Snap
<1>7. CASE Restart
  BY <1>2, <1>7 DEF Restart
<1> QED
  BY <1>3, <1>4, <1>5, <1>6, <1>7
     DEF TeleNext, StatsStep, StatsReadings, StatsSupply, InsertStatsFails, PriceStep, teleVars

(* Within a process the header does not lose the supply it shows, whatever  *)
(* fails: for every window, refresh interval and duration of polls.         *)
THEOREM KeepsSupply == TeleSpec => SupplyNotLost
  BY TeleTypes, Remembers, KeepsSupplyStep, PTL DEF TeleSpec, SupplyNotLost
=============================================================================
