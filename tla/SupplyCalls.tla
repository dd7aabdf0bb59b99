----------------------------- MODULE SupplyCalls -----------------------------
(* Telemetry, with the time of the last call of gettxoutsetinfo.            *)
EXTENDS Telemetry

VARIABLE sinceCall  \* history: the age of that call, in this process

CallsSpec ==
    /\ TeleInit /\ sinceCall = Due
    /\ [][/\ TeleNext
          /\ sinceCall' =
                IF Restart THEN Due
                ELSE IF Tick THEN SupplyOlder(sinceCall)
                ELSE IF StatsSupply /\ SupplyDue THEN 0
                ELSE sinceCall]_<<teleVars, sinceCall>>

(* "gettxoutsetinfo is heavy; refresh at most every SupplyRefreshEvery"     *)
(* (stats.go:69): within one process the calls are that far apart.          *)
SupplyCallsSpaced ==
    [][StatsSupply /\ SupplyDue
        => sinceCall - polled >= SupplyRefreshEvery]_<<teleVars, sinceCall>>
=============================================================================
