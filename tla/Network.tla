------------------------------- MODULE Network -------------------------------
(***************************************************************************)
(* The peers worker beside the requests for the network page, which list   *)
(* the table and resolve the daemon's own addresses through the same cache,*)
(* with time passing, connections that come and go, and restarts.          *)
(***************************************************************************)
EXTENDS Peers

CONSTANTS
    Request,    \* the requests, as callers of Resolve
    Self,       \* localaddresses of the daemon
    MaxRestarts \* bound: how often the program is restarted

ASSUME NetworkAssumption ==
    Self \subseteq Host /\ Request \subseteq Caller \ {Worker} /\ MaxRestarts \in Nat

VARIABLE restarts

netVars == <<geo, connected, peers, poll, firstRun, restarts>>

(* The cache entry of a local address is never read.                        *)
NetInit ==
    /\ GeoInit
    /\ \A h \in Local : cache[h] = Nobody
    /\ PeersInit
    /\ restarts = 0

(* ListPeersActiveSince, for the window of the network page.                *)
Listed == {h \in Host : peers[h] # Nobody /\ peers[h].age <= RetainHours}

Unlisted == UNCHANGED <<connected, peers, poll, firstRun, restarts>>

(* fetchSelfPeers, for one of the daemon's addresses.                       *)
SelfAsk(r, h) == h \in Self /\ GeoAsk(r, h) /\ Unlisted
SelfAnswer(r, g) == GeoAnswer(r, g) /\ Unlisted
SelfUnstored(r) == GeoUnstored(r) /\ Unlisted

FetchSelfPeers ==
    \E r \in Request :
        \/ \E h \in Host : SelfAsk(r, h)
        \/ \E g \in Answer : SelfAnswer(r, g)
        \/ SelfUnstored(r)

Connect(h) ==
    /\ connected' = IF h \in connected THEN connected \ {h} ELSE connected \cup {h}
    /\ UNCHANGED <<geo, peers, poll, firstRun, restarts>>

Older(age) == IF age > RetainHours THEN age ELSE age + 1

Tick ==
    /\ peers' = [h \in Host |->
                    IF peers[h] = Nobody THEN Nobody
                    ELSE [known |-> peers[h].known, age |-> Older(peers[h].age)]]
    /\ elapsed' = IF ppc = "idle" THEN 0 ELSE Older(elapsed)
    /\ UNCHANGED <<geo, connected, ppc, todo, batch, doomed, firstRun, restarts>>

Restart ==
    /\ restarts < MaxRestarts
    /\ restarts' = restarts + 1
    /\ EndPoll
    /\ firstRun' = FALSE
    /\ asking' = [c \in Caller |-> Nobody]
    /\ UNCHANGED <<cache, connected, peers>>

NetNext ==
    \/ PeersStep /\ UNCHANGED restarts
    \/ FetchSelfPeers
    \/ \E h \in Host : Connect(h)
    \/ Tick
    \/ Restart

NetSpec == NetInit /\ [][NetNext]_netVars

(* The ticker of the worker never stops, every call returns, and time       *)
(* passes; neither the daemon, nor the database, nor the service that       *)
(* locates an address, fails for ever; and the database does not fail just  *)
(* when there are coordinates to store.                                     *)
NetFairness ==
    /\ WF_netVars(Tick)
    /\ WF_netVars(PeersStep /\ UNCHANGED restarts)
    /\ SF_netVars(PrunePeersOlderThan /\ UNCHANGED restarts)
    /\ \A h \in Host \ Local :
          /\ SF_netVars(asking[Worker] = h /\ PeersAnswer(Located) /\ UNCHANGED restarts)
          /\ SF_netVars(batch[h] # Nobody /\ "coords" \in batch[h]
                            /\ UpsertPeers /\ UNCHANGED restarts)

FairNetSpec == NetSpec /\ NetFairness

-----------------------------------------------------------------------------
(* Properties *)

NetTypeOK == GeoTypeOK /\ PeersTypeOK /\ restarts \in 0..MaxRestarts

(* "A peer mid-handshake must not erase the previously-known good data"     *)
(* (store/peers.go:20), and nor does anything else: not a lookup that       *)
(* fails, nor an entry of the cache that a request has replaced by a worse  *)
(* one.  A row knows more and more, until it is removed.                    *)
NothingErased ==
    [][\A h \in Host : peers[h] # Nobody /\ peers'[h] # Nobody
          => peers[h].known \subseteq peers'[h].known]_netVars

(* A public peer leaves the network page by growing too old, in a row that  *)
(* is still there; the worker never deletes a row the page shows, whatever  *)
(* fails and whenever it is restarted (peers.go:87-94, handlers.go:346-351).*)
ListedLeavesByAge ==
    [][\A h \in Listed \ Local : peers'[h] # Nobody]_netVars

(* The table stays bounded: a peer that never comes back is forgotten, and  *)
(* so is a local address, even one the scrub failed to remove or that the   *)
(* daemon is connected to all the time.                                     *)
Forgotten ==
    \A h \in Host :
        <>[](h \notin connected \ Local) => <>[](peers[h] = Nobody)

(* A peer that stays connected is located again and again, though the       *)
(* service may answer without coordinates for long and a request may put    *)
(* such an answer over a good one (geoip.go:54).                            *)
Heals ==
    \A h \in Host \ Local :
        <>[](h \in connected) => []<>(peers[h] # Nobody /\ "coords" \in peers[h].known)
=============================================================================
