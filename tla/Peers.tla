-------------------------------- MODULE Peers --------------------------------
(***************************************************************************)
(* The peers worker of internal/indexer/peers.go and the table it keeps.   *)
(* A poll takes the daemon's connections, resolves each address, merges    *)
(* all of them in one database transaction, prunes the rows the network    *)
(* page no longer shows and, in the first poll of a process, removes the   *)
(* local addresses that an older release stored.  Times are ages: a row    *)
(* grows older when time passes.                                           *)
(***************************************************************************)
EXTENDS GeoIP, Naturals

CONSTANTS
    Local,      \* the addresses for which isLocalAddress holds
    Worker,     \* the worker, as a caller of Resolve
    RetainHours \* RetainHours, which is network.history_hours

VARIABLES
    connected,  \* the addresses the daemon is connected to
    peers,      \* table peers
    ppc,        \* where the poll is
    todo,       \* the addresses not yet resolved
    batch,      \* what is known of the others: peers, in the code
    elapsed,    \* the time since getpeerinfo was answered
    firstRun,   \* Peers.firstRun
    doomed      \* toDelete of PruneLocalPeers

poll == <<ppc, todo, batch, elapsed, doomed>>

(* What a row may know beside its address: what the daemon only tells when  *)
(* the handshake is over, and the place.                                    *)
Shaken == {{}, {"height"}}
Field == {"height"} \cup Located
Age == 0..(RetainHours + 1)
Row == [known : SUBSET Field, age : Age]

ASSUME PeersAssumption ==
    /\ Local \subseteq Host
    /\ Worker \in Caller
    /\ RetainHours \in Nat
    /\ Nobody \notin Host
    /\ \A known \in SUBSET Field : known # Nobody
    /\ \A row \in Row : row # Nobody

NoBatch == [h \in Host |-> Nobody]

Idle == ppc = "idle" /\ todo = {} /\ batch = NoBatch /\ elapsed = 0 /\ doomed = {}

PeersTypeOK ==
    /\ connected \subseteq Host
    /\ peers \in [Host -> Row \cup {Nobody}]
    /\ ppc \in {"idle", "resolve", "prune", "scrub", "drop"}
    /\ todo \subseteq Host \ Local
    /\ batch \in [Host -> (SUBSET Field) \cup {Nobody}]
    /\ \A h \in todo \cup Local : batch[h] = Nobody
    /\ elapsed \in Age
    /\ firstRun \in BOOLEAN
    /\ doomed \subseteq Local
    /\ asking[Worker] \in todo \cup {Nobody}
    /\ ppc # "resolve" => todo = {}
    /\ ppc = "idle" => Idle

(* once returns; its local variables are dropped.                           *)
EndPoll == ppc' = "idle" /\ todo' = {} /\ batch' = NoBatch /\ elapsed' = 0 /\ doomed' = {}

(* An older release may have left rows of local addresses.                  *)
PeersInit ==
    /\ connected = {}
    /\ peers \in [Host -> {Nobody, [known |-> {}, age |-> 0]}]
    /\ \A h \in Host \ Local : peers[h] = Nobody
    /\ Idle
    /\ firstRun = FALSE

-----------------------------------------------------------------------------
(* getpeerinfo answers.  When it fails the poll is over, with nothing done. *)
PeersPoll ==
    /\ ppc = "idle"
    /\ ppc' = "resolve"
    /\ todo' = connected \ Local
    /\ UNCHANGED <<connected, peers, geo, batch, elapsed, firstRun, doomed>>

(* A slip: the loop comes to one address again and again.                   *)
AppendKeepsTodo(h, g) ==
    /\ UNCHANGED todo
    /\ \E s \in Shaken : batch' = [batch EXCEPT ![h] = s \cup g]
    /\ UNCHANGED <<connected, peers, ppc, elapsed, firstRun, doomed>>

(* One more peer for UpsertPeers: what the daemon says, and the place g.    *)
AppendPeer(h, g) ==
    /\ todo' = todo \ {h}
    /\ \E s \in Shaken : batch' = [batch EXCEPT ![h] = s \cup g]
    /\ UNCHANGED <<connected, peers, ppc, elapsed, firstRun, doomed>>

PeersHit(h) ==
    /\ h \in todo
    /\ asking[Worker] = Nobody
    /\ GeoHit(h)
    /\ AppendPeer(h, cache[h])
    /\ UNCHANGED geo

PeersAsk(h) ==
    /\ h \in todo
    /\ GeoAsk(Worker, h)
    /\ UNCHANGED <<connected, peers, poll, firstRun>>

PeersAnswer(g) ==
    /\ GeoAnswer(Worker, g)
    /\ AppendPeer(asking[Worker], g)

(* {} stands for a failing lookup, too.                                     *)
PeersUnstored(g) ==
    /\ GeoUnstored(Worker)
    /\ AppendPeer(asking[Worker], g)

(* A slip: ON CONFLICT(addr) overwrites every field.                        *)
UpsertOverwrites ==
    /\ ppc = "resolve" /\ todo = {}
    /\ peers' = [h \in Host |->
                    IF batch[h] = Nobody THEN peers[h]
                    ELSE [known |-> batch[h], age |-> elapsed]]
    /\ ppc' = "prune"
    /\ UNCHANGED <<connected, geo, todo, batch, elapsed, firstRun, doomed>>

(* What is stored is overwritten only by something that is known.           *)
Merged(h) == IF peers[h] = Nobody THEN batch[h] ELSE peers[h].known \cup batch[h]

(* A slip: every row is seen again, connected or not.                       *)
UpsertTouchesAll ==
    /\ ppc = "resolve" /\ todo = {}
    /\ peers' = [h \in Host |->
                    IF batch[h] # Nobody THEN [known |-> Merged(h), age |-> elapsed]
                    ELSE IF peers[h] # Nobody THEN [peers[h] EXCEPT !.age = elapsed]
                    ELSE Nobody]
    /\ ppc' = "prune"
    /\ UNCHANGED <<connected, geo, todo, batch, elapsed, firstRun, doomed>>

UpsertPeers ==
    /\ ppc = "resolve" /\ todo = {}
    /\ peers' = [h \in Host |->
                    IF batch[h] = Nobody THEN peers[h]
                    ELSE [known |-> Merged(h), age |-> elapsed]]
    /\ ppc' = "prune"
    /\ UNCHANGED <<connected, geo, todo, batch, elapsed, firstRun, doomed>>

(* The transaction fails, and the poll goes on.                             *)
UpsertFails ==
    /\ ppc = "resolve" /\ todo = {}
    /\ ppc' = "prune"
    /\ UNCHANGED <<connected, peers, geo, todo, batch, elapsed, firstRun, doomed>>

-----------------------------------------------------------------------------
(* firstRun is set before the scrub is known to succeed.                    *)
AfterPrune ==
    IF firstRun THEN EndPoll /\ UNCHANGED firstRun
    ELSE firstRun' = TRUE /\ ppc' = "scrub" /\ UNCHANGED <<todo, batch, elapsed, doomed>>

(* A slip of the comparison: last_seen <= cutoff.                           *)
ExpiredEarly == {h \in Host : peers[h] # Nobody /\ peers[h].age >= RetainHours}

Expired == {h \in Host : peers[h] # Nobody /\ peers[h].age > RetainHours}

PrunePeersOlderThan ==
    /\ ppc = "prune"
    /\ peers' = [h \in Host |-> IF h \in Expired THEN Nobody ELSE peers[h]]
    /\ AfterPrune
    /\ UNCHANGED <<connected, geo>>

PruneFails ==
    /\ ppc = "prune"
    /\ AfterPrune
    /\ UNCHANGED <<connected, peers, geo>>

(* PruneLocalPeers: a query, then one deletion after the other.             *)
ScrubSelect ==
    /\ ppc = "scrub"
    /\ ppc' = "drop"
    /\ doomed' = {h \in Local : peers[h] # Nobody}
    /\ UNCHANGED <<connected, peers, geo, todo, batch, elapsed, firstRun>>

ScrubDelete(h) ==
    /\ ppc = "drop"
    /\ h \in doomed
    /\ peers' = [peers EXCEPT ![h] = Nobody]
    /\ doomed' = doomed \ {h}
    /\ UNCHANGED <<connected, geo, ppc, todo, batch, elapsed, firstRun>>

(* Nothing is left to delete, or a statement fails.                         *)
ScrubEnd ==
    /\ ppc \in {"scrub", "drop"}
    /\ EndPoll
    /\ UNCHANGED <<connected, peers, geo, firstRun>>

PeersStep ==
    \/ PeersPoll
    \/ \E h \in Host : PeersHit(h) \/ PeersAsk(h) \/ ScrubDelete(h)
    \/ \E g \in Answer : PeersAnswer(g) \/ PeersUnstored(g)
    \/ UpsertPeers \/ UpsertFails
    \/ PrunePeersOlderThan \/ PruneFails
    \/ ScrubSelect \/ ScrubEnd
=============================================================================
