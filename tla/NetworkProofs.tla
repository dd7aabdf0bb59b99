---------------------------- MODULE NetworkProofs ----------------------------
(***************************************************************************)
(* For any sets of addresses and requests, any window and any number of    *)
(* restarts: the types of the network component, that no step erases what  *)
(* is known of a peer, and that a listed peer leaves the page by age only. *)
(***************************************************************************)
EXTENDS Network, TLAPS

(* The steps that write the table of peers are these; every other step      *)
(* leaves it as it is (Peers.once, PruneLocalPeers, and the passing of      *)
(* time).                                                                   *)
Writes ==
    \/ UpsertPeers
    \/ PrunePeersOlderThan
    \/ \E h \in Host : ScrubDelete(h)
    \/ Tick

(* Every other step leaves the table alone, read off the actions of the     *)
(* worker, the requests and the daemon.                                     *)
LEMMA OnlyWrites == [NetNext]_netVars => Writes \/ UNCHANGED peers
<1> SUFFICES ASSUME [NetNext]_netVars, ~Writes PROVE UNCHANGED peers
    OBVIOUS
<1>1. CASE PeersStep
  <2>1. CASE PeersPoll
        BY <2>1 DEF PeersPoll
  <2>2. CASE \E h \in Host : PeersHit(h) \/ PeersAsk(h)
        BY <2>2 DEF PeersHit, PeersAsk, AppendPeer
  <2>3. CASE \E g \in Answer : PeersAnswer(g) \/ PeersUnstored(g)
        BY <2>3 DEF PeersAnswer, PeersUnstored, AppendPeer
  <2>4. CASE UpsertFails \/ PruneFails \/ ScrubSelect \/ ScrubEnd
        BY <2>4 DEF UpsertFails, PruneFails, ScrubSelect, ScrubEnd
  <2> QED
      BY <1>1, <2>1, <2>2, <2>3, <2>4 DEF PeersStep, Writes
<1>2. CASE FetchSelfPeers
      BY <1>2 DEF FetchSelfPeers, SelfAsk, SelfAnswer, SelfUnstored, Unlisted
<1>3. CASE (\E h \in Host : Connect(h)) \/ Restart
      BY <1>3 DEF Connect, Restart
<1>4. CASE UNCHANGED netVars
      BY <1>4 DEF netVars
<1> QED
    BY <1>1, <1>2, <1>3, <1>4 DEF NetNext, Writes
-----------------------------------------------------------------------------
(* A row grows older, or stays as old as the table tells apart.             *)
LEMMA OlderIsAge == \A age \in Age : Older(age) \in Age
    BY PeersAssumption DEF Age, Older

(* An answer of the lookup, with what the daemon tells, is a set of fields  *)
(* (AppendPeer).                                                            *)
LEMMA FieldsKnown == \A g \in Answer, s \in Shaken : s \cup g \in SUBSET Field
    BY DEF Answer, Shaken, Field, Located

(* Merging keeps a set of fields (UpsertPeers).                             *)
LEMMA MergedKnown ==
    ASSUME PeersTypeOK, NEW h \in Host, batch[h] # Nobody
    PROVE  Merged(h) \in SUBSET Field
    BY PeersAssumption DEF Merged, PeersTypeOK, Row

(* Initially the tables are well-formed, rows of an older release included. *)
LEMMA NetInitTypes == NetInit => NetTypeOK
<1> SUFFICES ASSUME NetInit PROVE NetTypeOK
    OBVIOUS
<1>1. GeoTypeOK
      BY DEF NetInit, GeoInit, GeoTypeOK, Answer
<1>2. 0 \in Age /\ [known |-> {}, age |-> 0] \in Row
      BY PeersAssumption DEF Age, Row
<1>3. peers \in [Host -> Row \cup {Nobody}]
      BY <1>2 DEF NetInit, PeersInit
<1>4. asking[Worker] = Nobody
      BY PeersAssumption DEF NetInit, GeoInit
<1>5. PeersTypeOK
      BY <1>2, <1>3, <1>4, PeersAssumption
      DEF NetInit, PeersInit, PeersTypeOK, Idle, NoBatch
<1> QED
    BY <1>1, <1>5, NetworkAssumption DEF NetTypeOK, NetInit

(* Resolving an address for the worker: it is appended to the batch with a  *)
(* set of fields, and is not asked for again.                               *)
LEMMA AppendTypes ==
    ASSUME PeersTypeOK, NEW h \in todo, NEW g \in Answer, AppendPeer(h, g),
           asking'[Worker] = Nobody
    PROVE  PeersTypeOK'
<1>1. PICK s \in Shaken : batch' = [batch EXCEPT ![h] = s \cup g]
      BY DEF AppendPeer
<1>2. s \cup g \in SUBSET Field
      BY FieldsKnown
<1>3. batch' \in [Host -> (SUBSET Field) \cup {Nobody}]
      BY <1>1, <1>2 DEF PeersTypeOK
<1>4. \A i \in todo' \cup Local : batch'[i] = Nobody
      BY <1>1, PeersAssumption DEF PeersTypeOK, AppendPeer
<1> QED
    BY <1>3, <1>4 DEF PeersTypeOK, AppendPeer

(* The steps of the worker that resolve addresses keep the types.           *)
LEMMA ResolveTypes ==
    ASSUME GeoTypeOK, PeersTypeOK,
           \/ \E h \in Host : PeersHit(h) \/ PeersAsk(h)
           \/ \E g \in Answer : PeersAnswer(g) \/ PeersUnstored(g)
    PROVE  GeoTypeOK' /\ PeersTypeOK'
<1>1. ASSUME NEW h \in Host, PeersHit(h) PROVE GeoTypeOK' /\ PeersTypeOK'
  <2>1. cache[h] \in Answer
        BY <1>1 DEF PeersHit, GeoHit, Answer
  <2>2. GeoTypeOK' /\ asking'[Worker] = Nobody
        BY <1>1 DEF PeersHit, geo, GeoTypeOK
  <2> QED
      BY <1>1, <2>1, <2>2, AppendTypes DEF PeersHit
<1>2. ASSUME NEW h \in Host, PeersAsk(h) PROVE GeoTypeOK' /\ PeersTypeOK'
  <2>1. GeoTypeOK' /\ asking'[Worker] \in todo
        BY <1>2, PeersAssumption DEF PeersAsk, GeoAsk, GeoTypeOK
  <2> QED
      BY <1>2, <2>1 DEF PeersAsk, PeersTypeOK, poll
<1>3. ASSUME NEW g \in Answer, PeersAnswer(g) \/ PeersUnstored(g)
      PROVE GeoTypeOK' /\ PeersTypeOK'
  <2>1. asking[Worker] \in todo
        BY <1>3 DEF PeersAnswer, PeersUnstored, GeoAnswer, GeoUnstored, PeersTypeOK
  <2>2. GeoTypeOK' /\ asking'[Worker] = Nobody
        BY <1>3, <2>1, PeersAssumption
        DEF PeersAnswer, PeersUnstored, GeoAnswer, GeoUnstored, GeoTypeOK, PeersTypeOK
  <2> QED
      BY <1>3, <2>1, <2>2, AppendTypes DEF PeersAnswer, PeersUnstored
<1> QED
    BY <1>1, <1>2, <1>3

(* The rest of a poll keeps the types: the daemon's answer, the merge, the  *)
(* pruning and the scrub.                                                   *)
LEMMA PollTypes ==
    ASSUME GeoTypeOK, PeersTypeOK,
           \/ PeersPoll \/ UpsertPeers \/ UpsertFails
           \/ PrunePeersOlderThan \/ PruneFails
           \/ ScrubSelect \/ ScrubEnd \/ \E h \in Host : ScrubDelete(h)
    PROVE  GeoTypeOK' /\ PeersTypeOK'
<1>0. 0 \in Age
      BY PeersAssumption DEF Age
<1>1. CASE PeersPoll
      BY <1>1, PeersAssumption DEF PeersPoll, Idle, NoBatch, PeersTypeOK, GeoTypeOK, geo
<1>2. CASE UpsertPeers
  <2>1. ASSUME NEW h \in Host, batch[h] # Nobody
        PROVE  [known |-> Merged(h), age |-> elapsed] \in Row
        BY <2>1, MergedKnown DEF Row, PeersTypeOK
  <2>2. peers' \in [Host -> Row \cup {Nobody}]
        BY <1>2, <2>1 DEF UpsertPeers, PeersTypeOK
  <2> QED
      BY <1>2, <2>2 DEF UpsertPeers, PeersTypeOK, GeoTypeOK, geo
<1>3. CASE UpsertFails
      BY <1>3 DEF UpsertFails, PeersTypeOK, GeoTypeOK, geo
<1>4. CASE PrunePeersOlderThan \/ PruneFails
  <2>1. peers' \in [Host -> Row \cup {Nobody}]
        BY <1>4 DEF PrunePeersOlderThan, PruneFails, PeersTypeOK
  <2>2. GeoTypeOK' /\ connected' = connected /\ asking' = asking
        BY <1>4 DEF PrunePeersOlderThan, PruneFails, GeoTypeOK, geo
  <2>3. ppc = "prune" /\ todo = {} /\ AfterPrune
        BY <1>4 DEF PrunePeersOlderThan, PruneFails, PeersTypeOK
  <2>4. CASE firstRun
        BY <1>0, <2>1, <2>2, <2>3, <2>4, PeersAssumption
        DEF AfterPrune, EndPoll, Idle, NoBatch, PeersTypeOK
  <2>5. CASE ~firstRun
        BY <2>1, <2>2, <2>3, <2>5 DEF AfterPrune, PeersTypeOK
  <2> QED
      BY <2>2, <2>4, <2>5
<1>5. CASE ScrubSelect
      BY <1>5 DEF ScrubSelect, PeersTypeOK, GeoTypeOK, geo
<1>6. CASE ScrubEnd
      BY <1>0, <1>6, PeersAssumption
      DEF ScrubEnd, EndPoll, Idle, NoBatch, PeersTypeOK, GeoTypeOK, geo
<1>7. ASSUME NEW h \in Host, ScrubDelete(h) PROVE GeoTypeOK' /\ PeersTypeOK'
      BY <1>7 DEF ScrubDelete, PeersTypeOK, GeoTypeOK, geo
<1> QED
    BY <1>1, <1>2, <1>3, <1>4, <1>5, <1>6, <1>7

(* So do the requests, the daemon, time and restarts.                       *)
LEMMA OtherTypes ==
    ASSUME NetTypeOK, FetchSelfPeers \/ (\E h \in Host : Connect(h)) \/ Tick \/ Restart
    PROVE  NetTypeOK'
<1> USE DEF NetTypeOK
<1>0. PeersTypeOK /\ UNCHANGED <<connected, peers, poll, firstRun>> /\ asking'[Worker] = asking[Worker]
        => PeersTypeOK'
      BY DEF poll, PeersTypeOK, Idle, NoBatch
<1>1. CASE FetchSelfPeers
  <2>1. GeoTypeOK' /\ asking'[Worker] = asking[Worker]
        BY <1>1, NetworkAssumption, PeersAssumption
        DEF FetchSelfPeers, SelfAsk, SelfAnswer, SelfUnstored,
            GeoAsk, GeoAnswer, GeoUnstored, GeoTypeOK
  <2>2. Unlisted
        BY <1>1 DEF FetchSelfPeers, SelfAsk, SelfAnswer, SelfUnstored
  <2> QED
      BY <1>0, <2>1, <2>2 DEF Unlisted
<1>2. CASE \E h \in Host : Connect(h)
      BY <1>2 DEF Connect, Idle, NoBatch, PeersTypeOK, GeoTypeOK, geo, poll
<1>3. CASE Tick
  <2>1. ASSUME NEW h \in Host, peers[h] # Nobody
        PROVE  [known |-> peers[h].known, age |-> Older(peers[h].age)] \in Row
        BY <2>1, OlderIsAge DEF Row, PeersTypeOK
  <2>2. peers' \in [Host -> Row \cup {Nobody}]
        BY <1>3, <2>1 DEF Tick, PeersTypeOK
  <2>3. elapsed' \in Age
        BY <1>3, OlderIsAge, PeersAssumption DEF Tick, PeersTypeOK, Age
  <2> QED
      BY <1>3, <2>2, <2>3 DEF Tick, Idle, NoBatch, PeersTypeOK, GeoTypeOK, geo
<1>4. CASE Restart
  <2>1. restarts' \in 0..MaxRestarts /\ 0 \in Age
        BY <1>4, NetworkAssumption, PeersAssumption DEF Restart, Age
  <2>2. GeoTypeOK' /\ asking'[Worker] = Nobody
        BY <1>4, PeersAssumption DEF Restart, GeoTypeOK
  <2> QED
      BY <1>4, <2>1, <2>2, PeersAssumption DEF Restart, EndPoll, Idle, NoBatch, PeersTypeOK
<1> QED
    BY <1>1, <1>2, <1>3, <1>4

(* The type invariant is inductive: NetTypeOK needs nothing else.           *)
LEMMA NetNextTypes == NetTypeOK /\ [NetNext]_netVars => NetTypeOK'
<1> SUFFICES ASSUME NetTypeOK, [NetNext]_netVars PROVE NetTypeOK'
    OBVIOUS
<1>1. CASE PeersStep /\ UNCHANGED restarts
      BY <1>1, ResolveTypes, PollTypes DEF PeersStep, NetTypeOK
<1>2. CASE FetchSelfPeers \/ (\E h \in Host : Connect(h)) \/ Tick \/ Restart
      BY <1>2, OtherTypes
<1>3. CASE UNCHANGED netVars
      BY <1>3 DEF netVars, geo, poll, Idle, NoBatch, NetTypeOK, GeoTypeOK, PeersTypeOK
<1> QED
    BY <1>1, <1>2, <1>3 DEF NetNext

(* The tables and the worker's variables keep their types at any            *)
(* interleaving of polls, requests, time and restarts.                      *)
THEOREM NetTypes == NetSpec => []NetTypeOK
    BY NetInitTypes, NetNextTypes, PTL DEF NetSpec
-----------------------------------------------------------------------------
(* One step never erases what a row knows: the merge is the only step that  *)
(* writes it, and time the only other that writes the row and keeps it.     *)
LEMMA StepErasesNothing ==
    ASSUME NetTypeOK, [NetNext]_netVars,
           NEW h \in Host, peers[h] # Nobody, peers'[h] # Nobody
    PROVE  peers[h].known \subseteq peers'[h].known
<1>1. CASE UpsertPeers
      BY <1>1 DEF UpsertPeers, Merged
<1>2. CASE PrunePeersOlderThan
      BY <1>2 DEF PrunePeersOlderThan
<1>3. CASE \E i \in Host : ScrubDelete(i)
      BY <1>3 DEF ScrubDelete, NetTypeOK, PeersTypeOK
<1>4. CASE Tick
      BY <1>4 DEF Tick, NetTypeOK, PeersTypeOK, Row
<1> QED
    BY <1>1, <1>2, <1>3, <1>4, OnlyWrites DEF Writes

(* Known-good data is never erased (UpsertPeers, store/peers.go:19-22).     *)
THEOREM ErasesNothing == NetSpec => NothingErased
<1>1. NetTypeOK /\ [NetNext]_netVars
        => [\A h \in Host : peers[h] # Nobody /\ peers'[h] # Nobody
               => peers[h].known \subseteq peers'[h].known]_netVars
      BY StepErasesNothing
<1> QED
    BY <1>1, NetTypes, PTL DEF NetSpec, NothingErased

(* One step never deletes a row of a public peer that the page lists: the   *)
(* pruning deletes what is too old for the page, the scrub local addresses. *)
LEMMA StepKeepsListed ==
    ASSUME NetTypeOK, [NetNext]_netVars, NEW h \in Listed \ Local
    PROVE  peers'[h] # Nobody
<1>0. h \in Host /\ peers[h] # Nobody /\ peers[h].age <= RetainHours /\ peers[h] \in Row
      BY DEF Listed, NetTypeOK, PeersTypeOK
<1>1. CASE UpsertPeers
  <2>1. batch[h] # Nobody => [known |-> Merged(h), age |-> elapsed] \in Row
        BY <1>0, MergedKnown DEF NetTypeOK, PeersTypeOK, Row
  <2> QED
      BY <1>0, <1>1, <2>1, PeersAssumption DEF UpsertPeers
<1>2. CASE PrunePeersOlderThan
  <2>1. h \notin Expired
        BY <1>0, PeersAssumption DEF Expired, Row, Age
  <2> QED
      BY <1>0, <1>2, <2>1 DEF PrunePeersOlderThan
<1>3. CASE \E i \in Host : ScrubDelete(i)
      BY <1>0, <1>3 DEF ScrubDelete, NetTypeOK, PeersTypeOK
<1>4. CASE Tick
  <2>1. [known |-> peers[h].known, age |-> Older(peers[h].age)] \in Row
        BY <1>0, OlderIsAge DEF Row
  <2> QED
      BY <1>0, <1>4, <2>1, PeersAssumption DEF Tick
<1> QED
    BY <1>0, <1>1, <1>2, <1>3, <1>4, OnlyWrites DEF Writes

(* The worker never deletes a row the network page shows                    *)
(* (PrunePeersOlderThan against ListPeersActiveSince).                      *)
THEOREM KeepsListed == NetSpec => ListedLeavesByAge
<1>1. NetTypeOK /\ [NetNext]_netVars
        => [\A h \in Listed \ Local : peers'[h] # Nobody]_netVars
      BY StepKeepsListed
<1> QED
    BY <1>1, NetTypes, PTL DEF NetSpec, ListedLeavesByAge
=============================================================================
