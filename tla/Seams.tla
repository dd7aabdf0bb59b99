-------------------------------- MODULE Seams --------------------------------
(***************************************************************************)
(* The syncer with a history variable that remembers whether the daemon    *)
(* has left its chain while the tick was running.  once compares the       *)
(* stored chain with the daemon's before its ingest loop only, and nothing *)
(* compares prev_hash later: this module says what that costs, and that    *)
(* nothing else costs the same.                                            *)
(***************************************************************************)
EXTENDS Syncer

VARIABLE torn   \* history: in this tick the daemon moved to a tip that is not above its old one

SeamInit == SyncInit /\ torn = FALSE

(* A tick begins untorn, and what happens between two ticks does not count. *)
SeamNext ==
    /\ SyncNext
    /\ torn' = (spc # "idle" /\ spc' # "idle" /\ (torn \/ ~Extends(tip')))

SeamSpec == SeamInit /\ [][SeamNext]_<<syncVars, torn>>

FairSeamSpec == SeamSpec /\ SyncFairness

(* A block of one fork is stored above a block of another only by a tick in *)
(* the middle of which the daemon reorganised.  In every other tick each    *)
(* block is stored above an ancestor of its own, new blocks of the daemon,  *)
(* a walk over several heights, the gap that walk leaves and a seam left by *)
(* an earlier tick notwithstanding (syncer.go:70-84).                       *)
SeamsOnlyByReorg ==
    [][\A g, h \in Heights :
          IsLatest(g) /\ blocks[h] = NoBlock /\ blocks'[h] # NoBlock
             => torn \/ blocks[g] = Ancestor[blocks'[h]][g]]_<<syncVars, torn>>
=============================================================================
