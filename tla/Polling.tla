------------------------------- MODULE Polling -------------------------------
(***************************************************************************)
(* The refresh of a page by htmx and its pause while the tab is hidden     *)
(* (app.js, pauseHxPolling and resumeHxPolling).  All elements with a      *)
(* trigger "every ..." are treated alike.                                  *)
(***************************************************************************)
EXTENDS Tabs

VARIABLES
    hidden,     \* document.hidden
    hook,       \* pauseHxPolling waits for DOMContentLoaded
    stashed,    \* the triggers are in data-hx-trigger-stashed
    polling     \* the intervals of htmx are running

tabs == <<hidden, hook, stashed, polling>>

PollingTypeOK ==
    /\ hidden \in [Tab -> BOOLEAN]
    /\ hook \in [Tab -> BOOLEAN]
    /\ stashed \in [Tab -> BOOLEAN]
    /\ polling \in [Tab -> BOOLEAN]
    /\ \A t \in Tab : polling[t] => ~stashed[t]

PollingInit ==
    /\ hidden = [t \in Tab |-> FALSE]
    /\ hook = [t \in Tab |-> FALSE]
    /\ stashed = [t \in Tab |-> FALSE]
    /\ polling = [t \in Tab |-> FALSE]

(* A page arrives, in a tab that is shown or in the background.             *)
PageArrives(t) ==
    /\ \E h \in BOOLEAN : hidden' = [hidden EXCEPT ![t] = h]
    /\ hook' = [hook EXCEPT ![t] = FALSE]
    /\ stashed' = [stashed EXCEPT ![t] = FALSE]
    /\ polling' = [polling EXCEPT ![t] = FALSE]

(* A slip: the hook is not set.                                             *)
InitialStateIgnored(t) == UNCHANGED tabs

(* app.js runs: a page that is hidden pauses once it is loaded.             *)
InitialState(t) ==
    /\ hook' = [hook EXCEPT ![t] = hidden[t]]
    /\ UNCHANGED <<hidden, stashed, polling>>

(* A slip: the triggers are removed and not put aside.                      *)
DropTriggers(t) ==
    /\ UNCHANGED stashed
    /\ polling' = [polling EXCEPT ![t] = FALSE]

(* A slip: htmx is not told that the triggers are gone.                     *)
PauseUnprocessed(t) ==
    /\ stashed' = [stashed EXCEPT ![t] = TRUE]
    /\ UNCHANGED polling

pauseHxPolling(t) ==
    /\ stashed' = [stashed EXCEPT ![t] = TRUE]
    /\ polling' = [polling EXCEPT ![t] = FALSE]

resumeHxPolling(t) ==
    /\ stashed' = [stashed EXCEPT ![t] = FALSE]
    /\ polling' = [polling EXCEPT ![t] = stashed[t] \/ @]

(* DOMContentLoaded: htmx starts what has a trigger, then the hook runs.    *)
Loaded(t) ==
    /\ IF hook[t] THEN pauseHxPolling(t)
       ELSE UNCHANGED stashed /\ polling' = [polling EXCEPT ![t] = ~stashed[t]]
    /\ hook' = [hook EXCEPT ![t] = FALSE]
    /\ UNCHANGED hidden

(* The tab is hidden or shown; before app.js runs nobody listens.           *)
VisibilityChange(t, listening) ==
    /\ hidden' = [hidden EXCEPT ![t] = ~@]
    /\ IF ~listening THEN UNCHANGED <<stashed, polling>>
       ELSE IF hidden[t] THEN resumeHxPolling(t)
       ELSE pauseHxPolling(t)
    /\ UNCHANGED hook
=============================================================================
