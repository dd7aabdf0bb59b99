-------------------------------- MODULE Page --------------------------------
(***************************************************************************)
(* The pages of the explorer in the tabs of one browser: loading, language,*)
(* refresh and charts together.  A script is one task of its tab, and the  *)
(* tasks of all tabs interleave.                                           *)
(***************************************************************************)
EXTENDS I18n, Polling, Charts

VARIABLE phase  \* per tab: "closed", "head", "script", "loaded"

pageVars == <<served, storage, i18n, tabs, charts, phase>>

Becomes(t, p) == phase' = [phase EXCEPT ![t] = p]

PageInit == I18nInit /\ PollingInit /\ ChartsInit /\ phase = [t \in Tab |-> "closed"]

(* A page is opened, or the tab goes to another one.                        *)
Load(t) == Head(t) /\ PageArrives(t) /\ NewTiles(t) /\ Becomes(t, "head")

Script(t) ==
    /\ phase[t] = "head"
    /\ initI18n(t) /\ InitialState(t) /\ UNCHANGED charts
    /\ Becomes(t, "script")

DOMContentLoaded(t) ==
    /\ phase[t] = "script"
    /\ EarlyPaint(t) /\ Loaded(t) /\ UNCHANGED charts
    /\ Becomes(t, "loaded")

Choose(t, l) == phase[t] = "loaded" /\ setLang(t, l) /\ UNCHANGED <<tabs, charts, phase>>

Answered(t) ==
    /\ \E f \in Fetch : FetchDone(t, f) \/ FetchFailed(t, f)
    /\ UNCHANGED <<tabs, charts, phase>>

(* An answer to a poll, or to the refresh button, is swapped in: rows, or   *)
(* the tiles of the header.                                                 *)
Swap(t) ==
    /\ phase[t] = "loaded"
    /\ afterSwap(t)
    /\ UNCHANGED charts \/ SwapTiles(t)
    /\ UNCHANGED <<tabs, phase>>

Series(t) ==
    /\ phase[t] = "loaded"
    /\ renderPriceSparkline(t)
    /\ UNCHANGED <<served, storage, i18n, tabs, phase>>

Visibility(t) ==
    /\ phase[t] # "closed"
    /\ VisibilityChange(t, phase[t] # "head")
    /\ UNCHANGED <<served, storage, i18n, charts, phase>>

Outside == (LangExpires \/ Upgrade) /\ UNCHANGED <<tabs, charts, phase>>

PageNext ==
    \/ \E t \in Tab :
          \/ Load(t) \/ Script(t) \/ DOMContentLoaded(t)
          \/ Answered(t) \/ Swap(t) \/ Series(t) \/ Visibility(t)
          \/ \E l \in Lang : Choose(t, l)
    \/ Outside

PageSpec == PageInit /\ [][PageNext]_pageVars

-----------------------------------------------------------------------------
(* Properties *)

PageTypeOK ==
    /\ I18nTypeOK
    /\ PollingTypeOK
    /\ charts \in [Charted -> Chart]
    /\ phase \in [Tab -> {"closed", "head", "script", "loaded"}]

(* No page is ever in a catalog older than itself, so that a string added   *)
(* later does not silently fall back to English (app.js:36-43), although    *)
(* pages of several builds write to the one cache.                          *)
NotOutdated ==
    \A t \in Tab :
        \A c \in shown[t] \cup {currentCatalog[t], early[t]} :
            c # None => c.from >= build[t]

(* "zero background fetches in inactive tabs" (app.js:199), for a page that *)
(* was hidden while it loaded, too.                                         *)
HiddenIsQuiet ==
    \A t \in Tab : phase[t] = "loaded" /\ hidden[t] => ~polling[t]

(* A page that becomes visible refreshes again (app.js:198-199).            *)
ResumesPolling ==
    [][\A t \in Tab :
          phase[t] = "loaded" /\ phase'[t] = "loaded" /\ hidden[t] /\ ~hidden'[t]
              => polling'[t]]_pageVars

(* The tiles are swapped every ten seconds and the series come in between,  *)
(* and yet, whenever the tile is there and the last series has two points,  *)
(* one chart is in it, and it is of that series (app.js:286-292).           *)
ChartCurrent ==
    \A t \in Charted :
        /\ charts[t].drawn <= 1
        /\ charts[t].mount /\ charts[t].series = "long"
              => charts[t].drawn = 1 /\ charts[t].plot = [here |-> TRUE, fresh |-> TRUE]

(* "newly-inserted rows pick up the currently-selected language"            *)
(* (app.js:396): when no fetch is out, they are in it, or in English.       *)
RowsInSelectedLanguage ==
    \A t \in Tab :
        phase[t] = "loaded" /\ fetches[t] = {} /\ currentCatalog[t] # None
            => currentCatalog[t].lang = currentLang[t]
=============================================================================
