------------------------------ MODULE PageProofs ------------------------------
(***************************************************************************)
(* For any number of tabs, languages and upgrades: no page is in a catalog *)
(* older than itself, hidden pages are quiet, and visible ones refresh.    *)
(* The invariant behind the first is about the shared cache: what is       *)
(* stored under a stamp is of that build or a later one, because a page    *)
(* fetches after it was served and the server is never downgraded.         *)
(***************************************************************************)
EXTENDS Page, TLAPS

(* The strings of catalog c are no older than build b.                      *)
Covers(c, b) == c # None => c.from >= b

StampsHold ==
    \A l \in Lang \ {English} :
        storedCatalog[l] # None => storedCatalog[l].from >= storedCatalog[l].v

PagesCovered ==
    \A t \in Tab :
        /\ Covers(early[t], build[t])
        /\ Covers(currentCatalog[t], build[t])
        /\ \A c \in shown[t] : Covers(c, build[t])

PInv == I18nTypeOK /\ StampsHold /\ PagesCovered

(* A catalog taken from the cache is no older than the build it is asked    *)
(* for (loadCachedCatalog).                                                 *)
LEMMA CachedCovers ==
    ASSUME PInv, NEW l \in Lang, NEW b \in Build
    PROVE  LET c == loadCachedCatalog(l, b) IN c \in Catalog \cup {None} /\ Covers(c, b)
<1>1. CASE l # English /\ storedCatalog[l] # None /\ storedCatalog[l].v = b
  <2>1. storedCatalog[l] \in Stamped /\ storedCatalog[l].from >= b
        BY <1>1 DEF PInv, I18nTypeOK, StampsHold
  <2>2. [lang |-> l, from |-> storedCatalog[l].from] \in Catalog
        BY <1>1, <2>1 DEF Catalog, Stamped
  <2> QED
      BY <1>1, <2>1, <2>2 DEF loadCachedCatalog, Covers
<1>2. CASE ~(l # English /\ storedCatalog[l] # None /\ storedCatalog[l].v = b)
      BY <1>2 DEF loadCachedCatalog, Covers
<1> QED
    BY <1>1, <1>2

(* The language of a page is a supported one (resolveLang).                 *)
LEMMA ResolvedIsLang == PInv => resolveLang \in Lang
    BY I18nAssumption DEF PInv, I18nTypeOK, resolveLang

(* Applying a catalog that covers the page keeps the pages covered          *)
(* (applyLang).                                                             *)
LEMMA ApplyKeeps ==
    ASSUME PInv, NEW t \in Tab, NEW c \in Catalog \cup {None}, Covers(c, build[t]),
           Apply(t, c), UNCHANGED <<served, build, early>>,
           StampsHold', storedLang' \in Lang \cup {None},
           storedCatalog' \in [Lang \ {English} -> Stamped \cup {None}],
           currentLang' \in [Tab -> Lang],
           fetches' \in [Tab -> SUBSET Fetch], \A i \in Tab : fetches'[i] \subseteq fetches[i]
    PROVE  PInv'
<1>1. /\ currentCatalog' \in [Tab -> Catalog \cup {None}]
      /\ shown' \in [Tab -> SUBSET (Catalog \cup {None})]
      BY DEF Apply, PInv, I18nTypeOK
<1>2. PagesCovered'
      BY DEF Apply, PInv, PagesCovered, I18nTypeOK, Covers
<1> QED
    BY <1>1, <1>2 DEF PInv, I18nTypeOK

(* So does choosing between the cache and a fetch (setLang, initI18n).      *)
LEMMA ApplyOrFetchKeeps ==
    ASSUME PInv, NEW t \in Tab, NEW l \in Lang, ApplyOrFetch(t, l),
           UNCHANGED <<served, build, early, storedCatalog>>,
           storedLang' \in Lang \cup {None}, currentLang' \in [Tab -> Lang]
    PROVE  PInv'
<1> DEFINE c == loadCachedCatalog(l, build[t])
<1>0. StampsHold' /\ build[t] \in Build
      BY DEF PInv, StampsHold, I18nTypeOK
<1>1. c \in Catalog \cup {None} /\ Covers(c, build[t])
      BY <1>0, CachedCovers
<1>2. CASE l = English \/ c # None
  <2>1. Apply(t, c) /\ UNCHANGED fetches
        BY <1>2 DEF ApplyOrFetch
  <2> HIDE DEF c
  <2> QED
      BY <1>0, <1>1, <2>1, ApplyKeeps DEF PInv, I18nTypeOK
<1>3. CASE ~(l = English \/ c # None)
  <2>1. /\ fetches' = [fetches EXCEPT ![t] = @ \cup {[lang |-> l, since |-> served]}]
        /\ UNCHANGED <<currentCatalog, shown>>
        BY <1>3 DEF ApplyOrFetch
  <2>2. [lang |-> l, since |-> served] \in Fetch
        BY <1>3 DEF Fetch, PInv, I18nTypeOK
  <2>3. build[t] <= served
        BY DEF PInv, I18nTypeOK
  <2>4. PagesCovered'
        BY <2>1 DEF PInv, PagesCovered
  <2>5. \A i \in Tab : \A f \in fetches'[i] : build[i] <= f.since /\ f.since <= served
        BY <2>1, <2>3, <1>0 DEF PInv, I18nTypeOK, Build
  <2> QED
      BY <1>0, <2>1, <2>2, <2>4, <2>5 DEF PInv, I18nTypeOK
<1> QED
    BY <1>2, <1>3
-----------------------------------------------------------------------------
(* A page starts covered: its early catalog is from the cache, under the    *)
(* stamp of the build that serves it (the script of layout.html).           *)
LEMMA HeadKeeps ==
    ASSUME PInv, NEW t \in Tab, Head(t) PROVE PInv'
<1> DEFINE c == loadCachedCatalog(resolveLang, served)
<1>1. served \in Build /\ StampsHold'
      BY DEF PInv, I18nTypeOK, Head, storage, StampsHold
<1>2. c \in Catalog \cup {None} /\ Covers(c, served)
      BY <1>1, CachedCovers, ResolvedIsLang
<1>3. early' = [early EXCEPT ![t] = c]
      BY DEF Head
<1> HIDE DEF c
<1>4. PagesCovered'
      BY <1>2, <1>3 DEF Head, PInv, PagesCovered, Covers, I18nTypeOK
<1>5. \A i \in Tab : build'[i] <= served'
      BY <1>1 DEF Head, PInv, I18nTypeOK, Build
<1>6. \A i \in Tab : \A f \in fetches'[i] : build'[i] <= f.since /\ f.since <= served'
      BY DEF Head, PInv, I18nTypeOK
<1> QED
    BY <1>1, <1>2, <1>3, <1>4, <1>5, <1>6, I18nAssumption
    DEF Head, PInv, I18nTypeOK, storage

(* An answer is stored under the stamp of the page and applied to it; both  *)
(* hold, since the server was not downgraded since the page was served      *)
(* (fetchCatalog).                                                          *)
LEMMA FetchDoneKeeps ==
    ASSUME PInv, NEW t \in Tab, NEW f \in Fetch, FetchDone(t, f) PROVE PInv'
<1>1. PICK from \in f.since..served :
         /\ Apply(t, [lang |-> f.lang, from |-> from])
         /\ storedCatalog' \in {storedCatalog,
               [storedCatalog EXCEPT ![f.lang] = [v |-> build[t], from |-> from]]}
      BY DEF FetchDone
<1>2. build[t] \in Build /\ served \in Build /\ f.since \in Build /\ build[t] <= f.since
      BY DEF FetchDone, PInv, I18nTypeOK, Fetch
<1>3. from \in Build /\ from >= build[t]
      BY <1>1, <1>2, I18nAssumption DEF Build
<1> DEFINE c == [lang |-> f.lang, from |-> from]
           e == [v |-> build[t], from |-> from]
<1>4. c \in Catalog /\ Covers(c, build[t])
      BY <1>3 DEF Catalog, Fetch, Covers
<1>5. e \in Stamped /\ e.from >= e.v
      BY <1>2, <1>3 DEF Stamped
<1>6. storedCatalog' = storedCatalog \/ storedCatalog' = [storedCatalog EXCEPT ![f.lang] = e]
      BY <1>1
<1> HIDE DEF c, e
<1>7. StampsHold' /\ storedCatalog' \in [Lang \ {English} -> Stamped \cup {None}]
      BY <1>5, <1>6 DEF PInv, StampsHold, I18nTypeOK
<1>8. Apply(t, c)
      BY <1>1 DEF c
<1>9. fetches' \in [Tab -> SUBSET Fetch] /\ \A i \in Tab : fetches'[i] \subseteq fetches[i]
      BY DEF FetchDone, PInv, I18nTypeOK
<1> QED
    BY <1>4, <1>7, <1>8, <1>9, ApplyKeeps DEF FetchDone, PInv, I18nTypeOK

(* A failed fetch leaves the page in English.                               *)
LEMMA FetchFailedKeeps ==
    ASSUME PInv, NEW t \in Tab, NEW f \in Fetch, FetchFailed(t, f) PROVE PInv'
<1>1. fetches' \in [Tab -> SUBSET Fetch] /\ \A i \in Tab : fetches'[i] \subseteq fetches[i]
      BY DEF FetchFailed, PInv, I18nTypeOK
<1>2. StampsHold' /\ Covers(None, build[t])
      BY DEF FetchFailed, PInv, StampsHold, storage, Covers
<1> QED
    BY <1>1, <1>2, ApplyKeeps DEF FetchFailed, PInv, I18nTypeOK, storage

(* Painting what is already in the page, early or in new rows.              *)
LEMMA PaintKeeps ==
    ASSUME PInv, NEW t \in Tab, EarlyPaint(t) \/ afterSwap(t) PROVE PInv'
<1>1. StampsHold'
      BY DEF EarlyPaint, afterSwap, storage, PInv, StampsHold
<1>2. CASE EarlyPaint(t)
  <2>1. PagesCovered'
        BY <1>2 DEF EarlyPaint, PInv, PagesCovered, I18nTypeOK, Covers
  <2> QED
      BY <1>1, <1>2, <2>1 DEF EarlyPaint, PInv, I18nTypeOK, storage
<1>3. CASE afterSwap(t)
  <2>1. PagesCovered'
        BY <1>3 DEF afterSwap, PInv, PagesCovered, I18nTypeOK
  <2> QED
      BY <1>1, <1>3, <2>1 DEF afterSwap, PInv, I18nTypeOK, storage
<1> QED
    BY <1>2, <1>3

(* The server is only ever upgraded, and the choice of a language may       *)
(* expire.                                                                  *)
LEMMA OutsideKeeps ==
    ASSUME PInv, LangExpires \/ Upgrade PROVE PInv'
<1>1. StampsHold' /\ PagesCovered'
      BY DEF LangExpires, Upgrade, i18n, storage, PInv, StampsHold, PagesCovered, Covers
<1>2. served' \in Build /\ served <= served'
      BY I18nAssumption DEF LangExpires, Upgrade, i18n, PInv, I18nTypeOK, Build
<1>3. UNCHANGED <<storedCatalog, i18n>> /\ storedLang' \in Lang \cup {None}
      BY DEF LangExpires, Upgrade, storage, PInv, I18nTypeOK
<1>4. \A t \in Tab : build'[t] <= served'
      BY <1>2, <1>3, I18nAssumption DEF PInv, I18nTypeOK, i18n, Build
<1>5. \A t \in Tab : \A f \in fetches'[t] : build'[t] <= f.since /\ f.since <= served'
      BY <1>2, <1>3, I18nAssumption DEF PInv, I18nTypeOK, i18n, Build, Fetch
<1> QED
    BY <1>1, <1>2, <1>3, <1>4, <1>5 DEF PInv, I18nTypeOK, i18n

(* Initially the cache is empty and every page in English.                  *)
LEMMA PInvInit == PageInit => PInv
<1> SUFFICES ASSUME PageInit PROVE PInv
    OBVIOUS
<1>1. 0 \in Build
      BY I18nAssumption DEF Build
<1>2. StampsHold /\ PagesCovered
      BY DEF PageInit, I18nInit, StampsHold, PagesCovered, Covers
<1> QED
    BY <1>1, <1>2, I18nAssumption DEF PageInit, I18nInit, PInv, I18nTypeOK

(* Every step of a page, of the browser and of the server keeps PInv.       *)
LEMMA PInvNext == PInv /\ [PageNext]_pageVars => PInv'
<1> SUFFICES ASSUME PInv, [PageNext]_pageVars PROVE PInv'
    OBVIOUS
<1>1. ASSUME NEW t \in Tab, Load(t) PROVE PInv'
      BY <1>1, HeadKeeps DEF Load
<1>2. ASSUME NEW t \in Tab, Script(t) PROVE PInv'
  <2>1. ApplyOrFetch(t, resolveLang) /\ UNCHANGED <<served, storage, build, early>>
        BY <1>2 DEF Script, initI18n
  <2>2. resolveLang \in Lang /\ currentLang' \in [Tab -> Lang]
        BY <1>2, ResolvedIsLang DEF Script, initI18n, PInv, I18nTypeOK
  <2> QED
      BY <2>1, <2>2, ApplyOrFetchKeeps DEF PInv, I18nTypeOK, storage
<1>3. ASSUME NEW t \in Tab, DOMContentLoaded(t) \/ Swap(t) PROVE PInv'
      BY <1>3, PaintKeeps DEF DOMContentLoaded, Swap
<1>4. ASSUME NEW t \in Tab, NEW l \in Lang, Choose(t, l) PROVE PInv'
  <2>1. ApplyOrFetch(t, l) /\ UNCHANGED <<served, storedCatalog, build, early>>
        BY <1>4 DEF Choose, setLang
  <2>2. storedLang' \in Lang \cup {None} /\ currentLang' \in [Tab -> Lang]
        BY <1>4 DEF Choose, setLang, PInv, I18nTypeOK
  <2> QED
      BY <2>1, <2>2, ApplyOrFetchKeeps
<1>5. ASSUME NEW t \in Tab, Answered(t) PROVE PInv'
      BY <1>5, FetchDoneKeeps, FetchFailedKeeps DEF Answered
<1>6. ASSUME UNCHANGED <<served, storage, i18n>> PROVE PInv'
      BY <1>6 DEF PInv, I18nTypeOK, StampsHold, PagesCovered, Covers, storage, i18n
<1>7. CASE Outside
      BY <1>7, OutsideKeeps DEF Outside
<1> QED
    BY <1>1, <1>2, <1>3, <1>4, <1>5, <1>6, <1>7 DEF PageNext, Visibility, Series, pageVars

(* No page is in a catalog older than itself (app.js:36-54), whatever pages *)
(* of whatever builds share its cache.                                      *)
THEOREM NeverOutdated == PageSpec => []NotOutdated
<1>1. PInv => NotOutdated
      BY DEF PInv, PagesCovered, Covers, NotOutdated
<1> QED
    BY <1>1, PInvInit, PInvNext, PTL DEF PageSpec
-----------------------------------------------------------------------------
(* A hidden page has put its triggers aside, or will when it is loaded.     *)
QInv ==
    /\ PollingTypeOK
    /\ phase \in [Tab -> {"closed", "head", "script", "loaded"}]
    /\ \A t \in Tab : hidden[t] /\ phase[t] = "script" => hook[t] \/ stashed[t]
    /\ \A t \in Tab : hidden[t] /\ phase[t] = "loaded" => stashed[t]

(* QInv is kept by every step: loading runs the hook, and an event of       *)
(* visibility pauses or resumes (app.js:200-226).                           *)
LEMMA QInvNext == QInv /\ [PageNext]_pageVars => QInv'
<1> SUFFICES ASSUME QInv, [PageNext]_pageVars PROVE QInv'
    OBVIOUS
<1> USE DEF QInv, PollingTypeOK, Becomes
<1>1. ASSUME NEW t \in Tab, Load(t) PROVE QInv'
      BY <1>1 DEF Load, PageArrives
<1>2. ASSUME NEW t \in Tab, Script(t) PROVE QInv'
      BY <1>2 DEF Script, InitialState
<1>3. ASSUME NEW t \in Tab, DOMContentLoaded(t) PROVE QInv'
      BY <1>3 DEF DOMContentLoaded, Loaded, pauseHxPolling
<1>4. ASSUME NEW t \in Tab, Visibility(t) PROVE QInv'
      BY <1>4 DEF Visibility, VisibilityChange, pauseHxPolling, resumeHxPolling
<1>5. ASSUME UNCHANGED <<tabs, phase>> PROVE QInv'
      BY <1>5 DEF tabs
<1> QED
    BY <1>1, <1>2, <1>3, <1>4, <1>5
    DEF PageNext, Answered, Swap, Series, Choose, Outside, pageVars

(* A hidden page sends no polls (app.js:199).                               *)
THEOREM Quiet == PageSpec => []HiddenIsQuiet
<1>1. PageInit => QInv
      BY DEF PageInit, PollingInit, PollingTypeOK, QInv
<1>2. QInv => HiddenIsQuiet
      BY DEF QInv, PollingTypeOK, HiddenIsQuiet
<1> QED
    BY <1>1, <1>2, QInvNext, PTL DEF PageSpec

(* A loaded page that becomes visible polls again (app.js:198).             *)
THEOREM Resumes == PageSpec => ResumesPolling
<1>1. PageInit => QInv
      BY DEF PageInit, PollingInit, PollingTypeOK, QInv
<1>2. ASSUME QInv, [PageNext]_pageVars, NEW t \in Tab,
             phase[t] = "loaded", phase'[t] = "loaded", hidden[t], ~hidden'[t]
      PROVE  polling'[t]
  <2>1. PICK i \in Tab : Visibility(i)
    <3>1. ~UNCHANGED hidden
          BY <1>2
    <3>2. ASSUME NEW i \in Tab PROVE ~Load(i)
          BY <1>2 DEF Load, PageArrives, Becomes, QInv, PollingTypeOK
    <3>3. ASSUME NEW i \in Tab, Script(i) \/ DOMContentLoaded(i) PROVE UNCHANGED hidden
          BY <3>3 DEF Script, DOMContentLoaded, InitialState, Loaded
    <3>4. ASSUME UNCHANGED tabs PROVE UNCHANGED hidden
          BY <3>4 DEF tabs
    <3> QED
        BY <1>2, <3>1, <3>2, <3>3, <3>4
        DEF PageNext, pageVars, Answered, Swap, Series, Choose, Outside
  <2>2. i = t /\ stashed[t]
        BY <1>2, <2>1 DEF Visibility, VisibilityChange, QInv, PollingTypeOK
  <2> QED
      BY <1>2, <2>1, <2>2
      DEF Visibility, VisibilityChange, resumeHxPolling, QInv, PollingTypeOK
<1>3. QInv /\ [PageNext]_pageVars
        => [\A t \in Tab :
              phase[t] = "loaded" /\ phase'[t] = "loaded" /\ hidden[t] /\ ~hidden'[t]
                  => polling'[t]]_pageVars
      BY <1>2
<1> QED
    BY <1>1, <1>3, QInvNext, PTL DEF PageSpec, ResumesPolling
-----------------------------------------------------------------------------
(* At most one chart is in a tile, and plot stands for it: it is the one    *)
(* of the last series that can be drawn.                                    *)
Sound(c) ==
    /\ c \in Chart
    /\ c.drawn = IF c.plot # NoPlot /\ c.plot.here THEN 1 ELSE 0
    /\ c.mount /\ c.series = "long" => c.plot = [here |-> TRUE, fresh |-> TRUE]

CInv == charts \in [Charted -> Chart] /\ \A t \in Charted : Sound(charts[t])

(* What renderPriceInto is called with is not sound, since a new series or  *)
(* new tiles have just come; what it leaves is.                             *)
LEMMA RenderSound ==
    ASSUME NEW c \in Chart,
           c.drawn = IF c.plot # NoPlot /\ c.plot.here THEN 1 ELSE 0
    PROVE  Sound(renderPriceInto(c))
<1> USE ChartsAssumption DEF Chart, Plot
<1> DEFINE k == TornDown(c)
<1>1. CASE c.mount /\ c.series = "long" /\ c.plot # NoPlot /\ c.plot.here
      BY <1>1 DEF Sound, renderPriceInto, Drawn, TornDown
<1>2. CASE c.mount /\ c.series = "long" /\ ~(c.plot # NoPlot /\ c.plot.here)
  <2>1. k \in Chart /\ k.plot = NoPlot /\ k.drawn = 0
        BY <1>2 DEF TornDown
  <2>2. renderPriceInto(c) = Drawn(k)
        BY <1>2 DEF renderPriceInto
  <2> HIDE DEF k
  <2> DEFINE p == [here |-> TRUE, fresh |-> TRUE]
  <2>3. Drawn(k) = [k EXCEPT !.plot = p, !.drawn = @ + 1]
        BY <2>1 DEF Drawn
  <2>4. p \in Plot /\ p # NoPlot /\ p.here
        OBVIOUS
  <2> DEFINE j == [k EXCEPT !.plot = p]
  <2> HIDE DEF p, Plot
  <2>5. j \in Chart /\ j.plot = p /\ j.drawn = 0
        BY <2>1, <2>4
  <2>6. Drawn(k) = [j EXCEPT !.drawn = @ + 1]
        BY <2>1, <2>3
  <2> HIDE DEF j
  <2>7. Drawn(k) \in Chart /\ Drawn(k).plot = p /\ Drawn(k).drawn = 1
        BY <2>5, <2>6
  <2> QED
      BY <2>2, <2>4, <2>7 DEF Sound, p
<1>3. CASE ~(c.mount /\ c.series = "long")
      BY <1>3 DEF Sound, renderPriceInto
<1> QED
    BY <1>1, <1>2, <1>3

(* CInv is kept by every step.                                              *)
LEMMA CInvNext == CInv /\ [PageNext]_pageVars => CInv'
<1> SUFFICES ASSUME CInv, [PageNext]_pageVars PROVE CInv'
    OBVIOUS
<1>1. ASSUME NEW t \in Charted, NEW c \in Chart, Sound(c), charts' = [charts EXCEPT ![t] = c]
      PROVE  CInv'
      BY <1>1 DEF CInv
<1>2. ASSUME NEW t \in Tab, NewTiles(t) PROVE CInv'
  <2>1. PICK m \in BOOLEAN : charts' = [i \in Charted |-> IF i = t THEN Bare(m) ELSE charts[i]]
        BY <1>2 DEF NewTiles
  <2>2. Bare(m) \in Chart /\ Sound(Bare(m))
        BY DEF Bare, Sound, Chart, Plot
  <2> QED
      BY <2>1, <2>2 DEF CInv
<1>3. ASSUME NEW t \in Charted, renderPriceSparkline(t) PROVE CInv'
  <2> DEFINE c == charts[t]
             Stored(s) == [c EXCEPT !.series = s,
                             !.plot = IF c.plot = NoPlot THEN NoPlot ELSE [@ EXCEPT !.fresh = FALSE]]
  <2>1. PICK s \in {"short", "long"} : charts' = [charts EXCEPT ![t] = renderPriceInto(Stored(s))]
        BY <1>3 DEF renderPriceSparkline
  <2>2. c \in Chart /\ c.drawn = IF c.plot # NoPlot /\ c.plot.here THEN 1 ELSE 0
        BY DEF CInv, Sound
  <2>3. Stored(s) \in Chart
        BY <2>2, ChartsAssumption DEF Chart, Plot
  <2>4. Stored(s).drawn = c.drawn
        BY <2>2 DEF Chart
  <2>5. (Stored(s).plot # NoPlot /\ Stored(s).plot.here) <=> (c.plot # NoPlot /\ c.plot.here)
        BY <2>2, ChartsAssumption DEF Chart, Plot
  <2> HIDE DEF Stored, c
  <2>6. Sound(renderPriceInto(Stored(s)))
        BY <2>2, <2>3, <2>4, <2>5, RenderSound
  <2> QED
      BY <1>1, <2>1, <2>6 DEF Sound
<1>4. ASSUME NEW t \in Charted, SwapTiles(t) PROVE CInv'
  <2> DEFINE c == charts[t]
             Swapped(m) == [c EXCEPT !.mount = m, !.drawn = 0,
                             !.plot = IF c.plot = NoPlot THEN NoPlot ELSE [@ EXCEPT !.here = FALSE]]
  <2>1. PICK m \in BOOLEAN : charts' = [charts EXCEPT ![t] = renderPriceInto(Swapped(m))]
        BY <1>4 DEF SwapTiles
  <2>2. c \in Chart
        BY DEF CInv, Sound
  <2>3. Swapped(m) \in Chart /\ Swapped(m).drawn = 0
        BY <2>2, ChartsAssumption DEF Chart, Plot
  <2>4. ~(Swapped(m).plot # NoPlot /\ Swapped(m).plot.here)
        BY <2>2, ChartsAssumption DEF Chart, Plot
  <2> HIDE DEF Swapped, c
  <2>5. Sound(renderPriceInto(Swapped(m)))
        BY <2>3, <2>4, RenderSound
  <2> QED
      BY <1>1, <2>1, <2>5 DEF Sound
<1>5. CASE UNCHANGED charts
      BY <1>5 DEF CInv
<1>6. ASSUME NEW t \in Tab, Load(t) \/ Swap(t) \/ Series(t) PROVE CInv'
      BY <1>2, <1>3, <1>4, <1>5, <1>6 DEF Load, Swap, Series, SwapTiles, renderPriceSparkline
<1> QED
    BY <1>5, <1>6 DEF PageNext, Script, DOMContentLoaded, Answered, Visibility, Choose, Outside, pageVars

(* Initially there is no chart.                                             *)
LEMMA CInvInit == PageInit => CInv
<1>1. Bare(FALSE) \in Chart /\ Sound(Bare(FALSE))
      BY DEF Bare, Sound, Chart, Plot
<1> QED
    BY <1>1 DEF PageInit, ChartsInit, CInv

(* However swaps and series interleave, the tile shows one chart, of the    *)
(* last series that can be drawn (app.js:286-292).                          *)
THEOREM ChartsSurvive == PageSpec => []ChartCurrent
<1>1. ASSUME CInv, NEW t \in Charted PROVE charts[t].drawn <= 1
      BY <1>1 DEF CInv, Sound
<1>2. ASSUME CInv, NEW t \in Charted, charts[t].mount, charts[t].series = "long"
      PROVE  charts[t].drawn = 1 /\ charts[t].plot = [here |-> TRUE, fresh |-> TRUE]
  <2>1. charts[t].plot = [here |-> TRUE, fresh |-> TRUE]
        BY <1>2 DEF CInv, Sound
  <2>2. [here |-> TRUE, fresh |-> TRUE] # NoPlot
        BY ChartsAssumption
  <2>3. charts[t].plot.here
        BY <2>1
  <2> QED
      BY <1>2, <2>1, <2>2, <2>3 DEF CInv, Sound
<1>3. CInv => ChartCurrent
      BY <1>1, <1>2 DEF ChartCurrent
<1> QED
    BY <1>3, CInvInit, CInvNext, PTL DEF PageSpec

(* Pages, their catalogs, triggers and charts keep their types.             *)
THEOREM PageTypeCorrect == PageSpec => []PageTypeOK
<1>1. PageInit => QInv
      BY DEF PageInit, PollingInit, PollingTypeOK, QInv
<1>2. PInv /\ QInv /\ CInv => PageTypeOK
      BY DEF PInv, QInv, CInv, PageTypeOK
<1> QED
    BY <1>1, <1>2, PInvInit, PInvNext, QInvNext, CInvInit, CInvNext, PTL DEF PageSpec
=============================================================================
