-------------------------------- MODULE I18n --------------------------------
(***************************************************************************)
(* The translation of the pages: the script of layout.html that paints     *)
(* early and the i18n part of static/js/app.js.  The tabs of a browser     *)
(* share one localStorage; each page is of the build that served it, and   *)
(* the server may be upgraded while pages are open.  A catalog is its      *)
(* language and the build its strings come from.                           *)
(***************************************************************************)
EXTENDS Naturals, Tabs

CONSTANTS
    Lang,       \* I18N_SUPPORTED
    English,    \* 'en', for which there is no catalog
    Browser,    \* the language navigator.languages leads to
    None,       \* null
    MaxBuild    \* bound: how often the server is upgraded

VARIABLES
    served,         \* the build of the server
    storedLang,     \* taler_lang, None when absent or older than I18N_TTL_MS
    storedCatalog,  \* taler_lang_cache_*: the stamp v, and the build of c
    build,          \* TALER_BUILD of the page in a tab
    early,          \* cat of the script of layout.html
    currentLang,
    currentCatalog,
    shown,          \* the catalogs the text of the page is in
    fetches         \* the fetches that are out, with the build served when sent

storage == <<storedLang, storedCatalog>>
i18n == <<build, early, currentLang, currentCatalog, shown, fetches>>

Build == 0..MaxBuild
Catalog == [lang : Lang \ {English}, from : Build]
Stamped == [v : Build, from : Build]
Fetch == [lang : Lang \ {English}, since : Build]

ASSUME I18nAssumption ==
    /\ {English, Browser} \subseteq Lang
    /\ None \notin Lang
    /\ \A c \in Catalog \cup Stamped : c # None
    /\ MaxBuild \in Nat

I18nTypeOK ==
    /\ served \in Build
    /\ storedLang \in Lang \cup {None}
    /\ storedCatalog \in [Lang \ {English} -> Stamped \cup {None}]
    /\ build \in [Tab -> Build]
    /\ early \in [Tab -> Catalog \cup {None}]
    /\ currentLang \in [Tab -> Lang]
    /\ currentCatalog \in [Tab -> Catalog \cup {None}]
    /\ shown \in [Tab -> SUBSET (Catalog \cup {None})]
    /\ fetches \in [Tab -> SUBSET Fetch]
    /\ \A t \in Tab : build[t] <= served
    /\ \A t \in Tab : \A f \in fetches[t] : build[t] <= f.since /\ f.since <= served

I18nInit ==
    /\ served = 0
    /\ storedLang = None
    /\ storedCatalog = [l \in Lang \ {English} |-> None]
    /\ build = [t \in Tab |-> 0]
    /\ early = [t \in Tab |-> None]
    /\ currentLang = [t \in Tab |-> English]
    /\ currentCatalog = [t \in Tab |-> None]
    /\ shown = [t \in Tab |-> {None}]
    /\ fetches = [t \in Tab |-> {}]

-----------------------------------------------------------------------------
resolveLang == IF storedLang = None THEN Browser ELSE storedLang

(* A slip, and the code of an older release: the stamp is not looked at.    *)
AnyStamp(l, b) ==
    IF l # English /\ storedCatalog[l] # None
    THEN [lang |-> l, from |-> storedCatalog[l].from]
    ELSE None

(* An entry stamped with another build reads as absent.                     *)
loadCachedCatalog(l, b) ==
    IF l # English /\ storedCatalog[l] # None /\ storedCatalog[l].v = b
    THEN [lang |-> l, from |-> storedCatalog[l].from]
    ELSE None

(* currentCatalog is set and applyLang(document) runs, in one task.         *)
Apply(t, catalog) ==
    /\ currentCatalog' = [currentCatalog EXCEPT ![t] = catalog]
    /\ shown' = [shown EXCEPT ![t] = {catalog}]

(* The cached catalog is applied at once, or a fetch is sent and awaited.   *)
ApplyOrFetch(t, l) ==
    LET cached == loadCachedCatalog(l, build[t]) IN
    IF l = English \/ cached # None
    THEN Apply(t, cached) /\ UNCHANGED fetches
    ELSE /\ fetches' = [fetches EXCEPT ![t] = @ \cup {[lang |-> l, since |-> served]}]
         /\ UNCHANGED <<currentCatalog, shown>>

(* The server renders a page, and the script in its head runs.              *)
Head(t) ==
    /\ build' = [build EXCEPT ![t] = served]
    /\ early' = [early EXCEPT ![t] = loadCachedCatalog(resolveLang, served)]
    /\ currentLang' = [currentLang EXCEPT ![t] = English]
    /\ currentCatalog' = [currentCatalog EXCEPT ![t] = None]
    /\ shown' = [shown EXCEPT ![t] = {None}]
    /\ fetches' = [fetches EXCEPT ![t] = {}]
    /\ UNCHANGED <<served, storage>>

(* app.js runs: currentLang, then initI18n.                                 *)
initI18n(t) ==
    /\ currentLang' = [currentLang EXCEPT ![t] = resolveLang]
    /\ ApplyOrFetch(t, resolveLang)
    /\ UNCHANGED <<served, storage, build, early>>

(* DOMContentLoaded: the early catalog is painted, after app.js.            *)
EarlyPaint(t) ==
    /\ shown' = IF early[t] = None THEN shown ELSE [shown EXCEPT ![t] = {early[t]}]
    /\ early' = [early EXCEPT ![t] = None]
    /\ UNCHANGED <<served, storage, build, currentLang, currentCatalog, fetches>>

setLang(t, l) ==
    /\ storedLang' = l
    /\ currentLang' = [currentLang EXCEPT ![t] = l]
    /\ ApplyOrFetch(t, l)
    /\ UNCHANGED <<served, storedCatalog, build, early>>

(* fetchCatalog returns: the catalog, as some build since the request       *)
(* served it, is stored (which may fail) and applied.                       *)
FetchDone(t, f) ==
    /\ f \in fetches[t]
    /\ fetches' = [fetches EXCEPT ![t] = @ \ {f}]
    /\ \E from \in f.since..served :
          /\ Apply(t, [lang |-> f.lang, from |-> from])
          /\ storedCatalog' \in {storedCatalog,
                [storedCatalog EXCEPT ![f.lang] = [v |-> build[t], from |-> from]]}
    /\ UNCHANGED <<served, storedLang, build, early, currentLang>>

(* No answer, or no catalog in it: null, and the page is in English.        *)
FetchFailed(t, f) ==
    /\ f \in fetches[t]
    /\ fetches' = [fetches EXCEPT ![t] = @ \ {f}]
    /\ Apply(t, None)
    /\ UNCHANGED <<served, storage, build, early, currentLang>>

(* htmx:afterSwap: applyLang for the new rows alone.                        *)
afterSwap(t) ==
    /\ shown' = [shown EXCEPT ![t] = @ \cup {currentCatalog[t]}]
    /\ UNCHANGED <<served, storage, build, early, currentLang, currentCatalog, fetches>>

(* A year passes, or the user clears the choice.                            *)
LangExpires == storedLang' = None /\ UNCHANGED <<served, storedCatalog, i18n>>

Upgrade == served < MaxBuild /\ served' = served + 1 /\ UNCHANGED <<storage, i18n>>
=============================================================================
