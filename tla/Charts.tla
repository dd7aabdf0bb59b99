-------------------------------- MODULE Charts --------------------------------
(***************************************************************************)
(* The chart in a tile of the header (app.js, renderPriceInto; the chart   *)
(* of the hashrate is the same, with a tile that is always there).  Its    *)
(* series is polled by an element of the layout, and the tiles by another: *)
(* each swap of the tiles throws the chart away.                           *)
(***************************************************************************)
EXTENDS Naturals, Tabs

CONSTANTS
    Charted,    \* bound: the tabs whose chart is followed
    NoPlot      \* null

ASSUME ChartsAssumption == Charted \subseteq Tab /\ \A p \in [here : BOOLEAN, fresh : BOOLEAN] : p # NoPlot

(* Of a tab: is the tile there, how many charts are in it, the last series  *)
(* ("short" has less than two points), and plot: whether the chart it       *)
(* stands for is in the tile, and of the last series.                       *)
VARIABLE charts

Plot == [here : BOOLEAN, fresh : BOOLEAN] \cup {NoPlot}
Chart == [mount : BOOLEAN, drawn : Nat, series : {"none", "short", "long"}, plot : Plot]

Bare(mount) == [mount |-> mount, drawn |-> 0, series |-> "none", plot |-> NoPlot]

ChartsInit == charts = [t \in Charted |-> Bare(FALSE)]

(* A new page, with a tile unless there is no price.                        *)
NewTiles(t) ==
    \E m \in BOOLEAN : charts' = [i \in Charted |-> IF i = t THEN Bare(m) ELSE charts[i]]

TornDown(c) == IF c.plot # NoPlot /\ ~c.plot.here THEN [c EXCEPT !.plot = NoPlot] ELSE c

(* setData, or a new chart in the tile.                                     *)
Drawn(c) ==
    IF c.plot # NoPlot THEN [c EXCEPT !.plot.fresh = TRUE]
    ELSE [c EXCEPT !.plot = [here |-> TRUE, fresh |-> TRUE], !.drawn = @ + 1]

(* A slip: the chart is kept although its tile has been thrown away.        *)
RenderKept(c) == IF c.mount /\ c.series = "long" THEN Drawn(c) ELSE c

renderPriceInto(c) == IF c.mount /\ c.series = "long" THEN Drawn(TornDown(c)) ELSE c

(* An answer with a series; any other one is not parsed, and dropped.       *)
renderPriceSparkline(t) ==
    /\ t \in Charted
    /\ \E s \in {"short", "long"} :
          LET c == charts[t]
              Stored == [c EXCEPT !.series = s,
                            !.plot = IF c.plot = NoPlot THEN NoPlot ELSE [@ EXCEPT !.fresh = FALSE]]
          IN  charts' = [charts EXCEPT ![t] = renderPriceInto(Stored)]

(* htmx:afterSwap of header-stats: new tiles, with or without a price.      *)
SwapTiles(t) ==
    /\ t \in Charted
    /\ \E m \in BOOLEAN :
          LET c == charts[t]
              Swapped == [c EXCEPT !.mount = m, !.drawn = 0,
                            !.plot = IF c.plot = NoPlot THEN NoPlot ELSE [@ EXCEPT !.here = FALSE]]
          IN  charts' = [charts EXCEPT ![t] = renderPriceInto(Swapped)]
=============================================================================
