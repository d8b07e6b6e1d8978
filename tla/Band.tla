-------------------------------- MODULE Band --------------------------------
(***************************************************************************)
(* The common band: which machines may be the tail of a front segment, so  *)
(* that every front reaches every back within one window of delays         *)
(* (p2pmoe/planner/common_band.py). Windows are in thousandths.            *)
(***************************************************************************)
EXTENDS Inventory

\* probe_exits: the candidates with their delays to the entries, and whether
\* the tail gate or the jitter gate drops them.
ProbeExits(P, cands, entries, w95) ==
    [t \in cands |->
        [at |-> [v \in entries |-> Delay(P, t, v)],
         dropped |-> \/ Fine(MaxOf({P95(P, t, v) : v \in entries}, 0)) > w95
                     \/ MaxJitter([i \in DOMAIN InOrder(entries) |->
                                     Jitter(P, t, InOrder(entries)[i])]) > P.cfg.jcap]]

NoBand == [exits |-> {}, lo |-> 0, hi |-> 0, width |-> 0]

\* common_band: the fullest window of width W that begins at the least delay
\* of some exit and does not exceed the cap; of equally full ones, the lowest.
Spans(probes, entries) ==
    [t \in {t \in DOMAIN probes : ~probes[t].dropped} |->
        [low  |-> Fine(MinOf({probes[t].at[v] : v \in entries}, 0)),
         high |-> Fine(MaxOf({probes[t].at[v] : v \in entries}, 0))]]

Window(spans, lo, W) == {t \in DOMAIN spans : spans[t].low >= lo /\ spans[t].high <= lo + W}

Fullest(spans, W, wcap) ==
    LET starts == {lo \in {spans[t].low : t \in {t \in DOMAIN spans :
                                                    spans[t].high - spans[t].low <= W}} :
                     lo + W <= wcap}
        fuller == {lo \in starts : \A other \in starts :
                     Cardinality(Window(spans, other, W)) <= Cardinality(Window(spans, lo, W))}
        lo     == MinOf(fuller, 0)
    IN  IF starts = {} THEN [NoBand EXCEPT !.width = W]
        ELSE [exits |-> Window(spans, lo, W), lo |-> lo, hi |-> lo + W, width |-> W]

CommonBand(probes, entries, W, wcap) == Fullest(Spans(probes, entries), W, wcap)

Population(band) == Cardinality(band.exits)

\* plan: the grid of widths, 40 % to 150 % of the most allowed, rounded to
\* 0.01 ms. Ten times a width is rounded here.
GridSteps == 4..15
GridRounding == 2000
GridWidth(wmax, step) == RoundHalfEven(wmax * step, GridRounding) \div 10

\* sweep_bandwidth, pick_bandwidth: the narrowest width, of those allowed,
\* that reaches the target, or else the narrowest of the fullest.
SweepBandwidth(spans, wcap, wmax) ==
    [s \in {s \in GridSteps : GridWidth(wmax, s) <= wmax} |->
        Fullest(spans, GridWidth(wmax, s), wcap)]

Narrowest(curve, target) ==
    LET most == MaxOf({Population(curve[s]) : s \in DOMAIN curve}, 0)
    IN  curve[MinOf({s \in DOMAIN curve : Population(curve[s]) >= MinOf({target, most}, 0)}, 0)]

PickBandwidth(probes, entries, wcap, wmax, target) ==
    Narrowest(SweepBandwidth(Spans(probes, entries), wcap, wmax), target)

\* diagnose_outlier_entries: the entries in the order of what the population
\* gains without them.
DiagnoseOutlierEntries(probes, entries, W, wcap) ==
    LET base == Population(CommonBand(probes, entries, W, wcap))
        list == InOrder(entries)
        rows == [i \in DOMAIN list |->
                    [entry |-> list[i],
                     jump |-> Population(CommonBand(probes, entries \ {list[i]}, W, wcap)) - base]]
    IN  IF Cardinality(entries) < 2 THEN <<>>
        ELSE Best(rows, [i \in DOMAIN rows |-> <<-rows[i].jump>>], Len(rows))

MinJump == 2

\* pick_outlier: <<>>, or the one entry that stands out and was not tried.
PickOutlier(diag, tried) ==
    LET cands  == Where(diag, {i \in DOMAIN diag : diag[i].entry \notin tried})
        second == MaxOf({diag[i].jump : i \in 2..Len(diag)}, 0)
    IN  IF cands # <<>> /\ cands[1].jump >= MinJump /\ cands[1].jump > second
        THEN <<cands[1].entry>> ELSE <<>>
=============================================================================
