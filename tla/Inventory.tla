------------------------------ MODULE Inventory ------------------------------
(***************************************************************************)
(* The vocabulary of the planner: machines, measured links, segments and   *)
(* the score of a segment (p2pmoe/planner/types.py, network.py, memory.py  *)
(* and deploy/probe.py).                                                   *)
(*                                                                         *)
(* A problem P is all that the planner is given:                           *)
(*   nodes   the machines, numbers whose order is the order of their names *)
(*   raw     memory of a machine, in quarters of a unit                    *)
(*   mem     what of it is usable                                          *)
(*   ms      time of one layer on it                                       *)
(*   tier    name of its memory class                                      *)
(*   stab    what its unavailability costs, mu * -log(avail), thousandths  *)
(*   p50     median delay of the ordered pair, Unreachable if none         *)
(*   jit     p95 - p50 of the ordered pair, NaN where p50 is Unreachable   *)
(*   L, base, expert, kv   the model: layers; memory of a layer without    *)
(*           experts, of one expert and of the key/value cache of a layer  *)
(*   tasks   sequence of [name, lam, experts]: share of the arrivals, in   *)
(*           tenths, and resident experts by layer                         *)
(*   union   experts of the front segment by layer                         *)
(*   curve   accuracy of the identification by number of front layers      *)
(*   cfg     the PlannerConfig, ratios in percent                          *)
(* The controller measures a link once, with one sample count for every    *)
(* use. Times are whole numbers of 0.05 ms. The tolerances of comparisons  *)
(* are left out. A link without an answer has the delay inf and the jitter *)
(* nan; the scores of segments over such links, which are nan too, are not *)
(* modelled.                                                               *)
(***************************************************************************)
EXTENDS Integers, Sequences, FiniteSets, TLC, SequencesExt, Functions

Unreachable == 10000
NaN == -1
NoTarget == -1

MaxOf(S, base) == IF S = {} THEN base ELSE CHOOSE x \in S : \A y \in S : y <= x
MinOf(S, base) == IF S = {} THEN base ELSE CHOOSE x \in S : \A y \in S : x <= y
CeilDiv(a, b) == -((-a) \div b)
Abs(x) == IF x < 0 THEN -x ELSE x
Take(seq, n) == SubSeq(seq, 1, IF n < Len(seq) THEN n ELSE Len(seq))

\* The member of a set of one: what is used more than once is computed once.
The(S) == CHOOSE x \in S : TRUE

\* [x for x in seq if ...]: the members at these positions, in their order.
Where(seq, I) == FlattenSeq([i \in DOMAIN seq |-> IF i \in I THEN <<seq[i]>> ELSE <<>>])

\* sorted(seq, key)[:n]: stable, by keys that are tuples of numbers, key[i] that
\* of seq[i]. A row is a key and its position; the first row that is left comes next.
Lex(a, b) ==
    \E i \in DOMAIN a : /\ a[i] < b[i]
                        /\ \A j \in 1..(i - 1) : a[j] = b[j]

Before(r, s) == Lex(r[1], s[1]) \/ (r[1] = s[1] /\ r[2] < s[2])

NextPosition(rows) == MinOf({r[2] : r \in {r \in rows : \A s \in rows : ~Before(s, r)}}, 1)

AddNext(rows, at) == Append(at, NextPosition({r \in rows : r[2] \notin Range(at)}))

Ranking(rows, n) ==
    LET upTo[k \in 0..n] == IF k = 0 THEN <<>> ELSE AddNext(rows, upTo[k - 1])
    IN  upTo[n]

Best(seq, key, n) ==
    LET m  == IF n < Len(seq) THEN n ELSE Len(seq)
        at == Ranking({<<key[i], i>> : i \in DOMAIN seq}, m)
    IN  Take([k \in 1..m |-> seq[at[k]]], n)

SortedBy(seq, Key(_)) == Best(seq, [i \in DOMAIN seq |-> Key(seq[i])], Len(seq))

\* sum(seq)
Total(seq) ==
    LET upTo[i \in 0..Len(seq)] == IF i = 0 THEN 0 ELSE upTo[i - 1] + seq[i]
    IN  upTo[Len(seq)]

\* round(): to the nearest multiple of step, halves to the even one.
RoundHalfEven(x, step) ==
    LET q == x \div step
        r == x % step
    IN  IF 2 * r < step \/ (2 * r = step /\ q % 2 = 0) THEN q * step ELSE (q + 1) * step

\* Halves, shares and scores are in thousandths.
Fine(x) == 1000 * x

\* statistics.median, in thousandths: infinite when the upper of two middle
\* values is.
Median(seq) ==
    IF seq = <<>> THEN 0
    ELSE LET s == Best(seq, [i \in DOMAIN seq |-> <<seq[i]>>], Len(seq))
             h == Len(seq) \div 2
         IN  IF Len(seq) % 2 = 1 \/ s[h + 1] = Unreachable THEN Fine(s[h + 1])
             ELSE Fine(s[h] + s[h + 1]) \div 2

\* sorted(set of machines), the list of all machines
InOrder(S) == Where([i \in 1..MaxOf(S, 0) |-> i], S)
Names(P) == InOrder(P.nodes)

-----------------------------------------------------------------------------
\* Measurements.

\* max() over a sequence of measured jitters: nothing exceeds a nan that comes
\* first, and a nan that comes later exceeds nothing.
MaxJitter(js) ==
    IF js = <<>> THEN 0
    ELSE IF js[1] = NaN THEN NaN ELSE MaxOf(Range(js), 0)

\* MeasurementCache.p50, p95 and jitter
Delay(P, a, b) == IF a = b THEN 0 ELSE P.p50[a][b]
Jitter(P, a, b) == IF a = b THEN 0 ELSE P.jit[a][b]
P95(P, a, b) == IF Delay(P, a, b) = Unreachable THEN Unreachable
                ELSE Delay(P, a, b) + Jitter(P, a, b)

\* MeasurementCache.blocked
Blocked(P, a, b) == Jitter(P, a, b) > P.cfg.jcap

\* RemoteNetworkOracle.reachability: the machines a has an answer from.
Reachable(P, a) == {b \in P.nodes \ {a} : Delay(P, a, b) # Unreachable}

\* MeasurementCache.min_hop_p50
MinHop(P, S) ==
    LET d == {Delay(P, l[1], l[2]) : l \in {l \in S \X S : l[1] # l[2]}}
    IN  MinOf(d \ {Unreachable}, 0)

\* MeasurementCache.endpoint_costs: what a machine costs as the head and as
\* the tail of a segment, over the machines that could hold a front segment.
HeadCost(P, ref) ==
    [v \in P.nodes |-> LET us == InOrder(ref \ {v})
                       IN  Median([i \in DOMAIN us |-> Delay(P, us[i], v)])]
TailCost(P, ref) ==
    [v \in P.nodes |-> LET us == InOrder(ref \ {v})
                       IN  Median([i \in DOMAIN us |-> Delay(P, v, us[i])])]

\* MeasurementCache.typical_hop_p50
TypicalHop(P) ==
    LET ids == Names(P)
    IN  Median(FlattenSeq([i \in DOMAIN ids |->
            [k \in 1..(Len(ids) - i) |-> Delay(P, ids[i], ids[i + k])]]))

-----------------------------------------------------------------------------
\* Memory and specifications of segments.

\* ModelSpec.weight_gb_per_layer
WeightPerLayer(P, nExperts) == P.base + nExperts * P.expert

\* make_front_spec, make_back_spec: layers lo..hi, their weight, and the
\* machines that may be the tail.
FrontSpec(P, l0, tails) ==
    [kind |-> "front", task |-> 0, lo |-> 1, hi |-> l0, tails |-> tails,
     gb |-> [l \in 1..P.L |-> WeightPerLayer(P, Cardinality(P.union[l]))]]

BackSpec(P, t, l0) ==
    [kind |-> "back", task |-> t, lo |-> l0 + 1, hi |-> P.L, tails |-> P.nodes,
     gb |-> [l \in 1..P.L |-> WeightPerLayer(P, Cardinality(P.tasks[t].experts[l]))]]

\* SegmentSpec.resident_gb, total_gb
Resident(P, spec, lo, hi) ==
    SumFunction([l \in lo..hi |-> spec.gb[l]]) + (hi - lo + 1) * P.kv

TotalGb(P, spec) == Resident(P, spec, spec.lo, spec.hi)

\* hops_min: a lower bound on the hops of a segment of that size.
HopsMin(total, maxUsable) == MaxOf({0, CeilDiv(total, maxUsable) - 1}, 0)

MaxUsable(P, S) == MaxOf({P.mem[v] : v \in S}, 0)

-----------------------------------------------------------------------------
\* Segments.

HeadOf(seg) == seg.nodes[1]
TailOf(seg) == Last(seg.nodes)
HopsOf(seg) == Len(seg.nodes) - 1
SegDelay(seg) == seg.compute + seg.hop
NodesOf(seg) == Range(seg.nodes)
AllNodes(segs) == UNION {NodesOf(segs[i]) : i \in DOMAIN segs}
LinksOf(seg) == [i \in 1..HopsOf(seg) |-> <<seg.nodes[i], seg.nodes[i + 1]>>]

\* Objective: an order of preference among segments. NoTarget: the faster
\* the better; a number, in thousandths: the nearer to it the better. ends: <<>>, or one record
\* with the costs of heads and tails.
Objective(target, rent, good, ends) ==
    [target |-> target, rent |-> rent, good |-> good, ends |-> ends]

\* jitter_w is 0.2: every other term counts five times.
JitterScale == 5

\* Objective.score, in thousandths; partial: the segment is not complete, its
\* tail not known.
Score(P, o, compute, hop, jitter, nodes, partial) ==
    LET delay == Fine(compute + hop)
        main  == IF o.target = NoTarget THEN delay
                 ELSE IF partial THEN MaxOf({0, delay - o.target}, 0)
                 ELSE Abs(delay - o.target)
        stab  == SumFunction([i \in DOMAIN nodes |-> P.stab[nodes[i]]])
        rent  == P.cfg.rentNu * Cardinality(Range(nodes) \cap o.rent)
        good  == P.cfg.goodGamma * Cardinality(Range(nodes) \cap o.good)
        ends  == IF o.ends = <<>> THEN 0
                 ELSE o.ends[1].head[nodes[1]]
                      + IF partial THEN 0 ELSE o.ends[1].tail[Last(nodes)]
    IN  JitterScale * (main + stab + Fine(rent + good) + ends) + Fine(jitter)
=============================================================================
