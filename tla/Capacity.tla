------------------------------ MODULE Capacity ------------------------------
(***************************************************************************)
(* How many channels a pool of machines can carry, by classes of memory,   *)
(* and how they are shared among the tasks (p2pmoe/planner/capacity.py);   *)
(* the choice of the number of front layers (planner/memory.py) and of the *)
(* machines that pay rent (planner/pipeline.py).                           *)
(***************************************************************************)
EXTENDS Solver

LamUnit == 10      \* the shares of the tasks are in tenths
TierStep == 2      \* classify_tiers rounds to half a unit
MaxFormNodes == 4

\* classify_tiers: machines of one class name and one rounded memory, the
\* largest memory first.
ClassifyTiers(P) ==
    LET Class(v) == <<P.tier[v], RoundHalfEven(P.mem[v], TierStep)>>
        firsts   == SelectSeq(Names(P), LAMBDA v : \A u \in P.nodes : u < v => Class(u) # Class(v))
        rows     == [i \in DOMAIN firsts |->
                        [name |-> P.tier[firsts[i]], mem |-> Class(firsts[i])[2],
                         count |-> Cardinality({u \in P.nodes : Class(u) = Class(firsts[i])})]]
    IN  SortedBy(rows, LAMBDA t : <<-t.mem>>)

\* The dictionaries keyed by class name keep one entry of a name: the last.
CapOf(tiers, i) ==
    tiers[MaxOf({j \in DOMAIN tiers : tiers[j].name = tiers[i].name}, i)].mem

\* _can_fit: the layers can be cut into one piece for each of these memories.
\* What is folded is how far the machines so far can get.
CanFit(P, spec, caps) ==
    LET ends == FoldLeft(LAMBDA from, cap :
                            {hi \in spec.lo..spec.hi :
                                \E e \in from : e < hi /\ Resident(P, spec, e + 1, hi) <= cap},
                         {spec.lo - 1}, caps)
    IN  spec.hi \in ends

\* enumerate_forms: how many machines of each class make up a segment, with
\* the fewest machines that will do.
FormsOfSize(P, spec, tiers, n) ==
    {[t \in DOMAIN tiers |-> Cardinality({i \in 1..n : s[i] = t})] :
        s \in {s \in [1..n -> DOMAIN tiers] :
                CanFit(P, spec, [i \in 1..n |-> CapOf(tiers, s[i])])}}

EnumerateForms(P, spec, tiers) ==
    LET sizes == {n \in 1..MaxFormNodes : FormsOfSize(P, spec, tiers, n) # {}}
    IN  IF sizes = {} THEN {} ELSE FormsOfSize(P, spec, tiers, MinOf(sizes, 1))

\* How many machines of a class name a form takes.
Uses(tiers, form, name) ==
    SumFunctionOnSet(form, {i \in DOMAIN tiers : tiers[i].name = name})

ClassNames(tiers, form) == {tiers[i].name : i \in {i \in DOMAIN tiers : form[i] > 0}}

-----------------------------------------------------------------------------
\* Shares.

\* largest_remainder(lams, n, min_one=False)
Apportion(lams, n) ==
    LET total == SumFunction(lams)
        base  == [i \in DOMAIN lams |-> (lams[i] * n) \div total]
        order == SortedBy([i \in DOMAIN lams |-> i],
                          LAMBDA i : <<-((lams[i] * n) % total), i>>)
        extra == Range(Take(order, n - SumFunction(base)))
    IN  [i \in DOMAIN lams |-> base[i] + IF i \in extra THEN 1 ELSE 0]

\* largest_remainder: tasks whose share is less than one segment get one.
LargestRemainder(lams, n) ==
    LET total  == SumFunction(lams)
        forced == {i \in DOMAIN lams : lams[i] * n < total}
        rest   == SelectSeq([i \in DOMAIN lams |-> i], LAMBDA i : i \notin forced)
        sub    == Apportion([k \in DOMAIN rest |-> lams[rest[k]]], n - Cardinality(forced))
    IN  IF n <= 0 THEN [i \in DOMAIN lams |-> 0]
        ELSE IF forced # {} /\ rest # <<>> /\ n > Cardinality(forced)
        THEN [i \in DOMAIN lams |->
                IF i \in forced THEN 1
                ELSE sub[CHOOSE k \in DOMAIN rest : rest[k] = i]]
        ELSE Apportion(lams, n)

Lams(P) == [t \in DOMAIN P.tasks |-> P.tasks[t].lam]

\* fair_ratios, as whole numbers: segments of a task by its share
FairScale == 2520
FairRatio(P, quota, t) == (quota[t] * FairScale) \div P.tasks[t].lam

-----------------------------------------------------------------------------
\* _exact_slot_packing: the most channels whose segments can be given forms
\* out of the machines there are. What is folded is what may be left over.
Packs(tiers, needs, supply) ==
    FoldLeft(LAMBDA left, fs :
                UNION {{[name \in DOMAIN s |-> s[name] - Uses(tiers, f, name)] :
                            f \in {f \in fs : \A name \in ClassNames(tiers, f) :
                                                Uses(tiers, f, name) <= s[name]}} : s \in left},
             {supply}, needs) # {}

SlotPacking(P, tiers, active, forms, upper) ==
    LET names    == {tiers[i].name : i \in active}
        supply   == [name \in names |->
                        MaxOf({tiers[i].count : i \in {i \in active : tiers[i].name = name}}, 0)]
        quota(n) == LargestRemainder(Lams(P), n)
        needs(n) == [i \in 1..n |-> forms.front]
                    \o FlattenSeq([t \in DOMAIN P.tasks |-> [i \in 1..quota(n)[t] |-> forms.back[t]]])
    IN  MaxOf({n \in 0..upper : n = 0 \/ Packs(tiers, needs(n), supply)}, 0)

\* estimate_capacity_by_tier. The supply of a class name is the count of the
\* last class of that name.
Forms(P, l0, tiers) ==
    [front |-> EnumerateForms(P, FrontSpec(P, l0, P.nodes), tiers),
     back  |-> [t \in DOMAIN P.tasks |-> EnumerateForms(P, BackSpec(P, t, l0), tiers)]]

Demand(P, l0) ==
    LamUnit * TotalGb(P, FrontSpec(P, l0, P.nodes))
    + SumFunction([t \in DOMAIN P.tasks |-> P.tasks[t].lam * TotalGb(P, BackSpec(P, t, l0))])

MostChannels(P, l0, tiers, forms, active) ==
    LET supply == SumFunction([i \in active |-> tiers[i].mem * tiers[i].count])
        count(name) == tiers[MaxOf({i \in DOMAIN tiers : tiers[i].name = name}, 0)].count
        most(t) == MaxOf({MinOf({count(name) \div Uses(tiers, f, name) : name \in ClassNames(tiers, f)}, 0)
                            : f \in forms.back[t]}, 0)
    IN  MinOf({(supply * LamUnit) \div Demand(P, l0)}
              \cup {(most(t) * LamUnit) \div P.tasks[t].lam : t \in DOMAIN P.tasks}, 0)

Capacity(P, tiers, forms, active, nMax) ==
    [tiers |-> tiers, forms |-> forms, nMax |-> nMax,
     nSlots |-> IF nMax = 0 THEN 0 ELSE SlotPacking(P, tiers, active, forms, nMax)]

Estimate(P, l0, tiers, forms) ==
    LET served == UNION {ClassNames(tiers, f) : f \in forms.front \cup UNION Range(forms.back)}
        active == {i \in DOMAIN tiers : tiers[i].name \in served}
    IN  Capacity(P, tiers, forms, active,
                 IF \E t \in DOMAIN P.tasks : forms.back[t] = {} THEN 0
                 ELSE MostChannels(P, l0, tiers, forms, active))

EstimateOf(P, l0, tiers) == Estimate(P, l0, tiers, Forms(P, l0, tiers))
EstimateCapacity(P, l0) == EstimateOf(P, l0, ClassifyTiers(P))

-----------------------------------------------------------------------------
\* choose_l0: the candidates, the front must fit on one machine, and the best:
\* most channels, fewest hops, then the accuracy.
Hops(P, spec) == HopsMin(TotalGb(P, spec), MaxUsable(P, P.nodes))

L0Candidate(P, l0) ==
    LET front == FrontSpec(P, l0, P.nodes)
    IN  [l0 |-> l0, p |-> P.curve[l0],
         slots |-> IF TotalGb(P, front) > MaxUsable(P, P.nodes) THEN 0
                   ELSE EstimateCapacity(P, l0).nSlots,
         hops |-> LamUnit * Hops(P, front)
                  + SumFunction([t \in DOMAIN P.tasks |-> P.tasks[t].lam * Hops(P, BackSpec(P, t, l0))])]

Candidates(P) ==
    LET l0s == Where([l \in 1..(P.L - 1) |-> l], DOMAIN P.curve)
    IN  [i \in DOMAIN l0s |-> L0Candidate(P, l0s[i])]

MostSlots(good) ==
    Best(good, [i \in DOMAIN good |-> <<-good[i].slots, good[i].hops, -good[i].p, good[i].l0>>], 1)

Choice(P, all) ==
    MostSlots(Where(all, {i \in DOMAIN all : all[i].slots > 0 /\ all[i].p >= P.cfg.pmin}))

ChooseL0(P) == The({Choice(P, all) : all \in {Candidates(P)}})

\* select_rent_nodes(policy="smallest_sufficient")
SelectRentNodes(P, l0, n) ==
    LET need == TotalGb(P, FrontSpec(P, l0, P.nodes))
    IN  Range(Take(SortedBy(SelectSeq(Names(P), LAMBDA v : P.mem[v] >= need),
                            LAMBDA v : <<P.mem[v], P.stab[v]>>), n))

\* scarcity_rent_nodes: the classes this task can do without and some other
\* segment cannot.
ScarcityRentNodes(P, cap, t) ==
    LET others == {cap.forms.front} \cup {cap.forms.back[u] : u \in DOMAIN P.tasks \ {t}}
        mine   == cap.forms.back[t]
        charged == {name \in {cap.tiers[i].name : i \in DOMAIN cap.tiers} :
                        /\ \E fs \in others :
                              fs # {} /\ \A f \in fs : name \in ClassNames(cap.tiers, f)
                        /\ \E f \in mine : name \notin ClassNames(cap.tiers, f)}
    IN  {v \in P.nodes : P.tier[v] \in charged}
=============================================================================
