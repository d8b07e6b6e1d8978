------------------------------ MODULE Manifest ------------------------------
(***************************************************************************)
(* From segments to a deployment: which fronts are kept                    *)
(* (p2pmoe/planner/loop_trim.py), who serves with whom (static_pairing.py),*)
(* the manifest with its checks and what of it a file keeps (manifest.py), *)
(* the wiring and the configuration of every machine (deploy/control.py).  *)
(*                                                                         *)
(* Segments are named <<"F", 0, i>>, <<"S", 0, i>> (standby) and           *)
(* <<"B", task, i>>.                                                       *)
(***************************************************************************)
EXTENDS Band

NoNode == 0

FrontId(i) == <<"F", 0, i>>
StandbyId(i) == <<"S", 0, i>>
BackId(t, i) == <<"B", t, i>>

\* The back segments in the order in which their tasks were built.
BackIds(backs, order) ==
    FlattenSeq([k \in DOMAIN order |-> [i \in DOMAIN backs[order[k]] |-> BackId(order[k], i)]])
BackSegs(backs, order) ==
    FlattenSeq([k \in DOMAIN order |-> backs[order[k]]])

-----------------------------------------------------------------------------
\* loop_profile: the delay of the way back from the tails of the backs to the
\* head of each front, and whether its jitter shuts the front out.
LoopProfile(P, fronts, backSegs) ==
    [i \in DOMAIN fronts |->
        LET head == HeadOf(fronts[i]) IN
        [index |-> i,
         D     |-> Median([k \in DOMAIN backSegs |-> Delay(P, TailOf(backSegs[k]), head)]),
         gated |-> MaxJitter([k \in DOMAIN backSegs |-> Jitter(P, TailOf(backSegs[k]), head)])
                   > P.cfg.jcap]]

\* trim_by_loop: the fronts that passed, the shortest way back first.
Live(profiles) == Where(profiles, {k \in DOMAIN profiles : ~profiles[k].gated})
TrimByLoop(profiles) ==
    LET live  == Live(profiles)
        order == Best(live, [k \in DOMAIN live |-> <<live[k].D, live[k].index>>], Len(live))
    IN  [k \in DOMAIN order |-> order[k].index]

-----------------------------------------------------------------------------
\* The whole lap of a front with a back.
LapTime(P, f, b) ==
    SegDelay(f) + Delay(P, TailOf(f), HeadOf(b)) + SegDelay(b) + Delay(P, TailOf(b), HeadOf(f))

\* Pairs taken in their order, each front and each back once.
Greedy(pairs) ==
    FoldLeft(LAMBDA chosen, p :
                IF \E i \in DOMAIN chosen : chosen[i].front = p.front \/ chosen[i].back = p.back
                THEN chosen ELSE Append(chosen, p),
             <<>>, pairs)

AsMap(pairs) ==
    [f \in {pairs[i].front : i \in DOMAIN pairs} |->
        (CHOOSE p \in Range(pairs) : p.front = f).back]

\* assign_static_pairs
AssignStaticPairs(P, fronts, backs, order) ==
    LET bs    == BackIds(backs, order)
        cands == FlattenSeq([i \in DOMAIN fronts |-> [k \in DOMAIN bs |->
                    [front |-> FrontId(i), back |-> bs[k],
                     t50 |-> LapTime(P, fronts[i], backs[bs[k][2]][bs[k][3]])]]])
    IN  AsMap(Greedy(SortedBy(cands, LAMBDA p : <<p.t50>>)))

-----------------------------------------------------------------------------
\* _layer_loads and NodePlan.total_gb
Held(seg, i, experts) == [l \in seg.splits[i][1]..seg.splits[i][2] |-> experts[l]]
HeldGb(P, held) ==
    SumFunction([l \in DOMAIN held |-> WeightPerLayer(P, Cardinality(held[l])) + P.kv])

NodePlans(P, sid, role, seg, experts) ==
    [i \in DOMAIN seg.nodes |->
        [node |-> seg.nodes[i], role |-> role, segment |-> sid, position |-> i,
         experts |-> Held(seg, i, experts), gb |-> HeldGb(P, Held(seg, i, experts))]]

\* build_manifest
BuildManifest(P, l0, fronts, standby, backs, order, band) ==
    LET bs  == BackIds(backs, order)
        back(id) == backs[id[2]][id[3]]
        sids == [i \in DOMAIN fronts |-> FrontId(i)] \o [i \in DOMAIN standby |-> StandbyId(i)] \o bs
        seg  == [id \in Range(sids) |->
                    CASE id[1] = "F" -> fronts[id[3]]
                      [] id[1] = "S" -> standby[id[3]]
                      [] id[1] = "B" -> back(id)]
        held(id) == IF id[1] = "B" THEN P.tasks[id[2]].experts ELSE P.union
        role(id) == CASE id[1] = "F" -> "front" [] id[1] = "S" -> "front-standby" [] id[1] = "B" -> "back"
        pair(f, b) ==
            [front |-> f, back |-> b,
             w |-> Delay(P, TailOf(seg[f]), HeadOf(seg[b])),
             wJitter |-> Jitter(P, TailOf(seg[f]), HeadOf(seg[b])),
             loopJitter |-> Jitter(P, TailOf(seg[b]), HeadOf(seg[f])),
             t50 |-> LapTime(P, seg[f], seg[b])]
    IN  [l0 |-> l0, band |-> <<band.lo, band.hi>>,
         segments |-> [id \in Range(sids) |->
                        [role |-> role(id), task |-> id[2],
                         nodes |-> seg[id].nodes, splits |-> seg[id].splits]],
         nodes |-> FlattenSeq([k \in DOMAIN sids |->
                        NodePlans(P, sids[k], role(sids[k]), seg[sids[k]], held(sids[k]))]),
         pairings |-> FlattenSeq([i \in DOMAIN fronts |->
                        [k \in DOMAIN bs |-> pair(FrontId(i), bs[k])]])]

-----------------------------------------------------------------------------
\* _validate: the kinds of violation found.
Splits(man) == {man.segments[id].splits : id \in DOMAIN man.segments}

NotExclusive(man) ==
    \E i, j \in DOMAIN man.nodes : i < j /\ man.nodes[i].node = man.nodes[j].node
OverMemory(P, man) == \E i \in DOMAIN man.nodes : man.nodes[i].gb > P.mem[man.nodes[i].node]
Torn(man) == \E s \in Splits(man) : \E i \in 2..Len(s) : s[i][1] # s[i - 1][2] + 1
NotCovered(P, man) ==
    \E id \in DOMAIN man.segments :
        LET s == man.segments[id].splits
        IN  <<s[1][1], Last(s)[2]>> # IF man.segments[id].role = "back" THEN <<man.l0 + 1, P.L>>
                                      ELSE <<1, man.l0>>
UnionLacks(P, man) ==
    \E t \in DOMAIN P.tasks, l \in 1..man.l0 : ~(P.tasks[t].experts[l] \subseteq P.union[l])
WrongExperts(P, man) ==
    \E i \in DOMAIN man.nodes :
        LET p == man.nodes[i]
        IN  p.role = "back" /\ \E l \in DOMAIN p.experts :
                                    p.experts[l] # P.tasks[p.segment[2]].experts[l]
OutOfBand(man, wcap) ==
    \E i \in DOMAIN man.pairings :
        LET w == Fine(man.pairings[i].w) IN w < man.band[1] \/ w > man.band[2] \/ w > wcap
TooJittery(P, man) ==
    \E i \in DOMAIN man.pairings :
        \/ man.pairings[i].wJitter > P.cfg.jcap
        \/ man.pairings[i].loopJitter > P.cfg.jcap

Ok(P, man, wcap) ==
    ~(\/ NotExclusive(man) \/ OverMemory(P, man) \/ Torn(man) \/ NotCovered(P, man)
      \/ UnionLacks(P, man) \/ WrongExperts(P, man) \/ OutOfBand(man, wcap) \/ TooJittery(P, man))

\* to_dict, from_dict: the jitters are not written, and are read as 0. Delays
\* are written with two decimals of a millisecond, which is what a delay of the
\* model has: rounding changes nothing here, and is not examined.
Saved(man) ==
    [man EXCEPT !.pairings =
        [i \in DOMAIN man.pairings |->
            [man.pairings[i] EXCEPT !.wJitter = 0, !.loopJitter = 0]]]

-----------------------------------------------------------------------------
\* A bug of that kind: the pairs are taken as they stand in the file.
SavedWiringUnsorted(man) == AsMap(Greedy(man.pairings))

\* main: the pairing of a plan that was loaded.
SavedWiring(man) == AsMap(Greedy(SortedBy(man.pairings, LAMBDA p : <<p.t50>>)))

\* resolve_wiring: the lines of a file name segments or machines of them; the
\* result is <<>> when a line is refused.
MachineName(v) == <<"N", 0, v>>
Sid(man, name) ==
    {id \in DOMAIN man.segments :
        id = name \/ \E v \in Range(man.segments[id].nodes) : name = MachineName(v)}
ResolveWiring(man, lines) ==
    LET front(i) == {id \in Sid(man, lines[i].front) : man.segments[id].role = "front"}
        back(i)  == {id \in Sid(man, lines[i].back) : man.segments[id].role = "back"}
        of(S)    == CHOOSE id \in S : TRUE
        ok == /\ \A i \in DOMAIN lines : front(i) # {} /\ back(i) # {}
              /\ \A i \in DOMAIN lines : lines[i].task \in {0, of(back(i))[2]}
              /\ \A i, j \in DOMAIN lines :
                    i # j => of(front(i)) # of(front(j)) /\ of(back(i)) # of(back(j))
    IN  IF ok THEN [f \in {of(front(i)) : i \in DOMAIN lines} |->
                        of(back(CHOOSE i \in DOMAIN lines : of(front(i)) = f))]
        ELSE <<>>

\* distribute: what the i-th machine of the manifest is told.
ConfigOf(man, wired, i) ==
    LET p    == man.nodes[i]
        segm == man.segments[p.segment]
        last == p.position = Len(segm.nodes)
        isFront == p.role # "back"
        tailPeer == isFront /\ last /\ p.segment \in DOMAIN wired
    IN  [role |-> IF isFront THEN "front" ELSE "back", segment |-> p.segment,
         experts |-> p.experts,
         next |-> IF last THEN NoNode ELSE segm.nodes[p.position + 1],
         segHead |-> segm.nodes[1], isHead |-> p.position = 1, isTail |-> last,
         withEmbed |-> isFront /\ p.position = 1, withLmHead |-> ~isFront /\ last,
         classifier |-> wired = <<>> /\ isFront /\ last,
         peer |-> IF tailPeer THEN man.segments[wired[p.segment]].nodes[1] ELSE NoNode,
         task |-> CASE tailPeer -> wired[p.segment][2]
                    [] wired # <<>> /\ ~isFront -> p.segment[2]
                    [] OTHER -> 0]

\* The machines distribute refuses to fill: more than 92 % of their memory.
TooFull(P, man) ==
    {i \in DOMAIN man.nodes : 100 * man.nodes[i].gb > 92 * P.raw[man.nodes[i].node]}
=============================================================================
