------------------------------- MODULE Solver -------------------------------
(***************************************************************************)
(* The beam search that places one segment on the machines still free      *)
(* (p2pmoe/planner/solver.py). A partial segment grows machine by machine; *)
(* the search keeps the best few by a score that adds a lower bound of     *)
(* what is still to come.                                                  *)
(***************************************************************************)
EXTENDS Inventory

\* A bug of that kind: the key/value cache is forgotten.
MemOkWeights(P, spec, lo, hi, v) == SumFunction([l \in lo..hi |-> spec.gb[l]]) <= P.mem[v]

\* _mem_ok
MemOk(P, spec, lo, hi, v) == Resident(P, spec, lo, hi) <= P.mem[v]

\* prune_neighbors: the machines worth going to after v.
PruneNeighbors(P, v, avail) ==
    LET us == Where(avail, {i \in DOMAIN avail : avail[i] # v /\ ~Blocked(P, v, avail[i])})
    IN  Best(us, [i \in DOMAIN us |-> <<-P.mem[us[i]], Delay(P, v, us[i]), P.stab[us[i]]>>],
             P.cfg.prune)

\* segment_from_nodes
Segment(P, spec, nodes, splits) ==
    LET links == [i \in 1..(Len(nodes) - 1) |-> <<nodes[i], nodes[i + 1]>>] IN
    [kind |-> spec.kind, task |-> spec.task, nodes |-> nodes, splits |-> splits,
     compute |-> Total([i \in DOMAIN nodes |->
                    (splits[i][2] - splits[i][1] + 1) * P.ms[nodes[i]]]),
     hop |-> Total([i \in DOMAIN links |-> Delay(P, links[i][1], links[i][2])]),
     jitter |-> Total([i \in DOMAIN links |-> Jitter(P, links[i][1], links[i][2])])]

Placed(spec, seg) == Last(seg.splits)[2] - spec.lo + 1
Complete(spec, seg) == Last(seg.splits)[2] = spec.hi

\* The ways to give v the next layers, from lo on: as many as fit, and the
\* last ones only to a machine that may be a tail.
Extensions(P, spec, nodes, splits, lo, v) ==
    LET upTo == [k \in 1..(spec.hi - lo + 1) |->
                    Segment(P, spec, Append(nodes, v), Append(splits, <<lo, lo + k - 1>>))]
    IN  Where(upTo, {k \in DOMAIN upTo : /\ MemOk(P, spec, lo, lo + k - 1, v)
                                         /\ lo + k - 1 = spec.hi => v \in spec.tails})

\* What the search of one segment goes by: the objective, how many partial
\* segments it keeps, and the bounds for what is still to be placed.
Guide(P, S, o, beam) ==
    [o |-> o, beam |-> beam, minMs |-> MinOf({P.ms[v] : v \in S}, 0),
     maxCap |-> MaxUsable(P, S), minHop |-> MinHop(P, S)]

\* completion_lb: least computation and hops of what is still to be placed.
CompletionLb(P, spec, g, placed) ==
    LET rem  == spec.hi - spec.lo + 1 - placed
        more == MaxOf({1, CeilDiv(Resident(P, spec, spec.lo + placed, spec.hi), g.maxCap)}, 1)
    IN  IF rem = 0 THEN <<0, 0>> ELSE <<rem * g.minMs, more * g.minHop>>

\* score_partial, and the cut of the beam by it
PartialScore(P, spec, g, seg) ==
    LET lb == CompletionLb(P, spec, g, Placed(spec, seg))
    IN  Score(P, g.o, seg.compute + lb[1], seg.hop + lb[2], seg.jitter, seg.nodes, TRUE)
KeepBest(P, spec, g, segs) ==
    Best(segs, [i \in DOMAIN segs |-> <<PartialScore(P, spec, g, segs[i])>>], g.beam)

\* The ways to go on from a partial segment.
Successors(P, spec, avail, seg) ==
    LET near == PruneNeighbors(P, TailOf(seg), avail)
        vs   == Where(near, {i \in DOMAIN near : near[i] \notin NodesOf(seg)})
    IN  FlattenSeq([i \in DOMAIN vs |->
            Extensions(P, spec, seg.nodes, seg.splits, Last(seg.splits)[2] + 1, vs[i])])

Starts(P, spec, avail, g) ==
    LET vs == Best(avail, [i \in DOMAIN avail |-> <<-P.mem[avail[i]], P.stab[avail[i]]>>],
                   MaxOf({P.cfg.prune, g.beam}, 0))
    IN  KeepBest(P, spec, g, FlattenSeq([i \in DOMAIN vs |->
                                Extensions(P, spec, <<>>, <<>>, spec.lo, vs[i])]))

\* The rounds of the search: what was kept of one goes on to the next, or is
\* complete. A round adds a machine, which has a layer at least.
Layers(spec) == spec.hi - spec.lo + 1

Grow(P, spec, avail, g, at) ==
    LET done == {i \in DOMAIN at.kept : Complete(spec, at.kept[i])}
        open == Where(at.kept, DOMAIN at.kept \ done)
    IN  [kept |-> KeepBest(P, spec, g, FlattenSeq([i \in DOMAIN open |->
                                            Successors(P, spec, avail, open[i])])),
         finished |-> at.finished \o Where(at.kept, done)]

Grown(P, spec, avail, g) ==
    LET after[n \in 0..Layers(spec)] ==
            IF n = 0 THEN [kept |-> Starts(P, spec, avail, g), finished |-> <<>>]
            ELSE Grow(P, spec, avail, g, after[n - 1])
    IN  after

\* deploy_path: <<>>, or the one segment found.
FinalScore(P, o, seg) == Score(P, o, seg.compute, seg.hop, seg.jitter, seg.nodes, FALSE)

Fittest(P, o, found) == Best(found, [i \in DOMAIN found |-> <<FinalScore(P, o, found[i])>>], 1)

DeployPath(P, spec, S, o, beam) ==
    IF S = {} \/ Layers(spec) <= 0 THEN <<>>
    ELSE The({Fittest(P, o, found) :
                 found \in {Grown(P, spec, InOrder(S), Guide(P, S, o, beam))[Layers(spec)].finished}})
=============================================================================
