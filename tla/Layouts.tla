------------------------------ MODULE Layouts ------------------------------
(***************************************************************************)
(* Deployments written by hand (p2pmoe/deploy/manual.py): the planner is   *)
(* passed by, and the checks made here are all that stands between a slip  *)
(* of the pen and the machines.                                            *)
(*                                                                         *)
(* A layout is [l0, channels, experts]: l0 is 0 when not given; experts is *)
(* a function on some layers. A channel is [front, back, task, experts]; a *)
(* segment is [nodes, layers], where layers is <<>> when only the machines *)
(* are named, or the interval of each.                                     *)
(***************************************************************************)
EXTENDS Experts, Manifest

NotGiven == 0

\* split_layers: as even as can be, the first ones one more; <<>> if a machine
\* would be left without a layer.
SplitLayers(lo, hi, n) ==
    LET total == hi - lo + 1
        size(i) == total \div n + IF i <= total % n THEN 1 ELSE 0
        from(i) == lo + SumFunction([j \in 1..(i - 1) |-> size(j)])
    IN  IF n <= 0 \/ n > total THEN <<>>
        ELSE [i \in 1..n |-> <<from(i), from(i) + size(i) - 1>>]

\* check_contiguous
Contiguous(splits) ==
    \A i \in DOMAIN splits : /\ splits[i][1] <= splits[i][2]
                             /\ i > 1 => splits[i][1] = splits[i - 1][2] + 1

\* _segment: <<>> when it is refused, or the one segment.
ParseSegment(spec, lo, hi) ==
    LET splits == IF spec.layers # <<>> THEN spec.layers
                  ELSE IF hi = NotGiven THEN <<>>
                  ELSE SplitLayers(lo, hi, Len(spec.nodes))
    IN  IF spec.nodes = <<>> \/ splits = <<>> \/ ~Contiguous(splits) THEN <<>>
        ELSE <<[nodes |-> spec.nodes, splits |-> splits]>>

LastLayer(seg) == Last(seg.splits)[2]

\* from_dict: a channel at a time; the back goes on where the front ends.
ParseBack(ch, front, L) ==
    IF front = <<>> THEN <<>> ELSE ParseSegment(ch.back, LastLayer(front[1]) + 1, L)
Joined(ch, front, back) ==
    IF back = <<>> THEN <<>>
    ELSE <<[front |-> front[1], back |-> back[1], task |-> ch.task, experts |-> ch.experts]>>
ChannelFrom(ch, front, L) == Joined(ch, front, ParseBack(ch, front, L))
ParseChannel(layout, ch, L) == ChannelFrom(ch, ParseSegment(ch.front, 1, layout.l0), L)

Accepted(chans) ==
    IF chans = <<>> \/ \E i \in DOMAIN chans : chans[i] = <<>> THEN <<>>
    ELSE [i \in DOMAIN chans |-> chans[i][1]]
Parse(layout, L) ==
    Accepted([i \in DOMAIN layout.channels |-> ParseChannel(layout, layout.channels[i], L)])

\* apply_profile: the back segments hold what the profile of their task says.
ApplyProfile(channels, profiles, coverage, topK) ==
    [i \in DOMAIN channels |->
        LET ch == channels[i]
            measured == {l \in ch.back.splits[1][1]..LastLayer(ch.back) :
                            profiles[ch.task][l] # NotMeasured}
        IN  [ch EXCEPT !.experts =
                [l \in measured |-> Chosen(profiles[ch.task][l], coverage, topK)]]]

\* experts_at
ExpertsAt(box, own, layer, nExperts) ==
    IF layer \in DOMAIN own THEN own[layer]
    ELSE IF layer \in DOMAIN box THEN box[layer] ELSE 0..(nExperts - 1)

\* _validate
ChannelNodes(channels) ==
    FlattenSeq([i \in DOMAIN channels |-> channels[i].front.nodes \o channels[i].back.nodes])
Boxes(layout, channels) == {layout.experts} \cup {channels[i].experts : i \in DOMAIN channels}

\* A bug of that kind: a back segment may end before the last layer.
LayoutOkNoEnd(layout, channels, L, nExperts, topK) ==
    /\ \A i \in DOMAIN channels :
          /\ channels[i].front.splits[1][1] = 1
          /\ channels[i].back.splits[1][1] = LastLayer(channels[i].front) + 1
    /\ IsInjective(ChannelNodes(channels))

LayoutOk(layout, channels, L, nExperts, topK) ==
    /\ \A i \in DOMAIN channels :
          LET f == channels[i].front
              b == channels[i].back
          IN  /\ f.splits[1][1] = 1
              /\ b.splits[1][1] = LastLayer(f) + 1
              /\ LastLayer(b) = L
              /\ LastLayer(f) = LastLayer(channels[1].front)
    /\ IsInjective(ChannelNodes(channels))
    /\ \A box \in Boxes(layout, channels) : \A l \in DOMAIN box :
          /\ l \in 1..L
          /\ box[l] # {} /\ box[l] \subseteq 0..(nExperts - 1)
          /\ Cardinality(box[l]) >= topK

\* build_manual_manifest: channel i is the front F(i) wired to the back B(i).
ManualManifest(P, layout, channels, nExperts) ==
    LET held(own) == [l \in 1..P.L |-> ExpertsAt(layout.experts, own, l, nExperts)]
        front(i) == FrontId(i)
        back(i)  == BackId(channels[i].task, i)
        entry(id) == LET ch  == channels[id[3]]
                         seg == IF id[1] = "F" THEN ch.front ELSE ch.back
                     IN  [role |-> IF id[1] = "F" THEN "front" ELSE "back", task |-> id[2],
                          nodes |-> seg.nodes, splits |-> seg.splits]
    IN  [l0 |-> LastLayer(channels[1].front), band |-> <<0, 0>>, pairings |-> <<>>,
         segments |-> [id \in UNION {{front(i), back(i)} : i \in DOMAIN channels} |-> entry(id)],
         nodes |-> FlattenSeq([i \in DOMAIN channels |->
                        NodePlans(P, front(i), "front", channels[i].front, held(<<>>))
                        \o NodePlans(P, back(i), "back", channels[i].back,
                                     held(channels[i].experts))])]

ManualWiring(channels) ==
    [f \in {FrontId(i) : i \in DOMAIN channels} |-> BackId(channels[f[3]].task, f[3])]
=============================================================================
