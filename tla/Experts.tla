------------------------------ MODULE Experts ------------------------------
(***************************************************************************)
(* Which experts a segment holds (p2pmoe/planner/experts.py, and           *)
(* p2pmoe/runtime/profile.py, which collects the profile). A profile gives *)
(* a task the weight of every expert in every layer: mass[l][e], in        *)
(* percent, experts numbered from 0; a layer that no record mentions is    *)
(* NotMeasured.                                                            *)
(***************************************************************************)
EXTENDS Inventory

NotMeasured == <<>>

ExpertsOf(mass) == 0..(Len(mass) - 1)
MassOf(mass, S) == SumFunction([e \in S |-> mass[e + 1]])

\* ActivationProfile.ranked: the heaviest first, of equal ones the lower number.
Ranked(mass) ==
    SortedBy([i \in DOMAIN mass |-> i - 1], LAMBDA e : <<-mass[e + 1], e>>)

\* A bug of that kind: as many experts as a token uses will do.
ChosenTopK(mass, coverage, topK) == Range(Take(Ranked(mass), topK))

\* build_placement, placement_from_profile: the heaviest experts until they
\* carry the coverage and are as many as one token uses.
Chosen(mass, coverage, topK) ==
    LET enough(n) == /\ MassOf(mass, Range(Take(Ranked(mass), n))) >= coverage
                     /\ n >= topK
    IN  Range(Take(Ranked(mass), MinOf({n \in 1..Len(mass) : enough(n)}, Len(mass))))

\* _load_profile_file: a layer without a profile holds every expert.
Placement(profile, coverage, topK, nExperts) ==
    [l \in DOMAIN profile |->
        IF profile[l] = NotMeasured THEN 0..(nExperts - 1)
        ELSE Chosen(profile[l], coverage, topK)]

\* full_placement, union_placement
FullPlacement(nLayers, nExperts) == [l \in 1..nLayers |-> 0..(nExperts - 1)]
UnionPlacement(placements) ==
    [l \in DOMAIN placements[1] |-> UNION {placements[i][l] : i \in DOMAIN placements}]

\* build_model_setup: what the back segments of each task and the front
\* segments are to hold. In static mode the fronts hold everything.
WithExperts(P, profiles, nExperts, coverage, topK, full) ==
    LET plcs == [t \in DOMAIN P.tasks |-> Placement(profiles[t], coverage, topK, nExperts)]
    IN  [P EXCEPT !.tasks = [t \in DOMAIN P.tasks |-> [P.tasks[t] EXCEPT !.experts = plcs[t]]],
                  !.union = IF full THEN FullPlacement(P.L, nExperts) ELSE UnionPlacement(plcs)]

-----------------------------------------------------------------------------
\* ActivationProfile.mass_outside: the weight a task lacks on these experts.
MassOutside(mass, resident) == MaxOf({0, 100 - MassOf(mass, resident \cap ExpertsOf(mass))}, 0)
=============================================================================
