---------------------------- MODULE MCPlanning ----------------------------
(* Sites for TLC, each for something the planner may run into.  Times are   *)
(* in units of 0.05 ms, memory in quarters of a unit.                       *)
EXTENDS Planning

\* PlannerConfig as control.py fills it.
Cfg == [eta |-> 15, beta |-> 130, jcap |-> 600, theta |-> 80, kappa |-> 30, standby |-> 0, rho |-> 150, rentNu |-> 300, goodGamma |-> 500,
        tightenEps |-> 10, tightenMax |-> 8, beam |-> 12, beamFront |-> 16, prune |-> 10, hopsSlack |-> 1, layerMs |-> 7, pmin |-> 80]

\* avail 0.95 and mu 800 ms; p_id is min(0.97, 0.70 + 0.05 * l), where 0.70 +
\* 0.05 * 2 is a little less than 0.80.
Problem(raw, L, gb, lams, p50, jit) ==
    [nodes |-> DOMAIN raw, raw |-> raw, mem |-> <<>>, ms |-> <<>>, tier |-> <<>>,
     stab |-> [v \in DOMAIN raw |-> 41034], p50 |-> p50, jit |-> jit,
     L |-> L, base |-> gb[1], expert |-> gb[2], kv |-> gb[3],
     tasks |-> [t \in DOMAIN lams |-> [name |-> t, lam |-> lams[t], experts |-> <<>>]],
     union |-> <<>>, cfg |-> Cfg,
     curve |-> [l \in 1..(L - 1) |-> IF l = 2 THEN 79 ELSE MinOf({97, 70 + 5 * l}, 0)]]

\* Layouts for five machines and five layers: two that are well formed, and
\* slips of the pen.
OnTwo(cut, back) == [l0 |-> cut, experts |-> <<>>,
    channels |-> <<[front |-> [nodes |-> <<1>>, layers |-> <<>>], back |-> back, task |-> 1,
                    experts |-> <<>>]>>]
Two(a, b, c, d, cut) == [l0 |-> 2, experts |-> (3 :> {0, 1}),
    channels |-> <<[front |-> [nodes |-> a, layers |-> <<>>], back |-> [nodes |-> b, layers |-> <<>>],
                    task |-> 1, experts |-> <<>>],
                   [front |-> [nodes |-> c, layers |-> cut], back |-> [nodes |-> d, layers |-> <<>>],
                    task |-> 1, experts |-> (4 :> {1})]>>]
Handwritten ==
    {Two(<<1>>, <<2>>, <<3, 4>>, <<5>>, <<>>),                          \* well formed
     OnTwo(3, [nodes |-> <<2, 3>>, layers |-> <<<<4, 4>>, <<5, 5>>>>]), \* well formed
     Two(<<1>>, <<2>>, <<3>>, <<4>>, <<<<1, 3>>>>),                     \* two cuts
     Two(<<1>>, <<2>>, <<3>>, <<2>>, <<>>),                             \* a machine twice
     Two(<<1>>, <<2>>, <<3>>, <<9>>, <<>>),                             \* an unknown machine
     OnTwo(3, [nodes |-> <<2, 3>>, layers |-> <<<<4, 4>>, <<4, 5>>>>]), \* a layer twice
     OnTwo(3, [nodes |-> <<2>>, layers |-> <<<<4, 4>>>>]),              \* short of the end
     OnTwo(0, [nodes |-> <<2>>, layers |-> <<>>]),                      \* no cut
     OnTwo(4, [nodes |-> <<2, 3>>, layers |-> <<>>])}                   \* more machines than layers

\* segments are placed anew, the rounds end worse and are rolled back
Rebuilds ==
    [problem |-> Problem(<<28, 29, 28, 29, 20, 23>>, 4, <<1, 2, 1>>, <<6, 4>>,
        <<<<0, 480, 400, 40, 280, 200>>,
          <<480, 0, 420, 460, 220, 620>>,
          <<400, 420, 0, 380, 220, 420>>,
          <<40, 460, 380, 0, 260, 180>>,
          <<280, 220, 220, 260, 0, 420>>,
          <<200, 620, 420, 180, 420, 0>>>>,
        <<<<0, 100, 100, 100, 40, 40>>,
          <<100, 0, 40, 20, 0, 100>>,
          <<100, 40, 0, 700, 20, 20>>,
          <<100, 20, 700, 0, 100, 0>>,
          <<40, 0, 20, 100, 0, 100>>,
          <<40, 100, 20, 0, 100, 0>>>>),
     speed |-> <<1, 4, 3, 1, 1, 2>>,
     profiles |-> <<<<<<50, 0, 50>>, <<10, 10, 80>>, <<5, 90, 5>>, <<10, 10, 80>>>>, <<<<50, 0, 50>>, <<50, 0, 50>>, <<5, 90, 5>>, <<80, 15, 5>>>>>>,
     coverage |-> 95, topK |-> 2, nExperts |-> 3, full |-> TRUE,
     mayMiss |-> {6}, mode |-> "static", names |-> {}, layouts |-> {}]

\* the last round is worse than one before, and its band is another
RollsBack ==
    [problem |-> Problem(<<25, 28, 27, 13, 27, 25, 25>>, 4, <<4, 2, 1>>, <<3, 7>>,
        <<<<0, 320, 120, 160, 100, 300, 100>>,
          <<320, 0, 300, 360, 100, 120, 120>>,
          <<120, 300, 0, 120, 100, 120, 140>>,
          <<160, 360, 120, 0, 340, 140, 100>>,
          <<100, 100, 100, 340, 0, 160, 100>>,
          <<300, 120, 120, 140, 160, 0, 100>>,
          <<100, 120, 140, 100, 100, 100, 0>>>>,
        <<<<0, 0, 0, 40, 20, 100, 40>>,
          <<0, 0, 20, 100, 20, 100, 0>>,
          <<0, 20, 0, 100, 40, 40, 100>>,
          <<40, 100, 100, 0, 0, 20, 20>>,
          <<20, 20, 40, 0, 0, 20, 40>>,
          <<100, 100, 40, 20, 20, 0, 0>>,
          <<40, 0, 100, 20, 40, 0, 0>>>>),
     speed |-> <<3, 1, 4, 1, 2, 1, 1>>,
     profiles |-> <<<<<<100>>, <<100>>, <<100>>, <<100>>>>, <<<<100>>, <<100>>, <<100>>, <<100>>>>>>,
     coverage |-> 70, topK |-> 1, nExperts |-> 1, full |-> FALSE,
     mayMiss |-> {}, mode |-> "static", names |-> {}, layouts |-> {}]

\* a segment is given up and one is placed anew
Drops ==
    [problem |-> Problem(<<20, 11, 19, 19, 20, 9>>, 4, <<1, 1, 1>>, <<10>>,
        <<<<0, 380, 120, 120, 180, 280>>,
          <<380, 0, 480, 280, 340, 120>>,
          <<120, 480, 0, 220, 160, 380>>,
          <<120, 280, 220, 0, 80, 180>>,
          <<180, 340, 160, 80, 0, 240>>,
          <<280, 120, 380, 180, 240, 0>>>>,
        <<<<0, 100, 100, 0, 100, 100>>,
          <<100, 0, 0, 40, 0, 0>>,
          <<100, 0, 0, 0, 100, 0>>,
          <<0, 40, 0, 0, 0, 0>>,
          <<100, 0, 100, 0, 0, 0>>,
          <<100, 0, 0, 0, 0, 0>>>>),
     speed |-> <<1, 1, 4, 1, 4, 3>>,
     profiles |-> <<<<<<34, 33, 33>>, <<10, 10, 80>>, <<80, 15, 5>>, <<80, 15, 5>>>>>>,
     coverage |-> 95, topK |-> 2, nExperts |-> 3, full |-> FALSE,
     mayMiss |-> {}, mode |-> "dynamic", names |-> {}, layouts |-> {}]

\* a round of tightening is taken back, and a segment given up
Tightens ==
    [problem |-> Problem(<<12, 12, 11, 13, 12, 13>>, 4, <<1, 0, 1>>, <<10>>,
        <<<<0, 160, 40, 80, 200, 120>>,
          <<160, 0, 100, 200, 200, 20>>,
          <<40, 100, 0, 40, 20, 140>>,
          <<80, 200, 40, 0, 180, 40>>,
          <<200, 200, 20, 180, 0, 60>>,
          <<120, 20, 140, 40, 60, 0>>>>,
        <<<<0, 100, 100, 40, 0, 0>>,
          <<100, 0, 20, 100, 100, 700>>,
          <<100, 20, 0, 20, 100, 40>>,
          <<40, 100, 20, 0, 0, 0>>,
          <<0, 100, 100, 0, 0, 100>>,
          <<0, 700, 40, 0, 100, 0>>>>),
     speed |-> <<3, 3, 2, 2, 1, 1>>,
     profiles |-> <<<<<<100>>, <<100>>, <<100>>, <<100>>>>>>,
     coverage |-> 70, topK |-> 1, nExperts |-> 1, full |-> FALSE,
     mayMiss |-> {}, mode |-> "static", names |-> {}, layouts |-> {}]

\* one segment over two machines, fronts shut out by the jitter; layouts by hand
ByHand ==
    [problem |-> Problem(<<28, 15, 13, 28, 29>>, 5, <<1, 2, 1>>, <<10>>,
        <<<<0, 160, 100, 340, 140>>,
          <<160, 0, 100, 160, 160>>,
          <<100, 100, 0, 100, 100>>,
          <<340, 160, 100, 0, 140>>,
          <<140, 160, 100, 140, 0>>>>,
        <<<<0, 0, 20, 0, 40>>,
          <<0, 0, 20, 700, 0>>,
          <<20, 20, 0, 40, 40>>,
          <<0, 700, 40, 0, 0>>,
          <<40, 0, 40, 0, 0>>>>),
     speed |-> <<3, 4, 1, 2, 1>>,
     profiles |-> <<<<<<50, 0, 50>>, <<50, 0, 50>>, <<50, 0, 50>>, <<5, 90, 5>>, <<50, 0, 50>>>>>>,
     coverage |-> 90, topK |-> 2, nExperts |-> 3, full |-> TRUE,
     mayMiss |-> {2}, mode |-> "dynamic", names |-> {}, layouts |-> Handwritten]

\* no band with exits enough, and nothing left to give up
FewExits ==
    [problem |-> Problem(<<10, 15, 13, 16, 10>>, 5, <<1, 1, 1>>, <<2, 8>>,
        <<<<0, 40, 40, 140, 100>>,
          <<120, 0, 80, 180, 20>>,
          <<80, 180, 0, 40, 60>>,
          <<60, 240, 100, 0, 180>>,
          <<120, 240, 140, 220, 0>>>>,
        <<<<0, 0, 100, 100, 40>>,
          <<100, 0, 20, 40, 100>>,
          <<100, 20, 0, 40, 100>>,
          <<100, 100, 20, 0, 20>>,
          <<700, 20, 700, 0, 0>>>>),
     speed |-> <<1, 1, 4, 4, 1>>,
     profiles |-> <<<<<<100>>, <<100>>, <<100>>, <<100>>, <<100>>>>, <<<<100>>, <<100>>, <<100>>, <<100>>, <<100>>>>>>,
     coverage |-> 70, topK |-> 1, nExperts |-> 1, full |-> FALSE,
     mayMiss |-> {}, mode |-> "static", names |-> {}, layouts |-> {}]

\* tightening puts one machine into two fronts
Shared ==
    [problem |-> Problem(<<16, 20, 16, 12, 8, 12, 8>>, 5, <<3, 0, 1>>, <<10>>,
        <<<<0, 20, 20, 20, 20, 100, 120>>,
          <<20, 0, 100, 120, 120, 20, 20>>,
          <<20, 100, 0, 20, 20, 120, 120>>,
          <<20, 120, 20, 0, 100, 120, 100>>,
          <<20, 120, 20, 100, 0, 20, 120>>,
          <<100, 20, 120, 120, 20, 0, 100>>,
          <<120, 20, 120, 100, 120, 100, 0>>>>,
        <<<<0, 700, 0, 20, 0, 700, 0>>,
          <<700, 0, 0, 0, 0, 0, 20>>,
          <<0, 0, 0, 0, 0, 20, 700>>,
          <<20, 0, 0, 0, 700, 0, 700>>,
          <<0, 0, 0, 700, 0, 0, 700>>,
          <<700, 0, 20, 0, 0, 0, 700>>,
          <<0, 20, 700, 700, 700, 700, 0>>>>),
     speed |-> <<20, 6, 1, 6, 6, 20, 1>>,
     profiles |-> <<<<<<100>>, <<100>>, <<100>>, <<100>>, <<100>>>>>>,
     coverage |-> 70, topK |-> 1, nExperts |-> 1, full |-> FALSE,
     mayMiss |-> {}, mode |-> "dynamic", names |-> {}, layouts |-> {}]

\* a plan that distribute refuses
TooFullSite ==
    [problem |-> Problem(<<30, 43, 57, 30, 45, 56>>, 7, <<10, 1, 1>>, <<9, 1>>,
        <<<<0, 40, 120, 120, 200, 120>>,
          <<40, 0, 40, 40, 200, 40>>,
          <<120, 40, 0, 40, 200, 200>>,
          <<120, 40, 40, 0, 40, 120>>,
          <<200, 200, 200, 40, 0, 200>>,
          <<120, 40, 200, 120, 200, 0>>>>,
        <<<<0, 0, 20, 700, 100, 100>>,
          <<0, 0, 100, 700, 0, 100>>,
          <<20, 100, 0, 100, 700, 0>>,
          <<700, 700, 100, 0, 20, 0>>,
          <<100, 0, 700, 20, 0, 0>>,
          <<100, 100, 0, 0, 0, 0>>>>),
     speed |-> <<4, 6, 4, 1, 6, 1>>,
     profiles |-> <<<<<<10, 90>>, <<30, 70>>, <<97, 3>>, <<90, 10>>, <<97, 3>>, <<30, 70>>, <<30, 70>>>>, <<<<50, 50>>, <<10, 90>>, <<90, 10>>, <<30, 70>>, <<90, 10>>, <<10, 90>>, <<30, 70>>>>>>,
     coverage |-> 70, topK |-> 1, nExperts |-> 2, full |-> TRUE,
     mayMiss |-> {}, mode |-> "dynamic", names |-> {}, layouts |-> {}]

\* one of two tasks gets no segment
Unserved ==
    [problem |-> Problem(<<19, 11, 19, 19, 9>>, 5, <<1, 1, 1>>, <<2, 8>>,
        <<<<0, 160, 220, 100, 180>>,
          <<40, 0, 100, 120, 120>>,
          <<160, 40, 0, 100, 160>>,
          <<180, 140, 120, 0, 100>>,
          <<160, 140, 140, 160, 0>>>>,
        <<<<0, 100, 100, 0, 700>>,
          <<20, 0, 100, 40, 40>>,
          <<100, 0, 0, 100, 100>>,
          <<100, 100, 100, 0, 20>>,
          <<100, 20, 0, 0, 0>>>>),
     speed |-> <<1, 1, 1, 3, 1>>,
     profiles |-> <<<<<<80, 15, 5>>, <<80, 15, 5>>, <<80, 15, 5>>, <<80, 15, 5>>, <<50, 0, 50>>>>, <<<<50, 0, 50>>, <<50, 0, 50>>, <<5, 90, 5>>, <<50, 0, 50>>, <<5, 90, 5>>>>>>,
     coverage |-> 95, topK |-> 2, nExperts |-> 3, full |-> FALSE,
     mayMiss |-> {}, mode |-> "dynamic", names |-> {}, layouts |-> {}]

\* not one channel can be built
NoWork ==
    [problem |-> Problem(<<9, 10, 13, 13, 8>>, 6, <<2, 0, 1>>, <<9, 1>>,
        <<<<0, 240, 160, 240, 20>>,
          <<240, 0, 140, 220, 120>>,
          <<160, 140, 0, 20, 160>>,
          <<240, 220, 20, 0, 220>>,
          <<20, 120, 160, 220, 0>>>>,
        <<<<0, 100, 100, 100, 20>>,
          <<100, 0, 0, 0, 100>>,
          <<100, 0, 0, 40, 20>>,
          <<100, 0, 40, 0, 20>>,
          <<20, 100, 20, 20, 0>>>>),
     speed |-> <<1, 1, 4, 2, 1>>,
     profiles |-> <<<<<<97, 3>>, <<50, 50>>, <<97, 3>>, <<10, 90>>, <<97, 3>>, <<10, 90>>>>, <<<<90, 10>>, <<10, 90>>, <<90, 10>>, <<90, 10>>, <<90, 10>>, <<90, 10>>>>>>,
     coverage |-> 95, topK |-> 1, nExperts |-> 2, full |-> TRUE,
     mayMiss |-> {}, mode |-> "static", names |-> {}, layouts |-> {}]

\* no cut will do
NoCut ==
    [problem |-> Problem(<<22, 13, 14, 14, 24>>, 5, <<2, 2, 1>>, <<10>>,
        <<<<0, 140, 340, 320, 100>>,
          <<140, 0, 360, 160, 320>>,
          <<340, 360, 0, 100, 140>>,
          <<320, 160, 100, 0, 140>>,
          <<100, 320, 140, 140, 0>>>>,
        <<<<0, 40, 0, 100, 0>>,
          <<40, 0, 700, 700, 0>>,
          <<0, 700, 0, 0, 100>>,
          <<100, 700, 0, 0, 100>>,
          <<0, 0, 100, 100, 0>>>>),
     speed |-> <<4, 2, 2, 1, 1>>,
     profiles |-> <<<<<<5, 90, 5>>, <<5, 90, 5>>, <<5, 90, 5>>, <<34, 33, 33>>, <<5, 90, 5>>>>>>,
     coverage |-> 70, topK |-> 2, nExperts |-> 3, full |-> TRUE,
     mayMiss |-> {}, mode |-> "static", names |-> {}, layouts |-> {}]

\* every way back jitters
LoopGate ==
    [problem |-> Problem(<<12, 7, 13, 11, 13>>, 5, <<1, 0, 1>>, <<3, 7>>,
        <<<<0, 300, 340, 360, 120>>,
          <<160, 0, 120, 120, 140>>,
          <<120, 160, 0, 140, 160>>,
          <<140, 340, 160, 0, 340>>,
          <<320, 360, 360, 140, 0>>>>,
        <<<<0, 40, 100, 100, 0>>,
          <<700, 0, 700, 700, 20>>,
          <<100, 100, 0, 20, 0>>,
          <<40, 700, 20, 0, 20>>,
          <<100, 20, 0, 100, 0>>>>),
     speed |-> <<2, 1, 1, 3, 1>>,
     profiles |-> <<<<<<97, 3>>, <<90, 10>>, <<90, 10>>, <<90, 10>>, <<97, 3>>>>, <<<<30, 70>>, <<97, 3>>, <<90, 10>>, <<30, 70>>, <<90, 10>>>>>>,
     coverage |-> 90, topK |-> 1, nExperts |-> 2, full |-> FALSE,
     mayMiss |-> {}, mode |-> "static", names |-> {}, layouts |-> {}]

\* fronts of several machines, wired by a file
Wirings ==
    [problem |-> Problem(<<12, 10, 6, 6, 12, 12, 12>>, 5, <<1, 0, 1>>, <<10>>,
        <<<<0, 60, 60, 300, 120, 300, 120>>,
          <<60, 0, 300, 60, 300, 300, 60>>,
          <<60, 300, 0, 300, 60, 300, 60>>,
          <<300, 60, 300, 0, 120, 120, 60>>,
          <<120, 300, 60, 120, 0, 60, 300>>,
          <<300, 300, 300, 120, 60, 0, 120>>,
          <<120, 60, 60, 60, 300, 120, 0>>>>,
        <<<<0, 0, 20, 0, 0, 0, 0>>,
          <<0, 0, 0, 20, 20, 0, 0>>,
          <<20, 0, 0, 700, 0, 0, 20>>,
          <<0, 20, 700, 0, 20, 700, 0>>,
          <<0, 20, 0, 20, 0, 0, 0>>,
          <<0, 0, 0, 700, 0, 0, 700>>,
          <<0, 0, 20, 0, 0, 700, 0>>>>),
     speed |-> <<10, 1, 2, 6, 1, 1, 1>>,
     profiles |-> <<<<<<97, 3>>, <<50, 50>>, <<30, 70>>, <<10, 90>>, <<50, 50>>>>>>,
     coverage |-> 70, topK |-> 1, nExperts |-> 2, full |-> TRUE,
     mayMiss |-> {}, mode |-> "static", names |-> {FrontId(1), MachineName(3), FrontId(2), BackId(1, 1), BackId(1, 2)}, layouts |-> {}]

\* a machine without a link to another
Far1 ==
    [problem |-> Problem(<<8, 16, 8, 16>>, 4, <<3, 0, 1>>, <<10>>,
        <<<<0, 20, 10000, 60>>,
          <<20, 0, 40, 100>>,
          <<10000, 40, 0, 100>>,
          <<60, 100, 100, 0>>>>,
        <<<<0, 20, -1, 20>>,
          <<20, 0, 20, 20>>,
          <<-1, 20, 0, 20>>,
          <<20, 20, 20, 0>>>>),
     speed |-> <<1, 14, 1, 14>>,
     profiles |-> <<<<<<100>>, <<100>>, <<100>>, <<100>>>>>>,
     coverage |-> 90, topK |-> 1, nExperts |-> 1, full |-> FALSE,
     mayMiss |-> {}, mode |-> "static", names |-> {}, layouts |-> {}]

\* a machine without a link to another
Far2 ==
    [problem |-> Problem(<<12, 20, 12, 16>>, 4, <<3, 0, 1>>, <<10>>,
        <<<<0, 20, 10000, 40>>,
          <<20, 0, 40, 20>>,
          <<10000, 40, 0, 20>>,
          <<40, 20, 20, 0>>>>,
        <<<<0, 20, -1, 20>>,
          <<20, 0, 20, 20>>,
          <<-1, 20, 0, 20>>,
          <<20, 20, 20, 0>>>>),
     speed |-> <<1, 10, 1, 6>>,
     profiles |-> <<<<<<100>>, <<100>>, <<100>>, <<100>>>>>>,
     coverage |-> 90, topK |-> 1, nExperts |-> 1, full |-> FALSE,
     mayMiss |-> {}, mode |-> "static", names |-> {}, layouts |-> {}]

MCSites == <<Rebuilds, RollsBack, Drops, Tightens, ByHand, FewExits, Shared, TooFullSite, Unserved, NoWork, NoCut, LoopGate, Wirings>>
FarSites == <<Far1, Far2>>
=============================================================================
