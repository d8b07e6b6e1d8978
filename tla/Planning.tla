------------------------------ MODULE Planning ------------------------------
(***************************************************************************)
(* The controller from the first question to the machines until it serves *)
(* (p2pmoe/deploy/control.py main, p2pmoe/deploy/run.py main) and the      *)
(* planner that it calls (p2pmoe/planner/pipeline.py plan), step by step:  *)
(* machines that do not answer, plans that fail, feedback rounds that      *)
(* place a segment anew or give one up and are rolled back, machines that  *)
(* fail while they are configured, and a second start with the saved plan. *)
(*                                                                         *)
(* A site s is one collection of machines with a model and tasks:          *)
(*   problem    the problem, but for what the machines report              *)
(*   speed      time of the benchmark on each machine                      *)
(*   profiles, coverage, topK, nExperts, full   see Experts                *)
(*   mayMiss    machines that may not answer                               *)
(*   mode       "dynamic" or "static"                                      *)
(*   names      what the lines of a file with a wiring may name, {} when   *)
(*              there is no such file                                      *)
(*   layouts    the layouts by hand that may be given instead              *)
(***************************************************************************)
EXTENDS Capacity, Tighten, Layouts

CONSTANTS Sites,      \* the sites, a sequence
          MaxRuns,    \* how often the controller is started
          MaxLines    \* lines of a wiring file

\* Machines are numbered from 1 on, measurements and parameters are natural
\* numbers, and a benchmark takes some time.
Fields == {"nodes", "raw", "mem", "ms", "tier", "stab", "p50", "jit", "L", "base", "expert", "kv",
           "tasks", "union", "curve", "cfg"}
Counts == {"prune", "beam", "beamFront", "tightenMax", "tightenEps", "eta", "beta", "kappa",
           "standby", "layerMs"}

WellPosed(Q, speed) ==
    /\ DOMAIN Q = Fields
    /\ Q.raw \in Seq(Nat) /\ Q.nodes = DOMAIN Q.raw
    /\ Q.p50 \in [Q.nodes -> [Q.nodes -> Nat]]
    /\ speed \in [Q.nodes -> Nat \ {0}]
    /\ Q.L \in Nat
    /\ Q.tasks \in Seq([name : Nat, lam : Nat \ {0}, experts : {<<>>}])
    /\ \A f \in Counts : Q.cfg[f] \in Nat

ASSUME SitesAssumption ==
    \A s \in DOMAIN Sites : /\ Sites[s].mode \in {"dynamic", "static"}
                            /\ WellPosed(Sites[s].problem, Sites[s].speed)
ASSUME BoundsAssumption == MaxRuns \in Nat /\ MaxLines \in Nat

VARIABLES
    site,    \* the site
    run,     \* which start of the controller this is
    stage,   \* what it is at
    P,       \* the problem, once the machines have answered
    plan,    \* the variables of plan()
    man,     \* the manifest
    wired,   \* static mode: the back segment of a front segment
    todo,    \* machines of the manifest configured, plus one
    conf,    \* what each machine was last configured to, a record or NoConf
    saved    \* the file of the plan: no entry, or the manifest

vars == <<site, run, stage, P, plan, man, wired, todo, conf, saved>>
planned == <<site, run, P, wired, todo, conf, saved>>    \* what plan() leaves alone

Site == Sites[site]
NoConf == [role |-> "none"]

\* How a start ends: served; SystemExit; return 2; return 3; an exception.
Ended == {"serving", "stopped", "refused", "invalid", "crashed"}

Reserve == 4         \* what a machine keeps for itself, at least
ReserveShare == 20   \* or this part of it
RawTier == 4         \* classes of memory are whole units
MaxFeedback == 4

-----------------------------------------------------------------------------
\* collect_capabilities: the machines that answered.
Collected(Q, speed, up) ==
    LET fastest == MinOf({speed[v] : v \in up}, 1)
    IN  [Q EXCEPT !.nodes = up,
                  !.mem = [v \in up |-> Q.raw[v] - MaxOf({Reserve, Q.raw[v] \div ReserveShare}, 0)],
                  !.ms = [v \in up |-> (Q.cfg.layerMs * speed[v]) \div fastest],
                  !.tier = [v \in up |-> RoundHalfEven(Q.raw[v], RawTier)]]

\* plan: the shares of the machines and the counts that follow from them.
FrontTotal(l0) == TotalGb(P, FrontSpec(P, l0, P.nodes))
CanHoldFront(l0, S) == {v \in S : P.mem[v] >= FrontTotal(l0)}
Counted(backs) == Total([t \in DOMAIN backs |-> Len(backs[t])])
BuildTarget(n) == CeilDiv((100 + P.cfg.kappa) * n, 100)
FinalTarget(n) == n + P.cfg.standby
Order(cap) == Best([t \in DOMAIN P.tasks |-> t],
                   [t \in DOMAIN P.tasks |-> <<Cardinality(cap.forms.back[t]), -P.tasks[t].lam>>],
                   Len(P.tasks))
Ends(l0) == LET ref == CanHoldFront(l0, P.nodes)
            IN  <<[head |-> HeadCost(P, ref), tail |-> TailCost(P, ref)]>>
Freed(backs) == P.nodes \ UNION {AllNodes(backs[t]) : t \in DOMAIN backs}
Entries(backs) == {HeadOf(seg) : seg \in UNION {Range(backs[t]) : t \in DOMAIN backs}}

NoPlan == [l0 |-> 0, order |-> <<>>, quota |-> <<>>, rent |-> <<>>, ends |-> <<>>, turn |-> 1,
           backs |-> <<>>, free |-> {}, nBack |-> 0, band |-> NoBand, best |-> <<>>,
           attempt |-> 0, tried |-> {}, fronts |-> <<>>, pool |-> {}]

Init ==
    /\ site \in DOMAIN Sites
    /\ run = 1 /\ stage = "start"
    /\ P = [Sites[site].problem EXCEPT !.nodes = {}]
    /\ plan = NoPlan /\ man = <<>> /\ wired = <<>> /\ todo = 1
    /\ conf = [v \in Sites[site].problem.nodes |-> NoConf]
    /\ saved = <<>>

\* main: the machines are asked one after another; those that do not answer
\* are left out, and if none does there is nothing to do.
Collect ==
    /\ stage = "start"
    /\ \E gone \in SUBSET Site.mayMiss :
          LET up == Site.problem.nodes \ gone IN
          IF up = {} THEN stage' = "stopped" /\ UNCHANGED P
          ELSE /\ P' = Collected(WithExperts(Site.problem, Site.profiles, Site.nExperts,
                                             Site.coverage, Site.topK, Site.full),
                                 Site.speed, up)
               /\ stage' = IF run = 1 THEN "cut" ELSE "load"
    /\ UNCHANGED <<site, run, plan, man, wired, todo, conf, saved>>

-----------------------------------------------------------------------------
\* plan(): the cut between fronts and backs, the capacity and the quotas; no
\* quotas when not one channel can be built.
FirstPlan(l0, cap) ==
    LET base  == IF cap.nSlots > 0 THEN cap.nSlots ELSE cap.nMax
        nWork == (P.cfg.theta * base) \div 100
        rent  == SelectRentNodes(P, l0, FinalTarget(nWork))
    IN  IF nWork = 0 THEN [NoPlan EXCEPT !.l0 = l0]
        ELSE [NoPlan EXCEPT
                !.l0 = l0, !.order = Order(cap), !.ends = Ends(l0),
                !.quota = LargestRemainder(Lams(P), nWork),
                !.rent = [t \in DOMAIN P.tasks |-> rent \cup ScarcityRentNodes(P, cap, t)],
                !.backs = [t \in DOMAIN P.tasks |-> <<>>], !.free = P.nodes]

\* That no cut will do is a ValueError, which main does not catch.
PlanAt(best) ==
    IF best = <<>> THEN NoPlan ELSE FirstPlan(best[1].l0, EstimateCapacity(P, best[1].l0))

Cut ==
    /\ stage = "cut"
    /\ plan' = PlanAt(ChooseL0(P))
    /\ stage' = CASE plan'.l0 = 0 -> "crashed"
                  [] plan'.l0 # 0 /\ plan'.quota = <<>> -> "refused"
                  [] OTHER -> "build"
    /\ UNCHANGED <<planned, man>>

\* The back segments of one task after the other; a task stops short of its
\* quota when no place is found or the best has too many hops.
BuildObjective(t) == Objective(NoTarget, plan.rent[t], {}, plan.ends)

TooManyHops(spec, seg) ==
    HopsOf(seg) > HopsMin(TotalGb(P, spec), MaxUsable(P, plan.free)) + P.cfg.hopsSlack

AddBack(t, spec, got) ==
    IF got = <<>> \/ (got # <<>> /\ TooManyHops(spec, got[1])) THEN [plan EXCEPT !.turn = @ + 1]
    ELSE [plan EXCEPT !.backs[t] = Append(@, got[1]), !.free = @ \ NodesOf(got[1])]

BuildBack ==
    /\ stage = "build" /\ plan.turn <= Len(plan.order)
    /\ plan' = LET t    == plan.order[plan.turn]
                   spec == BackSpec(P, t, plan.l0)
               IN  AddBack(t, spec,
                           IF Len(plan.backs[t]) = plan.quota[t] THEN <<>>
                           ELSE DeployPath(P, spec, plan.free, BuildObjective(t), P.cfg.beam))
    /\ UNCHANGED <<planned, stage, man>>

\* The segments of each task brought to like delays; then they are frozen,
\* and what was built becomes the number to be served.
Into(acc, t, r) == [backs |-> [acc.backs EXCEPT ![t] = r.segs], free |-> r.free]
TightenTask(acc, t) ==
    IF Len(acc.backs[t]) < 2 THEN acc
    ELSE Into(acc, t, TightenLex(P, BackSpec(P, t, plan.l0), [segs |-> acc.backs[t], free |-> acc.free],
                                 BandFromMedian(P, acc.backs[t]), plan.rent[t], plan.ends))
TightenTasks ==
    LET upTo[t \in 0..Len(P.tasks)] ==
            IF t = 0 THEN [backs |-> plan.backs, free |-> plan.free]
            ELSE TightenTask(upTo[t - 1], t)
    IN  upTo[Len(P.tasks)]
Freeze(acc) ==
    [plan EXCEPT !.backs = acc.backs, !.free = acc.free, !.nBack = Counted(acc.backs)]

TightenBacks ==
    /\ stage = "build" /\ plan.turn > Len(plan.order)
    /\ plan' = Freeze(TightenTasks)
    /\ stage' = IF plan'.nBack = 0 THEN "refused" ELSE "band"
    /\ UNCHANGED <<planned, man>>

-----------------------------------------------------------------------------
\* The common band, and the feedback when it has too few exits.
WCap == (P.cfg.rho * TypicalHop(P)) \div 100
Probes == ProbeExits(P, CanHoldFront(plan.l0, plan.free), Entries(plan.backs),
                     WCap + Fine(P.cfg.jcap))
AllBacks == BackSegs(plan.backs, plan.order)
WMax == LET lap == Median([i \in DOMAIN AllBacks |-> SegDelay(AllBacks[i])]) + 2 * TypicalHop(P)
                   + Fine(plan.l0 * MinOf({P.ms[v] : v \in P.nodes}, 0))
        IN  (P.cfg.eta * lap) \div 100

\* state_key
StateKey(band, backs, n) ==
    <<MinOf({Population(band), FinalTarget(n)}, 0), Population(band),
      -MaxOf({SegDelay(seg) : seg \in UNION {Range(backs[t]) : t \in DOMAIN backs}}, 0)>>

KeepIfBest(key, band) ==
    IF plan.best = <<>> \/ (plan.best # <<>> /\ Lex(plan.best[1].key, key))
    THEN <<[key |-> key, backs |-> plan.backs, band |-> band]>> ELSE plan.best
WithBand(band) ==
    [plan EXCEPT !.band = band, !.best = KeepIfBest(StateKey(band, plan.backs, plan.nBack), band)]

PlaceBand ==
    /\ stage = "band"
    /\ IF CanHoldFront(plan.l0, plan.free) = {} THEN stage' = "refused" /\ UNCHANGED plan
       ELSE /\ plan' = WithBand(PickBandwidth(Probes, Entries(plan.backs), WCap, WMax,
                                              BuildTarget(plan.nBack)))
            /\ stage' = IF \/ Population(plan'.band) >= BuildTarget(plan.nBack)
                           \/ plan.attempt = MaxFeedback
                        THEN "settle" ELSE "feedback"
    /\ UNCHANGED <<planned, man>>

\* _rebuild_entry: the segment of an entry placed anew without that machine.
Outlier == PickOutlier(DiagnoseOutlierEntries(Probes, Entries(plan.backs), plan.band.width, WCap),
                       plan.tried)
EnteredAt(t, v) == {i \in DOMAIN plan.backs[t] : HeadOf(plan.backs[t][i]) = v}
Holder(v) ==
    LET t == plan.order[MinOf({k \in DOMAIN plan.order : EnteredAt(plan.order[k], v) # {}}, 1)]
    IN  BackId(t, MinOf(EnteredAt(t, v), 1))
Rebuilt(v) ==
    LET id == Holder(v)
        t  == id[2]
    IN  DeployPath(P, BackSpec(P, t, plan.l0),
                   (plan.free \cup NodesOf(plan.backs[t][id[3]])) \ {v},
                   BuildObjective(t), P.cfg.beam)

Anew(backs) == [plan EXCEPT !.backs = backs, !.free = Freed(backs), !.attempt = @ + 1]
ReplaceSegment(v, id, got) ==
    /\ got # <<>>
    /\ plan' = [Anew([plan.backs EXCEPT ![id[2]][id[3]] = got[1]]) EXCEPT !.tried = @ \cup {v}]
RebuildEntry(out) ==
    out # <<>> /\ ReplaceSegment(out[1], Holder(out[1]), Rebuilt(out[1]))

Rebuild ==
    /\ stage = "feedback" /\ RebuildEntry(Outlier)
    /\ stage' = "band"
    /\ UNCHANGED <<planned, man>>

\* No entry stands out, or it cannot be replaced: a segment is given up, of
\* the task that is best served, the one with the costliest entry. What was
\* best so far had more segments and is forgotten.
NotRebuilt(out) == out = <<>> \/ (out # <<>> /\ Rebuilt(out[1]) = <<>>)
Donors ==
    LET fair == [t \in DOMAIN P.tasks |-> Len(plan.backs[t])]
        us   == Where(plan.order, {k \in DOMAIN plan.order : Len(plan.backs[plan.order[k]]) > 1})
    IN  Best(us, [k \in DOMAIN us |-> <<-FairRatio(P, fair, us[k])>>], Len(us))
Dropped(t) ==
    LET cost(i) == plan.ends[1].head[HeadOf(plan.backs[t][i])]
        I == DOMAIN plan.backs[t]
    IN  MinOf({i \in I : \A j \in I : cost(j) <= cost(i)}, 1)
Short == Population(plan.band) < plan.nBack

\* A bug of that kind: the best round, of one segment more, is not forgotten.
GiveUpKeepBest(t, out) ==
    [Anew([plan.backs EXCEPT ![t] = RemoveAt(@, Dropped(t))])
        EXCEPT !.nBack = @ - 1, !.tried = @ \cup Range(out)]

GiveUp(t, out) ==
    [Anew([plan.backs EXCEPT ![t] = RemoveAt(@, Dropped(t))])
        EXCEPT !.nBack = @ - 1, !.best = <<>>, !.tried = @ \cup Range(out)]

DropSegment ==
    /\ stage = "feedback" /\ Short /\ Donors # <<>> /\ NotRebuilt(Outlier)
    /\ plan' = GiveUp(Donors[1], Outlier)
    /\ stage' = "band"
    /\ UNCHANGED <<planned, man>>

\* A bug of that kind: the loop goes on where it should be left.
NothingToDropAgain ==
    /\ stage = "feedback" /\ (~Short \/ Donors = <<>>) /\ NotRebuilt(Outlier)
    /\ plan' = [plan EXCEPT !.tried = @ \cup Range(Outlier)]
    /\ stage' = "band"
    /\ UNCHANGED <<planned, man>>

NothingToDrop ==
    /\ stage = "feedback" /\ (~Short \/ Donors = <<>>) /\ NotRebuilt(Outlier)
    /\ plan' = [plan EXCEPT !.tried = @ \cup Range(Outlier)]
    /\ stage' = "settle"
    /\ UNCHANGED <<planned, man>>

\* A bug of that kind: the band stays that of the last round.
SettleBacksOnly ==
    /\ stage = "settle"
    /\ plan' = IF Lex(StateKey(plan.band, plan.backs, plan.nBack), plan.best[1].key)
               THEN [plan EXCEPT !.backs = plan.best[1].backs, !.free = Freed(plan.best[1].backs)]
               ELSE plan
    /\ stage' = IF Population(plan'.band) < plan.nBack THEN "refused" ELSE "fronts"
    /\ UNCHANGED <<planned, man>>

\* The loop is over: back to the best round if this one is worse.
Settle ==
    /\ stage = "settle"
    /\ plan' = LET best == plan.best[1]
               IN  IF Lex(StateKey(plan.band, plan.backs, plan.nBack), best.key)
                   THEN [plan EXCEPT !.backs = best.backs, !.band = best.band,
                                     !.free = Freed(best.backs)]
                   ELSE plan
    /\ stage' = IF Population(plan'.band) < plan.nBack THEN "refused" ELSE "fronts"
    /\ UNCHANGED <<planned, man>>

-----------------------------------------------------------------------------
\* The fronts: more than are needed, with tails among the exits of the band,
\* and brought to like delays.
AddFront(acc, got) ==
    IF got = <<>> THEN [acc EXCEPT !.more = FALSE]
    ELSE [acc EXCEPT !.segs = Append(@, got[1]), !.free = @ \ NodesOf(got[1])]

BuildFront(spec, acc) ==
    AddFront(acc, IF acc.more THEN DeployPath(P, spec, acc.free, Objective(NoTarget, {}, {}, <<>>),
                                              P.cfg.beamFront)
                  ELSE <<>>)

Fronts(spec, n) ==
    LET upTo[i \in 0..n] == IF i = 0 THEN [segs |-> <<>>, free |-> plan.free, more |-> TRUE]
                            ELSE BuildFront(spec, upTo[i - 1])
        built == upTo[n]
    IN  [segs |-> built.segs, free |-> built.free]

TightenFronts(spec, at) ==
    IF Len(at.segs) < 2 THEN at
    ELSE TightenLex(P, spec, at, BandFromMedian(P, at.segs), {}, <<>>)

WithFronts(at) == [plan EXCEPT !.fronts = at.segs, !.pool = at.free]

BuildFronts ==
    /\ stage = "fronts"
    /\ plan' = LET n    == MinOf({Population(plan.band), BuildTarget(plan.nBack)}, 0)
                   spec == FrontSpec(P, plan.l0, plan.band.exits)
               IN  WithFronts(TightenFronts(spec, Fronts(spec, n)))
    /\ stage' = "trim"
    /\ UNCHANGED <<planned, man>>

\* The fronts with the shortest way back stay, the others stand by.
Kept(fronts, order) ==
    LET n == MinOf({Len(order), FinalTarget(plan.nBack)}, 0)
        of(idx) == [k \in DOMAIN idx |-> fronts[idx[k]]]
    IN  [live |-> Len(order), kept |-> of(Take(order, n)),
         standby |-> of(SubSeq(order, n + 1, Len(order)))]

\* A bug of that kind: it goes on with fewer fronts than backs.
TrimmedShort(k) ==
    /\ plan' = [plan EXCEPT !.fronts = k.kept]
    /\ man' = BuildManifest(P, plan.l0, k.kept, k.standby, plan.backs, plan.order, plan.band)
    /\ stage' = "check"

Trimmed(k) ==
    IF k.live < plan.nBack THEN stage' = "refused" /\ UNCHANGED <<plan, man>>
    ELSE /\ plan' = [plan EXCEPT !.fronts = k.kept]
         /\ man' = BuildManifest(P, plan.l0, k.kept, k.standby, plan.backs, plan.order, plan.band)
         /\ stage' = "check"

TrimFronts ==
    /\ stage = "trim"
    /\ Trimmed(Kept(plan.fronts, TrimByLoop(LoopProfile(P, plan.fronts, AllBacks))))
    /\ UNCHANGED planned

-----------------------------------------------------------------------------
\* main: a plan with violations ends the start; any other is saved.
Check ==
    /\ stage = "check"
    /\ IF Ok(P, man, WCap) THEN stage' = "wire" /\ saved' = <<Saved(man)>>
       ELSE stage' = "invalid" /\ UNCHANGED saved
    /\ UNCHANGED <<site, run, P, plan, man, wired, todo, conf>>

\* A bug of that kind: the machines of the plan are taken for granted.
LoadPlanBlind ==
    /\ stage = "load"
    /\ man' = saved[1] /\ stage' = "wire"
    /\ UNCHANGED <<site, run, P, plan, wired, todo, conf, saved>>

\* --load-plan: the machines of the plan must be there, and its first cut must
\* lie within the model. Nothing else of the plan is checked again.
ManNodes(m) == {m.nodes[i].node : i \in DOMAIN m.nodes}

LoadPlan ==
    /\ stage = "load"
    /\ man' = saved[1]
    /\ stage' = IF ManNodes(saved[1]) \subseteq P.nodes /\ saved[1].l0 < P.L
                THEN "wire" ELSE "invalid"
    /\ UNCHANGED <<site, run, P, plan, wired, todo, conf, saved>>

\* run.py main: a layout written by hand, with or without a profile.
Filled(read, profiled) ==
    IF profiled THEN ApplyProfile(read, Site.profiles, Site.coverage, Site.topK) ELSE read

UseLayout(layout, read, chans, Q) ==
    IF read = <<>> \/ ~(Range(ChannelNodes(read)) \subseteq Q.nodes)
    THEN stage' = "refused" /\ UNCHANGED <<P, man, wired>>
    ELSE IF ~LayoutOk(layout, chans, Q.L, Site.nExperts, Site.topK)
    THEN stage' = "crashed" /\ UNCHANGED <<P, man, wired>>
    ELSE /\ stage' = "configure"
         /\ P' = Q
         /\ man' = ManualManifest(Q, layout, chans, Site.nExperts)
         /\ wired' = ManualWiring(chans)

HandLayout ==
    /\ stage = "start" /\ run = 1
    /\ \E layout \in Site.layouts, profiled \in BOOLEAN :
          \E read \in {Parse(layout, Site.problem.L)} :
             UseLayout(layout, read, Filled(read, profiled),
                       Collected(Site.problem, Site.speed, Site.problem.nodes))
    /\ UNCHANGED <<site, run, plan, todo, conf, saved>>

-----------------------------------------------------------------------------
\* The wiring of the static mode: found now, or read from a file. distribute
\* then looks at the memory of all machines before it starts.
Files == UNION {[1..n -> [front : Site.names, back : Site.names, task : {0} \cup DOMAIN P.tasks]] :
                n \in 1..MaxLines}

Wire ==
    /\ stage = "wire"
    /\ wired' \in (IF Site.mode = "dynamic" THEN {<<>>}
                   ELSE {IF run = 1 THEN AssignStaticPairs(P, plan.fronts, plan.backs, plan.order)
                         ELSE SavedWiring(man)})
                  \cup {ResolveWiring(man, file) : file \in Files}
    /\ stage' = CASE Site.mode = "static" /\ wired' = <<>> -> "stopped"
                  [] TooFull(P, man) # {} -> "stopped"
                  [] OTHER -> "configure"
    /\ UNCHANGED <<site, run, P, plan, man, todo, conf, saved>>

\* distribute: one machine after another. A machine that fails, or does not
\* answer in time, ends the start; those before it keep what they were told,
\* and one that was slow takes it all the same.
Configured(i) == [conf EXCEPT ![man.nodes[i].node] = ConfigOf(man, wired, i)]

Configure ==
    /\ stage = "configure" /\ todo <= Len(man.nodes)
    /\ conf' = Configured(todo) /\ todo' = todo + 1
    /\ UNCHANGED <<site, run, stage, P, plan, man, wired, saved>>

ConfigureFails ==
    /\ stage = "configure" /\ todo <= Len(man.nodes)
    /\ conf' \in {conf, Configured(todo)}
    /\ stage' = "stopped"
    /\ UNCHANGED <<site, run, P, plan, man, wired, todo, saved>>

\* In dynamic mode a task without a back segment ends the start only now.
Serve ==
    /\ stage = "configure" /\ todo > Len(man.nodes)
    /\ stage' = IF /\ wired = <<>>
                   /\ \E t \in DOMAIN P.tasks : \A id \in DOMAIN man.segments :
                         ~(id[1] = "B" /\ id[2] = t)
                THEN "refused" ELSE "serving"
    /\ UNCHANGED <<site, run, P, plan, man, wired, todo, conf, saved>>

\* The controller is started again with the plan that was saved; the machines
\* keep their configurations.
Restart ==
    /\ stage \in Ended /\ run < MaxRuns /\ saved # <<>>
    /\ run' = run + 1 /\ stage' = "start" /\ todo' = 1
    /\ plan' = NoPlan /\ man' = <<>> /\ wired' = <<>>
    /\ UNCHANGED <<site, P, conf, saved>>

Finished == stage \in Ended /\ (run = MaxRuns \/ saved = <<>>) /\ UNCHANGED vars

Planner == Cut \/ BuildBack \/ TightenBacks \/ PlaceBand \/ Rebuild \/ DropSegment
           \/ NothingToDrop \/ Settle \/ BuildFronts \/ TrimFronts
Controller == Collect \/ Check \/ LoadPlan \/ HandLayout \/ Wire \/ Configure
              \/ ConfigureFails \/ Serve \/ Restart
Next == Planner \/ Controller \/ Finished

Spec == Init /\ [][Next]_vars

-----------------------------------------------------------------------------
\* The state has its shape, the machines of the plan are machines that
\* answered, and the file, once written, holds a plan (main, plan).
IsSegment(seg) ==
    /\ NodesOf(seg) \subseteq P.nodes /\ Len(seg.nodes) = Len(seg.splits)

TypeOK ==
    /\ site \in DOMAIN Sites /\ run \in 1..MaxRuns
    /\ stage \in Ended \cup {"start", "cut", "load", "build", "band", "feedback", "settle",
                             "fronts", "trim", "check", "wire", "configure"}
    /\ P.nodes \subseteq Site.problem.nodes /\ plan.free \cup plan.pool \subseteq P.nodes
    /\ \A t \in DOMAIN plan.backs : \A seg \in Range(plan.backs[t]) : IsSegment(seg)
    /\ \A seg \in Range(plan.fronts) : IsSegment(seg)
    /\ stage \in {"wire", "configure", "serving"} => ManNodes(man) \subseteq P.nodes
    /\ todo \in 1..(1 + Cardinality(Site.problem.nodes))
    /\ Len(saved) <= 1 /\ (run > 1 => saved # <<>>)

\* The books of plan() balance in every round of the feedback: the number to
\* be served is the number of back segments there are, and so is that of the
\* best round that a rollback would return to.
BooksBalance ==
    stage \in {"band", "feedback", "settle", "fronts"} =>
          /\ plan.nBack = Counted(plan.backs)
          /\ \A i \in DOMAIN plan.best : Counted(plan.best[i].backs) = plan.nBack

\* Whatever the searches, rebuilds and tightening did, a segment is a chain of
\* machines, none twice, that hold its layers one part after the other, each
\* part in the memory of its machine, over links that are not blocked
\* (deploy_path).
Fits(seg, spec) ==
    /\ IsInjective(seg.nodes)
    /\ seg.splits[1][1] = spec.lo /\ Last(seg.splits)[2] = spec.hi /\ Contiguous(seg.splits)
    /\ TailOf(seg) \in spec.tails
    /\ \A i \in DOMAIN seg.nodes :
          Resident(P, spec, seg.splits[i][1], seg.splits[i][2]) <= P.mem[seg.nodes[i]]
    /\ \A i \in 1..HopsOf(seg) : ~Blocked(P, seg.nodes[i], seg.nodes[i + 1])

SegmentsFit ==
    /\ \A t \in DOMAIN plan.backs : \A seg \in Range(plan.backs[t]) :
          Fits(seg, BackSpec(P, t, plan.l0))
    /\ \A seg \in Range(plan.fronts) : Fits(seg, FrontSpec(P, plan.l0, plan.band.exits))

\* What is free is what no back segment has. When the fronts are placed, each
\* exit of the band is a free machine from which every entry is reached in
\* time: the band is the one of the segments there are, also after a rollback,
\* and has an exit for each of them; and the fronts take no machine of a back.
Building == stage \in {"build", "band", "feedback", "settle", "fronts"}
BandHolds ==
    /\ Building => plan.free = Freed(plan.backs)
    /\ stage = "fronts" =>
        /\ plan.band.exits \subseteq plan.free
        /\ Cardinality(plan.band.exits) >= Counted(plan.backs)
        /\ plan.band.hi <= WCap
        /\ \A e \in plan.band.exits, n \in Entries(plan.backs) :
              /\ Fine(Delay(P, e, n)) \in plan.band.lo..plan.band.hi
              /\ ~Blocked(P, e, n)
    /\ stage = "check" => AllNodes(plan.fronts) \subseteq Freed(plan.backs)

\* Enough fronts are kept, of those that pass the test of the way back, for
\* the back segments there are after every rebuild, loss and rollback (plan).
EnoughFronts == stage = "check" => Len(plan.fronts) >= Counted(plan.backs)

\* Once it serves, the configurations of the machines make closed rings: from
\* the head of a front along next, over the peer (or any back, when the
\* coordinator says which), to the last layer, every layer once, no machine
\* twice; the embedding at the start, the head of the model at the end; and
\* no machine in two channels (distribute; _validate of the two sources).
Follow(v) ==
    FoldLeft(LAMBDA path, i : IF conf[Last(path)].next = NoNode THEN path
                              ELSE Append(path, conf[Last(path)].next),
             <<v>>, [i \in 1..Cardinality(P.nodes) |-> i])

Heads(role) == {man.segments[id].nodes[1] : id \in {i \in DOMAIN man.segments :
                                                      man.segments[i].role = role}}
Channels == IF wired = <<>> THEN Heads("front") \X Heads("back")
            ELSE {<<man.segments[f].nodes[1], conf[Last(Follow(man.segments[f].nodes[1]))].peer>> :
                    f \in DOMAIN wired}

Lap(f, b) == Follow(f) \o Follow(b)
RingClosed ==
    stage = "serving" =>
        /\ \A c \in Channels :
              LET ring == Lap(c[1], c[2]) IN
              /\ IsInjective(ring)
              /\ FlattenSeq([i \in DOMAIN ring |-> InOrder(DOMAIN conf[ring[i]].experts)])
                    = [l \in 1..P.L |-> l]
              /\ conf[c[1]].withEmbed /\ conf[Last(ring)].withLmHead
              /\ wired # <<>> => conf[Last(Follow(c[1]))].task = conf[c[2]].task
        /\ wired # <<>> => \A c, d \in Channels :
              c # d => Range(Lap(c[1], c[2])) \cap Range(Lap(d[1], d[2])) = {}

\* A plan that serves covers what the profiles ask: a back segment lacks no
\* more of its task in a layer than coverage allows, and a front segment has
\* what every task has.
ExpertsServed ==
    stage = "serving" /\ man.pairings # <<>> =>
        \A v \in ManNodes(man), t \in DOMAIN P.tasks : \A l \in DOMAIN conf[v].experts :
            /\ conf[v].role = "front" \/ conf[v].segment[2] = t
            /\ Site.profiles[t][l] # NotMeasured
            =>
                /\ MassOutside(Site.profiles[t][l], conf[v].experts[l]) <= 100 - Site.coverage
                /\ Cardinality(conf[v].experts[l]) >= Site.topK

\* A plan that was read back is wired as it was the first time, and its wiring
\* leaves no back segment without a front (main; assign_static_pairs).
WiringSurvives ==
    stage = "wire" /\ run = 1 =>
        LET found == AssignStaticPairs(P, plan.fronts, plan.backs, plan.order)
        IN  /\ SavedWiring(Saved(man)) = found
            /\ Range(found) = Range(BackIds(plan.backs, plan.order))

\* Tightening keeps the number of segments of each task and leaves them no
\* farther from the band about their median (tighten_lex).
TightenKeeps ==
    [][stage = "build" /\ plan.turn > Len(plan.order) =>
          \A t \in DOMAIN plan.backs :
              LET band == BandFromMedian(P, plan.backs[t])
              IN  /\ Len(plan'.backs[t]) = Len(plan.backs[t])
                  /\ ~Lex(LexKey(plan.backs[t], band), LexKey(plan'.backs[t], band))]_vars

\* Every start of the controller ends, however often the feedback places
\* segments anew: each step brings it nearer to the end, which it is not
\* before it has returned (main, plan; the run checks deadlock).
Phases == <<"start", "cut", "load", "build", "band", "settle", "fronts", "trim", "check", "wire",
            "configure">>
Phase == IF stage = "feedback" THEN "band" ELSE stage
Left ==
    CASE stage = "build" -> <<Len(plan.order) - plan.turn, -Counted(plan.backs)>>
      [] stage \in {"band", "feedback"} -> <<-plan.attempt, IF stage = "band" THEN 1 ELSE 0>>
      [] stage = "configure" -> <<-todo, 0>>
      [] OTHER -> <<0, 0>>
ToGo == <<MaxRuns - run, MaxOf({i \in DOMAIN Phases : Phases[i] = Phase}, Len(Phases) + 1)>>
PlanEnds ==
    [][/\ ToGo'[1] < ToGo[1] \/ (ToGo'[1] = ToGo[1] /\ ToGo'[2] >= ToGo[2])
       /\ ToGo' = ToGo => Lex(Left', Left)
       /\ plan'.attempt <= MaxFeedback]_vars

\* A plan avoids links without an answer (control.py:1041).
LinksAnswer ==
    stage = "serving" =>
        \A c \in Channels :
            LET ring == Lap(c[1], c[2])
            IN  \A i \in DOMAIN ring :
                    Delay(P, ring[i], ring[1 + (i % Len(ring))]) # Unreachable
=============================================================================
