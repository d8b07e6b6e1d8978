---------------------- MODULE StaticCoordinator_proofs ----------------------
(***************************************************************************)
(* Theorems about StaticCoordinator for any wiring and any number of       *)
(* requests: type correctness, the exclusive use of channels, and what the *)
(* one waiting line promises as long as every label arrives in time.       *)
(***************************************************************************)
EXTENDS StaticCoordinator, SequenceLemmas, FiniteSetTheorems

Locals ==
    [pc : {"idle", "submitted", "finTest", "finMark", "finSend", "release", "start"},
     req : Reqs \cup {None}]

(* A thread with these locals works on the end of its request.             *)
Ending(l) == l.pc \in {"finSend", "release"}

(* What a thread's program counter says of the request it works on: only   *)
(* the connection of a request's own channel ends it.                      *)
LocalsOK(t) ==
    LET r == th[t].req IN
    /\ th[t].pc = "submitted" => t = Caller /\ r \in records
    /\ th[t].pc \in {"finTest", "finMark", "finSend", "release", "start"} =>
          r \in records /\ front[r] \in Channels /\ t = BackOf[front[r]]
    /\ th[t].pc \in {"finTest", "finMark"} => ~finished[r]
    /\ Ending(th[t]) => finished[r]

(* A request below the bound of tokens, unless it is ending or has ended.  *)
TokensOK ==
    \A r \in Reqs : tokens[r] < MaxTokens \/ finished[r]
        \/ \E t \in Backs : th[t].req = r /\ th[t].pc \in {"finTest", "finMark"}

(* A request has a channel of its task or none, a label that is its task   *)
(* or none, and its tokens come from its own channel.                      *)
RecordsOK ==
    /\ \A r \in Reqs : front[r] # None => r \in records /\ want[r] = TaskOf(front[r])
    /\ \A r \in Reqs : task[r] # None => r \in records /\ task[r] = want[r]
    /\ \A r \in Reqs : finished[r] => front[r] # None
    /\ \A r \in Reqs : \A f \in rings[r] : front[r] = f
    /\ \A r \in records : want[r] \in Tasks
    /\ \A r \in records, q \in Reqs : q < r => q \in records

(* The line holds, in the order of their arrival, the requests without a   *)
(* channel; all but the one in submit() are labelled.                      *)
ArrivalsOK ==
    /\ \A i, j \in DOMAIN arrivals : i < j => arrivals[i] < arrivals[j]
    /\ \A r \in Reqs :
          r \in ToSet(arrivals) <=>
              r \in records /\ want[r] \in Served /\ front[r] = None
    /\ \A r \in ToSet(arrivals) :
          task[r] = want[r] \/ (th[Caller].pc = "submitted" /\ th[Caller].req = r)

(* A request that counts as the holder of its channel.                     *)
Live(r) == ~finished[r] \/ \E t \in Backs : th[t].req = r /\ Ending(th[t])

(* ChannelsExclusive without counting.                                     *)
PoolsOK ==
    /\ \A u \in Served :
          IsInjective(front_pools[u]) /\ ToSet(front_pools[u]) \subseteq ToSet(FrontPools[u])
    /\ \A f \in Channels :
          f \in ToSet(front_pools[TaskOf(f)]) <=> \A r \in Reqs : ~(front[r] = f /\ Live(r))
    /\ \A f \in Channels : \A q, r \in Reqs :
          front[q] = f /\ Live(q) /\ front[r] = f /\ Live(r) => q = r

StaticInv ==
    /\ TypeOK
    /\ \A t \in Threads : LocalsOK(t)
    /\ TokensOK /\ RecordsOK /\ ArrivalsOK /\ PoolsOK

-----------------------------------------------------------------------------
(* Facts about the wiring and about one step of one thread *)

(* A channel stands in the pool of exactly one task, the one the wiring    *)
(* gives it (static_wiring).                                               *)
LEMMA TaskOfChannel ==
    /\ \A f \in Channels : TaskOf(f) \in Served /\ f \in ToSet(FrontPools[TaskOf(f)])
    /\ \A u \in Served : \A f \in ToSet(FrontPools[u]) : f \in Channels /\ TaskOf(f) = u
<1>1. ASSUME NEW f \in Channels
      PROVE  TaskOf(f) \in Served /\ f \in ToSet(FrontPools[TaskOf(f)])
  <2>1. \E u \in Served : f \in ToSet(FrontPools[u])
    BY DEF Channels
  <2>2. QED BY <2>1 DEF TaskOf
<1>2. ASSUME NEW u \in Served, NEW f \in ToSet(FrontPools[u])
      PROVE  f \in Channels /\ TaskOf(f) = u
  <2>1. f \in Channels
    BY DEF Channels
  <2>2. TaskOf(f) \in Served /\ f \in ToSet(FrontPools[TaskOf(f)])
    BY <2>1, <1>1
  <2>3. ToSet(FrontPools[TaskOf(f)]) \cap ToSet(FrontPools[u]) # {}
    BY <2>2
  <2>4. QED BY <2>1, <2>2, <2>3, StaticWiringAssumption
<1>3. QED BY <1>1, <1>2

(* At most one connection works on a request, the one of its channel.      *)
LEMMA OneConnection ==
    ASSUME StaticInv, NEW s \in Backs, NEW t \in Backs,
           th[s].pc # "idle", th[t].pc # "idle", th[s].req = th[t].req
    PROVE  s = t
<1>1. \A x \in Backs : x \in Threads /\ x # Caller /\ th[x] \in Locals /\ LocalsOK(x)
  BY StaticNamesAssumption DEF StaticInv, TypeOK, Threads, Locals
<1>2. QED BY <1>1 DEF LocalsOK, Locals

(* A step moves one thread.                                                *)
LEMMA OneThreadMoves ==
    ASSUME StaticInv, NEW t \in Threads, NEW l \in Locals, th' = [th EXCEPT ![t] = l]
    PROVE  /\ th' \in [Threads -> Locals] /\ th'[t] = l
           /\ \A s \in Threads : s # t => th'[s] = th[s]
<1>1. th \in [Threads -> Locals]
  BY DEF StaticInv, TypeOK, Locals
<1>2. QED BY <1>1

(* What it must show of the locals is what they are after the step, as     *)
(* long as no request changes its channel or its end.                      *)
LEMMA LocalsStay ==
    ASSUME StaticInv, NEW t \in Threads, NEW l \in Locals, th' = [th EXCEPT ![t] = l],
           UNCHANGED <<records, front, finished>>, LocalsOK(t)'
    PROVE  \A s \in Threads : LocalsOK(s)'
<1>1. ASSUME NEW s \in Threads, s # t PROVE LocalsOK(s)'
  <2>1. th'[s] = th[s] /\ LocalsOK(s)
    BY <1>1, OneThreadMoves DEF StaticInv
  <2>2. QED BY <2>1 DEF LocalsOK, Ending
<1>2. QED BY <1>1

(* The line is in order as long as nobody touches it.                      *)
LEMMA LineStays ==
    ASSUME StaticInv, UNCHANGED <<arrivals, records, want, front, task>>,
           th'[Caller] = th[Caller]
    PROVE  ArrivalsOK'
BY DEF StaticInv, ArrivalsOK

(* The channels stay where they are as long as nobody starts or stops      *)
(* being a holder.                                                         *)
LEMMA PoolsStay ==
    ASSUME StaticInv, UNCHANGED <<front_pools, front>>,
           \A r \in Reqs : Live(r)' <=> Live(r)
    PROVE  PoolsOK'
BY DEF StaticInv, PoolsOK

(* Nobody starts or stops being a holder as long as no request ends and no *)
(* connection begins or completes the end of one.                          *)
LEMMA LiveStays ==
    ASSUME UNCHANGED finished,
           \A s \in Backs, r \in Reqs :
              th'[s].req = r /\ Ending(th'[s]) <=> th[s].req = r /\ Ending(th[s])
    PROVE  \A r \in Reqs : Live(r)' <=> Live(r)
<1>1. \A s \in Backs : Ending(th[s])' <=> Ending(th'[s])
  BY DEF Ending
<1>2. QED BY <1>1 DEF Live

(* The types of the thread state.                                          *)
LEMMA ThreadTypes ==
    ASSUME StaticInv
    PROVE  /\ Caller \in Threads /\ Caller \notin Backs
           /\ \A t \in Backs : t \in Threads /\ t # Caller
           /\ \A t \in Threads : th[t] \in Locals /\ LocalsOK(t)
           /\ Idle \in Locals /\ ~Ending(Idle) /\ Idle.pc = "idle" /\ Idle.req = None
<1>1. th \in [Threads -> Locals]
  BY DEF StaticInv, TypeOK, Locals
<1>2. QED BY <1>1, StaticNamesAssumption DEF StaticInv, Threads, Locals, Idle, Ending

-----------------------------------------------------------------------------
(* Arrival *)

(* A request that arrives has nothing yet and comes after all that did.    *)
LEMMA RegisterFacts ==
    ASSUME StaticInv, NEW r \in Reqs, NEW u \in Tasks, Register(r, u)
    PROVE  /\ r \notin records /\ records' = records \cup {r} /\ records' \subseteq Reqs
           /\ \A q \in records : q \in Reqs /\ q < r /\ q # r
           /\ \A q \in records', x \in Reqs : x < q => x \in records'
           /\ front[r] = None /\ ~finished[r] /\ task[r] = None /\ rings[r] = {}
           /\ r \notin ToSet(arrivals)
           /\ want' \in [Reqs -> Tasks \cup {None}] /\ want'[r] = u
           /\ \A q \in Reqs : q # r => want'[q] = want[q]
<1>1. /\ TypeOK /\ RecordsOK /\ ArrivalsOK
      /\ r \in Reqs \ records /\ (\A q \in Reqs \ records : r <= q)
      /\ records' = records \cup {r} /\ want' = [want EXCEPT ![r] = u]
  BY DEF Register, StaticInv
<1>2. records \subseteq Reqs /\ want \in [Reqs -> Tasks \cup {None}]
      /\ rings \in [Reqs -> SUBSET Channels]
  BY <1>1 DEF TypeOK
<1>3. ASSUME NEW q \in records PROVE q \in Reqs /\ q < r /\ q # r
  <2>1. q \in Nat /\ r \in Nat /\ q # r
    BY <1>1, <1>2, StaticRequestsAssumption
  <2>2. ~(r < q)
    BY <1>1 DEF RecordsOK
  <2>3. QED BY <1>2, <2>1, <2>2
<1>4. ASSUME NEW q \in records', NEW x \in Reqs, x < q PROVE x \in records'
  <2>1. CASE q = r
    <3>1. ~(r <= x)
      BY <2>1, <1>4, <1>1, StaticRequestsAssumption
    <3>2. QED BY <3>1, <1>1
  <2>2. CASE q # r
    BY <2>2, <1>4, <1>1 DEF RecordsOK
  <2>3. QED BY <2>1, <2>2
<1>5. front[r] = None /\ ~finished[r] /\ task[r] = None /\ r \notin ToSet(arrivals)
  BY <1>1 DEF RecordsOK, ArrivalsOK
<1>6. rings[r] = {}
  BY <1>1, <1>2, <1>5, StaticNamesAssumption DEF RecordsOK
<1>7. QED BY <1>1, <1>2, <1>3, <1>4, <1>5, <1>6

(* The arrival of a request that finds a free channel of its task.         *)
LEMMA TakesChannel ==
    ASSUME StaticInv, NEW r \in Reqs, NEW u \in Served,
           Register(r, u), front_pools[u] # <<>>,
           front' = [front EXCEPT ![r] = Head(front_pools[u])],
           front_pools' = [front_pools EXCEPT ![u] = Tail(@)],
           UNCHANGED <<arrivals, task, finished, rings>>,
           \A s \in Backs : th'[s] = th[s]
    PROVE  /\ front_pools' \in [Served -> Seq(Channels)]
           /\ front' \in [Reqs -> Channels \cup {None}]
           /\ RecordsOK' /\ PoolsOK'
           /\ \A q \in Reqs : q \in ToSet(arrivals) <=>
                 q \in records' /\ want'[q] \in Served /\ front'[q] = None
<1> DEFINE f == Head(front_pools[u])
<1>0. u \in Tasks
  BY StaticWiringAssumption
<1>1. /\ TypeOK /\ RecordsOK /\ ArrivalsOK /\ PoolsOK
      /\ front_pools \in [Served -> Seq(Channels)] /\ front \in [Reqs -> Channels \cup {None}]
      /\ front_pools[u] \in Seq(Channels)
  BY DEF StaticInv, TypeOK
<1>2. /\ f \in Channels /\ Tail(front_pools[u]) \in Seq(Channels)
      /\ f \in ToSet(front_pools[u])
      /\ ToSet(front_pools[u]) = ToSet(Tail(front_pools[u])) \cup {f}
      /\ IsInjective(Tail(front_pools[u])) /\ f \notin ToSet(Tail(front_pools[u]))
  BY <1>1, TailOfQueue DEF PoolsOK
<1>3. TaskOf(f) = u
  BY <1>1, <1>2, TaskOfChannel DEF PoolsOK
<1>4. /\ front_pools' \in [Served -> Seq(Channels)]
      /\ front' \in [Reqs -> Channels \cup {None}]
      /\ front'[r] = f /\ \A q \in Reqs : q # r => front'[q] = front[q]
      /\ front_pools'[u] = Tail(front_pools[u])
      /\ \A v \in Served : v # u => front_pools'[v] = front_pools[v]
  BY <1>1, <1>2
<1>5. /\ r \notin records /\ front[r] = None /\ task[r] = None /\ rings[r] = {} /\ ~finished[r]
      /\ records' = records \cup {r} /\ want'[r] = u
      /\ \A q \in Reqs : q # r => want'[q] = want[q]
      /\ \A q \in records', x \in Reqs : x < q => x \in records'
      /\ records' \subseteq Reqs /\ r \notin ToSet(arrivals)
  BY <1>0, RegisterFacts
<1>6. f # None
  BY <1>2, StaticNamesAssumption
<1>7. RecordsOK'
  <2>1. \A q \in Reqs : front'[q] # None => q \in records' /\ want'[q] = TaskOf(front'[q])
    BY <1>1, <1>3, <1>4, <1>5 DEF RecordsOK
  <2>2. \A q \in Reqs : task'[q] # None => q \in records' /\ task'[q] = want'[q]
    BY <1>1, <1>5 DEF RecordsOK
  <2>3. \A q \in Reqs : finished'[q] => front'[q] # None
    BY <1>1, <1>4, <1>5 DEF RecordsOK
  <2>4. \A q \in Reqs : \A g \in rings'[q] : front'[q] = g
    BY <1>1, <1>4, <1>5 DEF RecordsOK
  <2>5. \A q \in records' : want'[q] \in Tasks
    BY <1>0, <1>1, <1>5 DEF RecordsOK
  <2>6. QED BY <2>1, <2>2, <2>3, <2>4, <2>5, <1>5 DEF RecordsOK
<1>8. ASSUME NEW q \in Reqs
      PROVE  q \in ToSet(arrivals) <=> q \in records' /\ want'[q] \in Served /\ front'[q] = None
  BY <1>1, <1>4, <1>5, <1>6 DEF ArrivalsOK
<1>9. PoolsOK'
  <2>1. \A q \in Reqs : Live(q)' <=> Live(q)
    BY LiveStays
  <2>2. Live(r) /\ \A q \in Reqs : ~(front[q] = f /\ Live(q))
    BY <1>1, <1>2, <1>3, <1>5 DEF PoolsOK, Live
  <2>3. \A q \in Reqs, g \in Channels :
           front'[q] = g /\ Live(q)' <=> (front[q] = g /\ Live(q)) \/ (q = r /\ g = f)
    BY <2>1, <2>2, <1>4, <1>5, StaticNamesAssumption
  <2>4. \A v \in Served :
           IsInjective(front_pools'[v]) /\ ToSet(front_pools'[v]) \subseteq ToSet(FrontPools[v])
    BY <1>1, <1>2, <1>4 DEF PoolsOK
  <2>5. ASSUME NEW g \in Channels
        PROVE  g \in ToSet(front_pools'[TaskOf(g)]) <=> \A q \in Reqs : ~(front'[q] = g /\ Live(q)')
    <3>1. TaskOf(g) \in Served
      BY TaskOfChannel
    <3>2. g \in ToSet(front_pools'[TaskOf(g)]) <=> g \in ToSet(front_pools[TaskOf(g)]) /\ g # f
      BY <3>1, <1>2, <1>3, <1>4
    <3>3. QED BY <3>2, <2>2, <2>3, <1>1 DEF PoolsOK
  <2>6. ASSUME NEW g \in Channels, NEW q \in Reqs, NEW x \in Reqs,
               front'[q] = g, Live(q)', front'[x] = g, Live(x)'
        PROVE  q = x
    BY <2>6, <2>2, <2>3, <1>1 DEF PoolsOK
  <2>7. QED BY <2>4, <2>5, <2>6 DEF PoolsOK
<1>10. QED BY <1>4, <1>7, <1>8, <1>9

(* The arrival of a request that gets no channel: what the records say.    *)
LEMMA GetsNothing ==
    ASSUME StaticInv, NEW r \in Reqs, NEW u \in Tasks, Register(r, u),
           UNCHANGED <<front, task, finished, rings>>
    PROVE  RecordsOK'
<1>1. RecordsOK
  BY DEF StaticInv
<1>2. /\ r \notin records /\ front[r] = None /\ task[r] = None
      /\ records' = records \cup {r} /\ want'[r] = u
      /\ \A q \in Reqs : q # r => want'[q] = want[q]
      /\ \A q \in records', x \in Reqs : x < q => x \in records'
      /\ records' \subseteq Reqs
  BY RegisterFacts
<1>3. QED BY <1>1, <1>2 DEF RecordsOK

(* The section of submit() under the lock.                                 *)
LEMMA SubmitLockedStep ==
    ASSUME StaticInv, NEW r \in Reqs, NEW u \in Tasks, SubmitLocked(r, u)
    PROVE  StaticInv'
<1> DEFINE l == [pc |-> "submitted", req |-> r]
<1>0. /\ TypeOK /\ TokensOK /\ RecordsOK /\ ArrivalsOK /\ PoolsOK
      /\ arrivals \in Seq(Reqs) /\ front_pools[u] \in Seq(Channels) /\ u \in Served
  BY DEF StaticInv, TypeOK, SubmitLocked
<1>1. /\ Register(r, u) /\ th[Caller].pc = "idle" /\ th' = [th EXCEPT ![Caller] = l]
      /\ UNCHANGED <<back, task, tokens, finished, done, rings>>
  BY DEF SubmitLocked, At, Register
<1>2. /\ r \notin records /\ records' = records \cup {r} /\ records' \subseteq Reqs
      /\ \A q \in records : q \in Reqs /\ q < r
      /\ front[r] = None /\ r \notin ToSet(arrivals)
      /\ want' \in [Reqs -> Tasks \cup {None}] /\ want'[r] = u
      /\ \A q \in Reqs : q # r => want'[q] = want[q]
  BY <1>1, RegisterFacts
<1>3. l \in Locals /\ Caller \in Threads
  BY ThreadTypes DEF Locals
<1>4. /\ th' \in [Threads -> Locals] /\ th'[Caller] = l
      /\ \A s \in Threads : s # Caller => th'[s] = th[s]
  BY <1>1, <1>3, OneThreadMoves
<1>5. \A s \in Backs : th'[s] = th[s]
  BY <1>4, ThreadTypes
<1>6. TokensOK'
  BY <1>0, <1>1, <1>5 DEF TokensOK
<1>7. \A q \in ToSet(arrivals) : task[q] = want'[q]
  <2>1. \A q \in ToSet(arrivals) : q \in Reqs /\ q # r
    BY <1>0, <1>2, ElementsOfQueue
  <2>2. \A q \in ToSet(arrivals) : task[q] = want[q]
    BY <1>0, <1>1 DEF ArrivalsOK
  <2>3. QED BY <2>1, <2>2, <1>2
<1>8. CASE front_pools[u] # <<>>
  <2>1. /\ front' = [front EXCEPT ![r] = Head(front_pools[u])]
        /\ front_pools' = [front_pools EXCEPT ![u] = Tail(@)]
        /\ UNCHANGED arrivals
    BY <1>8 DEF SubmitLocked
  <2>2. /\ front_pools' \in [Served -> Seq(Channels)]
        /\ front' \in [Reqs -> Channels \cup {None}]
        /\ RecordsOK' /\ PoolsOK'
        /\ \A q \in Reqs : q \in ToSet(arrivals) <=>
              q \in records' /\ want'[q] \in Served /\ front'[q] = None
    BY <1>0, <1>1, <1>5, <1>8, <2>1, TakesChannel
  <2>3. ArrivalsOK'
    BY <2>1, <2>2, <1>0, <1>1, <1>7 DEF ArrivalsOK
  <2>4. TypeOK'
    BY <2>1, <2>2, <1>0, <1>1, <1>2, <1>4 DEF TypeOK, Locals
  <2>5. \A s \in Threads : LocalsOK(s)'
    <3>1. \A q \in records : front'[q] = front[q]
      BY <2>1, <1>0, <1>2 DEF TypeOK
    <3>2. \A s \in Threads : s # Caller => LocalsOK(s)'
      BY <3>1, <1>1, <1>2, <1>4, ThreadTypes DEF LocalsOK, Ending
    <3>3. LocalsOK(Caller)'
      BY <1>2, <1>4 DEF LocalsOK, Ending
    <3>4. QED BY <3>2, <3>3
  <2>6. QED BY <2>2, <2>3, <2>4, <2>5, <1>6 DEF StaticInv
<1>9. CASE front_pools[u] = <<>>
  <2>1. UNCHANGED <<front, front_pools>> /\ arrivals' = Append(arrivals, r)
    BY <1>9 DEF SubmitLocked
  <2>2. /\ arrivals' \in Seq(Reqs) /\ ToSet(arrivals') = ToSet(arrivals) \cup {r}
    BY <2>1, <1>0, AppendToQueue
  <2>3. \A i, j \in DOMAIN arrivals' : i < j => arrivals'[i] < arrivals'[j]
    <3>1. /\ Len(arrivals) \in Nat /\ DOMAIN arrivals = 1..Len(arrivals)
          /\ DOMAIN arrivals' = 1..(Len(arrivals) + 1)
          /\ \A i \in 1..Len(arrivals) : arrivals'[i] = arrivals[i]
          /\ arrivals'[Len(arrivals) + 1] = r
      BY <2>1, <2>2, <1>0, AppendProperties, LenProperties
    <3>2. \A i \in 1..Len(arrivals) : arrivals[i] < r
      BY <3>1, <1>0, <1>2, ElementOfSeq DEF ArrivalsOK, ToSet
    <3>3. \A i, j \in 1..Len(arrivals) : i < j => arrivals[i] < arrivals[j]
      BY <3>1, <1>0 DEF ArrivalsOK
    <3>4. QED BY <3>1, <3>2, <3>3
  <2>4. ArrivalsOK'
    <3>1. ASSUME NEW q \in Reqs
          PROVE  q \in ToSet(arrivals') <=>
                     q \in records' /\ want'[q] \in Served /\ front'[q] = None
      BY <2>1, <2>2, <1>0, <1>2 DEF ArrivalsOK
    <3>2. \A q \in ToSet(arrivals') :
             task'[q] = want'[q] \/ (th'[Caller].pc = "submitted" /\ th'[Caller].req = q)
      BY <2>2, <1>1, <1>4, <1>7
    <3>3. QED BY <2>3, <3>1, <3>2 DEF ArrivalsOK
  <2>5. TypeOK'
    BY <2>1, <2>2, <1>0, <1>1, <1>2, <1>4 DEF TypeOK, Locals
  <2>6. \A s \in Threads : LocalsOK(s)'
    <3>1. \A s \in Threads : s # Caller => LocalsOK(s)'
      BY <2>1, <1>1, <1>2, <1>4, ThreadTypes DEF LocalsOK, Ending
    <3>2. LocalsOK(Caller)'
      BY <1>2, <1>4 DEF LocalsOK, Ending
    <3>3. QED BY <3>1, <3>2
  <2>7. RecordsOK'
    BY <2>1, <1>1, GetsNothing
  <2>8. PoolsOK'
    BY <2>1, <1>1, <1>5, LiveStays, PoolsStay
  <2>9. QED BY <2>4, <2>5, <2>6, <2>7, <2>8, <1>6 DEF StaticInv
<1>10. QED BY <1>8, <1>9

(* A request for a task nothing was wired for.                             *)
LEMMA SubmitUnservedStep ==
    ASSUME StaticInv, NEW r \in Reqs, NEW u \in Tasks, SubmitUnserved(r, u)
    PROVE  StaticInv'
<1>0. TypeOK /\ TokensOK /\ RecordsOK /\ ArrivalsOK /\ PoolsOK /\ \A t \in Threads : LocalsOK(t)
  BY DEF StaticInv
<1>1. /\ Register(r, u) /\ u \notin Served /\ th[Caller].pc = "idle"
      /\ UNCHANGED <<front_pools, arrivals, front, back, task, tokens, finished, done, rings, th>>
  BY DEF SubmitUnserved, Register, queues, binding
<1>2. /\ r \notin records /\ records' = records \cup {r} /\ records' \subseteq Reqs
      /\ front[r] = None /\ r \notin ToSet(arrivals)
      /\ want' \in [Reqs -> Tasks \cup {None}] /\ want'[r] = u
      /\ \A q \in Reqs : q # r => want'[q] = want[q]
  BY <1>1, RegisterFacts
<1>3. TypeOK'
  BY <1>0, <1>1, <1>2 DEF TypeOK
<1>4. \A t \in Threads : LocalsOK(t)'
  BY <1>0, <1>1, <1>2 DEF LocalsOK, Ending
<1>5. TokensOK'
  BY <1>0, <1>1 DEF TokensOK
<1>6. RecordsOK'
  BY <1>1, GetsNothing
<1>7. ArrivalsOK'
  <2>1. ToSet(arrivals) \subseteq Reqs
    BY <1>0, ElementsOfQueue DEF TypeOK
  <2>2. QED BY <2>1, <1>0, <1>1, <1>2 DEF ArrivalsOK
<1>8. PoolsOK'
  BY <1>1, LiveStays, PoolsStay
<1>9. QED BY <1>3, <1>4, <1>5, <1>6, <1>7, <1>8 DEF StaticInv

(* The part of submit() after the lock.                                    *)
LEMMA SubmitReturnStep ==
    ASSUME StaticInv, SubmitReturn
    PROVE  StaticInv'
<1> DEFINE r == th[Caller].req
<1>0. /\ TypeOK /\ TokensOK /\ RecordsOK /\ ArrivalsOK /\ PoolsOK
      /\ Idle \in Locals /\ Caller \in Threads /\ LocalsOK(Caller)
  BY ThreadTypes DEF StaticInv
<1>1. /\ th[Caller].pc = "submitted" /\ th' = [th EXCEPT ![Caller] = Idle]
      /\ task' = [task EXCEPT ![r] = want[r]]
      /\ UNCHANGED <<front_pools, arrivals, records, want, front, tokens, finished, done>>
  BY DEF SubmitReturn, queues
<1>2. r \in records /\ r \in Reqs /\ want[r] \in Tasks
  BY <1>0, <1>1 DEF LocalsOK, TypeOK, RecordsOK
<1>3. /\ th' \in [Threads -> Locals] /\ th'[Caller] = Idle
      /\ \A s \in Backs : th'[s] = th[s]
  BY <1>0, <1>1, OneThreadMoves, ThreadTypes
<1>4. /\ back' \in [Reqs -> Backs \cup {None}] /\ rings' \in [Reqs -> SUBSET Channels]
      /\ \A q \in Reqs : \A f \in rings'[q] : front[q] = f
  <2>1. back \in [Reqs -> Backs \cup {None}] /\ rings \in [Reqs -> SUBSET Channels]
        /\ front[r] \in Channels \cup {None}
    BY <1>0, <1>2 DEF TypeOK
  <2>2. CASE front[r] = None
    BY <2>1, <2>2, <1>0 DEF SubmitReturn, RecordsOK
  <2>3. CASE front[r] # None
    <3>1. /\ back' = [back EXCEPT ![r] = BackOf[front[r]]]
          /\ rings' = [rings EXCEPT ![r] = @ \cup {front[r]}]
      BY <2>3 DEF SubmitReturn
    <3>2. front[r] \in Channels /\ BackOf[front[r]] \in Backs
      BY <2>1, <2>3 DEF Backs
    <3>3. QED BY <3>1, <3>2, <2>1, <1>0, <1>2 DEF RecordsOK
  <2>4. QED BY <2>2, <2>3
<1>5. TypeOK'
  BY <1>0, <1>1, <1>2, <1>3, <1>4 DEF TypeOK, Locals
<1>6. \A s \in Threads : LocalsOK(s)'
  <2>1. LocalsOK(Caller)'
    BY <1>3 DEF LocalsOK, Ending, Idle
  <2>2. QED BY <2>1, <1>0, <1>1, LocalsStay
<1>7. TokensOK'
  BY <1>0, <1>1, <1>3 DEF TokensOK
<1>8. task'[r] = want[r] /\ \A q \in Reqs : q # r => task'[q] = task[q]
  BY <1>0, <1>1, <1>2 DEF TypeOK
<1>9. RecordsOK'
  BY <1>0, <1>1, <1>2, <1>4, <1>8 DEF RecordsOK
<1>10. ArrivalsOK'
  <2>1. ToSet(arrivals) \subseteq Reqs
    BY <1>0, ElementsOfQueue DEF TypeOK
  <2>2. \A q \in ToSet(arrivals) : task'[q] = want[q]
    BY <2>1, <1>0, <1>8 DEF ArrivalsOK
  <2>3. QED BY <2>2, <1>0, <1>1 DEF ArrivalsOK
<1>11. PoolsOK'
  BY <1>1, <1>3, LiveStays, PoolsStay
<1>12. QED BY <1>5, <1>6, <1>7, <1>9, <1>10, <1>11 DEF StaticInv

-----------------------------------------------------------------------------
(* Tokens and the end of a request *)

(* A token is only taken from a request that has room for it.              *)
LEMMA TokenHasRoom ==
    ASSUME StaticInv, NEW b \in Backs, NEW r \in Reqs, TakeToken(b, r)
    PROVE  /\ tokens[r] \in Nat /\ tokens[r] < MaxTokens /\ tokens' = [tokens EXCEPT ![r] = tokens[r] + 1]
           /\ r \in records /\ front[r] \in Channels /\ b = BackOf[front[r]]
           /\ ~finished[r] /\ th[b].pc = "idle"
           /\ UNCHANGED <<front_pools, arrivals, records, want, front, back, task,
                          finished, done, rings>>
<1>1. /\ th[b].pc = "idle" /\ ~finished[r] /\ \E f \in rings[r] : BackOf[f] = b
      /\ tokens' = [tokens EXCEPT ![r] = tokens[r] + 1]
      /\ UNCHANGED <<front_pools, arrivals, records, want, front, back, task,
                     finished, done, rings>>
  BY DEF TakeToken, queues, binding
<1>2. /\ r \in records /\ front[r] \in Channels /\ b = BackOf[front[r]]
  <2>1. PICK f \in rings[r] : BackOf[f] = b
    BY <1>1
  <2>2. f \in Channels /\ front[r] = f
    BY DEF StaticInv, RecordsOK, TypeOK
  <2>3. QED BY <2>1, <2>2, StaticNamesAssumption DEF StaticInv, RecordsOK
<1>3. tokens[r] < MaxTokens
  <2>1. ASSUME NEW t \in Backs, th[t].req = r, th[t].pc \in {"finTest", "finMark"}
        PROVE  FALSE
    <3>1. t = BackOf[front[r]]
      BY <2>1, ThreadTypes DEF LocalsOK
    <3>2. QED BY <3>1, <2>1, <1>1, <1>2
  <2>2. QED BY <2>1, <1>1 DEF StaticInv, TokensOK
<1>4. tokens[r] \in Nat
  BY StaticBoundsAssumption DEF StaticInv, TypeOK
<1>5. QED BY <1>1, <1>2, <1>3, <1>4

(* A token that does not end its request.                                  *)
LEMMA TokenKeptStep ==
    ASSUME StaticInv, NEW b \in Backs, NEW r \in Reqs, TokenKept(b, r)
    PROVE  StaticInv'
<1>0. TypeOK /\ TokensOK /\ RecordsOK /\ \A t \in Threads : LocalsOK(t)
  BY DEF StaticInv
<1>1. TakeToken(b, r) /\ ~Enough(tokens'[r]) /\ UNCHANGED th
  BY DEF TokenKept
<1>2. /\ tokens[r] \in Nat /\ tokens[r] < MaxTokens /\ tokens' = [tokens EXCEPT ![r] = tokens[r] + 1]
      /\ UNCHANGED <<front_pools, arrivals, records, want, front, back, task,
                     finished, done, rings>>
  BY <1>1, TokenHasRoom
<1>3. /\ tokens' \in [Reqs -> 0..MaxTokens] /\ tokens'[r] < MaxTokens
      /\ \A q \in Reqs : q # r => tokens'[q] = tokens[q]
  <2>1. tokens[r] + 1 \in 0..MaxTokens /\ tokens \in [Reqs -> 0..MaxTokens]
    BY <1>0, <1>2, StaticBoundsAssumption DEF TypeOK
  <2>2. tokens'[r] = tokens[r] + 1
    BY <2>1, <1>2
  <2>3. tokens'[r] < MaxTokens
    BY <2>1, <2>2, <1>1, <1>2, StaticBoundsAssumption DEF Enough
  <2>4. QED BY <2>1, <2>3, <1>2
<1>4. TypeOK'
  BY <1>0, <1>1, <1>2, <1>3 DEF TypeOK
<1>5. \A t \in Threads : LocalsOK(t)'
  BY <1>0, <1>1, <1>2 DEF LocalsOK, Ending
<1>6. TokensOK'
  BY <1>0, <1>1, <1>2, <1>3 DEF TokensOK
<1>7. RecordsOK'
  BY <1>0, <1>2 DEF RecordsOK
<1>8. ArrivalsOK' /\ PoolsOK'
  BY <1>1, <1>2, LineStays, LiveStays, PoolsStay
<1>9. QED BY <1>4, <1>5, <1>6, <1>7, <1>8 DEF StaticInv

(* A step of one connection that changes nothing but its own counter, the  *)
(* number of tokens, the done flag and where the tokens go.                *)
LEMMA QuietStep ==
    ASSUME StaticInv, NEW t \in Backs, NEW l \in Locals, th' = [th EXCEPT ![t] = l],
           UNCHANGED <<front_pools, arrivals, records, want, front, back, task, finished>>,
           tokens' \in [Reqs -> 0..MaxTokens], done' \in [Reqs -> BOOLEAN],
           rings' \in [Reqs -> SUBSET Channels],
           \A q \in Reqs : \A f \in rings'[q] : front[q] = f,
           Ending(l) <=> Ending(th[t]), Ending(l) => l.req = th[t].req,
           LocalsOK(t)', TokensOK'
    PROVE  StaticInv'
<1>1. /\ th' \in [Threads -> Locals] /\ th'[t] = l
      /\ t \in Threads /\ t # Caller /\ Caller \in Threads /\ \A s \in Backs : s \in Threads
      /\ \A s \in Threads : s # t => th'[s] = th[s]
  BY OneThreadMoves, ThreadTypes
<1>2. TypeOK'
  BY <1>1 DEF StaticInv, TypeOK, Locals
<1>3. \A s \in Threads : LocalsOK(s)'
  BY <1>1, LocalsStay
<1>4. RecordsOK'
  BY DEF StaticInv, RecordsOK
<1>5. ArrivalsOK'
  BY <1>1, LineStays
<1>6. PoolsOK'
  BY <1>1, LiveStays, PoolsStay
<1>7. QED BY <1>2, <1>3, <1>4, <1>5, <1>6 DEF StaticInv

(* A token that ends its request.                                          *)
LEMMA TokenStopStep ==
    ASSUME StaticInv, NEW b \in Backs, NEW r \in Reqs, TokenStop(b, r)
    PROVE  StaticInv'
<1> DEFINE l == [pc |-> "finTest", req |-> r]
<1>0. TypeOK /\ TokensOK /\ RecordsOK /\ b \in Threads
  BY ThreadTypes DEF StaticInv
<1>1. TakeToken(b, r) /\ th' = [th EXCEPT ![b] = l]
  BY DEF TokenStop, At
<1>2. /\ tokens[r] \in Nat /\ tokens[r] < MaxTokens /\ tokens' = [tokens EXCEPT ![r] = tokens[r] + 1]
      /\ r \in records /\ front[r] \in Channels /\ b = BackOf[front[r]]
      /\ ~finished[r] /\ th[b].pc = "idle"
      /\ UNCHANGED <<front_pools, arrivals, records, want, front, back, task,
                     finished, done, rings>>
  BY <1>1, TokenHasRoom
<1>3. tokens' \in [Reqs -> 0..MaxTokens] /\ \A q \in Reqs : q # r => tokens'[q] = tokens[q]
  <2>1. tokens[r] + 1 \in 0..MaxTokens /\ tokens \in [Reqs -> 0..MaxTokens]
    BY <1>0, <1>2, StaticBoundsAssumption DEF TypeOK
  <2>2. QED BY <2>1, <1>2
<1>4. /\ l \in Locals /\ ~Ending(l) /\ ~Ending(th[b])
      /\ th'[b] = l /\ \A s \in Backs : s # b => th'[s] = th[s]
  <2>1. l \in Locals /\ ~Ending(l) /\ ~Ending(th[b])
    BY <1>2 DEF Locals, Ending
  <2>2. QED BY <2>1, <1>0, <1>1, OneThreadMoves, ThreadTypes
<1>5. TokensOK'
  <2>1. th'[b].req = r /\ th'[b].pc \in {"finTest", "finMark"}
    BY <1>4
  <2>2. ASSUME NEW q \in Reqs, q # r
        PROVE  tokens'[q] < MaxTokens \/ finished'[q]
               \/ \E s \in Backs : th'[s].req = q /\ th'[s].pc \in {"finTest", "finMark"}
    BY <2>2, <1>0, <1>2, <1>3, <1>4 DEF TokensOK
  <2>3. QED BY <2>1, <2>2 DEF TokensOK
<1>6. LocalsOK(b)'
  BY <1>2, <1>4 DEF LocalsOK, Ending
<1>7. QED BY <1>0, <1>1, <1>2, <1>3, <1>4, <1>5, <1>6, QuietStep DEF TypeOK, RecordsOK

(* The test `if rec.finished` lets the one connection of the request pass. *)
LEMMA FinishTestStep ==
    ASSUME StaticInv, NEW t \in Backs, FinishTest(t)
    PROVE  StaticInv'
<1> DEFINE r == th[t].req
           l == [pc |-> "finMark", req |-> r]
<1>0. TypeOK /\ TokensOK /\ RecordsOK /\ t \in Threads /\ th[t] \in Locals /\ LocalsOK(t)
  BY ThreadTypes DEF StaticInv
<1>1. /\ th[t].pc = "finTest"
      /\ th' = [th EXCEPT ![t] = IF finished[r] THEN Idle ELSE [th[t] EXCEPT !.pc = "finMark"]]
      /\ UNCHANGED <<front_pools, arrivals, records, want, front, back, task, tokens,
                     finished, done, rings>>
  BY DEF FinishTest, queues, binding
<1>2. ~finished[r] /\ r \in records /\ front[r] \in Channels /\ t = BackOf[front[r]]
  BY <1>0, <1>1 DEF LocalsOK
<1>3. th' = [th EXCEPT ![t] = l] /\ l \in Locals /\ ~Ending(l) /\ ~Ending(th[t])
  <2>1. [th[t] EXCEPT !.pc = "finMark"] = l /\ l \in Locals
    BY <1>0 DEF Locals
  <2>2. ~Ending(l) /\ ~Ending(th[t])
    BY <1>1 DEF Ending
  <2>3. QED BY <2>1, <2>2, <1>1, <1>2
<1>4. th'[t] = l /\ \A s \in Backs : s # t => th'[s] = th[s]
  BY <1>0, <1>3, OneThreadMoves, ThreadTypes
<1>5. TokensOK'
  <2>1. \A s \in Backs : th[s].pc \in {"finTest", "finMark"} =>
            th'[s].req = th[s].req /\ th'[s].pc \in {"finTest", "finMark"}
    BY <1>4
  <2>2. QED BY <2>1, <1>0, <1>1 DEF TokensOK
<1>6. LocalsOK(t)'
  BY <1>1, <1>2, <1>4 DEF LocalsOK, Ending
<1>7. QED BY <1>0, <1>1, <1>3, <1>5, <1>6, QuietStep DEF TypeOK, RecordsOK

(* The request is marked: it stays the holder of its channel because its   *)
(* connection is on the way to the release.                                *)
LEMMA FinishMarkStep ==
    ASSUME StaticInv, NEW t \in Backs, FinishMark(t)
    PROVE  StaticInv'
<1> DEFINE r == th[t].req
           l == [pc |-> "finSend", req |-> r]
<1>0. /\ TypeOK /\ TokensOK /\ RecordsOK /\ PoolsOK /\ t \in Threads /\ th[t] \in Locals
      /\ \A s \in Threads : LocalsOK(s) /\ th[s] \in Locals
  BY ThreadTypes DEF StaticInv
<1>1. /\ th[t].pc = "finMark" /\ th' = [th EXCEPT ![t] = l]
      /\ finished' = [finished EXCEPT ![r] = TRUE]
      /\ UNCHANGED <<front_pools, arrivals, records, want, front, back, task, tokens,
                     done, rings>>
  BY DEF FinishMark, At, queues, binding
<1>2. ~finished[r] /\ r \in records /\ r \in Reqs /\ front[r] \in Channels /\ t = BackOf[front[r]]
  BY <1>0, <1>1 DEF LocalsOK, TypeOK
<1>3. l \in Locals /\ Ending(l) /\ ~Ending(th[t])
  BY <1>1, <1>2 DEF Locals, Ending
<1>4. /\ th' \in [Threads -> Locals] /\ th'[t] = l
      /\ \A s \in Threads : s # t => th'[s] = th[s]
  BY <1>0, <1>1, <1>3, OneThreadMoves
<1>5. /\ finished' \in [Reqs -> BOOLEAN] /\ finished'[r]
      /\ \A q \in Reqs : q # r => finished'[q] = finished[q]
  BY <1>0, <1>1, <1>2 DEF TypeOK
<1>6. TypeOK'
  BY <1>0, <1>1, <1>4, <1>5 DEF TypeOK, Locals
<1>7. ASSUME NEW s \in Threads PROVE LocalsOK(s)'
  <2>1. CASE s = t
    BY <2>1, <1>1, <1>2, <1>4, <1>5 DEF LocalsOK, Ending
  <2>2. CASE s # t /\ th[s].pc \in {"idle", "submitted"}
    BY <2>2, <1>0, <1>1, <1>4 DEF LocalsOK, Ending
  <2>3. CASE s # t /\ th[s].pc \notin {"idle", "submitted"}
    <3>1. LocalsOK(s) /\ th'[s] = th[s] /\ th[s].req \in records /\ th[s].req \in Reqs
      BY <2>3, <1>0, <1>4 DEF LocalsOK, Locals, TypeOK
    <3>2. th[s].req # r
      <4>1. s = BackOf[front[th[s].req]]
        BY <2>3, <1>0 DEF LocalsOK, Locals
      <4>2. QED BY <4>1, <2>3, <1>2
    <3>3. QED BY <3>1, <3>2, <1>1, <1>5 DEF LocalsOK, Ending
  <2>4. QED BY <2>1, <2>2, <2>3
<1>8. TokensOK'
  <2>1. ASSUME NEW q \in Reqs, q # r, NEW s \in Backs,
               th[s].req = q, th[s].pc \in {"finTest", "finMark"}
        PROVE  th'[s] = th[s]
    BY <2>1, <1>4, ThreadTypes
  <2>2. QED BY <2>1, <1>0, <1>1, <1>5 DEF TokensOK
<1>9. RecordsOK'
  BY <1>0, <1>1, <1>2, <1>5, StaticNamesAssumption DEF RecordsOK
<1>10. ArrivalsOK'
  BY <1>1, <1>4, LineStays, ThreadTypes
<1>11. PoolsOK'
  <2>1. \A s \in Backs : Ending(th[s])' <=> Ending(th'[s])
    BY DEF Ending
  <2>2. ASSUME NEW q \in Reqs, q = r PROVE Live(q)' <=> Live(q)
    <3>1. th'[t].req = q /\ Ending(th'[t]) /\ ~finished[q]
      BY <2>2, <1>2, <1>3, <1>4
    <3>2. QED BY <3>1, <2>1 DEF Live
  <2>3. ASSUME NEW q \in Reqs, q # r PROVE Live(q)' <=> Live(q)
    <3>1. ASSUME NEW s \in Backs
          PROVE  th'[s].req = q /\ Ending(th'[s]) <=> th[s].req = q /\ Ending(th[s])
      <4>1. CASE s = t
        BY <4>1, <2>3, <1>4
      <4>2. CASE s # t
        BY <4>2, <1>4, ThreadTypes
      <4>3. QED BY <4>1, <4>2
    <3>2. QED BY <3>1, <2>1, <2>3, <1>5 DEF Live
  <2>4. \A q \in Reqs : Live(q)' <=> Live(q)
    BY <2>2, <2>3
  <2>5. QED BY <2>4, <1>1, PoolsStay
<1>12. QED BY <1>6, <1>7, <1>8, <1>9, <1>10, <1>11 DEF StaticInv

(* The release is sent and the caller told.                                *)
LEMMA FinishSendStep ==
    ASSUME StaticInv, NEW t \in Backs, FinishSend(t)
    PROVE  StaticInv'
<1> DEFINE r == th[t].req
           l == [pc |-> "release", req |-> r]
<1>0. TypeOK /\ TokensOK /\ RecordsOK /\ t \in Threads /\ th[t] \in Locals /\ LocalsOK(t)
  BY ThreadTypes DEF StaticInv
<1>1. /\ th[t].pc = "finSend" /\ th' = [th EXCEPT ![t] = l]
      /\ done' = [done EXCEPT ![r] = TRUE]
      /\ UNCHANGED <<front_pools, arrivals, records, want, front, back, task, tokens,
                     finished, rings>>
  BY DEF FinishSend, At, queues, binding
<1>2. finished[r] /\ r \in records /\ r \in Reqs /\ front[r] \in Channels /\ t = BackOf[front[r]]
  BY <1>0, <1>1 DEF LocalsOK, Ending, TypeOK
<1>3. l \in Locals /\ Ending(l) /\ Ending(th[t])
  BY <1>1, <1>2 DEF Locals, Ending
<1>4. th'[t] = l /\ \A s \in Backs : s # t => th'[s] = th[s]
  BY <1>0, <1>1, <1>3, OneThreadMoves, ThreadTypes
<1>5. TokensOK'
  <2>1. \A s \in Backs : th[s].pc \in {"finTest", "finMark"} => th'[s] = th[s]
    BY <1>1, <1>4
  <2>2. QED BY <2>1, <1>0, <1>1 DEF TokensOK
<1>6. LocalsOK(t)'
  BY <1>1, <1>2, <1>4 DEF LocalsOK, Ending
<1>7. QED BY <1>0, <1>1, <1>2, <1>3, <1>5, <1>6, QuietStep DEF TypeOK, RecordsOK

(* The prefill of the request that was handed a channel.                   *)
LEMMA StartFrontStep ==
    ASSUME StaticInv, NEW t \in Backs, StartFront(t)
    PROVE  StaticInv'
<1> DEFINE r == th[t].req
<1>0. /\ TypeOK /\ TokensOK /\ RecordsOK /\ t \in Threads /\ LocalsOK(t)
      /\ Idle \in Locals /\ ~Ending(Idle) /\ Idle.pc = "idle"
  BY ThreadTypes DEF StaticInv
<1>1. /\ th[t].pc = "start" /\ th' = [th EXCEPT ![t] = Idle]
      /\ rings' = [rings EXCEPT ![r] = rings[r] \cup {front[r]}]
      /\ UNCHANGED <<front_pools, arrivals, records, want, front, back, task, tokens,
                     finished, done>>
  BY DEF StartFront, queues, binding
<1>2. r \in Reqs /\ front[r] \in Channels /\ ~Ending(th[t])
  BY <1>0, <1>1 DEF LocalsOK, Ending, TypeOK
<1>3. rings' \in [Reqs -> SUBSET Channels] /\ \A q \in Reqs : \A f \in rings'[q] : front[q] = f
  BY <1>0, <1>1, <1>2 DEF TypeOK, RecordsOK
<1>4. th'[t] = Idle /\ \A s \in Backs : s # t => th'[s] = th[s]
  BY <1>0, <1>1, OneThreadMoves, ThreadTypes
<1>5. TokensOK'
  <2>1. \A s \in Backs : th[s].pc \in {"finTest", "finMark"} => th'[s] = th[s]
    BY <1>1, <1>4
  <2>2. QED BY <2>1, <1>0, <1>1 DEF TokensOK
<1>6. LocalsOK(t)'
  BY <1>0, <1>4 DEF LocalsOK, Ending
<1>7. QED BY <1>0, <1>1, <1>2, <1>3, <1>5, <1>6, QuietStep DEF TypeOK

-----------------------------------------------------------------------------
(* The return of a channel *)

(* The thread that returns a channel was its one holder's and leaves it    *)
(* without a holder.                                                       *)
LEMMA HolderReleases ==
    ASSUME StaticInv, NEW t \in Backs, NEW r \in Reqs, r = th[t].req,
           NEW f \in Channels, f = front[r], th[t].pc = "release",
           ~Ending(th'[t]), \A s \in Backs : s # t => th'[s] = th[s],
           UNCHANGED <<finished, tokens>>
    PROVE  /\ t = BackOf[f] /\ finished[r] /\ Live(r) /\ ~Live(r)'
           /\ \A q \in Reqs : q # r => (Live(q)' <=> Live(q))
           /\ f \notin ToSet(front_pools[TaskOf(f)])
           /\ \A q \in Reqs : front[q] = f /\ Live(q) => q = r
           /\ TokensOK'
<1>1. t \in Threads /\ LocalsOK(t) /\ Ending(th[t])
  BY ThreadTypes DEF Ending
<1>2. t = BackOf[f] /\ finished[r] /\ Live(r)
  BY <1>1 DEF LocalsOK, Live, Ending
<1>3. \A s \in Backs : Ending(th[s])' <=> Ending(th'[s])
  BY DEF Ending
<1>4. ~Live(r)'
  <2>1. ASSUME NEW s \in Backs, th'[s].req = r, Ending(th'[s]) PROVE FALSE
    <3>1. s # t /\ th[s].req = r /\ Ending(th[s])
      BY <2>1, <1>1
    <3>2. QED BY <3>1, OneConnection DEF Ending
  <2>2. QED BY <2>1, <1>2, <1>3 DEF Live
<1>5. ASSUME NEW q \in Reqs, q # r PROVE Live(q)' <=> Live(q)
  <2>1. ASSUME NEW s \in Backs
        PROVE  th'[s].req = q /\ Ending(th'[s]) <=> th[s].req = q /\ Ending(th[s])
    BY <1>1, <1>5
  <2>2. QED BY <2>1, <1>3 DEF Live
<1>6. /\ f \notin ToSet(front_pools[TaskOf(f)])
      /\ \A q \in Reqs : front[q] = f /\ Live(q) => q = r
  <2>1. /\ f \in ToSet(front_pools[TaskOf(f)]) <=> \A q \in Reqs : ~(front[q] = f /\ Live(q))
        /\ \A q, x \in Reqs : front[q] = f /\ Live(q) /\ front[x] = f /\ Live(x) => q = x
    BY <1>2 DEF StaticInv, PoolsOK
  <2>2. front[r] = f /\ Live(r) /\ r \in Reqs
    BY <1>2
  <2>3. QED BY <2>1, <2>2
<1>7. TokensOK'
  <2>1. \A s \in Backs : th[s].pc \in {"finTest", "finMark"} => th'[s] = th[s]
    BY <1>1 DEF Ending
  <2>2. QED BY <2>1 DEF StaticInv, TokensOK
<1>8. QED BY <1>2, <1>4, <1>5, <1>6, <1>7

(* The first request in the line with the label of the channel gets it.    *)
LEMMA HandOverStep ==
    ASSUME StaticInv, NEW t \in Backs, NEW r \in Reqs, r = th[t].req, th[t].pc = "release",
           NEW f, f = front[r], NEW i \in DOMAIN arrivals, NEW w, w = arrivals[i],
           task[w] = TaskOf(f),
           arrivals' = RemoveAt(arrivals, i),
           front' = [front EXCEPT ![w] = f],
           back' = [back EXCEPT ![w] = BackOf[f]],
           th' = [th EXCEPT ![t] = [pc |-> "start", req |-> w]],
           UNCHANGED <<front_pools, records, want, task, tokens, finished, done, rings>>
    PROVE  StaticInv'
<1> DEFINE l == [pc |-> "start", req |-> w]
<1>0. /\ TypeOK /\ RecordsOK /\ ArrivalsOK /\ PoolsOK
      /\ arrivals \in Seq(Reqs) /\ front \in [Reqs -> Channels \cup {None}]
      /\ t \in Threads /\ Caller \in Threads /\ t # Caller
      /\ \A s \in Threads : LocalsOK(s) /\ th[s] \in Locals
  BY ThreadTypes DEF StaticInv, TypeOK
<1>1. w \in ToSet(arrivals) /\ w \in Reqs
  BY <1>0, ElementsOfQueue DEF ToSet
<1>2. w \in records /\ front[w] = None /\ want[w] \in Served /\ ~finished[w]
  BY <1>0, <1>1 DEF ArrivalsOK, RecordsOK
<1>3. l \in Locals /\ ~Ending(l)
  BY <1>1 DEF Locals, Ending
<1>4. /\ th' \in [Threads -> Locals] /\ th'[t] = l
      /\ \A s \in Threads : s # t => th'[s] = th[s]
  BY <1>0, <1>3, OneThreadMoves
<1>5. /\ f \in Channels /\ t = BackOf[f] /\ finished[r] /\ Live(r) /\ ~Live(r)'
      /\ \A q \in Reqs : q # r => (Live(q)' <=> Live(q))
      /\ \A q \in Reqs : front[q] = f /\ Live(q) => q = r
      /\ f \notin ToSet(front_pools[TaskOf(f)])
      /\ TokensOK'
  <2>1. f \in Channels
    BY <1>0 DEF LocalsOK
  <2>2. ~Ending(th'[t]) /\ (\A s \in Backs : s # t => th'[s] = th[s])
        /\ UNCHANGED <<finished, tokens>>
    BY <1>3, <1>4, ThreadTypes
  <2>3. QED BY <2>1, <2>2, HolderReleases
<1>6. f # None /\ f \in Channels /\ w # r /\ TaskOf(f) \in Served
  BY <1>2, <1>5, StaticNamesAssumption, TaskOfChannel
<1>7. want[w] = TaskOf(f)
  <2>1. TaskOf(f) \in Tasks
    BY <1>6, StaticWiringAssumption
  <2>2. task[w] # None
    BY <2>1, StaticNamesAssumption
  <2>3. QED BY <2>2, <1>0, <1>1 DEF RecordsOK
<1>8. /\ front' \in [Reqs -> Channels \cup {None}] /\ front'[w] = f
      /\ \A q \in Reqs : q # w => front'[q] = front[q]
  BY <1>0, <1>1, <1>6
<1>9. /\ arrivals' \in Seq(Reqs)
      /\ \A a, b \in DOMAIN arrivals' : a < b => arrivals'[a] < arrivals'[b]
      /\ ToSet(arrivals') = ToSet(arrivals) \ {w}
  <2>1. /\ Len(arrivals) \in Nat /\ DOMAIN arrivals = 1..Len(arrivals) /\ i \in 1..Len(arrivals)
        /\ \A a \in 1..Len(arrivals) : arrivals[a] \in Nat
        /\ \A a, b \in 1..Len(arrivals) : a < b => arrivals[a] < arrivals[b]
    <3>1. /\ Len(arrivals) \in Nat /\ DOMAIN arrivals = 1..Len(arrivals)
          /\ \A a \in 1..Len(arrivals) : arrivals[a] \in Reqs
      BY <1>0, LenProperties, ElementOfSeq
    <3>2. \A a, b \in 1..Len(arrivals) : a < b => arrivals[a] < arrivals[b]
      BY <3>1, <1>0 DEF ArrivalsOK
    <3>3. QED BY <3>1, <3>2, StaticRequestsAssumption
  <2>2. /\ arrivals' \in Seq(Reqs) /\ DOMAIN arrivals' = 1..(Len(arrivals) - 1)
        /\ \A a \in 1..(Len(arrivals) - 1) :
              arrivals'[a] = arrivals[IF a < i THEN a ELSE a + 1]
        /\ ToSet(arrivals') = {arrivals[a] : a \in DOMAIN arrivals \ {i}}
    BY <1>0, RemoveFromQueue
  <2>3. ASSUME NEW a \in 1..(Len(arrivals) - 1), NEW b \in 1..(Len(arrivals) - 1), a < b
        PROVE  arrivals'[a] < arrivals'[b]
    <3> DEFINE x == IF a < i THEN a ELSE a + 1
               y == IF b < i THEN b ELSE b + 1
    <3>1. x \in 1..Len(arrivals) /\ y \in 1..Len(arrivals) /\ x < y
      BY <2>1, <2>3
    <3>2. QED BY <3>1, <2>1, <2>2
  <2>4. \A a \in DOMAIN arrivals : a # i => arrivals[a] # w
    <3>1. ASSUME NEW a \in 1..Len(arrivals), a # i PROVE arrivals[a] # w
      <4>1. a < i \/ i < a
        BY <3>1, <2>1
      <4>2. arrivals[a] < w \/ w < arrivals[a]
        BY <4>1, <2>1
      <4>3. QED BY <4>2, <2>1
    <3>2. QED BY <3>1, <2>1
  <2>5. ToSet(arrivals') = ToSet(arrivals) \ {w}
    BY <2>2, <2>4 DEF ToSet
  <2>6. QED BY <2>2, <2>3, <2>5
<1>10. TypeOK'
  <2>1. BackOf[f] \in Backs
    BY <1>5
  <2>2. back' \in [Reqs -> Backs \cup {None}]
    BY <2>1, <1>0, <1>1 DEF TypeOK
  <2>3. QED BY <2>2, <1>0, <1>8, <1>4, <1>9 DEF TypeOK, Locals
<1>11. ASSUME NEW s \in Threads PROVE LocalsOK(s)'
  <2>1. CASE s = t
    <3>1. /\ th'[s].pc = "start" /\ th'[s].req = w /\ w \in records'
          /\ front'[w] \in Channels /\ s = BackOf[front'[w]]
      BY <2>1, <1>2, <1>5, <1>8, <1>4
    <3>2. QED BY <3>1 DEF LocalsOK, Ending
  <2>2. CASE s # t
    <3>1. LocalsOK(s) /\ th'[s] = th[s]
      BY <2>2, <1>0, <1>4
    <3>2. th[s].pc \in {"finTest", "finMark", "finSend", "release", "start"} =>
              front'[th[s].req] = front[th[s].req]
      BY <3>1, <1>0, <1>2, <1>8, StaticNamesAssumption DEF LocalsOK, TypeOK
    <3>3. QED BY <3>1, <3>2 DEF LocalsOK, Ending
  <2>3. QED BY <2>1, <2>2
<1>12. RecordsOK'
  <2>1. \A q \in Reqs : \A g \in rings[q] : q # w
    BY <1>0, <1>2, StaticNamesAssumption DEF RecordsOK, TypeOK
  <2>2. QED BY <2>1, <1>0, <1>2, <1>6, <1>7, <1>8 DEF RecordsOK
<1>13. ArrivalsOK'
  <2>1. ASSUME NEW q \in Reqs
        PROVE  q \in ToSet(arrivals') <=> q \in records /\ want[q] \in Served /\ front'[q] = None
    BY <1>0, <1>6, <1>8, <1>9 DEF ArrivalsOK
  <2>2. QED BY <2>1, <1>0, <1>4, <1>9 DEF ArrivalsOK
<1>14. PoolsOK'
  <2>1. Live(w) /\ Live(w)'
    BY <1>2, <1>5, <1>6, <1>1 DEF Live
  <2>2. ASSUME NEW q \in Reqs, NEW g \in Channels
        PROVE  front'[q] = g /\ Live(q)' <=> IF g = f THEN q = w ELSE front[q] = g /\ Live(q)
    <3>1. CASE q = w
      BY <3>1, <2>1, <1>2, <1>8, StaticNamesAssumption
    <3>2. CASE q = r
      BY <3>2, <1>5, <1>6, <1>8
    <3>3. CASE q # w /\ q # r
      <4>1. front'[q] = front[q] /\ (Live(q)' <=> Live(q))
        BY <3>3, <1>5, <1>8
      <4>2. front[q] = f => ~Live(q)
        BY <3>3, <1>5
      <4>3. QED BY <4>1, <4>2, <3>3
    <3>4. QED BY <3>1, <3>2, <3>3
  <2>3. \A g \in Channels : g # f =>
           (g \in ToSet(front_pools'[TaskOf(g)]) <=> \A q \in Reqs : ~(front'[q] = g /\ Live(q)'))
    BY <2>2, <1>0 DEF PoolsOK
  <2>4. f \notin ToSet(front_pools'[TaskOf(f)]) /\ ~(\A q \in Reqs : ~(front'[q] = f /\ Live(q)'))
    BY <2>2, <1>1, <1>5
  <2>5. \A g \in Channels : \A q, x \in Reqs :
           front'[q] = g /\ Live(q)' /\ front'[x] = g /\ Live(x)' => q = x
    BY <2>2, <1>0 DEF PoolsOK
  <2>6. QED BY <2>3, <2>4, <2>5, <1>0 DEF PoolsOK
<1>15. QED BY <1>5, <1>10, <1>11, <1>12, <1>13, <1>14 DEF StaticInv

(* Nobody in the line has the label of the channel: it goes back into the  *)
(* pool of its task.                                                       *)
LEMMA BackToPoolStep ==
    ASSUME StaticInv, NEW t \in Backs, NEW r \in Reqs, r = th[t].req, th[t].pc = "release",
           NEW f, f = front[r],
           front_pools' = [front_pools EXCEPT ![TaskOf(f)] = Append(@, f)],
           th' = [th EXCEPT ![t] = Idle],
           UNCHANGED <<arrivals, records, want, front, back, task, tokens, finished, done, rings>>
    PROVE  StaticInv'
<1> DEFINE u == TaskOf(f)
<1>1. /\ TypeOK /\ RecordsOK /\ PoolsOK /\ front_pools \in [Served -> Seq(Channels)]
      /\ t \in Threads /\ Caller \in Threads /\ t # Caller /\ LocalsOK(t)
      /\ Idle \in Locals /\ ~Ending(Idle) /\ Idle.pc = "idle"
  BY ThreadTypes DEF StaticInv, TypeOK
<1>2. /\ th' \in [Threads -> Locals] /\ th'[t] = Idle
      /\ \A s \in Threads : s # t => th'[s] = th[s]
  BY <1>1, OneThreadMoves
<1>3. f \in Channels
  BY <1>1 DEF LocalsOK
<1>4. /\ t = BackOf[f] /\ finished[r] /\ Live(r) /\ ~Live(r)'
      /\ \A q \in Reqs : q # r => (Live(q)' <=> Live(q))
      /\ \A q \in Reqs : front[q] = f /\ Live(q) => q = r
      /\ f \notin ToSet(front_pools[u])
      /\ TokensOK'
  <2>1. ~Ending(th'[t]) /\ (\A s \in Backs : s # t => th'[s] = th[s])
        /\ UNCHANGED <<finished, tokens>>
    BY <1>1, <1>2, ThreadTypes
  <2>2. QED BY <2>1, <1>3, HolderReleases
<1>5. u \in Served /\ f \in ToSet(FrontPools[u])
  BY <1>3, TaskOfChannel
<1>6. /\ front_pools' \in [Served -> Seq(Channels)]
      /\ ToSet(front_pools'[u]) = ToSet(front_pools[u]) \cup {f}
      /\ IsInjective(front_pools[u]) => IsInjective(front_pools'[u])
      /\ \A v \in Served : v # u => front_pools'[v] = front_pools[v]
  <2>1. /\ Append(front_pools[u], f) \in Seq(Channels)
        /\ ToSet(Append(front_pools[u], f)) = ToSet(front_pools[u]) \cup {f}
        /\ IsInjective(front_pools[u]) => IsInjective(Append(front_pools[u], f))
    <3>1. front_pools[u] \in Seq(Channels) /\ f \notin ToSet(front_pools[u])
      BY <1>1, <1>4, <1>5
    <3>2. QED BY <3>1, <1>3, AppendToQueue
  <2>2. QED BY <2>1, <1>1, <1>5
<1>7. TypeOK'
  BY <1>1, <1>2, <1>6 DEF TypeOK, Locals
<1>8. \A s \in Threads : LocalsOK(s)'
  <2>1. LocalsOK(t)'
    BY <1>1, <1>2 DEF LocalsOK, Ending
  <2>2. QED BY <2>1, <1>1, LocalsStay
<1>9. RecordsOK'
  BY <1>1 DEF RecordsOK
<1>10. ArrivalsOK'
  BY <1>1, <1>2, LineStays
<1>11. PoolsOK'
  <2>1. ASSUME NEW q \in Reqs, NEW g \in Channels
        PROVE  front'[q] = g /\ Live(q)' <=> g # f /\ front[q] = g /\ Live(q)
    <3>1. CASE q = r
      BY <3>1, <1>4
    <3>2. CASE q # r
      <4>1. front[q] = f => ~Live(q)
        BY <3>2, <1>4
      <4>2. Live(q)' <=> Live(q)
        BY <3>2, <1>4
      <4>3. QED BY <4>1, <4>2
    <3>3. QED BY <3>1, <3>2
  <2>2. \A v \in Served :
           IsInjective(front_pools'[v]) /\ ToSet(front_pools'[v]) \subseteq ToSet(FrontPools[v])
    BY <1>1, <1>5, <1>6 DEF PoolsOK
  <2>3. ASSUME NEW g \in Channels, g # f
        PROVE  g \in ToSet(front_pools'[TaskOf(g)]) <=> \A q \in Reqs : ~(front'[q] = g /\ Live(q)')
    <3>1. TaskOf(g) \in Served
      BY TaskOfChannel
    <3>2. g \in ToSet(front_pools'[TaskOf(g)]) <=> g \in ToSet(front_pools[TaskOf(g)])
      BY <2>3, <3>1, <1>6
    <3>3. QED BY <3>2, <2>1, <2>3, <1>1 DEF PoolsOK
  <2>4. f \in ToSet(front_pools'[u]) /\ \A q \in Reqs : ~(front'[q] = f /\ Live(q)')
    BY <2>1, <1>3, <1>6
  <2>5. \A g \in Channels : \A q, x \in Reqs :
           front'[q] = g /\ Live(q)' /\ front'[x] = g /\ Live(x)' => q = x
    BY <2>1, <1>1 DEF PoolsOK
  <2>6. QED BY <2>2, <2>3, <2>4, <2>5 DEF PoolsOK
<1>12. QED BY <1>4, <1>7, <1>8, <1>9, <1>10, <1>11 DEF StaticInv

(* _release_front.                                                         *)
LEMMA ReleaseFrontStep ==
    ASSUME StaticInv, NEW t \in Backs, ReleaseFront(t)
    PROVE  StaticInv'
<1>1. PICK r \in Reqs : r = th[t].req /\ th[t].pc = "release"
  <2>1. th[t].pc = "release" /\ LocalsOK(t)
    BY ThreadTypes DEF ReleaseFront
  <2>2. th[t].req \in records
    BY <2>1 DEF LocalsOK
  <2>3. QED BY <2>1, <2>2 DEF StaticInv, TypeOK
<1>2. PICK f : f = front[r]
  OBVIOUS
<1>3. CASE \E i \in DOMAIN arrivals : FirstInLine(i, TaskOf(f))
             /\ arrivals' = RemoveAt(arrivals, i)
             /\ front' = [front EXCEPT ![arrivals[i]] = f]
             /\ back' = [back EXCEPT ![arrivals[i]] = BackOf[f]]
             /\ At(t, "start", arrivals[i])
             /\ UNCHANGED front_pools
  <2>1. PICK i \in DOMAIN arrivals :
             /\ FirstInLine(i, TaskOf(f))
             /\ arrivals' = RemoveAt(arrivals, i)
             /\ front' = [front EXCEPT ![arrivals[i]] = f]
             /\ back' = [back EXCEPT ![arrivals[i]] = BackOf[f]]
             /\ At(t, "start", arrivals[i])
             /\ UNCHANGED front_pools
    BY <1>3
  <2>2. PICK w : w = arrivals[i]
    OBVIOUS
  <2>3. /\ task[w] = TaskOf(f)
        /\ arrivals' = RemoveAt(arrivals, i)
        /\ front' = [front EXCEPT ![w] = f] /\ back' = [back EXCEPT ![w] = BackOf[f]]
        /\ th' = [th EXCEPT ![t] = [pc |-> "start", req |-> w]]
        /\ UNCHANGED <<front_pools, records, want, task, tokens, finished, done, rings>>
    BY <2>1, <2>2 DEF FirstInLine, At, ReleaseFront
  <2>4. QED BY <2>2, <2>3, <1>1, <1>2, HandOverStep
<1>4. CASE /\ front_pools' = [front_pools EXCEPT ![TaskOf(f)] = Append(@, f)]
           /\ th' = [th EXCEPT ![t] = Idle]
           /\ UNCHANGED <<arrivals, front, back>>
  <2>1. UNCHANGED <<records, want, task, tokens, finished, done, rings>>
    BY DEF ReleaseFront
  <2>2. QED BY <2>1, <1>1, <1>2, <1>4, BackToPoolStep
<1>5. QED BY <1>1, <1>2, <1>3, <1>4 DEF ReleaseFront

-----------------------------------------------------------------------------
(* The theorems *)

(* The inductive invariant holds at the start and in every step.           *)
LEMMA StaticInvInit == Init => StaticInv
<1> SUFFICES ASSUME Init PROVE StaticInv
  OBVIOUS
<1>1. /\ \A t \in Threads : th[t] = Idle
      /\ front_pools = FrontPools /\ arrivals = <<>> /\ records = {}
      /\ \A r \in Reqs : front[r] = None /\ task[r] = None /\ ~finished[r]
                         /\ tokens[r] = 0 /\ rings[r] = {}
  BY DEF Init
<1>2. ToSet(arrivals) = {} /\ DOMAIN arrivals = {} /\ arrivals \in Seq(Reqs)
  BY <1>1 DEF ToSet
<1>3. TypeOK
  BY <1>2, StaticWiringAssumption, StaticBoundsAssumption DEF Init, TypeOK, Idle
<1>4. \A t \in Threads : LocalsOK(t)
  BY <1>1 DEF LocalsOK, Ending, Idle
<1>5. TokensOK
  BY <1>1, StaticBoundsAssumption DEF TokensOK
<1>6. RecordsOK
  BY <1>1 DEF RecordsOK
<1>7. ArrivalsOK
  BY <1>1, <1>2 DEF ArrivalsOK
<1>8. PoolsOK
  BY <1>1, TaskOfChannel, StaticWiringAssumption, StaticNamesAssumption DEF PoolsOK
<1>9. QED BY <1>3, <1>4, <1>5, <1>6, <1>7, <1>8 DEF StaticInv

LEMMA StaticInvStep == StaticInv /\ [Next]_vars => StaticInv'
<1> SUFFICES ASSUME StaticInv, [Next]_vars PROVE StaticInv'
  OBVIOUS
<1>1. CASE CallerStep
  BY <1>1, SubmitReturnStep, SubmitLockedStep, SubmitUnservedStep DEF CallerStep
<1>2. ASSUME NEW b \in Backs, NEW r \in Reqs, Token(b, r) PROVE StaticInv'
  BY <1>2, TokenKeptStep, TokenStopStep DEF Token
<1>3. ASSUME NEW t \in Backs, HandlerStep(t) PROVE StaticInv'
  BY <1>3, FinishTestStep, FinishMarkStep, FinishSendStep, ReleaseFrontStep, StartFrontStep
     DEF HandlerStep
<1>4. CASE UNCHANGED vars
  BY <1>4 DEF vars, queues, binding, StaticInv, TypeOK, LocalsOK, Ending, TokensOK,
              RecordsOK, ArrivalsOK, PoolsOK, Live
<1>5. QED BY <1>1, <1>2, <1>3, <1>4 DEF Next

(* In every schedule and for every wiring the state of the static          *)
(* coordinator is well typed; no request counts more than max_tokens.      *)
THEOREM StaticTypes == Spec => []TypeOK
<1>1. StaticInv => TypeOK
  BY DEF StaticInv
<1>2. QED BY <1>1, StaticInvInit, StaticInvStep, PTL DEF Spec

(* In every schedule, late labels included, each channel is in the pool of *)
(* its task once or with exactly one request, which asked for that task.   *)
THEOREM ExclusiveChannels == Spec => []ChannelsExclusive
<1>1. ASSUME StaticInv PROVE ChannelsExclusive
  <2>1. PoolsOK /\ RecordsOK
    BY <1>1 DEF StaticInv
  <2>2. \A r \in Reqs, f \in Channels : Holds(r, f) <=> front[r] = f /\ Live(r)
    BY DEF Holds, Live, Ending
  <2>3. ASSUME NEW f \in Channels, f \in ToSet(front_pools[TaskOf(f)])
        PROVE  {r \in Reqs : Holds(r, f)} = {}
    BY <2>1, <2>2, <2>3 DEF PoolsOK
  <2>4. ASSUME NEW f \in Channels, f \notin ToSet(front_pools[TaskOf(f)])
        PROVE  /\ Cardinality({r \in Reqs : Holds(r, f)}) = 1
               /\ \A r \in {x \in Reqs : Holds(x, f)} : want[r] = TaskOf(f)
    <3>1. PICK r \in Reqs : front[r] = f /\ Live(r)
      BY <2>1, <2>4 DEF PoolsOK
    <3>2. \A q \in Reqs : Holds(q, f) <=> q = r
      BY <2>1, <2>2, <3>1 DEF PoolsOK
    <3>3. {q \in Reqs : Holds(q, f)} = {r}
      BY <3>2
    <3>4. want[r] = TaskOf(f)
      BY <2>1, <3>1, StaticNamesAssumption DEF RecordsOK
    <3>5. QED BY <3>3, <3>4, FS_Singleton
  <2>5. \A u \in Served :
           IsInjective(front_pools[u]) /\ ToSet(front_pools[u]) \subseteq ToSet(FrontPools[u])
    BY <2>1 DEF PoolsOK
  <2>6. QED BY <2>3, <2>4, <2>5 DEF ChannelsExclusive
<1>2. QED BY <1>1, StaticInvInit, StaticInvStep, PTL DEF Spec

(* What a step does to the pools, the line and the channels of requests.   *)
LEMMA QueueStep ==
    ASSUME StaticInv, [Next]_vars
    PROVE  \/ \E r \in Reqs, u \in Tasks : SubmitLocked(r, u) \/ SubmitUnserved(r, u)
           \/ \E t \in Backs : ReleaseFront(t)
           \/ UNCHANGED <<front_pools, arrivals, records, want, front>>
<1>1. CASE CallerStep
  BY <1>1 DEF CallerStep, SubmitReturn, queues
<1>2. ASSUME NEW b \in Backs, NEW r \in Reqs, Token(b, r)
      PROVE  UNCHANGED <<front_pools, arrivals, records, want, front>>
  BY <1>2 DEF Token, TokenKept, TokenStop, TakeToken, queues, binding
<1>3. ASSUME NEW t \in Backs, HandlerStep(t), ~ReleaseFront(t)
      PROVE  UNCHANGED <<front_pools, arrivals, records, want, front>>
  BY <1>3 DEF HandlerStep, FinishTest, FinishMark, FinishSend, StartFront, queues, binding
<1>4. CASE UNCHANGED vars
  BY <1>4 DEF vars, queues, binding
<1>5. QED BY <1>1, <1>2, <1>3, <1>4 DEF Next

(* With every label in time a channel goes into its pool only when nobody  *)
(* waits for it.                                                           *)
LEMMA NoIdleStep ==
    ASSUME Prompt, StaticInv, NoIdleChannel, [Next]_vars
    PROVE  NoIdleChannel'
<1>0. /\ TypeOK /\ ArrivalsOK /\ PoolsOK /\ front_pools \in [Served -> Seq(Channels)]
      /\ arrivals \in Seq(Reqs) /\ ToSet(arrivals) \subseteq Reqs
      /\ \A q \in ToSet(arrivals) : want[q] \in Served
  BY ElementsOfQueue DEF StaticInv, TypeOK, ArrivalsOK
<1>1. ASSUME NEW r \in Reqs, NEW u \in Tasks, SubmitLocked(r, u) PROVE NoIdleChannel'
  <2>1. /\ r \notin ToSet(arrivals) /\ want'[r] = u
        /\ \A q \in Reqs : q # r => want'[q] = want[q]
        /\ u \in Served
    BY <1>1, RegisterFacts DEF SubmitLocked
  <2>2. \A q \in ToSet(arrivals) : want'[q] = want[q] /\ want[q] \in Served
                                   /\ front_pools[want[q]] = <<>>
    BY <2>1, <1>0 DEF NoIdleChannel
  <2>3. CASE front_pools[u] # <<>>
    <3>1. front_pools' = [front_pools EXCEPT ![u] = Tail(@)] /\ UNCHANGED arrivals
      BY <1>1, <2>3 DEF SubmitLocked
    <3>2. \A q \in ToSet(arrivals) : want'[q] # u
      BY <2>2, <2>3
    <3>3. \A q \in ToSet(arrivals) : front_pools'[want'[q]] = <<>>
      BY <3>1, <3>2, <2>2, <1>0
    <3>4. QED BY <3>1, <3>3 DEF NoIdleChannel
  <2>4. CASE front_pools[u] = <<>>
    <3>1. front_pools' = front_pools /\ arrivals' = Append(arrivals, r)
      BY <1>1, <2>4 DEF SubmitLocked
    <3>2. ToSet(arrivals') = ToSet(arrivals) \cup {r}
      BY <3>1, <1>0, AppendToQueue
    <3>3. QED BY <3>1, <3>2, <2>1, <2>2, <2>4 DEF NoIdleChannel
  <2>5. QED BY <2>3, <2>4
<1>2. ASSUME NEW r \in Reqs, NEW u \in Tasks, SubmitUnserved(r, u) PROVE NoIdleChannel'
  <2>1. /\ r \notin ToSet(arrivals) /\ \A q \in Reqs : q # r => want'[q] = want[q]
        /\ UNCHANGED <<front_pools, arrivals>>
    BY <1>2, RegisterFacts DEF SubmitUnserved, queues
  <2>2. \A q \in ToSet(arrivals) : want'[q] = want[q]
    BY <2>1, <1>0
  <2>3. QED BY <2>1, <2>2 DEF NoIdleChannel
<1>3. ASSUME NEW t \in Backs, ReleaseFront(t) PROVE NoIdleChannel'
  <2> DEFINE f == front[th[t].req]
             u == TaskOf(f)
  <2>1. UNCHANGED want /\ th[Caller].pc = "idle" /\ f \in Channels /\ u \in Served
    <3>1. UNCHANGED want /\ th[Caller].pc = "idle" /\ f \in Channels
      BY <1>3, ThreadTypes DEF ReleaseFront, LocalsOK
    <3>2. QED BY <3>1, TaskOfChannel
  <2>2. \A q \in ToSet(arrivals) : task[q] = want[q]
    BY <2>1, <1>0 DEF ArrivalsOK
  <2>3. CASE \E i \in DOMAIN arrivals : arrivals' = RemoveAt(arrivals, i) /\ UNCHANGED front_pools
    <3>1. PICK i \in DOMAIN arrivals : arrivals' = RemoveAt(arrivals, i) /\ UNCHANGED front_pools
      BY <2>3
    <3>2. ToSet(arrivals') \subseteq ToSet(arrivals)
      <4>1. ToSet(arrivals') = {arrivals[j] : j \in DOMAIN arrivals \ {i}}
        BY <3>1, <1>0, RemoveFromQueue
      <4>2. QED BY <4>1 DEF ToSet
    <3>3. QED BY <3>1, <3>2, <2>1 DEF NoIdleChannel
  <2>4. CASE /\ NobodyInLine(u) /\ UNCHANGED arrivals
             /\ front_pools' = [front_pools EXCEPT ![u] = Append(@, f)]
    <3>1. \A q \in ToSet(arrivals) : want[q] # u
      BY <2>2, <2>4 DEF NobodyInLine, ToSet
    <3>2. \A v \in Served : v # u => front_pools'[v] = front_pools[v]
      BY <2>4, <1>0
    <3>3. QED BY <3>1, <3>2, <2>1, <2>4, <1>0 DEF NoIdleChannel
  <2>5. QED BY <1>3, <2>3, <2>4 DEF ReleaseFront
<1>4. CASE UNCHANGED <<front_pools, arrivals, records, want, front>>
  BY <1>4 DEF NoIdleChannel
<1>5. QED BY <1>1, <1>2, <1>3, <1>4, QueueStep

(* With every label in time the first of those who wait for a task is the  *)
(* first to get a channel of it.                                           *)
LEMMA OrderStep ==
    ASSUME Prompt, StaticInv, NoIdleChannel, ServedInOrder, [Next]_vars
    PROVE  ServedInOrder'
<1>0. /\ TypeOK /\ RecordsOK /\ ArrivalsOK /\ arrivals \in Seq(Reqs) /\ records \subseteq Reqs
      /\ front \in [Reqs -> Channels \cup {None}]
  BY DEF StaticInv, TypeOK
<1>1. ASSUME NEW r \in Reqs, NEW u \in Tasks, Register(r, u),
             \A q \in Reqs : q # r => front'[q] = front[q],
             u \notin Served \/ front_pools[u] = <<>> => front'[r] = front[r]
      PROVE  ServedInOrder'
  <2>1. /\ r \notin records /\ records' = records \cup {r} /\ front[r] = None
        /\ \A q \in records : q < r
        /\ want'[r] = u /\ \A q \in Reqs : q # r => want'[q] = want[q]
    BY <1>1, RegisterFacts
  <2>2. SUFFICES ASSUME NEW p \in records', NEW q \in records',
                        p < q, want'[p] = want'[q], front'[q] # None
                 PROVE  front'[p] # None
    BY DEF ServedInOrder
  <2>3. p \in Nat /\ q \in Nat /\ r \in Nat /\ p \in Reqs /\ q \in Reqs
    BY <2>1, <1>0, StaticRequestsAssumption
  <2>4. p # r
    <3>1. p = r => q \in records /\ q < p
      BY <2>1, <2>2, <2>3
    <3>2. QED BY <3>1, <2>2, <2>3
  <2>5. CASE q = r
    <3>1. p \in records /\ want[p] = u /\ u \in Served /\ front_pools[u] # <<>>
      BY <2>1, <2>2, <2>3, <2>4, <2>5, <1>1
    <3>2. p \notin ToSet(arrivals)
      BY <3>1 DEF NoIdleChannel
    <3>3. front[p] # None
      BY <3>1, <3>2, <2>3, <1>0 DEF ArrivalsOK
    <3>4. QED BY <3>3, <2>3, <2>4, <1>1
  <2>6. CASE q # r
    BY <2>1, <2>2, <2>3, <2>4, <2>6, <1>1 DEF ServedInOrder
  <2>7. QED BY <2>5, <2>6
<1>2. ASSUME NEW r \in Reqs, NEW u \in Tasks, SubmitLocked(r, u) PROVE ServedInOrder'
  <2>1. Register(r, u) /\ u \in Served /\ \A q \in Reqs : q # r => front'[q] = front[q]
    BY <1>0, <1>2 DEF SubmitLocked
  <2>2. front_pools[u] = <<>> => front'[r] = front[r]
    BY <1>2 DEF SubmitLocked
  <2>3. QED BY <2>1, <2>2, <1>1
<1>3. ASSUME NEW r \in Reqs, NEW u \in Tasks, SubmitUnserved(r, u) PROVE ServedInOrder'
  <2>1. Register(r, u) /\ UNCHANGED front
    BY <1>3 DEF SubmitUnserved, binding
  <2>2. QED BY <2>1, <1>1
<1>4. ASSUME NEW t \in Backs, ReleaseFront(t) PROVE ServedInOrder'
  <2> DEFINE f == front[th[t].req]
             u == TaskOf(f)
  <2>1. UNCHANGED <<records, want, task>> /\ th[Caller].pc = "idle" /\ f \in Channels
    BY <1>4, ThreadTypes DEF ReleaseFront, LocalsOK
  <2>2. CASE UNCHANGED front
    BY <2>1, <2>2 DEF ServedInOrder
  <2>3. CASE \E i \in DOMAIN arrivals :
                FirstInLine(i, u) /\ front' = [front EXCEPT ![arrivals[i]] = f]
    <3>1. PICK i \in DOMAIN arrivals :
                FirstInLine(i, u) /\ front' = [front EXCEPT ![arrivals[i]] = f]
      BY <2>3
    <3>2. PICK w \in Reqs : w = arrivals[i] /\ w \in ToSet(arrivals)
      BY <1>0, ElementsOfQueue DEF ToSet
    <3>3. /\ front'[w] # None /\ \A q \in Reqs : q # w => front'[q] = front[q]
      BY <3>1, <3>2, <2>1, <1>0, StaticNamesAssumption
    <3>4. \A q \in ToSet(arrivals) : task[q] = want[q]
      BY <2>1, <1>0 DEF ArrivalsOK
    <3>5. want[w] = u /\ w \in records /\ want[w] \in Served
      BY <3>1, <3>2, <3>4, <1>0 DEF FirstInLine, ArrivalsOK
    <3>6. ASSUME NEW q \in records, q < w, want[q] = want[w], front[q] = None PROVE FALSE
      <4>1. q \in ToSet(arrivals)
        BY <3>5, <3>6, <1>0 DEF ArrivalsOK
      <4>2. PICK j \in DOMAIN arrivals : arrivals[j] = q
        BY <4>1 DEF ToSet
      <4>3. i \in Nat /\ j \in Nat /\ q \in Nat /\ w \in Nat
        BY <3>2, <4>2, <1>0, LenProperties, StaticRequestsAssumption
      <4>4. ~(i < j) /\ i # j
        BY <3>2, <3>6, <4>2, <4>3, <1>0 DEF ArrivalsOK
      <4>5. task[q] # u
        BY <3>1, <4>2, <4>3, <4>4 DEF FirstInLine
      <4>6. QED BY <4>1, <4>5, <3>4, <3>5, <3>6
    <3>7. SUFFICES ASSUME NEW p \in records, NEW q \in records,
                          p < q, want[p] = want[q], front'[q] # None
                   PROVE  front'[p] # None
      BY <2>1 DEF ServedInOrder
    <3>8. QED BY <3>3, <3>6, <3>7, <1>0 DEF ServedInOrder
  <2>4. QED BY <1>4, <2>2, <2>3 DEF ReleaseFront
<1>5. CASE UNCHANGED <<front_pools, arrivals, records, want, front>>
  BY <1>5 DEF ServedInOrder
<1>6. QED BY <1>2, <1>3, <1>4, <1>5, QueueStep

(* If every label is in place before a channel returns, nobody waits in    *)
(* the one line while a channel of his task is free.                       *)
THEOREM NoChannelIdles == ASSUME Prompt PROVE Spec => []NoIdleChannel
<1>1. Init => NoIdleChannel
  BY DEF Init, NoIdleChannel, ToSet
<1>2. StaticInv /\ NoIdleChannel /\ [Next]_vars => NoIdleChannel'
  BY NoIdleStep
<1>3. QED BY <1>1, <1>2, StaticInvInit, StaticInvStep, PTL DEF Spec

(* Under the same condition requests for one task get their channels in    *)
(* the order they arrived in, although one line serves all tasks.          *)
THEOREM FirstComeFirstServed == ASSUME Prompt PROVE Spec => []ServedInOrder
<1>1. Init => NoIdleChannel /\ ServedInOrder
  BY DEF Init, NoIdleChannel, ServedInOrder, ToSet
<1>2. StaticInv /\ NoIdleChannel /\ ServedInOrder /\ [Next]_vars => NoIdleChannel' /\ ServedInOrder'
  BY NoIdleStep, OrderStep
<1>3. QED BY <1>1, <1>2, StaticInvInit, StaticInvStep, PTL DEF Spec

=============================================================================
