------------------------- MODULE StaticCoordinator -------------------------
(***************************************************************************)
(* The static mode of p2pmoe/runtime/coordinator.py.  The deployment pairs *)
(* every front segment with one back segment and gives the pair (a         *)
(* channel, named by its front) one task.  A request says which task it    *)
(* wants, takes a channel of that task or waits in one line for all tasks, *)
(* and the line is searched by the label rec.task, which submit() sets     *)
(* only after it has left the lock.                                        *)
(*                                                                         *)
(* The ring of a channel reports its tokens on the connection of tail(b).  *)
(***************************************************************************)
EXTENDS Naturals, FiniteSets, SequencesExt

CONSTANTS
    Reqs,        \* request numbers; the caller submits them in increasing order
    Tasks,       \* what a caller may ask for
    FrontPools,  \* task -> its channels in the order of the pool; some tasks have none
    BackOf,      \* channel -> the back segment it is wired to
    MaxTokens,   \* Coordinator.max_tokens
    Prompt,      \* TRUE: no channel is returned while submit() is between its two halves
    Caller,      \* the thread that calls submit
    None         \* Python's "" / None

Served   == DOMAIN FrontPools
Channels == UNION {ToSet(FrontPools[u]) : u \in Served}
Backs    == {BackOf[f] : f \in Channels}
Threads  == Backs \cup {Caller}

(* What resolve_wiring and the greedy pairing leave the coordinator to     *)
(* rely on: a channel has one task, a back segment belongs to one channel. *)
ASSUME StaticRequestsAssumption == Reqs \subseteq Nat /\ None \notin Reqs
ASSUME StaticWiringAssumption ==
    /\ Served \subseteq Tasks
    /\ FrontPools \in [Served -> Seq(Channels)]
    /\ \A u \in Served : IsInjective(FrontPools[u])
    /\ \A u, v \in Served :
          ToSet(FrontPools[u]) \cap ToSet(FrontPools[v]) # {} => u = v
    /\ \A f, g \in Channels : BackOf[f] = BackOf[g] => f = g
ASSUME StaticNamesAssumption == Caller \notin Backs /\ None \notin Channels \cup Backs \cup Tasks
ASSUME StaticBoundsAssumption == MaxTokens \in Nat \ {0} /\ Prompt \in BOOLEAN

(* static_wiring[f][1]                                                     *)
TaskOf(f) == CHOOSE u \in Served : f \in ToSet(FrontPools[u])

VARIABLES
    front_pools,             \* task -> its free channels
    arrivals,                \* the one waiting line
    records,                 \* the requests submit() has registered
    want,                    \* the argument `task` of submit
    front, back, task,       \* RequestRecord
    tokens, finished, done,
    rings,                   \* the channels a prefill of the request went to
    th                       \* program counter and locals of every thread

queues  == <<front_pools, arrivals>>
binding == <<front, back, task>>
vars == <<queues, records, want, binding, tokens, finished, done, rings, th>>

Idle == [pc |-> "idle", req |-> None]

Init ==
    /\ front_pools = FrontPools
    /\ arrivals = <<>>
    /\ records = {}
    /\ want = [r \in Reqs |-> None]
    /\ front = [r \in Reqs |-> None]
    /\ back = [r \in Reqs |-> None]
    /\ task = [r \in Reqs |-> None]
    /\ tokens = [r \in Reqs |-> 0]
    /\ finished = [r \in Reqs |-> FALSE]
    /\ done = [r \in Reqs |-> FALSE]
    /\ rings = [r \in Reqs |-> {}]
    /\ th = [t \in Threads |-> Idle]

At(t, label, r) == th' = [th EXCEPT ![t] = [pc |-> label, req |-> r]]

-----------------------------------------------------------------------------
(* Arrival *)

Register(r, u) ==
    /\ th[Caller].pc = "idle"
    /\ r \in Reqs \ records
    /\ \A q \in Reqs \ records : r <= q
    /\ records' = records \cup {r}
    /\ want' = [want EXCEPT ![r] = u]

(* The section under the lock: a channel of the task, or the line.         *)
SubmitLocked(r, u) ==
    /\ u \in Served
    /\ Register(r, u)
    /\ \/ /\ front_pools[u] # <<>>
          /\ front' = [front EXCEPT ![r] = Head(front_pools[u])]
          /\ front_pools' = [front_pools EXCEPT ![u] = Tail(@)]
          /\ UNCHANGED arrivals
       \/ /\ front_pools[u] = <<>>
          /\ arrivals' = Append(arrivals, r)
          /\ UNCHANGED <<front, front_pools>>
    /\ At(Caller, "submitted", r)
    /\ UNCHANGED <<back, task, tokens, finished, done, rings>>

(* No channel was wired for the task: ValueError, the record stays.        *)
SubmitUnserved(r, u) ==
    /\ u \notin Served
    /\ Register(r, u)
    /\ UNCHANGED <<queues, binding, tokens, finished, done, rings, th>>

(* After the lock: the label; with a channel also the pairing and the      *)
(* prefill.  Nobody else can reach a request that is not in the line.      *)
SubmitReturn ==
    LET r == th[Caller].req IN
    /\ th[Caller].pc = "submitted"
    /\ task' = [task EXCEPT ![r] = want[r]]
    /\ \/ /\ front[r] = None
          /\ UNCHANGED <<back, rings>>
       \/ /\ front[r] # None
          /\ back' = [back EXCEPT ![r] = BackOf[front[r]]]
          /\ rings' = [rings EXCEPT ![r] = @ \cup {front[r]}]
    /\ th' = [th EXCEPT ![Caller] = Idle]
    /\ UNCHANGED <<queues, records, want, front, tokens, finished, done>>

-----------------------------------------------------------------------------
(* Tokens and the end of a request *)

(* Fault: the bound is tested one token late.                              *)
EnoughLate(n) == n > MaxTokens

Enough(n) == n >= MaxTokens

(* A token of a request that is not finished; the ring of a finished one   *)
(* goes on turning and what it reports is dropped.                         *)
TakeToken(b, r) ==
    /\ th[b].pc = "idle"
    /\ \E f \in rings[r] : BackOf[f] = b
    /\ ~finished[r]
    /\ tokens' = [tokens EXCEPT ![r] = @ + 1]
    /\ UNCHANGED <<queues, records, want, binding, finished, done, rings>>

TokenKept(b, r) ==
    /\ TakeToken(b, r)
    /\ ~Enough(tokens'[r])
    /\ UNCHANGED th

(* End of sequence, a stop string, or max_tokens.                          *)
TokenStop(b, r) ==
    /\ TakeToken(b, r)
    /\ At(b, "finTest", r)

(* `if rec.finished: return`                                               *)
FinishTest(t) ==
    LET r == th[t].req IN
    /\ th[t].pc = "finTest"
    /\ th' = [th EXCEPT ![t] = IF finished[r] THEN Idle ELSE [@ EXCEPT !.pc = "finMark"]]
    /\ UNCHANGED <<queues, records, want, binding, tokens, finished, done, rings>>

FinishMark(t) ==
    LET r == th[t].req IN
    /\ th[t].pc = "finMark"
    /\ finished' = [finished EXCEPT ![r] = TRUE]
    /\ At(t, "finSend", r)
    /\ UNCHANGED <<queues, records, want, binding, tokens, done, rings>>

(* `release` to the nodes of the channel, then done.set().                 *)
FinishSend(t) ==
    LET r == th[t].req IN
    /\ th[t].pc = "finSend"
    /\ done' = [done EXCEPT ![r] = TRUE]
    /\ At(t, "release", r)
    /\ UNCHANGED <<queues, records, want, binding, tokens, finished, rings>>

-----------------------------------------------------------------------------
(* The return of a channel *)

(* Fault: the line is a stack.                                             *)
LastInLine(i, u) ==
    /\ i \in DOMAIN arrivals
    /\ task[arrivals[i]] = u
    /\ \A j \in DOMAIN arrivals : j > i => task[arrivals[j]] # u

(* Fault: the head of the line, whatever it waits for.                     *)
HeadOfLine(i, u) == i \in DOMAIN arrivals /\ i = 1

(* waiting[0]: the first request in the line that is labelled u.           *)
FirstInLine(i, u) ==
    /\ i \in DOMAIN arrivals
    /\ task[arrivals[i]] = u
    /\ \A j \in DOMAIN arrivals : j < i => task[arrivals[j]] # u

(* Fault: only the head of the line is looked at.                          *)
HeadIsOther(u) == arrivals # <<>> => task[Head(arrivals)] # u

NobodyInLine(u) == \A i \in DOMAIN arrivals : task[arrivals[i]] # u

(* _release_front, under the lock: bind the first request in the line to   *)
(* the channel, or append the channel to its pool.                         *)
ReleaseFront(t) ==
    LET f == front[th[t].req]
        u == TaskOf(f) IN
    /\ th[t].pc = "release"
    /\ Prompt => th[Caller].pc = "idle"
    /\ \/ \E i \in DOMAIN arrivals :
             /\ FirstInLine(i, u)
             /\ arrivals' = RemoveAt(arrivals, i)
             /\ front' = [front EXCEPT ![arrivals[i]] = f]
             /\ back' = [back EXCEPT ![arrivals[i]] = BackOf[f]]
             /\ At(t, "start", arrivals[i])
             /\ UNCHANGED front_pools
       \/ /\ NobodyInLine(u)
          /\ front_pools' = [front_pools EXCEPT ![u] = Append(@, f)]
          /\ th' = [th EXCEPT ![t] = Idle]
          /\ UNCHANGED <<arrivals, front, back>>
    /\ UNCHANGED <<records, want, task, tokens, finished, done, rings>>

(* The prefill of the request that was handed the channel.                 *)
StartFront(t) ==
    LET r == th[t].req IN
    /\ th[t].pc = "start"
    /\ rings' = [rings EXCEPT ![r] = @ \cup {front[r]}]
    /\ th' = [th EXCEPT ![t] = Idle]
    /\ UNCHANGED <<queues, records, want, binding, tokens, finished, done>>

-----------------------------------------------------------------------------
CallerStep ==
    \/ SubmitReturn
    \/ \E r \in Reqs, u \in Tasks : SubmitLocked(r, u) \/ SubmitUnserved(r, u)

Token(b, r) == TokenKept(b, r) \/ TokenStop(b, r)

HandlerStep(t) ==
    \/ FinishTest(t) \/ FinishMark(t) \/ FinishSend(t)
    \/ ReleaseFront(t) \/ StartFront(t)

Next ==
    \/ CallerStep
    \/ \E b \in Backs, r \in Reqs : Token(b, r)
    \/ \E t \in Backs : HandlerStep(t)

(* The machine as a whole goes on; no thread is promised a turn.           *)
Fairness == WF_vars(Next)

Spec == Init /\ [][Next]_vars /\ Fairness

-----------------------------------------------------------------------------
(* Properties *)

(* The type invariant.                                                     *)
TypeOK ==
    /\ front_pools \in [Served -> Seq(Channels)]
    /\ arrivals \in Seq(Reqs)
    /\ records \subseteq Reqs
    /\ want \in [Reqs -> Tasks \cup {None}]
    /\ front \in [Reqs -> Channels \cup {None}]
    /\ back \in [Reqs -> Backs \cup {None}]
    /\ task \in [Reqs -> Tasks \cup {None}]
    /\ tokens \in [Reqs -> 0..MaxTokens]
    /\ finished \in [Reqs -> BOOLEAN]
    /\ done \in [Reqs -> BOOLEAN]
    /\ rings \in [Reqs -> SUBSET Channels]
    /\ th \in [Threads ->
         [pc : {"idle", "submitted", "finTest", "finMark", "finSend", "release", "start"},
          req : Reqs \cup {None}]]

(* A request holds its channel until the section of _release_front.        *)
Holds(r, f) ==
    /\ front[r] = f
    /\ \/ ~finished[r]
       \/ \E t \in Backs : th[t].req = r /\ th[t].pc \in {"finSend", "release"}

(* Each channel is in the pool of its task once and held by nobody, or in  *)
(* no pool and held by one request, which asked for that task: the return  *)
(* of the front segment is the return of the whole channel, exactly once.  *)
ChannelsExclusive ==
    /\ \A u \in Served :
          /\ IsInjective(front_pools[u])
          /\ ToSet(front_pools[u]) \subseteq ToSet(FrontPools[u])
    /\ \A f \in Channels :
          LET users == {r \in Reqs : Holds(r, f)} IN
          IF f \in ToSet(front_pools[TaskOf(f)]) THEN users = {}
          ELSE /\ Cardinality(users) = 1
               /\ \A r \in users : want[r] = TaskOf(f)

(* Nobody waits for a channel of a task that has a free one, although one  *)
(* line serves all tasks and is searched by label.                         *)
NoIdleChannel ==
    \A r \in ToSet(arrivals) : front_pools[want[r]] = <<>>

(* Requests for one task are served in the order they arrived in, past the *)
(* requests for other tasks that stand between them in the line.           *)
ServedInOrder ==
    \A q, r \in records :
        q < r /\ want[q] = want[r] /\ front[r] # None => front[q] # None

(* Every request for a task that was wired ends.                           *)
EveryRequestEnds == \A r \in Reqs : want[r] \in Served ~> done[r]

=============================================================================
