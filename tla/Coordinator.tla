---------------------------- MODULE Coordinator ----------------------------
(***************************************************************************)
(* The online protocol of p2pmoe/runtime/coordinator.py in its dynamic     *)
(* mode: pools of front and back segments, the two waiting lines, and the  *)
(* threads that work on them.  One thread is the caller of submit(); every *)
(* other one is the `_conn` thread that reads the reports of one segment   *)
(* tail.  A step is what a thread does between two points where another    *)
(* thread may be seen: a section under `self._lock`, a message sent, or a  *)
(* test and the assignment that depends on it.                             *)
(*                                                                         *)
(* The nodes are represented by their contract with the coordinator: a     *)
(* prefill is answered by one `classified`, and any back segment a request *)
(* was ever bound to may report a token of it.                             *)
(***************************************************************************)
EXTENDS Naturals, FiniteSets, SequencesExt

CONSTANTS
    Reqs,          \* request numbers; the caller submits them in increasing order
    Tasks,         \* what the classifier of tail(f) can answer
    FrontQueue,    \* the front segments, in the order of the initial free queue
    BackQueue,     \* task -> its back segments, in the order of the initial queue
    MaxTokens,     \* Coordinator.max_tokens
    MinWindow,     \* min_window: decode steps before channel two may alarm
    MeasuredBaselines, \* baselines_measured
    CalibrateN,    \* calibrate_n: samples needed when baselines are estimates
    Caller,        \* the thread that calls submit
    None           \* Python's "" / None

MaxRebinds == 2    \* the literal in `rec.rebinds < 2`

Fronts  == ToSet(FrontQueue)
Backs   == UNION {ToSet(BackQueue[u]) : u \in Tasks}
Conns   == Fronts \cup Backs
Threads == Conns \cup {Caller}

(* What DeploymentManifest.validate leaves the coordinator to rely on: a   *)
(* segment has one role and, for a back segment, one task.                 *)
ASSUME ReqsAssumption == Reqs \subseteq Nat /\ None \notin Reqs
ASSUME FrontsAssumption == FrontQueue \in Seq(Fronts) /\ IsInjective(FrontQueue)
ASSUME BacksAssumption ==
    /\ BackQueue \in [Tasks -> Seq(Backs)]
    /\ \A u \in Tasks : IsInjective(BackQueue[u])
    /\ \A u, v \in Tasks :
          ToSet(BackQueue[u]) \cap ToSet(BackQueue[v]) # {} => u = v
ASSUME NamesAssumption ==
    /\ Fronts \cap Backs = {}
    /\ Caller \notin Conns
    /\ None \notin Conns \cup Tasks
ASSUME SegmentsAssumption == IsFiniteSet(Conns)
ASSUME BoundsAssumption ==
    /\ MaxTokens \in Nat \ {0}
    /\ MinWindow \in Nat \ {0}
    /\ CalibrateN \in Nat
    /\ MeasuredBaselines \in BOOLEAN

VARIABLES
    free_fronts, free_backs,     \* the pools
    arrivals, await_back,        \* the two waiting lines
    records,                     \* the requests submit() has registered
    front, back, task,           \* RequestRecord: what the request is bound to
    tokens, win,                 \* tokens kept; decode rates in the miss window
    rebinds, tried,
    finished, done, failed,      \* failed: stop_reason = "no_channel"
    seen,                        \* _miss_seen: calibration samples per task
    prefills,                    \* prefill messages not yet answered, per request
    bound,                       \* back segments a bind ever named, per request
    th                           \* program counter and locals of every thread

pools     == <<free_fronts, free_backs>>
lines     == <<arrivals, await_back>>
progress  == <<tokens, win, rebinds, tried>>
ending    == <<finished, done, failed, seen>>
dataplane == <<prefills, bound>>
vars == <<pools, lines, records, front, back, task, progress, ending, dataplane, th>>

Idle == [pc |-> "idle", req |-> None, nxt |-> None, seg |-> None,
         task |-> None, old |-> None, oldTask |-> None, then |-> "idle"]

Init ==
    /\ free_fronts = FrontQueue
    /\ free_backs = BackQueue
    /\ arrivals = <<>>
    /\ await_back = [u \in Tasks |-> <<>>]
    /\ records = {}
    /\ front = [r \in Reqs |-> None]
    /\ back = [r \in Reqs |-> None]
    /\ task = [r \in Reqs |-> None]
    /\ tokens = [r \in Reqs |-> 0]
    /\ win = [r \in Reqs |-> 0]
    /\ rebinds = [r \in Reqs |-> 0]
    /\ tried = [r \in Reqs |-> {}]
    /\ finished = [r \in Reqs |-> FALSE]
    /\ done = [r \in Reqs |-> FALSE]
    /\ failed = [r \in Reqs |-> FALSE]
    /\ seen = [u \in Tasks |-> 0]
    /\ prefills = [r \in Reqs |-> 0]
    /\ bound = [r \in Reqs |-> {}]
    /\ th = [t \in Threads |-> Idle]

-----------------------------------------------------------------------------
(* Fault: the rest of the handler is lost with the frame.                  *)
GotoNowhere(t, label) == Idle

(* A thread that comes to the end of its handler forgets its locals.       *)
Goto(t, label) ==
    IF label = "idle" THEN Idle
    ELSE [th[t] EXCEPT !.pc = label, !.nxt = None, !.seg = None]

-----------------------------------------------------------------------------
(* Arrival *)

(* Fault: the head is read and stays in the queue.                         *)
PeekFreeFront(r) ==
    /\ free_fronts # <<>>
    /\ front' = [front EXCEPT ![r] = Head(free_fronts)]
    /\ UNCHANGED <<free_fronts, arrivals>>

(* `rec.front = self.free_fronts.popleft()`                                *)
TakeFreeFront(r) ==
    /\ free_fronts # <<>>
    /\ front' = [front EXCEPT ![r] = Head(free_fronts)]
    /\ free_fronts' = Tail(free_fronts)
    /\ UNCHANGED arrivals

(* The section under the lock: take the head of the free queue or join the *)
(* arrivals.                                                               *)
SubmitLocked(r) ==
    /\ th[Caller].pc = "idle"
    /\ r \in Reqs \ records
    /\ \A q \in Reqs \ records : r <= q
    /\ records' = records \cup {r}
    /\ \/ TakeFreeFront(r)
       \/ /\ free_fronts = <<>>
          /\ arrivals' = Append(arrivals, r)
          /\ UNCHANGED <<front, free_fronts>>
    /\ th' = [th EXCEPT ![Caller] = [Idle EXCEPT !.pc = "submitted", !.req = r]]
    /\ UNCHANGED <<free_backs, await_back, back, task, progress, ending, dataplane>>

(* After the lock: `if not rec.front: return`, else _start_front.          *)
SubmitReturn ==
    /\ th[Caller].pc = "submitted"
    /\ LET r == th[Caller].req IN
          \/ /\ front[r] = None
             /\ UNCHANGED prefills
          \/ /\ front[r] # None
             /\ prefills' = [prefills EXCEPT ![r] = @ + 1]
    /\ th' = [th EXCEPT ![Caller] = Idle]
    /\ UNCHANGED <<pools, lines, records, front, back, task, progress, ending, bound>>

-----------------------------------------------------------------------------
(* Classification and binding *)

(* A `classified` report arrives on tail(f)'s connection.                  *)
OnClassified(f, r, u) ==
    /\ th[f].pc = "idle"
    /\ front[r] = f
    /\ prefills[r] > 0
    /\ prefills' = [prefills EXCEPT ![r] = @ - 1]
    /\ task' = [task EXCEPT ![r] = u]
    /\ th' = [th EXCEPT ![f] = [Idle EXCEPT !.pc = "bind", !.req = r, !.task = u]]
    /\ UNCHANGED <<pools, lines, records, front, back, progress, ending, bound>>

(* _bind when the planner built no back segment for the task: _fail.       *)
BindFail(t) ==
    LET r == th[t].req IN
    /\ th[t].pc = "bind"
    /\ BackQueue[th[t].task] = <<>>
    /\ \/ /\ ~finished[r]
          /\ finished' = [finished EXCEPT ![r] = TRUE]
          /\ failed' = [failed EXCEPT ![r] = TRUE]
          /\ done' = [done EXCEPT ![r] = TRUE]
       \/ /\ finished[r]
          /\ UNCHANGED <<finished, failed, done>>
    /\ th' = [th EXCEPT ![t] = Goto(t, th[t].then)]
    /\ UNCHANGED <<pools, lines, records, front, back, task, progress, seen, dataplane>>

(* _bind, under the lock: take the head of the task's pool ...             *)
BindPop(t) ==
    LET u == th[t].task IN
    /\ th[t].pc = "bind"
    /\ free_backs[u] # <<>>
    /\ free_backs' = [free_backs EXCEPT ![u] = Tail(@)]
    /\ th' = [th EXCEPT ![t] = [@ EXCEPT !.pc = "attach", !.nxt = th[t].req,
                                         !.seg = Head(free_backs[u])]]
    /\ UNCHANGED <<free_fronts, lines, records, front, back, task, progress, ending, dataplane>>

(* ... or, with every segment of the pool in use, wait for one.            *)
BindQueue(t) ==
    LET u == th[t].task IN
    /\ th[t].pc = "bind"
    /\ BackQueue[u] # <<>>
    /\ free_backs[u] = <<>>
    /\ await_back' = [await_back EXCEPT ![u] = Append(@, th[t].req)]
    /\ th' = [th EXCEPT ![t] = Goto(t, th[t].then)]
    /\ UNCHANGED <<pools, arrivals, records, front, back, task, progress, ending, dataplane>>

(* Fault: the segment is sent to tail(f) and not recorded.                 *)
AttachForgetful(t) ==
    /\ th[t].pc = "attach"
    /\ bound' = [bound EXCEPT ![th[t].nxt] = @ \cup {th[t].seg}]
    /\ th' = [th EXCEPT ![t] = Goto(t, th[t].then)]
    /\ UNCHANGED <<pools, lines, records, front, back, task, progress, ending, prefills>>

(* _attach_back: record the segment and send `bind` to tail(f).            *)
AttachBack(t) ==
    LET r == th[t].nxt
        b == th[t].seg IN
    /\ th[t].pc = "attach"
    /\ back' = [back EXCEPT ![r] = b]
    /\ task' = [task EXCEPT ![r] = th[t].task]
    /\ bound' = [bound EXCEPT ![r] = @ \cup {b}]
    /\ th' = [th EXCEPT ![t] = Goto(t, th[t].then)]
    /\ UNCHANGED <<pools, lines, records, front, progress, ending, prefills>>

-----------------------------------------------------------------------------
(* Tokens *)

Capped(n, top) == IF n > top THEN top ELSE n

(* alarm_baseline(u) is not None.                                          *)
AlarmArmed(u) == MeasuredBaselines \/ seen[u] >= CalibrateN

(* What every token of a request that is not finished changes: the tokens, *)
(* and for a decode step the miss window (both counted to the value that   *)
(* decides).  n is 1 for a decode step, 0 for a prefill.  A token of a     *)
(* finished request is dropped at once, which changes nothing.             *)
TakeToken(b, r) ==
    /\ th[b].pc = "idle"
    /\ b \in bound[r]
    /\ ~finished[r]
    /\ tokens' = [tokens EXCEPT ![r] = Capped(@ + 1, MaxTokens)]

WindowAfter(r, n) == Capped(win[r] + n, MinWindow)

MayAlarm(r, n) ==
    /\ AlarmArmed(task[r])
    /\ WindowAfter(r, n) >= MinWindow
    /\ rebinds[r] < MaxRebinds

(* The token is kept and the ring goes on.                                 *)
TokenKept(b, r, n) ==
    /\ TakeToken(b, r)
    /\ tokens'[r] < MaxTokens
    /\ win' = [win EXCEPT ![r] = WindowAfter(r, n)]
    /\ UNCHANGED <<pools, lines, records, front, back, task, rebinds, tried,
                   ending, dataplane, th>>

(* End of sequence, a stop string, or max_tokens: on to _finish.           *)
TokenStop(b, r, n) ==
    /\ TakeToken(b, r)
    /\ win' = [win EXCEPT ![r] = WindowAfter(r, n)]
    /\ th' = [th EXCEPT ![b] = [Idle EXCEPT !.pc = "finTest", !.req = r]]
    /\ UNCHANGED <<pools, lines, records, front, back, task, rebinds, tried,
                   ending, dataplane>>

(* The pools _rebind may move to: not tried yet, and seen non-empty by a   *)
(* test that does not hold the lock.                                       *)
RebindTargets(r) ==
    {u \in Tasks \ (tried[r] \cup {task[r]}) : free_backs[u] # <<>>}

(* Channel two alarms and there is no pool to move to: clear the window,   *)
(* and return without the max_tokens test.                                 *)
TokenAlarmStay(b, r, n) ==
    /\ TakeToken(b, r)
    /\ MayAlarm(r, n)
    /\ RebindTargets(r) = {}
    /\ tried' = [tried EXCEPT ![r] = @ \cup {task[r]}]
    /\ win' = [win EXCEPT ![r] = 0]
    /\ UNCHANGED <<pools, lines, records, front, back, task, rebinds,
                   ending, dataplane, th>>

(* Channel two alarms: drop_kv to the old segment, then _bind to u.        *)
TokenRebind(b, r, n, u) ==
    /\ TakeToken(b, r)
    /\ MayAlarm(r, n)
    /\ u \in RebindTargets(r)
    /\ tried' = [tried EXCEPT ![r] = @ \cup {task[r]}]
    /\ rebinds' = [rebinds EXCEPT ![r] = @ + 1]
    /\ win' = [win EXCEPT ![r] = 0]
    /\ task' = [task EXCEPT ![r] = u]
    /\ th' = [th EXCEPT ![b] = [Idle EXCEPT !.pc = "bind", !.req = r, !.task = u,
                                            !.old = back[r], !.oldTask = task[r],
                                            !.then = "relOld"]]
    /\ UNCHANGED <<pools, lines, records, front, back, ending, dataplane>>

-----------------------------------------------------------------------------
(* _finish and the return of the segments *)

(* `if rec.finished: return`                                               *)
FinishTest(t) ==
    /\ th[t].pc = "finTest"
    /\ th' = [th EXCEPT ![t] = IF finished[th[t].req] THEN Idle
                               ELSE [@ EXCEPT !.pc = "finMark"]]
    /\ UNCHANGED <<pools, lines, records, front, back, task, progress, ending, dataplane>>

(* rec.finished = True, and the calibration sample of a request that was   *)
(* never rebound.                                                          *)
FinishMark(t) ==
    LET r == th[t].req
        sample == ~MeasuredBaselines /\ rebinds[r] = 0 /\ win[r] >= MinWindow IN
    /\ th[t].pc = "finMark"
    /\ finished' = [finished EXCEPT ![r] = TRUE]
    /\ seen' = IF sample THEN [seen EXCEPT ![task[r]] = Capped(@ + 1, CalibrateN)]
               ELSE seen
    /\ th' = [th EXCEPT ![t] = [@ EXCEPT !.pc = "finSend"]]
    /\ UNCHANGED <<pools, lines, records, front, back, task, progress, done, failed, dataplane>>

(* `release` to the nodes of both segments, then done.set().               *)
FinishSend(t) ==
    /\ th[t].pc = "finSend"
    /\ done' = [done EXCEPT ![th[t].req] = TRUE]
    /\ th' = [th EXCEPT ![t] = [@ EXCEPT !.pc = "relBack"]]
    /\ UNCHANGED <<pools, lines, records, front, back, task, progress,
                   finished, failed, seen, dataplane>>

(* Fault: the segment goes to the pool whoever waits for it.               *)
ReturnBackBlind(t, u, b, after) ==
    /\ free_backs' = [free_backs EXCEPT ![u] = Append(@, b)]
    /\ th' = [th EXCEPT ![t] = IF after = "idle" THEN Idle
                               ELSE [Idle EXCEPT !.pc = after, !.req = th[t].req]]
    /\ UNCHANGED await_back

(* Fault: the first request of the line is served and stays in the line.   *)
ReturnBackPeek(t, u, b, after) ==
    /\ await_back[u] # <<>>
    /\ th' = [th EXCEPT ![t] = [Idle EXCEPT !.pc = "attach", !.req = th[t].req,
                                            !.nxt = Head(await_back[u]), !.seg = b,
                                            !.task = u, !.then = after]]
    /\ UNCHANGED <<free_backs, await_back>>

(* _release_back(u, b): to the first request waiting for the pool, else to *)
(* the end of the pool.                                                    *)
ReturnBack(t, u, b, after) ==
    \/ /\ await_back[u] # <<>>
       /\ await_back' = [await_back EXCEPT ![u] = Tail(@)]
       /\ th' = [th EXCEPT ![t] = [Idle EXCEPT !.pc = "attach", !.req = th[t].req,
                                               !.nxt = Head(await_back[u]), !.seg = b,
                                               !.task = u, !.then = after]]
       /\ UNCHANGED free_backs
    \/ /\ await_back[u] = <<>>
       /\ free_backs' = [free_backs EXCEPT ![u] = Append(@, b)]
       /\ th' = [th EXCEPT ![t] = IF after = "idle" THEN Idle
                                  ELSE [Idle EXCEPT !.pc = after, !.req = th[t].req]]
       /\ UNCHANGED await_back

(* `if rec.back` always holds here: a token comes from a bound segment.    *)
ReleaseBack(t) ==
    LET r == th[t].req IN
    /\ th[t].pc = "relBack"
    /\ ReturnBack(t, task[r], back[r], "relFront")
    /\ UNCHANGED <<free_fronts, arrivals, records, front, back, task, progress,
                   ending, dataplane>>

(* Fault: the old segment is returned to the pool of the new task.         *)
ReleaseOldToNewPool(t) ==
    /\ th[t].pc = "relOld"
    /\ ReturnBack(t, task[th[t].req], th[t].old, "idle")
    /\ UNCHANGED <<free_fronts, arrivals, records, front, back, task, progress,
                   ending, dataplane>>

(* Fault: the segment returned is a local that was never set.              *)
ReleaseOldUnset(t) ==
    /\ th[t].pc = "relOld"
    /\ ReturnBack(t, th[t].oldTask, th[t].seg, "idle")
    /\ UNCHANGED <<free_fronts, arrivals, records, front, back, task, progress,
                   ending, dataplane>>

(* The last line of _rebind.                                               *)
ReleaseOld(t) ==
    /\ th[t].pc = "relOld"
    /\ ReturnBack(t, th[t].oldTask, th[t].old, "idle")
    /\ UNCHANGED <<free_fronts, arrivals, records, front, back, task, progress,
                   ending, dataplane>>

(* _release_front: to the first arrival, else to the end of the pool.      *)
ReleaseFront(t) ==
    LET f == front[th[t].req] IN
    /\ th[t].pc = "relFront"
    /\ \/ /\ arrivals # <<>>
          /\ arrivals' = Tail(arrivals)
          /\ front' = [front EXCEPT ![Head(arrivals)] = f]
          /\ th' = [th EXCEPT ![t] = [Idle EXCEPT !.pc = "start", !.nxt = Head(arrivals)]]
          /\ UNCHANGED free_fronts
       \/ /\ arrivals = <<>>
          /\ free_fronts' = Append(free_fronts, f)
          /\ th' = [th EXCEPT ![t] = Idle]
          /\ UNCHANGED <<arrivals, front>>
    /\ UNCHANGED <<free_backs, await_back, records, back, task, progress, ending, dataplane>>

(* _start_front: send `prefill` to head(f).                                *)
StartFront(t) ==
    /\ th[t].pc = "start"
    /\ prefills' = [prefills EXCEPT ![th[t].nxt] = @ + 1]
    /\ th' = [th EXCEPT ![t] = Idle]
    /\ UNCHANGED <<pools, lines, records, front, back, task, progress, ending, bound>>

-----------------------------------------------------------------------------
CallerStep == SubmitReturn \/ \E r \in Reqs : SubmitLocked(r)

Token(b, r) ==
    \E n \in {0, 1} :
        \/ TokenKept(b, r, n)
        \/ TokenStop(b, r, n)
        \/ TokenAlarmStay(b, r, n)
        \/ \E u \in Tasks : TokenRebind(b, r, n, u)

Classified(f, r) == \E u \in Tasks : OnClassified(f, r, u)

HandlerStep(t) ==
    \/ BindFail(t) \/ BindPop(t) \/ BindQueue(t) \/ AttachBack(t)
    \/ FinishTest(t) \/ FinishMark(t) \/ FinishSend(t)
    \/ ReleaseBack(t) \/ ReleaseOld(t) \/ ReleaseFront(t) \/ StartFront(t)

Next ==
    \/ CallerStep
    \/ \E f \in Fronts, r \in Reqs : Classified(f, r)
    \/ \E b \in Backs, r \in Reqs : Token(b, r)
    \/ \E t \in Conns : HandlerStep(t)

Spec == Init /\ [][Next]_vars

-----------------------------------------------------------------------------
(* Timely schedules.  Three windows of the code corrupt the pools when     *)
(* another thread enters them; a timely schedule is one where none does.   *)
(* That the first of them can be entered is shown (MCOvertaken.cfg); the   *)
(* other two are excluded here, and nothing is shown of what then happens. *)

(* submit() reaches its `if not rec.front` before another thread hands the *)
(* request a front segment.                                                *)
SubmitReturnsFirst ==
    th[Caller].pc = "submitted" =>
        front'[th[Caller].req] = front[th[Caller].req]

(* Two connections do not work on reports of one request at a time.        *)
Handling(t, r) == th[t].pc # "idle" /\ th[t].req = r

OneHandlerPerRequest ==
    \A t1, t2 \in Conns, r \in Reqs :
        Handling(t1, r) /\ Handling(t2, r) => t1 = t2

(* The pool _rebind saw non-empty still is when _bind takes the lock.      *)
Rebinding(t, u) == th[t].pc = "bind" /\ th[t].then = "relOld" /\ th[t].task = u

RebindPoolHolds ==
    \A u \in Tasks : Cardinality({t \in Conns : Rebinding(t, u)}) <= Len(free_backs[u])

Undisturbed == OneHandlerPerRequest /\ RebindPoolHolds

TimelyStep == SubmitReturnsFirst /\ Undisturbed'

(* The machine as a whole goes on: while a thread can run, a report is on  *)
(* its way or a request is left to submit, something happens.  No thread   *)
(* is promised a turn of its own.                                          *)
Fairness == WF_vars(Next /\ TimelyStep)

TimelySpec == Init /\ [][Next /\ TimelyStep]_vars /\ Fairness

-----------------------------------------------------------------------------
(* Who holds a segment *)

(* A request holds its front segment from the moment it is popped until    *)
(* the section of _release_front; a failed request never gives it back.    *)
FrontHeld(r, f) ==
    /\ front[r] = f
    /\ \/ ~finished[r]
       \/ failed[r]
       \/ \E t \in Conns : /\ th[t].req = r
                           /\ \/ th[t].pc \in {"finSend", "relBack", "relFront"}
                              \/ th[t].then = "relFront"

(* A back segment is held through rec.back, or is on its way to or from    *)
(* the request in the locals of a thread.                                  *)
BackHeld(r, b) ==
    \/ /\ back[r] = b
       /\ \/ ~finished[r]
          \/ \E t \in Conns : th[t].req = r /\ th[t].pc \in {"finSend", "relBack"}
    \/ \E t \in Conns : th[t].pc = "attach" /\ th[t].nxt = r /\ th[t].seg = b
    \/ \E t \in Conns : th[t].req = r /\ th[t].old = b

-----------------------------------------------------------------------------
(* Properties *)

Labels == {"idle", "submitted", "bind", "attach", "relOld", "finTest", "finMark",
           "finSend", "relBack", "relFront", "start"}

Locals == [pc : Labels, req : Reqs \cup {None}, nxt : Reqs \cup {None},
           seg : Backs \cup {None}, task : Tasks \cup {None},
           old : Backs \cup {None}, oldTask : Tasks \cup {None},
           then : {"idle", "relOld", "relFront"}]

(* The type invariant.                                                     *)
TypeOK ==
    /\ free_fronts \in Seq(Fronts)
    /\ free_backs \in [Tasks -> Seq(Backs)]
    /\ arrivals \in Seq(Reqs)
    /\ await_back \in [Tasks -> Seq(Reqs)]
    /\ records \subseteq Reqs
    /\ front \in [Reqs -> Fronts \cup {None}]
    /\ back \in [Reqs -> Backs \cup {None}]
    /\ task \in [Reqs -> Tasks \cup {None}]
    /\ tokens \in [Reqs -> 0..MaxTokens]
    /\ win \in [Reqs -> 0..MinWindow]
    /\ rebinds \in [Reqs -> 0..MaxRebinds]
    /\ tried \in [Reqs -> SUBSET (Tasks \cup {None})]
    /\ finished \in [Reqs -> BOOLEAN]
    /\ done \in [Reqs -> BOOLEAN]
    /\ failed \in [Reqs -> BOOLEAN]
    /\ seen \in [Tasks -> 0..CalibrateN]
    /\ prefills \in [Reqs -> Nat]
    /\ bound \in [Reqs -> SUBSET Backs]
    /\ th \in [Threads -> Locals]

(* Exclusive use of a front segment (I.2.4): no two requests hold it, none *)
(* holds it while it is in the free queue, and the queue names it once.    *)
FrontsExclusive ==
    /\ IsInjective(free_fronts)
    /\ \A f \in Fronts, r \in Reqs :
          FrontHeld(r, f) =>
              /\ f \notin ToSet(free_fronts)
              /\ \A q \in Reqs : FrontHeld(q, f) => q = r

(* The same of a back segment, across a rebind that moves a request from   *)
(* one pool to another: every segment in a pool is one the planner built   *)
(* for that pool, is there once, and nobody holds it.                      *)
BacksExclusive ==
    /\ \A u \in Tasks :
          /\ IsInjective(free_backs[u])
          /\ ToSet(free_backs[u]) \subseteq ToSet(BackQueue[u])
    /\ \A b \in Backs, r \in Reqs :
          BackHeld(r, b) =>
              /\ \A u \in Tasks : b \notin ToSet(free_backs[u])
              /\ \A q \in Reqs : BackHeld(q, b) => q = r

(* No segment is ever lost: what is not in a pool is held by a request,    *)
(* even while it passes from one thread's locals to another's.             *)
NoFrontLost ==
    \A f \in Fronts : f \in ToSet(free_fronts) \/ \E r \in Reqs : FrontHeld(r, f)

NoBackLost ==
    \A u \in Tasks : \A b \in ToSet(BackQueue[u]) :
        b \in ToSet(free_backs[u]) \/ \E r \in Reqs : BackHeld(r, b)

NothingLost == NoFrontLost /\ NoBackLost

(* Nobody waits for what is free: _bind, submit and the two releases keep  *)
(* a pool and the line for it from being non-empty together, although each *)
(* section of the lock changes only one of the two.                        *)
NoIdleWhileWaiting ==
    /\ arrivals # <<>> => free_fronts = <<>>
    /\ \A u \in Tasks : await_back[u] # <<>> => free_backs[u] = <<>>

(* A request that waits in a line waits in that line only, holds nothing   *)
(* of the kind it waits for, and has not been ended: whoever serves the    *)
(* line can hand it a segment without looking.                             *)
WaitersAreWaiting ==
    /\ IsInjective(arrivals)
    /\ \A r \in ToSet(arrivals) : front[r] = None /\ ~finished[r] /\ r \in records
    /\ \A u \in Tasks :
          /\ IsInjective(await_back[u])
          /\ \A r \in ToSet(await_back[u]) :
                /\ back[r] = None /\ ~finished[r] /\ front[r] # None
                /\ \A v \in Tasks : r \in ToSet(await_back[v]) => v = u

(* When the service is at rest after the last request, the pools hold      *)
(* again what they held at the start (tests/test_serving_loop.py,          *)
(* test_segments_return_to_pool_after_completion).                         *)
PoolsRestored ==
    ( /\ \A r \in records : done[r]
      /\ \A t \in Threads : th[t] = Idle ) =>
        /\ ToSet(free_fronts) = Fronts
        /\ \A u \in Tasks : ToSet(free_backs[u]) = ToSet(BackQueue[u])

(* Every request that was submitted ends, unless a failed request keeps a  *)
(* front segment from the ones behind it.                                  *)
EveryRequestEnds ==
    \A r \in Reqs : r \in records ~> (done[r] \/ \E q \in Reqs : failed[q])

=============================================================================
