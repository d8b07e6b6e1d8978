------------------------- MODULE Coordinator_proofs -------------------------
(***************************************************************************)
(* Theorems about Coordinator for any number of requests, segments and     *)
(* tasks.  In every schedule: type correctness, and that nobody waits for  *)
(* what is free.  In a timely schedule: a front segment is always in the   *)
(* free queue or with exactly one request.                                 *)
(***************************************************************************)
EXTENDS Coordinator, SequenceLemmas

-----------------------------------------------------------------------------
(* Type correctness *)

(* What a thread's program counter says of its locals.                     *)
LocalsOK(t) ==
    /\ th[t].pc = "submitted" => t = Caller
    /\ th[t].pc \in {"submitted", "bind", "relOld", "finTest", "finMark",
                     "finSend", "relBack", "relFront"} => th[t].req \in Reqs
    /\ th[t].pc \in {"bind", "finTest", "finMark", "finSend", "relBack", "relFront"} =>
          front[th[t].req] \in Fronts
    /\ th[t].pc \in {"bind", "attach"} => th[t].task \in Tasks
    /\ th[t].pc = "attach" =>
          th[t].nxt \in Reqs /\ th[t].seg \in Backs /\ front[th[t].nxt] \in Fronts
    /\ th[t].pc = "start" => th[t].nxt \in Reqs
    /\ th[t].pc \in {"finTest", "finMark", "finSend", "relBack"} => bound[th[t].req] # {}
    /\ "relOld" \in {th[t].pc, th[t].then} =>
          th[t].req \in Reqs /\ th[t].old \in Backs /\ th[t].oldTask \in Tasks
    /\ th[t].then = "relFront" => th[t].req \in Reqs /\ front[th[t].req] \in Fronts
    /\ th[t].then # "idle" => th[t].pc # "idle"

(* A request that was ever bound has both segments and a task, and one     *)
(* that waits for a back segment has its front segment.                    *)
RequestsOK ==
    /\ \A r \in Reqs : bound[r] # {} =>
          back[r] \in Backs /\ task[r] \in Tasks /\ front[r] \in Fronts
    /\ \A u \in Tasks : \A r \in ToSet(await_back[u]) : front[r] \in Fronts

TypeInv == TypeOK /\ RequestsOK /\ \A t \in Threads : LocalsOK(t)

(* A step moves one thread: what it must show of the locals is what they   *)
(* are after the step, as long as no request loses a segment it had.       *)
LEMMA OneThreadMoves ==
    ASSUME TypeInv,
           NEW t \in Threads, NEW l \in Locals, th' = [th EXCEPT ![t] = l],
           LocalsOK(t)',
           \A r \in Reqs : front[r] \in Fronts => front'[r] \in Fronts,
           \A r \in Reqs : bound[r] # {} => bound'[r] # {}
    PROVE  th' \in [Threads -> Locals] /\ \A s \in Threads : LocalsOK(s)'
<1>1. th \in [Threads -> Locals]
  BY DEF TypeInv, TypeOK
<1>2. th' \in [Threads -> Locals]
  BY <1>1
<1>3. ASSUME NEW s \in Threads, s # t PROVE LocalsOK(s)'
  <2>1. th'[s] = th[s]
    BY <1>1, <1>3
  <2>2. LocalsOK(s)
    BY DEF TypeInv
  <2>3. QED BY <2>1, <2>2 DEF LocalsOK
<1>4. QED BY <1>2, <1>3

(* What is left of a thread's locals when it goes on to a label.           *)
LEMMA GotoLocals ==
    ASSUME TypeInv, NEW t \in Threads
    PROVE  /\ Goto(t, th[t].then) \in Locals
           /\ th[t].then = "idle" => Goto(t, th[t].then) = Idle
           /\ th[t].then # "idle" =>
                 /\ Goto(t, th[t].then).pc = th[t].then
                 /\ Goto(t, th[t].then).then = th[t].then
                 /\ Goto(t, th[t].then).req = th[t].req
                 /\ Goto(t, th[t].then).old = th[t].old
                 /\ Goto(t, th[t].then).oldTask = th[t].oldTask
<1>1. th[t] \in Locals
  BY DEF TypeInv, TypeOK
<1>2. CASE th[t].then = "idle"
  BY <1>2 DEF Goto, Idle, Locals, Labels
<1>3. CASE th[t].then # "idle"
  <2> DEFINE l == [th[t] EXCEPT !.pc = th[t].then, !.nxt = None, !.seg = None]
  <2>1. Goto(t, th[t].then) = l
    BY <1>3 DEF Goto
  <2>2. l \in Locals
    BY <1>1 DEF Locals, Labels
  <2>3. /\ l.pc = th[t].then /\ l.then = th[t].then /\ l.req = th[t].req
        /\ l.old = th[t].old /\ l.oldTask = th[t].oldTask
    BY <1>1 DEF Locals
  <2>4. QED BY <2>1, <2>2, <2>3, <1>3
<1>4. QED BY <1>2, <1>3

(* Every step leaves the types, the bindings and the locals in order.      *)
LEMMA TypeInvStep == TypeInv /\ [Next]_vars => TypeInv'
<1> SUFFICES ASSUME TypeInv, [Next]_vars PROVE TypeInv'
  OBVIOUS
<1> USE NamesAssumption, ReqsAssumption, BoundsAssumption
<1>0. /\ TypeOK /\ RequestsOK
      /\ \A t \in Threads : th[t] \in Locals /\ LocalsOK(t)
      /\ \A u \in Tasks : ToSet(await_back[u]) \subseteq Reqs
  BY ElementsOfQueue DEF TypeInv, TypeOK
<1>a. Caller \in Threads /\ Conns \subseteq Threads /\ Fronts \subseteq Conns /\ Backs \subseteq Conns
  BY DEF Threads, Conns
<1>1. ASSUME NEW r \in Reqs, SubmitLocked(r) PROVE TypeInv'
  <2> DEFINE l == [Idle EXCEPT !.pc = "submitted", !.req = r]
  <2>1. l \in Locals /\ th' = [th EXCEPT ![Caller] = l]
    BY <1>1 DEF SubmitLocked, Locals, Labels, Idle
  <2>2. /\ free_fronts' \in Seq(Fronts) /\ arrivals' \in Seq(Reqs)
        /\ front' \in [Reqs -> Fronts \cup {None}]
        /\ \A q \in Reqs : front[q] \in Fronts => front'[q] \in Fronts
    <3>1. CASE free_fronts # <<>>
      <4>1. Head(free_fronts) \in Fronts /\ Tail(free_fronts) \in Seq(Fronts)
        BY <3>1, <1>0, TailOfQueue DEF TypeOK
      <4>2. /\ free_fronts' = Tail(free_fronts) /\ arrivals' = arrivals
            /\ front' = [front EXCEPT ![r] = Head(free_fronts)]
        BY <3>1, <1>1 DEF SubmitLocked, TakeFreeFront
      <4>3. QED BY <4>1, <4>2, <1>0 DEF TypeOK
    <3>2. CASE free_fronts = <<>>
      <4>1. Append(arrivals, r) \in Seq(Reqs)
        BY <1>0, AppendToQueue DEF TypeOK
      <4>2. QED BY <4>1, <3>2, <1>0, <1>1 DEF TypeOK, SubmitLocked, TakeFreeFront
    <3>3. QED BY <3>1, <3>2
  <2>3. UNCHANGED <<free_backs, await_back, back, task, tokens, win, rebinds, tried,
                    finished, done, failed, seen, prefills, bound>>
        /\ records' \subseteq Reqs
    BY <1>1, <1>0 DEF SubmitLocked, progress, ending, dataplane, TypeOK
  <2>4. LocalsOK(Caller)'
    <3>1. th'[Caller] = l
      BY <2>1, <1>0, <1>a DEF TypeOK
    <3>2. QED BY <3>1 DEF LocalsOK, Idle
  <2>5. th' \in [Threads -> Locals] /\ \A s \in Threads : LocalsOK(s)'
    BY <2>1, <2>2, <2>3, <2>4, <1>a, OneThreadMoves
  <2>6. TypeOK'
    BY <2>2, <2>3, <2>5, <1>0 DEF TypeOK
  <2>7. RequestsOK'
    BY <2>2, <2>3, <1>0 DEF RequestsOK, TypeOK
  <2>8. QED BY <2>5, <2>6, <2>7 DEF TypeInv
<1>2. ASSUME SubmitReturn PROVE TypeInv'
  <2> DEFINE r == th[Caller].req
  <2>1. r \in Reqs
    BY <1>2, <1>0, <1>a DEF SubmitReturn, LocalsOK
  <2>2. prefills' \in [Reqs -> Nat]
    <3>1. prefills' = prefills \/ prefills' = [prefills EXCEPT ![r] = prefills[r] + 1]
      BY <1>2 DEF SubmitReturn
    <3>2. prefills \in [Reqs -> Nat]
      BY <1>0 DEF TypeOK
    <3>3. QED BY <3>1, <3>2, <2>1
  <2>3. Idle \in Locals /\ th' = [th EXCEPT ![Caller] = Idle]
    BY <1>2 DEF SubmitReturn, Locals, Labels, Idle
  <2>4. UNCHANGED <<pools, lines, records, front, back, task, progress, ending, bound>>
    BY <1>2 DEF SubmitReturn
  <2>5. LocalsOK(Caller)'
    BY <2>3, <1>0, <1>a DEF TypeOK, LocalsOK, Idle
  <2>6. th' \in [Threads -> Locals] /\ \A s \in Threads : LocalsOK(s)'
    BY <2>3, <2>4, <2>5, <1>a, OneThreadMoves
  <2>7. TypeOK' /\ RequestsOK'
    BY <2>2, <2>4, <2>6, <1>0 DEF TypeOK, RequestsOK, pools, lines, progress, ending
  <2>8. QED BY <2>6, <2>7 DEF TypeInv
<1>3. ASSUME NEW f \in Fronts, NEW r \in Reqs, NEW u \in Tasks, OnClassified(f, r, u)
      PROVE  TypeInv'
  <2> DEFINE l == [Idle EXCEPT !.pc = "bind", !.req = r, !.task = u]
  <2>1. l \in Locals /\ th' = [th EXCEPT ![f] = l]
    BY <1>3 DEF OnClassified, Locals, Labels, Idle
  <2>2. prefills' \in [Reqs -> Nat] /\ task' \in [Reqs -> Tasks \cup {None}]
        /\ \A q \in Reqs : task[q] \in Tasks => task'[q] \in Tasks
    BY <1>3, <1>0 DEF OnClassified, TypeOK
  <2>3. UNCHANGED <<pools, lines, records, front, back, progress, ending, bound>>
    BY <1>3 DEF OnClassified
  <2>4. LocalsOK(f)'
    <3>1. th'[f] = l /\ front'[r] = f
      BY <1>3, <2>1, <2>3, <1>0, <1>a DEF TypeOK, OnClassified
    <3>2. QED BY <3>1 DEF LocalsOK, Idle
  <2>5. th' \in [Threads -> Locals] /\ \A s \in Threads : LocalsOK(s)'
    BY <2>1, <2>3, <2>4, <1>a, OneThreadMoves
  <2>6. TypeOK'
    BY <2>2, <2>3, <2>5, <1>0 DEF TypeOK, pools, lines, progress, ending
  <2>7. RequestsOK'
    BY <2>2, <2>3, <1>0 DEF RequestsOK, TypeOK, lines
  <2>8. QED BY <2>5, <2>6, <2>7 DEF TypeInv
<1>4. ASSUME NEW t \in Conns, BindFail(t) PROVE TypeInv'
  <2> DEFINE r == th[t].req
  <2>1. r \in Reqs
    BY <1>4, <1>0, <1>a DEF BindFail, LocalsOK
  <2>2. /\ finished' \in [Reqs -> BOOLEAN] /\ failed' \in [Reqs -> BOOLEAN]
        /\ done' \in [Reqs -> BOOLEAN]
    BY <1>4, <1>0, <2>1 DEF BindFail, TypeOK
  <2>3. th' = [th EXCEPT ![t] = Goto(t, th[t].then)] /\ Goto(t, th[t].then) \in Locals
    BY <1>4, <1>a, GotoLocals DEF BindFail
  <2>4. UNCHANGED <<pools, lines, records, front, back, task, progress, seen, dataplane>>
    BY <1>4 DEF BindFail
  <2>5. LocalsOK(t)'
    <3>1. th'[t] = Goto(t, th[t].then)
      BY <2>3, <1>0, <1>a DEF TypeOK
    <3>2. th[t].then \in {"idle", "relOld", "relFront"} /\ LocalsOK(t)
      BY <1>0, <1>a DEF Locals
    <3>3. QED BY <3>1, <3>2, <2>4, <1>a, GotoLocals DEF LocalsOK, Idle
  <2>6. th' \in [Threads -> Locals] /\ \A s \in Threads : LocalsOK(s)'
    BY <2>3, <2>4, <2>5, <1>a, OneThreadMoves DEF dataplane
  <2>7. TypeOK' /\ RequestsOK'
    BY <2>2, <2>4, <2>6, <1>0 DEF TypeOK, RequestsOK, pools, lines, progress, dataplane
  <2>8. QED BY <2>6, <2>7 DEF TypeInv
<1>5. ASSUME NEW t \in Conns, BindPop(t) PROVE TypeInv'
  <2> DEFINE u == th[t].task
             l == [th[t] EXCEPT !.pc = "attach", !.nxt = th[t].req, !.seg = Head(free_backs[u])]
  <2>1. th[t].pc = "bind" /\ u \in Tasks /\ th[t].req \in Reqs /\ front[th[t].req] \in Fronts
    BY <1>5, <1>0, <1>a DEF BindPop, LocalsOK
  <2>2. Head(free_backs[u]) \in Backs /\ Tail(free_backs[u]) \in Seq(Backs)
    BY <1>5, <2>1, <1>0, TailOfQueue DEF BindPop, TypeOK
  <2>3. l \in Locals /\ th' = [th EXCEPT ![t] = l]
    <3>1. th[t] \in Locals
      BY <1>0, <1>a
    <3>2. QED BY <3>1, <1>5, <2>1, <2>2 DEF BindPop, Locals, Labels
  <2>4. free_backs' \in [Tasks -> Seq(Backs)]
    BY <1>5, <2>1, <2>2, <1>0 DEF BindPop, TypeOK
  <2>5. UNCHANGED <<free_fronts, lines, records, front, back, task, progress, ending, dataplane>>
    BY <1>5 DEF BindPop
  <2>6. LocalsOK(t)'
    <3>1. th'[t] = l /\ LocalsOK(t) /\ th[t] \in Locals
      BY <2>3, <1>0, <1>a DEF TypeOK
    <3>2. /\ l.pc = "attach" /\ l.nxt = th[t].req /\ l.seg = Head(free_backs[u])
          /\ l.req = th[t].req /\ l.task = u /\ l.old = th[t].old
          /\ l.oldTask = th[t].oldTask /\ l.then = th[t].then
      BY <3>1 DEF Locals
    <3>3. QED BY <3>1, <3>2, <2>1, <2>2, <2>5 DEF LocalsOK
  <2>7. th' \in [Threads -> Locals] /\ \A s \in Threads : LocalsOK(s)'
    BY <2>3, <2>5, <2>6, <1>a, OneThreadMoves DEF dataplane
  <2>8. TypeOK' /\ RequestsOK'
    BY <2>4, <2>5, <2>7, <1>0 DEF TypeOK, RequestsOK, lines, progress, ending, dataplane
  <2>9. QED BY <2>7, <2>8 DEF TypeInv
<1>6. ASSUME NEW t \in Conns, BindQueue(t) PROVE TypeInv'
  <2> DEFINE u == th[t].task
  <2>1. th[t].pc = "bind" /\ u \in Tasks /\ th[t].req \in Reqs /\ front[th[t].req] \in Fronts
    BY <1>6, <1>0, <1>a DEF BindQueue, LocalsOK
  <2>2. await_back' = [await_back EXCEPT ![u] = Append(await_back[u], th[t].req)]
    BY <1>6 DEF BindQueue
  <2>3. /\ Append(await_back[u], th[t].req) \in Seq(Reqs)
        /\ ToSet(Append(await_back[u], th[t].req)) = ToSet(await_back[u]) \cup {th[t].req}
    BY <2>1, <1>0, AppendToQueue DEF TypeOK
  <2>4. th' = [th EXCEPT ![t] = Goto(t, th[t].then)] /\ Goto(t, th[t].then) \in Locals
    BY <1>6, <1>a, GotoLocals DEF BindQueue
  <2>5. UNCHANGED <<pools, arrivals, records, front, back, task, progress, ending, dataplane>>
    BY <1>6 DEF BindQueue
  <2>6. LocalsOK(t)'
    <3>1. th'[t] = Goto(t, th[t].then)
      BY <2>4, <1>0, <1>a DEF TypeOK
    <3>2. th[t].then \in {"idle", "relOld", "relFront"} /\ LocalsOK(t)
      BY <1>0, <1>a DEF Locals
    <3>3. QED BY <3>1, <3>2, <2>5, <1>a, GotoLocals DEF LocalsOK, Idle
  <2>7. th' \in [Threads -> Locals] /\ \A s \in Threads : LocalsOK(s)'
    BY <2>4, <2>5, <2>6, <1>a, OneThreadMoves DEF dataplane
  <2>8. TypeOK'
    BY <2>2, <2>3, <2>5, <2>7, <1>0 DEF TypeOK, pools, progress, ending, dataplane
  <2>9. RequestsOK'
    <3>1. \A v \in Tasks : await_back'[v] = await_back[v]
              \/ ToSet(await_back'[v]) = ToSet(await_back[v]) \cup {th[t].req}
      BY <2>2, <2>3, <1>0 DEF TypeOK
    <3>2. QED BY <3>1, <2>1, <2>5, <1>0 DEF RequestsOK, dataplane
  <2>10. QED BY <2>7, <2>8, <2>9 DEF TypeInv
<1>7. ASSUME NEW t \in Conns, AttachBack(t) PROVE TypeInv'
  <2> DEFINE r == th[t].nxt
             b == th[t].seg
  <2>1. r \in Reqs /\ b \in Backs /\ th[t].task \in Tasks /\ front[r] \in Fronts
    BY <1>7, <1>0, <1>a DEF AttachBack, LocalsOK
  <2>2. /\ back' = [back EXCEPT ![r] = b] /\ task' = [task EXCEPT ![r] = th[t].task]
        /\ bound' = [bound EXCEPT ![r] = bound[r] \cup {b}]
    BY <1>7 DEF AttachBack
  <2>3. UNCHANGED <<pools, lines, records, front, progress, ending, prefills>>
    BY <1>7 DEF AttachBack
  <2>4. th' = [th EXCEPT ![t] = Goto(t, th[t].then)] /\ Goto(t, th[t].then) \in Locals
    BY <1>7, <1>a, GotoLocals DEF AttachBack
  <2>5. LocalsOK(t)'
    <3>1. th'[t] = Goto(t, th[t].then)
      BY <2>4, <1>0, <1>a DEF TypeOK
    <3>2. th[t].then \in {"idle", "relOld", "relFront"} /\ LocalsOK(t)
      BY <1>0, <1>a DEF Locals
    <3>3. QED BY <3>1, <3>2, <2>3, <1>a, GotoLocals DEF LocalsOK, Idle
  <2>6. \A q \in Reqs : bound[q] # {} => bound'[q] # {}
    BY <2>1, <2>2, <1>0 DEF TypeOK
  <2>7. th' \in [Threads -> Locals] /\ \A s \in Threads : LocalsOK(s)'
    BY <2>3, <2>4, <2>5, <2>6, <1>a, OneThreadMoves
  <2>8. TypeOK'
    BY <2>1, <2>2, <2>3, <2>7, <1>0 DEF TypeOK, pools, lines, progress, ending
  <2>9. RequestsOK'
    BY <2>1, <2>2, <2>3, <1>0 DEF TypeOK, RequestsOK, lines
  <2>10. QED BY <2>7, <2>8, <2>9 DEF TypeInv
<1>8. ASSUME NEW b \in Backs, NEW r \in Reqs, Token(b, r) PROVE TypeInv'
  <2>1. PICK n \in {0, 1} :
          \/ TokenKept(b, r, n) \/ TokenStop(b, r, n) \/ TokenAlarmStay(b, r, n)
          \/ \E u \in Tasks : TokenRebind(b, r, n, u)
    BY <1>8 DEF Token
  <2>2. /\ TakeToken(b, r) /\ UNCHANGED <<pools, lines, records, front, back, ending, dataplane>>
    BY <2>1 DEF TokenKept, TokenStop, TokenAlarmStay, TokenRebind
  <2>3. /\ tokens' \in [Reqs -> 0..MaxTokens]
        /\ th[b].pc = "idle" /\ bound[r] # {}
        /\ back[r] \in Backs /\ task[r] \in Tasks /\ front[r] \in Fronts
    <3>1. tokens \in [Reqs -> 0..MaxTokens]
      BY <1>0 DEF TypeOK
    <3>2. Capped(tokens[r] + 1, MaxTokens) \in 0..MaxTokens
      BY <3>1 DEF Capped
    <3>3. tokens' = [tokens EXCEPT ![r] = Capped(tokens[r] + 1, MaxTokens)]
      BY <2>2 DEF TakeToken
    <3>4. th[b].pc = "idle" /\ bound[r] # {}
      BY <2>2 DEF TakeToken
    <3>5. QED BY <3>1, <3>2, <3>3, <3>4, <1>0 DEF RequestsOK
  <2>4. WindowAfter(r, n) \in 0..MinWindow
    <3>1. win[r] \in 0..MinWindow
      BY <1>0 DEF TypeOK
    <3>2. QED BY <3>1 DEF WindowAfter, Capped
  <2>5. /\ win' \in [Reqs -> 0..MinWindow]
        /\ rebinds' \in [Reqs -> 0..MaxRebinds]
        /\ tried' \in [Reqs -> SUBSET (Tasks \cup {None})]
        /\ task' \in [Reqs -> Tasks \cup {None}]
        /\ \A q \in Reqs : task[q] \in Tasks => task'[q] \in Tasks
    <3>1. /\ win \in [Reqs -> 0..MinWindow]
          /\ rebinds \in [Reqs -> 0..MaxRebinds]
          /\ tried \in [Reqs -> SUBSET (Tasks \cup {None})]
          /\ task \in [Reqs -> Tasks \cup {None}]
      BY <1>0 DEF TypeOK
    <3>2. CASE TokenKept(b, r, n)
      BY <3>1, <3>2, <2>4 DEF TokenKept
    <3>3. CASE TokenStop(b, r, n)
      BY <3>1, <3>3, <2>4 DEF TokenStop
    <3>4. CASE TokenAlarmStay(b, r, n)
      BY <3>1, <3>4, <2>3 DEF TokenAlarmStay
    <3>5. ASSUME NEW u \in Tasks, TokenRebind(b, r, n, u)
          PROVE  /\ win' \in [Reqs -> 0..MinWindow]
                 /\ rebinds' \in [Reqs -> 0..MaxRebinds]
                 /\ tried' \in [Reqs -> SUBSET (Tasks \cup {None})]
                 /\ task' \in [Reqs -> Tasks \cup {None}]
                 /\ \A q \in Reqs : task[q] \in Tasks => task'[q] \in Tasks
      <4>1. rebinds[r] + 1 \in 0..MaxRebinds
        BY <3>1, <3>5 DEF TokenRebind, MayAlarm, MaxRebinds
      <4>2. /\ rebinds' = [rebinds EXCEPT ![r] = rebinds[r] + 1]
            /\ win' = [win EXCEPT ![r] = 0] /\ task' = [task EXCEPT ![r] = u]
            /\ tried' = [tried EXCEPT ![r] = tried[r] \cup {task[r]}]
        BY <3>5 DEF TokenRebind
      <4>3. QED BY <4>1, <4>2, <3>1, <2>3
    <3>6. QED BY <3>2, <3>3, <3>4, <3>5, <2>1
  <2>6. th' \in [Threads -> Locals] /\ \A s \in Threads : LocalsOK(s)'
    <3>1. CASE th' = th
      BY <3>1, <2>2, <1>0 DEF TypeOK, LocalsOK, dataplane
    <3>2. CASE TokenStop(b, r, n)
      <4> DEFINE l == [Idle EXCEPT !.pc = "finTest", !.req = r]
      <4>1. l \in Locals /\ th' = [th EXCEPT ![b] = l]
        BY <3>2 DEF TokenStop, Idle, Locals, Labels
      <4>2. LocalsOK(b)'
        <5>1. th'[b] = l
          BY <4>1, <1>0, <1>a DEF TypeOK
        <5>2. QED BY <5>1, <2>2, <2>3 DEF LocalsOK, Idle, dataplane
      <4>3. QED BY <4>1, <4>2, <2>2, <1>a, OneThreadMoves DEF dataplane
    <3>3. ASSUME NEW u \in Tasks, TokenRebind(b, r, n, u)
          PROVE  th' \in [Threads -> Locals] /\ \A s \in Threads : LocalsOK(s)'
      <4> DEFINE l == [Idle EXCEPT !.pc = "bind", !.req = r, !.task = u, !.old = back[r],
                                   !.oldTask = task[r], !.then = "relOld"]
      <4>1. l \in Locals /\ th' = [th EXCEPT ![b] = l]
        BY <3>3, <2>3 DEF TokenRebind, Idle, Locals, Labels
      <4>2. LocalsOK(b)'
        <5>1. th'[b] = l
          BY <4>1, <1>0, <1>a DEF TypeOK
        <5>2. QED BY <5>1, <2>2, <2>3 DEF LocalsOK, Idle, dataplane
      <4>3. QED BY <4>1, <4>2, <2>2, <1>a, OneThreadMoves DEF dataplane
    <3>4. QED BY <3>1, <3>2, <3>3, <2>1 DEF TokenKept, TokenAlarmStay
  <2>7. TypeOK'
    BY <2>2, <2>3, <2>5, <2>6, <1>0 DEF TypeOK, pools, lines, ending, dataplane
  <2>8. RequestsOK'
    BY <2>2, <2>5, <1>0 DEF RequestsOK, lines, dataplane
  <2>9. QED BY <2>6, <2>7, <2>8 DEF TypeInv
<1>9. ASSUME NEW t \in Conns, FinishTest(t) \/ FinishMark(t) \/ FinishSend(t) PROVE TypeInv'
  <2> DEFINE r == th[t].req
  <2>1. /\ th[t].pc \in {"finTest", "finMark", "finSend"} /\ th[t] \in Locals
        /\ r \in Reqs /\ front[r] \in Fronts /\ bound[r] # {} /\ task[r] \in Tasks
    BY <1>9, <1>0, <1>a DEF FinishTest, FinishMark, FinishSend, LocalsOK, RequestsOK
  <2>2. UNCHANGED <<pools, lines, records, front, back, task, progress, failed, dataplane>>
    BY <1>9 DEF FinishTest, FinishMark, FinishSend, ending
  <2>3. finished' \in [Reqs -> BOOLEAN] /\ done' \in [Reqs -> BOOLEAN]
    <3>1. finished \in [Reqs -> BOOLEAN] /\ done \in [Reqs -> BOOLEAN]
      BY <1>0 DEF TypeOK
    <3>2. QED BY <3>1, <1>9 DEF FinishTest, FinishMark, FinishSend, ending
  <2>4. seen' \in [Tasks -> 0..CalibrateN]
    <3>1. seen \in [Tasks -> 0..CalibrateN]
      BY <1>0 DEF TypeOK
    <3>2. seen[task[r]] \in 0..CalibrateN
      BY <3>1, <2>1
    <3>3. Capped(seen[task[r]] + 1, CalibrateN) \in 0..CalibrateN
      BY <3>2 DEF Capped
    <3>4. seen' = seen \/ seen' = [seen EXCEPT ![task[r]] = Capped(seen[task[r]] + 1, CalibrateN)]
      BY <1>9 DEF FinishTest, FinishMark, FinishSend, ending
    <3>5. QED BY <3>1, <3>3, <3>4
  <2>5. PICK l \in Locals : /\ th' = [th EXCEPT ![t] = l]
                            /\ \/ l = Idle
                               \/ /\ l.pc \in {"finMark", "finSend", "relBack"}
                                  /\ l = [th[t] EXCEPT !.pc = l.pc]
    <3>1. Idle \in Locals
      BY DEF Idle, Locals, Labels
    <3>2. \A p \in Labels : /\ [th[t] EXCEPT !.pc = p] \in Locals
                             /\ [th[t] EXCEPT !.pc = p].pc = p
      BY <2>1 DEF Locals
    <3>3. \E p \in {"finMark", "finSend", "relBack"} :
             th' = [th EXCEPT ![t] = Idle] \/ th' = [th EXCEPT ![t] = [th[t] EXCEPT !.pc = p]]
      BY <1>9 DEF FinishTest, FinishMark, FinishSend
    <3>4. QED BY <3>1, <3>2, <3>3 DEF Labels
  <2>6. LocalsOK(t)'
    <3>1. th'[t] = l /\ LocalsOK(t)
      BY <2>5, <1>0, <1>a DEF TypeOK
    <3>2. CASE l = Idle
      BY <3>1, <3>2 DEF LocalsOK, Idle
    <3>3. CASE l # Idle
      <4>1. /\ l.pc \in {"finMark", "finSend", "relBack"}
            /\ l.req = r /\ l.then = th[t].then /\ l.old = th[t].old
            /\ l.oldTask = th[t].oldTask
        BY <3>3, <2>1, <2>5 DEF Locals
      <4>2. QED BY <3>1, <4>1, <2>1, <2>2 DEF LocalsOK, dataplane
    <3>4. QED BY <3>2, <3>3
  <2>7. th' \in [Threads -> Locals] /\ \A s \in Threads : LocalsOK(s)'
    BY <2>2, <2>5, <2>6, <1>a, OneThreadMoves DEF dataplane
  <2>8. TypeOK' /\ RequestsOK'
    BY <2>2, <2>3, <2>4, <2>7, <1>0 DEF TypeOK, RequestsOK, pools, lines, progress, dataplane
  <2>9. QED BY <2>7, <2>8 DEF TypeInv
<1>10. ASSUME NEW t \in Conns, ReleaseBack(t) \/ ReleaseOld(t) PROVE TypeInv'
  <2>1. PICK u \in Tasks, b \in Backs, after \in {"idle", "relFront"} :
          /\ ReturnBack(t, u, b, after)
          /\ after = "relFront" => th[t].req \in Reqs /\ front[th[t].req] \in Fronts
    <3>1. CASE ReleaseBack(t)
      <4>1. /\ th[t].req \in Reqs /\ front[th[t].req] \in Fronts
            /\ task[th[t].req] \in Tasks /\ back[th[t].req] \in Backs
        BY <3>1, <1>0, <1>a DEF ReleaseBack, LocalsOK, RequestsOK
      <4>2. QED BY <3>1, <4>1 DEF ReleaseBack
    <3>2. CASE ReleaseOld(t)
      <4>1. th[t].oldTask \in Tasks /\ th[t].old \in Backs
        BY <3>2, <1>0, <1>a DEF ReleaseOld, LocalsOK
      <4>2. QED BY <3>2, <4>1 DEF ReleaseOld
    <3>3. QED BY <3>1, <3>2, <1>10
  <2>2. UNCHANGED <<free_fronts, arrivals, records, front, back, task, progress, ending, dataplane>>
    BY <1>10 DEF ReleaseBack, ReleaseOld
  <2>3. th[t] \in Locals /\ th[t].req \in Reqs \cup {None}
    BY <1>0, <1>a DEF Locals
  <2>4. CASE await_back[u] # <<>>
    <3> DEFINE q == Head(await_back[u])
               l == [Idle EXCEPT !.pc = "attach", !.req = th[t].req, !.nxt = q,
                                 !.seg = b, !.task = u, !.then = after]
    <3>1. /\ q \in Reqs /\ Tail(await_back[u]) \in Seq(Reqs) /\ front[q] \in Fronts
          /\ ToSet(Tail(await_back[u])) \subseteq ToSet(await_back[u])
      BY <2>4, <1>0, TailOfQueue DEF TypeOK, RequestsOK
    <3>2. /\ await_back' = [await_back EXCEPT ![u] = Tail(await_back[u])]
          /\ UNCHANGED free_backs
          /\ th' = [th EXCEPT ![t] = l]
      BY <2>1, <2>4 DEF ReturnBack
    <3>3. l \in Locals
      BY <2>3, <3>1 DEF Locals, Labels, Idle
    <3>4. LocalsOK(t)'
      <4>1. th'[t] = l
        BY <3>2, <1>0, <1>a DEF TypeOK
      <4>2. QED BY <4>1, <3>1, <2>1, <2>2 DEF LocalsOK, Idle
    <3>5. th' \in [Threads -> Locals] /\ \A s \in Threads : LocalsOK(s)'
      BY <3>2, <3>3, <3>4, <2>2, <1>a, OneThreadMoves DEF dataplane
    <3>6. TypeOK'
      BY <3>1, <3>2, <3>5, <2>2, <1>0 DEF TypeOK, progress, ending, dataplane
    <3>7. RequestsOK'
      BY <3>1, <3>2, <2>2, <1>0 DEF TypeOK, RequestsOK, dataplane
    <3>8. QED BY <3>5, <3>6, <3>7 DEF TypeInv
  <2>5. CASE await_back[u] = <<>>
    <3> DEFINE l == IF after = "idle" THEN Idle
                    ELSE [Idle EXCEPT !.pc = after, !.req = th[t].req]
    <3>1. /\ free_backs' = [free_backs EXCEPT ![u] = Append(free_backs[u], b)]
          /\ UNCHANGED await_back
          /\ th' = [th EXCEPT ![t] = l]
      BY <2>1, <2>5 DEF ReturnBack
    <3>2. Append(free_backs[u], b) \in Seq(Backs)
      BY <1>0, AppendToQueue DEF TypeOK
    <3>3. l \in Locals
      BY <2>3 DEF Locals, Labels, Idle
    <3>4. LocalsOK(t)'
      <4>1. th'[t] = l
        BY <3>1, <1>0, <1>a DEF TypeOK
      <4>2. QED BY <4>1, <2>1, <2>2 DEF LocalsOK, Idle
    <3>5. th' \in [Threads -> Locals] /\ \A s \in Threads : LocalsOK(s)'
      BY <3>1, <3>3, <3>4, <2>2, <1>a, OneThreadMoves DEF dataplane
    <3>6. TypeOK' /\ RequestsOK'
      BY <3>1, <3>2, <3>5, <2>2, <1>0 DEF TypeOK, RequestsOK, progress, ending, dataplane
    <3>7. QED BY <3>5, <3>6 DEF TypeInv
  <2>6. QED BY <2>4, <2>5
<1>11. ASSUME NEW t \in Conns, ReleaseFront(t) PROVE TypeInv'
  <2> DEFINE f == front[th[t].req]
  <2>1. th[t].req \in Reqs /\ f \in Fronts
    BY <1>11, <1>0, <1>a DEF ReleaseFront, LocalsOK
  <2>2. UNCHANGED <<free_backs, await_back, records, back, task, progress, ending, dataplane>>
    BY <1>11 DEF ReleaseFront
  <2>3. CASE arrivals # <<>>
    <3> DEFINE q == Head(arrivals)
               l == [Idle EXCEPT !.pc = "start", !.nxt = q]
    <3>1. q \in Reqs /\ Tail(arrivals) \in Seq(Reqs)
      BY <2>3, <1>0, TailOfQueue DEF TypeOK
    <3>2. /\ arrivals' = Tail(arrivals) /\ front' = [front EXCEPT ![q] = f]
          /\ UNCHANGED free_fronts /\ th' = [th EXCEPT ![t] = l]
      BY <1>11, <2>3 DEF ReleaseFront
    <3>3. l \in Locals
      BY <3>1 DEF Locals, Labels, Idle
    <3>4. LocalsOK(t)'
      <4>1. th'[t] = l
        BY <3>2, <1>0, <1>a DEF TypeOK
      <4>2. QED BY <4>1, <3>1 DEF LocalsOK, Idle
    <3>5. front' \in [Reqs -> Fronts \cup {None}]
          /\ \A p \in Reqs : front[p] \in Fronts => front'[p] \in Fronts
      BY <3>1, <3>2, <2>1, <1>0 DEF TypeOK
    <3>6. th' \in [Threads -> Locals] /\ \A s \in Threads : LocalsOK(s)'
      BY <3>2, <3>3, <3>4, <3>5, <2>2, <1>a, OneThreadMoves DEF dataplane
    <3>7. TypeOK' /\ RequestsOK'
      BY <3>1, <3>2, <3>5, <3>6, <2>2, <1>0 DEF TypeOK, RequestsOK, progress, ending, dataplane
    <3>8. QED BY <3>6, <3>7 DEF TypeInv
  <2>4. CASE arrivals = <<>>
    <3>1. /\ free_fronts' = Append(free_fronts, f) /\ th' = [th EXCEPT ![t] = Idle]
          /\ UNCHANGED <<arrivals, front>>
      BY <1>11, <2>4 DEF ReleaseFront
    <3>2. Append(free_fronts, f) \in Seq(Fronts) /\ Idle \in Locals
      BY <2>1, <1>0, AppendToQueue DEF TypeOK, Idle, Locals, Labels
    <3>3. LocalsOK(t)'
      BY <3>1, <1>0, <1>a DEF TypeOK, LocalsOK, Idle
    <3>4. th' \in [Threads -> Locals] /\ \A s \in Threads : LocalsOK(s)'
      BY <3>1, <3>2, <3>3, <2>2, <1>a, OneThreadMoves DEF dataplane
    <3>5. TypeOK' /\ RequestsOK'
      BY <3>1, <3>2, <3>4, <2>2, <1>0 DEF TypeOK, RequestsOK, progress, ending, dataplane
    <3>6. QED BY <3>4, <3>5 DEF TypeInv
  <2>5. QED BY <2>3, <2>4
<1>12. ASSUME NEW t \in Conns, StartFront(t) PROVE TypeInv'
  <2>1. PICK q \in Reqs : q = th[t].nxt
    BY <1>12, <1>0, <1>a DEF StartFront, LocalsOK
  <2>2. prefills' \in [Reqs -> Nat]
    <3>1. prefills' = [prefills EXCEPT ![q] = prefills[q] + 1]
      BY <2>1, <1>12 DEF StartFront
    <3>2. prefills \in [Reqs -> Nat]
      BY <1>0 DEF TypeOK
    <3>3. QED BY <3>1, <3>2
  <2>3. Idle \in Locals /\ th' = [th EXCEPT ![t] = Idle]
    BY <1>12 DEF StartFront, Locals, Labels, Idle
  <2>4. UNCHANGED <<pools, lines, records, front, back, task, progress, ending, bound>>
    BY <1>12 DEF StartFront
  <2>5. LocalsOK(t)'
    BY <2>3, <1>0, <1>a DEF TypeOK, LocalsOK, Idle
  <2>6. th' \in [Threads -> Locals] /\ \A s \in Threads : LocalsOK(s)'
    BY <2>3, <2>4, <2>5, <1>a, OneThreadMoves
  <2>7. TypeOK' /\ RequestsOK'
    BY <2>2, <2>4, <2>6, <1>0 DEF TypeOK, RequestsOK, pools, lines, progress, ending
  <2>8. QED BY <2>6, <2>7 DEF TypeInv
<1>13. CASE UNCHANGED vars
  BY <1>13 DEF vars, pools, lines, progress, ending, dataplane, TypeInv, TypeOK,
               RequestsOK, LocalsOK
<1>14. QED
  BY <1>1, <1>2, <1>3, <1>4, <1>5, <1>6, <1>7, <1>8, <1>9, <1>10, <1>11, <1>12, <1>13
     DEF Next, CallerStep, Classified, HandlerStep

(* The pools start as the planner built them and nobody runs.              *)
LEMMA TypeInvInit == Init => TypeInv
<1> SUFFICES ASSUME Init PROVE TypeInv
  OBVIOUS
<1> USE NamesAssumption, FrontsAssumption, BacksAssumption, BoundsAssumption
<1>1. Idle \in Locals /\ <<>> \in Seq(Reqs) /\ ToSet(<<>>) = {}
  BY EmptySeq DEF Idle, Locals, Labels, ToSet
<1>2. TypeOK
  BY <1>1 DEF Init, TypeOK, MaxRebinds
<1>3. RequestsOK
  BY <1>1 DEF Init, RequestsOK
<1>4. ASSUME NEW t \in Threads PROVE LocalsOK(t)
  <2>1. th[t] = Idle
    BY DEF Init
  <2>2. QED BY <2>1 DEF LocalsOK, Idle
<1>5. QED BY <1>2, <1>3, <1>4 DEF TypeInv

(* In every schedule, timely or not, the coordinator's state is well typed *)
(* and every handler finds the request, the task and the segments it works *)
(* on: no report makes it look up "" in its tables.                        *)
THEOREM TypeCorrect == Spec => [](TypeOK /\ \A t \in Threads : LocalsOK(t))
<1>1. Init => TypeInv
  BY TypeInvInit
<1>2. TypeInv /\ [Next]_vars => TypeInv'
  BY TypeInvStep
<1>3. TypeInv => TypeOK /\ \A t \in Threads : LocalsOK(t)
  BY DEF TypeInv
<1>4. QED BY <1>1, <1>2, <1>3, PTL DEF Spec

-----------------------------------------------------------------------------
(* Queues and pools *)

(* What one step does to a pool and the line for it, as seen by the        *)
(* section of the lock that changes them.                                  *)
LEMMA NoIdleStep ==
    TypeInv /\ NoIdleWhileWaiting /\ [Next]_vars => NoIdleWhileWaiting'
<1> SUFFICES ASSUME TypeInv, NoIdleWhileWaiting, [Next]_vars PROVE NoIdleWhileWaiting'
  OBVIOUS
<1>0. TypeOK /\ \A t \in Conns : LocalsOK(t)
  BY DEF TypeInv, Threads
<1>1. ASSUME NEW r \in Reqs, SubmitLocked(r) PROVE NoIdleWhileWaiting'
  <2>1. CASE free_fronts # <<>>
    BY <1>1, <2>1 DEF SubmitLocked, TakeFreeFront, NoIdleWhileWaiting
  <2>2. CASE free_fronts = <<>>
    BY <1>1, <2>2 DEF SubmitLocked, TakeFreeFront, NoIdleWhileWaiting
  <2>3. QED BY <2>1, <2>2
<1>2. ASSUME NEW t \in Conns, BindPop(t) PROVE NoIdleWhileWaiting'
  <2>1. \A u \in Tasks : free_backs'[u] = free_backs[u] \/ free_backs[u] # <<>>
    BY <1>2, <1>0 DEF BindPop, TypeOK
  <2>2. QED BY <1>2, <2>1 DEF BindPop, NoIdleWhileWaiting, lines
<1>3. ASSUME NEW t \in Conns, BindQueue(t) PROVE NoIdleWhileWaiting'
  <2>1. \A u \in Tasks : await_back'[u] = await_back[u] \/ free_backs[u] = <<>>
    BY <1>3, <1>0 DEF BindQueue, TypeOK
  <2>2. QED BY <1>3, <2>1 DEF BindQueue, NoIdleWhileWaiting, pools
<1>4. ASSUME NEW t \in Conns, ReleaseBack(t) \/ ReleaseOld(t) PROVE NoIdleWhileWaiting'
  <2>1. PICK u, b, after : ReturnBack(t, u, b, after)
    BY <1>4 DEF ReleaseBack, ReleaseOld
  <2>2. UNCHANGED <<free_fronts, arrivals>>
    BY <1>4 DEF ReleaseBack, ReleaseOld
  <2>3. CASE await_back[u] # <<>>
    <3>1. UNCHANGED free_backs /\ await_back' = [await_back EXCEPT ![u] = Tail(await_back[u])]
      BY <2>1, <2>3 DEF ReturnBack
    <3>2. \A v \in Tasks : await_back'[v] = await_back[v] \/ await_back[v] # <<>>
      BY <2>3, <3>1, <1>0 DEF TypeOK
    <3>3. QED BY <3>1, <3>2, <2>2 DEF NoIdleWhileWaiting
  <2>4. CASE await_back[u] = <<>>
    <3>1. UNCHANGED await_back /\ free_backs' = [free_backs EXCEPT ![u] = Append(free_backs[u], b)]
      BY <2>1, <2>4 DEF ReturnBack
    <3>2. \A v \in Tasks : free_backs'[v] = free_backs[v] \/ await_back[v] = <<>>
      BY <2>4, <3>1, <1>0 DEF TypeOK
    <3>3. QED BY <3>1, <3>2, <2>2 DEF NoIdleWhileWaiting
  <2>5. QED BY <2>3, <2>4
<1>5. ASSUME NEW t \in Conns, ReleaseFront(t) PROVE NoIdleWhileWaiting'
  BY <1>5 DEF ReleaseFront, NoIdleWhileWaiting
<1>6. CASE UNCHANGED <<pools, lines>>
  BY <1>6 DEF NoIdleWhileWaiting, pools, lines
<1>7. QED
  <2>1. ASSUME NEW f \in Fronts, NEW r \in Reqs, Classified(f, r) PROVE NoIdleWhileWaiting'
    BY <2>1, <1>6 DEF Classified, OnClassified
  <2>2. ASSUME NEW b \in Backs, NEW r \in Reqs, Token(b, r) PROVE NoIdleWhileWaiting'
    BY <2>2, <1>6 DEF Token, TokenKept, TokenStop, TokenAlarmStay, TokenRebind
  <2>3. ASSUME NEW t \in Conns, HandlerStep(t) PROVE NoIdleWhileWaiting'
    BY <2>3, <1>2, <1>3, <1>4, <1>5, <1>6
       DEF HandlerStep, BindFail, AttachBack, FinishTest, FinishMark, FinishSend, StartFront
  <2>4. CASE CallerStep
    BY <2>4, <1>1, <1>6 DEF CallerStep, SubmitReturn
  <2>5. CASE UNCHANGED vars
    BY <2>5, <1>6 DEF vars
  <2>6. QED BY <2>1, <2>2, <2>3, <2>4, <2>5 DEF Next

(* Whatever the schedule - races included - no request is left waiting in  *)
(* a line while a segment of the pool it waits for is free.                *)
THEOREM NobodyWaitsForWhatIsFree == Spec => []NoIdleWhileWaiting
<1>1. Init => TypeInv /\ NoIdleWhileWaiting
  <2>1. Init => NoIdleWhileWaiting
    BY DEF Init, NoIdleWhileWaiting
  <2>2. QED BY <2>1, TypeInvInit
<1>2. TypeInv /\ NoIdleWhileWaiting /\ [Next]_vars => (TypeInv /\ NoIdleWhileWaiting)'
  BY TypeInvStep, NoIdleStep
<1>3. QED BY <1>1, <1>2, PTL DEF Spec

-----------------------------------------------------------------------------
(* Front segments *)

(* A thread with these locals is on its way to _release_front.             *)
Ending(l) == l.pc \in {"finSend", "relBack", "relFront"} \/ l.then = "relFront"

(* A request that counts as the holder of its front segment.               *)
Live(r) ==
    \/ ~finished[r]
    \/ failed[r]
    \/ \E t \in Conns : th[t].req = r /\ Ending(th[t])

(* A thread that ends a request is the one that marked it finished.        *)
EndingOK(t) ==
    /\ th[t].then = "relFront" => th[t].pc \in {"attach", "relFront"}
    /\ th[t].pc = "finMark" => ~finished[th[t].req]
    /\ Ending(th[t]) => finished[th[t].req] /\ ~failed[th[t].req]

(* An arrival has nothing yet.                                             *)
ArrivalsOK ==
    /\ IsInjective(arrivals)
    /\ \A r \in ToSet(arrivals) : front[r] = None /\ ~finished[r] /\ r \in records
    /\ \A r \in Reqs \ records : front[r] = None /\ ~finished[r]
    /\ \A r \in Reqs : failed[r] => finished[r]

FrontInv ==
    FrontsExclusive /\ NoFrontLost /\ ArrivalsOK /\ \A t \in Conns : EndingOK(t)

-----------------------------------------------------------------------------
(* What a step may do to the holders of front segments: nothing, or give a *)
(* free one to a request, hand one over from a request that is finished to *)
(* one that is not, or take one back from a finished request.              *)
FrontStay == \A r \in Reqs, f \in Fronts : FrontHeld(r, f)' <=> FrontHeld(r, f)

FrontTaken(r, f) ==
    /\ ~finished[r]
    /\ \A q \in Reqs : ~FrontHeld(q, f)
    /\ \A q \in Reqs, g \in Fronts : FrontHeld(q, g)' <=> FrontHeld(q, g) \/ (q = r /\ g = f)

FrontPassed(r, q, f) ==
    /\ FrontHeld(r, f) /\ finished[r] /\ ~finished[q]
    /\ \A p \in Reqs, g \in Fronts :
          FrontHeld(p, g)' <=> (p # r /\ FrontHeld(p, g)) \/ (p = q /\ g = f)

FrontReturned(r, f) ==
    /\ FrontHeld(r, f) /\ finished[r]
    /\ \A p \in Reqs, g \in Fronts : FrontHeld(p, g)' <=> p # r /\ FrontHeld(p, g)

FrontMoves ==
    \/ FrontStay
    \/ /\ <<free_fronts, front>>' # <<free_fronts, front>>
       /\ \E r \in Reqs, f \in Fronts :
             \/ FrontTaken(r, f) \/ FrontReturned(r, f)
             \/ \E q \in Reqs : FrontPassed(r, q, f)

-----------------------------------------------------------------------------
(* A request that holds a front segment has been given one and is not past *)
(* the section of _release_front.                                          *)
LEMMA HeldIsLive ==
    ASSUME NEW r \in Reqs, NEW f \in Fronts
    PROVE  FrontHeld(r, f) <=> front[r] = f /\ Live(r)
BY DEF FrontHeld, Live, Ending

(* As long as no front segment changes hands and nobody starts or stops    *)
(* being a holder, the segments stay where they are.                       *)
LEMMA HoldersStay ==
    ASSUME FrontInv, UNCHANGED <<free_fronts, front>>,
           \A r \in Reqs : Live(r)' <=> Live(r)
    PROVE  FrontsExclusive' /\ NoFrontLost' /\ FrontMoves
<1>1. \A r \in Reqs, f \in Fronts : FrontHeld(r, f)' <=> FrontHeld(r, f)
  <2>1. \A r \in Reqs, f \in Fronts : FrontHeld(r, f)' <=> front'[r] = f /\ Live(r)'
    BY DEF FrontHeld, Live, Ending
  <2>2. QED BY <2>1, HeldIsLive
<1>2. FrontStay
  BY <1>1 DEF FrontStay
<1>3. QED BY <1>1, <1>2 DEF FrontInv, FrontsExclusive, NoFrontLost, FrontMoves

(* A step of one thread that is neither the arrival of a request, nor the  *)
(* end of one, nor the return of a front segment.                          *)
LEMMA QuietStep ==
    ASSUME TypeInv, FrontInv,
           NEW t \in Conns, NEW l, th' = [th EXCEPT ![t] = l],
           UNCHANGED <<free_fronts, arrivals, records, front, finished, failed>>,
           Ending(l) <=> Ending(th[t]),
           Ending(l) => l.req = th[t].req,
           l.then = "relFront" => l.pc \in {"attach", "relFront"},
           l.pc = "finMark" => ~finished[l.req]
    PROVE  FrontInv' /\ FrontMoves
<1>1. th'[t] = l /\ \A s \in Conns : s # t => th'[s] = th[s]
  BY DEF TypeInv, TypeOK, Threads
<1>2. \A r \in Reqs : Live(r)' <=> Live(r)
  <2>1. \A r \in Reqs, s \in Conns : th'[s].req = r /\ Ending(th'[s]) <=> th[s].req = r /\ Ending(th[s])
    BY <1>1
  <2>2. \A s \in Conns : Ending(th[s])' <=> Ending(th'[s])
    BY DEF Ending
  <2>3. QED BY <2>1, <2>2 DEF Live
<1>3. ASSUME NEW s \in Conns PROVE EndingOK(s)'
  <2>1. EndingOK(s) /\ EndingOK(t)
    BY DEF FrontInv
  <2>2. CASE s # t
    BY <2>1, <2>2, <1>1 DEF EndingOK, Ending
  <2>3. CASE s = t
    BY <2>1, <2>3, <1>1 DEF EndingOK, Ending
  <2>4. QED BY <2>2, <2>3
<1>4. ArrivalsOK'
  BY DEF FrontInv, ArrivalsOK
<1>5. QED BY <1>2, <1>3, <1>4, HoldersStay DEF FrontInv

(* A step that moves no connection thread and no front segment.            *)
LEMMA AloofStep ==
    ASSUME FrontInv, \A s \in Conns : th'[s] = th[s],
           UNCHANGED <<free_fronts, arrivals, records, front, finished, failed>>
    PROVE  FrontInv' /\ FrontMoves
<1>1. \A r \in Reqs : Live(r)' <=> Live(r)
  BY DEF Live, Ending
<1>2. ArrivalsOK' /\ \A s \in Conns : EndingOK(s)'
  BY DEF FrontInv, ArrivalsOK, EndingOK, Ending
<1>3. QED BY <1>1, <1>2, HoldersStay DEF FrontInv

(* No step of a timely schedule shares a front segment, loses one, or puts *)
(* a request into the arrivals twice.                                      *)
LEMMA FrontInvStep ==
    TypeInv /\ FrontInv /\ OneHandlerPerRequest /\ [Next]_vars => FrontInv' /\ FrontMoves
<1> SUFFICES ASSUME TypeInv, FrontInv, OneHandlerPerRequest, [Next]_vars PROVE FrontInv' /\ FrontMoves
  OBVIOUS
<1> USE NamesAssumption
<1>0. /\ \A t \in Conns : th[t] \in Locals /\ LocalsOK(t) /\ EndingOK(t)
      /\ th \in [Threads -> Locals]
      /\ free_fronts \in Seq(Fronts) /\ arrivals \in Seq(Reqs)
      /\ front \in [Reqs -> Fronts \cup {None}]
      /\ finished \in [Reqs -> BOOLEAN] /\ failed \in [Reqs -> BOOLEAN]
      /\ FrontsExclusive /\ NoFrontLost /\ ArrivalsOK
  BY DEF TypeInv, TypeOK, FrontInv, Threads
<1>1. ASSUME NEW r \in Reqs, SubmitLocked(r) PROVE FrontInv' /\ FrontMoves
  <2>1. r \notin records /\ records' = records \cup {r} /\ front[r] = None /\ ~finished[r]
        /\ r \notin ToSet(arrivals)
    BY <1>1, <1>0 DEF SubmitLocked, ArrivalsOK
  <2>2. UNCHANGED <<finished, failed>> /\ \A s \in Conns : th'[s] = th[s]
    BY <1>1, <1>0 DEF SubmitLocked, ending, Threads
  <2>3. \A q \in Reqs : Live(q)' <=> Live(q)
    BY <2>2 DEF Live, Ending
  <2>4. \A s \in Conns : EndingOK(s)'
    BY <2>2, <1>0 DEF EndingOK, Ending
  <2>5. CASE free_fronts = <<>>
    <3>1. UNCHANGED <<free_fronts, front>> /\ arrivals' = Append(arrivals, r)
      BY <1>1, <2>5 DEF SubmitLocked, TakeFreeFront
    <3>2. ToSet(arrivals') = ToSet(arrivals) \cup {r} /\ IsInjective(arrivals')
      BY <3>1, <2>1, <1>0, AppendToQueue DEF ArrivalsOK
    <3>3. ArrivalsOK'
      BY <3>1, <3>2, <2>1, <2>2, <1>0 DEF ArrivalsOK
    <3>4. QED BY <3>1, <3>3, <2>3, <2>4, HoldersStay DEF FrontInv
  <2>6. CASE free_fronts # <<>>
    <3> DEFINE f == Head(free_fronts)
    <3>1. /\ front' = [front EXCEPT ![r] = f] /\ free_fronts' = Tail(free_fronts)
          /\ UNCHANGED arrivals
      BY <1>1, <2>6 DEF SubmitLocked, TakeFreeFront
    <3>2. /\ f \in Fronts /\ f \in ToSet(free_fronts)
          /\ ToSet(free_fronts) = ToSet(free_fronts') \cup {f}
          /\ IsInjective(free_fronts') /\ f \notin ToSet(free_fronts')
      BY <3>1, <2>6, <1>0, TailOfQueue DEF FrontsExclusive
    <3>3. \A q \in Reqs, g \in Fronts :
             FrontHeld(q, g)' <=> (FrontHeld(q, g) \/ (q = r /\ g = f))
      <4>1. \A q \in Reqs, g \in Fronts : FrontHeld(q, g)' <=> front'[q] = g /\ Live(q)'
        BY DEF FrontHeld, Live, Ending
      <4>2. Live(r) /\ front[r] \notin Fronts
        BY <2>1 DEF Live, Conns
      <4>3. QED BY <4>1, <4>2, <3>1, <2>3, <1>0, HeldIsLive
    <3>4. \A q \in Reqs : ~FrontHeld(q, f)
      BY <3>2, <1>0 DEF FrontsExclusive
    <3>5. FrontsExclusive'
      BY <3>2, <3>3, <3>4, <1>0 DEF FrontsExclusive
    <3>6. NoFrontLost'
      BY <3>2, <3>3, <1>0 DEF NoFrontLost
    <3>7. ArrivalsOK'
      BY <3>1, <2>1, <2>2, <1>0 DEF ArrivalsOK
    <3>8. FrontTaken(r, f) /\ free_fronts' # free_fronts
      BY <3>2, <3>3, <3>4, <2>1 DEF FrontTaken
    <3>9. QED BY <3>2, <3>5, <3>6, <3>7, <3>8, <2>4 DEF FrontInv, FrontMoves
  <2>7. QED BY <2>5, <2>6
<1>2. ASSUME SubmitReturn PROVE FrontInv' /\ FrontMoves
  BY <1>2, <1>0, AloofStep DEF SubmitReturn, pools, lines, ending, Threads
<1>3. ASSUME NEW f \in Fronts, NEW r \in Reqs, NEW u \in Tasks, OnClassified(f, r, u)
      PROVE  FrontInv' /\ FrontMoves
  <2> DEFINE l == [Idle EXCEPT !.pc = "bind", !.req = r, !.task = u]
  <2>1. f \in Conns /\ ~Ending(l) /\ ~Ending(th[f]) /\ l.then = "idle" /\ l.pc = "bind"
    BY <1>3, <1>0 DEF OnClassified, Ending, EndingOK, Idle, Conns
  <2>2. th' = [th EXCEPT ![f] = l]
        /\ UNCHANGED <<free_fronts, arrivals, records, front, finished, failed>>
    BY <1>3 DEF OnClassified, pools, lines, ending
  <2>3. QED BY <2>1, <2>2, QuietStep
<1>4. ASSUME NEW t \in Conns, BindFail(t) PROVE FrontInv' /\ FrontMoves
  <2> DEFINE l == Goto(t, th[t].then)
  <2>1. PICK r \in Reqs :
          /\ r = th[t].req /\ th[t].pc = "bind" /\ front[r] \in Fronts
          /\ ~Ending(th[t]) /\ th[t].then \in {"idle", "relOld"}
    BY <1>4, <1>0 DEF BindFail, LocalsOK, EndingOK, Ending, Locals
  <2>2. ~Ending(l) /\ l.then # "relFront" /\ l.pc # "finMark" /\ th' = [th EXCEPT ![t] = l]
    BY <1>4, <2>1, GotoLocals DEF BindFail, Ending, Idle, Threads
  <2>3. UNCHANGED <<free_fronts, arrivals, records, front>>
    BY <1>4 DEF BindFail, pools, lines
  <2>4. CASE finished[r]
    <3>1. UNCHANGED <<finished, failed>>
      BY <1>4, <2>1, <2>4 DEF BindFail
    <3>2. QED BY <3>1, <2>1, <2>2, <2>3, QuietStep
  <2>5. CASE ~finished[r]
    <3>1. /\ finished' = [finished EXCEPT ![r] = TRUE] /\ failed' = [failed EXCEPT ![r] = TRUE]
      BY <1>4, <2>1, <2>5 DEF BindFail
    <3>2. th'[t] = l /\ \A s \in Conns : s # t => th'[s] = th[s]
      BY <2>2, <1>0 DEF Threads
    <3>3. ASSUME NEW s \in Conns PROVE EndingOK(s)' /\ (Ending(th[s])' <=> Ending(th[s]))
                                       /\ (Ending(th[s]) => th'[s].req = th[s].req)
      <4>1. CASE s = t
        BY <4>1, <3>2, <2>1, <2>2 DEF EndingOK, Ending
      <4>2. CASE s # t
        <5>1. EndingOK(s) /\ th'[s] = th[s]
          BY <4>2, <3>2, <1>0
        <5>2. Ending(th[s]) => th[s].req # r
          BY <5>1, <2>5 DEF EndingOK
        <5>3. th[s].pc = "finMark" => th[s].req # r
          BY <4>2, <2>1 DEF OneHandlerPerRequest, Handling
        <5>4. th[s].pc = "finMark" \/ Ending(th[s]) => th[s].req \in Reqs
          BY <1>0 DEF LocalsOK, Ending
        <5>5. QED BY <5>1, <5>2, <5>3, <5>4, <3>1, <1>0 DEF EndingOK, Ending
      <4>3. QED BY <4>1, <4>2
    <3>4. \A q \in Reqs : Live(q)' <=> Live(q)
      <4>1. ASSUME NEW q \in Reqs, q # r PROVE Live(q)' <=> Live(q)
        BY <4>1, <3>1, <3>2, <3>3, <2>1, <2>2, <1>0 DEF Live
      <4>2. Live(r)' /\ Live(r)
        BY <3>1, <2>1, <2>5, <1>0 DEF Live
      <4>3. QED BY <4>1, <4>2
    <3>5. ArrivalsOK'
      <4>1. r \in records /\ r \notin ToSet(arrivals)
        BY <2>1, <1>0 DEF ArrivalsOK, Conns
      <4>2. QED BY <4>1, <3>1, <2>1, <2>3, <1>0, ElementsOfQueue DEF ArrivalsOK
    <3>6. QED BY <3>3, <3>4, <3>5, <2>3, HoldersStay DEF FrontInv
  <2>6. QED BY <2>4, <2>5
<1>5. ASSUME NEW t \in Conns, BindPop(t) PROVE FrontInv' /\ FrontMoves
  <2> DEFINE l == [th[t] EXCEPT !.pc = "attach", !.nxt = th[t].req,
                                !.seg = Head(free_backs[th[t].task])]
  <2>1. th[t].pc = "bind" /\ ~Ending(th[t]) /\ th[t] \in Locals
    BY <1>5, <1>0 DEF BindPop, EndingOK, Ending
  <2>2. l.pc = "attach" /\ l.then = th[t].then /\ l.req = th[t].req /\ ~Ending(l)
    BY <2>1 DEF Locals, Ending
  <2>3. th' = [th EXCEPT ![t] = l]
        /\ UNCHANGED <<free_fronts, arrivals, records, front, finished, failed>>
    BY <1>5 DEF BindPop, lines, ending
  <2>4. QED BY <2>1, <2>2, <2>3, QuietStep DEF Ending
<1>6. ASSUME NEW t \in Conns, BindQueue(t) \/ AttachBack(t) PROVE FrontInv' /\ FrontMoves
  <2> DEFINE l == Goto(t, th[t].then)
  <2>1. th[t].pc \in {"bind", "attach"} /\ th[t].then \in {"idle", "relOld", "relFront"}
    BY <1>6, <1>0 DEF BindQueue, AttachBack, Locals
  <2>2. /\ Ending(l) <=> Ending(th[t])
        /\ Ending(l) => l.req = th[t].req
        /\ l.then = "relFront" => l.pc \in {"attach", "relFront"}
        /\ l.pc # "finMark"
    BY <2>1, GotoLocals DEF Ending, Idle, Threads
  <2>3. th' = [th EXCEPT ![t] = l]
        /\ UNCHANGED <<free_fronts, arrivals, records, front, finished, failed>>
    BY <1>6 DEF BindQueue, AttachBack, pools, lines, ending
  <2>4. QED BY <2>2, <2>3, QuietStep
<1>7. ASSUME NEW b \in Backs, NEW r \in Reqs, Token(b, r) PROVE FrontInv' /\ FrontMoves
  <2>1. b \in Conns /\ th[b].pc = "idle" /\ ~Ending(th[b])
        /\ UNCHANGED <<free_fronts, arrivals, records, front, finished, failed>>
    BY <1>7, <1>0 DEF Token, TokenKept, TokenStop, TokenAlarmStay, TokenRebind, TakeToken,
                      EndingOK, Ending, Conns, pools, lines, ending
  <2>2. \/ th' = th
        \/ \E l : /\ th' = [th EXCEPT ![b] = l]
                  /\ l.pc \in {"finTest", "bind"} /\ l.then \in {"idle", "relOld"}
    <3>1. ASSUME NEW n \in {0, 1}, TokenStop(b, r, n)
          PROVE  \E l : /\ th' = [th EXCEPT ![b] = l]
                        /\ l.pc \in {"finTest", "bind"} /\ l.then \in {"idle", "relOld"}
      <4> DEFINE l == [Idle EXCEPT !.pc = "finTest", !.req = r]
      <4>1. l.pc = "finTest" /\ l.then = "idle" /\ th' = [th EXCEPT ![b] = l]
        BY <3>1 DEF TokenStop, Idle
      <4>2. QED BY <4>1
    <3>2. ASSUME NEW n \in {0, 1}, NEW u \in Tasks, TokenRebind(b, r, n, u)
          PROVE  \E l : /\ th' = [th EXCEPT ![b] = l]
                        /\ l.pc \in {"finTest", "bind"} /\ l.then \in {"idle", "relOld"}
      <4> DEFINE l == [Idle EXCEPT !.pc = "bind", !.req = r, !.task = u, !.old = back[r],
                                   !.oldTask = task[r], !.then = "relOld"]
      <4>1. l.pc = "bind" /\ l.then = "relOld" /\ th' = [th EXCEPT ![b] = l]
        BY <3>2 DEF TokenRebind, Idle
      <4>2. QED BY <4>1
    <3>3. QED BY <3>1, <3>2, <1>7 DEF Token, TokenKept, TokenAlarmStay
  <2>3. CASE th' = th
    BY <2>1, <2>3, AloofStep
  <2>4. ASSUME NEW l, th' = [th EXCEPT ![b] = l],
               l.pc \in {"finTest", "bind"}, l.then \in {"idle", "relOld"}
        PROVE  FrontInv' /\ FrontMoves
    BY <2>1, <2>4, QuietStep DEF Ending
  <2>5. QED BY <2>2, <2>3, <2>4
<1>8. ASSUME NEW t \in Conns, FinishTest(t) \/ FinishSend(t) PROVE FrontInv' /\ FrontMoves
  <2>1. th[t] \in Locals /\ th[t].pc \in {"finTest", "finSend"} /\ th[t].then # "relFront"
    BY <1>8, <1>0 DEF FinishTest, FinishSend, EndingOK
  <2>2. UNCHANGED <<free_fronts, arrivals, records, front, finished, failed>>
    BY <1>8 DEF FinishTest, FinishSend, pools, lines, ending
  <2>3. CASE FinishTest(t) /\ finished[th[t].req]
    <3>1. th' = [th EXCEPT ![t] = Idle] /\ th[t].pc = "finTest"
      BY <2>3 DEF FinishTest
    <3>2. ~Ending(Idle) /\ ~Ending(th[t]) /\ Idle.then = "idle" /\ Idle.pc = "idle"
      BY <3>1, <2>1 DEF Ending, Idle
    <3>3. QED BY <3>1, <3>2, <2>2, QuietStep
  <2>4. CASE FinishTest(t) /\ ~finished[th[t].req]
    <3> DEFINE l == [th[t] EXCEPT !.pc = "finMark"]
    <3>1. th' = [th EXCEPT ![t] = l] /\ th[t].pc = "finTest"
      BY <2>4 DEF FinishTest
    <3>2. l.pc = "finMark" /\ l.then = th[t].then /\ l.req = th[t].req
      BY <2>1 DEF Locals
    <3>3. ~Ending(l) /\ ~Ending(th[t])
      BY <3>1, <3>2, <2>1 DEF Ending
    <3>4. QED BY <3>1, <3>2, <3>3, <2>1, <2>2, <2>4, QuietStep
  <2>5. CASE FinishSend(t)
    <3> DEFINE l == [th[t] EXCEPT !.pc = "relBack"]
    <3>1. th' = [th EXCEPT ![t] = l] /\ th[t].pc = "finSend"
      BY <2>5 DEF FinishSend
    <3>2. l.pc = "relBack" /\ l.then = th[t].then /\ l.req = th[t].req
      BY <2>1 DEF Locals
    <3>3. Ending(l) /\ Ending(th[t])
      BY <3>1, <3>2 DEF Ending
    <3>4. QED BY <3>1, <3>2, <3>3, <2>1, <2>2, QuietStep
  <2>6. QED BY <2>3, <2>4, <2>5, <1>8
<1>9. ASSUME NEW t \in Conns, FinishMark(t) PROVE FrontInv' /\ FrontMoves
  <2> DEFINE l == [th[t] EXCEPT !.pc = "finSend"]
  <2>1. PICK r \in Reqs :
          /\ r = th[t].req /\ th[t].pc = "finMark" /\ front[r] \in Fronts /\ ~finished[r]
          /\ ~failed[r] /\ th[t].then # "relFront" /\ th[t] \in Locals
    BY <1>9, <1>0 DEF FinishMark, LocalsOK, EndingOK, ArrivalsOK
  <2>2. l.pc = "finSend" /\ l.then = th[t].then /\ l.req = r
    BY <2>1 DEF Locals
  <2>3. /\ finished' = [finished EXCEPT ![r] = TRUE]
        /\ UNCHANGED <<free_fronts, arrivals, records, front, failed>>
        /\ th' = [th EXCEPT ![t] = l]
    BY <1>9, <2>1 DEF FinishMark, pools, lines
  <2>4. th'[t] = l /\ \A s \in Conns : s # t => th'[s] = th[s]
    BY <2>3, <1>0 DEF Threads
  <2>5. Ending(th'[t]) /\ ~Ending(th[t])
    BY <2>1, <2>2, <2>4 DEF Ending
  <2>6. ASSUME NEW s \in Conns PROVE EndingOK(s)'
    <3>1. CASE s = t
      <4>1. th'[s].pc = "finSend" /\ th'[s].then # "relFront" /\ th'[s].req = r
        BY <3>1, <2>1, <2>2, <2>4
      <4>2. finished'[r] /\ ~failed'[r]
        BY <2>1, <2>3, <1>0
      <4>3. QED BY <4>1, <4>2 DEF EndingOK, Ending
    <3>2. CASE s # t
      <4>1. EndingOK(s) /\ th'[s] = th[s]
        BY <3>2, <2>4, <1>0
      <4>2. th[s].pc = "finMark" => th[s].req # r
        BY <3>2, <2>1 DEF OneHandlerPerRequest, Handling
      <4>3. th[s].pc = "finMark" \/ Ending(th[s]) => th[s].req \in Reqs
        BY <1>0 DEF LocalsOK, Ending
      <4>4. QED BY <4>1, <4>2, <4>3, <2>3, <1>0 DEF EndingOK, Ending
    <3>3. QED BY <3>1, <3>2
  <2>7. \A q \in Reqs : Live(q)' <=> Live(q)
    <3>1. ASSUME NEW q \in Reqs, q # r PROVE Live(q)' <=> Live(q)
      <4>1. \A s \in Conns : th'[s].req = q /\ Ending(th'[s]) <=> th[s].req = q /\ Ending(th[s])
        BY <3>1, <2>1, <2>2, <2>4
      <4>2. \A s \in Conns : Ending(th[s])' <=> Ending(th'[s])
        BY DEF Ending
      <4>3. QED BY <4>1, <4>2, <3>1, <2>3, <1>0 DEF Live
    <3>2. Live(r)
      BY <2>1 DEF Live
    <3>3. Live(r)'
      <4>1. Ending(th[t])' /\ th'[t].req = r
        BY <2>2, <2>4 DEF Ending
      <4>2. QED BY <4>1 DEF Live
    <3>4. QED BY <3>1, <3>2, <3>3
  <2>8. ArrivalsOK'
    <3>1. r \in records /\ r \notin ToSet(arrivals)
      BY <2>1, <1>0 DEF ArrivalsOK, Conns
    <3>2. QED BY <3>1, <2>1, <2>3, <1>0, ElementsOfQueue DEF ArrivalsOK
  <2>9. QED BY <2>3, <2>6, <2>7, <2>8, HoldersStay DEF FrontInv
<1>10. ASSUME NEW t \in Conns, ReleaseBack(t) \/ ReleaseOld(t) PROVE FrontInv' /\ FrontMoves
  <2>1. PICK u, b, after :
          /\ ReturnBack(t, u, b, after) /\ after \in {"idle", "relFront"}
          /\ th[t].pc = IF after = "idle" THEN "relOld" ELSE "relBack"
    <3>1. CASE ReleaseBack(t)
      <4>1. ReturnBack(t, task[th[t].req], back[th[t].req], "relFront") /\ th[t].pc = "relBack"
        BY <3>1 DEF ReleaseBack
      <4>2. QED BY <4>1
    <3>2. CASE ReleaseOld(t)
      <4>1. ReturnBack(t, th[t].oldTask, th[t].old, "idle") /\ th[t].pc = "relOld"
        BY <3>2 DEF ReleaseOld
      <4>2. QED BY <4>1
    <3>3. QED BY <3>1, <3>2, <1>10
  <2>2. UNCHANGED <<free_fronts, arrivals, records, front, finished, failed>>
    BY <1>10 DEF ReleaseBack, ReleaseOld, ending
  <2>3. Ending(th[t]) <=> after = "relFront"
    BY <2>1, <1>0 DEF Ending, EndingOK
  <2>4. PICK l : /\ th' = [th EXCEPT ![t] = l]
                 /\ Ending(l) <=> after = "relFront"
                 /\ Ending(l) => l.req = th[t].req
                 /\ l.then = "relFront" => l.pc = "attach"
                 /\ l.pc # "finMark"
    <3>1. CASE await_back[u] # <<>>
      <4> DEFINE l == [Idle EXCEPT !.pc = "attach", !.req = th[t].req,
                                   !.nxt = Head(await_back[u]), !.seg = b,
                                   !.task = u, !.then = after]
      <4>1. th' = [th EXCEPT ![t] = l]
        BY <2>1, <3>1 DEF ReturnBack
      <4>2. l.pc = "attach" /\ l.then = after /\ l.req = th[t].req
        BY DEF Idle
      <4>3. QED BY <4>1, <4>2 DEF Ending
    <3>2. CASE await_back[u] = <<>> /\ after = "idle"
      <4>1. th' = [th EXCEPT ![t] = Idle]
        BY <2>1, <3>2 DEF ReturnBack
      <4>2. ~Ending(Idle) /\ Idle.then = "idle" /\ Idle.pc = "idle"
        BY DEF Ending, Idle
      <4>3. QED BY <4>1, <4>2, <3>2
    <3>3. CASE await_back[u] = <<>> /\ after = "relFront"
      <4> DEFINE l == [Idle EXCEPT !.pc = after, !.req = th[t].req]
      <4>1. th' = [th EXCEPT ![t] = l]
        BY <2>1, <3>3 DEF ReturnBack
      <4>2. l.pc = "relFront" /\ l.then = "idle" /\ l.req = th[t].req
        BY <3>3 DEF Idle
      <4>3. QED BY <4>1, <4>2, <3>3 DEF Ending
    <3>4. QED BY <3>1, <3>2, <3>3, <2>1
  <2>5. QED BY <2>2, <2>3, <2>4, QuietStep
<1>11. ASSUME NEW t \in Conns, ReleaseFront(t) PROVE FrontInv' /\ FrontMoves
  <2>1. PICK r \in Reqs, f \in Fronts :
          /\ r = th[t].req /\ f = front[r] /\ th[t].pc = "relFront"
          /\ finished[r] /\ ~failed[r] /\ Ending(th[t])
    BY <1>11, <1>0 DEF ReleaseFront, LocalsOK, EndingOK, Ending
  <2>2. UNCHANGED <<records, finished, failed>>
    BY <1>11 DEF ReleaseFront, ending
  <2>3. PICK l : /\ th' = [th EXCEPT ![t] = l] /\ ~Ending(l)
                 /\ l.then = "idle" /\ l.pc \in {"idle", "start"}
    <3>1. CASE arrivals # <<>>
      <4> DEFINE l == [Idle EXCEPT !.pc = "start", !.nxt = Head(arrivals)]
      <4>1. th' = [th EXCEPT ![t] = l]
        BY <1>11, <3>1 DEF ReleaseFront
      <4>2. l.pc = "start" /\ l.then = "idle"
        BY DEF Idle
      <4>3. QED BY <4>1, <4>2 DEF Ending
    <3>2. CASE arrivals = <<>>
      <4>1. th' = [th EXCEPT ![t] = Idle]
        BY <1>11, <3>2 DEF ReleaseFront
      <4>2. ~Ending(Idle) /\ Idle.then = "idle" /\ Idle.pc = "idle"
        BY DEF Ending, Idle
      <4>3. QED BY <4>1, <4>2
    <3>3. QED BY <3>1, <3>2
  <2>4. th'[t] = l /\ \A s \in Conns : s # t => th'[s] = th[s]
    BY <2>3, <1>0 DEF Threads
  <2>5. \A s \in Conns : EndingOK(s)'
    BY <2>2, <2>3, <2>4, <1>0 DEF EndingOK, Ending
  <2>6. \A s \in Conns : s # t => ~(th[s].req = r /\ Ending(th[s]))
    <3>1. \A s \in Conns : Ending(th[s]) => th[s].pc # "idle"
      BY <1>0 DEF Ending, EndingOK
    <3>2. QED BY <3>1, <2>1 DEF OneHandlerPerRequest, Handling
  <2>7. ~Live(r)' /\ \A q \in Reqs : q # r => (Live(q)' <=> Live(q))
    <3>1. \A s \in Conns : Ending(th[s])' <=> Ending(th'[s])
      BY DEF Ending
    <3>2. ~Live(r)'
      BY <3>1, <2>1, <2>2, <2>3, <2>4, <2>6 DEF Live
    <3>3. ASSUME NEW q \in Reqs, q # r PROVE Live(q)' <=> Live(q)
      <4>1. \A s \in Conns : th'[s].req = q /\ Ending(th'[s]) <=> th[s].req = q /\ Ending(th[s])
        BY <3>3, <2>1, <2>3, <2>4
      <4>2. QED BY <4>1, <3>1, <2>2 DEF Live
    <3>4. QED BY <3>2, <3>3
  <2>8. FrontHeld(r, f)
    BY <2>1, HeldIsLive DEF Live
  <2>9. \A q \in Reqs, g \in Fronts : FrontHeld(q, g)' <=> front'[q] = g /\ Live(q)'
    BY DEF FrontHeld, Live, Ending
  <2>10. CASE arrivals # <<>>
    <3>1. PICK q \in Reqs : q = Head(arrivals)
      BY <2>10, <1>0, TailOfQueue
    <3>2. /\ arrivals' = Tail(arrivals) /\ front' = [front EXCEPT ![q] = f]
          /\ UNCHANGED free_fronts
      BY <1>11, <2>1, <2>10, <3>1 DEF ReleaseFront
    <3>3. /\ q \in ToSet(arrivals) /\ ToSet(arrivals') \subseteq ToSet(arrivals)
          /\ q \notin ToSet(arrivals') /\ IsInjective(arrivals')
      BY <2>10, <3>1, <3>2, <1>0, TailOfQueue DEF ArrivalsOK
    <3>4. front[q] = None /\ ~finished[q] /\ q \in records /\ q # r
      BY <3>3, <2>1, <1>0 DEF ArrivalsOK
    <3>5. \A p \in Reqs, g \in Fronts :
             FrontHeld(p, g)' <=> (p # r /\ FrontHeld(p, g)) \/ (p = q /\ g = f)
      <4>1. Live(q) /\ front[q] \notin Fronts
        BY <3>4 DEF Live, Conns
      <4>2. QED BY <4>1, <3>2, <3>4, <2>7, <2>9, <1>0, HeldIsLive
    <3>6. FrontsExclusive'
      BY <3>2, <3>5, <2>8, <1>0 DEF FrontsExclusive
    <3>7. NoFrontLost'
      <4>1. \A g \in Fronts : FrontHeld(r, g) => g = f
        BY <2>1, HeldIsLive
      <4>2. QED BY <4>1, <3>2, <3>5, <1>0 DEF NoFrontLost
    <3>8. ArrivalsOK'
      <4>1. \A p \in ToSet(arrivals') : p # q /\ p \in Reqs
        BY <3>3, <1>0, ElementsOfQueue
      <4>2. QED BY <4>1, <3>2, <3>3, <3>4, <2>2, <1>0 DEF ArrivalsOK
    <3>9. FrontPassed(r, q, f) /\ front' # front
      <4>1. front'[q] = f /\ front[q] # f
        BY <3>2, <3>4, <1>0 DEF Conns
      <4>2. QED BY <4>1, <3>4, <3>5, <2>1, <2>8 DEF FrontPassed
    <3>10. QED BY <3>6, <3>7, <3>8, <3>9, <2>5 DEF FrontInv, FrontMoves
  <2>11. CASE arrivals = <<>>
    <3>1. free_fronts' = Append(free_fronts, f) /\ UNCHANGED <<arrivals, front>>
      BY <1>11, <2>1, <2>11 DEF ReleaseFront
    <3>2. f \notin ToSet(free_fronts)
      BY <2>8, <1>0 DEF FrontsExclusive
    <3>3. ToSet(free_fronts') = ToSet(free_fronts) \cup {f} /\ IsInjective(free_fronts')
      BY <3>1, <3>2, <1>0, AppendToQueue DEF FrontsExclusive
    <3>4. \A p \in Reqs, g \in Fronts : FrontHeld(p, g)' <=> p # r /\ FrontHeld(p, g)
      BY <3>1, <2>7, <2>9, HeldIsLive
    <3>5. FrontsExclusive'
      <4>1. \A p \in Reqs : FrontHeld(p, f) => p = r
        BY <2>8, <1>0 DEF FrontsExclusive
      <4>2. QED BY <4>1, <3>3, <3>4, <1>0 DEF FrontsExclusive
    <3>6. NoFrontLost'
      <4>1. \A g \in Fronts : FrontHeld(r, g) => g = f
        BY <2>1, HeldIsLive
      <4>2. QED BY <4>1, <3>3, <3>4, <1>0 DEF NoFrontLost
    <3>7. ArrivalsOK'
      BY <3>1, <2>2, <1>0 DEF ArrivalsOK
    <3>8. FrontReturned(r, f) /\ free_fronts' # free_fronts
      BY <3>2, <3>3, <3>4, <2>1, <2>8 DEF FrontReturned
    <3>9. QED BY <3>5, <3>6, <3>7, <3>8, <2>5 DEF FrontInv, FrontMoves
  <2>12. QED BY <2>10, <2>11
<1>12. ASSUME NEW t \in Conns, StartFront(t) PROVE FrontInv' /\ FrontMoves
  <2>1. ~Ending(th[t]) /\ ~Ending(Idle) /\ Idle.then = "idle" /\ Idle.pc = "idle"
    BY <1>12, <1>0 DEF StartFront, Ending, EndingOK, Idle
  <2>2. th' = [th EXCEPT ![t] = Idle]
        /\ UNCHANGED <<free_fronts, arrivals, records, front, finished, failed>>
    BY <1>12 DEF StartFront, pools, lines, ending
  <2>3. QED BY <2>1, <2>2, QuietStep
<1>13. CASE UNCHANGED vars
  BY <1>13, AloofStep DEF vars, pools, lines, ending
<1>14. QED
  BY <1>1, <1>2, <1>3, <1>4, <1>5, <1>6, <1>7, <1>8, <1>9, <1>10, <1>11, <1>12, <1>13
     DEF Next, CallerStep, Classified, HandlerStep

(* At the start every front segment is free and no request exists.         *)
LEMMA FrontInvInit == Init => FrontInv /\ OneHandlerPerRequest
<1> SUFFICES ASSUME Init PROVE FrontInv /\ OneHandlerPerRequest
  OBVIOUS
<1>1. /\ \A t \in Conns : th[t] = Idle
      /\ free_fronts = FrontQueue /\ arrivals = <<>> /\ records = {}
      /\ \A r \in Reqs : front[r] = None /\ ~finished[r] /\ ~failed[r]
  BY DEF Init, Threads
<1>2. \A t \in Conns : EndingOK(t)
  BY <1>1 DEF EndingOK, Ending, Idle
<1>3. ArrivalsOK
  BY <1>1 DEF ArrivalsOK, ToSet, IsInjective
<1>4. FrontsExclusive /\ NoFrontLost
  BY <1>1, FrontsAssumption, NamesAssumption
     DEF FrontsExclusive, NoFrontLost, FrontHeld, Conns, Fronts
<1>5. OneHandlerPerRequest
  BY <1>1 DEF OneHandlerPerRequest, Handling, Idle
<1>6. QED BY <1>2, <1>3, <1>4, <1>5 DEF FrontInv

(* In every timely schedule each front segment is in the free queue once,  *)
(* or with exactly one request: popleft, the hand-over of _release_front   *)
(* to an arrival and append neither share a segment nor lose one.          *)
THEOREM ExclusiveFronts == TimelySpec => [](FrontsExclusive /\ NoFrontLost)
<1> DEFINE Inv == TypeInv /\ FrontInv /\ OneHandlerPerRequest
<1>1. Init => Inv
  BY TypeInvInit, FrontInvInit
<1>2. Inv /\ [Next /\ TimelyStep]_vars => Inv'
  <2>1. ASSUME Inv, [Next /\ TimelyStep]_vars PROVE OneHandlerPerRequest'
    <3>1. CASE TimelyStep
      BY <3>1 DEF TimelyStep, Undisturbed
    <3>2. CASE UNCHANGED vars
      BY <2>1, <3>2 DEF vars, OneHandlerPerRequest, Handling
    <3>3. QED BY <2>1, <3>1, <3>2
  <2>2. QED BY <2>1, TypeInvStep, FrontInvStep
<1>3. Inv => FrontsExclusive /\ NoFrontLost
  BY DEF FrontInv
<1>4. QED BY <1>1, <1>2, <1>3, PTL DEF TimelySpec

=============================================================================
