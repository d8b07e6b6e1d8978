----------------------- MODULE CoordinatorBacks_proofs -----------------------
(***************************************************************************)
(* For any number of requests, segments and tasks: in a timely schedule a  *)
(* back segment is always in its pool or with exactly one request, also    *)
(* while a request moves from one pool to another, and those who wait have *)
(* nothing of what they wait for.  Hence the coordinator implements        *)
(* ChannelPool in every such schedule: every step takes, gives back or     *)
(* passes on one segment, ends one request, or changes nothing that the    *)
(* promise speaks of.                                                      *)
(***************************************************************************)
EXTENDS Coordinator_proofs, CoordinatorPromise, FiniteSetTheorems

-----------------------------------------------------------------------------
(* What the locals of a thread mean *)

(* The thread is about to hand r to the next stage of its way to a back    *)
(* segment.                                                                *)
Serving(l, k, r) ==
    \/ k = "start" /\ l.pc = "start" /\ l.nxt = r
    \/ k = "bind" /\ l.pc = "bind" /\ l.then = "idle" /\ l.req = r
    \/ k = "attach" /\ l.pc = "attach" /\ l.then # "relOld" /\ l.nxt = r

(* The thread carries b to or from r, or keeps it for r until _finish has  *)
(* returned it.                                                            *)
Carries(l, r, b) ==
    \/ l.pc = "attach" /\ l.nxt = r /\ l.seg = b
    \/ l.req = r /\ l.old = b

Closing(l, r) == l.req = r /\ l.pc \in {"finSend", "relBack"}

(* The thread of a rebind knows the old segment, which stays the request's *)
(* until the new one is attached, and the pool it came from.               *)
RebindOK(l) ==
    /\ l.old # None <=> l.then = "relOld"
    /\ l.pc = "relOld" => l.then = "relOld"
    /\ l.then = "relOld" =>
          /\ l.pc \in {"bind", "attach", "relOld"}
          /\ bound[l.req] # {}
          /\ l.old \in ToSet(BackQueue[l.oldTask])
          /\ l.pc = "relOld" => back[l.req] # l.old
          /\ l.pc # "relOld" => back[l.req] = l.old /\ ~finished[l.req]
    /\ l.pc = "attach" =>
          /\ l.seg \in ToSet(BackQueue[l.task])
          /\ l.then = "relOld" => l.nxt = l.req /\ l.seg # l.old

-----------------------------------------------------------------------------
(* Where a request is between its front and its first back segment *)

Stages == {"submit", "start", "prefill", "bind", "wait", "attach"}
Places == Conns \cup Tasks \cup {None}

(* In submit(), as a prefill on its way, in the line for a task, or in the *)
(* hands of a thread.                                                      *)
Pending(r, k, x) ==
    \/ /\ k = "submit" /\ x = None
       /\ th[Caller].pc = "submitted" /\ th[Caller].req = r /\ front[r] # None
    \/ k = "prefill" /\ x = None /\ prefills[r] # 0
    \/ k = "wait" /\ x \in Tasks /\ r \in ToSet(await_back[x])
    \/ x \in Conns /\ Serving(th[x], k, r)

(* Such a request has a front segment, no back segment, and no end.        *)
Fresh(r) == front[r] \in Fronts /\ back[r] = None /\ bound[r] = {} /\ ~finished[r]

(* It is in one place only.                                                *)
PlacesOK ==
    /\ \A r \in Reqs, k \in Stages, x \in Places : Pending(r, k, x) => Fresh(r)
    /\ \A r \in Reqs, j, k \in Stages, x, y \in Places :
          Pending(r, j, x) /\ Pending(r, k, y) => j = k /\ x = y

(* It is there once.                                                       *)
OnceOK ==
    /\ \A r \in Reqs : prefills[r] \in {0, 1}
    /\ \A u \in Tasks : IsInjective(await_back[u])
    /\ \A r \in Reqs : bound[r] = {} => back[r] = None

(* The label of a request names the pool of its back segment, but while it *)
(* moves.                                                                  *)
Moving(l, r) == l.req = r /\ l.then = "relOld" /\ l.pc # "relOld"

PairedOK ==
    \A r \in Reqs :
        \/ back[r] = None
        \/ \E t \in Conns : Moving(th[t], r)
        \/ back[r] \in ToSet(BackQueue[task[r]])

(* BacksExclusive and NoBackLost in one.                                   *)
BackPoolsOK ==
    /\ \A u \in Tasks :
          IsInjective(free_backs[u]) /\ ToSet(free_backs[u]) \subseteq ToSet(BackQueue[u])
    /\ \A u \in Tasks : \A b \in ToSet(BackQueue[u]) :
          b \in ToSet(free_backs[u]) <=> \A r \in Reqs : ~BackHeld(r, b)
    /\ \A b \in Backs : \A q, r \in Reqs : BackHeld(q, b) /\ BackHeld(r, b) => q = r

BackInv ==
    PlacesOK /\ OnceOK /\ PairedOK /\ BackPoolsOK /\ \A t \in Conns : RebindOK(th[t])

(* The invariant of a timely schedule.                                     *)
TimelyInv ==
    TypeInv /\ FrontInv /\ OneHandlerPerRequest /\ RebindPoolHolds /\ BackInv

-----------------------------------------------------------------------------
(* Steps and threads *)

(* Only one thread's locals change.                                        *)
LEMMA OneThread ==
    ASSUME TypeInv, NEW t \in Threads, NEW l, th' = [th EXCEPT ![t] = l]
    PROVE  th'[t] = l /\ \A s \in Threads \ {t} : th'[s] = th[s]
BY DEF TypeInv, TypeOK

(* What the proofs use of the types.                                       *)
LEMMA Typed ==
    ASSUME TypeInv
    PROVE  /\ th \in [Threads -> Locals] /\ \A t \in Threads : LocalsOK(t)
           /\ free_backs \in [Tasks -> Seq(Backs)] /\ await_back \in [Tasks -> Seq(Reqs)]
           /\ front \in [Reqs -> Fronts \cup {None}] /\ back \in [Reqs -> Backs \cup {None}]
           /\ task \in [Reqs -> Tasks \cup {None}] /\ bound \in [Reqs -> SUBSET Backs]
           /\ prefills \in [Reqs -> Nat] /\ finished \in [Reqs -> BOOLEAN]
           /\ arrivals \in Seq(Reqs)
           /\ Caller \in Threads /\ Conns = Threads \ {Caller}
           /\ Fronts \subseteq Conns /\ Backs \subseteq Conns
           /\ None \notin Conns \cup Tasks /\ None \notin Reqs
BY NamesAssumption, ReqsAssumption DEF TypeInv, TypeOK, Threads, Conns

(* A pool that a rebind counts on is not empty.                            *)
LEMMA RebindFinds ==
    ASSUME TypeInv, RebindPoolHolds, NEW t \in Conns,
           th[t].pc = "bind", th[t].then = "relOld"
    PROVE  free_backs[th[t].task] # <<>>
<1>1. PICK u \in Tasks : u = th[t].task
  BY Typed DEF LocalsOK
<1> DEFINE S == {s \in Conns : Rebinding(s, u)}
<1>2. t \in S
  BY <1>1 DEF Rebinding
<1>3. IsFiniteSet(S)
  BY SegmentsAssumption, FS_Subset
<1>4. Cardinality(S) \in Nat /\ Cardinality(S) # 0
  BY <1>2, <1>3, FS_EmptySet, FS_CardinalityType
<1>5. Cardinality(S) <= Len(free_backs[u])
  BY DEF RebindPoolHolds
<1>6. Len(free_backs[u]) # 0
  <2>1. free_backs[u] \in Seq(Backs)
    BY Typed
  <2>2. Len(free_backs[u]) \in Nat
    BY <2>1, LenProperties
  <2>3. QED BY <1>4, <1>5, <2>2
<1>7. QED BY <1>1, <1>6, EmptySeq

(* What a thread returns, to which pool, and where it goes on.             *)
LEMMA Returning ==
    ASSUME TypeInv, NEW t \in Conns, ReleaseBack(t) \/ ReleaseOld(t)
    PROVE  /\ UNCHANGED <<front, back, task, bound, finished, prefills>>
           /\ th[t].req \in Reqs
           /\ \E u \in Tasks, b \in Backs, after \in {"idle", "relFront"} :
                 /\ ReturnBack(t, u, b, after)
                 /\ \/ /\ th[t].pc = "relBack" /\ after = "relFront"
                       /\ u = task[th[t].req] /\ b = back[th[t].req] /\ bound[th[t].req] # {}
                    \/ /\ th[t].pc = "relOld" /\ after = "idle"
                       /\ u = th[t].oldTask /\ b = th[t].old
<1>1. LocalsOK(t) /\ RequestsOK
  BY Typed DEF TypeInv
<1>2. UNCHANGED <<front, back, task, bound, finished, prefills>>
  BY DEF ReleaseBack, ReleaseOld, ending, dataplane
<1>3. CASE ReleaseBack(t)
  <2>1. /\ th[t].req \in Reqs /\ task[th[t].req] \in Tasks /\ back[th[t].req] \in Backs
        /\ th[t].pc = "relBack" /\ bound[th[t].req] # {}
    BY <1>1, <1>3 DEF ReleaseBack, LocalsOK, RequestsOK
  <2>2. ReturnBack(t, task[th[t].req], back[th[t].req], "relFront")
    BY <1>3 DEF ReleaseBack
  <2>3. QED BY <1>2, <2>1, <2>2
<1>4. CASE ReleaseOld(t)
  <2>1. /\ th[t].req \in Reqs /\ th[t].oldTask \in Tasks /\ th[t].old \in Backs
        /\ th[t].pc = "relOld"
    BY <1>1, <1>4 DEF ReleaseOld, LocalsOK
  <2>2. ReturnBack(t, th[t].oldTask, th[t].old, "idle")
    BY <1>4 DEF ReleaseOld
  <2>3. QED BY <1>2, <2>1, <2>2
<1>5. QED BY <1>3, <1>4

(* _release_back gives the segment to the head of the line, or to the pool.*)
Passes(t, u, b, after, l) ==
    /\ await_back[u] # <<>>
    /\ await_back' = [await_back EXCEPT ![u] = Tail(await_back[u])]
    /\ free_backs' = free_backs
    /\ l.pc = "attach" /\ l.req = th[t].req /\ l.nxt = Head(await_back[u])
    /\ l.seg = b /\ l.task = u /\ l.then = after /\ l.old = None

Keeps(t, u, b, after, l) ==
    /\ await_back[u] = <<>> /\ await_back' = await_back
    /\ free_backs' = [free_backs EXCEPT ![u] = Append(free_backs[u], b)]
    /\ l.pc = after /\ l.then = "idle" /\ l.old = None
    /\ after = "relFront" => l.req = th[t].req
    /\ after = "idle" => l = Idle

LEMMA Returned ==
    ASSUME TypeInv, NEW t \in Conns, NEW u \in Tasks, NEW b \in Backs,
           NEW after \in {"idle", "relFront"}, ReturnBack(t, u, b, after)
    PROVE  \E l : /\ th' = [th EXCEPT ![t] = l]
                  /\ Passes(t, u, b, after, l) \/ Keeps(t, u, b, after, l)
<1>1. CASE await_back[u] # <<>>
  <2>1. PICK l : l = [Idle EXCEPT !.pc = "attach", !.req = th[t].req, !.nxt = Head(await_back[u]),
                                  !.seg = b, !.task = u, !.then = after]
    OBVIOUS
  <2>2. th' = [th EXCEPT ![t] = l]
    BY <1>1, <2>1 DEF ReturnBack
  <2>3. Passes(t, u, b, after, l)
    BY <1>1, <2>1 DEF ReturnBack, Passes, Idle
  <2>4. QED BY <2>2, <2>3
<1>2. CASE await_back[u] = <<>>
  <2>1. PICK l : l = IF after = "idle" THEN Idle ELSE [Idle EXCEPT !.pc = after, !.req = th[t].req]
    OBVIOUS
  <2>2. th' = [th EXCEPT ![t] = l]
    BY <1>2, <2>1 DEF ReturnBack
  <2>3. Keeps(t, u, b, after, l)
    BY <1>2, <2>1 DEF ReturnBack, Keeps, Idle
  <2>4. QED BY <2>2, <2>3
<1>3. QED BY <1>1, <1>2

-----------------------------------------------------------------------------
(* Places *)

(* A step that takes at most one request to another place, and changes     *)
(* what Fresh says of no other.                                            *)
LEMMA OnePlace ==
    ASSUME PlacesOK, NEW r \in Reqs, NEW k0, NEW x0,
           \A q \in Reqs \ {r} :
              /\ front'[q] = front[q] /\ back'[q] = back[q]
              /\ bound'[q] = bound[q] /\ finished'[q] = finished[q],
           \A q \in Reqs \ {r}, k \in Stages, x \in Places :
              Pending(q, k, x)' => Pending(q, k, x),
           \A k \in Stages, x \in Places :
              Pending(r, k, x)' => Fresh(r)' /\ k = k0 /\ x = x0
    PROVE  PlacesOK'
<1>1. ASSUME NEW q \in Reqs, NEW k \in Stages, NEW x \in Places, Pending(q, k, x)'
      PROVE  Fresh(q)'
  <2>1. CASE q = r
    BY <1>1, <2>1
  <2>2. CASE q # r
    <3>1. Fresh(q)
      BY <1>1, <2>2 DEF PlacesOK
    <3>2. QED BY <3>1, <2>2 DEF Fresh
  <2>3. QED BY <2>1, <2>2
<1>2. ASSUME NEW q \in Reqs, NEW j \in Stages, NEW k \in Stages,
             NEW x \in Places, NEW y \in Places,
             Pending(q, j, x)', Pending(q, k, y)'
      PROVE  j = k /\ x = y
  <2>1. CASE q = r
    BY <1>2, <2>1
  <2>2. CASE q # r
    BY <1>2, <2>2 DEF PlacesOK
  <2>3. QED BY <2>1, <2>2
<1>3. QED BY <1>1, <1>2 DEF PlacesOK

(* A step that takes no request to another place.                          *)
LEMMA NoPlace ==
    ASSUME PlacesOK, UNCHANGED <<front, back, bound, finished>>,
           \A q \in Reqs, k \in Stages, x \in Places :
              Pending(q, k, x)' => Pending(q, k, x)
    PROVE  PlacesOK'
BY DEF PlacesOK, Fresh

(* The places change with the locals of a thread and with the three        *)
(* variables below.                                                        *)
LEMMA PlacesOfThread ==
    ASSUME TypeInv, NEW t \in Conns, NEW l, th' = [th EXCEPT ![t] = l],
           NEW q \in Reqs, NEW k \in Stages, NEW x \in Places, Pending(q, k, x)',
           front'[q] = front[q] \/ th[Caller].req # q \/ th[Caller].pc # "submitted"
    PROVE  \/ Pending(q, k, x) /\ x # t /\ k \notin {"prefill", "wait"}
           \/ x = t /\ Serving(l, k, q)
           \/ k = "prefill" /\ x = None /\ prefills'[q] # 0
           \/ k = "wait" /\ x \in Tasks /\ q \in ToSet(await_back'[x])
<1>1. /\ th'[t] = l /\ th'[Caller] = th[Caller]
      /\ \A s \in Conns \ {t} : th'[s] = th[s]
  BY OneThread, Typed
<1>2. \A s \in Conns : Serving(th[s], k, q)' <=> Serving(th'[s], k, q)
  BY DEF Serving
<1>3. CASE x \in Conns /\ Serving(th'[x], k, q)
  <2>1. CASE x = t
    BY <1>1, <1>3, <2>1
  <2>2. CASE x # t
    <3>1. Serving(th[x], k, q) /\ k \notin {"prefill", "wait"}
      BY <1>1, <1>3, <2>2 DEF Serving
    <3>2. QED BY <1>3, <2>2, <3>1 DEF Pending
  <2>3. QED BY <2>1, <2>2
<1>4. CASE /\ k = "submit" /\ x = None
           /\ th[Caller].pc = "submitted" /\ th[Caller].req = q /\ front'[q] # None
  <2>1. Pending(q, k, x)
    BY <1>4 DEF Pending
  <2>2. x # t
    BY <1>4, Typed
  <2>3. QED BY <1>4, <2>1, <2>2
<1>5. \/ x \in Conns /\ Serving(th'[x], k, q)
      \/ /\ k = "submit" /\ x = None
         /\ th[Caller].pc = "submitted" /\ th[Caller].req = q /\ front'[q] # None
      \/ k = "prefill" /\ x = None /\ prefills'[q] # 0
      \/ k = "wait" /\ x \in Tasks /\ q \in ToSet(await_back'[x])
  BY <1>1 DEF Pending, Serving
<1>6. QED BY <1>3, <1>4, <1>5

(* No thread is on the way to a back segment with an idle program counter, *)
(* or while it ends a request.                                             *)
LEMMA NotServing ==
    ASSUME NEW l, l.pc \notin {"start", "bind", "attach"}, NEW k, NEW r
    PROVE  ~Serving(l, k, r)
BY DEF Serving

(* A request stays where it is, unless the thread serves it, a prefill of  *)
(* it is sent or it joins a line.                                          *)
LEMMA PlacesKept ==
    ASSUME TypeInv, NEW t \in Conns, NEW l, th' = [th EXCEPT ![t] = l],
           NEW q \in Reqs, NEW k \in Stages, NEW x \in Places, Pending(q, k, x)',
           front'[q] = front[q] \/ th[Caller].req # q \/ th[Caller].pc # "submitted",
           ~Serving(l, k, q),
           prefills'[q] # 0 => prefills[q] # 0,
           \A u \in Tasks : q \in ToSet(await_back'[u]) => q \in ToSet(await_back[u])
    PROVE  Pending(q, k, x) /\ (k # "wait" => x # t)
<1>1. \/ Pending(q, k, x) /\ x # t /\ k \notin {"prefill", "wait"}
      \/ x = t /\ Serving(l, k, q)
      \/ k = "prefill" /\ x = None /\ prefills'[q] # 0
      \/ k = "wait" /\ x \in Tasks /\ q \in ToSet(await_back'[x])
  BY PlacesOfThread
<1>2. CASE k = "prefill" /\ x = None /\ prefills'[q] # 0
  BY <1>2, Typed DEF Pending
<1>3. CASE k = "wait" /\ x \in Tasks /\ q \in ToSet(await_back'[x])
  <2>1. q \in ToSet(await_back[x])
    BY <1>3
  <2>2. QED BY <1>3, <2>1 DEF Pending
<1>4. QED BY <1>1, <1>2, <1>3

(* The steps that take no request to another place.                        *)
LEMMA QuietPlaces ==
    ASSUME TypeInv, PlacesOK, OnceOK, NEW t \in Conns, NEW l, th' = [th EXCEPT ![t] = l],
           \A k \in Stages, r \in Reqs : ~Serving(l, k, r),
           UNCHANGED <<front, back, bound, finished, prefills>>,
           \A u \in Tasks : /\ ToSet(await_back'[u]) \subseteq ToSet(await_back[u])
                            /\ IsInjective(await_back'[u])
    PROVE  (PlacesOK /\ OnceOK)'
<1>1. ASSUME NEW q \in Reqs, NEW k \in Stages, NEW x \in Places, Pending(q, k, x)'
      PROVE  Pending(q, k, x)
  BY <1>1, PlacesKept
<1>2. PlacesOK'
  BY <1>1, NoPlace
<1>3. QED BY <1>2 DEF OnceOK
(* A step of thread t, whose locals become l, that takes r to k, x and no  *)
(* other request to another place.                                         *)
Moves(t, l, r, k, x) ==
    /\ th' = [th EXCEPT ![t] = l] /\ UNCHANGED <<front, back, bound, finished>>
    /\ (\A q \in Reqs \ {r} :
           /\ prefills'[q] = prefills[q] /\ \A j \in Stages : ~Serving(l, j, q)
           /\ \A u \in Tasks : q \in ToSet(await_back'[u]) => q \in ToSet(await_back[u]))
    /\ (\A j \in Stages : Serving(l, j, r) => j = k /\ t = x)
    /\ (prefills'[r] # 0 => k = "prefill" /\ x = None)
    /\ (\A u \in Tasks : r \in ToSet(await_back'[u]) => k = "wait" /\ u = x)

LEMMA MovedPlace ==
    ASSUME TypeInv, PlacesOK, NEW t \in Conns, NEW l, NEW r \in Reqs,
           NEW j0 \in Stages, NEW y0 \in Places, Pending(r, j0, y0), y0 = t \/ j0 = "wait",
           NEW k0 \in Stages, NEW x0 \in Places, Moves(t, l, r, k0, x0)
    PROVE  PlacesOK'
<1>0. th' = [th EXCEPT ![t] = l] /\ UNCHANGED <<front, back, bound, finished>>
  BY DEF Moves
<1>1. ASSUME NEW q \in Reqs \ {r}, NEW k \in Stages, NEW x \in Places, Pending(q, k, x)'
      PROVE  Pending(q, k, x)
  <2>1. q \in Reqs /\ front'[q] = front[q] /\ ~Serving(l, k, q)
        /\ (prefills'[q] # 0 => prefills[q] # 0)
    BY <1>0 DEF Moves
  <2>2. \A u \in Tasks : q \in ToSet(await_back'[u]) => q \in ToSet(await_back[u])
    BY DEF Moves
  <2>3. QED BY <1>0, <1>1, <2>1, <2>2, PlacesKept
<1>2. ASSUME NEW k \in Stages, NEW x \in Places, Pending(r, k, x)'
      PROVE  k = k0 /\ x = x0
  <2>1. front'[r] = front[r]
    BY <1>0
  <2>2. \/ Pending(r, k, x) /\ x # t /\ k \notin {"prefill", "wait"}
        \/ x = t /\ Serving(l, k, r)
        \/ k = "prefill" /\ x = None /\ prefills'[r] # 0
        \/ k = "wait" /\ x \in Tasks /\ r \in ToSet(await_back'[x])
    BY <1>0, <1>2, <2>1, PlacesOfThread
  <2>3. Pending(r, k, x) => k = j0 /\ x = y0
    BY DEF PlacesOK
  <2>4. QED BY <2>2, <2>3 DEF Moves
<1>3. Fresh(r)'
  BY <1>0 DEF PlacesOK, Fresh
<1>4. QED BY <1>0, <1>1, <1>2, <1>3, OnePlace
(* The steps after which a request is in no place any more.                *)
LEMMA LeftPlace ==
    ASSUME TypeInv, PlacesOK, NEW t \in Conns, NEW l, th' = [th EXCEPT ![t] = l],
           NEW r \in Reqs,
           \A k \in Stages, x \in Places : Pending(r, k, x) => k # "wait" /\ x = t,
           \A k \in Stages, q \in Reqs : ~Serving(l, k, q),
           UNCHANGED <<front, prefills, await_back>>,
           \A q \in Reqs \ {r} : /\ back'[q] = back[q] /\ bound'[q] = bound[q]
                                 /\ finished'[q] = finished[q]
    PROVE  PlacesOK'
<1>1. ASSUME NEW q \in Reqs, NEW k \in Stages, NEW x \in Places, Pending(q, k, x)'
      PROVE  Pending(q, k, x) /\ (k # "wait" => x # t)
  <2>1. front'[q] = front[q] /\ ~Serving(l, k, q) /\ (prefills'[q] # 0 => prefills[q] # 0)
    OBVIOUS
  <2>2. \A u \in Tasks : q \in ToSet(await_back'[u]) => q \in ToSet(await_back[u])
    OBVIOUS
  <2>3. QED BY <1>1, <2>1, <2>2, PlacesKept
<1>2. ASSUME NEW k \in Stages, NEW x \in Places, Pending(r, k, x)'
      PROVE  Fresh(r)' /\ k = "bind" /\ x = t
  BY <1>1, <1>2
<1>3. \A q \in Reqs \ {r} : front'[q] = front[q]
  OBVIOUS
<1>4. QED BY <1>1, <1>2, <1>3, OnePlace

(* A request moves from one place to the next; no step loses it between    *)
(* two, or puts it in two.                                                 *)
LEMMA PlacesStep ==
    TimelyInv /\ [Next]_vars /\ SubmitReturnsFirst => (PlacesOK /\ OnceOK)'
<1> SUFFICES ASSUME TimelyInv, [Next]_vars, SubmitReturnsFirst PROVE (PlacesOK /\ OnceOK)'
  OBVIOUS
<1>0. /\ TypeInv /\ RequestsOK /\ ArrivalsOK /\ PlacesOK /\ OnceOK /\ BackPoolsOK
      /\ \A t \in Conns : EndingOK(t) /\ RebindOK(th[t])
      /\ OneHandlerPerRequest /\ RebindPoolHolds
  BY DEF TimelyInv, BackInv, FrontInv, TypeInv
<1>t. /\ th \in [Threads -> Locals] /\ \A t \in Threads : LocalsOK(t)
      /\ await_back \in [Tasks -> Seq(Reqs)] /\ free_backs \in [Tasks -> Seq(Backs)]
      /\ front \in [Reqs -> Fronts \cup {None}] /\ back \in [Reqs -> Backs \cup {None}]
      /\ bound \in [Reqs -> SUBSET Backs]
      /\ prefills \in [Reqs -> Nat] /\ finished \in [Reqs -> BOOLEAN]
      /\ arrivals \in Seq(Reqs)
      /\ Caller \in Threads /\ Conns = Threads \ {Caller}
      /\ Fronts \subseteq Conns /\ Backs \subseteq Conns
      /\ None \notin Conns \cup Tasks /\ None \notin Reqs
  BY <1>0, Typed
<1>p. \A r \in Reqs : front[r] = None => bound[r] = {} /\ back[r] = None
  BY <1>0, <1>t DEF RequestsOK, OnceOK
<1>b. \A r \in Reqs, k \in Stages, x \in Places :
         Pending(r, k, x) => Fresh(r) /\ (\A j \in Stages, y \in Places : Pending(r, j, y) => j = k /\ y = x)
  BY <1>0 DEF PlacesOK
<1>1. ASSUME NEW r \in Reqs, SubmitLocked(r) PROVE (PlacesOK /\ OnceOK)'
  <2>1. /\ th' = [th EXCEPT ![Caller] = [Idle EXCEPT !.pc = "submitted", !.req = r]]
        /\ UNCHANGED <<back, bound, finished, prefills, await_back>>
        /\ r \notin records
    BY <1>1 DEF SubmitLocked, ending, dataplane
  <2>2. /\ \A q \in Reqs \ {r} : front'[q] = front[q]
        /\ front'[r] \in Fronts \cup {None}
    <3>1. CASE free_fronts # <<>>
      <4>1. Head(free_fronts) \in Fronts
        BY <3>1, <1>0, TailOfQueue DEF TypeInv, TypeOK
      <4>2. QED BY <4>1, <3>1, <1>1, <1>t DEF SubmitLocked, TakeFreeFront
    <3>2. CASE free_fronts = <<>>
      BY <3>2, <1>1, <1>t DEF SubmitLocked, TakeFreeFront
    <3>3. QED BY <3>1, <3>2
  <2>3. front[r] = None /\ ~finished[r] /\ back[r] = None /\ bound[r] = {}
    BY <2>1, <1>0, <1>p DEF ArrivalsOK
  <2>4. /\ th'[Caller].pc = "submitted" /\ th'[Caller].req = r
        /\ \A s \in Conns : th'[s] = th[s]
    BY <2>1, <1>t DEF Idle
  <2>5. \A k \in Stages, x \in Places : ~Pending(r, k, x)
    BY <2>3, <1>b, <1>t DEF Fresh
  <2>6. ASSUME NEW q \in Reqs \ {r}, NEW k \in Stages, NEW x \in Places, Pending(q, k, x)'
        PROVE  Pending(q, k, x)
    BY <2>6, <2>1, <2>4 DEF Pending, Serving
  <2>7. ASSUME NEW k \in Stages, NEW x \in Places, Pending(r, k, x)'
        PROVE  k = "submit" /\ x = None /\ front'[r] # None
    BY <2>7, <2>5, <2>1, <2>4 DEF Pending, Serving
  <2>8. ASSUME NEW k \in Stages, NEW x \in Places, Pending(r, k, x)'
        PROVE  Fresh(r)'
    BY <2>7, <2>8, <2>1, <2>2, <2>3 DEF Fresh
  <2>9. PlacesOK'
    BY <2>1, <2>2, <2>6, <2>7, <2>8, <1>0, OnePlace
  <2>10. QED BY <2>1, <2>9, <1>0 DEF OnceOK
<1>2. ASSUME SubmitReturn PROVE (PlacesOK /\ OnceOK)'
  <2>1. PICK r \in Reqs : r = th[Caller].req /\ th[Caller].pc = "submitted"
    BY <1>2, <1>t DEF SubmitReturn, LocalsOK
  <2>2. /\ th' = [th EXCEPT ![Caller] = Idle]
        /\ UNCHANGED <<front, back, bound, finished, await_back>>
    BY <1>2 DEF SubmitReturn, lines, ending
  <2>3. th'[Caller].pc = "idle" /\ \A s \in Conns : th'[s] = th[s]
    BY <2>2, <1>t DEF Idle
  <2>4. CASE front[r] = None
    <3>1. UNCHANGED prefills
      BY <1>2, <2>1, <2>4 DEF SubmitReturn
    <3>2. ASSUME NEW q \in Reqs, NEW k \in Stages, NEW x \in Places, Pending(q, k, x)'
          PROVE  Pending(q, k, x)
      BY <3>1, <3>2, <2>2, <2>3 DEF Pending, Serving
    <3>3. PlacesOK'
      BY <3>2, <2>2, <1>0, NoPlace
    <3>4. QED BY <3>1, <3>3, <2>2, <1>0 DEF OnceOK
  <2>5. CASE front[r] # None
    <3>1. prefills' = [prefills EXCEPT ![r] = prefills[r] + 1]
      BY <1>2, <2>1, <2>5 DEF SubmitReturn
    <3>2. "submit" \in Stages /\ None \in Places /\ "prefill" \in Stages
      BY DEF Stages, Places
    <3>3. Pending(r, "submit", None)
      BY <2>1, <2>5 DEF Pending
    <3>4. Fresh(r) /\ ~Pending(r, "prefill", None)
      BY <3>2, <3>3, <1>b
    <3>5. prefills[r] = 0
      BY <3>4 DEF Pending
    <3>6. prefills'[r] = 1 /\ \A q \in Reqs \ {r} : prefills'[q] = prefills[q]
      BY <3>1, <3>5, <1>t
    <3>7. ASSUME NEW q \in Reqs \ {r}, NEW k \in Stages, NEW x \in Places, Pending(q, k, x)'
          PROVE  Pending(q, k, x)
      BY <3>6, <3>7, <2>2, <2>3 DEF Pending, Serving
    <3>8. ASSUME NEW k \in Stages, NEW x \in Places, Pending(r, k, x)'
          PROVE  k = "prefill" /\ x = None
      <4>1. Pending(r, k, x) \/ (k = "prefill" /\ x = None)
        BY <3>8, <2>2, <2>3 DEF Pending, Serving
      <4>2. Pending(r, k, x) => k = "submit"
        BY <3>2, <3>3, <1>b
      <4>3. k # "submit"
        BY <3>8, <2>3 DEF Pending, Serving
      <4>4. QED BY <4>1, <4>2, <4>3
    <3>9. Fresh(r)'
      BY <3>4, <2>2 DEF Fresh
    <3>10. PlacesOK'
      BY <3>7, <3>8, <3>9, <2>2, <1>0, OnePlace
    <3>11. QED BY <3>6, <3>10, <2>2, <1>0 DEF OnceOK
  <2>6. QED BY <2>4, <2>5
<1>s. /\ Stages = {"submit", "start", "prefill", "bind", "wait", "attach"}
      /\ None \in Places /\ Conns \subseteq Places /\ Tasks \subseteq Places
  BY DEF Stages, Places
<1>3. ASSUME NEW f \in Fronts, NEW r \in Reqs, NEW u \in Tasks, OnClassified(f, r, u)
      PROVE  (PlacesOK /\ OnceOK)'
  <2>1. PICK l : l = [Idle EXCEPT !.pc = "bind", !.req = r, !.task = u]
    OBVIOUS
  <2>2. /\ f \in Conns /\ th' = [th EXCEPT ![f] = l]
        /\ l.pc = "bind" /\ l.then = "idle" /\ l.req = r
        /\ prefills[r] # 0 /\ prefills' = [prefills EXCEPT ![r] = prefills[r] - 1]
        /\ UNCHANGED <<front, back, bound, finished, await_back>>
    BY <2>1, <1>3, <1>t DEF OnClassified, Idle, lines, ending
  <2>3. prefills'[r] = 0 /\ \A q \in Reqs \ {r} : prefills'[q] = prefills[q]
    BY <2>2, <1>0, <1>t DEF OnceOK
  <2>4. Pending(r, "prefill", None)
    BY <2>2 DEF Pending
  <2>5. ASSUME NEW q \in Reqs \ {r}, NEW k \in Stages, NEW x \in Places, Pending(q, k, x)'
        PROVE  Pending(q, k, x)
    <3>1. ~Serving(l, k, q) /\ front'[q] = front[q] /\ prefills'[q] = prefills[q]
      BY <2>2, <2>3 DEF Serving
    <3>2. \A v \in Tasks : await_back'[v] = await_back[v]
      BY <2>2
    <3>3. QED BY <3>1, <3>2, <2>2, <2>5, <1>0, PlacesKept
  <2>6. ASSUME NEW k \in Stages, NEW x \in Places, Pending(r, k, x)'
        PROVE  k = "bind" /\ x = f
    <3>0. front'[r] = front[r] /\ f \in Conns /\ th' = [th EXCEPT ![f] = l] /\ TypeInv
      BY <2>2, <1>0
    <3>1. \/ Pending(r, k, x) /\ x # f /\ k \notin {"prefill", "wait"}
          \/ x = f /\ Serving(l, k, r)
          \/ k = "prefill" /\ x = None /\ prefills'[r] # 0
          \/ k = "wait" /\ x \in Tasks /\ r \in ToSet(await_back'[x])
      BY <3>0, <2>6, PlacesOfThread
    <3>2. k = "wait" /\ x \in Tasks /\ r \in ToSet(await_back[x]) => Pending(r, k, x)
      BY DEF Pending
    <3>3. Pending(r, k, x) => k = "prefill"
      BY <2>4, <1>b, <1>s
    <3>4. x = f /\ Serving(l, k, r)
      BY <3>1, <3>2, <3>3, <2>2, <2>3
    <3>5. QED BY <3>4, <2>2 DEF Serving
  <2>7. Fresh(r)'
    BY <2>2, <2>4, <1>b, <1>s DEF Fresh
  <2>8. PlacesOK'
    BY <2>2, <2>5, <2>6, <2>7, <1>0, OnePlace
  <2>9. QED BY <2>2, <2>3, <2>8, <1>0 DEF OnceOK
<1>4. ASSUME NEW t \in Conns, BindFail(t) PROVE (PlacesOK /\ OnceOK)'
  <2>1. PICK r \in Reqs : r = th[t].req /\ th[t].pc = "bind" /\ th[t].task \in Tasks
    BY <1>4, <1>t DEF BindFail, LocalsOK
  <2>2. th[t].then = "idle"
    <3>1. th[t].then # "relFront" /\ th[t].then \in {"idle", "relOld", "relFront"}
      BY <2>1, <1>0, <1>t DEF EndingOK, Locals
    <3>2. free_backs[th[t].task] = <<>>
      <4>1. PICK u \in Tasks : u = th[t].task
        BY <2>1
      <4>2. BackQueue[u] = <<>> /\ BackQueue[u] \in Seq(Backs) /\ free_backs[u] \in Seq(Backs)
        BY <4>1, <1>4, <1>t, BacksAssumption DEF BindFail
      <4>3. ToSet(BackQueue[u]) = {} /\ ToSet(free_backs[u]) \subseteq ToSet(BackQueue[u])
        BY <4>2, <1>0, ElementsOfQueue DEF BackPoolsOK
      <4>4. QED BY <4>1, <4>2, <4>3, TailOfQueue
    <3>3. QED BY <3>1, <3>2, <2>1, <1>0, RebindFinds
  <2>3. th' = [th EXCEPT ![t] = Idle]
    BY <1>4, <2>2 DEF BindFail, Goto
  <2>4. /\ UNCHANGED <<front, back, bound, prefills, await_back>>
        /\ \A q \in Reqs \ {r} : finished'[q] = finished[q]
    BY <1>4, <2>1, <1>t DEF BindFail, lines, dataplane
  <2>5. Pending(r, "bind", t)
    BY <2>1, <2>2 DEF Pending, Serving
  <2>6. \A k \in Stages, x \in Places : Pending(r, k, x) => k # "wait" /\ x = t
    BY <2>5, <1>b, <1>s
  <2>7. \A k \in Stages, q \in Reqs : ~Serving(Idle, k, q)
    BY DEF Serving, Idle
  <2>8. PlacesOK'
    BY <2>3, <2>4, <2>6, <2>7, <1>0, LeftPlace
  <2>9. QED BY <2>4, <2>8, <1>0 DEF OnceOK
<1>o. ASSUME NEW t \in Conns, th[t].pc = "bind"
      PROVE  /\ th[t].task \in Tasks /\ th[t].req \in Reqs /\ th[t].then \in {"idle", "relOld"}
             /\ th[t].then = "relOld" => bound[th[t].req] # {}
  BY <1>o, <1>0, <1>t DEF LocalsOK, EndingOK, Locals, RebindOK
<1>5. ASSUME NEW t \in Conns, BindPop(t) PROVE (PlacesOK /\ OnceOK)'
  <2>1. PICK r \in Reqs : r = th[t].req
    BY <1>5, <1>o DEF BindPop
  <2>2. PICK l : l = [th[t] EXCEPT !.pc = "attach", !.nxt = th[t].req,
                                   !.seg = Head(free_backs[th[t].task])]
    OBVIOUS
  <2>3. /\ th' = [th EXCEPT ![t] = l] /\ th[t].pc = "bind"
        /\ l.pc = "attach" /\ l.then = th[t].then /\ l.nxt = r
        /\ UNCHANGED <<front, back, bound, finished, prefills, await_back>>
    BY <2>1, <2>2, <1>5, <1>t DEF BindPop, Locals, lines, ending, dataplane
  <2>4. OnceOK'
    BY <2>3, <1>0 DEF OnceOK
  <2>5. CASE th[t].then = "idle"
    <3>1. Pending(r, "bind", t)
      BY <2>1, <2>3, <2>5 DEF Pending, Serving
    <3>2. Fresh(r) /\ ~Pending(r, "prefill", None) /\ (\A u \in Tasks : ~Pending(r, "wait", u))
      BY <3>1, <1>b, <1>s
    <3>3. prefills'[r] = 0 /\ \A u \in Tasks : r \notin ToSet(await_back'[u])
      BY <3>2, <2>3 DEF Pending
    <3>4. \A k \in Stages, q \in Reqs : Serving(l, k, q) => q = r /\ k = "attach"
      BY <2>3 DEF Serving
    <3>5. Moves(t, l, r, "attach", t)
      BY <2>3, <3>3, <3>4 DEF Moves
    <3>6. PlacesOK'
      BY <3>1, <3>5, <1>0, <1>s, MovedPlace
    <3>7. QED BY <2>4, <3>6
  <2>6. CASE th[t].then = "relOld"
    <3>1. \A k \in Stages, q \in Reqs : ~Serving(l, k, q)
      BY <2>3, <2>6 DEF Serving
    <3>2. \A u \in Tasks : ToSet(await_back'[u]) \subseteq ToSet(await_back[u])
                        /\ IsInjective(await_back'[u])
      BY <2>3, <2>4 DEF OnceOK
    <3>3. QED BY <3>1, <3>2, <2>3, <1>0, QuietPlaces
  <2>7. QED BY <2>3, <2>5, <2>6, <1>o
<1>6. ASSUME NEW t \in Conns, BindQueue(t) PROVE (PlacesOK /\ OnceOK)'
  <2>1. PICK r \in Reqs : r = th[t].req
    BY <1>6, <1>o DEF BindQueue
  <2>2. PICK u \in Tasks : u = th[t].task
    BY <1>6, <1>o DEF BindQueue
  <2>3. th[t].pc = "bind" /\ th[t].then = "idle"
    BY <1>6, <1>o, <1>0, RebindFinds DEF BindQueue
  <2>4. /\ th' = [th EXCEPT ![t] = Idle] /\ TypeInv /\ PlacesOK
        /\ UNCHANGED <<front, back, bound, finished, prefills>>
        /\ await_back' = [await_back EXCEPT ![u] = Append(await_back[u], r)]
    BY <2>1, <2>2, <2>3, <1>6, <1>0 DEF BindQueue, Goto, ending, dataplane
  <2>5. Pending(r, "bind", t)
    BY <2>1, <2>3 DEF Pending, Serving
  <2>6. ~Pending(r, "prefill", None) /\ (\A v \in Tasks : ~Pending(r, "wait", v))
    BY <2>5, <1>b, <1>s
  <2>7. prefills'[r] = 0 /\ \A v \in Tasks : r \notin ToSet(await_back[v])
    BY <2>6, <2>4 DEF Pending
  <2>8. /\ ToSet(await_back'[u]) = ToSet(await_back[u]) \cup {r} /\ IsInjective(await_back'[u])
        /\ \A v \in Tasks \ {u} : await_back'[v] = await_back[v]
    <3>1. await_back[u] \in Seq(Reqs) /\ IsInjective(await_back[u]) /\ r \notin ToSet(await_back[u])
      BY <2>7, <1>0, <1>t DEF OnceOK
    <3>2. QED BY <3>1, <2>4, <1>t, AppendToQueue
  <2>9. OnceOK'
    BY <2>4, <2>8, <1>0 DEF OnceOK
  <2>10. PlacesOK'
    <3>1. \A q \in Reqs, k \in Stages : ~Serving(Idle, k, q)
      BY DEF Serving, Idle
    <3>2. Moves(t, Idle, r, "wait", u)
      BY <2>4, <2>7, <2>8, <3>1 DEF Moves
    <3>3. QED BY <3>2, <2>4, <2>5, <1>s, MovedPlace
  <2>11. QED BY <2>9, <2>10
<1>7. ASSUME NEW t \in Conns, AttachBack(t) PROVE (PlacesOK /\ OnceOK)'
  <2>1. PICK r \in Reqs : r = th[t].nxt /\ th[t].pc = "attach"
    BY <1>7, <1>t DEF AttachBack, LocalsOK
  <2>2. PICK l : l = Goto(t, th[t].then)
    OBVIOUS
  <2>3. /\ th' = [th EXCEPT ![t] = l] /\ UNCHANGED <<front, prefills, await_back>>
        /\ \A q \in Reqs \ {r} : /\ back'[q] = back[q] /\ bound'[q] = bound[q]
                                /\ finished'[q] = finished[q]
    BY <2>1, <2>2, <1>7, <1>t DEF AttachBack, lines, ending
  <2>4. bound'[r] # {}
    BY <2>1, <1>7, <1>t DEF AttachBack
  <2>5. l.pc \in {"idle", "relOld", "relFront"}
    <3>1. th[t].then \in {"idle", "relOld", "relFront"} /\ t \in Threads
      BY <1>t DEF Locals
    <3>2. QED BY <2>2, <3>1, <1>0, GotoLocals DEF Idle
  <2>6. \A k \in Stages, q \in Reqs : ~Serving(l, k, q)
    BY <2>5, NotServing
  <2>7. \A k \in Stages, x \in Places : Pending(r, k, x) => k # "wait" /\ x = t
    <3>1. CASE th[t].then = "relOld"
      <4>1. bound[r] # {}
        BY <2>1, <3>1, <1>0 DEF RebindOK
      <4>2. QED BY <4>1, <1>b DEF Fresh
    <3>2. CASE th[t].then # "relOld"
      <4>1. Pending(r, "attach", t)
        BY <2>1, <3>2 DEF Pending, Serving
      <4>2. QED BY <4>1, <1>b, <1>s
    <3>3. QED BY <3>1, <3>2
  <2>8. PlacesOK'
    BY <2>3, <2>6, <2>7, <1>0, LeftPlace
  <2>9. QED BY <2>3, <2>4, <2>8, <1>0 DEF OnceOK
<1>q. ASSUME NEW t \in Conns, NEW l, th' = [th EXCEPT ![t] = l],
             \A k \in Stages, q \in Reqs : ~Serving(l, k, q),
             UNCHANGED <<front, back, bound, finished, prefills, await_back>>
      PROVE  (PlacesOK /\ OnceOK)'
  <2>1. \A u \in Tasks : ToSet(await_back'[u]) \subseteq ToSet(await_back[u])
                      /\ IsInjective(await_back'[u])
    BY <1>q, <1>0 DEF OnceOK
  <2>2. QED BY <2>1, <1>q, <1>0, QuietPlaces
<1>8. ASSUME NEW b \in Backs, NEW r \in Reqs, Token(b, r) PROVE (PlacesOK /\ OnceOK)'
  <2>1. b \in Conns /\ UNCHANGED <<front, back, bound, finished, prefills, await_back>>
    BY <1>8, <1>t DEF Token, TokenKept, TokenStop, TokenAlarmStay, TokenRebind, lines,
                      ending, dataplane
  <2>2. CASE th' = th
    <3>1. \A q \in Reqs, k \in Stages, x \in Places : Pending(q, k, x)' => Pending(q, k, x)
      BY <2>1, <2>2 DEF Pending, Serving
    <3>2. PlacesOK'
      BY <3>1, <2>1, <1>0, NoPlace
    <3>3. QED BY <3>2, <2>1, <1>0 DEF OnceOK
  <2>3. ASSUME NEW n \in {0, 1}, TokenStop(b, r, n) PROVE (PlacesOK /\ OnceOK)'
    <3>1. PICK l : l = [Idle EXCEPT !.pc = "finTest", !.req = r]
      OBVIOUS
    <3>2. th' = [th EXCEPT ![b] = l] /\ l.pc = "finTest"
      BY <2>3, <3>1 DEF TokenStop, Idle
    <3>3. \A k \in Stages, q \in Reqs : ~Serving(l, k, q)
      BY <3>2 DEF Serving
    <3>4. QED BY <3>2, <3>3, <2>1, <1>q
  <2>4. ASSUME NEW n \in {0, 1}, NEW u \in Tasks, TokenRebind(b, r, n, u)
        PROVE  (PlacesOK /\ OnceOK)'
    <3>1. PICK l : l = [Idle EXCEPT !.pc = "bind", !.req = r, !.task = u, !.old = back[r],
                                    !.oldTask = task[r], !.then = "relOld"]
      OBVIOUS
    <3>2. th' = [th EXCEPT ![b] = l] /\ l.pc = "bind" /\ l.then = "relOld"
      BY <2>4, <3>1 DEF TokenRebind, Idle
    <3>3. \A k \in Stages, q \in Reqs : ~Serving(l, k, q)
      BY <3>2 DEF Serving
    <3>4. QED BY <3>2, <3>3, <2>1, <1>q
  <2>5. QED BY <2>2, <2>3, <2>4, <1>8 DEF Token, TokenKept, TokenAlarmStay
<1>9. ASSUME NEW t \in Conns, FinishTest(t) \/ FinishSend(t) PROVE (PlacesOK /\ OnceOK)'
  <2>1. UNCHANGED <<front, back, bound, finished, prefills, await_back>>
    BY <1>9 DEF FinishTest, FinishSend, lines, ending, dataplane
  <2>2. PICK l : th' = [th EXCEPT ![t] = l] /\ l.pc \in {"idle", "finMark", "relBack"}
    <3>1. PICK l1, l2 : l1 = [th[t] EXCEPT !.pc = "finMark"] /\ l2 = [th[t] EXCEPT !.pc = "relBack"]
      OBVIOUS
    <3>2. l1.pc = "finMark" /\ l2.pc = "relBack" /\ Idle.pc = "idle"
      BY <3>1, <1>t DEF Locals, Idle
    <3>3. \/ th' = [th EXCEPT ![t] = l1] \/ th' = [th EXCEPT ![t] = l2]
          \/ th' = [th EXCEPT ![t] = Idle]
      BY <1>9, <3>1 DEF FinishTest, FinishSend
    <3>4. QED BY <3>2, <3>3
  <2>3. \A k \in Stages, q \in Reqs : ~Serving(l, k, q)
    BY <2>2, NotServing
  <2>4. QED BY <2>1, <2>2, <2>3, <1>q
<1>10. ASSUME NEW t \in Conns, FinishMark(t) PROVE (PlacesOK /\ OnceOK)'
  <2>1. PICK r \in Reqs : r = th[t].req /\ bound[r] # {}
    BY <1>10, <1>t DEF FinishMark, LocalsOK
  <2>2. PICK l : l = [th[t] EXCEPT !.pc = "finSend"]
    OBVIOUS
  <2>3. /\ th' = [th EXCEPT ![t] = l] /\ l.pc = "finSend"
        /\ UNCHANGED <<front, back, bound, prefills, await_back>>
        /\ \A q \in Reqs \ {r} : finished'[q] = finished[q]
    <3>1. th' = [th EXCEPT ![t] = l] /\ UNCHANGED <<front, back, bound, prefills, await_back>>
      BY <2>2, <1>10 DEF FinishMark, lines, dataplane
    <3>2. finished' = [finished EXCEPT ![r] = TRUE]
      BY <2>1, <1>10 DEF FinishMark
    <3>3. l.pc = "finSend"
      BY <2>2, <1>t DEF Locals
    <3>4. QED BY <3>1, <3>2, <3>3, <1>t
  <2>4. \A k \in Stages, q \in Reqs : ~Serving(l, k, q)
    BY <2>3 DEF Serving
  <2>5. \A k \in Stages, x \in Places : ~Pending(r, k, x)
    BY <2>1, <1>b DEF Fresh
  <2>6. /\ UNCHANGED <<front, prefills, await_back>>
        /\ \A q \in Reqs \ {r} : /\ back'[q] = back[q] /\ bound'[q] = bound[q]
                                /\ finished'[q] = finished[q]
    BY <2>3
  <2>7. PlacesOK'
    BY <2>3, <2>4, <2>5, <2>6, <1>0, LeftPlace
  <2>8. QED BY <2>3, <2>7, <1>0 DEF OnceOK
<1>11. ASSUME NEW t \in Conns, ReleaseBack(t) \/ ReleaseOld(t) PROVE (PlacesOK /\ OnceOK)'
  <2>1. UNCHANGED <<front, back, bound, finished, prefills>> /\ th[t].req \in Reqs
    BY <1>11, <1>0, Returning
  <2>2. PICK u \in Tasks, b \in Backs, after \in {"idle", "relFront"} : ReturnBack(t, u, b, after)
    BY <1>11, <1>0, Returning
  <2>3. PICK l : /\ th' = [th EXCEPT ![t] = l]
                 /\ Passes(t, u, b, after, l) \/ Keeps(t, u, b, after, l)
    BY <2>2, <1>0, Returned
  <2>4. CASE Keeps(t, u, b, after, l)
    <3>1. await_back' = await_back /\ l.pc \in {"idle", "relFront"}
      BY <2>4 DEF Keeps
    <3>2. \A k \in Stages, q \in Reqs : ~Serving(l, k, q)
      BY <3>1, NotServing
    <3>3. QED BY <3>1, <3>2, <2>1, <2>3, <1>q
  <2>5. CASE Passes(t, u, b, after, l)
    <3>0. /\ await_back[u] # <<>> /\ l.pc = "attach" /\ l.then # "relOld"
          /\ l.nxt = Head(await_back[u])
          /\ await_back' = [await_back EXCEPT ![u] = Tail(await_back[u])]
      BY <2>5 DEF Passes
    <3>1. await_back[u] \in Seq(Reqs) /\ IsInjective(await_back[u])
      BY <1>0, <1>t DEF OnceOK
    <3>2. PICK q \in Reqs : q = l.nxt /\ q \in ToSet(await_back[u])
      BY <3>1, <3>0, TailOfQueue
    <3>3. await_back'[u] = Tail(await_back[u]) /\ \A v \in Tasks \ {u} : await_back'[v] = await_back[v]
      BY <3>0, <1>t
    <3>4. /\ ToSet(await_back'[u]) \subseteq ToSet(await_back[u])
          /\ q \notin ToSet(await_back'[u]) /\ IsInjective(await_back'[u])
      BY <3>1, <3>2, <3>3, <3>0, TailOfQueue
    <3>5. OnceOK'
      BY <3>3, <3>4, <2>1, <1>0 DEF OnceOK
    <3>6. Pending(q, "wait", u)
      BY <3>2 DEF Pending
    <3>7. ~Pending(q, "prefill", None) /\ \A v \in Tasks : Pending(q, "wait", v) => v = u
      BY <3>6, <1>b, <1>s
    <3>8. prefills'[q] = 0 /\ \A v \in Tasks : q \notin ToSet(await_back'[v])
      BY <3>3, <3>4, <3>7, <2>1 DEF Pending
    <3>9. \A k \in Stages, p \in Reqs : Serving(l, k, p) => p = q /\ k = "attach"
      BY <3>2, <3>0 DEF Serving
    <3>10. \A p \in Reqs, v \in Tasks : p \in ToSet(await_back'[v]) => p \in ToSet(await_back[v])
      BY <3>3, <3>4
    <3>11. Moves(t, l, q, "attach", t)
      BY <2>1, <2>3, <3>8, <3>9, <3>10 DEF Moves
    <3>12. PlacesOK'
      BY <3>6, <3>11, <1>0, <1>s, MovedPlace
    <3>13. QED BY <3>5, <3>12
  <2>6. QED BY <2>3, <2>4, <2>5
<1>12. ASSUME NEW t \in Conns, ReleaseFront(t) PROVE (PlacesOK /\ OnceOK)'
  <2>1. UNCHANGED <<back, bound, finished, prefills, await_back>>
    BY <1>12 DEF ReleaseFront, ending, dataplane
  <2>2. PICK f \in Fronts : f = front[th[t].req]
    BY <1>12, <1>t DEF ReleaseFront, LocalsOK
  <2>3. CASE arrivals = <<>>
    <3>1. th' = [th EXCEPT ![t] = Idle] /\ front' = front
      BY <2>3, <1>12 DEF ReleaseFront
    <3>2. \A k \in Stages, q \in Reqs : ~Serving(Idle, k, q)
      BY DEF Serving, Idle
    <3>3. QED BY <3>1, <3>2, <2>1, <1>q
  <2>4. CASE arrivals # <<>>
    <3>1. PICK q \in Reqs : q = Head(arrivals) /\ q \in ToSet(arrivals)
      BY <2>4, <1>t, TailOfQueue
    <3>2. PICK l : l = [Idle EXCEPT !.pc = "start", !.nxt = q]
      OBVIOUS
    <3>3. /\ th' = [th EXCEPT ![t] = l] /\ l.pc = "start" /\ l.nxt = q
          /\ front' = [front EXCEPT ![q] = f]
      BY <3>1, <3>2, <2>2, <2>4, <1>12 DEF ReleaseFront, Idle
    <3>4. front[q] = None /\ ~finished[q] /\ bound[q] = {} /\ back[q] = None
      BY <3>1, <1>0, <1>p DEF ArrivalsOK
    <3>5. front'[q] = f /\ \A p \in Reqs \ {q} : front'[p] = front[p]
      BY <3>3, <1>t
    <3>6. Fresh(q)'
      BY <3>4, <3>5, <2>1 DEF Fresh
    <3>7. front'[q] = front[q] \/ th[Caller].req # q \/ th[Caller].pc # "submitted"
      BY <3>4, <3>5, <1>t DEF SubmitReturnsFirst
    <3>8. \A k \in Stages, x \in Places : ~Pending(q, k, x)
      BY <3>4, <1>b, <1>t DEF Fresh
    <3>9. prefills[q] = 0 /\ \A v \in Tasks : q \notin ToSet(await_back[v])
      BY <3>8, <1>s DEF Pending
    <3>10. \A k \in Stages, p \in Reqs : Serving(l, k, p) => p = q /\ k = "start"
      BY <3>3 DEF Serving
    <3>11. ASSUME NEW p \in Reqs \ {q}, NEW k \in Stages, NEW x \in Places, Pending(p, k, x)'
           PROVE  Pending(p, k, x)
      <4>1. front'[p] = front[p] /\ ~Serving(l, k, p) /\ (prefills'[p] # 0 => prefills[p] # 0)
        BY <3>5, <3>10, <2>1
      <4>2. \A v \in Tasks : p \in ToSet(await_back'[v]) => p \in ToSet(await_back[v])
        BY <2>1
      <4>3. QED BY <3>3, <3>11, <4>1, <4>2, <1>0, PlacesKept
    <3>12. ASSUME NEW k \in Stages, NEW x \in Places, Pending(q, k, x)'
           PROVE  k = "start" /\ x = t
      <4>1. \/ Pending(q, k, x) /\ x # t /\ k \notin {"prefill", "wait"}
            \/ x = t /\ Serving(l, k, q)
            \/ k = "prefill" /\ x = None /\ prefills'[q] # 0
            \/ k = "wait" /\ x \in Tasks /\ q \in ToSet(await_back'[x])
        <5>1. th' = [th EXCEPT ![t] = l] /\ TypeInv
          BY <3>3, <1>0
        <5>2. QED BY <5>1, <3>7, <3>12, PlacesOfThread
      <4>2. QED BY <4>1, <3>8, <3>9, <3>10, <2>1
    <3>13. PlacesOK'
      BY <3>5, <3>6, <3>11, <3>12, <2>1, <1>0, OnePlace
    <3>14. QED BY <3>13, <2>1, <1>0 DEF OnceOK
  <2>5. QED BY <2>3, <2>4
<1>13. ASSUME NEW t \in Conns, StartFront(t) PROVE (PlacesOK /\ OnceOK)'
  <2>1. PICK r \in Reqs : r = th[t].nxt /\ th[t].pc = "start"
    BY <1>13, <1>t DEF StartFront, LocalsOK
  <2>2. /\ th' = [th EXCEPT ![t] = Idle] /\ UNCHANGED <<front, back, bound, finished, await_back>>
        /\ prefills' = [prefills EXCEPT ![r] = prefills[r] + 1]
    BY <2>1, <1>13 DEF StartFront, lines, ending
  <2>3. Pending(r, "start", t)
    BY <2>1 DEF Pending, Serving
  <2>4. ~Pending(r, "prefill", None) /\ \A v \in Tasks : ~Pending(r, "wait", v)
    BY <2>3, <1>b, <1>s
  <2>5. prefills[r] = 0 /\ \A v \in Tasks : r \notin ToSet(await_back[v])
    BY <2>4 DEF Pending
  <2>6. prefills'[r] = 1 /\ \A q \in Reqs \ {r} : prefills'[q] = prefills[q]
    BY <2>2, <2>5, <1>t
  <2>7. \A k \in Stages, q \in Reqs : ~Serving(Idle, k, q)
    BY DEF Serving, Idle
  <2>8. Moves(t, Idle, r, "prefill", None)
    BY <2>2, <2>5, <2>6, <2>7 DEF Moves
  <2>9. PlacesOK'
    BY <2>3, <2>8, <1>0, <1>s, MovedPlace
  <2>10. QED BY <2>2, <2>6, <2>9, <1>0 DEF OnceOK
<1>14. CASE UNCHANGED vars
  <2>1. UNCHANGED <<front, back, bound, finished, prefills, await_back, th>>
    BY <1>14 DEF vars, lines, ending, dataplane
  <2>2. \A q \in Reqs, k \in Stages, x \in Places : Pending(q, k, x)' => Pending(q, k, x)
    BY <2>1 DEF Pending, Serving
  <2>3. PlacesOK'
    BY <2>1, <2>2, <1>0, NoPlace
  <2>4. QED BY <2>1, <2>3, <1>0 DEF OnceOK
<1>15. QED
  BY <1>1, <1>2, <1>3, <1>4, <1>5, <1>6, <1>7, <1>8, <1>9, <1>10, <1>11, <1>12, <1>13, <1>14
     DEF Next, CallerStep, Classified, HandlerStep

-----------------------------------------------------------------------------
(* Rebinds *)

(* Who finds an empty pool is not a rebind: the thread is done.            *)
LEMMA BindEnds ==
    ASSUME TypeInv, RebindPoolHolds, BackPoolsOK, NEW t \in Conns, EndingOK(t),
           BindFail(t) \/ BindQueue(t)
    PROVE  /\ th[t].pc = "bind" /\ th[t].then = "idle" /\ th[t].req \in Reqs
           /\ th' = [th EXCEPT ![t] = Idle]
<1>1. /\ th[t].pc = "bind" /\ th[t].req \in Reqs /\ th[t].then \in {"idle", "relOld"}
      /\ th[t].task \in Tasks
  BY Typed DEF BindFail, BindQueue, LocalsOK, EndingOK, Locals
<1>2. free_backs[th[t].task] = <<>>
  <2>1. PICK u \in Tasks : u = th[t].task
    BY <1>1
  <2>2. CASE BindQueue(t)
    BY <2>2 DEF BindQueue
  <2>3. CASE BindFail(t)
    <3>1. BackQueue[u] = <<>> /\ BackQueue[u] \in Seq(Backs) /\ free_backs[u] \in Seq(Backs)
      BY <2>1, <2>3, Typed, BacksAssumption DEF BindFail
    <3>2. ToSet(BackQueue[u]) = {} /\ ToSet(free_backs[u]) \subseteq ToSet(BackQueue[u])
      BY <3>1, ElementsOfQueue DEF BackPoolsOK
    <3>3. QED BY <2>1, <3>1, <3>2, TailOfQueue
  <2>4. QED BY <2>2, <2>3
<1>3. th[t].then = "idle"
  BY <1>1, <1>2, RebindFinds
<1>4. QED BY <1>1, <1>3 DEF BindFail, BindQueue, Goto

(* A rebind counts on what no other thread changes meanwhile.              *)
LEMMA RebindKept ==
    ASSUME NEW s \in Conns, RebindOK(th[s]), th'[s] = th[s],
           th[s].then = "relOld" =>
              /\ back'[th[s].req] = back[th[s].req]
              /\ finished'[th[s].req] = finished[th[s].req]
              /\ bound'[th[s].req] # {}
    PROVE  RebindOK(th[s])'
BY DEF RebindOK

(* A segment goes back to the pool it was taken from.                      *)
LEMMA GoesBack ==
    ASSUME TypeInv, PairedOK, OneHandlerPerRequest, \A s \in Conns : RebindOK(th[s]),
           NEW t \in Conns, NEW u \in Tasks, NEW b \in Backs,
           \/ th[t].pc = "relBack" /\ u = task[th[t].req] /\ b = back[th[t].req]
           \/ th[t].pc = "relOld" /\ u = th[t].oldTask /\ b = th[t].old
    PROVE  b \in ToSet(BackQueue[u])
<1>1. CASE th[t].pc = "relOld" /\ u = th[t].oldTask /\ b = th[t].old
  BY <1>1 DEF RebindOK
<1>2. CASE th[t].pc = "relBack" /\ u = task[th[t].req] /\ b = back[th[t].req]
  <2>1. PICK r \in Reqs : r = th[t].req
    BY <1>2, Typed DEF LocalsOK
  <2>2. ASSUME NEW s \in Conns, th[s].req = r, th[s].then = "relOld" PROVE FALSE
    <3>1. th[s].pc \in {"bind", "attach", "relOld"}
      BY <2>2 DEF RebindOK
    <3>2. Handling(s, r) /\ Handling(t, r)
      BY <2>1, <2>2, <3>1, <1>2 DEF Handling
    <3>3. s = t
      BY <3>2 DEF OneHandlerPerRequest
    <3>4. QED BY <3>1, <3>3, <1>2
  <2>3. back[r] # None
    BY <2>1, <1>2, Typed
  <2>4. QED BY <2>1, <2>2, <2>3, <1>2 DEF PairedOK, Moving
<1>3. QED BY <1>1, <1>2

(* No step of a timely schedule spoils a rebind under way.                 *)
LEMMA RebindStep ==
    TimelyInv /\ [Next]_vars /\ OneHandlerPerRequest' => \A t \in Conns : RebindOK(th[t])'
<1> SUFFICES ASSUME TimelyInv, [Next]_vars, OneHandlerPerRequest'
             PROVE  \A t \in Conns : RebindOK(th[t])'
  OBVIOUS
<1>0. /\ TypeInv /\ RequestsOK /\ PlacesOK /\ BackPoolsOK /\ PairedOK
      /\ \A t \in Conns : EndingOK(t) /\ RebindOK(th[t])
      /\ OneHandlerPerRequest /\ RebindPoolHolds
  BY DEF TimelyInv, BackInv, FrontInv, TypeInv
<1>t. /\ th \in [Threads -> Locals] /\ \A t \in Threads : LocalsOK(t)
      /\ free_backs \in [Tasks -> Seq(Backs)]
      /\ back \in [Reqs -> Backs \cup {None}] /\ bound \in [Reqs -> SUBSET Backs]
      /\ finished \in [Reqs -> BOOLEAN]
      /\ Caller \in Threads /\ Conns = Threads \ {Caller}
      /\ Fronts \subseteq Conns /\ Backs \subseteq Conns
      /\ None \notin Conns \cup Tasks
  BY <1>0, Typed
<1>m. ASSUME NEW s \in Conns, th[s].then = "relOld"
      PROVE  bound[th[s].req] # {} /\ th[s].req \in Reqs /\ Handling(s, th[s].req)
  BY <1>m, <1>0, <1>t DEF RebindOK, LocalsOK, Handling
<1>a. ASSUME \A s \in Conns : th'[s] = th[s], UNCHANGED <<back, finished, bound>>
      PROVE  \A t \in Conns : RebindOK(th[t])'
  BY <1>a, <1>m, <1>0, RebindKept
<1>e. ASSUME NEW t \in Conns, NEW l, th' = [th EXCEPT ![t] = l], RebindOK(l)',
             \A s \in Conns \ {t} : th[s].then = "relOld" =>
                /\ back'[th[s].req] = back[th[s].req]
                /\ finished'[th[s].req] = finished[th[s].req]
                /\ bound'[th[s].req] # {}
      PROVE  \A s \in Conns : RebindOK(th[s])'
  <2>1. th'[t] = l /\ \A s \in Conns \ {t} : th'[s] = th[s]
    BY <1>e, <1>0, <1>t, OneThread
  <2>2. \A s \in Conns \ {t} : RebindOK(th[s])'
    BY <2>1, <1>e, <1>0, RebindKept
  <2>3. RebindOK(th[t])'
    BY <2>1, <1>e DEF RebindOK
  <2>4. QED BY <2>2, <2>3
<1>l. ASSUME NEW t \in Conns, NEW l, th' = [th EXCEPT ![t] = l], RebindOK(l)',
             UNCHANGED <<back, finished, bound>>
      PROVE  \A s \in Conns : RebindOK(th[s])'
  BY <1>l, <1>e, <1>m
<1>i. ASSUME NEW l, l.old = None, l.then # "relOld", l.pc \notin {"relOld", "attach"}
      PROVE  RebindOK(l)'
  BY <1>i DEF RebindOK
<1>1. ASSUME CallerStep PROVE \A t \in Conns : RebindOK(th[t])'
  <2>1. UNCHANGED <<back, finished, bound>> /\ \A s \in Conns : th'[s] = th[s]
    <3>1. PICK l : th' = [th EXCEPT ![Caller] = l] /\ UNCHANGED <<back, finished, bound>>
      BY <1>1 DEF CallerStep, SubmitLocked, SubmitReturn, ending, dataplane
    <3>2. QED BY <3>1, <1>t
  <2>2. QED BY <2>1, <1>a
<1>2. ASSUME NEW f \in Fronts, NEW r \in Reqs, NEW u \in Tasks, OnClassified(f, r, u)
      PROVE  \A t \in Conns : RebindOK(th[t])'
  <2>1. PICK l : l = [Idle EXCEPT !.pc = "bind", !.req = r, !.task = u]
    OBVIOUS
  <2>2. /\ f \in Conns /\ th' = [th EXCEPT ![f] = l] /\ UNCHANGED <<back, finished, bound>>
        /\ l.pc = "bind" /\ l.then = "idle" /\ l.old = None
    BY <2>1, <1>2, <1>t DEF OnClassified, Idle, ending
  <2>3. QED BY <2>2, <1>i, <1>l
<1>3. ASSUME NEW t \in Conns, BindFail(t) \/ BindQueue(t) PROVE \A s \in Conns : RebindOK(th[s])'
  <2>1. /\ th[t].pc = "bind" /\ th[t].then = "idle" /\ th[t].req \in Reqs
        /\ th' = [th EXCEPT ![t] = Idle]
    BY <1>3, <1>0, BindEnds
  <2>2. PICK r \in Reqs : r = th[t].req
    BY <2>1
  <2>3. UNCHANGED <<back, bound>> /\ \A q \in Reqs \ {r} : finished'[q] = finished[q]
    BY <1>3, <2>2, <1>t DEF BindFail, BindQueue, ending, dataplane
  <2>4. \A s \in Conns \ {t} : th[s].then = "relOld" => th[s].req # r
    BY <2>1, <2>2, <1>m, <1>0 DEF OneHandlerPerRequest, Handling
  <2>5. RebindOK(Idle)'
    BY <1>i DEF Idle
  <2>6. QED BY <2>1, <2>3, <2>4, <2>5, <1>e, <1>m
<1>4. ASSUME NEW t \in Conns, BindPop(t) PROVE \A s \in Conns : RebindOK(th[s])'
  <2>1. PICK r \in Reqs, u \in Tasks : r = th[t].req /\ u = th[t].task
    BY <1>4, <1>t DEF BindPop, LocalsOK
  <2>2. PICK b : b = Head(free_backs[u])
    OBVIOUS
  <2>3. PICK l : l = [th[t] EXCEPT !.pc = "attach", !.nxt = r, !.seg = b]
    OBVIOUS
  <2>4. th' = [th EXCEPT ![t] = l] /\ UNCHANGED <<back, finished, bound>> /\ th[t].pc = "bind"
    BY <2>1, <2>2, <2>3, <1>4 DEF BindPop, ending, dataplane
  <2>5. /\ l.pc = "attach" /\ l.nxt = r /\ l.seg = b /\ l.req = r /\ l.task = u
        /\ l.then = th[t].then /\ l.old = th[t].old /\ l.oldTask = th[t].oldTask
    BY <2>1, <2>3, <1>t DEF Locals
  <2>6. b \in ToSet(free_backs[u]) /\ b \in ToSet(BackQueue[u])
    <3>1. free_backs[u] # <<>> /\ free_backs[u] \in Seq(Backs)
      BY <2>1, <1>4, <1>t DEF BindPop
    <3>2. QED BY <3>1, <2>2, <1>0, TailOfQueue DEF BackPoolsOK
  <2>7. th[t].then = "relOld" => b # th[t].old
    <3>1. th[t].then = "relOld" => BackHeld(r, th[t].old)
      BY <2>1 DEF BackHeld
    <3>2. ~BackHeld(r, b)
      BY <2>6, <1>0 DEF BackPoolsOK
    <3>3. QED BY <3>1, <3>2
  <2>8. RebindOK(l)'
    BY <2>1, <2>4, <2>5, <2>6, <2>7, <1>0 DEF RebindOK
  <2>9. QED BY <2>4, <2>8, <1>l
<1>5. ASSUME NEW t \in Conns, AttachBack(t) PROVE \A s \in Conns : RebindOK(th[s])'
  <2>1. PICK r \in Reqs, b \in Backs : r = th[t].nxt /\ b = th[t].seg /\ th[t].pc = "attach"
    BY <1>5, <1>t DEF AttachBack, LocalsOK
  <2>2. PICK l : l = Goto(t, th[t].then)
    OBVIOUS
  <2>3. /\ th' = [th EXCEPT ![t] = l] /\ UNCHANGED finished
        /\ back' = [back EXCEPT ![r] = b] /\ bound' = [bound EXCEPT ![r] = bound[r] \cup {b}]
    BY <2>1, <2>2, <1>5 DEF AttachBack, ending
  <2>4. /\ back'[r] = b /\ bound'[r] # {}
        /\ \A q \in Reqs \ {r} : back'[q] = back[q] /\ bound'[q] = bound[q]
    BY <2>3, <1>t
  <2>5. \A s \in Conns \ {t} : th[s].then = "relOld" => th[s].req # r
    <3>1. CASE th[t].then = "relOld"
      <4>1. th[t].req = r
        BY <2>1, <3>1, <1>0 DEF RebindOK
      <4>2. QED BY <4>1, <2>1, <1>m, <1>0 DEF OneHandlerPerRequest, Handling
    <3>2. CASE th[t].then # "relOld"
      <4>1. Pending(r, "attach", t) /\ "attach" \in Stages /\ t \in Places
        BY <2>1, <3>2 DEF Pending, Serving, Stages, Places
      <4>2. bound[r] = {}
        BY <4>1, <1>0 DEF PlacesOK, Fresh
      <4>3. QED BY <4>2, <1>m
    <3>3. QED BY <3>1, <3>2
  <2>6. RebindOK(l)'
    <3>1. CASE th[t].then = "idle"
      <4>1. l = Idle
        BY <2>2, <3>1 DEF Goto
      <4>2. QED BY <4>1, <1>i DEF Idle
    <3>2. CASE th[t].then = "relFront"
      <4>1. th[t].old = None
        BY <3>2, <1>0 DEF RebindOK
      <4>2. l.pc = "relFront" /\ l.then = "relFront" /\ l.old = None
        BY <4>1, <2>2, <3>2, <1>0, <1>t, GotoLocals
      <4>3. QED BY <4>2, <1>i
    <3>3. CASE th[t].then = "relOld"
      <4>1. /\ l.pc = "relOld" /\ l.then = "relOld" /\ l.req = th[t].req /\ l.old = th[t].old
            /\ l.oldTask = th[t].oldTask
        BY <2>2, <3>3, <1>0, <1>t, GotoLocals
      <4>2. /\ th[t].old # None /\ th[t].old # b /\ th[t].req = r
            /\ th[t].old \in ToSet(BackQueue[th[t].oldTask])
        BY <2>1, <3>3, <1>0 DEF RebindOK
      <4>3. QED BY <4>1, <4>2, <2>4 DEF RebindOK
    <3>4. QED BY <3>1, <3>2, <3>3, <1>t DEF Locals
  <2>7. QED BY <2>3, <2>4, <2>5, <2>6, <1>e, <1>m
<1>6. ASSUME NEW b \in Backs, NEW r \in Reqs, Token(b, r) PROVE \A s \in Conns : RebindOK(th[s])'
  <2>1. b \in Conns /\ UNCHANGED <<back, finished, bound>>
    BY <1>6, <1>t DEF Token, TokenKept, TokenStop, TokenAlarmStay, TokenRebind, ending, dataplane
  <2>2. CASE th' = th
    BY <2>1, <2>2, <1>a
  <2>3. ASSUME NEW n \in {0, 1}, TokenStop(b, r, n) PROVE \A s \in Conns : RebindOK(th[s])'
    <3>1. PICK l : l = [Idle EXCEPT !.pc = "finTest", !.req = r]
      OBVIOUS
    <3>2. th' = [th EXCEPT ![b] = l] /\ l.pc = "finTest" /\ l.then = "idle" /\ l.old = None
      BY <2>3, <3>1 DEF TokenStop, Idle
    <3>3. QED BY <3>2, <2>1, <1>i, <1>l
  <2>4. ASSUME NEW n \in {0, 1}, NEW u \in Tasks, TokenRebind(b, r, n, u)
        PROVE  \A s \in Conns : RebindOK(th[s])'
    <3>1. PICK l : l = [Idle EXCEPT !.pc = "bind", !.req = r, !.task = u, !.old = back[r],
                                    !.oldTask = task[r], !.then = "relOld"]
      OBVIOUS
    <3>2. /\ th' = [th EXCEPT ![b] = l] /\ l.pc = "bind" /\ l.then = "relOld" /\ l.req = r
          /\ l.old = back[r] /\ l.oldTask = task[r]
      BY <2>4, <3>1 DEF TokenRebind, Idle
    <3>3. bound[r] # {} /\ ~finished[r] /\ th[b].pc = "idle"
      BY <2>4 DEF TokenRebind, TakeToken
    <3>4. back[r] # None
      BY <3>3, <1>0, <1>t DEF RequestsOK
    <3>5. ASSUME NEW s \in Conns, th[s].req = r, th[s].then = "relOld" PROVE FALSE
      <4>1. Handling(s, r) /\ s # b
        BY <3>3, <3>5, <1>m DEF Handling
      <4>2. th'[b] = l /\ th'[s] = th[s]
        BY <4>1, <3>2, <2>1, <1>0, <1>t, OneThread
      <4>3. Handling(s, r)' /\ Handling(b, r)'
        BY <4>1, <4>2, <3>2 DEF Handling
      <4>4. QED BY <4>1, <4>3, <2>1 DEF OneHandlerPerRequest
    <3>6. back[r] \in ToSet(BackQueue[task[r]])
      BY <3>4, <3>5, <1>0 DEF PairedOK, Moving
    <3>7. RebindOK(l)'
      BY <3>2, <3>3, <3>4, <3>6, <2>1 DEF RebindOK
    <3>8. QED BY <3>2, <3>7, <2>1, <1>l
  <2>5. QED BY <2>2, <2>3, <2>4, <1>6 DEF Token, TokenKept, TokenAlarmStay
<1>7. ASSUME NEW t \in Conns, FinishTest(t) \/ FinishMark(t) \/ FinishSend(t)
      PROVE  \A s \in Conns : RebindOK(th[s])'
  <2>1. /\ th[t].pc \in {"finTest", "finMark", "finSend"} /\ th[t].req \in Reqs
        /\ th[t].then # "relOld" /\ th[t].old = None
    BY <1>7, <1>0, <1>t DEF FinishTest, FinishMark, FinishSend, RebindOK, LocalsOK
  <2>2. PICK r \in Reqs : r = th[t].req
    BY <2>1
  <2>3. /\ UNCHANGED <<back, bound>>
        /\ finished' = finished \/ finished' = [finished EXCEPT ![r] = TRUE]
    BY <2>2, <1>7 DEF FinishTest, FinishMark, FinishSend, ending, dataplane
  <2>4. PICK l : /\ th' = [th EXCEPT ![t] = l] /\ l.old = None /\ l.then # "relOld"
                 /\ l.pc \notin {"relOld", "attach"}
    <3>1. PICK l1, l2, l3 : /\ l1 = [th[t] EXCEPT !.pc = "finMark"]
                            /\ l2 = [th[t] EXCEPT !.pc = "finSend"]
                            /\ l3 = [th[t] EXCEPT !.pc = "relBack"]
      OBVIOUS
    <3>2. \A l \in {l1, l2, l3, Idle} :
             l.old = None /\ l.then # "relOld" /\ l.pc \notin {"relOld", "attach"}
      BY <2>1, <3>1, <1>t DEF Locals, Idle
    <3>3. \E l \in {l1, l2, l3, Idle} : th' = [th EXCEPT ![t] = l]
      BY <3>1, <1>7 DEF FinishTest, FinishMark, FinishSend
    <3>4. QED BY <3>2, <3>3
  <2>5. \A s \in Conns \ {t} : th[s].then = "relOld" => th[s].req # r
    BY <2>1, <2>2, <1>m, <1>0 DEF OneHandlerPerRequest, Handling
  <2>6. \A s \in Conns \ {t} : th[s].then = "relOld" => finished'[th[s].req] = finished[th[s].req]
    BY <2>3, <2>5, <1>m, <1>t
  <2>7. RebindOK(l)'
    BY <2>4, <1>i
  <2>8. QED BY <2>3, <2>4, <2>6, <2>7, <1>e, <1>m
<1>8. ASSUME NEW t \in Conns, ReleaseBack(t) \/ ReleaseOld(t) PROVE \A s \in Conns : RebindOK(th[s])'
  <2>1. UNCHANGED <<back, bound, finished>>
    BY <1>8, <1>0, Returning
  <2>2. PICK u \in Tasks, b \in Backs, after \in {"idle", "relFront"} :
          ReturnBack(t, u, b, after) /\ b \in ToSet(BackQueue[u])
    BY <1>8, <1>0, Returning, GoesBack
  <2>3. PICK l : /\ th' = [th EXCEPT ![t] = l]
                 /\ Passes(t, u, b, after, l) \/ Keeps(t, u, b, after, l)
    BY <2>2, <1>0, Returned
  <2>4. RebindOK(l)'
    <3>1. CASE Passes(t, u, b, after, l)
      BY <2>2, <3>1 DEF Passes, RebindOK
    <3>2. CASE Keeps(t, u, b, after, l)
      BY <3>2, <1>i DEF Keeps
    <3>3. QED BY <2>3, <3>1, <3>2
  <2>5. QED BY <2>1, <2>3, <2>4, <1>l
<1>9. ASSUME NEW t \in Conns, ReleaseFront(t) \/ StartFront(t) PROVE \A s \in Conns : RebindOK(th[s])'
  <2>1. UNCHANGED <<back, finished, bound>>
    BY <1>9 DEF ReleaseFront, StartFront, ending, dataplane
  <2>2. PICK l : /\ th' = [th EXCEPT ![t] = l] /\ l.old = None /\ l.then # "relOld"
                 /\ l.pc \notin {"relOld", "attach"}
    <3>1. PICK l1 : l1 = [Idle EXCEPT !.pc = "start", !.nxt = Head(arrivals)]
      OBVIOUS
    <3>2. /\ l1.old = None /\ l1.then # "relOld" /\ l1.pc \notin {"relOld", "attach"}
          /\ Idle.old = None /\ Idle.then # "relOld" /\ Idle.pc \notin {"relOld", "attach"}
      BY <3>1 DEF Idle
    <3>3. th' = [th EXCEPT ![t] = l1] \/ th' = [th EXCEPT ![t] = Idle]
      <4>1. CASE StartFront(t)
        BY <4>1 DEF StartFront
      <4>2. CASE ReleaseFront(t)
        BY <4>2, <3>1 DEF ReleaseFront
      <4>3. QED BY <4>1, <4>2, <1>9
    <3>4. QED BY <3>2, <3>3
  <2>3. RebindOK(l)'
    BY <2>2, <1>i
  <2>4. QED BY <2>1, <2>2, <2>3, <1>l
<1>10. CASE UNCHANGED vars
  BY <1>10, <1>a DEF vars, ending, dataplane
<1>11. QED
  BY <1>1, <1>2, <1>3, <1>4, <1>5, <1>6, <1>7, <1>8, <1>9, <1>10
     DEF Next, Classified, HandlerStep

(* A request that does not move has a segment of its task's pool.          *)
LEMMA PairedStep == TimelyInv /\ [Next]_vars => PairedOK'
<1> SUFFICES ASSUME TimelyInv, [Next]_vars PROVE PairedOK'
  OBVIOUS
<1>0. /\ TypeInv /\ PlacesOK /\ BackPoolsOK /\ PairedOK
      /\ \A t \in Conns : EndingOK(t) /\ RebindOK(th[t])
      /\ OneHandlerPerRequest /\ RebindPoolHolds
  BY DEF TimelyInv, BackInv, FrontInv
<1>t. /\ th \in [Threads -> Locals] /\ \A t \in Threads : LocalsOK(t)
      /\ back \in [Reqs -> Backs \cup {None}] /\ task \in [Reqs -> Tasks \cup {None}]
      /\ Caller \in Threads /\ Conns = Threads \ {Caller}
      /\ Fronts \subseteq Conns /\ Backs \subseteq Conns
  BY <1>0, Typed
<1>a. ASSUME UNCHANGED <<back, task>>, \A s \in Conns, r \in Reqs : Moving(th[s], r) => Moving(th'[s], r)
      PROVE  PairedOK'
  <2>1. ASSUME NEW r \in Reqs
        PROVE  \/ back'[r] = None \/ \E s \in Conns : Moving(th'[s], r)
               \/ back'[r] \in ToSet(BackQueue[task'[r]])
    <3>1. CASE back[r] = None
      BY <3>1, <1>a
    <3>2. ASSUME NEW s \in Conns, Moving(th[s], r) PROVE \E p \in Conns : Moving(th'[p], r)
      BY <3>2, <1>a
    <3>3. CASE back[r] \in ToSet(BackQueue[task[r]])
      BY <3>3, <1>a
    <3>4. QED BY <3>1, <3>2, <3>3, <1>0 DEF PairedOK
  <2>2. QED BY <2>1 DEF PairedOK, Moving
<1>k. ASSUME NEW t \in Conns, NEW l, th' = [th EXCEPT ![t] = l], UNCHANGED <<back, task>>,
             \A r \in Reqs : Moving(th[t], r) => Moving(l, r)
      PROVE  PairedOK'
  <2>1. th'[t] = l /\ \A s \in Conns \ {t} : th'[s] = th[s]
    BY <1>k, <1>0, <1>t, OneThread
  <2>2. \A s \in Conns, r \in Reqs : Moving(th[s], r) => Moving(th'[s], r)
    BY <2>1, <1>k
  <2>3. QED BY <2>2, <1>k, <1>a
(* A step that gives r a label or a segment.                               *)
<1>c. ASSUME NEW t \in Conns, NEW l, th' = [th EXCEPT ![t] = l], NEW r \in Reqs,
             \A q \in Reqs \ {r} : back'[q] = back[q] /\ task'[q] = task[q],
             \A q \in Reqs \ {r} : Moving(th[t], q) => Moving(l, q),
             \/ back'[r] = None \/ Moving(l, r) \/ back'[r] \in ToSet(BackQueue[task'[r]])
      PROVE  PairedOK'
  <2>1. th'[t] = l /\ \A s \in Conns \ {t} : th'[s] = th[s]
    BY <1>c, <1>0, <1>t, OneThread
  <2>2. ASSUME NEW q \in Reqs \ {r}
        PROVE  \/ back'[q] = None \/ \E s \in Conns : Moving(th'[s], q)
               \/ back'[q] \in ToSet(BackQueue[task'[q]])
    <3>1. CASE back[q] = None
      BY <3>1, <1>c
    <3>2. ASSUME NEW s \in Conns, Moving(th[s], q) PROVE \E p \in Conns : Moving(th'[p], q)
      BY <3>2, <2>1, <1>c
    <3>3. CASE back[q] \in ToSet(BackQueue[task[q]])
      BY <3>3, <1>c
    <3>4. QED BY <3>1, <3>2, <3>3, <1>0 DEF PairedOK
  <2>3. \/ back'[r] = None \/ \E s \in Conns : Moving(th'[s], r)
        \/ back'[r] \in ToSet(BackQueue[task'[r]])
    BY <2>1, <1>c
  <2>4. QED BY <2>2, <2>3 DEF PairedOK, Moving
<1>n. ASSUME NEW t \in Conns, th[t].then # "relOld", NEW l, th' = [th EXCEPT ![t] = l],
             UNCHANGED <<back, task>>
      PROVE  PairedOK'
  BY <1>n, <1>k DEF Moving
<1>1. ASSUME CallerStep PROVE PairedOK'
  <2>1. PICK l : th' = [th EXCEPT ![Caller] = l] /\ UNCHANGED <<back, task>>
    BY <1>1 DEF CallerStep, SubmitLocked, SubmitReturn
  <2>2. \A s \in Conns : th'[s] = th[s]
    BY <2>1, <1>t
  <2>3. QED BY <2>1, <2>2, <1>a
<1>2. ASSUME NEW f \in Fronts, NEW r \in Reqs, NEW u \in Tasks, OnClassified(f, r, u)
      PROVE  PairedOK'
  <2>1. PICK l : f \in Conns /\ th' = [th EXCEPT ![f] = l]
    BY <1>2, <1>t DEF OnClassified
  <2>2. /\ UNCHANGED back /\ task' = [task EXCEPT ![r] = u] /\ th[f].pc = "idle"
    BY <1>2 DEF OnClassified
  <2>3. back[r] = None
    <3>1. Pending(r, "prefill", None) /\ "prefill" \in Stages /\ None \in Places
      BY <1>2, <1>0, Typed DEF OnClassified, Pending, Stages, Places
    <3>2. QED BY <3>1, <1>0 DEF PlacesOK, Fresh
  <2>4. th[f].then = "idle"
    BY <2>1, <2>2, <1>t DEF LocalsOK
  <2>5. QED BY <2>1, <2>2, <2>3, <2>4, <1>c, <1>t DEF Moving
<1>3. ASSUME NEW t \in Conns, BindFail(t) \/ BindQueue(t) PROVE PairedOK'
  <2>1. th[t].then = "idle" /\ th' = [th EXCEPT ![t] = Idle]
    BY <1>3, <1>0, BindEnds
  <2>2. UNCHANGED <<back, task>>
    BY <1>3 DEF BindFail, BindQueue
  <2>3. QED BY <2>1, <2>2, <1>n
<1>4. ASSUME NEW t \in Conns, BindPop(t) PROVE PairedOK'
  <2>1. PICK l : l = [th[t] EXCEPT !.pc = "attach", !.nxt = th[t].req,
                                   !.seg = Head(free_backs[th[t].task])]
    OBVIOUS
  <2>2. th' = [th EXCEPT ![t] = l] /\ UNCHANGED <<back, task>>
    BY <2>1, <1>4 DEF BindPop
  <2>3. l.pc = "attach" /\ l.req = th[t].req /\ l.then = th[t].then
    BY <2>1, <1>t DEF Locals
  <2>4. QED BY <2>2, <2>3, <1>k DEF Moving
<1>5. ASSUME NEW t \in Conns, AttachBack(t) PROVE PairedOK'
  <2>1. PICK r \in Reqs, b \in Backs, u \in Tasks :
          /\ r = th[t].nxt /\ b = th[t].seg /\ u = th[t].task /\ th[t].pc = "attach"
          /\ b \in ToSet(BackQueue[u])
    BY <1>5, <1>0, <1>t DEF AttachBack, LocalsOK, RebindOK
  <2>2. PICK l : l = Goto(t, th[t].then)
    OBVIOUS
  <2>3. /\ th' = [th EXCEPT ![t] = l]
        /\ back' = [back EXCEPT ![r] = b] /\ task' = [task EXCEPT ![r] = u]
    BY <2>1, <2>2, <1>5 DEF AttachBack
  <2>4. back'[r] \in ToSet(BackQueue[task'[r]])
        /\ \A q \in Reqs \ {r} : back'[q] = back[q] /\ task'[q] = task[q]
    BY <2>1, <2>3, <1>t
  <2>5. \A q \in Reqs \ {r} : ~Moving(th[t], q)
    BY <2>1, <1>0 DEF Moving, RebindOK
  <2>6. QED BY <2>3, <2>4, <2>5, <1>c
<1>6. ASSUME NEW b \in Backs, NEW r \in Reqs, Token(b, r) PROVE PairedOK'
  <2>1. b \in Conns /\ UNCHANGED back /\ th[b].pc = "idle"
    BY <1>6, <1>t DEF Token, TokenKept, TokenStop, TokenAlarmStay, TokenRebind, TakeToken
  <2>2. th[b].then = "idle"
    BY <2>1, <1>t DEF LocalsOK
  <2>3. CASE th' = th /\ task' = task
    BY <2>1, <2>3, <1>a
  <2>4. ASSUME NEW n \in {0, 1}, TokenStop(b, r, n) PROVE PairedOK'
    <3>1. PICK l : th' = [th EXCEPT ![b] = l] /\ task' = task
      BY <2>4 DEF TokenStop
    <3>2. QED BY <3>1, <2>1, <2>2, <1>n
  <2>5. ASSUME NEW n \in {0, 1}, NEW u \in Tasks, TokenRebind(b, r, n, u) PROVE PairedOK'
    <3>1. PICK l : l = [Idle EXCEPT !.pc = "bind", !.req = r, !.task = u, !.old = back[r],
                                    !.oldTask = task[r], !.then = "relOld"]
      OBVIOUS
    <3>2. /\ th' = [th EXCEPT ![b] = l] /\ l.pc = "bind" /\ l.then = "relOld" /\ l.req = r
          /\ task' = [task EXCEPT ![r] = u]
      BY <2>5, <3>1 DEF TokenRebind, Idle
    <3>3. Moving(l, r) /\ \A q \in Reqs : ~Moving(th[b], q)
      BY <3>2, <2>2 DEF Moving
    <3>4. \A q \in Reqs \ {r} : back'[q] = back[q] /\ task'[q] = task[q]
      BY <3>2, <2>1, <1>t
    <3>5. QED BY <3>2, <3>3, <3>4, <2>1, <1>c
  <2>6. QED BY <2>3, <2>4, <2>5, <1>6 DEF Token, TokenKept, TokenAlarmStay
<1>7. ASSUME NEW t \in Conns, \/ FinishTest(t) \/ FinishMark(t) \/ FinishSend(t)
                              \/ ReleaseFront(t) \/ StartFront(t)
      PROVE  PairedOK'
  <2>1. PICK l : th' = [th EXCEPT ![t] = l] /\ UNCHANGED <<back, task>>
    BY <1>7 DEF FinishTest, FinishMark, FinishSend, ReleaseFront, StartFront
  <2>2. th[t].then # "relOld"
    BY <1>7, <1>0 DEF FinishTest, FinishMark, FinishSend, ReleaseFront, StartFront, RebindOK
  <2>3. QED BY <2>1, <2>2, <1>n
<1>8. ASSUME NEW t \in Conns, ReleaseBack(t) \/ ReleaseOld(t) PROVE PairedOK'
  <2>1. UNCHANGED <<back, task>> /\ th[t].pc \in {"relBack", "relOld"}
    BY <1>8, <1>0, Returning
  <2>2. PICK l : th' = [th EXCEPT ![t] = l]
    <3>1. PICK u \in Tasks, b \in Backs, after \in {"idle", "relFront"} : ReturnBack(t, u, b, after)
      BY <1>8, <1>0, Returning
    <3>2. QED BY <3>1, <1>0, Returned
  <2>3. \A r \in Reqs : ~Moving(th[t], r)
    BY <2>1, <1>0 DEF Moving, RebindOK
  <2>4. QED BY <2>1, <2>2, <2>3, <1>k
<1>9. CASE UNCHANGED vars
  BY <1>9, <1>a DEF vars
<1>10. QED
  BY <1>1, <1>2, <1>3, <1>4, <1>5, <1>6, <1>7, <1>8, <1>9
     DEF Next, Classified, HandlerStep

-----------------------------------------------------------------------------
(* Holders *)

Others(t, r, b) == \E s \in Conns \ {t} : Carries(th[s], r, b)
OthersClose(t, r) == \E s \in Conns \ {t} : Closing(th[s], r)

(* Who holds a segment, seen from one thread, before and after its step.   *)
LEMMA HeldBy ==
    ASSUME NEW t \in Conns, NEW r, NEW b
    PROVE  BackHeld(r, b) <=>
              \/ Others(t, r, b) \/ Carries(th[t], r, b)
              \/ back[r] = b /\ (~finished[r] \/ OthersClose(t, r) \/ Closing(th[t], r))
BY DEF BackHeld, Others, OthersClose, Carries, Closing

LEMMA HeldAfter ==
    ASSUME TypeInv, NEW t \in Conns, NEW l, th' = [th EXCEPT ![t] = l], NEW r, NEW b
    PROVE  BackHeld(r, b)' <=>
              \/ Others(t, r, b) \/ Carries(l, r, b)
              \/ back'[r] = b /\ (~finished'[r] \/ OthersClose(t, r) \/ Closing(l, r))
<1>1. th'[t] = l /\ \A s \in Conns \ {t} : th'[s] = th[s]
  BY OneThread, Typed
<1>2. \/ Others(t, r, b) \/ Carries(l, r, b)
      \/ back'[r] = b /\ (~finished'[r] \/ OthersClose(t, r) \/ Closing(l, r))
      <=> \/ \E s \in Conns : Carries(th'[s], r, b)
          \/ back'[r] = b /\ (~finished'[r] \/ \E s \in Conns : Closing(th'[s], r))
  BY <1>1 DEF Others, OthersClose
<1>3. BackHeld(r, b)' <=>
          \/ \E s \in Conns : Carries(th'[s], r, b)
          \/ back'[r] = b /\ (~finished'[r] \/ \E s \in Conns : Closing(th'[s], r))
  BY DEF BackHeld, Carries, Closing
<1>4. QED BY <1>2, <1>3

(* A segment belongs to one pool.                                          *)
LEMMA PoolOf ==
    ASSUME NEW u \in Tasks, NEW v \in Tasks, NEW b \in ToSet(BackQueue[u]), b \in ToSet(BackQueue[v])
    PROVE  u = v /\ b \in Backs
<1>1. ToSet(BackQueue[u]) \cap ToSet(BackQueue[v]) # {}
  OBVIOUS
<1>2. QED BY <1>1, BacksAssumption DEF Backs

(* What a step may do to the holders of back segments: nothing, or give a  *)
(* free one to a running request, or hand over or take back one that its   *)
(* holder need not keep: it has ended, or has another one.                 *)
BackStay == \A r \in Reqs, b \in Backs : BackHeld(r, b)' <=> BackHeld(r, b)

BackTaken(r, b) ==
    /\ ~finished[r]
    /\ \A q \in Reqs : ~BackHeld(q, b)
    /\ \A q \in Reqs, c \in Backs : BackHeld(q, c)' <=> BackHeld(q, c) \/ (q = r /\ c = b)

Dispensable(r, b) == finished[r] \/ \E c \in Backs \ {b} : BackHeld(r, c)

BackPassed(r, q, b) ==
    /\ BackHeld(r, b) /\ Dispensable(r, b) /\ q # r /\ ~finished[q]
    /\ \A p \in Reqs, c \in Backs :
          BackHeld(p, c)' <=> (BackHeld(p, c) /\ ~(p = r /\ c = b)) \/ (p = q /\ c = b)

BackReturned(r, b) ==
    /\ BackHeld(r, b) /\ Dispensable(r, b)
    /\ \A p \in Reqs, c \in Backs :
          BackHeld(p, c)' <=> (BackHeld(p, c) /\ ~(p = r /\ c = b))

BackMoves ==
    \/ BackStay
    \/ /\ <<free_backs, await_back>>' # <<free_backs, await_back>>
       /\ \E r \in Reqs, b \in Backs :
             \/ BackTaken(r, b) \/ BackReturned(r, b)
             \/ \E q \in Reqs : BackPassed(r, q, b)

(* What each of these does to the pools.                                   *)
LEMMA PoolsSame ==
    ASSUME BackPoolsOK, free_backs' = free_backs,
           \A r \in Reqs, b \in Backs : BackHeld(r, b)' <=> BackHeld(r, b)
    PROVE  BackPoolsOK' /\ BackMoves
<1>1. \A u \in Tasks : \A b \in ToSet(BackQueue[u]) : b \in Backs
  BY DEF Backs
<1>2. QED BY <1>1 DEF BackPoolsOK, BackMoves, BackStay

LEMMA PoolsTake ==
    ASSUME TypeInv, BackPoolsOK, NEW u \in Tasks, NEW r \in Reqs, free_backs[u] # <<>>,
           free_backs' = [free_backs EXCEPT ![u] = Tail(free_backs[u])], ~finished[r],
           \A q \in Reqs, b \in Backs :
              BackHeld(q, b)' <=> BackHeld(q, b) \/ (q = r /\ b = Head(free_backs[u]))
    PROVE  BackPoolsOK' /\ BackMoves
<1>1. PICK h : h = Head(free_backs[u])
  OBVIOUS
<1>2. free_backs[u] \in Seq(Backs) /\ free_backs'[u] = Tail(free_backs[u])
      /\ \A v \in Tasks \ {u} : free_backs'[v] = free_backs[v]
  BY Typed
<1>3. IsInjective(free_backs[u]) /\ ToSet(free_backs[u]) \subseteq ToSet(BackQueue[u])
  BY DEF BackPoolsOK
<1>4. /\ ToSet(free_backs[u]) = ToSet(free_backs'[u]) \cup {h} /\ h \in ToSet(free_backs[u])
      /\ h \notin ToSet(free_backs'[u]) /\ IsInjective(free_backs'[u])
  BY <1>1, <1>2, <1>3, TailOfQueue
<1>5. h \in ToSet(BackQueue[u]) /\ h \in Backs /\ \A q \in Reqs : ~BackHeld(q, h)
  BY <1>3, <1>4, PoolOf DEF BackPoolsOK
<1>6. \A v \in Tasks : IsInjective(free_backs'[v]) /\ ToSet(free_backs'[v]) \subseteq ToSet(BackQueue[v])
  BY <1>2, <1>3, <1>4 DEF BackPoolsOK
<1>7. ASSUME NEW v \in Tasks, NEW b \in ToSet(BackQueue[v])
      PROVE  b \in ToSet(free_backs'[v]) <=> \A q \in Reqs : ~BackHeld(q, b)'
  <2>1. b \in Backs /\ (b = h => v = u)
    BY <1>5, PoolOf
  <2>2. CASE b = h
    BY <2>1, <2>2, <1>1, <1>4
  <2>3. CASE b # h
    <3>1. b \in ToSet(free_backs'[v]) <=> b \in ToSet(free_backs[v])
      BY <2>3, <1>2, <1>4
    <3>2. \A q \in Reqs : BackHeld(q, b)' <=> BackHeld(q, b)
      BY <2>1, <2>3, <1>1
    <3>3. QED BY <3>1, <3>2 DEF BackPoolsOK
  <2>4. QED BY <2>2, <2>3
<1>8. ASSUME NEW b \in Backs, NEW p \in Reqs, NEW q \in Reqs, BackHeld(p, b)', BackHeld(q, b)'
      PROVE  p = q
  BY <1>1, <1>5, <1>8 DEF BackPoolsOK
<1>9. BackTaken(r, h) /\ free_backs' # free_backs
  BY <1>1, <1>2, <1>4, <1>5 DEF BackTaken
<1>10. QED BY <1>5, <1>6, <1>7, <1>8, <1>9 DEF BackPoolsOK, BackMoves

LEMMA PoolsPass ==
    ASSUME BackPoolsOK, free_backs' = free_backs, await_back' # await_back,
           NEW r \in Reqs, NEW q \in Reqs, NEW b \in Backs, BackHeld(r, b),
           Dispensable(r, b), q # r, ~finished[q],
           \A p \in Reqs, c \in Backs :
              BackHeld(p, c)' <=> (BackHeld(p, c) /\ ~(p = r /\ c = b)) \/ (p = q /\ c = b)
    PROVE  BackPoolsOK' /\ BackMoves
<1>1. ASSUME NEW v \in Tasks, NEW c \in ToSet(BackQueue[v])
      PROVE  c \in ToSet(free_backs'[v]) <=> \A p \in Reqs : ~BackHeld(p, c)'
  <2>1. c \in Backs
    BY DEF Backs
  <2>2. c \in ToSet(free_backs[v]) <=> \A p \in Reqs : ~BackHeld(p, c)
    BY DEF BackPoolsOK
  <2>3. QED BY <2>1, <2>2
<1>2. ASSUME NEW c \in Backs, NEW p \in Reqs, NEW o \in Reqs, BackHeld(p, c)', BackHeld(o, c)'
      PROVE  p = o
  <2>1. CASE c = b
    <3>1. \A x \in Reqs : BackHeld(x, b) => x = r
      BY DEF BackPoolsOK
    <3>2. QED BY <2>1, <3>1, <1>2
  <2>2. CASE c # b
    BY <2>2, <1>2 DEF BackPoolsOK
  <2>3. QED BY <2>1, <2>2
<1>3. BackPassed(r, q, b)
  BY DEF BackPassed
<1>4. QED BY <1>1, <1>2, <1>3 DEF BackPoolsOK, BackMoves

LEMMA PoolsReturn ==
    ASSUME TypeInv, BackPoolsOK, NEW u \in Tasks, NEW r \in Reqs, NEW b \in ToSet(BackQueue[u]),
           BackHeld(r, b), Dispensable(r, b),
           free_backs' = [free_backs EXCEPT ![u] = Append(free_backs[u], b)],
           \A p \in Reqs, c \in Backs :
              BackHeld(p, c)' <=> (BackHeld(p, c) /\ ~(p = r /\ c = b))
    PROVE  BackPoolsOK' /\ BackMoves
<1>1. free_backs[u] \in Seq(Backs) /\ free_backs'[u] = Append(free_backs[u], b)
      /\ \A v \in Tasks \ {u} : free_backs'[v] = free_backs[v]
  BY Typed
<1>2. IsInjective(free_backs[u]) /\ ToSet(free_backs[u]) \subseteq ToSet(BackQueue[u])
  BY DEF BackPoolsOK
<1>3. b \in Backs /\ b \notin ToSet(free_backs[u]) /\ \A p \in Reqs : BackHeld(p, b) => p = r
  BY PoolOf DEF BackPoolsOK
<1>4. ToSet(free_backs'[u]) = ToSet(free_backs[u]) \cup {b} /\ IsInjective(free_backs'[u])
  BY <1>1, <1>2, <1>3, AppendToQueue
<1>5. \A v \in Tasks : IsInjective(free_backs'[v]) /\ ToSet(free_backs'[v]) \subseteq ToSet(BackQueue[v])
  BY <1>1, <1>2, <1>4 DEF BackPoolsOK
<1>6. ASSUME NEW v \in Tasks, NEW c \in ToSet(BackQueue[v])
      PROVE  c \in ToSet(free_backs'[v]) <=> \A p \in Reqs : ~BackHeld(p, c)'
  <2>1. c \in Backs /\ (c = b => v = u)
    BY PoolOf
  <2>2. CASE c = b
    BY <2>1, <2>2, <1>3, <1>4
  <2>3. CASE c # b
    <3>1. c \in ToSet(free_backs'[v]) <=> c \in ToSet(free_backs[v])
      BY <2>3, <1>1, <1>4
    <3>2. \A p \in Reqs : BackHeld(p, c)' <=> BackHeld(p, c)
      BY <2>1, <2>3
    <3>3. QED BY <3>1, <3>2 DEF BackPoolsOK
  <2>4. QED BY <2>2, <2>3
<1>7. ASSUME NEW c \in Backs, NEW p \in Reqs, NEW q \in Reqs, BackHeld(p, c)', BackHeld(q, c)'
      PROVE  p = q
  BY <1>7 DEF BackPoolsOK
<1>8. BackReturned(r, b) /\ free_backs' # free_backs
  BY <1>1, <1>3, <1>4 DEF BackReturned
<1>9. QED BY <1>3, <1>5, <1>6, <1>7, <1>8 DEF BackPoolsOK, BackMoves

(* No step of a timely schedule shares a back segment or loses one.        *)
LEMMA PoolsStep == TimelyInv /\ [Next]_vars => BackPoolsOK' /\ BackMoves
<1> SUFFICES ASSUME TimelyInv, [Next]_vars PROVE BackPoolsOK' /\ BackMoves
  OBVIOUS
<1>0. /\ TypeInv /\ RequestsOK /\ PlacesOK /\ OnceOK /\ BackPoolsOK /\ PairedOK
      /\ \A t \in Conns : EndingOK(t) /\ RebindOK(th[t])
      /\ OneHandlerPerRequest /\ RebindPoolHolds
  BY DEF TimelyInv, BackInv, FrontInv, TypeInv
<1>t. /\ th \in [Threads -> Locals] /\ \A t \in Threads : LocalsOK(t)
      /\ await_back \in [Tasks -> Seq(Reqs)] /\ free_backs \in [Tasks -> Seq(Backs)]
      /\ back \in [Reqs -> Backs \cup {None}] /\ finished \in [Reqs -> BOOLEAN]
      /\ Caller \in Threads /\ Conns = Threads \ {Caller}
      /\ Fronts \subseteq Conns /\ Backs \subseteq Conns /\ None \notin Backs
  BY <1>0, Typed
<1>b. ASSUME NEW r \in Reqs, NEW k \in Stages, NEW x \in Places, Pending(r, k, x)
      PROVE  Fresh(r)
  BY <1>b, <1>0 DEF PlacesOK
<1>s. /\ Stages = {"submit", "start", "prefill", "bind", "wait", "attach"}
      /\ None \in Places /\ Conns \subseteq Places /\ Tasks \subseteq Places
  BY DEF Stages, Places
(* A thread whose locals neither carry a segment nor keep one.             *)
<1>e. ASSUME NEW l, l.pc \notin {"attach", "finSend", "relBack"}, l.old = None
      PROVE  /\ \A r \in Reqs, b \in Backs : ~Carries(l, r, b)
             /\ \A r \in Reqs : ~Closing(l, r)
  BY <1>e, <1>t DEF Carries, Closing
<1>n. ASSUME NEW t \in Conns, th[t].then # "relOld" PROVE th[t].old = None
  BY <1>n, <1>0 DEF RebindOK
(* A step that leaves all this alone.                                      *)
<1>q. ASSUME NEW t \in Conns, NEW l, th' = [th EXCEPT ![t] = l],
             UNCHANGED <<back, free_backs>>,
             \A r \in Reqs : back[r] # None => finished'[r] = finished[r],
             \A r \in Reqs, b \in Backs : Carries(l, r, b) <=> Carries(th[t], r, b),
             \A r \in Reqs : Closing(l, r) <=> Closing(th[t], r)
      PROVE  BackPoolsOK' /\ BackMoves
  <2>1. ASSUME NEW r \in Reqs, NEW b \in Backs PROVE BackHeld(r, b)' <=> BackHeld(r, b)
    <3>1. BackHeld(r, b) <=>
             \/ Others(t, r, b) \/ Carries(th[t], r, b)
             \/ back[r] = b /\ (~finished[r] \/ OthersClose(t, r) \/ Closing(th[t], r))
      BY HeldBy
    <3>2. BackHeld(r, b)' <=>
             \/ Others(t, r, b) \/ Carries(l, r, b)
             \/ back'[r] = b /\ (~finished'[r] \/ OthersClose(t, r) \/ Closing(l, r))
      BY <1>q, <1>0, HeldAfter
    <3>3. back[r] = b => back[r] # None
      BY <1>t
    <3>4. QED BY <3>1, <3>2, <3>3, <1>q
  <2>2. QED BY <2>1, <1>q, <1>0, PoolsSame
<1>r. ASSUME NEW t \in Conns, NEW l, th' = [th EXCEPT ![t] = l],
             UNCHANGED <<back, free_backs>>,
             \A r \in Reqs : back[r] # None => finished'[r] = finished[r],
             th[t].pc \notin {"attach", "finSend", "relBack"}, th[t].old = None,
             l.pc \notin {"attach", "finSend", "relBack"}, l.old = None
      PROVE  BackPoolsOK' /\ BackMoves
  <2>1. /\ \A r \in Reqs, b \in Backs : ~Carries(l, r, b) /\ ~Carries(th[t], r, b)
        /\ \A r \in Reqs : ~Closing(l, r) /\ ~Closing(th[t], r)
    BY <1>r, <1>e
  <2>2. QED BY <2>1, <1>r, <1>q
<1>1. ASSUME CallerStep PROVE BackPoolsOK' /\ BackMoves
  <2>1. PICK l : th' = [th EXCEPT ![Caller] = l] /\ UNCHANGED <<back, finished, free_backs>>
    BY <1>1 DEF CallerStep, SubmitLocked, SubmitReturn, ending, pools
  <2>2. \A s \in Conns : th'[s] = th[s]
    BY <2>1, <1>t
  <2>3. \A r \in Reqs, b \in Backs : BackHeld(r, b)' <=> BackHeld(r, b)
    BY <2>1, <2>2 DEF BackHeld
  <2>4. QED BY <2>1, <2>3, <1>0, PoolsSame
<1>2. ASSUME NEW f \in Fronts, NEW r \in Reqs, NEW u \in Tasks, OnClassified(f, r, u)
      PROVE  BackPoolsOK' /\ BackMoves
  <2>1. PICK l : l = [Idle EXCEPT !.pc = "bind", !.req = r, !.task = u]
    OBVIOUS
  <2>2. /\ f \in Conns /\ th' = [th EXCEPT ![f] = l] /\ UNCHANGED <<back, finished, free_backs>>
        /\ l.pc = "bind" /\ l.old = None /\ th[f].pc = "idle"
    BY <2>1, <1>2, <1>t DEF OnClassified, Idle, ending, pools
  <2>3. th[f].old = None
    BY <2>2, <1>n, <1>t DEF LocalsOK
  <2>4. QED BY <2>2, <2>3, <1>r
<1>3. ASSUME NEW t \in Conns, BindFail(t) \/ BindQueue(t) PROVE BackPoolsOK' /\ BackMoves
  <2>1. /\ th[t].pc = "bind" /\ th[t].then = "idle" /\ th' = [th EXCEPT ![t] = Idle]
    BY <1>3, <1>0, BindEnds
  <2>2. PICK r \in Reqs : r = th[t].req
    BY <1>3, <1>0, BindEnds
  <2>3. UNCHANGED <<back, free_backs>> /\ \A q \in Reqs \ {r} : finished'[q] = finished[q]
    BY <1>3, <2>2, <1>t DEF BindFail, BindQueue, ending, pools
  <2>4. back[r] = None
    <3>1. Pending(r, "bind", t)
      BY <2>1, <2>2 DEF Pending, Serving
    <3>2. QED BY <3>1, <1>b, <1>s DEF Fresh
  <2>5. th[t].old = None /\ Idle.old = None /\ Idle.pc = "idle"
    BY <2>1, <1>n DEF Idle
  <2>6. QED BY <2>1, <2>3, <2>4, <2>5, <1>r
<1>4. ASSUME NEW t \in Conns, BindPop(t) PROVE BackPoolsOK' /\ BackMoves
  <2>1. PICK r \in Reqs, u \in Tasks : r = th[t].req /\ u = th[t].task
    BY <1>4, <1>t DEF BindPop, LocalsOK
  <2>2. PICK h : h = Head(free_backs[u])
    OBVIOUS
  <2>3. PICK l : l = [th[t] EXCEPT !.pc = "attach", !.nxt = r, !.seg = h]
    OBVIOUS
  <2>4. /\ th' = [th EXCEPT ![t] = l] /\ UNCHANGED <<back, finished>> /\ th[t].pc = "bind"
        /\ free_backs[u] # <<>> /\ free_backs' = [free_backs EXCEPT ![u] = Tail(free_backs[u])]
    BY <2>1, <2>2, <2>3, <1>4 DEF BindPop, ending
  <2>5. l.pc = "attach" /\ l.nxt = r /\ l.seg = h /\ l.req = r /\ l.old = th[t].old
    BY <2>1, <2>3, <1>t DEF Locals
  <2>6. \A q \in Reqs, b \in Backs :
           Carries(l, q, b) <=> Carries(th[t], q, b) \/ (q = r /\ b = h)
    BY <2>1, <2>4, <2>5 DEF Carries
  <2>7. \A q \in Reqs : ~Closing(l, q) /\ ~Closing(th[t], q)
    BY <2>4, <2>5 DEF Closing
  <2>8. ASSUME NEW q \in Reqs, NEW b \in Backs
        PROVE  BackHeld(q, b)' <=> BackHeld(q, b) \/ (q = r /\ b = h)
    <3>1. BackHeld(q, b) <=>
             \/ Others(t, q, b) \/ Carries(th[t], q, b)
             \/ back[q] = b /\ (~finished[q] \/ OthersClose(t, q) \/ Closing(th[t], q))
      BY HeldBy
    <3>2. BackHeld(q, b)' <=>
             \/ Others(t, q, b) \/ Carries(l, q, b)
             \/ back'[q] = b /\ (~finished'[q] \/ OthersClose(t, q) \/ Closing(l, q))
      BY <2>4, <1>0, HeldAfter
    <3>3. QED BY <3>1, <3>2, <2>4, <2>6, <2>7
  <2>9. ~finished[r]
    <3>1. CASE th[t].then = "relOld"
      BY <2>1, <2>4, <3>1, <1>0 DEF RebindOK
    <3>2. CASE th[t].then # "relOld"
      <4>1. th[t].then = "idle"
        BY <2>4, <3>2, <1>0, <1>t DEF EndingOK, LocalsOK, Locals
      <4>2. Pending(r, "bind", t)
        BY <2>1, <2>4, <4>1 DEF Pending, Serving
      <4>3. QED BY <4>2, <1>b, <1>s DEF Fresh
    <3>3. QED BY <3>1, <3>2
  <2>10. QED BY <2>2, <2>4, <2>8, <2>9, <1>0, PoolsTake
<1>5. ASSUME NEW t \in Conns, AttachBack(t) PROVE BackPoolsOK' /\ BackMoves
  <2>1. PICK r \in Reqs, b \in Backs : r = th[t].nxt /\ b = th[t].seg /\ th[t].pc = "attach"
    BY <1>5, <1>t DEF AttachBack, LocalsOK
  <2>2. PICK l : l = Goto(t, th[t].then)
    OBVIOUS
  <2>3. /\ th' = [th EXCEPT ![t] = l] /\ UNCHANGED <<finished, free_backs>>
        /\ back' = [back EXCEPT ![r] = b]
    BY <2>1, <2>2, <1>5 DEF AttachBack, ending, pools
  <2>4. back'[r] = b /\ \A q \in Reqs \ {r} : back'[q] = back[q]
    BY <2>3, <1>t
  <2>5. /\ l.pc \in {"idle", "relOld", "relFront"} /\ l.old = th[t].old
        /\ th[t].old # None => l.req = th[t].req
    <3>1. CASE th[t].then = "idle"
      <4>1. l = Idle /\ th[t].old = None
        BY <2>2, <3>1, <1>n DEF Goto
      <4>2. QED BY <4>1 DEF Idle
    <3>2. CASE th[t].then # "idle"
      <4>1. l.pc = th[t].then /\ l.req = th[t].req /\ l.old = th[t].old
        BY <2>2, <3>2, <1>0, <1>t, GotoLocals
      <4>2. QED BY <4>1, <3>2, <1>t DEF Locals
    <3>3. QED BY <3>1, <3>2
  <2>6. \A q \in Reqs : ~Closing(l, q) /\ ~Closing(th[t], q)
    BY <2>1, <2>5 DEF Closing
  <2>7. \A q \in Reqs, c \in Backs :
           Carries(th[t], q, c) <=> Carries(l, q, c) \/ (q = r /\ c = b)
    BY <2>1, <2>5, <1>t DEF Carries
  (* r had nothing, or has what the thread still carries from it.          *)
  <2>8. ~finished[r] /\ \A c \in Backs : back[r] = c => Carries(l, r, c)
    <3>1. CASE th[t].then = "relOld"
      <4>1. th[t].req = r /\ back[r] = th[t].old /\ ~finished[r]
        BY <2>1, <3>1, <1>0 DEF RebindOK
      <4>2. QED BY <4>1, <2>5, <1>t DEF Carries
    <3>2. CASE th[t].then # "relOld"
      <4>1. Pending(r, "attach", t)
        BY <2>1, <3>2 DEF Pending, Serving
      <4>2. Fresh(r)
        BY <4>1, <1>b, <1>s
      <4>3. QED BY <4>2, <1>t DEF Fresh
    <3>3. QED BY <3>1, <3>2
  <2>9. ASSUME NEW q \in Reqs, NEW c \in Backs PROVE BackHeld(q, c)' <=> BackHeld(q, c)
    <3>1. BackHeld(q, c) <=>
             \/ Others(t, q, c) \/ Carries(th[t], q, c)
             \/ back[q] = c /\ (~finished[q] \/ OthersClose(t, q) \/ Closing(th[t], q))
      BY HeldBy
    <3>2. BackHeld(q, c)' <=>
             \/ Others(t, q, c) \/ Carries(l, q, c)
             \/ back'[q] = c /\ (~finished'[q] \/ OthersClose(t, q) \/ Closing(l, q))
      BY <2>3, <1>0, HeldAfter
    <3>3. CASE q = r
      BY <3>1, <3>2, <3>3, <2>3, <2>4, <2>7, <2>8
    <3>4. CASE q # r
      BY <3>1, <3>2, <3>4, <2>3, <2>4, <2>6, <2>7
    <3>5. QED BY <3>3, <3>4
  <2>10. QED BY <2>3, <2>9, <1>0, PoolsSame
<1>6. ASSUME NEW b \in Backs, NEW r \in Reqs, Token(b, r) PROVE BackPoolsOK' /\ BackMoves
  <2>1. b \in Conns /\ UNCHANGED <<back, finished, free_backs>> /\ th[b].pc = "idle"
    BY <1>6, <1>t DEF Token, TokenKept, TokenStop, TokenAlarmStay, TokenRebind, TakeToken,
                      ending, pools
  <2>2. th[b].old = None
    BY <2>1, <1>n, <1>t DEF LocalsOK
  <2>3. CASE th' = th
    <3>1. \A q \in Reqs, c \in Backs : BackHeld(q, c)' <=> BackHeld(q, c)
      BY <2>1, <2>3 DEF BackHeld
    <3>2. QED BY <3>1, <2>1, <1>0, PoolsSame
  <2>4. ASSUME NEW n \in {0, 1}, TokenStop(b, r, n) PROVE BackPoolsOK' /\ BackMoves
    <3>1. PICK l : l = [Idle EXCEPT !.pc = "finTest", !.req = r]
      OBVIOUS
    <3>2. th' = [th EXCEPT ![b] = l] /\ l.pc = "finTest" /\ l.old = None
      BY <2>4, <3>1 DEF TokenStop, Idle
    <3>3. QED BY <3>2, <2>1, <2>2, <1>r
  <2>5. ASSUME NEW n \in {0, 1}, NEW u \in Tasks, TokenRebind(b, r, n, u) PROVE BackPoolsOK' /\ BackMoves
    <3>1. PICK l : l = [Idle EXCEPT !.pc = "bind", !.req = r, !.task = u, !.old = back[r],
                                    !.oldTask = task[r], !.then = "relOld"]
      OBVIOUS
    <3>2. th' = [th EXCEPT ![b] = l] /\ l.pc = "bind" /\ l.req = r /\ l.old = back[r]
      BY <2>5, <3>1 DEF TokenRebind, Idle
    <3>3. ~finished[r]
      BY <2>5 DEF TokenRebind, TakeToken
    <3>4. \A q \in Reqs, c \in Backs : Carries(l, q, c) <=> q = r /\ back[r] = c
      BY <3>2 DEF Carries
    <3>5. \A q \in Reqs, c \in Backs : ~Carries(th[b], q, c)
      BY <2>1, <2>2, <1>e
    <3>6. \A q \in Reqs : ~Closing(l, q) /\ ~Closing(th[b], q)
      BY <3>2, <2>1 DEF Closing
    <3>7. ASSUME NEW q \in Reqs, NEW c \in Backs PROVE BackHeld(q, c)' <=> BackHeld(q, c)
      <4>1. BackHeld(q, c) <=>
               \/ Others(b, q, c) \/ Carries(th[b], q, c)
               \/ back[q] = c /\ (~finished[q] \/ OthersClose(b, q) \/ Closing(th[b], q))
        BY <2>1, HeldBy
      <4>2. BackHeld(q, c)' <=>
               \/ Others(b, q, c) \/ Carries(l, q, c)
               \/ back'[q] = c /\ (~finished'[q] \/ OthersClose(b, q) \/ Closing(l, q))
        BY <3>2, <2>1, <1>0, HeldAfter
      <4>3. QED BY <4>1, <4>2, <3>3, <3>4, <3>5, <3>6, <2>1
    <3>8. QED BY <3>7, <2>1, <1>0, PoolsSame
  <2>6. QED BY <2>3, <2>4, <2>5, <1>6 DEF Token, TokenKept, TokenAlarmStay
<1>7. ASSUME NEW t \in Conns, FinishTest(t) PROVE BackPoolsOK' /\ BackMoves
  <2>1. /\ th[t].pc = "finTest" /\ th[t].old = None /\ UNCHANGED <<back, finished, free_backs>>
    BY <1>7, <1>0, <1>n DEF FinishTest, RebindOK, ending, pools
  <2>2. PICK l : l = IF finished[th[t].req] THEN Idle ELSE [th[t] EXCEPT !.pc = "finMark"]
    OBVIOUS
  <2>3. th' = [th EXCEPT ![t] = l] /\ l.pc \in {"idle", "finMark"} /\ l.old = None
    BY <2>1, <2>2, <1>7, <1>t DEF FinishTest, Locals, Idle
  <2>4. QED BY <2>1, <2>3, <1>r
<1>8. ASSUME NEW t \in Conns, FinishMark(t) PROVE BackPoolsOK' /\ BackMoves
  <2>1. PICK r \in Reqs : /\ r = th[t].req /\ th[t].pc = "finMark" /\ ~finished[r]
                          /\ th[t].old = None
    BY <1>8, <1>0, <1>t, <1>n DEF FinishMark, LocalsOK, EndingOK, RebindOK
  <2>2. PICK l : l = [th[t] EXCEPT !.pc = "finSend"]
    OBVIOUS
  <2>3. /\ th' = [th EXCEPT ![t] = l] /\ UNCHANGED <<back, free_backs>>
        /\ finished' = [finished EXCEPT ![r] = TRUE]
    BY <2>1, <2>2, <1>8 DEF FinishMark, pools
  <2>4. l.pc = "finSend" /\ l.req = r /\ l.old = None
    BY <2>1, <2>2, <1>t DEF Locals
  <2>5. \A q \in Reqs, c \in Backs : ~Carries(l, q, c) /\ ~Carries(th[t], q, c)
    BY <2>1, <2>4, <1>t DEF Carries
  <2>6. \A q \in Reqs : (Closing(l, q) <=> q = r) /\ ~Closing(th[t], q)
    BY <2>1, <2>4 DEF Closing
  <2>7. \A q \in Reqs \ {r} : finished'[q] = finished[q]
    BY <2>3
  <2>8. ASSUME NEW q \in Reqs, NEW c \in Backs PROVE BackHeld(q, c)' <=> BackHeld(q, c)
    <3>1. BackHeld(q, c) <=>
             \/ Others(t, q, c) \/ Carries(th[t], q, c)
             \/ back[q] = c /\ (~finished[q] \/ OthersClose(t, q) \/ Closing(th[t], q))
      BY HeldBy
    <3>2. BackHeld(q, c)' <=>
             \/ Others(t, q, c) \/ Carries(l, q, c)
             \/ back'[q] = c /\ (~finished'[q] \/ OthersClose(t, q) \/ Closing(l, q))
      BY <2>3, <1>0, HeldAfter
    <3>3. CASE q = r
      BY <3>1, <3>2, <3>3, <2>1, <2>3, <2>5, <2>6
    <3>4. CASE q # r
      BY <3>1, <3>2, <3>4, <2>3, <2>5, <2>6, <2>7
    <3>5. QED BY <3>3, <3>4
  <2>9. QED BY <2>3, <2>8, <1>0, PoolsSame
<1>9. ASSUME NEW t \in Conns, FinishSend(t) PROVE BackPoolsOK' /\ BackMoves
  <2>1. PICK l : l = [th[t] EXCEPT !.pc = "relBack"]
    OBVIOUS
  <2>2. th' = [th EXCEPT ![t] = l] /\ UNCHANGED <<back, finished, free_backs>> /\ th[t].pc = "finSend"
    BY <2>1, <1>9 DEF FinishSend, pools
  <2>3. l.pc = "relBack" /\ l.req = th[t].req /\ l.old = th[t].old
    BY <2>1, <1>t DEF Locals
  <2>4. /\ \A r \in Reqs, b \in Backs : Carries(l, r, b) <=> Carries(th[t], r, b)
        /\ \A r \in Reqs : Closing(l, r) <=> Closing(th[t], r)
    BY <2>2, <2>3 DEF Carries, Closing
  <2>5. QED BY <2>2, <2>4, <1>q
<1>10. ASSUME NEW t \in Conns, ReleaseBack(t) \/ ReleaseOld(t) PROVE BackPoolsOK' /\ BackMoves
  <2>1. UNCHANGED <<back, finished>>
    BY <1>10, <1>0, Returning
  <2>2. PICK r \in Reqs : r = th[t].req
    BY <1>10, <1>0, Returning
  <2>3. PICK u \in Tasks, b \in Backs, after \in {"idle", "relFront"} :
          /\ ReturnBack(t, u, b, after) /\ b \in ToSet(BackQueue[u])
          /\ \/ th[t].pc = "relBack" /\ after = "relFront" /\ b = back[r] /\ bound[r] # {}
             \/ th[t].pc = "relOld" /\ after = "idle" /\ b = th[t].old
    BY <1>10, <2>2, <1>0, Returning, GoesBack
  <2>4. bound[r] # {}
    BY <2>2, <2>3, <1>0 DEF RebindOK
  (* No other thread has to do with r.                                     *)
  <2>5. \A s \in Conns \ {t} : ~Handling(s, r)
    BY <2>2, <2>3, <1>0 DEF OneHandlerPerRequest, Handling
  <2>6. ~OthersClose(t, r)
    BY <2>5 DEF OthersClose, Closing, Handling
  <2>7. \A c \in Backs : ~Others(t, r, c)
    <3>1. ASSUME NEW s \in Conns \ {t}, NEW c \in Backs, Carries(th[s], r, c) PROVE FALSE
      <4>1. CASE th[s].req = r /\ th[s].old = c
        <5>1. th[s].then = "relOld"
          BY <4>1, <1>n, <1>t
        <5>2. Handling(s, r)
          BY <4>1, <5>1, <1>t DEF Handling, LocalsOK
        <5>3. QED BY <5>2, <2>5
      <4>2. CASE th[s].pc = "attach" /\ th[s].nxt = r /\ th[s].then = "relOld"
        <5>1. Handling(s, r)
          BY <4>2, <1>0 DEF RebindOK, Handling
        <5>2. QED BY <5>1, <2>5
      <4>3. CASE th[s].pc = "attach" /\ th[s].nxt = r /\ th[s].then # "relOld"
        <5>1. Pending(r, "attach", s)
          BY <4>3 DEF Pending, Serving
        <5>2. QED BY <5>1, <2>4, <1>b, <1>s DEF Fresh
      <4>4. QED BY <3>1, <4>1, <4>2, <4>3 DEF Carries
    <3>2. QED BY <3>1 DEF Others
  <2>8. /\ \A q \in Reqs, c \in Backs : Carries(th[t], q, c) => q = r /\ c = b
        /\ th[t].pc = "relOld" => Carries(th[t], r, b)
        /\ \A q \in Reqs : Closing(th[t], q) <=> q = r /\ th[t].pc = "relBack"
    <3>1. th[t].pc = "relBack" => th[t].old = None
      BY <1>0 DEF RebindOK
    <3>2. QED BY <3>1, <2>2, <2>3, <1>t DEF Carries, Closing
  <2>9. th[t].pc = "relOld" => back[r] # b
    BY <2>2, <2>3, <1>0 DEF RebindOK
  <2>10. th[t].pc = "relBack" => finished[r]
    BY <2>2, <1>0 DEF EndingOK, Ending
  <2>11. PICK l : /\ th' = [th EXCEPT ![t] = l]
                  /\ Passes(t, u, b, after, l) \/ Keeps(t, u, b, after, l)
    BY <2>3, <1>0, Returned
  <2>12. \A q \in Reqs : ~Closing(l, q)
    BY <2>11, <2>3 DEF Passes, Keeps, Closing
  (* r held b, and after the step nobody does but by the thread's locals.  *)
  <2>13. BackHeld(r, b)
    <3>1. BackHeld(r, b) <=>
             \/ Others(t, r, b) \/ Carries(th[t], r, b)
             \/ back[r] = b /\ (~finished[r] \/ OthersClose(t, r) \/ Closing(th[t], r))
      BY HeldBy
    <3>2. QED BY <3>1, <2>3, <2>8
  <2>14. ASSUME NEW p \in Reqs, NEW c \in Backs
         PROVE  BackHeld(p, c)' <=> (BackHeld(p, c) /\ ~(p = r /\ c = b)) \/ Carries(l, p, c)
    <3>1. BackHeld(p, c) <=>
             \/ Others(t, p, c) \/ Carries(th[t], p, c)
             \/ back[p] = c /\ (~finished[p] \/ OthersClose(t, p) \/ Closing(th[t], p))
      BY HeldBy
    <3>2. BackHeld(p, c)' <=>
             \/ Others(t, p, c) \/ Carries(l, p, c)
             \/ back'[p] = c /\ (~finished'[p] \/ OthersClose(t, p) \/ Closing(l, p))
      BY <2>11, <1>0, HeldAfter
    <3>3. CASE p # r
      BY <3>1, <3>2, <3>3, <2>1, <2>8, <2>12
    <3>4. CASE p = r /\ th[t].pc = "relBack"
      <4>1. back[r] = b /\ finished[r]
        BY <3>4, <2>3, <2>10
      <4>2. QED BY <3>1, <3>2, <3>4, <4>1, <2>1, <2>6, <2>7, <2>8, <2>12
    <3>5. CASE p = r /\ th[t].pc = "relOld"
      BY <3>1, <3>2, <3>5, <2>1, <2>6, <2>7, <2>8, <2>9, <2>12
    <3>6. QED BY <3>3, <3>4, <3>5, <2>3
  (* It can do without: it has ended, or has the one it was moved to.      *)
  <2>15. Dispensable(r, b)
    <3>1. CASE th[t].pc = "relBack"
      BY <3>1, <2>10 DEF Dispensable
    <3>2. CASE th[t].pc = "relOld" /\ ~finished[r]
      <4>1. back[r] # b /\ back[r] \in Backs
        BY <3>2, <2>4, <2>9, <1>0, <1>t DEF RequestsOK
      <4>2. BackHeld(r, back[r])
        BY <3>2 DEF BackHeld
      <4>3. QED BY <4>1, <4>2 DEF Dispensable
    <3>3. QED BY <3>1, <3>2, <2>3 DEF Dispensable
  <2>16. CASE Passes(t, u, b, after, l)
    <3>1. PICK q \in Reqs : /\ q = Head(await_back[u]) /\ q \in ToSet(await_back[u])
                            /\ q \notin ToSet(await_back'[u])
      <4>1. /\ await_back[u] \in Seq(Reqs) /\ await_back[u] # <<>> /\ IsInjective(await_back[u])
            /\ await_back'[u] = Tail(await_back[u])
        BY <2>16, <1>0, <1>t DEF Passes, OnceOK
      <4>2. QED BY <4>1, TailOfQueue
    <3>2. q # r /\ ~finished[q]
      <4>1. Pending(q, "wait", u)
        BY <3>1 DEF Pending
      <4>2. QED BY <4>1, <2>4, <1>b, <1>s DEF Fresh
    <3>3. await_back' # await_back
      BY <3>1
    <3>4. /\ l.pc = "attach" /\ l.nxt = q /\ l.seg = b /\ l.old = None /\ free_backs' = free_backs
      BY <2>16, <3>1 DEF Passes
    <3>5. \A p \in Reqs, c \in Backs : Carries(l, p, c) <=> p = q /\ c = b
      BY <3>4, <1>t DEF Carries
    <3>6. \A p \in Reqs, c \in Backs :
             BackHeld(p, c)' <=> (BackHeld(p, c) /\ ~(p = r /\ c = b)) \/ (p = q /\ c = b)
      BY <3>5, <2>14
    <3>7. QED BY <3>2, <3>3, <3>4, <3>6, <2>13, <2>15, <1>0, PoolsPass
  <2>17. CASE Keeps(t, u, b, after, l)
    <3>1. /\ l.pc \in {"idle", "relFront"} /\ l.old = None
          /\ free_backs' = [free_backs EXCEPT ![u] = Append(free_backs[u], b)]
      BY <2>17 DEF Keeps
    <3>2. \A p \in Reqs, c \in Backs : ~Carries(l, p, c)
      BY <3>1, <1>e
    <3>3. \A p \in Reqs, c \in Backs : BackHeld(p, c)' <=> (BackHeld(p, c) /\ ~(p = r /\ c = b))
      BY <3>2, <2>14
    <3>4. QED BY <3>1, <3>3, <2>3, <2>13, <2>15, <1>0, PoolsReturn
  <2>18. QED BY <2>11, <2>16, <2>17
<1>11. ASSUME NEW t \in Conns, ReleaseFront(t) \/ StartFront(t) PROVE BackPoolsOK' /\ BackMoves
  <2>1. UNCHANGED <<back, finished, free_backs>> /\ th[t].pc \in {"relFront", "start"}
    BY <1>11 DEF ReleaseFront, StartFront, ending, pools
  <2>2. th[t].old = None
    BY <2>1, <1>0 DEF RebindOK
  <2>3. PICK l : th' = [th EXCEPT ![t] = l] /\ l.pc \in {"idle", "start"} /\ l.old = None
    <3>1. PICK l1 : l1 = [Idle EXCEPT !.pc = "start", !.nxt = Head(arrivals)]
      OBVIOUS
    <3>2. /\ l1.pc = "start" /\ l1.old = None
          /\ Idle.pc = "idle" /\ Idle.old = None
      BY <3>1 DEF Idle
    <3>3. th' = [th EXCEPT ![t] = l1] \/ th' = [th EXCEPT ![t] = Idle]
      <4>1. CASE StartFront(t)
        BY <4>1 DEF StartFront
      <4>2. CASE ReleaseFront(t)
        BY <4>2, <3>1 DEF ReleaseFront
      <4>3. QED BY <4>1, <4>2, <1>11
    <3>4. QED BY <3>2, <3>3
  <2>4. QED BY <2>1, <2>2, <2>3, <1>r
<1>12. CASE UNCHANGED vars
  <2>1. \A q \in Reqs, c \in Backs : BackHeld(q, c)' <=> BackHeld(q, c)
    BY <1>12 DEF vars, ending, BackHeld
  <2>2. QED BY <2>1, <1>12, <1>0, PoolsSame DEF vars, pools
<1>13. QED
  BY <1>1, <1>2, <1>3, <1>4, <1>5, <1>6, <1>7, <1>8, <1>9, <1>10, <1>11, <1>12
     DEF Next, Classified, HandlerStep

-----------------------------------------------------------------------------
(* The invariant *)

(* At the start every back segment is in its pool and no request exists.   *)
LEMMA BackInvInit == Init => BackInv /\ RebindPoolHolds
<1> SUFFICES ASSUME Init PROVE BackInv /\ RebindPoolHolds
  OBVIOUS
<1>1. /\ \A t \in Conns : th[t] = Idle
      /\ th[Caller] = Idle
      /\ free_backs = BackQueue /\ await_back = [u \in Tasks |-> <<>>]
      /\ \A r \in Reqs : /\ front[r] = None /\ back[r] = None /\ bound[r] = {}
                         /\ prefills[r] = 0 /\ ~finished[r]
  BY DEF Init, Threads
<1>2. \A u \in Tasks : ToSet(await_back[u]) = {} /\ IsInjective(await_back[u])
  BY <1>1 DEF ToSet, IsInjective
<1>3. \A r \in Reqs, k \in Stages, x \in Places : ~Pending(r, k, x)
  BY <1>1, <1>2 DEF Pending, Serving, Idle
<1>4. PlacesOK
  BY <1>3 DEF PlacesOK
<1>5. OnceOK /\ PairedOK
  BY <1>1, <1>2 DEF OnceOK, PairedOK
<1>6. \A r \in Reqs, b \in Backs : ~BackHeld(r, b)
  BY <1>1, NamesAssumption DEF BackHeld, Idle, Conns
<1>7. BackPoolsOK
  <2>1. \A u \in Tasks : \A b \in ToSet(BackQueue[u]) : b \in Backs
    BY DEF Backs
  <2>2. QED BY <2>1, <1>1, <1>6, BacksAssumption DEF BackPoolsOK
<1>8. \A t \in Conns : RebindOK(th[t])
  BY <1>1 DEF RebindOK, Idle
<1>9. RebindPoolHolds
  <2>1. ASSUME NEW u \in Tasks
        PROVE  Cardinality({t \in Conns : Rebinding(t, u)}) <= Len(free_backs[u])
    <3>1. {t \in Conns : Rebinding(t, u)} = {}
      BY <1>1 DEF Rebinding, Idle
    <3>2. free_backs[u] \in Seq(Backs)
      BY <1>1, BacksAssumption
    <3>3. Len(free_backs[u]) \in Nat
      BY <3>2, LenProperties
    <3>4. QED BY <3>1, <3>3, FS_EmptySet
  <2>2. QED BY <2>1 DEF RebindPoolHolds
<1>10. QED BY <1>4, <1>5, <1>7, <1>8, <1>9 DEF BackInv

(* Every step of a timely schedule keeps it.                               *)
LEMMA TimelyInvariant == TimelySpec => []TimelyInv
<1>1. Init => TimelyInv
  BY TypeInvInit, FrontInvInit, BackInvInit DEF TimelyInv
<1>2. TimelyInv /\ [Next /\ TimelyStep]_vars => TimelyInv'
  <2> SUFFICES ASSUME TimelyInv, [Next /\ TimelyStep]_vars PROVE TimelyInv'
    OBVIOUS
  <2>1. [Next]_vars
    OBVIOUS
  <2>2. /\ SubmitReturnsFirst /\ OneHandlerPerRequest' /\ RebindPoolHolds'
    <3>1. CASE TimelyStep
      BY <3>1 DEF TimelyStep, Undisturbed
    <3>2. CASE UNCHANGED vars
      <4>1. UNCHANGED <<th, front, free_backs>>
        BY <3>2 DEF vars, pools
      <4>2. SubmitReturnsFirst
        BY <4>1 DEF SubmitReturnsFirst
      <4>3. OneHandlerPerRequest'
        BY <4>1 DEF TimelyInv, OneHandlerPerRequest, Handling
      <4>4. RebindPoolHolds'
        BY <4>1 DEF TimelyInv, RebindPoolHolds, Rebinding
      <4>5. QED BY <4>2, <4>3, <4>4
    <3>3. QED BY <3>1, <3>2
  <2>3. TypeInv' /\ FrontInv'
    BY <2>1, TypeInvStep, FrontInvStep DEF TimelyInv
  <2>4. BackInv'
    BY <2>1, <2>2, PlacesStep, PairedStep, PoolsStep, RebindStep DEF BackInv
  <2>5. QED BY <2>2, <2>3, <2>4 DEF TimelyInv
<1>3. QED BY <1>1, <1>2, PTL DEF TimelySpec

(* In every timely schedule each back segment is in the pool the planner   *)
(* built it for, once, or with exactly one request, also while _rebind     *)
(* moves a request from one pool to another with two segments in hand.     *)
THEOREM ExclusiveBacks == TimelySpec => []BacksExclusive
<1>1. TimelyInv => BacksExclusive
  <2> SUFFICES ASSUME BackPoolsOK PROVE BacksExclusive
    BY DEF TimelyInv, BackInv
  <2>1. ASSUME NEW b \in Backs, NEW r \in Reqs, BackHeld(r, b), NEW u \in Tasks
        PROVE  b \notin ToSet(free_backs[u])
    BY <2>1 DEF BackPoolsOK
  <2>2. QED BY <2>1 DEF BackPoolsOK, BacksExclusive
<1>2. QED BY <1>1, TimelyInvariant, PTL

(* No segment is lost, whatever thread's locals it passes through: what is *)
(* not in its pool is held by a request.                                   *)
THEOREM NeverLost == TimelySpec => []NothingLost
<1>1. TimelyInv => NothingLost
  BY DEF TimelyInv, FrontInv, BackInv, BackPoolsOK, NothingLost, NoBackLost
<1>2. QED BY <1>1, TimelyInvariant, PTL

(* Who waits in a line waits there only, once, and can use what the line   *)
(* hands out: _release_front and _release_back need not look.              *)
THEOREM WaitersOnlyWait == TimelySpec => []WaitersAreWaiting
<1>1. TimelyInv => WaitersAreWaiting
  <2> SUFFICES ASSUME TypeInv, ArrivalsOK, PlacesOK, OnceOK PROVE WaitersAreWaiting
    BY DEF TimelyInv, FrontInv, BackInv
  <2>1. ASSUME NEW u \in Tasks, NEW r \in ToSet(await_back[u])
        PROVE  /\ back[r] = None /\ ~finished[r] /\ front[r] # None
               /\ \A v \in Tasks : r \in ToSet(await_back[v]) => v = u
    <3>1. r \in Reqs
      BY Typed, ElementsOfQueue
    <3>2. "wait" \in Stages /\ Tasks \subseteq Places
      BY DEF Stages, Places
    <3>3. \A v \in Tasks : r \in ToSet(await_back[v]) => Pending(r, "wait", v)
      BY DEF Pending
    <3>4. Fresh(r) /\ \A v \in Tasks : r \in ToSet(await_back[v]) => v = u
      BY <3>1, <3>2, <3>3 DEF PlacesOK
    <3>5. QED BY <3>4, Typed DEF Fresh
  <2>2. QED BY <2>1 DEF WaitersAreWaiting, ArrivalsOK, OnceOK
<1>2. QED BY <1>1, TimelyInvariant, PTL

-----------------------------------------------------------------------------
(* The end of the service *)

AllServed == \A u \in Tasks : BackQueue[u] # <<>>

(* `done` is set after `finished`, and a request fails for want of a pool. *)
EndsOK ==
    /\ \A r \in Reqs : done[r] => finished[r]
    /\ AllServed => \A r \in Reqs : ~failed[r]

LEMMA EndsStep == TimelyInv /\ EndsOK /\ [Next]_vars => EndsOK'
<1> SUFFICES ASSUME TimelyInv, EndsOK, [Next]_vars PROVE EndsOK'
  OBVIOUS
<1>0. TypeInv /\ \A t \in Conns : EndingOK(t)
  BY DEF TimelyInv, FrontInv
<1>t. /\ \A t \in Threads : LocalsOK(t)
      /\ Conns \subseteq Threads
      /\ done \in [Reqs -> BOOLEAN] /\ failed \in [Reqs -> BOOLEAN]
      /\ finished \in [Reqs -> BOOLEAN]
  BY <1>0, Typed DEF TypeInv, TypeOK
<1>1. ASSUME NEW t \in Conns, BindFail(t) PROVE EndsOK'
  <2>1. PICK r \in Reqs : r = th[t].req
    BY <1>1, <1>t DEF BindFail, LocalsOK
  <2>2. ~AllServed
    BY <1>1, <1>t DEF BindFail, LocalsOK, AllServed
  <2>3. \/ UNCHANGED <<finished, done>>
        \/ /\ finished' = [finished EXCEPT ![r] = TRUE]
           /\ done' = [done EXCEPT ![r] = TRUE]
    BY <1>1, <2>1 DEF BindFail
  <2>4. QED BY <2>2, <2>3, <1>t DEF EndsOK, AllServed
<1>2. ASSUME NEW t \in Conns, FinishMark(t) PROVE EndsOK'
  <2>1. PICK r \in Reqs : r = th[t].req
    BY <1>2, <1>t DEF FinishMark, LocalsOK
  <2>2. finished' = [finished EXCEPT ![r] = TRUE] /\ UNCHANGED <<done, failed>>
    BY <1>2, <2>1 DEF FinishMark
  <2>3. QED BY <2>2, <1>t DEF EndsOK, AllServed
<1>3. ASSUME NEW t \in Conns, FinishSend(t) PROVE EndsOK'
  <2>1. PICK r \in Reqs : r = th[t].req /\ finished[r]
    BY <1>3, <1>0, <1>t DEF FinishSend, LocalsOK, EndingOK, Ending
  <2>2. done' = [done EXCEPT ![r] = TRUE] /\ UNCHANGED <<finished, failed>>
    BY <1>3, <2>1 DEF FinishSend
  <2>3. QED BY <2>1, <2>2, <1>t DEF EndsOK, AllServed
<1>4. CASE UNCHANGED <<finished, done, failed>>
  BY <1>4 DEF EndsOK, AllServed
<1>5. ASSUME NEW t \in Conns, \/ BindPop(t) \/ BindQueue(t) \/ AttachBack(t) \/ FinishTest(t)
                              \/ ReleaseBack(t) \/ ReleaseOld(t) \/ ReleaseFront(t) \/ StartFront(t)
      PROVE  UNCHANGED <<finished, done, failed>>
  BY <1>5 DEF BindPop, BindQueue, AttachBack, FinishTest, ReleaseBack, ReleaseOld,
              ReleaseFront, StartFront, ending
<1>6. ASSUME CallerStep PROVE UNCHANGED <<finished, done, failed>>
  BY <1>6 DEF CallerStep, SubmitLocked, SubmitReturn, ending
<1>7. ASSUME NEW f \in Fronts, NEW r \in Reqs, Classified(f, r)
      PROVE  UNCHANGED <<finished, done, failed>>
  BY <1>7 DEF Classified, OnClassified, ending
<1>8. ASSUME NEW b \in Backs, NEW r \in Reqs, Token(b, r) PROVE UNCHANGED <<finished, done, failed>>
  BY <1>8 DEF Token, TokenKept, TokenStop, TokenAlarmStay, TokenRebind, ending
<1>9. QED
  BY <1>1, <1>2, <1>3, <1>4, <1>5, <1>6, <1>7, <1>8 DEF Next, HandlerStep, vars, ending

(* When every task has a pool, the service at rest after its last request  *)
(* has all its segments back, whatever was rebound or handed on meanwhile. *)
THEOREM RestoredPools ==
    ASSUME AllServed
    PROVE  TimelySpec => []PoolsRestored
<1>1. Init => EndsOK
  BY DEF Init, EndsOK
<1>2. TimelyInv /\ EndsOK => PoolsRestored
  <2> SUFFICES ASSUME TimelyInv, EndsOK, \A r \in records : done[r], \A t \in Threads : th[t] = Idle
               PROVE  /\ ToSet(free_fronts) = Fronts
                      /\ \A u \in Tasks : ToSet(free_backs[u]) = ToSet(BackQueue[u])
    BY DEF PoolsRestored
  <2>1. /\ TypeInv /\ RequestsOK /\ OnceOK /\ BackPoolsOK /\ NoFrontLost /\ ArrivalsOK
        /\ free_fronts \in Seq(Fronts) /\ records \subseteq Reqs
    BY DEF TimelyInv, FrontInv, BackInv, TypeInv, TypeOK
  <2>2. /\ front \in [Reqs -> Fronts \cup {None}] /\ Conns \subseteq Threads
        /\ Fronts \subseteq Conns /\ Backs \subseteq Conns /\ None \notin Conns
    BY <2>1, Typed
  <2>3. \A t \in Conns : th[t].pc = "idle" /\ th[t].then = "idle" /\ th[t].old = None
    BY <2>2 DEF Idle
  <2>4. \A r \in Reqs : front[r] # None => finished[r] /\ ~failed[r]
    BY <2>1 DEF ArrivalsOK, EndsOK
  <2>5. \A r \in Reqs, f \in Fronts : ~FrontHeld(r, f)
    BY <2>2, <2>3, <2>4 DEF FrontHeld
  <2>6. ToSet(free_fronts) = Fronts
    BY <2>1, <2>5, ElementsOfQueue DEF NoFrontLost
  <2>7. \A r \in Reqs : back[r] # None => finished[r]
    BY <2>1, <2>2, <2>4 DEF RequestsOK, OnceOK
  <2>8. \A r \in Reqs, b \in Backs : ~BackHeld(r, b)
    BY <2>2, <2>3, <2>7 DEF BackHeld
  <2>9. \A u \in Tasks : \A b \in ToSet(BackQueue[u]) : b \in ToSet(free_backs[u])
    <3>1. \A u \in Tasks : \A b \in ToSet(BackQueue[u]) : b \in Backs
      BY DEF Backs
    <3>2. QED BY <3>1, <2>1, <2>8 DEF BackPoolsOK
  <2>10. QED BY <2>1, <2>6, <2>9 DEF BackPoolsOK
<1>3. EndsOK /\ TimelyInv /\ [Next /\ TimelyStep]_vars => EndsOK'
  BY EndsStep
<1>4. QED BY <1>1, <1>2, <1>3, TimelyInvariant, PTL DEF TimelySpec

-----------------------------------------------------------------------------
(* The promise *)

(* What Holder(s) means, once nobody shares a segment.                     *)
OwnersOK ==
    \A s \in Conns :
        /\ Holder(s) \in Reqs \cup {None}
        /\ \A r \in Reqs : Holder(s) = r <=> Holds(r, s)

LEMMA Owners == TimelyInv => OwnersOK
<1> SUFFICES ASSUME TimelyInv, NEW s \in Conns
             PROVE  /\ Holder(s) \in Reqs \cup {None}
                    /\ \A r \in Reqs : Holder(s) = r <=> Holds(r, s)
  BY DEF OwnersOK
<1>1. \A q, r \in Reqs : Holds(q, s) /\ Holds(r, s) => q = r
  <2>1. CASE s \in Fronts
    BY <2>1 DEF TimelyInv, FrontInv, FrontsExclusive, Holds
  <2>2. CASE s \notin Fronts
    <3>1. s \in Backs
      BY <2>2 DEF Conns
    <3>2. QED BY <2>2, <3>1 DEF TimelyInv, BackInv, BackPoolsOK, Holds
  <2>3. QED BY <2>1, <2>2
<1>2. CASE \E r \in Reqs : Holds(r, s)
  <2>1. Holder(s) \in Reqs /\ Holds(Holder(s), s)
    BY <1>2 DEF Holder
  <2>2. QED BY <1>1, <2>1
<1>3. CASE ~\E r \in Reqs : Holds(r, s)
  BY <1>3, ReqsAssumption DEF Holder
<1>4. QED BY <1>2, <1>3

LEMMA OwnersAfter == TimelyInv' => OwnersOK'
BY Owners, PTL

-----------------------------------------------------------------------------
(* Steps of the promise *)

(* After the step x has s, or nobody if x is None; nothing else changes    *)
(* hands.                                                                  *)
HandsTo(s, x) ==
    \A q \in Reqs, c \in Conns : Holds(q, c)' <=> IF c = s THEN q = x ELSE Holds(q, c)

(* r can do without s.                                                     *)
Spare(r, s) ==
    finished[r] \/ \E c \in Conns \ {s} : Holds(r, c) /\ SideOf(c) = SideOf(s)

Owner == [s \in Conns |-> Holder(s)]

LEMMA OwnerKept ==
    ASSUME OwnersOK, OwnersOK', \A r \in Reqs, s \in Conns : Holds(r, s)' <=> Holds(r, s)
    PROVE  Owner' = Owner
<1>1. ASSUME NEW s \in Conns PROVE Holder(s)' = Holder(s)
  BY ReqsAssumption DEF OwnersOK
<1>2. QED BY <1>1 DEF Owner

LEMMA OwnerChanged ==
    ASSUME OwnersOK, OwnersOK', NEW s \in Conns, NEW x \in Reqs \cup {None}, HandsTo(s, x)
    PROVE  Owner' = [Owner EXCEPT ![s] = x]
<1>1. ASSUME NEW c \in Conns PROVE Holder(c)' = IF c = s THEN x ELSE Holder(c)
  BY ReqsAssumption DEF OwnersOK, HandsTo
<1>2. QED BY <1>1 DEF Owner

(* A segment nobody has is taken.                                          *)
LEMMA Takes ==
    ASSUME OwnersOK, OwnersOK', UNCHANGED finished, NEW s \in Conns, NEW x \in Reqs,
           HandsTo(s, x), ~finished[x], \A r \in Reqs : ~Holds(r, s)
    PROVE  Promise!Next
<1>1. Holder(s) = None /\ Owner' = [Owner EXCEPT ![s] = x]
  BY OwnerChanged DEF OwnersOK
<1>2. Promise!Take(x, s)
  BY <1>1 DEF Promise!Take, Owner
<1>3. QED BY <1>2 DEF Promise!Next

(* A segment leaves its holder, for the pool or for another request.       *)
LEMMA Leaves ==
    ASSUME OwnersOK, OwnersOK', UNCHANGED finished, NEW s \in Conns, NEW x \in Reqs \cup {None},
           HandsTo(s, x), x # None => ~finished[x],
           NEW r \in Reqs, Holds(r, s), Spare(r, s), x # r
    PROVE  Promise!Next
<1>1. Holder(s) = r /\ Owner' = [Owner EXCEPT ![s] = x]
  BY OwnerChanged DEF OwnersOK
<1>2. Promise!MayLeave(s)
  BY <1>1 DEF Promise!MayLeave, Spare, OwnersOK
<1>3. CASE x = None
  <2>1. Promise!Give(s)
    BY <1>1, <1>2, <1>3, ReqsAssumption DEF Promise!Give, Owner
  <2>2. QED BY <2>1 DEF Promise!Next
<1>4. CASE x \in Reqs
  <2>1. Promise!Pass(s, x)
    BY <1>1, <1>2, <1>4, ReqsAssumption DEF Promise!Pass, Owner
  <2>2. QED BY <1>4, <2>1 DEF Promise!Next
<1>5. QED BY <1>3, <1>4

(* The step leaves all this alone.                                         *)
LEMMA Stutters ==
    ASSUME OwnersOK, OwnersOK', UNCHANGED finished, FrontStay, BackStay
    PROVE  UNCHANGED Promise!poolvars
<1>1. \A r \in Reqs, s \in Conns : Holds(r, s)' <=> Holds(r, s)
  BY DEF FrontStay, BackStay, Holds, Conns
<1>2. QED BY <1>1, OwnerKept DEF Owner, Promise!poolvars

LEMMA FrontMovesKeep ==
    ASSUME TimelyInv, OwnersOK, OwnersOK', UNCHANGED finished, BackStay, FrontMoves
    PROVE  [Promise!Next]_Promise!poolvars
<1>1. CASE FrontStay
  BY <1>1, Stutters
<1>2. CASE \E r \in Reqs, f \in Fronts :
              \/ FrontTaken(r, f) \/ FrontReturned(r, f)
              \/ \E q \in Reqs : FrontPassed(r, q, f)
  <2>1. PICK r \in Reqs, f \in Fronts :
              \/ FrontTaken(r, f) \/ FrontReturned(r, f)
              \/ \E q \in Reqs : FrontPassed(r, q, f)
    BY <1>2
  <2>2. /\ f \in Conns /\ None \notin Reqs
        /\ \A q \in Reqs, c \in Conns \ Fronts : Holds(q, c)' <=> Holds(q, c)
        /\ \A q \in Reqs, g \in Fronts : (Holds(q, g) <=> FrontHeld(q, g))
                                      /\ (Holds(q, g)' <=> FrontHeld(q, g)')
    BY ReqsAssumption DEF BackStay, Holds, Conns
  <2>3. /\ \A q \in Reqs, g \in Fronts : FrontHeld(r, f) /\ FrontHeld(r, g) => f = g
        /\ \A q \in Reqs : FrontHeld(r, f) /\ FrontHeld(q, f) => q = r
    BY DEF TimelyInv, FrontInv, FrontsExclusive, FrontHeld
  <2>4. CASE FrontTaken(r, f)
    <3>1. HandsTo(f, r)
      BY <2>2, <2>4 DEF HandsTo, FrontTaken
    <3>2. QED BY <2>2, <2>4, <3>1, Takes DEF FrontTaken
  <2>5. CASE FrontReturned(r, f)
    <3>1. HandsTo(f, None)
      BY <2>2, <2>3, <2>5 DEF HandsTo, FrontReturned
    <3>2. Holds(r, f) /\ Spare(r, f)
      BY <2>2, <2>5 DEF FrontReturned, Spare
    <3>3. QED BY <2>2, <3>1, <3>2, Leaves
  <2>6. ASSUME NEW q \in Reqs, FrontPassed(r, q, f) PROVE Promise!Next
    <3>1. HandsTo(f, q)
      BY <2>2, <2>3, <2>6 DEF HandsTo, FrontPassed
    <3>2. Holds(r, f) /\ Spare(r, f) /\ q # r /\ ~finished[q]
      BY <2>2, <2>6 DEF FrontPassed, Spare
    <3>3. QED BY <2>2, <3>1, <3>2, Leaves
  <2>7. QED BY <2>1, <2>4, <2>5, <2>6
<1>3. QED BY <1>1, <1>2 DEF FrontMoves

LEMMA BackMovesKeep ==
    ASSUME TimelyInv, OwnersOK, OwnersOK', UNCHANGED finished, FrontStay, BackMoves
    PROVE  [Promise!Next]_Promise!poolvars
<1>1. CASE BackStay
  BY <1>1, Stutters
<1>2. CASE \E r \in Reqs, b \in Backs :
              \/ BackTaken(r, b) \/ BackReturned(r, b)
              \/ \E q \in Reqs : BackPassed(r, q, b)
  <2>1. PICK r \in Reqs, b \in Backs :
              \/ BackTaken(r, b) \/ BackReturned(r, b)
              \/ \E q \in Reqs : BackPassed(r, q, b)
    BY <1>2
  <2>2. /\ Backs = Conns \ Fronts /\ None \notin Reqs
        /\ \A q \in Reqs, f \in Fronts : Holds(q, f)' <=> Holds(q, f)
        /\ \A q \in Reqs, c \in Backs : (Holds(q, c) <=> BackHeld(q, c))
                                     /\ (Holds(q, c)' <=> BackHeld(q, c)')
    BY ReqsAssumption, NamesAssumption DEF FrontStay, Holds, Conns
  <2>3. \A q \in Reqs : BackHeld(r, b) /\ BackHeld(q, b) => q = r
    BY DEF TimelyInv, BackInv, BackPoolsOK
  <2>4. BackHeld(r, b) /\ Dispensable(r, b) => Holds(r, b) /\ Spare(r, b)
    BY <2>2 DEF Dispensable, Spare, SideOf
  <2>5. CASE BackTaken(r, b)
    <3>1. HandsTo(b, r)
      BY <2>2, <2>5 DEF HandsTo, BackTaken
    <3>2. QED BY <2>2, <2>5, <3>1, Takes DEF BackTaken
  <2>6. CASE BackReturned(r, b)
    <3>1. HandsTo(b, None)
      BY <2>2, <2>3, <2>6 DEF HandsTo, BackReturned
    <3>2. Holds(r, b) /\ Spare(r, b)
      BY <2>4, <2>6 DEF BackReturned
    <3>3. QED BY <2>2, <3>1, <3>2, Leaves
  <2>7. ASSUME NEW q \in Reqs, BackPassed(r, q, b) PROVE Promise!Next
    <3>1. HandsTo(b, q)
      BY <2>2, <2>3, <2>7 DEF HandsTo, BackPassed
    <3>2. Holds(r, b) /\ Spare(r, b) /\ q # r /\ ~finished[q]
      BY <2>4, <2>7 DEF BackPassed
    <3>3. QED BY <2>2, <3>1, <3>2, Leaves
  <2>8. QED BY <2>1, <2>5, <2>6, <2>7
<1>3. QED BY <1>1, <1>2 DEF BackMoves

(* A request ends and keeps what it has.                                   *)
LEMMA EndsKeep ==
    ASSUME OwnersOK, OwnersOK', FrontStay, BackStay, NEW r \in Reqs, ~finished[r],
           finished' = [finished EXCEPT ![r] = TRUE]
    PROVE  Promise!Next
<1>1. \A q \in Reqs, s \in Conns : Holds(q, s)' <=> Holds(q, s)
  BY DEF FrontStay, BackStay, Holds, Conns
<1>2. Owner' = Owner
  BY <1>1, OwnerKept
<1>3. Promise!End(r)
  BY <1>2 DEF Promise!End, Owner
<1>4. QED BY <1>3 DEF Promise!Next

-----------------------------------------------------------------------------
(* A step touches the front side, or the back side, or ends a request.     *)
LEMMA Sides ==
    ASSUME TypeInv, [Next]_vars
    PROVE  \/ UNCHANGED <<finished, free_fronts, front>>
           \/ UNCHANGED <<finished, free_backs, await_back>>
           \/ /\ UNCHANGED <<free_fronts, front, free_backs, await_back>>
              /\ \E r \in Reqs : ~finished[r] /\ finished' = [finished EXCEPT ![r] = TRUE]
<1>1. CASE CallerStep
  BY <1>1 DEF CallerStep, SubmitLocked, SubmitReturn, pools, lines, ending
<1>2. ASSUME NEW f \in Fronts, NEW r \in Reqs, Classified(f, r)
      PROVE  UNCHANGED <<finished, free_fronts, front>>
  BY <1>2 DEF Classified, OnClassified, pools, ending
<1>3. ASSUME NEW b \in Backs, NEW r \in Reqs, Token(b, r)
      PROVE  UNCHANGED <<finished, free_fronts, front>>
  BY <1>3 DEF Token, TokenKept, TokenStop, TokenAlarmStay, TokenRebind, pools, ending
<1>4. ASSUME NEW t \in Conns,
             \/ BindPop(t) \/ BindQueue(t) \/ AttachBack(t) \/ FinishTest(t) \/ FinishSend(t)
             \/ ReleaseBack(t) \/ ReleaseOld(t) \/ StartFront(t)
      PROVE  UNCHANGED <<finished, free_fronts, front>>
  BY <1>4 DEF BindPop, BindQueue, AttachBack, FinishTest, FinishSend, ReleaseBack, ReleaseOld,
              StartFront, pools, ending
<1>5. ASSUME NEW t \in Conns, ReleaseFront(t)
      PROVE  UNCHANGED <<finished, free_backs, await_back>>
  BY <1>5 DEF ReleaseFront, ending
<1>6. ASSUME NEW t \in Conns, BindFail(t) \/ FinishMark(t)
      PROVE  /\ UNCHANGED <<free_fronts, front, free_backs, await_back>>
             /\ \/ UNCHANGED finished
                \/ \E r \in Reqs : ~finished[r] /\ finished' = [finished EXCEPT ![r] = TRUE]
  <2>1. UNCHANGED <<free_fronts, front, free_backs, await_back>>
    BY <1>6 DEF BindFail, FinishMark, pools, lines
  <2>2. PICK r \in Reqs : r = th[t].req
    BY <1>6, Typed DEF BindFail, FinishMark, LocalsOK
  <2>3. finished \in [Reqs -> BOOLEAN]
    BY Typed
  <2>4. UNCHANGED finished \/ finished' = [finished EXCEPT ![r] = TRUE]
    BY <1>6, <2>2 DEF BindFail, FinishMark
  <2>5. CASE finished[r]
    BY <2>1, <2>3, <2>4, <2>5
  <2>6. CASE ~finished[r]
    BY <2>1, <2>4, <2>6
  <2>7. QED BY <2>5, <2>6
<1>7. CASE UNCHANGED vars
  BY <1>7 DEF vars, pools, ending
<1>8. QED BY <1>1, <1>2, <1>3, <1>4, <1>5, <1>6, <1>7 DEF Next, HandlerStep

(* Every step of a timely schedule is a step of the promise.               *)
LEMMA PromiseStep ==
    TimelyInv /\ TimelyInv' /\ [Next]_vars => [Promise!Next]_Promise!poolvars
<1> SUFFICES ASSUME TimelyInv, TimelyInv', [Next]_vars PROVE [Promise!Next]_Promise!poolvars
  OBVIOUS
<1>1. OwnersOK /\ OwnersOK'
  BY Owners, OwnersAfter
<1>2. FrontMoves /\ BackMoves
  BY FrontInvStep, PoolsStep DEF TimelyInv
<1>3. CASE UNCHANGED <<finished, free_fronts, front>>
  <2>1. FrontStay
    BY <1>2, <1>3 DEF FrontMoves
  <2>2. QED BY <1>1, <1>2, <1>3, <2>1, BackMovesKeep
<1>4. CASE UNCHANGED <<finished, free_backs, await_back>>
  <2>1. BackStay
    BY <1>2, <1>4 DEF BackMoves
  <2>2. QED BY <1>1, <1>2, <1>4, <2>1, FrontMovesKeep
<1>5. CASE /\ UNCHANGED <<free_fronts, front, free_backs, await_back>>
           /\ \E r \in Reqs : ~finished[r] /\ finished' = [finished EXCEPT ![r] = TRUE]
  <2>1. FrontStay /\ BackStay
    BY <1>2, <1>5 DEF FrontMoves, BackMoves
  <2>2. QED BY <1>1, <1>5, <2>1, EndsKeep
<1>6. TypeInv
  BY DEF TimelyInv
<1>7. QED BY <1>3, <1>4, <1>5, <1>6, Sides

LEMMA PromiseInit == Init => Promise!Init
<1> SUFFICES ASSUME Init PROVE Promise!Init
  OBVIOUS
<1>1. /\ \A t \in Conns : th[t] = Idle
      /\ \A r \in Reqs : front[r] = None /\ back[r] = None
      /\ finished = [r \in Reqs |-> FALSE]
  BY DEF Init, Threads
<1>2. ASSUME NEW s \in Conns, NEW r \in Reqs PROVE ~Holds(r, s)
  BY <1>1, <1>2, NamesAssumption DEF Holds, FrontHeld, BackHeld, Idle
<1>3. \A s \in Conns : Holder(s) = None
  BY <1>2 DEF Holder
<1>4. QED BY <1>1, <1>3 DEF Promise!Init

(* For any number of requests, segments and tasks: whatever the threads of *)
(* the coordinator do in a timely schedule, a segment is taken only when   *)
(* nobody has it, and leaves a request only when that request has ended    *)
(* (_finish) or has another of its kind (the last line of _rebind).        *)
THEOREM PromiseKept == TimelySpec => KeepsThePromise
<1>1. TimelyInv /\ TimelyInv' /\ [Next /\ TimelyStep]_vars => [Promise!Next]_Promise!poolvars
  BY PromiseStep
<1>2. QED
  BY <1>1, PromiseInit, TimelyInvariant, PTL DEF TimelySpec, KeepsThePromise, Promise!Spec

=============================================================================
