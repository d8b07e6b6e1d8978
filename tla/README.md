# Verification of P2P_MoE

TLA+ models of the parts of `p2pmoe/` that decide something: which machine gets
which layers and experts, who holds which segment, which node does what with which
message, what becomes of a message when a connection breaks, what is read again
after a failure. TLC checks small instances of them; TLAPS proves properties of
the coordinator, of the ring of nodes, of the transport, of the planner and of fetching
for every number of requests, segments, machines, tasks, threads, messages, connections
and bytes.

## 1. The system

A model of mixture-of-experts layers is split over machines. A *segment* is a
chain of machines that together hold a range of layers; *front* segments hold the
first layers and serve any request, *back* segments hold the rest for one *task*.
A request turns as a ring: head(f) → … → tail(f) → head(b) → … → tail(b) → head(f),
one token per lap.

| Part | State it keeps | Operations | Talks to |
|---|---|---|---|
| Planner (`planner/`) | the segments, free machines, band and best round of `plan()` while it runs | cut, capacity, placement, band, experts, feedback, fronts, tightening → manifest | controller |
| Controller (`deploy/control.py`, `run.py`) | addresses, saved plan, wiring, batch of requests | capabilities and probes, `distribute`, submit loop, drain with a timeout | nodes by rpc, coordinator by calls |
| Coordinator (`runtime/coordinator.py`) | pools of free segments, waiting lines, a `RequestRecord` per request, miss-rate samples | `submit`; reports `classified`, `token`, `error`; bind, rebind, finish, release | nodes: `prefill`, `bind`, `drop_kv`, `release` |
| Node (`runtime/node.py`, `deploy/agent.py`) | configuration, model, `ReqState` and key/value cache per request | `configure`, `probe`, `prefill`, `hop`, `seg_in`, `loop`, `bind`, `drop_kv`, `release` | next node of the ring, coordinator |
| Wire (`runtime/wire.py`) | one socket per peer, address table | send with one reconnect, rpc | every process |
| Relay (`deploy/relay.py`) | parked connections | listen, dial, splice | nodes without a direct link |
| Fetch (`deploy/fetch.py`, `serve_weights.py`) | bytes of the read under way, transport | plan, read with resumption, cut, write | weight servers |
| Layouts (`deploy/manual.py`) | none | split, check, assign | controller |
| Text (`runtime/text.py`) | half-decoded characters, stop window | push, flush, stop tests | coordinator |
| Back ends (`model.py`, `torch_model.py`, `qwen3_next.py`, `weights.py`) | weights, caches | forward, drop_kv | node |

What is hard in it:

- the coordinator runs `submit` in the caller's thread and one thread per
  incoming connection. `self._lock` protects the queues only: every record field,
  and every decision based on one, is read and written outside it;
- the ring is ahead of the coordinator: tail(b) sends the next lap together with
  the token the coordinator has yet to judge, and nothing ever cancels a lap;
- a segment changes hands in three ways (popped, passed on to a waiting request,
  appended to a pool), and in a rebind one is taken before the other is returned;
- messages are ordered per pair of processes only, and a node serves each
  connection in its own thread;
- a connection may die without its writer being told, a write that failed half-way
  is repeated on another connection while the old one is still being read, and a
  parked connection may be dead when it is handed to a caller;
- `apply_config` replaces a node's model, classifier and peers one by one in the
  thread of a connection; the controller may have stopped waiting and be at it
  again;
- the planner's feedback undoes earlier decisions: segments are placed anew, given
  up and rolled back, and the band, the exits and the free machines must follow;
- downloads resume, retry and change their transport in the middle of a read.

The component list with what is modelled of each, and the hazards line by line
with the properties aimed at them, are in `PROJECT.json`.

## 2. The modules

| Module | Models | Used by |
|---|---|---|
| `ChannelPool` | the promise: a segment has one owner, is taken when free, and leaves a live request only in exchange for one of its kind | `CoordinatorPromise` |
| `Coordinator` | the dynamic mode of `coordinator.py`, thread by thread | `MCCoordinator`, the proofs |
| `CoordinatorPromise` | whose a segment is, and that the coordinator implements `ChannelPool` | `MCCoordinator`, the proofs |
| `StaticCoordinator` | the static mode: task pools, one line searched by label, whole channels | `MCStaticCoordinator` |
| `NodeServer` | the data-plane handlers of `node.py` | `Ring` |
| `Ring` | `NodeServer` on every node, composed with the coordinator's side of the protocol over ordered links | `MCRing` |
| `Fetch` | one shard through `fetch.py`: plan, `Source.read`, cut, write | `MCFetch` |
| `Wire` | one stream, in parts, with what each end knows of the other | `Transport` |
| `Transport` | `Peer`, `rpc`, `RelayListener`, the relay, a node's service loop and its configuration, the controller's `distribute` towards one node; crashes, breaks, restarts, abandoned waits | `MCTransport` |
| `Inventory` | what the planner reads of the problem: memory, measurements (with inf and nan), specifications, scores; Python's comprehensions, `sorted` and `sum` on lists | the modules below |
| `Solver` | `solver.py`: the search for a chain of machines, splitting layers, cost | `Planning` |
| `Capacity` | `capacity.py`, tiers, shapes, quotas, allocation to tasks | `Planning` |
| `Band` | `common_band.py`: the interval of delays from exits to entries that has exits enough, the entry that narrows it | `Planning` |
| `Tighten` | `tighten.py`: rounds of placing segments anew, accepted or not | `Planning` |
| `Experts` | `experts.py`: which experts a segment must hold | `Planning` |
| `Manifest` | `loop_trim.py`, `manifest.py`, `static_pairing.py`: the fronts with the shortest way back, the manifest, its validation, the wiring, saving and loading | `Planning` |
| `Layouts` | `manual.py`: layouts written by hand | `Planning` |
| `Planning` | `pipeline.plan` with its feedback, composed with the controller from the first question to the machines until it serves | `MCPlanning` |
| `SequenceLemmas`, `Coordinator_proofs`, `CoordinatorBacks_proofs`, `StaticCoordinator_proofs`, `Ring_proofs`, `Transport_proofs`, `Fetch_proofs`, `Planning_proofs` | the proofs | |

`Coordinator`: `th[t]` is the program counter and the locals of thread `t`. A step
runs from one point where another thread may be seen to the next: the section
under the lock, then what follows it, the test of `rec.finished`, then its
assignment, and so on. So `submit` is `SubmitLocked` and `SubmitReturn`; a token is
`TokenKept`, `TokenStop` or a rebind, and what it leads to (`FinishTest`,
`FinishMark`, `FinishSend`, `ReturnBack`, `AttachBack`, `ReturnFront`) are steps of
the same thread. The miss rate is any value: a full window may alarm or not. The
nodes are a contract: one `classified` per prefill, tokens from any back segment
the request was ever bound to. `Ring` checks that contract (`NodeContract`).

`Ring`: a handler is one step, but for the one that classifies: it reports first and
sets `pending` afterwards (`AwaitBind`), and the bind may come in between and find only
what was kept of the prefill. A rebind needs a full miss window, counted over decode
steps as in the code; whether the rate then alarms is a choice. A link is a queue with a bounded number of unread
messages (`Buffer`; a full one stops its sender, as a full socket does). What a handler
sends is a function from the processes it writes to to what each gets, since between
two links there is no order. A hidden
state is the number of the step it belongs to, a cache the number of steps it
holds. The coordinator there gives out segments without threads; its races are the
subject of `Coordinator`. What a lap does after `release`, or after a rebind, is
the subject of `Ring`.

`Fetch`: the byte at offset i is i, so a wrong, missing or doubled byte is visible.
A response may be dropped (any OSError), cut (urllib's IncompleteRead, which
nobody catches), short, empty or complete.

`Transport`: a message is two frames, so that an interrupted `sendall` leaves half
of it behind, unless the peer is gone: then the whole message, and any after it,
succeeds and is lost (`gone`) until the reset comes back at a moment of its own
(`Notice`), after which a write raises. `link` says what a write meets, `eof` what the
reader will find. In relay mode a stream begins as a
parked connection of `RelayListener`, and one record stands for the two sockets the
relay pumps into each other. `send[t]` is the call of `Peer.send` a thread is in,
with its attempt and its try to connect. `job[k]` is the call of `apply_config` for
the k-th run of the controller, in three steps: release and set, load, replace and
answer. Waits have no clock: a timeout may fall anywhere, and counts as a fault
where the code's limits make it one.

`Planning` and the modules under it are one computation with few choices: which
machines answer, which layouts or wiring are given, where a machine fails while it
is configured, whether a plan is loaded again. Times are whole numbers (of 0.05 ms),
so comparisons with a tolerance are exact; nan and inf are values of their own with
Python's rules for comparing, taking maxima and sorting them, because they decide
what becomes of a pair of machines that cannot hear each other. The loops of `plan()`
that nothing can interrupt - the search of a segment, a tightening, the building of the
fronts - are functions on the number of the round (`Grown`, `Round`, `TightenLex`,
`Fronts`), so that they can be proved about; a round of the feedback, and what is
between two of them, are steps. `The` names a value that is computed once and used more
than once.

## 3. The runs

| Run | Question | Result |
|---|---|---|
| `coordinator_safety` | 3 requests, 2 front segments, pools of one, a task without a pool, rebinds and failures (606,631 states) | exclusive use, nothing lost, nobody waits for what is free, waiters hold nothing of the kind they wait for |
| `coordinator_progress` | the same with self-calibrating baselines (99,645 states) | every request ends, the pools are whole at rest, `ChannelPool` is implemented |
| `static_service` | 4 requests, two tasks with one channel, one with none (42,541 states) | channels exclusive, served in order per task, every served request ends |
| `ring` | 1 request, front segment of two nodes, two back segments, one rebind, a bind that overtakes the handler that classified (105,383 states) | caches keep step until a rebind, the contract above, the ring of a finished request dies, every request ends |
| `fetch` | every subset of three tensors, both modes, all transports, with and without Range (6,092 states) | exact bytes, stitched in order, nothing resumed on a server that ignores Range nor cut out of what it sends, every fetch ends |
| `planning` | thirteen sites: plans that fail, feedback with and without rollback, segments given up, tightening, layouts by hand (well formed and not), machines that do not answer or fail, a second start with the saved plan | what is planned fits its machines, the books of free machines balance, bands and fronts fit what was kept after a rollback, what serves makes closed rings that hold the experts they promise, a saved plan is wired alike, every start ends |
| `transport` | two threads, one kept connection, a node configured once or twice, direct or through the relay with two parked connections, one fault anywhere (247,791 states) | whole frames, each message at most once, the listener keeps its places, an acknowledged configuration is whole, every send ends and nothing but a break loses a message |
| `v_overtaken` | a segment returned between the two halves of `submit` | the request starts twice; a segment is lost or doubled |
| `v_lost_wakeup` | a channel returned before `rec.task` is set (static mode) | the request is not seen and waits for ever |
| `v_out_of_step` | a lap of the old ring is under way at a rebind | the caches of the front segment hold a step more than the new back segment's |
| `v_unreachable` | a site where one front tail hears from no other machine | the plan uses such links and serves over them |
| `v_zombie_ring` | a wired pair, nodes that do not know the stop tokens (a request that ends by `max_tokens` is as bad) | the ring of a finished request never stops |

The `v_` runs are expected to be violated; each has an entry in `findings` with the
comment, docstring or test the code disagrees with. One more finding needs no
counterexample: shard mode, which `fetch.py` recommends for servers without Range,
is refused by them like slice mode (`Fetch_proofs!ShardRefusedToo`, over the model of
`fetch`; section 5).

**Timely schedules.** Because of `v_overtaken`, and because two tails may
report tokens of one request after a rebind (their handlers then return its segments
twice and a pool grows), most properties of the dynamic coordinator do not hold in
every interleaving. The passing runs
restrict the schedule by `TimelyStep`, which excludes exactly the following:
another thread overtakes a `submit` that has left the lock; two handlers work on
one request at once; a pool that a rebind has looked at is emptied before it pops.
In the static mode `Prompt` excludes the first. That the first window can be entered,
and what it does, is shown by `v_overtaken` and `v_lost_wakeup`; the other two are
read off the code and only excluded: no run shows what follows there. So the runs say: apart from these
races the protocol is right. Inside these limits every interleaving is explored.

**Bounds.** Two front segments and one segment per pool make both lines fill up
with three requests, and let a returned segment be passed on, pooled or raced for.
Two tokens with a window of two are the fewest with which a request may alarm
before it ends (`MinWindow` 1 lets a request that finds no other pool alarm at
every token and return before the test of `max_tokens`: it then need not end; the
default of the code is larger). In `ring` one request is enough, since nodes key
all their state by request and the coordinator gives a segment to one at a time;
`MinWindow` 1 lets the first decode step alarm (an alarm without a pool to go to is the
subject of `Coordinator`); `MaxSteps` 2 tells a step from its neighbours; `Buffer` 1 is the smallest in-flight
window and so the strongest for progress, while two connections into a node already
reorder a control message with a lap. In `fetch`, three retries let the count be
interrupted by progress; the layout has a merged and a separate range. In `planning` a site has four to
seven machines and four to six layers, chosen so that each branch of the feedback is
taken by one of them; the run fires every action. In `transport` two messages let
threads meet at the lock and a second message follow a lost first one; one fault is
enough for each way of losing a message, for a second attempt, and, the node being
down, for a send that raises. With the relay the controller runs once, since parked
connections and callers make the instance large; a second configure is in the direct
mode. `MaxConns` takes nothing away: `TypeOK` says a stream is always free. Counters
that the code leaves unbounded are bounded by `MaxTokens`, `MaxRebinds` (2 in the
code), `Retries`, `MaxSteps`.

**Deadlock** is not checked: every one of these systems stops when the last request
has ended; the liveness properties say that it does not stop earlier.

**Fairness.** `Coordinator` and `StaticCoordinator` assume only that the machine as
a whole goes on (`WF` of the next-state relation): ready threads are run, nodes
answer, the caller goes on submitting. No single thread is promised a turn. `Ring`
adds that what the coordinator sends is read in the end, whatever else reaches the
node; each connection has a thread of its own, so a turning ring cannot starve
`release`. `Fetch` assumes the loop goes on, since every attempt has a timeout.
None of these rests on a message being resent: in `Coordinator` and `Ring` sends
succeed and links lose nothing. `Planning` assumes that the controller goes on.
`Transport` assumes that the sender, the relay and the node's threads run on, but not
that anything is started again, that a configure is sent or that anybody notices a
connection that is gone.

## 4. The proofs

Of the coordinator, all for arbitrary finite or infinite sets of requests and tasks,
any queues, any bounds; the assumptions are the named `ASSUME`s of `Coordinator` (a segment has one
role and, if it is a back segment, one task; the queues name it once; there are
finitely many segments, which counts only where `TimelyStep` counts the rebinds that
have looked at a pool) and of
`StaticCoordinator` (a channel has one task, a back segment one channel).

- `TypeCorrect` (`Coordinator_proofs`): `TypeOK` and `LocalsOK`, in every schedule.
  `TypeOK` is not inductive: a handler indexes records by what its locals hold.
  `TypeInv` adds that each program counter has the locals it needs (`LocalsOK`) and
  that a request that was ever bound has both segments and a task, and one that
  waits for a back segment its front segment (`RequestsOK`). One step per action; `OneThreadMoves` and `GotoLocals` settle all
  threads that did not move.
- `NobodyWaitsForWhatIsFree`: `NoIdleWhileWaiting` in every schedule, races
  included. It is inductive over `TypeInv`, because each section under the lock
  looks at the pool and the line together; that the races do not touch it is the
  point of the theorem.
- `ExclusiveFronts` (`Coordinator_proofs`): `FrontsExclusive` and
  `NoFrontLost` in every timely schedule. `FrontInv` adds that requests that have not
  arrived, or wait in the line, have no front segment and are not finished
  (`ArrivalsOK`), and that a thread on its way to return a segment is the one that
  marked its request finished (`EndingOK`); with one handler per request, which
  `TimelyStep` keeps, this is inductive. `QuietStep` and `AloofStep` dispose of the actions that leave the front
  side alone; the rest (pop, queue, pass on, return) are proved one by one.
- `ExclusiveBacks`, `NeverLost`, `WaitersOnlyWait` (`CoordinatorBacks_proofs`):
  `BacksExclusive`, `NothingLost` and `WaitersAreWaiting` in every timely schedule.
  The difficulty is that a segment on its way is named only by the locals of a
  thread. `TimelyInv` adds to the invariants above: a request between its front and
  its first back segment is in exactly one place - `submit`, a prefill, a thread
  about to start, bind or attach it, or one line - and is not yet bound or ended
  there (`PlacesOK`, `OnceOK`); a thread that rebinds knows the old segment and its
  pool, and the request keeps the old one until the new one is attached
  (`RebindOK`); label and segment of a request name the same pool but while it moves
  (`PairedOK`); and a segment is in its pool exactly if nobody holds it
  (`BackPoolsOK`). Without `PlacesOK` a second prefill could bind a request twice;
  without `PairedOK` a segment could be returned to the pool of another task.
  `PlacesStep` follows each request through the steps, `PoolsTake`, `PoolsPass` and
  `PoolsReturn` are the three things that happen to a pool.
- `RestoredPools`: `PoolsRestored`, if every task has a segment (`AllServed`). The
  hypothesis is needed: a request that fails for want of a back segment keeps its
  front segment (section 5). `coordinator_progress` has such an instance.
- `PromiseKept` (`CoordinatorBacks_proofs`): the coordinator implements
  `ChannelPool` in every timely schedule. The refinement mapping makes the owner of a
  segment the one request that holds it, through its record or through the locals of a
  thread. The step lemmas of the invariants say in passing how the holders move
  (`FrontMoves`, `BackMoves`); `Sides` says that a step touches the front segments, or
  the back segments, or ends a request, and so is one step of the promise or none.
- `StaticTypes` and `ExclusiveChannels` (`StaticCoordinator_proofs`): `TypeOK` and
  `ChannelsExclusive` in every schedule, also when a label comes too late. Neither is
  inductive; `StaticInv` adds five parts. `LocalsOK`: only the connection of a
  request's own channel works on its end, so the end has one thread and the return of
  the front segment one author (`OneConnection`, `HolderReleases`). `TokensOK`: a
  request a token can still be taken from is below the bound.
  `RecordsOK`: channel, label and rings of a request belong together. `ArrivalsOK`:
  the line is exactly the requests for wired tasks without a channel, in the order of
  arrival. `PoolsOK`: `ChannelsExclusive` without counting.
- `NoChannelIdles` and `FirstComeFirstServed`: `NoIdleChannel` and `ServedInOrder`
  for `Prompt = TRUE`, that is, if no channel returns between the two halves of
  `submit()`. That condition is where the proofs use that everybody in the line is
  labelled; without it `v_lost_wakeup` shows what happens.
- `Ring_proofs`, for any chains, any number of requests, steps, rebinds (at most the two
  of the code) and of unread messages, with or without a wiring, nodes that know the stop
  tokens or do not. Assumed
  (`RingConstantsAssumption`): what `distribute` tells the nodes - each node of a chain
  knows the next one and the head (`Configured`), front and back nodes are apart, no node
  is in two chains, the tail of a wired front segment has the head of its back segment as
  static peer. `Types` and `Contract` are the invariant under the three theorems.
  `Contract` has five parts. `MessagesOK`: each message is on a link of the ring its
  request has, or of one it had (`bound`), and knows the head it returns to. `RecordsOK`:
  what the coordinator notes of a request fits together, the count of its tokens
  included. `StatesOK`: a tail is bound to a back segment the request was bound to.
  `EarlyOK`: of the first lap there is one message at most up to its report, and none
  once a back segment is bound. `KeptOK`: from its report until `release`, tail(f) has
  the output of that lap, and no `bind` is behind the `release` that makes tail(f) forget
  it. A step
  takes one message and sends at most one to each process (`Moves`), so the theorems rest
  on a few lemmas on how the places of a kind of message move (`ReadSpent`, `OnceSpent`)
  and not on the queues.
  A handler that only sets `pending` moves no message and touches nothing the contract
  looks at (`RestKeeps`, `NothingMoves`): a bind needs what was kept, and that is there
  before the report.
  - `RingTypes`: `TypeOK`, with the miss window within its bound (`WindowStep`). That tokens stay within `max_tokens` and one for each rebind is
    not seen from the count alone: it needs that an unfinished request is below that.
  - `ContractHolds`: `NodeContract`, which the modules of the coordinator take for granted;
    with it the theorems above hold of coordinator and nodes together.
  - `StepsInOrder`: `CachesInStep`. The invariant (`AllCachesOK`) says that one message at
    most carries a live request on (data, its report or the bind), and where the lap stands
    each time: the nodes it has passed hold one step more than those before it (`Filled`,
    `LapAt`), the back segments the request is not bound to hold nothing. The hypothesis
    that there was no rebind is needed: `v_out_of_step`.
- `Transport_proofs`, for any threads, scripts, streams, retries, depth, number of
  configurations and of faults, direct or through the relay. Assumed
  (`TransportConstantsAssumption`): a message is sent by one call of `Peer.send`, and
  what the code requires of its parameters. A step that opens a stream waits for a
  free one (`Free # {}`): `MaxConns` stands for the streams there may ever be at one
  time. `Base` is the invariant under the four theorems: `TypeOK` without the bounds
  (`BaseInvariant`), one call has the peer's lock and knows whether there is a
  connection (`CallsOK`, `DialsOK`), and an open stream has one writer, a parked one
  none (`NearOK`). `QueueMoves` says the five things that can happen to what is on its
  way: ends are cut off, a thread writes a part, the controller writes a configure on
  an empty stream, a reader takes a message or a configure.
  - `PlacesNeverLost`: `DepthKept`. A stream counts as a place by its far end only, so
    each step must give and take the same; `PlacesOK` adds that a node that is down has
    no stream.
  - `SentOnce`: `AtMostOnce`. `CopiesOK` says where the second frame of a message can
    be: nowhere before its call succeeds, afterwards in one place of one queue or with
    the node. That the second attempt cannot double a message rests on this: it is made
    only when the second frame has not been written.
  - `MessagesWhole`: `FramesWhole`. `HalfOK` ties the end of the kept connection's queue
    to the thread that has the lock: while the link carries what is written, the queue
    ends in half a message exactly while a thread has written half of that message.
  - `AcknowledgedWhole`: `AckedWhole`. `ConfigOK` says that, before a run of the
    controller overlaps with an abandoned one, what is under way is that run's, in one
    place, on its way or being applied, and the node's configuration and model are what
    the job has made of them; so the last step of the job completes one manifest, and
    an answer means that nothing is under way. The hypothesis `~tangled` is where
    section 5 shows the property to fail.
- `Fetch_proofs`, for any file, tensors, gap and number of retries, and whatever the
  server does. Assumed (`FetchConstantsAssumption`): the tensors lie one after another
  in the file, behind the header. `FetchInv` says that the reads are done in the order of
  the plan (`InOrder`), that each chunk is what was asked for, where a whole file may
  have lost its end (`Got`), and that the read under way has the beginning of its range
  and not all of it (`Begun`). One lemma does most of the work (`Answer`): what had come
  and what comes now are together the beginning of the range, because a server that
  ignores `Range` was refused at the header (`Honest`), so nobody starts again from 0
  in the middle.
  - `TypeCorrect`: `TypeOK`; `ReadsStitched`: `Stitched`; `RefusedAtTheHeader`:
    `RefusedFirst`, from the stronger `NothingKept`, which the proof needs: such a server
    is refused at the header in both modes. `ShardRefusedToo` is what that means for
    shard mode: it never ends well there.
  - `WrittenExact`: `Exact`. `CoalesceCovers` says that the merged ranges hold every
    tensor, by induction on the loop of `_coalesce`: the last range never begins behind
    the tensor that comes next, since the tensors are sorted. `CutIs` follows the first
    such range to the chunk it became and cuts the tensor out of it.
- `Planning_proofs`, for any sites, any number of starts and of lines of a wiring file.
  Assumed (`SitesAssumption`): what the controller gives the planner - machines numbered
  from 1 on, delays that are natural numbers (or the one for no answer), a benchmark
  that took some time, tasks with a share of the arrivals, parameters that are natural
  numbers. Nothing is assumed of memory, jitter, profiles or coverage. `PlanInv` says
  what has been done of the plan at each stage (`Safe`): the segments of every task are
  placements of its specification (`Proper`), while the feedback runs the number to be
  served is their number (`AtWork`), and what is remembered of the best round is a plan of
  the same size that fits as well (`BestFits`); a plan at `check` has its fronts. Its
  foundation is the search. `Sound` describes a partial segment: its machines are
  different and free, its intervals join, each fits its machine, no link is blocked.
  `ExtensionsType` and `GrowType` keep it from round to round, and `DeployPathType` says
  that what the search returns, if anything, is `Complete` (`Placements`). All else
  that places segments calls it: `RoundType` and `TightenLexType` for a tightening,
  `RebuiltType` for an entry placed anew, `FrontsType` for the fronts. `BestFacts`,
  `WhereType` and `TotalChange` say what sorting, choosing and adding up do to a list.
  - `SegmentsAlwaysFit`: `SegmentsFit`, from `Proper` and `Sound`.
  - `BooksAlwaysBalance`: `BooksBalance`. `BacksChange` follows the count through a segment
    built, replaced and given up. That giving one up forgets the best round is where the
    proof would fail otherwise: that round has a segment more.
  - `FrontsAlwaysEnough`: `EnoughFronts`. `TrimFronts` compares with the number to be
    served; that this is the number of segments is `BooksBalance` again.
  - `TighteningKeeps`: `TightenKeeps`. By induction over the rounds and then over the
    tasks (`NextRoundType`, `TightenTasksType`): the tasks are tightened one after another
    out of one pool, and one that comes later must not change an earlier one.
  - `EveryPlanEnds`: `PlanEnds`. `Numbers` adds that the rounds of the feedback stay
    within `MaxFeedback`: a round is only begun below it. The rest compares the stages
    before and after each action (`Nearer`).
- `SequenceLemmas`: what `Head`/`Tail`, `Append` and `RemoveAt` do to the elements and
  the order of a queue; and induction over the index (`CountUp`) and the existence of
  what is defined by recursion on it (`Recursion`), with the invariants of a loop
  (`LoopInvariant`), stated for sets, since the theorems of the library take an operator,
  which the provers cannot instantiate.

Every property listed under "theorems" is also checked by `coordinator_safety`,
`coordinator_progress`, `static_service`, `ring`, `transport`, `fetch` or `planning`, and
the inductive invariants were checked with TLC first.

Only model-checked: liveness under fairness (out of the prover's reach, as is
`ENABLED`), so also that a ring and a fetch end; the part of `Transport`'s `TypeOK` that
says its bounds are never reached; and of the planner what depends on segments having
different machines. A round of tightening may give two back segments one machine: a
segment whose machines went to the pool, where another took them, falls back on them
when it finds no other place (tighten.py:206), and after another round a machine may be
free and in use. So `BandHolds` (which machines are free) is no invariant of every
problem; none of the thirteen sites is one where it fails. `TypeOK` and `RingClosed`
would need what the validation of the manifest says of the machines in it, `ExpertsServed`
and `WiringSurvives` are about sums of profiles and about a sort that is done twice;
these are checked on the same sites.

## 5. Not modelled, and why

Values: miss rates, confidences, latencies, text and statistics are left out or
replaced by a choice. Numerical back ends, the launcher (commands over ssh) and the
simulator have no state worth a model. The text layer (`text.py`: incremental
detokenisation, stop strings) is a function of the tokens that nothing here depends
on. Parsing of model configurations and routing data has no state. Of the node, the
answers that change nothing (capabilities, probes, statistics, profiles) are left
out; of the planner, reports nobody acts on (the final audit, gaps, merge signals).
Inside `Fetch` the length of the file is known from the header's response, and the
key sets come from the manifest.

Failures of sends are in `Transport`, not in `Coordinator` and `Ring`. What follows
from putting them together needs no model: the coordinator has no timeouts, so a
request whose message is lost, or whose node starts again, keeps its segments; the
controller reports it and goes on (`drain`). DEPLOY.md names maintenance at run time
as not implemented.

Observations that no run states:

- shard mode is meant for servers without Range (fetch.py:19-20, the texts of the errors
  at 307 and 326, the docstring of tests/test_fetch.py:172), but `plan_fetch` reads the
  header by ranges in every mode, so such a server is refused before the shard is asked
  for. `RefusedFirst` therefore claims refusal as right only where tensors are cut; the
  theorem `ShardRefusedToo` states the rest as what the code does, not as what it should.
  The server in that test honours Range;
- delays are rounded to 0.01 ms in a saved plan (manifest.py:152-155). The model's are
  multiples of 0.05 ms, so `WiringSurvives` says nothing of pairs that rounding puts in
  another order;
- a configure that the controller gave up and one it sent later run side by side;
  the node may end with the configuration of the first and the model, classifier and
  peers of the second, both acknowledged as whole. DEPLOY.md:524 says to just run the
  controller again. Drop `~tangled` from `AckedWhole` and TLC shows it in 13 steps;
- a parked connection that a box on the way forgets leaves its thread waiting for
  ever; `RelayListener` never tests or renews what it has parked. A node whose
  `depth` connections all went that way cannot be reached, though it runs;
- `apply_config` keeps `_reqs`, and a new run of the controller names its requests as
  the last one did;
- a request that fails for want of a back segment keeps its front segment
  (coordinator.py:508); the instance of `coordinator_progress` gives every task a back
  segment;
- a whole-file read that gets only empty answers returns what it has
  (`EmptySettles`), and a cut response loses what had arrived, so a link that always
  cuts is not crawled across as the docstring of `Source.read` says (`Escapes`,
  `Dropped`);
- in the planner: `largest_remainder` with `min_one` may leave a task without a
  segment; tiers of one name and different memory are merged; a round of tightening
  may give two segments one machine, which only the manifest's validation notices; a
  loaded plan is not validated and its machines are not probed.

## 6. What could follow

The text layer as operators against a reference; `Ring` over the streams of `Wire` instead of links that lose nothing.
