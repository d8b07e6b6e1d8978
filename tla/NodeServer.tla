----------------------------- MODULE NodeServer -----------------------------
(***************************************************************************)
(* The data plane of p2pmoe/runtime/node.py: what a configured node does   *)
(* with each message that reaches it.  A node serves every incoming        *)
(* connection with a thread of its own and sends to each peer through one  *)
(* socket, so messages are ordered per pair of processes and not otherwise.*)
(* A handler is one step, but for the one that classifies, which is seen   *)
(* between its report and what it does after it.  Hidden states are        *)
(* abstracted to the number of the step they belong to (0 for the          *)
(* prefill), a key/value cache to the number of steps it holds.            *)
(***************************************************************************)
EXTENDS Naturals, FiniteSets, SequencesExt

CONSTANTS
    Reqs,
    Nodes,
    Coord,       \* the coordinator's process
    Links,       \* the connections of the address tables: <<sender, receiver>>
    NextHop,     \* NodeConfig.next_hop, None for the tail of a segment
    SegHead,     \* NodeConfig.seg_head
    FrontNodes,  \* the nodes whose role is "front"
    StaticPeer,  \* NodeConfig.static_peer, None in the dynamic mode
    StopIds,     \* TRUE: NodeConfig.stop_ids names the end-of-sequence tokens
    Buffer,      \* bound: unread messages on a connection; a full one blocks its sender
    MaxSteps,    \* bound: steps are counted up to here
    None

Processes == Nodes \cup {Coord}

(* ReqState: the fields the protocol reads.  `due` stands for a handler    *)
(* that has sent `classified` and is about to set `pending`.               *)
ReqStates ==
    [bound_to : Nodes \cup {None}, loop_to : Nodes \cup {None},
     cached_l0 : BOOLEAN, pending : BOOLEAN, due : BOOLEAN]

ASSUME NodeConstantsAssumption ==
    /\ Coord \notin Nodes
    /\ None \notin Processes \cup ReqStates
    /\ Links \subseteq Processes \X Processes
    /\ FrontNodes \subseteq Nodes
    /\ NextHop \in [Nodes -> Nodes \cup {None}]
    /\ SegHead \in [Nodes -> Nodes]
    /\ StaticPeer \in [Nodes -> Nodes \cup {None}]
    /\ StopIds \in BOOLEAN
    /\ MaxSteps \in Nat
    /\ Buffer \in Nat \ {0}

VARIABLES
    chan,   \* link -> the messages sent on it and not read yet
    kv,     \* node -> request -> steps in SegmentModel._kv, 0 for no entry
    st      \* node -> request -> ReqState, None for no entry in _reqs

nodevars == <<kv, st>>

Fresh ==
    [bound_to |-> None, loop_to |-> None,
     cached_l0 |-> FALSE, pending |-> FALSE, due |-> FALSE]

NodeInit ==
    /\ kv = [n \in Nodes |-> [r \in Reqs |-> 0]]
    /\ st = [n \in Nodes |-> [r \in Reqs |-> None]]

(* NodeServer._state: setdefault.                                          *)
State(n, r) == IF st[n][r] = None THEN Fresh ELSE st[n][r]

StepAfter(k) == IF k < MaxSteps THEN k + 1 ELSE MaxSteps

-----------------------------------------------------------------------------
(* Messages *)

Data(type, to, r, phase, k, loop_to) ==
    [type |-> type, to |-> to, req |-> r, phase |-> phase, step |-> k, loop_to |-> loop_to]

Control(type, to, r) == [type |-> type, to |-> to, req |-> r]
Bind(to, r, target)  == [type |-> "bind", to |-> to, req |-> r, target |-> target]
TokenReport(r, phase, eos) ==
    [type |-> "token", to |-> Coord, req |-> r, phase |-> phase, eos |-> eos]

HasRoom(c, link) == Len(c[link]) < Buffer

(* What a handler sends: to each addressee some messages, in order.        *)
Nothing == [to \in {} |-> <<>>]
Only(m) == [to \in {m.to} |-> <<m>>]

(* Everything in `out` is sent by p; `c` is what the links hold before.    *)
Send(c, p, out) ==
    /\ \A to \in DOMAIN out : <<p, to>> \in Links /\ HasRoom(c, <<p, to>>)
    /\ chan' = [l \in Links |->
                   IF l[1] = p /\ l[2] \in DOMAIN out THEN c[l] \o out[l[2]] ELSE c[l]]

(* The receiver of link l reads its head and answers with `out`.           *)
Answer(l, out) == Send([chan EXCEPT ![l] = Tail(@)], l[2], out)

-----------------------------------------------------------------------------
(* The end of a handler that ran the layers of this node: the ReqState it  *)
(* leaves and the messages it sends.                                       *)

Hop(n, r, phase, k, loop_to) ==
    Only(Data("hop", NextHop[n], r, phase, k, loop_to))

(* tail(f): in static mode straight to the wired back segment ...          *)
StaticForward(n, r, phase, k, s) ==
    LET to == IF s.bound_to # None THEN s.bound_to ELSE StaticPeer[n] IN
    [state |-> [s EXCEPT !.bound_to = to, !.cached_l0 = @ \/ phase = "prefill"],
     out   |-> Only(Data("seg_in", to, r, phase, k, SegHead[n]))]

(* ... else keep the output of a prefill, report its class, and set        *)
(* `pending` after that, see AwaitBind ...                                 *)
Classify(r, s) ==
    [state |-> [s EXCEPT !.cached_l0 = TRUE, !.due = TRUE],
     out   |-> Only(Control("classified", Coord, r))]

(* ... and pass a decode step on, if the request is bound.                 *)
Decode(n, r, k, s) ==
    [state |-> s,
     out   |-> IF s.bound_to = None THEN Nothing
               ELSE Only(Data("seg_in", s.bound_to, r, "decode", k, SegHead[n]))]

FrontTail(n, r, phase, k, s) ==
    IF StaticPeer[n] # None THEN StaticForward(n, r, phase, k, s)
    ELSE IF phase = "prefill" THEN Classify(r, s)
    ELSE Decode(n, r, k, s)

(* tail(b): report the token it sampled, and loop it back unless it is a   *)
(* stop token the node knows; without an address, report an error.         *)
BackTail(r, phase, k, loop_to, eos) ==
    IF eos /\ StopIds THEN Only(TokenReport(r, phase, eos))
    ELSE IF loop_to = None
         THEN [to \in {Coord} |-> <<TokenReport(r, phase, eos), Control("error", Coord, r)>>]
         ELSE [to \in {Coord, loop_to} |->
                 IF to = Coord THEN <<TokenReport(r, phase, eos)>>
                 ELSE <<Data("loop", loop_to, r, "decode", StepAfter(k), None)>>]

Advance(n, r, phase, k, loop_to, s, eos) ==
    IF NextHop[n] # None THEN [state |-> s, out |-> Hop(n, r, phase, k, loop_to)]
    ELSE IF n \in FrontNodes THEN FrontTail(n, r, phase, k, s)
    ELSE [state |-> s, out |-> BackTail(r, phase, k, loop_to, eos)]

-----------------------------------------------------------------------------
(* Handlers *)

(* Only tail(b) samples; any token may be the end of the sequence.         *)
Sampled(n) == IF n \notin FrontNodes /\ NextHop[n] = None THEN BOOLEAN ELSE {FALSE}

Reads(l, types) == chan[l] # <<>> /\ Head(chan[l]).type \in types

(* Run the layers on the message at the head of the link, then go on.  A   *)
(* full link stops the node whatever token it samples.                     *)
Compute(l, loop_to, s, eos) ==
    LET n == l[2]
        m == Head(chan[l])
        end == Advance(n, m.req, m.phase, m.step, loop_to, s, eos) IN
    /\ \A to \in Processes : <<n, to>> \in Links => HasRoom(chan, <<n, to>>)
    /\ kv' = [kv EXCEPT ![n][m.req] = StepAfter(@)]
    /\ st' = [st EXCEPT ![n][m.req] = end.state]
    /\ Answer(l, end.out)

OnPrefill(l) ==
    /\ Reads(l, {"prefill"})
    /\ \E eos \in Sampled(l[2]) :
          Compute(l, SegHead[l[2]], State(l[2], Head(chan[l]).req), eos)

OnHop(l) ==
    /\ Reads(l, {"hop"})
    /\ \E eos \in Sampled(l[2]) :
          Compute(l, Head(chan[l]).loop_to, State(l[2], Head(chan[l]).req), eos)

(* Fault: the address in the message is not used.                          *)
SegInForgetful(l) ==
    LET s == State(l[2], Head(chan[l]).req) IN
    /\ Reads(l, {"seg_in"})
    /\ \E eos \in Sampled(l[2]) : Compute(l, s.loop_to, s, eos)

(* head(b) remembers where the ring returns to.                            *)
OnSegIn(l) ==
    LET m == Head(chan[l])
        s == State(l[2], m.req)
        loop_to == IF m.loop_to # None THEN m.loop_to ELSE s.loop_to IN
    /\ Reads(l, {"seg_in"})
    /\ \E eos \in Sampled(l[2]) : Compute(l, loop_to, [s EXCEPT !.loop_to = loop_to], eos)

OnLoop(l) ==
    /\ Reads(l, {"loop"})
    /\ \E eos \in Sampled(l[2]) :
          Compute(l, SegHead[l[2]], State(l[2], Head(chan[l]).req), eos)

(* The rest of the handler that classified.  The bind it leads to may have *)
(* been handled before, in the thread of another connection; `release` has *)
(* taken the ReqState it writes to out of _reqs.  (Its connection could be *)
(* read on only afterwards; the model does not hold it up.)                *)
AwaitBind(n, r) ==
    /\ st[n][r] # None /\ st[n][r].due
    /\ st' = [st EXCEPT ![n][r] = [@ EXCEPT !.pending = TRUE, !.due = FALSE]]
    /\ UNCHANGED <<chan, kv>>

(* Fault: only an output that is pending is sent.                          *)
BindPendingOnly(l) ==
    LET n == l[2]
        m == Head(chan[l])
        s == State(n, m.req) IN
    /\ Reads(l, {"bind"})
    /\ st' = [st EXCEPT ![n][m.req] = [s EXCEPT !.bound_to = m.target, !.pending = FALSE]]
    /\ Answer(l, IF s.pending
                 THEN Only(Data("seg_in", m.target, m.req, "prefill", 0, SegHead[n]))
                 ELSE Only(Control("error", Coord, m.req)))
    /\ UNCHANGED kv

(* Fault: the tail computes its output again instead of keeping it.        *)
BindRecomputes(l) ==
    LET n == l[2]
        m == Head(chan[l])
        s == State(n, m.req) IN
    /\ Reads(l, {"bind"})
    /\ st' = [st EXCEPT ![n][m.req] = [s EXCEPT !.bound_to = m.target, !.pending = FALSE]]
    /\ kv' = [kv EXCEPT ![n][m.req] = StepAfter(@)]
    /\ Answer(l, Only(Data("seg_in", m.target, m.req, "prefill", 0, SegHead[n])))

(* tail(f) is told its back segment: send the output it kept, pending or   *)
(* cached, as a prefill; without one, report an error.                     *)
OnBind(l) ==
    LET n == l[2]
        m == Head(chan[l])
        s == State(n, m.req)
        kept == s.pending \/ s.cached_l0 IN
    /\ Reads(l, {"bind"})
    /\ st' = [st EXCEPT ![n][m.req] =
                 [s EXCEPT !.bound_to = m.target, !.pending = FALSE]]
    /\ Answer(l, IF kept
                 THEN Only(Data("seg_in", m.target, m.req, "prefill", 0, SegHead[n]))
                 ELSE Only(Control("error", Coord, m.req)))
    /\ UNCHANGED kv

(* The old back segment of a rebind forgets the cache and nothing else.    *)
OnDropKV(l) ==
    LET n == l[2] IN
    /\ Reads(l, {"drop_kv"})
    /\ kv' = [kv EXCEPT ![n][Head(chan[l]).req] = 0]
    /\ Answer(l, Nothing)
    /\ UNCHANGED st

(* Fault: the cache goes, the entry in _reqs stays.                        *)
ReleaseCacheOnly(l) ==
    LET n == l[2] IN
    /\ Reads(l, {"release"})
    /\ kv' = [kv EXCEPT ![n][Head(chan[l]).req] = 0]
    /\ Answer(l, Nothing)
    /\ UNCHANGED st

OnRelease(l) ==
    LET n == l[2] IN
    /\ Reads(l, {"release"})
    /\ kv' = [kv EXCEPT ![n][Head(chan[l]).req] = 0]
    /\ st' = [st EXCEPT ![n][Head(chan[l]).req] = None]
    /\ Answer(l, Nothing)

NodeStep(l) ==
    \/ OnPrefill(l) \/ OnHop(l) \/ OnSegIn(l) \/ OnLoop(l)
    \/ OnBind(l) \/ OnDropKV(l) \/ OnRelease(l)

=============================================================================
