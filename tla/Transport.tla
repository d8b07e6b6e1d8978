------------------------------ MODULE Transport ------------------------------
(***************************************************************************)
(* How messages reach a node: Peer of wire.py (one kept connection, shared *)
(* by the handler threads of a node under a lock), the relay of            *)
(* deploy/relay.py with RelayListener, and of node.py the service loop and *)
(* the configuration by the controller's rpc.  Several threads of one node *)
(* send to another; the controller configures that node, perhaps more than *)
(* once.  Nodes crash and start again, the relay is restarted, connections *)
(* break, with or without either end being told, loads fail and waits time *)
(* out: together at most MaxFaults times.                                  *)
(***************************************************************************)
EXTENDS Wire, FiniteSets

CONSTANTS
    Modes,          \* subset of {"direct", "relay"}: NodeServer.relay is None or not
    Threads,        \* handler threads of the sending node
    Script,         \* thread -> the messages it sends, in order
    Ctl,            \* the controller
    Retries,        \* Peer.retries
    Depth,          \* RelayListener.depth
    MaxConfigures,  \* bound: mode -> runs of `distribute`
    MaxFaults,      \* bound: see above
    MaxConns,       \* bound: streams at one time; TypeOK says that one is always free
    None

Msgs  == UNION {ToSet(Script[t]) : t \in Threads}
Conns == 1..MaxConns
Configs == UNION {1..MaxConfigures[x] : x \in Modes}
Diallers == Threads \cup {Ctl}

ASSUME TransportConstantsAssumption ==
    /\ Modes \subseteq {"direct", "relay"}
    /\ Ctl \notin Threads
    /\ \A t \in Threads : Script[t] \in Seq(ToSet(Script[t])) /\ IsInjective(Script[t])
    /\ \A t, u \in Threads : t # u => ToSet(Script[t]) \cap ToSet(Script[u]) = {}
    /\ {Retries, Depth, MaxConns} \subseteq Nat \ {0}
    /\ \A x \in Modes : MaxConfigures[x] \in Nat \ {0}
    /\ MaxFaults \in Nat
    /\ None \notin Configs

VARIABLES
    mode,
    conn,      \* the streams
    relayUp, parked, dials,   \* Relay: it runs, _parked[node], the _dial calls
    up,        \* the node's process runs
    parkers,   \* RelayListener: threads that hold no connection
    node,      \* NodeServer: cfg, model, clf, pool
    job,       \* apply_config calls: where they are and whom they answer
    ctl,       \* the controller's rpc
    sock,      \* Peer._sock
    send,      \* thread -> its Peer.send call
    fate,      \* message -> how the call ended
    got, refused, lost,   \* messages handled, refused, dropped on the way
    tangled,   \* a configure was sent while an abandoned one was still under way
    faults

wire == <<conn, relayUp, parked, dials, parkers>>
server == <<up, node, job>>
sender == <<sock, send, fate>>
record == <<got, refused, lost>>
vars == <<mode, wire, server, ctl, tangled, sender, record, faults>>

Unconfigured == [cfg |-> None, model |-> None, clf |-> None, pool |-> None]
ConfiguredBy(k) == [cfg |-> k, model |-> k, clf |-> k, pool |-> k]
NoJob == [st |-> "idle", at |-> 0]

Init ==
    /\ mode \in Modes
    /\ conn = [c \in Conns |-> Unused]
    /\ relayUp = TRUE /\ parked = <<>> /\ dials = {}
    /\ up = TRUE
    /\ parkers = IF mode = "relay" THEN Depth ELSE 0
    /\ node = Unconfigured
    /\ job = [k \in Configs |-> NoJob]
    /\ ctl = [k |-> 0, st |-> "idle", at |-> 0]
    /\ sock = 0
    /\ send = [t \in Threads |-> [n |-> 1, st |-> "idle", attempt |-> 0, tries |-> 0]]
    /\ fate = [m \in Msgs |-> "new"]
    /\ got = [m \in Msgs |-> 0] /\ refused = {} /\ lost = {}
    /\ tangled = FALSE
    /\ faults = 0

Fault == faults < MaxFaults /\ faults' = faults + 1

Free == {c \in Conns : conn[c] = Unused}
NewConn == CHOOSE c \in Conns : conn[c] = Unused
Current(t) == Script[t][send[t].n]

-----------------------------------------------------------------------------
(* Peer *)

(* Mutant: send without the lock.                                          *)
LockIgnored == TRUE

(* Peer._lock: one call at a time.                                         *)
LockFree == \A t \in Threads : send[t].st = "idle"

(* The loop over `attempt`: the second failure is raised.                  *)
AttemptFailed(s) ==
    IF s.attempt = 0
    THEN [s EXCEPT !.st = "connect", !.attempt = 1, !.tries = 0]
    ELSE [n |-> s.n + 1, st |-> "idle", attempt |-> 0, tries |-> 0]

(* Peer._connect: the last try that fails is a failure of the attempt.     *)
TryFailed(s) ==
    IF s.tries + 1 < Retries THEN [s EXCEPT !.st = "connect", !.tries = @ + 1]
                             ELSE AttemptFailed(s)

(* Calls that a failure takes on, some perhaps by raising.                 *)
Fail(calls) ==
    /\ send' = calls
    /\ fate' = [m \in Msgs |->
                  IF \E t \in Threads : calls[t].n # send[t].n /\ m = Current(t)
                  THEN "raised" ELSE fate[m]]

(* PeerPool.send from a handler; a request starts when the controller has  *)
(* its acknowledgements.                                                   *)
BeginSend(t) ==
    /\ send[t].st = "idle" /\ send[t].n <= Len(Script[t])
    /\ LockFree
    /\ ctl.st = "acked"
    /\ send' = [send EXCEPT ![t].st = IF sock = 0 THEN "connect" ELSE "first"]
    /\ fate' = [fate EXCEPT ![Current(t)] = "begun"]
    /\ UNCHANGED <<mode, wire, server, ctl, tangled, sock, record, faults>>

Connect(t) ==
    /\ send[t].st = "connect"
    /\ \/ /\ mode = "direct" /\ up /\ Free # {}
          /\ conn' = [conn EXCEPT ![NewConn] = Connected]
          /\ sock' = NewConn
          /\ send' = [send EXCEPT ![t].st = "first"]
          /\ UNCHANGED <<fate, dials>>
       \/ /\ mode = "relay" /\ relayUp
          /\ dials' = dials \cup {[by |-> t, cand |-> 0, left |-> FALSE]}
          /\ send' = [send EXCEPT ![t].st = "dial"]
          /\ UNCHANGED <<fate, conn, sock>>
       \/ /\ IF mode = "direct" THEN ~up ELSE ~relayUp
          /\ Fail([send EXCEPT ![t] = TryFailed(@)])
          /\ UNCHANGED <<conn, sock, dials>>
    /\ UNCHANGED <<mode, relayUp, parked, parkers, server, ctl, tangled, record, faults>>

(* send_msg on the kept connection, one `sendall`: the kernel takes a first *)
(* part, then the rest, and the connection may break in between.  A message *)
(* of which any part went to a dead connection is lost.                     *)
Write(t, part) ==
    /\ send[t].st = (IF part = 1 THEN "first" ELSE "rest") /\ sock # 0
    /\ conn[sock].link # "reset"
    /\ conn' = [conn EXCEPT ![sock] = Written(@, Frame("data", Current(t), part))]
    /\ IF part = 1
       THEN send' = [send EXCEPT ![t].st = "rest"] /\ UNCHANGED <<fate, lost>>
       ELSE /\ send' = [send EXCEPT ![t] = [n |-> @.n + 1, st |-> "idle",
                                            attempt |-> 0, tries |-> 0]]
            /\ fate' = [fate EXCEPT ![Current(t)] = "sent"]
            /\ lost' = IF conn[sock].link = "up" THEN lost ELSE lost \cup {Current(t)}
    /\ UNCHANGED <<mode, relayUp, parked, dials, parkers, server, ctl, tangled, sock,
                   got, refused, faults>>

(* The write raises: the connection is closed and the message sent again   *)
(* on another one, once.                                                   *)
WriteFails(t) ==
    /\ send[t].st \in {"first", "rest"} /\ sock # 0
    /\ conn[sock].link = "reset"
    /\ conn' = [conn EXCEPT ![sock] = CloseNear(@)]
    /\ sock' = 0
    /\ Fail([send EXCEPT ![t] = AttemptFailed(@)])
    /\ UNCHANGED <<mode, relayUp, parked, dials, parkers, server, ctl, tangled, record, faults>>

-----------------------------------------------------------------------------
(* The relay *)

(* What a dialler does with the answer `ok`: a thread keeps the connection,*)
(* the controller writes its configure.                                    *)
Answered(b, c, s) ==
    IF b = Ctl
    THEN /\ conn' = [conn EXCEPT ![c] = Written(s, Frame("configure", ctl.k, 2))]
         /\ ctl' = [ctl EXCEPT !.st = "wait", !.at = c]
         /\ UNCHANGED <<sock, send>>
    ELSE /\ conn' = [conn EXCEPT ![c] = s]
         /\ sock' = c
         /\ send' = [send EXCEPT ![b].st = "first"]
         /\ UNCHANGED ctl

(* The answer is a refusal, or none came.                                  *)
DialFailed(bs) ==
    /\ Fail([t \in Threads |-> IF t \in bs THEN TryFailed(send[t]) ELSE send[t]])
    /\ ctl' = IF Ctl \in bs THEN [ctl EXCEPT !.st = "failed"] ELSE ctl

(* Mutant: the target is read but stays in the line.                       *)
DialPeek(d) ==
    /\ d.cand = 0 /\ parked # <<>>
    /\ dials' = (dials \ {d}) \cup {[d EXCEPT !.cand = Head(parked)]}
    /\ UNCHANGED <<mode, conn, relayUp, parked, parkers, server, ctl, tangled, sender,
                   record, faults>>

(* _dial under the condition: the oldest parked connection that is not     *)
(* seen to be closed.                                                      *)
DialPop(d) ==
    /\ d.cand = 0 /\ parked # <<>>
    /\ LET h == Head(parked) IN
       IF conn[h].link = "reset"
       THEN conn' = [conn EXCEPT ![h] = CloseNear(@)] /\ UNCHANGED dials
       ELSE dials' = (dials \ {d}) \cup {[d EXCEPT !.cand = h]} /\ UNCHANGED conn
    /\ parked' = SubSeq(parked, 2, Len(parked))
    /\ UNCHANGED <<mode, relayUp, parkers, server, ctl, tangled, sender, record, faults>>

(* Nothing parked until the deadline.                                      *)
DialRefused(d) ==
    /\ d.cand = 0 /\ parked = <<>>
    /\ dials' = dials \ {d}
    /\ IF d.left THEN UNCHANGED <<send, fate, ctl>> ELSE DialFailed({d.by})
    /\ UNCHANGED <<mode, conn, relayUp, parked, parkers, server, tangled, sock, record, faults>>

(* _dial with a target: `accepted` to it, `dialed` to the caller, splice.  *)
(* A target that has died since makes it look again; a caller that has     *)
(* left ends the splice at once.                                           *)
DialHand(d) ==
    /\ d.cand # 0
    /\ LET s == conn[d.cand]
           called == [s EXCEPT !.near = "open",
                               !.far = IF @ = "parked" /\ s.link = "up" THEN "called" ELSE @]
       IN \/ /\ s.link = "reset"
             /\ conn' = [conn EXCEPT ![d.cand] = CloseNear(@)]
             /\ dials' = (dials \ {d}) \cup {[d EXCEPT !.cand = 0]}
             /\ UNCHANGED <<ctl, sock, send>>
          \/ /\ s.link # "reset"
             /\ dials' = dials \ {d}
             /\ IF d.left
                THEN conn' = [conn EXCEPT ![d.cand] = CloseNear(called)]
                     /\ UNCHANGED <<ctl, sock, send>>
                ELSE Answered(d.by, d.cand, called)
    /\ UNCHANGED <<mode, relayUp, parked, parkers, server, tangled, fate, record, faults>>

(* The timeout of dial_via_relay while the relay still looks.              *)
LeaveDial(d) ==
    /\ Fault
    /\ ~d.left
    /\ dials' = (dials \ {d}) \cup {[d EXCEPT !.left = TRUE]}
    /\ DialFailed({d.by})
    /\ UNCHANGED <<mode, conn, relayUp, parked, parkers, server, tangled, sock, record>>

(* stop, or the relay's process dies: every connection to it is closed.    *)
RelayStops(k, l) ==
    /\ mode = "relay" /\ relayUp
    /\ Fault
    /\ relayUp' = FALSE
    /\ parked' = <<>> /\ dials' = {}
    /\ conn' = [c \in Conns |->
                  CASE conn[c].near = "relay" -> CloseNear(conn[c])
                    [] conn[c] = Unused -> Unused
                    [] OTHER -> Cut(conn[c], k, l, conn[c].link = "up")]
    /\ lost' = lost \cup UNION {LostBy(conn[c], conn'[c]) : c \in Conns}
    /\ DialFailed({d.by : d \in {x \in dials : ~x.left}})
    /\ UNCHANGED <<mode, parkers, server, tangled, sock, got, refused>>

RelayStarts ==
    /\ ~relayUp
    /\ relayUp' = TRUE
    /\ UNCHANGED <<mode, conn, parked, dials, parkers, server, ctl, tangled, sender,
                   record, faults>>

-----------------------------------------------------------------------------
(* The node: connections *)

(* _park_one reaches the relay; _park appends to the line of the node.     *)
Park ==
    /\ up /\ relayUp /\ parkers > 0 /\ Free # {}
    /\ conn' = [conn EXCEPT ![NewConn] = Parked]
    /\ parked' = Append(parked, NewConn)
    /\ parkers' = parkers - 1
    /\ UNCHANGED <<mode, relayUp, dials, server, ctl, tangled, sender, record, faults>>

(* recv_msg of _park_one: `accepted`, or the end of the stream, after which*)
(* the thread parks another connection.                                    *)
ParkerWakes(c) ==
    /\ \/ /\ conn[c].far = "called"
          /\ conn' = [conn EXCEPT ![c].far = "ready"]
          /\ UNCHANGED parkers
       \/ /\ conn[c].far = "parked" /\ conn[c].eof
          /\ conn' = [conn EXCEPT ![c] = CloseFar(@, "reset")]
          /\ parkers' = parkers + 1
    /\ UNCHANGED <<mode, relayUp, parked, dials, server, ctl, tangled, sender, record, faults>>

(* Mutant: nobody takes the place of the connection.                       *)
AcceptOnly(c) ==
    /\ conn[c].far = "ready"
    /\ conn' = [conn EXCEPT ![c].far = "serving"]
    /\ UNCHANGED <<mode, relayUp, parked, dials, parkers, server, ctl, tangled, sender,
                   record, faults>>

(* serve_forever takes a connection and starts its reader; the accept of   *)
(* RelayListener starts a thread in the place of the one that had it.      *)
Accept(c) ==
    /\ conn[c].far = "ready"
    /\ conn' = [conn EXCEPT ![c].far = "serving"]
    /\ parkers' = IF mode = "relay" THEN parkers + 1 ELSE parkers
    /\ UNCHANGED <<mode, relayUp, parked, dials, server, ctl, tangled, sender, record, faults>>

Reading(c) == conn[c].far = "serving" /\ \A k \in Configs : job[k].at # c

(* _dispatch of a data message: refused by a node without a model.         *)
ReadData(c) ==
    /\ Reading(c)
    /\ WholeHead(conn[c].q) /\ conn[c].q[1].kind = "data"
    /\ conn' = [conn EXCEPT ![c].q = Rest(@)]
    /\ LET m == conn[c].q[1].of IN
       IF node.model = None
       THEN refused' = refused \cup {m} /\ UNCHANGED got
       ELSE got' = [got EXCEPT ![m] = @ + 1] /\ UNCHANGED refused
    /\ UNCHANGED <<mode, relayUp, parked, dials, parkers, server, ctl, tangled, sender,
                   lost, faults>>

(* Mutant: the end of the stream is noticed before what is queued.         *)
ReadEndsEarly(c) ==
    /\ Reading(c)
    /\ conn[c].eof
    /\ conn' = [conn EXCEPT ![c] = CloseFar(@, "reset")]
    /\ UNCHANGED <<mode, relayUp, parked, dials, parkers, server, ctl, tangled, sender,
                   record, faults>>

(* recv_msg raises: the stream ends, perhaps in the middle of a message.   *)
ReadEnds(c) ==
    /\ Reading(c)
    /\ ~WholeHead(conn[c].q) /\ conn[c].eof
    /\ conn' = [conn EXCEPT ![c] = CloseFar(@, "reset")]
    /\ UNCHANGED <<mode, relayUp, parked, dials, parkers, server, ctl, tangled, sender,
                   record, faults>>

-----------------------------------------------------------------------------
(* The node: configuration *)

(* apply_config: the old model is released, the configuration set ...      *)
ConfigureBegins(c) ==
    /\ Reading(c)
    /\ WholeHead(conn[c].q) /\ conn[c].q[1].kind = "configure"
    /\ LET k == conn[c].q[1].of IN
       /\ node' = [node EXCEPT !.model = None, !.cfg = k]
       /\ job' = [job EXCEPT ![k] = [st |-> "load", at |-> c]]
    /\ conn' = [conn EXCEPT ![c].q = Rest(@)]
    /\ UNCHANGED <<mode, relayUp, parked, dials, parkers, up, ctl, tangled, sender,
                   record, faults>>

Reply(c, r) ==
    conn' = [conn EXCEPT ![c].reply =
               IF conn[c].near = "open" /\ conn[c].link = "up" THEN r ELSE @]

(* Mutant: acknowledged as soon as the model is loaded.                    *)
LoadReplies(k) ==
    /\ job[k].st = "load"
    /\ node' = [node EXCEPT !.model = k]
    /\ Reply(job[k].at, "ack")
    /\ job' = [job EXCEPT ![k].st = "replace"]
    /\ UNCHANGED <<mode, relayUp, parked, dials, parkers, up, ctl, tangled, sender,
                   record, faults>>

(* ... the new model loaded ...                                            *)
Load(k) ==
    /\ job[k].st = "load"
    /\ node' = [node EXCEPT !.model = k]
    /\ job' = [job EXCEPT ![k].st = "replace"]
    /\ UNCHANGED <<mode, wire, up, ctl, tangled, sender, record, faults>>

(* ... the classifier, the links and the pool replaced, and the controller *)
(* told.                                                                   *)
Replace(k) ==
    /\ job[k].st = "replace"
    /\ node' = [node EXCEPT !.clf = k, !.pool = k]
    /\ Reply(job[k].at, "ack")
    /\ job' = [job EXCEPT ![k] = NoJob]
    /\ UNCHANGED <<mode, relayUp, parked, dials, parkers, up, ctl, tangled, sender,
                   record, faults>>

(* Loading raises; _serve_conn answers with the error.                     *)
LoadFails(k) ==
    /\ Fault
    /\ job[k].st = "load"
    /\ Reply(job[k].at, "error")
    /\ job' = [job EXCEPT ![k] = NoJob]
    /\ UNCHANGED <<mode, relayUp, parked, dials, parkers, up, node, ctl, tangled, sender,
                   record>>

-----------------------------------------------------------------------------
(* The controller: distribute, once per run *)

(* A configure nobody waits for any more that the node may still apply.    *)
UnderWay(k) ==
    \/ job[k].st # "idle"
    \/ \E c \in Conns : \E i \in DOMAIN conn[c].q :
         conn[c].q[i].kind = "configure" /\ conn[c].q[i].of = k

StartConfigure ==
    /\ ctl.st \in {"idle", "acked", "failed"} /\ ctl.k < MaxConfigures[mode]
    /\ ctl' = [k |-> ctl.k + 1, st |-> "connect", at |-> 0]
    /\ tangled' = (tangled \/ \E k \in Configs : UnderWay(k))
    /\ UNCHANGED <<mode, wire, server, sender, record, faults>>

(* rpc connects without a second try, then writes.                         *)
Call ==
    /\ ctl.st = "connect"
    /\ \/ /\ mode = "direct" /\ up /\ Free # {}
          /\ conn' = [conn EXCEPT ![NewConn] =
                        Written(Connected, Frame("configure", ctl.k, 2))]
          /\ ctl' = [ctl EXCEPT !.st = "wait", !.at = NewConn]
          /\ UNCHANGED dials
       \/ /\ mode = "relay" /\ relayUp
          /\ dials' = dials \cup {[by |-> Ctl, cand |-> 0, left |-> FALSE]}
          /\ ctl' = [ctl EXCEPT !.st = "dial"]
          /\ UNCHANGED conn
       \/ /\ IF mode = "direct" THEN ~up ELSE ~relayUp
          /\ ctl' = [ctl EXCEPT !.st = "failed"]
          /\ UNCHANGED <<conn, dials>>
    /\ UNCHANGED <<mode, relayUp, parked, parkers, server, tangled, sender, record, faults>>

HangUp(st) ==
    /\ conn' = [conn EXCEPT ![ctl.at] = CloseNear(@)]
    /\ ctl' = [ctl EXCEPT !.st = st, !.at = 0]
    /\ UNCHANGED <<mode, relayUp, parked, dials, parkers, server, tangled, sender, record>>

(* The answer, or an exception from a connection that broke.               *)
Answer ==
    /\ ctl.st = "wait"
    /\ \/ conn[ctl.at].reply = "ack" /\ HangUp("acked")
       \/ conn[ctl.at].reply = "error" /\ HangUp("failed")
       \/ conn[ctl.at].link = "reset" /\ HangUp("failed")
    /\ UNCHANGED faults

(* The budget is used up while the node is still loading.                  *)
GiveUp == ctl.st = "wait" /\ Fault /\ HangUp("failed")

-----------------------------------------------------------------------------
(* Faults *)

(* The process of the node ends; nothing of its state is kept.             *)
Crash(l) ==
    /\ up
    /\ Fault
    /\ up' = FALSE
    /\ conn' = [c \in Conns |-> IF conn[c].far = "closed" THEN conn[c]
                                ELSE CloseFar(conn[c], l)]
    /\ lost' = lost \cup UNION {Finished(conn[c].q) : c \in Conns}
    /\ parkers' = 0
    /\ node' = Unconfigured
    /\ job' = [k \in Configs |-> NoJob]
    /\ UNCHANGED <<mode, relayUp, parked, dials, ctl, tangled, sender, got, refused>>

Restart ==
    /\ ~up
    /\ up' = TRUE
    /\ parkers' = IF mode = "relay" THEN Depth ELSE 0
    /\ UNCHANGED <<mode, conn, relayUp, parked, dials, node, job, ctl, tangled, sender,
                   record, faults>>

(* A path breaks: both ends are told ("reset"), or neither is ("gone").    *)
Break(c, k, l) ==
    /\ conn[c].near # "closed" /\ conn[c].far # "closed" /\ conn[c].link = "up"
    /\ Fault
    /\ conn' = [conn EXCEPT ![c] = Cut(@, k, l, l = "reset")]
    /\ lost' = lost \cup LostBy(conn[c], conn'[c])
    /\ UNCHANGED <<mode, relayUp, parked, dials, parkers, server, ctl, tangled, sender,
                   got, refused>>

(* The writing end learns that nobody is there.                            *)
Notice(c) ==
    /\ conn[c].link = "gone"
    /\ conn' = [conn EXCEPT ![c].link = "reset"]
    /\ UNCHANGED <<mode, relayUp, parked, dials, parkers, server, ctl, tangled, sender,
                   record, faults>>

-----------------------------------------------------------------------------
Sends(t)  == BeginSend(t) \/ Connect(t) \/ Write(t, 1) \/ Write(t, 2) \/ WriteFails(t)
Dials(d)  == DialPop(d) \/ DialRefused(d) \/ DialHand(d)
Serves(c) == \/ ParkerWakes(c) \/ Accept(c)
             \/ ReadData(c) \/ ReadEnds(c) \/ ConfigureBegins(c)
Applies(k) == Load(k) \/ Replace(k)

Faults ==
    \/ \E d \in dials : LeaveDial(d)
    \/ \E l \in {"gone", "reset"} :
         \/ Crash(l)
         \/ \E k \in 0..2 : RelayStops(k, l) \/ \E c \in Conns : Break(c, k, l)
    \/ \E k \in Configs : LoadFails(k)
    \/ GiveUp

Next ==
    \/ \E t \in Threads : Sends(t)
    \/ \E d \in dials : Dials(d)
    \/ \E c \in Conns : Serves(c) \/ Notice(c)
    \/ \E k \in Configs : Applies(k)
    \/ Park \/ StartConfigure \/ Call \/ Answer
    \/ Restart \/ RelayStarts
    \/ Faults

(* The sender, the relay and the node run on; nobody has to start a node,  *)
(* a relay or a configuration, and nothing has to fail.  There is only so  *)
(* much to do at a time, so no single thread need be named.                *)
Fairness ==
    /\ WF_vars(\E t \in Threads : Sends(t))
    /\ WF_vars(\E d \in dials : Dials(d))
    /\ WF_vars(\E c \in Conns : Serves(c))

Spec == Init /\ [][Next]_vars /\ Fairness

-----------------------------------------------------------------------------
(* Properties *)

Frames ==
    [kind : {"data"}, of : Msgs, part : {1, 2}] \cup [kind : {"configure"}, of : Configs, part : {2}]

StreamType ==
    [near : {"relay", "open", "closed"},
     far : {"parked", "called", "ready", "serving", "closed"},
     link : {"up", "gone", "reset"}, eof : BOOLEAN,
     q : Seq(Frames),
     reply : {"none", "ack", "error"}]

(* Types, and that the references agree: what waits in the relay's line is  *)
(* parked and waits there once, the kept connection is open at its end, and *)
(* a stream is always free, so that MaxConns takes nothing away.            *)
TypeOK ==
    /\ mode \in Modes
    /\ conn \in [Conns -> StreamType]
    /\ parked \in Seq(Conns) /\ IsInjective(parked)
    /\ \A c \in ToSet(parked) : conn[c].near = "relay"
    /\ dials \subseteq [by : Diallers, cand : Conns \cup {0}, left : BOOLEAN]
    /\ {relayUp, up, tangled} \subseteq BOOLEAN
    /\ parkers \in 0..Depth
    /\ node \in [{"cfg", "model", "clf", "pool"} -> Configs \cup {None}]
    /\ job \in [Configs -> [st : {"idle", "load", "replace"}, at : Conns \cup {0}]]
    /\ ctl \in [k : Configs \cup {0}, at : Conns \cup {0},
                st : {"idle", "connect", "dial", "wait", "acked", "failed"}]
    /\ sock \in Conns \cup {0}
    /\ sock # 0 => conn[sock].near = "open"
    /\ \A t \in Threads :
         /\ send[t].st \in {"idle", "connect", "dial", "first", "rest"}
         /\ send[t].n \in 1..Len(Script[t]) + 1
         /\ send[t].attempt \in {0, 1} /\ send[t].tries \in 0..Retries - 1
    /\ fate \in [Msgs -> {"new", "begun", "sent", "raised"}]
    /\ got \in [Msgs -> Nat]
    /\ refused \cup lost \subseteq Msgs
    /\ faults \in 0..MaxFaults
    /\ Free # {}

(* Peer.send: whatever threads share the connection, and wherever it broke, *)
(* a reader never finds the parts of two messages mixed; a part without its *)
(* rest is the last thing on a stream.                                      *)
FramesWhole ==
    \A c \in Conns : LET q == conn[c].q IN
      \A i \in DOMAIN q : q[i].kind = "data" =>
        IF q[i].part = 1 THEN i < Len(q) => q[i + 1] = [q[i] EXCEPT !.part = 2]
                         ELSE i > 1 /\ q[i - 1] = [q[i] EXCEPT !.part = 1]

(* The second attempt of Peer.send repeats the whole message although part  *)
(* of it may have arrived: no message is handled or refused twice, and one  *)
(* whose send raised is neither handled nor refused.                        *)
AtMostOnce ==
    \A m \in Msgs :
      /\ got[m] + (IF m \in refused THEN 1 ELSE 0) <= 1
      /\ fate[m] = "raised" => got[m] = 0 /\ m \notin refused

(* RelayListener: while the node runs every one of its Depth places is a    *)
(* thread on its way to the relay, a parked connection or one that waits to *)
(* be accepted, through calls, restarts of the relay and broken connections.*)
DepthKept ==
    mode = "relay" =>
      parkers + Cardinality({c \in Conns : conn[c].far \in {"parked", "called", "ready"}})
        = (IF up THEN Depth ELSE 0)

(* apply_config: once a run of the controller has its acknowledgement the   *)
(* node works with that manifest alone - configuration, model, classifier   *)
(* and peers - or has started again with none.  Only a controller that went *)
(* on while an abandoned configure was under way is excepted: nothing in    *)
(* the code keeps the two apart.                                            *)
AckedWhole ==
    ctl.st = "acked" /\ ~tangled => node \in {ConfiguredBy(ctl.k), Unconfigured}

(* Every send that began ends: its message is handled, or refused by a node *)
(* that has no model, or its send raised, or it was dropped by a connection *)
(* that broke or a process that ended.  The send of a dropped message may   *)
(* well have succeeded: on a connection that died unnoticed, kept or parked *)
(* at the relay, `sendall` takes message after message.  Nothing else loses *)
(* one: no reader that stops before the end, no connection nobody takes, no *)
(* parked connection whose end is known.                                    *)
ArrivesOrBroke ==
    \A m \in Msgs :
      (fate[m] = "begun") ~> (got[m] = 1 \/ m \in refused \cup lost \/ fate[m] = "raised")

=============================================================================
