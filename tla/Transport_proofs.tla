--------------------------- MODULE Transport_proofs ---------------------------
(***************************************************************************)
(* For any number of threads, messages, streams, faults and configurations,*)
(* directly or through the relay: messages stay whole and arrive at most   *)
(* once, the listener keeps its places, and an acknowledged configuration  *)
(* is whole.                                                               *)
(***************************************************************************)
EXTENDS Transport, SequenceLemmas, SequenceTheorems, FiniteSetTheorems, TLAPS

-----------------------------------------------------------------------------
(* Types *)

Calls ==
    [n : Nat, st : {"idle", "connect", "dial", "first", "rest"},
     attempt : {0, 1}, tries : 0..Retries - 1]

Choice == Configs \cup {None}

(* TypeOK without what is said of the relay's line and the kept connection,*)
(* which is below, and without the bounds on streams and places.           *)
WireTypes ==
    /\ mode \in Modes
    /\ conn \in [Conns -> StreamType]
    /\ parked \in Seq(Conns)
    /\ dials \subseteq [by : Diallers, cand : Conns \cup {0}, left : BOOLEAN]
    /\ relayUp \in BOOLEAN
    /\ parkers \in Nat

NodeTypes ==
    /\ up \in BOOLEAN
    /\ node \in [cfg : Choice, model : Choice, clf : Choice, pool : Choice]
    /\ job \in [Configs -> [st : {"idle", "load", "replace"}, at : Conns \cup {0}]]
    /\ \A k \in Configs : job[k].st # "idle" => job[k].at \in Conns

CtlTypes ==
    /\ ctl \in [k : Configs \cup {0}, at : Conns \cup {0},
                st : {"idle", "connect", "dial", "wait", "acked", "failed"}]
    /\ ctl.st \in {"connect", "dial", "wait"} => ctl.k \in Configs
    /\ ctl.st = "wait" => ctl.at \in Conns
    /\ tangled \in BOOLEAN

SendTypes ==
    /\ sock \in Conns \cup {0}
    /\ send \in [Threads -> Calls]
    /\ fate \in [Msgs -> {"new", "begun", "sent", "raised"}]
    /\ got \in [Msgs -> Nat]
    /\ refused \cup lost \subseteq Msgs
    /\ faults \in Nat

Types == WireTypes /\ NodeTypes /\ CtlTypes /\ SendTypes

(* One thread has the lock of the peer.                                    *)
CallsOK ==
    /\ \A t \in Threads : send[t].n \in 1..Len(Script[t]) + 1
    /\ \A t \in Threads : send[t].st # "idle" => send[t].n <= Len(Script[t])
    /\ \A t, u \in Threads : send[t].st # "idle" /\ send[u].st # "idle" => t = u

(* What that thread knows of the connection; an open dial is the one its   *)
(* caller waits for.                                                       *)
DialsOK ==
    /\ \A t \in Threads : /\ send[t].st \in {"connect", "dial"} => sock = 0
                          /\ send[t].st \in {"first", "rest"} => sock # 0
    /\ \A d, e \in dials : ~d.left /\ ~e.left /\ d.by = e.by => d = e
    /\ \A d \in dials : ~d.left => IF d.by = Ctl THEN ctl.st = "dial" ELSE send[d.by].st = "dial"

(* What somebody writes to is open and his own; what the relay has parked, *)
(* or offers to a caller, is used by nobody and is in one place.           *)
NearOK ==
    /\ sock # 0 => conn[sock].near = "open"
    /\ ctl.st = "wait" => conn[ctl.at].near = "open" /\ ctl.at # sock
    /\ IsInjective(parked)
    /\ \A c \in ToSet(parked) : conn[c].near = "relay"
    /\ \A d \in dials : d.cand # 0 => conn[d.cand].near = "relay" /\ d.cand \notin ToSet(parked)
    /\ \A d, e \in dials : d.cand # 0 /\ d.cand = e.cand => d = e
    /\ \A c \in Conns : conn[c].near # "open" => conn[c].reply = "none"
    /\ \A c \in Conns : conn[c].near = "relay" => conn[c].q = <<>>

Base == Types /\ CallsOK /\ DialsOK /\ NearOK

-----------------------------------------------------------------------------
(* Invariants *)

Opened(q) == q # <<>> /\ q[Len(q)].kind = "data" /\ q[Len(q)].part = 1

(* While the kept connection carries what is written, it ends in half a    *)
(* message exactly while a thread has written half of one.                 *)
HalfOK ==
    /\ \A t \in Threads : send[t].st = "rest" /\ conn[sock].link = "up" =>
          LET q == conn[sock].q IN q # <<>> /\ q[Len(q)] = Frame("data", Current(t), 1)
    /\ sock # 0 /\ conn[sock].link = "up" /\ (\A t \in Threads : send[t].st # "rest") =>
          ~Opened(conn[sock].q)

(* What a thread has not finished has no end yet.                          *)
Pending ==
    \A t \in Threads : \A i \in DOMAIN Script[t] :
       send[t].n <= i => fate[Script[t][i]] \in {"new", "begun"}

(* The last frame of m is the i-th on c.                                   *)
Copy(m, c, i) == i \in DOMAIN conn[c].q /\ conn[c].q[i] = Frame("data", m, 2)

(* A message that is not sent has left no copy, and one that is sent is in *)
(* one place.                                                              *)
CopiesOK ==
    /\ \A m \in Msgs : fate[m] # "sent" =>
          /\ got[m] = 0 /\ m \notin refused
          /\ \A c \in Conns : \A i \in Nat : ~Copy(m, c, i)
    /\ \A m \in Msgs : \A c, d \in Conns : \A i, j \in Nat :
          Copy(m, c, i) /\ Copy(m, d, j) => c = d /\ i = j
    /\ \A m \in Msgs : \A c \in Conns : \A i \in Nat :
          Copy(m, c, i) => got[m] = 0 /\ m \notin refused
    /\ \A m \in Msgs : got[m] + (IF m \in refused THEN 1 ELSE 0) <= 1

PlacesOK == DepthKept /\ (~up => \A c \in Conns : conn[c].far = "closed")

(* A configure on its way is the i-th frame on c.                          *)
Ordered(c, i) == i \in DOMAIN conn[c].q /\ conn[c].q[i].kind = "configure"

(* No configure is on its way or being applied.                            *)
Settled ==
    /\ \A k \in Configs : job[k].st = "idle"
    /\ \A c \in Conns : \A i \in Nat : ~Ordered(c, i)

(* The controller has its answer, or it is on its way.                     *)
Acked == ctl.st = "acked" \/ (ctl.st = "wait" /\ conn[ctl.at].reply = "ack")

(* Before a run of the controller overlaps with an abandoned one, what is  *)
(* under way is its own, in one place, and the node is as the job made it. *)
ConfigOK ==
    ~tangled =>
      /\ ctl.st \in {"wait", "failed"} \/ Settled
      /\ \A c \in Conns : \A i \in Nat : Ordered(c, i) => conn[c].q[i].of = ctl.k
      /\ \A c, d \in Conns : \A i, j \in Nat : Ordered(c, i) /\ Ordered(d, j) => c = d /\ i = j
      /\ \A k \in Configs : job[k].st # "idle" =>
            /\ k = ctl.k
            /\ \A c \in Conns : \A i \in Nat : ~Ordered(c, i)
            /\ node.cfg = k
            /\ job[k].st = "replace" => node.model = k
      /\ Acked => Settled /\ node \in {ConfiguredBy(ctl.k), Unconfigured}

-----------------------------------------------------------------------------
(* Streams *)

(* p is what is left of q when its end is lost.                            *)
Start(p, q) == p \in Seq(Frames) /\ \A i \in DOMAIN p : i \in DOMAIN q /\ p[i] = q[i]

LEMMA Starts ==
    ASSUME NEW q \in Seq(Frames)
    PROVE  /\ Start(q, q) /\ Start(<<>>, q)
           /\ \A k \in Nat : Start(SubSeq(q, 1, IF k < Len(q) THEN k ELSE Len(q)), q)
<1>1. Start(q, q)
  BY DEF Start
<1>2. Start(<<>>, q)
  BY EmptySeq DEF Start
<1>3. ASSUME NEW k \in Nat PROVE Start(SubSeq(q, 1, IF k < Len(q) THEN k ELSE Len(q)), q)
  <2>1. PICK n \in 0..Len(q) : n = IF k < Len(q) THEN k ELSE Len(q)
    BY LenProperties
  <2>2. /\ Len(q) \in Nat /\ DOMAIN q = 1..Len(q) /\ n \in Int /\ 1 \in Int
        /\ \A i \in 1..n : i \in DOMAIN q /\ q[i] \in Frames
    BY <2>1, LenProperties
  <2>3. PICK p : p = SubSeq(q, 1, n)
    OBVIOUS
  <2>4. p \in Seq(Frames) /\ Len(p) = n /\ \A i \in 1..n : p[i] = q[i]
    BY <2>2, <2>3, SubSeqProperties
  <2>5. QED BY <2>1, <2>2, <2>3, <2>4, LenProperties DEF Start
<1>4. QED BY <1>1, <1>2, <1>3

LEMMA StreamFields ==
    ASSUME NEW s \in StreamType
    PROVE  /\ s.near \in {"relay", "open", "closed"}
           /\ s.far \in {"parked", "called", "ready", "serving", "closed"}
           /\ s.link \in {"up", "gone", "reset"} /\ s.eof \in BOOLEAN
           /\ s.q \in Seq(Frames) /\ s.reply \in {"none", "ack", "error"}
BY DEF StreamType

LEMMA UnusedStream ==
    /\ Unused \in StreamType /\ Parked \in StreamType /\ Connected \in StreamType
    /\ Unused.near = "closed" /\ Unused.far = "closed" /\ Unused.reply = "none" /\ Unused.q = <<>>
    /\ Parked.near = "relay" /\ Parked.far = "parked" /\ Parked.reply = "none" /\ Parked.q = <<>>
    /\ Connected.near = "open" /\ Connected.far = "ready" /\ Connected.reply = "none"
    /\ Connected.q = <<>> /\ Connected.link = "up"
<1>1. <<>> \in Seq(Frames)
  BY EmptySeq
<1>2. QED BY <1>1 DEF Unused, Parked, Connected, StreamType

LEMMA NearClosed ==
    ASSUME NEW s \in StreamType
    PROVE  /\ CloseNear(s) \in StreamType
           /\ CloseNear(s).near = "closed" /\ CloseNear(s).reply = "none"
           /\ CloseNear(s).far = s.far /\ Start(CloseNear(s).q, s.q)
<1>1. Start(s.q, s.q) /\ Start(<<>>, s.q)
  BY Starts, StreamFields
<1> DEFINE r == [s EXCEPT !.near = "closed", !.eof = @ \/ s.link = "up", !.reply = "none"]
<1>2. /\ r \in StreamType /\ r.near = "closed" /\ r.reply = "none" /\ r.far = s.far /\ r.q = s.q
  BY DEF StreamType
<1>3. CloseNear(s) = IF s.far = "closed" THEN Unused ELSE r
  BY <1>2 DEF CloseNear, Tidy
<1>4. QED BY <1>1, <1>2, <1>3, UnusedStream

LEMMA FarClosed ==
    ASSUME NEW s \in StreamType, NEW l \in {"gone", "reset"}
    PROVE  /\ CloseFar(s, l) \in StreamType
           /\ CloseFar(s, l).far = "closed" /\ CloseFar(s, l).near = s.near
           /\ CloseFar(s, l).q = <<>> /\ CloseFar(s, l).reply \in {s.reply, "none"}
           /\ s.near # "closed" => CloseFar(s, l).link # "up"
<1> DEFINE r == [s EXCEPT !.far = "closed", !.q = <<>>, !.eof = FALSE,
                          !.link = IF @ = "up" THEN l ELSE @]
<1>0. <<>> \in Seq(Frames)
  BY EmptySeq
<1>1. /\ r \in StreamType /\ r.near = s.near /\ r.reply = s.reply /\ r.far = "closed" /\ r.q = <<>>
      /\ r.link # "up"
  BY <1>0 DEF StreamType
<1>2. CloseFar(s, l) = IF s.near = "closed" THEN Unused ELSE r
  BY <1>1 DEF CloseFar, Tidy
<1>3. QED BY <1>1, <1>2, UnusedStream

LEMMA CutOff ==
    ASSUME NEW s \in StreamType, NEW k \in Nat, NEW l \in {"gone", "reset"}, NEW e \in BOOLEAN
    PROVE  /\ Cut(s, k, l, e) \in StreamType
           /\ Cut(s, k, l, e).near = s.near /\ Cut(s, k, l, e).far = s.far
           /\ Cut(s, k, l, e).reply = s.reply /\ Cut(s, k, l, e).link # "up"
           /\ Start(Cut(s, k, l, e).q, s.q)
<1> DEFINE p == SubSeq(s.q, 1, IF k < Len(s.q) THEN k ELSE Len(s.q))
<1>1. Start(p, s.q) /\ p \in Seq(Frames)
  BY Starts, StreamFields DEF Start
<1>2. Cut(s, k, l, e) = [s EXCEPT !.q = p, !.link = IF s.link = "up" THEN l ELSE s.link,
                                  !.eof = s.eof \/ e]
  BY DEF Cut, StreamType
<1> HIDE DEF p
<1>3. QED BY <1>1, <1>2 DEF StreamType

LEMMA WrittenTo ==
    ASSUME NEW s \in StreamType, NEW f \in Frames
    PROVE  /\ Written(s, f) \in StreamType
           /\ Written(s, f).near = s.near /\ Written(s, f).far = s.far
           /\ Written(s, f).reply = s.reply
           /\ s.link = "up" => Written(s, f).link = "up" /\ Written(s, f).q = Append(s.q, f)
           /\ s.link # "up" => Written(s, f).link # "up" /\ Written(s, f).q = s.q
<1>1. Append(s.q, f) \in Seq(Frames)
  BY StreamFields, AppendToQueue
<1>2. CASE s.link = "up"
  <2>1. Written(s, f) = [s EXCEPT !.q = Append(s.q, f)]
    BY <1>2 DEF Written
  <2>2. QED BY <1>1, <1>2, <2>1 DEF StreamType
<1>3. CASE s.link # "up"
  <2>1. Written(s, f) = s
    BY <1>3 DEF Written
  <2>2. QED BY <1>3, <2>1
<1>4. QED BY <1>2, <1>3

(* p is what is left of q without its first n frames.                       *)
After(p, q, n) ==
    /\ p \in Seq(Frames) /\ n \in DOMAIN q /\ Len(p) = Len(q) - n
    /\ \A i \in DOMAIN p : i + n \in DOMAIN q /\ p[i] = q[i + n]

(* What a reader finds at the head, and what remains after it.             *)
LEMMA WholeHeads ==
    ASSUME NEW q \in Seq(Frames), WholeHead(q)
    PROVE  /\ q[1] \in Frames
           /\ q[1].kind = "configure" => After(Rest(q), q, 1)
           /\ q[1].kind = "data" =>
                 /\ After(Rest(q), q, 2)
                 /\ q[1].part = 1 /\ q[2] = [q[1] EXCEPT !.part = 2]
<1>1. Len(q) \in Nat /\ Len(q) >= 1 /\ DOMAIN q = 1..Len(q) /\ q[1] \in Frames
  BY EmptySeq, LenProperties DEF WholeHead
<1>2. \A i \in 1..Len(q) : q[i] \in Frames
  BY <1>1, ElementOfSeq
<1>3. ASSUME NEW n \in {1, 2}, n <= Len(q), NEW p, p = SubSeq(q, n + 1, Len(q))
      PROVE  After(p, q, n)
  <2>1. PICK m \in Int : m = n + 1
    OBVIOUS
  <2>2. Len(q) \in Int /\ \A i \in m..Len(q) : q[i] \in Frames
    BY <1>1, <1>2, <2>1
  <2>3. p = SubSeq(q, m, Len(q))
    BY <1>3, <2>1
  <2>4. /\ p \in Seq(Frames)
        /\ Len(p) = IF m <= Len(q) THEN Len(q) - m + 1 ELSE 0
        /\ \A i \in 1..(Len(q) - m + 1) : p[i] = q[m + i - 1]
    BY <2>2, <2>3, SubSeqProperties
  <2>5. Len(p) = Len(q) - n /\ Len(q) - m + 1 = Len(q) - n
    <3>1. Len(q) \in Nat /\ n \in Int /\ n <= Len(q) /\ m = n + 1
      BY <1>1, <1>3, <2>1
    <3>2. Len(p) = IF m <= Len(q) THEN Len(q) - m + 1 ELSE 0
      BY <2>4
    <3>3. Len(q) - m + 1 = Len(q) - n
      BY <3>1
    <3>4. ~(m <= Len(q)) => Len(q) - n = 0
      BY <3>1
    <3>5. QED BY <3>2, <3>3, <3>4
  <2>6. p \in Seq(Frames) /\ DOMAIN p = 1..(Len(q) - n)
    <3>1. p \in Seq(Frames)
      BY <2>4
    <3>2. DOMAIN p = 1..Len(p)
      BY <3>1, LenProperties
    <3>3. QED BY <2>5, <3>1, <3>2
  <2>7. ASSUME NEW i \in 1..(Len(q) - n) PROVE i + n \in DOMAIN q /\ p[i] = q[i + n]
    <3>1. PICK j \in Int : j = i + n
      BY <1>1, <1>3
    <3>2. j \in 1..Len(q) /\ m + i - 1 = j
      BY <1>1, <1>3, <2>1, <3>1
    <3>3. p[i] = q[m + i - 1]
      BY <2>4, <2>5
    <3>4. QED BY <1>1, <3>1, <3>2, <3>3
  <2>8. n \in DOMAIN q
    BY <1>1, <1>3
  <2>9. QED BY <2>5, <2>6, <2>7, <2>8 DEF After
<1>4. CASE q[1].kind = "configure"
  <2>1. Rest(q) = SubSeq(q, 1 + 1, Len(q))
    BY <1>4 DEF Rest
  <2>2. QED BY <1>1, <1>3, <1>4, <2>1
<1>5. CASE q[1].kind = "data"
  <2>1. Len(q) >= 2 /\ q[1].part = 1 /\ q[2] = [q[1] EXCEPT !.part = 2]
    BY <1>5 DEF WholeHead
  <2>2. Rest(q) = SubSeq(q, 2 + 1, Len(q))
    BY <1>5 DEF Rest
  <2>3. QED BY <1>1, <1>3, <1>5, <2>1, <2>2
<1>6. q[1].kind \in {"data", "configure"}
  BY <1>1 DEF Frames
<1>7. QED BY <1>1, <1>4, <1>5, <1>6
-----------------------------------------------------------------------------
(* Calls and frames *)

LEMMA Constants ==
    /\ Retries \in Nat /\ Retries >= 1 /\ Depth \in Nat /\ Configs \subseteq Nat
    /\ \A x \in Modes : \A k \in Nat : k < MaxConfigures[x] => k + 1 \in Configs
    /\ 0 \notin Configs /\ None \notin Configs /\ Ctl \notin Threads
    /\ \A c \in Conns : c \in Nat /\ c # 0
<1>1. /\ \A x \in Modes : MaxConfigures[x] \in Nat \ {0}
      /\ {Retries, Depth, MaxConns} \subseteq Nat \ {0}
      /\ None \notin Configs /\ Ctl \notin Threads
  BY TransportConstantsAssumption
<1>2. ASSUME NEW k \in Configs PROVE k \in Nat /\ k # 0
  <2>1. PICK x \in Modes : k \in 1..MaxConfigures[x]
    BY DEF Configs
  <2>2. QED BY <1>1, <2>1
<1>3. ASSUME NEW x \in Modes, NEW k \in Nat, k < MaxConfigures[x] PROVE k + 1 \in Configs
  <2>1. k + 1 \in 1..MaxConfigures[x]
    BY <1>1, <1>3
  <2>2. QED BY <2>1 DEF Configs
<1>4. QED BY <1>1, <1>2, <1>3 DEF Conns

LEMMA Scripts ==
    ASSUME NEW t \in Threads
    PROVE  /\ Len(Script[t]) \in Nat /\ DOMAIN Script[t] = 1..Len(Script[t])
           /\ \A i \in 1..Len(Script[t]) : Script[t][i] \in Msgs
           /\ \A i, j \in DOMAIN Script[t] : Script[t][i] = Script[t][j] => i = j
           /\ \A u \in Threads : \A i \in DOMAIN Script[t] : \A j \in DOMAIN Script[u] :
                 Script[t][i] = Script[u][j] => t = u
<1>1. /\ Script[t] \in Seq(ToSet(Script[t])) /\ IsInjective(Script[t])
      /\ \A u \in Threads : t # u => ToSet(Script[t]) \cap ToSet(Script[u]) = {}
  BY TransportConstantsAssumption
<1>2. Len(Script[t]) \in Nat /\ DOMAIN Script[t] = 1..Len(Script[t])
  BY <1>1, LenProperties
<1>3. \A i \in 1..Len(Script[t]) : Script[t][i] \in Msgs
  BY <1>2 DEF Msgs, ToSet
<1>4. ASSUME NEW i \in DOMAIN Script[t], NEW j \in DOMAIN Script[t], Script[t][i] = Script[t][j]
      PROVE  i = j
  BY <1>1, <1>4 DEF IsInjective
<1>5. ASSUME NEW u \in Threads, NEW i \in DOMAIN Script[t], NEW j \in DOMAIN Script[u],
             Script[t][i] = Script[u][j]
      PROVE  t = u
  BY <1>1, <1>5 DEF ToSet
<1>6. QED BY <1>2, <1>3, <1>4, <1>5

LEMMA FramesOf ==
    /\ \A m \in Msgs : \A p \in {1, 2} : Frame("data", m, p) \in Frames
    /\ \A k \in Configs : Frame("configure", k, 2) \in Frames
    /\ \A f \in Frames : /\ f.kind = "data" => f.of \in Msgs /\ f = Frame("data", f.of, f.part)
                         /\ f.kind = "configure" => f.of \in Configs
                         /\ f.kind \in {"data", "configure"} /\ f.part \in {1, 2}
BY DEF Frame, Frames

(* A failure takes a call back to its connection, or ends it.              *)
Failed(s, r) ==
    /\ r \in Calls
    /\ \/ r.st = "connect" /\ r.n = s.n
       \/ r.st = "idle" /\ r.n = s.n + 1

LEMMA FailedCalls ==
    ASSUME NEW s \in Calls
    PROVE  Failed(s, AttemptFailed(s)) /\ Failed(s, TryFailed(s))
<1>1. s.n \in Nat /\ s.tries \in 0..Retries - 1 /\ s.attempt \in {0, 1} /\ 0 \in 0..Retries - 1
  BY Constants DEF Calls
<1>2. Failed(s, AttemptFailed(s))
  <2>1. CASE s.attempt = 0
    BY <1>1, <2>1 DEF AttemptFailed, Failed, Calls
  <2>2. CASE s.attempt # 0
    BY <1>1, <2>2 DEF AttemptFailed, Failed, Calls
  <2>3. QED BY <2>1, <2>2
<1>3. Failed(s, TryFailed(s))
  <2>1. CASE s.tries + 1 < Retries
    <3>1. s.tries + 1 \in 0..Retries - 1
      BY <1>1, <2>1, Constants
    <3>2. QED BY <1>1, <2>1, <3>1 DEF TryFailed, Failed, Calls
  <2>2. CASE ~(s.tries + 1 < Retries)
    BY <1>2, <2>2 DEF TryFailed
  <2>3. QED BY <2>1, <2>2
<1>4. QED BY <1>2, <1>3

LEMMA FreshStream ==
    ASSUME Free # {}
    PROVE  NewConn \in Conns /\ conn[NewConn] = Unused
BY DEF Free, NewConn

(* What a step that ends calls by a failure does to the types.             *)
LEMMA FailKeepsTypes ==
    ASSUME SendTypes, NEW calls \in [Threads -> Calls], Fail(calls)
    PROVE  send' \in [Threads -> Calls] /\ fate' \in [Msgs -> {"new", "begun", "sent", "raised"}]
BY DEF SendTypes, Fail

LEMMA OneStream ==
    ASSUME conn \in [Conns -> StreamType], NEW c \in Conns, NEW s \in StreamType,
           conn' = [conn EXCEPT ![c] = s]
    PROVE  /\ conn' \in [Conns -> StreamType] /\ conn'[c] = s
           /\ \A d \in Conns \ {c} : conn'[d] = conn[d]
OBVIOUS

LEMMA DialFailedTypes ==
    ASSUME Types, NEW bs, DialFailed(bs)
    PROVE  /\ send' \in [Threads -> Calls] /\ fate' \in [Msgs -> {"new", "begun", "sent", "raised"}]
           /\ ctl' = [ctl EXCEPT !.st = ctl'.st] /\ ctl'.st \in {ctl.st, "failed"}
           /\ \A t \in Threads : IF t \in bs THEN Failed(send[t], send'[t]) ELSE send'[t] = send[t]
           /\ IF Ctl \in bs THEN ctl'.st = "failed" ELSE ctl' = ctl
<1> DEFINE calls == [t \in Threads |-> IF t \in bs THEN TryFailed(send[t]) ELSE send[t]]
<1>1. ASSUME NEW t \in Threads PROVE send[t] \in Calls /\ Failed(send[t], TryFailed(send[t]))
  BY FailedCalls DEF Types, SendTypes
<1>2. calls \in [Threads -> Calls]
  BY <1>1 DEF Failed
<1>3. SendTypes /\ Fail(calls) /\ send' = calls
  BY DEF DialFailed, Fail, Types
<1>4. ctl \in [k : Configs \cup {0}, at : Conns \cup {0},
               st : {"idle", "connect", "dial", "wait", "acked", "failed"}]
  BY DEF Types, CtlTypes
<1>5. ctl' = IF Ctl \in bs THEN [ctl EXCEPT !.st = "failed"] ELSE ctl
  BY DEF DialFailed
<1>6. QED BY <1>1, <1>2, <1>3, <1>4, <1>5, FailKeepsTypes

LEMMA WireTypesStep ==
    ASSUME Base, [Next]_vars
    PROVE  WireTypes'
<1>1. /\ mode \in Modes /\ conn \in [Conns -> StreamType] /\ parked \in Seq(Conns)
      /\ dials \subseteq [by : Diallers, cand : Conns \cup {0}, left : BOOLEAN]
      /\ relayUp \in BOOLEAN /\ parkers \in Nat
  BY DEF Base, Types, WireTypes
<1>2. /\ sock \in Conns \cup {0}
      /\ ctl.st = "wait" => ctl.at \in Conns
      /\ ctl.st \in {"connect", "dial", "wait"} => ctl.k \in Configs
  BY DEF Base, Types, SendTypes, CtlTypes
<1>3. ASSUME conn' \in [Conns -> StreamType], UNCHANGED <<mode, relayUp, parked, dials, parkers>>
      PROVE  WireTypes'
  BY <1>1, <1>3 DEF WireTypes
<1>4. \A c \in Conns : conn[c] \in StreamType
  BY <1>1
<1>5. ASSUME NEW c \in Conns, NEW s \in StreamType, conn' = [conn EXCEPT ![c] = s]
      PROVE  conn' \in [Conns -> StreamType]
  BY <1>1, <1>5, OneStream
<1>6. ASSUME NEW c \in Conns
      PROVE  /\ CloseNear(conn[c]) \in StreamType
             /\ \A l \in {"gone", "reset"} : CloseFar(conn[c], l) \in StreamType
             /\ \A k \in Nat : \A l \in {"gone", "reset"} : \A e \in BOOLEAN :
                   Cut(conn[c], k, l, e) \in StreamType
             /\ \A f \in Frames : Written(conn[c], f) \in StreamType
             /\ [conn[c] EXCEPT !.far = "ready"] \in StreamType
             /\ [conn[c] EXCEPT !.far = "serving"] \in StreamType
             /\ [conn[c] EXCEPT !.link = "reset"] \in StreamType
             /\ \A q \in Seq(Frames) : [conn[c] EXCEPT !.q = q] \in StreamType
             /\ \A r \in {"ack", "error"} :
                  [conn[c] EXCEPT !.reply = IF conn[c].near = "open" /\ conn[c].link = "up" THEN r ELSE @]
                    \in StreamType
  <2>1. conn[c] \in StreamType
    BY <1>4
  <2>2. /\ CloseNear(conn[c]) \in StreamType
        /\ \A l \in {"gone", "reset"} : CloseFar(conn[c], l) \in StreamType
        /\ \A f \in Frames : Written(conn[c], f) \in StreamType
    BY <2>1, NearClosed, FarClosed, WrittenTo
  <2>3. ASSUME NEW k \in Nat, NEW l \in {"gone", "reset"}, NEW e \in BOOLEAN
        PROVE  Cut(conn[c], k, l, e) \in StreamType
    BY <2>1, CutOff
  <2>4. /\ [conn[c] EXCEPT !.far = "ready"] \in StreamType
        /\ [conn[c] EXCEPT !.far = "serving"] \in StreamType
        /\ [conn[c] EXCEPT !.link = "reset"] \in StreamType
        /\ \A q \in Seq(Frames) : [conn[c] EXCEPT !.q = q] \in StreamType
        /\ \A r \in {"ack", "error"} :
             [conn[c] EXCEPT !.reply = IF conn[c].near = "open" /\ conn[c].link = "up" THEN r ELSE @]
               \in StreamType
    BY <2>1 DEF StreamType
  <2>5. QED BY <2>2, <2>3, <2>4
<1>7. ASSUME NEW t \in Threads, Sends(t) PROVE WireTypes'
  <2>1. CASE BeginSend(t)
    BY <1>1, <1>3, <2>1 DEF BeginSend, wire
  <2>2. CASE Connect(t)
    <3>1. [by |-> t, cand |-> 0, left |-> FALSE] \in [by : Diallers, cand : Conns \cup {0}, left : BOOLEAN]
      BY DEF Diallers
    <3>2. Free # {} => [conn EXCEPT ![NewConn] = Connected] \in [Conns -> StreamType]
      BY <1>1, FreshStream, UnusedStream
    <3>3. conn' \in [Conns -> StreamType]
      BY <1>1, <2>2, <3>2 DEF Connect
    <3>4. dials' \subseteq [by : Diallers, cand : Conns \cup {0}, left : BOOLEAN]
      BY <1>1, <2>2, <3>1 DEF Connect
    <3>5. UNCHANGED <<mode, relayUp, parked, parkers>>
      BY <2>2 DEF Connect
    <3>6. QED BY <1>1, <3>3, <3>4, <3>5 DEF WireTypes
  <2>3. ASSUME NEW p \in {1, 2}, Write(t, p) PROVE WireTypes'
    <3>1. sock \in Conns /\ send[t].st # "idle"
      BY <1>2, <2>3 DEF Write
    <3>2. Frame("data", Current(t), p) \in Frames
      <4>1. send[t].n \in 1..Len(Script[t])
        BY <3>1, Scripts DEF Base, CallsOK
      <4>2. QED BY <4>1, Scripts, FramesOf DEF Current
    <3>3. conn' = [conn EXCEPT ![sock] = Written(conn[sock], Frame("data", Current(t), p))]
      BY <2>3 DEF Write
    <3>4. UNCHANGED <<mode, relayUp, parked, dials, parkers>>
      BY <2>3 DEF Write
    <3>5. conn' \in [Conns -> StreamType]
      BY <1>5, <1>6, <3>1, <3>2, <3>3
    <3>6. QED BY <1>3, <3>4, <3>5
  <2>4. CASE WriteFails(t)
    <3>1. sock \in Conns /\ conn' = [conn EXCEPT ![sock] = CloseNear(conn[sock])]
      BY <1>2, <2>4 DEF WriteFails
    <3>2. QED BY <1>3, <1>5, <1>6, <2>4, <3>1 DEF WriteFails
  <2>5. QED BY <1>7, <2>1, <2>2, <2>3, <2>4 DEF Sends
<1>8. ASSUME NEW d \in dials, Dials(d) PROVE WireTypes'
  <2>1. d \in [by : Diallers, cand : Conns \cup {0}, left : BOOLEAN]
    BY <1>1
  <2>2. CASE DialPop(d)
    <3>1. parked # <<>> /\ parked' = SubSeq(parked, 2, Len(parked))
      BY <2>2 DEF DialPop
    <3>2. PICK h : h = Head(parked)
      OBVIOUS
    <3>3. h \in Conns /\ Tail(parked) \in Seq(Conns)
      BY <1>1, <3>1, <3>2, TailOfQueue
    <3>4. parked' = Tail(parked)
      BY <3>1
    <3>5. \/ conn' = [conn EXCEPT ![h] = CloseNear(conn[h])] /\ dials' = dials
          \/ dials' = (dials \ {d}) \cup {[d EXCEPT !.cand = h]} /\ conn' = conn
      BY <2>2, <3>2 DEF DialPop
    <3>6. conn' \in [Conns -> StreamType]
      BY <1>1, <1>5, <1>6, <3>3, <3>5
    <3>7. [d EXCEPT !.cand = h] \in [by : Diallers, cand : Conns \cup {0}, left : BOOLEAN]
      BY <2>1, <3>3
    <3>8. dials' \subseteq [by : Diallers, cand : Conns \cup {0}, left : BOOLEAN]
      BY <1>1, <3>5, <3>7
    <3>9. QED BY <1>1, <2>2, <3>3, <3>4, <3>6, <3>8 DEF WireTypes, DialPop
  <2>3. CASE DialRefused(d)
    BY <1>1, <2>3 DEF DialRefused, WireTypes
  <2>4. CASE DialHand(d)
    <3> DEFINE called == [conn[d.cand] EXCEPT !.near = "open",
                            !.far = IF @ = "parked" /\ conn[d.cand].link = "up" THEN "called" ELSE @]
    <3>1. d.cand \in Conns /\ called \in StreamType
      <4>1. d.cand \in Conns
        BY <2>1, <2>4 DEF DialHand
      <4>2. QED BY <1>4, <4>1 DEF StreamType
    <3>2. dials' \subseteq [by : Diallers, cand : Conns \cup {0}, left : BOOLEAN]
      <4>1. [d EXCEPT !.cand = 0] \in [by : Diallers, cand : Conns \cup {0}, left : BOOLEAN]
        BY <2>1
      <4>2. dials' = (dials \ {d}) \cup {[d EXCEPT !.cand = 0]} \/ dials' = dials \ {d}
        BY <2>4 DEF DialHand
      <4>3. QED BY <1>1, <4>1, <4>2
    <3>3. \/ conn' = [conn EXCEPT ![d.cand] = CloseNear(conn[d.cand])]
          \/ conn' = [conn EXCEPT ![d.cand] = CloseNear(called)]
          \/ ~d.left /\ Answered(d.by, d.cand, called)
      BY <2>4 DEF DialHand
    <3> HIDE DEF called
    <3>4. CloseNear(called) \in StreamType /\ \A f \in Frames : Written(called, f) \in StreamType
      BY <3>1, NearClosed, WrittenTo
    <3>5. ASSUME ~d.left, Answered(d.by, d.cand, called) PROVE conn' \in [Conns -> StreamType]
      <4>1. CASE d.by = Ctl
        <5>1. ctl.k \in Configs
          BY <1>2, <3>5, <4>1 DEF Base, DialsOK
        <5>2. conn' = [conn EXCEPT ![d.cand] = Written(called, Frame("configure", ctl.k, 2))]
          BY <3>5, <4>1 DEF Answered
        <5>3. Written(called, Frame("configure", ctl.k, 2)) \in StreamType
          BY <3>4, <5>1, FramesOf
        <5>4. QED BY <1>5, <3>1, <5>2, <5>3
      <4>2. CASE d.by # Ctl
        <5>1. conn' = [conn EXCEPT ![d.cand] = called]
          BY <3>5, <4>2 DEF Answered
        <5>2. QED BY <1>5, <3>1, <5>1
      <4>3. QED BY <4>1, <4>2
    <3>6. conn' \in [Conns -> StreamType]
      BY <1>5, <1>6, <3>1, <3>3, <3>4, <3>5
    <3>7. QED BY <1>1, <2>4, <3>2, <3>6 DEF WireTypes, DialHand
  <2>5. QED BY <1>8, <2>2, <2>3, <2>4 DEF Dials
<1>9. ASSUME NEW c \in Conns, Serves(c) \/ Notice(c) PROVE WireTypes'
  <2>1. CASE ParkerWakes(c)
    <3>1. \/ conn' = [conn EXCEPT ![c] = [conn[c] EXCEPT !.far = "ready"]] /\ parkers' = parkers
          \/ conn' = [conn EXCEPT ![c] = CloseFar(conn[c], "reset")] /\ parkers' = parkers + 1
      BY <1>1, <2>1 DEF ParkerWakes
    <3>2. conn' \in [Conns -> StreamType] /\ parkers' \in Nat
      <4>1. conn' \in [Conns -> StreamType]
        BY <1>5, <1>6, <3>1
      <4>2. QED BY <1>1, <3>1, <4>1
    <3>3. QED BY <1>1, <2>1, <3>2 DEF ParkerWakes, WireTypes
  <2>2. CASE Accept(c)
    <3>1. conn' = [conn EXCEPT ![c] = [conn[c] EXCEPT !.far = "serving"]] /\ parkers' \in Nat
      BY <1>1, <2>2 DEF Accept
    <3>2. conn' \in [Conns -> StreamType]
      BY <1>5, <1>6, <3>1
    <3>3. QED BY <1>1, <2>2, <3>1, <3>2 DEF Accept, WireTypes
  <2>3. CASE ReadData(c) \/ ConfigureBegins(c)
    <3>1. /\ WholeHead(conn[c].q) /\ conn' = [conn EXCEPT ![c] = [conn[c] EXCEPT !.q = Rest(conn[c].q)]]
          /\ UNCHANGED <<mode, relayUp, parked, dials, parkers>>
      BY <2>3 DEF ReadData, ConfigureBegins
    <3>2. conn[c].q \in Seq(Frames)
      BY <1>4 DEF StreamType
    <3>3. Rest(conn[c].q) \in Seq(Frames)
      BY <3>1, <3>2, WholeHeads, FramesOf DEF After
    <3>4. conn' \in [Conns -> StreamType]
      BY <1>5, <1>6, <3>1, <3>3
    <3>5. QED BY <1>3, <3>1, <3>4
  <2>4. CASE ReadEnds(c)
    BY <1>3, <1>5, <1>6, <2>4 DEF ReadEnds
  <2>5. CASE Notice(c)
    BY <1>3, <1>5, <1>6, <2>5 DEF Notice
  <2>6. QED BY <1>9, <2>1, <2>2, <2>3, <2>4, <2>5 DEF Serves
<1>10. ASSUME NEW k \in Configs, Applies(k) \/ LoadFails(k) PROVE WireTypes'
  <2>1. CASE Load(k)
    BY <1>1, <1>3, <2>1 DEF Load, wire
  <2>2. CASE Replace(k) \/ LoadFails(k)
    <3>1. PICK r \in {"ack", "error"} : Reply(job[k].at, r)
      BY <2>2 DEF Replace, LoadFails
    <3>2. job[k].st # "idle"
      BY <2>2 DEF Replace, LoadFails
    <3>3. job[k].at \in Conns
      BY <3>2 DEF Base, Types, NodeTypes
    <3>4. conn' \in [Conns -> StreamType]
      BY <1>5, <1>6, <3>1, <3>3 DEF Reply
    <3>5. QED BY <1>3, <2>2, <3>4 DEF Replace, LoadFails
  <2>3. QED BY <1>10, <2>1, <2>2 DEF Applies
<1>11. CASE Park
  <2>1. PICK c \in Conns : conn' = [conn EXCEPT ![c] = Parked] /\ parked' = Append(parked, c)
    BY <1>11, FreshStream DEF Park
  <2>2. parkers > 0 /\ parkers' = parkers - 1
    BY <1>11 DEF Park
  <2>3. parked' \in Seq(Conns)
    BY <1>1, <2>1, AppendToQueue
  <2>4. conn' \in [Conns -> StreamType]
    BY <1>5, <2>1, UnusedStream
  <2>5. parkers' \in Nat
    BY <1>1, <2>2
  <2>6. QED BY <1>1, <1>11, <2>3, <2>4, <2>5 DEF Park, WireTypes
<1>12. CASE Call
  <2>1. [by |-> Ctl, cand |-> 0, left |-> FALSE] \in [by : Diallers, cand : Conns \cup {0}, left : BOOLEAN]
    BY DEF Diallers
  <2>2. dials' \subseteq [by : Diallers, cand : Conns \cup {0}, left : BOOLEAN]
    BY <1>1, <1>12, <2>1 DEF Call
  <2>3. Written(Connected, Frame("configure", ctl.k, 2)) \in StreamType
    BY <1>2, <1>12, FramesOf, UnusedStream, WrittenTo DEF Call
  <2>4. conn' \in [Conns -> StreamType]
    <3>1. \/ conn' = conn
          \/ /\ Free # {}
             /\ conn' = [conn EXCEPT ![NewConn] = Written(Connected, Frame("configure", ctl.k, 2))]
      BY <1>12 DEF Call
    <3>2. QED BY <1>1, <1>5, <2>3, <3>1, FreshStream
  <2>5. QED BY <1>1, <1>12, <2>2, <2>4 DEF Call, WireTypes
<1>13. ASSUME Answer \/ GiveUp PROVE WireTypes'
  <2>1. ctl.st = "wait" /\ \E st \in {"acked", "failed"} : HangUp(st)
    BY <1>13 DEF Answer, GiveUp
  <2>2. ctl.at \in Conns /\ conn' = [conn EXCEPT ![ctl.at] = CloseNear(conn[ctl.at])]
    BY <1>2, <2>1 DEF HangUp
  <2>3. QED BY <1>3, <1>5, <1>6, <2>1, <2>2 DEF HangUp
<1>14. CASE StartConfigure
  BY <1>1, <1>3, <1>14 DEF StartConfigure, wire
<1>15. ASSUME Restart \/ RelayStarts PROVE WireTypes'
  <2>1. UNCHANGED <<mode, conn, parked, dials>> /\ relayUp' \in BOOLEAN
    BY <1>1, <1>15 DEF Restart, RelayStarts
  <2>2. parkers' \in {parkers, Depth, 0}
    BY <1>15 DEF Restart, RelayStarts
  <2>3. QED BY <1>1, <2>1, <2>2, Constants DEF WireTypes
<1>16. ASSUME NEW d \in dials, LeaveDial(d) PROVE WireTypes'
  <2>1. [d EXCEPT !.left = TRUE] \in [by : Diallers, cand : Conns \cup {0}, left : BOOLEAN]
    BY <1>1
  <2>2. QED BY <1>1, <1>16, <2>1 DEF LeaveDial, WireTypes
<1>17. ASSUME NEW l \in {"gone", "reset"}, Crash(l) PROVE WireTypes'
  <2>1. conn' = [c \in Conns |-> IF conn[c].far = "closed" THEN conn[c] ELSE CloseFar(conn[c], l)]
    BY <1>17 DEF Crash
  <2>2. conn' \in [Conns -> StreamType]
    BY <1>4, <1>6, <2>1
  <2>3. QED BY <1>1, <1>17, <2>2 DEF Crash, WireTypes
<1>18. ASSUME NEW l \in {"gone", "reset"}, NEW k \in 0..2, RelayStops(k, l) PROVE WireTypes'
  <2>1. conn' = [c \in Conns |->
                  CASE conn[c].near = "relay" -> CloseNear(conn[c])
                    [] conn[c] = Unused -> Unused
                    [] OTHER -> Cut(conn[c], k, l, conn[c].link = "up")]
    BY <1>18 DEF RelayStops
  <2>2. ASSUME NEW c \in Conns PROVE conn'[c] \in StreamType
    <3>1. \/ conn'[c] = CloseNear(conn[c]) \/ conn'[c] = Unused
          \/ conn'[c] = Cut(conn[c], k, l, conn[c].link = "up")
      BY <2>1
    <3>2. (conn[c].link = "up") \in BOOLEAN /\ k \in Nat
      OBVIOUS
    <3>3. QED BY <1>6, <3>1, <3>2, UnusedStream
  <2>3. conn' \in [Conns -> StreamType]
    BY <2>1, <2>2
  <2>4. parked' \in Seq(Conns) /\ dials' = {} /\ relayUp' = FALSE /\ UNCHANGED <<mode, parkers>>
    BY <1>18, EmptySeq DEF RelayStops
  <2>5. QED BY <1>1, <2>3, <2>4 DEF WireTypes
<1>19. ASSUME NEW l \in {"gone", "reset"}, NEW k \in 0..2, NEW c \in Conns, Break(c, k, l)
       PROVE  WireTypes'
  <2>1. conn' = [conn EXCEPT ![c] = Cut(conn[c], k, l, l = "reset")]
    BY <1>19 DEF Break
  <2>2. (l = "reset") \in BOOLEAN /\ k \in Nat
    OBVIOUS
  <2>3. QED BY <1>3, <1>5, <1>6, <1>19, <2>1, <2>2 DEF Break
<1>20. CASE UNCHANGED vars
  BY <1>1, <1>20 DEF vars, wire, WireTypes
<1>21. QED
  BY <1>7, <1>8, <1>9, <1>10, <1>11, <1>12, <1>13, <1>14, <1>15, <1>16, <1>17, <1>18, <1>19, <1>20
     DEF Next, Faults

LEMMA NodeTypesStep ==
    ASSUME Base, [Next]_vars
    PROVE  NodeTypes'
<1>1. /\ up \in BOOLEAN
      /\ node \in [cfg : Choice, model : Choice, clf : Choice, pool : Choice]
      /\ job \in [Configs -> [st : {"idle", "load", "replace"}, at : Conns \cup {0}]]
      /\ \A k \in Configs : job[k].st # "idle" => job[k].at \in Conns
  BY DEF Base, Types, NodeTypes
<1>2. \A c \in Conns : conn[c].q \in Seq(Frames)
  BY StreamFields DEF Base, Types, WireTypes
<1>3. None \in Choice /\ Configs \subseteq Choice
      /\ NoJob \in [st : {"idle", "load", "replace"}, at : Conns \cup {0}] /\ NoJob.st = "idle"
      /\ Unconfigured \in [cfg : Choice, model : Choice, clf : Choice, pool : Choice]
  BY DEF Choice, NoJob, Unconfigured
<1>4. ASSUME UNCHANGED server PROVE NodeTypes'
  BY <1>1, <1>4 DEF server, NodeTypes
<1>5. ASSUME NEW t \in Threads, Sends(t) PROVE UNCHANGED server
  BY <1>5 DEF Sends, BeginSend, Connect, Write, WriteFails
<1>6. ASSUME NEW d \in dials, Dials(d) \/ LeaveDial(d) PROVE UNCHANGED server
  BY <1>6 DEF Dials, DialPop, DialRefused, DialHand, LeaveDial
<1>7. ASSUME NEW c \in Conns, Serves(c) \/ Notice(c) PROVE NodeTypes'
  <2>1. CASE ConfigureBegins(c)
    <3>1. PICK k : k = conn[c].q[1].of
      OBVIOUS
    <3>2. k \in Configs
      <4>1. conn[c].q[1] \in Frames /\ conn[c].q[1].kind = "configure"
        BY <1>2, <2>1, WholeHeads DEF ConfigureBegins
      <4>2. QED BY <3>1, <4>1, FramesOf
    <3>3. /\ node' = [node EXCEPT !.model = None, !.cfg = k]
          /\ job' = [job EXCEPT ![k] = [st |-> "load", at |-> c]] /\ up' = up
      BY <2>1, <3>1 DEF ConfigureBegins
    <3>4. QED BY <1>1, <1>3, <3>2, <3>3 DEF NodeTypes
  <2>2. CASE ParkerWakes(c) \/ Accept(c) \/ ReadData(c) \/ ReadEnds(c) \/ Notice(c)
    <3>1. UNCHANGED server
      BY <2>2 DEF ParkerWakes, Accept, ReadData, ReadEnds, Notice
    <3>2. QED BY <1>4, <3>1
  <2>3. QED BY <1>7, <2>1, <2>2 DEF Serves
<1>8. ASSUME NEW k \in Configs, Applies(k) \/ LoadFails(k) PROVE NodeTypes'
  <2>1. job[k].st # "idle" /\ up' = up
    BY <1>8 DEF Applies, Load, Replace, LoadFails
  <2>2. job[k].at \in Conns /\ k \in Choice
    BY <1>1, <1>3, <2>1
  <2>3. node' \in [cfg : Choice, model : Choice, clf : Choice, pool : Choice]
    BY <1>1, <1>8, <2>2 DEF Applies, Load, Replace, LoadFails
  <2>4. job' = [job EXCEPT ![k].st = "replace"] \/ job' = [job EXCEPT ![k] = NoJob]
    BY <1>8 DEF Applies, Load, Replace, LoadFails
  <2>5. QED BY <1>1, <1>3, <2>1, <2>2, <2>3, <2>4 DEF NodeTypes
<1>9. ASSUME Park \/ Call \/ Answer \/ GiveUp \/ StartConfigure \/ RelayStarts PROVE UNCHANGED server
  BY <1>9 DEF Park, Call, Answer, GiveUp, HangUp, StartConfigure, RelayStarts, server
<1>10. CASE Restart
  BY <1>1, <1>10 DEF Restart, NodeTypes
<1>11. ASSUME NEW l \in {"gone", "reset"}, Crash(l) PROVE NodeTypes'
  <2>1. up' = FALSE /\ node' = Unconfigured /\ job' = [k \in Configs |-> NoJob]
    BY <1>11 DEF Crash
  <2>2. QED BY <1>3, <2>1 DEF NodeTypes
<1>12. ASSUME NEW l \in {"gone", "reset"}, NEW k \in 0..2,
              RelayStops(k, l) \/ \E c \in Conns : Break(c, k, l)
       PROVE  UNCHANGED server
  BY <1>12 DEF RelayStops, Break
<1>13. CASE UNCHANGED vars
  BY <1>4, <1>13 DEF vars
<1>14. QED
  BY <1>4, <1>5, <1>6, <1>7, <1>8, <1>9, <1>10, <1>11, <1>12, <1>13 DEF Next, Faults

LEMMA CtlTypesStep ==
    ASSUME Base, [Next]_vars
    PROVE  CtlTypes'
<1>1. /\ ctl \in [k : Configs \cup {0}, at : Conns \cup {0},
                  st : {"idle", "connect", "dial", "wait", "acked", "failed"}]
      /\ ctl.st \in {"connect", "dial", "wait"} => ctl.k \in Configs
      /\ ctl.st = "wait" => ctl.at \in Conns
      /\ tangled \in BOOLEAN
  BY DEF Base, Types, CtlTypes
<1>2. Types /\ mode \in Modes
  BY DEF Base, Types, WireTypes
<1>3. ASSUME UNCHANGED <<ctl, tangled>> PROVE CtlTypes'
  BY <1>1, <1>3 DEF CtlTypes
<1>4. ASSUME NEW bs, DialFailed(bs), tangled' = tangled PROVE CtlTypes'
  <2>1. ctl' = [ctl EXCEPT !.st = ctl'.st] /\ ctl'.st \in {ctl.st, "failed"}
    BY <1>2, <1>4, DialFailedTypes
  <2>2. QED BY <1>1, <1>4, <2>1 DEF CtlTypes
<1>5. ASSUME NEW t \in Threads, Sends(t) PROVE UNCHANGED <<ctl, tangled>>
  BY <1>5 DEF Sends, BeginSend, Connect, Write, WriteFails
<1>6. ASSUME NEW d \in dials, Dials(d) \/ LeaveDial(d) PROVE CtlTypes'
  <2>1. CASE DialPop(d)
    BY <1>3, <2>1 DEF DialPop
  <2>2. CASE DialRefused(d)
    BY <1>3, <1>4, <2>2 DEF DialRefused
  <2>3. CASE DialHand(d)
    <3>1. tangled' = tangled /\ d.cand \in Conns
      BY <2>3 DEF DialHand, Base, Types, WireTypes
    <3>2. ctl' = ctl \/ (~d.left /\ d.by = Ctl /\ ctl' = [ctl EXCEPT !.st = "wait", !.at = d.cand])
      BY <2>3 DEF DialHand, Answered
    <3>3. ~d.left /\ d.by = Ctl => ctl.st = "dial"
      BY DEF Base, DialsOK
    <3>4. QED BY <1>1, <3>1, <3>2, <3>3 DEF CtlTypes
  <2>4. CASE LeaveDial(d)
    BY <1>4, <2>4 DEF LeaveDial
  <2>5. QED BY <1>6, <2>1, <2>2, <2>3, <2>4 DEF Dials
<1>7. ASSUME NEW c \in Conns, Serves(c) \/ Notice(c) PROVE UNCHANGED <<ctl, tangled>>
  BY <1>7 DEF Serves, ParkerWakes, Accept, ReadData, ReadEnds, ConfigureBegins, Notice
<1>8. ASSUME NEW k \in Configs, Applies(k) \/ LoadFails(k) PROVE UNCHANGED <<ctl, tangled>>
  BY <1>8 DEF Applies, Load, Replace, LoadFails
<1>9. ASSUME Park \/ RelayStarts \/ Restart PROVE UNCHANGED <<ctl, tangled>>
  BY <1>9 DEF Park, RelayStarts, Restart
<1>10. CASE StartConfigure
  <2>1. /\ ctl.k < MaxConfigures[mode] /\ ctl' = [k |-> ctl.k + 1, st |-> "connect", at |-> 0]
        /\ tangled' = (tangled \/ \E k \in Configs : UnderWay(k))
    BY <1>10 DEF StartConfigure
  <2>2. ctl.k \in Nat
    <3>1. \A n \in Configs \cup {0} : n \in Nat
      BY Constants
    <3>2. QED BY <1>1, <3>1
  <2>3. ctl.k + 1 \in Configs
    BY <1>2, <2>1, <2>2, Constants
  <2>4. tangled' \in BOOLEAN
    BY <2>1
  <2>5. QED BY <2>1, <2>3, <2>4 DEF CtlTypes
<1>11. CASE Call
  <2>1. tangled' = tangled /\ ctl.k \in Configs
    BY <1>1, <1>11 DEF Call
  <2>2. \/ ctl' = [ctl EXCEPT !.st = "wait", !.at = NewConn] /\ NewConn \in Conns
        \/ ctl' = [ctl EXCEPT !.st = "dial"] \/ ctl' = [ctl EXCEPT !.st = "failed"]
    BY <1>11, FreshStream DEF Call
  <2>3. QED BY <1>1, <2>1, <2>2 DEF CtlTypes
<1>12. ASSUME Answer \/ GiveUp PROVE CtlTypes'
  <2>1. /\ ctl' = [ctl EXCEPT !.st = "acked", !.at = 0] \/ ctl' = [ctl EXCEPT !.st = "failed", !.at = 0]
        /\ tangled' = tangled
    BY <1>12 DEF Answer, GiveUp, HangUp
  <2>2. QED BY <1>1, <2>1 DEF CtlTypes
<1>13. ASSUME NEW l \in {"gone", "reset"}, Crash(l) PROVE UNCHANGED <<ctl, tangled>>
  BY <1>13 DEF Crash
<1>14. ASSUME NEW l \in {"gone", "reset"}, NEW k \in 0..2, RelayStops(k, l) PROVE CtlTypes'
  <2>1. tangled' = tangled /\ DialFailed({d.by : d \in {x \in dials : ~x.left}})
    BY <1>14 DEF RelayStops
  <2>2. QED BY <1>4, <2>1
<1>15. ASSUME NEW l \in {"gone", "reset"}, NEW k \in 0..2, NEW c \in Conns, Break(c, k, l)
       PROVE  UNCHANGED <<ctl, tangled>>
  BY <1>15 DEF Break
<1>16. CASE UNCHANGED vars
  BY <1>3, <1>16 DEF vars
<1>17. QED
  BY <1>3, <1>5, <1>6, <1>7, <1>8, <1>9, <1>10, <1>11, <1>12, <1>13, <1>14, <1>15, <1>16
     DEF Next, Faults

LEMMA LostTypes ==
    ASSUME NEW q \in Seq(Frames)
    PROVE  Finished(q) \subseteq Msgs
<1>1. ASSUME NEW i \in DOMAIN q, q[i].kind = "data" PROVE q[i].of \in Msgs
  <2>1. q[i] \in Frames
    BY ElementOfSeq, LenProperties
  <2>2. QED BY <1>1, <2>1, FramesOf
<1>2. QED BY <1>1 DEF Finished

LEMMA SendTypesStep ==
    ASSUME Base, [Next]_vars
    PROVE  SendTypes'
<1>1. /\ sock \in Conns \cup {0}
      /\ send \in [Threads -> Calls]
      /\ fate \in [Msgs -> {"new", "begun", "sent", "raised"}]
      /\ got \in [Msgs -> Nat]
      /\ refused \subseteq Msgs /\ lost \subseteq Msgs
      /\ faults \in Nat
  BY DEF Base, Types, SendTypes
<1>2. Types /\ SendTypes
  BY DEF Base, Types
<1>3. \A c \in Conns : conn[c].q \in Seq(Frames)
  BY StreamFields DEF Base, Types, WireTypes
<1>4. faults' \in Nat
  <2>1. faults' \in {faults, faults + 1}
    BY DEF Next, Faults, Sends, BeginSend, Connect, Write, WriteFails, Dials, DialPop, DialRefused,
           DialHand, Serves, ParkerWakes, Accept, ReadData, ReadEnds, ConfigureBegins, Notice,
           Applies, Load, Replace, Park, StartConfigure, Call, Answer, HangUp, Restart, RelayStarts,
           LeaveDial, Crash, RelayStops, Break, LoadFails, GiveUp, Fault, vars
  <2>2. QED BY <1>1, <2>1
<1>5. ASSUME UNCHANGED <<sender, record>> PROVE SendTypes'
  BY <1>1, <1>4, <1>5 DEF sender, record, SendTypes
<1>6. ASSUME NEW s \in [Threads -> Calls], Fail(s), sock' \in Conns \cup {0}, UNCHANGED record
      PROVE  SendTypes'
  <2>1. send' \in [Threads -> Calls] /\ fate' \in [Msgs -> {"new", "begun", "sent", "raised"}]
    BY <1>2, <1>6, FailKeepsTypes
  <2>2. QED BY <1>1, <1>4, <1>6, <2>1 DEF record, SendTypes
<1>7. ASSUME NEW bs, DialFailed(bs), UNCHANGED <<sock, got, refused>>, lost' \subseteq Msgs
      PROVE  SendTypes'
  <2>1. send' \in [Threads -> Calls] /\ fate' \in [Msgs -> {"new", "begun", "sent", "raised"}]
    BY <1>2, <1>7, DialFailedTypes
  <2>2. QED BY <1>1, <1>4, <1>7, <2>1 DEF SendTypes
<1>8. ASSUME NEW t \in Threads, Sends(t) PROVE SendTypes'
  <2>1. send[t] \in Calls
    BY <1>1
  <2>2. \A st \in {"connect", "dial", "first", "rest"} : [send EXCEPT ![t].st = st] \in [Threads -> Calls]
    BY <1>1 DEF Calls
  <2>3. CASE BeginSend(t)
    <3>1. send' = [send EXCEPT ![t].st = IF sock = 0 THEN "connect" ELSE "first"]
      BY <2>3 DEF BeginSend
    <3>2. send' \in [Threads -> Calls]
      BY <2>2, <3>1
    <3>3. fate' = [fate EXCEPT ![Current(t)] = "begun"] /\ UNCHANGED <<sock, got, refused, lost>>
      BY <2>3 DEF BeginSend, record
    <3>4. QED BY <1>1, <1>4, <3>2, <3>3 DEF SendTypes
  <2>4. CASE Connect(t)
    <3>1. UNCHANGED <<got, refused, lost>>
      BY <2>4 DEF Connect, record
    <3>2. \/ /\ sock' \in Conns \cup {0} /\ UNCHANGED fate
             /\ send' = [send EXCEPT ![t].st = "first"] \/ send' = [send EXCEPT ![t].st = "dial"]
          \/ Fail([send EXCEPT ![t] = TryFailed(send[t])]) /\ sock' = sock
      BY <1>1, <2>4, FreshStream DEF Connect
    <3>3. CASE Fail([send EXCEPT ![t] = TryFailed(send[t])]) /\ sock' = sock
      <4>1. [send EXCEPT ![t] = TryFailed(send[t])] \in [Threads -> Calls]
        BY <1>1, <2>1, FailedCalls DEF Failed
      <4>2. QED BY <1>1, <1>6, <3>1, <3>3, <4>1 DEF record
    <3>4. CASE /\ sock' \in Conns \cup {0} /\ UNCHANGED fate
               /\ send' = [send EXCEPT ![t].st = "first"] \/ send' = [send EXCEPT ![t].st = "dial"]
      <4>1. send' \in [Threads -> Calls]
        BY <2>2, <3>4
      <4>2. QED BY <1>1, <1>4, <3>1, <3>4, <4>1 DEF SendTypes
    <3>5. QED BY <3>2, <3>3, <3>4
  <2>5. ASSUME NEW p \in {1, 2}, Write(t, p) PROVE SendTypes'
    <3>1. UNCHANGED <<sock, got, refused>>
      BY <2>5 DEF Write
    <3>2. CASE p = 1
      <4>1. send' = [send EXCEPT ![t].st = "rest"] /\ UNCHANGED <<fate, lost>>
        BY <2>5, <3>2 DEF Write
      <4>2. send' \in [Threads -> Calls]
        BY <2>2, <4>1
      <4>3. QED BY <1>1, <1>4, <3>1, <4>1, <4>2 DEF SendTypes
    <3>3. CASE p = 2
      <4>1. /\ send' = [send EXCEPT ![t] = [n |-> send[t].n + 1, st |-> "idle", attempt |-> 0, tries |-> 0]]
            /\ fate' = [fate EXCEPT ![Current(t)] = "sent"]
            /\ lost' \subseteq lost \cup {Current(t)}
        BY <2>5, <3>3 DEF Write
      <4>2. Current(t) \in Msgs
        <5>1. send[t].st # "idle"
          BY <2>5 DEF Write
        <5>2. send[t].n \in 1..Len(Script[t])
          BY <5>1, Scripts DEF Base, CallsOK
        <5>3. QED BY <5>2, Scripts DEF Current
      <4>3. [n |-> send[t].n + 1, st |-> "idle", attempt |-> 0, tries |-> 0] \in Calls
        BY <2>1, Constants DEF Calls
      <4>4. send' \in [Threads -> Calls]
        BY <1>1, <4>1, <4>3
      <4>5. QED BY <1>1, <1>4, <3>1, <4>1, <4>2, <4>4 DEF SendTypes
    <3>4. QED BY <3>2, <3>3
  <2>6. CASE WriteFails(t)
    <3>1. Fail([send EXCEPT ![t] = AttemptFailed(send[t])]) /\ sock' = 0 /\ UNCHANGED record
      BY <2>6 DEF WriteFails
    <3>2. [send EXCEPT ![t] = AttemptFailed(send[t])] \in [Threads -> Calls]
      BY <1>1, <2>1, FailedCalls DEF Failed
    <3>3. QED BY <1>6, <3>1, <3>2
  <2>7. QED BY <1>8, <2>3, <2>4, <2>5, <2>6 DEF Sends
<1>9. ASSUME NEW d \in dials, Dials(d) \/ LeaveDial(d) PROVE SendTypes'
  <2>1. CASE DialPop(d)
    BY <1>5, <2>1 DEF DialPop
  <2>2. ASSUME DialRefused(d) \/ LeaveDial(d) PROVE SendTypes'
    <3>1. UNCHANGED <<sock, got, refused, lost>>
      BY <2>2 DEF DialRefused, LeaveDial, record
    <3>2. DialFailed({d.by}) \/ UNCHANGED <<send, fate>>
      BY <2>2 DEF DialRefused, LeaveDial
    <3>3. QED BY <1>1, <1>4, <1>7, <3>1, <3>2 DEF SendTypes
  <2>3. CASE DialHand(d)
    <3>1. UNCHANGED <<fate, got, refused, lost>> /\ d.cand \in Conns
      BY <2>3 DEF DialHand, record, Base, Types, WireTypes
    <3>2. \/ UNCHANGED <<sock, send>>
          \/ d.by # Ctl /\ sock' = d.cand /\ send' = [send EXCEPT ![d.by].st = "first"]
      BY <2>3 DEF DialHand, Answered
    <3>3. d.by # Ctl => d.by \in Threads
      BY DEF Base, Types, WireTypes, Diallers
    <3>4. send' \in [Threads -> Calls]
      BY <1>1, <3>2, <3>3 DEF Calls
    <3>5. QED BY <1>1, <1>4, <3>1, <3>2, <3>4 DEF SendTypes
  <2>4. QED BY <1>9, <2>1, <2>2, <2>3 DEF Dials
<1>10. ASSUME NEW c \in Conns, Serves(c) \/ Notice(c) PROVE SendTypes'
  <2>1. CASE ReadData(c)
    <3>1. /\ WholeHead(conn[c].q) /\ conn[c].q[1].kind = "data"
          /\ UNCHANGED <<sock, send, fate, lost>>
          /\ \/ refused' = refused \cup {conn[c].q[1].of} /\ UNCHANGED got
             \/ got' = [got EXCEPT ![conn[c].q[1].of] = @ + 1] /\ UNCHANGED refused
      BY <2>1 DEF ReadData, sender
    <3>2. conn[c].q[1].of \in Msgs
      BY <1>3, <3>1, WholeHeads, FramesOf
    <3>3. QED BY <1>1, <1>4, <3>1, <3>2 DEF SendTypes
  <2>2. CASE ParkerWakes(c) \/ Accept(c) \/ ReadEnds(c) \/ ConfigureBegins(c) \/ Notice(c)
    <3>1. UNCHANGED <<sender, record>>
      BY <2>2 DEF ParkerWakes, Accept, ReadEnds, ConfigureBegins, Notice
    <3>2. QED BY <1>5, <3>1
  <2>3. QED BY <1>10, <2>1, <2>2 DEF Serves
<1>11. ASSUME NEW k \in Configs, Applies(k) \/ LoadFails(k) PROVE UNCHANGED <<sender, record>>
  BY <1>11 DEF Applies, Load, Replace, LoadFails
<1>12. ASSUME Park \/ RelayStarts \/ Restart \/ StartConfigure \/ Call \/ Answer \/ GiveUp
       PROVE  UNCHANGED <<sender, record>>
  BY <1>12 DEF Park, RelayStarts, Restart, StartConfigure, Call, Answer, GiveUp, HangUp
<1>13. ASSUME NEW l \in {"gone", "reset"}, Crash(l) PROVE SendTypes'
  <2>1. /\ UNCHANGED <<sender, got, refused>>
        /\ lost' = lost \cup UNION {Finished(conn[c].q) : c \in Conns}
    BY <1>13 DEF Crash
  <2>2. UNION {Finished(conn[c].q) : c \in Conns} \subseteq Msgs
    BY <1>3, LostTypes
  <2>3. QED BY <1>1, <1>4, <2>1, <2>2 DEF SendTypes, sender
<1>14. ASSUME NEW l \in {"gone", "reset"}, NEW k \in 0..2, RelayStops(k, l) PROVE SendTypes'
  <2>1. /\ UNCHANGED <<sock, got, refused>>
        /\ lost' = lost \cup UNION {LostBy(conn[c], conn'[c]) : c \in Conns}
        /\ DialFailed({d.by : d \in {x \in dials : ~x.left}})
    BY <1>14 DEF RelayStops
  <2>2. UNION {LostBy(conn[c], conn'[c]) : c \in Conns} \subseteq Msgs
    BY <1>3, LostTypes DEF LostBy
  <2>3. QED BY <1>1, <1>7, <2>1, <2>2
<1>15. ASSUME NEW l \in {"gone", "reset"}, NEW k \in 0..2, NEW c \in Conns, Break(c, k, l)
       PROVE  SendTypes'
  <2>1. /\ UNCHANGED <<sender, got, refused>> /\ lost' = lost \cup LostBy(conn[c], conn'[c])
    BY <1>15 DEF Break
  <2>2. LostBy(conn[c], conn'[c]) \subseteq Msgs
    BY <1>3, LostTypes DEF LostBy
  <2>3. QED BY <1>1, <1>4, <2>1, <2>2 DEF SendTypes, sender
<1>16. CASE UNCHANGED vars
  BY <1>5, <1>16 DEF vars
<1>17. QED
  BY <1>5, <1>8, <1>9, <1>10, <1>11, <1>12, <1>13, <1>14, <1>15, <1>16 DEF Next, Faults

LEMMA TypesStep ==
    ASSUME Base, [Next]_vars
    PROVE  Types'
BY WireTypesStep, NodeTypesStep, CtlTypesStep, SendTypesStep DEF Types

-----------------------------------------------------------------------------
(* The sender's lock *)

(* A call under way goes on, or ends.                                      *)
GoesOn(s, r) == r.n = s.n \/ (r.st = "idle" /\ r.n = s.n + 1)

LEMMA CallsGoOn ==
    ASSUME CallsOK, send \in [Threads -> Calls], send' \in [Threads -> Calls],
           \A t \in Threads : \/ send'[t] = send[t]
                              \/ send[t].st # "idle" /\ GoesOn(send[t], send'[t])
    PROVE  CallsOK'
<1>1. ASSUME NEW t \in Threads
      PROVE  /\ send'[t].n \in 1..Len(Script[t]) + 1
             /\ send'[t].st # "idle" => send'[t].n <= Len(Script[t]) /\ send[t].st # "idle"
  <2>1. Len(Script[t]) \in Nat /\ send[t].n \in Nat
    BY Scripts DEF Calls
  <2>2. /\ send[t].n \in 1..Len(Script[t]) + 1
        /\ send[t].st # "idle" => send[t].n <= Len(Script[t])
    BY DEF CallsOK
  <2>3. CASE send'[t] = send[t]
    BY <2>2, <2>3
  <2>4. CASE send[t].st # "idle" /\ GoesOn(send[t], send'[t])
    BY <2>1, <2>2, <2>4 DEF GoesOn
  <2>5. QED BY <2>3, <2>4
<1>2. ASSUME NEW t \in Threads, NEW u \in Threads, send'[t].st # "idle", send'[u].st # "idle"
      PROVE  t = u
  BY <1>1, <1>2 DEF CallsOK
<1>3. QED BY <1>1, <1>2 DEF CallsOK

LEMMA CallsStep ==
    ASSUME Base, [Next]_vars
    PROVE  CallsOK'
<1>1. CallsOK /\ Types /\ send \in [Threads -> Calls] /\ send' \in [Threads -> Calls]
  BY TypesStep DEF Base, Types, SendTypes
<1>2. ASSUME UNCHANGED send PROVE CallsOK'
  BY <1>1, <1>2 DEF CallsOK
<1>3. ASSUME NEW t \in Threads, NEW r, send[t].st # "idle", send' = [send EXCEPT ![t] = r],
             GoesOn(send[t], r)
      PROVE  CallsOK'
  BY <1>1, <1>3, CallsGoOn
<1>4. ASSUME NEW bs, DialFailed(bs), \A t \in Threads : t \in bs => send[t].st # "idle"
      PROVE  CallsOK'
  <2>1. \A t \in Threads : IF t \in bs THEN Failed(send[t], send'[t]) ELSE send'[t] = send[t]
    BY <1>1, <1>4, DialFailedTypes
  <2>2. ASSUME NEW t \in Threads
        PROVE  send'[t] = send[t] \/ (send[t].st # "idle" /\ GoesOn(send[t], send'[t]))
    BY <1>4, <2>1 DEF Failed, GoesOn
  <2>3. QED BY <1>1, <2>2, CallsGoOn
<1>5. \A d \in dials : ~d.left /\ d.by \in Threads => send[d.by].st = "dial"
  BY Constants DEF Base, DialsOK
<1>6. ASSUME NEW t \in Threads, Sends(t) PROVE CallsOK'
  <2>1. send[t] \in Calls
    BY <1>1
  <2>2. CASE BeginSend(t)
    <3>1. /\ send[t].n <= Len(Script[t]) /\ \A u \in Threads : send[u].st = "idle"
          /\ send' = [send EXCEPT ![t].st = IF sock = 0 THEN "connect" ELSE "first"]
      BY <2>2 DEF BeginSend, LockFree
    <3>2. \A u \in Threads : send'[u].n = send[u].n /\ (u # t => send'[u].st = "idle")
      BY <1>1, <3>1 DEF Calls
    <3>3. QED BY <1>1, <3>1, <3>2 DEF CallsOK
  <2>3. CASE Connect(t)
    <3>1. /\ send[t].st # "idle"
          /\ \/ \E st \in {"first", "dial"} : send' = [send EXCEPT ![t].st = st]
             \/ send' = [send EXCEPT ![t] = TryFailed(send[t])]
      BY <2>3 DEF Connect, Fail
    <3>2. GoesOn(send[t], TryFailed(send[t]))
      BY <2>1, FailedCalls DEF Failed, GoesOn
    <3>3. \A st \in {"first", "dial"} : /\ [send EXCEPT ![t].st = st] = [send EXCEPT ![t] = [send[t] EXCEPT !.st = st]]
                                       /\ GoesOn(send[t], [send[t] EXCEPT !.st = st])
      BY <1>1, <2>1 DEF GoesOn, Calls
    <3>4. QED BY <1>3, <3>1, <3>2, <3>3
  <2>4. ASSUME NEW p \in {1, 2}, Write(t, p) PROVE CallsOK'
    <3>1. send[t].st # "idle" /\ \E r : send' = [send EXCEPT ![t] = r] /\ GoesOn(send[t], r)
      <4>1. CASE p = 1
        <5>1. send[t].st # "idle" /\ send' = [send EXCEPT ![t].st = "rest"]
          BY <2>4, <4>1 DEF Write
        <5>2. /\ [send EXCEPT ![t].st = "rest"] = [send EXCEPT ![t] = [send[t] EXCEPT !.st = "rest"]]
              /\ GoesOn(send[t], [send[t] EXCEPT !.st = "rest"])
          BY <1>1, <2>1 DEF GoesOn, Calls
        <5>3. QED BY <5>1, <5>2
      <4>2. CASE p = 2
        <5>1. /\ send[t].st # "idle"
              /\ send' = [send EXCEPT ![t] = [n |-> send[t].n + 1, st |-> "idle", attempt |-> 0, tries |-> 0]]
          BY <2>4, <4>2 DEF Write
        <5>2. GoesOn(send[t], [n |-> send[t].n + 1, st |-> "idle", attempt |-> 0, tries |-> 0])
          BY DEF GoesOn
        <5>3. QED BY <5>1, <5>2
      <4>3. QED BY <4>1, <4>2
    <3>2. QED BY <1>3, <3>1
  <2>5. CASE WriteFails(t)
    <3>1. send[t].st # "idle" /\ send' = [send EXCEPT ![t] = AttemptFailed(send[t])]
      BY <2>5 DEF WriteFails, Fail
    <3>2. GoesOn(send[t], AttemptFailed(send[t]))
      BY <2>1, FailedCalls DEF Failed, GoesOn
    <3>3. QED BY <1>3, <3>1, <3>2
  <2>6. QED BY <1>6, <2>2, <2>3, <2>4, <2>5 DEF Sends
<1>7. ASSUME NEW d \in dials, Dials(d) \/ LeaveDial(d) PROVE CallsOK'
  <2>1. CASE DialPop(d)
    BY <1>2, <2>1 DEF DialPop, sender
  <2>2. ASSUME DialRefused(d) \/ LeaveDial(d) PROVE CallsOK'
    <3>1. UNCHANGED send \/ (~d.left /\ DialFailed({d.by}))
      BY <2>2 DEF DialRefused, LeaveDial
    <3>2. QED BY <1>2, <1>4, <1>5, <3>1
  <2>3. CASE DialHand(d)
    <3>1. \/ UNCHANGED send
          \/ ~d.left /\ d.by # Ctl /\ send' = [send EXCEPT ![d.by].st = "first"]
      BY <2>3 DEF DialHand, Answered
    <3>2. CASE ~d.left /\ d.by # Ctl /\ send' = [send EXCEPT ![d.by].st = "first"]
      <4>1. d.by \in Threads
        BY <3>2 DEF Base, Types, WireTypes, Diallers
      <4>2. /\ [send EXCEPT ![d.by].st = "first"] = [send EXCEPT ![d.by] = [send[d.by] EXCEPT !.st = "first"]]
            /\ GoesOn(send[d.by], [send[d.by] EXCEPT !.st = "first"])
        BY <1>1, <4>1 DEF GoesOn, Calls
      <4>3. QED BY <1>3, <1>5, <3>2, <4>1, <4>2
    <3>3. QED BY <1>2, <3>1, <3>2
  <2>4. QED BY <1>7, <2>1, <2>2, <2>3 DEF Dials
<1>8. ASSUME NEW c \in Conns, Serves(c) \/ Notice(c) PROVE UNCHANGED send
  BY <1>8 DEF Serves, ParkerWakes, Accept, ReadData, ReadEnds, ConfigureBegins, Notice, sender
<1>9. ASSUME NEW k \in Configs, Applies(k) \/ LoadFails(k) PROVE UNCHANGED send
  BY <1>9 DEF Applies, Load, Replace, LoadFails, sender
<1>10. ASSUME Park \/ RelayStarts \/ Restart \/ StartConfigure \/ Call \/ Answer \/ GiveUp
       PROVE  UNCHANGED send
  BY <1>10 DEF Park, RelayStarts, Restart, StartConfigure, Call, Answer, GiveUp, HangUp, sender
<1>11. ASSUME NEW l \in {"gone", "reset"}, Crash(l) PROVE UNCHANGED send
  BY <1>11 DEF Crash, sender
<1>12. ASSUME NEW l \in {"gone", "reset"}, NEW k \in 0..2, RelayStops(k, l) PROVE CallsOK'
  <2>1. DialFailed({d.by : d \in {x \in dials : ~x.left}})
    BY <1>12 DEF RelayStops
  <2>2. \A t \in Threads : t \in {d.by : d \in {x \in dials : ~x.left}} => send[t].st # "idle"
    BY <1>5
  <2>3. QED BY <1>4, <2>1, <2>2
<1>13. ASSUME NEW l \in {"gone", "reset"}, NEW k \in 0..2, NEW c \in Conns, Break(c, k, l)
       PROVE  UNCHANGED send
  BY <1>13 DEF Break, sender
<1>14. CASE UNCHANGED vars
  BY <1>2, <1>14 DEF vars, sender
<1>15. QED
  BY <1>2, <1>6, <1>7, <1>8, <1>9, <1>10, <1>11, <1>12, <1>13, <1>14 DEF Next, Faults

LEMMA DialsStep ==
    ASSUME Base, [Next]_vars
    PROVE  DialsOK'
<1>1. /\ CallsOK /\ Types /\ send \in [Threads -> Calls] /\ send' \in [Threads -> Calls]
      /\ sock \in Conns \cup {0} /\ 0 \notin Conns /\ Ctl \notin Threads
      /\ \A d \in dials : d.by \in Threads \cup {Ctl} /\ d.left \in BOOLEAN
      /\ dials \subseteq [by : Diallers, cand : Conns \cup {0}, left : BOOLEAN]
      /\ ctl \in [k : Configs \cup {0}, at : Conns \cup {0},
                  st : {"idle", "connect", "dial", "wait", "acked", "failed"}]
  BY TypesStep, Constants DEF Base, Types, SendTypes, WireTypes, Diallers, CtlTypes
<1>2. /\ \A t \in Threads : /\ send[t].st \in {"connect", "dial"} => sock = 0
                            /\ send[t].st \in {"first", "rest"} => sock # 0
      /\ \A d, e \in dials : ~d.left /\ ~e.left /\ d.by = e.by => d = e
      /\ \A d \in dials : ~d.left => IF d.by = Ctl THEN ctl.st = "dial" ELSE send[d.by].st = "dial"
  BY DEF Base, DialsOK
<1>3. ASSUME UNCHANGED <<send, sock, dials>>, ctl' = ctl \/ ctl.st # "dial" PROVE DialsOK'
  BY <1>2, <1>3 DEF DialsOK
<1>4. ASSUME NEW t \in Threads, send[t].st # "idle"
      PROVE  \A u \in Threads : u # t => send[u].st = "idle"
  BY <1>1, <1>4 DEF CallsOK
<1>5. \A d \in dials : ~d.left /\ d.by \in Threads => send[d.by].st = "dial"
  BY <1>1, <1>2
(* A thread that is not in a dial moves alone.                             *)
<1>6. ASSUME NEW t \in Threads, send[t].st # "dial", UNCHANGED <<dials, ctl>>,
             \A u \in Threads : u # t => send'[u] = send[u] /\ send[u].st = "idle",
             send'[t].st \in {"connect", "dial"} => sock' = 0,
             send'[t].st \in {"first", "rest"} => sock' # 0
      PROVE  DialsOK'
  <2>1. \A u \in Threads : /\ send'[u].st \in {"connect", "dial"} => sock' = 0
                           /\ send'[u].st \in {"first", "rest"} => sock' # 0
    BY <1>6
  <2>2. \A d \in dials : ~d.left => IF d.by = Ctl THEN ctl.st = "dial" ELSE send'[d.by].st = "dial"
    BY <1>1, <1>2, <1>6
  <2>3. QED BY <1>2, <1>6, <2>1, <2>2 DEF DialsOK
(* Dials that end by a refusal or the relay's stop.                        *)
<1>7. ASSUME NEW bs, DialFailed(bs), sock' = sock, \A b \in bs : \E d \in dials : ~d.left /\ b = d.by,
             dials' \subseteq [by : Diallers, cand : Conns \cup {0}, left : BOOLEAN],
             \A d \in dials' : ~d.left => d \in dials /\ d.by \notin bs
      PROVE  DialsOK'
  <2>1. /\ ctl' = [ctl EXCEPT !.st = ctl'.st] /\ ctl'.st \in {ctl.st, "failed"}
        /\ \A t \in Threads : IF t \in bs THEN Failed(send[t], send'[t]) ELSE send'[t] = send[t]
        /\ IF Ctl \in bs THEN ctl'.st = "failed" ELSE ctl' = ctl
    BY <1>1, <1>7, DialFailedTypes
  <2>2. \A t \in Threads : /\ send'[t].st \in {"connect", "dial"} => sock' = 0
                           /\ send'[t].st \in {"first", "rest"} => sock' # 0
    BY <1>2, <1>5, <1>7, <2>1 DEF Failed
  <2>3. ASSUME NEW d \in dials', ~d.left
        PROVE  IF d.by = Ctl THEN ctl'.st = "dial" ELSE send'[d.by].st = "dial"
    <3>1. d \in dials /\ d.by \notin bs
      BY <1>7, <2>3
    <3>2. CASE d.by = Ctl
      BY <1>2, <2>1, <2>3, <3>1, <3>2
    <3>3. CASE d.by # Ctl
      BY <1>1, <1>2, <2>1, <2>3, <3>1, <3>3
    <3>4. QED BY <3>2, <3>3
  <2>4. \A d, e \in dials' : ~d.left /\ ~e.left /\ d.by = e.by => d = e
    BY <1>2, <1>7
  <2>5. QED BY <2>2, <2>3, <2>4 DEF DialsOK
<1>8. ASSUME NEW t \in Threads, Sends(t) PROVE DialsOK'
  <2>1. send[t] \in Calls
    BY <1>1
  <2>2. CASE BeginSend(t)
    <3>1. /\ send[t].st = "idle" /\ \A u \in Threads : send[u].st = "idle"
          /\ send' = [send EXCEPT ![t].st = IF sock = 0 THEN "connect" ELSE "first"]
          /\ UNCHANGED <<dials, ctl, sock>>
      BY <2>2 DEF BeginSend, LockFree, wire
    <3>2. \A u \in Threads : u # t => send'[u] = send[u] /\ send[u].st = "idle"
      BY <1>1, <3>1
    <3>3. send'[t].st = IF sock = 0 THEN "connect" ELSE "first"
      BY <1>1, <3>1 DEF Calls
    <3>4. QED BY <1>6, <3>1, <3>2, <3>3
  <2>3. CASE Connect(t)
    <3>1. send[t].st = "connect" /\ UNCHANGED ctl /\ sock = 0
      BY <1>2, <2>3 DEF Connect
    <3>2. \A u \in Threads : u # t => send'[u] = send[u] /\ send[u].st = "idle"
      BY <1>1, <1>4, <2>3, <3>1 DEF Connect, Fail
    <3>3. \/ send'[t].st = "first" /\ sock' # 0 /\ UNCHANGED dials
          \/ /\ send'[t].st = "dial" /\ sock' = 0
             /\ dials' = dials \cup {[by |-> t, cand |-> 0, left |-> FALSE]}
          \/ send'[t].st \in {"connect", "idle"} /\ sock' = 0 /\ UNCHANGED dials
      <4>1. Failed(send[t], TryFailed(send[t])) /\ (Free # {} => NewConn # 0)
        BY <1>1, <2>1, FailedCalls, FreshStream
      <4>2. \/ send' = [send EXCEPT ![t].st = "first"] /\ sock' # 0 /\ UNCHANGED dials
            \/ /\ send' = [send EXCEPT ![t].st = "dial"] /\ sock' = sock
               /\ dials' = dials \cup {[by |-> t, cand |-> 0, left |-> FALSE]}
            \/ send' = [send EXCEPT ![t] = TryFailed(send[t])] /\ sock' = sock /\ UNCHANGED dials
        BY <2>3, <4>1 DEF Connect, Fail
      <4>3. QED BY <1>1, <2>1, <3>1, <4>1, <4>2 DEF Calls, Failed
    <3>4. CASE /\ send'[t].st = "dial" /\ sock' = 0
               /\ dials' = dials \cup {[by |-> t, cand |-> 0, left |-> FALSE]}
      <4>1. PICK n : n = [by |-> t, cand |-> 0, left |-> FALSE]
        OBVIOUS
      <4>2. n.by = t /\ dials' = dials \cup {n}
        BY <3>4, <4>1
      <4>3. \A d \in dials : ~d.left => d.by # t
        BY <1>5, <3>1
      <4>4. \A d, e \in dials' : ~d.left /\ ~e.left /\ d.by = e.by => d = e
        BY <1>2, <4>2, <4>3
      <4>5. ASSUME NEW d \in dials', ~d.left
            PROVE  IF d.by = Ctl THEN ctl'.st = "dial" ELSE send'[d.by].st = "dial"
        BY <1>1, <1>2, <3>1, <3>2, <3>4, <4>2, <4>3, <4>5
      <4>6. QED BY <3>2, <3>4, <4>4, <4>5 DEF DialsOK
    <3>5. QED BY <1>6, <3>1, <3>2, <3>3, <3>4
  <2>4. ASSUME NEW p \in {1, 2}, Write(t, p) PROVE DialsOK'
    <3>1. send[t].st \in {"first", "rest"} /\ UNCHANGED <<dials, ctl, sock>> /\ sock # 0
      BY <2>4 DEF Write
    <3>2. \A u \in Threads : u # t => send'[u] = send[u] /\ send[u].st = "idle"
      BY <1>1, <1>4, <2>4, <3>1 DEF Write
    <3>3. send'[t].st \in {"rest", "idle"}
      <4>1. \/ send' = [send EXCEPT ![t].st = "rest"]
            \/ send' = [send EXCEPT ![t] = [n |-> send[t].n + 1, st |-> "idle", attempt |-> 0, tries |-> 0]]
        BY <2>4 DEF Write
      <4>2. QED BY <1>1, <2>1, <4>1 DEF Calls
    <3>4. QED BY <1>6, <3>1, <3>2, <3>3
  <2>5. CASE WriteFails(t)
    <3>1. /\ send[t].st \in {"first", "rest"} /\ UNCHANGED <<dials, ctl>> /\ sock' = 0
          /\ send' = [send EXCEPT ![t] = AttemptFailed(send[t])]
      BY <2>5 DEF WriteFails, Fail
    <3>2. \A u \in Threads : u # t => send'[u] = send[u] /\ send[u].st = "idle"
      BY <1>1, <1>4, <3>1
    <3>3. send'[t].st \in {"connect", "idle"}
      BY <1>1, <2>1, <3>1, FailedCalls DEF Failed
    <3>4. QED BY <1>6, <3>1, <3>2, <3>3
  <2>6. QED BY <1>8, <2>2, <2>3, <2>4, <2>5 DEF Sends
<1>9. ASSUME NEW d \in dials, Dials(d) \/ LeaveDial(d) PROVE DialsOK'
  <2>1. d \in [by : Diallers, cand : Conns \cup {0}, left : BOOLEAN]
    BY <1>1
  <2>2. ASSUME NEW x, UNCHANGED <<send, sock, ctl>>, dials' = (dials \ {d}) \cup {[d EXCEPT !.cand = x]}
        PROVE  DialsOK'
    <3>1. PICK n : n = [d EXCEPT !.cand = x]
      OBVIOUS
    <3>2. n.by = d.by /\ n.left = d.left /\ dials' = (dials \ {d}) \cup {n}
      BY <2>1, <2>2, <3>1
    <3>3. QED BY <1>2, <2>2, <3>2 DEF DialsOK
  <2>3. ASSUME UNCHANGED <<send, sock, ctl>>, dials' \subseteq dials PROVE DialsOK'
    BY <1>2, <2>3 DEF DialsOK
  <2>4. CASE DialPop(d)
    <3>1. UNCHANGED <<send, sock, ctl>>
      BY <2>4 DEF DialPop, sender
    <3>2. dials' = dials \/ \E x : dials' = (dials \ {d}) \cup {[d EXCEPT !.cand = x]}
      BY <2>4 DEF DialPop
    <3>3. QED BY <2>2, <2>3, <3>1, <3>2
  <2>5. CASE DialRefused(d)
    <3>1. dials' = dials \ {d} /\ sock' = sock
      BY <2>5 DEF DialRefused
    <3>2. UNCHANGED <<send, ctl>> \/ (~d.left /\ DialFailed({d.by}))
      BY <2>5 DEF DialRefused
    <3>3. ASSUME ~d.left, DialFailed({d.by}) PROVE DialsOK'
      <4>1. /\ \A b \in {d.by} : \E e \in dials : ~e.left /\ b = e.by
            /\ dials' \subseteq [by : Diallers, cand : Conns \cup {0}, left : BOOLEAN]
            /\ \A e \in dials' : ~e.left => e \in dials /\ e.by \notin {d.by}
        BY <1>1, <1>2, <3>1, <3>3
      <4>2. QED BY <1>7, <3>1, <3>3, <4>1
    <3>4. QED BY <2>3, <3>1, <3>2, <3>3
  <2>6. CASE DialHand(d)
    <3>1. \/ UNCHANGED <<send, sock, ctl>> /\ dials' = (dials \ {d}) \cup {[d EXCEPT !.cand = 0]}
          \/ UNCHANGED <<send, sock, ctl>> /\ dials' = dials \ {d}
          \/ /\ ~d.left /\ dials' = dials \ {d} /\ UNCHANGED <<sock, send>>
             /\ d.by = Ctl /\ ctl' = [ctl EXCEPT !.st = "wait", !.at = d.cand]
          \/ /\ ~d.left /\ dials' = dials \ {d} /\ UNCHANGED ctl
             /\ d.by # Ctl /\ sock' = d.cand /\ send' = [send EXCEPT ![d.by].st = "first"]
      BY <2>6 DEF DialHand, Answered
    <3>2. CASE ~d.left /\ dials' = dials \ {d} /\ UNCHANGED <<sock, send>> /\ d.by = Ctl
      <4>1. \A e \in dials' : ~e.left => e.by # Ctl
        BY <1>2, <3>2
      <4>2. QED BY <1>2, <3>2, <4>1 DEF DialsOK
    <3>3. CASE /\ ~d.left /\ dials' = dials \ {d} /\ UNCHANGED ctl
               /\ d.by # Ctl /\ sock' = d.cand /\ send' = [send EXCEPT ![d.by].st = "first"]
      <4>1. PICK t \in Threads : t = d.by
        BY <1>1, <3>3
      <4>2. \A e \in dials' : ~e.left => e \in dials /\ e.by # t
        BY <1>2, <3>3, <4>1
      <4>3. send'[t].st = "first" /\ \A u \in Threads : u # t => send'[u] = send[u] /\ send[u].st = "idle"
        <5>1. send[t].st = "dial" /\ send[t] \in Calls
          BY <1>1, <1>5, <3>3, <4>1
        <5>2. QED BY <1>1, <1>4, <3>3, <4>1, <5>1 DEF Calls
      <4>4. sock' # 0
        BY <2>6, <3>3 DEF DialHand
      <4>5. \A e \in dials' : ~e.left => IF e.by = Ctl THEN ctl'.st = "dial" ELSE send'[e.by].st = "dial"
        BY <1>1, <1>2, <3>3, <4>2, <4>3
      <4>6. \A e, g \in dials' : ~e.left /\ ~g.left /\ e.by = g.by => e = g
        BY <1>2, <4>2
      <4>7. \A u \in Threads : /\ send'[u].st \in {"connect", "dial"} => sock' = 0
                               /\ send'[u].st \in {"first", "rest"} => sock' # 0
        BY <4>3, <4>4
      <4>8. QED BY <4>5, <4>6, <4>7 DEF DialsOK
    <3>4. QED BY <2>2, <2>3, <3>1, <3>2, <3>3
  <2>7. CASE LeaveDial(d)
    <3>1. /\ ~d.left /\ dials' = (dials \ {d}) \cup {[d EXCEPT !.left = TRUE]} /\ sock' = sock
          /\ DialFailed({d.by})
      BY <2>7 DEF LeaveDial
    <3>2. PICK n : n = [d EXCEPT !.left = TRUE]
      OBVIOUS
    <3>3. n.left /\ n \in [by : Diallers, cand : Conns \cup {0}, left : BOOLEAN]
      BY <2>1, <3>2
    <3>4. dials' = (dials \ {d}) \cup {n}
      BY <3>1, <3>2
    <3>5. /\ \A b \in {d.by} : \E e \in dials : ~e.left /\ b = e.by
          /\ dials' \subseteq [by : Diallers, cand : Conns \cup {0}, left : BOOLEAN]
          /\ \A e \in dials' : ~e.left => e \in dials /\ e.by \notin {d.by}
      BY <1>1, <1>2, <3>1, <3>3, <3>4
    <3>6. QED BY <1>7, <3>1, <3>5
  <2>8. QED BY <1>9, <2>4, <2>5, <2>6, <2>7 DEF Dials
<1>10. ASSUME NEW c \in Conns, Serves(c) \/ Notice(c) PROVE UNCHANGED <<send, sock, dials, ctl>>
  BY <1>10 DEF Serves, ParkerWakes, Accept, ReadData, ReadEnds, ConfigureBegins, Notice, sender
<1>11. ASSUME NEW k \in Configs, Applies(k) \/ LoadFails(k) PROVE UNCHANGED <<send, sock, dials, ctl>>
  BY <1>11 DEF Applies, Load, Replace, LoadFails, sender, wire
<1>12. ASSUME Park \/ RelayStarts \/ Restart PROVE UNCHANGED <<send, sock, dials, ctl>>
  BY <1>12 DEF Park, RelayStarts, Restart, sender
<1>13. ASSUME StartConfigure \/ Answer \/ GiveUp PROVE UNCHANGED <<send, sock, dials>> /\ ctl.st # "dial"
  BY <1>13 DEF StartConfigure, Answer, GiveUp, HangUp, sender, wire
<1>14. CASE Call
  <2>1. ctl.st = "connect" /\ UNCHANGED <<send, sock>>
    BY <1>14 DEF Call, sender
  <2>2. \A d \in dials : ~d.left => d.by # Ctl
    BY <1>2, <2>1
  <2>3. \/ dials' = dials
        \/ /\ dials' = dials \cup {[by |-> Ctl, cand |-> 0, left |-> FALSE]}
           /\ ctl' = [ctl EXCEPT !.st = "dial"]
    BY <1>14 DEF Call
  <2>4. CASE dials' = dials
    BY <1>3, <2>1, <2>4
  <2>5. CASE /\ dials' = dials \cup {[by |-> Ctl, cand |-> 0, left |-> FALSE]}
             /\ ctl' = [ctl EXCEPT !.st = "dial"]
    <3>1. PICK n : n = [by |-> Ctl, cand |-> 0, left |-> FALSE]
      OBVIOUS
    <3>2. n.by = Ctl /\ dials' = dials \cup {n} /\ ctl'.st = "dial"
      BY <1>1, <2>5, <3>1
    <3>3. QED BY <1>2, <2>1, <2>2, <3>2 DEF DialsOK
  <2>6. QED BY <2>3, <2>4, <2>5
<1>15. ASSUME NEW l \in {"gone", "reset"}, Crash(l) PROVE UNCHANGED <<send, sock, dials, ctl>>
  BY <1>15 DEF Crash, sender
<1>16. ASSUME NEW l \in {"gone", "reset"}, NEW k \in 0..2, RelayStops(k, l) PROVE DialsOK'
  <2>1. DialFailed({d.by : d \in {x \in dials : ~x.left}}) /\ dials' = {} /\ sock' = sock
    BY <1>16 DEF RelayStops
  <2>2. \A b \in {d.by : d \in {x \in dials : ~x.left}} : \E d \in dials : ~d.left /\ b = d.by
    OBVIOUS
  <2>3. QED BY <1>7, <2>1, <2>2
<1>17. ASSUME NEW l \in {"gone", "reset"}, NEW k \in 0..2, NEW c \in Conns, Break(c, k, l)
       PROVE  UNCHANGED <<send, sock, dials, ctl>>
  BY <1>17 DEF Break, sender
<1>18. CASE UNCHANGED vars
  BY <1>3, <1>18 DEF vars, sender, wire
<1>19. QED
  BY <1>3, <1>8, <1>9, <1>10, <1>11, <1>12, <1>13, <1>14, <1>15, <1>16, <1>17, <1>18 DEF Next, Faults

-----------------------------------------------------------------------------
(* The writing ends *)

(* A stream goes on with the end that writes as it was.                    *)
Calm(s, r) ==
    /\ r.near = s.near
    /\ r.reply = s.reply \/ r.reply = "none" \/ s.near = "open"
    /\ s.q = <<>> /\ s.near = "relay" => r.q = <<>>

LEMMA NoFrames ==
    ASSUME NEW p, Start(p, <<>>)
    PROVE  p = <<>>
<1>1. p \in Seq(Frames) /\ \A i \in DOMAIN p : i \in DOMAIN <<>>
  BY DEF Start
<1>2. DOMAIN p = 1..Len(p) /\ Len(p) \in Nat /\ <<>> \in Seq(Frames) /\ Len(<<>>) = 0
  BY <1>1, LenProperties, EmptySeq
<1>3. DOMAIN <<>> = 1..0
  BY <1>2, LenProperties
<1>4. Len(p) = 0
  <2>1. ASSUME Len(p) # 0 PROVE FALSE
    <3>1. 1 \in DOMAIN p
      BY <1>2, <2>1
    <3>2. QED BY <1>1, <1>3, <3>1
  <2>2. QED BY <2>1
<1>5. QED BY <1>1, <1>4, EmptySeq

LEMMA NearKept ==
    ASSUME Base, conn' \in [Conns -> StreamType], UNCHANGED <<sock, parked>>,
           ctl' = ctl \/ ctl'.st # "wait",
           \A c \in Conns : Calm(conn[c], conn'[c]),
           dials' \subseteq [by : Diallers, cand : Conns \cup {0}, left : BOOLEAN],
           \A d \in dials' : d.cand # 0 => \E e \in dials : e.cand = d.cand,
           \A d, e \in dials' : d.cand # 0 /\ d.cand = e.cand => d = e
    PROVE  NearOK'
<1>1. NearOK /\ sock \in Conns \cup {0} /\ parked \in Seq(Conns) /\ 0 \notin Conns
  BY Constants DEF Base, Types, WireTypes, SendTypes
<1>2. ctl.st = "wait" => ctl.at \in Conns
  BY DEF Base, Types, CtlTypes
<1>3. ToSet(parked) \subseteq Conns
  BY <1>1, ElementsOfQueue
<1>4. \A c \in Conns : conn'[c].near = conn[c].near
  BY DEF Calm
<1>5. (sock # 0 => conn[sock].near = "open")'
  BY <1>1, <1>4 DEF NearOK
<1>6. (ctl.st = "wait" => conn[ctl.at].near = "open" /\ ctl.at # sock)'
  BY <1>1, <1>2, <1>4 DEF NearOK
<1>7. (IsInjective(parked) /\ \A c \in ToSet(parked) : conn[c].near = "relay")'
  BY <1>1, <1>3, <1>4 DEF NearOK
<1>8. ASSUME NEW d \in dials', d.cand # 0
      PROVE  conn'[d.cand].near = "relay" /\ d.cand \notin ToSet(parked')
  <2>1. PICK e \in dials : e.cand = d.cand
    BY <1>8
  <2>2. d.cand \in Conns
    BY <1>8
  <2>3. QED BY <1>1, <1>4, <1>8, <2>1, <2>2 DEF NearOK
<1>9. ASSUME NEW c \in Conns
      PROVE  /\ conn'[c].near # "open" => conn'[c].reply = "none"
             /\ conn'[c].near = "relay" => conn'[c].q = <<>>
  BY <1>1 DEF NearOK, Calm
<1>10. QED BY <1>5, <1>6, <1>7, <1>8, <1>9 DEF NearOK

LEMMA CalmSteps ==
    ASSUME Base, [Next]_vars, UNCHANGED <<sock, parked, dials>>, ctl' = ctl \/ ctl'.st # "wait",
           \A c \in Conns : Calm(conn[c], conn'[c])
    PROVE  NearOK'
<1>1. /\ conn' \in [Conns -> StreamType]
      /\ dials' \subseteq [by : Diallers, cand : Conns \cup {0}, left : BOOLEAN]
  BY TypesStep DEF Types, WireTypes
<1>2. \A d, e \in dials : d.cand # 0 /\ d.cand = e.cand => d = e
  BY DEF Base, NearOK
<1>3. QED BY <1>1, <1>2, NearKept

LEMMA CalmStreams ==
    ASSUME NEW s \in StreamType
    PROVE  /\ Calm(s, s)
           /\ \A l \in {"gone", "reset"} : Calm(s, CloseFar(s, l))
           /\ \A k \in Nat : \A l \in {"gone", "reset"} : \A e \in BOOLEAN : Calm(s, Cut(s, k, l, e))
           /\ \A f \in Frames : s.near = "open" => Calm(s, Written(s, f))
           /\ Calm(s, [s EXCEPT !.far = "ready"]) /\ Calm(s, [s EXCEPT !.far = "serving"])
           /\ Calm(s, [s EXCEPT !.link = "reset"])
           /\ WholeHead(s.q) => Calm(s, [s EXCEPT !.q = Rest(s.q)])
           /\ \A r \in {"ack", "error"} :
                Calm(s, [s EXCEPT !.reply = IF s.near = "open" /\ s.link = "up" THEN r ELSE @])
<1>1. Calm(s, s)
  BY DEF Calm
<1>2. ASSUME NEW l \in {"gone", "reset"} PROVE Calm(s, CloseFar(s, l))
  BY FarClosed DEF Calm
<1>3. ASSUME NEW k \in Nat, NEW l \in {"gone", "reset"}, NEW e \in BOOLEAN
      PROVE  Calm(s, Cut(s, k, l, e))
  <2>1. /\ Cut(s, k, l, e).near = s.near /\ Cut(s, k, l, e).reply = s.reply
        /\ Start(Cut(s, k, l, e).q, s.q)
    BY CutOff
  <2>2. s.q = <<>> => Cut(s, k, l, e).q = <<>>
    BY <2>1, NoFrames
  <2>3. QED BY <2>1, <2>2 DEF Calm
<1>4. ASSUME NEW f \in Frames, s.near = "open" PROVE Calm(s, Written(s, f))
  BY <1>4, WrittenTo DEF Calm
<1>5. /\ Calm(s, [s EXCEPT !.far = "ready"]) /\ Calm(s, [s EXCEPT !.far = "serving"])
      /\ Calm(s, [s EXCEPT !.link = "reset"])
      /\ \A r \in {"ack", "error"} :
           Calm(s, [s EXCEPT !.reply = IF s.near = "open" /\ s.link = "up" THEN r ELSE @])
  BY DEF Calm, StreamType
<1>6. WholeHead(s.q) => Calm(s, [s EXCEPT !.q = Rest(s.q)])
  BY DEF Calm, StreamType, WholeHead
<1>7. QED BY <1>1, <1>2, <1>3, <1>4, <1>5, <1>6

(* The end of one stream changes hands or is closed.                       *)
LEMMA OneStreamChanges ==
    ASSUME Base, NEW c \in Conns, NEW s \in StreamType, conn' = [conn EXCEPT ![c] = s],
           s.near # "open" => s.reply = "none",
           s.near = "relay" => s.q = <<>>
    PROVE  /\ conn'[c] = s /\ \A d \in Conns : d # c => conn'[d] = conn[d]
           /\ \A d \in Conns : conn'[d].near # "open" => conn'[d].reply = "none"
           /\ \A d \in Conns : conn'[d].near = "relay" => conn'[d].q = <<>>
<1>1. conn'[c] = s /\ \A d \in Conns : d # c => conn'[d] = conn[d]
  BY DEF Base, Types, WireTypes
<1>2. QED BY <1>1 DEF Base, NearOK

LEMMA NearStep ==
    ASSUME Base, [Next]_vars
    PROVE  NearOK'
<1>1. /\ conn \in [Conns -> StreamType] /\ conn' \in [Conns -> StreamType]
      /\ dials \subseteq [by : Diallers, cand : Conns \cup {0}, left : BOOLEAN]
      /\ dials' \subseteq [by : Diallers, cand : Conns \cup {0}, left : BOOLEAN]
      /\ parked \in Seq(Conns) /\ ToSet(parked) \subseteq Conns
      /\ sock \in Conns \cup {0} /\ 0 \notin Conns
      /\ ctl \in [k : Configs \cup {0}, at : Conns \cup {0},
                  st : {"idle", "connect", "dial", "wait", "acked", "failed"}]
  BY TypesStep, Constants, ElementsOfQueue DEF Base, Types, SendTypes, WireTypes, CtlTypes
<1>2. ctl.st = "wait" => ctl.at \in Conns
  BY DEF Base, Types, CtlTypes
<1>3. NearOK /\ Types
  BY DEF Base
<1>4. \A d, e \in dials : d.cand # 0 /\ d.cand = e.cand => d = e
  BY <1>3 DEF NearOK
<1>5. \A c \in Conns : conn[c] \in StreamType /\ Calm(conn[c], conn[c])
  BY <1>1, CalmStreams
<1>6. ASSUME UNCHANGED <<conn, sock, parked, dials>>, ctl' = ctl \/ ctl'.st # "wait" PROVE NearOK'
  BY <1>5, <1>6, CalmSteps
<1>7. ASSUME NEW c \in Conns, NEW s \in StreamType, conn' = [conn EXCEPT ![c] = s],
             Calm(conn[c], s), UNCHANGED <<sock, parked, dials>>, ctl' = ctl
      PROVE  NearOK'
  <2>1. \A d \in Conns : Calm(conn[d], conn'[d])
    BY <1>1, <1>5, <1>7
  <2>2. QED BY <1>7, <2>1, CalmSteps
<1>8. ASSUME UNCHANGED <<conn, sock, parked>>, ctl' = ctl \/ ctl'.st # "wait",
             \A d \in dials' : d.cand # 0 => \E e \in dials : e.cand = d.cand,
             \A d, e \in dials' : d.cand # 0 /\ d.cand = e.cand => d = e
      PROVE  NearOK'
  BY <1>1, <1>5, <1>8, NearKept
<1>9. ASSUME NEW bs, DialFailed(bs) PROVE ctl' = ctl \/ ctl'.st # "wait"
  <2>1. IF Ctl \in bs THEN ctl'.st = "failed" ELSE ctl' = ctl
    BY <1>3, <1>9, DialFailedTypes
  <2>2. QED BY <2>1
(* A stream nobody used is opened by its user.                             *)
<1>10. ASSUME Free # {}
       PROVE  /\ NewConn \in Conns /\ conn[NewConn].near = "closed" /\ NewConn # sock
              /\ NewConn \notin ToSet(parked)
              /\ \A d \in dials : d.cand # NewConn
              /\ ctl.st = "wait" => ctl.at # NewConn
  <2>1. NewConn \in Conns /\ conn[NewConn].near = "closed"
    BY <1>10, FreshStream, UnusedStream
  <2>2. QED BY <1>1, <1>3, <2>1 DEF NearOK
<1>11. ASSUME NEW t \in Threads, Sends(t) PROVE NearOK'
  <2>1. CASE BeginSend(t)
    BY <1>6, <2>1 DEF BeginSend, wire
  <2>2. CASE Connect(t)
    <3>1. UNCHANGED <<parked, ctl>> /\ sock = 0
      BY <2>2 DEF Connect, Base, DialsOK
    <3>2. \/ /\ Free # {} /\ conn' = [conn EXCEPT ![NewConn] = Connected]
             /\ sock' = NewConn /\ UNCHANGED dials
          \/ /\ UNCHANGED <<conn, sock>>
             /\ dials' = dials \cup {[by |-> t, cand |-> 0, left |-> FALSE]}
          \/ UNCHANGED <<conn, sock, dials>>
      BY <2>2 DEF Connect
    <3>3. CASE /\ Free # {} /\ conn' = [conn EXCEPT ![NewConn] = Connected]
               /\ sock' = NewConn /\ UNCHANGED dials
      <4>1. /\ conn'[NewConn] = Connected /\ \A d \in Conns : d # NewConn => conn'[d] = conn[d]
            /\ \A d \in Conns : conn'[d].near # "open" => conn'[d].reply = "none"
            /\ \A d \in Conns : conn'[d].near = "relay" => conn'[d].q = <<>>
        BY <1>10, <3>3, OneStreamChanges, UnusedStream
      <4>2. Connected.near = "open"
        BY UnusedStream
      <4>3. QED BY <1>1, <1>2, <1>3, <1>10, <3>1, <3>3, <4>1, <4>2 DEF NearOK
    <3>4. CASE UNCHANGED <<conn, sock>> /\ dials' = dials \cup {[by |-> t, cand |-> 0, left |-> FALSE]}
      BY <1>4, <1>8, <3>1, <3>4
    <3>5. CASE UNCHANGED <<conn, sock, dials>>
      BY <1>6, <3>1, <3>5
    <3>6. QED BY <3>2, <3>3, <3>4, <3>5
  <2>3. ASSUME NEW p \in {1, 2}, Write(t, p) PROVE NearOK'
    <3>1. /\ sock \in Conns /\ send[t].st # "idle" /\ conn[sock].near = "open"
          /\ UNCHANGED <<sock, parked, dials, ctl>>
      BY <1>1, <1>3, <2>3 DEF Write, NearOK
    <3>2. Frame("data", Current(t), p) \in Frames
      <4>1. send[t].n \in 1..Len(Script[t])
        BY <3>1, Scripts DEF Base, CallsOK
      <4>2. QED BY <4>1, Scripts, FramesOf DEF Current
    <3>3. conn' = [conn EXCEPT ![sock] = Written(conn[sock], Frame("data", Current(t), p))]
      BY <2>3 DEF Write
    <3>4. Calm(conn[sock], Written(conn[sock], Frame("data", Current(t), p)))
      BY <1>5, <3>1, <3>2, CalmStreams
    <3>5. Written(conn[sock], Frame("data", Current(t), p)) \in StreamType
      BY <1>5, <3>1, <3>2, WrittenTo
    <3>6. QED BY <1>7, <3>1, <3>3, <3>4, <3>5
  <2>4. CASE WriteFails(t)
    <3>1. sock \in Conns /\ conn' = [conn EXCEPT ![sock] = CloseNear(conn[sock])]
      BY <1>1, <2>4 DEF WriteFails
    <3>2. sock' = 0 /\ UNCHANGED <<parked, dials, ctl>>
      BY <2>4 DEF WriteFails
    <3>3. CloseNear(conn[sock]) \in StreamType /\ CloseNear(conn[sock]).near = "closed"
          /\ CloseNear(conn[sock]).reply = "none"
      BY <1>5, <3>1, NearClosed
    <3>4. /\ \A d \in Conns : d # sock => conn'[d] = conn[d]
          /\ \A d \in Conns : conn'[d].near # "open" => conn'[d].reply = "none"
          /\ \A d \in Conns : conn'[d].near = "relay" => conn'[d].q = <<>>
      BY <3>1, <3>3, OneStreamChanges
    <3>5. conn[sock].near = "open"
      BY <1>1, <1>3, <3>1 DEF NearOK
    <3>6. QED BY <1>1, <1>2, <1>3, <3>1, <3>2, <3>4, <3>5 DEF NearOK
  <2>5. QED BY <1>11, <2>1, <2>2, <2>3, <2>4 DEF Sends
<1>12. ASSUME NEW d \in dials, Dials(d) \/ LeaveDial(d) PROVE NearOK'
  <2>1. d \in [by : Diallers, cand : Conns \cup {0}, left : BOOLEAN]
    BY <1>1
  <2>2. CASE DialPop(d)
    <3>1. /\ d.cand = 0 /\ parked # <<>> /\ parked' = SubSeq(parked, 2, Len(parked))
          /\ UNCHANGED <<sock, ctl>>
      BY <2>2 DEF DialPop, sender
    <3>2. PICK h : h = Head(parked)
      OBVIOUS
    <3>3. IsInjective(parked)
      BY <1>3 DEF NearOK
    <3>4. parked' = Tail(parked)
      BY <3>1
    <3>5. /\ h \in Conns /\ h \in ToSet(parked) /\ IsInjective(parked') /\ h \notin ToSet(parked')
          /\ ToSet(parked) = ToSet(parked') \cup {h}
      <4>1. parked \in Seq(Conns) /\ parked # <<>>
        BY <1>1, <3>1
      <4>2. /\ Head(parked) \in Conns /\ Head(parked) \in ToSet(parked)
            /\ ToSet(parked) = ToSet(Tail(parked)) \cup {Head(parked)}
            /\ IsInjective(Tail(parked)) /\ Head(parked) \notin ToSet(Tail(parked))
        BY <3>3, <4>1, TailOfQueue
      <4>3. QED BY <3>2, <3>4, <4>2
    <3>6. conn[h].near = "relay"
      BY <1>3, <3>5 DEF NearOK
    <3>7. CASE conn' = [conn EXCEPT ![h] = CloseNear(conn[h])] /\ dials' = dials
      <4>1. CloseNear(conn[h]) \in StreamType /\ CloseNear(conn[h]).near = "closed"
            /\ CloseNear(conn[h]).reply = "none"
        BY <1>5, <3>5, NearClosed
      <4>2. /\ \A e \in Conns : e # h => conn'[e] = conn[e]
            /\ \A e \in Conns : conn'[e].near # "open" => conn'[e].reply = "none"
            /\ \A e \in Conns : conn'[e].near = "relay" => conn'[e].q = <<>>
        BY <3>5, <3>7, <4>1, OneStreamChanges
      <4>3. /\ sock # h /\ (ctl.st = "wait" => ctl.at # h)
            /\ \A e \in dials : e.cand # h
        BY <1>1, <1>3, <3>5, <3>6 DEF NearOK
      <4>4. /\ sock # 0 => conn'[sock].near = "open"
            /\ ctl.st = "wait" => conn'[ctl.at].near = "open" /\ ctl.at # sock
        BY <1>1, <1>2, <1>3, <4>2, <4>3 DEF NearOK
      <4>5. \A e \in dials : e.cand # 0 => conn'[e.cand].near = "relay" /\ e.cand \notin ToSet(parked')
        BY <1>1, <1>3, <3>5, <4>2, <4>3 DEF NearOK
      <4>6. \A c \in ToSet(parked') : conn'[c].near = "relay"
        BY <1>1, <1>3, <3>5, <4>2 DEF NearOK
      <4>7. QED BY <1>4, <3>1, <3>5, <3>7, <4>2, <4>4, <4>5, <4>6 DEF NearOK
    <3>8. CASE dials' = (dials \ {d}) \cup {[d EXCEPT !.cand = h]} /\ conn' = conn
      <4>1. PICK n : n = [d EXCEPT !.cand = h]
        OBVIOUS
      <4>2. n.cand = h /\ dials' = (dials \ {d}) \cup {n}
        BY <2>1, <3>8, <4>1
      <4>3. \A e \in dials : e.cand # h
        BY <1>1, <1>3, <3>5 DEF NearOK
      <4>4. \A e, g \in dials' : e.cand # 0 /\ e.cand = g.cand => e = g
        BY <1>4, <4>2, <4>3
      <4>5. \A e \in dials' : e.cand # 0 => conn[e.cand].near = "relay" /\ e.cand \notin ToSet(parked')
        BY <1>3, <3>5, <3>6, <4>2 DEF NearOK
      <4>6. QED BY <1>3, <3>1, <3>5, <3>8, <4>4, <4>5 DEF NearOK
    <3>9. \/ conn' = [conn EXCEPT ![h] = CloseNear(conn[h])] /\ dials' = dials
          \/ dials' = (dials \ {d}) \cup {[d EXCEPT !.cand = h]} /\ conn' = conn
      BY <2>2, <3>2 DEF DialPop
    <3>10. QED BY <3>7, <3>8, <3>9
  <2>3. CASE DialRefused(d)
    <3>1. UNCHANGED <<conn, sock, parked>> /\ dials' \subseteq dials
      BY <2>3 DEF DialRefused
    <3>2. ctl' = ctl \/ DialFailed({d.by})
      BY <2>3 DEF DialRefused
    <3>3. ctl' = ctl \/ ctl'.st # "wait"
      BY <1>9, <3>2
    <3>4. QED BY <1>4, <1>8, <3>1, <3>3
  <2>4. CASE LeaveDial(d)
    <3>1. /\ UNCHANGED <<conn, sock, parked>> /\ DialFailed({d.by})
          /\ dials' = (dials \ {d}) \cup {[d EXCEPT !.left = TRUE]}
      BY <2>4 DEF LeaveDial
    <3>2. PICK n : n = [d EXCEPT !.left = TRUE]
      OBVIOUS
    <3>3. n.cand = d.cand /\ dials' = (dials \ {d}) \cup {n}
      BY <2>1, <3>1, <3>2
    <3>4. ctl' = ctl \/ ctl'.st # "wait"
      BY <1>9, <3>1
    <3>5. /\ \A e \in dials' : e.cand # 0 => \E g \in dials : g.cand = e.cand
          /\ \A e, g \in dials' : e.cand # 0 /\ e.cand = g.cand => e = g
      BY <1>4, <3>3
    <3>6. QED BY <1>8, <3>1, <3>4, <3>5
  <2>5. CASE DialHand(d)
    <3> DEFINE called == [conn[d.cand] EXCEPT !.near = "open",
                            !.far = IF @ = "parked" /\ conn[d.cand].link = "up" THEN "called" ELSE @]
    <3>1. PICK c \in Conns : c = d.cand
      BY <2>1, <2>5 DEF DialHand
    <3>2. /\ conn[c].near = "relay" /\ c \notin ToSet(parked) /\ c # sock
          /\ ctl.st = "wait" => ctl.at # c
      BY <1>1, <1>3, <3>1 DEF NearOK
    <3>3. UNCHANGED parked
      BY <2>5 DEF DialHand
    <3>4. called \in StreamType /\ called.near = "open" /\ CloseNear(called) \in StreamType
          /\ CloseNear(called).near = "closed" /\ CloseNear(called).reply = "none"
      <4>1. called \in StreamType /\ called.near = "open"
        BY <1>5, <3>1 DEF StreamType
      <4>2. QED BY <4>1, NearClosed
    <3>5. CloseNear(conn[c]) \in StreamType /\ CloseNear(conn[c]).near = "closed"
          /\ CloseNear(conn[c]).reply = "none"
      BY <1>5, NearClosed
    <3>6. \/ /\ conn' = [conn EXCEPT ![c] = CloseNear(conn[c])] /\ UNCHANGED <<ctl, sock>>
             /\ dials' = (dials \ {d}) \cup {[d EXCEPT !.cand = 0]}
          \/ /\ conn' = [conn EXCEPT ![c] = CloseNear(called)] /\ UNCHANGED <<ctl, sock>>
             /\ dials' = dials \ {d}
          \/ ~d.left /\ Answered(d.by, c, called) /\ dials' = dials \ {d}
      BY <2>5, <3>1 DEF DialHand
    <3> HIDE DEF called
    <3>7. \A e \in dials' : e.cand # 0 => e \in dials /\ e # d /\ e.cand # c
      <4>1. \/ dials' = (dials \ {d}) \cup {[d EXCEPT !.cand = 0]} \/ dials' = dials \ {d}
        BY <3>6
      <4>2. [d EXCEPT !.cand = 0].cand = 0
        BY <2>1
      <4>3. QED BY <1>4, <2>5, <3>1, <4>1, <4>2 DEF DialHand
    <3>8. ASSUME NEW s \in StreamType, conn' = [conn EXCEPT ![c] = s], s.near # "relay",
                 s.near # "open" => s.reply = "none",
                 \/ UNCHANGED <<ctl, sock>>
                 \/ s.near = "open" /\ sock' = sock /\ ctl'.at = c
                 \/ s.near = "open" /\ sock' = c /\ ctl' = ctl
          PROVE  NearOK'
      <4>1. /\ conn'[c] = s /\ \A e \in Conns : e # c => conn'[e] = conn[e]
            /\ \A e \in Conns : conn'[e].near # "open" => conn'[e].reply = "none"
            /\ \A e \in Conns : conn'[e].near = "relay" => conn'[e].q = <<>>
        BY <3>8, OneStreamChanges
      <4>2. \A e \in dials' : e.cand # 0 => conn'[e.cand].near = "relay" /\ e.cand \notin ToSet(parked)
        BY <1>1, <1>3, <3>7, <4>1 DEF NearOK
      <4>3. \A e \in ToSet(parked) : conn'[e].near = "relay"
        BY <1>1, <1>3, <3>2, <4>1 DEF NearOK
      <4>4. /\ sock' # 0 => conn'[sock'].near = "open"
            /\ ctl'.st = "wait" => conn'[ctl'.at].near = "open" /\ ctl'.at # sock'
        BY <1>1, <1>2, <1>3, <3>2, <3>8, <4>1 DEF NearOK
      <4>5. \A e, g \in dials' : e.cand # 0 /\ e.cand = g.cand => e = g
        BY <1>4, <3>7
      <4>6. QED BY <1>3, <3>3, <4>1, <4>2, <4>3, <4>4, <4>5 DEF NearOK
    <3>9. ASSUME ~d.left, Answered(d.by, c, called) PROVE NearOK'
      <4>1. CASE d.by = Ctl
        <5>1. ctl.k \in Configs
          BY <3>9, <4>1 DEF Base, DialsOK, Types, CtlTypes
        <5>2. PICK f \in Frames : f = Frame("configure", ctl.k, 2)
          BY <5>1, FramesOf
        <5>3. conn' = [conn EXCEPT ![c] = Written(called, f)] /\ sock' = sock
              /\ ctl' = [ctl EXCEPT !.st = "wait", !.at = c]
          BY <3>9, <4>1, <5>2 DEF Answered
        <5>4. Written(called, f) \in StreamType /\ Written(called, f).near = "open"
          BY <3>4, WrittenTo
        <5>5. ctl'.at = c
          BY <1>1, <5>3
        <5>6. QED BY <3>8, <5>3, <5>4, <5>5
      <4>2. CASE d.by # Ctl
        <5>1. conn' = [conn EXCEPT ![c] = called] /\ sock' = c /\ ctl' = ctl
          BY <3>9, <4>2 DEF Answered
        <5>2. QED BY <3>4, <3>8, <5>1
      <4>3. QED BY <4>1, <4>2
    <3>10. QED BY <3>4, <3>5, <3>6, <3>8, <3>9
  <2>6. QED BY <1>12, <2>2, <2>3, <2>4, <2>5 DEF Dials
<1>13. ASSUME NEW c \in Conns, Serves(c) \/ Notice(c) PROVE NearOK'
  <2>1. UNCHANGED <<sock, parked, dials, ctl>>
    BY <1>13 DEF Serves, ParkerWakes, Accept, ReadData, ReadEnds, ConfigureBegins, Notice, sender
  <2>2. \E s : conn' = [conn EXCEPT ![c] = s] /\ Calm(conn[c], s)
    <3>1. CASE ParkerWakes(c)
      <4>1. \/ conn' = [conn EXCEPT ![c] = [conn[c] EXCEPT !.far = "ready"]]
            \/ conn' = [conn EXCEPT ![c] = CloseFar(conn[c], "reset")]
        BY <1>1, <3>1 DEF ParkerWakes
      <4>2. QED BY <1>5, <4>1, CalmStreams
    <3>2. CASE Accept(c)
      <4>1. conn' = [conn EXCEPT ![c] = [conn[c] EXCEPT !.far = "serving"]]
        BY <3>2 DEF Accept
      <4>2. QED BY <1>5, <4>1, CalmStreams
    <3>3. CASE ReadData(c) \/ ConfigureBegins(c)
      <4>1. /\ WholeHead(conn[c].q)
            /\ conn' = [conn EXCEPT ![c] = [conn[c] EXCEPT !.q = Rest(conn[c].q)]]
        BY <3>3 DEF ReadData, ConfigureBegins
      <4>2. QED BY <1>5, <4>1, CalmStreams
    <3>4. CASE ReadEnds(c)
      <4>1. conn' = [conn EXCEPT ![c] = CloseFar(conn[c], "reset")]
        BY <3>4 DEF ReadEnds
      <4>2. QED BY <1>5, <4>1, CalmStreams
    <3>5. CASE Notice(c)
      <4>1. conn' = [conn EXCEPT ![c] = [conn[c] EXCEPT !.link = "reset"]]
        BY <3>5 DEF Notice
      <4>2. QED BY <1>5, <4>1, CalmStreams
    <3>6. QED BY <1>13, <3>1, <3>2, <3>3, <3>4, <3>5 DEF Serves
  <2>3. PICK s : conn' = [conn EXCEPT ![c] = s] /\ Calm(conn[c], s)
    BY <2>2
  <2>4. \A d \in Conns : Calm(conn[d], conn'[d])
    BY <1>1, <1>5, <2>3
  <2>5. QED BY <2>1, <2>4, CalmSteps
<1>14. ASSUME NEW k \in Configs, Applies(k) \/ LoadFails(k) PROVE NearOK'
  <2>1. CASE Load(k)
    BY <1>6, <2>1 DEF Load, wire, sender
  <2>2. CASE Replace(k) \/ LoadFails(k)
    <3>1. UNCHANGED <<sock, parked, dials, ctl>>
      BY <2>2 DEF Replace, LoadFails, sender
    <3>2. PICK r \in {"ack", "error"} : Reply(job[k].at, r)
      BY <2>2 DEF Replace, LoadFails
    <3>3. PICK c \in Conns : c = job[k].at
      <4>1. job[k].st # "idle"
        BY <2>2 DEF Replace, LoadFails
      <4>2. QED BY <4>1 DEF Base, Types, NodeTypes
    <3>4. conn' = [conn EXCEPT ![c] = [conn[c] EXCEPT !.reply =
                      IF conn[c].near = "open" /\ conn[c].link = "up" THEN r ELSE @]]
      BY <1>1, <3>2, <3>3 DEF Reply
    <3>5. \A d \in Conns : Calm(conn[d], conn'[d])
      BY <1>1, <1>5, <3>4, CalmStreams
    <3>6. QED BY <3>1, <3>5, CalmSteps
  <2>3. QED BY <1>14, <2>1, <2>2 DEF Applies
<1>15. CASE Park
  <2>1. PICK c \in Conns : c = NewConn
    BY <1>10, <1>15 DEF Park
  <2>2. /\ conn' = [conn EXCEPT ![c] = Parked] /\ parked' = Append(parked, c)
        /\ UNCHANGED <<sock, dials, ctl>>
    BY <1>15, <2>1 DEF Park, sender
  <2>3. /\ conn'[c] = Parked /\ \A d \in Conns : d # c => conn'[d] = conn[d]
        /\ \A d \in Conns : conn'[d].near # "open" => conn'[d].reply = "none"
        /\ \A d \in Conns : conn'[d].near = "relay" => conn'[d].q = <<>>
    BY <2>2, OneStreamChanges, UnusedStream
  <2>4. /\ c # sock /\ c \notin ToSet(parked) /\ \A d \in dials : d.cand # c
        /\ ctl.st = "wait" => ctl.at # c
    BY <1>10, <1>15, <2>1 DEF Park
  <2>5. ToSet(parked') = ToSet(parked) \cup {c} /\ IsInjective(parked')
    BY <1>1, <1>3, <2>2, <2>4, AppendToQueue DEF NearOK
  <2>6. Parked.near = "relay"
    BY UnusedStream
  <2>7. \A d \in ToSet(parked') : conn'[d].near = "relay"
    BY <1>1, <1>3, <2>3, <2>5, <2>6 DEF NearOK
  <2>8. \A d \in dials : d.cand # 0 => conn'[d.cand].near = "relay" /\ d.cand \notin ToSet(parked')
    BY <1>1, <1>3, <2>3, <2>4, <2>5 DEF NearOK
  <2>9. /\ sock # 0 => conn'[sock].near = "open"
        /\ ctl.st = "wait" => conn'[ctl.at].near = "open" /\ ctl.at # sock
    BY <1>1, <1>2, <1>3, <2>3, <2>4 DEF NearOK
  <2>10. QED BY <1>4, <2>2, <2>3, <2>5, <2>7, <2>8, <2>9 DEF NearOK
<1>16. CASE Call
  <2>1. UNCHANGED <<sock, parked>> /\ ctl.st = "connect" /\ ctl.k \in Configs
    BY <1>16 DEF Call, sender, Base, Types, CtlTypes
  <2>2. \/ /\ Free # {} /\ dials' = dials
           /\ conn' = [conn EXCEPT ![NewConn] = Written(Connected, Frame("configure", ctl.k, 2))]
           /\ ctl' = [ctl EXCEPT !.st = "wait", !.at = NewConn]
        \/ /\ dials' = dials \cup {[by |-> Ctl, cand |-> 0, left |-> FALSE]}
           /\ ctl' = [ctl EXCEPT !.st = "dial"] /\ conn' = conn
        \/ ctl' = [ctl EXCEPT !.st = "failed"] /\ UNCHANGED <<conn, dials>>
    BY <1>16 DEF Call
  <2>3. CASE /\ Free # {} /\ dials' = dials
             /\ conn' = [conn EXCEPT ![NewConn] = Written(Connected, Frame("configure", ctl.k, 2))]
             /\ ctl' = [ctl EXCEPT !.st = "wait", !.at = NewConn]
    <3>1. PICK s : s = Written(Connected, Frame("configure", ctl.k, 2))
      OBVIOUS
    <3>2. s \in StreamType /\ s.near = "open"
      BY <2>1, <3>1, FramesOf, UnusedStream, WrittenTo
    <3>3. PICK c \in Conns : c = NewConn
      BY <1>10, <2>3
    <3>4. /\ conn'[c] = s /\ \A d \in Conns : d # c => conn'[d] = conn[d]
          /\ \A d \in Conns : conn'[d].near # "open" => conn'[d].reply = "none"
          /\ \A d \in Conns : conn'[d].near = "relay" => conn'[d].q = <<>>
      BY <2>3, <3>1, <3>2, <3>3, OneStreamChanges
    <3>5. c # sock /\ c \notin ToSet(parked) /\ \A d \in dials : d.cand # c
      BY <1>10, <2>3, <3>3
    <3>6. ctl'.at = c
      BY <1>1, <2>3, <3>3
    <3>7. \A d \in ToSet(parked) : conn'[d].near = "relay"
      BY <1>1, <1>3, <3>4, <3>5 DEF NearOK
    <3>8. \A d \in dials : d.cand # 0 => conn'[d.cand].near = "relay" /\ d.cand \notin ToSet(parked)
      BY <1>1, <1>3, <3>4, <3>5 DEF NearOK
    <3>9. sock # 0 => conn'[sock].near = "open"
      BY <1>1, <1>3, <3>4, <3>5 DEF NearOK
    <3>10. QED BY <1>3, <1>4, <2>1, <2>3, <3>2, <3>4, <3>5, <3>6, <3>7, <3>8, <3>9 DEF NearOK
  <2>4. CASE /\ dials' = dials \cup {[by |-> Ctl, cand |-> 0, left |-> FALSE]}
             /\ ctl' = [ctl EXCEPT !.st = "dial"] /\ conn' = conn
    <3>1. ctl'.st # "wait"
      BY <1>1, <2>4
    <3>2. QED BY <1>4, <1>8, <2>1, <2>4, <3>1
  <2>5. CASE ctl' = [ctl EXCEPT !.st = "failed"] /\ UNCHANGED <<conn, dials>>
    <3>1. ctl'.st # "wait"
      BY <1>1, <2>5
    <3>2. QED BY <1>6, <2>1, <2>5, <3>1
  <2>6. QED BY <2>2, <2>3, <2>4, <2>5
<1>17. ASSUME Answer \/ GiveUp PROVE NearOK'
  <2>1. /\ ctl.st = "wait" /\ conn' = [conn EXCEPT ![ctl.at] = CloseNear(conn[ctl.at])]
        /\ UNCHANGED <<sock, parked, dials>> /\ \E st \in {"acked", "failed"} : ctl' = [ctl EXCEPT !.st = st, !.at = 0]
    BY <1>17 DEF Answer, GiveUp, HangUp, sender
  <2>2. PICK c \in Conns : c = ctl.at
    BY <1>2, <2>1
  <2>3. CloseNear(conn[c]) \in StreamType /\ CloseNear(conn[c]).near = "closed"
        /\ CloseNear(conn[c]).reply = "none"
    BY <1>5, NearClosed
  <2>4. /\ \A d \in Conns : d # c => conn'[d] = conn[d]
        /\ \A d \in Conns : conn'[d].near # "open" => conn'[d].reply = "none"
        /\ \A d \in Conns : conn'[d].near = "relay" => conn'[d].q = <<>>
    BY <2>1, <2>2, <2>3, OneStreamChanges
  <2>5. conn[c].near = "open" /\ c # sock
    BY <1>3, <2>1, <2>2 DEF NearOK
  <2>6. ctl'.st # "wait"
    BY <1>1, <2>1
  <2>7. QED BY <1>1, <1>3, <2>1, <2>4, <2>5, <2>6 DEF NearOK
<1>18. ASSUME StartConfigure \/ Restart \/ RelayStarts PROVE NearOK'
  BY <1>6, <1>18 DEF StartConfigure, Restart, RelayStarts, wire, sender
<1>19. ASSUME NEW l \in {"gone", "reset"}, Crash(l) PROVE NearOK'
  <2>1. /\ conn' = [c \in Conns |-> IF conn[c].far = "closed" THEN conn[c] ELSE CloseFar(conn[c], l)]
        /\ UNCHANGED <<sock, parked, dials, ctl>>
    BY <1>19 DEF Crash, sender
  <2>2. \A c \in Conns : Calm(conn[c], conn'[c])
    BY <1>5, <2>1, CalmStreams
  <2>3. QED BY <2>1, <2>2, CalmSteps
<1>20. ASSUME NEW l \in {"gone", "reset"}, NEW k \in 0..2, RelayStops(k, l) PROVE NearOK'
  <2>1. conn' = [c \in Conns |->
                  CASE conn[c].near = "relay" -> CloseNear(conn[c])
                    [] conn[c] = Unused -> Unused
                    [] OTHER -> Cut(conn[c], k, l, conn[c].link = "up")]
    BY <1>20 DEF RelayStops
  <2>2. /\ parked' = <<>> /\ dials' = {} /\ sock' = sock
        /\ DialFailed({d.by : d \in {x \in dials : ~x.left}})
    BY <1>20 DEF RelayStops
  <2>3. ctl' = ctl \/ ctl'.st # "wait"
    BY <1>9, <2>2
  <2>4. ASSUME NEW c \in Conns
        PROVE  /\ conn[c].near # "relay" => Calm(conn[c], conn'[c])
               /\ conn[c].near = "relay" => conn'[c].near = "closed" /\ conn'[c].reply = "none"
    <3>1. k \in Nat /\ (conn[c].link = "up") \in BOOLEAN
      OBVIOUS
    <3>2. Calm(conn[c], Cut(conn[c], k, l, conn[c].link = "up"))
      BY <1>5, <3>1, CalmStreams
    <3>3. CloseNear(conn[c]).near = "closed" /\ CloseNear(conn[c]).reply = "none"
      BY <1>5, NearClosed
    <3>4. \/ conn[c].near = "relay" /\ conn'[c] = CloseNear(conn[c])
          \/ conn[c].near # "relay" /\ conn[c] = Unused /\ conn'[c] = conn[c]
          \/ conn[c].near # "relay" /\ conn'[c] = Cut(conn[c], k, l, conn[c].link = "up")
      <4>1. CASE conn[c].near = "relay"
        BY <2>1, <4>1, UnusedStream
      <4>2. CASE conn[c] = Unused
        BY <2>1, <4>2, UnusedStream
      <4>3. CASE conn[c].near # "relay" /\ conn[c] # Unused
        BY <2>1, <4>3
      <4>4. QED BY <4>1, <4>2, <4>3
    <3>5. QED BY <1>5, <3>2, <3>3, <3>4
  <2>5. ASSUME NEW c \in Conns
        PROVE  /\ conn'[c].near # "open" => conn'[c].reply = "none"
               /\ conn'[c].near # "relay"
               /\ conn[c].near = "open" => conn'[c].near = "open"
    BY <1>3, <2>4 DEF NearOK, Calm
  <2>6. /\ sock # 0 => conn'[sock].near = "open"
        /\ ctl'.st = "wait" => conn'[ctl'.at].near = "open" /\ ctl'.at # sock
    BY <1>1, <1>2, <1>3, <2>3, <2>5 DEF NearOK
  <2>7. IsInjective(<<>>) /\ ToSet(<<>>) = {}
    BY DEF IsInjective, ToSet
  <2>8. QED BY <2>2, <2>5, <2>6, <2>7 DEF NearOK
<1>21. ASSUME NEW l \in {"gone", "reset"}, NEW k \in 0..2, NEW c \in Conns, Break(c, k, l)
       PROVE  NearOK'
  <2>1. conn' = [conn EXCEPT ![c] = Cut(conn[c], k, l, l = "reset")]
        /\ UNCHANGED <<sock, parked, dials, ctl>>
    BY <1>21 DEF Break, sender
  <2>2. (l = "reset") \in BOOLEAN /\ k \in Nat
    OBVIOUS
  <2>3. Calm(conn[c], Cut(conn[c], k, l, l = "reset")) /\ Cut(conn[c], k, l, l = "reset") \in StreamType
    BY <1>5, <2>2, CalmStreams, CutOff
  <2>4. QED BY <1>7, <2>1, <2>3
<1>22. CASE UNCHANGED vars
  BY <1>6, <1>22 DEF vars, wire, sender
<1>23. QED
  BY <1>11, <1>12, <1>13, <1>14, <1>15, <1>16, <1>17, <1>18, <1>19, <1>20, <1>21, <1>22
     DEF Next, Faults

(* TypeOK but for the bounds, and what everybody relies on: one call has    *)
(* the peer's lock, an open dial is the one its caller waits for, a stream  *)
(* is written to by one, and what the relay has parked is in one place.     *)
THEOREM BaseInvariant ==
    Spec => []Base
<1>1. ASSUME Init PROVE Base
  <2>1. /\ Retries \in Nat /\ Retries >= 1 /\ Depth \in Nat /\ 0 \notin Configs /\ Ctl \notin Threads
        /\ \A t \in Threads : Len(Script[t]) \in Nat
    BY Constants, Scripts
  <2>2. /\ conn = [c \in Conns |-> Unused] /\ parked = <<>> /\ dials = {} /\ mode \in Modes
        /\ relayUp = TRUE /\ up = TRUE /\ parkers \in {0, Depth}
        /\ node = Unconfigured /\ job = [k \in Configs |-> NoJob]
        /\ ctl = [k |-> 0, st |-> "idle", at |-> 0] /\ sock = 0
        /\ send = [t \in Threads |-> [n |-> 1, st |-> "idle", attempt |-> 0, tries |-> 0]]
        /\ fate = [m \in Msgs |-> "new"] /\ got = [m \in Msgs |-> 0] /\ refused = {} /\ lost = {}
        /\ tangled = FALSE /\ faults = 0
    BY <1>1 DEF Init
  <2>3. <<>> \in Seq(Conns) /\ IsInjective(<<>>) /\ ToSet(<<>>) = {}
    BY EmptySeq DEF IsInjective, ToSet
  <2>4. WireTypes
    BY <2>1, <2>2, <2>3, UnusedStream DEF WireTypes
  <2>5. NodeTypes
    BY <2>2 DEF NodeTypes, Unconfigured, NoJob, Choice
  <2>6. CtlTypes
    BY <2>2 DEF CtlTypes
  <2>7. 0 \in 0..Retries - 1 /\ 1 \in Nat
    BY <2>1
  <2>8. SendTypes
    BY <2>2, <2>7 DEF SendTypes, Calls
  <2>9. CallsOK
    BY <2>1, <2>2 DEF CallsOK
  <2>10. DialsOK
    BY <2>2 DEF DialsOK
  <2>11. NearOK
    <3>1. \A c \in Conns : conn[c].near # "relay" /\ conn[c].reply = "none"
      BY <2>2, UnusedStream
    <3>2. QED BY <2>2, <2>3, <3>1 DEF NearOK
  <2>12. QED BY <2>4, <2>5, <2>6, <2>8, <2>9, <2>10, <2>11 DEF Base, Types
<1>2. Base /\ [Next]_vars => Base'
  BY TypesStep, CallsStep, DialsStep, NearStep DEF Base
<1>3. QED BY <1>1, <1>2, PTL DEF Spec

-----------------------------------------------------------------------------
(* The listener's places *)

Place(s) == s.far \in {"parked", "called", "ready"}
Places == {c \in Conns : Place(conn[c])}

LEMMA PlacesCounted ==
    /\ IsFiniteSet(Places) /\ Cardinality(Places) \in Nat /\ Places \subseteq Conns
    /\ DepthKept <=> (mode = "relay" => parkers + Cardinality(Places) = IF up THEN Depth ELSE 0)
<1>1. IsFiniteSet(Conns)
  <2>1. MaxConns \in Int /\ 1 \in Int
    BY TransportConstantsAssumption
  <2>2. QED BY <2>1, FS_Interval DEF Conns
<1>2. IsFiniteSet(Places) /\ Places \subseteq Conns
  BY <1>1, FS_Subset DEF Places
<1>3. Cardinality(Places) \in Nat
  BY <1>2, FS_CardinalityType
<1>4. QED BY <1>2, <1>3 DEF DepthKept, Places, Place

(* A stream keeps its place, or had none.                                  *)
Keeps(s, r) == (Place(r) <=> Place(s)) /\ (s.far = "closed" => r.far = "closed")

LEMMA PlacesKept ==
    ASSUME PlacesOK, UNCHANGED <<mode, parkers, up>>, \A c \in Conns : Keeps(conn[c], conn'[c])
    PROVE  PlacesOK'
<1>1. Places' = Places
  BY DEF Places, Keeps
<1>2. (DepthKept <=> (mode = "relay" => parkers + Cardinality(Places) = IF up THEN Depth ELSE 0))'
  BY PlacesCounted, PTL
<1>3. DepthKept'
  BY <1>1, <1>2, PlacesCounted DEF PlacesOK
<1>4. QED BY <1>3 DEF PlacesOK, Keeps

(* A place passes from a stream to a thread.                               *)
LEMMA PlacePasses ==
    ASSUME PlacesOK, Types, NEW c \in Conns, Place(conn[c]), ~Place(conn'[c]),
           \A d \in Conns : d # c => conn'[d] = conn[d],
           UNCHANGED <<mode, up>>, mode = "relay" => parkers' = parkers + 1
    PROVE  PlacesOK'
<1>1. Places' = Places \ {c} /\ c \in Places
  BY DEF Places
<1>2. Cardinality(Places') = Cardinality(Places) - 1
  BY <1>1, PlacesCounted, FS_RemoveElement
<1>3. parkers \in Nat /\ Cardinality(Places) \in Nat
  BY PlacesCounted DEF Types, WireTypes
<1>4. mode = "relay" => parkers + Cardinality(Places) = IF up THEN Depth ELSE 0
  BY PlacesCounted DEF PlacesOK
<1>5. mode = "relay" => parkers' + Cardinality(Places') = parkers + Cardinality(Places)
  BY <1>2, <1>3
<1>6. (DepthKept <=> (mode = "relay" => parkers + Cardinality(Places) = IF up THEN Depth ELSE 0))'
  BY PlacesCounted, PTL
<1>7. DepthKept'
  BY <1>4, <1>5, <1>6
<1>8. up
  BY DEF PlacesOK, Place
<1>9. QED BY <1>7, <1>8 DEF PlacesOK

LEMMA FarKept ==
    ASSUME NEW s \in StreamType
    PROVE  /\ Keeps(s, s) /\ Keeps(s, CloseNear(s))
           /\ s.far = "serving" => \A l \in {"gone", "reset"} : Keeps(s, CloseFar(s, l))
           /\ \A k \in Nat : \A l \in {"gone", "reset"} : \A e \in BOOLEAN : Keeps(s, Cut(s, k, l, e))
           /\ \A f \in Frames : Keeps(s, Written(s, f))
           /\ s.far = "called" => Keeps(s, [s EXCEPT !.far = "ready"])
           /\ Keeps(s, [s EXCEPT !.link = "reset"])
           /\ \A q \in Seq(Frames) : Keeps(s, [s EXCEPT !.q = q])
           /\ \A r \in {"ack", "error"} :
                Keeps(s, [s EXCEPT !.reply = IF s.near = "open" /\ s.link = "up" THEN r ELSE @])
<1>1. Keeps(s, s) /\ Keeps(s, CloseNear(s))
  BY NearClosed DEF Keeps, Place
<1>2. s.far = "serving" => \A l \in {"gone", "reset"} : Keeps(s, CloseFar(s, l))
  BY FarClosed DEF Keeps, Place
<1>3. ASSUME NEW k \in Nat, NEW l \in {"gone", "reset"}, NEW e \in BOOLEAN
      PROVE  Keeps(s, Cut(s, k, l, e))
  BY CutOff DEF Keeps, Place
<1>4. ASSUME NEW f \in Frames PROVE Keeps(s, Written(s, f))
  BY WrittenTo DEF Keeps, Place
<1>5. /\ s.far = "called" => Keeps(s, [s EXCEPT !.far = "ready"])
      /\ Keeps(s, [s EXCEPT !.link = "reset"])
      /\ \A q \in Seq(Frames) : Keeps(s, [s EXCEPT !.q = q])
      /\ \A r \in {"ack", "error"} :
           Keeps(s, [s EXCEPT !.reply = IF s.near = "open" /\ s.link = "up" THEN r ELSE @])
  BY DEF Keeps, Place, StreamType
<1>6. QED BY <1>1, <1>2, <1>3, <1>4, <1>5

LEMMA PlacesStep ==
    ASSUME Base, Base', PlacesOK, [Next]_vars
    PROVE  PlacesOK'
<1>1. /\ conn \in [Conns -> StreamType] /\ parkers \in Nat /\ Depth \in Nat
      /\ sock \in Conns \cup {0} /\ Types
      /\ \A d \in dials : d.cand \in Conns \cup {0}
  BY Constants DEF Base, Types, WireTypes, SendTypes
<1>2. \A c \in Conns : conn[c] \in StreamType /\ Keeps(conn[c], conn[c])
  BY <1>1, FarKept
<1>3. ASSUME UNCHANGED <<conn, mode, parkers, up>> PROVE PlacesOK'
  BY <1>2, <1>3, PlacesKept
<1>4. ASSUME NEW c \in Conns, NEW s, conn' = [conn EXCEPT ![c] = s], Keeps(conn[c], s),
             UNCHANGED <<mode, parkers, up>>
      PROVE  PlacesOK'
  <2>1. \A d \in Conns : Keeps(conn[d], conn'[d])
    BY <1>1, <1>2, <1>4
  <2>2. QED BY <1>4, <2>1, PlacesKept
(* In direct mode only the life of the streams matters.                    *)
<1>5. ASSUME NEW c \in Conns, NEW s, conn' = [conn EXCEPT ![c] = s], up, UNCHANGED <<mode, up>>,
             mode # "relay"
      PROVE  PlacesOK'
  BY <1>5 DEF PlacesOK, DepthKept
<1>6. mode \in {"direct", "relay"}
  BY TransportConstantsAssumption DEF Base, Types, WireTypes
<1>7. ASSUME NEW t \in Threads, Sends(t) PROVE PlacesOK'
  <2>1. CASE BeginSend(t)
    BY <1>3, <2>1 DEF BeginSend, wire, server
  <2>2. CASE Connect(t)
    <3>1. UNCHANGED <<mode, parkers, up>>
      BY <2>2 DEF Connect, server
    <3>2. \/ UNCHANGED conn
          \/ /\ mode = "direct" /\ up /\ Free # {}
             /\ conn' = [conn EXCEPT ![NewConn] = Connected]
      BY <2>2 DEF Connect
    <3>3. QED BY <1>3, <1>5, <3>1, <3>2, FreshStream
  <2>3. ASSUME NEW p \in {1, 2}, Write(t, p) PROVE PlacesOK'
    <3>1. sock \in Conns /\ send[t].st # "idle" /\ UNCHANGED <<mode, parkers, up>>
      BY <1>1, <2>3 DEF Write, server
    <3>2. Frame("data", Current(t), p) \in Frames
      <4>1. send[t].n \in 1..Len(Script[t])
        BY <3>1, Scripts DEF Base, CallsOK
      <4>2. QED BY <4>1, Scripts, FramesOf DEF Current
    <3>3. conn' = [conn EXCEPT ![sock] = Written(conn[sock], Frame("data", Current(t), p))]
      BY <2>3 DEF Write
    <3>4. QED BY <1>2, <1>4, <3>1, <3>2, <3>3, FarKept
  <2>4. CASE WriteFails(t)
    <3>1. sock \in Conns /\ UNCHANGED <<mode, parkers, up>>
      BY <1>1, <2>4 DEF WriteFails, server
    <3>2. conn' = [conn EXCEPT ![sock] = CloseNear(conn[sock])]
      BY <2>4 DEF WriteFails
    <3>3. QED BY <1>2, <1>4, <3>1, <3>2, FarKept
  <2>5. QED BY <1>7, <2>1, <2>2, <2>3, <2>4 DEF Sends
<1>8. ASSUME NEW d \in dials, Dials(d) \/ LeaveDial(d) PROVE PlacesOK'
  <2>1. UNCHANGED <<mode, parkers, up>>
    BY <1>8 DEF Dials, DialPop, DialRefused, DialHand, LeaveDial, server
  <2>2. CASE DialPop(d)
    <3>1. PICK h : h = Head(parked)
      OBVIOUS
    <3>2. h \in Conns
      <4>1. parked \in Seq(Conns) /\ parked # <<>>
        BY <1>1, <2>2 DEF DialPop, Types, WireTypes
      <4>2. QED BY <3>1, <4>1, TailOfQueue
    <3>3. conn' = conn \/ conn' = [conn EXCEPT ![h] = CloseNear(conn[h])]
      BY <2>2, <3>1 DEF DialPop
    <3>4. QED BY <1>2, <1>3, <1>4, <2>1, <3>2, <3>3, FarKept
  <2>3. ASSUME DialRefused(d) \/ LeaveDial(d) PROVE PlacesOK'
    BY <1>3, <2>1, <2>3 DEF DialRefused, LeaveDial
  <2>4. CASE DialHand(d)
    <3> DEFINE called == [conn[d.cand] EXCEPT !.near = "open",
                            !.far = IF @ = "parked" /\ conn[d.cand].link = "up" THEN "called" ELSE @]
    <3>1. PICK c \in Conns : c = d.cand
      BY <1>1, <2>4 DEF DialHand
    <3>2. called \in StreamType /\ Keeps(conn[c], called)
      BY <1>2, <3>1 DEF StreamType, Keeps, Place
    <3>3. \/ conn' = [conn EXCEPT ![c] = CloseNear(conn[c])]
          \/ conn' = [conn EXCEPT ![c] = CloseNear(called)]
          \/ ~d.left /\ Answered(d.by, c, called)
      BY <2>4, <3>1 DEF DialHand
    <3> HIDE DEF called
    <3>4. /\ Keeps(conn[c], CloseNear(conn[c])) /\ Keeps(called, CloseNear(called))
          /\ \A f \in Frames : Keeps(called, Written(called, f))
      BY <1>2, <3>2, FarKept
    <3>5. ASSUME NEW s, Keeps(called, s) PROVE Keeps(conn[c], s)
      BY <3>2, <3>5 DEF Keeps
    <3>6. ASSUME ~d.left, Answered(d.by, c, called) PROVE PlacesOK'
      <4>1. CASE d.by = Ctl
        <5>1. ctl.k \in Configs
          BY <3>6, <4>1 DEF Base, DialsOK, Types, CtlTypes
        <5>2. conn' = [conn EXCEPT ![c] = Written(called, Frame("configure", ctl.k, 2))]
          BY <3>6, <4>1 DEF Answered
        <5>3. QED BY <1>4, <2>1, <3>4, <3>5, <5>1, <5>2, FramesOf
      <4>2. CASE d.by # Ctl
        <5>1. conn' = [conn EXCEPT ![c] = called]
          BY <3>6, <4>2 DEF Answered
        <5>2. QED BY <1>4, <2>1, <3>2, <5>1
      <4>3. QED BY <4>1, <4>2
    <3>7. QED BY <1>4, <2>1, <3>3, <3>4, <3>5, <3>6
  <2>5. QED BY <1>8, <2>2, <2>3, <2>4 DEF Dials
<1>9. ASSUME NEW c \in Conns, Serves(c) \/ Notice(c) PROVE PlacesOK'
  <2>1. UNCHANGED <<mode, up>>
    BY <1>9 DEF Serves, ParkerWakes, Accept, ReadData, ReadEnds, ConfigureBegins, Notice, server
  <2>2. CASE ParkerWakes(c)
    <3>1. CASE /\ conn[c].far = "called" /\ parkers' = parkers
               /\ conn' = [conn EXCEPT ![c] = [conn[c] EXCEPT !.far = "ready"]]
      BY <1>2, <1>4, <2>1, <3>1, FarKept
    <3>2. CASE /\ conn[c].far = "parked" /\ parkers' = parkers + 1
               /\ conn' = [conn EXCEPT ![c] = CloseFar(conn[c], "reset")]
      <4>1. CloseFar(conn[c], "reset").far = "closed"
        BY <1>2, FarClosed
      <4>2. conn'[c].far = "closed" /\ \A d \in Conns : d # c => conn'[d] = conn[d]
        BY <1>1, <3>2, <4>1
      <4>3. Place(conn[c]) /\ ~Place(conn'[c])
        BY <3>2, <4>2 DEF Place
      <4>4. QED BY <1>1, <2>1, <3>2, <4>2, <4>3, PlacePasses
    <3>3. \/ /\ conn[c].far = "called" /\ parkers' = parkers
             /\ conn' = [conn EXCEPT ![c] = [conn[c] EXCEPT !.far = "ready"]]
          \/ /\ conn[c].far = "parked" /\ parkers' = parkers + 1
             /\ conn' = [conn EXCEPT ![c] = CloseFar(conn[c], "reset")]
      BY <1>1, <2>2 DEF ParkerWakes
    <3>4. QED BY <3>1, <3>2, <3>3
  <2>3. CASE Accept(c)
    <3>1. /\ conn[c].far = "ready" /\ mode = "relay" => parkers' = parkers + 1
          /\ conn' = [conn EXCEPT ![c] = [conn[c] EXCEPT !.far = "serving"]]
      BY <2>3 DEF Accept
    <3>2. [conn[c] EXCEPT !.far = "serving"].far = "serving"
      BY <1>2 DEF StreamType
    <3>3. conn'[c].far = "serving" /\ \A d \in Conns : d # c => conn'[d] = conn[d]
      BY <1>1, <2>3, <3>2 DEF Accept
    <3>4. Place(conn[c]) /\ ~Place(conn'[c])
      BY <2>3, <3>3 DEF Place, Accept
    <3>5. mode = "relay" => parkers' = parkers + 1
      BY <2>3 DEF Accept
    <3>6. QED BY <1>1, <2>1, <3>3, <3>4, <3>5, PlacePasses
  <2>4. CASE ReadData(c) \/ ConfigureBegins(c)
    <3>1. /\ WholeHead(conn[c].q) /\ parkers' = parkers
          /\ conn' = [conn EXCEPT ![c] = [conn[c] EXCEPT !.q = Rest(conn[c].q)]]
      BY <2>4 DEF ReadData, ConfigureBegins
    <3>2. Rest(conn[c].q) \in Seq(Frames)
      BY <1>2, <3>1, StreamFields, WholeHeads, FramesOf DEF After
    <3>3. QED BY <1>2, <1>4, <2>1, <3>1, <3>2, FarKept
  <2>5. CASE ReadEnds(c)
    <3>1. /\ conn[c].far = "serving" /\ parkers' = parkers
          /\ conn' = [conn EXCEPT ![c] = CloseFar(conn[c], "reset")]
      BY <2>5 DEF ReadEnds, Reading
    <3>2. QED BY <1>2, <1>4, <2>1, <3>1, FarKept
  <2>6. CASE Notice(c)
    <3>1. /\ parkers' = parkers
          /\ conn' = [conn EXCEPT ![c] = [conn[c] EXCEPT !.link = "reset"]]
      BY <2>6 DEF Notice
    <3>2. QED BY <1>2, <1>4, <2>1, <3>1, FarKept
  <2>7. QED BY <1>9, <2>2, <2>3, <2>4, <2>5, <2>6 DEF Serves
<1>10. ASSUME NEW k \in Configs, Applies(k) \/ LoadFails(k) PROVE PlacesOK'
  <2>1. CASE Load(k)
    BY <1>3, <2>1 DEF Load, wire
  <2>2. CASE Replace(k) \/ LoadFails(k)
    <3>1. UNCHANGED <<mode, parkers, up>>
      BY <2>2 DEF Replace, LoadFails
    <3>2. PICK r \in {"ack", "error"} : Reply(job[k].at, r)
      BY <2>2 DEF Replace, LoadFails
    <3>3. PICK c \in Conns : c = job[k].at
      <4>1. job[k].st # "idle"
        BY <2>2 DEF Replace, LoadFails
      <4>2. QED BY <4>1 DEF Base, Types, NodeTypes
    <3>4. conn' = [conn EXCEPT ![c] = [conn[c] EXCEPT !.reply =
                      IF conn[c].near = "open" /\ conn[c].link = "up" THEN r ELSE @]]
      BY <1>1, <3>2, <3>3 DEF Reply
    <3>5. QED BY <1>2, <1>4, <3>1, <3>4, FarKept
  <2>3. QED BY <1>10, <2>1, <2>2 DEF Applies
<1>11. CASE Park
  <2>1. PICK c \in Conns : c = NewConn /\ conn[c].far = "closed"
    BY <1>11, FreshStream, UnusedStream DEF Park
  <2>2. /\ conn' = [conn EXCEPT ![c] = Parked] /\ parkers' = parkers - 1 /\ parkers > 0 /\ up
        /\ UNCHANGED <<mode, up>>
    BY <1>11, <2>1 DEF Park, server
  <2>3. conn'[c].far = "parked" /\ \A d \in Conns : d # c => conn'[d] = conn[d]
    BY <1>1, <2>2, UnusedStream
  <2>4. Places' = Places \cup {c} /\ c \notin Places
    BY <2>1, <2>3 DEF Places, Place
  <2>5. Cardinality(Places') = Cardinality(Places) + 1
    BY <2>4, PlacesCounted, FS_AddElement
  <2>6. Cardinality(Places) \in Nat /\ (mode = "relay" => parkers + Cardinality(Places) = Depth)
    BY <2>2, PlacesCounted DEF PlacesOK
  <2>7. mode = "relay" => parkers' + Cardinality(Places') = Depth
    BY <1>1, <2>2, <2>5, <2>6
  <2>8. (DepthKept <=> (mode = "relay" => parkers + Cardinality(Places) = IF up THEN Depth ELSE 0))'
    BY PlacesCounted, PTL
  <2>9. DepthKept'
    BY <2>2, <2>7, <2>8
  <2>10. QED BY <2>2, <2>9 DEF PlacesOK
<1>12. CASE Call
  <2>1. UNCHANGED <<mode, parkers, up>>
    BY <1>12 DEF Call, server
  <2>2. \/ UNCHANGED conn
        \/ /\ mode = "direct" /\ up /\ Free # {}
           /\ conn' = [conn EXCEPT ![NewConn] = Written(Connected, Frame("configure", ctl.k, 2))]
    BY <1>12 DEF Call
  <2>3. QED BY <1>3, <1>5, <2>1, <2>2, FreshStream
<1>13. ASSUME Answer \/ GiveUp PROVE PlacesOK'
  <2>1. /\ ctl.st = "wait" /\ conn' = [conn EXCEPT ![ctl.at] = CloseNear(conn[ctl.at])]
        /\ UNCHANGED <<mode, parkers, up>>
    BY <1>13 DEF Answer, GiveUp, HangUp, server
  <2>2. ctl.at \in Conns
    BY <2>1 DEF Base, Types, CtlTypes
  <2>3. QED BY <1>2, <1>4, <2>1, <2>2, FarKept
<1>14. ASSUME StartConfigure \/ RelayStarts PROVE PlacesOK'
  BY <1>3, <1>14 DEF StartConfigure, RelayStarts, wire, server
<1>15. ASSUME Restart PROVE PlacesOK'
  <2>1. ~up /\ up' = TRUE /\ UNCHANGED <<mode, conn>> /\ (mode = "relay" => parkers' = Depth)
    BY <1>15 DEF Restart
  <2>2. Places = {}
    BY <2>1 DEF PlacesOK, Places, Place
  <2>3. Places' = {}
    BY <2>1, <2>2 DEF Places
  <2>4. Cardinality(Places') = 0
    BY <2>3, FS_EmptySet
  <2>5. (DepthKept <=> (mode = "relay" => parkers + Cardinality(Places) = IF up THEN Depth ELSE 0))'
    BY PlacesCounted, PTL
  <2>6. mode = "relay" => parkers' + Cardinality(Places') = Depth
    BY <1>1, <2>1, <2>4
  <2>7. QED BY <2>1, <2>5, <2>6 DEF PlacesOK
<1>16. ASSUME NEW l \in {"gone", "reset"}, Crash(l) PROVE PlacesOK'
  <2>1. /\ conn' = [c \in Conns |-> IF conn[c].far = "closed" THEN conn[c] ELSE CloseFar(conn[c], l)]
        /\ up' = FALSE /\ parkers' = 0
    BY <1>16 DEF Crash
  <2>2. \A c \in Conns : conn'[c].far = "closed"
    BY <1>2, <2>1, FarClosed
  <2>3. Places' = {}
    BY <2>2 DEF Places, Place
  <2>4. Cardinality(Places') = 0
    BY <2>3, FS_EmptySet
  <2>5. (DepthKept <=> (mode = "relay" => parkers + Cardinality(Places) = IF up THEN Depth ELSE 0))'
    BY PlacesCounted, PTL
  <2>6. parkers' + Cardinality(Places') = 0
    BY <2>1, <2>4
  <2>7. QED BY <2>1, <2>2, <2>5, <2>6 DEF PlacesOK
<1>17. ASSUME NEW l \in {"gone", "reset"}, NEW k \in 0..2, RelayStops(k, l) PROVE PlacesOK'
  <2>1. conn' = [c \in Conns |->
                  CASE conn[c].near = "relay" -> CloseNear(conn[c])
                    [] conn[c] = Unused -> Unused
                    [] OTHER -> Cut(conn[c], k, l, conn[c].link = "up")]
        /\ UNCHANGED <<mode, parkers, up>>
    BY <1>17 DEF RelayStops, server
  <2>2. ASSUME NEW c \in Conns PROVE Keeps(conn[c], conn'[c])
    <3>1. \/ conn'[c] = CloseNear(conn[c])
          \/ conn'[c] = conn[c]
          \/ conn'[c] = Cut(conn[c], k, l, conn[c].link = "up")
      <4>1. CASE conn[c].near = "relay"
        BY <2>1, <4>1, UnusedStream
      <4>2. CASE conn[c] = Unused
        BY <2>1, <4>2, UnusedStream
      <4>3. CASE conn[c].near # "relay" /\ conn[c] # Unused
        BY <2>1, <4>3
      <4>4. QED BY <4>1, <4>2, <4>3
    <3>2. k \in Nat /\ (conn[c].link = "up") \in BOOLEAN
      OBVIOUS
    <3>3. Keeps(conn[c], Cut(conn[c], k, l, conn[c].link = "up"))
      BY <1>2, <3>2, FarKept
    <3>4. QED BY <1>2, <3>1, <3>3, FarKept
  <2>3. QED BY <2>1, <2>2, PlacesKept
<1>18. ASSUME NEW l \in {"gone", "reset"}, NEW k \in 0..2, NEW c \in Conns, Break(c, k, l)
       PROVE  PlacesOK'
  <2>1. conn' = [conn EXCEPT ![c] = Cut(conn[c], k, l, l = "reset")] /\ UNCHANGED <<mode, parkers, up>>
    BY <1>18 DEF Break, server
  <2>2. (l = "reset") \in BOOLEAN /\ k \in Nat
    OBVIOUS
  <2>3. Keeps(conn[c], Cut(conn[c], k, l, l = "reset"))
    BY <1>2, <2>2, FarKept
  <2>4. QED BY <1>4, <2>1, <2>3
<1>19. CASE UNCHANGED vars
  BY <1>3, <1>19 DEF vars, wire, server
<1>20. QED
  BY <1>7, <1>8, <1>9, <1>10, <1>11, <1>12, <1>13, <1>14, <1>15, <1>16, <1>17, <1>18, <1>19
     DEF Next, Faults

(* DepthKept: the listener's places are never lost and never multiply,     *)
(* whatever calls, breaks and restarts of the relay happen.                *)
THEOREM PlacesNeverLost ==
    Spec => []DepthKept
<1>1. ASSUME Init PROVE PlacesOK
  <2>1. /\ conn = [c \in Conns |-> Unused] /\ up = TRUE /\ (mode = "relay" => parkers = Depth)
    BY <1>1 DEF Init
  <2>2. Places = {}
    BY <2>1, UnusedStream DEF Places, Place
  <2>3. Cardinality(Places) = 0 /\ Depth \in Nat
    BY <2>2, FS_EmptySet, Constants
  <2>4. mode = "relay" => parkers + Cardinality(Places) = Depth
    BY <2>1, <2>3
  <2>5. QED BY <2>1, <2>4, PlacesCounted DEF PlacesOK
<1>2. Base /\ Base' /\ PlacesOK /\ [Next]_vars => PlacesOK'
  BY PlacesStep
<1>3. PlacesOK => DepthKept
  BY DEF PlacesOK
<1>4. QED BY <1>1, <1>2, <1>3, BaseInvariant, PTL DEF Spec

-----------------------------------------------------------------------------
(* What a step does to the queues *)

Shrunk == \A c \in Conns : Start(conn'[c].q, conn[c].q)

(* The controller's configure is the first thing on a stream.              *)
Orders(c) ==
    /\ conn[c].q = <<>> /\ conn'[c].q \in {<<>>, <<Frame("configure", ctl.k, 2)>>}
    /\ \A d \in Conns : d # c => conn'[d] = conn[d]
    /\ ctl'.k = ctl.k /\ ctl'.st = "wait" /\ ctl'.at = c /\ ctl.st \in {"connect", "dial"}
    /\ conn'[c].reply = "none"
    /\ c # sock
    /\ UNCHANGED <<sock, send, fate, got, refused, tangled, node, job>>

LEMMA ShrunkStreams ==
    ASSUME NEW s \in StreamType
    PROVE  /\ Start(s.q, s.q) /\ Start(CloseNear(s).q, s.q)
           /\ \A l \in {"gone", "reset"} : Start(CloseFar(s, l).q, s.q)
           /\ \A k \in Nat : \A l \in {"gone", "reset"} : \A e \in BOOLEAN : Start(Cut(s, k, l, e).q, s.q)
           /\ Start([s EXCEPT !.far = "ready"].q, s.q) /\ Start([s EXCEPT !.far = "serving"].q, s.q)
           /\ Start([s EXCEPT !.link = "reset"].q, s.q)
           /\ \A r : Start([s EXCEPT !.reply = r].q, s.q)
<1>1. Start(s.q, s.q) /\ Start(<<>>, s.q) /\ Start(CloseNear(s).q, s.q)
  BY Starts, StreamFields, NearClosed
<1>2. ASSUME NEW k \in Nat, NEW l \in {"gone", "reset"}, NEW e \in BOOLEAN
      PROVE  Start(Cut(s, k, l, e).q, s.q)
  BY CutOff
<1>3. \A l \in {"gone", "reset"} : Start(CloseFar(s, l).q, s.q)
  BY <1>1, FarClosed
<1>4. /\ Start([s EXCEPT !.far = "ready"].q, s.q) /\ Start([s EXCEPT !.far = "serving"].q, s.q)
      /\ Start([s EXCEPT !.link = "reset"].q, s.q)
      /\ \A r : Start([s EXCEPT !.reply = r].q, s.q)
  <2>1. /\ [s EXCEPT !.far = "ready"].q = s.q /\ [s EXCEPT !.far = "serving"].q = s.q
        /\ [s EXCEPT !.link = "reset"].q = s.q /\ \A r : [s EXCEPT !.reply = r].q = s.q
    BY DEF StreamType
  <2>2. QED BY <1>1, <2>1
<1>5. QED BY <1>1, <1>2, <1>3, <1>4

LEMMA QueueMoves ==
    ASSUME Base, [Next]_vars
    PROVE  \/ Shrunk /\ UNCHANGED <<got, refused>>
           \/ \E t \in Threads : \E p \in {1, 2} : Write(t, p)
           \/ \E c \in Conns : Orders(c) \/ ReadData(c) \/ ConfigureBegins(c)
<1> DEFINE Goal == \/ Shrunk /\ UNCHANGED <<got, refused>>
                   \/ \E t \in Threads : \E p \in {1, 2} : Write(t, p)
                   \/ \E c \in Conns : Orders(c) \/ ReadData(c) \/ ConfigureBegins(c)
<1>1. /\ conn \in [Conns -> StreamType] /\ Types
      /\ sock \in Conns \cup {0}
      /\ dials \subseteq [by : Diallers, cand : Conns \cup {0}, left : BOOLEAN]
      /\ ctl \in [k : Configs \cup {0}, at : Conns \cup {0},
                  st : {"idle", "connect", "dial", "wait", "acked", "failed"}]
  BY DEF Base, Types, WireTypes, SendTypes, CtlTypes
<1>2. \A c \in Conns : conn[c] \in StreamType /\ Start(conn[c].q, conn[c].q)
  BY <1>1, ShrunkStreams
<1>3. ASSUME UNCHANGED <<conn, got, refused>> PROVE Goal
  BY <1>2, <1>3 DEF Shrunk
<1>4. ASSUME NEW c \in Conns, NEW s, conn' = [conn EXCEPT ![c] = s], Start(s.q, conn[c].q),
             UNCHANGED <<got, refused>>
      PROVE  Goal
  <2>1. conn'[c] = s /\ \A d \in Conns : d # c => conn'[d] = conn[d]
    BY <1>1, <1>4
  <2>2. \A d \in Conns : Start(conn'[d].q, conn[d].q)
    BY <1>2, <1>4, <2>1
  <2>3. QED BY <1>4, <2>2 DEF Shrunk
(* A stream that carries nothing yet is opened for the controller.         *)
<1>5. ASSUME NEW c \in Conns, NEW s \in StreamType, s.q = <<>>, s.reply = "none", conn[c].q = <<>>, c # sock,
             conn' = [conn EXCEPT ![c] = Written(s, Frame("configure", ctl.k, 2))],
             ctl' = [ctl EXCEPT !.st = "wait", !.at = c], ctl.st \in {"connect", "dial"},
             UNCHANGED <<sock, send, fate, got, refused, tangled, node, job>>
      PROVE  Goal
  <2>1. ctl.k \in Configs
    BY <1>1, <1>5 DEF Types, CtlTypes
  <2>2. PICK f \in Frames : f = Frame("configure", ctl.k, 2)
    BY <2>1, FramesOf
  <2>3. /\ Written(s, f).reply = "none"
        /\ Written(s, f).q = Append(s.q, f) \/ Written(s, f).q = s.q
    BY <1>5, WrittenTo
  <2>4. Append(<<>>, f) = <<f>>
    OBVIOUS
  <2>5. conn'[c] = Written(s, f) /\ \A d \in Conns : d # c => conn'[d] = conn[d]
    BY <1>1, <1>5, <2>2
  <2>6. ctl'.k = ctl.k /\ ctl'.st = "wait" /\ ctl'.at = c
    BY <1>1, <1>5
  <2>7. Orders(c)
    BY <1>5, <2>2, <2>3, <2>4, <2>5, <2>6 DEF Orders
  <2>8. QED BY <2>7
<1>6. ASSUME NEW t \in Threads, Sends(t) PROVE Goal
  <2>1. CASE BeginSend(t)
    BY <1>3, <2>1 DEF BeginSend, wire, record
  <2>2. CASE Connect(t)
    <3>1. UNCHANGED <<got, refused>>
      BY <2>2 DEF Connect, record
    <3>2. UNCHANGED conn \/ (Free # {} /\ conn' = [conn EXCEPT ![NewConn] = Connected])
      BY <2>2 DEF Connect
    <3>3. Free # {} => NewConn \in Conns /\ Connected.q = conn[NewConn].q
      BY FreshStream, UnusedStream
    <3>4. QED BY <1>2, <1>3, <1>4, <3>1, <3>2, <3>3
  <2>3. CASE WriteFails(t)
    <3>1. sock \in Conns /\ conn' = [conn EXCEPT ![sock] = CloseNear(conn[sock])]
      BY <1>1, <2>3 DEF WriteFails
    <3>2. QED BY <1>2, <1>4, <2>3, <3>1, ShrunkStreams DEF WriteFails, record
  <2>4. QED BY <1>6, <2>1, <2>2, <2>3 DEF Sends
<1>7. ASSUME NEW d \in dials, Dials(d) \/ LeaveDial(d) PROVE Goal
  <2>1. UNCHANGED <<got, refused>>
    BY <1>7 DEF Dials, DialPop, DialRefused, DialHand, LeaveDial, record
  <2>2. CASE DialPop(d)
    <3>1. PICK h : h = Head(parked)
      OBVIOUS
    <3>2. h \in Conns
      <4>1. parked \in Seq(Conns) /\ parked # <<>>
        BY <1>1, <2>2 DEF DialPop, Types, WireTypes
      <4>2. QED BY <3>1, <4>1, TailOfQueue
    <3>3. conn' = conn \/ conn' = [conn EXCEPT ![h] = CloseNear(conn[h])]
      BY <2>2, <3>1 DEF DialPop
    <3>4. QED BY <1>2, <1>3, <1>4, <2>1, <3>2, <3>3, ShrunkStreams
  <2>3. ASSUME DialRefused(d) \/ LeaveDial(d) PROVE Goal
    BY <1>3, <2>1, <2>3 DEF DialRefused, LeaveDial
  <2>4. CASE DialHand(d)
    <3> DEFINE called == [conn[d.cand] EXCEPT !.near = "open",
                            !.far = IF @ = "parked" /\ conn[d.cand].link = "up" THEN "called" ELSE @]
    <3>1. PICK c \in Conns : c = d.cand
      BY <1>1, <2>4 DEF DialHand
    <3>2. called \in StreamType /\ called.q = conn[c].q /\ called.reply = conn[c].reply
      BY <1>2, <3>1 DEF StreamType
    <3>3. \/ conn' = [conn EXCEPT ![c] = CloseNear(conn[c])]
          \/ conn' = [conn EXCEPT ![c] = CloseNear(called)]
          \/ ~d.left /\ Answered(d.by, c, called)
      BY <2>4, <3>1 DEF DialHand
    <3>4. UNCHANGED <<tangled, node, job, fate>>
      BY <2>4 DEF DialHand, server
    <3>5. conn[c].q = <<>> /\ conn[c].reply = "none" /\ c # sock
      <4>1. conn[c].near = "relay"
        BY <2>4, <3>1 DEF DialHand, Base, NearOK
      <4>2. QED BY <4>1, Constants DEF Base, NearOK
    <3> HIDE DEF called
    <3>6. Start(CloseNear(conn[c]).q, conn[c].q) /\ Start(CloseNear(called).q, conn[c].q) /\ Start(called.q, conn[c].q)
      BY <1>2, <3>2, ShrunkStreams
    <3>7. ASSUME ~d.left, Answered(d.by, c, called) PROVE Goal
      <4>1. CASE d.by = Ctl
        <5>1. /\ conn' = [conn EXCEPT ![c] = Written(called, Frame("configure", ctl.k, 2))]
              /\ ctl' = [ctl EXCEPT !.st = "wait", !.at = c] /\ UNCHANGED <<sock, send>>
          BY <3>7, <4>1 DEF Answered
        <5>2. ctl.st = "dial"
          BY <3>7, <4>1 DEF Base, DialsOK
        <5>3. QED BY <1>5, <2>1, <3>2, <3>4, <3>5, <5>1, <5>2
      <4>2. CASE d.by # Ctl
        <5>1. conn' = [conn EXCEPT ![c] = called]
          BY <3>7, <4>2 DEF Answered
        <5>2. QED BY <1>4, <2>1, <3>6, <5>1
      <4>3. QED BY <4>1, <4>2
    <3>8. QED BY <1>4, <2>1, <3>3, <3>6, <3>7
  <2>5. QED BY <1>7, <2>2, <2>3, <2>4 DEF Dials
<1>8. ASSUME NEW c \in Conns, Serves(c) \/ Notice(c) PROVE Goal
  <2>1. CASE ParkerWakes(c)
    <3>1. \/ conn' = [conn EXCEPT ![c] = [conn[c] EXCEPT !.far = "ready"]]
          \/ conn' = [conn EXCEPT ![c] = CloseFar(conn[c], "reset")]
      BY <1>1, <2>1 DEF ParkerWakes
    <3>2. UNCHANGED <<got, refused>>
      BY <2>1 DEF ParkerWakes, record
    <3>3. QED BY <1>2, <1>4, <3>1, <3>2, ShrunkStreams
  <2>2. CASE Accept(c)
    <3>1. conn' = [conn EXCEPT ![c] = [conn[c] EXCEPT !.far = "serving"]] /\ UNCHANGED <<got, refused>>
      BY <2>2 DEF Accept, record
    <3>2. QED BY <1>2, <1>4, <3>1, ShrunkStreams
  <2>3. CASE ReadEnds(c)
    <3>1. conn' = [conn EXCEPT ![c] = CloseFar(conn[c], "reset")] /\ UNCHANGED <<got, refused>>
      BY <2>3 DEF ReadEnds, record
    <3>2. QED BY <1>2, <1>4, <3>1, ShrunkStreams
  <2>4. CASE Notice(c)
    <3>1. conn' = [conn EXCEPT ![c] = [conn[c] EXCEPT !.link = "reset"]] /\ UNCHANGED <<got, refused>>
      BY <2>4 DEF Notice, record
    <3>2. QED BY <1>2, <1>4, <3>1, ShrunkStreams
  <2>5. QED BY <1>8, <2>1, <2>2, <2>3, <2>4 DEF Serves
<1>9. ASSUME NEW k \in Configs, Applies(k) \/ LoadFails(k) PROVE Goal
  <2>1. CASE Load(k)
    BY <1>3, <2>1 DEF Load, wire, record
  <2>2. CASE Replace(k) \/ LoadFails(k)
    <3>1. UNCHANGED <<got, refused>>
      BY <2>2 DEF Replace, LoadFails, record
    <3>2. PICK r : Reply(job[k].at, r)
      BY <2>2 DEF Replace, LoadFails
    <3>3. PICK c \in Conns : c = job[k].at
      <4>1. job[k].st # "idle"
        BY <2>2 DEF Replace, LoadFails
      <4>2. QED BY <1>1, <4>1 DEF Types, NodeTypes
    <3>4. \E x : conn' = [conn EXCEPT ![c] = [conn[c] EXCEPT !.reply = x]]
      BY <1>1, <3>2, <3>3 DEF Reply
    <3>5. QED BY <1>2, <1>4, <3>1, <3>4, ShrunkStreams
  <2>3. QED BY <1>9, <2>1, <2>2 DEF Applies
<1>10. CASE Park
  <2>1. PICK c \in Conns : c = NewConn /\ conn[c] = Unused
    BY <1>10, FreshStream DEF Park
  <2>2. conn' = [conn EXCEPT ![c] = Parked] /\ Parked.q = conn[c].q /\ UNCHANGED <<got, refused>>
    BY <1>10, <2>1, UnusedStream DEF Park, record
  <2>3. QED BY <1>2, <1>4, <2>2
<1>11. CASE Call
  <2>1. /\ UNCHANGED <<got, refused, sock, send, fate, tangled, node, job>>
        /\ ctl.st = "connect"
    BY <1>11 DEF Call, record, sender, server
  <2>2. \/ UNCHANGED conn
        \/ /\ Free # {} /\ ctl' = [ctl EXCEPT !.st = "wait", !.at = NewConn]
           /\ conn' = [conn EXCEPT ![NewConn] = Written(Connected, Frame("configure", ctl.k, 2))]
    BY <1>11 DEF Call
  <2>3. ASSUME Free # {} PROVE NewConn \in Conns /\ conn[NewConn].q = <<>> /\ NewConn # sock
    <3>1. NewConn \in Conns /\ conn[NewConn].q = <<>> /\ conn[NewConn].near = "closed"
      BY <2>3, FreshStream, UnusedStream
    <3>2. QED BY <3>1, Constants DEF Base, NearOK
  <2>4. QED BY <1>3, <1>5, <2>1, <2>2, <2>3, UnusedStream
<1>12. ASSUME Answer \/ GiveUp PROVE Goal
  <2>1. /\ ctl.st = "wait" /\ conn' = [conn EXCEPT ![ctl.at] = CloseNear(conn[ctl.at])]
        /\ UNCHANGED <<got, refused>>
    BY <1>12 DEF Answer, GiveUp, HangUp, record
  <2>2. ctl.at \in Conns
    BY <1>1, <2>1 DEF Types, CtlTypes
  <2>3. QED BY <1>2, <1>4, <2>1, <2>2, ShrunkStreams
<1>13. ASSUME StartConfigure \/ RelayStarts \/ Restart PROVE Goal
  BY <1>3, <1>13 DEF StartConfigure, RelayStarts, Restart, wire, record
<1>14. ASSUME NEW l \in {"gone", "reset"}, Crash(l) PROVE Goal
  <2>1. /\ conn' = [c \in Conns |-> IF conn[c].far = "closed" THEN conn[c] ELSE CloseFar(conn[c], l)]
        /\ UNCHANGED <<got, refused>>
    BY <1>14 DEF Crash
  <2>2. \A c \in Conns : Start(conn'[c].q, conn[c].q)
    BY <1>2, <2>1, ShrunkStreams
  <2>3. QED BY <2>1, <2>2 DEF Shrunk
<1>15. ASSUME NEW l \in {"gone", "reset"}, NEW k \in 0..2, RelayStops(k, l) PROVE Goal
  <2>1. conn' = [c \in Conns |->
                  CASE conn[c].near = "relay" -> CloseNear(conn[c])
                    [] conn[c] = Unused -> Unused
                    [] OTHER -> Cut(conn[c], k, l, conn[c].link = "up")]
        /\ UNCHANGED <<got, refused>>
    BY <1>15 DEF RelayStops
  <2>2. ASSUME NEW c \in Conns PROVE Start(conn'[c].q, conn[c].q)
    <3>1. \/ conn'[c] = CloseNear(conn[c])
          \/ conn'[c] = conn[c]
          \/ conn'[c] = Cut(conn[c], k, l, conn[c].link = "up")
      <4>1. CASE conn[c].near = "relay"
        BY <2>1, <4>1, UnusedStream
      <4>2. CASE conn[c] = Unused
        BY <2>1, <4>2, UnusedStream
      <4>3. CASE conn[c].near # "relay" /\ conn[c] # Unused
        BY <2>1, <4>3
      <4>4. QED BY <4>1, <4>2, <4>3
    <3>2. k \in Nat /\ (conn[c].link = "up") \in BOOLEAN
      OBVIOUS
    <3>3. Start(Cut(conn[c], k, l, conn[c].link = "up").q, conn[c].q)
      BY <1>2, <3>2, ShrunkStreams
    <3>4. QED BY <1>2, <3>1, <3>3, ShrunkStreams
  <2>3. QED BY <2>1, <2>2 DEF Shrunk
<1>16. ASSUME NEW l \in {"gone", "reset"}, NEW k \in 0..2, NEW c \in Conns, Break(c, k, l)
       PROVE  Goal
  <2>1. conn' = [conn EXCEPT ![c] = Cut(conn[c], k, l, l = "reset")] /\ UNCHANGED <<got, refused>>
    BY <1>16 DEF Break
  <2>2. (l = "reset") \in BOOLEAN /\ k \in Nat
    OBVIOUS
  <2>3. Start(Cut(conn[c], k, l, l = "reset").q, conn[c].q)
    BY <1>2, <2>2, ShrunkStreams
  <2>4. QED BY <1>4, <2>1, <2>3
<1>17. CASE UNCHANGED vars
  BY <1>3, <1>17 DEF vars, wire, record
<1>18. QED
  BY <1>6, <1>7, <1>8, <1>9, <1>10, <1>11, <1>12, <1>13, <1>14, <1>15, <1>16, <1>17 DEF Next, Faults

-----------------------------------------------------------------------------
(* At most once *)

(* No call that is under way or to come is taken for sent.                 *)
FatesMove == Pending' /\ \A m \in Msgs : fate[m] = "sent" <=> fate'[m] = "sent"

LEMMA CurrentOf ==
    ASSUME Base, NEW t \in Threads, send[t].n <= Len(Script[t])
    PROVE  send[t].n \in DOMAIN Script[t] /\ Current(t) = Script[t][send[t].n] /\ Current(t) \in Msgs
<1>1. send[t].n \in 1..Len(Script[t])
  BY Scripts DEF Base, CallsOK
<1>2. QED BY <1>1, Scripts DEF Current

(* Failures raise what was begun, and nothing else.                        *)
LEMMA FailMovesFates ==
    ASSUME Base, Pending, NEW calls \in [Threads -> Calls], Fail(calls),
           \A t \in Threads : calls[t] = send[t] \/ (send[t].st # "idle" /\ Failed(send[t], calls[t]))
    PROVE  FatesMove
<1>1. /\ send' = calls /\ fate \in [Msgs -> {"new", "begun", "sent", "raised"}]
      /\ send \in [Threads -> Calls]
      /\ fate' = [m \in Msgs |-> IF \E t \in Threads : calls[t].n # send[t].n /\ m = Current(t)
                                 THEN "raised" ELSE fate[m]]
  BY DEF Fail, Base, Types, SendTypes
<1>2. ASSUME NEW t \in Threads, calls[t].n # send[t].n
      PROVE  /\ send[t].n \in DOMAIN Script[t] /\ Current(t) = Script[t][send[t].n] /\ Current(t) \in Msgs
             /\ calls[t].n = send[t].n + 1
             /\ fate[Current(t)] \in {"new", "begun"}
  <2>1. send[t].st # "idle" /\ calls[t].n = send[t].n + 1
    BY <1>2 DEF Failed
  <2>2. send[t].n <= Len(Script[t])
    BY <2>1 DEF Base, CallsOK
  <2>3. /\ send[t].n \in DOMAIN Script[t] /\ Current(t) = Script[t][send[t].n] /\ Current(t) \in Msgs
    BY <2>2, CurrentOf
  <2>4. send[t].n \in Nat
    BY <1>1 DEF Calls
  <2>5. send[t].n <= send[t].n
    BY <2>4
  <2>6. fate[Current(t)] \in {"new", "begun"}
    BY <2>3, <2>5 DEF Pending
  <2>7. QED BY <2>1, <2>3, <2>6
<1>3. ASSUME NEW m \in Msgs PROVE fate[m] = "sent" <=> fate'[m] = "sent"
  <2>1. CASE \E t \in Threads : calls[t].n # send[t].n /\ m = Current(t)
    BY <1>1, <1>2, <2>1
  <2>2. CASE ~\E t \in Threads : calls[t].n # send[t].n /\ m = Current(t)
    BY <1>1, <2>2
  <2>3. QED BY <2>1, <2>2
<1>4. ASSUME NEW t \in Threads, NEW i \in DOMAIN Script[t], calls[t].n <= i
      PROVE  fate'[Script[t][i]] \in {"new", "begun"}
  <2>1. /\ send[t].n \in Nat /\ calls[t].n \in Nat /\ i \in Nat /\ send[t].n <= calls[t].n
        /\ Script[t][i] \in Msgs
    BY <1>1, <1>2, Scripts DEF Calls
  <2>2. ~\E u \in Threads : calls[u].n # send[u].n /\ Script[t][i] = Current(u)
    <3>1. ASSUME NEW u \in Threads, calls[u].n # send[u].n, Script[t][i] = Current(u) PROVE FALSE
      <4>1. /\ send[u].n \in DOMAIN Script[u] /\ Script[t][i] = Script[u][send[u].n]
            /\ calls[u].n = send[u].n + 1
        BY <1>2, <3>1
      <4>2. t = u
        BY <4>1, Scripts
      <4>3. i = send[u].n
        BY <4>1, <4>2, Scripts
      <4>4. QED BY <1>4, <2>1, <4>1, <4>2, <4>3
    <3>2. QED BY <3>1
  <2>3. fate'[Script[t][i]] = fate[Script[t][i]]
    BY <1>1, <2>1, <2>2
  <2>4. send[t].n <= i
    BY <1>4, <2>1
  <2>5. QED BY <2>3, <2>4 DEF Pending
<1>5. QED BY <1>1, <1>3, <1>4 DEF FatesMove, Pending

LEMMA FateMoves ==
    ASSUME Base, Base', Pending, [Next]_vars
    PROVE  FatesMove \/ \E t \in Threads : Write(t, 2)
<1>1. /\ Types /\ send \in [Threads -> Calls] /\ send' \in [Threads -> Calls]
      /\ fate \in [Msgs -> {"new", "begun", "sent", "raised"}]
  BY DEF Base, Types, SendTypes
<1>2. ASSUME fate' = fate, \A t \in Threads : send'[t].n = send[t].n PROVE FatesMove
  BY <1>2 DEF FatesMove, Pending
<1>3. ASSUME NEW bs, DialFailed(bs), \A t \in Threads : t \in bs => send[t].st # "idle"
      PROVE  FatesMove
  <2>1. \A t \in Threads : IF t \in bs THEN Failed(send[t], send'[t]) ELSE send'[t] = send[t]
    BY <1>1, <1>3, DialFailedTypes
  <2>2. Fail(send')
    BY <1>3 DEF DialFailed, Fail
  <2>3. QED BY <1>1, <1>3, <2>1, <2>2, FailMovesFates
<1>4. ASSUME NEW t \in Threads, NEW r, send[t].st # "idle", Failed(send[t], r), Fail([send EXCEPT ![t] = r])
      PROVE  FatesMove
  <2>1. [send EXCEPT ![t] = r] \in [Threads -> Calls]
    BY <1>1, <1>4 DEF Failed
  <2>2. \A u \in Threads : \/ [send EXCEPT ![t] = r][u] = send[u]
                           \/ send[u].st # "idle" /\ Failed(send[u], [send EXCEPT ![t] = r][u])
    BY <1>1, <1>4
  <2>3. QED BY <1>4, <2>1, <2>2, FailMovesFates
<1>5. \A d \in dials : ~d.left /\ d.by \in Threads => send[d.by].st = "dial"
  BY Constants DEF Base, DialsOK
<1>6. ASSUME NEW t \in Threads, Sends(t) PROVE FatesMove \/ Write(t, 2)
  <2>1. send[t] \in Calls
    BY <1>1
  <2>2. CASE BeginSend(t)
    <3>1. /\ send[t].n <= Len(Script[t]) /\ fate' = [fate EXCEPT ![Current(t)] = "begun"]
          /\ send' = [send EXCEPT ![t].st = IF sock = 0 THEN "connect" ELSE "first"]
      BY <2>2 DEF BeginSend
    <3>2. \A u \in Threads : send'[u].n = send[u].n
      BY <1>1, <3>1 DEF Calls
    <3>3. send[t].n \in DOMAIN Script[t] /\ Current(t) = Script[t][send[t].n] /\ Current(t) \in Msgs
      BY <3>1, CurrentOf
    <3>4. send[t].n <= send[t].n
      BY <2>1 DEF Calls
    <3>5. fate[Current(t)] \in {"new", "begun"}
      BY <3>3, <3>4 DEF Pending
    <3>6. \A u \in Threads : \A i \in DOMAIN Script[u] : Script[u][i] \in Msgs
      BY Scripts
    <3>7. \A m \in Msgs : fate'[m] = IF m = Current(t) THEN "begun" ELSE fate[m]
      BY <1>1, <3>1
    <3>8. QED BY <3>2, <3>5, <3>6, <3>7 DEF FatesMove, Pending
  <2>3. CASE Connect(t)
    <3>1. \/ fate' = fate /\ \E st \in {"first", "dial"} : send' = [send EXCEPT ![t].st = st]
          \/ Fail([send EXCEPT ![t] = TryFailed(send[t])])
      BY <2>3 DEF Connect
    <3>2. Failed(send[t], TryFailed(send[t]))
      BY <2>1, FailedCalls
    <3>3. ASSUME NEW st \in {"first", "dial"}, send' = [send EXCEPT ![t].st = st]
          PROVE  \A u \in Threads : send'[u].n = send[u].n
      BY <1>1, <3>3 DEF Calls
    <3>4. send[t].st # "idle"
      BY <2>3 DEF Connect
    <3>5. QED BY <1>2, <1>4, <3>1, <3>2, <3>3, <3>4
  <2>4. CASE Write(t, 1)
    <3>1. fate' = fate /\ send' = [send EXCEPT ![t].st = "rest"]
      BY <2>4 DEF Write
    <3>2. \A u \in Threads : send'[u].n = send[u].n
      BY <1>1, <3>1 DEF Calls
    <3>3. QED BY <1>2, <3>1, <3>2
  <2>5. CASE WriteFails(t)
    <3>1. send[t].st # "idle" /\ Fail([send EXCEPT ![t] = AttemptFailed(send[t])])
      BY <2>5 DEF WriteFails
    <3>2. QED BY <1>4, <2>1, <3>1, FailedCalls
  <2>6. QED BY <1>6, <2>2, <2>3, <2>4, <2>5 DEF Sends
<1>7. ASSUME NEW d \in dials, Dials(d) \/ LeaveDial(d) PROVE FatesMove
  <2>1. CASE DialPop(d)
    BY <1>2, <2>1 DEF DialPop, sender
  <2>2. ASSUME DialRefused(d) \/ LeaveDial(d) PROVE FatesMove
    <3>1. UNCHANGED <<send, fate>> \/ (~d.left /\ DialFailed({d.by}))
      BY <2>2 DEF DialRefused, LeaveDial
    <3>2. QED BY <1>2, <1>3, <1>5, <3>1
  <2>3. CASE DialHand(d)
    <3>1. /\ UNCHANGED fate
          /\ \/ UNCHANGED send
             \/ d.by # Ctl /\ send' = [send EXCEPT ![d.by].st = "first"]
      BY <2>3 DEF DialHand, Answered
    <3>2. d.by # Ctl => d.by \in Threads
      BY DEF Base, Types, WireTypes, Diallers
    <3>3. \A u \in Threads : send'[u].n = send[u].n
      BY <1>1, <3>1, <3>2 DEF Calls
    <3>4. QED BY <1>2, <3>1, <3>3
  <2>4. QED BY <1>7, <2>1, <2>2, <2>3 DEF Dials
<1>8. ASSUME NEW c \in Conns, Serves(c) \/ Notice(c) PROVE UNCHANGED <<send, fate>>
  BY <1>8 DEF Serves, ParkerWakes, Accept, ReadData, ReadEnds, ConfigureBegins, Notice, sender
<1>9. ASSUME NEW k \in Configs, Applies(k) \/ LoadFails(k) PROVE UNCHANGED <<send, fate>>
  BY <1>9 DEF Applies, Load, Replace, LoadFails, sender
<1>10. ASSUME Park \/ RelayStarts \/ Restart \/ StartConfigure \/ Call \/ Answer \/ GiveUp
       PROVE  UNCHANGED <<send, fate>>
  BY <1>10 DEF Park, RelayStarts, Restart, StartConfigure, Call, Answer, GiveUp, HangUp, sender
<1>11. ASSUME NEW l \in {"gone", "reset"}, Crash(l) PROVE UNCHANGED <<send, fate>>
  BY <1>11 DEF Crash, sender
<1>12. ASSUME NEW l \in {"gone", "reset"}, NEW k \in 0..2, RelayStops(k, l) PROVE FatesMove
  <2>1. DialFailed({d.by : d \in {x \in dials : ~x.left}})
    BY <1>12 DEF RelayStops
  <2>2. \A t \in Threads : t \in {d.by : d \in {x \in dials : ~x.left}} => send[t].st # "idle"
    BY <1>5
  <2>3. QED BY <1>3, <2>1, <2>2
<1>13. ASSUME NEW l \in {"gone", "reset"}, NEW k \in 0..2, NEW c \in Conns, Break(c, k, l)
       PROVE  UNCHANGED <<send, fate>>
  BY <1>13 DEF Break, sender
<1>14. CASE UNCHANGED vars
  BY <1>2, <1>14 DEF vars, sender
<1>15. QED
  BY <1>2, <1>6, <1>7, <1>8, <1>9, <1>10, <1>11, <1>12, <1>13, <1>14 DEF Next, Faults

(* Frames only leave a stream: copies are where they were, n places        *)
(* further on.                                                             *)
LEMMA CopiesLeave ==
    ASSUME NEW c \in Conns, NEW n \in Nat, NEW m \in Msgs, NEW i \in Nat, Copy(m, c, i)',
           \/ n = 0 /\ Start(conn'[c].q, conn[c].q)
           \/ After(conn'[c].q, conn[c].q, n)
    PROVE  Copy(m, c, i + n)
BY DEF Copy, Start, After

LEMMA CopiesStep ==
    ASSUME Base, Base', Pending, CopiesOK, [Next]_vars
    PROVE  Pending' /\ CopiesOK'
<1>1. /\ conn \in [Conns -> StreamType] /\ conn' \in [Conns -> StreamType]
      /\ fate \in [Msgs -> {"new", "begun", "sent", "raised"}] /\ got \in [Msgs -> Nat]
      /\ sock \in Conns \cup {0} /\ send \in [Threads -> Calls] /\ refused \subseteq Msgs
  BY DEF Base, Types, WireTypes, SendTypes
<1>2. \A c \in Conns : conn[c] \in StreamType /\ conn[c].q \in Seq(Frames) /\ Start(conn[c].q, conn[c].q)
  BY <1>1, StreamFields, ShrunkStreams
(* Steps that add no copy and handle nothing.                              *)
<1>3. ASSUME FatesMove, UNCHANGED <<got, refused>>,
             \A m \in Msgs : \A c \in Conns : \A i \in Nat : Copy(m, c, i)' => Copy(m, c, i)
      PROVE  CopiesOK'
  <2>1. ASSUME NEW m \in Msgs, fate'[m] # "sent"
        PROVE  /\ got'[m] = 0 /\ m \notin refused'
               /\ \A c \in Conns : \A i \in Nat : ~Copy(m, c, i)'
    BY <1>3, <2>1 DEF FatesMove, CopiesOK
  <2>2. \A m \in Msgs : \A c, d \in Conns : \A i, j \in Nat :
          Copy(m, c, i)' /\ Copy(m, d, j)' => c = d /\ i = j
    BY <1>3 DEF CopiesOK
  <2>3. \A m \in Msgs : \A c \in Conns : \A i \in Nat :
          Copy(m, c, i)' => got'[m] = 0 /\ m \notin refused'
    BY <1>3 DEF CopiesOK
  <2>4. \A m \in Msgs : got'[m] + (IF m \in refused' THEN 1 ELSE 0) <= 1
    BY <1>3 DEF CopiesOK
  <2>5. QED BY <2>1, <2>2, <2>3, <2>4 DEF CopiesOK
<1>4. ASSUME FatesMove, Shrunk, UNCHANGED <<got, refused>> PROVE CopiesOK'
  <2>1. ASSUME NEW m \in Msgs, NEW c \in Conns, NEW i \in Nat, Copy(m, c, i)' PROVE Copy(m, c, i)
    <3>1. Copy(m, c, i + 0)
      BY <1>4, <2>1, CopiesLeave DEF Shrunk
    <3>2. QED BY <3>1
  <2>2. QED BY <1>3, <1>4, <2>1
<1>5. ASSUME NEW t \in Threads, NEW p \in {1, 2}, Write(t, p)
      PROVE  /\ sock \in Conns /\ send[t].n \in DOMAIN Script[t] /\ Current(t) = Script[t][send[t].n]
             /\ Current(t) \in Msgs /\ UNCHANGED <<got, refused>>
             /\ \A m \in Msgs : \A c \in Conns : \A i \in Nat : Copy(m, c, i)' =>
                   \/ Copy(m, c, i)
                   \/ p = 2 /\ m = Current(t) /\ c = sock /\ i = Len(conn[sock].q) + 1
  <2>1. /\ sock \in Conns /\ send[t].st # "idle" /\ UNCHANGED <<got, refused>>
        /\ conn' = [conn EXCEPT ![sock] = Written(conn[sock], Frame("data", Current(t), p))]
    BY <1>1, <1>5 DEF Write
  <2>2. send[t].n <= Len(Script[t])
    BY <2>1 DEF Base, CallsOK
  <2>3. send[t].n \in DOMAIN Script[t] /\ Current(t) = Script[t][send[t].n] /\ Current(t) \in Msgs
    BY <2>2, CurrentOf
  <2>4. PICK f \in Frames : f = Frame("data", Current(t), p)
    BY <2>3, FramesOf
  <2>5. /\ conn'[sock].q \in {Append(conn[sock].q, f), conn[sock].q}
        /\ \A c \in Conns : c # sock => conn'[c] = conn[c]
    <3>1. Written(conn[sock], f).q \in {Append(conn[sock].q, f), conn[sock].q}
      BY <1>2, <2>1, WrittenTo
    <3>2. conn'[sock] = Written(conn[sock], f) /\ \A c \in Conns : c # sock => conn'[c] = conn[c]
      BY <1>1, <2>1, <2>4
    <3>3. QED BY <3>1, <3>2
  <2>6. ASSUME NEW m \in Msgs, NEW c \in Conns, NEW i \in Nat, Copy(m, c, i)'
        PROVE  \/ Copy(m, c, i)
               \/ p = 2 /\ m = Current(t) /\ c = sock /\ i = Len(conn[sock].q) + 1
    <3>1. CASE c # sock \/ conn'[c].q = conn[c].q
      BY <2>5, <2>6, <3>1 DEF Copy
    <3>2. CASE c = sock /\ conn'[sock].q = Append(conn[sock].q, f)
      <4>1. PICK q \in Seq(Frames) : q = conn[sock].q
        BY <1>2, <2>1
      <4>2. /\ Len(q) \in Nat /\ DOMAIN q = 1..Len(q) /\ DOMAIN Append(q, f) = 1..(Len(q) + 1)
            /\ Append(q, f)[Len(q) + 1] = f /\ \A j \in 1..Len(q) : Append(q, f)[j] = q[j]
        <5>1. /\ Append(q, f) \in Seq(Frames) /\ Len(Append(q, f)) = Len(q) + 1
              /\ Append(q, f)[Len(q) + 1] = f /\ \A j \in 1..Len(q) : Append(q, f)[j] = q[j]
          BY AppendProperties
        <5>2. QED BY <5>1, LenProperties
      <4>3. i \in 1..(Len(q) + 1) /\ Append(q, f)[i] = Frame("data", m, 2)
        BY <2>6, <3>2, <4>1, <4>2 DEF Copy
      <4>4. CASE i \in 1..Len(q)
        BY <3>2, <4>1, <4>2, <4>3, <4>4 DEF Copy
      <4>5. CASE i = Len(q) + 1
        <5>1. f = Frame("data", m, 2)
          BY <4>2, <4>3, <4>5
        <5>2. p = 2 /\ m = Current(t)
          BY <2>4, <5>1 DEF Frame
        <5>3. QED BY <3>2, <4>1, <4>5, <5>2
      <4>6. QED BY <4>2, <4>3, <4>4, <4>5
    <3>3. QED BY <2>5, <3>1, <3>2
  <2>7. QED BY <2>1, <2>3, <2>6
<1>6. ASSUME NEW t \in Threads, Write(t, 1), FatesMove PROVE CopiesOK'
  <2>1. \A m \in Msgs : \A c \in Conns : \A i \in Nat : Copy(m, c, i)' => Copy(m, c, i)
    BY <1>5, <1>6
  <2>2. UNCHANGED <<got, refused>>
    BY <1>5, <1>6
  <2>3. QED BY <1>3, <1>6, <2>1, <2>2
(* The whole of a message is written.                                      *)
<1>7. ASSUME NEW t \in Threads, Write(t, 2) PROVE Pending' /\ CopiesOK'
  <2>1. PICK x \in Msgs : x = Current(t)
    BY <1>5, <1>7
  <2>2. /\ send[t].n \in DOMAIN Script[t] /\ x = Script[t][send[t].n] /\ UNCHANGED <<got, refused>>
        /\ \A m \in Msgs : \A c \in Conns : \A i \in Nat : Copy(m, c, i)' =>
              Copy(m, c, i) \/ (m = x /\ c = sock /\ i = Len(conn[sock].q) + 1)
    BY <1>5, <1>7, <2>1
  <2>3. /\ fate' = [fate EXCEPT ![x] = "sent"]
        /\ send' = [send EXCEPT ![t] = [n |-> send[t].n + 1, st |-> "idle", attempt |-> 0, tries |-> 0]]
    BY <1>7, <2>1 DEF Write
  <2>4. send[t].n \in Nat /\ send[t].n <= send[t].n
    BY <1>1 DEF Calls
  <2>5. fate[x] \in {"new", "begun"}
    BY <2>2, <2>4 DEF Pending
  <2>6. /\ got[x] = 0 /\ x \notin refused
        /\ \A c \in Conns : \A i \in Nat : ~Copy(x, c, i)
    BY <2>5 DEF CopiesOK
  <2>7. \A m \in Msgs : fate'[m] = IF m = x THEN "sent" ELSE fate[m]
    BY <1>1, <2>3
  <2>8. ASSUME NEW u \in Threads, NEW i \in DOMAIN Script[u], send'[u].n <= i
        PROVE  fate'[Script[u][i]] \in {"new", "begun"}
    <3>1. /\ send[u].n \in Nat /\ i \in Nat /\ Script[u][i] \in Msgs
          /\ send'[u].n = IF u = t THEN send[t].n + 1 ELSE send[u].n
      BY <1>1, <2>3, Scripts DEF Calls
    <3>2. Script[u][i] # x
      <4>1. ASSUME Script[u][i] = x PROVE FALSE
        <5>1. u = t
          BY <2>2, <4>1, Scripts
        <5>2. i = send[t].n
          BY <2>2, <4>1, <5>1, Scripts
        <5>3. QED BY <2>4, <2>8, <3>1, <5>1, <5>2
      <4>2. QED BY <4>1
    <3>3. send[u].n <= i
      BY <2>8, <3>1
    <3>4. QED BY <2>7, <3>1, <3>2, <3>3 DEF Pending
  <2>9. \A m \in Msgs : fate'[m] # "sent" =>
          /\ got'[m] = 0 /\ m \notin refused'
          /\ \A c \in Conns : \A i \in Nat : ~Copy(m, c, i)'
    BY <2>2, <2>7 DEF CopiesOK
  <2>10. \A m \in Msgs : \A c, d \in Conns : \A i, j \in Nat :
           Copy(m, c, i)' /\ Copy(m, d, j)' => c = d /\ i = j
    BY <2>2, <2>6 DEF CopiesOK
  <2>11. \A m \in Msgs : \A c \in Conns : \A i \in Nat :
           Copy(m, c, i)' => got'[m] = 0 /\ m \notin refused'
    BY <2>2, <2>6 DEF CopiesOK
  <2>12. \A m \in Msgs : got'[m] + (IF m \in refused' THEN 1 ELSE 0) <= 1
    BY <2>2 DEF CopiesOK
  <2>13. QED BY <2>8, <2>9, <2>10, <2>11, <2>12 DEF Pending, CopiesOK
<1>8. ASSUME NEW c \in Conns, Orders(c), FatesMove PROVE CopiesOK'
  <2>1. ASSUME NEW m \in Msgs, NEW d \in Conns, NEW i \in Nat, Copy(m, d, i)' PROVE Copy(m, d, i)
    <3>1. CASE d # c
      BY <1>8, <2>1, <3>1 DEF Orders, Copy
    <3>2. CASE d = c
      <4>1. conn'[c].q = <<>> \/ conn'[c].q = <<Frame("configure", ctl.k, 2)>>
        BY <1>8 DEF Orders
      <4>2. i \in DOMAIN conn'[c].q /\ conn'[c].q[i] = Frame("data", m, 2)
        BY <2>1, <3>2 DEF Copy
      <4>3. i = 1 /\ conn'[c].q[1] = Frame("configure", ctl.k, 2)
        BY <4>1, <4>2
      <4>4. QED BY <4>2, <4>3 DEF Frame
    <3>3. QED BY <3>1, <3>2
  <2>2. QED BY <1>3, <1>8, <2>1 DEF Orders
<1>9. ASSUME NEW c \in Conns, ReadData(c) \/ ConfigureBegins(c)
      PROVE  /\ \E n \in {1, 2} : After(conn'[c].q, conn[c].q, n) /\ (ReadData(c) => n = 2)
             /\ \A d \in Conns : d # c => conn'[d] = conn[d]
  <2>1. /\ WholeHead(conn[c].q)
        /\ conn' = [conn EXCEPT ![c] = [conn[c] EXCEPT !.q = Rest(conn[c].q)]]
        /\ IF ReadData(c) THEN conn[c].q[1].kind = "data" ELSE conn[c].q[1].kind = "configure"
    BY <1>9 DEF ReadData, ConfigureBegins
  <2>2. /\ conn'[c].q = Rest(conn[c].q) /\ \A d \in Conns : d # c => conn'[d] = conn[d]
    BY <1>1, <1>2, <2>1 DEF StreamType
  <2>3. QED BY <1>2, <2>1, <2>2, WholeHeads
(* Frames are read: no copy is made, and copies stay apart.                *)
<1>10. ASSUME NEW c \in Conns, ReadData(c) \/ ConfigureBegins(c)
       PROVE  /\ \A m \in Msgs : \A d \in Conns : \A i \in Nat : Copy(m, d, i)' =>
                    \E j \in Nat : Copy(m, d, j) /\ (ReadData(c) /\ d = c => j # 2)
              /\ \A m \in Msgs : \A d, e \in Conns : \A i, j \in Nat :
                    Copy(m, d, i)' /\ Copy(m, e, j)' => d = e /\ i = j
  <2>0. \A d \in Conns : d # c => conn'[d] = conn[d]
    BY <1>9, <1>10
  <2>1. PICK n \in {1, 2} : After(conn'[c].q, conn[c].q, n) /\ (ReadData(c) => n = 2)
    BY <1>9, <1>10
  <2>2. ASSUME NEW m \in Msgs, NEW d \in Conns, NEW i \in Nat, Copy(m, d, i)'
        PROVE  Copy(m, d, IF d = c THEN i + n ELSE i) /\ (ReadData(c) /\ d = c => i + n # 2)
    <3>1. CASE d = c
      <4>1. n \in Nat
        OBVIOUS
      <4>2. Copy(m, c, i + n)
        BY <2>1, <2>2, <3>1, <4>1, CopiesLeave
      <4>3. i # 0
        <5>1. i \in DOMAIN conn'[c].q /\ conn'[c].q \in Seq(Frames)
          BY <2>1, <2>2, <3>1 DEF Copy, After
        <5>2. DOMAIN conn'[c].q = 1..Len(conn'[c].q)
          BY <5>1, LenProperties
        <5>3. QED BY <5>1, <5>2
      <4>4. QED BY <2>1, <3>1, <4>2, <4>3
    <3>2. CASE d # c
      BY <2>0, <2>2, <3>2 DEF Copy
    <3>3. QED BY <3>1, <3>2
  <2>3. ASSUME NEW m \in Msgs, NEW d \in Conns, NEW e \in Conns, NEW i \in Nat, NEW j \in Nat,
               Copy(m, d, i)', Copy(m, e, j)'
        PROVE  d = e /\ i = j
    <3>1. /\ Copy(m, d, IF d = c THEN i + n ELSE i) /\ Copy(m, e, IF e = c THEN j + n ELSE j)
          /\ (IF d = c THEN i + n ELSE i) \in Nat /\ (IF e = c THEN j + n ELSE j) \in Nat
      BY <2>2, <2>3
    <3>2. d = e /\ (IF d = c THEN i + n ELSE i) = (IF e = c THEN j + n ELSE j)
      BY <3>1 DEF CopiesOK
    <3>3. QED BY <3>2
  <2>4. ASSUME NEW m \in Msgs, NEW d \in Conns, NEW i \in Nat, Copy(m, d, i)'
        PROVE  \E j \in Nat : Copy(m, d, j) /\ (ReadData(c) /\ d = c => j # 2)
    <3>1. PICK j \in Nat : j = IF d = c THEN i + n ELSE i
      OBVIOUS
    <3>2. QED BY <2>2, <2>4, <3>1
  <2>5. QED BY <2>3, <2>4
<1>11. ASSUME NEW c \in Conns, ConfigureBegins(c), FatesMove PROVE CopiesOK'
  <2>1. UNCHANGED <<got, refused>>
    BY <1>11 DEF ConfigureBegins, record
  <2>2. /\ \A m \in Msgs : \A d \in Conns : \A i \in Nat : Copy(m, d, i)' =>
                \E j \in Nat : Copy(m, d, j)
        /\ \A m \in Msgs : \A d, e \in Conns : \A i, j \in Nat :
                Copy(m, d, i)' /\ Copy(m, e, j)' => d = e /\ i = j
    BY <1>10, <1>11
  <2>3. \A m \in Msgs : fate'[m] # "sent" =>
          /\ got'[m] = 0 /\ m \notin refused'
          /\ \A d \in Conns : \A i \in Nat : ~Copy(m, d, i)'
    BY <1>11, <2>1, <2>2 DEF FatesMove, CopiesOK
  <2>4. \A m \in Msgs : \A d \in Conns : \A i \in Nat :
           Copy(m, d, i)' => got'[m] = 0 /\ m \notin refused'
    BY <2>1, <2>2 DEF CopiesOK
  <2>5. \A m \in Msgs : got'[m] + (IF m \in refused' THEN 1 ELSE 0) <= 1
    BY <2>1 DEF CopiesOK
  <2>6. QED BY <2>2, <2>3, <2>4, <2>5 DEF CopiesOK
(* The one copy of a message is taken and counted.                         *)
<1>12. ASSUME NEW c \in Conns, ReadData(c), FatesMove PROVE CopiesOK'
  <2>1. /\ WholeHead(conn[c].q) /\ conn[c].q[1].kind = "data"
        /\ \/ refused' = refused \cup {conn[c].q[1].of} /\ got' = got
           \/ got' = [got EXCEPT ![conn[c].q[1].of] = @ + 1] /\ refused' = refused
    BY <1>12 DEF ReadData
  <2>2. PICK x \in Msgs : x = conn[c].q[1].of /\ Copy(x, c, 2)
    <3>1. /\ conn[c].q[1] \in Frames /\ 2 \in DOMAIN conn[c].q
          /\ conn[c].q[2] = [conn[c].q[1] EXCEPT !.part = 2]
      BY <1>2, <2>1, WholeHeads DEF After
    <3>2. conn[c].q[1].of \in Msgs /\ conn[c].q[2] = Frame("data", conn[c].q[1].of, 2)
      BY <2>1, <3>1 DEF Frames, Frame
    <3>3. QED BY <3>1, <3>2 DEF Copy
  <2>3. got[x] = 0 /\ x \notin refused
    BY <2>2 DEF CopiesOK
  <2>4. fate[x] = "sent"
    BY <2>2 DEF CopiesOK
  <2>5. \A m \in Msgs : m # x => got'[m] = got[m] /\ (m \in refused' <=> m \in refused)
    BY <1>1, <2>1, <2>2
  <2>6. got'[x] + (IF x \in refused' THEN 1 ELSE 0) <= 1
    BY <1>1, <2>1, <2>2, <2>3
  <2>7. /\ \A m \in Msgs : \A d \in Conns : \A i \in Nat : Copy(m, d, i)' =>
                \E j \in Nat : Copy(m, d, j) /\ (d = c => j # 2)
        /\ \A m \in Msgs : \A d, e \in Conns : \A i, j \in Nat :
                Copy(m, d, i)' /\ Copy(m, e, j)' => d = e /\ i = j
    BY <1>10, <1>12
  <2>8. \A d \in Conns : \A i \in Nat : ~Copy(x, d, i)'
    BY <2>2, <2>7 DEF CopiesOK
  <2>9. \A m \in Msgs : fate'[m] # "sent" =>
          /\ got'[m] = 0 /\ m \notin refused'
          /\ \A d \in Conns : \A i \in Nat : ~Copy(m, d, i)'
    BY <1>12, <2>4, <2>5, <2>7 DEF FatesMove, CopiesOK
  <2>10. \A m \in Msgs : \A d \in Conns : \A i \in Nat :
           Copy(m, d, i)' => got'[m] = 0 /\ m \notin refused'
    BY <2>5, <2>7, <2>8 DEF CopiesOK
  <2>11. \A m \in Msgs : got'[m] + (IF m \in refused' THEN 1 ELSE 0) <= 1
    BY <2>5, <2>6 DEF CopiesOK
  <2>12. QED BY <2>7, <2>9, <2>10, <2>11 DEF CopiesOK
<1>13. CASE \E t \in Threads : Write(t, 2)
  BY <1>7, <1>13
<1>14. CASE FatesMove /\ ~\E t \in Threads : Write(t, 2)
  <2>1. Pending'
    BY <1>14 DEF FatesMove
  <2>2. \/ Shrunk /\ UNCHANGED <<got, refused>>
        \/ \E t \in Threads : Write(t, 1)
        \/ \E c \in Conns : Orders(c) \/ ReadData(c) \/ ConfigureBegins(c)
    BY <1>14, QueueMoves
  <2>3. QED BY <1>4, <1>6, <1>8, <1>11, <1>12, <1>14, <2>1, <2>2
<1>15. QED BY <1>13, <1>14, FateMoves

(* AtMostOnce: no message is handled or refused twice, however often a     *)
(* write was repeated, and one whose send raised is not handled at all.    *)
THEOREM SentOnce ==
    Spec => []AtMostOnce
<1>1. ASSUME Init PROVE Pending /\ CopiesOK
  <2>1. /\ conn = [c \in Conns |-> Unused] /\ got = [m \in Msgs |-> 0] /\ refused = {}
        /\ fate = [m \in Msgs |-> "new"]
    BY <1>1 DEF Init
  <2>2. \A t \in Threads : \A i \in DOMAIN Script[t] : Script[t][i] \in Msgs
    BY Scripts
  <2>3. Pending
    BY <2>1, <2>2 DEF Pending
  <2>4. \A m \in Msgs : \A c \in Conns : \A i \in Nat : ~Copy(m, c, i)
    BY <2>1, UnusedStream DEF Copy
  <2>5. CopiesOK
    BY <2>1, <2>4 DEF CopiesOK
  <2>6. QED BY <2>3, <2>5
<1>2. Base /\ Base' /\ (Pending /\ CopiesOK) /\ [Next]_vars => (Pending /\ CopiesOK)'
  BY CopiesStep
<1>3. CopiesOK => AtMostOnce
  BY DEF CopiesOK, AtMostOnce
<1>4. QED BY <1>1, <1>2, <1>3, BaseInvariant, PTL DEF Spec

-----------------------------------------------------------------------------
(* Whole messages *)

Half(t) == LET q == conn[sock].q IN q # <<>> /\ q[Len(q)] = Frame("data", Current(t), 1)

(* What a queue ends in.                                                   *)
SameEnd(p, q) ==
    /\ Opened(p) => Opened(q)
    /\ \A m \in Msgs : q # <<>> /\ q[Len(q)] = Frame("data", m, 1) =>
                         p # <<>> /\ p[Len(p)] = Frame("data", m, 1)

(* The kept connection, as long as it carries what is written.             *)
SockGoesOn ==
    conn'[sock].link = "up" => conn[sock].link = "up" /\ SameEnd(conn'[sock].q, conn[sock].q)

LEMMA SameEnds ==
    ASSUME NEW q
    PROVE  SameEnd(q, q)
BY DEF SameEnd

(* The calls that are in the middle of a message stay so.                  *)
HalvesStay ==
    /\ sock' = sock
    /\ \A t \in Threads : /\ send'[t].st = "rest" <=> send[t].st = "rest"
                          /\ send[t].st = "rest" => send'[t].n = send[t].n

LEMMA HalfKept ==
    ASSUME Base, Base', HalfOK, HalvesStay, sock # 0 => SockGoesOn
    PROVE  HalfOK'
<1>1. sock \in Conns \cup {0} /\ sock' = sock
  BY DEF Base, Types, SendTypes, HalvesStay
<1>2. ASSUME NEW t \in Threads, send'[t].st = "rest", conn'[sock].link = "up" PROVE Half(t)'
  <2>1. send[t].st = "rest" /\ send'[t].n = send[t].n
    BY <1>2 DEF HalvesStay
  <2>2. sock # 0
    BY <2>1 DEF Base, DialsOK
  <2>3. conn[sock].link = "up" /\ SameEnd(conn'[sock].q, conn[sock].q)
    BY <1>2, <2>2 DEF SockGoesOn
  <2>4. Half(t)
    BY <2>1, <2>3 DEF HalfOK, Half
  <2>5. Current(t) \in Msgs /\ Current(t)' = Current(t)
    <3>1. send[t].n <= Len(Script[t])
      BY <2>1 DEF Base, CallsOK
    <3>2. QED BY <2>1, <3>1, CurrentOf DEF Current
  <2>6. QED BY <1>1, <2>3, <2>4, <2>5 DEF SameEnd, Half
<1>3. ASSUME sock # 0, conn'[sock].link = "up", \A t \in Threads : send'[t].st # "rest"
      PROVE  ~Opened(conn'[sock].q)
  <2>1. \A t \in Threads : send[t].st # "rest"
    BY <1>3 DEF HalvesStay
  <2>2. conn[sock].link = "up" /\ SameEnd(conn'[sock].q, conn[sock].q)
    BY <1>3 DEF SockGoesOn
  <2>3. QED BY <1>3, <2>1, <2>2 DEF HalfOK, SameEnd
<1>4. QED BY <1>1, <1>2, <1>3 DEF HalfOK, Half

(* Nobody is in the middle of a message.                                   *)
LEMMA NoHalf ==
    ASSUME \A t \in Threads : send'[t].st # "rest",
           sock' # 0 /\ conn'[sock'].link = "up" => ~Opened(conn'[sock'].q)
    PROVE  HalfOK'
BY DEF HalfOK

(* Reading whole messages leaves the end of a queue as it is.              *)
LEMMA ReadKeepsEnd ==
    ASSUME NEW q \in Seq(Frames), WholeHead(q)
    PROVE  SameEnd(Rest(q), q)
<1>1. PICK n \in {1, 2} : /\ After(Rest(q), q, n) /\ q[n] \in Frames
                          /\ q[n].kind = "configure" \/ q[n].part = 2
  <2>1. /\ q[1] \in Frames
        /\ q[1].kind = "configure" => After(Rest(q), q, 1)
        /\ q[1].kind = "data" =>
              /\ After(Rest(q), q, 2)
              /\ q[1].part = 1 /\ q[2] = [q[1] EXCEPT !.part = 2]
    BY WholeHeads
  <2>2. CASE q[1].kind = "configure"
    BY <2>1, <2>2
  <2>3. CASE q[1].kind = "data"
    <3>1. q[2] \in Frames /\ q[2].part = 2
      BY <2>1, <2>3 DEF Frames
    <3>2. QED BY <2>1, <2>3, <3>1
  <2>4. q[1].kind \in {"data", "configure"}
    BY <2>1, FramesOf
  <2>5. QED BY <2>2, <2>3, <2>4
<1>2. PICK p \in Seq(Frames) : p = Rest(q)
  BY <1>1 DEF After
<1>3. /\ Len(p) = Len(q) - n /\ n \in 1..Len(q) /\ Len(q) \in Nat /\ DOMAIN p = 1..Len(p) /\ Len(p) \in Nat
      /\ \A i \in 1..Len(p) : p[i] = q[i + n]
  BY <1>1, <1>2, LenProperties DEF After
<1>4. CASE p = <<>>
  <2>1. Len(p) = 0
    BY <1>4, EmptySeq
  <2>2. Len(q) = n
    BY <1>3, <2>1
  <2>3. ~Opened(p)
    BY <1>4 DEF Opened
  <2>4. \A m \in Msgs : q[Len(q)] # Frame("data", m, 1)
    BY <1>1, <2>2 DEF Frame
  <2>5. QED BY <1>2, <2>3, <2>4 DEF SameEnd
<1>5. CASE p # <<>>
  <2>1. Len(p) \in 1..Len(p)
    <3>1. Len(p) # 0
      BY <1>5, EmptySeq
    <3>2. QED BY <1>3, <3>1
  <2>2. Len(p) + n = Len(q)
    BY <1>3
  <2>3. p[Len(p)] = q[Len(q)] /\ q # <<>>
    BY <1>3, <2>1, <2>2, EmptySeq
  <2>4. QED BY <1>2, <1>5, <2>3 DEF SameEnd, Opened
<1>6. QED BY <1>4, <1>5

(* A write makes the half, or completes it.                                *)
LEMMA WriteEnds ==
    ASSUME NEW q \in Seq(Frames), NEW f \in Frames
    PROVE  /\ Append(q, f) \in Seq(Frames) /\ Append(q, f) # <<>> /\ Len(Append(q, f)) = Len(q) + 1
           /\ Append(q, f)[Len(Append(q, f))] = f
           /\ DOMAIN Append(q, f) = 1..(Len(q) + 1) /\ DOMAIN q = 1..Len(q) /\ Len(q) \in Nat
           /\ \A i \in 1..Len(q) : Append(q, f)[i] = q[i]
<1>1. /\ Append(q, f) \in Seq(Frames) /\ Append(q, f) # <<>> /\ Len(Append(q, f)) = Len(q) + 1
      /\ Append(q, f)[Len(q) + 1] = f /\ \A i \in 1..Len(q) : Append(q, f)[i] = q[i]
  BY AppendProperties
<1>2. QED BY <1>1, LenProperties

LEMMA SockSteady ==
    ASSUME NEW s \in StreamType
    PROVE  /\ \A k \in Nat : \A l \in {"gone", "reset"} : \A e \in BOOLEAN : Cut(s, k, l, e).link # "up"
           /\ s.near # "closed" => \A l \in {"gone", "reset"} : CloseFar(s, l).link # "up"
           /\ [s EXCEPT !.link = "reset"].link # "up"
<1>1. \A l \in {"gone", "reset"} : s.near # "closed" => CloseFar(s, l).link # "up"
  BY FarClosed
<1>2. ASSUME NEW k \in Nat, NEW l \in {"gone", "reset"}, NEW e \in BOOLEAN
      PROVE  Cut(s, k, l, e).link # "up"
  BY CutOff
<1>3. [s EXCEPT !.link = "reset"].link # "up"
  BY DEF StreamType
<1>4. QED BY <1>1, <1>2, <1>3

LEMMA HalfStep ==
    ASSUME Base, Base', HalfOK, [Next]_vars
    PROVE  HalfOK'
<1>1. /\ conn \in [Conns -> StreamType] /\ sock \in Conns \cup {0} /\ 0 \notin Conns /\ Types
      /\ send \in [Threads -> Calls] /\ send' \in [Threads -> Calls]
      /\ dials \subseteq [by : Diallers, cand : Conns \cup {0}, left : BOOLEAN]
  BY Constants DEF Base, Types, WireTypes, SendTypes
<1>2. \A c \in Conns : conn[c] \in StreamType /\ conn[c].q \in Seq(Frames)
  BY <1>1, StreamFields
<1>3. sock # 0 => conn[sock].near = "open"
  BY DEF Base, NearOK
<1>4. ASSUME UNCHANGED conn, HalvesStay PROVE HalfOK'
  BY <1>4, HalfKept, SameEnds DEF SockGoesOn
<1>5. ASSUME NEW c \in Conns, NEW s, conn' = [conn EXCEPT ![c] = s], HalvesStay,
             c = sock /\ s.link = "up" => conn[c].link = "up" /\ SameEnd(s.q, conn[c].q)
      PROVE  HalfOK'
  <2>1. conn'[c] = s /\ \A d \in Conns : d # c => conn'[d] = conn[d]
    BY <1>1, <1>5
  <2>2. ASSUME sock # 0 PROVE SockGoesOn
    <3>1. CASE sock = c
      BY <1>5, <2>1, <3>1 DEF SockGoesOn
    <3>2. CASE sock # c
      BY <1>1, <2>1, <2>2, <3>2, SameEnds DEF SockGoesOn
    <3>3. QED BY <3>1, <3>2
  <2>3. QED BY <1>5, <2>2, HalfKept
<1>6. ASSUME UNCHANGED <<sock, send>> PROVE HalvesStay
  BY <1>6 DEF HalvesStay
<1>7. ASSUME NEW bs, DialFailed(bs), UNCHANGED sock, \A t \in Threads : t \in bs => send[t].st = "dial"
      PROVE  HalvesStay
  <2>1. \A t \in Threads : IF t \in bs THEN Failed(send[t], send'[t]) ELSE send'[t] = send[t]
    BY <1>1, <1>7, DialFailedTypes
  <2>2. ASSUME NEW t \in Threads
        PROVE  /\ send'[t].st = "rest" <=> send[t].st = "rest"
               /\ send[t].st = "rest" => send'[t].n = send[t].n
    <3>1. CASE t \in bs
      BY <1>7, <2>1, <3>1 DEF Failed
    <3>2. CASE t \notin bs
      BY <2>1, <3>2
    <3>3. QED BY <3>1, <3>2
  <2>3. QED BY <1>7, <2>2 DEF HalvesStay
<1>8. \A d \in dials : ~d.left /\ d.by \in Threads => send[d.by].st = "dial"
  BY Constants DEF Base, DialsOK
<1>9. ASSUME NEW t \in Threads, send[t].st # "idle"
      PROVE  \A u \in Threads : u # t => send[u].st = "idle"
  BY <1>9 DEF Base, CallsOK
<1>10. ASSUME NEW t \in Threads, Sends(t) PROVE HalfOK'
  <2>1. send[t] \in Calls
    BY <1>1
  <2>2. CASE BeginSend(t)
    <3>1. /\ \A u \in Threads : send[u].st = "idle"
          /\ send' = [send EXCEPT ![t].st = IF sock = 0 THEN "connect" ELSE "first"]
          /\ UNCHANGED <<conn, sock>>
      BY <2>2 DEF BeginSend, LockFree, wire
    <3>2. HalvesStay
      BY <1>1, <3>1 DEF HalvesStay, Calls
    <3>3. QED BY <1>4, <3>1, <3>2
  <2>3. CASE Connect(t)
    <3>1. send[t].st = "connect" /\ \A u \in Threads : u # t => send[u].st = "idle"
      BY <1>9, <2>3 DEF Connect
    <3>2. sock = 0
      BY <3>1 DEF Base, DialsOK
    <3>3. CASE Free # {} /\ conn' = [conn EXCEPT ![NewConn] = Connected] /\ sock' = NewConn
               /\ send' = [send EXCEPT ![t].st = "first"]
      <4>1. \A u \in Threads : send'[u].st # "rest"
        BY <1>1, <2>1, <3>1, <3>3 DEF Calls
      <4>2. conn'[sock'].q = <<>>
        BY <1>1, <3>3, FreshStream, UnusedStream
      <4>3. QED BY <4>1, <4>2, NoHalf DEF Opened
    <3>4. CASE UNCHANGED <<conn, sock>> /\ send' = [send EXCEPT ![t].st = "dial"]
      <4>1. \A u \in Threads : send'[u].st # "rest"
        BY <1>1, <2>1, <3>1, <3>4 DEF Calls
      <4>2. QED BY <3>2, <3>4, <4>1, NoHalf
    <3>5. CASE UNCHANGED <<conn, sock>> /\ send' = [send EXCEPT ![t] = TryFailed(send[t])]
      <4>1. Failed(send[t], TryFailed(send[t]))
        BY <2>1, FailedCalls
      <4>2. \A u \in Threads : send'[u].st # "rest"
        BY <1>1, <3>1, <3>5, <4>1 DEF Failed
      <4>3. QED BY <3>2, <3>5, <4>2, NoHalf
    <3>6. QED BY <2>3, <3>3, <3>4, <3>5 DEF Connect, Fail
  <2>4. ASSUME NEW p \in {1, 2}, Write(t, p) PROVE HalfOK'
    <3>1. /\ sock \in Conns /\ sock' = sock /\ send[t].st # "idle"
          /\ send[t].st = IF p = 1 THEN "first" ELSE "rest"
          /\ conn' = [conn EXCEPT ![sock] = Written(conn[sock], Frame("data", Current(t), p))]
      BY <1>1, <2>4 DEF Write
    <3>2. PICK f \in Frames : f = Frame("data", Current(t), p)
      <4>1. send[t].n <= Len(Script[t])
        BY <3>1 DEF Base, CallsOK
      <4>2. Current(t) \in Msgs
        BY <4>1, CurrentOf
      <4>3. QED BY <4>2, FramesOf
    <3>3. conn'[sock] = Written(conn[sock], f)
      BY <1>1, <3>1, <3>2
    <3>4. /\ conn[sock].link = "up" => conn'[sock].q = Append(conn[sock].q, f)
          /\ conn[sock].link # "up" => conn'[sock].link # "up"
      BY <1>2, <3>1, <3>3, WrittenTo
    <3>5. PICK q \in Seq(Frames) : q = conn[sock].q
      BY <1>2, <3>1
    <3>6. Append(q, f) # <<>> /\ Append(q, f)[Len(Append(q, f))] = f
      BY WriteEnds
    <3>7. \A u \in Threads : u # t => send'[u].st = "idle"
      BY <1>1, <1>9, <2>4, <3>1 DEF Write
    <3>8. CASE p = 1
      <4>1. send' = [send EXCEPT ![t].st = "rest"]
        BY <2>4, <3>8 DEF Write
      <4>2. send'[t].st = "rest" /\ send'[t].n = send[t].n
        BY <1>1, <2>1, <4>1 DEF Calls
      <4>3. Current(t)' = Current(t)
        BY <4>2 DEF Current
      <4>4. ASSUME conn'[sock].link = "up" PROVE Half(t)'
        <5>1. conn'[sock].q = Append(q, f)
          BY <3>4, <3>5, <4>4
        <5>2. QED BY <3>1, <3>2, <3>6, <3>8, <4>3, <5>1 DEF Half
      <4>5. QED BY <3>1, <3>7, <4>2, <4>4 DEF HalfOK, Half
    <3>9. CASE p = 2
      <4>1. send' = [send EXCEPT ![t] = [n |-> send[t].n + 1, st |-> "idle", attempt |-> 0, tries |-> 0]]
        BY <2>4, <3>9 DEF Write
      <4>2. \A u \in Threads : send'[u].st # "rest"
        BY <1>1, <3>7, <4>1
      <4>3. ASSUME conn'[sock].link = "up" PROVE ~Opened(conn'[sock].q)
        <5>1. conn'[sock].q = Append(q, f)
          BY <3>4, <3>5, <4>3
        <5>2. f.part = 2
          BY <3>2, <3>9 DEF Frame
        <5>3. QED BY <3>6, <5>1, <5>2 DEF Opened
      <4>4. QED BY <3>1, <4>2, <4>3, NoHalf
    <3>10. QED BY <3>8, <3>9
  <2>5. CASE WriteFails(t)
    <3>1. /\ send[t].st # "idle" /\ sock' = 0 /\ send' = [send EXCEPT ![t] = AttemptFailed(send[t])]
      BY <2>5 DEF WriteFails, Fail
    <3>2. Failed(send[t], AttemptFailed(send[t]))
      BY <2>1, FailedCalls
    <3>3. \A u \in Threads : send'[u].st # "rest"
      BY <1>1, <1>9, <3>1, <3>2 DEF Failed
    <3>4. QED BY <3>1, <3>3, NoHalf
  <2>6. QED BY <1>10, <2>2, <2>3, <2>4, <2>5 DEF Sends
<1>11. ASSUME NEW d \in dials, Dials(d) \/ LeaveDial(d) PROVE HalfOK'
  <2>1. CASE DialPop(d)
    <3>1. HalvesStay
      BY <1>6, <2>1 DEF DialPop, sender
    <3>2. PICK h : h = Head(parked)
      OBVIOUS
    <3>3. h \in Conns /\ conn[h].near = "relay"
      <4>1. parked \in Seq(Conns) /\ parked # <<>>
        BY <1>1, <2>1 DEF DialPop, Types, WireTypes
      <4>2. h \in Conns /\ h \in ToSet(parked)
        BY <3>2, <4>1, TailOfQueue
      <4>3. QED BY <4>2 DEF Base, NearOK
    <3>4. h # sock
      BY <1>1, <1>3, <3>3
    <3>5. conn' = conn \/ conn' = [conn EXCEPT ![h] = CloseNear(conn[h])]
      BY <2>1, <3>2 DEF DialPop
    <3>6. QED BY <1>4, <1>5, <3>1, <3>3, <3>4, <3>5
  <2>2. ASSUME DialRefused(d) \/ LeaveDial(d) PROVE HalfOK'
    <3>1. UNCHANGED <<conn, sock>> /\ (UNCHANGED send \/ (~d.left /\ DialFailed({d.by})))
      BY <2>2 DEF DialRefused, LeaveDial
    <3>2. HalvesStay
      BY <1>6, <1>7, <1>8, <3>1
    <3>3. QED BY <1>4, <3>1, <3>2
  <2>3. CASE DialHand(d)
    <3> DEFINE called == [conn[d.cand] EXCEPT !.near = "open",
                            !.far = IF @ = "parked" /\ conn[d.cand].link = "up" THEN "called" ELSE @]
    <3>1. PICK c \in Conns : c = d.cand
      BY <1>1, <2>3 DEF DialHand
    <3>2. called \in StreamType /\ called.q = conn[c].q
      BY <1>2, <3>1 DEF StreamType
    <3>3. \/ conn' = [conn EXCEPT ![c] = CloseNear(conn[c])] /\ UNCHANGED <<sock, send>>
          \/ conn' = [conn EXCEPT ![c] = CloseNear(called)] /\ UNCHANGED <<sock, send>>
          \/ ~d.left /\ Answered(d.by, c, called)
      BY <2>3, <3>1 DEF DialHand
    <3> HIDE DEF called
    <3>4. conn[c].near = "relay" /\ conn[c].q = <<>> /\ c # sock
      <4>1. conn[c].near = "relay"
        BY <1>1, <3>1 DEF Base, NearOK
      <4>2. QED BY <1>1, <1>3, <4>1 DEF Base, NearOK
    <3>5. ASSUME ~d.left, Answered(d.by, c, called) PROVE HalfOK'
      <4>1. CASE d.by = Ctl
        <5>1. \E s : conn' = [conn EXCEPT ![c] = s] /\ UNCHANGED <<sock, send>>
          BY <3>5, <4>1 DEF Answered
        <5>2. QED BY <1>5, <1>6, <3>4, <5>1
      <4>2. CASE d.by # Ctl
        <5>1. /\ conn' = [conn EXCEPT ![c] = called] /\ sock' = c
              /\ send' = [send EXCEPT ![d.by].st = "first"]
          BY <3>5, <4>2 DEF Answered
        <5>2. d.by \in Threads
          BY <1>1, <4>2 DEF Diallers
        <5>3. send[d.by].st = "dial" /\ send[d.by] \in Calls
          BY <1>1, <1>8, <3>5, <5>2
        <5>4. \A u \in Threads : u # d.by => send[u].st = "idle"
          BY <1>9, <5>2, <5>3
        <5>5. \A u \in Threads : send'[u].st # "rest"
          BY <1>1, <5>1, <5>2, <5>3, <5>4 DEF Calls
        <5>6. conn'[c].q = <<>>
          BY <1>1, <3>2, <3>4, <5>1
        <5>7. QED BY <5>1, <5>5, <5>6, NoHalf DEF Opened
      <4>3. QED BY <4>1, <4>2
    <3>6. QED BY <1>5, <1>6, <3>3, <3>4, <3>5
  <2>4. QED BY <1>11, <2>1, <2>2, <2>3 DEF Dials
<1>12. ASSUME NEW c \in Conns, Serves(c) \/ Notice(c) PROVE HalfOK'
  <2>1. HalvesStay
    <3>1. UNCHANGED <<sock, send>>
      BY <1>12 DEF Serves, ParkerWakes, Accept, ReadData, ReadEnds, ConfigureBegins, Notice, sender
    <3>2. QED BY <1>6, <3>1
  <2>2. c = sock => \A l \in {"gone", "reset"} : CloseFar(conn[c], l).link # "up"
    BY <1>1, <1>2, <1>3, SockSteady
  <2>3. /\ [conn[c] EXCEPT !.far = "ready"].q = conn[c].q /\ [conn[c] EXCEPT !.far = "ready"].link = conn[c].link
        /\ [conn[c] EXCEPT !.far = "serving"].q = conn[c].q /\ [conn[c] EXCEPT !.far = "serving"].link = conn[c].link
    BY <1>2 DEF StreamType
  <2>4. CASE ParkerWakes(c)
    <3>1. \/ conn' = [conn EXCEPT ![c] = [conn[c] EXCEPT !.far = "ready"]]
          \/ conn' = [conn EXCEPT ![c] = CloseFar(conn[c], "reset")]
      BY <1>1, <2>4 DEF ParkerWakes
    <3>2. QED BY <1>5, <2>1, <2>2, <2>3, <3>1, SameEnds
  <2>5. CASE Accept(c)
    <3>1. conn' = [conn EXCEPT ![c] = [conn[c] EXCEPT !.far = "serving"]]
      BY <2>5 DEF Accept
    <3>2. QED BY <1>5, <2>1, <2>3, <3>1, SameEnds
  <2>6. CASE ReadData(c) \/ ConfigureBegins(c)
    <3>1. /\ WholeHead(conn[c].q)
          /\ conn' = [conn EXCEPT ![c] = [conn[c] EXCEPT !.q = Rest(conn[c].q)]]
      BY <2>6 DEF ReadData, ConfigureBegins
    <3>2. PICK s : s = [conn[c] EXCEPT !.q = Rest(conn[c].q)]
      OBVIOUS
    <3>3. s.q = Rest(conn[c].q) /\ s.link = conn[c].link
      BY <1>2, <3>2 DEF StreamType
    <3>4. SameEnd(s.q, conn[c].q)
      BY <1>2, <3>1, <3>3, ReadKeepsEnd
    <3>5. QED BY <1>5, <2>1, <3>1, <3>2, <3>3, <3>4
  <2>7. CASE ReadEnds(c)
    <3>1. conn' = [conn EXCEPT ![c] = CloseFar(conn[c], "reset")]
      BY <2>7 DEF ReadEnds
    <3>2. QED BY <1>5, <2>1, <2>2, <3>1
  <2>8. CASE Notice(c)
    <3>1. conn' = [conn EXCEPT ![c] = [conn[c] EXCEPT !.link = "reset"]]
      BY <2>8 DEF Notice
    <3>2. QED BY <1>2, <1>5, <2>1, <3>1, SockSteady
  <2>9. QED BY <1>12, <2>4, <2>5, <2>6, <2>7, <2>8 DEF Serves
<1>13. ASSUME NEW k \in Configs, Applies(k) \/ LoadFails(k) PROVE HalfOK'
  <2>1. HalvesStay
    <3>1. UNCHANGED <<sock, send>>
      BY <1>13 DEF Applies, Load, Replace, LoadFails, sender
    <3>2. QED BY <1>6, <3>1
  <2>2. CASE Load(k)
    BY <1>4, <2>1, <2>2 DEF Load, wire
  <2>3. CASE Replace(k) \/ LoadFails(k)
    <3>1. PICK r : Reply(job[k].at, r)
      BY <2>3 DEF Replace, LoadFails
    <3>2. PICK c \in Conns : c = job[k].at
      <4>1. job[k].st # "idle"
        BY <2>3 DEF Replace, LoadFails
      <4>2. QED BY <1>1, <4>1 DEF Types, NodeTypes
    <3>3. PICK x : conn' = [conn EXCEPT ![c] = [conn[c] EXCEPT !.reply = x]]
      BY <1>1, <3>1, <3>2 DEF Reply
    <3>4. [conn[c] EXCEPT !.reply = x].q = conn[c].q /\ [conn[c] EXCEPT !.reply = x].link = conn[c].link
      BY <1>2 DEF StreamType
    <3>5. QED BY <1>5, <2>1, <3>3, <3>4, SameEnds
  <2>4. QED BY <1>13, <2>2, <2>3 DEF Applies
<1>14. CASE Park
  <2>1. PICK c \in Conns : c = NewConn /\ conn[c].near = "closed"
    BY <1>14, FreshStream, UnusedStream DEF Park
  <2>2. conn' = [conn EXCEPT ![c] = Parked] /\ HalvesStay
    BY <1>6, <1>14, <2>1 DEF Park, sender
  <2>3. c # sock
    BY <1>1, <1>3, <2>1
  <2>4. QED BY <1>5, <2>2, <2>3
<1>15. CASE Call
  <2>1. HalvesStay
    BY <1>6, <1>15 DEF Call, sender
  <2>2. UNCHANGED conn \/ (Free # {} /\ \E s : conn' = [conn EXCEPT ![NewConn] = s])
    BY <1>15 DEF Call
  <2>3. Free # {} => NewConn \in Conns /\ NewConn # sock
    BY <1>1, <1>3, FreshStream, UnusedStream
  <2>4. QED BY <1>4, <1>5, <2>1, <2>2, <2>3
<1>16. ASSUME Answer \/ GiveUp PROVE HalfOK'
  <2>1. /\ ctl.st = "wait" /\ \E s : conn' = [conn EXCEPT ![ctl.at] = s]
        /\ UNCHANGED <<sock, send>>
    BY <1>16 DEF Answer, GiveUp, HangUp, sender
  <2>2. ctl.at \in Conns /\ ctl.at # sock
    BY <2>1 DEF Base, Types, CtlTypes, NearOK
  <2>3. QED BY <1>5, <1>6, <2>1, <2>2
<1>17. ASSUME StartConfigure \/ RelayStarts \/ Restart PROVE HalfOK'
  BY <1>4, <1>6, <1>17 DEF StartConfigure, RelayStarts, Restart, wire, sender
<1>18. ASSUME NEW l \in {"gone", "reset"}, Crash(l) PROVE HalfOK'
  <2>1. /\ conn' = [c \in Conns |-> IF conn[c].far = "closed" THEN conn[c] ELSE CloseFar(conn[c], l)]
        /\ UNCHANGED <<sock, send>>
    BY <1>18 DEF Crash, sender
  <2>2. ASSUME sock # 0 PROVE SockGoesOn
    <3>1. sock \in Conns /\ conn[sock].near = "open"
      BY <1>1, <1>3, <2>2
    <3>2. CloseFar(conn[sock], l).link # "up"
      BY <1>2, <3>1, SockSteady
    <3>3. QED BY <2>1, <3>1, <3>2, SameEnds DEF SockGoesOn
  <2>3. QED BY <1>6, <2>1, <2>2, HalfKept
<1>19. ASSUME NEW l \in {"gone", "reset"}, NEW k \in 0..2, RelayStops(k, l) PROVE HalfOK'
  <2>1. conn' = [c \in Conns |->
                  CASE conn[c].near = "relay" -> CloseNear(conn[c])
                    [] conn[c] = Unused -> Unused
                    [] OTHER -> Cut(conn[c], k, l, conn[c].link = "up")]
    BY <1>19 DEF RelayStops
  <2>2. DialFailed({d.by : d \in {x \in dials : ~x.left}}) /\ sock' = sock
    BY <1>19 DEF RelayStops
  <2>3. \A t \in Threads : t \in {d.by : d \in {x \in dials : ~x.left}} => send[t].st = "dial"
    BY <1>8
  <2>4. HalvesStay
    BY <1>7, <2>2, <2>3
  <2>5. ASSUME sock # 0 PROVE SockGoesOn
    <3>1. sock \in Conns /\ conn[sock].near = "open"
      BY <1>1, <1>3, <2>5
    <3>2. conn[sock].near # "relay" /\ conn[sock] # Unused
      BY <3>1, UnusedStream
    <3>3. conn'[sock] = Cut(conn[sock], k, l, conn[sock].link = "up")
      BY <2>1, <3>1, <3>2
    <3>4. k \in Nat /\ (conn[sock].link = "up") \in BOOLEAN
      OBVIOUS
    <3>5. \A e \in BOOLEAN : Cut(conn[sock], k, l, e).link # "up"
      BY <1>2, <3>1, <3>4, SockSteady
    <3>6. conn'[sock].link # "up"
      BY <3>3, <3>4, <3>5
    <3>7. QED BY <3>6 DEF SockGoesOn
  <2>6. QED BY <2>4, <2>5, HalfKept
<1>20. ASSUME NEW l \in {"gone", "reset"}, NEW k \in 0..2, NEW c \in Conns, Break(c, k, l)
       PROVE  HalfOK'
  <2>1. /\ conn' = [conn EXCEPT ![c] = Cut(conn[c], k, l, l = "reset")] /\ UNCHANGED <<sock, send>>
    BY <1>20 DEF Break, sender
  <2>2. (l = "reset") \in BOOLEAN /\ k \in Nat
    OBVIOUS
  <2>3. Cut(conn[c], k, l, l = "reset").link # "up"
    BY <1>2, <2>2, SockSteady
  <2>4. QED BY <1>5, <1>6, <2>1, <2>3
<1>21. CASE UNCHANGED vars
  BY <1>4, <1>6, <1>21 DEF vars, wire, sender
<1>22. QED
  BY <1>10, <1>11, <1>12, <1>13, <1>14, <1>15, <1>16, <1>17, <1>18, <1>19, <1>20, <1>21
     DEF Next, Faults

(* One stream of whole messages, the last one perhaps cut.                 *)
WholeFrames(q) ==
    \A i \in DOMAIN q : q[i].kind = "data" =>
      IF q[i].part = 1 THEN i < Len(q) => q[i + 1] = [q[i] EXCEPT !.part = 2]
                       ELSE i > 1 /\ q[i - 1] = [q[i] EXCEPT !.part = 1]

LEMMA StartWhole ==
    ASSUME NEW q \in Seq(Frames), WholeFrames(q), NEW p, Start(p, q)
    PROVE  WholeFrames(p)
<1>1. /\ p \in Seq(Frames) /\ Len(p) \in Nat /\ DOMAIN p = 1..Len(p)
      /\ Len(q) \in Nat /\ DOMAIN q = 1..Len(q)
      /\ \A i \in DOMAIN p : i \in DOMAIN q /\ p[i] = q[i]
  BY LenProperties DEF Start
<1>2. ASSUME NEW i \in DOMAIN p, p[i].kind = "data", p[i].part = 1, i < Len(p)
      PROVE  p[i + 1] = [p[i] EXCEPT !.part = 2]
  <2>1. i + 1 \in DOMAIN p
    BY <1>1, <1>2
  <2>2. i + 1 \in DOMAIN q /\ i \in DOMAIN q /\ p[i + 1] = q[i + 1] /\ p[i] = q[i]
    BY <1>1, <2>1
  <2>3. i < Len(q)
    BY <1>1, <2>2
  <2>4. QED BY <1>2, <2>2, <2>3 DEF WholeFrames
<1>3. ASSUME NEW i \in DOMAIN p, p[i].kind = "data", p[i].part # 1
      PROVE  i > 1 /\ p[i - 1] = [p[i] EXCEPT !.part = 1]
  <2>1. i \in DOMAIN q /\ p[i] = q[i]
    BY <1>1
  <2>2. i > 1 /\ q[i - 1] = [q[i] EXCEPT !.part = 1]
    BY <1>3, <2>1 DEF WholeFrames
  <2>3. i - 1 \in DOMAIN p
    BY <1>1, <2>2
  <2>4. QED BY <1>1, <2>1, <2>2, <2>3
<1>4. QED BY <1>2, <1>3 DEF WholeFrames

LEMMA AfterWhole ==
    ASSUME NEW q \in Seq(Frames), WholeFrames(q), NEW p, NEW n \in {1, 2}, After(p, q, n),
           q[n].kind = "configure" \/ q[n].part = 2
    PROVE  WholeFrames(p)
<1>1. /\ p \in Seq(Frames) /\ Len(p) \in Nat /\ DOMAIN p = 1..Len(p) /\ Len(p) = Len(q) - n
      /\ Len(q) \in Nat /\ DOMAIN q = 1..Len(q)
      /\ \A i \in DOMAIN p : i + n \in DOMAIN q /\ p[i] = q[i + n]
  BY LenProperties DEF After
<1>2. ASSUME NEW i \in DOMAIN p, p[i].kind = "data", p[i].part = 1, i < Len(p)
      PROVE  p[i + 1] = [p[i] EXCEPT !.part = 2]
  <2>1. PICK j \in DOMAIN q : j = i + n /\ p[i] = q[j]
    BY <1>1
  <2>2. i + 1 \in DOMAIN p /\ i + 1 + n = j + 1 /\ j < Len(q)
    BY <1>1, <1>2, <2>1
  <2>3. p[i + 1] = q[i + 1 + n]
    BY <1>1, <2>2
  <2>4. q[j + 1] = [q[j] EXCEPT !.part = 2]
    BY <1>2, <2>1, <2>2 DEF WholeFrames
  <2>5. QED BY <2>1, <2>2, <2>3, <2>4
<1>3. ASSUME NEW i \in DOMAIN p, p[i].kind = "data", p[i].part # 1
      PROVE  i > 1 /\ p[i - 1] = [p[i] EXCEPT !.part = 1]
  <2>1. PICK j \in DOMAIN q : j = i + n /\ p[i] = q[j]
    BY <1>1
  <2>2. q[j - 1] = [q[j] EXCEPT !.part = 1]
    BY <1>3, <2>1 DEF WholeFrames
  <2>3. i # 1
    <3>1. ASSUME i = 1 PROVE FALSE
      <4>1. j - 1 = n
        BY <2>1, <3>1
      <4>2. q[n] = [q[j] EXCEPT !.part = 1] /\ q[j] \in Frames
        BY <2>2, <4>1, ElementOfSeq, <1>1
      <4>3. q[n].kind = "data" /\ q[n].part = 1
        BY <1>3, <2>1, <4>2 DEF Frames
      <4>4. QED BY <4>3
    <3>2. QED BY <3>1
  <2>4. i > 1 /\ i - 1 \in DOMAIN p /\ (i - 1) + n = j - 1
    BY <1>1, <2>1, <2>3
  <2>5. p[i - 1] = q[(i - 1) + n]
    BY <1>1, <2>4
  <2>6. QED BY <2>1, <2>2, <2>4, <2>5
<1>4. QED BY <1>2, <1>3 DEF WholeFrames

LEMMA AppendWhole ==
    ASSUME NEW q \in Seq(Frames), WholeFrames(q), NEW f \in Frames, f.kind = "data",
           f.part = 1 => ~Opened(q),
           f.part = 2 => q # <<>> /\ q[Len(q)] = [f EXCEPT !.part = 1]
    PROVE  WholeFrames(Append(q, f))
<1>1. PICK p : p = Append(q, f)
  OBVIOUS
<1>2. /\ Len(q) \in Nat /\ Len(p) = Len(q) + 1 /\ DOMAIN p = 1..(Len(q) + 1) /\ DOMAIN q = 1..Len(q)
      /\ p[Len(q) + 1] = f /\ \A i \in 1..Len(q) : p[i] = q[i]
  BY <1>1, WriteEnds
<1>3. f.part \in {1, 2}
  BY DEF Frames
<1>4. ASSUME NEW i \in DOMAIN p, p[i].kind = "data", p[i].part = 1, i < Len(p)
      PROVE  p[i + 1] = [p[i] EXCEPT !.part = 2]
  <2>1. i \in DOMAIN q /\ p[i] = q[i]
    BY <1>2, <1>4
  <2>2. CASE i < Len(q)
    <3>1. q[i + 1] = [q[i] EXCEPT !.part = 2]
      BY <1>4, <2>1, <2>2 DEF WholeFrames
    <3>2. i + 1 \in 1..Len(q)
      BY <1>2, <2>1, <2>2
    <3>3. p[i + 1] = q[i + 1]
      BY <1>2, <3>2
    <3>4. QED BY <2>1, <3>1, <3>3
  <2>3. CASE i = Len(q)
    <3>1. Opened(q)
      BY <1>2, <1>4, <2>1, <2>3 DEF Opened
    <3>2. f.part = 2 /\ q[Len(q)] = [f EXCEPT !.part = 1]
      BY <1>3, <3>1
    <3>3. [[f EXCEPT !.part = 1] EXCEPT !.part = 2] = f
      BY <1>3, <3>2 DEF Frames
    <3>4. QED BY <1>2, <2>1, <2>3, <3>2, <3>3
  <2>4. QED BY <1>2, <2>1, <2>2, <2>3
<1>5. ASSUME NEW i \in DOMAIN p, p[i].kind = "data", p[i].part # 1
      PROVE  i > 1 /\ p[i - 1] = [p[i] EXCEPT !.part = 1]
  <2>1. CASE i \in 1..Len(q)
    <3>1. i \in DOMAIN q /\ p[i] = q[i]
      BY <1>2, <2>1
    <3>2. i > 1 /\ q[i - 1] = [q[i] EXCEPT !.part = 1]
      BY <1>5, <3>1 DEF WholeFrames
    <3>3. i - 1 \in 1..Len(q)
      BY <1>2, <2>1, <3>2
    <3>4. p[i - 1] = q[i - 1]
      BY <1>2, <3>3
    <3>5. QED BY <3>1, <3>2, <3>4
  <2>2. CASE i = Len(q) + 1
    <3>1. p[i] = f
      BY <1>2, <2>2
    <3>2. q # <<>> /\ q[Len(q)] = [f EXCEPT !.part = 1]
      BY <1>3, <1>5, <3>1
    <3>3. Len(q) >= 1
      BY <1>2, <3>2, EmptySeq
    <3>4. Len(q) \in 1..Len(q) /\ i - 1 = Len(q) /\ i > 1
      BY <1>2, <2>2, <3>3
    <3>5. p[i - 1] = q[Len(q)]
      BY <1>2, <3>4
    <3>6. QED BY <3>1, <3>2, <3>4, <3>5
  <2>3. QED BY <1>2, <2>1, <2>2
<1>6. QED BY <1>1, <1>4, <1>5 DEF WholeFrames

LEMMA WholeStep ==
    ASSUME Base, HalfOK, FramesWhole, [Next]_vars
    PROVE  FramesWhole'
<1>1. conn \in [Conns -> StreamType] /\ sock \in Conns \cup {0} /\ 0 \notin Conns
  BY Constants DEF Base, Types, WireTypes, SendTypes
<1>2. \A c \in Conns : conn[c] \in StreamType /\ conn[c].q \in Seq(Frames) /\ WholeFrames(conn[c].q)
  BY <1>1, StreamFields DEF FramesWhole, WholeFrames
<1>3. ASSUME \A c \in Conns : WholeFrames(conn'[c].q) PROVE FramesWhole'
  BY <1>3 DEF FramesWhole, WholeFrames
<1>4. ASSUME NEW c \in Conns, WholeFrames(conn'[c].q), \A d \in Conns : d # c => conn'[d] = conn[d]
      PROVE  FramesWhole'
  BY <1>2, <1>3, <1>4
<1>5. ASSUME Shrunk PROVE FramesWhole'
  <2>1. ASSUME NEW c \in Conns PROVE WholeFrames(conn'[c].q)
    <3>1. Start(conn'[c].q, conn[c].q)
      BY <1>5 DEF Shrunk
    <3>2. QED BY <1>2, <3>1, StartWhole
  <2>2. QED BY <1>3, <2>1
<1>6. ASSUME NEW t \in Threads, NEW p \in {1, 2}, Write(t, p) PROVE FramesWhole'
  <2>1. /\ sock \in Conns /\ sock' = sock /\ send[t].st # "idle" /\ sock # 0
        /\ send[t].st = IF p = 1 THEN "first" ELSE "rest"
        /\ conn' = [conn EXCEPT ![sock] = Written(conn[sock], Frame("data", Current(t), p))]
    BY <1>1, <1>6 DEF Write
  <2>2. PICK f \in Frames : f = Frame("data", Current(t), p)
    <3>1. send[t].n <= Len(Script[t])
      BY <2>1 DEF Base, CallsOK
    <3>2. Current(t) \in Msgs
      BY <3>1, CurrentOf
    <3>3. QED BY <3>2, FramesOf
  <2>3. conn'[sock] = Written(conn[sock], f) /\ \A d \in Conns : d # sock => conn'[d] = conn[d]
    BY <1>1, <2>1, <2>2
  <2>4. PICK q \in Seq(Frames) : q = conn[sock].q /\ WholeFrames(q)
    BY <1>2, <2>1
  <2>5. CASE conn[sock].link # "up"
    <3>1. conn'[sock].q = q
      BY <1>2, <2>1, <2>3, <2>4, <2>5, WrittenTo
    <3>2. QED BY <1>4, <2>1, <2>3, <2>4, <3>1
  <2>6. CASE conn[sock].link = "up"
    <3>1. conn'[sock].q = Append(q, f)
      <4>1. Written(conn[sock], f).q = Append(conn[sock].q, f)
        BY <1>2, <2>1, <2>6, WrittenTo
      <4>2. QED BY <2>3, <2>4, <4>1
    <3>2. f.kind = "data" /\ f.part = p
      BY <2>2 DEF Frame
    <3>3. ASSUME p = 1 PROVE ~Opened(q)
      <4>1. \A u \in Threads : send[u].st # "rest"
        BY <2>1, <3>3 DEF Base, CallsOK
      <4>2. QED BY <2>1, <2>4, <2>6, <4>1 DEF HalfOK
    <3>4. ASSUME p = 2 PROVE q # <<>> /\ q[Len(q)] = [f EXCEPT !.part = 1]
      <4>1. send[t].st = "rest"
        BY <2>1, <3>4
      <4>2. q # <<>> /\ q[Len(q)] = Frame("data", Current(t), 1)
        BY <2>4, <2>6, <4>1 DEF HalfOK
      <4>3. [f EXCEPT !.part = 1] = Frame("data", Current(t), 1)
        BY <2>2 DEF Frame
      <4>4. QED BY <4>2, <4>3
    <3>5. WholeFrames(Append(q, f))
      BY <2>4, <3>2, <3>3, <3>4, AppendWhole
    <3>6. QED BY <1>4, <2>1, <2>3, <3>1, <3>5
  <2>7. QED BY <2>5, <2>6
<1>7. ASSUME NEW c \in Conns, Orders(c) PROVE FramesWhole'
  <2>1. WholeFrames(<<>>)
    BY EmptySeq DEF WholeFrames
  <2>2. WholeFrames(<<Frame("configure", ctl.k, 2)>>)
    BY DEF WholeFrames, Frame
  <2>3. QED BY <1>4, <1>7, <2>1, <2>2 DEF Orders
<1>8. ASSUME NEW c \in Conns, ReadData(c) \/ ConfigureBegins(c) PROVE FramesWhole'
  <2>1. PICK q \in Seq(Frames) : q = conn[c].q /\ WholeFrames(q)
    BY <1>2
  <2>2. conn'[c].q = Rest(q) /\ (\A d \in Conns : d # c => conn'[d] = conn[d]) /\ WholeHead(q)
    <3>1. conn' = [conn EXCEPT ![c].q = Rest(conn[c].q)] /\ WholeHead(q)
      BY <1>8, <2>1 DEF ReadData, ConfigureBegins
    <3>2. conn'[c] = [conn[c] EXCEPT !.q = Rest(conn[c].q)] /\ \A d \in Conns : d # c => conn'[d] = conn[d]
      BY <1>1, <3>1
    <3>3. QED BY <1>2, <2>1, <3>1, <3>2 DEF StreamType
  <2>3. q[1].kind \in {"data", "configure"}
    BY <2>2, WholeHeads DEF Frames
  <2>4. PICK n \in {1, 2} : After(Rest(q), q, n) /\ (q[n].kind = "configure" \/ q[n].part = 2)
    <3>1. CASE q[1].kind = "configure"
      BY <2>2, <3>1, WholeHeads
    <3>2. CASE q[1].kind = "data"
      <4>1. q[1] \in Frames /\ q[2] = [q[1] EXCEPT !.part = 2] /\ After(Rest(q), q, 2)
        BY <2>2, <3>2, WholeHeads
      <4>2. q[2].part = 2
        BY <4>1 DEF Frames
      <4>3. QED BY <4>1, <4>2
    <3>3. QED BY <2>3, <3>1, <3>2
  <2>5. WholeFrames(Rest(q))
    BY <2>1, <2>4, AfterWhole
  <2>6. QED BY <1>4, <2>2, <2>5
<1>9. QED BY <1>5, <1>6, <1>7, <1>8, QueueMoves

(* FramesWhole: whatever threads share the kept connection, and wherever it*)
(* broke, a reader never finds the parts of two messages mixed.            *)
THEOREM MessagesWhole ==
    Spec => []FramesWhole
<1>1. ASSUME Init PROVE HalfOK /\ FramesWhole
  <2>1. /\ conn = [c \in Conns |-> Unused] /\ sock = 0
        /\ send = [t \in Threads |-> [n |-> 1, st |-> "idle", attempt |-> 0, tries |-> 0]]
    BY <1>1 DEF Init
  <2>2. \A t \in Threads : send[t].st # "rest"
    BY <2>1
  <2>3. HalfOK
    BY <2>1, <2>2 DEF HalfOK
  <2>4. \A c \in Conns : conn[c].q = <<>>
    BY <2>1, UnusedStream
  <2>5. FramesWhole
    BY <2>4, EmptySeq DEF FramesWhole
  <2>6. QED BY <2>3, <2>5
<1>2. Base /\ Base' /\ HalfOK /\ [Next]_vars => HalfOK'
  BY HalfStep
<1>3. Base /\ HalfOK /\ FramesWhole /\ [Next]_vars => FramesWhole'
  BY WholeStep
<1>4. QED BY <1>1, <1>2, <1>3, BaseInvariant, PTL DEF Spec

-----------------------------------------------------------------------------
(* A whole configuration                                                   *)

Quiet(s, r) == r.reply = "ack" => s.reply = "ack"

LEMMA QuietStreams ==
    ASSUME NEW s \in StreamType
    PROVE  /\ Quiet(s, s) /\ Quiet(s, CloseNear(s))
           /\ \A f : Quiet(s, Written(s, f)) /\ Written(s, f).reply = s.reply
           /\ \A l \in {"gone", "reset"} : Quiet(s, CloseFar(s, l))
           /\ \A k \in Nat : \A l \in {"gone", "reset"} : \A e \in BOOLEAN : Quiet(s, Cut(s, k, l, e))
           /\ Quiet(s, [s EXCEPT !.far = "ready"]) /\ Quiet(s, [s EXCEPT !.far = "serving"])
           /\ Quiet(s, [s EXCEPT !.link = "reset"])
           /\ \A q : Quiet(s, [s EXCEPT !.q = q])
<1>1. Quiet(s, s) /\ Quiet(s, CloseNear(s))
  BY NearClosed DEF Quiet
<1>2. ASSUME NEW l \in {"gone", "reset"} PROVE Quiet(s, CloseFar(s, l))
  BY FarClosed DEF Quiet
<1>3. ASSUME NEW k \in Nat, NEW l \in {"gone", "reset"}, NEW e \in BOOLEAN
      PROVE  Quiet(s, Cut(s, k, l, e))
  BY CutOff DEF Quiet
<1>4. ASSUME NEW f PROVE Written(s, f).reply = s.reply
  <2>1. Written(s, f) = [s EXCEPT !.q = Append(s.q, f)] \/ Written(s, f) = s
    BY DEF Written
  <2>2. QED BY <2>1 DEF StreamType
<1>5. /\ Quiet(s, [s EXCEPT !.far = "ready"]) /\ Quiet(s, [s EXCEPT !.far = "serving"])
      /\ Quiet(s, [s EXCEPT !.link = "reset"]) /\ \A q : Quiet(s, [s EXCEPT !.q = q])
  BY DEF Quiet, StreamType
<1>6. QED BY <1>1, <1>2, <1>3, <1>4, <1>5 DEF Quiet

(* A step that neither starts nor applies a configuration.                 *)
LeavesAlone ==
    /\ UNCHANGED <<tangled, job, node>> /\ ctl'.k = ctl.k
    /\ ctl.st \in {"wait", "failed"} => ctl'.st \in {"wait", "failed"} \/ Acked
    /\ Acked' => Acked

LEMMA ConfigMoves ==
    ASSUME Base, [Next]_vars
    PROVE  \/ LeavesAlone
           \/ \E c \in Conns : ConfigureBegins(c)
           \/ \E k \in Configs : Applies(k) \/ LoadFails(k)
           \/ StartConfigure
           \/ \E l \in {"gone", "reset"} : Crash(l)
<1>1. /\ conn \in [Conns -> StreamType] /\ Types
      /\ sock \in Conns \cup {0}
      /\ dials \subseteq [by : Diallers, cand : Conns \cup {0}, left : BOOLEAN]
      /\ ctl \in [k : Configs \cup {0}, at : Conns \cup {0},
                  st : {"idle", "connect", "dial", "wait", "acked", "failed"}]
  BY DEF Base, Types, WireTypes, SendTypes, CtlTypes
<1>2. \A c \in Conns : conn[c] \in StreamType /\ Quiet(conn[c], conn[c])
  BY <1>1, QuietStreams
<1>3. ctl.st = "wait" => ctl.at \in Conns
  BY <1>1 DEF Types, CtlTypes
<1>4. ASSUME UNCHANGED <<tangled, job, node, ctl>>, \A c \in Conns : Quiet(conn[c], conn'[c])
      PROVE  LeavesAlone
  BY <1>3, <1>4 DEF LeavesAlone, Acked, Quiet
<1>5. ASSUME UNCHANGED <<tangled, job, node, ctl, conn>> PROVE LeavesAlone
  BY <1>2, <1>4, <1>5
<1>6. ASSUME UNCHANGED <<tangled, job, node, ctl>>, NEW c \in Conns, NEW s,
             conn' = [conn EXCEPT ![c] = s], Quiet(conn[c], s)
      PROVE  LeavesAlone
  <2>1. conn'[c] = s /\ \A d \in Conns : d # c => conn'[d] = conn[d]
    BY <1>1, <1>6
  <2>2. QED BY <1>2, <1>4, <1>6, <2>1
(* The controller's dial ends, or its connection stands.                   *)
<1>7. ASSUME UNCHANGED <<tangled, job, node>>, ctl.st \in {"connect", "dial"}, ctl'.k = ctl.k,
             ctl'.st \in {"dial", "failed", "wait"},
             ctl'.st = "wait" => conn'[ctl'.at].reply = "none"
      PROVE  LeavesAlone
  BY <1>7 DEF LeavesAlone, Acked
<1>8. ASSUME NEW bs, DialFailed(bs), Ctl \in bs => ctl.st = "dial", UNCHANGED <<tangled, job, node>>,
             \A c \in Conns : Quiet(conn[c], conn'[c])
      PROVE  LeavesAlone
  <2>1. CASE Ctl \in bs
    <3>1. ctl'.k = ctl.k /\ ctl'.st = "failed"
      BY <1>1, <1>8, <2>1 DEF DialFailed
    <3>2. QED BY <1>7, <1>8, <2>1, <3>1
  <2>2. CASE Ctl \notin bs
    BY <1>4, <1>8, <2>2 DEF DialFailed
  <2>3. QED BY <2>1, <2>2
<1>9. \A d \in dials : ~d.left /\ d.by = Ctl => ctl.st = "dial"
  BY DEF Base, DialsOK
<1>10. ASSUME NEW t \in Threads, Sends(t) PROVE LeavesAlone
  <2>1. UNCHANGED <<tangled, job, node, ctl>>
    BY <1>10 DEF Sends, BeginSend, Connect, Write, WriteFails, server
  <2>2. CASE BeginSend(t)
    BY <1>5, <2>1, <2>2 DEF BeginSend, wire
  <2>3. CASE Connect(t)
    <3>1. UNCHANGED conn \/ (Free # {} /\ conn' = [conn EXCEPT ![NewConn] = Connected])
      BY <2>3 DEF Connect
    <3>2. Free # {} => NewConn \in Conns /\ Quiet(conn[NewConn], Connected)
      BY FreshStream, UnusedStream DEF Quiet
    <3>3. QED BY <1>5, <1>6, <2>1, <3>1, <3>2
  <2>4. ASSUME NEW p, Write(t, p) PROVE LeavesAlone
    <3>1. sock \in Conns /\ conn' = [conn EXCEPT ![sock] = Written(conn[sock], Frame("data", Current(t), p))]
      BY <1>1, <2>4 DEF Write
    <3>2. Quiet(conn[sock], Written(conn[sock], Frame("data", Current(t), p)))
      BY <1>2, <3>1, QuietStreams
    <3>3. QED BY <1>6, <2>1, <3>1, <3>2
  <2>5. CASE WriteFails(t)
    <3>1. sock \in Conns /\ conn' = [conn EXCEPT ![sock] = CloseNear(conn[sock])]
      BY <1>1, <2>5 DEF WriteFails
    <3>2. QED BY <1>2, <1>6, <2>1, <3>1, QuietStreams
  <2>6. QED BY <1>10, <2>2, <2>3, <2>4, <2>5 DEF Sends
<1>11. ASSUME NEW d \in dials, Dials(d) \/ LeaveDial(d) PROVE LeavesAlone
  <2>1. UNCHANGED <<tangled, job, node>>
    BY <1>11 DEF Dials, DialPop, DialRefused, DialHand, LeaveDial, server
  <2>2. CASE DialPop(d)
    <3>1. PICK h : h = Head(parked)
      OBVIOUS
    <3>2. h \in Conns
      <4>1. parked \in Seq(Conns) /\ parked # <<>>
        BY <1>1, <2>2 DEF DialPop, Types, WireTypes
      <4>2. QED BY <3>1, <4>1, TailOfQueue
    <3>3. (conn' = conn \/ conn' = [conn EXCEPT ![h] = CloseNear(conn[h])]) /\ UNCHANGED ctl
      BY <2>2, <3>1 DEF DialPop
    <3>4. QED BY <1>2, <1>5, <1>6, <2>1, <3>2, <3>3, QuietStreams
  <2>3. CASE DialRefused(d)
    <3>1. UNCHANGED conn /\ (UNCHANGED ctl \/ (~d.left /\ DialFailed({d.by})))
      BY <2>3 DEF DialRefused
    <3>2. ~d.left /\ Ctl \in {d.by} => ctl.st = "dial"
      BY <1>9
    <3>3. QED BY <1>2, <1>5, <1>8, <2>1, <3>1, <3>2
  <2>4. CASE LeaveDial(d)
    <3>1. UNCHANGED conn /\ DialFailed({d.by}) /\ (Ctl \in {d.by} => ctl.st = "dial")
      BY <1>9, <2>4 DEF LeaveDial
    <3>2. QED BY <1>2, <1>8, <2>1, <3>1
  <2>5. CASE DialHand(d)
    <3> DEFINE called == [conn[d.cand] EXCEPT !.near = "open",
                            !.far = IF @ = "parked" /\ conn[d.cand].link = "up" THEN "called" ELSE @]
    <3>1. PICK c \in Conns : c = d.cand
      BY <1>1, <2>5 DEF DialHand
    <3>2. called \in StreamType /\ called.reply = conn[c].reply
      BY <1>2, <3>1 DEF StreamType
    <3>3. \/ conn' = [conn EXCEPT ![c] = CloseNear(conn[c])] /\ UNCHANGED ctl
          \/ conn' = [conn EXCEPT ![c] = CloseNear(called)] /\ UNCHANGED ctl
          \/ ~d.left /\ Answered(d.by, c, called)
      BY <2>5, <3>1 DEF DialHand
    <3>4. conn[c].reply = "none"
      <4>1. conn[c].near = "relay"
        BY <2>5, <3>1 DEF DialHand, Base, NearOK
      <4>2. QED BY <4>1 DEF Base, NearOK
    <3> HIDE DEF called
    <3>5. Quiet(conn[c], CloseNear(conn[c])) /\ Quiet(conn[c], CloseNear(called)) /\ Quiet(conn[c], called)
      BY <1>2, <3>2, NearClosed DEF Quiet
    <3>6. ASSUME ~d.left, Answered(d.by, c, called) PROVE LeavesAlone
      <4>1. CASE d.by = Ctl
        <5>1. /\ conn' = [conn EXCEPT ![c] = Written(called, Frame("configure", ctl.k, 2))]
              /\ ctl' = [ctl EXCEPT !.st = "wait", !.at = c]
          BY <3>6, <4>1 DEF Answered
        <5>2. ctl.st = "dial" /\ ctl'.k = ctl.k /\ ctl'.st = "wait" /\ ctl'.at = c
          BY <1>1, <1>9, <3>6, <4>1, <5>1
        <5>3. Written(called, Frame("configure", ctl.k, 2)).reply = "none"
          BY <3>2, <3>4, QuietStreams
        <5>4. conn'[c].reply = "none"
          BY <1>1, <5>1, <5>3
        <5>5. QED BY <1>7, <2>1, <5>2, <5>4
      <4>2. CASE d.by # Ctl
        <5>1. conn' = [conn EXCEPT ![c] = called] /\ UNCHANGED ctl
          BY <3>6, <4>2 DEF Answered
        <5>2. QED BY <1>6, <2>1, <3>5, <5>1
      <4>3. QED BY <4>1, <4>2
    <3>7. QED BY <1>6, <2>1, <3>3, <3>5, <3>6
  <2>6. QED BY <1>11, <2>2, <2>3, <2>4, <2>5 DEF Dials
<1>12. ASSUME NEW c \in Conns, Serves(c) \/ Notice(c), ~ConfigureBegins(c) PROVE LeavesAlone
  <2>1. UNCHANGED <<tangled, job, node, ctl>>
    BY <1>12 DEF Serves, Notice, ParkerWakes, Accept, ReadEnds, ReadData, server
  <2>2. \/ conn' = [conn EXCEPT ![c] = [conn[c] EXCEPT !.far = "ready"]]
        \/ conn' = [conn EXCEPT ![c] = CloseFar(conn[c], "reset")]
        \/ conn' = [conn EXCEPT ![c] = [conn[c] EXCEPT !.far = "serving"]]
        \/ conn' = [conn EXCEPT ![c] = [conn[c] EXCEPT !.q = Rest(conn[c].q)]]
        \/ conn' = [conn EXCEPT ![c] = [conn[c] EXCEPT !.link = "reset"]]
    <3>1. CASE ParkerWakes(c) \/ Accept(c)
      BY <1>1, <3>1 DEF ParkerWakes, Accept
    <3>2. CASE ReadEnds(c) \/ ReadData(c) \/ Notice(c)
      BY <1>1, <3>2 DEF ReadEnds, ReadData, Notice
    <3>3. QED BY <1>12, <3>1, <3>2 DEF Serves
  <2>3. /\ Quiet(conn[c], [conn[c] EXCEPT !.far = "ready"])
        /\ Quiet(conn[c], CloseFar(conn[c], "reset"))
        /\ Quiet(conn[c], [conn[c] EXCEPT !.far = "serving"])
        /\ Quiet(conn[c], [conn[c] EXCEPT !.q = Rest(conn[c].q)])
        /\ Quiet(conn[c], [conn[c] EXCEPT !.link = "reset"])
    BY <1>2, QuietStreams
  <2>4. QED BY <1>6, <2>1, <2>2, <2>3
<1>13. CASE Park
  <2>1. PICK c \in Conns : c = NewConn /\ conn[c] = Unused
    BY <1>13, FreshStream DEF Park
  <2>2. /\ conn' = [conn EXCEPT ![c] = Parked] /\ Quiet(conn[c], Parked)
        /\ UNCHANGED <<tangled, job, node, ctl>>
    BY <1>13, <2>1, UnusedStream DEF Park, server, Quiet
  <2>3. QED BY <1>6, <2>2
<1>14. CASE Call
  <2>1. UNCHANGED <<tangled, job, node>> /\ ctl.st = "connect"
    BY <1>14 DEF Call, server
  <2>2. \/ /\ Free # {} /\ ctl' = [ctl EXCEPT !.st = "wait", !.at = NewConn]
           /\ conn' = [conn EXCEPT ![NewConn] = Written(Connected, Frame("configure", ctl.k, 2))]
        \/ ctl' = [ctl EXCEPT !.st = "dial"]
        \/ ctl' = [ctl EXCEPT !.st = "failed"]
    BY <1>14 DEF Call
  <2>3. CASE /\ Free # {} /\ ctl' = [ctl EXCEPT !.st = "wait", !.at = NewConn]
             /\ conn' = [conn EXCEPT ![NewConn] = Written(Connected, Frame("configure", ctl.k, 2))]
    <3>1. NewConn \in Conns
      BY <2>3, FreshStream
    <3>2. Written(Connected, Frame("configure", ctl.k, 2)).reply = "none"
      BY UnusedStream, QuietStreams
    <3>3. ctl'.k = ctl.k /\ ctl'.st = "wait" /\ ctl'.at = NewConn
      BY <1>1, <2>3
    <3>4. conn'[NewConn].reply = "none"
      BY <1>1, <2>3, <3>1, <3>2
    <3>5. QED BY <1>7, <2>1, <3>3, <3>4
  <2>4. CASE ctl' = [ctl EXCEPT !.st = "dial"] \/ ctl' = [ctl EXCEPT !.st = "failed"]
    <3>1. ctl'.k = ctl.k /\ ctl'.st \in {"dial", "failed"}
      BY <1>1, <2>4
    <3>2. QED BY <1>7, <2>1, <3>1
  <2>5. QED BY <2>2, <2>3, <2>4
<1>15. ASSUME Answer \/ GiveUp PROVE LeavesAlone
  <2>1. PICK st \in {"acked", "failed"} : HangUp(st) /\ (st = "acked" => conn[ctl.at].reply = "ack")
    BY <1>15 DEF Answer, GiveUp
  <2>2. ctl.st = "wait"
    BY <1>15 DEF Answer, GiveUp
  <2>3. ctl'.k = ctl.k /\ ctl'.st = st /\ UNCHANGED <<tangled, job, node>>
    BY <1>1, <2>1 DEF HangUp, server
  <2>4. QED BY <2>1, <2>2, <2>3 DEF LeavesAlone, Acked
<1>16. ASSUME RelayStarts \/ Restart PROVE LeavesAlone
  BY <1>5, <1>16 DEF RelayStarts, Restart, server
<1>17. ASSUME NEW l \in {"gone", "reset"}, NEW k \in 0..2, RelayStops(k, l) PROVE LeavesAlone
  <2>1. /\ conn' = [c \in Conns |->
                  CASE conn[c].near = "relay" -> CloseNear(conn[c])
                    [] conn[c] = Unused -> Unused
                    [] OTHER -> Cut(conn[c], k, l, conn[c].link = "up")]
        /\ UNCHANGED <<tangled, job, node>>
    BY <1>17 DEF RelayStops, server
  <2>2. ASSUME NEW c \in Conns PROVE Quiet(conn[c], conn'[c])
    <3>1. \/ conn'[c] = CloseNear(conn[c])
          \/ conn'[c] = conn[c]
          \/ conn'[c] = Cut(conn[c], k, l, conn[c].link = "up")
      <4>1. CASE conn[c].near = "relay"
        BY <2>1, <4>1, UnusedStream
      <4>2. CASE conn[c] = Unused
        BY <2>1, <4>2, UnusedStream
      <4>3. CASE conn[c].near # "relay" /\ conn[c] # Unused
        BY <2>1, <4>3
      <4>4. QED BY <4>1, <4>2, <4>3
    <3>2. k \in Nat /\ (conn[c].link = "up") \in BOOLEAN
      OBVIOUS
    <3>3. \A e \in BOOLEAN : Quiet(conn[c], Cut(conn[c], k, l, e))
      BY <1>2, <3>2, QuietStreams
    <3>4. Quiet(conn[c], CloseNear(conn[c]))
      BY <1>2, QuietStreams
    <3>5. QED BY <1>2, <3>1, <3>2, <3>3, <3>4
  <2>3. PICK bs : bs = {d.by : d \in {x \in dials : ~x.left}}
    OBVIOUS
  <2>4. DialFailed(bs) /\ (Ctl \in bs => ctl.st = "dial")
    BY <1>9, <1>17, <2>3 DEF RelayStops
  <2>5. QED BY <1>8, <2>1, <2>2, <2>4
<1>18. ASSUME NEW l \in {"gone", "reset"}, NEW k \in 0..2, NEW c \in Conns, Break(c, k, l)
       PROVE  LeavesAlone
  <2>1. /\ conn' = [conn EXCEPT ![c] = Cut(conn[c], k, l, l = "reset")]
        /\ UNCHANGED <<tangled, job, node, ctl>>
    BY <1>18 DEF Break, server
  <2>2. (l = "reset") \in BOOLEAN /\ k \in Nat
    OBVIOUS
  <2>3. Quiet(conn[c], Cut(conn[c], k, l, l = "reset"))
    BY <1>2, <2>2, QuietStreams
  <2>4. QED BY <1>6, <2>1, <2>3
<1>19. CASE UNCHANGED vars
  BY <1>5, <1>19 DEF vars, wire, server
<1>20. QED
  BY <1>10, <1>11, <1>12, <1>13, <1>14, <1>15, <1>16, <1>17, <1>18, <1>19 DEF Next, Faults

(* What is on its way was so before, a number of frames later.             *)
Shifted ==
    \A c \in Conns : \E n \in Nat : \A i \in Nat :
      Ordered(c, i)' => Ordered(c, i + n) /\ conn'[c].q[i] = conn[c].q[i + n]

LEMMA ConfigKept ==
    ASSUME ConfigOK, LeavesAlone, Shifted
    PROVE  ConfigOK'
<1>1. UNCHANGED <<tangled, job, node>> /\ ctl'.k = ctl.k
  BY DEF LeavesAlone
<1>2. Settled => Settled'
  <2>1. ASSUME Settled, NEW c \in Conns, NEW i \in Nat, Ordered(c, i)' PROVE FALSE
    <3>1. PICK n \in Nat : Ordered(c, i)' => Ordered(c, i + n)
      BY DEF Shifted
    <3>2. i + n \in Nat /\ Ordered(c, i + n)
      BY <2>1, <3>1
    <3>3. QED BY <2>1, <3>2 DEF Settled
  <2>2. QED BY <1>1, <2>1 DEF Settled
<1>3. SUFFICES ASSUME ~tangled PROVE ConfigOK'
  BY <1>1 DEF ConfigOK
<1>4. ctl'.st \in {"wait", "failed"} \/ Settled'
  BY <1>2, <1>3 DEF ConfigOK, LeavesAlone
<1>5. ASSUME NEW c \in Conns, NEW i \in Nat, Ordered(c, i)' PROVE conn'[c].q[i].of = ctl'.k
  <2>1. PICK n \in Nat : Ordered(c, i + n) /\ conn'[c].q[i] = conn[c].q[i + n]
    BY <1>5 DEF Shifted
  <2>2. i + n \in Nat
    OBVIOUS
  <2>3. QED BY <1>1, <1>3, <2>1, <2>2 DEF ConfigOK
<1>6. ASSUME NEW c \in Conns, NEW d \in Conns, NEW i \in Nat, NEW j \in Nat,
             Ordered(c, i)', Ordered(d, j)'
      PROVE  c = d /\ i = j
  <2>1. PICK n \in Nat : \A x \in Nat : Ordered(c, x)' => Ordered(c, x + n)
    BY DEF Shifted
  <2>2. PICK m \in Nat : \A x \in Nat : Ordered(d, x)' => Ordered(d, x + m)
    BY DEF Shifted
  <2>3. i + n \in Nat /\ j + m \in Nat /\ j + n \in Nat
    OBVIOUS
  <2>4. c = d
    BY <1>3, <1>6, <2>1, <2>2, <2>3 DEF ConfigOK
  <2>5. Ordered(c, j + n) /\ Ordered(c, i + n)
    BY <1>6, <2>1, <2>4
  <2>6. i + n = j + n
    BY <1>3, <2>3, <2>5 DEF ConfigOK
  <2>7. QED BY <2>4, <2>6
<1>7. ASSUME NEW k \in Configs, job'[k].st # "idle"
      PROVE  /\ k = ctl'.k
             /\ \A c \in Conns : \A i \in Nat : ~(Ordered(c, i)')
             /\ node'.cfg = k
             /\ job'[k].st = "replace" => node'.model = k
  <2>1. /\ k = ctl.k /\ node.cfg = k /\ (job[k].st = "replace" => node.model = k)
        /\ \A c \in Conns : \A i \in Nat : ~Ordered(c, i)
    BY <1>1, <1>3, <1>7 DEF ConfigOK
  <2>2. ASSUME NEW c \in Conns, NEW i \in Nat, Ordered(c, i)' PROVE FALSE
    <3>1. PICK n \in Nat : Ordered(c, i + n)
      BY <2>2 DEF Shifted
    <3>2. i + n \in Nat
      OBVIOUS
    <3>3. QED BY <2>1, <3>1, <3>2
  <2>3. QED BY <1>1, <2>1, <2>2
<1>8. Acked' => Settled' /\ node' \in {ConfiguredBy(ctl'.k), Unconfigured}
  BY <1>1, <1>2, <1>3 DEF ConfigOK, LeavesAlone
<1>9. QED BY <1>4, <1>5, <1>6, <1>7, <1>8 DEF ConfigOK

(* The queues of the steps that keep the configuration.                    *)
LEMMA ShiftedQueues ==
    ASSUME Base
    PROVE  /\ Shrunk => Shifted
           /\ \A t \in Threads : \A p \in {1, 2} : Write(t, p) => Shifted
           /\ \A c \in Conns : ReadData(c) => Shifted
<1>1. conn \in [Conns -> StreamType] /\ sock \in Conns \cup {0} /\ 0 \notin Conns
  BY Constants DEF Base, Types, WireTypes, SendTypes
<1>2. \A c \in Conns : conn[c] \in StreamType /\ conn[c].q \in Seq(Frames)
  BY <1>1, StreamFields
<1>3. ASSUME \A c \in Conns : \A i \in Nat :
               Ordered(c, i)' => Ordered(c, i) /\ conn'[c].q[i] = conn[c].q[i]
      PROVE  Shifted
  <2>1. \A i \in Nat : i + 0 = i
    OBVIOUS
  <2>2. QED BY <1>3, <2>1 DEF Shifted
<1>4. Shrunk => Shifted
  <2>1. ASSUME Shrunk, NEW c \in Conns, NEW i \in Nat, Ordered(c, i)'
        PROVE  Ordered(c, i) /\ conn'[c].q[i] = conn[c].q[i]
    <3>1. Start(conn'[c].q, conn[c].q)
      BY <2>1 DEF Shrunk
    <3>2. i \in DOMAIN conn'[c].q /\ conn'[c].q[i].kind = "configure"
      BY <2>1 DEF Ordered
    <3>3. QED BY <3>1, <3>2 DEF Start, Ordered
  <2>2. QED BY <1>3, <2>1
<1>5. ASSUME NEW t \in Threads, NEW p \in {1, 2}, Write(t, p) PROVE Shifted
  <2>1. /\ sock \in Conns /\ send[t].st # "idle"
        /\ conn' = [conn EXCEPT ![sock] = Written(conn[sock], Frame("data", Current(t), p))]
    BY <1>1, <1>5 DEF Write
  <2>2. PICK f \in Frames : f = Frame("data", Current(t), p)
    <3>1. send[t].n <= Len(Script[t])
      BY <2>1 DEF Base, CallsOK
    <3>2. Current(t) \in Msgs
      BY <3>1, CurrentOf
    <3>3. QED BY <3>2, FramesOf
  <2>3. conn'[sock] = Written(conn[sock], f) /\ \A d \in Conns : d # sock => conn'[d] = conn[d]
    BY <1>1, <2>1, <2>2
  <2>4. PICK q \in Seq(Frames) : q = conn[sock].q
    BY <1>2, <2>1
  <2>5. conn'[sock].q = q \/ conn'[sock].q = Append(q, f)
    <3>1. Written(conn[sock], f).q \in {conn[sock].q, Append(conn[sock].q, f)}
      BY <1>2, <2>1, WrittenTo
    <3>2. QED BY <2>3, <2>4, <3>1
  <2>6. ASSUME NEW c \in Conns, NEW i \in Nat, Ordered(c, i)'
        PROVE  Ordered(c, i) /\ conn'[c].q[i] = conn[c].q[i]
    <3>1. CASE c # sock
      BY <2>3, <2>6, <3>1 DEF Ordered
    <3>2. CASE c = sock /\ conn'[sock].q = q
      BY <2>4, <2>6, <3>2 DEF Ordered
    <3>3. CASE c = sock /\ conn'[sock].q = Append(q, f)
      <4>1. i \in DOMAIN Append(q, f) /\ Append(q, f)[i].kind = "configure"
        BY <2>6, <3>3 DEF Ordered
      <4>2. f.kind = "data"
        BY <2>2 DEF Frame
      <4>3. i \in 1..Len(q)
        <5>1. i \in 1..(Len(q) + 1) /\ Len(q) \in Nat
          BY <4>1, WriteEnds
        <5>2. i # Len(q) + 1
          BY <4>1, <4>2, WriteEnds
        <5>3. QED BY <5>1, <5>2
      <4>4. i \in DOMAIN q /\ Append(q, f)[i] = q[i]
        BY <4>3, WriteEnds
      <4>5. QED BY <2>4, <3>3, <4>1, <4>4 DEF Ordered
    <3>4. QED BY <2>5, <3>1, <3>2, <3>3
  <2>7. QED BY <1>3, <2>6
<1>6. ASSUME NEW c \in Conns, ReadData(c) PROVE Shifted
  <2>1. PICK q \in Seq(Frames) : q = conn[c].q
    BY <1>2
  <2>2. conn'[c].q = Rest(q) /\ (\A d \in Conns : d # c => conn'[d] = conn[d]) /\ After(Rest(q), q, 2)
    <3>1. conn' = [conn EXCEPT ![c].q = Rest(conn[c].q)] /\ WholeHead(q) /\ q[1].kind = "data"
      BY <1>6, <2>1 DEF ReadData
    <3>2. conn'[c] = [conn[c] EXCEPT !.q = Rest(conn[c].q)] /\ \A d \in Conns : d # c => conn'[d] = conn[d]
      BY <1>1, <3>1
    <3>3. conn'[c].q = Rest(q)
      BY <1>2, <2>1, <3>2 DEF StreamType
    <3>4. QED BY <3>1, <3>2, <3>3, WholeHeads
  <2>3. ASSUME NEW d \in Conns
        PROVE  \E n \in Nat : \A i \in Nat :
                 Ordered(d, i)' => Ordered(d, i + n) /\ conn'[d].q[i] = conn[d].q[i + n]
    <3>1. CASE d = c
      <4>1. ASSUME NEW i \in Nat, Ordered(c, i)'
            PROVE  Ordered(c, i + 2) /\ conn'[c].q[i] = conn[c].q[i + 2]
        <5>1. i \in DOMAIN Rest(q) /\ Rest(q)[i].kind = "configure"
          BY <2>2, <4>1 DEF Ordered
        <5>2. i + 2 \in DOMAIN q /\ Rest(q)[i] = q[i + 2]
          BY <2>2, <5>1 DEF After
        <5>3. QED BY <2>1, <2>2, <5>1, <5>2 DEF Ordered
      <4>2. QED BY <3>1, <4>1
    <3>2. CASE d # c
      <4>1. \A i \in Nat : i + 0 = i
        OBVIOUS
      <4>2. \A i \in Nat : Ordered(d, i)' => Ordered(d, i) /\ conn'[d].q[i] = conn[d].q[i]
        BY <2>2, <3>2 DEF Ordered
      <4>3. QED BY <4>1, <4>2
    <3>3. QED BY <3>1, <3>2
  <2>4. QED BY <2>3 DEF Shifted
<1>7. QED BY <1>4, <1>5, <1>6

LEMMA ConfigStep ==
    ASSUME Base, Base', ConfigOK, [Next]_vars
    PROVE  ConfigOK'
<1>1. /\ conn \in [Conns -> StreamType] /\ sock \in Conns \cup {0} /\ 0 \notin Conns /\ Types
      /\ node \in [cfg : Choice, model : Choice, clf : Choice, pool : Choice]
      /\ job \in [Configs -> [st : {"idle", "load", "replace"}, at : Conns \cup {0}]]
  BY Constants DEF Base, Types, WireTypes, NodeTypes, SendTypes
<1>2. \A c \in Conns : conn[c] \in StreamType /\ conn[c].q \in Seq(Frames)
  BY <1>1, StreamFields
<1>3. ASSUME tangled' PROVE ConfigOK'
  BY <1>3 DEF ConfigOK
<1>4. ASSUME LeavesAlone, Shifted PROVE ConfigOK'
  BY <1>4, ConfigKept
(* One configure is on its way and nothing else.                           *)
<1>5. ASSUME NEW c \in Conns, Orders(c) PROVE ConfigOK'
  <2>1. SUFFICES ASSUME ~tangled PROVE ConfigOK'
    BY <1>3, <1>5 DEF Orders
  <2>2. Settled
    BY <1>5, <2>1 DEF Orders, ConfigOK
  <2>3. job' = job /\ ctl'.k = ctl.k /\ ctl'.st = "wait" /\ conn'[ctl'.at].reply # "ack"
    BY <1>5 DEF Orders
  <2>4. ASSUME NEW d \in Conns, NEW i \in Nat, Ordered(d, i)'
        PROVE  d = c /\ i = 1 /\ conn'[d].q[i].of = ctl.k
    <3>1. d = c
      <4>1. ASSUME d # c PROVE FALSE
        <5>1. conn'[d] = conn[d]
          BY <1>5, <4>1 DEF Orders
        <5>2. Ordered(d, i)
          BY <2>4, <5>1 DEF Ordered
        <5>3. QED BY <2>2, <5>2 DEF Settled
      <4>2. QED BY <4>1
    <3>2. i \in DOMAIN conn'[c].q
      BY <2>4, <3>1 DEF Ordered
    <3>3. conn'[c].q # <<>>
      BY <3>2, EmptySeq
    <3>4. conn'[c].q = <<Frame("configure", ctl.k, 2)>>
      BY <1>5, <3>3 DEF Orders
    <3>5. i = 1 /\ conn'[c].q[1].of = ctl.k
      BY <3>2, <3>4 DEF Frame
    <3>6. QED BY <3>1, <3>5
  <2>5. \A k \in Configs : job'[k].st = "idle"
    BY <2>2, <2>3 DEF Settled
  <2>6. ~(Acked')
    BY <2>3 DEF Acked
  <2>7. QED BY <2>3, <2>4, <2>5, <2>6 DEF ConfigOK
<1>6. ASSUME NEW c \in Conns, ConfigureBegins(c) PROVE ConfigOK'
  <2>1. PICK q \in Seq(Frames) : q = conn[c].q
    BY <1>2
  <2>2. /\ conn' = [conn EXCEPT ![c].q = Rest(conn[c].q)] /\ WholeHead(q)
        /\ q[1].kind = "configure" /\ UNCHANGED <<ctl, tangled>>
        /\ node' = [node EXCEPT !.model = None, !.cfg = q[1].of]
        /\ job' = [job EXCEPT ![q[1].of] = [st |-> "load", at |-> c]]
    BY <1>6, <2>1 DEF ConfigureBegins
  <2>3. SUFFICES ASSUME ~tangled PROVE ConfigOK'
    BY <1>3, <2>2
  <2>4. /\ conn'[c].q = Rest(q) /\ (\A d \in Conns : d # c => conn'[d] = conn[d])
        /\ After(Rest(q), q, 1) /\ conn'[c].reply = conn[c].reply
    <3>1. conn'[c] = [conn[c] EXCEPT !.q = Rest(conn[c].q)] /\ \A d \in Conns : d # c => conn'[d] = conn[d]
      BY <1>1, <2>2
    <3>2. conn'[c].q = Rest(q) /\ conn'[c].reply = conn[c].reply
      BY <1>2, <2>1, <3>1 DEF StreamType
    <3>3. QED BY <2>2, <3>1, <3>2, WholeHeads
  <2>5. Ordered(c, 1)
    <3>1. 1 \in DOMAIN q
      BY <2>4 DEF After
    <3>2. QED BY <2>1, <2>2, <3>1 DEF Ordered
  <2>6. ~Settled
    BY <2>5 DEF Settled
  <2>7. ctl.st \in {"wait", "failed"} /\ ~Acked
    BY <2>3, <2>6 DEF ConfigOK
  <2>8. q[1].of = ctl.k
    BY <2>1, <2>3, <2>5 DEF ConfigOK
  <2>9. \A k \in Configs : job[k].st = "idle"
    BY <2>3, <2>5 DEF ConfigOK
  <2>10. ASSUME NEW d \in Conns, NEW i \in Nat, Ordered(d, i)' PROVE FALSE
    <3>1. CASE d = c
      <4>1. i \in DOMAIN Rest(q) /\ Rest(q)[i].kind = "configure"
        BY <2>4, <2>10, <3>1 DEF Ordered
      <4>2. i + 1 \in DOMAIN q /\ Rest(q)[i] = q[i + 1] /\ Len(Rest(q)) \in Nat /\ i \in 1..Len(Rest(q))
        BY <2>4, <4>1, LenProperties DEF After
      <4>3. PICK j \in Nat : j = i + 1 /\ j # 1
        BY <4>2
      <4>4. Ordered(c, j)
        BY <2>1, <4>1, <4>2, <4>3 DEF Ordered
      <4>5. QED BY <2>3, <2>5, <4>3, <4>4 DEF ConfigOK
    <3>2. CASE d # c
      <4>1. Ordered(d, i)
        BY <2>4, <2>10, <3>2 DEF Ordered
      <4>2. QED BY <2>3, <2>5, <3>2, <4>1 DEF ConfigOK
    <3>3. QED BY <3>1, <3>2
  <2>11. q[1].of \in Configs
    <3>1. q[1] \in Frames
      BY <2>2, WholeHeads
    <3>2. QED BY <2>2, <3>1, FramesOf
  <2>12. node'.cfg = ctl.k
    BY <1>1, <2>2, <2>8
  <2>13. ASSUME NEW k \in Configs, job'[k].st # "idle"
         PROVE  k = ctl.k /\ job'[k].st = "load"
    <3>1. CASE k = q[1].of
      BY <1>1, <2>2, <2>8, <3>1
    <3>2. CASE k # q[1].of
      <4>1. job'[k] = job[k]
        BY <1>1, <2>2, <3>2
      <4>2. QED BY <2>9, <2>13, <4>1
    <3>3. QED BY <3>1, <3>2
  <2>14. ~(Acked')
    <3>1. conn'[ctl.at].reply = conn[ctl.at].reply \/ ctl.st # "wait"
      <4>1. ctl.st = "wait" => ctl.at \in Conns
        BY <1>1 DEF Types, CtlTypes
      <4>2. QED BY <2>4, <4>1
    <3>2. QED BY <2>2, <2>7, <3>1 DEF Acked
  <2>15. QED BY <2>2, <2>7, <2>10, <2>12, <2>13, <2>14 DEF ConfigOK
(* The job ends or goes on.                                                *)
<1>7. ASSUME NEW k \in Configs, Applies(k) \/ LoadFails(k), Shrunk PROVE ConfigOK'
  <2>1. UNCHANGED <<ctl, tangled>> /\ job[k].st # "idle"
    BY <1>7 DEF Applies, Load, Replace, LoadFails
  <2>2. SUFFICES ASSUME ~tangled PROVE ConfigOK'
    BY <1>3, <2>1
  <2>3. /\ k = ctl.k /\ node.cfg = k /\ (job[k].st = "replace" => node.model = k)
        /\ \A c \in Conns : \A i \in Nat : ~Ordered(c, i)
    BY <2>1, <2>2 DEF ConfigOK
  <2>4. ctl.st \in {"wait", "failed"} /\ ~Acked
    BY <2>1, <2>2 DEF ConfigOK, Settled
  <2>5. \A j \in Configs : j # k => job[j].st = "idle"
    BY <2>2, <2>3 DEF ConfigOK
  <2>6. \A c \in Conns : \A i \in Nat : ~(Ordered(c, i)')
    <3>1. ASSUME NEW c \in Conns, NEW i \in Nat, Ordered(c, i)' PROVE FALSE
      <4>1. Start(conn'[c].q, conn[c].q)
        BY <1>7 DEF Shrunk
      <4>2. Ordered(c, i)
        BY <3>1, <4>1 DEF Start, Ordered
      <4>3. QED BY <2>3, <4>2
    <3>2. QED BY <3>1
  <2>7. ASSUME \A j \in Configs : job'[j].st = "idle",
               Acked' => node' \in {ConfiguredBy(ctl.k), Unconfigured}
        PROVE  ConfigOK'
    BY <2>1, <2>6, <2>7 DEF ConfigOK, Settled
  <2>8. CASE Load(k)
    <3>1. /\ node' = [node EXCEPT !.model = k] /\ job' = [job EXCEPT ![k].st = "replace"]
          /\ UNCHANGED conn
      BY <2>8 DEF Load, wire
    <3>2. node'.cfg = k /\ node'.model = k
      BY <1>1, <2>3, <3>1
    <3>3. \A j \in Configs : job'[j].st # "idle" => j = k
      BY <1>1, <2>5, <3>1
    <3>4. ~(Acked')
      BY <2>1, <2>4, <3>1 DEF Acked
    <3>5. QED BY <2>1, <2>3, <2>4, <2>6, <3>2, <3>3, <3>4 DEF ConfigOK
  <2>9. CASE Replace(k)
    <3>1. node' = [node EXCEPT !.clf = k, !.pool = k] /\ job' = [job EXCEPT ![k] = NoJob]
      BY <2>9 DEF Replace
    <3>2. node.cfg = k /\ node.model = k
      BY <2>3, <2>9 DEF Replace
    <3>3. node' = ConfiguredBy(k)
      BY <1>1, <3>1, <3>2 DEF ConfiguredBy
    <3>4. \A j \in Configs : job'[j].st = "idle"
      BY <1>1, <2>5, <3>1 DEF NoJob
    <3>5. QED BY <2>3, <2>7, <3>3, <3>4
  <2>10. CASE LoadFails(k)
    <3>1. job' = [job EXCEPT ![k] = NoJob] /\ Reply(job[k].at, "error")
      BY <2>10 DEF LoadFails
    <3>2. \A j \in Configs : job'[j].st = "idle"
      BY <1>1, <2>5, <3>1 DEF NoJob
    <3>3. PICK c \in Conns : c = job[k].at
      BY <1>1, <2>1 DEF Types, NodeTypes
    <3>4. \E r : conn' = [conn EXCEPT ![c] = [conn[c] EXCEPT !.reply = r]] /\ r \in {"error", conn[c].reply}
      BY <1>1, <3>1, <3>3 DEF Reply
    <3>5. \A d \in Conns : conn'[d].reply = "ack" => conn[d].reply = "ack"
      BY <1>1, <1>2, <3>4 DEF StreamType
    <3>6. ctl.st = "wait" => ctl.at \in Conns
      BY <1>1 DEF Types, CtlTypes
    <3>7. ~(Acked')
      BY <2>1, <2>4, <3>5, <3>6 DEF Acked
    <3>8. QED BY <2>7, <3>2, <3>7
  <2>11. QED BY <1>7, <2>8, <2>9, <2>10 DEF Applies
(* The controller starts again, and nothing it left is under way.          *)
<1>8. CASE StartConfigure
  <2>1. /\ UNCHANGED <<conn, job>> /\ ctl' = [k |-> ctl.k + 1, st |-> "connect", at |-> 0]
        /\ tangled' = (tangled \/ \E k \in Configs : UnderWay(k))
    BY <1>8 DEF StartConfigure, wire, server
  <2>2. SUFFICES ASSUME ~tangled' PROVE ConfigOK'
    BY <1>3
  <2>3. \A k \in Configs : ~UnderWay(k)
    BY <2>1, <2>2
  <2>4. \A k \in Configs : job[k].st = "idle"
    BY <2>3 DEF UnderWay
  <2>5. ASSUME NEW c \in Conns, NEW i \in Nat, Ordered(c, i) PROVE FALSE
    <3>1. conn[c].q[i] \in Frames /\ conn[c].q[i].kind = "configure" /\ i \in DOMAIN conn[c].q
      <4>1. i \in DOMAIN conn[c].q /\ conn[c].q[i].kind = "configure"
        BY <2>5 DEF Ordered
      <4>2. i \in 1..Len(conn[c].q)
        BY <1>2, <4>1, LenProperties
      <4>3. QED BY <1>2, <4>1, <4>2, ElementOfSeq
    <3>2. conn[c].q[i].of \in Configs
      BY <3>1, FramesOf
    <3>3. QED BY <2>3, <3>1, <3>2 DEF UnderWay
  <2>6. Settled' /\ ctl'.st = "connect"
    BY <2>1, <2>4, <2>5 DEF Settled, Ordered
  <2>7. QED BY <2>6 DEF ConfigOK, Settled, Acked
<1>9. ASSUME NEW l \in {"gone", "reset"}, Crash(l) PROVE ConfigOK'
  <2>1. /\ conn' = [c \in Conns |-> IF conn[c].far = "closed" THEN conn[c] ELSE CloseFar(conn[c], l)]
        /\ node' = Unconfigured /\ job' = [k \in Configs |-> NoJob]
        /\ UNCHANGED <<ctl, tangled>>
    BY <1>9 DEF Crash
  <2>2. SUFFICES ASSUME ~tangled PROVE ConfigOK'
    BY <1>3, <2>1
  <2>3. \A k \in Configs : job'[k].st = "idle"
    BY <2>1 DEF NoJob
  <2>4. Shrunk
    <3>1. \A c \in Conns : Start(conn[c].q, conn[c].q) /\ Start(CloseFar(conn[c], l).q, conn[c].q)
      BY <1>2, ShrunkStreams
    <3>2. QED BY <2>1, <3>1 DEF Shrunk
  <2>5. \A c \in Conns : \A i \in Nat :
          Ordered(c, i)' => Ordered(c, i) /\ conn'[c].q[i] = conn[c].q[i]
    <3>1. ASSUME NEW c \in Conns, NEW i \in Nat, Ordered(c, i)'
          PROVE  Ordered(c, i) /\ conn'[c].q[i] = conn[c].q[i]
      <4>1. Start(conn'[c].q, conn[c].q)
        BY <2>4 DEF Shrunk
      <4>2. i \in DOMAIN conn'[c].q /\ conn'[c].q[i].kind = "configure"
        BY <3>1 DEF Ordered
      <4>3. QED BY <4>1, <4>2 DEF Start, Ordered
    <3>2. QED BY <3>1
  <2>6. Settled => Settled'
    BY <2>3, <2>5 DEF Settled
  <2>7. Acked' => Acked
    <3>1. \A c \in Conns : conn'[c].reply = "ack" => conn[c].reply = "ack"
      <4>1. \A c \in Conns : Quiet(conn[c], conn[c]) /\ Quiet(conn[c], CloseFar(conn[c], l))
        BY <1>2, QuietStreams
      <4>2. QED BY <2>1, <4>1 DEF Quiet
    <3>2. ctl.st = "wait" => ctl.at \in Conns
      BY <1>1 DEF Types, CtlTypes
    <3>3. QED BY <2>1, <3>1, <3>2 DEF Acked
  <2>8. /\ \A c \in Conns : \A i \in Nat : Ordered(c, i)' => conn'[c].q[i].of = ctl'.k
        /\ \A c, d \in Conns : \A i, j \in Nat : Ordered(c, i)' /\ Ordered(d, j)' => c = d /\ i = j
    BY <2>1, <2>2, <2>5 DEF ConfigOK
  <2>9. ctl'.st \in {"wait", "failed"} \/ Settled'
    BY <2>1, <2>2, <2>6 DEF ConfigOK
  <2>10. Acked' => Settled' /\ node' \in {ConfiguredBy(ctl'.k), Unconfigured}
    BY <2>1, <2>2, <2>6, <2>7 DEF ConfigOK
  <2>11. QED BY <2>3, <2>8, <2>9, <2>10 DEF ConfigOK
<1>10. ASSUME NEW k \in Configs, Applies(k) \/ LoadFails(k) PROVE ConfigOK'
  <2>1. job' # job
    <3>1. CASE Load(k)
      <4>1. job[k].st = "load" /\ job'[k].st = "replace"
        BY <1>1, <3>1 DEF Load
      <4>2. QED BY <4>1
    <3>2. CASE Replace(k) \/ LoadFails(k)
      <4>1. job[k].st # "idle" /\ job'[k].st = "idle"
        BY <1>1, <3>2 DEF Replace, LoadFails, NoJob
      <4>2. QED BY <4>1
    <3>3. QED BY <1>10, <3>1, <3>2 DEF Applies
  <2>2. /\ \A t \in Threads : \A p \in {1, 2} : ~Write(t, p)
        /\ \A c \in Conns : ~ReadData(c)
    BY <2>1 DEF Write, ReadData, server
  <2>3. QED BY <1>5, <1>6, <1>7, <1>10, <2>2, QueueMoves
<1>11. ASSUME LeavesAlone PROVE ConfigOK'
  <2>1. Shifted \/ (\E c \in Conns : Orders(c) \/ ConfigureBegins(c))
    BY QueueMoves, ShiftedQueues
  <2>2. QED BY <1>4, <1>5, <1>6, <1>11, <2>1
<1>12. QED BY <1>6, <1>8, <1>9, <1>10, <1>11, ConfigMoves

(* AckedWhole: after an acknowledged run of the controller the node works  *)
(* with that run's manifest alone, or has started again with none, unless  *)
(* an abandoned configure was under way when a run began.                  *)
THEOREM AcknowledgedWhole ==
    Spec => []AckedWhole
<1>1. ASSUME Init PROVE ConfigOK
  <2>1. /\ conn = [c \in Conns |-> Unused] /\ job = [k \in Configs |-> NoJob]
        /\ ctl = [k |-> 0, st |-> "idle", at |-> 0]
    BY <1>1 DEF Init
  <2>2. \A c \in Conns : \A i \in Nat : ~Ordered(c, i)
    BY <2>1, UnusedStream, EmptySeq DEF Ordered
  <2>3. \A k \in Configs : job[k].st = "idle"
    BY <2>1 DEF NoJob
  <2>4. ctl.st = "idle"
    BY <2>1
  <2>5. QED BY <2>2, <2>3, <2>4 DEF ConfigOK, Settled, Acked
<1>2. Base /\ Base' /\ ConfigOK /\ [Next]_vars => ConfigOK'
  BY ConfigStep
<1>3. ConfigOK => AckedWhole
  BY DEF ConfigOK, AckedWhole, Acked
<1>4. QED BY <1>1, <1>2, <1>3, BaseInvariant, PTL DEF Spec

=============================================================================
