----------------------------- MODULE Ring_proofs -----------------------------
(***************************************************************************)
(* For any number of requests, segments and nodes and any chains: what the *)
(* nodes promise the coordinator, and that every layer sees every step     *)
(* once and in order.                                                      *)
(***************************************************************************)
EXTENDS Ring, SequenceTheorems, TLAPS

-----------------------------------------------------------------------------
(* Types *)

ChanTypes == chan \in [Links -> Seq(Messages)]

StateTypes == st \in [Nodes -> [Reqs -> ReqStates \cup {None}]]

CacheTypes == kv \in [Nodes -> [Reqs -> 0..MaxSteps]]

RecordTypes ==
    /\ front \in [Reqs -> Fronts \cup {None}]
    /\ back \in [Reqs -> Backs \cup {None}]
    /\ tokens \in [Reqs -> Nat]
    /\ finished \in [Reqs -> BOOLEAN]
    /\ rebinds \in [Reqs -> 0..MaxRebinds]
    /\ bound \in [Reqs -> SUBSET Backs]

Types == ChanTypes /\ StateTypes /\ CacheTypes /\ RecordTypes

-----------------------------------------------------------------------------
(* Messages on their way *)

(* The message at position i of link l is one of K.                        *)
At(l, i, K) == i \in DOMAIN chan[l] /\ chan[l][i] \in K

Once(K) ==
    \A l, x \in Links : \A i, j \in Nat : At(l, i, K) /\ At(x, j, K) => l = x /\ i = j

Gone(K) == \A l \in Links : \A i \in Nat : ~At(l, i, K)

Of(r, types) == {m \in Messages : m.req = r /\ m.type \in types}

(* The first lap of r on its way through the front segment, up to the      *)
(* report that it is classified.                                           *)
Early(r) ==
    Of(r, {"prefill", "classified"})
    \cup {m \in Of(r, {"hop"}) : m.phase = "prefill" /\ m.to \in FrontNodes}

(* What is, or will become, a step of r on its way.                        *)
Carriers(r) == Of(r, DataTypes \cup {"classified", "bind"})

-----------------------------------------------------------------------------
(* The contract *)

FrontOf(r) == FrontChain[front[r]]

Dynamic(r) == WiredTo[front[r]] = None

(* A link inside a segment.                                                *)
Along(l, chain) == \E i \in DOMAIN chain : i < Len(chain) /\ l = <<chain[i], chain[i + 1]>>

(* Each message is on a link of the ring of its request, or of one it had. *)
MessageOK(l, m) ==
    /\ m.to = l[2] /\ front[m.req] # None
    /\ m.type \in DataTypes /\ m.phase = "prefill" => m.step = 0
    /\ m.type = "prefill" => l = <<Coord, Head(FrontOf(m.req))>> /\ m.phase = "prefill"
    /\ m.type = "hop" =>
          \/ Along(l, FrontOf(m.req))
          \/ m.loop_to = Head(FrontOf(m.req)) /\ \E b \in bound[m.req] : Along(l, BackChain[b])
    /\ m.type = "seg_in" =>
          /\ m.loop_to = Head(FrontOf(m.req))
          /\ \E b \in bound[m.req] : l = <<Last(FrontOf(m.req)), Head(BackChain[b])>>
    /\ m.type = "loop" =>
          /\ m.phase = "decode"
          /\ \E b \in bound[m.req] : l = <<Last(BackChain[b]), Head(FrontOf(m.req))>>
    /\ m.type = "bind" =>
          /\ l = <<Coord, Last(FrontOf(m.req))>> /\ Dynamic(m.req)
          /\ \E b \in bound[m.req] : m.target = Head(BackChain[b])
    /\ m.type = "release" => l[1] = Coord /\ finished[m.req]
    /\ m.type = "drop_kv" => l[1] = Coord /\ rebinds[m.req] # 0
    /\ m.type = "classified" => l = <<Last(FrontOf(m.req)), Coord>> /\ Dynamic(m.req)
    /\ m.type = "token" => \E b \in bound[m.req] : l = <<Last(BackChain[b]), Coord>>
    /\ m.type # "error"

MessagesOK == \A l \in Links : \A i \in DOMAIN chan[l] : MessageOK(l, chan[l][i])

RecordOK(r) ==
    /\ front[r] = None => back[r] = None /\ ~finished[r] /\ rebinds[r] = 0 /\ tokens[r] = 0
    /\ back[r] = None => bound[r] = {}
    /\ back[r] # None => back[r] \in bound[r]
    /\ rebinds[r] = 0 => bound[r] \subseteq {back[r]}
    /\ finished[r] => back[r] # None
    /\ front[r] # None /\ ~Dynamic(r) => bound[r] = {WiredTo[front[r]]}
    /\ tokens[r] <= MaxTokens + rebinds[r]
    /\ ~finished[r] => tokens[r] < MaxTokens + rebinds[r]

RecordsOK == \A r \in Reqs : RecordOK(r)

(* A node is bound to a back segment the request was bound to.             *)
TargetOK(s, r) == s.bound_to # None => \E b \in bound[r] : s.bound_to = Head(BackChain[b])

StatesOK == \A n \in Nodes : \A r \in Reqs : TargetOK(State(n, r), r)

(* The first lap happens once, and before any bind.                        *)
EarlyOK ==
    \A r \in Reqs : /\ Once(Early(r))
                    /\ front[r] # None /\ Dynamic(r) /\ back[r] # None => Gone(Early(r))

(* tail(f) still has its output of the first lap.                          *)
Kept(r) == State(Last(FrontOf(r)), r).cached_l0

(* So it is when a bind finds it, since `release` is sent after the binds. *)
KeptOK ==
    /\ \A r \in Reqs : front[r] # None /\ Dynamic(r) /\ back[r] # None /\ ~finished[r] => Kept(r)
    /\ \A r \in Reqs : Gone(Of(r, {"classified", "bind"})) \/ Kept(r)
    /\ \A r \in Reqs : \A l \in Links : \A i, j \in Nat :
          At(l, i, Of(r, {"bind"})) /\ At(l, j, Of(r, {"release"})) => i < j

Contract == MessagesOK /\ RecordsOK /\ StatesOK /\ EarlyOK /\ KeptOK

-----------------------------------------------------------------------------
(* The caches *)

(* Segment nodes up to the j-th hold the step k, the others do not yet.    *)
Filled(r, chain, j, k) ==
    \A i \in DOMAIN chain : kv[chain[i]][r] = IF i < j THEN StepAfter(k) ELSE k

(* The back segments hold the steps before k, those r never had nothing.   *)
BacksHold(r, k) == \A b \in Backs : Filled(r, BackChain[b], 1, IF b = back[r] THEN k ELSE 0)

FrontHolds(r, k) == Filled(r, FrontOf(r), 1, k)

(* The step k of r is on its way to node n.                                *)
LapAt(r, n, k) ==
    \/ \E j \in DOMAIN FrontOf(r) :
         n = FrontOf(r)[j] /\ Filled(r, FrontOf(r), j, k) /\ BacksHold(r, k)
    \/ /\ FrontHolds(r, StepAfter(k))
       /\ \E b \in Backs : \E j \in DOMAIN BackChain[b] :
            /\ b = back[r] /\ n = BackChain[b][j] /\ Filled(r, BackChain[b], j, k)
            /\ \A c \in Backs : c # b => Filled(r, BackChain[c], 1, 0)

(* The first lap has ended at tail(f).                                     *)
LapKept(r) == FrontHolds(r, StepAfter(0)) /\ BacksHold(r, 0)

CarrierOK(m, n) == IF m.type \in DataTypes THEN LapAt(m.req, n, m.step) ELSE LapKept(m.req)

CachesOK(r) ==
    /\ Once(Carriers(r))
    /\ \A l \in Links : \A i \in Nat : At(l, i, Carriers(r)) => CarrierOK(chan[l][i], l[2])

AllCachesOK ==
    \A r \in Reqs : /\ front[r] = None => \A n \in Nodes : kv[n][r] = 0
                    /\ Live(r) /\ rebinds[r] = 0 => CachesOK(r)
-----------------------------------------------------------------------------
(* Chains *)

(* What a configured chain of nodes of S gives.                            *)
ChainOf(c, S) ==
    /\ Len(c) \in Nat \ {0} /\ DOMAIN c = 1..Len(c)
    /\ 1 \in DOMAIN c /\ Len(c) \in DOMAIN c
    /\ Head(c) = c[1] /\ Last(c) = c[Len(c)]
    /\ \A i \in DOMAIN c :
         /\ c[i] \in S /\ c[i] \in Nodes /\ c[i] \in Range(c) /\ SegHead[c[i]] = Head(c)
         /\ i < Len(c) => i + 1 \in DOMAIN c /\ NextHop[c[i]] = c[i + 1]
         /\ ~(i < Len(c)) => i = Len(c) /\ NextHop[c[i]] = None
    /\ \A i, j \in DOMAIN c : c[i] = c[j] => i = j
    /\ \A n \in Range(c) : \E i \in DOMAIN c : n = c[i]

LEMMA ChainFacts ==
    ASSUME NEW S \in SUBSET Nodes, NEW c \in Seq(S), Configured(c)
    PROVE  ChainOf(c, S)
<1>1. Len(c) \in Nat \ {0} /\ DOMAIN c = 1..Len(c)
  BY EmptySeq, LenProperties DEF Configured
<1>2. 1 \in DOMAIN c /\ Len(c) \in DOMAIN c
  BY <1>1
<1>3. Head(c) = c[1] /\ Last(c) = c[Len(c)]
  BY <1>1 DEF Last
<1>4. ASSUME NEW i \in DOMAIN c
      PROVE  /\ c[i] \in S /\ c[i] \in Nodes /\ c[i] \in Range(c) /\ SegHead[c[i]] = Head(c)
             /\ i < Len(c) => i + 1 \in DOMAIN c /\ NextHop[c[i]] = c[i + 1]
             /\ ~(i < Len(c)) => i = Len(c) /\ NextHop[c[i]] = None
  <2>1. c[i] \in S
    BY <1>1, ElementOfSeq
  <2>2. NextHop[c[i]] = (IF i < Len(c) THEN c[i + 1] ELSE None) /\ SegHead[c[i]] = Head(c)
    BY DEF Configured
  <2>3. i < Len(c) => i + 1 \in DOMAIN c
    BY <1>1
  <2>4. ~(i < Len(c)) => i = Len(c)
    BY <1>1
  <2>5. c[i] \in Range(c)
    BY DEF Range
  <2> QED BY <2>1, <2>2, <2>3, <2>4, <2>5
<1>5. \A i, j \in DOMAIN c : c[i] = c[j] => i = j
  BY DEF Configured, IsInjective
<1>6. \A n \in Range(c) : \E i \in DOMAIN c : n = c[i]
  BY DEF Range
<1> QED BY <1>1, <1>2, <1>3, <1>4, <1>5, <1>6 DEF ChainOf

FrontsOf(f) == ChainOf(FrontChain[f], FrontNodes)

BacksOf(b) == ChainOf(BackChain[b], Nodes \ FrontNodes)

LEMMA Chains == (\A f \in Fronts : FrontsOf(f)) /\ (\A b \in Backs : BacksOf(b))
<1>1. ASSUME NEW f \in Fronts PROVE FrontsOf(f)
  <2>1. FrontChain[f] \in Seq(FrontNodes) /\ Configured(FrontChain[f])
    BY RingConstantsAssumption
  <2>2. FrontNodes \in SUBSET Nodes
    BY NodeConstantsAssumption
  <2> QED BY <2>1, <2>2, ChainFacts DEF FrontsOf
<1>2. ASSUME NEW b \in Backs PROVE BacksOf(b)
  <2>1. BackChain[b] \in Seq(Nodes \ FrontNodes) /\ Configured(BackChain[b])
    BY RingConstantsAssumption
  <2> QED BY <2>1, ChainFacts DEF BacksOf
<1> QED BY <1>1, <1>2

LEMMA ChainNodes ==
    /\ \A f \in Fronts : Range(FrontChain[f]) \subseteq Nodes
    /\ \A b \in Backs : Range(BackChain[b]) \subseteq Nodes
<1>1. ASSUME NEW c, NEW S, ChainOf(c, S), NEW n \in Range(c) PROVE n \in Nodes
  BY <1>1 DEF ChainOf
<1>2. ASSUME NEW f \in Fronts PROVE Range(FrontChain[f]) \subseteq Nodes
  BY <1>1, Chains DEF FrontsOf
<1>3. ASSUME NEW b \in Backs PROVE Range(BackChain[b]) \subseteq Nodes
  BY <1>1, Chains DEF BacksOf
<1> QED BY <1>2, <1>3

(* The front and the back segments share no node.                          *)
LEMMA ChainsApart ==
    /\ \A f \in Fronts, b \in Backs : \A i \in DOMAIN FrontChain[f], j \in DOMAIN BackChain[b] :
          FrontChain[f][i] # BackChain[b][j]
    /\ \A b, c \in Backs : b # c =>
          \A i \in DOMAIN BackChain[b], j \in DOMAIN BackChain[c] : BackChain[b][i] # BackChain[c][j]
<1>1. ASSUME NEW f \in Fronts, NEW b \in Backs,
             NEW i \in DOMAIN FrontChain[f], NEW j \in DOMAIN BackChain[b]
      PROVE  FrontChain[f][i] # BackChain[b][j]
  <2>1. FrontChain[f][i] \in FrontNodes
    BY Chains DEF FrontsOf, ChainOf
  <2>2. BackChain[b][j] \in Nodes \ FrontNodes
    BY Chains DEF BacksOf, ChainOf
  <2> QED BY <2>1, <2>2
<1>2. ASSUME NEW b \in Backs, NEW c \in Backs, b # c,
             NEW i \in DOMAIN BackChain[b], NEW j \in DOMAIN BackChain[c]
      PROVE  BackChain[b][i] # BackChain[c][j]
  <2>1. BackChain[b][i] \in Range(BackChain[b]) /\ BackChain[c][j] \in Range(BackChain[c])
    BY Chains DEF BacksOf, ChainOf
  <2>2. Range(BackChain[b]) \cap Range(BackChain[c]) = {}
    BY <1>2, RingConstantsAssumption
  <2> QED BY <2>1, <2>2
<1> QED BY <1>1, <1>2

-----------------------------------------------------------------------------
(* Moves of the messages *)

(* Each addressee is sent one message.                                     *)
Single(out) == \A to \in DOMAIN out : \E x \in Messages : out[to] = <<x>>

(* The message at position i of link l was `away` positions further back,  *)
(* or is the one just sent by p.                                           *)
Moves(away, p, out) ==
    \A l \in Links : \A i \in DOMAIN chan'[l] :
        \/ i + away[l] \in DOMAIN chan[l] /\ chan'[l][i] = chan[l][i + away[l]]
        \/ /\ l = <<p, l[2]>> /\ l[2] \in DOMAIN out
           /\ i + away[l] = Len(chan[l]) + 1
           /\ chan'[l][i] = out[l[2]][1]

Still == [l \in Links |-> 0]

Past(l) == [x \in Links |-> IF x = l THEN 1 ELSE 0]

LEMMA LinkEnds == \A l \in Links : l = <<l[1], l[2]>> /\ l[1] \in Processes /\ l[2] \in Processes
BY NodeConstantsAssumption

LEMMA SendTypes ==
    ASSUME NEW c \in [Links -> Seq(Messages)], NEW p, NEW out, Single(out), Send(c, p, out)
    PROVE  /\ chan' \in [Links -> Seq(Messages)]
           /\ \A l \in Links : \A i \in DOMAIN chan'[l] :
                \/ i \in DOMAIN c[l] /\ chan'[l][i] = c[l][i]
                \/ /\ l = <<p, l[2]>> /\ l[2] \in DOMAIN out
                   /\ i = Len(c[l]) + 1
                   /\ chan'[l][i] = out[l[2]][1]
           /\ \A to \in DOMAIN out : <<p, to>> \in Links
<1>1. chan' = [l \in Links |->
                 IF l[1] = p /\ l[2] \in DOMAIN out THEN c[l] \o out[l[2]] ELSE c[l]]
  BY DEF Send
<1>2. ASSUME NEW l \in Links
      PROVE  /\ chan'[l] \in Seq(Messages)
             /\ \A i \in DOMAIN chan'[l] :
                  \/ i \in DOMAIN c[l] /\ chan'[l][i] = c[l][i]
                  \/ /\ l = <<p, l[2]>> /\ l[2] \in DOMAIN out
                     /\ i = Len(c[l]) + 1
                     /\ chan'[l][i] = out[l[2]][1]
  <2>1. c[l] \in Seq(Messages)
    OBVIOUS
  <2>2. CASE l[1] = p /\ l[2] \in DOMAIN out
    <3>1. PICK x \in Messages : out[l[2]] = <<x>>
      BY <2>2 DEF Single
    <3>2. <<x>> \in Seq(Messages) /\ Len(<<x>>) = 1 /\ <<x>>[1] = x
      OBVIOUS
    <3>3. chan'[l] = c[l] \o <<x>>
      BY <1>1, <2>2, <3>1
    <3>4. /\ c[l] \o <<x>> \in Seq(Messages)
          /\ Len(c[l] \o <<x>>) = Len(c[l]) + 1
          /\ \A i \in 1..(Len(c[l]) + 1) :
               (c[l] \o <<x>>)[i] = IF i <= Len(c[l]) THEN c[l][i] ELSE <<x>>[i - Len(c[l])]
      BY <2>1, <3>2, ConcatProperties
    <3>5. DOMAIN chan'[l] = 1..(Len(c[l]) + 1) /\ DOMAIN c[l] = 1..Len(c[l]) /\ Len(c[l]) \in Nat
      BY <2>1, <3>3, <3>4, LenProperties
    <3>6. l = <<p, l[2]>>
      BY <2>2, LinkEnds
    <3>7. ASSUME NEW i \in DOMAIN chan'[l]
          PROVE  \/ i \in DOMAIN c[l] /\ chan'[l][i] = c[l][i]
                 \/ i = Len(c[l]) + 1 /\ chan'[l][i] = out[l[2]][1]
      <4>1. CASE i <= Len(c[l])
        BY <4>1, <3>3, <3>4, <3>5
      <4>2. CASE ~(i <= Len(c[l]))
        <5>1. i = Len(c[l]) + 1 /\ i - Len(c[l]) = 1
          BY <4>2, <3>5
        <5>2. chan'[l][i] = <<x>>[i - Len(c[l])]
          BY <4>2, <3>3, <3>4, <3>5
        <5> QED BY <5>1, <5>2, <3>1
      <4> QED BY <4>1, <4>2
    <3> QED BY <3>3, <3>4, <3>6, <3>7, <2>2
  <2>3. CASE ~(l[1] = p /\ l[2] \in DOMAIN out)
    <3>1. chan'[l] = c[l]
      BY <1>1, <2>3
    <3> QED BY <3>1, <2>1
  <2> QED BY <2>2, <2>3
<1>3. chan' \in [Links -> Seq(Messages)]
  BY <1>1, <1>2
<1>4. \A to \in DOMAIN out : <<p, to>> \in Links
  BY DEF Send
<1> QED BY <1>2, <1>3, <1>4

LEMMA SendMoves ==
    ASSUME ChanTypes, NEW p, NEW out, Single(out), Send(chan, p, out)
    PROVE  /\ ChanTypes' /\ Moves(Still, p, out) /\ Still \in [Links -> {0, 1}]
           /\ \A to \in DOMAIN out : <<p, to>> \in Links
<1>1. chan \in [Links -> Seq(Messages)]
  BY DEF ChanTypes
<1>2. /\ chan' \in [Links -> Seq(Messages)]
      /\ \A l \in Links : \A i \in DOMAIN chan'[l] :
           \/ i \in DOMAIN chan[l] /\ chan'[l][i] = chan[l][i]
           \/ /\ l = <<p, l[2]>> /\ l[2] \in DOMAIN out
              /\ i = Len(chan[l]) + 1
              /\ chan'[l][i] = out[l[2]][1]
      /\ \A to \in DOMAIN out : <<p, to>> \in Links
  BY <1>1, SendTypes
<1>3. ASSUME NEW l \in Links, NEW i \in DOMAIN chan'[l] PROVE i + Still[l] = i
  <2>1. chan'[l] \in Seq(Messages)
    BY <1>2
  <2>2. i \in Nat
    BY <2>1, LenProperties
  <2> QED BY <2>2 DEF Still
<1> QED BY <1>2, <1>3 DEF Moves, ChanTypes, Still

LEMMA AnswerMoves ==
    ASSUME ChanTypes, NEW l \in Links, chan[l] # <<>>, NEW out, Single(out), Answer(l, out)
    PROVE  /\ ChanTypes' /\ Moves(Past(l), l[2], out) /\ Past(l) \in [Links -> {0, 1}]
           /\ \A to \in DOMAIN out : <<l[2], to>> \in Links
<1> DEFINE c == [chan EXCEPT ![l] = Tail(@)]
<1>1. chan \in [Links -> Seq(Messages)]
  BY DEF ChanTypes
<1>2. /\ Tail(chan[l]) \in Seq(Messages) /\ Len(Tail(chan[l])) = Len(chan[l]) - 1
      /\ \A i \in 1..Len(Tail(chan[l])) : Tail(chan[l])[i] = chan[l][i + 1]
  BY <1>1, HeadTailProperties
<1>3. c \in [Links -> Seq(Messages)]
  BY <1>1, <1>2
<1>4. Send(c, l[2], out)
  BY DEF Answer
<1>5. /\ chan' \in [Links -> Seq(Messages)]
      /\ \A x \in Links : \A i \in DOMAIN chan'[x] :
           \/ i \in DOMAIN c[x] /\ chan'[x][i] = c[x][i]
           \/ /\ x = <<l[2], x[2]>> /\ x[2] \in DOMAIN out
              /\ i = Len(c[x]) + 1
              /\ chan'[x][i] = out[x[2]][1]
      /\ \A to \in DOMAIN out : <<l[2], to>> \in Links
  <2> HIDE DEF c
  <2> QED BY <1>3, <1>4, SendTypes
<1>6. ASSUME NEW x \in Links, NEW i \in DOMAIN chan'[x]
      PROVE  /\ i \in DOMAIN c[x] => i + Past(l)[x] \in DOMAIN chan[x] /\ c[x][i] = chan[x][i + Past(l)[x]]
             /\ i = Len(c[x]) + 1 => i + Past(l)[x] = Len(chan[x]) + 1
  <2>1. /\ chan[x] \in Seq(Messages) /\ DOMAIN chan[x] = 1..Len(chan[x]) /\ Len(chan[x]) \in Nat
        /\ DOMAIN chan'[x] = 1..Len(chan'[x]) /\ Len(chan'[x]) \in Nat
    BY <1>1, <1>5, LenProperties
  <2>2. i \in Nat
    BY <2>1
  <2>3. CASE x = l
    <3>1. c[x] = Tail(chan[l]) /\ Past(l)[x] = 1
      BY <2>3, <1>1 DEF Past
    <3>2. DOMAIN Tail(chan[l]) = 1..Len(Tail(chan[l]))
      BY <1>2, LenProperties
    <3>3. Len(c[x]) = Len(chan[x]) - 1 /\ DOMAIN c[x] = 1..Len(c[x])
          /\ \A j \in 1..Len(c[x]) : c[x][j] = chan[x][j + 1]
      BY <3>1, <3>2, <2>3, <1>2
    <3> HIDE DEF c
    <3> QED BY <3>1, <3>3, <2>1, <2>2
  <2>4. CASE x # l
    <3>1. c[x] = chan[x] /\ Past(l)[x] = 0
      BY <2>4, <1>1 DEF Past
    <3> HIDE DEF c
    <3> QED BY <3>1, <2>1, <2>2
  <2> QED BY <2>3, <2>4
<1>7. Moves(Past(l), l[2], out)
  <2> HIDE DEF c
  <2> QED BY <1>5, <1>6 DEF Moves
<1> QED BY <1>5, <1>7 DEF ChanTypes, Past

-----------------------------------------------------------------------------
(* Where a message was before a move *)

LEMMA AtMoves ==
    ASSUME ChanTypes, ChanTypes', NEW away \in [Links -> {0, 1}], NEW p, NEW out,
           Moves(away, p, out), NEW K, NEW l \in Links, NEW i \in Nat, At(l, i, K)'
    PROVE  /\ i + away[l] \in Nat \ {0}
           /\ \/ At(l, i + away[l], K)
              \/ /\ l = <<p, l[2]>> /\ l[2] \in DOMAIN out
                 /\ i + away[l] = Len(chan[l]) + 1 /\ out[l[2]][1] \in K
<1>1. i \in DOMAIN chan'[l] /\ chan'[l][i] \in K
  BY DEF At
<1>2. chan'[l] \in Seq(Messages)
  BY DEF ChanTypes
<1>3. i \in Nat \ {0}
  BY <1>1, <1>2, LenProperties
<1>4. away[l] \in {0, 1}
  OBVIOUS
<1>5. i + away[l] \in Nat \ {0}
  BY <1>3, <1>4
<1>6. \/ i + away[l] \in DOMAIN chan[l] /\ chan'[l][i] = chan[l][i + away[l]]
      \/ /\ l = <<p, l[2]>> /\ l[2] \in DOMAIN out
         /\ i + away[l] = Len(chan[l]) + 1
         /\ chan'[l][i] = out[l[2]][1]
  BY <1>1 DEF Moves
<1> QED BY <1>1, <1>5, <1>6 DEF At

(* What is on its way is not sent again.                                   *)
NotSent(out, K) == \A to \in DOMAIN out : out[to][1] \notin K

LEMMA AtStays ==
    ASSUME ChanTypes, ChanTypes', NEW away \in [Links -> {0, 1}], NEW p, NEW out,
           Moves(away, p, out), NEW K, NotSent(out, K), NEW l \in Links, NEW i \in Nat, At(l, i, K)'
    PROVE  i + away[l] \in Nat \ {0} /\ At(l, i + away[l], K)
BY AtMoves DEF NotSent

LEMMA OnceStays ==
    ASSUME ChanTypes, ChanTypes', NEW away \in [Links -> {0, 1}], NEW p, NEW out,
           Moves(away, p, out), NEW K, NotSent(out, K), Once(K)
    PROVE  Once(K)'
<1>1. ASSUME NEW l \in Links, NEW x \in Links, NEW i \in Nat, NEW j \in Nat, At(l, i, K)', At(x, j, K)'
      PROVE  l = x /\ i = j
  <2>1. i + away[l] \in Nat /\ At(l, i + away[l], K)
    BY <1>1, AtStays
  <2>2. j + away[x] \in Nat /\ At(x, j + away[x], K)
    BY <1>1, AtStays
  <2>3. l = x /\ i + away[l] = j + away[x]
    BY <2>1, <2>2 DEF Once
  <2>4. away[l] \in {0, 1} /\ away[x] \in {0, 1}
    OBVIOUS
  <2> QED BY <2>3, <2>4
<1> QED BY <1>1 DEF Once

LEMMA GoneStays ==
    ASSUME ChanTypes, ChanTypes', NEW away \in [Links -> {0, 1}], NEW p, NEW out,
           Moves(away, p, out), NEW K, NotSent(out, K), Gone(K)
    PROVE  Gone(K)'
<1>1. ASSUME NEW l \in Links, NEW i \in Nat, At(l, i, K)'
      PROVE  FALSE
  <2>1. i + away[l] \in Nat /\ At(l, i + away[l], K)
    BY <1>1, AtStays
  <2> QED BY <2>1 DEF Gone
<1> QED BY <1>1 DEF Gone

(* None of K is left after the move.                                       *)
Spent(away, K) == \A l \in Links : \A i \in Nat \ {0} : ~At(l, i + away[l], K)

LEMMA GoneSpent ==
    ASSUME NEW away \in [Links -> {0, 1}], NEW K, Gone(K)
    PROVE  Spent(away, K)
<1>1. ASSUME NEW l \in Links, NEW i \in Nat \ {0}
      PROVE  ~At(l, i + away[l], K)
  <2>1. i + away[l] \in Nat
    OBVIOUS
  <2> QED BY <2>1 DEF Gone
<1> QED BY <1>1 DEF Spent

(* The message just read was the only one of K.                            *)
LEMMA ReadSpent ==
    ASSUME ChanTypes, NEW l \in Links, chan[l] # <<>>, NEW K, Once(K), Head(chan[l]) \in K
    PROVE  Spent(Past(l), K)
<1>1. 1 \in DOMAIN chan[l] /\ Head(chan[l]) = chan[l][1]
  <2>1. chan[l] \in Seq(Messages)
    BY DEF ChanTypes
  <2>2. Len(chan[l]) \in Nat \ {0} /\ DOMAIN chan[l] = 1..Len(chan[l])
    BY <2>1, EmptySeq, LenProperties
  <2> QED BY <2>1, <2>2
<1>2. At(l, 1, K)
  BY <1>1 DEF At
<1>3. ASSUME NEW x \in Links, NEW i \in Nat \ {0}, At(x, i + Past(l)[x], K)
      PROVE  FALSE
  <2>1. Past(l)[x] = IF x = l THEN 1 ELSE 0
    BY DEF Past
  <2>2. i + Past(l)[x] \in Nat
    BY <2>1
  <2>3. x = l /\ i + Past(l)[x] = 1
    BY <1>2, <1>3, <2>2 DEF Once
  <2> QED BY <2>1, <2>3
<1> QED BY <1>3 DEF Spent

(* Then at most one is on its way if at most one is sent.                  *)
LEMMA OnceSpent ==
    ASSUME ChanTypes, ChanTypes', NEW away \in [Links -> {0, 1}], NEW p, NEW out,
           Moves(away, p, out), NEW K, Spent(away, K),
           \A to, other \in DOMAIN out : out[to][1] \in K /\ out[other][1] \in K => to = other
    PROVE  Once(K)'
<1>1. ASSUME NEW l \in Links, NEW i \in Nat, At(l, i, K)'
      PROVE  /\ l = <<p, l[2]>> /\ l[2] \in DOMAIN out /\ out[l[2]][1] \in K
             /\ i + away[l] = Len(chan[l]) + 1
  <2>1. i \in Nat \ {0}
    <3>1. chan'[l] \in Seq(Messages)
      BY DEF ChanTypes
    <3> QED BY <1>1, <3>1, LenProperties DEF At
  <2>2. ~At(l, i + away[l], K)
    BY <2>1 DEF Spent
  <2> QED BY <2>2, <1>1, AtMoves
<1>2. ASSUME NEW l \in Links, NEW x \in Links, NEW i \in Nat, NEW j \in Nat, At(l, i, K)', At(x, j, K)'
      PROVE  l = x /\ i = j
  <2>1. /\ l = <<p, l[2]>> /\ l[2] \in DOMAIN out /\ out[l[2]][1] \in K
        /\ i + away[l] = Len(chan[l]) + 1
    BY <1>2, <1>1
  <2>2. /\ x = <<p, x[2]>> /\ x[2] \in DOMAIN out /\ out[x[2]][1] \in K
        /\ j + away[x] = Len(chan[x]) + 1
    BY <1>2, <1>1
  <2>3. l[2] = x[2]
    BY <2>1, <2>2
  <2>4. l = x
    BY <2>1, <2>2, <2>3
  <2>5. i + away[l] = j + away[l] /\ away[l] \in {0, 1}
    BY <2>1, <2>2, <2>4
  <2> QED BY <2>4, <2>5
<1> QED BY <1>2 DEF Once

-----------------------------------------------------------------------------
(* What a request has had, it keeps *)

Grows ==
    \A r \in Reqs : /\ front[r] # None => front'[r] = front[r]
                    /\ bound[r] \subseteq bound'[r]
                    /\ finished[r] => finished'[r]
                    /\ rebinds[r] # 0 => rebinds'[r] # 0

LEMMA MessageFields ==
    ASSUME NEW m \in Messages
    PROVE  /\ m.req \in Reqs
           /\ m.type \in DataTypes \cup {"drop_kv", "release", "classified", "error", "bind", "token"}
           /\ m.type \in DataTypes =>
                /\ m.to \in Nodes /\ m.phase \in {"prefill", "decode"} /\ m.step \in 0..MaxSteps
                /\ m.loop_to \in Nodes \cup {None}
           /\ m.type = "bind" => m.to \in Nodes /\ m.target \in Nodes
           /\ m.type = "token" => m.eos \in BOOLEAN
BY DEF Messages, DataTypes

LEMMA MessageStays ==
    ASSUME Grows, NEW l, NEW m \in Messages, MessageOK(l, m)
    PROVE  MessageOK(l, m)'
<1>1. m.req \in Reqs
  BY MessageFields
<1>2. /\ front[m.req] # None /\ front'[m.req] = front[m.req] /\ bound[m.req] \subseteq bound'[m.req]
      /\ finished[m.req] => finished'[m.req]
      /\ rebinds[m.req] # 0 => rebinds'[m.req] # 0
  BY <1>1 DEF Grows, MessageOK
<1>3. \A c : Along(l, c)' <=> Along(l, c)
  BY DEF Along
<1>4. FrontOf(m.req)' = FrontOf(m.req) /\ (Dynamic(m.req)' <=> Dynamic(m.req))
  BY <1>2 DEF FrontOf, Dynamic
<1> QED BY <1>2, <1>3, <1>4 DEF MessageOK

(* What p sends is where it belongs.                                       *)
Sends(p, out) == \A to \in DOMAIN out : \E x \in Messages : out[to] = <<x>> /\ MessageOK(<<p, to>>, x)'

LEMMA MessagesMove ==
    ASSUME ChanTypes, ChanTypes', MessagesOK, Grows, NEW away \in [Links -> {0, 1}], NEW p, NEW out,
           Moves(away, p, out), Sends(p, out)
    PROVE  MessagesOK'
<1>1. ASSUME NEW l \in Links, NEW i \in DOMAIN chan'[l]
      PROVE  MessageOK(l, chan[l][i])'
  <2>1. PICK m \in Messages : m = chan'[l][i]
    <3>1. chan'[l] \in Seq(Messages)
      BY DEF ChanTypes
    <3> QED BY <3>1, LenProperties, ElementOfSeq
  <2>2. CASE i + away[l] \in DOMAIN chan[l] /\ chan'[l][i] = chan[l][i + away[l]]
    <3>1. MessageOK(l, m)
      BY <2>1, <2>2 DEF MessagesOK
    <3>2. MessageOK(l, m)'
      BY <3>1, MessageStays
    <3> QED BY <2>1, <3>2 DEF MessageOK
  <2>3. CASE /\ l = <<p, l[2]>> /\ l[2] \in DOMAIN out
             /\ i + away[l] = Len(chan[l]) + 1
             /\ chan'[l][i] = out[l[2]][1]
    <3>1. PICK x \in Messages : out[l[2]] = <<x>> /\ MessageOK(<<p, l[2]>>, x)'
      BY <2>3 DEF Sends
    <3>2. <<x>>[1] = x
      OBVIOUS
    <3>3. x = m
      BY <3>1, <3>2, <2>1, <2>3
    <3>4. MessageOK(l, m)'
      <4>1. MessageOK(<<p, l[2]>>, m)'
        BY <3>1, <3>3
      <4> QED BY <4>1, <2>3
    <3> QED BY <2>1, <3>4 DEF MessageOK
  <2> QED BY <1>1, <2>2, <2>3 DEF Moves
<1> QED BY <1>1 DEF MessagesOK

-----------------------------------------------------------------------------
(* A node keeps the contract *)

After(s) == IF s = None THEN Fresh ELSE s

(* What node n leaves and sends when it has read m.                        *)
Handled(n, m, s, out) ==
    /\ s \in ReqStates \cup {None}
    /\ m.type # "release" /\ State(n, m.req).cached_l0 => After(s).cached_l0
    /\ TargetOK(After(s), m.req)
    /\ \A to \in DOMAIN out : \E x \in Messages :
         /\ out[to] = <<x>> /\ MessageOK(<<n, to>>, x) /\ x.req = m.req
         /\ x.type \notin {"bind", "release"}
         /\ x.type = "classified" => After(s).cached_l0
         /\ x \in Early(m.req) => m \in Early(m.req) /\ DOMAIN out = {to}

LEMMA SameRequest ==
    ASSUME NEW q, NEW x \in Messages,
           x \in Early(q) \/ (\E types : x \in Of(q, types))
    PROVE  x.req = q
BY DEF Early, Of

LEMMA TailOfFront ==
    ASSUME RecordTypes, NEW r \in Reqs, front[r] # None
    PROVE  /\ front[r] \in Fronts /\ FrontsOf(front[r])
           /\ Last(FrontOf(r)) \in FrontNodes /\ Last(FrontOf(r)) \in Nodes
           /\ Head(FrontOf(r)) \in FrontNodes /\ Head(FrontOf(r)) \in Nodes
<1>1. front[r] \in Fronts
  BY DEF RecordTypes
<1>2. FrontsOf(front[r])
  BY <1>1, Chains
<1> QED BY <1>1, <1>2 DEF FrontsOf, FrontOf, ChainOf

LEMMA HandledMoves ==
    ASSUME ChanTypes, NEW l \in Links, chan[l] # <<>>, NEW m \in Messages, NEW s, NEW out,
           Handled(l[2], m, s, out), Answer(l, out)
    PROVE  /\ ChanTypes' /\ Moves(Past(l), l[2], out) /\ Past(l) \in [Links -> {0, 1}]
           /\ \A to \in DOMAIN out : <<l[2], to>> \in Links
<1>1. Single(out)
  BY DEF Handled, Single
<1> QED BY <1>1, AnswerMoves

LEMMA HandledEarly ==
    ASSUME ChanTypes, ChanTypes', EarlyOK, MessagesOK, UNCHANGED records,
           NEW l \in Links, chan[l] # <<>>, NEW m \in Messages, m = Head(chan[l]), NEW s, NEW out,
           Handled(l[2], m, s, out), Moves(Past(l), l[2], out), Past(l) \in [Links -> {0, 1}]
    PROVE  EarlyOK'
<1>1. ASSUME NEW r \in Reqs
      PROVE  /\ Once(Early(r))'
             /\ front[r] # None /\ Dynamic(r) /\ back[r] # None => Gone(Early(r))'
  <2>1. Once(Early(r)) /\ (front[r] # None /\ Dynamic(r) /\ back[r] # None => Gone(Early(r)))
    BY DEF EarlyOK
  <2>2. CASE NotSent(out, Early(r))
    BY <2>1, <2>2, OnceStays, GoneStays
  <2>3. CASE ~NotSent(out, Early(r))
    <3>1. PICK to \in DOMAIN out : out[to][1] \in Early(r)
      BY <2>3 DEF NotSent
    <3>2. PICK x \in Messages : /\ out[to] = <<x>> /\ x.req = m.req
                                /\ x \in Early(m.req) => m \in Early(m.req) /\ DOMAIN out = {to}
      BY DEF Handled
    <3>3. x \in Early(r)
      BY <3>1, <3>2
    <3>4. r = m.req
      BY <3>2, <3>3, SameRequest
    <3>5. m \in Early(r) /\ DOMAIN out = {to}
      BY <3>2, <3>3, <3>4
    <3>6. Spent(Past(l), Early(r))
      BY <2>1, <3>5, ReadSpent
    <3>7. \A a, b \in DOMAIN out : out[a][1] \in Early(r) /\ out[b][1] \in Early(r) => a = b
      BY <3>5
    <3>8. Once(Early(r))'
      BY <3>6, <3>7, OnceSpent
    <3>9. ~Gone(Early(r))
      <4>1. chan[l] \in Seq(Messages)
        BY DEF ChanTypes
      <4>2. 1 \in DOMAIN chan[l] /\ Head(chan[l]) = chan[l][1]
        BY <4>1, EmptySeq, LenProperties
      <4>3. At(l, 1, Early(r))
        BY <4>2, <3>5 DEF At
      <4> QED BY <4>3 DEF Gone
    <3> QED BY <3>8, <3>9, <2>1
  <2> QED BY <2>2, <2>3
<1>2. \A r \in Reqs : (front'[r] = front[r]) /\ (back'[r] = back[r]) /\ (Dynamic(r)' <=> Dynamic(r))
  BY DEF records, Dynamic
<1> QED BY <1>1, <1>2 DEF EarlyOK

LEMMA HandledKept ==
    ASSUME Types, Contract, ChanTypes', UNCHANGED records,
           NEW l \in Links, l[2] \in Nodes, chan[l] # <<>>,
           NEW m \in Messages, m = Head(chan[l]), NEW s, NEW out,
           Handled(l[2], m, s, out), Moves(Past(l), l[2], out), Past(l) \in [Links -> {0, 1}],
           st' = [st EXCEPT ![l[2]][m.req] = s]
    PROVE  KeptOK'
<1> USE DEF Types
<1> DEFINE n == l[2]
<1>0. m.req \in Reqs
  BY MessageFields
<1>1. \A x \in Nodes, q \in Reqs :
        State(x, q)' = IF x = n /\ q = m.req THEN After(s) ELSE State(x, q)
  <2>1. ASSUME NEW x \in Nodes, NEW q \in Reqs
        PROVE  State(x, q)' = IF x = n /\ q = m.req THEN After(s) ELSE State(x, q)
    <3>1. st'[x][q] = IF x = n /\ q = m.req THEN s ELSE st[x][q]
      BY <1>0 DEF StateTypes, Types
    <3> QED BY <3>1 DEF State, After
  <2> QED BY <2>1
<1>2. \A r \in Reqs : /\ front'[r] = front[r] /\ back'[r] = back[r] /\ finished'[r] = finished[r]
                      /\ (Dynamic(r)' <=> Dynamic(r)) /\ FrontOf(r)' = FrontOf(r)
  BY DEF records, Dynamic, FrontOf
<1>3. /\ 1 \in DOMAIN chan[l] /\ m = chan[l][1]
      /\ MessageOK(l, m)
  <2>1. chan[l] \in Seq(Messages)
    BY DEF ChanTypes
  <2>2. 1 \in DOMAIN chan[l] /\ Head(chan[l]) = chan[l][1]
    BY <2>1, EmptySeq, LenProperties
  <2> QED BY <2>2 DEF Contract, MessagesOK
<1>4. ASSUME NEW r \in Reqs, front[r] # None, Kept(r), ~(r = m.req /\ m.type = "release" /\ n = Last(FrontOf(r)))
      PROVE  Kept(r)'
  <2>1. PICK x \in Nodes : x = Last(FrontOf(r))
    BY <1>4, TailOfFront
  <2>2. Kept(r) = State(x, r).cached_l0 /\ Kept(r)' = State(x, r)'.cached_l0
    BY <2>1, <1>2 DEF Kept, State
  <2>3. m.type # "release" /\ State(n, m.req).cached_l0 => After(s).cached_l0
    BY DEF Handled
  <2>4. CASE x = n /\ r = m.req
    <3>1. State(x, r)' = After(s)
      BY <2>4, <1>1
    <3> QED BY <3>1, <2>1, <2>2, <2>3, <2>4, <1>4
  <2>5. CASE ~(x = n /\ r = m.req)
    <3>1. State(x, r)' = State(x, r)
      BY <2>5, <1>1
    <3> QED BY <3>1, <2>2, <1>4
  <2> QED BY <2>4, <2>5
<1>5. ASSUME NEW r \in Reqs, front[r] # None, Dynamic(r), back[r] # None, ~finished[r]
      PROVE  Kept(r)'
  <2>1. Kept(r)
    BY <1>5 DEF Contract, KeptOK
  <2>2. ~(r = m.req /\ m.type = "release")
    BY <1>3, <1>5 DEF MessageOK
  <2> QED BY <2>1, <2>2, <1>4, <1>5
<1>6. ASSUME NEW r \in Reqs, ~Gone(Of(r, {"classified", "bind"}))'
      PROVE  Kept(r)'
  <2>1. PICK x \in Links, i \in Nat : At(x, i, Of(r, {"classified", "bind"}))'
    BY <1>6 DEF Gone
  <2>2. CASE i + Past(l)[x] \in Nat \ {0} /\ At(x, i + Past(l)[x], Of(r, {"classified", "bind"}))
    <3> DEFINE k == i + Past(l)[x]
    <3>1. k \in DOMAIN chan[x] /\ chan[x][k] \in Of(r, {"classified", "bind"}) /\ k \in Nat
      BY <2>2 DEF At
    <3>2. PICK y \in Messages : y = chan[x][k] /\ y.req = r /\ y.type \in {"classified", "bind"}
      BY <3>1 DEF Of
    <3>3. MessageOK(x, y)
      BY <3>1, <3>2 DEF Contract, MessagesOK
    <3>4. front[r] # None /\ Dynamic(r)
      BY <3>2, <3>3 DEF MessageOK
    <3>5. Kept(r)
      <4>1. ~Gone(Of(r, {"classified", "bind"}))
        BY <2>2 DEF Gone
      <4> QED BY <4>1 DEF Contract, KeptOK
    <3>6. ASSUME r = m.req, m.type = "release", n = Last(FrontOf(r)) PROVE FALSE
      <4>1. finished[r] /\ l[1] = Coord
        BY <1>3, <3>6 DEF MessageOK
      <4>2. back[r] # None
        BY <4>1 DEF Contract, RecordsOK, RecordOK
      <4>3. Gone(Early(r))
        BY <4>2, <3>4 DEF Contract, EarlyOK
      <4>4. y.type # "classified"
        <5>1. y.type = "classified" => y \in Early(r)
          BY <3>2 DEF Early, Of
        <5>2. y \notin Early(r)
          BY <4>3, <3>1, <3>2 DEF Gone, At
        <5> QED BY <5>1, <5>2
      <4>5. y.type = "bind"
        BY <3>2, <4>4
      <4>6. x = <<Coord, Last(FrontOf(r))>>
        BY <3>2, <3>3, <4>5 DEF MessageOK
      <4>7. x = l
        BY <4>1, <4>6, <3>6, LinkEnds
      <4>8. At(l, k, Of(r, {"bind"})) /\ At(l, 1, Of(r, {"release"}))
        BY <3>1, <3>2, <4>5, <4>7, <3>6, <1>3 DEF At, Of
      <4>9. k < 1
        BY <4>8, <3>1 DEF Contract, KeptOK
      <4> QED BY <4>9, <2>2
    <3> QED BY <3>4, <3>5, <3>6, <1>4
  <2>3. CASE x = <<n, x[2]>> /\ x[2] \in DOMAIN out /\ out[x[2]][1] \in Of(r, {"classified", "bind"})
    <3>1. PICK y \in Messages :
            /\ out[x[2]] = <<y>> /\ MessageOK(<<n, x[2]>>, y) /\ y.req = m.req
            /\ y.type \notin {"bind", "release"}
            /\ y.type = "classified" => After(s).cached_l0
      BY <2>3 DEF Handled
    <3>2. y.req = r /\ y.type = "classified"
      BY <2>3, <3>1 DEF Of
    <3>3. r = m.req /\ After(s).cached_l0
      BY <3>1, <3>2
    <3>4. n = Last(FrontOf(r)) /\ front[r] # None
      BY <3>1, <3>2 DEF MessageOK
    <3>5. State(n, r)' = After(s)
      BY <1>1, <3>3
    <3> QED BY <1>2, <3>3, <3>4, <3>5 DEF Kept
  <2>4. \/ i + Past(l)[x] \in Nat \ {0} /\ At(x, i + Past(l)[x], Of(r, {"classified", "bind"}))
        \/ x = <<n, x[2]>> /\ x[2] \in DOMAIN out /\ out[x[2]][1] \in Of(r, {"classified", "bind"})
    BY <2>1, AtMoves
  <2> QED BY <2>2, <2>3, <2>4
<1>7. ASSUME NEW r \in Reqs, NEW x \in Links, NEW i \in Nat, NEW j \in Nat,
             At(x, i, Of(r, {"bind"}))', At(x, j, Of(r, {"release"}))'
      PROVE  i < j
  <2>1. NotSent(out, Of(r, {"bind"})) /\ NotSent(out, Of(r, {"release"}))
    <3>1. ASSUME NEW to \in DOMAIN out PROVE out[to][1].type \notin {"bind", "release"}
      <4>1. PICK y \in Messages : out[to] = <<y>> /\ y.type \notin {"bind", "release"}
        BY DEF Handled
      <4>2. <<y>>[1] = y
        OBVIOUS
      <4> QED BY <4>1, <4>2
    <3> QED BY <3>1 DEF NotSent, Of
  <2>2. /\ i + Past(l)[x] \in Nat \ {0} /\ At(x, i + Past(l)[x], Of(r, {"bind"}))
    BY <2>1, <1>7, AtStays
  <2>3. /\ j + Past(l)[x] \in Nat \ {0} /\ At(x, j + Past(l)[x], Of(r, {"release"}))
    BY <2>1, <1>7, AtStays
  <2>4. i + Past(l)[x] < j + Past(l)[x]
    BY <2>2, <2>3 DEF Contract, KeptOK
  <2>5. Past(l)[x] \in {0, 1}
    OBVIOUS
  <2> QED BY <2>4, <2>5
<1> QED
  <2>1. \A r \in Reqs : (front[r] # None /\ Dynamic(r) /\ back[r] # None /\ ~finished[r] => Kept(r))'
    BY <1>2, <1>5
  <2>2. \A r \in Reqs : (Gone(Of(r, {"classified", "bind"})) \/ Kept(r))'
    BY <1>6
  <2> QED BY <2>1, <2>2, <1>7 DEF KeptOK

LEMMA HandledContract ==
    ASSUME Types, Contract, UNCHANGED records,
           NEW l \in Links, l[2] \in Nodes, chan[l] # <<>>,
           NEW m \in Messages, m = Head(chan[l]), NEW s, NEW out,
           Handled(l[2], m, s, out), Answer(l, out), st' = [st EXCEPT ![l[2]][m.req] = s]
    PROVE  ChanTypes' /\ StateTypes' /\ RecordTypes' /\ Contract'
<1>0. m.req \in Reqs
  BY MessageFields
<1>1. /\ ChanTypes' /\ Moves(Past(l), l[2], out) /\ Past(l) \in [Links -> {0, 1}]
      /\ \A to \in DOMAIN out : <<l[2], to>> \in Links
  BY HandledMoves DEF Types
<1>2. Grows
  BY DEF records, Grows
<1>3. Sends(l[2], out)
  <2>1. ASSUME NEW to \in DOMAIN out
        PROVE  \E x \in Messages : out[to] = <<x>> /\ MessageOK(<<l[2], to>>, x)'
    <3>1. PICK x \in Messages : out[to] = <<x>> /\ MessageOK(<<l[2], to>>, x)
      BY DEF Handled
    <3>2. MessageOK(<<l[2], to>>, x)'
      BY <3>1, <1>2, MessageStays
    <3> QED BY <3>1, <3>2
  <2> QED BY <2>1 DEF Sends
<1>4. MessagesOK'
  BY <1>1, <1>2, <1>3, MessagesMove DEF Types, Contract
<1>5. RecordsOK' /\ RecordTypes'
  BY DEF Types, Contract, RecordsOK, RecordOK, RecordTypes, records, Dynamic
<1>6. StateTypes'
  BY <1>0 DEF StateTypes, Handled, Types
<1>7. StatesOK'
  <2>1. ASSUME NEW x \in Nodes, NEW q \in Reqs
        PROVE  State(x, q)' = IF x = l[2] /\ q = m.req THEN After(s) ELSE State(x, q)
    <3>1. st'[x][q] = IF x = l[2] /\ q = m.req THEN s ELSE st[x][q]
      BY <1>0 DEF StateTypes, Types
    <3> QED BY <3>1 DEF State, After
  <2>2. \A x \in Nodes, q \in Reqs : TargetOK(State(x, q), q)
    BY DEF Contract, StatesOK
  <2>3. TargetOK(After(s), m.req)
    BY DEF Handled
  <2>4. bound' = bound
    BY DEF records
  <2> QED BY <2>1, <2>2, <2>3, <2>4 DEF StatesOK, TargetOK
<1>8. EarlyOK'
  BY <1>1, HandledEarly DEF Types, Contract
<1>9. KeptOK'
  BY <1>1, HandledKept
<1> QED BY <1>1, <1>4, <1>5, <1>6, <1>7, <1>8, <1>9 DEF Contract

-----------------------------------------------------------------------------
(* Running the layers *)

LEMMA OnlyOne ==
    ASSUME NEW x
    PROVE  DOMAIN Only(x) = {x.to} /\ Only(x)[x.to] = <<x>>
BY DEF Only

LEMMA DataMessage ==
    ASSUME NEW type \in DataTypes, NEW to \in Nodes, NEW r \in Reqs, NEW ph \in {"prefill", "decode"},
           NEW k \in 0..MaxSteps, NEW lt \in Nodes \cup {None}, NEW x, x = Data(type, to, r, ph, k, lt)
    PROVE  /\ x \in Messages /\ x.type = type /\ x.to = to /\ x.req = r /\ x.phase = ph
           /\ x.step = k /\ x.loop_to = lt
BY DEF Data, Messages

LEMMA ControlMessage ==
    ASSUME NEW type \in {"drop_kv", "release", "classified", "error"}, NEW to \in Processes, NEW r \in Reqs,
           NEW x, x = Control(type, to, r)
    PROVE  x \in Messages /\ x.type = type /\ x.to = to /\ x.req = r
BY DEF Control, Messages

LEMMA BindAndToken ==
    /\ \A to \in Nodes, r \in Reqs, target \in Nodes : \A x : x = Bind(to, r, target) =>
          x \in Messages /\ x.type = "bind" /\ x.to = to /\ x.req = r /\ x.target = target
    /\ \A r \in Reqs, ph \in {"prefill", "decode"}, eos \in BOOLEAN : \A x : x = TokenReport(r, ph, eos) =>
          x \in Messages /\ x.type = "token" /\ x.to = Coord /\ x.req = r /\ x.eos = eos
BY DEF Bind, TokenReport, Messages

(* The token and the next step of tail(b).                                 *)
Looped(out, r, ph, k, eos) ==
    LET head == Head(FrontOf(r)) IN
    /\ DOMAIN out = {Coord, head} /\ head # Coord
    /\ out[Coord] = <<TokenReport(r, ph, eos)>>
    /\ out[head] = <<Data("loop", head, r, "decode", StepAfter(k), None)>>

(* What a node of a front segment does with a step of r ...                *)
FrontRan(n, r, ph, k, s, out) ==
    \/ \E j \in DOMAIN FrontOf(r) : \E lt \in Nodes \cup {None} :
         /\ j < Len(FrontOf(r)) /\ n = FrontOf(r)[j]
         /\ out = Only(Data("hop", FrontOf(r)[j + 1], r, ph, k, lt))
    \/ /\ n = Last(FrontOf(r))
       /\ \/ \E b \in bound[r] :
               out = Only(Data("seg_in", Head(BackChain[b]), r, ph, k, Head(FrontOf(r))))
          \/ Dynamic(r) /\ ph = "prefill" /\ s.cached_l0 /\ out = Only(Control("classified", Coord, r))
          \/ out = Nothing

(* ... and a node of a back segment.                                       *)
BackRan(n, r, ph, k, out) ==
    \E b \in bound[r] :
        \/ \E j \in DOMAIN BackChain[b] :
             /\ j < Len(BackChain[b]) /\ n = BackChain[b][j]
             /\ out = Only(Data("hop", BackChain[b][j + 1], r, ph, k, Head(FrontOf(r))))
        \/ /\ n = Last(BackChain[b])
           /\ \E eos \in BOOLEAN : out = Only(TokenReport(r, ph, eos)) \/ Looped(out, r, ph, k, eos)

(* Nothing an earlier step left is lost.                                   *)
Keeps(s, old, r) ==
    s \in ReqStates /\ TargetOK(s, r) /\ (old.cached_l0 => s.cached_l0)

LEMMA KeepsOn ==
    ASSUME NEW r, NEW a, NEW b, NEW c, Keeps(b, a, r), Keeps(c, b, r)
    PROVE  Keeps(c, a, r)
BY DEF Keeps

LEMMA FrontAdvance ==
    ASSUME RecordTypes, RecordsOK, NEW r \in Reqs, front[r] # None,
           NEW j \in DOMAIN FrontOf(r), NEW n, n = FrontOf(r)[j],
           NEW ph \in {"prefill", "decode"}, NEW k,
           NEW lt \in Nodes \cup {None}, NEW s \in ReqStates, TargetOK(s, r), NEW eos,
           NEW end, end = Advance(n, r, ph, k, lt, s, eos)
    PROVE  Keeps(end.state, s, r) /\ FrontRan(n, r, ph, k, end.state, end.out)
<1>1. /\ front[r] \in Fronts /\ FrontsOf(front[r])
      /\ n \in FrontNodes /\ n \in Nodes /\ SegHead[n] = Head(FrontOf(r))
      /\ j < Len(FrontOf(r)) => NextHop[n] = FrontOf(r)[j + 1] /\ FrontOf(r)[j + 1] \in Nodes
      /\ ~(j < Len(FrontOf(r))) => NextHop[n] = None /\ n = Last(FrontOf(r))
  BY TailOfFront DEF FrontsOf, ChainOf, FrontOf
<1>2. None \notin Nodes
  BY NodeConstantsAssumption DEF Processes
<1>3. Keeps(s, s, r)
  BY DEF Keeps
<1>4. CASE j < Len(FrontOf(r))
  <2>1. NextHop[n] # None
    BY <1>1, <1>2, <1>4
  <2>2. end = [state |-> s, out |-> Hop(n, r, ph, k, lt)]
    BY <2>1 DEF Advance
  <2>3. end.state = s /\ end.out = Only(Data("hop", FrontOf(r)[j + 1], r, ph, k, lt))
    BY <2>2, <1>1, <1>4 DEF Hop
  <2> QED BY <2>3, <1>3, <1>4 DEF FrontRan
<1>5. CASE ~(j < Len(FrontOf(r)))
  <2>1. NextHop[n] = None /\ n = Last(FrontOf(r))
    BY <1>1, <1>5
  <2>2. end = FrontTail(n, r, ph, k, s)
    BY <2>1, <1>1 DEF Advance
  <2>3. StaticPeer[n] = IF Dynamic(r) THEN None ELSE Head(BackChain[WiredTo[front[r]]])
    BY <2>1, <1>1, RingConstantsAssumption DEF FrontOf, Dynamic
  <2>4. CASE ~Dynamic(r)
    <3>1. bound[r] = {WiredTo[front[r]]} /\ WiredTo[front[r]] \in Backs
      BY <2>4, <1>1, RingConstantsAssumption DEF RecordsOK, RecordOK, Dynamic
    <3>2. Head(BackChain[WiredTo[front[r]]]) \in Nodes
      BY <3>1, Chains DEF BacksOf, ChainOf
    <3>3. StaticPeer[n] # None
      BY <3>2, <2>3, <2>4, <1>2
    <3>4. PICK to : to = IF s.bound_to # None THEN s.bound_to ELSE StaticPeer[n]
      OBVIOUS
    <3>5. to = Head(BackChain[WiredTo[front[r]]])
      BY <3>1, <3>4, <2>3, <2>4 DEF TargetOK
    <3>6. end = StaticForward(n, r, ph, k, s)
      BY <2>2, <3>3 DEF FrontTail
    <3>7. /\ end.state = [s EXCEPT !.bound_to = to, !.cached_l0 = @ \/ ph = "prefill"]
          /\ end.out = Only(Data("seg_in", to, r, ph, k, SegHead[n]))
      BY <3>4, <3>6 DEF StaticForward
    <3>8. /\ end.state \in ReqStates /\ end.state.bound_to = to
          /\ s.cached_l0 => end.state.cached_l0
      BY <3>2, <3>5, <3>7 DEF ReqStates
    <3>9. Keeps(end.state, s, r)
      BY <3>1, <3>5, <3>8 DEF Keeps, TargetOK
    <3>10. \E b \in bound[r] :
             end.out = Only(Data("seg_in", Head(BackChain[b]), r, ph, k, Head(FrontOf(r))))
      BY <3>1, <3>5, <3>7, <1>1
    <3> QED BY <3>9, <3>10, <2>1 DEF FrontRan
  <2>5. CASE Dynamic(r) /\ ph = "prefill"
    <3>1. end = Classify(r, s)
      BY <2>2, <2>3, <2>5 DEF FrontTail
    <3>2. /\ end.state = [s EXCEPT !.cached_l0 = TRUE, !.due = TRUE]
          /\ end.out = Only(Control("classified", Coord, r))
      BY <3>1 DEF Classify
    <3>3. end.state \in ReqStates /\ end.state.bound_to = s.bound_to /\ end.state.cached_l0
      BY <3>2 DEF ReqStates
    <3> QED BY <3>2, <3>3, <2>1, <2>5 DEF FrontRan, Keeps, TargetOK
  <2>6. CASE Dynamic(r) /\ ph # "prefill"
    <3>1. end = Decode(n, r, k, s)
      BY <2>2, <2>3, <2>6 DEF FrontTail
    <3>2. /\ end.state = s
          /\ end.out = IF s.bound_to = None THEN Nothing
                       ELSE Only(Data("seg_in", s.bound_to, r, "decode", k, SegHead[n]))
      BY <3>1 DEF Decode
    <3>3. CASE s.bound_to = None
      BY <3>2, <3>3, <2>1, <1>3 DEF FrontRan
    <3>4. CASE s.bound_to # None
      <4>1. PICK b \in bound[r] : s.bound_to = Head(BackChain[b])
        BY <3>4 DEF TargetOK
      <4>2. end.out = Only(Data("seg_in", Head(BackChain[b]), r, ph, k, Head(FrontOf(r))))
        BY <4>1, <3>2, <3>4, <2>6, <1>1
      <4> QED BY <4>2, <3>2, <2>1, <1>3 DEF FrontRan
    <3> QED BY <3>3, <3>4
  <2> QED BY <2>4, <2>5, <2>6
<1> QED BY <1>4, <1>5

LEMMA BackAdvance ==
    ASSUME RecordTypes, NEW r \in Reqs, front[r] # None, NEW b \in bound[r],
           NEW j \in DOMAIN BackChain[b], NEW n, n = BackChain[b][j],
           NEW ph, NEW k, NEW s, NEW eos \in BOOLEAN,
           NEW end, end = Advance(n, r, ph, k, Head(FrontOf(r)), s, eos)
    PROVE  end.state = s /\ BackRan(n, r, ph, k, end.out)
<1>1. b \in Backs /\ BacksOf(b)
  BY Chains DEF RecordTypes
<1>2. /\ n \notin FrontNodes /\ n \in Nodes
      /\ j < Len(BackChain[b]) => NextHop[n] = BackChain[b][j + 1] /\ BackChain[b][j + 1] \in Nodes
      /\ ~(j < Len(BackChain[b])) => NextHop[n] = None /\ n = Last(BackChain[b])
  BY <1>1 DEF BacksOf, ChainOf
<1>3. None \notin Nodes /\ Coord \notin Nodes
  BY NodeConstantsAssumption DEF Processes
<1>4. PICK head \in Nodes : head = Head(FrontOf(r))
  BY TailOfFront
<1>5. CASE j < Len(BackChain[b])
  <2>1. NextHop[n] # None
    BY <1>2, <1>3, <1>5
  <2>2. end = [state |-> s, out |-> Hop(n, r, ph, k, head)]
    BY <2>1, <1>4 DEF Advance
  <2>3. end.state = s /\ end.out = Only(Data("hop", BackChain[b][j + 1], r, ph, k, head))
    BY <2>2, <1>2, <1>5 DEF Hop
  <2> QED BY <2>3, <1>4, <1>5 DEF BackRan
<1>6. CASE ~(j < Len(BackChain[b]))
  <2>1. NextHop[n] = None /\ n = Last(BackChain[b])
    BY <1>2, <1>6
  <2>2. end = [state |-> s, out |-> BackTail(r, ph, k, head, eos)]
    BY <2>1, <1>2, <1>4 DEF Advance
  <2>3. end.state = s /\ end.out = BackTail(r, ph, k, head, eos)
    BY <2>2
  <2>4. head # None /\ head # Coord
    BY <1>3
  <2>5. CASE eos /\ StopIds
    <3>1. end.out = Only(TokenReport(r, ph, eos))
      BY <2>3, <2>5 DEF BackTail
    <3> QED BY <3>1, <2>1, <2>3 DEF BackRan
  <2>6. CASE ~(eos /\ StopIds)
    <3>1. end.out = [to \in {Coord, head} |->
                      IF to = Coord THEN <<TokenReport(r, ph, eos)>>
                      ELSE <<Data("loop", head, r, "decode", StepAfter(k), None)>>]
      BY <2>3, <2>4, <2>6 DEF BackTail
    <3>2. Looped(end.out, r, ph, k, eos)
      BY <3>1, <2>4, <1>4 DEF Looped
    <3> QED BY <3>2, <2>1, <2>3 DEF BackRan
  <2> QED BY <2>5, <2>6
<1> QED BY <1>5, <1>6

LEMMA KeepsAfter ==
    ASSUME NEW s, NEW old, NEW r, Keeps(s, old, r)
    PROVE  After(s) = s /\ s \in ReqStates
BY NodeConstantsAssumption DEF After, Keeps

LEMMA OneHandled ==
    ASSUME NEW n, NEW m, NEW s, Keeps(s, State(n, m.req), m.req), NEW x \in Messages,
           MessageOK(<<n, x.to>>, x), x.req = m.req, x.type \notin {"bind", "release"},
           x.type = "classified" => s.cached_l0,
           x \in Early(m.req) => m \in Early(m.req)
    PROVE  Handled(n, m, s, Only(x))
<1>1. After(s) = s /\ s \in ReqStates
  BY KeepsAfter
<1>2. DOMAIN Only(x) = {x.to} /\ Only(x)[x.to] = <<x>>
  BY OnlyOne
<1>3. \A to \in DOMAIN Only(x) : \E y \in Messages :
         /\ Only(x)[to] = <<y>> /\ MessageOK(<<n, to>>, y) /\ y.req = m.req
         /\ y.type \notin {"bind", "release"}
         /\ y.type = "classified" => After(s).cached_l0
         /\ y \in Early(m.req) => m \in Early(m.req) /\ DOMAIN Only(x) = {to}
  BY <1>1, <1>2
<1> QED BY <1>1, <1>3 DEF Handled, Keeps

LEMMA NothingHandled ==
    ASSUME NEW n, NEW m, NEW s, Keeps(s, State(n, m.req), m.req)
    PROVE  Handled(n, m, s, Nothing)
<1>1. After(s) = s /\ s \in ReqStates
  BY KeepsAfter
<1>2. DOMAIN Nothing = {}
  BY DEF Nothing
<1> QED BY <1>1, <1>2 DEF Handled, Keeps

LEMMA StepsAfter == \A k \in 0..MaxSteps : StepAfter(k) \in 0..MaxSteps
BY NodeConstantsAssumption DEF StepAfter

LEMMA FrontRanHandled ==
    ASSUME RecordTypes, NEW m \in Messages, m.type \in DataTypes, front[m.req] # None,
           m.phase = "prefill" => m.step = 0, NEW n,
           n \in FrontNodes /\ m.phase = "prefill" => m \in Early(m.req),
           NEW s, Keeps(s, State(n, m.req), m.req), NEW out,
           FrontRan(n, m.req, m.phase, m.step, s, out)
    PROVE  Handled(n, m, s, out)
<1> DEFINE r == m.req
<1>1. r \in Reqs /\ m.phase \in {"prefill", "decode"} /\ m.step \in 0..MaxSteps
  BY MessageFields
<1>2. front[r] \in Fronts /\ FrontsOf(front[r]) /\ Head(FrontOf(r)) \in Nodes /\ Last(FrontOf(r)) \in FrontNodes
  BY <1>1, TailOfFront
<1>3. CASE \E j \in DOMAIN FrontOf(r) : \E lt \in Nodes \cup {None} :
             /\ j < Len(FrontOf(r)) /\ n = FrontOf(r)[j]
             /\ out = Only(Data("hop", FrontOf(r)[j + 1], r, m.phase, m.step, lt))
  <2>1. PICK j \in DOMAIN FrontOf(r), lt \in Nodes \cup {None} :
             /\ j < Len(FrontOf(r)) /\ n = FrontOf(r)[j]
             /\ out = Only(Data("hop", FrontOf(r)[j + 1], r, m.phase, m.step, lt))
    BY <1>3
  <2>2. n \in FrontNodes /\ FrontOf(r)[j + 1] \in Nodes
    BY <1>2, <2>1 DEF FrontsOf, ChainOf, FrontOf
  <2>3. PICK x : x = Data("hop", FrontOf(r)[j + 1], r, m.phase, m.step, lt)
    OBVIOUS
  <2>4. /\ x \in Messages /\ x.type = "hop" /\ x.to = FrontOf(r)[j + 1] /\ x.req = r
        /\ x.phase = m.phase /\ x.step = m.step
    BY <1>1, <2>2, <2>3, DataMessage DEF DataTypes
  <2>5. Along(<<n, x.to>>, FrontOf(r))
    BY <2>1, <2>4 DEF Along
  <2>6. MessageOK(<<n, x.to>>, x)
    BY <2>4, <2>5 DEF MessageOK
  <2>7. x \in Early(r) => m \in Early(r)
    <3>1. x \in Early(r) => x.phase = "prefill"
      BY <2>4 DEF Early, Of
    <3> QED BY <3>1, <2>2, <2>4
  <2> QED BY <2>1, <2>3, <2>4, <2>6, <2>7, OneHandled
<1>4. CASE /\ n = Last(FrontOf(r))
           /\ \E b \in bound[r] :
                out = Only(Data("seg_in", Head(BackChain[b]), r, m.phase, m.step, Head(FrontOf(r))))
  <2>1. PICK b \in bound[r] :
             out = Only(Data("seg_in", Head(BackChain[b]), r, m.phase, m.step, Head(FrontOf(r))))
    BY <1>4
  <2>2. b \in Backs /\ Head(BackChain[b]) \in Nodes
    BY <1>1, Chains DEF RecordTypes, BacksOf, ChainOf
  <2>3. PICK x : x = Data("seg_in", Head(BackChain[b]), r, m.phase, m.step, Head(FrontOf(r)))
    OBVIOUS
  <2>4. /\ x \in Messages /\ x.type = "seg_in" /\ x.to = Head(BackChain[b]) /\ x.req = r
        /\ x.phase = m.phase /\ x.step = m.step /\ x.loop_to = Head(FrontOf(r))
    BY <1>1, <1>2, <2>2, <2>3, DataMessage DEF DataTypes
  <2>5. MessageOK(<<n, x.to>>, x)
    BY <1>4, <2>4 DEF MessageOK
  <2>6. x \notin Early(r)
    BY <2>4 DEF Early, Of
  <2> QED BY <2>1, <2>3, <2>4, <2>5, <2>6, OneHandled
<1>5. CASE /\ n = Last(FrontOf(r))
           /\ Dynamic(r) /\ m.phase = "prefill" /\ s.cached_l0 /\ out = Only(Control("classified", Coord, r))
  <2>1. PICK x : x = Control("classified", Coord, r)
    OBVIOUS
  <2>2. x \in Messages /\ x.type = "classified" /\ x.to = Coord /\ x.req = r
    BY <1>1, <2>1, ControlMessage DEF Processes
  <2>3. MessageOK(<<n, x.to>>, x)
    BY <1>5, <2>2 DEF MessageOK, DataTypes
  <2>4. m \in Early(r)
    BY <1>2, <1>5
  <2> QED BY <1>5, <2>1, <2>2, <2>3, <2>4, OneHandled
<1>6. CASE out = Nothing
  BY <1>6, NothingHandled
<1> QED BY <1>3, <1>4, <1>5, <1>6 DEF FrontRan

LEMMA BackRanHandled ==
    ASSUME RecordTypes, NEW m \in Messages, m.type \in DataTypes, front[m.req] # None,
           m.phase = "prefill" => m.step = 0, NEW n,
           NEW s, Keeps(s, State(n, m.req), m.req), NEW out,
           BackRan(n, m.req, m.phase, m.step, out)
    PROVE  Handled(n, m, s, out)
<1> DEFINE r == m.req
<1>1. r \in Reqs /\ m.phase \in {"prefill", "decode"} /\ m.step \in 0..MaxSteps
  BY MessageFields
<1>2. PICK head \in Nodes : head = Head(FrontOf(r))
  BY <1>1, TailOfFront
<1>3. PICK b \in bound[r] :
        \/ \E j \in DOMAIN BackChain[b] :
             /\ j < Len(BackChain[b]) /\ n = BackChain[b][j]
             /\ out = Only(Data("hop", BackChain[b][j + 1], r, m.phase, m.step, head))
        \/ /\ n = Last(BackChain[b])
           /\ \E eos \in BOOLEAN : out = Only(TokenReport(r, m.phase, eos)) \/ Looped(out, r, m.phase, m.step, eos)
  BY <1>2 DEF BackRan
<1>4. b \in Backs /\ BacksOf(b)
  BY <1>1, Chains DEF RecordTypes
<1>5. CASE \E j \in DOMAIN BackChain[b] :
             /\ j < Len(BackChain[b]) /\ n = BackChain[b][j]
             /\ out = Only(Data("hop", BackChain[b][j + 1], r, m.phase, m.step, head))
  <2>1. PICK j \in DOMAIN BackChain[b] :
             /\ j < Len(BackChain[b]) /\ n = BackChain[b][j]
             /\ out = Only(Data("hop", BackChain[b][j + 1], r, m.phase, m.step, head))
    BY <1>5
  <2>2. BackChain[b][j + 1] \in Nodes \ FrontNodes
    BY <1>4, <2>1 DEF BacksOf, ChainOf
  <2>3. PICK x : x = Data("hop", BackChain[b][j + 1], r, m.phase, m.step, head)
    OBVIOUS
  <2>4. /\ x \in Messages /\ x.type = "hop" /\ x.to = BackChain[b][j + 1] /\ x.req = r
        /\ x.phase = m.phase /\ x.step = m.step /\ x.loop_to = head
    BY <1>1, <1>2, <2>2, <2>3, DataMessage DEF DataTypes
  <2>5. Along(<<n, x.to>>, BackChain[b])
    BY <2>1, <2>4 DEF Along
  <2>6. MessageOK(<<n, x.to>>, x)
    BY <1>2, <2>4, <2>5 DEF MessageOK
  <2>7. x \notin Early(r)
    BY <2>2, <2>4 DEF Early, Of
  <2> QED BY <2>1, <2>3, <2>4, <2>6, <2>7, OneHandled
<1>6. ASSUME NEW eos \in BOOLEAN, n = Last(BackChain[b]), NEW x, x = TokenReport(r, m.phase, eos)
      PROVE  /\ x \in Messages /\ x.type = "token" /\ x.to = Coord /\ x.req = r
             /\ MessageOK(<<n, Coord>>, x) /\ x \notin Early(r)
  <2>1. x \in Messages /\ x.type = "token" /\ x.to = Coord /\ x.req = r
    BY <1>1, <1>6, BindAndToken
  <2>2. MessageOK(<<n, Coord>>, x)
    BY <1>6, <2>1 DEF MessageOK, DataTypes
  <2>3. x \notin Early(r)
    BY <2>1 DEF Early, Of
  <2> QED BY <2>1, <2>2, <2>3
<1>7. ASSUME NEW eos \in BOOLEAN, n = Last(BackChain[b]), out = Only(TokenReport(r, m.phase, eos))
      PROVE  Handled(n, m, s, out)
  <2>1. PICK x : x = TokenReport(r, m.phase, eos)
    OBVIOUS
  <2>2. /\ x \in Messages /\ x.type = "token" /\ x.to = Coord /\ x.req = r
        /\ MessageOK(<<n, x.to>>, x) /\ x \notin Early(r)
    BY <1>6, <1>7, <2>1
  <2> QED BY <1>7, <2>1, <2>2, OneHandled
<1>8. ASSUME NEW eos \in BOOLEAN, n = Last(BackChain[b]), Looped(out, r, m.phase, m.step, eos)
      PROVE  Handled(n, m, s, out)
  <2>1. PICK x : x = TokenReport(r, m.phase, eos)
    OBVIOUS
  <2>2. PICK y : y = Data("loop", head, r, "decode", StepAfter(m.step), None)
    OBVIOUS
  <2>3. DOMAIN out = {Coord, head} /\ out[Coord] = <<x>> /\ out[head] = <<y>>
    BY <1>2, <1>8, <2>1, <2>2 DEF Looped
  <2>4. /\ x \in Messages /\ x.type = "token" /\ x.req = r
        /\ MessageOK(<<n, Coord>>, x) /\ x \notin Early(r)
    BY <1>6, <1>8, <2>1
  <2>5. StepAfter(m.step) \in 0..MaxSteps
    BY <1>1, StepsAfter
  <2>6. y \in Messages /\ y.type = "loop" /\ y.to = head /\ y.req = r /\ y.phase = "decode"
    BY <1>1, <2>2, <2>5, DataMessage DEF DataTypes
  <2>7. MessageOK(<<n, head>>, y)
    BY <1>2, <1>8, <2>6 DEF MessageOK
  <2>8. y \notin Early(r)
    BY <2>6 DEF Early, Of
  <2>9. After(s) = s /\ s \in ReqStates
    BY KeepsAfter
  <2>10. \A to \in DOMAIN out : \E z \in Messages :
           /\ out[to] = <<z>> /\ MessageOK(<<n, to>>, z) /\ z.req = r
           /\ z.type \notin {"bind", "release"}
           /\ z.type = "classified" => After(s).cached_l0
           /\ z \in Early(r) => m \in Early(r) /\ DOMAIN out = {to}
    BY <2>3, <2>4, <2>6, <2>7, <2>8
  <2> QED BY <2>9, <2>10 DEF Handled, Keeps
<1> QED BY <1>3, <1>5, <1>7, <1>8

-----------------------------------------------------------------------------
(* The handlers of a node *)

Ran(n, m, s, out) ==
    FrontRan(n, m.req, m.phase, m.step, s, out) \/ BackRan(n, m.req, m.phase, m.step, out)

(* A message of a step is at a node of one of the segments of its request. *)
LEMMA DataPlaced ==
    ASSUME RecordTypes, NEW m \in Messages, NEW l \in Links, MessageOK(l, m), m.type \in DataTypes,
           NEW lt, m.type = "hop" => lt = m.loop_to, m.type = "seg_in" => lt = Head(FrontOf(m.req))
    PROVE  /\ \/ \E j \in DOMAIN FrontOf(m.req) : l[2] = FrontOf(m.req)[j]
              \/ /\ lt = Head(FrontOf(m.req))
                 /\ \E b \in bound[m.req] : \E j \in DOMAIN BackChain[b] : l[2] = BackChain[b][j]
           /\ l[2] \in FrontNodes /\ m.phase = "prefill" => m \in Early(m.req)
<1> DEFINE r == m.req
<1>1. r \in Reqs /\ front[r] # None /\ m.to = l[2]
  BY MessageFields DEF MessageOK
<1>2. /\ FrontsOf(front[r])
      /\ Head(FrontOf(r)) = FrontOf(r)[1] /\ 1 \in DOMAIN FrontOf(r)
  BY <1>1, TailOfFront DEF FrontsOf, ChainOf, FrontOf
<1>3. ASSUME NEW b \in bound[r]
      PROVE  /\ Head(BackChain[b]) = BackChain[b][1] /\ 1 \in DOMAIN BackChain[b]
             /\ Head(BackChain[b]) \notin FrontNodes
             /\ \A i \in DOMAIN BackChain[b] : i < Len(BackChain[b]) => i + 1 \in DOMAIN BackChain[b]
  <2>1. b \in Backs /\ BacksOf(b)
    BY <1>1, Chains DEF RecordTypes
  <2> QED BY <2>1 DEF BacksOf, ChainOf
<1>4. CASE m.type = "prefill"
  <2>1. l[2] = Head(FrontOf(r))
    BY <1>4 DEF MessageOK
  <2>2. m \in Early(r)
    BY <1>4 DEF Early, Of
  <2> QED BY <2>1, <2>2, <1>2
<1>5. CASE m.type = "hop"
  <2>1. l[2] \in FrontNodes /\ m.phase = "prefill" => m \in Early(r)
    BY <1>1, <1>5 DEF Early, Of
  <2>2. CASE Along(l, FrontOf(r))
    <3>1. PICK i \in DOMAIN FrontOf(r) : i < Len(FrontOf(r)) /\ l = <<FrontOf(r)[i], FrontOf(r)[i + 1]>>
      BY <2>2 DEF Along
    <3>2. i + 1 \in DOMAIN FrontOf(r)
      BY <1>2, <3>1 DEF FrontsOf, ChainOf, FrontOf
    <3> QED BY <2>1, <3>1, <3>2
  <2>3. CASE m.loop_to = Head(FrontOf(r)) /\ \E b \in bound[r] : Along(l, BackChain[b])
    <3>1. PICK b \in bound[r] : Along(l, BackChain[b])
      BY <2>3
    <3>2. PICK i \in DOMAIN BackChain[b] :
            i < Len(BackChain[b]) /\ l = <<BackChain[b][i], BackChain[b][i + 1]>>
      BY <3>1 DEF Along
    <3>3. i + 1 \in DOMAIN BackChain[b]
      BY <1>3, <3>2
    <3> QED BY <2>1, <2>3, <3>2, <3>3, <1>5
  <2> QED BY <2>2, <2>3, <1>5 DEF MessageOK
<1>6. CASE m.type = "seg_in"
  <2>1. PICK b \in bound[r] : l[2] = Head(BackChain[b])
    BY <1>6 DEF MessageOK
  <2> QED BY <2>1, <1>3, <1>6
<1>7. CASE m.type = "loop"
  <2>1. l[2] = Head(FrontOf(r)) /\ m.phase = "decode"
    BY <1>7 DEF MessageOK
  <2> QED BY <2>1, <1>2
<1> QED BY <1>4, <1>5, <1>6, <1>7 DEF DataTypes

Answered(l, m, s, out) ==
    Handled(l[2], m, s, out) /\ Answer(l, out) /\ st' = [st EXCEPT ![l[2]][m.req] = s]

LEMMA Computes ==
    ASSUME Types, Contract, NEW l \in Links, l[2] \in Nodes, NEW m \in Messages,
           m = Head(chan[l]), MessageOK(l, m), m.type \in DataTypes,
           NEW lt \in Nodes \cup {None}, m.type = "hop" => lt = m.loop_to,
           m.type = "seg_in" => lt = Head(FrontOf(m.req)),
           NEW old, Keeps(old, State(l[2], m.req), m.req), NEW eos \in BOOLEAN,
           Compute(l, lt, old, eos)
    PROVE  /\ \E s, out : Answered(l, m, s, out) /\ Ran(l[2], m, s, out)
           /\ kv' = [kv EXCEPT ![l[2]][m.req] = StepAfter(@)]
<1> DEFINE n == l[2]
           r == m.req
<1>1. r \in Reqs /\ m.phase \in {"prefill", "decode"} /\ m.step \in 0..MaxSteps
  BY MessageFields
<1>2. front[r] # None /\ (m.phase = "prefill" => m.step = 0)
  BY DEF MessageOK
<1>3. PICK end : end = Advance(n, r, m.phase, m.step, lt, old, eos)
  OBVIOUS
<1>4. /\ kv' = [kv EXCEPT ![n][r] = StepAfter(@)]
      /\ st' = [st EXCEPT ![n][r] = end.state]
      /\ Answer(l, end.out)
  BY <1>3 DEF Compute
<1>5. /\ \/ \E j \in DOMAIN FrontOf(r) : n = FrontOf(r)[j]
         \/ lt = Head(FrontOf(r)) /\ \E b \in bound[r] : \E j \in DOMAIN BackChain[b] : n = BackChain[b][j]
      /\ n \in FrontNodes /\ m.phase = "prefill" => m \in Early(r)
  BY DataPlaced DEF Types
<1>6. old \in ReqStates /\ TargetOK(old, r)
  BY DEF Keeps
<1>7. RecordsOK
  BY DEF Contract
<1>8. CASE \E j \in DOMAIN FrontOf(r) : n = FrontOf(r)[j]
  <2>1. PICK j \in DOMAIN FrontOf(r) : n = FrontOf(r)[j]
    BY <1>8
  <2>2. Keeps(end.state, old, r) /\ FrontRan(n, r, m.phase, m.step, end.state, end.out)
    BY <2>1, <1>1, <1>2, <1>3, <1>6, <1>7, FrontAdvance DEF Types
  <2>3. Keeps(end.state, State(n, r), r)
    BY <2>2, KeepsOn
  <2>4. Handled(n, m, end.state, end.out)
    BY <2>2, <2>3, <1>2, <1>5, FrontRanHandled DEF Types
  <2> QED BY <2>2, <2>4, <1>4 DEF Answered, Ran
<1>9. CASE lt = Head(FrontOf(r)) /\ \E b \in bound[r] : \E j \in DOMAIN BackChain[b] : n = BackChain[b][j]
  <2>1. PICK b \in bound[r] : \E j \in DOMAIN BackChain[b] : n = BackChain[b][j]
    BY <1>9
  <2>2. PICK j \in DOMAIN BackChain[b] : n = BackChain[b][j]
    BY <2>1
  <2>3. end.state = old /\ BackRan(n, r, m.phase, m.step, end.out)
    BY <2>2, <1>1, <1>2, <1>3, <1>9, BackAdvance DEF Types
  <2>4. Handled(n, m, end.state, end.out)
    BY <2>3, <1>2, BackRanHandled DEF Types
  <2> QED BY <2>3, <2>4, <1>4 DEF Answered, Ran
<1> QED BY <1>4, <1>5, <1>8, <1>9

(* A turn of a node: it runs the layers, sends the output it kept, or      *)
(* forgets.                                                                *)
Turn(l, m, s, out) ==
    /\ Answered(l, m, s, out)
    /\ \/ /\ m.type \in DataTypes /\ Ran(l[2], m, s, out)
          /\ kv' = [kv EXCEPT ![l[2]][m.req] = StepAfter(@)]
       \/ /\ m.type = "bind" /\ kv' = kv
          /\ out = Only(Data("seg_in", m.target, m.req, "prefill", 0, Head(FrontOf(m.req))))
       \/ /\ m.type \in {"drop_kv", "release"} /\ out = Nothing
          /\ kv' = [kv EXCEPT ![l[2]][m.req] = 0]

LEMMA ReadFacts ==
    ASSUME Types, MessagesOK, NEW l \in Links, chan[l] # <<>>
    PROVE  Head(chan[l]) \in Messages /\ MessageOK(l, Head(chan[l]))
<1>1. chan[l] \in Seq(Messages)
  BY DEF Types, ChanTypes
<1>2. 1 \in DOMAIN chan[l] /\ Head(chan[l]) = chan[l][1] /\ Head(chan[l]) \in Messages
  BY <1>1, EmptySeq, LenProperties, HeadTailProperties
<1>3. MessageOK(l, chan[l][1])
  BY <1>2 DEF MessagesOK
<1> QED BY <1>2, <1>3

LEMMA StateFacts ==
    ASSUME Types, StatesOK, NEW n \in Nodes, NEW r \in Reqs
    PROVE  /\ State(n, r) \in ReqStates /\ TargetOK(State(n, r), r)
           /\ Keeps(State(n, r), State(n, r), r)
<1>1. Fresh \in ReqStates
  BY DEF Fresh, ReqStates
<1>2. State(n, r) \in ReqStates
  BY <1>1 DEF Types, StateTypes, State
<1>3. TargetOK(State(n, r), r)
  BY DEF StatesOK
<1> QED BY <1>2, <1>3 DEF Keeps

LEMMA NodeSteps ==
    ASSUME Types, Contract, NEW l \in Links, l[2] \in Nodes, NodeStep(l)
    PROVE  chan[l] # <<>> /\ \E s, out : Turn(l, Head(chan[l]), s, out)
<1> DEFINE n == l[2]
<1>1. chan[l] # <<>>
  BY DEF NodeStep, OnPrefill, OnHop, OnSegIn, OnLoop, OnBind, OnDropKV, OnRelease, Reads
<1>2. PICK m \in Messages : m = Head(chan[l]) /\ MessageOK(l, m)
  BY <1>1, ReadFacts DEF Contract
<1>3. m.req \in Reqs /\ front[m.req] # None
  BY <1>2, MessageFields DEF MessageOK
<1>4. /\ State(n, m.req) \in ReqStates /\ TargetOK(State(n, m.req), m.req)
      /\ Keeps(State(n, m.req), State(n, m.req), m.req)
  BY <1>3, StateFacts DEF Contract
<1>5. SegHead[n] \in Nodes \cup {None} /\ Sampled(n) \subseteq BOOLEAN
  BY NodeConstantsAssumption DEF Sampled
<1>6. Head(FrontOf(m.req)) \in Nodes /\ Last(FrontOf(m.req)) \in Nodes
  BY <1>3, TailOfFront DEF Types
<1>7. None \notin Nodes /\ None \notin ReqStates
  BY NodeConstantsAssumption DEF Processes
<1>8. CASE OnPrefill(l)
  <2>1. m.type = "prefill" /\ m.type \in DataTypes
    BY <1>8, <1>2 DEF OnPrefill, Reads, DataTypes
  <2>2. PICK eos \in BOOLEAN : Compute(l, SegHead[n], State(n, m.req), eos)
    BY <1>8, <1>2, <1>5 DEF OnPrefill
  <2>3. /\ \E s, out : Answered(l, m, s, out) /\ Ran(n, m, s, out)
        /\ kv' = [kv EXCEPT ![n][m.req] = StepAfter(@)]
    BY <1>2, <1>4, <1>5, <2>1, <2>2, Computes
  <2> QED BY <1>1, <1>2, <2>1, <2>3 DEF Turn
<1>9. CASE OnHop(l)
  <2>1. m.type = "hop" /\ m.type \in DataTypes
    BY <1>9, <1>2 DEF OnHop, Reads, DataTypes
  <2>2. PICK eos \in BOOLEAN : Compute(l, m.loop_to, State(n, m.req), eos)
    BY <1>9, <1>2, <1>5 DEF OnHop
  <2>3. m.loop_to \in Nodes \cup {None}
    BY <2>1, MessageFields
  <2>4. /\ \E s, out : Answered(l, m, s, out) /\ Ran(n, m, s, out)
        /\ kv' = [kv EXCEPT ![n][m.req] = StepAfter(@)]
    BY <1>2, <1>4, <2>1, <2>2, <2>3, Computes
  <2> QED BY <1>1, <1>2, <2>1, <2>4 DEF Turn
<1>10. CASE OnSegIn(l)
  <2>1. m.type = "seg_in" /\ m.type \in DataTypes
    BY <1>10, <1>2 DEF OnSegIn, Reads, DataTypes
  <2>2. m.loop_to = Head(FrontOf(m.req))
    BY <1>2, <2>1 DEF MessageOK
  <2>3. PICK old : old = [State(n, m.req) EXCEPT !.loop_to = m.loop_to]
    OBVIOUS
  <2>4. PICK eos \in BOOLEAN : Compute(l, m.loop_to, old, eos)
    BY <1>10, <1>2, <1>5, <1>6, <1>7, <2>2, <2>3 DEF OnSegIn
  <2>5. Keeps(old, State(n, m.req), m.req)
    <3>1. /\ old \in ReqStates /\ old.bound_to = State(n, m.req).bound_to
          /\ old.cached_l0 = State(n, m.req).cached_l0
      BY <1>4, <1>6, <2>2, <2>3 DEF ReqStates
    <3> QED BY <3>1, <1>4 DEF Keeps, TargetOK
  <2>6. /\ \E s, out : Answered(l, m, s, out) /\ Ran(n, m, s, out)
        /\ kv' = [kv EXCEPT ![n][m.req] = StepAfter(@)]
    BY <1>2, <1>6, <2>1, <2>2, <2>4, <2>5, Computes
  <2> QED BY <1>1, <1>2, <2>1, <2>6 DEF Turn
<1>11. CASE OnLoop(l)
  <2>1. m.type = "loop" /\ m.type \in DataTypes
    BY <1>11, <1>2 DEF OnLoop, Reads, DataTypes
  <2>2. PICK eos \in BOOLEAN : Compute(l, SegHead[n], State(n, m.req), eos)
    BY <1>11, <1>2, <1>5 DEF OnLoop
  <2>3. /\ \E s, out : Answered(l, m, s, out) /\ Ran(n, m, s, out)
        /\ kv' = [kv EXCEPT ![n][m.req] = StepAfter(@)]
    BY <1>2, <1>4, <1>5, <2>1, <2>2, Computes
  <2> QED BY <1>1, <1>2, <2>1, <2>3 DEF Turn
<1>12. CASE OnBind(l)
  <2>1. m.type = "bind"
    BY <1>12, <1>2 DEF OnBind, Reads
  <2>2. /\ n = Last(FrontOf(m.req)) /\ Dynamic(m.req)
        /\ \E b \in bound[m.req] : m.target = Head(BackChain[b])
    BY <1>2, <2>1 DEF MessageOK
  <2>3. State(n, m.req).cached_l0
    <3>1. 1 \in DOMAIN chan[l] /\ m = chan[l][1]
      <4>1. chan[l] \in Seq(Messages)
        BY DEF Types, ChanTypes
      <4> QED BY <4>1, <1>1, <1>2, EmptySeq, LenProperties
    <3>2. m \in Of(m.req, {"classified", "bind"})
      BY <2>1 DEF Of
    <3>3. ~Gone(Of(m.req, {"classified", "bind"}))
      BY <3>1, <3>2 DEF Gone, At
    <3> QED BY <1>3, <2>2, <3>3 DEF Contract, KeptOK, Kept
  <2>4. SegHead[n] = Head(FrontOf(m.req))
    <3>1. FrontsOf(front[m.req])
      BY <1>3, TailOfFront DEF Types
    <3> QED BY <2>2, <3>1 DEF FrontsOf, ChainOf, FrontOf
  <2>5. PICK s : s = [State(n, m.req) EXCEPT !.bound_to = m.target, !.pending = FALSE]
    OBVIOUS
  <2>6. PICK out : out = Only(Data("seg_in", m.target, m.req, "prefill", 0, Head(FrontOf(m.req))))
    OBVIOUS
  <2>7. st' = [st EXCEPT ![n][m.req] = s] /\ Answer(l, out) /\ kv' = kv
    BY <1>12, <1>2, <2>3, <2>4, <2>5, <2>6 DEF OnBind
  <2>8. Keeps(s, State(n, m.req), m.req)
    <3>1. m.target \in Nodes
      BY <2>1, MessageFields
    <3>2. s \in ReqStates /\ s.bound_to = m.target /\ s.cached_l0 = State(n, m.req).cached_l0
      BY <1>4, <2>5, <3>1 DEF ReqStates
    <3> QED BY <2>2, <3>2 DEF Keeps, TargetOK
  <2>9. Handled(n, m, s, out)
    <3>1. m.target \in Nodes /\ 0 \in 0..MaxSteps
      BY <2>1, MessageFields, NodeConstantsAssumption
    <3>2. PICK x : x = Data("seg_in", m.target, m.req, "prefill", 0, Head(FrontOf(m.req)))
      OBVIOUS
    <3>3. /\ x \in Messages /\ x.type = "seg_in" /\ x.to = m.target /\ x.req = m.req
          /\ x.phase = "prefill" /\ x.step = 0 /\ x.loop_to = Head(FrontOf(m.req))
      BY <1>3, <1>6, <3>1, <3>2, DataMessage DEF DataTypes
    <3>4. MessageOK(<<n, x.to>>, x)
      BY <1>3, <2>2, <3>3 DEF MessageOK
    <3>5. x \notin Early(m.req)
      BY <3>3 DEF Early, Of
    <3> QED BY <2>6, <2>8, <3>2, <3>3, <3>4, <3>5, OneHandled
  <2> QED BY <1>1, <1>2, <2>1, <2>6, <2>7, <2>9 DEF Turn, Answered
<1>13. CASE OnDropKV(l)
  <2>1. m.type = "drop_kv"
    BY <1>13, <1>2 DEF OnDropKV, Reads
  <2>2. PICK s : s = st[n][m.req]
    OBVIOUS
  <2>3. st' = [st EXCEPT ![n][m.req] = s] /\ s \in ReqStates \cup {None}
    BY <1>3, <1>13, <2>2 DEF OnDropKV, Types, StateTypes
  <2>4. Answer(l, Nothing) /\ kv' = [kv EXCEPT ![n][m.req] = 0]
    BY <1>13, <1>2 DEF OnDropKV
  <2>5. After(s) = State(n, m.req)
    BY <2>2 DEF After, State
  <2>6. Handled(n, m, s, Nothing)
    <3>1. DOMAIN Nothing = {}
      BY DEF Nothing
    <3> QED BY <1>4, <2>3, <2>5, <3>1 DEF Handled
  <2> QED BY <1>1, <1>2, <2>1, <2>3, <2>4, <2>6 DEF Turn, Answered
<1>14. CASE OnRelease(l)
  <2>1. m.type = "release"
    BY <1>14, <1>2 DEF OnRelease, Reads
  <2>2. st' = [st EXCEPT ![n][m.req] = None]
    BY <1>14, <1>2 DEF OnRelease
  <2>3. Answer(l, Nothing) /\ kv' = [kv EXCEPT ![n][m.req] = 0]
    BY <1>14, <1>2 DEF OnRelease
  <2>4. After(None).bound_to = None
    BY DEF After, Fresh
  <2>5. Handled(n, m, None, Nothing)
    <3>1. DOMAIN Nothing = {}
      BY DEF Nothing
    <3> QED BY <2>1, <2>4, <3>1 DEF Handled, TargetOK
  <2> QED BY <1>1, <1>2, <2>1, <2>2, <2>3, <2>5 DEF Turn, Answered
<1> QED BY <1>8, <1>9, <1>10, <1>11, <1>12, <1>13, <1>14 DEF NodeStep

LEMMA TurnContract ==
    ASSUME Types, Contract, UNCHANGED records, NEW l \in Links, l[2] \in Nodes, NodeStep(l)
    PROVE  Types' /\ Contract'
<1>1. chan[l] # <<>>
  BY NodeSteps
<1>2. PICK m \in Messages : m = Head(chan[l]) /\ MessageOK(l, m)
  BY <1>1, ReadFacts DEF Contract
<1>3. PICK s, out : Turn(l, m, s, out)
  BY <1>2, NodeSteps
<1>4. Handled(l[2], m, s, out) /\ Answer(l, out) /\ st' = [st EXCEPT ![l[2]][m.req] = s]
  BY <1>3 DEF Turn, Answered
<1>5. ChanTypes' /\ StateTypes' /\ RecordTypes' /\ Contract'
  BY <1>1, <1>2, <1>4, HandledContract
<1>6. CacheTypes'
  <2>1. m.req \in Reqs /\ kv \in [Nodes -> [Reqs -> 0..MaxSteps]]
    BY MessageFields DEF Types, CacheTypes
  <2>2. kv[l[2]][m.req] \in 0..MaxSteps /\ 0 \in 0..MaxSteps
    BY <2>1, NodeConstantsAssumption
  <2>3. StepAfter(kv[l[2]][m.req]) \in 0..MaxSteps
    BY <2>2, StepsAfter
  <2>4. \/ kv' = [kv EXCEPT ![l[2]][m.req] = StepAfter(@)]
        \/ kv' = kv
        \/ kv' = [kv EXCEPT ![l[2]][m.req] = 0]
    BY <1>3 DEF Turn
  <2> QED BY <2>1, <2>2, <2>3, <2>4 DEF CacheTypes
<1> QED BY <1>5, <1>6 DEF Types

-----------------------------------------------------------------------------
(* The coordinator keeps the contract *)

LEMMA SpentGone ==
    ASSUME ChanTypes, ChanTypes', NEW away \in [Links -> {0, 1}], NEW p, NEW out,
           Moves(away, p, out), NEW K, NotSent(out, K), Spent(away, K)
    PROVE  Gone(K)'
<1>1. ASSUME NEW l \in Links, NEW i \in Nat, At(l, i, K)'
      PROVE  FALSE
  <2>1. At(l, i + away[l], K)
    BY <1>1, AtStays
  <2>2. i \in Nat \ {0}
    <3>1. chan'[l] \in Seq(Messages)
      BY DEF ChanTypes
    <3> QED BY <1>1, <3>1, LenProperties DEF At
  <2> QED BY <2>1, <2>2 DEF Spent
<1> QED BY <1>1 DEF Gone

(* A message on its way belongs to a request that has started.             *)
LEMMA AtFacts ==
    ASSUME Types, MessagesOK, NEW l \in Links, NEW i, NEW K, At(l, i, K)
    PROVE  /\ chan[l][i] \in Messages /\ chan[l][i] \in K /\ MessageOK(l, chan[l][i])
           /\ i \in Nat /\ 0 < i /\ i <= Len(chan[l]) /\ Len(chan[l]) \in Nat
<1>1. i \in DOMAIN chan[l] /\ chan[l][i] \in K /\ MessageOK(l, chan[l][i])
  BY DEF At, MessagesOK
<1>2. chan[l] \in Seq(Messages)
  BY DEF Types, ChanTypes
<1> QED BY <1>1, <1>2, LenProperties, ElementOfSeq

(* What the coordinator sends about r.                                     *)
Told(r, out) ==
    \A to \in DOMAIN out : \E x \in Messages :
        /\ out[to] = <<x>> /\ x.req = r /\ x.type # "classified"
        /\ x.type = "bind" => front[r] # None /\ Kept(r) /\ ~finished[r]
        /\ x \in Early(r) => DOMAIN out = {to} /\ front[r] = None

(* A request it binds has been classified, or was bound before.            *)
Binds(r, away, out) ==
    Dynamic(r)' /\ back'[r] # None =>
        /\ front[r] # None
        /\ \/ back[r] # None
           \/ Kept(r) /\ Spent(away, Early(r)) /\ NotSent(out, Early(r))

Others(r) ==
    \A q \in Reqs : q # r =>
        front'[q] = front[q] /\ back'[q] = back[q] /\ finished'[q] = finished[q]

LEMMA ToldOnly ==
    ASSUME NEW r, NEW q, q # r, NEW out, Told(r, out)
    PROVE  NotSent(out, Early(q)) /\ \A types : NotSent(out, Of(q, types))
<1>1. ASSUME NEW to \in DOMAIN out PROVE out[to][1] \in Messages /\ out[to][1].req = r
  <2>1. PICK x \in Messages : out[to] = <<x>> /\ x.req = r
    BY DEF Told
  <2>2. <<x>>[1] = x
    OBVIOUS
  <2> QED BY <2>1, <2>2
<1> QED BY <1>1 DEF NotSent, Early, Of

LEMMA ToldEarly ==
    ASSUME Types, Contract, ChanTypes', Grows, NEW away \in [Links -> {0, 1}], NEW out,
           Moves(away, Coord, out), NEW r \in Reqs, Told(r, out), Binds(r, away, out), Others(r)
    PROVE  EarlyOK'
<1>1. ASSUME NEW q \in Reqs
      PROVE  Once(Early(q))'
  <2>1. Once(Early(q))
    BY DEF Contract, EarlyOK
  <2>2. CASE NotSent(out, Early(q))
    BY <2>1, <2>2, OnceStays DEF Types
  <2>3. CASE ~NotSent(out, Early(q))
    <3>1. q = r
      BY <2>3, ToldOnly
    <3>2. PICK to \in DOMAIN out : out[to][1] \in Early(r)
      BY <2>3, <3>1 DEF NotSent
    <3>3. PICK x \in Messages : out[to] = <<x>> /\ (x \in Early(r) => DOMAIN out = {to} /\ front[r] = None)
      BY DEF Told
    <3>4. DOMAIN out = {to} /\ front[r] = None
      BY <3>2, <3>3
    <3>5. Gone(Early(r))
      <4>1. ASSUME NEW l \in Links, NEW i \in Nat, At(l, i, Early(r)) PROVE FALSE
        <5>1. PICK y \in Messages : y \in Early(r) /\ MessageOK(l, y)
          BY <4>1, AtFacts DEF Contract
        <5>2. y.req = r
          BY <5>1, SameRequest
        <5> QED BY <5>1, <5>2, <3>4 DEF MessageOK
      <4> QED BY <4>1 DEF Gone
    <3>6. Spent(away, Early(r))
      BY <3>5, GoneSpent
    <3>7. \A a, b \in DOMAIN out : out[a][1] \in Early(r) /\ out[b][1] \in Early(r) => a = b
      BY <3>4
    <3> QED BY <3>1, <3>6, <3>7, OnceSpent DEF Types
  <2> QED BY <2>2, <2>3
<1>2. ASSUME NEW q \in Reqs, front'[q] # None, Dynamic(q)', back'[q] # None
      PROVE  Gone(Early(q))'
  <2>1. CASE q # r
    <3>1. front'[q] = front[q] /\ back'[q] = back[q]
      BY <2>1 DEF Others
    <3>2. Gone(Early(q))
      BY <1>2, <3>1 DEF Contract, EarlyOK, Dynamic
    <3> QED BY <2>1, <3>2, ToldOnly, GoneStays DEF Types
  <2>2. CASE q = r
    <3>1. front[r] # None
      BY <1>2, <2>2 DEF Binds
    <3>2. front'[r] = front[r]
      BY <3>1 DEF Grows
    <3>3. CASE back[r] # None
      <4>1. Gone(Early(r))
        BY <1>2, <2>2, <3>1, <3>2, <3>3 DEF Contract, EarlyOK, Dynamic
      <4>2. NotSent(out, Early(r))
        <5>1. ASSUME NEW to \in DOMAIN out PROVE out[to][1] \notin Early(r)
          <6>1. PICK x \in Messages : out[to] = <<x>> /\ (x \in Early(r) => front[r] = None)
            BY DEF Told
          <6> QED BY <6>1, <3>1
        <5> QED BY <5>1 DEF NotSent
      <4> QED BY <2>2, <4>1, <4>2, GoneStays DEF Types
    <3>4. CASE Kept(r) /\ Spent(away, Early(r)) /\ NotSent(out, Early(r))
      BY <2>2, <3>4, SpentGone DEF Types
    <3> QED BY <1>2, <2>2, <3>3, <3>4 DEF Binds
  <2> QED BY <2>1, <2>2
<1> QED BY <1>1, <1>2 DEF EarlyOK

LEMMA ToldKept ==
    ASSUME Types, Contract, ChanTypes', Grows, st' = st, NEW away \in [Links -> {0, 1}], NEW out,
           Moves(away, Coord, out), NEW r \in Reqs, Told(r, out), Binds(r, away, out), Others(r)
    PROVE  KeptOK'
<1>1. ASSUME NEW q \in Reqs, front[q] # None PROVE front'[q] = front[q] /\ (Kept(q)' <=> Kept(q))
  <2>1. front'[q] = front[q]
    BY <1>1 DEF Grows
  <2> QED BY <2>1 DEF Kept, FrontOf, State
<1>2. ASSUME NEW q \in Reqs, front'[q] # None, Dynamic(q)', back'[q] # None, ~finished'[q]
      PROVE  Kept(q)'
  <2>1. CASE q # r
    <3>1. front'[q] = front[q] /\ back'[q] = back[q] /\ finished'[q] = finished[q]
      BY <2>1 DEF Others
    <3>2. Kept(q)
      BY <1>2, <3>1 DEF Contract, KeptOK, Dynamic
    <3> QED BY <1>1, <1>2, <3>1, <3>2
  <2>2. CASE q = r
    <3>1. front[r] # None /\ front'[r] = front[r] /\ (Kept(r)' <=> Kept(r)) /\ ~finished[r]
      BY <1>1, <1>2, <2>2 DEF Binds, Grows
    <3>2. Kept(r)
      BY <1>2, <2>2, <3>1 DEF Binds, Contract, KeptOK, Dynamic
    <3> QED BY <2>2, <3>1, <3>2
  <2> QED BY <2>1, <2>2
<1>3. ASSUME NEW q \in Reqs, ~Gone(Of(q, {"classified", "bind"}))'
      PROVE  Kept(q)'
  <2>1. PICK l \in Links, i \in Nat : At(l, i, Of(q, {"classified", "bind"}))'
    BY <1>3 DEF Gone
  <2>2. CASE At(l, i + away[l], Of(q, {"classified", "bind"}))
    <3>1. i + away[l] \in Nat
      BY <2>2, AtFacts DEF Contract
    <3>2. PICK y \in Messages : y \in Of(q, {"classified", "bind"}) /\ MessageOK(l, y)
      BY <2>2, AtFacts DEF Contract
    <3>3. front[q] # None
      BY <3>2 DEF MessageOK, Of
    <3>4. Kept(q)
      BY <2>2, <3>1 DEF Gone, Contract, KeptOK
    <3> QED BY <1>1, <3>3, <3>4
  <2>3. CASE l[2] \in DOMAIN out /\ out[l[2]][1] \in Of(q, {"classified", "bind"})
    <3>1. PICK x \in Messages : /\ out[l[2]] = <<x>> /\ x.req = r /\ x.type # "classified"
                                /\ x.type = "bind" => front[r] # None /\ Kept(r)
      BY <2>3 DEF Told
    <3>2. x.req = q /\ x.type = "bind"
      BY <2>3, <3>1 DEF Of
    <3> QED BY <1>1, <3>1, <3>2
  <2> QED BY <2>1, <2>2, <2>3, AtMoves DEF Types
<1>4. ASSUME NEW q \in Reqs, NEW l \in Links, NEW i \in Nat, NEW j \in Nat,
             At(l, i, Of(q, {"bind"}))', At(l, j, Of(q, {"release"}))'
      PROVE  i < j
  <2>0. away[l] \in {0, 1}
    OBVIOUS
  <2>1. \/ At(l, i + away[l], Of(q, {"bind"}))
        \/ l[2] \in DOMAIN out /\ out[l[2]][1] \in Of(q, {"bind"})
    BY <1>4, AtMoves DEF Types
  <2>2. \/ At(l, j + away[l], Of(q, {"release"}))
        \/ /\ l[2] \in DOMAIN out /\ out[l[2]][1] \in Of(q, {"release"})
           /\ j + away[l] = Len(chan[l]) + 1
    <3>1. ChanTypes /\ At(l, j, Of(q, {"release"}))'
      BY <1>4 DEF Types
    <3>2. /\ j + away[l] \in Nat \ {0}
          /\ \/ At(l, j + away[l], Of(q, {"release"}))
             \/ /\ l = <<Coord, l[2]>> /\ l[2] \in DOMAIN out
                /\ j + away[l] = Len(chan[l]) + 1 /\ out[l[2]][1] \in Of(q, {"release"})
      BY <3>1, AtMoves
    <3> QED BY <3>2
  <2>3. CASE l[2] \in DOMAIN out /\ out[l[2]][1] \in Of(q, {"bind"})
    <3>1. PICK x \in Messages : /\ out[l[2]] = <<x>> /\ x.req = r
                                /\ x.type = "bind" => ~finished[r]
      BY <2>3 DEF Told
    <3>2. x.req = q /\ x.type = "bind"
      BY <2>3, <3>1 DEF Of
    <3>3. x \notin Of(q, {"release"})
      BY <3>2 DEF Of
    <3>4. At(l, j + away[l], Of(q, {"release"}))
      BY <2>2, <3>1, <3>3
    <3>5. PICK y \in Messages : y \in Of(q, {"release"}) /\ MessageOK(l, y)
      BY <3>4, AtFacts DEF Contract
    <3>6. finished[q]
      BY <3>5 DEF MessageOK, Of
    <3> QED BY <3>1, <3>2, <3>6
  <2>4. CASE At(l, i + away[l], Of(q, {"bind"})) /\ At(l, j + away[l], Of(q, {"release"}))
    <3>1. i + away[l] \in Nat /\ j + away[l] \in Nat
      BY <2>0
    <3>2. i + away[l] < j + away[l]
      BY <2>4, <3>1 DEF Contract, KeptOK
    <3> QED BY <2>0, <3>2
  <2>5. CASE At(l, i + away[l], Of(q, {"bind"})) /\ j + away[l] = Len(chan[l]) + 1
    <3>1. i + away[l] <= Len(chan[l]) /\ Len(chan[l]) \in Nat
      BY <2>5, AtFacts DEF Contract
    <3> QED BY <2>0, <2>5, <3>1
  <2> QED BY <2>1, <2>2, <2>3, <2>4, <2>5
<1> QED
  <2>1. \A q \in Reqs : (front[q] # None /\ Dynamic(q) /\ back[q] # None /\ ~finished[q] => Kept(q))'
    BY <1>2
  <2>2. \A q \in Reqs : (Gone(Of(q, {"classified", "bind"})) \/ Kept(q))'
    BY <1>3
  <2> QED BY <2>1, <2>2, <1>4 DEF KeptOK

LEMMA ToldContract ==
    ASSUME Types, Contract, ChanTypes', RecordsOK', Grows, st' = st,
           NEW away \in [Links -> {0, 1}], NEW out, Moves(away, Coord, out), Sends(Coord, out),
           NEW r \in Reqs, Told(r, out), Binds(r, away, out), Others(r)
    PROVE  Contract'
<1>1. MessagesOK'
  BY MessagesMove DEF Types, Contract
<1>2. StatesOK'
  <2>1. ASSUME NEW n \in Nodes, NEW q \in Reqs PROVE TargetOK(State(n, q), q)'
    <3>1. TargetOK(State(n, q), q) /\ bound[q] \subseteq bound'[q]
      BY DEF Contract, StatesOK, Grows
    <3> QED BY <3>1 DEF TargetOK, State
  <2> QED BY <2>1 DEF StatesOK
<1> QED BY <1>1, <1>2, ToldEarly, ToldKept DEF Contract

-----------------------------------------------------------------------------
(* The caches of a request *)

LEMMA CarrierStays ==
    ASSUME Types, NEW q \in Reqs, front[q] # None, front'[q] = front[q], back'[q] = back[q],
           \A x \in Nodes : kv'[x][q] = kv[x][q],
           NEW m, m.req = q, NEW n, CarrierOK(m, n)
    PROVE  CarrierOK(m, n)'
<1>1. FrontOf(q)' = FrontOf(q) /\ FrontsOf(front[q])
  BY TailOfFront DEF FrontOf, Types
<1>2. \A i \in DOMAIN FrontOf(q) : kv'[FrontOf(q)[i]][q] = kv[FrontOf(q)[i]][q]
  BY <1>1 DEF FrontsOf, ChainOf, FrontOf
<1>3. \A b \in Backs : \A i \in DOMAIN BackChain[b] : kv'[BackChain[b][i]][q] = kv[BackChain[b][i]][q]
  BY Chains DEF BacksOf, ChainOf
<1>4. ASSUME NEW k, BacksHold(q, k) PROVE BacksHold(q, k)'
  BY <1>3, <1>4 DEF BacksHold, Filled
<1>5. ASSUME NEW j, NEW k, Filled(q, FrontOf(q), j, k) PROVE Filled(q, FrontOf(q), j, k)'
  BY <1>1, <1>2, <1>5 DEF Filled
<1>6. ASSUME NEW b \in Backs, NEW j, NEW k, Filled(q, BackChain[b], j, k)
      PROVE  Filled(q, BackChain[b], j, k)'
  BY <1>3, <1>6 DEF Filled
<1>7. CASE m.type \in DataTypes
  <2>1. PICK k : k = m.step
    OBVIOUS
  <2>2. LapAt(q, n, k)
    BY <1>7, <2>1 DEF CarrierOK
  <2>3. LapAt(q, n, k)'
    <3>1. CASE \E j \in DOMAIN FrontOf(q) :
                 n = FrontOf(q)[j] /\ Filled(q, FrontOf(q), j, k) /\ BacksHold(q, k)
      <4>1. PICK j \in DOMAIN FrontOf(q) :
                 n = FrontOf(q)[j] /\ Filled(q, FrontOf(q), j, k) /\ BacksHold(q, k)
        BY <3>1
      <4>2. Filled(q, FrontOf(q), j, k)' /\ BacksHold(q, k)'
        BY <4>1, <1>4, <1>5
      <4> QED BY <4>1, <4>2, <1>1 DEF LapAt
    <3>2. CASE /\ FrontHolds(q, StepAfter(k))
               /\ \E b \in Backs : \E j \in DOMAIN BackChain[b] :
                    /\ b = back[q] /\ n = BackChain[b][j] /\ Filled(q, BackChain[b], j, k)
                    /\ \A c \in Backs : c # b => Filled(q, BackChain[c], 1, 0)
      <4>1. PICK b \in Backs : \E j \in DOMAIN BackChain[b] :
                    /\ b = back[q] /\ n = BackChain[b][j] /\ Filled(q, BackChain[b], j, k)
                    /\ \A c \in Backs : c # b => Filled(q, BackChain[c], 1, 0)
        BY <3>2
      <4>2. PICK j \in DOMAIN BackChain[b] :
                    /\ b = back[q] /\ n = BackChain[b][j] /\ Filled(q, BackChain[b], j, k)
                    /\ \A c \in Backs : c # b => Filled(q, BackChain[c], 1, 0)
        BY <4>1
      <4>3. PICK h : h = StepAfter(k)
        OBVIOUS
      <4>4. FrontHolds(q, StepAfter(k))'
        <5>1. Filled(q, FrontOf(q), 1, h)
          BY <3>2, <4>3 DEF FrontHolds
        <5>2. Filled(q, FrontOf(q), 1, h)'
          BY <5>1, <1>5
        <5> QED BY <5>2, <4>3 DEF FrontHolds
      <4>5. Filled(q, BackChain[b], j, k)'
        BY <4>2, <1>6
      <4>6. ASSUME NEW c \in Backs, c # b PROVE Filled(q, BackChain[c], 1, 0)'
        BY <4>2, <4>6, <1>6
      <4> QED BY <4>2, <4>4, <4>5, <4>6 DEF LapAt
    <3> QED BY <2>2, <3>1, <3>2 DEF LapAt
  <2> QED BY <1>7, <2>1, <2>3 DEF CarrierOK
<1>8. CASE m.type \notin DataTypes
  <2>1. LapKept(q)
    BY <1>8 DEF CarrierOK
  <2>2. PICK h : h = StepAfter(0)
    OBVIOUS
  <2>3. Filled(q, FrontOf(q), 1, h)' /\ BacksHold(q, 0)'
    BY <2>1, <2>2, <1>4, <1>5 DEF LapKept, FrontHolds
  <2>4. LapKept(q)'
    BY <2>2, <2>3 DEF LapKept, FrontHolds
  <2> QED BY <1>8, <2>4 DEF CarrierOK
<1> QED BY <1>7, <1>8

LEMMA CachesStay ==
    ASSUME Types, Contract, ChanTypes', NEW away \in [Links -> {0, 1}], NEW p, NEW out,
           Moves(away, p, out), NEW q \in Reqs, NotSent(out, Carriers(q)), CachesOK(q),
           front[q] # None, front'[q] = front[q], back'[q] = back[q],
           \A x \in Nodes : kv'[x][q] = kv[x][q]
    PROVE  CachesOK(q)'
<1>1. Once(Carriers(q))'
  BY OnceStays DEF CachesOK, Types
<1>2. ASSUME NEW l \in Links, NEW i \in Nat, At(l, i, Carriers(q))'
      PROVE  CarrierOK(chan[l][i], l[2])'
  <2>1. i + away[l] \in Nat /\ At(l, i + away[l], Carriers(q))
    BY <1>2, AtStays DEF Types
  <2>2. PICK m : m = chan[l][i + away[l]]
    OBVIOUS
  <2>3. m.req = q /\ CarrierOK(m, l[2])
    BY <2>1, <2>2 DEF CachesOK, Carriers, Of, At
  <2>4. PICK y : y = chan'[l][i]
    OBVIOUS
  <2>5. y = m
    <3>1. i \in DOMAIN chan'[l] /\ i \in Nat
      BY <1>2 DEF At
    <3>2. \/ chan'[l][i] = chan[l][i + away[l]]
          \/ i + away[l] = Len(chan[l]) + 1
      BY <3>1 DEF Moves
    <3>3. i + away[l] <= Len(chan[l]) /\ Len(chan[l]) \in Nat
      BY <2>1, AtFacts DEF Contract
    <3> QED BY <2>1, <2>2, <2>4, <3>2, <3>3
  <2>6. CarrierOK(y, l[2])'
    BY <2>3, <2>5, CarrierStays
  <2> QED BY <2>4, <2>6 DEF CarrierOK
<1> QED BY <1>1, <1>2 DEF CachesOK

(* What carries the step was read, and at most one message carries it on.  *)
LEMMA CachesPass ==
    ASSUME Types, ChanTypes', NEW away \in [Links -> {0, 1}], NEW p, NEW out,
           Moves(away, p, out), NEW q \in Reqs, Spent(away, Carriers(q)),
           \A to, other \in DOMAIN out :
               out[to][1] \in Carriers(q) /\ out[other][1] \in Carriers(q) => to = other,
           \A to \in DOMAIN out : \E x \in Messages :
               out[to] = <<x>> /\ (x \in Carriers(q) => CarrierOK(x, to)')
    PROVE  CachesOK(q)'
<1>1. Once(Carriers(q))'
  BY OnceSpent DEF Types
<1>2. ASSUME NEW l \in Links, NEW i \in Nat, At(l, i, Carriers(q))'
      PROVE  CarrierOK(chan[l][i], l[2])'
  <2>1. i \in Nat \ {0} /\ i \in DOMAIN chan'[l] /\ chan'[l][i] \in Carriers(q)
    <3>1. chan'[l] \in Seq(Messages)
      BY DEF ChanTypes
    <3> QED BY <1>2, <3>1, LenProperties DEF At
  <2>2. ~At(l, i + away[l], Carriers(q))
    BY <2>1 DEF Spent
  <2>3. \/ i + away[l] \in DOMAIN chan[l] /\ chan'[l][i] = chan[l][i + away[l]]
        \/ l[2] \in DOMAIN out /\ chan'[l][i] = out[l[2]][1]
    BY <2>1 DEF Moves
  <2>4. l[2] \in DOMAIN out /\ chan'[l][i] = out[l[2]][1]
    BY <2>1, <2>2, <2>3 DEF At
  <2>5. PICK x \in Messages : out[l[2]] = <<x>> /\ (x \in Carriers(q) => CarrierOK(x, l[2])')
    BY <2>4
  <2>6. x = chan'[l][i]
    BY <2>4, <2>5
  <2>7. CarrierOK(x, l[2])'
    BY <2>1, <2>5, <2>6
  <2> QED BY <2>6, <2>7 DEF CarrierOK
<1> QED BY <1>1, <1>2 DEF CachesOK

(* Node n computed the step k of r.                                        *)
Computed(n, r) == kv' = [kv EXCEPT ![n][r] = StepAfter(@)]

LEMMA FillNext ==
    ASSUME CacheTypes, NEW r \in Reqs, NEW n, Computed(n, r), NEW S, NEW chain, ChainOf(chain, S),
           NEW j \in DOMAIN chain, n = chain[j], NEW k, Filled(r, chain, j, k)
    PROVE  Filled(r, chain, j + 1, k)'
<1>1. j \in Nat /\ DOMAIN chain \subseteq Nat /\ n \in Nodes
  BY DEF ChainOf
<1>2. ASSUME NEW i \in DOMAIN chain
      PROVE  kv'[chain[i]][r] = IF i < j + 1 THEN StepAfter(k) ELSE k
  <2>1. chain[i] \in Nodes /\ i \in Nat /\ (i = j \/ chain[i] # n)
    BY <1>1 DEF ChainOf
  <2>2. kv[chain[i]][r] = IF i < j THEN StepAfter(k) ELSE k
    BY DEF Filled
  <2>3. CASE i = j
    <3>1. kv'[chain[i]][r] = StepAfter(kv[chain[i]][r])
      BY <2>1, <2>3 DEF CacheTypes, Computed
    <3> QED BY <1>1, <2>2, <2>3, <3>1
  <2>4. CASE i # j
    <3>1. kv'[chain[i]][r] = kv[chain[i]][r]
      BY <2>1, <2>4 DEF CacheTypes, Computed
    <3> QED BY <1>1, <2>1, <2>2, <2>4, <3>1
  <2> QED BY <2>3, <2>4
<1> QED BY <1>2 DEF Filled

LEMMA FillStays ==
    ASSUME CacheTypes, NEW r \in Reqs, NEW n, Computed(n, r), NEW S, NEW chain, ChainOf(chain, S),
           \A i \in DOMAIN chain : chain[i] # n, NEW j, NEW k, Filled(r, chain, j, k)
    PROVE  Filled(r, chain, j, k)'
<1>1. ASSUME NEW i \in DOMAIN chain PROVE kv'[chain[i]][r] = kv[chain[i]][r]
  <2>1. chain[i] \in Nodes /\ chain[i] # n
    BY DEF ChainOf
  <2> QED BY <2>1 DEF CacheTypes, Computed
<1> QED BY <1>1 DEF Filled

(* A segment whose last node has computed holds the next step.             *)
LEMMA FillAll ==
    ASSUME NEW r, NEW S, NEW chain, ChainOf(chain, S), NEW k, NEW h, h = StepAfter(k),
           NEW j, j = Len(chain), Filled(r, chain, j + 1, k)'
    PROVE  Filled(r, chain, 1, h)'
<1>1. ASSUME NEW i \in DOMAIN chain PROVE i < j + 1 /\ ~(i < 1)
  BY DEF ChainOf
<1> QED BY <1>1 DEF Filled

(* The front segment computed the step: the back segments did not.         *)
LEMMA FrontComputed ==
    ASSUME Types, NEW r \in Reqs, front[r] # None, back'[r] = back[r],
           NEW j \in DOMAIN FrontOf(r), NEW n, n = FrontOf(r)[j], Computed(n, r),
           NEW k, Filled(r, FrontOf(r), j, k), BacksHold(r, k), FrontOf(r)' = FrontOf(r)
    PROVE  Filled(r, FrontOf(r), j + 1, k)' /\ BacksHold(r, k)'
<1>1. front[r] \in Fronts /\ FrontsOf(front[r])
  BY TailOfFront DEF Types
<1>2. PICK chain : chain = FrontOf(r)
  OBVIOUS
<1>3. ChainOf(chain, FrontNodes) /\ j \in DOMAIN chain
  BY <1>1, <1>2 DEF FrontsOf, FrontOf
<1>4. Filled(r, chain, j + 1, k)'
  BY <1>2, <1>3, FillNext DEF Types
<1>5. Filled(r, FrontOf(r), j + 1, k)'
  BY <1>2, <1>4 DEF Filled
<1>6. ASSUME NEW b \in Backs, NEW h, Filled(r, BackChain[b], 1, h)
      PROVE  Filled(r, BackChain[b], 1, h)'
  <2>1. ChainOf(BackChain[b], Nodes \ FrontNodes)
    BY Chains DEF BacksOf
  <2>2. \A i \in DOMAIN BackChain[b] : BackChain[b][i] # n
    BY <1>1, ChainsApart DEF FrontOf
  <2> QED BY <1>6, <2>1, <2>2, FillStays DEF Types
<1>7. BacksHold(r, k)'
  <2>1. ASSUME NEW b \in Backs PROVE Filled(r, BackChain[b], 1, IF b = back[r] THEN k ELSE 0)'
    <3>1. PICK h : h = IF b = back[r] THEN k ELSE 0
      OBVIOUS
    <3>2. Filled(r, BackChain[b], 1, h)
      BY <3>1 DEF BacksHold
    <3>3. Filled(r, BackChain[b], 1, h)'
      BY <3>2, <1>6
    <3> QED BY <3>1, <3>3 DEF Filled
  <2> QED BY <2>1 DEF BacksHold
<1> QED BY <1>5, <1>7

(* And the other way round.                                                *)
LEMMA BackComputed ==
    ASSUME Types, NEW r \in Reqs, front[r] # None, NEW b \in Backs,
           NEW j \in DOMAIN BackChain[b], NEW n, n = BackChain[b][j], Computed(n, r),
           NEW k, Filled(r, BackChain[b], j, k), NEW h, Filled(r, FrontOf(r), 1, h),
           \A c \in Backs : c # b => Filled(r, BackChain[c], 1, 0), FrontOf(r)' = FrontOf(r)
    PROVE  /\ Filled(r, BackChain[b], j + 1, k)' /\ Filled(r, FrontOf(r), 1, h)'
           /\ \A c \in Backs : c # b => Filled(r, BackChain[c], 1, 0)'
<1>1. front[r] \in Fronts /\ FrontsOf(front[r])
  BY TailOfFront DEF Types
<1>2. ASSUME NEW c \in Backs PROVE ChainOf(BackChain[c], Nodes \ FrontNodes)
  BY Chains DEF BacksOf
<1>3. Filled(r, BackChain[b], j + 1, k)'
  BY <1>2, FillNext DEF Types
<1>4. PICK chain : chain = FrontOf(r)
  OBVIOUS
<1>5. ChainOf(chain, FrontNodes)
  BY <1>1, <1>4 DEF FrontsOf, FrontOf
<1>6. \A i \in DOMAIN chain : chain[i] # n
  BY <1>1, <1>4, ChainsApart DEF FrontOf
<1>7. Filled(r, chain, 1, h)'
  BY <1>4, <1>5, <1>6, FillStays DEF Types
<1>8. Filled(r, FrontOf(r), 1, h)'
  BY <1>4, <1>7 DEF Filled
<1>9. ASSUME NEW c \in Backs, c # b PROVE Filled(r, BackChain[c], 1, 0)'
  <2>1. Filled(r, BackChain[c], 1, 0) /\ ChainOf(BackChain[c], Nodes \ FrontNodes)
    BY <1>2, <1>9
  <2>2. \A i \in DOMAIN BackChain[c] : BackChain[c][i] # n
    BY <1>9, ChainsApart
  <2> QED BY <2>1, <2>2, FillStays DEF Types
<1> QED BY <1>3, <1>8, <1>9

(* What is sent carries the step, or the next one, to where it belongs.    *)
CarriesOn(r, out) ==
    /\ \A to, other \in DOMAIN out :
         out[to][1] \in Carriers(r) /\ out[other][1] \in Carriers(r) => to = other
    /\ \A to \in DOMAIN out : \E x \in Messages :
         out[to] = <<x>> /\ (x \in Carriers(r) => CarrierOK(x, to)')

LEMMA OnlyCarries ==
    ASSUME NEW r, NEW x \in Messages, NEW to, to = x.to, x \in Carriers(r) => CarrierOK(x, to)'
    PROVE  CarriesOn(r, Only(x))
<1>1. DOMAIN Only(x) = {to} /\ Only(x)[to] = <<x>>
  BY OnlyOne
<1>2. \A a \in DOMAIN Only(x) : \E y \in Messages :
        Only(x)[a] = <<y>> /\ (y \in Carriers(r) => CarrierOK(y, a)')
  BY <1>1
<1> QED BY <1>1, <1>2 DEF CarriesOn

LEMMA NothingCarries == \A r : CarriesOn(r, Nothing)
BY DEF CarriesOn, Nothing

LEMMA FrontCarries ==
    ASSUME Types, Contract, UNCHANGED records, NEW r \in Reqs, front[r] # None, rebinds[r] = 0,
           NEW ph \in {"prefill", "decode"}, NEW k \in 0..MaxSteps, ph = "prefill" => k = 0,
           NEW n, LapAt(r, n, k), Computed(n, r), NEW s, NEW out, FrontRan(n, r, ph, k, s, out)
    PROVE  CarriesOn(r, out)
<1>1. /\ front[r] \in Fronts /\ FrontsOf(front[r])
      /\ Head(FrontOf(r)) \in Nodes /\ Last(FrontOf(r)) \in Nodes
  BY TailOfFront DEF Types
<1>2. PICK chain : chain = FrontOf(r)
  OBVIOUS
<1>3. ChainOf(chain, FrontNodes)
  BY <1>1, <1>2 DEF FrontsOf, FrontOf
<1>4. FrontOf(r)' = chain /\ back'[r] = back[r] /\ front'[r] = front[r] /\ chain = FrontChain[front[r]]
  BY <1>2 DEF records, FrontOf
<1>5. PICK g \in DOMAIN chain : n = chain[g]
  BY <1>2, <1>3 DEF FrontRan, ChainOf
<1>6. PICK j \in DOMAIN chain : n = chain[j] /\ Filled(r, chain, j, k) /\ BacksHold(r, k)
  <2>1. \A b \in Backs : \A i \in DOMAIN BackChain[b] : n # BackChain[b][i]
    BY <1>1, <1>4, <1>5, ChainsApart
  <2> QED BY <1>2, <2>1 DEF LapAt
<1>7. Filled(r, chain, j + 1, k)' /\ BacksHold(r, k)'
  <2>1. Filled(r, FrontOf(r), j, k) /\ j \in DOMAIN FrontOf(r) /\ n = FrontOf(r)[j]
    BY <1>2, <1>6
  <2>2. Filled(r, FrontOf(r), j + 1, k)' /\ BacksHold(r, k)'
    BY <1>2, <1>4, <1>6, <2>1, FrontComputed
  <2> QED BY <1>4, <2>2 DEF Filled
<1>8. CASE \E i \in DOMAIN FrontOf(r) : \E lt \in Nodes \cup {None} :
             /\ i < Len(FrontOf(r)) /\ n = FrontOf(r)[i]
             /\ out = Only(Data("hop", FrontOf(r)[i + 1], r, ph, k, lt))
  <2>1. PICK i \in DOMAIN chain, lt \in Nodes \cup {None} :
             i < Len(chain) /\ n = chain[i] /\ out = Only(Data("hop", chain[i + 1], r, ph, k, lt))
    BY <1>2, <1>8
  <2>2. i = j /\ i + 1 \in DOMAIN chain /\ chain[i + 1] \in Nodes
    BY <1>3, <1>6, <2>1 DEF ChainOf
  <2>3. PICK x : x = Data("hop", chain[i + 1], r, ph, k, lt)
    OBVIOUS
  <2>4. x \in Messages /\ x.type = "hop" /\ x.to = chain[i + 1] /\ x.req = r /\ x.step = k
    BY <2>2, <2>3, DataMessage DEF DataTypes
  <2>5. LapAt(r, chain[i + 1], k)'
    BY <1>4, <1>7, <2>2 DEF LapAt
  <2>6. CarrierOK(x, x.to)'
    BY <2>4, <2>5 DEF CarrierOK, DataTypes
  <2> QED BY <2>1, <2>3, <2>4, <2>6, OnlyCarries
<1>9. CASE n = Last(FrontOf(r))
  <2>1. j = Len(chain)
    <3>1. Last(chain) = chain[Len(chain)] /\ Len(chain) \in DOMAIN chain
      BY <1>3 DEF ChainOf
    <3>2. chain[j] = chain[Len(chain)]
      BY <1>2, <1>6, <1>9, <3>1
    <3> QED BY <1>3, <3>1, <3>2 DEF ChainOf
  <2>2. PICK h : h = StepAfter(k)
    OBVIOUS
  <2>3. Filled(r, chain, 1, h)'
    BY <1>3, <1>7, <2>1, <2>2, FillAll
  <2>4. FrontHolds(r, StepAfter(k))'
    BY <1>4, <2>2, <2>3 DEF FrontHolds, Filled
  <2>5. CASE \E b \in bound[r] :
               out = Only(Data("seg_in", Head(BackChain[b]), r, ph, k, Head(FrontOf(r))))
    <3>1. PICK b \in bound[r] :
               out = Only(Data("seg_in", Head(BackChain[b]), r, ph, k, Head(FrontOf(r))))
      BY <2>5
    <3>2. b = back[r] /\ b \in Backs
      BY <3>1 DEF Types, RecordTypes, Contract, RecordsOK, RecordOK
    <3>3. /\ Head(BackChain[b]) \in Nodes /\ Head(BackChain[b]) = BackChain[b][1]
          /\ 1 \in DOMAIN BackChain[b]
      BY <3>2, Chains DEF BacksOf, ChainOf
    <3>4. PICK x : x = Data("seg_in", Head(BackChain[b]), r, ph, k, Head(FrontOf(r)))
      OBVIOUS
    <3>5. x \in Messages /\ x.type = "seg_in" /\ x.to = Head(BackChain[b]) /\ x.req = r /\ x.step = k
      BY <1>1, <3>3, <3>4, DataMessage DEF DataTypes
    <3>6. Filled(r, BackChain[b], 1, k)'
      <4>1. Filled(r, BackChain[b], 1, IF b = back[r] THEN k ELSE 0)'
        BY <1>7, <3>2 DEF BacksHold
      <4> QED BY <1>4, <3>2, <4>1 DEF Filled
    <3>7. ASSUME NEW c \in Backs, c # b PROVE Filled(r, BackChain[c], 1, 0)'
      <4>1. Filled(r, BackChain[c], 1, IF c = back[r] THEN k ELSE 0)'
        BY <1>7 DEF BacksHold
      <4> QED BY <1>4, <3>2, <3>7, <4>1 DEF Filled
    <3>8. LapAt(r, Head(BackChain[b]), k)'
      BY <1>4, <2>4, <3>2, <3>3, <3>6, <3>7 DEF LapAt
    <3>9. CarrierOK(x, x.to)'
      BY <3>5, <3>8 DEF CarrierOK, DataTypes
    <3> QED BY <3>1, <3>4, <3>5, <3>9, OnlyCarries
  <2>6. CASE Dynamic(r) /\ ph = "prefill" /\ s.cached_l0 /\ out = Only(Control("classified", Coord, r))
    <3>1. PICK x : x = Control("classified", Coord, r)
      OBVIOUS
    <3>2. x \in Messages /\ x.type = "classified" /\ x.to = Coord /\ x.req = r
      BY <3>1, ControlMessage DEF Processes
    <3>3. k = 0
      BY <2>6
    <3>4. FrontHolds(r, StepAfter(0))' /\ BacksHold(r, 0)'
      BY <1>7, <2>4, <3>3 DEF FrontHolds, BacksHold, Filled
    <3>5. LapKept(r)'
      BY <3>4 DEF LapKept
    <3>6. CarrierOK(x, x.to)'
      BY <3>2, <3>5 DEF CarrierOK, DataTypes
    <3> QED BY <2>6, <3>1, <3>2, <3>6, OnlyCarries
  <2>7. CASE out = Nothing
    BY <2>7, NothingCarries
  <2>8. \/ \E b \in bound[r] :
             out = Only(Data("seg_in", Head(BackChain[b]), r, ph, k, Head(FrontOf(r))))
        \/ Dynamic(r) /\ ph = "prefill" /\ s.cached_l0 /\ out = Only(Control("classified", Coord, r))
        \/ out = Nothing
        \/ \E i \in DOMAIN FrontOf(r) : \E lt \in Nodes \cup {None} :
             /\ i < Len(FrontOf(r)) /\ n = FrontOf(r)[i]
             /\ out = Only(Data("hop", FrontOf(r)[i + 1], r, ph, k, lt))
    BY DEF FrontRan
  <2> QED BY <1>8, <2>5, <2>6, <2>7, <2>8
<1> QED BY <1>8, <1>9 DEF FrontRan

LEMMA BackCarries ==
    ASSUME Types, Contract, UNCHANGED records, NEW r \in Reqs, front[r] # None, rebinds[r] = 0,
           NEW ph \in {"prefill", "decode"}, NEW k \in 0..MaxSteps,
           NEW n, LapAt(r, n, k), Computed(n, r), NEW out, BackRan(n, r, ph, k, out)
    PROVE  CarriesOn(r, out)
<1>1. /\ front[r] \in Fronts /\ FrontsOf(front[r])
      /\ Head(FrontOf(r)) \in Nodes /\ Head(FrontOf(r)) = FrontOf(r)[1] /\ 1 \in DOMAIN FrontOf(r)
  BY TailOfFront DEF Types, FrontsOf, FrontOf, ChainOf
<1>2. PICK head \in Nodes : head = Head(FrontOf(r))
  BY <1>1
<1>3. FrontOf(r)' = FrontOf(r) /\ back'[r] = back[r]
  BY DEF records, FrontOf
<1>4. PICK b \in bound[r] :
        \/ \E j \in DOMAIN BackChain[b] :
             /\ j < Len(BackChain[b]) /\ n = BackChain[b][j]
             /\ out = Only(Data("hop", BackChain[b][j + 1], r, ph, k, head))
        \/ /\ n = Last(BackChain[b])
           /\ \E eos \in BOOLEAN : out = Only(TokenReport(r, ph, eos)) \/ Looped(out, r, ph, k, eos)
  BY <1>2 DEF BackRan
<1>5. b = back[r] /\ b \in Backs
  BY <1>4 DEF Types, RecordTypes, Contract, RecordsOK, RecordOK
<1>6. ChainOf(BackChain[b], Nodes \ FrontNodes)
  BY <1>5, Chains DEF BacksOf
<1>7. PICK g \in DOMAIN BackChain[b] : n = BackChain[b][g]
  BY <1>4, <1>6 DEF ChainOf
<1>8. PICK h : h = StepAfter(k)
  OBVIOUS
<1>9. PICK j \in DOMAIN BackChain[b] :
        /\ n = BackChain[b][j] /\ Filled(r, BackChain[b], j, k) /\ Filled(r, FrontOf(r), 1, h)
        /\ \A c \in Backs : c # b => Filled(r, BackChain[c], 1, 0)
  <2>1. \A i \in DOMAIN FrontOf(r) : n # FrontOf(r)[i]
    BY <1>1, <1>5, <1>7, ChainsApart DEF FrontOf
  <2>2. /\ FrontHolds(r, StepAfter(k))
        /\ \E d \in Backs : \E j \in DOMAIN BackChain[d] :
             /\ d = back[r] /\ n = BackChain[d][j] /\ Filled(r, BackChain[d], j, k)
             /\ \A c \in Backs : c # d => Filled(r, BackChain[c], 1, 0)
    BY <2>1 DEF LapAt
  <2> QED BY <1>5, <1>8, <2>2 DEF FrontHolds
<1>10. /\ Filled(r, BackChain[b], j + 1, k)' /\ Filled(r, FrontOf(r), 1, h)'
       /\ \A c \in Backs : c # b => Filled(r, BackChain[c], 1, 0)'
  BY <1>3, <1>5, <1>9, BackComputed
<1>11. CASE \E i \in DOMAIN BackChain[b] :
             /\ i < Len(BackChain[b]) /\ n = BackChain[b][i]
             /\ out = Only(Data("hop", BackChain[b][i + 1], r, ph, k, head))
  <2>1. PICK i \in DOMAIN BackChain[b] :
             /\ i < Len(BackChain[b]) /\ n = BackChain[b][i]
             /\ out = Only(Data("hop", BackChain[b][i + 1], r, ph, k, head))
    BY <1>11
  <2>2. i = j /\ i + 1 \in DOMAIN BackChain[b] /\ BackChain[b][i + 1] \in Nodes
    BY <1>6, <1>9, <2>1 DEF ChainOf
  <2>3. PICK x : x = Data("hop", BackChain[b][i + 1], r, ph, k, head)
    OBVIOUS
  <2>4. x \in Messages /\ x.type = "hop" /\ x.to = BackChain[b][i + 1] /\ x.req = r /\ x.step = k
    BY <2>2, <2>3, DataMessage DEF DataTypes
  <2>5. FrontHolds(r, StepAfter(k))'
    BY <1>8, <1>10 DEF FrontHolds, Filled
  <2>6. LapAt(r, BackChain[b][i + 1], k)'
    BY <1>3, <1>5, <1>10, <2>2, <2>5 DEF LapAt
  <2>7. CarrierOK(x, x.to)'
    BY <2>4, <2>6 DEF CarrierOK, DataTypes
  <2> QED BY <2>1, <2>3, <2>4, <2>7, OnlyCarries
<1>12. ASSUME NEW x, NEW eos \in BOOLEAN, x = TokenReport(r, ph, eos)
       PROVE  x \in Messages /\ x \notin Carriers(r)
  <2>1. x \in Messages /\ x.type = "token"
    BY <1>12, BindAndToken
  <2> QED BY <2>1 DEF Carriers, Of, DataTypes
<1>13. ASSUME NEW eos \in BOOLEAN, out = Only(TokenReport(r, ph, eos))
       PROVE  CarriesOn(r, out)
  <2>1. PICK x : x = TokenReport(r, ph, eos)
    OBVIOUS
  <2>2. x \in Messages /\ x \notin Carriers(r)
    BY <2>1, <1>12
  <2> QED BY <1>13, <2>1, <2>2, OnlyCarries
<1>14. ASSUME NEW eos \in BOOLEAN, n = Last(BackChain[b]), Looped(out, r, ph, k, eos)
       PROVE  CarriesOn(r, out)
  <2>1. PICK x : x = TokenReport(r, ph, eos)
    OBVIOUS
  <2>2. PICK y : y = Data("loop", head, r, "decode", h, None)
    OBVIOUS
  <2>3. DOMAIN out = {Coord, head} /\ out[Coord] = <<x>> /\ out[head] = <<y>>
    BY <1>2, <1>8, <1>14, <2>1, <2>2 DEF Looped
  <2>4. x \in Messages /\ x \notin Carriers(r)
    BY <2>1, <1>12
  <2>5. h \in 0..MaxSteps
    BY <1>8, StepsAfter
  <2>6. y \in Messages /\ y.type = "loop" /\ y.req = r /\ y.step = h
    BY <2>2, <2>5, DataMessage DEF DataTypes
  <2>7. j = Len(BackChain[b])
    <3>1. Last(BackChain[b]) = BackChain[b][Len(BackChain[b])] /\ Len(BackChain[b]) \in DOMAIN BackChain[b]
      BY <1>6 DEF ChainOf
    <3>2. BackChain[b][j] = BackChain[b][Len(BackChain[b])]
      BY <1>9, <1>14, <3>1
    <3> QED BY <1>6, <3>1, <3>2 DEF ChainOf
  <2>8. Filled(r, BackChain[b], 1, h)'
    BY <1>6, <1>8, <1>10, <2>7, FillAll
  <2>9. BacksHold(r, h)'
    <3>1. ASSUME NEW c \in Backs PROVE Filled(r, BackChain[c], 1, IF c = back[r] THEN h ELSE 0)'
      <4>1. CASE c = b
        BY <4>1, <1>3, <1>5, <2>8 DEF Filled
      <4>2. CASE c # b
        <5>1. Filled(r, BackChain[c], 1, 0)'
          BY <4>2, <1>10
        <5> QED BY <4>2, <5>1, <1>3, <1>5 DEF Filled
      <4> QED BY <4>1, <4>2
    <3> QED BY <3>1 DEF BacksHold
  <2>10. LapAt(r, head, h)'
    <3>1. head = FrontOf(r)'[1] /\ 1 \in DOMAIN FrontOf(r)' /\ Filled(r, FrontOf(r), 1, h)'
      BY <1>1, <1>2, <1>3, <1>10
    <3> QED BY <3>1, <2>9 DEF LapAt
  <2>11. CarrierOK(y, head)'
    BY <2>6, <2>10 DEF CarrierOK, DataTypes
  <2>12. <<x>>[1] = x /\ <<y>>[1] = y
    OBVIOUS
  <2> QED BY <2>3, <2>4, <2>6, <2>11, <2>12 DEF CarriesOn
<1> QED BY <1>4, <1>11, <1>13, <1>14

(* The requests a step is not about.                                       *)
LEMMA TurnNotSent ==
    ASSUME NEW n, NEW m, NEW s, NEW out, Handled(n, m, s, out), NEW q, q # m.req
    PROVE  NotSent(out, Carriers(q))
<1>1. ASSUME NEW to \in DOMAIN out PROVE out[to][1] \notin Carriers(q)
  <2>1. PICK x \in Messages : out[to] = <<x>> /\ x.req = m.req
    BY DEF Handled
  <2>2. <<x>>[1] = x
    OBVIOUS
  <2> QED BY <2>1, <2>2 DEF Carriers, Of
<1> QED BY <1>1 DEF NotSent

LEMMA TurnCaches ==
    ASSUME Types, Contract, AllCachesOK, UNCHANGED records, NEW l \in Links, l[2] \in Nodes, NodeStep(l)
    PROVE  AllCachesOK'
<1> DEFINE n == l[2]
<1>1. chan[l] # <<>>
  BY NodeSteps
<1>2. PICK m \in Messages : m = Head(chan[l]) /\ MessageOK(l, m)
  BY <1>1, ReadFacts DEF Contract
<1>3. PICK s, out : Turn(l, m, s, out)
  BY <1>2, NodeSteps
<1>4. Handled(n, m, s, out) /\ Answer(l, out)
  BY <1>3 DEF Turn, Answered
<1>5. ChanTypes' /\ Moves(Past(l), n, out) /\ Past(l) \in [Links -> {0, 1}]
  BY <1>1, <1>4, HandledMoves DEF Types
<1>6. m.req \in Reqs /\ front[m.req] # None
  BY <1>2, MessageFields DEF MessageOK
<1>7. \A q \in Reqs : q # m.req => \A x \in Nodes : kv'[x][q] = kv[x][q]
  <2>1. kv \in [Nodes -> [Reqs -> 0..MaxSteps]]
    BY DEF Types, CacheTypes
  <2>2. \/ kv' = [kv EXCEPT ![n][m.req] = StepAfter(@)]
        \/ kv' = kv
        \/ kv' = [kv EXCEPT ![n][m.req] = 0]
    BY <1>3 DEF Turn
  <2> QED BY <2>1, <2>2
<1>8. \A q \in Reqs : /\ front'[q] = front[q] /\ back'[q] = back[q] /\ finished'[q] = finished[q]
                      /\ rebinds'[q] = rebinds[q]
  BY DEF records
<1>9. ASSUME NEW q \in Reqs, front'[q] = None PROVE \A x \in Nodes : kv'[x][q] = 0
  BY <1>6, <1>7, <1>8, <1>9 DEF AllCachesOK
<1>10. ASSUME NEW q \in Reqs, front[q] # None, ~finished[q], rebinds[q] = 0
       PROVE  CachesOK(q)'
  <2>1. CachesOK(q)
    BY <1>10 DEF AllCachesOK, Live
  <2>2. CASE q # m.req
    <3>1. NotSent(out, Carriers(q))
      BY <2>2, <1>4, TurnNotSent
    <3>2. \A x \in Nodes : kv'[x][q] = kv[x][q]
      BY <2>2, <1>7
    <3> QED BY <1>5, <1>8, <1>10, <2>1, <3>1, <3>2, CachesStay
  <2>3. CASE q = m.req /\ m \in Carriers(q)
    <3>1. Spent(Past(l), Carriers(q))
      BY <2>1, <2>3, <1>1, <1>2, ReadSpent DEF Types, CachesOK
    <3>2. CarrierOK(m, n)
      <4>1. 1 \in DOMAIN chan[l] /\ m = chan[l][1]
        <5>1. chan[l] \in Seq(Messages)
          BY DEF Types, ChanTypes
        <5> QED BY <5>1, <1>1, <1>2, EmptySeq, LenProperties
      <4>2. At(l, 1, Carriers(q))
        BY <2>3, <4>1 DEF At
      <4> QED BY <2>1, <4>1, <4>2 DEF CachesOK
    <3>3. CASE m.type \in DataTypes
      <4>1. PICK k \in 0..MaxSteps : k = m.step
        BY <3>3, MessageFields
      <4>2. PICK ph \in {"prefill", "decode"} : ph = m.phase
        BY <3>3, MessageFields
      <4>3. LapAt(q, n, k) /\ (ph = "prefill" => k = 0)
        BY <1>2, <2>3, <3>2, <3>3, <4>1, <4>2 DEF CarrierOK, MessageOK
      <4>4. Computed(n, q)
        BY <1>3, <2>3, <3>3 DEF Turn, Computed, DataTypes
      <4>5. FrontRan(n, q, ph, k, s, out) \/ BackRan(n, q, ph, k, out)
        BY <1>3, <2>3, <3>3, <4>1, <4>2 DEF Turn, Ran, DataTypes
      <4>6. CarriesOn(q, out)
        BY <1>10, <4>3, <4>4, <4>5, FrontCarries, BackCarries
      <4> QED BY <1>5, <3>1, <4>6, CachesPass DEF CarriesOn
    <3>4. CASE m.type = "bind"
      <4>1. kv' = kv /\ out = Only(Data("seg_in", m.target, q, "prefill", 0, Head(FrontOf(q))))
        BY <1>3, <2>3, <3>4 DEF Turn, DataTypes
      <4>2. PICK b \in bound[q] : m.target = Head(BackChain[b])
        BY <1>2, <2>3, <3>4 DEF MessageOK
      <4>3. b = back[q] /\ b \in Backs
        BY <1>10, <4>2 DEF Types, RecordTypes, Contract, RecordsOK, RecordOK
      <4>4. /\ m.target \in Nodes /\ m.target = BackChain[b][1] /\ 1 \in DOMAIN BackChain[b]
        BY <4>2, <4>3, Chains DEF BacksOf, ChainOf
      <4>5. PICK x : x = Data("seg_in", m.target, q, "prefill", 0, Head(FrontOf(q)))
        OBVIOUS
      <4>6. x \in Messages /\ x.type = "seg_in" /\ x.to = m.target /\ x.req = q /\ x.step = 0
        <5>1. Head(FrontOf(q)) \in Nodes /\ 0 \in 0..MaxSteps
          BY <1>10, TailOfFront, NodeConstantsAssumption DEF Types
        <5> QED BY <4>4, <4>5, <5>1, DataMessage DEF DataTypes
      <4>7. LapKept(q)
        BY <2>3, <3>2, <3>4 DEF CarrierOK, DataTypes
      <4>8. \A c \in Backs : Filled(q, BackChain[c], 1, 0)
        <5>1. ASSUME NEW c \in Backs PROVE Filled(q, BackChain[c], 1, 0)
          <6>1. Filled(q, BackChain[c], 1, IF c = back[q] THEN 0 ELSE 0)
            BY <4>7 DEF LapKept, BacksHold
          <6> QED BY <6>1
        <5> QED BY <5>1
      <4>9. LapAt(q, m.target, 0)
        BY <4>3, <4>4, <4>7, <4>8 DEF LapAt, LapKept
      <4>10. CarrierOK(x, x.to)
        BY <4>6, <4>9 DEF CarrierOK, DataTypes
      <4>11. CarrierOK(x, x.to)'
        <5>1. \A y \in Nodes : kv'[y][q] = kv[y][q]
          BY <4>1
        <5> QED BY <1>8, <1>10, <4>6, <4>10, <5>1, CarrierStays
      <4>12. CarriesOn(q, out)
        BY <4>1, <4>5, <4>6, <4>11, OnlyCarries
      <4> QED BY <1>5, <3>1, <4>12, CachesPass DEF CarriesOn
    <3>5. CASE m.type = "classified"
      <4>1. FALSE
        BY <1>3, <3>5 DEF Turn, DataTypes
      <4> QED BY <4>1
    <3> QED BY <2>3, <3>3, <3>4, <3>5 DEF Carriers, Of
  <2>4. CASE q = m.req /\ m \notin Carriers(q)
    <3>1. m.type \in {"drop_kv", "release"}
      BY <1>3, <2>4 DEF Turn, Carriers, Of
    <3>2. FALSE
      BY <1>2, <1>10, <2>4, <3>1 DEF MessageOK
    <3> QED BY <3>2
  <2> QED BY <2>2, <2>3, <2>4
<1> QED BY <1>8, <1>9, <1>10 DEF AllCachesOK, Live

(* The coordinator reads and writes no cache.                              *)
LEMMA ToldCaches ==
    ASSUME Types, Contract, AllCachesOK, ChanTypes', NEW away \in [Links -> {0, 1}], NEW out,
           Moves(away, Coord, out), NEW r \in Reqs, Told(r, out), Others(r), kv' = kv,
           \A q \in Reqs : q # r => rebinds'[q] = rebinds[q],
           front'[r] # None, Live(r)' /\ rebinds'[r] = 0 => CachesOK(r)'
    PROVE  AllCachesOK'
<1>1. ASSUME NEW q \in Reqs, q # r, Live(q)', rebinds'[q] = 0 PROVE CachesOK(q)'
  <2>1. /\ front'[q] = front[q] /\ back'[q] = back[q] /\ finished'[q] = finished[q]
        /\ rebinds'[q] = rebinds[q]
    BY <1>1 DEF Others
  <2>2. front[q] # None /\ CachesOK(q)
    BY <1>1, <2>1 DEF AllCachesOK, Live
  <2>3. NotSent(out, Carriers(q))
    BY <1>1, ToldOnly DEF Carriers
  <2>4. \A x \in Nodes : kv'[x][q] = kv[x][q]
    OBVIOUS
  <2> QED BY <2>1, <2>2, <2>3, <2>4, CachesStay
<1>2. ASSUME NEW q \in Reqs, front'[q] = None PROVE \A x \in Nodes : kv'[x][q] = 0
  <2>1. q # r /\ front[q] = None
    BY <1>2 DEF Others
  <2> QED BY <2>1 DEF AllCachesOK
<1> QED BY <1>1, <1>2 DEF AllCachesOK

(* Nothing new is sent about r.                                            *)
LEMMA SilentCaches ==
    ASSUME Types, Contract, AllCachesOK, ChanTypes', NEW away \in [Links -> {0, 1}], NEW out,
           Moves(away, Coord, out), NEW r \in Reqs, NotSent(out, Carriers(r)), kv' = kv,
           front[r] # None, front'[r] = front[r], back'[r] = back[r], finished'[r] = finished[r],
           rebinds'[r] = rebinds[r]
    PROVE  Live(r)' /\ rebinds'[r] = 0 => CachesOK(r)'
<1> SUFFICES ASSUME Live(r)', rebinds'[r] = 0 PROVE CachesOK(r)'
  OBVIOUS
<1>1. CachesOK(r)
  BY DEF AllCachesOK, Live
<1>2. \A x \in Nodes : kv'[x][r] = kv[x][r]
  OBVIOUS
<1> QED BY <1>1, <1>2, CachesStay

LEMMA StartContract ==
    ASSUME Types, Contract, NEW r \in Reqs, NEW f \in Fronts, Start(r, f)
    PROVE  Types' /\ Contract' /\ (AllCachesOK => AllCachesOK')
<1>1. /\ front[r] = None /\ back[r] = None /\ bound[r] = {} /\ tokens[r] = 0
      /\ rebinds[r] = 0 /\ ~finished[r]
  BY DEF Start, Contract, RecordsOK, RecordOK
<1>2. /\ front' = [front EXCEPT ![r] = f]
      /\ back' = [back EXCEPT ![r] = WiredTo[f]]
      /\ bound' = [bound EXCEPT ![r] = IF WiredTo[f] = None THEN {} ELSE {WiredTo[f]}]
      /\ tokens' = tokens /\ finished' = finished /\ rebinds' = rebinds /\ st' = st /\ kv' = kv
  BY DEF Start, nodevars
<1>3. WiredTo[f] \in Backs \cup {None} /\ f # None /\ MaxTokens \in Nat \ {0} /\ MaxRebinds \in Nat
  BY RingConstantsAssumption
<1>4. RecordTypes'
  BY <1>2, <1>3 DEF Types, RecordTypes
<1>5. /\ front'[r] = f /\ back'[r] = WiredTo[f]
      /\ bound'[r] = IF WiredTo[f] = None THEN {} ELSE {WiredTo[f]}
      /\ \A q \in Reqs : q # r => front'[q] = front[q] /\ back'[q] = back[q] /\ bound'[q] = bound[q]
  BY <1>2 DEF Types, RecordTypes
<1>6. RecordsOK'
  <2>1. ASSUME NEW q \in Reqs PROVE RecordOK(q)'
    <3>1. CASE q = r
      BY <3>1, <1>1, <1>2, <1>3, <1>5 DEF RecordOK, Dynamic
    <3>2. CASE q # r
      <4>1. RecordOK(q)
        BY DEF Contract, RecordsOK
      <4> QED BY <3>2, <4>1, <1>2, <1>5 DEF RecordOK, Dynamic
    <3> QED BY <3>1, <3>2
  <2> QED BY <2>1 DEF RecordsOK
<1>7. Grows
  BY <1>1, <1>2, <1>5 DEF Grows
<1>8. PICK x : x = Data("prefill", Head(FrontChain[f]), r, "prefill", 0, None)
  OBVIOUS
<1>9. PICK out : out = Only(x)
  OBVIOUS
<1>10. Head(FrontChain[f]) \in Nodes /\ 0 \in 0..MaxSteps
  BY Chains, NodeConstantsAssumption DEF FrontsOf, ChainOf
<1>11. /\ x \in Messages /\ x.type = "prefill" /\ x.to = Head(FrontChain[f]) /\ x.req = r
       /\ x.phase = "prefill" /\ x.step = 0
  BY <1>8, <1>10, DataMessage DEF DataTypes
<1>12. DOMAIN out = {x.to} /\ out[x.to] = <<x>>
  BY <1>9, OnlyOne
<1>13. Single(out)
  BY <1>11, <1>12 DEF Single
<1>14. Send(chan, Coord, out)
  BY <1>8, <1>9 DEF Start
<1>15. ChanTypes' /\ Moves(Still, Coord, out) /\ Still \in [Links -> {0, 1}]
  BY <1>13, <1>14, SendMoves DEF Types
<1>16. Sends(Coord, out)
  <2>1. MessageOK(<<Coord, x.to>>, x)'
    BY <1>3, <1>5, <1>11 DEF MessageOK, FrontOf
  <2> QED BY <2>1, <1>11, <1>12 DEF Sends
<1>17. Told(r, out)
  BY <1>1, <1>11, <1>12 DEF Told
<1>18. Binds(r, Still, out)
  BY <1>5 DEF Binds, Dynamic
<1>19. Others(r)
  BY <1>2, <1>5 DEF Others
<1>20. Contract'
  BY <1>2, <1>6, <1>7, <1>15, <1>16, <1>17, <1>18, <1>19, ToldContract
<1>21. StateTypes' /\ CacheTypes'
  BY <1>2 DEF Types, StateTypes, CacheTypes
<1>22. ASSUME AllCachesOK PROVE AllCachesOK'
  <2>1. CachesOK(r)'
    <3>1. Gone(Carriers(r))
      <4>1. ASSUME NEW l \in Links, NEW i \in Nat, At(l, i, Carriers(r)) PROVE FALSE
        <5>1. PICK y \in Messages : y \in Carriers(r) /\ MessageOK(l, y)
          BY <4>1, AtFacts DEF Contract
        <5> QED BY <5>1, <1>1 DEF MessageOK, Carriers, Of
      <4> QED BY <4>1 DEF Gone
    <3>2. Spent(Still, Carriers(r))
      BY <3>1, <1>15, GoneSpent
    <3>3. \A n \in Nodes : kv'[n][r] = 0
      BY <1>1, <1>2, <1>22 DEF AllCachesOK
    <3>4. /\ \A i \in DOMAIN FrontChain[f] : FrontChain[f][i] \in Nodes
          /\ 1 \in DOMAIN FrontChain[f] /\ Head(FrontChain[f]) = FrontChain[f][1]
          /\ \A i \in DOMAIN FrontChain[f] : ~(i < 1)
      BY Chains DEF FrontsOf, ChainOf
    <3>5. ASSUME NEW b \in Backs PROVE \A i \in DOMAIN BackChain[b] : BackChain[b][i] \in Nodes /\ ~(i < 1)
      BY Chains DEF BacksOf, ChainOf
    <3>6. Filled(r, FrontChain[f], 1, 0)'
      BY <3>3, <3>4 DEF Filled
    <3>7. BacksHold(r, 0)'
      BY <3>3, <3>5 DEF BacksHold, Filled
    <3>8. LapAt(r, Head(FrontChain[f]), 0)'
      <4>1. FrontOf(r)' = FrontChain[f]
        BY <1>5 DEF FrontOf
      <4>2. Filled(r, FrontOf(r), 1, 0)'
        BY <3>6, <4>1 DEF Filled
      <4> QED BY <3>4, <3>7, <4>1, <4>2 DEF LapAt
    <3>9. CarrierOK(x, x.to)'
      BY <1>11, <3>8 DEF CarrierOK, DataTypes
    <3>10. CarriesOn(r, out)
      BY <1>9, <1>11, <3>9, OnlyCarries
    <3> QED BY <1>15, <3>2, <3>10, CachesPass DEF CarriesOn
  <2>2. \A q \in Reqs : q # r => rebinds'[q] = rebinds[q]
    BY <1>2
  <2> QED BY <1>2, <1>3, <1>5, <1>15, <1>17, <1>19, <1>22, <2>1, <2>2, ToldCaches
<1> QED BY <1>4, <1>15, <1>20, <1>21, <1>22 DEF Types

(* A `classified` that is read comes before any bind.                      *)
LEMMA ClassifiedFacts ==
    ASSUME Types, Contract, NEW l \in Links, Reads(l, {"classified"}), NEW r, r = Head(chan[l]).req
    PROVE  /\ chan[l] # <<>> /\ r \in Reqs /\ front[r] # None /\ Dynamic(r)
           /\ back[r] = None /\ bound[r] = {} /\ ~finished[r] /\ Kept(r)
           /\ Spent(Past(l), Early(r))
<1>1. chan[l] # <<>> /\ Head(chan[l]).type = "classified"
  BY DEF Reads
<1>2. PICK m \in Messages : m = Head(chan[l]) /\ MessageOK(l, m)
  BY <1>1, ReadFacts DEF Contract
<1>3. r \in Reqs /\ front[r] # None /\ Dynamic(r)
  BY <1>1, <1>2, MessageFields DEF MessageOK
<1>4. 1 \in DOMAIN chan[l] /\ chan[l][1] = m
  <2>1. chan[l] \in Seq(Messages)
    BY DEF Types, ChanTypes
  <2> QED BY <2>1, <1>1, <1>2, EmptySeq, LenProperties
<1>5. m \in Early(r) /\ m \in Of(r, {"classified", "bind"})
  BY <1>1, <1>2 DEF Early, Of
<1>6. ~Gone(Early(r)) /\ ~Gone(Of(r, {"classified", "bind"}))
  BY <1>4, <1>5 DEF Gone, At
<1>7. back[r] = None
  BY <1>3, <1>6 DEF Contract, EarlyOK
<1>8. bound[r] = {} /\ ~finished[r]
  BY <1>3, <1>7 DEF Contract, RecordsOK, RecordOK
<1>9. Kept(r)
  BY <1>3, <1>6 DEF Contract, KeptOK
<1>10. Spent(Past(l), Early(r))
  <2>1. Once(Early(r))
    BY <1>3 DEF Contract, EarlyOK
  <2> QED BY <2>1, <1>1, <1>2, <1>5, ReadSpent DEF Types
<1> QED BY <1>1, <1>3, <1>7, <1>8, <1>9, <1>10

LEMMA BindMessageFacts ==
    ASSUME Types, NEW r \in Reqs, front[r] # None, Dynamic(r), NEW b \in Backs, b \in bound'[r],
           front'[r] = front[r], NEW x, x = BindMessage(r, b)
    PROVE  /\ x \in Messages /\ x.type = "bind" /\ x.to = Last(FrontOf(r)) /\ x.to \in Nodes /\ x.req = r
           /\ MessageOK(<<Coord, x.to>>, x)' /\ x \notin Early(r)
<1>1. Last(FrontOf(r)) \in Nodes
  BY TailOfFront DEF Types
<1>2. Head(BackChain[b]) \in Nodes
  BY Chains DEF BacksOf, ChainOf
<1>3. x = Bind(Last(FrontOf(r)), r, Head(BackChain[b]))
  BY DEF BindMessage, FrontOf
<1>4. /\ x \in Messages /\ x.type = "bind" /\ x.to = Last(FrontOf(r)) /\ x.req = r
      /\ x.target = Head(BackChain[b])
  BY <1>1, <1>2, <1>3, BindAndToken
<1>5. MessageOK(<<Coord, x.to>>, x)'
  BY <1>4 DEF MessageOK, FrontOf, Dynamic, DataTypes
<1>6. x \notin Early(r)
  BY <1>4 DEF Early, Of
<1> QED BY <1>1, <1>4, <1>5, <1>6

LEMMA ClassifiedContract ==
    ASSUME Types, Contract, NEW l \in Links, l[2] = Coord, NEW b \in Backs, OnClassified(l, b)
    PROVE  Types' /\ Contract' /\ (AllCachesOK => AllCachesOK')
<1>1. PICK r : r = Head(chan[l]).req
  OBVIOUS
<1>2. /\ chan[l] # <<>> /\ r \in Reqs /\ front[r] # None /\ Dynamic(r)
      /\ back[r] = None /\ bound[r] = {} /\ ~finished[r] /\ Kept(r)
      /\ Spent(Past(l), Early(r))
  BY <1>1, ClassifiedFacts DEF OnClassified
<1>3. /\ back' = [back EXCEPT ![r] = b] /\ bound' = [bound EXCEPT ![r] = @ \cup {b}]
      /\ front' = front /\ tokens' = tokens /\ finished' = finished /\ rebinds' = rebinds
      /\ st' = st /\ kv' = kv /\ Answer(l, Only(BindMessage(r, b)))
  BY <1>1 DEF OnClassified, BindTo, nodevars
<1>4. RecordTypes'
  BY <1>2, <1>3 DEF Types, RecordTypes
<1>5. /\ back'[r] = b /\ bound'[r] = {b} /\ b # None
      /\ \A q \in Reqs : q # r => back'[q] = back[q] /\ bound'[q] = bound[q]
  BY <1>2, <1>3, RingConstantsAssumption DEF Types, RecordTypes
<1>6. RecordsOK'
  <2>1. ASSUME NEW q \in Reqs PROVE RecordOK(q)'
    <3>0. RecordOK(q)
      BY DEF Contract, RecordsOK
    <3>1. CASE q = r
      BY <3>0, <3>1, <1>2, <1>3, <1>5 DEF RecordOK, Dynamic
    <3>2. CASE q # r
      BY <3>0, <3>2, <1>3, <1>5 DEF RecordOK, Dynamic
    <3> QED BY <3>1, <3>2
  <2> QED BY <2>1 DEF RecordsOK
<1>7. Grows
  BY <1>2, <1>3, <1>5 DEF Grows
<1>8. PICK x : x = BindMessage(r, b)
  OBVIOUS
<1>9. PICK out : out = Only(x)
  OBVIOUS
<1>10. /\ x \in Messages /\ x.type = "bind" /\ x.req = r
       /\ MessageOK(<<Coord, x.to>>, x)' /\ x \notin Early(r)
  <2>1. b \in bound'[r] /\ front'[r] = front[r]
    BY <1>3, <1>5
  <2> QED BY <2>1, <1>2, <1>8, BindMessageFacts
<1>11. DOMAIN out = {x.to} /\ out[x.to] = <<x>>
  BY <1>9, OnlyOne
<1>12. Single(out)
  BY <1>10, <1>11 DEF Single
<1>13. Answer(l, out)
  BY <1>3, <1>8, <1>9
<1>14. ChanTypes' /\ Moves(Past(l), Coord, out) /\ Past(l) \in [Links -> {0, 1}]
  BY <1>2, <1>12, <1>13, AnswerMoves DEF Types
<1>15. Sends(Coord, out)
  BY <1>10, <1>11 DEF Sends
<1>16. Told(r, out)
  BY <1>2, <1>10, <1>11 DEF Told
<1>17. Binds(r, Past(l), out)
  BY <1>2, <1>10, <1>11 DEF Binds, NotSent
<1>18. Others(r)
  BY <1>3, <1>5 DEF Others
<1>19. Contract'
  BY <1>2, <1>3, <1>6, <1>7, <1>14, <1>15, <1>16, <1>17, <1>18, ToldContract
<1>20. StateTypes' /\ CacheTypes'
  BY <1>3 DEF Types, StateTypes, CacheTypes
<1>21. ASSUME AllCachesOK PROVE AllCachesOK'
  <2>1. ASSUME Live(r)', rebinds'[r] = 0 PROVE CachesOK(r)'
    <3>1. CachesOK(r)
      BY <1>2, <1>3, <1>21, <2>1 DEF AllCachesOK, Live
    <3>2. PICK m \in Messages : m = Head(chan[l]) /\ m.req = r /\ m.type = "classified"
      BY <1>1, <1>2, ReadFacts DEF Contract, OnClassified, Reads
    <3>3. m \in Carriers(r)
      BY <3>2 DEF Carriers, Of
    <3>4. Spent(Past(l), Carriers(r))
      BY <1>2, <3>1, <3>2, <3>3, ReadSpent DEF Types, CachesOK
    <3>5. LapKept(r)
      <4>1. 1 \in DOMAIN chan[l] /\ m = chan[l][1]
        <5>1. chan[l] \in Seq(Messages)
          BY DEF Types, ChanTypes
        <5> QED BY <5>1, <1>2, <3>2, EmptySeq, LenProperties
      <4>2. At(l, 1, Carriers(r))
        BY <3>3, <4>1 DEF At
      <4> QED BY <3>1, <3>2, <4>1, <4>2 DEF CachesOK, CarrierOK, DataTypes
    <3>6. LapKept(r)'
      <4>1. FrontHolds(r, StepAfter(0))'
        BY <1>3, <3>5 DEF LapKept, FrontHolds, Filled, FrontOf
      <4>2. BacksHold(r, 0)'
        <5>1. ASSUME NEW c \in Backs PROVE Filled(r, BackChain[c], 1, IF c = back[r] THEN 0 ELSE 0)'
          <6>1. Filled(r, BackChain[c], 1, IF c = back[r] THEN 0 ELSE 0)
            BY <3>5 DEF LapKept, BacksHold
          <6> QED BY <1>3, <6>1 DEF Filled
        <5> QED BY <5>1 DEF BacksHold
      <4> QED BY <4>1, <4>2 DEF LapKept
    <3>7. CarrierOK(x, x.to)'
      BY <1>10, <3>6 DEF CarrierOK, DataTypes
    <3>8. CarriesOn(r, out)
      BY <1>9, <1>10, <3>7, OnlyCarries
    <3> QED BY <1>2, <1>14, <3>4, <3>8, CachesPass DEF CarriesOn
  <2>2. \A q \in Reqs : q # r => rebinds'[q] = rebinds[q]
    BY <1>3
  <2>3. front'[r] # None
    BY <1>2, <1>3
  <2> QED BY <1>2, <1>3, <1>14, <1>16, <1>18, <1>21, <2>1, <2>2, <2>3, ToldCaches
<1> QED BY <1>4, <1>14, <1>19, <1>20, <1>21 DEF Types

(* A token comes from a request that is bound.                             *)
LEMMA TokenFacts ==
    ASSUME Types, Contract, NEW l \in Links, Reads(l, {"token"}), NEW r, r = Head(chan[l]).req
    PROVE  /\ chan[l] # <<>> /\ r \in Reqs /\ front[r] # None /\ front[r] \in Fronts
           /\ back[r] # None /\ back[r] \in Backs /\ back[r] \in bound[r]
<1>1. chan[l] # <<>> /\ Head(chan[l]).type = "token"
  BY DEF Reads
<1>2. PICK m \in Messages : m = Head(chan[l]) /\ MessageOK(l, m)
  BY <1>1, ReadFacts DEF Contract
<1>3. r \in Reqs /\ front[r] # None /\ bound[r] # {}
  BY <1>1, <1>2, MessageFields DEF MessageOK
<1>4. back[r] # None /\ back[r] \in bound[r]
  BY <1>3 DEF Contract, RecordsOK, RecordOK
<1> QED BY <1>1, <1>3, <1>4 DEF Types, RecordTypes

LEMMA LateContract ==
    ASSUME Types, Contract, NEW l \in Links, l[2] = Coord, TokenLate(l)
    PROVE  Types' /\ Contract' /\ (AllCachesOK => AllCachesOK')
<1>1. PICK r : r = Head(chan[l]).req
  OBVIOUS
<1>2. chan[l] # <<>> /\ r \in Reqs /\ front[r] # None /\ back[r] # None
  BY <1>1, TokenFacts DEF TokenLate
<1>3. /\ front' = front /\ back' = back /\ tokens' = tokens /\ finished' = finished
      /\ rebinds' = rebinds /\ bound' = bound /\ st' = st /\ kv' = kv /\ Answer(l, Nothing)
  BY DEF TokenLate, nodevars, records
<1>4. PICK out : out = Nothing
  OBVIOUS
<1>5. DOMAIN out = {}
  BY <1>4 DEF Nothing
<1>6. ChanTypes' /\ Moves(Past(l), Coord, out) /\ Past(l) \in [Links -> {0, 1}]
  <2>1. Single(out)
    BY <1>5 DEF Single
  <2> QED BY <2>1, <1>2, <1>3, <1>4, AnswerMoves DEF Types
<1>7. RecordsOK' /\ Grows /\ Others(r)
  BY <1>3 DEF Contract, RecordsOK, RecordOK, Dynamic, Grows, Others
<1>8. Sends(Coord, out) /\ Told(r, out) /\ Binds(r, Past(l), out)
  BY <1>2, <1>5 DEF Sends, Told, Binds
<1>9. Contract'
  BY <1>2, <1>3, <1>6, <1>7, <1>8, ToldContract
<1>10. ASSUME AllCachesOK PROVE AllCachesOK'
  <2>1. NotSent(out, Carriers(r))
    BY <1>5 DEF NotSent
  <2>2. front'[r] = front[r] /\ back'[r] = back[r] /\ finished'[r] = finished[r] /\ rebinds'[r] = rebinds[r]
    BY <1>3
  <2>3. Live(r)' /\ rebinds'[r] = 0 => CachesOK(r)'
    BY <1>2, <1>3, <1>6, <1>10, <2>1, <2>2, SilentCaches
  <2>4. \A q \in Reqs : q # r => rebinds'[q] = rebinds[q]
    BY <1>3
  <2> QED BY <1>2, <1>3, <1>6, <1>7, <1>8, <1>10, <2>2, <2>3, <2>4, ToldCaches
<1> QED BY <1>3, <1>6, <1>9, <1>10 DEF Types, StateTypes, CacheTypes, RecordTypes

LEMMA KeptTokenContract ==
    ASSUME Types, Contract, NEW l \in Links, l[2] = Coord, TokenKept(l)
    PROVE  Types' /\ Contract' /\ (AllCachesOK => AllCachesOK')
<1>1. PICK r : r = Head(chan[l]).req
  OBVIOUS
<1>2. chan[l] # <<>> /\ r \in Reqs /\ front[r] # None /\ back[r] # None
  BY <1>1, TokenFacts DEF TokenKept, TakeToken
<1>3. /\ tokens' = [tokens EXCEPT ![r] = @ + 1] /\ ~(tokens'[r] >= MaxTokens) /\ ~finished[r]
      /\ front' = front /\ back' = back /\ finished' = finished
      /\ rebinds' = rebinds /\ bound' = bound /\ st' = st /\ kv' = kv /\ Answer(l, Nothing)
  BY <1>1 DEF TokenKept, TakeToken, Enough, nodevars
<1>4. PICK out : out = Nothing
  OBVIOUS
<1>5. DOMAIN out = {}
  BY <1>4 DEF Nothing
<1>6. ChanTypes' /\ Moves(Past(l), Coord, out) /\ Past(l) \in [Links -> {0, 1}]
  <2>1. Single(out)
    BY <1>5 DEF Single
  <2> QED BY <2>1, <1>2, <1>3, <1>4, AnswerMoves DEF Types
<1>7. RecordTypes'
  BY <1>2, <1>3 DEF Types, RecordTypes
<1>8. RecordsOK'
  <2>0. MaxTokens \in Nat /\ MaxRebinds \in Nat
    BY RingConstantsAssumption
  <2>1. ASSUME NEW q \in Reqs PROVE RecordOK(q)'
    <3>0. RecordOK(q)
      BY DEF Contract, RecordsOK
    <3>1. tokens[q] \in Nat /\ tokens'[q] \in Nat /\ rebinds[q] \in Nat
      BY <1>7, <2>0 DEF Types, RecordTypes
    <3>2. CASE q = r
      BY <3>0, <3>1, <3>2, <2>0, <1>2, <1>3 DEF RecordOK, Dynamic
    <3>3. CASE q # r
      <4>1. tokens'[q] = tokens[q]
        BY <3>3, <1>3 DEF Types, RecordTypes
      <4> QED BY <4>1, <3>0, <1>3 DEF RecordOK, Dynamic
    <3> QED BY <3>2, <3>3
  <2> QED BY <2>1 DEF RecordsOK
<1>9. Grows /\ Others(r)
  BY <1>3 DEF Grows, Others
<1>10. Sends(Coord, out) /\ Told(r, out) /\ Binds(r, Past(l), out)
  BY <1>2, <1>5 DEF Sends, Told, Binds
<1>11. Contract'
  BY <1>2, <1>3, <1>6, <1>8, <1>9, <1>10, ToldContract
<1>12. ASSUME AllCachesOK PROVE AllCachesOK'
  <2>1. NotSent(out, Carriers(r))
    BY <1>5 DEF NotSent
  <2>2. front'[r] = front[r] /\ back'[r] = back[r] /\ finished'[r] = finished[r] /\ rebinds'[r] = rebinds[r]
    BY <1>3
  <2>3. Live(r)' /\ rebinds'[r] = 0 => CachesOK(r)'
    BY <1>2, <1>3, <1>6, <1>12, <2>1, <2>2, SilentCaches
  <2>4. \A q \in Reqs : q # r => rebinds'[q] = rebinds[q]
    BY <1>3
  <2> QED BY <1>2, <1>3, <1>6, <1>9, <1>10, <1>12, <2>2, <2>3, <2>4, ToldCaches
<1> QED BY <1>3, <1>6, <1>7, <1>11, <1>12 DEF Types, StateTypes, CacheTypes

LEMMA FinishContract ==
    ASSUME Types, Contract, NEW l \in Links, l[2] = Coord, TokenFinish(l)
    PROVE  Types' /\ Contract' /\ (AllCachesOK => AllCachesOK')
<1>1. PICK r : r = Head(chan[l]).req
  OBVIOUS
<1>2. /\ chan[l] # <<>> /\ r \in Reqs /\ front[r] # None /\ front[r] \in Fronts
      /\ back[r] # None /\ back[r] \in Backs
  BY <1>1, TokenFacts DEF TokenFinish, TakeToken
<1>3. /\ tokens' = [tokens EXCEPT ![r] = @ + 1] /\ finished' = [finished EXCEPT ![r] = TRUE]
      /\ ~finished[r] /\ front' = front /\ back' = back
      /\ rebinds' = rebinds /\ bound' = bound /\ st' = st /\ kv' = kv /\ Answer(l, ReleaseMessages(r))
  BY <1>1 DEF TokenFinish, TakeToken, nodevars
<1>4. PICK out : out = ReleaseMessages(r)
  OBVIOUS
<1>5. ASSUME NEW to \in DOMAIN out
      PROVE  \E x \in Messages : /\ out[to] = <<x>> /\ x.type = "release" /\ x.to = to /\ x.req = r
  <2>1. to \in Range(FrontChain[front[r]]) \cup Range(BackChain[back[r]])
    BY <1>4, <1>5 DEF ReleaseMessages
  <2>2. to \in Nodes
    BY <2>1, <1>2, ChainNodes
  <2>3. PICK x : x = Control("release", to, r)
    OBVIOUS
  <2>4. x \in Messages /\ x.type = "release" /\ x.to = to /\ x.req = r
    BY <1>2, <2>2, <2>3, ControlMessage DEF Processes
  <2>5. out[to] = <<x>>
    BY <1>4, <2>1, <2>3 DEF ReleaseMessages
  <2> QED BY <2>4, <2>5
<1>6. ChanTypes' /\ Moves(Past(l), Coord, out) /\ Past(l) \in [Links -> {0, 1}]
  <2>1. Single(out)
    BY <1>5 DEF Single
  <2> QED BY <2>1, <1>2, <1>3, <1>4, AnswerMoves DEF Types
<1>7. RecordTypes'
  BY <1>2, <1>3 DEF Types, RecordTypes
<1>8. /\ finished'[r] /\ \A q \in Reqs : q # r => finished'[q] = finished[q] /\ tokens'[q] = tokens[q]
  BY <1>2, <1>3 DEF Types, RecordTypes
<1>9. RecordsOK'
  <2>0. MaxTokens \in Nat /\ MaxRebinds \in Nat
    BY RingConstantsAssumption
  <2>1. ASSUME NEW q \in Reqs PROVE RecordOK(q)'
    <3>0. RecordOK(q)
      BY DEF Contract, RecordsOK
    <3>1. tokens[q] \in Nat /\ rebinds[q] \in Nat
      BY <2>0 DEF Types, RecordTypes
    <3>2. CASE q = r
      <4>1. tokens'[q] = tokens[q] + 1
        BY <3>2, <1>2, <1>3 DEF Types, RecordTypes
      <4> QED BY <4>1, <3>0, <3>1, <3>2, <2>0, <1>2, <1>3, <1>8 DEF RecordOK, Dynamic
    <3>3. CASE q # r
      BY <3>3, <3>0, <1>3, <1>8 DEF RecordOK, Dynamic
    <3> QED BY <3>2, <3>3
  <2> QED BY <2>1 DEF RecordsOK
<1>10. Grows /\ Others(r)
  BY <1>3, <1>8 DEF Grows, Others
<1>11. Sends(Coord, out)
  <2>1. ASSUME NEW to \in DOMAIN out
        PROVE  \E x \in Messages : out[to] = <<x>> /\ MessageOK(<<Coord, to>>, x)'
    <3>1. PICK x \in Messages : /\ out[to] = <<x>> /\ x.type = "release" /\ x.to = to /\ x.req = r
      BY <1>5
    <3>2. MessageOK(<<Coord, to>>, x)'
      BY <3>1, <1>2, <1>3, <1>8 DEF MessageOK, DataTypes
    <3> QED BY <3>1, <3>2
  <2> QED BY <2>1 DEF Sends
<1>12. Told(r, out)
  <2>1. ASSUME NEW x \in Messages, x.type = "release" PROVE x \notin Early(r)
    BY <2>1 DEF Early, Of
  <2>2. ASSUME NEW to \in DOMAIN out
        PROVE  \E x \in Messages : /\ out[to] = <<x>> /\ x.req = r /\ x.type = "release"
                                   /\ x \notin Early(r)
    BY <1>5, <2>1
  <2>3. ASSUME NEW to \in DOMAIN out
        PROVE  \E x \in Messages :
                 /\ out[to] = <<x>> /\ x.req = r /\ x.type # "classified"
                 /\ x.type = "bind" => front[r] # None /\ Kept(r) /\ ~finished[r]
                 /\ x \in Early(r) => DOMAIN out = {to} /\ front[r] = None
    <3>1. PICK x \in Messages : out[to] = <<x>> /\ x.req = r /\ x.type = "release" /\ x \notin Early(r)
      BY <2>2
    <3> QED BY <3>1
  <2> QED BY <2>3 DEF Told
<1>13. Binds(r, Past(l), out)
  BY <1>2 DEF Binds
<1>14. Contract'
  BY <1>2, <1>3, <1>6, <1>9, <1>10, <1>11, <1>12, <1>13, ToldContract
<1>15. ASSUME AllCachesOK PROVE AllCachesOK'
  <2>1. ~Live(r)' /\ front'[r] # None
    BY <1>2, <1>3, <1>8 DEF Live
  <2>2. \A q \in Reqs : q # r => rebinds'[q] = rebinds[q]
    BY <1>3
  <2> QED BY <1>2, <1>3, <1>6, <1>10, <1>12, <1>15, <2>1, <2>2, ToldCaches
<1> QED BY <1>3, <1>6, <1>7, <1>14, <1>15 DEF Types, StateTypes, CacheTypes

LEMMA RebindContract ==
    ASSUME Types, Contract, NEW l \in Links, l[2] = Coord, NEW b \in Backs, TokenRebind(l, b)
    PROVE  Types' /\ Contract' /\ (AllCachesOK => AllCachesOK')
<1>1. PICK r : r = Head(chan[l]).req
  OBVIOUS
<1>2. /\ chan[l] # <<>> /\ r \in Reqs /\ front[r] # None /\ front[r] \in Fronts
      /\ back[r] # None /\ back[r] \in Backs
  BY <1>1, TokenFacts DEF TokenRebind, TakeToken
<1>3. /\ tokens' = [tokens EXCEPT ![r] = @ + 1] /\ rebinds' = [rebinds EXCEPT ![r] = @ + 1]
      /\ back' = [back EXCEPT ![r] = b] /\ bound' = [bound EXCEPT ![r] = @ \cup {b}]
      /\ ~finished[r] /\ Dynamic(r) /\ rebinds[r] < MaxRebinds /\ front' = front /\ finished' = finished
      /\ st' = st /\ kv' = kv /\ Answer(l, RebindMessages(r, b))
  BY <1>1 DEF TokenRebind, TakeToken, BindTo, nodevars, Dynamic
<1>4. MaxTokens \in Nat /\ MaxRebinds \in Nat /\ b # None
  BY RingConstantsAssumption
<1>5. /\ rebinds[r] \in Nat /\ tokens[r] \in Nat
      /\ rebinds'[r] = rebinds[r] + 1 /\ tokens'[r] = tokens[r] + 1 /\ back'[r] = b
      /\ b \in bound'[r] /\ bound[r] \subseteq bound'[r]
      /\ \A q \in Reqs : q # r => /\ back'[q] = back[q] /\ bound'[q] = bound[q]
                                  /\ rebinds'[q] = rebinds[q] /\ tokens'[q] = tokens[q]
  BY <1>2, <1>3, <1>4 DEF Types, RecordTypes
<1>6. RecordTypes'
  <2>1. rebinds[r] + 1 \in 0..MaxRebinds
    BY <1>3, <1>4, <1>5
  <2> QED BY <1>2, <1>3, <2>1 DEF Types, RecordTypes
<1>7. RecordsOK'
  <2>1. ASSUME NEW q \in Reqs PROVE RecordOK(q)'
    <3>0. RecordOK(q)
      BY DEF Contract, RecordsOK
    <3>1. CASE q = r
      BY <3>0, <3>1, <1>2, <1>3, <1>4, <1>5 DEF RecordOK, Dynamic
    <3>2. CASE q # r
      BY <3>0, <3>2, <1>3, <1>5 DEF RecordOK, Dynamic
    <3> QED BY <3>1, <3>2
  <2> QED BY <2>1 DEF RecordsOK
<1>8. Grows /\ Others(r)
  BY <1>3, <1>5 DEF Grows, Others
<1>9. PICK out : out = RebindMessages(r, b)
  OBVIOUS
<1>10. PICK y : y = BindMessage(r, b)
  OBVIOUS
<1>11. /\ y \in Messages /\ y.type = "bind" /\ y.to = Last(FrontOf(r)) /\ y.req = r
       /\ MessageOK(<<Coord, y.to>>, y)' /\ y \notin Early(r)
  <2>1. b \in bound'[r] /\ front'[r] = front[r]
    BY <1>3, <1>5
  <2> QED BY <2>1, <1>2, <1>3, <1>10, BindMessageFacts
<1>12. Kept(r)
  BY <1>2, <1>3 DEF Contract, KeptOK
<1>13. ASSUME NEW to \in DOMAIN out
       PROVE  \E x \in Messages : /\ out[to] = <<x>> /\ x.type \in {"bind", "drop_kv"} /\ x.req = r
                                  /\ MessageOK(<<Coord, to>>, x)' /\ x \notin Early(r)
  <2>1. to \in Range(BackChain[back[r]]) \cup {Last(FrontOf(r))}
    BY <1>9, <1>13 DEF RebindMessages, FrontOf
  <2>2. CASE to = Last(FrontOf(r))
    <3>1. out[to] = <<y>>
      BY <1>9, <1>10, <2>2 DEF RebindMessages, FrontOf
    <3> QED BY <3>1, <2>2, <1>11
  <2>3. CASE to # Last(FrontOf(r))
    <3>1. to \in Nodes
      BY <1>2, <2>1, <2>3, ChainNodes
    <3>2. PICK x : x = Control("drop_kv", to, r)
      OBVIOUS
    <3>3. x \in Messages /\ x.type = "drop_kv" /\ x.to = to /\ x.req = r
      BY <1>2, <3>1, <3>2, ControlMessage DEF Processes
    <3>4. out[to] = <<x>>
      BY <1>9, <2>1, <2>3, <3>2 DEF RebindMessages, FrontOf
    <3>5. rebinds'[r] # 0
      BY <1>5
    <3>6. MessageOK(<<Coord, to>>, x)'
      BY <1>2, <1>3, <3>3, <3>5 DEF MessageOK, DataTypes
    <3>7. x \notin Early(r)
      BY <3>3 DEF Early, Of
    <3> QED BY <3>3, <3>4, <3>6, <3>7
  <2> QED BY <2>2, <2>3
<1>14. ChanTypes' /\ Moves(Past(l), Coord, out) /\ Past(l) \in [Links -> {0, 1}]
  <2>1. Single(out)
    BY <1>13 DEF Single
  <2> QED BY <2>1, <1>2, <1>3, <1>9, AnswerMoves DEF Types
<1>15. Sends(Coord, out)
  BY <1>13 DEF Sends
<1>16. Told(r, out)
  <2>1. ASSUME NEW to \in DOMAIN out
        PROVE  \E x \in Messages :
                 /\ out[to] = <<x>> /\ x.req = r /\ x.type # "classified"
                 /\ x.type = "bind" => front[r] # None /\ Kept(r) /\ ~finished[r]
                 /\ x \in Early(r) => DOMAIN out = {to} /\ front[r] = None
    <3>1. PICK x \in Messages : /\ out[to] = <<x>> /\ x.type \in {"bind", "drop_kv"} /\ x.req = r
                                /\ x \notin Early(r)
      BY <1>13
    <3> QED BY <3>1, <1>2, <1>3, <1>12
  <2> QED BY <2>1 DEF Told
<1>17. Binds(r, Past(l), out)
  BY <1>2 DEF Binds
<1>18. Contract'
  BY <1>2, <1>3, <1>7, <1>8, <1>14, <1>15, <1>16, <1>17, ToldContract
<1>19. ASSUME AllCachesOK PROVE AllCachesOK'
  <2>1. rebinds'[r] # 0 /\ front'[r] # None
    BY <1>2, <1>3, <1>5
  <2>2. \A q \in Reqs : q # r => rebinds'[q] = rebinds[q]
    BY <1>5
  <2> QED BY <1>2, <1>3, <1>8, <1>14, <1>16, <1>19, <2>1, <2>2, ToldCaches
<1> QED BY <1>3, <1>6, <1>14, <1>18, <1>19 DEF Types, StateTypes, CacheTypes

-----------------------------------------------------------------------------
(* The contract is an invariant *)

(* The rest of the handler that classified sends nothing and takes nothing  *)
(* away.                                                                   *)
LEMMA RestKeeps ==
    ASSUME Types, NEW n \in Nodes, NEW r \in Reqs, NodeRest(n, r)
    PROVE  /\ StateTypes' /\ chan' = chan /\ kv' = kv /\ UNCHANGED records
           /\ \A x \in Nodes, q \in Reqs : /\ State(x, q)'.bound_to = State(x, q).bound_to
                                          /\ State(x, q)'.cached_l0 = State(x, q).cached_l0
<1>1. /\ st[n][r] # None /\ chan' = chan /\ kv' = kv /\ UNCHANGED records
      /\ st' = [st EXCEPT ![n][r] = [st[n][r] EXCEPT !.pending = TRUE, !.due = FALSE]]
  BY DEF NodeRest, AwaitBind
<1>2. st \in [Nodes -> [Reqs -> ReqStates \cup {None}]] /\ st[n][r] \in ReqStates
  BY <1>1 DEF Types, StateTypes
<1>3. PICK s : s = [st[n][r] EXCEPT !.pending = TRUE, !.due = FALSE]
  OBVIOUS
<1>4. s \in ReqStates /\ s.bound_to = st[n][r].bound_to /\ s.cached_l0 = st[n][r].cached_l0
  BY <1>2, <1>3 DEF ReqStates
<1>5. st' = [st EXCEPT ![n][r] = s]
  BY <1>1, <1>3
<1>6. StateTypes'
  BY <1>2, <1>4, <1>5 DEF StateTypes
<1>7. ASSUME NEW x \in Nodes, NEW q \in Reqs
      PROVE  /\ State(x, q)'.bound_to = State(x, q).bound_to
             /\ State(x, q)'.cached_l0 = State(x, q).cached_l0
  <2>1. CASE x = n /\ q = r
    <3>1. st'[x][q] = s
      BY <1>2, <1>5, <2>1
    <3>2. None \notin ReqStates
      BY NodeConstantsAssumption
    <3> QED BY <1>1, <1>4, <2>1, <3>1, <3>2 DEF State
  <2>2. CASE ~(x = n /\ q = r)
    <3>1. st'[x][q] = st[x][q]
      BY <1>2, <1>5, <2>2
    <3> QED BY <3>1 DEF State
  <2> QED BY <2>1, <2>2
<1> QED BY <1>1, <1>6, <1>7

LEMMA NothingMoves ==
    ASSUME Types, Contract, StateTypes', chan' = chan, kv' = kv, UNCHANGED records,
           \A x \in Nodes, q \in Reqs : /\ State(x, q)'.bound_to = State(x, q).bound_to
                                       /\ State(x, q)'.cached_l0 = State(x, q).cached_l0
    PROVE  Types' /\ Contract'
<1>1. /\ front' = front /\ back' = back /\ tokens' = tokens
      /\ finished' = finished /\ rebinds' = rebinds /\ bound' = bound
  BY DEF records
<1>2. Types'
  BY <1>1 DEF Types, ChanTypes, CacheTypes, RecordTypes
<1>3. Grows
  BY <1>1 DEF Grows
<1>4. MessagesOK'
  <2>1. ASSUME NEW l \in Links, NEW i \in DOMAIN chan'[l] PROVE MessageOK(l, chan[l][i])'
    <3>1. chan[l] \in Seq(Messages)
      BY DEF Types, ChanTypes
    <3>2. PICK m \in Messages : m = chan[l][i] /\ MessageOK(l, m)
      BY <3>1, LenProperties, ElementOfSeq DEF Contract, MessagesOK
    <3>3. MessageOK(l, m)' /\ m = chan'[l][i]
      BY <1>3, <3>2, MessageStays
    <3> QED BY <3>3 DEF MessageOK
  <2> QED BY <2>1 DEF MessagesOK
<1>5. RecordsOK' /\ StatesOK'
  BY <1>1 DEF Contract, RecordsOK, RecordOK, Dynamic, StatesOK, TargetOK
<1>6. EarlyOK'
  BY <1>1 DEF Contract, EarlyOK, Once, Gone, At, FrontOf, Dynamic, Early, Of
<1>7. ASSUME NEW r \in Reqs, front[r] # None PROVE Kept(r)' = Kept(r)
  <2>1. Last(FrontOf(r)) \in Nodes /\ FrontOf(r)' = FrontOf(r)
    BY <1>1, <1>7, TailOfFront DEF Types, FrontOf
  <2> QED BY <1>1, <2>1 DEF Kept
<1>8. ASSUME NEW r \in Reqs, front[r] = None PROVE Gone(Of(r, {"classified", "bind"}))
  <2>1. ASSUME NEW l \in Links, NEW i \in Nat, At(l, i, Of(r, {"classified", "bind"})) PROVE FALSE
    <3>1. chan[l] \in Seq(Messages) /\ i \in DOMAIN chan[l] /\ chan[l][i].req = r
      BY <2>1 DEF Types, ChanTypes, At, Of
    <3>2. MessageOK(l, chan[l][i])
      BY <3>1 DEF Contract, MessagesOK
    <3> QED BY <1>8, <3>1, <3>2 DEF MessageOK
  <2> QED BY <2>1 DEF Gone
<1>9. KeptOK'
  <2>1. KeptOK
    BY DEF Contract
  <2>2. \A r \in Reqs : front'[r] # None /\ Dynamic(r)' /\ back'[r] # None /\ ~finished'[r] => Kept(r)'
    BY <1>1, <1>7, <2>1 DEF KeptOK, Dynamic
  <2>3. \A r \in Reqs : Gone(Of(r, {"classified", "bind"}))' \/ Kept(r)'
    <3>1. ASSUME NEW r \in Reqs PROVE Gone(Of(r, {"classified", "bind"})) \/ Kept(r)'
      <4>1. Gone(Of(r, {"classified", "bind"})) \/ Kept(r)
        BY <2>1 DEF KeptOK
      <4> QED BY <1>7, <1>8, <4>1
    <3> QED BY <3>1 DEF Gone, At
  <2>4. \A r \in Reqs : \A l \in Links : \A i, j \in Nat :
          At(l, i, Of(r, {"bind"}))' /\ At(l, j, Of(r, {"release"}))' => i < j
    BY <2>1 DEF KeptOK, At
  <2> QED BY <2>2, <2>3, <2>4 DEF KeptOK
<1> QED BY <1>2, <1>4, <1>5, <1>6, <1>9 DEF Contract

LEMMA ContractInit == Init => Types /\ Contract
<1> SUFFICES ASSUME Init PROVE Types /\ Contract
  OBVIOUS
<1>1. /\ chan = [l \in Links |-> <<>>] /\ kv = [n \in Nodes |-> [r \in Reqs |-> 0]]
      /\ st = [n \in Nodes |-> [r \in Reqs |-> None]]
      /\ front = [r \in Reqs |-> None] /\ back = [r \in Reqs |-> None]
      /\ tokens = [r \in Reqs |-> 0] /\ finished = [r \in Reqs |-> FALSE]
      /\ rebinds = [r \in Reqs |-> 0] /\ bound = [r \in Reqs |-> {}]
  BY DEF Init, NodeInit
<1>2. MaxSteps \in Nat /\ MaxRebinds \in Nat /\ MaxTokens \in Nat \ {0}
  BY NodeConstantsAssumption, RingConstantsAssumption
<1>3. Types
  BY <1>1, <1>2 DEF Types, ChanTypes, StateTypes, CacheTypes, RecordTypes
<1>4. \A l \in Links : DOMAIN chan[l] = {}
  BY <1>1
<1>5. \A l \in Links : \A i, K : ~At(l, i, K)
  BY <1>4 DEF At
<1>6. MessagesOK
  BY <1>4 DEF MessagesOK
<1>7. RecordsOK
  BY <1>1, <1>2 DEF RecordsOK, RecordOK
<1>8. StatesOK
  <2>1. \A n \in Nodes, r \in Reqs : State(n, r).bound_to = None
    BY <1>1 DEF State, Fresh
  <2> QED BY <2>1 DEF StatesOK, TargetOK
<1>9. EarlyOK /\ KeptOK
  <2>1. \A K : Once(K) /\ Gone(K)
    BY <1>5 DEF Once, Gone
  <2>2. \A r \in Reqs : front[r] = None
    BY <1>1
  <2> QED BY <1>5, <2>1, <2>2 DEF EarlyOK, KeptOK
<1> QED BY <1>3, <1>6, <1>7, <1>8, <1>9 DEF Contract

LEMMA ContractStep == Types /\ Contract /\ [Next]_vars => Types' /\ Contract'
<1> SUFFICES ASSUME Types, Contract, [Next]_vars PROVE Types' /\ Contract'
  OBVIOUS
<1>1. ASSUME NEW r \in Reqs, NEW f \in Fronts, Start(r, f) PROVE Types' /\ Contract'
  BY <1>1, StartContract
<1>2. ASSUME NEW l \in Links, l[2] = Coord, CoordStep(l) PROVE Types' /\ Contract'
  <2>1. CASE TokenLate(l)
    BY <1>2, <2>1, LateContract
  <2>2. CASE TokenKept(l)
    BY <1>2, <2>2, KeptTokenContract
  <2>3. CASE TokenFinish(l)
    BY <1>2, <2>3, FinishContract
  <2>4. CASE \E b \in Backs : OnClassified(l, b) \/ TokenRebind(l, b)
    BY <1>2, <2>4, ClassifiedContract, RebindContract
  <2> QED BY <1>2, <2>1, <2>2, <2>3, <2>4 DEF CoordStep
<1>3. ASSUME NEW l \in Links, l[2] # Coord, NodeTurn(l) PROVE Types' /\ Contract'
  <2>1. l[2] \in Nodes
    BY <1>3, LinkEnds DEF Processes
  <2> QED BY <1>3, <2>1, TurnContract DEF NodeTurn
<1>4. ASSUME NEW n \in Nodes, NEW r \in Reqs, NodeRest(n, r) PROVE Types' /\ Contract'
  BY <1>4, RestKeeps, NothingMoves
<1>5. CASE UNCHANGED vars
  <2>1. chan' = chan /\ kv' = kv /\ st' = st /\ UNCHANGED records
    BY <1>5 DEF vars, nodevars
  <2>2. StateTypes'
    BY <2>1 DEF Types, StateTypes
  <2> QED BY <2>1, <2>2, NothingMoves DEF State
<1> QED BY <1>1, <1>2, <1>3, <1>4, <1>5 DEF Next

(* The miss window never counts further than it has to.                    *)
WindowTypes == window \in [Reqs -> 0..MinWindow]

LEMMA WindowInit == Init => WindowTypes
BY RingConstantsAssumption DEF Init, WindowTypes

LEMMA WindowStep == WindowTypes /\ [Next]_vars => WindowTypes'
<1> SUFFICES ASSUME WindowTypes, [Next]_vars PROVE WindowTypes'
  OBVIOUS
<1>1. MinWindow \in Nat \ {0}
  BY RingConstantsAssumption
<1>2. ASSUME NEW m, m.req \in Reqs PROVE Counted(m) \in 0..MinWindow
  BY <1>1, <1>2 DEF Counted, WindowTypes
<1>3. ASSUME NEW m, NEW n \in 0..MinWindow, window' = [window EXCEPT ![m.req] = n] PROVE WindowTypes'
  BY <1>3 DEF WindowTypes
<1>4. ASSUME NEW m, window' = [window EXCEPT ![m.req] = Counted(m)] PROVE WindowTypes'
  <2>1. CASE m.req \in Reqs
    BY <1>2, <1>3, <1>4, <2>1
  <2>2. CASE m.req \notin Reqs
    BY <1>4, <2>2 DEF WindowTypes
  <2> QED BY <2>1, <2>2
<1>5. CASE UNCHANGED window
  BY <1>5 DEF WindowTypes
<1>6. ASSUME NEW l \in Links, CoordStep(l) PROVE WindowTypes'
  <2>1. CASE TokenLate(l)
    BY <1>5, <2>1 DEF TokenLate, records
  <2>2. CASE TokenKept(l)
    BY <1>4, <2>2 DEF TokenKept
  <2>3. CASE TokenFinish(l)
    BY <1>4, <2>3 DEF TokenFinish
  <2>4. ASSUME NEW b \in Backs, OnClassified(l, b) PROVE WindowTypes'
    BY <1>5, <2>4 DEF OnClassified
  <2>5. ASSUME NEW b \in Backs, TokenRebind(l, b) PROVE WindowTypes'
    <3>1. window' = [window EXCEPT ![Head(chan[l]).req] = 0]
      BY <2>5 DEF TokenRebind
    <3>2. PICK r : r = Head(chan[l]).req
      OBVIOUS
    <3>3. window' = [window EXCEPT ![r] = 0] /\ 0 \in 0..MinWindow
      BY <1>1, <3>1, <3>2
    <3> QED BY <3>3 DEF WindowTypes
  <2> QED BY <1>6, <2>1, <2>2, <2>3, <2>4, <2>5 DEF CoordStep
<1>7. ASSUME NEW r \in Reqs, NEW f \in Fronts, Start(r, f) PROVE WindowTypes'
  BY <1>5, <1>7 DEF Start
<1>8. ASSUME NEW l \in Links, NodeTurn(l) PROVE WindowTypes'
  BY <1>5, <1>8 DEF NodeTurn, records
<1>9. ASSUME NEW n \in Nodes, NEW r \in Reqs, NodeRest(n, r) PROVE WindowTypes'
  BY <1>5, <1>9 DEF NodeRest, records
<1>10. CASE UNCHANGED vars
  BY <1>5, <1>10 DEF vars, records
<1> QED BY <1>6, <1>7, <1>8, <1>9, <1>10 DEF Next

(* Messages stay on the links of their ring, records and caches in their   *)
(* bounds: the type invariant, for any number of requests and nodes.       *)
THEOREM RingTypes == Spec => []TypeOK
<1>1. Types /\ Contract /\ WindowTypes => TypeOK
  <2> SUFFICES ASSUME Types, Contract, WindowTypes PROVE TypeOK
    OBVIOUS
  <2>1. ASSUME NEW l \in Links, NEW i \in DOMAIN chan[l]
        PROVE  chan[l][i] \in Messages /\ chan[l][i].to = l[2]
    <3>1. chan[l] \in Seq(Messages)
      BY DEF Types, ChanTypes
    <3>2. chan[l][i] \in Messages
      BY <3>1, LenProperties, ElementOfSeq
    <3>3. MessageOK(l, chan[l][i])
      BY DEF Contract, MessagesOK
    <3> QED BY <3>2, <3>3 DEF MessageOK
  <2>2. \A n \in Nodes, r \in Reqs : st[n][r] # None => st[n][r] \in ReqStates
    BY DEF Types, StateTypes
  <2>3. tokens \in [Reqs -> 0..(MaxTokens + MaxRebinds)]
    <3>1. MaxTokens \in Nat /\ MaxRebinds \in Nat
      BY RingConstantsAssumption
    <3>2. ASSUME NEW r \in Reqs PROVE tokens[r] \in 0..(MaxTokens + MaxRebinds)
      <4>1. tokens[r] \in Nat /\ rebinds[r] \in 0..MaxRebinds /\ tokens[r] <= MaxTokens + rebinds[r]
        BY DEF Types, RecordTypes, Contract, RecordsOK, RecordOK
      <4> QED BY <4>1, <3>1
    <3> QED BY <3>2 DEF Types, RecordTypes
  <2> QED BY <2>1, <2>2, <2>3 DEF TypeOK, Types, CacheTypes, RecordTypes, WindowTypes
<1> QED BY <1>1, ContractInit, ContractStep, WindowInit, WindowStep, PTL DEF Spec

(* What Coordinator and StaticCoordinator assume of the nodes holds of the *)
(* handlers of node.py: tail(f) classifies a request once and before any   *)
(* bind, a token comes from a back segment the request was bound to, and   *)
(* no node reports an error.                                               *)
THEOREM ContractHolds == Spec => []NodeContract
<1>1. Types /\ Contract => NodeContract
  <2> SUFFICES ASSUME Types, Contract, NEW l \in Links, NEW i \in DOMAIN chan[l]
               PROVE  LET m == chan[l][i] IN
                      /\ m.type = "classified" =>
                            l[1] = Last(FrontChain[front[m.req]]) /\ back[m.req] = None
                      /\ m.type = "token" => \E b \in bound[m.req] : l[1] = Last(BackChain[b])
                      /\ m.type # "error"
    BY DEF NodeContract
  <2>1. chan[l] \in Seq(Messages)
    BY DEF Types, ChanTypes
  <2>2. i \in Nat
    BY <2>1, LenProperties
  <2>3. PICK m \in Messages : m = chan[l][i] /\ MessageOK(l, m)
    BY <2>1, LenProperties, ElementOfSeq DEF Contract, MessagesOK
  <2>4. m.req \in Reqs
    BY MessageFields
  <2>5. ASSUME m.type = "classified"
        PROVE  l[1] = Last(FrontChain[front[m.req]]) /\ back[m.req] = None
    <3>1. l[1] = Last(FrontOf(m.req)) /\ front[m.req] # None /\ Dynamic(m.req)
      BY <2>3, <2>5 DEF MessageOK
    <3>2. m \in Early(m.req)
      BY <2>5 DEF Early, Of
    <3>3. ~Gone(Early(m.req))
      BY <2>2, <2>3, <3>2 DEF Gone, At
    <3> QED BY <2>4, <3>1, <3>3 DEF Contract, EarlyOK, FrontOf
  <2>6. m.type = "token" => \E b \in bound[m.req] : l[1] = Last(BackChain[b])
    BY <2>3 DEF MessageOK
  <2>7. m.type # "error"
    BY <2>3 DEF MessageOK
  <2> QED BY <2>3, <2>5, <2>6, <2>7
<1> QED BY <1>1, ContractInit, ContractStep, PTL DEF Spec

-----------------------------------------------------------------------------
(* The caches are in step *)

LEMMA CachesInit == Init => AllCachesOK
BY DEF Init, NodeInit, AllCachesOK, Live

LEMMA CachesStep == Types /\ Contract /\ AllCachesOK /\ [Next]_vars => AllCachesOK'
<1> SUFFICES ASSUME Types, Contract, AllCachesOK, [Next]_vars PROVE AllCachesOK'
  OBVIOUS
<1>1. ASSUME NEW r \in Reqs, NEW f \in Fronts, Start(r, f) PROVE AllCachesOK'
  BY <1>1, StartContract
<1>2. ASSUME NEW l \in Links, l[2] = Coord, CoordStep(l) PROVE AllCachesOK'
  <2>1. CASE TokenLate(l)
    BY <1>2, <2>1, LateContract
  <2>2. CASE TokenKept(l)
    BY <1>2, <2>2, KeptTokenContract
  <2>3. CASE TokenFinish(l)
    BY <1>2, <2>3, FinishContract
  <2>4. CASE \E b \in Backs : OnClassified(l, b) \/ TokenRebind(l, b)
    BY <1>2, <2>4, ClassifiedContract, RebindContract
  <2> QED BY <1>2, <2>1, <2>2, <2>3, <2>4 DEF CoordStep
<1>3. ASSUME NEW l \in Links, l[2] # Coord, NodeTurn(l) PROVE AllCachesOK'
  <2>1. l[2] \in Nodes
    BY <1>3, LinkEnds DEF Processes
  <2> QED BY <1>3, <2>1, TurnCaches DEF NodeTurn
<1>4. CASE UNCHANGED <<chan, kv, records>>
  <2>1. /\ chan' = chan /\ kv' = kv /\ front' = front /\ back' = back
        /\ finished' = finished /\ rebinds' = rebinds
    BY <1>4 DEF records
  <2>2. ASSUME NEW q \in Reqs, front[q] # None, CachesOK(q) PROVE CachesOK(q)'
    <3>1. Once(Carriers(q))'
      BY <2>1, <2>2 DEF CachesOK, Once, At
    <3>2. ASSUME NEW l \in Links, NEW i \in Nat, At(l, i, Carriers(q))'
          PROVE  CarrierOK(chan[l][i], l[2])'
      <4>1. At(l, i, Carriers(q))
        BY <2>1, <3>2 DEF At
      <4>2. PICK m : m = chan[l][i]
        OBVIOUS
      <4>3. m.req = q /\ CarrierOK(m, l[2])
        BY <2>2, <4>1, <4>2 DEF CachesOK, At, Carriers, Of
      <4>4. \A x \in Nodes : kv'[x][q] = kv[x][q]
        BY <2>1
      <4>5. CarrierOK(m, l[2])'
        BY <2>1, <2>2, <4>3, <4>4, CarrierStays
      <4>6. m = chan'[l][i]
        BY <2>1, <4>2
      <4> QED BY <4>5, <4>6 DEF CarrierOK
    <3> QED BY <3>1, <3>2 DEF CachesOK
  <2> QED BY <2>1, <2>2 DEF AllCachesOK, Live
<1>5. ASSUME NEW n \in Nodes, NEW r \in Reqs, NodeRest(n, r) PROVE AllCachesOK'
  BY <1>4, <1>5 DEF NodeRest, AwaitBind
<1>6. CASE UNCHANGED vars
  BY <1>4, <1>6 DEF vars, nodevars
<1> QED BY <1>1, <1>2, <1>3, <1>5, <1>6 DEF Next

(* Every layer sees every step of a request once and in order, as long as  *)
(* the request stays with its first back segment: whatever the handlers of *)
(* other requests do, however long the segments are and however the        *)
(* messages of different links overtake each other.                        *)
THEOREM StepsInOrder == Spec => []CachesInStep
<1>1. Types /\ Contract /\ AllCachesOK => CachesInStep
  <2> SUFFICES ASSUME Types, Contract, AllCachesOK, NEW r \in Reqs, Live(r), rebinds[r] = 0,
                      NEW n \in Nodes, NEW w \in OnTheWay(r), w[1][2] = n
               PROVE  kv[n][r] = chan[w[1]][w[2]].step
    BY DEF CachesInStep, InStep
  <2>0. PICK l \in Links : \E i \in DOMAIN chan[l] :
          w = <<l, i>> /\ chan[l][i].type \in DataTypes /\ chan[l][i].req = r
    BY DEF OnTheWay
  <2>1. PICK i \in DOMAIN chan[l] :
          w = <<l, i>> /\ chan[l][i].type \in DataTypes /\ chan[l][i].req = r
    BY <2>0
  <2>2. chan[l] \in Seq(Messages)
    BY DEF Types, ChanTypes
  <2>3. i \in Nat
    BY <2>2, LenProperties
  <2>4. PICK m \in Messages : m = chan[l][i]
    BY <2>2, LenProperties, ElementOfSeq
  <2>5. m \in Carriers(r)
    BY <2>1, <2>4 DEF Carriers, Of
  <2>6. CarrierOK(m, n)
    <3>1. At(l, i, Carriers(r)) /\ l[2] = n
      BY <2>1, <2>4, <2>5 DEF At
    <3> QED BY <2>3, <2>4, <3>1 DEF AllCachesOK, CachesOK
  <2>7. PICK k : k = m.step
    OBVIOUS
  <2>8. LapAt(r, n, k)
    BY <2>1, <2>4, <2>6, <2>7 DEF CarrierOK
  <2>9. front[r] # None /\ FrontsOf(front[r])
    BY TailOfFront DEF Live, Types
  <2>10. kv[n][r] = k
    <3>1. ASSUME NEW j \in DOMAIN FrontOf(r), n = FrontOf(r)[j], Filled(r, FrontOf(r), j, k)
          PROVE  kv[n][r] = k
      <4>1. ~(j < j)
        BY <2>9 DEF FrontsOf, ChainOf, FrontOf
      <4> QED BY <3>1, <4>1 DEF Filled
    <3>2. ASSUME NEW b \in Backs, NEW j \in DOMAIN BackChain[b], n = BackChain[b][j],
                 Filled(r, BackChain[b], j, k)
          PROVE  kv[n][r] = k
      <4>1. ~(j < j)
        BY Chains DEF BacksOf, ChainOf
      <4> QED BY <3>2, <4>1 DEF Filled
    <3> QED BY <2>8, <3>1, <3>2 DEF LapAt
  <2> QED BY <2>1, <2>4, <2>7, <2>10
<1> QED BY <1>1, ContractInit, ContractStep, CachesInit, CachesStep, PTL DEF Spec

=============================================================================
