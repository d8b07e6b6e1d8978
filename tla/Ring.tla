-------------------------------- MODULE Ring --------------------------------
(***************************************************************************)
(* The nodes of NodeServer and the coordinator on one network: a request   *)
(* enters at head(f), is classified by tail(f), bound to a back segment,   *)
(* and then turns as a ring - head(f), tail(f), head(b), tail(b), head(f)  *)
(* - until the coordinator has enough tokens and sends `release`.          *)
(*                                                                         *)
(* Of the coordinator only what concerns the nodes is here: it gives a     *)
(* segment to one live request at a time (Coordinator and                  *)
(* StaticCoordinator show how) and handles a report in one step.  An error *)
(* report would only be noted; NodeContract says that there is none.       *)
(***************************************************************************)
EXTENDS NodeServer

CONSTANTS
    FrontChain,   \* front segment -> its nodes in order
    BackChain,    \* back segment -> its nodes in order
    WiredTo,      \* front segment -> its back segment, None in the dynamic mode
    MaxTokens,    \* Coordinator.max_tokens
    MinWindow,    \* Coordinator.min_window
    MaxRebinds    \* bound: rebinds per request, at most the 2 of the code

Fronts == DOMAIN FrontChain
Backs  == DOMAIN BackChain

(* What `distribute` tells the nodes of a chain.                           *)
Configured(chain) ==
    /\ chain # <<>> /\ IsInjective(chain)
    /\ \A i \in DOMAIN chain :
         /\ NextHop[chain[i]] = IF i < Len(chain) THEN chain[i + 1] ELSE None
         /\ SegHead[chain[i]] = Head(chain)

ASSUME RingConstantsAssumption ==
    /\ Reqs \subseteq Nat
    /\ None \notin Fronts \cup Backs
    /\ \A f \in Fronts : FrontChain[f] \in Seq(FrontNodes) /\ Configured(FrontChain[f])
    /\ \A b \in Backs : BackChain[b] \in Seq(Nodes \ FrontNodes) /\ Configured(BackChain[b])
    /\ \A f, g \in Fronts : f # g => Range(FrontChain[f]) \cap Range(FrontChain[g]) = {}
    /\ \A b, c \in Backs : b # c => Range(BackChain[b]) \cap Range(BackChain[c]) = {}
    /\ WiredTo \in [Fronts -> Backs \cup {None}]
    /\ \A f \in Fronts : StaticPeer[Last(FrontChain[f])] =
                          IF WiredTo[f] = None THEN None ELSE Head(BackChain[WiredTo[f]])
    /\ MaxTokens \in Nat \ {0}
    /\ MinWindow \in Nat \ {0}
    /\ MaxRebinds \in 0..2

VARIABLES
    front, back,     \* RequestRecord
    tokens,
    finished,
    rebinds,
    window,          \* Len(miss_window), up to MinWindow
    bound            \* the back segments the request was ever bound to

records == <<front, back, tokens, finished, rebinds, window, bound>>
vars == <<chan, nodevars, records>>

Init ==
    /\ NodeInit
    /\ chan = [l \in Links |-> <<>>]
    /\ front = [r \in Reqs |-> None]
    /\ back = [r \in Reqs |-> None]
    /\ tokens = [r \in Reqs |-> 0]
    /\ finished = [r \in Reqs |-> FALSE]
    /\ rebinds = [r \in Reqs |-> 0]
    /\ window = [r \in Reqs |-> 0]
    /\ bound = [r \in Reqs |-> {}]

Live(r) == front[r] # None /\ ~finished[r]

FreeFront(f) == \A r \in Reqs : Live(r) => front[r] # f
FreeBack(b)  == \A r \in Reqs : Live(r) => back[r] # b

-----------------------------------------------------------------------------
(* The coordinator *)

(* The request gets a free front segment; head(f) gets the prompt.         *)
Start(r, f) ==
    /\ front[r] = None
    /\ \A q \in Reqs : q < r => front[q] # None
    /\ FreeFront(f)
    /\ front' = [front EXCEPT ![r] = f]
    /\ back' = [back EXCEPT ![r] = WiredTo[f]]
    /\ bound' = [bound EXCEPT ![r] = IF WiredTo[f] = None THEN {} ELSE {WiredTo[f]}]
    /\ Send(chan, Coord,
            Only(Data("prefill", Head(FrontChain[f]), r, "prefill", 0, None)))
    /\ UNCHANGED <<nodevars, tokens, finished, rebinds, window>>

BindTo(r, b) ==
    /\ FreeBack(b)
    /\ back' = [back EXCEPT ![r] = b]
    /\ bound' = [bound EXCEPT ![r] = @ \cup {b}]

BindMessage(r, b) == Bind(Last(FrontChain[front[r]]), r, Head(BackChain[b]))

(* A `classified` is read when a back segment is free for it (the request  *)
(* waits for one otherwise).                                               *)
OnClassified(l, b) ==
    LET r == Head(chan[l]).req IN
    /\ Reads(l, {"classified"})
    /\ BindTo(r, b)
    /\ Answer(l, Only(BindMessage(r, b)))
    /\ UNCHANGED <<nodevars, front, tokens, finished, rebinds, window>>

(* Fault: the bound is tested one token late.                              *)
EnoughLate(n) == n > MaxTokens

Enough(n) == n >= MaxTokens

(* The miss window counts decode steps only.                               *)
Counted(m) ==
    IF m.phase = "decode" /\ window[m.req] < MinWindow THEN window[m.req] + 1
                                                       ELSE window[m.req]

TakeToken(l) ==
    /\ Reads(l, {"token"})
    /\ ~finished[Head(chan[l]).req]
    /\ tokens' = [tokens EXCEPT ![Head(chan[l]).req] = @ + 1]

TokenLate(l) ==
    /\ Reads(l, {"token"})
    /\ finished[Head(chan[l]).req]
    /\ Answer(l, Nothing)
    /\ UNCHANGED <<nodevars, records>>

TokenKept(l) ==
    LET m == Head(chan[l]) IN
    /\ TakeToken(l)
    /\ ~m.eos
    /\ ~Enough(tokens'[m.req])
    /\ window' = [window EXCEPT ![m.req] = Counted(m)]
    /\ Answer(l, Nothing)
    /\ UNCHANGED <<nodevars, front, back, finished, rebinds, bound>>

ReleaseMessages(r) ==
    [n \in Range(FrontChain[front[r]]) \cup Range(BackChain[back[r]]) |->
       <<Control("release", n, r)>>]

(* End of sequence or max_tokens: `release` to every node of the ring.     *)
TokenFinish(l) ==
    LET m == Head(chan[l]) IN
    /\ TakeToken(l)
    /\ m.eos \/ Enough(tokens'[m.req])
    /\ finished' = [finished EXCEPT ![m.req] = TRUE]
    /\ window' = [window EXCEPT ![m.req] = Counted(m)]
    /\ Answer(l, ReleaseMessages(m.req))
    /\ UNCHANGED <<nodevars, front, back, rebinds, bound>>

RebindMessages(r, b) ==
    LET tail == Last(FrontChain[front[r]]) IN
    [n \in Range(BackChain[back[r]]) \cup {tail} |->
       IF n = tail THEN <<BindMessage(r, b)>> ELSE <<Control("drop_kv", n, r)>>]

(* Channel two alarms over a full window: drop_kv to the old back segment, *)
(* bind to another, without the test of max_tokens.                        *)
TokenRebind(l, b) ==
    LET m == Head(chan[l])
        r == m.req IN
    /\ TakeToken(l)
    /\ ~m.eos
    /\ WiredTo[front[r]] = None
    /\ Counted(m) >= MinWindow
    /\ rebinds[r] < MaxRebinds
    /\ window' = [window EXCEPT ![r] = 0]
    /\ rebinds' = [rebinds EXCEPT ![r] = @ + 1]
    /\ BindTo(r, b)
    /\ Answer(l, RebindMessages(r, b))
    /\ UNCHANGED <<nodevars, front, finished>>

CoordStep(l) ==
    \/ TokenLate(l) \/ TokenKept(l) \/ TokenFinish(l)
    \/ \E b \in Backs : OnClassified(l, b) \/ TokenRebind(l, b)

-----------------------------------------------------------------------------
NodeTurn(l)    == NodeStep(l) /\ UNCHANGED records
NodeRest(n, r) == AwaitBind(n, r) /\ UNCHANGED records

Next ==
    \/ \E r \in Reqs, f \in Fronts : Start(r, f)
    \/ \E l \in Links : l[2] = Coord /\ CoordStep(l)
    \/ \E l \in Links : l[2] # Coord /\ NodeTurn(l)
    \/ \E n \in Nodes, r \in Reqs : NodeRest(n, r)

(* The machine as a whole goes on, and what the coordinator sends is read  *)
(* whatever else arrives, since every connection has a thread of its own.  *)
FromCoord == \E n \in Nodes : NodeTurn(<<Coord, n>>)

Fairness == WF_vars(Next) /\ WF_vars(FromCoord)

Spec == Init /\ [][Next]_vars /\ Fairness

-----------------------------------------------------------------------------
(* Where the ring of a request is *)

DataTypes == {"prefill", "hop", "seg_in", "loop"}

(* The data messages of r that are on their way, as positions on links.    *)
OnTheWay(r) ==
    UNION {{<<l, i>> : i \in {j \in DOMAIN chan[l] :
                                 chan[l][j].type \in DataTypes /\ chan[l][j].req = r}}
           : l \in Links}

-----------------------------------------------------------------------------
(* Properties *)

Messages ==
    [type : DataTypes, to : Nodes, req : Reqs, phase : {"prefill", "decode"},
     step : 0..MaxSteps, loop_to : Nodes \cup {None}]
    \cup [type : {"drop_kv", "release", "classified", "error"}, to : Processes, req : Reqs]
    \cup [type : {"bind"}, to : Nodes, req : Reqs, target : Nodes]
    \cup [type : {"token"}, to : {Coord}, req : Reqs, phase : {"prefill", "decode"},
          eos : BOOLEAN]

(* The type invariant.                                                     *)
TypeOK ==
    /\ \A l \in Links : \A i \in DOMAIN chan[l] :
          chan[l][i] \in Messages /\ chan[l][i].to = l[2]
    /\ kv \in [Nodes -> [Reqs -> 0..MaxSteps]]
    /\ \A n \in Nodes, r \in Reqs : st[n][r] # None => st[n][r] \in ReqStates
    /\ front \in [Reqs -> Fronts \cup {None}]
    /\ back \in [Reqs -> Backs \cup {None}]
    /\ tokens \in [Reqs -> 0..(MaxTokens + MaxRebinds)]
    /\ finished \in [Reqs -> BOOLEAN]
    /\ rebinds \in [Reqs -> 0..MaxRebinds]
    /\ window \in [Reqs -> 0..MinWindow]
    /\ bound \in [Reqs -> SUBSET Backs]

(* When a step of r reaches node n, the caches there hold exactly the      *)
(* steps before it.                                                        *)
InStep(r, n) ==
    \A w \in OnTheWay(r) : w[1][2] = n => kv[n][r] = chan[w[1]][w[2]].step

(* Every layer sees every step once and in order, as long as a live        *)
(* request stays with its first back segment.                              *)
CachesInStep ==
    \A r \in Reqs : Live(r) /\ rebinds[r] = 0 => \A n \in Nodes : InStep(r, n)

(* What the tests say of a rebind (tests/test_runtime.py,                  *)
(* test_rebind_keeps_front_kv_and_drops_back_kv): the caches of the front  *)
(* segment stay valid, and sending the kept prefill output to the new back *)
(* segment brings both to the same length.                                 *)
InStepAfterRebind ==
    \A r \in Reqs : Live(r) /\ back[r] # None =>
        \A n \in Range(FrontChain[front[r]]) \cup Range(BackChain[back[r]]) : InStep(r, n)

(* What the coordinator's modules assume of the nodes: tail(f) classifies  *)
(* a request once, before any bind, and a token comes from the tail of a   *)
(* back segment the request was bound to at some time; no bind finds       *)
(* tail(f) without an output to send, not even one that is handled before  *)
(* `pending` is set.                                                       *)
NodeContract ==
    \A l \in Links : \A i \in DOMAIN chan[l] :
        LET m == chan[l][i] IN
        /\ m.type = "classified" =>
              l[1] = Last(FrontChain[front[m.req]]) /\ back[m.req] = None
        /\ m.type = "token" => \E b \in bound[m.req] : l[1] = Last(BackChain[b])
        /\ m.type # "error"

(* The ring of a finished request comes to rest: the lap that was under    *)
(* way at the end dies at a tail that has forgotten where to send it.      *)
RingStops == \A r \in Reqs : finished[r] ~> OnTheWay(r) = {}

(* Every request that is started ends.                                     *)
EveryRequestEnds == \A r \in Reqs : front[r] # None ~> finished[r]

=============================================================================
