------------------------------- MODULE MCRing -------------------------------
(* Instances of Ring for TLC: a front segment of two nodes and two back    *)
(* segments of one.  The constants of NodeServer are what `distribute`     *)
(* derives from these chains.                                              *)
EXTENDS Ring

MCFrontChain == [f \in {"F0"} |-> <<"f1", "f2">>]
MCBackChain  == [b \in {"B0", "B1"} |-> IF b = "B0" THEN <<"b1">> ELSE <<"c1">>]
MCFrontNodes == {"f1", "f2"}
MCNodes      == MCFrontNodes \cup {"b1", "c1"}

MCNextHop == [n \in MCNodes |-> IF n = "f1" THEN "f2" ELSE None]
MCSegHead == [n \in MCNodes |-> IF n \in MCFrontNodes THEN "f1" ELSE n]

(* What `distribute` and the controller register with each PeerPool, as    *)
(* far as a message is ever sent there.                                    *)
MCLinks ==
    ({Coord} \X MCNodes) \cup (MCNodes \X {Coord})
    \cup {<<"f1", "f2">>}
    \cup ({"f2"} \X {"b1", "c1"}) \cup ({"b1", "c1"} \X {"f1"})

MCNoPeer     == [n \in MCNodes |-> None]
MCNoWiring   == [f \in {"F0"} |-> None]
MCStaticPeer == [n \in MCNodes |-> IF n = "f2" THEN "b1" ELSE None]
MCWiring     == [f \in {"F0"} |-> "B0"]

=============================================================================
