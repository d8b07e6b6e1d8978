----------------------------- MODULE MCTransport -----------------------------
(* Two handler threads with a message each.  Directly the controller runs   *)
(* twice; through the relay once, for there the diallers and the connections*)
(* parked make the instance large enough.                                   *)
EXTENDS Transport

MCScript        == [t \in {"t1", "t2"} |-> IF t = "t1" THEN <<1>> ELSE <<2>>]
MCMaxConfigures == [x \in {"direct", "relay"} |-> IF x = "direct" THEN 2 ELSE 1]

=============================================================================
