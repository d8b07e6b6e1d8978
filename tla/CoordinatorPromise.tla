------------------------- MODULE CoordinatorPromise -------------------------
(***************************************************************************)
(* The coordinator as an implementation of ChannelPool: whose a segment is *)
(* follows from the request records and from the locals of the threads.    *)
(***************************************************************************)
EXTENDS Coordinator

Holds(r, s) == IF s \in Fronts THEN FrontHeld(r, s) ELSE BackHeld(r, s)

(* The owner of a segment as the promise sees it.                          *)
Holder(s) == IF \E r \in Reqs : Holds(r, s) THEN CHOOSE r \in Reqs : Holds(r, s) ELSE None

SideOf(s) == IF s \in Fronts THEN "front" ELSE "back"

Promise == INSTANCE ChannelPool
    WITH Segments <- Conns, Users <- Reqs, Kind <- SideOf, Nobody <- None,
         owner <- [s \in Conns |-> Holder(s)], over <- finished

(* The coordinator implements the promise of ChannelPool: a segment is     *)
(* never taken from a request that is still running.                       *)
KeepsThePromise == Promise!Spec

=============================================================================
