---------------------------- MODULE ChannelPool ----------------------------
(***************************************************************************)
(* What the coordinator promises about segments, whatever its threads do:  *)
(* a segment belongs to one request or to nobody, is taken only when it is *)
(* free, and leaves a live request only in exchange for another one of its *)
(* kind (the rebind of a back segment).                                    *)
(***************************************************************************)
CONSTANTS Segments, Users, Kind(_), Nobody

VARIABLES owner, over

poolvars == <<owner, over>>

Init ==
    /\ owner = [s \in Segments |-> Nobody]
    /\ over = [r \in Users |-> FALSE]

(* Request r gets a free segment.                                          *)
Take(r, s) ==
    /\ owner[s] = Nobody
    /\ ~over[r]
    /\ owner' = [owner EXCEPT ![s] = r]
    /\ UNCHANGED over

(* The owner of s may let it go: it is over, or has one of the same kind.  *)
MayLeave(s) ==
    \/ over[owner[s]]
    \/ \E s2 \in Segments \ {s} : owner[s2] = owner[s] /\ Kind(s2) = Kind(s)

Give(s) ==
    /\ owner[s] # Nobody
    /\ MayLeave(s)
    /\ owner' = [owner EXCEPT ![s] = Nobody]
    /\ UNCHANGED over

(* The segment goes straight to a request that waited for it.              *)
Pass(s, r) ==
    /\ owner[s] \notin {Nobody, r}
    /\ MayLeave(s)
    /\ ~over[r]
    /\ owner' = [owner EXCEPT ![s] = r]
    /\ UNCHANGED over

End(r) ==
    /\ ~over[r]
    /\ over' = [over EXCEPT ![r] = TRUE]
    /\ UNCHANGED owner

Next ==
    \/ \E r \in Users, s \in Segments : Take(r, s) \/ Pass(s, r)
    \/ \E s \in Segments : Give(s)
    \/ \E r \in Users : End(r)

Spec == Init /\ [][Next]_poolvars

=============================================================================
