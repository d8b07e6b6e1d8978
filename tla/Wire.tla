-------------------------------- MODULE Wire --------------------------------
(***************************************************************************)
(* One stream of wire.py, from whoever connected to the node that reads    *)
(* it; through the relay, two TCP streams that relay.py pumps into each    *)
(* other are one.  A message is two frames, what the kernel took first and *)
(* the rest: `sendall` may be interrupted between them.  Of the opposite   *)
(* direction only the answer of an rpc is kept.                            *)
(*                                                                         *)
(*   near   the end that writes: "open", "closed", or "relay" while the    *)
(*          stream is parked there and nobody has called yet               *)
(*   far    the node's end: "parked", "called" (the relay has written      *)
(*          `accepted`), "ready" to be accepted, "serving" or "closed"     *)
(*   link   what a write meets: "up", "gone" (it succeeds, the bytes are   *)
(*          lost) or "reset" (it raises)                                   *)
(*   eof    the reader finds the end of the stream behind what is queued   *)
(***************************************************************************)
EXTENDS Naturals, SequencesExt

Frame(kind, x, part) == [kind |-> kind, of |-> x, part |-> part]

Unused ==
    [near |-> "closed", far |-> "closed", link |-> "up", eof |-> FALSE,
     q |-> <<>>, reply |-> "none"]

(* RelayListener._park_one: a connection that says `listen` and waits.     *)
Parked == [Unused EXCEPT !.near = "relay", !.far = "parked"]

(* A connection the kernel of the node has taken and serve_forever has not *)
(* seen.                                                                   *)
Connected == [Unused EXCEPT !.near = "open", !.far = "ready"]

Tidy(c) == IF c.near = "closed" /\ c.far = "closed" THEN Unused ELSE c

CloseNear(c) ==
    Tidy([c EXCEPT !.near = "closed", !.eof = @ \/ c.link = "up", !.reply = "none"])

(* The node's end goes and takes what it has not read with it; `l` is what *)
(* the other end then knows.                                               *)
CloseFar(c, l) ==
    Tidy([c EXCEPT !.far = "closed", !.q = <<>>, !.eof = FALSE,
                   !.link = IF @ = "up" THEN l ELSE @])

(* The path is interrupted: the first k frames were already through.       *)
Cut(c, k, l, ends) ==
    [c EXCEPT !.q = SubSeq(@, 1, IF k < Len(@) THEN k ELSE Len(@)),
              !.link = IF @ = "up" THEN l ELSE @, !.eof = @ \/ ends]

(* send_msg on a link that does not raise: the bytes arrive if it is up;   *)
(* if it is gone they are lost and the call succeeds all the same, as the  *)
(* later ones do until the writing end learns of it.                       *)
Written(c, f) == IF c.link = "up" THEN [c EXCEPT !.q = Append(@, f)] ELSE c

(* Mutant: what arrived before the end of the stream counts.               *)
AnyHead(q) == q # <<>>

(* recv_msg: _recv_exact returns whole messages only.                      *)
WholeHead(q) ==
    /\ q # <<>>
    /\ \/ q[1].kind = "configure"
       \/ Len(q) >= 2 /\ q[1].part = 1 /\ q[2] = [q[1] EXCEPT !.part = 2]

Rest(q) == SubSeq(q, IF q[1].kind = "configure" THEN 2 ELSE 3, Len(q))

(* The data messages of which the last frame is in s.                      *)
Finished(s) == {f.of : f \in {s[i] : i \in {j \in DOMAIN s : s[j].kind = "data" /\ s[j].part = 2}}}

LostBy(c, d) == Finished(c.q) \ Finished(d.q)

=============================================================================
