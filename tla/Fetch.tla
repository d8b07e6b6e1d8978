------------------------------- MODULE Fetch -------------------------------
(***************************************************************************)
(* p2pmoe/deploy/fetch.py for one weight file (a shard): the header is     *)
(* read, the byte ranges of the wanted tensors are planned and merged,     *)
(* each range is read with Source.read - which resumes where a response    *)
(* ended and counts attempts without progress - and the tensors are cut    *)
(* out of what came.  The byte at offset i of the file is i itself.        *)
(*                                                                         *)
(* The length of the file is known from the header's Content-Range, as     *)
(* Source._len keeps it.  Library behaviour (external): a response cut     *)
(* short of its announced length makes urllib raise IncompleteRead, which  *)
(* is no OSError, and makes curl exit with an error.                       *)
(***************************************************************************)
EXTENDS Naturals, FiniteSets, SequencesExt

CONSTANTS
    Size,        \* bytes in the shard
    Prefix,      \* the header's length field: 8 bytes in the code
    Probe,       \* the first read of read_header: 64 bytes in the code
    Layout,      \* the tensors in file order, as [lo, hi)
    Gap,         \* ranges at most this far apart are merged
    Retries,     \* Source.retries
    None

DataAt == Layout[1].lo

ASSUME FetchConstantsAssumption ==
    /\ {Size, Prefix, Probe, Gap, Retries} \subseteq Nat
    /\ Retries > 0
    /\ 0 < Prefix /\ Prefix < DataAt /\ Probe \in 1..Size
    /\ Layout \in Seq([lo : Nat, hi : Nat]) \ {<<>>}
    /\ \A i \in DOMAIN Layout :
          /\ Layout[i].lo < Layout[i].hi /\ Layout[i].hi <= Size
          /\ i > 1 => Layout[i - 1].hi <= Layout[i].lo
    /\ None \notin Nat \cup {"done", "failed", "refused"}

File == [i \in 1..Size |-> i - 1]
Bytes(lo, hi) == SubSeq(File, lo + 1, hi)

VARIABLES
    mode,       \* "slice" or "shard"
    wanted,     \* the tensors of this node, in file order
    honours,    \* the server honours Range
    curl,       \* Source._have_curl
    transport,  \* Source.transport
    todo,       \* the reads still to do; the first is under way
    buf,        \* what the read under way has so far
    stalls,     \* its attempts in a row without progress
    chunks,     \* what came of the reads before, in order
    written,    \* what fetch wrote
    outcome

config == <<mode, wanted, honours, curl>>
vars == <<config, transport, todo, buf, stalls, chunks, written, outcome>>

-----------------------------------------------------------------------------
(* Plan *)

ByteRange(lo, hi) == [lo |-> lo, hi |-> hi]
WholeFile == ByteRange(0, None)

(* Tensors no further apart than Gap share a request.                      *)
Merge(out, t) ==
    IF out # <<>> /\ t.lo <= Last(out).hi + Gap
    THEN [out EXCEPT ![Len(out)].hi = IF @ > t.hi THEN @ ELSE t.hi]
    ELSE Append(out, t)

Merged(specs) ==
    LET upTo[n \in 0..Len(specs)] == IF n = 0 THEN <<>> ELSE Merge(upTo[n - 1], specs[n])
    IN  upTo

Coalesce(specs) == Merged(specs)[Len(specs)]

HeaderReads == <<ByteRange(0, Probe), ByteRange(Prefix, DataAt)>>
BodyReads   == IF mode = "shard" THEN <<WholeFile>> ELSE Coalesce(wanted)

Init ==
    /\ mode \in {"slice", "shard"}
    /\ \E n \in 1..Len(Layout) :
          wanted \in {w \in [1..n -> Range(Layout)] : \A i \in 2..n : w[i - 1].lo < w[i].lo}
    /\ honours \in BOOLEAN
    /\ curl \in BOOLEAN
    /\ transport \in {"auto", "urllib", "curl"}
    /\ todo = HeaderReads \o BodyReads
    /\ buf = <<>>
    /\ stalls = 0
    /\ chunks = <<>>
    /\ written = None
    /\ outcome = None

-----------------------------------------------------------------------------
(* One attempt of the read under way *)

Reading == outcome = None /\ todo # <<>>
TheRead == Head(todo)

(* Fault: a retry asks for the range from its start again.                 *)
OffsetFromStart(r) == r.lo

Offset(r) == r.lo + Len(buf)

Ranged(r) == r.hi # None \/ buf # <<>>
End(r)    == IF r.hi = None THEN Size ELSE r.hi

(* Fault: only resumed reads are tested.                                   *)
RefusesLate(r) == ~honours /\ r.hi # None /\ Offset(r) # 0

(* RangeNotSupported: a bounded request from 0 was answered with 200.      *)
Refuses(r) == ~honours /\ r.hi # None /\ Offset(r) = 0

(* What the server would send of the file: the rest of the range, or all.  *)
Full(r) == IF Ranged(r) /\ honours THEN Bytes(Offset(r), End(r)) ELSE File

(* Fault: one attempt too many.                                            *)
GivesUpLate(n) == n > Retries

GivesUp(n) == n >= Retries

(* Fault: an answer clears the count, even an empty one.                   *)
AnswerClears == 0

AnswerStalls == stalls + 1

Refused ==
    /\ Reading
    /\ Refuses(TheRead)
    /\ outcome' = "refused"
    /\ UNCHANGED <<config, transport, todo, buf, stalls, chunks, written>>

(* An OSError: no connection, a timeout, a reset, a status of 400 or more, *)
(* any failure of curl.  What had arrived is lost.  In "auto" the first    *)
(* one switches to curl for good and is not counted.                       *)
SwitchToCurl ==
    /\ Reading
    /\ transport = "auto" /\ curl
    /\ transport' = "curl"
    /\ UNCHANGED <<config, todo, buf, stalls, chunks, written, outcome>>

Dropped ==
    /\ Reading
    /\ ~(transport = "auto" /\ curl)
    /\ stalls' = stalls + 1
    /\ outcome' = IF GivesUp(stalls') THEN "failed" ELSE outcome
    /\ UNCHANGED <<config, transport, todo, buf, chunks, written>>

(* urllib raises IncompleteRead, which nobody catches.                     *)
Escapes ==
    /\ Reading
    /\ transport # "curl"
    /\ outcome' = "failed"
    /\ UNCHANGED <<config, transport, todo, buf, stalls, chunks, written>>

(* A response with the first k bytes of what the server would send: all of *)
(* it, or less from a server that answers with part of a range or that     *)
(* announces no length and is cut.                                         *)
Response(k) ==
    /\ Reading
    /\ transport = "curl" => curl
    /\ ~Refuses(TheRead)
    /\ k <= Len(Full(TheRead))

Received(k) == buf \o SubSeq(Full(TheRead), 1, k)

Enough(bytes) == Len(bytes) >= End(TheRead) - TheRead.lo

EndRead(bytes) ==
    /\ chunks' = Append(chunks, [range |-> TheRead, bytes |-> bytes])
    /\ todo' = Tail(todo)
    /\ buf' = <<>>
    /\ stalls' = 0
    /\ UNCHANGED <<config, transport, written, outcome>>

Complete(k) ==
    /\ Response(k)
    /\ Enough(Received(k))
    /\ EndRead(SubSeq(Received(k), 1, End(TheRead) - TheRead.lo))

Progress(k) ==
    /\ Response(k)
    /\ k > 0
    /\ ~Enough(Received(k))
    /\ buf' = Received(k)
    /\ stalls' = 0
    /\ UNCHANGED <<config, transport, todo, chunks, written, outcome>>

(* An empty answer is no progress.  Too many of them end the read: with an *)
(* error, or, when the whole file was asked for, with what there is.       *)
Empty ==
    /\ Response(0)
    /\ ~GivesUp(AnswerStalls)
    /\ stalls' = AnswerStalls
    /\ UNCHANGED <<config, transport, todo, buf, chunks, written, outcome>>

EmptyFails ==
    /\ Response(0)
    /\ GivesUp(AnswerStalls)
    /\ TheRead # WholeFile
    /\ outcome' = "failed"
    /\ UNCHANGED <<config, transport, todo, buf, stalls, chunks, written>>

EmptySettles ==
    /\ Response(0)
    /\ GivesUp(AnswerStalls)
    /\ TheRead = WholeFile
    /\ EndRead(buf)

-----------------------------------------------------------------------------
(* The file that is written *)

BodyChunks == SubSeq(chunks, Len(HeaderReads) + 1, Len(chunks))

(* The first range that holds the tensor, and its bytes in it.             *)
Source(t) ==
    BodyChunks[SelectInSeq(BodyChunks, LAMBDA c : c.range.lo <= t.lo /\ t.hi <= c.range.hi)]

(* Fault: a range is taken to begin with the tensor.                       *)
CutFromStart(t) == SubSeq(Source(t).bytes, 1, t.hi - t.lo)

Cut(t) == SubSeq(Source(t).bytes, t.lo - Source(t).range.lo + 1, t.hi - Source(t).range.lo)

Write ==
    /\ outcome = None /\ todo = <<>>
    /\ written' = IF mode = "shard" THEN Last(chunks).bytes
                  ELSE [i \in DOMAIN wanted |-> Cut(wanted[i])]
    /\ outcome' = IF mode = "slice" /\ \E i \in DOMAIN wanted :
                                         Len(written'[i]) # wanted[i].hi - wanted[i].lo
                  THEN "failed" ELSE "done"
    /\ UNCHANGED <<config, transport, todo, buf, stalls, chunks>>

Next ==
    \/ Refused \/ SwitchToCurl \/ Dropped \/ Escapes
    \/ \E k \in 0..Size : Complete(k) \/ Progress(k)
    \/ Empty \/ EmptyFails \/ EmptySettles
    \/ Write

Spec == Init /\ [][Next]_vars /\ WF_vars(Next)

-----------------------------------------------------------------------------
(* Properties *)

(* The type invariant.                                                     *)
TypeOK ==
    /\ transport \in {"auto", "urllib", "curl"}
    /\ \A i \in DOMAIN buf : buf[i] \in 0..(Size - 1)
    /\ stalls \in 0..Retries
    /\ outcome = None => stalls < Retries
    /\ Len(todo) + Len(chunks) = Len(HeaderReads) + Len(BodyReads)
    /\ outcome \in {None, "done", "failed", "refused"}

(* Resumed responses are stitched in order, without a byte twice or        *)
(* missing, whatever was dropped or cut in between.                        *)
Stitched ==
    Reading /\ buf # <<>> => buf = Bytes(TheRead.lo, TheRead.lo + Len(buf))

(* What is written is, tensor by tensor, what the server has.  A whole     *)
(* file may have lost its end, see EmptySettles.                           *)
Exact ==
    outcome = "done" =>
        IF mode = "shard" THEN IsPrefix(written, File)
        ELSE written = [i \in DOMAIN wanted |-> Bytes(wanted[i].lo, wanted[i].hi)]

(* Nothing of a server that ignores Range is ever resumed, and no tensor   *)
(* is cut out of what it sends: the offsets would be wrong (Source.read    *)
(* says such a server is refused by the first request, _get_urllib that    *)
(* it must be).  Nothing is asserted of a shard from such a server: the    *)
(* texts call shard mode the way out, but its header is read by ranges in  *)
(* every mode, see Fetch_proofs!ShardRefusedToo.                           *)
RefusedFirst ==
    ~honours => buf = <<>> /\ (mode = "slice" => chunks = <<>> /\ outcome # "done")

(* A fetch ends, whatever the link does.                                   *)
FetchEnds == <>(outcome # None)

=============================================================================
