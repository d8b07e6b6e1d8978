------------------------------ MODULE Tighten ------------------------------
(***************************************************************************)
(* Segments of one kind brought to like delays: those out of a band about  *)
(* the median are placed anew, slow ones for speed and fast ones for the   *)
(* near edge of the band, and a round is kept when it leaves them no       *)
(* farther from the band (p2pmoe/planner/tighten.py).                      *)
(***************************************************************************)
EXTENDS Solver

\* band_from_median
BandFromMedian(P, segs) ==
    LET m    == Median([i \in DOMAIN segs |-> SegDelay(segs[i])])
        half == (m * (P.cfg.beta - 100)) \div 100
    IN  <<m - half, m + half>>

\* dist_to_band, _lex_key
DistToBand(x, band) == MaxOf({0, band[1] - x, x - band[2]}, 0)

LexKey(segs, band) ==
    LET d == [i \in DOMAIN segs |-> DistToBand(Fine(SegDelay(segs[i])), band)]
    IN  <<MaxOf(Range(d), 0), Total(d)>>

\* The machines of the largest memory, which the fast segments should give up.
GoodNodes(P) == {v \in P.nodes : P.mem[v] = MaxUsable(P, P.nodes)}

\* What a round places anew, and for what: the fast segments first, those with
\* the most good machines, then the slow ones, the slowest first.
InTurn(I, len, key) ==
    LET idx == Where([i \in 1..len |-> i], I) IN Best(idx, [k \in DOMAIN idx |-> key[idx[k]]], len)

Moves(P, segs, band, rent, ends) ==
    LET fast == InTurn({i \in DOMAIN segs : Fine(SegDelay(segs[i])) < band[1]}, Len(segs),
                       [i \in DOMAIN segs |-> <<-Cardinality(NodesOf(segs[i]) \cap GoodNodes(P))>>])
        slow == InTurn({i \in DOMAIN segs : Fine(SegDelay(segs[i])) > band[2]}, Len(segs),
                       [i \in DOMAIN segs |-> <<-SegDelay(segs[i])>>])
        for(idx, o) == [k \in DOMAIN idx |-> [i |-> idx[k], o |-> o]]
    IN  for(fast, Objective(band[1], rent, GoodNodes(P), ends))
        \o for(slow, Objective(NoTarget, rent, {}, ends))

\* One round, at [segs, free]: one segment after another placed anew out of
\* the pool; one for which no place is found stays where it was.
Put(acc, i, seg) == [segs |-> [acc.segs EXCEPT ![i] = seg], free |-> acc.free \ NodesOf(seg)]

PlaceAnew(P, spec, at, acc, move) ==
    Put(acc, move.i,
        (DeployPath(P, spec, acc.free, move.o, P.cfg.beam) \o <<at.segs[move.i]>>)[1])

Round(P, spec, at, moves) ==
    LET upTo[k \in 0..Len(moves)] ==
            IF k = 0
            THEN [segs |-> at.segs,
                  free |-> at.free \cup AllNodes([n \in DOMAIN moves |-> at.segs[moves[n].i]])]
            ELSE PlaceAnew(P, spec, at, upTo[k - 1], moves[k])
    IN  upTo[Len(moves)]

\* A bug of that kind: a round is kept whatever it brought.
AcceptAlways(P, old, new, band) == [at |-> new, more |-> FALSE]

Accept(P, old, new, band) ==
    LET was  == LexKey(old.segs, band)
        is   == LexKey(new.segs, band)
        gain == (was[1] - is[1]) + (was[2] - is[2])
    IN  IF Lex(was, is) THEN [at |-> old, more |-> FALSE]
        ELSE [at |-> new, more |-> gain >= Fine(P.cfg.tightenEps)]

NextRound(P, spec, x, band, rent, ends) ==
    LET moves == Moves(P, x.at.segs, band, rent, ends)
    IN  IF ~x.more \/ moves = <<>> THEN x
        ELSE The({Accept(P, x.at, new, band) : new \in {Round(P, spec, x.at, moves)}})

\* tighten_lex
TightenLex(P, spec, at, band, rent, ends) ==
    LET after[n \in 0..P.cfg.tightenMax] ==
            IF n = 0 THEN [at |-> at, more |-> TRUE]
            ELSE NextRound(P, spec, after[n - 1], band, rent, ends)
    IN  after[P.cfg.tightenMax].at
=============================================================================
