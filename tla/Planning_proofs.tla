-------------------------- MODULE Planning_proofs --------------------------
EXTENDS Planning, SequenceLemmas, FiniteSetTheorems

-----------------------------------------------------------------------------
(* Lists: comprehensions, slices and sorted                                *)

(* The member of a set of one.                                             *)
LEMMA TheOne ==
    ASSUME NEW x
    PROVE  The({x}) = x
BY DEF The

(* What is true of the chosen members is true of all that are left.        *)
LEMMA WhereType ==
    ASSUME NEW S, NEW seq \in Seq(S), NEW I, NEW T,
           \A i \in DOMAIN seq : i \in I => seq[i] \in T
    PROVE  Where(seq, I) \in Seq(T)
<1>1. PICK ss : ss = [i \in DOMAIN seq |-> IF i \in I THEN <<seq[i]>> ELSE <<>>]
  OBVIOUS
<1>2. Len(seq) \in Nat /\ DOMAIN seq = 1..Len(seq)
  BY LenProperties
<1>3. ASSUME NEW i \in DOMAIN seq PROVE (IF i \in I THEN <<seq[i]>> ELSE <<>>) \in Seq(T)
  <2>1. CASE i \in I
    <3>1. seq[i] \in T
      BY <2>1
    <3> QED BY <2>1, <3>1
  <2>2. CASE i \notin I
    BY <2>2
  <2> QED BY <2>1, <2>2
<1>4. ss \in [1..Len(seq) -> Seq(T)]
  BY <1>1, <1>2, <1>3
<1>5. ss \in Seq(Seq(T))
  BY <1>2, <1>4, IsASeq
<1> QED BY <1>1, <1>5, FlattenSeqType DEF Where

(* seq[:n]                                                                 *)
LEMMA TakeFacts ==
    ASSUME NEW S, NEW seq \in Seq(S), NEW n \in Nat
    PROVE  /\ Take(seq, n) \in Seq(S)
           /\ Len(Take(seq, n)) <= Len(seq) /\ Len(Take(seq, n)) <= n
           /\ \A k \in DOMAIN Take(seq, n) : k \in DOMAIN seq /\ Take(seq, n)[k] = seq[k]
           /\ n >= Len(seq) => Take(seq, n) = seq
           /\ n < Len(seq) => Len(Take(seq, n)) = n
<1>1. PICK m : m = IF n < Len(seq) THEN n ELSE Len(seq)
  OBVIOUS
<1>2. Len(seq) \in Nat /\ DOMAIN seq = 1..Len(seq) /\ m \in 0..Len(seq) /\ m <= n
  BY <1>1, LenProperties
<1>3. PICK t : t = SubSeq(seq, 1, m)
  OBVIOUS
<1>4. Take(seq, n) = t
  BY <1>1, <1>3 DEF Take
<1>5. \A i \in 1..m : seq[i] \in S
  BY <1>2, ElementOfSeq
<1>6. /\ t \in Seq(S) /\ Len(t) = IF 1 <= m THEN m - 1 + 1 ELSE 0
      /\ \A i \in 1..(m - 1 + 1) : t[i] = seq[1 + i - 1]
  <2>1. 1 \in Int /\ m \in Int
    BY <1>2
  <2> QED BY <1>3, <1>5, <2>1, SubSeqProperties
<1>7. Len(t) = m /\ DOMAIN t = 1..m /\ \A i \in 1..m : t[i] = seq[i]
  <2>1. Len(t) = m
    BY <1>2, <1>6
  <2>2. DOMAIN t = 1..m
    BY <1>6, <2>1, LenProperties
  <2>3. \A i \in 1..m : i \in 1..(m - 1 + 1) /\ 1 + i - 1 = i
    BY <1>2
  <2> QED BY <1>6, <2>1, <2>2, <2>3
<1>8. n >= Len(seq) => t = seq
  <2>1. n >= Len(seq) => m = Len(seq)
    <3>1. PICK L \in Nat : L = Len(seq)
      BY <1>2
    <3>2. m = IF n < L THEN n ELSE L
      BY <1>1, <3>1
    <3>3. n >= L => m = L
      BY <3>2
    <3> QED BY <3>1, <3>3
  <2> QED BY <1>2, <1>6, <1>7, <2>1, SeqEqual
<1>9. n < Len(seq) => Len(t) = n
  BY <1>1, <1>7
<1> QED BY <1>2, <1>4, <1>6, <1>7, <1>8, <1>9

(* The position of the next row is one of the list.                        *)
LEMMA NextPositionType ==
    ASSUME NEW len \in Nat \ {0}, NEW rows, \A r \in rows : r[2] \in 1..len
    PROVE  NextPosition(rows) \in 1..len
<1>1. PICK S : S = {r[2] : r \in {r \in rows : \A s \in rows : ~Before(s, r)}}
  OBVIOUS
<1>2. S \subseteq 1..len
  BY <1>1
<1>3. MinOf(S, 1) \in 1..len
  <2>1. CASE S = {}
    BY <2>1 DEF MinOf
  <2>2. CASE S # {}
    <3>1. S \in SUBSET Nat
      BY <1>2
    <3>2. \E m \in S : \A n \in S : m <= n
      BY <2>2, <3>1, LeastElement
    <3>3. MinOf(S, 1) \in S
      BY <2>2, <3>2 DEF MinOf
    <3> QED BY <1>2, <3>3
  <2> QED BY <2>1, <2>2
<1> QED BY <1>1, <1>3 DEF NextPosition

(* So are all that sorted brings to the front.                             *)
LEMMA RankingType ==
    ASSUME NEW len \in Nat, NEW rows, \A r \in rows : r[2] \in 1..len, NEW n \in 0..len
    PROVE  Ranking(rows, n) \in Seq(1..len) /\ Len(Ranking(rows, n)) = n
<1>1. PICK R : R = Seq(1..len)
  OBVIOUS
<1>2. ASSUME NEW x \in R, NEW i \in 1..n
      PROVE  AddNext(rows, x) \in R /\ Len(AddNext(rows, x)) = Len(x) + 1
  <2>1. PICK left : left = {r \in rows : r[2] \notin Range(x)}
    OBVIOUS
  <2>2. len \in Nat \ {0} /\ \A r \in left : r[2] \in 1..len
    BY <2>1
  <2>3. NextPosition(left) \in 1..len
    BY <2>2, NextPositionType
  <2>4. AddNext(rows, x) = Append(x, NextPosition(left))
    BY <2>1 DEF AddNext
  <2> QED BY <1>1, <2>3, <2>4, AppendProperties
<1>3. PICK step : step = [p \in (1..n) \X R |-> AddNext(rows, p[2])]
  OBVIOUS
<1>4. step \in [(1..n) \X R -> R]
  <2>1. ASSUME NEW p \in (1..n) \X R PROVE AddNext(rows, p[2]) \in R
    BY <1>2
  <2> QED BY <1>3, <2>1
<1>5. PICK base : base = <<>>
  OBVIOUS
<1>6. base \in R /\ n \in Nat
  BY <1>1, <1>5, EmptySeq
<1>7. PICK f : Follows(f, n, R, base, step)
  BY <1>4, <1>6, Recursion
<1>8. f \in [0..n -> R] /\ f[0] = <<>> /\ \A i \in 1..n : f[i] = step[<<i, f[i - 1]>>]
  BY <1>5, <1>7 DEF Follows
<1>9. ASSUME NEW i \in 1..n PROVE f[i] = AddNext(rows, f[i - 1])
  <2>1. i - 1 \in 0..n
    OBVIOUS
  <2>2. <<i, f[i - 1]>> \in (1..n) \X R
    BY <1>8, <2>1
  <2> QED BY <1>3, <1>8, <2>2
<1>10. f = [i \in 0..n |-> IF i = 0 THEN <<>> ELSE AddNext(rows, f[i - 1])]
  <2>1. ASSUME NEW i \in 0..n
        PROVE  f[i] = IF i = 0 THEN <<>> ELSE AddNext(rows, f[i - 1])
    <3>1. CASE i = 0
      BY <1>8, <3>1
    <3>2. CASE i # 0
      <4>1. i \in 1..n
        BY <3>2
      <4> QED BY <1>9, <3>2, <4>1
    <3> QED BY <3>1, <3>2
  <2> QED BY <1>8, <2>1
<1>11. PICK g : g = CHOOSE made : made = [i \in 0..n |-> IF i = 0 THEN <<>> ELSE AddNext(rows, made[i - 1])]
  OBVIOUS
<1>12. g = [i \in 0..n |-> IF i = 0 THEN <<>> ELSE AddNext(rows, g[i - 1])]
  BY <1>10, <1>11
<1>13. g[0] = <<>> /\ \A i \in 1..n : g[i] = AddNext(rows, g[i - 1])
  <2>1. 0 \in 0..n /\ \A i \in 1..n : i \in 0..n /\ i # 0
    OBVIOUS
  <2> QED BY <1>12, <2>1
<1>14. \A i \in 0..n : g[i] \in R
  <2>1. \A i \in 1..n : g[i - 1] \in R => g[i] \in R
    BY <1>2, <1>13
  <2>2. g[0] \in R
    BY <1>5, <1>6, <1>13
  <2> QED BY <1>6, <2>1, <2>2, LoopInvariant
<1>15. PICK more : more = [i \in 0..n |-> Len(g[i]) - i]
  OBVIOUS
<1>16. \A i \in 0..n : more[i] \in {0}
  <2>1. more[0] \in {0}
    BY <1>13, <1>15, EmptySeq
  <2>2. ASSUME NEW i \in 1..n, more[i - 1] \in {0} PROVE more[i] \in {0}
    <3>1. i - 1 \in 0..n /\ i \in 0..n
      OBVIOUS
    <3>2. g[i - 1] \in R /\ Len(g[i - 1]) \in Nat
      BY <1>1, <1>14, <3>1, LenProperties
    <3>3. Len(g[i]) = Len(g[i - 1]) + 1
      BY <1>2, <1>13, <3>2
    <3> QED BY <1>15, <2>2, <3>1, <3>2, <3>3
  <2>3. \A i \in 1..n : more[i - 1] \in {0} => more[i] \in {0}
    BY <2>2
  <2> QED BY <1>6, <2>1, <2>3, LoopInvariant
<1>17. Ranking(rows, n) = g[n]
  BY <1>11 DEF Ranking
<1>18. n \in 0..n
  BY <1>6
<1>19. g[n] \in Seq(1..len) /\ Len(g[n]) \in Nat
  BY <1>1, <1>14, <1>18, LenProperties
<1>20. Len(g[n]) = n
  <2>1. Len(g[n]) - n = 0
    BY <1>15, <1>16, <1>18
  <2> QED BY <1>19, <2>1
<1> QED BY <1>17, <1>19, <1>20

(* sorted(seq)[:n] has members of seq, n of them or all.                   *)
LEMMA BestFacts ==
    ASSUME NEW S, NEW seq \in Seq(S), NEW key, NEW n \in Nat
    PROVE  /\ Best(seq, key, n) \in Seq(S)
           /\ ToSet(Best(seq, key, n)) \subseteq ToSet(seq)
           /\ Len(Best(seq, key, n)) = IF n < Len(seq) THEN n ELSE Len(seq)
<1>1. PICK len \in Nat : len = Len(seq)
  BY LenProperties
<1>2. DOMAIN seq = 1..len /\ \A i \in 1..len : seq[i] \in S
  BY <1>1, ElementOfSeq, LenProperties
<1>3. PICK m : m = IF n < Len(seq) THEN n ELSE Len(seq)
  OBVIOUS
<1>4. m \in 0..len
  BY <1>1, <1>3
<1>5. PICK rows : rows = {<<key[i], i>> : i \in DOMAIN seq}
  OBVIOUS
<1>6. \A r \in rows : r[2] \in 1..len
  BY <1>2, <1>5
<1>7. PICK at : at = Ranking(rows, m)
  OBVIOUS
<1>8. at \in Seq(1..len) /\ Len(at) = m
  BY <1>4, <1>6, <1>7, RankingType
<1>9. \A k \in 1..m : at[k] \in 1..len
  BY <1>8, ElementOfSeq
<1>10. PICK best : best = [k \in 1..m |-> seq[at[k]]]
  OBVIOUS
<1>11. Best(seq, key, n) = Take(best, n)
  BY <1>3, <1>5, <1>7, <1>10 DEF Best
<1>12. best \in Seq(ToSet(seq)) /\ best \in Seq(S)
  <2>1. \A k \in 1..m : seq[at[k]] \in ToSet(seq) /\ seq[at[k]] \in S
    BY <1>2, <1>9 DEF ToSet
  <2>2. best \in [1..m -> ToSet(seq)] /\ best \in [1..m -> S] /\ m \in Nat
    BY <1>4, <1>10, <2>1
  <2> QED BY <2>2, IsASeq
<1>13. Len(best) = m /\ m <= n
  <2>1. DOMAIN best = 1..m /\ m \in Nat
    BY <1>4, <1>10
  <2>2. m <= n
    <3>1. m = IF n < len THEN n ELSE len
      BY <1>1, <1>3
    <3> QED BY <3>1
  <2>3. Len(best) = m
    BY <1>12, <2>1, LenProperties
  <2> QED BY <2>2, <2>3
<1>14. Take(best, n) = best
  <2>1. n >= Len(best)
    BY <1>4, <1>13
  <2> QED BY <1>12, <2>1, TakeFacts
<1>15. ToSet(best) \subseteq ToSet(seq)
  BY <1>12, ElementsOfQueue
<1> QED BY <1>3, <1>11, <1>12, <1>13, <1>14, <1>15

-----------------------------------------------------------------------------
(* The search for one segment                                              *)

(* A bounded set of naturals has a largest element.                        *)
LEMMA MaxOfNat ==
    ASSUME NEW n \in Nat, NEW S \in SUBSET (0..n)
    PROVE  MaxOf(S, 0) \in Nat /\ (S # {} => MaxOf(S, 0) \in S /\ \A x \in S : x <= MaxOf(S, 0))
<1>1. CASE S = {}
  BY <1>1 DEF MaxOf
<1>2. CASE S # {}
  <2>1. PICK D : D = {n - x : x \in S}
    OBVIOUS
  <2>2. D \in SUBSET Nat /\ D # {}
    <3>1. \A x \in S : n - x \in Nat
      <4>1. TAKE x \in S
      <4>2. x \in 0..n
        OBVIOUS
      <4> QED BY <4>2
    <3> QED BY <1>2, <2>1, <3>1
  <2>3. PICK d \in D : \A e \in D : d <= e
    BY <2>2, LeastElement
  <2>4. PICK m \in S : d = n - m
    BY <2>1, <2>3
  <2>5. ASSUME NEW x \in S PROVE x <= m
    <3>1. n - x \in D
      BY <2>1
    <3>2. n - m <= n - x /\ m \in 0..n /\ x \in 0..n
      BY <2>3, <2>4, <3>1
    <3> QED BY <3>2
  <2>6. MaxOf(S, 0) \in S /\ \A x \in S : x <= MaxOf(S, 0)
    BY <1>2, <2>5 DEF MaxOf
  <2>7. MaxOf(S, 0) \in 0..n
    BY <2>6
  <2> QED BY <2>6, <2>7
<1> QED BY <1>1, <1>2

(* The list of a set of machines.                                          *)
LEMMA InOrderType ==
    ASSUME NEW n \in Nat, NEW S \in SUBSET (0..n)
    PROVE  InOrder(S) \in Seq(S)
<1>1. PICK m \in Nat : m = MaxOf(S, 0)
  BY MaxOfNat
<1>2. PICK all : all = [i \in 1..m |-> i]
  OBVIOUS
<1>3. all \in Seq(Nat) /\ DOMAIN all = 1..m
  <2>1. all \in [1..m -> Nat]
    BY <1>2
  <2> QED BY <1>2, <2>1, IsASeq
<1>4. \A i \in DOMAIN all : i \in S => all[i] \in S
  BY <1>2, <1>3
<1>5. Where(all, S) \in Seq(S)
  BY <1>3, <1>4, WhereType
<1> QED BY <1>1, <1>2, <1>5 DEF InOrder

(* What a problem must have for the search: numbered machines, whole       *)
(* numbers of layers and of candidates.                                    *)
Searchable(Q) ==
    /\ \E n \in Nat : Q.nodes \subseteq 0..n
    /\ Q.L \in Nat
    /\ Q.cfg.prune \in Nat /\ Q.cfg.beam \in Nat /\ Q.cfg.beamFront \in Nat
    /\ Q.cfg.tightenMax \in Nat

Interval(spec) == spec.lo \in Int /\ spec.hi \in Int

(* A chain of machines ns out of S with the intervals ss of layers, from   *)
(* the first one on.                                                       *)
Sound(Q, spec, S, ns, ss) ==
    /\ ns \in Seq(S) /\ ss \in Seq(Int \X Int) /\ Len(ns) = Len(ss) /\ ns # <<>>
    /\ IsInjective(ns)
    /\ ss[1][1] = spec.lo /\ Contiguous(ss)
    /\ Last(ss)[2] <= spec.hi /\ (Last(ss)[2] = spec.hi => Last(ns) \in spec.tails)
    /\ \A i \in DOMAIN ns : Resident(Q, spec, ss[i][1], ss[i][2]) <= Q.mem[ns[i]]
    /\ \A i \in 1..(Len(ns) - 1) : ~Blocked(Q, ns[i], ns[i + 1])

Chains(Q, spec, S) == {c \in Seq(S) \X Seq(Int \X Int) : Sound(Q, spec, S, c[1], c[2])}
Partials(Q, spec, S) == {Segment(Q, spec, c[1], c[2]) : c \in Chains(Q, spec, S)}
Placements(Q, spec, S) == {seg \in Partials(Q, spec, S) : Complete(spec, seg)}

(* A partial segment is the segment of a chain that is sound.              *)
LEMMA PartialFacts ==
    ASSUME NEW Q, NEW spec, NEW S, NEW seg \in Partials(Q, spec, S)
    PROVE  /\ Sound(Q, spec, S, seg.nodes, seg.splits)
           /\ seg = Segment(Q, spec, seg.nodes, seg.splits)
<1>1. PICK c \in Chains(Q, spec, S) : seg = Segment(Q, spec, c[1], c[2])
  BY DEF Partials
<1>2. seg.nodes = c[1] /\ seg.splits = c[2]
  BY <1>1 DEF Segment
<1> QED BY <1>1, <1>2 DEF Chains

(* The segment of a sound chain is a partial segment.                      *)
LEMMA IsPartial ==
    ASSUME NEW Q, NEW spec, NEW S, NEW ns, NEW ss, Sound(Q, spec, S, ns, ss)
    PROVE  Segment(Q, spec, ns, ss) \in Partials(Q, spec, S)
<1>1. <<ns, ss>> \in Chains(Q, spec, S)
  BY DEF Chains, Sound
<1> QED BY <1>1 DEF Partials

(* The first machine of a chain.                                           *)
LEMMA SoundStart ==
    ASSUME NEW Q, NEW spec, Interval(spec), NEW S, NEW v \in S, NEW hi \in Int,
           spec.lo <= hi, hi <= spec.hi, MemOk(Q, spec, spec.lo, hi, v),
           hi = spec.hi => v \in spec.tails
    PROVE  Sound(Q, spec, S, Append(<<>>, v), Append(<<>>, <<spec.lo, hi>>))
<1>1. PICK r : r = <<spec.lo, hi>>
  OBVIOUS
<1>2. r \in Int \X Int /\ r[1] = spec.lo /\ r[2] = hi
  BY <1>1 DEF Interval
<1>3. Append(<<>>, v) = <<v>> /\ Append(<<>>, r) = <<r>>
  OBVIOUS
<1>4. /\ <<v>> \in Seq(S) /\ Len(<<v>>) = 1 /\ DOMAIN <<v>> = {1} /\ <<v>>[1] = v /\ <<v>> # <<>>
      /\ <<r>> \in Seq(Int \X Int) /\ Len(<<r>>) = 1 /\ DOMAIN <<r>> = {1} /\ <<r>>[1] = r
  BY <1>2
<1>5. Last(<<v>>) = v /\ Last(<<r>>) = r
  BY <1>4 DEF Last
<1>6. IsInjective(<<v>>)
  BY <1>4 DEF IsInjective
<1>7. Contiguous(<<r>>)
  BY <1>2, <1>4 DEF Contiguous
<1>8. Resident(Q, spec, r[1], r[2]) <= Q.mem[v]
  BY <1>2 DEF MemOk
<1>9. Sound(Q, spec, S, <<v>>, <<r>>)
  <2>1. \A i \in DOMAIN <<v>> : Resident(Q, spec, <<r>>[i][1], <<r>>[i][2]) <= Q.mem[<<v>>[i]]
    BY <1>4, <1>8
  <2>2. \A i \in 1..(Len(<<v>>) - 1) : ~Blocked(Q, <<v>>[i], <<v>>[i + 1])
    BY <1>4
  <2>3. Last(<<r>>)[2] <= spec.hi /\ (Last(<<r>>)[2] = spec.hi => Last(<<v>>) \in spec.tails)
    BY <1>2, <1>5
  <2>4. <<r>>[1][1] = spec.lo
    BY <1>2, <1>4
  <2> QED BY <1>4, <1>6, <1>7, <2>1, <2>2, <2>3, <2>4 DEF Sound
<1> QED BY <1>1, <1>3, <1>9

(* One machine more.                                                       *)
LEMMA SoundAppend ==
    ASSUME NEW Q, NEW spec, Interval(spec), NEW S, NEW ns, NEW ss, Sound(Q, spec, S, ns, ss),
           NEW v \in S, v \notin Range(ns), ~Blocked(Q, Last(ns), v),
           NEW lo \in Int, lo = Last(ss)[2] + 1, NEW hi \in Int, lo <= hi, hi <= spec.hi,
           MemOk(Q, spec, lo, hi, v), hi = spec.hi => v \in spec.tails
    PROVE  Sound(Q, spec, S, Append(ns, v), Append(ss, <<lo, hi>>))
<1>1. PICK r : r = <<lo, hi>>
  OBVIOUS
<1>2. r \in Int \X Int /\ r[1] = lo /\ r[2] = hi
  BY <1>1
<1>3. ns \in Seq(S) /\ ss \in Seq(Int \X Int) /\ Len(ns) = Len(ss) /\ ns # <<>>
  BY DEF Sound
<1>4. PICK n \in Nat : n = Len(ns)
  BY <1>3, LenProperties
<1>5. DOMAIN ns = 1..n /\ DOMAIN ss = 1..n /\ n >= 1 /\ Last(ns) = ns[n] /\ Last(ss) = ss[n]
  BY <1>3, <1>4, EmptySeq, LenProperties DEF Last
<1>6. PICK ns2 : ns2 = Append(ns, v)
  OBVIOUS
<1>7. PICK ss2 : ss2 = Append(ss, r)
  OBVIOUS
<1>8. /\ ns2 \in Seq(S) /\ ns2 # <<>> /\ Len(ns2) = n + 1 /\ ns2[n + 1] = v
      /\ \A i \in 1..n : ns2[i] = ns[i]
  BY <1>3, <1>4, <1>6, AppendProperties
<1>9. /\ ss2 \in Seq(Int \X Int) /\ Len(ss2) = n + 1 /\ ss2[n + 1] = r
      /\ \A i \in 1..n : ss2[i] = ss[i]
  BY <1>2, <1>3, <1>4, <1>7, AppendProperties
<1>10. /\ DOMAIN ns2 = 1..(n + 1) /\ DOMAIN ss2 = 1..(n + 1)
       /\ Last(ns2) = v /\ Last(ss2) = r
  BY <1>8, <1>9, LenProperties DEF Last
<1>11. IsInjective(ns2)
  <2>1. \A i, j \in 1..n : ns[i] = ns[j] => i = j
    BY <1>5 DEF Sound, IsInjective
  <2>2. \A i \in 1..n : ns[i] # v
    BY <1>5 DEF Range
  <2>3. ASSUME NEW i \in 1..(n + 1), NEW j \in 1..(n + 1), ns2[i] = ns2[j] PROVE i = j
    <3>1. (i \in 1..n \/ i = n + 1) /\ (j \in 1..n \/ j = n + 1)
      OBVIOUS
    <3> QED BY <1>8, <2>1, <2>2, <2>3, <3>1
  <2> QED BY <1>10, <2>3 DEF IsInjective
<1>12. ss2[1][1] = spec.lo
  <2>1. 1 \in 1..n
    BY <1>5
  <2> QED BY <1>9, <2>1 DEF Sound
<1>13. Contiguous(ss2)
  <2>1. ASSUME NEW i \in 1..(n + 1)
        PROVE  ss2[i][1] <= ss2[i][2] /\ (i > 1 => ss2[i][1] = ss2[i - 1][2] + 1)
    <3>1. CASE i \in 1..n
      <4>1. ss[i][1] <= ss[i][2] /\ (i > 1 => ss[i][1] = ss[i - 1][2] + 1)
        BY <1>5, <3>1 DEF Sound, Contiguous
      <4>2. ss2[i] = ss[i]
        BY <1>9, <3>1
      <4>3. CASE i > 1
        <5>1. i - 1 \in 1..n
          BY <3>1, <4>3
        <5>2. ss2[i - 1] = ss[i - 1]
          BY <1>9, <5>1
        <5> QED BY <4>1, <4>2, <4>3, <5>2
      <4>4. CASE ~(i > 1)
        BY <4>1, <4>2, <4>4
      <4> QED BY <4>3, <4>4
    <3>2. CASE i = n + 1
      <4>1. ss2[i] = r /\ i - 1 = n /\ ss2[n] = ss[n]
        BY <1>5, <1>9, <3>2
      <4> QED BY <1>2, <1>5, <4>1
    <3> QED BY <3>1, <3>2
  <2> QED BY <1>10, <2>1 DEF Contiguous
<1>14. Last(ss2)[2] <= spec.hi /\ (Last(ss2)[2] = spec.hi => Last(ns2) \in spec.tails)
  BY <1>2, <1>10
<1>15. ASSUME NEW i \in DOMAIN ns2 PROVE Resident(Q, spec, ss2[i][1], ss2[i][2]) <= Q.mem[ns2[i]]
  <2>1. CASE i \in 1..n
    <3>1. Resident(Q, spec, ss[i][1], ss[i][2]) <= Q.mem[ns[i]]
      BY <1>5, <2>1 DEF Sound
    <3> QED BY <1>8, <1>9, <2>1, <3>1
  <2>2. CASE i = n + 1
    <3>1. Resident(Q, spec, r[1], r[2]) <= Q.mem[v]
      BY <1>2 DEF MemOk
    <3> QED BY <1>8, <1>9, <2>2, <3>1
  <2> QED BY <1>10, <2>1, <2>2
<1>16. ASSUME NEW i \in 1..(Len(ns2) - 1) PROVE ~Blocked(Q, ns2[i], ns2[i + 1])
  <2>1. i \in 1..n
    BY <1>8
  <2>2. CASE i < n
    <3>1. i \in 1..(Len(ns) - 1) /\ i + 1 \in 1..n
      BY <1>4, <2>1, <2>2
    <3>2. ~Blocked(Q, ns[i], ns[i + 1])
      BY <3>1 DEF Sound
    <3> QED BY <1>8, <2>1, <3>1, <3>2
  <2>3. CASE i = n
    BY <1>5, <1>8, <2>1, <2>3
  <2> QED BY <2>1, <2>2, <2>3
<1>17. Sound(Q, spec, S, ns2, ss2)
  BY <1>8, <1>9, <1>11, <1>12, <1>13, <1>14, <1>15, <1>16 DEF Sound
<1> QED BY <1>1, <1>6, <1>7, <1>17

(* The ways to go on are chains: from nothing, or from a chain not ended.  *)
LEMMA ExtensionsType ==
    ASSUME NEW Q, NEW spec, Interval(spec), NEW S, NEW ns, NEW ss, NEW lo \in Int, NEW v \in S,
           \/ ns = <<>> /\ ss = <<>> /\ lo = spec.lo /\ spec.lo <= spec.hi
           \/ /\ Sound(Q, spec, S, ns, ss) /\ lo = Last(ss)[2] + 1
              /\ v \notin Range(ns) /\ ~Blocked(Q, Last(ns), v)
    PROVE  Extensions(Q, spec, ns, ss, lo, v) \in Seq(Partials(Q, spec, S))
<1>1. spec.hi \in Int
  BY DEF Interval
<1>2. lo <= spec.hi + 1
  <2>1. CASE lo = spec.lo /\ spec.lo <= spec.hi
    BY <1>1, <2>1
  <2>2. CASE Sound(Q, spec, S, ns, ss) /\ lo = Last(ss)[2] + 1
    <3>1. Last(ss)[2] <= spec.hi
      BY <2>2 DEF Sound
    <3>2. PICK m : m = Last(ss)[2]
      OBVIOUS
    <3>3. m \in Int
      <4>1. ss \in Seq(Int \X Int) /\ Len(ss) >= 1 /\ Len(ss) \in Nat
        BY <2>2, EmptySeq, LenProperties DEF Sound
      <4>2. ss[Len(ss)] \in Int \X Int
        BY <4>1, ElementOfSeq
      <4> QED BY <3>2, <4>2 DEF Last
    <3> QED BY <1>1, <2>2, <3>1, <3>2, <3>3
  <2> QED BY <2>1, <2>2
<1>3. PICK n \in Nat : n = spec.hi - lo + 1
  BY <1>1, <1>2
<1>4. PICK all : all = [k \in 1..n |-> Segment(Q, spec, Append(ns, v), Append(ss, <<lo, lo + k - 1>>))]
  OBVIOUS
<1>5. PICK R : R = Range(all)
  OBVIOUS
<1>6. all \in Seq(R) /\ DOMAIN all = 1..n
  <2>1. DOMAIN all = 1..n /\ \A k \in 1..n : all[k] \in R
    BY <1>4, <1>5 DEF Range
  <2>2. all \in [1..n -> R]
    BY <1>4, <2>1
  <2> QED BY <2>1, <2>2, IsASeq
<1>7. PICK I : I = {k \in DOMAIN all : /\ MemOk(Q, spec, lo, lo + k - 1, v)
                                       /\ lo + k - 1 = spec.hi => v \in spec.tails}
  OBVIOUS
<1>8. ASSUME NEW k \in DOMAIN all, k \in I PROVE all[k] \in Partials(Q, spec, S)
  <2>1. PICK hi \in Int : hi = lo + k - 1
    BY <1>6
  <2>2. lo <= hi /\ hi <= spec.hi
    BY <1>1, <1>3, <1>6, <2>1
  <2>3. MemOk(Q, spec, lo, hi, v) /\ (hi = spec.hi => v \in spec.tails)
    BY <1>7, <1>8, <2>1
  <2>4. all[k] = Segment(Q, spec, Append(ns, v), Append(ss, <<lo, hi>>))
    BY <1>4, <1>6, <2>1
  <2>5. Sound(Q, spec, S, Append(ns, v), Append(ss, <<lo, hi>>))
    <3>1. CASE ns = <<>> /\ ss = <<>> /\ lo = spec.lo
      <4>1. Sound(Q, spec, S, Append(<<>>, v), Append(<<>>, <<spec.lo, hi>>))
        BY <2>2, <2>3, <3>1, SoundStart
      <4> QED BY <3>1, <4>1
    <3>2. CASE /\ Sound(Q, spec, S, ns, ss) /\ lo = Last(ss)[2] + 1
               /\ v \notin Range(ns) /\ ~Blocked(Q, Last(ns), v)
      BY <2>2, <2>3, <3>2, SoundAppend
    <3> QED BY <3>1, <3>2
  <2> QED BY <2>4, <2>5, IsPartial
<1>9. Where(all, I) \in Seq(Partials(Q, spec, S))
  BY <1>6, <1>8, WhereType
<1>10. Extensions(Q, spec, ns, ss, lo, v) = Where(all, I)
  BY <1>3, <1>4, <1>7 DEF Extensions
<1> QED BY <1>9, <1>10

(* A list of lists of chains, one after the other.                         *)
LEMMA FlattenAll ==
    ASSUME NEW T, NEW vs, NEW S, vs \in Seq(S), NEW ss, DOMAIN ss = DOMAIN vs,
           ss = [i \in DOMAIN ss |-> ss[i]], \A i \in DOMAIN vs : ss[i] \in Seq(T)
    PROVE  FlattenSeq(ss) \in Seq(T)
<1>1. Len(vs) \in Nat /\ DOMAIN vs = 1..Len(vs)
  BY LenProperties
<1>2. ss \in [1..Len(vs) -> Seq(T)]
  BY <1>1
<1>3. ss \in Seq(Seq(T))
  BY <1>1, <1>2, IsASeq
<1> QED BY <1>3, FlattenSeqType

(* What the cut of the beam leaves are some of the segments.               *)
LEMMA KeepBestType ==
    ASSUME NEW Q, NEW spec, NEW g, g.beam \in Nat, NEW T, NEW segs \in Seq(T)
    PROVE  KeepBest(Q, spec, g, segs) \in Seq(T)
BY BestFacts DEF KeepBest

(* From nothing.                                                           *)
LEMMA StartsType ==
    ASSUME NEW Q, Searchable(Q), NEW spec, Interval(spec), spec.lo <= spec.hi,
           NEW S, NEW avail \in Seq(S), NEW g, g.beam \in Nat
    PROVE  Starts(Q, spec, avail, g) \in Seq(Partials(Q, spec, S))
<1>1. PICK m : m = MaxOf({Q.cfg.prune, g.beam}, 0)
  OBVIOUS
<1>2. m \in Nat
  <2>1. PICK a \in Nat : a = Q.cfg.prune
    BY DEF Searchable
  <2>2. PICK b \in Nat : b = g.beam
    OBVIOUS
  <2>3. {a, b} \in SUBSET (0..(a + b)) /\ a + b \in Nat
    OBVIOUS
  <2> QED BY <1>1, <2>1, <2>2, <2>3, MaxOfNat
<1>3. PICK vs : vs = Best(avail, [i \in DOMAIN avail |-> <<-Q.mem[avail[i]], Q.stab[avail[i]]>>], m)
  OBVIOUS
<1>4. vs \in Seq(S)
  BY <1>2, <1>3, BestFacts
<1>5. PICK ss : ss = [i \in DOMAIN vs |-> Extensions(Q, spec, <<>>, <<>>, spec.lo, vs[i])]
  OBVIOUS
<1>6. ASSUME NEW i \in DOMAIN vs PROVE ss[i] \in Seq(Partials(Q, spec, S))
  <2>1. vs[i] \in S
    BY <1>4, ElementOfSeq, LenProperties
  <2>2. Extensions(Q, spec, <<>>, <<>>, spec.lo, vs[i]) \in Seq(Partials(Q, spec, S))
    BY <2>1, ExtensionsType DEF Interval
  <2> QED BY <1>5, <2>2
<1>7. FlattenSeq(ss) \in Seq(Partials(Q, spec, S))
  BY <1>4, <1>5, <1>6, FlattenAll
<1>8. Starts(Q, spec, avail, g) = KeepBest(Q, spec, g, FlattenSeq(ss))
  BY <1>1, <1>3, <1>5 DEF Starts
<1> QED BY <1>7, <1>8, KeepBestType

(* The machines worth going to can be gone to.                             *)
LEMMA PruneType ==
    ASSUME NEW Q, Searchable(Q), NEW v, NEW S, NEW avail \in Seq(S)
    PROVE  PruneNeighbors(Q, v, avail) \in Seq({u \in S : ~Blocked(Q, v, u)})
<1>1. PICK T : T = {u \in S : ~Blocked(Q, v, u)}
  OBVIOUS
<1>2. PICK us : us = Where(avail, {i \in DOMAIN avail : avail[i] # v /\ ~Blocked(Q, v, avail[i])})
  OBVIOUS
<1>3. us \in Seq(T)
  <2>1. \A i \in DOMAIN avail : avail[i] \in S
    BY ElementOfSeq, LenProperties
  <2>2. \A i \in DOMAIN avail :
            i \in {j \in DOMAIN avail : avail[j] # v /\ ~Blocked(Q, v, avail[j])} => avail[i] \in T
    BY <1>1, <2>1
  <2> QED BY <1>2, <2>2, WhereType
<1>4. Q.cfg.prune \in Nat
  BY DEF Searchable
<1>5. Best(us, [i \in DOMAIN us |-> <<-Q.mem[us[i]], Delay(Q, v, us[i]), Q.stab[us[i]]>>],
           Q.cfg.prune) \in Seq(T)
  BY <1>3, <1>4, BestFacts
<1> QED BY <1>1, <1>2, <1>5 DEF PruneNeighbors

(* From a chain.                                                           *)
LEMMA SuccessorsType ==
    ASSUME NEW Q, Searchable(Q), NEW spec, Interval(spec), NEW S, NEW avail \in Seq(S),
           NEW seg \in Partials(Q, spec, S)
    PROVE  Successors(Q, spec, avail, seg) \in Seq(Partials(Q, spec, S))
<1>1. Sound(Q, spec, S, seg.nodes, seg.splits)
  BY PartialFacts
<1>2. PICK v : v = TailOf(seg)
  OBVIOUS
<1>3. v = Last(seg.nodes)
  BY <1>2 DEF TailOf
<1>4. PICK T : T = {u \in S : ~Blocked(Q, v, u)}
  OBVIOUS
<1>5. PICK near : near = PruneNeighbors(Q, v, avail)
  OBVIOUS
<1>6. near \in Seq(T)
  BY <1>4, <1>5, PruneType
<1>7. PICK vs : vs = Where(near, {i \in DOMAIN near : near[i] \notin NodesOf(seg)})
  OBVIOUS
<1>8. PICK U : U = {u \in T : u \notin NodesOf(seg)}
  OBVIOUS
<1>9. vs \in Seq(U)
  <2>1. \A i \in DOMAIN near : near[i] \in T
    BY <1>6, ElementOfSeq, LenProperties
  <2>2. \A i \in DOMAIN near : i \in {j \in DOMAIN near : near[j] \notin NodesOf(seg)} => near[i] \in U
    BY <1>8, <2>1
  <2> QED BY <1>6, <1>7, <2>2, WhereType
<1>10. PICK lo : lo = Last(seg.splits)[2] + 1
  OBVIOUS
<1>11. lo \in Int
  <2>1. seg.splits \in Seq(Int \X Int) /\ seg.splits # <<>>
    <3>1. seg.splits \in Seq(Int \X Int) /\ seg.nodes \in Seq(S) /\ seg.nodes # <<>>
          /\ Len(seg.nodes) = Len(seg.splits)
      BY <1>1 DEF Sound
    <3> QED BY <3>1, EmptySeq
  <2>2. Len(seg.splits) \in 1..Len(seg.splits)
    BY <2>1, EmptySeq, LenProperties
  <2>3. seg.splits[Len(seg.splits)] \in Int \X Int
    BY <2>1, <2>2, ElementOfSeq
  <2> QED BY <1>10, <2>3 DEF Last
<1>12. PICK ss : ss = [i \in DOMAIN vs |-> Extensions(Q, spec, seg.nodes, seg.splits, lo, vs[i])]
  OBVIOUS
<1>13. ASSUME NEW i \in DOMAIN vs PROVE ss[i] \in Seq(Partials(Q, spec, S))
  <2>1. PICK u : u = vs[i]
    OBVIOUS
  <2>2. u \in U
    BY <1>9, <2>1, ElementOfSeq, LenProperties
  <2>3. u \in S /\ ~Blocked(Q, Last(seg.nodes), u) /\ u \notin Range(seg.nodes)
    BY <1>3, <1>4, <1>8, <2>2 DEF NodesOf
  <2>4. Extensions(Q, spec, seg.nodes, seg.splits, lo, u) \in Seq(Partials(Q, spec, S))
    BY <1>1, <1>10, <1>11, <2>3, ExtensionsType
  <2> QED BY <1>12, <2>1, <2>4
<1>14. FlattenSeq(ss) \in Seq(Partials(Q, spec, S))
  BY <1>9, <1>12, <1>13, FlattenAll
<1>15. Successors(Q, spec, avail, seg) = FlattenSeq(ss)
  BY <1>2, <1>5, <1>7, <1>10, <1>12 DEF Successors
<1> QED BY <1>14, <1>15

(* A round of the search.                                                  *)
Searching(Q, spec, S) ==
    [kept : Seq(Partials(Q, spec, S)), finished : Seq(Placements(Q, spec, S))]

(* A round of the search keeps partial segments and finishes placements.   *)
LEMMA GrowType ==
    ASSUME NEW Q, Searchable(Q), NEW spec, Interval(spec), NEW S, NEW avail \in Seq(S),
           NEW g, g.beam \in Nat, NEW at \in Searching(Q, spec, S)
    PROVE  Grow(Q, spec, avail, g, at) \in Searching(Q, spec, S)
<1>1. PICK T : T = Partials(Q, spec, S)
  OBVIOUS
<1>2. PICK D : D = Placements(Q, spec, S)
  OBVIOUS
<1>3. at.kept \in Seq(T) /\ at.finished \in Seq(D)
  BY <1>1, <1>2 DEF Searching
<1>4. PICK done : done = {i \in DOMAIN at.kept : Complete(spec, at.kept[i])}
  OBVIOUS
<1>5. PICK open : open = Where(at.kept, DOMAIN at.kept \ done)
  OBVIOUS
<1>6. \A i \in DOMAIN at.kept : at.kept[i] \in T
  BY <1>3, ElementOfSeq, LenProperties
<1>7. open \in Seq(T)
  BY <1>3, <1>5, <1>6, WhereType
<1>8. Where(at.kept, done) \in Seq(D)
  <2>1. \A i \in DOMAIN at.kept : i \in done => at.kept[i] \in D
    BY <1>1, <1>2, <1>4, <1>6 DEF Placements
  <2> QED BY <1>3, <2>1, WhereType
<1>9. PICK ss : ss = [i \in DOMAIN open |-> Successors(Q, spec, avail, open[i])]
  OBVIOUS
<1>10. ASSUME NEW i \in DOMAIN open PROVE ss[i] \in Seq(T)
  <2>1. open[i] \in T
    BY <1>7, ElementOfSeq, LenProperties
  <2> QED BY <1>1, <1>9, <2>1, SuccessorsType
<1>11. FlattenSeq(ss) \in Seq(T)
  BY <1>7, <1>9, <1>10, FlattenAll
<1>12. KeepBest(Q, spec, g, FlattenSeq(ss)) \in Seq(T)
  BY <1>11, KeepBestType
<1>13. at.finished \o Where(at.kept, done) \in Seq(D)
  BY <1>3, <1>8, ConcatProperties
<1>14. Grow(Q, spec, avail, g, at) = [kept |-> KeepBest(Q, spec, g, FlattenSeq(ss)),
                                      finished |-> at.finished \o Where(at.kept, done)]
  BY <1>4, <1>5, <1>9 DEF Grow
<1> QED BY <1>1, <1>2, <1>12, <1>13, <1>14 DEF Searching

(* All rounds of the search.                                               *)
LEMMA GrownType ==
    ASSUME NEW Q, Searchable(Q), NEW spec, Interval(spec), NEW n \in Nat, n = Layers(spec), n > 0,
           NEW S, NEW avail \in Seq(S), NEW g, g.beam \in Nat
    PROVE  Grown(Q, spec, avail, g)[n] \in Searching(Q, spec, S)
<1>1. PICK R : R = Searching(Q, spec, S)
  OBVIOUS
<1>2. PICK base : base = [kept |-> Starts(Q, spec, avail, g), finished |-> <<>>]
  OBVIOUS
<1>3. base \in R
  <2>1. spec.lo <= spec.hi
    BY DEF Layers, Interval
  <2>2. Starts(Q, spec, avail, g) \in Seq(Partials(Q, spec, S))
    BY <2>1, StartsType
  <2>3. <<>> \in Seq(Placements(Q, spec, S))
    BY EmptySeq
  <2> QED BY <1>1, <1>2, <2>2, <2>3 DEF Searching
<1>4. ASSUME NEW x \in R PROVE Grow(Q, spec, avail, g, x) \in R
  BY <1>1, <1>4, GrowType
<1>5. PICK step : step = [p \in (1..n) \X R |-> Grow(Q, spec, avail, g, p[2])]
  OBVIOUS
<1>6. step \in [(1..n) \X R -> R]
  BY <1>4, <1>5
<1>7. PICK f : Follows(f, n, R, base, step)
  BY <1>3, <1>6, Recursion
<1>8. f \in [0..n -> R] /\ f[0] = base /\ \A i \in 1..n : f[i] = step[<<i, f[i - 1]>>]
  BY <1>7 DEF Follows
<1>9. ASSUME NEW i \in 1..n PROVE f[i] = Grow(Q, spec, avail, g, f[i - 1])
  <2>1. i - 1 \in 0..n
    OBVIOUS
  <2>2. <<i, f[i - 1]>> \in (1..n) \X R
    BY <1>8, <2>1
  <2> QED BY <1>5, <1>8, <2>2
<1>10. f = [i \in 0..n |-> IF i = 0 THEN base ELSE Grow(Q, spec, avail, g, f[i - 1])]
  <2>1. ASSUME NEW i \in 0..n
        PROVE  f[i] = IF i = 0 THEN base ELSE Grow(Q, spec, avail, g, f[i - 1])
    <3>1. CASE i = 0
      BY <1>8, <3>1
    <3>2. CASE i # 0
      <4>1. i \in 1..n
        BY <3>2
      <4> QED BY <1>9, <3>2, <4>1
    <3> QED BY <3>1, <3>2
  <2> QED BY <1>8, <2>1
<1>11. PICK h : h = Grown(Q, spec, avail, g)
  OBVIOUS
<1>12. h = [i \in 0..n |-> IF i = 0 THEN base ELSE Grow(Q, spec, avail, g, h[i - 1])]
  BY <1>2, <1>10, <1>11 DEF Grown
<1>13. h[0] = base /\ \A i \in 1..n : h[i] = Grow(Q, spec, avail, g, h[i - 1])
  <2>1. 0 \in 0..n /\ \A i \in 1..n : i \in 0..n /\ i # 0
    OBVIOUS
  <2> QED BY <1>12, <2>1
<1>14. \A i \in 0..n : h[i] \in R
  <2>1. \A i \in 1..n : h[i - 1] \in R => h[i] \in R
    BY <1>4, <1>13
  <2>2. h[0] \in R
    BY <1>3, <1>13
  <2> QED BY <2>1, <2>2, LoopInvariant
<1>15. n \in 0..n
  OBVIOUS
<1> QED BY <1>1, <1>11, <1>14, <1>15

(* What deploy_path returns is a chain of the machines it was given with   *)
(* all the layers.                                                         *)
LEMMA DeployPathType ==
    ASSUME NEW Q, Searchable(Q), NEW spec, Interval(spec), NEW S \in SUBSET Q.nodes, NEW o,
           NEW beam \in Nat
    PROVE  DeployPath(Q, spec, S, o, beam) \in Seq(Placements(Q, spec, S))
<1>1. CASE S = {} \/ Layers(spec) <= 0
  <2>1. DeployPath(Q, spec, S, o, beam) = <<>>
    BY <1>1 DEF DeployPath
  <2> QED BY <2>1, EmptySeq
<1>2. CASE ~(S = {} \/ Layers(spec) <= 0)
  <2>1. PICK n \in Nat : n = Layers(spec) /\ n > 0
    <3>1. Layers(spec) \in Int
      BY DEF Layers, Interval
    <3> QED BY <1>2, <3>1
  <2>2. PICK m \in Nat : Q.nodes \subseteq 0..m
    BY DEF Searchable
  <2>3. PICK avail : avail = InOrder(S)
    OBVIOUS
  <2>4. avail \in Seq(S)
    <3>1. S \in SUBSET (0..m)
      BY <2>2
    <3> QED BY <2>3, <3>1, InOrderType
  <2>5. PICK g : g = Guide(Q, S, o, beam)
    OBVIOUS
  <2>6. g.beam \in Nat
    BY <2>5 DEF Guide
  <2>7. PICK found : found = Grown(Q, spec, avail, g)[n].finished
    OBVIOUS
  <2>8. found \in Seq(Placements(Q, spec, S))
    <3>1. Grown(Q, spec, avail, g)[n] \in Searching(Q, spec, S)
      BY <2>1, <2>4, <2>6, GrownType
    <3> QED BY <2>7, <3>1 DEF Searching
  <2>9. DeployPath(Q, spec, S, o, beam)
          = Best(found, [i \in DOMAIN found |-> <<FinalScore(Q, o, found[i])>>], 1)
    <3>1. DeployPath(Q, spec, S, o, beam) = The({Fittest(Q, o, f) : f \in {found}})
      BY <1>2, <2>1, <2>3, <2>5, <2>7 DEF DeployPath
    <3>2. {Fittest(Q, o, f) : f \in {found}} = {Fittest(Q, o, found)}
      OBVIOUS
    <3>3. The({Fittest(Q, o, found)}) = Fittest(Q, o, found)
      BY TheOne
    <3> QED BY <3>1, <3>2, <3>3 DEF Fittest
  <2>10. 1 \in Nat
    OBVIOUS
  <2> QED BY <2>8, <2>9, <2>10, BestFacts
<1> QED BY <1>1, <1>2

-----------------------------------------------------------------------------
(* Delays are numbers                                                      *)

(* sum() of a list of numbers.                                             *)
LEMMA TotalSums ==
    ASSUME NEW N \in SUBSET Int, 0 \in N, \A a, b \in N : a + b \in N, NEW seq \in Seq(N)
    PROVE  \E g : /\ g[0] = 0 /\ \A i \in 1..Len(seq) : g[i] = g[i - 1] + seq[i]
                  /\ \A i \in 0..Len(seq) : g[i] \in N
                  /\ Total(seq) = g[Len(seq)]
<1>1. PICK n \in Nat : n = Len(seq)
  BY LenProperties
<1>2. \A i \in 1..n : seq[i] \in N
  BY <1>1, ElementOfSeq
<1>3. PICK step : step = [p \in (1..n) \X N |-> p[2] + seq[p[1]]]
  OBVIOUS
<1>4. step \in [(1..n) \X N -> N]
  <2>1. ASSUME NEW p \in (1..n) \X N PROVE p[2] + seq[p[1]] \in N
    <3>1. p[2] \in N /\ seq[p[1]] \in N
      BY <1>2
    <3> QED BY <3>1
  <2> QED BY <1>3, <2>1
<1>5. PICK base : base = 0
  OBVIOUS
<1>6. base \in N
  BY <1>5
<1>7. PICK f : Follows(f, n, N, base, step)
  BY <1>4, <1>6, Recursion
<1>8. f \in [0..n -> N] /\ f[0] = 0 /\ \A i \in 1..n : f[i] = step[<<i, f[i - 1]>>]
  BY <1>5, <1>7 DEF Follows
<1>9. ASSUME NEW i \in 1..n PROVE f[i] = f[i - 1] + seq[i]
  <2>1. i - 1 \in 0..n
    OBVIOUS
  <2>2. <<i, f[i - 1]>> \in (1..n) \X N
    BY <1>8, <2>1
  <2> QED BY <1>3, <1>8, <2>2
<1>10. f = [i \in 0..n |-> IF i = 0 THEN 0 ELSE f[i - 1] + seq[i]]
  <2>1. ASSUME NEW i \in 0..n PROVE f[i] = IF i = 0 THEN 0 ELSE f[i - 1] + seq[i]
    <3>1. CASE i = 0
      BY <1>8, <3>1
    <3>2. CASE i # 0
      <4>1. i \in 1..n
        BY <3>2
      <4> QED BY <1>9, <3>2, <4>1
    <3> QED BY <3>1, <3>2
  <2> QED BY <1>8, <2>1
<1>11. PICK g : g = CHOOSE made : made = [i \in 0..n |-> IF i = 0 THEN 0 ELSE made[i - 1] + seq[i]]
  OBVIOUS
<1>12. g = [i \in 0..n |-> IF i = 0 THEN 0 ELSE g[i - 1] + seq[i]]
  BY <1>10, <1>11
<1>13. g[0] = 0 /\ \A i \in 1..n : g[i] = g[i - 1] + seq[i]
  <2>1. 0 \in 0..n /\ \A i \in 1..n : i \in 0..n /\ i # 0
    OBVIOUS
  <2> QED BY <1>12, <2>1
<1>14. \A i \in 0..n : g[i] \in N
  <2>1. \A i \in 1..n : g[i - 1] \in N => g[i] \in N
    BY <1>2, <1>13
  <2>2. g[0] \in N
    BY <1>13
  <2> QED BY <2>1, <2>2, LoopInvariant
<1>15. Total(seq) = g[n]
  BY <1>1, <1>11 DEF Total
<1> QED BY <1>1, <1>13, <1>14, <1>15

(* The sum of members of a set that has all sums is a member of it.        *)
LEMMA TotalType ==
    ASSUME NEW N \in SUBSET Int, 0 \in N, \A a, b \in N : a + b \in N, NEW seq \in Seq(N)
    PROVE  Total(seq) \in N
<1>1. Len(seq) \in Nat /\ Len(seq) \in 0..Len(seq)
  BY LenProperties
<1> QED BY <1>1, TotalSums

(* One number more or less.                                                *)
LEMMA TotalChange ==
    ASSUME NEW a \in Seq(Int), NEW b \in Seq(Int), Len(a) = Len(b), NEW t \in DOMAIN a, NEW d \in Int,
           b[t] = a[t] + d, \A i \in DOMAIN a : i # t => b[i] = a[i]
    PROVE  Total(b) = Total(a) + d
<1>1. PICK n \in Nat : n = Len(a) /\ n = Len(b) /\ DOMAIN a = 1..n
  BY LenProperties
<1>2. Int \in SUBSET Int /\ 0 \in Int /\ \A x, y \in Int : x + y \in Int
  OBVIOUS
<1>3. PICK g : /\ g[0] = 0 /\ \A i \in 1..n : g[i] = g[i - 1] + a[i]
               /\ \A i \in 0..n : g[i] \in Int
               /\ Total(a) = g[n]
  <2>1. \E g : /\ g[0] = 0 /\ \A i \in 1..Len(a) : g[i] = g[i - 1] + a[i]
              /\ \A i \in 0..Len(a) : g[i] \in Int
              /\ Total(a) = g[Len(a)]
    BY <1>2, TotalSums
  <2> QED BY <1>1, <2>1
<1>4. PICK h : /\ h[0] = 0 /\ \A i \in 1..n : h[i] = h[i - 1] + b[i]
               /\ \A i \in 0..n : h[i] \in Int
               /\ Total(b) = h[n]
  <2>1. \E h : /\ h[0] = 0 /\ \A i \in 1..Len(b) : h[i] = h[i - 1] + b[i]
              /\ \A i \in 0..Len(b) : h[i] \in Int
              /\ Total(b) = h[Len(b)]
    BY <1>2, TotalSums
  <2>2. Len(b) = n
    BY <1>1
  <2> QED BY <2>1, <2>2
<1>5. PICK S : S = {i \in 0..n : h[i] = g[i] + IF i < t THEN 0 ELSE d}
  OBVIOUS
<1>6. 0 \in S
  BY <1>1, <1>3, <1>4, <1>5
<1>7. ASSUME NEW i \in 0..n, i \in S, i < n PROVE i + 1 \in S
  <2>1. PICK j \in 1..n : j = i + 1 /\ j - 1 = i
    BY <1>7
  <2>2. PICK x \in Int, y \in Int, u \in Int, w \in Int :
            x = g[i] /\ y = h[i] /\ u = a[j] /\ w = b[j]
    <3>1. a[j] \in Int /\ b[j] \in Int
      BY <1>1, ElementOfSeq
    <3> QED BY <1>3, <1>4, <3>1
  <2>3. g[j] = x + u /\ h[j] = y + w
    BY <1>3, <1>4, <2>1, <2>2
  <2>4. y = x + (IF i < t THEN 0 ELSE d)
    BY <1>5, <1>7, <2>2
  <2>5. w = u + (IF j = t THEN d ELSE 0)
    <3>1. CASE j = t
      BY <2>2, <3>1
    <3>2. CASE j # t
      <4>1. b[j] = a[j]
        BY <1>1, <3>2
      <4> QED BY <2>2, <3>2, <4>1
    <3> QED BY <3>1, <3>2
  <2>6. h[j] = g[j] + (IF j < t THEN 0 ELSE d)
    <3>1. PICK k \in 1..n : k = t
      BY <1>1
    <3>2. CASE j < k
      BY <2>1, <2>3, <2>4, <2>5, <3>1, <3>2
    <3>3. CASE j = k
      BY <2>1, <2>3, <2>4, <2>5, <3>1, <3>3
    <3>4. CASE j > k
      BY <2>1, <2>3, <2>4, <2>5, <3>1, <3>4
    <3> QED BY <3>2, <3>3, <3>4
  <2> QED BY <1>5, <2>1, <2>6
<1>8. \A i \in 0..n : i \in S
  BY <1>6, <1>7, CountUp
<1>9. n \in S
  BY <1>8
<1> QED BY <1>1, <1>3, <1>4, <1>5, <1>9

(* A list of naturals has a bound.                                         *)
LEMMA Bounded ==
    ASSUME NEW seq \in Seq(Nat)
    PROVE  \E b \in Nat : Range(seq) \subseteq 0..b
<1>1. PICK n \in Nat : n = Len(seq)
  BY LenProperties
<1>2. DOMAIN seq = 1..n /\ \A i \in 1..n : seq[i] \in Nat
  BY <1>1, ElementOfSeq, LenProperties
<1> DEFINE S == {k \in 0..n : \E b \in Nat : \A i \in 1..k : seq[i] <= b}
<1>3. 0 \in S
  <2>1. \A i \in 1..0 : seq[i] <= 0
    OBVIOUS
  <2> QED BY <2>1
<1>4. ASSUME NEW k \in 0..n, k \in S, k < n PROVE k + 1 \in S
  <2>1. PICK b \in Nat : \A i \in 1..k : seq[i] <= b
    BY <1>4
  <2>2. PICK x \in Nat : x = seq[k + 1]
    BY <1>2, <1>4
  <2>3. \A i \in 1..(k + 1) : seq[i] <= b + x
    <3>1. TAKE i \in 1..(k + 1)
    <3>2. CASE i \in 1..k
      <4>1. seq[i] <= b /\ seq[i] \in Nat
        BY <1>2, <1>4, <2>1, <3>2
      <4> QED BY <4>1
    <3>3. CASE i = k + 1
      BY <2>2, <3>3
    <3> QED BY <3>2, <3>3
  <2>4. b + x \in Nat /\ k + 1 \in 0..n
    BY <1>4
  <2>5. \E c \in Nat : \A i \in 1..(k + 1) : seq[i] <= c
    BY <2>3, <2>4
  <2> QED BY <2>4, <2>5
<1> HIDE DEF S
<1>5. \A k \in 0..n : k \in S
  <2>1. \A k \in 0..n : k \in S /\ k < n => k + 1 \in S
    BY <1>4
  <2> QED BY <1>3, <2>1, CountUp
<1>6. n \in S
  BY <1>5
<1>7. PICK b \in Nat : \A i \in 1..n : seq[i] <= b
  BY <1>6 DEF S
<1>8. \A i \in 1..n : seq[i] \in 0..b
  BY <1>2, <1>7
<1> QED BY <1>2, <1>8 DEF Range

(* median() of a list of numbers.                                          *)
LEMMA MedianType ==
    ASSUME NEW seq \in Seq(Nat)
    PROVE  Median(seq) \in Nat
<1>1. CASE seq = <<>>
  BY <1>1 DEF Median
<1>2. CASE seq # <<>>
  <2>1. PICK n \in Nat : n = Len(seq) /\ n >= 1
    BY <1>2, EmptySeq, LenProperties
  <2>2. PICK s : s = Best(seq, [i \in DOMAIN seq |-> <<seq[i]>>], Len(seq))
    OBVIOUS
  <2>4. s \in Seq(Nat) /\ Len(s) = n
    BY <2>1, <2>2, BestFacts
  <2>5. PICK h \in Nat : h = n \div 2
    BY <2>1
  <2>6. CASE n % 2 = 1
    <3>1. h + 1 \in 1..n
      BY <2>1, <2>5, <2>6
    <3>2. s[h + 1] \in Nat
      BY <2>4, <3>1, ElementOfSeq
    <3>3. Median(seq) = Fine(s[h + 1])
      BY <1>2, <2>1, <2>2, <2>5, <2>6 DEF Median
    <3> QED BY <3>2, <3>3 DEF Fine
  <2>7. CASE n % 2 # 1
    <3>1. h \in 1..n /\ h + 1 \in 1..n
      BY <2>1, <2>5, <2>7
    <3>2. PICK a \in Nat, b \in Nat : a = s[h] /\ b = s[h + 1]
      BY <2>4, <3>1, ElementOfSeq
    <3>3. Median(seq) = IF b = Unreachable THEN Fine(b) ELSE Fine(a + b) \div 2
      BY <1>2, <2>1, <2>2, <2>5, <2>7, <3>2 DEF Median
    <3>4. PICK c \in Nat : c = 1000 * b
      OBVIOUS
    <3>5. PICK d \in Nat : d = 1000 * (a + b)
      OBVIOUS
    <3>6. d \div 2 \in Nat
      OBVIOUS
    <3> QED BY <3>3, <3>4, <3>5, <3>6 DEF Fine
  <2> QED BY <2>6, <2>7
<1> QED BY <1>1, <1>2

(* The measurements are numbers.                                           *)
Measured(Q) ==
    /\ \A v \in Q.nodes : Q.ms[v] \in Nat /\ \A w \in Q.nodes : Q.p50[v][w] \in Nat
    /\ Q.cfg.beta \in Nat /\ Q.cfg.eta \in Nat

(* So is the delay of a segment.                                           *)
LEMMA SegDelayType ==
    ASSUME NEW Q, Measured(Q), NEW spec, NEW seg \in Partials(Q, spec, Q.nodes)
    PROVE  SegDelay(seg) \in Nat
<1>1. PICK ns : ns = seg.nodes
  OBVIOUS
<1>2. PICK ss : ss = seg.splits
  OBVIOUS
<1>3. ns \in Seq(Q.nodes) /\ ss \in Seq(Int \X Int) /\ Len(ns) = Len(ss)
      /\ seg = Segment(Q, spec, ns, ss) /\ Contiguous(ss)
  BY <1>1, <1>2, PartialFacts DEF Sound
<1>4. PICK n \in Nat : n = Len(ns) /\ DOMAIN ns = 1..n
  BY <1>3, LenProperties
<1>5. \A i \in 1..n : ns[i] \in Q.nodes /\ ss[i] \in Int \X Int
  BY <1>3, <1>4, ElementOfSeq
<1>6. PICK cs : cs = [i \in DOMAIN ns |-> (ss[i][2] - ss[i][1] + 1) * Q.ms[ns[i]]]
  OBVIOUS
<1>7. cs \in Seq(Nat)
  <2>1. ASSUME NEW i \in 1..n PROVE (ss[i][2] - ss[i][1] + 1) * Q.ms[ns[i]] \in Nat
    <3>1. PICK a \in Int, b \in Int, c \in Nat : a = ss[i][2] /\ b = ss[i][1] /\ c = Q.ms[ns[i]]
      BY <1>5 DEF Measured
    <3>2. b <= a
      BY <1>3, <1>4, <1>5, <3>1, LenProperties DEF Contiguous
    <3>3. PICK d \in Nat : d = a - b + 1
      BY <3>2
    <3>4. d * c \in Nat
      OBVIOUS
    <3> QED BY <3>1, <3>3, <3>4
  <2>2. cs \in [1..n -> Nat]
    BY <1>4, <1>6, <2>1
  <2> QED BY <2>2, IsASeq
<1>8. PICK links : links = [i \in 1..(Len(ns) - 1) |-> <<ns[i], ns[i + 1]>>]
  OBVIOUS
<1>9. PICK hs : hs = [i \in DOMAIN links |-> Delay(Q, links[i][1], links[i][2])]
  OBVIOUS
<1>10. hs \in Seq(Nat)
  <2>1. PICK m \in Nat : m = IF n = 0 THEN 0 ELSE n - 1
    BY <1>4
  <2>2. 1..(Len(ns) - 1) = 1..m
    BY <1>4, <2>1
  <2>3. ASSUME NEW i \in 1..m PROVE Delay(Q, links[i][1], links[i][2]) \in Nat
    <3>1. i \in 1..n /\ i + 1 \in 1..n
      BY <2>1
    <3>2. PICK a \in Q.nodes, b \in Q.nodes : a = ns[i] /\ b = ns[i + 1]
      BY <1>5, <3>1
    <3>3. links[i] = <<a, b>>
      BY <1>8, <2>2, <3>2
    <3> QED BY <3>3 DEF Delay, Measured
  <2>4. hs \in [1..m -> Nat]
    BY <1>8, <1>9, <2>2, <2>3
  <2> QED BY <2>4, IsASeq
<1>11. Total(cs) \in Nat /\ Total(hs) \in Nat
  <2>1. Nat \in SUBSET Int /\ 0 \in Nat /\ \A a, b \in Nat : a + b \in Nat
    OBVIOUS
  <2> QED BY <1>7, <1>10, <2>1, TotalType
<1>12. seg.compute = Total(cs) /\ seg.hop = Total(hs)
  BY <1>3, <1>6, <1>8, <1>9 DEF Segment
<1> QED BY <1>11, <1>12 DEF SegDelay

(* The band about the median.                                              *)
LEMMA BandType ==
    ASSUME NEW Q, Measured(Q), NEW spec, NEW segs \in Seq(Partials(Q, spec, Q.nodes))
    PROVE  BandFromMedian(Q, segs) \in Int \X Int
<1>1. PICK ds : ds = [i \in DOMAIN segs |-> SegDelay(segs[i])]
  OBVIOUS
<1>2. ds \in Seq(Nat)
  <2>1. Len(segs) \in Nat /\ DOMAIN segs = 1..Len(segs)
    BY LenProperties
  <2>2. \A i \in DOMAIN segs : SegDelay(segs[i]) \in Nat
    BY <2>1, ElementOfSeq, SegDelayType
  <2>3. ds \in [1..Len(segs) -> Nat]
    BY <1>1, <2>1, <2>2
  <2> QED BY <2>1, <2>3, IsASeq
<1>3. PICK m \in Nat : m = Median(ds)
  BY <1>2, MedianType
<1>4. PICK b \in Nat : b = Q.cfg.beta
  BY DEF Measured
<1>5. PICK c \in Int : c = m * (b - 100)
  <2>1. b - 100 \in Int
    OBVIOUS
  <2> QED BY <2>1
<1>6. PICK half \in Int : half = c \div 100
  OBVIOUS
<1>7. BandFromMedian(Q, segs) = <<m - half, m + half>>
  BY <1>1, <1>3, <1>4, <1>5, <1>6 DEF BandFromMedian
<1> QED BY <1>7

(* The distance from the band of a delay is a natural number.              *)
LEMMA DistType ==
    ASSUME NEW x \in Int, NEW band \in Int \X Int
    PROVE  DistToBand(x, band) \in Nat
<1>1. PICK a \in Int, b \in Int : a = band[1] - x /\ b = x - band[2]
  OBVIOUS
<1>2. PICK S : S = {0, a, b}
  OBVIOUS
<1>3. \E m \in S : m \in Nat /\ \A y \in S : y <= m
  <2>1. PICK m \in S : \A y \in S : y <= m
    BY <1>2
  <2>2. m \in Int /\ 0 <= m
    BY <1>2, <2>1
  <2> QED BY <2>1, <2>2
<1>4. \A y \in S : y \in Int
  BY <1>2
<1>5. MaxOf(S, 0) \in S /\ \A y \in S : y <= MaxOf(S, 0)
  <2>1. S # {}
    BY <1>2
  <2> QED BY <1>3, <2>1 DEF MaxOf
<1>6. MaxOf(S, 0) \in Nat
  <2>1. PICK m \in Int : m = MaxOf(S, 0)
    BY <1>4, <1>5
  <2>2. 0 <= m
    BY <1>2, <1>5, <2>1
  <2> QED BY <2>1, <2>2
<1> QED BY <1>1, <1>2, <1>6 DEF DistToBand

(* How far segments are from a band.                                       *)
LEMMA LexKeyType ==
    ASSUME NEW Q, Measured(Q), NEW spec, NEW segs \in Seq(Partials(Q, spec, Q.nodes)),
           NEW band \in Int \X Int
    PROVE  LexKey(segs, band) \in Nat \X Nat
<1>1. PICK d : d = [i \in DOMAIN segs |-> DistToBand(Fine(SegDelay(segs[i])), band)]
  OBVIOUS
<1>2. d \in Seq(Nat)
  <2>1. Len(segs) \in Nat /\ DOMAIN segs = 1..Len(segs)
    BY LenProperties
  <2>2. ASSUME NEW i \in DOMAIN segs PROVE DistToBand(Fine(SegDelay(segs[i])), band) \in Nat
    <3>1. PICK m \in Nat : m = SegDelay(segs[i])
      BY <2>1, ElementOfSeq, SegDelayType
    <3>2. Fine(SegDelay(segs[i])) \in Int
      BY <3>1 DEF Fine
    <3> QED BY <3>2, DistType
  <2>3. d \in [1..Len(segs) -> Nat]
    BY <1>1, <2>1, <2>2
  <2> QED BY <2>1, <2>3, IsASeq
<1>3. MaxOf(Range(d), 0) \in Nat
  <2>1. PICK b \in Nat : Range(d) \subseteq 0..b
    BY <1>2, Bounded
  <2> QED BY <2>1, MaxOfNat
<1>4. Total(d) \in Nat
  <2>1. Nat \in SUBSET Int /\ 0 \in Nat /\ \A a, b \in Nat : a + b \in Nat
    OBVIOUS
  <2> QED BY <1>2, <2>1, TotalType
<1>5. LexKey(segs, band) = <<MaxOf(Range(d), 0), Total(d)>>
  BY <1>1 DEF LexKey
<1> QED BY <1>3, <1>4, <1>5

(* The order of pairs.                                                     *)
LEMMA LexPair ==
    ASSUME NEW a \in Int \X Int, NEW b \in Int \X Int
    PROVE  Lex(a, b) <=> a[1] < b[1] \/ (a[1] = b[1] /\ a[2] < b[2])
<1>1. DOMAIN a = {1, 2} /\ 1..(1 - 1) = {} /\ 1..(2 - 1) = {1}
  OBVIOUS
<1> QED BY <1>1 DEF Lex

NoWorse(a, b) == ~Lex(a, b)

(* No worse than is reflexive and transitive on pairs of integers.         *)
LEMMA NoWorseFacts ==
    /\ \A a \in Int \X Int : NoWorse(a, a)
    /\ \A a, b, c \in Int \X Int : NoWorse(a, b) /\ NoWorse(b, c) => NoWorse(a, c)
<1>1. ASSUME NEW a \in Int \X Int PROVE NoWorse(a, a)
  BY LexPair DEF NoWorse
<1>2. ASSUME NEW a \in Int \X Int, NEW b \in Int \X Int, NEW c \in Int \X Int,
             NoWorse(a, b), NoWorse(b, c)
      PROVE  NoWorse(a, c)
  <2>1. ~(a[1] < b[1] \/ (a[1] = b[1] /\ a[2] < b[2]))
    BY <1>2, LexPair DEF NoWorse
  <2>2. ~(b[1] < c[1] \/ (b[1] = c[1] /\ b[2] < c[2]))
    BY <1>2, LexPair DEF NoWorse
  <2>3. ~(a[1] < c[1] \/ (a[1] = c[1] /\ a[2] < c[2]))
    BY <2>1, <2>2
  <2> QED BY <2>3, LexPair DEF NoWorse
<1> QED BY <1>1, <1>2

-----------------------------------------------------------------------------
(* Tightening                                                              *)

Fitting(Q, spec) == Placements(Q, spec, Q.nodes)

(* n segments that fit, and the machines that are free.                    *)
Laid(Q, spec, n) ==
    {x \in [segs : Seq(Fitting(Q, spec)), free : SUBSET Q.nodes] : Len(x.segs) = n}

(* A sequence over a set is one over a larger set.                         *)
LEMMA SeqOfMore ==
    ASSUME NEW S, NEW T, S \subseteq T, NEW seq \in Seq(S)
    PROVE  seq \in Seq(T)
<1>1. Len(seq) \in Nat /\ seq \in [1..Len(seq) -> S]
  BY LenProperties
<1>2. seq \in [1..Len(seq) -> T]
  BY <1>1
<1> QED BY <1>1, <1>2, IsASeq

(* A segment that fits on some of the machines fits.                       *)
LEMMA PlacementsFit ==
    ASSUME NEW Q, NEW spec, NEW S \in SUBSET Q.nodes
    PROVE  Placements(Q, spec, S) \subseteq Fitting(Q, spec)
<1>1. ASSUME NEW seg \in Placements(Q, spec, S) PROVE seg \in Fitting(Q, spec)
  <2>1. /\ Sound(Q, spec, S, seg.nodes, seg.splits) /\ Complete(spec, seg)
        /\ seg = Segment(Q, spec, seg.nodes, seg.splits)
    BY PartialFacts DEF Placements
  <2>2. seg.nodes \in Seq(Q.nodes)
    BY <2>1, SeqOfMore DEF Sound
  <2>3. Sound(Q, spec, Q.nodes, seg.nodes, seg.splits)
    BY <2>1, <2>2 DEF Sound
  <2>4. seg \in Partials(Q, spec, Q.nodes)
    BY <2>1, <2>3, IsPartial
  <2> QED BY <2>1, <2>4 DEF Fitting, Placements
<1> QED BY <1>1

(* The machines of a segment that fits.                                    *)
LEMMA NodesOfFitting ==
    ASSUME NEW Q, NEW spec, NEW seg \in Fitting(Q, spec)
    PROVE  NodesOf(seg) \subseteq Q.nodes
<1>1. Sound(Q, spec, Q.nodes, seg.nodes, seg.splits)
  BY PartialFacts DEF Fitting, Placements
<1>2. seg.nodes \in Seq(Q.nodes)
  BY <1>1 DEF Sound
<1>3. \A i \in DOMAIN seg.nodes : seg.nodes[i] \in Q.nodes
  BY <1>2, ElementOfSeq, LenProperties
<1> QED BY <1>3 DEF NodesOf, Range

(* What is placed anew is a segment there is.                              *)
LEMMA InTurnType ==
    ASSUME NEW I, NEW len \in Nat, NEW key
    PROVE  InTurn(I, len, key) \in Seq(1..len)
<1>1. PICK all : all = [i \in 1..len |-> i]
  OBVIOUS
<1>2. all \in Seq(1..len) /\ DOMAIN all = 1..len
  <2>1. all \in [1..len -> 1..len]
    BY <1>1
  <2> QED BY <2>1, IsASeq
<1>3. \A i \in DOMAIN all : i \in I => all[i] \in 1..len
  BY <1>1, <1>2
<1>4. PICK idx : idx = Where(all, I)
  OBVIOUS
<1>5. idx \in Seq(1..len)
  BY <1>2, <1>3, <1>4, WhereType
<1>6. Best(idx, [k \in DOMAIN idx |-> key[idx[k]]], len) \in Seq(1..len)
  BY <1>5, BestFacts
<1> QED BY <1>1, <1>4, <1>6 DEF InTurn

(* What a round places anew are segments of the list.                      *)
LEMMA MovesType ==
    ASSUME NEW Q, NEW n \in Nat, NEW F, NEW segs \in Seq(F), Len(segs) = n, NEW band, NEW rent, NEW ends
    PROVE  /\ Len(Moves(Q, segs, band, rent, ends)) \in Nat
           /\ DOMAIN Moves(Q, segs, band, rent, ends) = 1..Len(Moves(Q, segs, band, rent, ends))
           /\ \A k \in DOMAIN Moves(Q, segs, band, rent, ends) :
                 Moves(Q, segs, band, rent, ends)[k].i \in 1..n
<1>1. PICK fast : fast = InTurn({i \in DOMAIN segs : Fine(SegDelay(segs[i])) < band[1]}, Len(segs),
                       [i \in DOMAIN segs |-> <<-Cardinality(NodesOf(segs[i]) \cap GoodNodes(Q))>>])
  OBVIOUS
<1>2. PICK slow : slow = InTurn({i \in DOMAIN segs : Fine(SegDelay(segs[i])) > band[2]}, Len(segs),
                       [i \in DOMAIN segs |-> <<-SegDelay(segs[i])>>])
  OBVIOUS
<1>3. fast \in Seq(1..n) /\ slow \in Seq(1..n)
  BY <1>1, <1>2, InTurnType
<1>4. PICK o1 : o1 = Objective(band[1], rent, GoodNodes(Q), ends)
  OBVIOUS
<1>5. PICK o2 : o2 = Objective(NoTarget, rent, {}, ends)
  OBVIOUS
<1>6. PICK M : M = [i : 1..n, o : {o1, o2}]
  OBVIOUS
<1>7. \A m \in M : m.i \in 1..n
  BY <1>6
<1>8. ASSUME NEW idx \in Seq(1..n), NEW o \in {o1, o2}
      PROVE  [k \in DOMAIN idx |-> [i |-> idx[k], o |-> o]] \in Seq(M)
  <2>1. Len(idx) \in Nat /\ DOMAIN idx = 1..Len(idx) /\ \A k \in 1..Len(idx) : idx[k] \in 1..n
    BY ElementOfSeq, LenProperties
  <2>2. \A k \in DOMAIN idx : [i |-> idx[k], o |-> o] \in M
    BY <1>6, <2>1
  <2>3. [k \in DOMAIN idx |-> [i |-> idx[k], o |-> o]] \in [1..Len(idx) -> M]
    BY <2>1, <2>2
  <2> QED BY <2>1, <2>3, IsASeq
<1>9. PICK moves : moves = [k \in DOMAIN fast |-> [i |-> fast[k], o |-> o1]]
                           \o [k \in DOMAIN slow |-> [i |-> slow[k], o |-> o2]]
  OBVIOUS
<1>10. moves \in Seq(M)
  BY <1>3, <1>8, <1>9, ConcatProperties
<1>11. Moves(Q, segs, band, rent, ends) = moves
  BY <1>1, <1>2, <1>4, <1>5, <1>9 DEF Moves
<1>12. Len(moves) \in Nat /\ DOMAIN moves = 1..Len(moves) /\ \A k \in 1..Len(moves) : moves[k] \in M
  BY <1>10, ElementOfSeq, LenProperties
<1> QED BY <1>7, <1>11, <1>12

(* A segment placed anew.                                                  *)
LEMMA PlaceAnewType ==
    ASSUME NEW Q, Searchable(Q), NEW spec, Interval(spec), NEW n \in Nat,
           NEW at \in Laid(Q, spec, n), NEW acc \in Laid(Q, spec, n), NEW move, move.i \in 1..n
    PROVE  PlaceAnew(Q, spec, at, acc, move) \in Laid(Q, spec, n)
<1>1. PICK F : F = Fitting(Q, spec)
  OBVIOUS
<1>2. PICK i \in 1..n : i = move.i
  OBVIOUS
<1>3. /\ acc.segs \in Seq(F) /\ Len(acc.segs) = n /\ acc.free \in SUBSET Q.nodes
      /\ at.segs \in Seq(F) /\ Len(at.segs) = n
  BY <1>1 DEF Laid
<1>4. PICK got : got = DeployPath(Q, spec, acc.free, move.o, Q.cfg.beam)
  OBVIOUS
<1>5. got \in Seq(F)
  <2>1. Q.cfg.beam \in Nat
    BY DEF Searchable
  <2>2. got \in Seq(Placements(Q, spec, acc.free))
    BY <1>3, <1>4, <2>1, DeployPathType
  <2>3. Placements(Q, spec, acc.free) \subseteq F
    BY <1>1, <1>3, PlacementsFit
  <2> QED BY <2>2, <2>3, SeqOfMore
<1>6. PICK seg : seg = (got \o <<at.segs[i]>>)[1]
  OBVIOUS
<1>7. seg \in F
  <2>1. at.segs[i] \in F
    BY <1>3, ElementOfSeq
  <2>2. <<at.segs[i]>> \in Seq(F) /\ Len(<<at.segs[i]>>) = 1
    BY <2>1
  <2>3. got \o <<at.segs[i]>> \in Seq(F) /\ Len(got \o <<at.segs[i]>>) = Len(got) + 1
    BY <1>5, <2>2, ConcatProperties
  <2>4. 1 \in 1..Len(got \o <<at.segs[i]>>)
    <3>1. Len(got) \in Nat
      BY <1>5, LenProperties
    <3> QED BY <2>3, <3>1
  <2> QED BY <1>6, <2>3, <2>4, ElementOfSeq
<1>8. PICK segs : segs = [acc.segs EXCEPT ![i] = seg]
  OBVIOUS
<1>9. segs \in Seq(F) /\ Len(segs) = n
  <2>1. acc.segs \in [1..n -> F]
    BY <1>3, LenProperties
  <2>2. segs \in [1..n -> F]
    BY <1>7, <1>8, <2>1
  <2>3. segs \in Seq(F)
    BY <2>2, IsASeq
  <2>4. DOMAIN segs = 1..n
    BY <2>2
  <2> QED BY <2>3, <2>4, LenProperties
<1>10. acc.free \ NodesOf(seg) \in SUBSET Q.nodes
  BY <1>3
<1>11. PlaceAnew(Q, spec, at, acc, move) = [segs |-> segs, free |-> acc.free \ NodesOf(seg)]
  BY <1>2, <1>4, <1>6, <1>8 DEF PlaceAnew, Put
<1> QED BY <1>1, <1>9, <1>10, <1>11 DEF Laid

(* One round.                                                              *)
LEMMA RoundType ==
    ASSUME NEW Q, Searchable(Q), NEW spec, Interval(spec), NEW n \in Nat,
           NEW at \in Laid(Q, spec, n), NEW moves, Len(moves) \in Nat,
           DOMAIN moves = 1..Len(moves), \A k \in DOMAIN moves : moves[k].i \in 1..n
    PROVE  Round(Q, spec, at, moves) \in Laid(Q, spec, n)
<1>1. PICK R : R = Laid(Q, spec, n)
  OBVIOUS
<1>2. PICK m \in Nat : m = Len(moves)
  OBVIOUS
<1>3. PICK base : base = [segs |-> at.segs,
                          free |-> at.free \cup AllNodes([k \in DOMAIN moves |-> at.segs[moves[k].i]])]
  OBVIOUS
<1>4. base \in R
  <2>1. PICK F : F = Fitting(Q, spec)
    OBVIOUS
  <2>2. at.segs \in Seq(F) /\ Len(at.segs) = n /\ at.free \in SUBSET Q.nodes
    BY <2>1 DEF Laid
  <2>3. PICK all : all = [k \in DOMAIN moves |-> at.segs[moves[k].i]]
    OBVIOUS
  <2>4. ASSUME NEW k \in DOMAIN all PROVE NodesOf(all[k]) \subseteq Q.nodes
    <3>1. all[k] \in F
      BY <2>2, <2>3, ElementOfSeq
    <3> QED BY <2>1, <3>1, NodesOfFitting
  <2>5. AllNodes(all) \subseteq Q.nodes
    BY <2>4 DEF AllNodes
  <2>6. base = [segs |-> at.segs, free |-> at.free \cup AllNodes(all)]
    BY <1>3, <2>3
  <2> QED BY <1>1, <2>1, <2>2, <2>5, <2>6 DEF Laid
<1>5. ASSUME NEW x \in R, NEW k \in 1..m PROVE PlaceAnew(Q, spec, at, x, moves[k]) \in R
  <2>1. moves[k].i \in 1..n
    BY <1>2
  <2> QED BY <1>1, <2>1, PlaceAnewType
<1>6. PICK step : step = [p \in (1..m) \X R |-> PlaceAnew(Q, spec, at, p[2], moves[p[1]])]
  OBVIOUS
<1>7. step \in [(1..m) \X R -> R]
  <2>1. ASSUME NEW p \in (1..m) \X R PROVE PlaceAnew(Q, spec, at, p[2], moves[p[1]]) \in R
    BY <1>5
  <2> QED BY <1>6, <2>1
<1>8. PICK f : Follows(f, m, R, base, step)
  BY <1>4, <1>7, Recursion
<1>9. f \in [0..m -> R] /\ f[0] = base /\ \A i \in 1..m : f[i] = step[<<i, f[i - 1]>>]
  BY <1>8 DEF Follows
<1>10. ASSUME NEW i \in 1..m PROVE f[i] = PlaceAnew(Q, spec, at, f[i - 1], moves[i])
  <2>1. i - 1 \in 0..m
    OBVIOUS
  <2>2. <<i, f[i - 1]>> \in (1..m) \X R
    BY <1>9, <2>1
  <2> QED BY <1>6, <1>9, <2>2
<1>11. f = [i \in 0..m |-> IF i = 0 THEN base ELSE PlaceAnew(Q, spec, at, f[i - 1], moves[i])]
  <2>1. ASSUME NEW i \in 0..m
        PROVE  f[i] = IF i = 0 THEN base ELSE PlaceAnew(Q, spec, at, f[i - 1], moves[i])
    <3>1. CASE i = 0
      BY <1>9, <3>1
    <3>2. CASE i # 0
      <4>1. i \in 1..m
        BY <3>2
      <4> QED BY <1>10, <3>2, <4>1
    <3> QED BY <3>1, <3>2
  <2> QED BY <1>9, <2>1
<1>12. PICK g : g = CHOOSE made : made = [i \in 0..m |-> IF i = 0 THEN base
                                                   ELSE PlaceAnew(Q, spec, at, made[i - 1], moves[i])]
  OBVIOUS
<1>13. g = [i \in 0..m |-> IF i = 0 THEN base ELSE PlaceAnew(Q, spec, at, g[i - 1], moves[i])]
  BY <1>11, <1>12
<1>14. g[0] = base /\ \A i \in 1..m : g[i] = PlaceAnew(Q, spec, at, g[i - 1], moves[i])
  <2>1. 0 \in 0..m /\ \A i \in 1..m : i \in 0..m /\ i # 0
    OBVIOUS
  <2> QED BY <1>13, <2>1
<1>15. \A i \in 0..m : g[i] \in R
  <2>1. \A i \in 1..m : g[i - 1] \in R => g[i] \in R
    BY <1>5, <1>14
  <2>2. g[0] \in R
    BY <1>4, <1>14
  <2> QED BY <2>1, <2>2, LoopInvariant
<1>16. m \in 0..m
  OBVIOUS
<1>17. Round(Q, spec, at, moves) = g[m]
  BY <1>2, <1>3, <1>12 DEF Round
<1> QED BY <1>1, <1>15, <1>16, <1>17

(* What is no farther from the band than the segments there were.          *)
Improved(Q, spec, n, key, band) ==
    {x \in [at : Laid(Q, spec, n), more : BOOLEAN] : NoWorse(key, LexKey(x.at.segs, band))}

(* Another round, kept or not.                                             *)
LEMMA NextRoundType ==
    ASSUME NEW Q, Searchable(Q), Measured(Q), Q.cfg.tightenEps \in Int, NEW spec, Interval(spec),
           NEW n \in Nat, NEW band \in Int \X Int, NEW rent, NEW ends, NEW key \in Nat \X Nat,
           NEW x \in Improved(Q, spec, n, key, band)
    PROVE  NextRound(Q, spec, x, band, rent, ends) \in Improved(Q, spec, n, key, band)
<1>1. PICK moves : moves = Moves(Q, x.at.segs, band, rent, ends)
  OBVIOUS
<1>2. CASE ~x.more \/ moves = <<>>
  <2>1. NextRound(Q, spec, x, band, rent, ends) = x
    BY <1>1, <1>2 DEF NextRound
  <2> QED BY <2>1
<1>3. CASE ~(~x.more \/ moves = <<>>)
  <2>1. PICK new : new = Round(Q, spec, x.at, moves)
    OBVIOUS
  <2>2. NextRound(Q, spec, x, band, rent, ends) = Accept(Q, x.at, new, band)
    <3>1. NextRound(Q, spec, x, band, rent, ends) = The({Accept(Q, x.at, r, band) : r \in {new}})
      BY <1>1, <1>3, <2>1 DEF NextRound
    <3>2. {Accept(Q, x.at, r, band) : r \in {new}} = {Accept(Q, x.at, new, band)}
      OBVIOUS
    <3>3. The({Accept(Q, x.at, new, band)}) = Accept(Q, x.at, new, band)
      BY TheOne
    <3> QED BY <3>1, <3>2, <3>3
  <2>3. x.at \in Laid(Q, spec, n) /\ NoWorse(key, LexKey(x.at.segs, band))
    BY DEF Improved
  <2>4. x.at.segs \in Seq(Fitting(Q, spec)) /\ Len(x.at.segs) = n
    BY <2>3 DEF Laid
  <2>5. /\ Len(moves) \in Nat /\ DOMAIN moves = 1..Len(moves)
        /\ \A k \in DOMAIN moves : moves[k].i \in 1..n
    <3>1. PICK segs : segs = x.at.segs
      OBVIOUS
    <3>2. segs \in Seq(Fitting(Q, spec)) /\ Len(segs) = n
      BY <2>4, <3>1
    <3>3. /\ Len(Moves(Q, segs, band, rent, ends)) \in Nat
          /\ DOMAIN Moves(Q, segs, band, rent, ends) = 1..Len(Moves(Q, segs, band, rent, ends))
          /\ \A k \in DOMAIN Moves(Q, segs, band, rent, ends) :
                Moves(Q, segs, band, rent, ends)[k].i \in 1..n
      BY <3>2, MovesType
    <3> QED BY <1>1, <3>1, <3>3
  <2>6. new \in Laid(Q, spec, n)
    BY <2>1, <2>3, <2>5, RoundType
  <2>7. Fitting(Q, spec) \subseteq Partials(Q, spec, Q.nodes)
    BY DEF Fitting, Placements
  <2>8. x.at.segs \in Seq(Partials(Q, spec, Q.nodes)) /\ new.segs \in Seq(Partials(Q, spec, Q.nodes))
    <3>1. new.segs \in Seq(Fitting(Q, spec))
      BY <2>6 DEF Laid
    <3> QED BY <2>4, <2>7, <3>1, SeqOfMore
  <2>9. PICK was \in Nat \X Nat : was = LexKey(x.at.segs, band)
    BY <2>8, LexKeyType
  <2>10. PICK is \in Nat \X Nat : is = LexKey(new.segs, band)
    BY <2>8, LexKeyType
  <2>11. PICK gain : gain = (was[1] - is[1]) + (was[2] - is[2])
    OBVIOUS
  <2>12. Accept(Q, x.at, new, band) = IF Lex(was, is) THEN [at |-> x.at, more |-> FALSE]
                                      ELSE [at |-> new, more |-> gain >= Fine(Q.cfg.tightenEps)]
    BY <2>9, <2>10, <2>11 DEF Accept
  <2>13. CASE Lex(was, is)
    <3>1. Accept(Q, x.at, new, band) = [at |-> x.at, more |-> FALSE]
      BY <2>12, <2>13
    <3> QED BY <2>2, <2>3, <3>1 DEF Improved
  <2>14. CASE ~Lex(was, is)
    <3>1. \E more \in BOOLEAN : Accept(Q, x.at, new, band) = [at |-> new, more |-> more]
      <4>1. PICK e : e = Fine(Q.cfg.tightenEps)
        OBVIOUS
      <4>2. Accept(Q, x.at, new, band) = [at |-> new, more |-> gain >= e]
        BY <2>12, <2>14, <4>1
      <4>3. CASE gain >= e
        <5>1. (gain >= e) = TRUE
          BY <4>3
        <5>2. Accept(Q, x.at, new, band) = [at |-> new, more |-> TRUE]
          BY <4>2, <5>1
        <5> QED BY <5>2
      <4>4. CASE ~(gain >= e)
        <5>1. (gain >= e) = FALSE
          BY <4>4
        <5>2. Accept(Q, x.at, new, band) = [at |-> new, more |-> FALSE]
          BY <4>2, <5>1
        <5> QED BY <5>2
      <4> QED BY <4>3, <4>4
    <3>2. PICK more \in BOOLEAN : Accept(Q, x.at, new, band) = [at |-> new, more |-> more]
      BY <3>1
    <3>3. NoWorse(key, is)
      <4>1. key \in Int \X Int /\ was \in Int \X Int /\ is \in Int \X Int
        OBVIOUS
      <4>2. NoWorse(key, was) /\ NoWorse(was, is)
        BY <2>3, <2>9, <2>14 DEF NoWorse
      <4> QED BY <4>1, <4>2, NoWorseFacts
    <3> QED BY <2>2, <2>6, <2>10, <3>2, <3>3 DEF Improved
  <2> QED BY <2>13, <2>14
<1> QED BY <1>2, <1>3

(* Tightening keeps the number of the segments, which fit, and leaves them *)
(* no farther from the band.                                               *)
LEMMA TightenLexType ==
    ASSUME NEW Q, Searchable(Q), Measured(Q), Q.cfg.tightenEps \in Int, NEW spec, Interval(spec),
           NEW n \in Nat, NEW at \in Laid(Q, spec, n), NEW band \in Int \X Int, NEW rent, NEW ends
    PROVE  /\ TightenLex(Q, spec, at, band, rent, ends) \in Laid(Q, spec, n)
           /\ NoWorse(LexKey(at.segs, band),
                      LexKey(TightenLex(Q, spec, at, band, rent, ends).segs, band))
<1>1. PICK key \in Nat \X Nat : key = LexKey(at.segs, band)
  <2>1. at.segs \in Seq(Fitting(Q, spec)) /\ Fitting(Q, spec) \subseteq Partials(Q, spec, Q.nodes)
    BY DEF Laid, Fitting, Placements
  <2>2. at.segs \in Seq(Partials(Q, spec, Q.nodes))
    BY <2>1, SeqOfMore
  <2> QED BY <2>2, LexKeyType
<1>2. PICK R : R = Improved(Q, spec, n, key, band)
  OBVIOUS
<1>3. PICK m \in Nat : m = Q.cfg.tightenMax
  BY DEF Searchable
<1>4. PICK base : base = [at |-> at, more |-> TRUE]
  OBVIOUS
<1>5. base \in R
  <2>1. key \in Int \X Int
    OBVIOUS
  <2>2. NoWorse(key, LexKey(base.at.segs, band))
    BY <1>1, <1>4, <2>1, NoWorseFacts
  <2> QED BY <1>2, <1>4, <2>2 DEF Improved
<1>6. ASSUME NEW x \in R PROVE NextRound(Q, spec, x, band, rent, ends) \in R
  BY <1>2, NextRoundType
<1>7. PICK step : step = [p \in (1..m) \X R |-> NextRound(Q, spec, p[2], band, rent, ends)]
  OBVIOUS
<1>8. step \in [(1..m) \X R -> R]
  BY <1>6, <1>7
<1>9. PICK f : Follows(f, m, R, base, step)
  BY <1>5, <1>8, Recursion
<1>10. f \in [0..m -> R] /\ f[0] = base /\ \A i \in 1..m : f[i] = step[<<i, f[i - 1]>>]
  BY <1>9 DEF Follows
<1>11. ASSUME NEW i \in 1..m PROVE f[i] = NextRound(Q, spec, f[i - 1], band, rent, ends)
  <2>1. i - 1 \in 0..m
    OBVIOUS
  <2>2. <<i, f[i - 1]>> \in (1..m) \X R
    BY <1>10, <2>1
  <2> QED BY <1>7, <1>10, <2>2
<1>12. f = [i \in 0..m |-> IF i = 0 THEN base ELSE NextRound(Q, spec, f[i - 1], band, rent, ends)]
  <2>1. ASSUME NEW i \in 0..m
        PROVE  f[i] = IF i = 0 THEN base ELSE NextRound(Q, spec, f[i - 1], band, rent, ends)
    <3>1. CASE i = 0
      BY <1>10, <3>1
    <3>2. CASE i # 0
      <4>1. i \in 1..m
        BY <3>2
      <4> QED BY <1>11, <3>2, <4>1
    <3> QED BY <3>1, <3>2
  <2> QED BY <1>10, <2>1
<1>13. PICK g : g = CHOOSE made : made = [i \in 0..m |-> IF i = 0 THEN base
                                                   ELSE NextRound(Q, spec, made[i - 1], band, rent, ends)]
  OBVIOUS
<1>14. g = [i \in 0..m |-> IF i = 0 THEN base ELSE NextRound(Q, spec, g[i - 1], band, rent, ends)]
  BY <1>12, <1>13
<1>15. g[0] = base /\ \A i \in 1..m : g[i] = NextRound(Q, spec, g[i - 1], band, rent, ends)
  <2>1. 0 \in 0..m /\ \A i \in 1..m : i \in 0..m /\ i # 0
    OBVIOUS
  <2> QED BY <1>14, <2>1
<1>16. \A i \in 0..m : g[i] \in R
  <2>1. \A i \in 1..m : g[i - 1] \in R => g[i] \in R
    BY <1>6, <1>15
  <2>2. g[0] \in R
    BY <1>5, <1>15
  <2> QED BY <2>1, <2>2, LoopInvariant
<1>17. m \in 0..m
  OBVIOUS
<1>18. TightenLex(Q, spec, at, band, rent, ends) = g[m].at
  BY <1>3, <1>4, <1>13 DEF TightenLex
<1> QED BY <1>1, <1>2, <1>16, <1>17, <1>18 DEF Improved

-----------------------------------------------------------------------------
(* The problem at hand                                                     *)

(* What the planner may rely on, once the machines have answered.          *)
Ready(Q) ==
    /\ Searchable(Q) /\ Measured(Q)
    /\ Q.cfg.tightenEps \in Nat /\ Q.cfg.kappa \in Nat /\ Q.cfg.standby \in Nat
    /\ \E n \in Nat : DOMAIN Q.tasks = 1..n /\ Len(Q.tasks) = n

(* The least of some natural numbers.                                      *)
LEMMA MinOfNat ==
    ASSUME NEW S \in SUBSET Nat, S # {}, NEW base
    PROVE  MinOf(S, base) \in S /\ \A x \in S : MinOf(S, base) <= x
<1>1. PICK m \in S : \A x \in S : m <= x
  BY LeastElement
<1>2. MinOf(S, base) = CHOOSE x \in S : \A y \in S : x <= y
  BY DEF MinOf
<1> QED BY <1>1, <1>2

(* The experts that the segments are to hold change nothing else.          *)
LEMMA WithExpertsKeeps ==
    ASSUME NEW Q, NEW speed, WellPosed(Q, speed), NEW pr, NEW n, NEW c, NEW k, NEW full
    PROVE  LET R == WithExperts(Q, pr, n, c, k, full)
           IN  /\ DOMAIN R = Fields /\ R.nodes = Q.nodes /\ R.raw = Q.raw /\ R.p50 = Q.p50
               /\ R.L = Q.L /\ R.cfg = Q.cfg /\ DOMAIN R.tasks = DOMAIN Q.tasks
               /\ R.tasks = [t \in DOMAIN Q.tasks |-> R.tasks[t]]
<1>1. DOMAIN Q = Fields
  BY DEF WellPosed
<1> QED BY <1>1 DEF WithExperts, Fields

(* What the machines report makes the problem ready.                       *)
LEMMA CollectedReady ==
    ASSUME NEW Q, NEW speed, NEW R, WellPosed(Q, speed),
           DOMAIN R = Fields, R.nodes = Q.nodes, R.p50 = Q.p50, R.L = Q.L, R.cfg = Q.cfg,
           DOMAIN R.tasks = DOMAIN Q.tasks, R.tasks = [t \in DOMAIN Q.tasks |-> R.tasks[t]],
           NEW up \in SUBSET Q.nodes, up # {}
    PROVE  Ready(Collected(R, speed, up))
<1>1. PICK C : C = Collected(R, speed, up)
  OBVIOUS
<1>2. /\ C.nodes = up /\ C.p50 = Q.p50 /\ C.L = Q.L /\ C.cfg = Q.cfg /\ C.tasks = R.tasks
      /\ C.ms = [v \in up |-> (R.cfg.layerMs * speed[v]) \div MinOf({speed[w] : w \in up}, 1)]
  BY <1>1 DEF Collected, Fields
<1>3. Searchable(C)
  <2>1. PICK n \in Nat : n = Len(Q.raw) /\ Q.nodes = 1..n
    BY LenProperties DEF WellPosed
  <2>2. C.nodes \subseteq 0..n
    BY <1>2, <2>1
  <2>3. \A f \in Counts : C.cfg[f] \in Nat
    BY <1>2 DEF WellPosed
  <2>4. C.cfg.prune \in Nat /\ C.cfg.beam \in Nat /\ C.cfg.beamFront \in Nat /\ C.cfg.tightenMax \in Nat
    BY <2>3 DEF Counts
  <2> QED BY <1>2, <2>2, <2>4 DEF Searchable, WellPosed
<1>4. \A f \in {"tightenEps", "kappa", "standby", "beta", "eta", "layerMs"} : C.cfg[f] \in Nat
  BY <1>2 DEF WellPosed, Counts
<1>5. Measured(C)
  <2>1. PICK least \in Nat : least = MinOf({speed[w] : w \in up}, 1) /\ least > 0
    <3>1. {speed[w] : w \in up} \in SUBSET Nat /\ {speed[w] : w \in up} # {}
          /\ \A x \in {speed[w] : w \in up} : x > 0
      BY DEF WellPosed
    <3>2. MinOf({speed[w] : w \in up}, 1) \in {speed[w] : w \in up}
      BY <3>1, MinOfNat
    <3> QED BY <3>1, <3>2
  <2>2. ASSUME NEW v \in up PROVE C.ms[v] \in Nat
    <3>1. PICK a \in Nat : a = C.cfg.layerMs
      BY <1>4
    <3>2. PICK b \in Nat : b = speed[v]
      BY DEF WellPosed
    <3>3. PICK c \in Nat : c = a * b
      OBVIOUS
    <3>4. c \div least \in Nat
      BY <2>1
    <3> QED BY <1>2, <2>1, <3>1, <3>2, <3>3, <3>4
  <2>3. \A v \in up, w \in up : C.p50[v][w] \in Nat
    BY <1>2 DEF WellPosed
  <2> QED BY <1>2, <1>4, <2>2, <2>3 DEF Measured
<1>6. \E n \in Nat : DOMAIN C.tasks = 1..n /\ Len(C.tasks) = n
  <2>1. PICK n \in Nat : DOMAIN Q.tasks = 1..n
    BY LenProperties DEF WellPosed
  <2>2. C.tasks = [t \in 1..n |-> R.tasks[t]]
    BY <1>2, <2>1
  <2>3. C.tasks \in [1..n -> {R.tasks[t] : t \in 1..n}]
    BY <2>2
  <2>4. Len(C.tasks) = n /\ DOMAIN C.tasks = 1..n
    BY <2>3, LenProperties
  <2> QED BY <2>4
<1> QED BY <1>1, <1>3, <1>4, <1>5, <1>6 DEF Ready

-----------------------------------------------------------------------------
(* The common band                                                         *)

(* Machines are finitely many.                                             *)
LEMMA FewNodes ==
    ASSUME NEW Q, Searchable(Q), NEW S \in SUBSET Q.nodes
    PROVE  IsFiniteSet(S) /\ Cardinality(S) \in Nat
<1>1. PICK n \in Nat : Q.nodes \subseteq 0..n
  BY DEF Searchable
<1>2. IsFiniteSet(0..n)
  BY FS_Interval
<1>3. S \subseteq 0..n
  BY <1>1
<1>4. IsFiniteSet(S)
  BY <1>2, <1>3, FS_Subset
<1> QED BY <1>4, FS_CardinalityType

(* The narrowest width of the grid is within the limit, so there is always *)
(* one to choose.                                                          *)
LEMMA GridReaches ==
    ASSUME NEW w \in Nat
    PROVE  GridWidth(w, 4) <= w
<1>1. PICK x \in Nat : x = w * 4
  OBVIOUS
<1>2. PICK q \in Nat : q = x \div 2000
  OBVIOUS
<1>2a. PICK r \in 0..1999 : r = x % 2000
  OBVIOUS
<1>2b. x = 2000 * q + r
  BY <1>2, <1>2a
<1>3. PICK y \in Nat : y = RoundHalfEven(x, 2000) /\ 2 * y <= 2 * x + 2000 /\ (x < 1000 => y = 0)
  <2>1. RoundHalfEven(x, 2000) = IF 2 * r < 2000 \/ (2 * r = 2000 /\ q % 2 = 0)
                                 THEN q * 2000 ELSE (q + 1) * 2000
    BY <1>2, <1>2a DEF RoundHalfEven
  <2>2. CASE 2 * r < 2000
    BY <1>2b, <2>1, <2>2
  <2>3. CASE ~(2 * r < 2000)
    <3>1. RoundHalfEven(x, 2000) \in {q * 2000, (q + 1) * 2000}
      BY <2>1
    <3> QED BY <1>2b, <2>3, <3>1
  <2> QED BY <2>2, <2>3
<1>4. y <= 10 * w
  BY <1>1, <1>3
<1>5. y \div 10 <= w
  BY <1>3, <1>4
<1> QED BY <1>1, <1>3, <1>5 DEF GridWidth, GridRounding

(* The tails of a window are candidates.                                   *)
LEMMA FullestType ==
    ASSUME NEW spans, NEW S, DOMAIN spans \subseteq S, NEW W, NEW wcap
    PROVE  Fullest(spans, W, wcap).exits \in SUBSET S
BY DEF Fullest, Window, NoBand

(* pick_bandwidth always finds a band, and its exits are candidates.       *)
LEMMA PickType ==
    ASSUME NEW Q, Searchable(Q), NEW cands \in SUBSET Q.nodes, NEW entries, NEW w95, NEW wcap,
           NEW wmax \in Nat, NEW target \in Int
    PROVE  PickBandwidth(ProbeExits(Q, cands, entries, w95), entries, wcap, wmax, target).exits
              \in SUBSET cands
<1>1. PICK spans : spans = Spans(ProbeExits(Q, cands, entries, w95), entries)
  OBVIOUS
<1>2. DOMAIN spans \subseteq cands
  BY <1>1 DEF Spans, ProbeExits
<1>3. PICK D : D = {s \in GridSteps : GridWidth(wmax, s) <= wmax}
  OBVIOUS
<1>4. PICK curve : curve = SweepBandwidth(spans, wcap, wmax)
  OBVIOUS
<1>5. DOMAIN curve = D /\ \A s \in D : curve[s].exits \in SUBSET cands
  BY <1>2, <1>3, <1>4, FullestType DEF SweepBandwidth
<1>6. 4 \in D /\ D \in SUBSET Nat
  BY <1>3, GridReaches DEF GridSteps
<1>7. PICK n \in Nat : n = Cardinality(cands)
  BY FewNodes
<1>8. \A s \in D : Population(curve[s]) \in 0..n
  <2>1. ASSUME NEW s \in D PROVE Population(curve[s]) \in 0..n
    <3>1. IsFiniteSet(cands)
      BY FewNodes
    <3>2. PICK E \in SUBSET cands : E = curve[s].exits
      BY <1>5
    <3>3. Cardinality(E) \in Nat /\ Cardinality(E) <= n
      BY <1>7, <3>1, <3>2, FS_Subset, FS_CardinalityType
    <3> QED BY <3>2, <3>3 DEF Population
  <2> QED BY <2>1
<1>9. PICK most : most = MaxOf({Population(curve[s]) : s \in DOMAIN curve}, 0)
  OBVIOUS
<1>10. most \in {Population(curve[s]) : s \in D} /\ most \in Nat
  <2>1. {Population(curve[s]) : s \in D} \in SUBSET (0..n)
    BY <1>8
  <2>2. {Population(curve[s]) : s \in D} # {}
    BY <1>6
  <2> QED BY <1>5, <1>9, <2>1, <2>2, MaxOfNat
<1>11. PICK reach : reach = MinOf({target, most}, 0)
  OBVIOUS
<1>12. reach \in Int /\ reach <= most
  <2>1. PICK m \in {target, most} : \A y \in {target, most} : m <= y
    <3>1. CASE target <= most
      BY <1>10, <3>1
    <3>2. CASE ~(target <= most)
      BY <1>10, <3>2
    <3> QED BY <3>1, <3>2
  <2>2. reach = CHOOSE x \in {target, most} : \A y \in {target, most} : x <= y
    BY <1>11 DEF MinOf
  <2>3. reach \in {target, most} /\ \A y \in {target, most} : reach <= y
    BY <2>1, <2>2
  <2> QED BY <1>10, <2>3
<1>13. PICK good : good = {s \in DOMAIN curve : Population(curve[s]) >= reach}
  OBVIOUS
<1>14. good # {} /\ good \in SUBSET Nat
  <2>1. PICK s \in D : most = Population(curve[s])
    BY <1>10
  <2>2. s \in good
    BY <1>5, <1>10, <1>12, <1>13, <2>1
  <2> QED BY <1>5, <1>6, <1>13, <2>2
<1>15. MinOf(good, 0) \in D
  BY <1>5, <1>13, <1>14, MinOfNat
<1>16. PickBandwidth(ProbeExits(Q, cands, entries, w95), entries, wcap, wmax, target)
         = curve[MinOf(good, 0)]
  BY <1>1, <1>4, <1>9, <1>11, <1>13 DEF PickBandwidth, Narrowest
<1> QED BY <1>5, <1>15, <1>16

(* The typical hop is a number.                                            *)
LEMMA TypicalHopType ==
    ASSUME NEW Q, Searchable(Q), Measured(Q)
    PROVE  TypicalHop(Q) \in Nat
<1>1. PICK n \in Nat : Q.nodes \in SUBSET (0..n)
  BY DEF Searchable
<1>2. PICK ids : ids = Names(Q)
  OBVIOUS
<1>3. ids \in Seq(Q.nodes)
  BY <1>1, <1>2, InOrderType DEF Names
<1>4. PICK m \in Nat : m = Len(ids) /\ DOMAIN ids = 1..m
  BY <1>3, LenProperties
<1>5. PICK rows : rows = [i \in DOMAIN ids |->
                            [k \in 1..(Len(ids) - i) |-> Delay(Q, ids[i], ids[i + k])]]
  OBVIOUS
<1>6. ASSUME NEW i \in 1..m PROVE rows[i] \in Seq(Nat)
  <2>1. PICK d \in Nat : d = m - i
    OBVIOUS
  <2>2. ASSUME NEW k \in 1..d PROVE Delay(Q, ids[i], ids[i + k]) \in Nat
    <3>1. i + k \in 1..m
      BY <2>1
    <3>2. PICK a \in Q.nodes, b \in Q.nodes : a = ids[i] /\ b = ids[i + k]
      BY <1>3, <1>4, <3>1, ElementOfSeq
    <3> QED BY <3>2 DEF Delay, Measured
  <2>3. rows[i] = [k \in 1..d |-> Delay(Q, ids[i], ids[i + k])]
    BY <1>4, <1>5, <2>1
  <2>4. rows[i] \in [1..d -> Nat]
    BY <2>2, <2>3
  <2> QED BY <2>4, IsASeq
<1>7. rows \in [1..m -> Seq(Nat)]
  BY <1>4, <1>5, <1>6
<1>8. rows \in Seq(Seq(Nat))
  BY <1>7, IsASeq
<1>9. FlattenSeq(rows) \in Seq(Nat)
  BY <1>8, FlattenSeqType
<1> QED BY <1>2, <1>5, <1>9, MedianType DEF TypicalHop

-----------------------------------------------------------------------------
(* The back segments of all tasks                                          *)

(* Each task has segments that fit, and only the tasks in turn have some.  *)
BacksFit(Q, l0, order, backs) ==
    /\ DOMAIN backs = DOMAIN Q.tasks /\ backs = [t \in DOMAIN Q.tasks |-> backs[t]]
    /\ \A t \in DOMAIN Q.tasks : /\ backs[t] \in Seq(Fitting(Q, BackSpec(Q, t, l0)))
                                 /\ backs[t] # <<>> => t \in Range(order)

(* The layers of a back segment are numbers.                               *)
LEMMA BackInterval ==
    ASSUME NEW Q, Searchable(Q), NEW t, NEW l0 \in Int
    PROVE  Interval(BackSpec(Q, t, l0))
BY DEF Searchable, Interval, BackSpec

(* The layers of a front segment are numbers.                              *)
LEMMA FrontInterval ==
    ASSUME NEW Q, NEW tails, NEW l0 \in Int
    PROVE  Interval(FrontSpec(Q, l0, tails))
BY DEF Interval, FrontSpec

(* One task's segments tightened.                                          *)
Closer(acc, r, t) ==
    LET band == BandFromMedian(P, acc.backs[t])
    IN  Len(r.backs[t]) = Len(acc.backs[t])
        /\ NoWorse(LexKey(acc.backs[t], band), LexKey(r.backs[t], band))

Books(Q, l0, order) ==
    {acc \in [backs : [DOMAIN Q.tasks -> Seq(UNION {Fitting(Q, BackSpec(Q, t, l0)) : t \in DOMAIN Q.tasks})],
              free : SUBSET Q.nodes] : BacksFit(Q, l0, order, acc.backs)}

(* Tightening one task leaves the other tasks alone.                       *)
LEMMA TightenTaskType ==
    ASSUME Ready(P), plan.l0 \in Int, NEW acc \in Books(P, plan.l0, plan.order), NEW t \in DOMAIN P.tasks
    PROVE  /\ TightenTask(acc, t) \in Books(P, plan.l0, plan.order)
           /\ Closer(acc, TightenTask(acc, t), t)
           /\ \A u \in DOMAIN P.tasks : u # t => TightenTask(acc, t).backs[u] = acc.backs[u]
<1>1. PICK spec : spec = BackSpec(P, t, plan.l0)
  OBVIOUS
<1>2. PICK F : F = UNION {Fitting(P, BackSpec(P, u, plan.l0)) : u \in DOMAIN P.tasks}
  OBVIOUS
<1>3. /\ acc \in [backs : [DOMAIN P.tasks -> Seq(F)], free : SUBSET P.nodes]
      /\ BacksFit(P, plan.l0, plan.order, acc.backs)
  BY <1>2 DEF Books
<1>4. PICK segs \in Seq(Fitting(P, spec)) : segs = acc.backs[t]
  BY <1>1, <1>3 DEF BacksFit
<1>5. PICK n \in Nat : n = Len(segs)
  BY LenProperties
<1>6. PICK band \in Int \X Int : band = BandFromMedian(P, segs)
  <2>1. Fitting(P, spec) \subseteq Partials(P, spec, P.nodes)
    BY DEF Fitting, Placements
  <2>2. segs \in Seq(Partials(P, spec, P.nodes))
    BY <2>1, SeqOfMore
  <2> QED BY <2>2, BandType DEF Ready
<1>7. CASE n < 2
  <2>1. TightenTask(acc, t) = acc
    BY <1>4, <1>5, <1>7 DEF TightenTask
  <2>2. NoWorse(LexKey(segs, band), LexKey(segs, band))
    <3>1. Fitting(P, spec) \subseteq Partials(P, spec, P.nodes)
      BY DEF Fitting, Placements
    <3>2. segs \in Seq(Partials(P, spec, P.nodes))
      BY <3>1, SeqOfMore
    <3>3. PICK k \in Nat \X Nat : k = LexKey(segs, band)
      BY <3>2, LexKeyType DEF Ready
    <3>4. k \in Int \X Int
      OBVIOUS
    <3> QED BY <3>3, <3>4, NoWorseFacts
  <2> QED BY <1>4, <1>6, <2>1, <2>2 DEF Closer
<1>8. CASE ~(n < 2)
  <2>1. PICK at : at = [segs |-> segs, free |-> acc.free]
    OBVIOUS
  <2>2. at \in Laid(P, spec, n)
    BY <1>3, <1>5, <2>1 DEF Laid
  <2>3. PICK r : r = TightenLex(P, spec, at, band, plan.rent[t], plan.ends)
    OBVIOUS
  <2>4. r \in Laid(P, spec, n) /\ NoWorse(LexKey(at.segs, band), LexKey(r.segs, band))
    <3>1. Searchable(P) /\ Measured(P) /\ P.cfg.tightenEps \in Int
      BY DEF Ready
    <3>2. Interval(spec)
      BY <1>1, <3>1, BackInterval
    <3> QED BY <2>2, <2>3, <3>1, <3>2, TightenLexType
  <2>5. TightenTask(acc, t) = [backs |-> [acc.backs EXCEPT ![t] = r.segs], free |-> r.free]
    BY <1>1, <1>4, <1>5, <1>6, <1>8, <2>1, <2>3 DEF TightenTask, Into
  <2>6. r.segs \in Seq(Fitting(P, spec)) /\ r.free \in SUBSET P.nodes /\ Len(r.segs) = n
    BY <2>4 DEF Laid
  <2>7. PICK b : b = [acc.backs EXCEPT ![t] = r.segs]
    OBVIOUS
  <2>8. /\ DOMAIN b = DOMAIN P.tasks /\ b[t] = r.segs /\ b = [u \in DOMAIN P.tasks |-> b[u]]
        /\ \A u \in DOMAIN P.tasks : u # t => b[u] = acc.backs[u]
    BY <1>3, <2>7
  <2>9. segs # <<>>
    BY <1>5, <1>8
  <2>10. BacksFit(P, plan.l0, plan.order, b)
    <3>1. t \in Range(plan.order)
      BY <1>3, <1>4, <2>9 DEF BacksFit
    <3> QED BY <1>1, <1>3, <2>6, <2>8, <3>1 DEF BacksFit
  <2>11. b \in [DOMAIN P.tasks -> Seq(F)]
    <3>1. Fitting(P, spec) \subseteq F
      BY <1>1, <1>2
    <3>2. r.segs \in Seq(F)
      BY <2>6, <3>1, SeqOfMore
    <3> QED BY <1>3, <2>7, <3>2
  <2>12. TightenTask(acc, t) \in Books(P, plan.l0, plan.order)
    <3>1. PICK x : x = [backs |-> b, free |-> r.free]
      OBVIOUS
    <3>2. x \in [backs : [DOMAIN P.tasks -> Seq(F)], free : SUBSET P.nodes]
      BY <2>6, <2>11, <3>1
    <3>3. BacksFit(P, plan.l0, plan.order, x.backs)
      BY <2>10, <3>1
    <3>4. x \in Books(P, plan.l0, plan.order)
      BY <1>2, <3>2, <3>3 DEF Books
    <3> QED BY <2>5, <2>7, <3>1, <3>4
  <2>13. Closer(acc, TightenTask(acc, t), t)
    BY <1>4, <1>5, <1>6, <2>1, <2>4, <2>5, <2>6, <2>7, <2>8 DEF Closer
  <2> QED BY <2>5, <2>7, <2>8, <2>12, <2>13
<1> QED BY <1>7, <1>8

(* All tasks, one after the other: each is tightened once.                 *)
LEMMA TightenTasksType ==
    ASSUME Ready(P), plan.l0 \in Int, plan.free \in SUBSET P.nodes,
           BacksFit(P, plan.l0, plan.order, plan.backs)
    PROVE  /\ BacksFit(P, plan.l0, plan.order, TightenTasks.backs)
           /\ TightenTasks.free \in SUBSET P.nodes
           /\ \A t \in DOMAIN P.tasks : Closer(plan, TightenTasks, t)
<1>1. PICK n \in Nat : DOMAIN P.tasks = 1..n /\ Len(P.tasks) = n
  BY DEF Ready
<1>2. PICK R : R = Books(P, plan.l0, plan.order)
  OBVIOUS
<1>3. PICK F : F = UNION {Fitting(P, BackSpec(P, u, plan.l0)) : u \in DOMAIN P.tasks}
  OBVIOUS
<1>4. PICK base : base = [backs |-> plan.backs, free |-> plan.free]
  OBVIOUS
<1>5. base \in R
  <2>1. ASSUME NEW t \in 1..n PROVE plan.backs[t] \in Seq(F)
    <3>1. plan.backs[t] \in Seq(Fitting(P, BackSpec(P, t, plan.l0)))
      BY <1>1 DEF BacksFit
    <3>2. Fitting(P, BackSpec(P, t, plan.l0)) \subseteq F
      BY <1>1, <1>3
    <3> QED BY <3>1, <3>2, SeqOfMore
  <2>2. plan.backs = [t \in 1..n |-> plan.backs[t]]
    BY <1>1 DEF BacksFit
  <2>3. plan.backs \in [DOMAIN P.tasks -> Seq(F)]
    BY <1>1, <2>1, <2>2
  <2>4. base \in [backs : [DOMAIN P.tasks -> Seq(F)], free : SUBSET P.nodes]
    BY <1>4, <2>3
  <2>5. BacksFit(P, plan.l0, plan.order, base.backs)
    BY <1>4
  <2> QED BY <1>2, <1>3, <2>4, <2>5 DEF Books
<1>6. ASSUME NEW x \in R, NEW t \in 1..n PROVE TightenTask(x, t) \in R
  BY <1>1, <1>2, TightenTaskType
<1>7. PICK step : step = [p \in (1..n) \X R |-> TightenTask(p[2], p[1])]
  OBVIOUS
<1>8. step \in [(1..n) \X R -> R]
  BY <1>6, <1>7
<1>9. PICK f : Follows(f, n, R, base, step)
  BY <1>5, <1>8, Recursion
<1>10. f \in [0..n -> R] /\ f[0] = base /\ \A i \in 1..n : f[i] = step[<<i, f[i - 1]>>]
  BY <1>9 DEF Follows
<1>11. ASSUME NEW i \in 1..n PROVE f[i] = TightenTask(f[i - 1], i)
  <2>1. i - 1 \in 0..n
    OBVIOUS
  <2>2. <<i, f[i - 1]>> \in (1..n) \X R
    BY <1>10, <2>1
  <2> QED BY <1>7, <1>10, <2>2
<1>12. f = [t \in 0..n |-> IF t = 0 THEN base ELSE TightenTask(f[t - 1], t)]
  <2>1. ASSUME NEW t \in 0..n PROVE f[t] = IF t = 0 THEN base ELSE TightenTask(f[t - 1], t)
    <3>1. CASE t = 0
      BY <1>10, <3>1
    <3>2. CASE t # 0
      <4>1. t \in 1..n
        BY <3>2
      <4> QED BY <1>11, <3>2, <4>1
    <3> QED BY <3>1, <3>2
  <2> QED BY <1>10, <2>1
<1>13. PICK g : g = CHOOSE made : made = [t \in 0..n |-> IF t = 0 THEN base ELSE TightenTask(made[t - 1], t)]
  OBVIOUS
<1>14. g = [t \in 0..n |-> IF t = 0 THEN base ELSE TightenTask(g[t - 1], t)]
  BY <1>12, <1>13
<1>15. g[0] = base /\ \A i \in 1..n : g[i] = TightenTask(g[i - 1], i)
  <2>1. 0 \in 0..n /\ \A i \in 1..n : i \in 0..n /\ i # 0
    OBVIOUS
  <2> QED BY <1>14, <2>1
<1>16. \A i \in 0..n : g[i] \in R
  <2>1. \A i \in 1..n : g[i - 1] \in R => g[i] \in R
    BY <1>6, <1>15
  <2>2. g[0] \in R
    BY <1>5, <1>15
  <2> QED BY <2>1, <2>2, LoopInvariant
<1>17. TightenTasks = g[n]
  BY <1>1, <1>4, <1>13 DEF TightenTasks
<1>18. PICK S : S = {i \in 0..n : \A t \in 1..n : IF t <= i THEN Closer(plan, g[i], t)
                                                  ELSE g[i].backs[t] = plan.backs[t]}
  OBVIOUS
<1>19. 0 \in S
  <2>1. \A t \in 1..n : ~(t <= 0)
    OBVIOUS
  <2>2. g[0].backs = plan.backs
    BY <1>4, <1>15
  <2> QED BY <1>18, <2>1, <2>2
<1>20. ASSUME NEW i \in 0..n, i \in S, i < n PROVE i + 1 \in S
  <2>1. PICK j \in 1..n : j = i + 1 /\ j - 1 = i
    BY <1>20
  <2>2. g[i] \in R /\ g[j] = TightenTask(g[i], j)
    BY <1>15, <1>16, <2>1
  <2>3. Closer(g[i], g[j], j) /\ \A u \in 1..n : u # j => g[j].backs[u] = g[i].backs[u]
    BY <1>1, <1>2, <2>2, TightenTaskType
  <2>4. \A t \in 1..n : IF t <= i THEN Closer(plan, g[i], t) ELSE g[i].backs[t] = plan.backs[t]
    BY <1>18, <1>20
  <2>5. ASSUME NEW t \in 1..n
        PROVE  IF t <= j THEN Closer(plan, g[j], t) ELSE g[j].backs[t] = plan.backs[t]
    <3>1. CASE t = j
      <4>1. ~(t <= i) /\ t <= j
        BY <2>1, <3>1
      <4>2. g[i].backs[t] = plan.backs[t]
        BY <2>4, <4>1
      <4>3. Closer(plan, g[j], t)
        BY <2>3, <3>1, <4>2 DEF Closer
      <4> QED BY <4>1, <4>3
    <3>2. CASE t # j
      <4>1. t <= i <=> t <= j
        BY <2>1, <3>2
      <4>2. g[j].backs[t] = g[i].backs[t]
        BY <2>3, <3>2
      <4>3. CASE t <= j
        <5>1. Closer(plan, g[i], t)
          BY <2>4, <4>1, <4>3
        <5> QED BY <4>2, <4>3, <5>1 DEF Closer
      <4>4. CASE ~(t <= j)
        BY <2>4, <4>1, <4>2, <4>4
      <4> QED BY <4>3, <4>4
    <3> QED BY <3>1, <3>2
  <2> QED BY <1>18, <2>1, <2>5
<1>21. \A i \in 0..n : i \in S
  BY <1>19, <1>20, CountUp
<1>22. n \in 0..n /\ n \in S
  BY <1>21
<1>23. \A t \in 1..n : Closer(plan, g[n], t)
  <2>1. \A t \in 1..n : t <= n
    OBVIOUS
  <2> QED BY <1>18, <1>22, <2>1
<1>24. g[n].free \in SUBSET P.nodes /\ BacksFit(P, plan.l0, plan.order, g[n].backs)
  BY <1>2, <1>16, <1>22 DEF Books
<1> QED BY <1>1, <1>17, <1>23, <1>24

-----------------------------------------------------------------------------
(* The fronts                                                              *)

Fronted(Q, spec) == [segs : Seq(Fitting(Q, spec)), free : SUBSET Q.nodes, more : BOOLEAN]

(* One more front segment fits like those before it.                       *)
LEMMA BuildFrontType ==
    ASSUME Ready(P), NEW spec, Interval(spec), NEW acc \in Fronted(P, spec)
    PROVE  BuildFront(spec, acc) \in Fronted(P, spec)
<1>1. PICK F : F = Fitting(P, spec)
  OBVIOUS
<1>2. acc \in [segs : Seq(F), free : SUBSET P.nodes, more : BOOLEAN]
  BY <1>1 DEF Fronted
<1>3. PICK got : got = IF acc.more THEN DeployPath(P, spec, acc.free, Objective(NoTarget, {}, {}, <<>>),
                                                   P.cfg.beamFront)
                       ELSE <<>>
  OBVIOUS
<1>4. got \in Seq(F)
  <2>1. CASE acc.more
    <3>1. P.cfg.beamFront \in Nat /\ Searchable(P)
      BY DEF Ready, Searchable
    <3>2. got \in Seq(Placements(P, spec, acc.free))
      BY <1>2, <1>3, <2>1, <3>1, DeployPathType
    <3>3. Placements(P, spec, acc.free) \subseteq F
      BY <1>1, <1>2, PlacementsFit
    <3> QED BY <3>2, <3>3, SeqOfMore
  <2>2. CASE ~acc.more
    BY <1>3, <2>2, EmptySeq
  <2> QED BY <2>1, <2>2
<1>5. BuildFront(spec, acc) = AddFront(acc, got)
  BY <1>3 DEF BuildFront
<1>6. CASE got = <<>>
  BY <1>1, <1>2, <1>5, <1>6 DEF AddFront, Fronted
<1>7. CASE got # <<>>
  <2>1. got[1] \in F
    BY <1>4, <1>7, EmptySeq, ElementOfSeq, LenProperties
  <2>2. Append(acc.segs, got[1]) \in Seq(F)
    BY <1>2, <2>1, AppendProperties
  <2>3. AddFront(acc, got) = [acc EXCEPT !.segs = Append(@, got[1]), !.free = @ \ NodesOf(got[1])]
    BY <1>7 DEF AddFront
  <2> QED BY <1>1, <1>2, <1>5, <2>2, <2>3 DEF Fronted
<1> QED BY <1>6, <1>7

(* The front segments that are built fit.                                  *)
LEMMA FrontsType ==
    ASSUME Ready(P), plan.free \in SUBSET P.nodes, NEW spec, Interval(spec), NEW n \in Nat
    PROVE  Fronts(spec, n).segs \in Seq(Fitting(P, spec)) /\ Fronts(spec, n).free \in SUBSET P.nodes
<1>1. PICK R : R = Fronted(P, spec)
  OBVIOUS
<1>2. PICK base : base = [segs |-> <<>>, free |-> plan.free, more |-> TRUE]
  OBVIOUS
<1>3. base \in R
  <2>1. <<>> \in Seq(Fitting(P, spec))
    BY EmptySeq
  <2> QED BY <1>1, <1>2, <2>1 DEF Fronted
<1>4. ASSUME NEW x \in R PROVE BuildFront(spec, x) \in R
  BY <1>1, BuildFrontType
<1>5. PICK step : step = [p \in (1..n) \X R |-> BuildFront(spec, p[2])]
  OBVIOUS
<1>6. step \in [(1..n) \X R -> R]
  BY <1>4, <1>5
<1>7. PICK f : Follows(f, n, R, base, step)
  BY <1>3, <1>6, Recursion
<1>8. f \in [0..n -> R] /\ f[0] = base /\ \A i \in 1..n : f[i] = step[<<i, f[i - 1]>>]
  BY <1>7 DEF Follows
<1>9. ASSUME NEW i \in 1..n PROVE f[i] = BuildFront(spec, f[i - 1])
  <2>1. i - 1 \in 0..n
    OBVIOUS
  <2>2. <<i, f[i - 1]>> \in (1..n) \X R
    BY <1>8, <2>1
  <2> QED BY <1>5, <1>8, <2>2
<1>10. f = [i \in 0..n |-> IF i = 0 THEN base ELSE BuildFront(spec, f[i - 1])]
  <2>1. ASSUME NEW i \in 0..n PROVE f[i] = IF i = 0 THEN base ELSE BuildFront(spec, f[i - 1])
    <3>1. CASE i = 0
      BY <1>8, <3>1
    <3>2. CASE i # 0
      <4>1. i \in 1..n
        BY <3>2
      <4> QED BY <1>9, <3>2, <4>1
    <3> QED BY <3>1, <3>2
  <2> QED BY <1>8, <2>1
<1>11. PICK g : g = CHOOSE made : made = [i \in 0..n |-> IF i = 0 THEN base ELSE BuildFront(spec, made[i - 1])]
  OBVIOUS
<1>12. g = [i \in 0..n |-> IF i = 0 THEN base ELSE BuildFront(spec, g[i - 1])]
  BY <1>10, <1>11
<1>13. g[0] = base /\ \A i \in 1..n : g[i] = BuildFront(spec, g[i - 1])
  <2>1. 0 \in 0..n /\ \A i \in 1..n : i \in 0..n /\ i # 0
    OBVIOUS
  <2> QED BY <1>12, <2>1
<1>14. \A i \in 0..n : g[i] \in R
  <2>1. \A i \in 1..n : g[i - 1] \in R => g[i] \in R
    BY <1>4, <1>13
  <2>2. g[0] \in R
    BY <1>3, <1>13
  <2> QED BY <2>1, <2>2, LoopInvariant
<1>15. n \in 0..n
  OBVIOUS
<1>16. Fronts(spec, n) = [segs |-> g[n].segs, free |-> g[n].free]
  BY <1>2, <1>11 DEF Fronts
<1> QED BY <1>1, <1>14, <1>15, <1>16 DEF Fronted

(* They fit after they were tightened.                                     *)
LEMMA TightenFrontsType ==
    ASSUME Ready(P), NEW spec, Interval(spec), NEW at,
           at \in [segs : Seq(Fitting(P, spec)), free : SUBSET P.nodes]
    PROVE  /\ TightenFronts(spec, at).segs \in Seq(Fitting(P, spec))
           /\ TightenFronts(spec, at).free \in SUBSET P.nodes
<1>1. PICK n \in Nat : n = Len(at.segs)
  BY LenProperties
<1>2. CASE n < 2
  BY <1>1, <1>2 DEF TightenFronts
<1>3. CASE ~(n < 2)
  <2>1. PICK band \in Int \X Int : band = BandFromMedian(P, at.segs)
    <3>1. Fitting(P, spec) \subseteq Partials(P, spec, P.nodes)
      BY DEF Fitting, Placements
    <3>2. at.segs \in Seq(Partials(P, spec, P.nodes))
      BY <3>1, SeqOfMore
    <3> QED BY <3>2, BandType DEF Ready
  <2>2. at \in Laid(P, spec, n)
    BY <1>1 DEF Laid
  <2>3. PICK r : r = TightenLex(P, spec, at, band, {}, <<>>)
    OBVIOUS
  <2>4. r \in Laid(P, spec, n)
    <3>1. Searchable(P) /\ Measured(P) /\ P.cfg.tightenEps \in Int
      BY DEF Ready
    <3> QED BY <2>2, <2>3, <3>1, TightenLexType
  <2>5. TightenFronts(spec, at) = r
    BY <1>1, <1>3, <2>1, <2>3 DEF TightenFronts
  <2> QED BY <2>4, <2>5 DEF Laid
<1> QED BY <1>2, <1>3

-----------------------------------------------------------------------------
(* The first plan                                                          *)

(* The cut is between two layers.                                          *)
LEMMA ChooseL0Type ==
    ASSUME Ready(P), ChooseL0(P) # <<>>
    PROVE  ChooseL0(P)[1].l0 \in Nat
<1>1. PICK m \in Nat : 1..(P.L - 1) = 1..m
  <2>1. PICK L \in Nat : L = P.L
    BY DEF Ready, Searchable
  <2>2. CASE L = 0
    <3>1. 1..(P.L - 1) = 1..0
      BY <2>1, <2>2
    <3> QED BY <3>1
  <2>3. CASE L > 0
    <3>1. L - 1 \in Nat
      BY <2>3
    <3> QED BY <2>1, <3>1
  <2> QED BY <2>1, <2>2, <2>3
<1>2. PICK all : all = [l \in 1..m |-> l]
  OBVIOUS
<1>3. all \in Seq(Nat)
  <2>1. all \in [1..m -> Nat]
    BY <1>2
  <2> QED BY <2>1, IsASeq
<1>4. PICK l0s : l0s = Where(all, DOMAIN P.curve)
  OBVIOUS
<1>5. l0s \in Seq(Nat)
  <2>1. \A i \in DOMAIN all : all[i] \in Nat
    BY <1>2
  <2> QED BY <1>3, <1>4, <2>1, WhereType
<1>6. PICK k \in Nat : k = Len(l0s) /\ DOMAIN l0s = 1..k
  BY <1>5, LenProperties
<1>7. PICK T : T = {L0Candidate(P, l) : l \in Nat}
  OBVIOUS
<1>8. \A x \in T : x.l0 \in Nat
  <2>1. ASSUME NEW x \in T PROVE x.l0 \in Nat
    <3>1. PICK l \in Nat : x = L0Candidate(P, l)
      BY <1>7
    <3>2. L0Candidate(P, l).l0 = l
      BY DEF L0Candidate
    <3> QED BY <3>1, <3>2
  <2> QED BY <2>1
<1>9. PICK cs : cs = Candidates(P)
  OBVIOUS
<1>10. cs \in Seq(T)
  <2>1. cs = [i \in DOMAIN l0s |-> L0Candidate(P, l0s[i])]
    <3>1. Where([l \in 1..(P.L - 1) |-> l], DOMAIN P.curve) = l0s
      BY <1>1, <1>2, <1>4
    <3> QED BY <1>9, <3>1 DEF Candidates
  <2>2. \A i \in 1..k : l0s[i] \in Nat
    BY <1>5, <1>6, ElementOfSeq
  <2>3. cs \in [1..k -> T]
    BY <1>6, <1>7, <2>1, <2>2
  <2> QED BY <2>3, IsASeq
<1>11. PICK I : I = {i \in DOMAIN cs : cs[i].slots > 0 /\ cs[i].p >= P.cfg.pmin}
  OBVIOUS
<1>12. PICK good : good = Where(cs, I)
  OBVIOUS
<1>13. good \in Seq(T)
  <2>1. \A i \in DOMAIN cs : i \in I => cs[i] \in T
    BY <1>10, ElementOfSeq, LenProperties
  <2> QED BY <1>10, <1>12, <2>1, WhereType
<1>14. PICK key : key = [i \in DOMAIN good |-> <<-good[i].slots, good[i].hops, -good[i].p, good[i].l0>>]
  OBVIOUS
<1>15. ChooseL0(P) = Best(good, key, 1)
  <2>1. ChooseL0(P) = The({Choice(P, c) : c \in {cs}})
    BY <1>9 DEF ChooseL0
  <2>2. {Choice(P, c) : c \in {cs}} = {Choice(P, cs)}
    OBVIOUS
  <2>3. The({Choice(P, cs)}) = Choice(P, cs)
    BY TheOne
  <2>4. Choice(P, cs) = Best(good, key, 1)
    BY <1>11, <1>12, <1>14 DEF Choice, MostSlots
  <2> QED BY <2>1, <2>2, <2>3, <2>4
<1>16. Best(good, key, 1) \in Seq(T)
  BY <1>13, BestFacts
<1>17. ChooseL0(P)[1] \in T
  <2>1. PICK b \in Seq(T) : b = ChooseL0(P)
    BY <1>15, <1>16
  <2> QED BY <2>1, EmptySeq, ElementOfSeq, LenProperties
<1> QED BY <1>8, <1>17

(* The order in which tasks are served is a list of tasks.                 *)
LEMMA OrderType ==
    ASSUME Ready(P), NEW cap
    PROVE  Order(cap) \in Seq(DOMAIN P.tasks)
<1>1. PICK n \in Nat : DOMAIN P.tasks = 1..n /\ Len(P.tasks) = n
  BY DEF Ready
<1>2. [t \in DOMAIN P.tasks |-> t] \in [1..n -> DOMAIN P.tasks]
  BY <1>1
<1>3. [t \in DOMAIN P.tasks |-> t] \in Seq(DOMAIN P.tasks)
  BY <1>2, IsASeq
<1>4. PICK key : key = [t \in DOMAIN P.tasks |-> <<Cardinality(cap.forms.back[t]), -P.tasks[t].lam>>]
  OBVIOUS
<1>5. Best([t \in DOMAIN P.tasks |-> t], key, Len(P.tasks)) \in Seq(DOMAIN P.tasks)
  BY <1>1, <1>3, BestFacts
<1> QED BY <1>4, <1>5 DEF Order

(* plan(), with the cut made: the books are opened.                        *)
Opened(p) ==
    /\ DOMAIN p = DOMAIN NoPlan /\ p.l0 \in Nat
    /\ p.turn = 1 /\ p.band = NoBand /\ p.best = <<>> /\ p.attempt = 0 /\ p.fronts = <<>> /\ p.pool = {}
    /\ \/ p.quota = <<>> /\ p.free = {} /\ p.backs = <<>>
       \/ /\ p.free = P.nodes /\ p.order \in Seq(DOMAIN P.tasks)
          /\ p.backs = [t \in DOMAIN P.tasks |-> <<>>]

(* The plan that a cut begins with has no segments yet.                    *)
LEMMA PlanAtType ==
    ASSUME Ready(P)
    PROVE  Opened(PlanAt(ChooseL0(P)))
<1>1. CASE ChooseL0(P) = <<>>
  BY <1>1 DEF PlanAt, Opened, NoPlan
<1>2. CASE ChooseL0(P) # <<>>
  <2>1. PICK l0 \in Nat : l0 = ChooseL0(P)[1].l0
    BY <1>2, ChooseL0Type
  <2>2. PICK cap : cap = EstimateCapacity(P, l0)
    OBVIOUS
  <2>3. PlanAt(ChooseL0(P)) = FirstPlan(l0, cap)
    BY <1>2, <2>1, <2>2 DEF PlanAt
  <2>4. Order(cap) \in Seq(DOMAIN P.tasks)
    BY OrderType
  <2>5. PICK nWork : nWork = (P.cfg.theta * (IF cap.nSlots > 0 THEN cap.nSlots ELSE cap.nMax)) \div 100
    OBVIOUS
  <2>6. CASE nWork = 0
    <3>1. FirstPlan(l0, cap) = [NoPlan EXCEPT !.l0 = l0]
      BY <2>5, <2>6 DEF FirstPlan
    <3> QED BY <2>3, <3>1 DEF Opened, NoPlan
  <2>7. CASE nWork # 0
    <3>1. PICK e, q, r : FirstPlan(l0, cap) =
                [NoPlan EXCEPT !.l0 = l0, !.order = Order(cap), !.ends = e, !.quota = q, !.rent = r,
                               !.backs = [t \in DOMAIN P.tasks |-> <<>>], !.free = P.nodes]
      BY <2>5, <2>7 DEF FirstPlan
    <3>2. PICK p : p = PlanAt(ChooseL0(P))
      OBVIOUS
    <3>3. /\ DOMAIN p = DOMAIN NoPlan /\ p.l0 = l0 /\ p.turn = 1 /\ p.band = NoBand /\ p.best = <<>>
          /\ p.attempt = 0 /\ p.fronts = <<>> /\ p.pool = {} /\ p.free = P.nodes
          /\ p.order = Order(cap) /\ p.backs = [t \in DOMAIN P.tasks |-> <<>>]
      <4>1. PICK N : N = NoPlan
        OBVIOUS
      <4>2. /\ DOMAIN N = {"l0", "order", "quota", "rent", "ends", "turn", "backs", "free", "nBack",
                           "band", "best", "attempt", "tried", "fronts", "pool"}
            /\ N.turn = 1 /\ N.band = NoBand /\ N.best = <<>> /\ N.attempt = 0 /\ N.fronts = <<>>
            /\ N.pool = {}
        BY <4>1 DEF NoPlan
      <4>3. p = [N EXCEPT !.l0 = l0, !.order = Order(cap), !.ends = e, !.quota = q, !.rent = r,
                          !.backs = [t \in DOMAIN P.tasks |-> <<>>], !.free = P.nodes]
        BY <2>3, <3>1, <3>2, <4>1
      <4>4. DOMAIN p = DOMAIN N
        BY <4>3
      <4> QED BY <4>1, <4>2, <4>3, <4>4
    <3> QED BY <2>4, <3>2, <3>3 DEF Opened
  <2> QED BY <2>6, <2>7
<1> QED BY <1>1, <1>2

-----------------------------------------------------------------------------
(* The feedback                                                            *)

(* A segment that fits starts at a machine.                                *)
LEMMA HeadOfFitting ==
    ASSUME NEW Q, NEW spec, NEW seg \in Fitting(Q, spec)
    PROVE  HeadOf(seg) \in Q.nodes
<1>1. Sound(Q, spec, Q.nodes, seg.nodes, seg.splits)
  BY PartialFacts DEF Fitting, Placements
<1>2. seg.nodes \in Seq(Q.nodes) /\ seg.nodes # <<>>
  BY <1>1 DEF Sound
<1>3. seg.nodes[1] \in Q.nodes
  BY <1>2, EmptySeq, ElementOfSeq, LenProperties
<1> QED BY <1>3 DEF HeadOf

(* An entry is a machine and the head of a segment of some task.           *)
LEMMA EntriesFacts ==
    ASSUME NEW Q, NEW l0, NEW order, NEW backs, BacksFit(Q, l0, order, backs)
    PROVE  /\ Entries(backs) \in SUBSET Q.nodes
           /\ \A v \in Entries(backs) :
                 \E t \in DOMAIN Q.tasks : \E i \in DOMAIN backs[t] :
                     HeadOf(backs[t][i]) = v /\ t \in Range(order)
<1>1. ASSUME NEW v \in Entries(backs)
      PROVE  v \in Q.nodes /\ \E t \in DOMAIN Q.tasks : \E i \in DOMAIN backs[t] :
                                  HeadOf(backs[t][i]) = v /\ t \in Range(order)
  <2>1. PICK t \in DOMAIN backs : \E seg \in Range(backs[t]) : v = HeadOf(seg)
    BY DEF Entries
  <2>2. t \in DOMAIN Q.tasks
    BY DEF BacksFit
  <2>3. PICK i \in DOMAIN backs[t] : v = HeadOf(backs[t][i])
    BY <2>1 DEF Range
  <2>4. backs[t] \in Seq(Fitting(Q, BackSpec(Q, t, l0))) /\ (backs[t] # <<>> => t \in Range(order))
    BY <2>2 DEF BacksFit
  <2>5. backs[t] # <<>>
    BY <2>3, <2>4
  <2>6. backs[t][i] \in Fitting(Q, BackSpec(Q, t, l0))
    BY <2>4, ElementOfSeq, LenProperties
  <2> QED BY <2>2, <2>3, <2>4, <2>5, <2>6, HeadOfFitting
<1> QED BY <1>1

(* What stands out is an entry.                                            *)
LEMMA OutlierType ==
    ASSUME Ready(P), BacksFit(P, plan.l0, plan.order, plan.backs), Outlier # <<>>
    PROVE  Outlier[1] \in Entries(plan.backs)
<1>1. PICK E \in SUBSET P.nodes : E = Entries(plan.backs)
  BY EntriesFacts
<1>2. PICK list : list = InOrder(E)
  OBVIOUS
<1>3. list \in Seq(E)
  <2>1. PICK n \in Nat : P.nodes \subseteq 0..n
    BY DEF Ready, Searchable
  <2> QED BY <1>2, <2>1, InOrderType
<1>4. PICK m \in Nat : m = Len(list) /\ DOMAIN list = 1..m
  BY <1>3, LenProperties
<1>5. PICK diag : diag = DiagnoseOutlierEntries(Probes, E, plan.band.width, WCap)
  OBVIOUS
<1>6. PICK jump : jump = [i \in 1..m |-> Population(CommonBand(Probes, E \ {list[i]}, plan.band.width, WCap))
                                         - Population(CommonBand(Probes, E, plan.band.width, WCap))]
  OBVIOUS
<1>7. PICK rows : rows = [i \in 1..m |-> [entry |-> list[i], jump |-> jump[i]]]
  OBVIOUS
<1>8. PICK T : T = [entry : E, jump : {jump[i] : i \in 1..m}]
  OBVIOUS
<1>9. rows \in Seq(T)
  <2>1. \A i \in 1..m : list[i] \in E
    BY <1>3, <1>4, ElementOfSeq
  <2>2. rows \in [1..m -> T]
    BY <1>7, <1>8, <2>1
  <2> QED BY <2>2, IsASeq
<1>10. diag \in Seq(T)
  <2>1. CASE Cardinality(E) < 2
    <3>1. diag = <<>>
      BY <1>5, <2>1 DEF DiagnoseOutlierEntries
    <3> QED BY <3>1, EmptySeq
  <2>2. CASE ~(Cardinality(E) < 2)
    <3>1. rows = [i \in DOMAIN list |->
                    [entry |-> list[i],
                     jump |-> Population(CommonBand(Probes, E \ {list[i]}, plan.band.width, WCap))
                              - Population(CommonBand(Probes, E, plan.band.width, WCap))]]
      BY <1>4, <1>6, <1>7
    <3>2. diag = Best(rows, [i \in DOMAIN rows |-> <<-rows[i].jump>>], Len(rows))
      BY <1>2, <1>5, <2>2, <3>1 DEF DiagnoseOutlierEntries
    <3>3. Len(rows) \in Nat
      BY <1>9, LenProperties
    <3> QED BY <1>9, <3>2, <3>3, BestFacts
  <2> QED BY <2>1, <2>2
<1>11. PICK cands : cands = Where(diag, {i \in DOMAIN diag : diag[i].entry \notin plan.tried})
  OBVIOUS
<1>12. cands \in Seq(T)
  <2>1. \A i \in DOMAIN diag : i \in {j \in DOMAIN diag : diag[j].entry \notin plan.tried} => diag[i] \in T
    BY <1>10, ElementOfSeq, LenProperties
  <2> QED BY <1>10, <1>11, <2>1, WhereType
<1>13. cands # <<>> /\ Outlier = <<cands[1].entry>>
  BY <1>1, <1>5, <1>11 DEF Outlier, PickOutlier
<1>14. cands[1] \in T
  BY <1>12, <1>13, EmptySeq, ElementOfSeq, LenProperties
<1> QED BY <1>1, <1>8, <1>13, <1>14

(* An entry has a segment.                                                 *)
LEMMA HolderType ==
    ASSUME Ready(P), BacksFit(P, plan.l0, plan.order, plan.backs),
           plan.order \in Seq(DOMAIN P.tasks), NEW v \in Entries(plan.backs)
    PROVE  \E t \in DOMAIN P.tasks : \E i \in DOMAIN plan.backs[t] : Holder(v) = BackId(t, i)
<1>1. PICK n \in Nat : n = Len(plan.order) /\ DOMAIN plan.order = 1..n
  BY LenProperties
<1>2. PICK K : K = {k \in DOMAIN plan.order : EnteredAt(plan.order[k], v) # {}}
  OBVIOUS
<1>3. K # {} /\ K \in SUBSET Nat
  <2>1. PICK t \in DOMAIN P.tasks : \E i \in DOMAIN plan.backs[t] :
                                        HeadOf(plan.backs[t][i]) = v /\ t \in Range(plan.order)
    BY EntriesFacts
  <2>2. PICK k \in DOMAIN plan.order : t = plan.order[k]
    BY <2>1 DEF Range
  <2>3. EnteredAt(plan.order[k], v) # {}
    BY <2>1, <2>2 DEF EnteredAt
  <2>4. k \in K
    BY <1>2, <2>2, <2>3
  <2>5. K \subseteq 1..n
    BY <1>1, <1>2
  <2> QED BY <2>4, <2>5
<1>4. PICK k \in K : k = MinOf(K, 1)
  BY <1>3, MinOfNat
<1>5. PICK t \in DOMAIN P.tasks : t = plan.order[k]
  BY <1>1, <1>2, ElementOfSeq
<1>6. PICK I : I = EnteredAt(t, v)
  OBVIOUS
<1>7. I # {} /\ I \in SUBSET DOMAIN plan.backs[t]
  BY <1>2, <1>5, <1>6 DEF EnteredAt
<1>8. I \in SUBSET Nat
  <2>1. plan.backs[t] \in Seq(Fitting(P, BackSpec(P, t, plan.l0)))
    BY DEF BacksFit
  <2>2. DOMAIN plan.backs[t] \in SUBSET Nat
    BY <2>1, LenProperties
  <2> QED BY <1>7, <2>2
<1>9. MinOf(I, 1) \in I
  BY <1>7, <1>8, MinOfNat
<1>10. Holder(v) = BackId(t, MinOf(I, 1))
  BY <1>2, <1>4, <1>5, <1>6 DEF Holder
<1> QED BY <1>7, <1>9, <1>10

(* What replaces it fits as well.                                          *)
LEMMA RebuiltType ==
    ASSUME Ready(P), plan.l0 \in Int, plan.free \in SUBSET P.nodes,
           BacksFit(P, plan.l0, plan.order, plan.backs),
           NEW t \in DOMAIN P.tasks, NEW i \in DOMAIN plan.backs[t], NEW v, Holder(v) = BackId(t, i)
    PROVE  Rebuilt(v) \in Seq(Fitting(P, BackSpec(P, t, plan.l0)))
<1>1. Holder(v)[2] = t /\ Holder(v)[3] = i
  BY DEF BackId
<1>2. PICK spec : spec = BackSpec(P, t, plan.l0)
  OBVIOUS
<1>3. plan.backs[t][i] \in Fitting(P, spec)
  <2>1. plan.backs[t] \in Seq(Fitting(P, spec))
    BY <1>2 DEF BacksFit
  <2> QED BY <2>1, ElementOfSeq, LenProperties
<1>4. PICK S \in SUBSET P.nodes : S = (plan.free \cup NodesOf(plan.backs[t][i])) \ {v}
  BY <1>3, NodesOfFitting
<1>5. PICK o : o = BuildObjective(t)
  OBVIOUS
<1>6. Rebuilt(v) = DeployPath(P, spec, S, o, P.cfg.beam)
  BY <1>1, <1>2, <1>4, <1>5 DEF Rebuilt
<1>7. Rebuilt(v) \in Seq(Placements(P, spec, S))
  <2>1. Searchable(P) /\ P.cfg.beam \in Nat
    BY DEF Ready, Searchable
  <2>2. Interval(spec)
    BY <1>2, <2>1, BackInterval
  <2> QED BY <1>6, <2>1, <2>2, DeployPathType
<1> QED BY <1>2, <1>4, <1>7, PlacementsFit, SeqOfMore

-----------------------------------------------------------------------------
(* The books of the back segments                                          *)

(* The number of segments is counted.                                      *)
LEMMA CountedType ==
    ASSUME NEW Q, Ready(Q), NEW l0, NEW order, NEW backs, BacksFit(Q, l0, order, backs)
    PROVE  Counted(backs) \in Nat /\ [t \in DOMAIN backs |-> Len(backs[t])] \in Seq(Nat)
<1>1. PICK n \in Nat : DOMAIN Q.tasks = 1..n
  BY DEF Ready
<1>2. ASSUME NEW t \in 1..n PROVE Len(backs[t]) \in Nat
  <2>1. backs[t] \in Seq(Fitting(Q, BackSpec(Q, t, l0)))
    BY <1>1 DEF BacksFit
  <2> QED BY <2>1, LenProperties
<1>3. PICK lens : lens = [t \in DOMAIN backs |-> Len(backs[t])]
  OBVIOUS
<1>4. lens \in [1..n -> Nat]
  BY <1>1, <1>2, <1>3 DEF BacksFit
<1>5. lens \in Seq(Nat)
  BY <1>4, IsASeq
<1>6. Total(lens) \in Nat
  BY <1>5, TotalType
<1> QED BY <1>3, <1>5, <1>6 DEF Counted

(* One task's segments become others.                                      *)
MoreBy(a, b, new, old) == Counted(b) = Counted(a) + (new - old)

(* The count of segments follows the change in one task.                   *)
LEMMA BacksChange ==
    ASSUME NEW Q, Ready(Q), NEW l0, NEW order, NEW backs, BacksFit(Q, l0, order, backs),
           NEW t \in DOMAIN Q.tasks, NEW segs \in Seq(Fitting(Q, BackSpec(Q, t, l0))),
           t \in Range(order), NEW b, b = [backs EXCEPT ![t] = segs]
    PROVE  /\ BacksFit(Q, l0, order, b)
           /\ MoreBy(backs, b, Len(segs), Len(backs[t]))
<1>2. /\ DOMAIN b = DOMAIN Q.tasks /\ b[t] = segs /\ b = [u \in DOMAIN Q.tasks |-> b[u]]
      /\ \A u \in DOMAIN Q.tasks : u # t => b[u] = backs[u]
  BY DEF BacksFit
<1>3. BacksFit(Q, l0, order, b)
  BY <1>2 DEF BacksFit
<1>4. PICK was \in Seq(Nat) : was = [u \in DOMAIN backs |-> Len(backs[u])]
  BY CountedType
<1>5. PICK is \in Seq(Nat) : is = [u \in DOMAIN b |-> Len(b[u])]
  BY <1>3, CountedType
<1>6. DOMAIN was = DOMAIN Q.tasks /\ DOMAIN is = DOMAIN Q.tasks
  BY <1>2, <1>4, <1>5 DEF BacksFit
<1>7. Len(was) = Len(is)
  BY <1>6, LenProperties
<1>7a. PICK d \in Int : d = Len(segs) - Len(backs[t])
  <2>1. is[t] \in Nat /\ was[t] \in Nat
    BY <1>4, <1>5, <1>6, ElementOfSeq, LenProperties
  <2>2. is[t] = Len(segs) /\ was[t] = Len(backs[t])
    BY <1>2, <1>4, <1>5, <1>6
  <2>3. is[t] - was[t] \in Int
    BY <2>1
  <2> QED BY <2>2, <2>3
<1>7b. is[t] = was[t] + d
  <2>1. is[t] \in Nat /\ was[t] \in Nat
    BY <1>4, <1>5, <1>6, ElementOfSeq, LenProperties
  <2>2. is[t] = Len(segs) /\ was[t] = Len(backs[t])
    BY <1>2, <1>4, <1>5, <1>6
  <2> QED BY <1>7a, <2>1, <2>2
<1>8. is[t] = was[t] + d /\ \A u \in DOMAIN was : u # t => is[u] = was[u]
  BY <1>2, <1>4, <1>5, <1>6, <1>7b
<1>9. was \in Seq(Int) /\ is \in Seq(Int)
  BY SeqOfMore
<1>10. Total(is) = Total(was) + d
  BY <1>6, <1>7, <1>8, <1>9, TotalChange
<1> QED BY <1>3, <1>4, <1>5, <1>7a, <1>10 DEF Counted, MoreBy

(* Tightening leaves as many.                                              *)
LEMMA CountedSame ==
    ASSUME NEW a, NEW b, DOMAIN a = DOMAIN b, \A t \in DOMAIN a : Len(a[t]) = Len(b[t])
    PROVE  Counted(a) = Counted(b)
<1>1. [t \in DOMAIN a |-> Len(a[t])] = [t \in DOMAIN b |-> Len(b[t])]
  OBVIOUS
<1> QED BY <1>1 DEF Counted

(* What no segment has are machines.                                       *)
LEMMA FreedType ==
    ASSUME NEW backs
    PROVE  Freed(backs) \in SUBSET P.nodes
BY DEF Freed

(* The targets are numbers.                                                *)
LEMMA TargetType ==
    ASSUME Ready(P), NEW n \in Nat
    PROVE  BuildTarget(n) \in Nat
<1>1. PICK x \in Nat : x = (100 + P.cfg.kappa) * n
  BY DEF Ready
<1>2. -((-x) \div 100) \in Nat
  OBVIOUS
<1> QED BY <1>1, <1>2 DEF BuildTarget, CeilDiv

(* The delays of all back segments.                                        *)
LEMMA DelaysType ==
    ASSUME Ready(P), BacksFit(P, plan.l0, plan.order, plan.backs), plan.order \in Seq(DOMAIN P.tasks)
    PROVE  [i \in DOMAIN AllBacks |-> SegDelay(AllBacks[i])] \in Seq(Nat)
<1>1. PICK m \in Nat : m = Len(plan.order) /\ DOMAIN plan.order = 1..m
  BY LenProperties
<1>2. PICK F : F = UNION {Fitting(P, BackSpec(P, t, plan.l0)) : t \in DOMAIN P.tasks}
  OBVIOUS
<1>3. ASSUME NEW k \in 1..m PROVE plan.backs[plan.order[k]] \in Seq(F)
  <2>1. PICK t \in DOMAIN P.tasks : t = plan.order[k]
    BY <1>1, ElementOfSeq
  <2>2. plan.backs[t] \in Seq(Fitting(P, BackSpec(P, t, plan.l0)))
    BY DEF BacksFit
  <2>3. Fitting(P, BackSpec(P, t, plan.l0)) \subseteq F
    BY <1>2
  <2> QED BY <2>1, <2>2, <2>3, SeqOfMore
<1>4. PICK ss : ss = [k \in DOMAIN plan.order |-> plan.backs[plan.order[k]]]
  OBVIOUS
<1>5. ss \in [1..m -> Seq(F)]
  BY <1>1, <1>3, <1>4
<1>6. ss \in Seq(Seq(F))
  BY <1>5, IsASeq
<1>7. PICK all \in Seq(F) : all = AllBacks
  BY <1>4, <1>6, FlattenSeqType DEF AllBacks, BackSegs
<1>8. PICK n \in Nat : n = Len(all) /\ DOMAIN all = 1..n
  BY LenProperties
<1>9. ASSUME NEW i \in 1..n PROVE SegDelay(all[i]) \in Nat
  <2>1. all[i] \in F
    BY <1>8, ElementOfSeq
  <2>2. PICK t \in DOMAIN P.tasks : all[i] \in Fitting(P, BackSpec(P, t, plan.l0))
    BY <1>2, <2>1
  <2>3. all[i] \in Partials(P, BackSpec(P, t, plan.l0), P.nodes)
    BY <2>2 DEF Fitting, Placements
  <2> QED BY <2>3, SegDelayType DEF Ready
<1>10. [i \in DOMAIN all |-> SegDelay(all[i])] \in [1..n -> Nat]
  BY <1>8, <1>9
<1> QED BY <1>7, <1>10, IsASeq

(* The widest window that is allowed is a number.                          *)
LEMMA WMaxType ==
    ASSUME Ready(P), plan.l0 \in Nat, BacksFit(P, plan.l0, plan.order, plan.backs),
           plan.order \in Seq(DOMAIN P.tasks)
    PROVE  WMax \in Nat
<1>1. PICK a \in Nat : a = Median([i \in DOMAIN AllBacks |-> SegDelay(AllBacks[i])])
  BY DelaysType, MedianType
<1>2. PICK b \in Nat : b = TypicalHop(P)
  BY TypicalHopType DEF Ready
<1>3. PICK m \in Nat : m = MinOf({P.ms[v] : v \in P.nodes}, 0)
  <2>1. {P.ms[v] : v \in P.nodes} \in SUBSET Nat
    BY DEF Ready, Measured
  <2>2. CASE {P.ms[v] : v \in P.nodes} = {}
    BY <2>2 DEF MinOf
  <2>3. CASE {P.ms[v] : v \in P.nodes} # {}
    <3>1. MinOf({P.ms[v] : v \in P.nodes}, 0) \in {P.ms[v] : v \in P.nodes}
      BY <2>1, <2>3, MinOfNat
    <3> QED BY <2>1, <3>1
  <2> QED BY <2>2, <2>3
<1>4. PICK c \in Nat : c = Fine(plan.l0 * m)
  BY DEF Fine
<1>5. PICK lap \in Nat : lap = a + 2 * b + c
  OBVIOUS
<1>6. PICK eta \in Nat : eta = P.cfg.eta
  BY DEF Ready, Measured
<1>7. PICK x \in Nat : x = eta * lap
  OBVIOUS
<1>8. x \div 100 \in Nat
  OBVIOUS
<1>9. WMax = x \div 100
  BY <1>1, <1>2, <1>3, <1>4, <1>5, <1>6, <1>7 DEF WMax
<1> QED BY <1>8, <1>9

(* The exits of a band that is placed are machines.                        *)
LEMMA PlacedBandType ==
    ASSUME Ready(P), plan.l0 \in Nat, BacksFit(P, plan.l0, plan.order, plan.backs),
           plan.order \in Seq(DOMAIN P.tasks), plan.free \in SUBSET P.nodes, NEW n \in Nat
    PROVE  PickBandwidth(Probes, Entries(plan.backs), WCap, WMax, BuildTarget(n)).exits \in SUBSET P.nodes
<1>1. PICK cands \in SUBSET P.nodes : cands = CanHoldFront(plan.l0, plan.free)
  BY DEF CanHoldFront
<1>2. PICK wmax \in Nat : wmax = WMax
  BY WMaxType
<1>3. PICK target \in Int : target = BuildTarget(n)
  BY TargetType
<1>4. PICK w95 : w95 = WCap + Fine(P.cfg.jcap)
  OBVIOUS
<1>5. Probes = ProbeExits(P, cands, Entries(plan.backs), w95)
  BY <1>1, <1>4 DEF Probes
<1>6. PickBandwidth(ProbeExits(P, cands, Entries(plan.backs), w95), Entries(plan.backs), WCap, wmax, target).exits
        \in SUBSET cands
  BY PickType DEF Ready
<1> QED BY <1>1, <1>2, <1>3, <1>5, <1>6
(* A machine placed anew: as many segments as before.                      *)
LEMMA ReplacedFits ==
    ASSUME Ready(P), plan.l0 \in Nat, plan.free \in SUBSET P.nodes,
           BacksFit(P, plan.l0, plan.order, plan.backs), plan.order \in Seq(DOMAIN P.tasks),
           Outlier # <<>>, Rebuilt(Outlier[1]) # <<>>
    PROVE  LET id == Holder(Outlier[1])
               b  == [plan.backs EXCEPT ![id[2]][id[3]] = Rebuilt(Outlier[1])[1]]
           IN  BacksFit(P, plan.l0, plan.order, b) /\ Counted(b) = Counted(plan.backs)
<1>1. PICK v \in Entries(plan.backs) : v = Outlier[1]
  BY OutlierType
<1>2a. PICK t \in DOMAIN P.tasks : \E i \in DOMAIN plan.backs[t] : Holder(v) = BackId(t, i)
  BY HolderType
<1>2. PICK i \in DOMAIN plan.backs[t] : Holder(v) = BackId(t, i)
  BY <1>2a
<1>3. Holder(v)[2] = t /\ Holder(v)[3] = i
  BY <1>2 DEF BackId
<1>4. PICK F : F = Fitting(P, BackSpec(P, t, plan.l0))
  OBVIOUS
<1>5. PICK got \in Seq(F) : got = Rebuilt(v)
  BY <1>2, <1>4, RebuiltType
<1>6. got[1] \in F
  <2>1. got # <<>>
    BY <1>1, <1>5
  <2> QED BY <2>1, EmptySeq, ElementOfSeq, LenProperties
<1>7. PICK segs \in Seq(F) : segs = plan.backs[t]
  BY <1>4 DEF BacksFit
<1>8. segs # <<>> /\ t \in Range(plan.order)
  <2>1. segs # <<>>
    BY <1>2, <1>7
  <2> QED BY <1>7, <2>1 DEF BacksFit
<1>9. PICK new : new = [segs EXCEPT ![i] = got[1]]
  OBVIOUS
<1>10. new \in Seq(F) /\ Len(new) = Len(segs) + 0
  BY <1>6, <1>7, <1>9, ExceptSeq
<1>11. PICK b : b = [plan.backs EXCEPT ![t] = new]
  OBVIOUS
<1>12. BacksFit(P, plan.l0, plan.order, b) /\ Counted(b) = Counted(plan.backs) + 0
  <2>1. new \in Seq(Fitting(P, BackSpec(P, t, plan.l0)))
    BY <1>4, <1>10
  <2>2. /\ BacksFit(P, plan.l0, plan.order, b)
        /\ MoreBy(plan.backs, b, Len(new), Len(plan.backs[t]))
    BY <1>8, <1>11, <2>1, BacksChange
  <2>3. Len(new) - Len(plan.backs[t]) = 0
    <3>1. Len(segs) \in Nat
      BY LenProperties
    <3> QED BY <1>7, <1>10, <3>1
  <2> QED BY <2>2, <2>3 DEF MoreBy
<1>13. Counted(plan.backs) \in Nat
  BY CountedType
<1>14. [plan.backs EXCEPT ![t][i] = got[1]] = b
  BY <1>7, <1>9, <1>11
<1>15. PICK id : id = Holder(Outlier[1])
  OBVIOUS
<1>16. id[2] = t /\ id[3] = i
  BY <1>1, <1>3, <1>15
<1>17. [plan.backs EXCEPT ![id[2]][id[3]] = Rebuilt(Outlier[1])[1]] = b
  BY <1>1, <1>5, <1>14, <1>16
<1>18. Counted(b) = Counted(plan.backs)
  BY <1>12, <1>13
<1> QED BY <1>12, <1>15, <1>17, <1>18

(* A task that gives a segment up has two; it keeps the others.            *)
LEMMA DonorsType ==
    ASSUME plan.order \in Seq(DOMAIN P.tasks), Donors # <<>>
    PROVE  /\ Donors[1] \in DOMAIN P.tasks /\ Donors[1] \in Range(plan.order)
           /\ Len(plan.backs[Donors[1]]) > 1
<1>1. PICK T : T = {t \in DOMAIN P.tasks : t \in Range(plan.order) /\ Len(plan.backs[t]) > 1}
  OBVIOUS
<1>2. PICK I : I = {k \in DOMAIN plan.order : Len(plan.backs[plan.order[k]]) > 1}
  OBVIOUS
<1>3. PICK us : us = Where(plan.order, I)
  OBVIOUS
<1>4. us \in Seq(T)
  <2>1. ASSUME NEW k \in DOMAIN plan.order, k \in I PROVE plan.order[k] \in T
    <3>1. plan.order[k] \in DOMAIN P.tasks
      BY ElementOfSeq, LenProperties
    <3>2. plan.order[k] \in Range(plan.order)
      BY DEF Range
    <3> QED BY <1>1, <1>2, <2>1, <3>1, <3>2
  <2>2. \A k \in DOMAIN plan.order : k \in I => plan.order[k] \in T
    BY <2>1
  <2> QED BY <1>3, <2>2, WhereType
<1>5. PICK fair : fair = [t \in DOMAIN P.tasks |-> Len(plan.backs[t])]
  OBVIOUS
<1>6. PICK key : key = [k \in DOMAIN us |-> <<-FairRatio(P, fair, us[k])>>]
  OBVIOUS
<1>7. Donors = Best(us, key, Len(us))
  BY <1>2, <1>3, <1>5, <1>6 DEF Donors
<1>8. PICK d \in Seq(T) : d = Donors
  <2>1. Len(us) \in Nat
    BY <1>4, LenProperties
  <2> QED BY <1>4, <1>7, <2>1, BestFacts
<1>9. d[1] \in T
  BY <1>8, EmptySeq, ElementOfSeq, LenProperties
<1> QED BY <1>1, <1>8, <1>9

(* What is left when a segment is given up fits, and is one less.          *)
LEMMA GivenUpFits ==
    ASSUME Ready(P), plan.l0 \in Nat,
           BacksFit(P, plan.l0, plan.order, plan.backs), plan.order \in Seq(DOMAIN P.tasks),
           Donors # <<>>
    PROVE  LET t == Donors[1]
               b == [plan.backs EXCEPT ![t] = RemoveAt(plan.backs[t], Dropped(t))]
           IN  BacksFit(P, plan.l0, plan.order, b) /\ Counted(b) = Counted(plan.backs) - 1
<1>1. PICK t \in DOMAIN P.tasks : t = Donors[1] /\ t \in Range(plan.order) /\ Len(plan.backs[t]) > 1
  BY DonorsType
<1>2. PICK F : F = Fitting(P, BackSpec(P, t, plan.l0))
  OBVIOUS
<1>3. PICK segs \in Seq(F) : segs = plan.backs[t]
  BY <1>2 DEF BacksFit
<1>4. PICK n \in Nat : n = Len(segs) /\ DOMAIN segs = 1..n
  BY LenProperties
<1>5. PICK i \in 1..n : i = Dropped(t)
  <2>1. PICK head : head = plan.ends[1].head
    OBVIOUS
  <2>2. PICK I : I = {k \in DOMAIN segs : \A j \in DOMAIN segs : head[HeadOf(segs[j])] <= head[HeadOf(segs[k])]}
    OBVIOUS
  <2>3. Dropped(t) = MinOf(I, 1)
    BY <1>3, <2>1, <2>2 DEF Dropped
  <2>4. I \in SUBSET (1..n)
    BY <1>4, <2>2
  <2>5. CASE I = {}
    <3>1. Dropped(t) = 1
      BY <2>3, <2>5 DEF MinOf
    <3> QED BY <1>1, <1>3, <1>4, <3>1
  <2>6. CASE I # {}
    <3>1. I \in SUBSET Nat
      BY <2>4
    <3>2. MinOf(I, 1) \in I
      BY <2>6, <3>1, MinOfNat
    <3> QED BY <2>3, <2>4, <3>2
  <2> QED BY <2>5, <2>6
<1>6. PICK new : new = RemoveAt(segs, i)
  OBVIOUS
<1>7. new \in Seq(F) /\ DOMAIN new = 1..(n - 1)
  BY <1>4, <1>6, RemoveFromQueue
<1>8. Len(new) = Len(segs) + (-1)
  <2>1. n - 1 \in Nat
    BY <1>5
  <2> QED BY <1>4, <1>7, <2>1, LenProperties
<1>9. PICK b : b = [plan.backs EXCEPT ![t] = new]
  OBVIOUS
<1>10. BacksFit(P, plan.l0, plan.order, b) /\ Counted(b) = Counted(plan.backs) + (-1)
  <2>1. new \in Seq(Fitting(P, BackSpec(P, t, plan.l0)))
    BY <1>2, <1>7
  <2>2. /\ BacksFit(P, plan.l0, plan.order, b)
        /\ MoreBy(plan.backs, b, Len(new), Len(plan.backs[t]))
    BY <1>1, <1>9, <2>1, BacksChange
  <2>3. Len(new) - Len(plan.backs[t]) = -1
    BY <1>3, <1>4, <1>8
  <2> QED BY <2>2, <2>3 DEF MoreBy
<1>11. Counted(plan.backs) \in Nat
  BY CountedType
<1> QED BY <1>1, <1>3, <1>5, <1>6, <1>9, <1>10, <1>11

(* The fronts that stay are some of those there are.                       *)
LEMMA TrimType ==
    ASSUME NEW S, NEW fronts \in Seq(S), NEW segs
    PROVE  TrimByLoop(LoopProfile(P, fronts, segs)) \in Seq(DOMAIN fronts)
<1>1. PICK n \in Nat : n = Len(fronts) /\ DOMAIN fronts = 1..n
  BY LenProperties
<1>2. PICK rows : rows = LoopProfile(P, fronts, segs)
  OBVIOUS
<1>3. PICK T : T = {rows[i] : i \in 1..n}
  OBVIOUS
<1>4. DOMAIN rows = 1..n /\ \A i \in 1..n : rows[i].index = i
  BY <1>1, <1>2 DEF LoopProfile
<1>5. rows \in Seq(T)
  <2>1. rows = [i \in 1..n |-> rows[i]]
    BY <1>1, <1>2 DEF LoopProfile
  <2>2. rows \in [1..n -> T]
    BY <1>3, <2>1
  <2> QED BY <2>2, IsASeq
<1>6. PICK live : live = Live(rows)
  OBVIOUS
<1>7. live \in Seq(T)
  <2>1. PICK I : I = {k \in DOMAIN rows : ~rows[k].gated}
    OBVIOUS
  <2>2. \A i \in DOMAIN rows : i \in I => rows[i] \in T
    BY <1>5, ElementOfSeq, LenProperties
  <2>3. Where(rows, I) \in Seq(T)
    BY <1>5, <2>2, WhereType
  <2> QED BY <1>6, <2>1, <2>3 DEF Live
<1>8. PICK key : key = [k \in DOMAIN live |-> <<live[k].D, live[k].index>>]
  OBVIOUS
<1>9. PICK order \in Seq(T) : order = Best(live, key, Len(live))
  <2>1. Len(live) \in Nat
    BY <1>7, LenProperties
  <2> QED BY <1>7, <2>1, BestFacts
<1>10. PICK m \in Nat : m = Len(order) /\ DOMAIN order = 1..m
  BY LenProperties
<1>11. PICK idx : idx = [k \in DOMAIN order |-> order[k].index]
  OBVIOUS
<1>12. \A k \in 1..m : order[k].index \in 1..n
  BY <1>3, <1>4, <1>9, <1>10, ElementOfSeq
<1>13. idx \in [1..m -> 1..n]
  BY <1>10, <1>11, <1>12
<1>14. TrimByLoop(rows) = idx
  BY <1>6, <1>8, <1>9, <1>11 DEF TrimByLoop
<1> QED BY <1>1, <1>2, <1>13, <1>14, IsASeq

(* Fronts are kept of those built, no fewer than are to be served.         *)
LEMMA KeptType ==
    ASSUME Ready(P), plan.nBack \in Nat, NEW S, NEW fronts \in Seq(S), NEW order \in Seq(DOMAIN fronts)
    PROVE  /\ Kept(fronts, order).kept \in Seq(S) /\ Kept(fronts, order).live \in Nat
           /\ Kept(fronts, order).live >= plan.nBack => Len(Kept(fronts, order).kept) >= plan.nBack
<1>1. PICK len \in Nat : len = Len(order) /\ DOMAIN order = 1..len
  BY LenProperties
<1>2. PICK goal \in Nat : goal = FinalTarget(plan.nBack) /\ goal >= plan.nBack
  BY DEF Ready, FinalTarget
<1>3. PICK n \in Nat : n = MinOf({len, goal}, 0) /\ n \in {len, goal} /\ n <= len
  <2>1. {len, goal} \in SUBSET Nat /\ {len, goal} # {}
    OBVIOUS
  <2> QED BY <2>1, MinOfNat
<1>4. PICK top \in Seq(DOMAIN fronts) : top = Take(order, n)
  BY TakeFacts
<1>5. PICK m \in Nat : m = Len(top) /\ DOMAIN top = 1..m
  BY LenProperties
<1>6. PICK kept : kept = [k \in DOMAIN top |-> fronts[top[k]]]
  OBVIOUS
<1>7. kept \in [1..m -> S]
  <2>1. ASSUME NEW k \in 1..m PROVE fronts[top[k]] \in S
    <3>1. PICK i \in DOMAIN fronts : i = top[k]
      BY <1>5, ElementOfSeq
    <3>2. fronts[i] \in S
      BY ElementOfSeq, LenProperties
    <3> QED BY <3>1, <3>2
  <2> QED BY <1>5, <1>6, <2>1
<1>8. kept \in Seq(S)
  BY <1>7, IsASeq
<1>9. Kept(fronts, order).kept = kept /\ Kept(fronts, order).live = len
  BY <1>1, <1>2, <1>3, <1>4, <1>6 DEF Kept
<1>10. m = n
  <2>1. CASE n < len
    BY <1>1, <1>4, <1>5, <2>1, TakeFacts
  <2>2. CASE ~(n < len)
    <3>1. n = len /\ n >= Len(order)
      BY <1>1, <1>3, <2>2
    <3>2. top = order
      BY <1>4, <3>1, TakeFacts
    <3> QED BY <1>1, <1>5, <3>1, <3>2
  <2> QED BY <2>1, <2>2
<1>11. Len(kept) = n
  BY <1>7, <1>8, <1>10, LenProperties
<1>12. len >= plan.nBack => n >= plan.nBack
  BY <1>2, <1>3
<1> QED BY <1>8, <1>9, <1>11, <1>12
-----------------------------------------------------------------------------
(* The inductive invariant                                                 *)

Rounds == {"band", "feedback", "settle", "fronts", "trim"}

(* Whatever the stage, what the plan has of segments fits the problem.     *)
Proper(Q, p) ==
    /\ DOMAIN p = DOMAIN NoPlan /\ p.l0 \in Nat /\ p.free \in SUBSET Q.nodes
    /\ p.fronts \in Seq(Fitting(Q, FrontSpec(Q, p.l0, p.band.exits)))
    /\ \A t \in DOMAIN p.backs : p.backs[t] \in Seq(Fitting(Q, BackSpec(Q, t, p.l0)))

(* The best round so far is one that the loop can go back to: its segments *)
(* fit too, and they are as many as there are to be served.                *)
BestFits(Q, p) ==
    /\ DOMAIN p.best = {1} /\ BacksFit(Q, p.l0, p.order, p.best[1].backs)
    /\ p.best[1].band.exits \in SUBSET Q.nodes
    /\ Counted(p.best[1].backs) = p.nBack

AtWork(Q, s, p) ==
    /\ Ready(Q) /\ BacksFit(Q, p.l0, p.order, p.backs)
    /\ p.order \in Seq(DOMAIN Q.tasks) /\ p.turn \in Nat \ {0}
    /\ p.band.exits \in SUBSET Q.nodes /\ p.attempt \in 0..MaxFeedback
    /\ s # "trim" => p.fronts = <<>>
    /\ s = "build" => p.best = <<>> /\ p.attempt = 0
    /\ s \in Rounds => p.nBack = Counted(p.backs)
    /\ p.best # <<>> => BestFits(Q, p)
    /\ s \in {"feedback", "settle"} => p.best # <<>>
    /\ s = "feedback" => p.attempt < MaxFeedback

Safe(Q, s, p) ==
    /\ Proper(Q, p)
    /\ s \in {"start", "cut", "load"} => p = NoPlan
    /\ s = "cut" => Ready(Q)
    /\ s \in {"build"} \cup Rounds => AtWork(Q, s, p)
    /\ s = "check" => Len(p.fronts) >= Counted(p.backs)

PlanInv == site \in DOMAIN Sites /\ Safe(P, stage, plan)

(* Before it is made, a plan is proper whatever the problem.               *)
LEMMA NoPlanFields ==
    /\ DOMAIN NoPlan = {"l0", "order", "quota", "rent", "ends", "turn", "backs", "free", "nBack",
                        "band", "best", "attempt", "tried", "fronts", "pool"}
    /\ NoPlan.l0 = 0 /\ NoPlan.free = {} /\ NoPlan.fronts = <<>> /\ NoPlan.backs = <<>>
    /\ NoPlan.attempt = 0
BY DEF NoPlan

(* The empty plan is proper.                                               *)
LEMMA NoPlanProper ==
    ASSUME NEW Q
    PROVE  Proper(Q, NoPlan)
<1>1. DOMAIN NoPlan.backs = {}
  BY NoPlanFields
<1>2. NoPlan.fronts \in Seq(Fitting(Q, FrontSpec(Q, NoPlan.l0, NoPlan.band.exits)))
  BY NoPlanFields
<1> QED BY <1>1, <1>2, NoPlanFields DEF Proper

(* What the tasks have fits, so the plan is proper.                        *)
LEMMA BacksFitProper ==
    ASSUME NEW Q, NEW p, DOMAIN p = DOMAIN NoPlan, p.l0 \in Nat, p.free \in SUBSET Q.nodes,
           p.fronts = <<>>, BacksFit(Q, p.l0, p.order, p.backs)
    PROVE  Proper(Q, p)
<1>1. <<>> \in Seq(Fitting(Q, FrontSpec(Q, p.l0, p.band.exits)))
  OBVIOUS
<1>2. \A t \in DOMAIN p.backs : p.backs[t] \in Seq(Fitting(Q, BackSpec(Q, t, p.l0)))
  BY DEF BacksFit
<1> QED BY <1>1, <1>2 DEF Proper

-----------------------------------------------------------------------------
(* The planner keeps it                                                    *)

(* One lemma for each action: it keeps what holds at its stage.            *)
LEMMA CutKeeps ==
    ASSUME Safe(P, stage, plan), Cut
    PROVE  Safe(P, stage', plan')
<1>1. Ready(P)
  BY DEF Safe, Cut
<1>2. plan' = PlanAt(ChooseL0(P))
  BY DEF Cut
<1>3. Opened(plan')
  BY <1>1, <1>2, PlanAtType
<1>4. /\ DOMAIN plan' = DOMAIN NoPlan /\ plan'.l0 \in Nat /\ plan'.free \in SUBSET P.nodes
      /\ plan'.fronts = <<>> /\ plan'.best = <<>> /\ plan'.attempt = 0 /\ plan'.turn = 1
      /\ plan'.band = NoBand
  BY <1>3 DEF Opened
<1>5. Proper(P, plan')
  <2>1. \A t \in DOMAIN plan'.backs : plan'.backs[t] = <<>>
    BY <1>3 DEF Opened
  <2>2. \A t \in DOMAIN plan'.backs : plan'.backs[t] \in Seq(Fitting(P, BackSpec(P, t, plan'.l0)))
    <3>1. \A S : <<>> \in Seq(S)
      OBVIOUS
    <3> QED BY <2>1, <3>1
  <2>3. plan'.fronts \in Seq(Fitting(P, FrontSpec(P, plan'.l0, plan'.band.exits)))
    BY <1>4
  <2> QED BY <1>4, <2>2, <2>3 DEF Proper
<1>6. CASE plan'.l0 = 0
  <2>1. stage' = "crashed"
    BY <1>6 DEF Cut
  <2> QED BY <1>5, <2>1 DEF Safe, Rounds
<1>7. CASE plan'.l0 # 0 /\ plan'.quota = <<>>
  <2>1. stage' = "refused"
    BY <1>7 DEF Cut
  <2> QED BY <1>5, <2>1 DEF Safe, Rounds
<1>8. CASE plan'.l0 # 0 /\ plan'.quota # <<>>
  <2>1. stage' = "build"
    BY <1>8 DEF Cut
  <2>2. plan'.order \in Seq(DOMAIN P.tasks) /\ plan'.backs = [t \in DOMAIN P.tasks |-> <<>>]
    BY <1>3, <1>8 DEF Opened
  <2>3. BacksFit(P, plan'.l0, plan'.order, plan'.backs)
    <3>1. \A S : <<>> \in Seq(S)
      OBVIOUS
    <3>2. PICK b : b = [t \in DOMAIN P.tasks |-> <<>>]
      OBVIOUS
    <3>3. DOMAIN b = DOMAIN P.tasks /\ b = [t \in DOMAIN P.tasks |-> b[t]] /\ \A t \in DOMAIN P.tasks : b[t] = <<>>
      BY <3>2
    <3>4. BacksFit(P, plan'.l0, plan'.order, b)
      BY <3>1, <3>3 DEF BacksFit
    <3> QED BY <2>2, <3>2, <3>4
  <2>4. plan'.band.exits \in SUBSET P.nodes
    BY <1>4 DEF NoBand
  <2>5. AtWork(P, "build", plan')
    BY <1>1, <1>4, <2>2, <2>3, <2>4 DEF AtWork, Rounds, MaxFeedback
  <2> QED BY <1>5, <2>1, <2>5 DEF Safe
<1> QED BY <1>6, <1>7, <1>8

(* A segment is built for the task whose turn it is, or the next has its.  *)
LEMMA BuildBackKeeps ==
    ASSUME Safe(P, stage, plan), BuildBack
    PROVE  /\ Safe(P, stage', plan') /\ plan'.attempt = plan.attempt /\ plan'.order = plan.order
           /\ \/ plan'.turn = plan.turn + 1
              \/ plan'.turn = plan.turn /\ Counted(plan'.backs) = Counted(plan.backs) + 1
<1>1. stage = "build" /\ stage' = "build" /\ plan.turn <= Len(plan.order)
  BY DEF BuildBack
<1>2. Proper(P, plan) /\ AtWork(P, "build", plan)
  BY <1>1 DEF Safe
<1>3. PICK m \in Nat : m = Len(plan.order) /\ DOMAIN plan.order = 1..m
  BY <1>2, LenProperties DEF AtWork
<1>4. plan.turn \in 1..m
  BY <1>1, <1>2, <1>3 DEF AtWork
<1>5. PICK t \in DOMAIN P.tasks : t = plan.order[plan.turn]
  BY <1>2, <1>3, <1>4, ElementOfSeq DEF AtWork
<1>6. t \in Range(plan.order)
  BY <1>3, <1>4, <1>5 DEF Range
<1>7. PICK spec : spec = BackSpec(P, t, plan.l0)
  OBVIOUS
<1>8. PICK o : o = BuildObjective(t)
  OBVIOUS
<1>9. PICK got : got = IF Len(plan.backs[t]) = plan.quota[t] THEN <<>>
                       ELSE DeployPath(P, spec, plan.free, o, P.cfg.beam)
  OBVIOUS
<1>10. got \in Seq(Fitting(P, spec))
  <2>1. Searchable(P) /\ P.cfg.beam \in Nat /\ plan.free \in SUBSET P.nodes /\ plan.l0 \in Int
    BY <1>2 DEF AtWork, Ready, Searchable, Proper
  <2>2. Interval(spec)
    BY <1>7, <2>1, BackInterval
  <2>3. DeployPath(P, spec, plan.free, o, P.cfg.beam) \in Seq(Placements(P, spec, plan.free))
    BY <2>1, <2>2, DeployPathType
  <2>4. DeployPath(P, spec, plan.free, o, P.cfg.beam) \in Seq(Fitting(P, spec))
    BY <2>1, <2>3, PlacementsFit, SeqOfMore
  <2>5. CASE Len(plan.backs[t]) = plan.quota[t]
    BY <1>9, <2>5
  <2>6. CASE Len(plan.backs[t]) # plan.quota[t]
    BY <1>9, <2>4, <2>6
  <2> QED BY <2>5, <2>6
<1>11. plan' = AddBack(t, spec, got)
  BY <1>5, <1>7, <1>8, <1>9 DEF BuildBack
<1>12. CASE got = <<>> \/ (got # <<>> /\ TooManyHops(spec, got[1]))
  <2>1. plan' = [plan EXCEPT !.turn = @ + 1]
    BY <1>11, <1>12 DEF AddBack
  <2>2. /\ DOMAIN plan' = DOMAIN plan /\ plan'.turn = plan.turn + 1
        /\ plan'.l0 = plan.l0 /\ plan'.order = plan.order /\ plan'.backs = plan.backs
        /\ plan'.free = plan.free /\ plan'.band = plan.band /\ plan'.best = plan.best
        /\ plan'.attempt = plan.attempt /\ plan'.fronts = plan.fronts
    BY <1>2, <2>1, NoPlanFields DEF Proper
  <2>3. plan'.turn \in Nat \ {0}
    BY <1>4, <2>2
  <2>4. Proper(P, plan')
    BY <1>2, <2>2 DEF Proper
  <2>5. AtWork(P, "build", plan')
    BY <1>2, <2>2, <2>3 DEF AtWork, Rounds
  <2> QED BY <1>1, <2>2, <2>4, <2>5 DEF Safe
<1>13. CASE ~(got = <<>> \/ (got # <<>> /\ TooManyHops(spec, got[1])))
  <2>1. plan' = [plan EXCEPT !.backs[t] = Append(@, got[1]), !.free = @ \ NodesOf(got[1])]
    BY <1>11, <1>13 DEF AddBack
  <2>2. PICK segs \in Seq(Fitting(P, spec)) : segs = plan.backs[t]
    BY <1>2, <1>7 DEF AtWork, BacksFit
  <2>3. PICK new : new = Append(segs, got[1])
    OBVIOUS
  <2>4. new \in Seq(Fitting(P, spec))
    <3>1. got[1] \in Fitting(P, spec)
      BY <1>10, <1>13, EmptySeq, ElementOfSeq, LenProperties
    <3> QED BY <2>3, <3>1, AppendToQueue
  <2>5. /\ DOMAIN plan' = DOMAIN plan /\ plan'.turn = plan.turn
        /\ plan'.l0 = plan.l0 /\ plan'.order = plan.order
        /\ plan'.backs = [plan.backs EXCEPT ![t] = new]
        /\ plan'.free = plan.free \ NodesOf(got[1]) /\ plan'.band = plan.band /\ plan'.best = plan.best
        /\ plan'.attempt = plan.attempt /\ plan'.fronts = plan.fronts
    BY <1>2, <2>1, <2>2, <2>3, NoPlanFields DEF Proper
  <2>6. /\ BacksFit(P, plan'.l0, plan'.order, plan'.backs)
        /\ Counted(plan'.backs) = Counted(plan.backs) + 1
    <3>1. Ready(P) /\ BacksFit(P, plan.l0, plan.order, plan.backs)
      BY <1>2 DEF AtWork
    <3>2. PICK b : b = [plan.backs EXCEPT ![t] = new]
      OBVIOUS
    <3>3. new \in Seq(Fitting(P, BackSpec(P, t, plan.l0)))
      BY <1>7, <2>4
    <3>4. BacksFit(P, plan.l0, plan.order, b) /\ MoreBy(plan.backs, b, Len(new), Len(plan.backs[t]))
      BY <1>6, <3>1, <3>2, <3>3, BacksChange
    <3>5. Len(new) - Len(plan.backs[t]) = 1
      <4>1. PICK k \in Nat : k = Len(segs)
        BY <2>2, LenProperties
      <4>2. got[1] \in Fitting(P, spec)
        BY <1>10, <1>13, EmptySeq, ElementOfSeq, LenProperties
      <4>3. Len(new) = k + 1
        BY <2>2, <2>3, <4>1, <4>2, AppendProperties
      <4> QED BY <2>2, <4>1, <4>3
    <3> QED BY <2>5, <3>2, <3>4, <3>5 DEF MoreBy
  <2>7. AtWork(P, "build", plan')
    BY <1>2, <2>5, <2>6 DEF AtWork, Rounds
  <2>8. Proper(P, plan')
    <3>1. DOMAIN plan' = DOMAIN NoPlan /\ plan'.l0 \in Nat /\ plan'.free \in SUBSET P.nodes
      BY <1>2, <2>5 DEF Proper
    <3>2. plan'.fronts = <<>>
      BY <2>7 DEF AtWork
    <3> QED BY <2>6, <3>1, <3>2, BacksFitProper
  <2> QED BY <1>1, <2>5, <2>6, <2>7, <2>8 DEF Safe
<1> QED BY <1>12, <1>13

(* Tightening leaves the segments of each task as many as they were, and   *)
(* no farther from the band.                                               *)
LEMMA TightenBacksKeeps ==
    ASSUME Safe(P, stage, plan), TightenBacks
    PROVE  /\ Safe(P, stage', plan')
           /\ plan'.backs = TightenTasks.backs /\ \A t \in DOMAIN P.tasks : Closer(plan, plan', t)
<1>1. stage = "build" /\ plan' = Freeze(TightenTasks)
      /\ stage' = IF plan'.nBack = 0 THEN "refused" ELSE "band"
  BY DEF TightenBacks
<1>2. Proper(P, plan) /\ AtWork(P, "build", plan)
  BY <1>1 DEF Safe
<1>3. PICK acc : acc = TightenTasks
  OBVIOUS
<1>4. /\ BacksFit(P, plan.l0, plan.order, acc.backs) /\ acc.free \in SUBSET P.nodes
      /\ \A t \in DOMAIN P.tasks : Closer(plan, acc, t)
  <2>1. /\ Ready(P) /\ plan.l0 \in Int /\ plan.free \in SUBSET P.nodes
        /\ BacksFit(P, plan.l0, plan.order, plan.backs)
    BY <1>2 DEF AtWork, Proper
  <2> QED BY <1>3, <2>1, TightenTasksType
<1>5. plan' = [plan EXCEPT !.backs = acc.backs, !.free = acc.free, !.nBack = Counted(acc.backs)]
  BY <1>1, <1>3 DEF Freeze
<1>6. /\ DOMAIN plan' = DOMAIN plan /\ plan'.turn = plan.turn
      /\ plan'.l0 = plan.l0 /\ plan'.order = plan.order
      /\ plan'.backs = acc.backs /\ plan'.free = acc.free /\ plan'.nBack = Counted(acc.backs)
      /\ plan'.band = plan.band /\ plan'.best = plan.best
      /\ plan'.attempt = plan.attempt /\ plan'.fronts = plan.fronts
  BY <1>2, <1>5, NoPlanFields DEF Proper
<1>7. BacksFit(P, plan'.l0, plan'.order, plan'.backs)
  BY <1>4, <1>6
<1>8. AtWork(P, "band", plan')
  BY <1>2, <1>6, <1>7 DEF AtWork, Rounds
<1>9. Proper(P, plan')
  <2>1. DOMAIN plan' = DOMAIN NoPlan /\ plan'.l0 \in Nat /\ plan'.free \in SUBSET P.nodes
    BY <1>2, <1>4, <1>6 DEF Proper
  <2>2. plan'.fronts = <<>>
    BY <1>8 DEF AtWork
  <2> QED BY <1>7, <2>1, <2>2, BacksFitProper
<1>10. stage' \in {"refused", "band"}
  BY <1>1
<1>11. Safe(P, stage', plan')
  BY <1>8, <1>9, <1>10 DEF Safe, Rounds
<1>12. \A t \in DOMAIN P.tasks : Closer(plan, plan', t)
  BY <1>4, <1>6 DEF Closer
<1> QED BY <1>3, <1>6, <1>11, <1>12
(* The band is the one of the segments there are, and the best round is    *)
(* this one or one that was as full.                                       *)
LEMMA PlaceBandKeeps ==
    ASSUME Safe(P, stage, plan), PlaceBand
    PROVE  Safe(P, stage', plan')
<1>1. stage = "band"
  BY DEF PlaceBand
<1>2. Proper(P, plan) /\ AtWork(P, "band", plan)
  BY <1>1 DEF Safe, Rounds
<1>3. CASE CanHoldFront(plan.l0, plan.free) = {}
  <2>1. stage' = "refused" /\ plan' = plan
    BY <1>3 DEF PlaceBand
  <2> QED BY <1>2, <2>1 DEF Safe, Rounds
<1>4. CASE CanHoldFront(plan.l0, plan.free) # {}
  <2>1. PICK band : band = PickBandwidth(Probes, Entries(plan.backs), WCap, WMax, BuildTarget(plan.nBack))
    OBVIOUS
  <2>2. plan.nBack \in Nat /\ plan.nBack = Counted(plan.backs)
    <3>1. Ready(P) /\ BacksFit(P, plan.l0, plan.order, plan.backs) /\ plan.nBack = Counted(plan.backs)
      BY <1>2 DEF AtWork, Rounds
    <3>2. Counted(plan.backs) \in Nat
      BY <3>1, CountedType
    <3> QED BY <3>1, <3>2
  <2>3. band.exits \in SUBSET P.nodes
    <3>1. /\ Ready(P) /\ plan.l0 \in Nat /\ BacksFit(P, plan.l0, plan.order, plan.backs)
          /\ plan.order \in Seq(DOMAIN P.tasks) /\ plan.free \in SUBSET P.nodes
      BY <1>2 DEF AtWork, Proper
    <3> QED BY <2>1, <2>2, <3>1, PlacedBandType
  <2>4. PICK key : key = StateKey(band, plan.backs, plan.nBack)
    OBVIOUS
  <2>5. PICK best : best = KeepIfBest(key, band)
    OBVIOUS
  <2>6. best # <<>> /\ (best = plan.best \/ best = <<[key |-> key, backs |-> plan.backs, band |-> band]>>)
    BY <2>5 DEF KeepIfBest
  <2>7. plan' = [plan EXCEPT !.band = band, !.best = best]
    BY <1>4, <2>1, <2>4, <2>5 DEF PlaceBand, WithBand
  <2>8. /\ DOMAIN plan' = DOMAIN plan /\ plan'.turn = plan.turn
        /\ plan'.l0 = plan.l0 /\ plan'.order = plan.order /\ plan'.backs = plan.backs
        /\ plan'.free = plan.free /\ plan'.nBack = plan.nBack /\ plan'.band = band
        /\ plan'.best = best /\ plan'.attempt = plan.attempt /\ plan'.fronts = plan.fronts
    BY <1>2, <2>7, NoPlanFields DEF Proper
  <2>9. BestFits(P, plan')
    <3>1. CASE best = plan.best
      <4>1. BestFits(P, plan)
        BY <1>2, <2>6, <3>1 DEF AtWork
      <4> QED BY <2>8, <3>1, <4>1 DEF BestFits
    <3>2. CASE best = <<[key |-> key, backs |-> plan.backs, band |-> band]>>
      <4>1. DOMAIN best = {1} /\ best[1].backs = plan.backs /\ best[1].band = band
        BY <3>2
      <4>2. BacksFit(P, plan.l0, plan.order, plan.backs)
        BY <1>2 DEF AtWork
      <4> QED BY <2>2, <2>3, <2>8, <4>1, <4>2 DEF BestFits
    <3> QED BY <2>6, <3>1, <3>2
  <2>10. ASSUME NEW s \in {"settle", "feedback"}, s = "feedback" => plan.attempt # MaxFeedback
         PROVE  AtWork(P, s, plan')
    <3>1. plan.attempt \in 0..MaxFeedback /\ (s = "feedback" => plan.attempt < MaxFeedback)
      <4>1. plan.attempt \in 0..MaxFeedback
        BY <1>2 DEF AtWork
      <4> QED BY <2>10, <4>1 DEF MaxFeedback
    <3>2. s # "build" /\ s # "trim"
      OBVIOUS
    <3>3. plan.fronts = <<>>
      BY <1>2 DEF AtWork
    <3> QED BY <1>2, <2>2, <2>3, <2>6, <2>8, <2>9, <3>1, <3>2, <3>3 DEF AtWork
  <2>11. Proper(P, plan')
    <3>1. plan.fronts = <<>> /\ BacksFit(P, plan.l0, plan.order, plan.backs)
      BY <1>2 DEF AtWork
    <3>2. DOMAIN plan' = DOMAIN NoPlan /\ plan'.l0 \in Nat /\ plan'.free \in SUBSET P.nodes
      BY <1>2, <2>8 DEF Proper
    <3> QED BY <2>8, <3>1, <3>2, BacksFitProper
  <2>12. stage' \in {"settle", "feedback"} /\ (stage' = "feedback" => plan.attempt # MaxFeedback)
    BY <1>4 DEF PlaceBand
  <2> QED BY <2>10, <2>11, <2>12 DEF Safe, Rounds
<1> QED BY <1>3, <1>4

(* A segment is replaced, and the round counted.                           *)
LEMMA RebuildKeeps ==
    ASSUME Safe(P, stage, plan), Rebuild
    PROVE  Safe(P, stage', plan') /\ plan'.attempt = plan.attempt + 1
<1>1. stage = "feedback" /\ stage' = "band" /\ RebuildEntry(Outlier)
  BY DEF Rebuild
<1>2. Proper(P, plan) /\ AtWork(P, "feedback", plan)
  BY <1>1 DEF Safe, Rounds
<1>3. PICK v : v = Outlier[1]
  OBVIOUS
<1>4. PICK id : id = Holder(v)
  OBVIOUS
<1>5. PICK got : got = Rebuilt(v)
  OBVIOUS
<1>6. Outlier # <<>> /\ ReplaceSegment(v, id, got)
  BY <1>1, <1>3, <1>4, <1>5 DEF RebuildEntry
<1>7. PICK b : b = [plan.backs EXCEPT ![id[2]][id[3]] = got[1]]
  OBVIOUS
<1>8. got # <<>> /\ plan' = [[plan EXCEPT !.backs = b, !.free = Freed(b), !.attempt = @ + 1]
                                EXCEPT !.tried = @ \cup {v}]
  BY <1>6, <1>7 DEF ReplaceSegment, Anew
<1>9. /\ DOMAIN plan' = DOMAIN plan /\ plan'.turn = plan.turn
      /\ plan'.l0 = plan.l0 /\ plan'.order = plan.order /\ plan'.backs = b
      /\ plan'.free = Freed(b) /\ plan'.nBack = plan.nBack /\ plan'.band = plan.band
      /\ plan'.best = plan.best /\ plan'.attempt = plan.attempt + 1 /\ plan'.fronts = plan.fronts
  BY <1>2, <1>8, NoPlanFields DEF Proper
<1>10. BacksFit(P, plan.l0, plan.order, b) /\ Counted(b) = Counted(plan.backs)
  <2>1. /\ Ready(P) /\ plan.l0 \in Nat /\ plan.free \in SUBSET P.nodes
        /\ BacksFit(P, plan.l0, plan.order, plan.backs) /\ plan.order \in Seq(DOMAIN P.tasks)
    BY <1>2 DEF AtWork, Proper
  <2>2. Rebuilt(Outlier[1]) # <<>>
    BY <1>3, <1>5, <1>8
  <2>3. LET i == Holder(Outlier[1])
            c == [plan.backs EXCEPT ![i[2]][i[3]] = Rebuilt(Outlier[1])[1]]
        IN  BacksFit(P, plan.l0, plan.order, c) /\ Counted(c) = Counted(plan.backs)
    BY <1>6, <2>1, <2>2, ReplacedFits
  <2> QED BY <1>3, <1>4, <1>5, <1>7, <2>3
<1>11. plan'.attempt \in 0..MaxFeedback
  <2>1. plan.attempt \in 0..MaxFeedback /\ plan.attempt < MaxFeedback
    BY <1>2 DEF AtWork
  <2> QED BY <1>9, <2>1 DEF MaxFeedback
<1>12. AtWork(P, "band", plan')
  <2>1. plan.best # <<>> => BestFits(P, plan')
    BY <1>2, <1>9 DEF AtWork, BestFits
  <2>2. plan.fronts = <<>>
    BY <1>2 DEF AtWork
  <2> QED BY <1>2, <1>9, <1>10, <1>11, <2>1, <2>2 DEF AtWork, Rounds
<1>13. Proper(P, plan')
  <2>1. plan.fronts = <<>>
    BY <1>2 DEF AtWork
  <2>2. DOMAIN plan' = DOMAIN NoPlan /\ plan'.l0 \in Nat /\ plan'.free \in SUBSET P.nodes
    BY <1>2, <1>9, FreedType DEF Proper
  <2>3. BacksFit(P, plan'.l0, plan'.order, plan'.backs)
    BY <1>9, <1>10
  <2> QED BY <1>9, <2>1, <2>2, <2>3, BacksFitProper
<1> QED BY <1>1, <1>9, <1>12, <1>13 DEF Safe, Rounds

(* A segment is given up, the number to be served falls with it, and the   *)
(* best round of one segment more is forgotten.                            *)
LEMMA DropSegmentKeeps ==
    ASSUME Safe(P, stage, plan), DropSegment
    PROVE  Safe(P, stage', plan') /\ plan'.attempt = plan.attempt + 1
<1>1. stage = "feedback" /\ stage' = "band" /\ Donors # <<>> /\ plan' = GiveUp(Donors[1], Outlier)
  BY DEF DropSegment
<1>2. Proper(P, plan) /\ AtWork(P, "feedback", plan)
  BY <1>1 DEF Safe, Rounds
<1>3. PICK t : t = Donors[1]
  OBVIOUS
<1>4. PICK b : b = [plan.backs EXCEPT ![t] = RemoveAt(plan.backs[t], Dropped(t))]
  OBVIOUS
<1>5. t \in DOMAIN plan.backs
  <2>1. plan.order \in Seq(DOMAIN P.tasks) /\ DOMAIN plan.backs = DOMAIN P.tasks
    BY <1>2 DEF AtWork, BacksFit
  <2> QED BY <1>1, <1>3, <2>1, DonorsType
<1>6. b = [plan.backs EXCEPT ![t] = RemoveAt(@, Dropped(t))]
  BY <1>4, <1>5
<1>7. PICK seen : seen = Range(Outlier)
  OBVIOUS
<1>8. plan' = [[plan EXCEPT !.backs = b, !.free = Freed(b), !.attempt = @ + 1]
                 EXCEPT !.nBack = @ - 1, !.best = <<>>, !.tried = @ \cup seen]
  BY <1>1, <1>3, <1>6, <1>7 DEF GiveUp, Anew
<1>9. /\ DOMAIN plan' = DOMAIN plan /\ plan'.turn = plan.turn
      /\ plan'.l0 = plan.l0 /\ plan'.order = plan.order /\ plan'.backs = b
      /\ plan'.free = Freed(b) /\ plan'.nBack = plan.nBack - 1 /\ plan'.band = plan.band
      /\ plan'.best = <<>> /\ plan'.attempt = plan.attempt + 1 /\ plan'.fronts = plan.fronts
  BY <1>2, <1>8, NoPlanFields DEF Proper
<1>10. BacksFit(P, plan.l0, plan.order, b) /\ Counted(b) = Counted(plan.backs) - 1
  <2>1. /\ Ready(P) /\ plan.l0 \in Nat
        /\ BacksFit(P, plan.l0, plan.order, plan.backs) /\ plan.order \in Seq(DOMAIN P.tasks)
    BY <1>2 DEF AtWork, Proper
  <2>2. LET d == Donors[1]
            c == [plan.backs EXCEPT ![d] = RemoveAt(plan.backs[d], Dropped(d))]
        IN  BacksFit(P, plan.l0, plan.order, c) /\ Counted(c) = Counted(plan.backs) - 1
    BY <1>1, <2>1, GivenUpFits
  <2> QED BY <1>3, <1>4, <2>2
<1>11. plan'.attempt \in 0..MaxFeedback
  <2>1. plan.attempt \in 0..MaxFeedback /\ plan.attempt < MaxFeedback
    BY <1>2 DEF AtWork
  <2> QED BY <1>9, <2>1 DEF MaxFeedback
<1>12. AtWork(P, "band", plan')
  <2>1. plan.fronts = <<>> /\ plan.nBack = Counted(plan.backs)
    BY <1>2 DEF AtWork, Rounds
  <2> QED BY <1>2, <1>9, <1>10, <1>11, <2>1 DEF AtWork, Rounds
<1>13. Proper(P, plan')
  <2>1. plan.fronts = <<>>
    BY <1>2 DEF AtWork
  <2>2. DOMAIN plan' = DOMAIN NoPlan /\ plan'.l0 \in Nat /\ plan'.free \in SUBSET P.nodes
    BY <1>2, <1>9, FreedType DEF Proper
  <2>3. BacksFit(P, plan'.l0, plan'.order, plan'.backs)
    BY <1>9, <1>10
  <2> QED BY <1>9, <2>1, <2>2, <2>3, BacksFitProper
<1> QED BY <1>1, <1>9, <1>12, <1>13 DEF Safe, Rounds

(* Nothing can be given up: the loop ends with what there is.              *)
LEMMA NothingToDropKeeps ==
    ASSUME Safe(P, stage, plan), NothingToDrop
    PROVE  Safe(P, stage', plan')
<1>1. stage = "feedback" /\ stage' = "settle" /\ plan' = [plan EXCEPT !.tried = @ \cup Range(Outlier)]
  BY DEF NothingToDrop
<1>2. Proper(P, plan) /\ AtWork(P, "feedback", plan)
  BY <1>1 DEF Safe, Rounds
<1>3. /\ DOMAIN plan' = DOMAIN plan /\ plan'.turn = plan.turn
      /\ plan'.l0 = plan.l0 /\ plan'.order = plan.order /\ plan'.backs = plan.backs
      /\ plan'.free = plan.free /\ plan'.nBack = plan.nBack /\ plan'.band = plan.band
      /\ plan'.best = plan.best /\ plan'.attempt = plan.attempt /\ plan'.fronts = plan.fronts
  BY <1>1, <1>2, NoPlanFields DEF Proper
<1>4. AtWork(P, "settle", plan')
  <2>1. plan.best # <<>> => BestFits(P, plan')
    BY <1>2, <1>3 DEF AtWork, BestFits
  <2> QED BY <1>2, <1>3, <2>1 DEF AtWork, Rounds
<1>5. Proper(P, plan')
  BY <1>2, <1>3 DEF Proper
<1> QED BY <1>1, <1>4, <1>5 DEF Safe, Rounds
(* Back to the best round, whose segments and band belong together.        *)
LEMMA SettleKeeps ==
    ASSUME Safe(P, stage, plan), Settle
    PROVE  Safe(P, stage', plan')
<1>1. stage = "settle" /\ stage' \in {"refused", "fronts"}
  BY DEF Settle
<1>2. Proper(P, plan) /\ AtWork(P, "settle", plan)
  BY <1>1 DEF Safe, Rounds
<1>3. BestFits(P, plan) /\ plan.fronts = <<>>
  BY <1>2 DEF AtWork
<1>4. PICK best : best = plan.best[1]
  OBVIOUS
<1>5. CASE plan' = plan
  <2>1. AtWork(P, "fronts", plan')
    BY <1>2, <1>5 DEF AtWork, Rounds
  <2> QED BY <1>1, <1>2, <1>5, <2>1 DEF Safe, Rounds
<1>6. CASE plan' = [plan EXCEPT !.backs = best.backs, !.band = best.band, !.free = Freed(best.backs)]
  <2>1. /\ DOMAIN plan' = DOMAIN plan /\ plan'.turn = plan.turn
        /\ plan'.l0 = plan.l0 /\ plan'.order = plan.order /\ plan'.backs = best.backs
        /\ plan'.free = Freed(best.backs) /\ plan'.nBack = plan.nBack /\ plan'.band = best.band
        /\ plan'.best = plan.best /\ plan'.attempt = plan.attempt /\ plan'.fronts = plan.fronts
    BY <1>2, <1>6, NoPlanFields DEF Proper
  <2>2. /\ BacksFit(P, plan.l0, plan.order, best.backs) /\ best.band.exits \in SUBSET P.nodes
        /\ Counted(best.backs) = plan.nBack
    BY <1>3, <1>4 DEF BestFits
  <2>3. BestFits(P, plan')
    BY <1>3, <2>1 DEF BestFits
  <2>4. AtWork(P, "fronts", plan')
    BY <1>2, <2>1, <2>2, <2>3 DEF AtWork, Rounds
  <2>5. Proper(P, plan')
    <3>1. DOMAIN plan' = DOMAIN NoPlan /\ plan'.l0 \in Nat /\ plan'.free \in SUBSET P.nodes
      BY <1>2, <2>1, FreedType DEF Proper
    <3>2. BacksFit(P, plan'.l0, plan'.order, plan'.backs)
      BY <2>1, <2>2
    <3> QED BY <1>3, <2>1, <3>1, <3>2, BacksFitProper
  <2> QED BY <1>1, <2>4, <2>5 DEF Safe, Rounds
<1>7. \/ plan' = plan
      \/ plan' = [plan EXCEPT !.backs = best.backs, !.band = best.band, !.free = Freed(best.backs)]
  BY <1>4 DEF Settle
<1> QED BY <1>5, <1>6, <1>7

(* The fronts end in exits of the band, tightened or not.                  *)
LEMMA BuildFrontsKeeps ==
    ASSUME Safe(P, stage, plan), BuildFronts
    PROVE  Safe(P, stage', plan')
<1>1. stage = "fronts" /\ stage' = "trim"
  BY DEF BuildFronts
<1>2. Proper(P, plan) /\ AtWork(P, "fronts", plan)
  BY <1>1 DEF Safe, Rounds
<1>3. Ready(P) /\ BacksFit(P, plan.l0, plan.order, plan.backs) /\ plan.nBack = Counted(plan.backs)
  BY <1>2 DEF AtWork, Rounds
<1>4. PICK pop \in Nat : pop = Population(plan.band)
  <2>1. plan.band.exits \in SUBSET P.nodes /\ Searchable(P)
    BY <1>2, <1>3 DEF AtWork, Ready
  <2> QED BY <2>1, FewNodes DEF Population
<1>5. PICK goal \in Nat : goal = BuildTarget(plan.nBack)
  <2>1. plan.nBack \in Nat
    BY <1>3, CountedType
  <2> QED BY <1>3, <2>1, TargetType
<1>6. PICK n \in Nat : n = MinOf({pop, goal}, 0)
  <2>1. {pop, goal} \in SUBSET Nat /\ {pop, goal} # {}
    OBVIOUS
  <2> QED BY <2>1, MinOfNat
<1>7. PICK spec : spec = FrontSpec(P, plan.l0, plan.band.exits)
  OBVIOUS
<1>8. Interval(spec)
  BY <1>2, <1>7, FrontInterval DEF Proper
<1>9. PICK at : at = Fronts(spec, n)
  OBVIOUS
<1>10. at \in [segs : Seq(Fitting(P, spec)), free : SUBSET P.nodes]
  <2>1. plan.free \in SUBSET P.nodes
    BY <1>2 DEF Proper
  <2>2. at.segs \in Seq(Fitting(P, spec)) /\ at.free \in SUBSET P.nodes
    BY <1>3, <1>8, <1>9, <2>1, FrontsType
  <2>3. at = [segs |-> at.segs, free |-> at.free]
    BY <1>9 DEF Fronts
  <2> QED BY <2>2, <2>3
<1>11. PICK x : x = TightenFronts(spec, at)
  OBVIOUS
<1>12. x.segs \in Seq(Fitting(P, spec)) /\ x.free \in SUBSET P.nodes
  BY <1>3, <1>8, <1>10, <1>11, TightenFrontsType
<1>13. plan' = [plan EXCEPT !.fronts = x.segs, !.pool = x.free]
  BY <1>4, <1>5, <1>6, <1>7, <1>9, <1>11 DEF BuildFronts, WithFronts
<1>14. /\ DOMAIN plan' = DOMAIN plan /\ plan'.turn = plan.turn
       /\ plan'.l0 = plan.l0 /\ plan'.order = plan.order /\ plan'.backs = plan.backs
       /\ plan'.free = plan.free /\ plan'.nBack = plan.nBack /\ plan'.band = plan.band
       /\ plan'.best = plan.best /\ plan'.attempt = plan.attempt /\ plan'.fronts = x.segs
  BY <1>2, <1>13, NoPlanFields DEF Proper
<1>15. Proper(P, plan')
  BY <1>2, <1>7, <1>12, <1>14 DEF Proper
<1>16. AtWork(P, "trim", plan')
  <2>1. plan.best # <<>> => BestFits(P, plan')
    BY <1>2, <1>14 DEF AtWork, BestFits
  <2> QED BY <1>2, <1>14, <2>1 DEF AtWork, Rounds
<1> QED BY <1>1, <1>15, <1>16 DEF Safe, Rounds

(* Those that stay are some of them.                                       *)
LEMMA TrimFrontsKeeps ==
    ASSUME Safe(P, stage, plan), TrimFronts
    PROVE  Safe(P, stage', plan')
<1>1. stage = "trim"
  BY DEF TrimFronts
<1>2. Proper(P, plan) /\ AtWork(P, "trim", plan)
  BY <1>1 DEF Safe, Rounds
<1>3. PICK idx : idx = TrimByLoop(LoopProfile(P, plan.fronts, AllBacks))
  OBVIOUS
<1>4. PICK F : F = Fitting(P, FrontSpec(P, plan.l0, plan.band.exits))
  OBVIOUS
<1>5. plan.fronts \in Seq(F)
  BY <1>2, <1>4 DEF Proper
<1>6. idx \in Seq(DOMAIN plan.fronts)
  BY <1>3, <1>5, TrimType
<1>7. PICK k : k = Kept(plan.fronts, idx)
  OBVIOUS
<1>8. /\ k.kept \in Seq(F) /\ plan.nBack \in Nat /\ plan.nBack = Counted(plan.backs)
      /\ k.live \in Nat /\ (k.live >= plan.nBack => Len(k.kept) >= plan.nBack)
  <2>1. Ready(P) /\ BacksFit(P, plan.l0, plan.order, plan.backs) /\ plan.nBack = Counted(plan.backs)
    BY <1>2 DEF AtWork, Rounds
  <2>2. plan.nBack \in Nat
    BY <2>1, CountedType
  <2> QED BY <1>5, <1>6, <1>7, <2>1, <2>2, KeptType
<1>9. Trimmed(k)
  BY <1>3, <1>7 DEF TrimFronts
<1>10. CASE k.live < plan.nBack
  <2>1. stage' = "refused" /\ plan' = plan
    BY <1>9, <1>10 DEF Trimmed
  <2> QED BY <1>2, <2>1 DEF Safe, Rounds
<1>11. CASE ~(k.live < plan.nBack)
  <2>1. stage' = "check" /\ plan' = [plan EXCEPT !.fronts = k.kept]
    BY <1>9, <1>11 DEF Trimmed
  <2>2. /\ DOMAIN plan' = DOMAIN plan /\ plan'.l0 = plan.l0 /\ plan'.backs = plan.backs
        /\ plan'.free = plan.free /\ plan'.band = plan.band /\ plan'.fronts = k.kept
    BY <1>2, <2>1, NoPlanFields DEF Proper
  <2>3. Proper(P, plan')
    BY <1>2, <1>4, <1>8, <2>2 DEF Proper
  <2>4. Len(k.kept) >= Counted(plan.backs)
    BY <1>8, <1>11
  <2> QED BY <2>1, <2>2, <2>3, <2>4 DEF Safe, Rounds
<1> QED BY <1>10, <1>11

-----------------------------------------------------------------------------
(* The controller keeps it                                                 *)

(* The machines that answered make a problem that can be planned.          *)
LEMMA CollectKeeps ==
    ASSUME site \in DOMAIN Sites, Safe(P, stage, plan), Collect
    PROVE  Safe(P', stage', plan')
<1>1. plan = NoPlan /\ plan' = NoPlan
  BY DEF Safe, Collect
<1>2. Proper(P', plan')
  BY <1>1, NoPlanProper
<1>3. PICK gone \in SUBSET Site.mayMiss :
          IF Site.problem.nodes \ gone = {} THEN stage' = "stopped" /\ UNCHANGED P
          ELSE /\ P' = Collected(WithExperts(Site.problem, Site.profiles, Site.nExperts,
                                             Site.coverage, Site.topK, Site.full),
                                 Site.speed, Site.problem.nodes \ gone)
               /\ stage' = IF run = 1 THEN "cut" ELSE "load"
  BY DEF Collect
<1>4. PICK up : up = Site.problem.nodes \ gone
  OBVIOUS
<1>5. CASE up = {}
  <2>1. stage' = "stopped"
    BY <1>3, <1>4, <1>5
  <2> QED BY <1>2, <2>1 DEF Safe, Rounds
<1>6. CASE up # {}
  <2>1. PICK Q : Q = Site.problem
    OBVIOUS
  <2>2. WellPosed(Q, Site.speed)
    BY <2>1, SitesAssumption DEF Site
  <2>3. PICK R : R = WithExperts(Q, Site.profiles, Site.nExperts, Site.coverage, Site.topK, Site.full)
    OBVIOUS
  <2>4. /\ DOMAIN R = Fields /\ R.nodes = Q.nodes /\ R.p50 = Q.p50
        /\ R.L = Q.L /\ R.cfg = Q.cfg /\ DOMAIN R.tasks = DOMAIN Q.tasks
        /\ R.tasks = [t \in DOMAIN Q.tasks |-> R.tasks[t]]
    BY <2>2, <2>3, WithExpertsKeeps
  <2>5. P' = Collected(R, Site.speed, up)
    BY <1>3, <1>4, <1>6, <2>1, <2>3
  <2>6. up \in SUBSET Q.nodes
    BY <1>4, <2>1
  <2>7. Ready(Collected(R, Site.speed, up))
    BY <1>6, <2>2, <2>4, <2>6, CollectedReady
  <2>8. stage' \in {"cut", "load"}
    BY <1>3, <1>4, <1>6
  <2> QED BY <1>1, <1>2, <2>5, <2>7, <2>8 DEF Safe, Rounds
<1> QED BY <1>5, <1>6

(* The actions that leave the plan and the problem alone.                  *)
LEMMA OthersKeep ==
    ASSUME Safe(P, stage, plan),
           Check \/ LoadPlan \/ Wire \/ Configure \/ ConfigureFails \/ Serve
    PROVE  Safe(P', stage', plan')
<1>1. P' = P /\ plan' = plan
  BY DEF Check, LoadPlan, Wire, Configure, ConfigureFails, Serve
<1>2. stage' \in Ended \cup {"wire", "configure"}
  BY DEF Check, LoadPlan, Wire, Configure, ConfigureFails, Serve, Ended
<1>3. Proper(P, plan)
  BY DEF Safe
<1> QED BY <1>1, <1>2, <1>3 DEF Safe, Rounds, Ended

(* A layout by hand has no plan.                                           *)
LEMMA HandLayoutKeeps ==
    ASSUME Safe(P, stage, plan), HandLayout
    PROVE  Safe(P', stage', plan')
<1>1. plan = NoPlan /\ plan' = NoPlan
  BY DEF Safe, HandLayout
<1>2. stage' \in {"refused", "crashed", "configure"}
  BY DEF HandLayout, UseLayout
<1>3. Proper(P', plan')
  BY <1>1, NoPlanProper
<1> QED BY <1>2, <1>3 DEF Safe, Rounds

(* A new start begins without a plan.                                      *)
LEMMA RestartKeeps ==
    ASSUME Restart
    PROVE  Safe(P', stage', plan')
<1>1. plan' = NoPlan /\ stage' = "start"
  BY DEF Restart
<1>2. Proper(P', plan')
  BY <1>1, NoPlanProper
<1> QED BY <1>1, <1>2 DEF Safe, Rounds

(* The invariant holds at first, and every step keeps it.                  *)
LEMMA PlanInvInit == Init => PlanInv
<1> SUFFICES ASSUME Init PROVE PlanInv
  OBVIOUS
<1>1. site \in DOMAIN Sites /\ plan = NoPlan /\ stage = "start"
  BY DEF Init
<1>2. Proper(P, plan)
  BY <1>1, NoPlanProper
<1> QED BY <1>1, <1>2 DEF PlanInv, Safe, Rounds

(* Every step keeps the invariant.                                         *)
LEMMA PlanInvStep == PlanInv /\ [Next]_vars => PlanInv'
<1> SUFFICES ASSUME PlanInv, [Next]_vars PROVE PlanInv'
  OBVIOUS
<1>1. site \in DOMAIN Sites /\ Safe(P, stage, plan)
  BY DEF PlanInv
<1>2. site' = site
  BY DEF Next, vars, Planner, Controller, Finished, planned, Cut, BuildBack, TightenBacks, PlaceBand,
     Rebuild, DropSegment, NothingToDrop, Settle, BuildFronts, TrimFronts, Collect, Check, LoadPlan,
     HandLayout, Wire, Configure, ConfigureFails, Serve, Restart
<1>3. CASE Planner
  <2>1. P' = P
    BY <1>3 DEF Planner, planned, Cut, BuildBack, TightenBacks, PlaceBand, Rebuild, DropSegment,
       NothingToDrop, Settle, BuildFronts, TrimFronts
  <2>2. Safe(P, stage', plan')
    BY <1>1, <1>3, CutKeeps, BuildBackKeeps, TightenBacksKeeps, PlaceBandKeeps, RebuildKeeps,
       DropSegmentKeeps, NothingToDropKeeps, SettleKeeps, BuildFrontsKeeps, TrimFrontsKeeps DEF Planner
  <2> QED BY <1>1, <1>2, <2>1, <2>2 DEF PlanInv
<1>4. CASE Controller
  <2>1. Safe(P', stage', plan')
    BY <1>1, <1>4, CollectKeeps, OthersKeep, HandLayoutKeeps, RestartKeeps DEF Controller
  <2> QED BY <1>1, <1>2, <2>1 DEF PlanInv
<1>5. CASE UNCHANGED vars
  BY <1>1, <1>2, <1>5 DEF vars, PlanInv
<1> QED BY <1>3, <1>4, <1>5 DEF Next, Finished
-----------------------------------------------------------------------------
(* What follows                                                            *)

(* So it always holds.                                                     *)
LEMMA PlanInvAlways == Spec => []PlanInv
<1>1. Init => PlanInv
  BY PlanInvInit
<1>2. PlanInv /\ [Next]_vars => PlanInv'
  BY PlanInvStep
<1> QED BY <1>1, <1>2, PTL DEF Spec

(* A segment that was placed fits.                                         *)
LEMMA PlacedFits ==
    ASSUME NEW spec, NEW segs \in Seq(Fitting(P, spec)), NEW seg \in Range(segs)
    PROVE  Fits(seg, spec)
<1>1. PICK i \in DOMAIN segs : seg = segs[i]
  BY DEF Range
<1>2. seg \in Fitting(P, spec)
  BY <1>1, ElementOfSeq, LenProperties
<1>3. seg \in Partials(P, spec, P.nodes) /\ Complete(spec, seg)
  BY <1>2 DEF Fitting, Placements
<1>4. Sound(P, spec, P.nodes, seg.nodes, seg.splits)
  BY <1>3, PartialFacts
<1>5. Last(seg.splits)[2] = spec.hi
  BY <1>3 DEF Complete
<1> QED BY <1>4, <1>5 DEF Sound, Fits, TailOf, HopsOf

(* Whatever the searches, rebuilds and tightening did, each segment of the *)
(* plan is a chain that fits its machines.                                 *)
THEOREM SegmentsAlwaysFit == Spec => []SegmentsFit
<1>1. PlanInv => SegmentsFit
  <2> SUFFICES ASSUME PlanInv PROVE SegmentsFit
    OBVIOUS
  <2>1. Proper(P, plan)
    BY DEF PlanInv, Safe
  <2>2. ASSUME NEW t \in DOMAIN plan.backs, NEW seg \in Range(plan.backs[t])
        PROVE  Fits(seg, BackSpec(P, t, plan.l0))
    <3>1. plan.backs[t] \in Seq(Fitting(P, BackSpec(P, t, plan.l0)))
      BY <2>1 DEF Proper
    <3> QED BY <3>1, PlacedFits
  <2>3. ASSUME NEW seg \in Range(plan.fronts)
        PROVE  Fits(seg, FrontSpec(P, plan.l0, plan.band.exits))
    <3>1. plan.fronts \in Seq(Fitting(P, FrontSpec(P, plan.l0, plan.band.exits)))
      BY <2>1 DEF Proper
    <3> QED BY <3>1, PlacedFits
  <2> QED BY <2>2, <2>3 DEF SegmentsFit
<1> QED BY <1>1, PlanInvAlways, PTL

(* The number to be served is the number of back segments there are, in    *)
(* every round of the feedback and in the round it may go back to.         *)
THEOREM BooksAlwaysBalance == Spec => []BooksBalance
<1>1. PlanInv => BooksBalance
  <2> SUFFICES ASSUME PlanInv, stage \in {"band", "feedback", "settle", "fronts"}
               PROVE  /\ plan.nBack = Counted(plan.backs)
                      /\ \A i \in DOMAIN plan.best : Counted(plan.best[i].backs) = plan.nBack
    BY DEF BooksBalance
  <2>1. AtWork(P, stage, plan) /\ stage \in Rounds
    BY DEF PlanInv, Safe, Rounds
  <2>2. plan.nBack = Counted(plan.backs)
    BY <2>1 DEF AtWork
  <2>3. CASE plan.best = <<>>
    <3>1. DOMAIN plan.best = {}
      BY <2>3
    <3> QED BY <2>2, <3>1
  <2>4. CASE plan.best # <<>>
    <3>1. DOMAIN plan.best = {1} /\ Counted(plan.best[1].backs) = plan.nBack
      BY <2>1, <2>4 DEF AtWork, BestFits
    <3> QED BY <2>2, <3>1
  <2> QED BY <2>3, <2>4
<1> QED BY <1>1, PlanInvAlways, PTL

(* There is a front for each back segment in every plan that is made.      *)
THEOREM FrontsAlwaysEnough == Spec => []EnoughFronts
<1>1. PlanInv => EnoughFronts
  BY DEF PlanInv, Safe, EnoughFronts
<1> QED BY <1>1, PlanInvAlways, PTL

(* Tightening keeps the number of segments of each task and leaves them no *)
(* farther from the band about their median.                               *)
THEOREM TighteningKeeps == Spec => TightenKeeps
<1>1. ASSUME PlanInv, [Next]_vars
      PROVE  [stage = "build" /\ plan.turn > Len(plan.order) =>
                \A t \in DOMAIN plan.backs :
                    LET band == BandFromMedian(P, plan.backs[t])
                    IN  /\ Len(plan'.backs[t]) = Len(plan.backs[t])
                        /\ ~Lex(LexKey(plan.backs[t], band), LexKey(plan'.backs[t], band))]_vars
  <2>1. CASE UNCHANGED vars
    BY <2>1
  <2>2. CASE ~UNCHANGED vars
    <3> SUFFICES ASSUME stage = "build", plan.turn > Len(plan.order), NEW t \in DOMAIN plan.backs
                 PROVE  LET band == BandFromMedian(P, plan.backs[t])
                        IN  /\ Len(plan'.backs[t]) = Len(plan.backs[t])
                            /\ ~Lex(LexKey(plan.backs[t], band), LexKey(plan'.backs[t], band))
      OBVIOUS
    <3>1. Safe(P, stage, plan) /\ AtWork(P, "build", plan)
      BY <1>1 DEF PlanInv, Safe
    <3>2. Len(plan.order) \in Nat /\ plan.turn \in Nat
      BY <3>1, LenProperties DEF AtWork
    <3>3. TightenBacks
      <4>1. Planner \/ Controller \/ Finished
        BY <1>1, <2>2 DEF Next
      <4>2. ~Finished /\ ~Controller
        BY DEF Finished, Controller, Ended, Collect, Check, LoadPlan, HandLayout, Wire, Configure,
           ConfigureFails, Serve, Restart
      <4>3. ~BuildBack
        BY <3>2 DEF BuildBack
      <4>4. Planner
        BY <4>1, <4>2
      <4> QED BY <4>3, <4>4 DEF Planner, Cut, PlaceBand, Rebuild, DropSegment, NothingToDrop,
              Settle, BuildFronts, TrimFronts
    <3>4. t \in DOMAIN P.tasks
      BY <3>1 DEF AtWork, BacksFit
    <3>5. Closer(plan, plan', t)
      BY <3>1, <3>3, <3>4, TightenBacksKeeps
    <3> QED BY <3>5 DEF Closer, NoWorse
  <2> QED BY <2>1, <2>2
<1>2. PlanInv /\ [Next]_vars
        => [stage = "build" /\ plan.turn > Len(plan.order) =>
              \A t \in DOMAIN plan.backs :
                  LET band == BandFromMedian(P, plan.backs[t])
                  IN  /\ Len(plan'.backs[t]) = Len(plan.backs[t])
                      /\ ~Lex(LexKey(plan.backs[t], band), LexKey(plan'.backs[t], band))]_vars
  BY <1>1
<1> QED BY <1>2, PlanInvAlways, PTL DEF Spec, TightenKeeps
-----------------------------------------------------------------------------
(* Every start ends                                                        *)

(* The rounds of the feedback are counted, and only they are.              *)
LEMMA AttemptStays ==
    ASSUME Proper(P, plan),
           TightenBacks \/ PlaceBand \/ NothingToDrop \/ Settle \/ BuildFronts \/ TrimFronts
    PROVE  plan'.attempt = plan.attempt
<1>1. "attempt" \in DOMAIN plan
  BY NoPlanFields DEF Proper
<1>2. CASE TightenBacks
  <2>1. plan' = Freeze(TightenTasks)
    BY <1>2 DEF TightenBacks
  <2> QED BY <1>1, <2>1 DEF Freeze
<1>3. CASE PlaceBand
  <2>1. plan' = plan \/ \E b : plan' = WithBand(b)
    BY <1>3 DEF PlaceBand
  <2> QED BY <1>1, <2>1 DEF WithBand
<1>4. CASE NothingToDrop
  BY <1>1, <1>4 DEF NothingToDrop
<1>5. CASE Settle
  <2>1. plan' = plan \/ \E b, c, f : plan' = [plan EXCEPT !.backs = b, !.band = c, !.free = f]
    BY <1>5 DEF Settle
  <2> QED BY <1>1, <2>1
<1>6. CASE BuildFronts
  <2>1. \E at : plan' = WithFronts(at)
    BY <1>6 DEF BuildFronts
  <2> QED BY <1>1, <2>1 DEF WithFronts
<1>7. CASE TrimFronts
  <2>1. plan' = plan \/ \E k : plan' = [plan EXCEPT !.fronts = k]
    BY <1>7 DEF TrimFronts, Trimmed
  <2> QED BY <1>1, <2>1
<1> QED BY <1>2, <1>3, <1>4, <1>5, <1>6, <1>7

Numbers == run \in Nat /\ todo \in Nat /\ plan.attempt \in 0..MaxFeedback

(* The counters are numbers at first.                                      *)
LEMMA NumbersInit == Init => Numbers
BY NoPlanFields DEF Init, Numbers, MaxFeedback

(* The starts are counted up to MaxRuns, the machines one after another,   *)
(* and the rounds of the feedback never beyond their limit.                *)
LEMMA NumbersStep == PlanInv /\ Numbers /\ [Next]_vars => Numbers'
<1> SUFFICES ASSUME PlanInv, Numbers, [Next]_vars PROVE Numbers'
  OBVIOUS
<1>1. Safe(P, stage, plan) /\ Proper(P, plan)
  BY DEF PlanInv, Safe
<1>2. plan.attempt \in 0..MaxFeedback
  BY DEF Numbers
<1>3. CASE Planner
  <2>1. run' = run /\ todo' = todo
    BY <1>3 DEF Planner, planned, Cut, BuildBack, TightenBacks, PlaceBand, Rebuild, DropSegment,
       NothingToDrop, Settle, BuildFronts, TrimFronts
  <2>2. CASE Cut
    <3>1. Ready(P) /\ plan' = PlanAt(ChooseL0(P))
      BY <1>1, <2>2 DEF Cut, Safe
    <3>2. plan'.attempt = 0
      BY <3>1, PlanAtType DEF Opened
    <3> QED BY <2>1, <3>2 DEF Numbers, MaxFeedback
  <2>3. CASE BuildBack
    <3>1. plan'.attempt = plan.attempt
      BY <1>1, <2>3, BuildBackKeeps
    <3> QED BY <2>1, <3>1 DEF Numbers
  <2>4. CASE Rebuild \/ DropSegment
    <3>1. stage = "feedback"
      BY <2>4 DEF Rebuild, DropSegment
    <3>2. plan.attempt < MaxFeedback
      BY <1>1, <3>1 DEF Safe, Rounds, AtWork
    <3>3. plan'.attempt = plan.attempt + 1
      BY <1>1, <2>4, RebuildKeeps, DropSegmentKeeps
    <3>4. plan'.attempt \in 0..MaxFeedback
      BY <1>2, <3>2, <3>3 DEF MaxFeedback
    <3> QED BY <2>1, <3>4 DEF Numbers
  <2>5. CASE TightenBacks \/ PlaceBand \/ NothingToDrop \/ Settle \/ BuildFronts \/ TrimFronts
    <3>1. plan'.attempt = plan.attempt
      BY <1>1, <2>5, AttemptStays
    <3> QED BY <2>1, <3>1 DEF Numbers
  <2> QED BY <1>3, <2>2, <2>3, <2>4, <2>5 DEF Planner
<1>4. CASE Controller
  <2>1. run' \in Nat /\ todo' \in Nat
    BY <1>4 DEF Numbers, Controller, Collect, Check, LoadPlan, HandLayout, Wire, Configure,
       ConfigureFails, Serve, Restart
  <2>2. plan' = plan \/ plan' = NoPlan
    BY <1>4 DEF Controller, Collect, Check, LoadPlan, HandLayout, Wire, Configure,
       ConfigureFails, Serve, Restart
  <2>3. plan'.attempt \in 0..MaxFeedback
    BY <1>2, <2>2, NoPlanFields DEF MaxFeedback
  <2> QED BY <2>1, <2>3 DEF Numbers
<1>5. CASE UNCHANGED vars
  BY <1>5 DEF vars, Numbers
<1> QED BY <1>3, <1>4, <1>5 DEF Next, Finished

(* So they always are.                                                     *)
LEMMA NumbersAlways == Spec => []Numbers
<1>1. Init => Numbers
  BY NumbersInit
<1>2. PlanInv /\ Numbers /\ [Next]_vars => Numbers'
  BY NumbersStep
<1> QED BY <1>1, <1>2, PlanInvAlways, PTL DEF Spec

(* The number of a phase; the end comes after all of them.                 *)
No(ph) == MaxOf({i \in DOMAIN Phases : Phases[i] = ph}, Len(Phases) + 1)

(* The greatest of one number.                                             *)
LEMMA MaxOfOne ==
    ASSUME NEW k \in Nat, NEW base
    PROVE  MaxOf({k}, base) = k
<1>1. PICK m : m = CHOOSE x \in {k} : \A y \in {k} : y <= x
  OBVIOUS
<1>2. m \in {k}
  <2>1. \E x \in {k} : \A y \in {k} : y <= x
    OBVIOUS
  <2> QED BY <1>1, <2>1
<1> QED BY <1>1, <1>2 DEF MaxOf

(* The phases are numbered in their order.                                 *)
LEMMA PhaseNumbers ==
    /\ No("start") = 1 /\ No("cut") = 2 /\ No("load") = 3 /\ No("build") = 4 /\ No("band") = 5
    /\ No("settle") = 6 /\ No("fronts") = 7 /\ No("trim") = 8 /\ No("check") = 9 /\ No("wire") = 10
    /\ No("configure") = 11
    /\ \A s \in Ended : No(s) = 12
<1>1. PICK ps : ps = Phases
  OBVIOUS
<1>2. /\ DOMAIN ps = 1..11 /\ Len(ps) = 11
      /\ ps[1] = "start" /\ ps[2] = "cut" /\ ps[3] = "load" /\ ps[4] = "build" /\ ps[5] = "band"
      /\ ps[6] = "settle" /\ ps[7] = "fronts" /\ ps[8] = "trim" /\ ps[9] = "check" /\ ps[10] = "wire"
      /\ ps[11] = "configure"
  BY <1>1 DEF Phases
<1>3. \A ph : No(ph) = MaxOf({i \in 1..11 : ps[i] = ph}, 12)
  BY <1>1, <1>2 DEF No
<1>4. ASSUME NEW k \in 1..11 PROVE No(ps[k]) = k
  <2>1. \A i \in 1..11 : ps[i] = ps[k] => i = k
    BY <1>2
  <2>2. {i \in 1..11 : ps[i] = ps[k]} = {k}
    BY <2>1
  <2>3. MaxOf({k}, 12) = k
    <3>1. k \in Nat
      OBVIOUS
    <3> QED BY <3>1, MaxOfOne
  <2>4. No(ps[k]) = MaxOf({i \in 1..11 : ps[i] = ps[k]}, 12)
    BY <1>3
  <2> QED BY <2>2, <2>3, <2>4
<1>5. ASSUME NEW s \in Ended PROVE No(s) = 12
  <2>1. \A i \in 1..11 : ps[i] # s
    BY <1>2 DEF Ended
  <2>2. {i \in 1..11 : ps[i] = s} = {}
    BY <2>1
  <2> QED BY <1>3, <2>2 DEF MaxOf
<1> QED BY <1>2, <1>4, <1>5
(* One step nearer to the end.                                             *)
Nearer ==
    /\ ToGo'[1] < ToGo[1] \/ (ToGo'[1] = ToGo[1] /\ ToGo'[2] >= ToGo[2])
    /\ ToGo' = ToGo => Lex(Left', Left)

(* What is to go, by the number of the phase.                              *)
LEMMA ToGoIs == ToGo = <<MaxRuns - run, No(Phase)>>
BY DEF ToGo, No

(* A later phase of the same start.                                        *)
LEMMA LaterPhase ==
    ASSUME Numbers, run' = run, NEW a \in Nat, NEW b \in Nat, a < b, No(Phase) = a, No(Phase') = b
    PROVE  Nearer
<1>1. ToGo = <<MaxRuns - run, a>> /\ ToGo' = <<MaxRuns - run, b>>
  BY DEF ToGo, No
<1>2. MaxRuns - run \in Int
  BY BoundsAssumption DEF Numbers
<1> QED BY <1>1, <1>2 DEF Nearer

(* The same phase, with less left to do.                                   *)
LEMMA SamePhase ==
    ASSUME Numbers, run' = run, NEW a \in Nat, No(Phase) = a, No(Phase') = a, Lex(Left', Left)
    PROVE  Nearer
<1>1. ToGo = <<MaxRuns - run, a>> /\ ToGo' = <<MaxRuns - run, a>>
  BY DEF ToGo, No
<1>2. MaxRuns - run \in Int
  BY BoundsAssumption DEF Numbers
<1> QED BY <1>1, <1>2 DEF Nearer

(* The numbers of the phases before and after a step.                      *)
LEMMA PhaseNow ==
    /\ stage # "feedback" => No(Phase) = No(stage)
    /\ stage = "feedback" => No(Phase) = 5
    /\ stage' # "feedback" => No(Phase') = No(stage')
    /\ stage' = "feedback" => No(Phase') = 5
BY PhaseNumbers DEF Phase

(* A step of the planner brings the end nearer.                            *)
LEMMA PlannerNearer ==
    ASSUME PlanInv, Numbers, Planner
    PROVE  Nearer
<1>1. Safe(P, stage, plan) /\ run' = run
  BY DEF PlanInv, Planner, planned, Cut, BuildBack, TightenBacks, PlaceBand, Rebuild, DropSegment,
     NothingToDrop, Settle, BuildFronts, TrimFronts
<1>2. CASE Cut
  <2>1. stage = "cut" /\ stage' \in {"crashed", "refused", "build"}
    BY <1>2 DEF Cut
  <2>2. No(Phase) = 2 /\ No(Phase') \in {4, 12}
    BY <2>1, PhaseNow, PhaseNumbers DEF Ended
  <2> QED BY <1>1, <2>2, LaterPhase
<1>3. CASE BuildBack
  <2>1. stage = "build" /\ stage' = "build"
    BY <1>3 DEF BuildBack
  <2>2. No(Phase) = 4 /\ No(Phase') = 4
    BY <2>1, PhaseNow, PhaseNumbers
  <2>3. AtWork(P, "build", plan)
    BY <1>1, <2>1 DEF Safe
  <2>4. PICK len \in Nat : len = Len(plan.order)
    BY <2>3, LenProperties DEF AtWork
  <2>5. PICK turn \in Nat : turn = plan.turn
    BY <2>3 DEF AtWork
  <2>6. PICK count \in Nat : count = Counted(plan.backs)
    <3>1. Ready(P) /\ BacksFit(P, plan.l0, plan.order, plan.backs)
      BY <2>3 DEF AtWork
    <3> QED BY <3>1, CountedType
  <2>7. Left = <<len - turn, -count>>
    BY <2>1, <2>4, <2>5, <2>6 DEF Left
  <2>8. Left' = <<Len(plan'.order) - plan'.turn, -Counted(plan'.backs)>>
    BY <2>1 DEF Left
  <2>9. /\ plan'.order = plan.order
        /\ \/ plan'.turn = plan.turn + 1
           \/ plan'.turn = plan.turn /\ Counted(plan'.backs) = Counted(plan.backs) + 1
    BY <1>1, <1>3, BuildBackKeeps
  <2>10. PICK x : x = Counted(plan'.backs)
    OBVIOUS
  <2>11. CASE plan'.turn = plan.turn + 1
    <3>1. Left' = <<len - (turn + 1), -x>>
      BY <2>4, <2>5, <2>8, <2>9, <2>10, <2>11
    <3>2. len - (turn + 1) < len - turn
      OBVIOUS
    <3>3. Left'[1] < Left[1] /\ 1 \in DOMAIN Left'
      BY <2>7, <3>1, <3>2
    <3>4. Lex(Left', Left)
      BY <3>3 DEF Lex
    <3> QED BY <1>1, <2>2, <3>4, SamePhase
  <2>12. CASE plan'.turn = plan.turn /\ Counted(plan'.backs) = Counted(plan.backs) + 1
    <3>1. Left' = <<len - turn, -(count + 1)>>
      BY <2>4, <2>5, <2>6, <2>8, <2>9, <2>12
    <3>2. Lex(Left', Left)
      BY <2>7, <3>1 DEF Lex
    <3> QED BY <1>1, <2>2, <3>2, SamePhase
  <2> QED BY <2>9, <2>11, <2>12
<1>4. CASE TightenBacks
  <2>1. stage = "build" /\ stage' \in {"refused", "band"}
    BY <1>4 DEF TightenBacks
  <2>2. No(Phase) = 4 /\ No(Phase') \in {5, 12}
    BY <2>1, PhaseNow, PhaseNumbers DEF Ended
  <2> QED BY <1>1, <2>2, LaterPhase
<1>5. CASE PlaceBand
  <2>1. stage = "band" /\ stage' \in {"refused", "settle", "feedback"}
    BY <1>5 DEF PlaceBand
  <2>2. CASE stage' # "feedback"
    <3>1. No(Phase) = 5 /\ No(Phase') \in {6, 12}
      BY <2>1, <2>2, PhaseNow, PhaseNumbers DEF Ended
    <3> QED BY <1>1, <3>1, LaterPhase
  <2>3. CASE stage' = "feedback"
    <3>1. No(Phase) = 5 /\ No(Phase') = 5
      BY <2>1, <2>3, PhaseNow, PhaseNumbers
    <3>2. plan'.attempt = plan.attempt
      BY <1>1, <1>5, AttemptStays DEF Safe
    <3>3. PICK n \in Nat : n = plan.attempt
      BY DEF Numbers
    <3>4. Left = <<-n, 1>> /\ Left' = <<-n, 0>>
      BY <2>1, <2>3, <3>2, <3>3 DEF Left
    <3>5. Lex(Left', Left)
      BY <3>4 DEF Lex
    <3> QED BY <1>1, <3>1, <3>5, SamePhase
  <2> QED BY <2>2, <2>3
<1>6. CASE Rebuild \/ DropSegment
  <2>1. stage = "feedback" /\ stage' = "band"
    BY <1>6 DEF Rebuild, DropSegment
  <2>2. No(Phase) = 5 /\ No(Phase') = 5
    BY <2>1, PhaseNow, PhaseNumbers
  <2>3. plan'.attempt = plan.attempt + 1
    BY <1>1, <1>6, RebuildKeeps, DropSegmentKeeps
  <2>4. PICK n \in Nat : n = plan.attempt
    BY DEF Numbers
  <2>5. Left = <<-n, 0>> /\ Left' = <<-(n + 1), 1>>
    BY <2>1, <2>3, <2>4 DEF Left
  <2>6. Lex(Left', Left)
    BY <2>5 DEF Lex
  <2> QED BY <1>1, <2>2, <2>6, SamePhase
<1>7. CASE NothingToDrop
  <2>1. stage = "feedback" /\ stage' = "settle"
    BY <1>7 DEF NothingToDrop
  <2>2. No(Phase) = 5 /\ No(Phase') = 6
    BY <2>1, PhaseNow, PhaseNumbers
  <2> QED BY <1>1, <2>2, LaterPhase
<1>8. CASE Settle
  <2>1. stage = "settle" /\ stage' \in {"refused", "fronts"}
    BY <1>8 DEF Settle
  <2>2. No(Phase) = 6 /\ No(Phase') \in {7, 12}
    BY <2>1, PhaseNow, PhaseNumbers DEF Ended
  <2> QED BY <1>1, <2>2, LaterPhase
<1>9. CASE BuildFronts
  <2>1. stage = "fronts" /\ stage' = "trim"
    BY <1>9 DEF BuildFronts
  <2>2. No(Phase) = 7 /\ No(Phase') = 8
    BY <2>1, PhaseNow, PhaseNumbers
  <2> QED BY <1>1, <2>2, LaterPhase
<1>10. CASE TrimFronts
  <2>1. stage = "trim" /\ stage' \in {"refused", "check"}
    BY <1>10 DEF TrimFronts, Trimmed
  <2>2. No(Phase) = 8 /\ No(Phase') \in {9, 12}
    BY <2>1, PhaseNow, PhaseNumbers DEF Ended
  <2> QED BY <1>1, <2>2, LaterPhase
<1> QED BY <1>2, <1>3, <1>4, <1>5, <1>6, <1>7, <1>8, <1>9, <1>10 DEF Planner

(* So does a step of the controller.                                       *)
LEMMA ControllerNearer ==
    ASSUME Numbers, Controller
    PROVE  Nearer
<1>1. CASE Restart
  <2>1. run' = run + 1 /\ run < MaxRuns
    BY <1>1 DEF Restart
  <2>2. ToGo = <<MaxRuns - run, No(Phase)>> /\ ToGo' = <<MaxRuns - (run + 1), No(Phase')>>
    BY <2>1 DEF ToGo, No
  <2>3. MaxRuns - (run + 1) < MaxRuns - run
    BY BoundsAssumption DEF Numbers
  <2>4. ToGo'[1] < ToGo[1]
    BY <2>2, <2>3
  <2>5. ToGo' # ToGo
    BY <2>2, <2>3, BoundsAssumption DEF Numbers
  <2> QED BY <2>4, <2>5 DEF Nearer
<1>2. CASE Collect
  <2>1. stage = "start" /\ stage' \in {"stopped", "cut", "load"} /\ run' = run
    BY <1>2 DEF Collect
  <2>2. No(Phase) = 1 /\ No(Phase') \in {2, 3, 12}
    BY <2>1, PhaseNow, PhaseNumbers DEF Ended
  <2> QED BY <2>1, <2>2, LaterPhase
<1>3. CASE Check
  <2>1. stage = "check" /\ stage' \in {"wire", "invalid"} /\ run' = run
    BY <1>3 DEF Check
  <2>2. No(Phase) = 9 /\ No(Phase') \in {10, 12}
    BY <2>1, PhaseNow, PhaseNumbers DEF Ended
  <2> QED BY <2>1, <2>2, LaterPhase
<1>4. CASE LoadPlan
  <2>1. stage = "load" /\ stage' \in {"wire", "invalid"} /\ run' = run
    BY <1>4 DEF LoadPlan
  <2>2. No(Phase) = 3 /\ No(Phase') \in {10, 12}
    BY <2>1, PhaseNow, PhaseNumbers DEF Ended
  <2> QED BY <2>1, <2>2, LaterPhase
<1>5. CASE HandLayout
  <2>1. stage = "start" /\ stage' \in {"refused", "crashed", "configure"} /\ run' = run
    BY <1>5 DEF HandLayout, UseLayout
  <2>2. No(Phase) = 1 /\ No(Phase') \in {11, 12}
    BY <2>1, PhaseNow, PhaseNumbers DEF Ended
  <2> QED BY <2>1, <2>2, LaterPhase
<1>6. CASE Wire
  <2>1. stage = "wire" /\ stage' \in {"stopped", "configure"} /\ run' = run
    BY <1>6 DEF Wire
  <2>2. No(Phase) = 10 /\ No(Phase') \in {11, 12}
    BY <2>1, PhaseNow, PhaseNumbers DEF Ended
  <2> QED BY <2>1, <2>2, LaterPhase
<1>7. CASE Configure
  <2>1. stage = "configure" /\ stage' = "configure" /\ run' = run /\ todo' = todo + 1
    BY <1>7 DEF Configure
  <2>2. No(Phase) = 11 /\ No(Phase') = 11
    BY <2>1, PhaseNow, PhaseNumbers
  <2>3. PICK n \in Nat : n = todo
    BY DEF Numbers
  <2>4. Left = <<-n, 0>> /\ Left' = <<-(n + 1), 0>>
    BY <2>1, <2>3 DEF Left
  <2>5. Lex(Left', Left)
    BY <2>4 DEF Lex
  <2> QED BY <2>1, <2>2, <2>5, SamePhase
<1>8. CASE ConfigureFails \/ Serve
  <2>1. stage = "configure" /\ stage' \in {"stopped", "refused", "serving"} /\ run' = run
    BY <1>8 DEF ConfigureFails, Serve
  <2>2. No(Phase) = 11 /\ No(Phase') = 12
    BY <2>1, PhaseNow, PhaseNumbers DEF Ended
  <2> QED BY <2>1, <2>2, LaterPhase
<1> QED BY <1>1, <1>2, <1>3, <1>4, <1>5, <1>6, <1>7, <1>8 DEF Controller

(* Each step of a start brings it nearer to its end.                       *)
THEOREM EveryPlanEnds == Spec => PlanEnds
<1>1. ASSUME PlanInv, Numbers, Numbers', [Next]_vars
      PROVE  [/\ ToGo'[1] < ToGo[1] \/ (ToGo'[1] = ToGo[1] /\ ToGo'[2] >= ToGo[2])
              /\ ToGo' = ToGo => Lex(Left', Left)
              /\ plan'.attempt <= MaxFeedback]_vars
  <2>1. CASE UNCHANGED vars
    BY <2>1
  <2>2. CASE ~UNCHANGED vars
    <3>1. Planner \/ Controller
      BY <1>1, <2>2 DEF Next, Finished
    <3>2. Nearer
      BY <1>1, <3>1, PlannerNearer, ControllerNearer
    <3>3. plan'.attempt <= MaxFeedback
      BY <1>1 DEF Numbers, MaxFeedback
    <3> QED BY <3>2, <3>3 DEF Nearer
  <2> QED BY <2>1, <2>2
<1>2. PlanInv /\ Numbers /\ Numbers' /\ [Next]_vars
        => [/\ ToGo'[1] < ToGo[1] \/ (ToGo'[1] = ToGo[1] /\ ToGo'[2] >= ToGo[2])
            /\ ToGo' = ToGo => Lex(Left', Left)
            /\ plan'.attempt <= MaxFeedback]_vars
  BY <1>1
<1> QED BY <1>2, PlanInvAlways, NumbersAlways, PTL DEF Spec, PlanEnds
=============================================================================
