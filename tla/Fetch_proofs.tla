---------------------------- MODULE Fetch_proofs ----------------------------
(***************************************************************************)
(* For any file, any tensors in it and any number of retries: what is      *)
(* written is what the server has.                                         *)
(***************************************************************************)
EXTENDS Fetch, SequenceLemmas

-----------------------------------------------------------------------------
(* Bytes *)

Places == 0..(Size - 1)

LEMMA Sizes ==
    /\ Size \in Nat /\ Size # 0 /\ Prefix \in Nat /\ Probe \in Nat /\ 1 <= Probe /\ Probe <= Size
    /\ Gap \in Nat /\ Retries \in Nat /\ Retries # 0
<1>1. Size \in Nat /\ Prefix \in Nat /\ Probe \in Nat /\ Gap \in Nat /\ Retries \in Nat
  BY FetchConstantsAssumption
<1>2. Probe \in 1..Size /\ Retries > 0
  BY FetchConstantsAssumption
<1> QED BY <1>1, <1>2

LEMMA BytesFacts ==
    ASSUME NEW lo \in Nat, NEW hi \in Nat, lo <= hi, hi <= Size
    PROVE  /\ Bytes(lo, hi) \in Seq(Places)
           /\ Len(Bytes(lo, hi)) = hi - lo
           /\ \A i \in 1..(hi - lo) : Bytes(lo, hi)[i] = lo + i - 1
<1>1. Size \in Nat
  BY Sizes
<1>2. \A i \in (lo + 1)..hi : File[i] = i - 1 /\ File[i] \in Places
  BY <1>1 DEF File, Places
<1>3. PICK s : s = File
  OBVIOUS
<1>4. \A i \in (lo + 1)..hi : s[i] = i - 1 /\ s[i] \in Places
  BY <1>2, <1>3
<1>5. /\ SubSeq(s, lo + 1, hi) \in Seq(Places)
      /\ Len(SubSeq(s, lo + 1, hi)) = IF lo + 1 <= hi THEN hi - (lo + 1) + 1 ELSE 0
      /\ \A i \in 1..(hi - (lo + 1) + 1) : SubSeq(s, lo + 1, hi)[i] = s[(lo + 1) + i - 1]
  <2>1. lo + 1 \in Int /\ hi \in Int
    OBVIOUS
  <2> QED BY <1>4, <2>1, SubSeqProperties
<1>6. Len(SubSeq(s, lo + 1, hi)) = hi - lo
  BY <1>5
<1>7. ASSUME NEW i \in 1..(hi - lo) PROVE SubSeq(s, lo + 1, hi)[i] = lo + i - 1
  <2>1. i \in 1..(hi - (lo + 1) + 1) /\ (lo + 1) + i - 1 \in (lo + 1)..hi
    OBVIOUS
  <2>2. SubSeq(s, lo + 1, hi)[i] = s[(lo + 1) + i - 1]
    BY <1>5, <2>1
  <2>3. s[(lo + 1) + i - 1] = ((lo + 1) + i - 1) - 1
    BY <1>4, <2>1
  <2> QED BY <2>2, <2>3
<1> QED BY <1>3, <1>5, <1>6, <1>7 DEF Bytes

LEMMA BytesAre ==
    ASSUME NEW lo \in Nat, NEW hi \in Nat, lo <= hi, hi <= Size,
           NEW s, s \in Seq(Places), Len(s) = hi - lo, \A i \in 1..(hi - lo) : s[i] = lo + i - 1
    PROVE  s = Bytes(lo, hi)
<1>1. PICK t : t = Bytes(lo, hi)
  OBVIOUS
<1>2. t \in Seq(Places) /\ Len(t) = hi - lo /\ \A i \in 1..(hi - lo) : t[i] = lo + i - 1
  BY <1>1, BytesFacts
<1>3. Len(s) = Len(t) /\ \A i \in 1..Len(s) : s[i] = t[i]
  BY <1>2
<1> QED BY <1>1, <1>2, <1>3, SeqEqual

Piece(s, m, n) == SubSeq(s, m, n)

(* A part of what is there.                                                *)
LEMMA BytesPart ==
    ASSUME NEW a \in Nat, NEW b \in Nat, a <= b, b <= Size,
           NEW m \in Nat, NEW n \in Nat, 1 <= m, m <= n + 1, n <= b - a
    PROVE  Piece(Bytes(a, b), m, n) = Bytes(a + m - 1, a + n)
<1>1. PICK t : t = Bytes(a, b)
  OBVIOUS
<1>2. t \in Seq(Places) /\ Len(t) = b - a /\ \A i \in 1..(b - a) : t[i] = a + i - 1
  BY <1>1, BytesFacts
<1>3. PICK u : u = SubSeq(t, m, n)
  OBVIOUS
<1>4. \A i \in m..n : t[i] \in Places
  BY <1>2
<1>5. /\ u \in Seq(Places)
      /\ Len(u) = IF m <= n THEN n - m + 1 ELSE 0
      /\ \A i \in 1..(n - m + 1) : u[i] = t[m + i - 1]
  <2>1. m \in Int /\ n \in Int
    OBVIOUS
  <2> QED BY <1>3, <1>4, <2>1, SubSeqProperties
<1>6. PICK lo \in Nat : lo = a + m - 1
  OBVIOUS
<1>7. PICK hi \in Nat : hi = a + n
  OBVIOUS
<1>8. Len(u) = hi - lo /\ lo <= hi /\ hi <= Size
  BY <1>5, <1>6, <1>7, Sizes
<1>9. ASSUME NEW i \in 1..(hi - lo) PROVE u[i] = lo + i - 1
  <2>1. i \in 1..(n - m + 1) /\ m + i - 1 \in 1..(b - a)
    BY <1>6, <1>7
  <2>2. u[i] = t[m + i - 1]
    BY <1>5, <2>1
  <2>3. t[m + i - 1] = a + (m + i - 1) - 1
    BY <1>2, <2>1
  <2> QED BY <1>6, <2>2, <2>3
<1>10. u = Bytes(lo, hi)
  BY <1>5, <1>8, <1>9, BytesAre
<1> QED BY <1>1, <1>3, <1>6, <1>7, <1>10 DEF Piece

(* Where one part ends another begins.                                     *)
LEMMA BytesJoin ==
    ASSUME NEW a \in Nat, NEW b \in Nat, NEW c \in Nat, a <= b, b <= c, c <= Size
    PROVE  Bytes(a, b) \o Bytes(b, c) = Bytes(a, c)
<1>1. PICK s : s = Bytes(a, b)
  OBVIOUS
<1>2. s \in Seq(Places) /\ Len(s) = b - a /\ \A i \in 1..(b - a) : s[i] = a + i - 1
  <2>1. b <= Size
    BY Sizes
  <2> QED BY <1>1, <2>1, BytesFacts
<1>3. PICK t : t = Bytes(b, c)
  OBVIOUS
<1>4. t \in Seq(Places) /\ Len(t) = c - b /\ \A i \in 1..(c - b) : t[i] = b + i - 1
  BY <1>3, BytesFacts
<1>5. PICK u : u = s \o t
  OBVIOUS
<1>6. /\ u \in Seq(Places) /\ Len(u) = Len(s) + Len(t)
      /\ \A i \in 1..(Len(s) + Len(t)) : u[i] = IF i <= Len(s) THEN s[i] ELSE t[i - Len(s)]
  BY <1>2, <1>4, <1>5, ConcatProperties
<1>7. Len(u) = c - a
  BY <1>2, <1>4, <1>6
<1>8. ASSUME NEW i \in 1..(c - a) PROVE u[i] = a + i - 1
  <2>1. i \in 1..(Len(s) + Len(t))
    BY <1>6, <1>7
  <2>2. CASE i <= b - a
    <3>1. i \in 1..(b - a) /\ u[i] = s[i]
      BY <1>2, <1>6, <2>1, <2>2
    <3> QED BY <1>2, <3>1
  <2>3. CASE ~(i <= b - a)
    <3>1. i - (b - a) \in 1..(c - b) /\ u[i] = t[i - (b - a)]
      BY <1>2, <1>6, <2>1, <2>3
    <3>2. t[i - (b - a)] = b + (i - (b - a)) - 1
      BY <1>4, <3>1
    <3> QED BY <3>1, <3>2
  <2> QED BY <2>2, <2>3
<1>9. u = Bytes(a, c)
  <2>1. a <= c
    OBVIOUS
  <2> QED BY <1>6, <1>7, <1>8, <2>1, BytesAre
<1> QED BY <1>1, <1>3, <1>5, <1>9

LEMMA NoBytes == ASSUME NEW a \in Nat, a <= Size PROVE Bytes(a, a) = <<>>
<1>1. Bytes(a, a) \in Seq(Places) /\ Len(Bytes(a, a)) = a - a
  BY BytesFacts
<1> QED BY <1>1, EmptySeq

-----------------------------------------------------------------------------
(* Ranges *)

(* What is asked of the file, but for the whole of it.                     *)
Solid == {r \in [lo : Nat, hi : Nat] : r.lo < r.hi /\ r.hi <= Size}

Around(r, t) == r.lo <= t.lo /\ t.hi <= r.hi

InFileOrder(specs) == specs \in Seq(Solid) /\ \A i \in 2..Len(specs) : specs[i - 1].lo < specs[i].lo

LEMMA Tensors == Range(Layout) \subseteq Solid
<1> SUFFICES ASSUME NEW i \in DOMAIN Layout PROVE Layout[i] \in Solid
  BY DEF Range
<1>1. Layout \in Seq([lo : Nat, hi : Nat])
  BY FetchConstantsAssumption
<1>2. Layout[i] \in [lo : Nat, hi : Nat]
  BY <1>1, ElementOfSeq, LenProperties
<1>3. Layout[i].lo < Layout[i].hi /\ Layout[i].hi <= Size
  BY FetchConstantsAssumption
<1> QED BY <1>2, <1>3 DEF Solid

LEMMA DataPlace == DataAt \in Nat /\ Prefix < DataAt /\ DataAt <= Size
<1>1. Layout \in Seq([lo : Nat, hi : Nat]) /\ Layout # <<>> /\ 0 < Prefix /\ Prefix < DataAt
  BY FetchConstantsAssumption
<1>2. 1 \in DOMAIN Layout
  BY <1>1, EmptySeq, LenProperties
<1>3. Layout[1] \in Solid
  BY <1>2, Tensors DEF Range
<1> QED BY <1>1, <1>3, Sizes DEF DataAt, Solid

(* One step of _coalesce.                                                  *)
LEMMA MergeFacts ==
    ASSUME NEW out \in Seq(Solid), NEW t \in Solid
    PROVE  /\ Merge(out, t) \in Seq(Solid) /\ Merge(out, t) # <<>>
           /\ \A i \in DOMAIN out : \E j \in DOMAIN Merge(out, t) : Around(Merge(out, t)[j], out[i])
           /\ (out # <<>> => Last(out).lo <= t.lo) =>
                 /\ Last(Merge(out, t)).lo <= t.lo
                 /\ \E j \in DOMAIN Merge(out, t) : Around(Merge(out, t)[j], t)
<1>1. t.lo \in Nat /\ t.hi \in Nat /\ t.lo < t.hi /\ t.hi <= Size
  BY DEF Solid
<1>2. \A i \in DOMAIN out : out[i] \in Solid /\ out[i].lo \in Nat /\ out[i].hi \in Nat
                            /\ out[i].lo < out[i].hi /\ out[i].hi <= Size
  BY ElementOfSeq, LenProperties DEF Solid
<1>3. CASE out # <<>> /\ t.lo <= Last(out).hi + Gap
  <2>1. Len(out) \in DOMAIN out /\ Last(out) = out[Len(out)]
    BY <1>3, EmptySeq, LenProperties DEF Last
  <2>2. PICK n : n = Len(out)
    OBVIOUS
  <2>3. PICK h : h = IF out[n].hi > t.hi THEN out[n].hi ELSE t.hi
    OBVIOUS
  <2>4. h \in Nat /\ out[n].lo < h /\ h <= Size /\ out[n].hi <= h /\ t.hi <= h
    BY <1>1, <1>2, <2>1, <2>2, <2>3, Sizes
  <2>5. PICK r : r = [out[n] EXCEPT !.hi = h]
    OBVIOUS
  <2>6. r \in Solid /\ r.lo = out[n].lo /\ r.hi = h
    <3>1. out[n] \in [lo : Nat, hi : Nat]
      BY <1>2, <2>1, <2>2 DEF Solid
    <3>2. r \in [lo : Nat, hi : Nat] /\ r.lo = out[n].lo /\ r.hi = h
      BY <3>1, <2>4, <2>5
    <3> QED BY <2>4, <3>2 DEF Solid
  <2>7. PICK m : m = [out EXCEPT ![n] = r]
    OBVIOUS
  <2>8. Merge(out, t) = m
    BY <1>3, <2>2, <2>3, <2>5, <2>7 DEF Merge
  <2>9. /\ m \in Seq(Solid) /\ Len(m) = Len(out) /\ DOMAIN m = DOMAIN out /\ m[n] = r
        /\ \A i \in DOMAIN out : i # n => m[i] = out[i]
    BY <2>1, <2>2, <2>6, <2>7, ExceptSeq
  <2>10. m # <<>> /\ Last(m) = r
    BY <2>1, <2>2, <2>9, EmptySeq, LenProperties DEF Last
  <2>11. ASSUME NEW i \in DOMAIN out PROVE \E j \in DOMAIN m : Around(m[j], out[i])
    <3>1. CASE i = n
      BY <3>1, <1>2, <2>1, <2>2, <2>4, <2>6, <2>9 DEF Around
    <3>2. CASE i # n
      BY <3>2, <1>2, <2>9 DEF Around
    <3> QED BY <3>1, <3>2
  <2>12. (out # <<>> => Last(out).lo <= t.lo) => Last(m).lo <= t.lo /\ Around(m[n], t)
    BY <1>3, <2>1, <2>2, <2>4, <2>6, <2>9, <2>10 DEF Around
  <2>13. n \in DOMAIN m
    BY <2>1, <2>2, <2>9
  <2> QED BY <2>8, <2>9, <2>10, <2>11, <2>12, <2>13
<1>4. CASE ~(out # <<>> /\ t.lo <= Last(out).hi + Gap)
  <2>1. PICK m : m = Append(out, t)
    OBVIOUS
  <2>2. Merge(out, t) = m
    BY <1>4, <2>1 DEF Merge
  <2>3. /\ m \in Seq(Solid) /\ Len(m) = Len(out) + 1 /\ m[Len(out) + 1] = t
        /\ \A i \in 1..Len(out) : m[i] = out[i]
    BY <2>1, AppendProperties
  <2>4. Len(m) \in DOMAIN m /\ m # <<>> /\ Last(m) = t
    BY <2>3, EmptySeq, LenProperties DEF Last
  <2>5. \A i \in DOMAIN out : i \in DOMAIN m /\ m[i] = out[i]
    BY <2>3, LenProperties
  <2>6. \A i \in DOMAIN out : Around(m[i], out[i])
    BY <1>2, <2>5 DEF Around
  <2>7. Around(m[Len(m)], t) /\ Last(m).lo <= t.lo
    BY <1>1, <2>3, <2>4 DEF Around
  <2> QED BY <2>2, <2>3, <2>4, <2>5, <2>6, <2>7
<1> QED BY <1>3, <1>4

(* What _coalesce has after the first n tensors.                           *)
LEMMA MergedExists ==
    ASSUME NEW specs, InFileOrder(specs)
    PROVE  /\ Merged(specs) \in [0..Len(specs) -> Seq(Solid)]
           /\ Merged(specs)[0] = <<>>
           /\ \A n \in 1..Len(specs) : Merged(specs)[n] = Merge(Merged(specs)[n - 1], specs[n])
<1>1. specs \in Seq(Solid) /\ Len(specs) \in Nat /\ \A n \in 1..Len(specs) : specs[n] \in Solid
  BY ElementOfSeq, LenProperties DEF InFileOrder
<1>2. PICK L : L = Len(specs)
  OBVIOUS
<1>3. PICK step : step = [p \in (1..L) \X Seq(Solid) |-> Merge(p[2], specs[p[1]])]
  OBVIOUS
<1>4. step \in [(1..L) \X Seq(Solid) -> Seq(Solid)]
  <2>1. ASSUME NEW p \in (1..L) \X Seq(Solid) PROVE Merge(p[2], specs[p[1]]) \in Seq(Solid)
    BY <1>1, <1>2, MergeFacts
  <2> QED BY <1>3, <2>1
<1>5. <<>> \in Seq(Solid) /\ L \in Nat
  BY <1>1, <1>2
<1>6. PICK f \in [0..L -> Seq(Solid)] : f[0] = <<>> /\ \A n \in 1..L : f[n] = step[<<n, f[n - 1]>>]
  <2>1. PICK S : S = Seq(Solid)
    OBVIOUS
  <2>2. PICK base : base = <<>>
    OBVIOUS
  <2>3. base \in S /\ step \in [(1..L) \X S -> S]
    BY <1>4, <1>5, <2>1, <2>2
  <2>4. PICK f : Follows(f, L, S, base, step)
    BY <1>5, <2>3, Recursion
  <2>5. f \in [0..L -> S] /\ f[0] = base /\ \A n \in 1..L : f[n] = step[<<n, f[n - 1]>>]
    BY <2>4 DEF Follows
  <2>6. f \in [0..L -> Seq(Solid)] /\ f[0] = <<>>
    BY <2>1, <2>2, <2>5
  <2> QED BY <2>5, <2>6
<1>7. ASSUME NEW n \in 1..L PROVE f[n] = Merge(f[n - 1], specs[n])
  <2>1. n - 1 \in 0..L
    BY <1>5
  <2>2. <<n, f[n - 1]>> \in (1..L) \X Seq(Solid)
    BY <1>6, <2>1
  <2> QED BY <1>3, <1>6, <2>2
<1>8. f = [n \in 0..L |-> IF n = 0 THEN <<>> ELSE Merge(f[n - 1], specs[n])]
  <2>1. ASSUME NEW n \in 0..L PROVE f[n] = IF n = 0 THEN <<>> ELSE Merge(f[n - 1], specs[n])
    <3>1. CASE n = 0
      BY <1>6, <3>1
    <3>2. CASE n # 0
      <4>1. n \in 1..L
        BY <1>5, <3>2
      <4> QED BY <1>7, <3>2, <4>1
    <3> QED BY <3>1, <3>2
  <2> QED BY <1>6, <2>1
<1>9. PICK g : g = Merged(specs)
  OBVIOUS
<1>10. g = [n \in 0..L |-> IF n = 0 THEN <<>> ELSE Merge(g[n - 1], specs[n])]
  BY <1>2, <1>8, <1>9 DEF Merged
<1>11. g[0] = <<>> /\ \A n \in 1..L : g[n] = Merge(g[n - 1], specs[n])
  <2>1. 0 \in 0..L /\ \A n \in 1..L : n \in 0..L /\ n # 0
    BY <1>5
  <2> QED BY <1>10, <2>1
<1>12. g \in [0..L -> Seq(Solid)]
  <2> DEFINE S == {n \in 0..L : g[n] \in Seq(Solid)}
  <2>1. 0 \in S
    <3>1. 0 \in 0..L
      BY <1>5
    <3>2. g[0] \in Seq(Solid)
      BY <1>5, <1>11
    <3> QED BY <3>1, <3>2
  <2>2. ASSUME NEW n \in 0..L, n \in S, n < L PROVE n + 1 \in S
    <3>1. n + 1 \in 1..L /\ n + 1 \in 0..L /\ (n + 1) - 1 = n
      BY <1>5, <2>2
    <3>2. g[n + 1] = Merge(g[n], specs[n + 1])
      BY <1>11, <3>1
    <3>3. g[n] \in Seq(Solid) /\ specs[n + 1] \in Solid
      BY <1>1, <1>2, <2>2, <3>1
    <3>4. Merge(g[n], specs[n + 1]) \in Seq(Solid)
      BY <3>3, MergeFacts
    <3>5. g[n + 1] \in Seq(Solid)
      BY <3>2, <3>4
    <3> QED BY <3>1, <3>5
  <2> HIDE DEF S
  <2>3. \A n \in 0..L : n \in S /\ n < L => n + 1 \in S
    BY <2>2
  <2>4. \A n \in 0..L : n \in S
    BY <1>5, <2>1, <2>3, CountUp
  <2>5. \A n \in 0..L : g[n] \in Seq(Solid)
    BY <2>4 DEF S
  <2> QED BY <1>10, <2>5
<1> QED BY <1>2, <1>9, <1>11, <1>12

(* Every tensor is in a range that is read.                                *)
LEMMA CoalesceCovers ==
    ASSUME NEW specs, InFileOrder(specs)
    PROVE  /\ Coalesce(specs) \in Seq(Solid)
           /\ \A i \in DOMAIN specs : \E j \in DOMAIN Coalesce(specs) : Around(Coalesce(specs)[j], specs[i])
<1>1. specs \in Seq(Solid) /\ Len(specs) \in Nat /\ DOMAIN specs = 1..Len(specs)
      /\ \A n \in 1..Len(specs) : specs[n] \in Solid
  BY ElementOfSeq, LenProperties DEF InFileOrder
<1>2. PICK L : L = Len(specs)
  OBVIOUS
<1>3. PICK g : g = Merged(specs)
  OBVIOUS
<1>4. /\ g \in [0..L -> Seq(Solid)] /\ g[0] = <<>>
      /\ \A n \in 1..L : g[n] = Merge(g[n - 1], specs[n])
  BY <1>2, <1>3, MergedExists
<1> DEFINE Last1(n) == n > 0 => g[n] # <<>> /\ Last(g[n]).lo <= specs[n].lo
           Covers(n) == \A i \in 1..n : \E j \in DOMAIN g[n] : Around(g[n][j], specs[i])
           S == {n \in 0..L : Last1(n) /\ Covers(n)}
<1>5. 0 \in S
  BY <1>1, <1>2
<1>6. ASSUME NEW n \in 0..L, n \in S, n < L PROVE n + 1 \in S
  <2>1. n + 1 \in 1..L /\ n + 1 \in 0..L /\ (n + 1) - 1 = n
    BY <1>1, <1>2, <1>6
  <2>2. PICK out : out = g[n]
    OBVIOUS
  <2>3. PICK t : t = specs[n + 1]
    OBVIOUS
  <2>4. g[n + 1] = Merge(out, t) /\ out \in Seq(Solid) /\ t \in Solid
    BY <1>1, <1>2, <1>4, <2>1, <2>2, <2>3
  <2>5. out # <<>> => Last(out).lo <= t.lo
    <3>1. CASE n = 0
      BY <1>4, <2>2, <3>1
    <3>2. CASE n > 0
      <4>1. Last(out).lo <= specs[n].lo /\ out # <<>>
        BY <1>6, <2>2, <3>2
      <4>2. n + 1 \in 2..Len(specs) /\ (n + 1) - 1 = n /\ n \in 1..Len(specs)
        BY <1>2, <2>1, <3>2
      <4>3. specs[n].lo < t.lo
        BY <2>3, <4>2 DEF InFileOrder
      <4>4. specs[n].lo \in Nat /\ t.lo \in Nat
        BY <1>1, <2>4, <4>2 DEF Solid
      <4>5. Last(out).lo \in Nat
        <5>1. Len(out) \in DOMAIN out
          BY <2>4, <4>1, EmptySeq, LenProperties
        <5>2. out[Len(out)] \in Solid
          BY <2>4, <5>1, ElementOfSeq, LenProperties
        <5> QED BY <5>2 DEF Last, Solid
      <4> QED BY <4>1, <4>3, <4>4, <4>5
    <3> QED BY <3>1, <3>2
  <2>6. PICK m : m = Merge(out, t)
    OBVIOUS
  <2>7. /\ m \in Seq(Solid) /\ m # <<>> /\ Last(m).lo <= t.lo
        /\ \A i \in DOMAIN out : \E j \in DOMAIN m : Around(m[j], out[i])
        /\ \E j \in DOMAIN m : Around(m[j], t)
    BY <2>4, <2>5, <2>6, MergeFacts
  <2>8. ASSUME NEW i \in 1..(n + 1) PROVE \E j \in DOMAIN m : Around(m[j], specs[i])
    <3>1. CASE i = n + 1
      BY <2>3, <2>7, <3>1
    <3>2. CASE i \in 1..n
      <4>1. PICK k \in DOMAIN out : Around(out[k], specs[i])
        BY <1>6, <2>2, <3>2
      <4>2. PICK j \in DOMAIN m : Around(m[j], out[k])
        BY <2>7
      <4>3. m[j] \in Solid /\ out[k] \in Solid /\ specs[i] \in Solid
        <5>1. i \in 1..Len(specs)
          BY <1>2, <2>1, <3>2
        <5> QED BY <1>1, <2>4, <2>7, <5>1, ElementOfSeq, LenProperties
      <4>4. Around(m[j], specs[i])
        BY <4>1, <4>2, <4>3 DEF Around, Solid
      <4> QED BY <4>4
    <3> QED BY <2>1, <3>1, <3>2
  <2>9. Last1(n + 1) /\ Covers(n + 1)
    BY <2>3, <2>4, <2>6, <2>7, <2>8
  <2> QED BY <2>1, <2>9
<1> HIDE DEF S
<1>7. \A n \in 0..L : n \in S /\ n < L => n + 1 \in S
  BY <1>6
<1>8. L \in Nat /\ L \in 0..L
  BY <1>1, <1>2
<1>9. \A n \in 0..L : n \in S
  BY <1>5, <1>7, <1>8, CountUp
<1>10. Covers(L)
  BY <1>8, <1>9 DEF S
<1>11. Coalesce(specs) = g[L]
  BY <1>2, <1>3 DEF Coalesce
<1> QED BY <1>1, <1>2, <1>4, <1>8, <1>10, <1>11


-----------------------------------------------------------------------------
(* What is to be read *)

Anywhere == Solid \cup {WholeFile}

Reads == HeaderReads \o BodyReads

Planned == mode \in {"slice", "shard"} /\ InFileOrder(wanted)

LEMMA Extent ==
    ASSUME NEW r \in Anywhere
    PROVE  /\ r.lo \in Nat /\ End(r) \in Nat /\ r.lo < End(r) /\ End(r) <= Size
           /\ r.hi = None <=> r = WholeFile
           /\ r # WholeFile => r \in Solid /\ End(r) = r.hi
           /\ r = WholeFile => r.lo = 0 /\ End(r) = Size
<1>1. None \notin Nat /\ Size \in Nat /\ Size # 0
  BY FetchConstantsAssumption, Sizes
<1>2. WholeFile.lo = 0 /\ WholeFile.hi = None
  BY DEF WholeFile, ByteRange
<1>3. CASE r \in Solid
  <2>1. r.lo \in Nat /\ r.hi \in Nat /\ r.lo < r.hi /\ r.hi <= Size
    BY <1>3 DEF Solid
  <2>2. r.hi # None
    BY <1>1, <2>1
  <2>3. End(r) = r.hi
    BY <2>2 DEF End
  <2> QED BY <1>2, <1>3, <2>1, <2>2, <2>3
<1>4. CASE r = WholeFile
  <2>1. End(r) = Size
    BY <1>2, <1>4 DEF End
  <2> QED BY <1>1, <1>2, <1>4, <2>1
<1> QED BY <1>3, <1>4 DEF Anywhere

LEMMA ReadsFacts ==
    ASSUME Planned
    PROVE  /\ Reads \in Seq(Anywhere) /\ BodyReads \in Seq(Anywhere)
           /\ Len(Reads) = 2 + Len(BodyReads) /\ Len(BodyReads) \in Nat
           /\ Len(HeaderReads) = 2
           /\ Reads[1] = ByteRange(0, Probe)
           /\ \A i \in 1..Len(BodyReads) : Reads[i + 2] = BodyReads[i]
<1>1. ByteRange(0, Probe) \in Anywhere /\ ByteRange(Prefix, DataAt) \in Anywhere
  BY Sizes, DataPlace DEF ByteRange, Anywhere, Solid
<1>2. PICK h : h = HeaderReads
  OBVIOUS
<1>3. h \in Seq(Anywhere) /\ Len(h) = 2 /\ h[1] = ByteRange(0, Probe)
  BY <1>1, <1>2 DEF HeaderReads
<1>4. BodyReads \in Seq(Anywhere)
  <2>1. CASE mode = "shard"
    <3>1. <<WholeFile>> \in Seq(Anywhere)
      BY DEF Anywhere
    <3> QED BY <2>1, <3>1 DEF BodyReads
  <2>2. CASE mode # "shard"
    <3>1. Coalesce(wanted) \in Seq(Solid)
      BY CoalesceCovers DEF Planned
    <3>2. Coalesce(wanted) \in Seq(Anywhere)
      <4>1. Solid \subseteq Anywhere
        BY DEF Anywhere
      <4> QED BY <3>1, <4>1, SeqMonotonic
    <3> QED BY <2>2, <3>2 DEF BodyReads
  <2> QED BY <2>1, <2>2
<1>5. PICK b : b = BodyReads
  OBVIOUS
<1>6. PICK r : r = h \o b
  OBVIOUS
<1>7. /\ r \in Seq(Anywhere) /\ Len(r) = Len(h) + Len(b)
      /\ \A i \in 1..(Len(h) + Len(b)) : r[i] = IF i <= Len(h) THEN h[i] ELSE b[i - Len(h)]
  BY <1>3, <1>4, <1>5, <1>6, ConcatProperties
<1>8. Len(b) \in Nat
  BY <1>4, <1>5, LenProperties
<1>9. r[1] = h[1]
  BY <1>3, <1>7, <1>8
<1>10. ASSUME NEW i \in 1..Len(b) PROVE r[i + 2] = b[i]
  <2>1. i + 2 \in 1..(Len(h) + Len(b)) /\ ~(i + 2 <= Len(h)) /\ (i + 2) - Len(h) = i
    BY <1>3, <1>8
  <2> QED BY <1>7, <2>1
<1>11. r = Reads
  BY <1>2, <1>5, <1>6 DEF Reads
<1> QED BY <1>2, <1>3, <1>4, <1>5, <1>7, <1>8, <1>9, <1>10, <1>11

-----------------------------------------------------------------------------
(* The invariant *)

(* A chunk is what was asked for; a whole file may have lost its end.      *)
Got(c, r) ==
    /\ c.range = r
    /\ r # WholeFile => c.bytes = Bytes(r.lo, r.hi)
    /\ r = WholeFile => \E k \in 0..Size : c.bytes = Bytes(0, k)

Configured == Planned /\ honours \in BOOLEAN /\ curl \in BOOLEAN

Counted ==
    /\ transport \in {"auto", "urllib", "curl"}
    /\ stalls \in 0..Retries
    /\ outcome = None => stalls < Retries
    /\ outcome \in {None, "done", "failed", "refused"}

(* The reads are done one by one, in the order of the plan.                *)
InOrder ==
    /\ todo \in Seq(Anywhere)
    /\ chunks \in Seq([range : Anywhere, bytes : Seq(Places)])
    /\ Len(todo) + Len(chunks) = Len(Reads)
    /\ \A i \in 1..Len(todo) : todo[i] = Reads[Len(chunks) + i]
    /\ \A i \in 1..Len(chunks) : Got(chunks[i], Reads[i])

(* The read under way has the beginning of its range, and not all of it.   *)
Begun ==
    /\ buf \in Seq(Places)
    /\ todo = <<>> => buf = <<>>
    /\ todo # <<>> => /\ Len(buf) < End(TheRead) - TheRead.lo
                      /\ buf = Bytes(TheRead.lo, TheRead.lo + Len(buf))

(* A server that ignores Range is found out by the header, in both modes,  *)
(* before anything it sends is kept.                                       *)
NothingKept == ~honours => chunks = <<>> /\ buf = <<>> /\ outcome # "done"

FetchInv == Configured /\ Counted /\ InOrder /\ Begun /\ NothingKept /\ Exact

LEMMA Lengths ==
    ASSUME InOrder, Begun
    PROVE  /\ Len(todo) \in Nat /\ Len(chunks) \in Nat /\ Len(buf) \in Nat
           /\ todo # <<>> => Len(todo) # 0 /\ TheRead \in Anywhere /\ TheRead = todo[1]
           /\ todo = <<>> => Len(todo) = 0
<1>1. Len(todo) \in Nat /\ Len(chunks) \in Nat /\ Len(buf) \in Nat
  BY LenProperties DEF InOrder, Begun
<1>2. todo # <<>> => Len(todo) # 0 /\ TheRead \in Anywhere /\ TheRead = todo[1]
  <2>1. SUFFICES ASSUME todo # <<>> PROVE Len(todo) # 0 /\ TheRead \in Anywhere /\ TheRead = todo[1]
    OBVIOUS
  <2>2. Head(todo) \in Anywhere
    BY <2>1, HeadTailProperties DEF InOrder
  <2>3. Len(todo) # 0
    BY <2>1, EmptySeq DEF InOrder
  <2> QED BY <2>2, <2>3 DEF TheRead
<1> QED BY <1>1, <1>2

-----------------------------------------------------------------------------
(* The first state *)

LEMMA InitFetchInv == ASSUME Init PROVE FetchInv
<1>1. Configured
  <2>1. PICK n \in 1..Len(Layout) :
            wanted \in {w \in [1..n -> Range(Layout)] : \A i \in 2..n : w[i - 1].lo < w[i].lo}
    BY DEF Init
  <2>2. wanted \in [1..n -> Range(Layout)] /\ \A i \in 2..n : wanted[i - 1].lo < wanted[i].lo
    BY <2>1
  <2>3. n \in Nat
    <3>1. Layout \in Seq([lo : Nat, hi : Nat])
      BY FetchConstantsAssumption
    <3>2. Len(Layout) \in Nat
      BY <3>1, LenProperties
    <3> QED BY <3>2
  <2>4. wanted \in [1..n -> Solid]
    BY <2>2, Tensors
  <2>5. wanted \in Seq(Solid) /\ Len(wanted) = n
    BY <2>3, <2>4
  <2> QED BY <2>2, <2>5 DEF Init, Configured, Planned, InFileOrder
<1>2. Planned
  BY <1>1 DEF Configured
<1>3. Counted
  BY Sizes DEF Init, Counted
<1>4. todo = Reads /\ chunks = <<>> /\ buf = <<>>
  BY DEF Init, Reads
<1>5. PICK r : r = Reads
  OBVIOUS
<1>6. r \in Seq(Anywhere) /\ Len(r) \in Nat /\ Len(r) # 0
  BY <1>2, <1>5, ReadsFacts, LenProperties
<1>7. InOrder
  <2>1. chunks \in Seq([range : Anywhere, bytes : Seq(Places)]) /\ Len(chunks) = 0
    BY <1>4
  <2>2. \A i \in 1..Len(todo) : todo[i] = Reads[Len(chunks) + i]
    BY <1>4, <1>5, <1>6, <2>1
  <2>3. Len(todo) + Len(chunks) = Len(Reads)
    BY <1>4, <1>5, <1>6, <2>1
  <2>4. \A i \in 1..Len(chunks) : Got(chunks[i], Reads[i])
    BY <2>1
  <2> QED BY <1>4, <1>5, <1>6, <2>1, <2>2, <2>3, <2>4 DEF InOrder
<1>8. Begun
  <2>1. buf \in Seq(Places) /\ Len(buf) = 0
    BY <1>4
  <2>2. ASSUME todo # <<>>
        PROVE  /\ Len(buf) < End(TheRead) - TheRead.lo
               /\ buf = Bytes(TheRead.lo, TheRead.lo + Len(buf))
    <3>1. TheRead \in Anywhere
      <4>1. Head(todo) \in Anywhere
        BY <1>4, <1>5, <1>6, <2>2, HeadTailProperties
      <4> QED BY <4>1 DEF TheRead
    <3>2. PICK t : t = TheRead
      OBVIOUS
    <3>3. t.lo \in Nat /\ End(t) \in Nat /\ t.lo < End(t) /\ End(t) <= Size
      BY <3>1, <3>2, Extent
    <3>4. t.lo <= Size /\ t.lo + 0 = t.lo /\ 0 < End(t) - t.lo
      BY <3>3, Sizes
    <3>5. Bytes(t.lo, t.lo) = <<>>
      BY <3>3, <3>4, NoBytes
    <3> QED BY <1>4, <2>1, <3>2, <3>4, <3>5
  <2> QED BY <1>4, <2>1, <2>2 DEF Begun
<1>9. NothingKept
  <2>1. outcome = None
    BY DEF Init
  <2> QED BY <1>4, <2>1, FetchConstantsAssumption DEF NothingKept
<1>10. Exact
  <2>1. outcome = None
    BY DEF Init
  <2> QED BY <2>1, FetchConstantsAssumption DEF Exact
<1> QED BY <1>1, <1>3, <1>7, <1>8, <1>9, <1>10 DEF FetchInv

-----------------------------------------------------------------------------
(* An answer *)

(* A server that ignores Range is refused before it can answer.            *)
LEMMA Honest == ASSUME FetchInv, Reading, ~Refuses(TheRead) PROVE honours
<1> SUFFICES ASSUME ~honours PROVE FALSE
  OBVIOUS
<1>1. chunks = <<>> /\ buf = <<>>
  BY DEF FetchInv, NothingKept
<1>2. TheRead = todo[1] /\ todo[1] = Reads[1]
  <2>1. todo # <<>> /\ InOrder /\ Begun
    BY DEF Reading, FetchInv
  <2>2. Len(todo) \in Nat /\ Len(todo) # 0 /\ TheRead = todo[1]
    BY <2>1, Lengths
  <2>3. todo[1] = Reads[Len(chunks) + 1]
    BY <2>1, <2>2 DEF InOrder
  <2>4. Len(chunks) + 1 = 1
    BY <1>1
  <2> QED BY <2>2, <2>3, <2>4
<1>3. Reads[1] = ByteRange(0, Probe)
  BY ReadsFacts DEF FetchInv, Configured
<1>4. TheRead.lo = 0 /\ TheRead.hi = Probe
  BY <1>2, <1>3 DEF ByteRange
<1>5. Probe # None
  BY Sizes, FetchConstantsAssumption
<1>6. Offset(TheRead) = 0
  BY <1>1, <1>4 DEF Offset
<1> QED BY <1>4, <1>5, <1>6 DEF Refuses

(* What came so far, with what the server answers now.                     *)
LEMMA Answer ==
    ASSUME FetchInv, NEW k \in Nat, Response(k)
    PROVE  /\ Received(k) = Bytes(TheRead.lo, TheRead.lo + Len(buf) + k)
           /\ Received(k) \in Seq(Places)
           /\ Len(Received(k)) = Len(buf) + k
           /\ TheRead.lo + Len(buf) + k <= End(TheRead)
<1>1. Reading /\ ~Refuses(TheRead) /\ k <= Len(Full(TheRead)) /\ todo # <<>>
  BY DEF Response, Reading
<1>2. honours
  BY <1>1, Honest
<1>3. InOrder /\ Begun
  BY DEF FetchInv
<1>4. PICK r : r = TheRead
  OBVIOUS
<1>5. PICK n : n = Len(buf)
  OBVIOUS
<1>6. r \in Anywhere /\ n \in Nat
  BY <1>1, <1>3, <1>4, <1>5, Lengths
<1>7. PICK hi : hi = End(r)
  OBVIOUS
<1>8. r.lo \in Nat /\ hi \in Nat /\ r.lo < hi /\ hi <= Size
  BY <1>6, <1>7, Extent
<1>9. n < hi - r.lo /\ buf = Bytes(r.lo, r.lo + n)
  BY <1>1, <1>3, <1>4, <1>5, <1>7 DEF Begun
<1>10. PICK lo \in Nat : lo = r.lo
  BY <1>8
<1>11. lo + n \in Nat /\ lo + n <= hi /\ lo + n <= Size
  BY <1>6, <1>8, <1>9, <1>10, Sizes
<1>12. Full(r) = Bytes(lo + n, hi)
  <2>1. CASE Ranged(r)
    BY <1>2, <1>5, <1>7, <1>10, <2>1 DEF Full, Offset
  <2>2. CASE ~Ranged(r)
    <3>1. r.hi = None /\ buf = <<>>
      BY <2>2 DEF Ranged
    <3>2. r = WholeFile
      BY <1>6, <3>1, Extent
    <3>3. lo = 0 /\ hi = Size /\ n = 0
      BY <1>5, <1>6, <1>7, <1>10, <3>1, <3>2, Extent
    <3>4. File = Bytes(0, Size)
      <4>1. Size \in Nat /\ \A i \in 1..Size : i - 1 \in Places
        BY Sizes DEF Places
      <4>2. File \in Seq(Places) /\ Len(File) = Size
        BY <4>1 DEF File
      <4>3. SubSeq(File, 1, Len(File)) = File
        BY <4>2, SubSeqFull
      <4> QED BY <4>2, <4>3 DEF Bytes
    <3>5. Full(r) = File
      BY <2>2 DEF Full
    <3> QED BY <3>3, <3>4, <3>5
  <2> QED BY <2>1, <2>2
<1>13. k <= hi - (lo + n)
  <2>1. Len(Bytes(lo + n, hi)) = hi - (lo + n)
    BY <1>8, <1>11, BytesFacts
  <2> QED BY <1>1, <1>4, <1>12, <2>1
<1>14. SubSeq(Full(r), 1, k) = Bytes(lo + n, lo + n + k)
  <2>1. PICK m \in Nat : m = 1
    OBVIOUS
  <2>2. PICK off \in Nat : off = lo + n
    BY <1>11
  <2>3. off <= hi /\ hi <= Size /\ k <= hi - off /\ 1 <= m /\ m <= k + 1
    BY <1>8, <1>11, <1>13, <2>1, <2>2
  <2>4. Piece(Bytes(off, hi), m, k) = Bytes(off + m - 1, off + k)
    BY <1>8, <2>3, BytesPart
  <2>5. off + m - 1 = off
    BY <2>1
  <2> QED BY <1>12, <2>1, <2>2, <2>4, <2>5 DEF Piece
<1>15. lo + n + k \in Nat /\ lo + n <= lo + n + k /\ lo + n + k <= hi /\ lo + n + k <= Size /\ lo <= lo + n
       /\ lo <= lo + n + k
  BY <1>6, <1>8, <1>10, <1>11, <1>13, Sizes
<1>16. Bytes(lo, lo + n) \o Bytes(lo + n, lo + n + k) = Bytes(lo, lo + n + k)
  BY <1>11, <1>15, BytesJoin
<1>17. Received(k) = Bytes(lo, lo + n + k)
  BY <1>4, <1>9, <1>10, <1>14, <1>16 DEF Received
<1>18. Bytes(lo, lo + n + k) \in Seq(Places) /\ Len(Bytes(lo, lo + n + k)) = (lo + n + k) - lo
  BY <1>15, BytesFacts
<1>19. (lo + n + k) - lo = n + k
  BY <1>6
<1> QED BY <1>4, <1>5, <1>7, <1>10, <1>15, <1>17, <1>18, <1>19

-----------------------------------------------------------------------------
(* The steps *)

LEMMA SameConfig ==
    ASSUME Configured, UNCHANGED config
    PROVE  Configured' /\ Reads' = Reads /\ BodyReads' = BodyReads
<1>1. mode' = mode /\ wanted' = wanted /\ honours' = honours /\ curl' = curl
  BY DEF config
<1>2. BodyReads' = BodyReads
  BY <1>1 DEF BodyReads
<1>3. Reads' = Reads
  BY <1>2 DEF Reads, HeaderReads
<1>4. InFileOrder(wanted)'
  <2>1. InFileOrder(wanted)
    BY DEF Configured, Planned
  <2>2. InFileOrder(wanted') = InFileOrder(wanted)
    BY <1>1
  <2> QED BY <2>1, <2>2
<1>5. mode' \in {"slice", "shard"} /\ honours' \in BOOLEAN /\ curl' \in BOOLEAN
  BY <1>1 DEF Configured, Planned
<1> QED BY <1>2, <1>3, <1>4, <1>5 DEF Configured, Planned

(* Nothing that came is touched.                                           *)
LEMMA KeepsReads ==
    ASSUME FetchInv, UNCHANGED <<config, todo, chunks, written>>
    PROVE  Configured' /\ InOrder'
<1>1. Configured' /\ Reads' = Reads
  BY SameConfig DEF FetchInv
<1>2. todo' = todo /\ chunks' = chunks
  OBVIOUS
<1>3. InOrder'
  <2>1. \A i \in 1..Len(todo) : todo[i] = Reads[Len(chunks) + i]
    BY DEF FetchInv, InOrder
  <2>2. \A i \in 1..Len(chunks) : Got(chunks[i], Reads[i])
    BY DEF FetchInv, InOrder
  <2>3. \A i \in 1..Len(todo') : todo'[i] = Reads'[Len(chunks') + i]
    BY <1>1, <1>2, <2>1
  <2>4. \A i \in 1..Len(chunks') : Got(chunks'[i], Reads'[i])
    BY <1>1, <1>2, <2>2
  <2>5. todo' \in Seq(Anywhere) /\ chunks' \in Seq([range : Anywhere, bytes : Seq(Places)])
        /\ Len(todo') + Len(chunks') = Len(Reads')
    BY <1>1, <1>2 DEF FetchInv, InOrder
  <2> QED BY <2>3, <2>4, <2>5 DEF InOrder
<1> QED BY <1>1, <1>3

LEMMA KeepsBuf ==
    ASSUME FetchInv, UNCHANGED <<todo, buf>>
    PROVE  Begun'
<1>1. todo' = todo /\ buf' = buf /\ TheRead' = TheRead
  BY DEF TheRead
<1>2. Begun
  BY DEF FetchInv
<1> QED BY <1>1, <1>2 DEF Begun, End

(* A fetch that has not ended has promised nothing.                        *)
LEMMA NotDone ==
    ASSUME outcome' # "done"
    PROVE  Exact'
  BY DEF Exact

LEMMA Outcomes == None # "done" /\ None # "failed" /\ None # "refused"
  BY FetchConstantsAssumption

LEMMA RefusedStep == ASSUME FetchInv, Refused PROVE FetchInv'
<1>1. UNCHANGED <<config, transport, todo, buf, stalls, chunks, written>> /\ outcome' = "refused"
  BY DEF Refused
<1>2. Configured' /\ InOrder' /\ Begun'
  BY <1>1, KeepsReads, KeepsBuf
<1>3. Counted'
  BY <1>1, Outcomes DEF FetchInv, Counted
<1>4. NothingKept' /\ Exact'
  BY <1>1, NotDone DEF FetchInv, NothingKept, config
<1> QED BY <1>2, <1>3, <1>4 DEF FetchInv

LEMMA SwitchToCurlStep == ASSUME FetchInv, SwitchToCurl PROVE FetchInv'
<1>1. UNCHANGED <<config, todo, buf, stalls, chunks, written, outcome>> /\ transport' = "curl" /\ outcome = None
  BY DEF SwitchToCurl, Reading
<1>2. Configured' /\ InOrder' /\ Begun'
  BY <1>1, KeepsReads, KeepsBuf
<1>3. Counted'
  BY <1>1 DEF FetchInv, Counted
<1>4. NothingKept' /\ Exact'
  BY <1>1, NotDone, Outcomes DEF FetchInv, NothingKept, config
<1> QED BY <1>2, <1>3, <1>4 DEF FetchInv

LEMMA DroppedStep == ASSUME FetchInv, Dropped PROVE FetchInv'
<1>1. /\ UNCHANGED <<config, transport, todo, buf, chunks, written>> /\ outcome = None
      /\ stalls' = stalls + 1 /\ outcome' = IF GivesUp(stalls') THEN "failed" ELSE outcome
  BY DEF Dropped, Reading
<1>2. Configured' /\ InOrder' /\ Begun'
  BY <1>1, KeepsReads, KeepsBuf
<1>3. Counted'
  <2>1. stalls \in 0..Retries /\ stalls < Retries
    BY <1>1 DEF FetchInv, Counted
  <2>2. stalls' \in 0..Retries
    BY <1>1, <2>1, Sizes
  <2>3. outcome' = None => stalls' < Retries
    <3>1. CASE GivesUp(stalls')
      BY <1>1, <3>1, Outcomes
    <3>2. CASE ~GivesUp(stalls')
      BY <2>2, <3>2, Sizes DEF GivesUp
    <3> QED BY <3>1, <3>2
  <2> QED BY <1>1, <2>2, <2>3 DEF FetchInv, Counted
<1>4. outcome' # "done"
  BY <1>1, Outcomes
<1>5. NothingKept' /\ Exact'
  BY <1>1, <1>4, NotDone DEF FetchInv, NothingKept, config
<1> QED BY <1>2, <1>3, <1>5 DEF FetchInv

LEMMA EscapesStep == ASSUME FetchInv, Escapes PROVE FetchInv'
<1>1. UNCHANGED <<config, transport, todo, buf, stalls, chunks, written>> /\ outcome' = "failed"
  BY DEF Escapes
<1>2. Configured' /\ InOrder' /\ Begun'
  BY <1>1, KeepsReads, KeepsBuf
<1>3. Counted'
  BY <1>1, Outcomes DEF FetchInv, Counted
<1>4. NothingKept' /\ Exact'
  BY <1>1, NotDone DEF FetchInv, NothingKept, config
<1> QED BY <1>2, <1>3, <1>4 DEF FetchInv

LEMMA EmptyStep == ASSUME FetchInv, Empty PROVE FetchInv'
<1>1. /\ UNCHANGED <<config, transport, todo, buf, chunks, written, outcome>> /\ outcome = None
      /\ stalls' = stalls + 1 /\ ~GivesUp(stalls + 1)
  BY DEF Empty, Response, Reading, AnswerStalls
<1>2. Configured' /\ InOrder' /\ Begun'
  BY <1>1, KeepsReads, KeepsBuf
<1>3. Counted'
  BY <1>1, Sizes DEF FetchInv, Counted, GivesUp
<1>4. NothingKept' /\ Exact'
  BY <1>1, NotDone, Outcomes DEF FetchInv, NothingKept, config
<1> QED BY <1>2, <1>3, <1>4 DEF FetchInv

LEMMA EmptyFailsStep == ASSUME FetchInv, EmptyFails PROVE FetchInv'
<1>1. UNCHANGED <<config, transport, todo, buf, stalls, chunks, written>> /\ outcome' = "failed"
  BY DEF EmptyFails
<1>2. Configured' /\ InOrder' /\ Begun'
  BY <1>1, KeepsReads, KeepsBuf
<1>3. Counted'
  BY <1>1, Outcomes DEF FetchInv, Counted
<1>4. NothingKept' /\ Exact'
  BY <1>1, NotDone DEF FetchInv, NothingKept, config
<1> QED BY <1>2, <1>3, <1>4 DEF FetchInv

LEMMA ProgressStep == ASSUME FetchInv, NEW k \in Nat, Progress(k) PROVE FetchInv'
<1>1. /\ Response(k) /\ ~Enough(Received(k)) /\ buf' = Received(k) /\ stalls' = 0 /\ outcome = None /\ todo # <<>>
      /\ UNCHANGED <<config, transport, todo, chunks, written, outcome>>
  BY DEF Progress, Response, Reading
<1>2. Configured' /\ InOrder'
  BY <1>1, KeepsReads
<1>3. honours
  BY <1>1, Honest DEF Response
<1>4. Begun'
  <2>1. PICK r : r = TheRead
    OBVIOUS
  <2>2. TheRead' = r
    BY <1>1, <2>1 DEF TheRead
  <2>3. PICK b : b = Received(k)
    OBVIOUS
  <2>4. b = Bytes(r.lo, r.lo + Len(buf) + k) /\ b \in Seq(Places) /\ Len(b) = Len(buf) + k
    BY <1>1, <2>1, <2>3, Answer
  <2>5. ~(Len(b) >= End(r) - r.lo)
    BY <1>1, <2>1, <2>3 DEF Enough
  <2>6. r \in Anywhere /\ Len(buf) \in Nat
    BY <1>1, <2>1, Lengths DEF FetchInv
  <2>7. r.lo \in Nat /\ End(r) \in Nat
    BY <2>6, Extent
  <2>8. Len(b) < End(r) - r.lo /\ r.lo + Len(b) = r.lo + Len(buf) + k
    BY <2>4, <2>5, <2>6, <2>7
  <2>9. buf' = b /\ todo' # <<>> /\ End(TheRead)' = End(r)
    BY <1>1, <2>2, <2>3 DEF End
  <2>10. b = Bytes(r.lo, r.lo + Len(b))
    BY <2>4, <2>8
  <2> QED BY <2>2, <2>4, <2>8, <2>9, <2>10 DEF Begun
<1>5. Counted'
  BY <1>1, Sizes DEF FetchInv, Counted
<1>6. NothingKept' /\ Exact'
  BY <1>1, <1>3, NotDone, Outcomes DEF FetchInv, NothingKept, config
<1> QED BY <1>2, <1>4, <1>5, <1>6 DEF FetchInv

LEMMA ConcatTail ==
    ASSUME NEW S, NEW s \in Seq(S), s # <<>>, NEW T, NEW c \in Seq(T), NEW e \in T,
           NEW r, \A i \in 1..Len(s) : s[i] = r[Len(c) + i], NEW n, Len(s) + Len(c) = n
    PROVE  /\ Tail(s) \in Seq(S) /\ Append(c, e) \in Seq(T)
           /\ Len(Tail(s)) + Len(Append(c, e)) = n
           /\ \A i \in 1..Len(Tail(s)) : Tail(s)[i] = r[Len(Append(c, e)) + i]
<1>1. PICK t : t = Tail(s)
  OBVIOUS
<1>2. PICK d : d = Append(c, e)
  OBVIOUS
<1>3. t \in Seq(S) /\ Len(t) = Len(s) - 1 /\ \A i \in 1..Len(t) : t[i] = s[i + 1]
  BY <1>1, HeadTailProperties
<1>4. d \in Seq(T) /\ Len(d) = Len(c) + 1
  BY <1>2, AppendProperties
<1>5. Len(s) \in Nat /\ Len(c) \in Nat /\ Len(t) \in Nat
  BY <1>3, LenProperties
<1>6. ASSUME NEW i \in 1..Len(t) PROVE t[i] = r[Len(d) + i]
  <2>1. i + 1 \in 1..Len(s) /\ Len(c) + (i + 1) = Len(d) + i
    BY <1>3, <1>4, <1>5
  <2>2. s[i + 1] = r[Len(c) + (i + 1)]
    BY <2>1
  <2> QED BY <1>3, <2>1, <2>2
<1> QED BY <1>1, <1>2, <1>3, <1>4, <1>5, <1>6

(* A read that ends.                                                       *)
LEMMA EndReadStep ==
    ASSUME FetchInv, Reading, honours, NEW bytes \in Seq(Places), EndRead(bytes),
           Got([range |-> TheRead, bytes |-> bytes], TheRead)
    PROVE  FetchInv'
<1>1. PICK c : c = [range |-> TheRead, bytes |-> bytes]
  OBVIOUS
<1>2. /\ UNCHANGED <<config, transport, written, outcome>> /\ outcome = None /\ todo # <<>>
      /\ chunks' = Append(chunks, c) /\ todo' = Tail(todo) /\ buf' = <<>> /\ stalls' = 0
  BY <1>1 DEF EndRead, Reading
<1>3. Configured' /\ Reads' = Reads
  BY <1>2, SameConfig DEF FetchInv
<1>4. /\ todo \in Seq(Anywhere) /\ chunks \in Seq([range : Anywhere, bytes : Seq(Places)])
      /\ Len(todo) + Len(chunks) = Len(Reads)
      /\ \A i \in 1..Len(todo) : todo[i] = Reads[Len(chunks) + i]
      /\ \A i \in 1..Len(chunks) : Got(chunks[i], Reads[i])
  BY DEF FetchInv, InOrder
<1>5. /\ Len(todo) \in Nat /\ Len(todo) # 0 /\ Len(chunks) \in Nat
      /\ TheRead \in Anywhere /\ TheRead = todo[1]
  BY <1>2, Lengths DEF FetchInv
<1>6. c \in [range : Anywhere, bytes : Seq(Places)]
  BY <1>1, <1>5
<1>7. PICK t : t = Tail(todo)
  OBVIOUS
<1>8. PICK d : d = Append(chunks, c)
  OBVIOUS
<1>9. PICK r : r = Reads
  OBVIOUS
<1>10. PICK n : n = Len(Reads)
  OBVIOUS
<1>11. /\ t \in Seq(Anywhere) /\ d \in Seq([range : Anywhere, bytes : Seq(Places)])
       /\ Len(t) + Len(d) = n
       /\ \A i \in 1..Len(t) : t[i] = r[Len(d) + i]
  <2>1. \A i \in 1..Len(todo) : todo[i] = r[Len(chunks) + i]
    BY <1>4, <1>9
  <2>2. Len(todo) + Len(chunks) = n
    BY <1>4, <1>10
  <2> QED BY <1>2, <1>4, <1>6, <1>7, <1>8, <2>1, <2>2, ConcatTail
<1>12. ASSUME NEW i \in 1..Len(d) PROVE Got(d[i], r[i])
  <2>1. /\ Len(d) = Len(chunks) + 1 /\ d[Len(chunks) + 1] = c
        /\ \A j \in 1..Len(chunks) : d[j] = chunks[j]
    BY <1>4, <1>6, <1>8, AppendProperties
  <2>2. CASE i \in 1..Len(chunks)
    BY <1>4, <1>9, <2>1, <2>2
  <2>3. CASE i = Len(chunks) + 1
    <3>1. TheRead = r[Len(chunks) + 1]
      BY <1>4, <1>5, <1>9
    <3>2. Got(c, TheRead)
      BY <1>1
    <3> QED BY <2>1, <2>3, <3>1, <3>2
  <2> QED BY <1>5, <2>1, <2>2, <2>3
<1>13. todo' = t /\ chunks' = d /\ Reads' = r
  BY <1>2, <1>3, <1>7, <1>8, <1>9
<1>14. InOrder'
  <2>1. \A i \in 1..Len(todo') : todo'[i] = Reads'[Len(chunks') + i]
    BY <1>11, <1>13
  <2>2. \A i \in 1..Len(chunks') : Got(chunks'[i], Reads'[i])
    BY <1>12, <1>13
  <2>3. Len(todo') + Len(chunks') = Len(Reads')
    BY <1>9, <1>10, <1>11, <1>13
  <2> QED BY <1>11, <1>13, <2>1, <2>2, <2>3 DEF InOrder
<1>15. Begun'
  <2>1. buf' \in Seq(Places) /\ Len(buf') = 0
    BY <1>2
  <2>2. ASSUME todo' # <<>>
        PROVE  /\ Len(buf') < End(TheRead)' - TheRead'.lo
               /\ buf' = Bytes(TheRead'.lo, TheRead'.lo + Len(buf'))
    <3>1. PICK h : h = Head(t)
      OBVIOUS
    <3>2. h \in Anywhere
      BY <1>11, <1>13, <2>2, <3>1, HeadTailProperties
    <3>3. TheRead' = h
      BY <1>13, <3>1 DEF TheRead
    <3>4. End(TheRead)' = End(h)
      BY <3>3 DEF End
    <3>5. h.lo \in Nat /\ End(h) \in Nat /\ h.lo < End(h) /\ End(h) <= Size
      BY <3>2, Extent
    <3>6. h.lo <= Size /\ h.lo + 0 = h.lo /\ 0 < End(h) - h.lo
      BY <3>5, Sizes
    <3>7. Bytes(h.lo, h.lo) = <<>>
      BY <3>5, <3>6, NoBytes
    <3> QED BY <1>2, <2>1, <3>3, <3>4, <3>6, <3>7
  <2> QED BY <1>2, <2>1, <2>2 DEF Begun
<1>16. Counted'
  BY <1>2, Sizes DEF FetchInv, Counted
<1>17. NothingKept' /\ Exact'
  BY <1>2, NotDone, Outcomes DEF FetchInv, NothingKept, config
<1> QED BY <1>3, <1>14, <1>15, <1>16, <1>17 DEF FetchInv

LEMMA CompleteStep == ASSUME FetchInv, NEW k \in Nat, Complete(k) PROVE FetchInv'
<1>1. PICK r : r = TheRead
  OBVIOUS
<1>2. PICK b : b = Received(k)
  OBVIOUS
<1>3. PICK hi : hi = End(r)
  OBVIOUS
<1>4. Response(k) /\ Enough(b) /\ EndRead(SubSeq(b, 1, hi - r.lo)) /\ Reading /\ todo # <<>>
  BY <1>1, <1>2, <1>3 DEF Complete, Response, Reading
<1>5. honours
  BY <1>4, Honest DEF Response
<1>6. r \in Anywhere /\ Len(buf) \in Nat
  BY <1>1, <1>4, Lengths DEF FetchInv
<1>7. PICK lo \in Nat : lo = r.lo
  BY <1>6, Extent
<1>8. hi \in Nat /\ lo < hi /\ hi <= Size /\ (r # WholeFile => hi = r.hi) /\ (r = WholeFile => lo = 0)
  BY <1>3, <1>6, <1>7, Extent
<1>9. b = Bytes(lo, lo + Len(buf) + k) /\ Len(b) = Len(buf) + k /\ lo + Len(buf) + k <= hi
  BY <1>1, <1>2, <1>3, <1>4, <1>7, Answer
<1>10. Len(b) >= hi - lo
  BY <1>1, <1>3, <1>4, <1>7 DEF Enough
<1>11. lo + Len(buf) + k = hi
  BY <1>6, <1>8, <1>9, <1>10
<1>12. b = Bytes(lo, hi) /\ b \in Seq(Places) /\ Len(b) = hi - lo
  <2>1. b = Bytes(lo, hi)
    BY <1>9, <1>11
  <2>2. lo <= hi
    BY <1>8
  <2>3. Bytes(lo, hi) \in Seq(Places) /\ Len(Bytes(lo, hi)) = hi - lo
    BY <1>8, <2>2, BytesFacts
  <2> QED BY <2>1, <2>3
<1>13. SubSeq(b, 1, hi - lo) = b
  <2>1. SubSeq(b, 1, Len(b)) = b
    BY <1>12, SubSeqFull
  <2> QED BY <1>12, <2>1
<1>14. EndRead(b)
  BY <1>4, <1>7, <1>13
<1>15. Got([range |-> r, bytes |-> b], r)
  <2>1. PICK c : c = [range |-> r, bytes |-> b]
    OBVIOUS
  <2>2. c.range = r /\ c.bytes = Bytes(lo, hi)
    BY <1>12, <2>1
  <2>3. r = WholeFile => hi \in 0..Size /\ c.bytes = Bytes(0, hi)
    BY <1>8, <2>2, Sizes
  <2> QED BY <1>7, <1>8, <2>1, <2>2, <2>3 DEF Got
<1>16. Got([range |-> TheRead, bytes |-> b], TheRead)
  BY <1>1, <1>15
<1> QED BY <1>4, <1>5, <1>12, <1>14, <1>16, EndReadStep

LEMMA EmptySettlesStep == ASSUME FetchInv, EmptySettles PROVE FetchInv'
<1>1. Response(0) /\ Reading /\ todo # <<>> /\ TheRead = WholeFile /\ EndRead(buf)
  BY DEF EmptySettles, Response, Reading
<1>2. honours
  BY <1>1, Honest DEF Response
<1>3. PICK n : n = Len(buf)
  OBVIOUS
<1>4. TheRead \in Anywhere /\ n \in Nat
  BY <1>1, <1>3, Lengths DEF FetchInv
<1>5. TheRead.lo = 0 /\ End(TheRead) = Size /\ Size \in Nat
  BY <1>1, <1>4, Extent, Sizes
<1>6. buf \in Seq(Places) /\ n < Size - 0 /\ buf = Bytes(0, 0 + n)
  BY <1>1, <1>3, <1>5 DEF FetchInv, Begun
<1>7. n \in 0..Size /\ buf = Bytes(0, n)
  BY <1>4, <1>5, <1>6
<1>8. Got([range |-> TheRead, bytes |-> buf], TheRead)
  <2>1. PICK c : c = [range |-> TheRead, bytes |-> buf]
    OBVIOUS
  <2>2. c.range = TheRead /\ c.bytes = buf
    BY <2>1
  <2> QED BY <1>1, <1>7, <2>1, <2>2 DEF Got
<1> QED BY <1>1, <1>2, <1>6, <1>8, EndReadStep

-----------------------------------------------------------------------------
(* What is written *)

(* Each tensor is cut out of a range that holds it.                        *)
LEMMA CutIs ==
    ASSUME FetchInv, todo = <<>>, mode # "shard", NEW x \in DOMAIN wanted
    PROVE  Cut(wanted[x]) = Bytes(wanted[x].lo, wanted[x].hi)
<1>1. Planned /\ InFileOrder(wanted) /\ InOrder /\ Begun
  BY DEF FetchInv, Configured, Planned
<1>2. PICK p : p = Coalesce(wanted)
  OBVIOUS
<1>3. BodyReads = p
  BY <1>2 DEF BodyReads
<1>4. p \in Seq(Solid) /\ \A i \in DOMAIN wanted : \E j \in DOMAIN p : Around(p[j], wanted[i])
  BY <1>1, <1>2, CoalesceCovers
<1>5. PICK q : q = Reads
  OBVIOUS
<1>6. Len(q) = 2 + Len(p) /\ Len(p) \in Nat /\ Len(HeaderReads) = 2 /\ \A i \in 1..Len(p) : q[i + 2] = p[i]
  BY <1>1, <1>3, <1>5, ReadsFacts
<1>7. PICK c : c = chunks
  OBVIOUS
<1>8. PICK n : n = Len(p)
  OBVIOUS
<1>9. Len(c) = n + 2 /\ \A i \in 1..(n + 2) : Got(c[i], q[i])
  <2>1. Len(todo) = 0 /\ Len(chunks) \in Nat
    BY <1>1, Lengths
  <2>2. Len(c) = n + 2
    BY <1>1, <1>5, <1>6, <1>7, <1>8, <2>1 DEF InOrder
  <2> QED BY <1>1, <1>5, <1>7, <2>2 DEF InOrder
<1>10. PICK b : b = BodyChunks
  OBVIOUS
<1>11. /\ b \in Seq([range : Anywhere, bytes : Seq(Places)]) /\ Len(b) = n
       /\ \A i \in 1..n : b[i] = c[i + 2]
  <2>1. b = SubSeq(c, 3, n + 2)
    BY <1>6, <1>7, <1>9, <1>10 DEF BodyChunks
  <2>2. c \in Seq([range : Anywhere, bytes : Seq(Places)])
    BY <1>1, <1>7 DEF InOrder
  <2>3. \A i \in 3..(n + 2) : c[i] \in [range : Anywhere, bytes : Seq(Places)]
    <3>1. \A i \in 3..(n + 2) : i \in 1..Len(c)
      BY <1>6, <1>8, <1>9
    <3> QED BY <2>2, <3>1, ElementOfSeq
  <2>4. n \in Nat /\ 3 \in Int /\ n + 2 \in Int /\ (n + 2) - 3 + 1 = n
    BY <1>6, <1>8
  <2>5. PICK s : s = SubSeq(c, 3, n + 2)
    OBVIOUS
  <2>6. /\ s \in Seq([range : Anywhere, bytes : Seq(Places)])
        /\ Len(s) = IF 3 <= n + 2 THEN (n + 2) - 3 + 1 ELSE 0
        /\ \A i \in 1..((n + 2) - 3 + 1) : s[i] = c[3 + i - 1]
    BY <2>3, <2>4, <2>5, SubSeqProperties
  <2>7. Len(s) = n
    BY <2>4, <2>6
  <2>8. ASSUME NEW i \in 1..n PROVE s[i] = c[i + 2]
    <3>1. i \in 1..((n + 2) - 3 + 1) /\ 3 + i - 1 = i + 2
      BY <2>4
    <3> QED BY <2>6, <3>1
  <2> QED BY <2>1, <2>5, <2>6, <2>7, <2>8
<1>12. PICK t : t = wanted[x]
  OBVIOUS
<1>13. t \in Solid
  BY <1>1, <1>12, ElementOfSeq, LenProperties DEF InFileOrder
<1>14. PICK I : I = {i \in 1..Len(b) : b[i].range.lo <= t.lo /\ t.hi <= b[i].range.hi}
  OBVIOUS
<1>15. ASSUME NEW i \in 1..n
       PROVE  b[i].range = p[i] /\ p[i] \in Solid /\ b[i].bytes = Bytes(p[i].lo, p[i].hi)
  <2>1. i + 2 \in 1..(n + 2)
    BY <1>6, <1>8
  <2>2. Got(c[i + 2], q[i + 2])
    BY <1>9, <2>1
  <2>3. c[i + 2] = b[i] /\ q[i + 2] = p[i]
    BY <1>6, <1>8, <1>11
  <2>4. p[i] \in Solid
    BY <1>4, <1>8, ElementOfSeq
  <2>5. p[i] # WholeFile
    <3>1. p[i] \in Anywhere /\ p[i].hi \in Nat
      BY <2>4 DEF Anywhere, Solid
    <3> QED BY <3>1, FetchConstantsAssumption DEF WholeFile, ByteRange
  <2> QED BY <2>2, <2>3, <2>4, <2>5 DEF Got
<1>16. I # {}
  <2>1. PICK j \in DOMAIN p : Around(p[j], t)
    BY <1>4, <1>12
  <2>2. j \in 1..n
    BY <1>4, <1>8, <2>1, LenProperties
  <2>3. b[j].range = p[j]
    BY <1>15, <2>2
  <2>4. j \in 1..Len(b) /\ b[j].range.lo <= t.lo /\ t.hi <= b[j].range.hi
    BY <1>11, <2>1, <2>2, <2>3 DEF Around
  <2> QED BY <1>14, <2>4
<1>17. I \in SUBSET Nat
  BY <1>14
<1>18. PICK m : m = Min(I)
  OBVIOUS
<1>19. m \in I
  <2>1. \E y \in I : \A z \in I : y <= z
    BY <1>16, <1>17, LeastElement
  <2> QED BY <1>18, <2>1 DEF Min
<1>20. m \in 1..n /\ b[m].range.lo <= t.lo /\ t.hi <= b[m].range.hi
  BY <1>11, <1>14, <1>19
<1>21. Source(t) = b[m]
  <2>1. SelectInSeq(b, LAMBDA e : e.range.lo <= t.lo /\ t.hi <= e.range.hi) = m
    BY <1>14, <1>16, <1>18 DEF SelectInSeq
  <2> QED BY <1>10, <2>1 DEF Source
<1>22. PICK r : r = p[m]
  OBVIOUS
<1>23. r \in Solid /\ b[m].range = r /\ b[m].bytes = Bytes(r.lo, r.hi) /\ r.lo <= t.lo /\ t.hi <= r.hi
  BY <1>15, <1>20, <1>22
<1>24. PICK lo \in Nat : lo = r.lo
  BY <1>23 DEF Solid
<1>25. PICK hi \in Nat : hi = r.hi
  BY <1>23 DEF Solid
<1>26. PICK a \in Nat : a = t.lo
  BY <1>13 DEF Solid
<1>27. PICK z \in Nat : z = t.hi
  BY <1>13 DEF Solid
<1>28. lo <= a /\ a < z /\ z <= hi /\ hi <= Size
  BY <1>13, <1>23, <1>24, <1>25, <1>26, <1>27 DEF Solid
<1>29. PICK from \in Nat : from = a - lo + 1
  BY <1>28
<1>30. PICK to \in Nat : to = z - lo
  BY <1>28
<1>31. lo <= hi /\ 1 <= from /\ from <= to + 1 /\ to <= hi - lo
  BY <1>28, <1>29, <1>30
<1>32. Piece(Bytes(lo, hi), from, to) = Bytes(lo + from - 1, lo + to)
  BY <1>28, <1>31, BytesPart
<1>33. lo + from - 1 = a /\ lo + to = z
  BY <1>29, <1>30
<1>34. Cut(t) = Piece(Bytes(lo, hi), from, to)
  BY <1>21, <1>23, <1>24, <1>25, <1>26, <1>27, <1>29, <1>30 DEF Cut, Piece
<1> QED BY <1>12, <1>26, <1>27, <1>32, <1>33, <1>34

(* The whole file, but perhaps for its end.                                *)
LEMMA WholeIs ==
    ASSUME FetchInv, todo = <<>>, mode = "shard"
    PROVE  IsPrefix(Last(chunks).bytes, File)
<1>1. Planned /\ InOrder /\ Begun
  BY DEF FetchInv, Configured
<1>2. BodyReads = <<WholeFile>>
  BY DEF BodyReads
<1>3. PICK q : q = Reads
  OBVIOUS
<1>4. Len(q) = 3 /\ q[3] = WholeFile
  <2>1. Len(BodyReads) = 1 /\ BodyReads[1] = WholeFile
    BY <1>2
  <2>2. /\ Len(Reads) = 2 + Len(BodyReads)
        /\ \A i \in 1..Len(BodyReads) : Reads[i + 2] = BodyReads[i]
    BY <1>1, ReadsFacts
  <2>3. Reads[1 + 2] = BodyReads[1]
    BY <2>1, <2>2
  <2> QED BY <1>3, <2>1, <2>2, <2>3
<1>5. Len(chunks) = 3
  <2>1. Len(todo) = 0 /\ Len(chunks) \in Nat
    BY <1>1, Lengths
  <2> QED BY <1>1, <1>3, <1>4, <2>1 DEF InOrder
<1>6. Got(chunks[3], WholeFile)
  BY <1>1, <1>3, <1>4, <1>5 DEF InOrder
<1>7. PICK k \in 0..Size : chunks[3].bytes = Bytes(0, k)
  BY <1>6 DEF Got
<1>8. PICK s : s = Last(chunks).bytes
  OBVIOUS
<1>9. s = Bytes(0, k)
  BY <1>5, <1>7, <1>8 DEF Last
<1>10. Size \in Nat /\ k \in Nat /\ k <= Size
  BY Sizes
<1>11. s \in Seq(Places) /\ Len(s) = k
  <2>1. 0 \in Nat /\ 0 <= k /\ k - 0 = k
    BY <1>10
  <2> QED BY <1>9, <1>10, <2>1, BytesFacts
<1>12. SubSeq(s, 1, k) = s
  BY <1>11, SubSeqFull
<1>13. SubSeq(File, 1, k) = s
  BY <1>9 DEF Bytes
<1>14. Len(File) = Size
  BY <1>10 DEF File
<1> QED BY <1>8, <1>10, <1>11, <1>12, <1>13, <1>14 DEF IsPrefix

LEMMA WriteStep == ASSUME FetchInv, Write PROVE FetchInv'
<1>1. UNCHANGED <<config, transport, todo, buf, stalls, chunks>> /\ outcome = None /\ todo = <<>>
  BY DEF Write
<1>2. Configured'
  BY <1>1, SameConfig DEF FetchInv
<1>3. InOrder'
  <2>1. todo' = todo /\ chunks' = chunks /\ Reads' = Reads
    BY <1>1, SameConfig DEF FetchInv
  <2>2. InOrder
    BY DEF FetchInv
  <2> QED BY <2>1, <2>2 DEF InOrder
<1>4. Begun'
  BY <1>1, KeepsBuf
<1>5. outcome' \in {"failed", "done"}
  BY DEF Write
<1>6. Counted'
  BY <1>1, <1>5, Outcomes DEF FetchInv, Counted
<1>7. honours
  <2>1. SUFFICES ASSUME ~honours PROVE FALSE
    OBVIOUS
  <2>2. chunks = <<>>
    BY <2>1 DEF FetchInv, NothingKept
  <2>3. Len(chunks) = 0 /\ Len(todo) = 0
    BY <1>1, <2>2
  <2>4. Len(Reads) = 0
    BY <2>3 DEF FetchInv, InOrder
  <2>5. Len(Reads) = 2 + Len(BodyReads) /\ Len(BodyReads) \in Nat
    BY ReadsFacts DEF FetchInv, Configured
  <2> QED BY <2>4, <2>5
<1>8. NothingKept'
  BY <1>1, <1>7 DEF NothingKept, config
<1>9. Exact'
  <2>1. mode' = mode /\ wanted' = wanted
    BY <1>1 DEF config
  <2>2. CASE mode = "shard"
    <3>1. written' = Last(chunks).bytes
      BY <2>2 DEF Write
    <3>2. IsPrefix(written', File)
      BY <1>1, <2>2, <3>1, WholeIs
    <3> QED BY <2>1, <2>2, <3>2 DEF Exact
  <2>3. CASE mode # "shard"
    <3>1. written' = [i \in DOMAIN wanted |-> Cut(wanted[i])]
      BY <2>3 DEF Write
    <3>2. \A i \in DOMAIN wanted : Cut(wanted[i]) = Bytes(wanted[i].lo, wanted[i].hi)
      BY <1>1, <2>3, CutIs
    <3>3. written' = [i \in DOMAIN wanted |-> Bytes(wanted[i].lo, wanted[i].hi)]
      BY <3>1, <3>2
    <3> QED BY <2>1, <2>3, <3>3 DEF Exact
  <2> QED BY <2>2, <2>3
<1> QED BY <1>2, <1>3, <1>4, <1>6, <1>8, <1>9 DEF FetchInv

LEMMA StutterStep == ASSUME FetchInv, UNCHANGED vars PROVE FetchInv'
<1>1. /\ UNCHANGED <<config, todo, chunks, written>> /\ UNCHANGED <<todo, buf>>
      /\ UNCHANGED <<transport, stalls, outcome>>
  BY DEF vars
<1>2. Configured' /\ InOrder' /\ Begun'
  BY <1>1, KeepsReads, KeepsBuf
<1>3. Counted' /\ NothingKept'
  BY <1>1 DEF FetchInv, Counted, NothingKept, config
<1>4. mode' = mode /\ wanted' = wanted /\ written' = written /\ outcome' = outcome
  BY <1>1 DEF config
<1>5. Exact'
  BY <1>4 DEF FetchInv, Exact
<1> QED BY <1>2, <1>3, <1>5 DEF FetchInv

LEMMA FetchStep == ASSUME FetchInv, [Next]_vars PROVE FetchInv'
<1>1. ASSUME NEW k \in 0..Size, Complete(k) \/ Progress(k) PROVE FetchInv'
  <2>1. k \in Nat
    BY Sizes
  <2> QED BY <1>1, <2>1, CompleteStep, ProgressStep
<1>2. CASE UNCHANGED vars
  BY <1>2, StutterStep
<1>3. CASE Refused
  BY <1>3, RefusedStep
<1>4. CASE SwitchToCurl
  BY <1>4, SwitchToCurlStep
<1>5. CASE Dropped
  BY <1>5, DroppedStep
<1>6. CASE Escapes
  BY <1>6, EscapesStep
<1>7. CASE Empty
  BY <1>7, EmptyStep
<1>8. CASE EmptyFails
  BY <1>8, EmptyFailsStep
<1>9. CASE EmptySettles
  BY <1>9, EmptySettlesStep
<1>10. CASE Write
  BY <1>10, WriteStep
<1> QED BY <1>1, <1>2, <1>3, <1>4, <1>5, <1>6, <1>7, <1>8, <1>9, <1>10 DEF Next

-----------------------------------------------------------------------------
(* The theorems *)

LEMMA Invariance == Spec => []FetchInv
<1>1. Init => FetchInv
  BY InitFetchInv
<1>2. FetchInv /\ [Next]_vars => FetchInv'
  BY FetchStep
<1> QED BY <1>1, <1>2, PTL DEF Spec

(* Every variable keeps its type, no read is made more often than Retries  *)
(* allows, and none is forgotten.                                          *)
THEOREM TypeCorrect == Spec => []TypeOK
<1>1. FetchInv => TypeOK
  <2> SUFFICES ASSUME FetchInv PROVE TypeOK
    OBVIOUS
  <2>1. \A i \in DOMAIN buf : buf[i] \in 0..(Size - 1)
    <3>1. buf \in Seq(Places)
      BY DEF FetchInv, Begun
    <3> QED BY <3>1, ElementOfSeq, LenProperties DEF Places
  <2>2. Len(todo) + Len(chunks) = Len(HeaderReads) + Len(BodyReads)
    <3>1. Len(HeaderReads) = 2 /\ Len(Reads) = 2 + Len(BodyReads)
      BY ReadsFacts DEF FetchInv, Configured
    <3> QED BY <3>1 DEF FetchInv, InOrder
  <2> QED BY <2>1, <2>2 DEF FetchInv, Counted, TypeOK
<1> QED BY <1>1, Invariance, PTL

(* What has come of a read is the beginning of its range, byte for byte,   *)
(* whatever was dropped, cut or answered empty before.                     *)
THEOREM ReadsStitched == Spec => []Stitched
<1>1. FetchInv => Stitched
  BY DEF FetchInv, Begun, Stitched, Reading
<1> QED BY <1>1, Invariance, PTL

(* Every tensor is written as the server has it: the merged ranges hold    *)
(* all of them, and each is cut out of the right place.                    *)
THEOREM WrittenExact == Spec => []Exact
<1>1. FetchInv => Exact
  BY DEF FetchInv
<1> QED BY <1>1, Invariance, PTL

(* Nothing of a server that ignores Range is resumed, and no tensor is cut *)
(* out of what it sends.                                                   *)
THEOREM RefusedAtTheHeader == Spec => []RefusedFirst
<1>1. FetchInv => RefusedFirst
  BY DEF FetchInv, NothingKept, RefusedFirst
<1> QED BY <1>1, Invariance, PTL

(* A fetch from a server that ignores Range.                               *)
WithoutRange == ~honours => outcome # "done"

(* No fetch from a server that ignores Range ends well, in either mode:    *)
(* read_header asks for ranges, so `--mode shard` is not the way out that  *)
(* fetch.py names for such a server.                                       *)
THEOREM ShardRefusedToo == Spec => []WithoutRange
<1>1. FetchInv => WithoutRange
  BY DEF FetchInv, NothingKept, WithoutRange
<1> QED BY <1>1, Invariance, PTL

=============================================================================
