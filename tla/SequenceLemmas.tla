-------------------------- MODULE SequenceLemmas --------------------------
(***************************************************************************)
(* What the two operations of a deque, popleft and append, do to the set   *)
(* of its elements: facts about every FIFO queue of the models.  And       *)
(* induction and recursion over the index, for sets: what the proofs about *)
(* lists that the code builds in a loop need.                              *)
(***************************************************************************)
EXTENDS Integers, SequencesExt, SequenceTheorems, WellFoundedInduction, TLAPS

(* Taking the head of a queue removes exactly the head from its elements   *)
(* when the queue names nobody twice (deque.popleft).                      *)
LEMMA TailOfQueue ==
    ASSUME NEW S, NEW q \in Seq(S), q # <<>>
    PROVE  /\ Head(q) \in S /\ Tail(q) \in Seq(S)
           /\ Head(q) \in ToSet(q)
           /\ ToSet(q) = ToSet(Tail(q)) \cup {Head(q)}
           /\ IsInjective(q) => /\ IsInjective(Tail(q))
                                /\ Head(q) \notin ToSet(Tail(q))
<1>1. /\ Head(q) \in S /\ Tail(q) \in Seq(S)
      /\ Len(Tail(q)) = Len(q) - 1
      /\ \A i \in 1..Len(Tail(q)) : Tail(q)[i] = q[i+1]
  BY HeadTailProperties
<1>2. Len(q) \in Nat \ {0} /\ DOMAIN q = 1..Len(q) /\ DOMAIN Tail(q) = 1..Len(Tail(q))
  BY <1>1, EmptySeq, LenProperties
<1>3. Head(q) = q[1]
  OBVIOUS
<1>4. ToSet(q) = ToSet(Tail(q)) \cup {Head(q)}
  <2>1. ASSUME NEW i \in 1..Len(q)
        PROVE  q[i] \in ToSet(Tail(q)) \cup {Head(q)}
    <3>1. CASE i = 1
      BY <3>1, <1>3
    <3>2. CASE i # 1
      <4>1. i - 1 \in 1..Len(Tail(q)) /\ Tail(q)[i-1] = q[i]
        BY <3>2, <1>1, <1>2
      <4>2. QED BY <4>1, <1>2 DEF ToSet
    <3>3. QED BY <3>1, <3>2
  <2>2. ASSUME NEW i \in 1..Len(Tail(q))
        PROVE  Tail(q)[i] \in ToSet(q)
    <3>1. i + 1 \in 1..Len(q) /\ Tail(q)[i] = q[i+1]
      BY <1>1, <1>2
    <3>2. QED BY <3>1, <1>2 DEF ToSet
  <2>3. Head(q) \in ToSet(q)
    BY <1>2, <1>3 DEF ToSet
  <2>4. QED BY <2>1, <2>2, <2>3, <1>2 DEF ToSet
<1>5. ASSUME IsInjective(q) PROVE IsInjective(Tail(q)) /\ Head(q) \notin ToSet(Tail(q))
  <2>1. ASSUME NEW i \in 1..Len(q), NEW j \in 1..Len(q), q[i] = q[j] PROVE i = j
    BY <2>1, <1>5, <1>2 DEF IsInjective
  <2>2. ASSUME NEW i \in 1..Len(Tail(q)), NEW j \in 1..Len(Tail(q)),
               Tail(q)[i] = Tail(q)[j]
        PROVE  i = j
    <3>1. i+1 \in 1..Len(q) /\ j+1 \in 1..Len(q) /\ q[i+1] = q[j+1]
      BY <2>2, <1>1, <1>2
    <3>2. i+1 = j+1
      BY <3>1, <2>1
    <3>3. QED BY <3>2
  <2>3. ASSUME NEW i \in 1..Len(Tail(q)) PROVE Tail(q)[i] # Head(q)
    <3>1. i+1 \in 1..Len(q) /\ 1 \in 1..Len(q) /\ Tail(q)[i] = q[i+1] /\ i+1 # 1
      BY <1>1, <1>2
    <3>2. QED BY <3>1, <2>1, <1>3
  <2>4. QED BY <2>2, <2>3, <1>2 DEF ToSet, IsInjective
<1>6. QED BY <1>1, <1>4, <1>5

(* Joining the end of a queue adds exactly the newcomer (deque.append).    *)
LEMMA AppendToQueue ==
    ASSUME NEW S, NEW q \in Seq(S), NEW e \in S
    PROVE  /\ Append(q, e) \in Seq(S)
           /\ Append(q, e) # <<>>
           /\ ToSet(Append(q, e)) = ToSet(q) \cup {e}
           /\ IsInjective(q) /\ e \notin ToSet(q) => IsInjective(Append(q, e))
<1>1. /\ Append(q, e) \in Seq(S) /\ Append(q, e) # <<>>
      /\ Len(Append(q, e)) = Len(q) + 1
      /\ \A i \in 1..Len(q) : Append(q, e)[i] = q[i]
      /\ Append(q, e)[Len(q) + 1] = e
  BY AppendProperties
<1>2. /\ Len(q) \in Nat /\ DOMAIN q = 1..Len(q)
      /\ DOMAIN Append(q, e) = 1..(Len(q) + 1)
  BY <1>1, LenProperties
<1>3. ToSet(Append(q, e)) = ToSet(q) \cup {e}
  <2>1. ASSUME NEW i \in 1..(Len(q) + 1)
        PROVE  Append(q, e)[i] \in ToSet(q) \cup {e}
    <3>1. CASE i = Len(q) + 1
      BY <3>1, <1>1
    <3>2. CASE i # Len(q) + 1
      <4>1. i \in 1..Len(q)
        BY <3>2, <1>2
      <4>2. QED BY <4>1, <1>1, <1>2 DEF ToSet
    <3>3. QED BY <3>1, <3>2
  <2>2. ASSUME NEW i \in 1..Len(q) PROVE q[i] \in ToSet(Append(q, e))
    <3>1. i \in 1..(Len(q) + 1) /\ Append(q, e)[i] = q[i]
      BY <1>1, <1>2
    <3>2. QED BY <3>1, <1>2 DEF ToSet
  <2>3. e \in ToSet(Append(q, e))
    <3>1. Len(q) + 1 \in 1..(Len(q) + 1)
      BY <1>2
    <3>2. QED BY <3>1, <1>1, <1>2 DEF ToSet
  <2>4. QED BY <2>1, <2>2, <2>3, <1>2 DEF ToSet
<1>4. ASSUME IsInjective(q), e \notin ToSet(q) PROVE IsInjective(Append(q, e))
  <2>1. ASSUME NEW i \in 1..Len(q), NEW j \in 1..Len(q), q[i] = q[j] PROVE i = j
    BY <2>1, <1>4, <1>2 DEF IsInjective
  <2>2. ASSUME NEW i \in 1..Len(q) PROVE q[i] # e
    BY <1>4, <1>2 DEF ToSet
  <2>3. ASSUME NEW i \in 1..(Len(q) + 1), NEW j \in 1..(Len(q) + 1),
               Append(q, e)[i] = Append(q, e)[j]
        PROVE  i = j
    <3>1. i \in 1..Len(q) \/ i = Len(q) + 1
      BY <1>2
    <3>2. j \in 1..Len(q) \/ j = Len(q) + 1
      BY <1>2
    <3>3. QED BY <3>1, <3>2, <2>1, <2>2, <2>3, <1>1
  <2>4. QED BY <2>3, <1>2 DEF IsInjective
<1>5. QED BY <1>1, <1>3, <1>4

(* Leaving a queue from the middle closes the gap and moves nobody past    *)
(* anybody (list.remove).                                                  *)
LEMMA RemoveFromQueue ==
    ASSUME NEW S, NEW q \in Seq(S), NEW k \in DOMAIN q
    PROVE  /\ RemoveAt(q, k) \in Seq(S)
           /\ DOMAIN RemoveAt(q, k) = 1..(Len(q) - 1)
           /\ \A j \in 1..(Len(q) - 1) :
                 RemoveAt(q, k)[j] = q[IF j < k THEN j ELSE j + 1]
           /\ ToSet(RemoveAt(q, k)) = {q[j] : j \in DOMAIN q \ {k}}
<1> DEFINE pre == SubSeq(q, 1, k - 1)
           post == SubSeq(q, k + 1, Len(q))
           out == RemoveAt(q, k)
<1>1. Len(q) \in Nat /\ DOMAIN q = 1..Len(q) /\ \A j \in 1..Len(q) : q[j] \in S
  BY LenProperties, ElementOfSeq
<1>2. k \in 1..Len(q) /\ k \in Int
  BY <1>1
<1>3. /\ pre \in Seq(S) /\ Len(pre) = k - 1
      /\ \A j \in 1..(k - 1) : pre[j] = q[j]
  <2>1. \A j \in 1..(k - 1) : q[j] \in S
    BY <1>1, <1>2
  <2>2. /\ pre \in Seq(S) /\ Len(pre) = IF 1 <= k - 1 THEN k - 1 - 1 + 1 ELSE 0
        /\ \A j \in 1..(k - 1 - 1 + 1) : pre[j] = q[1 + j - 1]
    BY <2>1, <1>2, SubSeqProperties
  <2>3. QED BY <2>2, <1>2
<1>4. /\ post \in Seq(S) /\ Len(post) = Len(q) - k
      /\ \A j \in 1..(Len(q) - k) : post[j] = q[k + j]
  <2>1. \A j \in (k + 1)..Len(q) : q[j] \in S
    BY <1>1, <1>2
  <2>2. /\ post \in Seq(S)
        /\ Len(post) = IF k + 1 <= Len(q) THEN Len(q) - (k + 1) + 1 ELSE 0
        /\ \A j \in 1..(Len(q) - (k + 1) + 1) : post[j] = q[(k + 1) + j - 1]
    BY <2>1, <1>1, <1>2, SubSeqProperties
  <2>3. QED BY <2>2, <1>1, <1>2
<1>5. /\ out \in Seq(S) /\ Len(out) = Len(pre) + Len(post)
      /\ \A j \in 1..(Len(pre) + Len(post)) :
            out[j] = IF j <= Len(pre) THEN pre[j] ELSE post[j - Len(pre)]
  BY <1>3, <1>4, ConcatProperties DEF RemoveAt
<1>6. DOMAIN out = 1..(Len(q) - 1)
  BY <1>5, <1>3, <1>4, <1>1, <1>2, LenProperties
<1>7. ASSUME NEW j \in 1..(Len(q) - 1)
      PROVE  out[j] = q[IF j < k THEN j ELSE j + 1]
  <2>1. j \in 1..(Len(pre) + Len(post))
    BY <1>1, <1>2, <1>3, <1>4
  <2>2. CASE j < k
    BY <2>1, <2>2, <1>1, <1>2, <1>3, <1>5
  <2>3. CASE ~(j < k)
    <3>1. j - (k - 1) \in 1..(Len(q) - k) /\ k + (j - (k - 1)) = j + 1
      BY <2>3, <1>1, <1>2
    <3>2. out[j] = post[j - (k - 1)]
      <4>1. ~(j <= Len(pre)) /\ Len(pre) = k - 1
        BY <2>3, <1>2, <1>3
      <4>2. out[j] = post[j - Len(pre)]
        BY <2>1, <4>1, <1>5
      <4>3. QED BY <4>1, <4>2
    <3>3. QED BY <3>1, <3>2, <2>3, <1>4
  <2>4. QED BY <2>2, <2>3
<1>8. ToSet(out) = {q[j] : j \in DOMAIN q \ {k}}
  <2>1. ASSUME NEW j \in 1..(Len(q) - 1)
        PROVE  out[j] \in {q[i] : i \in DOMAIN q \ {k}}
    <3>1. (IF j < k THEN j ELSE j + 1) \in DOMAIN q \ {k}
      BY <1>1, <1>2
    <3>2. QED BY <3>1, <1>7
  <2>2. ASSUME NEW i \in DOMAIN q \ {k} PROVE q[i] \in ToSet(out)
    <3> DEFINE j == IF i < k THEN i ELSE i - 1
    <3>1. j \in 1..(Len(q) - 1) /\ (IF j < k THEN j ELSE j + 1) = i
      BY <1>1, <1>2
    <3>2. out[j] = q[i]
      BY <3>1, <1>7
    <3>3. QED BY <3>1, <3>2, <1>6 DEF ToSet
  <2>3. QED BY <2>1, <2>2, <1>6 DEF ToSet
<1>9. QED BY <1>5, <1>6, <1>7, <1>8

(* A queue with no elements is empty.                                      *)
LEMMA ElementsOfQueue ==
    ASSUME NEW S, NEW q \in Seq(S)
    PROVE  /\ ToSet(q) \subseteq S
           /\ q = <<>> => ToSet(q) = {}
<1>1. Len(q) \in Nat /\ DOMAIN q = 1..Len(q) /\ q \in [1..Len(q) -> S]
  BY LenProperties
<1>2. QED BY <1>1 DEF ToSet

-----------------------------------------------------------------------------
(* Induction and recursion *)

(* A set of naturals has a least element.                                  *)
LEMMA LeastElement ==
    ASSUME NEW S \in SUBSET Nat, S # {}
    PROVE  \E m \in S : \A n \in S : m <= n
<1> DEFINE R == OpToRel(<, Nat)
<1>1. IsWellFoundedOn(R, Nat)
  BY NatLessThanWellFounded
<1>2. ASSUME NEW x \in Nat, NEW y \in Nat, x < y PROVE <<x, y>> \in R
  <2>1. <<x, y>> \in {ss \in Nat \X Nat : ss[1] < ss[2]}
    BY <1>2
  <2> QED BY <2>1 DEF OpToRel
<1> HIDE DEF R
<1>3. \E x \in S : \A y \in S : ~(<<y, x>> \in R)
  BY <1>1, WFMin
<1>4. PICK x \in S : \A y \in S : ~(<<y, x>> \in R)
  BY <1>3
<1>5. ASSUME NEW y \in S PROVE x <= y
  <2>1. x \in Nat /\ y \in Nat
    OBVIOUS
  <2>2. ~(y < x)
    BY <1>2, <1>4, <2>1
  <2> QED BY <2>1, <2>2
<1> QED BY <1>5

(* Induction up to n, for a set.                                           *)
LEMMA CountUp ==
    ASSUME NEW n \in Nat, NEW S, 0 \in S, \A i \in 0..n : i \in S /\ i < n => i + 1 \in S
    PROVE  \A i \in 0..n : i \in S
<1> DEFINE T == {i \in 0..n : i \notin S}
<1>1. SUFFICES ASSUME T # {} PROVE FALSE
  OBVIOUS
<1>2. T \in SUBSET Nat
  OBVIOUS
<1>3. PICK m \in T : \A i \in T : m <= i
  BY <1>1, <1>2, LeastElement
<1>4. m \in 1..n /\ m - 1 \in 0..n /\ m - 1 \notin T
  <2>1. m # 0 /\ m \in 0..n
    BY <1>3
  <2>2. ~(m <= m - 1)
    BY <2>1
  <2> QED BY <1>3, <2>1, <2>2
<1>5. (m - 1) + 1 \in S
  BY <1>4
<1> QED BY <1>3, <1>4, <1>5

Follows(f, n, S, base, step) ==
    f \in [0..n -> S] /\ f[0] = base /\ \A i \in 1..n : f[i] = step[<<i, f[i - 1]>>]

(* What is defined by recursion on the index exists.                       *)
LEMMA Recursion ==
    ASSUME NEW n \in Nat, NEW S, NEW base \in S, NEW step \in [(1..n) \X S -> S]
    PROVE  \E f : Follows(f, n, S, base, step)
<1> DEFINE Good(m, f) == f \in [0..m -> S] /\ f[0] = base /\ \A i \in 1..m : f[i] = step[<<i, f[i - 1]>>]
           G == {m \in 0..n : \E f \in [0..m -> S] : Good(m, f)}
<1>1. 0 \in G
  <2>1. PICK f : f = [i \in 0..0 |-> base]
    OBVIOUS
  <2>2. Good(0, f)
    BY <2>1
  <2> QED BY <2>2
<1>2. ASSUME NEW m \in 0..n, m \in G, m < n PROVE m + 1 \in G
  <2>1. PICK f \in [0..m -> S] : Good(m, f)
    BY <1>2
  <2>2. PICK g : g = [i \in 0..(m + 1) |-> IF i <= m THEN f[i] ELSE step[<<m + 1, f[m]>>]]
    OBVIOUS
  <2>3. step[<<m + 1, f[m]>>] \in S
    <3>1. <<m + 1, f[m]>> \in (1..n) \X S
      BY <1>2, <2>1
    <3> QED BY <3>1
  <2>4. g \in [0..(m + 1) -> S]
    <3>1. ASSUME NEW i \in 0..(m + 1) PROVE (IF i <= m THEN f[i] ELSE step[<<m + 1, f[m]>>]) \in S
      <4>1. CASE i <= m
        <5>1. i \in 0..m
          BY <4>1
        <5> QED BY <2>1, <4>1, <5>1
      <4>2. CASE ~(i <= m)
        BY <2>3, <4>2
      <4> QED BY <4>1, <4>2
    <3> QED BY <2>2, <3>1
  <2>5. g[0] = base
    BY <2>1, <2>2
  <2>6. ASSUME NEW i \in 1..(m + 1) PROVE g[i] = step[<<i, g[i - 1]>>]
    <3>1. i - 1 \in 0..m /\ i - 1 \in 0..(m + 1) /\ i \in 0..(m + 1)
      OBVIOUS
    <3>2. g[i - 1] = f[i - 1]
      BY <2>2, <3>1
    <3>3. CASE i <= m
      <4>1. g[i] = f[i] /\ i \in 1..m
        BY <2>2, <3>1, <3>3
      <4> QED BY <2>1, <3>2, <4>1
    <3>4. CASE i = m + 1
      <4>1. g[i] = step[<<m + 1, f[m]>>] /\ i - 1 = m
        BY <2>2, <3>1, <3>4
      <4> QED BY <3>2, <3>4, <4>1
    <3> QED BY <3>3, <3>4
  <2>7. Good(m + 1, g) /\ m + 1 \in 0..n
    BY <1>2, <2>4, <2>5, <2>6
  <2> QED BY <2>4, <2>7
<1> HIDE DEF G
<1>3. \A i \in 0..n : i \in G
  <2>1. \A i \in 0..n : i \in G /\ i < n => i + 1 \in G
    BY <1>2
  <2> QED BY <1>1, <2>1, CountUp
<1>4. n \in G
  BY <1>3
<1> QED BY <1>4 DEF G, Follows

(* Induction along a loop of n rounds.                                     *)
LEMMA LoopInvariant ==
    ASSUME NEW n \in Nat, NEW g, NEW S, g[0] \in S,
           \A i \in 1..n : g[i - 1] \in S => g[i] \in S
    PROVE  \A i \in 0..n : g[i] \in S
<1> DEFINE R == {i \in 0..n : g[i] \in S}
<1>1. 0 \in R
  OBVIOUS
<1>2. ASSUME NEW i \in 0..n, i \in R, i < n PROVE i + 1 \in R
  <2>1. i + 1 \in 1..n /\ (i + 1) - 1 = i /\ i + 1 \in 0..n
    BY <1>2
  <2>2. g[(i + 1) - 1] \in S => g[i + 1] \in S
    BY <2>1
  <2> QED BY <1>2, <2>1, <2>2
<1> HIDE DEF R
<1>3. \A i \in 0..n : i \in R /\ i < n => i + 1 \in R
  BY <1>2
<1>4. \A i \in 0..n : i \in R
  BY <1>1, <1>3, CountUp
<1> QED BY <1>4 DEF R

(* The elements of a sequence of sequences, one after the other.           *)
LEMMA FlattenSeqType ==
    ASSUME NEW T, NEW ss \in Seq(Seq(T))
    PROVE  FlattenSeq(ss) \in Seq(T)
<1>1. Len(ss) \in Nat /\ DOMAIN ss = 1..Len(ss) /\ \A i \in 1..Len(ss) : ss[i] \in Seq(T)
  BY ElementOfSeq, LenProperties
<1>2. CASE Len(ss) = 0
  <2>1. ss = <<>>
    BY <1>2, EmptySeq
  <2> QED BY <1>2, <2>1 DEF FlattenSeq
<1>3. CASE Len(ss) # 0
  <2>1. PICK n : n = Len(ss)
    OBVIOUS
  <2>2. n \in Nat /\ n >= 1 /\ n - 1 \in Nat
    BY <1>1, <1>3, <2>1
  <2>3. PICK step : step = [p \in (1..(n - 1)) \X Seq(T) |-> p[2] \o ss[p[1] + 1]]
    OBVIOUS
  <2>4. step \in [(1..(n - 1)) \X Seq(T) -> Seq(T)]
    <3>1. ASSUME NEW p \in (1..(n - 1)) \X Seq(T) PROVE p[2] \o ss[p[1] + 1] \in Seq(T)
      <4>1. p[2] \in Seq(T) /\ p[1] + 1 \in 1..n
        BY <2>2
      <4>2. ss[p[1] + 1] \in Seq(T)
        BY <1>1, <2>1, <4>1
      <4> QED BY <4>1, <4>2, ConcatProperties
    <3> QED BY <2>3, <3>1
  <2>5. PICK base : base = ss[1]
    OBVIOUS
  <2>6. base \in Seq(T)
    BY <1>1, <2>1, <2>2, <2>5
  <2>7. PICK S : S = Seq(T)
    OBVIOUS
  <2>8. PICK m : m = n - 1
    OBVIOUS
  <2>9. m \in Nat /\ base \in S /\ step \in [(1..m) \X S -> S]
    BY <2>2, <2>4, <2>6, <2>7, <2>8
  <2>10. PICK h : Follows(h, m, S, base, step)
    BY <2>9, Recursion
  <2>11. h \in [0..m -> S] /\ h[0] = base /\ \A i \in 1..m : h[i] = step[<<i, h[i - 1]>>]
    BY <2>10 DEF Follows
  <2>12. PICK f : f = [i \in 1..n |-> h[i - 1]]
    OBVIOUS
  <2>13. \A i \in 1..n : f[i] = IF i = 1 THEN ss[i] ELSE f[i - 1] \o ss[i]
    <3>1. TAKE i \in 1..n
    <3>2. CASE i = 1
      BY <2>5, <2>11, <2>12, <3>2
    <3>3. CASE i # 1
      <4>1. PICK k \in 1..m : k = i - 1
        BY <2>2, <2>8, <3>3
      <4>2. h[k] = step[<<k, h[k - 1]>>] /\ h[k - 1] \in S
        BY <2>9, <2>11
      <4>3. <<k, h[k - 1]>> \in (1..(n - 1)) \X Seq(T)
        BY <2>7, <2>8, <4>2
      <4>4. h[k] = h[k - 1] \o ss[k + 1]
        BY <2>3, <4>2, <4>3
      <4>5. f[i] = h[k] /\ f[i - 1] = h[k - 1] /\ k + 1 = i
        <5>1. i - 1 \in 1..n /\ (i - 1) - 1 = k - 1
          BY <2>2, <3>3, <4>1
        <5> QED BY <2>12, <4>1, <5>1
      <4> QED BY <3>3, <4>4, <4>5
    <3> QED BY <3>2, <3>3
  <2>14. f = [i \in 1..n |-> IF i = 1 THEN ss[i] ELSE f[i - 1] \o ss[i]]
    BY <2>12, <2>13
  <2>15. PICK g : g = CHOOSE made : made = [i \in 1..n |-> IF i = 1 THEN ss[i] ELSE made[i - 1] \o ss[i]]
    OBVIOUS
  <2>16. g = [i \in 1..n |-> IF i = 1 THEN ss[i] ELSE g[i - 1] \o ss[i]]
    BY <2>14, <2>15
  <2>17. FlattenSeq(ss) = g[n]
    BY <1>3, <2>1, <2>15 DEF FlattenSeq
  <2>18. \A i \in 1..n : g[i] = IF i = 1 THEN ss[i] ELSE g[i - 1] \o ss[i]
    BY <2>16
  <2> DEFINE R == [i \in 0..m |-> g[i + 1]]
  <2>19. R[0] \in Seq(T)
    BY <1>1, <2>1, <2>2, <2>9, <2>18
  <2>20. ASSUME NEW i \in 1..m, R[i - 1] \in Seq(T) PROVE R[i] \in Seq(T)
    <3>1. i - 1 \in 0..m /\ (i - 1) + 1 = i /\ i \in 0..m /\ i + 1 \in 1..n /\ i + 1 # 1 /\ (i + 1) - 1 = i
      BY <2>2, <2>8
    <3>2. R[i - 1] = g[i] /\ R[i] = g[i + 1]
      BY <3>1
    <3>3. g[i + 1] = g[i] \o ss[i + 1]
      BY <2>18, <3>1
    <3>4. ss[i + 1] \in Seq(T)
      BY <1>1, <2>1, <3>1
    <3>5. g[i] \o ss[i + 1] \in Seq(T)
      BY <2>20, <3>2, <3>4, ConcatProperties
    <3> QED BY <3>2, <3>3, <3>5
  <2> HIDE DEF R
  <2>21. \A i \in 0..m : R[i] \in Seq(T)
    <3>1. \A i \in 1..m : R[i - 1] \in Seq(T) => R[i] \in Seq(T)
      BY <2>20
    <3> QED BY <2>9, <2>19, <3>1, LoopInvariant
  <2>22. g[n] \in Seq(T)
    <3>1. m \in 0..m /\ m + 1 = n
      BY <2>2, <2>8
    <3> QED BY <2>21, <3>1 DEF R
  <2> QED BY <2>17, <2>22
<1> QED BY <1>2, <1>3

=============================================================================
