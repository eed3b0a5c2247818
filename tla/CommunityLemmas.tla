--------------------------- MODULE CommunityLemmas ---------------------------
(* What the operators of the community modules used by the specifications  *)
(* return, for the proofs that reason about them.                           *)
EXTENDS Integers, Sequences, FiniteSets, SequencesExt, SequenceTheorems,
        NaturalsInduction, WellFoundedInduction, TLAPS

\* A set of natural numbers that is not empty has a least element.
LEMMA LeastElement ==
    ASSUME NEW I, I \subseteq Nat, I # {}
    PROVE  \E x \in I : \A y \in I : x <= y
<1>1. \E x \in I : \A y \in I : ~(<<y, x>> \in OpToRel(<, Nat))
  BY NatLessThanWellFounded, WFMin
<1>2. PICK x \in I : \A y \in I : ~(<<y, x>> \in OpToRel(<, Nat))
  BY <1>1
<1>3. \A y \in I : ~(y < x)
  BY <1>2 DEF OpToRel
<1>4. QED
  BY <1>3

\* The minimum of two numbers is one of them and no greater than either.
LEMMA MinOfTwo ==
    ASSUME NEW a \in Int, NEW b \in Int
    PROVE  /\ Min({a, b}) \in {a, b}
           /\ Min({a, b}) <= a /\ Min({a, b}) <= b
<1>1. \E x \in {a, b} : \A y \in {a, b} : x <= y
  OBVIOUS
<1>2. Min({a, b}) \in {a, b} /\ \A y \in {a, b} : Min({a, b}) <= y
  BY <1>1 DEF Min
<1>3. QED
  BY <1>2

\* The minimum of three numbers is one of them and no greater than any.
LEMMA MinOfThree ==
    ASSUME NEW a \in Int, NEW b \in Int, NEW c \in Int
    PROVE  /\ Min({a, b, c}) \in {a, b, c}
           /\ Min({a, b, c}) <= a /\ Min({a, b, c}) <= b /\ Min({a, b, c}) <= c
<1>1. \E x \in {a, b, c} : \A y \in {a, b, c} : x <= y
  OBVIOUS
<1>2. Min({a, b, c}) \in {a, b, c} /\ \A y \in {a, b, c} : Min({a, b, c}) <= y
  BY <1>1 DEF Min
<1>3. QED
  BY <1>2

\* The maximum of two numbers is one of them and no less than either.
LEMMA MaxOfTwo ==
    ASSUME NEW a \in Int, NEW b \in Int
    PROVE  /\ Max({a, b}) \in {a, b}
           /\ Max({a, b}) >= a /\ Max({a, b}) >= b
<1>1. \E x \in {a, b} : \A y \in {a, b} : x >= y
  OBVIOUS
<1>2. Max({a, b}) \in {a, b} /\ \A y \in {a, b} : Max({a, b}) >= y
  BY <1>1 DEF Max
<1>3. QED
  BY <1>2

\* RemoveFirst leaves out one element, at a place that may be read off, or nothing.
LEMMA RemoveFirstShape ==
    ASSUME NEW S, NEW seq \in Seq(S), NEW e
    PROVE  \/ /\ RemoveFirst(seq, e) = seq
              /\ ~ \E i \in 1..Len(seq) : seq[i] = e
           \/ \E k \in 1..Len(seq) :
                /\ seq[k] = e
                /\ RemoveFirst(seq, e) \in Seq(S)
                /\ Len(RemoveFirst(seq, e)) = Len(seq) - 1
                /\ \A i \in 1..(Len(seq) - 1) :
                     RemoveFirst(seq, e)[i] = IF i < k THEN seq[i] ELSE seq[i + 1]
<1>1. CASE ~ \E i \in 1..Len(seq) : seq[i] = e
  <2>1. RemoveFirst(seq, e) = seq
    BY <1>1 DEF RemoveFirst
  <2>2. QED
    BY <1>1, <2>1
<1>2. CASE \E i \in 1..Len(seq) : seq[i] = e
  <2> DEFINE I == {i \in 1..Len(seq) : seq[i] = e}
             k == SelectInSeq(seq, LAMBDA v : v = e)
             before == SubSeq(seq, 1, k - 1)
             after == SubSeq(seq, k + 1, Len(seq))
             rest == before \o after
  <2>1. k \in 1..Len(seq) /\ seq[k] = e
    <3>1. I # {} /\ I \subseteq Nat
      BY <1>2
    <3>2. \E x \in I : \A y \in I : x <= y
      BY <3>1, LeastElement
    <3> HIDE DEF I
    <3>3. Min(I) \in I
      BY <3>2 DEF Min
    <3>4. k = Min(I)
      BY <3>1 DEF SelectInSeq, I
    <3>5. QED
      BY <3>3, <3>4 DEF I
  <2> HIDE DEF k
  <2>2. RemoveFirst(seq, e) = rest
    BY <1>2 DEF RemoveFirst, RemoveAt, k
  <2>3. /\ Len(seq) \in Nat
        /\ \A i \in 1..Len(seq) : seq[i] \in S
    OBVIOUS
  <2>4. /\ before \in Seq(S) /\ Len(before) = k - 1
        /\ \A i \in 1..(k - 1) : before[i] = seq[i]
    <3>1. \A i \in 1..(k - 1) : seq[i] \in S
      BY <2>1, <2>3
    <3>2. /\ before \in Seq(S)
          /\ Len(before) = IF 1 <= k - 1 THEN (k - 1) - 1 + 1 ELSE 0
          /\ \A i \in 1..((k - 1) - 1 + 1) : before[i] = seq[1 + i - 1]
      BY <3>1, <2>1, SubSeqProperties
    <3>3. QED
      BY <3>2, <2>1
  <2>5. /\ after \in Seq(S) /\ Len(after) = Len(seq) - k
        /\ \A i \in 1..(Len(seq) - k) : after[i] = seq[k + i]
    <3>1. \A i \in (k + 1)..Len(seq) : seq[i] \in S
      BY <2>1, <2>3
    <3>2. /\ after \in Seq(S)
          /\ Len(after) = IF k + 1 <= Len(seq) THEN Len(seq) - (k + 1) + 1 ELSE 0
          /\ \A i \in 1..(Len(seq) - (k + 1) + 1) : after[i] = seq[(k + 1) + i - 1]
      BY <3>1, <2>1, <2>3, SubSeqProperties
    <3>3. QED
      BY <3>2, <2>1, <2>3
  <2> HIDE DEF before, after
  <2>6. /\ rest \in Seq(S) /\ Len(rest) = Len(before) + Len(after)
        /\ \A i \in 1..(Len(before) + Len(after)) :
             rest[i] = IF i <= Len(before) THEN before[i] ELSE after[i - Len(before)]
    BY <2>4, <2>5, ConcatProperties
  <2> HIDE DEF rest
  <2>7. rest \in Seq(S) /\ Len(rest) = Len(seq) - 1
    BY <2>1, <2>3, <2>4, <2>5, <2>6
  <2>8. \A i \in 1..(Len(seq) - 1) : rest[i] = IF i < k THEN seq[i] ELSE seq[i + 1]
    <3>1. Len(before) + Len(after) = Len(seq) - 1
      BY <2>1, <2>3, <2>4, <2>5
    <3>2. \A i \in 1..(Len(seq) - 1) :
             rest[i] = IF i <= k - 1 THEN before[i] ELSE after[i - (k - 1)]
      BY ONLY <2>4, <2>6, <3>1
    <3> SUFFICES ASSUME NEW i \in 1..(Len(seq) - 1)
                 PROVE  rest[i] = IF i < k THEN seq[i] ELSE seq[i + 1]
      OBVIOUS
    <3>3. CASE i < k
      <4>1. i <= k - 1 /\ i \in 1..(k - 1)
        BY <3>3, <2>1, <2>3
      <4>2. QED
        BY <4>1, <3>2, <3>3, <2>4
    <3>4. CASE ~(i < k)
      <4>1. /\ ~(i <= k - 1) /\ i - (k - 1) \in 1..(Len(seq) - k)
            /\ k + (i - (k - 1)) = i + 1
        BY <3>4, <2>1, <2>3
      <4>2. after[i - (k - 1)] = seq[k + (i - (k - 1))]
        BY <4>1, <2>5
      <4>3. QED
        BY <4>1, <4>2, <3>2, <3>4
    <3>5. QED
      BY <3>3, <3>4
  <2>9. QED
    BY <2>1, <2>2, <2>7, <2>8
<1>3. QED
  BY <1>1, <1>2

\* Removing an element from a sequence without repetition keeps the rest,
\* without repetition.
LEMMA RemoveFirstProperties ==
    ASSUME NEW S, NEW seq \in Seq(S), NEW e
    PROVE  /\ RemoveFirst(seq, e) \in Seq(S)
           /\ \A i \in 1..Len(RemoveFirst(seq, e)) : \E j \in 1..Len(seq) :
                 RemoveFirst(seq, e)[i] = seq[j]
           /\ Len(RemoveFirst(seq, e)) <= Len(seq)
           /\ (\A i, j \in 1..Len(seq) : seq[i] = seq[j] => i = j) =>
                 /\ \A i, j \in 1..Len(RemoveFirst(seq, e)) :
                      RemoveFirst(seq, e)[i] = RemoveFirst(seq, e)[j] => i = j
                 /\ \A i \in 1..Len(RemoveFirst(seq, e)) : RemoveFirst(seq, e)[i] # e
           /\ \A j \in 1..Len(seq) : seq[j] # e =>
                 \E i \in 1..Len(RemoveFirst(seq, e)) : RemoveFirst(seq, e)[i] = seq[j]
<1> DEFINE rest == RemoveFirst(seq, e)
<1>1. CASE ~ \E i \in 1..Len(seq) : seq[i] = e
  <2>1. rest = seq
    BY <1>1, RemoveFirstShape
  <2> HIDE DEF rest
  <2>2. QED
    BY <1>1, <2>1 DEF rest
<1>2. CASE \E i \in 1..Len(seq) : seq[i] = e
  <2>1. PICK k \in 1..Len(seq) :
           /\ seq[k] = e
           /\ rest \in Seq(S)
           /\ Len(rest) = Len(seq) - 1
           /\ \A i \in 1..(Len(seq) - 1) : rest[i] = IF i < k THEN seq[i] ELSE seq[i + 1]
    BY <1>2, RemoveFirstShape
  <2> HIDE DEF rest
  <2>2. Len(seq) \in Nat
    OBVIOUS
  <2>3. rest \in Seq(S) /\ Len(rest) = Len(seq) - 1
    BY <2>1
  <2>4. \A i \in 1..(Len(seq) - 1) : rest[i] = IF i < k THEN seq[i] ELSE seq[i + 1]
    BY <2>1
  <2>5. \A j \in 1..Len(seq) : seq[j] # e => \E i \in 1..Len(rest) : rest[i] = seq[j]
    <3> SUFFICES ASSUME NEW j \in 1..Len(seq), seq[j] # e
                 PROVE  \E i \in 1..Len(rest) : rest[i] = seq[j]
      OBVIOUS
    <3>1. CASE j < k
      BY <3>1, <2>1, <2>2, <2>3, <2>4
    <3>2. CASE j > k
      <4>1. j - 1 \in 1..(Len(seq) - 1) /\ ~(j - 1 < k) /\ (j - 1) + 1 = j
        BY <3>2, <2>1, <2>2
      <4>2. QED
        BY <4>1, <2>3, <2>4
    <3>3. QED
      BY <3>1, <3>2, <2>1, <2>2
  <2>6. \A i \in 1..Len(rest) : \E j \in 1..Len(seq) : rest[i] = seq[j]
    BY <2>1, <2>2, <2>3, <2>4
  <2>7. ASSUME \A i, j \in 1..Len(seq) : seq[i] = seq[j] => i = j
         PROVE  /\ \A i, j \in 1..Len(rest) : rest[i] = rest[j] => i = j
                /\ \A i \in 1..Len(rest) : rest[i] # e
    <3> DEFINE at(i) == IF i < k THEN i ELSE i + 1
    <3>1. \A i \in 1..Len(rest) :
             at(i) \in 1..Len(seq) /\ at(i) # k /\ rest[i] = seq[at(i)]
      BY <2>1, <2>2, <2>3, <2>4
    <3>2. \A i, j \in 1..Len(rest) : at(i) = at(j) => i = j
      BY <2>1, <2>2, <2>3
    <3> HIDE DEF at
    <3>3. QED
      BY <3>1, <3>2, <2>1, <2>7
  <2>8. QED
    BY <2>2, <2>3, <2>5, <2>6, <2>7 DEF rest
<1>3. QED
  BY <1>1, <1>2

\* What stands in rest stands in seq, in the same order.
KeepsOrder(rest, seq) ==
    \A i, j \in 1..Len(rest) : i < j =>
        \E m, n \in 1..Len(seq) : m < n /\ rest[i] = seq[m] /\ rest[j] = seq[n]

\* Removing an element keeps the order of the others.
LEMMA RemoveFirstOrder ==
    ASSUME NEW S, NEW seq \in Seq(S), NEW e
    PROVE  KeepsOrder(RemoveFirst(seq, e), seq)
<1> DEFINE rest == RemoveFirst(seq, e)
<1>1. CASE rest = seq
  BY <1>1 DEF KeepsOrder
<1>2. CASE rest # seq
  <2>1. PICK k \in 1..Len(seq) :
           /\ Len(rest) = Len(seq) - 1
           /\ \A i \in 1..(Len(seq) - 1) : rest[i] = IF i < k THEN seq[i] ELSE seq[i + 1]
    BY <1>2, RemoveFirstShape
  <2>2. Len(seq) \in Nat
    OBVIOUS
  <2> HIDE DEF rest
  <2> DEFINE at(i) == IF i < k THEN i ELSE i + 1
  <2>3. \A i \in 1..Len(rest) : at(i) \in 1..Len(seq) /\ rest[i] = seq[at(i)]
    BY <2>1, <2>2
  <2>4. \A i, j \in 1..Len(rest) : i < j => at(i) < at(j)
    BY <2>1, <2>2
  <2> HIDE DEF at
  <2>5. KeepsOrder(rest, seq)
    BY <2>3, <2>4 DEF KeepsOrder
  <2>6. QED
    BY <2>5 DEF rest
<1>3. QED
  BY <1>1, <1>2

-----------------------------------------------------------------------------
\* What holds of 0, and of the next number with each, holds up to any bound.
LEMMA Upwards ==
    ASSUME NEW n \in Nat, NEW I, 0 \in I, \A k \in 0..(n - 1) : k \in I => k + 1 \in I
    PROVE  \A k \in 0..n : k \in I
<1> DEFINE J == {k \in 0..n : k \notin I}
<1>1. SUFFICES ASSUME J # {} PROVE FALSE
  OBVIOUS
<1>2. J \subseteq Nat
  OBVIOUS
<1>3. PICK x \in J : \A y \in J : x <= y
  BY <1>1, <1>2, LeastElement
<1>4. x \in 1..n /\ x - 1 \notin J
  BY <1>3
<1>5. x - 1 \in 0..(n - 1) /\ x - 1 \in I
  BY <1>4
<1>6. (x - 1) + 1 \in I
  BY <1>5
<1>7. QED
  BY <1>3, <1>4, <1>6

\* Where the elements of two sequences are in their concatenation.
LEMMA ConcatPlaces ==
    ASSUME NEW S, NEW s \in Seq(S), NEW t \in Seq(S)
    PROVE  /\ s \o t \in Seq(S) /\ Len(s) \in Nat /\ Len(t) \in Nat
           /\ Len(s \o t) = Len(s) + Len(t)
           /\ \A p \in 1..Len(s) : (s \o t)[p] = s[p]
           /\ \A j \in 1..Len(t) : (s \o t)[Len(s) + j] = t[j]
<1>1. /\ s \o t \in Seq(S) /\ Len(s \o t) = Len(s) + Len(t)
      /\ \A p \in 1..(Len(s) + Len(t)) : (s \o t)[p] = IF p <= Len(s) THEN s[p] ELSE t[p - Len(s)]
  BY ConcatProperties
<1>2. Len(s) \in Nat /\ Len(t) \in Nat
  OBVIOUS
<1>3. \A j \in 1..Len(t) : (s \o t)[Len(s) + j] = t[j]
  <2> TAKE j \in 1..Len(t)
  <2>1. Len(s) + j \in 1..(Len(s) + Len(t)) /\ ~(Len(s) + j <= Len(s)) /\ (Len(s) + j) - Len(s) = j
    BY <1>2
  <2>2. QED
    BY <1>1, <2>1
<1>4. \A p \in 1..Len(s) : (s \o t)[p] = s[p]
  BY <1>1, <1>2
<1>5. QED
  BY <1>1, <1>2, <1>3, <1>4

\* FlattenSeq builds up its result from the left.
LEMMA FlattenSeqBuilds ==
    ASSUME NEW S, NEW seqs \in Seq(Seq(S))
    PROVE  \E f \in [0..Len(seqs) -> Seq(S)] :
              /\ f[0] = <<>>
              /\ \A i \in 1..Len(seqs) : f[i] = f[i - 1] \o seqs[i]
              /\ FlattenSeq(seqs) = f[Len(seqs)]
<1> DEFINE n == Len(seqs)
<1>1. n \in Nat /\ DOMAIN seqs = 1..n /\ \A i \in 1..n : seqs[i] \in Seq(S)
  OBVIOUS
<1>2. CASE n = 0
  <2> DEFINE f == [i \in 0..n |-> <<>>]
  <2>1. FlattenSeq(seqs) = <<>>
    BY <1>2 DEF FlattenSeq
  <2>2. <<>> \in Seq(S)
    OBVIOUS
  <2>3. f \in [0..n -> Seq(S)]
    BY <2>2
  <2>4. f[0] = <<>> /\ f[n] = <<>>
    BY <1>1
  <2>5. \A i \in 1..n : f[i] = f[i - 1] \o seqs[i]
    BY <1>2
  <2> HIDE DEF f
  <2>6. QED
    BY <2>1, <2>3, <2>4, <2>5
<1>3. CASE n # 0
  <2> DEFINE Step(h, i) == IF i = 1 THEN seqs[i] ELSE h[i - 1] \o seqs[i]
             Grown(k) == \E h : h = [i \in 1..k |-> Step(h, i)]
             I == {k \in 0..n : Grown(k)}
             Whole(h) == h = [i \in 1..n |-> Step(h, i)]
  <2>1. Grown(0)
    <3> DEFINE h == [i \in 1..0 |-> <<>>]
    <3>1. h = [i \in 1..0 |-> Step(h, i)]
      OBVIOUS
    <3>2. QED
      BY <3>1
  <2>2. \A k \in 0..(n - 1) : Grown(k) => Grown(k + 1)
    <3> SUFFICES ASSUME NEW k \in 0..(n - 1), Grown(k)
                 PROVE  Grown(k + 1)
      OBVIOUS
    <3>1. PICK h : h = [i \in 1..k |-> Step(h, i)]
      OBVIOUS
    <3> DEFINE g == [i \in 1..(k + 1) |-> IF i <= k THEN h[i] ELSE Step(h, i)]
    <3>2. \A i \in 1..(k + 1) : g[i] = Step(g, i)
      <4> SUFFICES ASSUME NEW i \in 1..(k + 1)
                   PROVE  g[i] = Step(g, i)
        OBVIOUS
      <4>1. i # 1 => g[i - 1] = h[i - 1]
        OBVIOUS
      <4>2. i <= k => h[i] = Step(h, i)
        <5> HIDE DEF Step
        <5>1. SUFFICES ASSUME i <= k PROVE h[i] = Step(h, i)
          OBVIOUS
        <5>2. i \in 1..k
          BY <5>1
        <5>3. QED
          BY <3>1, <5>2
      <4>3. g[i] = IF i <= k THEN h[i] ELSE Step(h, i)
        OBVIOUS
      <4>4. g[i] = Step(h, i)
        BY <4>2, <4>3
      <4> HIDE DEF g
      <4>5. QED
        BY <4>1, <4>4
    <3>3. g = [i \in 1..(k + 1) |-> Step(g, i)]
      BY <3>2
    <3>4. QED
      BY <3>3
  <2>3. Grown(n)
    <3> HIDE DEF Grown
    <3>1. 0 \in I
      BY <1>1, <2>1
    <3>2. \A k \in 0..(n - 1) : k \in I => k + 1 \in I
      BY <1>1, <2>2
    <3> HIDE DEF I
    <3>3. \A k \in 0..n : k \in I
      BY <1>1, <3>1, <3>2, Upwards
    <3>4. QED
      BY <3>3, <1>1 DEF I
  <2>4. PICK h : Whole(h)
    BY <2>3
  <2> DEFINE flatten == CHOOSE h1 : Whole(h1)
  <2>5. Whole(flatten)
    BY <2>4
  <2>6. FlattenSeq(seqs) = flatten[n]
    BY <1>3 DEF FlattenSeq
  <2> HIDE DEF flatten
  <2>7. \A i \in 1..n : flatten[i] = Step(flatten, i)
    BY <2>5
  <2>8. \A i \in 0..n : i # 0 => flatten[i] \in Seq(S)
    <3> DEFINE K == {i \in 0..n : i # 0 => flatten[i] \in Seq(S)}
    <3>1. 0 \in K
      BY <1>1
    <3>2. \A k \in 0..(n - 1) : k \in K => k + 1 \in K
      <4> SUFFICES ASSUME NEW k \in 0..(n - 1), k \in K
                   PROVE  flatten[k + 1] \in Seq(S)
        BY <1>1
      <4>1. flatten[k + 1] = Step(flatten, k + 1)
        BY <2>7
      <4>2. CASE k = 0
        BY <4>1, <4>2, <1>1
      <4>3. CASE k # 0
        <5>1. flatten[k] \in Seq(S) /\ seqs[k + 1] \in Seq(S)
          BY <4>3, <1>1
        <5>2. flatten[k] \o seqs[k + 1] \in Seq(S)
          BY <5>1, ConcatProperties
        <5>3. QED
          BY <4>1, <4>3, <5>2
      <4>4. QED
        BY <4>2, <4>3
    <3> HIDE DEF K
    <3>3. \A k \in 0..n : k \in K
      BY <1>1, <3>1, <3>2, Upwards
    <3>4. QED
      BY <3>3 DEF K
  <2> DEFINE f == [i \in 0..n |-> IF i = 0 THEN <<>> ELSE flatten[i]]
  <2>9. f \in [0..n -> Seq(S)]
    BY <2>8
  <2>10. \A i \in 1..n : f[i] = f[i - 1] \o seqs[i]
    <3> SUFFICES ASSUME NEW i \in 1..n
                 PROVE  f[i] = f[i - 1] \o seqs[i]
      OBVIOUS
    <3>1. CASE i = 1
      <4>1. f[i] = seqs[1] /\ f[i - 1] = <<>>
        BY <3>1, <2>7
      <4>2. <<>> \o seqs[1] = seqs[1]
        BY <1>1, <3>1, ConcatEmptySeq
      <4>3. QED
        BY <4>1, <4>2, <3>1
    <3>2. CASE i # 1
      <4>1. f[i] = flatten[i] /\ f[i - 1] = flatten[i - 1]
        BY <3>2
      <4>2. flatten[i] = flatten[i - 1] \o seqs[i]
        BY <3>2, <2>7
      <4>3. QED
        BY <4>1, <4>2
    <3>3. QED
      BY <3>1, <3>2
  <2>11. f[0] = <<>> /\ FlattenSeq(seqs) = f[n]
    BY <1>1, <1>3, <2>6
  <2>12. QED
    BY <2>9, <2>10, <2>11
<1>4. QED
  BY <1>2, <1>3

\* The elements of the i-th sequence stand in whole behind the first off[i - 1].
Placed(seqs, whole, off) ==
    /\ off \in [0..Len(seqs) -> Nat]
    /\ off[0] = 0 /\ off[Len(seqs)] = Len(whole)
    /\ \A i \in 1..Len(seqs) : off[i] = off[i - 1] + Len(seqs[i])
    /\ \A i, k \in 0..Len(seqs) : i <= k => off[i] <= off[k]
    /\ \A i \in 1..Len(seqs) : \A j \in 1..Len(seqs[i]) : whole[off[i - 1] + j] = seqs[i][j]
    /\ \A p \in 1..Len(whole) : \E i \in 1..Len(seqs) : \E j \in 1..Len(seqs[i]) :
          p = off[i - 1] + j

\* An element of one of the sequences stands behind all those of the ones before.
LEMMA FlattenSeqPlaces ==
    ASSUME NEW S, NEW seqs \in Seq(Seq(S))
    PROVE  FlattenSeq(seqs) \in Seq(S) /\ \E off : Placed(seqs, FlattenSeq(seqs), off)
<1> DEFINE n == Len(seqs)
<1>1. n \in Nat /\ DOMAIN seqs = 1..n /\ \A i \in 1..n : seqs[i] \in Seq(S)
  OBVIOUS
<1>2. PICK f \in [0..n -> Seq(S)] :
             /\ f[0] = <<>>
             /\ \A i \in 1..n : f[i] = f[i - 1] \o seqs[i]
             /\ FlattenSeq(seqs) = f[n]
  BY FlattenSeqBuilds
<1> HIDE DEF n
<1> DEFINE off == [i \in 0..n |-> Len(f[i])]
           Joins(s, t, u) == /\ Len(u) = Len(s) + Len(t)
                             /\ \A p \in 1..Len(s) : u[p] = s[p]
                             /\ \A j \in 1..Len(t) : u[Len(s) + j] = t[j]
           Covers(k) == /\ \A i \in 0..k : off[i] <= off[k]
                        /\ \A i \in 1..k : \A j \in 1..Len(seqs[i]) :
                              off[i - 1] + j <= off[k] /\ f[k][off[i - 1] + j] = seqs[i][j]
                        /\ \A p \in 1..off[k] :
                              \E i \in 1..k : \E j \in 1..Len(seqs[i]) : p = off[i - 1] + j
           I == {k \in 0..n : Covers(k)}
<1>3. \A i \in 0..n : off[i] \in Nat /\ off[i] = Len(f[i])
  BY <1>1
<1> HIDE DEF off
<1>4. \A i \in 1..n : /\ Len(seqs[i]) \in Nat
                      /\ off[i] = off[i - 1] + Len(seqs[i])
                      /\ \A p \in 1..off[i - 1] : f[i][p] = f[i - 1][p]
                      /\ \A j \in 1..Len(seqs[i]) : f[i][off[i - 1] + j] = seqs[i][j]
  <2> TAKE i \in 1..n
  <2>0. i - 1 \in 0..n /\ i \in 0..n
    BY <1>1
  <2>a. f[i - 1] \in Seq(S) /\ seqs[i] \in Seq(S)
    BY <1>1, <1>2, <2>0
  <2>b. f[i] = f[i - 1] \o seqs[i]
    BY <1>2
  <2>1. f[i - 1] \in Seq(S) /\ seqs[i] \in Seq(S) /\ f[i] = f[i - 1] \o seqs[i]
    BY <2>a, <2>b
  <2>2. /\ off[i - 1] = Len(f[i - 1]) /\ off[i] = Len(f[i])
        /\ Len(seqs[i]) \in Nat /\ off[i - 1] \in Nat
    BY <2>0, <2>1, <1>3, LenProperties
  <2>3. /\ Len(f[i]) = Len(f[i - 1]) + Len(seqs[i])
        /\ \A p \in 1..Len(f[i - 1]) : f[i][p] = f[i - 1][p]
        /\ \A j \in 1..Len(seqs[i]) : f[i][Len(f[i - 1]) + j] = seqs[i][j]
    <3>1. \A s, t \in Seq(S) : Joins(s, t, s \o t)
      BY ConcatPlaces
    <3> HIDE DEF Joins
    <3>2. Joins(f[i - 1], seqs[i], f[i])
      BY <2>a, <2>b, <3>1, Zenon
    <3>3. QED
      BY <3>2 DEF Joins
  <2>6. QED
    BY <2>2, <2>3
<1>5. Covers(0)
  BY <1>1, <1>2, <1>3
<1>6. \A k \in 0..(n - 1) : Covers(k) => Covers(k + 1)
  <2> SUFFICES ASSUME NEW k \in 0..(n - 1), Covers(k)
               PROVE  Covers(k + 1)
    OBVIOUS
  <2>0. k \in 0..n /\ k + 1 \in 1..n /\ k + 1 \in 0..n /\ (k + 1) - 1 = k
    BY <1>1
  <2>a. off[k] \in Nat /\ off[k + 1] \in Nat
    BY <1>3, <2>0
  <2>b. Len(seqs[k + 1]) \in Nat /\ off[k + 1] = off[k] + Len(seqs[k + 1])
    BY <1>4, <2>0
  <2>1. /\ k \in 0..n /\ k + 1 \in 1..n /\ k + 1 \in 0..n /\ (k + 1) - 1 = k
        /\ off[k] \in Nat /\ off[k + 1] \in Nat /\ Len(seqs[k + 1]) \in Nat
        /\ off[k + 1] = off[k] + Len(seqs[k + 1])
    BY <2>0, <2>a, <2>b
  <2>2. \A i \in 0..(k + 1) : off[i] <= off[k + 1]
    <3> TAKE i \in 0..(k + 1)
    <3>1. CASE i = k + 1
      BY <2>1, <3>1
    <3>2. CASE i \in 0..k
      <4>0. i \in 0..n
        BY <3>2, <2>1, <1>1
      <4>1. off[i] <= off[k] /\ off[i] \in Nat
        BY <4>0, <3>2, <1>3
      <4>2. QED
        BY <4>1, <2>1
    <3>3. QED
      BY <3>1, <3>2
  <2>3. \A i \in 1..(k + 1) : \A j \in 1..Len(seqs[i]) :
           off[i - 1] + j <= off[k + 1] /\ f[k + 1][off[i - 1] + j] = seqs[i][j]
    <3> TAKE i \in 1..(k + 1)
    <3> TAKE j \in 1..Len(seqs[i])
    <3>0. i \in 1..n /\ i - 1 \in 0..n
      BY <1>1
    <3>1. off[i - 1] \in Nat /\ Len(seqs[i]) \in Nat
      BY <3>0, <1>3, <1>4
    <3>2. CASE i = k + 1
      BY <2>1, <3>1, <3>2, <1>4
    <3>3. CASE i \in 1..k
      <4>1. off[i - 1] + j <= off[k] /\ f[k][off[i - 1] + j] = seqs[i][j]
        BY <3>3
      <4>2. off[i - 1] + j \in 1..off[k]
        <5>1. off[i - 1] + j >= 1
          BY <3>1
        <5>2. QED
          BY <5>1, <4>1, <3>1, <2>1
      <4>3. f[k + 1][off[i - 1] + j] = f[k][off[i - 1] + j]
        <5>1. \A p \in 1..off[k] : f[k + 1][p] = f[k][p]
          BY <1>4, <2>1
        <5>2. QED
          BY <5>1, <4>2
      <4>4. QED
        BY <4>1, <4>2, <4>3, <2>1
    <3>4. QED
      BY <3>2, <3>3
  <2>4. \A p \in 1..off[k + 1] :
           \E i \in 1..(k + 1) : \E j \in 1..Len(seqs[i]) : p = off[i - 1] + j
    <3> TAKE p \in 1..off[k + 1]
    <3>1. CASE p \in 1..off[k]
      <4>1. PICK i \in 1..k : \E j \in 1..Len(seqs[i]) : p = off[i - 1] + j
        BY <3>1
      <4>2. QED
        BY <4>1
    <3>2. CASE p > off[k]
      <4>1. p - off[k] \in 1..Len(seqs[k + 1]) /\ p = off[k] + (p - off[k])
        BY <3>2, <2>1
      <4>2. k + 1 \in 1..(k + 1)
        BY <2>1
      <4>3. \E j \in 1..Len(seqs[k + 1]) : p = off[(k + 1) - 1] + j
        BY <4>1, <2>1
      <4>4. QED
        BY <4>2, <4>3
    <3>3. p \in 1..off[k] \/ p > off[k]
      BY <2>a
    <3>4. QED
      BY <3>1, <3>2, <3>3
  <2>5. QED
    BY <2>2, <2>3, <2>4
<1>7. \A k \in 0..n : Covers(k)
  <2> HIDE DEF Covers
  <2>1. 0 \in I
    BY <1>1, <1>5
  <2>2. \A k \in 0..(n - 1) : k \in I => k + 1 \in I
    BY <1>1, <1>6
  <2> HIDE DEF I
  <2>3. \A k \in 0..n : k \in I
    BY <1>1, <2>1, <2>2, Upwards
  <2>4. QED
    BY <2>3 DEF I
<1>8. FlattenSeq(seqs) \in Seq(S) /\ off[n] = Len(FlattenSeq(seqs)) /\ off[0] = 0
  BY <1>1, <1>2, <1>3
<1>9. off \in [0..n -> Nat]
  BY <1>1 DEF off
<1>10. \A i, k \in 0..n : i <= k => off[i] <= off[k]
  BY <1>7
<1>11. /\ \A i \in 1..n : \A j \in 1..Len(seqs[i]) : FlattenSeq(seqs)[off[i - 1] + j] = seqs[i][j]
       /\ \A p \in 1..Len(FlattenSeq(seqs)) :
              \E i \in 1..n : \E j \in 1..Len(seqs[i]) : p = off[i - 1] + j
  <2>1. Covers(n)
    BY <1>1, <1>7
  <2>2. QED
    BY <2>1, <1>2, <1>8
<1>12. Placed(seqs, FlattenSeq(seqs), off)
  BY <1>4, <1>8, <1>9, <1>10, <1>11 DEF n, Placed
<1>13. QED
  BY <1>8, <1>12

\* No sequences, joined, are the empty one.
LEMMA FlattenSeqEmpty == FlattenSeq(<<>>) = <<>>
BY DEF FlattenSeq

\* A sequence is determined by its length and its elements.
LEMMA SameSequence ==
    ASSUME NEW S, NEW s \in Seq(S), NEW t \in Seq(S), Len(s) = Len(t),
           \A i \in 1..Len(s) : s[i] = t[i]
    PROVE  s = t
BY SeqEqual

\* Two sequences of sequences may be joined one after the other.
LEMMA FlattenSeqConcat ==
    ASSUME NEW S, NEW a \in Seq(Seq(S)), NEW b \in Seq(Seq(S))
    PROVE  FlattenSeq(a \o b) = FlattenSeq(a) \o FlattenSeq(b)
<1> DEFINE c == a \o b
           m == Len(a)
           n == Len(b)
           Q == Seq(S)
           Builds(f, seqs) == /\ f \in [0..Len(seqs) -> Q] /\ f[0] = <<>>
                              /\ \A i \in 1..Len(seqs) : f[i] = f[i - 1] \o seqs[i]
                              /\ FlattenSeq(seqs) = f[Len(seqs)]
<1>1. /\ c \in Seq(Q) /\ m \in Nat /\ n \in Nat /\ Len(c) = m + n
      /\ \A p \in 1..m : c[p] = a[p]
      /\ \A j \in 1..n : c[m + j] = b[j]
  BY ConcatPlaces
<1>2. /\ \A i \in 1..m : a[i] \in Q
      /\ \A i \in 1..n : b[i] \in Q
      /\ <<>> \in Q
  OBVIOUS
<1>3. \A seqs \in Seq(Q) : \E f : Builds(f, seqs)
  BY FlattenSeqBuilds
<1>4. /\ \A s, t \in Q : s \o t \in Q
      /\ \A s, t, u \in Q : (s \o t) \o u = s \o (t \o u)
      /\ \A s \in Q : s \o <<>> = s
  BY ConcatProperties, ConcatAssociative, ConcatEmptySeq
<1> HIDE DEF Builds, c, Q
<1>5. PICK f : Builds(f, c)
  BY <1>1, <1>3
<1>6. PICK g : Builds(g, a)
  BY <1>3 DEF Q
<1>7. PICK h : Builds(h, b)
  BY <1>3 DEF Q
<1> HIDE DEF m, n
<1>a. /\ f \in [0..(m + n) -> Q] /\ f[0] = <<>> /\ FlattenSeq(c) = f[m + n]
      /\ \A i \in 1..(m + n) : f[i] = f[i - 1] \o c[i]
  BY <1>1, <1>5 DEF Builds
<1>b. /\ g \in [0..m -> Q] /\ g[0] = <<>> /\ FlattenSeq(a) = g[m]
      /\ \A i \in 1..m : g[i] = g[i - 1] \o a[i]
  BY <1>6 DEF Builds, m
<1>c. /\ h \in [0..n -> Q] /\ h[0] = <<>> /\ FlattenSeq(b) = h[n]
      /\ \A i \in 1..n : h[i] = h[i - 1] \o b[i]
  BY <1>7 DEF Builds, n
<1>8. f[m] = g[m]
  <2> DEFINE I == {i \in 0..m : f[i] = g[i]}
  <2>1. 0 \in I
    BY <1>1, <1>a, <1>b
  <2>2. \A k \in 0..(m - 1) : k \in I => k + 1 \in I
    <3> SUFFICES ASSUME NEW k \in 0..(m - 1), f[k] = g[k]
                 PROVE  f[k + 1] = g[k + 1]
      BY <1>1
    <3>1. k + 1 \in 1..m /\ k + 1 \in 1..(m + n) /\ (k + 1) - 1 = k
      BY <1>1
    <3>2. f[k + 1] = f[k] \o c[k + 1]
      BY <3>1, <1>a
    <3>3. g[k + 1] = g[k] \o a[k + 1]
      BY <3>1, <1>b
    <3>4. c[k + 1] = a[k + 1]
      BY <3>1, <1>1
    <3>5. QED
      BY <3>2, <3>3, <3>4
  <2> HIDE DEF I
  <2>3. \A k \in 0..m : k \in I
    BY <1>1, <2>1, <2>2, Upwards
  <2>4. QED
    BY <2>3, <1>1 DEF I
<1>9. f[m + n] = g[m] \o h[n]
  <2> DEFINE P(j) == f[m + j] = g[m] \o h[j]
             I == {j \in 0..n : P(j)}
  <2>0. g[m] \in Q
    BY <1>b, <1>1
  <2>1. P(0)
    <3>1. g[m] \o h[0] = g[m] /\ m + 0 = m
      BY <2>0, <1>4, <1>1, <1>c
    <3>2. f[m + 0] = g[m]
      BY <3>1, <1>8, Zenon
    <3>3. QED
      BY <3>1, <3>2, Zenon
  <2>2. \A k \in 0..(n - 1) : P(k) => P(k + 1)
    <3> SUFFICES ASSUME NEW k \in 0..(n - 1), f[m + k] = g[m] \o h[k]
                 PROVE  f[m + (k + 1)] = g[m] \o h[k + 1]
      BY Zenon
    <3>1. /\ k + 1 \in 1..n /\ m + (k + 1) \in 1..(m + n) /\ (m + (k + 1)) - 1 = m + k
          /\ (k + 1) - 1 = k /\ k \in 0..n
      BY <1>1
    <3>2. f[m + (k + 1)] = f[m + k] \o c[m + (k + 1)]
      BY <3>1, <1>a
    <3>3. h[k + 1] = h[k] \o b[k + 1]
      BY <3>1, <1>c
    <3>4. c[m + (k + 1)] = b[k + 1]
      BY <3>1, <1>1
    <3>5. h[k] \in Q /\ b[k + 1] \in Q
      BY <3>1, <1>2, <1>c DEF n
    <3>6. (g[m] \o h[k]) \o b[k + 1] = g[m] \o (h[k] \o b[k + 1])
      BY <1>4, <2>0, <3>5, Zenon
    <3>7. QED
      BY <3>2, <3>3, <3>4, <3>6, Zenon
  <2>3. P(n)
    <3> HIDE DEF P
    <3>1. 0 \in I
      BY <1>1, <2>1
    <3>2. \A k \in 0..(n - 1) : k \in I => k + 1 \in I
      BY <1>1, <2>2
    <3>3. n \in 0..n
      BY <1>1
    <3> HIDE DEF I
    <3>4. \A k \in 0..n : k \in I
      BY <1>1, <3>1, <3>2, Upwards
    <3>5. n \in I
      BY <3>3, <3>4
    <3>6. QED
      BY <3>5 DEF I
  <2>4. QED
    BY <2>3
<1>10. QED
  BY <1>9, <1>a, <1>b, <1>c DEF c

\* Array.flatMap: the sequences that H has for the elements of s, joined.  (A set
\* of functions is opaque to the provers until its definition is cited.)
Expansions(S, T) == [S -> Seq(T)]
Pieces(s, H) == [i \in DOMAIN s |-> H[s[i]]]
FlatMap(s, H) == FlattenSeq(Pieces(s, H))

\* The piece of an element is what H has for it.
LEMMA PieceOf ==
    ASSUME NEW S, NEW T, NEW s \in Seq(S), NEW H \in Expansions(S, T), NEW i \in 1..Len(s)
    PROVE  Pieces(s, H)[i] = H[s[i]]
BY DEF Pieces, Expansions

\* The pieces are as many as the elements.
LEMMA PiecesType ==
    ASSUME NEW S, NEW T, NEW s \in Seq(S), NEW H \in Expansions(S, T)
    PROVE  Pieces(s, H) \in Seq(Seq(T)) /\ Len(Pieces(s, H)) = Len(s)
<1>1. PICK Q, n : Q = Seq(T) /\ n = Len(s)
  OBVIOUS
<1>2. n \in Nat /\ DOMAIN s = 1..n
  BY <1>1
<1>3. \A i \in 1..n : s[i] \in S
  BY <1>1
<1>4. \A i \in 1..n : H[s[i]] \in Q
  BY <1>1, <1>3 DEF Expansions
<1>5. Pieces(s, H) \in [1..n -> Q]
  BY <1>2, <1>4 DEF Pieces
<1>6. \A p \in [1..n -> Q] : p \in Seq(Q) /\ Len(p) = n
  BY <1>2
<1>7. QED
  BY <1>1, <1>5, <1>6, Zenon

\* A flatMap has the elements that H gives.
LEMMA FlatMapType ==
    ASSUME NEW S, NEW T, NEW s \in Seq(S), NEW H \in Expansions(S, T)
    PROVE  FlatMap(s, H) \in Seq(T)
BY PiecesType, FlattenSeqPlaces DEF FlatMap

\* Nothing comes of nothing.
LEMMA FlatMapEmpty == ASSUME NEW H PROVE FlatMap(<<>>, H) = <<>>
<1>1. Pieces(<<>>, H) = <<>>
  BY DEF Pieces
<1>2. QED
  BY <1>1, FlattenSeqEmpty DEF FlatMap

\* A flatMap goes through two sequences one after the other.
LEMMA FlatMapConcat ==
    ASSUME NEW S, NEW T, NEW s \in Seq(S), NEW t \in Seq(S), NEW H \in Expansions(S, T)
    PROVE  FlatMap(s \o t, H) = FlatMap(s, H) \o FlatMap(t, H)
<1> DEFINE Q == Seq(T)
           Fits(u, q) == /\ q \in Seq(Q) /\ Len(q) = Len(u)
                         /\ \A i \in 1..Len(u) : q[i] = H[u[i]]
           m == Len(s)
           n == Len(t)
<1>1. \A u \in Seq(S) : Fits(u, Pieces(u, H))
  <2> TAKE u \in Seq(S)
  <2>1. Pieces(u, H) \in Seq(Q) /\ Len(Pieces(u, H)) = Len(u)
    BY PiecesType
  <2>2. \A i \in 1..Len(u) : Pieces(u, H)[i] = H[u[i]]
    BY PieceOf
  <2>3. QED
    BY <2>1, <2>2
<1>2. /\ s \o t \in Seq(S) /\ m \in Nat /\ n \in Nat /\ Len(s \o t) = m + n
      /\ \A p \in 1..m : (s \o t)[p] = s[p]
      /\ \A j \in 1..n : (s \o t)[m + j] = t[j]
  BY ConcatPlaces
<1> DEFINE a == Pieces(s, H)
           b == Pieces(t, H)
           c == Pieces(s \o t, H)
<1>b. Fits(s, a) /\ Fits(t, b) /\ Fits(s \o t, c)
  <2> HIDE DEF Fits
  <2>1. QED
    BY <1>1, <1>2
<1> HIDE DEF a, b, c
<1>3. /\ a \in Seq(Q) /\ Len(a) = m /\ \A i \in 1..m : a[i] = H[s[i]]
      /\ b \in Seq(Q) /\ Len(b) = n /\ \A i \in 1..n : b[i] = H[t[i]]
      /\ c \in Seq(Q) /\ Len(c) = m + n /\ \A i \in 1..(m + n) : c[i] = H[(s \o t)[i]]
  BY <1>b, <1>2
<1> HIDE DEF Fits, Q
<1>4. /\ a \o b \in Seq(Q) /\ Len(a \o b) = m + n
      /\ \A p \in 1..m : (a \o b)[p] = a[p]
      /\ \A j \in 1..n : (a \o b)[m + j] = b[j]
  <2> DEFINE Joins(x, y, z) == /\ z \in Seq(Q) /\ Len(z) = Len(x) + Len(y)
                               /\ \A p \in 1..Len(x) : z[p] = x[p]
                               /\ \A j \in 1..Len(y) : z[Len(x) + j] = y[j]
  <2>1. \A x, y \in Seq(Q) : Joins(x, y, x \o y)
    BY ConcatPlaces
  <2> HIDE DEF Joins
  <2>2. Joins(a, b, a \o b)
    BY <1>3, <2>1, Zenon
  <2>3. QED
    BY <1>3, <2>2 DEF Joins
<1>5. c = a \o b
  <2>1. \A i \in 1..(m + n) : c[i] = (a \o b)[i]
    <3> TAKE i \in 1..(m + n)
    <3>1. CASE i \in 1..m
      BY <3>1, <1>2, <1>3, <1>4
    <3>2. CASE i \notin 1..m
      <4>1. i - m \in 1..n /\ m + (i - m) = i
        BY <3>2, <1>2
      <4>2. (s \o t)[i] = t[i - m] /\ (a \o b)[i] = b[i - m]
        BY <4>1, <1>2, <1>4
      <4>3. QED
        BY <4>1, <4>2, <1>3
    <3>3. QED
      BY <3>1, <3>2
  <2>2. QED
    BY <2>1, <1>3, <1>4, SameSequence
<1>6. FlattenSeq(a \o b) = FlattenSeq(a) \o FlattenSeq(b)
  BY <1>3, FlattenSeqConcat DEF Q
<1>7. QED
  BY <1>5, <1>6 DEF FlatMap, a, b, c

\* Whatever a sequence of one element has is what H has for it.
LEMMA FlatMapSingle ==
    ASSUME NEW S, NEW T, NEW x \in S, NEW H \in Expansions(S, T)
    PROVE  FlatMap(<<x>>, H) = H[x]
<1>1. Pieces(<<x>>, H) = <<H[x]>>
  BY DEF Pieces
<1>2. H[x] \in Seq(T) /\ <<H[x]>> \in Seq(Seq(T)) /\ Len(<<H[x]>>) = 1 /\ <<H[x]>>[1] = H[x]
  BY DEF Expansions
<1>3. PICK f \in [0..1 -> Seq(T)] :
         /\ f[0] = <<>>
         /\ \A i \in 1..1 : f[i] = f[i - 1] \o <<H[x]>>[i]
         /\ FlattenSeq(<<H[x]>>) = f[1]
  BY <1>2, FlattenSeqBuilds
<1>4. f[1] = <<>> \o H[x]
  <2>1. f[1] = f[1 - 1] \o <<H[x]>>[1] /\ 1 - 1 = 0
    BY <1>3
  <2>2. QED
    BY <2>1, <1>2, <1>3, Zenon
<1>5. QED
  BY <1>1, <1>2, <1>3, <1>4, ConcatEmptySeq DEF FlatMap

\* One flatMap after another is one flatMap.
LEMMA FlatMapTwice ==
    ASSUME NEW S, NEW T, NEW U, NEW s \in Seq(S),
           NEW G \in Expansions(S, T), NEW H \in Expansions(T, U)
    PROVE  FlatMap(FlatMap(s, G), H) = FlatMap(s, [x \in S |-> FlatMap(G[x], H)])
<1> DEFINE n == Len(s)
           QT == Seq(T)
           QU == Seq(U)
           GH == [x \in S |-> FlatMap(G[x], H)]
           gs == Pieces(s, G)
           hs == Pieces(s, GH)
           Builds(f, seqs, Q) == /\ f \in [0..Len(seqs) -> Q] /\ f[0] = <<>>
                                 /\ \A i \in 1..Len(seqs) : f[i] = f[i - 1] \o seqs[i]
                                 /\ FlattenSeq(seqs) = f[Len(seqs)]
<1>1. GH \in Expansions(S, U) /\ \A x \in S : GH[x] = FlatMap(G[x], H)
  BY FlatMapType DEF Expansions
<1>2. /\ gs \in Seq(QT) /\ Len(gs) = n /\ \A i \in 1..n : gs[i] = G[s[i]] /\ gs[i] \in QT
      /\ FlattenSeq(gs) = FlatMap(s, G)
  <2>a. gs \in Seq(QT) /\ Len(gs) = n
    BY PiecesType
  <2>b. \A i \in 1..n : gs[i] = G[s[i]]
    BY PieceOf
  <2>1. gs \in Seq(QT) /\ Len(gs) = n /\ \A i \in 1..n : gs[i] = G[s[i]]
    BY <2>a, <2>b
  <2>2. \A i \in 1..n : G[s[i]] \in QT
    BY DEF Expansions
  <2> HIDE DEF gs
  <2>3. QED
    BY <2>1, <2>2 DEF FlatMap, gs
<1>3. /\ hs \in Seq(QU) /\ Len(hs) = n /\ \A i \in 1..n : hs[i] = GH[s[i]]
      /\ FlattenSeq(hs) = FlatMap(s, GH)
  <2> DEFINE Fits(K, q) == q \in Seq(QU) /\ Len(q) = n /\ \A i \in 1..n : q[i] = K[s[i]]
  <2>1. \A K \in Expansions(S, U) : Fits(K, Pieces(s, K))
    <3> TAKE K \in Expansions(S, U)
    <3>1. Pieces(s, K) \in Seq(QU) /\ Len(Pieces(s, K)) = n
      BY PiecesType
    <3>2. \A i \in 1..n : Pieces(s, K)[i] = K[s[i]]
      BY PieceOf
    <3>3. QED
      BY <3>1, <3>2
  <2> HIDE DEF Fits, GH
  <2>2. Fits(GH, hs)
    BY <1>1, <2>1, Zenon
  <2>3. QED
    BY <2>2 DEF Fits, FlatMap
<1>4. \A i \in 1..n : hs[i] = FlatMap(gs[i], H)
  <2> HIDE DEF GH, gs, hs
  <2>1. \A i \in 1..n : s[i] \in S
    OBVIOUS
  <2>2. QED
    BY <2>1, <1>1, <1>2, <1>3
<1>5. PICK f : Builds(f, gs, QT)
  <2>1. \A q \in Seq(QT) : \E b : Builds(b, q, QT)
    BY FlattenSeqBuilds
  <2> HIDE DEF gs, Builds
  <2>2. QED
    BY <2>1, <1>2
<1>6. PICK h : Builds(h, hs, QU)
  <2>1. \A q \in Seq(QU) : \E b : Builds(b, q, QU)
    BY FlattenSeqBuilds
  <2> HIDE DEF hs, Builds
  <2>2. QED
    BY <2>1, <1>3
<1>7. n \in Nat
  OBVIOUS
<1> HIDE DEF n, gs, hs, GH
<1>8. /\ f \in [0..n -> QT] /\ f[0] = <<>> /\ FlatMap(s, G) = f[n]
      /\ \A i \in 1..n : f[i] = f[i - 1] \o gs[i]
  BY <1>2, <1>5
<1>9. /\ h \in [0..n -> QU] /\ h[0] = <<>> /\ FlatMap(s, GH) = h[n]
      /\ \A i \in 1..n : h[i] = h[i - 1] \o hs[i]
  BY <1>3, <1>6
<1>10. \A a, b \in QT : FlatMap(a \o b, H) = FlatMap(a, H) \o FlatMap(b, H)
  BY FlatMapConcat
<1>11. FlatMap(<<>>, H) = <<>>
  BY FlatMapEmpty
<1> HIDE DEF QT, QU, Builds
<1> DEFINE P(k) == FlatMap(f[k], H) = h[k]
           I == {k \in 0..n : P(k)}
<1>12. P(0)
  BY <1>8, <1>9, <1>11
<1>13. \A k \in 0..(n - 1) : P(k) => P(k + 1)
  <2> SUFFICES ASSUME NEW k \in 0..(n - 1), FlatMap(f[k], H) = h[k]
               PROVE  FlatMap(f[k + 1], H) = h[k + 1]
    BY Zenon
  <2>1. k + 1 \in 1..n /\ (k + 1) - 1 = k /\ k \in 0..n
    BY <1>7
  <2>2. f[k + 1] = f[k] \o gs[k + 1] /\ h[k + 1] = h[k] \o hs[k + 1]
    BY <2>1, <1>8, <1>9
  <2>3. f[k] \in QT /\ gs[k + 1] \in QT
    BY <2>1, <1>2, <1>8
  <2>4. FlatMap(f[k] \o gs[k + 1], H) = FlatMap(f[k], H) \o FlatMap(gs[k + 1], H)
    BY <2>3, <1>10, Zenon
  <2>5. hs[k + 1] = FlatMap(gs[k + 1], H)
    BY <2>1, <1>4, Zenon
  <2>6. QED
    BY <2>2, <2>4, <2>5, Zenon
<1>14. P(n)
  <2> HIDE DEF P
  <2>1. 0 \in I
    BY <1>7, <1>12
  <2>2. \A k \in 0..(n - 1) : k \in I => k + 1 \in I
    BY <1>7, <1>13
  <2>3. n \in 0..n
    BY <1>7
  <2> HIDE DEF I
  <2>4. \A k \in 0..n : k \in I
    BY <1>7, <2>1, <2>2, Upwards
  <2>5. n \in I
    BY <2>3, <2>4
  <2>6. QED
    BY <2>5 DEF I
<1>15. QED
  BY <1>8, <1>9, <1>14 DEF GH

\* Nothing comes of elements that have nothing.
LEMMA FlatMapNothing ==
    ASSUME NEW S, NEW T, NEW s \in Seq(S), NEW H \in Expansions(S, T),
           \A i \in 1..Len(s) : H[s[i]] = <<>>
    PROVE  FlatMap(s, H) = <<>>
<1> DEFINE q == Pieces(s, H)
<1>1. q \in Seq(Seq(T)) /\ Len(q) = Len(s) /\ Len(s) \in Nat
  BY PiecesType
<1>2. \A i \in 1..Len(s) : q[i] = <<>>
  BY PieceOf
<1>3. PICK f \in [0..Len(q) -> Seq(T)] :
         /\ f[0] = <<>>
         /\ \A i \in 1..Len(q) : f[i] = f[i - 1] \o q[i]
         /\ FlattenSeq(q) = f[Len(q)]
  BY <1>1, FlattenSeqBuilds
<1> HIDE DEF q
<1> DEFINE n == Len(s)
           I == {k \in 0..n : f[k] = <<>>}
<1>4. 0 \in I
  BY <1>1, <1>3
<1>5. \A k \in 0..(n - 1) : k \in I => k + 1 \in I
  <2> SUFFICES ASSUME NEW k \in 0..(n - 1), f[k] = <<>>
               PROVE  f[k + 1] = <<>>
    BY <1>1
  <2>1. k + 1 \in 1..n /\ (k + 1) - 1 = k
    BY <1>1
  <2>2. f[k + 1] = f[k] \o q[k + 1] /\ q[k + 1] = <<>>
    BY <2>1, <1>1, <1>2, <1>3
  <2>3. <<>> \o <<>> = <<>>
    BY ConcatEmptySeq
  <2>4. QED
    BY <2>2, <2>3, Zenon
<1>6. n \in Nat /\ n \in 0..n
  BY <1>1
<1> HIDE DEF I
<1>7. \A k \in 0..n : k \in I
  BY <1>4, <1>5, <1>6, Upwards
<1>8. f[n] = <<>>
  BY <1>6, <1>7 DEF I
<1>9. QED
  BY <1>1, <1>3, <1>8 DEF FlatMap, q

\* An element of what H has for an element stands behind all those before.
LEMMA FlatMapPlaces ==
    ASSUME NEW S, NEW T, NEW s \in Seq(S), NEW H \in Expansions(S, T)
    PROVE  \E off : Placed(Pieces(s, H), FlatMap(s, H), off)
BY PiecesType, FlattenSeqPlaces DEF FlatMap

\* Array.map is a flatMap with one element for each.
LEMMA FlatMapOfSingles ==
    ASSUME NEW S, NEW T, NEW s \in Seq(S), NEW F \in [S -> T],
           NEW H \in Expansions(S, T), \A x \in S : H[x] = <<F[x]>>
    PROVE  /\ Len(FlatMap(s, H)) = Len(s)
           /\ \A i \in 1..Len(s) : FlatMap(s, H)[i] = F[s[i]]
<1> DEFINE q == Pieces(s, H)
           n == Len(s)
           r == FlatMap(s, H)
<1>1. H \in Expansions(S, T)
  OBVIOUS
<1>2. q \in Seq(Seq(T)) /\ Len(q) = n
  BY <1>1, PiecesType
<1>3. n \in Nat /\ \A i \in 1..n : s[i] \in S
  OBVIOUS
<1>4. \A i \in 1..n : q[i] = H[s[i]]
  BY <1>1, PieceOf
<1>a. PICK off : Placed(q, r, off)
  BY <1>1, FlatMapPlaces
<1> HIDE DEF q, n, r
<1>5. \A i \in 1..n : Len(q[i]) = 1 /\ q[i][1] = F[s[i]]
  <2> TAKE i \in 1..n
  <2>1. q[i] = <<F[s[i]]>>
    BY <1>3, <1>4
  <2>2. QED
    BY <2>1
<1>6. /\ off \in [0..n -> Nat] /\ off[0] = 0 /\ off[n] = Len(r)
      /\ \A i \in 1..n : off[i] = off[i - 1] + Len(q[i])
      /\ \A i \in 1..n : \A j \in 1..Len(q[i]) : r[off[i - 1] + j] = q[i][j]
  BY <1>2, <1>a DEF Placed
<1> DEFINE I == {k \in 0..n : off[k] = k}
<1>7. 0 \in I
  BY <1>3, <1>6
<1>8. \A k \in 0..(n - 1) : k \in I => k + 1 \in I
  <2> SUFFICES ASSUME NEW k \in 0..(n - 1), off[k] = k
               PROVE  off[k + 1] = k + 1
    BY <1>3
  <2>1. k + 1 \in 1..n /\ (k + 1) - 1 = k
    BY <1>3
  <2>2. off[k + 1] = off[k] + 1
    BY <2>1, <1>5, <1>6
  <2>3. QED
    BY <2>2
<1>9. \A k \in 0..n : off[k] = k
  <2> HIDE DEF I
  <2>1. \A k \in 0..n : k \in I
    BY <1>3, <1>7, <1>8, Upwards
  <2>2. QED
    BY <2>1 DEF I
<1>10. \A i \in 1..n : r[i] = F[s[i]]
  <2> TAKE i \in 1..n
  <2>1. i - 1 \in 0..n /\ (i - 1) + 1 = i
    BY <1>3
  <2>2. off[i - 1] = i - 1
    BY <1>9, <2>1
  <2>3. r[off[i - 1] + 1] = q[i][1]
    <3>1. 1 \in 1..Len(q[i])
      BY <1>5
    <3>2. QED
      BY <3>1, <1>6
  <2>4. QED
    BY <2>1, <2>2, <2>3, <1>5
<1>11. Len(r) = n
  <2>1. n \in 0..n
    BY <1>3
  <2>2. QED
    BY <2>1, <1>6, <1>9
<1>12. QED
  BY <1>10, <1>11 DEF n, r

\* What is in a flatMap is had for an element, and the other way round.
LEMMA FlatMapContains ==
    ASSUME NEW S, NEW T, NEW s \in Seq(S), NEW H \in Expansions(S, T), NEW e
    PROVE  Contains(FlatMap(s, H), e) <=> \E x \in S : Contains(s, x) /\ Contains(H[x], e)
<1> DEFINE q == Pieces(s, H)
           n == Len(s)
           r == FlatMap(s, H)
<1>1. q \in Seq(Seq(T)) /\ Len(q) = n /\ n \in Nat
  BY PiecesType
<1>2. \A i \in 1..n : q[i] = H[s[i]]
  BY PieceOf
<1>a. PICK off : Placed(q, r, off)
  BY FlatMapPlaces
<1>b. \A i \in 1..n : s[i] \in S
  OBVIOUS
<1> HIDE DEF q, n, r
<1>3. /\ off \in [0..n -> Nat] /\ off[0] = 0 /\ off[n] = Len(r)
      /\ \A i \in 1..n : off[i] = off[i - 1] + Len(q[i])
      /\ \A i, k \in 0..n : i <= k => off[i] <= off[k]
      /\ \A i \in 1..n : \A j \in 1..Len(q[i]) : r[off[i - 1] + j] = q[i][j]
      /\ \A p \in 1..Len(r) : \E i \in 1..n : \E j \in 1..Len(q[i]) : p = off[i - 1] + j
  BY <1>1, <1>a DEF Placed
<1>4. \A i \in 1..n : Len(q[i]) \in Nat
  BY <1>1
<1>5. \A p \in 1..Len(r) : \E i \in 1..n : \E j \in 1..Len(q[i]) : r[p] = q[i][j]
  <2> TAKE p \in 1..Len(r)
  <2>1. PICK i \in 1..n : \E j \in 1..Len(q[i]) : p = off[i - 1] + j
    BY <1>3
  <2>2. PICK j \in 1..Len(q[i]) : p = off[i - 1] + j
    BY <2>1
  <2>3. r[p] = q[i][j]
    BY <2>2, <1>3
  <2>4. QED
    BY <2>3
<1>6. \A i \in 1..n : \A j \in 1..Len(q[i]) : \E p \in 1..Len(r) : r[p] = q[i][j]
  <2> TAKE i \in 1..n
  <2> TAKE j \in 1..Len(q[i])
  <2>1. i - 1 \in 0..n /\ i \in 0..n /\ n \in 0..n /\ i <= n
    BY <1>1
  <2>2. off[i - 1] \in Nat /\ off[i] \in Nat /\ off[n] \in Nat
    BY <2>1, <1>3
  <2>3. off[i] = off[i - 1] + Len(q[i]) /\ off[i] <= Len(r)
    BY <2>1, <1>3
  <2>4. off[i - 1] + j \in 1..Len(r)
    BY <2>2, <2>3, <1>3, <1>4
  <2>5. QED
    BY <2>4, <1>3
<1>7. ASSUME Contains(r, e)
      PROVE  \E x \in S : Contains(s, x) /\ Contains(H[x], e)
  <2>1. PICK p \in 1..Len(r) : r[p] = e
    BY <1>7 DEF Contains
  <2>2. PICK i \in 1..n : \E j \in 1..Len(q[i]) : r[p] = q[i][j]
    BY <1>5
  <2>3. Contains(q[i], e) /\ Contains(s, s[i])
    BY <2>1, <2>2 DEF Contains, n
  <2>4. q[i] = H[s[i]] /\ s[i] \in S
    BY <1>2, <1>b
  <2>5. QED
    BY <2>3, <2>4
<1>8. ASSUME NEW x \in S, Contains(s, x), Contains(H[x], e)
      PROVE  Contains(r, e)
  <2>1. PICK i \in 1..n : s[i] = x
    BY <1>8 DEF Contains, n
  <2>2. Contains(q[i], e)
    BY <2>1, <1>2, <1>8
  <2>3. QED
    BY <2>2, <1>6 DEF Contains
<1>9. QED
  BY <1>7, <1>8 DEF r

\* Whoever needs another one in front of it: every element of Needy stands behind
\* one that Serves relates to it.
Behind(s, Needy, Serves) ==
    \A p \in 1..Len(s) : s[p] \in Needy =>
       \E d \in 1..(p - 1) : <<s[d], s[p]>> \in Serves

\* A flatMap keeps that order, when what is needy comes of the needy and what
\* serves comes of what serves.
LEMMA FlatMapBehind ==
    ASSUME NEW S, NEW T, NEW s \in Seq(S), NEW H \in Expansions(S, T),
           NEW Needy, NEW Serves, NEW Needy2, NEW Serves2,
           Behind(s, Needy, Serves),
           \A x \in S : \A i \in Needy2 : Contains(H[x], i) =>
              /\ x \in Needy
              /\ \A y \in S : <<y, x>> \in Serves =>
                    \E z : Contains(H[y], z) /\ <<z, i>> \in Serves2
    PROVE  Behind(FlatMap(s, H), Needy2, Serves2)
<1> DEFINE q == Pieces(s, H)
           n == Len(s)
           r == FlatMap(s, H)
<1>1. q \in Seq(Seq(T)) /\ Len(q) = n /\ n \in Nat
  BY PiecesType
<1>2. \A i \in 1..n : q[i] = H[s[i]]
  BY PieceOf
<1>3. PICK off : Placed(q, r, off)
  BY FlatMapPlaces
<1>b. \A i \in 1..n : s[i] \in S
  OBVIOUS
<1> HIDE DEF q, n, r
<1>4. /\ off \in [0..n -> Nat] /\ off[n] = Len(r)
      /\ \A i \in 1..n : off[i] = off[i - 1] + Len(q[i])
      /\ \A i, k \in 0..n : i <= k => off[i] <= off[k]
      /\ \A i \in 1..n : \A j \in 1..Len(q[i]) : r[off[i - 1] + j] = q[i][j]
      /\ \A p \in 1..Len(r) : \E i \in 1..n : \E j \in 1..Len(q[i]) : p = off[i - 1] + j
  BY <1>1, <1>3 DEF Placed
<1>5. \A i \in 1..n : Len(q[i]) \in Nat
  BY <1>1
<1>6. SUFFICES ASSUME NEW p \in 1..Len(r), r[p] \in Needy2
               PROVE  \E d \in 1..(p - 1) : <<r[d], r[p]>> \in Serves2
  BY DEF Behind, r
<1>a. PICK i \in 1..n : \E j \in 1..Len(q[i]) : p = off[i - 1] + j
  BY <1>4
<1>7. PICK j \in 1..Len(q[i]) : p = off[i - 1] + j
  BY <1>a
<1>8. r[p] = q[i][j] /\ q[i] = H[s[i]] /\ s[i] \in S
  BY <1>2, <1>4, <1>7, <1>b
<1>c. Contains(H[s[i]], r[p])
  BY <1>8 DEF Contains
<1>9. /\ s[i] \in Needy
      /\ \A y \in S : <<y, s[i]>> \in Serves => \E z : Contains(H[y], z) /\ <<z, r[p]>> \in Serves2
  BY <1>6, <1>8, <1>c
<1>10. PICK k \in 1..(i - 1) : <<s[k], s[i]>> \in Serves
  BY <1>9 DEF Behind, n
<1>11. k \in 1..n /\ k \in 0..n /\ k - 1 \in 0..n /\ i - 1 \in 0..n /\ k <= i - 1
  BY <1>1
<1>12. q[k] = H[s[k]] /\ s[k] \in S
  BY <1>11, <1>2, <1>b
<1>d. PICK z : Contains(q[k], z) /\ <<z, r[p]>> \in Serves2
  BY <1>9, <1>10, <1>12
<1>13. PICK e \in 1..Len(q[k]) : <<q[k][e], r[p]>> \in Serves2
  BY <1>d DEF Contains
<1>14. off[k - 1] \in Nat /\ off[k] \in Nat /\ off[i - 1] \in Nat /\ Len(q[k]) \in Nat
  BY <1>4, <1>5, <1>11
<1>15. off[k] = off[k - 1] + Len(q[k]) /\ off[k] <= off[i - 1]
  BY <1>4, <1>11
<1>16. off[k - 1] + e \in 1..(p - 1)
  <2>1. Len(q[i]) \in Nat
    BY <1>5
  <2>2. j \in Nat /\ j >= 1 /\ e \in Nat /\ e >= 1 /\ e <= Len(q[k])
    BY <2>1, <1>14
  <2>3. \A a, b, c, l, x, y \in Nat :
           b = a + l /\ b <= c /\ x >= 1 /\ x <= l /\ y >= 1 => a + x \in 1..((c + y) - 1)
    OBVIOUS
  <2>4. off[k - 1] + e \in 1..((off[i - 1] + j) - 1)
    BY <2>2, <2>3, <1>14, <1>15, Zenon
  <2>5. QED
    BY <2>4, <1>7
<1>17. r[off[k - 1] + e] = q[k][e]
  BY <1>4, <1>11
<1>18. QED
  BY <1>8, <1>13, <1>16, <1>17

\* Elements that need nothing may stand in front.
LEMMA BehindFreeOnes ==
    ASSUME NEW S, NEW s \in Seq(S), NEW t \in Seq(S), NEW Needy, NEW Serves,
           \A p \in 1..Len(s) : s[p] \notin Needy,
           Behind(t, Needy, Serves)
    PROVE  Behind(s \o t, Needy, Serves)
<1> DEFINE r == s \o t
           m == Len(s)
           n == Len(t)
<1>1. /\ m \in Nat /\ n \in Nat /\ Len(r) = m + n
      /\ \A p \in 1..m : r[p] = s[p]
      /\ \A j \in 1..n : r[m + j] = t[j]
  BY ConcatPlaces
<1> HIDE DEF r, m, n
<1>2. SUFFICES ASSUME NEW p \in 1..Len(r), r[p] \in Needy
               PROVE  \E d \in 1..(p - 1) : <<r[d], r[p]>> \in Serves
  BY DEF Behind, r
<1>3. p \notin 1..m
  BY <1>1, <1>2 DEF m
<1>4. p - m \in 1..n /\ m + (p - m) = p
  BY <1>1, <1>3
<1>5. r[p] = t[p - m]
  BY <1>1, <1>4
<1>6. PICK d \in 1..((p - m) - 1) : <<t[d], t[p - m]>> \in Serves
  BY <1>2, <1>4, <1>5 DEF Behind, n
<1>7. d \in 1..n /\ m + d \in 1..(p - 1)
  BY <1>1, <1>4
<1>8. r[m + d] = t[d]
  BY <1>1, <1>7
<1>9. QED
  BY <1>5, <1>6, <1>7, <1>8

\* A flatMap depends on what is had for the elements that are there.
LEMMA FlatMapSame ==
    ASSUME NEW S, NEW s \in Seq(S), NEW H, NEW K, \A x : Contains(s, x) => H[x] = K[x]
    PROVE  FlatMap(s, H) = FlatMap(s, K)
<1>1. \A i \in DOMAIN s : H[s[i]] = K[s[i]]
  BY DEF Contains
<1>2. Pieces(s, H) = Pieces(s, K)
  BY <1>1 DEF Pieces
<1>3. QED
  BY <1>2 DEF FlatMap

\* What is in one of two sequences is in their concatenation, and nothing else.
LEMMA ConcatContains ==
    ASSUME NEW S, NEW s \in Seq(S), NEW t \in Seq(S), NEW e
    PROVE  Contains(s \o t, e) <=> Contains(s, e) \/ Contains(t, e)
<1> DEFINE r == s \o t
           m == Len(s)
           n == Len(t)
<1>1. /\ m \in Nat /\ n \in Nat /\ Len(r) = m + n
      /\ \A p \in 1..m : r[p] = s[p]
      /\ \A j \in 1..n : r[m + j] = t[j]
  BY ConcatPlaces
<1> HIDE DEF r, m, n
<1>2. \A p \in 1..m : \E i \in 1..Len(r) : r[i] = s[p]
  BY <1>1
<1>3. \A p \in 1..n : \E i \in 1..Len(r) : r[i] = t[p]
  <2> TAKE p \in 1..n
  <2>1. m + p \in 1..Len(r)
    BY <1>1
  <2>2. QED
    BY <2>1, <1>1
<1>4. \A i \in 1..Len(r) : \/ \E p \in 1..m : r[i] = s[p]
                           \/ \E p \in 1..n : r[i] = t[p]
  <2> TAKE i \in 1..Len(r)
  <2>1. CASE i \in 1..m
    BY <2>1, <1>1
  <2>2. CASE i \notin 1..m
    <3>1. i - m \in 1..n /\ m + (i - m) = i
      BY <2>2, <1>1
    <3>2. r[i] = t[i - m]
      BY <3>1, <1>1
    <3>3. QED
      BY <3>1, <3>2
  <2>3. QED
    BY <2>1, <2>2
<1>5. Contains(r, e) => Contains(s, e) \/ Contains(t, e)
  BY <1>4 DEF Contains, m, n
<1>6. Contains(s, e) \/ Contains(t, e) => Contains(r, e)
  BY <1>2, <1>3 DEF Contains, m, n
<1>7. QED
  BY <1>5, <1>6 DEF r
\* What is in a sequence is one of what it is made of.
LEMMA ContainsType ==
    ASSUME NEW S, NEW s \in Seq(S), NEW e, Contains(s, e)
    PROVE  e \in S
BY DEF Contains

\* What is in a sequence of one, and of none.
LEMMA ContainsOne ==
    ASSUME NEW x, NEW e
    PROVE  (Contains(<<x>>, e) <=> e = x) /\ ~Contains(<<>>, e)
BY DEF Contains

=============================================================================
