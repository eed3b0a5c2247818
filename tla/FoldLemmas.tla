----------------------------- MODULE FoldLemmas -----------------------------
(***************************************************************************)
(* Facts about FoldLeft with any operation.  An operation that a proof     *)
(* needs them for takes the place of Op in an instance of this module.     *)
(***************************************************************************)
EXTENDS CommunityLemmas

CONSTANT Op(_, _)

Fold(base, s) == FoldLeft(Op, base, s)

\* What a fold has come to after each of the first n elements.
Steps(h, base, s, n) ==
    /\ h[0] = base /\ \A i \in 1..n : h[i] = Op(h[i - 1], s[i])
    /\ Fold(base, s) = h[n]

\* The greatest of some numbers.
LEMMA GreatestOf ==
    ASSUME NEW k \in Nat, NEW z, z \subseteq 1..k, z # {}
    PROVE  Max(z) \in z /\ \A y \in z : y <= Max(z)
<1> DEFINE I == {k - y : y \in z}
<1>1. \A y \in z : y \in Nat /\ k - y \in Nat
  OBVIOUS
<1>2. I \subseteq Nat /\ I # {}
  BY <1>1
<1>3. PICK x \in I : \A y \in I : x <= y
  BY <1>2, LeastElement
<1>4. PICK m \in z : x = k - m
  BY <1>3
<1>5. \A y \in z : k - y \in I
  OBVIOUS
<1>6. \A y \in z : y <= m
  <2> TAKE y \in z
  <2>1. x <= k - y
    BY <1>3, <1>5
  <2>2. QED
    BY <1>4, <2>1
<1>7. \E m1 \in z : \A y \in z : m1 >= y
  BY <1>4, <1>6
<1>8. QED
  BY <1>7 DEF Max

\* The numbers up to one, and the greatest of them.
LEMMA GreatestOfRange ==
    ASSUME NEW k \in Nat
    PROVE  /\ Max(1..(k + 1)) = k + 1 /\ (1..(k + 1)) \ {k + 1} = 1..k
           /\ 1..(k + 1) # {}
<1>1. Max(1..(k + 1)) \in 1..(k + 1) /\ \A y \in 1..(k + 1) : y <= Max(1..(k + 1))
  BY GreatestOf
<1>2. QED
  BY <1>1

\* A fold goes from left to right, one element at a time.
LEMMA FoldGoes ==
    ASSUME NEW base, NEW s, NEW n \in Nat, DOMAIN s = 1..n
    PROVE  \E h : Steps(h, base, s, n)
<1> DEFINE Step(it, z) == IF z = {} THEN base ELSE Op(it[z \ {Max(z)}], s[Max(z)])
           Grows(it, k) == it = [z \in SUBSET (1..k) |-> Step(it, z)]
           I == {k \in 0..n : \E it : Grows(it, k)}
<1>1. 0 \in I
  <2> DEFINE it == [z \in SUBSET (1..0) |-> base]
  <2>1. \A z \in SUBSET (1..0) : it[z] = Step(it, z)
    <3> TAKE z \in SUBSET (1..0)
    <3>1. z = {}
      OBVIOUS
    <3>2. it[z] = base /\ Step(it, z) = base
      BY <3>1
    <3>3. QED
      BY <3>2
  <2>2. Grows(it, 0)
    BY <2>1
  <2>3. QED
    BY <2>2
<1>2. \A k \in 0..(n - 1) : k \in I => k + 1 \in I
  <2> SUFFICES ASSUME NEW k \in 0..(n - 1), k \in I
               PROVE  \E it : Grows(it, k + 1)
    <3>1. \A k \in 0..(n - 1) : k + 1 \in 0..n
      OBVIOUS
    <3> HIDE DEF Grows
    <3>2. QED
      BY <3>1, Zenon
  <2>1. PICK it : Grows(it, k)
    OBVIOUS
  <2> DEFINE g == [z \in SUBSET (1..(k + 1)) |-> IF z \subseteq 1..k THEN it[z] ELSE Step(it, z)]
  <2>2. \A z \in SUBSET (1..(k + 1)) : g[z] = Step(g, z)
    <3> TAKE z \in SUBSET (1..(k + 1))
    <3>1. z # {} => /\ z \ {Max(z)} \subseteq 1..k
                    /\ g[z \ {Max(z)}] = it[z \ {Max(z)}]
      <4> SUFFICES ASSUME z # {}
                   PROVE  /\ z \ {Max(z)} \subseteq 1..k
                          /\ g[z \ {Max(z)}] = it[z \ {Max(z)}]
        OBVIOUS
      <4>1. Max(z) \in z /\ \A y \in z : y <= Max(z)
        <5>1. k + 1 \in Nat /\ z \subseteq 1..(k + 1)
          OBVIOUS
        <5>2. QED
          BY <5>1, GreatestOf
      <4>2. PICK m : m = Max(z)
        OBVIOUS
      <4>3. z \ {m} \subseteq 1..k
        <5>1. m \in z /\ \A y \in z : y <= m
          BY <4>1, <4>2
        <5>2. \A y \in z \ {m} : y \in 1..k
          BY <5>1
        <5>3. QED
          BY <5>2
      <4>4. z \ {m} \in SUBSET (1..(k + 1))
        BY <4>3
      <4>5. g[z \ {m}] = it[z \ {m}]
        <5> HIDE DEF Step
        <5>1. QED
          BY <4>3, <4>4
      <4>6. QED
        BY <4>2, <4>3, <4>5
    <3>2. z \subseteq 1..k => it[z] = Step(it, z)
      <4> HIDE DEF Step
      <4>1. QED
        BY <2>1
    <3>3. g[z] = Step(it, z)
      <4> HIDE DEF Step
      <4>1. QED
        BY <3>2
    <3> HIDE DEF g
    <3>4. QED
      BY <3>1, <3>3
  <2>3. Grows(g, k + 1)
    <3> HIDE DEF Step
    <3>1. QED
      BY <2>2
  <2>4. QED
    BY <2>3
<1> HIDE DEF I
<1>3. n \in I
  <2>1. \A k \in 0..n : k \in I
    BY <1>1, <1>2, Upwards
  <2>2. QED
    BY <2>1
<1> DEFINE fold == CHOOSE it : Grows(it, n)
<1>4. Grows(fold, n)
  <2> HIDE DEF Grows
  <2>1. \E it : Grows(it, n)
    BY <1>3 DEF I
  <2>2. QED
    BY <2>1, Zenon
<1>5. Fold(base, s) = fold[1..n]
  BY Zenon DEF Fold, FoldLeft, MapThenFoldSet
<1> HIDE DEF fold
<1> DEFINE h == [k \in 0..n |-> fold[1..k]]
<1>6. \A z \in SUBSET (1..n) : fold[z] = Step(fold, z)
  <2> HIDE DEF Step
  <2>1. QED
    BY <1>4
<1>7. h[0] = base /\ Fold(base, s) = h[n]
  <2>1. 1..0 = {} /\ 1..0 \in SUBSET (1..n)
    OBVIOUS
  <2>2. fold[1..0] = base
    BY <1>6, <2>1
  <2>3. QED
    BY <1>5, <2>2
<1>8. \A i \in 1..n : h[i] = Op(h[i - 1], s[i])
  <2> TAKE i \in 1..n
  <2>1. i - 1 \in Nat /\ (i - 1) + 1 = i
    OBVIOUS
  <2>2. Max(1..i) = i /\ (1..i) \ {i} = 1..(i - 1) /\ 1..i # {}
    BY <2>1, GreatestOfRange
  <2>3. 1..i \in SUBSET (1..n)
    OBVIOUS
  <2>4. fold[1..i] = Op(fold[1..(i - 1)], s[i])
    BY <1>6, <2>2, <2>3
  <2>5. h[i] = fold[1..i] /\ h[i - 1] = fold[1..(i - 1)]
    OBVIOUS
  <2>6. QED
    BY <2>4, <2>5
<1> HIDE DEF h
<1>9. Steps(h, base, s, n)
  BY <1>7, <1>8 DEF Steps
<1>10. QED
  BY <1>9

\* Nothing to fold.
LEMMA FoldNothing == ASSUME NEW base PROVE Fold(base, <<>>) = base
<1>1. PICK s : s = <<>>
  OBVIOUS
<1>2. 0 \in Nat /\ DOMAIN s = 1..0
  BY <1>1
<1>3. PICK h : Steps(h, base, s, 0)
  BY <1>2, FoldGoes
<1>4. Fold(base, s) = base
  BY <1>3 DEF Steps
<1>5. QED
  BY <1>1, <1>4

\* One element.
LEMMA FoldOne == ASSUME NEW base, NEW x PROVE Fold(base, <<x>>) = Op(base, x)
<1>1. PICK s : s = <<x>>
  OBVIOUS
<1>2. 1 \in Nat /\ DOMAIN s = 1..1 /\ s[1] = x
  BY <1>1
<1>3. PICK h : Steps(h, base, s, 1)
  BY <1>2, FoldGoes
<1>4. h[1] = Op(h[0], s[1]) /\ h[0] = base /\ Fold(base, s) = h[1]
  BY <1>3 DEF Steps
<1>5. QED
  BY <1>1, <1>2, <1>4

\* Two sequences may be folded one after the other.
LEMMA FoldConcat ==
    ASSUME NEW R, NEW T, NEW s \in Seq(R), NEW t \in Seq(T), NEW base
    PROVE  Fold(base, s \o t) = Fold(Fold(base, s), t)
<1>0. PICK S : s \in Seq(S) /\ t \in Seq(S)
  <2>1. s \in Seq(R \cup T) /\ t \in Seq(R \cup T)
    OBVIOUS
  <2>2. QED
    BY <2>1
<1>1. PICK all : all = s \o t
  OBVIOUS
<1>2. PICK n \in Nat, m \in Nat : n = Len(s) /\ m = Len(t)
  OBVIOUS
<1>3. /\ all \in Seq(S) /\ Len(all) = n + m
      /\ \A p \in 1..n : all[p] = s[p]
      /\ \A j \in 1..m : all[n + j] = t[j]
  BY <1>0, <1>1, <1>2, ConcatPlaces
<1>4. DOMAIN s = 1..n /\ DOMAIN t = 1..m /\ DOMAIN all = 1..(n + m) /\ n + m \in Nat
  BY <1>0, <1>2, <1>3
<1>5. PICK h : Steps(h, base, all, n + m)
  BY <1>4, FoldGoes
<1>6. PICK f : Steps(f, base, s, n)
  BY <1>4, FoldGoes
<1>7. PICK g : Steps(g, Fold(base, s), t, m)
  BY <1>4, FoldGoes
<1>8. h[n] = f[n]
  <2> DEFINE I == {k \in 0..n : h[k] = f[k]}
  <2>1. 0 \in I
    BY <1>5, <1>6 DEF Steps
  <2>2. \A k \in 0..(n - 1) : k \in I => k + 1 \in I
    <3> SUFFICES ASSUME NEW k \in 0..(n - 1), h[k] = f[k] PROVE h[k + 1] = f[k + 1]
      <4>1. \A k \in 0..(n - 1) : k + 1 \in 0..n
        OBVIOUS
      <4>2. QED
        BY <4>1, Zenon
    <3>1. k + 1 \in 1..n /\ k + 1 \in 1..(n + m) /\ (k + 1) - 1 = k
      OBVIOUS
    <3>2. h[k + 1] = Op(h[k], all[k + 1]) /\ f[k + 1] = Op(f[k], s[k + 1])
      BY <3>1, <1>5, <1>6 DEF Steps
    <3>3. all[k + 1] = s[k + 1]
      BY <3>1, <1>3
    <3>4. QED
      BY <3>2, <3>3
  <2> HIDE DEF I
  <2>3. \A k \in 0..n : k \in I
    BY <2>1, <2>2, Upwards
  <2>4. n \in I
    BY <2>3
  <2>5. QED
    BY <2>4 DEF I
<1>9. h[n + m] = g[m]
  <2> DEFINE I == {k \in 0..m : h[n + k] = g[k]}
  <2>1. 0 \in I
    <3>1. g[0] = Fold(base, s) /\ Fold(base, s) = f[n]
      BY <1>6, <1>7 DEF Steps
    <3>2. n + 0 = n
      OBVIOUS
    <3>3. QED
      BY <3>1, <3>2, <1>8
  <2>2. \A k \in 0..(m - 1) : k \in I => k + 1 \in I
    <3> SUFFICES ASSUME NEW k \in 0..(m - 1), h[n + k] = g[k] PROVE h[n + (k + 1)] = g[k + 1]
      <4>1. \A k \in 0..(m - 1) : k + 1 \in 0..m
        OBVIOUS
      <4>2. QED
        BY <4>1, Zenon
    <3>1. k + 1 \in 1..m /\ n + (k + 1) \in 1..(n + m) /\ (k + 1) - 1 = k
          /\ (n + (k + 1)) - 1 = n + k
      OBVIOUS
    <3>2. h[n + (k + 1)] = Op(h[n + k], all[n + (k + 1)]) /\ g[k + 1] = Op(g[k], t[k + 1])
      BY <3>1, <1>5, <1>7 DEF Steps
    <3>3. all[n + (k + 1)] = t[k + 1]
      BY <3>1, <1>3
    <3>4. QED
      BY <3>2, <3>3
  <2> HIDE DEF I
  <2>3. \A k \in 0..m : k \in I
    BY <2>1, <2>2, Upwards
  <2>4. m \in I
    BY <2>3
  <2>5. QED
    BY <2>4 DEF I
<1>10. Fold(base, all) = Fold(Fold(base, s), t)
  BY <1>5, <1>7, <1>9 DEF Steps
<1>11. QED
  BY <1>1, <1>10
=============================================================================
