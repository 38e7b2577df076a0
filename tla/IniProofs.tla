------------------------------ MODULE IniProofs ------------------------------
(***************************************************************************)
(* For every text, every file made of lines, every list in memory and      *)
(* every change: a list of readable names that is written reads back as it *)
(* was, and changing one name leaves the others as they were.  What a      *)
(* recursive definition computes is argued by a least counterexample,      *)
(* there being no induction over data.                                     *)
(***************************************************************************)
EXTENDS IniFile, Integers, FiniteSets, FiniteSetTheorems, NaturalsInduction, WellFoundedInduction, TLAPS

----------------------------------------------------------------------------
(* Sequences *)

(* A set of natural numbers has a least element. *)
LEMMA LeastNat ==
  ASSUME NEW S \in SUBSET Nat, S # {}
  PROVE  \E i \in S : \A j \in S : i <= j
<1>. DEFINE R == {ss \in Nat \X Nat : ss[1] < ss[2]}
<1>1. IsWellFoundedOn(R, Nat)
  BY NatLessThanWellFounded, Zenon DEF OpToRel
<1>2. \A m, n \in Nat : m < n => <<m, n>> \in R
  OBVIOUS
<1>. HIDE DEF R
<1>3. PICK n \in S : \A m \in S : ~(<<m, n>> \in R)
  BY <1>1, WFMin
<1>4. ASSUME NEW m \in S PROVE n <= m
  <2>1. m \in Nat /\ n \in Nat
    OBVIOUS
  <2>2. ~(m < n)
    BY <1>2, <1>3, <2>1
  <2>. QED  BY <2>1, <2>2
<1>. QED  BY <1>4

(* A sequence is what its places hold. *)
LEMMA SameSeq ==
  ASSUME NEW S, NEW s \in Seq(S), NEW t \in Seq(S), Len(s) = Len(t),
         \A i \in 1..Len(s) : s[i] = t[i]
  PROVE  s = t
OBVIOUS

LEMMA ConcatFacts ==
  ASSUME NEW S, NEW s \in Seq(S), NEW t \in Seq(S)
  PROVE  /\ s \o t \in Seq(S) /\ Len(s \o t) = Len(s) + Len(t)
         /\ \A i \in 1..(Len(s) + Len(t)) : (s \o t)[i] = IF i <= Len(s) THEN s[i] ELSE t[i - Len(s)]
OBVIOUS

Associates(s, t, u) == (s \o t) \o u = s \o (t \o u)

(* In whatever order three sequences are put together. *)
LEMMA ConcatThree ==
  ASSUME NEW S, NEW s \in Seq(S), NEW t \in Seq(S), NEW u \in Seq(S)
  PROVE  Associates(s, t, u)
<1>1. PICK l, m, n, a, b : l = Len(s) /\ m = Len(t) /\ n = Len(u) /\ a = s \o t /\ b = t \o u
  OBVIOUS
<1>2. l \in Nat /\ m \in Nat /\ n \in Nat
  BY <1>1
<1>3. /\ a \in Seq(S) /\ Len(a) = l + m
      /\ \A i \in 1..(l + m) : a[i] = IF i <= l THEN s[i] ELSE t[i - l]
      /\ b \in Seq(S) /\ Len(b) = m + n
      /\ \A i \in 1..(m + n) : b[i] = IF i <= m THEN t[i] ELSE u[i - m]
  BY <1>1, ConcatFacts
<1>4. PICK x : x = a \o u
  OBVIOUS
<1>5. PICK y : y = s \o b
  OBVIOUS
<1>6. /\ x \in Seq(S) /\ Len(x) = l + m + n
      /\ \A i \in 1..(l + m + n) : x[i] = IF i <= l + m THEN a[i] ELSE u[i - (l + m)]
  BY <1>1, <1>2, <1>3, <1>4, ConcatFacts
<1>7. /\ y \in Seq(S) /\ Len(y) = l + m + n
      /\ \A i \in 1..(l + m + n) : y[i] = IF i <= l THEN s[i] ELSE b[i - l]
  BY <1>1, <1>2, <1>3, <1>5, ConcatFacts
<1>8. ASSUME NEW i \in 1..(l + m + n) PROVE x[i] = y[i]
  <2>1. CASE i <= l
    <3>1. i \in 1..(l + m) /\ i <= l + m
      BY ONLY <1>2, <2>1, i \in 1..(l + m + n)
    <3>. QED  BY ONLY <1>2, <1>3, <1>6, <1>7, <2>1, <3>1, i \in 1..(l + m + n)
  <2>2. CASE l < i /\ i <= l + m
    <3>1. i - l \in 1..(m + n) /\ i - l <= m /\ i \in 1..(l + m) /\ ~(i <= l)
      BY ONLY <1>2, <2>2, i \in 1..(l + m + n)
    <3>. QED  BY ONLY <1>2, <1>3, <1>6, <1>7, <2>2, <3>1, i \in 1..(l + m + n)
  <2>3. CASE l + m < i
    <3>1. i - l \in 1..(m + n) /\ ~(i - l <= m) /\ i - l - m = i - (l + m) /\ ~(i <= l) /\ ~(i <= l + m)
      BY ONLY <1>2, <2>3, i \in 1..(l + m + n)
    <3>. QED  BY ONLY <1>2, <1>3, <1>6, <1>7, <3>1, i \in 1..(l + m + n)
  <2>. QED  BY ONLY <1>2, <2>1, <2>2, <2>3, i \in 1..(l + m + n)
<1>9. x = y
  <2>1. Len(x) = Len(y) /\ \A i \in 1..Len(x) : x[i] = y[i]
    BY ONLY <1>6, <1>7, <1>8
  <2>. QED  BY ONLY <1>6, <1>7, <2>1, SameSeq
<1>. QED  BY <1>1, <1>4, <1>5, <1>9 DEF Associates

LEMMA EmptyFacts == Len(<<>>) = 0 /\ \A S : <<>> \in Seq(S)
OBVIOUS

LEMMA EmptyConcat ==
  ASSUME NEW S, NEW s \in Seq(S)
  PROVE  s \o <<>> = s /\ <<>> \o s = s /\ <<>> \in Seq(S)
OBVIOUS

----------------------------------------------------------------------------
(* One sequence of many *)

IsFlat(g, seqs, n) == g = [i \in 1..n |-> IF i = 1 THEN seqs[i] ELSE g[i - 1] \o seqs[i]]

(* FlattenSeq, one sequence at a time *)
LEMMA FlatStep ==
  ASSUME NEW seqs, NEW n \in Nat, NEW g, IsFlat(g, seqs, n)
  PROVE  /\ \A i \in 1..n : g[i] = IF i = 1 THEN seqs[i] ELSE g[i - 1] \o seqs[i]
         /\ \E h : IsFlat(h, seqs, n + 1)
<1>1. \A i \in 1..n : g[i] = IF i = 1 THEN seqs[i] ELSE g[i - 1] \o seqs[i]
  BY DEF IsFlat
<1>. DEFINE m == n + 1
            h == [i \in 1..m |-> IF i <= n THEN g[i] ELSE IF i = 1 THEN seqs[i] ELSE g[i - 1] \o seqs[i]]
<1>2. ASSUME NEW i \in 1..m
      PROVE  h[i] = IF i = 1 THEN seqs[i] ELSE h[i - 1] \o seqs[i]
  <2>1. i # 1 => i - 1 \in 1..m /\ i - 1 <= n
    OBVIOUS
  <2>2. i # 1 => h[i - 1] = g[i - 1]
    BY <2>1
  <2>3. h[i] = IF i <= n THEN g[i] ELSE IF i = 1 THEN seqs[i] ELSE g[i - 1] \o seqs[i]
    OBVIOUS
  <2>4. i <= n => i \in 1..n
    OBVIOUS
  <2>. HIDE DEF h
  <2>. QED  BY <1>1, <2>2, <2>3, <2>4
<1>3. h = [i \in 1..m |-> h[i]]
  OBVIOUS
<1>. HIDE DEF h
<1>4. h = [i \in 1..m |-> IF i = 1 THEN seqs[i] ELSE h[i - 1] \o seqs[i]]
  BY <1>2, <1>3
<1>5. IsFlat(h, seqs, n + 1)
  BY <1>4 DEF IsFlat
<1>. QED  BY <1>1, <1>5

LEMMA FlatExists ==
  ASSUME NEW seqs, NEW n \in Nat
  PROVE  \E g : IsFlat(g, seqs, n)
<1>. DEFINE S == {k \in Nat : ~ \E g : IsFlat(g, seqs, k)}
<1>1. SUFFICES ASSUME S # {} PROVE FALSE
  OBVIOUS
<1>2. PICK k \in S : \A j \in S : k <= j
  BY <1>1, LeastNat
<1>3. CASE k = 0
  <2>1. [i \in 1..0 |-> 0] = [i \in 1..0 |-> IF i = 1 THEN seqs[i] ELSE [j \in 1..0 |-> 0][i - 1] \o seqs[i]]
    OBVIOUS
  <2>2. IsFlat([i \in 1..0 |-> 0], seqs, 0)
    BY ONLY <2>1 DEF IsFlat
  <2>. QED  BY <1>3, <2>2
<1>4. CASE k # 0
  <2>1. k - 1 \in Nat /\ ~(k <= k - 1) /\ (k - 1) + 1 = k
    BY <1>4
  <2>2. k - 1 \notin S
    BY <1>2, <2>1
  <2>3. PICK g : IsFlat(g, seqs, k - 1)
    BY <2>1, <2>2
  <2>4. \E h : IsFlat(h, seqs, k)
    BY <2>1, <2>3, FlatStep
  <2>. QED  BY <2>4
<1>. QED  BY <1>3, <1>4

(* The way there is as long as the sequences are the same. *)
LEMMA FlatAgree ==
  ASSUME NEW s, NEW t, NEW m \in Nat, NEW n \in Nat, NEW g, NEW h, IsFlat(g, s, m), IsFlat(h, t, n),
         NEW k \in Nat, k <= m, k <= n, \A i \in 1..k : s[i] = t[i]
  PROVE  \A i \in 1..k : g[i] = h[i]
<1>. DEFINE S == {i \in 1..k : g[i] # h[i]}
<1>1. SUFFICES ASSUME S # {} PROVE FALSE
  OBVIOUS
<1>2. PICK i \in S : \A j \in S : i <= j
  <2>1. S \in SUBSET Nat
    OBVIOUS
  <2>. QED  BY <1>1, <2>1, LeastNat
<1>3. /\ g[i] = IF i = 1 THEN s[i] ELSE g[i - 1] \o s[i]
      /\ h[i] = IF i = 1 THEN t[i] ELSE h[i - 1] \o t[i]
      /\ s[i] = t[i]
  BY FlatStep
<1>4. i # 1 => g[i - 1] = h[i - 1]
  <2>1. i # 1 => i - 1 \in 1..k /\ ~(i <= i - 1)
    OBVIOUS
  <2>. QED  BY <1>2, <2>1
<1>. QED  BY <1>3, <1>4

LEMMA FlatIs ==
  ASSUME NEW seqs, Len(seqs) \in Nat \ {0}
  PROVE  \E g : IsFlat(g, seqs, Len(seqs)) /\ FlattenSeq(seqs) = g[Len(seqs)]
<1>. DEFINE g == CHOOSE f : f = [i \in 1..Len(seqs) |-> IF i = 1 THEN seqs[i] ELSE f[i - 1] \o seqs[i]]
<1>1. \E f : f = [i \in 1..Len(seqs) |-> IF i = 1 THEN seqs[i] ELSE f[i - 1] \o seqs[i]]
  BY FlatExists DEF IsFlat
<1>2. g = [i \in 1..Len(seqs) |-> IF i = 1 THEN seqs[i] ELSE g[i - 1] \o seqs[i]]
  BY <1>1
<1>3. FlattenSeq(seqs) = g[Len(seqs)]
  BY Zenon DEF FlattenSeq
<1>. HIDE DEF g
<1>. QED  BY <1>2, <1>3 DEF IsFlat

LEMMA FlatEmpty == FlattenSeq(<<>>) = <<>>
BY DEF FlattenSeq

(* The last of them is at the end. *)
AddsLast(all, first, e) ==
  /\ Len(first) \in Nat /\ Len(all) = Len(first) + 1
  /\ \A i \in 1..Len(first) : first[i] = all[i]
  /\ Len(first) = 0 => first = <<>>
  /\ all[Len(first) + 1] = e

LEMMA FlatLast ==
  ASSUME NEW seqs, NEW first, NEW S, NEW e \in Seq(S), AddsLast(seqs, first, e)
  PROVE  FlattenSeq(seqs) = FlattenSeq(first) \o e
<1>. DEFINE n == Len(first)
<1>0. /\ n \in Nat /\ Len(seqs) = n + 1
      /\ \A i \in 1..n : first[i] = seqs[i]
      /\ n = 0 => first = <<>>
      /\ seqs[n + 1] = e
  BY DEF AddsLast
<1>. HIDE DEF n
<1>d. n = Len(first)
  BY DEF n
<1>1. PICK g : IsFlat(g, seqs, n + 1) /\ FlattenSeq(seqs) = g[n + 1]
  BY <1>0, FlatIs
<1>2. g[n + 1] = IF n + 1 = 1 THEN seqs[n + 1] ELSE g[n] \o seqs[n + 1]
  BY <1>0, <1>1, FlatStep
<1>3. CASE n = 0
  <2>1. FlattenSeq(first) = <<>>
    BY ONLY <1>0, <1>3, FlatEmpty
  <2>. QED  BY <1>0, <1>1, <1>2, <1>3, <2>1, EmptyConcat
<1>4. CASE n # 0
  <2>1. PICK h : IsFlat(h, first, n) /\ FlattenSeq(first) = h[n]
    BY <1>0, <1>d, <1>4, FlatIs
  <2>2. n <= n + 1 /\ n <= n /\ n \in 1..n /\ n + 1 \in Nat
    BY <1>0, <1>4
  <2>3. \A i \in 1..n : h[i] = g[i]
    <3>1. n \in Nat /\ \A i \in 1..n : first[i] = seqs[i]
      BY <1>0
    <3>. QED  BY ONLY <1>1, <2>1, <2>2, <3>1, FlatAgree, SMTT(20)
  <2>4. n + 1 # 1
    BY <1>0, <1>4
  <2>. QED  BY ONLY <1>0, <1>1, <1>2, <2>1, <2>2, <2>3, <2>4
<1>. QED  BY <1>3, <1>4
(* The first k of them *)
Upto(seqs, k) == FlattenSeq(SubSeq(seqs, 1, k))

LEMMA UptoFacts ==
  ASSUME NEW S, NEW seqs \in Seq(Seq(S))
  PROVE  /\ Upto(seqs, 0) = <<>>
         /\ \A k \in 0..(Len(seqs) - 1) : Upto(seqs, k + 1) = Upto(seqs, k) \o seqs[k + 1]
         /\ Upto(seqs, Len(seqs)) = FlattenSeq(seqs)
<1>1. SubSeq(seqs, 1, 0) = <<>>
  OBVIOUS
<1>2. Upto(seqs, 0) = <<>>
  BY ONLY <1>1, FlatEmpty DEF Upto
<1>3. SubSeq(seqs, 1, Len(seqs)) = seqs
  OBVIOUS
<1>4. Upto(seqs, Len(seqs)) = FlattenSeq(seqs)
  BY ONLY <1>3 DEF Upto
<1>5. ASSUME NEW k \in 0..(Len(seqs) - 1)
      PROVE  Upto(seqs, k + 1) = Upto(seqs, k) \o seqs[k + 1]
  <2>1. PICK all : all = SubSeq(seqs, 1, k + 1)
    OBVIOUS
  <2>2. PICK first : first = SubSeq(seqs, 1, k)
    OBVIOUS
  <2>3. k \in Nat /\ Len(all) = k + 1 /\ Len(first) = k /\ seqs[k + 1] \in Seq(S)
    BY <2>1, <2>2
  <2>4. /\ \A i \in 1..k : first[i] = seqs[i]
        /\ \A i \in 1..(k + 1) : all[i] = seqs[i]
        /\ k = 0 => first = <<>>
    BY <2>1, <2>2
  <2>5. (\A i \in 1..k : first[i] = all[i]) /\ all[k + 1] = seqs[k + 1]
    <3>1. k + 1 \in 1..(k + 1) /\ \A i \in 1..k : i \in 1..(k + 1)
      BY ONLY <2>3
    <3>. QED  BY ONLY <2>4, <3>1
  <2>6. AddsLast(all, first, seqs[k + 1])
    BY ONLY <2>3, <2>4, <2>5 DEF AddsLast
  <2>7. FlattenSeq(all) = FlattenSeq(first) \o seqs[k + 1]
    BY ONLY <2>3, <2>6, FlatLast
  <2>. QED  BY ONLY <2>1, <2>2, <2>7 DEF Upto
<1>. QED  BY <1>2, <1>4, <1>5

(* What is in w is in one of the sequences from lo to hi. *)
From(w, seqs, lo, hi) ==
  \A q \in 1..Len(w) : \E i \in lo..hi : \E r \in 1..Len(seqs[i]) : w[q] = seqs[i][r]

LEMMA FromGrows ==
  ASSUME NEW S, NEW seqs \in Seq(Seq(S)), NEW w \in Seq(S), NEW lo \in Nat, NEW k \in Nat, lo <= k + 1,
         k < Len(seqs), From(w, seqs, lo, k), NEW x, x = w \o seqs[k + 1]
  PROVE  x \in Seq(S) /\ From(x, seqs, lo, k + 1)
<1>1. PICK y : y = seqs[k + 1]
  OBVIOUS
<1>2. y \in Seq(S)
  BY <1>1
<1>3. PICK m, n : m = Len(w) /\ n = Len(y)
  OBVIOUS
<1>4. m \in Nat /\ n \in Nat
  BY <1>2, <1>3
<1>5. /\ x \in Seq(S) /\ Len(x) = m + n
      /\ \A i \in 1..(m + n) : x[i] = IF i <= m THEN w[i] ELSE y[i - m]
  BY <1>1, <1>2, <1>3, ConcatFacts
<1>6. ASSUME NEW q \in 1..(m + n)
      PROVE  \E i \in lo..(k + 1) : \E r \in 1..Len(seqs[i]) : x[q] = seqs[i][r]
  <2>1. CASE q <= m
    <3>1. q \in 1..Len(w) /\ x[q] = w[q]
      BY ONLY <1>3, <1>4, <1>5, <2>1, q \in 1..(m + n)
    <3>2. PICK i \in lo..k : \E r \in 1..Len(seqs[i]) : w[q] = seqs[i][r]
      BY ONLY <3>1, From(w, seqs, lo, k) DEF From
    <3>3. i \in lo..(k + 1)
      OBVIOUS
    <3>. QED  BY ONLY <3>1, <3>2, <3>3
  <2>2. CASE ~(q <= m)
    <3>1. q - m \in 1..n /\ x[q] = y[q - m] /\ k + 1 \in lo..(k + 1)
      BY ONLY <1>4, <1>5, <2>2, q \in 1..(m + n), lo \in Nat, k \in Nat, lo <= k + 1
    <3>. QED  BY ONLY <1>1, <1>3, <3>1
  <2>. QED  BY <2>1, <2>2
<1>. QED  BY ONLY <1>5, <1>6 DEF From

LEMMA UptoFrom ==
  ASSUME NEW S, NEW seqs \in Seq(Seq(S)), NEW k \in 0..Len(seqs)
  PROVE  Upto(seqs, k) \in Seq(S) /\ From(Upto(seqs, k), seqs, 1, k)
<1>. DEFINE Q(i) == Upto(seqs, i) \in Seq(S) /\ From(Upto(seqs, i), seqs, 1, i)
            B == {i \in 0..Len(seqs) : ~Q(i)}
<1>1. SUFFICES ASSUME B # {} PROVE FALSE
  OBVIOUS
<1>2. PICK i \in B : \A j \in B : i <= j
  <2>1. B \in SUBSET Nat
    OBVIOUS
  <2>. QED  BY <1>1, <2>1, LeastNat
<1>3. CASE i = 0
  <2>1. Upto(seqs, 0) = <<>>
    BY UptoFacts
  <2>2. From(<<>>, seqs, 1, 0)
    BY EmptyFacts DEF From
  <2>3. Q(0)
    BY ONLY <2>1, <2>2, EmptyFacts
  <2>. QED  BY <1>2, <1>3, <2>3
<1>4. CASE i # 0
  <2>1. PICK j \in Nat : i = j + 1 /\ j < Len(seqs) /\ j \in 0..Len(seqs) /\ ~(i <= j) /\ 1 <= j + 1
                         /\ j \in 0..(Len(seqs) - 1)
    <3>1. i - 1 \in Nat /\ i = (i - 1) + 1 /\ i - 1 < Len(seqs) /\ i - 1 \in 0..Len(seqs) /\ ~(i <= i - 1)
          /\ 1 <= (i - 1) + 1 /\ i - 1 \in 0..(Len(seqs) - 1)
      BY <1>4
    <3>. QED  BY ONLY <3>1
  <2>2. Q(j)
    BY <1>2, <2>1
  <2>3. Upto(seqs, j + 1) = Upto(seqs, j) \o seqs[j + 1]
    BY <2>1, UptoFacts
  <2>4. Q(j + 1)
    BY <2>1, <2>2, <2>3, FromGrows
  <2>. QED  BY <1>2, <2>1, <2>4
<1>. QED  BY <1>3, <1>4

LEMMA FlatType ==
  ASSUME NEW S, NEW seqs \in Seq(Seq(S))
  PROVE  FlattenSeq(seqs) \in Seq(S) /\ From(FlattenSeq(seqs), seqs, 1, Len(seqs))
<1>1. Len(seqs) \in 0..Len(seqs)
  OBVIOUS
<1>. QED  BY <1>1, UptoFrom, UptoFacts
(* Another in the place of one: what is in front of it and behind it stays. *)
LEMMA FlatReplaced ==
  ASSUME NEW S, NEW seqs \in Seq(Seq(S)), NEW a \in 1..Len(seqs), NEW y \in Seq(S),
         NEW t, t = [seqs EXCEPT ![a] = y]
  PROVE  /\ t \in Seq(Seq(S)) /\ Len(t) = Len(seqs) /\ t[a] = y
         /\ \A i \in 1..Len(seqs) : i # a => t[i] = seqs[i]
         /\ Upto(t, a - 1) = Upto(seqs, a - 1)
<1>1. /\ t \in Seq(Seq(S)) /\ Len(t) = Len(seqs) /\ t[a] = y
      /\ \A i \in 1..Len(seqs) : i # a => t[i] = seqs[i]
  OBVIOUS
<1>2. PICK f, g : f = SubSeq(t, 1, a - 1) /\ g = SubSeq(seqs, 1, a - 1)
  OBVIOUS
<1>3. f \in Seq(Seq(S)) /\ g \in Seq(Seq(S)) /\ Len(f) = a - 1 /\ Len(g) = a - 1
  BY <1>1, <1>2
<1>4. \A i \in 1..(a - 1) : f[i] = t[i] /\ g[i] = seqs[i] /\ i \in 1..Len(seqs) /\ i # a
  BY <1>1, <1>2
<1>5. f = g
  BY ONLY <1>1, <1>3, <1>4, SameSeq
<1>6. Upto(t, a - 1) = Upto(seqs, a - 1)
  BY ONLY <1>2, <1>5 DEF Upto
<1>. QED  BY <1>1, <1>6

Splits(u, w, seqs, a, S) ==
  /\ From(u, seqs, 1, a - 1) /\ From(w, seqs, a + 1, Len(seqs))
  /\ \A y \in Seq(S) : FlattenSeq([seqs EXCEPT ![a] = y]) = u \o (y \o w)

LEMMA FlatSplits ==
  ASSUME NEW S, NEW seqs \in Seq(Seq(S)), NEW a \in 1..Len(seqs)
  PROVE  \E u, w \in Seq(S) : Splits(u, w, seqs, a, S)
<1>. DEFINE T(y) == [seqs EXCEPT ![a] = y]
            u == Upto(seqs, a - 1)
            Q(k, w) == From(w, seqs, a + 1, k) /\ \A y \in Seq(S) : Upto(T(y), k) = u \o (y \o w)
            B == {k \in a..Len(seqs) : ~ \E w \in Seq(S) : Q(k, w)}
<1>1. \A y \in Seq(S) : /\ T(y) \in Seq(Seq(S)) /\ Len(T(y)) = Len(seqs) /\ T(y)[a] = y
                        /\ \A i \in 1..Len(seqs) : i # a => T(y)[i] = seqs[i]
                        /\ Upto(T(y), a - 1) = u
  BY FlatReplaced
<1>2. a \in Nat /\ Len(seqs) \in Nat /\ 1 <= a /\ a <= Len(seqs) /\ a - 1 \in 0..(Len(seqs) - 1)
      /\ a - 1 \in 0..Len(seqs) /\ (a - 1) + 1 = a /\ a \in a..Len(seqs) /\ Len(seqs) \in a..Len(seqs)
  OBVIOUS
<1>3. u \in Seq(S) /\ From(u, seqs, 1, a - 1)
  BY <1>2, UptoFrom
<1>. HIDE DEF T, u
<1>4. B = {}
  <2>1. SUFFICES ASSUME B # {} PROVE FALSE
    OBVIOUS
  <2>2. PICK k \in B : \A j \in B : k <= j
    <3>1. B \in SUBSET Nat
      BY <1>2
    <3>. QED  BY <2>1, <3>1, LeastNat
  <2>3. CASE k = a
    <3>1. ASSUME NEW y \in Seq(S) PROVE Upto(T(y), a) = u \o (y \o <<>>)
      <4>1. Upto(T(y), (a - 1) + 1) = Upto(T(y), a - 1) \o T(y)[(a - 1) + 1]
        BY <1>1, <1>2, UptoFacts
      <4>2. Upto(T(y), a) = u \o y
        BY ONLY <1>1, <1>2, <4>1, y \in Seq(S)
      <4>. QED  BY <4>2, EmptyConcat
    <3>2. From(<<>>, seqs, a + 1, a)
      BY EmptyFacts DEF From
    <3>3. Q(a, <<>>)
      BY <3>1, <3>2
    <3>4. \E w \in Seq(S) : Q(a, w)
      BY ONLY <3>3, EmptyFacts
    <3>. QED  BY <2>2, <2>3, <3>4
  <2>4. CASE k # a
    <3>1. PICK j \in Nat : k = j + 1 /\ j < Len(seqs) /\ j \in a..Len(seqs) /\ ~(k <= j) /\ a + 1 <= j + 1
                           /\ j \in 0..(Len(seqs) - 1) /\ j + 1 # a /\ j + 1 \in 1..Len(seqs)
      <4>1. k \in a..Len(seqs)
        BY <2>2
      <4>2. k - 1 \in Nat /\ k = (k - 1) + 1 /\ k - 1 < Len(seqs) /\ k - 1 \in a..Len(seqs) /\ ~(k <= k - 1)
            /\ a + 1 <= (k - 1) + 1 /\ k - 1 \in 0..(Len(seqs) - 1) /\ (k - 1) + 1 # a
            /\ (k - 1) + 1 \in 1..Len(seqs)
        BY ONLY <1>2, <2>4, <4>1
      <4>. QED  BY ONLY <4>2
    <3>2. PICK w \in Seq(S) : Q(j, w)
      BY <2>2, <3>1
    <3>3. PICK x : x = w \o seqs[j + 1]
      OBVIOUS
    <3>4. x \in Seq(S) /\ From(x, seqs, a + 1, j + 1)
      <4>1. a + 1 \in Nat /\ From(w, seqs, a + 1, j)
        BY <1>2, <3>2
      <4>. QED  BY <3>1, <3>3, <4>1, FromGrows
    <3>5. ASSUME NEW y \in Seq(S) PROVE Upto(T(y), j + 1) = u \o (y \o x)
      <4>1. Upto(T(y), j + 1) = Upto(T(y), j) \o T(y)[j + 1]
        BY <1>1, <3>1, UptoFacts
      <4>2. Upto(T(y), j) = u \o (y \o w)
        BY <3>2
      <4>3. PICK e : e = seqs[j + 1]
        OBVIOUS
      <4>e. e \in Seq(S) /\ T(y)[j + 1] = e
        <5>1. seqs[j + 1] \in Seq(S)
          BY <3>1
        <5>2. T(y)[j + 1] = seqs[j + 1]
          BY <1>1, <3>1
        <5>. QED  BY ONLY <4>3, <5>1, <5>2
      <4>4. y \o w \in Seq(S)
        BY ConcatFacts
      <4>5. Associates(u, y \o w, e)
        BY ONLY <1>3, <4>e, <4>4, ConcatThree
      <4>6. Associates(y, w, e)
        BY ONLY <4>e, w \in Seq(S), y \in Seq(S), ConcatThree
      <4>. QED  BY ONLY <3>3, <4>1, <4>2, <4>3, <4>e, <4>5, <4>6, Zenon DEF Associates
    <3>6. Q(j + 1, x)
      BY ONLY <3>4, <3>5
    <3>. QED  BY <2>2, <3>1, <3>4, <3>6
  <2>. QED  BY <2>3, <2>4
<1>5. PICK w \in Seq(S) : Q(Len(seqs), w)
  BY <1>2, <1>4
<1>6. ASSUME NEW y \in Seq(S) PROVE FlattenSeq([seqs EXCEPT ![a] = y]) = u \o (y \o w)
  <2>1. FlattenSeq(T(y)) = Upto(T(y), Len(seqs))
    BY <1>1, UptoFacts
  <2>2. Upto(T(y), Len(seqs)) = u \o (y \o w)
    BY <1>5
  <2>. QED  BY ONLY <2>1, <2>2 DEF T
<1>7. From(w, seqs, a + 1, Len(seqs))
  BY <1>5
<1>8. Splits(u, w, seqs, a, S)
  BY ONLY <1>3, <1>6, <1>7 DEF Splits
<1>. QED  BY ONLY <1>3, <1>8, w \in Seq(S)

(* The sequence of singletons, of which each holds the next element *)
LEMMA FlatSingles ==
  ASSUME NEW S, NEW x \in Seq(S), NEW seqs \in Seq(Seq(S)), Len(seqs) = Len(x),
         \A j \in 1..Len(x) : seqs[j] = <<x[j]>>
  PROVE  FlattenSeq(seqs) = x
<1>1. PICK n : n = Len(x)
  OBVIOUS
<1>2. n \in Nat /\ Len(seqs) = n
  BY <1>1
<1>. DEFINE Q(k) == Upto(seqs, k) = SubSeq(x, 1, k)
            B == {k \in 0..n : ~Q(k)}
<1>3. B = {}
  <2>1. SUFFICES ASSUME B # {} PROVE FALSE
    OBVIOUS
  <2>2. PICK k \in B : \A j \in B : k <= j
    <3>1. B \in SUBSET Nat
      BY <1>2
    <3>. QED  BY <2>1, <3>1, LeastNat
  <2>3. CASE k = 0
    <3>1. Upto(seqs, 0) = <<>>
      BY UptoFacts
    <3>2. SubSeq(x, 1, 0) = <<>>
      OBVIOUS
    <3>3. Q(0)
      BY ONLY <3>1, <3>2
    <3>. QED  BY <2>2, <2>3, <3>3
  <2>4. CASE k # 0
    <3>1. PICK j \in Nat : k = j + 1 /\ j \in 0..n /\ ~(k <= j) /\ j \in 0..(n - 1) /\ j + 1 \in 1..n
      <4>1. k \in 0..n
        BY <2>2
      <4>2. k - 1 \in Nat /\ k = (k - 1) + 1 /\ k - 1 \in 0..n /\ ~(k <= k - 1) /\ k - 1 \in 0..(n - 1)
            /\ (k - 1) + 1 \in 1..n
        BY ONLY <1>2, <2>4, <4>1
      <4>. QED  BY ONLY <4>2
    <3>2. Q(j)
      BY <2>2, <3>1
    <3>3. Upto(seqs, j + 1) = Upto(seqs, j) \o seqs[j + 1]
      BY <1>2, <3>1, UptoFacts
    <3>4. PICK a, b, c : a = SubSeq(x, 1, j) /\ b = SubSeq(x, 1, j + 1) /\ c = <<x[j + 1]>>
      OBVIOUS
    <3>5. /\ a \in Seq(S) /\ Len(a) = j /\ \A i \in 1..j : a[i] = x[i]
          /\ b \in Seq(S) /\ Len(b) = j + 1 /\ \A i \in 1..(j + 1) : b[i] = x[i]
          /\ c \in Seq(S) /\ Len(c) = 1 /\ c[1] = x[j + 1]
      BY <1>1, <3>1, <3>4
    <3>6. /\ a \o c \in Seq(S) /\ Len(a \o c) = j + 1
          /\ \A i \in 1..(j + 1) : (a \o c)[i] = IF i <= j THEN a[i] ELSE c[i - j]
      <4>1. a \o c \in Seq(S) /\ Len(a \o c) = Len(a) + Len(c)
            /\ \A i \in 1..(Len(a) + Len(c)) : (a \o c)[i] = IF i <= Len(a) THEN a[i] ELSE c[i - Len(a)]
        BY ONLY <3>5, ConcatFacts
      <4>. QED  BY ONLY <3>5, <4>1
    <3>7. ASSUME NEW i \in 1..(j + 1) PROVE (a \o c)[i] = b[i]
      <4>1. CASE i <= j
        BY ONLY <3>5, <3>6, <4>1, j \in Nat, i \in 1..(j + 1)
      <4>2. CASE ~(i <= j)
        <5>1. i = j + 1 /\ i - j = 1
          BY ONLY <4>2, j \in Nat, i \in 1..(j + 1)
        <5>. QED  BY ONLY <3>5, <3>6, <4>2, <5>1, i \in 1..(j + 1)
      <4>. QED  BY ONLY <4>1, <4>2
    <3>8. a \o c = b
      BY ONLY <3>5, <3>6, <3>7, SameSeq
    <3>9. seqs[j + 1] = c
      BY <1>1, <3>1, <3>4
    <3>10. Q(j + 1)
      BY ONLY <3>2, <3>3, <3>4, <3>8, <3>9
    <3>. QED  BY <2>2, <3>1, <3>10
  <2>. QED  BY <2>3, <2>4
<1>4. Q(n)
  BY <1>2, <1>3
<1>5. SubSeq(x, 1, Len(x)) = x
  OBVIOUS
<1>. QED  BY ONLY <1>1, <1>2, <1>4, <1>5, UptoFacts, seqs \in Seq(Seq(S))

----------------------------------------------------------------------------
(* Texts *)

LEMMA MarkersAreNoNames ==
  /\ NoSection \notin SecNames /\ Deleted \notin KeyNames
  /\ NoValue \notin Texts /\ NoText \in Texts
<1>1. NoText \in Text /\ Spots(NoText, Newline) = {}
  BY DEF NoText, Text, Spots
<1>2. NoSection \notin Text /\ NoValue \notin Text /\ Deleted \notin Text
  BY ONLY NullIsNoText
<1>3. SecNames \subseteq Text /\ KeyNames \subseteq Text /\ Texts \subseteq Text
  BY Zenon DEF SecNames, KeyNames, Texts
<1>. QED  BY ONLY <1>1, <1>2, <1>3 DEF Texts

(* The first and the last of some places *)
LEMMA EndsOf ==
  ASSUME NEW n \in Nat, NEW S \in SUBSET (1..n), S # {}
  PROVE  /\ Min(S) \in S /\ \A i \in S : Min(S) <= i
         /\ Max(S) \in S /\ \A i \in S : i <= Max(S)
<1>1. \E i \in S : \A j \in S : i <= j
  <2>1. S \in SUBSET Nat
    OBVIOUS
  <2>. QED  BY <2>1, LeastNat
<1>2. \E i \in S : \A j \in S : i >= j
  <2>. DEFINE T == {n - i : i \in S}
  <2>1. T \in SUBSET Nat /\ T # {}
    <3>1. \A i \in S : n - i \in Nat
      OBVIOUS
    <3>. QED  BY ONLY <3>1, S # {}
  <2>2. PICK m \in T : \A j \in T : m <= j
    BY ONLY <2>1, LeastNat
  <2>3. PICK i \in S : m = n - i
    OBVIOUS
  <2>4. ASSUME NEW j \in S PROVE i >= j
    <3>1. m <= n - j
      BY <2>2
    <3>. QED  BY <2>3, <3>1
  <2>. QED  BY <2>4
<1>3. Min(S) \in S /\ \A i \in S : Min(S) <= i
  BY <1>1 DEF Min
<1>4. Max(S) \in S /\ \A i \in S : Max(S) >= i
  BY <1>2 DEF Max
<1>5. \A i \in S : i <= Max(S)
  BY <1>4
<1>. QED  BY <1>3, <1>4, <1>5

(* A part of a text *)
LEMMA PartFacts ==
  ASSUME NEW t \in Text, NEW a, NEW b, a \in 1..(Len(t) + 1), b \in 0..Len(t), a <= b + 1
  PROVE  /\ SubSeq(t, a, b) \in Text /\ Len(SubSeq(t, a, b)) = b + 1 - a
         /\ \A i \in 1..(b + 1 - a) : SubSeq(t, a, b)[i] = t[a + i - 1]
         /\ \A c : (\A i \in a..b : t[i] # c) => Spots(SubSeq(t, a, b), c) = {}
<1>1. PICK u : u = SubSeq(t, a, b)
  OBVIOUS
<1>2. u \in Text /\ Len(u) = b + 1 - a /\ \A i \in 1..(b + 1 - a) : u[i] = t[a + i - 1]
  BY <1>1 DEF Text
<1>3. ASSUME NEW c, \A i \in a..b : t[i] # c PROVE Spots(u, c) = {}
  <2>1. ASSUME NEW i \in 1..Len(u) PROVE u[i] # c
    <3>1. u[i] = t[a + i - 1] /\ a + i - 1 \in a..b
      BY <1>2
    <3>. QED  BY <1>3, <3>1
  <2>. QED  BY <2>1 DEF Spots
<1>. QED  BY <1>1, <1>2, <1>3

(* A text without spaces at its ends *)
IsTrimmed(t) == t # <<>> => t[1] # Space /\ t[Len(t)] # Space

LEMMA TrimmedIs ==
  ASSUME NEW t \in Text
  PROVE  (Trimmed(t) = t) <=> IsTrimmed(t)
<1>1. Len(t) \in Nat /\ Solid(t) \in SUBSET (1..Len(t))
  BY DEF Solid, Text
<1>2. t # <<>> => Len(t) \in Nat \ {0}
  BY DEF Text
<1>3. Solid(t) = {} => Trimmed(t) = <<>>
  BY DEF Trimmed
<1>4. CASE t = <<>>
  <2>1. Solid(t) = {}
    BY <1>4 DEF Solid
  <2>. QED  BY <1>3, <1>4, <2>1 DEF IsTrimmed
<1>5. CASE t # <<>> /\ Solid(t) = {}
  <2>1. t[1] = Space
    BY <1>2, <1>5 DEF Solid
  <2>. QED  BY <1>3, <1>5, <2>1 DEF IsTrimmed
<1>6. CASE t # <<>> /\ Solid(t) # {}
  <2>1. PICK p, q : p = Min(Solid(t)) /\ q = Max(Solid(t))
    OBVIOUS
  <2>2. p \in Solid(t) /\ q \in Solid(t) /\ \A i \in Solid(t) : p <= i /\ i <= q
    BY <1>1, <1>6, <2>1, EndsOf
  <2>3. Trimmed(t) = SubSeq(t, p, q)
    BY <1>6, <2>1 DEF Trimmed
  <2>4. p \in 1..Len(t) /\ q \in 1..Len(t) /\ p <= q /\ t[p] # Space /\ t[q] # Space
    BY <1>1, <2>2 DEF Solid
  <2>5. Len(SubSeq(t, p, q)) = q + 1 - p
    BY <1>1, <2>4, PartFacts
  <2>6. ASSUME IsTrimmed(t) PROVE Trimmed(t) = t
    <3>1. 1 \in Solid(t) /\ Len(t) \in Solid(t)
      BY <1>2, <1>6, <2>6 DEF IsTrimmed, Solid
    <3>2. p = 1 /\ q = Len(t)
      BY <1>1, <2>2, <2>4, <3>1
    <3>3. SubSeq(t, 1, Len(t)) = t
      BY DEF Text
    <3>. QED  BY <2>3, <3>2, <3>3
  <2>7. ASSUME Trimmed(t) = t PROVE IsTrimmed(t)
    <3>1. Len(t) = q + 1 - p
      BY <2>3, <2>5, <2>7
    <3>2. p = 1 /\ q = Len(t)
      BY <1>1, <2>4, <3>1
    <3>. QED  BY <2>4, <3>2 DEF IsTrimmed
  <2>. QED  BY <2>6, <2>7
<1>. QED  BY <1>4, <1>5, <1>6

(* What is left of a text begins with its first character that is no space. *)
LEMMA TrimmedFacts ==
  ASSUME NEW t \in Text
  PROVE  /\ Trimmed(t) \in Text /\ Trimmed(Trimmed(t)) = Trimmed(t)
         /\ \A c : Spots(t, c) = {} => Spots(Trimmed(t), c) = {}
         /\ Trimmed(t) # <<>> => Solid(t) # {} /\ Trimmed(t)[1] = t[Min(Solid(t))]
<1>1. Len(t) \in Nat /\ Solid(t) \in SUBSET (1..Len(t))
  BY DEF Solid, Text
<1>2. CASE Solid(t) = {}
  <2>1. Trimmed(t) = <<>>
    BY <1>2 DEF Trimmed
  <2>2. <<>> \in Text /\ \A c : Spots(<<>>, c) = {}
    BY DEF Text, Spots
  <2>3. Trimmed(<<>>) = <<>>
    BY <2>2, TrimmedIs DEF IsTrimmed
  <2>. QED  BY <2>1, <2>2, <2>3
<1>3. CASE Solid(t) # {}
  <2>1. PICK p, q, u : p = Min(Solid(t)) /\ q = Max(Solid(t)) /\ u = SubSeq(t, p, q)
    OBVIOUS
  <2>2. p \in Solid(t) /\ q \in Solid(t) /\ \A i \in Solid(t) : p <= i /\ i <= q
    BY <1>1, <1>3, <2>1, EndsOf
  <2>3. Trimmed(t) = u
    BY <1>3, <2>1 DEF Trimmed
  <2>4. p \in 1..Len(t) /\ q \in 1..Len(t) /\ p <= q /\ t[p] # Space /\ t[q] # Space
    BY <1>1, <2>2 DEF Solid
  <2>5. /\ u \in Text /\ Len(u) = q + 1 - p
        /\ \A i \in 1..(q + 1 - p) : u[i] = t[p + i - 1]
        /\ \A c : (\A i \in p..q : t[i] # c) => Spots(u, c) = {}
    <3>1. p \in 1..(Len(t) + 1) /\ q \in 0..Len(t) /\ p <= q + 1
      BY ONLY <1>1, <2>4
    <3>2. /\ SubSeq(t, p, q) \in Text /\ Len(SubSeq(t, p, q)) = q + 1 - p
          /\ \A i \in 1..(q + 1 - p) : SubSeq(t, p, q)[i] = t[p + i - 1]
          /\ \A c : (\A i \in p..q : t[i] # c) => Spots(SubSeq(t, p, q), c) = {}
      BY ONLY <3>1, t \in Text, PartFacts, Zenon
    <3>. QED  BY ONLY <2>1, <3>2
  <2>6. u[1] = t[p] /\ u[Len(u)] = t[q]
    <3>1. 1 \in 1..(q + 1 - p) /\ q + 1 - p \in 1..(q + 1 - p) /\ p + 1 - 1 = p /\ p + (q + 1 - p) - 1 = q
      BY <1>1, <2>4
    <3>. QED  BY ONLY <2>5, <3>1
  <2>7. Trimmed(u) = u
    BY <2>4, <2>5, <2>6, TrimmedIs DEF IsTrimmed
  <2>8. \A c : Spots(t, c) = {} => Spots(u, c) = {}
    <3>1. SUFFICES ASSUME NEW c, Spots(t, c) = {} PROVE Spots(u, c) = {}
      OBVIOUS
    <3>2. \A i \in p..q : t[i] # c
      BY <1>1, <2>4, <3>1 DEF Spots
    <3>. QED  BY <2>5, <3>2
  <2>. QED  BY <1>3, <2>1, <2>3, <2>5, <2>6, <2>7, <2>8
<1>. QED  BY <1>2, <1>3

(* Trimming is done once. *)
LEMMA TrimmedOnceIsTrimmed ==
  /\ \A v \in Texts : Trimmed(v) \in Texts /\ Trimmed(Trimmed(v)) = Trimmed(v)
  /\ Trimmed(NoText) = NoText
<1>1. NoText \in Text /\ IsTrimmed(NoText)
  BY DEF NoText, Text, IsTrimmed
<1>2. Trimmed(NoText) = NoText
  BY <1>1, TrimmedIs
<1>3. ASSUME NEW v \in Texts PROVE Trimmed(v) \in Texts /\ Trimmed(Trimmed(v)) = Trimmed(v)
  <2>1. v \in Text /\ Spots(v, Newline) = {}
    BY DEF Texts
  <2>. QED  BY <2>1, TrimmedFacts DEF Texts
<1>. QED  BY <1>2, <1>3

----------------------------------------------------------------------------
(* Texts as lines *)

(* The places of the n-th line of a text, and what it holds *)
Within(t, n) == {i \in 1..Len(t) : t[i] # Newline /\ NewlinesBefore(t, i) = n - 1}
Line(t, n) == IF Within(t, n) = {} THEN <<>> ELSE SubSeq(t, Min(Within(t, n)), Max(Within(t, n)))

LEMMA SplitIs ==
  ASSUME NEW t
  PROVE  SplitLines(t) = [n \in 1..(NewlinesBefore(t, Len(t) + 1) + 1) |-> Line(t, n)]
BY DEF SplitLines, Line, Within

(* Newlines are counted from the first one on. *)
LEMMA NewlinesCount ==
  ASSUME NEW t \in Text, NEW i \in Nat
  PROVE  /\ NewlinesBefore(t, i) \in Nat
         /\ Spots(t, Newline) = {} => NewlinesBefore(t, i) = 0
         /\ \A j \in Nat : i <= j => NewlinesBefore(t, i) <= NewlinesBefore(t, j)
         /\ \A j \in Nat : i < j /\ i \in Spots(t, Newline) => NewlinesBefore(t, i) < NewlinesBefore(t, j)
<1>. DEFINE B(j) == {m \in Spots(t, Newline) : m < j}
<1>1. Len(t) \in Nat /\ Spots(t, Newline) \in SUBSET (1..Len(t))
  BY DEF Text, Spots
<1>2. IsFiniteSet(1..Len(t))
  <2>1. 1 \in Int /\ Len(t) \in Int
    BY <1>1
  <2>. QED  BY <2>1, FS_Interval
<1>3. ASSUME NEW j PROVE IsFiniteSet(B(j)) /\ NewlinesBefore(t, j) = Cardinality(B(j)) /\ Cardinality(B(j)) \in Nat
  <2>1. B(j) \in SUBSET (1..Len(t))
    BY <1>1
  <2>2. IsFiniteSet(B(j))
    BY ONLY <1>2, <2>1, FS_Subset
  <2>. QED  BY <2>2, FS_CardinalityType DEF NewlinesBefore
<1>4. ASSUME Spots(t, Newline) = {} PROVE NewlinesBefore(t, i) = 0
  <2>1. B(i) = {}
    BY <1>4
  <2>. QED  BY <1>3, <2>1, FS_EmptySet
<1>5. ASSUME NEW j \in Nat, i <= j PROVE NewlinesBefore(t, i) <= NewlinesBefore(t, j)
  <2>1. B(i) \in SUBSET B(j)
    BY <1>1, <1>5
  <2>2. Cardinality(B(i)) <= Cardinality(B(j))
    BY ONLY <1>3, <2>1, FS_Subset
  <2>. QED  BY <1>3, <2>2
<1>6. ASSUME NEW j \in Nat, i < j, i \in Spots(t, Newline) PROVE NewlinesBefore(t, i) < NewlinesBefore(t, j)
  <2>1. B(i) \cup {i} \in SUBSET B(j) /\ i \notin B(i)
    BY <1>1, <1>6
  <2>2. Cardinality(B(i) \cup {i}) = Cardinality(B(i)) + 1
    BY ONLY <1>3, <2>1, FS_AddElement
  <2>3. Cardinality(B(i) \cup {i}) <= Cardinality(B(j))
    BY ONLY <1>3, <2>1, FS_Subset
  <2>4. NewlinesBefore(t, i) + 1 <= NewlinesBefore(t, j)
    <3>1. Cardinality(B(i)) \in Nat /\ Cardinality(B(j)) \in Nat
      BY ONLY <1>3
    <3>2. Cardinality(B(i)) + 1 <= Cardinality(B(j))
      BY ONLY <2>2, <2>3
    <3>3. NewlinesBefore(t, i) = Cardinality(B(i)) /\ NewlinesBefore(t, j) = Cardinality(B(j))
      BY ONLY <1>3
    <3>. QED  BY ONLY <3>2, <3>3
  <2>5. NewlinesBefore(t, i) \in Nat /\ NewlinesBefore(t, j) \in Nat
    BY ONLY <1>3
  <2>. QED  BY ONLY <2>4, <2>5
<1>. QED  BY <1>3, <1>4, <1>5, <1>6

LEMMA LineHasNoNewline ==
  ASSUME NEW t \in Text, NEW n \in Nat
  PROVE  Line(t, n) \in Texts
<1>1. Len(t) \in Nat /\ Within(t, n) \in SUBSET (1..Len(t))
  BY DEF Text, Within
<1>2. CASE Within(t, n) = {}
  <2>1. Line(t, n) = NoText
    BY <1>2 DEF Line, NoText
  <2>. QED  BY <2>1, MarkersAreNoNames
<1>3. CASE Within(t, n) # {}
  <2>1. PICK a, b : a = Min(Within(t, n)) /\ b = Max(Within(t, n))
    OBVIOUS
  <2>2. a \in Within(t, n) /\ b \in Within(t, n) /\ \A i \in Within(t, n) : a <= i /\ i <= b
    BY ONLY <1>1, <1>3, <2>1, EndsOf
  <2>3. a \in 1..Len(t) /\ b \in 1..Len(t) /\ a <= b
    BY <1>1, <2>2
  <2>4. ASSUME NEW i \in a..b PROVE t[i] # Newline
    <3>1. SUFFICES ASSUME t[i] = Newline PROVE FALSE
      OBVIOUS
    <3>2. i \in Nat /\ i \in 1..Len(t) /\ a \in Nat /\ b \in Nat /\ a <= i /\ i <= b
      BY <1>1, <2>3
    <3>3. NewlinesBefore(t, a) = n - 1 /\ NewlinesBefore(t, b) = n - 1 /\ t[a] # Newline /\ t[b] # Newline
      BY <2>2 DEF Within
    <3>4. i # b /\ i < b
      BY ONLY <3>1, <3>2, <3>3
    <3>5. i \in Spots(t, Newline)
      BY ONLY <3>1, <3>2 DEF Spots
    <3>6. NewlinesBefore(t, a) <= NewlinesBefore(t, i) /\ NewlinesBefore(t, i) < NewlinesBefore(t, b)
      BY ONLY <3>2, <3>4, <3>5, t \in Text, NewlinesCount
    <3>7. NewlinesBefore(t, a) \in Nat /\ NewlinesBefore(t, i) \in Nat
      BY ONLY <3>2, t \in Text, NewlinesCount
    <3>. QED  BY ONLY <3>3, <3>6, <3>7
  <2>5. Line(t, n) = SubSeq(t, a, b)
    BY <1>3, <2>1 DEF Line
  <2>6. SubSeq(t, a, b) \in Text /\ Spots(SubSeq(t, a, b), Newline) = {}
    <3>1. a \in 1..(Len(t) + 1) /\ b \in 0..Len(t) /\ a <= b + 1
      BY ONLY <1>1, <2>3
    <3>2. SubSeq(t, a, b) \in Text
      BY ONLY <3>1, t \in Text, PartFacts, Zenon
    <3>3. Spots(SubSeq(t, a, b), Newline) = {}
      BY ONLY <2>4, <3>1, t \in Text, PartFacts, Zenon
    <3>. QED  BY <3>2, <3>3
  <2>. QED  BY <2>5, <2>6 DEF Texts
<1>. QED  BY <1>2, <1>3

(* A text without a newline is one line. *)
LEMMA OneLine ==
  ASSUME NEW t \in Texts
  PROVE  SplitLines(t) = <<t>>
<1>1. t \in Text /\ Spots(t, Newline) = {} /\ Len(t) \in Nat
  BY DEF Texts, Text
<1>2. \A i \in Nat : NewlinesBefore(t, i) = 0
  BY <1>1, NewlinesCount
<1>3. NewlinesBefore(t, Len(t) + 1) + 1 = 1
  BY <1>1, <1>2
<1>4. Within(t, 1) = 1..Len(t)
  BY <1>1, <1>2 DEF Within, Spots
<1>5. Line(t, 1) = t
  <2>1. CASE Len(t) = 0
    <3>1. t = <<>> /\ 1..Len(t) = {}
      BY <1>1, <2>1 DEF Text
    <3>. QED  BY <1>4, <3>1 DEF Line
  <2>2. CASE Len(t) # 0
    <3>1. 1..Len(t) # {} /\ 1 \in 1..Len(t) /\ Len(t) \in 1..Len(t)
      <4>1. 1 \in 1..Len(t) /\ Len(t) \in 1..Len(t)
        BY ONLY <1>1, <2>2
      <4>. QED  BY ONLY <4>1, Zenon
    <3>2. PICK a, b : a = Min(1..Len(t)) /\ b = Max(1..Len(t))
      OBVIOUS
    <3>3. a \in 1..Len(t) /\ b \in 1..Len(t) /\ \A i \in 1..Len(t) : a <= i /\ i <= b
      BY ONLY <1>1, <3>1, <3>2, EndsOf
    <3>4. a = 1 /\ b = Len(t)
      BY ONLY <1>1, <3>1, <3>3
    <3>5. SubSeq(t, 1, Len(t)) = t
      BY <1>1 DEF Text
    <3>. QED  BY <1>4, <3>1, <3>2, <3>4, <3>5 DEF Line
  <2>. QED  BY <2>1, <2>2
<1>6. SplitLines(t) = [n \in 1..1 |-> Line(t, n)]
  BY <1>3, SplitIs
<1>7. [n \in 1..1 |-> Line(t, n)] = <<Line(t, 1)>>
  OBVIOUS
<1>. QED  BY ONLY <1>5, <1>6, <1>7

(* What is taken for the name of a section or of an entry, and for its value, *)
(* are such.                                                                  *)
LEMMA LineOfType ==
  ASSUME NEW t \in Texts
  PROVE  LineOf(t) \in Lines
<1>. DEFINE p == Min(Solid(t))
            close == Min(Spots(t, "]"))
            equals == Min(Spots(t, "="))
<1>1. /\ t \in Text /\ Len(t) \in Nat /\ \A i \in 1..Len(t) : t[i] # Newline
      /\ Solid(t) \in SUBSET (1..Len(t)) /\ \A c : Spots(t, c) \in SUBSET (1..Len(t))
  BY DEF Texts, Text, Solid, Spots
<1>2. Solid(t) # {} => p \in Solid(t) /\ \A i \in Solid(t) : p <= i
  BY ONLY <1>1, EndsOf
<1>3. Spots(t, "]") # {} => close \in Spots(t, "]") /\ \A i \in Spots(t, "]") : close <= i
  BY ONLY <1>1, EndsOf
<1>4. Spots(t, "=") # {} => equals \in Spots(t, "=") /\ \A i \in Spots(t, "=") : equals <= i
  BY ONLY <1>1, EndsOf
<1>b. "[" \notin Comments
  BY Zenon DEF Comments
<1>5. CASE Solid(t) = {} \/ t[p] \in Comments
  <2>1. LineOf(t) = CommentLine
    BY <1>5 DEF LineOf
  <2>. QED  BY <2>1 DEF Lines
<1>6. CASE Solid(t) # {} /\ t[p] = "[" /\ Spots(t, "]") = {}
  <2>1. LineOf(t) = BrokenLine
    BY <1>b, <1>6 DEF LineOf
  <2>. QED  BY <2>1 DEF Lines
<1>7. CASE Solid(t) # {} /\ t[p] = "[" /\ Spots(t, "]") # {}
  <2>1. PICK u : u = SubSeq(t, p + 1, close - 1)
    OBVIOUS
  <2>2. LineOf(t) = SectionLine(Trimmed(u))
    BY <1>b, <1>7, <2>1 DEF LineOf
  <2>3. p \in 1..Len(t) /\ close \in 1..Len(t) /\ t[close] = "]" /\ p # close /\ p <= close
    <3>1. p \in 1..Len(t) /\ close \in 1..Len(t) /\ t[close] = "]"
      BY <1>1, <1>2, <1>3, <1>7 DEF Spots
    <3>2. close \in Solid(t)
      BY <3>1 DEF Solid, Space
    <3>. QED  BY <1>2, <1>7, <3>1, <3>2
  <2>4. /\ p + 1 \in 1..(Len(t) + 1) /\ close - 1 \in 0..Len(t) /\ p + 1 <= (close - 1) + 1
        /\ \A i \in (p + 1)..(close - 1) : t[i] # Newline /\ t[i] # "]"
    <3>1. ASSUME NEW i \in (p + 1)..(close - 1) PROVE t[i] # Newline /\ t[i] # "]"
      <4>1. i \in 1..Len(t) /\ ~(close <= i)
        BY <1>1, <2>3
      <4>2. i \notin Spots(t, "]")
        BY <1>3, <1>7, <4>1
      <4>. QED  BY <1>1, <4>1, <4>2 DEF Spots
    <3>2. p + 1 \in 1..(Len(t) + 1) /\ close - 1 \in 0..Len(t) /\ p + 1 <= (close - 1) + 1
      BY <1>1, <2>3
    <3>. QED  BY <3>1, <3>2
  <2>. HIDE DEF p, close
  <2>5. u \in Text /\ Spots(u, Newline) = {} /\ Spots(u, "]") = {}
    BY ONLY <1>1, <2>1, <2>4, PartFacts, Zenon
  <2>6. Trimmed(u) \in SecNames
    BY <2>5, TrimmedFacts DEF SecNames
  <2>. QED  BY <2>2, <2>6 DEF Lines, SectionLine
<1>8. CASE Solid(t) # {} /\ t[p] \notin {"["} \cup Comments /\ Spots(t, "=") = {}
  <2>1. LineOf(t) = EntryLine(Trimmed(t), NoValue)
    BY <1>8 DEF LineOf
  <2>2. Spots(t, Newline) = {}
    BY DEF Texts
  <2>3. Trimmed(t) \in KeyNames
    BY <1>1, <1>8, <2>2, TrimmedFacts DEF KeyNames
  <2>. QED  BY <2>1, <2>3 DEF Lines, EntryLine
<1>9. CASE Solid(t) # {} /\ t[p] \notin {"["} \cup Comments /\ Spots(t, "=") # {}
  <2>1. PICK u, v : u = SubSeq(t, 1, equals - 1) /\ v = SubSeq(t, equals + 1, Len(t))
    OBVIOUS
  <2>2. LineOf(t) = EntryLine(Trimmed(u), v)
    BY <1>9, <2>1 DEF LineOf
  <2>3. p \in 1..Len(t) /\ equals \in 1..Len(t) /\ t[p] # Space
    BY <1>1, <1>2, <1>4, <1>9 DEF Solid
  <2>4. /\ 1 \in 1..(Len(t) + 1) /\ equals - 1 \in 0..Len(t) /\ 1 <= (equals - 1) + 1
        /\ \A i \in 1..(equals - 1) : t[i] # Newline /\ t[i] # "=" /\ i \in 1..Len(t)
        /\ equals + 1 \in 1..(Len(t) + 1) /\ Len(t) \in 0..Len(t) /\ equals + 1 <= Len(t) + 1
        /\ \A i \in (equals + 1)..Len(t) : t[i] # Newline
    <3>1. ASSUME NEW i \in 1..(equals - 1) PROVE t[i] # Newline /\ t[i] # "=" /\ i \in 1..Len(t)
      <4>1. i \in 1..Len(t) /\ ~(equals <= i)
        BY <1>1, <2>3
      <4>2. i \notin Spots(t, "=")
        BY <1>4, <1>9, <4>1
      <4>. QED  BY <1>1, <4>1, <4>2 DEF Spots
    <3>2. ASSUME NEW i \in (equals + 1)..Len(t) PROVE t[i] # Newline
      BY <1>1, <2>3
    <3>3. /\ 1 \in 1..(Len(t) + 1) /\ equals - 1 \in 0..Len(t) /\ 1 <= (equals - 1) + 1
          /\ equals + 1 \in 1..(Len(t) + 1) /\ Len(t) \in 0..Len(t) /\ equals + 1 <= Len(t) + 1
      BY <1>1, <2>3
    <3>. QED  BY <3>1, <3>2, <3>3
  <2>. HIDE DEF p, equals
  <2>5. u \in Text /\ Spots(u, Newline) = {} /\ Spots(u, "=") = {}
    BY ONLY <1>1, <2>1, <2>4, PartFacts, Zenon
  <2>6. v \in Texts
    <3>1. v \in Text /\ Spots(v, Newline) = {}
      BY ONLY <1>1, <2>1, <2>4, PartFacts, Zenon
    <3>. QED  BY <3>1 DEF Texts
  <2>7. Trimmed(u) # <<>> => Trimmed(u)[1] \notin {"["} \cup Comments
    <3>1. SUFFICES ASSUME Trimmed(u) # <<>> PROVE Trimmed(u)[1] = t[p]
      BY <1>9
    <3>2. PICK m : m = Min(Solid(u))
      OBVIOUS
    <3>3. Solid(u) # {} /\ Trimmed(u)[1] = u[m]
      BY <2>5, <3>1, <3>2, TrimmedFacts
    <3>4. Len(u) = equals - 1 /\ \A i \in 1..(equals - 1) : u[i] = t[i]
      <4>1. Len(u) = (equals - 1) + 1 - 1 /\ \A i \in 1..((equals - 1) + 1 - 1) : u[i] = t[1 + i - 1]
        <5>1. PICK e : e = equals - 1
          OBVIOUS
        <5>2. 1 \in 1..(Len(t) + 1) /\ e \in 0..Len(t) /\ 1 <= e + 1
          BY ONLY <2>4, <5>1
        <5>3. /\ Len(SubSeq(t, 1, e)) = e + 1 - 1
              /\ \A i \in 1..(e + 1 - 1) : SubSeq(t, 1, e)[i] = t[1 + i - 1]
          BY ONLY <1>1, <5>2, PartFacts
        <5>. QED  BY ONLY <2>1, <5>1, <5>3
      <4>. QED  BY ONLY <2>3, <4>1
    <3>5. Solid(u) \in SUBSET (1..(equals - 1)) /\ \A i \in 1..(equals - 1) : i \in Solid(u) <=> i \in Solid(t)
      BY ONLY <2>4, <3>4 DEF Solid
    <3>6. equals - 1 \in Nat
      BY ONLY <2>3
    <3>7. m \in Solid(u) /\ \A i \in Solid(u) : m <= i
      BY ONLY <3>2, <3>3, <3>5, <3>6, EndsOf
    <3>8. p <= m /\ m \in 1..(equals - 1)
      BY ONLY <1>2, <1>9, <3>5, <3>7
    <3>9. p \in Solid(u)
      <4>1. p \in 1..(equals - 1)
        BY ONLY <2>3, <3>8
      <4>. QED  BY ONLY <1>2, <1>9, <3>5, <4>1
    <3>10. p = m
      BY ONLY <2>3, <3>7, <3>8, <3>9
    <3>. QED  BY ONLY <3>3, <3>4, <3>8, <3>10
  <2>8. Trimmed(u) \in KeyNames
    BY <2>5, <2>7, TrimmedFacts DEF KeyNames
  <2>. QED  BY <2>2, <2>6, <2>8 DEF Lines, EntryLine
<1>. QED  BY <1>5, <1>6, <1>7, <1>8, <1>9

(* Whatever is written, the file is made of lines. *)
LEMMA LinesOfType ==
  ASSUME NEW t \in Text
  PROVE  LinesOf(t) \in Seq(Lines)
<1>1. PICK m : m = NewlinesBefore(t, Len(t) + 1) + 1
  OBVIOUS
<1>2. m \in Nat
  <2>1. Len(t) + 1 \in Nat
    BY DEF Text
  <2>2. NewlinesBefore(t, Len(t) + 1) \in Nat
    BY <2>1, NewlinesCount
  <2>. QED  BY <1>1, <2>2
<1>3. PICK s : s = SplitLines(t)
  OBVIOUS
<1>4. s = [n \in 1..m |-> Line(t, n)]
  BY <1>1, <1>3, SplitIs
<1>5. Len(s) = m /\ \A n \in 1..m : s[n] = Line(t, n)
  BY ONLY <1>2, <1>4
<1>6. \A n \in 1..m : LineOf(s[n]) \in Lines
  <2>1. SUFFICES ASSUME NEW n \in 1..m PROVE LineOf(s[n]) \in Lines
    OBVIOUS
  <2>2. n \in Nat
    BY <1>2
  <2>3. s[n] \in Texts
    BY <1>5, <2>2, LineHasNoNewline
  <2>. QED  BY <2>3, LineOfType
<1>7. LinesOf(t) = [n \in 1..m |-> LineOf(s[n])]
  BY <1>3, <1>5 DEF LinesOf
<1>. QED  BY ONLY <1>2, <1>6, <1>7

LEMMA OneLineOf ==
  ASSUME NEW t \in Texts
  PROVE  LinesOf(t) = <<LineOf(t)>>
<1>1. SplitLines(t) = <<t>>
  BY OneLine
<1>2. PICK s : s = <<t>>
  OBVIOUS
<1>3. Len(s) = 1 /\ s[1] = t
  BY <1>2
<1>4. LinesOf(t) = [n \in 1..1 |-> LineOf(s[n])]
  BY ONLY <1>1, <1>2, <1>3 DEF LinesOf
<1>5. [n \in 1..1 |-> LineOf(s[n])] = <<LineOf(s[1])>>
  OBVIOUS
<1>. QED  BY ONLY <1>3, <1>4, <1>5

LEMMA CharsFacts ==
  /\ Space \in Chars /\ "[" \in Chars /\ "]" \in Chars /\ "=" \in Chars
  /\ Space # Newline /\ "[" # Newline /\ "]" # Newline /\ "=" # Newline
  /\ "[" # Space /\ "]" # Space /\ "=" # Space /\ "[" # "]" /\ "=" # "["
  /\ "[" \notin Comments /\ "=" \notin Comments
<1>1. /\ Space \in Chars /\ "[" \in Chars /\ "]" \in Chars /\ "=" \in Chars
      /\ "[" \notin Comments /\ "=" \notin Comments
  BY Zenon DEF Chars, Comments
<1>2. /\ Space # Newline /\ "[" # Newline /\ "]" # Newline /\ "=" # Newline
      /\ "[" # Space /\ "]" # Space /\ "=" # Space /\ "[" # "]" /\ "=" # "["
  BY SMT DEF Space, Newline
<1>. QED  BY ONLY <1>1, <1>2

(* A section whose name can be read is written as its line. *)
LEMMA SectionIsWritten ==
  ASSUME NEW s \in SecNames
  PROVE  WrittenSection(s) = <<SectionLine(s)>>
<1>1. PICK n, o, c, os, t : /\ n = Len(s) /\ o = <<"[">> /\ c = <<"]">> /\ os = o \o s /\ t = os \o c
  OBVIOUS
<1>2. s \in Text /\ s \in Seq(Chars) /\ n \in Nat /\ Trimmed(s) = s
  BY <1>1 DEF SecNames, Text
<1>3. \A i \in 1..n : s[i] # Newline /\ s[i] # "]"
  BY <1>1 DEF SecNames, Spots
<1>4. o \in Seq(Chars) /\ c \in Seq(Chars) /\ Len(o) = 1 /\ Len(c) = 1 /\ o[1] = "[" /\ c[1] = "]"
  BY <1>1, CharsFacts
<1>5. /\ os \in Seq(Chars) /\ Len(os) = 1 + n
      /\ \A i \in 1..(1 + n) : os[i] = IF i <= 1 THEN o[i] ELSE s[i - 1]
  BY ONLY <1>1, <1>2, <1>4, ConcatFacts
<1>6. /\ t \in Seq(Chars) /\ Len(t) = n + 2
      /\ \A i \in 1..(n + 2) : t[i] = IF i <= 1 + n THEN os[i] ELSE c[i - (1 + n)]
  <2>1. /\ t \in Seq(Chars) /\ Len(t) = (1 + n) + 1
        /\ \A i \in 1..((1 + n) + 1) : t[i] = IF i <= 1 + n THEN os[i] ELSE c[i - (1 + n)]
    BY ONLY <1>1, <1>4, <1>5, ConcatFacts
  <2>. QED  BY ONLY <1>2, <2>1
<1>7. t[1] = "["
  BY ONLY <1>2, <1>4, <1>5, <1>6
<1>8. t[n + 2] = "]"
  <2>1. n + 2 \in 1..(n + 2) /\ ~(n + 2 <= 1 + n) /\ (n + 2) - (1 + n) = 1
    BY ONLY <1>2
  <2>. QED  BY ONLY <1>4, <1>6, <2>1
<1>9. ASSUME NEW i \in 2..(n + 1) PROVE i - 1 \in 1..n /\ t[i] = s[i - 1]
  <2>1. i \in 1..(n + 2) /\ i <= 1 + n /\ i \in 1..(1 + n) /\ ~(i <= 1) /\ i - 1 \in 1..n
    BY ONLY <1>2, i \in 2..(n + 1)
  <2>. QED  BY ONLY <1>5, <1>6, <2>1
<1>10. t \in Texts
  <2>1. ASSUME NEW i \in 1..(n + 2) PROVE t[i] # Newline
    <3>1. i = 1 \/ i = n + 2 \/ i \in 2..(n + 1)
      BY ONLY <1>2, i \in 1..(n + 2)
    <3>. QED  BY <1>3, <1>7, <1>8, <1>9, <3>1, CharsFacts
  <2>. QED  BY <1>6, <2>1 DEF Texts, Text, Spots
<1>11. Solid(t) # {} /\ Min(Solid(t)) = 1
  <2>1. n + 2 \in Nat /\ Solid(t) \in SUBSET (1..(n + 2)) /\ 1 \in Solid(t)
    BY <1>2, <1>6, <1>7, CharsFacts DEF Solid
  <2>2. Min(Solid(t)) \in Solid(t) /\ Min(Solid(t)) <= 1
    BY ONLY <2>1, EndsOf
  <2>. QED  BY ONLY <2>1, <2>2
<1>12. Spots(t, "]") # {} /\ Min(Spots(t, "]")) = n + 2
  <2>1. n + 2 \in Nat /\ Spots(t, "]") \in SUBSET (1..(n + 2)) /\ n + 2 \in Spots(t, "]")
    BY <1>2, <1>6, <1>8 DEF Spots
  <2>2. ASSUME NEW i \in Spots(t, "]") PROVE i = n + 2
    <3>1. i \in 1..(n + 2) /\ t[i] = "]"
      BY <1>6 DEF Spots
    <3>2. i = 1 \/ i = n + 2 \/ i \in 2..(n + 1)
      BY ONLY <1>2, <3>1
    <3>. QED  BY <1>3, <1>7, <1>9, <3>1, <3>2, CharsFacts
  <2>3. Min(Spots(t, "]")) \in Spots(t, "]")
    BY ONLY <2>1, EndsOf
  <2>. QED  BY ONLY <2>1, <2>2, <2>3
<1>13. SubSeq(t, 1 + 1, (n + 2) - 1) = s
  <2>1. PICK u : u = SubSeq(t, 2, n + 1)
    OBVIOUS
  <2>2. u \in Seq(Chars) /\ Len(u) = n /\ \A i \in 1..n : u[i] = t[i + 1]
    BY <1>2, <1>6, <2>1
  <2>3. ASSUME NEW i \in 1..n PROVE u[i] = s[i]
    <3>1. i + 1 \in 2..(n + 1) /\ (i + 1) - 1 = i
      BY ONLY <1>2, i \in 1..n
    <3>2. t[i + 1] = s[(i + 1) - 1]
      BY ONLY <1>9, <3>1
    <3>. QED  BY ONLY <2>2, <3>1, <3>2, i \in 1..n
  <2>4. u = s
    BY ONLY <1>1, <1>2, <2>2, <2>3, SameSeq
  <2>5. 1 + 1 = 2 /\ (n + 2) - 1 = n + 1
    BY ONLY <1>2
  <2>. QED  BY ONLY <2>1, <2>4, <2>5
<1>14. LineOf(t) = SectionLine(s)
  <2>1. PICK p, close : p = Min(Solid(t)) /\ close = Min(Spots(t, "]"))
    OBVIOUS
  <2>2. p = 1 /\ close = n + 2 /\ SubSeq(t, p + 1, close - 1) = s
    BY ONLY <1>11, <1>12, <1>13, <2>1
  <2>3. t[p] = "["
    BY ONLY <1>7, <2>2
  <2>. QED  BY ONLY <1>2, <1>11, <1>12, <2>1, <2>2, <2>3, CharsFacts DEF LineOf
<1>. QED  BY <1>1, <1>10, <1>14, OneLineOf DEF WrittenSection

(* An entry whose name and value can be read is written as its line. *)
LEMMA EntryIsWritten ==
  ASSUME NEW k \in KeyNames, NEW v \in Texts
  PROVE  WrittenEntry(k, v) = <<EntryLine(k, v)>>
<1>1. PICK n, m, o, c, ok, okc, t :
        /\ n = Len(k) /\ m = Len(v) /\ o = <<Space>> /\ c = <<"=">>
        /\ ok = o \o k /\ okc = ok \o c /\ t = okc \o v
  OBVIOUS
<1>2. k \in Seq(Chars) /\ v \in Seq(Chars) /\ n \in Nat /\ m \in Nat
  BY <1>1 DEF KeyNames, Texts, Text
<1>3. \A i \in 1..n : k[i] # Newline /\ k[i] # "="
  BY <1>1 DEF KeyNames, Spots
<1>4. \A i \in 1..m : v[i] # Newline
  BY <1>1 DEF Texts, Spots
<1>5. o \in Seq(Chars) /\ c \in Seq(Chars) /\ Len(o) = 1 /\ Len(c) = 1 /\ o[1] = Space /\ c[1] = "="
  BY <1>1, CharsFacts
<1>6. /\ ok \in Seq(Chars) /\ Len(ok) = 1 + n
      /\ \A i \in 1..(1 + n) : ok[i] = IF i <= 1 THEN o[i] ELSE k[i - 1]
  BY ONLY <1>1, <1>2, <1>5, ConcatFacts
<1>7. /\ okc \in Seq(Chars) /\ Len(okc) = n + 2
      /\ \A i \in 1..(n + 2) : okc[i] = IF i <= 1 + n THEN ok[i] ELSE c[i - (1 + n)]
  <2>1. /\ okc \in Seq(Chars) /\ Len(okc) = (1 + n) + 1
        /\ \A i \in 1..((1 + n) + 1) : okc[i] = IF i <= 1 + n THEN ok[i] ELSE c[i - (1 + n)]
    BY ONLY <1>1, <1>5, <1>6, ConcatFacts
  <2>. QED  BY ONLY <1>2, <2>1
<1>8. /\ t \in Seq(Chars) /\ Len(t) = (n + 2) + m
      /\ \A i \in 1..((n + 2) + m) : t[i] = IF i <= n + 2 THEN okc[i] ELSE v[i - (n + 2)]
  BY ONLY <1>1, <1>2, <1>7, ConcatFacts
<1>9. t[1] = Space /\ t[n + 2] = "="
  <2>1. 1 \in 1..((n + 2) + m) /\ 1 <= n + 2 /\ 1 \in 1..(n + 2) /\ 1 <= 1 + n /\ 1 \in 1..(1 + n)
    BY ONLY <1>2
  <2>2. n + 2 \in 1..((n + 2) + m) /\ n + 2 \in 1..(n + 2) /\ ~(n + 2 <= 1 + n) /\ (n + 2) - (1 + n) = 1
        /\ n + 2 <= n + 2
    BY ONLY <1>2
  <2>. QED  BY ONLY <1>5, <1>6, <1>7, <1>8, <2>1, <2>2
<1>10. ASSUME NEW i \in 2..(n + 1) PROVE i - 1 \in 1..n /\ t[i] = k[i - 1]
  <2>1. /\ i \in 1..((n + 2) + m) /\ i <= n + 2 /\ i \in 1..(n + 2) /\ i <= 1 + n /\ i \in 1..(1 + n)
        /\ ~(i <= 1) /\ i - 1 \in 1..n
    BY ONLY <1>2, i \in 2..(n + 1)
  <2>. QED  BY ONLY <1>6, <1>7, <1>8, <2>1
<1>11. ASSUME NEW i \in (n + 3)..((n + 2) + m) PROVE i - (n + 2) \in 1..m /\ t[i] = v[i - (n + 2)]
  <2>1. i \in 1..((n + 2) + m) /\ ~(i <= n + 2) /\ i - (n + 2) \in 1..m
    BY ONLY <1>2, i \in (n + 3)..((n + 2) + m)
  <2>. QED  BY ONLY <1>8, <2>1
<1>12. \A i \in 1..((n + 2) + m) : i = 1 \/ i = n + 2 \/ i \in 2..(n + 1) \/ i \in (n + 3)..((n + 2) + m)
  BY ONLY <1>2
<1>13. t \in Texts
  <2>1. ASSUME NEW i \in 1..((n + 2) + m) PROVE t[i] # Newline
    BY <1>3, <1>4, <1>9, <1>10, <1>11, <1>12, CharsFacts
  <2>. QED  BY <1>8, <2>1 DEF Texts, Text, Spots
<1>14. /\ Solid(t) # {} /\ Min(Solid(t)) = 2 /\ t[2] \notin {"["} \cup Comments
  <2>1. t[2] # Space /\ t[2] \notin {"["} \cup Comments
    <3>1. CASE n = 0
      <4>1. t[2] = "="
        BY ONLY <1>9, <3>1
      <4>. QED  BY <4>1, CharsFacts
    <3>2. CASE n # 0
      <4>1. 2 \in 2..(n + 1) /\ 2 - 1 = 1
        BY ONLY <1>2, <3>2
      <4>2. t[2] = k[1]
        <5>1. t[2] = k[2 - 1]
          BY ONLY <1>10, <4>1
        <5>. QED  BY ONLY <4>1, <5>1
      <4>3. k # <<>>
        BY <1>1, <3>2
      <4>4. k \in Text /\ Trimmed(k) = k /\ k[1] \notin {"["} \cup Comments
        BY <4>3, Zenon DEF KeyNames
      <4>5. k[1] # Space
        BY <4>3, <4>4, TrimmedIs DEF IsTrimmed
      <4>. QED  BY <4>2, <4>4, <4>5
    <3>. QED  BY <3>1, <3>2
  <2>2. (n + 2) + m \in Nat /\ Solid(t) \in SUBSET (1..((n + 2) + m)) /\ 2 \in Solid(t) /\ 1 \notin Solid(t)
    BY <1>2, <1>8, <1>9, <2>1 DEF Solid
  <2>3. Min(Solid(t)) \in Solid(t) /\ Min(Solid(t)) <= 2
    BY ONLY <2>2, EndsOf
  <2>4. Min(Solid(t)) = 2
    BY ONLY <2>2, <2>3
  <2>. QED  BY <2>1, <2>2, <2>4
<1>15. Spots(t, "=") # {} /\ Min(Spots(t, "=")) = n + 2
  <2>1. (n + 2) + m \in Nat /\ Spots(t, "=") \in SUBSET (1..((n + 2) + m)) /\ n + 2 \in Spots(t, "=")
    BY <1>2, <1>8, <1>9 DEF Spots
  <2>2. ASSUME NEW i \in Spots(t, "=") PROVE n + 2 <= i
    <3>1. i \in 1..((n + 2) + m) /\ t[i] = "="
      BY <1>8 DEF Spots
    <3>2. i # 1 /\ i \notin 2..(n + 1)
      BY <1>3, <1>9, <1>10, <3>1, CharsFacts
    <3>. QED  BY ONLY <1>2, <3>1, <3>2
  <2>3. Min(Spots(t, "=")) \in Spots(t, "=") /\ Min(Spots(t, "=")) <= n + 2
    BY ONLY <2>1, EndsOf
  <2>4. n + 2 <= Min(Spots(t, "="))
    BY ONLY <2>2, <2>3
  <2>5. Min(Spots(t, "=")) \in 1..((n + 2) + m)
    BY ONLY <2>1, <2>3
  <2>. QED  BY ONLY <1>2, <2>1, <2>3, <2>4, <2>5
<1>16. SubSeq(t, 1, (n + 2) - 1) = ok
  <2>1. PICK u : u = SubSeq(t, 1, n + 1)
    OBVIOUS
  <2>2. u \in Seq(Chars) /\ Len(u) = 1 + n /\ \A i \in 1..(1 + n) : u[i] = t[i]
    <3>1. PICK e : e = n + 1
      OBVIOUS
    <3>2. t \in Text /\ 1 \in 1..(Len(t) + 1) /\ e \in 0..Len(t) /\ 1 <= e + 1
      BY ONLY <1>2, <1>8, <3>1 DEF Text
    <3>3. /\ SubSeq(t, 1, e) \in Text /\ Len(SubSeq(t, 1, e)) = e + 1 - 1
          /\ \A i \in 1..(e + 1 - 1) : SubSeq(t, 1, e)[i] = t[1 + i - 1]
      BY ONLY <3>2, PartFacts
    <3>4. e + 1 - 1 = 1 + n /\ \A i \in 1..(1 + n) : 1 + i - 1 = i
      BY ONLY <1>2, <3>1
    <3>. QED  BY ONLY <2>1, <3>1, <3>3, <3>4 DEF Text
  <2>3. ASSUME NEW i \in 1..(1 + n) PROVE u[i] = ok[i]
    <3>1. i \in 1..((n + 2) + m) /\ i <= n + 2 /\ i \in 1..(n + 2) /\ i <= 1 + n
      BY ONLY <1>2, i \in 1..(1 + n)
    <3>. QED  BY ONLY <1>7, <1>8, <2>2, <3>1, i \in 1..(1 + n)
  <2>4. u = ok
    BY ONLY <1>6, <2>2, <2>3, SameSeq
  <2>5. (n + 2) - 1 = n + 1
    BY ONLY <1>2
  <2>. QED  BY ONLY <2>1, <2>4, <2>5
<1>17. SubSeq(t, (n + 2) + 1, Len(t)) = v
  <2>1. PICK u : u = SubSeq(t, n + 3, (n + 2) + m)
    OBVIOUS
  <2>2. u \in Seq(Chars) /\ Len(u) = m /\ \A i \in 1..m : u[i] = t[i + (n + 2)]
    <3>1. PICK e : e = (n + 2) + m
      OBVIOUS
    <3>2. t \in Text /\ n + 3 \in 1..(Len(t) + 1) /\ e \in 0..Len(t) /\ n + 3 <= e + 1
      BY ONLY <1>2, <1>8, <3>1 DEF Text
    <3>3. /\ SubSeq(t, n + 3, e) \in Text /\ Len(SubSeq(t, n + 3, e)) = e + 1 - (n + 3)
          /\ \A i \in 1..(e + 1 - (n + 3)) : SubSeq(t, n + 3, e)[i] = t[(n + 3) + i - 1]
      BY ONLY <3>2, PartFacts
    <3>4. e + 1 - (n + 3) = m /\ \A i \in 1..m : (n + 3) + i - 1 = i + (n + 2)
      BY ONLY <1>2, <3>1
    <3>. QED  BY ONLY <2>1, <3>1, <3>3, <3>4 DEF Text
  <2>3. ASSUME NEW i \in 1..m PROVE u[i] = v[i]
    <3>1. i + (n + 2) \in (n + 3)..((n + 2) + m) /\ (i + (n + 2)) - (n + 2) = i
      BY ONLY <1>2, i \in 1..m
    <3>2. t[i + (n + 2)] = v[(i + (n + 2)) - (n + 2)]
      BY ONLY <1>11, <3>1
    <3>. QED  BY ONLY <2>2, <3>1, <3>2, i \in 1..m
  <2>4. u = v
    BY ONLY <1>1, <1>2, <2>2, <2>3, SameSeq
  <2>5. (n + 2) + 1 = n + 3
    BY ONLY <1>2
  <2>. QED  BY ONLY <1>8, <2>1, <2>4, <2>5
<1>18. Trimmed(ok) = k
  <2>1. k \in Text /\ Trimmed(k) = k /\ ok \in Text /\ Len(ok) \in Nat
    BY <1>2, <1>6 DEF KeyNames, Text
  <2>2. \A i \in 1..n : ok[i + 1] = k[i] /\ i + 1 \in 1..(1 + n)
    <3>1. SUFFICES ASSUME NEW i \in 1..n PROVE ok[i + 1] = k[i] /\ i + 1 \in 1..(1 + n)
      OBVIOUS
    <3>2. i + 1 \in 1..(1 + n) /\ ~(i + 1 <= 1) /\ (i + 1) - 1 = i
      BY ONLY <1>2, <3>1, i \in 1..n
    <3>. QED  BY ONLY <1>6, <3>2
  <2>3. ok[1] = Space
    <3>1. 1 \in 1..(1 + n)
      BY ONLY <1>2
    <3>. QED  BY ONLY <1>5, <1>6, <3>1
  <2>4. CASE n = 0
    <3>1. k = <<>>
      <4>1. k \in Seq(Chars) /\ Len(k) = 0
        BY ONLY <1>1, <1>2, <2>4
      <4>. QED  BY ONLY <4>1
    <3>2. Solid(ok) = {}
      BY <1>6, <2>3, <2>4 DEF Solid
    <3>. QED  BY <3>1, <3>2 DEF Trimmed
  <2>5. CASE n # 0
    <3>1. k # <<>>
      BY <1>1, <2>5
    <3>2. k[1] # Space /\ k[n] # Space
      BY <1>1, <2>1, <3>1, TrimmedIs DEF IsTrimmed
    <3>3. 1 \in 1..n /\ n \in 1..n /\ 1 + 1 = 2 /\ n + 1 \in 1..(1 + n) /\ 2 \in 1..(1 + n)
      BY ONLY <1>2, <2>5
    <3>4. ok[2] # Space /\ ok[n + 1] # Space
      <4>1. ok[1 + 1] = k[1] /\ ok[n + 1] = k[n]
        BY ONLY <2>2, <3>3
      <4>. QED  BY ONLY <3>2, <3>3, <4>1
    <3>5. Solid(ok) \in SUBSET (1..(1 + n)) /\ 2 \in Solid(ok) /\ n + 1 \in Solid(ok) /\ 1 \notin Solid(ok)
      BY <1>6, <2>3, <3>3, <3>4 DEF Solid
    <3>6. 1 + n \in Nat /\ Solid(ok) # {}
      BY ONLY <1>2, <3>5
    <3>7. PICK p, q : p = Min(Solid(ok)) /\ q = Max(Solid(ok))
      OBVIOUS
    <3>8. p \in Solid(ok) /\ q \in Solid(ok) /\ p <= 2 /\ n + 1 <= q
      BY ONLY <3>5, <3>6, <3>7, EndsOf
    <3>9. p = 2 /\ q = n + 1
      <4>1. p \in 1..(1 + n) /\ q \in 1..(1 + n) /\ p # 1
        BY ONLY <3>5, <3>8
      <4>. QED  BY ONLY <1>2, <3>8, <4>1
    <3>10. Trimmed(ok) = SubSeq(ok, 2, n + 1)
      BY ONLY <3>6, <3>7, <3>9 DEF Trimmed
    <3>11. PICK u : u = SubSeq(ok, 2, n + 1)
      OBVIOUS
    <3>12. u \in Seq(Chars) /\ Len(u) = n /\ \A i \in 1..n : u[i] = ok[i + 1]
      BY <1>2, <1>6, <3>11
    <3>13. u = k
      <4>1. \A i \in 1..n : u[i] = k[i]
        BY ONLY <2>2, <3>12
      <4>. QED  BY ONLY <1>1, <1>2, <3>12, <4>1, SameSeq
    <3>. QED  BY ONLY <3>10, <3>11, <3>13
  <2>. QED  BY <2>4, <2>5
<1>19. LineOf(t) = EntryLine(k, v)
  <2>1. PICK p, equals : p = Min(Solid(t)) /\ equals = Min(Spots(t, "="))
    OBVIOUS
  <2>2. /\ SubSeq(t, 1, equals - 1) = ok /\ SubSeq(t, equals + 1, Len(t)) = v
        /\ t[p] \notin Comments /\ t[p] # "["
    BY ONLY <1>14, <1>15, <1>16, <1>17, <2>1
  <2>. QED  BY ONLY <1>14, <1>15, <1>18, <2>1, <2>2 DEF LineOf
<1>. QED  BY <1>1, <1>13, <1>19, OneLineOf DEF WrittenEntry

(* Whatever is written is read as lines. *)
LEMMA WrittenType ==
  ASSUME NEW s \in Text, NEW k \in Text, NEW v \in Text
  PROVE  WrittenSection(s) \in Seq(Lines) /\ WrittenEntry(k, v) \in Seq(Lines)
<1>1. /\ <<"[">> \in Text /\ <<"]">> \in Text /\ <<Space>> \in Text /\ <<"=">> \in Text
  BY CharsFacts DEF Text
<1>2. <<"[">> \o s \o <<"]">> \in Text
  BY ONLY <1>1, s \in Text, ConcatFacts DEF Text
<1>3. <<Space>> \o k \o <<"=">> \o v \in Text
  BY ONLY <1>1, k \in Text, v \in Text, ConcatFacts DEF Text
<1>. QED  BY <1>2, <1>3, LinesOfType DEF WrittenSection, WrittenEntry

----------------------------------------------------------------------------
(* Reading lines *)

(* How far a parse has come after each line *)
IsParse(g, lines, n) ==
  g = [m \in 0..n |-> IF m = 0 THEN NothingRead ELSE ParseLine(g[m - 1], lines[m])]

(* A parse of the lines but the last is one step short of the whole. *)
LEMMA ParseStep ==
  ASSUME NEW lines, NEW n \in Nat, NEW g, IsParse(g, lines, n)
  PROVE  /\ \A m \in 0..n : g[m] = IF m = 0 THEN NothingRead ELSE ParseLine(g[m - 1], lines[m])
         /\ \E h : IsParse(h, lines, n + 1)
<1>1. \A m \in 0..n : g[m] = IF m = 0 THEN NothingRead ELSE ParseLine(g[m - 1], lines[m])
  BY DEF IsParse
<1>. DEFINE k == n + 1
            h == [m \in 0..k |-> IF m <= n THEN g[m] ELSE ParseLine(g[m - 1], lines[m])]
<1>2. ASSUME NEW m \in 0..k
      PROVE  h[m] = IF m = 0 THEN NothingRead ELSE ParseLine(h[m - 1], lines[m])
  <2>1. m # 0 => m - 1 \in 0..k /\ m - 1 <= n
    OBVIOUS
  <2>2. m # 0 => h[m - 1] = g[m - 1]
    BY <2>1
  <2>3. h[m] = IF m <= n THEN g[m] ELSE ParseLine(g[m - 1], lines[m])
    OBVIOUS
  <2>4. (m <= n => m \in 0..n) /\ (m = 0 => m <= n)
    OBVIOUS
  <2>. HIDE DEF h
  <2>. QED  BY <1>1, <2>2, <2>3, <2>4
<1>3. h = [m \in 0..k |-> h[m]]
  OBVIOUS
<1>. HIDE DEF h
<1>4. h = [m \in 0..k |-> IF m = 0 THEN NothingRead ELSE ParseLine(h[m - 1], lines[m])]
  BY <1>2, <1>3
<1>5. IsParse(h, lines, n + 1)
  BY <1>4 DEF IsParse
<1>. QED  BY <1>1, <1>5

LEMMA ParseExists ==
  ASSUME NEW lines, NEW n \in Nat
  PROVE  \E g : IsParse(g, lines, n)
<1>. DEFINE S == {k \in Nat : ~ \E g : IsParse(g, lines, k)}
<1>1. SUFFICES ASSUME S # {} PROVE FALSE
  OBVIOUS
<1>2. PICK k \in S : \A j \in S : k <= j
  BY <1>1, LeastNat
<1>3. CASE k = 0
  <2>. DEFINE h == [m \in 0..0 |-> NothingRead]
  <2>1. h = [m \in 0..0 |-> h[m]] /\ \A m \in 0..0 : m = 0 /\ h[m] = NothingRead
    OBVIOUS
  <2>. HIDE DEF h
  <2>2. h = [m \in 0..0 |-> IF m = 0 THEN NothingRead ELSE ParseLine(h[m - 1], lines[m])]
    BY ONLY <2>1
  <2>3. IsParse(h, lines, 0)
    BY ONLY <2>2 DEF IsParse
  <2>. QED  BY <1>3, <2>3
<1>4. CASE k # 0
  <2>1. k - 1 \in Nat /\ ~(k <= k - 1) /\ (k - 1) + 1 = k
    BY <1>4
  <2>2. k - 1 \notin S
    BY <1>2, <2>1
  <2>3. PICK g : IsParse(g, lines, k - 1)
    BY <2>1, <2>2
  <2>4. \E h : IsParse(h, lines, k)
    BY <2>1, <2>3, ParseStep
  <2>. QED  BY <2>4
<1>. QED  BY <1>3, <1>4

(* As far as two of them have the same lines, they are as far. *)
SameWay(g, s, m, h, t, n, k) ==
  /\ m \in Nat /\ n \in Nat /\ k \in Nat /\ k <= m /\ k <= n
  /\ IsParse(g, s, m) /\ IsParse(h, t, n)
  /\ \A i \in 1..k : s[i] = t[i]

LEMMA ParseAgree ==
  ASSUME NEW g, NEW s, NEW m, NEW h, NEW t, NEW n, NEW k, SameWay(g, s, m, h, t, n, k)
  PROVE  g[k] = h[k]
<1>. m \in Nat /\ n \in Nat /\ k \in Nat /\ k <= m /\ k <= n
     /\ IsParse(g, s, m) /\ IsParse(h, t, n) /\ \A i \in 1..k : s[i] = t[i]
  BY DEF SameWay
<1>. SUFFICES \A i \in 0..k : g[i] = h[i]
  OBVIOUS
<1>. DEFINE S == {i \in 0..k : g[i] # h[i]}
<1>1. SUFFICES ASSUME S # {} PROVE FALSE
  OBVIOUS
<1>2. PICK i \in S : \A j \in S : i <= j
  <2>1. S \in SUBSET Nat
    OBVIOUS
  <2>. QED  BY <1>1, <2>1, LeastNat
<1>3. /\ g[i] = IF i = 0 THEN NothingRead ELSE ParseLine(g[i - 1], s[i])
      /\ h[i] = IF i = 0 THEN NothingRead ELSE ParseLine(h[i - 1], t[i])
      /\ i # 0 => s[i] = t[i]
  <2>1. i \in 0..m /\ i \in 0..n /\ (i # 0 => i \in 1..k)
    OBVIOUS
  <2>2. g[i] = IF i = 0 THEN NothingRead ELSE ParseLine(g[i - 1], s[i])
    BY ONLY <2>1, m \in Nat, IsParse(g, s, m), ParseStep
  <2>3. h[i] = IF i = 0 THEN NothingRead ELSE ParseLine(h[i - 1], t[i])
    BY ONLY <2>1, n \in Nat, IsParse(h, t, n), ParseStep
  <2>. QED  BY <2>1, <2>2, <2>3
<1>4. i # 0 => g[i - 1] = h[i - 1]
  <2>1. i # 0 => i - 1 \in 0..k /\ ~(i <= i - 1)
    OBVIOUS
  <2>. QED  BY <1>2, <2>1
<1>. QED  BY <1>3, <1>4

LEMMA ParseIs ==
  ASSUME NEW lines, Len(lines) \in Nat
  PROVE  \E g : IsParse(g, lines, Len(lines)) /\ iniparse_parse(lines) = g[Len(lines)]
<1>. DEFINE g == CHOOSE f : f = [m \in 0..Len(lines) |-> IF m = 0 THEN NothingRead ELSE ParseLine(f[m - 1], lines[m])]
<1>1. \E f : f = [m \in 0..Len(lines) |-> IF m = 0 THEN NothingRead ELSE ParseLine(f[m - 1], lines[m])]
  BY ParseExists DEF IsParse
<1>2. g = [m \in 0..Len(lines) |-> IF m = 0 THEN NothingRead ELSE ParseLine(g[m - 1], lines[m])]
  BY <1>1
<1>3. iniparse_parse(lines) = g[Len(lines)]
  BY Zenon DEF iniparse_parse
<1>. HIDE DEF g
<1>. QED  BY <1>2, <1>3 DEF IsParse

LEMMA ParseNothing == iniparse_parse(<<>>) = NothingRead
<1>1. PICK g : IsParse(g, <<>>, 0) /\ iniparse_parse(<<>>) = g[0]
  BY ParseIs, EmptyFacts
<1>. QED  BY <1>1, ParseStep

(* One line more *)
LEMMA ParseMore ==
  ASSUME NEW all, NEW first, NEW line, AddsLast(all, first, line)
  PROVE  iniparse_parse(all) = ParseLine(iniparse_parse(first), line)
<1>. DEFINE n == Len(first)
<1>1. n \in Nat /\ Len(all) = n + 1 /\ all[n + 1] = line /\ \A i \in 1..n : first[i] = all[i]
  BY DEF AddsLast
<1>. HIDE DEF n
<1>d. n = Len(first)
  BY DEF n
<1>2. PICK g : IsParse(g, all, n + 1) /\ iniparse_parse(all) = g[n + 1]
  BY <1>1, ParseIs
<1>3. PICK h : IsParse(h, first, n) /\ iniparse_parse(first) = h[n]
  BY <1>1, <1>d, ParseIs
<1>4. n <= n + 1 /\ n <= n /\ n \in 0..n /\ n + 1 \in Nat /\ n + 1 \in 0..(n + 1) /\ n + 1 # 0 /\ (n + 1) - 1 = n
  BY <1>1
<1>5. h[n] = g[n]
  <2>1. SameWay(h, first, n, g, all, n + 1, n)
    BY ONLY <1>1, <1>2, <1>3, <1>4 DEF SameWay
  <2>. QED  BY ONLY <2>1, ParseAgree
<1>6. g[n + 1] = ParseLine(g[n], all[n + 1])
  BY <1>1, <1>2, <1>4, ParseStep
<1>. QED  BY ONLY <1>1, <1>2, <1>3, <1>4, <1>5, <1>6

LEMMA AppendAddsLast ==
  ASSUME NEW S, NEW s \in Seq(S), NEW e \in S
  PROVE  AddsLast(Append(s, e), s, e) /\ Append(s, e) = s \o <<e>>
BY DEF AddsLast

----------------------------------------------------------------------------
(* Where a section and an entry are, and what is listed *)

(* Where a section is, and its first entry of a key *)
IsFirst(m, I, n) == n \in Nat /\ I \subseteq 1..n /\ m = IF I # {} THEN Min(I) ELSE 0

LEMMA FirstOf ==
  ASSUME NEW m, NEW I, NEW n, IsFirst(m, I, n)
  PROVE  /\ m \in 0..n
         /\ m = 0 => I = {}
         /\ m # 0 => m \in I /\ \A i \in I : m <= i
<1>. n \in Nat /\ I \subseteq 1..n /\ m = IF I # {} THEN Min(I) ELSE 0
  BY DEF IsFirst
<1>1. CASE I = {}
  BY <1>1
<1>2. CASE I # {}
  <2>1. I \in SUBSET Nat
    OBVIOUS
  <2>2. \E i \in I : \A j \in I : i <= j
    BY <1>2, <2>1, LeastNat
  <2>3. m = CHOOSE i \in I : \A j \in I : i <= j
    BY <1>2 DEF Min
  <2>4. m \in I /\ \A j \in I : m <= j
    BY ONLY <2>2, <2>3
  <2>. QED  BY <2>4
<1>. QED  BY <1>1, <1>2

(* A section is in one place only. *)
LEMMA SecAtFacts ==
  ASSUME NEW ini, IsIni(ini), NEW s
  PROVE  /\ SecAt(ini, s) \in 0..Len(ini)
         /\ SecAt(ini, s) = 0 => \A i \in 1..Len(ini) : ini[i].sec # s
         /\ SecAt(ini, s) # 0 => /\ SecAt(ini, s) \in 1..Len(ini) /\ ini[SecAt(ini, s)].sec = s
                                 /\ \A i \in 1..Len(ini) : ini[i].sec = s => i = SecAt(ini, s)
<1>. DEFINE I == {i \in 1..Len(ini) : ini[i].sec = s}
<1>1. SecAt(ini, s) = IF I # {} THEN Min(I) ELSE 0
  BY DEF SecAt, SelectInSeq
<1>2. Len(ini) \in Nat /\ I \subseteq 1..Len(ini)
  BY DEF IsIni
<1>i. IsFirst(SecAt(ini, s), I, Len(ini))
  BY ONLY <1>1, <1>2 DEF IsFirst
<1>3. /\ SecAt(ini, s) \in 0..Len(ini)
      /\ SecAt(ini, s) = 0 => I = {}
      /\ SecAt(ini, s) # 0 => SecAt(ini, s) \in I
  BY ONLY <1>i, FirstOf
<1>. QED  BY <1>3 DEF IsIni

(* Of the entries of a key, the first is found. *)
LEMMA EntryAtFacts ==
  ASSUME NEW ini, IsIni(ini), NEW s, NEW k, NEW a, a = SecAt(ini, s), NEW e, e = EntryAt(ini, s, k)
  PROVE  \/ e = 0 /\ a = 0
         \/ e = 0 /\ a # 0 /\ \A j \in 1..Len(ini[a].entries) : ini[a].entries[j].key # k
         \/ /\ e # 0 /\ a # 0 /\ e \in 1..Len(ini[a].entries) /\ ini[a].entries[e].key = k
            /\ \A j \in 1..(e - 1) : ini[a].entries[j].key # k
<1>1. CASE a = 0
  BY <1>1 DEF EntryAt
<1>2. CASE a # 0
  <2>. DEFINE I == {j \in 1..Len(ini[a].entries) : ini[a].entries[j].key = k}
  <2>1. a \in 1..Len(ini)
    BY <1>2, SecAtFacts
  <2>2. ini[a].entries \in Seq(IniEntries)
    <3>1. ini[a] \in IniSections
      BY <2>1 DEF IsIni
    <3>. QED  BY <3>1 DEF IniSections
  <2>3. Len(ini[a].entries) \in Nat /\ I \subseteq 1..Len(ini[a].entries)
    BY <2>2
  <2>4. e = IF I # {} THEN Min(I) ELSE 0
    BY <1>2 DEF EntryAt, SelectInSeq
  <2>5. /\ e \in 0..Len(ini[a].entries)
        /\ e = 0 => I = {}
        /\ e # 0 => e \in I /\ \A i \in I : e <= i
    <3>1. IsFirst(e, I, Len(ini[a].entries))
      BY ONLY <2>3, <2>4 DEF IsFirst
    <3>. QED  BY ONLY <3>1, FirstOf
  <2>6. CASE e = 0
    BY <1>2, <2>5, <2>6
  <2>7. CASE e # 0
    <3>1. e \in 1..Len(ini[a].entries) /\ ini[a].entries[e].key = k
      BY <2>5, <2>7
    <3>2. ASSUME NEW j \in 1..(e - 1) PROVE ini[a].entries[j].key # k
      <4>1. j \in 1..Len(ini[a].entries) /\ ~(e <= j)
        BY <2>3, <3>1
      <4>. QED  BY <2>5, <2>7, <4>1
    <3>. QED  BY <1>2, <2>7, <3>1, <3>2
  <2>. QED  BY <2>6, <2>7
<1>. QED  BY <1>1, <1>2

----------------------------------------------------------------------------
(* What is listed of a section and of all *)

IniItems == [sec : SecNames, key : KeyNames, val : Texts]
Piece(x, e) == IF e.key = Deleted THEN <<>> ELSE <<Item(x, e)>>
Pieces(x) == [j \in 1..Len(x.entries) |-> Piece(x, x.entries[j])]
Lists(ini) == [i \in 1..Len(ini) |-> Items(ini[i])]

LEMMA PieceFacts ==
  ASSUME NEW x \in IniSections, NEW e \in IniEntries
  PROVE  /\ Piece(x, e) \in Seq(IniItems)
         /\ \A r \in 1..Len(Piece(x, e)) :
              Piece(x, e)[r].sec = x.sec /\ Piece(x, e)[r].key = e.key /\ e.key # Deleted
         /\ e.key # Deleted => Item(x, e) \in IniItems
<1>1. CASE e.key = Deleted
  <2>1. Piece(x, e) = <<>>
    BY <1>1 DEF Piece
  <2>. QED  BY <1>1, <2>1, EmptyFacts
<1>2. CASE e.key # Deleted
  <2>1. Item(x, e) \in IniItems /\ Item(x, e).sec = x.sec /\ Item(x, e).key = e.key
    BY <1>2, MarkersAreNoNames DEF Item, IniItems, IniSections, IniEntries
  <2>2. PICK i : i = Item(x, e)
    OBVIOUS
  <2>3. Piece(x, e) = <<i>>
    BY <1>2, <2>2 DEF Piece
  <2>. QED  BY <1>2, <2>1, <2>2, <2>3
<1>. QED  BY <1>1, <1>2

LEMMA PiecesFacts ==
  ASSUME NEW x \in IniSections
  PROVE  /\ Pieces(x) \in Seq(Seq(IniItems)) /\ Len(Pieces(x)) = Len(x.entries)
         /\ \A j \in 1..Len(x.entries) : Pieces(x)[j] = Piece(x, x.entries[j]) /\ x.entries[j] \in IniEntries
         /\ Items(x) = FlattenSeq(Pieces(x))
<1>1. x.entries \in Seq(IniEntries) /\ Len(x.entries) \in Nat
      /\ \A j \in 1..Len(x.entries) : x.entries[j] \in IniEntries
  BY DEF IniSections
<1>2. \A j \in 1..Len(x.entries) : Piece(x, x.entries[j]) \in Seq(IniItems)
  BY <1>1, PieceFacts
<1>3. Pieces(x) \in Seq(Seq(IniItems)) /\ Len(Pieces(x)) = Len(x.entries)
  BY <1>1, <1>2 DEF Pieces
<1>4. Items(x) = FlattenSeq(Pieces(x))
  BY DEF Items, Pieces, Piece
<1>. QED  BY <1>1, <1>3, <1>4 DEF Pieces

(* Of one section only, and each of an entry of it. *)
LEMMA ItemsFacts ==
  ASSUME NEW x \in IniSections
  PROVE  /\ Items(x) \in Seq(IniItems)
         /\ \A q \in 1..Len(Items(x)) :
              /\ Items(x)[q].sec = x.sec
              /\ \E j \in 1..Len(x.entries) : Items(x)[q].key = x.entries[j].key
<1>1. Items(x) \in Seq(IniItems) /\ From(Items(x), Pieces(x), 1, Len(x.entries))
  BY PiecesFacts, FlatType
<1>2. ASSUME NEW q \in 1..Len(Items(x))
      PROVE  Items(x)[q].sec = x.sec /\ \E j \in 1..Len(x.entries) : Items(x)[q].key = x.entries[j].key
  <2>1. PICK j \in 1..Len(x.entries) : \E r \in 1..Len(Pieces(x)[j]) : Items(x)[q] = Pieces(x)[j][r]
    BY <1>1 DEF From
  <2>2. x.entries[j] \in IniEntries /\ Pieces(x)[j] = Piece(x, x.entries[j])
    BY PiecesFacts
  <2>. QED  BY <2>1, <2>2, PieceFacts
<1>. QED  BY <1>1, <1>2

LEMMA ListsFacts ==
  ASSUME NEW ini \in Seq(IniSections)
  PROVE  /\ Lists(ini) \in Seq(Seq(IniItems)) /\ Len(Lists(ini)) = Len(ini)
         /\ \A i \in 1..Len(ini) : Lists(ini)[i] = Items(ini[i]) /\ ini[i] \in IniSections
         /\ iniparse_fprint(ini) = FlattenSeq(Lists(ini))
         /\ iniparse_fprint(ini) \in Seq(IniItems)
<1>1. Len(ini) \in Nat /\ \A i \in 1..Len(ini) : ini[i] \in IniSections
  OBVIOUS
<1>2. \A i \in 1..Len(ini) : Items(ini[i]) \in Seq(IniItems)
  BY <1>1, ItemsFacts
<1>3. Lists(ini) \in Seq(Seq(IniItems)) /\ Len(Lists(ini)) = Len(ini)
  BY <1>1, <1>2 DEF Lists
<1>4. iniparse_fprint(ini) = FlattenSeq(Lists(ini))
  BY DEF iniparse_fprint, Lists
<1>. QED  BY <1>1, <1>3, <1>4, FlatType DEF Lists

----------------------------------------------------------------------------
(* An entry in the place of another *)

(* A change of one entry changes the piece that is listed of it. *)
OneEntry(x, y, e, new) ==
  /\ x \in IniSections /\ e \in 1..Len(x.entries) /\ new \in IniEntries
  /\ y = [x EXCEPT !.entries = [@ EXCEPT ![e] = new]]

OnePiece(x, y, e, new) ==
  /\ y \in IniSections /\ y.sec = x.sec
  /\ \E u, w \in Seq(IniItems) :
       /\ Items(x) = u \o (Piece(x, x.entries[e]) \o w) /\ Items(y) = u \o (Piece(x, new) \o w)
       /\ \A q \in 1..Len(u) : \E j \in 1..(e - 1) : u[q].key = x.entries[j].key

LEMMA EntrySplit ==
  ASSUME NEW x, NEW y, NEW e, NEW new, OneEntry(x, y, e, new)
  PROVE  OnePiece(x, y, e, new)
<1>. /\ x \in IniSections /\ e \in 1..Len(x.entries) /\ new \in IniEntries
     /\ y = [x EXCEPT !.entries = [@ EXCEPT ![e] = new]]
  BY DEF OneEntry
<1>1. /\ y \in IniSections /\ y.sec = x.sec /\ Len(y.entries) = Len(x.entries) /\ y.entries[e] = new
      /\ \A j \in 1..Len(x.entries) : j # e => y.entries[j] = x.entries[j]
  BY DEF IniSections
<1>2. PICK n : n = Len(x.entries)
  OBVIOUS
<1>3. PICK s : s = Pieces(x)
  OBVIOUS
<1>4. PICK t : t = Pieces(y)
  OBVIOUS
<1>5. /\ s \in Seq(Seq(IniItems)) /\ Len(s) = n /\ Items(x) = FlattenSeq(s)
      /\ \A j \in 1..n : s[j] = Piece(x, x.entries[j]) /\ x.entries[j] \in IniEntries
  BY <1>2, <1>3, PiecesFacts
<1>6. /\ t \in Seq(Seq(IniItems)) /\ Len(t) = n /\ Items(y) = FlattenSeq(t)
      /\ \A j \in 1..n : t[j] = Piece(y, y.entries[j])
  BY <1>1, <1>2, <1>4, PiecesFacts
<1>7. \A i : Piece(y, i) = Piece(x, i)
  BY <1>1 DEF Piece, Item
<1>8. e \in 1..n
  BY <1>2
<1>s. PICK u, w \in Seq(IniItems) : Splits(u, w, s, e, IniItems)
  BY ONLY <1>5, <1>8, FlatSplits
<1>9. /\ From(u, s, 1, e - 1)
      /\ \A p \in Seq(IniItems) : FlattenSeq([s EXCEPT ![e] = p]) = u \o (p \o w)
  BY <1>s DEF Splits
<1>10. s = [s EXCEPT ![e] = Piece(x, x.entries[e])] /\ Piece(x, x.entries[e]) \in Seq(IniItems)
  BY <1>5, <1>8, PieceFacts
<1>11. t = [s EXCEPT ![e] = Piece(x, new)] /\ Piece(x, new) \in Seq(IniItems)
  <2>1. Piece(x, new) \in Seq(IniItems)
    BY PieceFacts
  <2>2. PICK r : r = [s EXCEPT ![e] = Piece(x, new)]
    OBVIOUS
  <2>3. r \in Seq(Seq(IniItems)) /\ Len(r) = n /\ \A j \in 1..n : r[j] = IF j = e THEN Piece(x, new) ELSE s[j]
    BY ONLY <1>5, <1>8, <2>1, <2>2
  <2>4. ASSUME NEW j \in 1..n PROVE r[j] = t[j]
    <3>1. t[j] = Piece(x, y.entries[j])
      BY <1>6, <1>7
    <3>2. y.entries[j] = IF j = e THEN new ELSE x.entries[j]
      BY <1>1, <1>2
    <3>3. s[j] = Piece(x, x.entries[j])
      BY <1>5
    <3>. QED  BY ONLY <2>3, <3>1, <3>2, <3>3, j \in 1..n
  <2>5. r = t
    BY ONLY <1>6, <2>3, <2>4, SameSeq
  <2>. QED  BY <2>1, <2>2, <2>5
<1>12. Items(x) = u \o (Piece(x, x.entries[e]) \o w) /\ Items(y) = u \o (Piece(x, new) \o w)
  BY ONLY <1>5, <1>6, <1>9, <1>10, <1>11
<1>13. ASSUME NEW q \in 1..Len(u) PROVE \E j \in 1..(e - 1) : u[q].key = x.entries[j].key
  <2>1. PICK j \in 1..(e - 1) : \E r \in 1..Len(s[j]) : u[q] = s[j][r]
    BY <1>9 DEF From
  <2>2. j \in 1..n
    BY <1>2, <1>8
  <2>3. PICK r \in 1..Len(s[j]) : u[q] = s[j][r]
    BY <2>1
  <2>4. s[j] = Piece(x, x.entries[j]) /\ x.entries[j] \in IniEntries
    BY <1>5, <2>2
  <2>5. s[j][r].key = x.entries[j].key
    BY <2>4, PieceFacts
  <2>. QED  BY <2>3, <2>5
<1>. QED  BY ONLY <1>1, <1>12, <1>13, u \in Seq(IniItems), w \in Seq(IniItems) DEF OnePiece

(* A change of one section changes what is listed of it. *)
OneSection(ini, new, a, y) ==
  /\ IsIni(ini) /\ a \in 1..Len(ini) /\ y \in IniSections /\ y.sec = ini[a].sec
  /\ new = [ini EXCEPT ![a] = y]

OneList(ini, new, a, y) ==
  /\ IsIni(new) /\ Len(new) = Len(ini) /\ new[a] = y
  /\ \A i \in 1..Len(ini) : i # a => new[i] = ini[i]
  /\ \E u, w \in Seq(IniItems) :
       /\ iniparse_fprint(ini) = u \o (Items(ini[a]) \o w) /\ iniparse_fprint(new) = u \o (Items(y) \o w)
       /\ \A q \in 1..Len(u) : u[q].sec # y.sec
       /\ \A q \in 1..Len(w) : w[q].sec # y.sec
       /\ a = Len(ini) => w = <<>>

LEMMA SectionSplit ==
  ASSUME NEW ini, NEW new, NEW a, NEW y, OneSection(ini, new, a, y)
  PROVE  OneList(ini, new, a, y)
<1>. /\ IsIni(ini) /\ a \in 1..Len(ini) /\ y \in IniSections /\ y.sec = ini[a].sec
     /\ new = [ini EXCEPT ![a] = y]
  BY DEF OneSection
<1>0. ini \in Seq(IniSections) /\ \A i, j \in 1..Len(ini) : ini[i].sec = ini[j].sec => i = j
  BY DEF IsIni
<1>1. /\ new \in Seq(IniSections) /\ Len(new) = Len(ini) /\ new[a] = y
      /\ \A i \in 1..Len(ini) : i # a => new[i] = ini[i]
  BY <1>0
<1>2. IsIni(new)
  <2>1. \A i \in 1..Len(ini) : new[i].sec = ini[i].sec
    BY <1>1
  <2>. QED  BY <1>0, <1>1, <2>1 DEF IsIni
<1>3. PICK n : n = Len(ini)
  OBVIOUS
<1>4. PICK s : s = Lists(ini)
  OBVIOUS
<1>5. PICK t : t = Lists(new)
  OBVIOUS
<1>6. /\ s \in Seq(Seq(IniItems)) /\ Len(s) = n /\ iniparse_fprint(ini) = FlattenSeq(s)
      /\ \A i \in 1..n : s[i] = Items(ini[i]) /\ ini[i] \in IniSections
  BY <1>0, <1>3, <1>4, ListsFacts
<1>7. /\ t \in Seq(Seq(IniItems)) /\ Len(t) = n /\ iniparse_fprint(new) = FlattenSeq(t)
      /\ \A i \in 1..n : t[i] = Items(new[i])
  BY <1>1, <1>3, <1>5, ListsFacts
<1>8. a \in 1..n
  BY <1>3
<1>s. PICK u, w \in Seq(IniItems) : Splits(u, w, s, a, IniItems)
  BY ONLY <1>6, <1>8, FlatSplits
<1>9. /\ From(u, s, 1, a - 1) /\ From(w, s, a + 1, Len(s))
      /\ \A p \in Seq(IniItems) : FlattenSeq([s EXCEPT ![a] = p]) = u \o (p \o w)
  BY <1>s DEF Splits
<1>10. s = [s EXCEPT ![a] = Items(ini[a])] /\ Items(ini[a]) \in Seq(IniItems)
  BY <1>6, <1>8, ItemsFacts
<1>11. t = [s EXCEPT ![a] = Items(y)] /\ Items(y) \in Seq(IniItems)
  <2>1. Items(y) \in Seq(IniItems)
    BY ItemsFacts
  <2>2. PICK r : r = [s EXCEPT ![a] = Items(y)]
    OBVIOUS
  <2>3. r \in Seq(Seq(IniItems)) /\ Len(r) = n /\ \A j \in 1..n : r[j] = IF j = a THEN Items(y) ELSE s[j]
    BY ONLY <1>6, <1>8, <2>1, <2>2
  <2>4. ASSUME NEW j \in 1..n PROVE r[j] = t[j]
    <3>1. t[j] = Items(new[j])
      BY <1>7
    <3>2. new[j] = IF j = a THEN y ELSE ini[j]
      BY <1>1, <1>3
    <3>3. s[j] = Items(ini[j])
      BY <1>6
    <3>. QED  BY ONLY <2>3, <3>1, <3>2, <3>3, j \in 1..n
  <2>5. r = t
    BY ONLY <1>7, <2>3, <2>4, SameSeq
  <2>. QED  BY <2>1, <2>2, <2>5
<1>12. iniparse_fprint(ini) = u \o (Items(ini[a]) \o w) /\ iniparse_fprint(new) = u \o (Items(y) \o w)
  BY ONLY <1>6, <1>7, <1>9, <1>10, <1>11
<1>13. ASSUME NEW q \in 1..Len(u) PROVE u[q].sec # y.sec
  <2>1. PICK j \in 1..(a - 1) : \E r \in 1..Len(s[j]) : u[q] = s[j][r]
    BY <1>9 DEF From
  <2>2. j \in 1..n /\ j # a
    BY <1>3, <1>8
  <2>3. u[q].sec = ini[j].sec
    BY <1>6, <2>1, <2>2, ItemsFacts, SMTT(20)
  <2>. QED  BY <1>0, <1>3, <2>2, <2>3
<1>14. ASSUME NEW q \in 1..Len(w) PROVE w[q].sec # y.sec
  <2>1. PICK j \in (a + 1)..n : \E r \in 1..Len(s[j]) : w[q] = s[j][r]
    BY <1>6, <1>9 DEF From
  <2>2. j \in 1..n /\ j # a
    BY <1>3, <1>8
  <2>3. w[q].sec = ini[j].sec
    <3>1. PICK r \in 1..Len(s[j]) : w[q] = s[j][r]
      BY <2>1
    <3>2. s[j] = Items(ini[j]) /\ ini[j] \in IniSections
      BY <1>6, <2>2
    <3>3. s[j][r].sec = ini[j].sec
      BY <3>2, ItemsFacts
    <3>. QED  BY <3>1, <3>3
  <2>. QED  BY <1>0, <1>3, <2>2, <2>3
<1>15. ASSUME a = n PROVE w = <<>>
  <2>1. ~ \E q : q \in 1..Len(w)
    <3>1. SUFFICES ASSUME NEW q \in 1..Len(w) PROVE FALSE
      OBVIOUS
    <3>2. PICK j \in (a + 1)..n : TRUE
      BY <1>6, <1>9 DEF From
    <3>. QED  BY <1>8, <1>15, <3>2
  <2>2. Len(w) = 0
    <3>1. Len(w) \in Nat
      OBVIOUS
    <3>2. Len(w) # 0 => 1 \in 1..Len(w)
      BY ONLY <3>1
    <3>. QED  BY ONLY <2>1, <3>2
  <2>. QED  BY <2>2
<1>. QED  BY ONLY <1>1, <1>2, <1>3, <1>12, <1>13, <1>14, <1>15, u \in Seq(IniItems), w \in Seq(IniItems)
        DEF OneList

Regroups(a, b, c, d, e) == a \o ((b \o (c \o d)) \o e) = (a \o b) \o (c \o (d \o e))

LEMMA ConcatFive ==
  ASSUME NEW S, NEW a \in Seq(S), NEW b \in Seq(S), NEW c \in Seq(S), NEW d \in Seq(S), NEW e \in Seq(S)
  PROVE  Regroups(a, b, c, d, e)
<1>1. PICK cd : cd = c \o d
  OBVIOUS
<1>2. PICK de : de = d \o e
  OBVIOUS
<1>3. PICK cde : cde = c \o de
  OBVIOUS
<1>4. cd \in Seq(S) /\ de \in Seq(S) /\ cde \in Seq(S)
  BY ONLY <1>1, <1>2, <1>3, c \in Seq(S), d \in Seq(S), e \in Seq(S), ConcatFacts
<1>5. Associates(b, cd, e) /\ Associates(c, d, e) /\ Associates(a, b, cde)
  BY ONLY <1>4, a \in Seq(S), b \in Seq(S), c \in Seq(S), d \in Seq(S), e \in Seq(S), ConcatThree
<1>. QED  BY ONLY <1>1, <1>2, <1>3, <1>5 DEF Associates, Regroups

(* A list has an entry of a name; the first one has a value. *)
Named(list, s, k) == \E i \in 1..Len(list) : list[i].sec = s /\ list[i].key = k

LEMMA NoneNamed ==
  ASSUME NEW a \in Seq(IniItems), NEW b \in Seq(IniItems), NEW s, NEW k
  PROVE  Named(a \o b, s, k) => Named(a, s, k) \/ Named(b, s, k)
<1>1. PICK m, n : m = Len(a) /\ n = Len(b)
  OBVIOUS
<1>2. m \in Nat /\ n \in Nat
  BY <1>1
<1>3. PICK c : c = a \o b
  OBVIOUS
<1>4. Len(c) = m + n /\ \A i \in 1..(m + n) : c[i] = IF i <= m THEN a[i] ELSE b[i - m]
  BY <1>1, <1>3, ConcatFacts
<1>5. ASSUME NEW i \in 1..(m + n), c[i].sec = s, c[i].key = k
      PROVE  Named(a, s, k) \/ Named(b, s, k)
  <2>1. CASE i <= m
    <3>1. i \in 1..m /\ a[i] = c[i]
      BY ONLY <1>2, <1>4, <2>1, i \in 1..(m + n)
    <3>. QED  BY ONLY <1>1, <1>5, <3>1 DEF Named
  <2>2. CASE ~(i <= m)
    <3>1. i - m \in 1..n /\ b[i - m] = c[i]
      BY ONLY <1>2, <1>4, <2>2, i \in 1..(m + n)
    <3>. QED  BY ONLY <1>1, <1>5, <3>1 DEF Named
  <2>. QED  BY <2>1, <2>2
<1>. QED  BY ONLY <1>3, <1>4, <1>5 DEF Named

(* Of two lists that differ in one place, where neither has the name before. *)
Edited(a, b, s, k, x, y) ==
  \E u, w \in Seq(IniItems) : a = u \o (x \o w) /\ b = u \o (y \o w) /\ ~Named(u, s, k)

LEMMA EntryEdited ==
  ASSUME NEW ini, IsIni(ini), NEW s, NEW k, EntryAt(ini, s, k) # 0, NEW entry \in IniEntries,
         NEW a, a = SecAt(ini, s), NEW e, e = EntryAt(ini, s, k),
         NEW new, new = [ini EXCEPT ![a].entries[e] = entry]
  PROVE  /\ IsIni(new) /\ a \in 1..Len(ini) /\ e \in 1..Len(ini[a].entries)
         /\ ini[a] \in IniSections /\ ini[a].sec = s
         /\ ini[a].entries[e] \in IniEntries /\ ini[a].entries[e].key = k
         /\ Edited(iniparse_fprint(ini), iniparse_fprint(new), s, k,
                   Piece(ini[a], ini[a].entries[e]), Piece(ini[a], entry))
<1>1. /\ a # 0 /\ e # 0 /\ e \in 1..Len(ini[a].entries) /\ ini[a].entries[e].key = k
      /\ \A j \in 1..(e - 1) : ini[a].entries[j].key # k
  BY EntryAtFacts
<1>2. a \in 1..Len(ini) /\ ini[a].sec = s
  BY <1>1, SecAtFacts
<1>3. PICK x : x = ini[a]
  OBVIOUS
<1>4. x \in IniSections
  BY <1>2, <1>3 DEF IsIni
<1>5. x.entries \in Seq(IniEntries) /\ x.entries[e] \in IniEntries
  BY <1>1, <1>3, <1>4 DEF IniSections
<1>6. PICK y : y = [x EXCEPT !.entries = [@ EXCEPT ![e] = entry]]
  OBVIOUS
<1>7. new = [ini EXCEPT ![a] = y]
  BY <1>3, <1>6
<1>8. /\ y \in IniSections /\ y.sec = x.sec
      /\ \E u, w \in Seq(IniItems) :
           /\ Items(x) = u \o (Piece(x, x.entries[e]) \o w) /\ Items(y) = u \o (Piece(x, entry) \o w)
           /\ \A q \in 1..Len(u) : \E j \in 1..(e - 1) : u[q].key = x.entries[j].key
  <2>1. e \in 1..Len(x.entries)
    BY <1>1, <1>3
  <2>2. OneEntry(x, y, e, entry)
    BY ONLY <1>4, <1>6, <2>1, entry \in IniEntries DEF OneEntry
  <2>3. OnePiece(x, y, e, entry)
    BY ONLY <2>2, EntrySplit
  <2>. QED  BY ONLY <2>3 DEF OnePiece
<1>9. PICK u1, w1 \in Seq(IniItems) :
           /\ Items(x) = u1 \o (Piece(x, x.entries[e]) \o w1) /\ Items(y) = u1 \o (Piece(x, entry) \o w1)
           /\ \A q \in 1..Len(u1) : \E j \in 1..(e - 1) : u1[q].key = x.entries[j].key
  BY <1>8
<1>10. /\ IsIni(new)
       /\ \E u, w \in Seq(IniItems) :
            /\ iniparse_fprint(ini) = u \o (Items(ini[a]) \o w) /\ iniparse_fprint(new) = u \o (Items(y) \o w)
            /\ \A q \in 1..Len(u) : u[q].sec # y.sec
            /\ \A q \in 1..Len(w) : w[q].sec # y.sec
            /\ a = Len(ini) => w = <<>>
  <2>1. y.sec = ini[a].sec
    BY <1>3, <1>8
  <2>2. OneSection(ini, new, a, y)
    BY ONLY IsIni(ini), <1>2, <1>7, <1>8, <2>1 DEF OneSection
  <2>3. OneList(ini, new, a, y)
    BY ONLY <2>2, SectionSplit
  <2>. QED  BY ONLY <2>3 DEF OneList
<1>11. PICK u2, w2 \in Seq(IniItems) :
            /\ iniparse_fprint(ini) = u2 \o (Items(x) \o w2) /\ iniparse_fprint(new) = u2 \o (Items(y) \o w2)
            /\ \A q \in 1..Len(u2) : u2[q].sec # s
  BY <1>2, <1>3, <1>8, <1>10, ZenonT(40)
<1>12. Piece(x, x.entries[e]) \in Seq(IniItems) /\ Piece(x, entry) \in Seq(IniItems)
  BY <1>4, <1>5, PieceFacts
<1>13. /\ iniparse_fprint(ini) = (u2 \o u1) \o (Piece(x, x.entries[e]) \o (w1 \o w2))
       /\ iniparse_fprint(new) = (u2 \o u1) \o (Piece(x, entry) \o (w1 \o w2))
  <2>1. /\ Regroups(u2, u1, Piece(x, x.entries[e]), w1, w2)
        /\ Regroups(u2, u1, Piece(x, entry), w1, w2)
    BY ONLY <1>12, u1 \in Seq(IniItems), w1 \in Seq(IniItems), u2 \in Seq(IniItems), w2 \in Seq(IniItems), ConcatFive
  <2>. QED  BY ONLY <1>9, <1>11, <2>1 DEF Regroups
<1>14. ~Named(u2 \o u1, s, k)
  <2>1. ~Named(u2, s, k)
    BY <1>11 DEF Named
  <2>2. ~Named(u1, s, k)
    <3>1. ASSUME NEW q \in 1..Len(u1) PROVE u1[q].key # k
      <4>1. PICK j \in 1..(e - 1) : u1[q].key = x.entries[j].key
        BY ONLY <1>9, q \in 1..Len(u1)
      <4>2. x.entries[j].key # k
        BY ONLY <1>1, <1>3, j \in 1..(e - 1)
      <4>. QED  BY ONLY <4>1, <4>2
    <3>. QED  BY ONLY <3>1 DEF Named
  <2>. QED  BY <2>1, <2>2, NoneNamed
<1>15. u2 \o u1 \in Seq(IniItems) /\ w1 \o w2 \in Seq(IniItems)
  BY ConcatFacts
<1>16. Edited(iniparse_fprint(ini), iniparse_fprint(new), s, k, Piece(x, x.entries[e]), Piece(x, entry))
  BY ONLY <1>13, <1>14, <1>15 DEF Edited
<1>. QED  BY ONLY <1>1, <1>2, <1>3, <1>4, <1>5, <1>10, <1>16

----------------------------------------------------------------------------
(* An entry more, behind the others (put) *)

(* An entry more in a section is listed behind the others. *)
OneMore(x, y, entry) ==
  /\ x \in IniSections /\ entry \in IniEntries /\ entry.key # Deleted
  /\ y = [x EXCEPT !.entries = Append(@, entry)]

LEMMA ItemsGrow ==
  ASSUME NEW x, NEW y, NEW entry, OneMore(x, y, entry)
  PROVE  y \in IniSections /\ y.sec = x.sec /\ Items(y) = Items(x) \o <<Item(x, entry)>>
<1>. x \in IniSections /\ entry \in IniEntries /\ entry.key # Deleted /\ y = [x EXCEPT !.entries = Append(@, entry)]
  BY DEF OneMore
<1>1. PICK n : n = Len(x.entries)
  OBVIOUS
<1>2. /\ y \in IniSections /\ y.sec = x.sec /\ n \in Nat /\ Len(y.entries) = n + 1 /\ y.entries[n + 1] = entry
      /\ \A j \in 1..n : y.entries[j] = x.entries[j]
  <2>1. PICK es \in Seq(IniEntries) : es = x.entries
    BY DEF IniSections
  <2>2. PICK fs : fs = Append(es, entry)
    OBVIOUS
  <2>3. /\ fs \in Seq(IniEntries) /\ n = Len(es) /\ n \in Nat /\ Len(fs) = n + 1 /\ fs[n + 1] = entry
        /\ \A j \in 1..n : fs[j] = es[j]
    BY <1>1, <2>1, <2>2
  <2>4. y \in IniSections /\ y.sec = x.sec /\ y.entries = fs
    BY <2>1, <2>2, <2>3 DEF IniSections
  <2>. QED  BY <2>1, <2>3, <2>4
<1>3. PICK s : s = Pieces(x)
  OBVIOUS
<1>4. PICK t : t = Pieces(y)
  OBVIOUS
<1>5. PICK e : e = <<Item(x, entry)>>
  OBVIOUS
<1>6. /\ s \in Seq(Seq(IniItems)) /\ Len(s) = n /\ Items(x) = FlattenSeq(s)
      /\ \A j \in 1..n : s[j] = Piece(x, x.entries[j])
  BY <1>1, <1>3, PiecesFacts
<1>7. /\ Len(t) = n + 1 /\ Items(y) = FlattenSeq(t)
      /\ \A j \in 1..(n + 1) : t[j] = Piece(y, y.entries[j])
  BY <1>2, <1>4, PiecesFacts
<1>8. \A i : Piece(y, i) = Piece(x, i)
  BY <1>2 DEF Piece, Item
<1>9. e = Piece(x, entry) /\ e \in Seq(IniItems)
  BY <1>5, PieceFacts DEF Piece
<1>10. AddsLast(t, s, e)
  <2>1. \A i \in 1..n : i \in 1..(n + 1)
    BY <1>2
  <2>2. n + 1 \in 1..(n + 1)
    BY <1>2
  <2>3. \A i \in 1..n : s[i] = t[i]
    <3>1. ASSUME NEW i \in 1..n PROVE s[i] = t[i]
      <4>1. t[i] = Piece(x, y.entries[i])
        BY <1>7, <1>8, <2>1
      <4>. QED  BY <1>2, <1>6, <4>1
    <3>. QED  BY <3>1
  <2>4. t[n + 1] = e
    BY <1>2, <1>7, <1>8, <1>9, <2>2
  <2>5. n = 0 => s = <<>>
    BY <1>6
  <2>. QED  BY <1>2, <1>6, <1>7, <2>3, <2>4, <2>5 DEF AddsLast
<1>11. FlattenSeq(t) = FlattenSeq(s) \o e
  BY <1>9, <1>10, FlatLast
<1>. QED  BY <1>2, <1>5, <1>6, <1>7, <1>11

LEMMA NoItems ==
  ASSUME NEW s \in SecNames
  PROVE  [sec |-> s, entries |-> <<>>] \in IniSections /\ Items([sec |-> s, entries |-> <<>>]) = <<>>
<1>1. PICK x : x = [sec |-> s, entries |-> <<>>]
  OBVIOUS
<1>2. x \in IniSections /\ Len(x.entries) = 0
  BY <1>1, EmptyFacts DEF IniSections
<1>3. Pieces(x) \in Seq(Seq(IniItems)) /\ Len(Pieces(x)) = 0 /\ Items(x) = FlattenSeq(Pieces(x))
  BY <1>2, PiecesFacts
<1>4. Pieces(x) = <<>>
  BY <1>3
<1>. QED  BY <1>1, <1>2, <1>3, <1>4, FlatEmpty

(* What is put is listed at the end of its section, with the value as saved. *)
SavedVal(v) == IF v = NoValue THEN NoText ELSE v
NewItem(s, k, v) == [sec |-> s, key |-> k, val |-> SavedVal(v)]

IsPut(ini, new, s, k, v) ==
  /\ IsIni(ini) /\ s \in SecNames /\ k \in KeyNames /\ v \in Texts \cup {NoValue}
  /\ new = put(ini, s, k, v)

PutFrom(ini, new, s, k, v, u, w) ==
  /\ iniparse_fprint(ini) = u \o w /\ iniparse_fprint(new) = u \o (<<NewItem(s, k, v)>> \o w)
  /\ SecAt(ini, s) \in {0, Len(ini)} => w = <<>>
  /\ EntryAt(ini, s, k) = 0 => ~Named(u, s, k) /\ ~Named(w, s, k)

PutLists(ini, new, s, k, v) ==
  /\ IsIni(new)
  /\ \E u, w \in Seq(IniItems) : PutFrom(ini, new, s, k, v, u, w)
  /\ SecAt(ini, s) \in {0, Len(ini)} => SecAt(new, s) = Len(new)
  /\ \A i \in 1..Len(new) : new[i].sec = s \/ \E j \in 1..Len(ini) : new[i].sec = ini[j].sec

LEMMA PutElsewhere ==
  ASSUME NEW ini, NEW new, NEW s, NEW k, NEW v, IsPut(ini, new, s, k, v), SecAt(ini, s) = 0
  PROVE  PutLists(ini, new, s, k, v)
<1>. IsIni(ini) /\ s \in SecNames /\ k \in KeyNames /\ v \in Texts \cup {NoValue} /\ new = put(ini, s, k, v)
  BY DEF IsPut
<1>1. PICK entry : entry = [key |-> k, val |-> v]
  OBVIOUS
<1>2. PICK x : x = [sec |-> s, entries |-> <<>>]
  OBVIOUS
<1>3. PICK y : y = [sec |-> s, entries |-> <<entry>>]
  OBVIOUS
<1>4. new = Append(ini, y)
  BY <1>1, <1>3 DEF put, SecAt
<1>5. entry \in IniEntries /\ entry.key # Deleted
  BY <1>1, MarkersAreNoNames DEF IniEntries
<1>6. OneMore(x, y, entry)
  <2>1. x \in IniSections
    BY <1>2, NoItems
  <2>2. Append(<<>>, entry) = <<entry>>
    OBVIOUS
  <2>. QED  BY <1>2, <1>3, <1>5, <2>1, <2>2 DEF OneMore
<1>7. y \in IniSections /\ Items(y) = Items(x) \o <<Item(x, entry)>>
  BY <1>6, ItemsGrow
<1>8. Item(x, entry) = NewItem(s, k, v) /\ NewItem(s, k, v) \in IniItems
  BY <1>1, <1>2, MarkersAreNoNames DEF Item, NewItem, SavedVal, IniItems
<1>9. PICK e : e = <<NewItem(s, k, v)>>
  OBVIOUS
<1>10. e \in Seq(IniItems)
  BY <1>8, <1>9
<1>11. Items(y) = e
  BY ONLY <1>2, <1>7, <1>8, <1>9, <1>10, NoItems, EmptyConcat, s \in SecNames
<1>12. PICK n : n = Len(ini)
  OBVIOUS
<1>13. /\ ini \in Seq(IniSections) /\ n \in Nat /\ new \in Seq(IniSections) /\ Len(new) = n + 1
       /\ new[n + 1] = y /\ y.sec = s /\ \A i \in 1..n : new[i] = ini[i] /\ ini[i].sec # s
  <2>1. ini \in Seq(IniSections)
    BY DEF IsIni
  <2>2. /\ n \in Nat /\ new \in Seq(IniSections) /\ Len(new) = n + 1
        /\ new[n + 1] = y /\ \A i \in 1..n : new[i] = ini[i]
    BY <1>4, <1>7, <1>12, <2>1
  <2>3. \A i \in 1..n : ini[i].sec # s
    BY <1>12, SecAtFacts
  <2>. QED  BY <1>3, <2>1, <2>2, <2>3
<1>14. IsIni(new)
  <2>1. ASSUME NEW i \in 1..(n + 1), NEW j \in 1..(n + 1), new[i].sec = new[j].sec PROVE i = j
    <3>1. i \in 1..n \/ i = n + 1
      BY <1>13
    <3>2. j \in 1..n \/ j = n + 1
      BY <1>13
    <3>3. CASE i \in 1..n /\ j \in 1..n
      BY <1>12, <1>13, <2>1, <3>3 DEF IsIni
    <3>. QED  BY <1>13, <2>1, <3>1, <3>2, <3>3
  <2>. QED  BY <1>13, <2>1 DEF IsIni
<1>15. AddsLast(Lists(new), Lists(ini), e)
  <2>1. /\ Len(Lists(ini)) = n /\ Lists(ini) \in Seq(Seq(IniItems))
        /\ \A i \in 1..n : Lists(ini)[i] = Items(ini[i])
    BY <1>12, <1>13, ListsFacts
  <2>2. Len(Lists(new)) = n + 1 /\ \A i \in 1..(n + 1) : Lists(new)[i] = Items(new[i])
    BY <1>13, ListsFacts
  <2>3. (\A i \in 1..n : i \in 1..(n + 1)) /\ n + 1 \in 1..(n + 1)
    BY <1>13
  <2>4. n = 0 => Lists(ini) = <<>>
    BY <2>1
  <2>. QED  BY ONLY <1>11, <1>13, <2>1, <2>2, <2>3, <2>4 DEF AddsLast
<1>16. iniparse_fprint(new) = iniparse_fprint(ini) \o e
  <2>1. iniparse_fprint(new) = FlattenSeq(Lists(new)) /\ iniparse_fprint(ini) = FlattenSeq(Lists(ini))
    BY <1>13, ListsFacts
  <2>2. FlattenSeq(Lists(new)) = FlattenSeq(Lists(ini)) \o e
    BY ONLY <1>10, <1>15, FlatLast
  <2>. QED  BY ONLY <2>1, <2>2
<1>17. PICK u : u = iniparse_fprint(ini)
  OBVIOUS
<1>18. u \in Seq(IniItems)
  BY <1>13, <1>17, ListsFacts
<1>19. ~Named(u, s, k)
  <2>1. From(u, Lists(ini), 1, n)
    BY <1>12, <1>13, <1>17, ListsFacts, FlatType
  <2>2. ASSUME NEW q \in 1..Len(u) PROVE u[q].sec # s
    <3>1. PICK i \in 1..n : \E r \in 1..Len(Lists(ini)[i]) : u[q] = Lists(ini)[i][r]
      BY <2>1 DEF From
    <3>2. PICK r \in 1..Len(Lists(ini)[i]) : u[q] = Lists(ini)[i][r]
      BY <3>1
    <3>3. Lists(ini)[i] = Items(ini[i]) /\ ini[i] \in IniSections
      BY <1>12, <1>13, ListsFacts
    <3>4. Lists(ini)[i][r].sec = ini[i].sec
      BY <3>3, ItemsFacts
    <3>. QED  BY <1>13, <3>2, <3>4
  <2>. QED  BY <2>2 DEF Named
<1>20. PutFrom(ini, new, s, k, v, u, <<>>)
  <2>1. u \o <<>> = u /\ e \o <<>> = e
    BY <1>10, <1>18, EmptyConcat
  <2>2. ~Named(<<>>, s, k)
    BY EmptyFacts DEF Named
  <2>. QED  BY ONLY <1>9, <1>16, <1>17, <1>19, <2>1, <2>2 DEF PutFrom
<1>21. SecAt(new, s) = Len(new)
  <2>1. n + 1 \in 1..Len(new) /\ new[n + 1].sec = s
    BY <1>13
  <2>. QED  BY <1>13, <1>14, <2>1, SecAtFacts
<1>22. ASSUME NEW i \in 1..Len(new) PROVE new[i].sec = s \/ \E j \in 1..Len(ini) : new[i].sec = ini[j].sec
  <2>1. i \in 1..n \/ i = n + 1
    BY <1>13
  <2>. QED  BY <1>12, <1>13, <2>1
<1>. QED  BY ONLY <1>14, <1>18, <1>20, <1>21, <1>22, EmptyFacts DEF PutLists

(* In a section that there is *)
LEMMA PutWithin ==
  ASSUME NEW ini, NEW new, NEW s, NEW k, NEW v, IsPut(ini, new, s, k, v), SecAt(ini, s) # 0
  PROVE  PutLists(ini, new, s, k, v)
<1>. IsIni(ini) /\ s \in SecNames /\ k \in KeyNames /\ v \in Texts \cup {NoValue} /\ new = put(ini, s, k, v)
  BY DEF IsPut
<1>1. PICK entry : entry = [key |-> k, val |-> v]
  OBVIOUS
<1>2. PICK a : a = SecAt(ini, s)
  OBVIOUS
<1>3. a \in 1..Len(ini) /\ ini[a].sec = s
  BY <1>2, SecAtFacts
<1>4. PICK x : x = ini[a]
  OBVIOUS
<1>5. PICK y : y = [x EXCEPT !.entries = Append(@, entry)]
  OBVIOUS
<1>6. new = [ini EXCEPT ![a] = y]
  BY <1>1, <1>2, <1>4, <1>5 DEF put, SecAt
<1>7. entry \in IniEntries /\ entry.key # Deleted
  BY <1>1, MarkersAreNoNames DEF IniEntries
<1>8. x \in IniSections
  BY <1>3, <1>4 DEF IsIni
<1>9. OneMore(x, y, entry)
  BY <1>5, <1>7, <1>8 DEF OneMore
<1>10. y \in IniSections /\ y.sec = x.sec /\ Items(y) = Items(x) \o <<Item(x, entry)>>
  BY <1>9, ItemsGrow
<1>11. Item(x, entry) = NewItem(s, k, v) /\ NewItem(s, k, v) \in IniItems
  BY <1>1, <1>3, <1>4, MarkersAreNoNames DEF Item, NewItem, SavedVal, IniItems
<1>12. PICK e : e = <<NewItem(s, k, v)>>
  OBVIOUS
<1>13. e \in Seq(IniItems) /\ Items(x) \in Seq(IniItems)
  BY <1>8, <1>11, <1>12, ItemsFacts
<1>14. OneSection(ini, new, a, y)
  BY <1>3, <1>4, <1>6, <1>10 DEF OneSection
<1>15. OneList(ini, new, a, y)
  BY <1>14, SectionSplit
<1>16. IsIni(new) /\ Len(new) = Len(ini) /\ new[a] = y /\ \A i \in 1..Len(ini) : i # a => new[i] = ini[i]
  BY <1>15 DEF OneList
<1>17. PICK u, w \in Seq(IniItems) :
         /\ iniparse_fprint(ini) = u \o (Items(x) \o w) /\ iniparse_fprint(new) = u \o (Items(y) \o w)
         /\ \A q \in 1..Len(u) : u[q].sec # s
         /\ \A q \in 1..Len(w) : w[q].sec # s
         /\ a = Len(ini) => w = <<>>
  BY <1>3, <1>4, <1>10, <1>15 DEF OneList
<1>18. PICK ux : ux = u \o Items(x)
  OBVIOUS
<1>19. ux \in Seq(IniItems)
  BY ONLY <1>13, <1>18, u \in Seq(IniItems), ConcatFacts
<1>20. iniparse_fprint(ini) = ux \o w /\ iniparse_fprint(new) = ux \o (e \o w)
  <2>1. Associates(u, Items(x), w) /\ Regroups(u, Items(x), e, <<>>, w)
    BY ONLY <1>13, u \in Seq(IniItems), w \in Seq(IniItems), EmptyFacts, ConcatThree, ConcatFive
  <2>2. e \o <<>> = e /\ <<>> \o w = w
    BY ONLY <1>13, w \in Seq(IniItems), EmptyConcat
  <2>. QED  BY ONLY <1>10, <1>11, <1>12, <1>17, <1>18, <2>1, <2>2 DEF Associates, Regroups
<1>21. ASSUME EntryAt(ini, s, k) = 0 PROVE ~Named(ux, s, k) /\ ~Named(w, s, k)
  <2>1. \A j \in 1..Len(x.entries) : x.entries[j].key # k
    <3>1. a # 0
      BY <1>3
    <3>. QED  BY ONLY <1>2, <1>4, <1>21, <3>1, IsIni(ini), EntryAtFacts
  <2>2. ~Named(Items(x), s, k)
    <3>1. SUFFICES ASSUME NEW q \in 1..Len(Items(x)) PROVE Items(x)[q].key # k
      BY DEF Named
    <3>2. PICK j \in 1..Len(x.entries) : Items(x)[q].key = x.entries[j].key
      BY <1>8, ItemsFacts
    <3>. QED  BY <2>1, <3>2
  <2>3. ~Named(u, s, k) /\ ~Named(w, s, k)
    BY <1>17 DEF Named
  <2>. QED  BY <1>13, <1>18, <2>2, <2>3, NoneNamed
<1>22. PutFrom(ini, new, s, k, v, ux, w)
  <2>1. SecAt(ini, s) \in {0, Len(ini)} => w = <<>>
    BY <1>2, <1>3, <1>17
  <2>. QED  BY ONLY <1>12, <1>20, <1>21, <2>1 DEF PutFrom
<1>23. \A i \in 1..Len(new) : new[i].sec = ini[i].sec /\ i \in 1..Len(ini)
  BY <1>3, <1>4, <1>10, <1>16
<1>24. SecAt(new, s) = a
  <2>1. a \in 1..Len(new) /\ new[a].sec = s
    BY <1>3, <1>4, <1>10, <1>16
  <2>2. PICK b : b = SecAt(new, s)
    OBVIOUS
  <2>3. b # 0 => a = b
    BY <1>16, <2>1, <2>2, SecAtFacts
  <2>4. b # 0
    BY <1>16, <2>1, <2>2, SecAtFacts
  <2>. QED  BY <2>2, <2>3, <2>4
<1>25. SecAt(ini, s) \in {0, Len(ini)} => SecAt(new, s) = Len(new)
  BY <1>2, <1>3, <1>16, <1>24
<1>. QED  BY ONLY <1>16, <1>19, <1>22, <1>23, <1>25, w \in Seq(IniItems) DEF PutLists

(* An entry that is put is listed behind the others of its section. *)
LEMMA PutIsListed ==
  ASSUME NEW ini, NEW new, NEW s, NEW k, NEW v, IsPut(ini, new, s, k, v)
  PROVE  PutLists(ini, new, s, k, v)
BY PutElsewhere, PutWithin

(* Whatever the values are. *)
Holds(ini, V) ==
  \A i \in 1..Len(ini) : \A j \in 1..Len(ini[i].entries) :
    ini[i].entries[j].val \in V /\ ini[i].entries[j].key # Deleted

(* It has the values it had, and the new one. *)
LEMMA PutKeeps ==
  ASSUME NEW ini, NEW new, NEW s, NEW k, NEW v, IsPut(ini, new, s, k, v), NEW V, Holds(ini, V), v \in V
  PROVE  Holds(new, V)
<1>. IsIni(ini) /\ s \in SecNames /\ k \in KeyNames /\ v \in Texts \cup {NoValue} /\ new = put(ini, s, k, v)
  BY DEF IsPut
<1>1. PICK entry : entry = [key |-> k, val |-> v]
  OBVIOUS
<1>2. entry.val \in V /\ entry.key # Deleted
  BY <1>1, MarkersAreNoNames
<1>3. PICK a : a = SecAt(ini, s)
  OBVIOUS
<1>4. ini \in Seq(IniSections)
  BY DEF IsIni
<1>5. CASE a = 0
  <2>1. PICK y : y = [sec |-> s, entries |-> <<entry>>]
    OBVIOUS
  <2>2. new = Append(ini, y)
    BY <1>1, <1>3, <1>5, <2>1 DEF put, SecAt
  <2>3. \A j \in 1..Len(y.entries) : y.entries[j] = entry
    BY <2>1
  <2>4. ASSUME NEW i \in 1..Len(new) PROVE new[i] = y \/ (i \in 1..Len(ini) /\ new[i] = ini[i])
    BY <1>4, <2>2
  <2>. QED  BY ONLY <1>2, <2>3, <2>4, Holds(ini, V) DEF Holds
<1>6. CASE a # 0
  <2>1. a \in 1..Len(ini)
    BY <1>3, <1>6, SecAtFacts
  <2>2. PICK x : x = ini[a]
    OBVIOUS
  <2>3. PICK y : y = [x EXCEPT !.entries = Append(@, entry)]
    OBVIOUS
  <2>4. new = [ini EXCEPT ![a] = y]
    BY <1>1, <1>3, <1>6, <2>2, <2>3 DEF put, SecAt
  <2>5. x.entries \in Seq(IniEntries) /\ y.entries = Append(x.entries, entry)
    <3>1. x \in IniSections
      BY <1>4, <2>1, <2>2
    <3>. QED  BY <2>3, <3>1 DEF IniSections
  <2>6. ASSUME NEW j \in 1..Len(y.entries)
        PROVE  y.entries[j] = entry \/ (j \in 1..Len(x.entries) /\ y.entries[j] = x.entries[j])
    <3>1. PICK es \in Seq(IniEntries) : es = x.entries
      BY <2>5
    <3>. QED  BY <2>5, <3>1
  <2>7. ASSUME NEW i \in 1..Len(new) PROVE (i = a /\ new[i] = y) \/ (i \in 1..Len(ini) /\ new[i] = ini[i])
    BY <1>4, <2>1, <2>4
  <2>8. ASSUME NEW i \in 1..Len(new), NEW j \in 1..Len(new[i].entries)
        PROVE  new[i].entries[j].val \in V /\ new[i].entries[j].key # Deleted
    <3>1. CASE i = a /\ new[i] = y
      <4>1. j \in 1..Len(y.entries) /\ new[i].entries[j] = y.entries[j]
        BY <3>1
      <4>2. y.entries[j] = entry \/ (j \in 1..Len(x.entries) /\ y.entries[j] = x.entries[j])
        BY <2>6, <4>1
      <4>. QED  BY ONLY <1>2, <2>1, <2>2, <4>1, <4>2, Holds(ini, V) DEF Holds
    <3>2. CASE i \in 1..Len(ini) /\ new[i] = ini[i]
      BY <3>2 DEF Holds
    <3>. QED  BY <2>7, <3>1, <3>2
  <2>. QED  BY <2>8 DEF Holds
<1>. QED  BY <1>5, <1>6

----------------------------------------------------------------------------
(* What is written reads back as it was *)

TrimAll(list) == [i \in DOMAIN list |-> [list[i] EXCEPT !.val = Trimmed(@)]]

(* A list without the spaces around its values *)
LEMMA TrimAllFacts ==
  ASSUME NEW list \in Seq(IniItems)
  PROVE  /\ TrimAll(list) \in Seq(IniItems) /\ Len(TrimAll(list)) = Len(list)
         /\ \A i \in 1..Len(list) : /\ TrimAll(list)[i].sec = list[i].sec /\ TrimAll(list)[i].key = list[i].key
                                    /\ TrimAll(list)[i].val = Trimmed(list[i].val)
                                    /\ TrimAll(list)[i] = [list[i] EXCEPT !.val = Trimmed(@)]
<1>1. DOMAIN list = 1..Len(list) /\ Len(list) \in Nat
  OBVIOUS
<1>2. ASSUME NEW i \in 1..Len(list)
      PROVE  /\ [list[i] EXCEPT !.val = Trimmed(@)] \in IniItems
             /\ [list[i] EXCEPT !.val = Trimmed(@)].sec = list[i].sec
             /\ [list[i] EXCEPT !.val = Trimmed(@)].key = list[i].key
             /\ [list[i] EXCEPT !.val = Trimmed(@)].val = Trimmed(list[i].val)
  <2>1. list[i] \in IniItems
    OBVIOUS
  <2>2. list[i].val \in Texts
    BY <2>1 DEF IniItems
  <2>3. Trimmed(list[i].val) \in Texts
    BY <2>2, TrimmedOnceIsTrimmed
  <2>. QED  BY <2>1, <2>3 DEF IniItems
<1>. DEFINE r == [i \in 1..Len(list) |-> [list[i] EXCEPT !.val = Trimmed(@)]]
<1>3. TrimAll(list) = r
  BY <1>1 DEF TrimAll
<1>4. r \in Seq(IniItems) /\ Len(r) = Len(list)
  BY <1>1, <1>2
<1>5. \A i \in 1..Len(list) : r[i] = [list[i] EXCEPT !.val = Trimmed(@)]
  OBVIOUS
<1>. HIDE DEF r
<1>. QED  BY ONLY <1>2, <1>3, <1>4, <1>5

LEMMA TrimAllAppend ==
  ASSUME NEW list \in Seq(IniItems), NEW e \in IniItems, NEW f, f = [e EXCEPT !.val = Trimmed(@)]
  PROVE  TrimAll(Append(list, e)) = TrimAll(list) \o <<f>>
<1>1. PICK l : l = Append(list, e)
  OBVIOUS
<1>2. PICK n : n = Len(list)
  OBVIOUS
<1>3. l \in Seq(IniItems) /\ n \in Nat /\ Len(l) = n + 1 /\ l[n + 1] = e /\ \A i \in 1..n : l[i] = list[i]
  BY <1>1, <1>2
<1>4. PICK t : t = TrimAll(list)
  OBVIOUS
<1>5. PICK u : u = TrimAll(l)
  OBVIOUS
<1>6. /\ t \in Seq(IniItems) /\ Len(t) = n
      /\ \A i \in 1..n : t[i] = [list[i] EXCEPT !.val = Trimmed(@)]
  BY <1>2, <1>4, TrimAllFacts
<1>7. /\ u \in Seq(IniItems) /\ Len(u) = n + 1
      /\ \A i \in 1..(n + 1) : u[i] = [l[i] EXCEPT !.val = Trimmed(@)]
  BY <1>3, <1>5, TrimAllFacts
<1>8. u[n + 1] = f /\ \A i \in 1..n : u[i] = t[i]
  <2>1. n + 1 \in 1..(n + 1) /\ \A i \in 1..n : i \in 1..(n + 1)
    BY <1>3
  <2>2. u[n + 1] = f
    BY ONLY <1>3, <1>7, <2>1, f = [e EXCEPT !.val = Trimmed(@)]
  <2>3. ASSUME NEW i \in 1..n PROVE u[i] = t[i]
    <3>1. u[i] = [l[i] EXCEPT !.val = Trimmed(@)] /\ t[i] = [list[i] EXCEPT !.val = Trimmed(@)] /\ l[i] = list[i]
      BY ONLY <1>3, <1>6, <1>7, <2>1, i \in 1..n
    <3>. QED  BY ONLY <3>1
  <2>. QED  BY <2>2, <2>3
<1>9. f \in IniItems
  <2>1. n + 1 \in 1..(n + 1)
    BY <1>3
  <2>. QED  BY <1>3, <1>7, <1>8, <2>1
<1>10. PICK w : w = t \o <<f>>
  OBVIOUS
<1>11. w \in Seq(IniItems) /\ Len(w) = n + 1 /\ \A i \in 1..(n + 1) : w[i] = IF i <= n THEN t[i] ELSE f
  <2>1. PICK y : y = <<f>>
    OBVIOUS
  <2>2. y \in Seq(IniItems) /\ Len(y) = 1 /\ y[1] = f
    BY <1>9, <2>1
  <2>3. w \in Seq(IniItems) /\ Len(w) = n + 1 /\ \A i \in 1..(n + 1) : w[i] = IF i <= n THEN t[i] ELSE y[i - n]
    BY ONLY <1>6, <1>10, <2>1, <2>2, ConcatFacts
  <2>4. \A i \in 1..(n + 1) : i <= n \/ i - n = 1
    BY <1>3
  <2>. QED  BY <2>2, <2>3, <2>4
<1>12. \A i \in 1..(n + 1) : w[i] = u[i]
  <2>1. \A i \in 1..(n + 1) : IF i <= n THEN i \in 1..n ELSE i = n + 1
    BY <1>3
  <2>. QED  BY <1>8, <1>11, <2>1
<1>13. w = u
  BY ONLY <1>7, <1>11, <1>12, SameSeq
<1>. QED  BY <1>1, <1>4, <1>5, <1>10, <1>13

(* A line that is read, by its kind *)
LEMMA Parsed ==
  ASSUME NEW acc, NEW line, acc.ok = TRUE, acc.skip = FALSE
  PROVE  /\ line.kind = "section" => ParseLine(acc, line) = [acc EXCEPT !.sec = line.sec]
         /\ line.kind = "comment" => ParseLine(acc, line) = acc
         /\ line.kind = "broken" => ParseLine(acc, line) = [acc EXCEPT !.sec = NoSection]
         /\ line.kind = "entry" /\ acc.sec = NoSection => ParseLine(acc, line) = [acc EXCEPT !.ok = FALSE]
         /\ line.kind = "entry" /\ acc.sec # NoSection =>
              ParseLine(acc, line) = [acc EXCEPT !.ini = put(acc.ini, acc.sec, line.key, Trim(line.val)),
                                                 !.skip = (line.val = NoValue)]
<1>1. ParseLine(acc, line) =
        CASE line.kind = "comment" -> acc
          [] line.kind = "section" -> [acc EXCEPT !.sec = line.sec]
          [] line.kind = "broken" -> [acc EXCEPT !.sec = NoSection]
          [] line.kind = "entry" /\ acc.sec = NoSection -> [acc EXCEPT !.ok = FALSE]
          [] line.kind = "entry" /\ acc.sec # NoSection ->
               [acc EXCEPT !.ini = put(@, acc.sec, line.key, Trim(line.val)),
                           !.skip = (line.val = NoValue)]
  BY ONLY acc.ok = TRUE, acc.skip = FALSE, Zenon DEF ParseLine
<1>2. CASE line.kind = "section"
  BY ONLY <1>1, <1>2
<1>3. CASE line.kind = "comment"
  BY ONLY <1>1, <1>3
<1>4. CASE line.kind = "broken"
  BY ONLY <1>1, <1>4
<1>5. CASE line.kind = "entry" /\ acc.sec = NoSection
  BY ONLY <1>1, <1>5
<1>6. CASE line.kind = "entry" /\ acc.sec # NoSection
  BY ONLY <1>1, <1>6
<1>. QED  BY ONLY <1>2, <1>3, <1>4, <1>5, <1>6

(* How far the lines that are written have been read: s is the section, old  *)
(* the ones that came earlier.                                               *)
Reads(lines, items, s, old) ==
  LET acc == iniparse_parse(lines) IN
  /\ lines \in Seq(Lines) /\ items \in Seq(IniItems)
  /\ acc = [ini |-> acc.ini, sec |-> s, skip |-> FALSE, ok |-> TRUE]
  /\ IsIni(acc.ini) /\ Holds(acc.ini, Texts) /\ iniparse_fprint(acc.ini) = TrimAll(items)
  /\ SecAt(acc.ini, s) \in {0, Len(acc.ini)}
  /\ \A i \in 1..Len(acc.ini) : acc.ini[i].sec \in old \cup {s}

LEMMA ReadsItem ==
  ASSUME NEW lines, NEW items, NEW s \in SecNames, NEW old, Reads(lines, items, s, old),
         NEW item \in IniItems, item.sec = s
  PROVE  Reads(Append(lines, EntryLine(item.key, item.val)), Append(items, item), s, old)
<1>1. PICK line : line = EntryLine(item.key, item.val)
  OBVIOUS
<1>2. PICK acc : acc = iniparse_parse(lines)
  OBVIOUS
<1>3. PICK k, v : k = item.key /\ v = item.val
  OBVIOUS
<1>4. k \in KeyNames /\ v \in Texts /\ item = [sec |-> s, key |-> k, val |-> v]
  BY <1>3 DEF IniItems
<1>5. PICK t : t = Trimmed(v)
  OBVIOUS
<1>6. t \in Texts /\ v # NoValue /\ t # NoValue /\ Trim(v) = t
  BY <1>4, <1>5, MarkersAreNoNames, TrimmedOnceIsTrimmed DEF Trim
<1>7. line \in Lines /\ line.kind = "entry" /\ line.key = k /\ line.val = v
  BY <1>1, <1>3, <1>4 DEF EntryLine, Lines
<1>8. /\ lines \in Seq(Lines) /\ items \in Seq(IniItems)
      /\ acc = [ini |-> acc.ini, sec |-> s, skip |-> FALSE, ok |-> TRUE]
      /\ IsIni(acc.ini) /\ Holds(acc.ini, Texts) /\ iniparse_fprint(acc.ini) = TrimAll(items)
      /\ SecAt(acc.ini, s) \in {0, Len(acc.ini)}
      /\ \A i \in 1..Len(acc.ini) : acc.ini[i].sec \in old \cup {s}
  BY <1>2 DEF Reads
<1>9. PICK ini : ini = acc.ini
  OBVIOUS
<1>10. PICK new : new = put(ini, s, k, t)
  OBVIOUS
<1>11. ParseLine(acc, line) = [ini |-> new, sec |-> s, skip |-> FALSE, ok |-> TRUE]
  <2>1. s # NoSection
    BY MarkersAreNoNames
  <2>2. acc.ok = TRUE /\ acc.skip = FALSE /\ acc.sec = s
    BY <1>8
  <2>3. ParseLine(acc, line) = [acc EXCEPT !.ini = put(acc.ini, acc.sec, line.key, Trim(line.val)),
                                           !.skip = (line.val = NoValue)]
    BY ONLY <1>7, <2>1, <2>2, Parsed
  <2>4. put(acc.ini, acc.sec, line.key, Trim(line.val)) = new /\ (line.val = NoValue) = FALSE
    BY ONLY <1>6, <1>7, <1>9, <1>10, <2>2
  <2>5. ParseLine(acc, line) = [acc EXCEPT !.ini = new, !.skip = FALSE]
    BY ONLY <2>3, <2>4
  <2>6. acc = [ini |-> ini, sec |-> s, skip |-> FALSE, ok |-> TRUE]
    BY ONLY <1>8, <1>9
  <2>. QED  BY ONLY <2>5, <2>6
<1>12. PICK all : all = Append(lines, line)
  OBVIOUS
<1>13. all \in Seq(Lines) /\ iniparse_parse(all) = [ini |-> new, sec |-> s, skip |-> FALSE, ok |-> TRUE]
  <2>1. AddsLast(all, lines, line)
    BY <1>7, <1>8, <1>12, AppendAddsLast
  <2>. QED  BY <1>2, <1>7, <1>8, <1>11, <1>12, <2>1, ParseMore
<1>14. IsPut(ini, new, s, k, t)
  BY <1>4, <1>6, <1>8, <1>9, <1>10 DEF IsPut
<1>15. PutLists(ini, new, s, k, t)
  BY <1>14, PutIsListed
<1>16. PICK u, w \in Seq(IniItems) : PutFrom(ini, new, s, k, t, u, w)
  BY <1>15 DEF PutLists
<1>17. PICK f : f = [item EXCEPT !.val = Trimmed(@)]
  OBVIOUS
<1>18. f = NewItem(s, k, t) /\ f \in IniItems
  BY <1>4, <1>5, <1>6, <1>17 DEF NewItem, SavedVal, IniItems
<1>19. iniparse_fprint(new) = TrimAll(Append(items, item))
  <2>1. w = <<>> /\ iniparse_fprint(ini) = u \o w /\ iniparse_fprint(new) = u \o (<<f>> \o w)
    BY <1>8, <1>9, <1>16, <1>18 DEF PutFrom
  <2>2. PICK e : e = <<f>>
    OBVIOUS
  <2>3. e \in Seq(IniItems)
    BY <1>18, <2>2
  <2>4. u \o <<>> = u /\ e \o <<>> = e
    BY ONLY <2>3, u \in Seq(IniItems), EmptyConcat
  <2>5. iniparse_fprint(new) = iniparse_fprint(ini) \o <<f>>
    BY ONLY <2>1, <2>2, <2>4
  <2>6. TrimAll(Append(items, item)) = TrimAll(items) \o <<f>>
    BY <1>8, <1>17, TrimAllAppend
  <2>. QED  BY <1>8, <1>9, <2>5, <2>6
<1>20. Holds(new, Texts)
  BY <1>6, <1>8, <1>9, <1>14, PutKeeps
<1>21. IsIni(new) /\ SecAt(new, s) = Len(new)
  BY <1>8, <1>9, <1>15 DEF PutLists
<1>22. \A i \in 1..Len(new) : new[i].sec \in old \cup {s}
  BY <1>8, <1>9, <1>15 DEF PutLists
<1>23. Append(items, item) \in Seq(IniItems)
  BY <1>8
<1>24. iniparse_parse(all).ini = new
  BY <1>13
<1>25. Reads(all, Append(items, item), s, old)
  BY ONLY <1>13, <1>19, <1>20, <1>21, <1>22, <1>23, <1>24 DEF Reads
<1>. QED  BY <1>1, <1>12, <1>25

LEMMA ReadsSection ==
  ASSUME NEW lines, NEW items, NEW s, NEW old, Reads(lines, items, s, old),
         NEW next \in SecNames, next \notin old \cup {s}
  PROVE  Reads(Append(lines, SectionLine(next)), items, next, old \cup {s})
<1>1. PICK line : line = SectionLine(next)
  OBVIOUS
<1>2. PICK acc : acc = iniparse_parse(lines)
  OBVIOUS
<1>3. /\ lines \in Seq(Lines) /\ items \in Seq(IniItems)
      /\ acc = [ini |-> acc.ini, sec |-> s, skip |-> FALSE, ok |-> TRUE]
      /\ IsIni(acc.ini) /\ Holds(acc.ini, Texts) /\ iniparse_fprint(acc.ini) = TrimAll(items)
      /\ \A i \in 1..Len(acc.ini) : acc.ini[i].sec \in old \cup {s}
  BY <1>2 DEF Reads
<1>4. line \in Lines /\ line.kind = "section" /\ line.sec = next
  BY <1>1 DEF SectionLine, Lines
<1>5. PICK ini : ini = acc.ini
  OBVIOUS
<1>6. ParseLine(acc, line) = [ini |-> ini, sec |-> next, skip |-> FALSE, ok |-> TRUE]
  <2>1. acc.ok = TRUE /\ acc.skip = FALSE
    BY <1>3
  <2>2. ParseLine(acc, line) = [acc EXCEPT !.sec = next]
    BY ONLY <1>4, <2>1, Parsed
  <2>3. acc = [ini |-> ini, sec |-> s, skip |-> FALSE, ok |-> TRUE]
    BY ONLY <1>3, <1>5
  <2>. QED  BY ONLY <2>2, <2>3
<1>7. PICK all : all = Append(lines, line)
  OBVIOUS
<1>8. all \in Seq(Lines) /\ iniparse_parse(all) = [ini |-> ini, sec |-> next, skip |-> FALSE, ok |-> TRUE]
  <2>1. AddsLast(all, lines, line)
    BY <1>3, <1>4, <1>7, AppendAddsLast
  <2>. QED  BY <1>2, <1>3, <1>4, <1>6, <1>7, <2>1, ParseMore
<1>9. SecAt(ini, next) = 0
  <2>1. IsIni(ini) /\ \A i \in 1..Len(ini) : ini[i].sec # next
    BY <1>3, <1>5
  <2>. QED  BY <2>1, SecAtFacts
<1>10. iniparse_parse(all).ini = ini
  BY <1>8
<1>11. \A i \in 1..Len(ini) : ini[i].sec \in (old \cup {s}) \cup {next}
  BY <1>3, <1>5
<1>12. Reads(all, items, next, old \cup {s})
  BY ONLY <1>3, <1>5, <1>8, <1>9, <1>10, <1>11 DEF Reads
<1>. QED  BY <1>1, <1>7, <1>12

LEMMA ReadsNothing == Reads(<<>>, <<>>, NoSection, {})
<1>1. iniparse_parse(<<>>) = [ini |-> <<>>, sec |-> NoSection, skip |-> FALSE, ok |-> TRUE]
  BY ParseNothing DEF NothingRead
<1>2. IsIni(<<>>) /\ Holds(<<>>, Texts)
  BY EmptyFacts DEF IsIni, Holds
<1>3. TrimAll(<<>>) = <<>>
  <2>1. <<>> \in Seq(IniItems)
    OBVIOUS
  <2>2. TrimAll(<<>>) \in Seq(IniItems) /\ Len(TrimAll(<<>>)) = 0
    BY <2>1, TrimAllFacts
  <2>. QED  BY <2>2
<1>4. iniparse_fprint(<<>>) = <<>>
  <2>1. Lists(<<>>) = <<>> /\ iniparse_fprint(<<>>) = FlattenSeq(Lists(<<>>))
    <3>1. <<>> \in Seq(IniSections)
      OBVIOUS
    <3>2. Lists(<<>>) \in Seq(Seq(IniItems)) /\ Len(Lists(<<>>)) = 0 /\ iniparse_fprint(<<>>) = FlattenSeq(Lists(<<>>))
      BY <3>1, ListsFacts
    <3>. QED  BY <3>2
  <2>. QED  BY <2>1, FlatEmpty
<1>5. SecAt(<<>>, NoSection) = 0
  BY <1>2, SecAtFacts, EmptyFacts
<1>6. iniparse_parse(<<>>).ini = <<>>
  BY <1>1
<1>. QED  BY ONLY <1>1, <1>2, <1>3, <1>4, <1>5, <1>6, EmptyFacts DEF Reads

(* A sequence behind another, one element at a time *)
Adding(s, t, k) == s \o SubSeq(t, 1, k)

Adds(s, t) ==
  /\ Adding(s, t, 0) = s /\ Adding(s, t, Len(t)) = s \o t
  /\ \A k \in 0..(Len(t) - 1) : Adding(s, t, k + 1) = Append(Adding(s, t, k), t[k + 1])

LEMMA AddingFacts ==
  ASSUME NEW S, NEW s \in Seq(S), NEW t \in Seq(S)
  PROVE  Adds(s, t)
<1>1. SubSeq(t, 1, 0) = <<>> /\ SubSeq(t, 1, Len(t)) = t
  OBVIOUS
<1>2. Adding(s, t, 0) = s /\ Adding(s, t, Len(t)) = s \o t
  <2>1. s \o <<>> = s
    BY EmptyConcat
  <2>. QED  BY ONLY <1>1, <2>1 DEF Adding
<1>3. ASSUME NEW k \in 0..(Len(t) - 1) PROVE Adding(s, t, k + 1) = Append(Adding(s, t, k), t[k + 1])
  <2>1. PICK a : a = SubSeq(t, 1, k)
    OBVIOUS
  <2>2. PICK b : b = SubSeq(t, 1, k + 1)
    OBVIOUS
  <2>3. PICK e : e = t[k + 1]
    OBVIOUS
  <2>4. k \in Nat /\ a \in Seq(S) /\ Len(a) = k /\ b \in Seq(S) /\ Len(b) = k + 1 /\ e \in S
    BY <2>1, <2>2, <2>3
  <2>5. (\A i \in 1..k : a[i] = t[i]) /\ (\A i \in 1..(k + 1) : b[i] = t[i])
    BY <2>1, <2>2
  <2>6. PICK f : f = <<e>>
    OBVIOUS
  <2>7. f \in Seq(S) /\ Len(f) = 1 /\ f[1] = e
    BY <2>4, <2>6
  <2>8. PICK c : c = a \o f
    OBVIOUS
  <2>9. c \in Seq(S) /\ Len(c) = k + 1 /\ \A i \in 1..(k + 1) : c[i] = IF i <= k THEN a[i] ELSE f[i - k]
    <3>1. /\ c \in Seq(S) /\ Len(c) = Len(a) + Len(f)
          /\ \A i \in 1..(Len(a) + Len(f)) : c[i] = IF i <= Len(a) THEN a[i] ELSE f[i - Len(a)]
      BY ONLY <2>4, <2>7, <2>8, ConcatFacts
    <3>. QED  BY ONLY <2>4, <2>7, <3>1
  <2>10. \A i \in 1..(k + 1) : IF i <= k THEN i \in 1..k ELSE i - k = 1 /\ i = k + 1
    BY <2>4
  <2>11. \A i \in 1..(k + 1) : b[i] = c[i]
    BY ONLY <2>3, <2>5, <2>7, <2>9, <2>10
  <2>12. b = c
    BY ONLY <2>4, <2>9, <2>11, SameSeq
  <2>13. Associates(s, a, f)
    BY ONLY <2>4, <2>7, s \in Seq(S), ConcatThree
  <2>14. PICK d : d = s \o a
    OBVIOUS
  <2>15. d \in Seq(S)
    BY ONLY <2>4, <2>14, s \in Seq(S), ConcatFacts
  <2>16. Append(d, e) = d \o f
    BY ONLY <2>4, <2>6, <2>15, AppendAddsLast
  <2>. QED  BY ONLY <2>1, <2>2, <2>3, <2>8, <2>12, <2>13, <2>14, <2>16 DEF Adding, Associates
<1>. QED  BY <1>2, <1>3 DEF Adds

EntryLines(items) == [j \in 1..Len(items) |-> EntryLine(items[j].key, items[j].val)]

LEMMA EntryLinesFacts ==
  ASSUME NEW items \in Seq(IniItems)
  PROVE  /\ EntryLines(items) \in Seq(Lines) /\ Len(EntryLines(items)) = Len(items)
         /\ \A j \in 1..Len(items) : EntryLines(items)[j] = EntryLine(items[j].key, items[j].val)
<1>1. \A j \in 1..Len(items) : EntryLine(items[j].key, items[j].val) \in Lines
  <2>1. SUFFICES ASSUME NEW j \in 1..Len(items) PROVE EntryLine(items[j].key, items[j].val) \in Lines
    OBVIOUS
  <2>2. items[j] \in IniItems
    OBVIOUS
  <2>3. items[j].key \in KeyNames /\ items[j].val \in Texts
    BY <2>2 DEF IniItems
  <2>. QED  BY <2>3 DEF Lines, EntryLine
<1>. QED  BY <1>1 DEF EntryLines

LEMMA ReadsItems ==
  ASSUME NEW lines, NEW items, NEW s \in SecNames, NEW old, Reads(lines, items, s, old),
         NEW its \in Seq(IniItems), \A j \in 1..Len(its) : its[j].sec = s
  PROVE  Reads(lines \o EntryLines(its), items \o its, s, old)
<1>1. lines \in Seq(Lines) /\ items \in Seq(IniItems)
  BY DEF Reads
<1>2. PICK n : n = Len(its)
  OBVIOUS
<1>3. PICK el : el = EntryLines(its)
  OBVIOUS
<1>4. n \in Nat /\ el \in Seq(Lines) /\ Len(el) = n /\ \A j \in 1..n : el[j] = EntryLine(its[j].key, its[j].val)
  BY <1>2, <1>3, EntryLinesFacts
<1>a. Adds(lines, el) /\ Adds(items, its)
  BY ONLY <1>1, <1>4, its \in Seq(IniItems), AddingFacts
<1>. DEFINE Q(k) == Reads(Adding(lines, el, k), Adding(items, its, k), s, old)
            B == {k \in 0..n : ~Q(k)}
<1>5. B = {}
  <2>1. SUFFICES ASSUME B # {} PROVE FALSE
    OBVIOUS
  <2>2. PICK k \in B : \A j \in B : k <= j
    <3>1. B \in SUBSET Nat
      BY <1>4
    <3>. QED  BY <2>1, <3>1, LeastNat
  <2>3. CASE k = 0
    <3>1. Adding(lines, el, 0) = lines /\ Adding(items, its, 0) = items
      BY ONLY <1>a DEF Adds
    <3>2. Q(0)
      BY <3>1
    <3>. QED  BY <2>2, <2>3, <3>2
  <2>4. CASE k # 0
    <3>1. PICK j \in Nat : k = j + 1 /\ j \in 0..n /\ ~(k <= j) /\ j \in 0..(n - 1) /\ j + 1 \in 1..n
      <4>1. k \in 0..n
        BY <2>2
      <4>2. k - 1 \in Nat /\ k = (k - 1) + 1 /\ k - 1 \in 0..n /\ ~(k <= k - 1) /\ k - 1 \in 0..(n - 1)
            /\ (k - 1) + 1 \in 1..n
        BY ONLY <1>4, <2>4, <4>1
      <4>. QED  BY ONLY <4>2
    <3>2. Q(j)
      BY <2>2, <3>1
    <3>3. PICK item : item = its[j + 1]
      OBVIOUS
    <3>4. item \in IniItems /\ item.sec = s /\ el[j + 1] = EntryLine(item.key, item.val)
      <4>1. item \in IniItems
        BY <1>2, <3>1, <3>3
      <4>. QED  BY <1>2, <1>4, <3>1, <3>3, <4>1
    <3>5. Adding(lines, el, j + 1) = Append(Adding(lines, el, j), el[j + 1])
      <4>1. j \in 0..(Len(el) - 1)
        BY ONLY <1>4, <3>1
      <4>. QED  BY ONLY <1>a, <4>1 DEF Adds
    <3>6. Adding(items, its, j + 1) = Append(Adding(items, its, j), item)
      BY ONLY <1>2, <1>a, <3>1, <3>3 DEF Adds
    <3>7. PICK ls, is : ls = Adding(lines, el, j) /\ is = Adding(items, its, j)
      OBVIOUS
    <3>8. Reads(ls, is, s, old)
      BY <3>2, <3>7
    <3>9. Reads(Append(ls, EntryLine(item.key, item.val)), Append(is, item), s, old)
      BY ONLY <3>4, <3>8, s \in SecNames, ReadsItem
    <3>10. Q(j + 1)
      BY ONLY <3>4, <3>5, <3>6, <3>7, <3>9
    <3>. QED  BY <2>2, <3>1, <3>10
  <2>. QED  BY <2>3, <2>4
<1>6. Q(n)
  BY <1>4, <1>5
<1>7. Adding(lines, el, n) = lines \o el /\ Adding(items, its, n) = items \o its
  BY ONLY <1>2, <1>4, <1>a DEF Adds
<1>. QED  BY <1>3, <1>6, <1>7

(* What can be read is written as the lines that are meant. *)
LEMMA SectionLinesFacts ==
  ASSUME NEW x \in IniSections
  PROVE  /\ SectionLine(x.sec) \in Lines
         /\ SectionLines(x) = <<SectionLine(x.sec)>> \o EntryLines(Items(x))
         /\ SectionLines(x) \in Seq(Lines)
<1>1. x.sec \in SecNames /\ SectionLine(x.sec) \in Lines
  BY DEF IniSections, Lines, SectionLine
<1>2. PICK its, b, seqs : /\ its = Items(x) /\ b = EntryLines(its)
                          /\ seqs = [j \in 1..Len(its) |-> WrittenEntry(its[j].key, its[j].val)]
  OBVIOUS
<1>3. its \in Seq(IniItems) /\ Len(its) \in Nat
  <2>1. its \in Seq(IniItems)
    BY <1>2, ItemsFacts
  <2>. QED  BY <2>1
<1>4. b \in Seq(Lines) /\ Len(b) = Len(its) /\ \A j \in 1..Len(its) : b[j] = EntryLine(its[j].key, its[j].val)
  BY <1>2, <1>3, EntryLinesFacts
<1>5. ASSUME NEW j \in 1..Len(its) PROVE WrittenEntry(its[j].key, its[j].val) = <<b[j]>> /\ b[j] \in Lines
  <2>1. its[j] \in IniItems
    BY ONLY <1>3, j \in 1..Len(its)
  <2>2. its[j].key \in KeyNames /\ its[j].val \in Texts
    BY ONLY <2>1 DEF IniItems
  <2>. QED  BY <1>4, <2>2, EntryIsWritten
<1>6. /\ seqs \in Seq(Seq(Lines)) /\ Len(seqs) = Len(b) /\ \A j \in 1..Len(b) : seqs[j] = <<b[j]>>
  <2>1. \A j \in 1..Len(its) : WrittenEntry(its[j].key, its[j].val) \in Seq(Lines)
    <3>1. SUFFICES ASSUME NEW j \in 1..Len(its) PROVE WrittenEntry(its[j].key, its[j].val) \in Seq(Lines)
      OBVIOUS
    <3>2. <<b[j]>> \in Seq(Lines) /\ WrittenEntry(its[j].key, its[j].val) = <<b[j]>>
      BY ONLY <1>5, <3>1
    <3>. QED  BY ONLY <3>2
  <2>. QED  BY ONLY <1>2, <1>3, <1>4, <1>5, <2>1
<1>7. FlattenSeq(seqs) = b
  BY ONLY <1>4, <1>6, FlatSingles
<1>8. SectionLines(x) = <<SectionLine(x.sec)>> \o b
  BY ONLY <1>1, <1>2, <1>7, SectionIsWritten DEF SectionLines
<1>9. PICK a : a = <<SectionLine(x.sec)>>
  OBVIOUS
<1>10. a \in Seq(Lines)
  BY <1>1, <1>9
<1>11. a \o b \in Seq(Lines)
  BY ONLY <1>4, <1>10, ConcatFacts
<1>. QED  BY ONLY <1>1, <1>2, <1>8, <1>9, <1>11

(* The section of an x that is written next. *)
LEMMA ReadsSectionWhole ==
  ASSUME NEW lines, NEW items, NEW s, NEW old, Reads(lines, items, s, old),
         NEW x \in IniSections, x.sec \notin old \cup {s}
  PROVE  Reads(lines \o SectionLines(x), items \o Items(x), x.sec, old \cup {s})
<1>1. lines \in Seq(Lines)
  BY DEF Reads
<1>2. x.sec \in SecNames
  BY DEF IniSections
<1>3. PICK line : line = SectionLine(x.sec)
  OBVIOUS
<1>4. PICK its : its = Items(x)
  OBVIOUS
<1>5. PICK more : more = Append(lines, line)
  OBVIOUS
<1>6. Reads(more, items, x.sec, old \cup {s})
  BY <1>2, <1>3, <1>5, ReadsSection
<1>7. its \in Seq(IniItems) /\ \A j \in 1..Len(its) : its[j].sec = x.sec
  BY <1>4, ItemsFacts
<1>8. Reads(more \o EntryLines(its), items \o its, x.sec, old \cup {s})
  BY ONLY <1>2, <1>6, <1>7, ReadsItems
<1>9. PICK e : e = <<line>>
  OBVIOUS
<1>10. e \in Seq(Lines) /\ EntryLines(its) \in Seq(Lines) /\ line \in Lines
       /\ SectionLines(x) = e \o EntryLines(its)
  BY <1>3, <1>4, <1>7, <1>9, SectionLinesFacts, EntryLinesFacts
<1>11. more = lines \o e
  BY ONLY <1>1, <1>5, <1>9, <1>10, AppendAddsLast
<1>12. Associates(lines, e, EntryLines(its))
  BY ONLY <1>1, <1>10, ConcatThree
<1>. QED  BY ONLY <1>4, <1>8, <1>10, <1>11, <1>12 DEF Associates

ReadsBack(ini) ==
  LET saved == iniparse_parse(iniparse_write(ini)) IN
  /\ iniparse_write(ini) \in Seq(Lines)
  /\ saved.ok /\ IsIni(saved.ini) /\ Holds(saved.ini, Texts)
  /\ iniparse_fprint(saved.ini) = TrimAll(iniparse_fprint(ini))

(* For every list in memory: the file written of it is read without an error, *)
(* and lists the same entries, without the spaces around their values         *)
(* (iniparse_writeto in write.c, iniparse_parse in parser.c).                 *)
THEOREM ReadBack ==
  ASSUME NEW ini, IsIni(ini)
  PROVE  ReadsBack(ini)
<1>1. ini \in Seq(IniSections) /\ \A i, j \in 1..Len(ini) : ini[i].sec = ini[j].sec => i = j
  BY DEF IsIni
<1>2. PICK n : n = Len(ini)
  OBVIOUS
<1>3. n \in Nat /\ \A i \in 1..n : ini[i] \in IniSections /\ ini[i].sec \in SecNames
  <2>1. n \in Nat /\ \A i \in 1..n : ini[i] \in IniSections
    BY <1>1, <1>2
  <2>. QED  BY <2>1 DEF IniSections
<1>4. PICK ls : ls = [i \in 1..Len(ini) |-> SectionLines(ini[i])]
  OBVIOUS
<1>5. ls \in Seq(Seq(Lines)) /\ Len(ls) = n /\ \A i \in 1..n : ls[i] = SectionLines(ini[i])
  <2>1. \A i \in 1..n : SectionLines(ini[i]) \in Seq(Lines)
    BY <1>3, SectionLinesFacts
  <2>2. ls = [i \in 1..n |-> SectionLines(ini[i])]
    BY ONLY <1>2, <1>4
  <2>. QED  BY ONLY <1>3, <2>1, <2>2
<1>6. PICK is : is = Lists(ini)
  OBVIOUS
<1>7. is \in Seq(Seq(IniItems)) /\ Len(is) = n /\ \A i \in 1..n : is[i] = Items(ini[i])
  BY <1>1, <1>2, <1>6, ListsFacts
<1>. DEFINE Cur(k) == IF k = 0 THEN NoSection ELSE ini[k].sec
            Old(k) == IF k = 0 THEN {} ELSE {NoSection} \cup {ini[j].sec : j \in 1..(k - 1)}
            Q(k) == Reads(Upto(ls, k), Upto(is, k), Cur(k), Old(k))
            B == {k \in 0..n : ~Q(k)}
<1>8. B = {}
  <2>1. SUFFICES ASSUME B # {} PROVE FALSE
    OBVIOUS
  <2>2. PICK k \in B : \A j \in B : k <= j
    <3>1. B \in SUBSET Nat
      BY <1>3
    <3>. QED  BY <2>1, <3>1, LeastNat
  <2>3. CASE k = 0
    <3>1. Upto(ls, 0) = <<>> /\ Upto(is, 0) = <<>>
      BY ONLY <1>5, <1>7, UptoFacts
    <3>2. Q(0)
      BY ONLY <3>1, ReadsNothing
    <3>. QED  BY <2>2, <2>3, <3>2
  <2>4. CASE k # 0
    <3>1. PICK j \in Nat : k = j + 1 /\ j \in 0..n /\ ~(k <= j) /\ j \in 0..(n - 1) /\ j + 1 \in 1..n
      <4>1. k \in 0..n
        BY <2>2
      <4>2. k - 1 \in Nat /\ k = (k - 1) + 1 /\ k - 1 \in 0..n /\ ~(k <= k - 1) /\ k - 1 \in 0..(n - 1)
            /\ (k - 1) + 1 \in 1..n
        BY ONLY <1>3, <2>4, <4>1
      <4>. QED  BY ONLY <4>2
    <3>2. Q(j)
      BY <2>2, <3>1
    <3>3. Upto(ls, j + 1) = Upto(ls, j) \o ls[j + 1]
      BY ONLY <1>5, <3>1, UptoFacts
    <3>4. Upto(is, j + 1) = Upto(is, j) \o is[j + 1]
      BY ONLY <1>7, <3>1, UptoFacts
    <3>5. PICK x : x = ini[j + 1]
      OBVIOUS
    <3>6. x \in IniSections /\ ls[j + 1] = SectionLines(x) /\ is[j + 1] = Items(x) /\ x.sec \in SecNames
      BY <1>3, <1>5, <1>7, <3>1, <3>5
    <3>7. Old(j + 1) = Old(j) \cup {Cur(j)} /\ Cur(j + 1) = x.sec
      <4>1. CASE j = 0
        BY <3>5, <4>1
      <4>2. CASE j # 0
        <5>1. 1..((j + 1) - 1) = 1..(j - 1) \cup {j} /\ j + 1 # 0
          BY <4>2
        <5>. QED  BY <3>5, <4>2, <5>1
      <4>. QED  BY <4>1, <4>2
    <3>8. x.sec \notin Old(j) \cup {Cur(j)}
      <4>1. x.sec # NoSection
        BY <3>6, MarkersAreNoNames
      <4>2. ASSUME NEW i \in 1..j PROVE ini[i].sec # x.sec
        <5>1. i \in 1..n /\ i # j + 1
          BY ONLY <1>3, <3>1, i \in 1..j
        <5>. QED  BY <1>1, <1>2, <3>1, <3>5, <5>1
      <4>3. Old(j) \cup {Cur(j)} \subseteq {NoSection} \cup {ini[i].sec : i \in 1..j}
        <5>1. CASE j = 0
          BY <5>1
        <5>2. CASE j # 0
          <6>1. j \in 1..j /\ \A i \in 1..(j - 1) : i \in 1..j
            BY <5>2
          <6>. QED  BY <5>2, <6>1
        <5>. QED  BY <5>1, <5>2
      <4>. QED  BY ONLY <4>1, <4>2, <4>3
    <3>. HIDE DEF Cur, Old
    <3>9. Q(j + 1)
      <4>1. PICK l1, i1, c, o : l1 = Upto(ls, j) /\ i1 = Upto(is, j) /\ c = Cur(j) /\ o = Old(j)
        OBVIOUS
      <4>2. Reads(l1, i1, c, o) /\ x.sec \notin o \cup {c}
        BY ONLY <3>2, <3>8, <4>1
      <4>3. Reads(l1 \o SectionLines(x), i1 \o Items(x), x.sec, o \cup {c})
        BY ONLY <3>6, <4>2, ReadsSectionWhole
      <4>. QED  BY ONLY <3>3, <3>4, <3>6, <3>7, <4>1, <4>3
    <3>. QED  BY <2>2, <3>1, <3>9
  <2>. QED  BY <2>3, <2>4
<1>9. Q(n)
  <2>. HIDE DEF Cur, Old
  <2>1. n \in 0..n
    BY ONLY <1>3
  <2>. QED  BY ONLY <1>8, <2>1
<1>10. Upto(ls, n) = iniparse_write(ini) /\ Upto(is, n) = iniparse_fprint(ini)
  <2>1. Upto(ls, n) = FlattenSeq(ls)
    BY ONLY <1>5, UptoFacts
  <2>2. Upto(is, n) = FlattenSeq(is)
    BY ONLY <1>7, UptoFacts
  <2>3. iniparse_fprint(ini) = FlattenSeq(is)
    BY <1>1, <1>6, ListsFacts
  <2>4. iniparse_write(ini) = FlattenSeq(ls)
    BY <1>4 DEF iniparse_write
  <2>. QED  BY ONLY <2>1, <2>2, <2>3, <2>4
<1>. HIDE DEF Cur, Old
<1>11. Reads(iniparse_write(ini), iniparse_fprint(ini), Cur(n), Old(n))
  BY ONLY <1>9, <1>10
<1>12. PICK acc : acc = iniparse_parse(iniparse_write(ini))
  OBVIOUS
<1>13. /\ iniparse_write(ini) \in Seq(Lines) /\ acc = [ini |-> acc.ini, sec |-> Cur(n), skip |-> FALSE, ok |-> TRUE]
       /\ IsIni(acc.ini) /\ Holds(acc.ini, Texts) /\ iniparse_fprint(acc.ini) = TrimAll(iniparse_fprint(ini))
  BY ONLY <1>11, <1>12 DEF Reads
<1>14. acc.ok
  BY ONLY <1>13
<1>. QED  BY ONLY <1>12, <1>13, <1>14 DEF ReadsBack

----------------------------------------------------------------------------
(* What is read of any file is a list *)

(* Values as they are read *)
ReadVals == {v \in Texts \cup {NoValue} : v # NoValue => Trimmed(v) = v}

WellRead(acc) ==
  /\ acc = [ini |-> acc.ini, sec |-> acc.sec, skip |-> acc.skip, ok |-> acc.ok]
  /\ IsIni(acc.ini) /\ Holds(acc.ini, ReadVals)
  /\ acc.sec \in SecNames \cup {NoSection} /\ acc.skip \in BOOLEAN /\ acc.ok \in BOOLEAN

LEMMA LinesFacts ==
  ASSUME NEW line \in Lines
  PROVE  \/ line.kind = "section" /\ line.sec \in SecNames
         \/ line.kind = "comment" \/ line.kind = "broken"
         \/ line.kind = "entry" /\ line.key \in KeyNames /\ line.val \in Texts \cup {NoValue}
BY DEF Lines, SectionLine, EntryLine, CommentLine, BrokenLine

LEMMA ReadOn ==
  ASSUME NEW acc, WellRead(acc), NEW line \in Lines
  PROVE  WellRead(ParseLine(acc, line))
<1>1. PICK ini, sec, skip, ok : ini = acc.ini /\ sec = acc.sec /\ skip = acc.skip /\ ok = acc.ok
  OBVIOUS
<1>2. /\ acc = [ini |-> ini, sec |-> sec, skip |-> skip, ok |-> ok]
      /\ IsIni(ini) /\ Holds(ini, ReadVals)
      /\ sec \in SecNames \cup {NoSection} /\ skip \in BOOLEAN /\ ok \in BOOLEAN
  BY <1>1 DEF WellRead
<1>f. PICK f : f = FALSE
  OBVIOUS
<1>3. CASE ~ok
  <2>1. ParseLine(acc, line) = acc
    BY <1>1, <1>3 DEF ParseLine
  <2>. QED  BY <2>1
<1>4. CASE ok /\ skip
  <2>1. ParseLine(acc, line) = [acc EXCEPT !.skip = f]
    BY <1>1, <1>4, <1>f DEF ParseLine
  <2>2. [acc EXCEPT !.skip = f] = [ini |-> ini, sec |-> sec, skip |-> f, ok |-> ok]
    BY ONLY <1>2
  <2>. QED  BY <1>2, <1>f, <2>1, <2>2 DEF WellRead
<1>5. CASE ok /\ ~skip
  <2>1. acc.ok = TRUE /\ acc.skip = FALSE
    BY <1>1, <1>2, <1>5
  <2>2. CASE line.kind = "section" /\ line.sec \in SecNames
    <3>1. ParseLine(acc, line) = [acc EXCEPT !.sec = line.sec]
      BY ONLY <2>1, <2>2, Parsed
    <3>2. [acc EXCEPT !.sec = line.sec] = [ini |-> ini, sec |-> line.sec, skip |-> skip, ok |-> ok]
      BY ONLY <1>2
    <3>. QED  BY <1>2, <2>2, <3>1, <3>2 DEF WellRead
  <2>3. CASE line.kind = "comment"
    <3>1. ParseLine(acc, line) = acc
      BY ONLY <2>1, <2>3, Parsed
    <3>. QED  BY <3>1
  <2>4. CASE line.kind = "broken"
    <3>1. ParseLine(acc, line) = [acc EXCEPT !.sec = NoSection]
      BY ONLY <2>1, <2>4, Parsed
    <3>2. [acc EXCEPT !.sec = NoSection] = [ini |-> ini, sec |-> NoSection, skip |-> skip, ok |-> ok]
      BY ONLY <1>2
    <3>. QED  BY <1>2, <3>1, <3>2 DEF WellRead
  <2>5. CASE line.kind = "entry" /\ line.key \in KeyNames /\ line.val \in Texts \cup {NoValue}
    <3>1. CASE sec = NoSection
      <4>1. ParseLine(acc, line) = [acc EXCEPT !.ok = f]
        <5>1. acc.sec = NoSection /\ line.kind = "entry"
          BY ONLY <1>1, <2>5, <3>1
        <5>2. ParseLine(acc, line) = [acc EXCEPT !.ok = FALSE]
          BY ONLY <2>1, <5>1, Parsed
        <5>. QED  BY ONLY <1>f, <5>2
      <4>2. [acc EXCEPT !.ok = f] = [ini |-> ini, sec |-> sec, skip |-> skip, ok |-> f]
        BY ONLY <1>2
      <4>. QED  BY <1>2, <1>f, <4>1, <4>2 DEF WellRead
    <3>2. CASE sec # NoSection
      <4>1. PICK k, v, t, none : k = line.key /\ v = line.val /\ t = Trim(v) /\ none = (v = NoValue)
        OBVIOUS
      <4>2. PICK new : new = put(ini, sec, k, t)
        OBVIOUS
      <4>3. ParseLine(acc, line) = [acc EXCEPT !.ini = new, !.skip = none]
        <5>1. ParseLine(acc, line) = [acc EXCEPT !.ini = put(acc.ini, acc.sec, line.key, Trim(line.val)),
                                                 !.skip = (line.val = NoValue)]
          BY ONLY <1>1, <2>1, <2>5, <3>2, Parsed
        <5>2. put(acc.ini, acc.sec, line.key, Trim(line.val)) = new /\ (line.val = NoValue) = none
          BY ONLY <1>1, <4>1, <4>2
        <5>. QED  BY ONLY <5>1, <5>2
      <4>4. ParseLine(acc, line) = [ini |-> new, sec |-> sec, skip |-> none, ok |-> ok]
        BY ONLY <1>2, <4>3
      <4>5. t \in ReadVals /\ t \in Texts \cup {NoValue}
        <5>1. v \in Texts \cup {NoValue}
          BY <2>5, <4>1
        <5>2. CASE v = NoValue
          BY <4>1, <5>2 DEF Trim, ReadVals
        <5>3. CASE v # NoValue
          BY <4>1, <5>1, <5>3, TrimmedOnceIsTrimmed DEF Trim, ReadVals
        <5>. QED  BY <5>2, <5>3
      <4>6. IsPut(ini, new, sec, k, t)
        BY <1>2, <2>5, <3>2, <4>1, <4>2, <4>5 DEF IsPut
      <4>7. IsIni(new) /\ Holds(new, ReadVals)
        <5>1. PutLists(ini, new, sec, k, t)
          BY ONLY <4>6, PutIsListed
        <5>2. Holds(new, ReadVals)
          BY ONLY <1>2, <4>5, <4>6, PutKeeps
        <5>. QED  BY ONLY <5>1, <5>2 DEF PutLists
      <4>8. none \in BOOLEAN
        BY <4>1
      <4>. QED  BY ONLY <1>2, <4>4, <4>7, <4>8 DEF WellRead
    <3>. QED  BY <3>1, <3>2
  <2>. QED  BY <2>2, <2>3, <2>4, <2>5, LinesFacts
<1>. QED  BY <1>2, <1>3, <1>4, <1>5

(* Whatever lines a file has, the list read of it, as far as it was read, has *)
(* one place for each section and values without spaces around them           *)
(* (iniparse_parse in parser.c).                                              *)
THEOREM ParsedIsIni ==
  ASSUME NEW lines \in Seq(Lines)
  PROVE  IsIni(iniparse_parse(lines).ini) /\ Holds(iniparse_parse(lines).ini, ReadVals)
<1>1. PICK n \in Nat : n = Len(lines)
  OBVIOUS
<1>2. PICK g : IsParse(g, lines, n) /\ iniparse_parse(lines) = g[n]
  BY <1>1, ParseIs
<1>3. \A m \in 0..n : g[m] = IF m = 0 THEN NothingRead ELSE ParseLine(g[m - 1], lines[m])
  BY <1>2, ParseStep
<1>4. WellRead(NothingRead)
  <2>1. IsIni(<<>>) /\ Holds(<<>>, ReadVals)
    BY EmptyFacts DEF IsIni, Holds
  <2>. QED  BY <2>1 DEF WellRead, NothingRead
<1>. DEFINE B == {k \in 0..n : ~WellRead(g[k])}
<1>5. B = {}
  <2>1. SUFFICES ASSUME B # {} PROVE FALSE
    OBVIOUS
  <2>2. PICK k \in B : \A j \in B : k <= j
    <3>1. B \in SUBSET Nat
      OBVIOUS
    <3>. QED  BY <2>1, <3>1, LeastNat
  <2>3. k \in 0..n /\ ~WellRead(g[k])
    BY <2>2
  <2>4. CASE k = 0
    BY <1>3, <1>4, <2>3, <2>4
  <2>5. CASE k # 0
    <3>1. k - 1 \in 0..n /\ ~(k <= k - 1) /\ lines[k] \in Lines
      BY <1>1, <2>3, <2>5
    <3>2. WellRead(g[k - 1])
      BY <2>2, <3>1
    <3>3. g[k] = ParseLine(g[k - 1], lines[k])
      BY <1>3, <2>3, <2>5
    <3>. QED  BY <2>3, <3>1, <3>2, <3>3, ReadOn
  <2>. QED  BY <2>4, <2>5
<1>6. n \in 0..n
  OBVIOUS
<1>. QED  BY <1>2, <1>5, <1>6 DEF WellRead

----------------------------------------------------------------------------
(* The first value of a name *)

(* The value of the first entry of a name, if there is one *)
FirstVal(list, s, k, v) ==
  \E i \in 1..Len(list) :
    /\ list[i].sec = s /\ list[i].key = k /\ list[i].val = v
    /\ \A j \in 1..(i - 1) : ~(list[j].sec = s /\ list[j].key = k)

LEMMA FirstValFacts ==
  ASSUME NEW list \in Seq(IniItems), NEW s, NEW k, NEW v, FirstVal(list, s, k, v)
  PROVE  Named(list, s, k) /\ \A t : FirstVal(list, s, k, t) => t = v
<1>1. PICK i \in 1..Len(list) :
        /\ list[i].sec = s /\ list[i].key = k /\ list[i].val = v
        /\ \A j \in 1..(i - 1) : ~(list[j].sec = s /\ list[j].key = k)
  BY DEF FirstVal
<1>2. ASSUME NEW t, FirstVal(list, s, k, t) PROVE t = v
  <2>1. PICK n \in 1..Len(list) :
          /\ list[n].sec = s /\ list[n].key = k /\ list[n].val = t
          /\ \A j \in 1..(n - 1) : ~(list[j].sec = s /\ list[j].key = k)
    BY <1>2 DEF FirstVal
  <2>2. i \in Nat /\ n \in Nat /\ 1 <= i /\ 1 <= n
    OBVIOUS
  <2>3. i = n \/ i \in 1..(n - 1) \/ n \in 1..(i - 1)
    BY <2>2
  <2>. QED  BY <1>1, <2>1, <2>3
<1>. QED  BY <1>1, <1>2 DEF Named

Joined(a, b, s, k) ==
  LET c == a \o b IN
  /\ Named(c, s, k) <=> Named(a, s, k) \/ Named(b, s, k)
  /\ \A v : FirstVal(c, s, k, v) <=> FirstVal(a, s, k, v) \/ (~Named(a, s, k) /\ FirstVal(b, s, k, v))

LEMMA FirstOfTwo ==
  ASSUME NEW a \in Seq(IniItems), NEW b \in Seq(IniItems), NEW s, NEW k
  PROVE  Joined(a, b, s, k)
<1>1. PICK m, n : m = Len(a) /\ n = Len(b)
  OBVIOUS
<1>2. m \in Nat /\ n \in Nat
  BY <1>1
<1>3. PICK c : c = a \o b
  OBVIOUS
<1>4. Len(c) = m + n /\ \A i \in 1..(m + n) : c[i] = IF i <= m THEN a[i] ELSE b[i - m]
  BY <1>1, <1>3, ConcatFacts
<1>5. \A i \in 1..m : i \in 1..(m + n) /\ c[i] = a[i]
  BY ONLY <1>2, <1>4
<1>6. \A i \in 1..n : m + i \in 1..(m + n) /\ c[m + i] = b[i]
  <2>1. ASSUME NEW i \in 1..n PROVE m + i \in 1..(m + n) /\ ~(m + i <= m) /\ (m + i) - m = i
    BY ONLY <1>2, i \in 1..n
  <2>. QED  BY ONLY <1>4, <2>1
<1>7. Named(c, s, k) <=> Named(a, s, k) \/ Named(b, s, k)
  <2>1. Named(c, s, k) => Named(a, s, k) \/ Named(b, s, k)
    BY <1>3, NoneNamed
  <2>2. Named(a, s, k) => Named(c, s, k)
    BY ONLY <1>1, <1>4, <1>5 DEF Named
  <2>3. Named(b, s, k) => Named(c, s, k)
    BY ONLY <1>1, <1>4, <1>6 DEF Named
  <2>. QED  BY <2>1, <2>2, <2>3
<1>. DEFINE Is(e) == e.sec = s /\ e.key = k
<1>8. ASSUME NEW v, FirstVal(a, s, k, v) PROVE FirstVal(c, s, k, v)
  <2>1. PICK i \in 1..m : Is(a[i]) /\ a[i].val = v /\ \A j \in 1..(i - 1) : ~Is(a[j])
    BY <1>1, <1>8 DEF FirstVal
  <2>2. \A j \in 1..(i - 1) : j \in 1..m
    BY ONLY <1>2, i \in 1..m
  <2>3. i \in 1..(m + n) /\ Is(c[i]) /\ c[i].val = v /\ \A j \in 1..(i - 1) : ~Is(c[j])
    BY ONLY <1>5, <2>1, <2>2
  <2>. QED  BY ONLY <1>4, <2>3 DEF FirstVal
<1>9. ASSUME NEW v, ~Named(a, s, k), FirstVal(b, s, k, v) PROVE FirstVal(c, s, k, v)
  <2>1. PICK i \in 1..n : Is(b[i]) /\ b[i].val = v /\ \A j \in 1..(i - 1) : ~Is(b[j])
    BY <1>1, <1>9 DEF FirstVal
  <2>2. \A j \in 1..m : ~Is(a[j])
    BY <1>1, <1>9 DEF Named
  <2>3. m + i \in 1..(m + n) /\ Is(c[m + i]) /\ c[m + i].val = v
    BY ONLY <1>6, <2>1, i \in 1..n
  <2>4. ASSUME NEW j \in 1..((m + i) - 1) PROVE ~Is(c[j])
    <3>1. j \in 1..m \/ (j - m \in 1..(i - 1) /\ j - m \in 1..n /\ m + (j - m) = j)
      BY ONLY <1>2, i \in 1..n, j \in 1..((m + i) - 1)
    <3>2. CASE j \in 1..m
      BY ONLY <1>5, <2>2, <3>2
    <3>3. CASE j - m \in 1..(i - 1) /\ j - m \in 1..n /\ m + (j - m) = j
      <4>1. PICK l : l = j - m
        OBVIOUS
      <4>2. l \in 1..(i - 1) /\ l \in 1..n /\ m + l = j
        BY ONLY <3>3, <4>1
      <4>. QED  BY ONLY <1>6, <2>1, <4>2
    <3>. QED  BY ONLY <3>1, <3>2, <3>3
  <2>5. PICK q : q = m + i
    OBVIOUS
  <2>6. q \in 1..(m + n) /\ Is(c[q]) /\ c[q].val = v /\ \A j \in 1..(q - 1) : ~Is(c[j])
    BY ONLY <2>3, <2>4, <2>5
  <2>. QED  BY ONLY <1>4, <2>6 DEF FirstVal
<1>10. ASSUME NEW v, FirstVal(c, s, k, v) PROVE FirstVal(a, s, k, v) \/ (~Named(a, s, k) /\ FirstVal(b, s, k, v))
  <2>1. PICK q \in 1..(m + n) : Is(c[q]) /\ c[q].val = v /\ \A j \in 1..(q - 1) : ~Is(c[j])
    BY <1>4, <1>10 DEF FirstVal
  <2>2. CASE q <= m
    <3>1. q \in 1..m /\ \A j \in 1..(q - 1) : j \in 1..m
      BY ONLY <1>2, <2>2, q \in 1..(m + n)
    <3>2. Is(a[q]) /\ a[q].val = v /\ \A j \in 1..(q - 1) : ~Is(a[j])
      BY ONLY <1>5, <2>1, <3>1
    <3>. QED  BY ONLY <1>1, <3>1, <3>2 DEF FirstVal
  <2>3. CASE ~(q <= m)
    <3>1. PICK i : i = q - m
      OBVIOUS
    <3>2. i \in 1..n /\ q = m + i /\ (\A j \in 1..m : j \in 1..(q - 1))
          /\ \A j \in 1..(i - 1) : j \in 1..n /\ m + j \in 1..(q - 1)
      BY ONLY <1>2, <2>3, <3>1, q \in 1..(m + n)
    <3>3. \A j \in 1..m : ~Is(a[j])
      BY ONLY <1>5, <2>1, <3>2
    <3>4. Is(b[i]) /\ b[i].val = v /\ \A j \in 1..(i - 1) : ~Is(b[j])
      BY ONLY <1>6, <2>1, <3>2
    <3>5. ~Named(a, s, k)
      BY ONLY <1>1, <3>3 DEF Named
    <3>6. FirstVal(b, s, k, v)
      BY ONLY <1>1, <3>2, <3>4 DEF FirstVal
    <3>. QED  BY <3>5, <3>6
  <2>. QED  BY <2>2, <2>3
<1>. QED  BY ONLY <1>3, <1>7, <1>8, <1>9, <1>10 DEF Joined

OnlyOf(x, s, k) == \A r \in 1..Len(x) : x[r].sec = s /\ x[r].key = k

(* An edit of one name leaves what the others have. *)
LEMMA OthersStay ==
  ASSUME NEW a, NEW b, NEW s, NEW k, NEW x \in Seq(IniItems), NEW y \in Seq(IniItems),
         Edited(a, b, s, k, x, y), OnlyOf(x, s, k), OnlyOf(y, s, k),
         NEW s2, NEW k2, <<s2, k2>> # <<s, k>>
  PROVE  /\ Named(b, s2, k2) => Named(a, s2, k2)
         /\ \A v : FirstVal(a, s2, k2, v) => FirstVal(b, s2, k2, v)
<1>1. PICK u, w \in Seq(IniItems) : a = u \o (x \o w) /\ b = u \o (y \o w) /\ ~Named(u, s, k)
  BY DEF Edited
<1>2. ~Named(x, s2, k2) /\ ~Named(y, s2, k2)
  BY DEF OnlyOf, Named
<1>3. PICK xw, yw : xw = x \o w /\ yw = y \o w
  OBVIOUS
<1>4. xw \in Seq(IniItems) /\ yw \in Seq(IniItems)
  BY ONLY <1>3, x \in Seq(IniItems), y \in Seq(IniItems), w \in Seq(IniItems), ConcatFacts
<1>5. Joined(u, xw, s2, k2) /\ Joined(u, yw, s2, k2) /\ Joined(x, w, s2, k2) /\ Joined(y, w, s2, k2)
  BY ONLY <1>4, x \in Seq(IniItems), y \in Seq(IniItems), u \in Seq(IniItems), w \in Seq(IniItems), FirstOfTwo
<1>6. ASSUME NEW v, FirstVal(x, s2, k2, v) PROVE FALSE
  BY <1>2, <1>6, FirstValFacts
<1>. QED  BY ONLY <1>1, <1>2, <1>3, <1>5, <1>6 DEF Joined

LEMMA EditedFirst ==
  ASSUME NEW a, NEW b, NEW s, NEW k, NEW x, NEW e \in IniItems,
         Edited(a, b, s, k, x, <<e>>), e.sec = s, e.key = k
  PROVE  FirstVal(b, s, k, e.val)
<1>1. PICK u, w \in Seq(IniItems) : b = u \o (<<e>> \o w) /\ ~Named(u, s, k)
  BY DEF Edited
<1>2. PICK y : y = <<e>>
  OBVIOUS
<1>3. y \in Seq(IniItems) /\ Len(y) = 1 /\ y[1] = e
  BY <1>2
<1>4. FirstVal(y, s, k, e.val)
  <2>1. 1 \in 1..Len(y) /\ \A j \in 1..(1 - 1) : FALSE
    BY <1>3
  <2>. QED  BY ONLY <1>3, <2>1, e.sec = s, e.key = k DEF FirstVal
<1>5. PICK yw : yw = y \o w
  OBVIOUS
<1>6. yw \in Seq(IniItems)
  BY ONLY <1>3, <1>5, w \in Seq(IniItems), ConcatFacts
<1>7. Joined(u, yw, s, k) /\ Joined(y, w, s, k)
  BY ONLY <1>3, <1>6, u \in Seq(IniItems), w \in Seq(IniItems), FirstOfTwo
<1>. QED  BY ONLY <1>1, <1>2, <1>4, <1>5, <1>7 DEF Joined

LEMMA TrimAllKeeps ==
  ASSUME NEW list \in Seq(IniItems), NEW s, NEW k
  PROVE  /\ Named(TrimAll(list), s, k) <=> Named(list, s, k)
         /\ \A v : FirstVal(list, s, k, v) => FirstVal(TrimAll(list), s, k, Trimmed(v))
<1>1. PICK t : t = TrimAll(list)
  OBVIOUS
<1>2. /\ Len(t) = Len(list)
      /\ \A i \in 1..Len(list) : t[i].sec = list[i].sec /\ t[i].key = list[i].key /\ t[i].val = Trimmed(list[i].val)
  BY <1>1, TrimAllFacts
<1>3. Named(t, s, k) <=> Named(list, s, k)
  BY ONLY <1>2 DEF Named
<1>4. ASSUME NEW v, FirstVal(list, s, k, v) PROVE FirstVal(t, s, k, Trimmed(v))
  <2>1. PICK i \in 1..Len(list) :
          /\ list[i].sec = s /\ list[i].key = k /\ list[i].val = v
          /\ \A j \in 1..(i - 1) : ~(list[j].sec = s /\ list[j].key = k)
    BY <1>4 DEF FirstVal
  <2>2. \A j \in 1..(i - 1) : j \in 1..Len(list)
    OBVIOUS
  <2>3. /\ t[i].sec = s /\ t[i].key = k /\ t[i].val = Trimmed(v)
        /\ \A j \in 1..(i - 1) : ~(t[j].sec = s /\ t[j].key = k)
    BY ONLY <1>2, <2>1, <2>2
  <2>. QED  BY ONLY <1>2, <2>3, i \in 1..Len(list) DEF FirstVal
<1>. QED  BY ONLY <1>1, <1>3, <1>4

(* What iniparse_get returns is what is listed first. *)
LEMMA GetIsListed ==
  ASSUME NEW ini, IsIni(ini), NEW s \in SecNames, NEW k \in KeyNames
  PROVE  /\ EntryAt(ini, s, k) = 0 => ~Named(iniparse_fprint(ini), s, k)
         /\ EntryAt(ini, s, k) # 0 =>
              FirstVal(iniparse_fprint(ini), s, k, SavedVal(iniparse_get(ini, s, k)))
<1>1. k # Deleted
  BY MarkersAreNoNames
<1>2. CASE EntryAt(ini, s, k) = 0
  <2>1. PICK new : new = put(ini, s, k, NoValue)
    OBVIOUS
  <2>2. IsPut(ini, new, s, k, NoValue)
    BY <2>1 DEF IsPut
  <2>3. PutLists(ini, new, s, k, NoValue)
    BY ONLY <2>2, PutIsListed
  <2>4. PICK u, w \in Seq(IniItems) : PutFrom(ini, new, s, k, NoValue, u, w)
    BY <2>3 DEF PutLists
  <2>5. iniparse_fprint(ini) = u \o w /\ ~Named(u, s, k) /\ ~Named(w, s, k)
    BY <1>2, <2>4 DEF PutFrom
  <2>6. ~Named(u \o w, s, k)
    BY <2>5, NoneNamed
  <2>. QED  BY <1>2, <2>5, <2>6
<1>3. CASE EntryAt(ini, s, k) # 0
  <2>1. PICK a, e : a = SecAt(ini, s) /\ e = EntryAt(ini, s, k)
    OBVIOUS
  <2>2. PICK entry : entry = ini[a].entries[e]
    OBVIOUS
  <2>3. a # 0 /\ e # 0 /\ e \in 1..Len(ini[a].entries) /\ entry.key = k
    BY <1>3, <2>1, <2>2, EntryAtFacts
  <2>4. a \in 1..Len(ini) /\ ini[a].sec = s
    BY <2>1, <2>3, SecAtFacts
  <2>5. PICK x : x = ini[a]
    OBVIOUS
  <2>6. x \in IniSections /\ entry \in IniEntries
    <3>1. x \in IniSections
      BY <2>4, <2>5 DEF IsIni
    <3>. QED  BY <2>2, <2>3, <2>5, <3>1 DEF IniSections
  <2>7. PICK new : new = [ini EXCEPT ![a].entries[e] = entry]
    OBVIOUS
  <2>8. new = ini
    <3>1. [x.entries EXCEPT ![e] = entry] = x.entries
      BY <2>2, <2>3, <2>5, <2>6 DEF IniSections
    <3>2. [x EXCEPT !.entries = x.entries] = x
      BY <2>6 DEF IniSections
    <3>3. new = [ini EXCEPT ![a] = [x EXCEPT !.entries = [x.entries EXCEPT ![e] = entry]]]
      BY <2>5, <2>7
    <3>4. [ini EXCEPT ![a] = x] = ini
      BY <2>4, <2>5 DEF IsIni
    <3>. QED  BY ONLY <3>1, <3>2, <3>3, <3>4
  <2>9. Edited(iniparse_fprint(ini), iniparse_fprint(new), s, k, Piece(ini[a], ini[a].entries[e]), Piece(ini[a], entry))
    BY ONLY IsIni(ini), <1>3, <2>1, <2>6, <2>7, EntryEdited
  <2>10. PICK item : item = Item(x, entry)
    OBVIOUS
  <2>11. item \in IniItems /\ item.sec = s /\ item.key = k /\ item.val = SavedVal(entry.val)
    <3>1. item.sec = s /\ item.key = k /\ item.val = SavedVal(entry.val)
      BY <2>3, <2>4, <2>5, <2>10 DEF Item, SavedVal
    <3>. QED  BY <1>1, <2>3, <2>6, <2>10, <3>1, PieceFacts
  <2>12. Piece(ini[a], entry) = <<item>>
    BY <1>1, <2>3, <2>5, <2>10 DEF Piece
  <2>13. FirstVal(iniparse_fprint(ini), s, k, item.val)
    BY ONLY <2>8, <2>9, <2>11, <2>12, EditedFirst
  <2>14. iniparse_get(ini, s, k) = entry.val
    BY <1>3, <2>1, <2>2 DEF iniparse_get
  <2>. QED  BY ONLY <1>3, <2>11, <2>13, <2>14
<1>. QED  BY <1>2, <1>3

IsSet(ini, new, s, k, v) ==
  /\ IsIni(ini) /\ s \in SecNames /\ k \in KeyNames /\ v \in Texts
  /\ new = iniparse_set(ini, s, k, v)

(* No other name is new or has another value. *)
KeepsOthers(a, b, s, k) ==
  \A s2, k2 : <<s2, k2>> # <<s, k>> =>
    /\ Named(b, s2, k2) => Named(a, s2, k2)
    /\ \A v : FirstVal(a, s2, k2, v) => FirstVal(b, s2, k2, v)

(* For every list and name: what is set is the first value listed of its     *)
(* name, every other name keeps its value, and none is new (iniparse_set).    *)
THEOREM SetIsListed ==
  ASSUME NEW ini, NEW new, NEW s, NEW k, NEW v, IsSet(ini, new, s, k, v)
  PROVE  /\ IsIni(new) /\ FirstVal(iniparse_fprint(new), s, k, v)
         /\ KeepsOthers(iniparse_fprint(ini), iniparse_fprint(new), s, k)
<1>. IsIni(ini) /\ s \in SecNames /\ k \in KeyNames /\ v \in Texts /\ new = iniparse_set(ini, s, k, v)
  BY DEF IsSet
<1>1. v # NoValue /\ k # Deleted
  BY MarkersAreNoNames
<1>2. PICK item : item = NewItem(s, k, v)
  OBVIOUS
<1>3. item \in IniItems /\ item.sec = s /\ item.key = k /\ item.val = v
  BY <1>1, <1>2 DEF NewItem, SavedVal, IniItems
<1>4. PICK y : y = <<item>>
  OBVIOUS
<1>5. y \in Seq(IniItems) /\ OnlyOf(y, s, k)
  BY <1>3, <1>4 DEF OnlyOf
<1>6. PICK a, b : a = iniparse_fprint(ini) /\ b = iniparse_fprint(new)
  OBVIOUS
<1>7. IsIni(new) /\ \E x \in Seq(IniItems) : OnlyOf(x, s, k) /\ Edited(a, b, s, k, x, y)
  <2>1. CASE EntryAt(ini, s, k) = 0
    <3>1. IsPut(ini, new, s, k, v)
      BY <2>1 DEF IsPut, iniparse_set
    <3>2. PutLists(ini, new, s, k, v)
      BY ONLY <3>1, PutIsListed
    <3>3. PICK u, w \in Seq(IniItems) : PutFrom(ini, new, s, k, v, u, w)
      BY <3>2 DEF PutLists
    <3>4. a = u \o w /\ b = u \o (y \o w) /\ ~Named(u, s, k)
      BY <1>2, <1>4, <1>6, <2>1, <3>3 DEF PutFrom
    <3>5. <<>> \o w = w
      BY EmptyConcat
    <3>6. Edited(a, b, s, k, <<>>, y)
      BY ONLY <3>4, <3>5, u \in Seq(IniItems), w \in Seq(IniItems) DEF Edited
    <3>7. OnlyOf(<<>>, s, k) /\ <<>> \in Seq(IniItems)
      BY EmptyFacts DEF OnlyOf
    <3>. QED  BY <3>2, <3>6, <3>7 DEF PutLists
  <2>2. CASE EntryAt(ini, s, k) # 0
    <3>1. PICK p, e : p = SecAt(ini, s) /\ e = EntryAt(ini, s, k)
      OBVIOUS
    <3>2. PICK entry : entry = [key |-> k, val |-> v]
      OBVIOUS
    <3>3. entry \in IniEntries
      BY <3>2 DEF IniEntries
    <3>4. p # 0 /\ e # 0 /\ e \in 1..Len(ini[p].entries) /\ ini[p].entries[e].key = k
      BY <2>2, <3>1, EntryAtFacts
    <3>5. p \in 1..Len(ini) /\ ini[p].sec = s
      BY <3>1, <3>4, SecAtFacts
    <3>6. PICK q : q = ini[p]
      OBVIOUS
    <3>7. q \in IniSections /\ q.entries[e] \in IniEntries
      <4>1. q \in IniSections
        BY <3>5, <3>6 DEF IsIni
      <4>. QED  BY <3>4, <3>6, <4>1 DEF IniSections
    <3>8. new = [ini EXCEPT ![p].entries[e] = entry]
      <4>1. [q.entries[e] EXCEPT !.val = v] = entry
        BY <3>2, <3>4, <3>6, <3>7 DEF IniEntries
      <4>2. new = [ini EXCEPT ![p].entries[e].val = v]
        BY <2>2, <3>1 DEF iniparse_set
      <4>. QED  BY ONLY <3>6, <4>1, <4>2
    <3>9. /\ IsIni(new)
          /\ Edited(a, b, s, k, Piece(ini[p], ini[p].entries[e]), Piece(ini[p], entry))
      BY ONLY IsIni(ini), <1>6, <2>2, <3>1, <3>3, <3>8, EntryEdited, ZenonT(40)
    <3>10. Piece(q, entry) = y
      BY <1>1, <1>2, <1>4, <3>2, <3>5, <3>6 DEF Piece, Item, NewItem, SavedVal
    <3>11. PICK x : x = Piece(q, q.entries[e])
      OBVIOUS
    <3>12. x \in Seq(IniItems) /\ OnlyOf(x, s, k)
      BY <3>4, <3>5, <3>6, <3>7, <3>11, PieceFacts DEF OnlyOf
    <3>. QED  BY ONLY <3>6, <3>9, <3>10, <3>11, <3>12
  <2>. QED  BY <2>1, <2>2
<1>8. PICK x \in Seq(IniItems) : OnlyOf(x, s, k) /\ Edited(a, b, s, k, x, y)
  BY <1>7
<1>9. FirstVal(b, s, k, v)
  BY ONLY <1>3, <1>4, <1>8, EditedFirst
<1>10. KeepsOthers(a, b, s, k)
  BY ONLY <1>5, <1>8, x \in Seq(IniItems), OthersStay DEF KeepsOthers
<1>. QED  BY <1>6, <1>7, <1>9, <1>10

----------------------------------------------------------------------------
(* An entry less *)

PlacesOf(list, s, k) == {i \in 1..Len(list) : list[i].sec = s /\ list[i].key = k}

(* One entry of a name less *)
LosesOne(e, s, k, u, w, a, b) ==
  /\ u \in Seq(IniItems) /\ w \in Seq(IniItems) /\ e \in IniItems /\ e.sec = s /\ e.key = k
  /\ a = u \o (<<e>> \o w) /\ b = u \o (<<>> \o w)

LEMMA OneLess ==
  ASSUME NEW e, NEW s, NEW k, NEW u, NEW w, NEW a, NEW b, LosesOne(e, s, k, u, w, a, b)
  PROVE  Cardinality(PlacesOf(b, s, k)) = Cardinality(PlacesOf(a, s, k)) - 1
<1>. /\ u \in Seq(IniItems) /\ w \in Seq(IniItems) /\ e \in IniItems /\ e.sec = s /\ e.key = k
     /\ a = u \o (<<e>> \o w) /\ b = u \o (<<>> \o w)
  BY DEF LosesOne
<1>1. PICK l, m : l = Len(u) /\ m = Len(w)
  OBVIOUS
<1>2. l \in Nat /\ m \in Nat
  BY <1>1
<1>3. PICK y : y = <<e>>
  OBVIOUS
<1>4. y \in Seq(IniItems) /\ Len(y) = 1 /\ y[1] = e
  BY <1>3
<1>5. PICK yw : yw = y \o w
  OBVIOUS
<1>6. /\ yw \in Seq(IniItems) /\ Len(yw) = Len(y) + Len(w)
      /\ \A i \in 1..(Len(y) + Len(w)) : yw[i] = IF i <= Len(y) THEN y[i] ELSE w[i - Len(y)]
  BY ONLY <1>4, <1>5, w \in Seq(IniItems), ConcatFacts
<1>7. Len(yw) = 1 + m /\ yw[1] = e /\ \A i \in 1..m : yw[i + 1] = w[i]
  <2>1. Len(yw) = 1 + m /\ \A i \in 1..(1 + m) : yw[i] = IF i <= 1 THEN y[i] ELSE w[i - 1]
    BY ONLY <1>1, <1>4, <1>6
  <2>2. yw[1] = e
    BY ONLY <1>2, <1>4, <2>1
  <2>3. ASSUME NEW i \in 1..m PROVE i + 1 \in 1..(1 + m) /\ ~(i + 1 <= 1) /\ (i + 1) - 1 = i
    BY ONLY <1>2, i \in 1..m
  <2>. QED  BY ONLY <2>1, <2>2, <2>3
<1>8. /\ Len(a) = Len(u) + Len(yw)
      /\ \A i \in 1..(Len(u) + Len(yw)) : a[i] = IF i <= Len(u) THEN u[i] ELSE yw[i - Len(u)]
  BY ONLY <1>3, <1>5, <1>6, u \in Seq(IniItems), a = u \o (<<e>> \o w), ConcatFacts
<1>9. /\ Len(b) = Len(u) + Len(w)
      /\ \A i \in 1..(Len(u) + Len(w)) : b[i] = IF i <= Len(u) THEN u[i] ELSE w[i - Len(u)]
  <2>1. b = u \o w
    BY EmptyConcat
  <2>. QED  BY ONLY <2>1, u \in Seq(IniItems), w \in Seq(IniItems), ConcatFacts
<1>10. /\ Len(a) = l + 1 + m /\ a[l + 1] = e
       /\ \A i \in 1..l : a[i] = u[i]
       /\ \A i \in 1..m : a[l + 1 + i] = w[i]
  <2>1. Len(a) = l + 1 + m /\ \A i \in 1..(l + 1 + m) : a[i] = IF i <= l THEN u[i] ELSE yw[i - l]
    BY ONLY <1>1, <1>2, <1>7, <1>8
  <2>2. a[l + 1] = e
    <3>1. l + 1 \in 1..(l + 1 + m) /\ ~(l + 1 <= l) /\ (l + 1) - l = 1
      BY ONLY <1>2
    <3>. QED  BY ONLY <1>7, <2>1, <3>1
  <2>3. ASSUME NEW i \in 1..l PROVE a[i] = u[i]
    BY ONLY <1>2, <2>1, i \in 1..l
  <2>4. ASSUME NEW i \in 1..m PROVE a[l + 1 + i] = w[i]
    <3>1. l + 1 + i \in 1..(l + 1 + m) /\ ~(l + 1 + i <= l) /\ (l + 1 + i) - l = i + 1
      BY ONLY <1>2, i \in 1..m
    <3>. QED  BY ONLY <1>7, <2>1, <3>1, i \in 1..m
  <2>. QED  BY <2>1, <2>2, <2>3, <2>4
<1>11. /\ Len(b) = l + m
       /\ \A i \in 1..l : b[i] = u[i]
       /\ \A i \in 1..m : b[l + i] = w[i]
  <2>1. Len(b) = l + m /\ \A i \in 1..(l + m) : b[i] = IF i <= l THEN u[i] ELSE w[i - l]
    BY ONLY <1>1, <1>9
  <2>2. ASSUME NEW i \in 1..l PROVE b[i] = u[i]
    BY ONLY <1>2, <2>1, i \in 1..l
  <2>3. ASSUME NEW i \in 1..m PROVE b[l + i] = w[i]
    <3>1. l + i \in 1..(l + m) /\ ~(l + i <= l) /\ (l + i) - l = i
      BY ONLY <1>2, i \in 1..m
    <3>. QED  BY ONLY <2>1, <3>1
  <2>. QED  BY <2>1, <2>2, <2>3
<1>. DEFINE PA == PlacesOf(a, s, k)
            PB == PlacesOf(b, s, k)
            R == PA \ {l + 1}
            To(i) == IF i <= l THEN i ELSE i + 1
            f == [i \in PB |-> To(i)]
<1>12. ASSUME NEW i \in 1..(l + m) PROVE To(i) \in 1..(l + 1 + m) /\ To(i) # l + 1 /\ a[To(i)] = b[i]
  <2>1. CASE i <= l
    <3>1. i \in 1..l /\ To(i) = i /\ i \in 1..(l + 1 + m) /\ i # l + 1
      BY ONLY <1>2, <2>1, i \in 1..(l + m)
    <3>. QED  BY ONLY <1>10, <1>11, <3>1
  <2>2. CASE ~(i <= l)
    <3>1. PICK j : j = i - l
      OBVIOUS
    <3>2. j \in 1..m /\ i = l + j /\ To(i) = l + 1 + j /\ To(i) \in 1..(l + 1 + m) /\ To(i) # l + 1
      BY ONLY <1>2, <2>2, <3>1, i \in 1..(l + m)
    <3>. QED  BY ONLY <1>10, <1>11, <3>2
  <2>. QED  BY ONLY <2>1, <2>2
<1>13. ASSUME NEW n \in 1..(l + 1 + m), n # l + 1 PROVE \E i \in 1..(l + m) : To(i) = n
  <2>1. CASE n <= l
    <3>1. n \in 1..(l + m) /\ To(n) = n
      BY ONLY <1>2, <2>1, n \in 1..(l + 1 + m)
    <3>. QED  BY ONLY <3>1
  <2>2. CASE ~(n <= l)
    <3>1. n - 1 \in 1..(l + m) /\ To(n - 1) = n
      BY ONLY <1>2, <1>13, <2>2, n \in 1..(l + 1 + m)
    <3>. QED  BY ONLY <3>1
  <2>. QED  BY ONLY <2>1, <2>2
<1>14. \A i, j \in 1..(l + m) : To(i) = To(j) => i = j
  BY ONLY <1>2
<1>. HIDE DEF To
<1>15. PB \subseteq 1..(l + m) /\ \A i \in 1..(l + m) : i \in PB <=> To(i) \in R
  <2>1. \A i \in 1..(l + m) : i \in PB <=> b[i].sec = s /\ b[i].key = k
    BY ONLY <1>11 DEF PlacesOf
  <2>2. \A i \in 1..(l + 1 + m) : i \in PA <=> a[i].sec = s /\ a[i].key = k
    BY ONLY <1>10 DEF PlacesOf
  <2>3. PB \subseteq 1..(l + m)
    BY ONLY <1>11 DEF PlacesOf
  <2>4. \A i \in 1..(l + m) : To(i) \in R <=> a[To(i)].sec = s /\ a[To(i)].key = k
    BY ONLY <1>12, <2>2
  <2>. QED  BY ONLY <1>12, <2>1, <2>3, <2>4
<1>16. f \in Bijection(PB, R)
  <2>1. f \in [PB -> R]
    BY ONLY <1>15
  <2>2. IsInjective(f)
    BY ONLY <1>14, <1>15 DEF IsInjective
  <2>3. ASSUME NEW n \in R PROVE \E i \in PB : f[i] = n
    <3>1. n \in 1..(l + 1 + m) /\ n # l + 1
      BY <1>10 DEF PlacesOf
    <3>2. PICK i \in 1..(l + m) : To(i) = n
      BY ONLY <1>13, <3>1
    <3>. QED  BY ONLY <1>15, <3>2, n \in R
  <2>. QED  BY ONLY <2>1, <2>2, <2>3 DEF Bijection, Injection, Surjection
<1>17. IsFiniteSet(PA) /\ IsFiniteSet(PB)
  <2>1. IsFiniteSet(1..(l + 1 + m)) /\ IsFiniteSet(1..(l + m))
    <3>1. 1 \in Int /\ l + 1 + m \in Int /\ l + m \in Int
      BY ONLY <1>2
    <3>. QED  BY ONLY <3>1, FS_Interval
  <2>2. PA \in SUBSET (1..(l + 1 + m)) /\ PB \in SUBSET (1..(l + m))
    BY ONLY <1>10, <1>11 DEF PlacesOf
  <2>. QED  BY ONLY <2>1, <2>2, FS_Subset
<1>18. Cardinality(R) = Cardinality(PB)
  <2>1. ExistsBijection(PB, R)
    BY ONLY <1>16 DEF ExistsBijection
  <2>. QED  BY ONLY <1>17, <2>1, FS_Bijection
<1>19. Cardinality(R) = Cardinality(PA) - 1
  <2>1. l + 1 \in PA
    <3>1. l + 1 \in 1..Len(a)
      BY ONLY <1>2, <1>10
    <3>. QED  BY ONLY <1>10, <3>1, e.sec = s, e.key = k DEF PlacesOf
  <2>. QED  BY ONLY <1>17, <2>1, FS_RemoveElement
<1>. QED  BY ONLY <1>18, <1>19

IsUnset(ini, new, s, k) ==
  /\ IsIni(ini) /\ s \in SecNames /\ k \in KeyNames /\ EntryAt(ini, s, k) # 0
  /\ new = iniparse_unset(ini, s, k)

(* For every list and name that it has: one entry of that name less is       *)
(* listed, every other name keeps its value, and none is new                 *)
(* (iniparse_unset).                                                         *)
THEOREM UnsetIsListed ==
  ASSUME NEW ini, NEW new, NEW s, NEW k, IsUnset(ini, new, s, k)
  PROVE  /\ IsIni(new) /\ KeepsOthers(iniparse_fprint(ini), iniparse_fprint(new), s, k)
         /\ Cardinality(PlacesOf(iniparse_fprint(new), s, k)) = Cardinality(PlacesOf(iniparse_fprint(ini), s, k)) - 1
<1>. /\ IsIni(ini) /\ s \in SecNames /\ k \in KeyNames /\ EntryAt(ini, s, k) # 0
     /\ new = iniparse_unset(ini, s, k)
  BY DEF IsUnset
<1>1. PICK p, e : p = SecAt(ini, s) /\ e = EntryAt(ini, s, k)
  OBVIOUS
<1>2. PICK entry : entry = [key |-> Deleted, val |-> NoValue]
  OBVIOUS
<1>3. entry \in IniEntries
  BY <1>2 DEF IniEntries
<1>4. new = [ini EXCEPT ![p].entries[e] = entry]
  BY <1>1, <1>2 DEF iniparse_unset
<1>5. PICK a, b : a = iniparse_fprint(ini) /\ b = iniparse_fprint(new)
  OBVIOUS
<1>6. PICK q : q = ini[p]
  OBVIOUS
<1>60. PICK old : old = q.entries[e]
  OBVIOUS
<1>61. p # 0 /\ e # 0 /\ e \in 1..Len(ini[p].entries) /\ ini[p].entries[e].key = k
  BY <1>1, EntryAtFacts
<1>62. p \in 1..Len(ini) /\ ini[p].sec = s
  BY <1>1, <1>61, SecAtFacts
<1>63. q \in IniSections /\ old \in IniEntries
  <2>1. q \in IniSections
    BY <1>6, <1>62 DEF IsIni
  <2>. QED  BY <1>6, <1>60, <1>61, <2>1 DEF IniSections
<1>64. /\ IsIni(new)
       /\ Edited(a, b, s, k, Piece(ini[p], ini[p].entries[e]), Piece(ini[p], entry))
  BY ONLY IsIni(ini), EntryAt(ini, s, k) # 0, <1>1, <1>3, <1>4, <1>5, EntryEdited, ZenonT(40)
<1>7. /\ IsIni(new) /\ q \in IniSections /\ q.sec = s /\ old \in IniEntries /\ old.key = k
      /\ Edited(a, b, s, k, Piece(q, old), Piece(q, entry))
  BY ONLY <1>6, <1>60, <1>61, <1>62, <1>63, <1>64
<1>8. PICK item : item = Item(q, old)
  OBVIOUS
<1>9. k # Deleted
  BY MarkersAreNoNames
<1>10. Piece(q, old) = <<item>> /\ Piece(q, entry) = <<>>
  BY <1>2, <1>7, <1>8, <1>9 DEF Piece
<1>11. item \in IniItems /\ item.sec = s /\ item.key = k
  <2>1. item.sec = s /\ item.key = k
    BY <1>7, <1>8 DEF Item
  <2>. QED  BY <1>7, <1>8, <1>9, <2>1, PieceFacts
<1>12. PICK x : x = <<item>>
  OBVIOUS
<1>13. x \in Seq(IniItems) /\ OnlyOf(x, s, k) /\ <<>> \in Seq(IniItems) /\ OnlyOf(<<>>, s, k)
  BY <1>11, <1>12 DEF OnlyOf
<1>14. Edited(a, b, s, k, x, <<>>)
  BY ONLY <1>7, <1>10, <1>12
<1>15. KeepsOthers(a, b, s, k)
  BY ONLY <1>13, <1>14, OthersStay DEF KeepsOthers
<1>16. PICK u, w \in Seq(IniItems) : a = u \o (x \o w) /\ b = u \o (<<>> \o w)
  BY <1>14 DEF Edited
<1>17. Cardinality(PlacesOf(b, s, k)) = Cardinality(PlacesOf(a, s, k)) - 1
  <2>1. LosesOne(item, s, k, u, w, a, b)
    BY ONLY <1>11, <1>12, <1>16 DEF LosesOne
  <2>. QED  BY ONLY <2>1, OneLess
<1>. QED  BY ONLY <1>5, <1>7, <1>15, <1>17

----------------------------------------------------------------------------
(* A change that is saved and read again *)

LEMMA GetHolds ==
  ASSUME NEW ini, NEW V, IsIni(ini), Holds(ini, V), NEW s, NEW k, EntryAt(ini, s, k) # 0
  PROVE  iniparse_get(ini, s, k) \in V
<1>1. PICK a, e : a = SecAt(ini, s) /\ e = EntryAt(ini, s, k)
  OBVIOUS
<1>2. a # 0 /\ e # 0 /\ e \in 1..Len(ini[a].entries)
  BY <1>1, EntryAtFacts
<1>3. a \in 1..Len(ini)
  BY <1>1, <1>2, SecAtFacts
<1>4. iniparse_get(ini, s, k) = ini[a].entries[e].val
  BY <1>1, <1>2 DEF iniparse_get
<1>. QED  BY <1>2, <1>3, <1>4 DEF Holds

(* The list is, which is new written and read again. *)
IsReadAgain(new, is) ==
  /\ IsIni(new) /\ IsIni(is) /\ Holds(is, Texts)
  /\ iniparse_fprint(is) = TrimAll(iniparse_fprint(new))

(* What is listed first is what is read of the name. *)
LEMMA FirstIsRead ==
  ASSUME NEW new, NEW is, IsReadAgain(new, is), NEW s \in SecNames, NEW k \in KeyNames, NEW v,
         FirstVal(iniparse_fprint(new), s, k, v)
  PROVE  iniparse_get(is, s, k) = Trimmed(v)
<1>1. PICK a, b : a = iniparse_fprint(new) /\ b = iniparse_fprint(is)
  OBVIOUS
<1>2. a \in Seq(IniItems) /\ b \in Seq(IniItems) /\ b = TrimAll(a)
  BY <1>1, ListsFacts DEF IsReadAgain, IsIni
<1>3. FirstVal(b, s, k, Trimmed(v))
  BY ONLY <1>1, <1>2, FirstVal(iniparse_fprint(new), s, k, v), TrimAllKeeps
<1>4. Named(b, s, k) /\ \A t : FirstVal(b, s, k, t) => t = Trimmed(v)
  BY ONLY <1>2, <1>3, FirstValFacts
<1>5. EntryAt(is, s, k) # 0 /\ FirstVal(b, s, k, SavedVal(iniparse_get(is, s, k)))
  BY <1>1, <1>4, GetIsListed DEF IsReadAgain
<1>6. iniparse_get(is, s, k) \in Texts
  BY <1>5, GetHolds DEF IsReadAgain
<1>7. SavedVal(iniparse_get(is, s, k)) = iniparse_get(is, s, k)
  BY <1>6, MarkersAreNoNames DEF SavedVal
<1>. QED  BY <1>4, <1>5, <1>7

(* Every other name has the value it had, and none is new. *)
IsChange(was, new, is, s, k) ==
  /\ IsIni(was) /\ Holds(was, ReadVals) /\ IsReadAgain(new, is)
  /\ KeepsOthers(iniparse_fprint(was), iniparse_fprint(new), s, k)

LEMMA OthersAreRead ==
  ASSUME NEW was, NEW new, NEW is, NEW s, NEW k, IsChange(was, new, is, s, k),
         NEW s2 \in SecNames, NEW k2 \in KeyNames, <<s2, k2>> # <<s, k>>,
         Named(iniparse_fprint(was), s2, k2) \/ Named(iniparse_fprint(is), s2, k2)
  PROVE  /\ Named(iniparse_fprint(was), s2, k2)
         /\ iniparse_get(is, s2, k2) = SavedVal(iniparse_get(was, s2, k2))
<1>1. PICK a, b, c : a = iniparse_fprint(was) /\ b = iniparse_fprint(new) /\ c = iniparse_fprint(is)
  OBVIOUS
<1>2. a \in Seq(IniItems) /\ b \in Seq(IniItems) /\ c = TrimAll(b)
  BY <1>1, ListsFacts DEF IsChange, IsReadAgain, IsIni
<1>3. /\ Named(b, s2, k2) => Named(a, s2, k2)
      /\ \A v : FirstVal(a, s2, k2, v) => FirstVal(b, s2, k2, v)
  BY <1>1 DEF IsChange, KeepsOthers
<1>4. Named(c, s2, k2) <=> Named(b, s2, k2)
  BY <1>2, TrimAllKeeps
<1>5. Named(a, s2, k2)
  BY <1>1, <1>3, <1>4
<1>6. PICK v : v = iniparse_get(was, s2, k2)
  OBVIOUS
<1>7. EntryAt(was, s2, k2) # 0 /\ FirstVal(a, s2, k2, SavedVal(v))
  BY <1>1, <1>5, <1>6, GetIsListed DEF IsChange
<1>8. v \in ReadVals
  BY <1>6, <1>7, GetHolds DEF IsChange
<1>9. Trimmed(SavedVal(v)) = SavedVal(v)
  BY <1>8, TrimmedOnceIsTrimmed DEF SavedVal, ReadVals
<1>10. FirstVal(b, s2, k2, SavedVal(v))
  BY <1>3, <1>7
<1>11. iniparse_get(is, s2, k2) = Trimmed(SavedVal(v))
  BY <1>1, <1>10, FirstIsRead DEF IsChange
<1>. QED  BY <1>1, <1>5, <1>6, <1>9, <1>11

(* Trimming the values takes no entry away. *)
LEMMA AsManyPlaces ==
  ASSUME NEW list \in Seq(IniItems), NEW s, NEW k
  PROVE  PlacesOf(TrimAll(list), s, k) = PlacesOf(list, s, k)
BY TrimAllFacts DEF PlacesOf

----------------------------------------------------------------------------
(* Lists of any names and values *)

LEMMA NamesAreText ==
  /\ SecNames \subseteq Text /\ KeyNames \subseteq Text /\ Texts \subseteq Text
  /\ IniEntries \subseteq AnyEntries /\ IniSections \subseteq AnySections
<1>1. SecNames \subseteq Text /\ KeyNames \subseteq Text /\ Texts \subseteq Text
  BY Zenon DEF SecNames, KeyNames, Texts
<1>2. IniEntries \subseteq AnyEntries
  BY ONLY <1>1 DEF IniEntries, AnyEntries
<1>3. IniSections \subseteq AnySections
  <2>1. SUFFICES ASSUME NEW x \in IniSections PROVE x \in AnySections
    OBVIOUS
  <2>2. x.sec \in SecNames /\ x.entries \in Seq(IniEntries) /\ x = [sec |-> x.sec, entries |-> x.entries]
    BY DEF IniSections
  <2>3. x.entries \in Seq(AnyEntries)
    BY ONLY <1>2, <2>2
  <2>. QED  BY ONLY <1>1, <2>2, <2>3 DEF AnySections
<1>. QED  BY ONLY <1>1, <1>2, <1>3

LEMMA ListsAreAny ==
  ASSUME NEW ini, IsIni(ini)
  PROVE  ini \in Seq(AnySections)
<1>1. ini \in Seq(IniSections)
  BY DEF IsIni
<1>. QED  BY ONLY <1>1, NamesAreText

(* A name that a list has can be read. *)
LEMMA FoundIsReadable ==
  ASSUME NEW ini, IsIni(ini), NEW s, NEW k \in Text, EntryAt(ini, s, k) # 0
  PROVE  s \in SecNames /\ k \in KeyNames
<1>1. PICK a, e : a = SecAt(ini, s) /\ e = EntryAt(ini, s, k)
  OBVIOUS
<1>2. a # 0 /\ e # 0 /\ e \in 1..Len(ini[a].entries) /\ ini[a].entries[e].key = k
  BY <1>1, EntryAtFacts
<1>3. a \in 1..Len(ini) /\ ini[a].sec = s
  BY <1>1, <1>2, SecAtFacts
<1>4. PICK x, y : x = ini[a] /\ y = x.entries[e]
  OBVIOUS
<1>5. x \in IniSections
  BY <1>3, <1>4 DEF IsIni
<1>6. x.sec = s /\ s \in SecNames
  BY <1>3, <1>4, <1>5 DEF IniSections
<1>7. y \in IniEntries /\ y.key = k
  BY <1>2, <1>4, <1>5 DEF IniSections
<1>8. Deleted \notin Text
  BY ONLY NullIsNoText
<1>. QED  BY <1>6, <1>7, <1>8 DEF IniEntries

AnyItems == [sec : Text, key : Text, val : Text]

(* Whatever is in memory, the file is made of lines. *)
LEMMA WriteType ==
  ASSUME NEW ini \in Seq(AnySections)
  PROVE  iniparse_write(ini) \in Seq(Lines)
<1>1. ASSUME NEW x \in AnySections PROVE SectionLines(x) \in Seq(Lines)
  <2>1. PICK es : es = x.entries
    OBVIOUS
  <2>2. x.sec \in Text /\ es \in Seq(AnyEntries) /\ Len(es) \in Nat /\ \A j \in 1..Len(es) : es[j] \in AnyEntries
    BY <2>1 DEF AnySections
  <2>3. PICK ps : ps = [j \in 1..Len(es) |-> IF es[j].key = Deleted THEN <<>> ELSE <<Item(x, es[j])>>]
    OBVIOUS
  <2>4. ASSUME NEW j \in 1..Len(es)
        PROVE  (IF es[j].key = Deleted THEN <<>> ELSE <<Item(x, es[j])>>) \in Seq(AnyItems)
    <3>1. CASE es[j].key = Deleted
      BY <3>1, EmptyFacts
    <3>2. CASE es[j].key # Deleted
      <4>1. NoText \in Text
        BY MarkersAreNoNames, NamesAreText
      <4>2. es[j].key \in Text /\ es[j].val \in {NoValue} \cup Text
        BY <2>2, <3>2 DEF AnyEntries
      <4>3. Item(x, es[j]) \in AnyItems
        BY ONLY <2>2, <4>1, <4>2 DEF Item, AnyItems
      <4>. QED  BY <3>2, <4>3
    <3>. QED  BY <3>1, <3>2
  <2>5. ps \in Seq(Seq(AnyItems))
    BY ONLY <2>2, <2>3, <2>4
  <2>6. PICK its : its = FlattenSeq(ps)
    OBVIOUS
  <2>7. its \in Seq(AnyItems)
    BY ONLY <2>5, <2>6, FlatType
  <2>8. its = Items(x)
    BY <2>1, <2>3, <2>6 DEF Items
  <2>9. PICK ws : ws = [j \in 1..Len(its) |-> WrittenEntry(its[j].key, its[j].val)]
    OBVIOUS
  <2>10. ASSUME NEW j \in 1..Len(its) PROVE WrittenEntry(its[j].key, its[j].val) \in Seq(Lines)
    <3>1. its[j] \in AnyItems
      BY ONLY <2>7, j \in 1..Len(its)
    <3>2. its[j].key \in Text /\ its[j].val \in Text
      BY ONLY <3>1 DEF AnyItems
    <3>. QED  BY ONLY <3>2, WrittenType
  <2>11. ws \in Seq(Seq(Lines))
    <3>1. Len(its) \in Nat
      BY ONLY <2>7
    <3>. QED  BY ONLY <2>9, <2>10, <3>1
  <2>12. FlattenSeq(ws) \in Seq(Lines)
    BY ONLY <2>11, FlatType
  <2>13. WrittenSection(x.sec) \in Seq(Lines)
    BY ONLY <2>2, WrittenType
  <2>14. SectionLines(x) = WrittenSection(x.sec) \o FlattenSeq(ws)
    BY <2>8, <2>9 DEF SectionLines
  <2>. QED  BY ONLY <2>12, <2>13, <2>14, ConcatFacts
<1>2. PICK ls : ls = [i \in 1..Len(ini) |-> SectionLines(ini[i])]
  OBVIOUS
<1>3. ls \in Seq(Seq(Lines))
  <2>1. Len(ini) \in Nat /\ \A i \in 1..Len(ini) : ini[i] \in AnySections
    OBVIOUS
  <2>2. \A i \in 1..Len(ini) : SectionLines(ini[i]) \in Seq(Lines)
    BY ONLY <1>1, <2>1
  <2>. QED  BY ONLY <1>2, <2>1, <2>2
<1>. QED  BY ONLY <1>2, <1>3, FlatType DEF iniparse_write

(* Whatever is changed, there is a list in memory. *)
LEMMA SetType ==
  ASSUME NEW ini \in Seq(AnySections), NEW s \in Text, NEW k \in Text, NEW v \in Text
  PROVE  iniparse_set(ini, s, k, v) \in Seq(AnySections)
<1>1. PICK entry, es, x : /\ entry = [key |-> k, val |-> v] /\ es = <<entry>>
                          /\ x = [sec |-> s, entries |-> es]
  OBVIOUS
<1>2. entry \in AnyEntries
  BY <1>1 DEF AnyEntries
<1>3. x \in AnySections
  <2>1. es \in Seq(AnyEntries)
    BY <1>1, <1>2
  <2>. QED  BY ONLY <1>1, <2>1, s \in Text DEF AnySections
<1>4. CASE EntryAt(ini, s, k) = 0
  <2>1. PICK i : i = SelectInSeq(ini, LAMBDA y : y.sec = s)
    OBVIOUS
  <2>2. iniparse_set(ini, s, k, v) = IF i = 0 THEN Append(ini, x)
                                      ELSE [ini EXCEPT ![i].entries = Append(@, entry)]
    BY <1>1, <1>4, <2>1 DEF iniparse_set, put
  <2>3. Append(ini, x) \in Seq(AnySections)
    BY ONLY <1>3, ini \in Seq(AnySections)
  <2>4. [ini EXCEPT ![i].entries = Append(@, entry)] \in Seq(AnySections)
    <3>1. CASE i \in 1..Len(ini)
      <4>1. PICK o : o = ini[i]
        OBVIOUS
      <4>2. o.sec \in Text /\ o.entries \in Seq(AnyEntries) /\ o = [sec |-> o.sec, entries |-> o.entries]
        <5>1. o \in AnySections
          BY ONLY <3>1, <4>1, ini \in Seq(AnySections)
        <5>. QED  BY ONLY <5>1 DEF AnySections
      <4>3. Append(o.entries, entry) \in Seq(AnyEntries)
        BY ONLY <1>2, <4>2
      <4>4. PICK n : n = [o EXCEPT !.entries = Append(@, entry)]
        OBVIOUS
      <4>5. n \in AnySections
        BY ONLY <4>2, <4>3, <4>4 DEF AnySections
      <4>6. [ini EXCEPT ![i].entries = Append(@, entry)] = [ini EXCEPT ![i] = n]
        BY ONLY <4>1, <4>4
      <4>7. [ini EXCEPT ![i] = n] \in Seq(AnySections)
        BY ONLY <3>1, <4>5, ini \in Seq(AnySections)
      <4>. QED  BY ONLY <4>6, <4>7, Zenon
    <3>2. CASE i \notin 1..Len(ini)
      <4>1. [ini EXCEPT ![i].entries = Append(@, entry)] = ini
        BY ONLY <3>2, ini \in Seq(AnySections)
      <4>. QED  BY ONLY <4>1, ini \in Seq(AnySections)
    <3>. QED  BY <3>1, <3>2
  <2>. QED  BY ONLY <2>2, <2>3, <2>4
<1>5. CASE EntryAt(ini, s, k) # 0
  <2>1. PICK i, e : i = SecAt(ini, s) /\ e = EntryAt(ini, s, k)
    OBVIOUS
  <2>2. iniparse_set(ini, s, k, v) = [ini EXCEPT ![i].entries[e].val = v]
    BY <1>5, <2>1 DEF iniparse_set
  <2>3. CASE i \in 1..Len(ini)
    <3>1. PICK o : o = ini[i]
      OBVIOUS
    <3>2. o.sec \in Text /\ o.entries \in Seq(AnyEntries) /\ o = [sec |-> o.sec, entries |-> o.entries]
      <4>1. o \in AnySections
        BY ONLY <2>3, <3>1, ini \in Seq(AnySections)
      <4>. QED  BY ONLY <4>1 DEF AnySections
    <3>3. PICK fs : fs = [o.entries EXCEPT ![e].val = v]
      OBVIOUS
    <3>4. fs \in Seq(AnyEntries)
      <4>1. PICK os : os = o.entries
        OBVIOUS
      <4>2. os \in Seq(AnyEntries)
        BY ONLY <3>2, <4>1
      <4>3. CASE e \in 1..Len(os)
        <5>1. PICK old, new : old = os[e] /\ new = [old EXCEPT !.val = v]
          OBVIOUS
        <5>2. old \in AnyEntries
          BY ONLY <4>2, <4>3, <5>1
        <5>3. new \in AnyEntries
          BY ONLY <5>1, <5>2, v \in Text DEF AnyEntries
        <5>4. fs = [os EXCEPT ![e] = new]
          BY ONLY <3>3, <4>1, <5>1
        <5>. QED  BY ONLY <4>2, <4>3, <5>3, <5>4
      <4>4. CASE e \notin 1..Len(os)
        <5>1. fs = os
          BY ONLY <3>3, <4>1, <4>2, <4>4
        <5>. QED  BY ONLY <4>2, <5>1
      <4>. QED  BY <4>3, <4>4
    <3>5. PICK n : n = [o EXCEPT !.entries = fs]
      OBVIOUS
    <3>6. n \in AnySections
      BY ONLY <3>2, <3>4, <3>5 DEF AnySections
    <3>7. [ini EXCEPT ![i].entries[e].val = v] = [ini EXCEPT ![i] = n]
      BY ONLY <3>1, <3>3, <3>5
    <3>8. [ini EXCEPT ![i] = n] \in Seq(AnySections)
      BY ONLY <2>3, <3>6, ini \in Seq(AnySections)
    <3>. QED  BY ONLY <2>2, <3>7, <3>8, Zenon
  <2>4. CASE i \notin 1..Len(ini)
    <3>1. [ini EXCEPT ![i].entries[e].val = v] = ini
      BY ONLY <2>4, ini \in Seq(AnySections)
    <3>. QED  BY ONLY <2>2, <3>1, ini \in Seq(AnySections)
  <2>. QED  BY <2>3, <2>4
<1>. QED  BY <1>4, <1>5
=============================================================================
