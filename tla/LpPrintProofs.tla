---------------------------- MODULE LpPrintProofs ---------------------------
(***************************************************************************)
(* Proofs about lp_Print: what it prints, for every list of items, every   *)
(* integer and every length of the buffer.                                 *)
(***************************************************************************)
EXTENDS LpPrint, SequenceTheorems, NaturalsInduction, WellFoundedInduction, TLAPS

-----------------------------------------------------------------------------
(* Recursive functions                                                     *)

\* What holds at 0 and is handed on holds up to n.
LEMMA UpTo ==
  ASSUME NEW n \in Nat, NEW P, 0 \in P, \A i \in 0 .. n - 1 : i \in P => i + 1 \in P
  PROVE  \A i \in 0 .. n : i \in P
<1> SUFFICES ASSUME NEW x \in 0 .. n, x \notin P PROVE FALSE
  OBVIOUS
<1> DEFINE Bad == {i \in 0 .. n : i \notin P}
<1>1. Bad \in SUBSET Nat /\ Bad # {}
  OBVIOUS
<1>2. PICK d \in Bad : \A i \in Bad : ~ (<<i, d>> \in OpToRel(<, Nat))
  BY <1>1, NatLessThanWellFounded, WFMin
<1>3. \A i \in Bad : ~ (i < d)
  BY <1>1, <1>2 DEF OpToRel
<1>4. d # 0 /\ d \in 0 .. n /\ d \notin P
  OBVIOUS
<1>5. d - 1 \in 0 .. n - 1 /\ d - 1 + 1 = d /\ d - 1 < d /\ d - 1 \in 0 .. n
  BY <1>4
<1>6. d - 1 \in P
  BY <1>3, <1>5
<1> QED BY <1>4, <1>5, <1>6

\* h goes from w by steps F.
Steps(h, F, w, n) == h[0] = w /\ \A k \in 1 .. n : h[k] = F[<<h[k - 1], k>>]

\* There is such a function.
LEMMA StepsExist ==
  ASSUME NEW n \in Nat, NEW W, NEW w \in W, NEW F \in [W \X (1 .. n) -> W]
  PROVE  \E h \in [0 .. n -> W] : Steps(h, F, w, n)
<1> DEFINE P == {k \in 0 .. n : \E h \in [0 .. k -> W] : Steps(h, F, w, k)}
<1>1. 0 \in P
  <2> DEFINE h == [i \in 0 .. 0 |-> w]
  <2>1. h \in [0 .. 0 -> W] /\ Steps(h, F, w, 0)
    BY DEF Steps
  <2> QED BY <2>1
<1>2. ASSUME NEW k \in 0 .. n - 1, k \in P PROVE k + 1 \in P
  <2>1. PICK h \in [0 .. k -> W] : Steps(h, F, w, k)
    BY <1>2
  <2> DEFINE g == [i \in 0 .. k + 1 |-> IF i = k + 1 THEN F[<<h[k], k + 1>>] ELSE h[i]]
  <2>2. h[k] \in W /\ k + 1 \in 1 .. n /\ k + 1 \in 0 .. n
    OBVIOUS
  <2>3. F[<<h[k], k + 1>>] \in W
    BY <2>2
  <2>4. g \in [0 .. k + 1 -> W]
    BY <2>3
  <2>5. g[0] = w
    BY <2>1 DEF Steps
  <2>6. \A i \in 1 .. k + 1 : g[i] = F[<<g[i - 1], i>>]
    <3> TAKE i \in 1 .. k + 1
    <3>1. CASE i = k + 1
      <4>1. i - 1 = k /\ k \in 0 .. k + 1 /\ k # k + 1
        BY <3>1
      <4>2. g[i] = F[<<h[k], k + 1>>] /\ g[k] = h[k]
        BY <3>1, <4>1
      <4> QED BY <3>1, <4>1, <4>2
    <3>2. CASE i # k + 1
      <4>1. i \in 1 .. k /\ g[i] = h[i] /\ g[i - 1] = h[i - 1]
        BY <3>2
      <4> QED BY <4>1, <2>1 DEF Steps
    <3> QED BY <3>1, <3>2
  <2> HIDE DEF g
  <2>7. Steps(g, F, w, k + 1)
    BY <2>5, <2>6 DEF Steps
  <2> QED BY <2>2, <2>4, <2>7
<1> HIDE DEF P
<1>3. n \in P
  BY <1>1, <1>2, UpTo
<1> QED BY <1>3 DEF P

-----------------------------------------------------------------------------
(* Powers, widths, lists of sequences                                      *)

Multiplies(h, b, n) == h[0] = 1 /\ \A k \in 1 .. n : h[k] = b * h[k - 1]

\* The last of n multiplications is the power.
LEMMA PowerSteps ==
  ASSUME NEW b \in Nat, NEW n \in Nat, NEW h, Multiplies(h, b, n)
  PROVE  Power(b, n) = h[n]
<1> DEFINE Is(g) == g = [k \in 0 .. n |-> IF k = 0 THEN 1 ELSE b * g[k - 1]]
<1> DEFINE r == [k \in 0 .. n |-> h[k]]
<1>1. Is(r)
  <2>1. \A k \in 0 .. n : r[k] = IF k = 0 THEN 1 ELSE b * r[k - 1]
    <3> TAKE k \in 0 .. n
    <3>1. CASE k = 0
      BY <3>1 DEF Multiplies
    <3>2. CASE k # 0
      <4>1. k \in 1 .. n /\ k - 1 \in 0 .. n
        BY <3>2
      <4> QED BY <3>2, <4>1 DEF Multiplies
    <3> QED BY <3>1, <3>2 DEF Multiplies
  <2> QED BY <2>1
<1> DEFINE p == CHOOSE g : Is(g)
<1>2. Is(p)
  BY <1>1, Zenon
<1>3. Power(b, n) = p[n]
  BY DEF Power
<1> HIDE DEF p, r
<1>4. p[0] = 1 /\ \A k \in 1 .. n : p[k] = b * p[k - 1]
  <2>1. \A k \in 0 .. n : p[k] = IF k = 0 THEN 1 ELSE b * p[k - 1]
    BY <1>2
  <2> QED BY <2>1
<1> DEFINE P == {k \in 0 .. n : p[k] = h[k]}
<1>5. 0 \in P
  BY <1>4 DEF Multiplies
<1>6. ASSUME NEW k \in 0 .. n - 1, k \in P PROVE k + 1 \in P
  <2>1. k + 1 \in 1 .. n /\ k + 1 - 1 = k
    OBVIOUS
  <2> QED BY <1>4, <1>6, <2>1 DEF Multiplies
<1> HIDE DEF P
<1>7. n \in P
  BY <1>5, <1>6, UpTo
<1> QED BY <1>3, <1>7 DEF P

\* Powers are positive; the next one is b times as large.
LEMMA PowerFacts ==
  ASSUME NEW b \in Nat \ {0}, NEW n \in Nat
  PROVE  /\ Power(b, 0) = 1
         /\ Power(b, n) \in Nat \ {0}
         /\ Power(b, n + 1) = b * Power(b, n)
<1> DEFINE F == [p \in (Nat \ {0}) \X (1 .. n + 1) |-> b * p[1]]
<1>1. F \in [(Nat \ {0}) \X (1 .. n + 1) -> Nat \ {0}]
  OBVIOUS
<1>2. PICK h \in [0 .. n + 1 -> Nat \ {0}] : Steps(h, F, 1, n + 1)
  <2> HIDE DEF F
  <2>1. 1 \in Nat \ {0} /\ n + 1 \in Nat
    OBVIOUS
  <2> DEFINE W == Nat \ {0}
  <2>2. 1 \in W /\ F \in [W \X (1 .. n + 1) -> W]
    BY <1>1, <2>1
  <2> HIDE DEF W
  <2>3. \E h \in [0 .. n + 1 -> W] : Steps(h, F, 1, n + 1)
    BY <2>1, <2>2, StepsExist
  <2> QED BY <2>3 DEF W
<1>3. h[0] = 1 /\ \A k \in 1 .. n + 1 : h[k] = b * h[k - 1]
  <2>1. \A k \in 1 .. n + 1 : k - 1 \in 0 .. n + 1 /\ h[k - 1] \in Nat \ {0}
    OBVIOUS
  <2>2. \A k \in 1 .. n + 1 : F[<<h[k - 1], k>>] = b * h[k - 1]
    BY <2>1
  <2> HIDE DEF F
  <2> QED BY <1>2, <2>2 DEF Steps
<1>4. Power(b, 0) = h[0] /\ Power(b, n) = h[n] /\ Power(b, n + 1) = h[n + 1]
  <2>0. Multiplies(h, b, 0) /\ Multiplies(h, b, n) /\ Multiplies(h, b, n + 1)
    BY <1>3 DEF Multiplies
  <2>1. Power(b, 0) = h[0]
    BY <2>0, PowerSteps
  <2>2. Power(b, n) = h[n]
    BY <2>0, PowerSteps
  <2>3. Power(b, n + 1) = h[n + 1]
    BY <2>0, PowerSteps
  <2> QED BY <2>1, <2>2, <2>3
<1>5. n + 1 \in 1 .. n + 1 /\ n + 1 - 1 = n /\ n \in 0 .. n + 1
  OBVIOUS
<1> QED BY <1>3, <1>4, <1>5

\* Powers grow,
LEMMA PowerGrows ==
  ASSUME NEW b \in Nat \ {0}, NEW m \in Nat, NEW n \in Nat, m <= n
  PROVE  Power(b, m) <= Power(b, n)
<1> DEFINE P == {k \in 0 .. n - m : Power(b, m) <= Power(b, m + k)}
<1>1. 0 \in P
  BY PowerFacts
<1>2. ASSUME NEW k \in 0 .. n - m - 1, k \in P PROVE k + 1 \in P
  <2>1. m + k \in Nat
    OBVIOUS
  <2>2. Power(b, m + k + 1) = b * Power(b, m + k) /\ Power(b, m + k) \in Nat \ {0}
    BY <2>1, PowerFacts
  <2>3. b * Power(b, m + k) >= Power(b, m + k)
    BY <2>2
  <2>4. Power(b, m) \in Nat
    BY PowerFacts
  <2> QED BY <1>2, <2>2, <2>3, <2>4
<1> HIDE DEF P
<1>3. n - m \in P
  BY <1>1, <1>2, UpTo
<1> QED BY <1>3 DEF P

\* with the exponent and with the base.
LEMMA PowerOfBases ==
  ASSUME NEW b \in Nat \ {0, 1}, NEW n \in Nat
  PROVE  Power(2, n) <= Power(b, n)
<1> DEFINE P == {k \in 0 .. n : Power(2, k) <= Power(b, k)}
<1>1. 0 \in P
  BY PowerFacts
<1>2. ASSUME NEW k \in 0 .. n - 1, k \in P PROVE k + 1 \in P
  <2>1. /\ Power(b, k + 1) = b * Power(b, k) /\ Power(b, k) \in Nat
        /\ Power(2, k + 1) = 2 * Power(2, k) /\ Power(2, k) \in Nat
    <3>1. k \in Nat /\ b \in Nat \ {0} /\ 2 \in Nat \ {0}
      OBVIOUS
    <3>2. Power(b, k + 1) = b * Power(b, k) /\ Power(b, k) \in Nat
      BY <3>1, PowerFacts
    <3>3. Power(2, k + 1) = 2 * Power(2, k) /\ Power(2, k) \in Nat
      BY <3>1, PowerFacts
    <3> QED BY <3>2, <3>3
  <2>2. b * Power(b, k) >= 2 * Power(b, k)
    BY <2>1
  <2> QED BY <1>2, <2>1, <2>2
<1> HIDE DEF P
<1>3. n \in P
  BY <1>1, <1>2, UpTo
<1> QED BY <1>3 DEF P

\* A width is a number.
LEMMA ValueFacts ==
  ASSUME NEW d \in Seq(Digit)
  PROVE  Value(d) \in Nat /\ Value(<<>>) = 0
<1>1. ASSUME NEW e \in Seq(Digit)
      PROVE  Value(e) \in Nat /\ (Len(e) = 0 => Value(e) = 0)
  <2> DEFINE n == Len(e)
  <2> DEFINE Is(g) == g = [k \in 0 .. n |-> IF k = 0 THEN 0 ELSE 10 * g[k - 1] + Ctod(e[k])]
  <2> DEFINE F == [p \in Nat \X (1 .. n) |-> 10 * p[1] + Ctod(e[p[2]])]
  <2>1. n \in Nat
    OBVIOUS
  <2>2. \A k \in 1 .. n : Ctod(e[k]) \in Nat
    <3> TAKE k \in 1 .. n
    <3>1. e[k] \in Digit
      OBVIOUS
    <3>2. \E i \in 1 .. 10 : DIGITS[i] = e[k]
      BY <3>1 DEF Digit
    <3> DEFINE j == CHOOSE i \in 1 .. 10 : DIGITS[i] = e[k]
    <3>3. j \in 1 .. 10
      BY <3>2
    <3>4. Ctod(e[k]) = j - 1
      BY DEF Ctod
    <3> HIDE DEF j
    <3> QED BY <3>3, <3>4
  <2>3. F \in [Nat \X (1 .. n) -> Nat] /\ \A x \in Nat, k \in 1 .. n : F[<<x, k>>] = 10 * x + Ctod(e[k])
    BY <2>2
  <2> HIDE DEF F, n
  <2>4. PICK h \in [0 .. n -> Nat] : Steps(h, F, 0, n)
    <3>1. 0 \in Nat
      OBVIOUS
    <3> QED BY <2>1, <2>3, <3>1, StepsExist
  <2>5. Is(h)
    <3>1. \A k \in 0 .. n : h[k] = IF k = 0 THEN 0 ELSE 10 * h[k - 1] + Ctod(e[k])
      <4> TAKE k \in 0 .. n
      <4>1. CASE k = 0
        BY <2>4, <4>1 DEF Steps
      <4>2. CASE k # 0
        <5>1. k \in 1 .. n /\ h[k - 1] \in Nat
          BY <2>1, <4>2
        <5>2. h[k] = F[<<h[k - 1], k>>]
          BY <2>4, <5>1 DEF Steps
        <5> QED BY <2>3, <4>2, <5>1, <5>2
      <4> QED BY <4>1, <4>2
    <3> QED BY <3>1
  <2> DEFINE v == CHOOSE g : Is(g)
  <2>6. Is(v)
    BY <2>5, Zenon
  <2>7. Value(e) = v[n]
    BY DEF Value, n
  <2> HIDE DEF v
  <2>8. v[0] = 0 /\ \A k \in 1 .. n : v[k] = 10 * v[k - 1] + Ctod(e[k])
    <3>1. \A k \in 0 .. n : v[k] = IF k = 0 THEN 0 ELSE 10 * v[k - 1] + Ctod(e[k])
      BY <2>6
    <3> QED BY <2>1, <3>1
  <2> DEFINE P == {k \in 0 .. n : v[k] \in Nat}
  <2>9. 0 \in P
    BY <2>1, <2>8
  <2>10. ASSUME NEW k \in 0 .. n - 1, k \in P PROVE k + 1 \in P
    <3>1. k + 1 \in 1 .. n /\ k + 1 - 1 = k /\ k + 1 \in 0 .. n
      BY <2>1
    <3>2. v[k] \in Nat /\ Ctod(e[k + 1]) \in Nat /\ v[k + 1] = 10 * v[k] + Ctod(e[k + 1])
      BY <2>2, <2>8, <2>10, <3>1 DEF n
    <3> QED BY <3>1, <3>2
  <2> HIDE DEF P
  <2>11. \A k \in 0 .. n : k \in P
    BY <2>1, <2>9, <2>10, UpTo
  <2>12. v[n] \in Nat
    BY <2>1, <2>11 DEF P
  <2> QED BY <2>7, <2>8, <2>12 DEF n
<1>2. <<>> \in Seq(Digit) /\ Len(<<>>) = 0
  OBVIOUS
<1> QED BY <1>1, <1>2

\* Concatenation as an operator that the provers leave alone.
Cat(x, y) == x \o y

\* Concatenation is associative.
LEMMA CatAssociative ==
  ASSUME NEW S, NEW x \in Seq(S), NEW y \in Seq(S), NEW z \in Seq(S)
  PROVE  Cat(Cat(x, y), z) = Cat(x, Cat(y, z))
BY DEF Cat

\* h puts one sequence of ss after the other.
Joins(h, ss) == h[0] = <<>> /\ \A k \in 1 .. Len(ss) : h[k] = h[k - 1] \o ss[k]

\* FlattenSeq does.
LEMMA FlattenJoins ==
  ASSUME NEW S, NEW ss \in Seq(Seq(S))
  PROVE  \E h \in [0 .. Len(ss) -> Seq(S)] : Joins(h, ss) /\ FlattenSeq(ss) = h[Len(ss)]
<1> DEFINE n == Len(ss)
<1> DEFINE W == Seq(S)
<1> DEFINE F == [p \in W \X (1 .. n) |-> p[1] \o ss[p[2]]]
<1>1. n \in Nat /\ <<>> \in W /\ \A k \in 1 .. n : ss[k] \in W
  OBVIOUS
<1>2. F \in [W \X (1 .. n) -> W] /\ \A x \in W, k \in 1 .. n : F[<<x, k>>] = x \o ss[k]
  <2>1. \A x \in W, y \in W : x \o y \in W
    OBVIOUS
  <2> HIDE DEF W
  <2> QED BY <1>1, <2>1
<1> HIDE DEF F, W, n
<1>3. PICK h \in [0 .. n -> W] : Steps(h, F, <<>>, n)
  BY <1>1, <1>2, StepsExist
<1>4. h[0] = <<>> /\ \A k \in 1 .. n : h[k] = h[k - 1] \o ss[k]
  <2>1. \A k \in 1 .. n : h[k - 1] \in W /\ h[k] = F[<<h[k - 1], k>>]
    BY <1>1, <1>3 DEF Steps
  <2> QED BY <1>2, <1>3, <2>1 DEF Steps
<1>a. ASSUME NEW k \in 0 .. n - 1 PROVE h[k + 1] = h[k] \o ss[k + 1]
  <2>1. PICK j \in 1 .. n : j = k + 1 /\ k = j - 1
    BY <1>1
  <2>2. h[j] = h[j - 1] \o ss[j]
    BY <1>4
  <2> QED BY <2>1, <2>2
<1>b. n # 0 => h[1] = ss[1]
  <2> SUFFICES ASSUME n # 0 PROVE h[1] = ss[1]
    OBVIOUS
  <2>1. 0 \in 0 .. n - 1 /\ 0 + 1 = 1 /\ 1 \in 1 .. n
    BY <1>1
  <2>2. h[0 + 1] = h[0] \o ss[0 + 1]
    BY <1>a, <2>1
  <2>3. ss[1] \in Seq(S)
    BY <1>1, <2>1 DEF W
  <2>4. <<>> \o ss[1] = ss[1]
    BY <2>3
  <2> QED BY <1>4, <2>1, <2>2, <2>4
<1>5. CASE n = 0
  <2>1. FlattenSeq(ss) = ss /\ ss = <<>>
    BY <1>5 DEF FlattenSeq, n
  <2> QED BY <1>3, <1>4, <1>5, <2>1 DEF Joins, n, W
<1>6. CASE n # 0
  <2> DEFINE Is(g) == g = [i \in 1 .. n |-> IF i = 1 THEN ss[i] ELSE g[i - 1] \o ss[i]]
  <2> DEFINE r == [i \in 1 .. n |-> h[i]]
  <2>1. Is(r)
    <3>1. \A i \in 1 .. n : r[i] = IF i = 1 THEN ss[i] ELSE r[i - 1] \o ss[i]
      <4> TAKE i \in 1 .. n
      <4>1. CASE i = 1
        BY <1>6, <1>b, <4>1
      <4>2. CASE i # 1
        <5>1. i - 1 \in 1 .. n /\ i \in 1 .. n
          BY <1>1, <4>2
        <5>2. r[i - 1] = h[i - 1] /\ r[i] = h[i]
          BY <5>1
        <5> QED BY <1>4, <4>2, <5>1, <5>2
      <4> QED BY <4>1, <4>2
    <3> QED BY <3>1
  <2> DEFINE f == CHOOSE g : Is(g)
  <2>2. Is(f)
    BY <2>1, Zenon
  <2>3. FlattenSeq(ss) = f[n]
    BY <1>6 DEF FlattenSeq, n
  <2> HIDE DEF f, r
  <2>4. \A i \in 1 .. n : f[i] = IF i = 1 THEN ss[i] ELSE f[i - 1] \o ss[i]
    BY <2>2
  <2> DEFINE P == {k \in 0 .. n : k = 0 \/ f[k] = h[k]}
  <2>5. 0 \in P
    BY <1>1
  <2>6. ASSUME NEW k \in 0 .. n - 1, k \in P PROVE k + 1 \in P
    <3>1. k + 1 \in 1 .. n /\ k + 1 - 1 = k /\ k + 1 \in 0 .. n
      BY <1>1
    <3>2. CASE k = 0
      <4>1. f[1] = ss[1]
        BY <2>4, <3>1, <3>2
      <4> QED BY <1>6, <1>b, <3>1, <3>2, <4>1
    <3>3. CASE k # 0
      <4>1. k + 1 # 1
        BY <3>3
      <4>2. f[k + 1] = f[k] \o ss[k + 1]
        <5>1. PICK j \in 1 .. n : j = k + 1 /\ k = j - 1 /\ j # 1
          BY <3>1, <4>1
        <5>2. f[j] = f[j - 1] \o ss[j]
          BY <2>4, <5>1
        <5> QED BY <5>1, <5>2
      <4>3. h[k + 1] = h[k] \o ss[k + 1]
        BY <1>a
      <4> QED BY <2>6, <3>1, <3>3, <4>2, <4>3
    <3> QED BY <3>2, <3>3
  <2> HIDE DEF P
  <2>7. \A k \in 0 .. n : k \in P
    BY <1>1, <2>5, <2>6, UpTo
  <2>8. f[n] = h[n]
    BY <1>1, <1>6, <2>7 DEF P
  <2> QED BY <1>3, <1>4, <2>3, <2>8 DEF Joins, n, W
<1> QED BY <1>5, <1>6

\* One more sequence
LEMMA JoinsNext ==
  ASSUME NEW S, NEW ss \in Seq(S), NEW h, Joins(h, ss), NEW k \in 0 .. Len(ss) - 1
  PROVE  h[k + 1] = h[k] \o ss[k + 1]
<1>1. PICK j \in 1 .. Len(ss) : j = k + 1 /\ k = j - 1
  OBVIOUS
<1>2. h[j] = h[j - 1] \o ss[j]
  BY DEF Joins
<1> QED BY <1>1, <1>2

\* Sequences over S make a sequence over S.
LEMMA FlattenType ==
  ASSUME NEW S, NEW ss \in Seq(Seq(S))
  PROVE  FlattenSeq(ss) \in Seq(S)
<1>1. PICK h \in [0 .. Len(ss) -> Seq(S)] : Joins(h, ss) /\ FlattenSeq(ss) = h[Len(ss)]
  BY FlattenJoins
<1>2. Len(ss) \in 0 .. Len(ss)
  OBVIOUS
<1> QED BY <1>1, <1>2

\* One sequence, and none
LEMMA FlattenOne ==
  ASSUME NEW S, NEW x \in Seq(S)
  PROVE  FlattenSeq(<<x>>) = x /\ FlattenSeq(<<>>) = <<>>
<1>1. FlattenSeq(<<>>) = <<>>
  BY DEF FlattenSeq
<1> DEFINE ss == <<x>>
<1>2. ss \in Seq(Seq(S)) /\ Len(ss) = 1 /\ ss[1] = x
  OBVIOUS
<1> HIDE DEF ss
<1>3. PICK h \in [0 .. Len(ss) -> Seq(S)] : Joins(h, ss) /\ FlattenSeq(ss) = h[Len(ss)]
  BY <1>2, FlattenJoins
<1>4. 0 \in 0 .. Len(ss) - 1 /\ 0 + 1 = 1
  BY <1>2
<1>5. h[0 + 1] = h[0] \o ss[0 + 1]
  BY <1>2, <1>3, <1>4, JoinsNext
<1>6. h[1] = <<>> \o x
  BY <1>2, <1>3, <1>4, <1>5 DEF Joins
<1>7. FlattenSeq(ss) = x
  BY <1>2, <1>3, <1>6
<1> QED BY <1>1, <1>7 DEF ss

\* Two lists, one after the other
LEMMA FlattenConcat ==
  ASSUME NEW S, NEW ss \in Seq(Seq(S)), NEW tt \in Seq(Seq(S))
  PROVE  FlattenSeq(ss \o tt) = FlattenSeq(ss) \o FlattenSeq(tt)
<1> DEFINE u == ss \o tt
<1> DEFINE n == Len(ss)
<1> DEFINE m == Len(tt)
<1>1. u \in Seq(Seq(S)) /\ n \in Nat /\ m \in Nat /\ Len(u) = n + m
  OBVIOUS
<1>2. (\A k \in 1 .. n : u[k] = ss[k]) /\ (\A k \in 1 .. m : u[n + k] = tt[k])
  OBVIOUS
<1>3. PICK a \in [0 .. n -> Seq(S)] : Joins(a, ss) /\ FlattenSeq(ss) = a[n]
  BY FlattenJoins
<1>4. PICK b \in [0 .. m -> Seq(S)] : Joins(b, tt) /\ FlattenSeq(tt) = b[m]
  BY FlattenJoins
<1> HIDE DEF u
<1>5. PICK h \in [0 .. Len(u) -> Seq(S)] : Joins(h, u) /\ FlattenSeq(u) = h[Len(u)]
  BY <1>1, FlattenJoins
<1>14. a[n] \in Seq(S) /\ \A k \in 0 .. m : b[k] \in Seq(S)
  <2>1. n \in 0 .. n
    BY <1>1
  <2> QED BY <1>3, <1>4, <2>1
<1> DEFINE P == {k \in 0 .. n : h[k] = a[k]}
<1>6. 0 \in P
  BY <1>1, <1>3, <1>5 DEF Joins
<1>7. ASSUME NEW k \in 0 .. n - 1, k \in P PROVE k + 1 \in P
  <2>1. k \in 0 .. Len(u) - 1 /\ k + 1 \in 1 .. n /\ k + 1 \in 0 .. n
    BY <1>1
  <2>2. h[k + 1] = h[k] \o u[k + 1]
    BY <1>1, <1>5, <2>1, JoinsNext
  <2>3. a[k + 1] = a[k] \o ss[k + 1]
    BY <1>3, JoinsNext
  <2> QED BY <1>2, <1>7, <2>1, <2>2, <2>3
<1> HIDE DEF P
<1>8. \A k \in 0 .. n : k \in P
  BY <1>1, <1>6, <1>7, UpTo
<1>9. h[n] = a[n]
  BY <1>1, <1>8 DEF P
<1> DEFINE Q == {k \in 0 .. m : h[n + k] = a[n] \o b[k]}
<1>10. 0 \in Q
  <2>1. a[n] \in Seq(S) /\ b[0] = <<>>
    BY <1>14, <1>4 DEF Joins
  <2>2. a[n] \o <<>> = a[n] /\ n + 0 = n
    BY <1>1, <2>1
  <2> QED BY <1>1, <1>9, <2>1, <2>2
<1>11. ASSUME NEW k \in 0 .. m - 1, k \in Q PROVE k + 1 \in Q
  <2>1. n + k \in 0 .. Len(u) - 1 /\ k + 1 \in 1 .. m /\ k + 1 \in 0 .. m /\ n + k + 1 = n + (k + 1)
    BY <1>1
  <2>2. h[n + k + 1] = h[n + k] \o u[n + k + 1]
    BY <1>1, <1>5, <2>1, JoinsNext
  <2>3. b[k + 1] = b[k] \o tt[k + 1]
    BY <1>4, JoinsNext
  <2>4. a[n] \in Seq(S) /\ b[k] \in Seq(S) /\ tt[k + 1] \in Seq(S)
    <3>1. k \in 0 .. m
      BY <1>1
    <3>2. tt[k + 1] \in Seq(S)
      BY <2>1, ElementOfSeq
    <3> QED BY <1>14, <3>1, <3>2
  <2> DEFINE x == a[n]
  <2> DEFINE y == b[k]
  <2> DEFINE z == tt[k + 1]
  <2>7. x \in Seq(S) /\ y \in Seq(S) /\ z \in Seq(S)
    BY <2>4
  <2> HIDE DEF x, y, z
  <2>8. Cat(Cat(x, y), z) = Cat(x, Cat(y, z))
    BY <2>7, CatAssociative
  <2>5. (x \o y) \o z = x \o (y \o z)
    BY <2>8 DEF Cat
  <2>6. u[n + k + 1] = tt[k + 1]
    BY <1>2, <2>1
  <2>9. h[n + (k + 1)] = h[n + k] \o tt[k + 1]
    BY <2>1, <2>2, <2>6
  <2>10. h[n + k] = x \o y
    BY <1>11 DEF x, y
  <2>11. h[n + (k + 1)] = x \o (y \o z)
    BY <2>5, <2>9, <2>10 DEF z
  <2>12. b[k + 1] = y \o z
    BY <2>3 DEF y, z
  <2> QED BY <2>1, <2>11, <2>12 DEF x
<1> HIDE DEF Q
<1>12. \A k \in 0 .. m : k \in Q
  BY <1>1, <1>10, <1>11, UpTo
<1>13. h[n + m] = a[n] \o b[m]
  BY <1>1, <1>12 DEF Q
<1> QED BY <1>1, <1>3, <1>4, <1>5, <1>13 DEF u

\* What the first i sequences of ss, and the others, make together
First(ss, i) == FlattenSeq(SubSeq(ss, 1, i))
Rest(ss, i)  == FlattenSeq(SubSeq(ss, i + 1, Len(ss)))

\* The rest begins with all, ends with nothing, and loses one sequence at a time.
LEMMA RestFacts ==
  ASSUME NEW S, NEW ss \in Seq(Seq(S)), NEW i \in 0 .. Len(ss)
  PROVE  /\ Rest(ss, i) \in Seq(S)
         /\ Rest(ss, 0) = FlattenSeq(ss)
         /\ Rest(ss, Len(ss)) = <<>>
         /\ i < Len(ss) => Rest(ss, i) = Cat(ss[i + 1], Rest(ss, i + 1))
<1> DEFINE W == Seq(S)
<1> DEFINE n == Len(ss)
<1>0. ss \in Seq(W) /\ n \in Nat /\ i \in 0 .. n
  OBVIOUS
<1>1. Rest(ss, i) \in Seq(S)
  <2>1. SubSeq(ss, i + 1, n) \in Seq(Seq(S))
    OBVIOUS
  <2> QED BY <2>1, FlattenType DEF Rest
<1>2. Rest(ss, 0) = FlattenSeq(ss)
  <2>1. SubSeq(ss, 0 + 1, n) = ss
    OBVIOUS
  <2> QED BY <2>1 DEF Rest
<1>3. Rest(ss, n) = <<>>
  <2>1. SubSeq(ss, n + 1, n) = <<>>
    BY <1>0, SubSeqEmpty
  <2> QED BY <2>1, FlattenOne DEF Rest
<1>4. ASSUME i < n PROVE Rest(ss, i) = Cat(ss[i + 1], Rest(ss, i + 1))
  <2> DEFINE x == ss[i + 1]
  <2> DEFINE t == SubSeq(ss, i + 1 + 1, n)
  <2>1. i + 1 \in 1 .. n /\ n \in i + 1 .. n
    BY <1>0, <1>4
  <2>2. SubSeq(ss, i + 1, n) = <<x>> \o t
    BY <1>0, <2>1, SubSeqRecursiveFirst
  <2>3. x \in Seq(S) /\ <<x>> \in Seq(Seq(S)) /\ t \in Seq(Seq(S))
    BY <1>0, <2>1
  <2> HIDE DEF x, t
  <2>4. FlattenSeq(<<x>> \o t) = FlattenSeq(<<x>>) \o FlattenSeq(t)
    BY <2>3, FlattenConcat
  <2>5. FlattenSeq(<<x>>) = x
    BY <2>3, FlattenOne
  <2> QED BY <2>2, <2>4, <2>5 DEF Rest, Cat, x, t
<1> QED BY <1>1, <1>2, <1>3, <1>4

\* The first ones begin with nothing, end with all, and gain one at a time.
LEMMA FirstFacts ==
  ASSUME NEW S, NEW ss \in Seq(Seq(S)), NEW i \in 0 .. Len(ss)
  PROVE  /\ First(ss, i) \in Seq(S)
         /\ First(ss, 0) = <<>>
         /\ First(ss, Len(ss)) = FlattenSeq(ss)
         /\ i < Len(ss) => First(ss, i + 1) = Cat(First(ss, i), ss[i + 1])
<1> DEFINE W == Seq(S)
<1> DEFINE n == Len(ss)
<1>0. ss \in Seq(W) /\ n \in Nat /\ i \in 0 .. n
  OBVIOUS
<1>1. First(ss, i) \in Seq(S)
  <2>1. SubSeq(ss, 1, i) \in Seq(Seq(S))
    OBVIOUS
  <2> QED BY <2>1, FlattenType DEF First
<1>2. First(ss, n) = FlattenSeq(ss)
  <2>1. SubSeq(ss, 1, n) = ss
    OBVIOUS
  <2> QED BY <2>1 DEF First
<1>3. First(ss, 0) = <<>>
  <2>1. SubSeq(ss, 1, 0) = <<>>
    BY <1>0, SubSeqEmpty
  <2> QED BY <2>1, FlattenOne DEF First
<1>4. ASSUME i < n PROVE First(ss, i + 1) = Cat(First(ss, i), ss[i + 1])
  <2> DEFINE x == ss[i + 1]
  <2> DEFINE t == SubSeq(ss, 1, i)
  <2>1. i + 1 \in 1 .. n /\ 1 \in 1 .. n /\ i + 1 \in 1 .. n /\ i + 1 - 1 = i
    BY <1>0, <1>4
  <2>2. SubSeq(ss, 1, i + 1) = t \o <<x>>
    <3>1. SubSeq(ss, 1, i + 1) = SubSeq(ss, 1, i + 1 - 1) \o <<ss[i + 1]>>
      BY <1>0, <2>1, SubSeqRecursiveSecond
    <3> QED BY <2>1, <3>1
  <2>3. x \in Seq(S) /\ <<x>> \in Seq(Seq(S)) /\ t \in Seq(Seq(S))
    BY <1>0, <2>1
  <2> HIDE DEF x, t
  <2>4. FlattenSeq(t \o <<x>>) = FlattenSeq(t) \o FlattenSeq(<<x>>)
    BY <2>3, FlattenConcat
  <2>5. FlattenSeq(<<x>>) = x
    BY <2>3, FlattenOne
  <2> QED BY <2>2, <2>4, <2>5 DEF First, Cat, x, t
<1> QED BY <1>1, <1>2, <1>3, <1>4

\* The characters for the console, one list for each character of s
Lines(s) == [i \in DOMAIN s |-> IF s[i] = "\n" THEN <<"\r", "\n">> ELSE <<s[i]>>]

\* myoutput may be called for the parts of a string one after the other.
LEMMA ConsoleFacts ==
  ASSUME NEW s \in Seq(Char), NEW t \in Seq(Char)
  PROVE  /\ Console(s) \in Seq(Char)
         /\ Console(<<>>) = <<>>
         /\ Console(Cat(s, t)) = Cat(Console(s), Console(t))
<1>1. \A r : Console(r) = FlattenSeq(Lines(r))
  BY DEF Console, Lines
<1>2. ASSUME NEW r \in Seq(Char)
      PROVE  /\ Lines(r) \in Seq(Seq(Char)) /\ Len(Lines(r)) = Len(r)
             /\ \A i \in 1 .. Len(r) : Lines(r)[i] = IF r[i] = "\n" THEN <<"\r", "\n">> ELSE <<r[i]>>
  <2>1. "\r" \in Char /\ "\n" \in Char
    BY CharAssumption
  <2>2. DOMAIN r = 1 .. Len(r) /\ Len(r) \in Nat /\ \A i \in 1 .. Len(r) : r[i] \in Char
    OBVIOUS
  <2>3. \A i \in 1 .. Len(r) : (IF r[i] = "\n" THEN <<"\r", "\n">> ELSE <<r[i]>>) \in Seq(Char)
    BY <2>1, <2>2
  <2>4. Lines(r) = [i \in 1 .. Len(r) |-> IF r[i] = "\n" THEN <<"\r", "\n">> ELSE <<r[i]>>]
    BY <2>2 DEF Lines
  <2> QED BY <2>2, <2>3, <2>4
<1>3. Console(s) \in Seq(Char)
  BY <1>1, <1>2, FlattenType
<1>4. Console(<<>>) = <<>>
  <2>1. <<>> \in Seq(Char) /\ Len(<<>>) = 0
    OBVIOUS
  <2>2. Lines(<<>>) \in Seq(Seq(Char)) /\ Len(Lines(<<>>)) = 0
    BY <1>2, <2>1
  <2>3. Lines(<<>>) = <<>>
    BY <2>2
  <2> QED BY <1>1, <2>1, <2>3, FlattenOne
<1>5. Lines(s \o t) = Lines(s) \o Lines(t)
  <2> DEFINE W == Seq(Char)
  <2> DEFINE a == Lines(s \o t)
  <2> DEFINE b == Lines(s) \o Lines(t)
  <2>1. s \o t \in Seq(Char) /\ Len(s \o t) = Len(s) + Len(t) /\ Len(s) \in Nat /\ Len(t) \in Nat
    OBVIOUS
  <2>2. a \in Seq(W) /\ Len(a) = Len(s) + Len(t)
    BY <1>2, <2>1
  <2>3. Lines(s) \in Seq(W) /\ Lines(t) \in Seq(W) /\ Len(Lines(s)) = Len(s) /\ Len(Lines(t)) = Len(t)
    BY <1>2
  <2>4. b \in Seq(W) /\ Len(b) = Len(s) + Len(t)
    <3> DEFINE x == Lines(s)
    <3> DEFINE y == Lines(t)
    <3>1. x \in Seq(W) /\ y \in Seq(W) /\ Len(x) = Len(s) /\ Len(y) = Len(t)
      BY <2>3
    <3> HIDE DEF W, x, y
    <3>2. x \o y \in Seq(W) /\ Len(x \o y) = Len(x) + Len(y)
      BY <3>1, ConcatProperties
    <3> QED BY <3>1, <3>2 DEF x, y
  <2> DEFINE m == Len(s)
  <2> DEFINE n == Len(t)
  <2> DEFINE w == s \o t
  <2> DEFINE L(c) == IF c = "\n" THEN <<"\r", "\n">> ELSE <<c>>
  <2>7. /\ \A i \in 1 .. m + n : a[i] = L(w[i])
        /\ \A i \in 1 .. m : Lines(s)[i] = L(s[i])
        /\ \A i \in 1 .. n : Lines(t)[i] = L(t[i])
    BY <1>2, <2>1
  <2>8. /\ m \in Nat /\ n \in Nat
        /\ \A i \in 1 .. m + n : w[i] = IF i <= m THEN s[i] ELSE t[i - m]
    OBVIOUS
  <2>9. \A i \in 1 .. m + n : b[i] = IF i <= m THEN Lines(s)[i] ELSE Lines(t)[i - m]
    <3> HIDE DEF W
    <3> QED BY <2>3, ConcatProperties
  <2> HIDE DEF a, b, W, m, n, w, L
  <2>5. ASSUME NEW i \in 1 .. m + n PROVE a[i] = b[i]
    <3>1. CASE i <= m
      <4>1. i \in 1 .. m
        BY <2>8, <3>1
      <4> QED BY <2>7, <2>8, <2>9, <3>1, <4>1
    <3>2. CASE ~ (i <= m)
      <4>1. PICK j \in 1 .. n : j = i - m
        BY <2>8, <3>2
      <4> QED BY <2>7, <2>8, <2>9, <3>2, <4>1
    <3> QED BY <3>1, <3>2
  <2>6. a = b
    BY <2>2, <2>4, <2>5, SeqEqual DEF m, n
  <2> QED BY <2>6 DEF a, b
<1>6. Console(s \o t) = Console(s) \o Console(t)
  BY <1>1, <1>2, <1>5, FlattenConcat
<1> QED BY <1>3, <1>4, <1>6 DEF Cat

-----------------------------------------------------------------------------
(* Numbers                                                                 *)

Bases  == {2, 8, 10, 16}
Digits16 == {d \in Seq(Char) : Len(d) = 16}

\* The two strings of digits of PrintNum have sixteen characters.
LEMMA DigitTables ==
  DIGITS \in Digits16 /\ UPPER \in Digits16
<1>1. DIGITS \in Seq(Char) /\ Len(DIGITS) = 16
  <2>1. Len(DIGITS) = 16 /\ DIGITS \in Seq({DIGITS[i] : i \in 1 .. 16})
    BY DEF DIGITS
  <2>2. {DIGITS[i] : i \in 1 .. 16} \subseteq Char
    BY CharAssumption
  <2> QED BY <2>1, <2>2, SeqMonotonic
<1>2. UPPER \in Seq(Char) /\ Len(UPPER) = 16
  <2> DEFINE x == SubSeq(DIGITS, 1, 10)
  <2> DEFINE y == <<"A", "B", "C", "D", "E", "F">>
  <2>1. x \in Seq(Char) /\ Len(x) = 10
    <3>1. ASSUME NEW i \in 1 .. 10 PROVE DIGITS[i] \in Char
      <4>1. i \in 1 .. 16
        OBVIOUS
      <4>2. {DIGITS[i], UPPER[i]} \subseteq Char
        BY <4>1, CharAssumption
      <4> QED BY <4>2
    <3> QED BY <3>1, SubSeqProperties
  <2>2. Len(y) = 6 /\ y \in Seq({y[i] : i \in 1 .. 6})
    OBVIOUS
  <2> HIDE DEF x, y
  <2>3. UPPER = x \o y
    BY DEF UPPER, x, y
  <2>4. y \in Seq({y[i] : i \in 1 .. 6} \cup Char) /\ x \in Seq({y[i] : i \in 1 .. 6} \cup Char)
    BY <2>1, <2>2, SeqMonotonic
  <2> DEFINE T == {y[i] : i \in 1 .. 6} \cup Char
  <2>5. x \in Seq(T) /\ y \in Seq(T)
    BY <2>4
  <2> HIDE DEF T
  <2>6. UPPER \in Seq(T) /\ Len(UPPER) = 16
    <3>1. Len(x \o y) = Len(x) + Len(y) /\ x \o y \in Seq(T)
      BY <2>5, ConcatProperties
    <3> QED BY <2>1, <2>2, <2>3, <3>1
  <2>7. \A i \in 1 .. 16 : UPPER[i] \in Char
    BY CharAssumption
  <2>8. UPPER = [i \in 1 .. 16 |-> UPPER[i]]
    BY <2>6
  <2>9. [i \in 1 .. 16 |-> UPPER[i]] \in Seq(Char)
    BY <2>7
  <2> QED BY <2>6, <2>8, <2>9
<1> QED BY <1>1, <1>2 DEF Digits16

\* Each of them is a character.
LEMMA OneOfDigits ==
  ASSUME NEW digit \in Digits16
  PROVE  \A i \in 1 .. 16 : <<digit[i]>> \in Seq(Char)
<1>1. digit \in Seq(Char) /\ Len(digit) = 16
  BY DEF Digits16
<1>2. \A i \in 1 .. 16 : digit[i] \in Char
  BY <1>1, ElementOfSeq
<1> QED BY <1>2

\* A number, its last digit and what is left
LEMMA Division ==
  ASSUME NEW b \in Bases, NEW a \in Nat
  PROVE  /\ a \div b \in Nat /\ a % b \in 0 .. b - 1 /\ (a % b) + 1 \in 1 .. 16
         /\ a = b * (a \div b) + (a % b)
         /\ a > 0 => a \div b < a
         /\ a < b => a % b = a
BY DEF Bases

\* To divide by a product is to divide twice.
LEMMA DivisionTwice ==
  ASSUME NEW b \in Bases, NEW a \in Nat, NEW p \in Nat \ {0}
  PROVE  a \div (b * p) = (a \div b) \div p
BY DEF Bases

\* f[n] is the digits of n, the last one first, up to k.
Spells(f, base, digit, k) ==
    \A n \in 0 .. k : f[n] = IF n < base THEN <<digit[n + 1]>>
                             ELSE <<digit[(n % base) + 1]>> \o f[n \div base]

\* The loop of PrintNum defines such a function: u \div base is less than u.
LEMMA SpellsExist ==
  ASSUME NEW u \in Nat, NEW base \in Bases, NEW digit \in Digits16
  PROVE  \E f \in [0 .. u -> Seq(Char)] : Spells(f, base, digit, u)
<1> DEFINE W == Seq(Char)
<1> DEFINE P == {k \in 0 .. u : \E f \in [0 .. k -> W] : Spells(f, base, digit, k)}
<1>1. \A i \in 1 .. 16 : <<digit[i]>> \in W
  BY OneOfDigits
<1>2. \A i \in 1 .. 16, x \in W : <<digit[i]>> \o x \in W
  <2> TAKE i \in 1 .. 16, x \in W
  <2> DEFINE y == <<digit[i]>>
  <2>1. y \in Seq(Char) /\ x \in Seq(Char)
    BY <1>1
  <2> HIDE DEF y
  <2>2. y \o x \in Seq(Char)
    BY <2>1, ConcatProperties
  <2> QED BY <2>2 DEF y
<1>3. base \in Nat /\ base > 1 /\ base <= 16
  BY DEF Bases
<1> HIDE DEF W
<1>4. 0 \in P
  <2> DEFINE f == [n \in 0 .. 0 |-> <<digit[1]>>]
  <2>1. f \in [0 .. 0 -> W]
    BY <1>1
  <2>2. Spells(f, base, digit, 0)
    <3>1. \A n \in 0 .. 0 : n = 0 /\ n + 1 = 1 /\ n < base
      BY <1>3
    <3> QED BY <3>1 DEF Spells
  <2> QED BY <2>1, <2>2
<1>5. ASSUME NEW k \in 0 .. u - 1, k \in P PROVE k + 1 \in P
  <2>1. PICK f \in [0 .. k -> W] : Spells(f, base, digit, k)
    BY <1>5
  <2> DEFINE j == k + 1
  <2> DEFINE e == IF j < base THEN <<digit[j + 1]>> ELSE <<digit[(j % base) + 1]>> \o f[j \div base]
  <2> DEFINE g == [n \in 0 .. j |-> IF n = j THEN e ELSE f[n]]
  <2>2. j \in Nat /\ j > 0 /\ j \in 0 .. u /\ \A n \in 0 .. j : n = j \/ n \in 0 .. k
    OBVIOUS
  <2> HIDE DEF j
  <2>3. j \div base \in 0 .. k
    <3>1. j \div base \in Nat /\ j \div base < j
      BY <2>2, Division
    <3> QED BY <3>1 DEF j
  <2>4. e \in W
    <3>1. CASE j < base
      <4>1. j + 1 \in 1 .. 16
        BY <1>3, <2>2, <3>1
      <4> QED BY <1>1, <3>1, <4>1
    <3>2. CASE ~ (j < base)
      <4>1. (j % base) + 1 \in 1 .. 16
        BY <2>2, Division
      <4>2. f[j \div base] \in W
        BY <2>3
      <4> QED BY <1>2, <3>2, <4>1, <4>2
    <3> QED BY <3>1, <3>2
  <2>5. g \in [0 .. j -> W]
    BY <2>2, <2>4
  <2>6. g[j] = e /\ \A n \in 0 .. k : g[n] = f[n]
    <3> HIDE DEF e
    <3>1. \A n \in 0 .. k : n \in 0 .. j /\ n # j
      BY DEF j
    <3> QED BY <2>2, <3>1
  <2>7. Spells(g, base, digit, j)
    <3>1. ASSUME NEW n \in 0 .. j
          PROVE  g[n] = IF n < base THEN <<digit[n + 1]>> ELSE <<digit[(n % base) + 1]>> \o g[n \div base]
      <4> HIDE DEF g
      <4>1. CASE n = j
        BY <2>3, <2>6, <4>1
      <4>2. CASE n # j
        <5>1. n \in 0 .. k
          BY <2>2, <4>2
        <5>2. n \div base \in 0 .. k
          <6>1. n \in Nat /\ (n = 0 => n \div base = 0)
            BY <5>1 DEF Bases
          <6>2. n \div base \in Nat /\ (n > 0 => n \div base < n)
            BY <6>1, Division
          <6> QED BY <5>1, <6>1, <6>2
        <5>3. f[n] = IF n < base THEN <<digit[n + 1]>> ELSE <<digit[(n % base) + 1]>> \o f[n \div base]
          BY <2>1, <5>1 DEF Spells
        <5>4. g[n] = f[n] /\ g[n \div base] = f[n \div base]
          BY <2>6, <5>1, <5>2
        <5> QED BY <5>3, <5>4
      <4> QED BY <4>1, <4>2
    <3> QED BY <3>1 DEF Spells
  <2> HIDE DEF g
  <2>8. \E h \in [0 .. j -> W] : Spells(h, base, digit, j)
    BY <2>5, <2>7
  <2> QED BY <2>2, <2>8 DEF j
<1> HIDE DEF P
<1>6. \A k \in 0 .. u : k \in P
  BY <1>4, <1>5, UpTo
<1> QED BY <1>6 DEF P, W

\* r is the digits of v in this base, the last one first.
LastFirst(r, v, base, digit) ==
    /\ Len(r) \in Nat \ {0}
    /\ Power(base, Len(r)) > v
    /\ Len(r) = 1 \/ Power(base, Len(r) - 1) <= v
    /\ \A j \in 1 .. Len(r) : r[j] = digit[((v \div Power(base, j - 1)) % base) + 1]

\* A number below the base has one digit.
LEMMA OneDigit ==
  ASSUME NEW base \in Bases, NEW digit \in Digits16, NEW v \in Nat, v < base
  PROVE  LastFirst(<<digit[v + 1]>>, v, base, digit)
<1>1. base \in Nat \ {0} /\ 0 \in Nat
  BY DEF Bases
<1>2. Power(base, 0) = 1 /\ Power(base, 0 + 1) = base * Power(base, 0)
  BY <1>1, PowerFacts
<1>3. Power(base, 1) = base
  BY <1>1, <1>2
<1>4. v % base = v /\ v \div 1 = v
  BY Division
<1> DEFINE r == <<digit[v + 1]>>
<1>5. Len(r) = 1 /\ r[1] = digit[v + 1]
  OBVIOUS
<1> HIDE DEF r
<1>6. r[1] = digit[((v \div Power(base, 1 - 1)) % base) + 1]
  <2>1. 1 - 1 = 0
    OBVIOUS
  <2> QED BY <1>2, <1>4, <1>5, <2>1
<1>7. \A j \in 1 .. 1 : j = 1
  OBVIOUS
<1> QED BY <1>3, <1>5, <1>6, <1>7 DEF LastFirst, r

\* The digits of v are its last digit and those of v \div base.
LEMMA OneMoreDigit ==
  ASSUME NEW base \in Bases, NEW digit \in Digits16, NEW v \in Nat, ~ (v < base),
         NEW r \in Seq(Char), LastFirst(r, v \div base, base, digit),
         NEW s, s = <<digit[(v % base) + 1]>> \o r
  PROVE  LastFirst(s, v, base, digit)
<1>1. base \in Nat \ {0} /\ 0 \in Nat
  BY DEF Bases
<1> DEFINE n == Len(r)
<1> DEFINE w == v \div base
<1>2. w \in Nat /\ v % base \in 0 .. base - 1 /\ v = base * w + (v % base)
  BY Division
<1>3. n \in Nat \ {0}
  BY DEF LastFirst
<1>4. /\ Len(s) = n + 1 /\ s[1] = digit[(v % base) + 1]
      /\ \A j \in 1 .. n : s[j + 1] = r[j]
  OBVIOUS
<1>5. LastFirst(r, w, base, digit)
  OBVIOUS
<1>11. ASSUME NEW i \in 1 .. n
      PROVE  r[i] = digit[((w \div Power(base, i - 1)) % base) + 1]
  BY <1>5 DEF LastFirst
<1>12. Power(base, n) > w /\ (n = 1 \/ Power(base, n - 1) <= w)
  BY <1>5 DEF LastFirst
<1> HIDE DEF w, n
<1>6. Power(base, n + 1) > v
  <2>1. Power(base, n + 1) = base * Power(base, n) /\ Power(base, n) \in Nat
    BY <1>1, <1>3, PowerFacts
  <2>2. Power(base, n) >= w + 1
    BY <1>2, <1>12, <2>1
  <2>3. base * Power(base, n) >= base * (w + 1)
    BY <1>2, <2>1, <2>2 DEF Bases
  <2>4. base * (w + 1) > v
    BY <1>2 DEF Bases
  <2> DEFINE x == base * (w + 1)
  <2> DEFINE y == base * Power(base, n)
  <2>5. x \in Nat /\ y \in Nat /\ v \in Nat /\ y >= x /\ x > v
    BY <1>1, <1>2, <2>1, <2>3, <2>4
  <2> HIDE DEF x, y
  <2>6. y > v
    BY <2>5
  <2> QED BY <2>1, <2>6 DEF y
<1>7. Power(base, n) <= v
  <2>1. CASE n = 1
    <3>1. Power(base, 0) = 1 /\ Power(base, 0 + 1) = base * Power(base, 0)
      BY <1>1, PowerFacts
    <3>2. Power(base, 1) = base
      BY <1>1, <3>1
    <3>3. base <= v
      BY <1>1
    <3> QED BY <2>1, <3>2, <3>3
  <2>2. CASE n # 1
    <3>1. n - 1 \in Nat /\ n - 1 + 1 = n
      BY <1>3
    <3>2. Power(base, n - 1 + 1) = base * Power(base, n - 1) /\ Power(base, n - 1) \in Nat
      BY <1>1, <3>1, PowerFacts
    <3>3. Power(base, n - 1) <= w
      BY <1>12, <2>2
    <3>4. base * Power(base, n - 1) <= base * w
      BY <1>2, <3>2, <3>3 DEF Bases
    <3>5. Power(base, n) = base * Power(base, n - 1)
      BY <3>1, <3>2
    <3>6. base * Power(base, n - 1) <= v
      BY <1>2, <3>2, <3>4 DEF Bases
    <3> QED BY <3>5, <3>6
  <2> QED BY <2>1, <2>2
<1>8. ASSUME NEW j \in 1 .. n + 1
      PROVE  s[j] = digit[((v \div Power(base, j - 1)) % base) + 1]
  <2>1. CASE j = 1
    <3>1. Power(base, 0) = 1 /\ v \div 1 = v /\ j - 1 = 0
      BY <1>1, <2>1, PowerFacts
    <3> QED BY <1>4, <2>1, <3>1
  <2>2. CASE j # 1
    <3>1. PICK i \in 1 .. n : j = i + 1 /\ j - 1 = i
      BY <1>3, <2>2
    <3>2. i - 1 \in Nat /\ i - 1 + 1 = i
      BY <3>1
    <3>3. Power(base, i - 1 + 1) = base * Power(base, i - 1) /\ Power(base, i - 1) \in Nat \ {0}
      BY <1>1, <3>2, PowerFacts
    <3>4. v \div (base * Power(base, i - 1)) = (v \div base) \div Power(base, i - 1)
      BY <3>3, DivisionTwice
    <3>5. v \div Power(base, j - 1) = w \div Power(base, i - 1)
      BY <3>1, <3>2, <3>3, <3>4 DEF w
    <3>6. s[j] = r[i] /\ r[i] = digit[((w \div Power(base, i - 1)) % base) + 1]
      BY <1>4, <1>11, <3>1
    <3> QED BY <3>5, <3>6
  <2> QED BY <2>1, <2>2
<1>9. n + 1 \in Nat \ {0} /\ n + 1 - 1 = n
  BY <1>3
<1>10. Len(s) = n + 1
  BY <1>4
<1>13. Len(s) \in Nat \ {0} /\ Power(base, Len(s)) > v /\ Power(base, Len(s) - 1) <= v
  <2>1. Power(base, Len(s)) = Power(base, n + 1)
    BY <1>10
  <2>2. Power(base, Len(s) - 1) = Power(base, n)
    <3>1. Len(s) - 1 = n
      BY <1>3, <1>10
    <3> QED BY <3>1
  <2>3. Len(s) \in Nat \ {0}
    BY <1>9, <1>10
  <2> QED BY <1>6, <1>7, <2>1, <2>2, <2>3
<1>14. \A j \in 1 .. Len(s) : s[j] = digit[((v \div Power(base, j - 1)) % base) + 1]
  BY <1>8, <1>10
<1> QED BY <1>13, <1>14 DEF LastFirst

\* Every value of such a function is the digits of its argument.
LEMMA DigitsOf ==
  ASSUME NEW u \in Nat, NEW base \in Bases, NEW digit \in Digits16,
         NEW f \in [0 .. u -> Seq(Char)], Spells(f, base, digit, u)
  PROVE  LastFirst(f[u], u, base, digit)
<1> DEFINE P == {k \in 0 .. u : \A v \in 0 .. k : LastFirst(f[v], v, base, digit)}
<1>0. base \in Nat /\ base > 1
  BY DEF Bases
<1>1. ASSUME NEW k \in 0 .. u, \A v \in 0 .. k - 1 : LastFirst(f[v], v, base, digit)
      PROVE  LastFirst(f[k], k, base, digit)
  <2>1. f[k] = IF k < base THEN <<digit[k + 1]>> ELSE <<digit[(k % base) + 1]>> \o f[k \div base]
    BY DEF Spells
  <2>2. CASE k < base
    <3>1. k \in Nat
      OBVIOUS
    <3> QED BY <2>1, <2>2, <3>1, OneDigit
  <2>3. CASE ~ (k < base)
    <3>1. k \in Nat /\ k > 0
      BY <1>0, <2>3
    <3>2. k \div base \in Nat /\ k \div base < k
      BY <3>1, Division
    <3>3. k \div base \in 0 .. k - 1 /\ k \div base \in 0 .. u
      BY <3>1, <3>2
    <3>4. LastFirst(f[k \div base], k \div base, base, digit) /\ f[k \div base] \in Seq(Char)
      BY <1>1, <3>3
    <3> QED BY <2>1, <2>3, <3>1, <3>4, OneMoreDigit
  <2> QED BY <2>2, <2>3
<1>2. 0 \in P
  <2>1. LastFirst(f[0], 0, base, digit)
    <3>1. 0 \in 0 .. u /\ \A v \in 0 .. 0 - 1 : FALSE
      OBVIOUS
    <3> QED BY <1>1, <3>1
  <2> QED BY <2>1
<1>3. ASSUME NEW k \in 0 .. u - 1, k \in P PROVE k + 1 \in P
  <2>1. k + 1 \in 0 .. u /\ k + 1 - 1 = k /\ \A v \in 0 .. k + 1 : v = k + 1 \/ v \in 0 .. k
    OBVIOUS
  <2>2. LastFirst(f[k + 1], k + 1, base, digit)
    BY <1>1, <1>3, <2>1
  <2> QED BY <1>3, <2>1, <2>2
<1> HIDE DEF P
<1>4. \A k \in 0 .. u : k \in P
  BY <1>2, <1>3, UpTo
<1>5. u \in 0 .. u /\ u \in P
  BY <1>4
<1>6. \A v \in 0 .. u : LastFirst(f[v], v, base, digit)
  BY <1>5 DEF P
<1> QED BY <1>5, <1>6

\* So is what Reversed, the loop of PrintNum, computes.
LEMMA ReversedFacts ==
  ASSUME NEW u \in Nat, NEW base \in Bases, NEW digit \in Digits16
  PROVE  /\ Reversed(u, base, digit) \in Seq(Char)
         /\ LastFirst(Reversed(u, base, digit), u, base, digit)
<1> DEFINE Is(g) == g = [n \in 0 .. u |-> IF n < base THEN <<digit[n + 1]>>
                                         ELSE <<digit[(n % base) + 1]>> \o g[n \div base]]
<1>1. PICK h \in [0 .. u -> Seq(Char)] : Spells(h, base, digit, u)
  BY SpellsExist
<1>2. Is(h)
  <2>1. \A n \in 0 .. u : h[n] = IF n < base THEN <<digit[n + 1]>>
                                 ELSE <<digit[(n % base) + 1]>> \o h[n \div base]
    BY <1>1 DEF Spells
  <2> QED BY <2>1
<1> DEFINE f == CHOOSE g : Is(g)
<1>3. Is(f)
  BY <1>2, Zenon
<1>4. Reversed(u, base, digit) = f[u]
  BY DEF Reversed
<1> HIDE DEF f
<1>5. Spells(f, base, digit, u)
  BY <1>3 DEF Spells
<1>6. \A n \in 0 .. u : f[n] \in Seq(Char)
  <2> DEFINE P == {k \in 0 .. u : \A n \in 0 .. k : f[n] \in Seq(Char)}
  <2>0. base \in Nat /\ base > 1 /\ base <= 16
    BY DEF Bases
  <2>1. \A i \in 1 .. 16 : <<digit[i]>> \in Seq(Char)
    BY OneOfDigits
  <2>2. ASSUME NEW k \in 0 .. u, \A n \in 0 .. k - 1 : f[n] \in Seq(Char)
        PROVE  f[k] \in Seq(Char)
    <3>1. f[k] = IF k < base THEN <<digit[k + 1]>> ELSE <<digit[(k % base) + 1]>> \o f[k \div base]
      BY <1>5 DEF Spells
    <3>2. CASE k < base
      <4>1. k + 1 \in 1 .. 16
        BY <2>0, <3>2
      <4> QED BY <2>1, <3>1, <3>2, <4>1
    <3>3. CASE ~ (k < base)
      <4>1. k \in Nat /\ k > 0
        BY <2>0, <3>3
      <4>2. k \div base \in Nat /\ k \div base < k /\ (k % base) + 1 \in 1 .. 16
        BY <4>1, Division
      <4>3. k \div base \in 0 .. k - 1
        BY <4>1, <4>2
      <4>4. f[k \div base] \in Seq(Char) /\ <<digit[(k % base) + 1]>> \in Seq(Char)
        BY <2>1, <2>2, <4>2, <4>3
      <4>5. <<digit[(k % base) + 1]>> \o f[k \div base] \in Seq(Char)
        BY <4>4, ConcatProperties
      <4> QED BY <3>1, <3>3, <4>5
    <3> QED BY <3>2, <3>3
  <2>3. 0 \in P
    <3>1. f[0] \in Seq(Char)
      <4>1. 0 \in 0 .. u /\ \A n \in 0 .. 0 - 1 : FALSE
        OBVIOUS
      <4> QED BY <2>2, <4>1
    <3> QED BY <3>1
  <2>4. ASSUME NEW k \in 0 .. u - 1, k \in P PROVE k + 1 \in P
    <3>1. k + 1 \in 0 .. u /\ k + 1 - 1 = k /\ \A n \in 0 .. k + 1 : n = k + 1 \/ n \in 0 .. k
      OBVIOUS
    <3>2. f[k + 1] \in Seq(Char)
      BY <2>2, <2>4, <3>1
    <3> QED BY <2>4, <3>1, <3>2
  <2> HIDE DEF P
  <2>5. \A k \in 0 .. u : k \in P
    BY <2>3, <2>4, UpTo
  <2>6. u \in P
    BY <2>5
  <2> QED BY <2>6 DEF P
<1>7. f \in [0 .. u -> Seq(Char)]
  <2>1. f = [n \in 0 .. u |-> f[n]]
    BY <1>3
  <2> QED BY <1>6, <2>1
<1>8. LastFirst(f[u], u, base, digit)
  BY <1>5, <1>7, DigitsOf
<1>9. u \in 0 .. u
  OBVIOUS
<1> QED BY <1>4, <1>6, <1>8, <1>9

\* The digits that PrintNum has found, turned around, are the shortest
\* spelling of the number.
THEOREM ReversedIsNumeral ==
  ASSUME NEW u \in Nat, u < Power(2, WORD), NEW base \in Bases, NEW digit \in Digits16
  PROVE  Reverse(Reversed(u, base, digit)) = Numeral(u, base, digit)
<1> DEFINE r == Reversed(u, base, digit)
<1> DEFINE m == Len(r)
<1> DEFINE Fits(n) == Power(base, n) > u /\ (n = 1 \/ Power(base, n - 1) <= u)
<1>1. r \in Seq(Char) /\ LastFirst(r, u, base, digit)
  BY ReversedFacts
<1>2. WORD \in Nat \ {0} /\ base \in Nat \ {0} /\ base \in Nat \ {0, 1}
  BY PrintAssumption DEF Bases
<1> HIDE DEF r
<1>3. /\ m \in Nat \ {0} /\ Fits(m)
      /\ \A j \in 1 .. m : r[j] = digit[((u \div Power(base, j - 1)) % base) + 1]
  BY <1>1 DEF LastFirst
<1> HIDE DEF m
<1>4. \A n \in Nat : Power(base, n) \in Nat
  BY <1>2, PowerFacts
<1>5. m \in 1 .. WORD
  <2>1. CASE m = 1
    BY <1>2, <2>1
  <2>2. CASE m # 1
    <3>1. Power(base, m - 1) <= u /\ m - 1 \in Nat
      BY <1>3, <2>2
    <3>2. Power(base, WORD) > u
      <4>1. Power(2, WORD) <= Power(base, WORD)
        BY <1>2, PowerOfBases
      <4>2. Power(2, WORD) \in Nat
        BY <1>2, PowerFacts
      <4> QED BY <1>2, <1>4, <4>1, <4>2
    <3>3. ASSUME WORD <= m - 1 PROVE FALSE
      <4>1. Power(base, WORD) <= Power(base, m - 1)
        BY <1>2, <3>1, <3>3, PowerGrows
      <4> QED BY <1>2, <1>4, <3>1, <3>2, <4>1
    <3> QED BY <1>2, <1>3, <3>1, <3>3
  <2> QED BY <2>1, <2>2
<1>6. ASSUME NEW n \in Nat \ {0}, Fits(n) PROVE n = m
  <2>1. ASSUME NEW i \in Nat \ {0}, NEW j \in Nat \ {0}, Fits(i), Fits(j), i < j PROVE FALSE
    <3>1. Power(base, j - 1) <= u /\ i <= j - 1 /\ j - 1 \in Nat
      BY <2>1
    <3>2. Power(base, i) <= Power(base, j - 1)
      BY <1>2, <3>1, PowerGrows
    <3> QED BY <1>4, <2>1, <3>1, <3>2
  <2>2. ~ (n < m) /\ ~ (m < n)
    <3> HIDE DEF Fits
    <3> QED BY <1>3, <1>6, <2>1
  <2> QED BY <1>3, <2>2
<1> DEFINE c == CHOOSE n \in 1 .. WORD : Fits(n)
<1>7. c = m
  <2> HIDE DEF Fits
  <2>1. c \in 1 .. WORD /\ Fits(c)
    BY <1>3, <1>5
  <2> HIDE DEF c
  <2>2. c \in Nat \ {0}
    BY <1>2, <2>1
  <2> QED BY <1>6, <2>1, <2>2
<1>8. Numeral(u, base, digit) = [i \in 1 .. c |-> digit[((u \div Power(base, c - i)) % base) + 1]]
  BY DEF Numeral
<1> HIDE DEF c
<1>9. Reverse(r) = [i \in 1 .. m |-> r[(m - i) + 1]]
  BY DEF Reverse, m
<1>10. ASSUME NEW i \in 1 .. m
       PROVE  r[(m - i) + 1] = digit[((u \div Power(base, m - i)) % base) + 1]
  <2>1. PICK j \in 1 .. m : j = (m - i) + 1 /\ j - 1 = m - i
    BY <1>3
  <2>2. r[j] = digit[((u \div Power(base, j - 1)) % base) + 1]
    BY <1>3
  <2> QED BY <2>1, <2>2
<1> DEFINE D(i) == digit[((u \div Power(base, m - i)) % base) + 1]
<1>11. Reverse(r) = [i \in 1 .. m |-> D(i)]
  <2>1. \A i \in 1 .. m : r[(m - i) + 1] = D(i)
    BY <1>10
  <2> HIDE DEF D
  <2> QED BY <1>9, <2>1
<1> QED BY <1>7, <1>8, <1>11 DEF r

\* The type and the length of a concatenation
LEMMA CatType ==
  ASSUME NEW S, NEW x \in Seq(S), NEW y \in Seq(S)
  PROVE  /\ Cat(x, y) \in Seq(S) /\ Len(Cat(x, y)) = Len(x) + Len(y)
         /\ Cat(x, <<>>) = x /\ Cat(<<>>, x) = x
BY DEF Cat

\* Turning a sequence around
LEMMA ReverseCat ==
  ASSUME NEW S, NEW x \in Seq(S), NEW y \in Seq(S)
  PROVE  Reverse(Cat(x, y)) = Cat(Reverse(y), Reverse(x))
<1> DEFINE m == Len(x)
<1> DEFINE n == Len(y)
<1> DEFINE w == x \o y
<1> DEFINE a == Reverse(w)
<1> DEFINE b == Reverse(y) \o Reverse(x)
<1>1. /\ m \in Nat /\ n \in Nat /\ w \in Seq(S) /\ Len(w) = m + n
      /\ \A i \in 1 .. m + n : w[i] = IF i <= m THEN x[i] ELSE y[i - m]
  OBVIOUS
<1>2. ASSUME NEW s \in Seq(S)
      PROVE  /\ Reverse(s) \in Seq(S) /\ Len(Reverse(s)) = Len(s)
             /\ \A i \in 1 .. Len(s) : Reverse(s)[i] = s[(Len(s) - i) + 1]
  <2>1. \A i \in 1 .. Len(s) : s[(Len(s) - i) + 1] \in S
    OBVIOUS
  <2>2. Len(s) \in Nat
    OBVIOUS
  <2> QED BY <2>1, <2>2 DEF Reverse
<1>3. /\ Reverse(x) \in Seq(S) /\ Len(Reverse(x)) = m /\ Reverse(y) \in Seq(S) /\ Len(Reverse(y)) = n
      /\ \A i \in 1 .. m : Reverse(x)[i] = x[(m - i) + 1]
      /\ \A i \in 1 .. n : Reverse(y)[i] = y[(n - i) + 1]
  BY <1>2
<1>4. /\ a \in Seq(S) /\ Len(a) = m + n
      /\ \A i \in 1 .. m + n : a[i] = w[(m + n - i) + 1]
  <2>1. m + n = Len(w) /\ w \in Seq(S)
    BY <1>1
  <2> HIDE DEF w, m, n
  <2>2. /\ Reverse(w) \in Seq(S) /\ Len(Reverse(w)) = Len(w)
        /\ \A i \in 1 .. Len(w) : Reverse(w)[i] = w[(Len(w) - i) + 1]
    BY <1>2, <2>1
  <2>3. m \in Nat /\ n \in Nat
    BY <1>1
  <2> QED BY <2>1, <2>2, <2>3
<1>5. /\ b \in Seq(S) /\ Len(b) = m + n
      /\ \A i \in 1 .. m + n : b[i] = IF i <= n THEN Reverse(y)[i] ELSE Reverse(x)[i - n]
  <2> HIDE DEF m, n
  <2> DEFINE p == Reverse(y)
  <2> DEFINE q == Reverse(x)
  <2>1. p \in Seq(S) /\ q \in Seq(S) /\ Len(p) = n /\ Len(q) = m /\ m \in Nat /\ n \in Nat
    BY <1>1, <1>3
  <2> HIDE DEF p, q
  <2>2. /\ p \o q \in Seq(S) /\ Len(p \o q) = n + m
        /\ \A i \in 1 .. n + m : (p \o q)[i] = IF i <= n THEN p[i] ELSE q[i - n]
    BY <2>1, ConcatProperties
  <2>3. n + m = m + n
    BY <2>1
  <2> QED BY <2>2, <2>3 DEF p, q
<1>8. m \in Nat /\ n \in Nat
  OBVIOUS
<1> HIDE DEF a, b, w, m, n
<1>6. ASSUME NEW i \in 1 .. m + n PROVE a[i] = b[i]
  <2>1. CASE i <= n
    <3>1. PICK j \in 1 .. m + n : j = (m + n - i) + 1 /\ ~ (j <= m) /\ j - m = (n - i) + 1 /\ i \in 1 .. n
      BY <1>8, <2>1
    <3>2. a[i] = w[j] /\ w[j] = y[j - m]
      BY <1>1, <1>4, <3>1
    <3>3. b[i] = Reverse(y)[i] /\ Reverse(y)[i] = y[(n - i) + 1]
      BY <1>3, <1>5, <2>1, <3>1
    <3> QED BY <3>1, <3>2, <3>3
  <2>2. CASE ~ (i <= n)
    <3>1. PICK j \in 1 .. m + n : j = (m + n - i) + 1 /\ j <= m
      BY <1>8, <2>2
    <3>2. PICK k \in 1 .. m : k = i - n /\ j = (m - k) + 1
      BY <1>8, <2>2, <3>1
    <3>3. a[i] = w[j] /\ w[j] = x[j]
      BY <1>1, <1>4, <3>1
    <3>4. b[i] = Reverse(x)[k] /\ Reverse(x)[k] = x[(m - k) + 1]
      BY <1>3, <1>5, <2>2, <3>2
    <3> QED BY <3>2, <3>3, <3>4
  <2> QED BY <2>1, <2>2
<1>7. a = b
  BY <1>4, <1>5, <1>6, SeqEqual
<1> QED BY <1>7 DEF a, b, w, Cat

\* Padding is characters, the same from both ends.
LEMMA TimesFacts ==
  ASSUME NEW n \in Int, NEW c \in Char
  PROVE  Times(n, c) \in Seq(Char) /\ Reverse(Times(n, c)) = Times(n, c)
<1> DEFINE k == IF n > 0 THEN n ELSE 0
<1>1. k \in Nat /\ Times(n, c) = [i \in 1 .. k |-> c]
  BY DEF Times
<1> HIDE DEF k
<1>2. [i \in 1 .. k |-> c] \in Seq(Char) /\ Len([i \in 1 .. k |-> c]) = k
  BY <1>1
<1>3. \A i \in 1 .. k : [j \in 1 .. k |-> c][(k - i) + 1] = c
  <2>1. \A i \in 1 .. k : (k - i) + 1 \in 1 .. k
    BY <1>1
  <2> QED BY <2>1
<1>4. Reverse([i \in 1 .. k |-> c]) = [i \in 1 .. k |-> c]
  BY <1>2, <1>3 DEF Reverse
<1> QED BY <1>1, <1>2, <1>4

\* One character turned around is itself.
LEMMA ReverseOne ==
  ASSUME NEW x
  PROVE  Reverse(<<x>>) = <<x>> /\ Reverse(<<>>) = <<>>
<1>1. Len(<<x>>) = 1 /\ <<x>>[1] = x
  OBVIOUS
<1>2. Reverse(<<x>>) = [i \in 1 .. 1 |-> x]
  <2>1. \A i \in 1 .. 1 : (1 - i) + 1 = 1
    OBVIOUS
  <2> QED BY <1>1, <2>1 DEF Reverse
<1>3. Reverse(<<>>) = <<>>
  BY DEF Reverse
<1> QED BY <1>2, <1>3

\* What was appended can be taken away.
LEMMA FrontCat ==
  ASSUME NEW S, NEW s \in Seq(S), NEW x \in S
  PROVE  Front(Cat(s, <<x>>)) = s
BY DEF Front, Cat

-----------------------------------------------------------------------------
(* Fields                                                                  *)

\* A number with its sign in a field
InField(minus, num, width, left, zero) ==
    LET body  == Cat(minus, num)
        blank == width - Len(body)
    IN  IF left THEN Cat(body, Times(blank, " "))
        ELSE IF zero THEN Cat(Cat(minus, Times(blank, "0")), num)
        ELSE Cat(Times(blank, " "), body)

Minus(neg) == IF neg THEN <<"-">> ELSE <<>>

\* The characters lp_Print itself puts out or looks for
LEMMA PlainChars == {"-", " ", "0", "%", "s", "l", "."} \subseteq Char
<1>1. 1 \in 1 .. 16 /\ DIGITS[1] = "0"
  BY DEF DIGITS
<1>2. {DIGITS[1], UPPER[1]} \subseteq Char
  BY <1>1, CharAssumption
<1> QED BY <1>1, <1>2, CharAssumption

\* The sign is at most one character.
LEMMA MinusFacts ==
  ASSUME NEW neg, neg \in BOOLEAN
  PROVE  Minus(neg) \in Seq(Char) /\ Reverse(Minus(neg)) = Minus(neg)
<1>1. "-" \in Char
  BY PlainChars
<1>2. <<"-">> \in Seq(Char) /\ <<>> \in Seq(Char)
  BY <1>1
<1> QED BY <1>2, ReverseOne DEF Minus

\* A numeral is characters, as many as PrintNum finds digits.
LEMMA NumeralType ==
  ASSUME NEW u \in Nat, u < Power(2, WORD), NEW base \in Bases, NEW digit \in Digits16
  PROVE  /\ Numeral(u, base, digit) \in Seq(Char)
         /\ Len(Numeral(u, base, digit)) = Len(Reversed(u, base, digit))
<1> DEFINE r == Reversed(u, base, digit)
<1>1. r \in Seq(Char)
  BY ReversedFacts
<1>2. Reverse(r) = Numeral(u, base, digit)
  BY ReversedIsNumeral
<1> HIDE DEF r
<1>3. Reverse(r) \in Seq(Char) /\ Len(Reverse(r)) = Len(r)
  <2>1. \A i \in 1 .. Len(r) : r[(Len(r) - i) + 1] \in Char
    BY <1>1
  <2>2. Len(r) \in Nat
    BY <1>1
  <2> QED BY <2>1, <2>2 DEF Reverse
<1> QED BY <1>2, <1>3 DEF r

\* A number that is built from its end, with a sign and padding
LEMMA BuiltFromItsEnd ==
  ASSUME NEW r \in Seq(Char), NEW num \in Seq(Char), Reverse(r) = num, Len(num) = Len(r),
         NEW sign \in Seq(Char), Reverse(sign) = sign
  PROVE  /\ Len(Cat(r, sign)) = Len(Cat(sign, num)) /\ Len(Cat(sign, num)) \in Nat
         /\ Reverse(Cat(r, sign)) = Cat(sign, num)
         /\ \A pad \in Seq(Char) : Reverse(pad) = pad =>
              /\ Reverse(Cat(Cat(r, sign), pad)) = Cat(pad, Cat(sign, num))
              /\ Reverse(Cat(Cat(r, pad), sign)) = Cat(Cat(sign, pad), num)
<1>1. Len(Cat(r, sign)) = Len(r) + Len(sign) /\ Len(Cat(sign, num)) = Len(sign) + Len(num)
  <2>1. Len(Cat(r, sign)) = Len(r) + Len(sign)
    BY CatType
  <2>2. Len(Cat(sign, num)) = Len(sign) + Len(num)
    BY DEF Cat
  <2> QED BY <2>1, <2>2
<1>2. Len(r) \in Nat /\ Len(sign) \in Nat
  BY LenProperties
<1>3. Reverse(Cat(r, sign)) = Cat(sign, num)
  BY ReverseCat
<1>4. ASSUME NEW pad \in Seq(Char), Reverse(pad) = pad
      PROVE  Reverse(Cat(Cat(r, sign), pad)) = Cat(pad, Cat(sign, num))
  <2>1. Cat(r, sign) \in Seq(Char)
    BY CatType
  <2> QED BY <1>3, <1>4, <2>1, ReverseCat
<1>5. ASSUME NEW pad \in Seq(Char), Reverse(pad) = pad
      PROVE  Reverse(Cat(Cat(r, pad), sign)) = Cat(Cat(sign, pad), num)
  <2>1. Cat(r, pad) \in Seq(Char)
    BY CatType
  <2>2. Reverse(Cat(r, pad)) = Cat(pad, num)
    BY <1>5, ReverseCat
  <2>3. Reverse(Cat(Cat(r, pad), sign)) = Cat(sign, Cat(pad, num))
    BY <2>1, <2>2, ReverseCat
  <2>4. Cat(Cat(sign, pad), num) = Cat(sign, Cat(pad, num))
    BY CatAssociative
  <2> QED BY <2>3, <2>4
<1> QED BY <1>1, <1>2, <1>3, <1>4, <1>5

\* What PrintNum leaves in buf, in terms of the parts
Layout(r, sign, width, left, neg, padc) ==
    LET q   == Cat(r, sign)
        pad == Times(width - Len(q), IF left THEN " " ELSE padc)
    IN  IF left THEN Cat(Reverse(q), pad)
        ELSE IF neg /\ padc = "0" THEN Reverse(Cat(Cat(Front(q), pad), <<"-">>))
        ELSE Reverse(Cat(q, pad))

\* which is the number in its field
LaidOut(r, num) ==
    \A width \in Nat, neg \in BOOLEAN, left \in BOOLEAN :
       /\ Layout(r, Minus(neg), width, left, neg, "0") = InField(Minus(neg), num, width, left, TRUE)
       /\ Layout(r, Minus(neg), width, left, neg, " ") = InField(Minus(neg), num, width, left, FALSE)

\* Zeros between the sign and the digits, blanks before or behind both
LEMMA LayoutIs ==
  ASSUME NEW r \in Seq(Char), NEW num \in Seq(Char), Reverse(r) = num, Len(num) = Len(r)
  PROVE  LaidOut(r, num)
<1> SUFFICES ASSUME NEW width \in Nat, NEW neg \in BOOLEAN, NEW left \in BOOLEAN
    PROVE  /\ Layout(r, Minus(neg), width, left, neg, "0") = InField(Minus(neg), num, width, left, TRUE)
           /\ Layout(r, Minus(neg), width, left, neg, " ") = InField(Minus(neg), num, width, left, FALSE)
  BY DEF LaidOut
<1> DEFINE sign == Minus(neg)
<1> DEFINE q == Cat(r, sign)
<1> DEFINE body == Cat(sign, num)
<1> DEFINE blank == width - Len(body)
<1> DEFINE B == Times(blank, " ")
<1> DEFINE Z == Times(blank, "0")
<1>1. sign \in Seq(Char) /\ Reverse(sign) = sign
  BY MinusFacts
<1>2. (neg => sign = <<"-">>) /\ (~ neg => sign = <<>>)
  BY DEF Minus
<1> HIDE DEF sign
<1>3. Len(q) = Len(body) /\ Len(body) \in Nat /\ Reverse(q) = body
  BY <1>1, BuiltFromItsEnd
<1>4. ASSUME NEW pad \in Seq(Char), Reverse(pad) = pad
      PROVE  /\ Reverse(Cat(q, pad)) = Cat(pad, body)
             /\ Reverse(Cat(Cat(r, pad), sign)) = Cat(Cat(sign, pad), num)
  BY <1>1, <1>4, BuiltFromItsEnd
<1>5. /\ left => /\ \A padc : Layout(r, sign, width, left, neg, padc)
                              = Cat(Reverse(q), Times(width - Len(q), " "))
                 /\ \A zero : InField(sign, num, width, left, zero) = Cat(body, B)
      /\ ~ left => /\ Layout(r, sign, width, left, neg, " ") = Reverse(Cat(q, Times(width - Len(q), " ")))
                   /\ Layout(r, sign, width, left, neg, "0") =
                        IF neg THEN Reverse(Cat(Cat(Front(q), Times(width - Len(q), "0")), <<"-">>))
                        ELSE Reverse(Cat(q, Times(width - Len(q), "0")))
                   /\ InField(sign, num, width, left, TRUE) = Cat(Cat(sign, Z), num)
                   /\ InField(sign, num, width, left, FALSE) = Cat(B, body)
  BY DEF Layout, InField
<1>6. neg => Front(q) = r
  <2>1. "-" \in Char
    BY PlainChars
  <2>2. Front(Cat(r, <<"-">>)) = r
    BY <2>1, FrontCat
  <2> QED BY <1>2, <2>2
<1>7. ~ neg => body = num /\ \A pad \in Seq(Char) : Cat(sign, pad) = pad
  BY <1>2, CatType
<1> HIDE DEF q, body
<1>8. blank \in Int /\ width - Len(q) = blank
  BY <1>3
<1> HIDE DEF blank
<1>9. B \in Seq(Char) /\ Reverse(B) = B /\ Z \in Seq(Char) /\ Reverse(Z) = Z
  BY <1>8, PlainChars, TimesFacts
<1>10. /\ Reverse(Cat(q, B)) = Cat(B, body) /\ Reverse(Cat(q, Z)) = Cat(Z, body)
       /\ Reverse(Cat(Cat(r, Z), sign)) = Cat(Cat(sign, Z), num)
  BY <1>4, <1>9
<1> HIDE DEF B, Z
<1>11. CASE left
  <2>1. Times(width - Len(q), " ") = B
    BY <1>8 DEF B
  <2> QED BY <1>3, <1>5, <1>11, <2>1 DEF sign
<1>12. CASE ~ left
  <2>1. Times(width - Len(q), " ") = B /\ Times(width - Len(q), "0") = Z
    BY <1>8 DEF B, Z
  <2>2. Layout(r, sign, width, left, neg, " ") = InField(sign, num, width, left, FALSE)
    BY <1>5, <1>10, <1>12, <2>1
  <2>3. CASE neg
    <3>1. Layout(r, sign, width, left, neg, "0") = Reverse(Cat(Cat(r, Z), sign))
      BY <1>2, <1>5, <1>6, <1>12, <2>1, <2>3
    <3> QED BY <1>5, <1>10, <1>12, <2>2, <3>1 DEF sign
  <2>4. CASE ~ neg
    <3>1. Layout(r, sign, width, left, neg, "0") = Cat(Z, body)
      BY <1>5, <1>10, <1>12, <2>1, <2>4
    <3>2. Cat(Cat(sign, Z), num) = Cat(Z, body)
      BY <1>7, <1>9, <2>4
    <3> QED BY <1>5, <1>12, <2>2, <3>1, <3>2 DEF sign
  <2> QED BY <2>3, <2>4
<1> QED BY <1>11, <1>12 DEF sign

\* PrintNum prints the number in its field.
PrintsField(u, base, digit) ==
    \A width \in Nat, neg \in BOOLEAN, left \in BOOLEAN, zero \in BOOLEAN :
       PrintNum(u, base, neg, width, left, IF zero THEN "0" ELSE " ", digit)
         = InField(Minus(neg), Numeral(u, base, digit), width, left, zero)

\* The digits of Reversed, so laid out, are the number in its field.
LEMMA PrintNumIs ==
  ASSUME NEW u \in Nat, u < Power(2, WORD), NEW base \in Bases, NEW digit \in Digits16
  PROVE  PrintsField(u, base, digit)
<1> SUFFICES ASSUME NEW width \in Nat, NEW neg \in BOOLEAN, NEW left \in BOOLEAN, NEW zero \in BOOLEAN
    PROVE  PrintNum(u, base, neg, width, left, IF zero THEN "0" ELSE " ", digit)
             = InField(Minus(neg), Numeral(u, base, digit), width, left, zero)
  BY DEF PrintsField
<1> DEFINE r == Reversed(u, base, digit)
<1> DEFINE num == Numeral(u, base, digit)
<1>1. r \in Seq(Char) /\ num \in Seq(Char) /\ Reverse(r) = num /\ Len(num) = Len(r)
  BY ReversedFacts, ReversedIsNumeral, NumeralType
<1>2. \A padc : PrintNum(u, base, neg, width, left, padc, digit)
                  = Layout(r, Minus(neg), width, left, neg, padc)
  BY DEF PrintNum, Layout, Cat, Minus
<1> HIDE DEF r, num
<1>7. LaidOut(r, num)
  BY <1>1, LayoutIs
<1>3. Layout(r, Minus(neg), width, left, neg, "0") = InField(Minus(neg), num, width, left, TRUE)
  BY <1>7 DEF LaidOut
<1>6. Layout(r, Minus(neg), width, left, neg, " ") = InField(Minus(neg), num, width, left, FALSE)
  BY <1>7 DEF LaidOut
<1>4. CASE zero
  <2>1. zero = TRUE
    BY <1>4
  <2> QED BY <1>2, <1>3, <1>4, <2>1 DEF num
<1>5. CASE ~ zero
  <2>1. zero = FALSE
    BY <1>5
  <2> QED BY <1>2, <1>6, <1>5, <2>1 DEF num
<1> QED BY <1>4, <1>5

\* The parts of a conversion
LEMMA ConversionFields ==
  ASSUME NEW x \in AConversion
  PROVE  /\ x.long \in BOOLEAN /\ x.left \in BOOLEAN /\ x.zero \in BOOLEAN
         /\ x.width \in Seq(Digit) /\ x.prec \in Seq(Digit)
         /\ x.conv \in Seq(Char \ (Digit \cup {"l", "-", "."}))
         /\ x.arg.int \in - Power(2, WORD - 1) .. Power(2, WORD - 1) - 1
         /\ x.arg.str \in Seq(Char)
         /\ ~ IsText(x)
BY DEF AConversion, IsText

\* The integers of an int, unsigned and without their sign
LEMMA IntFacts ==
  ASSUME NEW n \in - Power(2, WORD - 1) .. Power(2, WORD - 1) - 1
  PROVE  /\ Unsigned(n) \in Nat /\ Unsigned(n) < Power(2, WORD)
         /\ n >= 0 => n \in Nat /\ n < Power(2, WORD)
         /\ n < 0 => Unsigned(-n) = -n /\ -n \in Nat /\ -n < Power(2, WORD)
<1>1. WORD - 1 \in Nat /\ WORD - 1 + 1 = WORD /\ 2 \in Nat \ {0}
  BY PrintAssumption
<1> DEFINE p == Power(2, WORD - 1)
<1> DEFINE q == Power(2, WORD)
<1>2. p \in Nat \ {0} /\ Power(2, WORD - 1 + 1) = 2 * p
  BY <1>1, PowerFacts
<1>3. q = 2 * p
  BY <1>1, <1>2
<1>4. n \in - p .. p - 1
  OBVIOUS
<1> HIDE DEF p, q
<1>5. q \in Nat \ {0} /\ n \in Int
  BY <1>2, <1>3, <1>4
<1>6. n % q \in Nat /\ n % q < q
  BY <1>5
<1>7. n >= 0 => n \in Nat /\ n < q
  BY <1>2, <1>3, <1>4
<1>8. n < 0 => -n \in Nat /\ -n < q
  BY <1>2, <1>3, <1>4
<1>9. \A a \in Nat : a < q => a % q = a
  BY <1>5
<1> QED BY <1>6, <1>7, <1>8, <1>9 DEF Unsigned, q

\* What a number is converted to
Magnitude(x) == IF ~ Signed(x) THEN Unsigned(x.arg.int)
                ELSE IF x.arg.int < 0 THEN - x.arg.int ELSE x.arg.int
Table(x) == IF x.conv[1] = "X" THEN UPPER ELSE DIGITS

\* It fits the unsigned long u of PrintNum.
LEMMA NumberOf ==
  ASSUME NEW x \in AConversion, x.conv[1] \in Numeric
  PROVE  /\ Magnitude(x) \in Nat /\ Magnitude(x) < Power(2, WORD)
         /\ Base(x) \in Bases /\ Table(x) \in Digits16
         /\ (Signed(x) /\ x.arg.int < 0) \in BOOLEAN
<1>1. Magnitude(x) \in Nat /\ Magnitude(x) < Power(2, WORD)
  <2>1. x.arg.int \in - Power(2, WORD - 1) .. Power(2, WORD - 1) - 1
    BY ConversionFields
  <2> DEFINE n == x.arg.int
  <2>2. /\ Unsigned(n) \in Nat /\ Unsigned(n) < Power(2, WORD)
        /\ n >= 0 => n \in Nat /\ n < Power(2, WORD)
        /\ n < 0 => -n \in Nat /\ -n < Power(2, WORD)
    BY <2>1, IntFacts
  <2>3. n \in Int
    BY <2>1
  <2> QED BY <2>2, <2>3 DEF Magnitude
<1>2. Base(x) \in Bases
  BY DEF Base, Bases
<1>3. Table(x) \in Digits16
  BY DigitTables DEF Table
<1> QED BY <1>1, <1>2, <1>3 DEF Signed

\* Convert is PrintNum with the base, the sign and the digits of the conversion.
LEMMA ConvertIs ==
  ASSUME NEW x \in AConversion, x.conv[1] \in Numeric, NEW width, NEW padc
  PROVE  Convert(x.conv[1], x.arg.int, width, x.left, padc) =
           PrintNum(Magnitude(x), Base(x), Signed(x) /\ x.arg.int < 0, width, x.left, padc, Table(x))
<1> DEFINE c == x.conv[1]
<1> DEFINE n == x.arg.int
<1>1. n < 0 => Unsigned(-n) = -n
  BY ConversionFields, IntFacts
<1>2. CASE c \in {"d", "D"}
  <2>1. Signed(x) /\ Base(x) = 10 /\ Table(x) = DIGITS
    BY <1>2 DEF Signed, Base, Table
  <2>2. Convert(c, n, width, x.left, padc) =
          PrintNum(IF n < 0 THEN Unsigned(-n) ELSE n, 10, n < 0, width, x.left, padc, DIGITS)
    BY <1>2 DEF Convert
  <2>3. Magnitude(x) = IF n < 0 THEN Unsigned(-n) ELSE n
    BY <1>1, <2>1 DEF Magnitude
  <2> QED BY <2>1, <2>2, <2>3
<1>3. CASE c \notin {"d", "D"}
  <2>1. ~ Signed(x) /\ Magnitude(x) = Unsigned(n)
    BY <1>3 DEF Signed, Magnitude
  <2>2. (Signed(x) /\ n < 0) = FALSE
    BY <2>1
  <2>3. Convert(c, n, width, x.left, padc) =
          PrintNum(Unsigned(n), Base(x), FALSE, width, x.left, padc, Table(x))
    BY <1>3 DEF Convert, Base, Table, Numeric
  <2> QED BY <2>1, <2>2, <2>3
<1> QED BY <1>2, <1>3

\* A number is printed as its field,
LEMMA NumberPrinted ==
  ASSUME NEW x \in AConversion, x.conv[1] \in Numeric
  PROVE  Convert(x.conv[1], x.arg.int, Value(x.width), x.left, IF x.zero THEN "0" ELSE " ") = Field(x)
<1> DEFINE neg == Signed(x) /\ x.arg.int < 0
<1> DEFINE num == Numeral(Magnitude(x), Base(x), Table(x))
<1> DEFINE w == Value(x.width)
<1>1. /\ Magnitude(x) \in Nat /\ Magnitude(x) < Power(2, WORD)
      /\ Base(x) \in Bases /\ Table(x) \in Digits16
      /\ neg \in BOOLEAN
  BY NumberOf
<1>2. PrintsField(Magnitude(x), Base(x), Table(x))
  BY <1>1, PrintNumIs
<1>3. w \in Nat /\ x.left \in BOOLEAN /\ x.zero \in BOOLEAN
  BY ConversionFields, ValueFacts
<1>4. PrintNum(Magnitude(x), Base(x), neg, w, x.left, IF x.zero THEN "0" ELSE " ", Table(x))
        = InField(Minus(neg), num, w, x.left, x.zero)
  BY <1>1, <1>2, <1>3, ZenonT(30) DEF PrintsField
<1>5. Convert(x.conv[1], x.arg.int, w, x.left, IF x.zero THEN "0" ELSE " ") =
        PrintNum(Magnitude(x), Base(x), neg, w, x.left, IF x.zero THEN "0" ELSE " ", Table(x))
  BY ConvertIs, ZenonT(30)
<1>6. x.conv[1] \notin {"c", "s"}
  BY DEF Numeric
<1>7. Field(x) = InField(Minus(neg), num, w, x.left, x.zero)
  BY <1>6 DEF Field, InField, Minus, Magnitude, Table, Cat
<1> QED BY <1>4, <1>5, <1>7

\* a string too,
LEMMA StringPrinted ==
  ASSUME NEW x \in AConversion, x.conv[1] = "s"
  PROVE  PrintString(x.arg.str, Value(x.width), x.left) = Field(x)
BY DEF PrintString, Field

\* and a character.
LEMMA CharPrinted ==
  ASSUME NEW x \in AConversion, x.conv[1] = "c", Len(x.arg.str) = 1
  PROVE  PrintChar(x.arg.str[1], Value(x.width), x.left) = Field(x)
<1>1. x.arg.str \in Seq(Char)
  BY ConversionFields
<1>2. <<x.arg.str[1]>> = x.arg.str
  BY <1>1
<1> QED BY <1>2 DEF PrintChar, Field

-----------------------------------------------------------------------------
(* Reading a format                                                        *)

\* Eight sequences can be put together from the right.
Grouped(a, b, c, d, e, f, g, t) ==
    Cat(Cat(Cat(Cat(Cat(Cat(Cat(a, b), c), d), e), f), g), t)
      = Cat(a, Cat(b, Cat(c, Cat(d, Cat(e, Cat(f, Cat(g, t)))))))

\* Concatenation is associative, seven times.
LEMMA Regroup ==
  ASSUME NEW S, NEW a \in Seq(S), NEW b \in Seq(S), NEW c \in Seq(S), NEW d \in Seq(S),
         NEW e \in Seq(S), NEW f \in Seq(S), NEW g \in Seq(S), NEW t \in Seq(S)
  PROVE  Grouped(a, b, c, d, e, f, g, t)
<1>1. \A x, y, z : x \in Seq(S) /\ y \in Seq(S) /\ z \in Seq(S)
                     => Cat(x, y) \in Seq(S) /\ Cat(Cat(x, y), z) = Cat(x, Cat(y, z))
  BY CatAssociative, CatType
<1> DEFINE ab == Cat(a, b)
<1> DEFINE ac == Cat(ab, c)
<1> DEFINE ad == Cat(ac, d)
<1> DEFINE ae == Cat(ad, e)
<1> DEFINE af == Cat(ae, f)
<1> DEFINE gt == Cat(g, t)
<1> DEFINE ft == Cat(f, gt)
<1> DEFINE et == Cat(e, ft)
<1> DEFINE dt == Cat(d, et)
<1> DEFINE ct == Cat(c, dt)
<1>2. ab \in Seq(S) /\ gt \in Seq(S)
  BY <1>1
<1>3. ac \in Seq(S) /\ ft \in Seq(S)
  BY <1>1, <1>2
<1>4. ad \in Seq(S) /\ et \in Seq(S)
  BY <1>1, <1>3
<1>5. ae \in Seq(S) /\ dt \in Seq(S)
  BY <1>1, <1>4
<1>6. af \in Seq(S) /\ ct \in Seq(S)
  BY <1>1, <1>5
<1>7. Cat(Cat(af, g), t) = Cat(af, gt)
  BY <1>1, <1>6
<1>8. Cat(Cat(ae, f), gt) = Cat(ae, ft)
  BY <1>1, <1>2, <1>5
<1>9. Cat(Cat(ad, e), ft) = Cat(ad, et)
  BY <1>1, <1>3, <1>4
<1>10. Cat(Cat(ac, d), et) = Cat(ac, dt)
  BY <1>1, <1>3, <1>4
<1>11. Cat(Cat(ab, c), dt) = Cat(ab, ct)
  BY <1>1, <1>2, <1>5
<1>12. Cat(Cat(a, b), ct) = Cat(a, Cat(b, ct))
  BY <1>1, <1>6
<1> QED BY <1>7, <1>8, <1>9, <1>10, <1>11, <1>12 DEF Grouped

\* The first character of two sequences
LEMMA HasCat ==
  ASSUME NEW S, NEW x \in Seq(S), NEW y \in Seq(S), NEW c
  PROVE  /\ x = <<>> => (Has(Cat(x, y), c) <=> Has(y, c))
         /\ x # <<>> => (Has(Cat(x, y), c) <=> Has(x, c))
BY DEF Has, Cat

\* An optional character
Opt(o, c) == IF o THEN <<c>> ELSE <<>>

\* Skip takes an optional character away, and leaves what follows.
LEMMA SkipOpt ==
  ASSUME NEW c \in Char, NEW o, o \in BOOLEAN, NEW y \in Seq(Char), ~ Has(y, c)
  PROVE  /\ Opt(o, c) \in Seq(Char) /\ Cat(Opt(o, c), y) \in Seq(Char)
         /\ Has(Cat(Opt(o, c), y), c) <=> o
         /\ Skip(Cat(Opt(o, c), y), c) = y
         /\ \A d : d # c /\ ~ Has(y, d) => ~ Has(Cat(Opt(o, c), y), d)
<1>1. <<c>> \in Seq(Char) /\ <<c>> # <<>> /\ <<>> \in Seq(Char)
  OBVIOUS
<1>2. Has(<<c>>, c) /\ \A d : d # c => ~ Has(<<c>>, d)
  BY DEF Has
<1>3. CASE o
  <2>1. Opt(o, c) = <<c>>
    BY <1>3 DEF Opt
  <2>2. Tail(Cat(<<c>>, y)) = y
    BY DEF Cat
  <2>3. \A d : Has(Cat(<<c>>, y), d) <=> Has(<<c>>, d)
    BY <1>1, HasCat
  <2>4. Cat(<<c>>, y) \in Seq(Char)
    BY <1>1, CatType
  <2> QED BY <1>1, <1>2, <1>3, <2>1, <2>2, <2>3, <2>4 DEF Skip
<1>4. CASE ~ o
  <2>1. Opt(o, c) = <<>>
    BY <1>4 DEF Opt
  <2>2. Cat(<<>>, y) = y
    BY CatType
  <2> QED BY <1>1, <1>4, <2>1, <2>2 DEF Skip
<1> QED BY <1>3, <1>4

\* Every element of x is in D.
AllIn(x, D) == \A i \in 1 .. Len(x) : x[i] \in D

\* Prefix finds the leading elements that are in D.
LEMMA PrefixIs ==
  ASSUME NEW S, NEW D, NEW x \in Seq(S), NEW y \in Seq(S),
         AllIn(x, D), y = <<>> \/ Head(y) \notin D
  PROVE  /\ Prefix(Cat(x, y), D) = Len(x)
         /\ SubSeq(Cat(x, y), 1, Len(x)) = x
         /\ Drop(Cat(x, y), Len(x)) = y
<1> DEFINE f == x \o y
<1> DEFINE m == Len(x)
<1>1. /\ f \in Seq(S) /\ m \in Nat /\ Len(y) \in Nat /\ Len(f) = m + Len(y)
      /\ \A i \in 1 .. m : f[i] = x[i]
      /\ y # <<>> => f[m + 1] = Head(y) /\ Len(y) > 0
  OBVIOUS
<1>2. SubSeq(f, 1, m) = x
  OBVIOUS
<1>3. SubSeq(f, m + 1, Len(f)) = y
  OBVIOUS
<1> HIDE DEF f, m
<1> DEFINE N == {n \in 0 .. Len(f) : \A i \in 1 .. n : f[i] \in D}
<1>4. m \in N
  BY <1>1 DEF m, AllIn
<1>5. ASSUME NEW n \in N PROVE n <= m
  <2> SUFFICES ASSUME n > m PROVE FALSE
    BY <1>1
  <2>1. y # <<>> /\ m + 1 \in 1 .. n
    <3>1. n \in 0 .. m + Len(y)
      BY <1>1
    <3>2. Len(y) # 0
      BY <1>1, <3>1
    <3>3. y # <<>>
      BY <3>2
    <3> QED BY <1>1, <3>1, <3>3
  <2> QED BY <1>1, <2>1
<1>6. N \subseteq Int
  OBVIOUS
<1> HIDE DEF N
<1>7. m \in N /\ \A z \in N : m >= z
  BY <1>1, <1>4, <1>5, <1>6
<1>8. \A n \in N : (\A z \in N : n >= z) => n = m
  BY <1>1, <1>6, <1>7
<1>9. Max(N) = m
  BY <1>7, <1>8, Zenon DEF Max
<1>10. Prefix(f, D) = m
  BY <1>9 DEF Prefix, N
<1> QED BY <1>2, <1>3, <1>10 DEF f, m, Cat, Drop

\* No flag, point or percent sign is a digit.
LEMMA DigitChars ==
  /\ Digit \subseteq Char
  /\ "0" \in Digit /\ {"l", "-", ".", "%"} \cap Digit = {}
<1>1. ASSUME NEW c \in Digit PROVE c \in Char /\ c \notin {"l", "-", ".", "%"}
  <2>1. PICK i \in 1 .. 10 : DIGITS[i] = c
    BY DEF Digit
  <2>2. i \in 1 .. 16
    OBVIOUS
  <2>3. {DIGITS[i], UPPER[i]} \subseteq Char
    BY <2>2, CharAssumption
  <2>4. DIGITS[i] \in {"0", "1", "2", "3", "4", "5", "6", "7", "8", "9"}
    BY DEF DIGITS
  <2> QED BY <2>1, <2>3, <2>4
<1>2. DIGITS[1] = "0" /\ 1 \in 1 .. 10
  BY DEF DIGITS
<1> QED BY <1>1, <1>2 DEF Digit

\* What follows the '%', from the left to the right
Precision(x) == IF x.prec = <<>> THEN <<>> ELSE <<".">> \o x.prec
AtConv(x, t)  == Cat(x.conv, t)
AtPrec(x, t)  == Cat(Precision(x), AtConv(x, t))
AtWidth(x, t) == Cat(x.width, AtPrec(x, t))
AtZero(x, t)  == Cat(Opt(x.zero, "0"), AtWidth(x, t))
AtMinus(x, t) == Cat(Opt(x.left, "-"), AtZero(x, t))
AtLong(x, t)  == Cat(Opt(x.long, "l"), AtMinus(x, t))

\* A conversion that may be followed by t
Followed(x, t) == x \in AConversion /\ WellSpelled(x) /\ t \in Seq(Char) /\ (x.conv # <<>> \/ t = <<>>)

\* No flag, digit or point comes where the conversion character does.
LEMMA AtConvFacts ==
  ASSUME NEW x, NEW t, Followed(x, t)
  PROVE  /\ AtConv(x, t) \in Seq(Char)
         /\ \A c \in Digit \cup {"l", "-", "."} : ~ Has(AtConv(x, t), c)
<1>1. x.conv \in Seq(Char \ (Digit \cup {"l", "-", "."})) /\ t \in Seq(Char)
  BY ConversionFields DEF Followed
<1>2. x.conv \in Seq(Char)
  BY <1>1, SeqMonotonic
<1>3. CASE x.conv = <<>>
  <2>1. t = <<>>
    BY <1>3 DEF Followed
  <2>2. \A c : ~ Has(<<>>, c)
    BY DEF Has
  <2>3. Cat(<<>>, <<>>) = <<>> /\ <<>> \in Seq(Char)
    BY DEF Cat
  <2> QED BY <1>3, <2>1, <2>2, <2>3 DEF AtConv
<1>4. CASE x.conv # <<>>
  <2>1. Head(x.conv) \in Char \ (Digit \cup {"l", "-", "."})
    BY <1>1, <1>4, HeadTailProperties
  <2>2. \A c : Has(AtConv(x, t), c) <=> Has(x.conv, c)
    BY <1>1, <1>2, <1>4, HasCat DEF AtConv
  <2>3. AtConv(x, t) \in Seq(Char)
    BY <1>1, <1>2, CatType DEF AtConv
  <2> QED BY <2>1, <2>2, <2>3 DEF Has
<1> QED BY <1>3, <1>4

\* A precision starts with a point, which Skip takes away.
LEMMA AtPrecFacts ==
  ASSUME NEW x, NEW t, Followed(x, t)
  PROVE  /\ Precision(x) \in Seq(Char) /\ AtPrec(x, t) \in Seq(Char)
         /\ \A c \in Digit \cup {"l", "-"} : ~ Has(AtPrec(x, t), c)
         /\ x.prec = <<>> => AtPrec(x, t) = AtConv(x, t)
         /\ x.prec # <<>> => /\ Has(AtPrec(x, t), ".")
                             /\ Skip(AtPrec(x, t), ".") = Cat(x.prec, AtConv(x, t))
<1> DEFINE y == AtConv(x, t)
<1>1. y \in Seq(Char) /\ \A c \in Digit \cup {"l", "-", "."} : ~ Has(y, c)
  BY AtConvFacts
<1>2. x.prec \in Seq(Char)
  <2>1. x.prec \in Seq(Digit)
    BY ConversionFields DEF Followed
  <2> QED BY <2>1, DigitChars, SeqMonotonic
<1>3. <<".">> \in Seq(Char) /\ <<".">> # <<>> /\ <<>> \in Seq(Char)
  <2>1. "." \in Char
    BY PlainChars
  <2> QED BY <2>1
<1> HIDE DEF y
<1>4. CASE x.prec = <<>>
  <2>1. Precision(x) = <<>> /\ Cat(<<>>, y) = y
    BY <1>1, <1>4, CatType DEF Precision
  <2> QED BY <1>1, <1>3, <1>4, <2>1 DEF AtPrec, y
<1>5. CASE x.prec # <<>>
  <2>1. Precision(x) = Cat(<<".">>, x.prec)
    BY <1>5 DEF Precision, Cat
  <2>2. Cat(Cat(<<".">>, x.prec), y) = Cat(<<".">>, Cat(x.prec, y))
    <3> DEFINE d == <<".">>
    <3> DEFINE p == x.prec
    <3>1. d \in Seq(Char) /\ p \in Seq(Char)
      BY <1>2, <1>3
    <3> HIDE DEF d, p
    <3>2. Cat(Cat(d, p), y) = Cat(d, Cat(p, y))
      BY <1>1, <3>1, CatAssociative
    <3> QED BY <3>2 DEF d, p
  <2>3. Precision(x) \in Seq(Char) /\ Cat(x.prec, y) \in Seq(Char)
    BY <1>1, <1>2, <1>3, <2>1, CatType
  <2>4. AtPrec(x, t) = Cat(<<".">>, Cat(x.prec, y)) /\ AtPrec(x, t) \in Seq(Char)
    BY <1>1, <2>1, <2>2, <2>3, CatType DEF AtPrec, y
  <2>5. \A c : Has(AtPrec(x, t), c) <=> c = "."
    <3> DEFINE d == <<".">>
    <3> DEFINE z == Cat(x.prec, y)
    <3>1. d \in Seq(Char) /\ d # <<>> /\ z \in Seq(Char) /\ AtPrec(x, t) = Cat(d, z)
      BY <1>3, <2>3, <2>4
    <3> HIDE DEF d, z
    <3>2. \A c : Has(Cat(d, z), c) <=> Has(d, c)
      BY <3>1, HasCat
    <3>3. \A c : Has(d, c) <=> c = "."
      BY DEF Has, d
    <3> QED BY <3>1, <3>2, <3>3
  <2>6. Tail(AtPrec(x, t)) = Cat(x.prec, y)
    BY <2>3, <2>4 DEF Cat
  <2>7. "." \notin Digit
    BY DigitChars
  <2> QED BY <1>5, <2>3, <2>4, <2>5, <2>6, <2>7 DEF Skip, y
<1> QED BY <1>4, <1>5

\* A width does not start with a flag.
LEMMA AtWidthFacts ==
  ASSUME NEW x, NEW t, Followed(x, t)
  PROVE  /\ AtWidth(x, t) \in Seq(Char)
         /\ \A c \in {"0", "l", "-"} : ~ Has(AtWidth(x, t), c)
<1>1. AtPrec(x, t) \in Seq(Char) /\ \A c \in Digit \cup {"l", "-"} : ~ Has(AtPrec(x, t), c)
  BY AtPrecFacts
<1>2. x.width \in Seq(Digit) /\ (x.width = <<>> \/ x.width[1] # "0")
  BY ConversionFields DEF Followed, WellSpelled
<1>3. x.width \in Seq(Char)
  BY <1>2, DigitChars, SeqMonotonic
<1>4. AtWidth(x, t) \in Seq(Char)
  BY <1>1, <1>3, CatType DEF AtWidth
<1>5. CASE x.width = <<>>
  BY <1>1, <1>3, <1>4, <1>5, DigitChars, HasCat DEF AtWidth
<1>6. CASE x.width # <<>>
  <2>1. Head(x.width) \in Digit /\ Head(x.width) # "0"
    BY <1>2, <1>6
  <2>2. \A c : Has(AtWidth(x, t), c) <=> Has(x.width, c)
    BY <1>1, <1>3, <1>6, HasCat DEF AtWidth
  <2> QED BY <1>4, <2>1, <2>2, DigitChars DEF Has
<1> QED BY <1>5, <1>6

\* The flags are read as they were spelled.
LEMMA FlagsIs ==
  ASSUME NEW x, NEW t, Followed(x, t)
  PROVE  /\ AtLong(x, t) \in Seq(Char)
         /\ LET p == Flags(AtLong(x, t))
            IN  /\ p.left = x.left /\ p.padc = IF x.zero THEN "0" ELSE " "
                /\ p.width = Value(x.width) /\ p.rest = AtConv(x, t)
<1> DEFINE g0 == AtLong(x, t)
<1> DEFINE g1 == AtMinus(x, t)
<1> DEFINE g2 == AtZero(x, t)
<1> DEFINE g3 == AtWidth(x, t)
<1> DEFINE g4 == AtPrec(x, t)
<1> DEFINE g5 == AtConv(x, t)
<1>1. x.long \in BOOLEAN /\ x.left \in BOOLEAN /\ x.zero \in BOOLEAN
  BY ConversionFields DEF Followed
<1>2. {"l", "-", "0"} \subseteq Char
  BY PlainChars
<1>3. g3 \in Seq(Char) /\ ~ Has(g3, "0") /\ ~ Has(g3, "l") /\ ~ Has(g3, "-")
  BY AtWidthFacts
<1>4. /\ g2 \in Seq(Char) /\ (Has(g2, "0") <=> x.zero) /\ Skip(g2, "0") = g3
      /\ ~ Has(g2, "l") /\ ~ Has(g2, "-")
  BY <1>1, <1>2, <1>3, SkipOpt DEF AtZero
<1>5. /\ g1 \in Seq(Char) /\ (Has(g1, "-") <=> x.left) /\ Skip(g1, "-") = g2 /\ ~ Has(g1, "l")
  BY <1>1, <1>2, <1>4, SkipOpt DEF AtMinus
<1>6. g0 \in Seq(Char) /\ Skip(g0, "l") = g1
  BY <1>1, <1>2, <1>5, SkipOpt DEF AtLong
<1>7. Digits(g3) = x.width /\ Drop(g3, Len(x.width)) = g4
  <2>1. g4 \in Seq(Char) /\ (g4 = <<>> \/ Head(g4) \notin Digit)
    BY AtPrecFacts DEF Has
  <2>2. x.width \in Seq(Digit)
    BY ConversionFields DEF Followed
  <2>3. x.width \in Seq(Char) /\ \A i \in 1 .. Len(x.width) : x.width[i] \in Digit
    BY <2>2, DigitChars, SeqMonotonic, ElementOfSeq
  <2> HIDE DEF g4
  <2> DEFINE w == x.width
  <2>4. w \in Seq(Char) /\ AllIn(w, Digit)
    BY <2>3 DEF AllIn
  <2> HIDE DEF w
  <2>5. /\ Prefix(Cat(w, g4), Digit) = Len(w)
        /\ SubSeq(Cat(w, g4), 1, Len(w)) = w
        /\ Drop(Cat(w, g4), Len(w)) = g4
    BY <2>1, <2>4, PrefixIs
  <2> QED BY <2>5 DEF Digits, AtWidth, g4, w
<1>8. (IF Has(g4, ".") THEN Drop(Skip(g4, "."), Len(Digits(Skip(g4, ".")))) ELSE g4) = g5
  <2>1. CASE x.prec = <<>>
    <3>1. g4 = g5
      BY <2>1, AtPrecFacts
    <3>2. ~ Has(g5, ".")
      BY AtConvFacts
    <3> QED BY <3>1, <3>2
  <2>2. CASE x.prec # <<>>
    <3>1. Has(g4, ".") /\ Skip(g4, ".") = Cat(x.prec, g5)
      BY <2>2, AtPrecFacts
    <3>2. g5 \in Seq(Char) /\ (g5 = <<>> \/ Head(g5) \notin Digit)
      BY AtConvFacts DEF Has
    <3>3. x.prec \in Seq(Digit)
      BY ConversionFields DEF Followed
    <3> DEFINE w == x.prec
    <3>4. w \in Seq(Char) /\ AllIn(w, Digit)
      BY <3>3, DigitChars, SeqMonotonic, ElementOfSeq DEF AllIn
    <3> HIDE DEF g4, g5, w
    <3>5. /\ Prefix(Cat(w, g5), Digit) = Len(w)
          /\ SubSeq(Cat(w, g5), 1, Len(w)) = w
          /\ Drop(Cat(w, g5), Len(w)) = g5
      BY <3>2, <3>4, PrefixIs
    <3>6. Digits(Cat(w, g5)) = w
      BY <3>5 DEF Digits
    <3>7. Skip(g4, ".") = Cat(w, g5)
      BY <3>1 DEF w
    <3> QED BY <3>1, <3>5, <3>6, <3>7
  <2> QED BY <2>1, <2>2
<1> HIDE DEF g0, g1, g2, g3, g4, g5
<1>9. LET p == Flags(g0)
      IN  /\ p.left = Has(g1, "-") /\ p.padc = IF Has(g2, "0") THEN "0" ELSE " "
          /\ p.width = Value(x.width) /\ p.rest = g5
  BY <1>4, <1>5, <1>6, <1>7, <1>8 DEF Flags
<1>10. Has(g1, "-") = x.left
  BY <1>1, <1>5 DEF Has
<1> QED BY <1>4, <1>6, <1>9, <1>10 DEF g0, g5

\* The first character of a conversion is '%', and its flags follow.
LEMMA SpellIs ==
  ASSUME NEW x, NEW t, Followed(x, t)
  PROVE  /\ Spell(x) \in Seq(Char)
         /\ Cat(Spell(x), t) = Cat(<<"%">>, AtLong(x, t))
         /\ Has(Cat(Spell(x), t), "%") /\ Tail(Cat(Spell(x), t)) = AtLong(x, t)
<1> DEFINE a == <<"%">>
<1> DEFINE b == Opt(x.long, "l")
<1> DEFINE c == Opt(x.left, "-")
<1> DEFINE d == Opt(x.zero, "0")
<1> DEFINE e == x.width
<1> DEFINE f == Precision(x)
<1> DEFINE g == x.conv
<1>1. a \in Seq(Char) /\ b \in Seq(Char) /\ c \in Seq(Char) /\ d \in Seq(Char)
  <2>1. {"%", "l", "-", "0"} \subseteq Char
    BY PlainChars
  <2>2. \A o, k : k \in Char => Opt(o, k) \in Seq(Char)
    <3>1. \A k \in Char : <<k>> \in Seq(Char) /\ <<>> \in Seq(Char)
      OBVIOUS
    <3> QED BY <3>1 DEF Opt
  <2> QED BY <2>1, <2>2
<1>2. e \in Seq(Char) /\ f \in Seq(Char) /\ g \in Seq(Char) /\ t \in Seq(Char)
  <2>1. e \in Seq(Digit) /\ g \in Seq(Char \ (Digit \cup {"l", "-", "."}))
    BY ConversionFields DEF Followed
  <2>2. e \in Seq(Char) /\ g \in Seq(Char)
    BY <2>1, DigitChars, SeqMonotonic
  <2> QED BY <2>2, AtPrecFacts DEF Followed
<1>3. Spell(x) = Cat(Cat(Cat(Cat(Cat(Cat(a, b), c), d), e), f), g)
  <2>1. ~ IsText(x)
    BY ConversionFields DEF Followed
  <2> QED BY <2>1 DEF Spell, Cat, Opt, Precision
<1>4. AtLong(x, t) = Cat(b, Cat(c, Cat(d, Cat(e, Cat(f, Cat(g, t))))))
  BY DEF AtLong, AtMinus, AtZero, AtWidth, AtPrec, AtConv
<1>5. AtLong(x, t) \in Seq(Char)
  BY FlagsIs
<1>6. Has(Cat(<<"%">>, AtLong(x, t)), "%") /\ Tail(Cat(<<"%">>, AtLong(x, t))) = AtLong(x, t)
  BY <1>5 DEF Has, Cat
<1> HIDE DEF a, b, c, d, e, f, g
<1>7. Cat(Spell(x), t) = Cat(a, AtLong(x, t))
  <2>1. Grouped(a, b, c, d, e, f, g, t)
    BY <1>1, <1>2, Regroup
  <2> QED BY <1>3, <1>4, <2>1 DEF Grouped
<1>8. Spell(x) \in Seq(Char)
  <2>1. Cat(a, b) \in Seq(Char)
    BY <1>1, CatType
  <2>2. Cat(Cat(a, b), c) \in Seq(Char)
    BY <1>1, <2>1, CatType
  <2>3. Cat(Cat(Cat(a, b), c), d) \in Seq(Char)
    BY <1>1, <2>2, CatType
  <2>4. Cat(Cat(Cat(Cat(a, b), c), d), e) \in Seq(Char)
    BY <1>2, <2>3, CatType
  <2>5. Cat(Cat(Cat(Cat(Cat(a, b), c), d), e), f) \in Seq(Char)
    BY <1>2, <2>4, CatType
  <2> QED BY <1>2, <1>3, <2>5, CatType
<1> QED BY <1>6, <1>7, <1>8 DEF a

\* What an item prints is a sequence of characters.
LEMMA TextType ==
  ASSUME NEW x, NEW t, Followed(x, t)
  PROVE  Text(x) \in Seq(Char)
<1> DEFINE w == Value(x.width)
<1>1. /\ x \in AConversion /\ ~ IsText(x) /\ x.arg.str \in Seq(Char)
      /\ x.conv \in Seq(Char \ (Digit \cup {"l", "-", "."})) /\ w \in Nat
      /\ x.left \in BOOLEAN /\ x.zero \in BOOLEAN
  BY ConversionFields, ValueFacts DEF Followed
<1>2. x.conv \in Seq(Char)
  BY <1>1, SeqMonotonic
<1>3. " " \in Char /\ "0" \in Char
  BY PlainChars
<1> HIDE DEF w
<1>4. CASE ~ ReadsArg(x)
  BY <1>1, <1>2, <1>4 DEF Text
<1>5. CASE ReadsArg(x) /\ x.conv[1] \in {"c", "s"}
  <2> DEFINE s == x.arg.str
  <2>1. s \in Seq(Char) /\ w - Len(s) \in Int
    BY <1>1
  <2> DEFINE b == Times(w - Len(s), " ")
  <2>2. b \in Seq(Char)
    BY <1>3, <2>1, TimesFacts
  <2>3. Field(x) = IF x.left THEN Cat(s, b) ELSE Cat(b, s)
    BY <1>5 DEF Field, Cat, w
  <2> HIDE DEF s, b
  <2>4. Cat(s, b) \in Seq(Char) /\ Cat(b, s) \in Seq(Char)
    BY <2>1, <2>2, CatType
  <2> QED BY <1>1, <1>5, <2>3, <2>4 DEF Text
<1>6. CASE ReadsArg(x) /\ x.conv[1] \notin {"c", "s"}
  <2> DEFINE neg == Signed(x) /\ x.arg.int < 0
  <2> DEFINE num == Numeral(Magnitude(x), Base(x), Table(x))
  <2>1. x.conv[1] \in Numeric
    BY <1>6 DEF ReadsArg
  <2>2. num \in Seq(Char) /\ neg \in BOOLEAN
    BY <1>1, <2>1, NumberOf, NumeralType
  <2>3. Field(x) = InField(Minus(neg), num, w, x.left, x.zero)
    BY <1>6 DEF Field, InField, Minus, Magnitude, Table, Cat, w
  <2> DEFINE m == Minus(neg)
  <2>4. m \in Seq(Char)
    BY <2>2, MinusFacts
  <2> HIDE DEF num, neg, m
  <2> DEFINE b == Cat(m, num)
  <2>5. b \in Seq(Char)
    BY <2>2, <2>4, CatType
  <2>6. w - Len(b) \in Int
    BY <1>1, <2>5
  <2> DEFINE k == Times(w - Len(b), " ")
  <2> DEFINE z == Times(w - Len(b), "0")
  <2>7. k \in Seq(Char) /\ z \in Seq(Char)
    BY <1>3, <2>6, TimesFacts
  <2>8. InField(m, num, w, x.left, x.zero)
          = IF x.left THEN Cat(b, k) ELSE IF x.zero THEN Cat(Cat(m, z), num) ELSE Cat(k, b)
    BY DEF InField
  <2> HIDE DEF b, k, z
  <2>9. Cat(b, k) \in Seq(Char) /\ Cat(k, b) \in Seq(Char) /\ Cat(m, z) \in Seq(Char)
    BY <2>4, <2>5, <2>7, CatType
  <2>10. Cat(Cat(m, z), num) \in Seq(Char)
    BY <2>2, <2>9, CatType
  <2> QED BY <1>1, <1>6, <2>3, <2>8, <2>9, <2>10 DEF Text, m
<1> QED BY <1>4, <1>5, <1>6

\* What Percent finds behind the '%'
LEMMA ConversionRead ==
  ASSUME NEW x, NEW t, Followed(x, t)
  PROVE  LET p == Flags(Tail(Cat(Spell(x), t)))
         IN  /\ p.left = x.left /\ p.padc = IF x.zero THEN "0" ELSE " "
             /\ p.width = Value(x.width)
             /\ x.conv = <<>> => p.rest = <<>> /\ t = <<>>
             /\ x.conv # <<>> => p.rest # <<>> /\ Head(p.rest) = x.conv[1] /\ Tail(p.rest) = t
<1>1. Tail(Cat(Spell(x), t)) = AtLong(x, t)
  BY SpellIs
<1>2. /\ x.conv \in Seq(Char \ (Digit \cup {"l", "-", "."})) /\ Len(x.conv) <= 1
      /\ t \in Seq(Char) /\ (x.conv # <<>> \/ t = <<>>)
  BY ConversionFields DEF Followed, WellSpelled
<1>3. x.conv \in Seq(Char)
  BY <1>2, SeqMonotonic
<1> DEFINE p == Flags(AtLong(x, t))
<1>6. /\ p.left = x.left /\ p.padc = IF x.zero THEN "0" ELSE " "
      /\ p.width = Value(x.width) /\ p.rest = AtConv(x, t)
  BY FlagsIs
<1> HIDE DEF p
<1>4. CASE x.conv = <<>>
  <2>1. AtConv(x, t) = <<>>
    BY <1>2, <1>4 DEF AtConv, Cat
  <2> QED BY <1>1, <1>2, <1>4, <1>6, <2>1 DEF p
<1>5. CASE x.conv # <<>>
  <2>1. AtConv(x, t) # <<>> /\ Head(AtConv(x, t)) = x.conv[1] /\ Tail(AtConv(x, t)) = t
    <3> DEFINE k == x.conv
    <3>1. k \in Seq(Char) /\ Len(k) <= 1 /\ k # <<>>
      BY <1>2, <1>3, <1>5
    <3> HIDE DEF k
    <3>3. Len(k) = 1
      BY <3>1
    <3> DEFINE a == k[1]
    <3>4. a \in Char /\ k = <<a>>
      BY <3>1, <3>3
    <3> HIDE DEF a
    <3>5. <<a>> \o t # <<>> /\ Head(<<a>> \o t) = a
      BY <1>2, <3>4
    <3>6. Tail(<<a>> \o t) = t
      BY <1>2, <3>4
    <3>2. k \o t # <<>> /\ Head(k \o t) = k[1] /\ Tail(k \o t) = t
      BY <3>4, <3>5, <3>6 DEF a
    <3> QED BY <3>2 DEF AtConv, Cat, k
  <2> QED BY <1>1, <1>5, <1>6, <2>1 DEF p
<1> QED BY <1>4, <1>5

-----------------------------------------------------------------------------
(* The items of a call                                                     *)

AnArg == [int : - Power(2, WORD - 1) .. Power(2, WORD - 1) - 1, str : Seq(Char)]

\* What the items of c are spelled as, and the arguments they take
Spelled(c) == [i \in DOMAIN c.items |-> Spell(c.items[i])]
Taken(item) == IF ReadsArg(item) THEN <<item.arg>> ELSE <<>>
Given(c)   == [i \in DOMAIN c.items |-> Taken(c.items[i])]

\* c is a call with items.
Listed(c) == c \in Calls /\ c.sink # "cons_write"

\* The types of an item and of what it is spelled as
LEMMA OneItem ==
  ASSUME NEW c, Listed(c), NEW k \in 1 .. Len(c.items)
  PROVE  LET x == c.items[k]
         IN  /\ IsText(x) => x.text \in Seq(Char \ {"%"})
             /\ ~ IsText(x) => /\ x \in AConversion /\ WellSpelled(x)
                               /\ k < Len(c.items) => x.conv # <<>>
             /\ Spell(x) \in Seq(Char) /\ Text(x) \in Seq(Char) /\ Taken(x) \in Seq(AnArg)
<1> DEFINE x == c.items[k]
<1>1. /\ c.items \in Seq(ATextItem \cup AConversion)
      /\ \A i \in DOMAIN c.items : ~ IsText(c.items[i]) =>
           WellSpelled(c.items[i]) /\ (i < Len(c.items) => c.items[i].conv # <<>>)
  BY PrintAssumption DEF Listed, WellFormed
<1>2. k \in DOMAIN c.items /\ x \in ATextItem \cup AConversion
  BY <1>1
<1>3. ~ IsText(x) => WellSpelled(x) /\ (k < Len(c.items) => x.conv # <<>>)
  BY <1>1, <1>2
<1> HIDE DEF x
<1>4. <<>> \in Seq(AnArg)
  OBVIOUS
<1>5. CASE x \in ATextItem
  <2>1. IsText(x) /\ x.text \in Seq(Char \ {"%"})
    BY <1>5 DEF ATextItem, IsText
  <2>2. x.text \in Seq(Char)
    BY <2>1, SeqMonotonic
  <2> QED BY <1>4, <2>1, <2>2 DEF Spell, Text, Taken, ReadsArg, x
<1>6. CASE x \in AConversion
  <2>1. ~ IsText(x) /\ WellSpelled(x)
    BY <1>3, <1>6, ConversionFields
  <2>2. <<>> \in Seq(Char)
    OBVIOUS
  <2>3. Followed(x, <<>>)
    BY <1>6, <2>1, <2>2 DEF Followed
  <2>4. Spell(x) \in Seq(Char) /\ Text(x) \in Seq(Char)
    BY <2>3, SpellIs, TextType
  <2>5. Taken(x) \in Seq(AnArg)
    <3>1. x.arg \in AnArg
      BY <1>6 DEF AConversion, AnArg
    <3>2. <<x.arg>> \in Seq(AnArg)
      BY <3>1
    <3> QED BY <1>4, <3>2 DEF Taken
  <2> QED BY <1>3, <1>6, <2>1, <2>4, <2>5 DEF x
<1> QED BY <1>2, <1>5, <1>6

\* The sequences of a call
LEMMA CallLists ==
  ASSUME NEW c, Listed(c)
  PROVE  /\ c.sink \in {"printf", "fprintf"} /\ Len(c.items) \in Nat
         /\ Spelled(c) \in Seq(Seq(Char)) /\ Len(Spelled(c)) = Len(c.items)
         /\ Given(c) \in Seq(Seq(AnArg)) /\ Len(Given(c)) = Len(c.items)
         /\ Texts(c) \in Seq(Seq(Char)) /\ Len(Texts(c)) = Len(c.items)
         /\ \A k \in 1 .. Len(c.items) : /\ Spelled(c)[k] = Spell(c.items[k])
                                         /\ Given(c)[k] = Taken(c.items[k])
                                         /\ Texts(c)[k] = Text(c.items[k])
<1>1. c.sink \in {"printf", "fprintf"} /\ c.items \in Seq(ATextItem \cup AConversion)
  BY PrintAssumption DEF Listed, WellFormed
<1> DEFINE n == Len(c.items)
<1>2. n \in Nat /\ DOMAIN c.items = 1 .. n
  BY <1>1
<1>3. \A k \in 1 .. n : /\ Spell(c.items[k]) \in Seq(Char)
                        /\ Text(c.items[k]) \in Seq(Char)
                        /\ Taken(c.items[k]) \in Seq(AnArg)
  BY OneItem
<1>4. /\ Spelled(c) = [i \in 1 .. n |-> Spell(c.items[i])]
      /\ Given(c) = [i \in 1 .. n |-> Taken(c.items[i])]
      /\ Texts(c) = [i \in 1 .. n |-> Text(c.items[i])]
  BY <1>1, <1>2 DEF Spelled, Given, Texts
<1> HIDE DEF n
<1>5. /\ [i \in 1 .. n |-> Spell(c.items[i])] \in Seq(Seq(Char))
      /\ Len([i \in 1 .. n |-> Spell(c.items[i])]) = n
  BY <1>2, <1>3
<1>6. /\ [i \in 1 .. n |-> Taken(c.items[i])] \in Seq(Seq(AnArg))
      /\ Len([i \in 1 .. n |-> Taken(c.items[i])]) = n
  BY <1>2, <1>3
<1>7. /\ [i \in 1 .. n |-> Text(c.items[i])] \in Seq(Seq(Char))
      /\ Len([i \in 1 .. n |-> Text(c.items[i])]) = n
  BY <1>2, <1>3
<1>8. \A k \in 1 .. n : /\ Spelled(c)[k] = Spell(c.items[k])
                        /\ Given(c)[k] = Taken(c.items[k])
                        /\ Texts(c)[k] = Text(c.items[k])
  BY <1>4
<1> QED BY <1>1, <1>2, <1>4, <1>5, <1>6, <1>7, <1>8 DEF n

\* The next of the sequences in ss
LEMMA NextOne ==
  ASSUME NEW S, NEW ss \in Seq(Seq(S)), NEW k \in 1 .. Len(ss)
  PROVE  /\ Rest(ss, k) \in Seq(S) /\ Rest(ss, k - 1) = Cat(ss[k], Rest(ss, k))
         /\ First(ss, k - 1) \in Seq(S) /\ First(ss, k) = Cat(First(ss, k - 1), ss[k])
<1>1. PICK i \in 0 .. Len(ss) : i = k - 1 /\ k = i + 1 /\ i < Len(ss)
  OBVIOUS
<1>2. k \in 0 .. Len(ss)
  OBVIOUS
<1>3. Rest(ss, k) \in Seq(S)
  BY <1>2, RestFacts
<1>4. Rest(ss, i) = Cat(ss[i + 1], Rest(ss, i + 1))
  BY <1>1, RestFacts
<1>5. First(ss, i) \in Seq(S) /\ First(ss, i + 1) = Cat(First(ss, i), ss[i + 1])
  BY <1>1, FirstFacts
<1> QED BY <1>1, <1>3, <1>4, <1>5

\* Before a conversion, and behind an item
LEMMA Ahead ==
  ASSUME NEW c, Listed(c), NEW k \in 1 .. Len(c.items)
  PROVE  LET x == c.items[k]
             t == Rest(Spelled(c), k)
         IN  /\ t \in Seq(Char) /\ Rest(Spelled(c), k - 1) = Cat(Spell(x), t)
             /\ k = Len(c.items) => t = <<>>
             /\ ~ IsText(x) => Followed(x, t) /\ Has(Rest(Spelled(c), k - 1), "%")
<1> DEFINE x == c.items[k]
<1> DEFINE t == Rest(Spelled(c), k)
<1>1. /\ Spelled(c) \in Seq(Seq(Char)) /\ Len(Spelled(c)) = Len(c.items)
      /\ Spelled(c)[k] = Spell(x)
  BY CallLists
<1>2. t \in Seq(Char) /\ Rest(Spelled(c), k - 1) = Cat(Spell(x), t)
  <2>1. k \in 1 .. Len(Spelled(c))
    BY <1>1
  <2>2. t \in Seq(Char) /\ Rest(Spelled(c), k - 1) = Cat(Spelled(c)[k], t)
    BY <1>1, <2>1, NextOne
  <2> QED BY <1>1, <2>2
<1>3. k = Len(c.items) => t = <<>>
  <2>1. k \in 0 .. Len(Spelled(c))
    BY <1>1
  <2>2. Rest(Spelled(c), Len(Spelled(c))) = <<>>
    BY <1>1, <2>1, RestFacts
  <2> QED BY <1>1, <2>2
<1>4. ~ IsText(x) => x \in AConversion /\ WellSpelled(x) /\ (k < Len(c.items) => x.conv # <<>>)
  BY OneItem
<1>5. k = Len(c.items) \/ k < Len(c.items)
  BY CallLists
<1> HIDE DEF t
<1>6. ASSUME ~ IsText(x) PROVE Followed(x, t) /\ Has(Cat(Spell(x), t), "%")
  <2>1. Followed(x, t)
    BY <1>2, <1>3, <1>4, <1>5, <1>6 DEF Followed
  <2> QED BY <2>1, SpellIs
<1> QED BY <1>2, <1>3, <1>6 DEF t

\* A text ends where a conversion starts.
LEMMA BehindText ==
  ASSUME NEW c, Listed(c), NEW k \in 1 .. Len(c.items), IsText(c.items[k])
  PROVE  LET t == Rest(Spelled(c), k)
         IN  /\ k < Len(c.items) => ~ IsText(c.items[k + 1]) /\ Has(t, "%")
             /\ k = Len(c.items) => t = <<>>
<1>1. ASSUME k < Len(c.items)
      PROVE  ~ IsText(c.items[k + 1]) /\ Has(Rest(Spelled(c), k), "%")
  <2>0. Len(c.items) \in Nat
    BY CallLists
  <2>1. PICK m \in 1 .. Len(c.items) : m = k + 1 /\ k = m - 1
    BY <1>1, <2>0
  <2>2. ~ IsText(c.items[k + 1])
    <3>1. \A i \in 1 .. Len(c.items) - 1 : ~ (IsText(c.items[i]) /\ IsText(c.items[i + 1]))
      BY PrintAssumption DEF Listed, WellFormed
    <3>2. k \in 1 .. Len(c.items) - 1
      BY <1>1, <2>0
    <3> QED BY <3>1, <3>2
  <2>3. Has(Rest(Spelled(c), m - 1), "%")
    BY <2>1, <2>2, Ahead
  <2> QED BY <2>1, <2>2, <2>3
<1> QED BY <1>1, Ahead

-----------------------------------------------------------------------------
(* The output                                                              *)

\* o is what the call has written when i items are done.
Written(c, o, i) ==
    IF c.sink = "printf" THEN o = Console(First(Texts(c), i))
    ELSE \/ Overwrites(c)
         \/ o = First(Texts(c), i) /\ (o # <<>> => \E j \in 1 .. i : Texts(c)[j] # <<>>)

\* An empty piece changes nothing.
LEMMA PutNothing ==
  ASSUME Listed(call), NEW i \in 0 .. Len(call.items), Written(call, out, i)
  PROVE  Written(call, Put(<<>>), i)
<1> DEFINE f == First(Texts(call), i)
<1>1. f \in Seq(Char) /\ Console(f) \in Seq(Char)
  BY CallLists, FirstFacts, ConsoleFacts
<1>2. call.sink \in {"printf", "fprintf"}
  BY CallLists
<1> HIDE DEF f
<1>3. CASE call.sink = "printf"
  <2>1. out = Console(f)
    BY <1>3 DEF Written, f
  <2>2. Console(<<>>) = <<>>
    BY <1>1, ConsoleFacts
  <2>3. Cat(out, <<>>) = out
    BY <1>1, <2>1, CatType
  <2> QED BY <1>3, <2>1, <2>2, <2>3 DEF Put, Cat
<1>4. CASE call.sink = "fprintf"
  <2>1. CASE Overwrites(call)
    BY <1>4, <2>1 DEF Written
  <2>2. CASE ~ Overwrites(call)
    <3>1. out = f
      BY <1>4, <2>2 DEF Written, f
    <3>2. SubSeq(f, 0 + 1, Len(f)) = f
      BY <1>1
    <3>3. <<>> \o f = f
      BY <1>1
    <3>4. Put(<<>>) = out
      BY <1>4, <3>1, <3>2, <3>3 DEF Put
    <3> QED BY <3>4
  <2> QED BY <2>1, <2>2
<1> QED BY <1>2, <1>3, <1>4

\* Putting a text is printing its item.
LEMMA PutText ==
  ASSUME Listed(call), NEW k \in 1 .. Len(call.items), Written(call, out, k - 1)
  PROVE  /\ Written(call, Put(Texts(call)[k]), k)
         /\ Texts(call)[k] = <<>> => Written(call, out, k)
<1> DEFINE T == Texts(call)
<1> DEFINE f == First(T, k - 1)
<1> DEFINE s == T[k]
<1>1. T \in Seq(Seq(Char)) /\ k \in 1 .. Len(T) /\ Len(T) \in Nat
  BY CallLists
<1>2. s \in Seq(Char) /\ f \in Seq(Char) /\ First(T, k) = Cat(f, s)
  BY <1>1, NextOne
<1>3. call.sink \in {"printf", "fprintf"}
  BY CallLists
<1> HIDE DEF f, s, T
<1>4. CASE call.sink = "printf"
  <2>1. out = Console(f)
    BY <1>4 DEF Written, f, T
  <2>2. Console(Cat(f, s)) = Cat(Console(f), Console(s))
    BY <1>2, ConsoleFacts
  <2>3. Put(s) = Console(First(T, k))
    BY <1>2, <1>4, <2>1, <2>2 DEF Put, Cat
  <2>4. s = <<>> => First(T, k) = f
    BY <1>2, CatType
  <2> QED BY <1>4, <2>1, <2>3, <2>4 DEF Written, s, T
<1>5. CASE call.sink = "fprintf"
  <2>1. CASE Overwrites(call)
    BY <1>5, <2>1 DEF Written
  <2>2. CASE ~ Overwrites(call)
    <3>1. out = f /\ (out # <<>> => \E j \in 1 .. k - 1 : T[j] # <<>>)
      BY <1>5, <2>2 DEF Written, f, T
    <3>2. out = <<>> \/ s = <<>>
      <4> SUFFICES ASSUME out # <<>>, s # <<>> PROVE FALSE
        OBVIOUS
      <4>1. PICK j \in 1 .. k - 1 : T[j] # <<>>
        BY <3>1
      <4>3. DOMAIN T = 1 .. Len(T)
        BY <1>1
      <4>4. j \in 1 .. Len(T) /\ k \in 1 .. Len(T) /\ j < k
        BY <1>1, <4>1
      <4>2. j \in DOMAIN T /\ k \in DOMAIN T /\ j < k
        BY <4>3, <4>4
      <4> QED BY <1>5, <2>2, <4>1, <4>2 DEF Overwrites, T, s
    <3>3. Cat(f, s) = IF s = <<>> THEN f ELSE s
      BY <1>2, <3>1, <3>2, CatType
    <3>4. Put(s) = Cat(f, s)
      <4>1. CASE s = <<>>
        <5>1. SubSeq(f, 0 + 1, Len(f)) = f
          BY <1>2
        <5>2. <<>> \o f = f
          BY <1>2
        <5> QED BY <1>5, <3>1, <3>3, <4>1, <5>1, <5>2 DEF Put
      <4>2. CASE s # <<>>
        <5>1. out = <<>> /\ f = <<>>
          BY <3>1, <3>2, <4>2
        <5>2. Len(s) \in Nat
          BY <1>2
        <5>3. SubSeq(<<>>, Len(s) + 1, 0) = <<>>
          BY <5>2, SubSeqEmpty
        <5>4. s \o <<>> = s
          BY <1>2
        <5> QED BY <1>5, <3>3, <4>2, <5>1, <5>3, <5>4 DEF Put
      <4> QED BY <4>1, <4>2
    <3>5. ASSUME Cat(f, s) # <<>> PROVE \E j \in 1 .. k : T[j] # <<>>
      <4>1. CASE s # <<>>
        BY <1>1, <4>1 DEF s
      <4>2. CASE s = <<>>
        <5>1. PICK j \in 1 .. k - 1 : T[j] # <<>>
          BY <3>1, <3>3, <3>5, <4>2
        <5>2. j \in 1 .. k
          BY <1>1
        <5> QED BY <5>1, <5>2
      <4> QED BY <4>1, <4>2
    <3>6. Written(call, Cat(f, s), k)
      BY <1>2, <1>5, <3>5 DEF Written, T
    <3>7. s = <<>> => out = Cat(f, s)
      BY <3>1, <3>3
    <3> QED BY <3>4, <3>6, <3>7 DEF s, T
  <2> QED BY <2>1, <2>2
<1> QED BY <1>3, <1>4, <1>5

-----------------------------------------------------------------------------
(* The steps                                                               *)

\* Scan takes all characters in front of a '%'.
LEMMA ScanTakes ==
  ASSUME Scan, NEW x \in Seq(Char \ {"%"}), NEW y \in Seq(Char), y = <<>> \/ Has(y, "%"),
         fmt = Cat(x, y)
  PROVE  /\ fmt' = y /\ UNCHANGED <<call, data, ap>>
         /\ \/ Len(x) > LP_MAX_BUF /\ status' = "halted"
            \/ /\ Len(x) <= LP_MAX_BUF /\ out' = Put(x)
               /\ status' = IF y # <<>> THEN "percent"
                            ELSE IF call.sink = "cons_write" THEN "write" ELSE "done"
<1> DEFINE D == Char \ {"%"}
<1>1. x \in Seq(Char) /\ (\A i \in 1 .. Len(x) : x[i] \in D) /\ Len(x) \in Nat
  BY SeqMonotonic, ElementOfSeq
<1>2. y = <<>> \/ Head(y) \notin D
  BY DEF Has
<1> HIDE DEF D
<1>3. /\ Prefix(fmt, D) = Len(x)
      /\ SubSeq(fmt, 1, Len(x)) = x
      /\ Drop(fmt, Len(x)) = y
  <2>1. AllIn(x, D)
    BY <1>1 DEF AllIn
  <2>2. /\ Prefix(Cat(x, y), D) = Len(x)
        /\ SubSeq(Cat(x, y), 1, Len(x)) = x
        /\ Drop(Cat(x, y), Len(x)) = y
    BY <1>1, <1>2, <2>1, PrefixIs
  <2> QED BY <2>2
<1>4. /\ fmt' = y /\ UNCHANGED <<call, data, ap>>
      /\ Output(x, IF y # <<>> THEN "percent"
                   ELSE IF call.sink = "cons_write" THEN "write" ELSE "done")
  BY <1>3 DEF Scan, D
<1>5. LP_MAX_BUF \in Nat
  BY PrintAssumption
<1>6. Len(x) > LP_MAX_BUF \/ Len(x) <= LP_MAX_BUF
  BY <1>1, <1>5
<1>7. Len(x) <= LP_MAX_BUF => ~ (Len(x) > LP_MAX_BUF)
  BY <1>1, <1>5
<1> QED BY <1>4, <1>6, <1>7 DEF Output

\* Percent prints one conversion.
LEMMA PercentPrints ==
  ASSUME Percent, NEW x, NEW t, Followed(x, t), fmt = Cat(Spell(x), t),
         NEW r \in Seq(AnArg), ap = Cat(Taken(x), r)
  PROVE  /\ fmt' = t /\ ap' = r /\ UNCHANGED <<call, data>>
         /\ \/ Len(Text(x)) > LP_MAX_BUF /\ status' \in {"halted", "smashed"}
            \/ /\ Len(Text(x)) <= LP_MAX_BUF /\ status' = "scan"
               /\ out' = Put(Text(x)) \/ (Text(x) = <<>> /\ out' = out)
<1> DEFINE p == Flags(Tail(fmt))
<1>1. /\ p.left = x.left /\ p.padc = IF x.zero THEN "0" ELSE " "
      /\ p.width = Value(x.width)
      /\ x.conv = <<>> => p.rest = <<>> /\ t = <<>>
      /\ x.conv # <<>> => p.rest # <<>> /\ Head(p.rest) = x.conv[1] /\ Tail(p.rest) = t
  <2> DEFINE q == Flags(Tail(Cat(Spell(x), t)))
  <2>1. /\ q.left = x.left /\ q.padc = IF x.zero THEN "0" ELSE " "
        /\ q.width = Value(x.width)
        /\ x.conv = <<>> => q.rest = <<>> /\ t = <<>>
        /\ x.conv # <<>> => q.rest # <<>> /\ Head(q.rest) = x.conv[1] /\ Tail(q.rest) = t
    BY ConversionRead
  <2>2. p = q
    OBVIOUS
  <2> HIDE DEF p, q
  <2> QED BY <2>1, <2>2
<1>2. /\ x \in AConversion /\ ~ IsText(x)
      /\ x.conv = <<"c">> => Len(x.arg.str) = 1
      /\ x.conv \in Seq(Char \ (Digit \cup {"l", "-", "."})) /\ Len(x.conv) <= 1
  BY ConversionFields DEF Followed, WellSpelled
<1>3. Text(x) \in Seq(Char) /\ Len(Text(x)) \in Nat /\ LP_MAX_BUF \in Nat
  BY TextType, PrintAssumption
<1>4. Len(Text(x)) <= LP_MAX_BUF \/ Len(Text(x)) > LP_MAX_BUF
  BY <1>3
<1>5. ~ (Len(Text(x)) <= LP_MAX_BUF /\ Len(Text(x)) > LP_MAX_BUF)
  BY <1>3
<1>6. /\ fmt' = IF p.rest = <<>> THEN <<>> ELSE Tail(p.rest)
      /\ UNCHANGED <<call, data>>
  BY DEF Percent
<1> DEFINE arg(S) == p.rest # <<>> /\ Head(p.rest) \in S /\ ap' = Tail(ap)
<1>7. \/ p.rest = <<>> /\ status' = "scan" /\ UNCHANGED <<ap, out>>
      \/ arg(Numeric) /\ OutputBuf(Convert(Head(p.rest), Head(ap).int, p.width, p.left, p.padc))
      \/ arg({"c"}) /\ OutputBuf(PrintChar(Head(ap).str[1], p.width, p.left))
      \/ arg({"s"}) /\ OutputBuf(PrintString(Head(ap).str, p.width, p.left))
      \/ /\ p.rest # <<>> /\ Head(p.rest) \notin Numeric \cup {"c", "s"}
         /\ Output(<<Head(p.rest)>>, "scan") /\ UNCHANGED ap
  BY DEF Percent
<1>8. fmt' = t
  BY <1>1, <1>6
<1> HIDE DEF p
<1>9. CASE x.conv = <<>>
  <2>1. Text(x) = <<>> /\ Taken(x) = <<>>
    BY <1>2, <1>9 DEF Text, Taken, ReadsArg
  <2>2. status' = "scan" /\ UNCHANGED <<ap, out>>
    BY <1>1, <1>7, <1>9
  <2>3. ap = r
    BY <2>1, CatType
  <2>4. Len(Text(x)) <= LP_MAX_BUF
    BY <1>3, <2>1
  <2> QED BY <1>6, <1>8, <2>1, <2>2, <2>3, <2>4
<1>10. CASE x.conv # <<>> /\ x.conv[1] \in Numeric \cup {"c", "s"}
  <2>1. ReadsArg(x) /\ Text(x) = Field(x) /\ Taken(x) = <<x.arg>>
    BY <1>2, <1>10 DEF Text, Taken, ReadsArg
  <2>2. Head(ap) = x.arg /\ Tail(ap) = r
    <3>1. x.arg \in AnArg
      BY <1>2 DEF AConversion, AnArg
    <3>2. ap = <<x.arg>> \o r
      BY <2>1 DEF Cat
    <3>3. Tail(<<x.arg>> \o r) = r
      BY <3>1
    <3>4. Head(<<x.arg>> \o r) = x.arg
      BY <3>1
    <3> QED BY <3>2, <3>3, <3>4
  <2>3. ap' = r /\ OutputBuf(Field(x))
    <3>1. CASE x.conv[1] \in Numeric
      <4>1. x.conv[1] \notin {"c", "s"}
        BY <3>1 DEF Numeric
      <4>2. ap' = r
           /\ OutputBuf(Convert(x.conv[1], x.arg.int, Value(x.width), x.left, IF x.zero THEN "0" ELSE " "))
        BY <1>1, <1>7, <1>10, <2>2, <3>1, <4>1
      <4> QED BY <1>2, <3>1, <4>2, NumberPrinted
    <3>2. CASE x.conv[1] = "c"
      <4>1. x.conv[1] \notin Numeric /\ x.conv[1] # "s"
        BY <3>2 DEF Numeric
      <4>2. ap' = r /\ OutputBuf(PrintChar(x.arg.str[1], Value(x.width), x.left))
        BY <1>1, <1>7, <1>10, <2>2, <3>2, <4>1
      <4>3. Len(x.arg.str) = 1
        <5>1. x.conv = <<"c">>
          BY <1>2, <1>10, <3>2
        <5> QED BY <1>2, <5>1
      <4> QED BY <1>2, <3>2, <4>2, <4>3, CharPrinted
    <3>3. CASE x.conv[1] = "s"
      <4>1. x.conv[1] \notin Numeric /\ x.conv[1] # "c"
        BY <3>3 DEF Numeric
      <4>2. ap' = r /\ OutputBuf(PrintString(x.arg.str, Value(x.width), x.left))
        BY <1>1, <1>7, <1>10, <2>2, <3>3, <4>1
      <4> QED BY <1>2, <3>3, <4>2, StringPrinted
    <3> QED BY <1>10, <3>1, <3>2, <3>3
  <2> QED BY <1>4, <1>5, <1>6, <1>8, <2>1, <2>3 DEF OutputBuf, Output
<1>11. CASE x.conv # <<>> /\ x.conv[1] \notin Numeric \cup {"c", "s"}
  <2>1. Text(x) = x.conv /\ Taken(x) = <<>>
    BY <1>2, <1>11 DEF Text, Taken, ReadsArg
  <2>2. x.conv = <<x.conv[1]>>
    BY <1>2, <1>11
  <2>3. Output(Text(x), "scan") /\ UNCHANGED ap
    BY <1>1, <1>7, <1>11, <2>1, <2>2
  <2>4. ap = r
    BY <2>1, CatType
  <2> QED BY <1>4, <1>5, <1>6, <1>8, <2>3, <2>4 DEF Output
<1> QED BY <1>9, <1>10, <1>11

-----------------------------------------------------------------------------
(* The inductive invariant                                                 *)

\* i items of c are done: f and a are the format and the arguments of the
\* others.
AfterItem(c, f, a, o, s, i) ==
    /\ i \in 0 .. Len(c.items)
    /\ f = Rest(Spelled(c), i) /\ a = Rest(Given(c), i)
    /\ Written(c, o, i)
    /\ \A j \in 1 .. i : Len(Texts(c)[j]) <= LP_MAX_BUF
    /\ \/ s = "scan"
       \/ s = "percent" /\ i < Len(c.items) /\ ~ IsText(c.items[i + 1])
       \/ s = "done" /\ i = Len(c.items)

\* One text that does not fit
LEMMA LongText ==
  ASSUME NEW c, Listed(c), NEW k \in 1 .. Len(c.items), Len(Texts(c)[k]) > LP_MAX_BUF
  PROVE  TooLong(c)
<1>1. k \in DOMAIN Texts(c)
  BY CallLists
<1> QED BY <1>1 DEF TooLong, Listed

\* The item that is next has been done.
LEMMA ItemDone ==
  ASSUME Listed(call), NEW k \in 1 .. Len(call.items), Len(Text(call.items[k])) <= LP_MAX_BUF,
         AfterItem(call, fmt, ap, out, status, k - 1)
  PROVE  /\ \A j \in 1 .. k : Len(Texts(call)[j]) <= LP_MAX_BUF
         /\ Written(call, Put(Text(call.items[k])), k)
         /\ Text(call.items[k]) = <<>> => Written(call, out, k)
<1>1. Texts(call)[k] = Text(call.items[k])
  BY CallLists
<1>2. Written(call, out, k - 1) /\ \A j \in 1 .. k - 1 : Len(Texts(call)[j]) <= LP_MAX_BUF
  BY DEF AfterItem
<1>3. /\ Written(call, Put(Texts(call)[k]), k)
      /\ Texts(call)[k] = <<>> => Written(call, out, k)
  BY <1>2, PutText
<1>4. \A j \in 1 .. k : j = k \/ j \in 1 .. k - 1
  OBVIOUS
<1> QED BY <1>1, <1>2, <1>3, <1>4

\* va_arg hands out the argument of the next item.
LEMMA GivenNext ==
  ASSUME NEW c, Listed(c), NEW k \in 1 .. Len(c.items)
  PROVE  /\ Rest(Given(c), k) \in Seq(AnArg)
         /\ Rest(Given(c), k - 1) = Cat(Taken(c.items[k]), Rest(Given(c), k))
<1>1. /\ Given(c) \in Seq(Seq(AnArg)) /\ k \in 1 .. Len(Given(c))
      /\ Given(c)[k] = Taken(c.items[k])
  BY CallLists
<1> QED BY <1>1, NextOne

\* Scan goes past a text, or stays before a conversion or at the end.
LEMMA ScanItems ==
  ASSUME Listed(call), NEW i, AfterItem(call, fmt, ap, out, status, i), Scan
  PROVE  \/ status' = "halted" /\ TooLong(call)
         \/ \E m : AfterItem(call, fmt', ap', out', status', m)
<1> DEFINE n == Len(call.items)
<1>1. /\ n \in Nat /\ i \in 0 .. n
      /\ fmt = Rest(Spelled(call), i) /\ ap = Rest(Given(call), i)
      /\ Written(call, out, i)
      /\ \A j \in 1 .. i : Len(Texts(call)[j]) <= LP_MAX_BUF
  BY CallLists DEF AfterItem
<1>2. fmt \in Seq(Char)
  <2>1. Spelled(call) \in Seq(Seq(Char)) /\ i \in 0 .. Len(Spelled(call))
    BY <1>1, CallLists
  <2> QED BY <1>1, <2>1, RestFacts
<1>3. Written(call, Put(<<>>), i)
  BY <1>1, PutNothing
<1>4. call.sink # "cons_write"
  BY DEF Listed
<1>5. ASSUME fmt = <<>> \/ Has(fmt, "%")
      PROVE  /\ fmt' = fmt /\ ap' = ap /\ out' = Put(<<>>)
             /\ status' = IF fmt # <<>> THEN "percent" ELSE "done"
  <2>1. <<>> \in Seq(Char \ {"%"}) /\ Len(<<>>) = 0
    OBVIOUS
  <2>2. fmt = Cat(<<>>, fmt)
    BY <1>2, CatType
  <2>3. PICK f : f = fmt
    OBVIOUS
  <2>4. /\ fmt' = f /\ UNCHANGED <<call, data, ap>>
        /\ \/ Len(<<>>) > LP_MAX_BUF /\ status' = "halted"
           \/ /\ Len(<<>>) <= LP_MAX_BUF /\ out' = Put(<<>>)
              /\ status' = IF f # <<>> THEN "percent"
                           ELSE IF call.sink = "cons_write" THEN "write" ELSE "done"
    <3>1. f \in Seq(Char) /\ (f = <<>> \/ Has(f, "%")) /\ fmt = Cat(<<>>, f)
      BY <1>2, <1>5, <2>2, <2>3
    <3> QED BY <2>1, <3>1, ScanTakes
  <2>5. ~ (Len(<<>>) > LP_MAX_BUF)
    BY <2>1, PrintAssumption
  <2> QED BY <1>4, <2>3, <2>4, <2>5
<1>6. CASE i = n
  <2>1. fmt = <<>>
    BY <1>1, <1>6, CallLists, RestFacts
  <2>2. AfterItem(call, fmt', ap', out', status', i)
    BY <1>1, <1>3, <1>5, <1>6, <2>1 DEF AfterItem
  <2> QED BY <2>2
<1>7. CASE i < n /\ ~ IsText(call.items[i + 1])
  <2>1. PICK k \in 1 .. n : k = i + 1 /\ i = k - 1
    BY <1>1, <1>7
  <2>2. Has(fmt, "%")
    BY <1>1, <1>7, <2>1, Ahead
  <2>3. fmt # <<>>
    BY <2>2 DEF Has
  <2>4. AfterItem(call, fmt', ap', out', status', i)
    BY <1>1, <1>3, <1>5, <1>7, <2>2, <2>3 DEF AfterItem
  <2> QED BY <2>4
<1>8. CASE i < n /\ IsText(call.items[i + 1])
  <2>1. PICK k \in 1 .. n : k = i + 1 /\ i = k - 1
    BY <1>1, <1>8
  <2>2. PICK x : x = call.items[k]
    OBVIOUS
  <2>3. PICK t : t = Rest(Spelled(call), k)
    OBVIOUS
  <2>4. /\ IsText(x) /\ x.text \in Seq(Char \ {"%"}) /\ t \in Seq(Char)
        /\ fmt = Cat(Spell(x), t) /\ Spell(x) = x.text /\ Text(x) = x.text /\ Taken(x) = <<>>
    <3>1. IsText(x)
      BY <1>8, <2>1, <2>2
    <3>2. x.text \in Seq(Char \ {"%"})
      BY <2>2, <3>1, OneItem
    <3>3. t \in Seq(Char) /\ fmt = Cat(Spell(x), t)
      BY <1>1, <2>1, <2>2, <2>3, Ahead
    <3> QED BY <3>1, <3>2, <3>3 DEF Spell, Text, Taken, ReadsArg
  <2>5. /\ k < n => ~ IsText(call.items[k + 1]) /\ Has(t, "%")
        /\ k = n => t = <<>>
    BY <1>8, <2>1, <2>3, BehindText
  <2>6. (k < n \/ k = n) /\ (t # <<>> => k < n) /\ (t = <<>> => k = n)
    <3>1. k < n \/ k = n
      BY <1>1
    <3>2. k < n => t # <<>>
      BY <2>5 DEF Has
    <3> QED BY <2>5, <3>1, <3>2
  <2>7. /\ fmt' = t /\ UNCHANGED <<call, data, ap>>
        /\ \/ Len(x.text) > LP_MAX_BUF /\ status' = "halted"
           \/ /\ Len(x.text) <= LP_MAX_BUF /\ out' = Put(x.text)
              /\ status' = IF t # <<>> THEN "percent"
                           ELSE IF call.sink = "cons_write" THEN "write" ELSE "done"
    <3>1. t = <<>> \/ Has(t, "%")
      BY <2>5, <2>6
    <3>2. fmt = Cat(x.text, t)
      BY <2>4
    <3> QED BY <2>4, <3>1, <3>2, ScanTakes
  <2>8. Texts(call)[k] = x.text
    BY <2>2, <2>4, CallLists
  <2>9. CASE Len(x.text) > LP_MAX_BUF /\ status' = "halted"
    BY <2>8, <2>9, LongText
  <2>10. CASE Len(x.text) <= LP_MAX_BUF /\ out' = Put(x.text)
                /\ status' = IF t # <<>> THEN "percent" ELSE "done"
    <3>1. AfterItem(call, fmt, ap, out, status, k - 1)
      BY <2>1
    <3>2. /\ \A j \in 1 .. k : Len(Texts(call)[j]) <= LP_MAX_BUF
          /\ Written(call, Put(x.text), k)
      BY <2>2, <2>4, <2>10, <3>1, ItemDone
    <3>3. ap = Rest(Given(call), k)
      <4>1. Rest(Given(call), k) \in Seq(AnArg) /\ Rest(Given(call), k - 1) = Cat(<<>>, Rest(Given(call), k))
        BY <2>2, <2>4, GivenNext
      <4> QED BY <1>1, <2>1, <4>1, CatType
    <3>4. k \in 0 .. n
      BY <1>1
    <3>6. \/ status' = "percent" /\ k < n /\ ~ IsText(call.items[k + 1])
          \/ status' = "done" /\ k = n
      <4>1. CASE t = <<>>
        BY <2>6, <2>10, <4>1
      <4>2. CASE t # <<>>
        BY <2>5, <2>6, <2>10, <4>2
      <4> QED BY <4>1, <4>2
    <3>5. AfterItem(call, fmt', ap', out', status', k)
      BY <2>3, <2>7, <2>10, <3>2, <3>3, <3>4, <3>6 DEF AfterItem
    <3> QED BY <3>5
  <2> QED BY <1>4, <2>7, <2>9, <2>10
<1>9. i = n \/ i < n
  BY <1>1
<1> QED BY <1>6, <1>7, <1>8, <1>9

\* Percent goes past a conversion.
LEMMA PercentItems ==
  ASSUME Listed(call), NEW i, AfterItem(call, fmt, ap, out, status, i), Percent
  PROVE  \/ status' \in {"halted", "smashed"} /\ TooLong(call)
         \/ \E m : AfterItem(call, fmt', ap', out', status', m)
<1> DEFINE n == Len(call.items)
<1>1. status = "percent"
  BY DEF Percent
<1>2. /\ n \in Nat /\ i \in 0 .. n /\ i < n /\ ~ IsText(call.items[i + 1])
      /\ fmt = Rest(Spelled(call), i) /\ ap = Rest(Given(call), i)
  BY <1>1, CallLists DEF AfterItem
<1>3. PICK k \in 1 .. n : k = i + 1 /\ i = k - 1
  BY <1>2
<1>4. PICK x : x = call.items[k]
  OBVIOUS
<1>5. PICK t : t = Rest(Spelled(call), k)
  OBVIOUS
<1>6. PICK r : r = Rest(Given(call), k)
  OBVIOUS
<1>7. Followed(x, t) /\ fmt = Cat(Spell(x), t)
  <2>1. ~ IsText(x)
    BY <1>2, <1>3, <1>4
  <2> QED BY <1>2, <1>3, <1>4, <1>5, <2>1, Ahead
<1>8. r \in Seq(AnArg) /\ ap = Cat(Taken(x), r)
  BY <1>2, <1>3, <1>4, <1>6, GivenNext
<1>9. /\ fmt' = t /\ ap' = r /\ UNCHANGED <<call, data>>
      /\ \/ Len(Text(x)) > LP_MAX_BUF /\ status' \in {"halted", "smashed"}
         \/ /\ Len(Text(x)) <= LP_MAX_BUF /\ status' = "scan"
            /\ out' = Put(Text(x)) \/ (Text(x) = <<>> /\ out' = out)
  BY <1>7, <1>8, PercentPrints
<1>10. CASE Len(Text(x)) > LP_MAX_BUF /\ status' \in {"halted", "smashed"}
  <2>1. Texts(call)[k] = Text(x)
    BY <1>4, CallLists
  <2> QED BY <1>10, <2>1, LongText
<1>11. CASE /\ Len(Text(x)) <= LP_MAX_BUF /\ status' = "scan"
            /\ out' = Put(Text(x)) \/ (Text(x) = <<>> /\ out' = out)
  <2>1. AfterItem(call, fmt, ap, out, status, k - 1)
    BY <1>3
  <2>2. /\ \A j \in 1 .. k : Len(Texts(call)[j]) <= LP_MAX_BUF
        /\ Written(call, Put(Text(x)), k)
        /\ Text(x) = <<>> => Written(call, out, k)
    BY <1>4, <1>11, <2>1, ItemDone
  <2>3. Written(call, out', k)
    BY <1>11, <2>2
  <2>4. k \in 0 .. n
    BY <1>2
  <2>5. AfterItem(call, fmt', ap', out', status', k)
    BY <1>5, <1>6, <1>9, <1>11, <2>2, <2>3, <2>4 DEF AfterItem
  <2> QED BY <2>5
<1> QED BY <1>9, <1>10, <1>11

-----------------------------------------------------------------------------
(* cons_write                                                              *)

\* The item of a piece of the data
Piece(s) == [long |-> FALSE, left |-> FALSE, zero |-> FALSE, width |-> <<>>, prec |-> <<>>,
             conv |-> <<"s">>, arg |-> [int |-> 0, str |-> s]]

\* A piece is a conversion that prints the string it is given.
LEMMA PieceFacts ==
  ASSUME NEW s \in Seq(Char)
  PROVE  /\ Followed(Piece(s), <<>>) /\ Spell(Piece(s)) = <<"%", "s">>
         /\ Text(Piece(s)) = s /\ Taken(Piece(s)) = <<[int |-> 0, str |-> s]>>
<1> DEFINE x == Piece(s)
<1>1. Value(<<>>) = 0
  <2>1. <<>> \in Seq(Digit)
    OBVIOUS
  <2> QED BY <2>1, ValueFacts
<1>2. /\ WORD - 1 \in Nat /\ 0 \in - Power(2, WORD - 1) .. Power(2, WORD - 1) - 1
      /\ 0 < Power(2, WORD - 1)
  <2>1. WORD - 1 \in Nat /\ 2 \in Nat \ {0}
    BY PrintAssumption
  <2>2. Power(2, WORD - 1) \in Nat \ {0}
    BY <2>1, PowerFacts
  <2>3. \A p \in Nat \ {0} : 0 \in - p .. p - 1 /\ p > 0
    OBVIOUS
  <2> QED BY <2>1, <2>2, <2>3
<1>3. "s" \in Char \ (Digit \cup {"l", "-", "."})
  <2>1. "s" \notin Digit
    <3>1. \A i \in 1 .. 10 : DIGITS[i] \in {"0", "1", "2", "3", "4", "5", "6", "7", "8", "9"}
      BY DEF DIGITS
    <3> QED BY <3>1 DEF Digit
  <2> QED BY <2>1, PlainChars
<1>4. /\ x.long = FALSE /\ x.left = FALSE /\ x.zero = FALSE /\ x.width = <<>> /\ x.prec = <<>>
      /\ x.conv = <<"s">> /\ x.arg = [int |-> 0, str |-> s] /\ x.arg.str = s /\ ~ IsText(x)
  BY DEF Piece, IsText
<1>5. x \in AConversion
  <2>1. <<"s">> \in Seq(Char \ (Digit \cup {"l", "-", "."})) /\ <<>> \in Seq(Digit)
    BY <1>3
  <2>2. [int |-> 0, str |-> s] \in [int : - Power(2, WORD - 1) .. Power(2, WORD - 1) - 1, str : Seq(Char)]
    BY <1>2
  <2> QED BY <2>1, <2>2 DEF Piece, AConversion
<1>6. <<>> \in Seq(Char) /\ Len(<<"s">>) = 1 /\ <<"s">> # <<>> /\ <<"s">>[1] = "s" /\ <<"s">> # <<"c">>
  OBVIOUS
<1>7. WellSpelled(x)
  <2>1. Value(x.width) < Power(2, WORD - 1)
    BY <1>1, <1>2, <1>4
  <2>2. Len(x.conv) <= 1 /\ (x.width = <<>> \/ x.width[1] # "0") /\ x.conv # <<"c">>
    BY <1>4, <1>6
  <2> QED BY <2>1, <2>2 DEF WellSpelled
<1> HIDE DEF x
<1>8. Followed(x, <<>>)
  BY <1>4, <1>5, <1>6, <1>7 DEF Followed
<1>9. Spell(x) = <<"%", "s">>
  <2>1. Spell(x) = <<"%">> \o <<>> \o <<>> \o <<>> \o <<>> \o <<>> \o <<"s">>
    BY <1>4 DEF Spell
  <2>2. \A a, b \in Char : <<a>> \o <<>> = <<a>> /\ <<a>> \o <<b>> = <<a, b>>
    <3> TAKE a, b \in Char
    <3>1. <<a>> \o <<>> = <<a>>
      OBVIOUS
    <3> DEFINE u == <<a>> \o <<b>>
    <3> DEFINE v == <<a, b>>
    <3>3. u \in Seq(Char) /\ Len(u) = 2 /\ u[1] = a /\ u[2] = b
      OBVIOUS
    <3>4. v \in Seq(Char) /\ Len(v) = 2 /\ v[1] = a /\ v[2] = b
      OBVIOUS
    <3> HIDE DEF u, v
    <3>5. \A i \in 1 .. 2 : i = 1 \/ i = 2
      OBVIOUS
    <3>6. u = v
      BY <3>3, <3>4, <3>5, SeqEqual
    <3>2. <<a>> \o <<b>> = <<a, b>>
      BY <3>6 DEF u, v
    <3> QED BY <3>1, <3>2
  <2>3. "%" \in Char /\ "s" \in Char
    BY PlainChars
  <2> QED BY <2>1, <2>2, <2>3
<1>10. ReadsArg(x)
  BY <1>4, <1>6 DEF ReadsArg
<1>11. Field(x) = s
  <2>1. Len(s) \in Nat
    OBVIOUS
  <2>2. Field(x) = Times(0 - Len(s), " ") \o s
    BY <1>1, <1>4, <1>6 DEF Field
  <2>3. Times(0 - Len(s), " ") = <<>>
    <3>1. (IF 0 - Len(s) > 0 THEN 0 - Len(s) ELSE 0) = 0
      BY <2>1
    <3>2. Times(0 - Len(s), " ") = [i \in 1 .. 0 |-> " "]
      BY <3>1 DEF Times
    <3>3. [i \in 1 .. 0 |-> " "] = <<>>
      OBVIOUS
    <3> QED BY <3>2, <3>3
  <2>4. <<>> \o s = s
    OBVIOUS
  <2> QED BY <2>2, <2>3, <2>4
<1> QED BY <1>4, <1>8, <1>9, <1>10, <1>11 DEF Text, Taken, x

\* o is printed, the piece in f and a and the data d are not.
InPieces(c, d, f, a, o, s) ==
    /\ d \in Seq(Char) /\ o \in Seq(Char) /\ Len(d) <= Len(c.data)
    /\ \/ /\ s \in {"scan", "write", "done"} /\ f = <<>> /\ a = <<>>
          /\ Cat(o, Console(d)) = Console(c.data)
          /\ ~ TooLong(c) \/ (s = "write" /\ d = c.data)
          /\ s = "done" => d = <<>>
       \/ /\ s \in {"scan", "percent"} /\ f = <<"%", "s">>
          /\ \E p \in Seq(Char) : /\ a = <<[int |-> 0, str |-> p]>>
                                  /\ Cat(o, Console(Cat(p, d))) = Console(c.data)
                                  /\ Len(p) > LP_MAX_BUF <=> TooLong(c)

\* c writes to the console.
ToConsole(c) == c \in Calls /\ c.sink = "cons_write"

\* The data of cons_write, and when they are too long
LEMMA DataFacts ==
  ASSUME NEW c, ToConsole(c)
  PROVE  /\ c.data \in Seq(Char)
         /\ TooLong(c) <=> Len(c.data) > LP_MAX_BUF /\ CHUNK > LP_MAX_BUF
<1>1. c.sink = "cons_write" /\ c.data \in Seq(Char)
  BY PrintAssumption DEF ToConsole
<1>2. Texts(c) = <<c.data>>
  BY <1>1 DEF Texts
<1>3. DOMAIN <<c.data>> = {1} /\ <<c.data>>[1] = c.data
  OBVIOUS
<1>4. TooLong(c) <=> Len(c.data) > LP_MAX_BUF /\ CHUNK > LP_MAX_BUF
  BY <1>1, <1>2, <1>3 DEF TooLong
<1> QED BY <1>1, <1>4

\* An empty piece changes nothing here either.
LEMMA ConsPutNothing ==
  ASSUME ToConsole(call), out \in Seq(Char)
  PROVE  Put(<<>>) = out
<1>1. Console(<<>>) = <<>>
  BY ConsoleFacts
<1>2. out \o <<>> = out
  OBVIOUS
<1> QED BY <1>1, <1>2 DEF Put, ToConsole

\* Scan finds the '%' of a piece, or the end of its format.
LEMMA ScanPieces ==
  ASSUME ToConsole(call), InPieces(call, data, fmt, ap, out, status), Scan
  PROVE  InPieces(call, data', fmt', ap', out', status')
<1>1. status = "scan"
  BY DEF Scan
<1>2. PICK f : f = fmt
  OBVIOUS
<1>3. f = <<>> \/ f = <<"%", "s">>
  BY <1>2 DEF InPieces
<1>4. f \in Seq(Char) /\ (f = <<>> \/ Has(f, "%"))
  <2>1. "%" \in Char /\ "s" \in Char
    BY PlainChars
  <2>2. <<"%", "s">> \in Seq(Char) /\ Head(<<"%", "s">>) = "%" /\ <<"%", "s">> # <<>>
    BY <2>1
  <2>3. CASE f = <<>>
    BY <2>3
  <2>4. CASE f = <<"%", "s">>
    <3>1. f \in Seq(Char) /\ f # <<>> /\ Head(f) = "%"
      BY <2>2, <2>4, Zenon
    <3> QED BY <3>1, Zenon DEF Has
  <2> QED BY <1>3, <2>3, <2>4
<1>5. <<>> \in Seq(Char \ {"%"}) /\ Len(<<>>) = 0 /\ fmt = Cat(<<>>, f)
  BY <1>2, <1>4, CatType
<1>6. ~ (Len(<<>>) > LP_MAX_BUF)
  BY <1>5, PrintAssumption
<1>7. /\ fmt' = f /\ UNCHANGED <<call, data, ap>> /\ out' = Put(<<>>)
      /\ status' = IF f # <<>> THEN "percent"
                   ELSE IF call.sink = "cons_write" THEN "write" ELSE "done"
  BY <1>4, <1>5, <1>6, ScanTakes
<1>8. out' = out
  BY <1>7, ConsPutNothing DEF InPieces
<1>9. CASE f = <<>>
  <2>1. status' = "write"
    BY <1>7, <1>9 DEF ToConsole
  <2>2. fmt # <<"%", "s">>
    BY <1>2, <1>9
  <2> QED BY <1>1, <1>2, <1>7, <1>8, <1>9, <2>1, <2>2 DEF InPieces
<1>10. CASE f = <<"%", "s">>
  <2>1. status' = "percent" /\ fmt # <<>>
    BY <1>2, <1>7, <1>10
  <2> QED BY <1>2, <1>7, <1>8, <1>10, <2>1 DEF InPieces
<1> QED BY <1>3, <1>9, <1>10

\* Percent prints the piece, if it fits.
LEMMA PercentPieces ==
  ASSUME ToConsole(call), InPieces(call, data, fmt, ap, out, status), Percent
  PROVE  \/ status' \in {"halted", "smashed"} /\ TooLong(call)
         \/ InPieces(call, data', fmt', ap', out', status')
<1>1. status = "percent"
  BY DEF Percent
<1>2. /\ data \in Seq(Char) /\ out \in Seq(Char) /\ Len(data) <= Len(call.data)
      /\ fmt = <<"%", "s">>
  BY <1>1 DEF InPieces
<1>3. PICK p \in Seq(Char) : /\ ap = <<[int |-> 0, str |-> p]>>
                             /\ Cat(out, Console(Cat(p, data))) = Console(call.data)
                             /\ Len(p) > LP_MAX_BUF <=> TooLong(call)
  BY <1>1 DEF InPieces
<1>4. PICK x : x = Piece(p)
  OBVIOUS
<1>5. /\ Followed(x, <<>>) /\ Spell(x) = <<"%", "s">> /\ Text(x) = p
      /\ Taken(x) = <<[int |-> 0, str |-> p]>>
  BY <1>4, PieceFacts
<1>6. fmt = Cat(Spell(x), <<>>) /\ ap = Cat(Taken(x), <<>>) /\ <<>> \in Seq(AnArg)
  <2>1. Spell(x) \in Seq(Char)
    BY <1>5, SpellIs
  <2>2. Taken(x) = <<x.arg>> /\ x.arg \in AnArg
    BY <1>4, <1>5 DEF Piece, Followed, AConversion, AnArg
  <2>3. Taken(x) \in Seq(AnArg) /\ <<>> \in Seq(AnArg)
    BY <2>2
  <2>4. Cat(Spell(x), <<>>) = Spell(x) /\ Cat(Taken(x), <<>>) = Taken(x)
    BY <2>1, <2>3, CatType
  <2> QED BY <1>2, <1>3, <1>5, <2>3, <2>4
<1>7. /\ fmt' = <<>> /\ ap' = <<>> /\ UNCHANGED <<call, data>>
      /\ \/ Len(p) > LP_MAX_BUF /\ status' \in {"halted", "smashed"}
         \/ /\ Len(p) <= LP_MAX_BUF /\ status' = "scan"
            /\ out' = Put(p) \/ (p = <<>> /\ out' = out)
  BY <1>5, <1>6, PercentPrints
<1>8. CASE Len(p) > LP_MAX_BUF /\ status' \in {"halted", "smashed"}
  BY <1>3, <1>8
<1>9. CASE /\ Len(p) <= LP_MAX_BUF /\ status' = "scan"
           /\ out' = Put(p) \/ (p = <<>> /\ out' = out)
  <2>1. ~ TooLong(call)
    <3>1. Len(p) \in Nat /\ LP_MAX_BUF \in Nat
      BY PrintAssumption
    <3> QED BY <1>3, <1>9, <3>1
  <2>2. Console(p) \in Seq(Char) /\ Console(data) \in Seq(Char)
    BY <1>2, ConsoleFacts
  <2>3. out' = Cat(out, Console(p))
    <3>1. Put(p) = Cat(out, Console(p))
      BY DEF Put, Cat, ToConsole
    <3>2. Put(<<>>) = out
      BY <1>2, ConsPutNothing
    <3> QED BY <1>9, <3>1, <3>2
  <2>4. out' \in Seq(Char)
    BY <1>2, <2>2, <2>3, CatType
  <2>5. Cat(out', Console(data)) = Console(call.data)
    <3>1. Console(Cat(p, data)) = Cat(Console(p), Console(data))
      BY <1>2, ConsoleFacts
    <3>2. Cat(Cat(out, Console(p)), Console(data)) = Cat(out, Cat(Console(p), Console(data)))
      BY <1>2, <2>2, CatAssociative
    <3> QED BY <1>3, <2>3, <3>1, <3>2
  <2> QED BY <1>2, <1>7, <1>9, <2>1, <2>4, <2>5 DEF InPieces
<1> QED BY <1>7, <1>8, <1>9

\* cons_write cuts off the next piece.
LEMMA WritePieces ==
  ASSUME ToConsole(call), InPieces(call, data, fmt, ap, out, status), ConsWrite
  PROVE  InPieces(call, data', fmt', ap', out', status')
<1>1. status = "write" /\ out' = out /\ call' = call
  BY DEF ConsWrite
<1>2. /\ data \in Seq(Char) /\ out \in Seq(Char) /\ Len(data) <= Len(call.data)
      /\ fmt = <<>> /\ ap = <<>> /\ Cat(out, Console(data)) = Console(call.data)
      /\ ~ TooLong(call) \/ data = call.data
  BY <1>1 DEF InPieces
<1>3. /\ call.data \in Seq(Char) /\ Len(call.data) \in Nat
      /\ TooLong(call) <=> Len(call.data) > LP_MAX_BUF /\ CHUNK > LP_MAX_BUF
  BY DataFacts
<1>4. CHUNK \in Nat \ {0} /\ LP_MAX_BUF \in Nat \ {0}
  BY PrintAssumption
<1>5. CASE data = <<>>
  <2>1. status' = "done" /\ UNCHANGED <<data, fmt, ap>>
    BY <1>5 DEF ConsWrite
  <2>2. ~ TooLong(call)
    <3>1. CASE data = call.data
      <4>1. Len(call.data) = 0
        BY <1>5, <3>1
      <4> QED BY <1>3, <1>4, <4>1
    <3> QED BY <1>2, <3>1
  <2> QED BY <1>1, <1>2, <1>5, <2>1, <2>2 DEF InPieces
<1>6. CASE data # <<>>
  <2> DEFINE n == IF Len(data) < CHUNK THEN Len(data) ELSE CHUNK
  <2> DEFINE p == SubSeq(data, 1, n)
  <2> DEFINE d == SubSeq(data, n + 1, Len(data))
  <2>1. /\ status' = "scan" /\ data' = d /\ fmt' = <<"%", "s">>
        /\ ap' = <<[int |-> 0, str |-> p]>>
    BY <1>6 DEF ConsWrite, Drop
  <2>2. n \in 0 .. Len(data) /\ n <= CHUNK /\ (n = Len(data) \/ n = CHUNK) /\ Len(data) \in Nat
    BY <1>2, <1>4
  <2> HIDE DEF n
  <2>3. p \in Seq(Char) /\ Len(p) = n
    BY <1>2, <2>2
  <2>4. d \in Seq(Char) /\ Len(d) = Len(data) - n
    BY <1>2, <2>2
  <2>5. Cat(p, d) = data
    <3>1. 1 \in 1 .. Len(data) + 1 /\ n \in 1 - 1 .. Len(data) /\ Len(data) \in n .. Len(data)
      BY <2>2
    <3>2. p \o d = SubSeq(data, 1, Len(data))
      BY <1>2, <3>1, ConcatAdjacentSubSeq
    <3>3. SubSeq(data, 1, Len(data)) = data
      BY <1>2
    <3> QED BY <3>2, <3>3 DEF Cat
  <2>6. Len(d) <= Len(call.data)
    BY <1>2, <1>3, <2>2, <2>4
  <2>7. Len(p) > LP_MAX_BUF <=> TooLong(call)
    <3>1. CASE data = call.data
      BY <1>3, <1>4, <2>2, <2>3, <3>1
    <3>2. CASE ~ TooLong(call)
      <4>1. n <= Len(call.data)
        BY <1>2, <1>3, <2>2
      <4> QED BY <1>3, <1>4, <2>2, <2>3, <3>2, <4>1
    <3> QED BY <1>2, <3>1, <3>2
  <2>8. Cat(out, Console(Cat(p, d))) = Console(call.data)
    BY <1>2, <2>5
  <2> HIDE DEF p, d
  <2> QED BY <1>1, <1>2, <2>1, <2>3, <2>4, <2>6, <2>7, <2>8 DEF InPieces
<1> QED BY <1>5, <1>6

-----------------------------------------------------------------------------
(* The theorem                                                             *)

\* How far a call has come
IInv ==
    /\ call \in Calls
    /\ \/ status \in {"halted", "smashed"} /\ TooLong(call)
       \/ ToConsole(call) /\ InPieces(call, data, fmt, ap, out, status)
       \/ Listed(call) /\ \E i : AfterItem(call, fmt, ap, out, status, i)

\* It holds when lp_Print is called,
LEMMA AtFirst == Init => IInv
<1> SUFFICES ASSUME Init PROVE IInv
  OBVIOUS
<1>1. call \in Calls /\ out = <<>>
  BY DEF Init
<1>2. CASE call.sink = "cons_write"
  <2>1. data = call.data /\ fmt = <<>> /\ ap = <<>> /\ status = "write"
    BY <1>2 DEF Init
  <2>2. ToConsole(call) /\ call.data \in Seq(Char)
    BY <1>1, <1>2, DataFacts DEF ToConsole
  <2>3. Console(call.data) \in Seq(Char) /\ <<>> \in Seq(Char) /\ Len(call.data) \in Nat
    BY <2>2, ConsoleFacts
  <2>4. Cat(<<>>, Console(call.data)) = Console(call.data)
    BY <2>3, CatType
  <2>5. InPieces(call, data, fmt, ap, out, status)
    BY <1>1, <2>1, <2>2, <2>3, <2>4 DEF InPieces
  <2> QED BY <1>1, <2>2, <2>5 DEF IInv
<1>3. CASE call.sink # "cons_write"
  <2>1. Listed(call)
    BY <1>1, <1>3 DEF Listed
  <2>2. fmt = Format(call.items) /\ ap = Args(call.items) /\ status = "scan"
    BY <1>3 DEF Init
  <2>3. Format(call.items) = FlattenSeq(Spelled(call)) /\ Args(call.items) = FlattenSeq(Given(call))
    BY DEF Format, Args, Spelled, Given, Taken
  <2>4. 0 \in 0 .. Len(call.items)
    BY <2>1, CallLists
  <2>5. Rest(Spelled(call), 0) = FlattenSeq(Spelled(call))
    BY <2>1, <2>4, CallLists, RestFacts
  <2>6. Rest(Given(call), 0) = FlattenSeq(Given(call))
    BY <2>1, <2>4, CallLists, RestFacts
  <2>7. First(Texts(call), 0) = <<>>
    BY <2>1, <2>4, CallLists, FirstFacts
  <2>8. Console(<<>>) = <<>>
    <3>1. <<>> \in Seq(Char)
      OBVIOUS
    <3> QED BY <3>1, ConsoleFacts
  <2>9. Written(call, out, 0)
    BY <1>1, <2>7, <2>8 DEF Written
  <2>10. AfterItem(call, fmt, ap, out, status, 0)
    BY <2>2, <2>3, <2>4, <2>5, <2>6, <2>9 DEF AfterItem
  <2> QED BY <1>1, <2>1, <2>10 DEF IInv
<1> QED BY <1>2, <1>3

\* every step keeps it,
LEMMA StepKeeps == IInv /\ [Next]_vars => IInv'
<1> SUFFICES ASSUME IInv, [Next]_vars PROVE IInv'
  OBVIOUS
<1>1. call \in Calls
  BY DEF IInv
<1>2. CASE Next
  <2>1. call' = call /\ status \in {"scan", "percent", "write"}
    BY <1>2 DEF Next, Scan, Percent, ConsWrite
  <2>2. CASE ToConsole(call) /\ InPieces(call, data, fmt, ap, out, status)
    <3>1. \/ status' \in {"halted", "smashed"} /\ TooLong(call)
          \/ InPieces(call, data', fmt', ap', out', status')
      BY <1>2, <2>2, ScanPieces, PercentPieces, WritePieces DEF Next
    <3> QED BY <1>1, <2>1, <2>2, <3>1 DEF IInv
  <2>3. CASE Listed(call) /\ \E i : AfterItem(call, fmt, ap, out, status, i)
    <3>1. PICK i : AfterItem(call, fmt, ap, out, status, i)
      BY <2>3
    <3>2. ~ ConsWrite
      BY <3>1 DEF AfterItem, ConsWrite
    <3>3. \/ status' \in {"halted", "smashed"} /\ TooLong(call)
          \/ \E m : AfterItem(call, fmt', ap', out', status', m)
      BY <1>2, <2>3, <3>1, <3>2, ScanItems, PercentItems DEF Next
    <3> QED BY <1>1, <2>1, <2>3, <3>3 DEF IInv
  <2>4. ~ (status \in {"halted", "smashed"})
    BY <2>1
  <2> QED BY <2>2, <2>3, <2>4 DEF IInv
<1>3. CASE UNCHANGED vars
  BY <1>3 DEF vars, IInv
<1> QED BY <1>2, <1>3

\* and it says what has been printed at the end.
LEMMA AtEnd == IInv => PrintsItems
<1> SUFFICES ASSUME IInv PROVE PrintsItems
  OBVIOUS
<1>1. CASE status \in {"halted", "smashed"} /\ TooLong(call)
  BY <1>1 DEF PrintsItems
<1>2. CASE ToConsole(call) /\ InPieces(call, data, fmt, ap, out, status)
  <2>1. status \notin {"halted", "smashed"}
    BY <1>2 DEF InPieces
  <2>2. ASSUME status = "done" PROVE ~ TooLong(call) /\ out = Wanted(call)
    <3>1. /\ data = <<>> /\ out \in Seq(Char) /\ ~ TooLong(call)
          /\ Cat(out, Console(data)) = Console(call.data)
      BY <1>2, <2>2 DEF InPieces
    <3>2. Console(<<>>) = <<>> /\ Cat(out, <<>>) = out
      BY <3>1, ConsoleFacts, CatType
    <3>3. call.data \in Seq(Char)
      BY <1>2, DataFacts
    <3>4. FlattenSeq(<<call.data>>) = call.data
      BY <3>3, FlattenOne
    <3>5. Wanted(call) = Console(call.data)
      BY <1>2, <3>4 DEF Wanted, Texts, ToConsole
    <3> QED BY <3>1, <3>2, <3>5
  <2> QED BY <2>1, <2>2 DEF PrintsItems
<1>3. CASE Listed(call) /\ \E i : AfterItem(call, fmt, ap, out, status, i)
  <2>1. PICK i : AfterItem(call, fmt, ap, out, status, i)
    BY <1>3
  <2>2. status \notin {"halted", "smashed"}
    BY <2>1 DEF AfterItem
  <2>3. ASSUME status = "done" PROVE ~ TooLong(call) /\ (out = Wanted(call) \/ Overwrites(call))
    <3> DEFINE n == Len(call.items)
    <3> DEFINE T == Texts(call)
    <3>1. /\ T \in Seq(Seq(Char)) /\ Len(T) = n /\ n \in Nat /\ DOMAIN T = 1 .. n
          /\ call.sink \in {"printf", "fprintf"}
      BY <1>3, CallLists
    <3>2. i = n /\ Written(call, out, n) /\ \A j \in 1 .. n : Len(T[j]) <= LP_MAX_BUF
      BY <2>1, <2>3 DEF AfterItem
    <3>3. n \in 0 .. Len(T)
      BY <3>1
    <3>4. First(T, n) = FlattenSeq(T)
      BY <3>1, <3>3, FirstFacts
    <3>5. ~ TooLong(call)
      <4>1. ASSUME NEW j \in DOMAIN T PROVE ~ (Len(T[j]) > LP_MAX_BUF)
        <5>1. T[j] \in Seq(Char) /\ j \in 1 .. n
          BY <3>1
        <5>2. Len(T[j]) \in Nat /\ LP_MAX_BUF \in Nat /\ Len(T[j]) <= LP_MAX_BUF
          BY <3>2, <5>1, PrintAssumption
        <5> QED BY <5>2
      <4> QED BY <4>1 DEF TooLong
    <3> HIDE DEF T, n
    <3>6. CASE call.sink = "printf"
      <4>1. out = Console(FlattenSeq(T))
        BY <3>2, <3>4, <3>6 DEF Written, T
      <4> QED BY <3>5, <3>6, <4>1 DEF Wanted, T
    <3>7. CASE call.sink = "fprintf"
      <4>1. Overwrites(call) \/ out = FlattenSeq(T)
        BY <3>2, <3>4, <3>7 DEF Written, T
      <4> QED BY <3>5, <3>7, <4>1 DEF Wanted, T
    <3> QED BY <3>1, <3>6, <3>7
  <2> QED BY <2>2, <2>3 DEF PrintsItems
<1> QED BY <1>1, <1>2, <1>3 DEF IInv

\* lp_Print and its output functions write what the items of a call say, for
\* every list of items, every width, precision and integer, and every size of
\* the word, of the buffer and of the pieces.  printf and cons_write that
\* return have printed each field with its sign, zeros and blanks in their
\* places; fprintf has when no piece is stored over another; only a text that
\* is longer than the buffer keeps a call from returning, and none that is
\* printed is (print.c, OUTPUT and PrintNum; console.c, cons_write; fprintf.c,
\* user_out2string).
THEOREM PrintsCorrectly == Spec => []PrintsItems
<1>1. Init => IInv
  BY AtFirst
<1>2. IInv /\ [Next]_vars => IInv'
  BY StepKeeps
<1>3. IInv => PrintsItems
  BY AtEnd
<1> QED BY <1>1, <1>2, <1>3, PTL DEF Spec
=============================================================================
