----------------------------- MODULE SetLemmas -----------------------------
(***************************************************************************)
(* Facts about the operators of the community modules that the proofs keep *)
(* needing: Min, Max and SetToSeq are CHOOSE expressions, and nothing is   *)
(* known of them before something to choose is shown to exist.             *)
(***************************************************************************)
EXTENDS FiniteSetsExt, SequencesExt, FiniteSetTheorems, SequenceTheorems, TLAPS

(* Every nonempty set of natural numbers has a least element, and Min      *)
(* chooses it.                                                             *)
LEMMA MinProperties ==
  ASSUME NEW S \in SUBSET Nat, S # {}
  PROVE  Min(S) \in S /\ \A y \in S : Min(S) <= y
PROOF
<1>1. IsWellFoundedOn(OpToRel(<, Nat), Nat)
  BY NatLessThanWellFounded
<1>2. PICK x \in S : \A y \in S : ~ (<<y, x>> \in OpToRel(<, Nat))
  BY <1>1, WFMin
<1>3. \A y \in S : x <= y
  <2> TAKE y \in S
  <2>1. ~ (y < x)
    BY <1>2 DEF OpToRel
  <2> QED BY <2>1
<1> QED BY <1>3 DEF Min

(* The same of Max, for a set that is bounded.                             *)
LEMMA MaxProperties ==
  ASSUME NEW S \in SUBSET Nat, S # {}, NEW n \in Nat, \A y \in S : y <= n
  PROVE  Max(S) \in S /\ \A y \in S : Max(S) >= y
PROOF
<1> DEFINE T == {n - y : y \in S}
<1>1. T \in SUBSET Nat /\ T # {}
  <2>1. PICK x \in S : TRUE
    OBVIOUS
  <2>2. n - x \in T
    BY <2>1
  <2>3. \A y \in S : y \in Nat /\ n - y \in Nat
    OBVIOUS
  <2> QED BY <2>2, <2>3
<1>2. Min(T) \in T /\ \A z \in T : Min(T) <= z
  BY <1>1, MinProperties
<1>3. PICK x \in S : Min(T) = n - x
  BY <1>2
<1>4. \A y \in S : x >= y
  BY <1>2, <1>3
<1> QED BY <1>4 DEF Max

(* SetToSeq lists every element of a finite set once.                      *)
LEMMA SetToSeqProperties ==
  ASSUME NEW S, IsFiniteSet(S)
  PROVE  /\ SetToSeq(S) \in Seq(S)
         /\ Len(SetToSeq(S)) = Cardinality(S)
         /\ Range(SetToSeq(S)) = S
PROOF
<1> DEFINE n == Cardinality(S)
           f == SetToSeq(S)
<1>1. n \in Nat /\ \E g \in [1 .. n -> S] : IsInjective(g)
  BY FS_CardinalityType DEF ExistsBijection, Bijection, Injection
<1>2. f \in [1 .. n -> S] /\ IsInjective(f)
  BY <1>1 DEF SetToSeq
<1> QED
  <2>1. f \in Seq(S) /\ Len(f) = n
    BY <1>1, <1>2
  <2>2. f \in Injection(1 .. n, S)
    BY <1>2 DEF Injection
  <2>3. IsFiniteSet(1 .. n) /\ Cardinality(1 .. n) = n
    BY <1>1, FS_Interval
  <2>4. f \in Surjection(1 .. n, S)
    BY ONLY IsFiniteSet(S), <2>2, <2>3, FS_Injection
  <2> QED BY <2>1, <2>4, <1>2 DEF Surjection, Range

(* A sequence is a sequence of its own elements.                           *)
LEMMA SeqOfElements ==
  ASSUME NEW S, NEW s \in Seq(S)
  PROVE  s \in Seq(Range(s))
PROOF
<1> DEFINE R == Range(s)
<1> SUFFICES s \in Seq(R)
  BY DEF R
<1>1. Len(s) \in Nat /\ DOMAIN s = 1 .. Len(s) /\ \A i \in 1 .. Len(s) : s[i] \in R
  BY LenProperties DEF Range
<1> QED BY <1>1

(* A stack whose top is replaced.                                          *)
LEMMA ReplaceTop ==
  ASSUME NEW S, NEW s \in Seq(S), s # <<>>, NEW x
  PROVE  LET new == Append(SubSeq(s, 1, Len(s) - 1), x)
         IN  /\ new \in Seq(S \cup {x})
             /\ Len(new) = Len(s) /\ Len(s) \in Nat \ {0}
             /\ \A m \in 1 .. Len(s) - 1 : new[m] = s[m]
             /\ new[Len(s)] = x
PROOF
<1> DEFINE front == SubSeq(s, 1, Len(s) - 1)
           T == S \cup {x}
<1>1. Len(s) \in Nat \ {0} /\ \A i \in 1 .. Len(s) - 1 : s[i] \in T
  BY EmptySeq, ElementOfSeq
<1>3. x \in T
  OBVIOUS
<1> HIDE DEF T
<1>2. /\ front \in Seq(T) /\ Len(front) = Len(s) - 1
      /\ \A i \in 1 .. Len(s) - 1 : front[i] = s[i]
  <2>1. 1 \in Int /\ Len(s) - 1 \in Int
    BY <1>1
  <2>2. /\ front \in Seq(T)
        /\ Len(front) = IF 1 <= Len(s) - 1 THEN Len(s) - 1 - 1 + 1 ELSE 0
        /\ \A i \in 1 .. Len(s) - 1 - 1 + 1 : front[i] = s[1 + i - 1]
    BY <1>1, <2>1, SubSeqProperties
  <2> DEFINE n == Len(s)
  <2> HIDE DEF front
  <2>3. Len(front) = n - 1
    <3>1. n \in Nat \ {0} /\ Len(front) = IF 1 <= n - 1 THEN n - 1 - 1 + 1 ELSE 0
      BY <1>1, <2>2
    <3> HIDE DEF n
    <3> QED BY <3>1
  <2>4. ASSUME NEW i \in 1 .. Len(s) - 1 PROVE front[i] = s[i]
    <3>1. i \in 1 .. Len(s) - 1 - 1 + 1 /\ 1 + i - 1 = i
      BY <1>1
    <3> QED BY <3>1, <2>2
  <2> QED BY <2>2, <2>3, <2>4
<1> HIDE DEF front
<1>4. /\ Append(front, x) \in Seq(T)
      /\ Len(Append(front, x)) = Len(front) + 1
      /\ \A i \in 1 .. Len(front) : Append(front, x)[i] = front[i]
      /\ Append(front, x)[Len(front) + 1] = x
  BY <1>2, <1>3, AppendProperties
<1> QED BY <1>1, <1>2, <1>4 DEF front, T

(* A stack cut at its n-th element, with two elements put there instead.   *)
LEMMA ReplaceByTwo ==
  ASSUME NEW S, NEW s \in Seq(S), NEW n \in 1 .. Len(s), NEW x, NEW y,
         NEW new, new = SubSeq(s, 1, n - 1) \o <<x, y>>
  PROVE  /\ new \in Seq(S \cup {x, y})
         /\ Len(new) = n + 1
         /\ \A m \in 1 .. n - 1 : new[m] = s[m]
         /\ new[n] = x /\ new[n + 1] = y
PROOF
<1> DEFINE front == SubSeq(s, 1, n - 1)
           back == <<x, y>>
           T == S \cup {x, y}
<1>1. Len(s) \in Nat /\ n \in Nat \ {0} /\ \A i \in 1 .. n - 1 : s[i] \in T
  BY LenProperties, ElementOfSeq
<1>2. front \in Seq(T) /\ Len(front) = n - 1 /\ \A i \in 1 .. n - 1 : front[i] = s[i]
  BY <1>1, SubSeqProperties
<1>3. back \in Seq(T) /\ Len(back) = 2 /\ back[1] = x /\ back[2] = y
  OBVIOUS
<1> HIDE DEF front, back, T
<1>4. /\ front \o back \in Seq(T)
      /\ Len(front \o back) = n - 1 + 2
      /\ \A i \in 1 .. n - 1 + 2 :
           (front \o back)[i] = IF i <= n - 1 THEN front[i] ELSE back[i - (n - 1)]
  <2>1. /\ front \o back \in Seq(T)
        /\ Len(front \o back) = Len(front) + Len(back)
        /\ \A i \in 1 .. Len(front) + Len(back) :
             (front \o back)[i] = IF i <= Len(front) THEN front[i] ELSE back[i - Len(front)]
    BY <1>2, <1>3, ConcatProperties, Zenon
  <2> QED BY <1>2, <1>3, <2>1, Zenon
<1>5. \A m \in 1 .. n - 1 : (front \o back)[m] = s[m]
  BY <1>1, <1>2, <1>4
<1>6. (front \o back)[n] = x
  <2>1. n \in 1 .. n - 1 + 2 /\ ~(n <= n - 1) /\ n - (n - 1) = 1
    BY <1>1
  <2> QED BY <2>1, <1>3, <1>4
<1>7. (front \o back)[n + 1] = y
  <2> DEFINE k == n + 1
  <2>1. k \in 1 .. n - 1 + 2 /\ ~(k <= n - 1) /\ k - (n - 1) = 2
    BY <1>1
  <2> HIDE DEF k
  <2>2. (front \o back)[k] = y
    BY <2>1, <1>3, <1>4
  <2> QED BY <2>2 DEF k
<1>8. new = front \o back
  BY DEF front, back
<1>9. front \o back \in Seq(T) /\ Len(front \o back) = n + 1
  BY <1>1, <1>4
<1>10. new \in Seq(T) /\ Len(new) = n + 1
  BY <1>8, <1>9, Zenon
<1>11. \A m \in 1 .. n - 1 : new[m] = s[m]
  BY <1>5, <1>8, Zenon
<1>12. new[n] = x /\ new[n + 1] = y
  BY <1>6, <1>7, <1>8, Zenon
<1> QED BY <1>10, <1>11, <1>12 DEF T

(* What a concatenation holds.                                             *)
LEMMA RangeOfConcat ==
  ASSUME NEW S, NEW s \in Seq(S), NEW t \in Seq(S), NEW x \in Range(s \o t)
  PROVE  x \in Range(s) \/ x \in Range(t)
PROOF
<1>1. /\ Len(s) \in Nat /\ Len(t) \in Nat
      /\ DOMAIN s = 1 .. Len(s) /\ DOMAIN t = 1 .. Len(t)
  BY LenProperties
<1>2. /\ s \o t \in Seq(S) /\ Len(s \o t) = Len(s) + Len(t)
      /\ \A i \in 1 .. Len(s) + Len(t) :
           (s \o t)[i] = IF i <= Len(s) THEN s[i] ELSE t[i - Len(s)]
  BY ConcatProperties
<1>3. PICK i \in 1 .. Len(s) + Len(t) : (s \o t)[i] = x
  BY <1>2, LenProperties DEF Range
<1>4. CASE i <= Len(s)
  BY <1>1, <1>2, <1>3, <1>4 DEF Range
<1>5. CASE ~(i <= Len(s))
  <2>1. i - Len(s) \in DOMAIN t
    BY <1>1, <1>3, <1>5
  <2> QED BY <1>2, <1>3, <1>5, <2>1 DEF Range
<1> QED BY <1>4, <1>5

(* Sequences of one or two elements.                                       *)
LEMMA SmallConcat ==
  ASSUME NEW x, NEW y
  PROVE  <<x>> \o <<>> = <<x>> /\ <<x>> \o <<y>> = <<x, y>>
PROOF
<1> DEFINE S == {x, y}
<1>1. <<x>> \in Seq(S) /\ <<y>> \in Seq(S) /\ <<x, y>> \in Seq(S)
  OBVIOUS
<1>2. <<x>> \o <<>> = <<x>>
  BY <1>1, ConcatEmptySeq
<1>3. Append(<<x>>, y) = <<x>> \o <<y>>
  BY <1>1, AppendIsConcat
<1>4. /\ Append(<<x>>, y) \in Seq(S) /\ Len(Append(<<x>>, y)) = 2
      /\ Append(<<x>>, y)[1] = x /\ Append(<<x>>, y)[2] = y
  BY <1>1, AppendProperties
<1>5. Append(<<x>>, y) = <<x, y>>
  <2> DEFINE s == Append(<<x>>, y)
             t == <<x, y>>
  <2>1. s \in Seq(S) /\ t \in Seq(S) /\ Len(s) = 2 /\ Len(t) = 2
    BY <1>1, <1>4
  <2>2. s[1] = t[1] /\ s[2] = t[2]
    BY <1>4
  <2> HIDE DEF s, t, S
  <2>3. \A i \in 1 .. Len(s) : s[i] = t[i]
    BY <2>1, <2>2
  <2>4. s = t
    BY <2>1, <2>3, SeqEqual
  <2> QED BY <2>4 DEF s, t
<1> QED BY <1>2, <1>3, <1>5

(* Induction over the natural numbers, for a set of them.                  *)
LEMMA NatSetInduction ==
  ASSUME NEW S \in SUBSET Nat, 0 \in S, \A n \in S : n + 1 \in S
  PROVE  S = Nat
PROOF
<1> SUFFICES ASSUME Nat \ S # {} PROVE FALSE
  OBVIOUS
<1> DEFINE m == Min(Nat \ S)
<1>1. m \in Nat \ S /\ \A y \in Nat \ S : m <= y
  BY MinProperties
<1>2. m - 1 \in S
  BY <1>1
<1> HIDE DEF m
<1> QED BY <1>1, <1>2

(* A property of subsets of 1 .. n that holds of the empty one, and of a   *)
(* set when it holds without the greatest element, holds of all.           *)
LEMMA GreatestRemovedInduction ==
  ASSUME NEW n \in Nat, NEW Good, {} \in Good,
         \A s \in SUBSET (1 .. n) : s # {} /\ s \ {Max(s)} \in Good => s \in Good
  PROVE  SUBSET (1 .. n) \subseteq Good
PROOF
<1> DEFINE Fit(k) == {s \in SUBSET (1 .. n) : s \subseteq 1 .. k}
           K == {k \in Nat : Fit(k) \subseteq Good}
<1>1. 0 \in K
  <2>1. ASSUME NEW s \in Fit(0) PROVE s = {}
    OBVIOUS
  <2> QED BY <2>1
<1>2. ASSUME NEW k \in K PROVE k + 1 \in K
  <2> SUFFICES ASSUME NEW s \in Fit(k + 1) PROVE s \in Good
    OBVIOUS
  <2>1. CASE s = {}
    BY <2>1
  <2>2. CASE s # {}
    <3>1. k + 1 \in Nat /\ s \in SUBSET Nat /\ (\A y \in s : y <= k + 1)
      OBVIOUS
    <3>2. Max(s) \in s /\ \A y \in s : Max(s) >= y
      <4> HIDE DEF K, Fit
      <4> QED BY <2>2, <3>1, MaxProperties
    <3>3. ASSUME NEW y \in s \ {Max(s)} PROVE y \in 1 .. k
      <4> DEFINE m == Max(s)
      <4>1. y # m /\ y \in 1 .. k + 1 /\ m \in 1 .. k + 1 /\ m >= y /\ k \in Nat
        BY <3>2
      <4> HIDE DEF m
      <4> QED BY <4>1
    <3>4. s \ {Max(s)} \in Fit(k)
      BY <3>3
    <3> QED BY <2>2, <3>4
  <2> QED BY <2>1, <2>2
<1>3. K = Nat
  <2> HIDE DEF Fit
  <2> QED BY <1>1, <1>2, NatSetInduction
<1>4. n \in K /\ \A s \in SUBSET (1 .. n) : s \in Fit(n)
  BY <1>3
<1> QED BY <1>4

(* The function that FoldLeft of F over 1 .. n computes its result by.      *)
IsLeftFold(n, base, F, it) ==
  \A s \in SUBSET (1 .. n) :
    it[s] = IF s = {} THEN base ELSE F[Max(s)][it[s \ {Max(s)}]]

(* The function that FoldLeft chooses exists, when the operator is a       *)
(* function F on the indices and a set D of results.                       *)
LEMMA LeftFoldExists ==
  ASSUME NEW n \in Nat, NEW D, NEW base \in D, NEW F \in [1 .. n -> [D -> D]]
  PROVE  \E it \in [SUBSET (1 .. n) -> D] : IsLeftFold(n, base, F, it)
PROOF
<1> DEFINE S == SUBSET (1 .. n)
           Fit(k) == {s \in S : s \subseteq 1 .. k}
           Upto(k, g) ==
             \A s \in Fit(k) : g[s] = IF s = {} THEN base ELSE F[Max(s)][g[s \ {Max(s)}]]
           K == {k \in Nat : \E g \in [S -> D] : Upto(k, g)}
<1>0. ASSUME NEW s \in S, s # {} PROVE Max(s) \in s /\ \A y \in s : Max(s) >= y
  <2>1. s \in SUBSET Nat /\ (\A y \in s : y <= n)
    OBVIOUS
  <2> QED BY <1>0, <2>1, MaxProperties
<1>1. 0 \in K
  <2> DEFINE g == [s \in S |-> base]
  <2>1. ASSUME NEW s \in Fit(0) PROVE s = {}
    OBVIOUS
  <2>2. g \in [S -> D] /\ Upto(0, g)
    BY <2>1
  <2> QED BY <2>2
<1>2. ASSUME NEW k \in K PROVE k + 1 \in K
  <2>1. PICK g \in [S -> D] : Upto(k, g)
    OBVIOUS
  <2> DEFINE h == [s \in S |-> IF s = {} THEN base ELSE F[Max(s)][g[s \ {Max(s)}]]]
  <2>2. ASSUME NEW s \in S, s # {}
        PROVE  Max(s) \in 1 .. n /\ s \ {Max(s)} \in S
    BY <1>0, <2>2
  <2>3. h \in [S -> D]
    <3> HIDE DEF S
    <3> QED BY <2>2
  <2>4. ASSUME NEW s \in Fit(k) PROVE h[s] = g[s]
    BY <2>1
  <2>5. ASSUME NEW s \in Fit(k + 1), s # {} PROVE s \ {Max(s)} \in Fit(k)
    <3>1. Max(s) \in s /\ \A y \in s : Max(s) >= y
      BY <1>0, <2>5
    <3>2. ASSUME NEW y \in s \ {Max(s)} PROVE y \in 1 .. k
      <4> DEFINE m == Max(s)
      <4>1. y # m /\ y \in 1 .. k + 1 /\ m \in 1 .. k + 1 /\ m >= y /\ k \in Nat
        BY <3>1
      <4> HIDE DEF m
      <4> QED BY <4>1
    <3> QED BY <3>2
  <2>6. Upto(k + 1, h)
    <3> SUFFICES ASSUME NEW s \in Fit(k + 1)
                 PROVE  h[s] = IF s = {} THEN base ELSE F[Max(s)][h[s \ {Max(s)}]]
      OBVIOUS
    <3>1. h[s] = IF s = {} THEN base ELSE F[Max(s)][g[s \ {Max(s)}]]
      OBVIOUS
    <3>2. s # {} => h[s \ {Max(s)}] = g[s \ {Max(s)}]
      BY <2>4, <2>5
    <3> HIDE DEF h
    <3> QED BY <3>1, <3>2
  <2> HIDE DEF h, Upto
  <2> QED BY <2>3, <2>6
<1>3. K = Nat
  <2> HIDE DEF Upto
  <2>1. K \in SUBSET Nat
    OBVIOUS
  <2> HIDE DEF K
  <2> QED BY <1>1, <1>2, <2>1, NatSetInduction
<1>4. PICK g \in [S -> D] : Upto(n, g)
  BY <1>3
<1>5. \A s \in S : s \in Fit(n)
  OBVIOUS
<1> QED BY <1>4, <1>5 DEF IsLeftFold
=============================================================================
