------------------------------- MODULE ListFacts -------------------------------
(* Facts the proofs about sequences share. A lemma that takes the property to *)
(* be shown as an operator cannot be used here; with the property as a set,   *)
(* or as a function's range, induction and folds over sequences can.          *)
EXTENDS Integers, FiniteSets, SequencesExt, SequenceTheorems, FiniteSetTheorems, WellFoundedInduction, TLAPS

\* Induction: the set is that of the numbers that have the property.
LEMMA SetInduction ==
  ASSUME NEW S, 0 \in S, \A n \in Nat : n \in S => n + 1 \in S
  PROVE  \A n \in Nat : n \in S
<1> DEFINE T == Nat \ S
           R == {ss \in Nat \X Nat : ss[1] < ss[2]}
<1>1. SUFFICES ASSUME T # {} PROVE FALSE
  OBVIOUS
<1>2. IsWellFoundedOn(R, Nat)
  BY NatLessThanWellFounded DEF OpToRel
<1>3. PICK x \in T : \A y \in T : ~(<<y, x>> \in R)
  <2> HIDE DEF R, T
  <2>1. T \subseteq Nat
    BY DEF T
  <2> QED BY <1>1, <1>2, <2>1, WFMin
<1>4. x \in Nat /\ x # 0
  OBVIOUS
<1>5. x - 1 \in Nat /\ x = (x - 1) + 1
  BY <1>4
<1>6. x - 1 \in T
  BY <1>5
<1>7. <<x - 1, x>> \in R
  BY <1>4, <1>5
<1> QED BY <1>3, <1>6, <1>7

\* The least of a set of naturals.
LEMMA MinExists ==
  ASSUME NEW S \in SUBSET Nat, S # {}
  PROVE  Min(S) \in S /\ \A y \in S : Min(S) <= y
<1> DEFINE R == {ss \in Nat \X Nat : ss[1] < ss[2]}
<1>1. IsWellFoundedOn(R, Nat)
  BY NatLessThanWellFounded DEF OpToRel
<1>2. PICK x \in S : \A y \in S : ~(<<y, x>> \in R)
  <2> HIDE DEF R
  <2> QED BY <1>1, WFMin
<1>3. \A y \in S : x <= y
  <2> SUFFICES ASSUME NEW y \in S, ~(x <= y) PROVE FALSE
    OBVIOUS
  <2>1. x \in Nat /\ y \in Nat /\ y < x
    OBVIOUS
  <2> QED BY <1>2, <2>1
<1> QED BY <1>3 DEF Min

\* The greatest of a set that has one.
LEMMA MaxIs ==
  ASSUME NEW S \in SUBSET Int, NEW m \in S, \A y \in S : y <= m
  PROVE  Max(S) = m
<1>1. Max(S) \in S /\ \A y \in S : Max(S) >= y
  BY DEF Max
<1>2. Max(S) \in Int /\ m \in Int /\ Max(S) >= m /\ Max(S) <= m
  BY <1>1
<1> QED BY <1>2

\* The greatest of finitely many naturals and 0.
LEMMA MaxOfValues ==
  ASSUME NEW n \in Nat, NEW v \in [1 .. n -> Nat]
  PROVE  LET S == {v[i] : i \in 1 .. n} \cup {0} IN
         Max(S) \in Nat /\ Max(S) \in S /\ \A i \in 1 .. n : v[i] <= Max(S)
<1> DEFINE P == {k \in Nat : k <= n => \E m \in {v[i] : i \in 1 .. n} \cup {0} :
                                       m \in Nat /\ \A i \in 1 .. k : v[i] <= m}
<1>1. 0 \in P
  <2>1. 0 \in {v[i] : i \in 1 .. n} \cup {0} /\ \A i \in 1 .. 0 : v[i] <= 0
    OBVIOUS
  <2> QED BY <2>1
<1>2. ASSUME NEW k \in Nat, k \in P PROVE k + 1 \in P
  <2> SUFFICES ASSUME k + 1 <= n
               PROVE  \E m \in {v[i] : i \in 1 .. n} \cup {0} : m \in Nat /\ \A i \in 1 .. k + 1 : v[i] <= m
    OBVIOUS
  <2>1. PICK m \in {v[i] : i \in 1 .. n} \cup {0} : m \in Nat /\ \A i \in 1 .. k : v[i] <= m
    BY <1>2
  <2>2. k + 1 \in 1 .. n /\ v[k + 1] \in Nat
    OBVIOUS
  <2>3. CASE v[k + 1] <= m
    <3>1. \A i \in 1 .. k + 1 : i \in 1 .. k \/ i = k + 1
      OBVIOUS
    <3>2. \A i \in 1 .. k + 1 : v[i] <= m
      BY <2>1, <2>3, <3>1
    <3> HIDE DEF P
    <3> QED BY <2>1, <3>2
  <2>4. CASE m <= v[k + 1]
    <3>1. \A i \in 1 .. k + 1 : v[i] <= v[k + 1]
      BY <2>1, <2>2, <2>4
    <3> QED BY <2>2, <3>1
  <2> QED BY <2>1, <2>2, <2>3, <2>4
<1>3. n \in P
  <2> HIDE DEF P
  <2> QED BY <1>1, <1>2, SetInduction
<1>4. PICK m \in {v[i] : i \in 1 .. n} \cup {0} : m \in Nat /\ \A i \in 1 .. n : v[i] <= m
  BY <1>3
<1> DEFINE S == {v[i] : i \in 1 .. n} \cup {0}
<1>5. S \in SUBSET Int /\ m \in S /\ \A y \in S : y <= m
  BY <1>4
<1>6. Max(S) = m
  <2> HIDE DEF S
  <2> QED BY <1>5, MaxIs
<1> QED BY <1>4, <1>5, <1>6

\* The order in which a fold takes the elements of a sequence.
LEMMA UpTo ==
  ASSUME NEW k \in Nat \ {0}
  PROVE  Max(1 .. k) = k /\ (1 .. k) \ {k} = 1 .. (k - 1) /\ 1 .. k # {}
<1>1. 1 .. k \in SUBSET Int /\ k \in 1 .. k /\ \A y \in 1 .. k : y <= k
  OBVIOUS
<1>2. Max(1 .. k) = k
  BY <1>1, MaxIs
<1>3. (1 .. k) \ {k} = 1 .. (k - 1)
  OBVIOUS
<1> QED BY <1>1, <1>2, <1>3

LEMMA GreatestOf ==
  ASSUME NEW k \in Nat, NEW s \in SUBSET (1 .. k + 1), k + 1 \in s
  PROVE  Max(s) = k + 1
<1>1. \A y \in s : y <= k + 1
  OBVIOUS
<1> QED BY <1>1, MaxIs

\* Every set of indices has a greatest.
LEMMA FiniteMax ==
  ASSUME NEW n \in Nat, NEW s \in SUBSET (1 .. n), s # {}
  PROVE  Max(s) \in s /\ \A k \in s : k <= Max(s)
<1> DEFINE P == {m \in Nat : \A t \in SUBSET (1 .. m) : t # {} => \E x \in t : \A k \in t : k <= x}
<1>1. 0 \in P
  <2>1. \A t \in SUBSET (1 .. 0) : t = {}
    OBVIOUS
  <2> QED BY <2>1
<1>2. ASSUME NEW m \in Nat, m \in P PROVE m + 1 \in P
  <2> SUFFICES ASSUME NEW t \in SUBSET (1 .. m + 1), t # {} PROVE \E x \in t : \A k \in t : k <= x
    OBVIOUS
  <2>1. CASE m + 1 \in t
    <3>1. \A k \in t : k <= m + 1
      OBVIOUS
    <3> QED BY <2>1, <3>1
  <2>2. CASE m + 1 \notin t
    <3>1. t \in SUBSET (1 .. m)
      BY <2>2
    <3> QED BY <1>2, <3>1
  <2> QED BY <2>1, <2>2
<1>3. n \in P
  <2> HIDE DEF P
  <2> QED BY <1>1, <1>2, SetInduction
<1>4. PICK x \in s : \A k \in s : k <= x
  BY <1>3
<1>5. s \in SUBSET Int
  OBVIOUS
<1> QED BY <1>4, <1>5, MaxIs

\* The recursion of a fold over a sequence of n elements, the function F applied to what
\* has been computed and the next element's place, has a solution.
FoldOf(n, V, base, F, g) ==
  /\ g \in [SUBSET (1 .. n) -> V]
  /\ g[{}] = base
  /\ \A s \in SUBSET (1 .. n) : s # {} => g[s] = F[<<g[s \ {Max(s)}], Max(s)>>]

LEMMA FoldExists ==
  ASSUME NEW n \in Nat, NEW V, NEW base \in V, NEW F, \A k \in 1 .. n, v \in V : F[<<v, k>>] \in V
  PROVE  \E g : FoldOf(n, V, base, F, g)
<1> DEFINE Solves(m, g) ==
             /\ g \in [SUBSET (1 .. m) -> V]
             /\ \A s \in SUBSET (1 .. m) : g[s] = IF s = {} THEN base ELSE F[<<g[s \ {Max(s)}], Max(s)>>]
           P == {m \in Nat : m <= n => \E g : Solves(m, g)}
<1>1. 0 \in P
  <2> DEFINE g == [s \in SUBSET (1 .. 0) |-> base]
  <2>1. \A s \in SUBSET (1 .. 0) : s = {}
    OBVIOUS
  <2>2. Solves(0, g)
    BY <2>1
  <2> HIDE DEF Solves
  <2> QED BY <2>2
<1>2. ASSUME NEW m \in Nat, m \in P PROVE m + 1 \in P
  <2> HIDE DEF Solves
  <2> SUFFICES ASSUME m + 1 <= n PROVE \E h : Solves(m + 1, h)
    OBVIOUS
  <2>1. PICK g : Solves(m, g)
    BY <1>2
  <2> USE DEF Solves
  <2> DEFINE h == [s \in SUBSET (1 .. m + 1) |-> IF m + 1 \in s THEN F[<<g[s \ {m + 1}], m + 1>>] ELSE g[s]]
  <2>2. \A s \in SUBSET (1 .. m + 1) :
          /\ m + 1 \in s => s # {} /\ Max(s) = m + 1 /\ s \ {m + 1} \in SUBSET (1 .. m)
          /\ m + 1 \notin s => s \in SUBSET (1 .. m)
    BY GreatestOf
  <2>3. m + 1 \in 1 .. n /\ \A s \in SUBSET (1 .. m) : s \in SUBSET (1 .. m + 1) /\ m + 1 \notin s
    OBVIOUS
  <2>4. \A s \in SUBSET (1 .. m) : h[s] = g[s]
    BY <2>3
  <2>5. h \in [SUBSET (1 .. m + 1) -> V]
    <3>1. ASSUME NEW s \in SUBSET (1 .. m + 1)
          PROVE  (IF m + 1 \in s THEN F[<<g[s \ {m + 1}], m + 1>>] ELSE g[s]) \in V
      BY <2>1, <2>2, <2>3
    <3> QED BY <3>1
  <2>6. ASSUME NEW s \in SUBSET (1 .. m + 1)
        PROVE  h[s] = IF s = {} THEN base ELSE F[<<h[s \ {Max(s)}], Max(s)>>]
    <3>1. CASE m + 1 \in s
      <4>1. h[s] = F[<<g[s \ {m + 1}], m + 1>>]
        BY <3>1
      <4>2. h[s \ {m + 1}] = g[s \ {m + 1}]
        BY <2>2, <2>4, <3>1
      <4> HIDE DEF h
      <4> QED BY <2>2, <3>1, <4>1, <4>2
    <3>2. CASE m + 1 \notin s
      <4>1. s \in SUBSET (1 .. m) /\ s \ {Max(s)} \in SUBSET (1 .. m)
        BY <2>2, <3>2
      <4>2. g[s] = IF s = {} THEN base ELSE F[<<g[s \ {Max(s)}], Max(s)>>]
        BY <2>1, <4>1
      <4>3. h[s] = g[s] /\ h[s \ {Max(s)}] = g[s \ {Max(s)}]
        BY <2>4, <4>1
      <4> HIDE DEF h
      <4> QED BY <4>2, <4>3
    <3> QED BY <3>1, <3>2
  <2> HIDE DEF h
  <2>7. Solves(m + 1, h)
    BY <2>5, <2>6
  <2> HIDE DEF Solves
  <2> QED BY <2>7
<1>3. n \in P
  <2> HIDE DEF P
  <2> QED BY <1>1, <1>2, SetInduction
<1>4. PICK g : Solves(n, g)
  <2> HIDE DEF Solves
  <2> QED BY <1>3
<1>5. FoldOf(n, V, base, F, g)
  BY <1>4 DEF FoldOf
<1> QED BY <1>5

\* A solution's values on the first k places, from place to place. What a fold's operator
\* does to a value outside V need not be known.
FoldsInto(n, V, base, F, it) ==
  /\ it[{}] = base
  /\ \A s \in SUBSET (1 .. n) :
       s # {} /\ it[s \ {Max(s)}] \in V => it[s] = F[<<it[s \ {Max(s)}], Max(s)>>]

PathOf(n, V, base, F, it, h) ==
  /\ h \in [0 .. n -> V]
  /\ h[0] = base
  /\ \A k \in 1 .. n : h[k] = F[<<h[k - 1], k>>]
  /\ h[n] = it[1 .. n]

LEMMA FoldSteps ==
  ASSUME NEW n \in Nat, NEW V, NEW base \in V, NEW F, \A k \in 1 .. n, v \in V : F[<<v, k>>] \in V,
         NEW it, FoldsInto(n, V, base, F, it)
  PROVE  \E h : PathOf(n, V, base, F, it, h)
<1> DEFINE h == [k \in 0 .. n |-> it[1 .. k]]
           P == {k \in Nat : k <= n => it[1 .. k] \in V}
<1>1. it[1 .. 0] = base
  <2>1. 1 .. 0 = {}
    OBVIOUS
  <2> QED BY <2>1 DEF FoldsInto
<1>2. ASSUME NEW k \in 1 .. n, it[1 .. k - 1] \in V
      PROVE  it[1 .. k] = F[<<it[1 .. k - 1], k>>] /\ it[1 .. k] \in V
  <2>1. Max(1 .. k) = k /\ (1 .. k) \ {k} = 1 .. (k - 1) /\ 1 .. k # {}
    <3>1. k \in Nat \ {0}
      OBVIOUS
    <3> QED BY <3>1, UpTo
  <2>2. 1 .. k \in SUBSET (1 .. n)
    OBVIOUS
  <2> QED BY <1>2, <2>1, <2>2 DEF FoldsInto
<1>3. ASSUME NEW k \in Nat, k \in P PROVE k + 1 \in P
  <2> SUFFICES ASSUME k + 1 <= n PROVE it[1 .. k + 1] \in V
    OBVIOUS
  <2>1. PICK j \in 1 .. n : j = k + 1 /\ j - 1 = k
    OBVIOUS
  <2>2. it[1 .. k] \in V
    BY <1>3
  <2> QED BY <1>2, <2>1, <2>2
<1>4. 0 \in P
  BY <1>1
<1>5. \A k \in 0 .. n : it[1 .. k] \in V
  <2> HIDE DEF P
  <2>1. \A k \in Nat : k \in P
    BY <1>3, <1>4, SetInduction
  <2> QED BY <2>1 DEF P
<1>6. ASSUME NEW k \in 1 .. n PROVE h[k] = F[<<h[k - 1], k>>]
  <2>1. k \in 0 .. n /\ k - 1 \in 0 .. n
    OBVIOUS
  <2> QED BY <1>2, <1>5, <2>1
<1>7. 0 \in 0 .. n /\ n \in 0 .. n
  OBVIOUS
<1>8. PathOf(n, V, base, F, it, h)
  BY <1>1, <1>5, <1>6, <1>7 DEF PathOf
<1> QED BY <1>8

-----------------------------------------------------------------------------
(* Sequences element by element.                                             *)

LEMMA SubSeqElements ==
  ASSUME NEW V, NEW s \in Seq(V), NEW m \in 1 .. Len(s) + 1, NEW n \in 0 .. Len(s), m <= n + 1
  PROVE  /\ SubSeq(s, m, n) \in Seq(V) /\ Len(SubSeq(s, m, n)) = (n - m) + 1
         /\ \A k \in 1 .. (n - m) + 1 : SubSeq(s, m, n)[k] = s[(m + k) - 1]
BY SubSeqProperties

\* t is the first i elements of s, or what comes after them.
FrontOf(V, s, i, t) == t \in Seq(V) /\ Len(t) = i /\ \A k \in 1 .. i : t[k] = s[k]
RestOf(V, s, i, t)  == t \in Seq(V) /\ Len(t) = Len(s) - i /\ \A k \in 1 .. Len(s) - i : t[k] = s[i + k]

LEMMA Halves ==
  ASSUME NEW V, NEW s \in Seq(V), NEW i \in 0 .. Len(s)
  PROVE  FrontOf(V, s, i, SubSeq(s, 1, i)) /\ RestOf(V, s, i, SubSeq(s, i + 1, Len(s)))
<1> DEFINE n == Len(s)
<1>1. n \in Nat /\ i \in Nat
  OBVIOUS
<1>2. PICK one, high \in 1 .. n + 1 : one = 1 /\ high = i + 1
  BY <1>1
<1>3. PICK low, all \in 0 .. n : low = i /\ all = n
  BY <1>1
<1>4. /\ SubSeq(s, one, low) \in Seq(V) /\ Len(SubSeq(s, one, low)) = (low - one) + 1
      /\ \A k \in 1 .. (low - one) + 1 : SubSeq(s, one, low)[k] = s[(one + k) - 1]
  BY <1>2, <1>3, SubSeqElements
<1>5. /\ SubSeq(s, high, all) \in Seq(V) /\ Len(SubSeq(s, high, all)) = (all - high) + 1
      /\ \A k \in 1 .. (all - high) + 1 : SubSeq(s, high, all)[k] = s[(high + k) - 1]
  BY <1>2, <1>3, SubSeqElements
<1> HIDE DEF n
<1>6. (low - one) + 1 = i /\ (all - high) + 1 = n - i
  BY <1>1, <1>2, <1>3
<1>7. \A k \in 1 .. i : (one + k) - 1 = k
  BY <1>1, <1>2
<1>8. \A k \in 1 .. n - i : (high + k) - 1 = i + k
  BY <1>1, <1>2
<1>9. FrontOf(V, s, i, SubSeq(s, one, low))
  BY <1>4, <1>6, <1>7 DEF FrontOf
<1>10. RestOf(V, s, i, SubSeq(s, high, all))
  <2>1. Len(s) = n
    BY DEF n
  <2> QED BY <1>5, <1>6, <1>8, <2>1 DEF RestOf
<1> QED BY <1>2, <1>3, <1>9, <1>10 DEF n

LEMMA SplitElements ==
  ASSUME NEW V, NEW s \in Seq(V), NEW i \in 1 .. Len(s)
  PROVE  /\ SubSeq(s, 1, i) \in Seq(V) /\ Len(SubSeq(s, 1, i)) = i
         /\ \A k \in 1 .. i : SubSeq(s, 1, i)[k] = s[k]
         /\ SubSeq(s, i + 1, Len(s)) \in Seq(V) /\ Len(SubSeq(s, i + 1, Len(s))) = Len(s) - i
         /\ \A k \in 1 .. Len(s) - i : SubSeq(s, i + 1, Len(s))[k] = s[i + k]
<1>1. i \in 0 .. Len(s)
  OBVIOUS
<1>2. FrontOf(V, s, i, SubSeq(s, 1, i)) /\ RestOf(V, s, i, SubSeq(s, i + 1, Len(s)))
  BY <1>1, Halves
<1> QED BY <1>2 DEF FrontOf, RestOf

LEMMA ConcatElements ==
  ASSUME NEW V, NEW s \in Seq(V), NEW t \in Seq(V)
  PROVE  /\ s \o t \in Seq(V) /\ Len(s \o t) = Len(s) + Len(t)
         /\ \A k \in 1 .. Len(s) + Len(t) : (s \o t)[k] = IF k <= Len(s) THEN s[k] ELSE t[k - Len(s)]
OBVIOUS

LEMMA RemoveAtElements ==
  ASSUME NEW V, NEW s \in Seq(V), NEW i \in 1 .. Len(s)
  PROVE  /\ RemoveAt(s, i) \in Seq(V) /\ Len(RemoveAt(s, i)) = Len(s) - 1
         /\ \A k \in 1 .. Len(s) - 1 : RemoveAt(s, i)[k] = IF k < i THEN s[k] ELSE s[k + 1]
<1> DEFINE low  == SubSeq(s, 1, i - 1)
           high == SubSeq(s, i + 1, Len(s))
<1>1. /\ low \in Seq(V) /\ Len(low) = i - 1 /\ \A k \in 1 .. i - 1 : low[k] = s[k]
  BY SubSeqElements
<1>2. /\ high \in Seq(V) /\ Len(high) = Len(s) - i /\ \A k \in 1 .. Len(s) - i : high[k] = s[i + k]
  BY SubSeqElements
<1> HIDE DEF low, high
<1>3. RemoveAt(s, i) = low \o high
  BY DEF RemoveAt, low, high
<1> DEFINE both == low \o high
<1>a. /\ both \in Seq(V) /\ Len(both) = Len(low) + Len(high)
      /\ \A k \in 1 .. Len(low) + Len(high) : both[k] = IF k <= Len(low) THEN low[k] ELSE high[k - Len(low)]
  BY <1>1, <1>2, ConcatElements
<1> HIDE DEF both
<1>b. Len(s) \in Nat /\ i \in Int /\ Len(low) + Len(high) = Len(s) - 1
  BY <1>1, <1>2
<1>4. /\ both \in Seq(V) /\ Len(both) = Len(s) - 1
      /\ \A k \in 1 .. Len(s) - 1 : both[k] = IF k <= i - 1 THEN low[k] ELSE high[k - (i - 1)]
  BY <1>a, <1>b, <1>1
<1>5. ASSUME NEW k \in 1 .. Len(s) - 1 PROVE both[k] = IF k < i THEN s[k] ELSE s[k + 1]
  <2>1. CASE k < i
    BY <1>1, <1>4, <2>1
  <2>2. CASE ~(k < i)
    <3>1. k - (i - 1) \in 1 .. Len(s) - i /\ i + (k - (i - 1)) = k + 1 /\ ~(k <= i - 1) /\ ~(k < i)
      BY <2>2
    <3> QED BY <1>2, <1>4, <3>1
  <2> QED BY <2>1, <2>2
<1> QED BY <1>3, <1>4, <1>5 DEF both

LEMMA InsertAtElements ==
  ASSUME NEW V, NEW s \in Seq(V), NEW i \in 1 .. Len(s) + 1, NEW e \in V
  PROVE  /\ InsertAt(s, i, e) \in Seq(V) /\ Len(InsertAt(s, i, e)) = Len(s) + 1
         /\ \A k \in 1 .. Len(s) + 1 :
              InsertAt(s, i, e)[k] = IF k < i THEN s[k] ELSE IF k = i THEN e ELSE s[k - 1]
<1> DEFINE low  == SubSeq(s, 1, i - 1)
           high == SubSeq(s, i, Len(s))
           part == low \o <<e>>
<1>1. /\ low \in Seq(V) /\ Len(low) = i - 1 /\ \A k \in 1 .. i - 1 : low[k] = s[k]
  BY SubSeqElements
<1>2. /\ high \in Seq(V) /\ Len(high) = (Len(s) - i) + 1
      /\ \A k \in 1 .. (Len(s) - i) + 1 : high[k] = s[(i + k) - 1]
  BY SubSeqElements
<1>3. InsertAt(s, i, e) = part \o high
  BY DEF InsertAt
<1> HIDE DEF low, high
<1>4. <<e>> \in Seq(V) /\ Len(<<e>>) = 1 /\ <<e>>[1] = e
  OBVIOUS
<1>5. /\ part \in Seq(V) /\ Len(part) = i
      /\ \A k \in 1 .. i : part[k] = IF k <= i - 1 THEN low[k] ELSE <<e>>[k - (i - 1)]
  BY <1>1, <1>4, ConcatElements
<1> HIDE DEF part
<1> DEFINE all == part \o high
<1>a. /\ all \in Seq(V) /\ Len(all) = Len(part) + Len(high)
      /\ \A k \in 1 .. Len(part) + Len(high) : all[k] = IF k <= Len(part) THEN part[k] ELSE high[k - Len(part)]
  BY <1>2, <1>5, ConcatElements
<1> HIDE DEF all
<1>b. Len(s) \in Nat /\ i \in Int /\ Len(part) + Len(high) = Len(s) + 1
  BY <1>2, <1>5
<1>6. /\ all \in Seq(V) /\ Len(all) = Len(s) + 1
      /\ \A k \in 1 .. Len(s) + 1 : all[k] = IF k <= i THEN part[k] ELSE high[k - i]
  BY <1>5, <1>a, <1>b
<1>7. ASSUME NEW k \in 1 .. Len(s) + 1
      PROVE  all[k] = IF k < i THEN s[k] ELSE IF k = i THEN e ELSE s[k - 1]
  <2>1. CASE k < i
    BY <1>1, <1>5, <1>6, <2>1
  <2>2. CASE k = i
    BY <1>4, <1>5, <1>6, <2>2
  <2>3. CASE ~(k < i) /\ k # i
    <3>1. k - i \in 1 .. (Len(s) - i) + 1 /\ (i + (k - i)) - 1 = k - 1 /\ ~(k <= i) /\ ~(k < i) /\ k # i
      BY <2>3
    <3> QED BY <1>2, <1>6, <3>1
  <2> QED BY <2>1, <2>2, <2>3
<1> QED BY <1>3, <1>6, <1>7 DEF all

LEMMA ReplaceAtElements ==
  ASSUME NEW V, NEW s \in Seq(V), NEW i \in 1 .. Len(s), NEW e \in V
  PROVE  /\ ReplaceAt(s, i, e) \in Seq(V) /\ Len(ReplaceAt(s, i, e)) = Len(s)
         /\ \A k \in 1 .. Len(s) : ReplaceAt(s, i, e)[k] = IF k = i THEN e ELSE s[k]
BY DEF ReplaceAt

-----------------------------------------------------------------------------
(* Sums over finite sets: the order of the summands does not matter.         *)

LEMMA Subsets ==
  ASSUME NEW S, IsFiniteSet(S), NEW s \in SUBSET S
  PROVE  /\ Cardinality(s) \in Nat /\ (Cardinality(s) = 0 <=> s = {})
         /\ \A x \in s : s \ {x} \in SUBSET S /\ Cardinality(s \ {x}) = Cardinality(s) - 1
<1>1. IsFiniteSet(s)
  BY FS_Subset
<1>2. Cardinality(s) \in Nat /\ (Cardinality(s) = 0 <=> s = {})
  BY <1>1, FS_CardinalityType, FS_EmptySet
<1>3. ASSUME NEW x \in s PROVE s \ {x} \in SUBSET S /\ Cardinality(s \ {x}) = Cardinality(s) - 1
  BY <1>1, FS_RemoveElement
<1> QED BY <1>2, <1>3

SomeOf(s) == CHOOSE x \in s : TRUE

\* The recursion by which the fold sums the values of w over the subsets of S.
SumsOf(S, w, g) ==
  /\ g \in [SUBSET S -> Nat]
  /\ g[{}] = 0
  /\ \A s \in SUBSET S : s # {} => g[s] = w[SomeOf(s)] + g[s \ {SomeOf(s)}]

LEMMA SumsExist ==
  ASSUME NEW S, IsFiniteSet(S), NEW w, \A x \in S : w[x] \in Nat
  PROVE  \E g : SumsOf(S, w, g)
<1> DEFINE Upto(n, g) ==
             /\ g \in [SUBSET S -> Nat]
             /\ g[{}] = 0
             /\ \A s \in SUBSET S : s # {} /\ Cardinality(s) <= n => g[s] = w[SomeOf(s)] + g[s \ {SomeOf(s)}]
           P == {n \in Nat : \E g : Upto(n, g)}
<1>1. 0 \in P
  <2> DEFINE g == [s \in SUBSET S |-> 0]
  <2>1. g \in [SUBSET S -> Nat] /\ g[{}] = 0
    OBVIOUS
  <2>2. \A s \in SUBSET S : ~(s # {} /\ Cardinality(s) <= 0)
    BY Subsets
  <2>3. Upto(0, g)
    BY <2>1, <2>2
  <2> HIDE DEF Upto
  <2> QED BY <2>3
<1>2. ASSUME NEW n \in Nat, n \in P PROVE n + 1 \in P
  <2> HIDE DEF Upto
  <2>1. PICK g : Upto(n, g)
    BY <1>2
  <2> USE DEF Upto
  <2> DEFINE h == [s \in SUBSET S |-> IF Cardinality(s) = n + 1 THEN w[SomeOf(s)] + g[s \ {SomeOf(s)}] ELSE g[s]]
  <2>2. \A s \in SUBSET S : s # {} => /\ SomeOf(s) \in s /\ SomeOf(s) \in S /\ s \ {SomeOf(s)} \in SUBSET S
                                      /\ Cardinality(s \ {SomeOf(s)}) = Cardinality(s) - 1
    <3>1. \A s \in SUBSET S : s # {} => SomeOf(s) \in s
      BY DEF SomeOf
    <3> QED BY <3>1, Subsets
  <2>3. \A s \in SUBSET S : Cardinality(s) \in Nat /\ (Cardinality(s) = 0 <=> s = {})
    BY Subsets
  <2>4. \A s \in SUBSET S : Cardinality(s) # n + 1 => h[s] = g[s]
    OBVIOUS
  <2>5. h \in [SUBSET S -> Nat]
    <3>1. ASSUME NEW s \in SUBSET S
          PROVE  (IF Cardinality(s) = n + 1 THEN w[SomeOf(s)] + g[s \ {SomeOf(s)}] ELSE g[s]) \in Nat
      <4>1. CASE Cardinality(s) = n + 1
        <5>1. s # {}
          BY <2>3, <4>1
        <5>2. w[SomeOf(s)] \in Nat /\ g[s \ {SomeOf(s)}] \in Nat
          BY <2>1, <2>2, <5>1
        <5> QED BY <4>1, <5>2
      <4>2. CASE Cardinality(s) # n + 1
        BY <2>1, <4>2
      <4> QED BY <4>1, <4>2
    <3> QED BY <3>1
  <2>6. h[{}] = 0
    <3>1. {} \in SUBSET S /\ Cardinality({}) # n + 1
      BY <2>3
    <3> QED BY <2>1, <2>4, <3>1
  <2>7. ASSUME NEW s \in SUBSET S, s # {}, Cardinality(s) <= n + 1
        PROVE  h[s] = w[SomeOf(s)] + h[s \ {SomeOf(s)}]
    <3>1. h[s \ {SomeOf(s)}] = g[s \ {SomeOf(s)}]
      BY <2>2, <2>3, <2>4, <2>7
    <3>2. CASE Cardinality(s) = n + 1
      <4>1. h[s] = w[SomeOf(s)] + g[s \ {SomeOf(s)}]
        BY <3>2
      <4> HIDE DEF h
      <4> QED BY <3>1, <4>1
    <3>3. CASE Cardinality(s) # n + 1
      <4>1. Cardinality(s) <= n /\ h[s] = g[s]
        BY <2>3, <2>4, <2>7, <3>3
      <4> HIDE DEF h
      <4> QED BY <2>1, <2>7, <3>1, <4>1
    <3> QED BY <3>2, <3>3
  <2> HIDE DEF h
  <2>8. Upto(n + 1, h)
    BY <2>5, <2>6, <2>7
  <2> HIDE DEF Upto
  <2> QED BY <2>8
<1>3. Cardinality(S) \in P
  <2>1. Cardinality(S) \in Nat
    BY FS_CardinalityType
  <2> HIDE DEF P
  <2> QED BY <1>1, <1>2, <2>1, SetInduction
<1>4. PICK g : Upto(Cardinality(S), g)
  <2> HIDE DEF Upto
  <2> QED BY <1>3
<1>5. \A s \in SUBSET S : Cardinality(s) <= Cardinality(S)
  BY FS_Subset
<1>6. SumsOf(S, w, g)
  BY <1>4, <1>5 DEF SumsOf
<1> QED BY <1>6

\* Any element may be taken first.
LEMMA AnyFirst ==
  ASSUME NEW S, IsFiniteSet(S), NEW w, \A x \in S : w[x] \in Nat, NEW g, SumsOf(S, w, g),
         NEW s \in SUBSET S, NEW x \in s
  PROVE  g[s] = w[x] + g[s \ {x}]
<1> DEFINE P == {n \in Nat : \A t \in SUBSET S : \A y \in t : Cardinality(t) = n => g[t] = w[y] + g[t \ {y}]}
<1>1. 0 \in P
  BY Subsets
<1>2. ASSUME NEW n \in Nat, n \in P PROVE n + 1 \in P
  <2> SUFFICES ASSUME NEW t \in SUBSET S, NEW y \in t, Cardinality(t) = n + 1
               PROVE  g[t] = w[y] + g[t \ {y}]
    OBVIOUS
  <2>1. PICK c \in t : c = SomeOf(t)
    BY DEF SomeOf
  <2>2. g[t] = w[c] + g[t \ {c}]
    BY <2>1 DEF SumsOf
  <2>3. CASE c = y
    BY <2>2, <2>3
  <2>4. CASE c # y
    <3> DEFINE u == (t \ {c}) \ {y}
    <3>1. /\ t \ {c} \in SUBSET S /\ Cardinality(t \ {c}) = n /\ y \in t \ {c}
          /\ t \ {y} \in SUBSET S /\ Cardinality(t \ {y}) = n /\ c \in t \ {y}
      BY <2>4, Subsets
    <3>2. g[t \ {c}] = w[y] + g[u]
      BY <1>2, <3>1
    <3>3. (t \ {y}) \ {c} = u
      OBVIOUS
    <3>4. g[t \ {y}] = w[c] + g[u]
      BY <1>2, <3>1, <3>3
    <3>5. w[c] \in Nat /\ w[y] \in Nat /\ g[u] \in Nat
      BY DEF SumsOf
    <3> HIDE DEF u
    <3> QED BY <2>2, <3>2, <3>4, <3>5
  <2> QED BY <2>3, <2>4
<1>3. Cardinality(s) \in P
  <2>1. Cardinality(s) \in Nat
    BY Subsets
  <2> HIDE DEF P
  <2> QED BY <1>1, <1>2, <2>1, SetInduction
<1> QED BY <1>3

\* What the sum is need not be asked of the set it is taken in.
LEMMA SumsAgree ==
  ASSUME NEW T, IsFiniteSet(T), NEW S \in SUBSET T, NEW w, NEW v,
         \A x \in T : v[x] \in Nat, \A x \in S : w[x] = v[x],
         NEW g, SumsOf(S, w, g), NEW h, SumsOf(T, v, h)
  PROVE  g[S] = h[S]
<1> DEFINE P == {n \in Nat : \A t \in SUBSET S : Cardinality(t) = n => g[t] = h[t]}
<1>0. IsFiniteSet(S)
  BY FS_Subset
<1>1. 0 \in P
  BY <1>0, Subsets DEF SumsOf
<1>2. ASSUME NEW n \in Nat, n \in P PROVE n + 1 \in P
  <2> SUFFICES ASSUME NEW t \in SUBSET S, Cardinality(t) = n + 1 PROVE g[t] = h[t]
    OBVIOUS
  <2>1. t # {} /\ t \in SUBSET T
    BY <1>0, Subsets
  <2>2. PICK c \in t : c = SomeOf(t)
    BY <2>1 DEF SomeOf
  <2>3. t \ {c} \in SUBSET S /\ Cardinality(t \ {c}) = n
    BY <1>0, Subsets
  <2>4. g[t] = w[c] + g[t \ {c}] /\ h[t] = v[c] + h[t \ {c}]
    BY <2>1, <2>2 DEF SumsOf
  <2> QED BY <1>2, <2>3, <2>4
<1>3. Cardinality(S) \in P
  <2>1. Cardinality(S) \in Nat
    BY <1>0, FS_CardinalityType
  <2> HIDE DEF P
  <2> QED BY <1>1, <1>2, <2>1, SetInduction
<1> QED BY <1>3

LEMMA SumIs ==
  ASSUME NEW S, IsFiniteSet(S), NEW w, \A x \in S : w[x] \in Nat
  PROVE  \E g : SumsOf(S, w, g) /\ SumFunctionOnSet(w, S) = g[S]
<1> DEFINE it == CHOOSE iter : iter = [s \in SUBSET S |->
                   IF s = {} THEN 0 ELSE w[SomeOf(s)] + iter[s \ {SomeOf(s)}]]
<1>1. SumFunctionOnSet(w, S) = it[S]
  BY DEF SumFunctionOnSet, FoldFunctionOnSet, MapThenFoldSet, SomeOf
<1>2. PICK g : SumsOf(S, w, g)
  BY SumsExist
<1>3. g = [s \in SUBSET S |-> IF s = {} THEN 0 ELSE w[SomeOf(s)] + g[s \ {SomeOf(s)}]]
  BY <1>2 DEF SumsOf
<1>4. it = [s \in SUBSET S |-> IF s = {} THEN 0 ELSE w[SomeOf(s)] + it[s \ {SomeOf(s)}]]
  BY <1>3
<1> HIDE DEF it
<1> DEFINE P == {n \in Nat : \A t \in SUBSET S : Cardinality(t) = n => g[t] = it[t]}
<1>5. 0 \in P
  <2>1. g[{}] = 0 /\ it[{}] = 0
    BY <1>2, <1>4 DEF SumsOf
  <2> QED BY <2>1, Subsets
<1>6. ASSUME NEW n \in Nat, n \in P PROVE n + 1 \in P
  <2> SUFFICES ASSUME NEW t \in SUBSET S, Cardinality(t) = n + 1 PROVE g[t] = it[t]
    OBVIOUS
  <2>1. t # {}
    BY Subsets
  <2>2. PICK c \in t : c = SomeOf(t)
    BY <2>1 DEF SomeOf
  <2>3. t \ {c} \in SUBSET S /\ Cardinality(t \ {c}) = n
    BY Subsets
  <2>4. g[t] = w[c] + g[t \ {c}] /\ it[t] = w[c] + it[t \ {c}]
    BY <1>2, <1>4, <2>1, <2>2 DEF SumsOf
  <2> QED BY <1>6, <2>3, <2>4
<1>7. Cardinality(S) \in P
  <2>1. Cardinality(S) \in Nat
    BY FS_CardinalityType
  <2> HIDE DEF P
  <2> QED BY <1>5, <1>6, <2>1, SetInduction
<1>8. g[S] = it[S]
  BY <1>7
<1> QED BY <1>1, <1>2, <1>8

\* A sum without one of its summands.
LEMMA SumWithout ==
  ASSUME NEW S, IsFiniteSet(S), NEW w, \A x \in S : w[x] \in Nat,
         NEW x \in S, NEW v, \A y \in S \ {x} : v[y] = w[y]
  PROVE  /\ SumFunctionOnSet(v, S \ {x}) \in Nat
         /\ SumFunctionOnSet(w, S) = w[x] + SumFunctionOnSet(v, S \ {x})
<1> DEFINE T == S \ {x}
<1>1. IsFiniteSet(T) /\ T \in SUBSET S /\ S \in SUBSET S
  BY FS_RemoveElement
<1>2. PICK g : SumsOf(S, w, g) /\ SumFunctionOnSet(w, S) = g[S]
  BY SumIs
<1>3. \A y \in T : v[y] \in Nat /\ v[y] = w[y]
  OBVIOUS
<1>4. g[S] = w[x] + g[T]
  BY <1>1, <1>2, AnyFirst
<1> HIDE DEF T
<1>5. PICK h : SumsOf(T, v, h) /\ SumFunctionOnSet(v, T) = h[T]
  BY <1>1, <1>3, SumIs
<1>6. h[T] = g[T]
  BY <1>1, <1>2, <1>3, <1>5, SumsAgree
<1>7. h[T] \in Nat
  BY <1>5 DEF SumsOf
<1> QED BY <1>2, <1>4, <1>5, <1>6, <1>7 DEF T

LEMMA SumOfNothing ==
  ASSUME NEW w
  PROVE  SumFunctionOnSet(w, {}) = 0
<1>1. PICK g : SumsOf({}, w, g) /\ SumFunctionOnSet(w, {}) = g[{}]
  BY SumIs, FS_EmptySet
<1> QED BY <1>1 DEF SumsOf

LEMMA SumSame ==
  ASSUME NEW S, IsFiniteSet(S), NEW w, NEW v, \A x \in S : w[x] \in Nat /\ w[x] = v[x]
  PROVE  /\ SumFunctionOnSet(w, S) \in Nat
         /\ SumFunctionOnSet(w, S) = SumFunctionOnSet(v, S)
<1>1. PICK g : SumsOf(S, w, g) /\ SumFunctionOnSet(w, S) = g[S]
  BY SumIs
<1>2. PICK h : SumsOf(S, v, h) /\ SumFunctionOnSet(v, S) = h[S]
  <2>1. \A x \in S : v[x] \in Nat
    OBVIOUS
  <2> QED BY <2>1, SumIs
<1>3. g[S] = h[S]
  <2>1. S \in SUBSET S /\ (\A x \in S : v[x] \in Nat) /\ \A x \in S : w[x] = v[x]
    OBVIOUS
  <2> QED BY <1>1, <1>2, <2>1, SumsAgree
<1>4. g[S] \in Nat
  BY <1>1 DEF SumsOf
<1> QED BY <1>1, <1>2, <1>3, <1>4

\* Sums along a sequence of summands.
SumTo(w, k) == SumFunctionOnSet(w, 1 .. k)

LEMMA SumToNext ==
  ASSUME NEW n \in Nat, NEW w, \A i \in 1 .. n + 1 : w[i] \in Nat
  PROVE  /\ SumTo(w, n) \in Nat /\ SumTo(w, n + 1) \in Nat
         /\ SumTo(w, n + 1) = SumTo(w, n) + w[n + 1]
<1> DEFINE S == 1 .. n + 1
<1>1. IsFiniteSet(S) /\ n + 1 \in S /\ S \ {n + 1} = 1 .. n /\ w[n + 1] \in Nat
  <2>1. \A a, c \in Int : IsFiniteSet(a .. c)
    BY FS_Interval
  <2>2. IsFiniteSet(S)
    BY <2>1
  <2> QED BY <2>2
<1> HIDE DEF S
<1>2. (\A x \in S : w[x] \in Nat) /\ \A y \in S \ {n + 1} : w[y] = w[y]
  BY DEF S
<1>3. PICK x \in S : x = n + 1
  BY <1>1
<1>4. /\ SumFunctionOnSet(w, S \ {x}) \in Nat
      /\ SumFunctionOnSet(w, S) = w[x] + SumFunctionOnSet(w, S \ {x})
  BY <1>1, <1>2, SumWithout
<1>5. SumTo(w, n) = SumFunctionOnSet(w, S \ {x})
  BY <1>1, <1>3 DEF SumTo
<1>6. SumTo(w, n + 1) = SumFunctionOnSet(w, S)
  BY DEF SumTo, S
<1>7. w[x] = w[n + 1] /\ w[x] \in Nat
  BY <1>1, <1>3
<1> HIDE DEF S
<1> QED BY <1>4, <1>5, <1>6, <1>7

LEMMA SumToNone ==
  ASSUME NEW w
  PROVE  SumTo(w, 0) = 0
<1>1. 1 .. 0 = {}
  OBVIOUS
<1> QED BY <1>1, SumOfNothing DEF SumTo

LEMMA SumToNat ==
  ASSUME NEW n \in Nat, NEW w, \A i \in 1 .. n : w[i] \in Nat
  PROVE  SumTo(w, n) \in Nat
<1>1. IsFiniteSet(1 .. n)
  BY FS_Interval
<1>2. \A i \in 1 .. n : w[i] \in Nat /\ w[i] = w[i]
  OBVIOUS
<1> QED BY <1>1, <1>2, SumSame DEF SumTo

\* Two sequences with a stretch of summands in common.
Stretch(v, a, w, c, l) ==
  /\ \A i \in 1 .. a + l : v[i] \in Nat
  /\ \A i \in 1 .. c + l : w[i] \in Nat
  /\ \A k \in 1 .. l : v[a + k] = w[c + k]

LEMMA SumStretch ==
  ASSUME NEW a \in Nat, NEW c \in Nat, NEW l \in Nat, NEW v, NEW w, Stretch(v, a, w, c, l)
  PROVE  SumTo(v, a + l) + SumTo(w, c) = SumTo(w, c + l) + SumTo(v, a)
<1> USE DEF Stretch
<1> DEFINE P == {k \in Nat : k <= l => SumTo(v, a + k) + SumTo(w, c) = SumTo(w, c + k) + SumTo(v, a)}
<1>0. \A k \in 0 .. l : SumTo(v, a + k) \in Nat /\ SumTo(w, c + k) \in Nat
  <2> SUFFICES ASSUME NEW k \in 0 .. l PROVE SumTo(v, a + k) \in Nat /\ SumTo(w, c + k) \in Nat
    OBVIOUS
  <2>1. a + k \in Nat /\ c + k \in Nat /\ (\A i \in 1 .. a + k : v[i] \in Nat) /\ \A i \in 1 .. c + k : w[i] \in Nat
    OBVIOUS
  <2> QED BY <2>1, SumToNat
<1>1. 0 \in P
  <2>1. 0 \in 0 .. l /\ a + 0 = a /\ c + 0 = c
    OBVIOUS
  <2>2. SumTo(v, a) \in Nat /\ SumTo(w, c) \in Nat
    BY <1>0, <2>1
  <2> QED BY <2>1, <2>2
<1>2. ASSUME NEW k \in Nat, k \in P PROVE k + 1 \in P
  <2> SUFFICES ASSUME k + 1 <= l
               PROVE  SumTo(v, a + (k + 1)) + SumTo(w, c) = SumTo(w, c + (k + 1)) + SumTo(v, a)
    OBVIOUS
  <2>1. PICK x, y \in Nat : x = a + k /\ y = c + k /\ x + 1 = a + (k + 1) /\ y + 1 = c + (k + 1)
    OBVIOUS
  <2>2. \A i \in 1 .. x + 1 : v[i] \in Nat
    BY <2>1
  <2>3. \A i \in 1 .. y + 1 : w[i] \in Nat
    BY <2>1
  <2>4. SumTo(v, x) \in Nat /\ SumTo(v, x + 1) = SumTo(v, x) + v[x + 1]
    BY <2>2, SumToNext
  <2>5. SumTo(w, y) \in Nat /\ SumTo(w, y + 1) = SumTo(w, y) + w[y + 1]
    BY <2>3, SumToNext
  <2>6. v[x + 1] = w[y + 1] /\ v[x + 1] \in Nat
    <3>1. k + 1 \in 1 .. l /\ x + 1 \in 1 .. x + 1
      BY <2>1
    <3> QED BY <2>1, <2>2, <3>1
  <2>7. SumTo(v, x) + SumTo(w, c) = SumTo(w, y) + SumTo(v, a)
    BY <1>2, <2>1
  <2>8. SumTo(v, a) \in Nat /\ SumTo(w, c) \in Nat
    <3>1. 0 \in 0 .. l /\ a + 0 = a /\ c + 0 = c
      OBVIOUS
    <3> QED BY <1>0, <3>1
  <2> QED BY <2>1, <2>4, <2>5, <2>6, <2>7, <2>8
<1>3. l \in P
  <2> HIDE DEF P
  <2> QED BY <1>1, <1>2, SetInduction
<1> QED BY <1>3

\* One summand left out.
LeftOut(v, w, n, i) ==
  /\ \A k \in 1 .. n : w[k] \in Nat
  /\ \A k \in 1 .. n - 1 : v[k] = IF k < i THEN w[k] ELSE w[k + 1]

LEMMA SumDropped ==
  ASSUME NEW n \in Nat, NEW i \in 1 .. n, NEW v, NEW w, LeftOut(v, w, n, i)
  PROVE  SumTo(v, n - 1) \in Nat /\ SumTo(w, n) = SumTo(v, n - 1) + w[i]
<1> USE DEF LeftOut
<1>1. PICK p, l, j \in Nat : i = p + 1 /\ n = i + l /\ n - 1 = p + l /\ j = i
  <2>1. i - 1 \in Nat /\ n - i \in Nat /\ i = (i - 1) + 1 /\ n = i + (n - i) /\ n - 1 = (i - 1) + (n - i)
    OBVIOUS
  <2> QED BY <2>1
<1>2. \A k \in 1 .. p + l : v[k] \in Nat
  <2> SUFFICES ASSUME NEW k \in 1 .. p + l PROVE v[k] \in Nat
    OBVIOUS
  <2>1. k \in 1 .. n - 1 /\ k \in 1 .. n /\ k + 1 \in 1 .. n
    BY <1>1
  <2> QED BY <2>1
<1>3. SumTo(v, p) = SumTo(w, p)
  <2>1. ASSUME NEW k \in 1 .. p PROVE w[k] \in Nat /\ w[k] = v[k]
    <3>1. k \in 1 .. n - 1 /\ k \in 1 .. n /\ k < i
      BY <1>1
    <3> QED BY <3>1
  <2>2. IsFiniteSet(1 .. p)
    BY FS_Interval
  <2> QED BY <2>1, <2>2, SumSame DEF SumTo
<1>4. SumTo(w, p) \in Nat /\ SumTo(w, i) = SumTo(w, p) + w[i]
  <2>1. \A k \in 1 .. p + 1 : w[k] \in Nat
    BY <1>1
  <2> QED BY <1>1, <2>1, SumToNext
<1>5. SumTo(v, p + l) + SumTo(w, i) = SumTo(w, i + l) + SumTo(v, p)
  <2>1. \A k \in 1 .. j + l : w[k] \in Nat
    BY <1>1
  <2>2. ASSUME NEW k \in 1 .. l PROVE v[p + k] = w[j + k]
    <3>1. p + k \in 1 .. n - 1 /\ ~(p + k < i) /\ (p + k) + 1 = j + k
      BY <1>1
    <3> QED BY <3>1
  <2>3. Stretch(v, p, w, j, l)
    BY <1>2, <2>1, <2>2 DEF Stretch
  <2>4. SumTo(v, p + l) + SumTo(w, j) = SumTo(w, j + l) + SumTo(v, p)
    BY <2>3, SumStretch
  <2> QED BY <1>1, <2>4
<1>6. SumTo(v, p + l) \in Nat /\ SumTo(w, i + l) \in Nat /\ w[i] \in Nat
  <2>1. p + l \in Nat /\ i + l \in Nat /\ \A k \in 1 .. i + l : w[k] \in Nat
    BY <1>1
  <2> QED BY <1>2, <2>1, SumToNat
<1> QED BY <1>1, <1>3, <1>4, <1>5, <1>6

\* One summand changed.
Changed(v, w, n, i) ==
  /\ \A k \in 1 .. n : w[k] \in Nat /\ v[k] \in Nat
  /\ \A k \in (1 .. n) \ {i} : v[k] = w[k]

LEMMA SumChanged ==
  ASSUME NEW n \in Nat, NEW i \in 1 .. n, NEW v, NEW w, Changed(v, w, n, i)
  PROVE  SumTo(v, n) + w[i] = SumTo(w, n) + v[i]
<1> DEFINE S == 1 .. n
<1>1. IsFiniteSet(S)
  BY FS_Interval
<1>2. (\A k \in S : w[k] \in Nat) /\ (\A k \in S : v[k] \in Nat) /\ \A k \in S \ {i} : v[k] = w[k]
  BY DEF Changed
<1>3. i \in S /\ w[i] \in Nat /\ v[i] \in Nat
  BY <1>2
<1> HIDE DEF S
<1>4. PICK x \in S : x = i
  BY <1>3
<1>5. /\ SumFunctionOnSet(v, S \ {x}) \in Nat
      /\ SumFunctionOnSet(w, S) = w[x] + SumFunctionOnSet(v, S \ {x})
  <2>1. \A k \in S \ {x} : v[k] = w[k]
    BY <1>2, <1>4
  <2> QED BY <1>1, <1>2, <2>1, SumWithout
<1>6. SumFunctionOnSet(v, S) = v[x] + SumFunctionOnSet(v, S \ {x})
  <2>1. \A k \in S \ {x} : v[k] = v[k]
    OBVIOUS
  <2> QED BY <1>1, <1>2, <2>1, SumWithout
<1>7. SumTo(v, n) = SumFunctionOnSet(v, S) /\ SumTo(w, n) = SumFunctionOnSet(w, S)
  BY DEF SumTo, S
<1> QED BY <1>3, <1>4, <1>5, <1>6, <1>7

-----------------------------------------------------------------------------
(* Division by a positive number.                                            *)

LEMMA DivIs ==
  ASSUME NEW a \in Int, NEW d \in Nat \ {0}, NEW q \in Int, d * q <= a, a < d * q + d
  PROVE  a \div d = q
OBVIOUS

LEMMA DivBounds ==
  ASSUME NEW a \in Int, NEW d \in Nat \ {0}
  PROVE  a \div d \in Int /\ d * (a \div d) <= a /\ a < d * (a \div d) + d
OBVIOUS

LEMMA MulMonotone ==
  ASSUME NEW d \in Nat, NEW a \in Int, NEW b \in Int, a <= b
  PROVE  a * d <= b * d
OBVIOUS
=============================================================================
