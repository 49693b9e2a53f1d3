----------------------------- MODULE TextLemmas ------------------------------
(***************************************************************************)
(* Lemmas about the sequences ChatRequest is made of: induction over Nat   *)
(* in the form of sets, the largest index of a kind, FlattenSeq one        *)
(* element at a time, and how often an element occurs in a sequence.       *)
(*                                                                         *)
(* Induction is stated of a set S of numbers and not of a predicate: it    *)
(* then follows from WFMin for <, and is used by naming S.                 *)
(***************************************************************************)
EXTENDS SequencesExt, WellFoundedInduction, FiniteSetTheorems, TLAPS

-----------------------------------------------------------------------------
(* Induction *)

\* A non-empty set of numbers has a least one.
LEMMA LeastElement ==
  ASSUME NEW T \in SUBSET Nat, T # {}
  PROVE  \E m \in T : \A k \in T : m <= k
<1> DEFINE R == OpToRel(<, Nat)
<1>1. IsWellFoundedOn(R, Nat)
  BY NatLessThanWellFounded
<1>2. \A x, y \in Nat : <<x, y>> \in R <=> x < y
  BY DEF OpToRel
<1> HIDE DEF R
<1>3. PICK m \in T : \A k \in T : <<k, m>> \notin R
  BY <1>1, WFMin
<1>4. \A k \in T : m <= k
  <2>1. \A k \in T : ~(k < m)
    BY <1>2, <1>3
  <2> QED  BY <2>1
<1> QED  BY <1>4

\* Induction over the numbers, with a set in the place of the formula: no
\* operator has to be given as a parameter.
LEMMA SetInduction ==
  ASSUME NEW S, 0 \in S, \A n \in Nat : n \in S => n + 1 \in S
  PROVE  Nat \subseteq S
<1> DEFINE T == Nat \ S
<1> SUFFICES ASSUME T # {} PROVE FALSE
  OBVIOUS
<1>1. PICK m \in T : \A k \in T : m <= k
  BY LeastElement
<1>2. m - 1 \in Nat /\ m - 1 \notin T
  BY <1>1
<1>3. (m - 1) + 1 \in S
  BY <1>2
<1> QED  BY <1>1, <1>3

\* A non-empty set of indices has a largest one.
LEMMA LargestIndex ==
  ASSUME NEW n \in Nat, NEW S \in SUBSET (1 .. n), S # {}
  PROVE  Max(S) \in S /\ \A k \in S : k <= Max(S)
<1> DEFINE T == {n - k : k \in S}
<1>1. PICK m \in T : \A j \in T : m <= j
  <2>1. T \in SUBSET Nat
    OBVIOUS
  <2>2. T # {}
    OBVIOUS
  <2> HIDE DEF T
  <2> QED  BY <2>1, <2>2, LeastElement
<1>2. PICK x \in S : m = n - x
  BY <1>1
<1>3. \A y \in S : x >= y
  <2> TAKE y \in S
  <2>1. m <= n - y
    BY <1>1
  <2> QED  BY <1>2, <2>1
<1>4. Max(S) = CHOOSE z \in S : \A y \in S : z >= y
  BY DEF Max
<1>5. Max(S) \in S /\ \A y \in S : Max(S) >= y
  BY <1>3, <1>4
<1> QED  BY <1>5

-----------------------------------------------------------------------------
(* FlattenSeq *)

\* The first n elements of e, one after the other
Flat(e, n) == FlattenSeq([k \in 1 .. n |-> e[k]])

\* f is what the recursive function in FlattenSeq is for the first n elements.
Cell(e, f, i)     == IF i = 1 THEN e[i] ELSE f[i - 1] \o e[i]
Flattens(e, n, f) == f = [i \in 1 .. n |-> Cell(e, f, i)]

\* The function for n elements goes on to one for n + 1.
LEMMA FlattensStep ==
  ASSUME NEW n \in Nat, NEW e, NEW f, Flattens(e, n, f)
  PROVE  \E g : Flattens(e, n + 1, g)
<1> DEFINE g == [i \in 1 .. n + 1 |-> Cell(e, f, i)]
<1>1. \A i \in 1 .. n : f[i] = Cell(e, f, i)
  BY DEF Flattens
<1>2. \A i \in 1 .. n + 1 : g[i] = Cell(e, f, i)
  OBVIOUS
<1>3. \A i \in 1 .. n + 1 : Cell(e, g, i) = Cell(e, f, i)
  <2> TAKE i \in 1 .. n + 1
  <2>1. i # 1 => g[i - 1] = f[i - 1]
    <3>1. i # 1 => i - 1 \in 1 .. n /\ i - 1 \in 1 .. n + 1
      OBVIOUS
    <3> HIDE DEF g
    <3> QED  BY <1>1, <1>2, <3>1
  <2> HIDE DEF g
  <2> QED  BY <2>1 DEF Cell
<1>4. g = [i \in 1 .. n + 1 |-> Cell(e, g, i)]
  BY <1>3
<1> HIDE DEF g
<1> QED  BY <1>4 DEF Flattens

\* There is a function that obeys the recursive equation.
LEMMA FlattensExists ==
  ASSUME NEW e, NEW n \in Nat
  PROVE  \E f : Flattens(e, n, f)
<1> DEFINE S == {j \in Nat : \E f : Flattens(e, j, f)}
<1>1. 0 \in S
  <2>1. Flattens(e, 0, [i \in 1 .. 0 |-> e[i]])
    BY DEF Flattens
  <2> QED  BY <2>1
<1>2. ASSUME NEW j \in Nat, j \in S PROVE j + 1 \in S
  BY <1>2, FlattensStep
<1>3. Nat \subseteq S
  <2> HIDE DEF S
  <2> QED  BY <1>1, <1>2, SetInduction
<1> QED  BY <1>3

\* What f is then: each element is put behind what is there.
Builds(X, e, n, f) ==
  /\ f[1] = e[1]
  /\ \A i \in 1 .. n - 1 : f[i + 1] = f[i] \o e[i + 1]
  /\ \A i \in 1 .. n : f[i] \in Seq(X)
  /\ Flat(e, n) = f[n]

\* The recursive function in FlattenSeq does what its equation says.
LEMMA FlattenFunction ==
  ASSUME NEW X, NEW n \in Nat, n # 0, NEW e, \A k \in 1 .. n : e[k] \in Seq(X)
  PROVE  \E f : Builds(X, e, n, f)
<1> DEFINE ss == [k \in 1 .. n |-> e[k]]
           F  == CHOOSE f : Flattens(ss, n, f)
<1>1. Len(ss) = n /\ \A k \in 1 .. n : ss[k] = e[k]
  OBVIOUS
<1>2. Flat(e, n) = FlattenSeq(ss)
  BY DEF Flat
<1> HIDE DEF ss
<1>3. Flattens(ss, n, F)
  BY FlattensExists
<1>4. FlattenSeq(ss) = F[n]
  BY <1>1 DEF FlattenSeq, Flattens, Cell
<1> HIDE DEF F
<1>5. \A i \in 1 .. n : F[i] = Cell(ss, F, i)
  BY <1>3 DEF Flattens
<1>6. F[1] = e[1]
  BY <1>1, <1>5 DEF Cell
<1>7. ASSUME NEW i \in 1 .. n - 1 PROVE F[i + 1] = F[i] \o e[i + 1]
  <2>1. i + 1 \in 1 .. n /\ i + 1 # 1 /\ (i + 1) - 1 = i
    OBVIOUS
  <2> QED  BY <1>1, <1>5, <2>1 DEF Cell
<1>8. \A i \in 1 .. n : F[i] \in Seq(X)
  <2> DEFINE Q == {j \in Nat : j + 1 <= n => F[j + 1] \in Seq(X)}
  <2>1. 0 \in Q
    BY <1>6
  <2>2. ASSUME NEW j \in Nat, j \in Q PROVE j + 1 \in Q
    <3> SUFFICES ASSUME (j + 1) + 1 <= n PROVE F[(j + 1) + 1] \in Seq(X)
      OBVIOUS
    <3>1. j + 1 \in 1 .. n - 1 /\ (j + 1) + 1 \in 1 .. n
      OBVIOUS
    <3>2. F[j + 1] \in Seq(X)
      BY <2>2, <3>1
    <3>3. F[(j + 1) + 1] = F[j + 1] \o e[(j + 1) + 1] /\ e[(j + 1) + 1] \in Seq(X)
      BY <1>7, <3>1
    <3> DEFINE x == F[j + 1]
               y == e[(j + 1) + 1]
    <3>4. x \in Seq(X) /\ y \in Seq(X)
      BY <3>2, <3>3
    <3> HIDE DEF x, y
    <3>5. x \o y \in Seq(X)
      BY <3>4
    <3> QED  BY <3>3, <3>5 DEF x, y
  <2>3. Nat \subseteq Q
    <3> HIDE DEF Q
    <3> QED  BY <2>1, <2>2, SetInduction
  <2> TAKE i \in 1 .. n
  <2>4. i - 1 \in Nat /\ (i - 1) + 1 = i /\ i <= n
    OBVIOUS
  <2>5. i - 1 \in Q
    BY <2>3, <2>4
  <2> QED  BY <2>4, <2>5
<1> QED  BY <1>2, <1>4, <1>6, <1>7, <1>8 DEF Builds

\* Nothing flattens to the empty text.
LEMMA FlatNone == \A e : Flat(e, 0) = << >>
<1> TAKE e
<1>1. [k \in 1 .. 0 |-> e[k]] = << >>
  OBVIOUS
<1> QED  BY <1>1 DEF Flat, FlattenSeq

\* One more element comes at the end.
LEMMA FlatStep ==
  ASSUME NEW X, NEW n \in Nat, NEW e, \A k \in 1 .. n + 1 : e[k] \in Seq(X)
  PROVE  /\ Flat(e, n) \in Seq(X)
         /\ Flat(e, n + 1) = Flat(e, n) \o e[n + 1]
<1>1. n + 1 \in Nat /\ n + 1 # 0 /\ (n + 1) - 1 = n /\ n + 1 \in 1 .. n + 1
  OBVIOUS
<1>2. PICK g : Builds(X, e, n + 1, g)
  BY <1>1, FlattenFunction
<1>3. /\ g[1] = e[1]
      /\ \A i \in 1 .. n : g[i + 1] = g[i] \o e[i + 1]
      /\ Flat(e, n + 1) = g[n + 1]
  BY <1>1, <1>2 DEF Builds
<1>4. CASE n = 0
  <2>1. Flat(e, n) = << >>
    BY <1>4, FlatNone
  <2>2. Flat(e, n + 1) = e[1] /\ e[n + 1] = e[1] /\ e[1] \in Seq(X)
    BY <1>3, <1>4
  <2> QED  BY <2>1, <2>2
<1>5. CASE n # 0
  <2>1. \A k \in 1 .. n : e[k] \in Seq(X)
    OBVIOUS
  <2>2. PICK f : Builds(X, e, n, f)
    BY <1>5, <2>1, FlattenFunction
  <2> DEFINE S == {j \in Nat : j + 1 <= n => f[j + 1] = g[j + 1]}
  <2>3. 0 \in S
    BY <1>3, <2>2 DEF Builds
  <2>4. ASSUME NEW j \in Nat, j \in S PROVE j + 1 \in S
    <3> SUFFICES ASSUME (j + 1) + 1 <= n PROVE f[(j + 1) + 1] = g[(j + 1) + 1]
      OBVIOUS
    <3>1. j + 1 \in 1 .. n - 1 /\ j + 1 \in 1 .. n
      OBVIOUS
    <3>2. f[j + 1] = g[j + 1]
      BY <2>4, <3>1
    <3> QED  BY <1>3, <2>2, <3>1, <3>2 DEF Builds
  <2>5. Nat \subseteq S
    <3> HIDE DEF S
    <3> QED  BY <2>3, <2>4, SetInduction
  <2>6. n - 1 \in Nat /\ (n - 1) + 1 = n /\ n <= n /\ n \in 1 .. n
    BY <1>5
  <2>7. f[n] = g[n]
    <3>1. n - 1 \in S
      BY <2>5, <2>6
    <3> QED  BY <2>6, <3>1
  <2> QED  BY <1>3, <2>2, <2>6, <2>7 DEF Builds
<1> QED  BY <1>4, <1>5

\* What is flattened is a sequence of what its elements are made of.
LEMMA FlatType ==
  ASSUME NEW X, NEW n \in Nat, NEW e, \A k \in 1 .. n : e[k] \in Seq(X)
  PROVE  Flat(e, n) \in Seq(X)
<1>1. CASE n = 0
  <2>1. Flat(e, n) = << >>
    BY <1>1, FlatNone
  <2> QED  BY <2>1
<1>2. CASE n # 0
  <2>1. n - 1 \in Nat /\ (n - 1) + 1 = n /\ n \in 1 .. n
    BY <1>2
  <2>2. \A k \in 1 .. (n - 1) + 1 : e[k] \in Seq(X)
    BY <2>1
  <2>3. /\ Flat(e, n - 1) \in Seq(X)
        /\ Flat(e, (n - 1) + 1) = Flat(e, n - 1) \o e[(n - 1) + 1]
    BY <2>1, <2>2, FlatStep
  <2>4. Flat(e, n) = Flat(e, n - 1) \o e[n] /\ e[n] \in Seq(X)
    BY <2>1, <2>3
  <2> DEFINE x == Flat(e, n - 1)
             y == e[n]
  <2>5. x \in Seq(X) /\ y \in Seq(X)
    BY <2>3, <2>4
  <2> HIDE DEF x, y
  <2>6. x \o y \in Seq(X)
    BY <2>5
  <2> QED  BY <2>4, <2>6 DEF x, y
<1> QED  BY <1>1, <1>2

Begins(X, s, t) == \E r \in Seq(X) : t = s \o r

\* What is flattened begins with what its first elements give.
LEMMA FlatBegins ==
  ASSUME NEW X, NEW n \in Nat, NEW e, \A k \in 1 .. n : e[k] \in Seq(X),
         NEW m \in 0 .. n
  PROVE  Begins(X, Flat(e, m), Flat(e, n))
<1> DEFINE S == {j \in Nat : m + j <= n =>
                   \E t \in Seq(X) : Flat(e, m + j) = Flat(e, m) \o t}
<1>1. Flat(e, m) \in Seq(X)
  BY FlatType
<1>2. 0 \in S
  <2>1. << >> \in Seq(X) /\ Flat(e, m) = Flat(e, m) \o << >>
    BY <1>1
  <2>2. m + 0 = m
    OBVIOUS
  <2> QED  BY <2>1, <2>2
<1>3. ASSUME NEW j \in Nat, j \in S PROVE j + 1 \in S
  <2> SUFFICES ASSUME m + (j + 1) <= n
               PROVE  \E t \in Seq(X) : Flat(e, m + (j + 1)) = Flat(e, m) \o t
    OBVIOUS
  <2> DEFINE i == m + j
             y == e[i + 1]
  <2>1. i \in Nat /\ i + 1 = m + (j + 1) /\ i + 1 \in 1 .. n /\ m + j <= n
    OBVIOUS
  <2>2. PICK t \in Seq(X) : Flat(e, i) = Flat(e, m) \o t
    BY <1>3, <2>1
  <2>3. y \in Seq(X)
    BY <2>1
  <2>4. Flat(e, i + 1) = Flat(e, i) \o y
    <3>1. \A k \in 1 .. i + 1 : e[k] \in Seq(X)
      BY <2>1
    <3> HIDE DEF i
    <3> QED  BY <2>1, <3>1, FlatStep
  <2> HIDE DEF i, y
  <2>5. t \o y \in Seq(X) /\ Flat(e, i + 1) = Flat(e, m) \o (t \o y)
    <3> DEFINE u == Flat(e, m)
    <3>1. u \in Seq(X) /\ Flat(e, i + 1) = (u \o t) \o y
      BY <1>1, <2>2, <2>4
    <3> HIDE DEF u
    <3>2. t \o y \in Seq(X) /\ (u \o t) \o y = u \o (t \o y)
      BY <2>3, <3>1
    <3> QED  BY <3>1, <3>2 DEF u
  <2> QED  BY <2>1, <2>5
<1>4. Nat \subseteq S
  <2> HIDE DEF S
  <2> QED  BY <1>2, <1>3, SetInduction
<1>5. n - m \in Nat /\ m + (n - m) = n /\ n <= n
  OBVIOUS
<1>6. n - m \in S
  BY <1>4, <1>5
<1> QED  BY <1>5, <1>6 DEF Begins

-----------------------------------------------------------------------------
(* How often x occurs in s *)

At(x, s)     == {k \in DOMAIN s : s[k] = x}
Occurs(x, s) == Cardinality(At(x, s))

\* A sequence has finitely many places where x occurs.
LEMMA OccursType ==
  ASSUME NEW X, NEW s \in Seq(X), NEW x
  PROVE  IsFiniteSet(At(x, s)) /\ Occurs(x, s) \in Nat
<1>1. At(x, s) \in SUBSET (1 .. Len(s)) /\ Len(s) \in Int
  BY DEF At
<1>2. IsFiniteSet(At(x, s))
  BY <1>1, FS_Interval, FS_Subset
<1> QED  BY <1>2, FS_CardinalityType DEF Occurs

\* What is not in a sequence occurs 0 times.
LEMMA OccursNowhere ==
  ASSUME NEW s, NEW x, \A k \in DOMAIN s : s[k] # x
  PROVE  Occurs(x, s) = 0
<1>1. At(x, s) = {}
  BY DEF At
<1> QED  BY <1>1, FS_EmptySet DEF Occurs

\* A sequence of nothing but x has x as often as it is long.
LEMMA OccursEverywhere ==
  ASSUME NEW X, NEW s \in Seq(X), NEW x, \A k \in DOMAIN s : s[k] = x
  PROVE  Occurs(x, s) = Len(s)
<1>1. At(x, s) = 1 .. Len(s) /\ Len(s) \in Nat
  BY DEF At
<1>2. Cardinality(1 .. Len(s)) = Len(s)
  BY <1>1, FS_Interval
<1> QED  BY <1>1, <1>2 DEF Occurs

\* What occurs in either part occurs in the whole.
LEMMA OccursConcat ==
  ASSUME NEW X, NEW s \in Seq(X), NEW t \in Seq(X), NEW x
  PROVE  Occurs(x, s \o t) = Occurs(x, s) + Occurs(x, t)
<1> DEFINE n == Len(s)
           U == {n + k : k \in At(x, t)}
           f == [k \in At(x, t) |-> n + k]
<1>1. n \in Nat /\ At(x, s) \subseteq 1 .. n /\ At(x, t) \subseteq 1 .. Len(t)
      /\ Len(t) \in Nat
  BY DEF At
<1>2. IsFiniteSet(U) /\ Cardinality(U) = Cardinality(At(x, t))
  <2>1. f \in Bijection(At(x, t), U)
    BY <1>1 DEF Bijection, Injection, Surjection, IsInjective
  <2>2. ExistsBijection(At(x, t), U)
    BY <2>1 DEF ExistsBijection
  <2> HIDE DEF U
  <2> QED  BY <2>2, OccursType, FS_Bijection
<1>3. At(x, s) \cap U = {}
  BY <1>1
<1>4. At(x, s \o t) = At(x, s) \cup U
  <2>1. \A k \in 1 .. n + Len(t) :
          (s \o t)[k] = IF k <= n THEN s[k] ELSE t[k - n]
    OBVIOUS
  <2>2. DOMAIN (s \o t) = 1 .. n + Len(t) /\ DOMAIN s = 1 .. n /\ DOMAIN t = 1 .. Len(t)
    OBVIOUS
  <2>3. \A k \in 1 .. n : (s \o t)[k] = s[k] /\ k \in 1 .. n + Len(t)
    BY <1>1, <2>1
  <2>4. \A k \in 1 .. Len(t) :
          (s \o t)[n + k] = t[k] /\ n + k \in 1 .. n + Len(t)
    BY <1>1, <2>1
  <2>5. \A k \in 1 .. n + Len(t) :
          k \in 1 .. n \/ (k - n \in 1 .. Len(t) /\ k = n + (k - n))
    BY <1>1
  <2> DEFINE w == s \o t
  <2> HIDE DEF n, w
  <2>6. ASSUME NEW k \in At(x, w) PROVE k \in At(x, s) \/ k \in U
    <3>1. k \in 1 .. n + Len(t) /\ w[k] = x
      BY <2>2 DEF At, w
    <3>2. CASE k \in 1 .. n
      BY <2>2, <2>3, <3>1, <3>2 DEF At, w
    <3>3. CASE k - n \in 1 .. Len(t) /\ k = n + (k - n)
      <4> DEFINE i == k - n
      <4>1. i \in 1 .. Len(t) /\ k = n + i
        BY <3>3
      <4> HIDE DEF i
      <4>2. i \in At(x, t)
        BY <2>2, <2>4, <3>1, <4>1 DEF At, w
      <4> QED  BY <4>1, <4>2
    <3> QED  BY <2>5, <3>1, <3>2, <3>3
  <2>7. \A k : k \in At(x, s) \/ k \in U => k \in At(x, w)
    BY <2>2, <2>3, <2>4 DEF At, w
  <2> QED  BY <2>6, <2>7 DEF w
<1> HIDE DEF U
<1>5. Cardinality(At(x, s) \cup U) = Cardinality(At(x, s)) + Cardinality(U)
  <2>1. IsFiniteSet(At(x, s)) /\ Cardinality(At(x, s)) \in Nat
    BY OccursType DEF Occurs
  <2>2. Cardinality(U) \in Nat /\ Cardinality({}) = 0
    BY <1>2, FS_CardinalityType, FS_EmptySet
  <2>3. Cardinality(At(x, s) \cup U)
          = Cardinality(At(x, s)) + Cardinality(U) - Cardinality({})
    BY <1>2, <1>3, <2>1, FS_Union
  <2> QED  BY <2>1, <2>2, <2>3
<1> QED  BY <1>2, <1>4, <1>5 DEF Occurs

\* x occurs in each element of e as often as in that of d, and c times more in
\* element j.
HasMore(X, n, d, e, x, j, c) ==
  \A k \in 1 .. n :
    /\ d[k] \in Seq(X) /\ e[k] \in Seq(X)
    /\ Occurs(x, e[k]) = Occurs(x, d[k]) + (IF k = j THEN c ELSE 0)

\* Then it occurs c times more in all of them.
LEMMA FlatOccurs ==
  ASSUME NEW X, NEW n \in Nat, NEW d, NEW e, NEW x, NEW j \in 1 .. n, NEW c \in Nat,
         HasMore(X, n, d, e, x, j, c)
  PROVE  Occurs(x, Flat(e, n)) = Occurs(x, Flat(d, n)) + c
<1> DEFINE More(m) == IF j <= m THEN c ELSE 0
           S == {m \in Nat : m <= n =>
                   Occurs(x, Flat(e, m)) = Occurs(x, Flat(d, m)) + More(m)}
<1>1. 0 \in S
  <2>1. Occurs(x, << >>) = 0
    BY OccursNowhere
  <2>2. Flat(e, 0) = << >> /\ Flat(d, 0) = << >>
    BY FlatNone
  <2> QED  BY <2>1, <2>2
<1>2. ASSUME NEW m \in Nat, m \in S PROVE m + 1 \in S
  <2> SUFFICES ASSUME m + 1 <= n
               PROVE  Occurs(x, Flat(e, m + 1)) = Occurs(x, Flat(d, m + 1)) + More(m + 1)
    OBVIOUS
  <2>1. m + 1 \in 1 .. n /\ m <= n
    OBVIOUS
  <2>2. Occurs(x, Flat(e, m)) = Occurs(x, Flat(d, m)) + More(m)
    BY <1>2, <2>1
  <2> DEFINE p == Flat(e, m)  q == Flat(d, m)  y == e[m + 1]  z == d[m + 1]
  <2>3. /\ \A k \in 1 .. m + 1 : e[k] \in Seq(X)
        /\ \A k \in 1 .. m + 1 : d[k] \in Seq(X)
    BY <2>1 DEF HasMore
  <2>4. /\ p \in Seq(X) /\ Flat(e, m + 1) = p \o y
        /\ q \in Seq(X) /\ Flat(d, m + 1) = q \o z
    BY <2>3, FlatStep
  <2>5. /\ y \in Seq(X) /\ z \in Seq(X)
        /\ Occurs(x, y) = Occurs(x, z) + (IF m + 1 = j THEN c ELSE 0)
    BY <2>1 DEF HasMore
  <2> HIDE DEF p, q, y, z
  <2>6. /\ Occurs(x, p \o y) = Occurs(x, p) + Occurs(x, y)
        /\ Occurs(x, q \o z) = Occurs(x, q) + Occurs(x, z)
    BY <2>4, <2>5, OccursConcat
  <2>7. Occurs(x, q) \in Nat /\ Occurs(x, z) \in Nat
    BY <2>4, <2>5, OccursType
  <2>8. More(m + 1) = More(m) + (IF m + 1 = j THEN c ELSE 0) /\ More(m) \in Nat
    OBVIOUS
  <2>9. Occurs(x, p) = Occurs(x, q) + More(m)
    BY <2>2 DEF p, q
  <2> DEFINE h == IF m + 1 = j THEN c ELSE 0
             g == More(m)
  <2>10. h \in Nat
    OBVIOUS
  <2> HIDE DEF h, g, More
  <2>11. More(m + 1) = g + h /\ g \in Nat
    BY <2>8 DEF h, g
  <2>12. Occurs(x, Flat(e, m + 1)) = (Occurs(x, q) + g) + (Occurs(x, z) + h)
    BY <2>4, <2>5, <2>6, <2>9 DEF h, g
  <2>13. Occurs(x, Flat(d, m + 1)) = Occurs(x, q) + Occurs(x, z)
    BY <2>4, <2>6
  <2>14. (Occurs(x, q) + g) + (Occurs(x, z) + h) = (Occurs(x, q) + Occurs(x, z)) + (g + h)
    <3>1. \A a, b \in Nat : (a + g) + (b + h) = (a + b) + (g + h)
      BY <2>10, <2>11
    <3> QED  BY <2>7, <3>1
  <2>15. More(m + 1) = g + h
    BY <2>11
  <2> HIDE DEF S
  <2> QED  BY <2>12, <2>13, <2>14, <2>15
<1>3. Nat \subseteq S
  <2> HIDE DEF S
  <2> QED  BY <1>1, <1>2, SetInduction
<1>4. n \in S /\ n <= n /\ More(n) = c
  BY <1>3
<1> QED  BY <1>4

=============================================================================
