------------------------------ MODULE SumLemmas ------------------------------
(***************************************************************************)
(* Facts about SumFunctionOnSet(f, S), the sum of f[x] for x in a finite    *)
(* set S, which the invariants of the ledgers are stated with.              *)
(*                                                                         *)
(* The community module defines the sum by recursion over the subsets of S, *)
(* in the order of a CHOOSE.  The first part of this module shows that the  *)
(* recursion defines a function, the second that the order does not matter, *)
(* the rest are the laws of sums that the proofs use.  Induction over       *)
(* finite sets is by a smallest counterexample: the strict subset order is  *)
(* well-founded.                                                            *)
(***************************************************************************)
EXTENDS Functions, Integers, FiniteSets, FiniteSetTheorems,
        WellFoundedInduction, TLAPS

\* If what holds of all strict subsets of a set holds of the set, it holds of
\* every subset of a finite set.  Q collects the sets it holds of.
LEMMA SubsetInduction ==
    ASSUME NEW S, IsFiniteSet(S), NEW Q,
           \A T \in SUBSET S : (\A U \in SUBSET T : U # T => U \in Q) => T \in Q
    PROVE  \A T \in SUBSET S : T \in Q
  <1> DEFINE Bad == {T \in SUBSET S : T \notin Q}
  <1> SUFFICES ASSUME Bad # {} PROVE FALSE
    OBVIOUS
  <1>1. IsWellFoundedOn(StrictSubsetOrdering(S), SUBSET S)
    <2>1. FiniteSubsetsOf(S) = SUBSET S
      BY FS_FiniteSubsetsOfFinite
    <2>2. IsWellFoundedOn(StrictSubsetOrdering(S), FiniteSubsetsOf(S))
      BY FS_StrictSubsetOrderingWellFounded
    <2>3. QED
      BY <2>1, <2>2
  <1>2. PICK T \in Bad : \A U \in Bad : ~ (<<U, T>> \in StrictSubsetOrdering(S))
    <2>1. Bad \subseteq SUBSET S
      OBVIOUS
    <2> HIDE DEF Bad
    <2>2. QED
      BY <1>1, <2>1, WFMin
  <1>3. ASSUME NEW U \in SUBSET T, U # T PROVE U \in Q
    <2>1. <<U, T>> \in StrictSubsetOrdering(S)
      BY <1>3 DEF StrictSubsetOrdering
    <2>2. QED
      BY <1>2, <2>1
  <1>4. QED
    BY <1>3
------------------------------------------------------------------------------
(* The recursion.                                                          *)
Pick(s) == CHOOSE x \in s : TRUE
Body(f, S, iter) ==
    [s \in SUBSET S |-> IF s = {} THEN 0 ELSE f[Pick(s)] + iter[s \ {Pick(s)}]]
Rec(f, S) == CHOOSE iter : iter = Body(f, S, iter)

LEMMA SumIsRec == \A f, S : SumFunctionOnSet(f, S) = Rec(f, S)[S]
  BY DEF SumFunctionOnSet, FoldFunctionOnSet, MapThenFoldSet, Rec, Body, Pick

LEMMA PickIn ==
    ASSUME NEW s, s # {}
    PROVE  /\ Pick(s) \in s
           /\ s \ {Pick(s)} \in SUBSET s /\ s \ {Pick(s)} # s
  BY DEF Pick

\* Two functions that satisfy the recursion agree where both are defined.
LEMMA RecAgrees ==
    ASSUME NEW f, NEW A, NEW B, NEW g, NEW h, IsFiniteSet(A),
           g = Body(f, A, g), h = Body(f, B, h)
    PROVE  \A s \in SUBSET (A \cap B) : g[s] = h[s]
  <1> DEFINE Q == {s \in SUBSET (A \cap B) : g[s] = h[s]}
  <1>1. IsFiniteSet(A \cap B)
    BY FS_Subset
  <1>2. ASSUME NEW T \in SUBSET (A \cap B), \A U \in SUBSET T : U # T => U \in Q
        PROVE  T \in Q
    <2>1. CASE T = {}
      <3>1. g[T] = 0 /\ h[T] = 0
        BY <2>1 DEF Body
      <3>2. QED
        BY <3>1
    <2>2. CASE T # {}
      <3>1. T \ {Pick(T)} \in Q
        BY <1>2, <2>2, PickIn
      <3>2. /\ g[T] = f[Pick(T)] + g[T \ {Pick(T)}]
            /\ h[T] = f[Pick(T)] + h[T \ {Pick(T)}]
        BY <2>2 DEF Body
      <3>3. QED
        BY <3>1, <3>2
    <2>3. QED
      BY <2>1, <2>2
  <1> HIDE DEF Q
  <1>3. \A T \in SUBSET (A \cap B) : T \in Q
    BY <1>1, <1>2, SubsetInduction
  <1>4. QED
    BY <1>3 DEF Q

LEMMA RecsAgree ==
    ASSUME NEW f, NEW A, NEW B, IsFiniteSet(A),
           Rec(f, A) = Body(f, A, Rec(f, A)), Rec(f, B) = Body(f, B, Rec(f, B)),
           NEW s, s \subseteq A, s \subseteq B
    PROVE  Rec(f, A)[s] = Rec(f, B)[s]
  <1>1. \A x \in SUBSET (A \cap B) : Rec(f, A)[x] = Rec(f, B)[x]
    BY RecAgrees
  <1>2. QED
    BY <1>1

\* A function that satisfies the recursion exists for every finite set.
LEMMA RecExists ==
    ASSUME NEW f, NEW S, IsFiniteSet(S)
    PROVE  Rec(f, S) = Body(f, S, Rec(f, S))
  <1> DEFINE Q == {T \in SUBSET S : Rec(f, T) = Body(f, T, Rec(f, T))}
  <1>1. ASSUME NEW T \in SUBSET S, \A U \in SUBSET T : U # T => U \in Q
        PROVE  T \in Q
    <2> DEFINE g == [s \in SUBSET T |-> IF s = {} THEN 0
                       ELSE f[Pick(s)] + Rec(f, s \ {Pick(s)})[s \ {Pick(s)}]]
    <2>1. ASSUME NEW s \in SUBSET T, s # {}
          PROVE  g[s \ {Pick(s)}] = Rec(f, s \ {Pick(s)})[s \ {Pick(s)}]
      <3> DEFINE r == s \ {Pick(s)}
      <3>1. r \in SUBSET T /\ r # T /\ r \in SUBSET r
        BY <2>1, PickIn
      <3>2. Rec(f, r) = Body(f, r, Rec(f, r))
        BY <1>1, <3>1
      <3>3. CASE r = {}
        <4>1. Rec(f, r)[r] = 0
          BY <3>1, <3>2, <3>3 DEF Body
        <4>2. g[r] = 0
          BY <3>1, <3>3
        <4>3. QED
          BY <4>1, <4>2
      <3>4. CASE r # {}
        <4> DEFINE q == r \ {Pick(r)}
        <4>1. q \in SUBSET r /\ q \in SUBSET T /\ q # T
          BY <3>1, <3>4, PickIn
        <4>2. Rec(f, q) = Body(f, q, Rec(f, q)) /\ IsFiniteSet(q)
          BY <1>1, <4>1, FS_Subset
        <4>3. Rec(f, q)[q] = Rec(f, r)[q]
          <5>1. q \subseteq q /\ q \subseteq r
            BY <4>1
          <5> HIDE DEF q, r, g
          <5>2. QED
            BY <3>2, <4>2, <5>1, RecsAgree
        <4>4. g[r] = f[Pick(r)] + Rec(f, q)[q]
          BY <3>1, <3>4
        <4>5. Rec(f, r)[r] = f[Pick(r)] + Rec(f, r)[q]
          BY <3>1, <3>2, <3>4 DEF Body
        <4>6. QED
          BY <4>3, <4>4, <4>5
      <3>5. QED
        BY <3>3, <3>4
    <2>2. g = Body(f, T, g)
      <3>1. Body(f, T, g) = [s \in SUBSET T |-> IF s = {} THEN 0
                               ELSE f[Pick(s)] + g[s \ {Pick(s)}]]
        BY DEF Body
      <3>2. ASSUME NEW s \in SUBSET T
            PROVE  g[s] = Body(f, T, g)[s]
        <4>1. CASE s = {}
          BY <3>1, <4>1
        <4>2. CASE s # {}
          <5>1. g[s] = f[Pick(s)] + Rec(f, s \ {Pick(s)})[s \ {Pick(s)}]
            BY <4>2
          <5>2. Body(f, T, g)[s] = f[Pick(s)] + g[s \ {Pick(s)}]
            BY <3>1, <4>2
          <5>3. QED
            BY <2>1, <4>2, <5>1, <5>2
        <4>3. QED
          BY <4>1, <4>2
      <3>3. QED
        BY <3>1, <3>2
    <2> HIDE DEF g
    <2>3. Rec(f, T) = Body(f, T, Rec(f, T))
      BY <2>2 DEF Rec
    <2>4. QED
      BY <2>3
  <1> HIDE DEF Q
  <1>2. S \in Q
    BY <1>1, SubsetInduction
  <1>3. QED
    BY <1>2 DEF Q

\* The recursion of the sum itself.
LEMMA SumUnfolds ==
    ASSUME NEW f, NEW S, IsFiniteSet(S)
    PROVE  SumFunctionOnSet(f, S) =
             IF S = {} THEN 0
             ELSE f[Pick(S)] + SumFunctionOnSet(f, S \ {Pick(S)})
  <1>1. Rec(f, S) = Body(f, S, Rec(f, S)) /\ S \in SUBSET S
    BY RecExists
  <1>2. SumFunctionOnSet(f, S) = Rec(f, S)[S]
    BY SumIsRec
  <1>3. CASE S = {}
    BY <1>1, <1>2, <1>3 DEF Body
  <1>4. CASE S # {}
    <2> DEFINE r == S \ {Pick(S)}
    <2>1. r \in SUBSET S /\ IsFiniteSet(r)
      BY FS_Subset
    <2>2. Rec(f, r) = Body(f, r, Rec(f, r))
      BY <2>1, RecExists
    <2>3. Rec(f, r)[r] = Rec(f, S)[r]
      BY <1>1, <2>1, <2>2, RecsAgree
    <2>4. Rec(f, S)[r] = SumFunctionOnSet(f, r)
      BY <2>3, SumIsRec
    <2>5. Rec(f, S)[S] = f[Pick(S)] + Rec(f, S)[r]
      BY <1>1, <1>4 DEF Body
    <2>6. QED
      BY <1>2, <1>4, <2>4, <2>5
  <1>5. QED
    BY <1>3, <1>4
------------------------------------------------------------------------------
(* The laws.                                                               *)

LEMMA SumEmpty == \A f : SumFunctionOnSet(f, {}) = 0
  BY SumUnfolds, FS_EmptySet

\* A sum depends on the terms only.
LEMMA SumAgrees ==
    ASSUME NEW S, IsFiniteSet(S), NEW f, NEW g, \A x \in S : f[x] = g[x]
    PROVE  SumFunctionOnSet(f, S) = SumFunctionOnSet(g, S)
  <1> DEFINE Q == {T \in SUBSET S : SumFunctionOnSet(f, T) = SumFunctionOnSet(g, T)}
  <1>1. ASSUME NEW T \in SUBSET S, \A U \in SUBSET T : U # T => U \in Q
        PROVE  T \in Q
    <2>1. IsFiniteSet(T)
      BY FS_Subset
    <2>2. CASE T = {}
      BY <2>2, SumEmpty
    <2>3. CASE T # {}
      <3>1. Pick(T) \in T /\ T \ {Pick(T)} \in Q
        BY <1>1, <2>3, PickIn
      <3>2. f[Pick(T)] = g[Pick(T)]
        BY <3>1
      <3>3. QED
        BY <2>1, <2>3, <3>1, <3>2, SumUnfolds
    <2>4. QED
      BY <2>2, <2>3
  <1> HIDE DEF Q
  <1>2. S \in Q
    BY <1>1, SubsetInduction
  <1>3. QED
    BY <1>2 DEF Q

\* A sum stays in every set that has 0 and the terms and is closed under +.
LEMMA SumIsClosed ==
    ASSUME NEW N, 0 \in N, \A a, b \in N : a + b \in N,
           NEW S, IsFiniteSet(S), NEW f, \A x \in S : f[x] \in N
    PROVE  SumFunctionOnSet(f, S) \in N
  <1> DEFINE Q == {T \in SUBSET S : SumFunctionOnSet(f, T) \in N}
  <1>1. ASSUME NEW T \in SUBSET S, \A U \in SUBSET T : U # T => U \in Q
        PROVE  T \in Q
    <2>1. IsFiniteSet(T)
      BY FS_Subset
    <2>2. CASE T = {}
      BY <2>2, SumEmpty
    <2>3. CASE T # {}
      <3>1. Pick(T) \in T /\ T \ {Pick(T)} \in Q
        BY <1>1, <2>3, PickIn
      <3>2. f[Pick(T)] \in N /\ SumFunctionOnSet(f, T \ {Pick(T)}) \in N
        BY <3>1
      <3>3. SumFunctionOnSet(f, T) = f[Pick(T)] + SumFunctionOnSet(f, T \ {Pick(T)})
        BY <2>1, <2>3, SumUnfolds
      <3>4. QED
        BY <3>2, <3>3
    <2>4. QED
      BY <2>2, <2>3
  <1> HIDE DEF Q
  <1>2. S \in Q
    BY <1>1, SubsetInduction
  <1>3. QED
    BY <1>2 DEF Q

LEMMA SumType ==
    ASSUME NEW S, IsFiniteSet(S), NEW f, \A x \in S : f[x] \in Nat
    PROVE  SumFunctionOnSet(f, S) \in Nat
  <1>1. 0 \in Nat /\ \A a, b \in Nat : a + b \in Nat
    OBVIOUS
  <1>2. QED
    BY <1>1, SumIsClosed

LEMMA SumIsInteger ==
    ASSUME NEW S, IsFiniteSet(S), NEW f, \A x \in S : f[x] \in Int
    PROVE  SumFunctionOnSet(f, S) \in Int
  <1>1. 0 \in Int /\ \A a, b \in Int : a + b \in Int
    OBVIOUS
  <1>2. QED
    BY <1>1, SumIsClosed

\* Any term can be taken out first.
LEMMA SumRemove ==
    ASSUME NEW S, IsFiniteSet(S), NEW f, \A x \in S : f[x] \in Int, NEW a \in S
    PROVE  SumFunctionOnSet(f, S) = f[a] + SumFunctionOnSet(f, S \ {a})
  <1> DEFINE Sum(T) == SumFunctionOnSet(f, T)
             Q == {T \in SUBSET S : \A x \in T : Sum(T) = f[x] + Sum(T \ {x})}
  <1>1. ASSUME NEW T \in SUBSET S, \A U \in SUBSET T : U # T => U \in Q
        PROVE  T \in Q
    <2> SUFFICES ASSUME NEW x \in T PROVE Sum(T) = f[x] + Sum(T \ {x})
      OBVIOUS
    <2> DEFINE p == Pick(T)
    <2>1. IsFiniteSet(T) /\ p \in T /\ T # {}
      BY FS_Subset, PickIn
    <2>2. Sum(T) = f[p] + Sum(T \ {p})
      BY <2>1, SumUnfolds
    <2>3. CASE x = p
      BY <2>2, <2>3
    <2>4. CASE x # p
      <3> DEFINE r == T \ {x, p}
      <3>1. /\ T \ {p} \in Q /\ x \in T \ {p} /\ (T \ {p}) \ {x} = r
            /\ T \ {x} \in Q /\ p \in T \ {x} /\ (T \ {x}) \ {p} = r
        BY <1>1, <2>1, <2>4
      <3>2. Sum(T \ {p}) = f[x] + Sum(r) /\ Sum(T \ {x}) = f[p] + Sum(r)
        BY <3>1
      <3>3. Sum(r) \in Int
        <4>1. IsFiniteSet(r) /\ \A y \in r : f[y] \in Int
          BY <2>1, FS_Subset
        <4>2. QED
          BY <4>1, SumIsInteger
      <3>4. f[x] \in Int /\ f[p] \in Int
        BY <2>1
      <3> HIDE DEF Sum, p, r
      <3>5. \A c, d, e \in Int : c + (d + e) = d + (c + e)
        OBVIOUS
      <3>6. QED
        BY <2>2, <3>2, <3>3, <3>4, <3>5
    <2>5. QED
      BY <2>3, <2>4
  <1> HIDE DEF Q, Sum
  <1>2. S \in Q
    BY <1>1, SubsetInduction
  <1>3. QED
    BY <1>2 DEF Q, Sum

\* Two sums whose terms differ at one place only.
LEMMA SumUpdate ==
    ASSUME NEW S, IsFiniteSet(S), NEW f, NEW g, NEW a \in S,
           \A x \in S : f[x] \in Int /\ g[x] \in Int,
           \A x \in S \ {a} : f[x] = g[x]
    PROVE  SumFunctionOnSet(g, S) + f[a] = SumFunctionOnSet(f, S) + g[a]
  <1> DEFINE r == S \ {a}
  <1>1. IsFiniteSet(r) /\ \A x \in r : f[x] \in Int
    BY FS_Subset
  <1>2. /\ SumFunctionOnSet(f, S) = f[a] + SumFunctionOnSet(f, r)
        /\ SumFunctionOnSet(g, S) = g[a] + SumFunctionOnSet(g, r)
    BY SumRemove
  <1>3. SumFunctionOnSet(f, r) = SumFunctionOnSet(g, r)
    BY <1>1, SumAgrees
  <1>4. SumFunctionOnSet(f, r) \in Int
    BY <1>1, SumIsInteger
  <1>5. f[a] \in Int /\ g[a] \in Int
    OBVIOUS
  <1>6. \A c, d, e \in Int : (d + e) + c = (c + e) + d
    OBVIOUS
  <1> HIDE DEF r
  <1>7. QED
    BY <1>2, <1>3, <1>4, <1>5, <1>6

\* The sum of the sums is the sum of what is added term by term.
LEMMA SumAdds ==
    ASSUME NEW S, IsFiniteSet(S), NEW f, NEW g, NEW h,
           \A x \in S : f[x] \in Nat /\ g[x] \in Nat /\ h[x] = f[x] + g[x]
    PROVE  SumFunctionOnSet(h, S) = SumFunctionOnSet(f, S) + SumFunctionOnSet(g, S)
  <1> DEFINE Sum(k, T) == SumFunctionOnSet(k, T)
             Q == {T \in SUBSET S : Sum(h, T) = Sum(f, T) + Sum(g, T)}
  <1>1. ASSUME NEW T \in SUBSET S, \A U \in SUBSET T : U # T => U \in Q
        PROVE  T \in Q
    <2>1. IsFiniteSet(T)
      BY FS_Subset
    <2>2. CASE T = {}
      BY <2>2, SumEmpty
    <2>3. CASE T # {}
      <3> DEFINE p == Pick(T)
                 r == T \ {p}
      <3>1. p \in S /\ r \in Q
        BY <1>1, <2>3, PickIn
      <3>2. Sum(h, r) = Sum(f, r) + Sum(g, r)
        BY <3>1
      <3>3. /\ Sum(f, T) = f[p] + Sum(f, r) /\ Sum(g, T) = g[p] + Sum(g, r)
            /\ Sum(h, T) = h[p] + Sum(h, r)
        BY <2>1, <2>3, SumUnfolds
      <3>4. Sum(f, r) \in Nat /\ Sum(g, r) \in Nat
        <4>1. IsFiniteSet(r) /\ r \subseteq S
          BY <2>1, FS_Subset
        <4>2. \A x \in r : f[x] \in Nat /\ g[x] \in Nat
          BY <4>1
        <4> HIDE DEF r
        <4>3. QED
          BY <4>1, <4>2, SumType
      <3>5. f[p] \in Nat /\ g[p] \in Nat /\ h[p] = f[p] + g[p]
        BY <3>1
      <3> HIDE DEF Sum, p, r
      <3>6. \A c, d, e, k \in Nat : (c + d) + (e + k) = (c + e) + (d + k)
        OBVIOUS
      <3>7. Sum(h, T) = Sum(f, T) + Sum(g, T)
        BY <3>2, <3>3, <3>4, <3>5, <3>6
      <3>8. QED
        BY <3>7
    <2>4. QED
      BY <2>2, <2>3
  <1> HIDE DEF Q, Sum
  <1>2. S \in Q
    BY <1>1, SubsetInduction
  <1>3. QED
    BY <1>2 DEF Q, Sum

LEMMA SumScales ==
    ASSUME NEW S, IsFiniteSet(S), NEW f, NEW g, NEW c \in Nat,
           \A x \in S : f[x] \in Nat /\ g[x] = c * f[x]
    PROVE  SumFunctionOnSet(g, S) = c * SumFunctionOnSet(f, S)
  <1> DEFINE Sum(k, T) == SumFunctionOnSet(k, T)
             Q == {T \in SUBSET S : Sum(g, T) = c * Sum(f, T)}
  <1>1. ASSUME NEW T \in SUBSET S, \A U \in SUBSET T : U # T => U \in Q
        PROVE  T \in Q
    <2>1. IsFiniteSet(T)
      BY FS_Subset
    <2>2. CASE T = {}
      BY <2>2, SumEmpty
    <2>3. CASE T # {}
      <3> DEFINE p == Pick(T)
                 r == T \ {p}
      <3>1. p \in S /\ r \in Q
        BY <1>1, <2>3, PickIn
      <3>2. Sum(g, r) = c * Sum(f, r)
        BY <3>1
      <3>3. Sum(f, T) = f[p] + Sum(f, r) /\ Sum(g, T) = g[p] + Sum(g, r)
        BY <2>1, <2>3, SumUnfolds
      <3>4. Sum(f, r) \in Nat
        <4>1. IsFiniteSet(r) /\ r \subseteq S
          BY <2>1, FS_Subset
        <4>2. \A x \in r : f[x] \in Nat
          BY <4>1
        <4> HIDE DEF r
        <4>3. QED
          BY <4>1, <4>2, SumType
      <3>5. f[p] \in Nat /\ g[p] = c * f[p]
        BY <3>1
      <3> HIDE DEF Sum, p, r
      <3>6. \A d, e \in Nat : c * d + c * e = c * (d + e)
        OBVIOUS
      <3>7. Sum(g, T) = c * Sum(f, T)
        BY <3>2, <3>3, <3>4, <3>5, <3>6
      <3>8. QED
        BY <3>7
    <2>4. QED
      BY <2>2, <2>3
  <1> HIDE DEF Q, Sum
  <1>2. S \in Q
    BY <1>1, SubsetInduction
  <1>3. QED
    BY <1>2 DEF Q, Sum

\* A term is at most the sum, so that a sum is 0 only of zeros.
LEMMA TermAtMostSum ==
    ASSUME NEW S, IsFiniteSet(S), NEW f, \A x \in S : f[x] \in Nat, NEW a \in S
    PROVE  f[a] <= SumFunctionOnSet(f, S)
  <1>1. SumFunctionOnSet(f, S) = f[a] + SumFunctionOnSet(f, S \ {a})
    BY SumRemove
  <1>2. SumFunctionOnSet(f, S \ {a}) \in Nat
    <2> DEFINE r == S \ {a}
    <2>1. IsFiniteSet(r) /\ \A x \in r : f[x] \in Nat
      BY FS_Subset
    <2> HIDE DEF r
    <2>2. SumFunctionOnSet(f, r) \in Nat
      BY <2>1, SumType
    <2>3. QED
      BY <2>2 DEF r
  <1>3. QED
    BY <1>1, <1>2

LEMMA SumOfZeros ==
    ASSUME NEW S, IsFiniteSet(S), NEW f, \A x \in S : f[x] = 0
    PROVE  SumFunctionOnSet(f, S) = 0
  <1>1. SumFunctionOnSet(f, S) = SumFunctionOnSet(f, S) + SumFunctionOnSet(f, S)
    BY SumAdds
  <1>2. SumFunctionOnSet(f, S) \in Nat
    BY SumType
  <1>3. \A n \in Nat : n = n + n => n = 0
    OBVIOUS
  <1>4. QED
    BY <1>1, <1>2, <1>3

LEMMA SumAtMost ==
    ASSUME NEW S, IsFiniteSet(S), NEW f, NEW g,
           \A x \in S : f[x] \in Nat /\ g[x] \in Nat /\ f[x] <= g[x]
    PROVE  SumFunctionOnSet(f, S) <= SumFunctionOnSet(g, S)
  <1> DEFINE d == [x \in S |-> g[x] - f[x]]
  <1>1. \A x \in S : d[x] \in Nat /\ f[x] \in Nat /\ g[x] = f[x] + d[x]
    OBVIOUS
  <1> HIDE DEF d
  <1>2. SumFunctionOnSet(g, S) = SumFunctionOnSet(f, S) + SumFunctionOnSet(d, S)
    BY <1>1, SumAdds
  <1>3. SumFunctionOnSet(f, S) \in Nat /\ SumFunctionOnSet(d, S) \in Nat
    BY <1>1, SumType
  <1>4. QED
    BY <1>2, <1>3

\* Rounding down the parts of A in proportion to p never gives out more than A.
LEMMA SumProRata ==
    ASSUME NEW S, IsFiniteSet(S), NEW p, NEW q, NEW A \in Nat, NEW D \in Nat \ {0},
           \A x \in S : p[x] \in Nat /\ q[x] \in Nat /\ q[x] * D <= A * p[x],
           SumFunctionOnSet(p, S) <= D
    PROVE  SumFunctionOnSet(q, S) <= A
  <1> DEFINE l == [x \in S |-> D * q[x]]
             m == [x \in S |-> A * p[x]]
  <1>1. \A c, e \in Nat : c * e \in Nat /\ c * e = e * c
    OBVIOUS
  <1>2. \A x \in S : l[x] \in Nat /\ m[x] \in Nat /\ l[x] <= m[x]
    BY <1>1
  <1>3. \A x \in S : /\ q[x] \in Nat /\ l[x] = D * q[x]
                     /\ p[x] \in Nat /\ m[x] = A * p[x]
    OBVIOUS
  <1> HIDE DEF l, m
  <1>4. SumFunctionOnSet(l, S) <= SumFunctionOnSet(m, S)
    BY <1>2, SumAtMost
  <1>5. /\ SumFunctionOnSet(l, S) = D * SumFunctionOnSet(q, S)
        /\ SumFunctionOnSet(m, S) = A * SumFunctionOnSet(p, S)
    BY <1>3, SumScales
  <1>6. SumFunctionOnSet(p, S) \in Nat /\ SumFunctionOnSet(q, S) \in Nat
    BY <1>3, SumType
  <1>7. \A c, e \in Nat : e <= D /\ D * c <= A * e => c <= A
    <2> SUFFICES ASSUME NEW c \in Nat, NEW e \in Nat, e <= D, D * c <= A * e, c > A
                 PROVE  FALSE
      OBVIOUS
    <2>1. A * e <= A * D
      BY <1>1
    <2>2. D * c >= D * (A + 1)
      OBVIOUS
    <2>3. D * (A + 1) = A * D + D
      OBVIOUS
    <2>4. A * e \in Nat /\ A * D \in Nat /\ D * c \in Nat
      BY <1>1
    <2>5. QED
      BY <2>1, <2>2, <2>3, <2>4
  <1>8. QED
    BY <1>4, <1>5, <1>6, <1>7

\* A sum over a part is the sum over the whole of what is 0 outside the part.
LEMMA SumOfPart ==
    ASSUME NEW S, IsFiniteSet(S), NEW R \in SUBSET S, NEW f, NEW g,
           \A x \in S : f[x] \in Nat /\ g[x] = IF x \in R THEN f[x] ELSE 0
    PROVE  SumFunctionOnSet(g, S) = SumFunctionOnSet(f, R)
  <1> DEFINE Sum(k, T) == SumFunctionOnSet(k, T)
             Q == {T \in SUBSET S : Sum(g, T) = Sum(f, R \cap T)}
  <1>1. ASSUME NEW T \in SUBSET S, \A U \in SUBSET T : U # T => U \in Q
        PROVE  T \in Q
    <2>1. IsFiniteSet(T)
      BY FS_Subset
    <2>2. CASE T = {}
      <3>1. R \cap T = {}
        BY <2>2
      <3>2. QED
        BY <2>2, <3>1, SumEmpty
    <2>3. CASE T # {}
      <3> DEFINE p == Pick(T)
                 r == T \ {p}
      <3>1. p \in T /\ r \in Q
        BY <1>1, <2>3, PickIn
      <3>2. Sum(g, T) = g[p] + Sum(g, r) /\ Sum(g, r) = Sum(f, R \cap r)
        BY <2>1, <2>3, <3>1, SumUnfolds
      <3>3. Sum(f, R \cap r) \in Nat
        <4>1. IsFiniteSet(R \cap r) /\ \A x \in R \cap r : f[x] \in Nat
          BY <2>1, FS_Subset
        <4> HIDE DEF r
        <4>2. QED
          BY <4>1, SumType
      <3>4. CASE p \in R
        <4>1. IsFiniteSet(R \cap T) /\ p \in R \cap T /\ \A x \in R \cap T : f[x] \in Int
          BY <2>1, <3>1, <3>4, FS_Subset
        <4>2. (R \cap T) \ {p} = R \cap r
          OBVIOUS
        <4>3. Sum(f, R \cap T) = f[p] + Sum(f, (R \cap T) \ {p})
          BY <4>1, SumRemove
        <4>4. g[p] = f[p]
          BY <3>1, <3>4
        <4> HIDE DEF Sum, p, r
        <4>5. QED
          BY <3>2, <4>2, <4>3, <4>4
      <3>5. CASE p \notin R
        <4>1. R \cap T = R \cap r /\ g[p] = 0
          BY <3>1, <3>5
        <4> HIDE DEF Sum, p, r
        <4>2. QED
          BY <3>2, <3>3, <4>1
      <3>6. QED
        BY <3>4, <3>5
    <2>4. QED
      BY <2>2, <2>3
  <1> HIDE DEF Q, Sum
  <1>2. S \in Q
    BY <1>1, SubsetInduction
  <1>3. R \cap S = R
    OBVIOUS
  <1>4. QED
    BY <1>2, <1>3 DEF Q, Sum

\* The sum over a part is at most the sum over the whole.
LEMMA PartAtMostSum ==
    ASSUME NEW S, IsFiniteSet(S), NEW R \in SUBSET S, NEW f, \A x \in S : f[x] \in Nat
    PROVE  SumFunctionOnSet(f, R) <= SumFunctionOnSet(f, S)
  <1>1. PICK g : g = [x \in S |-> IF x \in R THEN f[x] ELSE 0]
    OBVIOUS
  <1>2. \A x \in S : g[x] = IF x \in R THEN f[x] ELSE 0
    BY <1>1
  <1>3. SumFunctionOnSet(g, S) = SumFunctionOnSet(f, R)
    BY <1>2, SumOfPart
  <1>4. SumFunctionOnSet(g, S) <= SumFunctionOnSet(f, S)
    BY <1>2, SumAtMost
  <1>5. QED
    BY <1>3, <1>4
==============================================================================
