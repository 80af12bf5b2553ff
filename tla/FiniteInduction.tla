---------------------------- MODULE FiniteInduction ----------------------------
(***************************************************************************)
(* Induction over the subsets of a finite set, and what it gives: a finite *)
(* set has a last element, one of integers a greatest and a least, and a   *)
(* sum is the same whichever element comes first.  A property of           *)
(* subsets is the family of subsets that have it, so that the lemmas need  *)
(* no operator for a parameter.                                            *)
(***************************************************************************)
EXTENDS FiniteSetsExt, FiniteSetTheorems, TLAPS

\* Among the subsets of S that are in `bad` there is one that leaves `bad`
\* whichever element it loses.
LEMMA MinimalSubset ==
    ASSUME NEW S, IsFiniteSet(S), NEW bad \in SUBSET SUBSET S, bad # {}
    PROVE  \E T \in bad : \A x \in T : T \ {x} \notin bad
  <1>1. bad \subseteq FiniteSubsetsOf(S)
    BY FS_FiniteSubsetsOfFinite
  <1>2. IsWellFoundedOn(StrictSubsetOrdering(S), FiniteSubsetsOf(S))
    BY FS_StrictSubsetOrderingWellFounded
  <1>3. \E T \in bad : \A U \in bad : ~ (<<U, T>> \in StrictSubsetOrdering(S))
    BY <1>1, <1>2, WFMin
  <1>4. PICK T \in bad : \A U \in bad : ~ (<<U, T>> \in StrictSubsetOrdering(S))
    BY <1>3
  <1>5. \A x \in T : <<T \ {x}, T>> \in StrictSubsetOrdering(S)
    BY DEF StrictSubsetOrdering
  <1> QED
    BY <1>4, <1>5

\* A family of subsets of S that has {} and grows by any one element has S.
LEMMA BySubsets ==
    ASSUME NEW S, IsFiniteSet(S), NEW family \in SUBSET SUBSET S, {} \in family,
           \A T \in family : \A x \in S \ T : T \cup {x} \in family
    PROVE  family = SUBSET S
  <1> DEFINE rest == (SUBSET S) \ family
  <1>1. SUFFICES ASSUME rest # {} PROVE FALSE
    OBVIOUS
  <1>2. PICK T \in rest : \A x \in T : T \ {x} \notin rest
    BY <1>1, MinimalSubset
  <1>3. PICK x \in T : TRUE
    OBVIOUS
  <1>4. T \ {x} \in family
    BY <1>2
  <1>5. (T \ {x}) \cup {x} = T /\ x \in S \ (T \ {x})
    BY <1>3
  <1> QED
    BY <1>4, <1>5

\* Where elements are compared by a total preorder R, a finite set has a last one.
LEMMA HasLast ==
    ASSUME NEW S, IsFiniteSet(S), S # {}, NEW R,
           \A x, y \in S : <<x, y>> \in R \/ <<y, x>> \in R,
           \A x, y, z \in S : <<x, y>> \in R /\ <<y, z>> \in R => <<x, z>> \in R
    PROVE  \E x \in S : \A y \in S : <<y, x>> \in R
  <1> DEFINE family == {T \in SUBSET S : T = {} \/ \E x \in T : \A y \in T : <<y, x>> \in R}
  <1>1. {} \in family
    OBVIOUS
  <1>2. ASSUME NEW T \in family, NEW x \in S \ T PROVE T \cup {x} \in family
    <2>1. <<x, x>> \in R
      OBVIOUS
    <2>2. CASE T = {}
      BY <2>1, <2>2
    <2>3. ASSUME NEW m \in T, \A y \in T : <<y, m>> \in R PROVE T \cup {x} \in family
      <3>1. CASE <<x, m>> \in R
        BY <2>3, <3>1
      <3>2. CASE <<m, x>> \in R
        BY <2>1, <2>3, <3>2
      <3> QED
        BY <3>1, <3>2
    <2> QED
      BY <2>2, <2>3
  <1>3. family = SUBSET S
    <2> HIDE DEF family
    <2>1. family \in SUBSET SUBSET S
      BY DEF family
    <2> QED
      BY <1>1, <1>2, <2>1, BySubsets
  <1> QED
    BY <1>3

LEMMA GreatestInt ==
    ASSUME NEW S \in SUBSET Int, IsFiniteSet(S), S # {}
    PROVE  Max(S) \in S /\ \A y \in S : y <= Max(S)
  <1> DEFINE R == {p \in Int \X Int : p[1] <= p[2]}
  <1>1. \A x, y \in Int : <<x, y>> \in R <=> x <= y
    OBVIOUS
  <1> HIDE DEF R
  <1>2. \A x, y \in S : <<x, y>> \in R \/ <<y, x>> \in R
    <2>1. \A x, y \in Int : x <= y \/ y <= x
      OBVIOUS
    <2> QED
      BY <1>1, <2>1
  <1>3. \A x, y, z \in S : <<x, y>> \in R /\ <<y, z>> \in R => <<x, z>> \in R
    BY <1>1
  <1>4. PICK x \in S : \A y \in S : <<y, x>> \in R
    BY <1>2, <1>3, HasLast
  <1>5. \A y \in S : x >= y
    BY <1>1, <1>4
  <1>6. Max(S) \in S /\ \A y \in S : Max(S) >= y
    BY <1>5 DEF Max
  <1> QED
    BY <1>6

LEMMA LeastInt ==
    ASSUME NEW S \in SUBSET Int, IsFiniteSet(S), S # {}
    PROVE  \E x \in S : \A y \in S : x <= y
  <1> DEFINE R == {p \in Int \X Int : p[1] >= p[2]}
  <1>1. \A x, y \in Int : <<x, y>> \in R <=> x >= y
    OBVIOUS
  <1> HIDE DEF R
  <1>2. \A x, y \in S : <<x, y>> \in R \/ <<y, x>> \in R
    <2>1. \A x, y \in Int : x <= y \/ y <= x
      OBVIOUS
    <2> QED
      BY <1>1, <2>1
  <1>3. \A x, y, z \in S : <<x, y>> \in R /\ <<y, z>> \in R => <<x, z>> \in R
    BY <1>1
  <1>4. PICK x \in S : \A y \in S : <<y, x>> \in R
    BY <1>2, <1>3, HasLast
  <1> QED
    BY <1>1, <1>4

-----------------------------------------------------------------------------
(* Sums over finite sets *)

\* h gives every subset of S the sum of a over its elements, whichever of them
\* is taken first.
Sums(h, a, S) ==
    /\ h \in [SUBSET S -> Int] /\ h[{}] = 0
    /\ \A T \in SUBSET S : \A x \in T : h[T] = a[x] + h[T \ {x}]

LEMMA SumsExist ==
    ASSUME NEW S, IsFiniteSet(S), NEW a \in [S -> Int]
    PROVE  \E h : Sums(h, a, S)
  <1> DEFINE family == {T \in SUBSET S : \E h : Sums(h, a, T)}
  <1>1. {} \in family
    <2>1. Sums([T \in {{}} |-> 0], a, {})
      BY DEF Sums
    <2> QED
      BY <2>1
  <1>2. ASSUME NEW T \in family, NEW x \in S \ T PROVE T \cup {x} \in family
    <2>1. PICK h : Sums(h, a, T)
      OBVIOUS
    <2> DEFINE g == [U \in SUBSET (T \cup {x}) |-> IF x \in U THEN a[x] + h[U \ {x}] ELSE h[U]]
    <2>2. \A U \in SUBSET (T \cup {x}) : U \ {x} \in SUBSET T /\ (x \notin U => U \in SUBSET T)
      OBVIOUS
    <2>3. h \in [SUBSET T -> Int] /\ h[{}] = 0 /\ \A U \in SUBSET T : \A y \in U : h[U] = a[y] + h[U \ {y}]
      BY <2>1 DEF Sums
    <2>4. a[x] \in Int /\ \A y \in T : a[y] \in Int
      OBVIOUS
    <2>5. g \in [SUBSET (T \cup {x}) -> Int] /\ g[{}] = 0
      BY <2>2, <2>3, <2>4
    <2>6. ASSUME NEW U \in SUBSET (T \cup {x}), NEW y \in U PROVE g[U] = a[y] + g[U \ {y}]
      <3>1. CASE y = x
        BY <2>2, <3>1
      <3>2. CASE y # x /\ x \notin U
        BY <2>2, <2>3, <3>2
      <3>3. CASE y # x /\ x \in U
        <4>1. g[U] = a[x] + h[U \ {x}] /\ U \ {x} \in SUBSET T /\ y \in U \ {x}
          BY <2>2, <3>3
        <4>2. h[U \ {x}] = a[y] + h[(U \ {x}) \ {y}]
          BY <2>3, <4>1
        <4>3. (U \ {x}) \ {y} = (U \ {y}) \ {x} /\ (U \ {x}) \ {y} \in SUBSET T
          BY <4>1
        <4>4. g[U \ {y}] = a[x] + h[(U \ {x}) \ {y}]
          <5>1. x \in U \ {y} /\ U \ {y} \in SUBSET (T \cup {x})
            BY <3>3
          <5> QED
            BY <4>3, <5>1
        <4>5. a[y] \in Int /\ a[x] \in Int /\ h[(U \ {x}) \ {y}] \in Int
          BY <2>3, <2>4, <4>1, <4>3
        <4>6. \A i, j, k \in Int : i + (j + k) = j + (i + k)
          OBVIOUS
        <4> QED
          BY <4>1, <4>2, <4>4, <4>5, <4>6
      <3> QED
        BY <3>1, <3>2, <3>3
    <2>7. Sums(g, a, T \cup {x})
      BY <2>5, <2>6 DEF Sums
    <2> QED
      BY <2>7
  <1>3. family = SUBSET S
    <2>1. family \in SUBSET SUBSET S
      OBVIOUS
    <2> HIDE DEF family
    <2> QED
      BY <1>1, <1>2, <2>1, BySubsets
  <1> QED
    BY <1>3

\* A sum that takes the elements in the order of one choice of them: the
\* recursion of MapThenSumSet.
SumsByChoice(it, a, T) ==
    it = [U \in SUBSET T |-> IF U = {} THEN 0
                             ELSE a[CHOOSE x \in U : TRUE] + it[U \ {CHOOSE x \in U : TRUE}]]

LEMMA SumByChoiceExists ==
    ASSUME NEW S, NEW a, NEW h, Sums(h, a, S), NEW T \in SUBSET S
    PROVE  \E it : SumsByChoice(it, a, T)
  <1> DEFINE it == [U \in SUBSET T |-> h[U]]
  <1>1. ASSUME NEW U \in SUBSET T, U # {}
        PROVE  it[U] = a[CHOOSE x \in U : TRUE] + it[U \ {CHOOSE x \in U : TRUE}]
    <2>1. PICK x \in U : x = CHOOSE y \in U : TRUE
      BY <1>1
    <2>2. h[U] = a[x] + h[U \ {x}] /\ U \ {x} \in SUBSET T
      BY <2>1 DEF Sums
    <2> QED
      BY <2>1, <2>2
  <1>2. it[{}] = 0
    BY DEF Sums
  <1>3. SumsByChoice(it, a, T)
    <2>1. \A U \in SUBSET T : it[U] = IF U = {} THEN 0
                                 ELSE a[CHOOSE x \in U : TRUE] + it[U \ {CHOOSE x \in U : TRUE}]
      BY <1>1, <1>2
    <2> QED
      BY <2>1 DEF SumsByChoice
  <1> QED
    BY <1>3

LEMMA SumByChoice ==
    ASSUME NEW S, NEW a, NEW h, Sums(h, a, S), NEW T \in SUBSET S, IsFiniteSet(T),
           NEW it, SumsByChoice(it, a, T)
    PROVE  it[T] = h[T]
  <1> DEFINE bad == {U \in SUBSET T : it[U] # h[U]}
  <1>1. bad = {}
    <2> SUFFICES ASSUME bad # {} PROVE FALSE
      OBVIOUS
    <2>1. PICK U \in bad : \A x \in U : U \ {x} \notin bad
      BY MinimalSubset
    <2>2. CASE U = {}
      BY <2>2 DEF Sums, SumsByChoice
    <2>3. CASE U # {}
      <3>1. PICK x \in U : x = CHOOSE y \in U : TRUE
        BY <2>3
      <3>2. it[U] = a[x] + it[U \ {x}]
        BY <2>3, <3>1 DEF SumsByChoice
      <3>3. it[U \ {x}] = h[U \ {x}]
        BY <2>1, <3>1
      <3>4. h[U] = a[x] + h[U \ {x}]
        BY <3>1 DEF Sums
      <3> QED
        BY <3>2, <3>3, <3>4
    <2> QED
      BY <2>2, <2>3
  <1> QED
    BY <1>1
=============================================================================
