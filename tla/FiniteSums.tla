----------------------------- MODULE FiniteSums -----------------------------
(***************************************************************************)
(* Lemmas about sums of a function over a finite set, the operator         *)
(* SumFunctionOnSet that the models write every total with.  The library   *)
(* defines it by recursion over the set; the lemmas are proved by          *)
(* induction over the finite sets, in the form of SubsetInduction.         *)
(***************************************************************************)
EXTENDS Integers, FiniteSets, Functions, FiniteSetTheorems, WellFoundedInduction, TLAPS

\* The recursion of the library, as a property of the function g that it defines.
Unfold(fun, g, s) ==
    IF s = {} THEN 0 ELSE fun[CHOOSE x \in s : TRUE] + g[s \ {CHOOSE x \in s : TRUE}]
Iterates(fun, S, g) == g = [s \in SUBSET S |-> Unfold(fun, g, s)]

-----------------------------------------------------------------------------
(* Induction                                                               *)

\* What holds of a set as soon as it holds of the set less any element holds of
\* every subset of a finite set.
LEMMA SubsetInduction ==
    ASSUME NEW S, IsFiniteSet(S), NEW Good,
           \A T \in SUBSET S : (\A x \in T : T \ {x} \in Good) => T \in Good
    PROVE  SUBSET S \subseteq Good
<1>. DEFINE Bad == (SUBSET S) \ Good
<1>1. SUFFICES ASSUME Bad # {} PROVE FALSE
  OBVIOUS
<1>2. IsWellFoundedOn(StrictSubsetOrdering(S), SUBSET S)
  BY FS_StrictSubsetOrderingWellFounded, FS_FiniteSubsetsOfFinite
<1>3. PICK T \in Bad : \A U \in Bad : <<U, T>> \notin StrictSubsetOrdering(S)
  <2>1. Bad \subseteq SUBSET S
    OBVIOUS
  <2>. HIDE DEF Bad
  <2>. QED BY <1>1, <1>2, <2>1, WFMin
<1>4. ASSUME NEW x \in T PROVE T \ {x} \in Good
  <2>1. <<T \ {x}, T>> \in StrictSubsetOrdering(S)
    BY DEF StrictSubsetOrdering
  <2>. QED BY <1>3, <2>1
<1>. QED BY <1>3, <1>4

\* Two iterations of the same function agree wherever both are defined.
LEMMA IterationsAgree ==
    ASSUME NEW fun, NEW S, NEW T, NEW g, NEW h,
           Iterates(fun, S, g), Iterates(fun, T, h),
           NEW U, U \subseteq S, U \subseteq T, IsFiniteSet(U)
    PROVE  g[U] = h[U]
<1>. DEFINE Good == {V \in SUBSET U : g[V] = h[V]}
<1>1. ASSUME NEW V \in SUBSET U, \A x \in V : V \ {x} \in Good
      PROVE  V \in Good
  <2>1. g[V] = Unfold(fun, g, V) /\ h[V] = Unfold(fun, h, V)
    <3>1. V \in SUBSET S /\ V \in SUBSET T
      OBVIOUS
    <3>. QED BY <3>1 DEF Iterates
  <2>2. CASE V = {}
    BY <2>1, <2>2 DEF Unfold
  <2>3. CASE V # {}
    <3>. DEFINE c == CHOOSE x \in V : TRUE
    <3>1. c \in V
      BY <2>3
    <3>2. g[V \ {c}] = h[V \ {c}]
      BY <1>1, <3>1
    <3>. QED BY <2>1, <2>3, <3>2 DEF Unfold
  <2>. QED BY <2>2, <2>3
<1>2. SUBSET U \subseteq Good
  <2>. HIDE DEF Good
  <2>. QED BY <1>1, SubsetInduction
<1>. QED BY <1>2

\* Every finite set has an iteration.
LEMMA IterationExists ==
    ASSUME NEW fun, NEW S, IsFiniteSet(S)
    PROVE  \E g : Iterates(fun, S, g)
<1>. DEFINE Good == {T \in SUBSET S : \E g : Iterates(fun, T, g)}
            Of(T) == CHOOSE g : Iterates(fun, T, g)
<1>1. ASSUME NEW T \in SUBSET S, \A x \in T : T \ {x} \in Good
      PROVE  T \in Good
  <2>. DEFINE Sound == {U \in SUBSET T : U = T \/ \E g : Iterates(fun, U, g)}
              value(U) == Of(U)[U]
              h == [U \in SUBSET T |->
                      IF U = {} THEN 0
                      ELSE fun[CHOOSE x \in U : TRUE] + value(U \ {CHOOSE x \in U : TRUE})]
  <2>1. \A U \in SUBSET T : U # T => Iterates(fun, U, Of(U))
    <3>1. SUFFICES ASSUME NEW U \in SUBSET T, U # T PROVE \E g : Iterates(fun, U, g)
      OBVIOUS
    <3>2. PICK x \in T : x \notin U
      BY <3>1
    <3>3. PICK g : Iterates(fun, T \ {x}, g)
      BY <1>1
    <3>. DEFINE k == [V \in SUBSET U |-> g[V]]
    <3>4. ASSUME NEW V \in SUBSET U PROVE k[V] = Unfold(fun, k, V)
      <4>1. V \in SUBSET (T \ {x})
        BY <3>2
      <4>2. g[V] = Unfold(fun, g, V)
        BY <3>3, <4>1 DEF Iterates
      <4>3. V # {} => k[V \ {CHOOSE y \in V : TRUE}] = g[V \ {CHOOSE y \in V : TRUE}]
        OBVIOUS
      <4>. QED BY <4>2, <4>3 DEF Unfold
    <3>5. Iterates(fun, U, k)
      BY <3>4 DEF Iterates
    <3>. QED BY <3>5
  <2>2. ASSUME NEW U \in SUBSET T, U # T PROVE value(U) = h[U]
    <3>1. Iterates(fun, U, Of(U))
      BY <2>1, <2>2
    <3>2. value(U) = Unfold(fun, Of(U), U)
      <4>. HIDE DEF Of
      <4>. QED BY <3>1 DEF Iterates
    <3>3. CASE U = {}
      BY <3>2, <3>3 DEF Unfold
    <3>4. CASE U # {}
      <4>. DEFINE c == CHOOSE x \in U : TRUE
      <4>1. c \in U
        BY <3>4
      <4>2. Iterates(fun, U \ {c}, Of(U \ {c}))
        BY <2>1, <2>2, <4>1
      <4>3. IsFiniteSet(U \ {c})
        BY FS_Subset
      <4>4. Of(U)[U \ {c}] = Of(U \ {c})[U \ {c}]
        <5>. HIDE DEF Of, c
        <5>. QED BY <3>1, <4>2, <4>3, IterationsAgree
      <4>. HIDE DEF Of
      <4>. QED BY <3>2, <3>4, <4>4 DEF Unfold
    <3>. QED BY <3>3, <3>4
  <2>3. ASSUME NEW U \in SUBSET T PROVE h[U] = Unfold(fun, h, U)
    <3>1. CASE U = {}
      BY <3>1 DEF Unfold
    <3>2. CASE U # {}
      <4>. DEFINE c == CHOOSE x \in U : TRUE
      <4>1. c \in U
        BY <3>2
      <4>2. value(U \ {c}) = h[U \ {c}]
        <5>1. U \ {c} \in SUBSET T /\ U \ {c} # T
          BY <4>1
        <5>. HIDE DEF value, h, c
        <5>. QED BY <5>1, <2>2
      <4>3. h[U] = fun[c] + value(U \ {c})
        <5>. HIDE DEF value
        <5>. QED BY <3>2
      <4>. HIDE DEF value, h
      <4>. QED BY <3>2, <4>2, <4>3 DEF Unfold
    <3>. QED BY <3>1, <3>2
  <2>4. Iterates(fun, T, h)
    BY <2>3 DEF Iterates
  <2>. QED BY <2>4
<1>2. SUBSET S \subseteq Good
  <2>. HIDE DEF Good
  <2>. QED BY <1>1, SubsetInduction
<1>. QED BY <1>2

-----------------------------------------------------------------------------
(* The recursion, one element at a time                                    *)

\* The library's sum is the value at S of an iteration over S.
LEMMA SumUnfolds ==
    ASSUME NEW fun, NEW S
    PROVE  SumFunctionOnSet(fun, S) = (CHOOSE g : Iterates(fun, S, g))[S]
BY DEF SumFunctionOnSet, FoldFunctionOnSet, MapThenFoldSet, Iterates, Unfold

\* A sum over a finite set by any iteration that is defined on it.
LEMMA SumIterates ==
    ASSUME NEW fun, NEW S, NEW T, IsFiniteSet(S), T \subseteq S, NEW g, Iterates(fun, S, g)
    PROVE  SumFunctionOnSet(fun, T) = g[T]
<1>. DEFINE h == CHOOSE k : Iterates(fun, T, k)
<1>1. IsFiniteSet(T)
  BY FS_Subset
<1>2. Iterates(fun, T, h)
  BY <1>1, IterationExists
<1>3. SumFunctionOnSet(fun, T) = h[T]
  BY SumUnfolds
<1>. HIDE DEF h
<1>. QED BY <1>1, <1>2, <1>3, IterationsAgree

\* A sum over no elements is zero.
LEMMA SumEmpty ==
    ASSUME NEW fun
    PROVE  SumFunctionOnSet(fun, {}) = 0
<1>1. IsFiniteSet({})
  BY FS_EmptySet
<1>2. PICK g : Iterates(fun, {}, g)
  BY <1>1, IterationExists
<1>3. g[{}] = 0
  BY <1>2 DEF Iterates, Unfold
<1>. QED BY <1>1, <1>2, <1>3, SumIterates

\* The recursion of the library: a sum over a set is some element's value and the sum over the rest.
LEMMA SumChosen ==
    ASSUME NEW fun, NEW S, IsFiniteSet(S), S # {}
    PROVE  \E c \in S : SumFunctionOnSet(fun, S) = fun[c] + SumFunctionOnSet(fun, S \ {c})
<1>. DEFINE c == CHOOSE x \in S : TRUE
<1>1. PICK g : Iterates(fun, S, g)
  BY IterationExists
<1>2. SumFunctionOnSet(fun, S) = g[S] /\ SumFunctionOnSet(fun, S \ {c}) = g[S \ {c}]
  <2>1. S \ {c} \subseteq S /\ S \subseteq S
    OBVIOUS
  <2>. HIDE DEF c
  <2>. QED BY <1>1, <2>1, SumIterates
<1>3. g[S] = fun[c] + g[S \ {c}]
  BY <1>1 DEF Iterates, Unfold
<1>4. c \in S
  OBVIOUS
<1>. HIDE DEF c
<1>. QED BY <1>2, <1>3, <1>4

\* A sum of integers is an integer.
LEMMA SumInt ==
    ASSUME NEW S, IsFiniteSet(S), NEW fun, \A x \in S : fun[x] \in Int
    PROVE  SumFunctionOnSet(fun, S) \in Int
<1>. DEFINE Good == {T \in SUBSET S : SumFunctionOnSet(fun, T) \in Int}
<1>1. ASSUME NEW T \in SUBSET S, \A x \in T : T \ {x} \in Good
      PROVE  T \in Good
  <2>1. CASE T = {}
    BY <2>1, SumEmpty
  <2>2. CASE T # {}
    <3>1. PICK c \in T : SumFunctionOnSet(fun, T) = fun[c] + SumFunctionOnSet(fun, T \ {c})
      BY <2>2, SumChosen, FS_Subset
    <3>2. SumFunctionOnSet(fun, T \ {c}) \in Int /\ fun[c] \in Int
      BY <1>1
    <3>. QED BY <3>1, <3>2
  <2>. QED BY <2>1, <2>2
<1>2. SUBSET S \subseteq Good
  <2>. HIDE DEF Good
  <2>. QED BY <1>1, SubsetInduction
<1>. QED BY <1>2

\* Whichever element is taken first, the sum is the same.
LEMMA SumRemove ==
    ASSUME NEW S, IsFiniteSet(S), NEW fun, \A x \in S : fun[x] \in Int, NEW e \in S
    PROVE  /\ SumFunctionOnSet(fun, S \ {e}) \in Int
           /\ SumFunctionOnSet(fun, S) = fun[e] + SumFunctionOnSet(fun, S \ {e})
<1>. DEFINE Sum(T) == SumFunctionOnSet(fun, T)
            Good == {T \in SUBSET S : \A x \in T : Sum(T) = fun[x] + Sum(T \ {x})}
<1>1. ASSUME NEW T \in SUBSET S PROVE Sum(T) \in Int
  BY SumInt, FS_Subset
<1>2. ASSUME NEW T \in SUBSET S, \A x \in T : T \ {x} \in Good
      PROVE  T \in Good
  <2>1. CASE T = {}
    BY <2>1
  <2>2. CASE T # {}
    <3>1. PICK c \in T : Sum(T) = fun[c] + Sum(T \ {c})
      BY <2>2, SumChosen, FS_Subset
    <3>2. ASSUME NEW x \in T PROVE Sum(T) = fun[x] + Sum(T \ {x})
      <4>1. CASE x = c
        BY <3>1, <4>1
      <4>2. CASE x # c
        <5>1. (T \ {c}) \ {x} = (T \ {x}) \ {c}
          OBVIOUS
        <5>2. /\ Sum(T \ {c}) = fun[x] + Sum((T \ {c}) \ {x})
              /\ Sum(T \ {x}) = fun[c] + Sum((T \ {x}) \ {c})
          <6>1. x \in T \ {c} /\ c \in T \ {x} /\ T \ {c} \in Good /\ T \ {x} \in Good
            BY <1>2, <4>2
          <6>. HIDE DEF Sum
          <6>. QED BY <6>1
        <5>3. Sum((T \ {x}) \ {c}) \in Int /\ fun[x] \in Int /\ fun[c] \in Int
          <6>1. (T \ {x}) \ {c} \in SUBSET S
            OBVIOUS
          <6>. HIDE DEF Sum
          <6>. QED BY <1>1, <6>1
        <5>. DEFINE n == Sum((T \ {x}) \ {c})
        <5>4. Sum(T) = fun[c] + (fun[x] + n) /\ Sum(T \ {x}) = fun[c] + n /\ n \in Int
          BY <3>1, <5>1, <5>2, <5>3
        <5>. HIDE DEF Sum, n
        <5>. QED BY <5>3, <5>4
      <4>. QED BY <4>1, <4>2
    <3>. HIDE DEF Sum
    <3>. QED BY <3>2
  <2>. QED BY <2>1, <2>2
<1>3. SUBSET S \subseteq Good
  <2>. HIDE DEF Good
  <2>. QED BY <1>2, SubsetInduction
<1>. QED BY <1>1, <1>3

\* A sum over a set and one more element.
LEMMA SumAdd ==
    ASSUME NEW S, IsFiniteSet(S), NEW e, e \notin S,
           NEW fun, \A x \in S \cup {e} : fun[x] \in Int
    PROVE  SumFunctionOnSet(fun, S \cup {e}) = fun[e] + SumFunctionOnSet(fun, S)
<1>1. IsFiniteSet(S \cup {e}) /\ (S \cup {e}) \ {e} = S
  BY FS_AddElement
<1>. QED BY <1>1, SumRemove

\* Functions that agree on a set have the same sum over it.
LEMMA SumSame ==
    ASSUME NEW S, IsFiniteSet(S), NEW fun, NEW gun, \A x \in S : fun[x] \in Int,
           \A x \in S : fun[x] = gun[x]
    PROVE  SumFunctionOnSet(fun, S) = SumFunctionOnSet(gun, S)
<1>. DEFINE Good == {T \in SUBSET S : SumFunctionOnSet(fun, T) = SumFunctionOnSet(gun, T)}
<1>1. ASSUME NEW T \in SUBSET S, \A x \in T : T \ {x} \in Good
      PROVE  T \in Good
  <2>1. CASE T = {}
    BY <2>1, SumEmpty
  <2>2. ASSUME NEW c \in T PROVE T \in Good
    <3>1. IsFiniteSet(T)
      BY FS_Subset
    <3>2. SumFunctionOnSet(fun, T) = fun[c] + SumFunctionOnSet(fun, T \ {c})
      BY <3>1, SumRemove
    <3>3. SumFunctionOnSet(gun, T) = gun[c] + SumFunctionOnSet(gun, T \ {c})
      BY <3>1, SumRemove
    <3>. QED BY <1>1, <3>2, <3>3
  <2>. QED BY <2>1, <2>2
<1>2. SUBSET S \subseteq Good
  <2>. HIDE DEF Good
  <2>. QED BY <1>1, SubsetInduction
<1>. QED BY <1>2

\* One summand changes: the sum changes by the difference.
LEMMA SumUpdate ==
    ASSUME NEW S, IsFiniteSet(S), NEW fun, NEW gun, NEW e \in S,
           \A x \in S : fun[x] \in Int, gun[e] \in Int, \A x \in S \ {e} : gun[x] = fun[x]
    PROVE  SumFunctionOnSet(gun, S) = SumFunctionOnSet(fun, S) - fun[e] + gun[e]
<1>1. IsFiniteSet(S \ {e})
  BY FS_Subset
<1>2. SumFunctionOnSet(fun, S \ {e}) = SumFunctionOnSet(gun, S \ {e})
  BY <1>1, SumSame
<1>3. /\ SumFunctionOnSet(fun, S) = fun[e] + SumFunctionOnSet(fun, S \ {e})
      /\ SumFunctionOnSet(fun, S \ {e}) \in Int
  BY SumRemove
<1>4. SumFunctionOnSet(gun, S) = gun[e] + SumFunctionOnSet(gun, S \ {e})
  BY SumRemove
<1>. QED BY <1>2, <1>3, <1>4

\* A sum of two functions is the sum of their sums.
LEMMA SumPlus ==
    ASSUME NEW S, IsFiniteSet(S), NEW fun, NEW gun, NEW hun,
           \A x \in S : fun[x] \in Int /\ gun[x] \in Int /\ hun[x] = fun[x] + gun[x]
    PROVE  SumFunctionOnSet(hun, S) = SumFunctionOnSet(fun, S) + SumFunctionOnSet(gun, S)
<1>. DEFINE Good == {T \in SUBSET S : SumFunctionOnSet(hun, T)
                       = SumFunctionOnSet(fun, T) + SumFunctionOnSet(gun, T)}
<1>1. ASSUME NEW T \in SUBSET S, \A x \in T : T \ {x} \in Good
      PROVE  T \in Good
  <2>1. CASE T = {}
    BY <2>1, SumEmpty
  <2>2. ASSUME NEW c \in T PROVE T \in Good
    <3>1. IsFiniteSet(T)
      BY FS_Subset
    <3>2. /\ SumFunctionOnSet(fun, T) = fun[c] + SumFunctionOnSet(fun, T \ {c})
          /\ SumFunctionOnSet(fun, T \ {c}) \in Int
      BY <3>1, SumRemove
    <3>3. /\ SumFunctionOnSet(gun, T) = gun[c] + SumFunctionOnSet(gun, T \ {c})
          /\ SumFunctionOnSet(gun, T \ {c}) \in Int
      BY <3>1, SumRemove
    <3>4. SumFunctionOnSet(hun, T) = hun[c] + SumFunctionOnSet(hun, T \ {c})
      BY <3>1, SumRemove
    <3>5. SumFunctionOnSet(hun, T \ {c})
            = SumFunctionOnSet(fun, T \ {c}) + SumFunctionOnSet(gun, T \ {c})
      BY <1>1
    <3>6. hun[c] = fun[c] + gun[c] /\ fun[c] \in Int /\ gun[c] \in Int
      OBVIOUS
    <3>7. SumFunctionOnSet(hun, T) = SumFunctionOnSet(fun, T) + SumFunctionOnSet(gun, T)
      BY <3>2, <3>3, <3>4, <3>5, <3>6
    <3>. QED BY <3>7
  <2>. QED BY <2>1, <2>2
<1>2. SUBSET S \subseteq Good
  <2>. HIDE DEF Good
  <2>. QED BY <1>1, SubsetInduction
<1>. QED BY <1>2

\* Larger summands have a larger sum.
LEMMA SumMonotone ==
    ASSUME NEW S, IsFiniteSet(S), NEW fun, NEW gun,
           \A x \in S : fun[x] \in Int /\ gun[x] \in Int /\ fun[x] <= gun[x]
    PROVE  SumFunctionOnSet(fun, S) <= SumFunctionOnSet(gun, S)
<1>. DEFINE Good == {T \in SUBSET S : SumFunctionOnSet(fun, T) <= SumFunctionOnSet(gun, T)}
<1>1. ASSUME NEW T \in SUBSET S, \A x \in T : T \ {x} \in Good
      PROVE  T \in Good
  <2>1. CASE T = {}
    BY <2>1, SumEmpty
  <2>2. ASSUME NEW c \in T PROVE T \in Good
    <3>1. IsFiniteSet(T)
      BY FS_Subset
    <3>2. /\ SumFunctionOnSet(fun, T) = fun[c] + SumFunctionOnSet(fun, T \ {c})
          /\ SumFunctionOnSet(fun, T \ {c}) \in Int
      BY <3>1, SumRemove
    <3>3. /\ SumFunctionOnSet(gun, T) = gun[c] + SumFunctionOnSet(gun, T \ {c})
          /\ SumFunctionOnSet(gun, T \ {c}) \in Int
      BY <3>1, SumRemove
    <3>4. SumFunctionOnSet(fun, T \ {c}) <= SumFunctionOnSet(gun, T \ {c})
      BY <1>1
    <3>5. fun[c] <= gun[c] /\ fun[c] \in Int /\ gun[c] \in Int
      OBVIOUS
    <3>6. SumFunctionOnSet(fun, T) <= SumFunctionOnSet(gun, T)
      BY <3>2, <3>3, <3>4, <3>5
    <3>. QED BY <3>6
  <2>. QED BY <2>1, <2>2
<1>2. SUBSET S \subseteq Good
  <2>. HIDE DEF Good
  <2>. QED BY <1>1, SubsetInduction
<1>. QED BY <1>2

\* A sum of zeros is zero.
LEMMA SumZero ==
    ASSUME NEW S, IsFiniteSet(S), NEW fun, \A x \in S : fun[x] = 0
    PROVE  SumFunctionOnSet(fun, S) = 0
<1>1. SumFunctionOnSet(fun, S) \in Int
  BY SumInt
<1>2. SumFunctionOnSet(fun, S) = SumFunctionOnSet(fun, S) + SumFunctionOnSet(fun, S)
  <2>1. \A x \in S : fun[x] \in Int /\ fun[x] \in Int /\ fun[x] = fun[x] + fun[x]
    OBVIOUS
  <2>. QED BY <2>1, SumPlus
<1>. DEFINE n == SumFunctionOnSet(fun, S)
<1>3. n \in Int /\ n = n + n => n = 0
  <2>. HIDE DEF n
  <2>. QED OBVIOUS
<1>. QED BY <1>1, <1>2, <1>3

\* A sum of natural numbers is one.
LEMMA SumNat ==
    ASSUME NEW S, IsFiniteSet(S), NEW fun, \A x \in S : fun[x] \in Nat
    PROVE  SumFunctionOnSet(fun, S) \in Nat
<1>. DEFINE zero == [x \in S |-> 0]
<1>1. SumFunctionOnSet(zero, S) = 0
  BY SumZero
<1>2. SumFunctionOnSet(zero, S) <= SumFunctionOnSet(fun, S)
  BY SumMonotone
<1>3. SumFunctionOnSet(fun, S) \in Int
  BY SumInt
<1>. QED BY <1>1, <1>2, <1>3

\* No summand that is a natural number exceeds the sum.
LEMMA SumMember ==
    ASSUME NEW S, IsFiniteSet(S), NEW fun, \A x \in S : fun[x] \in Nat, NEW e \in S
    PROVE  fun[e] <= SumFunctionOnSet(fun, S)
<1>1. IsFiniteSet(S \ {e})
  BY FS_Subset
<1>2. SumFunctionOnSet(fun, S \ {e}) \in Nat
  BY <1>1, SumNat
<1>3. SumFunctionOnSet(fun, S) = fun[e] + SumFunctionOnSet(fun, S \ {e})
  BY SumRemove
<1>. QED BY <1>2, <1>3

\* A set falls into a subset and the rest, and so does a sum.
LEMMA SumSplit ==
    ASSUME NEW S, IsFiniteSet(S), NEW T \in SUBSET S, NEW fun, \A x \in S : fun[x] \in Int
    PROVE  SumFunctionOnSet(fun, S) = SumFunctionOnSet(fun, T) + SumFunctionOnSet(fun, S \ T)
<1>. DEFINE Good == {U \in SUBSET T : SumFunctionOnSet(fun, S)
                       = SumFunctionOnSet(fun, U) + SumFunctionOnSet(fun, S \ U)}
<1>1. ASSUME NEW U \in SUBSET T, \A x \in U : U \ {x} \in Good
      PROVE  U \in Good
  <2>1. CASE U = {}
    <3>1. SumFunctionOnSet(fun, S) \in Int /\ S \ U = S
      BY <2>1, SumInt
    <3>. QED BY <2>1, <3>1, SumEmpty
  <2>2. ASSUME NEW c \in U PROVE U \in Good
    <3>. DEFINE R == S \ (U \ {c})
    <3>1. IsFiniteSet(U) /\ IsFiniteSet(R) /\ c \in R /\ R \ {c} = S \ U
      BY FS_Subset
    <3>2. /\ SumFunctionOnSet(fun, U) = fun[c] + SumFunctionOnSet(fun, U \ {c})
          /\ SumFunctionOnSet(fun, U \ {c}) \in Int
      BY <3>1, SumRemove
    <3>3. /\ SumFunctionOnSet(fun, R) = fun[c] + SumFunctionOnSet(fun, S \ U)
          /\ SumFunctionOnSet(fun, S \ U) \in Int
      <4>1. \A x \in R : fun[x] \in Int
        OBVIOUS
      <4>2. /\ SumFunctionOnSet(fun, R) = fun[c] + SumFunctionOnSet(fun, R \ {c})
            /\ SumFunctionOnSet(fun, R \ {c}) \in Int
        <5>. HIDE DEF R
        <5>. QED BY <3>1, <4>1, SumRemove
      <4>. HIDE DEF R
      <4>. QED BY <3>1, <4>2
    <3>4. SumFunctionOnSet(fun, S) = SumFunctionOnSet(fun, U \ {c}) + SumFunctionOnSet(fun, R)
      BY <1>1
    <3>5. fun[c] \in Int
      OBVIOUS
    <3>6. SumFunctionOnSet(fun, S) = SumFunctionOnSet(fun, U) + SumFunctionOnSet(fun, S \ U)
      <4>. HIDE DEF R
      <4>. QED BY <3>2, <3>3, <3>4, <3>5
    <3>. QED BY <3>6
  <2>. QED BY <2>1, <2>2
<1>2. SUBSET T \subseteq Good
  <2>1. IsFiniteSet(T)
    BY FS_Subset
  <2>. HIDE DEF Good
  <2>. QED BY <1>1, <2>1, SubsetInduction
<1>. QED BY <1>2

\* Summands of zero may be left out.
LEMMA SumSupport ==
    ASSUME NEW S, IsFiniteSet(S), NEW T \in SUBSET S, NEW fun, \A x \in S : fun[x] \in Int,
           \A x \in S \ T : fun[x] = 0
    PROVE  SumFunctionOnSet(fun, S) = SumFunctionOnSet(fun, T)
<1>1. IsFiniteSet(S \ T) /\ IsFiniteSet(T)
  BY FS_Subset
<1>2. SumFunctionOnSet(fun, S \ T) = 0
  BY <1>1, SumZero
<1>3. SumFunctionOnSet(fun, T) \in Int
  BY <1>1, SumInt
<1>. QED BY <1>2, <1>3, SumSplit

\* A function that is zero but for one element sums to that element's value.
LEMMA SumSingle ==
    ASSUME NEW S, IsFiniteSet(S), NEW e \in S, NEW n \in Int
    PROVE  SumFunctionOnSet([x \in S |-> IF x = e THEN n ELSE 0], S) = n
<1>. DEFINE zero == [x \in S |-> 0]
            one == [x \in S |-> IF x = e THEN n ELSE 0]
<1>1. /\ \A x \in S : zero[x] \in Int /\ zero[x] = 0
      /\ one[e] = n
      /\ \A x \in S \ {e} : one[x] = zero[x]
  OBVIOUS
<1>2. zero[e] = 0
  BY <1>1
<1>. HIDE DEF zero, one
<1>3. SumFunctionOnSet(zero, S) = 0
  BY <1>1, SumZero
<1>4. SumFunctionOnSet(one, S) = SumFunctionOnSet(zero, S) - zero[e] + one[e]
  BY <1>1, SumUpdate
<1>5. SumFunctionOnSet(one, S) = n
  BY <1>1, <1>2, <1>3, <1>4
<1>. QED BY <1>5 DEF one

\* A function that is zero outside a subset sums to the sum over the subset.
LEMMA SumWhere ==
    ASSUME NEW S, IsFiniteSet(S), NEW T \in SUBSET S, NEW fun, NEW gun,
           \A x \in T : fun[x] \in Int /\ gun[x] = fun[x],
           \A x \in S \ T : gun[x] = 0
    PROVE  SumFunctionOnSet(gun, S) = SumFunctionOnSet(fun, T)
<1>1. IsFiniteSet(T)
  BY FS_Subset
<1>2. \A x \in S : gun[x] \in Int
  OBVIOUS
<1>3. SumFunctionOnSet(gun, S) = SumFunctionOnSet(gun, T)
  BY <1>2, SumSupport
<1>4. SumFunctionOnSet(fun, T) = SumFunctionOnSet(gun, T)
  BY <1>1, SumSame
<1>. QED BY <1>3, <1>4

\* The number of elements of a subset is the sum of ones over it.
LEMMA SumCount ==
    ASSUME NEW S, IsFiniteSet(S), NEW T \in SUBSET S, NEW n \in Nat
    PROVE  SumFunctionOnSet([x \in S |-> IF x \in T THEN n ELSE 0], S) = n * Cardinality(T)
<1>. DEFINE one == [x \in S |-> IF x \in T THEN n ELSE 0]
            Good == {U \in SUBSET T : SumFunctionOnSet(one, U) = n * Cardinality(U)}
<1>1. ASSUME NEW U \in SUBSET T, \A x \in U : U \ {x} \in Good
      PROVE  U \in Good
  <2>1. CASE U = {}
    BY <2>1, SumEmpty, FS_EmptySet
  <2>2. ASSUME NEW c \in U PROVE U \in Good
    <3>1. IsFiniteSet(U) /\ IsFiniteSet(U \ {c})
      BY FS_Subset
    <3>2. SumFunctionOnSet(one, U) = one[c] + SumFunctionOnSet(one, U \ {c})
      <4>1. \A x \in U : one[x] \in Int
        OBVIOUS
      <4>. HIDE DEF one
      <4>. QED BY <3>1, <4>1, SumRemove
    <3>3. Cardinality(U) = Cardinality(U \ {c}) + 1 /\ Cardinality(U \ {c}) \in Nat
      BY <3>1, FS_RemoveElement, FS_CardinalityType
    <3>4. SumFunctionOnSet(one, U \ {c}) = n * Cardinality(U \ {c}) /\ one[c] = n
      BY <1>1
    <3>5. n * (Cardinality(U \ {c}) + 1) = n + n * Cardinality(U \ {c})
      BY <3>3
    <3>6. SumFunctionOnSet(one, U) = n * Cardinality(U)
      <4>. HIDE DEF one
      <4>. QED BY <3>2, <3>3, <3>4, <3>5
    <3>. QED BY <3>6
  <2>. QED BY <2>1, <2>2
<1>2. SUBSET T \subseteq Good
  <2>1. IsFiniteSet(T)
    BY FS_Subset
  <2>. HIDE DEF Good
  <2>. QED BY <1>1, <2>1, SubsetInduction
<1>3. SumFunctionOnSet(one, S) = SumFunctionOnSet(one, T)
  <2>1. \A x \in S : one[x] \in Int /\ (x \notin T => one[x] = 0)
    OBVIOUS
  <2>. HIDE DEF one
  <2>. QED BY <2>1, SumSupport
<1>. QED BY <1>2, <1>3

\* A sum over pairs is the sum over the first components of the sums over the second.
\* ByRows says that gun gives the sum of each row of fun.
ByRows(A, B, fun, row, gun) ==
    /\ \A a \in A, b \in B : fun[<<a, b>>] \in Int /\ row[a][b] = fun[<<a, b>>]
    /\ \A a \in A : gun[a] = SumFunctionOnSet(row[a], B)

LEMMA SumProduct ==
    ASSUME NEW A, IsFiniteSet(A), NEW B, IsFiniteSet(B), NEW fun, NEW row, NEW gun,
           ByRows(A, B, fun, row, gun)
    PROVE  SumFunctionOnSet(fun, A \X B) = SumFunctionOnSet(gun, A)
<1>. DEFINE Line(a, V) == {<<a, b>> : b \in V}
            Rows(C) == C \X B
<1>0. /\ \A a \in A, b \in B : fun[<<a, b>>] \in Int /\ row[a][b] = fun[<<a, b>>]
      /\ \A a \in A : gun[a] = SumFunctionOnSet(row[a], B)
  BY DEF ByRows
<1>1. ASSUME NEW a \in A
      PROVE  SumFunctionOnSet(fun, Line(a, B)) = SumFunctionOnSet(row[a], B)
  <2>. DEFINE Good == {V \in SUBSET B : SumFunctionOnSet(fun, Line(a, V))
                         = SumFunctionOnSet(row[a], V)}
  <2>1. ASSUME NEW V \in SUBSET B, \A b \in V : V \ {b} \in Good
        PROVE  V \in Good
    <3>1. CASE V = {}
      <4>1. Line(a, V) = {}
        BY <3>1
      <4>. QED BY <3>1, <4>1, SumEmpty
    <3>2. ASSUME NEW c \in V PROVE V \in Good
      <4>1. IsFiniteSet(V) /\ IsFiniteSet(Line(a, V))
        <5>1. IsFiniteSet(A \X B) /\ Line(a, V) \subseteq A \X B
          BY FS_Product
        <5>. QED BY <5>1, FS_Subset
      <4>2. Line(a, V) \ {<<a, c>>} = Line(a, V \ {c}) /\ <<a, c>> \in Line(a, V)
        OBVIOUS
      <4>3. SumFunctionOnSet(fun, Line(a, V))
              = fun[<<a, c>>] + SumFunctionOnSet(fun, Line(a, V \ {c}))
        <5>. DEFINE L == Line(a, V)
                    K == Line(a, V \ {c})
                    e == <<a, c>>
        <5>1. \A p \in L : fun[p] \in Int
          BY <1>0
        <5>2. IsFiniteSet(L) /\ e \in L /\ L \ {e} = K
          BY <4>1, <4>2
        <5>. HIDE DEF L, K, e
        <5>3. SumFunctionOnSet(fun, L) = fun[e] + SumFunctionOnSet(fun, K)
          BY <5>1, <5>2, SumRemove
        <5>. QED BY <5>3 DEF L, K, e
      <4>4. SumFunctionOnSet(row[a], V) = row[a][c] + SumFunctionOnSet(row[a], V \ {c})
        <5>1. \A b \in V : row[a][b] \in Int
          BY <1>0
        <5>. QED BY <4>1, <5>1, SumRemove
      <4>5. row[a][c] = fun[<<a, c>>]
        BY <1>0
      <4>6. SumFunctionOnSet(fun, Line(a, V \ {c})) = SumFunctionOnSet(row[a], V \ {c})
        BY <2>1
      <4>7. SumFunctionOnSet(fun, Line(a, V)) = SumFunctionOnSet(row[a], V)
        <5>. HIDE DEF Line
        <5>. QED BY <4>3, <4>4, <4>5, <4>6
      <4>. HIDE DEF Line
      <4>. QED BY <4>7
    <3>. QED BY <3>1, <3>2
  <2>2. SUBSET B \subseteq Good
    <3>. HIDE DEF Good
    <3>. QED BY <2>1, SubsetInduction
  <2>. QED BY <2>2
<1>. DEFINE Good == {C \in SUBSET A : SumFunctionOnSet(fun, Rows(C)) = SumFunctionOnSet(gun, C)}
<1>2. ASSUME NEW a \in A PROVE gun[a] \in Int /\ gun[a] = SumFunctionOnSet(row[a], B)
  <2>1. \A b \in B : row[a][b] \in Int
    BY <1>0
  <2>2. SumFunctionOnSet(row[a], B) \in Int
    <3>. QED BY <2>1, SumInt
  <2>. QED BY <1>0, <2>2
<1>3. ASSUME NEW C \in SUBSET A, \A a \in C : C \ {a} \in Good
      PROVE  C \in Good
  <2>1. CASE C = {}
    <3>1. Rows(C) = {}
      BY <2>1
    <3>. QED BY <2>1, <3>1, SumEmpty
  <2>2. ASSUME NEW c \in C PROVE C \in Good
    <3>1. IsFiniteSet(C) /\ IsFiniteSet(Rows(C))
      BY FS_Subset, FS_Product
    <3>2. Line(c, B) \in SUBSET Rows(C) /\ Rows(C) \ Line(c, B) = Rows(C \ {c})
      OBVIOUS
    <3>3. SumFunctionOnSet(fun, Rows(C))
            = SumFunctionOnSet(fun, Line(c, B)) + SumFunctionOnSet(fun, Rows(C \ {c}))
      <4>. DEFINE R == Rows(C)
                  L == Line(c, B)
                  Q == Rows(C \ {c})
      <4>1. \A p \in R : fun[p] \in Int
        BY <1>0
      <4>2. IsFiniteSet(R) /\ L \in SUBSET R /\ R \ L = Q
        BY <3>1, <3>2
      <4>. HIDE DEF R, L, Q
      <4>3. SumFunctionOnSet(fun, R) = SumFunctionOnSet(fun, L) + SumFunctionOnSet(fun, Q)
        BY <4>1, <4>2, SumSplit
      <4>. QED BY <4>3 DEF R, L, Q
    <3>4. SumFunctionOnSet(gun, C) = gun[c] + SumFunctionOnSet(gun, C \ {c})
      BY <3>1, <1>2, SumRemove
    <3>5. SumFunctionOnSet(fun, Rows(C \ {c})) = SumFunctionOnSet(gun, C \ {c})
      BY <1>3
    <3>6. SumFunctionOnSet(fun, Rows(C)) = SumFunctionOnSet(gun, C)
      BY <1>1, <1>2, <3>3, <3>4, <3>5
    <3>. HIDE DEF Rows
    <3>. QED BY <3>6
  <2>. QED BY <2>1, <2>2
<1>4. SUBSET A \subseteq Good
  <2>. HIDE DEF Good
  <2>. QED BY <1>3, SubsetInduction
<1>. QED BY <1>4

-----------------------------------------------------------------------------
(* Tables of numbers: a function of rows, each a function of columns.      *)

\* g is f with another value for d, and both are numbers.
EntryChange(f, g, S, d) ==
  /\ IsFiniteSet(S) /\ d \in S
  /\ \A r \in S : f[r] \in Nat /\ g[r] \in Nat
  /\ \A r \in S \ {d} : g[r] = f[r]

\* The sum follows the entry that changes.
LEMMA EntryUpdate ==
  ASSUME NEW S, NEW f, NEW g, NEW d, EntryChange(f, g, S, d)
  PROVE  /\ SumFunctionOnSet(f, S) \in Nat /\ SumFunctionOnSet(g, S) \in Nat
         /\ f[d] \in Nat /\ g[d] \in Nat
         /\ SumFunctionOnSet(g, S) = SumFunctionOnSet(f, S) - f[d] + g[d]
<1>1. /\ \A r \in S : f[r] \in Int /\ g[r] \in Int
      /\ \A r \in S : f[r] \in Nat /\ g[r] \in Nat
      /\ IsFiniteSet(S) /\ d \in S
      /\ \A r \in S \ {d} : g[r] = f[r]
  BY DEF EntryChange
<1>2. SumFunctionOnSet(g, S) = SumFunctionOnSet(f, S) - f[d] + g[d]
  BY <1>1, SumUpdate
<1>3. SumFunctionOnSet(f, S) \in Nat /\ SumFunctionOnSet(g, S) \in Nat
  BY <1>1, SumNat
<1>. QED BY <1>1, <1>2, <1>3

\* One entry is added.
EntryAddition(f, g, S, d) ==
  /\ IsFiniteSet(S) /\ d \notin S /\ g[d] \in Nat
  /\ \A r \in S : f[r] \in Nat /\ g[r] = f[r]

\* The sum grows by the entry that is added.
LEMMA EntryAdd ==
  ASSUME NEW S, NEW f, NEW g, NEW d, EntryAddition(f, g, S, d)
  PROVE  /\ SumFunctionOnSet(f, S) \in Nat /\ SumFunctionOnSet(g, S \cup {d}) \in Nat
         /\ SumFunctionOnSet(g, S \cup {d}) = SumFunctionOnSet(f, S) + g[d]
<1>1. /\ IsFiniteSet(S) /\ d \notin S /\ g[d] \in Nat
      /\ \A r \in S : f[r] \in Nat /\ g[r] = f[r]
  BY DEF EntryAddition
<1>2. SumFunctionOnSet(f, S) = SumFunctionOnSet(g, S)
  BY <1>1, SumSame
<1>3. SumFunctionOnSet(g, S \cup {d}) = g[d] + SumFunctionOnSet(g, S)
  <2>1. \A r \in S \cup {d} : g[r] \in Int
    BY <1>1
  <2>. QED BY <1>1, <2>1, SumAdd
<1>4. SumFunctionOnSet(f, S) \in Nat
  BY <1>1, SumNat
<1>. QED BY <1>1, <1>2, <1>3, <1>4

RowSums(all, S, R) == [s \in S |-> SumFunctionOnSet(all[s], R)]
TableSum(all, S, R) == SumFunctionOnSet(RowSums(all, S, R), S)
Numbers(all, S, R) == \A s \in S, r \in R : all[s][r] \in Nat

\* One row becomes another.
RowChange(all, new, S, R, a) ==
  /\ IsFiniteSet(S) /\ IsFiniteSet(R) /\ a \in S
  /\ Numbers(all, S, R) /\ Numbers(new, S, R)
  /\ \A s \in S \ {a} : new[s] = all[s]

LEMMA RowUpdate ==
  ASSUME NEW S, NEW R, NEW all, NEW new, NEW a, RowChange(all, new, S, R, a)
  PROVE  /\ TableSum(new, S, R) =
              TableSum(all, S, R) - SumFunctionOnSet(all[a], R) + SumFunctionOnSet(new[a], R)
         /\ TableSum(all, S, R) \in Nat /\ TableSum(new, S, R) \in Nat
         /\ SumFunctionOnSet(new[a], R) \in Nat /\ SumFunctionOnSet(all[a], R) \in Nat
<1>. DEFINE sums == RowSums(all, S, R)
            own == RowSums(new, S, R)
<1>1. \A s \in S : SumFunctionOnSet(all[s], R) \in Nat /\ SumFunctionOnSet(new[s], R) \in Nat
  BY SumNat DEF RowChange, Numbers
<1>2. EntryChange(sums, own, S, a)
  BY <1>1 DEF RowChange, EntryChange, RowSums
<1>3. sums[a] = SumFunctionOnSet(all[a], R) /\ own[a] = SumFunctionOnSet(new[a], R)
  BY DEF RowChange, RowSums
<1>. HIDE DEF sums, own
<1>4. /\ SumFunctionOnSet(sums, S) \in Nat /\ SumFunctionOnSet(own, S) \in Nat
      /\ sums[a] \in Nat /\ own[a] \in Nat
      /\ SumFunctionOnSet(own, S) = SumFunctionOnSet(sums, S) - sums[a] + own[a]
  BY <1>2, EntryUpdate
<1>. QED BY <1>3, <1>4 DEF sums, own, TableSum

\* A row is added.
RowAddition(all, new, S, R, a) ==
  /\ IsFiniteSet(S) /\ IsFiniteSet(R) /\ a \notin S
  /\ Numbers(new, S \cup {a}, R)
  /\ \A s \in S : new[s] = all[s]

LEMMA RowAdd ==
  ASSUME NEW S, NEW R, NEW all, NEW new, NEW a, RowAddition(all, new, S, R, a)
  PROVE  /\ TableSum(new, S \cup {a}, R) = TableSum(all, S, R) + SumFunctionOnSet(new[a], R)
         /\ TableSum(all, S, R) \in Nat /\ TableSum(new, S \cup {a}, R) \in Nat
         /\ SumFunctionOnSet(new[a], R) \in Nat
<1>. DEFINE sums == RowSums(all, S, R)
            own == RowSums(new, S \cup {a}, R)
<1>1. \A s \in S \cup {a} : SumFunctionOnSet(new[s], R) \in Nat
  BY SumNat DEF RowAddition, Numbers
<1>2. /\ IsFiniteSet(S) /\ a \notin S
      /\ \A s \in S : own[s] = sums[s] /\ sums[s] \in Nat /\ own[s] \in Int /\ sums[s] \in Int
      /\ own[a] = SumFunctionOnSet(new[a], R) /\ own[a] \in Nat /\ own[a] \in Int
      /\ \A s \in S \cup {a} : own[s] \in Int
  BY <1>1 DEF RowAddition, RowSums
<1>. HIDE DEF sums, own
<1>3. SumFunctionOnSet(own, S \cup {a}) = own[a] + SumFunctionOnSet(own, S)
  BY <1>2, SumAdd
<1>4. SumFunctionOnSet(own, S) = SumFunctionOnSet(sums, S)
  BY <1>2, SumSame
<1>5. SumFunctionOnSet(sums, S) \in Nat
  BY <1>2, SumNat
<1>6. SumFunctionOnSet(own, S \cup {a}) = SumFunctionOnSet(sums, S) + own[a]
      /\ SumFunctionOnSet(own, S \cup {a}) \in Nat
  BY <1>2, <1>3, <1>4, <1>5
<1>. QED BY <1>2, <1>5, <1>6 DEF sums, own, TableSum

\* One entry becomes another.
TableChange(all, new, S, R, a, d) ==
  /\ RowChange(all, new, S, R, a) /\ d \in R
  /\ \A r \in R \ {d} : new[a][r] = all[a][r]

\* The sum of its row and the sum of all the rows follow the entry that changes.
LEMMA TableUpdate ==
  ASSUME NEW S, NEW R, NEW all, NEW new, NEW a, NEW d, TableChange(all, new, S, R, a, d)
  PROVE  /\ SumFunctionOnSet(new[a], R) = SumFunctionOnSet(all[a], R) - all[a][d] + new[a][d]
         /\ TableSum(new, S, R) = TableSum(all, S, R) - all[a][d] + new[a][d]
         /\ TableSum(all, S, R) \in Nat /\ TableSum(new, S, R) \in Nat
         /\ SumFunctionOnSet(new[a], R) \in Nat /\ SumFunctionOnSet(all[a], R) \in Nat
<1>. DEFINE f == all[a]
            g == new[a]
<1>1. EntryChange(f, g, R, d)
  BY DEF TableChange, RowChange, Numbers, EntryChange
<1>2. /\ TableSum(new, S, R) =
           TableSum(all, S, R) - SumFunctionOnSet(f, R) + SumFunctionOnSet(g, R)
      /\ TableSum(all, S, R) \in Nat /\ TableSum(new, S, R) \in Nat
  BY RowUpdate DEF TableChange
<1>. HIDE DEF f, g
<1>3. /\ SumFunctionOnSet(f, R) \in Nat /\ SumFunctionOnSet(g, R) \in Nat
      /\ f[d] \in Nat /\ g[d] \in Nat
      /\ SumFunctionOnSet(g, R) = SumFunctionOnSet(f, R) - f[d] + g[d]
  BY <1>1, EntryUpdate
<1>4. TableSum(new, S, R) = TableSum(all, S, R) - f[d] + g[d]
  BY <1>2, <1>3
<1>. QED BY <1>2, <1>3, <1>4 DEF f, g
-----------------------------------------------------------------------------
(* Functions of integers, of which one entry or every entry changes.       *)

IntChange(f, g, S, d) ==
  /\ IsFiniteSet(S) /\ d \in S
  /\ \A r \in S : f[r] \in Int /\ g[r] \in Int
  /\ \A r \in S \ {d} : g[r] = f[r]

\* The sum follows the entry that changes.
LEMMA IntUpdate ==
  ASSUME NEW S, NEW f, NEW g, NEW d, IntChange(f, g, S, d)
  PROVE  /\ SumFunctionOnSet(f, S) \in Int /\ SumFunctionOnSet(g, S) \in Int
         /\ f[d] \in Int /\ g[d] \in Int
         /\ SumFunctionOnSet(g, S) = SumFunctionOnSet(f, S) - f[d] + g[d]
<1>1. /\ \A r \in S : f[r] \in Int
      /\ \A r \in S : g[r] \in Int
      /\ IsFiniteSet(S) /\ d \in S
      /\ \A r \in S \ {d} : g[r] = f[r]
  BY DEF IntChange
<1>2. SumFunctionOnSet(g, S) = SumFunctionOnSet(f, S) - f[d] + g[d]
  BY <1>1, SumUpdate
<1>3. SumFunctionOnSet(f, S) \in Int /\ SumFunctionOnSet(g, S) \in Int
  BY <1>1, SumInt
<1>. QED BY <1>1, <1>2, <1>3

\* g is f with e taken from every entry and x given to the entry of a.
Shift(f, g, e, S, a, x) ==
  /\ IsFiniteSet(S) /\ x \in Int /\ (a \in S \/ x = 0)
  /\ \A r \in S : f[r] \in Int /\ e[r] \in Int /\ g[r] \in Int
  /\ \A r \in S : g[r] = f[r] - e[r] + IF r = a THEN x ELSE 0

LEMMA ShiftedSum ==
  ASSUME NEW S, NEW f, NEW g, NEW e, NEW a, NEW x, Shift(f, g, e, S, a, x)
  PROVE  /\ SumFunctionOnSet(f, S) \in Int /\ SumFunctionOnSet(g, S) \in Int
         /\ SumFunctionOnSet(e, S) \in Int
         /\ SumFunctionOnSet(g, S) = SumFunctionOnSet(f, S) - SumFunctionOnSet(e, S) + x
<1>1. /\ IsFiniteSet(S) /\ x \in Int /\ (a \in S \/ x = 0)
      /\ \A r \in S : f[r] \in Int
      /\ \A r \in S : e[r] \in Int
      /\ \A r \in S : g[r] \in Int
      /\ \A r \in S : g[r] = f[r] - e[r] + IF r = a THEN x ELSE 0
  BY DEF Shift
<1>. DEFINE one == [r \in S |-> IF r = a THEN x ELSE 0]
            all == [r \in S |-> g[r] + e[r]]
<1>2. \A r \in S : one[r] \in Int /\ all[r] = g[r] + e[r] /\ one[r] = IF r = a THEN x ELSE 0
  BY <1>1
<1>3. SumFunctionOnSet(one, S) = x
  <2>1. CASE a \in S
    BY <1>1, <2>1, SumSingle
  <2>2. CASE x = 0
    <3>1. \A r \in S : one[r] = 0
      BY <2>2
    <3>. QED BY <1>1, <2>2, <3>1, SumZero
  <2>. QED BY <1>1, <2>1, <2>2
<1>. HIDE DEF one, all
<1>4. \A r \in S : f[r] \in Int /\ one[r] \in Int /\ all[r] = f[r] + one[r]
  <2>. SUFFICES ASSUME NEW r \in S
                PROVE  f[r] \in Int /\ one[r] \in Int /\ all[r] = f[r] + one[r]
    OBVIOUS
  <2>1. f[r] \in Int /\ e[r] \in Int /\ one[r] \in Int /\ all[r] = g[r] + e[r]
    BY <1>1, <1>2
  <2>2. g[r] = f[r] - e[r] + one[r]
    BY <1>1, <1>2
  <2>. QED BY <2>1, <2>2
<1>5. SumFunctionOnSet(all, S) = SumFunctionOnSet(f, S) + SumFunctionOnSet(one, S)
  BY <1>1, <1>4, SumPlus
<1>6. SumFunctionOnSet(all, S) = SumFunctionOnSet(g, S) + SumFunctionOnSet(e, S)
  BY <1>1, <1>2, SumPlus
<1>7. /\ SumFunctionOnSet(f, S) \in Int /\ SumFunctionOnSet(g, S) \in Int
      /\ SumFunctionOnSet(e, S) \in Int
  BY <1>1, SumInt
<1>8. SumFunctionOnSet(g, S) + SumFunctionOnSet(e, S) = SumFunctionOnSet(f, S) + x
  BY <1>3, <1>5, <1>6
<1>9. SumFunctionOnSet(g, S) = SumFunctionOnSet(f, S) - SumFunctionOnSet(e, S) + x
  <2>. DEFINE p == SumFunctionOnSet(f, S)
              q == SumFunctionOnSet(g, S)
              y == SumFunctionOnSet(e, S)
  <2>1. p \in Int /\ q \in Int /\ y \in Int /\ x \in Int /\ q + y = p + x
    BY <1>1, <1>7, <1>8
  <2>. HIDE DEF p, q, y
  <2>2. q = p - y + x
    BY <2>1
  <2>. QED BY <2>2 DEF p, q, y
<1>. QED BY <1>7, <1>9
=============================================================================
