----------------------------- MODULE Sums_proofs -----------------------------
(***************************************************************************)
(* Sums over finite sets, which the stock ledger, the accounts, the totals *)
(* of a document and the counts of requests are made of.                   *)
(***************************************************************************)
EXTENDS Integers, FiniteSets, FiniteSetTheorems, TLAPS

-----------------------------------------------------------------------------
(* A sum is what is left of one element and the sum of the others, in the  *)
(* order CHOOSE takes them.  The facts below are proved by induction over  *)
(* the subsets of the set that is summed.                                  *)

Chosen(S) == CHOOSE x \in S : TRUE

\* g[T] is the sum of f over T, for every T within S.
SumsWithin(f, S, g) ==
  g = [T \in SUBSET S |-> IF T = {} THEN 0 ELSE f[Chosen(T)] + g[T \ {Chosen(T)}]]

SumOver(f, S) == (CHOOSE g : SumsWithin(f, S, g))[S]

\* What a subset inherits from its proper subsets, every subset of S has.
LEMMA SubsetInduction ==
  ASSUME NEW S, IsFiniteSet(S), NEW Q,
         \A T \in SUBSET S : (\A U \in SUBSET T : U # T => U \in Q) => T \in Q
  PROVE  SUBSET S \subseteq Q
<1> DEFINE B == {T \in SUBSET S : T \notin Q}
<1> SUFFICES ASSUME B # {} PROVE FALSE
  OBVIOUS
<1>1. IsWellFoundedOn(StrictSubsetOrdering(S), SUBSET S)
  <2>1. IsWellFoundedOn(StrictSubsetOrdering(S), FiniteSubsetsOf(S))
    BY FS_StrictSubsetOrderingWellFounded
  <2>2. FiniteSubsetsOf(S) = SUBSET S
    BY FS_FiniteSubsetsOfFinite
  <2> QED
    BY <2>1, <2>2
<1>2. PICK T \in B : \A U \in B : ~(<<U, T>> \in StrictSubsetOrdering(S))
  <2>1. B \subseteq SUBSET S
    OBVIOUS
  <2> HIDE DEF B
  <2> QED
    BY <1>1, <2>1, WFMin
<1>3. T \in SUBSET S /\ T \notin Q
  OBVIOUS
<1>4. ASSUME NEW U \in SUBSET T, U # T PROVE U \in Q
  <2>1. U \in SUBSET S
    BY <1>3
  <2>2. <<U, T>> \in StrictSubsetOrdering(S)
    BY <1>3, <1>4, <2>1 DEF StrictSubsetOrdering
  <2>3. U \notin B
    BY <1>2, <2>2
  <2> QED
    BY <2>1, <2>3
<1> QED
  BY <1>3, <1>4

\* CHOOSE takes an element where there is one.
LEMMA ChosenIsIn == ASSUME NEW S, S # {} PROVE Chosen(S) \in S
  BY DEF Chosen

\* The sums within two sets are the same where the sets overlap.
LEMMA SumsAgree ==
  ASSUME NEW f, NEW S, NEW T \in SUBSET S, IsFiniteSet(T), NEW g, NEW h,
         SumsWithin(f, S, g), SumsWithin(f, T, h)
  PROVE  \A U \in SUBSET T : g[U] = h[U]
<1> DEFINE Q == {U \in SUBSET T : g[U] = h[U]}
<1>1. ASSUME NEW U \in SUBSET T, \A V \in SUBSET U : V # U => V \in Q
      PROVE  U \in Q
  <2>1. /\ g[U] = IF U = {} THEN 0 ELSE f[Chosen(U)] + g[U \ {Chosen(U)}]
        /\ h[U] = IF U = {} THEN 0 ELSE f[Chosen(U)] + h[U \ {Chosen(U)}]
    BY DEF SumsWithin
  <2>2. CASE U = {}
    BY <2>1, <2>2
  <2>3. CASE U # {}
    <3>1. U \ {Chosen(U)} \in SUBSET U /\ U \ {Chosen(U)} # U
      BY <2>3, ChosenIsIn
    <3>2. g[U \ {Chosen(U)}] = h[U \ {Chosen(U)}]
      BY <1>1, <3>1
    <3> QED
      BY <2>1, <2>3, <3>2
  <2> QED
    BY <2>2, <2>3
<1> HIDE DEF Q
<1>2. SUBSET T \subseteq Q
  BY <1>1, SubsetInduction
<1> QED
  BY <1>2 DEF Q

\* Whatever f is, its sums within a finite set exist.
LEMMA SumsExist ==
  ASSUME NEW f, NEW S, IsFiniteSet(S)
  PROVE  \E g : SumsWithin(f, S, g)
<1> DEFINE Q == {T \in SUBSET S : \E g : SumsWithin(f, T, g)}
           G(T) == CHOOSE g : SumsWithin(f, T, g)
<1>1. ASSUME NEW T \in SUBSET S, \A U \in SUBSET T : U # T => U \in Q
      PROVE  T \in Q
  <2> DEFINE Rest(U) == U \ {Chosen(U)}
             Sum(U) == IF U = {} THEN 0 ELSE f[Chosen(U)] + G(Rest(U))[Rest(U)]
             h == [U \in SUBSET T |-> Sum(U)]
  <2>1. ASSUME NEW U \in SUBSET T, U # {}
        PROVE  /\ Rest(U) \in SUBSET T
               /\ Rest(U) # T
               /\ SumsWithin(f, Rest(U), G(Rest(U)))
               /\ IsFiniteSet(Rest(U))
    <3>1. Rest(U) \in SUBSET T /\ Rest(U) # T
      BY <2>1, ChosenIsIn
    <3>2. Rest(U) \in Q
      BY <1>1, <3>1
    <3>3. IsFiniteSet(Rest(U))
      BY <3>1, FS_Subset
    <3> QED
      BY <3>1, <3>2, <3>3
  <2>2. ASSUME NEW U \in SUBSET T, U # {}
        PROVE  h[Rest(U)] = G(Rest(U))[Rest(U)]
    <3> DEFINE V == Rest(U)
    <3>1. V \in SUBSET T /\ SumsWithin(f, V, G(V))
      BY <2>1, <2>2
    <3>2. G(V)[V] = IF V = {} THEN 0 ELSE f[Chosen(V)] + G(V)[Rest(V)]
      BY <3>1 DEF SumsWithin
    <3>3. CASE V = {}
      BY <3>1, <3>2, <3>3
    <3>4. CASE V # {}
      <4>1. /\ SumsWithin(f, Rest(V), G(Rest(V)))
            /\ IsFiniteSet(Rest(V))
        BY <2>1, <3>1, <3>4
      <4>2. G(V)[Rest(V)] = G(Rest(V))[Rest(V)]
        BY <3>1, <4>1, SumsAgree, Rest(V) \in SUBSET V, Rest(V) \in SUBSET Rest(V)
      <4>3. h[V] = f[Chosen(V)] + G(Rest(V))[Rest(V)]
        BY <3>1, <3>4
      <4>4. G(V)[V] = f[Chosen(V)] + G(Rest(V))[Rest(V)]
        BY <3>2, <3>4, <4>2
      <4> QED
        BY <4>3, <4>4
    <3> QED
      BY <3>3, <3>4
  <2>3. h = [U \in SUBSET T |-> IF U = {} THEN 0 ELSE f[Chosen(U)] + h[Rest(U)]]
    <3>1. ASSUME NEW U \in SUBSET T
          PROVE  Sum(U) = IF U = {} THEN 0 ELSE f[Chosen(U)] + h[Rest(U)]
      <4>1. U # {} => h[Rest(U)] = G(Rest(U))[Rest(U)]
        BY <2>2
      <4> HIDE DEF h, Rest
      <4> QED
        BY <4>1
    <3> HIDE DEF Sum
    <3> QED
      BY <3>1
  <2>4. SumsWithin(f, T, h)
    BY <2>3 DEF SumsWithin
  <2> QED
    BY <2>4
<1> HIDE DEF Q
<1>2. S \in Q
  BY <1>1, SubsetInduction
<1> QED
  BY <1>2 DEF Q

\* The sums within a set are the sums over its subsets.
LEMMA SumsAreOver ==
  ASSUME NEW f, NEW S, IsFiniteSet(S), NEW g, SumsWithin(f, S, g), NEW T \in SUBSET S
  PROVE  g[T] = SumOver(f, T)
<1> DEFINE h == CHOOSE k : SumsWithin(f, T, k)
<1>1. IsFiniteSet(T)
  BY FS_Subset
<1>2. SumsWithin(f, T, h)
  BY <1>1, SumsExist
<1>3. g[T] = h[T]
  BY <1>1, <1>2, SumsAgree, T \in SUBSET T
<1> QED
  BY <1>3 DEF SumOver

\* The sum over no element, and over one after the others.
LEMMA SumOfNone == ASSUME NEW f PROVE SumOver(f, {}) = 0
<1>1. IsFiniteSet({})
  BY FS_EmptySet
<1>2. PICK g : SumsWithin(f, {}, g)
  BY <1>1, SumsExist
<1>3. g[{}] = 0
  BY <1>2 DEF SumsWithin
<1> QED
  BY <1>1, <1>2, <1>3, SumsAreOver

LEMMA SumOfFirst ==
  ASSUME NEW f, NEW S, IsFiniteSet(S), S # {}
  PROVE  SumOver(f, S) = f[Chosen(S)] + SumOver(f, S \ {Chosen(S)})
<1> DEFINE R == S \ {Chosen(S)}
<1>1. PICK g : SumsWithin(f, S, g)
  BY SumsExist
<1>2. g[S] = f[Chosen(S)] + g[R]
  BY <1>1 DEF SumsWithin
<1>3. g[S] = SumOver(f, S)
  BY <1>1, SumsAreOver, S \in SUBSET S
<1>4. g[R] = SumOver(f, R)
  BY <1>1, SumsAreOver, R \in SUBSET S
<1> QED
  BY <1>2, <1>3, <1>4

\* A sum of integers is one, and of naturals too.
LEMMA SumIsInt ==
  ASSUME NEW f, NEW S, IsFiniteSet(S), \A x \in S : f[x] \in Int
  PROVE  SumOver(f, S) \in Int
<1> DEFINE Q == {T \in SUBSET S : SumOver(f, T) \in Int}
<1>1. ASSUME NEW T \in SUBSET S, \A U \in SUBSET T : U # T => U \in Q
      PROVE  T \in Q
  <2>1. CASE T = {}
    BY <2>1, SumOfNone
  <2>2. CASE T # {}
    <3>1. Chosen(T) \in T /\ IsFiniteSet(T)
      BY <2>2, ChosenIsIn, FS_Subset
    <3>2. T \ {Chosen(T)} \in Q
      BY <1>1, <3>1, T \ {Chosen(T)} \in SUBSET T
    <3> QED
      BY <2>2, <3>1, <3>2, SumOfFirst
  <2> QED
    BY <2>1, <2>2
<1> HIDE DEF Q
<1>2. S \in Q
  BY <1>1, SubsetInduction
<1> QED
  BY <1>2 DEF Q

LEMMA SumIsNat ==
  ASSUME NEW f, NEW S, IsFiniteSet(S), \A x \in S : f[x] \in Nat
  PROVE  SumOver(f, S) \in Nat
<1> DEFINE Q == {T \in SUBSET S : SumOver(f, T) \in Nat}
<1>1. ASSUME NEW T \in SUBSET S, \A U \in SUBSET T : U # T => U \in Q
      PROVE  T \in Q
  <2>1. CASE T = {}
    BY <2>1, SumOfNone
  <2>2. CASE T # {}
    <3>1. Chosen(T) \in T /\ IsFiniteSet(T)
      BY <2>2, ChosenIsIn, FS_Subset
    <3>2. T \ {Chosen(T)} \in Q
      BY <1>1, <3>1, T \ {Chosen(T)} \in SUBSET T
    <3> QED
      BY <2>2, <3>1, <3>2, SumOfFirst
  <2> QED
    BY <2>1, <2>2
<1> HIDE DEF Q
<1>2. S \in Q
  BY <1>1, SubsetInduction
<1> QED
  BY <1>2 DEF Q

\* Any element may be taken first: the order of a sum does not matter.
LEMMA SumWithout ==
  ASSUME NEW f, NEW S, IsFiniteSet(S), \A x \in S : f[x] \in Int, NEW e \in S
  PROVE  SumOver(f, S) = f[e] + SumOver(f, S \ {e})
<1> DEFINE Q == {T \in SUBSET S : \A x \in T : SumOver(f, T) = f[x] + SumOver(f, T \ {x})}
<1>1. ASSUME NEW T \in SUBSET S, \A U \in SUBSET T : U # T => U \in Q
      PROVE  T \in Q
  <2> SUFFICES ASSUME NEW x \in T PROVE SumOver(f, T) = f[x] + SumOver(f, T \ {x})
    OBVIOUS
  <2> DEFINE y == Chosen(T)
  <2>1. y \in T /\ IsFiniteSet(T)
    BY ChosenIsIn, FS_Subset
  <2>2. SumOver(f, T) = f[y] + SumOver(f, T \ {y})
    BY <2>1, SumOfFirst
  <2> HIDE DEF y
  <2>3. CASE x = y
    BY <2>2, <2>3
  <2>4. CASE x # y
    <3> DEFINE R == T \ {x, y}
    <3>1. /\ (T \ {y}) \ {x} = R
          /\ (T \ {x}) \ {y} = R
          /\ x \in T \ {y}
          /\ y \in T \ {x}
      BY <2>1, <2>4
    <3>2. T \ {y} \in Q /\ T \ {x} \in Q
      BY <1>1, <2>1
    <3>3. SumOver(f, T \ {y}) = f[x] + SumOver(f, R)
      BY <3>1, <3>2
    <3>4. SumOver(f, T \ {x}) = f[y] + SumOver(f, R)
      BY <3>1, <3>2
    <3>5. SumOver(f, R) \in Int /\ f[x] \in Int /\ f[y] \in Int
      <4>1. R \in SUBSET S /\ IsFiniteSet(R)
        BY FS_Subset
      <4> QED
        BY <2>1, <4>1, SumIsInt
    <3> QED
      BY <2>2, <3>3, <3>4, <3>5
  <2> QED
    BY <2>3, <2>4
<1> HIDE DEF Q
<1>2. S \in Q
  BY <1>1, SubsetInduction
<1> QED
  BY <1>2 DEF Q

\* Functions that are the same on a set have the same sum over it.
LEMMA SumOfSame ==
  ASSUME NEW f, NEW g, NEW S, IsFiniteSet(S), \A x \in S : f[x] = g[x]
  PROVE  SumOver(f, S) = SumOver(g, S)
<1> DEFINE Q == {T \in SUBSET S : SumOver(f, T) = SumOver(g, T)}
<1>1. ASSUME NEW T \in SUBSET S, \A U \in SUBSET T : U # T => U \in Q
      PROVE  T \in Q
  <2>1. CASE T = {}
    BY <2>1, SumOfNone
  <2>2. CASE T # {}
    <3>1. Chosen(T) \in T /\ IsFiniteSet(T)
      BY <2>2, ChosenIsIn, FS_Subset
    <3>2. T \ {Chosen(T)} \in Q
      BY <1>1, <3>1, T \ {Chosen(T)} \in SUBSET T
    <3>3. SumOver(f, T) = f[Chosen(T)] + SumOver(f, T \ {Chosen(T)})
      BY <2>2, <3>1, SumOfFirst
    <3>4. SumOver(g, T) = g[Chosen(T)] + SumOver(g, T \ {Chosen(T)})
      BY <2>2, <3>1, SumOfFirst
    <3> QED
      BY <3>1, <3>2, <3>3, <3>4
  <2> QED
    BY <2>1, <2>2
<1> HIDE DEF Q
<1>2. S \in Q
  BY <1>1, SubsetInduction
<1> QED
  BY <1>2 DEF Q

\* The sum over one element.
LEMMA SumOfOne == ASSUME NEW f, NEW e, f[e] \in Int PROVE SumOver(f, {e}) = f[e]
<1>1. IsFiniteSet({e}) /\ {e} \ {e} = {}
  BY FS_Singleton
<1>2. SumOver(f, {e}) = f[e] + SumOver(f, {e} \ {e})
  BY <1>1, SumWithout
<1> QED
  BY <1>1, <1>2, SumOfNone

\* A sum of naturals is at least each of them.
LEMMA SumIsAtLeast ==
  ASSUME NEW f, NEW S, IsFiniteSet(S), \A x \in S : f[x] \in Nat, NEW e \in S
  PROVE  SumOver(f, S) >= f[e]
<1>1. SumOver(f, S) = f[e] + SumOver(f, S \ {e})
  BY SumWithout
<1>2. IsFiniteSet(S \ {e})
  BY FS_Subset, S \ {e} \in SUBSET S
<1>3. SumOver(f, S \ {e}) \in Nat
  BY <1>2, SumIsNat
<1> QED
  BY <1>1, <1>3

\* A sum over two sets that have nothing in common is that of their sums.
LEMMA SumOfUnion ==
  ASSUME NEW f, NEW S, NEW R, IsFiniteSet(S), IsFiniteSet(R), S \cap R = {},
         \A x \in S \cup R : f[x] \in Int
  PROVE  SumOver(f, S \cup R) = SumOver(f, S) + SumOver(f, R)
<1> DEFINE Q == {T \in SUBSET S : SumOver(f, T \cup R) = SumOver(f, T) + SumOver(f, R)}
<1>1. ASSUME NEW T \in SUBSET S, \A U \in SUBSET T : U # T => U \in Q
      PROVE  T \in Q
  <2>1. SumOver(f, R) \in Int
    BY SumIsInt
  <2>2. CASE T = {}
    BY <2>1, <2>2, SumOfNone
  <2>3. CASE T # {}
    <3>1. PICK x : x \in T
      BY <2>3
    <3> DEFINE U == T \ {x}
    <3>2. U \in Q
      BY <1>1, <3>1
    <3>3. IsFiniteSet(T) /\ IsFiniteSet(U) /\ IsFiniteSet(T \cup R)
      BY FS_Subset, FS_Union
    <3>4. (T \cup R) \ {x} = U \cup R /\ x \in T \cup R /\ T \cup R \subseteq S \cup R
      BY <3>1
    <3>5. SumOver(f, T \cup R) = f[x] + SumOver(f, U \cup R)
      BY <3>3, <3>4, SumWithout
    <3>6. SumOver(f, T) = f[x] + SumOver(f, U)
      BY <3>1, <3>3, SumWithout
    <3>7. SumOver(f, U) \in Int /\ f[x] \in Int
      BY <3>1, <3>3, SumIsInt
    <3> QED
      BY <3>2, <3>5, <3>6, <3>7, <2>1
  <2> QED
    BY <2>2, <2>3
<1> HIDE DEF Q
<1>2. S \in Q
  BY <1>1, SubsetInduction
<1> QED
  BY <1>2 DEF Q

\* A sum of naturals is at least that over fewer of them.
LEMMA SumOfFewer ==
  ASSUME NEW f, NEW S, IsFiniteSet(S), \A x \in S : f[x] \in Nat, NEW T \in SUBSET S
  PROVE  SumOver(f, T) <= SumOver(f, S)
<1>1. IsFiniteSet(T) /\ IsFiniteSet(S \ T)
  BY FS_Subset, S \ T \in SUBSET S
<1>2. T \cup (S \ T) = S /\ T \cap (S \ T) = {}
  OBVIOUS
<1>3. SumOver(f, S) = SumOver(f, T) + SumOver(f, S \ T)
  <2> DEFINE R == S \ T
  <2>1. \A x \in T \cup R : f[x] \in Int
    OBVIOUS
  <2>2. IsFiniteSet(R) /\ T \cup R = S /\ T \cap R = {}
    BY <1>1
  <2> HIDE DEF R
  <2>3. SumOver(f, T \cup R) = SumOver(f, T) + SumOver(f, R)
    BY <1>1, <2>1, <2>2, SumOfUnion
  <2> QED
    BY <2>2, <2>3 DEF R
<1>4. SumOver(f, T) \in Nat /\ SumOver(f, S \ T) \in Nat
  BY <1>1, SumIsNat
<1> QED
  BY <1>3, <1>4

\* A sum of nothing but zeros is zero.
LEMMA SumOfZeros ==
  ASSUME NEW f, NEW S, IsFiniteSet(S), \A x \in S : f[x] = 0
  PROVE  SumOver(f, S) = 0
<1> DEFINE Q == {T \in SUBSET S : SumOver(f, T) = 0}
<1>1. ASSUME NEW T \in SUBSET S, \A U \in SUBSET T : U # T => U \in Q
      PROVE  T \in Q
  <2>1. CASE T = {}
    BY <2>1, SumOfNone
  <2>2. CASE T # {}
    <3>1. Chosen(T) \in T /\ IsFiniteSet(T)
      BY <2>2, ChosenIsIn, FS_Subset
    <3>2. T \ {Chosen(T)} \in Q
      BY <1>1, <3>1, T \ {Chosen(T)} \in SUBSET T
    <3> QED
      BY <2>2, <3>1, <3>2, SumOfFirst
  <2> QED
    BY <2>1, <2>2
<1> HIDE DEF Q
<1>2. S \in Q
  BY <1>1, SubsetInduction
<1> QED
  BY <1>2 DEF Q

\* A sum with one element that is one more is one more.
LEMMA SumOfOneMore ==
  ASSUME NEW f, NEW g, NEW S, IsFiniteSet(S), \A x \in S : f[x] \in Int, NEW e \in S,
         g[e] = f[e] + 1, \A x \in S : x # e => g[x] = f[x]
  PROVE  SumOver(g, S) = SumOver(f, S) + 1
<1> DEFINE R == S \ {e}
<1>1. \A x \in S : g[x] \in Int
  OBVIOUS
<1>2. SumOver(f, S) = f[e] + SumOver(f, R)
  BY SumWithout
<1>3. SumOver(g, S) = g[e] + SumOver(g, R)
  BY <1>1, SumWithout
<1>4. IsFiniteSet(R) /\ (\A x \in R : f[x] \in Int) /\ \A x \in R : f[x] = g[x]
  BY FS_Subset, R \in SUBSET S
<1> HIDE DEF R
<1>5. SumOver(f, R) = SumOver(g, R) /\ SumOver(f, R) \in Int
  BY <1>4, SumOfSame, SumIsInt
<1> QED
  BY <1>2, <1>3, <1>5
\* The images of a set are as many as its elements, and so are the terms of a
\* sum over them.
ImageOf(h, S) == {h[x] : x \in S}

LEMMA SumOfImages ==
  ASSUME NEW S, IsFiniteSet(S), NEW h, \A x, y \in S : h[x] = h[y] => x = y
  PROVE  /\ IsFiniteSet(ImageOf(h, S))
         /\ \A f, g : (\A x \in S : f[h[x]] \in Int /\ g[x] = f[h[x]])
                        => SumOver(f, ImageOf(h, S)) = SumOver(g, S)
<1> DEFINE I(T) == ImageOf(h, T)
           Same(f, g) == \A x \in S : f[h[x]] \in Int /\ g[x] = f[h[x]]
           Q == {T \in SUBSET S : /\ IsFiniteSet(I(T))
                                  /\ \A f, g : Same(f, g) => SumOver(f, I(T)) = SumOver(g, T)}
<1>1. ASSUME NEW T \in SUBSET S, \A U \in SUBSET T : U # T => U \in Q
      PROVE  T \in Q
  <2>1. CASE T = {}
    <3>1. I(T) = {} /\ IsFiniteSet({})
      BY <2>1, FS_EmptySet DEF ImageOf
    <3> QED
      BY <2>1, <3>1, SumOfNone
  <2>2. CASE T # {}
    <3>1. PICK x : x \in T
      BY <2>2
    <3> DEFINE U == T \ {x}
               all == I(T)
               rest == I(U)
               e == h[x]
    <3>2. U \in Q
      BY <1>1, <3>1
    <3>3. /\ IsFiniteSet(T) /\ IsFiniteSet(rest) /\ all = rest \cup {e} /\ e \notin rest
          /\ \A y \in all : \E z \in S : y = h[z]
      BY <3>1, <3>2, FS_Subset DEF ImageOf
    <3>4. \A f, g : Same(f, g) => SumOver(f, rest) = SumOver(g, U)
      BY <3>2
    <3>5. T \in Q <=> /\ IsFiniteSet(all)
                      /\ \A f, g : Same(f, g) => SumOver(f, all) = SumOver(g, T)
      OBVIOUS
    <3> HIDE DEF all, rest, e, Q
    <3>6. IsFiniteSet(all) /\ all \ {e} = rest /\ e \in all
      BY <3>3, FS_AddElement
    <3>7. ASSUME NEW f, NEW g, Same(f, g) PROVE SumOver(f, all) = SumOver(g, T)
      <4>1. f[e] = g[x] /\ (\A y \in all : f[y] \in Int) /\ \A y \in T : g[y] \in Int
        BY <3>1, <3>3, <3>7 DEF e
      <4>2. SumOver(f, all) = f[e] + SumOver(f, all \ {e})
        BY <3>6, <4>1, SumWithout
      <4>3. SumOver(g, T) = g[x] + SumOver(g, U)
        BY <3>1, <3>3, <4>1, SumWithout
      <4> HIDE DEF U, Same
      <4>4. SumOver(f, rest) = SumOver(g, U)
        BY <3>4, <3>7
      <4> QED
        BY <3>6, <4>1, <4>2, <4>3, <4>4
    <3> QED
      BY <3>5, <3>6, <3>7
  <2> QED
    BY <2>1, <2>2
<1> HIDE DEF Q
<1>2. S \in Q
  BY <1>1, SubsetInduction
<1> QED
  BY <1>2 DEF Q
=============================================================================
