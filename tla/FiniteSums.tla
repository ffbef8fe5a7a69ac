----------------------------- MODULE FiniteSums -----------------------------
(***************************************************************************)
(* Lemmas about numbers and finite sets that the proofs of the other       *)
(* modules need: least elements, least sets, and the sum of a function     *)
(* over a finite set, as SumFunctionOnSet of Functions.tla computes it.    *)
(* Each argument by induction is one about a least counterexample.         *)
(***************************************************************************)
EXTENDS Integers, Functions, FiniteSetTheorems, TLAPS

(* A set of natural numbers that is not empty has a least element.         *)
LEMMA LeastNumber ==
  ASSUME NEW S \in SUBSET Nat, S # {}
  PROVE  \E m \in S : \A n \in S : m <= n
<1>1. IsWellFoundedOn(OpToRel(<, Nat), Nat)
  BY NatLessThanWellFounded
<1>2. PICK m \in S : \A n \in S : ~ (<<n, m>> \in OpToRel(<, Nat))
  BY <1>1, WFMin
<1>3. \A n \in S : ~ (n < m)
  BY <1>2 DEF OpToRel
<1> QED BY <1>3

(* A family of subsets of a finite set, if not empty, has a member of      *)
(* which no other member is a part.                                        *)
LEMMA LeastSubset ==
  ASSUME NEW S, IsFiniteSet(S), NEW F \in SUBSET SUBSET S, F # {}
  PROVE  \E U \in F : \A V \in F : V \subseteq U => V = U
<1>1. FiniteSubsetsOf(S) = SUBSET S
  BY FS_FiniteSubsetsOfFinite
<1>2. PICK U \in F : \A V \in F : <<V, U>> \notin StrictSubsetOrdering(S)
  BY <1>1, FS_StrictSubsetOrderingWellFounded, WFMin
<1>3. SUFFICES ASSUME NEW V \in F, V \subseteq U, V # U PROVE FALSE
  BY <1>2
<1>4. <<V, U>> \in StrictSubsetOrdering(S)
  BY <1>3 DEF StrictSubsetOrdering
<1> QED BY <1>2, <1>4

-----------------------------------------------------------------------------
(* The table of the partial sums that SumFunctionOnSet makes.              *)
Chosen(U) == CHOOSE x \in U : TRUE
Added(fn, g, U) == IF U = {} THEN 0 ELSE fn[Chosen(U)] + g[U \ {Chosen(U)}]
IsPartialSums(g, fn, S) == g = [U \in SUBSET S |-> Added(fn, g, U)]
Sum(fn, S) == SumFunctionOnSet(fn, S)

(* The sum is the entry of the whole set in such a table.                  *)
LEMMA SumIsEntry ==
  ASSUME NEW fn, NEW S
  PROVE  Sum(fn, S) = (CHOOSE g : IsPartialSums(g, fn, S))[S]
BY Zenon DEF Sum, SumFunctionOnSet, FoldFunctionOnSet, MapThenFoldSet, IsPartialSums, Added, Chosen

(* Over a finite set there is such a table: it can be filled in by the     *)
(* size of the subsets.                                                    *)
LEMMA PartialSumsExist ==
  ASSUME NEW fn, NEW S, IsFiniteSet(S)
  PROVE  \E g : IsPartialSums(g, fn, S)
<1> DEFINE UpTo(g, n) == \A U \in SUBSET S : Cardinality(U) <= n => g[U] = Added(fn, g, U)
           Fills(n) == \E g : UpTo(g, n)
           Bad == {n \in Nat : ~Fills(n)}
<1>1. \A U \in SUBSET S : IsFiniteSet(U) /\ Cardinality(U) \in Nat
                          /\ Cardinality(U) <= Cardinality(S)
  BY FS_Subset, FS_CardinalityType
<1>2. Fills(0)
  <2>1. UpTo([U \in SUBSET S |-> 0], 0)
    BY <1>1, FS_EmptySet DEF Added
  <2> QED BY <2>1
<1>3. ASSUME NEW n \in Nat, Fills(n) PROVE Fills(n + 1)
  <2>1. PICK g : UpTo(g, n)
    BY <1>3
  <2> DEFINE h == [U \in SUBSET S |-> Added(fn, g, U)]
  <2>2. SUFFICES ASSUME NEW U \in SUBSET S, Cardinality(U) <= n + 1, U # {}
                 PROVE  h[U \ {Chosen(U)}] = g[U \ {Chosen(U)}]
    <3>1. UpTo(h, n + 1)
      BY <2>2 DEF Added
    <3> QED BY <3>1
  <2>3. Chosen(U) \in U
    BY <2>2 DEF Chosen
  <2>4. Cardinality(U \ {Chosen(U)}) = Cardinality(U) - 1
    BY <2>2, <2>3, <1>1, FS_RemoveElement
  <2>5. Cardinality(U \ {Chosen(U)}) <= n /\ U \ {Chosen(U)} \in SUBSET S
    BY <1>1, <2>2, <2>4
  <2> HIDE DEF h
  <2>6. h[U \ {Chosen(U)}] = Added(fn, g, U \ {Chosen(U)})
    BY <2>5 DEF h
  <2> QED BY <2>1, <2>5, <2>6
<1>4. Bad = {}
  <2>1. SUFFICES ASSUME Bad # {} PROVE FALSE
    OBVIOUS
  <2> HIDE DEF Fills
  <2>2. PICK m \in Bad : \A n \in Bad : m <= n
    BY <2>1, LeastNumber
  <2>3. m # 0 /\ m - 1 \in Nat /\ m - 1 \notin Bad
    BY <1>2, <2>2
  <2> QED BY <1>3, <2>2, <2>3
<1>5. PICK g : UpTo(g, Cardinality(S))
  BY <1>1, <1>4
<1>6. IsPartialSums([U \in SUBSET S |-> g[U]], fn, S)
  <2>1. ASSUME NEW U \in SUBSET S
        PROVE  g[U] = Added(fn, [V \in SUBSET S |-> g[V]], U)
    <3>1. g[U] = Added(fn, g, U)
      BY <1>1, <1>5
    <3>2. U \ {Chosen(U)} \in SUBSET S
      OBVIOUS
    <3> QED BY <3>1, <3>2 DEF Added
  <2> QED BY <2>1 DEF IsPartialSums
<1> QED BY <1>6

(* The table over a finite set.                                            *)
PartialSums(fn, S) == CHOOSE g : IsPartialSums(g, fn, S)

(* Each of its entries is the sum of one value and of an earlier entry.    *)
LEMMA PartialSumLaw ==
  ASSUME NEW fn, NEW S, IsFiniteSet(S), NEW U \in SUBSET S
  PROVE  PartialSums(fn, S)[U] = Added(fn, PartialSums(fn, S), U)
<1>1. IsPartialSums(PartialSums(fn, S), fn, S)
  BY PartialSumsExist DEF PartialSums
<1> HIDE DEF PartialSums
<1> QED BY <1>1 DEF IsPartialSums

(* Functions that agree on a set have the same partial sums there,         *)
(* whatever larger sets the tables were made for.                          *)
LEMMA PartialSumsAgree ==
  ASSUME NEW S, IsFiniteSet(S), NEW T, IsFiniteSet(T), NEW U \in SUBSET (S \cap T),
         NEW fn, NEW fm, \A x \in U : fn[x] = fm[x]
  PROVE  PartialSums(fn, S)[U] = PartialSums(fm, T)[U]
<1> DEFINE Bad == {V \in SUBSET U : PartialSums(fn, S)[V] # PartialSums(fm, T)[V]}
<1>1. IsFiniteSet(U)
  BY FS_Subset
<1>2. SUFFICES ASSUME Bad # {} PROVE FALSE
  OBVIOUS
<1>3. PICK V \in Bad : \A W \in Bad : W \subseteq V => W = V
  <2>1. Bad \in SUBSET SUBSET U
    OBVIOUS
  <2> HIDE DEF Bad
  <2> QED BY <1>1, <1>2, <2>1, LeastSubset
<1>4. /\ PartialSums(fn, S)[V] = Added(fn, PartialSums(fn, S), V)
      /\ PartialSums(fm, T)[V] = Added(fm, PartialSums(fm, T), V)
  BY PartialSumLaw
<1>5. V # {}
  BY <1>3, <1>4 DEF Added
<1>6. Chosen(V) \in V
  BY <1>5 DEF Chosen
<1>7. V \ {Chosen(V)} \notin Bad /\ V \ {Chosen(V)} \in SUBSET U
  BY <1>3, <1>6
<1>8. PartialSums(fn, S)[V \ {Chosen(V)}] = PartialSums(fm, T)[V \ {Chosen(V)}]
  BY <1>7
<1>9. fn[Chosen(V)] = fm[Chosen(V)]
  BY <1>3, <1>6
<1> QED BY <1>3, <1>4, <1>5, <1>8, <1>9 DEF Added

-----------------------------------------------------------------------------
(* What the sum of a function over a finite set is.                        *)

(* A sum depends on the values of the function there only.                 *)
LEMMA SumOfSame ==
  ASSUME NEW S, IsFiniteSet(S), NEW fn, NEW fm, \A x \in S : fn[x] = fm[x]
  PROVE  Sum(fn, S) = Sum(fm, S)
<1>1. PartialSums(fn, S)[S] = PartialSums(fm, S)[S]
  BY PartialSumsAgree
<1> QED BY <1>1, SumIsEntry DEF PartialSums

(* Nothing adds up to zero.                                                *)
LEMMA SumOfNone == ASSUME NEW fn PROVE Sum(fn, {}) = 0
BY PartialSumLaw, SumIsEntry, FS_EmptySet DEF PartialSums, Added

(* The sum is that of one element and of the others.                       *)
LEMMA SumOfChosen ==
  ASSUME NEW S, IsFiniteSet(S), S # {}, NEW fn
  PROVE  Chosen(S) \in S /\ Sum(fn, S) = fn[Chosen(S)] + Sum(fn, S \ {Chosen(S)})
<1> DEFINE R == S \ {Chosen(S)}
<1>1. Chosen(S) \in S
  BY DEF Chosen
<1>2. IsFiniteSet(R) /\ R \in SUBSET S
  BY FS_Subset
<1>3. PartialSums(fn, S)[S] = Added(fn, PartialSums(fn, S), S)
  BY PartialSumLaw
<1>4. PartialSums(fn, S)[R] = PartialSums(fn, R)[R]
  BY <1>2, PartialSumsAgree
<1>5. Sum(fn, S) = PartialSums(fn, S)[S] /\ Sum(fn, R) = PartialSums(fn, R)[R]
  BY SumIsEntry DEF PartialSums
<1> QED BY <1>1, <1>3, <1>4, <1>5 DEF Added

(* A sum of integers is an integer, and one of natural numbers is natural. *)
LEMMA SumIsNumber ==
  ASSUME NEW S, IsFiniteSet(S), NEW N \in {Nat, Int}, NEW fn, \A x \in S : fn[x] \in N
  PROVE  Sum(fn, S) \in N
<1> DEFINE Bad == {U \in SUBSET S : Sum(fn, U) \notin N}
<1>1. SUFFICES ASSUME Bad # {} PROVE FALSE
  OBVIOUS
<1>2. PICK U \in Bad : \A V \in Bad : V \subseteq U => V = U
  <2>1. Bad \in SUBSET SUBSET S
    OBVIOUS
  <2> HIDE DEF Bad
  <2> QED BY <1>1, <2>1, LeastSubset
<1>3. U # {}
  <2>1. Sum(fn, {}) = 0
    BY SumOfNone
  <2>2. 0 \in N
    OBVIOUS
  <2>3. Sum(fn, U) \notin N
    BY <1>2
  <2> QED BY <2>1, <2>2, <2>3
<1>4. Chosen(U) \in U /\ Sum(fn, U) = fn[Chosen(U)] + Sum(fn, U \ {Chosen(U)})
  BY <1>3, SumOfChosen, FS_Subset
<1>5. U \ {Chosen(U)} \notin Bad /\ U \ {Chosen(U)} \in SUBSET S
  BY <1>2, <1>4
<1> QED BY <1>2, <1>4, <1>5

(* One element more adds its value, whichever element it is.               *)
LEMMA SumOfOneMore ==
  ASSUME NEW S, IsFiniteSet(S), NEW x \in S, NEW fn, \A y \in S : fn[y] \in Int
  PROVE  Sum(fn, S) = fn[x] + Sum(fn, S \ {x})
<1> DEFINE Wrong(U, y) == Sum(fn, U) # fn[y] + Sum(fn, U \ {y})
           Bad == {U \in SUBSET S : \E y \in U : Wrong(U, y)}
<1>1. SUFFICES ASSUME Bad # {} PROVE FALSE
  OBVIOUS
<1>2. PICK U \in Bad : \A V \in Bad : V \subseteq U => V = U
  <2>1. Bad \in SUBSET SUBSET S
    OBVIOUS
  <2> HIDE DEF Bad
  <2> QED BY <1>1, <2>1, LeastSubset
<1>3. PICK y \in U : Wrong(U, y)
  BY <1>2
<1>4. \A V \in SUBSET U : IsFiniteSet(V) /\ Sum(fn, V) \in Int
  <2>1. ASSUME NEW V \in SUBSET U PROVE IsFiniteSet(V) /\ Sum(fn, V) \in Int
    <3>1. IsFiniteSet(V) /\ \A z \in V : fn[z] \in Int
      BY FS_Subset
    <3> QED BY <3>1, SumIsNumber
  <2> QED BY <2>1
<1> DEFINE c == Chosen(U)
           R == U \ {c}
<1>5. c \in U /\ Sum(fn, U) = fn[c] + Sum(fn, R)
  BY <1>3, <1>4, SumOfChosen
<1>6. c # y
  BY <1>3, <1>5
<1>7. Sum(fn, R) = fn[y] + Sum(fn, R \ {y})
  BY <1>2, <1>5, <1>6
<1>8. Sum(fn, U \ {y}) = fn[c] + Sum(fn, R \ {y})
  <2>1. Sum(fn, U \ {y}) = fn[c] + Sum(fn, (U \ {y}) \ {c})
    BY <1>2, <1>5, <1>6
  <2>2. (U \ {y}) \ {c} = R \ {y}
    OBVIOUS
  <2> QED BY <2>1, <2>2
<1>9. Sum(fn, U) # fn[y] + Sum(fn, U \ {y})
  BY <1>3
<1>10. fn[c] \in Int /\ fn[y] \in Int /\ Sum(fn, R \ {y}) \in Int
  BY <1>4, <1>5
<1> HIDE DEF c, R, Wrong, Bad
<1> QED BY <1>5, <1>7, <1>8, <1>9, <1>10

(* A change of one value changes the sum by as much.                       *)
LEMMA SumOfChange ==
  ASSUME NEW S, IsFiniteSet(S), NEW x \in S,
         NEW fn, \A y \in S : fn[y] \in Int, NEW fm, \A y \in S : fm[y] \in Int,
         \A y \in S \ {x} : fm[y] = fn[y]
  PROVE  Sum(fm, S) = Sum(fn, S) - fn[x] + fm[x]
<1> DEFINE R == S \ {x}
<1>1. IsFiniteSet(R) /\ \A y \in R : fn[y] \in Int
  BY FS_Subset
<1>2. Sum(fm, R) = Sum(fn, R) /\ Sum(fn, R) \in Int
  BY <1>1, SumOfSame, SumIsNumber
<1>3. Sum(fn, S) = fn[x] + Sum(fn, R) /\ Sum(fm, S) = fm[x] + Sum(fm, R)
  BY SumOfOneMore
<1> HIDE DEF R
<1> QED BY <1>2, <1>3

(* A part of the set has no larger a sum, when no value is negative.       *)
LEMMA SumOfPart ==
  ASSUME NEW S, IsFiniteSet(S), NEW T \in SUBSET S, NEW fn, \A x \in S : fn[x] \in Nat
  PROVE  Sum(fn, T) <= Sum(fn, S)
<1> DEFINE Bad == {U \in SUBSET S : T \subseteq U /\ ~ (Sum(fn, T) <= Sum(fn, U))}
<1>1. SUFFICES ASSUME Bad # {} PROVE FALSE
  OBVIOUS
<1>2. PICK U \in Bad : \A V \in Bad : V \subseteq U => V = U
  <2>1. Bad \in SUBSET SUBSET S
    OBVIOUS
  <2> HIDE DEF Bad
  <2> QED BY <1>1, <2>1, LeastSubset
<1>3. \A V \in SUBSET S : IsFiniteSet(V) /\ Sum(fn, V) \in Nat
  <2>1. ASSUME NEW V \in SUBSET S PROVE IsFiniteSet(V) /\ Sum(fn, V) \in Nat
    <3>1. IsFiniteSet(V) /\ \A z \in V : fn[z] \in Nat
      BY FS_Subset
    <3> QED BY <3>1, SumIsNumber
  <2> QED BY <2>1
<1>4. PICK x \in U : x \notin T
  <2>1. Sum(fn, T) <= Sum(fn, T)
    BY <1>3
  <2>2. U # T /\ T \subseteq U
    BY <1>2, <2>1
  <2> QED BY <2>2
<1>5. U \ {x} \notin Bad /\ U \ {x} \in SUBSET S /\ T \subseteq U \ {x}
  BY <1>2, <1>4
<1>6. IsFiniteSet(U) /\ \A y \in U : fn[y] \in Int
  BY <1>3
<1>7. Sum(fn, U) = fn[x] + Sum(fn, U \ {x})
  BY <1>6, SumOfOneMore
<1> QED BY <1>2, <1>3, <1>5, <1>7

(* Nothing but zeros add up to zero.                                       *)
LEMMA SumOfZeros ==
  ASSUME NEW S, IsFiniteSet(S), NEW fn, \A x \in S : fn[x] = 0
  PROVE  Sum(fn, S) = 0
<1> DEFINE Bad == {U \in SUBSET S : Sum(fn, U) # 0}
<1>1. SUFFICES ASSUME Bad # {} PROVE FALSE
  OBVIOUS
<1>2. PICK U \in Bad : \A V \in Bad : V \subseteq U => V = U
  <2>1. Bad \in SUBSET SUBSET S
    OBVIOUS
  <2> HIDE DEF Bad
  <2> QED BY <1>1, <2>1, LeastSubset
<1>3. U # {}
  BY <1>2, SumOfNone
<1>4. Chosen(U) \in U /\ Sum(fn, U) = fn[Chosen(U)] + Sum(fn, U \ {Chosen(U)})
  BY <1>3, SumOfChosen, FS_Subset
<1>5. Sum(fn, U \ {Chosen(U)}) = 0
  BY <1>2, <1>4
<1> QED BY <1>2, <1>4, <1>5
=============================================================================
