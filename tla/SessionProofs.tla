--------------------------- MODULE SessionProofs ---------------------------
(***************************************************************************)
(* Theorems about Session, for any agents, work, dependencies and limits.  *)
(*                                                                         *)
(* The safety properties are not inductive one by one: that a reservation  *)
(* dies with its lease (ReservationsBacked) is what makes a publication    *)
(* that completes the run leave nothing reserved, that no ready work has   *)
(* an unknown call (UnknownNotOffered) needs the uncertain rows to be      *)
(* explained by one, and so on.                                            *)
(*                                                                         *)
(* LedgerInv is the part of the argument every layer above shares.  It is  *)
(* kept by LedgerNext, which is what any transaction of any layer that     *)
(* only runs code of the base class does to the base tables; a layer's own *)
(* proof then deals with its own writes.  IInv adds what holds of the base *)
(* ledger by itself.                                                       *)
(*                                                                         *)
(* The module starts with facts about sums, which the budgets are stated   *)
(* with: the sum of no terms, of one term more or less, of two disjoint    *)
(* sets of terms, of terms that all grow.  A sum is defined by recursion   *)
(* on the set of its terms.  The induction theorems of the library take    *)
(* the predicate as an operator; what is needed of them is one instance of *)
(* well-foundedness, SmallestPart: of the parts of a finite set that       *)
(* refute a fact, consider a smallest one.  The same fact gives a set of   *)
(* numbers its least and its greatest one.                                 *)
(***************************************************************************)
EXTENDS Session, Functions, FiniteSetTheorems, TLAPS

-----------------------------------------------------------------------------
\* Sums over finite sets: the recursion

\* The term a sum takes out of T first.
Pick(T) == CHOOSE x \in T : TRUE

Rest(T) == T \ {Pick(T)}

\* g satisfies, on the parts of S, the equation that defines the sum of f.
Solves(g, f, S) ==
  g = [T \in SUBSET S |-> IF T = {} THEN 0 ELSE f[Pick(T)] + g[Rest(T)]]

\* A non-empty set of parts of a finite set has a minimal one.
LEMMA SmallestPart ==
  ASSUME NEW S, IsFiniteSet(S), NEW B \in (SUBSET SUBSET S) \ {{}}
  PROVE  \E T \in B : \A U \in B : U \subseteq T => U = T
<1>1. IsWellFoundedOn(StrictSubsetOrdering(S), SUBSET S)
  <2>1. FiniteSubsetsOf(S) = SUBSET S
    BY FS_FiniteSubsetsOfFinite
  <2>. QED
    BY <2>1, FS_StrictSubsetOrderingWellFounded, Zenon
<1>2. PICK T \in B : \A U \in B : <<U, T>> \notin StrictSubsetOrdering(S)
  BY <1>1, WFMin
<1>. QED
  BY <1>2 DEF StrictSubsetOrdering

\* What is left after the first term is a smaller part.
LEMMA PickedPart ==
  ASSUME NEW T, T # {}
  PROVE  /\ Pick(T) \in T
         /\ Rest(T) \in SUBSET T
         /\ Rest(T) # T
BY DEF Pick, Rest

\* The sum is what some solution of the equation yields.
LEMMA SumIsChosen ==
  ASSUME NEW f, NEW S
  PROVE  SumFunctionOnSet(f, S) = (CHOOSE g : Solves(g, f, S))[S]
BY DEF SumFunctionOnSet, FoldFunctionOnSet, MapThenFoldSet, Solves, Pick, Rest

\* Solutions agree on the parts they have in common.
LEMMA SolutionsAgree ==
  ASSUME NEW f, NEW S, IsFiniteSet(S), NEW R \in SUBSET S,
         NEW g, Solves(g, f, S), NEW h, Solves(h, f, R)
  PROVE  \A T \in SUBSET R : h[T] = g[T]
<1>. DEFINE B == {T \in SUBSET R : h[T] # g[T]}
<1>. SUFFICES ASSUME B # {} PROVE FALSE
  OBVIOUS
<1>1. IsFiniteSet(R)
  BY FS_Subset
<1>. B \in (SUBSET SUBSET R) \ {{}}
  OBVIOUS
<1>2. PICK T \in B : \A U \in B : U \subseteq T => U = T
  <2>. HIDE DEF B
  <2>. QED
    BY <1>1, SmallestPart
<1>3. CASE T = {}
  BY <1>2, <1>3 DEF Solves
<1>4. CASE T # {}
  <2>1. Rest(T) \in SUBSET T /\ Rest(T) # T
    BY <1>4, PickedPart
  <2>2. h[Rest(T)] = g[Rest(T)]
    BY <1>2, <2>1
  <2>3. h[T] = f[Pick(T)] + h[Rest(T)] /\ g[T] = f[Pick(T)] + g[Rest(T)]
    BY <1>2, <1>4 DEF Solves
  <2>. QED
    BY <1>2, <2>2, <2>3
<1>. QED
  BY <1>3, <1>4

\* The equation has a solution: extended part by part, by their cardinality.
LEMMA SolutionExists ==
  ASSUME NEW f, NEW S, IsFiniteSet(S)
  PROVE  \E g : Solves(g, f, S)
<1>. DEFINE Upto(n, g) ==
       /\ DOMAIN g = SUBSET S
       /\ g = [T \in SUBSET S |-> g[T]]
       /\ \A T \in SUBSET S : Cardinality(T) <= n =>
            g[T] = IF T = {} THEN 0 ELSE f[Pick(T)] + g[Rest(T)]
     B == {n \in Nat : ~ \E g : Upto(n, g)}
<1>1. B = {}
  <2>. SUFFICES ASSUME B # {} PROVE FALSE
    OBVIOUS
  <2>1. PICK n \in B : \A m \in B : <<m, n>> \notin OpToRel(<, Nat)
    BY NatLessThanWellFounded, WFMin
  <2>2. \A m \in Nat : m < n => \E g : Upto(m, g)
    BY <2>1 DEF OpToRel
  <2>3. \A T \in SUBSET S :
          /\ Cardinality(T) \in Nat
          /\ Cardinality(T) = 0 <=> T = {}
          /\ T # {} => Cardinality(Rest(T)) = Cardinality(T) - 1 /\ Rest(T) \in SUBSET S
    <3>. TAKE T \in SUBSET S
    <3>1. IsFiniteSet(T)
      BY FS_Subset
    <3>2. T # {} => Cardinality(Rest(T)) = Cardinality(T) - 1
      BY <3>1, FS_RemoveElement, PickedPart DEF Rest
    <3>. QED
      BY <3>1, <3>2, FS_CardinalityType, FS_EmptySet, PickedPart
  <2>4. CASE n = 0
    <3>. DEFINE g == [T \in SUBSET S |-> 0]
    <3>1. Upto(n, g)
      BY <2>3, <2>4
    <3>. QED
      BY <2>1, <3>1
  <2>5. CASE n # 0
    <3>1. PICK g : Upto(n - 1, g)
      <4>1. n - 1 \in Nat /\ n - 1 < n
        BY <2>5
      <4>. HIDE DEF Upto
      <4>. QED
        BY <2>2, <4>1
    <3>. DEFINE h == [T \in SUBSET S |-> IF T = {} THEN 0
                                         ELSE IF Cardinality(T) <= n - 1 THEN g[T]
                                         ELSE f[Pick(T)] + g[Rest(T)]]
    <3>2. ASSUME NEW T \in SUBSET S, Cardinality(T) <= n, T # {}
          PROVE  h[T] = f[Pick(T)] + h[Rest(T)]
      <4>1. Rest(T) \in SUBSET S /\ Cardinality(Rest(T)) <= n - 1
        BY <2>3, <3>2
      <4>2. h[Rest(T)] = g[Rest(T)]
        <5>1. CASE Rest(T) = {}
          BY <2>3, <2>5, <3>1, <4>1, <5>1
        <5>2. CASE Rest(T) # {}
          BY <4>1, <5>2
        <5>. QED
          BY <5>1, <5>2
      <4>3. h[T] = f[Pick(T)] + g[Rest(T)]
        BY <3>1, <3>2
      <4>. QED
        BY <4>2, <4>3
    <3>3. Upto(n, h)
      BY <3>2
    <3>. HIDE DEF h
    <3>. QED
      BY <2>1, <3>3
  <2>. QED
    BY <2>4, <2>5
<1>2. Cardinality(S) \in Nat /\ \A T \in SUBSET S : Cardinality(T) <= Cardinality(S)
  BY FS_CardinalityType, FS_Subset
<1>3. PICK g : Upto(Cardinality(S), g)
  BY <1>1, <1>2
<1>4. Solves(g, f, S)
  BY <1>2, <1>3 DEF Solves
<1>. QED
  BY <1>4

\* The sum satisfies the equation it is defined by.
LEMMA SumEquation ==
  ASSUME NEW f, NEW S, IsFiniteSet(S)
  PROVE  SumFunctionOnSet(f, S) =
           IF S = {} THEN 0 ELSE f[Pick(S)] + SumFunctionOnSet(f, Rest(S))
<1>. DEFINE sums(T) == CHOOSE g : Solves(g, f, T)
<1>1. \A T \in SUBSET S : IsFiniteSet(T)
  BY FS_Subset
<1>2. \A T \in SUBSET S : Solves(sums(T), f, T)
  BY <1>1, SolutionExists
<1>3. S \in SUBSET S
  OBVIOUS
<1>4. CASE S = {}
  <2>1. sums(S)[S] = 0
    <3>1. Solves(sums(S), f, S)
      BY <1>2, <1>3
    <3>. HIDE DEF sums
    <3>. QED
      BY <1>3, <1>4, <3>1 DEF Solves
  <2>. QED
    BY <1>4, <2>1, SumIsChosen
<1>5. CASE S # {}
  <2>1. Rest(S) \in SUBSET S
    BY <1>5, PickedPart
  <2>2. sums(S)[S] = f[Pick(S)] + sums(S)[Rest(S)]
    <3>1. Solves(sums(S), f, S)
      BY <1>2, <1>3
    <3>. HIDE DEF sums
    <3>. QED
      BY <1>3, <1>5, <3>1 DEF Solves
  <2>3. sums(S)[Rest(S)] = sums(Rest(S))[Rest(S)]
    <3>1. Solves(sums(S), f, S) /\ Solves(sums(Rest(S)), f, Rest(S))
      BY <1>2, <1>3, <2>1
    <3>2. Rest(S) \in SUBSET Rest(S)
      OBVIOUS
    <3>. HIDE DEF sums
    <3>. QED
      BY <2>1, <3>1, <3>2, SolutionsAgree
  <2>. QED
    BY <1>5, <2>2, <2>3, SumIsChosen
<1>. QED
  BY <1>4, <1>5

-----------------------------------------------------------------------------
\* What follows from the recursion

\* No terms add up to zero.
LEMMA SumEmpty == ASSUME NEW f PROVE SumFunctionOnSet(f, {}) = 0
BY SumEquation, FS_EmptySet

\* Numbers add up to a number.
LEMMA SumNat ==
  ASSUME NEW S, IsFiniteSet(S), NEW f, \A x \in S : f[x] \in Nat
  PROVE  SumFunctionOnSet(f, S) \in Nat
<1>. DEFINE B == {T \in SUBSET S : SumFunctionOnSet(f, T) \notin Nat}
<1>. SUFFICES ASSUME B # {} PROVE FALSE
  OBVIOUS
<1>. B \in (SUBSET SUBSET S) \ {{}}
  OBVIOUS
<1>1. PICK T \in B : \A U \in B : U \subseteq T => U = T
  <2>. HIDE DEF B
  <2>. QED
    BY SmallestPart
<1>2. IsFiniteSet(T)
  BY FS_Subset
<1>3. T # {}
  <2>1. SumFunctionOnSet(f, {}) \in Nat
    BY SumEmpty
  <2>. QED
    BY <1>1, <2>1
<1>4. Rest(T) \in SUBSET S /\ Rest(T) \notin B /\ Pick(T) \in S
  BY <1>1, <1>3, PickedPart
<1>. QED
  BY <1>1, <1>2, <1>3, <1>4, SumEquation

\* Any one term may be taken out.
LEMMA SumRemove ==
  ASSUME NEW S, IsFiniteSet(S), NEW f, \A x \in S : f[x] \in Nat
  PROVE  \A x \in S : SumFunctionOnSet(f, S) = f[x] + SumFunctionOnSet(f, S \ {x})
<1>. DEFINE Sum(T) == SumFunctionOnSet(f, T)
            B == {T \in SUBSET S : \E x \in T : Sum(T) # f[x] + Sum(T \ {x})}
<1>. SUFFICES ASSUME B # {} PROVE FALSE
  OBVIOUS
<1>. B \in (SUBSET SUBSET S) \ {{}}
  OBVIOUS
<1>1. PICK T \in B : \A U \in B : U \subseteq T => U = T
  <2>. HIDE DEF B
  <2>. QED
    BY SmallestPart
<1>2. PICK x \in T : Sum(T) # f[x] + Sum(T \ {x})
  OBVIOUS
<1>3. \A U \in SUBSET S : IsFiniteSet(U) /\ Sum(U) \in Nat
  <2>. TAKE U \in SUBSET S
  <2>1. IsFiniteSet(U)
    BY FS_Subset
  <2>. QED
    BY <2>1, SumNat
<1>. DEFINE y == Pick(T)
<1>4. y \in T /\ Rest(T) = T \ {y}
  BY <1>2, PickedPart DEF Rest
<1>5. Sum(T) = f[y] + Sum(T \ {y})
  BY <1>2, <1>3, <1>4, SumEquation
<1>6. x # y
  BY <1>2, <1>5
<1>7. Sum(T \ {y}) = f[x] + Sum(T \ {x, y})
  <2>1. x \in T \ {y} /\ T \ {y} \notin B /\ T \ {y} \in SUBSET S
    BY <1>1, <1>4, <1>6
  <2>2. (T \ {y}) \ {x} = T \ {x, y}
    OBVIOUS
  <2>. QED
    BY <2>1, <2>2
<1>8. Sum(T \ {x}) = f[y] + Sum(T \ {x, y})
  <2>1. y \in T \ {x} /\ T \ {x} \notin B /\ T \ {x} \in SUBSET S
    BY <1>1, <1>4, <1>6
  <2>2. (T \ {x}) \ {y} = T \ {x, y}
    OBVIOUS
  <2>. QED
    BY <2>1, <2>2
<1>9. f[x] \in Nat /\ f[y] \in Nat /\ Sum(T \ {x, y}) \in Nat
  BY <1>3, <1>4
<1>. HIDE DEF Sum, y
<1>. QED
  BY <1>2, <1>5, <1>7, <1>8, <1>9

\* Terms that do not grow give a sum that does not.
LEMMA SumMonotone ==
  ASSUME NEW S, IsFiniteSet(S),
         NEW f, \A x \in S : f[x] \in Nat,
         NEW g, \A x \in S : g[x] \in Nat,
         \A x \in S : f[x] <= g[x]
  PROVE  SumFunctionOnSet(f, S) <= SumFunctionOnSet(g, S)
<1>. DEFINE B == {T \in SUBSET S : ~ (SumFunctionOnSet(f, T) <= SumFunctionOnSet(g, T))}
<1>. SUFFICES ASSUME B # {} PROVE FALSE
  OBVIOUS
<1>. B \in (SUBSET SUBSET S) \ {{}}
  OBVIOUS
<1>1. PICK T \in B : \A U \in B : U \subseteq T => U = T
  <2>. HIDE DEF B
  <2>. QED
    BY SmallestPart
<1>2. IsFiniteSet(T)
  BY FS_Subset
<1>3. CASE T = {}
  <2>1. SumFunctionOnSet(f, T) = 0 /\ SumFunctionOnSet(g, T) = 0
    BY <1>3, SumEmpty
  <2>. QED
    BY <2>1
<1>4. CASE T # {}
  <2>1. Rest(T) \in SUBSET S /\ Rest(T) \notin B /\ Pick(T) \in S
    BY <1>1, <1>4, PickedPart
  <2>2. /\ SumFunctionOnSet(f, T) = f[Pick(T)] + SumFunctionOnSet(f, Rest(T))
        /\ SumFunctionOnSet(g, T) = g[Pick(T)] + SumFunctionOnSet(g, Rest(T))
    BY <1>2, <1>4, SumEquation
  <2>3. SumFunctionOnSet(f, Rest(T)) \in Nat /\ SumFunctionOnSet(g, Rest(T)) \in Nat
    <3>1. IsFiniteSet(Rest(T))
      BY <2>1, FS_Subset
    <3>. QED
      BY <2>1, <3>1, SumNat
  <2>. QED
    BY <2>1, <2>2, <2>3
<1>. QED
  BY <1>3, <1>4

\* A sum depends on its terms only.
LEMMA SumSame ==
  ASSUME NEW S, IsFiniteSet(S),
         NEW f, \A x \in S : f[x] \in Nat,
         NEW g, \A x \in S : f[x] = g[x]
  PROVE  SumFunctionOnSet(f, S) = SumFunctionOnSet(g, S)
<1>1. SumFunctionOnSet(f, S) \in Nat /\ SumFunctionOnSet(g, S) \in Nat
  BY SumNat
<1>2. /\ SumFunctionOnSet(f, S) <= SumFunctionOnSet(g, S)
      /\ SumFunctionOnSet(g, S) <= SumFunctionOnSet(f, S)
  BY SumMonotone
<1>. QED
  BY <1>1, <1>2

\* The terms may be summed in two heaps.
LEMMA SumUnion ==
  ASSUME NEW S, NEW R, IsFiniteSet(S), IsFiniteSet(R), S \cap R = {},
         NEW f, \A x \in S \cup R : f[x] \in Nat
  PROVE  SumFunctionOnSet(f, S \cup R) = SumFunctionOnSet(f, S) + SumFunctionOnSet(f, R)
<1>. DEFINE Sum(T) == SumFunctionOnSet(f, T)
            B == {T \in SUBSET R : Sum(S \cup T) # Sum(S) + Sum(T)}
<1>. SUFFICES ASSUME B # {} PROVE FALSE
  OBVIOUS
<1>. B \in (SUBSET SUBSET R) \ {{}}
  OBVIOUS
<1>1. PICK T \in B : \A U \in B : U \subseteq T => U = T
  <2>. HIDE DEF B
  <2>. QED
    BY SmallestPart
<1>2. IsFiniteSet(T) /\ IsFiniteSet(S \cup T)
  BY FS_Subset, FS_Union
<1>3. Sum(S) \in Nat
  BY SumNat
<1>4. T # {}
  <2>1. S \cup {} = S /\ Sum({}) = 0
    BY SumEmpty
  <2>2. Sum(S \cup {}) = Sum(S) + Sum({})
    BY <1>3, <2>1
  <2>. QED
    BY <2>2
<1>5. PICK x : x \in T
  BY <1>4
<1>6. /\ Sum(T) = f[x] + Sum(T \ {x})
      /\ Sum(S \cup T) = f[x] + Sum((S \cup T) \ {x})
  BY <1>2, <1>5, SumRemove
<1>7. (S \cup T) \ {x} = S \cup (T \ {x})
  BY <1>5
<1>8. T \ {x} \in SUBSET R /\ T \ {x} \notin B
  BY <1>1, <1>5
<1>9. f[x] \in Nat /\ Sum(T \ {x}) \in Nat
  <2>1. IsFiniteSet(T \ {x})
    BY <1>2, FS_RemoveElement
  <2>. QED
    BY <1>5, <2>1, SumNat
<1>10. Sum(S \cup T) = Sum(S) + Sum(T)
  <2>1. Sum(S \cup (T \ {x})) = Sum(S) + Sum(T \ {x})
    BY <1>8
  <2>2. Sum(S \cup T) = f[x] + (Sum(S) + Sum(T \ {x}))
    BY <1>6, <1>7, <2>1
  <2>. HIDE DEF Sum
  <2>. QED
    BY <1>3, <1>6, <1>9, <2>2
<1>. QED
  BY <1>10

\* One term more.
LEMMA SumInsert ==
  ASSUME NEW S, IsFiniteSet(S), NEW x, x \notin S,
         NEW f, \A y \in S \cup {x} : f[y] \in Nat
  PROVE  SumFunctionOnSet(f, S \cup {x}) = f[x] + SumFunctionOnSet(f, S)
<1>1. IsFiniteSet(S \cup {x})
  BY FS_AddElement
<1>2. x \in S \cup {x} /\ (S \cup {x}) \ {x} = S
  OBVIOUS
<1>. QED
  BY <1>1, <1>2, SumRemove

-----------------------------------------------------------------------------
\* The same facts of SumFunction, whose terms are a function's values

\* The same facts, of the sum over the whole domain of a function.
LEMMA TotalNat ==
  ASSUME NEW S, IsFiniteSet(S), NEW f \in [S -> Nat]
  PROVE  SumFunction(f) \in Nat
BY SumNat DEF SumFunction

\* No rows cost nothing.
LEMMA TotalEmpty ==
  ASSUME NEW f, DOMAIN f = {}
  PROVE  SumFunction(f) = 0
BY SumEmpty DEF SumFunction

\* A total grows with its terms.
LEMMA TotalMonotone ==
  ASSUME NEW S, IsFiniteSet(S), NEW f \in [S -> Nat], NEW g \in [S -> Nat],
         \A x \in S : f[x] <= g[x]
  PROVE  SumFunction(f) <= SumFunction(g)
BY SumMonotone DEF SumFunction

\* One row more adds its own term.
LEMMA TotalInsert ==
  ASSUME NEW S, IsFiniteSet(S), NEW x, x \notin S,
         NEW f \in [S -> Nat], NEW g \in [S \cup {x} -> Nat],
         \A y \in S : g[y] = f[y]
  PROVE  SumFunction(g) = g[x] + SumFunction(f)
<1>1. SumFunctionOnSet(g, S \cup {x}) = g[x] + SumFunctionOnSet(g, S)
  BY SumInsert
<1>2. SumFunctionOnSet(f, S) = SumFunctionOnSet(g, S)
  BY SumSame
<1>. QED
  BY <1>1, <1>2 DEF SumFunction

\* Two disjoint tables add up.
LEMMA TotalUnion ==
  ASSUME NEW S, NEW R, IsFiniteSet(S), IsFiniteSet(R), S \cap R = {},
         NEW f \in [S -> Nat], NEW g \in [R -> Nat], NEW h \in [S \cup R -> Nat],
         \A x \in S : h[x] = f[x],
         \A x \in R : h[x] = g[x]
  PROVE  SumFunction(h) = SumFunction(f) + SumFunction(g)
<1>1. SumFunctionOnSet(h, S \cup R) = SumFunctionOnSet(h, S) + SumFunctionOnSet(h, R)
  BY SumUnion
<1>2. SumFunctionOnSet(f, S) = SumFunctionOnSet(h, S)
  BY SumSame
<1>3. SumFunctionOnSet(g, R) = SumFunctionOnSet(h, R)
  BY SumSame
<1>. QED
  BY <1>1, <1>2, <1>3 DEF SumFunction

-----------------------------------------------------------------------------
\* Least and greatest numbers

\* A set of numbers has a least one.
LEMMA LeastNumber ==
  ASSUME NEW S \in SUBSET Nat, S # {}
  PROVE  Min(S) \in S
<1>. DEFINE R == StrictSubsetOrdering(Nat)
            T == {0 .. n : n \in S}
<1>1. T \subseteq FiniteSubsetsOf(Nat) /\ T # {}
  <2>1. ASSUME NEW n \in S PROVE 0 .. n \in FiniteSubsetsOf(Nat)
    BY FS_Interval DEF FiniteSubsetsOf
  <2>. QED
    BY <2>1
<1>2. \E U \in T : \A V \in T : <<V, U>> \notin R
  BY <1>1, FS_StrictSubsetOrderingWellFounded, WFMin
<1>3. PICK n \in S : \A m \in S : <<0 .. m, 0 .. n>> \notin R
  BY <1>2
<1>4. ASSUME NEW m \in S PROVE n <= m
  <2>1. SUFFICES ASSUME m < n PROVE <<0 .. m, 0 .. n>> \in R
    BY <1>3
  <2>2. 0 .. m \subseteq 0 .. n /\ n \in 0 .. n /\ n \notin 0 .. m
    BY <2>1
  <2>. QED
    BY <2>2 DEF StrictSubsetOrdering
<1>. QED
  BY <1>4 DEF Min

\* A finite set of numbers has a greatest one.
LEMMA GreatestNumber ==
  ASSUME NEW S \in SUBSET Nat, IsFiniteSet(S), S # {}
  PROVE  Max(S) \in S /\ \A n \in S : n <= Max(S)
<1>. DEFINE Above(n) == {m \in S : n < m}
            T == {Above(n) : n \in S}
<1>1. T \in SUBSET SUBSET S /\ T # {}
  <2>1. \A n \in S : Above(n) \in SUBSET S
    OBVIOUS
  <2>2. PICK n : n \in S
    OBVIOUS
  <2>3. Above(n) \in T
    BY <2>2
  <2>. QED
    BY <2>1, <2>3
<1>2. PICK U \in T : \A V \in T : V \subseteq U => V = U
  <2>1. ASSUME NEW B \in (SUBSET SUBSET S) \ {{}}
        PROVE  \E U \in B : \A V \in B : V \subseteq U => V = U
    BY SmallestPart, Zenon
  <2>. HIDE DEF T
  <2>2. T \in (SUBSET SUBSET S) \ {{}}
    BY <1>1
  <2>. QED
    BY <2>1, <2>2
<1>3. PICK n \in S : U = Above(n)
  BY <1>2
<1>4. ASSUME NEW m \in S PROVE m <= n
  <2>1. SUFFICES ASSUME n < m PROVE FALSE
    OBVIOUS
  <2>2. Above(m) \in T
    OBVIOUS
  <2>3. Above(m) \subseteq Above(n)
    <3>1. \A k \in S : m < k => n < k
      BY <2>1
    <3>. QED
      BY <3>1
  <2>4. m \in Above(n) /\ m \notin Above(m)
    BY <2>1
  <2>. QED
    BY <1>2, <1>3, <2>2, <2>3, <2>4
<1>. QED
  BY <1>4 DEF Max

-----------------------------------------------------------------------------
\* The invariant of the ledger

\* A lease handed out is never ahead of its row.
GrantsBounded ==
  \A l \in granted : l.work \in DOMAIN work /\ l.epoch <= work[l.work].epoch

\* A row has an owner exactly while it is leased, and then it was claimed.
OwnersLease ==
  \A w \in DOMAIN work :
    /\ work[w].status = "leased" <=> work[w].owner # None
    /\ work[w].status = "leased" => work[w].epoch > 0

LedgerInv ==
  /\ TypeOK
  /\ ReservationsBacked
  /\ UnknownNotOffered
  /\ UncertainIsUnknown
  /\ GrantsBounded
  /\ OwnersLease
  /\ NewestLeaseFenced
  /\ HeldOverArtifacts
  /\ RunMatchesWork
  /\ WithinBudget

\* Every artifact is of terminal work and names a settled receipt of that work.
ArtifactsBacked ==
  \A w \in DOMAIN artifacts :
    /\ work[w].status = "done"
    /\ artifacts[w].call \in DOMAIN calls
    /\ calls[artifacts[w].call].work = w
    /\ calls[artifacts[w].call].state = "received"

IInv ==
  /\ LedgerInv
  /\ UnknownBlocksRetry
  /\ DoneMeansPublished
  /\ DependenciesFirst

-----------------------------------------------------------------------------
\* The steps of the base class

\* How a transaction may come to end w for a: under a's lease as it stands, or
\* after a recovery, under the lease that survives it or by a claim of its own.
EndsFrom(rows, w, a, freed) ==
  /\ run.status = "running"
  /\ \/ freed = {} /\ rows = work /\ work[w].status = "leased"
     \/ freed = Expired /\ rows = RecoveredWork /\ RecoveredWork[w].status = "leased"
     \/ /\ freed = Expired
        /\ rows = [RecoveredWork EXCEPT ![w] = Leased(@, a)]
        /\ Claimable(a, w, RecoveredWork)

\* What ending w does to the tables other than artifacts.
Ended(rows, w, freed) ==
  /\ calls' = Abandon(freed \cup {w})
  /\ work' = [rows EXCEPT ![w] = Free(@, "done")]
  /\ run' = IF LastOpen(rows, w) THEN [run EXCEPT !.status = "completed"] ELSE run
  /\ UNCHANGED granted

\* w is published for a from the receipt c.
Published(w, a, c) ==
  /\ calls[c].state = "received"
  /\ \E rows, freed : /\ EndsFrom(rows, w, a, freed)
                      /\ RecordArtifact(rows, w, a, c, freed)

LedgerNext ==
  \/ \E w \in DOMAIN work : Expire(w)
  \/ Recover
  \/ \E a \in Agent, w \in DOMAIN work : Claim(a, w)
  \/ \E l \in granted, c \in CallId, p \in Nat, m \in Nat : Reserve(l, c, p, m)
  \/ \E l \in granted, c \in DOMAIN calls : Dispatch(l, c)
  \/ \E c \in DOMAIN calls, n \in Nat, o \in BOOLEAN :
       n <= calls[c].prompt + calls[c].maximum /\ Settle(c, n, o)
  \/ \E w \in DOMAIN work, a \in Agent, c \in DOMAIN calls : Published(w, a, c)
  \/ Cancel

-----------------------------------------------------------------------------
\* Lemmas about the helpers

\* A row given up keeps its epoch and what it depends on.
LEMMA FreedRow ==
  ASSUME NEW row \in Row, NEW s \in WorkStatus
  PROVE  /\ Free(row, s) \in Row
         /\ Free(row, s).status = s
         /\ Free(row, s).owner = None
         /\ Free(row, s).epoch = row.epoch
         /\ Free(row, s).dependencies = row.dependencies
         /\ Free(row, s).agents = row.agents
BY DEF Free, Row

\* _recover rewrites only expired rows, and only who holds them.
LEMMA RecoveredRows ==
  ASSUME TypeOK
  PROVE  /\ DOMAIN RecoveredWork = DOMAIN work
         /\ RecoveredWork \in [DOMAIN work -> Row]
         /\ \A w \in DOMAIN work :
              /\ RecoveredWork[w].epoch = work[w].epoch
              /\ RecoveredWork[w].dependencies = work[w].dependencies
              /\ RecoveredWork[w].agents = work[w].agents
              /\ w \notin Expired => RecoveredWork[w] = work[w]
              /\ w \in Expired =>
                   /\ RecoveredWork[w].owner = None
                   /\ Unknown(w) => RecoveredWork[w].status = "uncertain"
                   /\ ~Unknown(w) => RecoveredWork[w].status = "ready"
<1>1. \A w \in DOMAIN work : work[w] \in Row
  BY DEF TypeOK
<1>2. {"ready", "uncertain"} \subseteq WorkStatus
  BY DEF WorkStatus
<1>. QED
  BY <1>1, <1>2, FreedRow DEF RecoveredWork, Expired

\* _abandon changes the state of reserved calls and nothing else.
LEMMA AbandonedCalls ==
  ASSUME TypeOK, NEW W
  PROVE  /\ DOMAIN Abandon(W) = DOMAIN calls
         /\ Abandon(W) \in [DOMAIN calls -> Call]
         /\ \A c \in DOMAIN calls :
              /\ Abandon(W)[c].work = calls[c].work
              /\ Abandon(W)[c].epoch = calls[c].epoch
              /\ Abandon(W)[c].state =
                   IF calls[c].work \in W /\ calls[c].state = "reserved"
                   THEN "abandoned" ELSE calls[c].state
BY DEF TypeOK, Abandon, Call, CallState, Unsettled

\* Abandoning reservations makes no outcome known or unknown.
LEMMA UnknownKept ==
  ASSUME TypeOK, NEW W, calls' = Abandon(W), NEW w
  PROVE  Unknown(w)' <=> Unknown(w)
BY AbandonedCalls DEF TypeOK, Unknown

\* A claim moves the epoch by one.
LEMMA LeasedRow ==
  ASSUME TypeOK, NEW row \in Row, NEW a \in Agent
  PROVE  /\ Leased(row, a) \in Row
         /\ Leased(row, a).status = "leased"
         /\ Leased(row, a).owner = a
         /\ Leased(row, a).epoch = row.epoch + 1
         /\ Leased(row, a).dependencies = row.dependencies
         /\ Leased(row, a).agents = row.agents
<1>1. row.epoch \in Nat /\ run.generation \in Nat
  BY DEF TypeOK, Row, Run
<1>2. row.epoch + 1 \in Nat
  BY <1>1
<1>3. /\ Leased(row, a).status = "leased"
      /\ Leased(row, a).owner = a
      /\ Leased(row, a).lapsed = FALSE
      /\ Leased(row, a).dependencies = row.dependencies
      /\ Leased(row, a).agents = row.agents
  BY DEF Leased, Row
<1>4. Leased(row, a).epoch = row.epoch + 1
  BY DEF Leased, Row
<1>5. Leased(row, a).generation = run.generation
  BY DEF Leased, Row
<1>6. Leased(row, a) \in Row
  BY <1>1, <1>2 DEF Leased, Row, WorkStatus
<1>. QED
  BY <1>3, <1>4, <1>5, <1>6

\* Only leased rows of a running run expire.
LEMMA ExpiredRows ==
  ASSUME NEW w \in Expired
  PROVE  w \in DOMAIN work /\ work[w].status = "leased" /\ run.status = "running"
BY DEF Expired

-----------------------------------------------------------------------------
\* The budget

\* What a call costs is a number.
LEMMA ChargeNat ==
  ASSUME NEW call \in Call
  PROVE  Charge(call) \in Nat
BY DEF Charge, Call

\* There are finitely many calls: sums over them are defined.
LEMMA FiniteCalls ==
  ASSUME TypeOK
  PROVE  IsFiniteSet(DOMAIN calls)
BY LimitAssumption, FS_Subset DEF TypeOK

\* Calls none of which costs more than before keep the budget.
LEMMA CheaperKeepsBudget ==
  ASSUME TypeOK, TypeOK', WithinBudget,
         DOMAIN calls' = DOMAIN calls,
         \A c \in DOMAIN calls : Charge(calls'[c]) <= Charge(calls[c])
  PROVE  WithinBudget'
<1>. DEFINE f == [c \in DOMAIN calls |-> Charge(calls[c])]
            g == [c \in DOMAIN calls |-> Charge(calls'[c])]
<1>1. f \in [DOMAIN calls -> Nat] /\ g \in [DOMAIN calls -> Nat]
  BY ChargeNat DEF TypeOK
<1>2. SumFunction(f) \in Nat /\ SumFunction(g) \in Nat
  BY <1>1, FiniteCalls, TotalNat
<1>3. SumFunction(g) <= SumFunction(f)
  <2>. HIDE DEF f, g
  <2>1. \A c \in DOMAIN calls : g[c] <= f[c]
    BY DEF f, g
  <2>. QED
    BY <1>1, <2>1, FiniteCalls, TotalMonotone
<1>4. Spent = SumFunction(f) /\ Spent' = SumFunction(g)
  BY DEF Spent
<1>. HIDE DEF f, g
<1>. QED
  BY <1>2, <1>3, <1>4, LimitAssumption DEF WithinBudget

\* Giving a reservation back costs nothing.
LEMMA AbandonedCheaper ==
  ASSUME TypeOK, NEW W
  PROVE  \A c \in DOMAIN calls : Charge(Abandon(W)[c]) <= Charge(calls[c])
<1>. SUFFICES ASSUME NEW c \in DOMAIN calls
              PROVE  Charge(Abandon(W)[c]) <= Charge(calls[c])
  OBVIOUS
<1>1. calls[c] \in Call
  BY DEF TypeOK
<1>2. CASE calls[c].work \in W /\ calls[c].state = "reserved"
  <2>1. /\ Abandon(W)[c].state = "abandoned"
        /\ Abandon(W)[c].actual = 0
    BY <1>1, <1>2 DEF Abandon, Call
  <2>. QED
    BY <1>1, <1>2, <2>1 DEF Charge, Unsettled, Call
<1>3. CASE ~(calls[c].work \in W /\ calls[c].state = "reserved")
  <2>1. Abandon(W)[c] = calls[c]
    BY <1>3 DEF Abandon
  <2>2. Charge(calls[c]) \in Nat
    BY <1>1, ChargeNat
  <2>. QED
    BY <2>1, <2>2
<1>. QED
  BY <1>2, <1>3

-----------------------------------------------------------------------------
\* Init and the small steps

\* What create() leaves, of work items it accepts.
LEMMA InitLedger ==
  ASSUME NEW declaration,
         DOMAIN declaration \subseteq Work, DOMAIN declaration # {},
         \A w \in DOMAIN declaration :
           declaration[w] \in [dependencies : SUBSET DOMAIN declaration,
                               agents : (SUBSET Agent) \ {{}}],
         InitOf(declaration)
  PROVE  LedgerInv /\ UnknownBlocksRetry /\ DoneMeansPublished /\ DependenciesFirst
<1>. USE DEF InitOf
<1>1. TypeOK
  BY DEF TypeOK, Run, RunStatus, Row, WorkStatus
<1>2. GrantsBounded /\ OwnersLease /\ NewestLeaseFenced
  BY DEF GrantsBounded, OwnersLease, NewestLeaseFenced
<1>3. ReservationsBacked /\ UnknownNotOffered /\ UnknownBlocksRetry /\ UncertainIsUnknown
  BY DEF ReservationsBacked, UnknownNotOffered, UnknownBlocksRetry, UncertainIsUnknown
<1>4. DoneMeansPublished /\ DependenciesFirst /\ HeldOverArtifacts /\ RunMatchesWork
  BY DEF DoneMeansPublished, DependenciesFirst, HeldOverArtifacts, RunMatchesWork
<1>5. WithinBudget
  <2>1. DOMAIN calls = {}
    OBVIOUS
  <2>2. Spent = 0 /\ Cardinality(DOMAIN calls) = 0
    BY <2>1, TotalEmpty, FS_EmptySet DEF Spent
  <2>. QED
    BY <2>2, LimitAssumption DEF WithinBudget
<1>. QED
  BY <1>1, <1>2, <1>3, <1>4, <1>5 DEF LedgerInv

\* The passing of a lease's lifetime.
LEMMA ExpireLedger ==
  ASSUME LedgerInv, NEW w \in DOMAIN work, Expire(w)
  PROVE  LedgerInv'
<1>. USE DEF Expire, LedgerInv
<1>1. TypeOK'
  BY DEF TypeOK, Row
<1>2. /\ DOMAIN work' = DOMAIN work
      /\ \A v \in DOMAIN work :
           /\ work'[v].status = work[v].status
           /\ work'[v].owner = work[v].owner
           /\ work'[v].epoch = work[v].epoch
           /\ work'[v].dependencies = work[v].dependencies
           /\ work'[v].generation = work[v].generation
           /\ ~work'[v].lapsed => ~work[v].lapsed
  BY DEF TypeOK, Row
<1>3. ReservationsBacked' /\ UnknownNotOffered' /\ UncertainIsUnknown'
  BY <1>2 DEF TypeOK, ReservationsBacked, UnknownNotOffered, UncertainIsUnknown, Unknown
<1>4. GrantsBounded' /\ OwnersLease'
  BY <1>2 DEF GrantsBounded, OwnersLease
<1>5. NewestLeaseFenced'
  BY <1>2 DEF GrantsBounded, NewestLeaseFenced, Holds
<1>6. HeldOverArtifacts' /\ RunMatchesWork'
  BY <1>2 DEF TypeOK, HeldOverArtifacts, RunMatchesWork
<1>7. WithinBudget'
  BY DEF WithinBudget, Spent
<1>. QED
  BY <1>1, <1>3, <1>4, <1>5, <1>6, <1>7

\* recover.
LEMMA RecoverLedger == ASSUME LedgerInv, Recover PROVE LedgerInv'
<1>. USE DEF LedgerInv
<1>1. /\ work' = RecoveredWork /\ calls' = Abandon(Expired)
      /\ UNCHANGED <<run, artifacts, granted>>
  BY DEF Recover
<1>2. TypeOK'
  BY <1>1, RecoveredRows, AbandonedCalls DEF TypeOK
<1>3. ReservationsBacked'
  BY <1>1, RecoveredRows, AbandonedCalls DEF TypeOK, ReservationsBacked
<1>4. UnknownNotOffered'
  <2>. SUFFICES ASSUME NEW c \in DOMAIN calls, calls'[c].state = "dispatched"
                PROVE  LET row == work'[calls'[c].work] IN
                       /\ row.status # "ready"
                       /\ row.status = "leased" => row.epoch = calls'[c].epoch
    BY <1>1, AbandonedCalls DEF UnknownNotOffered
  <2>1. /\ calls[c].state = "dispatched" /\ calls[c].work \in DOMAIN work
        /\ calls'[c].work = calls[c].work /\ calls'[c].epoch = calls[c].epoch
    BY <1>1, AbandonedCalls DEF TypeOK
  <2>2. Unknown(calls[c].work)
    BY <2>1 DEF Unknown
  <2>3. CASE calls[c].work \in Expired
    BY <1>1, <2>1, <2>2, <2>3, RecoveredRows
  <2>4. CASE calls[c].work \notin Expired
    BY <1>1, <2>1, <2>4, RecoveredRows DEF UnknownNotOffered
  <2>. QED
    BY <2>3, <2>4
<1>5. UncertainIsUnknown'
  BY <1>1, RecoveredRows, UnknownKept DEF UncertainIsUnknown
<1>6. GrantsBounded'
  BY <1>1, RecoveredRows DEF GrantsBounded
<1>7. OwnersLease'
  BY <1>1, RecoveredRows DEF OwnersLease
<1>8. NewestLeaseFenced'
  BY <1>1, RecoveredRows DEF NewestLeaseFenced, GrantsBounded, Holds
<1>9. HeldOverArtifacts'
  <2>1. \A w \in DOMAIN work :
          /\ work'[w].dependencies = work[w].dependencies
          /\ work'[w].status \in {"leased", "uncertain"} =>
               work[w].status \in {"leased", "uncertain"}
    BY <1>1, RecoveredRows, ExpiredRows
  <2>. QED
    BY <1>1, <2>1, RecoveredRows DEF HeldOverArtifacts
<1>10. RunMatchesWork'
  BY <1>1, RecoveredRows, ExpiredRows DEF RunMatchesWork
<1>11. WithinBudget'
  BY <1>1, <1>2, AbandonedCalls, AbandonedCheaper, CheaperKeepsBudget
<1>. QED
  BY <1>2, <1>3, <1>4, <1>5, <1>6, <1>7, <1>8, <1>9, <1>10, <1>11

\* claim.
LEMMA ClaimLedger ==
  ASSUME LedgerInv, NEW a \in Agent, NEW w \in DOMAIN work, Claim(a, w)
  PROVE  LedgerInv'
<1>. USE DEF LedgerInv
<1>. DEFINE rows == RecoveredWork
<1>1. /\ work' = [rows EXCEPT ![w] = Leased(rows[w], a)]
      /\ calls' = Abandon(Expired)
      /\ granted' = granted \cup {[work |-> w, owner |-> a, epoch |-> work[w].epoch + 1]}
      /\ UNCHANGED <<run, artifacts>>
      /\ run.status = "running"
  BY DEF Claim
<1>2. /\ rows[w].status = "ready"
      /\ rows[w].dependencies \subseteq DOMAIN artifacts
  BY DEF Claim, Claimable
<1>3. /\ DOMAIN work' = DOMAIN work
      /\ \A v \in DOMAIN work : v # w => work'[v] = rows[v]
      /\ work'[w].status = "leased"
      /\ work'[w].owner = a
      /\ work'[w].epoch = work[w].epoch + 1
      /\ work'[w].dependencies = work[w].dependencies
      /\ work' \in [DOMAIN work -> Row]
  BY <1>1, RecoveredRows, LeasedRow
<1>4. \A c \in DOMAIN calls : calls[c].work = w => calls'[c].state \notin Unsettled
  <2>. SUFFICES ASSUME NEW c \in DOMAIN calls, calls[c].work = w
                PROVE  calls'[c].state \notin Unsettled
    OBVIOUS
  <2>1. calls'[c].state = IF w \in Expired /\ calls[c].state = "reserved"
                          THEN "abandoned" ELSE calls[c].state
    BY <1>1, AbandonedCalls
  <2>2. calls[c].state # "dispatched"
    <3>1. CASE w \in Expired
      BY <1>2, <3>1, RecoveredRows DEF Unknown
    <3>2. CASE w \notin Expired
      BY <1>2, <3>2, RecoveredRows DEF UnknownNotOffered
    <3>. QED
      BY <3>1, <3>2
  <2>3. calls[c].state = "reserved" => w \in Expired
    BY <1>2, RecoveredRows DEF ReservationsBacked
  <2>. QED
    BY <2>1, <2>2, <2>3 DEF Unsettled
<1>5. TypeOK'
  BY <1>1, <1>3, AbandonedCalls DEF TypeOK, Lease, Row
<1>6. ReservationsBacked'
  BY <1>1, <1>3, <1>4, RecoveredRows, AbandonedCalls DEF TypeOK, ReservationsBacked, Unsettled
<1>7. UnknownNotOffered'
  <2>. SUFFICES ASSUME NEW c \in DOMAIN calls, calls'[c].state = "dispatched"
                PROVE  LET row == work'[calls'[c].work] IN
                       /\ row.status # "ready"
                       /\ row.status = "leased" => row.epoch = calls'[c].epoch
    BY <1>1, AbandonedCalls DEF UnknownNotOffered
  <2>1. /\ calls[c].state = "dispatched" /\ calls[c].work \in DOMAIN work
        /\ calls'[c].work = calls[c].work /\ calls'[c].epoch = calls[c].epoch
        /\ calls[c].work # w
    BY <1>1, <1>4, AbandonedCalls DEF TypeOK, Unsettled
  <2>2. Unknown(calls[c].work)
    BY <2>1 DEF Unknown
  <2>3. CASE calls[c].work \in Expired
    BY <1>3, <2>1, <2>2, <2>3, RecoveredRows
  <2>4. CASE calls[c].work \notin Expired
    BY <1>3, <2>1, <2>4, RecoveredRows DEF UnknownNotOffered
  <2>. QED
    BY <2>3, <2>4
<1>8. UncertainIsUnknown'
  BY <1>1, <1>3, RecoveredRows, UnknownKept DEF UncertainIsUnknown
<1>9. GrantsBounded'
  BY <1>1, <1>3, RecoveredRows DEF TypeOK, GrantsBounded, Row, Lease
<1>10. OwnersLease'
  BY <1>1, <1>3, RecoveredRows, DeclarationAssumption DEF TypeOK, Row, OwnersLease
<1>11. NewestLeaseFenced'
  <2>1. \A l \in granted : l.work = w => l.epoch < work[w].epoch + 1
    BY DEF TypeOK, GrantsBounded, Row, Lease
  <2>2. \A l, m \in granted' : l.work = m.work /\ l.epoch = m.epoch => l = m
    BY <1>1, <2>1 DEF TypeOK, NewestLeaseFenced, Row
  <2>. QED
    BY <1>1, <1>9, <2>2 DEF NewestLeaseFenced, GrantsBounded, Holds
<1>12. HeldOverArtifacts'
  <2>1. \A v \in DOMAIN work \ {w} :
          /\ work'[v].dependencies = work[v].dependencies
          /\ work'[v].status \in {"leased", "uncertain"} =>
               work[v].status \in {"leased", "uncertain"}
    BY <1>3, RecoveredRows, ExpiredRows
  <2>2. work'[w].dependencies \subseteq DOMAIN artifacts
    BY <1>2, <1>3, RecoveredRows
  <2>. QED
    BY <1>1, <1>3, <2>1, <2>2 DEF HeldOverArtifacts
<1>13. RunMatchesWork'
  BY <1>1, <1>3, RecoveredRows, ExpiredRows DEF RunMatchesWork
<1>14. WithinBudget'
  BY <1>1, <1>5, AbandonedCalls, AbandonedCheaper, CheaperKeepsBudget
<1>. QED
  BY <1>5, <1>6, <1>7, <1>8, <1>9, <1>10, <1>11, <1>12, <1>13, <1>14

-----------------------------------------------------------------------------
\* Calls

\* The row Reserve inserts, and that it inserts nothing else.
LEMMA ReservedRow ==
  ASSUME TypeOK, NEW l \in granted, NEW c \in CallId, NEW p \in Nat, NEW m \in Nat,
         Reserve(l, c, p, m)
  PROVE  /\ c \notin DOMAIN calls
         /\ Holds(l)
         /\ UNCHANGED <<run, work, artifacts, granted>>
         /\ DOMAIN calls' = DOMAIN calls \cup {c}
         /\ calls' \in [DOMAIN calls \cup {c} -> Call]
         /\ calls'[c].work = l.work
         /\ calls'[c].epoch = l.epoch
         /\ calls'[c].state = "reserved"
         /\ Charge(calls'[c]) = p + m
         /\ \A d \in DOMAIN calls : calls'[d] = calls[d]
<1>. DEFINE row == [work |-> l.work, epoch |-> l.epoch, prompt |-> p, maximum |-> m,
                    state |-> "reserved", actual |-> 0]
<1>1. /\ calls' = Put(calls, c, row)
      /\ c \notin DOMAIN calls
      /\ Holds(l)
      /\ UNCHANGED <<run, work, artifacts, granted>>
  BY DEF Reserve
<1>2. row \in Call
  BY <1>1 DEF Holds, TypeOK, Lease, Call, CallState, Unsettled
<1>3. /\ row.work = l.work /\ row.epoch = l.epoch /\ row.state = "reserved"
      /\ Charge(row) = p + m
  BY DEF Charge, Unsettled
<1>. HIDE DEF row
<1>4. /\ DOMAIN calls' = DOMAIN calls \cup {c}
      /\ calls'[c] = row
      /\ \A d \in DOMAIN calls : calls'[d] = calls[d]
      /\ calls' \in [DOMAIN calls \cup {c} -> Call]
  BY <1>1, <1>2 DEF Put, TypeOK
<1>. QED
  BY <1>1, <1>3, <1>4

\* reserve.
LEMMA ReserveLedger ==
  ASSUME LedgerInv, NEW l \in granted, NEW c \in CallId, NEW p \in Nat, NEW m \in Nat,
         Reserve(l, c, p, m)
  PROVE  LedgerInv'
<1>. USE DEF LedgerInv
<1>1. /\ c \notin DOMAIN calls
      /\ Holds(l)
      /\ UNCHANGED <<run, work, artifacts, granted>>
      /\ l.work \in DOMAIN work
  BY ReservedRow DEF Holds
<1>2. /\ DOMAIN calls' = DOMAIN calls \cup {c}
      /\ calls' \in [DOMAIN calls \cup {c} -> Call]
      /\ calls'[c].work = l.work
      /\ calls'[c].epoch = l.epoch
      /\ calls'[c].state = "reserved"
      /\ Charge(calls'[c]) = p + m
      /\ \A d \in DOMAIN calls : calls'[d] = calls[d]
  BY ReservedRow
<1>3. TypeOK'
  BY <1>1, <1>2 DEF TypeOK
<1>4. ReservationsBacked'
  BY <1>1, <1>2 DEF ReservationsBacked, Holds
<1>5. UnknownNotOffered'
  BY <1>1, <1>2 DEF UnknownNotOffered
<1>6. UncertainIsUnknown'
  BY <1>1, <1>2 DEF UncertainIsUnknown, Unknown
<1>7. GrantsBounded' /\ OwnersLease' /\ NewestLeaseFenced'
  BY <1>1 DEF GrantsBounded, OwnersLease, NewestLeaseFenced, Holds
<1>8. HeldOverArtifacts' /\ RunMatchesWork'
  BY <1>1 DEF HeldOverArtifacts, RunMatchesWork
<1>9. WithinBudget'
  <2>. DEFINE f == [d \in DOMAIN calls |-> Charge(calls[d])]
              g == [d \in DOMAIN calls' |-> Charge(calls'[d])]
  <2>1. f \in [DOMAIN calls -> Nat] /\ g \in [DOMAIN calls \cup {c} -> Nat]
    BY <1>2, ChargeNat DEF TypeOK
  <2>2. g[c] = p + m /\ \A d \in DOMAIN calls : g[d] = f[d]
    BY <1>2
  <2>3. Spent = SumFunction(f) /\ Spent' = SumFunction(g)
    BY DEF Spent
  <2>. HIDE DEF f, g
  <2>4. SumFunction(g) = (p + m) + SumFunction(f)
    BY <1>1, <2>1, <2>2, FiniteCalls, TotalInsert
  <2>5. SumFunction(f) \in Nat
    BY <2>1, FiniteCalls, TotalNat
  <2>6. Spent + p + m <= TokenCap /\ Cardinality(DOMAIN calls) < MaxCalls
    BY DEF Reserve
  <2>7. Cardinality(DOMAIN calls') = Cardinality(DOMAIN calls) + 1
    BY <1>1, <1>2, FiniteCalls, FS_AddElement
  <2>8. Cardinality(DOMAIN calls) \in Nat
    BY FiniteCalls, FS_CardinalityType
  <2>. QED
    BY <2>3, <2>4, <2>5, <2>6, <2>7, <2>8, LimitAssumption DEF WithinBudget
<1>. QED
  BY <1>3, <1>4, <1>5, <1>6, <1>7, <1>8, <1>9

\* The row Dispatch leaves, and that it touches no other.
LEMMA DispatchedRow ==
  ASSUME TypeOK, NEW l \in granted, NEW c \in DOMAIN calls, Dispatch(l, c)
  PROVE  /\ Holds(l)
         /\ UNCHANGED <<run, work, artifacts, granted>>
         /\ calls[c].state = "reserved"
         /\ calls[c].work = l.work
         /\ DOMAIN calls' = DOMAIN calls
         /\ calls' \in [DOMAIN calls -> Call]
         /\ calls'[c].work = calls[c].work
         /\ calls'[c].epoch = calls[c].epoch
         /\ calls'[c].state = "dispatched"
         /\ Charge(calls'[c]) = Charge(calls[c])
         /\ \A d \in DOMAIN calls \ {c} : calls'[d] = calls[d]
<1>1. /\ calls' = [calls EXCEPT ![c].state = "dispatched"]
      /\ calls[c].state = "reserved" /\ calls[c].work = l.work
      /\ Holds(l)
      /\ UNCHANGED <<run, work, artifacts, granted>>
  BY DEF Dispatch
<1>2. /\ calls'[c].state = "dispatched"
      /\ calls'[c].work = calls[c].work
      /\ calls'[c].epoch = calls[c].epoch
      /\ calls'[c].prompt = calls[c].prompt
      /\ calls'[c].maximum = calls[c].maximum
  BY <1>1 DEF TypeOK, Call
<1>3. calls' \in [DOMAIN calls -> Call]
  BY <1>1 DEF TypeOK, Call, CallState, Unsettled
<1>4. Charge(calls'[c]) = Charge(calls[c])
  BY <1>1, <1>2 DEF Charge, Unsettled
<1>. QED
  BY <1>1, <1>2, <1>3, <1>4 DEF TypeOK

\* dispatch.
LEMMA DispatchLedger ==
  ASSUME LedgerInv, NEW l \in granted, NEW c \in DOMAIN calls, Dispatch(l, c)
  PROVE  LedgerInv'
<1>. USE DEF LedgerInv
<1>1. /\ UNCHANGED <<run, work, artifacts, granted>>
      /\ calls[c].state = "reserved"
      /\ DOMAIN calls' = DOMAIN calls
      /\ calls' \in [DOMAIN calls -> Call]
      /\ calls'[c].work = calls[c].work
      /\ calls'[c].epoch = calls[c].epoch
      /\ calls'[c].state = "dispatched"
      /\ Charge(calls'[c]) = Charge(calls[c])
      /\ \A d \in DOMAIN calls \ {c} : calls'[d] = calls[d]
  BY DispatchedRow
<1>2. TypeOK'
  BY <1>1 DEF TypeOK
<1>3. ReservationsBacked'
  BY <1>1 DEF ReservationsBacked
<1>4. UnknownNotOffered'
  BY <1>1 DEF UnknownNotOffered, ReservationsBacked
<1>5. UncertainIsUnknown'
  BY <1>1 DEF UncertainIsUnknown, Unknown
<1>6. GrantsBounded' /\ OwnersLease' /\ NewestLeaseFenced'
  BY <1>1 DEF GrantsBounded, OwnersLease, NewestLeaseFenced, Holds
<1>7. HeldOverArtifacts' /\ RunMatchesWork'
  BY <1>1 DEF HeldOverArtifacts, RunMatchesWork
<1>8. WithinBudget'
  <2>1. \A d \in DOMAIN calls : Charge(calls[d]) \in Nat /\ Charge(calls'[d]) = Charge(calls[d])
    BY <1>1, ChargeNat DEF TypeOK
  <2>. QED
    BY <1>1, <1>2, <2>1, CheaperKeepsBudget
<1>. QED
  BY <1>2, <1>3, <1>4, <1>5, <1>6, <1>7, <1>8

\* The rows Settle leaves.
LEMMA SettledRows ==
  ASSUME TypeOK, NEW c \in DOMAIN calls, NEW n \in Nat, NEW o \in BOOLEAN,
         n <= calls[c].prompt + calls[c].maximum, Settle(c, n, o)
  PROVE  /\ UNCHANGED <<run, artifacts, granted>>
         /\ calls[c].state = "dispatched"
         /\ DOMAIN calls' = DOMAIN calls
         /\ calls' \in [DOMAIN calls -> Call]
         /\ calls'[c].work = calls[c].work
         /\ calls'[c].epoch = calls[c].epoch
         /\ calls'[c].state \in {"received", "response_rejected"}
         /\ Charge(calls'[c]) <= Charge(calls[c])
         /\ \A d \in DOMAIN calls \ {c} : calls'[d] = calls[d]
         /\ DOMAIN work' = DOMAIN work
         /\ work' \in [DOMAIN work -> Row]
         /\ \A v \in DOMAIN work :
              \/ work'[v] = work[v]
              \/ /\ v = calls[c].work
                 /\ run.status = "running"
                 /\ work[v].status = "uncertain"
                 /\ work'[v].status = "ready"
                 /\ work'[v].owner = work[v].owner
                 /\ work'[v].epoch = work[v].epoch
                 /\ work'[v].dependencies = work[v].dependencies
                 /\ \A d \in DOMAIN calls \ {c} :
                      ~(calls[d].work = v /\ calls[d].state = "dispatched")
         /\ (/\ run.status = "running" /\ work[calls[c].work].status = "uncertain"
             /\ work'[calls[c].work] = work[calls[c].work])
            => \E d \in DOMAIN calls \ {c} :
                 calls[d].work = calls[c].work /\ calls[d].state = "dispatched"
<1>. DEFINE w == calls[c].work
            others == {d \in DOMAIN calls \ {c} :
                         calls[d].work = w /\ calls[d].state = "dispatched"}
            freed == run.status = "running" /\ others = {} /\ work[w].status = "uncertain"
<1>1. PICK s \in {"response_rejected", "received"} :
        calls' = [calls EXCEPT ![c].state = s, ![c].actual = n]
  BY DEF Settle
<1>2. /\ calls[c].state = "dispatched"
      /\ work' = IF freed THEN [work EXCEPT ![w].status = "ready"] ELSE work
      /\ UNCHANGED <<run, artifacts, granted>>
  BY DEF Settle
<1>3. w \in DOMAIN work /\ calls[c] \in Call
  BY DEF TypeOK
<1>. DEFINE settled == [calls[c] EXCEPT !.state = s, !.actual = n]
<1>4. /\ settled \in Call
      /\ settled.work = w /\ settled.epoch = calls[c].epoch
      /\ settled.state = s /\ settled.actual = n
  BY <1>3 DEF Call, CallState
<1>5. calls' = [calls EXCEPT ![c] = settled]
  BY <1>1, <1>3 DEF TypeOK, Call
<1>6. Charge(settled) = n /\ Charge(calls[c]) = calls[c].prompt + calls[c].maximum
  <2>. HIDE DEF settled
  <2>. QED
    BY <1>2, <1>4 DEF Charge, Unsettled
<1>. HIDE DEF settled
<1>7. /\ DOMAIN calls' = DOMAIN calls
      /\ calls' \in [DOMAIN calls -> Call]
      /\ calls'[c] = settled
      /\ \A d \in DOMAIN calls \ {c} : calls'[d] = calls[d]
  BY <1>4, <1>5 DEF TypeOK
<1>8. /\ DOMAIN work' = DOMAIN work
      /\ work' \in [DOMAIN work -> Row]
      /\ \A v \in DOMAIN work :
           /\ ~(freed /\ v = w) => work'[v] = work[v]
           /\ freed /\ v = w => /\ work'[v].status = "ready"
                                /\ work'[v].owner = work[v].owner
                                /\ work'[v].epoch = work[v].epoch
                                /\ work'[v].dependencies = work[v].dependencies
  <2>1. CASE freed
    BY <1>2, <1>3, <2>1 DEF TypeOK, Row, WorkStatus
  <2>2. CASE ~freed
    BY <1>2, <2>2 DEF TypeOK
  <2>. QED
    BY <2>1, <2>2
<1>9. freed => /\ run.status = "running" /\ work[w].status = "uncertain"
               /\ \A d \in DOMAIN calls \ {c} :
                    ~(calls[d].work = w /\ calls[d].state = "dispatched")
  OBVIOUS
<1>10. /\ run.status = "running" /\ work[w].status = "uncertain" /\ ~freed
         => \E d \in DOMAIN calls \ {c} : calls[d].work = w /\ calls[d].state = "dispatched"
  OBVIOUS
<1>11. freed => work'[w] # work[w]
  BY <1>3, <1>8, <1>9
<1>. HIDE DEF freed, others
<1>12. Charge(calls'[c]) <= Charge(calls[c])
  BY <1>6, <1>7
<1>13. /\ calls'[c].work = calls[c].work
       /\ calls'[c].epoch = calls[c].epoch
       /\ calls'[c].state \in {"received", "response_rejected"}
  BY <1>4, <1>7
<1>14. \A v \in DOMAIN work :
         \/ work'[v] = work[v]
         \/ /\ v = calls[c].work
            /\ run.status = "running"
            /\ work[v].status = "uncertain"
            /\ work'[v].status = "ready"
            /\ work'[v].owner = work[v].owner
            /\ work'[v].epoch = work[v].epoch
            /\ work'[v].dependencies = work[v].dependencies
            /\ \A d \in DOMAIN calls \ {c} :
                 ~(calls[d].work = v /\ calls[d].state = "dispatched")
  <2>. TAKE v \in DOMAIN work
  <2>1. CASE freed /\ v = w
    BY <1>8, <1>9, <2>1
  <2>2. CASE ~(freed /\ v = w)
    BY <1>8, <2>2
  <2>. QED
    BY <2>1, <2>2
<1>15. run.status = "running" /\ work[w].status = "uncertain" /\ work'[w] = work[w]
         => \E d \in DOMAIN calls \ {c} : calls[d].work = w /\ calls[d].state = "dispatched"
  BY <1>10, <1>11
<1>16. /\ DOMAIN calls' = DOMAIN calls
       /\ calls' \in [DOMAIN calls -> Call]
       /\ \A d \in DOMAIN calls \ {c} : calls'[d] = calls[d]
       /\ DOMAIN work' = DOMAIN work
       /\ work' \in [DOMAIN work -> Row]
  BY <1>7, <1>8
<1>17. calls[c].state = "dispatched" /\ UNCHANGED <<run, artifacts, granted>>
  BY <1>2
<1>. QED
  BY <1>12, <1>13, <1>14, <1>15, <1>16, <1>17, Zenon

\* receive, whatever usage it settles up to the reservation.
LEMMA SettleLedger ==
  ASSUME LedgerInv, NEW c \in DOMAIN calls, NEW n \in Nat, NEW o \in BOOLEAN,
         n <= calls[c].prompt + calls[c].maximum, Settle(c, n, o)
  PROVE  LedgerInv'
<1>. USE DEF LedgerInv
<1>. DEFINE w == calls[c].work
<1>1. /\ UNCHANGED <<run, artifacts, granted>>
      /\ calls[c].state = "dispatched"
      /\ DOMAIN calls' = DOMAIN calls
      /\ calls' \in [DOMAIN calls -> Call]
      /\ calls'[c].work = w
      /\ calls'[c].epoch = calls[c].epoch
      /\ calls'[c].state \in {"received", "response_rejected"}
      /\ Charge(calls'[c]) <= Charge(calls[c])
      /\ \A d \in DOMAIN calls \ {c} : calls'[d] = calls[d]
  BY SettledRows
<1>2. /\ DOMAIN work' = DOMAIN work
      /\ work' \in [DOMAIN work -> Row]
      /\ \A v \in DOMAIN work :
           \/ work'[v] = work[v]
           \/ /\ v = w
              /\ work[v].status = "uncertain"
              /\ work'[v].status = "ready"
              /\ work'[v].owner = work[v].owner
              /\ work'[v].epoch = work[v].epoch
              /\ work'[v].dependencies = work[v].dependencies
              /\ \A d \in DOMAIN calls \ {c} :
                   ~(calls[d].work = v /\ calls[d].state = "dispatched")
  BY SettledRows
<1>3. run.status = "running" /\ work[w].status = "uncertain" /\ work'[w] = work[w]
        => \E d \in DOMAIN calls \ {c} : calls[d].work = w /\ calls[d].state = "dispatched"
  BY SettledRows
<1>4. TypeOK'
  BY <1>1, <1>2 DEF TypeOK
<1>5. ReservationsBacked'
  BY <1>1, <1>2 DEF TypeOK, ReservationsBacked
<1>6. UnknownNotOffered'
  BY <1>1, <1>2 DEF TypeOK, UnknownNotOffered
<1>7. UncertainIsUnknown'
  <2>. SUFFICES ASSUME NEW v \in DOMAIN work, work'[v].status = "uncertain"
                PROVE  Unknown(v)'
    BY <1>2 DEF UncertainIsUnknown
  <2>1. work'[v] = work[v]
    BY <1>2
  <2>2. PICK d \in DOMAIN calls : calls[d].work = v /\ calls[d].state = "dispatched"
    BY <2>1 DEF UncertainIsUnknown, Unknown
  <2>3. CASE d # c
    BY <1>1, <2>2, <2>3 DEF Unknown
  <2>4. CASE d = c
    <3>1. v = w /\ run.status = "running"
      BY <2>1, <2>2, <2>4 DEF TypeOK, Run, RunStatus, RunMatchesWork
    <3>2. PICK e \in DOMAIN calls \ {c} : calls[e].work = v /\ calls[e].state = "dispatched"
      BY <1>3, <2>1, <3>1
    <3>. QED
      BY <1>1, <3>2 DEF Unknown
  <2>. QED
    BY <2>3, <2>4
<1>8. GrantsBounded'
  BY <1>1, <1>2 DEF GrantsBounded
<1>9. OwnersLease'
  BY <1>2 DEF OwnersLease
<1>10. NewestLeaseFenced'
  BY <1>1, <1>2 DEF NewestLeaseFenced, GrantsBounded, Holds
<1>11. HeldOverArtifacts'
  <2>1. \A v \in DOMAIN work : work'[v].dependencies = work[v].dependencies
    BY <1>2
  <2>2. \A v \in DOMAIN work : work'[v].status \in {"leased", "uncertain"} =>
                                 work'[v].status = work[v].status
    BY <1>2
  <2>. QED
    BY <1>1, <1>2, <2>1, <2>2 DEF HeldOverArtifacts
<1>12. RunMatchesWork'
  BY <1>1, <1>2 DEF RunMatchesWork
<1>13. WithinBudget'
  <2>1. \A d \in DOMAIN calls : Charge(calls[d]) \in Nat /\ Charge(calls'[d]) <= Charge(calls[d])
    BY <1>1, ChargeNat DEF TypeOK
  <2>. QED
    BY <1>1, <1>4, <2>1, CheaperKeepsBudget
<1>. QED
  BY <1>4, <1>5, <1>6, <1>7, <1>8, <1>9, <1>10, <1>11, <1>12, <1>13

-----------------------------------------------------------------------------
\* The end of a work

\* The rows a work is ended from.
LEMMA EndingRows ==
  ASSUME LedgerInv, NEW w \in DOMAIN work, NEW a \in Agent, NEW rows, NEW freed,
         EndsFrom(rows, w, a, freed)
  PROVE  /\ rows \in [DOMAIN work -> Row]
         /\ freed \subseteq Expired
         /\ rows[w].dependencies = work[w].dependencies
         /\ rows[w].dependencies \subseteq DOMAIN artifacts
         /\ rows[w].epoch \in Nat /\ rows[w].epoch >= work[w].epoch
         /\ rows[w].epoch > 0
         /\ rows[w].epoch # work[w].epoch => ~Unknown(w)
         /\ work[w].status \in {"ready", "leased"}
         /\ \A v \in DOMAIN work \ {w} :
              /\ rows[v].epoch = work[v].epoch
              /\ rows[v].dependencies = work[v].dependencies
              /\ v \notin freed => rows[v] = work[v]
              /\ v \in freed =>
                   /\ work[v].status = "leased"
                   /\ rows[v].owner = None
                   /\ Unknown(v) => rows[v].status = "uncertain"
                   /\ ~Unknown(v) => rows[v].status = "ready"
<1>. USE DEF LedgerInv
<1>0. /\ work \in [DOMAIN work -> Row]
      /\ work[w].epoch \in Nat
  BY DEF TypeOK, Row
<1>1. CASE freed = {} /\ rows = work /\ work[w].status = "leased"
  BY <1>0, <1>1 DEF HeldOverArtifacts, OwnersLease
<1>2. CASE freed = Expired /\ rows = RecoveredWork /\ RecoveredWork[w].status = "leased"
  <2>1. RecoveredWork[w] = work[w] /\ work[w].status = "leased"
    BY <1>2, RecoveredRows
  <2>2. \A v \in DOMAIN work \ {w} : v \in freed => work[v].status = "leased"
    BY <1>2, ExpiredRows
  <2>. QED
    BY <1>0, <1>2, <2>1, <2>2, RecoveredRows DEF HeldOverArtifacts, OwnersLease
<1>3. CASE /\ freed = Expired
           /\ rows = [RecoveredWork EXCEPT ![w] = Leased(RecoveredWork[w], a)]
           /\ Claimable(a, w, RecoveredWork)
  <2>1. RecoveredWork[w] \in Row /\ RecoveredWork[w].epoch = work[w].epoch
    BY RecoveredRows
  <2>2. /\ rows \in [DOMAIN work -> Row]
        /\ rows[w].epoch = work[w].epoch + 1
        /\ rows[w].dependencies = RecoveredWork[w].dependencies
        /\ \A v \in DOMAIN work \ {w} : rows[v] = RecoveredWork[v]
    BY <1>3, <2>1, RecoveredRows, LeasedRow
  <2>3. /\ RecoveredWork[w].dependencies \subseteq DOMAIN artifacts
        /\ RecoveredWork[w].status = "ready"
    BY <1>3 DEF Claimable
  <2>4. ~Unknown(w)
    <3>1. CASE w \in Expired
      BY <2>3, <3>1, RecoveredRows
    <3>2. CASE w \notin Expired
      BY <2>3, <3>2, RecoveredRows DEF Unknown, UnknownNotOffered
    <3>. QED
      BY <3>1, <3>2
  <2>5. work[w].status \in {"ready", "leased"}
    BY <2>3, RecoveredRows, ExpiredRows
  <2>6. \A v \in DOMAIN work \ {w} : v \in freed => work[v].status = "leased"
    BY <1>3, ExpiredRows
  <2>7. rows[w].epoch \in Nat /\ rows[w].epoch >= work[w].epoch /\ rows[w].epoch > 0
    BY <1>0, <2>2
  <2>. QED
    BY <1>3, <2>2, <2>3, <2>4, <2>5, <2>6, <2>7, RecoveredRows
<1>. QED
  BY <1>1, <1>2, <1>3 DEF EndsFrom

\* The run and the other tables once w is ended.
LEMMA EndedTables ==
  ASSUME LedgerInv, NEW w \in DOMAIN work, NEW a \in Agent, NEW rows, NEW freed,
         EndsFrom(rows, w, a, freed), Ended(rows, w, freed)
  PROVE  /\ DOMAIN work' = DOMAIN work
         /\ work' \in [DOMAIN work -> Row]
         /\ work'[w].status = "done"
         /\ work'[w].owner = None
         /\ work'[w].epoch = rows[w].epoch
         /\ work'[w].dependencies = work[w].dependencies
         /\ \A v \in DOMAIN work \ {w} : work'[v] = rows[v]
         /\ run' \in Run
         /\ run'.status = "running" \/ run'.status = "completed"
         /\ run'.enabled = run.enabled /\ run'.generation = run.generation
         /\ run'.status = "completed" <=> \A v \in DOMAIN work : work'[v].status = "done"
         /\ calls' = Abandon(freed \cup {w})
         /\ granted' = granted
<1>. USE DEF LedgerInv
<1>1. /\ rows \in [DOMAIN work -> Row]
      /\ rows[w].dependencies = work[w].dependencies
      /\ \A v \in DOMAIN work \ {w} :
           /\ rows[v].epoch = work[v].epoch
           /\ rows[v].dependencies = work[v].dependencies
           /\ v \notin freed => rows[v] = work[v]
           /\ v \in freed =>
                /\ work[v].status = "leased"
                /\ rows[v].owner = None
                /\ Unknown(v) => rows[v].status = "uncertain"
                /\ ~Unknown(v) => rows[v].status = "ready"
  BY EndingRows
<1>2. /\ calls' = Abandon(freed \cup {w})
      /\ work' = [rows EXCEPT ![w] = Free(rows[w], "done")]
      /\ run' = IF \A v \in DOMAIN rows \ {w} : rows[v].status = "done"
                THEN [run EXCEPT !.status = "completed"] ELSE run
      /\ granted' = granted
      /\ run.status = "running"
  BY DEF Ended, LastOpen, EndsFrom
<1>3. /\ Free(rows[w], "done") \in Row
      /\ Free(rows[w], "done").status = "done"
      /\ Free(rows[w], "done").owner = None
      /\ Free(rows[w], "done").epoch = rows[w].epoch
      /\ Free(rows[w], "done").dependencies = rows[w].dependencies
  BY <1>1, FreedRow DEF WorkStatus
<1>4. /\ DOMAIN work' = DOMAIN work
      /\ work' \in [DOMAIN work -> Row]
      /\ work'[w] = Free(rows[w], "done")
      /\ \A v \in DOMAIN work \ {w} : work'[v] = rows[v]
  BY <1>1, <1>2, <1>3
<1>5. /\ run' \in Run
      /\ run'.status = "running" \/ run'.status = "completed"
      /\ run'.enabled = run.enabled /\ run'.generation = run.generation
      /\ run'.status = "completed" <=> \A v \in DOMAIN work \ {w} : rows[v].status = "done"
  BY <1>1, <1>2 DEF TypeOK, Run, RunStatus
<1>6. run'.status = "completed" <=> \A v \in DOMAIN work : work'[v].status = "done"
  BY <1>3, <1>4, <1>5
<1>. QED
  BY <1>1, <1>2, <1>3, <1>4, <1>5, <1>6


\* The other rows once w is ended.
LEMMA EndedOthers ==
  ASSUME LedgerInv, NEW w \in DOMAIN work, NEW a \in Agent, NEW rows, NEW freed,
         EndsFrom(rows, w, a, freed), Ended(rows, w, freed),
         NEW v \in DOMAIN work \ {w}
  PROVE  /\ work'[v].epoch = work[v].epoch
         /\ work'[v].dependencies = work[v].dependencies
         /\ v \notin freed => work'[v] = work[v]
         /\ v \in freed =>
              /\ work[v].status = "leased"
              /\ work'[v].owner = None
              /\ Unknown(v) => work'[v].status = "uncertain"
              /\ ~Unknown(v) => work'[v].status = "ready"
<1>1. rows \in [DOMAIN work -> Row]
  BY EndingRows
<1>2. work'[v] = rows[v]
  BY <1>1 DEF Ended
<1>. QED
  BY <1>2, EndingRows

\* Ended with or without an artifact.
LEMMA EndLedger ==
  ASSUME LedgerInv, NEW w \in DOMAIN work, NEW a \in Agent, NEW rows, NEW freed,
         EndsFrom(rows, w, a, freed), Ended(rows, w, freed),
         artifacts' \in [DOMAIN artifacts' -> Artifact],
         DOMAIN artifacts \subseteq DOMAIN artifacts',
         DOMAIN artifacts' \subseteq DOMAIN artifacts \cup {w}
  PROVE  LedgerInv'
<1>1. /\ DOMAIN work' = DOMAIN work
      /\ work' \in [DOMAIN work -> Row]
      /\ work'[w].status = "done"
      /\ work'[w].owner = None
      /\ work'[w].epoch = rows[w].epoch
      /\ work'[w].dependencies = work[w].dependencies
      /\ \A v \in DOMAIN work \ {w} :
           /\ work'[v].epoch = work[v].epoch
           /\ work'[v].dependencies = work[v].dependencies
           /\ v \notin freed => work'[v] = work[v]
           /\ v \in freed =>
                /\ work[v].status = "leased"
                /\ work'[v].owner = None
                /\ Unknown(v) => work'[v].status = "uncertain"
                /\ ~Unknown(v) => work'[v].status = "ready"
  <2>1. /\ DOMAIN work' = DOMAIN work
        /\ work' \in [DOMAIN work -> Row]
        /\ work'[w].status = "done"
        /\ work'[w].owner = None
        /\ work'[w].epoch = rows[w].epoch
        /\ work'[w].dependencies = work[w].dependencies
    BY EndedTables
  <2>2. \A v \in DOMAIN work \ {w} :
           /\ work'[v].epoch = work[v].epoch
           /\ work'[v].dependencies = work[v].dependencies
           /\ v \notin freed => work'[v] = work[v]
           /\ v \in freed =>
                /\ work[v].status = "leased"
                /\ work'[v].owner = None
                /\ Unknown(v) => work'[v].status = "uncertain"
                /\ ~Unknown(v) => work'[v].status = "ready"
    BY EndedOthers
  <2>. QED
    BY <2>1, <2>2
<1>2. /\ run' \in Run
      /\ run'.status = "running" \/ run'.status = "completed"
      /\ run'.enabled = run.enabled /\ run'.generation = run.generation
      /\ run'.status = "completed" <=> \A v \in DOMAIN work : work'[v].status = "done"
      /\ calls' = Abandon(freed \cup {w})
      /\ granted' = granted
  BY EndedTables
<1>0. /\ rows[w].epoch \in Nat /\ rows[w].epoch >= work[w].epoch
      /\ rows[w].dependencies = work[w].dependencies
      /\ rows[w].dependencies \subseteq DOMAIN artifacts
  BY EndingRows
<1>. USE DEF LedgerInv
<1>3. TypeOK'
  BY <1>1, <1>2, AbandonedCalls DEF TypeOK
<1>4. \A d \in DOMAIN calls :
        /\ calls'[d].work = calls[d].work
        /\ calls'[d].epoch = calls[d].epoch
        /\ calls'[d].state = IF calls[d].work \in freed \cup {w} /\ calls[d].state = "reserved"
                             THEN "abandoned" ELSE calls[d].state
        /\ calls[d].work \in DOMAIN work
  BY <1>2, AbandonedCalls DEF TypeOK
<1>5. DOMAIN calls' = DOMAIN calls
  BY <1>2, AbandonedCalls
<1>6. ReservationsBacked'
  <2>. SUFFICES ASSUME NEW d \in DOMAIN calls, calls'[d].state = "reserved"
                PROVE  /\ run'.status = "running"
                       /\ work'[calls'[d].work].status = "leased"
                       /\ work'[calls'[d].work].epoch = calls'[d].epoch
    BY <1>5 DEF ReservationsBacked
  <2>1. /\ calls[d].state = "reserved"
        /\ calls[d].work \in DOMAIN work \ {w}
        /\ calls[d].work \notin freed
    BY <1>4
  <2>2. work'[calls[d].work] = work[calls[d].work]
    BY <1>1, <2>1
  <2>3. /\ work[calls[d].work].status = "leased"
        /\ work[calls[d].work].epoch = calls[d].epoch
    BY <2>1 DEF ReservationsBacked
  <2>4. run'.status = "running"
    BY <1>2, <2>1, <2>2, <2>3
  <2>. QED
    BY <1>4, <2>2, <2>3, <2>4
<1>7. UnknownNotOffered'
  <2>. SUFFICES ASSUME NEW d \in DOMAIN calls, calls'[d].state = "dispatched"
                PROVE  LET row == work'[calls'[d].work] IN
                       /\ row.status # "ready"
                       /\ row.status = "leased" => row.epoch = calls'[d].epoch
    BY <1>5 DEF UnknownNotOffered
  <2>1. calls[d].state = "dispatched"
    BY <1>4
  <2>2. Unknown(calls[d].work)
    BY <2>1 DEF Unknown
  <2>3. CASE calls[d].work = w
    BY <1>1, <1>4, <2>3
  <2>4. CASE calls[d].work # w /\ calls[d].work \in freed
    BY <1>1, <1>4, <2>2, <2>4
  <2>5. CASE calls[d].work # w /\ calls[d].work \notin freed
    BY <1>1, <1>4, <2>1, <2>5 DEF UnknownNotOffered
  <2>. QED
    BY <2>3, <2>4, <2>5
<1>8. UncertainIsUnknown'
  BY <1>1, <1>2, UnknownKept DEF UncertainIsUnknown
<1>9. GrantsBounded'
  BY <1>0, <1>1, <1>2 DEF TypeOK, GrantsBounded, Row, Lease
<1>10. OwnersLease'
  BY <1>1 DEF OwnersLease
<1>11. NewestLeaseFenced'
  <2>1. \A l \in granted : Holds(l)' => l.epoch = work'[l.work].epoch
    BY <1>2 DEF Holds
  <2>. QED
    BY <1>2, <1>9, <2>1 DEF NewestLeaseFenced, GrantsBounded
<1>12. HeldOverArtifacts'
  <2>1. \A v \in DOMAIN work \ {w} :
          work'[v].status \in {"leased", "uncertain"} \/ v \in DOMAIN artifacts' =>
            work[v].status \in {"leased", "uncertain"} \/ v \in DOMAIN artifacts
    BY <1>1
  <2>. QED
    BY <1>0, <1>1, <2>1 DEF HeldOverArtifacts
<1>13. RunMatchesWork'
  <2>1. \A v \in DOMAIN work : work'[v].status # "cancelled"
    <3>. SUFFICES ASSUME NEW v \in DOMAIN work PROVE work'[v].status # "cancelled"
      OBVIOUS
    <3>1. work[v].status # "cancelled"
      BY DEF RunMatchesWork, EndsFrom
    <3>. QED
      BY <1>1, <3>1
  <2>. QED
    BY <1>1, <1>2, <2>1 DEF RunMatchesWork
<1>14. WithinBudget'
  BY <1>2, <1>3, AbandonedCalls, AbandonedCheaper, CheaperKeepsBudget
<1>. QED
  BY <1>3, <1>6, <1>7, <1>8, <1>9, <1>10, <1>11, <1>12, <1>13, <1>14

\* publish and publish_received.
LEMMA PublishedLedger ==
  ASSUME LedgerInv, NEW w \in DOMAIN work, NEW a \in Agent, NEW c \in DOMAIN calls,
         Published(w, a, c)
  PROVE  LedgerInv'
<1>1. PICK rows, freed : /\ EndsFrom(rows, w, a, freed)
                         /\ RecordArtifact(rows, w, a, c, freed)
  BY DEF Published
<1>2. Ended(rows, w, freed)
  BY <1>1 DEF RecordArtifact, Ended
<1>3. /\ artifacts' = Put(artifacts, w, [call |-> c, publisher |-> a])
      /\ c \in CallId
      /\ artifacts \in [DOMAIN artifacts -> Artifact]
  BY <1>1 DEF RecordArtifact, LedgerInv, TypeOK
<1>4. /\ DOMAIN artifacts' = DOMAIN artifacts \cup {w}
      /\ artifacts' \in [DOMAIN artifacts' -> Artifact]
  BY <1>3 DEF Put, Artifact
<1>. QED
  BY <1>1, <1>2, <1>4, EndLedger

-----------------------------------------------------------------------------
\* Cancellation, and the step as a whole

\* The rows Cancel leaves.
LEMMA CancelledRows ==
  ASSUME TypeOK, Cancel
  PROVE  /\ DOMAIN work' = DOMAIN work
         /\ work' \in [DOMAIN work -> Row]
         /\ \A w \in DOMAIN work :
              /\ work'[w].epoch = work[w].epoch
              /\ work'[w].dependencies = work[w].dependencies
              /\ work[w].status = "done" => work'[w] = work[w]
              /\ work[w].status # "done" =>
                   work'[w].status = "cancelled" /\ work'[w].owner = None
<1>1. work' = [w \in DOMAIN work |->
                 IF work[w].status # "done" THEN Free(work[w], "cancelled") ELSE work[w]]
  BY DEF Cancel, OpenWork
<1>2. \A w \in DOMAIN work : work[w] \in Row
  BY DEF TypeOK
<1>. QED
  BY <1>1, <1>2, FreedRow DEF WorkStatus

\* cancel.
LEMMA CancelLedger == ASSUME LedgerInv, Cancel PROVE LedgerInv'
<1>1. /\ run' = [status |-> "cancelled", enabled |-> FALSE, generation |-> run.generation + 1]
      /\ calls' = Abandon(OpenWork)
      /\ UNCHANGED <<artifacts, granted>>
  BY DEF Cancel
<1>2. /\ DOMAIN work' = DOMAIN work
      /\ work' \in [DOMAIN work -> Row]
      /\ \A w \in DOMAIN work :
           /\ work'[w].epoch = work[w].epoch
           /\ work'[w].dependencies = work[w].dependencies
           /\ work[w].status = "done" => work'[w] = work[w]
           /\ work[w].status # "done" =>
                work'[w].status = "cancelled" /\ work'[w].owner = None
  BY CancelledRows DEF LedgerInv
<1>. USE DEF LedgerInv
<1>3. TypeOK'
  BY <1>1, <1>2, AbandonedCalls DEF TypeOK, Run, RunStatus
<1>4. ReservationsBacked'
  BY <1>1, AbandonedCalls DEF TypeOK, ReservationsBacked, OpenWork
<1>5. UnknownNotOffered'
  BY <1>1, <1>2, AbandonedCalls DEF TypeOK, UnknownNotOffered
<1>6. UncertainIsUnknown'
  BY <1>2 DEF UncertainIsUnknown
<1>7. GrantsBounded' /\ OwnersLease'
  BY <1>1, <1>2 DEF GrantsBounded, OwnersLease
<1>8. NewestLeaseFenced'
  BY <1>1 DEF NewestLeaseFenced, Holds
<1>9. HeldOverArtifacts'
  <2>1. \A w \in DOMAIN work : work'[w].status \notin {"leased", "uncertain"}
    BY <1>2
  <2>. QED
    BY <1>1, <1>2, <2>1 DEF HeldOverArtifacts
<1>10. RunMatchesWork'
  BY <1>1, <1>2 DEF RunMatchesWork
<1>11. WithinBudget'
  BY <1>1, <1>3, AbandonedCalls, AbandonedCheaper, CheaperKeepsBudget
<1>. QED
  BY <1>3, <1>4, <1>5, <1>6, <1>7, <1>8, <1>9, <1>10, <1>11

\* A step that leaves the base tables alone.
LEMMA StutterLedger == ASSUME LedgerInv, UNCHANGED vars PROVE LedgerInv'
BY DEF vars, LedgerInv, TypeOK, ReservationsBacked, UnknownNotOffered, UncertainIsUnknown,
       Unknown, GrantsBounded, OwnersLease, NewestLeaseFenced, Holds, HeldOverArtifacts,
       RunMatchesWork, WithinBudget, Spent

\* Whatever a transaction of the base class does, in whichever layer.
LEMMA LedgerKept == ASSUME LedgerInv, [LedgerNext]_vars PROVE LedgerInv'
<1>1. CASE \E w \in DOMAIN work : Expire(w)
  BY <1>1, ExpireLedger
<1>2. CASE Recover
  BY <1>2, RecoverLedger
<1>3. CASE \E a \in Agent, w \in DOMAIN work : Claim(a, w)
  BY <1>3, ClaimLedger
<1>4. CASE \E l \in granted, c \in CallId, p \in Nat, m \in Nat : Reserve(l, c, p, m)
  BY <1>4, ReserveLedger
<1>5. CASE \E l \in granted, c \in DOMAIN calls : Dispatch(l, c)
  BY <1>5, DispatchLedger
<1>6. CASE \E c \in DOMAIN calls, n \in Nat, o \in BOOLEAN :
             n <= calls[c].prompt + calls[c].maximum /\ Settle(c, n, o)
  BY <1>6, SettleLedger
<1>7. CASE \E w \in DOMAIN work, a \in Agent, c \in DOMAIN calls : Published(w, a, c)
  BY <1>7, PublishedLedger
<1>8. CASE Cancel
  BY <1>8, CancelLedger
<1>9. CASE UNCHANGED vars
  BY <1>9, StutterLedger
<1>. QED
  BY <1>1, <1>2, <1>3, <1>4, <1>5, <1>6, <1>7, <1>8, <1>9 DEF LedgerNext

-----------------------------------------------------------------------------
\* What a step keeps

Closed == {"done", "cancelled", "superseded"}

\* Work of the set ended becomes terminal, no other; an owner changes only by a
\* claim, which asks for the dependencies and is not made while a call is unknown.
RowsKept(ended) ==
  /\ DOMAIN work' = DOMAIN work
  /\ \A w \in DOMAIN work :
       /\ work'[w].dependencies = work[w].dependencies
       /\ work'[w].status = "done" <=> work[w].status = "done" \/ w \in ended
       /\ work[w].status \in Closed => work'[w].status \in Closed
       /\ work'[w].status = "superseded" => work[w].status = "superseded"
       /\ \/ work'[w].epoch = work[w].epoch /\ work'[w].owner \in {work[w].owner, None}
          \/ /\ work'[w].epoch # work[w].epoch
             /\ ~Unknown(w) /\ work[w].dependencies \subseteq DOMAIN artifacts

\* Calls are never forgotten, never cost more than when they were reserved, and move
\* through their states in order.
CallsKept ==
  /\ DOMAIN calls \subseteq DOMAIN calls'
  /\ \A c \in DOMAIN calls :
       /\ calls'[c].work = calls[c].work
       /\ calls'[c].epoch = calls[c].epoch
       /\ Charge(calls'[c]) <= Charge(calls[c])
       /\ calls[c].state \notin Unsettled => calls'[c].state = calls[c].state
       /\ calls'[c].state = "reserved" => calls[c].state = "reserved"
       /\ calls'[c].state = "dispatched" =>
            \/ calls[c].state = "dispatched"
            \/ calls[c].state = "reserved" /\ UNCHANGED work
  /\ \A c \in DOMAIN calls' \ DOMAIN calls : calls'[c].state = "reserved"

\* Artifacts are kept as they are, and new ones name a receipt.
ArtifactsKept ==
  /\ DOMAIN artifacts \subseteq DOMAIN artifacts'
  /\ \A w \in DOMAIN artifacts : artifacts'[w] = artifacts[w]
  /\ \A w \in DOMAIN artifacts' \ DOMAIN artifacts :
       /\ w \in DOMAIN work
       /\ work[w].status # "done"
       /\ artifacts'[w].call \in DOMAIN calls
       /\ calls[artifacts'[w].call].state = "received"

Fresh == DOMAIN artifacts' \ DOMAIN artifacts

\* Abandoning keeps what is known of every call.
LEMMA AbandonKeepsCalls ==
  ASSUME TypeOK, NEW W, calls' = Abandon(W)
  PROVE  CallsKept
<1>1. DOMAIN calls' = DOMAIN calls
  BY AbandonedCalls
<1>2. ASSUME NEW c \in DOMAIN calls
      PROVE  /\ calls'[c].work = calls[c].work
             /\ calls'[c].epoch = calls[c].epoch
             /\ calls'[c].state = IF calls[c].work \in W /\ calls[c].state = "reserved"
                                  THEN "abandoned" ELSE calls[c].state
             /\ Charge(calls'[c]) <= Charge(calls[c])
  BY AbandonedCalls, AbandonedCheaper
<1>. QED
  BY <1>1, <1>2 DEF CallsKept, Unsettled

\* So does leaving the calls alone.
LEMMA SameCallsKept ==
  ASSUME TypeOK, UNCHANGED calls
  PROVE  CallsKept
<1>1. \A c \in DOMAIN calls : Charge(calls[c]) \in Nat
  BY ChargeNat DEF TypeOK
<1>. QED
  BY <1>1 DEF CallsKept

\* A step that leaves the artifacts alone publishes nothing.
LEMMA SameArtifactsKept ==
  ASSUME UNCHANGED artifacts
  PROVE  ArtifactsKept /\ Fresh = {}
BY DEF ArtifactsKept, Fresh

\* Rows of which none is claimed or ended.
LEMMA SameRowsKept ==
  ASSUME DOMAIN work' = DOMAIN work,
         \A w \in DOMAIN work :
           /\ work'[w].dependencies = work[w].dependencies
           /\ work'[w].epoch = work[w].epoch
           /\ work'[w].owner \in {work[w].owner, None}
           /\ \/ work'[w].status = work[w].status
              \/ /\ work[w].status \in {"leased", "uncertain"}
                 /\ work'[w].status \in {"ready", "uncertain"}
  PROVE  RowsKept({})
BY DEF RowsKept, Closed

\* Whether an artifact is recorded or not.
LEMMA EndKeeps ==
  ASSUME LedgerInv, NEW w \in DOMAIN work, NEW a \in Agent, NEW rows, NEW freed,
         EndsFrom(rows, w, a, freed), Ended(rows, w, freed)
  PROVE  RowsKept({w}) /\ CallsKept
<1>1. DOMAIN work' = DOMAIN work
  BY EndedTables
<1>2. /\ work'[w].dependencies = work[w].dependencies
      /\ work'[w].status = "done"
      /\ work'[w].owner = None
      /\ work'[w].epoch = rows[w].epoch
  BY EndedTables
<1>3. /\ work[w].status \in {"ready", "leased"}
      /\ rows[w].epoch # work[w].epoch => ~Unknown(w)
      /\ work[w].dependencies \subseteq DOMAIN artifacts
  BY EndingRows
<1>4. ASSUME NEW v \in DOMAIN work \ {w}
      PROVE  /\ work'[v].epoch = work[v].epoch
             /\ work'[v].dependencies = work[v].dependencies
             /\ \/ work'[v] = work[v]
                \/ /\ work[v].status = "leased" /\ work'[v].owner = None
                   /\ work'[v].status \in {"uncertain", "ready"}
  <2>1. CASE v \in freed
    BY <2>1, EndedOthers
  <2>2. CASE v \notin freed
    BY <2>2, EndedOthers
  <2>. QED
    BY <2>1, <2>2
<1>5. RowsKept({w})
  <2>1. ASSUME NEW v \in DOMAIN work
        PROVE  /\ work'[v].dependencies = work[v].dependencies
               /\ work'[v].status = "done" <=> work[v].status = "done" \/ v = w
               /\ work[v].status \in Closed => work'[v].status \in Closed
               /\ work'[v].status = "superseded" => work[v].status = "superseded"
               /\ \/ work'[v].epoch = work[v].epoch /\ work'[v].owner \in {work[v].owner, None}
                  \/ /\ work'[v].epoch # work[v].epoch
                     /\ ~Unknown(v) /\ work[v].dependencies \subseteq DOMAIN artifacts
    <3>1. CASE v = w
      BY <1>2, <1>3, <3>1 DEF Closed
    <3>2. CASE v # w
      BY <1>4, <3>2 DEF Closed
    <3>. QED
      BY <3>1, <3>2
  <2>. QED
    BY <1>1, <2>1 DEF RowsKept
<1>6. CallsKept
  BY EndedTables, AbandonKeepsCalls DEF LedgerInv
<1>. QED
  BY <1>5, <1>6

\* A publication closes its own work and nothing else.
LEMMA PublishedKeeps ==
  ASSUME LedgerInv, NEW w \in DOMAIN work, NEW a \in Agent, NEW c \in DOMAIN calls,
         Published(w, a, c)
  PROVE  RowsKept(Fresh) /\ CallsKept /\ ArtifactsKept
<1>1. PICK rows, freed : /\ EndsFrom(rows, w, a, freed)
                         /\ RecordArtifact(rows, w, a, c, freed)
  BY DEF Published
<1>2. Ended(rows, w, freed)
  BY <1>1 DEF RecordArtifact, Ended
<1>3. /\ w \notin DOMAIN artifacts
      /\ artifacts' = Put(artifacts, w, [call |-> c, publisher |-> a])
      /\ calls[c].state = "received"
  BY <1>1 DEF RecordArtifact, Published
<1>4. work[w].status \in {"ready", "leased"}
  BY <1>1, EndingRows
<1>5. Fresh = {w} /\ ArtifactsKept
  BY <1>3, <1>4 DEF Put, Fresh, ArtifactsKept
<1>. QED
  BY <1>1, <1>2, <1>5, EndKeeps

\* What any step of base code leaves of the tables it found.
LEMMA StepKeeps ==
  ASSUME LedgerInv, [LedgerNext]_vars
  PROVE  RowsKept(Fresh) /\ CallsKept /\ ArtifactsKept
<1>0. TypeOK
  BY DEF LedgerInv
<1>1. CASE UNCHANGED vars
  <2>1. RowsKept({})
    BY <1>1, SameRowsKept DEF vars
  <2>. QED
    BY <1>0, <1>1, <2>1, SameCallsKept, SameArtifactsKept DEF vars
<1>2. ASSUME NEW w \in DOMAIN work, Expire(w) PROVE RowsKept(Fresh) /\ CallsKept /\ ArtifactsKept
  <2>1. RowsKept({})
    BY <1>0, <1>2, SameRowsKept DEF Expire, TypeOK, Row
  <2>. QED
    BY <1>0, <1>2, <2>1, SameCallsKept, SameArtifactsKept DEF Expire
<1>3. ASSUME Recover PROVE RowsKept(Fresh) /\ CallsKept /\ ArtifactsKept
  <2>1. RowsKept({})
    BY <1>0, <1>3, RecoveredRows, ExpiredRows, SameRowsKept DEF Recover
  <2>. QED
    BY <1>0, <1>3, <2>1, AbandonKeepsCalls, SameArtifactsKept DEF Recover
<1>4. ASSUME NEW a \in Agent, NEW w \in DOMAIN work, Claim(a, w)
      PROVE  RowsKept(Fresh) /\ CallsKept /\ ArtifactsKept
  <2>1. /\ work' = [RecoveredWork EXCEPT ![w] = Leased(RecoveredWork[w], a)]
        /\ calls' = Abandon(Expired)
        /\ UNCHANGED artifacts
        /\ RecoveredWork[w].status = "ready"
        /\ RecoveredWork[w].dependencies \subseteq DOMAIN artifacts
    BY <1>4 DEF Claim, Claimable
  <2>2. /\ DOMAIN work' = DOMAIN work
        /\ \A v \in DOMAIN work \ {w} : work'[v] = RecoveredWork[v]
        /\ work'[w].status = "leased"
        /\ work'[w].dependencies = work[w].dependencies
        /\ work'[w].epoch # work[w].epoch
    BY <1>0, <2>1, RecoveredRows, LeasedRow DEF TypeOK, Row
  <2>3. work[w].status \in {"ready", "leased"}
    BY <1>0, <2>1, RecoveredRows, ExpiredRows
  <2>4. ~Unknown(w)
    <3>1. CASE w \in Expired
      BY <1>0, <2>1, <3>1, RecoveredRows
    <3>2. CASE w \notin Expired
      BY <1>0, <2>1, <3>2, RecoveredRows DEF LedgerInv, Unknown, UnknownNotOffered
    <3>. QED
      BY <3>1, <3>2
  <2>5. work[w].dependencies \subseteq DOMAIN artifacts
    BY <1>0, <2>1, RecoveredRows
  <2>6. ASSUME NEW v \in DOMAIN work
        PROVE  /\ work'[v].dependencies = work[v].dependencies
               /\ work'[v].status = "done" <=> work[v].status = "done"
               /\ work[v].status \in Closed => work'[v].status \in Closed
               /\ work'[v].status = "superseded" => work[v].status = "superseded"
               /\ \/ work'[v].epoch = work[v].epoch /\ work'[v].owner \in {work[v].owner, None}
                  \/ /\ work'[v].epoch # work[v].epoch
                     /\ ~Unknown(v) /\ work[v].dependencies \subseteq DOMAIN artifacts
    <3>1. CASE v = w
      BY <2>2, <2>3, <2>4, <2>5, <3>1 DEF Closed
    <3>2. CASE v # w /\ v \in Expired
      BY <1>0, <2>2, <3>2, RecoveredRows, ExpiredRows DEF Closed
    <3>3. CASE v # w /\ v \notin Expired
      BY <1>0, <2>2, <3>3, RecoveredRows
    <3>. QED
      BY <3>1, <3>2, <3>3
  <2>7. RowsKept({})
    BY <2>2, <2>6 DEF RowsKept
  <2>. QED
    BY <1>0, <2>1, <2>7, AbandonKeepsCalls, SameArtifactsKept
<1>5. ASSUME NEW l \in granted, NEW c \in CallId, NEW p \in Nat, NEW m \in Nat,
             Reserve(l, c, p, m)
      PROVE  RowsKept(Fresh) /\ CallsKept /\ ArtifactsKept
  <2>1. UNCHANGED <<work, artifacts>>
    BY <1>5 DEF Reserve
  <2>2. /\ DOMAIN calls' = DOMAIN calls \cup {c}
        /\ calls'[c].state = "reserved"
        /\ \A d \in DOMAIN calls : calls'[d] = calls[d]
    BY <1>0, <1>5, ReservedRow
  <2>3. \A d \in DOMAIN calls : Charge(calls[d]) \in Nat
    BY <1>0, ChargeNat DEF TypeOK
  <2>4. CallsKept
    BY <2>2, <2>3 DEF CallsKept
  <2>5. RowsKept({})
    BY <2>1, SameRowsKept
  <2>. QED
    BY <2>1, <2>4, <2>5, SameArtifactsKept
<1>6. ASSUME NEW l \in granted, NEW c \in DOMAIN calls, Dispatch(l, c)
      PROVE  RowsKept(Fresh) /\ CallsKept /\ ArtifactsKept
  <2>1. UNCHANGED <<work, artifacts>>
    BY <1>6 DEF Dispatch
  <2>2. /\ DOMAIN calls' = DOMAIN calls
        /\ calls[c].state = "reserved"
        /\ calls'[c].work = calls[c].work
        /\ calls'[c].epoch = calls[c].epoch
        /\ calls'[c].state = "dispatched"
        /\ Charge(calls'[c]) = Charge(calls[c])
        /\ \A d \in DOMAIN calls \ {c} : calls'[d] = calls[d]
    BY <1>0, <1>6, DispatchedRow
  <2>3. \A d \in DOMAIN calls : Charge(calls[d]) \in Nat
    BY <1>0, ChargeNat DEF TypeOK
  <2>4. CallsKept
    BY <2>1, <2>2, <2>3 DEF CallsKept, Unsettled
  <2>5. RowsKept({})
    BY <2>1, SameRowsKept
  <2>. QED
    BY <2>1, <2>4, <2>5, SameArtifactsKept
<1>7. ASSUME NEW c \in DOMAIN calls, NEW n \in Nat, NEW o \in BOOLEAN,
             n <= calls[c].prompt + calls[c].maximum, Settle(c, n, o)
      PROVE  RowsKept(Fresh) /\ CallsKept /\ ArtifactsKept
  <2>1. /\ UNCHANGED artifacts
        /\ calls[c].state = "dispatched"
        /\ DOMAIN calls' = DOMAIN calls
        /\ calls'[c].work = calls[c].work
        /\ calls'[c].epoch = calls[c].epoch
        /\ calls'[c].state \in {"received", "response_rejected"}
        /\ Charge(calls'[c]) <= Charge(calls[c])
        /\ \A d \in DOMAIN calls \ {c} : calls'[d] = calls[d]
    BY <1>0, <1>7, SettledRows
  <2>2. /\ DOMAIN work' = DOMAIN work
        /\ \A v \in DOMAIN work :
             \/ work'[v] = work[v]
             \/ /\ work[v].status = "uncertain"
                /\ work'[v].status = "ready"
                /\ work'[v].owner = work[v].owner
                /\ work'[v].epoch = work[v].epoch
                /\ work'[v].dependencies = work[v].dependencies
    BY <1>0, <1>7, SettledRows
  <2>3. \A d \in DOMAIN calls : Charge(calls[d]) \in Nat
    BY <1>0, ChargeNat DEF TypeOK
  <2>4. CallsKept
    BY <2>1, <2>3 DEF CallsKept, Unsettled
  <2>5. RowsKept({})
    BY <2>2, SameRowsKept
  <2>. QED
    BY <2>1, <2>4, <2>5, SameArtifactsKept
<1>8. ASSUME NEW w \in DOMAIN work, NEW a \in Agent, NEW c \in DOMAIN calls, Published(w, a, c)
      PROVE  RowsKept(Fresh) /\ CallsKept /\ ArtifactsKept
  BY <1>8, PublishedKeeps
<1>9. ASSUME Cancel PROVE RowsKept(Fresh) /\ CallsKept /\ ArtifactsKept
  <2>1. RowsKept({})
    BY <1>0, <1>9, CancelledRows DEF RowsKept, Closed
  <2>. QED
    BY <1>0, <1>9, <2>1, AbandonKeepsCalls, SameArtifactsKept DEF Cancel
<1>. QED
  BY <1>1, <1>2, <1>3, <1>4, <1>5, <1>6, <1>7, <1>8, <1>9 DEF LedgerNext

-----------------------------------------------------------------------------
\* The base ledger's own steps

\* What is published is published from a receipt of the work itself.
OwnReceipts == \A w \in Fresh : calls[artifacts'[w].call].work = w

\* The actions of Session, and of every layer that runs them, are LedgerNext's.
LEMMA ReserveIsLedger ==
  ASSUME NEW l \in granted, NEW c \in CallId, NEW p \in Tokens, NEW m \in Tokens,
         Reserve(l, c, p, m)
  PROVE  LedgerNext /\ UNCHANGED artifacts
BY LimitAssumption DEF LedgerNext, Reserve

\* receive settles at most what was reserved.
LEMMA ReceiveIsLedger ==
  ASSUME TypeOK, NEW c \in DOMAIN calls, NEW p \in Tokens, NEW q \in Tokens,
         NEW o \in BOOLEAN, Receive(c, p, q, o)
  PROVE  LedgerNext /\ UNCHANGED artifacts
<1>1. p \in Nat /\ q \in Nat
  BY LimitAssumption
<1>2. calls[c].prompt \in Nat /\ calls[c].maximum \in Nat
  BY DEF TypeOK, Call
<1>3. /\ p = calls[c].prompt /\ q <= calls[c].maximum
      /\ Settle(c, p + q, o)
  BY DEF Receive
<1>4. p + q \in Nat /\ p + q <= calls[c].prompt + calls[c].maximum
  BY <1>1, <1>2, <1>3
<1>. QED
  BY <1>3, <1>4 DEF LedgerNext, Settle

\* Recorded from a receipt of the work.
LEMMA RecordIsLedger ==
  ASSUME NEW w \in DOMAIN work, NEW a \in Agent, NEW c \in DOMAIN calls,
         calls[c].work = w, calls[c].state = "received",
         NEW rows, NEW freed, EndsFrom(rows, w, a, freed),
         RecordArtifact(rows, w, a, c, freed)
  PROVE  /\ LedgerNext
         /\ OwnReceipts
         /\ Fresh = {w}
         /\ artifacts'[w] = [call |-> c, publisher |-> a]
<1>1. Published(w, a, c)
  BY DEF Published
<1>2. /\ w \notin DOMAIN artifacts
      /\ artifacts' = Put(artifacts, w, [call |-> c, publisher |-> a])
  BY DEF RecordArtifact
<1>3. Fresh = {w} /\ artifacts'[w] = [call |-> c, publisher |-> a]
  BY <1>2 DEF Put, Fresh
<1>. QED
  BY <1>1, <1>3 DEF LedgerNext, OwnReceipts

\* publish is a publication from a receipt of its own work.
LEMMA PublishIsLedger ==
  ASSUME TypeOK, NEW l \in granted, NEW c \in DOMAIN calls, Publish(l, c)
  PROVE  /\ LedgerNext
         /\ OwnReceipts
         /\ Fresh = {l.work}
         /\ artifacts'[l.work] = [call |-> c, publisher |-> l.owner]
<1>1. /\ l.work \in DOMAIN work /\ l.owner \in Agent
      /\ run.status = "running" /\ work[l.work].status = "leased"
      /\ calls[c].work = l.work /\ calls[c].state = "received"
      /\ RecordArtifact(work, l.work, l.owner, c, {})
  BY DEF Publish, Holds, TypeOK, Lease
<1>2. EndsFrom(work, l.work, l.owner, {})
  BY <1>1 DEF EndsFrom
<1>. QED
  BY <1>1, <1>2, RecordIsLedger

\* So is either form of publish_received, and no outcome of the work is unknown then.
LEMMA PublishReceivedIsLedger ==
  ASSUME TypeOK, NEW a \in Agent, NEW c \in DOMAIN calls,
         PublishHeld(a, c) \/ PublishReclaimed(a, c)
  PROVE  /\ LedgerNext
         /\ OwnReceipts
         /\ ~Unknown(calls[c].work)
         /\ Fresh = {calls[c].work}
         /\ artifacts'[calls[c].work] = [call |-> c, publisher |-> a]
<1>. DEFINE w == calls[c].work
            claimed == [RecoveredWork EXCEPT ![w] = Leased(@, a)]
<1>1. /\ w \in DOMAIN work
      /\ run.status = "running" /\ calls[c].state = "received"
      /\ ~Unknown(w)
  BY DEF TypeOK, PublishHeld, PublishReclaimed, Publishable
<1>2. PICK rows : EndsFrom(rows, w, a, Expired) /\ RecordArtifact(rows, w, a, c, Expired)
  <2>1. CASE PublishHeld(a, c)
    BY <1>1, <2>1 DEF PublishHeld, EndsFrom
  <2>2. CASE PublishReclaimed(a, c)
    <3>1. EndsFrom(claimed, w, a, Expired) /\ RecordArtifact(claimed, w, a, c, Expired)
      BY <1>1, <2>2 DEF PublishReclaimed, EndsFrom
    <3>. QED
      BY <3>1
  <2>. QED
    BY <2>1, <2>2
<1>. QED
  BY <1>1, <1>2, RecordIsLedger

\* Without a publication there is no receipt to compare.
LEMMA OldReceipts == ASSUME UNCHANGED artifacts PROVE OwnReceipts
BY DEF OwnReceipts, Fresh

\* Every step of Session is a step of base code.
LEMMA NextIsLedger ==
  ASSUME TypeOK, [Next]_vars
  PROVE  [LedgerNext]_vars /\ OwnReceipts
<1>1. CASE UNCHANGED vars
  BY <1>1, OldReceipts DEF vars
<1>2. CASE \E w \in DOMAIN work : Expire(w)
  BY <1>2, OldReceipts DEF LedgerNext, Expire
<1>3. CASE Recover
  BY <1>3, OldReceipts DEF LedgerNext, Recover
<1>4. CASE \E a \in Agent, w \in DOMAIN work : Claim(a, w)
  BY <1>4, OldReceipts DEF LedgerNext, Claim
<1>5. CASE \E l \in granted, c \in CallId, p \in Tokens, m \in Tokens : Reserve(l, c, p, m)
  BY <1>5, OldReceipts, ReserveIsLedger
<1>6. CASE \E l \in granted, c \in DOMAIN calls : Dispatch(l, c)
  BY <1>6, OldReceipts DEF LedgerNext, Dispatch
<1>7. CASE \E c \in DOMAIN calls, p \in Tokens, q \in Tokens, o \in BOOLEAN : Receive(c, p, q, o)
  BY <1>7, OldReceipts, ReceiveIsLedger
<1>8. CASE \E l \in granted, c \in DOMAIN calls : Publish(l, c)
  BY <1>8, PublishIsLedger
<1>9. CASE \E a \in Agent, c \in DOMAIN calls : PublishReceived(a, c)
  BY <1>9, PublishReceivedIsLedger DEF PublishReceived
<1>10. CASE Cancel
  BY <1>10, OldReceipts DEF LedgerNext, Cancel
<1>. QED
  BY <1>1, <1>2, <1>3, <1>4, <1>5, <1>6, <1>7, <1>8, <1>9, <1>10 DEF Next

-----------------------------------------------------------------------------
\* What the layers share besides

\* The parts of the argument that look at a step only through what it kept.
LEMMA RetryBlocked ==
  ASSUME LedgerInv, LedgerInv', UnknownBlocksRetry, CallsKept, NEW E, RowsKept(E)
  PROVE  UnknownBlocksRetry'
<1>. SUFFICES ASSUME NEW c \in DOMAIN calls', calls'[c].state = "dispatched"
              PROVE  /\ work'[calls'[c].work].status # "ready"
                     /\ work'[calls'[c].work].epoch = calls'[c].epoch
  BY DEF UnknownBlocksRetry
<1>1. work'[calls'[c].work].status # "ready"
  BY DEF LedgerInv, UnknownNotOffered
<1>2. /\ c \in DOMAIN calls
      /\ calls'[c].work = calls[c].work /\ calls'[c].epoch = calls[c].epoch
  BY DEF CallsKept
<1>3. CASE calls[c].state = "dispatched"
  <2>1. Unknown(calls[c].work) /\ calls[c].work \in DOMAIN work
    BY <1>2, <1>3 DEF Unknown, LedgerInv, TypeOK
  <2>2. work'[calls[c].work].epoch = work[calls[c].work].epoch
    BY <2>1 DEF RowsKept
  <2>. QED
    BY <1>1, <1>2, <1>3, <2>2 DEF UnknownBlocksRetry
<1>4. CASE calls[c].state = "reserved" /\ UNCHANGED work
  BY <1>1, <1>2, <1>4 DEF LedgerInv, ReservationsBacked
<1>. QED
  BY <1>2, <1>3, <1>4 DEF CallsKept

\* An artifact goes on naming the receipt it was made from.
LEMMA ReceiptsKept ==
  ASSUME TypeOK, ArtifactsBacked,
         OwnReceipts, CallsKept, ArtifactsKept, NEW E, Fresh \subseteq E, RowsKept(E)
  PROVE  ArtifactsBacked'
<1>. SUFFICES ASSUME NEW w \in DOMAIN artifacts'
              PROVE  /\ work'[w].status = "done"
                     /\ artifacts'[w].call \in DOMAIN calls'
                     /\ calls'[artifacts'[w].call].work = w
                     /\ calls'[artifacts'[w].call].state = "received"
  BY DEF ArtifactsBacked
<1>1. /\ artifacts'[w].call \in DOMAIN calls
      /\ calls[artifacts'[w].call].work = w
      /\ calls[artifacts'[w].call].state = "received"
      /\ w \in Fresh \/ work[w].status = "done"
  BY DEF ArtifactsBacked, ArtifactsKept, OwnReceipts, Fresh
<1>2. w \in DOMAIN work
  BY DEF TypeOK, ArtifactsKept, Fresh
<1>. QED
  BY <1>1, <1>2 DEF CallsKept, RowsKept, Unsettled

\* Work stays done for its artifact, and the artifact for its work.
LEMMA PublishedStays ==
  ASSUME LedgerInv, DoneMeansPublished, OwnReceipts, CallsKept, ArtifactsKept, RowsKept(Fresh)
  PROVE  DoneMeansPublished'
<1>1. ArtifactsBacked
  BY DEF DoneMeansPublished, ArtifactsBacked
<1>2. ArtifactsBacked'
  BY <1>1, ReceiptsKept DEF LedgerInv
<1>3. DOMAIN artifacts' = {w \in DOMAIN work' : work'[w].status = "done"}
  BY DEF DoneMeansPublished, RowsKept, ArtifactsKept, Fresh
<1>. QED
  BY <1>2, <1>3 DEF ArtifactsBacked, DoneMeansPublished

\* Rows keep their dependencies and artifacts are never withdrawn.
LEMMA DependenciesStayFirst ==
  ASSUME DependenciesFirst, ArtifactsKept, NEW E, RowsKept(E)
  PROVE  DependenciesFirst'
BY DEF DependenciesFirst, ArtifactsKept, RowsKept

-----------------------------------------------------------------------------
\* Invariance

\* create.
LEMMA InitInv == Init => IInv
BY InitLedger, DeclarationAssumption DEF Init, IInv

\* Every step.
LEMMA NextInv == IInv /\ [Next]_vars => IInv'
<1>. SUFFICES ASSUME IInv, [Next]_vars PROVE IInv'
  OBVIOUS
<1>1. LedgerInv /\ TypeOK
  BY DEF IInv, LedgerInv
<1>2. [LedgerNext]_vars /\ OwnReceipts
  BY <1>1, NextIsLedger
<1>3. LedgerInv'
  BY <1>1, <1>2, LedgerKept
<1>4. RowsKept(Fresh) /\ CallsKept /\ ArtifactsKept
  BY <1>1, <1>2, StepKeeps
<1>. QED
  BY <1>1, <1>2, <1>3, <1>4, RetryBlocked, PublishedStays, DependenciesStayFirst DEF IInv

\* Every reachable state satisfies IInv: whatever the order in which any number
\* of processes claim, lose leases, reserve, dispatch, receive, publish, cancel.
THEOREM Invariance == Spec => []IInv
BY InitInv, NextInv, PTL DEF Spec

\* Every row of every table keeps its type.
THEOREM TypeCorrect == Spec => []TypeOK
BY Invariance, PTL DEF IInv, LedgerInv

\* The run never spends beyond its token cap or its number of calls: a reservation
\* is taken only while it fits, and no settlement costs more than was reserved.
THEOREM BudgetKept == Spec => []WithinBudget
BY Invariance, PTL DEF IInv, LedgerInv

\* No reservation outlives its lease.
THEOREM NoLeakedReservation == Spec => []ReservationsBacked
BY Invariance, PTL DEF IInv, LedgerInv

\* Work with a call of unknown outcome is not leased to anybody else.
THEOREM NoBlindRetry == Spec => [](UnknownBlocksRetry /\ UncertainIsUnknown)
BY Invariance, PTL DEF IInv, LedgerInv

\* A superseded lease passes no check.
THEOREM Fencing == Spec => []NewestLeaseFenced
BY Invariance, PTL DEF IInv, LedgerInv

\* Artifacts, work rows and the run row agree, in dependency order.
THEOREM Consistency == Spec => [](DoneMeansPublished /\ DependenciesFirst /\ RunMatchesWork)
BY Invariance, PTL DEF IInv, LedgerInv

-----------------------------------------------------------------------------
\* Session implements EffectOnce under the mapping of Effects.

decidedBar == {<<w, artifacts[w].call>> : w \in DOMAIN artifacts}

\* The effect a state of a call stands for.
LEMMA EffectOfState ==
  ASSUME NEW c \in CallId
  PROVE  /\ c \notin DOMAIN calls => EffectOf(c) = "idle"
         /\ c \in DOMAIN calls =>
              /\ calls[c].state = "reserved" => EffectOf(c) = "idle"
              /\ calls[c].state = "dispatched" => EffectOf(c) = "begun"
              /\ calls[c].state = "abandoned" => EffectOf(c) = "void"
              /\ calls[c].state \in {"received", "response_rejected"} => EffectOf(c) = "known"
BY DEF EffectOf, EffectIn

\* A call whose state does not move has the effect it had.
LEMMA SameEffect ==
  ASSUME NEW c \in CallId,
         c \in DOMAIN calls <=> c \in DOMAIN calls',
         c \in DOMAIN calls => calls'[c].state = calls[c].state
  PROVE  EffectOf(c)' = EffectOf(c)
BY DEF EffectOf

\* Abandoned reservations are effects that never began.
LEMMA AbandonVoids ==
  ASSUME TypeOK, NEW W, calls' = Abandon(W)
  PROVE  \E V \in SUBSET CallId : Effects!Void(V)
<1>. DEFINE V == {c \in DOMAIN calls : calls[c].work \in W /\ calls[c].state = "reserved"}
<1>1. V \in SUBSET CallId
  BY DEF TypeOK
<1>2. \A c \in V : EffectOf(c) = "idle"
  BY DEF EffectOf, EffectIn
<1>3. \A c \in CallId : EffectOf(c)' = IF c \in V THEN "void" ELSE EffectOf(c)
  <2>. TAKE c \in CallId
  <2>1. CASE c \in V
    <3>1. c \in DOMAIN calls' /\ calls'[c].state = "abandoned"
      BY <2>1, AbandonedCalls
    <3>2. EffectOf(c)' = "void"
      BY <3>1 DEF EffectOf, EffectIn
    <3>. QED
      BY <2>1, <3>2
  <2>2. CASE c \notin V
    BY <2>2, SameEffect, AbandonedCalls
  <2>. QED
    BY <2>1, <2>2
<1>. QED
  BY <1>1, <1>2, <1>3 DEF Effects!Void

\* create.
LEMMA InitEffects == Init => Effects!Init
BY DEF Init, InitOf, Effects!Init, EffectOf

\* dispatch begins an effect.
LEMMA DispatchEffects ==
  ASSUME TypeOK, NEW l \in granted, NEW c \in DOMAIN calls, Dispatch(l, c)
  PROVE  Effects!Next
<1>1. /\ calls' = [calls EXCEPT ![c].state = "dispatched"]
      /\ calls[c].state = "reserved"
      /\ run.status = "running"
      /\ UNCHANGED <<run, artifacts>>
      /\ c \in CallId
  BY DEF Dispatch, Holds, TypeOK
<1>2. /\ DOMAIN calls' = DOMAIN calls
      /\ calls'[c].state = "dispatched"
      /\ \A d \in DOMAIN calls \ {c} : calls'[d] = calls[d]
  BY <1>1 DEF TypeOK, Call
<1>3. /\ EffectOf(c) = "idle"
      /\ EffectOf(c)' = "begun"
      /\ \A d \in CallId \ {c} : EffectOf(d)' = EffectOf(d)
  <2>1. EffectOf(c) = "idle"
    BY <1>1, EffectOfState
  <2>2. EffectOf(c)' = "begun"
    BY <1>2 DEF EffectOf, EffectIn
  <2>3. \A d \in CallId \ {c} : EffectOf(d)' = EffectOf(d)
    BY <1>2, SameEffect
  <2>. QED
    BY <2>1, <2>2, <2>3
<1>4. Effects!Begin(c)
  BY <1>1, <1>3 DEF Effects!Begin
<1>. QED
  BY <1>1, <1>4 DEF Effects!Next

\* receive makes it known.
LEMMA SettleEffects ==
  ASSUME TypeOK, NEW c \in DOMAIN calls, NEW n \in Nat, NEW o \in BOOLEAN,
         n <= calls[c].prompt + calls[c].maximum, Settle(c, n, o)
  PROVE  Effects!Next
<1>1. /\ calls[c].state = "dispatched"
      /\ UNCHANGED <<run, artifacts>>
      /\ c \in CallId
  BY DEF Settle, TypeOK
<1>2. /\ DOMAIN calls' = DOMAIN calls
      /\ calls'[c].state \in {"received", "response_rejected"}
      /\ \A d \in DOMAIN calls \ {c} : calls'[d] = calls[d]
  BY SettledRows
<1>3. /\ EffectOf(c) = "begun"
      /\ EffectOf(c)' = "known"
      /\ \A d \in CallId \ {c} : EffectOf(d)' = EffectOf(d)
  <2>1. EffectOf(c) = "begun"
    BY <1>1, EffectOfState
  <2>2. EffectOf(c)' = "known"
    BY <1>2 DEF EffectOf, EffectIn
  <2>3. \A d \in CallId \ {c} : EffectOf(d)' = EffectOf(d)
    BY <1>2, SameEffect
  <2>. QED
    BY <2>1, <2>2, <2>3
<1>4. Effects!Learn(c)
  BY <1>1, <1>3 DEF Effects!Learn
<1>. QED
  BY <1>1, <1>4 DEF Effects!Next

\* A publication decides its work from a known effect.
LEMMA RecordEffects ==
  ASSUME TypeOK, ArtifactsBacked, run.status = "running",
         NEW w \in DOMAIN work, NEW a \in Agent, NEW c \in DOMAIN calls,
         calls[c].work = w, calls[c].state = "received",
         NEW freed, NEW rows,
         RecordArtifact(rows, w, a, c, freed)
  PROVE  Effects!Next
<1>1. /\ w \notin DOMAIN artifacts
      /\ artifacts' = Put(artifacts, w, [call |-> c, publisher |-> a])
      /\ calls' = Abandon(freed \cup {w})
      /\ run'.status \in {"running", "completed"}
      /\ w \in Work /\ c \in CallId
  BY DEF RecordArtifact, TypeOK, Run
<1>2. decidedBar' = decidedBar \cup {<<w, c>>}
  BY <1>1 DEF decidedBar, Put
<1>3. \A d \in decidedBar : d[1] # w /\ d[2] # c
  BY <1>1 DEF decidedBar, ArtifactsBacked
<1>4. EffectOf(c) = "known"
  BY DEF EffectOf, EffectIn
<1>5. PICK V \in SUBSET CallId : Effects!Void(V)
  BY <1>1, AbandonVoids
<1>6. (run'.status = "running") \in {run.status = "running", FALSE}
  BY <1>1
<1>7. Effects!Decide(w, c, V)
  BY <1>1, <1>2, <1>3, <1>4, <1>5, <1>6 DEF Effects!Decide, decidedBar
<1>. QED
  BY <1>1, <1>7 DEF Effects!Next

\* Work that ends without an artifact decides nothing; it may close the run.
LEMMA EndEffects ==
  ASSUME TypeOK, NEW w, NEW rows, NEW freed, Ended(rows, w, freed), UNCHANGED artifacts
  PROVE  Effects!Next
<1>1. PICK V \in SUBSET CallId : Effects!Void(V)
  BY AbandonVoids DEF Ended
<1>2. CASE run' = run
  <2>1. Effects!Withdraw(V)
    BY <1>1, <1>2 DEF Effects!Withdraw
  <2>. QED
    BY <2>1 DEF Effects!Next
<1>3. CASE run' = [run EXCEPT !.status = "completed"]
  <2>1. run'.status = "completed"
    BY <1>3 DEF TypeOK, Run
  <2>2. Effects!Close(V)
    BY <1>1, <2>1 DEF Effects!Close
  <2>. QED
    BY <2>2 DEF Effects!Next
<1>. QED
  BY <1>2, <1>3 DEF Ended

\* cancel closes the run.
LEMMA CancelEffects == ASSUME TypeOK, Cancel PROVE Effects!Next
<1>1. PICK V \in SUBSET CallId : Effects!Void(V)
  BY AbandonVoids DEF Cancel
<1>2. Effects!Close(V)
  BY <1>1 DEF Cancel, Effects!Close
<1>. QED
  BY <1>2 DEF Effects!Next

\* A step that abandons reservations and does nothing else the outside sees.
LEMMA WithdrawEffects ==
  ASSUME TypeOK, NEW W, calls' = Abandon(W), UNCHANGED <<run, artifacts>>
  PROVE  Effects!Next
<1>1. PICK V \in SUBSET CallId : Effects!Void(V)
  BY AbandonVoids
<1>2. Effects!Withdraw(V)
  BY <1>1 DEF Effects!Withdraw
<1>. QED
  BY <1>2 DEF Effects!Next

\* A step that changes no call row but for inserting reserved ones.
LEMMA SilentEffects ==
  ASSUME UNCHANGED <<run, artifacts>>,
         \A c \in CallId : EffectOf(c)' = EffectOf(c)
  PROVE  UNCHANGED Effects!vars
BY DEF Effects!vars

\* Every step of every layer that only runs code of the base class.
LEMMA StepEffects ==
  ASSUME TypeOK, ArtifactsBacked, OwnReceipts, [LedgerNext]_vars
  PROVE  [Effects!Next]_(Effects!vars)
<1>1. ASSUME NEW w \in DOMAIN work, Expire(w) PROVE UNCHANGED Effects!vars
  BY <1>1, SilentEffects DEF Expire, EffectOf
<1>2. ASSUME Recover PROVE Effects!Next
  BY <1>2, WithdrawEffects DEF Recover
<1>3. ASSUME NEW a \in Agent, NEW w \in DOMAIN work, Claim(a, w) PROVE Effects!Next
  BY <1>3, WithdrawEffects DEF Claim
<1>4. ASSUME NEW l \in granted, NEW c \in CallId, NEW p \in Nat, NEW m \in Nat,
             Reserve(l, c, p, m)
      PROVE  UNCHANGED Effects!vars
  <2>1. c \notin DOMAIN calls /\ UNCHANGED <<run, artifacts>>
    BY <1>4 DEF Reserve
  <2>2. /\ DOMAIN calls' = DOMAIN calls \cup {c}
        /\ calls'[c].state = "reserved"
        /\ \A d \in DOMAIN calls : calls'[d] = calls[d]
    BY <1>4, ReservedRow
  <2>3. \A d \in CallId \ {c} : EffectOf(d)' = EffectOf(d)
    BY <2>2 DEF EffectOf
  <2>4. EffectOf(c)' = "idle" /\ EffectOf(c) = "idle"
    BY <2>1, <2>2 DEF EffectOf, EffectIn
  <2>. QED
    BY <2>1, <2>3, <2>4, SilentEffects
<1>5. ASSUME NEW l \in granted, NEW c \in DOMAIN calls, Dispatch(l, c) PROVE Effects!Next
  BY <1>5, DispatchEffects
<1>6. ASSUME NEW c \in DOMAIN calls, NEW n \in Nat, NEW o \in BOOLEAN,
             n <= calls[c].prompt + calls[c].maximum, Settle(c, n, o)
      PROVE  Effects!Next
  BY <1>6, SettleEffects
<1>7. ASSUME NEW w \in DOMAIN work, NEW a \in Agent, NEW c \in DOMAIN calls,
             Published(w, a, c)
      PROVE  Effects!Next
  <2>1. PICK rows, freed : /\ EndsFrom(rows, w, a, freed)
                           /\ RecordArtifact(rows, w, a, c, freed)
    BY <1>7 DEF Published
  <2>2. /\ w \notin DOMAIN artifacts
        /\ artifacts' = Put(artifacts, w, [call |-> c, publisher |-> a])
        /\ run.status = "running"
        /\ calls[c].state = "received"
    BY <1>7, <2>1 DEF Published, EndsFrom, RecordArtifact
  <2>3. w \in Fresh /\ artifacts'[w].call = c
    BY <2>2 DEF Put, Fresh
  <2>4. calls[c].work = w
    BY <2>3 DEF OwnReceipts
  <2>. QED
    BY <2>1, <2>2, <2>4, RecordEffects
<1>8. ASSUME Cancel PROVE Effects!Next
  BY <1>8, CancelEffects
<1>9. ASSUME UNCHANGED vars PROVE UNCHANGED Effects!vars
  BY <1>9, SilentEffects DEF vars, EffectOf
<1>. QED
  BY <1>1, <1>2, <1>3, <1>4, <1>5, <1>6, <1>7, <1>8, <1>9 DEF LedgerNext

\* The ledger keeps the abstract promise: no call is executed twice or after it was
\* abandoned, no work is decided twice or from an unknown outcome, and a stopped
\* run starts nothing.
THEOREM Refinement == Spec => EffectsAtMostOnce
<1>1. Init => Effects!Init
  BY InitEffects
<1>2. IInv /\ [Next]_vars => [Effects!Next]_(Effects!vars)
  <2>. SUFFICES ASSUME IInv, [Next]_vars PROVE [Effects!Next]_(Effects!vars)
    OBVIOUS
  <2>1. TypeOK /\ ArtifactsBacked
    BY DEF IInv, LedgerInv, DoneMeansPublished, ArtifactsBacked
  <2>2. [LedgerNext]_vars /\ OwnReceipts
    BY <2>1, NextIsLedger
  <2>. QED
    BY <2>1, <2>2, StepEffects
<1>. QED
  BY <1>1, <1>2, Invariance, PTL DEF Spec, EffectsAtMostOnce, Effects!Spec
=============================================================================
