------------------------------ MODULE SumLemmas ------------------------------
(***************************************************************************)
(* What SumFunction and SumFunctionOnSet compute, for every function of    *)
(* natural numbers over a finite set.  The sum of the community module is  *)
(* a recursive function over subsets; here it is shown to count the units  *)
(* of which its terms consist (SumCounts), so that sums follow the laws of *)
(* cardinalities.  Induction over a finite set is stated for a family of   *)
(* subsets (SubsetInduction), by way of a smallest set outside it.         *)
(***************************************************************************)
EXTENDS Functions, FiniteSetTheorems, TLAPS

\* A family of subsets of a finite set has a smallest member.
LEMMA SmallestSubset ==
    ASSUME NEW S, IsFiniteSet(S), NEW F \in SUBSET SUBSET S, F # {}
    PROVE  \E T \in F : \A U \in F : U \subseteq T => U = T
<1>1. IsWellFoundedOn(StrictSubsetOrdering(S), FiniteSubsetsOf(S))
  BY FS_StrictSubsetOrderingWellFounded
<1>2. F \subseteq FiniteSubsetsOf(S)
  BY FS_FiniteSubsetsOfFinite
<1>3. \E T \in F : \A U \in F : ~ (<<U, T>> \in StrictSubsetOrdering(S))
  BY <1>1, <1>2, WFMin
<1> QED BY <1>3 DEF StrictSubsetOrdering

\* A family that holds the empty set, and with a set each of its extensions
\* by one element, holds every subset.
LEMMA SubsetInduction ==
    ASSUME NEW S, IsFiniteSet(S), NEW G,
           {} \in G,
           \A T \in SUBSET S : \A x \in S \ T : T \in G => T \cup {x} \in G
    PROVE  \A T \in SUBSET S : T \in G
<1> DEFINE F == (SUBSET S) \ G
<1> SUFFICES ASSUME F # {} PROVE FALSE
  OBVIOUS
<1>1. PICK T \in F : \A U \in F : U \subseteq T => U = T
  <2>1. F \in SUBSET SUBSET S
    OBVIOUS
  <2> HIDE DEF F
  <2> QED BY <2>1, SmallestSubset
<1>2. PICK x \in T : TRUE
  OBVIOUS
<1>3. T \ {x} \in SUBSET S /\ T \ {x} \in G
  BY <1>1, <1>2
<1>4. (T \ {x}) \cup {x} \in G
  BY <1>1, <1>2, <1>3
<1>5. (T \ {x}) \cup {x} = T
  BY <1>2
<1> QED BY <1>1, <1>4, <1>5

\* Induction up to a number, from the smallest initial segment that is not
\* within the set.
LEMMA UpToInduction ==
    ASSUME NEW n \in Nat, NEW G, 0 \in G,
           \A i \in 0 .. n - 1 : i \in G => i + 1 \in G
    PROVE  \A i \in 0 .. n : i \in G
<1> DEFINE D == 0 .. n
           F == {0 .. i : i \in {j \in D : j \notin G}}
<1> SUFFICES ASSUME F # {} PROVE FALSE
  OBVIOUS
<1>1. PICK T \in F : \A U \in F : U \subseteq T => U = T
  <2>1. F \in SUBSET SUBSET D
    OBVIOUS
  <2>2. IsFiniteSet(D)
    BY FS_Interval
  <2> HIDE DEF D, F
  <2> QED BY <2>1, <2>2, SmallestSubset
<1>2. PICK k \in D : k \notin G /\ T = 0 .. k
  OBVIOUS
<1>3. k # 0 /\ k - 1 \in D /\ (k - 1) + 1 = k
  BY <1>2
<1>4. k - 1 \notin G
  BY <1>2, <1>3
<1>5. 0 .. (k - 1) \in F /\ 0 .. (k - 1) \subseteq T /\ k \in T /\ k \notin 0 .. (k - 1)
  BY <1>2, <1>3, <1>4
<1> QED BY <1>1, <1>5
-----------------------------------------------------------------------------
\* The units of the terms f[i], kept apart by their index.
UnitsOf(f, i) == {i} \X (1 .. f[i])
Units(f, S)   == UNION {UnitsOf(f, i) : i \in S}

LEMMA UnitsOfTerm ==
    ASSUME NEW f, NEW i, f[i] \in Nat
    PROVE  IsFiniteSet(UnitsOf(f, i)) /\ Cardinality(UnitsOf(f, i)) = f[i]
<1>1. IsFiniteSet({i}) /\ Cardinality({i}) = 1
  BY FS_Singleton
<1>2. IsFiniteSet(1 .. f[i]) /\ Cardinality(1 .. f[i]) = f[i]
  BY FS_Interval
<1>3. /\ IsFiniteSet(UnitsOf(f, i))
      /\ Cardinality(UnitsOf(f, i)) = Cardinality({i}) * Cardinality(1 .. f[i])
  BY <1>1, <1>2, FS_Product DEF UnitsOf
<1> QED BY <1>1, <1>2, <1>3

LEMMA UnitsFinite ==
    ASSUME NEW S, IsFiniteSet(S), NEW f, \A i \in S : f[i] \in Nat
    PROVE  IsFiniteSet(Units(f, S))
<1> DEFINE G == {T \in SUBSET S : IsFiniteSet(Units(f, T))}
<1>1. {} \in G
  BY FS_EmptySet DEF Units
<1>2. ASSUME NEW T \in SUBSET S, NEW x \in S \ T, T \in G
      PROVE  T \cup {x} \in G
  <2>1. Units(f, T \cup {x}) = Units(f, T) \cup UnitsOf(f, x)
    BY DEF Units
  <2>2. IsFiniteSet(UnitsOf(f, x))
    BY UnitsOfTerm
  <2> QED BY <1>2, <2>1, <2>2, FS_Union
<1>3. \A T \in SUBSET S : T \in G
  <2> HIDE DEF G
  <2> QED BY <1>1, <1>2, SubsetInduction
<1> QED BY <1>3

LEMMA UnitsOfOneMore ==
    ASSUME NEW S, IsFiniteSet(S), NEW f, \A i \in S : f[i] \in Nat, NEW x \in S
    PROVE  Cardinality(Units(f, S)) = f[x] + Cardinality(Units(f, S \ {x}))
<1> DEFINE A == UnitsOf(f, x)
           B == Units(f, S \ {x})
<1>1. Units(f, S) = A \cup B
  BY DEF Units
<1>2. A \cap B = {}
  BY DEF Units, UnitsOf
<1>3. IsFiniteSet(A) /\ Cardinality(A) = f[x]
  BY UnitsOfTerm
<1>4. IsFiniteSet(B)
  <2>1. IsFiniteSet(S \ {x})
    BY FS_RemoveElement
  <2> QED BY <2>1, UnitsFinite
<1>5. f[x] \in Nat /\ Cardinality(B) \in Nat /\ Cardinality({}) = 0
  BY <1>3, <1>4, FS_CardinalityType, FS_EmptySet
<1> HIDE DEF A, B
<1>6. Cardinality(A \cup B) = Cardinality(A) + Cardinality(B) - Cardinality(A \cap B)
  BY <1>3, <1>4, FS_Union
<1>7. Cardinality(A \cup B) = f[x] + Cardinality(B)
  <2>1. Cardinality(A \cap B) = 0
    BY <1>2, <1>5
  <2> QED BY <1>3, <1>5, <1>6, <2>1
<1> QED BY <1>1, <1>7 DEF B

\* The recursion that SumFunctionOnSet stands for.
Picked(s)    == CHOOSE x \in s : TRUE
SumsTo(g, f, S) ==
    g = [s \in SUBSET S |-> IF s = {} THEN 0 ELSE f[Picked(s)] + g[s \ {Picked(s)}]]

LEMMA SumIsRecursive ==
    ASSUME NEW f, NEW S
    PROVE  SumFunctionOnSet(f, S) = (CHOOSE g : SumsTo(g, f, S))[S]
BY DEF SumFunctionOnSet, FoldFunctionOnSet, MapThenFoldSet, SumsTo, Picked

\* A sum of natural numbers is the number of their units.
LEMMA SumCounts ==
    ASSUME NEW S, IsFiniteSet(S), NEW f, \A i \in S : f[i] \in Nat
    PROVE  SumFunctionOnSet(f, S) = Cardinality(Units(f, S))
<1> DEFINE count == [s \in SUBSET S |-> Cardinality(Units(f, s))]
<1>0. \A s \in SUBSET S : IsFiniteSet(s)
  BY FS_Subset
<1>1. Cardinality(Units(f, {})) = 0
  BY FS_EmptySet DEF Units
<1>2. \A s \in SUBSET S : s # {} =>
        Cardinality(Units(f, s)) = f[Picked(s)] + Cardinality(Units(f, s \ {Picked(s)}))
  <2> SUFFICES ASSUME NEW s \in SUBSET S, s # {}
               PROVE  Cardinality(Units(f, s))
                        = f[Picked(s)] + Cardinality(Units(f, s \ {Picked(s)}))
    OBVIOUS
  <2>1. Picked(s) \in s
    BY DEF Picked
  <2> QED BY <1>0, <2>1, UnitsOfOneMore
<1>3. SumsTo(count, f, S)
  BY <1>1, <1>2 DEF SumsTo, Picked
<1> DEFINE g == CHOOSE h : SumsTo(h, f, S)
<1>4. SumsTo(g, f, S)
  BY <1>3
<1> HIDE DEF g, count
<1> DEFINE G == {T \in SUBSET S : g[T] = Cardinality(Units(f, T))}
<1>5. \A T \in SUBSET S : T \in G
  <2> DEFINE F == (SUBSET S) \ G
  <2> SUFFICES ASSUME F # {} PROVE FALSE
    OBVIOUS
  <2>1. PICK T \in F : \A U \in F : U \subseteq T => U = T
    <3>1. F \in SUBSET SUBSET S
      OBVIOUS
    <3> HIDE DEF F
    <3> QED BY <3>1, SmallestSubset
  <2>2. CASE T = {}
    <3>1. g[T] = 0
      BY <1>4, <2>2 DEF SumsTo
    <3> QED BY <1>1, <2>1, <2>2, <3>1
  <2>3. CASE T # {}
    <3>1. Picked(T) \in T
      BY <2>3 DEF Picked
    <3>2. g[T] = f[Picked(T)] + g[T \ {Picked(T)}]
      BY <1>4, <2>1, <2>3 DEF SumsTo
    <3>3. g[T \ {Picked(T)}] = Cardinality(Units(f, T \ {Picked(T)}))
      BY <2>1, <3>1
    <3>4. g[T] = Cardinality(Units(f, T))
      BY <1>2, <2>1, <2>3, <3>2, <3>3
    <3> QED BY <2>1, <3>4
  <2> QED BY <2>2, <2>3
<1>6. SumFunctionOnSet(f, S) = g[S]
  BY SumIsRecursive DEF g
<1> QED BY <1>5, <1>6
-----------------------------------------------------------------------------
LEMMA SumNatural ==
    ASSUME NEW S, IsFiniteSet(S), NEW f, \A i \in S : f[i] \in Nat
    PROVE  SumFunctionOnSet(f, S) \in Nat
<1>1. Cardinality(Units(f, S)) \in Nat
  BY UnitsFinite, FS_CardinalityType
<1> QED BY <1>1, SumCounts

LEMMA SumEmpty ==
    ASSUME NEW f
    PROVE  SumFunctionOnSet(f, {}) = 0
<1>1. SumFunctionOnSet(f, {}) = Cardinality(Units(f, {}))
  BY SumCounts, FS_EmptySet
<1> QED BY <1>1, FS_EmptySet DEF Units

\* One term at a time.
LEMMA SumOneMore ==
    ASSUME NEW S, IsFiniteSet(S), NEW f, \A i \in S : f[i] \in Nat, NEW x \in S
    PROVE  SumFunctionOnSet(f, S) = f[x] + SumFunctionOnSet(f, S \ {x})
<1>1. IsFiniteSet(S \ {x})
  BY FS_RemoveElement
<1>2. SumFunctionOnSet(f, S \ {x}) = Cardinality(Units(f, S \ {x}))
  BY <1>1, SumCounts
<1>3. SumFunctionOnSet(f, S) = Cardinality(Units(f, S))
  BY SumCounts
<1> QED BY <1>2, <1>3, UnitsOfOneMore

\* A sum depends on the terms it sums alone.
LEMMA SumSameTerms ==
    ASSUME NEW S, IsFiniteSet(S), NEW f, NEW g,
           \A i \in S : f[i] \in Nat /\ g[i] = f[i]
    PROVE  SumFunctionOnSet(g, S) = SumFunctionOnSet(f, S)
<1>1. \A i \in S : UnitsOf(g, i) = UnitsOf(f, i)
  BY DEF UnitsOf
<1>2. Units(g, S) = Units(f, S)
  BY <1>1 DEF Units
<1>3. \A i \in S : g[i] \in Nat
  OBVIOUS
<1> QED BY <1>2, <1>3, SumCounts

\* One term changes, and the sum by as much.
LEMMA SumOneChanged ==
    ASSUME NEW S, IsFiniteSet(S), NEW f, NEW g, NEW x \in S,
           \A i \in S : f[i] \in Nat /\ g[i] \in Nat,
           \A i \in S \ {x} : g[i] = f[i]
    PROVE  SumFunctionOnSet(g, S) + f[x] = SumFunctionOnSet(f, S) + g[x]
<1>1. IsFiniteSet(S \ {x})
  BY FS_RemoveElement
<1>2. SumFunctionOnSet(g, S \ {x}) = SumFunctionOnSet(f, S \ {x})
  BY <1>1, SumSameTerms
<1>3. SumFunctionOnSet(f, S \ {x}) \in Nat
  BY <1>1, SumNatural
<1>4. SumFunctionOnSet(f, S) = f[x] + SumFunctionOnSet(f, S \ {x})
  BY SumOneMore
<1>5. SumFunctionOnSet(g, S) = g[x] + SumFunctionOnSet(g, S \ {x})
  BY SumOneMore
<1>6. f[x] \in Nat /\ g[x] \in Nat
  OBVIOUS
<1> QED BY <1>2, <1>3, <1>4, <1>5, <1>6

LEMMA TermWithinSum ==
    ASSUME NEW S, IsFiniteSet(S), NEW f, \A i \in S : f[i] \in Nat, NEW x \in S
    PROVE  f[x] <= SumFunctionOnSet(f, S)
<1>1. IsFiniteSet(S \ {x})
  BY FS_RemoveElement
<1>2. SumFunctionOnSet(f, S \ {x}) \in Nat /\ f[x] \in Nat
  BY <1>1, SumNatural
<1> QED BY <1>2, SumOneMore

LEMMA SumOfZeros ==
    ASSUME NEW S, IsFiniteSet(S), NEW f, \A i \in S : f[i] = 0
    PROVE  SumFunctionOnSet(f, S) = 0
<1>1. \A i \in S : UnitsOf(f, i) = {}
  BY DEF UnitsOf
<1>2. Units(f, S) = {}
  BY <1>1 DEF Units
<1>3. SumFunctionOnSet(f, S) = Cardinality(Units(f, S))
  BY SumCounts
<1> QED BY <1>2, <1>3, FS_EmptySet

\* Terms that are zero add nothing.
LEMMA SumIgnoresZeros ==
    ASSUME NEW S, IsFiniteSet(S), NEW f, \A i \in S : f[i] \in Nat,
           NEW T \in SUBSET S, \A i \in S \ T : f[i] = 0
    PROVE  SumFunctionOnSet(f, S) = SumFunctionOnSet(f, T)
<1>1. \A i \in S \ T : UnitsOf(f, i) = {}
  BY DEF UnitsOf
<1>2. Units(f, S) = Units(f, T)
  BY <1>1 DEF Units
<1>3. IsFiniteSet(T)
  BY FS_Subset
<1>4. SumFunctionOnSet(f, T) = Cardinality(Units(f, T))
  BY <1>3, SumCounts
<1>5. SumFunctionOnSet(f, S) = Cardinality(Units(f, S))
  BY SumCounts
<1> QED BY <1>2, <1>4, <1>5

\* The same terms under other names.
LEMMA SumRenamed ==
    ASSUME NEW S, IsFiniteSet(S), NEW f, \A i \in S : f[i] \in Nat,
           NEW T, IsFiniteSet(T), NEW name, NEW g,
           \A t \in T : name[t] \in S /\ g[t] = f[name[t]],
           \A t, u \in T : name[t] = name[u] => t = u,
           \A i \in S : (\A t \in T : name[t] # i) => f[i] = 0
    PROVE  SumFunctionOnSet(f, S) = SumFunctionOnSet(g, T)
<1> DEFINE names(U) == {name[t] : t \in U}
           G == {U \in SUBSET T : SumFunctionOnSet(f, names(U)) = SumFunctionOnSet(g, U)}
<1>0. \A U \in SUBSET T : names(U) \in SUBSET S /\ IsFiniteSet(names(U)) /\ IsFiniteSet(U)
  BY FS_Subset
<1>1. {} \in G
  <2>1. names({}) = {}
    OBVIOUS
  <2> QED BY <2>1, SumEmpty
<1>2. ASSUME NEW U \in SUBSET T, NEW x \in T \ U, U \in G
      PROVE  U \cup {x} \in G
  <2>1. /\ names(U \cup {x}) \ {name[x]} = names(U)
        /\ name[x] \in names(U \cup {x})
        /\ (U \cup {x}) \ {x} = U
    OBVIOUS
  <2>2. U \cup {x} \in SUBSET T
    OBVIOUS
  <2>3. /\ \A i \in names(U \cup {x}) : f[i] \in Nat
        /\ \A t \in U \cup {x} : g[t] \in Nat
    OBVIOUS
  <2>4. IsFiniteSet(names(U \cup {x})) /\ IsFiniteSet(U \cup {x})
    BY <1>0, <2>2
  <2>5. SumFunctionOnSet(g, U \cup {x}) = g[x] + SumFunctionOnSet(g, U)
    BY <2>1, <2>3, <2>4, SumOneMore
  <2>6. SumFunctionOnSet(f, names(U \cup {x})) = f[name[x]] + SumFunctionOnSet(f, names(U))
    <3> DEFINE V == names(U \cup {x})
               y == name[x]
    <3>1. IsFiniteSet(V) /\ y \in V /\ V \ {y} = names(U) /\ \A i \in V : f[i] \in Nat
      BY <2>1, <2>3, <2>4
    <3> HIDE DEF V, y
    <3>2. SumFunctionOnSet(f, V) = f[y] + SumFunctionOnSet(f, V \ {y})
      BY <3>1, SumOneMore
    <3> QED BY <3>1, <3>2 DEF V, y
  <2> HIDE DEF names
  <2> QED BY <1>2, <2>5, <2>6
<1>3. \A U \in SUBSET T : U \in G
  <2> HIDE DEF G
  <2> QED BY <1>1, <1>2, SubsetInduction
<1>4. SumFunctionOnSet(f, names(T)) = SumFunctionOnSet(g, T)
  BY <1>3
<1>5. SumFunctionOnSet(f, S) = SumFunctionOnSet(f, names(T))
  <2>1. \A i \in S \ names(T) : f[i] = 0
    OBVIOUS
  <2>2. names(T) \in SUBSET S
    BY <1>0
  <2> HIDE DEF names
  <2> QED BY <2>1, <2>2, SumIgnoresZeros
<1> QED BY <1>4, <1>5

\* Terms that are the sums of two others.
LEMMA SumTermwise ==
    ASSUME NEW S, IsFiniteSet(S), NEW f, NEW g, NEW h,
           \A i \in S : /\ f[i] \in Nat /\ g[i] \in Nat /\ h[i] \in Nat
                        /\ h[i] = f[i] + g[i]
    PROVE  SumFunctionOnSet(h, S) = SumFunctionOnSet(f, S) + SumFunctionOnSet(g, S)
<1> DEFINE sum(e, T) == SumFunctionOnSet(e, T)
           G == {T \in SUBSET S : sum(h, T) = sum(f, T) + sum(g, T)}
<1>1. {} \in G
  BY SumEmpty
<1>2. ASSUME NEW T \in SUBSET S, NEW x \in S \ T, T \in G
      PROVE  T \cup {x} \in G
  <2>1. IsFiniteSet(T) /\ IsFiniteSet(T \cup {x}) /\ (T \cup {x}) \ {x} = T
    BY FS_Subset
  <2>2. \A i \in T \cup {x} : f[i] \in Nat /\ g[i] \in Nat /\ h[i] \in Nat
    OBVIOUS
  <2>3. sum(f, T) \in Nat /\ sum(g, T) \in Nat
    BY <2>1, <2>2, SumNatural
  <2>4. sum(f, T \cup {x}) = f[x] + sum(f, T)
    BY <2>1, <2>2, SumOneMore
  <2>5. sum(g, T \cup {x}) = g[x] + sum(g, T)
    BY <2>1, <2>2, SumOneMore
  <2>6. sum(h, T \cup {x}) = h[x] + sum(h, T)
    BY <2>1, <2>2, SumOneMore
  <2> HIDE DEF sum
  <2>7. sum(h, T) = sum(f, T) + sum(g, T)
    BY <1>2
  <2>8. sum(h, T \cup {x}) = sum(f, T \cup {x}) + sum(g, T \cup {x})
    BY <2>2, <2>3, <2>4, <2>5, <2>6, <2>7
  <2> QED BY <2>8
<1>3. \A T \in SUBSET S : T \in G
  <2> HIDE DEF G
  <2> QED BY <1>1, <1>2, SubsetInduction
<1> QED BY <1>3
-----------------------------------------------------------------------------
\* Dividing rounds down.
LEMMA FloorBound ==
    ASSUME NEW n \in Nat, NEW d \in Nat \ {0}
    PROVE  n \div d \in Nat /\ d * (n \div d) <= n
OBVIOUS

LEMMA Distributes ==
    ASSUME NEW a \in Nat, NEW b \in Nat, NEW c \in Nat
    PROVE  a * (b + c) = a * b + a * c
OBVIOUS

\* Portions of an amount in proportion to shares, each rounded down: their
\* sum is at most the amount times the sum of the shares.
LEMMA PortionsWithin ==
    ASSUME NEW S, IsFiniteSet(S), NEW amount \in Nat, NEW whole \in Nat \ {0},
           NEW part, NEW portion,
           \A i \in S : /\ part[i] \in Nat
                        /\ portion[i] = (amount * part[i]) \div whole
    PROVE  whole * SumFunctionOnSet(portion, S) <= amount * SumFunctionOnSet(part, S)
<1> DEFINE sum(e, T) == SumFunctionOnSet(e, T)
           G == {T \in SUBSET S : whole * sum(portion, T) <= amount * sum(part, T)}
<1>0. \A i \in S : /\ portion[i] \in Nat
                   /\ whole * portion[i] <= amount * part[i]
  <2> SUFFICES ASSUME NEW i \in S
               PROVE  /\ portion[i] \in Nat
                      /\ whole * portion[i] <= amount * part[i]
    OBVIOUS
  <2>1. amount * part[i] \in Nat
    OBVIOUS
  <2> QED BY <2>1, FloorBound
<1>1. {} \in G
  BY SumEmpty
<1>2. ASSUME NEW T \in SUBSET S, NEW x \in S \ T, T \in G
      PROVE  T \cup {x} \in G
  <2>1. IsFiniteSet(T) /\ IsFiniteSet(T \cup {x}) /\ (T \cup {x}) \ {x} = T
    BY FS_Subset
  <2>2. \A i \in T \cup {x} : part[i] \in Nat /\ portion[i] \in Nat
    BY <1>0
  <2>3. sum(part, T) \in Nat /\ sum(portion, T) \in Nat
    BY <2>1, <2>2, SumNatural
  <2>4. sum(part, T \cup {x}) = part[x] + sum(part, T)
    BY <2>1, <2>2, SumOneMore
  <2>5. sum(portion, T \cup {x}) = portion[x] + sum(portion, T)
    BY <2>1, <2>2, SumOneMore
  <2> HIDE DEF sum
  <2>6. whole * sum(portion, T) <= amount * sum(part, T)
    BY <1>2
  <2>7. whole * sum(portion, T \cup {x}) = whole * portion[x] + whole * sum(portion, T)
    BY <2>2, <2>3, <2>5, Distributes
  <2>8. amount * sum(part, T \cup {x}) = amount * part[x] + amount * sum(part, T)
    BY <2>2, <2>3, <2>4, Distributes
  <2>9. /\ whole * portion[x] \in Nat /\ amount * part[x] \in Nat
        /\ whole * sum(portion, T) \in Nat /\ amount * sum(part, T) \in Nat
    BY <2>2, <2>3
  <2>10. whole * portion[x] <= amount * part[x]
    BY <1>0
  <2>11. whole * sum(portion, T \cup {x}) <= amount * sum(part, T \cup {x})
    BY <2>6, <2>7, <2>8, <2>9, <2>10
  <2> QED BY <2>11
<1>3. \A T \in SUBSET S : T \in G
  <2> HIDE DEF G
  <2> QED BY <1>1, <1>2, SubsetInduction
<1> QED BY <1>3

\* Terms twice as large have a sum twice as large.
LEMMA SumDoubled ==
    ASSUME NEW S, IsFiniteSet(S), NEW f, NEW g, \A i \in S : g[i] \in Nat /\ f[i] = 2 * g[i]
    PROVE  SumFunctionOnSet(f, S) = 2 * SumFunctionOnSet(g, S)
<1> DEFINE Doubled(T) == SumFunctionOnSet(f, T) = 2 * SumFunctionOnSet(g, T)
           G == {T \in SUBSET S : Doubled(T)}
<1>1. {} \in G
  BY SumEmpty
<1>2. ASSUME NEW T \in SUBSET S, NEW x \in S \ T, T \in G
      PROVE  T \cup {x} \in G
  <2> DEFINE U == T \cup {x}
  <2>1. IsFiniteSet(T) /\ IsFiniteSet(U) /\ x \in U /\ U \ {x} = T /\ U \in SUBSET S
    BY FS_Subset
  <2>2. \A i \in U : f[i] \in Nat /\ g[i] \in Nat
    BY <2>1
  <2> HIDE DEF U
  <2>3. /\ SumFunctionOnSet(f, U) = f[x] + SumFunctionOnSet(f, T)
        /\ SumFunctionOnSet(g, U) = g[x] + SumFunctionOnSet(g, T)
    BY <2>1, <2>2, SumOneMore
  <2>4. SumFunctionOnSet(f, T) \in Nat /\ SumFunctionOnSet(g, T) \in Nat
    BY <2>1, <2>2, SumNatural
  <2>5. g[x] \in Nat /\ f[x] = 2 * g[x] /\ Doubled(T)
    BY <1>2
  <2>6. Doubled(U)
    <3>1. \A a, b, c \in Nat : 2 * a + 2 * b = 2 * (a + b)
      OBVIOUS
    <3> QED BY <2>3, <2>4, <2>5, <3>1
  <2> QED BY <2>1, <2>6 DEF U
<1> HIDE DEF G
<1>3. S \in G
  BY <1>1, <1>2, SubsetInduction
<1> QED BY <1>3 DEF G
=============================================================================
