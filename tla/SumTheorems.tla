----------------------------- MODULE SumTheorems -----------------------------
(***************************************************************************)
(* Sums of a function over a finite set (SumFunctionOnSet of Functions),   *)
(* as the ledger, the gate, the budgets and the facilitator add amounts    *)
(* up.  The sum is the number of units it counts, so that its laws follow  *)
(* from those of Cardinality.                                              *)
(***************************************************************************)
EXTENDS Integers, FiniteSets, Functions, FiniteSetTheorems, TLAPS

Units(f, S) == UNION {{x} \X (1 .. f[x]) : x \in S}

Counts(f, S) == IsFiniteSet(S) /\ \A x \in S : f[x] \in Nat

\* Induction up to n: the numbers from which a step leads out of T, shifted by
\* one, would fit a finite set into a smaller one.
LEMMA UpTo ==
  ASSUME NEW n \in Nat, NEW T, 0 \in T, \A k \in 0 .. n - 1 : k \in T => k + 1 \in T
  PROVE  n \in T
<1> SUFFICES ASSUME n \notin T PROVE FALSE
  OBVIOUS
<1> DEFINE S == T \cap (0 .. n)
           g == [k \in S |-> k + 1]
<1>1. IsFiniteSet(S)
  <2>1. IsFiniteSet(0 .. n)
    BY FS_Interval
  <2> QED BY <2>1, FS_Intersection
<1>2. IsFiniteSet(S \ {0}) /\ Cardinality(S \ {0}) = Cardinality(S) - 1
  <2>1. 0 \in S
    OBVIOUS
  <2> HIDE DEF S
  <2> QED BY <1>1, <2>1, FS_RemoveElement
<1>3. g \in [S -> S \ {0}]
  <2>1. \A k \in S : k \in 0 .. n - 1 /\ k + 1 \in S /\ k + 1 # 0
    OBVIOUS
  <2> HIDE DEF S
  <2> QED BY <2>1
<1>4. \A x, y \in S : g[x] = g[y] => x = y
  <2>1. \A k \in S : k \in Int
    OBVIOUS
  <2> HIDE DEF S
  <2> QED BY <2>1
<1>5. Cardinality(S) \in Nat
  BY <1>1, FS_CardinalityType
<1>6. Cardinality(S \ {0}) < Cardinality(S)
  BY <1>2, <1>5
<1> HIDE DEF S, g
<1> QED BY <1>1, <1>2, <1>3, <1>4, <1>6, FS_PigeonHole

\* One element more.
LEMMA UnitsAdd ==
  ASSUME NEW f, NEW S, NEW x, x \notin S, f[x] \in Nat, IsFiniteSet(Units(f, S))
  PROVE  /\ IsFiniteSet(Units(f, S \cup {x}))
         /\ Cardinality(Units(f, S \cup {x})) = Cardinality(Units(f, S)) + f[x]
<1> DEFINE C == {x} \X (1 .. f[x])
<1>1. Units(f, S \cup {x}) = Units(f, S) \cup C
  BY DEF Units
<1>2. Units(f, S) \cap C = {}
  BY DEF Units
<1>3. IsFiniteSet(C) /\ Cardinality(C) = f[x]
  <2>1. IsFiniteSet({x}) /\ Cardinality({x}) = 1
    BY FS_Singleton
  <2>2. IsFiniteSet(1 .. f[x]) /\ Cardinality(1 .. f[x]) = f[x]
    BY SMTT(30), FS_Interval
  <2>3. IsFiniteSet(C) /\ Cardinality(C) = Cardinality({x}) * Cardinality(1 .. f[x])
    BY <2>1, <2>2, FS_Product
  <2> QED BY <2>1, <2>2, <2>3
<1>4. Cardinality(Units(f, S)) \in Nat
  BY FS_CardinalityType
<1> HIDE DEF C
<1>5. /\ IsFiniteSet(Units(f, S) \cup C)
      /\ Cardinality(Units(f, S) \cup C) = Cardinality(Units(f, S)) + Cardinality(C) - Cardinality({})
  BY <1>2, <1>3, FS_Union
<1>6. Cardinality({}) = 0
  BY FS_EmptySet
<1>7. Cardinality(Units(f, S) \cup C) = Cardinality(Units(f, S)) + f[x]
  BY <1>3, <1>4, <1>5, <1>6
<1> QED BY <1>1, <1>5, <1>7

\* The units of a finite set are finitely many.
LEMMA UnitsFinite ==
  ASSUME NEW f, NEW S, Counts(f, S)
  PROVE  IsFiniteSet(Units(f, S))
<1> DEFINE Good(k) == \A U \in SUBSET S : Cardinality(U) = k => IsFiniteSet(Units(f, U))
           T == {k \in Nat : Good(k)}
<1>0. IsFiniteSet(S) /\ (\A U \in SUBSET S : IsFiniteSet(U) /\ Cardinality(U) \in Nat)
  BY FS_Subset, FS_CardinalityType DEF Counts
<1>1. 0 \in T
  <2> SUFFICES ASSUME NEW U \in SUBSET S, Cardinality(U) = 0 PROVE IsFiniteSet(Units(f, U))
    OBVIOUS
  <2>1. U = {}
    BY <1>0, FS_EmptySet
  <2>2. Units(f, U) = {}
    BY <2>1 DEF Units
  <2> QED BY <2>2, FS_EmptySet
<1>2. \A k \in Nat : k \in T => k + 1 \in T
  <2> SUFFICES ASSUME NEW k \in Nat, Good(k), NEW U \in SUBSET S, Cardinality(U) = k + 1
               PROVE  IsFiniteSet(Units(f, U))
    OBVIOUS
  <2>1. PICK x \in U : TRUE
    <3>1. U # {}
      BY FS_EmptySet
    <3> QED BY <3>1
  <2>2. Cardinality(U \ {x}) = k /\ U \ {x} \in SUBSET S
    BY <1>0, FS_RemoveElement
  <2>3. IsFiniteSet(Units(f, U \ {x}))
    BY <2>2
  <2>4. x \notin U \ {x} /\ (U \ {x}) \cup {x} = U /\ f[x] \in Nat
    BY DEF Counts
  <2> HIDE DEF Good
  <2> QED BY <2>3, <2>4, UnitsAdd
<1>3. Cardinality(S) \in Nat
  BY <1>0
<1>4. Cardinality(S) \in T
  <2> HIDE DEF T
  <2>1. \A k \in 0 .. Cardinality(S) - 1 : k \in T => k + 1 \in T
    BY <1>2, <1>3
  <2> QED BY <1>1, <1>3, <2>1, UpTo
<1> QED BY <1>4

\* The recursion of the fold is solved by counting units.
LEMMA SumIsCount ==
  ASSUME NEW f, NEW S, Counts(f, S)
  PROVE  SumFunctionOnSet(f, S) = Cardinality(Units(f, S))
<1> DEFINE step(g) == [s \in SUBSET S |-> IF s = {} THEN 0
                         ELSE f[CHOOSE x \in s : TRUE] + g[s \ {CHOOSE x \in s : TRUE}]]
           iter == CHOOSE g : g = step(g)
           count == [s \in SUBSET S |-> Cardinality(Units(f, s))]
<1>1. SumFunctionOnSet(f, S) = iter[S]
  BY DEF SumFunctionOnSet, FoldFunctionOnSet, MapThenFoldSet
<1>2. ASSUME NEW s \in SUBSET S, s # {}
      PROVE  LET x == CHOOSE x \in s : TRUE
             IN  /\ x \in s /\ s \ {x} \in SUBSET S
                 /\ Cardinality(Units(f, s)) = f[x] + Cardinality(Units(f, s \ {x}))
  <2> DEFINE x == CHOOSE x \in s : TRUE
  <2>1. x \in s
    BY <1>2
  <2> HIDE DEF x
  <2>2. Counts(f, s \ {x}) /\ f[x] \in Nat /\ x \notin s \ {x} /\ (s \ {x}) \cup {x} = s
    BY <2>1, FS_Subset DEF Counts
  <2>3. IsFiniteSet(Units(f, s \ {x}))
    BY <2>2, UnitsFinite
  <2>4. Cardinality(Units(f, (s \ {x}) \cup {x})) = Cardinality(Units(f, s \ {x})) + f[x]
    BY <2>2, <2>3, UnitsAdd
  <2>5. Cardinality(Units(f, s \ {x})) \in Nat
    BY <2>3, FS_CardinalityType
  <2>6. Cardinality(Units(f, s)) = f[x] + Cardinality(Units(f, s \ {x}))
    <3>1. Cardinality(Units(f, s)) = Cardinality(Units(f, s \ {x})) + f[x]
      BY <2>2, <2>4, Zenon
    <3> QED BY <2>2, <2>5, <3>1
  <2> QED BY <2>1, <2>6 DEF x
<1>3. Cardinality(Units(f, {})) = 0
  <2>1. Units(f, {}) = {}
    BY DEF Units
  <2> QED BY <2>1, FS_EmptySet
<1>4. count = step(count)
  <2> SUFFICES ASSUME NEW s \in SUBSET S
               PROVE  Cardinality(Units(f, s)) = step(count)[s]
    OBVIOUS
  <2>1. CASE s = {}
    BY <1>3, <2>1
  <2>2. CASE s # {}
    BY <1>2, <2>2
  <2> QED BY <2>1, <2>2
<1>5. iter = step(iter)
  <2> HIDE DEF count, step
  <2> QED BY <1>4
<1> DEFINE Same(k) == \A s \in SUBSET S : Cardinality(s) = k => iter[s] = Cardinality(Units(f, s))
           T == {k \in Nat : Same(k)}
<1>6. IsFiniteSet(S) /\ (\A U \in SUBSET S : IsFiniteSet(U) /\ Cardinality(U) \in Nat)
  BY FS_Subset, FS_CardinalityType DEF Counts
<1>7. \A s \in SUBSET S : iter[s] = IF s = {} THEN 0
                ELSE f[CHOOSE x \in s : TRUE] + iter[s \ {CHOOSE x \in s : TRUE}]
  <2> HIDE DEF iter
  <2> QED BY <1>5
<1> HIDE DEF iter
<1>8. 0 \in T
  <2> SUFFICES ASSUME NEW s \in SUBSET S, Cardinality(s) = 0 PROVE iter[s] = Cardinality(Units(f, s))
    OBVIOUS
  <2>1. s = {}
    BY <1>6, FS_EmptySet
  <2> QED BY <1>3, <1>7, <2>1
<1>9. \A k \in Nat : k \in T => k + 1 \in T
  <2> SUFFICES ASSUME NEW k \in Nat, Same(k), NEW s \in SUBSET S, Cardinality(s) = k + 1
               PROVE  iter[s] = Cardinality(Units(f, s))
    OBVIOUS
  <2> DEFINE x == CHOOSE x \in s : TRUE
  <2>1. s # {}
    BY FS_EmptySet
  <2>2. /\ x \in s /\ s \ {x} \in SUBSET S
        /\ Cardinality(Units(f, s)) = f[x] + Cardinality(Units(f, s \ {x}))
    BY <1>2, <2>1
  <2>3. iter[s] = f[x] + iter[s \ {x}]
    BY <1>7, <2>1
  <2> HIDE DEF x
  <2>4. Cardinality(s \ {x}) = k
    <3>1. IsFiniteSet(s)
      BY <1>6
    <3>2. Cardinality(s \ {x}) = Cardinality(s) - 1
      BY <2>2, <3>1, FS_RemoveElement
    <3> QED BY <3>2
  <2> QED BY <2>2, <2>3, <2>4
<1>10. Cardinality(S) \in T
  <2> HIDE DEF T
  <2>1. \A k \in 0 .. Cardinality(S) - 1 : k \in T => k + 1 \in T
    BY <1>6, <1>9
  <2> QED BY <1>6, <1>8, <2>1, UpTo
<1> QED BY <1>1, <1>10

-----------------------------------------------------------------------------
(* The laws of sums *)

\* A sum of natural numbers is one.
THEOREM SumNat ==
  ASSUME NEW f, NEW S, Counts(f, S)
  PROVE  SumFunctionOnSet(f, S) \in Nat
  BY SumIsCount, UnitsFinite, FS_CardinalityType

\* Nothing adds up to 0.
THEOREM SumEmpty ==
  ASSUME NEW f
  PROVE  SumFunctionOnSet(f, {}) = 0
<1>1. Counts(f, {}) /\ Units(f, {}) = {}
  BY FS_EmptySet DEF Counts, Units
<1> QED BY <1>1, SumIsCount, FS_EmptySet

\* One element more adds its value.
THEOREM SumAdd ==
  ASSUME NEW f, NEW S, NEW x, x \notin S, Counts(f, S), f[x] \in Nat
  PROVE  /\ Counts(f, S \cup {x})
         /\ SumFunctionOnSet(f, S \cup {x}) = SumFunctionOnSet(f, S) + f[x]
<1>1. Counts(f, S \cup {x})
  BY FS_AddElement DEF Counts
<1> QED BY <1>1, SumIsCount, UnitsFinite, UnitsAdd

\* Only the values on the set matter.
THEOREM SumSame ==
  ASSUME NEW f, NEW g, NEW S, Counts(f, S), \A x \in S : g[x] = f[x]
  PROVE  /\ Counts(g, S)
         /\ SumFunctionOnSet(g, S) = SumFunctionOnSet(f, S)
<1>1. Counts(g, S) /\ Units(g, S) = Units(f, S)
  BY DEF Counts, Units
<1> QED BY <1>1, SumIsCount

\* A part adds up to no more than the whole.
THEOREM SumSubset ==
  ASSUME NEW f, NEW S, NEW R \in SUBSET S, Counts(f, S)
  PROVE  /\ Counts(f, R)
         /\ SumFunctionOnSet(f, R) <= SumFunctionOnSet(f, S)
<1>1. Counts(f, R)
  BY FS_Subset DEF Counts
<1>2. Units(f, R) \in SUBSET Units(f, S)
  BY DEF Units
<1> QED BY <1>1, <1>2, SumIsCount, UnitsFinite, FS_Subset

\* Elements fewer, in a function that agrees on the rest.
THEOREM SumShrink ==
  ASSUME NEW f, NEW g, NEW S, NEW R \in SUBSET S, Counts(f, S), \A y \in R : g[y] = f[y]
  PROVE  /\ Counts(g, R)
         /\ SumFunctionOnSet(g, R) <= SumFunctionOnSet(f, S)
<1>1. Counts(f, R) /\ SumFunctionOnSet(f, R) <= SumFunctionOnSet(f, S)
  BY SumSubset
<1>2. Counts(g, R) /\ SumFunctionOnSet(g, R) = SumFunctionOnSet(f, R)
  BY <1>1, SumSame
<1> QED BY <1>1, <1>2

=============================================================================
