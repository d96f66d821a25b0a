------------------------------ MODULE DataInduction ------------------------------
(***************************************************************************)
(* Induction over numbers and finite sets, for the operators that fold a   *)
(* sequence or a set.  The induction theorems of the library take an       *)
(* operator as a parameter, which the provers cannot instantiate; here a   *)
(* proof by induction takes the least counterexample instead, and a        *)
(* recursive definition the functions that give its steps.                 *)
(***************************************************************************)
EXTENDS Selection, Integers, FiniteSets, FiniteSetsExt, Functions, FiniteSetTheorems,
        SequenceTheorems, WellFoundedInduction, TLAPS

\* Every set of natural numbers that is not empty has a least element.
LEMMA LeastNumber ==
    ASSUME NEW T, T \subseteq Nat, T # {}
    PROVE  \E n \in T : \A m \in T : n <= m
  <1>1. PICK n \in T : \A m \in T : <<m, n>> \notin OpToRel(<, Nat)
    BY NatLessThanWellFounded, WFMin, Zenon
  <1>2. \A m, k \in Nat : <<m, k>> \in OpToRel(<, Nat) <=> m < k
    BY DEF OpToRel
  <1>3. \A m \in T : ~(m < n)
    BY <1>1, <1>2
  <1> QED
    BY <1>3

\* What holds of zero and of the successor of every number below n it holds of, holds
\* of all numbers up to n.
LEMMA Induction ==
    ASSUME NEW n \in Nat, NEW T, 0 \in T, \A k \in 1..n : k - 1 \in T => k \in T
    PROVE  0..n \subseteq T
  <1> DEFINE F == {k \in 0..n : k \notin T}
  <1> SUFFICES ASSUME F # {} PROVE FALSE
    OBVIOUS
  <1>1. PICK k \in F : \A m \in F : k <= m
    <2>1. F \subseteq Nat
      OBVIOUS
    <2> HIDE DEF F
    <2> QED
      BY <2>1, LeastNumber
  <1>2. k # 0 /\ k \in 1..n
    OBVIOUS
  <1>3. k - 1 \in T
    BY <1>1, <1>2
  <1> QED
    BY <1>2, <1>3

\* What holds of the empty set and, with a set, of the set and one element more.
Grows(T, S) == {} \in T /\ \A s \in SUBSET S : \A x \in S \ s : s \in T => s \cup {x} \in T

LEMMA SetInduction ==
    ASSUME NEW S, IsFiniteSet(S), NEW T, Grows(T, S)
    PROVE  S \in T
  <1> DEFINE Done == {n \in Nat : \A s \in SUBSET S : Cardinality(s) = n => s \in T}
  <1>1. \A s \in SUBSET S : IsFiniteSet(s) /\ Cardinality(s) \in Nat /\ (Cardinality(s) = 0 <=> s = {})
    BY FS_Subset, FS_CardinalityType, FS_EmptySet
  <1>2. 0 \in Done
    BY <1>1 DEF Grows
  <1>3. ASSUME NEW n \in 1..Cardinality(S), n - 1 \in Done
        PROVE  n \in Done
    <2> SUFFICES ASSUME NEW s \in SUBSET S, Cardinality(s) = n PROVE s \in T
      OBVIOUS
    <2>1. PICK x \in s : TRUE
      BY <1>1
    <2>2. Cardinality(s \ {x}) = n - 1
      BY <1>1, <2>1, FS_RemoveElement
    <2>3. s \ {x} \in T
      BY <1>3, <2>2
    <2>4. (s \ {x}) \cup {x} \in T
      BY <2>1, <2>3 DEF Grows
    <2>5. (s \ {x}) \cup {x} = s
      BY <2>1
    <2> QED
      BY <2>4, <2>5
  <1>4. Cardinality(S) \in Nat
    BY FS_CardinalityType
  <1>5. 0..Cardinality(S) \subseteq Done
    <2> HIDE DEF Done
    <2> QED
      BY <1>2, <1>3, <1>4, Induction
  <1> QED
    BY <1>4, <1>5

---------------------------------------------------------------------------
(* Recursion over the subsets of a finite set *)

\* pick says which element of a set is taken first, step what it makes of the rest.
Picks(pick, S) == \A s \in SUBSET S : s # {} => pick[s] \in s
Steps(step, S, T) == \A x \in S : \A t \in T : step[<<x, t>>] \in T

TakesApart(f, S, T, base, pick, step) ==
    /\ f \in [SUBSET S -> T]
    /\ \A s \in SUBSET S :
          f[s] = IF s = {} THEN base ELSE step[<<pick[s], f[s \ {pick[s]}]>>]

\* A function that takes a set apart one element at a time exists.
LEMMA SubsetRecursion ==
    ASSUME NEW S, IsFiniteSet(S), NEW T, NEW base, base \in T, NEW pick, Picks(pick, S),
           NEW step, Steps(step, S, T)
    PROVE  \E f : TakesApart(f, S, T, base, pick, step)
  <1> DEFINE Up(n) == {s \in SUBSET S : Cardinality(s) <= n}
             Solves(f, n) ==
                /\ f \in [Up(n) -> T]
                /\ \A s \in Up(n) :
                     f[s] = IF s = {} THEN base ELSE step[<<pick[s], f[s \ {pick[s]}]>>]
             Good == {n \in Nat : \E f : Solves(f, n)}
  <1> USE DEF Picks, Steps
  <1>1. \A s \in SUBSET S : IsFiniteSet(s) /\ Cardinality(s) \in Nat /\ Cardinality(s) <= Cardinality(S)
    BY FS_Subset, FS_CardinalityType
  <1>2. Cardinality(S) \in Nat
    BY FS_CardinalityType
  <1>3. 0 \in Good
    <2>1. Up(0) = {{}}
      BY <1>1, FS_EmptySet
    <2>2. Solves([s \in Up(0) |-> base], 0)
      BY <2>1
    <2> QED
      BY <2>2
  <1>4. ASSUME NEW n \in 1..Cardinality(S), n - 1 \in Good
        PROVE  n \in Good
    <2>1. PICK g : Solves(g, n - 1)
      BY <1>4
    <2>2. \A s \in Up(n) : s # {} => pick[s] \in S /\ s \ {pick[s]} \in Up(n - 1)
      <3> SUFFICES ASSUME NEW s \in Up(n), s # {}
                   PROVE  pick[s] \in S /\ s \ {pick[s]} \in Up(n - 1)
        OBVIOUS
      <3>1. pick[s] \in s /\ s \in SUBSET S
        OBVIOUS
      <3>2. Cardinality(s \ {pick[s]}) = Cardinality(s) - 1
        BY <1>1, <3>1, FS_RemoveElement
      <3> QED
        BY <1>1, <1>2, <3>1, <3>2
    <2>3. Up(n - 1) \subseteq Up(n)
      BY <1>1, <1>2
    <2> DEFINE h == [s \in Up(n) |-> IF s = {} THEN base ELSE step[<<pick[s], g[s \ {pick[s]}]>>]]
    <2>4. h \in [Up(n) -> T]
      BY <2>1, <2>2
    <2>5. \A s \in Up(n - 1) : h[s] = g[s]
      BY <2>1, <2>3
    <2> HIDE DEF Up
    <2>6. \A s \in Up(n) : h[s] = IF s = {} THEN base ELSE step[<<pick[s], h[s \ {pick[s]}]>>]
      BY <2>2, <2>5
    <2>7. Solves(h, n)
      BY <2>4, <2>6
    <2>8. \E f : Solves(f, n)
      BY <2>7
    <2> HIDE DEF Solves
    <2> QED
      BY <1>2, <2>8
  <1>5. Cardinality(S) \in Good
    <2> HIDE DEF Good
    <2>1. 0..Cardinality(S) \subseteq Good
      BY <1>2, <1>3, <1>4, Induction
    <2> QED
      BY <1>2, <2>1
  <1>6. Up(Cardinality(S)) = SUBSET S
    BY <1>1
  <1>7. PICK f : Solves(f, Cardinality(S))
    BY <1>5
  <1> QED
    BY <1>6, <1>7 DEF TakesApart

\* What holds of the empty set and, with the rest, of a set that is taken apart.
Shrinks(T, S, pick) ==
    /\ Picks(pick, S)
    /\ {} \in T
    /\ \A s \in SUBSET S : s # {} /\ s \ {pick[s]} \in T => s \in T

LEMMA PickInduction ==
    ASSUME NEW S, IsFiniteSet(S), NEW T, NEW pick, Shrinks(T, S, pick)
    PROVE  S \in T
  <1> DEFINE Bad == {n \in Nat : \E s \in SUBSET S : Cardinality(s) = n /\ s \notin T}
  <1>1. \A s \in SUBSET S : IsFiniteSet(s) /\ Cardinality(s) \in Nat
    BY FS_Subset, FS_CardinalityType
  <1>2. ASSUME NEW n \in Bad, \A m \in Bad : n <= m
        PROVE  FALSE
    <2>1. PICK s \in SUBSET S : Cardinality(s) = n /\ s \notin T
      OBVIOUS
    <2>2. s # {}
      BY <2>1 DEF Shrinks
    <2>3. PICK x : x = pick[s]
      OBVIOUS
    <2>4. x \in s
      <3>1. pick[s] \in s
        BY <2>2, Zenon DEF Shrinks, Picks
      <3> QED
        BY <2>3, <3>1
    <2>5. Cardinality(s \ {x}) = n - 1 /\ n - 1 \in Nat
      <3>1. IsFiniteSet(s) /\ s \ {x} \in SUBSET S
        BY <1>1
      <3>2. Cardinality(s \ {x}) = Cardinality(s) - 1
        BY <2>4, <3>1, FS_RemoveElement
      <3>3. Cardinality(s \ {x}) \in Nat /\ n \in Nat
        BY <1>1, <3>1
      <3> QED
        BY <2>1, <3>2, <3>3
    <2>6. s \ {x} \notin T
      BY <2>1, <2>2, <2>3 DEF Shrinks
    <2>7. n - 1 \in Bad
      BY <2>5, <2>6
    <2> QED
      BY <1>2, <2>7
  <1>3. Bad = {}
    <2>1. Bad \subseteq Nat
      OBVIOUS
    <2> HIDE DEF Bad
    <2> QED
      BY <1>2, <2>1, LeastNumber
  <1> QED
    BY <1>1, <1>3

\* An order of the elements of S, as the set of pairs in order.
TotallyOrders(B, S) ==
    /\ \A x, y \in S : x = y \/ <<x, y>> \in B \/ <<y, x>> \in B
    /\ \A x, y, z \in S : <<x, y>> \in B /\ <<y, z>> \in B => <<x, z>> \in B

LEMMA LastOne ==
    ASSUME NEW S, IsFiniteSet(S), NEW B, TotallyOrders(B, S), S # {}
    PROVE  \E l \in S : \A k \in S \ {l} : <<k, l>> \in B
  <1> DEFINE T == {s \in SUBSET S : s # {} => \E l \in s : \A k \in s \ {l} : <<k, l>> \in B}
  <1>1. {} \in T
    OBVIOUS
  <1>2. ASSUME NEW s \in SUBSET S, NEW x \in S \ s, s \in T
        PROVE  s \cup {x} \in T
    <2>1. CASE s = {}
      <3>1. \A k \in (s \cup {x}) \ {x} : <<k, x>> \in B
        BY <2>1
      <3> QED
        BY <3>1
    <2>2. CASE s # {}
      <3>1. PICK l \in s : \A k \in s \ {l} : <<k, l>> \in B
        BY <1>2, <2>2
      <3>2. CASE <<x, l>> \in B
        <4>1. \A k \in (s \cup {x}) \ {l} : <<k, l>> \in B
          BY <3>1, <3>2
        <4> QED
          BY <4>1
      <3>3. CASE <<l, x>> \in B
        <4>1. \A k \in (s \cup {x}) \ {x} : <<k, x>> \in B
          BY <3>1, <3>3 DEF TotallyOrders
        <4> QED
          BY <4>1
      <3> QED
        BY <3>2, <3>3 DEF TotallyOrders
    <2> QED
      BY <2>1, <2>2
  <1>3. S \in T
    <2> HIDE DEF T
    <2>1. Grows(T, S)
      BY <1>1, <1>2 DEF Grows
    <2> QED
      BY <2>1, SetInduction
  <1> QED
    BY <1>3

---------------------------------------------------------------------------
(* Folding a sequence from left to right: its places in order *)

LEMMA PlacesOf ==
    ASSUME NEW n \in Nat
    PROVE  /\ IsFiniteSet(1..n)
           /\ \A s \in SUBSET (1..n) : s # {} => Max(s) \in s
           /\ \A k \in 1..n : Max(1..k) = k /\ (1..k) \ {k} = 1..(k - 1) /\ 1..k # {}
           /\ 1..0 = {}
  <1>1. IsFiniteSet(1..n)
    BY FS_Interval
  <1>2. ASSUME NEW s \in SUBSET (1..n), s # {}
        PROVE  Max(s) \in s
    <2> DEFINE Room == {n - x : x \in s}
    <2>1. Room \subseteq Nat /\ Room # {}
      <3>1. \A x \in s : n - x \in Nat /\ n - x \in Room
        OBVIOUS
      <3> QED
        BY <1>2, <3>1
    <2>2. PICK m \in Room : \A k \in Room : m <= k
      BY <2>1, LeastNumber
    <2>3. PICK x \in s : m = n - x
      BY <2>2
    <2>4. \A y \in s : y <= x
      BY <2>2, <2>3
    <2> QED
      BY <2>3, <2>4 DEF Max
  <1>3. ASSUME NEW k \in 1..n
        PROVE  Max(1..k) = k
    <2>1. \E x \in 1..k : \A y \in 1..k : x >= y
      BY <1>3
    <2>2. Max(1..k) \in 1..k /\ \A y \in 1..k : Max(1..k) >= y
      BY <2>1 DEF Max
    <2> QED
      BY <2>2
  <1>4. \A k \in 1..n : (1..k) \ {k} = 1..(k - 1) /\ 1..k # {}
    OBVIOUS
  <1> QED
    BY <1>1, <1>2, <1>3, <1>4

---------------------------------------------------------------------------
(* Sums of integers over a finite set, in any order *)

IntegersOn(f, S) == \A x \in S : f[x] \in Int

\* The function with which the sum is defined, and the order it takes the elements in.
Sums(g, f, S) ==
    /\ g \in [SUBSET S -> Int]
    /\ \A s \in SUBSET S :
          g[s] = IF s = {} THEN 0
                 ELSE f[CHOOSE x \in s : TRUE] + g[s \ {CHOOSE x \in s : TRUE}]

LEMMA SumsExist ==
    ASSUME NEW S, IsFiniteSet(S), NEW f, IntegersOn(f, S)
    PROVE  \E g : Sums(g, f, S) /\ SumFunctionOnSet(f, S) = g[S]
  <1>1. PICK pick : pick = [s \in SUBSET S |-> CHOOSE x \in s : TRUE]
    OBVIOUS
  <1>2. PICK step : step = [p \in S \X Int |-> f[p[1]] + p[2]]
    OBVIOUS
  <1>3. Picks(pick, S)
    BY <1>1 DEF Picks
  <1>4. Steps(step, S, Int)
    BY <1>2 DEF Steps, IntegersOn
  <1>5. PICK g : TakesApart(g, S, Int, 0, pick, step)
    BY <1>3, <1>4, SubsetRecursion
  <1>6. \A s \in SUBSET S : s # {} => pick[s] \in s /\ pick[s] = CHOOSE x \in s : TRUE
    BY <1>1
  <1>7. \A s \in SUBSET S : g[s] = IF s = {} THEN 0
                 ELSE f[CHOOSE x \in s : TRUE] + g[s \ {CHOOSE x \in s : TRUE}]
    <2> SUFFICES ASSUME NEW s \in SUBSET S, s # {}
                 PROVE  g[s] = f[pick[s]] + g[s \ {pick[s]}]
      BY <1>5, <1>6 DEF TakesApart
    <2>1. pick[s] \in S /\ g[s \ {pick[s]}] \in Int
      BY <1>5, <1>6 DEF TakesApart
    <2> QED
      BY <1>2, <1>5, <2>1 DEF TakesApart
  <1>8. g \in [SUBSET S -> Int]
    BY <1>5 DEF TakesApart
  <1> DEFINE Solves(h) ==
                h = [s \in SUBSET S |->
                        IF s = {} THEN 0
                        ELSE f[CHOOSE x \in s : TRUE] + h[s \ {CHOOSE x \in s : TRUE}]]
  <1>9. SumFunctionOnSet(f, S) = (CHOOSE h : Solves(h))[S]
    BY Zenon DEF SumFunctionOnSet, FoldFunctionOnSet, MapThenFoldSet
  <1>10. PICK F : F = CHOOSE h : Solves(h)
    OBVIOUS
  <1>11. Solves(g)
    BY <1>7, <1>8
  <1>12. Solves(F)
    <2> HIDE DEF Solves
    <2> QED
      BY <1>10, <1>11, Zenon
  <1>13. \A s \in SUBSET S : F[s] = IF s = {} THEN 0
                 ELSE f[CHOOSE x \in s : TRUE] + F[s \ {CHOOSE x \in s : TRUE}]
    BY <1>12
  <1>14. ASSUME NEW n \in Nat, \A s \in SUBSET S : Cardinality(s) < n => F[s] = g[s]
         PROVE  \A s \in SUBSET S : Cardinality(s) = n => F[s] = g[s]
    <2> SUFFICES ASSUME NEW s \in SUBSET S, Cardinality(s) = n, s # {} PROVE F[s] = g[s]
      BY <1>7, <1>13
    <2>1. PICK x : x = CHOOSE y \in s : TRUE
      OBVIOUS
    <2>2. x \in s
      BY <2>1
    <2>3. IsFiniteSet(s)
      BY FS_Subset
    <2>4. Cardinality(s \ {x}) = n - 1
      BY <2>2, <2>3, FS_RemoveElement
    <2>5. F[s \ {x}] = g[s \ {x}]
      BY <1>14, <2>4
    <2> QED
      BY <1>7, <1>13, <2>1, <2>5
  <1> QED
    <2>1. F[S] = g[S]
      <3> DEFINE Bad == {n \in Nat : \E s \in SUBSET S : Cardinality(s) = n /\ F[s] # g[s]}
      <3>1. \A s \in SUBSET S : Cardinality(s) \in Nat
        BY FS_Subset, FS_CardinalityType
      <3> SUFFICES ASSUME Bad # {} PROVE FALSE
        BY <3>1
      <3>2. PICK n \in Bad : \A m \in Bad : n <= m
        <4>1. Bad \subseteq Nat
          OBVIOUS
        <4> HIDE DEF Bad
        <4> QED
          BY <4>1, LeastNumber
      <3>3. \A s \in SUBSET S : Cardinality(s) < n => F[s] = g[s]
        BY <3>1, <3>2
      <3> QED
        BY <1>14, <3>2, <3>3
    <2> QED
      BY <1>7, <1>8, <1>9, <1>10, <2>1 DEF Sums

\* The order the definition takes the elements in does not matter.
LEMMA SumsAgree ==
    ASSUME NEW S, IsFiniteSet(S), NEW f, IntegersOn(f, S), NEW g, Sums(g, f, S), NEW s \in SUBSET S
    PROVE  SumFunctionOnSet(f, s) = g[s]
  <1>1. IsFiniteSet(s) /\ IntegersOn(f, s)
    BY FS_Subset DEF IntegersOn
  <1>2. PICK h : Sums(h, f, s) /\ SumFunctionOnSet(f, s) = h[s]
    BY <1>1, SumsExist
  <1> DEFINE Bad == {n \in Nat : \E r \in SUBSET s : Cardinality(r) = n /\ h[r] # g[r]}
  <1>3. \A r \in SUBSET s : IsFiniteSet(r) /\ Cardinality(r) \in Nat /\ r \in SUBSET S
    BY <1>1, FS_Subset, FS_CardinalityType
  <1>4. ASSUME NEW n \in Bad, \A m \in Bad : n <= m
        PROVE  FALSE
    <2>1. PICK r \in SUBSET s : Cardinality(r) = n /\ h[r] # g[r]
      OBVIOUS
    <2>2. r # {}
      BY <1>2, <1>3, <2>1 DEF Sums
    <2>3. PICK x : x = CHOOSE y \in r : TRUE
      OBVIOUS
    <2>4. x \in r
      BY <2>2, <2>3
    <2>5. Cardinality(r \ {x}) = n - 1
      BY <1>3, <2>1, <2>4, FS_RemoveElement
    <2>6. h[r \ {x}] = g[r \ {x}]
      <3>1. n - 1 \notin Bad
        BY <1>4
      <3>2. n - 1 \in Nat
        BY <1>3, <2>5
      <3> QED
        BY <2>5, <3>1, <3>2
    <2>7. h[r] = f[x] + h[r \ {x}]
      BY <1>2, <2>2, <2>3 DEF Sums
    <2>8. g[r] = f[x] + g[r \ {x}]
      BY <1>3, <2>2, <2>3 DEF Sums
    <2> QED
      BY <2>1, <2>6, <2>7, <2>8
  <1>5. Bad = {}
    <2>1. Bad \subseteq Nat
      OBVIOUS
    <2> HIDE DEF Bad
    <2> QED
      BY <1>4, <2>1, LeastNumber
  <1>6. h[s] = g[s]
    BY <1>3, <1>5
  <1> QED
    BY <1>2, <1>6

LEMMA SumOfNone ==
    ASSUME NEW f
    PROVE  SumFunctionOnSet(f, {}) = 0
  <1>1. IsFiniteSet({}) /\ IntegersOn(f, {})
    BY FS_EmptySet DEF IntegersOn
  <1>2. PICK g : Sums(g, f, {}) /\ SumFunctionOnSet(f, {}) = g[{}]
    BY <1>1, SumsExist
  <1> QED
    BY <1>2 DEF Sums

LEMMA SumIsInteger ==
    ASSUME NEW S, IsFiniteSet(S), NEW f, IntegersOn(f, S)
    PROVE  SumFunctionOnSet(f, S) \in Int
  <1>1. PICK g : Sums(g, f, S) /\ SumFunctionOnSet(f, S) = g[S]
    BY SumsExist
  <1> QED
    BY <1>1 DEF Sums

\* Whichever element is taken out first.
LEMMA SumTakesOne ==
    ASSUME NEW S, IsFiniteSet(S), NEW f, IntegersOn(f, S), NEW x \in S
    PROVE  SumFunctionOnSet(f, S) = f[x] + SumFunctionOnSet(f, S \ {x})
  <1>1. PICK g : Sums(g, f, S)
    BY SumsExist
  <1>2. \A s \in SUBSET S : SumFunctionOnSet(f, s) = g[s]
    BY <1>1, SumsAgree
  <1>3. \A s \in SUBSET S : g[s] \in Int
    BY <1>1 DEF Sums
  <1>4. \A s \in SUBSET S : IsFiniteSet(s) /\ Cardinality(s) \in Nat
    BY FS_Subset, FS_CardinalityType
  <1> DEFINE Bad == {n \in Nat : \E s \in SUBSET S : \E y \in s :
                         Cardinality(s) = n /\ g[s] # f[y] + g[s \ {y}]}
  <1>5. ASSUME NEW n \in Bad, \A m \in Bad : n <= m
        PROVE  FALSE
    <2>1. PICK s \in SUBSET S : \E y \in s : Cardinality(s) = n /\ g[s] # f[y] + g[s \ {y}]
      OBVIOUS
    <2>0. PICK y \in s : Cardinality(s) = n /\ g[s] # f[y] + g[s \ {y}]
      BY <2>1
    <2>2. PICK z : z = CHOOSE w \in s : TRUE
      OBVIOUS
    <2>3. z \in s /\ g[s] = f[z] + g[s \ {z}]
      BY <1>1, <2>1, <2>2 DEF Sums
    <2>4. z # y
      BY <2>0, <2>3
    <2>5. Cardinality(s \ {z}) = n - 1 /\ Cardinality(s \ {y}) = n - 1 /\ n - 1 \in Nat
      <3>1. IsFiniteSet(s) /\ s \ {z} \in SUBSET S
        BY <1>4
      <3>2. Cardinality(s \ {z}) = n - 1
        BY <2>0, <2>3, <3>1, FS_RemoveElement
      <3>3. Cardinality(s \ {y}) = n - 1
        BY <2>0, <3>1, FS_RemoveElement
      <3>4. Cardinality(s \ {z}) \in Nat
        BY <1>4, <3>1
      <3> QED
        BY <3>2, <3>3, <3>4
    <2>6. n - 1 \notin Bad
      BY <1>5
    <2>7. g[s \ {z}] = f[y] + g[(s \ {z}) \ {y}]
      BY <2>0, <2>4, <2>5, <2>6
    <2>8. g[s \ {y}] = f[z] + g[(s \ {y}) \ {z}]
      BY <2>3, <2>4, <2>5, <2>6
    <2>9. PICK rest : rest = g[(s \ {y}) \ {z}]
      OBVIOUS
    <2>10. (s \ {z}) \ {y} = (s \ {y}) \ {z}
      OBVIOUS
    <2>11. g[(s \ {z}) \ {y}] = rest
      BY <2>9, <2>10, Zenon
    <2>12. f[y] \in Int /\ f[z] \in Int /\ rest \in Int
      BY <1>3, <2>3, <2>9 DEF IntegersOn
    <2>13. g[s] = f[z] + (f[y] + rest) /\ g[s \ {y}] = f[z] + rest
      BY <2>3, <2>7, <2>8, <2>9, <2>11
    <2>14. g[s] # f[y] + g[s \ {y}]
      BY <2>0
    <2> QED
      BY <2>12, <2>13, <2>14
  <1>6. Bad = {}
    <2>1. Bad \subseteq Nat
      OBVIOUS
    <2> HIDE DEF Bad
    <2> QED
      BY <1>5, <2>1, LeastNumber
  <1>7. g[S] = f[x] + g[S \ {x}]
    BY <1>4, <1>6
  <1> QED
    BY <1>2, <1>7

LEMMA SumWithOne ==
    ASSUME NEW S, IsFiniteSet(S), NEW f, IntegersOn(f, S), NEW x, x \notin S, f[x] \in Int
    PROVE  SumFunctionOnSet(f, S \cup {x}) = SumFunctionOnSet(f, S) + f[x]
  <1>1. IsFiniteSet(S \cup {x}) /\ IntegersOn(f, S \cup {x}) /\ (S \cup {x}) \ {x} = S
    BY FS_AddElement DEF IntegersOn
  <1>2. SumFunctionOnSet(f, S \cup {x}) = f[x] + SumFunctionOnSet(f, S)
    BY <1>1, SumTakesOne
  <1> QED
    BY <1>2, SumIsInteger

\* Equal parts make equal sums.
LEMMA SumOfSame ==
    ASSUME NEW S, IsFiniteSet(S), NEW f, NEW g, IntegersOn(f, S), \A x \in S : g[x] = f[x]
    PROVE  SumFunctionOnSet(g, S) = SumFunctionOnSet(f, S)
  <1> DEFINE T == {s \in SUBSET S : SumFunctionOnSet(g, s) = SumFunctionOnSet(f, s)}
  <1>1. {} \in T
    BY SumOfNone
  <1>2. ASSUME NEW s \in SUBSET S, NEW x \in S \ s, s \in T
        PROVE  s \cup {x} \in T
    <2>1. IsFiniteSet(s) /\ IntegersOn(f, s) /\ IntegersOn(g, s) /\ f[x] \in Int /\ g[x] = f[x]
      BY FS_Subset DEF IntegersOn
    <2>2. SumFunctionOnSet(f, s \cup {x}) = SumFunctionOnSet(f, s) + f[x]
      BY <2>1, SumWithOne
    <2>3. SumFunctionOnSet(g, s \cup {x}) = SumFunctionOnSet(g, s) + g[x]
      BY <2>1, SumWithOne
    <2> QED
      BY <1>2, <2>1, <2>2, <2>3
  <1>3. S \in T
    <2> HIDE DEF T
    <2>1. Grows(T, S)
      BY <1>1, <1>2 DEF Grows
    <2> QED
      BY <2>1, SetInduction
  <1> QED
    BY <1>3

\* The sum of sums.
LEMMA SumOfSums ==
    ASSUME NEW S, IsFiniteSet(S), NEW f, NEW g, NEW h, IntegersOn(f, S), IntegersOn(g, S),
           \A x \in S : h[x] = f[x] + g[x]
    PROVE  SumFunctionOnSet(h, S) = SumFunctionOnSet(f, S) + SumFunctionOnSet(g, S)
  <1> DEFINE T == {s \in SUBSET S : SumFunctionOnSet(h, s) = SumFunctionOnSet(f, s) + SumFunctionOnSet(g, s)}
  <1>1. {} \in T
    BY SumOfNone
  <1>2. ASSUME NEW s \in SUBSET S, NEW x \in S \ s, s \in T
        PROVE  s \cup {x} \in T
    <2>1. /\ IsFiniteSet(s) /\ IntegersOn(f, s) /\ IntegersOn(g, s) /\ IntegersOn(h, s)
          /\ f[x] \in Int /\ g[x] \in Int /\ h[x] = f[x] + g[x]
      BY FS_Subset DEF IntegersOn
    <2>2. SumFunctionOnSet(f, s \cup {x}) = SumFunctionOnSet(f, s) + f[x]
      BY <2>1, SumWithOne
    <2>3. SumFunctionOnSet(g, s \cup {x}) = SumFunctionOnSet(g, s) + g[x]
      BY <2>1, SumWithOne
    <2>4. SumFunctionOnSet(h, s \cup {x}) = SumFunctionOnSet(h, s) + h[x]
      BY <2>1, SumWithOne
    <2>5. SumFunctionOnSet(f, s) \in Int /\ SumFunctionOnSet(g, s) \in Int
      BY <2>1, SumIsInteger
    <2> QED
      BY <1>2, <2>1, <2>2, <2>3, <2>4, <2>5
  <1>3. S \in T
    <2> HIDE DEF T
    <2>1. Grows(T, S)
      BY <1>1, <1>2 DEF Grows
    <2> QED
      BY <2>1, SetInduction
  <1> QED
    BY <1>3

\* The sum over two sets that have nothing in common.
LEMMA SumOfBoth ==
    ASSUME NEW R, IsFiniteSet(R), NEW S, IsFiniteSet(S), R \cap S = {}, NEW f,
           IntegersOn(f, R), IntegersOn(f, S)
    PROVE  SumFunctionOnSet(f, R \cup S) = SumFunctionOnSet(f, R) + SumFunctionOnSet(f, S)
  <1> DEFINE T == {s \in SUBSET S : SumFunctionOnSet(f, R \cup s)
                                      = SumFunctionOnSet(f, R) + SumFunctionOnSet(f, s)}
  <1>1. {} \in T
    <2>1. R \cup {} = R
      OBVIOUS
    <2>2. SumFunctionOnSet(f, R) \in Int /\ SumFunctionOnSet(f, {}) = 0
      BY SumIsInteger, SumOfNone
    <2> QED
      BY <2>1, <2>2
  <1>2. ASSUME NEW s \in SUBSET S, NEW x \in S \ s, s \in T
        PROVE  s \cup {x} \in T
    <2>1. IsFiniteSet(s) /\ IntegersOn(f, s) /\ f[x] \in Int /\ x \notin R
      BY FS_Subset DEF IntegersOn
    <2>2. SumFunctionOnSet(f, s \cup {x}) = SumFunctionOnSet(f, s) + f[x]
      BY <2>1, SumWithOne
    <2>3. IsFiniteSet(R \cup s) /\ IntegersOn(f, R \cup s) /\ x \notin R \cup s
      BY <2>1, FS_Union DEF IntegersOn
    <2>4. SumFunctionOnSet(f, (R \cup s) \cup {x}) = SumFunctionOnSet(f, R \cup s) + f[x]
      BY <2>1, <2>3, SumWithOne
    <2>5. (R \cup s) \cup {x} = R \cup (s \cup {x})
      OBVIOUS
    <2>6. SumFunctionOnSet(f, R) \in Int /\ SumFunctionOnSet(f, s) \in Int
      BY <2>1, SumIsInteger
    <2>7. SumFunctionOnSet(f, R \cup (s \cup {x})) = SumFunctionOnSet(f, R \cup s) + f[x]
      BY <2>4, <2>5, Zenon
    <2>8. SumFunctionOnSet(f, R \cup s) = SumFunctionOnSet(f, R) + SumFunctionOnSet(f, s)
      BY <1>2
    <2>9. SumFunctionOnSet(f, R \cup (s \cup {x}))
             = SumFunctionOnSet(f, R) + SumFunctionOnSet(f, s \cup {x})
      BY <2>1, <2>2, <2>6, <2>7, <2>8
    <2>10. s \cup {x} \in SUBSET S
      OBVIOUS
    <2> QED
      BY <2>9, <2>10
  <1>3. S \in T
    <2> HIDE DEF T
    <2>1. Grows(T, S)
      BY <1>1, <1>2 DEF Grows
    <2> QED
      BY <2>1, SetInduction
  <1> QED
    BY <1>3

LEMMA SumOfZeros ==
    ASSUME NEW S, IsFiniteSet(S), NEW f, \A x \in S : f[x] = 0
    PROVE  SumFunctionOnSet(f, S) = 0
  <1> DEFINE T == {s \in SUBSET S : SumFunctionOnSet(f, s) = 0}
  <1>1. {} \in T
    BY SumOfNone
  <1>2. ASSUME NEW s \in SUBSET S, NEW x \in S \ s, s \in T
        PROVE  s \cup {x} \in T
    <2>1. IsFiniteSet(s) /\ IntegersOn(f, s) /\ f[x] = 0
      BY FS_Subset DEF IntegersOn
    <2>2. SumFunctionOnSet(f, s \cup {x}) = SumFunctionOnSet(f, s) + f[x]
      BY <2>1, SumWithOne
    <2> QED
      BY <1>2, <2>1, <2>2
  <1>3. S \in T
    <2> HIDE DEF T
    <2>1. Grows(T, S)
      BY <1>1, <1>2 DEF Grows
    <2> QED
      BY <2>1, SetInduction
  <1> QED
    BY <1>3

\* What adds nothing may be left out.
LEMMA SumOfSome ==
    ASSUME NEW S, IsFiniteSet(S), NEW f, IntegersOn(f, S), NEW R \in SUBSET S,
           \A x \in S \ R : f[x] = 0
    PROVE  SumFunctionOnSet(f, S) = SumFunctionOnSet(f, R)
  <1>1. IsFiniteSet(R) /\ IsFiniteSet(S \ R) /\ IntegersOn(f, R) /\ IntegersOn(f, S \ R)
    BY FS_Subset DEF IntegersOn
  <1>2. SumFunctionOnSet(f, S \ R) = 0
    BY <1>1, SumOfZeros
  <1>3. SumFunctionOnSet(f, R \cup (S \ R)) = SumFunctionOnSet(f, R) + SumFunctionOnSet(f, S \ R)
    BY <1>1, SumOfBoth
  <1>4. R \cup (S \ R) = S
    OBVIOUS
  <1>5. SumFunctionOnSet(f, S) = SumFunctionOnSet(f, R) + SumFunctionOnSet(f, S \ R)
    BY <1>3, <1>4, Zenon
  <1>6. SumFunctionOnSet(f, R) \in Int
    BY <1>1, SumIsInteger
  <1> QED
    BY <1>2, <1>5, <1>6

\* Nothing negative makes nothing negative.
LEMMA SumIsNatural ==
    ASSUME NEW S, IsFiniteSet(S), NEW f, \A x \in S : f[x] \in Nat
    PROVE  SumFunctionOnSet(f, S) \in Nat /\ \A x \in S : f[x] <= SumFunctionOnSet(f, S)
  <1> DEFINE T == {s \in SUBSET S : SumFunctionOnSet(f, s) \in Nat}
  <1>1. {} \in T
    BY SumOfNone
  <1>2. ASSUME NEW s \in SUBSET S, NEW x \in S \ s, s \in T
        PROVE  s \cup {x} \in T
    <2>1. IsFiniteSet(s) /\ IntegersOn(f, s) /\ f[x] \in Nat
      BY FS_Subset DEF IntegersOn
    <2>2. SumFunctionOnSet(f, s \cup {x}) = SumFunctionOnSet(f, s) + f[x]
      BY <2>1, SumWithOne
    <2> QED
      BY <1>2, <2>1, <2>2
  <1>3. Grows(T, S) /\ (\A s \in SUBSET S : \A x \in S : TRUE)
    <2> HIDE DEF T
    <2> QED
      BY <1>1, <1>2 DEF Grows
  <1>4. \A s \in SUBSET S : s \in T
    <2> SUFFICES ASSUME NEW s \in SUBSET S PROVE s \in T
      OBVIOUS
    <2>1. IsFiniteSet(s) /\ Grows(T, s)
      BY <1>3, FS_Subset DEF Grows
    <2> HIDE DEF T
    <2> QED
      BY <2>1, SetInduction
  <1>5. ASSUME NEW x \in S
        PROVE  f[x] <= SumFunctionOnSet(f, S)
    <2>1. IntegersOn(f, S)
      BY DEF IntegersOn
    <2>2. SumFunctionOnSet(f, S) = f[x] + SumFunctionOnSet(f, S \ {x})
      BY <2>1, SumTakesOne
    <2>3. SumFunctionOnSet(f, S \ {x}) \in Nat
      BY <1>4
    <2> QED
      BY <2>2, <2>3
  <1> QED
    BY <1>4, <1>5

LEMMA ImageIsFinite ==
    ASSUME NEW S, IsFiniteSet(S), NEW h
    PROVE  IsFiniteSet({h[x] : x \in S})
  <1> DEFINE T == {s \in SUBSET S : IsFiniteSet({h[x] : x \in s})}
  <1>1. {} \in T
    <2>1. {h[x] : x \in {}} = {}
      OBVIOUS
    <2> QED
      BY <2>1, FS_EmptySet
  <1>2. ASSUME NEW s \in SUBSET S, NEW y \in S \ s, s \in T
        PROVE  s \cup {y} \in T
    <2>1. {h[x] : x \in s \cup {y}} = {h[x] : x \in s} \cup {h[y]}
      OBVIOUS
    <2>2. IsFiniteSet({h[x] : x \in s} \cup {h[y]})
      BY <1>2, FS_AddElement
    <2> QED
      BY <2>1, <2>2
  <1>3. S \in T
    <2> HIDE DEF T
    <2>1. Grows(T, S)
      BY <1>1, <1>2 DEF Grows
    <2> QED
      BY <2>1, SetInduction
  <1> QED
    BY <1>3

\* The elements may be named otherwise.
LEMMA SumOfImage ==
    ASSUME NEW S, IsFiniteSet(S), NEW f, NEW g, NEW h, IntegersOn(g, S),
           \A x, y \in S : h[x] = h[y] => x = y, \A x \in S : f[h[x]] = g[x]
    PROVE  SumFunctionOnSet(f, {h[x] : x \in S}) = SumFunctionOnSet(g, S)
  <1> DEFINE T == {s \in SUBSET S : SumFunctionOnSet(f, {h[x] : x \in s}) = SumFunctionOnSet(g, s)}
  <1>1. {} \in T
    <2>1. {h[x] : x \in {}} = {}
      OBVIOUS
    <2> QED
      BY <2>1, SumOfNone
  <1>2. ASSUME NEW s \in SUBSET S, NEW y \in S \ s, s \in T
        PROVE  s \cup {y} \in T
    <2>1. IsFiniteSet(s) /\ IntegersOn(g, s) /\ g[y] \in Int
      BY FS_Subset DEF IntegersOn
    <2>2. PICK R : R = {h[x] : x \in s}
      OBVIOUS
    <2>3. IsFiniteSet(R) /\ IntegersOn(f, R) /\ h[y] \notin R /\ f[h[y]] = g[y]
      <3>1. IsFiniteSet({h[x] : x \in s})
        BY <2>1, ImageIsFinite
      <3> QED
        BY <2>1, <2>2, <3>1 DEF IntegersOn
    <2>4. SumFunctionOnSet(f, R \cup {h[y]}) = SumFunctionOnSet(f, R) + f[h[y]]
      BY <2>1, <2>3, SumWithOne
    <2>5. SumFunctionOnSet(g, s \cup {y}) = SumFunctionOnSet(g, s) + g[y]
      BY <2>1, SumWithOne
    <2>6. R \cup {h[y]} = {h[x] : x \in s \cup {y}}
      BY <2>2
    <2>7. SumFunctionOnSet(f, R) = SumFunctionOnSet(g, s)
      BY <1>2, <2>2
    <2>8. SumFunctionOnSet(f, {h[x] : x \in s \cup {y}}) = SumFunctionOnSet(g, s \cup {y})
      BY <2>3, <2>4, <2>5, <2>6, <2>7
    <2>9. s \cup {y} \in SUBSET S
      OBVIOUS
    <2> QED
      BY <2>8, <2>9
  <1>3. S \in T
    <2> HIDE DEF T
    <2>1. Grows(T, S)
      BY <1>1, <1>2 DEF Grows
    <2> QED
      BY <2>1, SetInduction
  <1> QED
    BY <1>3

LEMMA SumOfNegated ==
    ASSUME NEW S, IsFiniteSet(S), NEW f, NEW g, IntegersOn(f, S), \A x \in S : g[x] = -f[x]
    PROVE  SumFunctionOnSet(g, S) = -SumFunctionOnSet(f, S)
  <1>1. PICK h : h = [x \in S |-> 0]
    OBVIOUS
  <1>2. IntegersOn(g, S) /\ \A x \in S : h[x] = f[x] + g[x] /\ h[x] = 0
    BY <1>1 DEF IntegersOn
  <1>3. SumFunctionOnSet(h, S) = SumFunctionOnSet(f, S) + SumFunctionOnSet(g, S)
    BY <1>2, SumOfSums
  <1>4. SumFunctionOnSet(h, S) = 0
    BY <1>2, SumOfZeros
  <1> QED
    BY <1>2, <1>3, <1>4, SumIsInteger

\* One part changes.
LEMMA SumChanged ==
    ASSUME NEW S, IsFiniteSet(S), NEW f, NEW g, IntegersOn(f, S), IntegersOn(g, S), NEW x \in S,
           \A y \in S \ {x} : g[y] = f[y]
    PROVE  SumFunctionOnSet(g, S) = SumFunctionOnSet(f, S) - f[x] + g[x]
  <1>1. SumFunctionOnSet(f, S) = f[x] + SumFunctionOnSet(f, S \ {x})
    BY SumTakesOne
  <1>2. SumFunctionOnSet(g, S) = g[x] + SumFunctionOnSet(g, S \ {x})
    BY SumTakesOne
  <1>3. IsFiniteSet(S \ {x}) /\ IntegersOn(f, S \ {x})
    BY FS_Subset DEF IntegersOn
  <1>4. SumFunctionOnSet(g, S \ {x}) = SumFunctionOnSet(f, S \ {x})
    BY <1>3, SumOfSame
  <1>5. SumFunctionOnSet(f, S \ {x}) \in Int /\ f[x] \in Int /\ g[x] \in Int
    BY <1>3, SumIsInteger DEF IntegersOn
  <1> QED
    BY <1>1, <1>2, <1>4, <1>5

\* Two parts, each with a sum of its own.
LEMMA SumOfUnion ==
    ASSUME NEW R, IsFiniteSet(R), NEW S, IsFiniteSet(S), R \cap S = {}, NEW f, NEW g, NEW h,
           IntegersOn(f, R), IntegersOn(g, S), \A x \in R : h[x] = f[x], \A x \in S : h[x] = g[x]
    PROVE  SumFunctionOnSet(h, R \cup S) = SumFunctionOnSet(f, R) + SumFunctionOnSet(g, S)
  <1>1. IntegersOn(h, R) /\ IntegersOn(h, S)
    BY DEF IntegersOn
  <1>2. SumFunctionOnSet(h, R \cup S) = SumFunctionOnSet(h, R) + SumFunctionOnSet(h, S)
    BY <1>1, SumOfBoth
  <1>3. SumFunctionOnSet(h, R) = SumFunctionOnSet(f, R) /\ SumFunctionOnSet(h, S) = SumFunctionOnSet(g, S)
    BY SumOfSame
  <1> QED
    BY <1>2, <1>3

IsOnlyAt(f, S, x, v) == \A y \in S : f[y] = IF x = y THEN v ELSE 0

\* What is on one element only.
LEMMA SumOfOne ==
    ASSUME NEW S, IsFiniteSet(S), NEW f, NEW x, NEW v, v \in Int,
           IsOnlyAt(f, S, x, v)
    PROVE  SumFunctionOnSet(f, S) = IF x \in S THEN v ELSE 0
  <1>0. \A y \in S : f[y] = IF x = y THEN v ELSE 0
    BY DEF IsOnlyAt
  <1>1. IntegersOn(f, S)
    BY <1>0 DEF IntegersOn
  <1>2. CASE x \in S
    <2>1. SumFunctionOnSet(f, S) = f[x] + SumFunctionOnSet(f, S \ {x})
      BY <1>1, <1>2, SumTakesOne
    <2>2. IsFiniteSet(S \ {x}) /\ \A y \in S \ {x} : f[y] = 0
      BY <1>0, FS_Subset
    <2>3. SumFunctionOnSet(f, S \ {x}) = 0
      BY <2>2, SumOfZeros
    <2> QED
      BY <1>0, <1>2, <2>1, <2>3
  <1>3. CASE x \notin S
    <2>1. \A y \in S : f[y] = 0
      BY <1>0, <1>3
    <2> QED
      BY <1>3, <2>1, SumOfZeros
  <1> QED
    BY <1>2, <1>3

\* The sum of a function over its domain.
LEMMA SumFunctionIs == ASSUME NEW S, NEW f, DOMAIN f = S PROVE SumFunction(f) = SumFunctionOnSet(f, S)
  BY Zenon DEF SumFunction

\* The sum over a table, by rows and by columns.
TableSums(m, R, C, rows, cols) ==
    /\ \A x \in R, y \in C : m[x][y] \in Int
    /\ \A x \in R : rows[x] = SumFunctionOnSet(m[x], C)
    /\ \A y \in C : cols[y] = SumFunctionOnSet([x \in R |-> m[x][y]], R)

LEMMA SumOfTable ==
    ASSUME NEW R, IsFiniteSet(R), NEW C, IsFiniteSet(C), NEW m, NEW rows, NEW cols,
           TableSums(m, R, C, rows, cols)
    PROVE  SumFunctionOnSet(rows, R) = SumFunctionOnSet(cols, C)
  <1> DEFINE Col(y) == [x \in R |-> m[x][y]]
             Part(s) == [y \in C |-> SumFunctionOnSet(Col(y), s)]
             T == {s \in SUBSET R : SumFunctionOnSet(rows, s) = SumFunctionOnSet(Part(s), C)}
  <1>0. /\ \A x \in R, y \in C : m[x][y] \in Int
        /\ \A x \in R : rows[x] = SumFunctionOnSet(m[x], C)
        /\ \A y \in C : cols[y] = SumFunctionOnSet(Col(y), R)
    BY DEF TableSums
  <1>1. \A y \in C : IntegersOn(Col(y), R) /\ \A x \in R : Col(y)[x] = m[x][y]
    BY <1>0 DEF IntegersOn
  <1>2. \A x \in R : IntegersOn(m[x], C) /\ rows[x] \in Int
    <2>1. \A x \in R : IntegersOn(m[x], C)
      BY <1>0 DEF IntegersOn
    <2> QED
      BY <1>0, <2>1, SumIsInteger
  <1>3. \A s \in SUBSET R : IntegersOn(Part(s), C) /\ \A y \in C : Part(s)[y] = SumFunctionOnSet(Col(y), s)
    <2> SUFFICES ASSUME NEW s \in SUBSET R, NEW y \in C
                 PROVE  SumFunctionOnSet(Col(y), s) \in Int
      BY DEF IntegersOn
    <2>1. PICK c : c = Col(y)
      OBVIOUS
    <2>2. IsFiniteSet(s) /\ IntegersOn(c, s)
      BY <1>1, <2>1, FS_Subset DEF IntegersOn
    <2>3. SumFunctionOnSet(c, s) \in Int
      BY <2>2, SumIsInteger
    <2> QED
      BY <2>1, <2>3
  <1>4. {} \in T
    <2>1. PICK p : p = Part({})
      OBVIOUS
    <2>2. \A y \in C : p[y] = 0
      BY <2>1, SumOfNone
    <2>3. SumFunctionOnSet(p, C) = 0
      BY <2>2, SumOfZeros
    <2> QED
      BY <2>1, <2>3, SumOfNone
  <1>5. ASSUME NEW s \in SUBSET R, NEW x \in R \ s, s \in T
        PROVE  s \cup {x} \in T
    <2>1. PICK p : p = Part(s)
      OBVIOUS
    <2>2. PICK q : q = Part(s \cup {x})
      OBVIOUS
    <2>3. IsFiniteSet(s) /\ IntegersOn(rows, s)
      BY <1>2, FS_Subset DEF IntegersOn
    <2>4. SumFunctionOnSet(rows, s \cup {x}) = SumFunctionOnSet(rows, s) + rows[x]
      BY <1>2, <2>3, SumWithOne
    <2>5. \A y \in C : q[y] = p[y] + m[x][y]
      <3> SUFFICES ASSUME NEW y \in C PROVE q[y] = p[y] + m[x][y]
        OBVIOUS
      <3>1. PICK c : c = Col(y)
        OBVIOUS
      <3>2. IntegersOn(c, s) /\ c[x] = m[x][y] /\ c[x] \in Int
        BY <1>0, <1>1, <3>1 DEF IntegersOn
      <3>3. SumFunctionOnSet(c, s \cup {x}) = SumFunctionOnSet(c, s) + c[x]
        BY <2>3, <3>2, SumWithOne
      <3>4. q[y] = SumFunctionOnSet(c, s \cup {x}) /\ p[y] = SumFunctionOnSet(c, s)
        BY <2>1, <2>2, <3>1
      <3> QED
        BY <3>2, <3>3, <3>4
    <2>6. IntegersOn(p, C) /\ IntegersOn(m[x], C)
      BY <1>2, <1>3, <2>1
    <2>7. SumFunctionOnSet(q, C) = SumFunctionOnSet(p, C) + SumFunctionOnSet(m[x], C)
      BY <2>5, <2>6, SumOfSums
    <2>8. SumFunctionOnSet(rows, s) = SumFunctionOnSet(p, C)
      BY <1>5, <2>1
    <2>9. SumFunctionOnSet(rows, s \cup {x}) = SumFunctionOnSet(q, C)
      BY <1>0, <2>4, <2>7, <2>8
    <2>10. s \cup {x} \in SUBSET R
      OBVIOUS
    <2> QED
      BY <2>2, <2>9, <2>10
  <1>6. R \in T
    <2> HIDE DEF T
    <2>1. Grows(T, R)
      BY <1>4, <1>5 DEF Grows
    <2> QED
      BY <2>1, SetInduction
  <1>7. PICK p : p = Part(R)
    OBVIOUS
  <1>8. \A y \in C : p[y] = cols[y]
    BY <1>0, <1>7
  <1>9. IntegersOn(p, C)
    BY <1>3, <1>7
  <1>10. SumFunctionOnSet(cols, C) = SumFunctionOnSet(p, C)
    BY <1>8, <1>9, SumOfSame
  <1> QED
    BY <1>6, <1>7, <1>10

---------------------------------------------------------------------------
(* Some of the entries of a sequence *)

\* What is kept of the first k entries, for every k.
KeptSoFar(h, E, ln, places) ==
    /\ h \in [0..Len(ln) -> Seq(E)]
    /\ h[0] = <<>>
    /\ \A k \in 1..Len(ln) : h[k] = IF k \in places THEN Append(h[k - 1], ln[k]) ELSE h[k - 1]

LEMMA KeptFold ==
    ASSUME NEW E, NEW ln \in Seq(E), NEW places
    PROVE  \E h : KeptSoFar(h, E, ln, places) /\ Kept(ln, places) = h[Len(ln)]
  <1>1. PICK n \in Nat : n = Len(ln) /\ DOMAIN ln = 1..n /\ \A i \in 1..n : ln[i] \in E
    BY LenProperties
  <1>2. PICK D : D = [i \in DOMAIN ln |-> i]
    OBVIOUS
  <1>3. DOMAIN D = 1..n /\ \A i \in 1..n : D[i] = i
    BY <1>1, <1>2
  <1>4. Kept(ln, places) =
           (CHOOSE f : f = [s \in SUBSET DOMAIN [i \in DOMAIN ln |-> i] |->
               IF s = {} THEN <<>>
               ELSE IF [i \in DOMAIN ln |-> i][Max(s)] \in places
                    THEN Append(f[s \ {Max(s)}], ln[[i \in DOMAIN ln |-> i][Max(s)]])
                    ELSE f[s \ {Max(s)}]])[DOMAIN [i \in DOMAIN ln |-> i]]
    BY Zenon DEF Kept, FoldLeftDomain, FoldLeft, MapThenFoldSet
  <1>5. PICK F :
           /\ F = CHOOSE f : f = [s \in SUBSET DOMAIN D |->
                       IF s = {} THEN <<>>
                       ELSE IF D[Max(s)] \in places THEN Append(f[s \ {Max(s)}], ln[D[Max(s)]])
                       ELSE f[s \ {Max(s)}]]
           /\ Kept(ln, places) = F[DOMAIN D]
    BY <1>2, <1>4, Zenon
  <1>6. PICK pick : pick = [s \in SUBSET (1..n) |-> Max(s)]
    OBVIOUS
  <1>7. PICK step : step = [p \in (1..n) \X Seq(E) |->
                               IF p[1] \in places THEN Append(p[2], ln[p[1]]) ELSE p[2]]
    OBVIOUS
  <1>8. PICK f : TakesApart(f, 1..n, Seq(E), <<>>, pick, step)
    <2>1. Picks(pick, 1..n)
      BY <1>6, PlacesOf DEF Picks
    <2>2. Steps(step, 1..n, Seq(E))
      BY <1>1, <1>7 DEF Steps
    <2>3. <<>> \in Seq(E) /\ IsFiniteSet(1..n)
      BY PlacesOf
    <2> QED
      BY <2>1, <2>2, <2>3, SubsetRecursion
  <1>9. \A s \in SUBSET (1..n) :
           f[s] = IF s = {} THEN <<>>
                  ELSE IF Max(s) \in places THEN Append(f[s \ {Max(s)}], ln[Max(s)])
                  ELSE f[s \ {Max(s)}]
    <2> SUFFICES ASSUME NEW s \in SUBSET (1..n), s # {}
                 PROVE  f[s] = IF Max(s) \in places THEN Append(f[s \ {Max(s)}], ln[Max(s)])
                               ELSE f[s \ {Max(s)}]
      BY <1>8 DEF TakesApart
    <2>1. Max(s) \in s
      BY PlacesOf
    <2>2. f[s \ {Max(s)}] \in Seq(E)
      BY <1>8 DEF TakesApart
    <2> QED
      BY <1>6, <1>7, <1>8, <2>1, <2>2 DEF TakesApart
  <1>10. f = [s \in SUBSET DOMAIN D |->
                IF s = {} THEN <<>>
                ELSE IF D[Max(s)] \in places THEN Append(f[s \ {Max(s)}], ln[D[Max(s)]])
                ELSE f[s \ {Max(s)}]]
    <2>1. \A s \in SUBSET (1..n) : s # {} => D[Max(s)] = Max(s)
      BY <1>3, PlacesOf
    <2> QED
      BY <1>3, <1>8, <1>9, <2>1 DEF TakesApart
  <1>11. F = [s \in SUBSET DOMAIN D |->
                IF s = {} THEN <<>>
                ELSE IF D[Max(s)] \in places THEN Append(F[s \ {Max(s)}], ln[D[Max(s)]])
                ELSE F[s \ {Max(s)}]]
    BY <1>5, <1>10
  <1>12. F[{}] = <<>>
    BY <1>3, <1>11
  <1>13. \A k \in 1..n :
            F[1..k] = IF k \in places THEN Append(F[1..(k - 1)], ln[k]) ELSE F[1..(k - 1)]
    <2> SUFFICES ASSUME NEW k \in 1..n
                 PROVE  F[1..k] = IF k \in places THEN Append(F[1..(k - 1)], ln[k])
                                  ELSE F[1..(k - 1)]
      OBVIOUS
    <2>1. Max(1..k) = k /\ (1..k) \ {k} = 1..(k - 1) /\ 1..k # {} /\ 1..k \in SUBSET DOMAIN D
      BY <1>3, PlacesOf
    <2>2. F[1..k] = IF D[Max(1..k)] \in places
                    THEN Append(F[(1..k) \ {Max(1..k)}], ln[D[Max(1..k)]])
                    ELSE F[(1..k) \ {Max(1..k)}]
      BY <1>11, <2>1
    <2> QED
      BY <1>3, <2>1, <2>2
  <1> DEFINE h == [k \in 0..n |-> F[1..k]]
             Typed == {k \in 0..n : h[k] \in Seq(E)}
  <1>14. h[0] = <<>> /\ \A k \in 1..n :
            h[k] = IF k \in places THEN Append(h[k - 1], ln[k]) ELSE h[k - 1]
    BY <1>12, <1>13
  <1>15. h[n] = Kept(ln, places)
    BY <1>3, <1>5
  <1>16. h = [k \in 0..n |-> h[k]]
    OBVIOUS
  <1> HIDE DEF h
  <1>17. 0 \in Typed
    <2>1. h[0] \in Seq(E)
      BY <1>14, EmptySeq
    <2> QED
      BY <2>1
  <1>18. ASSUME NEW k \in 1..n, k - 1 \in Typed
         PROVE  k \in Typed
    <2>1. ln[k] \in E /\ h[k - 1] \in Seq(E) /\ k \in 0..n
      BY <1>1, <1>18
    <2>2. Append(h[k - 1], ln[k]) \in Seq(E)
      BY <2>1, AppendProperties
    <2>3. h[k] \in Seq(E)
      BY <1>14, <2>1, <2>2
    <2> QED
      BY <2>1, <2>3
  <1>19. \A k \in 0..n : h[k] \in Seq(E)
    <2>1. 0..n \subseteq Typed
      <3> HIDE DEF Typed
      <3> QED
        BY <1>17, <1>18, Induction
    <2> QED
      BY <2>1
  <1>20. h \in [0..n -> Seq(E)]
    BY <1>16, <1>19
  <1>21. KeptSoFar(h, E, ln, places)
    BY <1>1, <1>14, <1>20 DEF KeptSoFar
  <1> QED
    BY <1>1, <1>15, <1>21

\* Each entry of kept comes from one of the places, and from each at most one.
KeptFrom(kept, from, ln, places) ==
    /\ from \in [1..Len(kept) -> places]
    /\ \A i \in 1..Len(kept) : kept[i] = ln[from[i]]
    /\ \A i, j \in 1..Len(kept) : from[i] = from[j] => i = j

LEMMA KeptOneMore ==
    ASSUME NEW E, NEW ln, NEW kept \in Seq(E), NEW from, NEW places,
           KeptFrom(kept, from, ln, places), NEW k, k \notin places, ln[k] \in E
    PROVE  \E later : KeptFrom(Append(kept, ln[k]), later, ln, places \cup {k})
  <1>1. PICK n \in Nat : n = Len(kept)
    BY LenProperties
  <1>2. PICK more : more = Append(kept, ln[k])
    OBVIOUS
  <1>3. /\ Len(more) = n + 1 /\ more[n + 1] = ln[k]
        /\ \A i \in 1..n : more[i] = kept[i]
    BY <1>1, <1>2, AppendProperties
  <1>4. /\ from \in [1..n -> places]
        /\ \A i \in 1..n : kept[i] = ln[from[i]]
        /\ \A i, j \in 1..n : from[i] = from[j] => i = j
    BY <1>1 DEF KeptFrom
  <1>5. PICK later : later = [i \in 1..(n + 1) |-> IF i = n + 1 THEN k ELSE from[i]]
    OBVIOUS
  <1>6. later[n + 1] = k /\ \A i \in 1..n : later[i] = from[i] /\ later[i] \in places
    BY <1>4, <1>5
  <1>7. \A i \in 1..(n + 1) : i = n + 1 \/ i \in 1..n
    OBVIOUS
  <1>8. later \in [1..(n + 1) -> places \cup {k}]
    BY <1>5, <1>6, <1>7
  <1>9. \A i \in 1..(n + 1) : more[i] = ln[later[i]]
    BY <1>3, <1>4, <1>6, <1>7
  <1>10. \A i, j \in 1..(n + 1) : later[i] = later[j] => i = j
    BY <1>4, <1>6, <1>7
  <1>11. KeptFrom(more, later, ln, places \cup {k})
    BY <1>3, <1>8, <1>9, <1>10 DEF KeptFrom
  <1> QED
    BY <1>2, <1>11

LEMMA KeptEntries ==
    ASSUME NEW E, NEW ln \in Seq(E), NEW places
    PROVE  /\ Kept(ln, places) \in Seq(E)
           /\ \E from : KeptFrom(Kept(ln, places), from, ln, DOMAIN ln \cap places)
  <1>1. PICK n \in Nat : n = Len(ln) /\ DOMAIN ln = 1..n /\ \A i \in 1..n : ln[i] \in E
    BY LenProperties
  <1>2. PICK h : KeptSoFar(h, E, ln, places) /\ Kept(ln, places) = h[n]
    BY <1>1, KeptFold
  <1>3. /\ \A k \in 0..n : h[k] \in Seq(E)
        /\ h[0] = <<>>
        /\ \A k \in 1..n : h[k] = IF k \in places THEN Append(h[k - 1], ln[k]) ELSE h[k - 1]
    BY <1>1, <1>2 DEF KeptSoFar
  <1> DEFINE Good == {k \in 0..n : \E from : KeptFrom(h[k], from, ln, (1..k) \cap places)}
  <1>4. 0 \in Good
    <2>1. KeptFrom(<<>>, <<>>, ln, (1..0) \cap places)
      BY DEF KeptFrom
    <2> QED
      BY <1>3, <2>1
  <1>5. ASSUME NEW k \in 1..n, k - 1 \in Good
        PROVE  k \in Good
    <2>1. PICK from : KeptFrom(h[k - 1], from, ln, (1..(k - 1)) \cap places)
      BY <1>5
    <2>2. CASE k \notin places
      <3>1. h[k] = h[k - 1] /\ (1..k) \cap places = (1..(k - 1)) \cap places
        BY <1>3, <2>2
      <3>2. \E g : KeptFrom(h[k], g, ln, (1..k) \cap places)
        BY <2>1, <3>1
      <3> QED
        BY <3>2
    <2>3. CASE k \in places
      <3>1. h[k] = Append(h[k - 1], ln[k]) /\ h[k - 1] \in Seq(E) /\ ln[k] \in E
        <4>1. k - 1 \in 0..n
          OBVIOUS
        <4> QED
          BY <1>1, <1>3, <2>3, <4>1
      <3>2. (1..k) \cap places = ((1..(k - 1)) \cap places) \cup {k} /\ k \notin (1..(k - 1)) \cap places
        BY <2>3
      <3>3. \E later : KeptFrom(Append(h[k - 1], ln[k]), later, ln, ((1..(k - 1)) \cap places) \cup {k})
        BY <2>1, <3>1, <3>2, KeptOneMore
      <3>4. \E g : KeptFrom(h[k], g, ln, (1..k) \cap places)
        BY <3>1, <3>2, <3>3
      <3> QED
        BY <3>4
    <2> QED
      BY <2>2, <2>3
  <1>6. n \in Good
    <2> HIDE DEF Good
    <2>1. 0..n \subseteq Good
      BY <1>4, <1>5, Induction
    <2> QED
      BY <2>1
  <1> QED
    BY <1>1, <1>2, <1>3, <1>6

\* Numbers of a set, in ascending order.
Ascends(numbers, S) ==
    /\ numbers \in Seq(Nat)
    /\ \A i \in 1..Len(numbers) : numbers[i] \in S
    /\ \A i, j \in 1..Len(numbers) : i < j => numbers[i] < numbers[j]

LEMMA AscendsToNext ==
    ASSUME NEW k \in Nat \ {0}, NEW S, NEW numbers, Ascends(numbers, (1..(k - 1)) \cap S), k \in S
    PROVE  /\ Ascends(Append(numbers, k), (1..k) \cap S)
           /\ Append(numbers, k) # <<>> /\ Last(Append(numbers, k)) = k
  <1>1. PICK n \in Nat : n = Len(numbers) /\ numbers \in Seq(Nat)
    BY LenProperties DEF Ascends
  <1>2. PICK more : more = Append(numbers, k)
    OBVIOUS
  <1>3. /\ more \in Seq(Nat) /\ Len(more) = n + 1 /\ more[n + 1] = k
        /\ \A i \in 1..n : more[i] = numbers[i]
    BY <1>1, <1>2, AppendProperties
  <1>4. \A i \in 1..n : numbers[i] \in (1..(k - 1)) \cap S
    BY <1>1 DEF Ascends
  <1>5. \A i, j \in 1..n : i < j => numbers[i] < numbers[j]
    BY <1>1 DEF Ascends
  <1>6. \A i \in 1..(n + 1) : i = n + 1 \/ i \in 1..n
    BY <1>1
  <1>7. \A i \in 1..(n + 1) : more[i] \in (1..k) \cap S
    BY <1>3, <1>4, <1>6
  <1>8. \A i, j \in 1..(n + 1) : i < j => more[i] < more[j]
    <2> SUFFICES ASSUME NEW i \in 1..(n + 1), NEW j \in 1..(n + 1), i < j
                 PROVE  more[i] < more[j]
      OBVIOUS
    <2>1. i \in 1..n
      BY <1>1
    <2>2. CASE j = n + 1
      BY <1>3, <1>4, <2>1, <2>2
    <2>3. CASE j # n + 1
      BY <1>3, <1>5, <1>6, <2>1, <2>3
    <2> QED
      BY <2>2, <2>3
  <1>9. more # <<>> /\ Last(more) = k
    BY <1>1, <1>3 DEF Last
  <1> QED
    BY <1>2, <1>3, <1>7, <1>8, <1>9 DEF Ascends

\* Of the numbers up to n, those of a set ascend, and end with n if it is one of them.
LEMMA KeptNumbers ==
    ASSUME NEW n \in Nat, NEW S
    PROVE  /\ Ascends(Kept([i \in 1..n |-> i], S), (1..n) \cap S)
           /\ n # 0 /\ n \in S => /\ Kept([i \in 1..n |-> i], S) # <<>>
                                  /\ Last(Kept([i \in 1..n |-> i], S)) = n
  <1>1. PICK ln : ln = [i \in 1..n |-> i]
    OBVIOUS
  <1>2. ln \in Seq(Nat) /\ Len(ln) = n /\ \A i \in 1..n : ln[i] = i
    BY <1>1
  <1>3. PICK h : KeptSoFar(h, Nat, ln, S) /\ Kept(ln, S) = h[n]
    BY <1>2, KeptFold
  <1>4. /\ h[0] = <<>>
        /\ \A k \in 1..n : h[k] = IF k \in S THEN Append(h[k - 1], k) ELSE h[k - 1]
    BY <1>2, <1>3 DEF KeptSoFar
  <1> DEFINE Good == {k \in 0..n : Ascends(h[k], (1..k) \cap S)}
  <1>5. 0 \in Good
    <2>1. Ascends(<<>>, (1..0) \cap S)
      BY DEF Ascends
    <2> QED
      BY <1>4, <2>1
  <1>6. ASSUME NEW k \in 1..n, k - 1 \in Good
        PROVE  k \in Good
    <2>1. Ascends(h[k - 1], (1..(k - 1)) \cap S)
      BY <1>6
    <2>2. CASE k \in S
      <3>1. h[k] = Append(h[k - 1], k)
        BY <1>4, <2>2, Zenon
      <3>2. k \in Nat \ {0} /\ k \in 0..n
        OBVIOUS
      <3>3. Ascends(Append(h[k - 1], k), (1..k) \cap S)
        BY <2>1, <2>2, <3>2, AscendsToNext
      <3>4. Ascends(h[k], (1..k) \cap S)
        BY <3>1, <3>3, Zenon
      <3> QED
        BY <3>2, <3>4
    <2>3. CASE k \notin S
      <3>1. h[k] = h[k - 1] /\ (1..(k - 1)) \cap S = (1..k) \cap S
        BY <1>4, <2>3
      <3> QED
        BY <2>1, <3>1
    <2> QED
      BY <2>2, <2>3
  <1>7. \A k \in 0..n : Ascends(h[k], (1..k) \cap S)
    <2>1. 0..n \subseteq Good
      <3> HIDE DEF Good
      <3> QED
        BY <1>5, <1>6, Induction
    <2> QED
      BY <2>1
  <1>8. Ascends(h[n], (1..n) \cap S)
    BY <1>7
  <1>9. ASSUME n # 0, n \in S PROVE h[n] # <<>> /\ Last(h[n]) = n
    <2>0. n \in 1..n /\ n \in Nat \ {0} /\ n - 1 \in 0..n
      BY <1>9
    <2>1. h[n] = Append(h[n - 1], n)
      BY <1>4, <1>9, <2>0, Zenon
    <2>2. Ascends(h[n - 1], (1..(n - 1)) \cap S)
      BY <1>7, <2>0
    <2>3. Append(h[n - 1], n) # <<>> /\ Last(Append(h[n - 1], n)) = n
      BY <1>9, <2>0, <2>2, AscendsToNext
    <2> QED
      BY <2>1, <2>3, Zenon
  <1> QED
    BY <1>1, <1>3, <1>8, <1>9

\* The last ones of numbers that ascend.
LEMMA AscendingEnd ==
    ASSUME NEW S, NEW numbers, Ascends(numbers, S), NEW m \in Nat \ {0}, m < Len(numbers)
    PROVE  LET end == SubSeq(numbers, Len(numbers) - m + 1, Len(numbers)) IN
           Ascends(end, S) /\ end # <<>> /\ Last(end) = Last(numbers)
  <1>1. PICK n \in Nat : n = Len(numbers) /\ numbers \in Seq(Nat)
    BY LenProperties DEF Ascends
  <1>2. PICK end : end = SubSeq(numbers, n - m + 1, n)
    OBVIOUS
  <1>3. n - m + 1 \in 1..n /\ m < n
    BY <1>1
  <1>4. /\ end \in Seq(Nat) /\ Len(end) = m
        /\ \A i \in 1..m : end[i] = numbers[n - m + i]
    <2>1. PICK a \in 1..n : a = n - m + 1
      BY <1>3
    <2>2. /\ SubSeq(numbers, a, n) \in Seq(Nat)
          /\ Len(SubSeq(numbers, a, n)) = n - a + 1
          /\ \A i \in 1..(n - a + 1) : SubSeq(numbers, a, n)[i] = numbers[a + i - 1]
      BY <1>1, <2>1
    <2>3. n - a + 1 = m /\ \A i \in 1..m : a + i - 1 = n - m + i
      BY <1>1, <2>1
    <2> QED
      BY <1>2, <2>1, <2>2, <2>3
  <1>5. \A i \in 1..m : n - m + i \in 1..n
    BY <1>3
  <1>6. \A i \in 1..m : end[i] \in S
    BY <1>1, <1>4, <1>5 DEF Ascends
  <1>7. \A i, j \in 1..m : i < j => end[i] < end[j]
    <2> SUFFICES ASSUME NEW i \in 1..m, NEW j \in 1..m, i < j PROVE end[i] < end[j]
      OBVIOUS
    <2>1. n - m + i < n - m + j
      BY <1>3
    <2> QED
      BY <1>1, <1>4, <1>5, <2>1 DEF Ascends
  <1>8. end # <<>> /\ Last(end) = Last(numbers)
    <2>1. end[m] = numbers[n]
      BY <1>3, <1>4
    <2> QED
      BY <1>1, <1>4, <2>1 DEF Last
  <1> QED
    BY <1>1, <1>2, <1>4, <1>6, <1>7, <1>8 DEF Ascends

==================================================================================
