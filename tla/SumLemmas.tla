----------------------------- MODULE SumLemmas ------------------------------
(***************************************************************************)
(* Facts about SumFunctionOnSet of the community module Functions, for     *)
(* natural numbers over finite sets: what the counts of the rate limiter   *)
(* and the figures of a report add up to.  The sum is a fold, which takes  *)
(* its elements in an order of its own; here it is shown that the order    *)
(* does not matter, and how a sum changes when its function or set does.   *)
(***************************************************************************)
EXTENDS Integers, Functions, FiniteSets, FiniteSetTheorems, TLAPS

-----------------------------------------------------------------------------

(* Among the subsets of a finite set there is a smallest one of any kind.  *)
LEMMA SmallestSet ==
    ASSUME NEW S, IsFiniteSet(S), NEW Kind \in SUBSET SUBSET S, Kind # {}
    PROVE  \E T \in Kind : \A U \in Kind : U \subseteq T => U = T
<1>1. IsWellFoundedOn(StrictSubsetOrdering(S), SUBSET S)
    BY FS_StrictSubsetOrderingWellFounded, FS_FiniteSubsetsOfFinite
<1>2. PICK T \in Kind : \A U \in Kind : ~(<<U, T>> \in StrictSubsetOrdering(S))
    BY <1>1, WFMin
<1>3. ASSUME NEW U \in Kind, U \subseteq T PROVE U = T
    BY <1>2, <1>3 DEF StrictSubsetOrdering
<1> QED BY <1>3

(* What holds of the empty set, and of a set with one element more, holds  *)
(* of every finite set.                                                    *)
LEMMA SetInduction ==
    ASSUME NEW S, IsFiniteSet(S), NEW G, {} \in G,
           \A T \in SUBSET S, x \in S : T \in G /\ x \notin T => T \cup {x} \in G
    PROVE  S \in G
<1> DEFINE Bad == (SUBSET S) \ G
<1> SUFFICES ASSUME S \notin G PROVE FALSE
    OBVIOUS
<1>1. PICK T \in Bad : \A U \in Bad : U \subseteq T => U = T
    <2>1. Bad \in SUBSET SUBSET S /\ Bad # {}
        OBVIOUS
    <2> HIDE DEF Bad
    <2> QED BY <2>1, SmallestSet
<1>2. PICK x \in T : TRUE
    OBVIOUS
<1>3. T \ {x} \in G
    BY <1>1, <1>2
<1>4. (T \ {x}) \cup {x} = T
    BY <1>2
<1> QED BY <1>1, <1>2, <1>3, <1>4

(* The recursion of the fold, as a function. *)
Body(f, g, S) ==
    [s \in SUBSET S |-> IF s = {} THEN 0
                        ELSE f[CHOOSE x \in s : TRUE] + g[s \ {CHOOSE x \in s : TRUE}]]
Iter(f, S) == CHOOSE g : g = Body(f, g, S)

(* The sum is what that recursion gives for the whole set.                 *)
LEMMA SumIsIter == ASSUME NEW f, NEW S PROVE SumFunctionOnSet(f, S) = Iter(f, S)[S]
BY DEF SumFunctionOnSet, FoldFunctionOnSet, MapThenFoldSet, Iter, Body

(* m weighs every subset of S by what f gives its elements.                *)
Weighs(m, f, S) ==
    /\ m \in [SUBSET S -> Nat] /\ m[{}] = 0
    /\ \A U \in SUBSET S, x \in S : x \notin U => m[U \cup {x}] = f[x] + m[U]

(* A finite set can be weighed, whatever natural numbers f gives.          *)
LEMMA WeightExists ==
    ASSUME NEW f, NEW S, IsFiniteSet(S), \A x \in S : f[x] \in Nat
    PROVE  \E m : Weighs(m, f, S)
<1> DEFINE G == {T \in SUBSET S : \E m : Weighs(m, f, T)}
<1>1. {} \in G
    <2>1. Weighs([U \in {{}} |-> 0], f, {})
        BY DEF Weighs
    <2> QED BY <2>1
<1>2. ASSUME NEW T \in SUBSET S, NEW x \in S, T \in G, x \notin T
      PROVE  T \cup {x} \in G
    <2>1. PICK m : Weighs(m, f, T)
        BY <1>2
    <2> DEFINE n == [U \in SUBSET (T \cup {x}) |->
                       IF x \in U THEN f[x] + m[U \ {x}] ELSE m[U]]
    <2>2. n \in [SUBSET (T \cup {x}) -> Nat]
        <3>1. \A U \in SUBSET (T \cup {x}) : x \in U => U \ {x} \in SUBSET T
            OBVIOUS
        <3>2. \A U \in SUBSET (T \cup {x}) : x \notin U => U \in SUBSET T
            OBVIOUS
        <3>3. f[x] \in Nat /\ \A U \in SUBSET T : m[U] \in Nat
            BY <2>1 DEF Weighs
        <3> QED BY <3>1, <3>2, <3>3
    <2>3. n[{}] = 0
        BY <2>1 DEF Weighs
    <2>4. ASSUME NEW U \in SUBSET (T \cup {x}), NEW y \in T \cup {x}, y \notin U
          PROVE  n[U \cup {y}] = f[y] + n[U]
        <3>0. U \cup {y} \in SUBSET (T \cup {x})
            OBVIOUS
        <3>1. CASE y = x
            <4>1. (U \cup {y}) \ {x} = U /\ U \in SUBSET T
                BY <3>1, <2>4
            <4>2. n[U \cup {y}] = f[x] + m[U] /\ n[U] = m[U]
                BY <3>0, <3>1, <4>1, <2>4
            <4> QED BY <3>1, <4>2
        <3>2. CASE y # x /\ x \notin U
            <4>1. U \in SUBSET T /\ y \in T /\ x \notin U \cup {y}
                BY <3>2
            <4>2. m[U \cup {y}] = f[y] + m[U]
                BY <2>1, <2>4, <4>1 DEF Weighs
            <4>3. n[U \cup {y}] = m[U \cup {y}] /\ n[U] = m[U]
                BY <3>0, <3>2, <4>1
            <4> QED BY <4>2, <4>3
        <3>3. CASE y # x /\ x \in U
            <4>1. /\ U \ {x} \in SUBSET T /\ y \in T /\ x \in U \cup {y}
                  /\ (U \cup {y}) \ {x} = (U \ {x}) \cup {y}
                BY <3>3
            <4>2. m[(U \ {x}) \cup {y}] = f[y] + m[U \ {x}]
                BY <2>1, <2>4, <4>1 DEF Weighs
            <4>3. n[U \cup {y}] = f[x] + m[(U \ {x}) \cup {y}] /\ n[U] = f[x] + m[U \ {x}]
                BY <3>0, <3>3, <4>1
            <4>4. f[x] \in Nat /\ f[y] \in Nat /\ m[U \ {x}] \in Nat
                BY <2>1, <4>1 DEF Weighs
            <4> HIDE DEF n
            <4> QED BY <4>2, <4>3, <4>4
        <3> QED BY <3>1, <3>2, <3>3
    <2> HIDE DEF n
    <2>5. Weighs(n, f, T \cup {x})
        BY <2>2, <2>3, <2>4 DEF Weighs
    <2> QED BY <2>5
<1> HIDE DEF G
<1>3. S \in G
    BY <1>1, <1>2, SetInduction
<1> QED BY <1>3 DEF G

(* The recursion of the fold has one solution, and it is the weight.       *)
LEMMA SumIsWeight ==
    ASSUME NEW f, NEW S, IsFiniteSet(S), NEW m, Weighs(m, f, S)
    PROVE  SumFunctionOnSet(f, S) = m[S]
<1>1. ASSUME NEW U \in SUBSET S, NEW x \in U
      PROVE  m[U] = f[x] + m[U \ {x}]
    <2>1. (U \ {x}) \cup {x} = U /\ U \ {x} \in SUBSET S /\ x \in S
        OBVIOUS
    <2> QED BY <2>1 DEF Weighs
<1>2. m = Body(f, m, S)
    <2>1. m = [U \in SUBSET S |-> m[U]]
        BY DEF Weighs
    <2>2. ASSUME NEW U \in SUBSET S
          PROVE m[U] = IF U = {} THEN 0
                       ELSE f[CHOOSE x \in U : TRUE] + m[U \ {CHOOSE x \in U : TRUE}]
        <3>1. CASE U = {}
            BY <3>1 DEF Weighs
        <3>2. CASE U # {}
            <4>1. (CHOOSE x \in U : TRUE) \in U
                BY <3>2
            <4> QED BY <3>2, <4>1, <1>1
        <3> QED BY <3>1, <3>2
    <2> QED BY <2>1, <2>2 DEF Body
<1> DEFINE g == Iter(f, S)
<1>3. g = Body(f, g, S)
    BY <1>2 DEF Iter
<1>4. g[{}] = 0 /\ \A U \in SUBSET S : U # {} =>
         g[U] = f[CHOOSE x \in U : TRUE] + g[U \ {CHOOSE x \in U : TRUE}]
    <2> HIDE DEF g
    <2> QED BY <1>3 DEF Body
<1> DEFINE Wrong == {U \in SUBSET S : g[U] # m[U]}
<1> HIDE DEF g
<1>5. Wrong = {}
    <2> SUFFICES ASSUME Wrong # {} PROVE FALSE
        OBVIOUS
    <2>1. PICK U \in Wrong : \A V \in Wrong : V \subseteq U => V = U
        <3>1. Wrong \in SUBSET SUBSET S
            OBVIOUS
        <3> HIDE DEF Wrong
        <3> QED BY <3>1, SmallestSet
    <2>2. U \in SUBSET S /\ g[U] # m[U] /\ U # {}
        BY <2>1, <1>4 DEF Weighs
    <2> DEFINE x == CHOOSE x \in U : TRUE
    <2>3. x \in U
        BY <2>2
    <2>4. g[U] = f[x] + g[U \ {x}]
        BY <1>4, <2>2
    <2> HIDE DEF x
    <2>5. g[U \ {x}] = m[U \ {x}]
        BY <2>1, <2>2, <2>3
    <2>6. m[U] = f[x] + m[U \ {x}]
        BY <1>1, <2>2, <2>3
    <2> QED BY <2>2, <2>4, <2>5, <2>6
<1>6. g[S] = m[S]
    BY <1>5
<1> QED BY <1>6, SumIsIter DEF g

(* A sum of natural numbers, taken apart.                                  *)
LEMMA SumOfNothing == ASSUME NEW f PROVE SumFunctionOnSet(f, {}) = 0
<1>1. PICK m : Weighs(m, f, {})
    BY WeightExists, FS_EmptySet
<1>2. SumFunctionOnSet(f, {}) = m[{}]
    BY <1>1, SumIsWeight, FS_EmptySet
<1> QED BY <1>1, <1>2 DEF Weighs

(* Any element can be taken out of a sum first: the order does not matter. *)
LEMMA SumTakenApart ==
    ASSUME NEW f, NEW S, IsFiniteSet(S), \A x \in S : f[x] \in Nat
    PROVE  /\ SumFunctionOnSet(f, S) \in Nat
           /\ \A x \in S : SumFunctionOnSet(f, S) = f[x] + SumFunctionOnSet(f, S \ {x})
<1>1. PICK m : Weighs(m, f, S)
    BY WeightExists
<1>2. SumFunctionOnSet(f, S) = m[S]
    BY <1>1, SumIsWeight
<1>3. ASSUME NEW x \in S
      PROVE  m[S] = f[x] + m[S \ {x}] /\ m[S \ {x}] = SumFunctionOnSet(f, S \ {x})
    <2> DEFINE T == S \ {x}
               n == [U \in SUBSET T |-> m[U]]
    <2>1. T \cup {x} = S /\ T \in SUBSET S /\ x \notin T
        OBVIOUS
    <2>2. m[S] = f[x] + m[T]
        BY <1>1, <2>1 DEF Weighs
    <2>3. Weighs(n, f, T)
        <3>1. \A U \in SUBSET T : n[U] = m[U] /\ m[U] \in Nat
            BY <1>1 DEF Weighs
        <3>2. n \in [SUBSET T -> Nat] /\ n[{}] = 0
            BY <3>1, <1>1 DEF Weighs
        <3>3. ASSUME NEW U \in SUBSET T, NEW y \in T, y \notin U
              PROVE  n[U \cup {y}] = f[y] + n[U]
            <4>1. U \cup {y} \in SUBSET T /\ y \in S /\ U \in SUBSET S
                OBVIOUS
            <4>2. m[U \cup {y}] = f[y] + m[U]
                BY <1>1, <3>3, <4>1 DEF Weighs
            <4> QED BY <4>1, <4>2
        <3> HIDE DEF n, T
        <3> QED BY <3>2, <3>3 DEF Weighs
    <2>4. IsFiniteSet(T)
        BY FS_Subset
    <2>5. SumFunctionOnSet(f, T) = n[T]
        <3> HIDE DEF n, T
        <3> QED BY <2>3, <2>4, SumIsWeight
    <2> QED BY <2>2, <2>5
<1> QED BY <1>1, <1>2, <1>3 DEF Weighs

(* The sum over a set with one element more.                               *)
LEMMA SumWithOneMore ==
    ASSUME NEW f, NEW T, IsFiniteSet(T), NEW x, x \notin T,
           f[x] \in Nat, \A y \in T : f[y] \in Nat
    PROVE  SumFunctionOnSet(f, T \cup {x}) = f[x] + SumFunctionOnSet(f, T)
<1>1. IsFiniteSet(T \cup {x}) /\ (T \cup {x}) \ {x} = T
    BY FS_AddElement
<1> QED BY <1>1, SumTakenApart

(* A function that is no smaller anywhere has no smaller a sum.            *)
LEMMA SumIsMonotone ==
    ASSUME NEW S, IsFiniteSet(S), NEW f, NEW g,
           \A x \in S : f[x] \in Nat /\ g[x] \in Nat /\ f[x] <= g[x]
    PROVE  SumFunctionOnSet(f, S) <= SumFunctionOnSet(g, S)
<1> DEFINE G == {T \in SUBSET S : SumFunctionOnSet(f, T) <= SumFunctionOnSet(g, T)}
<1>1. {} \in G
    BY SumOfNothing
<1>2. ASSUME NEW T \in SUBSET S, NEW x \in S, T \in G, x \notin T
      PROVE  T \cup {x} \in G
    <2>1. IsFiniteSet(T)
        BY FS_Subset
    <2>2. SumFunctionOnSet(f, T) \in Nat /\ SumFunctionOnSet(g, T) \in Nat
        BY <2>1, SumTakenApart
    <2>3. /\ SumFunctionOnSet(f, T \cup {x}) = f[x] + SumFunctionOnSet(f, T)
          /\ SumFunctionOnSet(g, T \cup {x}) = g[x] + SumFunctionOnSet(g, T)
        BY <1>2, <2>1, SumWithOneMore
    <2> QED BY <1>2, <2>2, <2>3
<1>3. S \in G
    <2> HIDE DEF G
    <2> QED BY <1>1, <1>2, SetInduction
<1> QED BY <1>3

(* Functions that agree on a set have the same sum over it.                *)
LEMMA SumOfEquals ==
    ASSUME NEW S, IsFiniteSet(S), NEW f, NEW g, \A x \in S : f[x] \in Nat /\ f[x] = g[x]
    PROVE  SumFunctionOnSet(f, S) = SumFunctionOnSet(g, S)
<1>1. SumFunctionOnSet(f, S) <= SumFunctionOnSet(g, S)
    BY SumIsMonotone
<1>2. SumFunctionOnSet(g, S) <= SumFunctionOnSet(f, S)
    BY SumIsMonotone
<1>3. SumFunctionOnSet(f, S) \in Nat /\ SumFunctionOnSet(g, S) \in Nat
    BY SumTakenApart
<1> QED BY <1>1, <1>2, <1>3

(* Where a function is nowhere positive, its sum is zero.                  *)
LEMMA SumOfZeros ==
    ASSUME NEW S, IsFiniteSet(S), NEW f, \A x \in S : f[x] = 0
    PROVE  SumFunctionOnSet(f, S) = 0
<1> DEFINE G == {T \in SUBSET S : SumFunctionOnSet(f, T) = 0}
<1>1. {} \in G
    BY SumOfNothing
<1>2. ASSUME NEW T \in SUBSET S, NEW x \in S, T \in G, x \notin T
      PROVE  T \cup {x} \in G
    <2>1. IsFiniteSet(T) /\ f[x] \in Nat /\ \A y \in T : f[y] \in Nat
        BY FS_Subset
    <2>2. SumFunctionOnSet(f, T \cup {x}) = f[x] + SumFunctionOnSet(f, T)
        BY <1>2, <2>1, SumWithOneMore
    <2> QED BY <1>2, <2>2
<1>3. S \in G
    <2> HIDE DEF G
    <2> QED BY <1>1, <1>2, SetInduction
<1> QED BY <1>3

(* Part of a set has no more than its sum.                                 *)
LEMMA SumOfPart ==
    ASSUME NEW S, IsFiniteSet(S), NEW P \in SUBSET S, NEW f, \A x \in S : f[x] \in Nat
    PROVE  SumFunctionOnSet(f, P) <= SumFunctionOnSet(f, S)
<1> DEFINE G == {T \in SUBSET S : SumFunctionOnSet(f, P \cap T) <= SumFunctionOnSet(f, T)}
<1>1. {} \in G
    <2>1. P \cap {} = {}
        OBVIOUS
    <2> QED BY <2>1, SumOfNothing
<1>2. ASSUME NEW T \in SUBSET S, NEW x \in S, T \in G, x \notin T
      PROVE  T \cup {x} \in G
    <2>0. SumFunctionOnSet(f, P \cap T) <= SumFunctionOnSet(f, T)
        BY <1>2
    <2>1. IsFiniteSet(T) /\ IsFiniteSet(P \cap T)
        BY FS_Subset
    <2>2. SumFunctionOnSet(f, T) \in Nat /\ SumFunctionOnSet(f, P \cap T) \in Nat /\ f[x] \in Nat
        BY <2>1, SumTakenApart
    <2>3. SumFunctionOnSet(f, T \cup {x}) = f[x] + SumFunctionOnSet(f, T)
        BY <1>2, <2>1, SumWithOneMore
    <2>4. CASE x \in P
        <3>1. P \cap (T \cup {x}) = (P \cap T) \cup {x}
            BY <2>4
        <3>2. SumFunctionOnSet(f, (P \cap T) \cup {x}) = f[x] + SumFunctionOnSet(f, P \cap T)
            BY <1>2, <2>1, SumWithOneMore
        <3>3. SumFunctionOnSet(f, P \cap (T \cup {x})) <= SumFunctionOnSet(f, T \cup {x})
            BY <2>0, <2>2, <2>3, <3>1, <3>2
        <3> QED BY <3>3
    <2>5. CASE x \notin P
        <3>1. P \cap (T \cup {x}) = P \cap T
            BY <2>5
        <3>2. SumFunctionOnSet(f, P \cap (T \cup {x})) <= SumFunctionOnSet(f, T \cup {x})
            <4>1. SumFunctionOnSet(f, P \cap (T \cup {x})) = SumFunctionOnSet(f, P \cap T)
                BY ONLY <3>1
            <4> QED BY <2>0, <2>2, <2>3, <4>1
        <3> QED BY <3>2
    <2> QED BY <2>4, <2>5
<1>3. S \in G
    <2> HIDE DEF G
    <2> QED BY <1>1, <1>2, SetInduction
<1>4. P \cap S = P
    OBVIOUS
<1> QED BY <1>3, <1>4

(* One summand changes.                                                    *)
LEMMA SumWithChange ==
    ASSUME NEW S, IsFiniteSet(S), NEW f, NEW g, NEW x \in S,
           \A y \in S : f[y] \in Nat /\ g[y] \in Nat,
           \A y \in S : y # x => g[y] = f[y]
    PROVE  \E rest \in Nat : SumFunctionOnSet(f, S) = f[x] + rest /\ SumFunctionOnSet(g, S) = g[x] + rest
<1>1. IsFiniteSet(S \ {x})
    BY FS_Subset
<1>2. \A y \in S : f[y] \in Nat /\ g[y] \in Nat
    OBVIOUS
<1>3. /\ SumFunctionOnSet(g, S) = g[x] + SumFunctionOnSet(g, S \ {x})
      /\ SumFunctionOnSet(f, S) = f[x] + SumFunctionOnSet(f, S \ {x})
    BY <1>2, SumTakenApart
<1>4. SumFunctionOnSet(g, S \ {x}) = SumFunctionOnSet(f, S \ {x})
    BY <1>1, SumOfEquals
<1>5. SumFunctionOnSet(f, S \ {x}) \in Nat
    BY <1>1, SumTakenApart
<1> QED BY <1>3, <1>4, <1>5

(* Every summand moves on by one place.                                    *)
LEMMA SumMovedOn ==
    ASSUME NEW S \in SUBSET Int, IsFiniteSet(S), NEW f, NEW g,
           \A a \in S : f[a] \in Nat /\ g[a + 1] = f[a]
    PROVE  SumFunctionOnSet(g, {a + 1 : a \in S}) = SumFunctionOnSet(f, S)
<1> DEFINE Moved(T) == {a + 1 : a \in T}
           G == {T \in SUBSET S : /\ IsFiniteSet(Moved(T))
                                  /\ SumFunctionOnSet(g, Moved(T)) = SumFunctionOnSet(f, T)}
<1>1. {} \in G
    <2>1. Moved({}) = {}
        OBVIOUS
    <2> HIDE DEF Moved
    <2> QED BY <2>1, SumOfNothing, FS_EmptySet
<1>2. ASSUME NEW T \in SUBSET S, NEW x \in S, T \in G, x \notin T
      PROVE  T \cup {x} \in G
    <2>1. IsFiniteSet(T) /\ IsFiniteSet(Moved(T))
        BY <1>2, FS_Subset
    <2>2. Moved(T \cup {x}) = Moved(T) \cup {x + 1} /\ x + 1 \notin Moved(T)
        BY <1>2
    <2>3. \A b \in Moved(T) : g[b] \in Nat
        OBVIOUS
    <2> HIDE DEF Moved
    <2>4. SumFunctionOnSet(f, T \cup {x}) = f[x] + SumFunctionOnSet(f, T)
        BY <1>2, <2>1, SumWithOneMore
    <2>5. SumFunctionOnSet(g, Moved(T) \cup {x + 1}) = g[x + 1] + SumFunctionOnSet(g, Moved(T))
        BY <2>1, <2>2, <2>3, SumWithOneMore
    <2>6. IsFiniteSet(Moved(T) \cup {x + 1})
        BY <2>1, FS_AddElement
    <2> QED BY <1>2, <2>2, <2>4, <2>5, <2>6
<1>3. S \in G
    <2> HIDE DEF G
    <2> QED BY <1>1, <1>2, SetInduction
<1> QED BY <1>3

(* The ages up to k.                                                       *)
LEMMA AgesAreFinite == ASSUME NEW k \in Int PROVE IsFiniteSet(0..k) /\ 0..k \in SUBSET Int
<1>1. IsFiniteSet(0..k)
    BY FS_Interval
<1> QED BY <1>1

(* A set is the sum of its classes.                                        *)
ClassOf(d, class, A) == {v \in A : class[v] = d}

LEMMA SumOfClasses ==
    ASSUME NEW A, IsFiniteSet(A), NEW D, IsFiniteSet(D), NEW class, NEW f,
           \A v \in A : class[v] \in D,
           \A d \in D : f[d] = Cardinality(ClassOf(d, class, A))
    PROVE  SumFunctionOnSet(f, D) = Cardinality(A)
<1> DEFINE In(T) == {v \in A : class[v] \in T}
           G == {T \in SUBSET D : SumFunctionOnSet(f, T) = Cardinality(In(T))}
<1>1. \A d \in D : f[d] \in Nat
    BY FS_Subset, FS_CardinalityType DEF ClassOf
<1>2. {} \in G
    <2>1. In({}) = {}
        OBVIOUS
    <2> HIDE DEF In
    <2> QED BY <2>1, SumOfNothing, FS_EmptySet
<1>3. ASSUME NEW T \in SUBSET D, NEW x \in D, T \in G, x \notin T
      PROVE  T \cup {x} \in G
    <2> DEFINE Here == {v \in A : class[v] = x}
    <2>1. IsFiniteSet(T) /\ IsFiniteSet(In(T)) /\ IsFiniteSet(Here)
        BY FS_Subset
    <2>2. In(T \cup {x}) = In(T) \cup Here /\ In(T) \cap Here = {}
        BY <1>3
    <2>3. f[x] = Cardinality(Here)
        BY DEF ClassOf
    <2>4. SumFunctionOnSet(f, T \cup {x}) = f[x] + SumFunctionOnSet(f, T)
        BY <1>1, <1>3, <2>1, SumWithOneMore
    <2>5. SumFunctionOnSet(f, T) = Cardinality(In(T))
        BY <1>3
    <2> HIDE DEF In, Here
    <2>6. Cardinality(In(T) \cup Here) = Cardinality(In(T)) + Cardinality(Here)
        <3>1. Cardinality(In(T) \cap Here) = 0
            BY <2>2, FS_EmptySet
        <3>2. Cardinality(In(T)) \in Nat /\ Cardinality(Here) \in Nat
            BY <2>1, FS_CardinalityType
        <3>3. Cardinality(In(T) \cup Here)
                = Cardinality(In(T)) + Cardinality(Here) - Cardinality(In(T) \cap Here)
            BY <2>1, FS_Union
        <3> QED BY <3>1, <3>2, <3>3
    <2>7. Cardinality(In(T)) \in Nat /\ Cardinality(Here) \in Nat
        BY <2>1, FS_CardinalityType
    <2>8. SumFunctionOnSet(f, T \cup {x}) = Cardinality(In(T \cup {x}))
        <3>1. Cardinality(In(T \cup {x})) = Cardinality(In(T) \cup Here)
            BY <2>2
        <3> QED BY <2>3, <2>4, <2>5, <2>6, <2>7, <3>1
    <2> QED BY <2>8
<1>4. D \in G
    <2> HIDE DEF G
    <2> QED BY <1>2, <1>3, SetInduction
<1>5. In(D) = A
    OBVIOUS
<1> QED BY <1>4, <1>5

=============================================================================
