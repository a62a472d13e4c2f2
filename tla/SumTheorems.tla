----------------------------- MODULE SumTheorems -----------------------------
(***************************************************************************)
(* What SumFunctionOnSet sums: the recursion it is defined by has a         *)
(* solution on every finite set, and the order of the elements is of no     *)
(* consequence.  Induction over the size of a set is by its smallest        *)
(* counterexample.                                                         *)
(***************************************************************************)
EXTENDS Functions, Integers, FiniteSets, FiniteSetTheorems, WellFoundedInduction, TLAPS

LEMMA LeastNatural ==
    ASSUME NEW S \in SUBSET Nat, S # {}
    PROVE  \E x \in S : \A y \in S : x <= y
    <1>1. \E x \in S : \A y \in S : ~(<<y, x>> \in OpToRel(<, Nat))
        BY NatLessThanWellFounded, WFMin
    <1>2. PICK x \in S : \A y \in S : ~(<<y, x>> \in OpToRel(<, Nat))
        BY <1>1
    <1>3. \A y \in S : ~(y < x)
        BY <1>2, Zenon DEF OpToRel
    <1> QED BY <1>3

-----------------------------------------------------------------------------
\* The element a sum takes first, and one step of the recursion.
FirstOf(T) == CHOOSE x \in T : TRUE
SumStep(f, g, T) == IF T = {} THEN 0 ELSE f[FirstOf(T)] + g[T \ {FirstOf(T)}]
SumsOver(f, S) == CHOOSE g : g = [T \in SUBSET S |-> SumStep(f, g, T)]

LEMMA SumUnfolded ==
    ASSUME NEW f, NEW S
    PROVE  SumFunctionOnSet(f, S) = SumsOver(f, S)[S]
    BY Zenon DEF SumFunctionOnSet, FoldFunctionOnSet, MapThenFoldSet, SumsOver, SumStep, FirstOf

LEMMA FirstIn == ASSUME NEW T, T # {} PROVE FirstOf(T) \in T
    BY DEF FirstOf

UpToSize(S, k) == {T \in SUBSET S : Cardinality(T) <= k}
SolvesUpTo(g, f, S, k) ==
    g \in [UpToSize(S, k) -> Int] /\ \A T \in UpToSize(S, k) : g[T] = SumStep(f, g, T)

\* The recursion can be solved for the sets of n elements at most, for every n.
LEMMA SumSolved ==
    ASSUME NEW f, NEW S, IsFiniteSet(S), \A x \in S : f[x] \in Int, NEW n \in Nat
    PROVE  \E g : SolvesUpTo(g, f, S, n)
    <1> DEFINE Solved(k) == \E g : SolvesUpTo(g, f, S, k)
               Bad == {k \in Nat : ~Solved(k)}
    <1>1. \A T \in SUBSET S : IsFiniteSet(T) /\ Cardinality(T) \in Nat
        BY FS_Subset, FS_CardinalityType
    <1>2. \A T \in SUBSET S : T # {} =>
             /\ FirstOf(T) \in S /\ T \ {FirstOf(T)} \in SUBSET S
             /\ Cardinality(T \ {FirstOf(T)}) = Cardinality(T) - 1
        <2> SUFFICES ASSUME NEW T \in SUBSET S, T # {}
                     PROVE  /\ FirstOf(T) \in S /\ T \ {FirstOf(T)} \in SUBSET S
                            /\ Cardinality(T \ {FirstOf(T)}) = Cardinality(T) - 1
            OBVIOUS
        <2>1. FirstOf(T) \in T
            BY FirstIn
        <2> QED BY <1>1, <2>1, FS_RemoveElement
    <1>3. Solved(0)
        <2> DEFINE g == [T \in UpToSize(S, 0) |-> 0]
        <2>1. \A T \in UpToSize(S, 0) : T = {}
            BY <1>1, FS_EmptySet DEF UpToSize
        <2>2. g \in [UpToSize(S, 0) -> Int]
            OBVIOUS
        <2>3. \A T \in UpToSize(S, 0) : g[T] = SumStep(f, g, T)
            BY <2>1 DEF SumStep
        <2> QED BY <2>2, <2>3 DEF SolvesUpTo
    <1>4. ASSUME NEW k \in Nat, Solved(k)
          PROVE  Solved(k + 1)
        <2>1. PICK g : g \in [UpToSize(S, k) -> Int] /\ \A T \in UpToSize(S, k) : g[T] = SumStep(f, g, T)
            BY <1>4 DEF SolvesUpTo
        <2> DEFINE h == [T \in UpToSize(S, k + 1) |-> IF T \in UpToSize(S, k) THEN g[T] ELSE SumStep(f, g, T)]
        <2>2. \A T \in UpToSize(S, k + 1) :
                 /\ h[T] \in Int
                 /\ h[T] = SumStep(f, h, T)
            <3> SUFFICES ASSUME NEW T \in UpToSize(S, k + 1)
                         PROVE  h[T] \in Int /\ h[T] = SumStep(f, h, T)
                OBVIOUS
            <3>1. h[T] = SumStep(f, g, T)
                BY <2>1
            <3>2. CASE T = {}
                BY <3>1, <3>2 DEF SumStep
            <3>3. CASE T # {}
                <4> DEFINE x == FirstOf(T)
                <4>1. x \in S /\ T \ {x} \in SUBSET S /\ Cardinality(T \ {x}) = Cardinality(T) - 1
                    BY <1>2, <3>3 DEF UpToSize
                <4>2. T \ {x} \in UpToSize(S, k) /\ T \ {x} \in UpToSize(S, k + 1)
                    BY <1>1, <4>1 DEF UpToSize
                <4>3. h[T \ {x}] = g[T \ {x}] /\ g[T \ {x}] \in Int /\ f[x] \in Int
                    BY <2>1, <4>1, <4>2
                <4>4. h[T] = f[x] + g[T \ {x}]
                    BY <3>1, <3>3 DEF SumStep
                <4>5. SumStep(f, h, T) = f[x] + h[T \ {x}]
                    BY <3>3 DEF SumStep
                <4> HIDE DEF h, x
                <4> QED BY <4>3, <4>4, <4>5
            <3> QED BY <3>2, <3>3
        <2>3. h \in [UpToSize(S, k + 1) -> Int]
            BY <2>2
        <2> HIDE DEF h
        <2> QED BY <2>2, <2>3 DEF SolvesUpTo
    <1>5. CASE Bad = {}
        <2>1. Solved(n)
            BY <1>5
        <2> QED BY <2>1
    <1>6. CASE Bad # {}
        <2>1. PICK k \in Bad : \A l \in Bad : k <= l
            <3>1. Bad \in SUBSET Nat
                OBVIOUS
            <3> HIDE DEF Bad
            <3> QED BY <1>6, <3>1, LeastNatural
        <2>2. k \in Nat /\ ~Solved(k)
            OBVIOUS
        <2>3. k # 0
            BY <1>3, <2>2
        <2>4. k - 1 \in Nat /\ k - 1 \notin Bad
            <3>1. k - 1 \in Nat /\ ~(k <= k - 1)
                BY <2>2, <2>3
            <3> HIDE DEF Bad
            <3> QED BY <2>1, <3>1
        <2> HIDE DEF Solved
        <2>5. Solved(k - 1)
            BY <2>4
        <2>6. Solved((k - 1) + 1)
            BY <1>4, <2>4, <2>5
        <2>7. (k - 1) + 1 = k
            BY <2>2
        <2> QED BY <2>2, <2>6, <2>7
    <1> QED BY <1>5, <1>6

LEMMA SumRecursion ==
    ASSUME NEW f, NEW S, IsFiniteSet(S), \A x \in S : f[x] \in Int
    PROVE  \A T \in SUBSET S : SumsOver(f, S)[T] = SumStep(f, SumsOver(f, S), T)
    <1> DEFINE n == Cardinality(S)
    <1>1. n \in Nat /\ \A T \in SUBSET S : Cardinality(T) <= n
        BY FS_CardinalityType, FS_Subset
    <1>2. UpToSize(S, n) = SUBSET S
        BY <1>1 DEF UpToSize
    <1> HIDE DEF n
    <1>3. PICK g : SolvesUpTo(g, f, S, n)
        BY <1>1, SumSolved
    <1>4. g = [T \in SUBSET S |-> SumStep(f, g, T)]
        BY <1>2, <1>3 DEF SolvesUpTo
    <1>5. SumsOver(f, S) = [T \in SUBSET S |-> SumStep(f, SumsOver(f, S), T)]
        BY <1>4 DEF SumsOver
    <1> QED BY <1>5

-----------------------------------------------------------------------------
\* A minimal subset of a finite set with a property, its members, has none below.
LEMMA MinimalSubset ==
    ASSUME NEW S, IsFiniteSet(S), NEW B \in SUBSET SUBSET S, B # {}
    PROVE  \E T \in B : \A x \in T : T \ {x} \notin B
    <1> DEFINE Sizes == {Cardinality(T) : T \in B}
    <1>1. \A T \in B : IsFiniteSet(T) /\ Cardinality(T) \in Nat
        BY FS_Subset, FS_CardinalityType
    <1>2. Sizes \in SUBSET Nat /\ Sizes # {}
        BY <1>1
    <1>3. PICK n \in Sizes : \A k \in Sizes : n <= k
        <2> HIDE DEF Sizes
        <2> QED BY <1>2, LeastNatural
    <1>4. PICK T \in B : n = Cardinality(T)
        BY <1>3
    <1>5. ASSUME NEW x \in T, T \ {x} \in B
          PROVE  FALSE
        <2>1. Cardinality(T \ {x}) = n - 1 /\ n \in Nat
            BY <1>1, <1>4, FS_RemoveElement
        <2>2. n <= Cardinality(T \ {x})
            BY <1>3, <1>5
        <2> QED BY <2>1, <2>2
    <1> QED BY <1>4, <1>5

LEMMA SumsInt ==
    ASSUME NEW f, NEW S, IsFiniteSet(S), \A x \in S : f[x] \in Int
    PROVE  \A T \in SUBSET S : SumsOver(f, S)[T] \in Int
    <1> DEFINE g == SumsOver(f, S)
               B == {T \in SUBSET S : g[T] \notin Int}
    <1>1. \A T \in SUBSET S : g[T] = SumStep(f, g, T)
        BY SumRecursion
    <1> HIDE DEF g
    <1> SUFFICES \A T \in SUBSET S : g[T] \in Int
        BY DEF g
    <1>2. CASE B = {}
        BY <1>2
    <1>3. CASE B # {}
        <2>1. PICK T \in B : \A x \in T : T \ {x} \notin B
            <3>1. B \in SUBSET SUBSET S
                OBVIOUS
            <3> HIDE DEF B
            <3> QED BY <1>3, <3>1, MinimalSubset
        <2>2. T \in SUBSET S /\ g[T] \notin Int
            OBVIOUS
        <2>3. CASE T = {}
            <3>1. g[T] = 0
                BY <1>1, <2>2, <2>3 DEF SumStep
            <3> QED BY <2>2, <3>1
        <2>4. CASE T # {}
            <3>1. FirstOf(T) \in T
                BY <2>4, FirstIn
            <3>2. g[T] = f[FirstOf(T)] + g[T \ {FirstOf(T)}]
                BY <1>1, <2>2, <2>4 DEF SumStep
            <3>3. f[FirstOf(T)] \in Int /\ g[T \ {FirstOf(T)}] \in Int
                BY <2>1, <2>2, <3>1
            <3> QED BY <2>2, <3>2, <3>3
        <2> QED BY <2>3, <2>4
    <1> QED BY <1>2, <1>3

\* Whichever element is taken first, the sum is the same.
LEMMA SumsRemove ==
    ASSUME NEW f, NEW S, IsFiniteSet(S), \A x \in S : f[x] \in Int
    PROVE  \A T \in SUBSET S : \A x \in T : SumsOver(f, S)[T] = f[x] + SumsOver(f, S)[T \ {x}]
    <1> DEFINE g == SumsOver(f, S)
               Good(T) == \A x \in T : g[T] = f[x] + g[T \ {x}]
               B == {T \in SUBSET S : ~Good(T)}
    <1>1. \A T \in SUBSET S : g[T] = SumStep(f, g, T)
        BY SumRecursion
    <1>2. \A T \in SUBSET S : g[T] \in Int
        BY SumsInt
    <1> HIDE DEF g
    <1>3. CASE B = {}
        BY <1>3 DEF g
    <1>4. CASE B # {}
        <2>1. PICK T \in B : \A x \in T : T \ {x} \notin B
            <3>1. B \in SUBSET SUBSET S
                OBVIOUS
            <3> HIDE DEF B
            <3> QED BY <1>4, <3>1, MinimalSubset
        <2>2. T \in SUBSET S /\ ~Good(T)
            OBVIOUS
        <2>3. PICK x \in T : g[T] # f[x] + g[T \ {x}]
            BY <2>2
        <2> DEFINE c == FirstOf(T)
        <2>4. c \in T
            BY <2>3, FirstIn
        <2>5. g[T] = f[c] + g[T \ {c}]
            BY <1>1, <2>2, <2>4 DEF SumStep
        <2> HIDE DEF c
        <2>6. c # x
            BY <2>3, <2>5
        <2>7. Good(T \ {c}) /\ Good(T \ {x})
            BY <2>1, <2>2, <2>4
        <2>8. (T \ {c}) \ {x} = (T \ {x}) \ {c}
            OBVIOUS
        <2>9. g[T \ {c}] = f[x] + g[(T \ {x}) \ {c}]
            BY <2>4, <2>6, <2>7, <2>8
        <2>10. g[T \ {x}] = f[c] + g[(T \ {x}) \ {c}]
            BY <2>4, <2>6, <2>7
        <2>11. f[c] \in Int /\ f[x] \in Int /\ g[(T \ {x}) \ {c}] \in Int
            BY <1>2, <2>2, <2>4
        <2> HIDE DEF Good
        <2> QED BY <2>3, <2>5, <2>9, <2>10, <2>11
    <1> QED BY <1>3, <1>4

\* The sums of two functions that agree, over sets that may differ.
LEMMA SumsAgree ==
    ASSUME NEW f, NEW h, NEW S, IsFiniteSet(S),
           \A x \in S : f[x] \in Int, \A x \in S : h[x] \in Int,
           NEW R, R \subseteq S, \A x \in R : f[x] = h[x]
    PROVE  SumsOver(f, S)[R] = SumsOver(h, R)[R]
    <1>0. IsFiniteSet(R) /\ \A x \in R : h[x] \in Int
        BY FS_Subset
    <1>a. \A T \in SUBSET S : SumsOver(f, S)[T] = SumStep(f, SumsOver(f, S), T)
        BY SumRecursion
    <1>b. \A T \in SUBSET R : SumsOver(h, R)[T] = SumStep(h, SumsOver(h, R), T)
        BY <1>0, SumRecursion
    <1> DEFINE g == SumsOver(f, S)
               k == SumsOver(h, R)
               B == {T \in SUBSET R : g[T] # k[T]}
    <1>1. \A T \in SUBSET S : g[T] = SumStep(f, g, T)
        BY <1>a
    <1>2. \A T \in SUBSET R : k[T] = SumStep(h, k, T)
        BY <1>b
    <1> HIDE DEF g, k
    <1>3. CASE B = {}
        <2>1. R \notin B
            BY <1>3
        <2> QED BY <2>1 DEF g, k
    <1>4. CASE B # {}
        <2>1. PICK T \in B : \A x \in T : T \ {x} \notin B
            <3>1. B \in SUBSET SUBSET R
                OBVIOUS
            <3> HIDE DEF B
            <3> QED BY <1>0, <1>4, <3>1, MinimalSubset
        <2>2. T \in SUBSET R /\ T \in SUBSET S /\ g[T] # k[T]
            OBVIOUS
        <2>3. CASE T = {}
            BY <1>1, <1>2, <2>2, <2>3 DEF SumStep
        <2>4. CASE T # {}
            <3>1. FirstOf(T) \in T
                BY <2>4, FirstIn
            <3>2. g[T] = f[FirstOf(T)] + g[T \ {FirstOf(T)}]
                BY <1>1, <2>2, <2>4 DEF SumStep
            <3>3. k[T] = h[FirstOf(T)] + k[T \ {FirstOf(T)}]
                BY <1>2, <2>2, <2>4 DEF SumStep
            <3>4. f[FirstOf(T)] = h[FirstOf(T)] /\ g[T \ {FirstOf(T)}] = k[T \ {FirstOf(T)}]
                BY <2>1, <2>2, <3>1
            <3> QED BY <2>2, <3>2, <3>3, <3>4
        <2> QED BY <2>3, <2>4
    <1> QED BY <1>3, <1>4

-----------------------------------------------------------------------------
(***************************************************************************)
(* What the other proofs use.                                              *)
(***************************************************************************)
LEMMA SumEmpty == ASSUME NEW f PROVE SumFunctionOnSet(f, {}) = 0
    <1>1. {} \in SUBSET {} /\ IsFiniteSet({}) /\ SUBSET {} = {{}}
        BY FS_EmptySet
    <1> DEFINE g == [T \in SUBSET {} |-> 0]
    <1>2. g = [T \in SUBSET {} |-> SumStep(f, g, T)]
        BY <1>1 DEF SumStep
    <1>3. SumsOver(f, {}) = [T \in SUBSET {} |-> SumStep(f, SumsOver(f, {}), T)]
        BY <1>2 DEF SumsOver
    <1>4. SumsOver(f, {})[{}] = 0
        BY <1>3 DEF SumStep
    <1> QED BY <1>4, SumUnfolded

LEMMA SumInt ==
    ASSUME NEW f, NEW S, IsFiniteSet(S), \A x \in S : f[x] \in Int
    PROVE  SumFunctionOnSet(f, S) \in Int
    BY SumsInt, SumUnfolded

LEMMA SumRemove ==
    ASSUME NEW f, NEW S, IsFiniteSet(S), \A x \in S : f[x] \in Int, NEW x \in S
    PROVE  SumFunctionOnSet(f, S) = f[x] + SumFunctionOnSet(f, S \ {x})
    <1>1. SumsOver(f, S)[S] = f[x] + SumsOver(f, S)[S \ {x}]
        BY SumsRemove
    <1>2. SumsOver(f, S)[S \ {x}] = SumsOver(f, S \ {x})[S \ {x}]
        BY SumsAgree
    <1> QED BY <1>1, <1>2, SumUnfolded

LEMMA SumAdd ==
    ASSUME NEW f, NEW S, IsFiniteSet(S), \A x \in S : f[x] \in Int, NEW x, x \notin S, f[x] \in Int
    PROVE  SumFunctionOnSet(f, S \cup {x}) = f[x] + SumFunctionOnSet(f, S)
    <1>1. IsFiniteSet(S \cup {x}) /\ (S \cup {x}) \ {x} = S
        BY FS_AddElement
    <1> QED BY <1>1, SumRemove

LEMMA SumAgree ==
    ASSUME NEW f, NEW h, NEW S, IsFiniteSet(S),
           \A x \in S : f[x] \in Int, \A x \in S : h[x] \in Int,
           \A x \in S : f[x] = h[x]
    PROVE  SumFunctionOnSet(f, S) = SumFunctionOnSet(h, S)
    <1>1. SumsOver(f, S)[S] = SumsOver(h, S)[S]
        BY SumsAgree
    <1> QED BY <1>1, SumUnfolded

\* A function that changes at one element.
LEMMA SumChange ==
    ASSUME NEW f, NEW h, NEW S, IsFiniteSet(S),
           \A x \in S : f[x] \in Int, \A x \in S : h[x] \in Int,
           NEW x \in S, \A y \in S \ {x} : f[y] = h[y]
    PROVE  SumFunctionOnSet(h, S) = SumFunctionOnSet(f, S) + (h[x] - f[x])
    <1> DEFINE R == S \ {x}
    <1>1. IsFiniteSet(R)
        BY FS_Subset
    <1>2. SumFunctionOnSet(f, S) = f[x] + SumFunctionOnSet(f, R)
        BY SumRemove
    <1>3. SumFunctionOnSet(h, S) = h[x] + SumFunctionOnSet(h, R)
        BY SumRemove
    <1>4. SumFunctionOnSet(f, R) = SumFunctionOnSet(h, R) /\ SumFunctionOnSet(f, R) \in Int
        BY <1>1, SumAgree, SumInt
    <1>5. f[x] \in Int /\ h[x] \in Int
        OBVIOUS
    <1> HIDE DEF R
    <1> QED BY <1>2, <1>3, <1>4, <1>5

LEMMA SumZero ==
    ASSUME NEW f, NEW S, IsFiniteSet(S), \A x \in S : f[x] \in Int, \A x \in S : f[x] = 0
    PROVE  SumFunctionOnSet(f, S) = 0
    <1> DEFINE g == SumsOver(f, S)
               B == {T \in SUBSET S : g[T] # 0}
    <1>1. \A T \in SUBSET S : g[T] = SumStep(f, g, T)
        BY SumRecursion
    <1> HIDE DEF g
    <1>2. CASE B = {}
        <2>1. g[S] = 0
            BY <1>2
        <2> QED BY <2>1, SumUnfolded DEF g
    <1>3. CASE B # {}
        <2>1. PICK T \in B : \A x \in T : T \ {x} \notin B
            <3>1. B \in SUBSET SUBSET S
                OBVIOUS
            <3> HIDE DEF B
            <3> QED BY <1>3, <3>1, MinimalSubset
        <2>2. T \in SUBSET S /\ g[T] # 0
            OBVIOUS
        <2>3. T # {}
            BY <1>1, <2>2 DEF SumStep
        <2>4. FirstOf(T) \in T
            BY <2>3, FirstIn
        <2>5. g[T] = f[FirstOf(T)] + g[T \ {FirstOf(T)}]
            BY <1>1, <2>2, <2>3 DEF SumStep
        <2>6. f[FirstOf(T)] = 0 /\ g[T \ {FirstOf(T)}] = 0
            BY <2>1, <2>2, <2>4
        <2> QED BY <2>2, <2>5, <2>6
    <1> QED BY <1>2, <1>3

LEMMA SumSubset ==
    ASSUME NEW f, NEW S, IsFiniteSet(S), \A x \in S : f[x] \in Nat, NEW R, R \subseteq S
    PROVE  SumFunctionOnSet(f, R) <= SumFunctionOnSet(f, S)
    <1> DEFINE B == {T \in SUBSET S : R \subseteq T /\ ~(SumFunctionOnSet(f, R) <= SumFunctionOnSet(f, T))}
    <1>1. \A T \in SUBSET S : IsFiniteSet(T) /\ \A x \in T : f[x] \in Int
        BY FS_Subset
    <1>2. \A T \in SUBSET S : SumFunctionOnSet(f, T) \in Int
        BY <1>1, SumInt
    <1>3. CASE B = {}
        <2>1. S \notin B
            BY <1>3
        <2> QED BY <2>1
    <1>4. CASE B # {}
        <2>1. PICK T \in B : \A x \in T : T \ {x} \notin B
            <3>1. B \in SUBSET SUBSET S
                OBVIOUS
            <3> HIDE DEF B
            <3> QED BY <1>4, <3>1, MinimalSubset
        <2>2. T \in SUBSET S /\ R \subseteq T /\ ~(SumFunctionOnSet(f, R) <= SumFunctionOnSet(f, T))
            OBVIOUS
        <2>3. PICK x \in T : x \notin R
            <3>1. R # T
                BY <1>2, <2>2
            <3> QED BY <2>2, <3>1
        <2>4. SumFunctionOnSet(f, R) <= SumFunctionOnSet(f, T \ {x})
            BY <2>1, <2>2, <2>3
        <2>5. SumFunctionOnSet(f, T) = f[x] + SumFunctionOnSet(f, T \ {x})
            <3>1. IsFiniteSet(T) /\ \A y \in T : f[y] \in Int
                BY <1>1, <2>2
            <3> QED BY <3>1, SumRemove
        <2>6. f[x] \in Nat /\ T \ {x} \in SUBSET S
            BY <2>2
        <2>7. /\ SumFunctionOnSet(f, R) \in Int /\ SumFunctionOnSet(f, T) \in Int
              /\ SumFunctionOnSet(f, T \ {x}) \in Int
            BY <1>2, <2>2, <2>6
        <2> QED BY <2>2, <2>4, <2>5, <2>6, <2>7
    <1> QED BY <1>3, <1>4
=============================================================================
