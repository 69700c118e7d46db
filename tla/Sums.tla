-------------------------------- MODULE Sums --------------------------------
(***************************************************************************)
(* The sum of a function over a finite set, as MapThenSumSet computes it,  *)
(* and what proofs about places and money need to know of it.  The sum is  *)
(* a recursion over sets of elements picked one by one: the induction goes *)
(* through the family of the sets for which a fact holds.                  *)
(***************************************************************************)
EXTENDS Integers, FiniteSets, FiniteSetsExt, FiniteSetTheorems, WellFoundedInduction, TLAPS

Sum(f, S) == MapThenSumSet(LAMBDA i : f[i], S)

Picked(s) == CHOOSE x \in s : TRUE

Unfolded(f, g, s) == IF s = {} THEN 0 ELSE f[Picked(s)] + g[s \ {Picked(s)}]

\* g is the partial sums of f, over every set of S.
PartialSums(f, g, S) ==
    /\ g \in [SUBSET S -> Int]
    /\ \A s \in SUBSET S : g[s] = Unfolded(f, g, s)

\* Induction over a finite set: a family that holds T whenever it holds every
\* proper subset of T holds all subsets.
LEMMA SetInduction ==
    ASSUME NEW S, IsFiniteSet(S), NEW F,
           \A T \in SUBSET S : (\A U \in SUBSET T : U # T => U \in F) => T \in F
    PROVE  S \in F
<1> SUFFICES ASSUME S \notin F PROVE FALSE
    OBVIOUS
<1> DEFINE Out == (SUBSET S) \ F
<1>1. IsWellFoundedOn(StrictSubsetOrdering(S), FiniteSubsetsOf(S))
    BY FS_StrictSubsetOrderingWellFounded
<1>2. Out \subseteq FiniteSubsetsOf(S) /\ Out # {}
    BY FS_Subset DEF FiniteSubsetsOf
<1>3. PICK T \in Out : \A U \in Out : <<U, T>> \notin StrictSubsetOrdering(S)
    <2> HIDE DEF Out
    <2> QED BY <1>1, <1>2, WFMin
<1>4. ASSUME NEW U \in SUBSET T, U # T PROVE U \in F
    <2>1. U \in SUBSET S /\ T \in SUBSET S
        OBVIOUS
    <2>2. <<U, T>> \in StrictSubsetOrdering(S)
        BY <2>1, <1>4 DEF StrictSubsetOrdering
    <2> QED BY <1>3, <2>1, <2>2
<1> QED BY <1>4

LEMMA PickedIn ==
    ASSUME NEW s, s # {}
    PROVE  Picked(s) \in s
BY DEF Picked

\* The partial sums exist: those of one size more follow from the others.
LEMMA PartialSumsExist ==
    ASSUME NEW S, IsFiniteSet(S), NEW f, \A x \in S : f[x] \in Int
    PROVE  \E g : PartialSums(f, g, S)
<1> DEFINE Upto(n, g) ==
        /\ g \in [SUBSET S -> Int]
        /\ \A s \in SUBSET S : Cardinality(s) <= n => g[s] = Unfolded(f, g, s)
    F == {T \in SUBSET S : \E g : Upto(Cardinality(T), g)}
<1>1. \A s \in SUBSET S : IsFiniteSet(s) /\ Cardinality(s) \in Nat /\ Cardinality(s) <= Cardinality(S)
    BY FS_Subset, FS_CardinalityType
<1>2. ASSUME NEW s \in SUBSET S, s # {}
      PROVE  /\ Picked(s) \in S
             /\ s \ {Picked(s)} \in SUBSET S
             /\ Cardinality(s \ {Picked(s)}) = Cardinality(s) - 1
    BY <1>1, <1>2, PickedIn, FS_RemoveElement
<1>3. ASSUME NEW T \in SUBSET S, \A U \in SUBSET T : U # T => U \in F
      PROVE  T \in F
    <2>1. CASE T = {}
        <3> DEFINE z == [s \in SUBSET S |-> 0]
        <3>1. ASSUME NEW s \in SUBSET S, Cardinality(s) <= Cardinality(T) PROVE s = {}
            BY <2>1, <1>1, <3>1, FS_EmptySet
        <3>2. Upto(Cardinality(T), z)
            BY <3>1 DEF Unfolded
        <3> HIDE DEF z
        <3> QED BY <3>2
    <2>2. CASE T # {}
        <3> DEFINE n == Cardinality(T) - 1
        <3>1. n \in Nat /\ n + 1 = Cardinality(T)
            BY <1>1, <2>2, FS_EmptySet
        <3>2. PICK g : Upto(n, g)
            <4>1. /\ T \ {Picked(T)} \in SUBSET T /\ T \ {Picked(T)} # T
                  /\ Cardinality(T \ {Picked(T)}) = n
                BY <1>2, <2>2, PickedIn
            <4> HIDE DEF n, Upto
            <4> QED BY <4>1, <1>3
        <3> DEFINE h == [s \in SUBSET S |-> IF Cardinality(s) <= n THEN g[s]
                                            ELSE Unfolded(f, g, s)]
        <3>3. h \in [SUBSET S -> Int]
            <4>1. ASSUME NEW s \in SUBSET S PROVE Unfolded(f, g, s) \in Int
                <5>1. CASE s = {}
                    BY <5>1 DEF Unfolded
                <5>2. CASE s # {}
                    <6>1. f[Picked(s)] \in Int /\ g[s \ {Picked(s)}] \in Int
                        BY <5>2, <3>2, <1>2
                    <6> QED BY <5>2, <6>1 DEF Unfolded
                <5> QED BY <5>1, <5>2
            <4> QED BY <4>1, <3>2
        <3>4. ASSUME NEW s \in SUBSET S, Cardinality(s) <= n + 1
              PROVE  h[s] = Unfolded(f, h, s)
            <4>1. CASE s = {}
                BY <4>1, <3>1, <3>2, FS_EmptySet DEF Unfolded
            <4>2. CASE s # {}
                <5>1. h[s \ {Picked(s)}] = g[s \ {Picked(s)}]
                    <6>1. Cardinality(s \ {Picked(s)}) <= n
                        BY <1>1, <1>2, <3>1, <3>4, <4>2
                    <6> QED BY <6>1, <1>2, <4>2
                <5>2. h[s] = Unfolded(f, g, s)
                    BY <3>2
                <5> QED BY <5>1, <5>2, <4>2 DEF Unfolded
            <4> QED BY <4>1, <4>2
        <3>5. Upto(Cardinality(T), h)
            BY <3>1, <3>3, <3>4
        <3> HIDE DEF h, Upto
        <3> QED BY <3>5
    <2> QED BY <2>1, <2>2
<1>4. S \in F
    <2> HIDE DEF F
    <2> QED BY <1>3, SetInduction
<1>5. PICK g : Upto(Cardinality(S), g)
    <2> HIDE DEF Upto
    <2> QED BY <1>4
<1>6. PartialSums(f, g, S)
    BY <1>1, <1>5 DEF PartialSums
<1> QED BY <1>6

\* Two functions that agree on the elements have the same partial sums.
LEMMA PartialSumsAgree ==
    ASSUME NEW S, IsFiniteSet(S), NEW T, S \subseteq T,
           NEW f, NEW g, \A x \in S : f[x] = g[x],
           NEW a, PartialSums(f, a, S), NEW b, PartialSums(g, b, T)
    PROVE  a[S] = b[S]
<1> DEFINE F == {U \in SUBSET S : a[U] = b[U]}
<1>1. ASSUME NEW U \in SUBSET S, \A V \in SUBSET U : V # U => V \in F
      PROVE  U \in F
    <2>1. a[U] = Unfolded(f, a, U) /\ b[U] = Unfolded(g, b, U)
        BY DEF PartialSums
    <2>2. CASE U = {}
        BY <2>1, <2>2 DEF Unfolded
    <2>3. CASE U # {}
        <3>1. Picked(U) \in U
            BY <2>3, PickedIn
        <3>2. U \ {Picked(U)} \in F /\ f[Picked(U)] = g[Picked(U)]
            BY <3>1, <1>1
        <3> QED BY <2>1, <2>3, <3>2 DEF Unfolded
    <2> QED BY <2>2, <2>3
<1>2. S \in F
    <2> HIDE DEF F
    <2> QED BY <1>1, SetInduction
<1> QED BY <1>2

\* MapThenSumSet is the last of the partial sums.
LEMMA SumIsPartial ==
    ASSUME NEW S, IsFiniteSet(S), NEW f, \A x \in S : f[x] \in Int
    PROVE  \E g : PartialSums(f, g, S) /\ Sum(f, S) = g[S]
<1> DEFINE D(g) == [s \in SUBSET S |-> IF s = {} THEN 0
                                       ELSE f[Picked(s)] + g[s \ {Picked(s)}]]
           c == CHOOSE h : h = D(h)
<1>1. PICK g : PartialSums(f, g, S)
    BY PartialSumsExist
<1>2. g = D(g)
    BY <1>1 DEF PartialSums, Unfolded
<1>3. c = D(c)
    <2> HIDE DEF D
    <2> QED BY <1>2
<1>4. Sum(f, S) = c[S]
    BY DEF Sum, MapThenSumSet, MapThenFoldSet, Picked
<1>5. PartialSums(f, c, S)
    <2> HIDE DEF c
    <2>1. \A s \in SUBSET S : c[s] = Unfolded(f, c, s)
        BY <1>3 DEF Unfolded
    <2> DEFINE F == {s \in SUBSET S : c[s] \in Int}
    <2>2. ASSUME NEW T \in SUBSET S PROVE T \in F
        <3>1. ASSUME NEW U \in SUBSET T, \A V \in SUBSET U : V # U => V \in F
              PROVE  U \in F
            <4>1. CASE U = {}
                <5>1. c[U] = 0
                    BY <4>1, <2>1 DEF Unfolded
                <5> QED BY <5>1
            <4>2. CASE U # {}
                <5>1. Picked(U) \in U
                    BY <4>2, PickedIn
                <5>2. U \ {Picked(U)} \in F /\ f[Picked(U)] \in Int
                    BY <5>1, <3>1
                <5> QED BY <5>2, <4>2, <2>1 DEF Unfolded
            <4> QED BY <4>1, <4>2
        <3>2. IsFiniteSet(T)
            BY FS_Subset
        <3> HIDE DEF F
        <3> QED BY <3>1, <3>2, SetInduction
    <2>3. c = [s \in SUBSET S |-> c[s]]
        BY <1>3
    <2> QED BY <2>1, <2>2, <2>3 DEF PartialSums
<1> HIDE DEF c
<1> QED BY <1>4, <1>5

(***************************************************************************)
(* What the proofs about the models use                                    *)
(***************************************************************************)
LEMMA SumIsInt ==
    ASSUME NEW S, IsFiniteSet(S), NEW f, \A x \in S : f[x] \in Int
    PROVE  Sum(f, S) \in Int
<1>1. PICK g : PartialSums(f, g, S) /\ Sum(f, S) = g[S]
    BY SumIsPartial
<1> QED BY <1>1 DEF PartialSums

\* The sum depends on the elements' values only.
LEMMA SumAgrees ==
    ASSUME NEW S, IsFiniteSet(S), NEW f, NEW g,
           \A x \in S : f[x] \in Int /\ f[x] = g[x]
    PROVE  Sum(f, S) = Sum(g, S)
<1>1. PICK a : PartialSums(f, a, S) /\ Sum(f, S) = a[S]
    BY SumIsPartial
<1>2. PICK b : PartialSums(g, b, S) /\ Sum(g, S) = b[S]
    BY SumIsPartial
<1> QED BY <1>1, <1>2, PartialSumsAgree

LEMMA SumOfNone ==
    ASSUME NEW f
    PROVE  Sum(f, {}) = 0
<1>1. PICK g : PartialSums(f, g, {}) /\ Sum(f, {}) = g[{}]
    BY FS_EmptySet, SumIsPartial
<1> QED BY <1>1 DEF PartialSums, Unfolded

\* The sum of a set, one picked element apart.
LEMMA SumUnfolds ==
    ASSUME NEW S, IsFiniteSet(S), S # {}, NEW f, \A x \in S : f[x] \in Int
    PROVE  Sum(f, S) = f[Picked(S)] + Sum(f, S \ {Picked(S)})
<1> DEFINE U == S \ {Picked(S)}
<1>1. IsFiniteSet(U) /\ U \in SUBSET S
    BY FS_RemoveElement
<1>2. PICK g : PartialSums(f, g, S) /\ Sum(f, S) = g[S]
    BY SumIsPartial
<1>3. PICK h : PartialSums(f, h, U) /\ Sum(f, U) = h[U]
    <2> HIDE DEF U
    <2> QED BY <1>1, SumIsPartial
<1>4. h[U] = g[U]
    <2> HIDE DEF U
    <2> QED BY <1>1, <1>2, <1>3, PartialSumsAgree
<1>5. g[S] = f[Picked(S)] + g[U]
    BY <1>2 DEF PartialSums, Unfolded
<1> QED BY <1>2, <1>3, <1>4, <1>5

\* Any element may be taken out first.
LEMMA SumTakesOut ==
    ASSUME NEW S, IsFiniteSet(S), NEW f, \A x \in S : f[x] \in Int, NEW x \in S
    PROVE  Sum(f, S) = f[x] + Sum(f, S \ {x})
<1> DEFINE F == {T \in SUBSET S : \A y \in T : Sum(f, T) = f[y] + Sum(f, T \ {y})}
<1>1. ASSUME NEW T \in SUBSET S, \A U \in SUBSET T : U # T => U \in F
      PROVE  T \in F
    <2>1. \A U \in SUBSET T : IsFiniteSet(U) /\ (\A z \in U : f[z] \in Int) /\ Sum(f, U) \in Int
        BY FS_Subset, SumIsInt
    <2> SUFFICES ASSUME NEW y \in T PROVE Sum(f, T) = f[y] + Sum(f, T \ {y})
        OBVIOUS
    <2> DEFINE p == Picked(T)
    <2>2. p \in T /\ Sum(f, T) = f[p] + Sum(f, T \ {p})
        BY <2>1, PickedIn, SumUnfolds
    <2>3. CASE y = p
        BY <2>2, <2>3
    <2>4. CASE y # p
        <3> HIDE DEF p
        <3>1. Sum(f, T \ {p}) = f[y] + Sum(f, (T \ {p}) \ {y})
            <4>1. T \ {p} \in F /\ y \in T \ {p}
                BY <1>1, <2>2, <2>4
            <4> QED BY <4>1
        <3>2. Sum(f, T \ {y}) = f[p] + Sum(f, (T \ {y}) \ {p})
            <4>1. T \ {y} \in F /\ p \in T \ {y}
                BY <1>1, <2>2, <2>4
            <4> QED BY <4>1
        <3>3. (T \ {p}) \ {y} = (T \ {y}) \ {p}
            OBVIOUS
        <3>4. /\ f[p] \in Int /\ f[y] \in Int
              /\ Sum(f, (T \ {y}) \ {p}) \in Int
            BY <2>1, <2>2
        <3> DEFINE rest == Sum(f, (T \ {y}) \ {p})
        <3>5. Sum(f, T \ {p}) = f[y] + rest /\ Sum(f, T \ {y}) = f[p] + rest
            BY <3>1, <3>2, <3>3
        <3>6. rest \in Int
            BY <3>4
        <3> HIDE DEF rest
        <3>7. f[p] + (f[y] + rest) = f[y] + (f[p] + rest)
            BY <3>4, <3>6
        <3> QED BY <2>2, <3>5, <3>7
    <2> QED BY <2>3, <2>4
<1>2. S \in F
    <2> HIDE DEF F
    <2> QED BY <1>1, SetInduction
<1> QED BY <1>2

LEMMA SumAdds ==
    ASSUME NEW S, IsFiniteSet(S), NEW x, x \notin S,
           NEW f, \A y \in S \union {x} : f[y] \in Int
    PROVE  Sum(f, S \union {x}) = Sum(f, S) + f[x]
<1>1. IsFiniteSet(S \union {x}) /\ (S \union {x}) \ {x} = S
    BY FS_AddElement
<1>2. Sum(f, S) \in Int /\ f[x] \in Int
    BY SumIsInt
<1>3. Sum(f, S \union {x}) = f[x] + Sum(f, (S \union {x}) \ {x})
    BY <1>1, SumTakesOut
<1>4. Sum(f, (S \union {x}) \ {x}) = Sum(f, S)
    BY <1>1
<1> QED BY <1>2, <1>3, <1>4

\* The value of one element changes.
LEMMA SumChanges ==
    ASSUME NEW S, IsFiniteSet(S), NEW x \in S, NEW f, NEW g,
           \A y \in S : f[y] \in Int /\ g[y] \in Int,
           \A y \in S : y # x => g[y] = f[y]
    PROVE  Sum(g, S) = Sum(f, S) - f[x] + g[x]
<1>1. IsFiniteSet(S \ {x})
    BY FS_RemoveElement
<1>2. Sum(f, S \ {x}) = Sum(g, S \ {x}) /\ Sum(f, S \ {x}) \in Int
    BY <1>1, SumAgrees, SumIsInt
<1>3. Sum(f, S) = f[x] + Sum(f, S \ {x}) /\ Sum(g, S) = g[x] + Sum(g, S \ {x})
    BY SumTakesOut
<1> QED BY <1>2, <1>3

LEMMA SumIsNat ==
    ASSUME NEW S, IsFiniteSet(S), NEW f, \A x \in S : f[x] \in Nat
    PROVE  Sum(f, S) \in Nat
<1> DEFINE F == {T \in SUBSET S : Sum(f, T) \in Nat}
<1>1. ASSUME NEW T \in SUBSET S, \A U \in SUBSET T : U # T => U \in F
      PROVE  T \in F
    <2>1. CASE T = {}
        BY <2>1, SumOfNone
    <2>2. CASE T # {}
        <3>1. Picked(T) \in T /\ IsFiniteSet(T) /\ \A x \in T : f[x] \in Int
            BY <2>2, PickedIn, FS_Subset
        <3>2. Sum(f, T) = f[Picked(T)] + Sum(f, T \ {Picked(T)})
            BY <2>2, <3>1, SumUnfolds
        <3>3. T \ {Picked(T)} \in F /\ f[Picked(T)] \in Nat
            BY <3>1, <1>1
        <3> QED BY <3>2, <3>3
    <2> QED BY <2>1, <2>2
<1>2. S \in F
    <2> HIDE DEF F
    <2> QED BY <1>1, SetInduction
<1> QED BY <1>2

\* More elements, none of them negative, sum up to no less.
LEMMA SumGrows ==
    ASSUME NEW S, IsFiniteSet(S), NEW T \in SUBSET S, NEW f, \A x \in S : f[x] \in Nat
    PROVE  Sum(f, T) <= Sum(f, S)
<1> DEFINE F == {U \in SUBSET S : T \subseteq U => Sum(f, T) <= Sum(f, U)}
<1>1. ASSUME NEW U \in SUBSET S, \A V \in SUBSET U : V # U => V \in F
      PROVE  U \in F
    <2>1. ASSUME NEW V \in SUBSET S
          PROVE  IsFiniteSet(V) /\ (\A x \in V : f[x] \in Int) /\ Sum(f, V) \in Nat
        <3>1. IsFiniteSet(V) /\ \A x \in V : f[x] \in Nat
            BY FS_Subset
        <3> QED BY <3>1, SumIsNat
    <2>2. CASE U = T
        BY <2>1, <2>2
    <2>3. CASE U # T /\ T \subseteq U
        <3>1. PICK x \in U : x \notin T
            BY <2>3
        <3>2. U \ {x} \in F /\ T \subseteq U \ {x} /\ U \ {x} \in SUBSET S
            BY <1>1, <2>3, <3>1
        <3>3. Sum(f, T) <= Sum(f, U \ {x})
            BY <3>2
        <3>4. Sum(f, U) = f[x] + Sum(f, U \ {x})
            BY <2>1, SumTakesOut
        <3>5. f[x] \in Nat /\ {Sum(f, T), Sum(f, U), Sum(f, U \ {x})} \subseteq Nat
            BY <2>1, <3>2
        <3> QED BY <3>3, <3>4, <3>5
    <2>4. CASE ~(T \subseteq U)
        BY <2>4
    <2> QED BY <2>2, <2>3, <2>4
<1>2. S \in F
    <2> HIDE DEF F
    <2> QED BY <1>1, SetInduction
<1> QED BY <1>2
\* What is zero need not be counted.
LEMMA SumRestricts ==
    ASSUME NEW S, IsFiniteSet(S), NEW T \in SUBSET S, NEW f, \A x \in S : f[x] \in Int,
           \A x \in S : x \notin T => f[x] = 0
    PROVE  Sum(f, S) = Sum(f, T)
<1> DEFINE F == {U \in SUBSET S : T \subseteq U => Sum(f, U) = Sum(f, T)}
<1>1. ASSUME NEW U \in SUBSET S, \A V \in SUBSET U : V # U => V \in F
      PROVE  U \in F
    <2>1. CASE U = T
        BY <2>1
    <2>2. CASE U # T /\ T \subseteq U
        <3>1. PICK x \in U : x \notin T
            BY <2>2
        <3>2. U \ {x} \in F /\ T \subseteq U \ {x}
            BY <1>1, <2>2, <3>1
        <3>3. IsFiniteSet(U) /\ IsFiniteSet(T) /\ \A y \in U : f[y] \in Int
            BY FS_Subset
        <3>4. Sum(f, U) = f[x] + Sum(f, U \ {x})
            BY <3>3, SumTakesOut
        <3>5. f[x] = 0 /\ Sum(f, T) \in Int
            BY <3>1, <3>3, SumIsInt
        <3>6. Sum(f, U \ {x}) = Sum(f, T)
            BY <3>2
        <3> QED BY <3>4, <3>5, <3>6
    <2>3. CASE ~(T \subseteq U)
        BY <2>3
    <2> QED BY <2>1, <2>2, <2>3
<1>2. S \in F
    <2> HIDE DEF F
    <2> QED BY <1>1, SetInduction
<1> QED BY <1>2

LEMMA SumOfZeros ==
    ASSUME NEW S, IsFiniteSet(S), NEW f, \A x \in S : f[x] = 0
    PROVE  Sum(f, S) = 0
<1>1. \A x \in S : f[x] \in Int
    OBVIOUS
<1>2. Sum(f, S) = Sum(f, {})
    BY <1>1, SumRestricts
<1> QED BY <1>2, SumOfNone

\* The sum of what f has beyond g.
LEMMA SumSubtracts ==
    ASSUME NEW S, IsFiniteSet(S), NEW f, NEW g, NEW d,
           \A x \in S : f[x] \in Int /\ g[x] \in Int /\ d[x] = f[x] - g[x]
    PROVE  Sum(d, S) = Sum(f, S) - Sum(g, S)
<1> DEFINE F == {T \in SUBSET S : Sum(d, T) = Sum(f, T) - Sum(g, T)}
<1>1. ASSUME NEW T \in SUBSET S, \A U \in SUBSET T : U # T => U \in F
      PROVE  T \in F
    <2>1. CASE T = {}
        BY <2>1, SumOfNone
    <2>2. CASE T # {}
        <3> DEFINE x == Picked(T)
                   U == T \ {x}
        <3>1. x \in T /\ IsFiniteSet(T) /\ IsFiniteSet(U)
            BY <2>2, PickedIn, FS_Subset
        <3>2. \A y \in T : f[y] \in Int /\ g[y] \in Int /\ d[y] \in Int
            OBVIOUS
        <3>3. /\ Sum(f, T) = f[x] + Sum(f, U) /\ Sum(g, T) = g[x] + Sum(g, U)
              /\ Sum(d, T) = d[x] + Sum(d, U)
            BY <2>2, <3>1, <3>2, SumUnfolds
        <3>4. Sum(f, U) \in Int /\ Sum(g, U) \in Int
            <4>1. \A y \in U : f[y] \in Int /\ g[y] \in Int
                BY <3>2
            <4> QED BY <3>1, <4>1, SumIsInt
        <3>5. Sum(d, U) = Sum(f, U) - Sum(g, U)
            BY <1>1, <3>1
        <3>6. f[x] \in Int /\ g[x] \in Int /\ d[x] = f[x] - g[x]
            BY <3>1
        <3> HIDE DEF x, U
        <3> QED BY <3>3, <3>4, <3>5, <3>6
    <2> QED BY <2>1, <2>2
<1>2. S \in F
    <2> HIDE DEF F
    <2> QED BY <1>1, SetInduction
<1> QED BY <1>2

LEMMA SumOfOne ==
    ASSUME NEW x, NEW f, f[x] \in Int
    PROVE  IsFiniteSet({x}) /\ Sum(f, {x}) = f[x]
<1>1. IsFiniteSet({}) /\ {} \union {x} = {x} /\ IsFiniteSet({x})
    BY FS_EmptySet, FS_Singleton
<1>2. x \notin {} /\ \A z \in {} \union {x} : f[z] \in Int
    OBVIOUS
<1>3. Sum(f, {} \union {x}) = Sum(f, {}) + f[x]
    BY <1>1, <1>2, SumAdds
<1> QED BY <1>1, <1>3, SumOfNone

LEMMA SumOfTwo ==
    ASSUME NEW x, NEW y, x # y, NEW f, f[x] \in Int, f[y] \in Int
    PROVE  IsFiniteSet({x, y}) /\ Sum(f, {x, y}) = f[x] + f[y]
<1>1. IsFiniteSet({x}) /\ Sum(f, {x}) = f[x] /\ {x} \union {y} = {x, y}
    BY SumOfOne
<1>2. IsFiniteSet({x} \union {y})
    BY <1>1, FS_AddElement
<1>3. Sum(f, {x} \union {y}) = Sum(f, {x}) + f[y]
    <2>1. y \notin {x} /\ \A z \in {x} \union {y} : f[z] \in Int
        OBVIOUS
    <2> QED BY <1>1, <2>1, SumAdds
<1> QED BY <1>1, <1>2, <1>3
=============================================================================
