---------------------------- MODULE SumTheorems -----------------------------
(***************************************************************************)
(* Sums over finite functions, FoldFunction(+, 0, f) of the community      *)
(* modules: what they are made of, for any finite domain.                  *)
(*                                                                         *)
(* The fold takes the elements in the order CHOOSE gives them and is       *)
(* defined by a recursive function over the subsets of the domain.  Its    *)
(* existence is shown one cardinality at a time; inductions are over a set *)
(* of subsets with a least member, never over a predicate.                 *)
(***************************************************************************)
EXTENDS Integers, FiniteSets, Functions, FiniteSetTheorems, WellFoundedInduction, TLAPS

Sum(f) == FoldFunction(+, 0, f)

First(S) == CHOOSE x \in S : TRUE

(* The fold of f over its domain S, as the community modules define it.    *)
Iter(f, S) ==
    CHOOSE iter : iter = [T \in SUBSET S |->
                             IF T = {} THEN 0 ELSE f[First(T)] + iter[T \ {First(T)}]]

Iterates(f, g, D) ==
    /\ g \in [D -> Int]
    /\ \A T \in D : g[T] = IF T = {} THEN 0 ELSE f[First(T)] + g[T \ {First(T)}]

LEMMA SumIsIter == ASSUME NEW f PROVE Sum(f) = Iter(f, DOMAIN f)[DOMAIN f]
BY DEF Sum, FoldFunction, FoldFunctionOnSet, MapThenFoldSet, Iter, First

LEMMA FirstIn == ASSUME NEW S, S # {} PROVE First(S) \in S
BY DEF First

-----------------------------------------------------------------------------
(* Induction over numbers and over finite sets, for sets of good ones.     *)
LEMMA AllNumbers ==
    ASSUME NEW N, N \subseteq Nat, 0 \in N, \A n \in N : n + 1 \in N
    PROVE  N = Nat
<1>1. CASE Nat \ N # {}
  <2>1. PICK n \in Nat \ N : \A m \in Nat \ N : ~ (<<m, n>> \in OpToRel(<, Nat))
    BY <1>1, NatLessThanWellFounded, WFMin, Nat \ N \subseteq Nat
  <2>2. n # 0 /\ n - 1 \in Nat
    OBVIOUS
  <2>3. <<n - 1, n>> \in OpToRel(<, Nat)
    BY <2>2 DEF OpToRel
  <2>4. n - 1 \in N
    BY <2>1, <2>2, <2>3
  <2> QED
    BY <2>2, <2>4
<1> QED
  BY <1>1

LEMMA AllSubsets ==
    ASSUME NEW S, IsFiniteSet(S), NEW G,
           \A T \in SUBSET S : (\A U \in SUBSET T : U # T => U \in G) => T \in G
    PROVE  \A T \in SUBSET S : T \in G
<1> DEFINE B == (SUBSET S) \ G
<1>1. CASE B # {}
  <2>1. IsWellFoundedOn(StrictSubsetOrdering(S), SUBSET S)
    BY FS_StrictSubsetOrderingWellFounded, FS_FiniteSubsetsOfFinite
  <2>2. B \subseteq SUBSET S
    OBVIOUS
  <2> HIDE DEF B
  <2>3. PICK T \in B : \A U \in B : ~ (<<U, T>> \in StrictSubsetOrdering(S))
    BY <1>1, <2>1, <2>2, WFMin
  <2>4. ASSUME NEW U \in SUBSET T, U # T PROVE U \in G
    <3>1. <<U, T>> \in StrictSubsetOrdering(S)
      BY <2>2, <2>4 DEF StrictSubsetOrdering
    <3>2. U \in SUBSET S
      BY <2>2
    <3> QED
      BY <3>1, <3>2, <2>3 DEF B
  <2>5. T \in SUBSET S
    BY <2>2
  <2>6. T \in G
    BY <2>4, <2>5
  <2> QED
    BY <2>6 DEF B
<1>2. CASE B = {}
  BY <1>2
<1> QED
  BY <1>1, <1>2

-----------------------------------------------------------------------------
(* The recursive function exists.                                          *)
LEMMA IterExists ==
    ASSUME NEW S, IsFiniteSet(S), NEW f \in [S -> Int]
    PROVE  Iterates(f, Iter(f, S), SUBSET S)
<1> DEFINE Upto(n) == {T \in SUBSET S : Cardinality(T) <= n}
           Step(g, n) == [T \in Upto(n + 1) |->
                            IF T = {} THEN 0 ELSE f[First(T)] + g[T \ {First(T)}]]
           N == {n \in Nat : \E g : Iterates(f, g, Upto(n))}
<1>1. \A T \in SUBSET S : IsFiniteSet(T) /\ Cardinality(T) \in Nat
  BY FS_Subset, FS_CardinalityType
<1>2. \A T \in SUBSET S : T # {} =>
         /\ First(T) \in T /\ First(T) \in S
         /\ T \ {First(T)} \in SUBSET S
         /\ Cardinality(T \ {First(T)}) = Cardinality(T) - 1
  BY <1>1, FirstIn, FS_RemoveElement
<1>3. 0 \in N
  <2>1. Upto(0) \subseteq {{}}
    BY <1>1, FS_EmptySet
  <2>2. Iterates(f, [T \in Upto(0) |-> 0], Upto(0))
    BY <2>1 DEF Iterates
  <2> QED
    BY <2>2
<1>4. ASSUME NEW n \in N PROVE n + 1 \in N
  <2>1. n \in Nat
    OBVIOUS
  <2>2. PICK g : Iterates(f, g, Upto(n))
    OBVIOUS
  <2> DEFINE h == Step(g, n)
  <2> HIDE DEF Upto
  <2>3. \A T \in Upto(n + 1) : T # {} => T \ {First(T)} \in Upto(n) /\ First(T) \in S
    BY <1>1, <1>2, <2>1 DEF Upto
  <2>4. h \in [Upto(n + 1) -> Int]
    BY <2>2, <2>3 DEF Iterates
  <2>5. Upto(n) \subseteq Upto(n + 1)
    BY <1>1, <2>1 DEF Upto
  <2>6. \A T \in Upto(n) : h[T] = g[T]
    BY <2>2, <2>5 DEF Iterates
  <2>7. \A T \in Upto(n + 1) :
           h[T] = IF T = {} THEN 0 ELSE f[First(T)] + h[T \ {First(T)}]
    BY <2>3, <2>6
  <2>8. Iterates(f, h, Upto(n + 1))
    BY <2>4, <2>7 DEF Iterates
  <2>9. \E k : Iterates(f, k, Upto(n + 1))
    BY <2>8
  <2> QED
    BY <2>1, <2>9
<1>5. N = Nat
  <2> HIDE DEF Upto
  <2>1. N \subseteq Nat
    OBVIOUS
  <2> HIDE DEF N
  <2> QED
    BY <1>3, <1>4, <2>1, AllNumbers
<1>6. Cardinality(S) \in Nat
  BY FS_CardinalityType
<1>7. \E g : Iterates(f, g, Upto(Cardinality(S)))
  BY <1>5, <1>6
<1>8. Upto(Cardinality(S)) = SUBSET S
  BY <1>1, FS_Subset
<1>9. PICK g : Iterates(f, g, SUBSET S)
  BY <1>7, <1>8
<1>10. g = [T \in SUBSET S |-> IF T = {} THEN 0 ELSE f[First(T)] + g[T \ {First(T)}]]
  BY <1>9 DEF Iterates
<1>11. Iter(f, S) = [T \in SUBSET S |->
                       IF T = {} THEN 0 ELSE f[First(T)] + Iter(f, S)[T \ {First(T)}]]
  BY <1>10 DEF Iter
<1> DEFINE it == Iter(f, S)
<1>12. it = [T \in SUBSET S |-> IF T = {} THEN 0 ELSE f[First(T)] + it[T \ {First(T)}]]
  BY <1>11
<1> HIDE DEF it
<1>13. \A T \in SUBSET S : it[T] = IF T = {} THEN 0 ELSE f[First(T)] + it[T \ {First(T)}]
  BY <1>12
<1> DEFINE G == {T \in SUBSET S : it[T] \in Int}
<1>14. ASSUME NEW T \in SUBSET S, \A U \in SUBSET T : U # T => U \in G PROVE T \in G
  <2>1. CASE T = {}
    <3>1. it[T] = 0
      BY <2>1, <1>13
    <3> QED
      BY <3>1
  <2>2. CASE T # {}
    <3>1. T \ {First(T)} \in G /\ f[First(T)] \in Int
      BY <2>2, <1>2, <1>14
    <3>2. it[T] = f[First(T)] + it[T \ {First(T)}]
      BY <2>2, <1>13
    <3>3. it[T \ {First(T)}] \in Int
      BY <3>1
    <3>4. it[T] \in Int
      BY <3>1, <3>2, <3>3
    <3> QED
      BY <3>4
  <2> QED
    BY <2>1, <2>2
<1>15. \A T \in SUBSET S : T \in G
  <2> HIDE DEF G
  <2> QED
    BY <1>14, AllSubsets
<1>16. it \in [SUBSET S -> Int]
  BY <1>12, <1>15
<1>17. Iterates(f, it, SUBSET S)
  BY <1>13, <1>16 DEF Iterates
<1> QED
  BY <1>17 DEF it

(* The fold over part of the domain is the sum of the restriction.         *)
LEMMA IterOfRestriction ==
    ASSUME NEW S, IsFiniteSet(S), NEW f \in [S -> Int], NEW T \in SUBSET S
    PROVE  Iter(f, S)[T] = Sum(Restrict(f, T))
<1> DEFINE r == Restrict(f, T)
           G == {U \in SUBSET T : Iter(f, S)[U] = Iter(r, T)[U]}
<1>1. IsFiniteSet(T)
  BY FS_Subset
<1>2. r \in [T -> Int] /\ \A x \in T : r[x] = f[x]
  BY DEF Restrict
<1> HIDE DEF r
<1>3. Iterates(f, Iter(f, S), SUBSET S) /\ Iterates(r, Iter(r, T), SUBSET T)
  BY <1>1, <1>2, IterExists
<1>4. ASSUME NEW U \in SUBSET T, \A V \in SUBSET U : V # U => V \in G PROVE U \in G
  <2>1. /\ Iter(f, S)[U] = IF U = {} THEN 0 ELSE f[First(U)] + Iter(f, S)[U \ {First(U)}]
        /\ Iter(r, T)[U] = IF U = {} THEN 0 ELSE r[First(U)] + Iter(r, T)[U \ {First(U)}]
    BY <1>3 DEF Iterates
  <2>2. CASE U = {}
    <3>1. Iter(f, S)[U] = 0 /\ Iter(r, T)[U] = 0
      BY <2>1, <2>2
    <3> QED
      BY <3>1
  <2>3. CASE U # {}
    <3>1. First(U) \in U /\ U \ {First(U)} \in G
      BY <2>3, <1>4, FirstIn
    <3>2. f[First(U)] = r[First(U)]
      BY <3>1, <1>2
    <3>3. Iter(f, S)[U \ {First(U)}] = Iter(r, T)[U \ {First(U)}]
      BY <3>1
    <3>4. Iter(f, S)[U] = Iter(r, T)[U]
      BY <2>1, <2>3, <3>2, <3>3
    <3> QED
      BY <3>4
  <2> QED
    BY <2>2, <2>3
<1>5. T \in G
  <2>1. \A U \in SUBSET T : U \in G
    <3> HIDE DEF G
    <3> QED
      BY <1>1, <1>4, AllSubsets
  <2> QED
    BY <2>1
<1>6. Sum(r) = Iter(r, T)[T]
  BY <1>2, SumIsIter
<1> QED
  BY <1>5, <1>6 DEF r

-----------------------------------------------------------------------------
(* A sum is a number, nothing sums to 0, and any element can be taken out  *)
(* first, although the fold takes them in an order of its own.             *)
LEMMA SumType ==
    ASSUME NEW S, IsFiniteSet(S), NEW f \in [S -> Int]
    PROVE  /\ Sum(f) \in Int
           /\ S = {} => Sum(f) = 0
<1>1. Iterates(f, Iter(f, S), SUBSET S)
  BY IterExists
<1>2. Sum(f) = Iter(f, S)[S]
  BY SumIsIter
<1> QED
  BY <1>1, <1>2 DEF Iterates

LEMMA SumFirst ==
    ASSUME NEW S, IsFiniteSet(S), NEW f \in [S -> Int], S # {}
    PROVE  Sum(f) = f[First(S)] + Sum(Restrict(f, S \ {First(S)}))
<1>1. Iterates(f, Iter(f, S), SUBSET S)
  BY IterExists
<1>2. Iter(f, S)[S] = f[First(S)] + Iter(f, S)[S \ {First(S)}]
  BY <1>1 DEF Iterates
<1>3. Sum(f) = Iter(f, S)[S]
  BY SumIsIter
<1>4. S \ {First(S)} \in SUBSET S
  OBVIOUS
<1>5. Iter(f, S)[S \ {First(S)}] = Sum(Restrict(f, S \ {First(S)}))
  BY <1>4, IterOfRestriction
<1> QED
  BY <1>2, <1>3, <1>5

LEMMA RestrictTwice ==
    ASSUME NEW f, NEW T, NEW U \in SUBSET T
    PROVE  Restrict(Restrict(f, T), U) = Restrict(f, U)
BY DEF Restrict

LEMMA SumRemove ==
    ASSUME NEW S, IsFiniteSet(S), NEW f \in [S -> Int], NEW x \in S
    PROVE  Sum(f) = f[x] + Sum(Restrict(f, S \ {x}))
<1> DEFINE On(T) == Sum(Restrict(f, T))
           G == {T \in SUBSET S : \A y \in T : On(T) = f[y] + On(T \ {y})}
<1>1. \A T \in SUBSET S : IsFiniteSet(T) /\ Restrict(f, T) \in [T -> Int] /\ On(T) \in Int
  <2>1. \A T \in SUBSET S : IsFiniteSet(T) /\ Restrict(f, T) \in [T -> Int]
    BY FS_Subset DEF Restrict
  <2> QED
    BY <2>1, SumType
<1>2. ASSUME NEW T \in SUBSET S, T # {}
      PROVE  On(T) = f[First(T)] + On(T \ {First(T)})
  <2>1. Sum(Restrict(f, T))
          = Restrict(f, T)[First(T)] + Sum(Restrict(Restrict(f, T), T \ {First(T)}))
    BY <1>1, <1>2, SumFirst
  <2>2. Restrict(f, T)[First(T)] = f[First(T)]
    BY <1>2, FirstIn DEF Restrict
  <2>3. Restrict(Restrict(f, T), T \ {First(T)}) = Restrict(f, T \ {First(T)})
    BY RestrictTwice
  <2> QED
    BY <2>1, <2>2, <2>3
<1> HIDE DEF On
<1>3. ASSUME NEW T \in SUBSET S, \A U \in SUBSET T : U # T => U \in G PROVE T \in G
  <2>. SUFFICES ASSUME NEW y \in T PROVE On(T) = f[y] + On(T \ {y})
    OBVIOUS
  <2> DEFINE c == First(T)
  <2>1. c \in T /\ c \in S /\ y \in S
    BY FirstIn
  <2>2. On(T) = f[c] + On(T \ {c})
    BY <1>2
  <2> HIDE DEF c
  <2>3. CASE y = c
    BY <2>2, <2>3
  <2>4. CASE y # c
    <3>1. T \ {c} \in G /\ T \ {y} \in G /\ y \in T \ {c} /\ c \in T \ {y}
      BY <2>1, <2>4, <1>3
    <3>2. On(T \ {c}) = f[y] + On((T \ {c}) \ {y})
      BY <3>1
    <3>3. On(T \ {y}) = f[c] + On((T \ {y}) \ {c})
      BY <3>1
    <3>4. (T \ {c}) \ {y} = (T \ {y}) \ {c}
      OBVIOUS
    <3>5. On((T \ {c}) \ {y}) = On((T \ {y}) \ {c})
      BY Zenon, <3>4
    <3> DEFINE a == f[c]
               b == f[y]
               rest == On((T \ {c}) \ {y})
    <3>6. a \in Int /\ b \in Int /\ rest \in Int
      BY <2>1, <1>1
    <3>7. On(T) = a + On(T \ {c}) /\ On(T \ {c}) = b + rest /\ On(T \ {y}) = a + rest
      BY <2>2, <3>2, <3>3, <3>5
    <3> HIDE DEF a, b, rest
    <3>8. On(T) = b + On(T \ {y})
      BY <3>6, <3>7
    <3> QED
      BY <3>8 DEF b
  <2> QED
    BY <2>3, <2>4
<1>4. S \in G
  <2>1. \A T \in SUBSET S : T \in G
    <3> HIDE DEF G
    <3> QED
      BY <1>3, AllSubsets
  <2> QED
    BY <2>1
<1>5. Restrict(f, S) = f
  BY DEF Restrict
<1> QED
  BY <1>4, <1>5 DEF On

-----------------------------------------------------------------------------
(* Changing one element changes the sum by the difference.                 *)
LEMMA SumUpdate ==
    ASSUME NEW S, IsFiniteSet(S), NEW f \in [S -> Int], NEW g \in [S -> Int], NEW x \in S,
           \A y \in S \ {x} : g[y] = f[y]
    PROVE  Sum(g) = Sum(f) - f[x] + g[x]
<1>1. Restrict(f, S \ {x}) = Restrict(g, S \ {x})
  BY DEF Restrict
<1>2. Restrict(f, S \ {x}) \in [S \ {x} -> Int] /\ IsFiniteSet(S \ {x})
  BY FS_RemoveElement DEF Restrict
<1>3. Sum(Restrict(f, S \ {x})) \in Int
  BY <1>2, SumType
<1>4. /\ Sum(f) = f[x] + Sum(Restrict(f, S \ {x}))
      /\ Sum(g) = g[x] + Sum(Restrict(g, S \ {x}))
  BY SumRemove
<1> QED
  BY <1>1, <1>3, <1>4

(* One element more adds its value.                                        *)
LEMMA SumExtend ==
    ASSUME NEW S, IsFiniteSet(S), NEW x, x \notin S, NEW f \in [S -> Int],
           NEW g \in [S \cup {x} -> Int], \A y \in S : g[y] = f[y]
    PROVE  Sum(g) = Sum(f) + g[x]
<1>1. IsFiniteSet(S \cup {x}) /\ (S \cup {x}) \ {x} = S
  BY FS_AddElement
<1>2. Sum(g) = g[x] + Sum(Restrict(g, S))
  BY <1>1, SumRemove
<1>3. Restrict(g, S) = f
  BY DEF Restrict
<1>4. Sum(f) \in Int /\ g[x] \in Int
  BY SumType
<1> QED
  BY <1>2, <1>3, <1>4

(* A sum of naturals is a natural.                                         *)
LEMMA SumNatural ==
    ASSUME NEW S, IsFiniteSet(S), NEW f \in [S -> Nat]
    PROVE  Sum(f) \in Nat
<1> DEFINE G == {T \in SUBSET S : Sum(Restrict(f, T)) \in Nat}
<1>1. ASSUME NEW T \in SUBSET S, \A U \in SUBSET T : U # T => U \in G PROVE T \in G
  <2>1. Restrict(f, T) \in [T -> Int] /\ IsFiniteSet(T)
    BY FS_Subset DEF Restrict
  <2>2. CASE T = {}
    <3>1. Sum(Restrict(f, T)) = 0
      BY <2>1, <2>2, SumType
    <3> QED
      BY <3>1
  <2>3. CASE T # {}
    <3>1. PICK x \in T : TRUE
      BY <2>3
    <3>2. T \ {x} \in G
      BY <1>1
    <3>3. Sum(Restrict(f, T))
            = Restrict(f, T)[x] + Sum(Restrict(Restrict(f, T), T \ {x}))
      BY <2>1, SumRemove
    <3>4. Restrict(f, T)[x] \in Nat
      BY DEF Restrict
    <3>5. Restrict(Restrict(f, T), T \ {x}) = Restrict(f, T \ {x})
      BY RestrictTwice
    <3>6. Sum(Restrict(f, T \ {x})) \in Nat
      BY <3>2
    <3>7. Sum(Restrict(f, T)) \in Nat
      BY <3>3, <3>4, <3>5, <3>6
    <3> QED
      BY <3>7
  <2> QED
    BY <2>2, <2>3
<1>2. S \in G
  <2>1. \A T \in SUBSET S : T \in G
    <3> HIDE DEF G
    <3> QED
      BY <1>1, AllSubsets
  <2> QED
    BY <2>1
<1>3. Restrict(f, S) = f
  BY DEF Restrict
<1> QED
  BY <1>2, <1>3

(* A sum of bounded naturals is a natural, bounded by their number.        *)
LEMMA SumBound ==
    ASSUME NEW S, IsFiniteSet(S), NEW H \in Nat, NEW f \in [S -> Nat], \A x \in S : f[x] <= H
    PROVE  Sum(f) \in Nat /\ Sum(f) <= Cardinality(S) * H
<1> DEFINE On(T) == Sum(Restrict(f, T))
           G == {T \in SUBSET S : On(T) \in Nat /\ On(T) <= Cardinality(T) * H}
<1>1. \A T \in SUBSET S : /\ IsFiniteSet(T) /\ Cardinality(T) \in Nat
                          /\ Restrict(f, T) \in [T -> Int]
  BY FS_Subset, FS_CardinalityType DEF Restrict
<1>2. ASSUME NEW T \in SUBSET S, \A U \in SUBSET T : U # T => U \in G PROVE T \in G
  <2>1. CASE T = {}
    <3>1. On(T) = 0 /\ Cardinality(T) = 0
      BY <1>1, <2>1, SumType, FS_EmptySet
    <3> QED
      BY <3>1
  <2>2. CASE T # {}
    <3>1. PICK x \in T : TRUE
      BY <2>2
    <3>2. T \ {x} \in G
      BY <1>2
    <3>3. Cardinality(T \ {x}) = Cardinality(T) - 1
      BY <1>1, FS_RemoveElement
    <3>4. On(T) = f[x] + On(T \ {x})
      <4>1. Sum(Restrict(f, T)) = Restrict(f, T)[x] + Sum(Restrict(Restrict(f, T), T \ {x}))
        BY <1>1, SumRemove
      <4>2. Restrict(f, T)[x] = f[x]
        BY DEF Restrict
      <4> QED
        BY <4>1, <4>2, RestrictTwice
    <3> DEFINE n == Cardinality(T)
               rest == On(T \ {x})
    <3>5. n \in Nat /\ f[x] \in Nat /\ f[x] <= H /\ rest \in Nat /\ rest <= (n - 1) * H
      BY <1>1, <3>2, <3>3
    <3>6. On(T) = f[x] + rest
      BY <3>4
    <3> HIDE DEF n, rest, On
    <3>7. (n - 1) * H = n * H - H
      BY <3>5
    <3>8. On(T) \in Nat /\ On(T) <= n * H
      BY <3>5, <3>6, <3>7
    <3> QED
      BY <3>8 DEF n
  <2> QED
    BY <2>1, <2>2
<1>3. S \in G
  <2>1. \A T \in SUBSET S : T \in G
    <3> HIDE DEF G
    <3> QED
      BY <1>2, AllSubsets
  <2> QED
    BY <2>1
<1>4. Restrict(f, S) = f
  BY DEF Restrict
<1> QED
  BY <1>3, <1>4
===============================================================================
