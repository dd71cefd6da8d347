------------------------------ MODULE SetLemmas ------------------------------
(***************************************************************************)
(* Finite sets, for the proofs.  Their sums, which the models of the money *)
(* and of the stock are built from: MapThenSumSet() adds in an order that  *)
(* CHOOSE picks, and the lemmas say that the order does not matter; their  *)
(* sorting, and what is computed along a sequence.                         *)
(***************************************************************************)
EXTENDS Integers, SequencesExt, FiniteSetTheorems, WellFoundedInduction, TLAPS

\* The sum of f over S.
SumOf(f, S) == MapThenSumSet(LAMBDA x : f[x], S)

-----------------------------------------------------------------------------
(* Induction, over numbers and over the subsets of a finite set: of all    *)
(* counterexamples there is a smallest one.                                *)

LEMMA SmallestNumber ==
  ASSUME NEW Bad \in SUBSET Nat, Bad # {}
  PROVE  \E n \in Bad : \A m \in Bad : n <= m
<1>1. PICK n \in Bad : \A m \in Bad : <<m, n>> \notin OpToRel(<, Nat)
  BY NatLessThanWellFounded, WFMin
<1>2. \A m \in Bad : ~(m < n)
  BY <1>1 DEF OpToRel
<1> QED BY <1>2

LEMMA SmallestSet ==
  ASSUME NEW S, IsFiniteSet(S), NEW Bad \in SUBSET SUBSET S, Bad # {}
  PROVE  \E T \in Bad : \A x \in T : T \ {x} \notin Bad
<1> DEFINE sizes == {Cardinality(T) : T \in Bad}
<1>1. \A T \in Bad : IsFiniteSet(T) /\ Cardinality(T) \in Nat
  BY FS_Subset, FS_CardinalityType
<1>2. sizes \in SUBSET Nat /\ sizes # {}
  BY <1>1
<1>3. PICK n \in sizes : \A m \in sizes : n <= m
  BY <1>2, SmallestNumber
<1>4. PICK T \in Bad : n = Cardinality(T)
  BY <1>3
<1>5. ASSUME NEW x \in T, T \ {x} \in Bad PROVE FALSE
  <2>1. Cardinality(T \ {x}) = Cardinality(T) - 1
    BY <1>1, FS_RemoveElement
  <2>2. Cardinality(T) <= Cardinality(T \ {x})
    BY <1>3, <1>4, <1>5
  <2> QED BY <1>1, <2>1, <2>2
<1> QED BY <1>5

-----------------------------------------------------------------------------
(* The function that MapThenSumSet() computes a sum with: it exists, and   *)
(* there is one only.                                                      *)

Some(s) == CHOOSE x \in s : TRUE
AddsUp(f, S, g) == g = [s \in SUBSET S |-> IF s = {} THEN 0 ELSE f[Some(s)] + g[s \ {Some(s)}]]

LEMMA SomeIsOne == \A s : s # {} => Some(s) \in s
  BY DEF Some

\* The part of it for the sets of at most n elements.
Small(S, n) == {s \in SUBSET S : Cardinality(s) <= n}
AddsUpSmall(f, S, n, g) ==
  /\ g \in [Small(S, n) -> Int]
  /\ \A s \in Small(S, n) : g[s] = IF s = {} THEN 0 ELSE f[Some(s)] + g[s \ {Some(s)}]

LEMMA SmallSumsExist ==
  ASSUME NEW D, NEW f \in [D -> Int], NEW S \in SUBSET D, IsFiniteSet(S)
  PROVE  \A n \in Nat : \E g : AddsUpSmall(f, S, n, g)
<1> DEFINE Bad == {n \in Nat : ~ \E g : AddsUpSmall(f, S, n, g)}
<1> SUFFICES ASSUME Bad # {} PROVE FALSE
  OBVIOUS
<1>1. PICK n \in Bad : \A m \in Bad : n <= m
  BY SmallestNumber
<1>2. \A s \in SUBSET S : IsFiniteSet(s) /\ Cardinality(s) \in Nat /\ (Cardinality(s) = 0 <=> s = {})
  BY FS_Subset, FS_CardinalityType, FS_EmptySet
<1>3. \A s \in SUBSET S : s # {} => /\ Some(s) \in s /\ s \ {Some(s)} \in SUBSET S /\ f[Some(s)] \in Int
                                    /\ Cardinality(s \ {Some(s)}) = Cardinality(s) - 1
  BY <1>2, SomeIsOne, FS_RemoveElement
<1>4. CASE n = 0
  <2> DEFINE g == [s \in Small(S, 0) |-> 0]
  <2>1. Small(S, 0) = {{}}
    BY <1>2, FS_EmptySet DEF Small
  <2>2. AddsUpSmall(f, S, 0, g)
    BY <2>1 DEF AddsUpSmall
  <2> QED BY <1>4, <2>2
<1>5. CASE n # 0
  <2>1. n - 1 \in Nat /\ n - 1 \notin Bad
    BY <1>1, <1>5
  <2>2. PICK h : AddsUpSmall(f, S, n - 1, h)
    BY <2>1
  <2> DEFINE g == [s \in Small(S, n) |->
                     IF s \in Small(S, n - 1) THEN h[s] ELSE f[Some(s)] + h[s \ {Some(s)}]]
  <2>3. ASSUME NEW s \in Small(S, n), s # {}
        PROVE  s \ {Some(s)} \in Small(S, n - 1) /\ s \ {Some(s)} \in Small(S, n)
    BY <1>2, <1>3, <2>1 DEF Small
  <2>4. {} \in Small(S, n - 1)
    BY <2>1, FS_EmptySet DEF Small
  <2>5. \A s \in Small(S, n - 1) : s \in Small(S, n) /\ h[s] \in Int
    BY <2>1, <2>2, <1>2 DEF Small, AddsUpSmall
  <2>6. g \in [Small(S, n) -> Int]
    <3>1. ASSUME NEW s \in Small(S, n), s \notin Small(S, n - 1)
          PROVE  f[Some(s)] + h[s \ {Some(s)}] \in Int
      <4>1. s \in SUBSET S /\ s # {}
        BY <2>4, <3>1 DEF Small
      <4> QED BY <1>3, <2>3, <2>5, <4>1
    <3> QED BY <2>5, <3>1
  <2>7. ASSUME NEW s \in Small(S, n)
        PROVE  g[s] = IF s = {} THEN 0 ELSE f[Some(s)] + g[s \ {Some(s)}]
    <3>1. CASE s = {}
      BY <2>2, <2>4, <3>1 DEF AddsUpSmall
    <3>2. CASE s # {}
      <4>1. g[s \ {Some(s)}] = h[s \ {Some(s)}]
        BY <2>3, <3>2
      <4>2. g[s] = f[Some(s)] + h[s \ {Some(s)}]
        BY <2>2, <3>2 DEF AddsUpSmall
      <4> QED BY <3>2, <4>1, <4>2
    <3> QED BY <3>1, <3>2
  <2>8. AddsUpSmall(f, S, n, g)
    BY <2>6, <2>7 DEF AddsUpSmall
  <2> QED BY <2>8
<1> QED BY <1>4, <1>5

LEMMA SumExists ==
  ASSUME NEW D, NEW f \in [D -> Int], NEW S \in SUBSET D, IsFiniteSet(S)
  PROVE  \E g \in [SUBSET S -> Int] : AddsUp(f, S, g)
<1>1. Cardinality(S) \in Nat /\ Small(S, Cardinality(S)) = SUBSET S
  BY FS_CardinalityType, FS_Subset DEF Small
<1>2. PICK g : AddsUpSmall(f, S, Cardinality(S), g)
  BY <1>1, SmallSumsExist
<1>3. /\ g \in [SUBSET S -> Int]
      /\ \A s \in SUBSET S : g[s] = IF s = {} THEN 0 ELSE f[Some(s)] + g[s \ {Some(s)}]
  BY <1>1, <1>2 DEF AddsUpSmall
<1>4. g = [s \in SUBSET S |-> IF s = {} THEN 0 ELSE f[Some(s)] + g[s \ {Some(s)}]]
  BY <1>3
<1> QED BY <1>3, <1>4 DEF AddsUp

\* Two of them agree where both are defined.
LEMMA SumsAgree ==
  ASSUME NEW f, NEW S, IsFiniteSet(S), NEW T, NEW g, NEW h, AddsUp(f, S, g), AddsUp(f, T, h),
         NEW s \in SUBSET S, s \in SUBSET T
  PROVE  g[s] = h[s]
<1> DEFINE Bad == {t \in SUBSET s : g[t] # h[t]}
<1> SUFFICES ASSUME Bad # {} PROVE FALSE
  OBVIOUS
<1>1. IsFiniteSet(s)
  BY FS_Subset
<1>2. PICK t \in Bad : \A x \in t : t \ {x} \notin Bad
  BY <1>1, SmallestSet
<1>3. t \in SUBSET S /\ t \in SUBSET T /\ t \in SUBSET s
  OBVIOUS
<1>4. /\ g[t] = IF t = {} THEN 0 ELSE f[Some(t)] + g[t \ {Some(t)}]
      /\ h[t] = IF t = {} THEN 0 ELSE f[Some(t)] + h[t \ {Some(t)}]
  BY <1>3 DEF AddsUp
<1>5. CASE t = {}
  BY <1>4, <1>5
<1>6. CASE t # {}
  <2>1. Some(t) \in t
    BY <1>6, SomeIsOne
  <2>2. g[t \ {Some(t)}] = h[t \ {Some(t)}]
    BY <1>2, <2>1
  <2> QED BY <1>4, <1>6, <2>2
<1> QED BY <1>5, <1>6

\* A function that adds up like the sum is the sum: what identifies a use of MapThenSumSet().
LEMMA SumIs ==
  ASSUME NEW D, NEW f \in [D -> Int], NEW S \in SUBSET D, IsFiniteSet(S), NEW g, AddsUp(f, S, g)
  PROVE  SumOf(f, S) = g[S] /\ g[S] \in Int
<1> DEFINE h == CHOOSE h : h = [s \in SUBSET S |-> IF s = {} THEN 0
                                ELSE f[CHOOSE x \in s : TRUE] + h[s \ {CHOOSE x \in s : TRUE}]]
<1>1. SumOf(f, S) = h[S]
  BY DEF SumOf, MapThenSumSet, MapThenFoldSet
<1>2. g = [s \in SUBSET S |-> IF s = {} THEN 0
           ELSE f[CHOOSE x \in s : TRUE] + g[s \ {CHOOSE x \in s : TRUE}]]
  BY DEF AddsUp, Some
<1>3. h = [s \in SUBSET S |-> IF s = {} THEN 0
           ELSE f[CHOOSE x \in s : TRUE] + h[s \ {CHOOSE x \in s : TRUE}]]
  BY <1>2
<1>4. AddsUp(f, S, h)
  BY <1>3 DEF AddsUp, Some
<1> HIDE DEF h
<1>5. PICK k \in [SUBSET S -> Int] : AddsUp(f, S, k)
  BY SumExists
<1>6. h[S] = g[S] /\ k[S] = g[S]
  BY <1>4, <1>5, SumsAgree
<1> QED BY <1>1, <1>5, <1>6

-----------------------------------------------------------------------------
(* What a sum is.                                                          *)

LEMMA SumOfNone == ASSUME NEW f PROVE SumOf(f, {}) = 0
<1>1. IsFiniteSet({}) /\ {} \in SUBSET {}
  BY FS_EmptySet
<1> DEFINE f0 == [x \in {} |-> 0]
<1> f0 \in [{} -> Int]
  OBVIOUS
<1> HIDE DEF f0
<1>2. PICK g : AddsUp(f0, {}, g)
  BY <1>1, SumExists
<1>3. g = [s \in SUBSET {} |-> 0]
  BY <1>2 DEF AddsUp
<1>4. AddsUp(f, {}, g)
  BY <1>3 DEF AddsUp
<1> DEFINE h == CHOOSE h : h = [s \in SUBSET {} |-> IF s = {} THEN 0
                                ELSE f[CHOOSE x \in s : TRUE] + h[s \ {CHOOSE x \in s : TRUE}]]
<1>5. SumOf(f, {}) = h[{}]
  BY DEF SumOf, MapThenSumSet, MapThenFoldSet
<1>6. g = [s \in SUBSET {} |-> IF s = {} THEN 0
           ELSE f[CHOOSE x \in s : TRUE] + g[s \ {CHOOSE x \in s : TRUE}]]
  BY <1>4 DEF AddsUp, Some
<1>7. h = [s \in SUBSET {} |-> IF s = {} THEN 0
           ELSE f[CHOOSE x \in s : TRUE] + h[s \ {CHOOSE x \in s : TRUE}]]
  BY <1>6
<1> HIDE DEF h
<1> QED BY <1>5, <1>7

LEMMA SumIsInteger ==
  ASSUME NEW D, NEW f \in [D -> Int], NEW S \in SUBSET D, IsFiniteSet(S)
  PROVE  SumOf(f, S) \in Int
<1>1. PICK g : AddsUp(f, S, g)
  BY SumExists
<1> QED BY <1>1, SumIs

LEMMA SumTakesSome ==
  ASSUME NEW D, NEW f \in [D -> Int], NEW S \in SUBSET D, IsFiniteSet(S), S # {}
  PROVE  SumOf(f, S) = f[Some(S)] + SumOf(f, S \ {Some(S)})
<1> DEFINE T == S \ {Some(S)}
<1>1. PICK g : AddsUp(f, S, g)
  BY SumExists
<1>2. IsFiniteSet(T) /\ T \in SUBSET S /\ T \in SUBSET D
  BY FS_Subset
<1>3. PICK h : AddsUp(f, T, h)
  BY <1>2, SumExists
<1>4. g[T] = h[T]
  BY <1>1, <1>2, <1>3, SumsAgree
<1>5. SumOf(f, S) = g[S] /\ SumOf(f, T) = h[T]
  BY <1>1, <1>2, <1>3, SumIs
<1>6. g[S] = f[Some(S)] + g[T]
  BY <1>1 DEF AddsUp
<1> QED BY <1>4, <1>5, <1>6

\* Whichever element is taken out, the rest of the sum is the sum of the rest.
LEMMA SumTakesAny ==
  ASSUME NEW D, NEW f \in [D -> Int], NEW S \in SUBSET D, IsFiniteSet(S), NEW y \in S
  PROVE  SumOf(f, S) = f[y] + SumOf(f, S \ {y})
<1> DEFINE Bad == {T \in SUBSET S : \E x \in T : SumOf(f, T) # f[x] + SumOf(f, T \ {x})}
<1> SUFFICES ASSUME Bad # {} PROVE FALSE
  OBVIOUS
<1>1. PICK T \in Bad : \A x \in T : T \ {x} \notin Bad
  BY SmallestSet
<1>2. PICK x \in T : SumOf(f, T) # f[x] + SumOf(f, T \ {x})
  OBVIOUS
<1> DEFINE c == Some(T)
<1>3. c \in T
  BY <1>2, SomeIsOne
<1>4. \A t \in SUBSET T : t \in SUBSET S /\ t \in SUBSET D /\ IsFiniteSet(t) /\ SumOf(f, t) \in Int
  BY FS_Subset, SumIsInteger
<1>5. SumOf(f, T) = f[c] + SumOf(f, T \ {c})
  BY <1>3, <1>4, SumTakesSome
<1>6. x # c
  BY <1>2, <1>5
<1>7. SumOf(f, T \ {c}) = f[x] + SumOf(f, (T \ {c}) \ {x})
  BY <1>1, <1>3, <1>6
<1>8. SumOf(f, T \ {x}) = f[c] + SumOf(f, (T \ {x}) \ {c})
  BY <1>1, <1>3, <1>6
<1>9. (T \ {c}) \ {x} = (T \ {x}) \ {c}
  OBVIOUS
<1>10. f[x] \in Int /\ f[c] \in Int /\ SumOf(f, (T \ {x}) \ {c}) \in Int
  BY <1>3, <1>4
<1>11. SumOf(f, T) = f[c] + (f[x] + SumOf(f, (T \ {x}) \ {c}))
  BY <1>5, <1>7, <1>9
<1>12. f[x] + SumOf(f, T \ {x}) = f[x] + (f[c] + SumOf(f, (T \ {x}) \ {c}))
  BY <1>8
<1> HIDE DEF c, Bad
<1> QED BY <1>2, <1>10, <1>11, <1>12

-----------------------------------------------------------------------------
(* Laws of sums.                                                           *)

LEMMA SumWithOneMore ==
  ASSUME NEW D, NEW f \in [D -> Int], NEW S \in SUBSET D, IsFiniteSet(S), NEW y \in D, y \notin S
  PROVE  SumOf(f, S \union {y}) = f[y] + SumOf(f, S)
<1>1. IsFiniteSet(S \union {y}) /\ S \union {y} \in SUBSET D /\ (S \union {y}) \ {y} = S
  BY FS_AddElement
<1> QED BY <1>1, SumTakesAny

\* Only the values on the set matter.
LEMMA SumOfSame ==
  ASSUME NEW D, NEW f \in [D -> Int], NEW E, NEW h \in [E -> Int], NEW S \in SUBSET D, S \in SUBSET E,
         IsFiniteSet(S), \A x \in S : f[x] = h[x]
  PROVE  SumOf(f, S) = SumOf(h, S)
<1>1. PICK g : AddsUp(f, S, g)
  BY SumExists
<1>2. \A s \in SUBSET S : s # {} => f[Some(s)] = h[Some(s)]
  BY SomeIsOne
<1>3. g = [s \in SUBSET S |-> IF s = {} THEN 0 ELSE f[Some(s)] + g[s \ {Some(s)}]]
  BY <1>1 DEF AddsUp
<1>4. g = [s \in SUBSET S |-> IF s = {} THEN 0 ELSE h[Some(s)] + g[s \ {Some(s)}]]
  BY <1>2, <1>3
<1>5. AddsUp(h, S, g)
  BY <1>4 DEF AddsUp
<1> QED BY <1>1, <1>5, SumIs

\* Summands that are no smaller make no smaller a sum.
LEMMA SumIsMonotone ==
  ASSUME NEW D, NEW f \in [D -> Int], NEW h \in [D -> Int], NEW S \in SUBSET D, IsFiniteSet(S),
         \A x \in S : f[x] <= h[x]
  PROVE  SumOf(f, S) <= SumOf(h, S)
<1> DEFINE Bad == {T \in SUBSET S : ~(SumOf(f, T) <= SumOf(h, T))}
<1> SUFFICES ASSUME Bad # {} PROVE FALSE
  OBVIOUS
<1>1. PICK T \in Bad : \A x \in T : T \ {x} \notin Bad
  BY SmallestSet
<1>2. T # {}
  BY <1>1, SumOfNone
<1>3. PICK x : x \in T
  BY <1>2
<1>4. T \in SUBSET D /\ IsFiniteSet(T) /\ T \ {x} \in SUBSET D /\ IsFiniteSet(T \ {x})
  BY FS_Subset
<1>5. SumOf(f, T) = f[x] + SumOf(f, T \ {x}) /\ SumOf(h, T) = h[x] + SumOf(h, T \ {x})
  BY <1>3, <1>4, SumTakesAny
<1>6. SumOf(f, T \ {x}) \in Int /\ SumOf(h, T \ {x}) \in Int /\ f[x] \in Int /\ h[x] \in Int
  BY <1>3, <1>4, SumIsInteger
<1>7. f[x] <= h[x] /\ SumOf(f, T \ {x}) <= SumOf(h, T \ {x})
  BY <1>1, <1>3
<1>8. ~(SumOf(f, T) <= SumOf(h, T))
  BY <1>1
<1> HIDE DEF Bad
<1> QED BY <1>5, <1>6, <1>7, <1>8

LEMMA SumIsNatural ==
  ASSUME NEW D, NEW f \in [D -> Int], NEW S \in SUBSET D, IsFiniteSet(S), \A x \in S : f[x] >= 0
  PROVE  SumOf(f, S) \in Nat
<1> DEFINE Bad == {T \in SUBSET S : ~(SumOf(f, T) \in Nat)}
<1> SUFFICES ASSUME Bad # {} PROVE FALSE
  OBVIOUS
<1>1. PICK T \in Bad : \A x \in T : T \ {x} \notin Bad
  BY SmallestSet
<1>2. T # {}
  BY <1>1, SumOfNone
<1>3. PICK x : x \in T
  BY <1>2
<1>4. T \in SUBSET D /\ IsFiniteSet(T)
  BY FS_Subset
<1>5. SumOf(f, T) = f[x] + SumOf(f, T \ {x})
  BY <1>3, <1>4, SumTakesAny
<1>6. SumOf(f, T \ {x}) \in Nat /\ f[x] \in Int /\ f[x] >= 0
  BY <1>1, <1>3
<1>7. SumOf(f, T) \notin Nat
  BY <1>1
<1> HIDE DEF Bad
<1> QED BY <1>5, <1>6, <1>7

\* One summand changes.
LEMMA SumWithOneChanged ==
  ASSUME NEW D, NEW f \in [D -> Int], NEW S \in SUBSET D, IsFiniteSet(S), NEW y \in S, NEW h \in [D -> Int],
         \A x \in S : x # y => h[x] = f[x]
  PROVE  SumOf(h, S) = SumOf(f, S) + (h[y] - f[y])
<1>1. S \ {y} \in SUBSET D /\ IsFiniteSet(S \ {y})
  BY FS_Subset
<1>2. SumOf(h, S \ {y}) = SumOf(f, S \ {y})
  BY <1>1, SumOfSame
<1>3. SumOf(h, S) = h[y] + SumOf(h, S \ {y}) /\ SumOf(f, S) = f[y] + SumOf(f, S \ {y})
  BY SumTakesAny
<1>4. SumOf(f, S \ {y}) \in Int /\ f[y] \in Int /\ h[y] \in Int
  BY <1>1, SumIsInteger
<1> QED BY <1>2, <1>3, <1>4

\* The sum of sums.
LEMMA SumOfSums ==
  ASSUME NEW D, NEW f \in [D -> Int], NEW h \in [D -> Int], NEW k \in [D -> Int], NEW S \in SUBSET D,
         IsFiniteSet(S), \A x \in S : k[x] = f[x] + h[x]
  PROVE  SumOf(k, S) = SumOf(f, S) + SumOf(h, S)
<1> DEFINE Bad == {T \in SUBSET S : SumOf(k, T) # SumOf(f, T) + SumOf(h, T)}
<1> SUFFICES ASSUME Bad # {} PROVE FALSE
  OBVIOUS
<1>1. PICK T \in Bad : \A x \in T : T \ {x} \notin Bad
  BY SmallestSet
<1>2. T # {}
  BY <1>1, SumOfNone
<1>3. PICK x : x \in T
  BY <1>2
<1>4. T \in SUBSET D /\ IsFiniteSet(T) /\ T \ {x} \in SUBSET D /\ IsFiniteSet(T \ {x})
  BY FS_Subset
<1>5. /\ SumOf(f, T) = f[x] + SumOf(f, T \ {x}) /\ SumOf(h, T) = h[x] + SumOf(h, T \ {x})
      /\ SumOf(k, T) = k[x] + SumOf(k, T \ {x})
  BY <1>3, <1>4, SumTakesAny
<1>6. /\ SumOf(f, T \ {x}) \in Int /\ SumOf(h, T \ {x}) \in Int /\ f[x] \in Int /\ h[x] \in Int
      /\ k[x] = f[x] + h[x]
  BY <1>3, <1>4, SumIsInteger
<1>7. SumOf(k, T \ {x}) = SumOf(f, T \ {x}) + SumOf(h, T \ {x})
  BY <1>1, <1>3
<1>8. SumOf(k, T) # SumOf(f, T) + SumOf(h, T)
  BY <1>1
<1> HIDE DEF Bad
<1> QED BY <1>5, <1>6, <1>7, <1>8

\* Nothing but zeros.
LEMMA SumOfZeros ==
  ASSUME NEW D, NEW f \in [D -> Int], NEW S \in SUBSET D, IsFiniteSet(S), \A x \in S : f[x] = 0
  PROVE  SumOf(f, S) = 0
<1> DEFINE Bad == {T \in SUBSET S : SumOf(f, T) # 0}
<1> SUFFICES ASSUME Bad # {} PROVE FALSE
  OBVIOUS
<1>1. PICK T \in Bad : \A x \in T : T \ {x} \notin Bad
  BY SmallestSet
<1>2. T # {}
  BY <1>1, SumOfNone
<1>3. PICK x : x \in T
  BY <1>2
<1>4. T \in SUBSET D /\ IsFiniteSet(T)
  BY FS_Subset
<1>5. SumOf(f, T) = f[x] + SumOf(f, T \ {x})
  BY <1>3, <1>4, SumTakesAny
<1>6. SumOf(f, T \ {x}) = 0 /\ f[x] = 0 /\ SumOf(f, T) # 0
  BY <1>1, <1>3
<1> HIDE DEF Bad
<1> QED BY <1>5, <1>6

\* Two sets with nothing in common.
LEMMA SumOfUnion ==
  ASSUME NEW D, NEW f \in [D -> Int], NEW S \in SUBSET D, IsFiniteSet(S), NEW T \in SUBSET D, IsFiniteSet(T),
         S \intersect T = {}
  PROVE  SumOf(f, S \union T) = SumOf(f, S) + SumOf(f, T)
<1> DEFINE Bad == {U \in SUBSET T : SumOf(f, S \union U) # SumOf(f, S) + SumOf(f, U)}
<1> SUFFICES ASSUME Bad # {} PROVE FALSE
  OBVIOUS
<1>1. PICK U \in Bad : \A x \in U : U \ {x} \notin Bad
  BY SmallestSet
<1>2. U # {}
  <2>1. SumOf(f, S \union {}) = SumOf(f, S) /\ SumOf(f, {}) = 0 /\ SumOf(f, S) \in Int
    BY SumOfNone, SumIsInteger
  <2> QED BY <2>1
<1>3. PICK x : x \in U
  BY <1>2
<1>4. /\ U \in SUBSET D /\ IsFiniteSet(U) /\ U \ {x} \in SUBSET D /\ IsFiniteSet(U \ {x})
      /\ S \union U \in SUBSET D /\ IsFiniteSet(S \union U) /\ (S \union U) \ {x} = S \union (U \ {x})
  BY <1>3, FS_Subset, FS_Union
<1>5. SumOf(f, U) = f[x] + SumOf(f, U \ {x}) /\ SumOf(f, S \union U) = f[x] + SumOf(f, S \union (U \ {x}))
  BY <1>3, <1>4, SumTakesAny
<1>6. SumOf(f, S \union (U \ {x})) = SumOf(f, S) + SumOf(f, U \ {x})
  BY <1>1, <1>3
<1>7. SumOf(f, S) \in Int /\ SumOf(f, U \ {x}) \in Int /\ f[x] \in Int
  BY <1>3, <1>4, SumIsInteger
<1>8. SumOf(f, S \union U) # SumOf(f, S) + SumOf(f, U)
  BY <1>1
<1> HIDE DEF Bad
<1> QED BY <1>5, <1>6, <1>7, <1>8

\* Summing group by group: what the groups in G add up to is what their members add up to.
LEMMA SumByGroups ==
  ASSUME NEW D, NEW f \in [D -> Int], NEW S \in SUBSET D, IsFiniteSet(S), NEW E, NEW of \in [D -> E],
         NEW G \in SUBSET E, IsFiniteSet(G),
         NEW h \in [E -> Int], \A e \in G : h[e] = SumOf(f, {x \in S : of[x] = e})
  PROVE  SumOf(h, G) = SumOf(f, {x \in S : of[x] \in G})
<1> DEFINE Members(H) == {x \in S : of[x] \in H}
           Bad == {H \in SUBSET G : SumOf(h, H) # SumOf(f, Members(H))}
<1> SUFFICES ASSUME Bad # {} PROVE FALSE
  OBVIOUS
<1>1. PICK H \in Bad : \A e \in H : H \ {e} \notin Bad
  BY SmallestSet
<1>2. \A K : Members(K) \in SUBSET S
  OBVIOUS
<1>3. H # {}
  <2>1. Members({}) = {}
    OBVIOUS
  <2> QED BY <1>1, <2>1, SumOfNone
<1>4. PICK e : e \in H
  BY <1>3
<1>5. H \in SUBSET E /\ IsFiniteSet(H)
  BY FS_Subset
<1>6. SumOf(h, H) = h[e] + SumOf(h, H \ {e})
  BY <1>4, <1>5, SumTakesAny
<1>7. SumOf(h, H \ {e}) = SumOf(f, Members(H \ {e}))
  BY <1>1, <1>4
<1>8. h[e] = SumOf(f, {x \in S : of[x] = e})
  BY <1>4
<1>9. /\ Members(H) = {x \in S : of[x] = e} \union Members(H \ {e})
      /\ {x \in S : of[x] = e} \intersect Members(H \ {e}) = {}
  BY <1>4
<1>10. /\ {x \in S : of[x] = e} \in SUBSET D /\ IsFiniteSet({x \in S : of[x] = e})
       /\ Members(H \ {e}) \in SUBSET D /\ IsFiniteSet(Members(H \ {e}))
  BY <1>2, FS_Subset
<1>11. SumOf(f, Members(H)) = SumOf(f, {x \in S : of[x] = e}) + SumOf(f, Members(H \ {e}))
  BY <1>9, <1>10, SumOfUnion
<1>12. SumOf(h, H) # SumOf(f, Members(H))
  BY <1>1
<1> HIDE DEF Bad, Members
<1> QED BY <1>6, <1>7, <1>8, <1>11, <1>12

-----------------------------------------------------------------------------
(* Order: every finite set has a sequence in the order of a relation.      *)

\* A relation that puts each pair of a set in one order.
Orders(R, S) ==
  /\ \A x, y \in S : x # y => <<x, y>> \in R \/ <<y, x>> \in R
  /\ \A x, y, z \in S : <<x, y>> \in R /\ <<y, z>> \in R => <<x, z>> \in R
InOrder(R, s) == \A i, j \in DOMAIN s : i < j => <<s[i], s[j]>> \in R

LEMMA FiniteHasLast ==
  ASSUME NEW S, IsFiniteSet(S), S # {}, NEW R, Orders(R, S)
  PROVE  \E m \in S : \A x \in S : x # m => <<x, m>> \in R
<1> DEFINE Bad == {T \in SUBSET S : T # {} /\ ~ \E m \in T : \A x \in T : x # m => <<x, m>> \in R}
<1> SUFFICES ASSUME Bad # {} PROVE FALSE
  OBVIOUS
<1>1. PICK T \in Bad : \A x \in T : T \ {x} \notin Bad
  BY SmallestSet
<1>2. PICK x \in T : TRUE
  BY <1>1
<1>3. CASE T \ {x} = {}
  BY <1>1, <1>2, <1>3
<1>4. CASE T \ {x} # {}
  <2>1. PICK m \in T \ {x} : \A y \in T \ {x} : y # m => <<y, m>> \in R
    BY <1>1, <1>2, <1>4
  <2>2. CASE <<x, m>> \in R
    BY <1>1, <2>1, <2>2
  <2>3. CASE <<m, x>> \in R
    <3>1. \A y \in T : y # x => <<y, x>> \in R
      BY <1>1, <1>2, <2>1, <2>3 DEF Orders
    <3> QED BY <1>1, <1>2, <3>1
  <2> QED BY <1>1, <1>2, <2>1, <2>2, <2>3 DEF Orders
<1> QED BY <1>3, <1>4

LEMMA SequencesOf ==
  ASSUME NEW S, IsFiniteSet(S), NEW s \in SetToSeqs(S)
  PROVE  /\ s \in Seq(S) /\ Len(s) = Cardinality(S) /\ DOMAIN s = 1 .. Cardinality(S)
         /\ Cardinality(S) \in Nat /\ (S # {} => Cardinality(S) \in Nat \ {0})
<1>1. Cardinality(S) \in Nat /\ (S # {} => Cardinality(S) # 0)
  BY FS_CardinalityType, FS_EmptySet
<1>2. s \in [1 .. Cardinality(S) -> S]
  BY DEF SetToSeqs
<1> QED BY <1>1, <1>2

LEMMA SortedExists ==
  ASSUME NEW S, IsFiniteSet(S), NEW R, Orders(R, S)
  PROVE  \E s \in SetToSeqs(S) : InOrder(R, s)
<1> DEFINE Bad == {T \in SUBSET S : ~ \E s \in SetToSeqs(T) : InOrder(R, s)}
<1> SUFFICES ASSUME Bad # {} PROVE FALSE
  OBVIOUS
<1>1. PICK T \in Bad : \A x \in T : T \ {x} \notin Bad
  BY SmallestSet
<1>2. IsFiniteSet(T) /\ Orders(R, T)
  BY <1>1, FS_Subset DEF Orders
<1>3. CASE T = {}
  <2>1. Cardinality({}) = 0
    BY FS_EmptySet
  <2>2. <<>> \in SetToSeqs({}) /\ InOrder(R, <<>>)
    BY <2>1 DEF SetToSeqs, InOrder
  <2> QED BY <1>1, <1>3, <2>2
<1>4. CASE T # {}
  <2>1. PICK m \in T : \A x \in T : x # m => <<x, m>> \in R
    BY <1>2, <1>4, FiniteHasLast
  <2> DEFINE U == T \ {m}
             n == Cardinality(U)
  <2>2. /\ IsFiniteSet(U) /\ n \in Nat /\ Cardinality(T) = n + 1
    <3>1. IsFiniteSet(U) /\ T = U \union {m} /\ m \notin U
      BY <1>2, <2>1, FS_Subset
    <3> QED BY <3>1, FS_AddElement, FS_CardinalityType
  <2>3. PICK s \in SetToSeqs(U) : InOrder(R, s)
    BY <1>1, <2>1
  <2>4. s \in [1 .. n -> U] /\ \A i, j \in 1 .. n : i # j => s[i] # s[j]
    BY <2>3 DEF SetToSeqs
  <2> DEFINE t == [i \in 1 .. n + 1 |-> IF i = n + 1 THEN m ELSE s[i]]
  <2> HIDE DEF n
  <2>5. \A i \in 1 .. n + 1 : i # n + 1 => i \in 1 .. n
    BY <2>2
  <2>6. t \in SetToSeqs(T)
    <3>1. t \in [1 .. n + 1 -> T]
      BY <2>1, <2>4, <2>5
    <3>2. \A i, j \in 1 .. n + 1 : i # j => t[i] # t[j]
      BY <2>4, <2>5
    <3> HIDE DEF t
    <3> QED BY <2>2, <3>1, <3>2 DEF SetToSeqs
  <2>7. InOrder(R, t)
    <3>1. ASSUME NEW i \in 1 .. n + 1, NEW j \in 1 .. n + 1, i < j PROVE <<t[i], t[j]>> \in R
      <4>1. i \in 1 .. n /\ t[i] = s[i] /\ s[i] \in T /\ s[i] # m
        BY <2>2, <2>4, <3>1
      <4>2. CASE j = n + 1
        BY <2>1, <4>1, <4>2
      <4>3. CASE j # n + 1
        <5>1. j \in 1 .. n /\ t[j] = s[j]
          BY <2>5, <3>1, <4>3
        <5> QED BY <2>3, <2>4, <3>1, <4>1, <5>1 DEF InOrder
      <4> QED BY <4>2, <4>3
    <3> QED BY <3>1 DEF InOrder
  <2> QED BY <1>1, <2>6, <2>7
<1> QED BY <1>3, <1>4

-----------------------------------------------------------------------------
(* Recursion: a function given by its first value and its steps exists.    *)

\* A function that is given by its first value and the step from each value to the next.
Steps(N, first, next, g) == g = [n \in 1 .. N |-> IF n = 1 THEN first ELSE next[n][g[n - 1]]]

LEMMA StepsExist ==
  ASSUME NEW S, NEW N \in Nat, NEW first \in S, NEW next \in [1 .. N -> [S -> S]], NEW n \in Nat, n <= N
  PROVE  \E g \in [1 .. n -> S] : Steps(n, first, next, g)
<1> DEFINE Bad == {k \in 0 .. N : ~ \E g \in [1 .. k -> S] : Steps(k, first, next, g)}
<1> SUFFICES ASSUME Bad # {} PROVE FALSE
  OBVIOUS
<1>1. Bad \in SUBSET Nat
  OBVIOUS
<1> HIDE DEF Bad
<1>2. PICK k \in Bad : \A m \in Bad : k <= m
  BY <1>1, SmallestNumber
<1>3. k \in 0 .. N /\ ~ \E g \in [1 .. k -> S] : Steps(k, first, next, g)
  BY <1>2 DEF Bad
<1>4. CASE k = 0
  <2>1. 1 .. 0 = {}
    OBVIOUS
  <2> DEFINE g == [m \in {} |-> first]
  <2>2. g \in [1 .. 0 -> S] /\ Steps(0, first, next, g)
    BY <2>1 DEF Steps
  <2> QED BY <1>3, <1>4, <2>2
<1>5. CASE k # 0
  <2>1. k - 1 \in 0 .. N /\ k \in 1 .. N /\ ~(k <= k - 1)
    BY <1>3, <1>5
  <2>2. k - 1 \notin Bad
    BY <1>2, <2>1
  <2>3. PICK g \in [1 .. k - 1 -> S] : Steps(k - 1, first, next, g)
    BY <2>1, <2>2 DEF Bad
  <2> DEFINE last == IF k = 1 THEN first ELSE next[k][g[k - 1]]
             h == [m \in 1 .. k |-> IF m = k THEN last ELSE g[m]]
  <2>4. last \in S
    <3>1. CASE k = 1
      BY <3>1
    <3>2. CASE k # 1
      <4>1. k - 1 \in 1 .. k - 1
        BY <2>1, <3>2
      <4>2. g[k - 1] \in S
        BY <2>3, <4>1
      <4> QED BY <2>1, <3>2, <4>2
    <3> QED BY <3>1, <3>2
  <2> HIDE DEF last
  <2>5. h \in [1 .. k -> S]
    <3>1. \A m \in 1 .. k : m # k => m \in 1 .. k - 1
      BY <2>1
    <3> QED BY <2>3, <2>4, <3>1
  <2>6. ASSUME NEW m \in 1 .. k
        PROVE  h[m] = IF m = 1 THEN first ELSE next[m][h[m - 1]]
    <3>1. CASE m = k
      <4>1. k # 1 => k - 1 \in 1 .. k /\ k - 1 # k
        BY <2>1
      <4>2. k # 1 => h[k - 1] = g[k - 1]
        BY <4>1
      <4> QED BY <3>1, <4>2 DEF last
    <3>2. CASE m # k
      <4>1. m \in 1 .. k - 1 /\ (m # 1 => m - 1 \in 1 .. k /\ m - 1 # k)
        BY <2>1, <3>2
      <4>2. g[m] = IF m = 1 THEN first ELSE next[m][g[m - 1]]
        BY <2>3, <4>1 DEF Steps
      <4>3. h[m] = g[m] /\ (m # 1 => h[m - 1] = g[m - 1])
        BY <3>2, <4>1
      <4> QED BY <4>2, <4>3
    <3> QED BY <3>1, <3>2
  <2>7. Steps(k, first, next, h)
    <3>1. h = [m \in 1 .. k |-> h[m]]
      OBVIOUS
    <3> HIDE DEF h
    <3> QED BY <2>6, <3>1 DEF Steps
  <2> QED BY <1>3, <2>5, <2>7
<1> QED BY <1>4, <1>5
=============================================================================
