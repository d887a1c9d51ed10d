---------------------------- MODULE FiniteSums ----------------------------
(***************************************************************************)
(* Sums over finite sets, as the models add up amounts, stars and sizes:   *)
(* what does not depend on the order in which the elements are taken.      *)
(***************************************************************************)
EXTENDS Integers, FiniteSets, Functions, FiniteSetTheorems, WellFoundedInduction, TLAPS

-----------------------------------------------------------------------------
(* Sums of a function over a finite set (Functions!SumFunctionOnSet): they *)
(* do not depend on the order in which the elements are taken.             *)

\* Of the subsets of a finite set there is a smallest one of any kind that occurs.
LEMMA SmallestSet ==
  ASSUME NEW S, IsFiniteSet(S), NEW Bad, Bad \subseteq SUBSET S, Bad # {}
  PROVE  \E T \in Bad : \A U \in Bad : U \subseteq T => U = T
<1>1. Bad \subseteq FiniteSubsetsOf(S)
  <2> SUFFICES ASSUME NEW T \in Bad PROVE T \in FiniteSubsetsOf(S)
    OBVIOUS
  <2>1. T \subseteq S /\ IsFiniteSet(T)
    BY FS_Subset
  <2> QED
    BY <2>1 DEF FiniteSubsetsOf
<1>2. PICK T \in Bad : \A U \in Bad : <<U, T>> \notin StrictSubsetOrdering(S)
  BY <1>1, FS_StrictSubsetOrderingWellFounded, WFMin
<1>3. \A U \in Bad : U \subseteq T => U = T
  BY <1>2, <1>1 DEF StrictSubsetOrdering
<1> QED
  BY <1>3

\* The recursion behind the sum: it goes by the elements that CHOOSE takes.
Unfolds(f, S, it) ==
    it = [s \in SUBSET S |->
            IF s = {} THEN 0 ELSE LET x == CHOOSE x \in s : TRUE IN f[x] + it[s \ {x}]]

LEMMA SumIsUnfolded ==
  ASSUME NEW f, NEW S, NEW it, Unfolds(f, S, it)
  PROVE  \E h : Unfolds(f, S, h) /\ SumFunctionOnSet(f, S) = h[S]
<1> DEFINE h == CHOOSE h : Unfolds(f, S, h)
<1>1. SumFunctionOnSet(f, S) = h[S]
  BY DEF SumFunctionOnSet, FoldFunctionOnSet, MapThenFoldSet, Unfolds
<1>2. Unfolds(f, S, h)
  OBVIOUS
<1> QED
  BY <1>1, <1>2

\* There is one such recursion.
LEMMA UnfoldsOnce ==
  ASSUME NEW f, NEW S, IsFiniteSet(S), NEW T \in SUBSET S,
         NEW g, NEW h, Unfolds(f, S, g), Unfolds(f, T, h)
  PROVE  \A s \in SUBSET T : g[s] = h[s]
<1> DEFINE Bad == {s \in SUBSET T : g[s] # h[s]}
<1> SUFFICES ASSUME Bad # {} PROVE FALSE
  OBVIOUS
<1>1. PICK s \in Bad : \A u \in Bad : u \subseteq s => u = s
  <2>1. Bad \subseteq SUBSET S
    OBVIOUS
  <2> HIDE DEF Bad
  <2> QED
    BY <2>1, SmallestSet
<1>2. s # {}
  BY DEF Unfolds
<1> DEFINE x == CHOOSE x \in s : TRUE
<1>3. x \in s
  BY <1>2
<1>4. g[s] = f[x] + g[s \ {x}] /\ h[s] = f[x] + h[s \ {x}]
  <2>1. s \in SUBSET T /\ s \in SUBSET S
    OBVIOUS
  <2>2. g[s] = f[x] + g[s \ {x}]
    BY <2>1, <1>2 DEF Unfolds
  <2>3. h[s] = f[x] + h[s \ {x}]
    BY <2>1, <1>2 DEF Unfolds
  <2> QED
    BY <2>2, <2>3
<1>5. s \ {x} \notin Bad
  BY <1>1, <1>3
<1>6. g[s \ {x}] = h[s \ {x}]
  BY <1>5
<1> QED
  BY <1>4, <1>6

\* The recursion exists, and so a sum is its chosen element and the sum of the others.
Chosen(s) == CHOOSE x \in s : TRUE

SumsUp(f, s) ==
    SumFunctionOnSet(f, s) =
        IF s = {} THEN 0 ELSE f[Chosen(s)] + SumFunctionOnSet(f, s \ {Chosen(s)})

LEMMA SumByChoice ==
  ASSUME NEW f, NEW S, IsFiniteSet(S)
  PROVE  SumsUp(f, S)
<1> DEFINE Bad == {s \in SUBSET S : ~SumsUp(f, s)}
<1> SUFFICES ASSUME Bad # {} PROVE FALSE
  BY DEF Bad
<1>1. PICK s \in Bad : \A u \in Bad : u \subseteq s => u = s
  <2>1. Bad \subseteq SUBSET S
    OBVIOUS
  <2> HIDE DEF Bad
  <2> QED
    BY <2>1, SmallestSet
<1>2. \A u \in SUBSET s : u # s => SumsUp(f, u)
  BY <1>1
<1>3. IsFiniteSet(s) /\ s \in SUBSET S
  BY FS_Subset
<1> DEFINE G == [u \in SUBSET s |->
                   IF u = {} THEN 0 ELSE f[Chosen(u)] + SumFunctionOnSet(f, u \ {Chosen(u)})]
<1>4. \A u \in SUBSET s : u # s => G[u] = SumFunctionOnSet(f, u)
  BY <1>2 DEF SumsUp
<1>5. \A u \in SUBSET s : u # {} => u \ {Chosen(u)} \in SUBSET s /\ u \ {Chosen(u)} # s
  BY DEF Chosen
<1>6. Unfolds(f, s, G)
  <2>1. \A u \in SUBSET s : u # {} => G[u \ {Chosen(u)}] = SumFunctionOnSet(f, u \ {Chosen(u)})
    BY <1>4, <1>5
  <2>2. G = [u \in SUBSET s |-> IF u = {} THEN 0 ELSE f[Chosen(u)] + G[u \ {Chosen(u)}]]
    BY <2>1
  <2> HIDE DEF G
  <2> QED
    BY <2>2 DEF Unfolds, Chosen
<1>7. PICK h : Unfolds(f, s, h) /\ SumFunctionOnSet(f, s) = h[s]
  <2> HIDE DEF G
  <2> QED
    BY <1>6, SumIsUnfolded
<1>8. h[s] = G[s]
  <2> HIDE DEF G
  <2> QED
    BY <1>6, <1>7, <1>3, UnfoldsOnce
<1>9. SumsUp(f, s)
  BY <1>7, <1>8 DEF SumsUp
<1> QED
  BY <1>9, <1>1

\* An empty sum is zero, a sum of integers is one, and any element may be taken first.
LEMMA SumOfNone == ASSUME NEW f PROVE SumFunctionOnSet(f, {}) = 0
  BY SumByChoice, FS_EmptySet DEF SumsUp

LEMMA SumWithout ==
  ASSUME NEW f, NEW S, IsFiniteSet(S), \A x \in S : f[x] \in Int
  PROVE  /\ SumFunctionOnSet(f, S) \in Int
         /\ \A x \in S : SumFunctionOnSet(f, S) = f[x] + SumFunctionOnSet(f, S \ {x})
<1> DEFINE Good(s) == /\ SumFunctionOnSet(f, s) \in Int
                      /\ \A x \in s : SumFunctionOnSet(f, s) = f[x] + SumFunctionOnSet(f, s \ {x})
           Bad == {s \in SUBSET S : ~Good(s)}
<1> SUFFICES ASSUME Bad # {} PROVE FALSE
  BY DEF Bad
<1>1. PICK s \in Bad : \A u \in Bad : u \subseteq s => u = s
  <2>1. Bad \subseteq SUBSET S
    OBVIOUS
  <2> HIDE DEF Bad
  <2> QED
    BY <2>1, SmallestSet
<1>2. s \in SUBSET S /\ ~Good(s)
  OBVIOUS
<1>3. \A u \in SUBSET s : u # s => Good(u)
  BY <1>1
<1> HIDE DEF Bad
<1>4. \A u \in SUBSET s : SumsUp(f, u)
  <2> SUFFICES ASSUME NEW u \in SUBSET s PROVE SumsUp(f, u)
    OBVIOUS
  <2>1. IsFiniteSet(u)
    BY <1>2, FS_Subset
  <2> QED
    BY <2>1, SumByChoice
<1>5. s # {}
  <2> SUFFICES ASSUME s = {} PROVE FALSE
    OBVIOUS
  <2>1. SumFunctionOnSet(f, s) = 0
    BY SumOfNone
  <2> QED
    BY <2>1, <1>2
<1> DEFINE c == Chosen(s)
<1>6. c \in s
  BY <1>5 DEF Chosen
<1>7. SumFunctionOnSet(f, s) = f[c] + SumFunctionOnSet(f, s \ {c})
  BY <1>4, <1>5 DEF SumsUp
<1> HIDE DEF c
<1>8. Good(s \ {c})
  BY <1>3, <1>6
<1>9. SumFunctionOnSet(f, s) \in Int
  BY <1>7, <1>8, <1>6, <1>2
<1>10. ASSUME NEW x \in s, x # c
       PROVE  SumFunctionOnSet(f, s) = f[x] + SumFunctionOnSet(f, s \ {x})
  <2>1. SumFunctionOnSet(f, s \ {c}) = f[x] + SumFunctionOnSet(f, (s \ {c}) \ {x})
    BY <1>8, <1>10
  <2>2. SumFunctionOnSet(f, s \ {x}) = f[c] + SumFunctionOnSet(f, (s \ {x}) \ {c})
    <3>1. Good(s \ {x})
      BY <1>3
    <3> QED
      BY <3>1, <1>6, <1>10
  <2>3. (s \ {c}) \ {x} = (s \ {x}) \ {c}
    OBVIOUS
  <2>4. SumFunctionOnSet(f, (s \ {x}) \ {c}) \in Int
    <3>1. Good((s \ {x}) \ {c})
      BY <1>3, <1>6
    <3> QED
      BY <3>1
  <2>5. f[x] \in Int /\ f[c] \in Int
    BY <1>2, <1>6
  <2> DEFINE r == SumFunctionOnSet(f, (s \ {x}) \ {c})
  <2>6. SumFunctionOnSet(f, s \ {c}) = f[x] + r /\ SumFunctionOnSet(f, s \ {x}) = f[c] + r /\ r \in Int
    BY <2>1, <2>2, <2>3, <2>4
  <2> HIDE DEF r
  <2> QED
    BY <2>5, <2>6, <1>7
<1>11. Good(s)
  BY <1>7, <1>9, <1>10
<1> QED
  BY <1>2, <1>11

\* Sums of functions that are related element by element.
LEMMA SumOfBoth ==
  ASSUME NEW f, NEW g, NEW h, NEW S, IsFiniteSet(S),
         \A x \in S : f[x] \in Int /\ g[x] \in Int /\ h[x] = f[x] + g[x]
  PROVE  SumFunctionOnSet(h, S) = SumFunctionOnSet(f, S) + SumFunctionOnSet(g, S)
<1> DEFINE Good(s) == SumFunctionOnSet(h, s) = SumFunctionOnSet(f, s) + SumFunctionOnSet(g, s)
           Bad == {s \in SUBSET S : ~Good(s)}
<1> SUFFICES ASSUME Bad # {} PROVE FALSE
  BY DEF Bad
<1>1. PICK s \in Bad : \A u \in Bad : u \subseteq s => u = s
  <2>1. Bad \subseteq SUBSET S
    OBVIOUS
  <2> HIDE DEF Bad
  <2> QED
    BY <2>1, SmallestSet
<1>2. s \in SUBSET S /\ ~Good(s)
  OBVIOUS
<1>3. \A u \in SUBSET s : u # s => Good(u)
  BY <1>1
<1> HIDE DEF Bad
<1>4. s # {}
  <2> SUFFICES ASSUME s = {} PROVE FALSE
    OBVIOUS
  <2> QED
    BY SumOfNone, <1>2
<1>5. PICK x \in s : TRUE
  BY <1>4
<1>6. IsFiniteSet(s) /\ IsFiniteSet(s \ {x})
  BY <1>2, FS_Subset
<1>7. f[x] \in Int /\ g[x] \in Int /\ h[x] = f[x] + g[x]
  BY <1>2
<1>8. SumFunctionOnSet(f, s) = f[x] + SumFunctionOnSet(f, s \ {x}) /\ SumFunctionOnSet(f, s \ {x}) \in Int
  BY <1>2, <1>6, SumWithout
<1>9. SumFunctionOnSet(g, s) = g[x] + SumFunctionOnSet(g, s \ {x}) /\ SumFunctionOnSet(g, s \ {x}) \in Int
  BY <1>2, <1>6, SumWithout
<1>10. SumFunctionOnSet(h, s) = h[x] + SumFunctionOnSet(h, s \ {x})
  <2>1. \A y \in s : h[y] \in Int
    BY <1>2
  <2> QED
    BY <2>1, <1>6, SumWithout
<1>11. Good(s \ {x})
  BY <1>3
<1> QED
  BY <1>2, <1>7, <1>8, <1>9, <1>10, <1>11

LEMMA SumOfNats ==
  ASSUME NEW f, NEW S, IsFiniteSet(S), \A x \in S : f[x] \in Nat
  PROVE  /\ SumFunctionOnSet(f, S) \in Nat
         /\ \A x \in S : f[x] <= SumFunctionOnSet(f, S)
<1> DEFINE Bad == {s \in SUBSET S : SumFunctionOnSet(f, s) \notin Nat}
<1>1. Bad = {}
  <2> SUFFICES ASSUME Bad # {} PROVE FALSE
    OBVIOUS
  <2>1. PICK s \in Bad : \A u \in Bad : u \subseteq s => u = s
    <3>1. Bad \subseteq SUBSET S
      OBVIOUS
    <3> HIDE DEF Bad
    <3> QED
      BY <3>1, SmallestSet
  <2>2. s \in SUBSET S /\ s # {}
    BY SumOfNone
  <2>3. PICK x \in s : TRUE
    BY <2>2
  <2>4. SumFunctionOnSet(f, s \ {x}) \in Nat
    BY <2>1, <2>3
  <2>5. IsFiniteSet(s)
    BY <2>2, FS_Subset
  <2>6. SumFunctionOnSet(f, s) = f[x] + SumFunctionOnSet(f, s \ {x})
    <3> HIDE DEF Bad
    <3> QED
      BY <2>2, <2>3, <2>5, SumWithout
  <2> QED
    BY <2>2, <2>3, <2>4, <2>6
<1>2. \A s \in SUBSET S : SumFunctionOnSet(f, s) \in Nat
  BY <1>1
<1>3. ASSUME NEW x \in S PROVE f[x] <= SumFunctionOnSet(f, S)
  <2>1. SumFunctionOnSet(f, S) = f[x] + SumFunctionOnSet(f, S \ {x})
    <3> HIDE DEF Bad
    <3> QED
      BY SumWithout
  <2>2. SumFunctionOnSet(f, S \ {x}) \in Nat /\ f[x] \in Nat
    BY <1>2
  <2> QED
    BY <2>1, <2>2
<1> QED
  BY <1>2, <1>3

LEMMA SumOfZeros ==
  ASSUME NEW f, NEW S, IsFiniteSet(S), \A x \in S : f[x] = 0
  PROVE  SumFunctionOnSet(f, S) = 0
<1>1. SumFunctionOnSet(f, S) = SumFunctionOnSet(f, S) + SumFunctionOnSet(f, S)
  BY SumOfBoth
<1>2. SumFunctionOnSet(f, S) \in Int
  BY SumWithout
<1>3. \A n \in Int : n = n + n => n = 0
  OBVIOUS
<1> QED
  BY <1>1, <1>2, <1>3

LEMMA SumsAgree ==
  ASSUME NEW f, NEW g, NEW S, IsFiniteSet(S), \A x \in S : f[x] \in Int /\ g[x] = f[x]
  PROVE  SumFunctionOnSet(g, S) = SumFunctionOnSet(f, S)
<1> DEFINE z == [x \in S |-> 0]
<1>1. SumFunctionOnSet(z, S) = 0
  BY SumOfZeros
<1>2. \A x \in S : f[x] \in Int /\ z[x] \in Int /\ g[x] = f[x] + z[x]
  OBVIOUS
<1> HIDE DEF z
<1>3. SumFunctionOnSet(g, S) = SumFunctionOnSet(f, S) + SumFunctionOnSet(z, S)
  BY <1>2, SumOfBoth
<1>4. SumFunctionOnSet(f, S) \in Int
  BY SumWithout
<1> QED
  BY <1>1, <1>3, <1>4

\* A function that differs at one element.
LEMMA SumChangedAt ==
  ASSUME NEW f, NEW g, NEW S, IsFiniteSet(S), NEW y \in S,
         \A x \in S : f[x] \in Int /\ g[x] \in Int, \A x \in S \ {y} : g[x] = f[x]
  PROVE  SumFunctionOnSet(g, S) = SumFunctionOnSet(f, S) + (g[y] - f[y])
<1>1. IsFiniteSet(S \ {y})
  BY FS_RemoveElement
<1>2. SumFunctionOnSet(g, S \ {y}) = SumFunctionOnSet(f, S \ {y})
  BY <1>1, SumsAgree
<1>3. SumFunctionOnSet(f, S) = f[y] + SumFunctionOnSet(f, S \ {y})
      /\ SumFunctionOnSet(g, S) = g[y] + SumFunctionOnSet(g, S \ {y})
  BY SumWithout
<1>4. SumFunctionOnSet(f, S \ {y}) \in Int
  BY <1>1, SumWithout
<1> QED
  BY <1>2, <1>3, <1>4

LEMMA SumsOrdered ==
  ASSUME NEW f, NEW g, NEW S, IsFiniteSet(S),
         \A x \in S : f[x] \in Int /\ g[x] \in Int /\ f[x] <= g[x]
  PROVE  SumFunctionOnSet(f, S) <= SumFunctionOnSet(g, S)
<1> DEFINE d == [x \in S |-> g[x] - f[x]]
<1>1. SumFunctionOnSet(d, S) \in Nat
  BY SumOfNats
<1>2. \A x \in S : f[x] \in Int /\ d[x] \in Int /\ g[x] = f[x] + d[x]
  OBVIOUS
<1> HIDE DEF d
<1>3. SumFunctionOnSet(g, S) = SumFunctionOnSet(f, S) + SumFunctionOnSet(d, S)
  BY <1>2, SumOfBoth
<1>4. SumFunctionOnSet(f, S) \in Int
  BY SumWithout
<1> QED
  BY <1>1, <1>3, <1>4

\* A sum of one value is a product.
LEMMA SumOfSame ==
  ASSUME NEW f, NEW S, IsFiniteSet(S), NEW k \in Int, \A x \in S : f[x] = k
  PROVE  SumFunctionOnSet(f, S) = k * Cardinality(S)
<1> DEFINE Good(s) == SumFunctionOnSet(f, s) = k * Cardinality(s)
           Bad == {s \in SUBSET S : ~Good(s)}
<1> SUFFICES ASSUME Bad # {} PROVE FALSE
  BY DEF Bad
<1>1. PICK s \in Bad : \A u \in Bad : u \subseteq s => u = s
  <2>1. Bad \subseteq SUBSET S
    OBVIOUS
  <2> HIDE DEF Bad
  <2> QED
    BY <2>1, SmallestSet
<1>2. s \in SUBSET S /\ ~Good(s) /\ IsFiniteSet(s)
  BY FS_Subset
<1>3. \A u \in SUBSET s : u # s => Good(u)
  BY <1>1
<1> HIDE DEF Bad
<1>4. s # {}
  <2> SUFFICES ASSUME s = {} PROVE FALSE
    OBVIOUS
  <2>1. SumFunctionOnSet(f, s) = 0 /\ Cardinality(s) = 0
    BY SumOfNone, FS_EmptySet
  <2>2. k * 0 = 0
    OBVIOUS
  <2> QED
    BY <1>2, <2>1, <2>2
<1>5. PICK x \in s : TRUE
  BY <1>4
<1>6. Good(s \ {x})
  BY <1>3, <1>5
<1>7. SumFunctionOnSet(f, s) = k + SumFunctionOnSet(f, s \ {x})
  <2>1. \A y \in s : f[y] \in Int
    BY <1>2
  <2>2. f[x] = k
    BY <1>2, <1>5
  <2> HIDE DEF Good
  <2> QED
    BY <1>2, <1>5, <2>1, <2>2, SumWithout
<1>8. Cardinality(s \ {x}) = Cardinality(s) - 1 /\ Cardinality(s) \in Nat
  BY <1>2, <1>5, FS_RemoveElement, FS_CardinalityType
<1>9. \A c \in Nat : k + k * (c - 1) = k * c
  OBVIOUS
<1> QED
  BY <1>2, <1>6, <1>7, <1>8, <1>9

-----------------------------------------------------------------------------
(* What is taken from a stock in the order of its ranks.                   *)

\* Of some elements one has the highest rank.
LEMMA LastToExpire ==
  ASSUME NEW B, IsFiniteSet(B), NEW rank \in [B -> Nat], NEW D \in SUBSET B, D # {}
  PROVE  \E b \in D : \A e \in D : rank[e] <= rank[b]
<1> DEFINE HasLast(T) == \E b \in T : \A e \in T : rank[e] <= rank[b]
           Bad == {T \in SUBSET B : T # {} /\ ~HasLast(T)}
<1> SUFFICES ASSUME Bad # {} PROVE FALSE
  BY DEF Bad
<1>1. PICK T \in Bad : \A U \in Bad : U \subseteq T => U = T
  <2>1. Bad \subseteq SUBSET B
    OBVIOUS
  <2> HIDE DEF Bad
  <2> QED
    BY <2>1, SmallestSet
<1>2. PICK x \in T : TRUE
  OBVIOUS
<1>3. T \ {x} = {} \/ HasLast(T \ {x})
  <2>1. T \ {x} \subseteq T /\ T \ {x} # T
    BY <1>2
  <2>2. T \ {x} \notin Bad
    BY <1>1, <2>1
  <2>3. T \ {x} \in SUBSET B
    OBVIOUS
  <2> HIDE DEF HasLast
  <2> QED
    BY <2>2, <2>3
<1>4. CASE T \ {x} = {}
  <2>1. \A e \in T : e = x
    BY <1>4
  <2>2. rank[x] <= rank[x]
    OBVIOUS
  <2> QED
    BY <2>1, <2>2, <1>2
<1>5. CASE HasLast(T \ {x})
  <2>1. PICK b \in T \ {x} : \A e \in T \ {x} : rank[e] <= rank[b]
    BY <1>5
  <2>2. rank[b] \in Nat /\ rank[x] \in Nat /\ \A e \in T : rank[e] \in Nat
    BY <1>2, <2>1
  <2>3. CASE rank[x] <= rank[b]
    BY <2>1, <2>2, <2>3
  <2>4. CASE rank[b] < rank[x]
    BY <2>1, <2>2, <2>4, <1>2
  <2> QED
    BY <2>2, <2>3, <2>4
<1> QED
  BY <1>3, <1>4, <1>5

\* What comes before an element in the order.
RankedBefore(B, rank, b) == {e \in B : rank[e] < rank[b]}
LesserOf(m, n) == IF m <= n THEN m ELSE n
NonNegative(n) == IF n > 0 THEN n ELSE 0

\* What is taken in an order, n points in all, is no more than each has, and all together
\* no more than was asked for, nor less while there is any.
LEMMA TakenInOrder ==
  ASSUME NEW B, IsFiniteSet(B), NEW rank \in [B -> Nat],
         \A b, e \in B : rank[b] = rank[e] => b = e,
         NEW p \in [B -> Nat], NEW n \in Int, NEW s,
         \A b \in B : s[b] = LesserOf(p[b], NonNegative(n - SumFunctionOnSet(p, RankedBefore(B, rank, b))))
  PROVE  /\ \A b \in B : s[b] \in Nat /\ s[b] <= p[b]
         /\ SumFunctionOnSet(s, B) = LesserOf(SumFunctionOnSet(p, B), NonNegative(n))
<1> DEFINE Known(D) == \A b \in D, e \in B : rank[e] < rank[b] => e \in D
           Good(D) == SumFunctionOnSet(s, D) = LesserOf(SumFunctionOnSet(p, D), NonNegative(n))
           Bad == {D \in SUBSET B : Known(D) /\ ~Good(D)}
<1>1. \A D \in SUBSET B : IsFiniteSet(D) /\ SumFunctionOnSet(p, D) \in Nat
  <2> TAKE D \in SUBSET B
  <2>1. IsFiniteSet(D)
    BY FS_Subset
  <2> QED
    BY <2>1, SumOfNats
<1>2. \A b \in B : SumFunctionOnSet(p, RankedBefore(B, rank, b)) \in Nat
  <2> TAKE b \in B
  <2> DEFINE D == RankedBefore(B, rank, b)
  <2>1. D \in SUBSET B
    BY DEF RankedBefore
  <2> HIDE DEF D
  <2>2. SumFunctionOnSet(p, D) \in Nat
    BY <1>1, <2>1
  <2> QED
    BY <2>2 DEF D
<1>4. \A b \in B : s[b] \in Nat /\ s[b] <= p[b]
  <2> TAKE b \in B
  <2> DEFINE k == SumFunctionOnSet(p, RankedBefore(B, rank, b))
  <2>1. s[b] = LesserOf(p[b], NonNegative(n - k)) /\ k \in Nat /\ p[b] \in Nat
    BY <1>2
  <2> HIDE DEF k
  <2> QED
    BY <2>1 DEF LesserOf, NonNegative
<1>6. Bad = {}
  <2> SUFFICES ASSUME Bad # {} PROVE FALSE
    OBVIOUS
  <2>1. PICK D \in Bad : \A U \in Bad : U \subseteq D => U = D
    <3>1. Bad \subseteq SUBSET B
      OBVIOUS
    <3> HIDE DEF Bad
    <3> QED
      BY <3>1, SmallestSet
  <2>2. D \in SUBSET B /\ Known(D) /\ ~Good(D)
    OBVIOUS
  <2>3. D # {}
    <3> SUFFICES ASSUME D = {} PROVE FALSE
      OBVIOUS
    <3>1. SumFunctionOnSet(s, D) = 0 /\ SumFunctionOnSet(p, D) = 0
      BY SumOfNone
    <3> QED
      BY <3>1, <2>2 DEF LesserOf, NonNegative
  <2>4. PICK b \in D : \A e \in D : rank[e] <= rank[b]
    BY <2>2, <2>3, LastToExpire
  <2> DEFINE R == D \ {b}
  <2>5. Known(R)
    <3> SUFFICES ASSUME NEW d \in R, NEW e \in B, rank[e] < rank[d] PROVE e \in R
      OBVIOUS
    <3>1. e \in D /\ rank[d] <= rank[b] /\ rank[e] \in Nat /\ rank[d] \in Nat /\ rank[b] \in Nat
      BY <2>2, <2>4
    <3> QED
      BY <3>1
  <2>6. RankedBefore(B, rank, b) = R
    <3>1. \A e \in B : rank[e] < rank[b] => e \in D /\ e # b
      BY <2>2, <2>4
    <3>2. \A e \in R : rank[e] < rank[b]
      BY <2>2, <2>4
    <3> QED
      BY <3>1, <3>2, <2>2 DEF RankedBefore
  <2>7. Good(R)
    BY <2>1, <2>2, <2>5
  <2> HIDE DEF Bad
  <2>9. SumFunctionOnSet(p, D) = p[b] + SumFunctionOnSet(p, R)
    BY <2>2, <1>1, SumWithout
  <2>10. SumFunctionOnSet(s, D) = s[b] + SumFunctionOnSet(s, R)
    <3>1. IsFiniteSet(D) /\ \A x \in D : s[x] \in Int
      BY <1>1, <1>4, <2>2
    <3> HIDE DEF Known, Good
    <3> QED
      BY <3>1, SumWithout
  <2>11. SumFunctionOnSet(p, R) \in Nat /\ p[b] \in Nat
    BY <1>1, <2>2
  <2>12. s[b] = LesserOf(p[b], NonNegative(n - SumFunctionOnSet(p, R)))
    BY <2>2, <2>6
  <2> HIDE DEF R, Known
  <2>13. Good(D)
    BY <2>7, <2>9, <2>10, <2>11, <2>12 DEF LesserOf, NonNegative
  <2> QED
    BY <2>2, <2>13
<1>7. Known(B)
  OBVIOUS
<1>8. Good(B)
  BY <1>6, <1>7
<1> QED
  BY <1>4, <1>8
=============================================================================
