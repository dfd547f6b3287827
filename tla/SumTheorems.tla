----------------------------- MODULE SumTheorems -----------------------------
(***************************************************************************)
(* The sums of the community module Functions: SumFunction adds the values *)
(* of a function on a finite domain, in an order that is not specified.    *)
(* Books that are kept as a total per transaction, such as the balance of  *)
(* a wallet, need to know how a sum changes with one of the values.        *)
(*                                                                         *)
(* The library defines a sum by recursion on the set of indices.  That     *)
(* such a function exists, and what it is, is shown by taking a smallest   *)
(* set for which it would not be so.                                       *)
(***************************************************************************)
EXTENDS Integers, Sequences, Functions, FiniteSetTheorems, TLAPS

LEMMA SmallestSubset ==
    ASSUME NEW S, IsFiniteSet(S), NEW Bad \in SUBSET (SUBSET S), Bad # {}
    PROVE  \E s \in Bad : \A u \in Bad : u \subseteq s => u = s
<1>1. IsWellFoundedOn(StrictSubsetOrdering(S), SUBSET S)
  BY FS_StrictSubsetOrderingWellFounded, FS_FiniteSubsetsOfFinite
<1>2. \E s \in Bad : \A u \in Bad : ~ (<<u, s>> \in StrictSubsetOrdering(S))
  BY <1>1, WFMin
<1>3. QED
  BY <1>2 DEF StrictSubsetOrdering

-----------------------------------------------------------------------------
(* The function that the library's definition chooses.                     *)

Picked(s) == CHOOSE x \in s : TRUE
Smaller(s) == s \ {Picked(s)}

IsSum(f, S, g) ==
    g = [s \in SUBSET S |-> IF s = {} THEN 0 ELSE f[Picked(s)] + g[Smaller(s)]]

LEMMA SumIsChosen ==
    ASSUME NEW f, NEW S
    PROVE  SumFunctionOnSet(f, S) = (CHOOSE g : IsSum(f, S, g))[S]
BY DEF SumFunctionOnSet, FoldFunctionOnSet, MapThenFoldSet, IsSum, Picked, Smaller

LEMMA PickedIsIn ==
    ASSUME NEW s, s # {}
    PROVE  Picked(s) \in s /\ Smaller(s) \subseteq s /\ Smaller(s) # s
BY DEF Picked, Smaller

LEMMA SumEquation ==
    ASSUME NEW f, NEW S, NEW g, IsSum(f, S, g), NEW s \in SUBSET S
    PROVE  g[s] = IF s = {} THEN 0 ELSE f[Picked(s)] + g[Smaller(s)]
BY DEF IsSum

LEMMA SumOfLess ==
    ASSUME NEW f, NEW S, NEW g, IsSum(f, S, g), NEW T \in SUBSET S
    PROVE  IsSum(f, T, [s \in SUBSET T |-> g[s]])
<1> DEFINE h == [s \in SUBSET T |-> g[s]]
<1>1. ASSUME NEW s \in SUBSET T
      PROVE  h[s] = IF s = {} THEN 0 ELSE f[Picked(s)] + h[Smaller(s)]
  <2>1. h[s] = g[s] /\ s \in SUBSET S
    OBVIOUS
  <2>2. s # {} => Smaller(s) \in SUBSET T
    BY PickedIsIn
  <2>3. QED
    BY <2>1, <2>2, SumEquation
<1>2. QED
  BY <1>1 DEF IsSum

LEMMA SumIsUnique ==
    ASSUME NEW f, NEW S, IsFiniteSet(S), NEW g, NEW h, IsSum(f, S, g), IsSum(f, S, h)
    PROVE  \A s \in SUBSET S : g[s] = h[s]
<1> DEFINE Bad == {s \in SUBSET S : g[s] # h[s]}
<1> SUFFICES ASSUME Bad # {} PROVE FALSE
  OBVIOUS
<1>1. PICK s \in Bad : \A u \in Bad : u \subseteq s => u = s
  <2>1. Bad \in SUBSET (SUBSET S)
    OBVIOUS
  <2> HIDE DEF Bad
  <2>2. QED
    BY <2>1, SmallestSubset
<1>2. s # {}
  BY <1>1, SumEquation
<1>3. g[Smaller(s)] = h[Smaller(s)]
  BY <1>1, <1>2, PickedIsIn
<1>4. g[s] = h[s]
  BY <1>1, <1>2, <1>3, SumEquation
<1>5. QED
  BY <1>1, <1>4

LEMMA SumExists ==
    ASSUME NEW f, NEW S, IsFiniteSet(S)
    PROVE  \E g : IsSum(f, S, g)
<1> DEFINE Bad == {s \in SUBSET S : ~ \E g : IsSum(f, s, g)}
<1> SUFFICES ASSUME Bad # {} PROVE FALSE
  OBVIOUS
<1>1. PICK s \in Bad : \A u \in Bad : u \subseteq s => u = s
  <2>1. Bad \in SUBSET (SUBSET S)
    OBVIOUS
  <2> HIDE DEF Bad
  <2>2. QED
    BY <2>1, SmallestSubset
<1> DEFINE fun(t) == CHOOSE g : IsSum(f, t, g)
<1>2. \A t \in SUBSET s : t # s => IsSum(f, t, fun(t))
  BY <1>1
<1> HIDE DEF fun
<1> DEFINE part(t) == IF t = {} THEN 0 ELSE f[Picked(t)] + fun(Smaller(t))[Smaller(t)]
           whole == [t \in SUBSET s |-> part(t)]
<1>3. ASSUME NEW t \in SUBSET s, t # s PROVE fun(t)[t] = part(t)
  <2>1. CASE t = {}
    BY <1>2, <1>3, <2>1, SumEquation
  <2>2. CASE t # {}
    <3> DEFINE u == Smaller(t)
               v == fun(t)
    <3>1. u \in SUBSET t /\ u # t /\ u \in SUBSET s /\ u # s
      BY <1>3, <2>2, PickedIsIn
    <3>2. IsSum(f, t, v) /\ IsSum(f, u, fun(u))
      BY <1>2, <1>3, <3>1
    <3> HIDE DEF u, v
    <3>3. IsSum(f, u, [r \in SUBSET u |-> v[r]])
      BY <3>1, <3>2, SumOfLess
    <3>4. IsFiniteSet(u)
      BY <3>1, FS_Subset
    <3>5. \A r \in SUBSET u : fun(u)[r] = [q \in SUBSET u |-> v[q]][r]
      BY <3>2, <3>3, <3>4, SumIsUnique
    <3>6. fun(u)[u] = v[u]
      BY <3>5
    <3>7. v[t] = f[Picked(t)] + v[u]
      BY <2>2, <3>2, SumEquation DEF u
    <3>8. QED
      BY <2>2, <3>6, <3>7 DEF u, v
  <2>3. QED
    BY <2>1, <2>2
<1>4. ASSUME NEW t \in SUBSET s
      PROVE  whole[t] = IF t = {} THEN 0 ELSE f[Picked(t)] + whole[Smaller(t)]
  <2>1. CASE t = {}
    BY <2>1
  <2>2. CASE t # {}
    <3>1. Smaller(t) \in SUBSET s /\ Smaller(t) # s
      BY <2>2, PickedIsIn
    <3>2. whole[Smaller(t)] = fun(Smaller(t))[Smaller(t)]
      BY <1>3, <3>1
    <3>3. QED
      BY <2>2, <3>2
  <2>3. QED
    BY <2>1, <2>2
<1>5. IsSum(f, s, whole)
  <2> HIDE DEF part
  <2>1. whole = [t \in SUBSET s |-> whole[t]]
    OBVIOUS
  <2> HIDE DEF whole
  <2>2. QED
    BY <1>4, <2>1 DEF IsSum
<1>6. QED
  BY <1>1, <1>5

-----------------------------------------------------------------------------
(* What a sum is.                                                          *)

LEMMA SumByPicked ==
    ASSUME NEW f, NEW S, IsFiniteSet(S)
    PROVE  SumFunctionOnSet(f, S) =
               IF S = {} THEN 0 ELSE f[Picked(S)] + SumFunctionOnSet(f, Smaller(S))
<1> DEFINE g == CHOOSE h : IsSum(f, S, h)
<1>1. IsSum(f, S, g)
  BY SumExists
<1>2. SumFunctionOnSet(f, S) = g[S]
  BY SumIsChosen
<1> HIDE DEF g
<1>3. CASE S = {}
  BY <1>1, <1>2, <1>3, SumEquation
<1>4. CASE S # {}
  <2> DEFINE T == Smaller(S)
             h == CHOOSE k : IsSum(f, T, k)
  <2>1. T \in SUBSET S
    BY <1>4, PickedIsIn
  <2>2. IsFiniteSet(T)
    BY <2>1, FS_Subset
  <2>3. IsSum(f, T, h)
    BY <2>2, SumExists
  <2>4. SumFunctionOnSet(f, T) = h[T]
    BY SumIsChosen
  <2>5. g[S] = f[Picked(S)] + g[T]
    BY <1>1, <1>4, SumEquation
  <2> HIDE DEF T, h
  <2>6. IsSum(f, T, [s \in SUBSET T |-> g[s]])
    BY <1>1, <2>1, SumOfLess
  <2>7. \A s \in SUBSET T : h[s] = [q \in SUBSET T |-> g[q]][s]
    BY <2>2, <2>3, <2>6, SumIsUnique
  <2>8. h[T] = g[T]
    BY <2>7
  <2>9. QED
    BY <1>2, <1>4, <2>4, <2>5, <2>8 DEF T
<1>5. QED
  BY <1>3, <1>4

LEMMA SumType ==
    ASSUME NEW f, NEW S, IsFiniteSet(S), \A x \in S : f[x] \in Int
    PROVE  SumFunctionOnSet(f, S) \in Int
<1> DEFINE Bad == {s \in SUBSET S : SumFunctionOnSet(f, s) \notin Int}
<1> SUFFICES ASSUME Bad # {} PROVE FALSE
  OBVIOUS
<1>1. PICK s \in Bad : \A u \in Bad : u \subseteq s => u = s
  <2>1. Bad \in SUBSET (SUBSET S)
    OBVIOUS
  <2> HIDE DEF Bad
  <2>2. QED
    BY <2>1, SmallestSubset
<1>2. IsFiniteSet(s)
  BY FS_Subset
<1>3. CASE s = {}
  <2>1. SumFunctionOnSet(f, s) = 0
    BY <1>2, <1>3, SumByPicked
  <2>2. QED
    BY <1>1, <2>1
<1>4. CASE s # {}
  <2>1. Picked(s) \in S /\ Smaller(s) \in SUBSET S /\ Smaller(s) \notin Bad
    BY <1>1, <1>4, PickedIsIn
  <2>2. SumFunctionOnSet(f, Smaller(s)) \in Int /\ f[Picked(s)] \in Int
    BY <2>1
  <2>3. SumFunctionOnSet(f, s) = f[Picked(s)] + SumFunctionOnSet(f, Smaller(s))
    BY <1>2, <1>4, SumByPicked
  <2>4. QED
    BY <1>1, <2>2, <2>3
<1>5. QED
  BY <1>3, <1>4

\* It does not matter which index is taken first.
LEMMA SumRemove ==
    ASSUME NEW f, NEW S, IsFiniteSet(S), \A x \in S : f[x] \in Int, NEW x \in S
    PROVE  SumFunctionOnSet(f, S) = f[x] + SumFunctionOnSet(f, S \ {x})
<1> DEFINE Holds(s) == \A y \in s :
               SumFunctionOnSet(f, s) = f[y] + SumFunctionOnSet(f, s \ {y})
           Bad == {s \in SUBSET S : ~Holds(s)}
<1> SUFFICES ASSUME Bad # {} PROVE FALSE
  OBVIOUS
<1>1. PICK s \in Bad : \A u \in Bad : u \subseteq s => u = s
  <2>1. Bad \in SUBSET (SUBSET S)
    OBVIOUS
  <2> HIDE DEF Bad
  <2>2. QED
    BY <2>1, SmallestSubset
<1>2. PICK y \in s : SumFunctionOnSet(f, s) # f[y] + SumFunctionOnSet(f, s \ {y})
  BY <1>1
<1>3. \A u \in SUBSET s : IsFiniteSet(u)
  BY FS_Subset
<1>4. \A u \in SUBSET s : SumFunctionOnSet(f, u) \in Int
  BY <1>3, SumType
<1>5. \A u \in SUBSET s : u # s => Holds(u)
  BY <1>1
<1> HIDE DEF Holds
<1> DEFINE p == Picked(s)
<1>6. p \in s /\ Smaller(s) = s \ {p}
  BY <1>2, PickedIsIn DEF Smaller
<1>7. SumFunctionOnSet(f, s) = f[p] + SumFunctionOnSet(f, s \ {p})
  BY <1>2, <1>3, <1>6, SumByPicked
<1> HIDE DEF p
<1>8. y # p
  BY <1>2, <1>7
<1>9. SumFunctionOnSet(f, s \ {p}) = f[y] + SumFunctionOnSet(f, (s \ {p}) \ {y})
  BY <1>5, <1>6, <1>8 DEF Holds
<1>10. SumFunctionOnSet(f, s \ {y}) = f[p] + SumFunctionOnSet(f, (s \ {y}) \ {p})
  BY <1>5, <1>6, <1>8 DEF Holds
<1>11. (s \ {p}) \ {y} = (s \ {y}) \ {p}
  OBVIOUS
<1>12. /\ f[p] \in Int /\ f[y] \in Int
       /\ SumFunctionOnSet(f, (s \ {y}) \ {p}) \in Int
  BY <1>4, <1>6
<1> DEFINE rest == SumFunctionOnSet(f, (s \ {y}) \ {p})
<1>13. SumFunctionOnSet(f, s) = f[p] + (f[y] + rest)
  BY <1>7, <1>9, <1>11
<1>14. SumFunctionOnSet(f, s \ {y}) = f[p] + rest /\ rest \in Int
  BY <1>10, <1>12
<1> HIDE DEF rest
<1>15. f[p] + (f[y] + rest) = f[y] + (f[p] + rest)
  BY <1>12, <1>14
<1>16. QED
  BY <1>2, <1>13, <1>14, <1>15

LEMMA SumSame ==
    ASSUME NEW f, NEW g, NEW S, IsFiniteSet(S), \A x \in S : f[x] = g[x]
    PROVE  SumFunctionOnSet(f, S) = SumFunctionOnSet(g, S)
<1> DEFINE Bad == {s \in SUBSET S : SumFunctionOnSet(f, s) # SumFunctionOnSet(g, s)}
<1> SUFFICES ASSUME Bad # {} PROVE FALSE
  OBVIOUS
<1>1. PICK s \in Bad : \A u \in Bad : u \subseteq s => u = s
  <2>1. Bad \in SUBSET (SUBSET S)
    OBVIOUS
  <2> HIDE DEF Bad
  <2>2. QED
    BY <2>1, SmallestSubset
<1>2. IsFiniteSet(s)
  BY FS_Subset
<1>3. CASE s = {}
  BY <1>1, <1>2, <1>3, SumByPicked
<1>4. CASE s # {}
  <2>1. Picked(s) \in S /\ Smaller(s) \in SUBSET S /\ Smaller(s) \notin Bad
    BY <1>1, <1>4, PickedIsIn
  <2>2. /\ SumFunctionOnSet(f, s) = f[Picked(s)] + SumFunctionOnSet(f, Smaller(s))
        /\ SumFunctionOnSet(g, s) = g[Picked(s)] + SumFunctionOnSet(g, Smaller(s))
    BY <1>2, <1>4, SumByPicked
  <2>3. QED
    BY <1>1, <2>1, <2>2
<1>5. QED
  BY <1>3, <1>4

-----------------------------------------------------------------------------
(* What the models need.                                                   *)

\* The sum of integers is an integer.
THEOREM SumFunctionType ==
    ASSUME NEW S, IsFiniteSet(S), NEW f \in [S -> Int]
    PROVE  SumFunction(f) \in Int
BY SumType DEF SumFunction

\* Nothing adds up to nothing.
THEOREM SumFunctionZero ==
    ASSUME NEW S, IsFiniteSet(S), NEW f \in [S -> {0}]
    PROVE  SumFunction(f) = 0
<1> DEFINE Bad == {s \in SUBSET S : SumFunctionOnSet(f, s) # 0}
<1>1. Bad = {}
  <2> SUFFICES ASSUME Bad # {} PROVE FALSE
    OBVIOUS
  <2>1. PICK s \in Bad : \A u \in Bad : u \subseteq s => u = s
    <3>1. Bad \in SUBSET (SUBSET S)
      OBVIOUS
    <3> HIDE DEF Bad
    <3>2. QED
      BY <3>1, SmallestSubset
  <2>2. IsFiniteSet(s)
    BY FS_Subset
  <2>3. CASE s = {}
    BY <2>1, <2>2, <2>3, SumByPicked
  <2>4. CASE s # {}
    <3>1. Picked(s) \in S /\ Smaller(s) \in SUBSET S /\ Smaller(s) \notin Bad
      BY <2>1, <2>4, PickedIsIn
    <3>2. SumFunctionOnSet(f, s) = f[Picked(s)] + SumFunctionOnSet(f, Smaller(s))
      BY <2>2, <2>4, SumByPicked
    <3>3. QED
      BY <2>1, <3>1, <3>2
  <2>5. QED
    BY <2>3, <2>4
<1>2. QED
  BY <1>1 DEF SumFunction

\* When one value changes, the sum changes by as much.
THEOREM SumFunctionChange ==
    ASSUME NEW S, IsFiniteSet(S), NEW f \in [S -> Int], NEW g \in [S -> Int],
           NEW x \in S, \A y \in S \ {x} : g[y] = f[y]
    PROVE  SumFunction(g) = SumFunction(f) + (g[x] - f[x])
<1>1. /\ SumFunctionOnSet(f, S) = f[x] + SumFunctionOnSet(f, S \ {x})
      /\ SumFunctionOnSet(g, S) = g[x] + SumFunctionOnSet(g, S \ {x})
  BY SumRemove
<1>2. IsFiniteSet(S \ {x})
  BY FS_Subset
<1>3. SumFunctionOnSet(f, S \ {x}) = SumFunctionOnSet(g, S \ {x})
  BY <1>2, SumSame
<1>4. SumFunctionOnSet(f, S \ {x}) \in Int /\ f[x] \in Int /\ g[x] \in Int
  BY <1>2, SumType
<1>5. QED
  BY <1>1, <1>3, <1>4 DEF SumFunction

\* When several values change by the same amount, so does the sum for each.
THEOREM SumFunctionChangeAll ==
    ASSUME NEW S, IsFiniteSet(S), NEW f \in [S -> Int], NEW g \in [S -> Int],
           NEW D \in SUBSET S, NEW p \in Int,
           \A x \in D : g[x] = f[x] + p,
           \A x \in S \ D : g[x] = f[x]
    PROVE  Cardinality(D) \in Nat /\ SumFunction(g) = SumFunction(f) + Cardinality(D) * p
<1> DEFINE part(d) == [x \in S |-> IF x \in d THEN f[x] + p ELSE f[x]]
           Bad == {d \in SUBSET D :
                       SumFunction(part(d)) # SumFunction(f) + Cardinality(d) * p}
<1>1. \A d \in SUBSET D : IsFiniteSet(d) /\ Cardinality(d) \in Nat
  BY FS_Subset, FS_CardinalityType
<1>2. \A d \in SUBSET D : part(d) \in [S -> Int]
  OBVIOUS
<1>3. SumFunction(f) \in Int
  BY SumFunctionType
<1>4. Bad = {}
  <2> SUFFICES ASSUME Bad # {} PROVE FALSE
    OBVIOUS
  <2>1. PICK d \in Bad : \A u \in Bad : u \subseteq d => u = d
    <3>1. Bad \in SUBSET (SUBSET S)
      OBVIOUS
    <3> HIDE DEF Bad
    <3>2. QED
      BY <3>1, SmallestSubset
  <2>2. d \in SUBSET D /\ SumFunction(part(d)) # SumFunction(f) + Cardinality(d) * p
    BY <2>1
  <2>3. CASE d = {}
    <3>1. part(d) = f
      BY <2>3
    <3>2. Cardinality(d) = 0
      BY <2>3, FS_EmptySet, Zenon
    <3> HIDE DEF part
    <3>3. QED
      BY <1>3, <2>2, <3>1, <3>2
  <2>4. CASE d # {}
    <3>1. PICK x \in d : TRUE
      BY <2>4
    <3> DEFINE e == d \ {x}
    <3>2. e \in SUBSET D /\ e \notin Bad /\ x \in S
      BY <2>1, <2>2, <3>1
    <3>3. SumFunction(part(e)) = SumFunction(f) + Cardinality(e) * p
      BY <3>2
    <3>4. /\ part(d)[x] = f[x] + p /\ part(e)[x] = f[x]
          /\ \A y \in S \ {x} : part(d)[y] = part(e)[y]
      BY <2>2, <3>1, <3>2
    <3>5. part(d) \in [S -> Int] /\ part(e) \in [S -> Int]
      BY <1>2, <2>2, <3>2
    <3>6. Cardinality(e) = Cardinality(d) - 1
      <4>1. IsFiniteSet(d)
        BY <1>1, <2>2
      <4>2. QED
        BY <3>1, <4>1, FS_RemoveElement
    <3>7. Cardinality(d) \in Nat /\ Cardinality(e) \in Nat /\ f[x] \in Int
      BY <1>1, <2>2, <3>2
    <3> HIDE DEF part, e
    <3>8. SumFunction(part(d)) = SumFunction(part(e)) + (part(d)[x] - part(e)[x])
      <4> DEFINE F == part(d)
                 G == part(e)
      <4>1. /\ F \in [S -> Int] /\ G \in [S -> Int] /\ x \in S
            /\ \A y \in S \ {x} : F[y] = G[y]
        BY <3>2, <3>4, <3>5
      <4> HIDE DEF F, G
      <4>2. SumFunction(F) = SumFunction(G) + (F[x] - G[x])
        BY <4>1, SumFunctionChange
      <4>3. QED
        BY <4>2 DEF F, G
    <3> DEFINE n == Cardinality(e)
    <3>9. SumFunction(part(d)) = SumFunction(f) + n * p + p
      <4>1. n * p \in Int
        BY <3>7
      <4> DEFINE np == n * p
      <4>2. SumFunction(part(d)) = SumFunction(f) + np + (f[x] + p - f[x])
        BY <3>3, <3>4, <3>8
      <4> HIDE DEF np
      <4>3. QED
        BY <1>3, <3>7, <4>1, <4>2 DEF np
    <3>10. Cardinality(d) * p = n * p + p
      <4>1. \A k \in Nat : (k + 1) * p = k * p + p
        OBVIOUS
      <4>2. Cardinality(d) = n + 1 /\ n \in Nat
        BY <3>6, <3>7
      <4>3. QED
        BY <4>1, <4>2
    <3>11. n * p \in Int
      BY <3>7
    <3>12. SumFunction(f) + (n * p + p) = SumFunction(f) + n * p + p
      BY <1>3, <3>11
    <3>13. QED
      BY <2>2, <3>9, <3>10, <3>12
  <2>5. QED
    BY <2>3, <2>4
<1>5. part(D) = g
  OBVIOUS
<1> HIDE DEF part
<1>6. QED
  BY <1>1, <1>4, <1>5

\* The sum of a sequence grows by what is appended to it.
THEOREM SumFunctionAppend ==
    ASSUME NEW s \in Seq(Int), NEW e \in Int
    PROVE  /\ SumFunction(s) \in Int
           /\ SumFunction(Append(s, e)) = SumFunction(s) + e
<1> DEFINE n == Len(s)
           r == Append(s, e)
<1>1. /\ n \in Nat /\ DOMAIN s = 1 .. n /\ DOMAIN r = 1 .. (n + 1)
      /\ \A i \in 1 .. n : s[i] \in Int /\ r[i] = s[i]
      /\ r[n + 1] = e
  OBVIOUS
<1> HIDE DEF n, r
<1>2. IsFiniteSet(1 .. n) /\ IsFiniteSet(1 .. (n + 1))
  BY <1>1, FS_Interval
<1>3. (1 .. (n + 1)) \ {n + 1} = 1 .. n /\ n + 1 \in 1 .. (n + 1)
  BY <1>1
<1>4. \A i \in 1 .. (n + 1) : r[i] \in Int
  BY <1>1
<1>5. SumFunctionOnSet(r, 1 .. (n + 1)) = r[n + 1] + SumFunctionOnSet(r, 1 .. n)
  <2> DEFINE T == 1 .. (n + 1)
  <2>1. IsFiniteSet(T) /\ n + 1 \in T /\ T \ {n + 1} = 1 .. n /\ \A i \in T : r[i] \in Int
    BY <1>2, <1>3, <1>4
  <2> HIDE DEF T
  <2>2. SumFunctionOnSet(r, T) = r[n + 1] + SumFunctionOnSet(r, T \ {n + 1})
    BY <2>1, SumRemove
  <2>3. QED
    BY <2>1, <2>2, Zenon DEF T
<1>6. SumFunctionOnSet(r, 1 .. n) = SumFunctionOnSet(s, 1 .. n)
  BY <1>1, <1>2, SumSame
<1>7. SumFunctionOnSet(s, 1 .. n) \in Int
  BY <1>1, <1>2, SumType
<1>8. QED
  BY <1>1, <1>5, <1>6, <1>7 DEF SumFunction, r

THEOREM SumFunctionEmpty == SumFunction(<<>>) = 0
<1>1. DOMAIN <<>> = {} /\ IsFiniteSet({})
  BY FS_EmptySet
<1>2. QED
  BY <1>1, SumByPicked DEF SumFunction
=============================================================================
