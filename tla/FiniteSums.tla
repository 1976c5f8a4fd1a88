------------------------------ MODULE FiniteSums ------------------------------
(***************************************************************************)
(* Sums over finite sets: what SUM(ticket_count) computes, whatever order  *)
(* the fold of FiniteSetsExt takes the elements in.                        *)
(***************************************************************************)
EXTENDS Integers, FiniteSetsExt, FiniteSetTheorems, WellFoundedInduction, TLAPS

\* The sum of f over S, as Booking and TicketLedger write it.
SumOver(f, S) == MapThenSumSet(LAMBDA x : f[x], S)

\* The element the fold takes first, and the equation its values satisfy.
First(s) == CHOOSE x \in s : TRUE
Value(f, g, s) == IF s = {} THEN 0 ELSE f[First(s)] + g[s \ {First(s)}]
Follows(f, g, T) == \A s \in SUBSET T : g[s] = Value(f, g, s)
Sums(f, T) == {g \in [SUBSET T -> Int] : Follows(f, g, T)}

\* A nonempty family of subsets of a finite set has a minimal member.
LEMMA MinimalSubset ==
    ASSUME NEW S, IsFiniteSet(S), NEW B, B \subseteq SUBSET S, B # {}
    PROVE  \E s \in B : \A t \in B : t \subseteq s => t = s
<1>1. IsWellFoundedOn(StrictSubsetOrdering(S), SUBSET S)
  BY FS_StrictSubsetOrderingWellFounded, FS_FiniteSubsetsOfFinite
<1>2. PICK s \in B : \A t \in B : ~ (<<t, s>> \in StrictSubsetOrdering(S))
  BY ONLY <1>1, B \subseteq SUBSET S, B # {}, WFMin
<1>3. ASSUME NEW t \in B, t \subseteq s PROVE t = s
  <2>1. <<t, s>> \in (SUBSET S) \X (SUBSET S)
    BY B \subseteq SUBSET S
  <2>2. <<t, s>> \notin StrictSubsetOrdering(S)
    BY <1>2
  <2> QED BY <1>3, <2>1, <2>2 DEF StrictSubsetOrdering
<1> QED BY <1>3

\* The fold's equation determines its values.
LEMMA SumsAgree ==
    ASSUME NEW f, NEW T, IsFiniteSet(T), NEW U \in SUBSET T,
           NEW g, Follows(f, g, T), NEW h, Follows(f, h, U)
    PROVE  \A s \in SUBSET U : g[s] = h[s]
<1> DEFINE B == {s \in SUBSET U : g[s] # h[s]}
<1>1. SUFFICES ASSUME B # {} PROVE FALSE
  OBVIOUS
<1>2. PICK s \in B : \A t \in B : t \subseteq s => t = s
  <2>1. IsFiniteSet(U)
    BY FS_Subset
  <2>2. B \subseteq SUBSET U
    OBVIOUS
  <2> HIDE DEF B
  <2> QED BY <1>1, <2>1, <2>2, MinimalSubset
<1>3. s \in SUBSET U /\ s \in SUBSET T
  OBVIOUS
<1>4. g[s] = Value(f, g, s) /\ h[s] = Value(f, h, s)
  BY <1>3 DEF Follows
<1>5. CASE s = {}
  BY <1>4, <1>5 DEF Value
<1>6. CASE s # {}
  <2> DEFINE t == s \ {First(s)}
  <2>1. First(s) \in s
    BY <1>6 DEF First
  <2>2. t \in SUBSET U /\ t \subseteq s /\ t # s
    BY <2>1
  <2>3. g[t] = h[t]
    BY <1>2, <2>2
  <2> QED BY <1>4, <1>6, <2>3 DEF Value
<1> QED BY <1>5, <1>6

\* Such values exist for every finite set.
LEMMA SumsExist ==
    ASSUME NEW f, NEW S, IsFiniteSet(S), \A x \in S : f[x] \in Int
    PROVE  Sums(f, S) # {}
<1> DEFINE B == {T \in SUBSET S : Sums(f, T) = {}}
<1>1. SUFFICES ASSUME B # {} PROVE FALSE
  OBVIOUS
<1>2. PICK T \in B : \A U \in B : U \subseteq T => U = T
  <2>1. B \subseteq SUBSET S
    OBVIOUS
  <2> HIDE DEF B
  <2> QED BY <1>1, <2>1, MinimalSubset
<1>3. IsFiniteSet(T) /\ T \in SUBSET S
  BY FS_Subset
<1> DEFINE G == [s \in SUBSET T |-> CHOOSE g \in Sums(f, s) : TRUE]
           gT == [s \in SUBSET T |-> Value(f, G[s \ {First(s)}], s)]
<1>4. ASSUME NEW s \in SUBSET T, s # T PROVE G[s] \in Sums(f, s)
  <2>1. Sums(f, s) # {}
    BY <1>2, <1>3, <1>4
  <2> QED BY <2>1
<1>5. ASSUME NEW s \in SUBSET T, s # {}
      PROVE  /\ First(s) \in s
             /\ s \ {First(s)} \in SUBSET T /\ s \ {First(s)} # T
             /\ G[s \ {First(s)}] \in Sums(f, s \ {First(s)})
             /\ G[s \ {First(s)}][s \ {First(s)}] \in Int
  <2>1. First(s) \in s
    BY <1>5 DEF First
  <2>2. s \ {First(s)} \in SUBSET T /\ s \ {First(s)} # T
    BY <2>1
  <2>3. G[s \ {First(s)}] \in Sums(f, s \ {First(s)})
    BY <1>4, <2>2
  <2> QED BY <2>1, <2>2, <2>3 DEF Sums
<1>6. /\ DOMAIN gT = SUBSET T
      /\ gT = [s \in SUBSET T |-> gT[s]]
      /\ \A s \in SUBSET T : gT[s] = IF s = {} THEN 0 ELSE f[First(s)] + G[s \ {First(s)}][s \ {First(s)}]
  BY DEF Value
<1> HIDE DEF gT
<1>61. gT \in [SUBSET T -> Int]
  <2>1. ASSUME NEW s \in SUBSET T PROVE gT[s] \in Int
    <3>1. CASE s = {}
      <4>1. gT[s] = 0
        BY <3>1, <1>6
      <4> QED BY <4>1
    <3>2. CASE s # {}
      <4>1. First(s) \in S
        BY <1>3, <1>5, <3>2
      <4>2. gT[s] = f[First(s)] + G[s \ {First(s)}][s \ {First(s)}]
        BY <3>2, <1>6
      <4>3. f[First(s)] \in Int
        BY <4>1
      <4>4. G[s \ {First(s)}][s \ {First(s)}] \in Int
        BY <3>2, <1>5
      <4> HIDE DEF G
      <4> QED BY <4>2, <4>3, <4>4
    <3> QED BY <3>1, <3>2
  <2> QED BY <2>1, <1>6
<1>7. ASSUME NEW s \in SUBSET T, s # {}
      PROVE  gT[s \ {First(s)}] = G[s \ {First(s)}][s \ {First(s)}]
  <2> DEFINE t == s \ {First(s)}
             u == t \ {First(t)}
  <2>1. t \in SUBSET T /\ G[t] \in Sums(f, t) /\ t # T
    BY <1>5, <1>7
  <2>2. G[t][t] = Value(f, G[t], t)
    BY <2>1 DEF Sums, Follows
  <2>3. gT[t] = IF t = {} THEN 0 ELSE f[First(t)] + G[u][u]
    BY <1>6, <2>1
  <2>4. CASE t = {}
    BY <2>2, <2>3, <2>4 DEF Value
  <2>5. CASE t # {}
    <3>1. u \in SUBSET t /\ G[u] \in Sums(f, u)
      BY <1>5, <2>1, <2>5
    <3>2. IsFiniteSet(t)
      BY <1>3, <2>1, FS_Subset
    <3>3. G[t][u] = G[u][u]
      BY <2>1, <3>1, <3>2, SumsAgree DEF Sums
    <3> QED BY <2>2, <2>3, <2>5, <3>3 DEF Value
  <2> QED BY <2>4, <2>5
<1>8. ASSUME NEW s \in SUBSET T PROVE gT[s] = Value(f, gT, s)
  <2>1. CASE s = {}
    BY <2>1, <1>6 DEF Value
  <2>2. CASE s # {}
    BY <2>2, <1>6, <1>7 DEF Value
  <2> QED BY <2>1, <2>2
<1>9. gT \in Sums(f, T)
  BY <1>61, <1>8 DEF Sums, Follows
<1> QED BY <1>2, <1>9

\* The fold of FiniteSetsExt computes these values.
LEMMA SumIsValue ==
    ASSUME NEW f, NEW S, IsFiniteSet(S), \A x \in S : f[x] \in Int
    PROVE  \E g \in Sums(f, S) : SumOver(f, S) = g[S]
<1> DEFINE It(g) == g = [s \in SUBSET S |->
                          IF s = {} THEN 0
                          ELSE f[CHOOSE x \in s : TRUE] + g[s \ {CHOOSE x \in s : TRUE}]]
           it == CHOOSE g : It(g)
<1>1. SumOver(f, S) = it[S]
  BY DEF SumOver, MapThenSumSet, MapThenFoldSet
<1>2. PICK h \in Sums(f, S) : TRUE
  BY SumsExist
<1>3. It(h)
  BY <1>2 DEF Sums, Follows, Value, First
<1>4. It(it)
  BY <1>3
<1>5. Follows(f, it, S)
  <2> HIDE DEF it
  <2> QED BY <1>4 DEF Follows, Value, First
<1>6. it[S] = h[S]
  <2> HIDE DEF it
  <2>1. S \in SUBSET S
    OBVIOUS
  <2>2. Follows(f, h, S)
    BY <1>2 DEF Sums
  <2> QED BY <1>5, <2>1, <2>2, SumsAgree
<1> QED BY <1>1, <1>2, <1>6

-----------------------------------------------------------------------------
(* What the proofs use of a sum. *)

\* A sum of integers is an integer.
LEMMA SumType ==
    ASSUME NEW f, NEW S, IsFiniteSet(S), \A x \in S : f[x] \in Int
    PROVE  SumOver(f, S) \in Int
<1>1. PICK g \in Sums(f, S) : SumOver(f, S) = g[S]
  BY SumIsValue
<1> QED BY <1>1 DEF Sums

\* The sum over no element is zero.
LEMMA SumEmpty == ASSUME NEW f PROVE SumOver(f, {}) = 0
<1>1. IsFiniteSet({})
  BY FS_EmptySet
<1>2. PICK g \in Sums(f, {}) : SumOver(f, {}) = g[{}]
  BY <1>1, SumIsValue
<1> QED BY <1>2 DEF Sums, Follows, Value

\* The fold's own step.
LEMMA SumFirst ==
    ASSUME NEW f, NEW S, IsFiniteSet(S), \A x \in S : f[x] \in Int, S # {}
    PROVE  /\ First(S) \in S
           /\ SumOver(f, S) = f[First(S)] + SumOver(f, S \ {First(S)})
<1> DEFINE T == S \ {First(S)}
<1>1. First(S) \in S
  BY DEF First
<1>2. IsFiniteSet(T) /\ \A x \in T : f[x] \in Int
  BY FS_RemoveElement
<1>3. PICK g \in Sums(f, S) : SumOver(f, S) = g[S]
  BY SumIsValue
<1>4. PICK h \in Sums(f, T) : SumOver(f, T) = h[T]
  BY <1>2, SumIsValue
<1>5. g[T] = h[T]
  <2>1. T \in SUBSET S /\ T \in SUBSET T
    OBVIOUS
  <2> HIDE DEF T
  <2>2. Follows(f, g, S) /\ Follows(f, h, T)
    BY <1>3, <1>4 DEF Sums
  <2> QED BY <2>1, <2>2, SumsAgree
<1>6. g[S] = f[First(S)] + g[T]
  BY <1>3 DEF Sums, Follows, Value
<1> QED BY <1>1, <1>3, <1>4, <1>5, <1>6

\* Any element may be taken out first: the order of the fold does not matter.
LEMMA SumRemove ==
    ASSUME NEW f, NEW S, IsFiniteSet(S), \A x \in S : f[x] \in Int, NEW y \in S
    PROVE  SumOver(f, S) = f[y] + SumOver(f, S \ {y})
<1> DEFINE B == {T \in SUBSET S : \E z \in T : SumOver(f, T) # f[z] + SumOver(f, T \ {z})}
<1>1. SUFFICES ASSUME B # {} PROVE FALSE
  OBVIOUS
<1>2. PICK T \in B : \A U \in B : U \subseteq T => U = T
  <2>1. B \subseteq SUBSET S
    OBVIOUS
  <2> HIDE DEF B
  <2> QED BY <1>1, <2>1, MinimalSubset
<1>3. PICK z \in T : SumOver(f, T) # f[z] + SumOver(f, T \ {z})
  OBVIOUS
<1>4. ASSUME NEW U \in SUBSET T, U # T, NEW v \in U
      PROVE  SumOver(f, U) = f[v] + SumOver(f, U \ {v})
  BY <1>2, <1>4
<1>5. \A U \in SUBSET T : IsFiniteSet(U) /\ \A x \in U : f[x] \in Int
  <2>1. T \in SUBSET S
    OBVIOUS
  <2> QED BY <2>1, FS_Subset
<1> HIDE DEF B
<1> DEFINE w == First(T)
<1>6. w \in T /\ SumOver(f, T) = f[w] + SumOver(f, T \ {w})
  BY <1>3, <1>5, SumFirst
<1> HIDE DEF w
<1>7. w # z
  BY <1>3, <1>6
<1>8. SumOver(f, T \ {w}) = f[z] + SumOver(f, (T \ {w}) \ {z})
  BY <1>4, <1>6, <1>7
<1>9. SumOver(f, T \ {z}) = f[w] + SumOver(f, (T \ {z}) \ {w})
  BY <1>4, <1>6, <1>7
<1>10. (T \ {z}) \ {w} = (T \ {w}) \ {z}
  OBVIOUS
<1>11. f[w] \in Int /\ f[z] \in Int /\ SumOver(f, (T \ {w}) \ {z}) \in Int
  BY <1>5, <1>6, SumType
<1> DEFINE rest == SumOver(f, (T \ {w}) \ {z})
<1>12. /\ SumOver(f, T) = f[w] + (f[z] + rest)
       /\ f[z] + SumOver(f, T \ {z}) = f[z] + (f[w] + rest)
       /\ rest \in Int
  BY ONLY <1>6, <1>8, <1>9, <1>10, <1>11, Zenon DEF rest
<1>13. f[w] + (f[z] + rest) = f[z] + (f[w] + rest)
  <2> HIDE DEF rest
  <2> QED BY <1>11, <1>12
<1> QED BY <1>3, <1>12, <1>13, Zenon

\* One element more.
LEMMA SumAdd ==
    ASSUME NEW f, NEW S, IsFiniteSet(S), \A x \in S : f[x] \in Int,
           NEW y, y \notin S, f[y] \in Int
    PROVE  SumOver(f, S \cup {y}) = SumOver(f, S) + f[y]
<1> DEFINE T == S \cup {y}
<1>1. IsFiniteSet(T) /\ \A x \in T : f[x] \in Int
  BY FS_AddElement
<1>2. y \in T /\ T \ {y} = S
  OBVIOUS
<1>3. SumOver(f, T) = f[y] + SumOver(f, T \ {y})
  <2> HIDE DEF T
  <2> QED BY <1>1, <1>2, SumRemove
<1>4. SumOver(f, S) \in Int
  BY SumType
<1>5. SumOver(f, T) = f[y] + SumOver(f, S)
  <2> HIDE DEF T
  <2> QED BY <1>2, <1>3, Zenon
<1> DEFINE sumT == SumOver(f, T)
           sumS == SumOver(f, S)
<1>6. sumT = f[y] + sumS /\ sumS \in Int
  BY <1>4, <1>5
<1> HIDE DEF sumT, sumS
<1>7. sumT = sumS + f[y]
  BY <1>6
<1> QED BY <1>7 DEF sumT, sumS

\* A sum of natural numbers is a natural number.
LEMMA SumNat ==
    ASSUME NEW f, NEW S, IsFiniteSet(S), \A x \in S : f[x] \in Nat
    PROVE  SumOver(f, S) \in Nat
<1> DEFINE B == {T \in SUBSET S : SumOver(f, T) \notin Nat}
<1>1. SUFFICES ASSUME B # {} PROVE FALSE
  OBVIOUS
<1>2. PICK T \in B : \A U \in B : U \subseteq T => U = T
  <2>1. B \subseteq SUBSET S
    OBVIOUS
  <2> HIDE DEF B
  <2> QED BY <1>1, <2>1, MinimalSubset
<1>3. IsFiniteSet(T) /\ \A x \in T : f[x] \in Int
  <2>1. T \in SUBSET S
    OBVIOUS
  <2> QED BY <2>1, FS_Subset
<1>4. T # {}
  BY SumEmpty
<1>5. First(T) \in T /\ SumOver(f, T) = f[First(T)] + SumOver(f, T \ {First(T)})
  BY <1>3, <1>4, SumFirst
<1>6. SumOver(f, T \ {First(T)}) \in Nat
  BY <1>2, <1>5
<1>7. f[First(T)] \in Nat
  BY <1>5
<1> QED BY <1>2, <1>5, <1>6, <1>7

\* A sum of ones counts.
LEMMA SumOnes ==
    ASSUME NEW f, NEW S, IsFiniteSet(S), \A x \in S : f[x] = 1
    PROVE  SumOver(f, S) = Cardinality(S)
<1> DEFINE B == {T \in SUBSET S : SumOver(f, T) # Cardinality(T)}
<1>1. SUFFICES ASSUME B # {} PROVE FALSE
  OBVIOUS
<1>2. PICK T \in B : \A U \in B : U \subseteq T => U = T
  <2>1. B \subseteq SUBSET S
    OBVIOUS
  <2> HIDE DEF B
  <2> QED BY <1>1, <2>1, MinimalSubset
<1>3. /\ IsFiniteSet(T) /\ T \in SUBSET S
      /\ \A x \in T : f[x] \in Int /\ f[x] = 1
  <2>1. T \in SUBSET S
    OBVIOUS
  <2> QED BY <2>1, FS_Subset
<1>4. T # {}
  BY SumEmpty, FS_EmptySet
<1> DEFINE y == First(T)
           rest == T \ {y}
<1>5. y \in T /\ SumOver(f, T) = f[y] + SumOver(f, rest)
  BY <1>3, <1>4, SumFirst
<1>6. SumOver(f, rest) = Cardinality(rest)
  BY <1>2, <1>3, <1>5
<1>7. Cardinality(rest) = Cardinality(T) - 1 /\ Cardinality(T) \in Nat
  BY <1>3, <1>5, FS_RemoveElement, FS_CardinalityType
<1>8. SumOver(f, T) = Cardinality(T)
  <2> HIDE DEF B, y, rest
  <2> QED BY <1>3, <1>5, <1>6, <1>7
<1> QED BY <1>2, <1>8

\* A sum of zeros is zero.
LEMMA SumZeros ==
    ASSUME NEW f, NEW S, IsFiniteSet(S), \A x \in S : f[x] = 0
    PROVE  SumOver(f, S) = 0
<1> DEFINE B == {T \in SUBSET S : SumOver(f, T) # 0}
<1>1. SUFFICES ASSUME B # {} PROVE FALSE
  OBVIOUS
<1>2. PICK T \in B : \A U \in B : U \subseteq T => U = T
  <2>1. B \subseteq SUBSET S
    OBVIOUS
  <2> HIDE DEF B
  <2> QED BY <1>1, <2>1, MinimalSubset
<1>3. /\ IsFiniteSet(T) /\ T \in SUBSET S
      /\ \A x \in T : f[x] \in Int /\ f[x] = 0
  <2>1. T \in SUBSET S
    OBVIOUS
  <2> QED BY <2>1, FS_Subset
<1>4. T # {}
  BY SumEmpty
<1> DEFINE y == First(T)
           rest == T \ {y}
<1>5. y \in T /\ SumOver(f, T) = f[y] + SumOver(f, rest)
  BY <1>3, <1>4, SumFirst
<1>6. SumOver(f, rest) = 0
  BY <1>2, <1>3, <1>5
<1>7. SumOver(f, T) = 0
  <2> HIDE DEF B, y, rest
  <2> QED BY <1>3, <1>5, <1>6
<1> QED BY <1>2, <1>7

\* A sum depends only on the values over its set.
LEMMA SumAgree ==
    ASSUME NEW f, NEW g, NEW S, IsFiniteSet(S), \A x \in S : f[x] \in Int /\ g[x] = f[x]
    PROVE  SumOver(g, S) = SumOver(f, S)
<1> DEFINE B == {T \in SUBSET S : SumOver(g, T) # SumOver(f, T)}
<1>1. SUFFICES ASSUME B # {} PROVE FALSE
  OBVIOUS
<1>2. PICK T \in B : \A U \in B : U \subseteq T => U = T
  <2>1. B \subseteq SUBSET S
    OBVIOUS
  <2> HIDE DEF B
  <2> QED BY <1>1, <2>1, MinimalSubset
<1>3. IsFiniteSet(T) /\ \A x \in T : f[x] \in Int /\ g[x] \in Int /\ g[x] = f[x]
  <2>1. T \in SUBSET S
    OBVIOUS
  <2> QED BY <2>1, FS_Subset
<1>4. T # {}
  BY SumEmpty
<1> DEFINE y == First(T)
<1>5. /\ y \in T
      /\ SumOver(f, T) = f[y] + SumOver(f, T \ {y})
      /\ SumOver(g, T) = g[y] + SumOver(g, T \ {y})
  BY <1>3, <1>4, SumFirst
<1>6. SumOver(g, T \ {y}) = SumOver(f, T \ {y})
  BY <1>2, <1>5
<1> QED BY <1>2, <1>3, <1>5, <1>6

\* One value changed.
LEMMA SumUpdate ==
    ASSUME NEW f, NEW g, NEW S, IsFiniteSet(S), \A x \in S : f[x] \in Int,
           NEW y \in S, g[y] \in Int, \A x \in S \ {y} : g[x] = f[x]
    PROVE  SumOver(g, S) = SumOver(f, S) + g[y] - f[y]
<1> DEFINE T == S \ {y}
           sumF == SumOver(f, S)
           sumG == SumOver(g, S)
           restF == SumOver(f, T)
           restG == SumOver(g, T)
<1>1. IsFiniteSet(T)
  BY FS_RemoveElement
<1>2. \A x \in S : g[x] \in Int
  OBVIOUS
<1>3. sumF = f[y] + restF /\ sumG = g[y] + restG
  BY <1>2, SumRemove
<1>4. restG = restF /\ restF \in Int
  BY <1>1, SumAgree, SumType
<1>5. f[y] \in Int /\ g[y] \in Int
  OBVIOUS
<1> HIDE DEF T, sumF, sumG, restF, restG
<1>6. sumG = sumF + g[y] - f[y]
  BY <1>3, <1>4, <1>5
<1> QED BY <1>6 DEF sumF, sumG
===============================================================================
