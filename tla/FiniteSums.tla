----------------------------- MODULE FiniteSums -----------------------------
(***************************************************************************)
(* Sums of functions over finite sets, as the community operator           *)
(* SumFunctionOnSet computes them: what the ledger's totals are compared   *)
(* with.  Its definition is recursive; the facts follow from the recursion *)
(* by considering a smallest set that violates them.                       *)
(***************************************************************************)
EXTENDS Integers, FiniteSets, FiniteSetsExt, FiniteSetTheorems, TLAPS

\* The element the recursion of a fold takes out of S.
Pick(S) == CHOOSE x \in S : TRUE

\* g obeys the recursion of a sum of f over every subset of T.
Sums(g, f, T) ==
    \A s \in SUBSET T : g[s] = IF s = {} THEN 0 ELSE f[Pick(s)] + g[s \ {Pick(s)}]

\* A non-empty set of finite sets has a minimal member.
LEMMA MinimalSubset ==
    ASSUME NEW S, IsFiniteSet(S), NEW B \in SUBSET (SUBSET S), B # {}
    PROVE  \E t \in B : \A u \in SUBSET t : u # t => u \notin B
<1>1. IsWellFoundedOn(StrictSubsetOrdering(S), SUBSET S)
  BY FS_StrictSubsetOrderingWellFounded, FS_FiniteSubsetsOfFinite
<1>2. PICK t \in B : \A u \in B : ~(<<u, t>> \in StrictSubsetOrdering(S))
  BY <1>1, WFMin
<1>3. ASSUME NEW u \in SUBSET t, u # t, u \in B PROVE FALSE
  <2>1. <<u, t>> \in StrictSubsetOrdering(S)
    BY <1>3 DEF StrictSubsetOrdering
  <2> QED
    BY <1>2, <1>3, <2>1
<1> QED
  BY <1>3

\* The element picked from a non-empty set is one of its own.
LEMMA PickIn == ASSUME NEW S, S # {} PROVE Pick(S) \in S
  BY DEF Pick

\* Two such functions agree wherever both are defined.
LEMMA SumsUnique ==
    ASSUME NEW S, IsFiniteSet(S), NEW f, NEW T \in SUBSET S, NEW U \in SUBSET S,
           NEW g, NEW h, Sums(g, f, T), Sums(h, f, U), 
           NEW s \in SUBSET T, s \in SUBSET U
    PROVE  g[s] = h[s]
<1> DEFINE B == {t \in SUBSET S : t \in SUBSET T /\ t \in SUBSET U /\ g[t] # h[t]}
<1>1. SUFFICES ASSUME B # {} PROVE FALSE
  OBVIOUS
<1>2. PICK t \in B : \A u \in SUBSET t : u # t => u \notin B
  <2> HIDE DEF B
  <2>0. B \in SUBSET (SUBSET S)
     BY DEF B
  <2> QED
   BY <1>1, <2>0, MinimalSubset
<1>3. CASE t = {}
  BY <1>3 DEF Sums
<1>4. CASE t # {}
  <2> DEFINE x == Pick(t)
  <2>1. x \in t
    BY <1>4, PickIn
  <2>2. g[t] = f[x] + g[t \ {x}] /\ h[t] = f[x] + h[t \ {x}]
    BY <1>4 DEF Sums
  <2> HIDE DEF x
  <2>3. t \ {x} \in SUBSET t /\ t \ {x} # t
    BY <2>1
  <2>4. g[t \ {x}] = h[t \ {x}]
    BY <1>2, <2>3
  <2> QED
    BY <2>2, <2>4
<1> QED
  BY <1>3, <1>4

\* There is such a function: a smallest set without one would get it from its
\* proper subsets.
LEMMA SumsExist ==
    ASSUME NEW S, IsFiniteSet(S), NEW f, \A x \in S : f[x] \in Int
    PROVE  \E g \in [SUBSET S -> Int] : Sums(g, f, S)
<1> DEFINE Has(t) == \E g \in [SUBSET t -> Int] : Sums(g, f, t)
           B == {t \in SUBSET S : ~Has(t)}
<1>1. SUFFICES ASSUME B # {} PROVE FALSE
  OBVIOUS
<1>2. PICK t \in B : \A u \in SUBSET t : u # t => u \notin B
  <2> HIDE DEF B
  <2>0. B \in SUBSET (SUBSET S)
     BY DEF B
  <2> QED
   BY <1>1, <2>0, MinimalSubset
<1> DEFINE G(u) == CHOOSE g \in [SUBSET u -> Int] : Sums(g, f, u)
           rest(s) == s \ {Pick(s)}
           g == [s \in SUBSET t |-> IF s = {} THEN 0 ELSE f[Pick(s)] + G(rest(s))[rest(s)]]
<1>3. ASSUME NEW u \in SUBSET t, u # t PROVE G(u) \in [SUBSET u -> Int] /\ Sums(G(u), f, u)
  <2>1. \E k \in [SUBSET u -> Int] : Sums(k, f, u)
    BY <1>2, <1>3
  <2> QED
    BY <2>1
<1> HIDE DEF G
<1>4. ASSUME NEW s \in SUBSET t, s # {}
      PROVE  /\ f[Pick(s)] \in Int
             /\ rest(s) \in SUBSET s /\ rest(s) \in SUBSET t /\ rest(s) # t
             /\ G(rest(s)) \in [SUBSET rest(s) -> Int] /\ Sums(G(rest(s)), f, rest(s))
  <2>1. Pick(s) \in s
    BY <1>4, PickIn
  <2>2. rest(s) \in SUBSET s /\ rest(s) \in SUBSET t /\ rest(s) # t
    BY <2>1
  <2> QED
    BY <1>3, <2>1, <2>2
<1>5. g \in [SUBSET t -> Int]
  <2>1. ASSUME NEW s \in SUBSET t
        PROVE  (IF s = {} THEN 0 ELSE f[Pick(s)] + G(rest(s))[rest(s)]) \in Int
    <3>1. CASE s # {}
      <4>1. f[Pick(s)] \in Int /\ G(rest(s)) \in [SUBSET rest(s) -> Int]
        BY <1>4, <3>1
      <4> HIDE DEF rest
      <4>2. G(rest(s))[rest(s)] \in Int
        BY <4>1
      <4> QED
        BY <3>1, <4>1, <4>2
    <3> QED
      BY <3>1
  <2> QED
    BY <2>1
<1>6. ASSUME NEW s \in SUBSET t
      PROVE g[s] = IF s = {} THEN 0 ELSE f[Pick(s)] + g[rest(s)]
  <2>1. CASE s = {}
    BY <2>1
  <2>2. CASE s # {} 
    <3> DEFINE u == rest(s)
    <3>1. g[s] = f[Pick(s)] + G(u)[u]
      BY <2>2
    <3>2. u \in SUBSET t /\ u # t /\ Sums(G(u), f, u)
      BY <2>2, <1>4
    <3>3. g[u] = IF u = {} THEN 0 ELSE f[Pick(u)] + G(rest(u))[rest(u)]
      BY <3>2
    <3>4. G(u)[u] = IF u = {} THEN 0 ELSE f[Pick(u)] + G(u)[rest(u)]
      BY <3>2 DEF Sums
    <3>5. CASE u = {}
      BY <3>1, <3>3, <3>4, <3>5, <2>2
    <3>6. CASE u # {}
      <4>1. rest(u) \in SUBSET u /\ Sums(G(rest(u)), f, rest(u))
        BY <1>4, <3>2, <3>6
      <4>2. u \in SUBSET S /\ rest(u) \in SUBSET S /\ rest(u) \in SUBSET rest(u)
        BY <3>2, <4>1
      <4> HIDE DEF u, rest
      <4>3. G(u)[rest(u)] = G(rest(u))[rest(u)]
        BY <3>2, <4>1, <4>2, SumsUnique
      <4>4. g[u] = G(u)[u]
        BY <3>3, <3>4, <3>6, <4>3
      <4>5. g[s] = f[Pick(s)] + g[rest(s)]
        BY <4>4, <3>1 DEF u
      <4> QED
        BY <4>5, <2>2
    <3> QED
      BY <3>5, <3>6
  <2> QED
    BY <2>1, <2>2
<1>7. Sums(g, f, t)
  BY <1>6 DEF Sums
<1> QED
  BY <1>2, <1>5, <1>7

\* The community operator computes what the recursion says.
LEMMA SumRecursion ==
    ASSUME NEW S, IsFiniteSet(S), NEW f, \A x \in S : f[x] \in Int
    PROVE  \E g \in [SUBSET S -> Int] : Sums(g, f, S) /\ SumFunctionOnSet(f, S) = g[S]
<1> DEFINE body(it) == [s \in SUBSET S |->
               IF s = {} THEN 0 ELSE f[Pick(s)] + it[s \ {Pick(s)}]]
           iter == CHOOSE it : it = body(it)
<1>1. SumFunctionOnSet(f, S) = iter[S]
  BY DEF SumFunctionOnSet, FoldFunctionOnSet, MapThenFoldSet, Pick
<1>2. PICK g \in [SUBSET S -> Int] : Sums(g, f, S)
  BY SumsExist
<1>3. g = body(g)
  BY <1>2 DEF Sums
<1>4. iter = body(iter)
  <2> HIDE DEF body
  <2> QED BY <1>3
<1> HIDE DEF iter
<1>5. Sums(iter, f, S)
  BY <1>4 DEF Sums
<1>6. iter[S] = g[S]
  BY <1>2, <1>5, SumsUnique
<1> QED
  BY <1>1, <1>2, <1>6

\* Nothing adds up to 0.
LEMMA SumEmpty == ASSUME NEW f PROVE SumFunctionOnSet(f, {}) = 0
<1>1. IsFiniteSet({})
  BY FS_EmptySet
<1>2. PICK g \in [SUBSET {} -> Int] : Sums(g, f, {}) /\ SumFunctionOnSet(f, {}) = g[{}]
  BY <1>1, SumRecursion
<1> QED
  BY <1>2 DEF Sums

\* A sum of integers is one.
LEMMA SumInt ==
    ASSUME NEW S, IsFiniteSet(S), NEW f, \A x \in S : f[x] \in Int
    PROVE  SumFunctionOnSet(f, S) \in Int
<1>1. PICK g \in [SUBSET S -> Int] : SumFunctionOnSet(f, S) = g[S]
  BY SumRecursion
<1> QED
  BY <1>1

\* The recursion, in terms of the operator.
LEMMA SumPicks ==
    ASSUME NEW S, IsFiniteSet(S), S # {}, NEW f, \A x \in S : f[x] \in Int
    PROVE  /\ Pick(S) \in S
           /\ SumFunctionOnSet(f, S) = f[Pick(S)] + SumFunctionOnSet(f, S \ {Pick(S)})
<1> DEFINE p == Pick(S)  R == S \ {p}
<1>1. p \in S
  BY PickIn
<1> HIDE DEF p
<1>2. R \in SUBSET S /\ IsFiniteSet(R) /\ \A x \in R : f[x] \in Int
  BY FS_Subset
<1> HIDE DEF R
<1>3. PICK g \in [SUBSET S -> Int] : Sums(g, f, S) /\ SumFunctionOnSet(f, S) = g[S]
  BY SumRecursion
<1>4. PICK h \in [SUBSET R -> Int] : Sums(h, f, R) /\ SumFunctionOnSet(f, R) = h[R]
  BY <1>2, SumRecursion
<1>5. g[R] = h[R]
  BY <1>2, <1>3, <1>4, SumsUnique
<1>6. g[S] = f[p] + g[R]
  BY <1>3 DEF Sums, p, R
<1> QED
  BY <1>1, <1>3, <1>4, <1>5, <1>6 DEF p, R

\* Any element may be taken out of a sum first.
LEMMA SumRemove ==
    ASSUME NEW S, IsFiniteSet(S), NEW f, \A x \in S : f[x] \in Int, NEW r \in S
    PROVE  SumFunctionOnSet(f, S) = f[r] + SumFunctionOnSet(f, S \ {r})
<1> DEFINE Sum(t) == SumFunctionOnSet(f, t)
           B == {t \in SUBSET S : \E x \in t : Sum(t) # f[x] + Sum(t \ {x})}
<1> HIDE DEF Sum
<1>1. ASSUME NEW t \in SUBSET S
      PROVE  /\ Sum(t) \in Int
             /\ t # {} => Pick(t) \in t /\ Sum(t) = f[Pick(t)] + Sum(t \ {Pick(t)})
  <2>1. IsFiniteSet(t) /\ \A x \in t : f[x] \in Int
    BY FS_Subset
  <2> QED
    BY <2>1, SumInt, SumPicks DEF Sum
<1>2. SUFFICES ASSUME B # {} PROVE FALSE
  BY DEF Sum
<1>3. PICK t \in B : \A u \in SUBSET t : u # t => u \notin B
  <2>1. B \in SUBSET (SUBSET S)
    OBVIOUS
  <2> HIDE DEF B
  <2> QED
    BY <1>2, <2>1, MinimalSubset
<1>4. PICK x \in t : Sum(t) # f[x] + Sum(t \ {x})
  BY <1>3
<1> DEFINE p == Pick(t)
<1>5. t \in SUBSET S /\ p \in t /\ Sum(t) = f[p] + Sum(t \ {p})
  BY <1>1, <1>3, <1>4
<1> HIDE DEF p
<1>6. p # x
  BY <1>4, <1>5
<1>7. Sum(t \ {p}) = f[x] + Sum((t \ {p}) \ {x})
  <2>1. t \ {p} \in SUBSET t /\ t \ {p} # t /\ x \in t \ {p}
    BY <1>4, <1>5, <1>6
  <2> QED
    BY <1>3, <1>5, <2>1
<1>8. Sum(t \ {x}) = f[p] + Sum((t \ {x}) \ {p})
  <2>1. t \ {x} \in SUBSET t /\ t \ {x} # t /\ p \in t \ {x}
    BY <1>4, <1>5, <1>6
  <2> QED
    BY <1>3, <1>5, <2>1
<1>9. Sum((t \ {p}) \ {x}) = Sum((t \ {x}) \ {p})
  <2>1. (t \ {p}) \ {x} = (t \ {x}) \ {p}
    OBVIOUS
  <2> QED
    BY <2>1
<1>10. f[p] \in Int /\ f[x] \in Int /\ Sum((t \ {p}) \ {x}) \in Int
  <2>1. (t \ {p}) \ {x} \in SUBSET S
    BY <1>5
  <2> QED
    BY <1>1, <1>4, <1>5, <2>1
<1>11. Sum(t) = f[x] + Sum(t \ {x})
  <2> HIDE DEF B
  <2> QED
    BY <1>5, <1>7, <1>8, <1>9, <1>10
<1> QED
  BY <1>4, <1>11

\* A sum depends only on the values summed.
LEMMA SumSame ==
    ASSUME NEW S, IsFiniteSet(S), NEW f, NEW g, \A x \in S : f[x] \in Int /\ g[x] = f[x]
    PROVE  SumFunctionOnSet(g, S) = SumFunctionOnSet(f, S)
<1>1. PICK F \in [SUBSET S -> Int] : Sums(F, f, S) /\ SumFunctionOnSet(f, S) = F[S]
  BY SumRecursion
<1>2. PICK G \in [SUBSET S -> Int] : Sums(G, g, S) /\ SumFunctionOnSet(g, S) = G[S]
  BY SumRecursion
<1>3. Sums(G, f, S)
  <2>1. ASSUME NEW s \in SUBSET S, s # {} PROVE g[Pick(s)] = f[Pick(s)]
    BY <2>1, PickIn
  <2> QED
    BY <1>2, <2>1 DEF Sums
<1>4. F[S] = G[S]
  BY <1>1, <1>3, SumsUnique
<1> QED
  BY <1>1, <1>2, <1>4

\* A sum of natural numbers is one.
LEMMA SumNat ==
    ASSUME NEW S, IsFiniteSet(S), NEW f, \A x \in S : f[x] \in Nat
    PROVE  SumFunctionOnSet(f, S) \in Nat
<1> DEFINE Sum(t) == SumFunctionOnSet(f, t)
           B == {t \in SUBSET S : Sum(t) \notin Nat}
<1> HIDE DEF Sum
<1>1. SUFFICES ASSUME B # {} PROVE FALSE
  BY DEF Sum
<1>2. PICK t \in B : \A u \in SUBSET t : u # t => u \notin B
  <2>1. B \in SUBSET (SUBSET S)
    OBVIOUS
  <2> HIDE DEF B
  <2> QED
    BY <1>1, <2>1, MinimalSubset
<1>3. t # {}
  <2>1. Sum(t) \notin Nat /\ Sum({}) = 0
    BY <1>2, SumEmpty DEF Sum
  <2> QED
    BY <2>1
<1>4. PICK x \in t : TRUE
  BY <1>3
<1>5. IsFiniteSet(t) /\ \A y \in t : f[y] \in Int
  BY <1>2, FS_Subset
<1>6. Sum(t) = f[x] + Sum(t \ {x})
  BY <1>5, SumRemove DEF Sum
<1>7. Sum(t \ {x}) \in Nat
  BY <1>2
<1> QED
  BY <1>2, <1>6, <1>7

\* When one element enters, leaves or changes its value, the sum changes by
\* just that; the old value was within the sum.
LEMMA SumMoves ==
    ASSUME NEW S, IsFiniteSet(S), NEW A \in SUBSET S, NEW B \in SUBSET S, NEW r,
           A \ {r} = B \ {r},
           NEW f \in [S -> Nat], NEW g \in [S -> Nat], \A x \in S \ {r} : g[x] = f[x],
           NEW was, was = IF r \in A THEN f[r] ELSE 0,
           NEW now, now = IF r \in B THEN g[r] ELSE 0
    PROVE  /\ SumFunctionOnSet(f, A) \in Nat
           /\ was \in Nat /\ now \in Nat /\ was <= SumFunctionOnSet(f, A)
           /\ SumFunctionOnSet(g, B) = SumFunctionOnSet(f, A) - was + now
<1> DEFINE C == A \ {r}
<1>1. /\ IsFiniteSet(A) /\ \A x \in A : f[x] \in Nat
      /\ IsFiniteSet(B) /\ \A x \in B : g[x] \in Nat
      /\ IsFiniteSet(C) /\ \A x \in C : f[x] \in Nat
      /\ \A x \in A : f[x] \in Int
      /\ \A x \in B : g[x] \in Int
  BY FS_Subset
<1>2. SumFunctionOnSet(g, C) = SumFunctionOnSet(f, C)
  BY <1>1, SumSame
<1>3. SumFunctionOnSet(f, C) \in Nat
  BY <1>1, SumNat
<1>4. SumFunctionOnSet(f, A) = SumFunctionOnSet(f, C) + was
  <2>1. CASE r \in A
    <3>1. SumFunctionOnSet(f, A) = f[r] + SumFunctionOnSet(f, C)
      BY <1>1, <2>1, SumRemove
    <3> QED
      BY <1>1, <1>3, <2>1, <3>1
  <2>2. CASE r \notin A
    <3>1. SumFunctionOnSet(f, C) = SumFunctionOnSet(f, A)
      <4>1. C = A
        BY <2>2
      <4> QED
        BY <4>1
    <3> HIDE DEF C
    <3> QED
      BY <1>3, <2>2, <3>1
  <2> QED
    BY <2>1, <2>2
<1>5. SumFunctionOnSet(g, B) = SumFunctionOnSet(f, C) + now
  <2>1. CASE r \in B
    <3>1. SumFunctionOnSet(g, B) = g[r] + SumFunctionOnSet(g, B \ {r})
      BY <1>1, <2>1, SumRemove
    <3>2. SumFunctionOnSet(g, B \ {r}) = SumFunctionOnSet(g, C)
      <4>1. B \ {r} = C
        OBVIOUS
      <4> QED
        BY <4>1
    <3> HIDE DEF C
    <3> QED
      BY <1>1, <1>2, <1>3, <2>1, <3>1, <3>2
  <2>2. CASE r \notin B
    <3>1. SumFunctionOnSet(g, C) = SumFunctionOnSet(g, B)
      <4>1. C = B
        BY <2>2
      <4> QED
        BY <4>1
    <3> HIDE DEF C
    <3> QED
      BY <1>2, <1>3, <2>2, <3>1
  <2> QED
    BY <2>1, <2>2
<1>6. was \in Nat /\ now \in Nat
  BY <1>1
<1> QED
  BY <1>3, <1>4, <1>5, <1>6

\* Summing the values of f over less than g's adds up to no more.
LEMMA SumOrdered ==
    ASSUME NEW S, IsFiniteSet(S), NEW f, NEW g,
           \A x \in S : f[x] \in Int /\ g[x] \in Int /\ f[x] <= g[x]
    PROVE  SumFunctionOnSet(f, S) <= SumFunctionOnSet(g, S)
<1> DEFINE F(t) == SumFunctionOnSet(f, t)
           G(t) == SumFunctionOnSet(g, t)
           B == {t \in SUBSET S : ~(F(t) <= G(t))}
<1> HIDE DEF F, G
<1>1. SUFFICES ASSUME B # {} PROVE FALSE
  BY DEF F, G
<1>2. PICK t \in B : \A u \in SUBSET t : u # t => u \notin B
  <2>1. B \in SUBSET (SUBSET S)
    OBVIOUS
  <2> HIDE DEF B
  <2> QED
    BY <1>1, <2>1, MinimalSubset
<1>3. t # {}
  <2>1. ~(F(t) <= G(t)) /\ F({}) = 0 /\ G({}) = 0
    BY <1>2, SumEmpty DEF F, G
  <2> QED
    BY <2>1
<1>4. PICK x \in t : TRUE
  BY <1>3
<1>5. /\ IsFiniteSet(t) /\ \A y \in t : f[y] \in Int /\ g[y] \in Int /\ f[y] <= g[y]
      /\ IsFiniteSet(t \ {x})
  BY <1>2, FS_Subset
<1>6. /\ F(t) = f[x] + F(t \ {x}) /\ G(t) = g[x] + G(t \ {x})
      /\ F(t \ {x}) \in Int /\ G(t \ {x}) \in Int
  BY <1>5, SumRemove, SumInt DEF F, G
<1>7. F(t \ {x}) <= G(t \ {x})
  BY <1>2
<1>8. f[x] \in Int /\ g[x] \in Int /\ f[x] <= g[x] /\ ~(F(t) <= G(t))
  BY <1>2, <1>5
<1> HIDE DEF B
<1> QED
  BY <1>6, <1>7, <1>8

\* Zeros add up to zero.
LEMMA SumZero ==
    ASSUME NEW S, IsFiniteSet(S), NEW f, \A x \in S : f[x] = 0
    PROVE  SumFunctionOnSet(f, S) = 0
<1> DEFINE F(t) == SumFunctionOnSet(f, t)
           B == {t \in SUBSET S : F(t) # 0}
<1> HIDE DEF F
<1>1. SUFFICES ASSUME B # {} PROVE FALSE
  BY DEF F
<1>2. PICK t \in B : \A u \in SUBSET t : u # t => u \notin B
  <2>1. B \in SUBSET (SUBSET S)
    OBVIOUS
  <2> HIDE DEF B
  <2> QED
    BY <1>1, <2>1, MinimalSubset
<1>3. t # {}
  <2>1. F(t) # 0 /\ F({}) = 0
    BY <1>2, SumEmpty DEF F
  <2> QED
    BY <2>1
<1>4. PICK x \in t : TRUE
  BY <1>3
<1>5. IsFiniteSet(t) /\ \A y \in t : f[y] = 0 /\ f[y] \in Int
  BY <1>2, FS_Subset
<1>6. F(t) = f[x] + F(t \ {x})
  BY <1>5, SumRemove DEF F
<1>7. F(t \ {x}) = 0
  BY <1>2
<1> QED
  BY <1>2, <1>5, <1>6, <1>7

=============================================================================
