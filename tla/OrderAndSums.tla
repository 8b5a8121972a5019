----------------------------- MODULE OrderAndSums -----------------------------
(***************************************************************************)
(* Least and greatest elements of sets of naturals, for the proofs about   *)
(* row locks that are taken in the order of the ids, and sums over finite  *)
(* sets, for the proofs that money is neither lost nor made.               *)
(***************************************************************************)
EXTENDS Integers, FiniteSets, FiniteSetTheorems, WellFoundedInduction, Functions, TLAPS

\* Every non-empty set of naturals has a least element.
LEMMA LeastNatural ==
    ASSUME NEW S \in SUBSET Nat, S # {}
    PROVE  \E m \in S : \A n \in S : m <= n
<1>1. PICK m \in S : \A n \in S : <<n, m>> \notin OpToRel(<, Nat)
  BY NatLessThanWellFounded, WFMin
<1>2. \A n \in S : ~(n < m)
  BY <1>1 DEF OpToRel
<1> QED
  BY <1>2

\* Every non-empty finite set of naturals has a greatest element: one with the fewest
\* elements above it.
LEMMA GreatestNatural ==
    ASSUME NEW S \in SUBSET Nat, IsFiniteSet(S), S # {}
    PROVE  \E m \in S : \A n \in S : n <= m
<1> DEFINE above(x) == {y \in S : y > x}
           counts == {Cardinality(above(x)) : x \in S}
<1>1. \A x \in S : IsFiniteSet(above(x)) /\ Cardinality(above(x)) \in Nat
  BY FS_Subset, FS_CardinalityType
<1>2. counts \in SUBSET Nat /\ counts # {}
  BY <1>1
<1>3. PICK k \in counts : \A n \in counts : k <= n
  BY <1>2, LeastNatural
<1>4. PICK m \in S : \A x \in S : Cardinality(above(m)) <= Cardinality(above(x))
  BY <1>3
<1>5. ASSUME NEW y \in S, y > m PROVE FALSE
  <2>1. above(y) \in SUBSET above(m) /\ y \in above(m) /\ y \notin above(y)
    <3>1. \A z \in S : z > y => z > m
      BY <1>5
    <3>2. y \in above(m)
      BY <1>5
    <3>3. y \notin above(y)
      OBVIOUS
    <3> QED
      BY <3>1, <3>2, <3>3
  <2>2. Cardinality(above(y)) <= Cardinality(above(m))
    BY <1>1, <2>1, FS_Subset
  <2>3. Cardinality(above(m)) = Cardinality(above(y))
    <3>1. /\ Cardinality(above(m)) \in Nat /\ Cardinality(above(y)) \in Nat
          /\ Cardinality(above(m)) <= Cardinality(above(y))
      BY <1>1, <1>4
    <3> HIDE DEF above
    <3> QED
      BY <3>1, <2>2
  <2>4. above(m) = above(y)
    BY <1>1, <2>1, <2>3, FS_Subset
  <2> QED
    BY <2>1, <2>4
<1> QED
  BY <1>4, <1>5
-----------------------------------------------------------------------------
(* Sums over finite sets: what SumFunctionOnSet of the community modules computes. *)

\* A set of subsets of a finite set has a member that has no member below it.
LEMMA MinimalSubset ==
    ASSUME NEW S, IsFiniteSet(S), NEW B \in SUBSET (SUBSET S), B # {}
    PROVE  \E T \in B : \A U \in B : U \subseteq T => U = T
<1> DEFINE sizes == {Cardinality(T) : T \in B}
<1>1. \A T \in B : IsFiniteSet(T) /\ Cardinality(T) \in Nat
  BY FS_Subset, FS_CardinalityType
<1>2. PICK k \in sizes : \A n \in sizes : k <= n
  <2>1. sizes \in SUBSET Nat /\ sizes # {}
    BY <1>1
  <2> HIDE DEF sizes
  <2> QED
    BY <2>1, LeastNatural
<1>3. PICK T \in B : \A U \in B : Cardinality(T) <= Cardinality(U)
  BY <1>2
<1>4. ASSUME NEW U \in B, U \subseteq T PROVE U = T
  <2>1. Cardinality(U) <= Cardinality(T) /\ Cardinality(T) <= Cardinality(U)
    BY <1>1, <1>3, <1>4, FS_Subset
  <2>2. Cardinality(U) = Cardinality(T)
    BY <1>1, <2>1
  <2> QED
    BY <1>1, <1>4, <2>2, FS_Subset
<1> QED
  BY <1>4

Pick(T) == CHOOSE x \in T : TRUE

LEMMA Picked ==
    ASSUME NEW T, T # {}
    PROVE  Pick(T) \in T
  BY DEF Pick

\* g is the fold that the community modules define: it takes one element after the other.
Folding(f, S, g) ==
    g = [T \in SUBSET S |-> IF T = {} THEN 0 ELSE f[Pick(T)] + g[T \ {Pick(T)}]]

\* Such a function exists: it is built up by the size of the subsets.
LEMMA FoldingExists ==
    ASSUME NEW S, IsFiniteSet(S), NEW f, \A x \in S : f[x] \in Int
    PROVE  \E g \in [SUBSET S -> Int] : Folding(f, S, g)
<1> DEFINE Sized(n) == {T \in SUBSET S : Cardinality(T) <= n}
           Folds(n, g) == \A T \in Sized(n) :
                             g[T] = IF T = {} THEN 0 ELSE f[Pick(T)] + g[T \ {Pick(T)}]
           bad == {n \in Nat : ~\E g \in [Sized(n) -> Int] : Folds(n, g)}
<1>1. \A T \in SUBSET S : /\ IsFiniteSet(T) /\ Cardinality(T) \in Nat
                          /\ Cardinality(T) = 0 <=> T = {}
  BY FS_Subset, FS_CardinalityType, FS_EmptySet
<1>2. ASSUME NEW n \in Nat, NEW T \in Sized(n), T # {}
      PROVE  /\ Pick(T) \in S /\ f[Pick(T)] \in Int
             /\ T \ {Pick(T)} \in SUBSET S
             /\ Cardinality(T \ {Pick(T)}) = Cardinality(T) - 1
             /\ T \ {Pick(T)} \in Sized(n)
             /\ n > 0 /\ T \ {Pick(T)} \in Sized(n - 1)
  <2>1. Pick(T) \in T
    BY <1>2, Picked
  <2>2. Cardinality(T \ {Pick(T)}) = Cardinality(T) - 1
    BY <1>1, <2>1, FS_RemoveElement
  <2>3. Cardinality(T) \in Nat /\ Cardinality(T) # 0 /\ Cardinality(T) <= n
    BY <1>1, <1>2
  <2> QED
    BY <2>1, <2>2, <2>3
<1>3. bad = {}
  <2>1. SUFFICES ASSUME bad # {} PROVE FALSE
    OBVIOUS
  <2>2. PICK m \in bad : \A n \in bad : m <= n
    <3>1. bad \in SUBSET Nat
      OBVIOUS
    <3> HIDE DEF bad
    <3> QED
      BY <2>1, <3>1, LeastNatural
  <2>3. m \in Nat /\ ~\E g \in [Sized(m) -> Int] : Folds(m, g)
    OBVIOUS
  <2>4. CASE m = 0
    <3> DEFINE h == [T \in Sized(m) |-> 0]
    <3>1. \A T \in Sized(m) : T = {}
      BY <1>1, <2>4
    <3>2. h \in [Sized(m) -> Int] /\ Folds(m, h)
      BY <3>1
    <3> QED
      BY <2>3, <3>2
  <2>5. CASE m # 0
    <3>1. m - 1 \in Nat /\ m - 1 \notin bad
      <4>1. m - 1 \in Nat /\ ~(m <= m - 1)
        BY <2>3, <2>5
      <4> HIDE DEF bad
      <4> QED
        BY <2>2, <4>1
    <3>2. PICK g \in [Sized(m - 1) -> Int] : Folds(m - 1, g)
      BY <3>1
    <3> DEFINE h == [T \in Sized(m) |-> IF T = {} THEN 0 ELSE f[Pick(T)] + g[T \ {Pick(T)}]]
    <3>3. \A T \in Sized(m - 1) : T \in Sized(m)
      BY <1>1, <2>3
    <3> HIDE DEF Sized, bad
    <3>4. h \in [Sized(m) -> Int]
      <4>1. SUFFICES ASSUME NEW T \in Sized(m), T # {}
                     PROVE  f[Pick(T)] + g[T \ {Pick(T)}] \in Int
        OBVIOUS
      <4>2. T \ {Pick(T)} \in Sized(m - 1) /\ f[Pick(T)] \in Int
        BY <1>2, <2>3, <4>1
      <4>3. g[T \ {Pick(T)}] \in Int
        BY <3>2, <4>2
      <4> QED
        BY <4>2, <4>3
    <3>5. \A T \in Sized(m - 1) : h[T] = g[T]
      BY <3>2, <3>3
    <3>6. Folds(m, h)
      <4>1. SUFFICES ASSUME NEW T \in Sized(m)
                     PROVE  h[T] = IF T = {} THEN 0 ELSE f[Pick(T)] + h[T \ {Pick(T)}]
        OBVIOUS
      <4>2. T # {} => h[T \ {Pick(T)}] = g[T \ {Pick(T)}]
        BY <1>2, <2>3, <3>5
      <4> HIDE DEF Folds
      <4> QED
        BY <4>2
    <3> QED
      BY <2>3, <3>4, <3>6
  <2> QED
    BY <2>4, <2>5
<1>4. PICK g \in [Sized(Cardinality(S)) -> Int] : Folds(Cardinality(S), g)
  BY <1>1, <1>3
<1>5. Sized(Cardinality(S)) = SUBSET S
  BY <1>1, FS_Subset
<1>6. g = [T \in SUBSET S |-> IF T = {} THEN 0 ELSE f[Pick(T)] + g[T \ {Pick(T)}]]
  BY <1>4, <1>5
<1> QED
  BY <1>4, <1>5, <1>6 DEF Folding

\* It is determined by what it folds.
LEMMA FoldingsAgree ==
    ASSUME NEW S, NEW R, IsFiniteSet(S), NEW f, NEW g, NEW h,
           Folding(f, S, g), Folding(f, R, h), NEW U \in SUBSET S, U \in SUBSET R
    PROVE  g[U] = h[U]
<1> DEFINE bad == {T \in SUBSET U : g[T] # h[T]}
<1>1. SUFFICES ASSUME bad # {} PROVE FALSE
  OBVIOUS
<1>2. IsFiniteSet(U) /\ bad \in SUBSET (SUBSET U)
  BY FS_Subset
<1>3. PICK T \in bad : \A V \in bad : V \subseteq T => V = T
  <2> HIDE DEF bad
  <2> QED
    BY <1>1, <1>2, MinimalSubset
<1>4. /\ g[T] = IF T = {} THEN 0 ELSE f[Pick(T)] + g[T \ {Pick(T)}]
      /\ h[T] = IF T = {} THEN 0 ELSE f[Pick(T)] + h[T \ {Pick(T)}]
  <2>1. T \in SUBSET S /\ T \in SUBSET R
    OBVIOUS
  <2>2. g = [V \in SUBSET S |-> IF V = {} THEN 0 ELSE f[Pick(V)] + g[V \ {Pick(V)}]]
    BY DEF Folding
  <2>3. h = [V \in SUBSET R |-> IF V = {} THEN 0 ELSE f[Pick(V)] + h[V \ {Pick(V)}]]
    BY DEF Folding
  <2>4. g[T] = IF T = {} THEN 0 ELSE f[Pick(T)] + g[T \ {Pick(T)}]
    BY <2>1, <2>2
  <2>5. h[T] = IF T = {} THEN 0 ELSE f[Pick(T)] + h[T \ {Pick(T)}]
    BY <2>1, <2>3
  <2> QED
    BY <2>4, <2>5
<1>5. T # {}
  BY <1>4
<1>6. T \ {Pick(T)} \in SUBSET U /\ T \ {Pick(T)} # T
  BY <1>5, Picked
<1>7. g[T \ {Pick(T)}] = h[T \ {Pick(T)}]
  BY <1>3, <1>6
<1> QED
  BY <1>4, <1>5, <1>7

\* The sum is what the fold gives for the whole set.
LEMMA SumIsFolding ==
    ASSUME NEW S, IsFiniteSet(S), NEW f, \A x \in S : f[x] \in Int
    PROVE  \E g : /\ Folding(f, S, g) /\ g \in [SUBSET S -> Int]
                  /\ SumFunctionOnSet(f, S) = g[S]
<1> DEFINE g == CHOOSE i : i = [T \in SUBSET S |-> IF T = {} THEN 0 ELSE
                                   f[CHOOSE x \in T : TRUE] + i[T \ {CHOOSE x \in T : TRUE}]]
<1>1. PICK k \in [SUBSET S -> Int] : Folding(f, S, k)
  BY FoldingExists
<1>2. Folding(f, S, g)
  BY <1>1 DEF Folding, Pick
<1>3. SumFunctionOnSet(f, S) = g[S]
  BY DEF SumFunctionOnSet, FoldFunctionOnSet, MapThenFoldSet
<1> HIDE DEF g
<1>4. \A T \in SUBSET S : g[T] = k[T]
  BY <1>1, <1>2, FoldingsAgree
<1>5. g \in [SUBSET S -> Int]
  <2>1. g = [T \in SUBSET S |-> IF T = {} THEN 0 ELSE f[Pick(T)] + g[T \ {Pick(T)}]]
    BY <1>2 DEF Folding
  <2>2. DOMAIN g = SUBSET S
    BY <2>1
  <2>3. g = [T \in SUBSET S |-> g[T]]
    BY <2>1, <2>2
  <2> QED
    BY <1>1, <1>4, <2>3
<1> QED
  BY <1>2, <1>3, <1>5

LEMMA SumUnfold ==
    ASSUME NEW S, IsFiniteSet(S), NEW f, \A x \in S : f[x] \in Int
    PROVE  /\ SumFunctionOnSet(f, S) \in Int
           /\ S = {} => SumFunctionOnSet(f, S) = 0
           /\ S # {} => SumFunctionOnSet(f, S)
                           = f[Pick(S)] + SumFunctionOnSet(f, S \ {Pick(S)})
<1>1. PICK g : Folding(f, S, g) /\ g \in [SUBSET S -> Int] /\ SumFunctionOnSet(f, S) = g[S]
  BY SumIsFolding
<1>2. S \in SUBSET S
  OBVIOUS
<1>3. g[S] = IF S = {} THEN 0 ELSE f[Pick(S)] + g[S \ {Pick(S)}]
  <2>1. g = [T \in SUBSET S |-> IF T = {} THEN 0 ELSE f[Pick(T)] + g[T \ {Pick(T)}]]
    BY <1>1 DEF Folding
  <2> QED
    BY <1>2, <2>1
<1>4. ASSUME S # {} PROVE SumFunctionOnSet(f, S \ {Pick(S)}) = g[S \ {Pick(S)}]
  <2>1. S \ {Pick(S)} \in SUBSET S /\ IsFiniteSet(S \ {Pick(S)})
    BY FS_Subset
  <2>2. \A x \in S \ {Pick(S)} : f[x] \in Int
    OBVIOUS
  <2>3. PICK h : /\ Folding(f, S \ {Pick(S)}, h)
                 /\ SumFunctionOnSet(f, S \ {Pick(S)}) = h[S \ {Pick(S)}]
    BY <2>1, <2>2, SumIsFolding
  <2> QED
    BY <1>1, <2>1, <2>3, FoldingsAgree
<1> QED
  BY <1>1, <1>2, <1>3, <1>4

\* The sum over the empty set.
LEMMA SumOfNothing == ASSUME NEW f PROVE SumFunctionOnSet(f, {}) = 0
BY SumUnfold, FS_EmptySet

\* The order of the elements does not matter: any one of them can be taken out.
LEMMA SumRemove ==
    ASSUME NEW S, IsFiniteSet(S), NEW f, \A x \in S : f[x] \in Int, NEW x \in S
    PROVE  SumFunctionOnSet(f, S) = SumFunctionOnSet(f, S \ {x}) + f[x]
<1> DEFINE Total(T) == SumFunctionOnSet(f, T)
           bad == {T \in SUBSET S : \E y \in T : Total(T) # Total(T \ {y}) + f[y]}
<1>1. \A T \in SUBSET S : /\ IsFiniteSet(T) /\ Total(T) \in Int
                          /\ T # {} => Total(T) = f[Pick(T)] + Total(T \ {Pick(T)})
  <2> SUFFICES ASSUME NEW T \in SUBSET S
               PROVE  /\ IsFiniteSet(T) /\ Total(T) \in Int
                      /\ T # {} => Total(T) = f[Pick(T)] + Total(T \ {Pick(T)})
    OBVIOUS
  <2>1. IsFiniteSet(T) /\ \A y \in T : f[y] \in Int
    BY FS_Subset
  <2> QED
    BY <2>1, SumUnfold
<1> HIDE DEF Total
<1>2. bad = {}
  <2>1. SUFFICES ASSUME bad # {} PROVE FALSE
    OBVIOUS
  <2>2. bad \in SUBSET (SUBSET S)
    OBVIOUS
  <2>3. PICK T \in bad : \A U \in bad : U \subseteq T => U = T
    <3> HIDE DEF bad
    <3> QED
      BY <2>1, <2>2, MinimalSubset
  <2>4. PICK y \in T : Total(T) # Total(T \ {y}) + f[y]
    OBVIOUS
  <2>5. T \in SUBSET S /\ T # {}
    OBVIOUS
  <2>6. PICK p \in T : p = Pick(T)
    BY <2>5, Picked
  <2>7. Total(T) = f[p] + Total(T \ {p})
    BY <1>1, <2>5, <2>6
  <2>8. p # y
    <3>1. Total(T \ {p}) \in Int /\ f[p] \in Int
      BY <1>1, <2>5
    <3>2. Total(T) = Total(T \ {p}) + f[p]
      BY ONLY <2>7, <3>1
    <3> QED
      BY ONLY <2>4, <3>2
  <2>9. T \ {p} \notin bad /\ T \ {y} \notin bad
    <3> HIDE DEF bad
    <3> QED
      BY <2>3
  <2>10. /\ y \in T \ {p} /\ T \ {p} \in SUBSET S
         /\ p \in T \ {y} /\ T \ {y} \in SUBSET S
         /\ (T \ {p}) \ {y} = (T \ {y}) \ {p}
    BY <2>5, <2>8
  <2>11. /\ Total(T \ {p}) = Total((T \ {p}) \ {y}) + f[y]
         /\ Total(T \ {y}) = Total((T \ {y}) \ {p}) + f[p]
    BY <2>9, <2>10
  <2>12. Total((T \ {p}) \ {y}) \in Int /\ f[p] \in Int /\ f[y] \in Int
    BY <1>1, <2>10
  <2>13. Total((T \ {y}) \ {p}) = Total((T \ {p}) \ {y})
    BY <2>10
  <2> HIDE DEF bad
  <2> QED
    BY ONLY <2>4, <2>7, <2>11, <2>12, <2>13
<1> QED
  BY <1>2 DEF Total

\* A sum depends only on the values at the elements it ranges over.
LEMMA SumSame ==
    ASSUME NEW S, IsFiniteSet(S), NEW f, NEW g,
           \A x \in S : f[x] \in Int /\ g[x] = f[x]
    PROVE  SumFunctionOnSet(g, S) = SumFunctionOnSet(f, S)
<1> DEFINE F(T) == SumFunctionOnSet(f, T)
           G(T) == SumFunctionOnSet(g, T)
           bad == {T \in SUBSET S : F(T) # G(T)}
<1>1. \A T \in SUBSET S : /\ T = {} => F(T) = 0 /\ G(T) = 0
                          /\ T # {} => /\ F(T) = f[Pick(T)] + F(T \ {Pick(T)})
                                       /\ G(T) = g[Pick(T)] + G(T \ {Pick(T)})
  <2> SUFFICES ASSUME NEW T \in SUBSET S
               PROVE  /\ T = {} => F(T) = 0 /\ G(T) = 0
                      /\ T # {} => /\ F(T) = f[Pick(T)] + F(T \ {Pick(T)})
                                   /\ G(T) = g[Pick(T)] + G(T \ {Pick(T)})
    OBVIOUS
  <2>1. IsFiniteSet(T) /\ (\A y \in T : f[y] \in Int) /\ (\A y \in T : g[y] \in Int)
    BY FS_Subset
  <2> QED
    BY <2>1, SumUnfold
<1> HIDE DEF F, G
<1>2. bad = {}
  <2>1. SUFFICES ASSUME bad # {} PROVE FALSE
    OBVIOUS
  <2>2. bad \in SUBSET (SUBSET S)
    OBVIOUS
  <2>3. PICK T \in bad : \A U \in bad : U \subseteq T => U = T
    <3> HIDE DEF bad
    <3> QED
      BY <2>1, <2>2, MinimalSubset
  <2>4. T \in SUBSET S /\ F(T) # G(T)
    OBVIOUS
  <2>5. T # {}
    BY <1>1, <2>4
  <2>6. Pick(T) \in T
    BY <2>5, Picked
  <2>7. T \ {Pick(T)} \notin bad /\ T \ {Pick(T)} \in SUBSET S
    <3> HIDE DEF bad
    <3> QED
      BY <2>3, <2>4, <2>6
  <2>8. F(T \ {Pick(T)}) = G(T \ {Pick(T)}) /\ f[Pick(T)] = g[Pick(T)]
    BY <2>4, <2>6, <2>7
  <2> QED
    BY <1>1, <2>4, <2>5, <2>8
<1>3. S \in SUBSET S
  OBVIOUS
<1> QED
  BY <1>2, <1>3 DEF F, G

\* One value changes: so does the sum, by as much.
LEMMA SumChange ==
    ASSUME NEW S, IsFiniteSet(S), NEW f, NEW g, NEW x \in S,
           \A y \in S : f[y] \in Int /\ g[y] \in Int,
           \A y \in S : y # x => g[y] = f[y]
    PROVE  SumFunctionOnSet(g, S) = SumFunctionOnSet(f, S) + g[x] - f[x]
<1>1. /\ SumFunctionOnSet(f, S) = SumFunctionOnSet(f, S \ {x}) + f[x]
      /\ SumFunctionOnSet(g, S) = SumFunctionOnSet(g, S \ {x}) + g[x]
  BY SumRemove
<1>2. IsFiniteSet(S \ {x}) /\ \A y \in S \ {x} : f[y] \in Int
  BY FS_Subset
<1>3. SumFunctionOnSet(g, S \ {x}) = SumFunctionOnSet(f, S \ {x})
  BY <1>2, SumSame
<1>4. SumFunctionOnSet(f, S \ {x}) \in Int /\ f[x] \in Int /\ g[x] \in Int
  BY <1>2, SumUnfold
<1> QED
  BY <1>1, <1>3, <1>4

\* One element more.
LEMMA SumAdd ==
    ASSUME NEW S, IsFiniteSet(S), NEW x, x \notin S, NEW f,
           \A y \in S \union {x} : f[y] \in Int
    PROVE  SumFunctionOnSet(f, S \union {x}) = SumFunctionOnSet(f, S) + f[x]
<1>1. IsFiniteSet(S \union {x}) /\ x \in S \union {x} /\ (S \union {x}) \ {x} = S
  BY FS_AddElement
<1> QED
  BY <1>1, SumRemove

\* One value changes, or one element enters or leaves: so does the sum, by as much.
LEMMA SumMove ==
    ASSUME NEW S, IsFiniteSet(S), NEW f, NEW g, NEW T \in SUBSET S, NEW U \in SUBSET S, NEW x,
           \A y \in S : f[y] \in Int /\ g[y] \in Int,
           \A y \in S : y # x => g[y] = f[y] /\ (y \in U <=> y \in T)
    PROVE  /\ SumFunctionOnSet(f, T) \in Int
           /\ SumFunctionOnSet(g, U) = SumFunctionOnSet(f, T)
                + (IF x \in U THEN g[x] ELSE 0) - (IF x \in T THEN f[x] ELSE 0)
<1>1. IsFiniteSet(T) /\ IsFiniteSet(U) /\ IsFiniteSet(T \ {x})
  BY FS_Subset
<1>2. (\A y \in T : f[y] \in Int) /\ (\A y \in U : g[y] \in Int)
  OBVIOUS
<1>3. /\ x \in T => SumFunctionOnSet(f, T) = SumFunctionOnSet(f, T \ {x}) + f[x]
      /\ x \in U => SumFunctionOnSet(g, U) = SumFunctionOnSet(g, U \ {x}) + g[x]
  BY <1>1, <1>2, SumRemove
<1>4. (x \notin T => T \ {x} = T) /\ (x \notin U => U \ {x} = U)
  OBVIOUS
<1>5. U \ {x} = T \ {x}
  OBVIOUS
<1>6. SumFunctionOnSet(g, T \ {x}) = SumFunctionOnSet(f, T \ {x})
  BY <1>1, SumSame
<1>7. SumFunctionOnSet(f, T \ {x}) \in Int /\ SumFunctionOnSet(f, T) \in Int
  BY <1>1, <1>2, SumUnfold
<1>8. /\ x \notin T => SumFunctionOnSet(f, T) = SumFunctionOnSet(f, T \ {x})
      /\ x \notin U => SumFunctionOnSet(g, U) = SumFunctionOnSet(f, T \ {x})
      /\ x \in U => SumFunctionOnSet(g, U) = SumFunctionOnSet(f, T \ {x}) + g[x]
  BY <1>3, <1>4, <1>5, <1>6
<1>9. (x \in T => f[x] \in Int) /\ (x \in U => g[x] \in Int)
  BY <1>2
<1> QED
  BY ONLY <1>3, <1>7, <1>8, <1>9

\* What one element gives another does not change the sum.
LEMMA SumTransfer ==
    ASSUME NEW S, IsFiniteSet(S), NEW f, NEW g, NEW x \in S, NEW y \in S, x # y,
           \A z \in S : f[z] \in Int /\ g[z] \in Int,
           \A z \in S : z # x /\ z # y => g[z] = f[z],
           g[x] + g[y] = f[x] + f[y]
    PROVE  SumFunctionOnSet(g, S) = SumFunctionOnSet(f, S)
<1> DEFINE h == [z \in S |-> IF z = x THEN g[x] ELSE f[z]]
<1>1. /\ \A z \in S : h[z] \in Int
      /\ \A z \in S : z # x => h[z] = f[z]
      /\ \A z \in S : z # y => g[z] = h[z]
      /\ h[x] = g[x] /\ h[y] = f[y]
  OBVIOUS
<1> HIDE DEF h
<1>2. SumFunctionOnSet(h, S) = SumFunctionOnSet(f, S) + g[x] - f[x]
  <2>1. SumFunctionOnSet(h, S) = SumFunctionOnSet(f, S) + h[x] - f[x]
    <3>1. \A z \in S : f[z] \in Int /\ h[z] \in Int
      BY <1>1
    <3>2. \A z \in S : z # x => h[z] = f[z]
      BY <1>1
    <3> QED
      BY ONLY <3>1, <3>2, IsFiniteSet(S), x \in S, SumChange
  <2> QED
    BY <1>1, <2>1
<1>3. SumFunctionOnSet(g, S) = SumFunctionOnSet(h, S) + g[y] - f[y]
  BY <1>1, SumChange
<1>4. SumFunctionOnSet(f, S) \in Int
  BY SumUnfold
<1> QED
  BY <1>2, <1>3, <1>4

\* A sum of naturals over a smaller set is not greater.
LEMMA SumLess ==
    ASSUME NEW S, IsFiniteSet(S), NEW f, \A x \in S : f[x] \in Nat, NEW T \in SUBSET S
    PROVE  SumFunctionOnSet(f, T) <= SumFunctionOnSet(f, S)
<1> DEFINE Total(D) == SumFunctionOnSet(f, D)
           bad == {D \in SUBSET S : ~(Total(T) <= Total(T \union D))}
<1>1. \A D \in SUBSET S : IsFiniteSet(D) /\ Total(D) \in Int
  <2> SUFFICES ASSUME NEW D \in SUBSET S PROVE IsFiniteSet(D) /\ Total(D) \in Int
    OBVIOUS
  <2>1. IsFiniteSet(D) /\ \A x \in D : f[x] \in Int
    BY FS_Subset
  <2> QED
    BY <2>1, SumUnfold
<1>2. \A D \in SUBSET S : \A x \in D : Total(D) = Total(D \ {x}) + f[x]
  <2> SUFFICES ASSUME NEW D \in SUBSET S, NEW x \in D PROVE Total(D) = Total(D \ {x}) + f[x]
    OBVIOUS
  <2>1. IsFiniteSet(D) /\ \A y \in D : f[y] \in Int
    BY FS_Subset
  <2> QED
    BY <2>1, SumRemove
<1> HIDE DEF Total
<1>3. bad = {}
  <2>1. SUFFICES ASSUME bad # {} PROVE FALSE
    OBVIOUS
  <2>2. bad \in SUBSET (SUBSET S)
    OBVIOUS
  <2>3. PICK D \in bad : \A U \in bad : U \subseteq D => U = D
    <3> HIDE DEF bad
    <3> QED
      BY <2>1, <2>2, MinimalSubset
  <2>4. D \in SUBSET S /\ ~(Total(T) <= Total(T \union D))
    OBVIOUS
  <2>5. T \in SUBSET S /\ Total(T) \in Int
    BY <1>1
  <2>6. PICK x \in D : x \notin T
    <3>1. ~(D \subseteq T)
      <4>1. D \subseteq T => T \union D = T
        OBVIOUS
      <4> HIDE DEF bad
      <4> QED
        BY <2>4, <2>5, <4>1
    <3> QED
      BY <3>1
  <2>7. D \ {x} \notin bad /\ D \ {x} \in SUBSET S
    <3> HIDE DEF bad
    <3> QED
      BY <2>3, <2>4, <2>6
  <2>8. Total(T) <= Total(T \union (D \ {x}))
    BY <2>7
  <2>9. /\ T \union D \in SUBSET S /\ x \in T \union D
        /\ (T \union D) \ {x} = T \union (D \ {x})
    BY <2>4, <2>5, <2>6
  <2>10. Total(T \union D) = Total(T \union (D \ {x})) + f[x]
    BY <1>2, <2>9
  <2>11. Total(T \union (D \ {x})) \in Int /\ f[x] \in Nat
    BY <1>1, <2>4, <2>5, <2>6
  <2> HIDE DEF bad
  <2> QED
    BY ONLY <2>4, <2>5, <2>8, <2>10, <2>11
<1>4. S \notin bad /\ T \union S = S
  BY <1>3
<1> QED
  BY <1>4 DEF Total
\* A sum that is positive has a positive term, and one that is negative a negative term.
LEMMA SumHasSign ==
    ASSUME NEW S, IsFiniteSet(S), NEW f, \A x \in S : f[x] \in Int
    PROVE  /\ SumFunctionOnSet(f, S) \in Int
           /\ SumFunctionOnSet(f, S) > 0 => \E x \in S : f[x] > 0
           /\ SumFunctionOnSet(f, S) < 0 => \E x \in S : f[x] < 0
<1> DEFINE Total(D) == SumFunctionOnSet(f, D)
           Signed(D) == /\ Total(D) > 0 => \E x \in D : f[x] > 0
                        /\ Total(D) < 0 => \E x \in D : f[x] < 0
           bad == {D \in SUBSET S : ~Signed(D)}
<1>1. \A D \in SUBSET S : /\ Total(D) \in Int
                          /\ \A x \in D : Total(D) = Total(D \ {x}) + f[x]
  <2> SUFFICES ASSUME NEW D \in SUBSET S
               PROVE  /\ Total(D) \in Int
                      /\ \A x \in D : Total(D) = Total(D \ {x}) + f[x]
    OBVIOUS
  <2>1. IsFiniteSet(D) /\ \A x \in D : f[x] \in Int
    BY FS_Subset
  <2> QED
    BY <2>1, SumUnfold, SumRemove
<1>2. Total({}) = 0
  BY SumOfNothing
<1> HIDE DEF Total
<1>3. bad = {}
  <2>1. SUFFICES ASSUME bad # {} PROVE FALSE
    OBVIOUS
  <2>2. bad \in SUBSET (SUBSET S)
    OBVIOUS
  <2>3. PICK D \in bad : \A U \in bad : U \subseteq D => U = D
    <3> HIDE DEF bad
    <3> QED
      BY <2>1, <2>2, MinimalSubset
  <2>4. D \in SUBSET S /\ ~Signed(D)
    OBVIOUS
  <2>5. PICK x \in D : TRUE
    <3>1. D # {}
      <4>1. Signed({})
        BY <1>2
      <4> HIDE DEF bad, Signed
      <4> QED
        BY <2>4, <4>1
    <3> QED
      BY <3>1
  <2>6. Signed(D \ {x})
    <3>1. D \ {x} \in SUBSET S /\ D \ {x} \notin bad
      <4> HIDE DEF bad
      <4> QED
        BY <2>3, <2>4, <2>5
    <3> QED
      BY <3>1
  <2>7. /\ Total(D) \in Int /\ Total(D \ {x}) \in Int /\ f[x] \in Int
        /\ Total(D) = Total(D \ {x}) + f[x]
    BY <1>1, <2>4, <2>5
  <2>8. \A y \in D : f[y] \in Int
    BY <2>4
  <2> HIDE DEF bad
  <2>9. CASE Total(D) > 0 /\ \A y \in D : ~(f[y] > 0)
    <3>1. ~(f[x] > 0)
      BY <2>5, <2>9
    <3>2. Total(D \ {x}) > 0
      BY <2>7, <2>9, <3>1
    <3> QED
      BY <2>6, <2>9, <3>2
  <2>10. CASE Total(D) < 0 /\ \A y \in D : ~(f[y] < 0)
    <3>1. ~(f[x] < 0)
      BY <2>5, <2>10
    <3>2. Total(D \ {x}) < 0
      BY <2>7, <2>10, <3>1
    <3> QED
      BY <2>6, <2>10, <3>2
  <2> QED
    BY <2>4, <2>9, <2>10
<1>4. Signed(S) /\ Total(S) \in Int
  BY <1>1, <1>3
<1> QED
  BY <1>4 DEF Total
=============================================================================
