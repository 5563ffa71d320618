----------------------------- MODULE FoldLemmas -----------------------------
(***************************************************************************)
(* What the proofs need to know of folds and of the order of slots: a fold    *)
(* over a sequence of indices is a run of its step, so that what every step  *)
(* keeps the fold keeps.  The lemmas take the step as a function, since a     *)
(* theorem with an operator parameter cannot be instantiated.                *)
(***************************************************************************)
EXTENDS TLAPS, WellFoundedInduction, FiniteSetTheorems, FiniteSetsExt

(* Least and greatest elements of sets of natural numbers. *)

(* A set of numbers up to n that is not empty has a greatest one: n minus    *)
(* the least of the distances to n.                                          *)
LEMMA GreatestUpTo ==
  ASSUME NEW n \in Nat, NEW S, S \subseteq 1 .. n, S # {}
  PROVE  \E m \in S : \A k \in S : k <= m
<1> DEFINE R == OpToRel(<, Nat)
           D == {n - k : k \in S}
<1>1. D \subseteq Nat /\ D # {}
  <2> HIDE DEF R
  <2>1. ASSUME NEW k \in S PROVE n - k \in Nat
    OBVIOUS
  <2>2. D \subseteq Nat
    BY <2>1
  <2>3. PICK k \in S : TRUE
    OBVIOUS
  <2>4. n - k \in D
    BY <2>3
  <2>5. QED
    BY <2>2, <2>4
<1>2. PICK d \in D : \A e \in D : <<e, d>> \notin R
  <2> HIDE DEF R, D
  <2>1. IsWellFoundedOn(R, Nat)
    BY NatLessThanWellFounded DEF R
  <2>2. QED
    BY <1>1, <2>1, WFMin
<1>3. PICK m \in S : d = n - m
  BY <1>2
<1>4. ASSUME NEW k \in S PROVE k <= m
  <2>1. n - k \in D /\ n - k \in Nat /\ d \in Nat
    BY <1>1, <1>2
  <2>2. n - k < d => <<n - k, d>> \in R
    BY <2>1 DEF OpToRel
  <2> HIDE DEF R, D
  <2>3. ~(n - k < d)
    BY <1>2, <2>1, <2>2
  <2>4. QED
    BY <1>3, <2>3
<1>5. QED
  BY <1>4

(* A set of natural numbers that is not empty has a least one.               *)
LEMMA LeastOf ==
  ASSUME NEW S, S \subseteq Nat, S # {}
  PROVE  \E m \in S : \A k \in S : m <= k
<1> DEFINE R == OpToRel(<, Nat)
<1>1. PICK m \in S : \A k \in S : <<k, m>> \notin R
  <2> HIDE DEF R
  <2>1. IsWellFoundedOn(R, Nat)
    BY NatLessThanWellFounded DEF R
  <2>2. QED
    BY <2>1, WFMin
<1>2. ASSUME NEW k \in S PROVE m <= k
  <2>1. m \in Nat /\ k \in Nat
    OBVIOUS
  <2>2. k < m => <<k, m>> \in R
    BY <2>1 DEF OpToRel
  <2> HIDE DEF R
  <2>3. ~(k < m)
    BY <1>1, <2>2
  <2>4. QED
    BY <2>1, <2>3
<1>3. QED
  BY <1>2

(* The greatest element of a set of numbers up to n.                         *)
LEMMA MaxOfUpTo ==
  ASSUME NEW n \in Nat, NEW S, S \subseteq 1 .. n, S # {}
  PROVE  Max(S) \in S /\ \A k \in S : k <= Max(S)
<1>1. \E m \in S : \A k \in S : m >= k
  <2>1. PICK m \in S : \A k \in S : k <= m
    BY GreatestUpTo
  <2>2. \A k \in S : m >= k
    BY <2>1
  <2>3. QED
    BY <2>2
<1>2. QED
  BY <1>1 DEF Max

(* The least element of a set of numbers.                                    *)
LEMMA MinOf ==
  ASSUME NEW S, S \subseteq Nat, S # {}
  PROVE  Min(S) \in S /\ \A k \in S : Min(S) <= k
<1>1. \E m \in S : \A k \in S : m <= k
  BY LeastOf
<1>2. QED
  BY <1>1 DEF Min

(* 1 .. k is 1 .. k - 1 with k, its greatest element.                        *)
LEMMA PrefixFacts ==
  ASSUME NEW n \in Nat
  PROVE  \A k \in 1 .. n : /\ 1 .. k \in SUBSET (1 .. n) /\ 1 .. k # {}
                           /\ Max(1 .. k) = k /\ (1 .. k) \ {k} = 1 .. (k - 1)
<1> SUFFICES ASSUME NEW k \in 1 .. n
             PROVE  /\ 1 .. k \in SUBSET (1 .. n) /\ 1 .. k # {}
                    /\ Max(1 .. k) = k /\ (1 .. k) \ {k} = 1 .. (k - 1)
  OBVIOUS
<1> DEFINE x == Max(1 .. k)
<1>1. 1 .. k # {} /\ 1 .. k \subseteq 1 .. k /\ k \in Nat
  OBVIOUS
<1>2. x \in 1 .. k /\ \A j \in 1 .. k : j <= x
  BY <1>1, MaxOfUpTo
<1> HIDE DEF x
<1>3. x = k
  BY <1>2
<1>4. QED
  BY <1>1, <1>3 DEF x

(* Induction over 0 .. n, for a set of good numbers.                         *)
LEMMA UpTo ==
  ASSUME NEW n \in Nat, NEW Good, 0 \in Good,
         \A k \in 1 .. n : k - 1 \in Good => k \in Good
  PROVE  0 .. n \subseteq Good
<1> SUFFICES ASSUME ~(0 .. n \subseteq Good) PROVE FALSE
  OBVIOUS
<1> DEFINE Bad == {k \in 0 .. n : k \notin Good}
<1>1. Bad \subseteq Nat /\ Bad # {}
  OBVIOUS
<1>2. PICK m \in Bad : \A k \in Bad : m <= k
  BY <1>1, LeastOf
<1>3. m \in 1 .. n
  OBVIOUS
<1>4. m - 1 \in 0 .. n /\ ~(m <= m - 1)
  BY <1>3
<1>5. m - 1 \notin Bad
  BY <1>2, <1>4
<1>6. QED
  BY <1>3, <1>4, <1>5

-----------------------------------------------------------------------------
(* The equation of a fold over the finite set D that takes out pick[s] last. *)
FoldSolution(h, D, pick, base, g) ==
  \A s \in SUBSET D : h[s] = IF s = {} THEN base ELSE g[<<h[s \ {pick[s]}], pick[s]>>]

(* It has a solution, by induction on the cardinality of the subsets of D.   *)
LEMMA FoldExists ==
  ASSUME NEW D, IsFiniteSet(D), NEW T, NEW base \in T, NEW g \in [T \X D -> T],
         NEW pick, \A s \in SUBSET D : s # {} => pick[s] \in s
  PROVE  \E h \in [SUBSET D -> T] : FoldSolution(h, D, pick, base, g)
<1> DEFINE Small(m) == {s \in SUBSET D : Cardinality(s) <= m}
           Rest(s) == s \ {pick[s]}
           Solves(m, h) ==
             \A s \in Small(m) : h[s] = IF s = {} THEN base ELSE g[<<h[Rest(s)], pick[s]>>]
           N == Cardinality(D)
           Good == {m \in 0 .. N : \E h \in [Small(m) -> T] : Solves(m, h)}
<1>1. N \in Nat /\ \A s \in SUBSET D : IsFiniteSet(s) /\ Cardinality(s) \in 0 .. N
  <2>1. N \in Nat
    BY FS_CardinalityType
  <2>2. \A s \in SUBSET D : IsFiniteSet(s) /\ Cardinality(s) <= N
    BY FS_Subset
  <2>3. \A s \in SUBSET D : Cardinality(s) \in Nat
    BY <2>2, FS_CardinalityType
  <2>4. QED
    BY <2>1, <2>2, <2>3
<1>2. \A s \in SUBSET D : s # {} =>
        /\ pick[s] \in s /\ Rest(s) \in SUBSET D
        /\ Cardinality(Rest(s)) = Cardinality(s) - 1
  <2> SUFFICES ASSUME NEW s \in SUBSET D, s # {}
               PROVE  /\ pick[s] \in s /\ Rest(s) \in SUBSET D
                      /\ Cardinality(Rest(s)) = Cardinality(s) - 1
    OBVIOUS
  <2>1. IsFiniteSet(s) /\ pick[s] \in s
    BY <1>1
  <2>2. Cardinality(s \ {pick[s]}) = Cardinality(s) - 1
    BY <2>1, FS_RemoveElement
  <2>3. QED
    BY <2>1, <2>2
<1>3. \A s \in SUBSET D : Cardinality(s) = 0 <=> s = {}
  BY <1>1, FS_EmptySet
<1> HIDE DEF N
<1>4. 0 \in Good
  <2> DEFINE h == [s \in Small(0) |-> base]
  <2>1. \A s \in Small(0) : s = {}
    BY <1>1, <1>3
  <2>2. h \in [Small(0) -> T] /\ Solves(0, h)
    BY <2>1
  <2> HIDE DEF h, Solves, Small
  <2>3. 0 \in 0 .. N
    BY <1>1
  <2>4. QED
    BY <2>2, <2>3
<1>5. ASSUME NEW m \in 1 .. N, m - 1 \in Good PROVE m \in Good
  <2>1. PICK h \in [Small(m - 1) -> T] : Solves(m - 1, h)
    BY <1>5
  <2> DEFINE Value(s) == IF s \in Small(m - 1) THEN h[s] ELSE g[<<h[Rest(s)], pick[s]>>]
             e == [s \in Small(m) |-> Value(s)]
  <2>2. /\ {} \in Small(m - 1) /\ Small(m - 1) \subseteq Small(m)
        /\ \A s \in Small(m) : s # {} => pick[s] \in D /\ Rest(s) \in Small(m - 1)
    BY <1>1, <1>2, <1>3
  <2> HIDE DEF Small, Rest
  <2>3. e \in [Small(m) -> T]
    BY <2>1, <2>2
  <2>4. ASSUME NEW s \in Small(m)
        PROVE  e[s] = IF s = {} THEN base ELSE g[<<e[Rest(s)], pick[s]>>]
    <3>1. CASE s = {}
      BY <2>1, <2>2, <3>1
    <3>2. CASE s # {}
      <4>1. e[Rest(s)] = h[Rest(s)]
        BY <2>2, <3>2
      <4>2. e[s] = g[<<h[Rest(s)], pick[s]>>]
        BY <2>1, <2>2, <3>2
      <4> HIDE DEF e
      <4>3. QED
        BY <3>2, <4>1, <4>2
    <3>3. QED
      BY <3>1, <3>2
  <2> HIDE DEF e
  <2>5. Solves(m, e)
    BY <2>4
  <2> HIDE DEF Solves
  <2>6. m \in 0 .. N
    BY <1>1
  <2>7. QED
    BY <2>3, <2>5, <2>6
<1> HIDE DEF Good
<1>6. 0 .. N \subseteq Good
  BY <1>1, <1>4, <1>5, UpTo
<1>7. N \in Good
  BY <1>1, <1>6
<1>8. Small(N) = SUBSET D
  BY <1>1
<1>9. PICK h \in [Small(N) -> T] : Solves(N, h)
  BY <1>7 DEF Good
<1>10. FoldSolution(h, D, pick, base, g)
  BY <1>8, <1>9 DEF FoldSolution
<1>11. QED
  BY <1>8, <1>9, <1>10

(* The same equation, of a step given as a function on T.                    *)
FoldsIn(h, D, pick, T, base, g) ==
  /\ h[{}] = base
  /\ \A s \in SUBSET D : s # {} /\ h[s \ {pick[s]}] \in T =>
       h[s] = g[<<h[s \ {pick[s]}], pick[s]>>]

(* A solution of the equation takes its values where the step does.          *)
LEMMA FoldTyped ==
  ASSUME NEW D, IsFiniteSet(D), NEW T, NEW base \in T, NEW g \in [T \X D -> T],
         NEW pick, \A s \in SUBSET D : s # {} => pick[s] \in s,
         NEW h, FoldsIn(h, D, pick, T, base, g)
  PROVE  h[D] \in T
<1> DEFINE Rest(s) == s \ {pick[s]}
           N == Cardinality(D)
           Good == {m \in 0 .. N : \A s \in SUBSET D : Cardinality(s) <= m => h[s] \in T}
<1>1. N \in Nat /\ \A s \in SUBSET D : IsFiniteSet(s) /\ Cardinality(s) \in 0 .. N
  <2>1. N \in Nat
    BY FS_CardinalityType
  <2>2. \A s \in SUBSET D : IsFiniteSet(s) /\ Cardinality(s) <= N
    BY FS_Subset
  <2>3. \A s \in SUBSET D : Cardinality(s) \in Nat
    BY <2>2, FS_CardinalityType
  <2>4. QED
    BY <2>1, <2>2, <2>3
<1>2. \A s \in SUBSET D : s # {} =>
        /\ pick[s] \in D /\ Rest(s) \in SUBSET D
        /\ Cardinality(Rest(s)) = Cardinality(s) - 1
  <2> SUFFICES ASSUME NEW s \in SUBSET D, s # {}
               PROVE  /\ pick[s] \in D /\ Rest(s) \in SUBSET D
                      /\ Cardinality(Rest(s)) = Cardinality(s) - 1
    OBVIOUS
  <2>1. IsFiniteSet(s) /\ pick[s] \in s
    BY <1>1
  <2>2. Cardinality(s \ {pick[s]}) = Cardinality(s) - 1
    BY <2>1, FS_RemoveElement
  <2>3. QED
    BY <2>1, <2>2
<1>3. \A s \in SUBSET D : Cardinality(s) = 0 => s = {}
  BY <1>1, FS_EmptySet
<1>4. \A s \in SUBSET D : s # {} /\ h[Rest(s)] \in T => h[s] \in T
  BY <1>2 DEF FoldsIn
<1> HIDE DEF N, Rest
<1>5. 0 \in Good
  <2>1. ASSUME NEW s \in SUBSET D, Cardinality(s) <= 0 PROVE h[s] \in T
    <3>1. s = {}
      BY <1>1, <1>3, <2>1
    <3>2. h[{}] \in T
      BY DEF FoldsIn
    <3>3. QED
      BY <3>1, <3>2
  <2>2. 0 \in 0 .. N
    BY <1>1
  <2>3. QED
    BY <2>1, <2>2
<1>6. ASSUME NEW m \in 1 .. N, m - 1 \in Good PROVE m \in Good
  <2>1. ASSUME NEW s \in SUBSET D, Cardinality(s) <= m PROVE h[s] \in T
    <3>1. CASE s = {}
      BY <3>1 DEF FoldsIn
    <3>2. CASE s # {}
      <4>1. Cardinality(Rest(s)) <= m - 1
        BY <1>1, <1>2, <2>1, <3>2
      <4>2. h[Rest(s)] \in T
        BY <1>2, <1>6, <3>2, <4>1
      <4>3. QED
        BY <1>4, <3>2, <4>2
    <3>3. QED
      BY <3>1, <3>2
  <2>2. m \in 0 .. N
    BY <1>1
  <2> HIDE DEF Good
  <2>3. QED
    BY <2>1, <2>2 DEF Good
<1> HIDE DEF Good
<1>7. 0 .. N \subseteq Good
  BY <1>1, <1>5, <1>6, UpTo
<1>8. N \in Good /\ Cardinality(D) <= N
  BY <1>1, <1>7 DEF N
<1>9. QED
  BY <1>8 DEF Good

(* The data of such a fold.                                                  *)
FoldData(D, pick, T, base, g) ==
  /\ IsFiniteSet(D) /\ base \in T /\ g \in [T \X D -> T]
  /\ \A s \in SUBSET D : s # {} => pick[s] \in s

(* Two solutions agree.                                                      *)
LEMMA FoldSame ==
  ASSUME NEW D, NEW T, NEW base, NEW g, NEW pick, FoldData(D, pick, T, base, g),
         NEW h, FoldsIn(h, D, pick, T, base, g),
         NEW k, FoldsIn(k, D, pick, T, base, g)
  PROVE  h[D] = k[D]
<1> IsFiniteSet(D) /\ base \in T /\ g \in [T \X D -> T]
    /\ \A s \in SUBSET D : s # {} => pick[s] \in s
  BY DEF FoldData
<1> DEFINE Rest(s) == s \ {pick[s]}
           N == Cardinality(D)
           Alike(s) == h[s] \in T /\ h[s] = k[s]
           Good == {m \in 0 .. N : \A s \in SUBSET D : Cardinality(s) <= m => Alike(s)}
<1>1. N \in Nat /\ \A s \in SUBSET D : IsFiniteSet(s) /\ Cardinality(s) \in 0 .. N
  <2>1. N \in Nat
    BY FS_CardinalityType
  <2>2. \A s \in SUBSET D : IsFiniteSet(s) /\ Cardinality(s) <= N
    BY FS_Subset
  <2>3. \A s \in SUBSET D : Cardinality(s) \in Nat
    BY <2>2, FS_CardinalityType
  <2>4. QED
    BY <2>1, <2>2, <2>3
<1>2. \A s \in SUBSET D : s # {} =>
        /\ pick[s] \in D /\ Rest(s) \in SUBSET D
        /\ Cardinality(Rest(s)) = Cardinality(s) - 1
  <2> SUFFICES ASSUME NEW s \in SUBSET D, s # {}
               PROVE  /\ pick[s] \in D /\ Rest(s) \in SUBSET D
                      /\ Cardinality(Rest(s)) = Cardinality(s) - 1
    OBVIOUS
  <2>1. IsFiniteSet(s) /\ pick[s] \in s
    BY <1>1
  <2>2. Cardinality(s \ {pick[s]}) = Cardinality(s) - 1
    BY <2>1, FS_RemoveElement
  <2>3. QED
    BY <2>1, <2>2
<1>3. \A s \in SUBSET D : Cardinality(s) = 0 <=> s = {}
  BY <1>1, FS_EmptySet
<1>4. Alike({})
  BY DEF FoldsIn
<1>5. ASSUME NEW s \in SUBSET D, s # {}, Alike(Rest(s)) PROVE Alike(s)
  <2>1. h[s] = g[<<h[Rest(s)], pick[s]>>] /\ k[s] = g[<<k[Rest(s)], pick[s]>>]
    BY <1>5 DEF FoldsIn
  <2>2. <<h[Rest(s)], pick[s]>> \in T \X D
    BY <1>2, <1>5
  <2>3. g[<<h[Rest(s)], pick[s]>>] \in T
    BY <2>2
  <2> HIDE DEF Rest
  <2>4. QED
    BY <1>5, <2>1, <2>3
<1> HIDE DEF N, Rest, Alike
<1>6. 0 \in Good
  <2>1. \A s \in SUBSET D : Cardinality(s) <= 0 => s = {}
    BY <1>1, <1>3
  <2>2. 0 \in 0 .. N
    BY <1>1
  <2>3. QED
    BY <1>4, <2>1, <2>2
<1>7. ASSUME NEW m \in 1 .. N, m - 1 \in Good PROVE m \in Good
  <2>1. ASSUME NEW s \in SUBSET D, Cardinality(s) <= m PROVE Alike(s)
    <3>1. CASE s = {}
      BY <3>1, <1>4
    <3>2. CASE s # {}
      <4>1. Rest(s) \in SUBSET D /\ Cardinality(Rest(s)) <= m - 1
        BY <1>1, <1>2, <2>1, <3>2
      <4>2. Alike(Rest(s))
        BY <1>7, <4>1
      <4>3. QED
        BY <3>2, <4>2, <1>5
    <3>3. QED
      BY <3>1, <3>2
  <2>2. m \in 0 .. N
    BY <1>1
  <2>3. QED
    BY <2>1, <2>2
<1> HIDE DEF Good
<1>8. 0 .. N \subseteq Good
  BY <1>1, <1>6, <1>7, UpTo
<1>9. N \in Good
  BY <1>1, <1>8
<1>10. Cardinality(D) <= N /\ D \in SUBSET D
  BY <1>1 DEF N
<1>11. QED
  BY <1>9, <1>10 DEF Good, Alike

-----------------------------------------------------------------------------
(* F gathers the values of f on a set of arguments, in any order.            *)
GathersUp(F, S, T, base, add, f) ==
  /\ F \in [SUBSET S -> T] /\ F[{}] = base
  /\ \A s \in SUBSET S, x \in S : x \notin s => F[s \union {x}] = add[<<F[s], f[x]>>]

(* The order in which two values are added does not matter.                  *)
OrderFree(T, add) ==
  /\ add \in [T \X T -> T]
  /\ \A u, v, w \in T : add[<<add[<<u, v>>], w>>] = add[<<add[<<u, w>>], v>>]

(* Then there is such an F: the last argument may be any.                    *)
LEMMA GathersExist ==
  ASSUME NEW S, IsFiniteSet(S), NEW T, NEW base \in T, NEW add, OrderFree(T, add),
         NEW f \in [S -> T]
  PROVE  \E F : GathersUp(F, S, T, base, add, f)
<1> DEFINE N == Cardinality(S)
           Has(s) == \E F : GathersUp(F, s, T, base, add, f)
           Good == {m \in 0 .. N : \A s \in SUBSET S : Cardinality(s) <= m => Has(s)}
<1>1. N \in Nat /\ \A s \in SUBSET S : IsFiniteSet(s) /\ Cardinality(s) \in 0 .. N
  <2>1. N \in Nat
    BY FS_CardinalityType
  <2>2. \A s \in SUBSET S : IsFiniteSet(s) /\ Cardinality(s) <= N
    BY FS_Subset
  <2>3. \A s \in SUBSET S : Cardinality(s) \in Nat
    BY <2>2, FS_CardinalityType
  <2>4. QED
    BY <2>1, <2>2, <2>3
<1>2. \A s \in SUBSET S : Cardinality(s) = 0 <=> s = {}
  BY <1>1, FS_EmptySet
<1>3. Has({})
  <2> DEFINE F == [s \in SUBSET {} |-> base]
  <2>1. GathersUp(F, {}, T, base, add, f)
    BY DEF GathersUp
  <2>2. QED
    BY <2>1
<1>4. ASSUME NEW s \in SUBSET S, NEW x \in s, Has(s \ {x}) PROVE Has(s)
  <2> DEFINE r == s \ {x}
  <2>1. PICK F : GathersUp(F, r, T, base, add, f)
    BY <1>4
  <2> DEFINE G == [t \in SUBSET s |-> IF x \in t THEN add[<<F[t \ {x}], f[x]>>] ELSE F[t]]
  <2>2. /\ \A t \in SUBSET s : x \in t => t \ {x} \in SUBSET r
        /\ \A t \in SUBSET s : x \notin t => t \in SUBSET r
        /\ \A t \in SUBSET r : F[t] \in T
        /\ \A y \in s : f[y] \in T
    BY <2>1 DEF GathersUp
  <2>3. /\ \A u, v \in T : add[<<u, v>>] \in T
        /\ \A u, v, w \in T : add[<<add[<<u, v>>], w>>] = add[<<add[<<u, w>>], v>>]
    BY DEF OrderFree
  <2>4. G \in [SUBSET s -> T]
    BY <2>2, <2>3
  <2>5. G[{}] = base
    BY <2>1 DEF GathersUp
  <2>6. /\ \A t \in SUBSET s : x \in t => G[t] = add[<<F[t \ {x}], f[x]>>]
        /\ \A t \in SUBSET s : x \notin t => G[t] = F[t]
    OBVIOUS
  <2>7. \A t \in SUBSET r, y \in r : y \notin t => F[t \union {y}] = add[<<F[t], f[y]>>]
    BY <2>1 DEF GathersUp
  <2> HIDE DEF G
  <2>8. ASSUME NEW t \in SUBSET s, NEW y \in s, y \notin t
        PROVE  G[t \union {y}] = add[<<G[t], f[y]>>]
    <3>1. CASE y = x
      <4>1. (t \union {y}) \ {x} = t /\ t \union {y} \in SUBSET s /\ x \notin t
        BY <2>8, <3>1
      <4>2. G[t \union {y}] = add[<<F[t], f[x]>>] /\ G[t] = F[t]
        BY <2>6, <3>1, <4>1
      <4>3. QED
        BY <3>1, <4>2
    <3>2. CASE y # x /\ x \notin t
      <4>1. t \in SUBSET r /\ y \in r /\ x \notin t \union {y} /\ t \union {y} \in SUBSET s
        BY <2>2, <3>2
      <4>2. QED
        BY <2>6, <2>7, <2>8, <3>2, <4>1
    <3>3. CASE y # x /\ x \in t
      <4> DEFINE q == t \ {x}
      <4>1. /\ q \in SUBSET r /\ y \in r /\ y \notin q
            /\ x \in t \union {y} /\ t \union {y} \in SUBSET s
            /\ (t \union {y}) \ {x} = q \union {y}
        BY <2>8, <3>3
      <4>2. G[t \union {y}] = add[<<F[q \union {y}], f[x]>>] /\ G[t] = add[<<F[q], f[x]>>]
        BY <2>6, <3>3, <4>1
      <4>3. F[q \union {y}] = add[<<F[q], f[y]>>]
        BY <2>7, <4>1
      <4>4. F[q] \in T /\ f[x] \in T /\ f[y] \in T
        BY <2>2, <4>1
      <4> HIDE DEF q
      <4>5. add[<<add[<<F[q], f[y]>>], f[x]>>] = add[<<add[<<F[q], f[x]>>], f[y]>>]
        BY <2>3, <4>4
      <4>6. QED
        BY <4>2, <4>3, <4>5
    <3>4. QED
      BY <3>1, <3>2, <3>3
  <2>9. GathersUp(G, s, T, base, add, f)
    BY <2>4, <2>5, <2>8 DEF GathersUp
  <2>10. QED
    BY <2>9
<1> HIDE DEF N, Has
<1>5. 0 \in Good
  <2>1. \A s \in SUBSET S : Cardinality(s) <= 0 => s = {}
    BY <1>1, <1>2
  <2>2. 0 \in 0 .. N
    BY <1>1
  <2>3. QED
    BY <1>3, <2>1, <2>2
<1>6. ASSUME NEW m \in 1 .. N, m - 1 \in Good PROVE m \in Good
  <2>1. ASSUME NEW s \in SUBSET S, Cardinality(s) <= m PROVE Has(s)
    <3>1. CASE s = {}
      BY <3>1, <1>3
    <3>2. CASE s # {}
      <4>1. PICK x \in s : TRUE
        BY <3>2
      <4>2. IsFiniteSet(s) /\ Cardinality(s) \in Nat
        BY <1>1
      <4>3. Cardinality(s \ {x}) = Cardinality(s) - 1
        BY <4>2, FS_RemoveElement
      <4>4. s \ {x} \in SUBSET S /\ Cardinality(s \ {x}) <= m - 1
        BY <2>1, <4>2, <4>3
      <4>5. Has(s \ {x})
        BY <1>6, <4>4
      <4>6. QED
        BY <4>5, <1>4
    <3>3. QED
      BY <3>1, <3>2
  <2>2. m \in 0 .. N
    BY <1>1
  <2>3. QED
    BY <2>1, <2>2
<1> HIDE DEF Good
<1>7. 0 .. N \subseteq Good
  BY <1>1, <1>5, <1>6, UpTo
<1>8. N \in Good
  BY <1>1, <1>7
<1>9. Cardinality(S) <= N /\ S \in SUBSET S
  BY <1>1 DEF N
<1>10. QED
  BY <1>8, <1>9 DEF Good, Has

-----------------------------------------------------------------------------
(* The sum of f over a finite set.                                           *)
Plus == [p \in Nat \X Nat |-> p[1] + p[2]]

Sums(F, S, f) == GathersUp(F, S, Nat, 0, Plus, f)

LEMMA SumsExist ==
  ASSUME NEW S, IsFiniteSet(S), NEW f \in [S -> Nat]
  PROVE  \E F : Sums(F, S, f)
<1>1. OrderFree(Nat, Plus)
  BY DEF OrderFree, Plus
<1>2. 0 \in Nat
  OBVIOUS
<1>3. QED
  BY <1>1, <1>2, GathersExist DEF Sums

(* A sum grows by a new argument's value.                                    *)
LEMMA SumsGrow ==
  ASSUME NEW S, NEW f \in [S -> Nat], NEW F, Sums(F, S, f)
  PROVE  /\ F[{}] = 0
         /\ \A s \in SUBSET S : F[s] \in Nat
         /\ \A s \in SUBSET S, x \in S : x \notin s => F[s \union {x}] = F[s] + f[x]
         /\ \A s \in SUBSET S : \A x \in s : F[s] = F[s \ {x}] + f[x]
<1>1. F \in [SUBSET S -> Nat] /\ F[{}] = 0
  BY DEF Sums, GathersUp
<1>2. ASSUME NEW s \in SUBSET S, NEW x \in S, x \notin s PROVE F[s \union {x}] = F[s] + f[x]
  <2>1. F[s \union {x}] = Plus[<<F[s], f[x]>>]
    BY <1>2 DEF Sums, GathersUp
  <2>2. QED
    BY <1>1, <2>1 DEF Plus
<1>3. ASSUME NEW s \in SUBSET S, NEW x \in s PROVE F[s] = F[s \ {x}] + f[x]
  <2>1. (s \ {x}) \union {x} = s /\ s \ {x} \in SUBSET S /\ x \in S /\ x \notin s \ {x}
    OBVIOUS
  <2>2. QED
    BY <2>1, <1>2
<1>4. QED
  BY <1>1, <1>2, <1>3

(* The equation MapThenSumSet is defined by.                                 *)
SumEquation(h, S, f) ==
  \A s \in SUBSET S : h[s] = IF s = {} THEN 0
                             ELSE f[CHOOSE x \in s : TRUE] + h[s \ {CHOOSE x \in s : TRUE}]

(* It has a solution, and every solution ends in the sum.                    *)
LEMMA SumSolves ==
  ASSUME NEW S, IsFiniteSet(S), NEW f \in [S -> Nat], NEW F, Sums(F, S, f)
  PROVE  /\ SumEquation(F, S, f)
         /\ \A h : SumEquation(h, S, f) => h[S] = F[S]
<1> DEFINE pick == [s \in SUBSET S |-> CHOOSE x \in s : TRUE]
           g == [p \in Nat \X S |-> f[p[2]] + p[1]]
<1>1. \A s \in SUBSET S : s # {} =>
        pick[s] \in s /\ pick[s] \in S /\ pick[s] = (CHOOSE x \in s : TRUE)
  OBVIOUS
<1>2. g \in [Nat \X S -> Nat] /\ \A n \in Nat, s \in S : g[<<n, s>>] = f[s] + n
  OBVIOUS
<1> HIDE DEF pick, g
<1>3. SumEquation(F, S, f)
  <2>1. ASSUME NEW s \in SUBSET S, s # {}
        PROVE  F[s] = f[CHOOSE x \in s : TRUE] + F[s \ {CHOOSE x \in s : TRUE}]
    <3>1. pick[s] \in s /\ pick[s] = (CHOOSE x \in s : TRUE)
      BY <1>1, <2>1
    <3>2. F[s] = F[s \ {pick[s]}] + f[pick[s]]
      <4>1. \A x \in s : F[s] = F[s \ {x}] + f[x]
        BY SumsGrow
      <4>2. QED
        BY <3>1, <4>1
    <3>3. F[s] = f[pick[s]] + F[s \ {pick[s]}]
      <4>1. F[s \ {pick[s]}] \in Nat /\ f[pick[s]] \in Nat
        BY <1>1, <2>1, SumsGrow
      <4>2. QED
        BY <3>2, <4>1
    <3>4. QED
      BY <3>1, <3>3
  <2>2. F[{}] = 0
    BY SumsGrow
  <2>3. QED
    BY <2>1, <2>2 DEF SumEquation
<1>4. ASSUME NEW h, SumEquation(h, S, f) PROVE FoldsIn(h, S, pick, Nat, 0, g)
  <2>1. h[{}] = 0
    BY <1>4 DEF SumEquation
  <2>2. ASSUME NEW s \in SUBSET S, s # {}, h[s \ {pick[s]}] \in Nat
        PROVE  h[s] = g[<<h[s \ {pick[s]}], pick[s]>>]
    <3>1. pick[s] \in S /\ pick[s] = (CHOOSE x \in s : TRUE)
      BY <1>1, <2>2
    <3>2. h[s] = f[pick[s]] + h[s \ {pick[s]}]
      BY <1>4, <2>2, <3>1 DEF SumEquation
    <3>3. QED
      BY <1>2, <2>2, <3>1, <3>2
  <2>3. QED
    BY <2>1, <2>2 DEF FoldsIn
<1>5. ASSUME NEW h, SumEquation(h, S, f) PROVE h[S] = F[S]
  <2>1. FoldsIn(h, S, pick, Nat, 0, g) /\ FoldsIn(F, S, pick, Nat, 0, g)
    BY <1>3, <1>4, <1>5
  <2>2. 0 \in Nat /\ \A s \in SUBSET S : s # {} => pick[s] \in s
    BY <1>1
  <2>3. QED
    <3>1. FoldData(S, pick, Nat, 0, g)
      BY <1>2, <2>2 DEF FoldData
    <3>2. QED
      BY <2>1, <3>1, FoldSame
<1>6. QED
  BY <1>3, <1>5

-----------------------------------------------------------------------------
(* The step of a fold taken n times, with the numbers 1 .. n in order.       *)
FoldRun(r, n, base, g) == r[0] = base /\ \A k \in 1 .. n : r[k] = g[<<r[k - 1], k>>]

(* x is where a run of the step g from base ends.                            *)
HasRun(n, T, base, g, x) ==
  \E r \in [0 .. n -> T] : FoldRun(r, n, base, g) /\ r[n] = x

(* The equation of a fold over a sequence of indices, and a solution of it.  *)
FoldsUp(h, n, T, base, g) ==
  /\ h[{}] = base
  /\ \A s \in SUBSET (1 .. n) : s # {} /\ h[s \ {Max(s)}] \in T =>
       h[s] = g[<<h[s \ {Max(s)}], Max(s)>>]

(* The element a fold over 1 .. k takes out last is k.                       *)
LEMMA TopOf ==
  ASSUME NEW n \in Nat
  PROVE  \A s \in SUBSET (1 .. n) : s # {} =>
           Max(s) \in 1 .. n /\ Max(s) \in s /\ s \ {Max(s)} \in SUBSET (1 .. n)
BY MaxOfUpTo

(* The equation of a fold over 1 .. n has a solution.                        *)
LEMMA FoldUpExists ==
  ASSUME NEW n \in Nat, NEW T, NEW base \in T, NEW g \in [T \X (1 .. n) -> T]
  PROVE  \E h \in [SUBSET (1 .. n) -> T] : FoldsUp(h, n, T, base, g)
<1> DEFINE D == 1 .. n
           pick == [s \in SUBSET D |-> Max(s)]
<1>1. IsFiniteSet(D)
  BY FS_Interval
<1>2. \A s \in SUBSET D : s # {} => pick[s] \in s /\ pick[s] = Max(s)
  BY TopOf
<1> HIDE DEF pick
<1>3. PICK h \in [SUBSET D -> T] : FoldSolution(h, D, pick, base, g)
  <2>1. g \in [T \X D -> T]
    OBVIOUS
  <2> HIDE DEF D
  <2>2. QED
    BY <1>1, <1>2, <2>1, FoldExists, Zenon
<1>4. FoldsUp(h, n, T, base, g)
  BY <1>2, <1>3 DEF FoldSolution, FoldsUp
<1>5. QED
  BY <1>3, <1>4

(* A solution gives a run.                                                   *)
LEMMA FoldRunExists ==
  ASSUME NEW n \in Nat, NEW T, NEW base \in T, NEW g \in [T \X (1 .. n) -> T], NEW iter,
         FoldsUp(iter, n, T, base, g)
  PROVE  HasRun(n, T, base, g, iter[1 .. n])
<1> DEFINE Good == {k \in 0 .. n : iter[1 .. k] \in T}
           r == [k \in 0 .. n |-> iter[1 .. k]]
<1>1. 1 .. 0 = {}
  OBVIOUS
<1>2. \A k \in 1 .. n : iter[1 .. (k - 1)] \in T => iter[1 .. k] = g[<<iter[1 .. (k - 1)], k>>]
  BY PrefixFacts DEF FoldsUp
<1>3. 0 \in Good
  BY <1>1 DEF FoldsUp
<1>4. ASSUME NEW k \in 1 .. n, k - 1 \in Good PROVE k \in Good
  <2>1. iter[1 .. (k - 1)] \in T /\ k \in 0 .. n
    BY <1>4
  <2>2. g[<<iter[1 .. (k - 1)], k>>] \in T
    BY <2>1
  <2>3. iter[1 .. k] \in T
    BY <1>2, <2>1, <2>2
  <2>4. QED
    BY <2>1, <2>3
<1> HIDE DEF Good
<1>5. 0 .. n \subseteq Good
  BY <1>3, <1>4, UpTo
<1>6. r \in [0 .. n -> T]
  BY <1>5 DEF Good
<1>7. r[0] = base /\ r[n] = iter[1 .. n]
  BY <1>1 DEF FoldsUp
<1>8. ASSUME NEW k \in 1 .. n PROVE r[k] = g[<<r[k - 1], k>>]
  <2>1. k \in 0 .. n /\ k - 1 \in 0 .. n
    OBVIOUS
  <2>2. iter[1 .. (k - 1)] \in T
    BY <2>1, <1>5 DEF Good
  <2>3. QED
    BY <1>2, <2>1, <2>2
<1> HIDE DEF r
<1>9. FoldRun(r, n, base, g)
  BY <1>7, <1>8 DEF FoldRun
<1>10. QED
  BY <1>6, <1>7, <1>9 DEF HasRun

(* A run ends in the set its step stays in.                                  *)
LEMMA RunEnds ==
  ASSUME NEW n \in Nat, NEW T, NEW base, NEW g, NEW x, HasRun(n, T, base, g, x)
  PROVE  x \in T
BY DEF HasRun

(* Every step hands an invariant on.                                         *)
HandsOn(Inv, n, T, g) ==
  \A k \in 1 .. n, u \in T : u \in Inv[k - 1] => g[<<u, k>>] \in Inv[k]

(* What holds before the first step and is handed on by each, in the form it *)
(* has at that step, holds at the end.                                       *)
LEMMA RunInvariant ==
  ASSUME NEW n \in Nat, NEW T, NEW base, NEW g, NEW x, HasRun(n, T, base, g, x),
         NEW Inv, base \in Inv[0], HandsOn(Inv, n, T, g)
  PROVE  x \in Inv[n]
<1>1. PICK r \in [0 .. n -> T] : FoldRun(r, n, base, g) /\ r[n] = x
  BY DEF HasRun
<1> DEFINE Good == {k \in 0 .. n : r[k] \in Inv[k]}
<1>2. 0 \in Good
  BY <1>1 DEF FoldRun
<1>3. ASSUME NEW k \in 1 .. n, k - 1 \in Good PROVE k \in Good
  <2>1. k - 1 \in 0 .. n /\ k \in 0 .. n
    OBVIOUS
  <2>2. r[k - 1] \in T /\ r[k - 1] \in Inv[k - 1]
    BY <1>3, <2>1
  <2>3. r[k] = g[<<r[k - 1], k>>]
    BY <1>1 DEF FoldRun
  <2>4. r[k] \in Inv[k]
    BY <2>2, <2>3 DEF HandsOn
  <2>5. QED
    BY <2>1, <2>4
<1> HIDE DEF Good
<1>4. 0 .. n \subseteq Good
  BY <1>2, <1>3, UpTo
<1>5. n \in Good
  BY <1>4
<1>6. QED
  BY <1>1, <1>5 DEF Good

-----------------------------------------------------------------------------
(* R ranks the elements of S: one way, and transitively.                     *)
Ranks(R, S) ==
  /\ \A a, b \in S : a # b => <<a, b>> \in R \/ <<b, a>> \in R
  /\ \A a, b, c \in S : <<a, b>> \in R /\ <<b, c>> \in R => <<a, c>> \in R

(* A relation that ranks every two elements of a set of slots one way, and   *)
(* transitively, has a first one among them.                                 *)
LEMMA FirstRanked ==
  ASSUME NEW n \in Nat, NEW S, S \subseteq 1 .. n, S # {}, NEW R, Ranks(R, S)
  PROVE  \E a \in S : \A b \in S \ {a} : <<a, b>> \in R
<1> DEFINE Part(k) == S \intersect (1 .. k)
           First(k, a) == \A b \in Part(k) \ {a} : <<a, b>> \in R
           Good == {k \in 0 .. n : Part(k) = {} \/ \E a \in Part(k) : First(k, a)}
<1>1. 0 \in Good
  OBVIOUS
<1>2. ASSUME NEW k \in 1 .. n, k - 1 \in Good PROVE k \in Good
  <2>1. k \in 0 .. n /\ Part(k) = (Part(k - 1) \union ({k} \intersect S)) /\ k \notin Part(k - 1)
    OBVIOUS
  <2>2. Part(k) \subseteq S /\ Part(k - 1) \subseteq S
    OBVIOUS
  <2> HIDE DEF Part
  <2>3. CASE k \notin S
    BY <1>2, <2>1, <2>3
  <2>4. CASE k \in S /\ Part(k - 1) = {}
    BY <2>1, <2>4
  <2>5. CASE k \in S /\ Part(k - 1) # {}
    <3>1. PICK a \in Part(k - 1) : First(k - 1, a)
      BY <1>2, <2>5
    <3>2. a # k /\ a \in S
      BY <2>1, <2>2
    <3>3. CASE <<a, k>> \in R
      BY <2>1, <3>1, <3>3
    <3>4. CASE <<k, a>> \in R
      <4>1. ASSUME NEW b \in Part(k - 1) PROVE <<k, b>> \in R
        BY <2>2, <2>5, <3>1, <3>2, <3>4 DEF Ranks
      <4>2. k \in Part(k) /\ First(k, k)
        BY <2>1, <2>5, <4>1
      <4>3. QED
        BY <2>1, <4>2
    <3>5. QED
      BY <2>5, <3>2, <3>3, <3>4 DEF Ranks
  <2>6. QED
    BY <2>3, <2>4, <2>5
<1>3. Part(n) = S
  OBVIOUS
<1> HIDE DEF Good
<1>4. 0 .. n \subseteq Good
  BY <1>1, <1>2, UpTo
<1>5. n \in Good
  BY <1>4
<1>6. QED
  BY <1>3, <1>5 DEF Good
-----------------------------------------------------------------------------
(* A walk: from p on to next[p] as long as p is in goes, which happens at     *)
(* most n times, since each step brings the number left[p] down.             *)
Descends(n, P, goes, next, left) ==
  /\ n \in Nat /\ next \in [P -> P] /\ left \in [P -> 0 .. n]
  /\ \A p \in P : p \in goes => left[next[p]] < left[p]

(* A set no step of the walk leaves.                                         *)
KeptBySteps(Inv, P, goes, next) ==
  Inv \subseteq P /\ \A p \in Inv : p \in goes => next[p] \in Inv

(* f is the recursive function that the walk is defined by.                  *)
IsWalk(f, P, goes, next) ==
  \A p \in P : f[p] = IF p \in goes THEN f[next[p]] ELSE p

(* Such a walk ends: the recursive function has a value.                     *)
LEMMA WalkExists ==
  ASSUME NEW n, NEW P, NEW goes, NEW next, NEW left, Descends(n, P, goes, next, left)
  PROVE  \E f \in [P -> P] : IsWalk(f, P, goes, next)
<1> DEFINE Low(m) == {p \in P : left[p] <= m}
           Solves(m, f) == \A p \in Low(m) : f[p] = IF p \in goes THEN f[next[p]] ELSE p
           Good == {m \in 0 .. n : \E f \in [Low(m) -> P] : Solves(m, f)}
<1>1. /\ n \in Nat /\ next \in [P -> P] /\ left \in [P -> 0 .. n]
      /\ \A p \in P : p \in goes => left[next[p]] < left[p]
  BY DEF Descends
<1>2. \A m \in 1 .. n : /\ Low(m - 1) \subseteq Low(m)
                         /\ \A p \in Low(m) : p \in goes => next[p] \in Low(m - 1)
  BY <1>1
<1>3. \A p \in Low(0) : p \notin goes
  <2> SUFFICES ASSUME NEW p \in P, left[p] <= 0, p \in goes PROVE FALSE
    OBVIOUS
  <2>1. left[next[p]] \in 0 .. n /\ left[p] \in 0 .. n /\ left[next[p]] < left[p]
    BY <1>1
  <2>2. QED
    BY <2>1
<1>4. Low(n) = P /\ \A m \in 0 .. n : Low(m) \subseteq P
  BY <1>1
<1> HIDE DEF Low
<1>5. 0 \in Good
  <2> DEFINE f == [p \in Low(0) |-> p]
  <2>1. f \in [Low(0) -> P] /\ Solves(0, f)
    BY <1>1, <1>3, <1>4
  <2> HIDE DEF f, Solves
  <2>2. 0 \in 0 .. n
    BY <1>1
  <2>3. QED
    BY <2>1, <2>2
<1>6. ASSUME NEW m \in 1 .. n, m - 1 \in Good PROVE m \in Good
  <2>1. PICK f \in [Low(m - 1) -> P] : Solves(m - 1, f)
    BY <1>6
  <2> DEFINE e == [p \in Low(m) |-> IF p \in goes THEN f[next[p]] ELSE p]
  <2>2. e \in [Low(m) -> P]
    BY <1>1, <1>2, <1>4
  <2>3. \A p \in Low(m - 1) : e[p] = f[p]
    BY <1>2, <2>1
  <2>4. Solves(m, e)
    BY <1>2, <2>3
  <2> HIDE DEF e, Solves
  <2>5. m \in 0 .. n
    BY <1>1
  <2>6. QED
    BY <2>2, <2>4, <2>5
<1> HIDE DEF Good
<1>7. 0 .. n \subseteq Good
  BY <1>1, <1>5, <1>6, UpTo
<1>8. n \in Good
  BY <1>1, <1>7
<1>9. PICK f \in [Low(n) -> P] : Solves(n, f)
  BY <1>8 DEF Good
<1>10. f \in [P -> P] /\ IsWalk(f, P, goes, next)
  BY <1>4, <1>9 DEF IsWalk
<1>11. QED
  BY <1>10

(* What every step of a walk keeps holds where it ends, and there it stops.  *)
LEMMA WalkKeeps ==
  ASSUME NEW n, NEW P, NEW goes, NEW next, NEW left, Descends(n, P, goes, next, left),
         NEW f, IsWalk(f, P, goes, next), NEW Inv, KeptBySteps(Inv, P, goes, next)
  PROVE  \A p \in Inv : f[p] \in Inv /\ f[p] \notin goes
<1> DEFINE Good == {m \in 0 .. n : \A p \in Inv : left[p] <= m => f[p] \in Inv /\ f[p] \notin goes}
<1>1. /\ n \in Nat /\ next \in [P -> P] /\ left \in [P -> 0 .. n]
      /\ \A p \in P : p \in goes => left[next[p]] < left[p]
      /\ Inv \subseteq P /\ \A p \in Inv : p \in goes => next[p] \in Inv
  BY DEF Descends, KeptBySteps
<1>2. \A p \in P : f[p] = IF p \in goes THEN f[next[p]] ELSE p
  BY DEF IsWalk
<1>3. \A p \in Inv : p \in goes => /\ next[p] \in Inv /\ left[next[p]] \in 0 .. n
                                   /\ left[next[p]] < left[p] /\ left[p] \in 0 .. n
  BY <1>1
<1>4. 0 \in Good
  <2>1. 0 \in 0 .. n
    BY <1>1
  <2> SUFFICES ASSUME NEW p \in Inv, left[p] <= 0 PROVE f[p] \in Inv /\ f[p] \notin goes
    BY <2>1
  <2>2. p \notin goes
    BY <1>3
  <2>3. QED
    BY <1>1, <1>2, <2>2
<1>5. ASSUME NEW m \in 1 .. n, m - 1 \in Good PROVE m \in Good
  <2> SUFFICES ASSUME NEW p \in Inv, left[p] <= m PROVE f[p] \in Inv /\ f[p] \notin goes
    OBVIOUS
  <2>1. CASE p \notin goes
    BY <1>1, <1>2, <2>1
  <2>2. CASE p \in goes
    <3>1. next[p] \in Inv /\ left[next[p]] <= m - 1
      BY <1>1, <1>3, <2>2
    <3>2. f[next[p]] \in Inv /\ f[next[p]] \notin goes
      BY <1>1, <1>5, <3>1
    <3>3. QED
      BY <1>1, <1>2, <2>2, <3>2
  <2>3. QED
    BY <2>1, <2>2
<1> HIDE DEF Good
<1>6. 0 .. n \subseteq Good
  BY <1>1, <1>4, <1>5, UpTo
<1>7. n \in Good
  BY <1>1, <1>6
<1>8. \A p \in Inv : left[p] <= n
  BY <1>1
<1>9. QED
  BY <1>7, <1>8 DEF Good
-----------------------------------------------------------------------------
(* What holds of no element, and of one element more, holds of a finite set. *)
LEMMA FiniteGrowth ==
  ASSUME NEW B, IsFiniteSet(B), NEW Good, {} \in Good,
         \A t \in SUBSET B : \A x \in B : t \in Good /\ x \notin t => t \union {x} \in Good
  PROVE  \A t \in SUBSET B : t \in Good
<1> DEFINE N == Cardinality(B)
           Sized == {m \in 0 .. N : \A t \in SUBSET B : Cardinality(t) <= m => t \in Good}
<1>1. N \in Nat /\ \A t \in SUBSET B : IsFiniteSet(t) /\ Cardinality(t) \in 0 .. N
  <2>1. N \in Nat
    BY FS_CardinalityType
  <2>2. \A t \in SUBSET B : IsFiniteSet(t) /\ Cardinality(t) <= N
    BY FS_Subset
  <2>3. \A t \in SUBSET B : Cardinality(t) \in Nat
    BY <2>2, FS_CardinalityType
  <2>4. QED
    BY <2>1, <2>2, <2>3
<1>2. \A t \in SUBSET B : Cardinality(t) = 0 => t = {}
  BY <1>1, FS_EmptySet
<1> HIDE DEF N
<1>3. 0 \in Sized
  <2>1. \A t \in SUBSET B : Cardinality(t) <= 0 => t = {}
    BY <1>1, <1>2
  <2>2. 0 \in 0 .. N
    BY <1>1
  <2>3. QED
    BY <2>1, <2>2
<1>4. ASSUME NEW m \in 1 .. N, m - 1 \in Sized PROVE m \in Sized
  <2>1. ASSUME NEW t \in SUBSET B, Cardinality(t) <= m, t # {} PROVE t \in Good
    <3>1. PICK x \in t : TRUE
      BY <2>1
    <3>2. IsFiniteSet(t) /\ Cardinality(t) \in Nat
      BY <1>1
    <3>3. Cardinality(t \ {x}) = Cardinality(t) - 1
      BY <3>2, FS_RemoveElement
    <3>4. t \ {x} \in SUBSET B /\ Cardinality(t \ {x}) <= m - 1
      BY <2>1, <3>2, <3>3
    <3>5. t \ {x} \in Good
      BY <1>4, <3>4
    <3>6. x \in B /\ x \notin t \ {x} /\ (t \ {x}) \union {x} = t
      BY <3>1
    <3>7. QED
      BY <3>4, <3>5, <3>6
  <2>2. m \in 0 .. N
    BY <1>1
  <2>3. QED
    BY <2>1, <2>2
<1> HIDE DEF Sized
<1>5. 0 .. N \subseteq Sized
  BY <1>1, <1>3, <1>4, UpTo
<1>6. N \in Sized
  BY <1>1, <1>5
<1>7. \A t \in SUBSET B : Cardinality(t) <= N
  BY <1>1
<1>8. QED
  BY <1>6, <1>7 DEF Sized

(* The sums of f over S and its subsets.  S is finite and f has numbers on   *)
(* it.                                                                       *)
Summable(f, S) == IsFiniteSet(S) /\ \A x \in S : f[x] \in Nat

On(f, S) == [x \in S |-> f[x]]

SumOn(f, S) == SumFunctionOnSet(f, S)

LEMMA SumOnIs ==
  ASSUME NEW S, NEW f, Summable(f, S), NEW F, Sums(F, S, On(f, S))
  PROVE  SumOn(f, S) = F[S]
<1> DEFINE Eq(h) == h = [s \in SUBSET S |->
                          IF s = {} THEN 0
                          ELSE f[CHOOSE x \in s : TRUE] + h[s \ {CHOOSE x \in s : TRUE}]]
           iter == CHOOSE h : Eq(h)
           g == On(f, S)
<1>1. SumOn(f, S) = iter[S]
  BY DEF SumOn, SumFunctionOnSet, FoldFunctionOnSet, MapThenFoldSet
<1>2. IsFiniteSet(S) /\ g \in [S -> Nat] /\ \A x \in S : g[x] = f[x]
  BY DEF Summable, On
<1> HIDE DEF g
<1>3. SumEquation(F, S, g) /\ \A h : SumEquation(h, S, g) => h[S] = F[S]
  BY <1>2, SumSolves DEF g
<1>4. \A s \in SUBSET S : s # {} => (CHOOSE x \in s : TRUE) \in S
  OBVIOUS
<1>5. ASSUME NEW h, Eq(h) PROVE SumEquation(h, S, g)
  BY <1>2, <1>4, <1>5 DEF SumEquation
<1>6. Eq([s \in SUBSET S |-> F[s]])
  BY <1>2, <1>3, <1>4 DEF SumEquation
<1> HIDE DEF Eq
<1>7. Eq(iter)
  BY <1>6
<1>8. QED
  BY <1>1, <1>3, <1>5, <1>7

(* One family of sums serves all the subsets.                                *)
LEMMA SumOnParts ==
  ASSUME NEW S, NEW f, Summable(f, S)
  PROVE  \E F : Sums(F, S, On(f, S)) /\ \A s \in SUBSET S : F[s] = SumOn(f, s)
<1> DEFINE g == On(f, S)
<1>1. IsFiniteSet(S) /\ g \in [S -> Nat]
  BY DEF Summable, On
<1>2. PICK F : Sums(F, S, g)
  <2> HIDE DEF g
  <2>1. QED
    BY <1>1, SumsExist
<1>3. ASSUME NEW s \in SUBSET S PROVE F[s] = SumOn(f, s)
  <2> DEFINE G == [t \in SUBSET s |-> F[t]]
  <2>1. /\ F \in [SUBSET S -> Nat] /\ F[{}] = 0
        /\ \A t \in SUBSET S, x \in S : x \notin t => F[t \union {x}] = Plus[<<F[t], g[x]>>]
    BY <1>2 DEF Sums, GathersUp
  <2>2. G \in [SUBSET s -> Nat] /\ G[{}] = 0
    BY <2>1
  <2>3. ASSUME NEW t \in SUBSET s, NEW x \in s, x \notin t
        PROVE  G[t \union {x}] = Plus[<<G[t], On(f, s)[x]>>]
    <3>1. t \union {x} \in SUBSET s /\ t \in SUBSET S /\ x \in S
      OBVIOUS
    <3>2. On(f, s)[x] = g[x]
      BY <3>1 DEF On
    <3>3. QED
      BY <2>1, <2>3, <3>1, <3>2
  <2>4. Sums(G, s, On(f, s))
    <3> HIDE DEF G
    <3>1. QED
      BY <2>2, <2>3 DEF Sums, GathersUp
  <2>5. Summable(f, s)
    BY FS_Subset DEF Summable
  <2> HIDE DEF G
  <2>6. SumOn(f, s) = G[s]
    BY <2>4, <2>5, SumOnIs
  <2>7. QED
    BY <2>6 DEF G
<1>4. QED
  BY <1>2, <1>3

(* A sum is a number, and grows by a new element's value.                    *)
LEMMA SumOnAdd ==
  ASSUME NEW S, NEW f, Summable(f, S)
  PROVE  /\ SumOn(f, {}) = 0
         /\ \A s \in SUBSET S : SumOn(f, s) \in Nat /\ Summable(f, s)
         /\ \A s \in SUBSET S : \A x \in S \ s : SumOn(f, s \union {x}) = SumOn(f, s) + f[x]
         /\ \A x \in S : SumOn(f, {x}) = f[x]
<1> DEFINE g == On(f, S)
<1>1. g \in [S -> Nat] /\ \A x \in S : g[x] = f[x] /\ f[x] \in Nat
  BY DEF Summable, On
<1>2. PICK F : Sums(F, S, On(f, S)) /\ \A s \in SUBSET S : F[s] = SumOn(f, s)
  BY SumOnParts
<1> HIDE DEF g
<1>3. /\ F[{}] = 0
      /\ \A s \in SUBSET S : F[s] \in Nat
      /\ \A s \in SUBSET S, x \in S : x \notin s => F[s \union {x}] = F[s] + g[x]
  BY <1>1, <1>2, SumsGrow DEF g
<1>4. ASSUME NEW s \in SUBSET S, NEW x \in S \ s PROVE SumOn(f, s \union {x}) = SumOn(f, s) + f[x]
  <2>1. s \union {x} \in SUBSET S
    OBVIOUS
  <2>2. QED
    BY <1>1, <1>2, <1>3, <2>1
<1>5. SumOn(f, {}) = 0
  BY <1>2, <1>3
<1>6. ASSUME NEW x \in S PROVE SumOn(f, {x}) = f[x]
  <2>1. {} \in SUBSET S /\ x \in S \ {} /\ {} \union {x} = {x}
    OBVIOUS
  <2>2. SumOn(f, {} \union {x}) = SumOn(f, {}) + f[x]
    BY <1>4, <2>1
  <2>3. QED
    BY <1>1, <1>5, <2>1, <2>2
<1>7. \A s \in SUBSET S : Summable(f, s)
  BY FS_Subset DEF Summable
<1>8. QED
  BY <1>2, <1>3, <1>4, <1>5, <1>6, <1>7

(* Only the values on the set count.                                         *)
LEMMA SumOnSame ==
  ASSUME NEW S, NEW f, Summable(f, S), NEW g, \A x \in S : g[x] = f[x]
  PROVE  SumOn(g, S) = SumOn(f, S) /\ Summable(g, S)
<1>1. On(g, S) = On(f, S) /\ Summable(g, S)
  BY DEF On, Summable
<1>2. PICK F : Sums(F, S, On(f, S)) /\ \A s \in SUBSET S : F[s] = SumOn(f, s)
  BY SumOnParts
<1>3. SumOn(g, S) = F[S] /\ SumOn(f, S) = F[S]
  BY <1>1, <1>2, SumOnIs
<1>4. QED
  BY <1>1, <1>3

(* A quantity that grows over the subsets of B by the values of f grows by   *)
(* the sum of f.                                                             *)
GrowsBy(G, B, f) ==
  /\ Summable(f, B) /\ G[{}] \in Nat
  /\ \A t \in SUBSET B : \A x \in B \ t : G[t \union {x}] = G[t] + f[x]

LEMMA SumOnGrowth ==
  ASSUME NEW B, NEW f, NEW G, GrowsBy(G, B, f)
  PROVE  \A t \in SUBSET B : G[t] \in Nat /\ G[t] = G[{}] + SumOn(f, t)
<1> DEFINE Good == {t \in SUBSET B : G[t] = G[{}] + SumOn(f, t)}
<1>1. /\ SumOn(f, {}) = 0
      /\ \A t \in SUBSET B : SumOn(f, t) \in Nat
      /\ \A t \in SUBSET B : \A x \in B \ t : SumOn(f, t \union {x}) = SumOn(f, t) + f[x]
      /\ \A x \in B : f[x] \in Nat
      /\ IsFiniteSet(B) /\ G[{}] \in Nat
  BY SumOnAdd DEF GrowsBy, Summable
<1>2. {} \in Good
  BY <1>1
<1>3. ASSUME NEW t \in SUBSET B, NEW x \in B, t \in Good, x \notin t PROVE t \union {x} \in Good
  <2>1. t \union {x} \in SUBSET B /\ x \in B \ t
    BY <1>3
  <2>2. G[t] = G[{}] + SumOn(f, t) /\ SumOn(f, t) \in Nat /\ f[x] \in Nat
    BY <1>1, <1>3
  <2>3. G[t \union {x}] = G[t] + f[x] /\ SumOn(f, t \union {x}) = SumOn(f, t) + f[x]
    BY <1>1, <2>1 DEF GrowsBy
  <2>4. QED
    BY <1>1, <2>1, <2>2, <2>3
<1> HIDE DEF Good
<1>4. \A t \in SUBSET B : t \in Good
  BY <1>1, <1>2, <1>3, FiniteGrowth
<1>5. QED
  BY <1>1, <1>4 DEF Good

(* A sum may be taken in two parts.                                          *)
LEMMA SumOnSplit ==
  ASSUME NEW S, NEW f, Summable(f, S), NEW A \in SUBSET S, NEW B \in SUBSET S, A \intersect B = {}
  PROVE  SumOn(f, A \union B) = SumOn(f, A) + SumOn(f, B)
<1> DEFINE G == [t \in SUBSET B |-> SumOn(f, A \union t)]
<1>1. /\ \A s \in SUBSET S : SumOn(f, s) \in Nat /\ Summable(f, s)
      /\ \A s \in SUBSET S : \A x \in S \ s : SumOn(f, s \union {x}) = SumOn(f, s) + f[x]
  BY SumOnAdd
<1>2. ASSUME NEW t \in SUBSET B, NEW x \in B \ t PROVE G[t \union {x}] = G[t] + f[x]
  <2>1. /\ t \union {x} \in SUBSET B /\ A \union t \in SUBSET S /\ x \in S \ (A \union t)
        /\ A \union (t \union {x}) = (A \union t) \union {x}
    OBVIOUS
  <2>2. SumOn(f, (A \union t) \union {x}) = SumOn(f, A \union t) + f[x]
    BY <1>1, <2>1
  <2>3. QED
    BY <2>1, <2>2
<1>3. G[{}] = SumOn(f, A) /\ G[B] = SumOn(f, A \union B) /\ SumOn(f, A) \in Nat
  <2>1. A \union {} = A
    OBVIOUS
  <2>2. QED
    BY <1>1, <2>1
<1> HIDE DEF G
<1>4. GrowsBy(G, B, f)
  BY <1>1, <1>2, <1>3 DEF GrowsBy
<1>5. G[B] = G[{}] + SumOn(f, B)
  BY <1>4, SumOnGrowth
<1>6. QED
  BY <1>3, <1>5

LEMMA SumOnZero ==
  ASSUME NEW S, IsFiniteSet(S), NEW f, \A x \in S : f[x] = 0
  PROVE  Summable(f, S) /\ SumOn(f, S) = 0
<1> DEFINE G == [t \in SUBSET S |-> 0]
<1>1. Summable(f, S)
  BY DEF Summable
<1>2. G[{}] = 0 /\ G[S] = 0 /\ \A t \in SUBSET S : \A x \in S \ t : G[t \union {x}] = G[t] + f[x]
  <2>1. \A t \in SUBSET S : \A x \in S \ t : t \union {x} \in SUBSET S
    OBVIOUS
  <2>2. QED
    BY <2>1
<1>3. SumOn(f, {}) = 0 /\ SumOn(f, S) \in Nat
  BY <1>1, SumOnAdd
<1> HIDE DEF G
<1>4. GrowsBy(G, S, f)
  BY <1>1, <1>2 DEF GrowsBy
<1>5. G[S] = G[{}] + SumOn(f, S)
  BY <1>4, SumOnGrowth
<1>6. QED
  BY <1>1, <1>2, <1>3, <1>5

(* The sum over a part is the sum over the whole of what is zero elsewhere.  *)
LEMMA SumOnWhere ==
  ASSUME NEW S, IsFiniteSet(S), NEW A \in SUBSET S, NEW f, \A x \in A : f[x] \in Nat,
         NEW g, \A x \in S : g[x] = IF x \in A THEN f[x] ELSE 0
  PROVE  Summable(f, A) /\ Summable(g, S) /\ SumOn(g, S) = SumOn(f, A)
<1>1. Summable(f, A) /\ IsFiniteSet(S \ A)
  BY FS_Subset DEF Summable
<1>2. Summable(g, S)
  BY DEF Summable
<1>3. SumOn(g, A) = SumOn(f, A)
  BY <1>1, SumOnSame
<1>4. SumOn(g, S \ A) = 0
  BY <1>1, SumOnZero
<1>5. SumOn(g, A \union (S \ A)) = SumOn(g, A) + SumOn(g, S \ A)
  <2>1. S \ A \in SUBSET S /\ A \intersect (S \ A) = {}
    OBVIOUS
  <2>2. QED
    BY <1>2, <2>1, SumOnSplit
<1>6. A \union (S \ A) = S /\ SumOn(f, A) \in Nat
  BY <1>1, SumOnAdd
<1>7. QED
  BY <1>1, <1>2, <1>3, <1>4, <1>5, <1>6

LEMMA SumOnPlus ==
  ASSUME NEW S, NEW f, Summable(f, S), NEW g, Summable(g, S), NEW h, \A x \in S : h[x] = f[x] + g[x]
  PROVE  Summable(h, S) /\ SumOn(h, S) = SumOn(f, S) + SumOn(g, S)
<1> DEFINE G == [t \in SUBSET S |-> SumOn(f, t) + SumOn(g, t)]
<1>1. Summable(h, S)
  BY DEF Summable
<1>2. /\ SumOn(f, {}) = 0 /\ \A t \in SUBSET S : SumOn(f, t) \in Nat
      /\ \A t \in SUBSET S : \A x \in S \ t : SumOn(f, t \union {x}) = SumOn(f, t) + f[x]
      /\ SumOn(g, {}) = 0 /\ \A t \in SUBSET S : SumOn(g, t) \in Nat
      /\ \A t \in SUBSET S : \A x \in S \ t : SumOn(g, t \union {x}) = SumOn(g, t) + g[x]
      /\ \A x \in S : f[x] \in Nat /\ g[x] \in Nat /\ h[x] = f[x] + g[x]
  BY SumOnAdd DEF Summable
<1>3. ASSUME NEW t \in SUBSET S, NEW x \in S \ t PROVE G[t \union {x}] = G[t] + h[x]
  <2>1. t \union {x} \in SUBSET S
    OBVIOUS
  <2>2. /\ SumOn(f, t \union {x}) = SumOn(f, t) + f[x] /\ SumOn(f, t) \in Nat
        /\ SumOn(g, t \union {x}) = SumOn(g, t) + g[x] /\ SumOn(g, t) \in Nat
        /\ f[x] \in Nat /\ g[x] \in Nat /\ h[x] = f[x] + g[x]
    BY <1>2
  <2>3. QED
    BY <2>1, <2>2
<1>4. G[{}] = 0 /\ G[S] = SumOn(f, S) + SumOn(g, S)
  BY <1>2
<1>5. SumOn(h, S) \in Nat
  BY <1>1, SumOnAdd
<1> HIDE DEF G
<1>6. GrowsBy(G, S, h)
  BY <1>1, <1>3, <1>4 DEF GrowsBy
<1>7. G[S] = G[{}] + SumOn(h, S)
  BY <1>6, SumOnGrowth
<1>8. QED
  BY <1>1, <1>4, <1>5, <1>7

(* A sum may be taken group by group: m names the group of an element, and g *)
(* holds the sums of the groups.                                             *)
Groups(g, f, S, m, T) ==
  /\ Summable(f, S) /\ IsFiniteSet(T) /\ \A x \in S : m[x] \in T
  /\ \A t \in T : g[t] = SumOn(f, {x \in S : m[x] = t})

LEMMA SumOnGroups ==
  ASSUME NEW S, NEW f, NEW T, NEW m, NEW g, Groups(g, f, S, m, T)
  PROVE  Summable(g, T) /\ SumOn(g, T) = SumOn(f, S)
<1> DEFINE In(U) == {x \in S : m[x] \in U}
           G == [U \in SUBSET T |-> SumOn(f, In(U))]
<1>1. /\ SumOn(f, {}) = 0 /\ \A s \in SUBSET S : SumOn(f, s) \in Nat
      /\ Summable(f, S) /\ IsFiniteSet(T) /\ \A x \in S : m[x] \in T
      /\ \A t \in T : g[t] = SumOn(f, {x \in S : m[x] = t})
  BY SumOnAdd DEF Groups
<1>2. Summable(g, T)
  BY <1>1 DEF Summable
<1>3. ASSUME NEW U \in SUBSET T, NEW t \in T \ U PROVE G[U \union {t}] = G[U] + g[t]
  <2> DEFINE B == {x \in S : m[x] = t}
  <2>1. /\ U \union {t} \in SUBSET T /\ In(U \union {t}) = In(U) \union B
        /\ In(U) \in SUBSET S /\ B \in SUBSET S /\ In(U) \intersect B = {}
    OBVIOUS
  <2>2. g[t] = SumOn(f, B)
    BY <1>1
  <2> HIDE DEF In, B
  <2>3. SumOn(f, In(U) \union B) = SumOn(f, In(U)) + SumOn(f, B)
    BY <1>1, <2>1, SumOnSplit
  <2>4. QED
    BY <2>1, <2>2, <2>3
<1>4. G[{}] = 0 /\ G[T] = SumOn(f, S)
  <2>1. In({}) = {} /\ In(T) = S
    BY <1>1
  <2> HIDE DEF In
  <2>2. QED
    BY <1>1, <2>1
<1>5. SumOn(g, T) \in Nat
  BY <1>2, SumOnAdd
<1> HIDE DEF G, In
<1>6. GrowsBy(G, T, g)
  BY <1>2, <1>3, <1>4 DEF GrowsBy
<1>7. G[T] = G[{}] + SumOn(g, T)
  BY <1>6, SumOnGrowth
<1>8. QED
  BY <1>2, <1>4, <1>5, <1>7

(* The elements may be renamed.                                              *)
LEMMA SumOnRenamed ==
  ASSUME NEW S, NEW f, Summable(f, S), NEW m, \A x, y \in S : m[x] = m[y] => x = y,
         NEW T, T = {m[x] : x \in S}, NEW g, \A x \in S : g[m[x]] = f[x]
  PROVE  Summable(g, T) /\ SumOn(g, T) = SumOn(f, S)
<1>1. IsFiniteSet(T) /\ \A x \in S : m[x] \in T
  <2> DEFINE h == [x \in S |-> m[x]]
  <2>1. IsFiniteSet(S) /\ T = {h[x] : x \in S} /\ h \in [S -> T]
    BY DEF Summable
  <2> HIDE DEF h
  <2>2. h \in Surjection(S, T)
    BY <2>1 DEF Surjection
  <2>3. IsFiniteSet(T)
    BY <2>1, <2>2, FS_Surjection
  <2>4. QED
    BY <2>3
<1>2. ASSUME NEW t \in T PROVE g[t] = SumOn(f, {x \in S : m[x] = t})
  <2>1. PICK x \in S : t = m[x]
    OBVIOUS
  <2>2. {y \in S : m[y] = t} = {x}
    BY <2>1
  <2>3. SumOn(f, {x}) = f[x]
    BY SumOnAdd
  <2>4. QED
    BY <2>1, <2>2, <2>3
<1>3. Groups(g, f, S, m, T)
  BY <1>1, <1>2 DEF Groups
<1>4. QED
  BY <1>3, SumOnGroups

(* A sum with a single value.                                                *)
LEMMA SumOnSingle ==
  ASSUME NEW S, IsFiniteSet(S), NEW n \in S, NEW x \in Nat, NEW f, \A y \in S : f[y] = IF y = n THEN x ELSE 0
  PROVE  Summable(f, S) /\ SumOn(f, S) = x
<1>1. Summable(f, S)
  BY DEF Summable
<1>2. {n} \in SUBSET S /\ \A y \in {n} : f[y] \in Nat
  OBVIOUS
<1>3. \A y \in S : f[y] = IF y \in {n} THEN f[y] ELSE 0
  OBVIOUS
<1>4. SumOn(f, S) = SumOn(f, {n})
  BY <1>2, <1>3, SumOnWhere
<1>5. SumOn(f, {n}) = x
  BY <1>1, SumOnAdd
<1>6. QED
  BY <1>1, <1>4, <1>5

(* The place of each element of a set of numbers in their order: these are   *)
(* the numbers from one to the size of the set, each once.                   *)
UpThrough(S, j) == {k \in S : k <= j}

Place(S, j) == Cardinality(UpThrough(S, j))

LEMMA UpThroughGrows ==
  ASSUME NEW n \in Nat, NEW S, \A k \in S : k \in 1 .. n
  PROVE  /\ UpThrough(S, 0) = {} /\ UpThrough(S, n) = S
         /\ \A j \in 1 .. n : /\ j \notin UpThrough(S, j - 1)
                              /\ j \in S => UpThrough(S, j) = UpThrough(S, j - 1) \union {j}
                              /\ j \notin S => UpThrough(S, j) = UpThrough(S, j - 1)
         /\ \A j, k \in S : j < k => UpThrough(S, j) \subseteq UpThrough(S, k - 1)
<1>1. UpThrough(S, 0) = {} /\ UpThrough(S, n) = S
  BY DEF UpThrough
<1>2. ASSUME NEW j \in 1 .. n
      PROVE  /\ j \notin UpThrough(S, j - 1)
             /\ j \in S => UpThrough(S, j) = UpThrough(S, j - 1) \union {j}
             /\ j \notin S => UpThrough(S, j) = UpThrough(S, j - 1)
  <2>1. \A k \in S : k <= j <=> k <= j - 1 \/ k = j
    OBVIOUS
  <2>2. ~(j <= j - 1)
    OBVIOUS
  <2>3. QED
    BY <2>1, <2>2, Zenon DEF UpThrough
<1>3. ASSUME NEW j \in S, NEW k \in S, j < k PROVE UpThrough(S, j) \subseteq UpThrough(S, k - 1)
  <2>1. \A i \in S : i <= j => i <= k - 1
    BY <1>3
  <2>2. QED
    BY <2>1, Zenon DEF UpThrough
<1>4. QED
  BY <1>1, <1>2, <1>3

LEMMA PlacesCount ==
  ASSUME NEW n \in Nat, NEW S, S \subseteq 1 .. n
  PROVE  /\ \A j, k \in S : Place(S, j) = Place(S, k) => j = k
         /\ {Place(S, j) : j \in S} = 1 .. Cardinality(S)
<1> DEFINE Low(j) == UpThrough(S, j)
           P == [j \in 0 .. n |-> Cardinality(Low(j))]
           Good == {m \in 0 .. n : {P[j] : j \in S \intersect (1 .. m)} = 1 .. P[m]}
<1>1. \A k \in S : k \in Int /\ 1 <= k /\ k <= n
  OBVIOUS
<1>2. Low(0) = {} /\ Low(n) = S
  BY UpThroughGrows
<1>3. \A j \in 1 .. n : /\ j \notin Low(j - 1)
                        /\ j \in S => Low(j) = Low(j - 1) \union {j}
                        /\ j \notin S => Low(j) = Low(j - 1)
  BY UpThroughGrows
<1>4. \A j, k \in S : j < k => Low(j) \subseteq Low(k - 1)
  BY UpThroughGrows
<1>5. \A j : Low(j) \subseteq S /\ IsFiniteSet(Low(j)) /\ Cardinality(Low(j)) \in Nat
  <2>1. IsFiniteSet(S)
    <3>1. IsFiniteSet(1 .. n)
      BY FS_Interval
    <3>2. QED
      BY <3>1, FS_Subset
  <2>2. \A j : Low(j) \subseteq S
    BY DEF UpThrough
  <2> HIDE DEF Low
  <2>3. QED
    BY <2>1, <2>2, FS_Subset, FS_CardinalityType
<1>6. \A j : Place(S, j) = Cardinality(Low(j))
  BY DEF Place
<1> HIDE DEF Low
<1>7. \A j \in S : P[j] = Place(S, j)
  BY <1>1, <1>6
<1>8. P[0] = 0 /\ P[n] = Cardinality(S) /\ \A j \in 0 .. n : P[j] \in Nat
  BY <1>2, <1>5, FS_EmptySet
<1>9. ASSUME NEW j \in 1 .. n PROVE P[j] = IF j \in S THEN P[j - 1] + 1 ELSE P[j - 1]
  <2>1. IsFiniteSet(Low(j - 1)) /\ j \notin Low(j - 1)
    BY <1>3, <1>5
  <2>2. Cardinality(Low(j - 1) \union {j}) = Cardinality(Low(j - 1)) + 1
    BY <2>1, FS_AddElement
  <2>3. P[j] = Cardinality(Low(j)) /\ P[j - 1] = Cardinality(Low(j - 1))
    OBVIOUS
  <2> HIDE DEF P
  <2>4. QED
    BY <1>3, <2>2, <2>3
<1>10. ASSUME NEW j \in S, NEW k \in S, j < k PROVE P[j] # P[k]
  <2>1. j \in 1 .. n /\ k \in 1 .. n /\ k - 1 \in 0 .. n /\ j \in 0 .. n
    BY <1>1, <1>10
  <2>2. P[j] \in Nat /\ P[k - 1] \in Nat /\ P[k] = P[k - 1] + 1
    BY <1>8, <1>9, <2>1
  <2>3. Cardinality(Low(j)) <= Cardinality(Low(k - 1))
    BY <1>4, <1>5, <1>10, FS_Subset
  <2>4. P[j] <= P[k - 1]
    BY <2>1, <2>3
  <2> HIDE DEF P
  <2>5. QED
    BY <2>2, <2>4
<1> HIDE DEF P
<1>11. \A j, k \in S : P[j] = P[k] => j = k
  <2>1. \A j, k \in S : j < k \/ k < j \/ j = k
    BY <1>1
  <2>2. QED
    BY <1>10, <2>1
<1>12. 0 \in Good
  <2>1. 0 \in 0 .. n /\ S \intersect (1 .. 0) = {} /\ 1 .. P[0] = {}
    BY <1>8
  <2>2. QED
    BY <2>1
<1>13. ASSUME NEW m \in 1 .. n, m - 1 \in Good PROVE m \in Good
  <2>1. m \in 0 .. n /\ P[m - 1] \in Nat /\ P[m] \in Nat
    BY <1>8
  <2>2. {P[j] : j \in S \intersect (1 .. m - 1)} = 1 .. P[m - 1]
    BY <1>13
  <2>3. CASE m \notin S
    <3>1. S \intersect (1 .. m) = S \intersect (1 .. m - 1)
      BY <1>1, <2>3
    <3>2. QED
      BY <1>9, <2>1, <2>2, <2>3, <3>1
  <2>4. CASE m \in S
    <3>1. S \intersect (1 .. m) = (S \intersect (1 .. m - 1)) \union {m}
      BY <1>1, <2>4
    <3>2. {P[j] : j \in S \intersect (1 .. m)} = (1 .. P[m - 1]) \union {P[m]}
      BY <2>2, <3>1
    <3>3. P[m] = P[m - 1] + 1
      BY <1>9, <2>4
    <3>4. (1 .. P[m - 1]) \union {P[m]} = 1 .. P[m]
      BY <2>1, <3>3
    <3>5. QED
      BY <2>1, <3>2, <3>4
  <2>5. QED
    BY <2>3, <2>4
<1>14. n \in Good
  <2> HIDE DEF Good
  <2>1. 0 .. n \subseteq Good
    BY <1>12, <1>13, UpTo
  <2>2. QED
    BY <2>1
<1>15. S \intersect (1 .. n) = S
  OBVIOUS
<1>16. {P[j] : j \in S} = 1 .. P[n]
  BY <1>14, <1>15
<1>17. {Place(S, j) : j \in S} = {P[j] : j \in S}
  BY <1>7
<1>18. QED
  BY <1>7, <1>8, <1>11, <1>16, <1>17
=============================================================================
