---------------------------- MODULE Chain_proofs ----------------------------
(***************************************************************************)
(* What an operation on the tree of blocks can do, for tables of any size.   *)
(* Deletion, eviction, relinking and the tail release of module ActiveChain  *)
(* only ever remove blocks and verdicts (Reduces).  Of what may be added     *)
(* (promotion, the continuation, the side-branch driver and the acquisition  *)
(* of DominantChain): a Ready node stays what it was (Serves); an            *)
(* acquisition leaves a collecting node, or a chain that was checked and a   *)
(* lock that the tree fits (Gathers, Acquires).                              *)
(***************************************************************************)
EXTENDS DominantChain, FoldLemmas

(* What every maintenance of the tree keeps, whatever it deletes, evicts or  *)
(* relinks: no block is added, moved, judged or put on the active chain; the *)
(* phase stays; the configuration stays or a tentative one is dropped; the   *)
(* tail is not established.                                                  *)
Reduces(t, u) ==
  /\ u \in NodeState
  /\ \A s \in Slot : u.blocks[s].hash # NoHash \/ u.blocks[s].onActive =>
       /\ u.blocks[s].hash = t.blocks[s].hash
       /\ u.blocks[s].status = t.blocks[s].status
       /\ u.blocks[s].onActive = t.blocks[s].onActive
  /\ u.phase = t.phase
  /\ \/ u.config = t.config /\ u.content = t.content
     \/ t.config = "Tentative" /\ u.config = "None" /\ u.content = NoContent
  /\ t.tentative = NoRef => u.tentative = NoRef /\ u.config = t.config
  /\ u.tail # NoRef => t.tail # NoRef

(* Nothing done is a reduction.                                              *)
LEMMA ReducesSelf ==
  ASSUME NEW t \in NodeState
  PROVE  Reduces(t, t)
BY DEF Reduces

(* Reductions compose.                                                       *)
LEMMA ReducesOn ==
  ASSUME NEW t, NEW u, NEW v, Reduces(t, u), Reduces(u, v)
  PROVE  Reduces(t, v)
BY DEF Reduces

(* A new block table that only removes blocks is a reduction.                *)
LEMMA BlocksReduce ==
  ASSUME NEW t \in NodeState, NEW B \in [Slot -> BlockEntry],
         \A s \in Slot : B[s].hash # NoHash \/ B[s].onActive =>
           /\ B[s].hash = t.blocks[s].hash
           /\ B[s].status = t.blocks[s].status
           /\ B[s].onActive = t.blocks[s].onActive
  PROVE  Reduces(t, [t EXCEPT !.blocks = B])
BY DEF Reduces, NodeState

(* A new tip table is a reduction: no fact kept here is in it.               *)
LEMMA HeadsReduce ==
  ASSUME NEW t \in NodeState, NEW H \in [Branch -> ChainHeadEntry]
  PROVE  Reduces(t, [t EXCEPT !.heads = H])
BY DEF Reduces, NodeState

(* So is one new entry of the tip table.                                     *)
LEMMA HeadReduces ==
  ASSUME NEW t \in NodeState, NEW k \in Branch, NEW e \in ChainHeadEntry
  PROVE  Reduces(t, [t EXCEPT !.heads[k] = e])
<1>1. [t EXCEPT !.heads[k] = e] = [t EXCEPT !.heads = [t.heads EXCEPT ![k] = e]]
  BY DEF NodeState
<1>2. [t.heads EXCEPT ![k] = e] \in [Branch -> ChainHeadEntry]
  BY DEF NodeState
<1>3. QED
  BY <1>1, <1>2, HeadsReduce

(* A branch count moves no block.                                            *)
LEMMA AdjustRefsReduces ==
  ASSUME NEW t \in NodeState, NEW s, NEW d \in {1, -1}
  PROVE  Reduces(t, AdjustRefs(t, s, d))
<1>1. CASE ~Occupied(t, s)
  BY <1>1, ReducesSelf DEF AdjustRefs
<1>2. CASE Occupied(t, s)
  <2> DEFINE B == [t.blocks EXCEPT ![s].refs = IF d < 0 THEN Monus(@, -d) ELSE @ + d]
  <2>1. s \in Slot /\ t.blocks[s] \in BlockEntry
    BY <1>2 DEF Occupied, NodeState
  <2>2. t.blocks[s].refs \in Nat
    BY <2>1 DEF BlockEntry
  <2>3. (IF d < 0 THEN Monus(t.blocks[s].refs, -d) ELSE t.blocks[s].refs + d) \in Nat
    BY <2>2 DEF Monus
  <2>4. B \in [Slot -> BlockEntry]
    BY <2>1, <2>3 DEF BlockEntry, NodeState
  <2>5. \A r \in Slot : /\ B[r].hash = t.blocks[r].hash
                        /\ B[r].status = t.blocks[r].status
                        /\ B[r].onActive = t.blocks[r].onActive
    BY DEF BlockEntry, NodeState
  <2>6. AdjustRefs(t, s, d) = [t EXCEPT !.blocks = B]
    BY <1>2 DEF AdjustRefs, NodeState
  <2> HIDE DEF B
  <2>7. QED
    BY <2>4, <2>5, <2>6, BlocksReduce
<1>3. QED
  BY <1>1, <1>2

-----------------------------------------------------------------------------
(* p leads from s through parents, each of them a block of the tree.         *)
IsPath(t, s, p) ==
  /\ p \in Seq(Ref) /\ Len(p) >= 1 /\ p[1] = s
  /\ \A i \in 2 .. Len(p) : /\ Occupied(t, p[i - 1]) /\ Occupied(t, p[i])
                            /\ p[i] = t.blocks[p[i - 1]].parent

(* A parent reference is a slot or none, and only a block has a parent.      *)
LEMMA UpType ==
  ASSUME NEW t \in NodeState, NEW s
  PROVE  Up(t, s) \in Ref /\ (Occupied(t, Up(t, s)) => Occupied(t, s))
BY BlockAssumption DEF Up, Occupied, NodeState, BlockEntry, Ref, NoRef, Slot

(* The walk to the root is such a path: it ends, because it is no longer     *)
(* than the block table, and it ends only there or at a block whose parent   *)
(* is not retained.                                                          *)
LEMMA PathIsPath ==
  ASSUME NEW t \in NodeState, NEW s \in Ref
  PROVE  /\ IsPath(t, s, Path(t, s))
         /\ ~(Len(Path(t, s)) < MaxBlocks /\ Occupied(t, Up(t, Last(Path(t, s)))))
<1> DEFINE P == Seq(Ref)
           Goes(p) == Len(p) < MaxBlocks /\ Occupied(t, Up(t, Last(p)))
           goes == {p \in P : Goes(p)}
           next == [p \in P |-> IF p \in goes THEN Append(p, Up(t, Last(p))) ELSE p]
           left == [p \in P |-> IF Len(p) <= MaxBlocks THEN MaxBlocks - Len(p) ELSE 0]
           Eq(f) == f = [p \in P |-> IF Goes(p) THEN f[Append(p, Up(t, Last(p)))] ELSE p]
           walk == CHOOSE f : Eq(f)
           Inv == {p \in P : IsPath(t, s, p)}
<1>1. Path(t, s) = walk[<<s>>]
  BY DEF Path
<1>2. MaxBlocks \in Nat
  BY BlockAssumption
<1>3. next \in [P -> P]
  BY UpType
<1>4. left \in [P -> 0 .. MaxBlocks]
  BY <1>2
<1>5. \A p \in P : p \in goes => left[next[p]] < left[p]
  <2> SUFFICES ASSUME NEW p \in P, p \in goes PROVE left[next[p]] < left[p]
    OBVIOUS
  <2>1. next[p] \in P /\ Len(next[p]) = Len(p) + 1 /\ Len(p) < MaxBlocks /\ Len(p) \in Nat
    BY UpType
  <2> HIDE DEF next
  <2>2. QED
    BY <1>2, <2>1
<1>6. Descends(MaxBlocks, P, goes, next, left)
  <2> HIDE DEF P, goes, next, left
  <2>1. QED
    BY <1>2, <1>3, <1>4, <1>5 DEF Descends
<1>7. PICK f \in [P -> P] : IsWalk(f, P, goes, next)
  <2> HIDE DEF P, goes, next, left
  <2>1. QED
    BY <1>6, WalkExists, Zenon
<1>8. Eq(f)
  <2>1. \A p \in P : f[p] = IF Goes(p) THEN f[Append(p, Up(t, Last(p)))] ELSE p
    BY <1>7 DEF IsWalk
  <2> HIDE DEF P, Goes
  <2>2. QED
    BY <2>1
<1> HIDE DEF Eq
<1>9. Eq(walk)
  BY <1>8
<1> HIDE DEF walk
<1>10. IsWalk(walk, P, goes, next)
  BY <1>9 DEF Eq, IsWalk
<1>11. \A p \in Inv : p \in goes => next[p] \in Inv
  <2> SUFFICES ASSUME NEW p \in P, IsPath(t, s, p), p \in goes PROVE next[p] \in Inv
    OBVIOUS
  <2> DEFINE x == Up(t, Last(p))
             q == Append(p, x)
  <2>1. next[p] = q
    OBVIOUS
  <2>2. x \in Ref /\ Occupied(t, x) /\ Occupied(t, Last(p)) /\ x = t.blocks[Last(p)].parent
    BY UpType DEF Up
  <2>3. Last(p) = p[Len(p)] /\ Len(p) \in Nat
    BY DEF Last
  <2>4. /\ q \in Seq(Ref) /\ Len(q) = Len(p) + 1 /\ q[Len(p) + 1] = x
        /\ \A i \in 1 .. Len(p) : q[i] = p[i]
    BY <2>2, <2>3
  <2> HIDE DEF q, x
  <2>5. IsPath(t, s, q)
    <3>1. ASSUME NEW i \in 2 .. Len(q)
          PROVE  Occupied(t, q[i - 1]) /\ Occupied(t, q[i]) /\ q[i] = t.blocks[q[i - 1]].parent
      <4>1. CASE i = Len(p) + 1
        <5>1. q[i - 1] = p[Len(p)] /\ q[i] = x
          BY <2>3, <2>4, <4>1 DEF IsPath
        <5>2. QED
          BY <2>2, <2>3, <5>1
      <4>2. CASE i # Len(p) + 1
        <5>1. i \in 2 .. Len(p) /\ i - 1 \in 1 .. Len(p) /\ i \in 1 .. Len(p)
          BY <2>3, <2>4, <4>2
        <5>2. q[i] = p[i] /\ q[i - 1] = p[i - 1]
          BY <2>4, <5>1
        <5>3. QED
          BY <5>1, <5>2 DEF IsPath
      <4>3. QED
        BY <4>1, <4>2
    <3>2. q[1] = s
      BY <2>3, <2>4 DEF IsPath
    <3>3. QED
      BY <2>3, <2>4, <3>1, <3>2 DEF IsPath
  <2>6. QED
    BY <2>1, <2>4, <2>5
<1>12. <<s>> \in Inv
  BY DEF IsPath
<1>13. \A p \in Inv : walk[p] \in Inv /\ walk[p] \notin goes
  <2>1. KeptBySteps(Inv, P, goes, next)
    <3>1. Inv \subseteq P
      OBVIOUS
    <3> HIDE DEF P, goes, next, Inv
    <3>2. QED
      BY <1>11, <3>1 DEF KeptBySteps
  <2> HIDE DEF P, goes, next, left, Inv
  <2>2. QED
    BY <1>6, <1>10, <2>1, WalkKeeps, Zenon
<1>14. QED
  BY <1>1, <1>12, <1>13

(* What the proofs use of a path: its type, its ends, its blocks.            *)
PathFacts(t, s, p) ==
  /\ p \in Seq(Ref) /\ Len(p) \in Nat \ {0} /\ DOMAIN p = 1 .. Len(p)
  /\ p[1] = s /\ Last(p) = p[Len(p)]
  /\ \A i \in DOMAIN p : p[i] \in Ref
  /\ s \in Slot => \A i \in DOMAIN p : p[i] \in Slot
  /\ Occupied(t, s) => \A i \in DOMAIN p : Occupied(t, p[i])
  /\ \A i \in 2 .. Len(p) : /\ Occupied(t, p[i - 1]) /\ Occupied(t, p[i])
                            /\ p[i] = t.blocks[p[i - 1]].parent

(* The path of the model has these facts.                                    *)
LEMMA PathElements ==
  ASSUME NEW t \in NodeState, NEW s \in Ref
  PROVE  PathFacts(t, s, Path(t, s))
<1> DEFINE p == Path(t, s)
<1>1. IsPath(t, s, p)
  BY PathIsPath
<1> HIDE DEF p
<1>2. p \in Seq(Ref) /\ Len(p) \in Nat \ {0} /\ DOMAIN p = 1 .. Len(p) /\ p[1] = s
  BY <1>1 DEF IsPath
<1>3. \A i \in 2 .. Len(p) : /\ Occupied(t, p[i - 1]) /\ Occupied(t, p[i])
                             /\ p[i] = t.blocks[p[i - 1]].parent
  BY <1>1 DEF IsPath
<1>4. \A i \in DOMAIN p : i = 1 \/ i \in 2 .. Len(p)
  BY <1>2
<1>5. s \in Slot => \A i \in DOMAIN p : p[i] \in Slot
  BY <1>2, <1>3, <1>4 DEF Occupied
<1>6. Occupied(t, s) => \A i \in DOMAIN p : Occupied(t, p[i])
  BY <1>2, <1>3, <1>4
<1>7. QED
  BY <1>2, <1>3, <1>5, <1>6 DEF Last, PathFacts, p

(* The lowest member of a set of slots is one of them.                       *)
LEMMA LowestIn ==
  ASSUME NEW S, S \subseteq Nat
  PROVE  /\ S = {} => LowestOf(S) = NoRef
         /\ S # {} => LowestOf(S) \in S /\ \A k \in S : LowestOf(S) <= k
BY MinOf DEF LowestOf

(* Slots and entries are numbers above the null reference.                   *)
LEMMA Numbers ==
  /\ Slot \subseteq Nat \ {NoRef} /\ Ref \subseteq Nat /\ Branch \subseteq Nat \ {NoRef}
  /\ NoRef \in Ref /\ Slot \subseteq Ref /\ \A s \in Ref : s # NoRef => s \in Slot
BY BlockAssumption, BranchAssumption DEF Slot, Ref, NoRef, Branch

(* Recomputing the caches of a tip entry writes that entry only.             *)
LEMMA RecomputeCachesReduces ==
  ASSUME NEW t \in NodeState, NEW k \in Branch, NEW anchor, NEW anchorPrev \in Nat
  PROVE  Reduces(t, RecomputeCaches(t, k, anchor, anchorPrev))
<1> DEFINE path == Path(t, t.heads[k].head)
           i == ConnectionIndex(t, path)
           missing == MissingParent(t, k, Last(path), anchor, anchorPrev)
           e == Caches(t.heads[k], path, i, missing)
<1>1. t.heads[k] \in ChainHeadEntry /\ t.heads[k].head \in Ref
  BY DEF NodeState, ChainHeadEntry
<1>2. /\ DOMAIN path \subseteq Nat \ {0} /\ Last(path) \in Ref
      /\ \A j \in DOMAIN path : path[j] \in Ref
  <2>1. PathFacts(t, t.heads[k].head, path)
    BY <1>1, PathElements
  <2> HIDE DEF path
  <2>2. QED
    BY <2>1 DEF PathFacts
<1>3. i # NoRef => path[i] \in Ref
  <2> HIDE DEF path
  <2>1. {j \in DOMAIN path : t.blocks[path[j]].onActive} \subseteq Nat
    BY <1>2
  <2>2. QED
    BY <1>2, <2>1, LowestIn DEF ConnectionIndex
<1>4. missing \in Nat
  <2> DEFINE S(tail) == {j \in StoredHeads(t) : t.heads[j].tail = tail} \union {k}
  <2>1. \A tail : Min(S(tail)) \in Branch
    <3> SUFFICES ASSUME NEW tail PROVE Min(S(tail)) \in Branch
      OBVIOUS
    <3>1. S(tail) \subseteq Branch /\ S(tail) # {} /\ S(tail) \subseteq Nat
      BY Numbers DEF StoredHeads, Tracked
    <3> HIDE DEF S
    <3>2. QED
      BY <3>1, MinOf
  <2>2. \A j \in Branch : t.heads[j].missing \in Nat
    BY DEF NodeState, ChainHeadEntry
  <2>3. QED
    BY <2>1, <2>2 DEF MissingParent
<1> HIDE DEF missing, i, path
<1>5. e \in ChainHeadEntry
  BY <1>1, <1>2, <1>3, <1>4 DEF Caches, ChainHeadEntry, NoHash
<1>6. RecomputeCaches(t, k, anchor, anchorPrev) = [t EXCEPT !.heads[k] = e]
  BY DEF RecomputeCaches, CachesFrom, path, i, missing
<1> HIDE DEF e
<1>7. QED
  BY <1>5, <1>6, HeadReduces

(* The trees that reduce t.                                                  *)
Reducts(t) == {u \in NodeState : Reduces(t, u)}

(* A reduct of a reduct is one.                                              *)
LEMMA ReductsOn ==
  ASSUME NEW t, NEW u \in Reducts(t), NEW v, Reduces(u, v)
  PROVE  v \in Reducts(t)
<1>1. Reduces(t, v)
  BY ReducesOn DEF Reducts
<1>2. QED
  BY <1>1 DEF Reducts, Reduces

(* The same for an entry that may be free.                                   *)
LEMMA RecomputeIfTrackedReduces ==
  ASSUME NEW t \in NodeState, NEW k \in Branch
  PROVE  Reduces(t, RecomputeIfTracked(t, k))
<1>1. NoHash \in Nat
  BY DEF NoHash
<1>2. QED
  BY <1>1, ReducesSelf, RecomputeCachesReduces DEF RecomputeIfTracked

(* Recomputing all the caches is a run of its step,                         *)
(* in whatever set the step stays in.                                       *)
LEMMA RecomputeAllCachesRuns ==
  ASSUME NEW T, NEW t \in T,
         \A u \in T, k \in Branch : RecomputeIfTracked(u, k) \in T
  PROVE  /\ RecomputeAllCaches(t) \in T
         /\ \E g \in [T \X Branch -> T] :
              /\ \A u \in T, k \in Branch : g[<<u, k>>] = RecomputeIfTracked(u, k)
              /\ HasRun(MaxBranches, T, t, g, RecomputeAllCaches(t))
<1> DEFINE n == MaxBranches
           seq == InBranchOrder
           Step(u, k) == RecomputeIfTracked(u, k)
           g == [p \in T \X (1 .. n) |-> Step(p[1], p[2])]
           Eq(h) == h = [s \in SUBSET (DOMAIN seq) |->
                          IF s = {} THEN t ELSE Step(h[s \ {Max(s)}], seq[Max(s)])]
           iter == CHOOSE h : Eq(h)
<1>1. RecomputeAllCaches(t) = iter[DOMAIN seq]
  BY DEF RecomputeAllCaches, FoldLeft, MapThenFoldSet
<1>2. n \in Nat /\ DOMAIN seq = 1 .. n /\ \A k \in 1 .. n : seq[k] = k
  BY BranchAssumption DEF InBranchOrder, Branch
<1>3. Branch = 1 .. n /\ \A u \in T, k \in 1 .. n : Step(u, k) \in T
  BY DEF Branch
<1> HIDE DEF seq, n, Step
<1>4. g \in [T \X (1 .. n) -> T] /\ \A u \in T, k \in 1 .. n : g[<<u, k>>] = Step(u, k)
  BY <1>3
<1> HIDE DEF g
<1>5. \A s \in SUBSET (1 .. n) : s # {} => Max(s) \in 1 .. n
  BY <1>2, TopOf
<1>6. PICK h \in [SUBSET (1 .. n) -> T] : FoldsUp(h, n, T, t, g)
  BY <1>2, <1>4, FoldUpExists, Zenon
<1>7. ASSUME NEW s \in SUBSET (1 .. n), s # {}
      PROVE  h[s] = Step(h[s \ {Max(s)}], seq[Max(s)])
  <2>1. Max(s) \in 1 .. n /\ h[s \ {Max(s)}] \in T
    BY <1>5, <1>7
  <2>2. h[s] = g[<<h[s \ {Max(s)}], Max(s)>>]
    BY <1>6, <1>7, <2>1 DEF FoldsUp
  <2>3. QED
    BY <1>2, <1>4, <2>1, <2>2
<1>8. Eq(h)
  BY <1>2, <1>6, <1>7 DEF FoldsUp
<1> HIDE DEF Eq
<1>9. Eq(iter)
  BY <1>8
<1> HIDE DEF iter
<1>10. FoldsUp(iter, n, T, t, g)
  <2>1. iter[{}] = t
    BY <1>2, <1>9 DEF Eq
  <2>2. ASSUME NEW s \in SUBSET (1 .. n), s # {}, iter[s \ {Max(s)}] \in T
        PROVE  iter[s] = g[<<iter[s \ {Max(s)}], Max(s)>>]
    <3>1. Max(s) \in 1 .. n /\ iter[s] = Step(iter[s \ {Max(s)}], seq[Max(s)])
      BY <1>2, <1>5, <1>9, <2>2 DEF Eq
    <3>2. QED
      BY <1>2, <1>4, <2>2, <3>1
  <2>3. QED
    BY <2>1, <2>2 DEF FoldsUp
<1>11. HasRun(n, T, t, g, RecomputeAllCaches(t))
  <2>1. HasRun(n, T, t, g, iter[1 .. n])
    BY <1>2, <1>4, <1>10, FoldRunExists, Zenon
  <2>2. QED
    BY <1>1, <1>2, <2>1
<1>12. RecomputeAllCaches(t) \in T
  BY <1>2, <1>11, RunEnds
<1>13. QED
  BY <1>3, <1>4, <1>11, <1>12 DEF n, Step

(* And for all entries: a fold over the tip table.                           *)
LEMMA RecomputeAllCachesReduces ==
  ASSUME NEW t \in NodeState
  PROVE  Reduces(t, RecomputeAllCaches(t))
<1> DEFINE T == Reducts(t)
<1>1. \A u \in T, k \in Branch : RecomputeIfTracked(u, k) \in T
  <2> SUFFICES ASSUME NEW u \in T, NEW k \in Branch PROVE RecomputeIfTracked(u, k) \in T
    OBVIOUS
  <2>1. u \in Reducts(t) /\ u \in NodeState
    BY DEF Reducts
  <2>2. Reduces(u, RecomputeIfTracked(u, k))
    BY <2>1, RecomputeIfTrackedReduces
  <2>3. QED
    BY <2>1, <2>2, ReductsOn
<1>2. t \in T
  BY ReducesSelf DEF Reducts
<1> HIDE DEF T
<1>3. RecomputeAllCaches(t) \in T
  BY <1>1, <1>2, RecomputeAllCachesRuns
<1>4. QED
  BY <1>3 DEF T, Reducts

(* Saturating subtraction stays among the numbers.                           *)
LEMMA MonusNat ==
  ASSUME NEW a \in Nat, NEW b \in Nat
  PROVE  Monus(a, b) \in Nat
BY DEF Monus

(* A link moves no block.                                                    *)
LEMMA SetParentReduces ==
  ASSUME NEW t \in NodeState, NEW s \in Slot, NEW p \in Ref
  PROVE  Reduces(t, SetParent(t, s, p))
<1> DEFINE B == [t.blocks EXCEPT ![s].parent = p]
<1>1. B \in [Slot -> BlockEntry]
  BY DEF BlockEntry, NodeState
<1>2. \A r \in Slot : /\ B[r].hash = t.blocks[r].hash
                      /\ B[r].status = t.blocks[r].status
                      /\ B[r].onActive = t.blocks[r].onActive
  BY DEF BlockEntry, NodeState
<1>3. SetParent(t, s, p) = [t EXCEPT !.blocks = B]
  BY DEF SetParent, NodeState
<1> HIDE DEF B
<1>4. QED
  BY <1>1, <1>2, <1>3, BlocksReduce

(* A free slot holds no block and is not on the chain.                       *)
LEMMA FreeSlotEntry == FreeSlot \in BlockEntry /\ FreeSlot.hash = NoHash /\ ~FreeSlot.onActive
BY DEF FreeSlot, BlockEntry, Statuses, Ref

(* Deletion frees slots and changes no other.                                *)
LEMMA DeleteBlocksReduces ==
  ASSUME NEW t \in NodeState, NEW S
  PROVE  Reduces(t, DeleteBlocks(t, S))
<1> DEFINE B == [s \in Slot |-> IF s \in S THEN FreeSlot ELSE t.blocks[s]]
<1>1. t.blocks \in [Slot -> BlockEntry]
  BY DEF NodeState
<1>2. B \in [Slot -> BlockEntry]
  BY <1>1, FreeSlotEntry
<1>3. \A s \in Slot : B[s].hash # NoHash \/ B[s].onActive =>
        /\ B[s].hash = t.blocks[s].hash
        /\ B[s].status = t.blocks[s].status
        /\ B[s].onActive = t.blocks[s].onActive
  BY FreeSlotEntry
<1>4. DeleteBlocks(t, S) = [t EXCEPT !.blocks = B]
  BY DEF DeleteBlocks
<1> HIDE DEF B
<1>5. QED
  BY <1>2, <1>3, <1>4, BlocksReduce

(* A free tip entry is an entry.                                             *)
LEMMA EmptyHeadEntry == EmptyHead \in ChainHeadEntry /\ EmptyHead.head = NoRef
BY DEF EmptyHead, ChainHeadEntry, Ref, NoHash

(* Freeing a tip entry is a reduction.                                       *)
LEMMA UntrackReduces ==
  ASSUME NEW t \in NodeState, NEW k \in Branch
  PROVE  Reduces(t, Untrack(t, k))
BY HeadReduces, EmptyHeadEntry DEF Untrack

(* The entry found for a head is an entry.                                   *)
LEMMA HeadOfIn ==
  ASSUME NEW t, NEW s
  PROVE  HeadOf(t, s) # NoRef => HeadOf(t, s) \in Tracked(t) /\ HeadOf(t, s) \in Branch
<1>1. {k \in Tracked(t) : t.heads[k].head = s} \subseteq Branch
  BY DEF Tracked
<1>2. QED
  BY <1>1, LowestIn, Numbers DEF HeadOf

(* Recomputing the entry of a head is a reduction.                           *)
LEMMA RefreshHeadReduces ==
  ASSUME NEW t \in NodeState, NEW s
  PROVE  Reduces(t, RefreshHead(t, s))
<1>1. NoHash \in Nat
  BY DEF NoHash
<1>2. QED
  BY <1>1, HeadOfIn, ReducesSelf, RecomputeCachesReduces DEF RefreshHead

(* Writing the value of a branch is a reduction.                             *)
LEMMA SetBranchValueReduces ==
  ASSUME NEW t \in NodeState, NEW s, NEW v \in Nat
  PROVE  Reduces(t, SetBranchValue(t, s, v))
<1> DEFINE k == HeadOf(t, s)
           e == [t.heads[k] EXCEPT !.value = v]
<1>1. CASE k = NoRef
  BY <1>1, ReducesSelf DEF SetBranchValue
<1>2. CASE k # NoRef
  <2>1. k \in Branch
    BY <1>2, HeadOfIn
  <2>2. SetBranchValue(t, s, v) = [t EXCEPT !.heads[k] = e]
    BY <1>2, <2>1 DEF SetBranchValue, NodeState
  <2> HIDE DEF k
  <2>3. e \in ChainHeadEntry
    BY <2>1 DEF NodeState, ChainHeadEntry
  <2> HIDE DEF e
  <2>4. QED
    BY <2>1, <2>2, <2>3, HeadReduces
<1>3. QED
  BY <1>1, <1>2

(* So is taking a released vote out of every branch value.                   *)
LEMMA SubtractBranchValueReduces ==
  ASSUME NEW t \in NodeState, NEW v \in Nat
  PROVE  Reduces(t, SubtractBranchValue(t, v))
<1> DEFINE Falls(k) == Occupied(t, t.heads[k].head) /\ t.blocks[t.heads[k].head].status = "Connected"
           H == [k \in Branch |->
                  IF Falls(k) THEN [t.heads[k] EXCEPT !.value = Monus(t.heads[k].value, v)]
                  ELSE t.heads[k]]
<1>1. SubtractBranchValue(t, v) = [t EXCEPT !.heads = H]
  BY DEF SubtractBranchValue
<1>2. \A k \in Branch : t.heads[k] \in ChainHeadEntry /\ t.heads[k].value \in Nat
  BY DEF NodeState, ChainHeadEntry
<1> HIDE DEF Falls
<1>3. \A k \in Branch : [t.heads[k] EXCEPT !.value = Monus(t.heads[k].value, v)] \in ChainHeadEntry
  BY <1>2, MonusNat DEF ChainHeadEntry
<1>4. H \in [Branch -> ChainHeadEntry]
  BY <1>2, <1>3
<1> HIDE DEF H
<1>5. QED
  BY <1>1, <1>4, HeadsReduce

(* Releasing an evicted branch frees slots and corrects a count.             *)
LEMMA ReleaseReduces ==
  ASSUME NEW t \in NodeState, NEW path, NEW stops
  PROVE  Reduces(t, Release(t, path, stops))
<1> DEFINE u == AdjustRefs(t, path[Min(stops)], -1)
<1>1. Reduces(t, u)
  BY AdjustRefsReduces
<1>2. u \in NodeState
  BY <1>1 DEF Reduces
<1> HIDE DEF u
<1>3. Reduces(t, DeleteBlocks(u, Range(SubSeq(path, 1, Min(stops) - 1))))
  BY <1>1, <1>2, DeleteBlocksReduces, ReducesOn
<1>4. QED
  BY <1>3, DeleteBlocksReduces DEF Release, u

(* Making room in the tip table evicts one branch at most.                   *)
LEMMA EnsureRoomReduces ==
  ASSUME NEW t \in NodeState
  PROVE  Reduces(t, EnsureRoom(t))
<1>1. CASE EvictionVictims(t) = {}
  BY <1>1, ReducesSelf DEF EnsureRoom, EvictOne
<1>2. CASE EvictionVictims(t) # {}
  <2> DEFINE k == Min(EvictionVictims(t))
             path == Path(t, t.heads[k].head)
             u == Release(t, path, Stops(t, path))
  <2>1. k \in Branch
    <3>1. EvictionVictims(t) \subseteq Branch
      BY DEF EvictionVictims, Tracked
    <3>2. QED
      BY <1>2, <3>1, MinOf, Numbers
  <2>2. EvictOne(t) = Untrack(u, k)
    BY <1>2 DEF EvictOne, Evict
  <2>3. Reduces(t, u)
    BY ReleaseReduces
  <2>4. u \in NodeState
    BY <2>3 DEF Reduces
  <2> HIDE DEF u, k
  <2>5. Reduces(t, EvictOne(t))
    BY <2>1, <2>2, <2>3, <2>4, UntrackReduces, ReducesOn
  <2>6. QED
    BY <2>5, ReducesSelf DEF EnsureRoom
<1>3. QED
  BY <1>1, <1>2

(* Filling a new tip entry writes that entry only.                           *)
LEMMA FillEntryReduces ==
  ASSUME NEW t \in NodeState, NEW x \in Ref, NEW anchor, NEW anchorPrev \in Nat
  PROVE  Reduces(t, FillEntry(t, x, anchor, anchorPrev))
<1> DEFINE k == LowestOf(Branch \ Tracked(t))
           e == [EmptyHead EXCEPT !.head = x, !.tail = x]
           u == [t EXCEPT !.heads[k] = e]
<1>1. CASE k = NoRef
  BY <1>1, ReducesSelf DEF FillEntry, PlaceHead
<1>2. CASE k # NoRef
  <2>1. k \in Branch
    BY <1>2, LowestIn, Numbers
  <2>2. FillEntry(t, x, anchor, anchorPrev) = RecomputeCaches(u, k, anchor, anchorPrev)
    BY <1>2 DEF FillEntry, PlaceHead
  <2>3. e \in ChainHeadEntry
    BY EmptyHeadEntry DEF ChainHeadEntry
  <2> HIDE DEF k, e
  <2>4. Reduces(t, u)
    BY <2>1, <2>3, HeadReduces
  <2>5. u \in NodeState
    BY <2>4 DEF Reduces
  <2> HIDE DEF u
  <2>6. QED
    BY <2>1, <2>2, <2>4, <2>5, RecomputeCachesReduces, ReducesOn
<1>3. QED
  BY <1>1, <1>2

(* Inserting a tip, with the eviction it may need, is a reduction.           *)
LEMMA InsertHeadReduces ==
  ASSUME NEW t \in NodeState, NEW x \in Ref, NEW anchor, NEW anchorPrev \in Nat
  PROVE  Reduces(t, InsertHead(t, x, anchor, anchorPrev))
<1> DEFINE u == EnsureRoom(t)
<1>1. Reduces(t, u)
  BY EnsureRoomReduces
<1>2. u \in NodeState
  BY <1>1 DEF Reduces
<1> HIDE DEF u
<1>3. Reduces(u, FillEntry(u, x, anchor, anchorPrev))
  BY <1>2, FillEntryReduces
<1>4. QED
  BY <1>1, <1>3, ReducesOn DEF InsertHead, u

-----------------------------------------------------------------------------
(* A slot that is not free holds a block.                                    *)
LEMMA RetainedBlock ==
  ASSUME NEW t \in NodeState, NEW s, Occupied(t, s)
  PROVE  s \in Slot /\ s \in Ref /\ HashAt(t, s) \in Block /\ t.blocks[s].hash \in Block
BY Numbers DEF Occupied, HashAt, NodeState, BlockEntry

(* What the headers of blocks hold: numbers, and no zero hash.               *)
LEMMA HeaderNumbers ==
  ASSUME NEW b \in Block
  PROVE  PrevHash[b] \in Nat /\ BlockSeq[b] \in Nat /\ b \in Nat /\ b # NoHash
BY BlockAssumption

(* Attaching a waiting fragment to its parent is a reduction.                *)
LEMMA AttachTailReduces ==
  ASSUME NEW t \in NodeState, NEW k \in Branch, NEW x \in Ref
  PROVE  Reduces(t, AttachTail(t, k, x))
<1> DEFINE tail == t.heads[k].tail
           u == SetParent(t, tail, x)
<1>1. CASE ~Occupied(t, tail)
  BY <1>1, ReducesSelf DEF AttachTail
<1>2. CASE Occupied(t, tail)
  <2>1. Reduces(t, u)
    BY <1>2, RetainedBlock, SetParentReduces
  <2>2. u \in NodeState
    BY <2>1 DEF Reduces
  <2>3. \/ AttachTail(t, k, x) = t
        \/ HeadOf(u, x) # NoRef /\ AttachTail(t, k, x) = Untrack(u, HeadOf(u, x))
        \/ AttachTail(t, k, x) = AdjustRefs(u, x, 1)
    BY DEF AttachTail
  <2> HIDE DEF u
  <2>4. Reduces(u, AdjustRefs(u, x, 1))
    BY <2>2, AdjustRefsReduces
  <2>5. HeadOf(u, x) # NoRef => Reduces(u, Untrack(u, HeadOf(u, x)))
    BY <2>2, HeadOfIn, UntrackReduces
  <2>6. QED
    BY <2>1, <2>3, <2>4, <2>5, ReducesSelf, ReducesOn
<1>3. QED
  BY <1>1, <1>2

(* Attaching all the waiting tails is a run of its step,                    *)
(* in whatever set the step stays in.                                       *)
LEMMA AttachTailsRuns ==
  ASSUME NEW T, NEW t \in T, NEW x,
         \A u \in T, k \in Branch : AttachTail(u, k, x) \in T
  PROVE  /\ AttachTails(t, x) \in T
         /\ \E g \in [T \X Branch -> T] :
              /\ \A u \in T, k \in Branch : g[<<u, k>>] = AttachTail(u, k, x)
              /\ HasRun(MaxBranches, T, t, g, AttachTails(t, x))
<1> DEFINE n == MaxBranches
           seq == InBranchOrder
           Step(u, k) == AttachTail(u, k, x)
           g == [p \in T \X (1 .. n) |-> Step(p[1], p[2])]
           Eq(h) == h = [s \in SUBSET (DOMAIN seq) |->
                          IF s = {} THEN t ELSE Step(h[s \ {Max(s)}], seq[Max(s)])]
           iter == CHOOSE h : Eq(h)
<1>1. AttachTails(t, x) = iter[DOMAIN seq]
  BY DEF AttachTails, FoldLeft, MapThenFoldSet
<1>2. n \in Nat /\ DOMAIN seq = 1 .. n /\ \A k \in 1 .. n : seq[k] = k
  BY BranchAssumption DEF InBranchOrder, Branch
<1>3. Branch = 1 .. n /\ \A u \in T, k \in 1 .. n : Step(u, k) \in T
  BY DEF Branch
<1> HIDE DEF seq, n, Step
<1>4. g \in [T \X (1 .. n) -> T] /\ \A u \in T, k \in 1 .. n : g[<<u, k>>] = Step(u, k)
  BY <1>3
<1> HIDE DEF g
<1>5. \A s \in SUBSET (1 .. n) : s # {} => Max(s) \in 1 .. n
  BY <1>2, TopOf
<1>6. PICK h \in [SUBSET (1 .. n) -> T] : FoldsUp(h, n, T, t, g)
  BY <1>2, <1>4, FoldUpExists, Zenon
<1>7. ASSUME NEW s \in SUBSET (1 .. n), s # {}
      PROVE  h[s] = Step(h[s \ {Max(s)}], seq[Max(s)])
  <2>1. Max(s) \in 1 .. n /\ h[s \ {Max(s)}] \in T
    BY <1>5, <1>7
  <2>2. h[s] = g[<<h[s \ {Max(s)}], Max(s)>>]
    BY <1>6, <1>7, <2>1 DEF FoldsUp
  <2>3. QED
    BY <1>2, <1>4, <2>1, <2>2
<1>8. Eq(h)
  BY <1>2, <1>6, <1>7 DEF FoldsUp
<1> HIDE DEF Eq
<1>9. Eq(iter)
  BY <1>8
<1> HIDE DEF iter
<1>10. FoldsUp(iter, n, T, t, g)
  <2>1. iter[{}] = t
    BY <1>2, <1>9 DEF Eq
  <2>2. ASSUME NEW s \in SUBSET (1 .. n), s # {}, iter[s \ {Max(s)}] \in T
        PROVE  iter[s] = g[<<iter[s \ {Max(s)}], Max(s)>>]
    <3>1. Max(s) \in 1 .. n /\ iter[s] = Step(iter[s \ {Max(s)}], seq[Max(s)])
      BY <1>2, <1>5, <1>9, <2>2 DEF Eq
    <3>2. QED
      BY <1>2, <1>4, <2>2, <3>1
  <2>3. QED
    BY <2>1, <2>2 DEF FoldsUp
<1>11. HasRun(n, T, t, g, AttachTails(t, x))
  <2>1. HasRun(n, T, t, g, iter[1 .. n])
    BY <1>2, <1>4, <1>10, FoldRunExists, Zenon
  <2>2. QED
    BY <1>1, <1>2, <2>1
<1>12. AttachTails(t, x) \in T
  BY <1>2, <1>11, RunEnds
<1>13. QED
  BY <1>3, <1>4, <1>11, <1>12 DEF n, Step

(* So is attaching every fragment that waits for a block.                    *)
LEMMA AttachTailsReduces ==
  ASSUME NEW t \in NodeState, NEW x \in Ref
  PROVE  Reduces(t, AttachTails(t, x))
<1> DEFINE T == Reducts(t)
<1>1. \A u \in T, k \in Branch : AttachTail(u, k, x) \in T
  <2> SUFFICES ASSUME NEW u \in T, NEW k \in Branch PROVE AttachTail(u, k, x) \in T
    OBVIOUS
  <2>1. u \in Reducts(t) /\ u \in NodeState
    BY DEF Reducts
  <2>2. Reduces(u, AttachTail(u, k, x))
    BY <2>1, AttachTailReduces
  <2>3. QED
    BY <2>1, <2>2, ReductsOn
<1>2. t \in T
  BY ReducesSelf DEF Reducts
<1> HIDE DEF T
<1>3. AttachTails(t, x) \in T
  BY <1>1, <1>2, AttachTailsRuns
<1>4. QED
  BY <1>3 DEF T, Reducts

(* Recomputing a waiting head is a reduction.                                *)
LEMMA RefreshIfWaitingReduces ==
  ASSUME NEW t \in NodeState, NEW k \in Branch, NEW x, NEW b \in Block
  PROVE  Reduces(t, RefreshIfWaiting(t, k, x, b))
BY ReducesSelf, HeaderNumbers, RecomputeCachesReduces DEF RefreshIfWaiting

(* Refreshing all the waiting entries is a run of its step,                 *)
(* in whatever set the step stays in.                                       *)
LEMMA RefreshWaitingRuns ==
  ASSUME NEW T, NEW t \in T, NEW x, NEW b,
         \A u \in T, k \in Branch : RefreshIfWaiting(u, k, x, b) \in T
  PROVE  /\ RefreshWaiting(t, x, b) \in T
         /\ \E g \in [T \X Branch -> T] :
              /\ \A u \in T, k \in Branch : g[<<u, k>>] = RefreshIfWaiting(u, k, x, b)
              /\ HasRun(MaxBranches, T, t, g, RefreshWaiting(t, x, b))
<1> DEFINE n == MaxBranches
           seq == InBranchOrder
           Step(u, k) == RefreshIfWaiting(u, k, x, b)
           g == [p \in T \X (1 .. n) |-> Step(p[1], p[2])]
           Eq(h) == h = [s \in SUBSET (DOMAIN seq) |->
                          IF s = {} THEN t ELSE Step(h[s \ {Max(s)}], seq[Max(s)])]
           iter == CHOOSE h : Eq(h)
<1>1. RefreshWaiting(t, x, b) = iter[DOMAIN seq]
  BY DEF RefreshWaiting, FoldLeft, MapThenFoldSet
<1>2. n \in Nat /\ DOMAIN seq = 1 .. n /\ \A k \in 1 .. n : seq[k] = k
  BY BranchAssumption DEF InBranchOrder, Branch
<1>3. Branch = 1 .. n /\ \A u \in T, k \in 1 .. n : Step(u, k) \in T
  BY DEF Branch
<1> HIDE DEF seq, n, Step
<1>4. g \in [T \X (1 .. n) -> T] /\ \A u \in T, k \in 1 .. n : g[<<u, k>>] = Step(u, k)
  BY <1>3
<1> HIDE DEF g
<1>5. \A s \in SUBSET (1 .. n) : s # {} => Max(s) \in 1 .. n
  BY <1>2, TopOf
<1>6. PICK h \in [SUBSET (1 .. n) -> T] : FoldsUp(h, n, T, t, g)
  BY <1>2, <1>4, FoldUpExists, Zenon
<1>7. ASSUME NEW s \in SUBSET (1 .. n), s # {}
      PROVE  h[s] = Step(h[s \ {Max(s)}], seq[Max(s)])
  <2>1. Max(s) \in 1 .. n /\ h[s \ {Max(s)}] \in T
    BY <1>5, <1>7
  <2>2. h[s] = g[<<h[s \ {Max(s)}], Max(s)>>]
    BY <1>6, <1>7, <2>1 DEF FoldsUp
  <2>3. QED
    BY <1>2, <1>4, <2>1, <2>2
<1>8. Eq(h)
  BY <1>2, <1>6, <1>7 DEF FoldsUp
<1> HIDE DEF Eq
<1>9. Eq(iter)
  BY <1>8
<1> HIDE DEF iter
<1>10. FoldsUp(iter, n, T, t, g)
  <2>1. iter[{}] = t
    BY <1>2, <1>9 DEF Eq
  <2>2. ASSUME NEW s \in SUBSET (1 .. n), s # {}, iter[s \ {Max(s)}] \in T
        PROVE  iter[s] = g[<<iter[s \ {Max(s)}], Max(s)>>]
    <3>1. Max(s) \in 1 .. n /\ iter[s] = Step(iter[s \ {Max(s)}], seq[Max(s)])
      BY <1>2, <1>5, <1>9, <2>2 DEF Eq
    <3>2. QED
      BY <1>2, <1>4, <2>2, <3>1
  <2>3. QED
    BY <2>1, <2>2 DEF FoldsUp
<1>11. HasRun(n, T, t, g, RefreshWaiting(t, x, b))
  <2>1. HasRun(n, T, t, g, iter[1 .. n])
    BY <1>2, <1>4, <1>10, FoldRunExists, Zenon
  <2>2. QED
    BY <1>1, <1>2, <2>1
<1>12. RefreshWaiting(t, x, b) \in T
  BY <1>2, <1>11, RunEnds
<1>13. QED
  BY <1>3, <1>4, <1>11, <1>12 DEF n, Step

(* So is recomputing all of them.                                            *)
LEMMA RefreshWaitingReduces ==
  ASSUME NEW t \in NodeState, NEW x, NEW b \in Block
  PROVE  Reduces(t, RefreshWaiting(t, x, b))
<1> DEFINE T == Reducts(t)
<1>1. \A u \in T, k \in Branch : RefreshIfWaiting(u, k, x, b) \in T
  <2> SUFFICES ASSUME NEW u \in T, NEW k \in Branch PROVE RefreshIfWaiting(u, k, x, b) \in T
    OBVIOUS
  <2>1. u \in Reducts(t) /\ u \in NodeState
    BY DEF Reducts
  <2>2. Reduces(u, RefreshIfWaiting(u, k, x, b))
    BY <2>1, RefreshIfWaitingReduces
  <2>3. QED
    BY <2>1, <2>2, ReductsOn
<1>2. t \in T
  BY ReducesSelf DEF Reducts
<1> HIDE DEF T
<1>3. RefreshWaiting(t, x, b) \in T
  BY <1>1, <1>2, RefreshWaitingRuns
<1>4. QED
  BY <1>3 DEF T, Reducts

(* resolve_pending_tails is a reduction.                                     *)
LEMMA ResolvePendingTailsReduces ==
  ASSUME NEW t \in NodeState, NEW x
  PROVE  Reduces(t, ResolvePendingTails(t, x))
<1> DEFINE u == AttachTails(t, x)
           b == t.blocks[x].hash
<1>1. CASE ~Occupied(t, x)
  BY <1>1, ReducesSelf DEF ResolvePendingTails
<1>2. CASE Occupied(t, x)
  <2>1. x \in Ref /\ b \in Block
    BY <1>2, RetainedBlock
  <2>2. Reduces(t, u)
    BY <2>1, AttachTailsReduces
  <2>3. u \in NodeState
    BY <2>2 DEF Reduces
  <2>4. ResolvePendingTails(t, x) = RefreshWaiting(u, x, b)
    BY <1>2 DEF ResolvePendingTails
  <2> HIDE DEF u, b
  <2>5. Reduces(u, RefreshWaiting(u, x, b))
    BY <2>1, <2>3, RefreshWaitingReduces
  <2>6. QED
    BY <2>2, <2>4, <2>5, ReducesOn
<1>3. QED
  BY <1>1, <1>2

(* Giving an admitted block its tip entry is a reduction.                    *)
LEMMA PlaceTipReduces ==
  ASSUME NEW t \in NodeState, NEW x \in Slot, NEW p, NEW prev \in Nat,
         NEW k, k # NoRef => k \in Branch
  PROVE  Reduces(t, PlaceTip(t, x, p, k, prev))
<1>1. CASE k = NoRef
  <2> DEFINE u == AdjustRefs(t, p, 1)
  <2>1. Reduces(t, u)
    BY AdjustRefsReduces
  <2>2. u \in NodeState
    BY <2>1 DEF Reduces
  <2>3. PlaceTip(t, x, p, k, prev) = InsertHead(u, x, x, prev)
    BY <1>1 DEF PlaceTip
  <2> HIDE DEF u
  <2>4. x \in Ref
    BY Numbers
  <2>5. QED
    BY <2>1, <2>2, <2>3, <2>4, InsertHeadReduces, ReducesOn
<1>2. CASE k # NoRef
  <2> DEFINE e == [t.heads[k] EXCEPT !.head = x]
             u == [t EXCEPT !.heads[k] = e]
  <2>1. x \in Ref /\ k \in Branch
    BY <1>2, Numbers
  <2>2. e \in ChainHeadEntry
    BY <2>1 DEF NodeState, ChainHeadEntry
  <2>3. [t EXCEPT !.heads[k].head = x] = u
    BY <2>1 DEF NodeState
  <2>4. PlaceTip(t, x, p, k, prev) = RecomputeCaches(u, k, x, prev)
    BY <1>2, <2>3 DEF PlaceTip
  <2> HIDE DEF e
  <2>5. Reduces(t, u)
    BY <2>1, <2>2, HeadReduces
  <2>6. u \in NodeState
    BY <2>5 DEF Reduces
  <2> HIDE DEF u
  <2>7. QED
    BY <2>1, <2>4, <2>5, <2>6, RecomputeCachesReduces, ReducesOn
<1>3. QED
  BY <1>1, <1>2

(* on_block_admitted, once the block is written, is a reduction: it evicts   *)
(* and links, and adds nothing.                                              *)
LEMMA OnBlockAdmittedReduces ==
  ASSUME NEW t \in NodeState, NEW x, Occupied(t, x), NEW p
  PROVE  Reduces(t, OnBlockAdmitted(t, x, p))
<1> DEFINE k == IF p = NoRef THEN NoRef ELSE HeadOf(t, p)
           prev == PrevHash[t.blocks[x].hash]
           u == AdjustRefs(t, x, 1)
           v == PlaceTip(u, x, p, k, prev)
<1>1. x \in Slot /\ prev \in Nat
  BY RetainedBlock, HeaderNumbers
<1>2. k # NoRef => k \in Branch
  BY HeadOfIn
<1>3. Reduces(t, u)
  BY AdjustRefsReduces
<1>4. u \in NodeState
  BY <1>3 DEF Reduces
<1>5. OnBlockAdmitted(t, x, p) = ResolvePendingTails(v, x)
  BY DEF OnBlockAdmitted
<1> HIDE DEF k, prev, u
<1>6. Reduces(u, v)
  BY <1>1, <1>2, <1>4, PlaceTipReduces
<1>7. v \in NodeState
  BY <1>6 DEF Reduces
<1> HIDE DEF v
<1>8. Reduces(v, ResolvePendingTails(v, x))
  BY <1>7, ResolvePendingTailsReduces
<1>9. QED
  BY <1>3, <1>5, <1>6, <1>8, ReducesOn

-----------------------------------------------------------------------------
(* A slot has a finite number of children.                                   *)
LEMMA ChildrenFinite ==
  ASSUME NEW t, NEW s
  PROVE  /\ IsFiniteSet(Children(t, s)) /\ Cardinality(Children(t, s)) \in Nat
         /\ Children(t, s) \subseteq Slot
<1>1. IsFiniteSet(Slot)
  BY FS_Interval, BlockAssumption DEF Slot
<1>2. Children(t, s) \subseteq Slot
  BY DEF Children, Retained
<1>3. QED
  BY <1>1, <1>2, FS_Subset, FS_CardinalityType

(* Recounting the branches moves no block.                                   *)
LEMMA RecomputeRefsReduces ==
  ASSUME NEW t \in NodeState
  PROVE  Reduces(t, RecomputeRefs(t))
<1> DEFINE n(s) == IF Children(t, s) = {} THEN 1 ELSE Cardinality(Children(t, s))
           B == [s \in Slot |-> IF Occupied(t, s) THEN [t.blocks[s] EXCEPT !.refs = n(s)]
                                ELSE t.blocks[s]]
<1>1. RecomputeRefs(t) = [t EXCEPT !.blocks = B]
  BY DEF RecomputeRefs
<1>2. \A s \in Slot : n(s) \in Nat /\ t.blocks[s] \in BlockEntry
  BY ChildrenFinite DEF NodeState
<1> HIDE DEF n
<1>3. B \in [Slot -> BlockEntry]
  BY <1>2 DEF BlockEntry
<1>4. \A r \in Slot : /\ B[r].hash = t.blocks[r].hash
                      /\ B[r].status = t.blocks[r].status
                      /\ B[r].onActive = t.blocks[r].onActive
  BY <1>2 DEF BlockEntry
<1> HIDE DEF B
<1>5. QED
  BY <1>1, <1>3, <1>4, BlocksReduce

(* Forgetting the tips a deletion took is a reduction.                       *)
LEMMA UntrackDeletedReduces ==
  ASSUME NEW t \in NodeState, NEW hit, NEW reattach
  PROVE  Reduces(t, UntrackDeleted(t, hit, reattach))
<1> DEFINE H == [k \in Branch |->
                  IF k \notin hit THEN t.heads[k]
                  ELSE IF UntrackedTip(t, reattach) /\ k = Min(hit)
                       THEN [t.heads[k] EXCEPT !.head = reattach]
                  ELSE EmptyHead]
<1>1. UntrackDeleted(t, hit, reattach) = [t EXCEPT !.heads = H]
  BY DEF UntrackDeleted
<1>2. \A k \in Branch : t.heads[k] \in ChainHeadEntry
  BY DEF NodeState
<1>3. UntrackedTip(t, reattach) => reattach \in Ref
  BY RetainedBlock DEF UntrackedTip
<1>4. \A k \in Branch : UntrackedTip(t, reattach) =>
        [t.heads[k] EXCEPT !.head = reattach] \in ChainHeadEntry
  BY <1>2, <1>3 DEF ChainHeadEntry
<1>5. H \in [Branch -> ChainHeadEntry]
  BY <1>2, <1>4, EmptyHeadEntry
<1> HIDE DEF H
<1>6. QED
  BY <1>1, <1>5, HeadsReduce

(* on_blocks_deleted is a reduction.                                         *)
LEMMA OnBlocksDeletedReduces ==
  ASSUME NEW t \in NodeState, NEW deleted, NEW reattach
  PROVE  Reduces(t, OnBlocksDeleted(t, deleted, reattach))
<1> DEFINE u == UntrackDeleted(t, {k \in Tracked(t) : t.heads[k].head \in deleted}, reattach)
           v == RecomputeAllCaches(u)
<1>1. OnBlocksDeleted(t, deleted, reattach) = RecomputeRefs(v)
  BY DEF OnBlocksDeleted
<1>2. Reduces(t, u)
  BY UntrackDeletedReduces
<1>3. u \in NodeState
  BY <1>2 DEF Reduces
<1> HIDE DEF u
<1>4. Reduces(u, v)
  BY <1>3, RecomputeAllCachesReduces
<1>5. v \in NodeState
  BY <1>4 DEF Reduces
<1> HIDE DEF v
<1>6. Reduces(v, RecomputeRefs(v))
  BY <1>5, RecomputeRefsReduces
<1>7. QED
  BY <1>1, <1>2, <1>4, <1>6, ReducesOn

(* One step of the rebuild of the tip table is a reduction.                  *)
LEMMA InsertIfTipReduces ==
  ASSUME NEW t \in NodeState, NEW s \in Slot
  PROVE  Reduces(t, InsertIfTip(t, s))
<1>1. s \in Ref /\ NoHash \in Nat
  BY Numbers DEF NoHash
<1>2. QED
  BY <1>1, ReducesSelf, InsertHeadReduces DEF InsertIfTip

(* Inserting all the tips is a run of its step,                             *)
(* in whatever set the step stays in.                                       *)
LEMMA InsertTipsRuns ==
  ASSUME NEW T, NEW t \in T,
         \A u \in T, k \in Slot : InsertIfTip(u, k) \in T
  PROVE  /\ InsertTips(t) \in T
         /\ \E g \in [T \X Slot -> T] :
              /\ \A u \in T, k \in Slot : g[<<u, k>>] = InsertIfTip(u, k)
              /\ HasRun(MaxBlocks, T, t, g, InsertTips(t))
<1> DEFINE n == MaxBlocks
           seq == InSlotOrder
           Step(u, k) == InsertIfTip(u, k)
           g == [p \in T \X (1 .. n) |-> Step(p[1], p[2])]
           Eq(h) == h = [s \in SUBSET (DOMAIN seq) |->
                          IF s = {} THEN t ELSE Step(h[s \ {Max(s)}], seq[Max(s)])]
           iter == CHOOSE h : Eq(h)
<1>1. InsertTips(t) = iter[DOMAIN seq]
  BY DEF InsertTips, FoldLeft, MapThenFoldSet
<1>2. n \in Nat /\ DOMAIN seq = 1 .. n /\ \A k \in 1 .. n : seq[k] = k
  BY BlockAssumption DEF InSlotOrder, Slot
<1>3. Slot = 1 .. n /\ \A u \in T, k \in 1 .. n : Step(u, k) \in T
  BY DEF Slot
<1> HIDE DEF seq, n, Step
<1>4. g \in [T \X (1 .. n) -> T] /\ \A u \in T, k \in 1 .. n : g[<<u, k>>] = Step(u, k)
  BY <1>3
<1> HIDE DEF g
<1>5. \A s \in SUBSET (1 .. n) : s # {} => Max(s) \in 1 .. n
  BY <1>2, TopOf
<1>6. PICK h \in [SUBSET (1 .. n) -> T] : FoldsUp(h, n, T, t, g)
  BY <1>2, <1>4, FoldUpExists, Zenon
<1>7. ASSUME NEW s \in SUBSET (1 .. n), s # {}
      PROVE  h[s] = Step(h[s \ {Max(s)}], seq[Max(s)])
  <2>1. Max(s) \in 1 .. n /\ h[s \ {Max(s)}] \in T
    BY <1>5, <1>7
  <2>2. h[s] = g[<<h[s \ {Max(s)}], Max(s)>>]
    BY <1>6, <1>7, <2>1 DEF FoldsUp
  <2>3. QED
    BY <1>2, <1>4, <2>1, <2>2
<1>8. Eq(h)
  BY <1>2, <1>6, <1>7 DEF FoldsUp
<1> HIDE DEF Eq
<1>9. Eq(iter)
  BY <1>8
<1> HIDE DEF iter
<1>10. FoldsUp(iter, n, T, t, g)
  <2>1. iter[{}] = t
    BY <1>2, <1>9 DEF Eq
  <2>2. ASSUME NEW s \in SUBSET (1 .. n), s # {}, iter[s \ {Max(s)}] \in T
        PROVE  iter[s] = g[<<iter[s \ {Max(s)}], Max(s)>>]
    <3>1. Max(s) \in 1 .. n /\ iter[s] = Step(iter[s \ {Max(s)}], seq[Max(s)])
      BY <1>2, <1>5, <1>9, <2>2 DEF Eq
    <3>2. QED
      BY <1>2, <1>4, <2>2, <3>1
  <2>3. QED
    BY <2>1, <2>2 DEF FoldsUp
<1>11. HasRun(n, T, t, g, InsertTips(t))
  <2>1. HasRun(n, T, t, g, iter[1 .. n])
    BY <1>2, <1>4, <1>10, FoldRunExists, Zenon
  <2>2. QED
    BY <1>1, <1>2, <2>1
<1>12. InsertTips(t) \in T
  BY <1>2, <1>11, RunEnds
<1>13. QED
  BY <1>3, <1>4, <1>11, <1>12 DEF n, Step

(* And all of them.                                                          *)
LEMMA InsertTipsReduces ==
  ASSUME NEW t \in NodeState
  PROVE  Reduces(t, InsertTips(t))
<1> DEFINE T == Reducts(t)
<1>1. \A u \in T, k \in Slot : InsertIfTip(u, k) \in T
  <2> SUFFICES ASSUME NEW u \in T, NEW k \in Slot PROVE InsertIfTip(u, k) \in T
    OBVIOUS
  <2>1. u \in Reducts(t) /\ u \in NodeState
    BY DEF Reducts
  <2>2. Reduces(u, InsertIfTip(u, k))
    BY <2>1, InsertIfTipReduces
  <2>3. QED
    BY <2>1, <2>2, ReductsOn
<1>2. t \in T
  BY ReducesSelf DEF Reducts
<1> HIDE DEF T
<1>3. InsertTips(t) \in T
  BY <1>1, <1>2, InsertTipsRuns
<1>4. QED
  BY <1>3 DEF T, Reducts

(* rebuild_from_blocks is a reduction, evictions included.                   *)
LEMMA RebuildFromBlocksReduces ==
  ASSUME NEW t \in NodeState
  PROVE  Reduces(t, RebuildFromBlocks(t))
<1> DEFINE H == [k \in Branch |-> EmptyHead]
           u == [t EXCEPT !.heads = H]
           v == InsertTips(u)
<1>1. RebuildFromBlocks(t) = RecomputeRefs(v)
  BY DEF RebuildFromBlocks
<1>2. Reduces(t, u)
  BY HeadsReduce, EmptyHeadEntry
<1>3. u \in NodeState
  BY <1>2 DEF Reduces
<1> HIDE DEF u
<1>4. Reduces(u, v)
  BY <1>3, InsertTipsReduces
<1>5. v \in NodeState
  BY <1>4 DEF Reduces
<1> HIDE DEF v
<1>6. QED
  BY <1>1, <1>2, <1>4, <1>5, RecomputeRefsReduces, ReducesOn

(* Seeding the missing parents writes the tip table only.                    *)
LEMMA SeedMissingParentsReduces ==
  ASSUME NEW t \in NodeState
  PROVE  Reduces(t, SeedMissingParents(t))
<1> DEFINE Waits(k) == k \in StoredHeads(t) /\ Occupied(t, t.heads[k].tail)
           prev(k) == PrevHash[t.blocks[t.heads[k].tail].hash]
           H == [k \in Branch |-> IF Waits(k) THEN [t.heads[k] EXCEPT !.missing = prev(k)]
                                  ELSE t.heads[k]]
<1>1. SeedMissingParents(t) = [t EXCEPT !.heads = H]
  BY DEF SeedMissingParents
<1>2. \A k \in Branch : Waits(k) => prev(k) \in Nat
  BY RetainedBlock, HeaderNumbers
<1>3. \A k \in Branch : t.heads[k] \in ChainHeadEntry
  BY DEF NodeState
<1> HIDE DEF Waits, prev
<1>4. H \in [Branch -> ChainHeadEntry]
  BY <1>2, <1>3 DEF ChainHeadEntry
<1> HIDE DEF H
<1>5. QED
  BY <1>1, <1>4, HeadsReduce

-----------------------------------------------------------------------------
(* Dropping the tentative configuration with its block is a reduction.       *)
LEMMA ForgetTentativeReduces ==
  ASSUME NEW t \in NodeState, NEW deleted, NoRef \notin deleted
  PROVE  Reduces(t, ForgetTentative(t, deleted))
BY Numbers DEF ForgetTentative, DiscardTentative, Reduces, NodeState

(* So is dropping the active head and its tail.                              *)
LEMMA ForgetActiveReduces ==
  ASSUME NEW t \in NodeState, NEW deleted
  PROVE  Reduces(t, ForgetActive(t, deleted))
BY Numbers DEF ForgetActive, Reduces, NodeState

(* A deletion with all its repairs is a reduction.                           *)
LEMMA DeleteSetReduces ==
  ASSUME NEW t \in NodeState, NEW deleted, NoRef \notin deleted, NEW reattach
  PROVE  Reduces(t, DeleteSet(t, deleted, reattach))
<1> DEFINE u == DeleteBlocks(t, deleted)
           v == ForgetActive(u, deleted)
           w == ForgetTentative(v, deleted)
<1>1. Reduces(t, u)
  BY DeleteBlocksReduces
<1>2. u \in NodeState
  BY <1>1 DEF Reduces
<1>3. DeleteSet(t, deleted, reattach) \in {t, OnBlocksDeleted(w, deleted, reattach)}
  BY DEF DeleteSet
<1> HIDE DEF u
<1>4. Reduces(u, v)
  BY <1>2, ForgetActiveReduces
<1>5. v \in NodeState
  BY <1>4 DEF Reduces
<1> HIDE DEF v
<1>6. Reduces(v, w)
  BY <1>5, ForgetTentativeReduces
<1>7. w \in NodeState
  BY <1>6 DEF Reduces
<1> HIDE DEF w
<1>8. Reduces(w, OnBlocksDeleted(w, deleted, reattach))
  BY <1>7, OnBlocksDeletedReduces
<1>9. Reduces(t, OnBlocksDeleted(w, deleted, reattach))
  BY <1>1, <1>4, <1>6, <1>8, ReducesOn
<1>10. QED
  BY <1>3, <1>9, ReducesSelf

(* A marked subtree is a set of slots.                                       *)
LEMMA SubtreeInTree ==
  ASSUME NEW t, NEW root
  PROVE  MarkSubtree(t, root) \subseteq Slot /\ NoRef \notin MarkSubtree(t, root)
BY Numbers DEF MarkSubtree, Retained

(* delete_subtree_with_followup is a reduction.                              *)
LEMMA DeleteSubtreeReduces ==
  ASSUME NEW t \in NodeState, NEW root
  PROVE  Reduces(t, DeleteSubtree(t, root))
BY SubtreeInTree, DeleteSetReduces DEF DeleteSubtree

(* One step of the deletion of several subtrees is one.                      *)
LEMMA DropIfRootReduces ==
  ASSUME NEW t \in NodeState, NEW s, NEW roots
  PROVE  Reduces(t, DropIfRoot(t, s, roots))
BY ReducesSelf, DeleteSubtreeReduces DEF DropIfRoot

(* A block is in its own subtree.                                            *)
LEMMA RootInSubtree ==
  ASSUME NEW t \in NodeState, NEW s, Occupied(t, s)
  PROVE  s \in MarkSubtree(t, s)
<1> DEFINE path == Path(t, s)
<1>1. s \in Ref /\ s \in Retained(t)
  BY RetainedBlock DEF Retained, Occupied
<1>2. PathFacts(t, s, path)
  BY <1>1, PathElements
<1> HIDE DEF path
<1>3. 1 \in DOMAIN path /\ path[1] = s
  BY <1>2 DEF PathFacts
<1>4. s \in Range(path)
  BY <1>3 DEF Range
<1>5. QED
  BY <1>1, <1>4 DEF MarkSubtree, Ancestry, path

(* The step for a root leaves its slot free.                                 *)
LEMMA DropIfRootDrops ==
  ASSUME NEW t \in NodeState, NEW s \in Slot, NEW roots, s \in roots
  PROVE  ~Occupied(DropIfRoot(t, s, roots), s)
<1>1. CASE ~Occupied(t, s)
  BY <1>1 DEF DropIfRoot
<1>2. CASE Occupied(t, s)
  <2> DEFINE deleted == MarkSubtree(t, s)
             u == DeleteBlocks(t, deleted)
             v == ForgetActive(u, deleted)
             w == ForgetTentative(v, deleted)
             result == OnBlocksDeleted(w, deleted, t.blocks[s].parent)
  <2>1. s \in deleted
    BY <1>2, RootInSubtree
  <2>2. u \in NodeState
    BY DeleteBlocksReduces DEF Reduces
  <2>3. u.blocks[s].hash = NoHash
    BY <2>1, FreeSlotEntry DEF DeleteBlocks, NodeState
  <2>4. DropIfRoot(t, s, roots) = result
    BY <1>2, <2>1 DEF DropIfRoot, DeleteSubtree, DeleteSet
  <2> HIDE DEF u
  <2>5. Reduces(u, v) /\ v \in NodeState
    BY <2>2, ForgetActiveReduces DEF Reduces
  <2> HIDE DEF v
  <2>6. Reduces(v, w) /\ w \in NodeState
    BY <2>5, SubtreeInTree, ForgetTentativeReduces DEF Reduces
  <2> HIDE DEF w
  <2>7. Reduces(w, result)
    BY <2>6, OnBlocksDeletedReduces
  <2> HIDE DEF result
  <2>8. Reduces(u, result)
    BY <2>5, <2>6, <2>7, ReducesOn
  <2>9. result.blocks[s].hash = NoHash
    BY <2>3, <2>8 DEF Reduces
  <2>10. QED
    BY <2>4, <2>9 DEF Occupied
<1>3. QED
  BY <1>1, <1>2

(* Dropping each of a set of roots is a run of its step,                    *)
(* in whatever set the step stays in.                                       *)
LEMMA DropEachRuns ==
  ASSUME NEW T, NEW t \in T, NEW roots,
         \A u \in T, k \in Slot : DropIfRoot(u, k, roots) \in T
  PROVE  /\ DropEach(t, roots) \in T
         /\ \E g \in [T \X Slot -> T] :
              /\ \A u \in T, k \in Slot : g[<<u, k>>] = DropIfRoot(u, k, roots)
              /\ HasRun(MaxBlocks, T, t, g, DropEach(t, roots))
<1> DEFINE n == MaxBlocks
           seq == InSlotOrder
           Step(u, k) == DropIfRoot(u, k, roots)
           g == [p \in T \X (1 .. n) |-> Step(p[1], p[2])]
           Eq(h) == h = [s \in SUBSET (DOMAIN seq) |->
                          IF s = {} THEN t ELSE Step(h[s \ {Max(s)}], seq[Max(s)])]
           iter == CHOOSE h : Eq(h)
<1>1. DropEach(t, roots) = iter[DOMAIN seq]
  BY DEF DropEach, FoldLeft, MapThenFoldSet
<1>2. n \in Nat /\ DOMAIN seq = 1 .. n /\ \A k \in 1 .. n : seq[k] = k
  BY BlockAssumption DEF InSlotOrder, Slot
<1>3. Slot = 1 .. n /\ \A u \in T, k \in 1 .. n : Step(u, k) \in T
  BY DEF Slot
<1> HIDE DEF seq, n, Step
<1>4. g \in [T \X (1 .. n) -> T] /\ \A u \in T, k \in 1 .. n : g[<<u, k>>] = Step(u, k)
  BY <1>3
<1> HIDE DEF g
<1>5. \A s \in SUBSET (1 .. n) : s # {} => Max(s) \in 1 .. n
  BY <1>2, TopOf
<1>6. PICK h \in [SUBSET (1 .. n) -> T] : FoldsUp(h, n, T, t, g)
  BY <1>2, <1>4, FoldUpExists, Zenon
<1>7. ASSUME NEW s \in SUBSET (1 .. n), s # {}
      PROVE  h[s] = Step(h[s \ {Max(s)}], seq[Max(s)])
  <2>1. Max(s) \in 1 .. n /\ h[s \ {Max(s)}] \in T
    BY <1>5, <1>7
  <2>2. h[s] = g[<<h[s \ {Max(s)}], Max(s)>>]
    BY <1>6, <1>7, <2>1 DEF FoldsUp
  <2>3. QED
    BY <1>2, <1>4, <2>1, <2>2
<1>8. Eq(h)
  BY <1>2, <1>6, <1>7 DEF FoldsUp
<1> HIDE DEF Eq
<1>9. Eq(iter)
  BY <1>8
<1> HIDE DEF iter
<1>10. FoldsUp(iter, n, T, t, g)
  <2>1. iter[{}] = t
    BY <1>2, <1>9 DEF Eq
  <2>2. ASSUME NEW s \in SUBSET (1 .. n), s # {}, iter[s \ {Max(s)}] \in T
        PROVE  iter[s] = g[<<iter[s \ {Max(s)}], Max(s)>>]
    <3>1. Max(s) \in 1 .. n /\ iter[s] = Step(iter[s \ {Max(s)}], seq[Max(s)])
      BY <1>2, <1>5, <1>9, <2>2 DEF Eq
    <3>2. QED
      BY <1>2, <1>4, <2>2, <3>1
  <2>3. QED
    BY <2>1, <2>2 DEF FoldsUp
<1>11. HasRun(n, T, t, g, DropEach(t, roots))
  <2>1. HasRun(n, T, t, g, iter[1 .. n])
    BY <1>2, <1>4, <1>10, FoldRunExists, Zenon
  <2>2. QED
    BY <1>1, <1>2, <2>1
<1>12. DropEach(t, roots) \in T
  BY <1>2, <1>11, RunEnds
<1>13. QED
  BY <1>3, <1>4, <1>11, <1>12 DEF n, Step

(* Deleting the subtrees of a set of roots is a reduction, and none of the   *)
(* roots stays: what an earlier deletion took is not brought back by a later *)
(* one.                                                                      *)
LEMMA DropEachDrops ==
  ASSUME NEW t \in NodeState, NEW roots
  PROVE  /\ Reduces(t, DropEach(t, roots))
         /\ \A s \in roots : s \in Slot => ~Occupied(DropEach(t, roots), s)
<1> DEFINE T == Reducts(t)
<1>1. \A u \in T, k \in Slot : DropIfRoot(u, k, roots) \in T
  <2> SUFFICES ASSUME NEW u \in T, NEW k \in Slot PROVE DropIfRoot(u, k, roots) \in T
    OBVIOUS
  <2>1. u \in Reducts(t) /\ u \in NodeState
    BY DEF Reducts
  <2>2. Reduces(u, DropIfRoot(u, k, roots))
    BY <2>1, DropIfRootReduces
  <2>3. QED
    BY <2>1, <2>2, ReductsOn
<1>2. t \in T
  BY ReducesSelf DEF Reducts
<1> HIDE DEF T
<1>3. PICK g \in [T \X Slot -> T] :
        /\ \A u \in T, k \in Slot : g[<<u, k>>] = DropIfRoot(u, k, roots)
        /\ HasRun(MaxBlocks, T, t, g, DropEach(t, roots))
  BY <1>1, <1>2, DropEachRuns
<1> DEFINE n == MaxBlocks
<1>4. QED
  <2> DEFINE Gone(u, k) == \A s \in roots : s \in 1 .. k => ~Occupied(u, s)
             Inv == [k \in 0 .. n |-> {u \in T : Gone(u, k)}]
  <2>1. T \subseteq NodeState /\ 0 \in 0 .. n /\ n \in 0 .. n
    BY BlockAssumption DEF T, Reducts
  <2>2. t \in Inv[0]
    BY <1>2, <2>1
  <2>3. ASSUME NEW k \in 1 .. n, NEW u \in T, u \in Inv[k - 1] PROVE g[<<u, k>>] \in Inv[k]
    <3>1. k \in Slot /\ k \in 0 .. n /\ k - 1 \in 0 .. n
      BY BlockAssumption DEF Slot
    <3>2. u \in NodeState /\ Gone(u, k - 1)
      BY <2>1, <2>3, <3>1
    <3>3. DropIfRoot(u, k, roots) \in T /\ g[<<u, k>>] = DropIfRoot(u, k, roots)
      BY <1>1, <1>3, <3>1
    <3>4. Reduces(u, DropIfRoot(u, k, roots))
      BY <3>2, DropIfRootReduces
    <3>5. \A s : Occupied(DropIfRoot(u, k, roots), s) => Occupied(u, s)
      BY <3>4 DEF Reduces, Occupied
    <3>6. k \in roots => ~Occupied(DropIfRoot(u, k, roots), k)
      BY <3>1, <3>2, DropIfRootDrops
    <3>7. Gone(DropIfRoot(u, k, roots), k)
      BY <3>2, <3>5, <3>6
    <3>8. QED
      BY <3>1, <3>3, <3>7
  <2> HIDE DEF Inv
  <2>4. HandsOn(Inv, n, T, g)
    BY <2>3 DEF HandsOn
  <2>5. DropEach(t, roots) \in Inv[n]
    BY <1>3, <2>2, <2>4, RunInvariant, BlockAssumption
  <2>6. DropEach(t, roots) \in T /\ Gone(DropEach(t, roots), n)
    BY <2>1, <2>5 DEF Inv
  <2>7. QED
    BY <2>6 DEF T, Reducts, Slot

-----------------------------------------------------------------------------
(* Reclaiming one stale fragment is a reduction.                             *)
LEMMA ReclaimIfStaleReduces ==
  ASSUME NEW t \in NodeState, NEW k, NEW q
  PROVE  Reduces(t, ReclaimIfStale(t, k, q))
BY ReducesSelf, DeleteSubtreeReduces DEF ReclaimIfStale

(* Reclaiming all the stale fragments is a run of its step,                 *)
(* in whatever set the step stays in.                                       *)
LEMMA ReclaimStaleFragmentsRuns ==
  ASSUME NEW T, NEW t \in T, NEW q,
         \A u \in T, k \in Branch : ReclaimIfStale(u, k, q) \in T
  PROVE  /\ ReclaimStaleFragments(t, q) \in T
         /\ \E g \in [T \X Branch -> T] :
              /\ \A u \in T, k \in Branch : g[<<u, k>>] = ReclaimIfStale(u, k, q)
              /\ HasRun(MaxBranches, T, t, g, ReclaimStaleFragments(t, q))
<1> DEFINE n == MaxBranches
           seq == InBranchOrder
           Step(u, k) == ReclaimIfStale(u, k, q)
           g == [p \in T \X (1 .. n) |-> Step(p[1], p[2])]
           Eq(h) == h = [s \in SUBSET (DOMAIN seq) |->
                          IF s = {} THEN t ELSE Step(h[s \ {Max(s)}], seq[Max(s)])]
           iter == CHOOSE h : Eq(h)
<1>1. ReclaimStaleFragments(t, q) = iter[DOMAIN seq]
  BY DEF ReclaimStaleFragments, FoldLeft, MapThenFoldSet
<1>2. n \in Nat /\ DOMAIN seq = 1 .. n /\ \A k \in 1 .. n : seq[k] = k
  BY BranchAssumption DEF InBranchOrder, Branch
<1>3. Branch = 1 .. n /\ \A u \in T, k \in 1 .. n : Step(u, k) \in T
  BY DEF Branch
<1> HIDE DEF seq, n, Step
<1>4. g \in [T \X (1 .. n) -> T] /\ \A u \in T, k \in 1 .. n : g[<<u, k>>] = Step(u, k)
  BY <1>3
<1> HIDE DEF g
<1>5. \A s \in SUBSET (1 .. n) : s # {} => Max(s) \in 1 .. n
  BY <1>2, TopOf
<1>6. PICK h \in [SUBSET (1 .. n) -> T] : FoldsUp(h, n, T, t, g)
  BY <1>2, <1>4, FoldUpExists, Zenon
<1>7. ASSUME NEW s \in SUBSET (1 .. n), s # {}
      PROVE  h[s] = Step(h[s \ {Max(s)}], seq[Max(s)])
  <2>1. Max(s) \in 1 .. n /\ h[s \ {Max(s)}] \in T
    BY <1>5, <1>7
  <2>2. h[s] = g[<<h[s \ {Max(s)}], Max(s)>>]
    BY <1>6, <1>7, <2>1 DEF FoldsUp
  <2>3. QED
    BY <1>2, <1>4, <2>1, <2>2
<1>8. Eq(h)
  BY <1>2, <1>6, <1>7 DEF FoldsUp
<1> HIDE DEF Eq
<1>9. Eq(iter)
  BY <1>8
<1> HIDE DEF iter
<1>10. FoldsUp(iter, n, T, t, g)
  <2>1. iter[{}] = t
    BY <1>2, <1>9 DEF Eq
  <2>2. ASSUME NEW s \in SUBSET (1 .. n), s # {}, iter[s \ {Max(s)}] \in T
        PROVE  iter[s] = g[<<iter[s \ {Max(s)}], Max(s)>>]
    <3>1. Max(s) \in 1 .. n /\ iter[s] = Step(iter[s \ {Max(s)}], seq[Max(s)])
      BY <1>2, <1>5, <1>9, <2>2 DEF Eq
    <3>2. QED
      BY <1>2, <1>4, <2>2, <3>1
  <2>3. QED
    BY <2>1, <2>2 DEF FoldsUp
<1>11. HasRun(n, T, t, g, ReclaimStaleFragments(t, q))
  <2>1. HasRun(n, T, t, g, iter[1 .. n])
    BY <1>2, <1>4, <1>10, FoldRunExists, Zenon
  <2>2. QED
    BY <1>1, <1>2, <2>1
<1>12. ReclaimStaleFragments(t, q) \in T
  BY <1>2, <1>11, RunEnds
<1>13. QED
  BY <1>3, <1>4, <1>11, <1>12 DEF n, Step

(* reclaim_stale_fragments is a reduction.                                   *)
LEMMA ReclaimStaleFragmentsReduces ==
  ASSUME NEW t \in NodeState, NEW q
  PROVE  Reduces(t, ReclaimStaleFragments(t, q))
<1> DEFINE T == Reducts(t)
<1>1. \A u \in T, k \in Branch : ReclaimIfStale(u, k, q) \in T
  <2> SUFFICES ASSUME NEW u \in T, NEW k \in Branch PROVE ReclaimIfStale(u, k, q) \in T
    OBVIOUS
  <2>1. u \in Reducts(t) /\ u \in NodeState
    BY DEF Reducts
  <2>2. Reduces(u, ReclaimIfStale(u, k, q))
    BY <2>1, ReclaimIfStaleReduces
  <2>3. QED
    BY <2>1, <2>2, ReductsOn
<1>2. t \in T
  BY ReducesSelf DEF Reducts
<1> HIDE DEF T
<1>3. ReclaimStaleFragments(t, q) \in T
  BY <1>1, <1>2, ReclaimStaleFragmentsRuns
<1>4. QED
  BY <1>3 DEF T, Reducts

(* Moving a tail that is there is a reduction.                               *)
LEMMA MovedTailReduces ==
  ASSUME NEW t, NEW u, Reduces(t, u), t.tail # NoRef, NEW x \in Ref
  PROVE  Reduces(t, [u EXCEPT !.tail = x])
BY DEF Reduces, NodeState

(* A new value of the active branch is a reduction.                          *)
LEMMA NewValueReduces ==
  ASSUME NEW t \in NodeState, NEW v \in Nat
  PROVE  Reduces(t, [t EXCEPT !.value = v])
BY DEF Reduces, NodeState

(* Releasing the block of the old tail is a reduction.                       *)
LEMMA DropBlockReduces ==
  ASSUME NEW t \in NodeState, NEW s, s # NoRef
  PROVE  Reduces(t, DropBlock(t, s))
<1> DEFINE u == DeleteBlocks(t, {s})
<1>1. Reduces(t, u)
  BY DeleteBlocksReduces
<1>2. u \in NodeState
  BY <1>1 DEF Reduces
<1>3. DropBlock(t, s) = ForgetTentative(u, {s})
  BY DEF DropBlock
<1> HIDE DEF u
<1>4. QED
  BY <1>1, <1>2, <1>3, ForgetTentativeReduces, ReducesOn

(* Moving the tail by one block, with the forks and fragments it drops, is a *)
(* reduction.                                                                *)
LEMMA MoveTailReduces ==
  ASSUME NEW t \in NodeState, t.tail # NoRef, NEW released, released # NoRef,
         NEW newTail \in Slot
  PROVE  Reduces(t, MoveTail(t, released, newTail))
<1> DEFINE u == DropForks(t, released, newTail)
           v == DropBlock(u, released)
           w == SetParent(v, newTail, NoRef)
           z == [w EXCEPT !.tail = newTail]
<1>1. MoveTail(t, released, newTail) = ReclaimStaleFragments(z, SeqAt(t, newTail))
  BY DEF MoveTail
<1>2. Reduces(t, u)
  BY DropEachDrops DEF DropForks
<1>3. u \in NodeState
  BY <1>2 DEF Reduces
<1> HIDE DEF u
<1>4. Reduces(u, v)
  BY <1>3, DropBlockReduces
<1>5. v \in NodeState
  BY <1>4 DEF Reduces
<1> HIDE DEF v
<1>6. Reduces(v, w)
  BY <1>5, SetParentReduces, Numbers
<1> HIDE DEF w
<1>7. Reduces(t, w)
  BY <1>2, <1>4, <1>6, ReducesOn
<1>8. Reduces(t, z)
  BY <1>7, MovedTailReduces, Numbers
<1>9. z \in NodeState
  BY <1>8 DEF Reduces
<1> HIDE DEF z
<1>10. QED
  BY <1>1, <1>8, <1>9, ReclaimStaleFragmentsReduces, ReducesOn

(* advance_snake_chain_tail is a reduction.                                  *)
LEMMA AdvanceTailReduces ==
  ASSUME NEW t \in NodeState
  PROVE  Reduces(t, AdvanceTail(t))
<1>1. CASE ~CanAdvance(t)
  BY <1>1, ReducesSelf DEF AdvanceTail
<1>2. CASE CanAdvance(t)
  <2>1. t.tail # NoRef
    BY <1>2, Numbers DEF CanAdvance, Occupied
  <2>2. OnActiveChildren(t, t.tail) \subseteq Slot /\ OnActiveChildren(t, t.tail) # {}
    BY <1>2 DEF CanAdvance, OnActiveChildren, Children, Retained
  <2>3. Min(OnActiveChildren(t, t.tail)) \in Slot
    BY <2>2, MinOf, Numbers
  <2>4. QED
    BY <1>2, <2>1, <2>3, MoveTailReduces DEF AdvanceTail
<1>3. QED
  BY <1>1, <1>2

(* One step of the advance to a target is a reduction.                       *)
LEMMA AdvanceBelowReduces ==
  ASSUME NEW t \in NodeState, NEW target
  PROVE  Reduces(t, AdvanceBelow(t, target))
BY ReducesSelf, AdvanceTailReduces DEF AdvanceBelow

(* The advance to a target is a run of its step,                            *)
(* in whatever set the step stays in.                                       *)
LEMMA AdvanceToRuns ==
  ASSUME NEW T, NEW t \in T, NEW target,
         \A u \in T, k \in Slot : AdvanceBelow(u, target) \in T
  PROVE  /\ AdvanceTo(t, target) \in T
         /\ \E g \in [T \X Slot -> T] :
              /\ \A u \in T, k \in Slot : g[<<u, k>>] = AdvanceBelow(u, target)
              /\ HasRun(MaxBlocks, T, t, g, AdvanceTo(t, target))
<1> DEFINE n == MaxBlocks
           seq == InSlotOrder
           Step(u, k) == AdvanceBelow(u, target)
           g == [p \in T \X (1 .. n) |-> Step(p[1], p[2])]
           Eq(h) == h = [s \in SUBSET (DOMAIN seq) |->
                          IF s = {} THEN t ELSE Step(h[s \ {Max(s)}], seq[Max(s)])]
           iter == CHOOSE h : Eq(h)
<1>1. AdvanceTo(t, target) = iter[DOMAIN seq]
  BY DEF AdvanceTo, FoldLeft, MapThenFoldSet
<1>2. n \in Nat /\ DOMAIN seq = 1 .. n /\ \A k \in 1 .. n : seq[k] = k
  BY BlockAssumption DEF InSlotOrder, Slot
<1>3. Slot = 1 .. n /\ \A u \in T, k \in 1 .. n : Step(u, k) \in T
  BY DEF Slot
<1> HIDE DEF seq, n, Step
<1>4. g \in [T \X (1 .. n) -> T] /\ \A u \in T, k \in 1 .. n : g[<<u, k>>] = Step(u, k)
  BY <1>3
<1> HIDE DEF g
<1>5. \A s \in SUBSET (1 .. n) : s # {} => Max(s) \in 1 .. n
  BY <1>2, TopOf
<1>6. PICK h \in [SUBSET (1 .. n) -> T] : FoldsUp(h, n, T, t, g)
  BY <1>2, <1>4, FoldUpExists, Zenon
<1>7. ASSUME NEW s \in SUBSET (1 .. n), s # {}
      PROVE  h[s] = Step(h[s \ {Max(s)}], seq[Max(s)])
  <2>1. Max(s) \in 1 .. n /\ h[s \ {Max(s)}] \in T
    BY <1>5, <1>7
  <2>2. h[s] = g[<<h[s \ {Max(s)}], Max(s)>>]
    BY <1>6, <1>7, <2>1 DEF FoldsUp
  <2>3. QED
    BY <1>2, <1>4, <2>1, <2>2
<1>8. Eq(h)
  BY <1>2, <1>6, <1>7 DEF FoldsUp
<1> HIDE DEF Eq
<1>9. Eq(iter)
  BY <1>8
<1> HIDE DEF iter
<1>10. FoldsUp(iter, n, T, t, g)
  <2>1. iter[{}] = t
    BY <1>2, <1>9 DEF Eq
  <2>2. ASSUME NEW s \in SUBSET (1 .. n), s # {}, iter[s \ {Max(s)}] \in T
        PROVE  iter[s] = g[<<iter[s \ {Max(s)}], Max(s)>>]
    <3>1. Max(s) \in 1 .. n /\ iter[s] = Step(iter[s \ {Max(s)}], seq[Max(s)])
      BY <1>2, <1>5, <1>9, <2>2 DEF Eq
    <3>2. QED
      BY <1>2, <1>4, <2>2, <3>1
  <2>3. QED
    BY <2>1, <2>2 DEF FoldsUp
<1>11. HasRun(n, T, t, g, AdvanceTo(t, target))
  <2>1. HasRun(n, T, t, g, iter[1 .. n])
    BY <1>2, <1>4, <1>10, FoldRunExists, Zenon
  <2>2. QED
    BY <1>1, <1>2, <2>1
<1>12. AdvanceTo(t, target) \in T
  BY <1>2, <1>11, RunEnds
<1>13. QED
  BY <1>3, <1>4, <1>11, <1>12 DEF n, Step

(* The advance to a target is a reduction.                                   *)
LEMMA AdvanceToReduces ==
  ASSUME NEW t \in NodeState, NEW target
  PROVE  Reduces(t, AdvanceTo(t, target))
<1> DEFINE T == Reducts(t)
<1>1. \A u \in T, k \in Slot : AdvanceBelow(u, target) \in T
  <2> SUFFICES ASSUME NEW u \in T, NEW k \in Slot PROVE AdvanceBelow(u, target) \in T
    OBVIOUS
  <2>1. u \in Reducts(t) /\ u \in NodeState
    BY DEF Reducts
  <2>2. Reduces(u, AdvanceBelow(u, target))
    BY <2>1, AdvanceBelowReduces
  <2>3. QED
    BY <2>1, <2>2, ReductsOn
<1>2. t \in T
  BY ReducesSelf DEF Reducts
<1> HIDE DEF T
<1>3. AdvanceTo(t, target) \in T
  BY <1>1, <1>2, AdvanceToRuns
<1>4. QED
  BY <1>3 DEF T, Reducts

(* Establishing the window from a root is a reduction of the tree with that  *)
(* tail.                                                                     *)
LEMMA WindowFromReduces ==
  ASSUME NEW t \in NodeState, NEW root \in Ref
  PROVE  [t EXCEPT !.tail = root] \in NodeState
         /\ Reduces([t EXCEPT !.tail = root], WindowFrom(t, root))
<1> DEFINE u == [t EXCEPT !.tail = root]
           v == RecomputeAllCaches(u)
           w == ReclaimStaleFragments(v, SeqAt(t, root))
           target == WindowTailSeq(SeqAt(t, root), SeqAt(t, t.active))
<1>1. u \in NodeState
  BY DEF NodeState
<1>2. WindowFrom(t, root) = AdvanceTo(w, target)
  BY DEF WindowFrom
<1> HIDE DEF u, target
<1>3. Reduces(u, v)
  BY <1>1, RecomputeAllCachesReduces
<1>4. v \in NodeState
  BY <1>3 DEF Reduces
<1> HIDE DEF v
<1>5. Reduces(v, w)
  BY <1>4, ReclaimStaleFragmentsReduces
<1>6. w \in NodeState
  BY <1>5 DEF Reduces
<1> HIDE DEF w
<1>7. Reduces(w, AdvanceTo(w, target))
  BY <1>6, AdvanceToReduces
<1>8. Reduces(u, WindowFrom(t, root))
  BY <1>2, <1>3, <1>5, <1>7, ReducesOn
<1>9. QED
  BY <1>1, <1>8 DEF u

(* The tail that follows an extension is a reduction.                        *)
LEMMA FollowTailReduces ==
  ASSUME NEW t \in NodeState, NEW tailValue, tailValue \subseteq Nat
  PROVE  Reduces(t, FollowTail(t, tailValue))
<1>1. CASE tailValue = {} \/ ~CanAdvance(t)
  BY <1>1, ReducesSelf DEF FollowTail
<1>2. CASE ~(tailValue = {} \/ ~CanAdvance(t))
  <2> DEFINE v == CHOOSE v \in tailValue : TRUE
             u == AdvanceTail(t)
             n == Monus(u.value, v)
             w == [u EXCEPT !.value = n]
  <2>1. v \in Nat
    BY <1>2
  <2>2. FollowTail(t, tailValue) = SubtractBranchValue(w, v)
    BY <1>2 DEF FollowTail
  <2> HIDE DEF v
  <2>3. Reduces(t, u)
    BY AdvanceTailReduces
  <2>4. u \in NodeState
    BY <2>3 DEF Reduces
  <2> HIDE DEF u
  <2>5. n \in Nat
    BY <2>1, <2>4, MonusNat DEF NodeState
  <2> HIDE DEF n
  <2>6. Reduces(u, w)
    BY <2>4, <2>5, NewValueReduces
  <2>7. w \in NodeState
    BY <2>6 DEF Reduces
  <2> HIDE DEF w
  <2>8. Reduces(w, SubtractBranchValue(w, v))
    BY <2>1, <2>7, SubtractBranchValueReduces
  <2>9. QED
    BY <2>2, <2>3, <2>6, <2>8, ReducesOn
<1>3. QED
  BY <1>1, <1>2

-----------------------------------------------------------------------------
(* Judgement adds verdicts, and blocks of the active chain.                  *)

(* Only a block is on the active chain: a freed slot is not.                 *)
Clean(t) == \A s \in Slot : t.blocks[s].onActive => t.blocks[s].hash # NoHash

(* No verdict stands against the evidence.                                   *)
Evident(t) ==
  \A s \in Slot : t.blocks[s].hash # NoHash =>
    /\ t.blocks[s].status = "Active" => t.blocks[s].hash \notin BadBlock \union BadVotes
    /\ t.blocks[s].status = "Connected" => t.blocks[s].hash \notin BadContext

(* The blocks on the active chain are judged.                                *)
Judged(t) == \A s \in Slot : t.blocks[s].onActive => t.blocks[s].status # "Stored"

(* At most one slot holds a given block.                                     *)
Distinct(t) ==
  \A r, s \in Slot : t.blocks[r].hash # NoHash /\ t.blocks[r].hash = t.blocks[s].hash => r = s

(* No block is added or moved.                                               *)
Shrinks(t, u) ==
  \A s \in Slot : u.blocks[s].hash # NoHash => u.blocks[s].hash = t.blocks[s].hash

(* The trees a call of a Ready node may turn t into.                         *)
Serves(t) ==
  {u \in NodeState : /\ Shrinks(t, u) /\ Clean(u) /\ Evident(u)
                     /\ u.tail # NoRef => Judged(u)
                     /\ u.phase = t.phase /\ u.config = t.config /\ u.content = t.content}

(* Distinct blocks stay distinct when blocks are removed.                    *)
LEMMA DistinctOn ==
  ASSUME NEW t, NEW u, Distinct(t), Shrinks(t, u)
  PROVE  Distinct(u)
BY DEF Distinct, Shrinks

(* A reduction keeps each of these facts.                                    *)
LEMMA CleanOn ==
  ASSUME NEW t, NEW u, Clean(t), Reduces(t, u)
  PROVE  Clean(u)
BY DEF Clean, Reduces

(* The same for the verdicts.                                                *)
LEMMA EvidentOn ==
  ASSUME NEW t, NEW u, Evident(t), Reduces(t, u)
  PROVE  Evident(u)
BY DEF Evident, Reduces

(* The same for the judged chain.                                            *)
LEMMA JudgedOn ==
  ASSUME NEW t, NEW u, Judged(t), Reduces(t, u)
  PROVE  Judged(u)
BY DEF Judged, Reduces

(* A reduction removes blocks at most.                                       *)
LEMMA ShrinksOn ==
  ASSUME NEW t, NEW u, NEW v, Shrinks(t, u), Reduces(u, v)
  PROVE  Shrinks(t, v)
BY DEF Shrinks, Reduces

(* A reduction of a tree that serves a locked node serves it.                *)
LEMMA ServesOn ==
  ASSUME NEW t, t.config = "Locked", NEW u \in Serves(t), NEW v, Reduces(u, v)
  PROVE  v \in Serves(t)
<1>1. Shrinks(t, v)
  BY ShrinksOn DEF Serves
<1>2. Clean(v) /\ Evident(v)
  BY CleanOn, EvidentOn DEF Serves
<1>3. v.tail # NoRef => Judged(v)
  <2>1. v.tail # NoRef => u.tail # NoRef
    BY DEF Reduces
  <2>2. QED
    BY <2>1, JudgedOn DEF Serves
<1>4. /\ v \in NodeState /\ v.phase = t.phase
      /\ v.config = t.config /\ v.content = t.content
  BY DEF Reduces, Serves
<1>5. QED
  BY <1>1, <1>2, <1>3, <1>4 DEF Serves

-----------------------------------------------------------------------------
(* t and u differ in the statuses and flags of blocks at most.               *)
SameBut(t, u) ==
  /\ u \in NodeState
  /\ u.tail = t.tail /\ u.phase = t.phase /\ u.config = t.config /\ u.content = t.content
  /\ u.tentative = t.tentative /\ u.active = t.active /\ u.heads = t.heads /\ u.value = t.value
  /\ \A s \in Slot : u.blocks[s].hash = t.blocks[s].hash /\ u.blocks[s].parent = t.blocks[s].parent

(* The blocks of S have status st in u, and nothing else differs.            *)
StatusSet(t, u, S, st) ==
  /\ SameBut(t, u)
  /\ \A s \in Slot :
       /\ u.blocks[s].onActive = t.blocks[s].onActive
       /\ u.blocks[s].status = IF s \in S /\ Occupied(t, s) THEN st ELSE t.blocks[s].status

(* The blocks of S have the flag in u, and nothing else differs.             *)
OnActiveSet(t, u, S, flag) ==
  /\ SameBut(t, u)
  /\ \A s \in Slot :
       /\ u.blocks[s].status = t.blocks[s].status
       /\ u.blocks[s].onActive = IF s \in S /\ Occupied(t, s) THEN flag ELSE t.blocks[s].onActive

(* SetStatus does that.                                                      *)
LEMMA SetStatusSets ==
  ASSUME NEW t \in NodeState, NEW S, NEW st \in Statuses
  PROVE  StatusSet(t, SetStatus(t, S, st), S, st)
<1> DEFINE marked(s) == s \in S /\ Occupied(t, s)
           B == [s \in Slot |-> IF marked(s) THEN [t.blocks[s] EXCEPT !.status = st]
                                ELSE t.blocks[s]]
           u == [t EXCEPT !.blocks = B]
<1>1. SetStatus(t, S, st) = u
  BY DEF SetStatus
<1>2. \A s \in Slot : t.blocks[s] \in BlockEntry
  BY DEF NodeState
<1> HIDE DEF marked
<1>3. B \in [Slot -> BlockEntry]
  BY <1>2 DEF BlockEntry
<1>4. \A s \in Slot : /\ B[s].hash = t.blocks[s].hash /\ B[s].parent = t.blocks[s].parent
                      /\ B[s].onActive = t.blocks[s].onActive
                      /\ B[s].status = IF marked(s) THEN st ELSE t.blocks[s].status
  BY <1>2 DEF BlockEntry
<1> HIDE DEF B
<1>5. u \in NodeState /\ u.blocks = B
  BY <1>3 DEF NodeState
<1>6. SameBut(t, u)
  BY <1>4, <1>5 DEF SameBut, NodeState
<1> HIDE DEF u
<1>7. QED
  BY <1>1, <1>4, <1>5, <1>6 DEF StatusSet, marked

(* SetOnActive does that.                                                    *)
LEMMA SetOnActiveSets ==
  ASSUME NEW t \in NodeState, NEW S, NEW flag \in BOOLEAN
  PROVE  OnActiveSet(t, SetOnActive(t, S, flag), S, flag)
<1> DEFINE marked(s) == s \in S /\ Occupied(t, s)
           B == [s \in Slot |-> IF marked(s) THEN [t.blocks[s] EXCEPT !.onActive = flag]
                                ELSE t.blocks[s]]
           u == [t EXCEPT !.blocks = B]
<1>1. SetOnActive(t, S, flag) = u
  BY DEF SetOnActive
<1>2. \A s \in Slot : t.blocks[s] \in BlockEntry
  BY DEF NodeState
<1> HIDE DEF marked
<1>3. B \in [Slot -> BlockEntry]
  BY <1>2 DEF BlockEntry
<1>4. \A s \in Slot : /\ B[s].hash = t.blocks[s].hash /\ B[s].parent = t.blocks[s].parent
                      /\ B[s].status = t.blocks[s].status
                      /\ B[s].onActive = IF marked(s) THEN flag ELSE t.blocks[s].onActive
  BY <1>2 DEF BlockEntry
<1> HIDE DEF B
<1>5. u \in NodeState /\ u.blocks = B
  BY <1>3 DEF NodeState
<1>6. SameBut(t, u)
  BY <1>4, <1>5 DEF SameBut, NodeState
<1> HIDE DEF u
<1>7. QED
  BY <1>1, <1>4, <1>5, <1>6 DEF OnActiveSet, marked

(* A block found good may become the active head.                            *)
LEMMA HeadAtServes ==
  ASSUME NEW t, NEW u \in Serves(t), NEW x \in Slot,
         Occupied(u, x) => HashAt(u, x) \notin BadBlock \union BadVotes
  PROVE  HeadAt(u, x) \in Serves(t)
<1> DEFINE v == SetStatus(u, {x}, "Active")
           w == SetOnActive(v, {x}, TRUE)
           z == [w EXCEPT !.active = x]
<1>1. u \in NodeState /\ x \in Ref /\ "Active" \in Statuses /\ TRUE \in BOOLEAN
  BY Numbers DEF Serves, Statuses
<1>2. StatusSet(u, v, {x}, "Active")
  BY <1>1, SetStatusSets
<1>3. v \in NodeState
  BY <1>2 DEF StatusSet, SameBut
<1>4. HeadAt(u, x) = z
  BY DEF HeadAt
<1> HIDE DEF v
<1>5. OnActiveSet(v, w, {x}, TRUE)
  BY <1>1, <1>3, SetOnActiveSets
<1> HIDE DEF w
<1>6. /\ z \in NodeState /\ z.blocks = w.blocks /\ z.tail = u.tail /\ z.phase = u.phase
      /\ z.config = u.config /\ z.content = u.content
  BY <1>1, <1>2, <1>5 DEF OnActiveSet, StatusSet, SameBut, NodeState
<1>7. ASSUME NEW s \in Slot
      PROVE  /\ z.blocks[s].hash = u.blocks[s].hash
             /\ s = x /\ Occupied(u, x) => z.blocks[s].status = "Active"
             /\ s # x \/ ~Occupied(u, x) => /\ z.blocks[s].status = u.blocks[s].status
                                          /\ z.blocks[s].onActive = u.blocks[s].onActive
  <2>1. w.blocks[s].hash = v.blocks[s].hash /\ v.blocks[s].hash = u.blocks[s].hash
    BY <1>2, <1>5 DEF OnActiveSet, StatusSet, SameBut
  <2>2. /\ w.blocks[s].status = v.blocks[s].status
        /\ s # x \/ ~Occupied(v, x) => w.blocks[s].onActive = v.blocks[s].onActive
    BY <1>5 DEF OnActiveSet
  <2>3. /\ v.blocks[s].onActive = u.blocks[s].onActive
        /\ v.blocks[s].status = IF s = x /\ Occupied(u, x) THEN "Active" ELSE u.blocks[s].status
    BY <1>2 DEF StatusSet
  <2>4. Occupied(v, x) <=> Occupied(u, x)
    BY <1>2 DEF Occupied, StatusSet, SameBut
  <2>5. QED
    BY <1>6, <2>1, <2>2, <2>3, <2>4
<1> HIDE DEF z
<1>8. Shrinks(t, z)
  BY <1>7 DEF Shrinks, Serves
<1>9. Clean(z)
  BY <1>7 DEF Clean, Serves, Occupied
<1>10. Evident(z)
  BY <1>7 DEF Evident, Serves, HashAt, Occupied
<1>11. z.tail # NoRef => Judged(z)
  BY <1>6, <1>7 DEF Judged, Serves
<1>12. QED
  BY <1>4, <1>6, <1>8, <1>9, <1>10, <1>11 DEF Serves

(* promote_head_extension of a block found good, with the tail that follows. *)
LEMMA PromoteExtensionServes ==
  ASSUME NEW t, t.config = "Locked", NEW u \in Serves(t), NEW x \in Slot,
         Occupied(u, x) => HashAt(u, x) \notin BadBlock \union BadVotes,
         NEW value \in Nat, NEW tailValue, tailValue \subseteq Nat
  PROVE  PromoteExtension(u, x, value, tailValue) \in Serves(t)
<1> DEFINE v == HeadAt(u, x)
           w == RefreshHead(v, x)
           n == w.value + value
           z == [w EXCEPT !.value = n]
<1>1. PromoteExtension(u, x, value, tailValue) = FollowTail(z, tailValue)
  BY DEF PromoteExtension
<1>2. v \in Serves(t) /\ v \in NodeState
  BY HeadAtServes DEF Serves
<1> HIDE DEF v
<1>3. Reduces(v, w)
  BY <1>2, RefreshHeadReduces
<1>4. w \in NodeState
  BY <1>3 DEF Reduces
<1> HIDE DEF w
<1>5. n \in Nat
  BY <1>4 DEF NodeState
<1> HIDE DEF n
<1>6. Reduces(w, z)
  BY <1>4, <1>5, NewValueReduces
<1>7. z \in NodeState
  BY <1>6 DEF Reduces
<1> HIDE DEF z
<1>8. Reduces(z, FollowTail(z, tailValue))
  BY <1>7, FollowTailReduces
<1>9. Reduces(v, FollowTail(z, tailValue))
  BY <1>3, <1>6, <1>8, ReducesOn
<1>10. QED
  BY <1>1, <1>2, <1>9, ServesOn

-----------------------------------------------------------------------------
(* The successor of the tail is a slot.                                      *)
LEMMA OnActiveChildIn ==
  ASSUME NEW t, NEW s, OnActiveChildren(t, s) # {}
  PROVE  Min(OnActiveChildren(t, s)) \in Slot /\ Occupied(t, Min(OnActiveChildren(t, s)))
<1> DEFINE S == OnActiveChildren(t, s)
<1>1. \A c \in S : c \in Slot /\ Occupied(t, c)
  BY DEF OnActiveChildren, Children, Retained, Occupied
<1>2. S \subseteq Nat /\ S # {}
  BY <1>1, Numbers
<1> HIDE DEF S
<1>3. Min(S) \in S
  BY <1>2, MinOf
<1>4. QED
  BY <1>1, <1>3 DEF S

(* Votes are numbers.                                                        *)
LEMMA VotesNat ==
  ASSUME NEW t \in NodeState, NEW s, Occupied(t, s)
  PROVE  Votes[HashAt(t, s)] \in Nat /\ Size[HashAt(t, s)] \in Nat
BY RetainedBlock, ChainAssumption

(* A block judged valid is not condemned, and the value its tail release     *)
(* subtracts is a number.                                                    *)
LEMMA ValidJudgement ==
  ASSUME NEW t \in NodeState, NEW b, NEW unread, JudgeHeadExtension(t, b, unread) = "Valid"
  PROVE  HoldsWindow(t) /\ ~Condemned(t, b) /\ TailValue(t) \subseteq Nat
<1>1. /\ HoldsWindow(t) /\ ~Condemned(t, b)
      /\ WindowFull(t) => ~NewTailUnread(t, unread)
  BY DEF JudgeHeadExtension
<1>2. WindowFull(t) => Votes[HashAt(t, Min(OnActiveChildren(t, t.tail)))] \in Nat
  BY <1>1, OnActiveChildIn, VotesNat DEF NewTailUnread
<1>3. QED
  BY <1>1, <1>2 DEF TailValue

(* The best child is a stored child of the active head: the ranking has a    *)
(* first among any set of children.                                          *)
LEMMA BestChildIn ==
  ASSUME NEW t \in NodeState, Distinct(t), NEW unread
  PROVE  BestStoredChild(t, unread) # NoRef => BestStoredChild(t, unread) \in StoredChildren(t)
<1> DEFINE all == StoredChildren(t)
           wins(c, d) == HigherRank(Votes[HashAt(t, c)], HashAt(t, c),
                                    Votes[HashAt(t, d)], HashAt(t, d))
           R == {p \in all \X all : wins(p[1], p[2])}
<1>1. all \subseteq Slot /\ \A c \in all : Occupied(t, c)
  BY DEF StoredChildren, Children, Retained, Occupied
<1>2. \A c \in all : /\ Votes[HashAt(t, c)] \in Nat /\ Size[HashAt(t, c)] \in Nat
                     /\ HashAt(t, c) \in Nat
  BY <1>1, VotesNat, RetainedBlock, HeaderNumbers
<1>3. \A c, d \in all : c # d => HashAt(t, c) # HashAt(t, d)
  BY <1>1 DEF Distinct, HashAt, Occupied
<1>4. \A c, d \in all : <<c, d>> \in R <=> wins(c, d)
  OBVIOUS
<1> HIDE DEF all, R
<1>5. \A c, d \in all : c # d => <<c, d>> \in R \/ <<d, c>> \in R
  BY <1>2, <1>3, <1>4 DEF HigherRank
<1>6. \A c, d, e \in all : <<c, d>> \in R /\ <<d, e>> \in R => <<c, e>> \in R
  <2> SUFFICES ASSUME NEW c \in all, NEW d \in all, NEW e \in all, wins(c, d), wins(d, e)
               PROVE  wins(c, e)
    BY <1>4
  <2>1. QED
    BY <1>2 DEF HigherRank
<1>7. all # {} => \E c \in all : \A d \in all \ {c} : wins(c, d)
  <2> SUFFICES ASSUME all # {} PROVE \E c \in all : \A d \in all \ {c} : wins(c, d)
    OBVIOUS
  <2>1. MaxBlocks \in Nat /\ all \subseteq 1 .. MaxBlocks
    BY <1>1, BlockAssumption DEF Slot
  <2>2. Ranks(R, all)
    BY <1>5, <1>6 DEF Ranks
  <2>3. \E c \in all : \A d \in all \ {c} : <<c, d>> \in R
    BY <2>1, <2>2, FirstRanked, Zenon
  <2>4. QED
    BY <1>4, <2>3
<1>8. LowestOf(all) # NoRef => LowestOf(all) \in all
  BY <1>1, LowestIn, Numbers
<1>9. all = {} => Cardinality(all) <= 1
  BY FS_EmptySet
<1>10. CASE Cardinality(all) <= 1
  BY <1>8, <1>10 DEF BestStoredChild, all
<1>11. CASE ~(Cardinality(all) <= 1)
  <2>1. \E c \in all : \A d \in all \ {c} : wins(c, d)
    BY <1>7, <1>9, <1>11
  <2>2. (CHOOSE c \in all : \A d \in all \ {c} : wins(c, d)) \in all
    BY <2>1
  <2>3. QED
    BY <1>11, <2>2 DEF BestStoredChild, all
<1>12. QED
  BY <1>10, <1>11

(* One step of the continuation: the child is promoted if nothing condemns   *)
(* it, and deleted otherwise.                                                *)
LEMMA ExtendOnceServes ==
  ASSUME NEW t, t.config = "Locked", Distinct(t), NEW u \in Serves(t), NEW unread
  PROVE  ExtendOnce(u, unread) \in Serves(t)
<1> DEFINE c == BestStoredChild(u, unread)
           b == HashAt(u, c)
           verdict == JudgeHeadExtension(u, b, unread)
<1>1. u \in NodeState /\ Distinct(u)
  BY DistinctOn DEF Serves
<1>2. c # NoRef => Occupied(u, c)
  BY <1>1, BestChildIn DEF StoredChildren, Children, Retained, Occupied
<1>3. ExtendOnce(u, unread) \in {u, ExtendWith(u, c, b, verdict)}
      /\ (c = NoRef => ExtendOnce(u, unread) = u)
  BY DEF ExtendOnce, ExtendTo
<1> HIDE DEF c
<1>4. CASE c # NoRef /\ verdict = "Valid" /\ b \notin BadVotes
  <2>1. b \notin BadBlock /\ TailValue(u) \subseteq Nat
    BY <1>1, <1>4, ValidJudgement DEF Condemned
  <2>2. Votes[b] \in Nat
    BY <1>1, <1>2, <1>4, VotesNat
  <2>3. PromoteExtension(u, c, Votes[b], TailValue(u)) \in Serves(t)
    BY <1>1, <1>2, <1>4, <2>1, <2>2, RetainedBlock, PromoteExtensionServes
  <2>4. ExtendWith(u, c, b, verdict) = PromoteExtension(u, c, Votes[b], TailValue(u))
    BY <1>4 DEF ExtendWith
  <2>5. QED
    BY <1>3, <2>3, <2>4
<1>5. CASE c # NoRef /\ ~(verdict = "Valid" /\ b \notin BadVotes)
  <2>1. ExtendWith(u, c, b, verdict) \in {u, DeleteSubtree(u, c)}
    BY <1>5 DEF ExtendWith
  <2>2. DeleteSubtree(u, c) \in Serves(t)
    BY <1>1, DeleteSubtreeReduces, ServesOn
  <2>3. QED
    BY <1>3, <2>1, <2>2
<1>6. QED
  BY <1>3, <1>4, <1>5

(* The continuation is a run of its step,                                   *)
(* in whatever set the step stays in.                                       *)
LEMMA DriveForwardExtensionRuns ==
  ASSUME NEW T, NEW t \in T, NEW unread,
         \A u \in T, k \in Slot : ExtendOnce(u, unread) \in T
  PROVE  /\ DriveForwardExtension(t, unread) \in T
         /\ \E g \in [T \X Slot -> T] :
              /\ \A u \in T, k \in Slot : g[<<u, k>>] = ExtendOnce(u, unread)
              /\ HasRun(MaxBlocks, T, t, g, DriveForwardExtension(t, unread))
<1> DEFINE n == MaxBlocks
           seq == InSlotOrder
           Step(u, k) == ExtendOnce(u, unread)
           g == [p \in T \X (1 .. n) |-> Step(p[1], p[2])]
           Eq(h) == h = [s \in SUBSET (DOMAIN seq) |->
                          IF s = {} THEN t ELSE Step(h[s \ {Max(s)}], seq[Max(s)])]
           iter == CHOOSE h : Eq(h)
<1>1. DriveForwardExtension(t, unread) = iter[DOMAIN seq]
  BY DEF DriveForwardExtension, FoldLeft, MapThenFoldSet
<1>2. n \in Nat /\ DOMAIN seq = 1 .. n /\ \A k \in 1 .. n : seq[k] = k
  BY BlockAssumption DEF InSlotOrder, Slot
<1>3. Slot = 1 .. n /\ \A u \in T, k \in 1 .. n : Step(u, k) \in T
  BY DEF Slot
<1> HIDE DEF seq, n, Step
<1>4. g \in [T \X (1 .. n) -> T] /\ \A u \in T, k \in 1 .. n : g[<<u, k>>] = Step(u, k)
  BY <1>3
<1> HIDE DEF g
<1>5. \A s \in SUBSET (1 .. n) : s # {} => Max(s) \in 1 .. n
  BY <1>2, TopOf
<1>6. PICK h \in [SUBSET (1 .. n) -> T] : FoldsUp(h, n, T, t, g)
  BY <1>2, <1>4, FoldUpExists, Zenon
<1>7. ASSUME NEW s \in SUBSET (1 .. n), s # {}
      PROVE  h[s] = Step(h[s \ {Max(s)}], seq[Max(s)])
  <2>1. Max(s) \in 1 .. n /\ h[s \ {Max(s)}] \in T
    BY <1>5, <1>7
  <2>2. h[s] = g[<<h[s \ {Max(s)}], Max(s)>>]
    BY <1>6, <1>7, <2>1 DEF FoldsUp
  <2>3. QED
    BY <1>2, <1>4, <2>1, <2>2
<1>8. Eq(h)
  BY <1>2, <1>6, <1>7 DEF FoldsUp
<1> HIDE DEF Eq
<1>9. Eq(iter)
  BY <1>8
<1> HIDE DEF iter
<1>10. FoldsUp(iter, n, T, t, g)
  <2>1. iter[{}] = t
    BY <1>2, <1>9 DEF Eq
  <2>2. ASSUME NEW s \in SUBSET (1 .. n), s # {}, iter[s \ {Max(s)}] \in T
        PROVE  iter[s] = g[<<iter[s \ {Max(s)}], Max(s)>>]
    <3>1. Max(s) \in 1 .. n /\ iter[s] = Step(iter[s \ {Max(s)}], seq[Max(s)])
      BY <1>2, <1>5, <1>9, <2>2 DEF Eq
    <3>2. QED
      BY <1>2, <1>4, <2>2, <3>1
  <2>3. QED
    BY <2>1, <2>2 DEF FoldsUp
<1>11. HasRun(n, T, t, g, DriveForwardExtension(t, unread))
  <2>1. HasRun(n, T, t, g, iter[1 .. n])
    BY <1>2, <1>4, <1>10, FoldRunExists, Zenon
  <2>2. QED
    BY <1>1, <1>2, <2>1
<1>12. DriveForwardExtension(t, unread) \in T
  BY <1>2, <1>11, RunEnds
<1>13. QED
  BY <1>3, <1>4, <1>11, <1>12 DEF n, Step

(* drive_forward_extension keeps a Ready node what it was.                   *)
LEMMA DriveForwardExtensionServes ==
  ASSUME NEW t, t.config = "Locked", Distinct(t), t \in Serves(t), NEW unread
  PROVE  DriveForwardExtension(t, unread) \in Serves(t)
<1> DEFINE T == Serves(t)
<1>1. \A u \in T, k \in Slot : ExtendOnce(u, unread) \in T
  <2> SUFFICES ASSUME NEW u \in T, NEW k \in Slot PROVE ExtendOnce(u, unread) \in T
    OBVIOUS
  <2>1. QED
    BY ExtendOnceServes
<1>2. t \in T
  OBVIOUS
<1> HIDE DEF T
<1>3. DriveForwardExtension(t, unread) \in T
  BY <1>1, <1>2, DriveForwardExtensionRuns
<1>4. QED
  BY <1>3 DEF T

-----------------------------------------------------------------------------
(* The votes of a set of slots add up to a number.                           *)
LEMMA SumVotesNat ==
  ASSUME NEW t \in NodeState, NEW S, S \subseteq Retained(t)
  PROVE  SumVotes(t, S) \in Nat
<1> DEFINE votes(s) == Votes[HashAt(t, s)]
           pick == [s \in SUBSET S |-> CHOOSE x \in s : TRUE]
           g == [p \in Nat \X S |-> votes(p[2]) + p[1]]
           Eq(h) == h = [s \in SUBSET S |->
                          IF s = {} THEN 0
                          ELSE votes(CHOOSE x \in s : TRUE) + h[s \ {CHOOSE x \in s : TRUE}]]
           iter == CHOOSE h : Eq(h)
<1>1. SumVotes(t, S) = iter[S]
  BY DEF SumVotes, MapThenSumSet, MapThenFoldSet
<1>2. IsFiniteSet(S)
  <2>1. IsFiniteSet(Slot) /\ S \subseteq Slot
    BY FS_Interval, BlockAssumption DEF Slot, Retained
  <2>2. QED
    BY <2>1, FS_Subset
<1>3. \A s \in SUBSET S : s # {} => pick[s] \in s /\ pick[s] = (CHOOSE x \in s : TRUE)
  OBVIOUS
<1>4. \A s \in S : votes(s) \in Nat
  BY VotesNat DEF Retained, Occupied
<1> HIDE DEF votes, pick
<1>5. g \in [Nat \X S -> Nat] /\ \A n \in Nat, s \in S : g[<<n, s>>] = votes(s) + n
  BY <1>4
<1> HIDE DEF g
<1>6. PICK h \in [SUBSET S -> Nat] : FoldSolution(h, S, pick, 0, g)
  BY <1>2, <1>3, <1>5, FoldExists, Zenon
<1>7. Eq(h)
  <2>1. ASSUME NEW s \in SUBSET S, s # {}
        PROVE  h[s] = votes(CHOOSE x \in s : TRUE) + h[s \ {CHOOSE x \in s : TRUE}]
    <3>1. pick[s] \in S /\ s \ {pick[s]} \in SUBSET S
      BY <1>3, <2>1
    <3>2. h[s] = g[<<h[s \ {pick[s]}], pick[s]>>]
      BY <1>6, <2>1 DEF FoldSolution
    <3>3. h[s \ {pick[s]}] \in Nat
      BY <3>1
    <3>4. QED
      BY <1>3, <1>5, <2>1, <3>1, <3>2, <3>3
  <2>2. h[{}] = 0
    BY <1>6 DEF FoldSolution
  <2>3. QED
    BY <2>1, <2>2
<1> HIDE DEF Eq
<1>8. Eq(iter)
  BY <1>7
<1> HIDE DEF iter
<1>9. FoldsIn(iter, S, pick, Nat, 0, g)
  <2>1. iter[{}] = 0
    BY <1>8 DEF Eq
  <2>2. ASSUME NEW s \in SUBSET S, s # {}, iter[s \ {pick[s]}] \in Nat
        PROVE  iter[s] = g[<<iter[s \ {pick[s]}], pick[s]>>]
    <3>1. pick[s] \in S /\ pick[s] = (CHOOSE x \in s : TRUE)
      BY <1>3, <2>2
    <3>2. iter[s] = votes(pick[s]) + iter[s \ {pick[s]}]
      BY <1>8, <2>2, <3>1 DEF Eq
    <3>3. QED
      BY <1>5, <2>2, <3>1, <3>2
  <2>3. QED
    BY <2>1, <2>2 DEF FoldsIn
<1>10. iter[S] \in Nat
  <2>1. 0 \in Nat /\ \A s \in SUBSET S : s # {} => pick[s] \in s
    BY <1>3
  <2>2. QED
    BY <1>2, <1>5, <1>9, <2>1, FoldTyped, Zenon
<1>11. QED
  BY <1>1, <1>10

-----------------------------------------------------------------------------
(* A branch: a path into the tree, and the part of it above the chain.       *)
BranchFacts(t, path, part) ==
  LET i == ConnectionIndex(t, path)
  IN  /\ i \in DOMAIN path /\ i \in Nat /\ t.blocks[path[i]].onActive
      /\ DOMAIN part = 1 .. (i - 1)
      /\ \A j \in DOMAIN part : j \in DOMAIN path /\ part[j] = path[j]

(* The block a path connects at is on the path.                              *)
LEMMA ConnectionIn ==
  ASSUME NEW t \in NodeState, NEW s \in Ref, ConnectionIndex(t, Path(t, s)) # NoRef
  PROVE  BranchFacts(t, Path(t, s), BranchPart(t, s))
<1> DEFINE path == Path(t, s)
           S == {i \in DOMAIN path : t.blocks[path[i]].onActive}
           i == ConnectionIndex(t, path)
           part == SubSeq(path, 1, i - 1)
<1>1. PathFacts(t, s, path)
  BY PathElements
<1>2. BranchPart(t, s) = part
  BY DEF BranchPart
<1>3. i = LowestOf(S)
  BY DEF ConnectionIndex
<1> HIDE DEF path, i
<1>4. S \subseteq Nat
  BY <1>1 DEF PathFacts
<1>5. i \in S
  BY <1>3, <1>4, LowestIn DEF i, path
<1>6. i \in 1 .. Len(path) /\ Len(path) \in Nat /\ path \in Seq(Ref) /\ DOMAIN path = 1 .. Len(path)
  BY <1>1, <1>5 DEF PathFacts
<1>7. DOMAIN part = 1 .. (i - 1) /\ \A j \in 1 .. (i - 1) : part[j] = path[j]
  BY <1>6
<1> HIDE DEF part
<1>8. QED
  BY <1>2, <1>5, <1>6, <1>7 DEF BranchFacts, path, i

(* The blocks of the path of a block are blocks.                             *)
LEMMA PathRetained ==
  ASSUME NEW t \in NodeState, NEW s, Occupied(t, s)
  PROVE  Range(Path(t, s)) \subseteq Retained(t) /\ Range(BranchPart(t, s)) \subseteq Retained(t)
<1> DEFINE path == Path(t, s)
           n == ConnectionIndex(t, path) - 1
           part == SubSeq(path, 1, n)
<1>1. s \in Ref
  BY RetainedBlock
<1>2. PathFacts(t, s, path)
  BY <1>1, PathElements
<1>3. n = -1 \/ n \in DOMAIN path \/ n = 0
  <2>1. ConnectionIndex(t, path) # NoRef => ConnectionIndex(t, path) \in DOMAIN path
    BY <1>1, ConnectionIn DEF BranchFacts
  <2> HIDE DEF path
  <2>2. QED
    BY <1>2, <2>1 DEF PathFacts, NoRef
<1>4. BranchPart(t, s) = part
  BY DEF BranchPart
<1> HIDE DEF path, n
<1>5. \A i \in DOMAIN path : path[i] \in Retained(t)
  BY <1>2 DEF PathFacts, Occupied, Retained
<1>6. \A i \in DOMAIN part : i \in DOMAIN path /\ part[i] = path[i]
  BY <1>2, <1>3 DEF PathFacts
<1> HIDE DEF part
<1>7. QED
  BY <1>4, <1>5, <1>6 DEF Range, path

(* The value of a side branch is a number.                                   *)
LEMMA SideValueNat ==
  ASSUME NEW t \in NodeState, NEW s, Occupied(t, s), Occupied(t, t.active), NEW extra \in Nat
  PROVE  SideValue(t, s, extra) \in Nat
<1>1. SumVotes(t, Range(BranchPart(t, s))) \in Nat
  BY PathRetained, SumVotesNat
<1>2. ActivePart(t, s) \subseteq Range(Path(t, t.active))
  BY DEF ActivePart, Range
<1>3. SumVotes(t, ActivePart(t, s)) \in Nat
  BY <1>2, PathRetained, SumVotesNat
<1>4. t.value \in Nat
  BY DEF NodeState
<1>5. Monus(t.value, SumVotes(t, ActivePart(t, s))) \in Nat
  BY <1>3, <1>4, MonusNat
<1>6. QED
  BY <1>1, <1>5 DEF SideValue

(* A side branch is walked only while there is an active head.               *)
LEMMA WalkableAnchored ==
  ASSUME NEW t \in NodeState, NEW s \in Ref, NEW unread, Walkable(t, s, unread),
         LET path == Path(t, s) IN Occupied(t, path[ConnectionIndex(t, path)])
  PROVE  Occupied(t, t.active)
<1> DEFINE path == Path(t, s)
           conn == path[ConnectionIndex(t, path)]
           top == Path(t, t.active)
<1>1. t.active \in Ref /\ conn \in Range(top) /\ Occupied(t, conn)
  BY DEF NodeState, Walkable, Ancestry
<1>2. PathFacts(t, t.active, top)
  BY <1>1, PathElements
<1> HIDE DEF top, conn
<1>3. PICK i \in DOMAIN top : top[i] = conn
  BY <1>1 DEF Range
<1>4. CASE i = 1
  BY <1>1, <1>2, <1>3, <1>4 DEF PathFacts
<1>5. CASE i # 1
  <2>1. 2 \in 2 .. Len(top)
    BY <1>2, <1>3, <1>5 DEF PathFacts
  <2>2. Occupied(t, top[1])
    BY <1>2, <2>1 DEF PathFacts
  <2>3. QED
    BY <1>2, <2>2 DEF PathFacts
<1>6. QED
  BY <1>4, <1>5

(* What the side-branch driver may turn t into.                              *)
Connecting(t) == {u \in Serves(t) : Judged(u)}

(* Reductions stay among them.                                               *)
LEMMA ConnectingOn ==
  ASSUME NEW t, t.config = "Locked", NEW u \in Connecting(t), NEW v, Reduces(u, v)
  PROVE  v \in Connecting(t)
BY ServesOn, JudgedOn DEF Connecting

(* The blocks of a path above its first judged one.                          *)
StoredRun(t, path) == {i \in DOMAIN path : \A j \in 1 .. i : t.blocks[path[j]].status = "Stored"}

(* Marking a walked branch Connected, each of its blocks found good.         *)
LEMMA MarkConnectedConnecting ==
  ASSUME NEW t, NEW u \in Connecting(t), NEW s \in Ref,
         LET path == Path(u, s)
         IN  \A i \in StoredRun(u, path) :
               Occupied(u, path[i]) => HashAt(u, path[i]) \notin BadContext
  PROVE  MarkConnected(u, s) \in Connecting(t)
<1> DEFINE path == Path(u, s)
           S == {path[i] : i \in StoredRun(u, path)}
           v == SetStatus(u, S, "Connected")
<1>1. u \in NodeState /\ "Connected" \in Statuses
  BY DEF Connecting, Serves, Statuses
<1>2. MarkConnected(u, s) = v
  BY DEF MarkConnected, StoredRun
<1>3. \A r \in S : Occupied(u, r) => HashAt(u, r) \notin BadContext
  OBVIOUS
<1> HIDE DEF S
<1>4. StatusSet(u, v, S, "Connected")
  BY <1>1, SetStatusSets
<1> HIDE DEF v
<1>5. ASSUME NEW r \in Slot
      PROVE  /\ v.blocks[r].hash = u.blocks[r].hash
             /\ v.blocks[r].onActive = u.blocks[r].onActive
             /\ \/ v.blocks[r].status = u.blocks[r].status
                \/ /\ v.blocks[r].status = "Connected"
                   /\ u.blocks[r].hash \notin BadContext
  <2>1. v.blocks[r].hash = u.blocks[r].hash /\ v.blocks[r].onActive = u.blocks[r].onActive
    BY <1>4 DEF StatusSet, SameBut
  <2>2. CASE r \in S /\ Occupied(u, r)
    BY <1>3, <1>4, <2>1, <2>2 DEF StatusSet, HashAt
  <2>3. CASE ~(r \in S /\ Occupied(u, r))
    BY <1>4, <2>1, <2>3 DEF StatusSet
  <2>4. QED
    BY <2>2, <2>3
<1>6. /\ v \in NodeState /\ v.tail = u.tail /\ v.phase = u.phase
      /\ v.config = u.config /\ v.content = u.content
  BY <1>4 DEF StatusSet, SameBut
<1>7. Shrinks(t, v)
  BY <1>5 DEF Shrinks, Serves, Connecting
<1>8. Clean(v)
  BY <1>5 DEF Clean, Serves, Connecting
<1>9. Evident(v)
  BY <1>5 DEF Evident, Serves, Connecting
<1>10. Judged(v)
  BY <1>5 DEF Judged, Serves, Connecting
<1>11. QED
  BY <1>2, <1>6, <1>7, <1>8, <1>9, <1>10 DEF Serves, Connecting

-----------------------------------------------------------------------------
(* The path of a block on a path is the rest of that path.                   *)
LEMMA SameWalk ==
  ASSUME NEW t \in NodeState, NEW s \in Ref, NEW m \in Nat, m + 1 \in DOMAIN Path(t, s)
  PROVE  LET p == Path(t, s)
             q == Path(t, p[m + 1])
         IN  \A i \in DOMAIN q : m + i \in DOMAIN p => q[i] = p[m + i]
<1> DEFINE p == Path(t, s)
           q == Path(t, p[m + 1])
           Good == {i \in 0 .. Len(q) : i # 0 /\ m + i \in DOMAIN p => q[i] = p[m + i]}
<1>1. PathFacts(t, s, p) /\ p[m + 1] \in Ref
  <2>1. PathFacts(t, s, p)
    BY PathElements
  <2> HIDE DEF p
  <2>2. QED
    BY <2>1 DEF PathFacts, p
<1>2. PathFacts(t, p[m + 1], q)
  BY <1>1, PathElements
<1> HIDE DEF p, q
<1>3. /\ Len(p) \in Nat /\ DOMAIN p = 1 .. Len(p)
      /\ Len(q) \in Nat /\ DOMAIN q = 1 .. Len(q) /\ q[1] = p[m + 1]
  BY <1>1, <1>2 DEF PathFacts
<1>4. 0 \in Good
  BY <1>3
<1>5. ASSUME NEW i \in 1 .. Len(q), i - 1 \in Good PROVE i \in Good
  <2>1. CASE i = 1
    BY <1>3, <2>1
  <2>2. CASE i # 1
    <3> SUFFICES ASSUME m + i \in DOMAIN p PROVE q[i] = p[m + i]
      BY <1>3
    <3>1. i \in 2 .. Len(q) /\ m + i \in 2 .. Len(p) /\ m + i - 1 \in DOMAIN p
      BY <1>3, <2>2
    <3>2. q[i] = t.blocks[q[i - 1]].parent /\ p[m + i] = t.blocks[p[m + i - 1]].parent
      BY <1>1, <1>2, <3>1 DEF PathFacts
    <3>3. q[i - 1] = p[m + (i - 1)] /\ m + (i - 1) = m + i - 1
      BY <1>3, <1>5, <2>2, <3>1
    <3>4. QED
      BY <3>2, <3>3
  <2>3. QED
    BY <2>1, <2>2
<1> HIDE DEF Good
<1>6. 0 .. Len(q) \subseteq Good
  BY <1>3, <1>4, <1>5, UpTo
<1>7. \A i \in DOMAIN q : m + i \in DOMAIN p => q[i] = p[m + i]
  BY <1>3, <1>6 DEF Good
<1>8. QED
  BY <1>7 DEF p, q

Bests == [slot : Ref, value : Nat, hash : Nat]

(* A turn of the side-branch driver: the tree and the best head so far.      *)
Turns(t) == [t : Connecting(t), best : Bests]

(* The best head so far is a block and a value.                              *)
LEMMA ConsiderIn ==
  ASSUME NEW t \in NodeState, NEW best, NEW s
  PROVE  \/ Consider(t, best, s) = best
         \/ Consider(t, best, s) \in Bests /\ Consider(t, best, s).hash \in Block
<1> DEFINE rank == [slot |-> s, value |-> t.heads[HeadOf(t, s)].value, hash |-> HashAt(t, s)]
<1>1. Consider(t, best, s) = best \/ (ValuedHead(t, s) /\ Consider(t, best, s) = rank)
  BY DEF Consider
<1>2. ValuedHead(t, s) => rank \in Bests /\ rank.hash \in Block
  <2> SUFFICES ASSUME ValuedHead(t, s) PROVE rank \in Bests /\ rank.hash \in Block
    OBVIOUS
  <2>1. s \in Ref /\ HashAt(t, s) \in Block /\ HashAt(t, s) \in Nat
    BY RetainedBlock, HeaderNumbers DEF ValuedHead
  <2>2. t.heads[HeadOf(t, s)].value \in Nat
    BY HeadOfIn DEF ValuedHead, NodeState, ChainHeadEntry
  <2>3. QED
    BY <2>1, <2>2 DEF Bests
<1> HIDE DEF rank
<1>3. QED
  BY <1>1, <1>2

(* A valued head is considered.                                              *)
LEMMA ValuedTurns ==
  ASSUME NEW t, t.config = "Locked", NEW v \in Connecting(t), NEW best \in Bests,
         NEW u \in NodeState, NEW tip, Occupied(u, tip), Occupied(u, u.active)
  PROVE  Considered(Valued(v, u, tip), best, tip) \in Turns(t)
<1> DEFINE n == SideValue(u, tip, 0)
           w == Valued(v, u, tip)
           b == IF Occupied(w, tip) THEN Consider(w, best, tip) ELSE best
<1>1. n \in Nat
  BY SideValueNat
<1>2. Reduces(v, w)
  BY <1>1, ReducesSelf, SetBranchValueReduces DEF Valued, Connecting, Serves
<1>3. w \in Connecting(t)
  BY <1>2, ConnectingOn
<1>4. b \in Bests
  BY <1>3, ConsiderIn DEF Connecting, Serves
<1>5. Considered(w, best, tip) = [t |-> w, best |-> b]
  BY DEF Considered
<1> HIDE DEF w, b
<1>6. QED
  BY <1>3, <1>4, <1>5 DEF Turns, w

(* One side head: connected and valued, or the evidence on it deleted.       *)
LEMMA ConnectOneTurns ==
  ASSUME NEW t, t.config = "Locked", NEW u \in Connecting(t), NEW best \in Bests,
         NEW s \in Slot, u.blocks[s].status = "Stored", NEW unread, Walkable(u, s, unread)
  PROVE  ConnectOne(u, best, BranchPart(u, s)) \in Turns(t)
<1> DEFINE path == Path(u, s)
           ci == ConnectionIndex(u, path)
           part == BranchPart(u, s)
           refused == Refused(u, part)
<1>1. u \in NodeState /\ s \in Ref /\ Judged(u)
  BY Numbers DEF Connecting, Serves
<1>2. PathFacts(u, s, path)
  BY <1>1, PathElements
<1>3. BranchFacts(u, path, part)
  BY <1>1, ConnectionIn DEF Walkable
<1>4. ConnectOne(u, best, part) = ConnectPart(u, best, part, refused)
  BY DEF ConnectOne
<1>5. \A i \in DOMAIN part :
        u.blocks[part[i]].status = "Stored" /\ i \notin refused =>
          HashAt(u, part[i]) \notin BadContext
  BY DEF Refused
<1>6. refused \subseteq DOMAIN part
  BY DEF Refused
<1> HIDE DEF path, part, refused
<1>7. /\ Len(path) \in Nat /\ DOMAIN path = 1 .. Len(path) /\ path[1] = s
      /\ ci \in 1 .. Len(path) /\ u.blocks[path[ci]].status # "Stored"
      /\ DOMAIN part = 1 .. (ci - 1) /\ \A j \in DOMAIN part : part[j] = path[j]
  <2>1. path[ci] \in Slot
    BY <1>2, <1>3 DEF PathFacts, BranchFacts
  <2>2. u.blocks[path[ci]].onActive
    BY <1>3 DEF BranchFacts
  <2>3. u.blocks[path[ci]].status # "Stored"
    BY <1>1, <2>1, <2>2 DEF Judged
  <2>4. QED
    BY <1>2, <1>3, <2>3 DEF PathFacts, BranchFacts
<1> HIDE DEF ci
<1>8. ci # 1 /\ 2 \in 2 .. Len(path)
  BY <1>7
<1>9. Occupied(u, s) /\ \A i \in DOMAIN path : Occupied(u, path[i])
  BY <1>2, <1>8 DEF PathFacts
<1>10. Occupied(u, u.active)
  <2>1. Occupied(u, path[ci])
    BY <1>7, <1>9
  <2>2. QED
    BY <1>1, <2>1, WalkableAnchored DEF path, ci
<1>11. CASE refused = {}
  <2>1. part[1] = s
    BY <1>7, <1>8
  <2>2. ASSUME NEW i \in StoredRun(u, path) PROVE HashAt(u, path[i]) \notin BadContext
    <3>1. i \in DOMAIN path /\ \A j \in 1 .. i : u.blocks[path[j]].status = "Stored"
      BY <2>2 DEF StoredRun
    <3>2. ci \notin 1 .. i
      BY <1>7, <3>1
    <3>3. i \in DOMAIN part /\ part[i] = path[i] /\ i \in 1 .. i
      BY <1>7, <3>1, <3>2
    <3>4. QED
      BY <1>5, <1>11, <3>1, <3>3
  <2>3. MarkConnected(u, s) \in Connecting(t)
    BY <1>1, <2>2, MarkConnectedConnecting DEF path
  <2>4. ConnectPart(u, best, part, refused) = Considered(Valued(MarkConnected(u, s), u, s), best, s)
    BY <1>11, <2>1 DEF ConnectPart
  <2>5. QED
    BY <1>1, <1>4, <1>9, <1>10, <2>3, <2>4, ValuedTurns DEF part
<1>12. CASE refused # {}
  <2> DEFINE m == Max(refused)
             root == part[m]
             tip == u.blocks[root].parent
             q == Path(u, tip)
             v == MarkConnected(u, tip)
             w == DeleteSubtree(v, root)
  <2>1. ConnectPart(u, best, part, refused) = Considered(Valued(w, u, tip), best, tip)
    BY <1>12 DEF ConnectPart, ConnectBelow
  <2>2. m \in refused /\ \A i \in refused : i <= m
    BY <1>6, <1>7, <1>12, MaxOfUpTo
  <2> HIDE DEF m
  <2>3. /\ m \in 1 .. (ci - 1) /\ m \in Nat /\ m + 1 \in 2 .. Len(path) /\ m + 1 \in DOMAIN path
        /\ root = path[m]
    BY <1>6, <1>7, <2>2
  <2>4. tip = path[m + 1]
    <3>1. path[m + 1] = u.blocks[path[m + 1 - 1]].parent /\ m + 1 - 1 = m
      BY <1>2, <2>3 DEF PathFacts
    <3>2. QED
      BY <2>3, <3>1
  <2>5. Occupied(u, tip) /\ tip \in Ref
    BY <1>1, <1>9, <2>3, <2>4, RetainedBlock
  <2> HIDE DEF root, tip
  <2>6. \A i \in DOMAIN q : m + i \in DOMAIN path => q[i] = path[m + i]
    BY <1>1, <2>3, <2>4, SameWalk DEF path
  <2>7. Len(q) \in Nat /\ DOMAIN q = 1 .. Len(q)
    BY <1>1, <2>5, PathElements DEF PathFacts
  <2> HIDE DEF q
  <2>8. ASSUME NEW i \in StoredRun(u, q) PROVE HashAt(u, q[i]) \notin BadContext
    <3>1. i \in DOMAIN q /\ \A j \in 1 .. i : u.blocks[q[j]].status = "Stored"
      BY <2>8 DEF StoredRun
    <3>2. CASE ci - m \in 1 .. i
      <4>1. ci - m \in DOMAIN q /\ m + (ci - m) = ci /\ ci \in DOMAIN path
        BY <1>7, <2>3, <2>7, <3>1, <3>2
      <4>2. q[ci - m] = path[ci]
        BY <2>6, <4>1
      <4>3. QED
        BY <1>7, <3>1, <3>2, <4>2
    <3>3. CASE ci - m \notin 1 .. i
      <4>1. /\ m + i \in DOMAIN part /\ m + i \in DOMAIN path /\ ~(m + i <= m) /\ i \in 1 .. i
        BY <1>7, <2>3, <2>7, <3>1, <3>3
      <4>2. q[i] = part[m + i] /\ m + i \notin refused
        BY <1>7, <2>2, <2>6, <3>1, <4>1
      <4>3. QED
        BY <1>5, <3>1, <4>1, <4>2
    <3>4. QED
      BY <3>2, <3>3
  <2>9. v \in Connecting(t)
    BY <1>1, <2>5, <2>8, MarkConnectedConnecting DEF q
  <2> HIDE DEF v
  <2>10. Reduces(v, w)
    BY <2>9, DeleteSubtreeReduces DEF Connecting, Serves
  <2>11. w \in Connecting(t)
    BY <2>9, <2>10, ConnectingOn
  <2> HIDE DEF w
  <2>12. QED
    BY <1>1, <1>4, <1>10, <2>1, <2>5, <2>11, ValuedTurns DEF part
<1>13. QED
  BY <1>11, <1>12

(* One turn of the driver.                                                   *)
LEMMA ConnectNextTurns ==
  ASSUME NEW t, t.config = "Locked", NEW r \in Turns(t), NEW unread
  PROVE  ConnectNext(r, ConnectableHeads(r.t, unread)) \in Turns(t)
<1> DEFINE ready == ConnectableHeads(r.t, unread)
           k == Min(ready)
           s == r.t.heads[k].head
<1>1. r.t \in Connecting(t) /\ r.best \in Bests /\ r.t \in NodeState
  BY DEF Turns, Connecting, Serves
<1>2. CASE ready = {}
  BY <1>2 DEF ConnectNext
<1>3. CASE ready # {}
  <2>1. ready \subseteq Nat
    BY Numbers DEF ConnectableHeads, Tracked
  <2>2. k \in ready
    BY <1>3, <2>1, MinOf
  <2>3. /\ k \in Branch /\ s # NoRef /\ r.t.blocks[s].status = "Stored"
        /\ Walkable(r.t, s, unread)
    BY <2>2 DEF ConnectableHeads, Tracked, PendingSideHead
  <2>4. s \in Slot
    BY <1>1, <2>3, Numbers DEF NodeState, ChainHeadEntry
  <2>5. ConnectNext(r, ready) = ConnectOne(r.t, r.best, BranchPart(r.t, s))
    BY <1>3 DEF ConnectNext
  <2> HIDE DEF ready, k, s
  <2>6. QED
    BY <1>1, <2>3, <2>4, <2>5, ConnectOneTurns DEF ready
<1>4. QED
  BY <1>2, <1>3

(* The side-branch driver is a run of its step,                             *)
(* in whatever set the step stays in.                                       *)
LEMMA ConnectAllRuns ==
  ASSUME NEW T, NEW r \in T, NEW unread,
         \A u \in T, k \in Slot : ConnectNext(u, ConnectableHeads(u.t, unread)) \in T
  PROVE  /\ ConnectAll(r, unread) \in T
         /\ \E g \in [T \X Slot -> T] :
              /\ \A u \in T, k \in Slot : g[<<u, k>>] = ConnectNext(u, ConnectableHeads(u.t, unread))
              /\ HasRun(MaxBlocks, T, r, g, ConnectAll(r, unread))
<1> DEFINE n == MaxBlocks
           seq == InSlotOrder
           Step(u, k) == ConnectNext(u, ConnectableHeads(u.t, unread))
           g == [p \in T \X (1 .. n) |-> Step(p[1], p[2])]
           Eq(h) == h = [s \in SUBSET (DOMAIN seq) |->
                          IF s = {} THEN r ELSE Step(h[s \ {Max(s)}], seq[Max(s)])]
           iter == CHOOSE h : Eq(h)
<1>1. ConnectAll(r, unread) = iter[DOMAIN seq]
  BY DEF ConnectAll, FoldLeft, MapThenFoldSet
<1>2. n \in Nat /\ DOMAIN seq = 1 .. n /\ \A k \in 1 .. n : seq[k] = k
  BY BlockAssumption DEF InSlotOrder, Slot
<1>3. Slot = 1 .. n /\ \A u \in T, k \in 1 .. n : Step(u, k) \in T
  BY DEF Slot
<1> HIDE DEF seq, n, Step
<1>4. g \in [T \X (1 .. n) -> T] /\ \A u \in T, k \in 1 .. n : g[<<u, k>>] = Step(u, k)
  BY <1>3
<1> HIDE DEF g
<1>5. \A s \in SUBSET (1 .. n) : s # {} => Max(s) \in 1 .. n
  BY <1>2, TopOf
<1>6. PICK h \in [SUBSET (1 .. n) -> T] : FoldsUp(h, n, T, r, g)
  BY <1>2, <1>4, FoldUpExists, Zenon
<1>7. ASSUME NEW s \in SUBSET (1 .. n), s # {}
      PROVE  h[s] = Step(h[s \ {Max(s)}], seq[Max(s)])
  <2>1. Max(s) \in 1 .. n /\ h[s \ {Max(s)}] \in T
    BY <1>5, <1>7
  <2>2. h[s] = g[<<h[s \ {Max(s)}], Max(s)>>]
    BY <1>6, <1>7, <2>1 DEF FoldsUp
  <2>3. QED
    BY <1>2, <1>4, <2>1, <2>2
<1>8. Eq(h)
  BY <1>2, <1>6, <1>7 DEF FoldsUp
<1> HIDE DEF Eq
<1>9. Eq(iter)
  BY <1>8
<1> HIDE DEF iter
<1>10. FoldsUp(iter, n, T, r, g)
  <2>1. iter[{}] = r
    BY <1>2, <1>9 DEF Eq
  <2>2. ASSUME NEW s \in SUBSET (1 .. n), s # {}, iter[s \ {Max(s)}] \in T
        PROVE  iter[s] = g[<<iter[s \ {Max(s)}], Max(s)>>]
    <3>1. Max(s) \in 1 .. n /\ iter[s] = Step(iter[s \ {Max(s)}], seq[Max(s)])
      BY <1>2, <1>5, <1>9, <2>2 DEF Eq
    <3>2. QED
      BY <1>2, <1>4, <2>2, <3>1
  <2>3. QED
    BY <2>1, <2>2 DEF FoldsUp
<1>11. HasRun(n, T, r, g, ConnectAll(r, unread))
  <2>1. HasRun(n, T, r, g, iter[1 .. n])
    BY <1>2, <1>4, <1>10, FoldRunExists, Zenon
  <2>2. QED
    BY <1>1, <1>2, <2>1
<1>12. ConnectAll(r, unread) \in T
  BY <1>2, <1>11, RunEnds
<1>13. QED
  BY <1>3, <1>4, <1>11, <1>12 DEF n, Step

(* All the turns.                                                            *)
LEMMA ConnectAllTurns ==
  ASSUME NEW t, t.config = "Locked", NEW r \in Turns(t), NEW unread
  PROVE  ConnectAll(r, unread) \in Turns(t)
<1> DEFINE T == Turns(t)
<1>1. \A u \in T, k \in Slot : ConnectNext(u, ConnectableHeads(u.t, unread)) \in T
  <2> SUFFICES ASSUME NEW q \in T, NEW k \in Slot PROVE ConnectNext(q, ConnectableHeads(q.t, unread)) \in T
    OBVIOUS
  <2>1. QED
    BY ConnectNextTurns
<1>2. r \in T
  OBVIOUS
<1> HIDE DEF T
<1>3. ConnectAll(r, unread) \in T
  BY <1>1, <1>2, ConnectAllRuns
<1>4. QED
  BY <1>3 DEF T

(* connect_side_branches keeps a Ready node what it was.                     *)
LEMMA ConnectSideBranchesServes ==
  ASSUME NEW t, t.config = "Locked", NEW u \in Serves(t), NEW unread
  PROVE  ConnectSideBranches(u, unread).t \in Serves(t)
<1> DEFINE r == [t |-> u, best |-> NoBest]
<1>1. CASE u.tail = NoRef
  BY <1>1 DEF ConnectSideBranches
<1>2. CASE u.tail # NoRef
  <2>1. u \in Connecting(t)
    BY <1>2 DEF Connecting, Serves
  <2>2. NoBest \in Bests
    BY Numbers DEF NoBest, Bests, NoHash
  <2>3. r \in Turns(t)
    BY <2>1, <2>2 DEF Turns
  <2>4. ConnectSideBranches(u, unread) = ConnectAll(r, unread)
    BY <1>2 DEF ConnectSideBranches
  <2> HIDE DEF r
  <2>5. ConnectAll(r, unread) \in Turns(t)
    BY <2>3, ConnectAllTurns
  <2>6. QED
    BY <2>4, <2>5 DEF Turns, Connecting
<1>3. QED
  BY <1>1, <1>2

(* The switch decision names a block or none.                                *)
LEMMA SwitchTargetIn ==
  ASSUME NEW t \in NodeState, NEW x, NEW best
  PROVE  SwitchTarget(t, x, best) \in Block \union {NoHash}
<1> DEFINE first == Consider(t, NoBest, x)
           final == IF best = NoBest THEN first ELSE Consider(t, first, best.slot)
<1>1. first = NoBest \/ first.hash \in Block
  BY ConsiderIn
<1>2. final = NoBest \/ final.hash \in Block
  BY <1>1, ConsiderIn
<1>3. SwitchTarget(t, x, best) \in {NoHash, final.hash}
      /\ (final = NoBest => SwitchTarget(t, x, best) = NoHash)
  BY DEF SwitchTarget
<1> HIDE DEF final
<1>4. QED
  BY <1>2, <1>3

-----------------------------------------------------------------------------
(* While the node collects, only a genesis block is on the chain.            *)
Rooted(t) == \A s \in Slot : t.blocks[s].onActive => BlockSeq[t.blocks[s].hash] = 0

(* The blocks of the active chain fit the configuration in hand.             *)
ChainFits(t) ==
  \A s \in Slot : t.blocks[s].onActive =>
    ~Oversized(t, t.blocks[s].hash) /\ ~Mismatches(t, t.blocks[s].hash)

(* Every retained block fits it, those spared by a failed read aside.        *)
AllFit(t, spared) ==
  \A s \in Slot : t.blocks[s].hash # NoHash =>
    /\ ~Oversized(t, t.blocks[s].hash)
    /\ Mismatches(t, t.blocks[s].hash) => t.blocks[s].hash \in spared

(* A configuration is held exactly if there is a content.                    *)
ConfigHeld(t) == t.content = NoContent <=> t.config = "None"

(* What an acquisition that ends without a chain may turn t into.            *)
Gathers(t) ==
  {u \in NodeState : /\ Shrinks(t, u) /\ Clean(u) /\ Evident(u) /\ Rooted(u)
                     /\ u.phase = "Collecting" /\ ConfigHeld(u)
                     /\ t.config = "Locked" <=> u.config = "Locked"
                     /\ t.config = "Locked" => u.content = t.content}

(* What one that ends with a chain may turn t into: the chain is judged and  *)
(* fits, the configuration is locked, and the whole tree fits a lock that is *)
(* new.                                                                      *)
Acquires(t, spared) ==
  {u \in NodeState : /\ Shrinks(t, u) /\ Clean(u) /\ Evident(u) /\ Judged(u) /\ ChainFits(u)
                     /\ u.phase = "Ready" /\ ConfigHeld(u) /\ u.config = "Locked"
                     /\ t.config = "Locked" => u.content = t.content
                     /\ t.config # "Locked" => AllFit(u, spared)}

(* A reduction keeps a collecting tree rooted.                               *)
LEMMA RootedOn ==
  ASSUME NEW t, NEW u, Rooted(t), Reduces(t, u)
  PROVE  Rooted(u)
BY DEF Rooted, Reduces

(* And a configuration held or dropped as one.                               *)
LEMMA ConfigHeldOn ==
  ASSUME NEW t, NEW u, ConfigHeld(t), Reduces(t, u)
  PROVE  ConfigHeld(u)
BY DEF ConfigHeld, Reduces

(* Reductions of a collecting tree.                                          *)
LEMMA GathersOn ==
  ASSUME NEW t, NEW u \in Gathers(t), NEW v, Reduces(u, v)
  PROVE  v \in Gathers(t)
<1>1. Shrinks(t, v)
  BY ShrinksOn DEF Gathers
<1>2. Clean(v) /\ Evident(v) /\ Rooted(v) /\ ConfigHeld(v)
  BY CleanOn, EvidentOn, RootedOn, ConfigHeldOn DEF Gathers
<1>3. /\ v \in NodeState /\ v.phase = "Collecting"
      /\ u.config = "Locked" <=> v.config = "Locked"
      /\ u.config = "Locked" => v.content = u.content
  BY DEF Reduces, Gathers
<1>4. QED
  BY <1>1, <1>2, <1>3 DEF Gathers

(* Unwinding the marks of a failed pass leaves a collecting tree.            *)
LEMMA UnwindGathers ==
  ASSUME NEW t, NEW u \in Gathers(t)
  PROVE  Unwind(u) \in Gathers(t)
<1> DEFINE v == SetStatus(u, Slot, "Stored")
           w == SetOnActive(v, Slot, FALSE)
           S == {s \in Retained(u) : SeqAt(u, s) = 0}
           g == LowestOf(S)
           x == SetOnActive(w, {g}, TRUE)
           z == [x EXCEPT !.active = g, !.tail = NoRef, !.value = 0]
<1>1. u \in NodeState /\ "Stored" \in Statuses /\ TRUE \in BOOLEAN /\ FALSE \in BOOLEAN
  BY DEF Gathers, Statuses
<1>2. Unwind(u) = z
  BY DEF Unwind, AnchorAt, AllStored
<1>3. g \in Ref /\ (g # NoRef => BlockSeq[u.blocks[g].hash] = 0)
  <2>1. S \subseteq Slot /\ \A s \in S : BlockSeq[u.blocks[s].hash] = 0
    BY DEF Retained, SeqAt
  <2> HIDE DEF S
  <2>2. QED
    BY <2>1, LowestIn, Numbers
<1>4. StatusSet(u, v, Slot, "Stored")
  BY <1>1, SetStatusSets
<1>5. v \in NodeState
  BY <1>4 DEF StatusSet, SameBut
<1> HIDE DEF v, g
<1>6. OnActiveSet(v, w, Slot, FALSE)
  BY <1>1, <1>5, SetOnActiveSets
<1>7. w \in NodeState
  BY <1>6 DEF OnActiveSet, SameBut
<1> HIDE DEF w
<1>8. OnActiveSet(w, x, {g}, TRUE)
  BY <1>1, <1>7, SetOnActiveSets
<1>9. x \in NodeState
  BY <1>8 DEF OnActiveSet, SameBut
<1> HIDE DEF x
<1>10. /\ z \in NodeState /\ z.blocks = x.blocks /\ z.phase = u.phase
       /\ z.config = u.config /\ z.content = u.content
  <2>1. /\ z \in NodeState /\ z.blocks = x.blocks /\ z.phase = x.phase
        /\ z.config = x.config /\ z.content = x.content
    BY <1>3, <1>9, Numbers DEF NodeState
  <2>2. /\ x.phase = u.phase /\ x.config = u.config /\ x.content = u.content
    BY <1>4, <1>6, <1>8 DEF StatusSet, OnActiveSet, SameBut
  <2> HIDE DEF z
  <2>3. QED
    BY <2>1, <2>2
<1> HIDE DEF z
<1>11. ASSUME NEW s \in Slot
       PROVE  /\ z.blocks[s].hash = u.blocks[s].hash
              /\ z.blocks[s].hash # NoHash => z.blocks[s].status = "Stored"
              /\ z.blocks[s].onActive => s = g /\ z.blocks[s].hash # NoHash
  <2>1. /\ v.blocks[s].hash = u.blocks[s].hash /\ v.blocks[s].onActive = u.blocks[s].onActive
        /\ w.blocks[s].hash = v.blocks[s].hash /\ x.blocks[s].hash = w.blocks[s].hash
    BY <1>4, <1>6, <1>8 DEF StatusSet, OnActiveSet, SameBut
  <2>2. z.blocks[s].hash # NoHash => z.blocks[s].status = "Stored"
    BY <1>4, <1>6, <1>8, <1>10, <2>1 DEF StatusSet, OnActiveSet, Occupied
  <2>3. ~w.blocks[s].onActive
    <3>1. CASE Occupied(v, s)
      BY <1>6, <3>1 DEF OnActiveSet
    <3>2. CASE ~Occupied(v, s)
      <4>1. w.blocks[s].onActive = v.blocks[s].onActive
        BY <1>6, <3>2 DEF OnActiveSet
      <4>2. QED
        BY <2>1, <3>2, <4>1 DEF Gathers, Clean, Occupied
    <3>3. QED
      BY <3>1, <3>2
  <2>4. (s = g /\ Occupied(w, s)) \/ x.blocks[s].onActive = w.blocks[s].onActive
    BY <1>8 DEF OnActiveSet
  <2>5. QED
    BY <1>10, <2>1, <2>2, <2>3, <2>4 DEF Occupied
<1>12. Shrinks(t, z)
  BY <1>11 DEF Shrinks, Gathers
<1>13. Clean(z) /\ Evident(z)
  BY <1>11 DEF Clean, Evident
<1>14. Rooted(z)
  <2> SUFFICES ASSUME NEW s \in Slot, z.blocks[s].onActive PROVE BlockSeq[z.blocks[s].hash] = 0
    BY DEF Rooted
  <2>1. s = g /\ g # NoRef /\ z.blocks[s].hash = u.blocks[s].hash
    BY <1>11, Numbers
  <2>2. QED
    BY <1>3, <2>1
<1>15. QED
  BY <1>2, <1>10, <1>12, <1>13, <1>14 DEF Gathers, ConfigHeld

(* recover_from_failed_pass leaves one, with or without a deletion.          *)
LEMMA RecoverGathers ==
  ASSUME NEW t, NEW u \in Gathers(t), NEW target
  PROVE  RecoverFromFailedPass(u, target) \in Gathers(t)
<1> DEFINE deleted == MarkSubtree(u, target)
           v == ForgetTentative(DeleteBlocks(u, deleted), deleted)
           w == Unwind(v)
           x == OnBlocksDeleted(w, deleted, u.blocks[target].parent)
           y == RecoverWithout(u, deleted, u.blocks[target].parent)
<1>1. y \in {Unwind(u), x}
  BY DEF RecoverWithout
<1>2. u \in NodeState
  BY DEF Gathers
<1>3. Reduces(u, v)
  <2> DEFINE d == DeleteBlocks(u, deleted)
  <2>1. Reduces(u, d) /\ d \in NodeState
    BY <1>2, DeleteBlocksReduces DEF Reduces
  <2> HIDE DEF d
  <2>2. Reduces(d, ForgetTentative(d, deleted))
    BY <2>1, SubtreeInTree, ForgetTentativeReduces
  <2>3. QED
    BY <2>1, <2>2, ReducesOn DEF d
<1> HIDE DEF v
<1>4. w \in Gathers(t)
  BY <1>3, GathersOn, UnwindGathers
<1> HIDE DEF w
<1>5. Reduces(w, x)
  BY <1>4, OnBlocksDeletedReduces DEF Gathers
<1>6. y \in Gathers(t)
  BY <1>1, <1>4, <1>5, GathersOn, UnwindGathers
<1>7. RecoverFromFailedPass(u, target) = [y EXCEPT !.phase = "Collecting"]
  BY DEF RecoverFromFailedPass
<1> HIDE DEF y
<1>8. [y EXCEPT !.phase = "Collecting"] = y
  BY <1>6 DEF Gathers, NodeState
<1>9. QED
  BY <1>6, <1>7, <1>8

(* A configuration block carries a configuration.                            *)
LEMMA ContentOfConfig ==
  ASSUME NEW b \in Block, Kind[b] = "ChainConfig"
  PROVE  Content[b] # NoContent /\ Content[b] \in Configuration
BY ChainAssumption DEF Configuration

(* Adopting the configuration of the candidate leaves a collecting tree.     *)
LEMMA AdoptGathers ==
  ASSUME NEW t, NEW u \in Gathers(t), u.config = "Tentative", NEW tip,
         NEW s, Occupied(u, s), Kind[HashAt(u, s)] = "ChainConfig"
  PROVE  AdoptConfig(u, tip, s) \in Gathers(t)
<1> DEFINE c == Content[HashAt(u, s)]
           v == [u EXCEPT !.content = c, !.tentative = s]
<1>1. u \in NodeState /\ s \in Ref /\ c # NoContent /\ c \in Configuration
  BY RetainedBlock, ContentOfConfig DEF Gathers
<1>2. AdoptConfig(u, tip, s) \in {v, DeleteSubtree(v, u.tentative)}
  BY DEF AdoptConfig
<1> HIDE DEF c
<1>3. /\ v \in NodeState /\ v.blocks = u.blocks /\ v.phase = u.phase /\ v.config = u.config
      /\ v.content = c
  BY <1>1 DEF NodeState
<1> HIDE DEF v
<1>4. Shrinks(t, v) /\ Clean(v) /\ Evident(v) /\ Rooted(v)
  BY <1>3 DEF Gathers, Shrinks, Clean, Evident, Rooted
<1>5. v \in Gathers(t)
  BY <1>1, <1>3, <1>4 DEF Gathers, ConfigHeld
<1>6. Reduces(v, DeleteSubtree(v, u.tentative))
  BY <1>3, DeleteSubtreeReduces
<1>7. QED
  BY <1>2, <1>5, <1>6, GathersOn

-----------------------------------------------------------------------------
(* The candidate is retained, and there is a configuration block on its      *)
(* path.                                                                     *)
LEMMA CandidateIn ==
  ASSUME NEW t \in NodeState, Distinct(t), Candidate(t) # NoRef
  PROVE  Occupied(t, Candidate(t)) /\ FirstConfig(t, Candidate(t)) # NoRef
<1> DEFINE tips == {t.heads[k].head : k \in StoppingHeads(t)}
           before(s, r) == \/ SeqAt(t, s) > SeqAt(t, r)
                           \/ SeqAt(t, s) = SeqAt(t, r) /\ HashAt(t, s) < HashAt(t, r)
           R == {p \in tips \X tips : before(p[1], p[2])}
<1>1. \A s \in tips : Occupied(t, s) /\ FirstConfig(t, s) # NoRef
  BY DEF StoppingHeads
<1>2. Candidate(t) = IF tips = {} THEN NoRef
                     ELSE CHOOSE s \in tips : \A r \in tips \ {s} : before(s, r)
  BY DEF Candidate
<1>3. \A c, d \in tips : <<c, d>> \in R <=> before(c, d)
  OBVIOUS
<1> HIDE DEF tips, R
<1>4. /\ tips \subseteq Slot
      /\ \A s \in tips : SeqAt(t, s) \in Nat /\ HashAt(t, s) \in Nat
  BY <1>1, RetainedBlock, HeaderNumbers DEF SeqAt
<1>5. \A c, d \in tips : c # d => HashAt(t, c) # HashAt(t, d)
  BY <1>1 DEF Distinct, HashAt, Occupied
<1>6. \A c, d \in tips : c # d => <<c, d>> \in R \/ <<d, c>> \in R
  BY <1>3, <1>4, <1>5
<1>7. \A c, d, e \in tips : <<c, d>> \in R /\ <<d, e>> \in R => <<c, e>> \in R
  <2> SUFFICES ASSUME NEW c \in tips, NEW d \in tips, NEW e \in tips, before(c, d), before(d, e)
               PROVE  before(c, e)
    BY <1>3
  <2>1. QED
    BY <1>4
<1>8. Ranks(R, tips)
  BY <1>6, <1>7 DEF Ranks
<1>9. tips # {}
  BY <1>2
<1>10. \E s \in tips : \A r \in tips \ {s} : before(s, r)
  <2>1. MaxBlocks \in Nat /\ tips \subseteq 1 .. MaxBlocks
    BY <1>4, BlockAssumption DEF Slot
  <2>2. \E s \in tips : \A r \in tips \ {s} : <<s, r>> \in R
    BY <1>8, <1>9, <2>1, FirstRanked, Zenon
  <2>3. QED
    BY <1>3, <2>2
<1>11. Candidate(t) \in tips
  BY <1>2, <1>9, <1>10
<1>12. QED
  BY <1>1, <1>11

(* A pass over the path finds nothing against any block of it.               *)
Passes(t, path) ==
  \A i \in DOMAIN path : HashAt(t, path[i]) \notin BadVotes /\ ~Condemned(t, HashAt(t, path[i]))

(* The pass stops at a block of the path, or finds nothing.                  *)
LEMMA StopsPassFacts ==
  ASSUME NEW t \in NodeState, ConfigHeld(t), NEW s, Occupied(t, s), FirstConfig(t, s) # NoRef,
         NEW unread
  PROVE  LET path == Path(t, s)
             i == StopsPass(t, path, unread)
         IN  /\ i # 0 => i \in DOMAIN path
             /\ i = 0 => Passes(t, path) /\ t.config # "None"
<1> DEFINE path == Path(t, s)
           stops == {i \in DOMAIN path : \/ HashAt(t, path[i]) \in unread \union BadVotes
                                         \/ Condemned(t, HashAt(t, path[i]))}
           configs == {i \in DOMAIN path : Kind[HashAt(t, path[i])] = "ChainConfig"}
           config == CHOOSE i \in DOMAIN path : path[i] = FirstConfig(t, s)
<1>1. s \in Ref
  BY RetainedBlock
<1>2. PathFacts(t, s, path)
  BY <1>1, PathElements
<1>3. configs # {} /\ FirstConfig(t, s) = path[Max(configs)]
  BY DEF FirstConfig
<1>4. path[1] = s
  BY <1>2 DEF PathFacts
<1>5. StopsPass(t, path, unread) =
        IF stops = {} THEN 0
        ELSE IF HashAt(t, path[config]) \in unread \/ Mismatches(t, HashAt(t, path[config]))
             THEN config ELSE Max(stops)
  BY <1>4 DEF StopsPass
<1> HIDE DEF path
<1>6. DOMAIN path = 1 .. Len(path) /\ Len(path) \in Nat
  BY <1>2 DEF PathFacts
<1>7. Max(configs) \in configs
  BY <1>3, <1>6, MaxOfUpTo
<1>8. config \in DOMAIN path
  BY <1>3, <1>7
<1>9. stops # {} => Max(stops) \in DOMAIN path
  BY <1>6, MaxOfUpTo
<1> HIDE DEF config
<1>10. StopsPass(t, path, unread) # 0 => StopsPass(t, path, unread) \in DOMAIN path
  BY <1>5, <1>8, <1>9
<1>11. ASSUME StopsPass(t, path, unread) = 0 PROVE Passes(t, path) /\ t.config # "None"
  <2>1. stops = {}
    BY <1>5, <1>6, <1>8, <1>9, <1>11
  <2>2. Passes(t, path)
    BY <2>1 DEF Passes
  <2>3. ASSUME t.config = "None" PROVE FALSE
    <3> DEFINE b == HashAt(t, path[Max(configs)])
    <3>1. b \in Block /\ Kind[b] = "ChainConfig" /\ Max(configs) \in DOMAIN path
      BY <1>2, <1>7, RetainedBlock DEF PathFacts
    <3>2. Content[b] # t.content
      BY <2>3, <3>1, ContentOfConfig DEF ConfigHeld
    <3>3. Condemned(t, b)
      BY <3>1, <3>2 DEF Condemned, Mismatches
    <3>4. QED
      BY <2>1, <3>1, <3>3
  <2>4. QED
    BY <2>2, <2>3
<1>12. QED
  BY <1>10, <1>11 DEF path

-----------------------------------------------------------------------------
(* A block the locked configuration would admit.                             *)
FitBlock(t, b) ==
  b \notin BadBlock \union BadVotes /\ ~Mismatches(t, b) /\ ~Oversized(t, b)

(* A Ready tree on configuration c, its chain judged and fitting.            *)
ReadyOn(t, c) ==
  {u \in NodeState : /\ Shrinks(t, u) /\ Clean(u) /\ Evident(u) /\ Judged(u) /\ ChainFits(u)
                     /\ u.phase = "Ready" /\ u.config = "Locked" /\ u.content = c}

(* A reduction keeps a fitting chain.                                        *)
LEMMA ChainFitsOn ==
  ASSUME NEW t, NEW u, ChainFits(t), Reduces(t, u), t.config = "Locked"
  PROVE  ChainFits(u)
BY DEF ChainFits, Reduces, Mismatches, Oversized

(* Promoting a candidate that passed gives a Ready tree: the old flags are   *)
(* cleared, the path is Active and on the chain, the window cut.             *)
LEMMA BecomeReadyHolds ==
  ASSUME NEW t, NEW u \in NodeState, Shrinks(t, u), Clean(u), Evident(u), u.config = "Locked",
         NEW path, path[1] \in Ref,
         \A r \in Range(path) : Occupied(u, r) /\ FitBlock(u, HashAt(u, r))
  PROVE  BecomeReady(u, path) \in ReadyOn(t, u.content)
<1> DEFINE S == Range(path)
           a == SetOnActive(u, Slot, FALSE)
           b == SetStatus(a, S, "Active")
           c == SetOnActive(b, S, TRUE)
           d == [c EXCEPT !.active = path[1]]
           root == Last(Path(d, d.active))
           e == [d EXCEPT !.tail = root]
           f == WindowFrom(d, root)
           value == WindowValue(u, path)
           w == [[f EXCEPT !.value = value] EXCEPT !.phase = "Ready"]
<1>1. BecomeReady(u, path) = w
  BY DEF BecomeReady, PromoteCandidate, EstablishWindow
<1>2. S \subseteq Retained(u)
  BY DEF Retained, Occupied
<1>3. value \in Nat
  BY <1>2, SumVotesNat DEF WindowValue
<1>4. \A r \in S : Occupied(u, r) /\ FitBlock(u, u.blocks[r].hash)
  BY DEF HashAt
<1> HIDE DEF S, value
<1>5. TRUE \in BOOLEAN /\ FALSE \in BOOLEAN /\ "Active" \in Statuses
  BY DEF Statuses
<1>6. OnActiveSet(u, a, Slot, FALSE)
  BY <1>5, SetOnActiveSets
<1>7. a \in NodeState
  BY <1>6 DEF OnActiveSet, SameBut
<1> HIDE DEF a
<1>8. StatusSet(a, b, S, "Active")
  BY <1>5, <1>7, SetStatusSets
<1>9. b \in NodeState
  BY <1>8 DEF StatusSet, SameBut
<1> HIDE DEF b
<1>10. OnActiveSet(b, c, S, TRUE)
  BY <1>5, <1>9, SetOnActiveSets
<1>11. c \in NodeState
  BY <1>10 DEF OnActiveSet, SameBut
<1> HIDE DEF c
<1>12. /\ d \in NodeState /\ d.blocks = c.blocks /\ d.phase = c.phase
       /\ d.config = c.config /\ d.content = c.content
  BY <1>11 DEF NodeState
<1> HIDE DEF d
<1>13. root \in Ref
  <2> DEFINE q == Path(d, d.active)
  <2>1. d.active \in Ref
    BY <1>12 DEF NodeState
  <2>2. PathFacts(d, d.active, q)
    BY <1>12, <2>1, PathElements
  <2>3. root = q[Len(q)]
    BY DEF root, Last
  <2> HIDE DEF q
  <2>4. QED
    BY <2>2, <2>3 DEF PathFacts
<1> HIDE DEF root
<1>14. Reduces(e, f)
  BY <1>12, <1>13, WindowFromReduces
<1>15. e.blocks = c.blocks /\ e.config = u.config /\ e.content = u.content
  <2>1. e.blocks = d.blocks /\ e.config = d.config /\ e.content = d.content
    BY <1>12 DEF NodeState
  <2>2. c.config = u.config /\ c.content = u.content
    BY <1>6, <1>8, <1>10 DEF OnActiveSet, StatusSet, SameBut
  <2> HIDE DEF e
  <2>3. QED
    BY <1>12, <2>1, <2>2
<1> HIDE DEF e
<1>16. ASSUME NEW r \in Slot
       PROVE  /\ e.blocks[r].hash = u.blocks[r].hash
              /\ e.blocks[r].onActive => r \in S /\ e.blocks[r].status = "Active"
              /\ r \notin S => e.blocks[r].status = u.blocks[r].status
  <2>1. /\ a.blocks[r].hash = u.blocks[r].hash /\ b.blocks[r].hash = u.blocks[r].hash
        /\ c.blocks[r].hash = u.blocks[r].hash
    BY <1>6, <1>8, <1>10 DEF OnActiveSet, StatusSet, SameBut
  <2>2. ~a.blocks[r].onActive
    <3>1. CASE Occupied(u, r)
      BY <1>6, <3>1 DEF OnActiveSet
    <3>2. CASE ~Occupied(u, r)
      <4>1. a.blocks[r].onActive = u.blocks[r].onActive
        BY <1>6, <3>2 DEF OnActiveSet
      <4>2. QED
        BY <3>2, <4>1 DEF Clean, Occupied
    <3>3. QED
      BY <3>1, <3>2
  <2>3. b.blocks[r].onActive = a.blocks[r].onActive
    BY <1>8 DEF StatusSet
  <2>4. r \in S \/ c.blocks[r].onActive = b.blocks[r].onActive
    BY <1>10 DEF OnActiveSet
  <2>5. c.blocks[r].status = b.blocks[r].status /\ a.blocks[r].status = u.blocks[r].status
    BY <1>6, <1>10 DEF OnActiveSet
  <2>6. r \in S => b.blocks[r].status = "Active"
    BY <1>4, <1>8, <2>1 DEF StatusSet, Occupied
  <2>7. r \notin S => b.blocks[r].status = a.blocks[r].status
    BY <1>8 DEF StatusSet
  <2>8. QED
    BY <1>15, <2>1, <2>2, <2>3, <2>4, <2>5, <2>6, <2>7
<1>17. Shrinks(t, e)
  BY <1>16 DEF Shrinks
<1>18. Clean(e)
  BY <1>4, <1>16 DEF Clean, Occupied
<1>19. Evident(e)
  <2> SUFFICES ASSUME NEW r \in Slot, e.blocks[r].hash # NoHash
               PROVE  /\ e.blocks[r].status = "Active" =>
                           e.blocks[r].hash \notin BadBlock \union BadVotes
                      /\ e.blocks[r].status = "Connected" => e.blocks[r].hash \notin BadContext
    BY DEF Evident
  <2>1. CASE r \in S
    <3>1. u.blocks[r].hash \notin BadBlock \union BadVotes /\ BadContext \subseteq BadBlock
      BY <1>4, <2>1, ChainAssumption DEF FitBlock
    <3>2. QED
      BY <1>16, <3>1
  <2>2. CASE r \notin S
    BY <1>16, <2>2 DEF Evident
  <2>3. QED
    BY <2>1, <2>2
<1>20. Judged(e)
  BY <1>16 DEF Judged
<1>21. ChainFits(e)
  <2> SUFFICES ASSUME NEW r \in Slot, e.blocks[r].onActive
               PROVE  ~Oversized(e, e.blocks[r].hash) /\ ~Mismatches(e, e.blocks[r].hash)
    BY DEF ChainFits
  <2>1. FitBlock(u, e.blocks[r].hash)
    BY <1>4, <1>16
  <2>2. QED
    BY <1>15, <2>1 DEF FitBlock, Oversized, Mismatches
<1>22. /\ f \in NodeState /\ f.config = "Locked" /\ f.content = u.content
       /\ Shrinks(t, f) /\ Clean(f) /\ Evident(f) /\ Judged(f) /\ ChainFits(f)
  <2>1. f \in NodeState /\ f.config = "Locked" /\ f.content = u.content
    BY <1>14, <1>15 DEF Reduces
  <2>2. Shrinks(t, f) /\ Clean(f) /\ Evident(f) /\ Judged(f) /\ ChainFits(f)
    BY <1>14, <1>15, <1>17, <1>18, <1>19, <1>20, <1>21,
       ShrinksOn, CleanOn, EvidentOn, JudgedOn, ChainFitsOn
  <2>3. QED
    BY <2>1, <2>2
<1> HIDE DEF f
<1>23. /\ w \in NodeState /\ w.blocks = f.blocks /\ w.phase = "Ready" /\ w.config = f.config
       /\ w.content = f.content
  BY <1>3, <1>22 DEF NodeState, Phases
<1> HIDE DEF w
<1>24. Shrinks(t, w) /\ Clean(w) /\ Evident(w) /\ Judged(w) /\ ChainFits(w)
  BY <1>22, <1>23
     DEF Shrinks, Clean, Evident, Judged, ChainFits, Oversized, Mismatches
<1>25. QED
  BY <1>1, <1>22, <1>23, <1>24 DEF ReadyOn

(* The clean-ups after the lock are a reduction.                             *)
LEMMA ApplyLockReduces ==
  ASSUME NEW t \in NodeState, NEW unread
  PROVE  Reduces(t, ApplyLock(t, unread))
<1> DEFINE u == DropEach(t, Mismatching(t, unread))
<1>1. Reduces(t, u) /\ u \in NodeState
  BY DropEachDrops DEF Reduces
<1> HIDE DEF u
<1>2. Reduces(u, DropEach(u, OversizedBlocks(u)))
  BY <1>1, DropEachDrops
<1>3. QED
  BY <1>1, <1>2, ReducesOn DEF ApplyLock, DropOversized, u

(* After them every retained block fits: a misfit off the chain was a root   *)
(* of one of the two rounds of deletion, and the chain fits already.         *)
LEMMA ApplyLockFits ==
  ASSUME NEW v \in NodeState, v.config = "Locked", ChainFits(v), NEW unread
  PROVE  Reduces(v, ApplyLock(v, unread)) /\ AllFit(ApplyLock(v, unread), unread)
<1> DEFINE M == Mismatching(v, unread)
           x == DropEach(v, M)
           O == OversizedBlocks(x)
           y == DropEach(x, O)
<1>1. ApplyLock(v, unread) = y
  BY DEF ApplyLock, DropOversized
<1>2. Reduces(v, x) /\ \A s \in M : s \in Slot => ~Occupied(x, s)
  BY DropEachDrops
<1>3. \A s \in Slot : /\ v.blocks[s].hash # NoHash /\ ~v.blocks[s].onActive
                      /\ v.blocks[s].hash \notin unread /\ Mismatches(v, v.blocks[s].hash)
                      => s \in M
  BY DEF Mismatching, OffChain, Retained, HashAt
<1> HIDE DEF M, x
<1>4. x \in NodeState
  BY <1>2 DEF Reduces
<1>5. Reduces(x, y) /\ \A s \in O : s \in Slot => ~Occupied(y, s)
  BY <1>4, DropEachDrops
<1>6. \A s \in Slot : /\ x.blocks[s].hash # NoHash /\ ~x.blocks[s].onActive
                      /\ Oversized(x, x.blocks[s].hash)
                      => s \in O
  BY DEF OversizedBlocks, OffChain, Retained, HashAt
<1> HIDE DEF O, y
<1>7. Reduces(v, y)
  BY <1>2, <1>5, ReducesOn
<1>8. x.content = v.content /\ y.content = v.content
  BY <1>2, <1>7 DEF Reduces
<1>9. ASSUME NEW s \in Slot, y.blocks[s].hash # NoHash
      PROVE  /\ ~Oversized(y, y.blocks[s].hash)
             /\ Mismatches(y, y.blocks[s].hash) => y.blocks[s].hash \in unread
  <2>1. /\ x.blocks[s].hash = y.blocks[s].hash /\ v.blocks[s].hash = y.blocks[s].hash
        /\ x.blocks[s].onActive = v.blocks[s].onActive
    BY <1>2, <1>5, <1>7, <1>9 DEF Reduces
  <2>2. Occupied(x, s) /\ Occupied(y, s)
    BY <1>9, <2>1 DEF Occupied
  <2>3. CASE v.blocks[s].onActive
    <3>1. ~Oversized(v, v.blocks[s].hash) /\ ~Mismatches(v, v.blocks[s].hash)
      BY <2>3 DEF ChainFits
    <3>2. QED
      BY <1>8, <2>1, <3>1 DEF Oversized, Mismatches
  <2>4. CASE ~v.blocks[s].onActive
    <3>1. s \notin M /\ s \notin O
      BY <1>2, <1>5, <2>2
    <3>2. v.blocks[s].hash \in unread \/ ~Mismatches(v, v.blocks[s].hash)
      BY <1>3, <1>9, <2>1, <2>4, <3>1
    <3>3. ~Oversized(x, x.blocks[s].hash)
      BY <1>6, <1>9, <2>1, <2>4, <3>1
    <3>4. QED
      BY <1>8, <2>1, <3>2, <3>3 DEF Oversized, Mismatches
  <2>5. QED
    BY <2>3, <2>4
<1>10. QED
  BY <1>1, <1>7, <1>9 DEF AllFit

(* A Ready tree is acquired, if it fits a lock taken now.                    *)
LEMMA ReadyAcquires ==
  ASSUME NEW t, NEW spared, NEW c \in Configuration, t.config = "Locked" => c = t.content,
         NEW u \in ReadyOn(t, c), t.config # "Locked" => AllFit(u, spared)
  PROVE  u \in Acquires(t, spared)
<1>1. c # NoContent
  BY DEF Configuration
<1>2. ConfigHeld(u)
  BY <1>1 DEF ReadyOn, ConfigHeld
<1>3. QED
  BY <1>2 DEF ReadyOn, Acquires

(* The clean-ups make it fit.                                                *)
LEMMA LockAcquires ==
  ASSUME NEW t, t.config # "Locked", NEW c, NEW u \in ReadyOn(t, c), c \in Configuration,
         NEW unread, NEW spared, unread \subseteq spared
  PROVE  ApplyLock(u, unread) \in Acquires(t, spared)
<1> DEFINE w == ApplyLock(u, unread)
<1>1. /\ u \in NodeState /\ u.config = "Locked" /\ u.phase = "Ready" /\ u.content = c
      /\ Shrinks(t, u) /\ Clean(u) /\ Evident(u) /\ Judged(u) /\ ChainFits(u)
  BY DEF ReadyOn
<1>2. Reduces(u, w) /\ AllFit(w, unread)
  BY <1>1, ApplyLockFits
<1> HIDE DEF w
<1>3. w \in NodeState /\ w.config = "Locked" /\ w.content = c /\ w.phase = "Ready"
  BY <1>1, <1>2 DEF Reduces
<1>4. Shrinks(t, w) /\ Clean(w) /\ Evident(w) /\ Judged(w) /\ ChainFits(w)
  BY <1>1, <1>2, ShrinksOn, CleanOn, EvidentOn, JudgedOn, ChainFitsOn
<1>5. AllFit(w, spared)
  BY <1>2 DEF AllFit
<1>6. w \in ReadyOn(t, c)
  BY <1>3, <1>4 DEF ReadyOn
<1>7. QED
  BY <1>5, <1>6, ReadyAcquires DEF w

(* A pass that succeeded: a chain, a failed write, or an oversized block     *)
(* deleted.                                                                  *)
LEMMA PassSucceededHolds ==
  ASSUME NEW t, NEW u \in Gathers(t), u.config # "None", NEW s, Occupied(u, s),
         Passes(u, Path(u, s)), NEW unread, NEW spared, unread \subseteq spared, NEW lockFails
  PROVE  PassSucceeded(u, Path(u, s), unread, lockFails) \in Gathers(t) \union Acquires(t, spared)
<1> DEFINE path == Path(u, s)
           oversized == {i \in DOMAIN path : Oversized(u, HashAt(u, path[i]))}
           l == LockConfig(u)
<1>1. u \in NodeState /\ Shrinks(t, u) /\ Clean(u) /\ Evident(u) /\ ConfigHeld(u)
  BY DEF Gathers
<1>2. u.content \in Configuration
  BY <1>1 DEF ConfigHeld, NodeState
<1>3. path[1] \in Ref /\ \A i \in DOMAIN path : Occupied(u, path[i])
  <2>1. PathFacts(u, s, path)
    BY <1>1, RetainedBlock, PathElements
  <2> HIDE DEF path
  <2>2. QED
    BY <2>1, RetainedBlock DEF PathFacts
<1>4. PassSucceeded(u, path, unread, lockFails) =
        IF u.config = "Locked" THEN BecomeReady(u, path)
        ELSE IF oversized # {} THEN RecoverFromFailedPass(u, path[Max(oversized)])
        ELSE IF lockFails THEN u ELSE ApplyLock(BecomeReady(l, path), unread)
  BY DEF PassSucceeded
<1>5. \A i \in DOMAIN path : HashAt(u, path[i]) \notin BadVotes
                             /\ ~Condemned(u, HashAt(u, path[i]))
  BY DEF Passes
<1> HIDE DEF path
<1>6. CASE u.config = "Locked"
  <2>1. \A r \in Range(path) : Occupied(u, r) /\ FitBlock(u, HashAt(u, r))
    <3> SUFFICES ASSUME NEW i \in DOMAIN path
                 PROVE  Occupied(u, path[i]) /\ FitBlock(u, HashAt(u, path[i]))
      BY DEF Range
    <3>1. QED
      BY <1>3, <1>5, <1>6 DEF Condemned, FitBlock
  <2>2. BecomeReady(u, path) \in ReadyOn(t, u.content)
    BY <1>1, <1>3, <1>6, <2>1, BecomeReadyHolds
  <2>3. t.config = "Locked" /\ u.content = t.content
    BY <1>6 DEF Gathers
  <2>4. BecomeReady(u, path) \in Acquires(t, spared)
    BY <1>2, <2>2, <2>3, ReadyAcquires
  <2>5. QED
    BY <1>4, <1>6, <2>4 DEF path
<1>7. CASE u.config # "Locked" /\ oversized # {}
  BY <1>4, <1>7, RecoverGathers DEF path
<1>8. CASE u.config # "Locked" /\ oversized = {}
  <2>1. /\ l \in NodeState /\ l.blocks = u.blocks /\ l.config = "Locked" /\ l.content = u.content
    BY <1>1, Numbers DEF LockConfig, NodeState
  <2>2. \A i \in DOMAIN path : ~Oversized(u, HashAt(u, path[i]))
    BY <1>8
  <2> HIDE DEF l, oversized
  <2>3. Shrinks(t, l) /\ Clean(l) /\ Evident(l)
    BY <1>1, <2>1 DEF Shrinks, Clean, Evident
  <2>4. \A r \in Range(path) : Occupied(l, r) /\ FitBlock(l, HashAt(l, r))
    <3> SUFFICES ASSUME NEW i \in DOMAIN path
                 PROVE  Occupied(l, path[i]) /\ FitBlock(l, HashAt(l, path[i]))
      BY DEF Range
    <3>1. Occupied(u, path[i]) /\ HashAt(l, path[i]) = HashAt(u, path[i])
      BY <1>3, <2>1 DEF HashAt
    <3>2. Occupied(l, path[i])
      BY <2>1, <3>1 DEF Occupied
    <3>3. FitBlock(u, HashAt(u, path[i]))
      BY <1>5, <2>2 DEF Condemned, FitBlock
    <3>4. QED
      BY <2>1, <3>1, <3>2, <3>3 DEF FitBlock, Mismatches, Oversized
  <2>5. BecomeReady(l, path) \in ReadyOn(t, u.content)
    BY <1>3, <2>1, <2>3, <2>4, BecomeReadyHolds
  <2>6. t.config # "Locked"
    BY <1>8 DEF Gathers
  <2>7. ApplyLock(BecomeReady(l, path), unread) \in Acquires(t, spared)
    BY <1>2, <2>5, <2>6, LockAcquires
  <2>8. QED
    BY <1>4, <1>8, <2>7 DEF path
<1>9. QED
  BY <1>6, <1>7, <1>8

-----------------------------------------------------------------------------
(* A round of the acquisition that may go on.                                *)
Going(t) == [t : Gathers(t), adopt : BOOLEAN, retry : BOOLEAN, again : BOOLEAN]

(* A round that is over, with a chain or without.                            *)
Ended(t, spared) ==
  [t : Gathers(t) \union Acquires(t, spared), adopt : BOOLEAN, retry : BOOLEAN, again : {FALSE}]

(* A stopped round is over.                                                  *)
LEMMA StoppedEnds ==
  ASSUME NEW t, NEW spared, NEW r \in Going(t), NEW u \in Gathers(t) \union Acquires(t, spared)
  PROVE  Stopped(r, u) \in Ended(t, spared)
BY DEF Stopped, Going, Ended

(* A failed pass goes on collecting, or stops.                               *)
LEMMA FailedPassGoes ==
  ASSUME NEW t, NEW r \in Going(t), NEW u \in Gathers(t), NEW evidence
  PROVE  FailedPass(r, evidence, u) \in Going(t)
<1> DEFINE on == r.retry /\ evidence /\ u.config # "None"
<1>1. on \in BOOLEAN
  OBVIOUS
<1>2. FailedPass(r, evidence, u) = [r EXCEPT !.t = u, !.retry = FALSE, !.again = on]
  BY DEF FailedPass
<1> HIDE DEF on
<1>3. QED
  BY <1>1, <1>2 DEF Going

(* A pass that stopped at a block adopts or recovers.                        *)
LEMMA PassStoppedGoes ==
  ASSUME NEW t, NEW r \in Going(t), NEW tip, NEW path, NEW s, Occupied(r.t, s), NEW unread
  PROVE  PassStopped(r, path, s, unread) \in Going(t)
<1>1. r.t \in Gathers(t)
  BY DEF Going
<1>2. CASE MayAdopt(r, path, s, unread)
  <2>1. AdoptConfig(r.t, path[1], s) \in Gathers(t)
    BY <1>1, <1>2, AdoptGathers DEF MayAdopt, Mismatches
  <2>2. PassStopped(r, path, s, unread)
          = [r EXCEPT !.t = AdoptConfig(r.t, path[1], s), !.adopt = FALSE]
    BY <1>2 DEF PassStopped
  <2>3. QED
    BY <2>1, <2>2 DEF Going
<1>3. CASE ~MayAdopt(r, path, s, unread)
  <2> DEFINE u == RecoverFromFailedPass(r.t, FailureTarget(r.t, path[1], s, unread))
             evidence == HashAt(r.t, s) \notin unread /\ Condemned(r.t, HashAt(r.t, s))
  <2>1. u \in Gathers(t)
    BY <1>1, RecoverGathers
  <2>2. PassStopped(r, path, s, unread) = FailedPass(r, evidence, u)
    BY <1>3 DEF PassStopped
  <2> HIDE DEF u, evidence
  <2>3. QED
    BY <2>1, <2>2, FailedPassGoes
<1>4. QED
  BY <1>2, <1>3

(* One candidate.                                                            *)
LEMMA AttemptHolds ==
  ASSUME NEW t, Distinct(t), NEW spared, NEW unread, unread \subseteq spared, NEW lockFails,
         NEW r \in Going(t) \union Ended(t, spared)
  PROVE  Attempt(r, unread, lockFails) \in Going(t) \union Ended(t, spared)
<1> DEFINE u == r.t
           c == Candidate(u)
           path == Path(u, c)
           i == StopsPass(u, path, unread)
<1>1. CASE ~r.again
  BY <1>1 DEF Attempt
<1>2. CASE r.again
  <2>1. r \in Going(t)
    BY <1>2 DEF Ended
  <2>2. u \in Gathers(t) /\ u \in NodeState /\ ConfigHeld(u) /\ Shrinks(t, u)
    BY <2>1 DEF Going, Gathers
  <2>3. Distinct(u)
    BY <2>2, DistinctOn
  <2>4. CASE c = NoRef
    BY <1>2, <2>1, <2>2, <2>4, StoppedEnds DEF Attempt
  <2>5. CASE c # NoRef
    <3>1. Occupied(u, c) /\ FirstConfig(u, c) # NoRef
      BY <2>2, <2>3, <2>5, CandidateIn
    <3>2. /\ i # 0 => i \in DOMAIN path
          /\ i = 0 => Passes(u, path) /\ u.config # "None"
      BY <2>2, <3>1, StopsPassFacts
    <3>3. \A j \in DOMAIN path : Occupied(u, path[j])
      <4>1. PathFacts(u, c, path)
        BY <2>2, <3>1, RetainedBlock, PathElements
      <4> HIDE DEF path
      <4>2. QED
        BY <3>1, <4>1 DEF PathFacts
    <3>4. Attempt(r, unread, lockFails) =
            IF i = 0 THEN Stopped(r, PassSucceeded(u, path, unread, lockFails))
            ELSE PassStopped(r, path, path[i], unread)
      BY <1>2, <2>5 DEF Attempt, RunPass, PassResult
    <3>5. CASE i = 0
      <4>1. PassSucceeded(u, path, unread, lockFails) \in Gathers(t) \union Acquires(t, spared)
        BY <2>2, <3>1, <3>2, <3>5, PassSucceededHolds
      <4>2. Stopped(r, PassSucceeded(u, path, unread, lockFails)) \in Ended(t, spared)
        BY <2>1, <4>1, StoppedEnds
      <4>3. QED
        BY <3>4, <3>5, <4>2
    <3>6. CASE i # 0
      <4>1. Occupied(u, path[i])
        BY <3>2, <3>3, <3>6
      <4> HIDE DEF path, i
      <4>2. PassStopped(r, path, path[i], unread) \in Going(t)
        BY <2>1, <4>1, PassStoppedGoes
      <4>3. QED
        BY <3>4, <3>6, <4>2
    <3>7. QED
      BY <3>5, <3>6
  <2>6. QED
    BY <2>4, <2>5
<1>3. QED
  BY <1>1, <1>2

(* The acquisition loop is a run of its step,                               *)
(* in whatever set the step stays in.                                       *)
LEMMA AttemptEachRuns ==
  ASSUME NEW T, NEW r \in T, NEW unread, NEW lockFails,
         \A u \in T, k \in 1 .. 3 : Attempt(u, unread, lockFails) \in T
  PROVE  /\ AttemptEach(r, unread, lockFails) \in T
         /\ \E g \in [T \X (1 .. 3) -> T] :
              /\ \A u \in T, k \in 1 .. 3 : g[<<u, k>>] = Attempt(u, unread, lockFails)
              /\ HasRun(3, T, r, g, AttemptEach(r, unread, lockFails))
<1> DEFINE n == 3
           seq == <<1, 2, 3>>
           Step(u, k) == Attempt(u, unread, lockFails)
           g == [p \in T \X (1 .. n) |-> Step(p[1], p[2])]
           Eq(h) == h = [s \in SUBSET (DOMAIN seq) |->
                          IF s = {} THEN r ELSE Step(h[s \ {Max(s)}], seq[Max(s)])]
           iter == CHOOSE h : Eq(h)
<1>1. AttemptEach(r, unread, lockFails) = iter[DOMAIN seq]
  BY DEF AttemptEach, FoldLeft, MapThenFoldSet
<1>2. n \in Nat /\ DOMAIN seq = 1 .. n /\ \A k \in 1 .. n : seq[k] = k
  OBVIOUS
<1>3. 1 .. 3 = 1 .. n /\ \A u \in T, k \in 1 .. n : Step(u, k) \in T
  OBVIOUS
<1> HIDE DEF seq, n, Step
<1>4. g \in [T \X (1 .. n) -> T] /\ \A u \in T, k \in 1 .. n : g[<<u, k>>] = Step(u, k)
  BY <1>3
<1> HIDE DEF g
<1>5. \A s \in SUBSET (1 .. n) : s # {} => Max(s) \in 1 .. n
  BY <1>2, TopOf
<1>6. PICK h \in [SUBSET (1 .. n) -> T] : FoldsUp(h, n, T, r, g)
  BY <1>2, <1>4, FoldUpExists, Zenon
<1>7. ASSUME NEW s \in SUBSET (1 .. n), s # {}
      PROVE  h[s] = Step(h[s \ {Max(s)}], seq[Max(s)])
  <2>1. Max(s) \in 1 .. n /\ h[s \ {Max(s)}] \in T
    BY <1>5, <1>7
  <2>2. h[s] = g[<<h[s \ {Max(s)}], Max(s)>>]
    BY <1>6, <1>7, <2>1 DEF FoldsUp
  <2>3. QED
    BY <1>2, <1>4, <2>1, <2>2
<1>8. Eq(h)
  BY <1>2, <1>6, <1>7 DEF FoldsUp
<1> HIDE DEF Eq
<1>9. Eq(iter)
  BY <1>8
<1> HIDE DEF iter
<1>10. FoldsUp(iter, n, T, r, g)
  <2>1. iter[{}] = r
    BY <1>2, <1>9 DEF Eq
  <2>2. ASSUME NEW s \in SUBSET (1 .. n), s # {}, iter[s \ {Max(s)}] \in T
        PROVE  iter[s] = g[<<iter[s \ {Max(s)}], Max(s)>>]
    <3>1. Max(s) \in 1 .. n /\ iter[s] = Step(iter[s \ {Max(s)}], seq[Max(s)])
      BY <1>2, <1>5, <1>9, <2>2 DEF Eq
    <3>2. QED
      BY <1>2, <1>4, <2>2, <3>1
  <2>3. QED
    BY <2>1, <2>2 DEF FoldsUp
<1>11. HasRun(n, T, r, g, AttemptEach(r, unread, lockFails))
  <2>1. HasRun(n, T, r, g, iter[1 .. n])
    BY <1>2, <1>4, <1>10, FoldRunExists, Zenon
  <2>2. QED
    BY <1>1, <1>2, <2>1
<1>12. AttemptEach(r, unread, lockFails) \in T
  BY <1>2, <1>11, RunEnds
<1>13. QED
  BY <1>3, <1>4, <1>11, <1>12 DEF n, Step

(* All three.                                                                *)
LEMMA AttemptEachHolds ==
  ASSUME NEW t, Distinct(t), NEW spared, NEW unread, unread \subseteq spared, NEW lockFails,
         NEW r \in Going(t)
  PROVE  AttemptEach(r, unread, lockFails) \in Going(t) \union Ended(t, spared)
<1> DEFINE T == Going(t) \union Ended(t, spared)
<1>1. \A u \in T, k \in 1 .. 3 : Attempt(u, unread, lockFails) \in T
  BY AttemptHolds
<1>2. r \in T
  OBVIOUS
<1> HIDE DEF T
<1>3. AttemptEach(r, unread, lockFails) \in T
  BY <1>1, <1>2, AttemptEachRuns
<1>4. QED
  BY <1>3 DEF T

(* drive_dominant_chain_acquisition: a collecting tree, or a Ready one with  *)
(* a locked configuration; if the lock was taken in this call, every         *)
(* retained block fits it, a block whose read failed aside.                  *)
LEMMA DriveAcquisitionHolds ==
  ASSUME NEW t \in NodeState, Distinct(t), Clean(t), Evident(t), Rooted(t), ConfigHeld(t),
         t.phase = "Collecting", NEW spared, NEW unread, unread \subseteq spared, NEW lockFails
  PROVE  DriveAcquisition(t, unread, lockFails) \in Gathers(t) \union Acquires(t, spared)
<1>1. Shrinks(t, t)
  BY DEF Shrinks
<1>2. t \in Gathers(t)
  BY <1>1 DEF Gathers
<1>3. Rounds(t) \in Going(t)
  BY <1>2 DEF Rounds, Going
<1>4. AttemptEach(Rounds(t), unread, lockFails) \in Going(t) \union Ended(t, spared)
  BY <1>3, AttemptEachHolds
<1>5. QED
  BY <1>4 DEF DriveAcquisition, Going, Ended

(* connect_judged_side_block of a block found good.                          *)
LEMMA ConnectJudgedServes ==
  ASSUME NEW t, t.config = "Locked", NEW u \in Serves(t), NEW x \in Slot,
         Occupied(u, x) => HashAt(u, x) \notin BadContext, NEW p \in Slot, NEW votes \in Nat,
         NEW parentValue, parentValue \subseteq Nat, NEW unread
  PROVE  ConnectJudgedSideBlock(u, x, p, votes, parentValue, unread) \in Serves(t)
<1> DEFINE v == SetStatus(u, {x}, "Connected")
           m == CHOOSE n \in parentValue : TRUE
<1>1. u \in NodeState /\ "Connected" \in Statuses /\ p \in Ref
  BY Numbers DEF Serves, Statuses
<1>2. StatusSet(u, v, {x}, "Connected")
  BY <1>1, SetStatusSets
<1>3. v \in Serves(t)
  <2> HIDE DEF v
  <2>1. Shrinks(t, v)
    BY <1>2 DEF Serves, Shrinks, StatusSet, SameBut
  <2>2. Clean(v)
    BY <1>2 DEF Serves, Clean, StatusSet, SameBut
  <2>3. Evident(v)
    BY <1>2 DEF Serves, Evident, StatusSet, SameBut, HashAt
  <2>4. v.tail # NoRef => Judged(v)
    BY <1>2 DEF Serves, Judged, StatusSet, SameBut
  <2>5. QED
    BY <1>2, <2>1, <2>2, <2>3, <2>4 DEF Serves, StatusSet, SameBut
<1>4. v \in NodeState
  BY <1>3 DEF Serves
<1> HIDE DEF v
<1>5. ASSUME NEW n \in Nat PROVE SetBranchValue(v, x, n) \in Serves(t)
  BY <1>3, <1>4, SetBranchValueReduces, ServesOn
<1>6. parentValue # {} => votes + m \in Nat
  <2>1. parentValue # {} => m \in parentValue
    OBVIOUS
  <2> HIDE DEF m
  <2>2. parentValue # {} => m \in Nat
    BY <2>1
  <2>3. QED
    BY <2>2
<1>7. ASSUME Walkable(u, p, unread) PROVE SideValue(u, p, votes) \in Nat
  <2> DEFINE path == Path(u, p)
             i == ConnectionIndex(u, path)
  <2>1. PathFacts(u, p, path)
    BY <1>1, PathElements
  <2>2. i # NoRef
    BY <1>7 DEF Walkable
  <2> HIDE DEF path
  <2>3. DOMAIN path = 1 .. Len(path) /\ Len(path) \in Nat \ {0}
    BY <2>1 DEF PathFacts
  <2>4. i \in DOMAIN path /\ u.blocks[path[i]].onActive
    <3> DEFINE S == {j \in DOMAIN path : u.blocks[path[j]].onActive}
    <3>1. S \subseteq Nat /\ i = LowestOf(S)
      BY <2>3 DEF ConnectionIndex
    <3> HIDE DEF S
    <3>2. i \in S
      BY <2>2, <3>1, LowestIn
    <3>3. QED
      BY <3>2 DEF S
  <2> HIDE DEF i
  <2>5. \A j \in DOMAIN path : path[j] \in Slot
    BY <2>1 DEF PathFacts
  <2>6. Occupied(u, path[i])
    BY <2>4, <2>5 DEF Serves, Clean, Occupied
  <2>7. Occupied(u, p)
    <3>1. CASE i = 1
      BY <2>1, <2>6, <3>1 DEF PathFacts
    <3>2. CASE i # 1
      <4>1. 2 \in 2 .. Len(path)
        BY <2>3, <2>4, <3>2
      <4>2. Occupied(u, path[1])
        BY <2>1, <4>1 DEF PathFacts
      <4>3. QED
        BY <2>1, <4>2 DEF PathFacts
    <3>3. QED
      BY <3>1, <3>2
  <2>8. Occupied(u, u.active)
    <3>1. p \in Ref /\ LET q == Path(u, p) IN Occupied(u, q[ConnectionIndex(u, q)])
      BY <2>6, Numbers DEF path, i
    <3>2. QED
      BY <1>1, <1>7, <3>1, WalkableAnchored
  <2>9. QED
    BY <1>1, <2>7, <2>8, SideValueNat
<1>8. ConnectJudgedSideBlock(u, x, p, votes, parentValue, unread) =
        IF HeadOf(u, x) = NoRef THEN v
        ELSE IF parentValue # {} THEN SetBranchValue(v, x, votes + m)
        ELSE IF Walkable(u, p, unread) THEN SetBranchValue(v, x, SideValue(u, p, votes))
        ELSE u
  BY DEF ConnectJudgedSideBlock, v
<1> HIDE DEF m
<1>9. QED
  BY <1>3, <1>5, <1>6, <1>7, <1>8
=============================================================================
