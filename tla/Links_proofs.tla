---------------------------- MODULE Links_proofs ----------------------------
(***************************************************************************)
(* Proofs about the tree of module Node: its links, its branch counts and    *)
(* its tip table.  A tree is firm if every link leads to a retained block,   *)
(* no block counts fewer branches than it has children, and every entry of   *)
(* the tip table is a tip of its own (Firm).  Every operation keeps a tree   *)
(* firm, evictions among them; if moreover the counts are exact and every    *)
(* tip is tracked, every operation keeps that too, until a new tip finds no  *)
(* free entry.                                                               *)
(***************************************************************************)
EXTENDS Node_proofs

(* Every parent link leads to a retained block one sequence lower.           *)
Tied(t) ==
  \A s \in Retained(t) : t.blocks[s].parent # NoRef =>
    /\ Occupied(t, t.blocks[s].parent)
    /\ SeqAt(t, s) = SeqAt(t, t.blocks[s].parent) + 1

(* No block counts fewer branches than it has children.                      *)
Covered(t) == \A s \in Retained(t) : Cardinality(Children(t, s)) <= t.blocks[s].refs

(* A tracked tip is a retained block without children that counts a branch,  *)
(* and is tracked once.                                                      *)
Tipped(t) ==
  /\ \A k \in Tracked(t) : /\ Occupied(t, t.heads[k].head)
                           /\ Children(t, t.heads[k].head) = {}
                           /\ t.blocks[t.heads[k].head].refs >= 1
  /\ \A j, k \in Tracked(t) : t.heads[j].head = t.heads[k].head => j = k

(* Every count is exact, and every block without children is tracked, but    *)
(* for the spared ones.                                                      *)
Full(t, spared) ==
  \A s \in Retained(t) :
    /\ t.blocks[s].refs = IF Children(t, s) = {} THEN 1 ELSE Cardinality(Children(t, s))
    /\ Children(t, s) = {} /\ s \notin spared => \E k \in Tracked(t) : t.heads[k].head = s

(* The invariant; f says whether the tip table has never overflowed.         *)
Firm(t, f) == Tied(t) /\ Covered(t) /\ Tipped(t) /\ (f => Full(t, {}))

(* The nodes on which it holds.                                              *)
FirmNodes(f) == {t \in NodeState : Firm(t, f)}

-----------------------------------------------------------------------------
(* The same blocks, links, counts and tips.                                  *)
SameTree(t, u) ==
  /\ \A s \in Slot : /\ u.blocks[s].hash = t.blocks[s].hash
                     /\ u.blocks[s].parent = t.blocks[s].parent
                     /\ u.blocks[s].refs = t.blocks[s].refs
  /\ \A k \in Branch : u.heads[k].head = t.heads[k].head

(* What the tree looks like depends on blocks, links and tips alone.         *)
LEMMA SameTreeSees ==
  ASSUME NEW t, NEW u, SameTree(t, u)
  PROVE  /\ Retained(u) = Retained(t) /\ Tracked(u) = Tracked(t)
         /\ \A s : Occupied(u, s) <=> Occupied(t, s)
         /\ \A s \in Slot : SeqAt(u, s) = SeqAt(t, s)
         /\ \A s : Children(u, s) = Children(t, s)
         /\ \A s : HeadOf(u, s) = HeadOf(t, s)
<1>1. Retained(u) = Retained(t) /\ Tracked(u) = Tracked(t)
  BY DEF SameTree, Retained, Tracked
<1>2. \A s : Occupied(u, s) <=> Occupied(t, s)
  BY DEF SameTree, Occupied
<1>3. \A s \in Slot : SeqAt(u, s) = SeqAt(t, s)
  BY DEF SameTree, SeqAt
<1>4. ASSUME NEW s PROVE Children(u, s) = Children(t, s)
  <2>1. \A c \in Retained(t) : u.blocks[c].parent = t.blocks[c].parent
    BY DEF SameTree, Retained
  <2>2. QED
    BY <1>1, <2>1 DEF Children
<1>5. ASSUME NEW s PROVE HeadOf(u, s) = HeadOf(t, s)
  <2>1. {k \in Tracked(u) : u.heads[k].head = s} = {k \in Tracked(t) : t.heads[k].head = s}
    BY <1>1 DEF SameTree, Tracked
  <2>2. QED
    BY <2>1 DEF HeadOf
<1>6. QED
  BY <1>1, <1>2, <1>3, <1>4, <1>5

(* So do exact counts and tracked tips,                                      *)
LEMMA SameTreeFull ==
  ASSUME NEW t, NEW u, SameTree(t, u), NEW x, Full(t, x)
  PROVE  Full(u, x)
<1>1. /\ Retained(u) = Retained(t) /\ Tracked(u) = Tracked(t)
      /\ \A s : Children(u, s) = Children(t, s)
  BY SameTreeSees
<1>2. \A k \in Tracked(t) : u.heads[k].head = t.heads[k].head
  BY DEF SameTree, Tracked
<1>3. \A s \in Retained(t) : u.blocks[s].refs = t.blocks[s].refs
  BY DEF SameTree, Retained
<1>4. QED
  BY <1>1, <1>2, <1>3 DEF Full

(* and the invariant,                                                        *)
LEMMA SameTreeFirm ==
  ASSUME NEW t, NEW u, SameTree(t, u), NEW f, Firm(t, f)
  PROVE  Firm(u, f)
<1>1. /\ Retained(u) = Retained(t) /\ Tracked(u) = Tracked(t)
      /\ \A s : Occupied(u, s) <=> Occupied(t, s)
      /\ \A s \in Slot : SeqAt(u, s) = SeqAt(t, s)
      /\ \A s : Children(u, s) = Children(t, s)
  BY SameTreeSees
<1>2. \A k \in Tracked(t) : u.heads[k].head = t.heads[k].head
  BY DEF SameTree, Tracked
<1>3. \A s \in Slot : u.blocks[s].refs = t.blocks[s].refs /\ u.blocks[s].parent = t.blocks[s].parent
  BY DEF SameTree, Retained
<1>4. \A s : (s \in Retained(t) => s \in Slot) /\ (Occupied(t, s) => s \in Slot)
  BY DEF Retained, Occupied
<1>5. Tied(u)
  BY <1>1, <1>3, <1>4 DEF Firm, Tied
<1>6. Covered(u)
  BY <1>1, <1>3, <1>4 DEF Firm, Covered
<1>7. Tipped(u)
  BY <1>1, <1>2, <1>3, <1>4 DEF Firm, Tipped
<1>8. f => Full(u, {})
  BY SameTreeFull DEF Firm
<1>9. QED
  BY <1>5, <1>6, <1>7, <1>8 DEF Firm

(* which a step that touches none of them keeps.                             *)
LEMMA FirmOn ==
  ASSUME NEW f, NEW t \in FirmNodes(f), NEW u \in NodeState, SameTree(t, u)
  PROVE  u \in FirmNodes(f)
BY SameTreeFirm DEF FirmNodes

(* Two such steps are one,                                                   *)
LEMMA SameTreeOn ==
  ASSUME NEW t, NEW u, NEW v, SameTree(t, u), SameTree(u, v)
  PROVE  SameTree(t, v)
BY DEF SameTree

(* and so is no step.                                                        *)
LEMMA SameTreeSelf == ASSUME NEW t PROVE SameTree(t, t)
BY DEF SameTree

(* An update of fields other than the two tables.                            *)
LEMMA TablesSame ==
  ASSUME NEW t, NEW u, u.blocks = t.blocks, u.heads = t.heads
  PROVE  SameTree(t, u)
BY DEF SameTree

(* Only caches of one tip. *)
LEMMA RecomputeCachesSame ==
  ASSUME NEW t \in NodeState, NEW k \in Branch, NEW anchor, NEW prev \in Nat
  PROVE  SameTree(t, RecomputeCaches(t, k, anchor, prev))
<1> DEFINE p == Path(t, t.heads[k].head)
           i == ConnectionIndex(t, p)
           m == MissingParent(t, k, Last(p), anchor, prev)
           h == Caches(t.heads[k], p, i, m)
<1>1. t.heads \in [Branch -> ChainHeadEntry]
  BY DEF NodeState
<1>2. h.head = t.heads[k].head
  BY <1>1 DEF Caches, ChainHeadEntry
<1>3. RecomputeCaches(t, k, anchor, prev) = [t EXCEPT !.heads = [t.heads EXCEPT ![k] = h]]
  BY DEF RecomputeCaches, CachesFrom
<1> HIDE DEF h
<1>4. /\ [t EXCEPT !.heads = [t.heads EXCEPT ![k] = h]].blocks = t.blocks
      /\ [t EXCEPT !.heads = [t.heads EXCEPT ![k] = h]].heads = [t.heads EXCEPT ![k] = h]
  BY DEF NodeState
<1>5. \A j \in Branch : [t.heads EXCEPT ![k] = h][j].head = t.heads[j].head
  BY <1>1, <1>2
<1>6. QED
  BY <1>3, <1>4, <1>5 DEF SameTree

(* All entries.                                                              *)
LEMMA RecomputeAllCachesSame ==
  ASSUME NEW t \in NodeState
  PROVE  SameTree(t, RecomputeAllCaches(t)) /\ RecomputeAllCaches(t) \in NodeState
<1> DEFINE T == {u \in NodeState : SameTree(t, u)}
<1>1. \A u \in T, k \in Branch : RecomputeIfTracked(u, k) \in T
  <2> SUFFICES ASSUME NEW u \in T, NEW k \in Branch PROVE RecomputeIfTracked(u, k) \in T
    OBVIOUS
  <2>1. SameTree(u, RecomputeIfTracked(u, k))
    BY RecomputeCachesSame, SameTreeSelf DEF RecomputeIfTracked, NoHash
  <2>2. RecomputeIfTracked(u, k) \in NodeState
    BY RecomputeIfTrackedReduces DEF Reduces
  <2>3. QED
    BY <2>1, <2>2, SameTreeOn
<1>2. t \in T
  BY SameTreeSelf
<1> HIDE DEF T
<1>3. RecomputeAllCaches(t) \in T
  BY <1>1, <1>2, RecomputeAllCachesRuns
<1>4. QED
  BY <1>3 DEF T

(* refresh_waiting_tentative_parent only writes caches,                      *)
LEMMA RefreshWaitingSame ==
  ASSUME NEW t \in NodeState, NEW x, NEW b \in Block
  PROVE  SameTree(t, RefreshWaiting(t, x, b)) /\ RefreshWaiting(t, x, b) \in NodeState
<1> DEFINE T == {u \in NodeState : SameTree(t, u)}
<1>1. \A u \in T, k \in Branch : RefreshIfWaiting(u, k, x, b) \in T
  <2> SUFFICES ASSUME NEW u \in T, NEW k \in Branch PROVE RefreshIfWaiting(u, k, x, b) \in T
    OBVIOUS
  <2>1. SameTree(u, RefreshIfWaiting(u, k, x, b))
    BY RecomputeCachesSame, SameTreeSelf, HeaderNumbers DEF RefreshIfWaiting
  <2>2. RefreshIfWaiting(u, k, x, b) \in NodeState
    BY RefreshIfWaitingReduces DEF Reduces
  <2>3. QED
    BY <2>1, <2>2, SameTreeOn
<1>2. t \in T
  BY SameTreeSelf
<1> HIDE DEF T
<1>3. RefreshWaiting(t, x, b) \in T
  BY <1>1, <1>2, RefreshWaitingRuns
<1>4. QED
  BY <1>3 DEF T

(* and so does the refresh of one head.                                      *)
LEMMA RefreshHeadSame ==
  ASSUME NEW t \in NodeState, NEW s
  PROVE  SameTree(t, RefreshHead(t, s)) /\ RefreshHead(t, s) \in NodeState
<1>1. SameTree(t, RefreshHead(t, s))
  BY HeadOfIn, RecomputeCachesSame, SameTreeSelf DEF RefreshHead, NoHash
<1>2. QED
  BY <1>1, RefreshHeadReduces DEF Reduces

(* A branch value is not part of the tree,                                   *)
LEMMA SetBranchValueSame ==
  ASSUME NEW t \in NodeState, NEW s, NEW v \in Nat
  PROVE  SameTree(t, SetBranchValue(t, s, v)) /\ SetBranchValue(t, s, v) \in NodeState
<1>1. SameTree(t, SetBranchValue(t, s, v))
  BY HeadOfIn DEF SetBranchValue, SameTree, NodeState, ChainHeadEntry
<1>2. QED
  BY <1>1, SetBranchValueReduces DEF Reduces

(* nor is what the moved tail takes from every one of them,                  *)
LEMMA SubtractBranchValueSame ==
  ASSUME NEW t \in NodeState, NEW v \in Nat
  PROVE  SameTree(t, SubtractBranchValue(t, v)) /\ SubtractBranchValue(t, v) \in NodeState
<1>1. SameTree(t, SubtractBranchValue(t, v))
  BY DEF SubtractBranchValue, SameTree, NodeState, ChainHeadEntry
<1>2. QED
  BY <1>1, SubtractBranchValueReduces DEF Reduces

(* nor is the recovery scheduler's table,                                    *)
LEMMA SeedMissingParentsSame ==
  ASSUME NEW t \in NodeState
  PROVE  SameTree(t, SeedMissingParents(t)) /\ SeedMissingParents(t) \in NodeState
<1>1. SameTree(t, SeedMissingParents(t))
  BY DEF SeedMissingParents, SameTree, NodeState, ChainHeadEntry
<1>2. QED
  BY <1>1, SeedMissingParentsReduces DEF Reduces

(* nor is a block's status,                                                  *)
LEMMA SetStatusSame ==
  ASSUME NEW t \in NodeState, NEW S, NEW st \in Statuses
  PROVE  SameTree(t, SetStatus(t, S, st))
BY DEF SetStatus, SameTree, NodeState, BlockEntry

(* nor its place on the active chain,                                        *)
LEMMA SetOnActiveSame ==
  ASSUME NEW t \in NodeState, NEW S, NEW flag \in BOOLEAN
  PROVE  SameTree(t, SetOnActive(t, S, flag))
BY DEF SetOnActive, SameTree, NodeState, BlockEntry

(* nor the active chain's ends,                                              *)
LEMMA ForgetActiveSame ==
  ASSUME NEW t \in NodeState, NEW deleted
  PROVE  SameTree(t, ForgetActive(t, deleted)) /\ ForgetActive(t, deleted) \in NodeState
<1>1. SameTree(t, ForgetActive(t, deleted))
  BY DEF ForgetActive, SameTree, NodeState
<1>2. QED
  BY <1>1, ForgetActiveReduces DEF Reduces

(* nor the tentative parents of the waiting tips.                            *)
LEMMA ForgetTentativeSame ==
  ASSUME NEW t \in NodeState, NEW deleted, NoRef \notin deleted
  PROVE  SameTree(t, ForgetTentative(t, deleted)) /\ ForgetTentative(t, deleted) \in NodeState
<1>1. SameTree(t, ForgetTentative(t, deleted))
  BY DEF ForgetTentative, DiscardTentative, SameTree, NodeState
<1>2. QED
  BY <1>1, ForgetTentativeReduces DEF Reduces

(* The path of a block in such a tree goes one sequence lower at each step,  *)
(* and ends at a block without a parent.                                     *)
LEMMA PathDescends ==
  ASSUME NEW t \in NodeState, Tied(t), NEW s, Occupied(t, s)
  PROVE  LET p == Path(t, s)
         IN  /\ PathFacts(t, s, p)
             /\ \A i \in DOMAIN p : Occupied(t, p[i]) /\ SeqAt(t, s) = SeqAt(t, p[i]) + (i - 1)
             /\ t.blocks[Last(p)].parent = NoRef
<1> DEFINE p == Path(t, s)
<1>1. s \in Ref
  BY RetainedBlock
<1>2. PathFacts(t, s, p)
  BY <1>1, PathElements
<1>3. ~(Len(p) < MaxBlocks /\ Occupied(t, Up(t, Last(p))))
  BY <1>1, PathIsPath
<1> HIDE DEF p
<1>4. /\ Len(p) \in Nat \ {0} /\ DOMAIN p = 1 .. Len(p) /\ p[1] = s /\ Last(p) = p[Len(p)]
      /\ \A i \in DOMAIN p : Occupied(t, p[i])
      /\ \A i \in 2 .. Len(p) : p[i] = t.blocks[p[i - 1]].parent
  BY <1>2 DEF PathFacts
<1>5. \A r : Occupied(t, r) => SeqAt(t, r) \in Nat /\ r \in Slot /\ r \in Retained(t) /\ r # NoRef
  BY RetainedBlock, HeaderNumbers, Numbers DEF SeqAt, Retained, Occupied
<1>6. \A r : Occupied(t, r) /\ t.blocks[r].parent # NoRef =>
        /\ Occupied(t, t.blocks[r].parent)
        /\ SeqAt(t, r) = SeqAt(t, t.blocks[r].parent) + 1
  BY <1>5 DEF Tied
<1>7. \A i \in DOMAIN p : SeqAt(t, s) = SeqAt(t, p[i]) + (i - 1)
  <2> DEFINE Good == {i \in 0 .. Len(p) : i # 0 => SeqAt(t, s) = SeqAt(t, p[i]) + (i - 1)}
  <2>1. 0 \in Good
    BY <1>4
  <2>2. ASSUME NEW i \in 1 .. Len(p), i - 1 \in Good PROVE i \in Good
    <3>1. CASE i = 1
      BY <1>4, <1>5, <3>1
    <3>2. CASE i # 1
      <4>1. i \in 2 .. Len(p) /\ i - 1 \in DOMAIN p /\ i \in DOMAIN p
        BY <1>4, <3>2
      <4>2. SeqAt(t, s) = SeqAt(t, p[i - 1]) + (i - 1 - 1)
        BY <2>2, <4>1, <1>4
      <4>3. SeqAt(t, p[i - 1]) = SeqAt(t, p[i]) + 1
        BY <1>4, <1>5, <1>6, <4>1
      <4>4. SeqAt(t, p[i]) \in Nat /\ SeqAt(t, p[i - 1]) \in Nat /\ i \in 0 .. Len(p)
        BY <1>4, <1>5, <4>1
      <4>5. QED
        BY <4>2, <4>3, <4>4
    <3>3. QED
      BY <3>1, <3>2
  <2> HIDE DEF Good
  <2>3. 0 .. Len(p) \subseteq Good
    BY <1>4, <2>1, <2>2, UpTo
  <2>4. QED
    BY <1>4, <2>3 DEF Good
<1>8. t.blocks[Last(p)].parent = NoRef
  <2> SUFFICES ASSUME t.blocks[Last(p)].parent # NoRef PROVE FALSE
    OBVIOUS
  <2> DEFINE n == Len(p)
             q == t.blocks[p[n]].parent
             e == [i \in 1 .. (n + 1) |-> IF i = n + 1 THEN q ELSE p[i]]
  <2>1. n \in DOMAIN p /\ Occupied(t, p[n]) /\ Occupied(t, q) /\ SeqAt(t, p[n]) = SeqAt(t, q) + 1
    BY <1>4, <1>6
  <2>2. ~(n < MaxBlocks) /\ MaxBlocks \in Nat
    BY <1>3, <1>4, <2>1, BlockAssumption DEF Up
  <2>3. \A i \in 1 .. (n + 1) : e[i] \in Slot /\ SeqAt(t, e[i]) \in Nat
                                /\ SeqAt(t, s) = SeqAt(t, e[i]) + (i - 1)
    <3> SUFFICES ASSUME NEW i \in 1 .. (n + 1)
                 PROVE  e[i] \in Slot /\ SeqAt(t, e[i]) \in Nat
                        /\ SeqAt(t, s) = SeqAt(t, e[i]) + (i - 1)
      OBVIOUS
    <3>1. CASE i = n + 1
      <4>1. SeqAt(t, s) = SeqAt(t, p[n]) + (n - 1)
        BY <1>7, <2>1
      <4>2. SeqAt(t, q) \in Nat /\ SeqAt(t, p[n]) \in Nat /\ q \in Slot
        BY <1>5, <2>1
      <4>3. e[i] = q
        BY <3>1
      <4> HIDE DEF e, q
      <4>4. QED
        BY <1>4, <2>1, <3>1, <4>1, <4>2, <4>3
    <3>2. CASE i # n + 1
      <4>1. i \in DOMAIN p /\ e[i] = p[i]
        BY <1>4, <3>2
      <4> HIDE DEF e
      <4>2. QED
        BY <1>4, <1>5, <1>7, <4>1
    <3>3. QED
      BY <3>1, <3>2
  <2> DEFINE N == 1 .. (n + 1)
  <2>4. e \in [N -> Slot] /\ n \in Nat
    <3>1. \A i \in N : e[i] \in Slot
      BY <2>3
    <3>2. QED
      BY <1>4, <3>1
  <2> HIDE DEF e
  <2>5. /\ IsFiniteSet(N) /\ Cardinality(N) = n + 1
        /\ IsFiniteSet(Slot) /\ Cardinality(Slot) = MaxBlocks
    BY <2>2, <2>4, FS_Interval DEF Slot
  <2>6. Cardinality(Slot) < Cardinality(N)
    BY <2>2, <2>4, <2>5
  <2> HIDE DEF N
  <2>7. \E i, j \in N : i # j /\ e[i] = e[j]
    BY <2>4, <2>5, <2>6, FS_PigeonHole
  <2>8. PICK i \in 1 .. (n + 1), j \in 1 .. (n + 1) : i # j /\ e[i] = e[j]
    BY <2>7 DEF N
  <2>9. QED
    BY <2>3, <2>4, <2>8
<1>9. QED
  BY <1>2, <1>4, <1>7, <1>8 DEF p

(* The ancestry of a block is in every set that holds it and, with a block,  *)
(* its retained parent.                                                      *)
LEMMA AncestryLeast ==
  ASSUME NEW t \in NodeState, NEW s \in Ref, NEW U, s \in U,
         \A x \in U : Occupied(t, x) /\ Occupied(t, t.blocks[x].parent) => t.blocks[x].parent \in U
  PROVE  Ancestry(t, s) \subseteq U
<1> DEFINE p == Path(t, s)
           Good == {i \in 0 .. Len(p) : i # 0 => p[i] \in U}
<1>1. PathFacts(t, s, p)
  BY PathElements
<1> HIDE DEF p
<1>2. Len(p) \in Nat /\ DOMAIN p = 1 .. Len(p) /\ p[1] = s
  BY <1>1 DEF PathFacts
<1>3. \A i \in 2 .. Len(p) : /\ Occupied(t, p[i - 1]) /\ Occupied(t, p[i])
                             /\ p[i] = t.blocks[p[i - 1]].parent
  BY <1>1 DEF PathFacts
<1>4. 0 \in Good
  BY <1>2
<1>5. ASSUME NEW i \in 1 .. Len(p), i - 1 \in Good PROVE i \in Good
  <2>1. CASE i = 1
    BY <1>2, <2>1
  <2>2. CASE i # 1
    <3>1. i \in 2 .. Len(p) /\ p[i - 1] \in U
      BY <1>2, <1>5, <2>2
    <3>2. p[i] \in U
      BY <1>3, <3>1
    <3>3. QED
      BY <1>2, <3>2
  <2>3. QED
    BY <2>1, <2>2
<1> HIDE DEF Good
<1>6. 0 .. Len(p) \subseteq Good
  BY <1>2, <1>4, <1>5, UpTo
<1>7. \A i \in DOMAIN p : p[i] \in U
  BY <1>2, <1>6 DEF Good
<1>8. QED
  BY <1>7 DEF p, Ancestry, Range

(* It is such a set itself, and its other blocks are lower.                  *)
LEMMA AncestryClosed ==
  ASSUME NEW t \in NodeState, Tied(t), NEW s, Occupied(t, s)
  PROVE  /\ s \in Ancestry(t, s)
         /\ \A x \in Ancestry(t, s) :
              /\ Occupied(t, x)
              /\ t.blocks[x].parent # NoRef => t.blocks[x].parent \in Ancestry(t, s)
              /\ x # s => SeqAt(t, x) < SeqAt(t, s)
<1> DEFINE p == Path(t, s)
<1>1. /\ PathFacts(t, s, p)
      /\ \A i \in DOMAIN p : Occupied(t, p[i]) /\ SeqAt(t, s) = SeqAt(t, p[i]) + (i - 1)
      /\ t.blocks[Last(p)].parent = NoRef
  BY PathDescends
<1>2. Ancestry(t, s) = {p[i] : i \in DOMAIN p}
  BY DEF Ancestry, Range
<1> HIDE DEF p
<1>3. /\ Len(p) \in Nat \ {0} /\ DOMAIN p = 1 .. Len(p) /\ p[1] = s /\ Last(p) = p[Len(p)]
      /\ \A i \in 2 .. Len(p) : p[i] = t.blocks[p[i - 1]].parent
  BY <1>1 DEF PathFacts
<1>4. ASSUME NEW i \in DOMAIN p, t.blocks[p[i]].parent # NoRef
      PROVE  t.blocks[p[i]].parent \in Ancestry(t, s)
  <2>1. i # Len(p)
    BY <1>1, <1>3, <1>4
  <2>2. i + 1 \in 2 .. Len(p) /\ i + 1 \in DOMAIN p /\ (i + 1) - 1 = i
    BY <1>3, <2>1
  <2>3. p[i + 1] = t.blocks[p[i]].parent
    BY <1>3, <2>2
  <2>4. QED
    BY <1>2, <2>2, <2>3
<1>5. \A r : Occupied(t, r) => SeqAt(t, r) \in Nat
  BY RetainedBlock, HeaderNumbers DEF SeqAt
<1>6. ASSUME NEW i \in DOMAIN p, p[i] # s PROVE SeqAt(t, p[i]) < SeqAt(t, s)
  <2>1. i # 1 /\ i \in Nat /\ i >= 1
    BY <1>3, <1>6
  <2>2. SeqAt(t, s) = SeqAt(t, p[i]) + (i - 1) /\ SeqAt(t, p[i]) \in Nat
    BY <1>1, <1>5
  <2>3. QED
    BY <2>1, <2>2
<1>7. s \in Ancestry(t, s)
  BY <1>2, <1>3
<1>8. QED
  BY <1>1, <1>2, <1>4, <1>6, <1>7

(* A block's ancestry is the block and the ancestry of its parent.           *)
LEMMA AncestryUp ==
  ASSUME NEW t \in NodeState, Tied(t), NEW s, Occupied(t, s)
  PROVE  /\ t.blocks[s].parent = NoRef => Ancestry(t, s) = {s}
         /\ t.blocks[s].parent # NoRef =>
              Ancestry(t, s) = {s} \union Ancestry(t, t.blocks[s].parent)
<1> DEFINE q == t.blocks[s].parent
<1>1. s \in Ref /\ s \in Retained(t) /\ s \in Slot
  BY RetainedBlock DEF Retained, Occupied
<1>2. s \in Ancestry(t, s) /\ \A x \in Ancestry(t, s) :
        t.blocks[x].parent # NoRef => t.blocks[x].parent \in Ancestry(t, s)
  BY AncestryClosed
<1>3. ~Occupied(t, NoRef)
  BY Numbers DEF Occupied
<1>4. CASE q = NoRef
  <2>1. Ancestry(t, s) \subseteq {s}
    BY <1>1, <1>3, <1>4, AncestryLeast
  <2>2. QED
    BY <1>2, <1>4, <2>1
<1>5. CASE q # NoRef
  <2>1. Occupied(t, q) /\ q \in Ref
    BY <1>1, <1>5, RetainedBlock DEF Tied
  <2>2. q \in Ancestry(t, q) /\ \A x \in Ancestry(t, q) :
          t.blocks[x].parent # NoRef => t.blocks[x].parent \in Ancestry(t, q)
    BY <2>1, AncestryClosed
  <2> DEFINE U == {s} \union Ancestry(t, q)
  <2>3. \A x \in U : Occupied(t, x) /\ Occupied(t, t.blocks[x].parent) => t.blocks[x].parent \in U
    BY <1>3, <2>2
  <2>4. Ancestry(t, s) \subseteq U
    <3>1. s \in U
      OBVIOUS
    <3> HIDE DEF U
    <3>2. QED
      BY <1>1, <2>3, <3>1, AncestryLeast
  <2>5. q \in Ancestry(t, s)
    BY <1>2, <1>5
  <2>6. Ancestry(t, q) \subseteq Ancestry(t, s)
    <3> DEFINE V == Ancestry(t, s)
    <3>1. \A x \in V : Occupied(t, x) /\ Occupied(t, t.blocks[x].parent) => t.blocks[x].parent \in V
      BY <1>2, <1>3
    <3> HIDE DEF V
    <3>2. Ancestry(t, q) \subseteq V
      BY <2>1, <2>5, <3>1, AncestryLeast DEF V
    <3>3. QED
      BY <3>2 DEF V
  <2>7. QED
    BY <1>2, <1>5, <2>4, <2>6
<1>6. QED
  BY <1>4, <1>5

(* A set of blocks that holds, with a block, its children.                   *)
ChildClosed(t, D) == \A c \in Retained(t) : t.blocks[c].parent \in D => c \in D

(* The subtree below a root is child-closed, and hangs together.             *)
LEMMA SubtreeFacts ==
  ASSUME NEW t \in NodeState, Tied(t), NEW root, Occupied(t, root)
  PROVE  LET D == MarkSubtree(t, root)
         IN  /\ D \subseteq Retained(t) /\ root \in D /\ ChildClosed(t, D)
             /\ \A s \in D : s # root => t.blocks[s].parent \in D
             /\ \A s \in D : s # root => SeqAt(t, root) < SeqAt(t, s)
<1> DEFINE D == MarkSubtree(t, root)
<1>1. D = {s \in Retained(t) : root \in Ancestry(t, s)}
  BY DEF MarkSubtree
<1>2. \A s \in Retained(t) : Occupied(t, s)
  BY DEF Retained, Occupied
<1>3. \A s : Occupied(t, s) => s \in Retained(t)
  BY DEF Retained, Occupied
<1>4. root \in D
  BY RootInSubtree
<1> HIDE DEF D
<1>5. ASSUME NEW c \in Retained(t), t.blocks[c].parent \in D PROVE c \in D
  <2>1. Occupied(t, c) /\ t.blocks[c].parent # NoRef
    BY <1>1, <1>2, <1>5, Numbers DEF Retained
  <2>2. root \in Ancestry(t, t.blocks[c].parent)
    BY <1>1, <1>5
  <2>3. root \in Ancestry(t, c)
    BY <2>1, <2>2, AncestryUp
  <2>4. QED
    BY <1>1, <2>3
<1>6. ASSUME NEW s \in D, s # root PROVE t.blocks[s].parent \in D
  <2>1. Occupied(t, s) /\ root \in Ancestry(t, s) /\ s \in Retained(t)
    BY <1>1, <1>2
  <2>2. t.blocks[s].parent # NoRef /\ root \in Ancestry(t, t.blocks[s].parent)
    BY <1>6, <2>1, AncestryUp
  <2>3. t.blocks[s].parent \in Retained(t)
    BY <1>3, <2>1, <2>2 DEF Tied
  <2>4. QED
    BY <1>1, <2>2, <2>3
<1>7. ASSUME NEW s \in D, s # root PROVE SeqAt(t, root) < SeqAt(t, s)
  BY <1>1, <1>2, <1>7, AncestryClosed
<1>8. QED
  BY <1>1, <1>4, <1>5, <1>6, <1>7 DEF D, ChildClosed

(* The same blocks and links.                                                *)
SameLinks(t, u) ==
  \A s \in Slot : /\ u.blocks[s].hash = t.blocks[s].hash
                  /\ u.blocks[s].parent = t.blocks[s].parent

(* What the tree looks like without the counts depends on blocks and links.  *)
LEMMA SameLinksSees ==
  ASSUME NEW t, NEW u, SameLinks(t, u)
  PROVE  /\ Retained(u) = Retained(t)
         /\ \A s : Occupied(u, s) <=> Occupied(t, s)
         /\ \A s \in Slot : SeqAt(u, s) = SeqAt(t, s)
         /\ \A s : Children(u, s) = Children(t, s)
<1>1. Retained(u) = Retained(t)
  BY DEF SameLinks, Retained
<1>2. \A s : Occupied(u, s) <=> Occupied(t, s)
  BY DEF SameLinks, Occupied
<1>3. \A s \in Slot : SeqAt(u, s) = SeqAt(t, s)
  BY DEF SameLinks, SeqAt
<1>4. ASSUME NEW s PROVE Children(u, s) = Children(t, s)
  <2>1. \A c \in Retained(t) : u.blocks[c].parent = t.blocks[c].parent
    BY DEF SameLinks, Retained
  <2>2. QED
    BY <1>1, <2>1 DEF Children
<1>5. QED
  BY <1>1, <1>2, <1>3, <1>4

(* The recount is exact, and changes nothing but the counts.                 *)
LEMMA RecomputeRefsExact ==
  ASSUME NEW t \in NodeState
  PROVE  LET v == RecomputeRefs(t)
         IN  /\ v \in NodeState /\ SameLinks(t, v) /\ v.heads = t.heads
             /\ \A s \in Retained(v) :
                  v.blocks[s].refs =
                    IF Children(v, s) = {} THEN 1 ELSE Cardinality(Children(v, s))
<1> DEFINE B == [s \in Slot |->
                   IF Occupied(t, s)
                   THEN [t.blocks[s] EXCEPT !.refs = IF Children(t, s) = {} THEN 1
                                                     ELSE Cardinality(Children(t, s))]
                   ELSE t.blocks[s]]
           v == [t EXCEPT !.blocks = B]
<1>1. RecomputeRefs(t) = v
  BY DEF RecomputeRefs
<1>2. v.blocks = B /\ v.heads = t.heads
  BY DEF NodeState
<1>3. v \in NodeState
  BY <1>1, RecomputeRefsReduces DEF Reduces
<1>4. SameLinks(t, v)
  <2>1. \A s \in Slot : t.blocks[s] \in BlockEntry
    BY DEF NodeState
  <2> HIDE DEF v
  <2>2. QED
    BY <1>2, <2>1 DEF SameLinks, BlockEntry
<1>5. \A s \in Slot : Occupied(t, s) =>
        B[s].refs = IF Children(t, s) = {} THEN 1 ELSE Cardinality(Children(t, s))
  BY DEF NodeState, BlockEntry
<1> HIDE DEF B, v
<1>6. \A s \in Retained(v) : Occupied(t, s) /\ s \in Slot
  BY <1>4, SameLinksSees DEF Retained, Occupied
<1>7. \A s : Children(v, s) = Children(t, s)
  BY <1>4, SameLinksSees
<1>8. QED
  BY <1>1, <1>2, <1>3, <1>4, <1>5, <1>6, <1>7

(* Among some retained blocks one is as high as any.                         *)
LEMMA HighestOf ==
  ASSUME NEW t \in NodeState, NEW S, S \subseteq Retained(t), S # {}
  PROVE  \E m \in S : \A k \in S : SeqAt(t, k) <= SeqAt(t, m)
<1> DEFINE Above(s) == {k \in S : SeqAt(t, s) < SeqAt(t, k)}
           C == {Cardinality(Above(s)) : s \in S}
<1>1. \A s \in S : SeqAt(t, s) \in Nat
  BY RetainedBlock, HeaderNumbers DEF SeqAt, Retained, Occupied
<1>2. IsFiniteSet(S)
  <2>1. IsFiniteSet(Slot)
    BY FS_Interval, BlockAssumption DEF Slot
  <2>2. S \in SUBSET Slot
    BY DEF Retained
  <2>3. QED
    BY <2>1, <2>2, FS_Subset
<1>3. ASSUME NEW s PROVE IsFiniteSet(Above(s)) /\ Cardinality(Above(s)) \in Nat
  <2>1. Above(s) \in SUBSET S
    OBVIOUS
  <2> HIDE DEF Above
  <2>2. QED
    BY <1>2, <2>1, FS_Subset, FS_CardinalityType
<1>4. ASSUME NEW s \in S, NEW k \in Above(s) PROVE Cardinality(Above(k)) < Cardinality(Above(s))
  <2>1. k \in S /\ Above(k) \in SUBSET Above(s) /\ k \notin Above(k)
    BY <1>1
  <2> HIDE DEF Above
  <2>2. Cardinality(Above(k)) <= Cardinality(Above(s)) /\ Cardinality(Above(k)) # Cardinality(Above(s))
    BY <1>3, <1>4, <2>1, FS_Subset
  <2>3. QED
    BY <1>3, <2>2
<1>5. C \subseteq Nat /\ C # {}
  <2> HIDE DEF Above
  <2>1. QED
    BY <1>3
<1>6. PICK c \in C : \A d \in C : c <= d
  <2> HIDE DEF C
  <2>1. QED
    BY <1>5, LeastOf
<1>7. PICK m \in S : c = Cardinality(Above(m))
  <2> HIDE DEF Above
  <2>1. QED
    BY <1>6
<1>8. Above(m) = {}
  <2> SUFFICES ASSUME NEW k \in Above(m) PROVE FALSE
    OBVIOUS
  <2>1. k \in S
    OBVIOUS
  <2> HIDE DEF Above
  <2>2. Cardinality(Above(m)) <= Cardinality(Above(k))
    BY <1>6, <1>7, <2>1
  <2>3. QED
    BY <1>3, <1>4, <2>2
<1>9. QED
  BY <1>1, <1>8

(* The tree u is t with the blocks D cut out of it.                          *)
CutOf(t, u, D) ==
  /\ \A s \in Slot : IF s \in D THEN u.blocks[s].hash = NoHash
                     ELSE /\ u.blocks[s].hash = t.blocks[s].hash
                          /\ u.blocks[s].parent = t.blocks[s].parent
                          /\ u.blocks[s].refs = t.blocks[s].refs
  /\ \A k \in Branch : u.heads[k].head = t.heads[k].head

(* The tree u has lost the blocks D of t, and kept the links of the others.  *)
Loses(t, u, D) ==
  \A s \in Slot : IF s \in D THEN u.blocks[s].hash = NoHash
                  ELSE /\ u.blocks[s].hash = t.blocks[s].hash
                       /\ u.blocks[s].parent = t.blocks[s].parent

(* A step that loses a set with all its children leaves the rest as it was.  *)
LEMMA LosesSees ==
  ASSUME NEW t, NEW u, NEW D, Loses(t, u, D), ChildClosed(t, D)
  PROVE  /\ Retained(u) = Retained(t) \ D
         /\ \A s : Occupied(u, s) <=> Occupied(t, s) /\ s \notin D
         /\ \A s \in Slot \ D : SeqAt(u, s) = SeqAt(t, s)
         /\ \A s : Children(u, s) = Children(t, s) \ D
         /\ \A s \in D : Children(u, s) = {}
<1>1. Retained(u) = Retained(t) \ D
  BY DEF Loses, Retained
<1>2. \A s : Occupied(u, s) <=> Occupied(t, s) /\ s \notin D
  BY DEF Loses, Occupied
<1>3. \A s \in Slot \ D : SeqAt(u, s) = SeqAt(t, s)
  BY DEF Loses, SeqAt
<1>4. ASSUME NEW s PROVE Children(u, s) = Children(t, s) \ D
  <2>1. \A c \in Retained(t) \ D : u.blocks[c].parent = t.blocks[c].parent
    BY DEF Loses, Retained
  <2>2. QED
    BY <1>1, <2>1 DEF Children
<1>5. ASSUME NEW s \in D PROVE Children(u, s) = {}
  BY <1>4 DEF ChildClosed, Children
<1>6. QED
  BY <1>1, <1>2, <1>3, <1>4, <1>5

(* Cutting a child-closed set leaves no dangling link.                       *)
LEMMA LosesTied ==
  ASSUME NEW t, NEW u, NEW D, Loses(t, u, D), ChildClosed(t, D), Tied(t)
  PROVE  Tied(u)
<1>1. /\ Retained(u) = Retained(t) \ D
      /\ \A s : Occupied(u, s) <=> Occupied(t, s) /\ s \notin D
      /\ \A s \in Slot \ D : SeqAt(u, s) = SeqAt(t, s)
  BY LosesSees
<1>2. SUFFICES ASSUME NEW s \in Retained(u), u.blocks[s].parent # NoRef
               PROVE  /\ Occupied(u, u.blocks[s].parent)
                      /\ SeqAt(u, s) = SeqAt(u, u.blocks[s].parent) + 1
  BY DEF Tied
<1>3. s \in Retained(t) /\ s \in Slot /\ s \notin D /\ u.blocks[s].parent = t.blocks[s].parent
  BY <1>1 DEF Loses, Retained
<1> DEFINE q == t.blocks[s].parent
<1>4. Occupied(t, q) /\ SeqAt(t, s) = SeqAt(t, q) + 1
  BY <1>2, <1>3 DEF Tied
<1>5. q \notin D /\ q \in Slot
  BY <1>3, <1>4 DEF ChildClosed, Occupied
<1>6. QED
  BY <1>1, <1>3, <1>4, <1>5

(* What the follow-up of a deletion leaves.                                  *)
Exact(v, s) == v.blocks[s].refs = IF Children(v, s) = {} THEN 1 ELSE Cardinality(Children(v, s))

(* The entries whose tip is among the deleted blocks.                        *)
Hit(t, D) == {k \in Tracked(t) : t.heads[k].head \in D}

(* on_blocks_deleted clears those entries, but gives the first to the parent *)
(* when that is a tip nobody tracks, and recounts every block.               *)
LEMMA OnBlocksDeletedLeaves ==
  ASSUME NEW t \in NodeState, NEW D, NEW r
  PROVE  LET v == OnBlocksDeleted(t, D, r)
         IN  /\ v \in NodeState /\ SameLinks(t, v)
             /\ \A s \in Retained(v) : Exact(v, s)
             /\ \A k \in Branch :
                  v.heads[k].head =
                    IF k \notin Hit(t, D) THEN t.heads[k].head
                    ELSE IF UntrackedTip(t, r) /\ k = Min(Hit(t, D)) THEN r ELSE NoRef
<1> DEFINE hit == Hit(t, D)
           w == UntrackDeleted(t, hit, r)
           x == RecomputeAllCaches(w)
           v == RecomputeRefs(x)
           H == [k \in Branch |->
                  IF k \notin hit THEN t.heads[k]
                  ELSE IF UntrackedTip(t, r) /\ k = Min(hit) THEN [t.heads[k] EXCEPT !.head = r]
                  ELSE EmptyHead]
<1>1. OnBlocksDeleted(t, D, r) = v
  BY DEF OnBlocksDeleted, Hit
<1>2. w \in NodeState
  BY UntrackDeletedReduces DEF Reduces
<1>3. w.blocks = t.blocks /\ w.heads = H
  BY DEF UntrackDeleted, NodeState
<1>4. \A k \in Branch : H[k].head = IF k \notin hit THEN t.heads[k].head
                                    ELSE IF UntrackedTip(t, r) /\ k = Min(hit) THEN r ELSE NoRef
  BY EmptyHeadEntry DEF NodeState, ChainHeadEntry
<1> HIDE DEF w, H
<1>5. SameTree(w, x) /\ x \in NodeState
  BY <1>2, RecomputeAllCachesSame
<1> HIDE DEF x
<1>6. v \in NodeState /\ SameLinks(x, v) /\ v.heads = x.heads
      /\ \A s \in Retained(v) : Exact(v, s)
  BY <1>5, RecomputeRefsExact DEF Exact
<1> HIDE DEF v, hit
<1>7. SameLinks(t, v)
  BY <1>3, <1>5, <1>6 DEF SameTree, SameLinks
<1>8. \A k \in Branch : v.heads[k].head = H[k].head
  BY <1>3, <1>5, <1>6 DEF SameTree
<1>9. QED
  BY <1>1, <1>4, <1>6, <1>7, <1>8 DEF hit

(* Exact counts cover, and count something.                                  *)
LEMMA ExactCovers ==
  ASSUME NEW v, \A s \in Retained(v) : Exact(v, s)
  PROVE  Covered(v) /\ \A s \in Retained(v) : v.blocks[s].refs >= 1
<1> SUFFICES ASSUME NEW s \in Retained(v)
             PROVE  Cardinality(Children(v, s)) <= v.blocks[s].refs /\ v.blocks[s].refs >= 1
  BY DEF Covered
<1>1. IsFiniteSet(Children(v, s)) /\ Cardinality(Children(v, s)) \in Nat
  BY ChildrenFinite
<1>2. Children(v, s) = {} <=> Cardinality(Children(v, s)) = 0
  BY <1>1, FS_EmptySet
<1>3. QED
  BY <1>1, <1>2 DEF Exact

(* Cutting a child-closed set that hangs together below its root, the root's *)
(* parent being reattached, keeps the tree firm: only that parent may have   *)
(* lost its last child, and then a tip of the cut gives it its entry.        *)
LEMMA CutFirm ==
  ASSUME NEW t \in NodeState, NEW f, Firm(t, f),
         NEW D, D \subseteq Retained(t), ChildClosed(t, D),
         NEW root \in D, \A s \in D : s # root => t.blocks[s].parent \in D,
         NEW u \in NodeState, CutOf(t, u, D)
  PROVE  LET v == OnBlocksDeleted(u, D, t.blocks[root].parent)
         IN  v \in FirmNodes(f) /\ Loses(t, v, D)
<1> DEFINE r == t.blocks[root].parent
           v == OnBlocksDeleted(u, D, r)
           hit == Hit(u, D)
<1>1. /\ v \in NodeState /\ SameLinks(u, v)
      /\ \A s \in Retained(v) : Exact(v, s)
      /\ \A k \in Branch :
           v.heads[k].head = IF k \notin hit THEN u.heads[k].head
                             ELSE IF UntrackedTip(u, r) /\ k = Min(hit) THEN r ELSE NoRef
  BY OnBlocksDeletedLeaves
<1> HIDE DEF v
<1>2. Loses(t, u, D) /\ Loses(t, v, D)
  BY <1>1 DEF CutOf, Loses, SameLinks
<1>3. /\ Retained(u) = Retained(t) \ D /\ \A s : Children(u, s) = Children(t, s) \ D
      /\ \A s : Occupied(u, s) <=> Occupied(t, s) /\ s \notin D
  BY <1>2, LosesSees
<1>4. /\ Retained(v) = Retained(t) \ D /\ \A s : Children(v, s) = Children(t, s) \ D
      /\ \A s : Occupied(v, s) <=> Occupied(t, s) /\ s \notin D
  BY <1>2, LosesSees
<1>5. /\ Tied(t) /\ Tipped(t) /\ (f => Full(t, {})) /\ Tied(v)
      /\ \A k \in Branch : u.heads[k].head = t.heads[k].head
  BY <1>2, LosesTied DEF Firm, CutOf
<1>6. Covered(v) /\ \A s \in Retained(v) : v.blocks[s].refs >= 1
  BY <1>1, ExactCovers
<1>7. Tracked(u) = Tracked(t) /\ hit = {k \in Tracked(t) : t.heads[k].head \in D}
  BY <1>5 DEF Tracked, Hit
<1>8. \A s : (s \in Retained(t) => s \in Slot) /\ (Occupied(t, s) <=> s \in Retained(t))
  BY DEF Retained, Occupied
<1>9. \A k \in Branch : k \in Tracked(t) <=> t.heads[k].head # NoRef
  BY DEF Tracked
<1>10. \A k \in Tracked(t) : k \in Branch
  BY DEF Tracked
<1>11. ASSUME UntrackedTip(u, r)
       PROVE  /\ Occupied(t, r) /\ r \notin D /\ r # NoRef /\ Children(t, r) \ D = {}
              /\ \A k \in Tracked(t) : t.heads[k].head # r
  <2>1. Occupied(u, r) /\ HeadOf(u, r) = NoRef /\ Children(u, r) = {}
    BY <1>11 DEF UntrackedTip
  <2>2. r # NoRef
    BY <2>1, Numbers DEF Occupied
  <2>3. {k \in Tracked(u) : u.heads[k].head = r} = {}
    <3> DEFINE S == {k \in Tracked(u) : u.heads[k].head = r}
    <3>1. S \subseteq Nat /\ NoRef \notin S
      BY Numbers DEF Tracked
    <3>2. LowestOf(S) = NoRef
      BY <2>1 DEF HeadOf
    <3> HIDE DEF S
    <3>3. S = {}
      BY <3>1, <3>2, LowestIn
    <3>4. QED
      BY <3>3 DEF S
  <2>4. \A k \in Tracked(t) : t.heads[k].head # r
    BY <1>5, <1>7, <1>10, <2>3
  <2>5. QED
    BY <1>3, <2>1, <2>2, <2>4
<1>12. ASSUME NEW k \in Tracked(v)
       PROVE  \/ /\ k \in Tracked(t) /\ v.heads[k].head = t.heads[k].head
                 /\ t.heads[k].head \notin D
              \/ /\ UntrackedTip(u, r) /\ k = Min(hit) /\ v.heads[k].head = r
  <2>1. k \in Branch /\ v.heads[k].head # NoRef
    BY DEF Tracked
  <2>2. CASE k \notin hit
    <3>1. v.heads[k].head = t.heads[k].head
      BY <1>1, <1>5, <2>1, <2>2
    <3>2. QED
      BY <1>7, <1>9, <2>1, <2>2, <3>1
  <2>3. CASE k \in hit
    BY <1>1, <2>1, <2>3
  <2>4. QED
    BY <2>2, <2>3
<1>13. Tipped(v)
  <2>1. ASSUME NEW k \in Tracked(v)
        PROVE  Occupied(v, v.heads[k].head) /\ Children(v, v.heads[k].head) = {}
               /\ v.blocks[v.heads[k].head].refs >= 1
    <3>1. Occupied(v, v.heads[k].head) /\ Children(v, v.heads[k].head) = {}
      BY <1>4, <1>5, <1>11, <1>12 DEF Tipped
    <3>2. QED
      BY <1>4, <1>6, <1>8, <3>1
  <2>2. ASSUME NEW j \in Tracked(v), NEW k \in Tracked(v), v.heads[j].head = v.heads[k].head
        PROVE  j = k
    BY <1>5, <1>11, <1>12, <2>2 DEF Tipped
  <2>3. QED
    BY <2>1, <2>2 DEF Tipped
<1>14. ASSUME f PROVE Full(v, {})
  <2> SUFFICES ASSUME NEW s \in Retained(v), Children(v, s) = {}
               PROVE  \E k \in Tracked(v) : v.heads[k].head = s
    BY <1>1 DEF Full, Exact
  <2>1. s \in Retained(t) /\ s \notin D /\ Children(t, s) \ D = {} /\ s \in Slot /\ s # NoRef
    BY <1>4, <1>8, Numbers
  <2>2. CASE \E k \in Tracked(t) : t.heads[k].head = s
    <3>1. PICK k \in Tracked(t) : t.heads[k].head = s
      BY <2>2
    <3>2. k \in Branch /\ k \notin hit
      BY <1>7, <1>10, <2>1, <3>1
    <3>3. v.heads[k].head = s
      BY <1>1, <1>5, <3>1, <3>2
    <3>4. QED
      BY <2>1, <3>2, <3>3 DEF Tracked
  <2>3. CASE ~\E k \in Tracked(t) : t.heads[k].head = s
    <3>1. Children(t, s) # {}
      BY <1>5, <1>14, <2>1, <2>3 DEF Full
    <3>2. PICK c \in Children(t, s) : c \in D
      BY <2>1, <3>1
    <3>3. s = r
      BY <2>1, <3>2 DEF Children
    <3>4. HeadOf(u, s) = NoRef
      <4>1. {k \in Tracked(u) : u.heads[k].head = s} = {}
        BY <1>5, <1>7, <1>10, <2>3
      <4>2. QED
        BY <4>1 DEF HeadOf, LowestOf
    <3>5. UntrackedTip(u, r)
      BY <1>3, <1>8, <2>1, <3>3, <3>4 DEF UntrackedTip
    <3>6. PICK m \in D : \A k \in D : SeqAt(t, k) <= SeqAt(t, m)
      BY HighestOf
    <3>7. Children(t, m) = {}
      <4> SUFFICES ASSUME NEW d \in Children(t, m) PROVE FALSE
        OBVIOUS
      <4>1. d \in Retained(t) /\ t.blocks[d].parent = m /\ m \in Retained(t)
        BY DEF Children
      <4>2. m # NoRef /\ d \in D
        BY <1>8, <4>1, Numbers DEF ChildClosed
      <4>3. SeqAt(t, d) = SeqAt(t, m) + 1
        BY <1>5, <4>1, <4>2 DEF Tied
      <4>4. SeqAt(t, m) \in Nat
        BY <1>8, <4>1, RetainedBlock, HeaderNumbers DEF SeqAt
      <4>5. QED
        BY <3>6, <4>2, <4>3, <4>4
    <3>8. PICK k \in Tracked(t) : t.heads[k].head = m
      BY <1>5, <1>14, <3>7 DEF Full
    <3>9. hit # {} /\ hit \subseteq Nat /\ hit \subseteq Branch
      <4>1. k \in hit
        BY <1>7, <3>8
      <4>2. hit \subseteq Branch
        BY <1>7, <1>10
      <4>3. QED
        BY <4>1, <4>2, Numbers
    <3> HIDE DEF hit, r
    <3>10. Min(hit) \in hit
      BY <3>9, MinOf
    <3>11. v.heads[Min(hit)].head = s
      BY <1>1, <3>3, <3>5, <3>9, <3>10
    <3>12. QED
      BY <2>1, <3>9, <3>10, <3>11 DEF Tracked
  <2>4. QED
    BY <2>2, <2>3
<1>15. QED
  BY <1>1, <1>2, <1>5, <1>6, <1>13, <1>14 DEF Firm, FirmNodes, v

(* The blocks of u are blocks of t, with the links they had.                 *)
Prunes(t, u) ==
  \A s \in Slot : u.blocks[s].hash # NoHash =>
    /\ u.blocks[s].hash = t.blocks[s].hash
    /\ u.blocks[s].parent = t.blocks[s].parent

(* Two prunings are one,                                                     *)
LEMMA PrunesOn ==
  ASSUME NEW t, NEW u, NEW v, Prunes(t, u), Prunes(u, v)
  PROVE  Prunes(t, v)
BY DEF Prunes

(* losing a set is one,                                                      *)
LEMMA LosesPrunes ==
  ASSUME NEW t, NEW u, NEW D, Loses(t, u, D)
  PROVE  Prunes(t, u)
BY DEF Loses, Prunes

(* and so is a step that leaves the tree alone.                              *)
LEMMA SameTreePrunes ==
  ASSUME NEW t, NEW u, SameTree(t, u)
  PROVE  Prunes(t, u)
BY DEF SameTree, Prunes

(* What follows a cut and leaves the tree alone does not change the cut.     *)
LEMMA CutOfOn ==
  ASSUME NEW t, NEW u, NEW v, NEW D, CutOf(t, u, D), SameTree(u, v)
  PROVE  CutOf(t, v, D)
BY DEF CutOf, SameTree

(* delete_blocks is a cut.                                                   *)
LEMMA DeleteBlocksCuts ==
  ASSUME NEW t \in NodeState, NEW D
  PROVE  CutOf(t, DeleteBlocks(t, D), D) /\ DeleteBlocks(t, D) \in NodeState
<1>1. CutOf(t, DeleteBlocks(t, D), D)
  BY FreeSlotEntry DEF DeleteBlocks, CutOf, NodeState
<1>2. QED
  BY <1>1, DeleteBlocksReduces DEF Reduces

(* Deleting a subtree keeps the tree firm, and the blocks that are not above *)
(* its root.                                                                 *)
LEMMA DeleteSubtreeFirm ==
  ASSUME NEW f, NEW t \in FirmNodes(f), NEW root
  PROVE  /\ DeleteSubtree(t, root) \in FirmNodes(f)
         /\ Prunes(t, DeleteSubtree(t, root))
         /\ \A s : /\ Occupied(t, s) /\ s # root
                   /\ Occupied(t, root) => SeqAt(t, s) <= SeqAt(t, root)
                   => Occupied(DeleteSubtree(t, root), s)
<1> DEFINE D == MarkSubtree(t, root)
<1>1. t \in NodeState /\ Firm(t, f) /\ Tied(t)
  BY DEF FirmNodes, Firm
<1>2. CASE ~Occupied(t, root)
  <2>1. DeleteSubtree(t, root) = t
    BY <1>2 DEF DeleteSubtree, DeleteSet, MarkSubtree
  <2>2. QED
    BY <2>1 DEF Prunes
<1>3. CASE Occupied(t, root)
  <2>1. /\ D \subseteq Retained(t) /\ root \in D /\ ChildClosed(t, D)
        /\ \A s \in D : s # root => t.blocks[s].parent \in D
        /\ \A s \in D : s # root => SeqAt(t, root) < SeqAt(t, s)
    BY <1>1, <1>3, SubtreeFacts
  <2>2. NoRef \notin D
    BY SubtreeInTree
  <2> DEFINE a == DeleteBlocks(t, D)
             b == ForgetActive(a, D)
             c == ForgetTentative(b, D)
             v == OnBlocksDeleted(c, D, t.blocks[root].parent)
  <2>3. DeleteSubtree(t, root) = v
    BY <2>1 DEF DeleteSubtree, DeleteSet
  <2> HIDE DEF D
  <2>4. a \in NodeState /\ CutOf(t, a, D)
    BY <1>1, DeleteBlocksCuts
  <2> HIDE DEF a
  <2>5. b \in NodeState /\ CutOf(t, b, D)
    BY <2>4, ForgetActiveSame, CutOfOn
  <2> HIDE DEF b
  <2>6. c \in NodeState /\ CutOf(t, c, D)
    BY <2>2, <2>5, ForgetTentativeSame, CutOfOn
  <2> HIDE DEF c
  <2>7. v \in FirmNodes(f) /\ Loses(t, v, D)
    BY <1>1, <2>1, <2>6, CutFirm
  <2> HIDE DEF v
  <2>8. ASSUME NEW s, Occupied(t, s), s # root, SeqAt(t, s) <= SeqAt(t, root)
        PROVE  Occupied(v, s)
    <3>1. SeqAt(t, s) \in Nat /\ SeqAt(t, root) \in Nat
      BY <1>1, <1>3, <2>8, RetainedBlock, HeaderNumbers DEF SeqAt
    <3>2. s \notin D
      BY <2>1, <2>8, <3>1
    <3>3. QED
      BY <2>7, <2>8, <3>2 DEF Loses, Occupied
  <2>9. QED
    BY <1>3, <2>3, <2>7, <2>8, LosesPrunes
<1>4. QED
  BY <1>2, <1>3

(* A new anchor is a matter of other fields.                                 *)
LEMMA ReanchoredSame ==
  ASSUME NEW t \in NodeState, NEW g \in Ref, NEW u,
         u = [t EXCEPT !.active = g, !.tail = NoRef, !.value = 0]
  PROVE  u \in NodeState /\ SameTree(t, u)
<1>1. NoRef \in Ref /\ 0 \in Nat
  BY Numbers
<1>2. u \in NodeState /\ u.blocks = t.blocks /\ u.heads = t.heads
  BY <1>1 DEF NodeState
<1>3. QED
  BY <1>2, TablesSame

(* The tree is all Stored again, and no block, link, count or tip changes.   *)
LEMMA UnwindSame ==
  ASSUME NEW t \in NodeState
  PROVE  Unwind(t) \in NodeState /\ SameTree(t, Unwind(t))
<1> DEFINE a == SetStatus(t, Slot, "Stored")
           b == SetOnActive(a, Slot, FALSE)
           g == LowestOf({s \in Retained(t) : SeqAt(t, s) = 0})
           c == SetOnActive(b, {g}, TRUE)
<1>1. a \in NodeState /\ SameTree(t, a)
  BY SetStatusSets, SetStatusSame DEF StatusSet, SameBut, Statuses
<1> HIDE DEF a
<1>2. b \in NodeState /\ SameTree(a, b)
  BY <1>1, SetOnActiveSets, SetOnActiveSame DEF OnActiveSet, SameBut
<1> HIDE DEF b
<1>3. c \in NodeState /\ SameTree(b, c)
  BY <1>2, SetOnActiveSets, SetOnActiveSame DEF OnActiveSet, SameBut
<1>4. g \in Ref
  <2> DEFINE S == {s \in Retained(t) : SeqAt(t, s) = 0}
  <2>1. S \subseteq Slot /\ S \subseteq Nat
    BY Numbers DEF Retained
  <2> HIDE DEF S
  <2>2. LowestOf(S) \in Ref
    BY <2>1, LowestIn, Numbers
  <2>3. QED
    BY <2>2 DEF S
<1>5. Unwind(t) = [c EXCEPT !.active = g, !.tail = NoRef, !.value = 0]
  BY DEF Unwind, AnchorAt, AllStored, a, b
<1> HIDE DEF c, g
<1>6. Unwind(t) \in NodeState /\ SameTree(c, Unwind(t))
  <2>1. c \in NodeState
    BY <1>3
  <2>2. QED
    BY <1>4, <1>5, <2>1, ReanchoredSame, Zenon
<1>7. QED
  BY <1>1, <1>2, <1>3, <1>6, SameTreeOn

(* So does the recovery from a failed pass.                                  *)
LEMMA RecoverFirm ==
  ASSUME NEW f, NEW t \in FirmNodes(f), NEW target
  PROVE  Firm(RecoverFromFailedPass(t, target), f)
<1> DEFINE D == MarkSubtree(t, target)
           r == t.blocks[target].parent
           v == RecoverWithout(t, D, r)
<1>1. t \in NodeState /\ Firm(t, f) /\ Tied(t)
  BY DEF FirmNodes, Firm
<1>2. v \in FirmNodes(f)
  <2>1. CASE ~Occupied(t, target)
    <3>1. v = Unwind(t)
      BY <2>1 DEF RecoverWithout, MarkSubtree
    <3>2. QED
      BY <1>1, <3>1, UnwindSame, FirmOn
  <2>2. CASE Occupied(t, target)
    <3>1. /\ D \subseteq Retained(t) /\ target \in D /\ ChildClosed(t, D)
          /\ \A s \in D : s # target => t.blocks[s].parent \in D
      BY <1>1, <2>2, SubtreeFacts
    <3>2. NoRef \notin D
      BY SubtreeInTree
    <3> DEFINE a == DeleteBlocks(t, D)
               b == ForgetTentative(a, D)
               c == Unwind(b)
    <3>3. v = OnBlocksDeleted(c, D, r)
      BY <3>1 DEF RecoverWithout
    <3> HIDE DEF D, v
    <3>4. a \in NodeState /\ CutOf(t, a, D)
      BY <1>1, DeleteBlocksCuts
    <3> HIDE DEF a
    <3>5. b \in NodeState /\ CutOf(t, b, D)
      BY <3>2, <3>4, ForgetTentativeSame, CutOfOn
    <3> HIDE DEF b
    <3>6. c \in NodeState /\ CutOf(t, c, D)
      BY <3>5, UnwindSame, CutOfOn
    <3> HIDE DEF c
    <3>7. QED
      BY <1>1, <3>1, <3>3, <3>6, CutFirm
  <2>3. QED
    BY <2>1, <2>2
<1>3. RecoverFromFailedPass(t, target) = [v EXCEPT !.phase = "Collecting"]
  BY DEF RecoverFromFailedPass
<1> HIDE DEF v
<1>4. SameTree(v, [v EXCEPT !.phase = "Collecting"])
  BY <1>2, TablesSame DEF FirmNodes, NodeState
<1>5. QED
  BY <1>2, <1>3, <1>4, SameTreeFirm DEF FirmNodes

-----------------------------------------------------------------------------
(* So does the reclaim of stale fragments.                                   *)
LEMMA ReclaimFirm ==
  ASSUME NEW f, NEW t \in FirmNodes(f), NEW q
  PROVE  ReclaimStaleFragments(t, q) \in FirmNodes(f)
<1> DEFINE T == FirmNodes(f)
<1>1. \A u \in T, k \in Branch : ReclaimIfStale(u, k, q) \in T
  BY DeleteSubtreeFirm DEF ReclaimIfStale
<1> HIDE DEF T
<1>2. t \in T
  BY DEF T
<1>3. QED
  BY <1>1, <1>2, ReclaimStaleFragmentsRuns DEF T

(* Dropping the subtrees of several roots keeps the tree firm; it keeps the  *)
(* links of the blocks that stay, and the blocks that are no roots and not   *)
(* above one.                                                                *)
LEMMA DropEachFirm ==
  ASSUME NEW f, NEW t \in FirmNodes(f), NEW roots
  PROVE  /\ DropEach(t, roots) \in FirmNodes(f)
         /\ Prunes(t, DropEach(t, roots))
         /\ \A s : /\ Occupied(t, s) /\ s \notin roots
                   /\ \A r \in roots : Occupied(t, r) => SeqAt(t, s) <= SeqAt(t, r)
                   => Occupied(DropEach(t, roots), s)
<1> DEFINE Low(s) == /\ Occupied(t, s) /\ s \notin roots
                     /\ \A r \in roots : Occupied(t, r) => SeqAt(t, s) <= SeqAt(t, r)
           T == {u \in FirmNodes(f) : Prunes(t, u) /\ \A s : Low(s) => Occupied(u, s)}
<1>1. ASSUME NEW u \in T, NEW k \in Slot PROVE DropIfRoot(u, k, roots) \in T
  <2>1. u \in FirmNodes(f) /\ Prunes(t, u) /\ \A s : Low(s) => Occupied(u, s)
    OBVIOUS
  <2>2. CASE ~(k \in roots /\ Occupied(u, k))
    BY <2>2 DEF DropIfRoot
  <2>3. CASE k \in roots /\ Occupied(u, k)
    <3> DEFINE v == DeleteSubtree(u, k)
    <3>1. /\ v \in FirmNodes(f) /\ Prunes(u, v)
          /\ \A s : /\ Occupied(u, s) /\ s # k
                    /\ Occupied(u, k) => SeqAt(u, s) <= SeqAt(u, k)
                    => Occupied(v, s)
      BY <2>1, DeleteSubtreeFirm
    <3>2. DropIfRoot(u, k, roots) = v
      BY <2>3 DEF DropIfRoot
    <3> HIDE DEF v
    <3>3. \A s : Occupied(u, s) => Occupied(t, s) /\ SeqAt(u, s) = SeqAt(t, s)
      BY <2>1 DEF Prunes, Occupied, SeqAt
    <3>4. ASSUME NEW s, Low(s) PROVE Occupied(v, s)
      <4>1. Occupied(u, s) /\ s # k /\ Occupied(t, k)
        BY <2>1, <2>3, <3>3, <3>4
      <4>2. SeqAt(u, s) <= SeqAt(u, k)
        BY <2>3, <3>3, <3>4, <4>1
      <4>3. QED
        BY <3>1, <4>1, <4>2
    <3>5. Prunes(t, v)
      BY <2>1, <3>1, PrunesOn
    <3>6. QED
      BY <3>1, <3>2, <3>4, <3>5
  <2>4. QED
    BY <2>2, <2>3
<1>2. t \in T
  BY DEF Prunes
<1> HIDE DEF T
<1>3. DropEach(t, roots) \in T
  BY <1>1, <1>2, DropEachRuns
<1>4. QED
  BY <1>3 DEF T

(* So does the configuration lock, which drops the branches that mismatch.   *)
LEMMA ApplyLockFirm ==
  ASSUME NEW f, NEW t \in FirmNodes(f), NEW unread
  PROVE  ApplyLock(t, unread) \in FirmNodes(f)
BY DropEachFirm DEF ApplyLock, DropOversized

(* The tree w is u without its block r, whose one child c is a root now.     *)
Sheds(u, w, r, c) ==
  /\ \A s \in Slot : s # r =>
       /\ w.blocks[s].hash = u.blocks[s].hash
       /\ w.blocks[s].refs = u.blocks[s].refs
       /\ w.blocks[s].parent = IF s = c THEN NoRef ELSE u.blocks[s].parent
  /\ w.blocks[r].hash = NoHash
  /\ \A k \in Branch : w.heads[k].head = u.heads[k].head

(* The invariant survives it: the root's one child becomes a root.           *)
LEMMA ShedFirm ==
  ASSUME NEW f, NEW u \in FirmNodes(f), NEW r, Occupied(u, r), u.blocks[r].parent = NoRef,
         NEW c, Children(u, r) = {c}, NEW w \in NodeState, Sheds(u, w, r, c)
  PROVE  w \in FirmNodes(f)
<1>1. u \in NodeState /\ Tied(u) /\ Covered(u) /\ Tipped(u) /\ (f => Full(u, {}))
  BY DEF FirmNodes, Firm
<1>2. \A s : Occupied(u, s) <=> s \in Retained(u)
  BY DEF Retained, Occupied
<1>3. \A s : s \in Retained(u) => s \in Slot /\ s # NoRef
  BY Numbers DEF Retained
<1>4. Retained(w) = Retained(u) \ {r}
  BY <1>2, <1>3 DEF Sheds, Retained
<1>5. \A s : Occupied(w, s) <=> Occupied(u, s) /\ s # r
  BY <1>2, <1>3 DEF Sheds, Occupied
<1>6. \A s \in Slot : s # r => SeqAt(w, s) = SeqAt(u, s)
  BY DEF Sheds, SeqAt
<1>7. \A s \in Retained(u) : u.blocks[s].parent = r <=> s = c
  BY DEF Children
<1>8. c \in Retained(u) /\ c # r
  BY <1>2, <1>3, <1>7 DEF Children
<1>9. \A s \in Retained(w) : w.blocks[s].parent = IF s = c THEN NoRef ELSE u.blocks[s].parent
  BY <1>3, <1>4 DEF Sheds
<1>10. ASSUME NEW s, s # NoRef, s # r PROVE Children(w, s) = Children(u, s)
  <2>1. \A d : d \in Retained(w) /\ w.blocks[d].parent = s
               <=> d \in Retained(u) /\ u.blocks[d].parent = s
    BY <1>4, <1>7, <1>8, <1>9, <1>10
  <2>2. QED
    BY <2>1, Zenon DEF Children
<1>11. Tied(w)
  BY <1>1, <1>2, <1>3, <1>4, <1>5, <1>6, <1>7, <1>9 DEF Tied
<1>12. \A s \in Retained(w) : Children(w, s) = Children(u, s) /\ w.blocks[s].refs = u.blocks[s].refs
  BY <1>3, <1>4, <1>10 DEF Sheds
<1>13. Covered(w)
  BY <1>1, <1>4, <1>12 DEF Covered
<1>14. Tracked(w) = Tracked(u) /\ \A k \in Tracked(u) : w.heads[k].head = u.heads[k].head
  BY DEF Sheds, Tracked
<1>15. \A k \in Tracked(u) : u.heads[k].head # r
  BY <1>1, <1>8 DEF Tipped
<1>16. Tipped(w)
  <2>1. ASSUME NEW k \in Tracked(w)
        PROVE  /\ Occupied(w, w.heads[k].head) /\ Children(w, w.heads[k].head) = {}
               /\ w.blocks[w.heads[k].head].refs >= 1
    <3> DEFINE h == u.heads[k].head
    <3>1. h # r /\ w.heads[k].head = h /\ Occupied(u, h) /\ Children(u, h) = {}
          /\ u.blocks[h].refs >= 1
      BY <1>1, <1>14, <1>15 DEF Tipped
    <3>2. h \in Retained(w)
      BY <1>2, <1>4, <3>1
    <3>3. QED
      BY <1>5, <1>12, <3>1, <3>2
  <2>2. \A j, k \in Tracked(w) : w.heads[j].head = w.heads[k].head => j = k
    BY <1>1, <1>14 DEF Tipped
  <2>3. QED
    BY <2>1, <2>2 DEF Tipped
<1>17. f => Full(w, {})
  BY <1>1, <1>4, <1>12, <1>14 DEF Full
<1>18. QED
  BY <1>11, <1>13, <1>16, <1>17 DEF FirmNodes, Firm

(* A step of the tail keeps the tree firm: the forks below the new tail go   *)
(* first, and the new tail, no higher than any of them, stays.               *)
LEMMA MoveTailFirm ==
  ASSUME NEW f, NEW t \in FirmNodes(f), NEW r, Occupied(t, r), t.blocks[r].parent = NoRef,
         NEW c \in Children(t, r)
  PROVE  MoveTail(t, r, c) \in FirmNodes(f)
<1> DEFINE roots == Children(t, r) \ {c}
           u == DropEach(t, roots)
           a == DeleteBlocks(u, {r})
           b == ForgetTentative(a, {r})
           p == SetParent(b, c, NoRef)
           w == [p EXCEPT !.tail = c]
<1>1. MoveTail(t, r, c) = ReclaimStaleFragments(w, SeqAt(t, c))
  BY DEF MoveTail, DropBlock, DropForks
<1>2. t \in NodeState /\ Tied(t)
  BY DEF FirmNodes, Firm
<1>3. \A s : Occupied(t, s) <=> s \in Retained(t)
  BY DEF Retained, Occupied
<1>4. \A s \in Retained(t) : SeqAt(t, s) \in Nat /\ s \in Slot /\ s # NoRef
  BY <1>2, <1>3, RetainedBlock, HeaderNumbers, Numbers DEF SeqAt
<1>5. \A s \in Children(t, r) : s \in Retained(t) /\ SeqAt(t, s) = SeqAt(t, r) + 1
                               /\ t.blocks[s].parent = r
  BY <1>2, <1>3, <1>4 DEF Children, Tied
<1>6. /\ u \in FirmNodes(f) /\ Prunes(t, u)
      /\ \A s : /\ Occupied(t, s) /\ s \notin roots
                /\ \A d \in roots : Occupied(t, d) => SeqAt(t, s) <= SeqAt(t, d)
                => Occupied(u, s)
  BY DropEachFirm
<1>7. \A s \in roots : s \in Slot => ~Occupied(u, s)
  BY <1>2, DropEachDrops
<1> HIDE DEF u
<1>8. Occupied(u, c) /\ Occupied(u, r) /\ c # r
  <2>1. c \notin roots /\ r \notin roots /\ c # r
    BY <1>3, <1>4, <1>5
  <2>2. \A d \in roots : SeqAt(t, c) <= SeqAt(t, d) /\ SeqAt(t, r) <= SeqAt(t, d)
    BY <1>3, <1>4, <1>5
  <2>3. QED
    BY <1>3, <1>5, <1>6, <2>1, <2>2
<1>9. u \in NodeState /\ r \in Slot /\ c \in Slot /\ NoRef # r
  BY <1>3, <1>4, <1>5, <1>6 DEF FirmNodes
<1>10. u.blocks[r].parent = NoRef /\ Children(u, r) = {c}
  <2>1. u.blocks[r].parent = NoRef /\ u.blocks[c].parent = r
    BY <1>5, <1>6, <1>8, <1>9 DEF Prunes, Occupied
  <2>2. c \in Children(u, r)
    BY <1>8, <2>1 DEF Children, Retained, Occupied
  <2>3. ASSUME NEW d \in Children(u, r) PROVE d = c
    <3>1. d \in Slot /\ Occupied(u, d) /\ u.blocks[d].parent = r
      BY DEF Children, Retained, Occupied
    <3>2. d \in Children(t, r)
      BY <1>6, <3>1 DEF Prunes, Children, Retained, Occupied
    <3>3. QED
      BY <1>7, <3>1, <3>2
  <2>4. QED
    BY <2>1, <2>2, <2>3
<1>11. a \in NodeState /\ CutOf(u, a, {r})
  BY <1>9, DeleteBlocksCuts
<1> HIDE DEF a
<1>12. b \in NodeState /\ CutOf(u, b, {r})
  BY <1>9, <1>11, ForgetTentativeSame, CutOfOn
<1> HIDE DEF b
<1>13. w \in NodeState
  BY <1>9, <1>12, SetParentReduces, Numbers DEF Reduces, NodeState
<1>14. Sheds(u, w, r, c)
  <2>1. w.heads = b.heads
        /\ \A s \in Slot : /\ w.blocks[s].hash = b.blocks[s].hash
                           /\ w.blocks[s].refs = b.blocks[s].refs
                           /\ w.blocks[s].parent = IF s = c THEN NoRef ELSE b.blocks[s].parent
    BY <1>9, <1>12 DEF SetParent, NodeState, BlockEntry
  <2> HIDE DEF w
  <2>2. QED
    BY <1>9, <1>12, <2>1 DEF CutOf, Sheds
<1> HIDE DEF w, roots
<1>15. w \in FirmNodes(f)
  BY <1>6, <1>8, <1>10, <1>13, <1>14, ShedFirm
<1>16. QED
  BY <1>1, <1>15, ReclaimFirm

(* So does one advance of the tail,                                          *)
LEMMA AdvanceTailFirm ==
  ASSUME NEW f, NEW t \in FirmNodes(f)
  PROVE  AdvanceTail(t) \in FirmNodes(f)
<1> DEFINE S == OnActiveChildren(t, t.tail)
<1>1. CASE CanAdvance(t)
  <2>1. Occupied(t, t.tail) /\ t.blocks[t.tail].parent = NoRef /\ S # {}
    BY <1>1 DEF CanAdvance
  <2>2. S \subseteq Nat /\ S \subseteq Children(t, t.tail)
    BY Numbers DEF OnActiveChildren, Children, Retained
  <2> HIDE DEF S
  <2>3. Min(S) \in Children(t, t.tail)
    BY <2>1, <2>2, MinOf
  <2>4. MoveTail(t, t.tail, Min(S)) \in FirmNodes(f)
    BY <2>1, <2>3, MoveTailFirm
  <2>5. QED
    BY <1>1, <2>4 DEF AdvanceTail, S
<1>2. CASE ~CanAdvance(t)
  BY <1>2 DEF AdvanceTail
<1>3. QED
  BY <1>1, <1>2

(* and its advance to a target.                                              *)
LEMMA AdvanceToFirm ==
  ASSUME NEW f, NEW t \in FirmNodes(f), NEW target
  PROVE  AdvanceTo(t, target) \in FirmNodes(f)
<1> DEFINE T == FirmNodes(f)
<1>1. \A u \in T, k \in Slot : AdvanceBelow(u, target) \in T
  BY AdvanceTailFirm DEF AdvanceBelow
<1> HIDE DEF T
<1>2. t \in T
  BY DEF T
<1>3. QED
  BY <1>1, <1>2, AdvanceToRuns DEF T

(* So does the window of a chain,                                            *)
LEMMA EstablishWindowFirm ==
  ASSUME NEW f, NEW t \in FirmNodes(f)
  PROVE  EstablishWindow(t) \in FirmNodes(f)
<1> DEFINE root == Last(Path(t, t.active))
           u == [t EXCEPT !.tail = root]
           v == RecomputeAllCaches(u)
<1>1. t \in NodeState /\ t.active \in Ref
  BY DEF FirmNodes, NodeState
<1>2. root \in Ref
  <2> DEFINE p == Path(t, t.active)
  <2>1. PathFacts(t, t.active, p)
    BY <1>1, PathElements
  <2> HIDE DEF p
  <2>2. Last(p) \in Ref
    BY <2>1 DEF PathFacts
  <2>3. QED
    BY <2>2 DEF p
<1> HIDE DEF root
<1>3. u \in NodeState /\ SameTree(t, u)
  BY <1>1, <1>2, TablesSame DEF NodeState
<1> HIDE DEF u
<1>4. v \in FirmNodes(f)
  BY <1>3, RecomputeAllCachesSame, FirmOn
<1>5. \A q : ReclaimStaleFragments(v, q) \in FirmNodes(f)
  BY <1>4, ReclaimFirm
<1> HIDE DEF v
<1>6. QED
  BY <1>5, AdvanceToFirm DEF EstablishWindow, WindowFrom, root, u, v

(* and the promotion of a candidate.                                         *)
LEMMA BecomeReadyFirm ==
  ASSUME NEW f, NEW t \in FirmNodes(f), NEW path, path[1] \in Ref,
         \A i \in DOMAIN path : Occupied(t, path[i])
  PROVE  BecomeReady(t, path) \in FirmNodes(f)
<1> DEFINE P == Range(path)
           a == SetOnActive(t, Slot, FALSE)
           b == SetStatus(a, P, "Active")
           c == SetOnActive(b, P, TRUE)
           u == [c EXCEPT !.active = path[1]]
           w == EstablishWindow(u)
           x == WindowValue(t, path)
           y == [w EXCEPT !.value = x]
<1>1. a \in NodeState /\ SameTree(t, a)
  BY SetOnActiveSets, SetOnActiveSame DEF OnActiveSet, SameBut, FirmNodes
<1> HIDE DEF a
<1>2. b \in NodeState /\ SameTree(a, b)
  BY <1>1, SetStatusSets, SetStatusSame DEF StatusSet, SameBut, Statuses
<1> HIDE DEF b
<1>3. c \in NodeState /\ SameTree(b, c)
  BY <1>2, SetOnActiveSets, SetOnActiveSame DEF OnActiveSet, SameBut
<1>4. BecomeReady(t, path) = [y EXCEPT !.phase = "Ready"]
  BY DEF BecomeReady, PromoteCandidate, a, b
<1> HIDE DEF c
<1>5. u \in NodeState /\ SameTree(c, u)
  BY <1>3, TablesSame DEF NodeState
<1> HIDE DEF u
<1>6. u \in FirmNodes(f)
  BY <1>1, <1>2, <1>3, <1>5, FirmOn
<1>7. w \in FirmNodes(f) /\ w \in NodeState
  BY <1>6, EstablishWindowFirm DEF FirmNodes
<1>8. x \in Nat
  <2>1. Range(path) \subseteq Retained(t)
    BY DEF Range, Retained, Occupied
  <2>2. t \in NodeState
    BY DEF FirmNodes
  <2>3. QED
    BY <2>1, <2>2, SumVotesNat DEF WindowValue
<1> HIDE DEF w, x
<1> DEFINE z == [y EXCEPT !.phase = "Ready"]
<1>9. z \in NodeState /\ z.blocks = w.blocks /\ z.heads = w.heads
  BY <1>7, <1>8 DEF NodeState, Phases
<1> HIDE DEF y, z
<1>10. SameTree(w, z)
  BY <1>9, TablesSame
<1>11. QED
  BY <1>4, <1>7, <1>9, <1>10, FirmOn DEF z

(* So does the tail that follows a new head,                                 *)
LEMMA FollowTailFirm ==
  ASSUME NEW f, NEW t \in FirmNodes(f), NEW tailValue, tailValue \subseteq Nat
  PROVE  FollowTail(t, tailValue) \in FirmNodes(f)
<1>1. CASE tailValue = {} \/ ~CanAdvance(t)
  BY <1>1 DEF FollowTail
<1>2. CASE ~(tailValue = {} \/ ~CanAdvance(t))
  <2> DEFINE v == CHOOSE v \in tailValue : TRUE
             a == AdvanceTail(t)
             x == Monus(a.value, v)
             w == [a EXCEPT !.value = x]
  <2>1. v \in Nat
    BY <1>2
  <2>2. a \in FirmNodes(f) /\ a \in NodeState
    BY AdvanceTailFirm DEF FirmNodes
  <2>3. FollowTail(t, tailValue) = SubtractBranchValue(w, v)
    BY <1>2 DEF FollowTail
  <2> HIDE DEF a, v
  <2>4. x \in Nat
    BY <2>1, <2>2, MonusNat DEF NodeState
  <2> HIDE DEF x
  <2>5. w \in NodeState /\ SameTree(a, w)
    BY <2>2, <2>4, TablesSame DEF NodeState
  <2> HIDE DEF w
  <2>6. w \in FirmNodes(f)
    BY <2>2, <2>5, FirmOn
  <2>7. QED
    BY <2>1, <2>3, <2>5, <2>6, SubtractBranchValueSame, FirmOn
<1>3. QED
  BY <1>1, <1>2

(* and the promotion of an extension.                                        *)
LEMMA PromoteExtensionFirm ==
  ASSUME NEW f, NEW t \in FirmNodes(f), NEW x \in Slot, NEW value \in Nat,
         NEW tailValue, tailValue \subseteq Nat
  PROVE  PromoteExtension(t, x, value, tailValue) \in FirmNodes(f)
<1> DEFINE a == SetStatus(t, {x}, "Active")
           b == SetOnActive(a, {x}, TRUE)
           h == [b EXCEPT !.active = x]
           r == RefreshHead(h, x)
           sum == r.value + value
           w == [r EXCEPT !.value = sum]
<1>1. a \in NodeState /\ SameTree(t, a)
  BY SetStatusSets, SetStatusSame DEF StatusSet, SameBut, Statuses, FirmNodes
<1>2. PromoteExtension(t, x, value, tailValue) = FollowTail(w, tailValue)
  BY DEF PromoteExtension, HeadAt
<1> HIDE DEF a
<1>3. b \in NodeState /\ SameTree(a, b)
  BY <1>1, SetOnActiveSets, SetOnActiveSame DEF OnActiveSet, SameBut
<1> HIDE DEF b
<1>4. h \in NodeState /\ SameTree(b, h)
  BY <1>3, TablesSame, Numbers DEF NodeState
<1> HIDE DEF h
<1>5. r \in NodeState /\ SameTree(h, r)
  BY <1>4, RefreshHeadSame
<1> HIDE DEF r
<1>6. sum \in Nat
  BY <1>5 DEF NodeState
<1> HIDE DEF sum
<1>7. w \in NodeState /\ SameTree(r, w)
  BY <1>5, <1>6, TablesSame DEF NodeState
<1> HIDE DEF w
<1>8. w \in FirmNodes(f)
  BY <1>1, <1>3, <1>4, <1>5, <1>7, FirmOn
<1>9. QED
  BY <1>2, <1>8, FollowTailFirm

(* A retained block that has no child and no entry of its own.               *)
Fresh(t, x) ==
  /\ Occupied(t, x) /\ Children(t, x) = {}
  /\ \A j \in Tracked(t) : t.heads[j].head # x

(* The first n blocks of a path.                                             *)
Prefix(path, n) == {path[i] : i \in 1 .. n}

(* What an eviction deletes is a prefix of the victim's path.                *)
LEMMA ReleaseCuts ==
  ASSUME NEW t \in NodeState, NEW path \in Seq(Ref), NEW stops, stops \subseteq DOMAIN path
  PROVE  \E n \in 0 .. Len(path) :
           LET D == Prefix(path, n)
               v == Release(t, path, stops)
           IN  /\ \A i \in 1 .. n : i \notin stops
               /\ \A s \in Slot : IF s \in D THEN v.blocks[s].hash = NoHash
                                  ELSE /\ v.blocks[s].hash = t.blocks[s].hash
                                       /\ v.blocks[s].parent = t.blocks[s].parent
               /\ \A s \in Slot \ D :
                    v.blocks[s].refs = IF n + 1 \in stops /\ s = path[n + 1] /\ Occupied(t, s)
                                       THEN Monus(t.blocks[s].refs, 1) ELSE t.blocks[s].refs
               /\ v.heads = t.heads
<1>1. Len(path) \in Nat /\ DOMAIN path = 1 .. Len(path)
  OBVIOUS
<1>2. CASE stops = {}
  <2> DEFINE n == Len(path)
             D == Prefix(path, n)
             v == DeleteBlocks(t, D)
  <2>1. D = Range(path)
    BY <1>1 DEF Prefix, Range
  <2>2. Release(t, path, stops) = v
    BY <1>2, <2>1 DEF Release
  <2>3. v.heads = t.heads
    BY DEF DeleteBlocks, NodeState
  <2> HIDE DEF D
  <2>4. CutOf(t, v, D)
    BY DeleteBlocksCuts
  <2> HIDE DEF v
  <2>5. n \in 0 .. Len(path)
    BY <1>1
  <2>6. QED
    BY <1>2, <2>2, <2>3, <2>4, <2>5 DEF CutOf, D
<1>3. CASE stops # {}
  <2> DEFINE m == Min(stops)
             n == m - 1
             D == Prefix(path, n)
             a == AdjustRefs(t, path[m], -1)
             v == DeleteBlocks(a, D)
  <2>1. m \in stops /\ m \in 1 .. Len(path) /\ \A i \in stops : m <= i
    <3>1. stops \subseteq Nat
      BY <1>1
    <3>2. QED
      BY <1>1, <1>3, <3>1, MinOf
  <2> HIDE DEF m
  <2>2. n \in 0 .. Len(path) /\ n + 1 = m /\ \A i \in 1 .. n : i \notin stops
    BY <1>1, <2>1
  <2>3. Range(SubSeq(path, 1, n)) = D
    <3>1. /\ DOMAIN SubSeq(path, 1, n) = 1 .. n
          /\ \A i \in 1 .. n : SubSeq(path, 1, n)[i] = path[i]
      BY <1>1, <2>2
    <3>2. QED
      BY <3>1 DEF Range, Prefix
  <2>4. Release(t, path, stops) = v
    BY <1>3, <2>3 DEF Release, m
  <2>5. path[m] \in Ref
    BY <1>1, <2>1
  <2>6. /\ a \in NodeState /\ a.heads = t.heads
        /\ \A s \in Slot : /\ a.blocks[s].hash = t.blocks[s].hash
                           /\ a.blocks[s].parent = t.blocks[s].parent
                           /\ a.blocks[s].refs = IF s = path[m] /\ Occupied(t, s)
                                                 THEN Monus(t.blocks[s].refs, 1)
                                                 ELSE t.blocks[s].refs
    <3>1. a \in NodeState
      BY AdjustRefsReduces DEF Reduces
    <3>2. CASE Occupied(t, path[m])
      <4> DEFINE e == [t.blocks[path[m]] EXCEPT !.refs = Monus(@, 1)]
      <4>1. a = [t EXCEPT !.blocks = [t.blocks EXCEPT ![path[m]] = e]]
        BY <3>2 DEF AdjustRefs
      <4>2. a.heads = t.heads /\ a.blocks = [t.blocks EXCEPT ![path[m]] = e]
        BY <4>1 DEF NodeState
      <4>3. path[m] \in Slot
        BY <3>2 DEF Occupied
      <4>4. e.refs = Monus(t.blocks[path[m]].refs, 1) /\ e.hash = t.blocks[path[m]].hash
            /\ e.parent = t.blocks[path[m]].parent
        BY <4>3 DEF NodeState, BlockEntry
      <4> HIDE DEF e, a
      <4>5. QED
        BY <3>1, <3>2, <4>2, <4>3, <4>4 DEF NodeState
    <3>3. CASE ~Occupied(t, path[m])
      BY <3>3 DEF AdjustRefs
    <3>4. QED
      BY <3>2, <3>3
  <2> HIDE DEF a, D
  <2>7. CutOf(a, v, D)
    BY <2>6, DeleteBlocksCuts
  <2>8. v.heads = a.heads
    BY <2>6 DEF DeleteBlocks, NodeState
  <2> HIDE DEF v, n
  <2>9. QED
    BY <2>1, <2>2, <2>4, <2>6, <2>7, <2>8 DEF CutOf, D
<1>4. QED
  BY <1>2, <1>3

(* Two members are one if there is room for one only.                        *)
LEMMA OnlyOne ==
  ASSUME NEW S, IsFiniteSet(S), Cardinality(S) <= 1, NEW a \in S, NEW b \in S
  PROVE  a = b
<1>1. IsFiniteSet(S \ {a}) /\ Cardinality(S \ {a}) = Cardinality(S) - 1
  BY FS_RemoveElement
<1>2. Cardinality(S \ {a}) \in Nat /\ Cardinality(S) \in Nat
  BY <1>1, FS_CardinalityType
<1>3. Cardinality(S \ {a}) = 0
  BY <1>1, <1>2
<1>4. S \ {a} = {}
  BY <1>1, <1>3, FS_EmptySet
<1>5. QED
  BY <1>4

(* An eviction deletes a child-closed set: below the victim's tip it goes on *)
(* only over blocks that count one branch, the one it comes from.  A fresh   *)
(* block is none of them.                                                    *)
LEMMA EvictFirm ==
  ASSUME NEW t \in FirmNodes(FALSE), NEW k \in Tracked(t), NEW x, Fresh(t, x)
  PROVE  LET w == Evict(t, k, Path(t, t.heads[k].head))
         IN  /\ w \in FirmNodes(FALSE) /\ Fresh(w, x)
             /\ w.blocks[x].refs = t.blocks[x].refs
<1> DEFINE h == t.heads[k].head
           p == Path(t, h)
           stops == Stops(t, p)
           v == Release(t, p, stops)
           w == Untrack(v, k)
<1>1. t \in NodeState /\ Tied(t) /\ Covered(t) /\ Tipped(t)
  BY DEF FirmNodes, Firm
<1>2. Occupied(t, h) /\ Children(t, h) = {} /\ k \in Branch
  BY <1>1 DEF Tipped, Tracked
<1>3. h \in Ref
  BY <1>1, <1>2, RetainedBlock
<1>4. PathFacts(t, h, p)
  BY <1>1, <1>3, PathElements
<1>5. Evict(t, k, p) = w
  BY DEF Evict
<1>6. w \in NodeState /\ v \in NodeState
  BY <1>1, <1>2, ReleaseReduces, UntrackReduces DEF Reduces
<1>7. stops = {i \in DOMAIN p : t.blocks[p[i]].onActive \/ t.blocks[p[i]].refs > 1}
  BY DEF Stops
<1> HIDE DEF p, stops
<1>8. PICK n \in 0 .. Len(p) :
           LET D == Prefix(p, n)
           IN  /\ \A i \in 1 .. n : i \notin stops
               /\ \A s \in Slot : IF s \in D THEN v.blocks[s].hash = NoHash
                                  ELSE /\ v.blocks[s].hash = t.blocks[s].hash
                                       /\ v.blocks[s].parent = t.blocks[s].parent
               /\ \A s \in Slot \ D :
                    v.blocks[s].refs = IF n + 1 \in stops /\ s = p[n + 1] /\ Occupied(t, s)
                                       THEN Monus(t.blocks[s].refs, 1) ELSE t.blocks[s].refs
               /\ v.heads = t.heads
  <2>1. p \in Seq(Ref) /\ stops \subseteq DOMAIN p
    BY <1>4, <1>7 DEF PathFacts
  <2>2. QED
    BY <1>1, <2>1, ReleaseCuts
<1> HIDE DEF v
<1> DEFINE D == Prefix(p, n)
<1>9. w.blocks = v.blocks /\ \A j \in Branch : w.heads[j].head = IF j = k THEN NoRef ELSE t.heads[j].head
  BY <1>2, <1>6, <1>8, EmptyHeadEntry DEF Untrack, NodeState
<1> HIDE DEF w
<1>10. /\ Len(p) \in Nat /\ DOMAIN p = 1 .. Len(p) /\ p[1] = h /\ n \in Nat
       /\ \A i \in DOMAIN p : Occupied(t, p[i])
       /\ \A i \in 2 .. Len(p) : p[i] = t.blocks[p[i - 1]].parent
  BY <1>2, <1>4, <1>8 DEF PathFacts
<1>11. \A s : Occupied(t, s) <=> s \in Retained(t)
  BY DEF Retained, Occupied
<1>12. \A s \in Retained(t) : /\ s \in Slot /\ t.blocks[s].refs \in Nat
                              /\ IsFiniteSet(Children(t, s)) /\ Cardinality(Children(t, s)) \in Nat
                              /\ Cardinality(Children(t, s)) <= t.blocks[s].refs
  BY <1>1, ChildrenFinite DEF Covered, NodeState, BlockEntry, Retained
<1>13. \A i \in 2 .. Len(p) : p[i - 1] \in Children(t, p[i])
  BY <1>10, <1>11 DEF Children
<1>14. \A i \in DOMAIN p : i = 1 \/ (i \in 2 .. Len(p) /\ i - 1 \in DOMAIN p)
  BY <1>10
<1>15. \A i \in 1 .. n : i \in DOMAIN p /\ ~(t.blocks[p[i]].refs > 1)
  BY <1>7, <1>8, <1>10
<1>16. ChildClosed(t, D)
  <2> SUFFICES ASSUME NEW c \in Retained(t), NEW i \in 1 .. n, t.blocks[c].parent = p[i]
               PROVE  c \in D
    BY DEF ChildClosed, Prefix
  <2>1. c \in Children(t, p[i]) /\ i \in DOMAIN p
    BY <1>15 DEF Children
  <2>2. i \in 2 .. Len(p) /\ i - 1 \in 1 .. n
    BY <1>2, <1>10, <1>14, <2>1
  <2>3. p[i] \in Retained(t)
    BY <1>10, <1>11, <2>1
  <2>6. Cardinality(Children(t, p[i])) <= 1
    <3> DEFINE r == t.blocks[p[i]].refs
               C == Cardinality(Children(t, p[i]))
    <3>1. r \in Nat /\ C \in Nat /\ C <= r
      BY <1>12, <2>3
    <3>2. ~(r > 1)
      BY <1>15
    <3> HIDE DEF r, C
    <3>3. C <= 1
      BY <3>1, <3>2
    <3>4. QED
      BY <3>3 DEF C
  <2>4. c = p[i - 1]
    BY <1>12, <1>13, <2>1, <2>2, <2>3, <2>6, OnlyOne
  <2>5. QED
    BY <2>2, <2>4 DEF Prefix
<1>17. Loses(t, w, D)
  BY <1>8, <1>9 DEF Loses
<1>18. /\ Retained(w) = Retained(t) \ D
       /\ \A s : Occupied(w, s) <=> Occupied(t, s) /\ s \notin D
       /\ \A s : Children(w, s) = Children(t, s) \ D
  BY <1>16, <1>17, LosesSees
<1>19. Tied(w)
  BY <1>1, <1>16, <1>17, LosesTied
<1>20. Covered(w)
  <2> SUFFICES ASSUME NEW s \in Retained(w)
               PROVE  Cardinality(Children(w, s)) <= w.blocks[s].refs
    BY DEF Covered
  <2>1. s \in Retained(t) /\ s \notin D /\ s \in Slot /\ Occupied(t, s)
    BY <1>11, <1>12, <1>18
  <2> DEFINE S == Children(t, s)
             r == t.blocks[s].refs
  <2>2. IsFiniteSet(S) /\ Cardinality(S) \in Nat /\ Cardinality(S) <= r /\ r \in Nat
    BY <1>12, <2>1
  <2>3. Children(w, s) \in SUBSET S
    BY <1>18
  <2>4. Cardinality(Children(w, s)) <= Cardinality(S) /\ Cardinality(Children(w, s)) \in Nat
    BY <2>2, <2>3, FS_Subset, ChildrenFinite
  <2>5. CASE ~(n + 1 \in stops /\ s = p[n + 1])
    BY <1>8, <1>9, <2>1, <2>2, <2>4, <2>5
  <2>6. CASE n + 1 \in stops /\ s = p[n + 1]
    <3>1. w.blocks[s].refs = Monus(r, 1) /\ n + 1 \in DOMAIN p
      BY <1>7, <1>8, <1>9, <2>1, <2>6
    <3>2. CASE n = 0
      <4>1. Children(w, s) = {}
        BY <1>2, <1>10, <1>18, <2>6, <3>2
      <4>2. Cardinality(Children(w, s)) = 0
        BY <4>1, FS_EmptySet
      <4>3. Monus(r, 1) \in Nat
        BY <2>2, MonusNat
      <4>4. QED
        BY <3>1, <4>2, <4>3
    <3>3. CASE n # 0
      <4>1. n \in 1 .. n /\ n + 1 \in 2 .. Len(p) /\ (n + 1) - 1 = n
        BY <1>10, <3>1, <3>3
      <4>2. p[n] \in S /\ p[n] \in D
        BY <1>13, <2>6, <4>1 DEF Prefix
      <4>3. Children(w, s) \in SUBSET (S \ {p[n]})
        BY <1>18, <4>2
      <4> HIDE DEF S
      <4>4. IsFiniteSet(S \ {p[n]}) /\ Cardinality(S \ {p[n]}) = Cardinality(S) - 1
        BY <2>2, <4>2, FS_RemoveElement
      <4>5. Cardinality(Children(w, s)) <= Cardinality(S) - 1
        BY <4>3, <4>4, FS_Subset
      <4> HIDE DEF r
      <4>6. Cardinality(Children(w, s)) <= Monus(r, 1)
        BY <2>2, <2>4, <4>5 DEF Monus
      <4>7. QED
        BY <3>1, <4>6
    <3>4. QED
      BY <3>2, <3>3
  <2>7. QED
    BY <2>5, <2>6
<1>21. ASSUME NEW g, Occupied(t, g), Children(t, g) = {}, g # h
       PROVE  /\ Occupied(w, g) /\ Children(w, g) = {}
              /\ w.blocks[g].refs = t.blocks[g].refs
  <2>1. ASSUME NEW i \in DOMAIN p PROVE g # p[i]
    BY <1>10, <1>13, <1>14, <1>21
  <2>2. g \notin D
    BY <1>15, <2>1 DEF Prefix
  <2>3. g \in Slot
    BY <1>21 DEF Occupied
  <2>4. ~(n + 1 \in stops /\ g = p[n + 1])
    BY <1>7, <2>1
  <2> HIDE DEF D
  <2>5. w.blocks[g].refs = t.blocks[g].refs
    BY <1>8, <1>9, <2>2, <2>3, <2>4 DEF D
  <2>6. QED
    BY <1>18, <1>21, <2>2, <2>5
<1>22. ASSUME NEW j \in Tracked(w)
       PROVE  j \in Tracked(t) /\ j # k /\ w.heads[j].head = t.heads[j].head
  BY <1>9 DEF Tracked
<1>23. Tipped(w)
  <2>1. ASSUME NEW j \in Tracked(w)
        PROVE  /\ Occupied(w, w.heads[j].head) /\ Children(w, w.heads[j].head) = {}
               /\ w.blocks[w.heads[j].head].refs >= 1
    <3> DEFINE g == t.heads[j].head
    <3>1. Occupied(t, g) /\ Children(t, g) = {} /\ t.blocks[g].refs >= 1 /\ g # h
      BY <1>1, <1>22 DEF Tipped
    <3>2. w.heads[j].head = g
      BY <1>22
    <3> HIDE DEF g
    <3>3. QED
      BY <1>21, <3>1, <3>2
  <2>2. ASSUME NEW i \in Tracked(w), NEW j \in Tracked(w), w.heads[i].head = w.heads[j].head
        PROVE  i = j
    BY <1>1, <1>22, <2>2 DEF Tipped
  <2>3. QED
    BY <2>1, <2>2 DEF Tipped
<1>24. Fresh(w, x) /\ w.blocks[x].refs = t.blocks[x].refs
  <2>1. Occupied(t, x) /\ Children(t, x) = {} /\ x # h /\ \A j \in Tracked(t) : t.heads[j].head # x
    BY DEF Fresh
  <2>2. QED
    BY <1>21, <1>22, <2>1 DEF Fresh
<1>25. QED
  BY <1>5, <1>6, <1>19, <1>20, <1>23, <1>24 DEF FirmNodes, Firm, p

(* The eviction that makes room for a fresh block leaves it alone.           *)
LEMMA EnsureRoomFirm ==
  ASSUME NEW t \in FirmNodes(FALSE), NEW x, Fresh(t, x)
  PROVE  LET w == EnsureRoom(t)
         IN  /\ w \in FirmNodes(FALSE) /\ Fresh(w, x)
             /\ w.blocks[x].refs = t.blocks[x].refs
<1> DEFINE w == EnsureRoom(t)
           V == EvictionVictims(t)
<1>1. CASE Cardinality(Tracked(t)) >= MaxBranches /\ V # {}
  <2>1. V \subseteq Tracked(t) /\ V \subseteq Nat
    BY Numbers DEF EvictionVictims, Tracked
  <2>2. Min(V) \in Tracked(t)
    BY <1>1, <2>1, MinOf
  <2>3. w = Evict(t, Min(V), Path(t, t.heads[Min(V)].head))
    BY <1>1 DEF EnsureRoom, EvictOne
  <2> HIDE DEF V, w
  <2>4. QED
    BY <2>2, <2>3, EvictFirm DEF w
<1>2. CASE ~(Cardinality(Tracked(t)) >= MaxBranches /\ V # {})
  <2>1. w = t
    BY <1>2 DEF EnsureRoom, EvictOne
  <2>2. QED
    BY <2>1
<1>3. QED
  BY <1>1, <1>2

(* A free entry exists as long as not all of them are in use.                *)
LEMMA EntryLeft ==
  ASSUME NEW t \in NodeState, Cardinality(Tracked(t)) < MaxBranches
  PROVE  Branch \ Tracked(t) # {}
<1>1. IsFiniteSet(Branch) /\ Cardinality(Branch) = MaxBranches /\ MaxBranches \in Nat
  BY BranchAssumption, FS_Interval DEF Branch
<1>2. Tracked(t) \subseteq Branch
  BY DEF Tracked
<1>3. Tracked(t) # Branch
  BY <1>1
<1>4. QED
  BY <1>2, <1>3

(* A fresh block that counts a branch gets a free entry, if there is one.    *)
LEMMA FillEntryFirm ==
  ASSUME NEW f, NEW t \in NodeState, Firm(t, FALSE), NEW x, Fresh(t, x), t.blocks[x].refs >= 1,
         f => Full(t, {x}) /\ Cardinality(Tracked(t)) < MaxBranches,
         NEW anchor, NEW prev \in Nat
  PROVE  LET w == FillEntry(t, x, anchor, prev)
         IN  w \in FirmNodes(f) /\ Occupied(w, x)
<1> DEFINE w == FillEntry(t, x, anchor, prev)
           U == Branch \ Tracked(t)
           k == LowestOf(U)
<1>1. Occupied(t, x) /\ Children(t, x) = {} /\ x \in Slot
  BY DEF Fresh, Occupied
<1>2. (U = {} => k = NoRef) /\ (U # {} => k \in U)
  BY Numbers, LowestIn
<1>3. w = PlaceHead(t, k, x, anchor, prev)
  BY DEF FillEntry
<1> HIDE DEF w, k
<1>4. CASE U = {}
  <2>1. k = NoRef
    BY <1>4, LowestIn, Numbers DEF k
  <2>2. w = t
    BY <1>3, <2>1 DEF PlaceHead
  <2>3. ~f
    BY <1>4, EntryLeft
  <2>4. QED
    BY <1>1, <2>2, <2>3 DEF FirmNodes, Firm, w
<1>5. CASE U # {}
  <2> DEFINE e == [EmptyHead EXCEPT !.head = x, !.tail = x]
             H == [t.heads EXCEPT ![k] = e]
             u == [t EXCEPT !.heads = H]
  <2>1. k \in U
    <3>1. U \subseteq Nat
      BY Numbers
    <3>2. QED
      BY <1>5, <3>1, LowestIn DEF k
  <2>2. k \in Branch /\ t.heads[k].head = NoRef /\ k # NoRef
    BY <2>1, Numbers DEF Tracked
  <2>3. w = RecomputeCaches(u, k, anchor, prev)
    BY <1>3, <2>2 DEF PlaceHead
  <2>4. e \in ChainHeadEntry /\ e.head = x
    BY <1>1, Numbers DEF EmptyHead, ChainHeadEntry, NoHash
  <2> HIDE DEF e
  <2>5. H \in [Branch -> ChainHeadEntry]
    BY <2>4 DEF NodeState
  <2>6. \A j \in Branch : H[j].head = IF j = k THEN x ELSE t.heads[j].head
    BY <2>2, <2>4 DEF NodeState
  <2> HIDE DEF H
  <2>7. u \in NodeState /\ u.blocks = t.blocks /\ u.heads = H
    BY <2>5 DEF NodeState
  <2> HIDE DEF u
  <2>8. /\ Retained(u) = Retained(t)
        /\ \A s : /\ Occupied(u, s) <=> Occupied(t, s)
                  /\ Children(u, s) = Children(t, s) /\ SeqAt(u, s) = SeqAt(t, s)
    BY <2>7 DEF Retained, Occupied, Children, SeqAt
  <2>9. \A j : j \in Tracked(u) <=> j = k \/ j \in Tracked(t)
    BY <1>1, <2>2, <2>6, <2>7, Numbers DEF Tracked
  <2>10. Tied(u) /\ Covered(u)
    BY <2>7, <2>8 DEF Firm, Tied, Covered
  <2>11. \A j \in Tracked(t) : /\ j # k /\ u.heads[j].head = t.heads[j].head
                               /\ t.heads[j].head # x
    BY <2>2, <2>6, <2>7 DEF Tracked, Fresh
  <2>12. u.heads[k].head = x
    BY <2>2, <2>6, <2>7
  <2>13. Tipped(u)
    <3>1. \A j \in Tracked(t) : /\ Occupied(t, t.heads[j].head)
                                /\ Children(t, t.heads[j].head) = {}
                                /\ t.blocks[t.heads[j].head].refs >= 1
      BY DEF Firm, Tipped
    <3>2. \A i, j \in Tracked(t) : t.heads[i].head = t.heads[j].head => i = j
      BY DEF Firm, Tipped
    <3>3. \A j \in Tracked(u) : /\ Occupied(u, u.heads[j].head)
                                /\ Children(u, u.heads[j].head) = {}
                                /\ u.blocks[u.heads[j].head].refs >= 1
      BY <1>1, <2>7, <2>8, <2>9, <2>11, <2>12, <3>1
    <3>4. \A i, j \in Tracked(u) : u.heads[i].head = u.heads[j].head => i = j
      BY <2>9, <2>11, <2>12, <3>2
    <3>5. QED
      BY <3>3, <3>4 DEF Tipped
  <2>14. f => Full(u, {})
    <3>1. SUFFICES ASSUME f, NEW s \in Retained(t)
                   PROVE  /\ u.blocks[s].refs = IF Children(u, s) = {} THEN 1
                                                ELSE Cardinality(Children(u, s))
                          /\ Children(u, s) = {} => \E j \in Tracked(u) : u.heads[j].head = s
      BY <2>8 DEF Full
    <3>2. /\ t.blocks[s].refs = IF Children(t, s) = {} THEN 1 ELSE Cardinality(Children(t, s))
          /\ Children(t, s) = {} /\ s # x => \E j \in Tracked(t) : t.heads[j].head = s
      BY <3>1 DEF Full
    <3>3. QED
      BY <2>7, <2>8, <2>9, <2>11, <2>12, <3>2
  <2>15. u \in FirmNodes(f)
    BY <2>7, <2>10, <2>13, <2>14 DEF FirmNodes, Firm
  <2>16. w \in NodeState /\ SameTree(u, w)
    BY <2>2, <2>3, <2>7, RecomputeCachesSame, RecomputeCachesReduces DEF Reduces
  <2>17. QED
    BY <1>1, <2>8, <2>15, <2>16, FirmOn, SameTreeSees DEF w
<1>6. QED
  BY <1>4, <1>5

(* The entry of a new tip.  As long as the table has never overflowed there  *)
(* is room, and nothing is evicted.                                          *)
LEMMA InsertHeadFirm ==
  ASSUME NEW f, NEW t \in NodeState, Firm(t, FALSE), NEW x, Fresh(t, x), t.blocks[x].refs >= 1,
         f => Full(t, {x}) /\ Cardinality(Tracked(t)) < MaxBranches,
         NEW anchor, NEW prev \in Nat
  PROVE  LET w == InsertHead(t, x, anchor, prev)
         IN  w \in FirmNodes(f) /\ Occupied(w, x)
<1> DEFINE u == EnsureRoom(t)
<1>1. InsertHead(t, x, anchor, prev) = FillEntry(u, x, anchor, prev)
  BY DEF InsertHead
<1>2. u \in FirmNodes(FALSE) /\ Fresh(u, x) /\ u.blocks[x].refs = t.blocks[x].refs
  BY EnsureRoomFirm DEF FirmNodes
<1>3. f => u = t
  <2>1. SUFFICES ASSUME f PROVE u = t
    OBVIOUS
  <2>2. IsFiniteSet(Branch)
    BY FS_Interval, BranchAssumption DEF Branch
  <2>3. Cardinality(Tracked(t)) \in Nat /\ MaxBranches \in Nat
    BY <2>2, FS_Subset, FS_CardinalityType, BranchAssumption DEF Tracked
  <2>4. QED
    BY <2>1, <2>3 DEF EnsureRoom
<1> HIDE DEF u
<1>4. u \in NodeState /\ Firm(u, FALSE)
  BY <1>2 DEF FirmNodes
<1>5. QED
  BY <1>1, <1>2, <1>3, <1>4, FillEntryFirm

(* w is t with block y under block x, and x counts it: an entry of x goes, or *)
(* x counts one branch more.                                                 *)
Hangs(t, w, y, x) ==
  /\ \A s \in Slot : /\ w.blocks[s].hash = t.blocks[s].hash
                     /\ w.blocks[s].parent = IF s = y THEN x ELSE t.blocks[s].parent
                     /\ s # x => w.blocks[s].refs = t.blocks[s].refs
  /\ \/ /\ \A k \in Tracked(t) : t.heads[k].head # x
        /\ w.blocks[x].refs = t.blocks[x].refs + 1
        /\ \A k \in Branch : w.heads[k].head = t.heads[k].head
     \/ /\ w.blocks[x].refs = t.blocks[x].refs
        /\ \E j \in Tracked(t) :
             /\ t.heads[j].head = x
             /\ \A k \in Branch : w.heads[k].head = IF k = j THEN NoRef ELSE t.heads[k].head

(* What the tree looks like then.                                            *)
LEMMA HangsSees ==
  ASSUME NEW t \in NodeState, NEW x, Occupied(t, x),
         NEW y, Occupied(t, y), t.blocks[y].parent = NoRef, NEW w, Hangs(t, w, y, x)
  PROVE  /\ Retained(w) = Retained(t) /\ x \in Retained(t) /\ y \in Retained(t)
         /\ \A s : Occupied(w, s) <=> Occupied(t, s)
         /\ \A s \in Slot : SeqAt(w, s) = SeqAt(t, s)
         /\ \A s \in Retained(t) : s # x => Children(w, s) = Children(t, s)
         /\ Children(w, x) = Children(t, x) \union {y} /\ y \notin Children(t, x)
         /\ \A k \in Tracked(w) : /\ k \in Tracked(t) /\ w.heads[k].head = t.heads[k].head
                                  /\ w.heads[k].head # x \/ ~Tipped(t)
<1>1. /\ Retained(w) = Retained(t)
      /\ \A s : Occupied(w, s) <=> Occupied(t, s)
      /\ \A s \in Slot : SeqAt(w, s) = SeqAt(t, s)
  BY DEF Hangs, Retained, Occupied, SeqAt
<1>2. x \in Retained(t) /\ y \in Retained(t) /\ x \in Slot /\ y \in Slot /\ x # NoRef
      /\ \A s \in Retained(t) : s \in Slot /\ s # NoRef
  BY Numbers DEF Occupied, Retained
<1>3. \A c \in Retained(t) : w.blocks[c].parent = IF c = y THEN x ELSE t.blocks[c].parent
  BY <1>2 DEF Hangs
<1>4. ASSUME NEW s \in Retained(t), s # x PROVE Children(w, s) = Children(t, s)
  BY <1>1, <1>2, <1>3, <1>4 DEF Children
<1>5. Children(w, x) = Children(t, x) \union {y} /\ y \notin Children(t, x)
  BY <1>1, <1>2, <1>3 DEF Children
<1>6. ASSUME NEW k \in Tracked(w)
      PROVE  /\ k \in Tracked(t) /\ w.heads[k].head = t.heads[k].head
             /\ w.heads[k].head # x \/ ~Tipped(t)
  <2>1. k \in Branch /\ w.heads[k].head # NoRef
    BY DEF Tracked
  <2>2. CASE /\ \A j \in Tracked(t) : t.heads[j].head # x
             /\ \A j \in Branch : w.heads[j].head = t.heads[j].head
    BY <2>1, <2>2 DEF Tracked
  <2>3. CASE \E j \in Tracked(t) :
               /\ t.heads[j].head = x
               /\ \A i \in Branch : w.heads[i].head = IF i = j THEN NoRef ELSE t.heads[i].head
    BY <2>1, <2>3 DEF Tracked, Tipped
  <2>4. QED
    BY <2>2, <2>3 DEF Hangs
<1>7. QED
  BY <1>1, <1>2, <1>4, <1>5, <1>6

(* The invariant survives it: the tip hung on is a tip no longer, and its    *)
(* entry is gone.                                                            *)
LEMMA HangsFirm ==
  ASSUME NEW f, NEW t \in FirmNodes(f), NEW x, Occupied(t, x),
         NEW y, Occupied(t, y), y # x, t.blocks[y].parent = NoRef, SeqAt(t, y) = SeqAt(t, x) + 1,
         NEW w \in NodeState, Hangs(t, w, y, x)
  PROVE  w \in FirmNodes(f) /\ Occupied(w, x)
<1> DEFINE C == Children(t, x)
           r == t.blocks[x].refs
<1>0. t \in NodeState /\ Tied(t) /\ Covered(t) /\ Tipped(t) /\ (f => Full(t, {}))
  BY DEF FirmNodes, Firm
<1>1. /\ Retained(w) = Retained(t) /\ x \in Retained(t) /\ y \in Retained(t)
      /\ \A s : Occupied(w, s) <=> Occupied(t, s)
      /\ \A s \in Slot : SeqAt(w, s) = SeqAt(t, s)
      /\ \A s \in Retained(t) : s # x => Children(w, s) = Children(t, s)
      /\ Children(w, x) = C \union {y} /\ y \notin C
      /\ \A k \in Tracked(w) : /\ k \in Tracked(t) /\ w.heads[k].head = t.heads[k].head
                               /\ w.heads[k].head # x
  BY <1>0, HangsSees
<1>2. \A s \in Retained(t) : s \in Slot /\ s # NoRef /\ Occupied(t, s)
  BY Numbers DEF Retained, Occupied
<1>3. /\ \A s \in Retained(t) : w.blocks[s].parent = IF s = y THEN x ELSE t.blocks[s].parent
      /\ \A s \in Retained(t) : s # x => w.blocks[s].refs = t.blocks[s].refs
  BY <1>2 DEF Hangs
<1>4. Tied(w)
  BY <1>0, <1>1, <1>2, <1>3 DEF Tied, Occupied
<1>5. /\ IsFiniteSet(C) /\ Cardinality(C) \in Nat /\ Cardinality(C) <= r /\ r \in Nat
      /\ Cardinality(C \union {y}) = Cardinality(C) + 1
  <2>1. IsFiniteSet(C) /\ Cardinality(C) \in Nat
    BY ChildrenFinite
  <2>2. Cardinality(C) <= r /\ r \in Nat
    BY <1>0, <1>1, <1>2 DEF Covered, NodeState, BlockEntry
  <2>3. QED
    BY <1>1, <2>1, <2>2, FS_AddElement
<1>6. \/ /\ \A k \in Tracked(t) : t.heads[k].head # x
         /\ w.blocks[x].refs = r + 1
         /\ \A k \in Branch : w.heads[k].head = t.heads[k].head
      \/ /\ w.blocks[x].refs = r /\ C = {} /\ r >= 1
         /\ \E j \in Tracked(t) :
              /\ t.heads[j].head = x
              /\ \A k \in Branch : w.heads[k].head = IF k = j THEN NoRef ELSE t.heads[k].head
  BY <1>0 DEF Hangs, Tipped
<1> HIDE DEF C, r
<1>7. Cardinality(C \union {y}) <= w.blocks[x].refs
  <2>1. C = {} => Cardinality(C) = 0
    BY FS_EmptySet
  <2>2. QED
    BY <1>5, <1>6, <2>1
<1>8. Covered(w)
  BY <1>0, <1>1, <1>3, <1>7 DEF Covered
<1>9. Tipped(w)
  <2>1. ASSUME NEW k \in Tracked(w)
        PROVE  /\ Occupied(w, w.heads[k].head) /\ Children(w, w.heads[k].head) = {}
               /\ w.blocks[w.heads[k].head].refs >= 1
    <3> DEFINE g == t.heads[k].head
    <3>1. Occupied(t, g) /\ Children(t, g) = {} /\ t.blocks[g].refs >= 1 /\ g # x
          /\ w.heads[k].head = g
      BY <1>0, <1>1 DEF Tipped
    <3>2. g \in Retained(t)
      BY <3>1 DEF Occupied, Retained
    <3> HIDE DEF g
    <3>3. QED
      BY <1>1, <1>3, <3>1, <3>2
  <2>2. \A i, j \in Tracked(w) : w.heads[i].head = w.heads[j].head => i = j
    BY <1>0, <1>1 DEF Tipped
  <2>3. QED
    BY <2>1, <2>2 DEF Tipped
<1>10. f => Full(w, {})
  <2> SUFFICES ASSUME f, NEW s \in Retained(t)
               PROVE  /\ w.blocks[s].refs = IF Children(w, s) = {} THEN 1
                                            ELSE Cardinality(Children(w, s))
                      /\ Children(w, s) = {} => \E k \in Tracked(w) : w.heads[k].head = s
    BY <1>1 DEF Full
  <2>1. \A q \in Retained(t) :
          /\ t.blocks[q].refs = IF Children(t, q) = {} THEN 1 ELSE Cardinality(Children(t, q))
          /\ Children(t, q) = {} => \E k \in Tracked(t) : t.heads[k].head = q
    BY <1>0 DEF Full
  <2>2. CASE s # x
    <3>1. Children(w, s) = Children(t, s) /\ w.blocks[s].refs = t.blocks[s].refs
      BY <1>1, <1>3, <2>2
    <3>2. \A k \in Tracked(t) : t.heads[k].head = s => k \in Tracked(w) /\ w.heads[k].head = s
      BY <1>2, <1>6, <2>2 DEF Tracked
    <3>3. QED
      BY <2>1, <3>1, <3>2
  <2>3. CASE s = x
    <3>1. r = (IF C = {} THEN 1 ELSE Cardinality(C)) /\ (C = {} => \E k \in Tracked(t) : t.heads[k].head = x)
      BY <1>1, <2>1 DEF r, C
    <3>2. C = {} => Cardinality(C) = 0
      BY FS_EmptySet
    <3>3. w.blocks[x].refs = Cardinality(C \union {y})
      BY <1>5, <1>6, <3>1, <3>2
    <3>4. C \union {y} # {}
      OBVIOUS
    <3>5. QED
      BY <1>1, <2>3, <3>3, <3>4
  <2>4. QED
    BY <2>2, <2>3
<1>11. QED
  BY <1>1, <1>2, <1>4, <1>8, <1>9, <1>10 DEF FirmNodes, Firm

(* attach_tail hangs the root of a waiting branch on the block it waited     *)
(* for.                                                                      *)
LEMMA AttachTailFirm ==
  ASSUME NEW f, NEW t \in FirmNodes(f), NEW k \in Branch, NEW x, Occupied(t, x)
  PROVE  LET w == AttachTail(t, k, x) IN w \in FirmNodes(f) /\ Occupied(w, x)
<1> DEFINE y == t.heads[k].tail
           waits == /\ k \in StoredHeads(t) /\ y # x
                    /\ t.heads[k].missing = t.blocks[x].hash
                    /\ Occupied(t, y) /\ t.blocks[y].parent = NoRef
                    /\ SeqAt(t, y) = SeqAt(t, x) + 1
           u == SetParent(t, y, x)
           w == AttachTail(t, k, x)
<1>1. t \in NodeState
  BY DEF FirmNodes
<1>2. CASE ~waits
  <2>1. w = t
    BY <1>2 DEF AttachTail
  <2>2. QED
    BY <2>1
<1>3. CASE waits
  <2> DEFINE e == [t.blocks[y] EXCEPT !.parent = x]
             j == HeadOf(u, x)
  <2>1. y \in Slot /\ x \in Slot /\ x \in Ref /\ y # x
    BY <1>3, Numbers DEF Occupied
  <2>2. w \in NodeState
    BY <1>1, <2>1, AttachTailReduces DEF Reduces
  <2>3. w = IF j # NoRef THEN Untrack(u, j) ELSE AdjustRefs(u, x, 1)
    BY <1>3 DEF AttachTail
  <2>4. u = [t EXCEPT !.blocks = [t.blocks EXCEPT ![y] = e]]
    BY DEF SetParent
  <2>5. /\ e.hash = t.blocks[y].hash /\ e.parent = x /\ e.refs = t.blocks[y].refs
        /\ e \in BlockEntry
    BY <1>1, <2>1 DEF NodeState, BlockEntry
  <2> HIDE DEF e, w
  <2>6. u.heads = t.heads /\ u.blocks = [t.blocks EXCEPT ![y] = e] /\ u \in NodeState
    BY <1>1, <2>1, <2>4, <2>5 DEF NodeState
  <2> HIDE DEF u
  <2>7. \A s \in Slot : /\ u.blocks[s].hash = t.blocks[s].hash
                        /\ u.blocks[s].parent = IF s = y THEN x ELSE t.blocks[s].parent
                        /\ u.blocks[s].refs = t.blocks[s].refs
    BY <1>1, <2>5, <2>6 DEF NodeState
  <2>8. Tracked(u) = Tracked(t) /\ Tracked(t) \subseteq Nat /\ j = HeadOf(t, x)
    BY <2>6, Numbers DEF Tracked, HeadOf
  <2> DEFINE S == {i \in Tracked(t) : t.heads[i].head = x}
  <2>9. j = LowestOf(S) /\ S \subseteq Nat
    BY <2>8 DEF HeadOf
  <2> HIDE DEF j
  <2>10. CASE j # NoRef
    <3>1. j \in S
      BY <2>9, <2>10, LowestIn
    <3>2. j \in Branch /\ j \in Tracked(t) /\ t.heads[j].head = x
      BY <3>1 DEF Tracked
    <3>3. w = [u EXCEPT !.heads = [u.heads EXCEPT ![j] = EmptyHead]]
      BY <2>3, <2>10 DEF Untrack
    <3>4. w.blocks = u.blocks /\ w.heads = [u.heads EXCEPT ![j] = EmptyHead]
      BY <2>6, <3>3 DEF NodeState
    <3>5. \A i \in Branch : w.heads[i].head = IF i = j THEN NoRef ELSE t.heads[i].head
      BY <1>1, <2>6, <3>2, <3>4, EmptyHeadEntry DEF NodeState
    <3>6. Hangs(t, w, y, x)
      BY <2>1, <2>7, <3>2, <3>4, <3>5 DEF Hangs
    <3>7. QED
      BY <1>3, <2>2, <3>6, HangsFirm DEF w
  <2>11. CASE j = NoRef
    <3> DEFINE d == [u.blocks[x] EXCEPT !.refs = @ + 1]
    <3>1. S = {}
      <4>1. \A i \in S : i # NoRef
        BY Numbers DEF Tracked
      <4>2. QED
        BY <2>9, <2>11, <4>1, LowestIn
    <3>2. Occupied(u, x)
      BY <2>1, <2>7 DEF Occupied
    <3>3. w = [u EXCEPT !.blocks = [u.blocks EXCEPT ![x] = d]]
      BY <2>3, <2>11, <3>2 DEF AdjustRefs
    <3>4. d.hash = u.blocks[x].hash /\ d.parent = u.blocks[x].parent
          /\ d.refs = u.blocks[x].refs + 1
      BY <2>1, <2>6 DEF NodeState, BlockEntry
    <3> HIDE DEF d
    <3>5. w.heads = u.heads /\ w.blocks = [u.blocks EXCEPT ![x] = d]
      BY <2>6, <3>3 DEF NodeState
    <3>6. \A s \in Slot : w.blocks[s] = IF s = x THEN d ELSE u.blocks[s]
      BY <2>6, <3>5 DEF NodeState
    <3>7. Hangs(t, w, y, x)
      BY <2>1, <2>6, <2>7, <3>1, <3>4, <3>5, <3>6 DEF Hangs
    <3>8. QED
      BY <1>3, <2>2, <3>7, HangsFirm DEF w
  <2>12. QED
    BY <2>10, <2>11
<1>4. QED
  BY <1>2, <1>3

(* All the branches that waited for the block.                               *)
LEMMA ResolvePendingTailsFirm ==
  ASSUME NEW f, NEW t \in FirmNodes(f), NEW x
  PROVE  /\ ResolvePendingTails(t, x) \in FirmNodes(f)
         /\ Occupied(t, x) => Occupied(ResolvePendingTails(t, x), x)
<1>1. CASE ~Occupied(t, x)
  BY <1>1 DEF ResolvePendingTails
<1>2. CASE Occupied(t, x)
  <2> DEFINE T == {u \in FirmNodes(f) : Occupied(u, x)}
             a == AttachTails(t, x)
             h == t.blocks[x].hash
             w == RefreshWaiting(a, x, h)
  <2>1. \A u \in T, k \in Branch : AttachTail(u, k, x) \in T
    BY AttachTailFirm
  <2>2. t \in T
    BY <1>2
  <2> HIDE DEF T
  <2>3. a \in T
    BY <2>1, <2>2, AttachTailsRuns
  <2>4. a \in FirmNodes(f) /\ a \in NodeState /\ Occupied(a, x)
    BY <2>3 DEF T, FirmNodes
  <2> HIDE DEF a
  <2>5. h \in Block
    BY <1>2, RetainedBlock DEF FirmNodes
  <2>6. w \in NodeState /\ SameTree(a, w)
    BY <2>4, <2>5, RefreshWaitingSame
  <2>7. w \in FirmNodes(f) /\ Occupied(w, x)
    BY <2>4, <2>6, FirmOn, SameTreeSees
  <2>8. QED
    BY <1>2, <2>7 DEF ResolvePendingTails, a
<1>3. QED
  BY <1>1, <1>2

(* v is t with block b in the free slot x, below block p, counting one branch *)
Plants(t, v, b, x, p) ==
  /\ \A s \in Slot : /\ v.blocks[s].hash = IF s = x THEN b ELSE t.blocks[s].hash
                     /\ v.blocks[s].parent = IF s = x THEN p ELSE t.blocks[s].parent
                     /\ s \notin {x, p} => v.blocks[s].refs = t.blocks[s].refs
  /\ v.blocks[x].refs = 1

(* Where a new block may go.                                                 *)
MayPlace(t, b, x, p) ==
  /\ x \in Slot /\ ~Occupied(t, x) /\ b \in Block
  /\ p # NoRef => Occupied(t, p) /\ BlockSeq[b] = SeqAt(t, p) + 1

(* What the tree looks like then.                                            *)
LEMMA PlantsSees ==
  ASSUME NEW t \in NodeState, Tied(t), NEW b, NEW x, NEW p, MayPlace(t, b, x, p),
         NEW v, Plants(t, v, b, x, p)
  PROVE  /\ \A s : s \in Retained(v) <=> s = x \/ s \in Retained(t)
         /\ \A s : Occupied(v, s) <=> s = x \/ Occupied(t, s)
         /\ x \notin Retained(t) /\ Children(v, x) = {}
         /\ \A s \in Retained(t) : /\ x \notin Children(t, s)
                                   /\ s # p => Children(v, s) = Children(t, s)
                                   /\ s = p => Children(v, s) = Children(t, s) \union {x}
         /\ Tied(v)
<1>1. b # NoHash /\ x \in Slot /\ x # NoRef /\ b \in Block /\ x # p
  BY Numbers, HeaderNumbers DEF MayPlace
<1>2. /\ \A s : s \in Retained(v) <=> s = x \/ s \in Retained(t)
      /\ \A s : Occupied(v, s) <=> s = x \/ Occupied(t, s)
  BY <1>1 DEF Plants, Retained, Occupied
<1>3. x \notin Retained(t) /\ \A s : s \in Retained(t) <=> Occupied(t, s)
  BY DEF Retained, Occupied, MayPlace
<1>4. \A s \in Retained(t) : s \in Slot /\ s # NoRef /\ s # x
  BY <1>3, Numbers DEF Retained
<1>5. \A s \in Retained(t) : v.blocks[s].parent = t.blocks[s].parent /\ v.blocks[s].hash = t.blocks[s].hash
  BY <1>4 DEF Plants
<1>6. v.blocks[x].parent = p /\ v.blocks[x].hash = b
  BY <1>1 DEF Plants
<1>7. \A s \in Retained(t) : t.blocks[s].parent # x
  BY <1>1, <1>3 DEF Tied
<1>8. Children(v, x) = {}
  BY <1>1, <1>2, <1>5, <1>6, <1>7 DEF Children
<1>9. ASSUME NEW s \in Retained(t)
      PROVE  /\ x \notin Children(t, s)
             /\ s # p => Children(v, s) = Children(t, s)
             /\ s = p => Children(v, s) = Children(t, s) \union {x}
  BY <1>2, <1>3, <1>5, <1>6 DEF Children
<1>10. Tied(v)
  <2> SUFFICES ASSUME NEW s \in Retained(v), v.blocks[s].parent # NoRef
               PROVE  /\ Occupied(v, v.blocks[s].parent)
                      /\ SeqAt(v, s) = SeqAt(v, v.blocks[s].parent) + 1
    BY DEF Tied
  <2>1. \A r : Occupied(t, r) => SeqAt(v, r) = SeqAt(t, r)
    BY <1>3, <1>5 DEF SeqAt
  <2>2. CASE s = x
    <3>1. Occupied(t, p) /\ BlockSeq[b] = SeqAt(t, p) + 1
      BY <1>6, <2>2 DEF MayPlace
    <3>2. SeqAt(v, x) = BlockSeq[b]
      BY <1>6 DEF SeqAt
    <3>3. QED
      BY <1>2, <1>6, <2>1, <2>2, <3>1, <3>2
  <2>3. CASE s # x
    BY <1>2, <1>3, <1>5, <2>1, <2>3 DEF Tied
  <2>4. QED
    BY <2>2, <2>3
<1>11. QED
  BY <1>2, <1>3, <1>8, <1>9, <1>10

(* The new block's parent had no entry: it counts one branch more.           *)
LEMMA PlantedFirm ==
  ASSUME NEW f, NEW t \in FirmNodes(f), NEW b, NEW x, NEW p, MayPlace(t, b, x, p),
         NEW v, Plants(t, v, b, x, p),
         \A k \in Branch : v.heads[k].head = t.heads[k].head,
         p # NoRef => /\ v.blocks[p].refs = t.blocks[p].refs + 1
                      /\ \A k \in Tracked(t) : t.heads[k].head # p
  PROVE  /\ Firm(v, FALSE) /\ Fresh(v, x) /\ v.blocks[x].refs >= 1
         /\ f => Full(v, {x})
         /\ Tracked(v) = Tracked(t)
<1>0. t \in NodeState /\ Tied(t) /\ Covered(t) /\ Tipped(t) /\ (f => Full(t, {}))
  BY DEF FirmNodes, Firm
<1>1. /\ \A s : s \in Retained(v) <=> s = x \/ s \in Retained(t)
      /\ \A s : Occupied(v, s) <=> s = x \/ Occupied(t, s)
      /\ x \notin Retained(t) /\ Children(v, x) = {}
      /\ \A s \in Retained(t) : /\ x \notin Children(t, s)
                                /\ s # p => Children(v, s) = Children(t, s)
                                /\ s = p => Children(v, s) = Children(t, s) \union {x}
      /\ Tied(v)
  BY <1>0, PlantsSees
<1>2. /\ \A s \in Retained(t) : s \in Slot /\ s # NoRef /\ s # x
      /\ \A s : s \in Retained(t) <=> Occupied(t, s)
  BY <1>1, Numbers DEF Retained, Occupied
<1>3. v.blocks[x].refs = 1 /\ \A s \in Retained(t) : s # p => v.blocks[s].refs = t.blocks[s].refs
  BY <1>2 DEF Plants
<1>4. Tracked(v) = Tracked(t) /\ \A k \in Tracked(t) : v.heads[k].head = t.heads[k].head
  BY DEF Tracked
<1>5. \A s \in Retained(t) : /\ t.blocks[s].refs \in Nat /\ IsFiniteSet(Children(t, s))
                             /\ Cardinality(Children(t, s)) \in Nat
                             /\ Cardinality(Children(t, s)) <= t.blocks[s].refs
  BY <1>0, <1>2, ChildrenFinite DEF Covered, NodeState, BlockEntry
<1>6. ASSUME NEW s \in Retained(t), s = p
      PROVE  Cardinality(Children(v, s)) = Cardinality(Children(t, s)) + 1
  BY <1>1, <1>5, <1>6, FS_AddElement
<1>7. Cardinality(Children(v, x)) = 0
  BY <1>1, FS_EmptySet
<1>8. \A s \in Retained(t) : s = p => v.blocks[s].refs = t.blocks[s].refs + 1
  BY <1>2
<1>9. Covered(v)
  <2> SUFFICES ASSUME NEW s \in Retained(v)
               PROVE  Cardinality(Children(v, s)) <= v.blocks[s].refs
    BY DEF Covered
  <2>1. CASE s = x
    BY <1>3, <1>7, <2>1
  <2>2. CASE s \in Retained(t) /\ s # p
    BY <1>1, <1>3, <1>5, <2>2
  <2>3. CASE s \in Retained(t) /\ s = p
    BY <1>5, <1>6, <1>8, <2>3
  <2>4. QED
    BY <1>1, <2>1, <2>2, <2>3
<1>10. ASSUME NEW k \in Tracked(t)
       PROVE  LET g == t.heads[k].head
              IN  /\ g \in Retained(t) /\ g # p /\ g # x
                  /\ Children(v, g) = {} /\ v.blocks[g].refs >= 1
  <2> DEFINE g == t.heads[k].head
  <2>1. Occupied(t, g) /\ Children(t, g) = {} /\ t.blocks[g].refs >= 1
    BY <1>0 DEF Tipped
  <2>2. g \in Retained(t) /\ g # x /\ g # p
    BY <1>2, <2>1
  <2> HIDE DEF g
  <2>3. QED
    BY <1>1, <1>3, <2>1, <2>2 DEF g
<1>11. Tipped(v)
  <2>1. \A i, j \in Tracked(v) : v.heads[i].head = v.heads[j].head => i = j
    BY <1>0, <1>4 DEF Tipped
  <2>2. \A k \in Tracked(v) : /\ Occupied(v, v.heads[k].head) /\ Children(v, v.heads[k].head) = {}
                              /\ v.blocks[v.heads[k].head].refs >= 1
    BY <1>1, <1>2, <1>4, <1>10
  <2>3. QED
    BY <2>1, <2>2 DEF Tipped
<1>12. Fresh(v, x)
  BY <1>1, <1>4, <1>10 DEF Fresh
<1>13. f => Full(v, {x})
  <2> SUFFICES ASSUME f, NEW s \in Retained(v)
               PROVE  /\ v.blocks[s].refs = IF Children(v, s) = {} THEN 1
                                            ELSE Cardinality(Children(v, s))
                      /\ Children(v, s) = {} /\ s # x => \E k \in Tracked(v) : v.heads[k].head = s
    BY DEF Full
  <2>1. \A q \in Retained(t) :
          /\ t.blocks[q].refs = IF Children(t, q) = {} THEN 1 ELSE Cardinality(Children(t, q))
          /\ Children(t, q) = {} => \E k \in Tracked(t) : t.heads[k].head = q
    BY <1>0 DEF Full
  <2>2. CASE s = x
    BY <1>1, <1>3, <2>2
  <2>3. CASE s \in Retained(t) /\ s # p
    BY <1>1, <1>3, <1>4, <2>1, <2>3
  <2>4. CASE s \in Retained(t) /\ s = p
    <3>1. Children(t, s) # {} /\ t.blocks[s].refs = Cardinality(Children(t, s))
      BY <1>2, <2>1, <2>4
    <3>2. v.blocks[s].refs = Cardinality(Children(v, s))
      BY <1>6, <1>8, <2>4, <3>1
    <3>3. Children(v, s) # {}
      BY <1>1, <2>4
    <3>4. QED
      BY <3>2, <3>3
  <2>5. QED
    BY <1>1, <2>2, <2>3, <2>4
<1>14. QED
  BY <1>1, <1>3, <1>4, <1>9, <1>11, <1>12, <1>13 DEF Firm

(* The new block takes over its parent's entry.                              *)
LEMMA TakenOverFirm ==
  ASSUME NEW f, NEW t \in FirmNodes(f), NEW b, NEW x, NEW p, MayPlace(t, b, x, p),
         NEW v \in NodeState, Plants(t, v, b, x, p), v.blocks[p].refs = t.blocks[p].refs,
         NEW k \in Tracked(t), t.heads[k].head = p,
         \A j \in Branch : v.heads[j].head = IF j = k THEN x ELSE t.heads[j].head
  PROVE  v \in FirmNodes(f)
<1>0. t \in NodeState /\ Tied(t) /\ Covered(t) /\ Tipped(t) /\ (f => Full(t, {}))
  BY DEF FirmNodes, Firm
<1>1. /\ \A s : s \in Retained(v) <=> s = x \/ s \in Retained(t)
      /\ \A s : Occupied(v, s) <=> s = x \/ Occupied(t, s)
      /\ x \notin Retained(t) /\ Children(v, x) = {}
      /\ \A s \in Retained(t) : /\ x \notin Children(t, s)
                                /\ s # p => Children(v, s) = Children(t, s)
                                /\ s = p => Children(v, s) = Children(t, s) \union {x}
      /\ Tied(v)
  BY <1>0, PlantsSees
<1>2. /\ \A s \in Retained(t) : s \in Slot /\ s # NoRef /\ s # x
      /\ \A s : s \in Retained(t) <=> Occupied(t, s)
      /\ x # NoRef /\ k \in Branch
  BY <1>1, Numbers DEF Retained, Occupied, MayPlace, Tracked
<1>3. v.blocks[x].refs = 1 /\ \A s \in Retained(t) : v.blocks[s].refs = t.blocks[s].refs
  BY <1>2 DEF Plants
<1>4. /\ \A j : j \in Tracked(v) <=> j \in Tracked(t)
      /\ \A j \in Tracked(t) : v.heads[j].head = IF j = k THEN x ELSE t.heads[j].head
  BY <1>2 DEF Tracked
<1>5. Occupied(t, p) /\ Children(t, p) = {} /\ t.blocks[p].refs >= 1 /\ p \in Retained(t)
  BY <1>0, <1>2 DEF Tipped
<1>6. Children(v, p) = {x} /\ Cardinality(Children(v, p)) = 1
  <2>1. Children(v, p) = {x}
    BY <1>1, <1>5
  <2>2. Cardinality({x}) = 1
    BY FS_Singleton
  <2>3. QED
    BY <2>1, <2>2
<1>7. Cardinality(Children(v, x)) = 0
  BY <1>1, FS_EmptySet
<1>8. Covered(v)
  <2> SUFFICES ASSUME NEW s \in Retained(v)
               PROVE  Cardinality(Children(v, s)) <= v.blocks[s].refs
    BY DEF Covered
  <2>1. CASE s = x
    BY <1>3, <1>7, <2>1
  <2>2. CASE s \in Retained(t) /\ s # p
    BY <1>0, <1>1, <1>3, <2>2 DEF Covered
  <2>3. CASE s = p
    BY <1>3, <1>5, <1>6, <2>3
  <2>4. QED
    BY <1>1, <2>1, <2>2, <2>3
<1>9. Tipped(v)
  <2>1. ASSUME NEW j \in Tracked(t), j # k
        PROVE  LET g == t.heads[j].head
               IN  /\ g \in Retained(t) /\ g # p /\ g # x
                   /\ Children(v, g) = {} /\ v.blocks[g].refs >= 1
    <3> DEFINE g == t.heads[j].head
    <3>1. Occupied(t, g) /\ Children(t, g) = {} /\ t.blocks[g].refs >= 1 /\ g # p
      BY <1>0, <2>1 DEF Tipped
    <3>2. g \in Retained(t) /\ g # x
      BY <1>2, <3>1
    <3> HIDE DEF g
    <3>3. QED
      BY <1>1, <1>3, <3>1, <3>2 DEF g
  <2>2. \A i, j \in Tracked(t) : t.heads[i].head = t.heads[j].head => i = j
    BY <1>0 DEF Tipped
  <2>3. \A i, j \in Tracked(v) : v.heads[i].head = v.heads[j].head => i = j
    BY <1>4, <2>1, <2>2
  <2>4. ASSUME NEW j \in Tracked(v)
        PROVE  /\ Occupied(v, v.heads[j].head) /\ Children(v, v.heads[j].head) = {}
               /\ v.blocks[v.heads[j].head].refs >= 1
    BY <1>1, <1>2, <1>3, <1>4, <2>1
  <2>5. QED
    BY <2>3, <2>4 DEF Tipped
<1>10. f => Full(v, {})
  <2> SUFFICES ASSUME f, NEW s \in Retained(v)
               PROVE  /\ v.blocks[s].refs = IF Children(v, s) = {} THEN 1
                                            ELSE Cardinality(Children(v, s))
                      /\ Children(v, s) = {} => \E j \in Tracked(v) : v.heads[j].head = s
    BY DEF Full
  <2>1. \A q \in Retained(t) :
          /\ t.blocks[q].refs = IF Children(t, q) = {} THEN 1 ELSE Cardinality(Children(t, q))
          /\ Children(t, q) = {} => \E j \in Tracked(t) : t.heads[j].head = q
    BY <1>0 DEF Full
  <2>2. CASE s = x
    BY <1>1, <1>3, <1>4, <2>2
  <2>3. CASE s \in Retained(t) /\ s # p
    BY <1>1, <1>3, <1>4, <2>1, <2>3
  <2>4. CASE s = p
    BY <1>3, <1>5, <1>6, <2>1, <2>4
  <2>5. QED
    BY <1>1, <2>2, <2>3, <2>4
<1>11. QED
  BY <1>1, <1>8, <1>9, <1>10 DEF FirmNodes, Firm

(* The main lemma of admission: on_block_admitted restores the invariant     *)
(* after a block is placed, unless a new tip finds no free entry.            *)
LEMMA AdmittedFirm ==
  ASSUME NEW f, NEW t \in FirmNodes(f), NEW b, NEW x, NEW p, MayPlace(t, b, x, p),
         NEW a \in NodeState, a.heads = t.heads,
         a.blocks[x].hash = b, a.blocks[x].parent = p, a.blocks[x].refs = 0,
         \A s \in Slot : s # x => a.blocks[s] = t.blocks[s],
         f => \/ Cardinality(Tracked(t)) < MaxBranches
              \/ p # NoRef /\ HeadOf(t, p) # NoRef
  PROVE  OnBlockAdmitted(a, x, p) \in FirmNodes(f) /\ Occupied(OnBlockAdmitted(a, x, p), x)
<1> DEFINE u == AdjustRefs(a, x, 1)
           prev == PrevHash[b]
           k == IF p = NoRef THEN NoRef ELSE HeadOf(a, p)
           w == PlaceTip(u, x, p, k, prev)
<1>1. /\ x \in Slot /\ b \in Block /\ b # NoHash /\ prev \in Nat /\ t \in NodeState
      /\ x # p /\ x \in Ref /\ p \in Ref
  BY Numbers, HeaderNumbers DEF MayPlace, FirmNodes, Occupied
<1>2. OnBlockAdmitted(a, x, p) = ResolvePendingTails(w, x)
  BY DEF OnBlockAdmitted
<1>3. Occupied(a, x)
  BY <1>1 DEF Occupied
<1>4. u.heads = t.heads /\ u \in NodeState
      /\ u.blocks[x].hash = b /\ u.blocks[x].parent = p /\ u.blocks[x].refs = 1
      /\ \A s \in Slot : s # x => u.blocks[s] = t.blocks[s]
  <2> DEFINE e == [a.blocks[x] EXCEPT !.refs = @ + 1]
  <2>1. u = [a EXCEPT !.blocks = [a.blocks EXCEPT ![x] = e]]
    BY <1>3 DEF AdjustRefs
  <2>2. e.hash = b /\ e.parent = p /\ e.refs = 1
    BY <1>1 DEF NodeState, BlockEntry
  <2> HIDE DEF e
  <2>3. u \in NodeState
    BY AdjustRefsReduces DEF Reduces
  <2>4. u.heads = a.heads /\ u.blocks = [a.blocks EXCEPT ![x] = e]
    BY <2>1 DEF NodeState
  <2> HIDE DEF u
  <2>5. QED
    BY <1>1, <2>2, <2>3, <2>4 DEF NodeState
<1>5. k = IF p = NoRef THEN NoRef ELSE HeadOf(t, p)
  <2>1. Tracked(a) = Tracked(t)
    BY DEF Tracked
  <2>2. HeadOf(a, p) = HeadOf(t, p)
    BY <2>1 DEF HeadOf
  <2>3. QED
    BY <2>2
<1> HIDE DEF u, k
<1> DEFINE S == {j \in Tracked(t) : t.heads[j].head = p}
<1>6. HeadOf(t, p) = LowestOf(S) /\ S \subseteq Nat /\ \A j \in S : j \in Branch /\ j # NoRef
  BY Numbers DEF HeadOf, Tracked
<1>7. CASE k # NoRef
  <2> DEFINE H == [t.heads EXCEPT ![k].head = x]
             v == [u EXCEPT !.heads[k].head = x]
  <2>1. p # NoRef /\ k \in S /\ k \in Branch /\ k \in Tracked(t) /\ t.heads[k].head = p
    BY <1>5, <1>6, <1>7, LowestIn
  <2>2. H \in [Branch -> ChainHeadEntry]
        /\ \A j \in Branch : H[j].head = IF j = k THEN x ELSE t.heads[j].head
    BY <1>1, <2>1 DEF NodeState, ChainHeadEntry
  <2>3. v = [u EXCEPT !.heads = H]
    BY <1>4 DEF NodeState
  <2>4. w = RecomputeCaches(v, k, x, prev)
    BY <1>7 DEF PlaceTip
  <2> HIDE DEF H, v, w
  <2>5. v \in NodeState /\ v.blocks = u.blocks /\ v.heads = H
    BY <1>4, <2>2, <2>3 DEF NodeState
  <2>6. p \in Slot
    BY <2>1 DEF MayPlace, Occupied
  <2>7. Plants(t, v, b, x, p) /\ v.blocks[p].refs = t.blocks[p].refs
    BY <1>1, <1>4, <2>5, <2>6 DEF Plants
  <2>8. v \in FirmNodes(f)
    BY <2>1, <2>2, <2>5, <2>7, TakenOverFirm
  <2>9. w \in NodeState /\ SameTree(v, w)
    BY <1>1, <2>1, <2>4, <2>5, RecomputeCachesSame, RecomputeCachesReduces DEF Reduces
  <2>10. w \in FirmNodes(f) /\ Occupied(w, x)
    <3>1. Occupied(v, x)
      BY <1>1, <2>7 DEF Plants, Occupied
    <3>2. QED
      BY <2>8, <2>9, <3>1, FirmOn, SameTreeSees
  <2>11. QED
    BY <1>2, <2>10, ResolvePendingTailsFirm DEF w
<1>8. CASE k = NoRef
  <2> DEFINE v == AdjustRefs(u, p, 1)
  <2>1. w = InsertHead(v, x, x, prev)
    BY <1>8 DEF PlaceTip
  <2> HIDE DEF w
  <2>2. p # NoRef => p \in Slot /\ Occupied(t, p) /\ \A j \in Tracked(t) : t.heads[j].head # p
    <3>1. SUFFICES ASSUME p # NoRef
                   PROVE  p \in Slot /\ Occupied(t, p) /\ S = {}
      OBVIOUS
    <3>2. p \in Slot /\ Occupied(t, p)
      BY <3>1 DEF MayPlace, Occupied
    <3>3. LowestOf(S) = NoRef
      BY <1>5, <1>6, <1>8, <3>1
    <3>4. QED
      BY <1>6, <3>2, <3>3, LowestIn
  <2>3. /\ v \in NodeState /\ v.heads = t.heads /\ Plants(t, v, b, x, p)
        /\ p # NoRef => v.blocks[p].refs = t.blocks[p].refs + 1
    <3>1. CASE p = NoRef
      <4>1. v = u
        BY <3>1, Numbers DEF AdjustRefs, Occupied
      <4> HIDE DEF v
      <4>2. QED
        BY <1>1, <1>4, <3>1, <4>1 DEF Plants
    <3>2. CASE p # NoRef
      <4> DEFINE e == [u.blocks[p] EXCEPT !.refs = @ + 1]
      <4>1. p \in Slot /\ u.blocks[p] = t.blocks[p] /\ Occupied(u, p)
        BY <1>1, <1>4, <2>2, <3>2 DEF Occupied
      <4>2. v = [u EXCEPT !.blocks = [u.blocks EXCEPT ![p] = e]]
        BY <4>1 DEF AdjustRefs
      <4>3. e.hash = t.blocks[p].hash /\ e.parent = t.blocks[p].parent
            /\ e.refs = t.blocks[p].refs + 1
        BY <1>1, <4>1 DEF NodeState, BlockEntry
      <4> HIDE DEF e
      <4>4. v \in NodeState
        BY <1>4, AdjustRefsReduces DEF Reduces
      <4>5. v.heads = u.heads /\ v.blocks = [u.blocks EXCEPT ![p] = e]
        BY <1>4, <4>2 DEF NodeState
      <4> HIDE DEF v
      <4>6. \A s \in Slot : v.blocks[s] = IF s = p THEN e ELSE u.blocks[s]
        BY <1>4, <4>5 DEF NodeState
      <4>7. v.blocks[p].refs = t.blocks[p].refs + 1
        BY <4>1, <4>3, <4>6
      <4>8. Plants(t, v, b, x, p)
        BY <1>1, <1>4, <4>1, <4>3, <4>6 DEF Plants
      <4>9. QED
        BY <1>4, <4>4, <4>5, <4>7, <4>8
    <3>3. QED
      BY <3>1, <3>2
  <2> HIDE DEF v
  <2>4. /\ Firm(v, FALSE) /\ Fresh(v, x) /\ v.blocks[x].refs >= 1
        /\ f => Full(v, {x})
        /\ Tracked(v) = Tracked(t)
    <3>1. \A j \in Branch : v.heads[j].head = t.heads[j].head
      BY <2>3
    <3>2. p # NoRef => /\ v.blocks[p].refs = t.blocks[p].refs + 1
                       /\ \A j \in Tracked(t) : t.heads[j].head # p
      BY <2>2, <2>3
    <3>3. QED
      <4> HIDE DEF S
      <4>1. Firm(v, FALSE) /\ Fresh(v, x) /\ v.blocks[x].refs >= 1
        BY <2>3, <3>1, <3>2, PlantedFirm
      <4>2. f => Full(v, {x})
        BY <2>3, <3>1, <3>2, PlantedFirm
      <4>3. Tracked(v) = Tracked(t)
        BY <3>1 DEF Tracked
      <4>4. QED
        BY <4>1, <4>2, <4>3
  <2>5. f => Cardinality(Tracked(v)) < MaxBranches
    BY <1>5, <1>8, <2>4
  <2>6. w \in FirmNodes(f) /\ Occupied(w, x)
    BY <1>1, <2>1, <2>3, <2>4, <2>5, InsertHeadFirm
  <2>7. QED
    BY <1>2, <2>6, ResolvePendingTailsFirm DEF w
<1>9. QED
  BY <1>7, <1>8

(* A branch value is no part of the tree.                                    *)
LEMMA SetBranchValueFirm ==
  ASSUME NEW f, NEW t \in FirmNodes(f), NEW s, NEW v
  PROVE  Firm(SetBranchValue(t, s, v), f)
<1>1. t \in NodeState /\ Firm(t, f)
  BY DEF FirmNodes
<1>2. SameTree(t, SetBranchValue(t, s, v))
  BY <1>1, HeadOfIn DEF SetBranchValue, SameTree, NodeState, ChainHeadEntry
<1>3. QED
  BY <1>1, <1>2, SameTreeFirm

(* Marking blocks connected leaves the tree alone,                           *)
LEMMA MarkedFirm ==
  ASSUME NEW f, NEW t \in FirmNodes(f), NEW S
  PROVE  SetStatus(t, S, "Connected") \in FirmNodes(f)
<1>1. t \in NodeState /\ "Connected" \in Statuses
  BY DEF FirmNodes, Statuses
<1>2. SetStatus(t, S, "Connected") \in NodeState
  BY <1>1, SetStatusSets DEF StatusSet, SameBut
<1>3. SameTree(t, SetStatus(t, S, "Connected"))
  BY <1>1, SetStatusSame
<1>4. QED
  BY <1>2, <1>3, FirmOn

(* and so does connecting one side block,                                    *)
LEMMA ConnectJudgedFirm ==
  ASSUME NEW f, NEW t \in FirmNodes(f), NEW x, NEW p, NEW votes, NEW parentValue, NEW unread
  PROVE  Firm(ConnectJudgedSideBlock(t, x, p, votes, parentValue, unread), f)
<1> DEFINE v == SetStatus(t, {x}, "Connected")
           m == votes + CHOOSE n \in parentValue : TRUE
           q == SideValue(t, p, votes)
<1>1. v \in FirmNodes(f)
  BY MarkedFirm
<1>2. ConnectJudgedSideBlock(t, x, p, votes, parentValue, unread) \in
        {v, t, SetBranchValue(v, x, m), SetBranchValue(v, x, q)}
  BY DEF ConnectJudgedSideBlock
<1> HIDE DEF v, m, q
<1>3. QED
  BY <1>1, <1>2, SetBranchValueFirm DEF FirmNodes

(* one choice of the pass over the side branches,                            *)
LEMMA ConnectOneFirm ==
  ASSUME NEW f, NEW t \in FirmNodes(f), NEW best, NEW part
  PROVE  Firm(ConnectOne(t, best, part).t, f)
<1> DEFINE refused == Refused(t, part)
           root == part[Max(refused)]
           tip == IF refused = {} THEN part[1] ELSE t.blocks[root].parent
           m == MarkConnected(t, tip)
           u == IF refused = {} THEN m ELSE DeleteSubtree(m, root)
           w == Valued(u, t, tip)
<1>1. m \in FirmNodes(f)
  BY MarkedFirm DEF MarkConnected
<1>2. ConnectOne(t, best, part).t = w
  BY DEF ConnectOne, ConnectPart, ConnectBelow, Considered
<1> HIDE DEF m, refused, root, tip
<1>3. u \in FirmNodes(f)
  BY <1>1, DeleteSubtreeFirm
<1> HIDE DEF u
<1>4. Firm(w, f)
  BY <1>3, SetBranchValueFirm DEF Valued, FirmNodes
<1>5. QED
  BY <1>2, <1>4

(* and the pass, up to the change of the active chain it may end in.         *)
LEMMA ConnectSideBranchesFirm ==
  ASSUME NEW f, NEW t, t.config = "Locked", NEW u \in Serves(t), Firm(u, f), NEW unread
  PROVE  ConnectSideBranches(u, unread).t \in FirmNodes(f)
<1> DEFINE r == [t |-> u, best |-> NoBest]
           T == {q \in Turns(t) : Firm(q.t, f)}
<1>1. CASE u.tail = NoRef
  BY <1>1 DEF ConnectSideBranches, Serves, FirmNodes
<1>2. CASE u.tail # NoRef
  <2>1. u \in Connecting(t)
    BY <1>2 DEF Connecting, Serves
  <2>2. NoBest \in Bests
    BY Numbers DEF NoBest, Bests, NoHash
  <2>3. r \in T
    BY <2>1, <2>2 DEF Turns
  <2>4. ConnectSideBranches(u, unread) = ConnectAll(r, unread)
    BY <1>2 DEF ConnectSideBranches
  <2> HIDE DEF r
  <2>5. ASSUME NEW q \in T, NEW k \in Slot
        PROVE  ConnectNext(q, ConnectableHeads(q.t, unread)) \in T
    <3> DEFINE ready == ConnectableHeads(q.t, unread)
               n == ConnectNext(q, ready)
               part == BranchPart(q.t, q.t.heads[Min(ready)].head)
    <3>1. n \in Turns(t)
      BY <2>5, ConnectNextTurns
    <3>2. q.t \in FirmNodes(f) /\ Firm(q.t, f)
      BY <2>5 DEF Turns, Connecting, Serves, FirmNodes
    <3>3. n = IF ready = {} THEN q ELSE ConnectOne(q.t, q.best, part)
      BY DEF ConnectNext
    <3> HIDE DEF ready, part, n
    <3>4. Firm(n.t, f)
      BY <3>2, <3>3, ConnectOneFirm DEF FirmNodes
    <3>5. QED
      BY <3>1, <3>4 DEF n, ready
  <2> HIDE DEF T
  <2>6. ConnectAll(r, unread) \in T
    BY <2>3, <2>5, ConnectAllRuns
  <2>7. QED
    BY <2>4, <2>6 DEF T, Turns, Connecting, Serves, FirmNodes
<1>3. QED
  BY <1>1, <1>2

(* One forward extension,                                                    *)
LEMMA ExtendOnceFirm ==
  ASSUME NEW f, NEW t, Distinct(t), NEW u \in Serves(t), Firm(u, f), NEW unread
  PROVE  ExtendOnce(u, unread) \in FirmNodes(f)
<1> DEFINE c == BestStoredChild(u, unread)
           b == HashAt(u, c)
           verdict == JudgeHeadExtension(u, b, unread)
<1>1. u \in NodeState /\ Distinct(u) /\ u \in FirmNodes(f)
  BY DistinctOn DEF Serves, FirmNodes
<1>2. c # NoRef => Occupied(u, c)
  BY <1>1, BestChildIn DEF StoredChildren, Children, Retained, Occupied
<1>3. ExtendOnce(u, unread) \in {u, ExtendWith(u, c, b, verdict)}
      /\ (c = NoRef => ExtendOnce(u, unread) = u)
  BY DEF ExtendOnce, ExtendTo
<1> HIDE DEF c
<1>4. CASE c # NoRef /\ verdict = "Valid" /\ b \notin BadVotes
  <2>1. TailValue(u) \subseteq Nat
    BY <1>1, <1>4, ValidJudgement
  <2>2. Votes[b] \in Nat /\ c \in Slot
    BY <1>1, <1>2, <1>4, VotesNat, RetainedBlock
  <2>3. PromoteExtension(u, c, Votes[b], TailValue(u)) \in FirmNodes(f)
    BY <1>1, <2>1, <2>2, PromoteExtensionFirm
  <2>4. ExtendWith(u, c, b, verdict) = PromoteExtension(u, c, Votes[b], TailValue(u))
    BY <1>4 DEF ExtendWith
  <2>5. QED
    BY <1>1, <1>3, <2>3, <2>4
<1>5. CASE c # NoRef /\ ~(verdict = "Valid" /\ b \notin BadVotes)
  <2>1. ExtendWith(u, c, b, verdict) \in {u, DeleteSubtree(u, c)}
    BY <1>5 DEF ExtendWith
  <2>2. DeleteSubtree(u, c) \in FirmNodes(f)
    BY <1>1, DeleteSubtreeFirm
  <2>3. QED
    BY <1>1, <1>3, <2>1, <2>2
<1>6. QED
  BY <1>1, <1>3, <1>4, <1>5

(* and all of them.                                                          *)
LEMMA DriveForwardExtensionFirm ==
  ASSUME NEW f, NEW t, t.config = "Locked", Distinct(t), t \in Serves(t), Firm(t, f), NEW unread
  PROVE  DriveForwardExtension(t, unread) \in FirmNodes(f)
<1> DEFINE T == {u \in Serves(t) : Firm(u, f)}
<1>1. ASSUME NEW u \in T, NEW k \in Slot PROVE ExtendOnce(u, unread) \in T
  BY ExtendOnceServes, ExtendOnceFirm DEF FirmNodes
<1>2. t \in T
  OBVIOUS
<1> HIDE DEF T
<1>3. DriveForwardExtension(t, unread) \in T
  BY <1>1, <1>2, DriveForwardExtensionRuns
<1>4. QED
  BY <1>3 DEF T, Serves, FirmNodes

-----------------------------------------------------------------------------
(* Adopting the configuration a pass met.                                    *)
LEMMA AdoptConfigFirm ==
  ASSUME NEW f, NEW t \in FirmNodes(f), NEW tip, NEW s, Occupied(t, s),
         Kind[HashAt(t, s)] = "ChainConfig"
  PROVE  AdoptConfig(t, tip, s) \in FirmNodes(f)
<1> DEFINE c == Content[HashAt(t, s)]
           v == [t EXCEPT !.content = c, !.tentative = s]
<1>1. t \in NodeState /\ s \in Ref /\ c \in Configuration
  BY RetainedBlock, ContentOfConfig DEF FirmNodes
<1>2. AdoptConfig(t, tip, s) \in {v, DeleteSubtree(v, t.tentative)}
  BY DEF AdoptConfig
<1> HIDE DEF c
<1>3. v \in NodeState /\ v.blocks = t.blocks /\ v.heads = t.heads
  BY <1>1 DEF NodeState
<1> HIDE DEF v
<1>4. v \in FirmNodes(f)
  BY <1>3, TablesSame, FirmOn
<1>5. QED
  BY <1>2, <1>4, DeleteSubtreeFirm

(* A pass that a block stopped,                                              *)
LEMMA PassStoppedFirm ==
  ASSUME NEW f, NEW r, r.t \in FirmNodes(f), NEW path, NEW s, Occupied(r.t, s), NEW unread,
         NEW T, r \in [t : T, adopt : BOOLEAN, retry : BOOLEAN, again : BOOLEAN]
  PROVE  Firm(PassStopped(r, path, s, unread).t, f)
<1>1. CASE MayAdopt(r, path, s, unread)
  <2> DEFINE a == AdoptConfig(r.t, path[1], s)
  <2>1. a \in FirmNodes(f)
    BY <1>1, AdoptConfigFirm DEF MayAdopt, Mismatches
  <2> HIDE DEF a
  <2>2. PassStopped(r, path, s, unread) = [r EXCEPT !.t = a, !.adopt = FALSE]
    BY <1>1 DEF PassStopped, a
  <2>3. QED
    BY <2>1, <2>2 DEF FirmNodes
<1>2. CASE ~MayAdopt(r, path, s, unread)
  <2> DEFINE u == RecoverFromFailedPass(r.t, FailureTarget(r.t, path[1], s, unread))
             evidence == HashAt(r.t, s) \notin unread /\ Condemned(r.t, HashAt(r.t, s))
  <2>1. Firm(u, f)
    BY RecoverFirm
  <2>2. PassStopped(r, path, s, unread) = FailedPass(r, evidence, u)
    BY <1>2 DEF PassStopped
  <2> HIDE DEF u, evidence
  <2>3. FailedPass(r, evidence, u).t = u
    BY DEF FailedPass
  <2>4. QED
    BY <2>1, <2>2, <2>3
<1>3. QED
  BY <1>1, <1>2

(* one that reached the tip,                                                 *)
LEMMA PassSucceededFirm ==
  ASSUME NEW f, NEW t \in FirmNodes(f), NEW s, Occupied(t, s), NEW unread, NEW lockFails
  PROVE  Firm(PassSucceeded(t, Path(t, s), unread, lockFails), f)
<1> DEFINE path == Path(t, s)
           oversized == {i \in DOMAIN path : Oversized(t, HashAt(t, path[i]))}
           l == LockConfig(t)
<1>1. path[1] \in Ref /\ \A i \in DOMAIN path : Occupied(t, path[i])
  <2>1. PathFacts(t, s, path)
    BY RetainedBlock, PathElements DEF FirmNodes
  <2> HIDE DEF path
  <2>2. QED
    BY <2>1, RetainedBlock DEF PathFacts, FirmNodes
<1> HIDE DEF path
<1>2. PassSucceeded(t, path, unread, lockFails) \in
        {BecomeReady(t, path), RecoverFromFailedPass(t, path[Max(oversized)]), t,
         ApplyLock(BecomeReady(l, path), unread)}
  BY DEF PassSucceeded
<1>3. Firm(BecomeReady(t, path), f)
  BY <1>1, BecomeReadyFirm DEF FirmNodes
<1>4. Firm(RecoverFromFailedPass(t, path[Max(oversized)]), f)
  BY RecoverFirm
<1>5. l \in NodeState /\ l.blocks = t.blocks /\ l.heads = t.heads
  BY Numbers DEF LockConfig, NodeState, FirmNodes
<1> HIDE DEF l, oversized
<1>6. l \in FirmNodes(f)
  BY <1>5, TablesSame, FirmOn
<1>7. \A i \in DOMAIN path : Occupied(l, path[i])
  BY <1>1, <1>5 DEF Occupied
<1>8. Firm(ApplyLock(BecomeReady(l, path), unread), f)
  BY <1>1, <1>6, <1>7, BecomeReadyFirm, ApplyLockFirm DEF FirmNodes
<1>9. QED
  BY <1>2, <1>3, <1>4, <1>8 DEF path, FirmNodes

(* one attempt of the acquisition,                                           *)
LEMMA AttemptFirm ==
  ASSUME NEW f, NEW t, Distinct(t), NEW spared, NEW unread, NEW lockFails,
         NEW r \in Going(t) \union Ended(t, spared), Firm(r.t, f)
  PROVE  Firm(Attempt(r, unread, lockFails).t, f)
<1> DEFINE u == r.t
           c == Candidate(u)
           path == Path(u, c)
           i == StopsPass(u, path, unread)
<1>1. CASE ~r.again
  BY <1>1 DEF Attempt
<1>2. CASE r.again
  <2>1. r \in Going(t)
    BY <1>2 DEF Ended
  <2>2. u \in Gathers(t) /\ u \in NodeState /\ ConfigHeld(u) /\ Shrinks(t, u) /\ u \in FirmNodes(f)
    BY <2>1 DEF Going, Gathers, FirmNodes
  <2>3. Distinct(u)
    BY <2>2, DistinctOn
  <2>4. ASSUME NEW w PROVE Stopped(r, w).t = w
    BY <2>1 DEF Stopped, Going
  <2>5. CASE c = NoRef
    BY <1>2, <2>4, <2>5 DEF Attempt
  <2>6. CASE c # NoRef
    <3>1. Occupied(u, c) /\ FirstConfig(u, c) # NoRef
      BY <2>2, <2>3, <2>6, CandidateIn
    <3>2. i # 0 => i \in DOMAIN path
      BY <2>2, <3>1, StopsPassFacts
    <3>3. \A j \in DOMAIN path : Occupied(u, path[j])
      <4>1. PathFacts(u, c, path)
        BY <2>2, <3>1, RetainedBlock, PathElements
      <4> HIDE DEF path
      <4>2. QED
        BY <3>1, <4>1 DEF PathFacts
    <3>4. Attempt(r, unread, lockFails) =
            IF i = 0 THEN Stopped(r, PassSucceeded(u, path, unread, lockFails))
            ELSE PassStopped(r, path, path[i], unread)
      BY <1>2, <2>6 DEF Attempt, RunPass, PassResult
    <3>5. CASE i = 0
      <4>1. Firm(PassSucceeded(u, path, unread, lockFails), f)
        BY <2>2, <3>1, PassSucceededFirm
      <4>2. QED
        BY <2>4, <3>4, <3>5, <4>1
    <3>6. CASE i # 0
      <4>1. Occupied(u, path[i])
        BY <3>2, <3>3, <3>6
      <4>2. r \in [t : Gathers(t), adopt : BOOLEAN, retry : BOOLEAN, again : BOOLEAN]
        BY <2>1 DEF Going
      <4> HIDE DEF path, i
      <4>3. Firm(PassStopped(r, path, path[i], unread).t, f)
        BY <2>2, <4>1, <4>2, PassStoppedFirm
      <4>4. QED
        BY <3>4, <3>6, <4>3
    <3>7. QED
      BY <3>5, <3>6
  <2>7. QED
    BY <2>5, <2>6
<1>3. QED
  BY <1>1, <1>2

(* and all of them.                                                          *)
LEMMA DriveAcquisitionFirm ==
  ASSUME NEW f, NEW t \in NodeState, Distinct(t), Clean(t), Evident(t), Rooted(t), ConfigHeld(t),
         t.phase = "Collecting", Firm(t, f), NEW unread, NEW lockFails
  PROVE  DriveAcquisition(t, unread, lockFails) \in FirmNodes(f)
<1> DEFINE T == {r \in Going(t) \union Ended(t, unread) : Firm(r.t, f)}
<1>1. Shrinks(t, t)
  BY DEF Shrinks
<1>2. t \in Gathers(t)
  BY <1>1 DEF Gathers
<1>3. Rounds(t) \in T
  BY <1>2 DEF Rounds, Going
<1>4. ASSUME NEW r \in T, NEW k \in 1 .. 3 PROVE Attempt(r, unread, lockFails) \in T
  BY AttemptHolds, AttemptFirm
<1> HIDE DEF T
<1>5. AttemptEach(Rounds(t), unread, lockFails) \in T
  BY <1>3, <1>4, AttemptEachRuns
<1>6. QED
  BY <1>5 DEF T, DriveAcquisition, Going, Ended, Gathers, Acquires, FirmNodes

(* The retained blocks without children.                                     *)
Childless(t) == {s \in Retained(t) : Children(t, s) = {}}

(* What find_parent finds is one sequence below.                             *)
LEMMA FindParentFound ==
  ASSUME NEW t \in NodeState, NEW b \in Block, FindParent(t, b) # NoRef
  PROVE  Occupied(t, FindParent(t, b)) /\ BlockSeq[b] = SeqAt(t, FindParent(t, b)) + 1
<1> DEFINE S == {s \in Retained(t) : t.blocks[s].hash = PrevHash[b] /\ SeqAt(t, s) = BlockSeq[b] - 1}
           p == FindParent(t, b)
<1>1. p = IF BlockSeq[b] = 0 THEN NoRef ELSE LowestOf(S)
  BY DEF FindParent, Find
<1>2. S \subseteq Nat
  BY Numbers DEF Retained
<1> HIDE DEF p
<1>3. p \in S
  <2> HIDE DEF S
  <2>1. p # NoRef
    BY DEF p
  <2>2. QED
    BY <1>1, <1>2, <2>1, LowestIn
<1>4. SeqAt(t, p) = BlockSeq[b] - 1 /\ Occupied(t, p)
  BY <1>3 DEF Retained, Occupied
<1>5. QED
  BY <1>4, HeaderNumbers DEF p

(* It depends on the retained blocks alone.                                  *)
LEMMA FindParentSame ==
  ASSUME NEW t, NEW u, \A s \in Slot : u.blocks[s].hash = t.blocks[s].hash, NEW b
  PROVE  FindParent(u, b) = FindParent(t, b)
<1>1. Retained(u) = Retained(t)
  BY DEF Retained
<1>2. \A s \in Retained(t) : u.blocks[s].hash = t.blocks[s].hash /\ SeqAt(u, s) = SeqAt(t, s)
  BY DEF Retained, SeqAt
<1>3. {s \in Retained(u) : u.blocks[s].hash = PrevHash[b] /\ SeqAt(u, s) = BlockSeq[b] - 1}
       = {s \in Retained(t) : t.blocks[s].hash = PrevHash[b] /\ SeqAt(t, s) = BlockSeq[b] - 1}
  BY <1>1, <1>2
<1>4. QED
  BY <1>3 DEF FindParent, Find

(* Every link is restored from the headers.                                  *)
LEMMA LinkSlotsLinks ==
  ASSUME NEW t \in NodeState
  PROVE  LET u == LinkSlots(t)
         IN  /\ u \in NodeState
             /\ \A s \in Slot : u.blocks[s].hash = t.blocks[s].hash
             /\ \A s \in Retained(t) : u.blocks[s].parent = FindParent(t, HashAt(t, s))
<1> DEFINE T == {u \in NodeState : \A s \in Slot : u.blocks[s].hash = t.blocks[s].hash}
           n == MaxBlocks
           Linked(u, k) == \A s \in Retained(t) : s \in 1 .. k =>
                             u.blocks[s].parent = FindParent(t, HashAt(t, s))
           Inv == [k \in 0 .. n |-> {u \in T : Linked(u, k)}]
<1>1. ASSUME NEW u \in T, NEW k \in Slot
      PROVE  /\ LinkSlot(u, k) \in T
             /\ \A s \in Slot : s # k => LinkSlot(u, k).blocks[s].parent = u.blocks[s].parent
             /\ k \in Retained(t) =>
                  LinkSlot(u, k).blocks[k].parent = FindParent(t, HashAt(t, k))
  <2> DEFINE w == LinkSlot(u, k)
             p == FindParent(u, HashAt(u, k))
             e == [u.blocks[k] EXCEPT !.parent = p]
  <2>1. w \in NodeState
    BY LinkSlotReduces DEF Reduces
  <2>2. CASE ~Occupied(u, k)
    <3>1. w = u /\ k \notin Retained(t)
      BY <2>2 DEF LinkSlot, Occupied, Retained
    <3>2. QED
      BY <3>1
  <2>3. CASE Occupied(u, k)
    <3>1. w = [u EXCEPT !.blocks = [u.blocks EXCEPT ![k] = e]]
      BY <2>3 DEF LinkSlot, SetParent
    <3>2. e.hash = u.blocks[k].hash /\ e.parent = p
      BY DEF NodeState, BlockEntry
    <3>3. p = FindParent(t, HashAt(t, k))
      BY FindParentSame DEF HashAt
    <3> HIDE DEF e, w, p
    <3>4. w.blocks = [u.blocks EXCEPT ![k] = e]
      BY <3>1 DEF NodeState
    <3>5. \A s \in Slot : w.blocks[s] = IF s = k THEN e ELSE u.blocks[s]
      BY <3>4 DEF NodeState
    <3>6. w \in T
      BY <2>1, <3>2, <3>5
    <3>7. QED
      BY <3>2, <3>3, <3>5, <3>6 DEF w
  <2>4. QED
    BY <2>2, <2>3
<1>2. t \in T
  OBVIOUS
<1>3. \A u \in T, k \in Slot : LinkSlot(u, k) \in T
  BY <1>1
<1>4. T \subseteq NodeState
  OBVIOUS
<1> HIDE DEF T
<1>5. PICK g \in [T \X Slot -> T] :
        /\ \A u \in T, k \in Slot : g[<<u, k>>] = LinkSlot(u, k)
        /\ HasRun(n, T, t, g, LinkSlots(t))
  BY <1>2, <1>3, LinkSlotsRuns
<1>6. t \in Inv[0]
  BY <1>2, BlockAssumption
<1>7. ASSUME NEW k \in 1 .. n, NEW u \in T, u \in Inv[k - 1] PROVE g[<<u, k>>] \in Inv[k]
  <2>1. k \in Slot /\ k \in 0 .. n /\ k - 1 \in 0 .. n /\ k \in Nat
    BY BlockAssumption DEF Slot
  <2>2. Linked(u, k - 1)
    BY <1>7, <2>1
  <2>3. /\ LinkSlot(u, k) \in T /\ g[<<u, k>>] = LinkSlot(u, k)
        /\ \A s \in Slot : s # k => LinkSlot(u, k).blocks[s].parent = u.blocks[s].parent
        /\ k \in Retained(t) => LinkSlot(u, k).blocks[k].parent = FindParent(t, HashAt(t, k))
    BY <1>1, <1>5, <2>1
  <2>4. \A s \in 1 .. k : s = k \/ s \in 1 .. (k - 1)
    BY <2>1
  <2>5. Linked(LinkSlot(u, k), k)
    BY <2>2, <2>3, <2>4 DEF Retained
  <2>6. QED
    BY <2>1, <2>3, <2>5
<1> HIDE DEF Inv
<1>8. HandsOn(Inv, n, T, g)
  BY <1>7 DEF HandsOn
<1>9. LinkSlots(t) \in Inv[n]
  BY <1>5, <1>6, <1>8, RunInvariant, BlockAssumption
<1>10. LinkSlots(t) \in T /\ Linked(LinkSlots(t), n)
  BY <1>9, BlockAssumption DEF Inv
<1>11. QED
  BY <1>10 DEF T, Slot, Retained

(* Links made from storage lead to retained blocks.                          *)
LEMMA LinkSlotsTied ==
  ASSUME NEW t \in NodeState
  PROVE  LinkSlots(t) \in NodeState /\ Tied(LinkSlots(t))
<1> DEFINE u == LinkSlots(t)
<1>1. /\ u \in NodeState
      /\ \A s \in Slot : u.blocks[s].hash = t.blocks[s].hash
      /\ \A s \in Retained(t) : u.blocks[s].parent = FindParent(t, HashAt(t, s))
  BY LinkSlotsLinks
<1> HIDE DEF u
<1>2. /\ Retained(u) = Retained(t)
      /\ \A s : Occupied(u, s) <=> Occupied(t, s)
      /\ \A s \in Slot : SeqAt(u, s) = SeqAt(t, s)
      /\ \A s \in Retained(t) : s \in Slot /\ Occupied(t, s)
      /\ \A s : Occupied(t, s) => s \in Slot
  BY <1>1 DEF Retained, Occupied, SeqAt
<1>3. ASSUME NEW s \in Retained(t), u.blocks[s].parent # NoRef
      PROVE  /\ Occupied(u, u.blocks[s].parent)
             /\ SeqAt(u, s) = SeqAt(u, u.blocks[s].parent) + 1
  <2> DEFINE p == u.blocks[s].parent
             b == HashAt(t, s)
  <2>1. p = FindParent(t, b) /\ b \in Block
    BY <1>1, <1>2, RetainedBlock
  <2>2. Occupied(t, p) /\ BlockSeq[b] = SeqAt(t, p) + 1
    BY <1>3, <2>1, FindParentFound
  <2>3. SeqAt(u, s) = BlockSeq[b]
    BY <1>2 DEF SeqAt, HashAt
  <2>4. SeqAt(u, p) = SeqAt(t, p)
    BY <1>2, <2>2
  <2> HIDE DEF p, b
  <2>5. QED
    BY <1>2, <2>2, <2>3, <2>4 DEF p
<1>4. QED
  BY <1>1, <1>2, <1>3 DEF Tied, u

-----------------------------------------------------------------------------
(* As many entries in use as there are other tips at most.                   *)
LEMMA RoomLeft ==
  ASSUME NEW u \in NodeState, NEW P, IsFiniteSet(P), Cardinality(P) <= MaxBranches, NEW x \in P,
         \A k \in Tracked(u) : u.heads[k].head \in P \ {x},
         \A j, k \in Tracked(u) : u.heads[j].head = u.heads[k].head => j = k
  PROVE  Cardinality(Tracked(u)) < MaxBranches
<1> DEFINE K == Tracked(u)
           Q == P \ {x}
           m == [k \in K |-> u.heads[k].head]
<1>1. IsFiniteSet(Q) /\ Cardinality(Q) = Cardinality(P) - 1
  BY FS_RemoveElement
<1>2. m \in Injection(K, Q)
  BY DEF Injection, IsInjective
<1> HIDE DEF m
<1>3. IsFiniteSet(K) /\ Cardinality(K) <= Cardinality(Q)
  BY <1>1, <1>2, FS_Injection
<1>4. Cardinality(K) \in Nat /\ Cardinality(P) \in Nat /\ MaxBranches \in Nat
  BY <1>3, FS_CardinalityType, BranchAssumption
<1>5. QED
  BY <1>1, <1>3, <1>4

(* With room, a tip just gets a free entry.                                  *)
LEMMA InsertHeadFills ==
  ASSUME NEW u \in NodeState, Cardinality(Tracked(u)) < MaxBranches, NEW x \in Slot,
         NEW anchor, NEW prev \in Nat
  PROVE  LET w == InsertHead(u, x, anchor, prev)
         IN  /\ w \in NodeState
             /\ \A s \in Slot : w.blocks[s] = u.blocks[s]
             /\ \E k \in Branch \ Tracked(u) : \A j \in Branch :
                  w.heads[j].head = IF j = k THEN x ELSE u.heads[j].head
<1> DEFINE w == InsertHead(u, x, anchor, prev)
           U == Branch \ Tracked(u)
           k == LowestOf(U)
           e == [EmptyHead EXCEPT !.head = x, !.tail = x]
           H == [u.heads EXCEPT ![k] = e]
           v == [u EXCEPT !.heads = H]
<1>1. EnsureRoom(u) = u
  <2>1. IsFiniteSet(Branch)
    BY FS_Interval, BranchAssumption DEF Branch
  <2>2. Cardinality(Tracked(u)) \in Nat /\ MaxBranches \in Nat
    BY <2>1, FS_Subset, FS_CardinalityType, BranchAssumption DEF Tracked
  <2>3. QED
    BY <2>2 DEF EnsureRoom
<1>2. k \in U
  <2>1. U # {} /\ U \subseteq Nat
    BY EntryLeft, Numbers
  <2>2. QED
    BY <2>1, LowestIn
<1>3. k \in Branch /\ k # NoRef
  BY <1>2, Numbers
<1>4. w = RecomputeCaches(v, k, anchor, prev)
  BY <1>1, <1>3 DEF InsertHead, FillEntry, PlaceHead
<1>5. e \in ChainHeadEntry /\ e.head = x
  BY Numbers DEF EmptyHead, ChainHeadEntry, NoHash
<1> HIDE DEF k, e, w
<1>6. v \in NodeState /\ v.blocks = u.blocks /\ v.heads = H
      /\ \A j \in Branch : H[j].head = IF j = k THEN x ELSE u.heads[j].head
  BY <1>3, <1>5 DEF NodeState
<1> HIDE DEF v, H
<1>7. w \in NodeState /\ SameTree(v, w)
  BY <1>3, <1>4, <1>6, RecomputeCachesSame, RecomputeCachesReduces DEF Reduces
<1>8. w.blocks = v.blocks
  BY <1>4, <1>6 DEF RecomputeCaches, CachesFrom, NodeState
<1>9. \A j \in Branch : w.heads[j].head = IF j = k THEN x ELSE u.heads[j].head
  BY <1>6, <1>7 DEF SameTree
<1>10. QED
  BY <1>2, <1>6, <1>7, <1>8, <1>9 DEF w

(* The tips up to slot n are tracked, and nothing else.                      *)
Rebuilt(t, u, n) ==
  /\ \A s \in Slot : u.blocks[s] = t.blocks[s]
  /\ \A k \in Tracked(u) : u.heads[k].head \in Childless(t) /\ u.heads[k].head \in 1 .. n
  /\ \A j, k \in Tracked(u) : u.heads[j].head = u.heads[k].head => j = k
  /\ \A s \in Childless(t) : s \in 1 .. n => \E k \in Tracked(u) : u.heads[k].head = s

(* One slot more.                                                            *)
LEMMA RebuiltStep ==
  ASSUME NEW t \in NodeState, Cardinality(Childless(t)) <= MaxBranches,
         NEW x \in Slot, NEW u \in NodeState, Rebuilt(t, u, x - 1)
  PROVE  InsertIfTip(u, x) \in NodeState /\ Rebuilt(t, InsertIfTip(u, x), x)
<1> DEFINE w == InsertIfTip(u, x)
           P == Childless(t)
<1>1. x \in Nat \ {0} /\ \A s \in 1 .. x : s = x \/ s \in 1 .. (x - 1)
  BY BlockAssumption DEF Slot
<1>2. 1 .. (x - 1) \subseteq 1 .. x /\ x \in 1 .. x /\ x \notin 1 .. (x - 1)
  BY <1>1
<1>3. Occupied(u, x) /\ Children(u, x) = {} <=> x \in P
  <2>1. Retained(u) = Retained(t) /\ (Occupied(u, x) <=> x \in Retained(t))
    BY DEF Rebuilt, Retained, Occupied
  <2>2. Children(u, x) = Children(t, x)
    BY <2>1 DEF Rebuilt, Children, Retained
  <2>3. QED
    BY <2>1, <2>2 DEF Childless
<1>4. CASE x \notin P
  <2>1. w = u
    BY <1>3, <1>4 DEF InsertIfTip
  <2> HIDE DEF w
  <2>2. Rebuilt(t, u, x)
    BY <1>1, <1>2, <1>4 DEF Rebuilt
  <2>3. QED
    BY <2>1, <2>2 DEF w
<1>5. CASE x \in P
  <2>1. w = InsertHead(u, x, NoRef, NoHash)
    BY <1>3, <1>5 DEF InsertIfTip
  <2>2. IsFiniteSet(P)
    <3>1. IsFiniteSet(Slot) /\ P \subseteq Slot
      BY BlockAssumption, FS_Interval DEF Slot, Childless, Retained
    <3>2. QED
      BY <3>1, FS_Subset
  <2> HIDE DEF P
  <2>3. \A k \in Tracked(u) : u.heads[k].head \in P \ {x}
    BY <1>2 DEF Rebuilt, P
  <2>4. Cardinality(Tracked(u)) < MaxBranches
    BY <1>5, <2>2, <2>3, RoomLeft DEF Rebuilt, P
  <2>5. NoHash \in Nat
    BY DEF NoHash
  <2>6. /\ w \in NodeState /\ \A s \in Slot : w.blocks[s] = u.blocks[s]
        /\ \E k \in Branch \ Tracked(u) : \A j \in Branch :
             w.heads[j].head = IF j = k THEN x ELSE u.heads[j].head
    BY <2>1, <2>4, <2>5, InsertHeadFills
  <2> HIDE DEF w
  <2>7. PICK k \in Branch \ Tracked(u) : \A j \in Branch :
          w.heads[j].head = IF j = k THEN x ELSE u.heads[j].head
    BY <2>6
  <2>8. x # NoRef
    BY Numbers
  <2>9. \A j : j \in Tracked(w) <=> j = k \/ j \in Tracked(u)
    BY <2>7, <2>8 DEF Tracked
  <2>10. w.heads[k].head = x /\ \A j \in Tracked(u) : j # k /\ w.heads[j].head = u.heads[j].head
    BY <2>7 DEF Tracked
  <2>11. \A s \in Slot : w.blocks[s] = t.blocks[s]
    BY <2>6 DEF Rebuilt
  <2>12. \A j \in Tracked(w) : w.heads[j].head \in P /\ w.heads[j].head \in 1 .. x
    BY <1>2, <1>5, <2>9, <2>10 DEF Rebuilt, P
  <2>13. \A i, j \in Tracked(w) : w.heads[i].head = w.heads[j].head => i = j
    BY <2>3, <2>9, <2>10 DEF Rebuilt
  <2>14. \A s \in P : s \in 1 .. x => \E j \in Tracked(w) : w.heads[j].head = s
    BY <1>1, <2>9, <2>10 DEF Rebuilt, P
  <2>15. Rebuilt(t, w, x)
    BY <2>11, <2>12, <2>13, <2>14 DEF Rebuilt, P
  <2>16. QED
    BY <2>6, <2>15 DEF w
<1>6. QED
  BY <1>4, <1>5

(* All slots, if the tips fit.                                               *)
LEMMA InsertTipsRebuilds ==
  ASSUME NEW t \in NodeState, Cardinality(Childless(t)) <= MaxBranches,
         NEW z \in NodeState, Rebuilt(t, z, 0)
  PROVE  InsertTips(z) \in NodeState /\ Rebuilt(t, InsertTips(z), MaxBlocks)
<1> DEFINE T == NodeState
           n == MaxBlocks
           Inv == [k \in 0 .. n |-> {u \in T : Rebuilt(t, u, k)}]
<1>1. \A u \in T, k \in Slot : InsertIfTip(u, k) \in T
  BY InsertIfTipReduces DEF Reduces
<1>2. n \in Nat /\ n >= 0
  BY BlockAssumption
<1>3. PICK g \in [T \X Slot -> T] :
        /\ \A u \in T, k \in Slot : g[<<u, k>>] = InsertIfTip(u, k)
        /\ HasRun(n, T, z, g, InsertTips(z))
  BY <1>1, InsertTipsRuns
<1>4. z \in Inv[0]
  BY <1>2
<1>5. ASSUME NEW k \in 1 .. n, NEW u \in T, u \in Inv[k - 1] PROVE g[<<u, k>>] \in Inv[k]
  <2>1. k \in Slot /\ k \in 0 .. n /\ k - 1 \in 0 .. n
    BY <1>2 DEF Slot
  <2>2. Rebuilt(t, u, k - 1)
    BY <1>5, <2>1
  <2>3. InsertIfTip(u, k) \in NodeState /\ Rebuilt(t, InsertIfTip(u, k), k)
    BY <2>1, <2>2, RebuiltStep
  <2>4. QED
    BY <1>3, <2>1, <2>3
<1> HIDE DEF Inv
<1>6. HandsOn(Inv, n, T, g)
  BY <1>5 DEF HandsOn
<1>7. InsertTips(z) \in Inv[n]
  BY <1>2, <1>3, <1>4, <1>6, RunInvariant
<1>8. QED
  BY <1>2, <1>7 DEF Inv

(* Before the first slot no tip is tracked.                                  *)
LEMMA NoTipsRebuilt ==
  ASSUME NEW t \in NodeState
  PROVE  LET z == [t EXCEPT !.heads = [k \in Branch |-> EmptyHead]]
         IN  z \in NodeState /\ Rebuilt(t, z, 0)
<1> DEFINE H == [k \in Branch |-> EmptyHead]
           z == [t EXCEPT !.heads = H]
<1>1. EmptyHead \in ChainHeadEntry /\ EmptyHead.head = NoRef
  BY Numbers DEF EmptyHead, ChainHeadEntry, NoHash
<1>2. H \in [Branch -> ChainHeadEntry] /\ \A k \in Branch : H[k].head = NoRef
  BY <1>1
<1> HIDE DEF H
<1>3. z \in NodeState /\ z.blocks = t.blocks /\ z.heads = H
  BY <1>2 DEF NodeState
<1> HIDE DEF z
<1>4. Tracked(z) = {}
  BY <1>2, <1>3 DEF Tracked
<1>5. Rebuilt(t, z, 0)
  BY <1>3, <1>4 DEF Rebuilt
<1>6. QED
  BY <1>3, <1>5 DEF z, H

(* With exact counts or without.                                             *)
LEMMA FirmWeakens ==
  ASSUME NEW t \in FirmNodes(TRUE), NEW f
  PROVE  t \in FirmNodes(f)
BY DEF FirmNodes, Firm

(* A rebuilt tip table is firm.                                              *)
LEMMA RebuiltFirm ==
  ASSUME NEW t \in NodeState, Tied(t), NEW u \in NodeState, Rebuilt(t, u, MaxBlocks)
  PROVE  RecomputeRefs(u) \in FirmNodes(TRUE)
<1> DEFINE v == RecomputeRefs(u)
<1>1. /\ v \in NodeState /\ SameLinks(u, v) /\ v.heads = u.heads
      /\ \A s \in Retained(v) :
           v.blocks[s].refs = IF Children(v, s) = {} THEN 1 ELSE Cardinality(Children(v, s))
  BY RecomputeRefsExact
<1> HIDE DEF v
<1>2. \A s \in Slot : u.blocks[s] = t.blocks[s]
  BY DEF Rebuilt
<1>3. SameLinks(t, v)
  BY <1>1, <1>2 DEF SameLinks
<1>4. /\ Retained(v) = Retained(t)
      /\ \A s : Occupied(v, s) <=> Occupied(t, s)
      /\ \A s \in Slot : SeqAt(v, s) = SeqAt(t, s)
      /\ \A s : Children(v, s) = Children(t, s)
  BY <1>3, SameLinksSees
<1>5. Tracked(v) = Tracked(u)
  BY <1>1 DEF Tracked
<1>6. \A s \in Retained(t) : s \in Slot /\ s \in 1 .. MaxBlocks /\ Occupied(t, s)
  BY DEF Retained, Occupied, Slot
<1>7. \A s \in Retained(v) : Exact(v, s)
  BY <1>1 DEF Exact
<1>8. Covered(v) /\ \A s \in Retained(v) : v.blocks[s].refs >= 1
  BY <1>7, ExactCovers
<1>9. Tied(v)
  <2>1. \A s \in Slot : v.blocks[s].parent = t.blocks[s].parent
    BY <1>3 DEF SameLinks
  <2>2. \A s \in Retained(t) : t.blocks[s].parent # NoRef =>
          /\ Occupied(t, t.blocks[s].parent) /\ t.blocks[s].parent \in Slot
          /\ SeqAt(t, s) = SeqAt(t, t.blocks[s].parent) + 1
    BY DEF Tied, Occupied
  <2>3. QED
    BY <1>4, <1>6, <2>1, <2>2 DEF Tied
<1>10. \A k \in Tracked(v) : v.heads[k].head \in Childless(t)
  BY <1>1, <1>5 DEF Rebuilt
<1>11. \A s \in Childless(t) : Occupied(v, s) /\ s \in Retained(v) /\ Children(v, s) = {}
  BY <1>4, <1>6 DEF Childless
<1>12. \A j, k \in Tracked(v) : v.heads[j].head = v.heads[k].head => j = k
  BY <1>1, <1>5 DEF Rebuilt
<1>13. Tipped(v)
  BY <1>8, <1>10, <1>11, <1>12 DEF Tipped
<1>14. \A s \in Childless(t) : \E k \in Tracked(v) : v.heads[k].head = s
  BY <1>1, <1>5, <1>6 DEF Rebuilt, Childless
<1>15. Full(v, {})
  BY <1>1, <1>4, <1>14 DEF Full, Childless
<1>16. QED
  BY <1>1, <1>8, <1>9, <1>13, <1>15 DEF FirmNodes, Firm, v

(* rebuild_from_blocks leaves a firm tree, if the tips fit.                  *)
LEMMA RebuildFirm ==
  ASSUME NEW t \in NodeState, Tied(t), Cardinality(Childless(t)) <= MaxBranches
  PROVE  RebuildFromBlocks(t) \in FirmNodes(TRUE)
<1> DEFINE z == [t EXCEPT !.heads = [k \in Branch |-> EmptyHead]]
<1>1. z \in NodeState /\ Rebuilt(t, z, 0)
  BY NoTipsRebuilt
<1>2. RebuildFromBlocks(t) = RecomputeRefs(InsertTips(z))
  BY DEF RebuildFromBlocks
<1> HIDE DEF z
<1>3. InsertTips(z) \in NodeState /\ Rebuilt(t, InsertTips(z), MaxBlocks)
  BY <1>1, InsertTipsRebuilds
<1>4. QED
  BY <1>2, <1>3, RebuiltFirm

-----------------------------------------------------------------------------
(* The tips a restart finds in storage fit into the tip table, whatever it   *)
(* cannot read.  Storage may hold more tips than RAM did, for the bytes of a *)
(* deleted block stay until its slot is written again.                       *)
RestartFits ==
  \A unread \in SUBSET Flaky :
    Cardinality(Childless(LinkSlots(LoadSlots(EmptyNode, store, unread)))) <= MaxBranches

(* So the tree that a restart reads from any storage is firm, if its tips    *)
(* fit.                                                                      *)
LEMMA DurableTreeFirm ==
  ASSUME NEW bytes \in [Slot -> Block \union {NoHash}], NEW unread,
         Cardinality(Childless(LinkSlots(LoadSlots(EmptyNode, bytes, unread)))) <= MaxBranches
  PROVE  DurableTree(bytes, unread) \in FirmNodes(TRUE)
<1> DEFINE l == LoadSlots(EmptyNode, bytes, unread)
           t == LinkSlots(l)
           u == RebuildFromBlocks(t)
<1>1. l \in NodeState
  BY LoadSlotsLoaded DEF Loaded
<1> HIDE DEF l
<1>2. t \in NodeState /\ Tied(t)
  BY <1>1, LinkSlotsTied
<1>3. Cardinality(Childless(t)) <= MaxBranches
  BY DEF l
<1> HIDE DEF t
<1>4. u \in FirmNodes(TRUE)
  BY <1>2, <1>3, RebuildFirm
<1>5. DurableTree(bytes, unread) = SeedMissingParents(u)
  BY DEF DurableTree, l, t, u
<1> HIDE DEF u
<1>6. u \in NodeState
  BY <1>4 DEF FirmNodes
<1>7. SameTree(u, SeedMissingParents(u)) /\ SeedMissingParents(u) \in NodeState
  BY <1>6, SeedMissingParentsSame
<1>8. QED
  BY <1>4, <1>5, <1>7, FirmOn

(* A status and a configuration leave the tables alone.                      *)
LEMMA RestoreConfigSame ==
  ASSUME NEW t \in NodeState, NEW held
  PROVE  SameTree(t, RestoreConfig(t, held))
<1>1. RestoreConfig(t, held).blocks = t.blocks /\ RestoreConfig(t, held).heads = t.heads
  BY DEF RestoreConfig, NodeState
<1>2. QED
  BY <1>1, TablesSame

(* What a call does after an admission.                                      *)
LEMMA AdvanceFirm ==
  ASSUME NEW f, NEW t, Kept(t), t.phase \in Running, Firm(t, f), NEW unread, NEW lockFails
  PROVE  Firm(Advance(t, t.phase = "Ready", unread, lockFails), f)
<1>1. CASE t.phase = "Ready"
  <2>1. t \in Serves(t) /\ t.config = "Locked" /\ Distinct(t)
    BY <1>1, ServesSelf DEF Kept, Sound
  <2>2. Advance(t, t.phase = "Ready", unread, lockFails) = DriveForwardExtension(t, unread)
    BY <1>1 DEF Advance
  <2>3. QED
    BY <2>1, <2>2, DriveForwardExtensionFirm DEF FirmNodes
<1>2. CASE t.phase = "Collecting"
  <2>1. Advance(t, t.phase = "Ready", unread, lockFails)
          \in {t, DriveAcquisition(t, unread, lockFails)}
    BY <1>2 DEF Advance
  <2>2. DriveAcquisition(t, unread, lockFails) \in FirmNodes(f)
    BY <1>2, DriveAcquisitionFirm DEF Kept, Sound
  <2>3. QED
    BY <2>1, <2>2 DEF FirmNodes
<1>3. QED
  BY <1>1, <1>2 DEF Running

(* What follows an admission: the side branches and the active chain.        *)
LEMMA ConnectFirm ==
  ASSUME NEW f, NEW t, Kept(t), Firm(t, f), NEW x, NEW unread
  PROVE  Firm(Connect(t, x, unread).t, f)
<1>1. CASE t.phase = "Ready"
  <2> DEFINE r == ConnectSideBranches(t, unread)
  <2>1. t \in Serves(t) /\ t.config = "Locked"
    BY <1>1, ServesSelf
  <2>2. r.t \in FirmNodes(f)
    BY <2>1, ConnectSideBranchesFirm
  <2>3. Connect(t, x, unread) = [t |-> r.t, switch |-> SwitchTarget(r.t, x, r.best)]
    BY <1>1 DEF Connect, Decide
  <2> HIDE DEF r
  <2>4. QED
    BY <2>2, <2>3 DEF FirmNodes
<1>2. CASE t.phase # "Ready"
  <2>1. Connect(t, x, unread) = [t |-> t, switch |-> NoHash]
    BY <1>2 DEF Connect
  <2>2. QED
    BY <2>1
<1>3. QED
  BY <1>1, <1>2

(* A tree without blocks.                                                    *)
LEMMA EmptyFirm ==
  ASSUME NEW t, \A s \in Slot : t.blocks[s].hash = NoHash, \A k \in Branch : t.heads[k].head = NoRef
  PROVE  Firm(t, TRUE)
<1>1. Retained(t) = {} /\ Tracked(t) = {}
  BY DEF Retained, Tracked
<1>2. QED
  BY <1>1 DEF Firm, Tied, Covered, Tipped, Full

(* Such is a node before its first call, and one that a failed call stopped. *)
LEMMA EmptyNodeFirm ==
  /\ Firm(EmptyNode, TRUE)
  /\ Firm([EmptyNode EXCEPT !.phase = "Down"], TRUE)
<1>1. \A s \in Slot : EmptyNode.blocks[s].hash = NoHash
  BY DEF EmptyNode, FreeSlot
<1>2. \A k \in Branch : EmptyNode.heads[k].head = NoRef
  BY DEF EmptyNode, EmptyHead
<1>3. EmptyNode \in NodeState
  BY EmptyNodeLoaded DEF Loaded
<1>4. /\ [EmptyNode EXCEPT !.phase = "Down"].blocks = EmptyNode.blocks
      /\ [EmptyNode EXCEPT !.phase = "Down"].heads = EmptyNode.heads
  BY <1>3 DEF NodeState
<1>5. QED
  BY <1>1, <1>2, <1>4, EmptyFirm

(* initialize_from_storage.                                                  *)
LEMMA RestartFirm ==
  ASSUME NodeInv, NEW f, RestartFits, NEW unread, unread \subseteq Flaky, NEW lockFails,
         InitializeFromStorage(unread, lockFails)
  PROVE  Firm(node', f)
<1> DEFINE d == DurableTree(store, unread)
           t == RestoreConfig(d, durable)
           u == Advance(t, FALSE, unread, lockFails)
           v == Reapply(u, unread)
           r == Connect(v, NoRef, unread)
<1>1. d \in Loaded
  BY DurableTreeLoaded DEF NodeInv
<1>2. d \in FirmNodes(f)
  <2>1. store \in [Slot -> Block \union {NoHash}] /\ unread \in SUBSET Flaky
    BY DEF NodeInv
  <2>2. Cardinality(Childless(LinkSlots(LoadSlots(EmptyNode, store, unread)))) <= MaxBranches
    BY <2>1 DEF RestartFits
  <2>3. d \in FirmNodes(TRUE)
    BY <2>1, <2>2, DurableTreeFirm
  <2> HIDE DEF d
  <2>4. QED
    BY <2>3, FirmWeakens
<1>3. node' = [t EXCEPT !.refused = TRUE] \/ node' = r.t
  BY DEF InitializeFromStorage
<1> HIDE DEF d
<1>4. Sound(t) /\ t.phase = "Collecting"
  BY <1>1, RestoredSound DEF NodeInv
<1>5. Firm(t, f)
  <2>1. d \in NodeState
    BY <1>1 DEF Loaded
  <2>2. SameTree(d, t)
    BY <2>1, RestoreConfigSame
  <2> HIDE DEF t
  <2>3. QED
    BY <1>2, <2>2, SameTreeFirm DEF FirmNodes
<1> HIDE DEF t
<1>6. CASE node' = [t EXCEPT !.refused = TRUE]
  <2>1. node'.blocks = t.blocks /\ node'.heads = t.heads
    BY <1>4, <1>6 DEF Sound, NodeState
  <2>2. SameTree(t, node')
    BY <2>1, TablesSame
  <2>3. QED
    BY <1>5, <2>2, SameTreeFirm
<1>7. CASE node' = r.t
  <2>1. Sound(u) /\ u.phase \in Running /\ SameLock(t, u) /\ (u.phase = "Ready" => ChainFits(u))
    BY <1>4, RestoredAdvances
  <2>2. Firm(u, f)
    <3>1. u \in {t, DriveAcquisition(t, unread, lockFails)}
      BY DEF Advance
    <3>2. DriveAcquisition(t, unread, lockFails) \in FirmNodes(f)
      BY <1>4, <1>5, DriveAcquisitionFirm DEF Sound
    <3> HIDE DEF u
    <3>3. QED
      BY <1>5, <3>1, <3>2 DEF FirmNodes
  <2> HIDE DEF u
  <2>3. Settles(u, v)
    BY <2>1, ReapplySettles
  <2>4. Firm(v, f)
    <3>1. v \in {u, ApplyLock(u, unread)}
      BY DEF Reapply
    <3>2. u \in FirmNodes(f)
      BY <2>1, <2>2 DEF Sound, FirmNodes
    <3>3. ApplyLock(u, unread) \in FirmNodes(f)
      BY <3>2, ApplyLockFirm
    <3> HIDE DEF v
    <3>4. QED
      BY <2>2, <3>1, <3>3 DEF FirmNodes
  <2> HIDE DEF v
  <2>5. Firm(r.t, f)
    BY <2>3, <2>4, ConnectFirm DEF Settles
  <2>6. QED
    BY <1>7, <2>5
<1>8. QED
  BY <1>3, <1>6, <1>7

-----------------------------------------------------------------------------
(* The write of a block fills one slot and leaves the tips alone.            *)
LEMMA InsertBlockPlaces ==
  ASSUME NEW t \in NodeState, NEW x \in Slot, NEW b \in Block, NEW p \in Ref,
         NEW active \in BOOLEAN
  PROVE  LET u == InsertBlock(t, x, b, p, active)
         IN  /\ u.heads = t.heads
             /\ u.blocks[x].hash = b /\ u.blocks[x].parent = p /\ u.blocks[x].refs = 0
             /\ \A s \in Slot : s # x => u.blocks[s] = t.blocks[s]
<1> DEFINE e == [FreeSlot EXCEPT !.hash = b, !.parent = p, !.onActive = active]
           B == [t.blocks EXCEPT ![x] = e]
           u == [t EXCEPT !.blocks = B]
<1>1. InsertBlock(t, x, b, p, active) = u
  BY DEF InsertBlock
<1>2. e.hash = b /\ e.parent = p /\ e.refs = 0
  BY DEF FreeSlot
<1> HIDE DEF e
<1>3. B[x] = e /\ \A s \in Slot : s # x => B[s] = t.blocks[s]
  BY DEF NodeState
<1> HIDE DEF B
<1>4. u.blocks = B /\ u.heads = t.heads
  BY DEF NodeState
<1> HIDE DEF u
<1>5. QED
  BY <1>1, <1>2, <1>3, <1>4

(* write_block, which also notes whether the block waits, does the same.     *)
LEMMA WriteBlockPlaces ==
  ASSUME NEW t \in NodeState, NEW x \in Slot, NEW b \in Block, NEW p \in Ref
  PROVE  LET u == WriteBlock(t, b, x, p)
         IN  /\ u.heads = t.heads
             /\ u.blocks[x].hash = b /\ u.blocks[x].parent = p /\ u.blocks[x].refs = 0
             /\ \A s \in Slot : s # x => u.blocks[s] = t.blocks[s]
<1> DEFINE u == WriteBlock(t, b, x, p)
<1>1. ASSUME NEW active \in BOOLEAN
      PROVE  LET v == InsertBlock(t, x, b, p, active)
                 l == LoadTentative(v, b, x)
             IN  l \in NodeState /\ l.blocks = v.blocks /\ l.heads = v.heads
  <2> DEFINE v == InsertBlock(t, x, b, p, active)
  <2>1. v \in NodeState
    BY InsertBlockInserts DEF Inserted
  <2> HIDE DEF v
  <2>2. LoadTentative(v, b, x) \in NodeState
    BY <2>1, LoadTentativeLoads
  <2>3. /\ LoadTentative(v, b, x).blocks = v.blocks
        /\ LoadTentative(v, b, x).heads = v.heads
    BY <2>1 DEF LoadTentative, NodeState
  <2>4. QED
    BY <2>2, <2>3 DEF v
<1>2. \E active \in BOOLEAN :
        LET v == InsertBlock(t, x, b, p, active)
        IN  u.blocks = v.blocks /\ u.heads = v.heads
  <2>1. CASE BlockSeq[b] = 0
    <3> DEFINE v == InsertBlock(t, x, b, p, TRUE)
               l == LoadTentative(v, b, x)
    <3>1. l \in NodeState /\ l.blocks = v.blocks /\ l.heads = v.heads
      BY <1>1
    <3>2. u = [l EXCEPT !.active = x, !.tail = NoRef]
      BY <2>1 DEF WriteBlock
    <3> HIDE DEF l, u
    <3>3. u.blocks = l.blocks /\ u.heads = l.heads
      BY <3>1, <3>2 DEF NodeState
    <3>4. u.blocks = v.blocks /\ u.heads = v.heads
      BY <3>1, <3>3
    <3>5. QED
      BY <3>4
  <2>2. CASE BlockSeq[b] # 0
    <3> DEFINE v == InsertBlock(t, x, b, p, FALSE)
    <3>1. u = LoadTentative(v, b, x)
      BY <2>2 DEF WriteBlock
    <3>2. u.blocks = v.blocks /\ u.heads = v.heads
      BY <1>1, <3>1
    <3>3. QED
      BY <3>2
  <2>3. QED
    BY <2>1, <2>2
<1> HIDE DEF u
<1>3. QED
  BY <1>2, InsertBlockPlaces DEF u

(* A place that intake finds for a block.                                    *)
LEMMA FoundPlace ==
  ASSUME NEW t \in NodeState, NEW b \in Block, NextFree(t) # NoRef
  PROVE  MayPlace(t, b, NextFree(t), FindParent(t, b))
<1> DEFINE U == Slot \ Retained(t)
<1>1. U \subseteq Nat /\ NextFree(t) = LowestOf(U)
  BY Numbers DEF NextFree
<1>2. NextFree(t) \in U
  <2> HIDE DEF U
  <2>1. QED
    BY <1>1, LowestIn
<1>3. NextFree(t) \in Slot /\ ~Occupied(t, NextFree(t))
  BY <1>2 DEF Retained, Occupied
<1> DEFINE p == FindParent(t, b)
<1>4. p # NoRef => Occupied(t, p) /\ BlockSeq[b] = SeqAt(t, p) + 1
  <2> SUFFICES ASSUME p # NoRef PROVE Occupied(t, p) /\ BlockSeq[b] = SeqAt(t, p) + 1
    OBVIOUS
  <2>1. QED
    BY FindParentFound
<1> HIDE DEF p
<1>5. MayPlace(t, b, NextFree(t), p)
  BY <1>3, <1>4 DEF MayPlace
<1>6. QED
  BY <1>5 DEF p

(* One admission, with the judgement applied.                                *)
LEMMA AdmitFirm ==
  ASSUME NEW f, NEW t, Kept(t), t.phase \in Running, Firm(t, f),
         NEW b \in Block, Admissible(t, b), NextFree(t) # NoRef,
         f => Cardinality(Tracked(t)) < MaxBranches, NEW unread
  PROVE  LET p == FindParent(t, b)
         IN  Firm(Admit(t, b, NextFree(t), p, Judgement(t, b, p, unread), unread), f)
<1> DEFINE p == FindParent(t, b)
           x == NextFree(t)
           j == Judgement(t, b, p, unread)
           w == WriteBlock(t, b, x, p)
           m == OnBlockAdmitted(w, x, p)
           u == ApplyJudgement(m, t, b, x, p, j, unread)
<1>1. Admit(t, b, x, p, j, unread) = u
  BY DEF Admit
<1>2. t \in NodeState /\ t \in FirmNodes(f)
  BY DEF Kept, Sound, FirmNodes
<1>3. MayPlace(t, b, x, p) /\ p \in Ref
  BY <1>2, FoundPlace, FindParentIn
<1>4. j = "Extend" => JudgeHeadExtension(t, b, unread) = "Valid"
  BY JudgementFacts
<1> HIDE DEF p, j, x
<1>5. x \in Slot
  BY <1>3 DEF MayPlace
<1>6. w \in NodeState
  BY <1>2, <1>3, <1>5, WriteBlockWrites DEF Written
<1>7. /\ w.heads = t.heads
      /\ w.blocks[x].hash = b /\ w.blocks[x].parent = p /\ w.blocks[x].refs = 0
      /\ \A s \in Slot : s # x => w.blocks[s] = t.blocks[s]
  BY <1>2, <1>3, <1>5, WriteBlockPlaces
<1> HIDE DEF w
<1>8. m \in FirmNodes(f)
  BY <1>2, <1>3, <1>6, <1>7, AdmittedFirm
<1> HIDE DEF m
<1>9. Firm(u, f)
  <2>1. CASE j = "Extend"
    <3>1. TailValue(t) \subseteq Nat
      BY <1>2, <1>4, <2>1, ValidJudgement
    <3>2. Votes[b] \in Nat
      BY ChainAssumption
    <3>3. PromoteExtension(m, x, Votes[b], TailValue(t)) \in FirmNodes(f)
      BY <1>5, <1>8, <3>1, <3>2, PromoteExtensionFirm
    <3>4. u = PromoteExtension(m, x, Votes[b], TailValue(t))
      BY <2>1 DEF ApplyJudgement
    <3>5. QED
      BY <3>3, <3>4 DEF FirmNodes
  <2>2. CASE j = "Side"
    <3>1. Firm(ConnectJudgedSideBlock(m, x, p, Votes[b], ParentValue(t, p), unread), f)
      BY <1>8, ConnectJudgedFirm
    <3>2. u = ConnectJudgedSideBlock(m, x, p, Votes[b], ParentValue(t, p), unread)
      BY <2>2 DEF ApplyJudgement
    <3>3. QED
      BY <3>1, <3>2
  <2>3. CASE j # "Extend" /\ j # "Side"
    <3>1. u = m
      BY <2>3 DEF ApplyJudgement
    <3>2. QED
      BY <1>8, <3>1 DEF FirmNodes
  <2>4. QED
    BY <2>1, <2>2, <2>3
<1>10. QED
  BY <1>1, <1>9 DEF p, j, x

(* A new block that finds a free slot finds a free tip entry too, so that    *)
(* insert_head evicts nothing.                                               *)
Roomy == NextFree(node) # NoRef => Cardinality(Tracked(node)) < MaxBranches

(* receive_block, which may be cut off.                                      *)
LEMMA ReceiveFirm ==
  ASSUME NodeInv, NEW f, Firm(node, f), f => Roomy, NEW b \in Block,
         NEW unread, unread \subseteq Flaky, NEW lockFails, ReceiveBlock(b, unread, lockFails)
  PROVE  Firm(node', f)
<1> DEFINE x == NextFree(node)
           p == FindParent(node, b)
           j == Judgement(node, b, p, unread)
           u == Admit(node, b, x, p, j, unread)
           v == Advance(u, node.phase = "Ready", unread, lockFails)
           r == Connect(v, x, unread)
<1>1. node.phase \in Running /\ Kept(node)
  BY DEF ReceiveBlock, Running, NodeInv
<1>2. Admissible(node, b) /\ x \in Slot /\ x # NoRef
  BY NextFreeIn DEF ReceiveBlock
<1>3. Finish([t |-> node, switch |-> NoHash]) \/ Finish(r)
  BY DEF ReceiveBlock
<1>4. node' \in {node, r.t, [EmptyNode EXCEPT !.phase = "Down"]}
  <2>1. CASE Finish([t |-> node, switch |-> NoHash])
    BY <2>1 DEF Finish
  <2>2. CASE Finish(r)
    <3> HIDE DEF r
    <3>1. QED
      BY <2>2 DEF Finish
  <2>3. QED
    BY <1>3, <2>1, <2>2
<1>5. Firm([EmptyNode EXCEPT !.phase = "Down"], f)
  BY EmptyNodeFirm DEF Firm
<1>6. Firm(u, f) /\ Settles(node, u) /\ u.phase = node.phase
  <2>1. f => Cardinality(Tracked(node)) < MaxBranches
    BY <1>2 DEF Roomy
  <2>2. Firm(u, f)
    BY <1>1, <1>2, <2>1, AdmitFirm
  <2>3. Settles(node, u) /\ u.phase = node.phase
    BY <1>1, <1>2, AdmitSettles
  <2>4. QED
    BY <2>2, <2>3
<1> HIDE DEF u
<1>7. Firm(v, f) /\ Settles(u, v)
  BY <1>1, <1>6, AdvanceFirm, AdvanceSettles DEF Settles
<1> HIDE DEF v
<1>8. Firm(r.t, f)
  BY <1>7, ConnectFirm DEF Settles
<1> HIDE DEF r
<1>9. QED
  BY <1>4, <1>5, <1>8

-----------------------------------------------------------------------------
(* One founding block.                                                       *)
LEMMA FoundBlockFirm ==
  ASSUME Founding # <<>>, NEW f, NEW s \in 1 .. 2, NEW t \in FirmNodes(f),
         MayPlace(t, Founding[s], s, s - 1),
         f => \/ Cardinality(Tracked(t)) < MaxBranches
              \/ s - 1 # NoRef /\ HeadOf(t, s - 1) # NoRef
  PROVE  FoundBlock(t, s) \in FirmNodes(f) /\ Occupied(FoundBlock(t, s), s)
<1> DEFINE b == Founding[s]
           q == s - 1
           v == InsertBlock(t, s, b, q, TRUE)
           C == v.blocks
           e == [C[s] EXCEPT !.status = "Active"]
           B == [C EXCEPT ![s] = e]
           w == [v EXCEPT !.blocks = B, !.active = s]
<1>1. t \in NodeState /\ s \in Slot /\ b \in Block /\ q \in Ref
  BY Numbers DEF FirmNodes, MayPlace, Occupied, Ref
<1>2. FoundBlock(t, s) = OnBlockAdmitted(w, s, q)
  BY DEF FoundBlock
<1>3. v \in NodeState
  BY <1>1, InsertBlockInserts DEF Inserted
<1>4. /\ v.heads = t.heads
      /\ v.blocks[s].hash = b /\ v.blocks[s].parent = q /\ v.blocks[s].refs = 0
      /\ \A r \in Slot : r # s => v.blocks[r] = t.blocks[r]
  <2> HIDE DEF b, q
  <2> DEFINE P(u) == /\ u.heads = t.heads
                     /\ u.blocks[s].hash = b /\ u.blocks[s].parent = q /\ u.blocks[s].refs = 0
                     /\ \A r \in Slot : r # s => u.blocks[r] = t.blocks[r]
  <2>1. \A active \in BOOLEAN : P(InsertBlock(t, s, b, q, active))
    BY <1>1, InsertBlockPlaces
  <2> HIDE DEF P
  <2>2. P(InsertBlock(t, s, b, q, TRUE))
    BY <2>1
  <2>3. P(v)
    BY <2>2
  <2> HIDE DEF v
  <2>4. QED
    BY <2>3 DEF P
<1>5. /\ MayPlace(t, b, s, q)
      /\ f => \/ Cardinality(Tracked(t)) < MaxBranches
              \/ q # NoRef /\ HeadOf(t, q) # NoRef
  OBVIOUS
<1> HIDE DEF v, b, q
<1>12. C \in [Slot -> BlockEntry] /\ C[s] \in BlockEntry
  <2>1. C \in [Slot -> BlockEntry]
    BY <1>3 DEF NodeState
  <2> HIDE DEF C
  <2>2. QED
    BY <1>1, <2>1
<1>6. /\ e \in BlockEntry
      /\ e.hash = C[s].hash /\ e.parent = C[s].parent /\ e.refs = C[s].refs
  BY <1>12 DEF BlockEntry, Statuses
<1> HIDE DEF e
<1> HIDE DEF C
<1>7. B \in [Slot -> BlockEntry] /\ B[s] = e /\ \A r \in Slot : r # s => B[r] = C[r]
  BY <1>1, <1>6, <1>12
<1> HIDE DEF B
<1>8. w \in NodeState /\ w.blocks = B /\ w.heads = v.heads
  BY <1>1, <1>3, <1>7, Numbers DEF NodeState
<1> HIDE DEF w
<1>9. /\ w.heads = t.heads
      /\ w.blocks[s].hash = b /\ w.blocks[s].parent = q /\ w.blocks[s].refs = 0
      /\ \A r \in Slot : r # s => w.blocks[r] = t.blocks[r]
  BY <1>4, <1>6, <1>7, <1>8 DEF C
<1>10. OnBlockAdmitted(w, s, q) \in FirmNodes(f) /\ Occupied(OnBlockAdmitted(w, s, q), s)
  BY <1>5, <1>8, <1>9, AdmittedFirm
<1>11. QED
  BY <1>2, <1>10

(* A tracked tip is found.                                                   *)
LEMMA TrackedFound ==
  ASSUME NEW t, NEW s, NEW k \in Tracked(t), t.heads[k].head = s
  PROVE  HeadOf(t, s) # NoRef
<1> DEFINE S == {j \in Tracked(t) : t.heads[j].head = s}
<1>1. S \subseteq Nat /\ NoRef \notin S /\ S # {}
  BY Numbers DEF Tracked
<1>2. HeadOf(t, s) = LowestOf(S)
  BY DEF HeadOf
<1> HIDE DEF S
<1>3. QED
  BY <1>1, <1>2, LowestIn

(* The tree after each founding block.                                       *)
LEMMA FoundedFirm ==
  ASSUME Founding # <<>>
  PROVE  LET t == FoundBlock(FoundersNode, 1)
         IN  /\ FoundersNode \in FirmNodes(TRUE)
             /\ t \in FirmNodes(TRUE)
             /\ FoundBlock(t, 2) \in FirmNodes(TRUE)
<1> DEFINE z == FoundersNode
           t == FoundBlock(z, 1)
<1>1. Founds(z, 0) /\ z.heads = EmptyNode.heads /\ z.blocks = EmptyNode.blocks
  <2>1. EmptyNode \in NodeState
    BY EmptyNodeLoaded DEF Loaded
  <2>2. QED
    BY <2>1, FoundersNodeFounds DEF FoundersNode, NodeState
<1>2. Founds(t, 1)
  BY <1>1, FoundBlockFounds
<1>3. /\ Founding[1] \in Block /\ Founding[2] \in Block
      /\ BlockSeq[Founding[1]] = 0 /\ BlockSeq[Founding[2]] = 1
      /\ 1 \in Slot /\ 2 \in Slot /\ 1 \in 1 .. 2 /\ 2 \in 1 .. 2
      /\ 1 - 1 = NoRef /\ 2 - 1 = 1 /\ 1 # NoRef
  BY FoundingBlocks, BlockAssumption DEF Slot, NoRef
<1> HIDE DEF z
<1>4. z \in FirmNodes(TRUE)
  <2>1. SameTree(EmptyNode, z)
    BY <1>1, TablesSame
  <2>2. QED
    BY <1>1, <2>1, EmptyNodeFirm, SameTreeFirm DEF FirmNodes, Founds
<1>5. MayPlace(z, Founding[1], 1, 1 - 1)
  <2>1. z.blocks[1].hash = NoHash
    BY <1>1, <1>3 DEF EmptyNode, FreeSlot
  <2>2. QED
    BY <1>3, <2>1 DEF MayPlace, Occupied
<1>6. Cardinality(Tracked(z)) < MaxBranches
  <2>1. \A k \in Branch : z.heads[k].head = NoRef
    BY <1>1 DEF EmptyNode, EmptyHead
  <2>2. Tracked(z) = {}
    BY <2>1 DEF Tracked
  <2>3. QED
    BY <2>2, FS_EmptySet, BranchAssumption
<1>7. t \in FirmNodes(TRUE) /\ Occupied(t, 1)
  BY <1>3, <1>4, <1>5, <1>6, FoundBlockFirm
<1> HIDE DEF t
<1>8. t.blocks[1].hash = Founding[1] /\ \A s \in Retained(t) : s = 1
  <2>1. \A s \in Slot : t.blocks[s].hash # NoHash => s \in 1 .. 1 /\ t.blocks[s].hash = Founding[s]
    BY <1>2 DEF Founds
  <2>2. QED
    BY <1>7, <2>1 DEF Occupied, Retained
<1>9. HeadOf(t, 1) # NoRef
  <2>1. 1 \in Retained(t) /\ Tied(t) /\ Full(t, {})
    BY <1>7 DEF FirmNodes, Firm, Occupied, Retained
  <2>2. t.blocks[1].parent # 1
    <3>1. SUFFICES ASSUME t.blocks[1].parent = 1 PROVE FALSE
      OBVIOUS
    <3>2. SeqAt(t, 1) = SeqAt(t, 1) + 1
      BY <1>3, <2>1, <3>1 DEF Tied
    <3>3. SeqAt(t, 1) = 0
      BY <1>3, <1>8 DEF SeqAt
    <3>4. QED
      BY <3>2, <3>3
  <2>3. Children(t, 1) = {}
    BY <1>8, <2>2 DEF Children
  <2>4. PICK k \in Tracked(t) : t.heads[k].head = 1
    BY <2>1, <2>3 DEF Full
  <2>5. QED
    BY <2>4, TrackedFound
<1>10. MayPlace(t, Founding[2], 2, 2 - 1)
  <2>1. ~Occupied(t, 2)
    BY <1>8 DEF Occupied, Retained
  <2>2. SeqAt(t, 1) = 0
    BY <1>3, <1>8 DEF SeqAt
  <2>3. QED
    BY <1>3, <1>7, <2>1, <2>2 DEF MayPlace
<1>11. FoundBlock(t, 2) \in FirmNodes(TRUE)
  BY <1>3, <1>7, <1>9, <1>10, FoundBlockFirm
<1>12. QED
  BY <1>4, <1>7, <1>11 DEF t, z

(* A founding cut off at any step.                                           *)
LEMMA GenesisNodeFirm ==
  ASSUME Founding # <<>>, NEW done \in 0 .. 3
  PROVE  Firm(GenesisNode(done), TRUE)
<1> DEFINE t == FoundBlock(FoundersNode, 1)
           u == FoundBlock(t, 2)
           v == EstablishWindow(u)
<1>1. FoundersNode \in FirmNodes(TRUE) /\ t \in FirmNodes(TRUE) /\ u \in FirmNodes(TRUE)
  BY FoundedFirm
<1>2. CASE done = 0
  BY <1>1, <1>2 DEF GenesisNode, FirmNodes
<1>3. CASE done \in {1, 2}
  <2>1. GenesisNode(done) = t
    BY <1>3 DEF GenesisNode
  <2>2. QED
    BY <1>1, <2>1 DEF FirmNodes
<1>4. CASE done = 3
  <2>1. GenesisNode(done) = [v EXCEPT !.config = "Locked", !.phase = "Ready"]
    BY <1>4 DEF GenesisNode
  <2> HIDE DEF u
  <2>2. v \in FirmNodes(TRUE)
    BY <1>1, EstablishWindowFirm
  <2> HIDE DEF v
  <2>3. v \in NodeState
    BY <2>2 DEF FirmNodes
  <2>4. GenesisNode(done).blocks = v.blocks /\ GenesisNode(done).heads = v.heads
    BY <2>1, <2>3 DEF NodeState
  <2>5. SameTree(v, GenesisNode(done))
    BY <2>4, TablesSame
  <2>6. QED
    BY <2>2, <2>5, SameTreeFirm DEF FirmNodes
<1>5. done \in {0, 1, 2, 3}
  OBVIOUS
<1> HIDE DEF t, u, v
<1>6. QED
  BY <1>2, <1>3, <1>4, <1>5

(* Every action keeps the tables firm.                                       *)
LEMMA NextFirm ==
  ASSUME NodeInv, NEW f, Firm(node, f), f => Roomy, [Next]_vars, Restart => RestartFits
  PROVE  Firm(node', f)
<1>1. CASE UNCHANGED vars
  BY <1>1 DEF vars
<1>2. CASE Receive
  <2>1. PICK b \in Block, unread \in SUBSET Flaky, lockFails \in LockOutcomes :
          ReceiveBlock(b, unread, lockFails)
    BY <1>2 DEF Receive
  <2>2. QED
    BY <2>1, ReceiveFirm
<1>3. CASE Found
  <2>1. PICK done \in 0 .. 3 : ProcessGenesis(done)
    BY <1>3 DEF Found
  <2> DEFINE u == GenesisNode(done)
  <2>2. Founding # <<>> /\ node' = [u EXCEPT !.refused = node.refused]
    BY <2>1 DEF ProcessGenesis
  <2>3. Firm(u, TRUE) /\ u \in NodeState
    BY <2>2, GenesisNodeFirm, GenesisNodeKept DEF Kept, Sound
  <2> HIDE DEF u
  <2>4. node'.blocks = u.blocks /\ node'.heads = u.heads
    BY <2>2, <2>3 DEF NodeState
  <2>5. SameTree(u, node')
    BY <2>4, TablesSame
  <2>6. Firm(node', TRUE)
    BY <2>3, <2>5, SameTreeFirm
  <2>7. QED
    BY <2>6 DEF Firm
<1>4. CASE Restart
  <2>1. PICK unread \in SUBSET Flaky, lockFails \in LockOutcomes :
          InitializeFromStorage(unread, lockFails)
    BY <1>4 DEF Restart
  <2>2. QED
    BY <1>4, <2>1, RestartFirm
<1>5. QED
  BY <1>1, <1>2, <1>3, <1>4 DEF Next

(* A node starts empty.                                                      *)
LEMMA InitFirm == ASSUME Init, NEW f PROVE Firm(node, f)
BY EmptyNodeFirm DEF Init, Firm

(* Links of a firm tree. *)
LEMMA FirmLinks == ASSUME Firm(node, FALSE) PROVE NoDanglingLink
BY DEF Firm, Tied, NoDanglingLink

(* Counts and tips of one that has never overflowed.                         *)
LEMMA FirmCounts ==
  ASSUME NodeInv, Firm(node, TRUE)
  PROVE  RefsExact /\ TipsTracked
<1>1. Full(node, {}) /\ Tipped(node)
  BY DEF Firm
<1>2. node \in NodeState
  BY DEF NodeInv, Kept, Sound
<1>3. ASSUME NEW s \in Retained(node)
      PROVE  node.blocks[s].refs = Max({1, Cardinality(Children(node, s))})
  <2> DEFINE S == Children(node, s)
             n == Cardinality(S)
             M == {1, n}
  <2>1. IsFiniteSet(S)
    <3>1. IsFiniteSet(Slot) /\ S \subseteq Slot
      BY FS_Interval, BlockAssumption DEF Slot, Children, Retained
    <3>2. QED
      BY <3>1, FS_Subset
  <2>2. n \in Nat /\ (S = {} <=> n = 0)
    BY <2>1, FS_CardinalityType, FS_EmptySet
  <2>3. node.blocks[s].refs = IF S = {} THEN 1 ELSE n
    BY <1>1 DEF Full
  <2> HIDE DEF n, S
  <2>4. M \subseteq Nat /\ 1 \in M /\ n \in M
    BY <2>2
  <2>5. Max(M) \in M /\ \A k \in M : Max(M) >= k
    <3>1. \E m \in M : \A k \in M : m >= k
      <4>1. CASE n = 0
        BY <4>1
      <4>2. CASE n # 0
        BY <2>2, <4>2
      <4>3. QED
        BY <4>1, <4>2
    <3>2. QED
      BY <3>1 DEF Max
  <2> HIDE DEF M
  <2>6. Max(M) = IF S = {} THEN 1 ELSE n
    <3>1. Max(M) = 1 \/ Max(M) = n
      BY <2>5 DEF M
    <3>2. Max(M) >= 1 /\ Max(M) >= n
      BY <2>4, <2>5
    <3>3. QED
      BY <2>2, <3>1, <3>2
  <2>7. QED
    BY <2>3, <2>6 DEF M, n, S
<1>4. RefsExact
  BY <1>3 DEF RefsExact
<1>5. ASSUME NEW s \in Retained(node), Children(node, s) = {}
      PROVE  Cardinality({k \in Branch : node.heads[k].head = s}) = 1
  <2>1. PICK k \in Tracked(node) : node.heads[k].head = s
    BY <1>1, <1>5 DEF Full
  <2>2. s # NoRef
    BY Numbers DEF Retained
  <2>3. \A j \in Branch : node.heads[j].head = s => j = k
    BY <1>1, <2>1, <2>2 DEF Tipped, Tracked
  <2>4. {j \in Branch : node.heads[j].head = s} = {k}
    BY <2>1, <2>3 DEF Tracked
  <2>5. Cardinality({k}) = 1
    BY FS_Singleton
  <2>6. QED
    BY <2>4, <2>5
<1>6. TipsTracked
  BY <1>1, <1>5 DEF Tipped, TipsTracked
<1>7. QED
  BY <1>4, <1>6

(* NoDanglingLink: whatever is evicted, released, deleted or cut off, a      *)
(* parent link leads to a retained block, on every node whose restarts find  *)
(* room for the tips in storage.  The run restart_overflow shows what        *)
(* rebuild_from_blocks does on the others.                                   *)
THEOREM LinksHold == Spec /\ [][Restart => RestartFits]_vars => []NoDanglingLink
<1> DEFINE Inv == NodeInv /\ Firm(node, FALSE)
<1>1. Init => Inv
  BY InitKeeps, InitFirm
<1>2. Inv /\ [Next]_vars /\ [Restart => RestartFits]_vars => Inv'
  <2> SUFFICES ASSUME Inv, [Next]_vars, [Restart => RestartFits]_vars PROVE Inv'
    OBVIOUS
  <2>1. NodeInv'
    BY NextKeeps
  <2>2. Firm(node', FALSE)
    <3>1. CASE UNCHANGED vars
      BY <3>1 DEF vars
    <3>2. CASE Restart => RestartFits
      BY <3>2, NextFirm
    <3>3. QED
      BY <3>1, <3>2
  <2>3. QED
    BY <2>1, <2>2
<1>3. Inv => NoDanglingLink
  BY FirmLinks
<1> HIDE DEF Inv
<1>4. QED
  BY <1>1, <1>2, <1>3, PTL DEF Spec

(* RefsExact, TipsTracked: as long as the tip table has an entry for every   *)
(* new tip, every block counts exactly the branches above it and every tip   *)
(* has one entry, through every attachment, deletion, tail release and cut-  *)
(* off call.                                                                 *)
THEOREM CountsHold ==
  Spec /\ [][Restart => RestartFits]_vars /\ []Roomy => [](RefsExact /\ TipsTracked)
<1> DEFINE Inv == NodeInv /\ Firm(node, TRUE)
           Goal == RefsExact /\ TipsTracked
<1>1. Init => Inv
  BY InitKeeps, InitFirm
<1>2. Inv /\ Roomy /\ [Next]_vars /\ [Restart => RestartFits]_vars => Inv'
  <2> SUFFICES ASSUME Inv, Roomy, [Next]_vars, [Restart => RestartFits]_vars PROVE Inv'
    OBVIOUS
  <2>1. NodeInv'
    BY NextKeeps
  <2>2. Firm(node', TRUE)
    <3>1. CASE UNCHANGED vars
      BY <3>1 DEF vars
    <3>2. CASE Restart => RestartFits
      BY <3>2, NextFirm
    <3>3. QED
      BY <3>1, <3>2
  <2>3. QED
    BY <2>1, <2>2
<1>3. Inv => Goal
  BY FirmCounts
<1> HIDE DEF Inv, Goal
<1>4. Spec /\ [][Restart => RestartFits]_vars /\ []Roomy => []Goal
  BY <1>1, <1>2, <1>3, PTL DEF Spec
<1>5. QED
  BY <1>4 DEF Goal

-----------------------------------------------------------------------------
(* With as many entries as slots the tips of storage fit,                    *)
LEMMA ManyFit == ASSUME MaxBranches >= MaxBlocks PROVE RestartFits
<1> SUFFICES ASSUME NEW t PROVE Cardinality(Childless(t)) <= MaxBranches
  BY DEF RestartFits
<1>1. IsFiniteSet(Slot) /\ Cardinality(Slot) = MaxBlocks
  BY FS_Interval, BlockAssumption DEF Slot
<1>2. Childless(t) \subseteq Slot
  BY DEF Childless, Retained
<1>3. Cardinality(Childless(t)) <= MaxBlocks /\ IsFiniteSet(Childless(t))
  BY <1>1, <1>2, FS_Subset
<1>4. Cardinality(Childless(t)) \in Nat
  BY <1>3, FS_CardinalityType
<1>5. QED
  BY <1>3, <1>4, BlockAssumption, BranchAssumption

(* and a block that finds a free slot finds a free entry.                    *)
LEMMA ManyRoomy == ASSUME MaxBranches >= MaxBlocks, Firm(node, FALSE) PROVE Roomy
<1> SUFFICES ASSUME NextFree(node) # NoRef PROVE Cardinality(Tracked(node)) < MaxBranches
  BY DEF Roomy
<1> DEFINE K == Tracked(node)
           R == Retained(node)
           m == [k \in K |-> node.heads[k].head]
           x == NextFree(node)
<1>1. x \in Slot \ R
  <2> DEFINE U == Slot \ R
  <2>1. U \subseteq Nat /\ NextFree(node) = LowestOf(U)
    BY Numbers DEF NextFree
  <2> HIDE DEF U
  <2>2. NextFree(node) \in U
    BY <2>1, LowestIn
  <2>3. QED
    BY <2>2 DEF U
<1>2. IsFiniteSet(Slot) /\ Cardinality(Slot) = MaxBlocks /\ R \subseteq Slot
  BY FS_Interval, BlockAssumption DEF Slot, Retained
<1> HIDE DEF x
<1>3. IsFiniteSet(Slot \ {x}) /\ Cardinality(Slot \ {x}) = MaxBlocks - 1
  BY <1>1, <1>2, FS_RemoveElement
<1>4. m \in Injection(K, Slot \ {x})
  <2>1. \A k \in K : m[k] \in Slot \ {x}
    BY <1>1 DEF Firm, Tipped, Occupied, Retained
  <2>2. \A j, k \in K : m[j] = m[k] => j = k
    BY DEF Firm, Tipped
  <2>3. QED
    BY <2>1, <2>2 DEF Injection, IsInjective
<1> HIDE DEF m
<1>5. IsFiniteSet(K) /\ Cardinality(K) <= Cardinality(Slot \ {x})
  BY <1>3, <1>4, FS_Injection
<1>6. Cardinality(K) \in Nat
  BY <1>5, FS_CardinalityType
<1>7. QED
  BY <1>3, <1>5, <1>6, BlockAssumption, BranchAssumption

(* NoDanglingLink, RefsExact, TipsTracked: a tip table with as many entries  *)
(* as the block table has slots never overflows, so all three hold of it     *)
(* without a further condition, whatever it is sent and whatever storage it  *)
(* starts from.                                                              *)
THEOREM AmpleTables ==
  MaxBranches >= MaxBlocks => (Spec => [](NoDanglingLink /\ RefsExact /\ TipsTracked))
<1> SUFFICES ASSUME MaxBranches >= MaxBlocks
             PROVE  Spec => [](NoDanglingLink /\ RefsExact /\ TipsTracked)
  OBVIOUS
<1> DEFINE Inv == NodeInv /\ Firm(node, TRUE)
           Goal == NoDanglingLink /\ RefsExact /\ TipsTracked
<1>1. Init => Inv
  BY InitKeeps, InitFirm
<1>2. Inv => Firm(node, FALSE)
  BY DEF Firm
<1>3. Inv /\ [Next]_vars => Inv'
  <2> SUFFICES ASSUME Inv, [Next]_vars PROVE Inv'
    OBVIOUS
  <2>1. NodeInv'
    BY NextKeeps
  <2>2. Roomy /\ RestartFits
    BY <1>2, ManyRoomy, ManyFit
  <2>3. Firm(node', TRUE)
    BY <2>2, NextFirm
  <2>4. QED
    BY <2>1, <2>3
<1>4. Inv => Goal
  BY <1>2, FirmLinks, FirmCounts
<1> HIDE DEF Inv, Goal
<1>5. Spec => []Goal
  BY <1>1, <1>3, <1>4, PTL DEF Spec
<1>6. QED
  BY <1>5 DEF Goal
=============================================================================
