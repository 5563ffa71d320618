----------------------------- MODULE ChainHeads -----------------------------
(***************************************************************************)
(* The bounded tip table of src/src/chain_heads.rs: one entry per tracked    *)
(* tip of the block tree, with the caches parent recovery reads, and the     *)
(* bounded eviction.  The operators update t.blocks and t.heads of a node    *)
(* record t together, as the code's methods take both tables.                *)
(* Timestamps are left out: the request schedule is module Recovery.         *)
(***************************************************************************)
EXTENDS BlockTable

CONSTANT MaxBranches   \* MAX_BRANCH_COUNT, the number of entries

ASSUME BranchAssumption == MaxBranches \in Nat \ {0}

Branch == 1 .. MaxBranches

InBranchOrder == [k \in Branch |-> k]

ChainHeadEntry == [head : Ref, tail : Ref, missing : Nat, connected : BOOLEAN, value : Nat]

EmptyHead ==
  [head |-> NoRef, tail |-> NoRef, missing |-> NoHash, connected |-> FALSE, value |-> 0]

Tracked(t) == {k \in Branch : t.heads[k].head # NoRef}

StoredHeads(t) == {k \in Tracked(t) : ~t.heads[k].connected}

HeadOf(t, s) == LowestOf({k \in Tracked(t) : t.heads[k].head = s})

Untrack(t, k) == [t EXCEPT !.heads[k] = EmptyHead]

(* The missing-parent hash of a Stored head k with this tail: anchorPrev when *)
(* the tail is the anchor block; otherwise it is copied from the first Stored *)
(* entry, in table order, whose cached tail is the same block -- and that     *)
(* entry may be k itself, whose tail has just been written.                   *)
MissingParent(t, k, tail, anchor, anchorPrev) ==
  IF tail = anchor THEN anchorPrev
  ELSE t.heads[Min({j \in StoredHeads(t) : t.heads[j].tail = tail} \union {k})].missing

Caches(h, path, i, missing) ==
  IF i # NoRef THEN [h EXCEPT !.connected = TRUE, !.tail = path[i], !.missing = NoHash]
  ELSE [h EXCEPT !.connected = FALSE, !.tail = Last(path), !.missing = missing]

CachesFrom(t, k, path, anchor, anchorPrev) ==
  [t EXCEPT !.heads[k] = Caches(@, path, ConnectionIndex(t, path),
                                MissingParent(t, k, Last(path), anchor, anchorPrev))]

(* Reread an entry's caches from the tree. *)
RecomputeCaches(t, k, anchor, anchorPrev) ==
  CachesFrom(t, k, Path(t, t.heads[k].head), anchor, anchorPrev)

RecomputeIfTracked(t, k) ==
  IF k \in Tracked(t) THEN RecomputeCaches(t, k, NoRef, NoHash) ELSE t

RecomputeAllCaches(t) == FoldLeft(RecomputeIfTracked, t, InBranchOrder)

RefreshHead(t, s) ==
  IF HeadOf(t, s) = NoRef THEN t ELSE RecomputeCaches(t, HeadOf(t, s), NoRef, NoHash)

SetBranchValue(t, s, v) ==
  IF HeadOf(t, s) = NoRef THEN t ELSE [t EXCEPT !.heads[HeadOf(t, s)].value = v]

(* Mutant: only the active value follows the tail. *)
KeepBranchValues(t, v) == t

SubtractBranchValue(t, v) ==
  [t EXCEPT !.heads = [k \in Branch |->
     IF Occupied(t, t.heads[k].head) /\ t.blocks[t.heads[k].head].status = "Connected"
     THEN [@[k] EXCEPT !.value = Monus(t.heads[k].value, v)] ELSE @[k]]]

-----------------------------------------------------------------------------
(* Eviction. *)

LowerBlock(t, s, r) ==
  \/ SeqAt(t, s) < SeqAt(t, r)
  \/ SeqAt(t, s) = SeqAt(t, r) /\ t.blocks[s].hash < t.blocks[r].hash

(* Mutant: the active head may be the victim. *)
AnyVictims(t) ==
  {k \in Tracked(t) : \A j \in Tracked(t) : ~LowerBlock(t, t.heads[j].head, t.heads[k].head)}

EvictionVictims(t) ==
  LET eligible == {k \in Tracked(t) : /\ t.heads[k].head # t.active
                                      /\ Occupied(t, t.heads[k].head)}
  IN  {k \in eligible : \A j \in eligible : ~LowerBlock(t, t.heads[j].head, t.heads[k].head)}

Stops(t, path) ==
  {i \in DOMAIN path : t.blocks[path[i]].onActive \/ t.blocks[path[i]].refs > 1}

(* Walk down from the victim's tip: a block no other branch counts is        *)
(* deleted; the first shared or active-chain block loses one edge and stops  *)
(* the walk.                                                                 *)
Release(t, path, stops) ==
  IF stops = {} THEN DeleteBlocks(t, Range(path))
  ELSE DeleteBlocks(AdjustRefs(t, path[Min(stops)], -1), Range(SubSeq(path, 1, Min(stops) - 1)))

Evict(t, victim, path) == Untrack(Release(t, path, Stops(t, path)), victim)

EvictOne(t) ==
  IF EvictionVictims(t) = {} THEN t
  ELSE LET victim == Min(EvictionVictims(t)) IN Evict(t, victim, Path(t, t.heads[victim].head))

EnsureRoom(t) == IF Cardinality(Tracked(t)) >= MaxBranches THEN EvictOne(t) ELSE t

PlaceHead(t, k, x, anchor, anchorPrev) ==
  IF k = NoRef THEN t
  ELSE RecomputeCaches([t EXCEPT !.heads[k] = [EmptyHead EXCEPT !.head = x, !.tail = x]],
                       k, anchor, anchorPrev)

FillEntry(t, x, anchor, anchorPrev) ==
  PlaceHead(t, LowestOf(Branch \ Tracked(t)), x, anchor, anchorPrev)

InsertHead(t, x, anchor, anchorPrev) == FillEntry(EnsureRoom(t), x, anchor, anchorPrev)

-----------------------------------------------------------------------------
(* Admission.  The new block x may be the parent other heads wait for.       *)

AttachTail(t, k, x) ==
  LET tail == t.heads[k].tail
      xHash == t.blocks[x].hash
      waits == /\ k \in StoredHeads(t)
               /\ tail # x
               /\ t.heads[k].missing = xHash
               /\ Occupied(t, tail)
               /\ t.blocks[tail].parent = NoRef
               /\ SeqAt(t, tail) = SeqAt(t, x) + 1
      linked == SetParent(t, tail, x)
  IN  IF ~waits THEN t
      ELSE IF HeadOf(linked, x) # NoRef THEN Untrack(linked, HeadOf(linked, x))
      ELSE AdjustRefs(linked, x, 1)

AttachTails(t, x) == FoldLeft(LAMBDA u, k : AttachTail(u, k, x), t, InBranchOrder)

RefreshIfWaiting(t, k, x, xHash) ==
  IF k \in StoredHeads(t) /\ t.heads[k].missing = xHash
  THEN RecomputeCaches(t, k, x, PrevHash[xHash]) ELSE t

RefreshWaiting(t, x, xHash) ==
  FoldLeft(LAMBDA u, k : RefreshIfWaiting(u, k, x, xHash), t, InBranchOrder)

(* Mutant: the waiting entries are linked and keep their caches. *)
ResolveLinksOnly(t, x) == AttachTails(t, x)

(* Nothing to resolve if the eviction made for x took x itself. *)
ResolvePendingTails(t, x) ==
  IF Occupied(t, x) THEN RefreshWaiting(AttachTails(t, x), x, t.blocks[x].hash) ELSE t

(* The new tip x takes over its parent's entry, which is k, or gets its own. *)
PlaceTip(t, x, p, k, prev) ==
  IF k # NoRef THEN RecomputeCaches([t EXCEPT !.heads[k].head = x], k, x, prev)
  ELSE InsertHead(AdjustRefs(t, p, 1), x, x, prev)

(* x is the slot just filled, p the slot of its parent or NoRef. *)
OnBlockAdmitted(t, x, p) ==
  ResolvePendingTails(
    PlaceTip(AdjustRefs(t, x, 1), x, p, IF p = NoRef THEN NoRef ELSE HeadOf(t, p),
             PrevHash[t.blocks[x].hash]), x)

-----------------------------------------------------------------------------
(* Deletion follow-up and restart. *)

(* Mutant: a tip counts no branch. *)
CountChildren(t) ==
  [t EXCEPT !.blocks = [s \in Slot |->
     IF Occupied(t, s) THEN [@[s] EXCEPT !.refs = Cardinality(Children(t, s))] ELSE @[s]]]

RecomputeRefs(t) ==
  [t EXCEPT !.blocks = [s \in Slot |->
     IF Occupied(t, s)
     THEN [@[s] EXCEPT !.refs = IF Children(t, s) = {} THEN 1 ELSE Cardinality(Children(t, s))]
     ELSE @[s]]]

UntrackedTip(t, s) == Occupied(t, s) /\ HeadOf(t, s) = NoRef /\ Children(t, s) = {}

(* The entries of deleted tips go, except that the first one is retargeted   *)
(* to the deleted subtree's parent if that became an untracked tip.          *)
UntrackDeleted(t, hit, reattach) ==
  [t EXCEPT !.heads = [k \in Branch |->
     IF k \notin hit THEN @[k]
     ELSE IF UntrackedTip(t, reattach) /\ k = Min(hit) THEN [@[k] EXCEPT !.head = reattach]
     ELSE EmptyHead]]

OnBlocksDeleted(t, deleted, reattach) ==
  RecomputeRefs(RecomputeAllCaches(
    UntrackDeleted(t, {k \in Tracked(t) : t.heads[k].head \in deleted}, reattach)))

(* A tip enters the rebuilt table with no anchor block in hand. *)
InsertIfTip(t, s) ==
  IF Occupied(t, s) /\ Children(t, s) = {} THEN InsertHead(t, s, NoRef, NoHash) ELSE t

InsertTips(t) == FoldLeft(InsertIfTip, t, InSlotOrder)

RebuildFromBlocks(t) ==
  RecomputeRefs(InsertTips([t EXCEPT !.heads = [k \in Branch |-> EmptyHead]]))

(* Mutant: the missing parents stay unknown. *)
LeaveUnseeded(t) == t

(* The one durable read a rebuild needs: each Stored tail's previous_hash. *)
SeedMissingParents(t) ==
  [t EXCEPT !.heads = [k \in Branch |->
     IF k \in StoredHeads(t) /\ Occupied(t, t.heads[k].tail)
     THEN [@[k] EXCEPT !.missing = PrevHash[t.blocks[t.heads[k].tail].hash]] ELSE @[k]]]
=============================================================================
