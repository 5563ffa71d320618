---------------------------- MODULE ActiveChain ----------------------------
(***************************************************************************)
(* The Ready node's tree work in src/src/api.rs: the snake-chain window (its  *)
(* establishment, tail release and reclamation), the promotion of            *)
(* extensions, the continuation into Stored children, and the judgement and  *)
(* valuation of side branches.  The block verdicts the code computes from    *)
(* payload bytes are constants: they depend on the block and its ancestry,   *)
(* which its hash fixes.                                                     *)
(***************************************************************************)
EXTENDS ChainHeads

CONSTANTS
  W,            \* the configured active chain length
  Votes,        \* Votes[b]: consumed_votes, the block's value
  Size,         \* Size[b]: serialized length
  Kind,         \* Kind[b]: "ChainConfig", "Balance", "Mint" or "Plain" payload
  Duty,         \* Duty[b]: what a non-configuration block still owes when dropped
  Content,      \* Content[b]: the configuration a configuration block carries
  SizeLimit,    \* SizeLimit[c]: the block size limit that configuration c declares
  BadBlock,     \* blocks a full derivation finds evidence against
  BadContext,   \* those of them that Tier 2 already refuses
  BadVotes      \* blocks that derive, but that the vote engine refuses to apply

Duties == {"None", "SeedSource", "Utxo"}

NoContent == 0
Configuration == {Content[b] : b \in Block} \ {NoContent}

ASSUME ChainAssumption ==
  /\ W \in Nat \ {0, 1}
  /\ Votes \in [Block -> Nat] /\ Size \in [Block -> Nat]
  /\ Kind \in [Block -> {"ChainConfig", "Balance", "Mint", "Plain"}]
  /\ Duty \in [Block -> Duties]
  /\ Content \in [Block -> Nat]
  /\ \A b \in Block : Content[b] # NoContent <=> Kind[b] = "ChainConfig"
  /\ \A c \in Configuration : SizeLimit[c] \in Nat
  /\ BadContext \subseteq BadBlock /\ BadBlock \subseteq Block
  /\ BadVotes \subseteq Block \ BadBlock

Phases == {"Collecting", "Ready", "Down"}

(* The RAM state of a node; its fields are explained in module Node. *)
NodeState ==
  [blocks : [Slot -> BlockEntry], heads : [Branch -> ChainHeadEntry],
   active : Ref, tail : Ref, value : Nat,
   config : {"None", "Tentative", "Locked"}, content : Configuration \union {NoContent},
   tentative : Ref, phase : Phases, refused : BOOLEAN]

HashAt(t, s) == t.blocks[s].hash

SumVotes(t, S) == MapThenSumSet(LAMBDA s : Votes[HashAt(t, s)], S)

HigherRank(v1, h1, v2, h2) ==
  \/ v1 > v2
  \/ v1 = v2 /\ Size[h1] > Size[h2]
  \/ v1 = v2 /\ Size[h1] = Size[h2] /\ h1 < h2

DiscardTentative(t) ==
  IF t.config = "Tentative"
  THEN [t EXCEPT !.tentative = NoRef, !.config = "None", !.content = NoContent]
  ELSE [t EXCEPT !.tentative = NoRef]

(* A configuration block that does not carry the configuration in hand. *)
Mismatches(t, b) == Kind[b] = "ChainConfig" /\ Content[b] # t.content

(* The declared size limit binds only once the configuration is locked. *)
Oversized(t, b) == Size[b] > SizeLimit[t.content]

(* The evidence a full derivation of block b may find. *)
Condemned(t, b) == b \in BadBlock \/ Mismatches(t, b) \/ (t.config = "Locked" /\ Oversized(t, b))

ForgetTentative(t, deleted) == IF t.tentative \in deleted THEN DiscardTentative(t) ELSE t

ForgetActive(t, deleted) ==
  IF t.active \in deleted THEN [t EXCEPT !.active = NoRef, !.tail = NoRef, !.value = 0] ELSE t

(* Delete a subtree and repair everything that named it. *)
DeleteSet(t, deleted, reattach) ==
  IF deleted = {} THEN t
  ELSE OnBlocksDeleted(ForgetTentative(ForgetActive(DeleteBlocks(t, deleted), deleted), deleted),
                       deleted, reattach)

DeleteSubtree(t, root) == DeleteSet(t, MarkSubtree(t, root), t.blocks[root].parent)

(* The subtrees of several blocks, one after the other in slot order: an     *)
(* earlier deletion may have taken a later root.                             *)
DropIfRoot(t, s, roots) ==
  IF s \in roots /\ Occupied(t, s) THEN DeleteSubtree(t, s) ELSE t

DropEach(t, roots) == FoldLeft(LAMBDA u, s : DropIfRoot(u, s, roots), t, InSlotOrder)

-----------------------------------------------------------------------------
(* The window. *)

(* Mutant: the new tail may be any child of the released one. *)
AnyChildren(t, s) == Children(t, s)

OnActiveChildren(t, s) == {c \in Children(t, s) : t.blocks[c].onActive}

(* Mutant: a fragment that waits for the tail itself is kept. *)
ReclaimBelowTail(t, tailSeq) ==
  FoldLeft(LAMBDA u, k :
             IF /\ k \in StoredHeads(u) /\ Occupied(u, u.heads[k].tail)
                /\ SeqAt(u, u.heads[k].tail) <= tailSeq
             THEN DeleteSubtree(u, u.heads[k].tail) ELSE u,
           t, InBranchOrder)

(* Stored fragments rooted at or below the successor of the tail can never   *)
(* connect.  The root is read from the entry's cache.                        *)
ReclaimIfStale(t, k, tailSeq) ==
  IF /\ k \in StoredHeads(t) /\ Occupied(t, t.heads[k].tail)
     /\ SeqAt(t, t.heads[k].tail) <= tailSeq + 1
  THEN DeleteSubtree(t, t.heads[k].tail) ELSE t

ReclaimStaleFragments(t, tailSeq) ==
  FoldLeft(LAMBDA u, k : ReclaimIfStale(u, k, tailSeq), t, InBranchOrder)

CanAdvance(t) ==
  /\ t.tail # t.active
  /\ Occupied(t, t.tail) /\ t.blocks[t.tail].onActive /\ t.blocks[t.tail].parent = NoRef
  /\ OnActiveChildren(t, t.tail) # {}

DropForks(t, released, newTail) ==
  DropEach(t, Children(t, released) \ {newTail})

DropBlock(t, released) == ForgetTentative(DeleteBlocks(t, {released}), {released})

MoveTail(t, released, newTail) ==
  ReclaimStaleFragments(
    [SetParent(DropBlock(DropForks(t, released, newTail), released), newTail, NoRef)
       EXCEPT !.tail = newTail],
    SeqAt(t, newTail))

AdvanceTail(t) ==
  IF CanAdvance(t) THEN MoveTail(t, t.tail, Min(OnActiveChildren(t, t.tail))) ELSE t

(* Mutant: one block too many. *)
LongWindowTailSeq(rootSeq, headSeq) == Max({rootSeq, Monus(headSeq, W)})

WindowTailSeq(rootSeq, headSeq) == Max({rootSeq, Monus(headSeq + 1, W)})

AdvanceBelow(t, target) ==
  IF Occupied(t, t.tail) /\ SeqAt(t, t.tail) < target THEN AdvanceTail(t) ELSE t

AdvanceTo(t, target) == FoldLeft(LAMBDA u, n : AdvanceBelow(u, target), t, InSlotOrder)

WindowFrom(t, root) ==
  AdvanceTo(ReclaimStaleFragments(RecomputeAllCaches([t EXCEPT !.tail = root]), SeqAt(t, root)),
            WindowTailSeq(SeqAt(t, root), SeqAt(t, t.active)))

EstablishWindow(t) == WindowFrom(t, Last(Path(t, t.active)))

(* The candidate's path becomes the active chain; windowValue was summed by  *)
(* the pass, before the window was cut.                                      *)
PromoteCandidate(t, tip, path, windowValue) ==
  [EstablishWindow(
     [SetOnActive(SetStatus(SetOnActive(t, Slot, FALSE), path, "Active"), path, TRUE)
        EXCEPT !.active = tip])
     EXCEPT !.value = windowValue]

(* The tail follows, and with it the values that counted its successor. *)
FollowTail(t, tailValue) ==
  IF tailValue = {} \/ ~CanAdvance(t) THEN t
  ELSE LET v == CHOOSE v \in tailValue : TRUE
       IN  SubtractBranchValue([AdvanceTail(t) EXCEPT !.value = Monus(@, v)], v)

HeadAt(t, x) == [SetOnActive(SetStatus(t, {x}, "Active"), {x}, TRUE) EXCEPT !.active = x]

PromoteExtension(t, x, value, tailValue) ==
  FollowTail([RefreshHead(HeadAt(t, x), x) EXCEPT !.value = @ + value], tailValue)

-----------------------------------------------------------------------------
(* Judging an extension of the active head.  unread is the set of blocks     *)
(* whose stored bytes cannot be read during this call.                       *)

(* Both ends of the window are retained. *)
HoldsWindow(t) == Occupied(t, t.tail) /\ Occupied(t, t.active)

(* Mutant: the tail goes one block too late. *)
WindowOverfull(t) == Monus(SeqAt(t, t.active) + 1, SeqAt(t, t.tail)) > W

WindowFull(t) == Monus(SeqAt(t, t.active) + 1, SeqAt(t, t.tail)) >= W

(* Mutant: a configuration block owes nothing. *)
DutyRestated(t, b) ==
  /\ Duty[HashAt(t, t.tail)] = "SeedSource" => Kind[b] = "Balance"
  /\ Duty[HashAt(t, t.tail)] = "Utxo" => Kind[b] = "Mint"

(* What dropping the tail would lose must be restated by the extension. *)
TailDropAllowed(t, b) ==
  LET tail == HashAt(t, t.tail)
      owed == IF Kind[tail] = "ChainConfig" THEN "ChainConfig" ELSE Duty[tail]
  IN  CASE owed = "ChainConfig" -> Kind[b] = "ChainConfig"
        [] owed = "SeedSource"  -> Kind[b] = "Balance"
        [] owed = "Utxo"        -> Kind[b] = "Mint"
        [] OTHER                -> TRUE

NewTailUnread(t, unread) ==
  \/ OnActiveChildren(t, t.tail) = {}
  \/ HashAt(t, Min(OnActiveChildren(t, t.tail))) \in unread

(* The value the tail advance of this extension subtracts: {} for none. *)
TailValue(t) ==
  IF WindowFull(t) THEN {Votes[HashAt(t, Min(OnActiveChildren(t, t.tail)))]} ELSE {}

(* Mutant: the block is not derived before it is applied. *)
JudgeTailDropOnly(t, b, unread) ==
  IF WindowFull(t) /\ ~TailDropAllowed(t, b) THEN "Invalid" ELSE "Valid"

JudgeHeadExtension(t, b, unread) ==
  IF ~HoldsWindow(t) THEN "Local"
  ELSE IF WindowFull(t) /\ ~TailDropAllowed(t, b) THEN "Invalid"
  ELSE IF WindowFull(t) /\ NewTailUnread(t, unread) THEN "Local"
  ELSE IF b \in unread THEN "Local"
  ELSE IF Condemned(t, b) THEN "Invalid"
  ELSE "Valid"

-----------------------------------------------------------------------------
(* The continuation into Stored children of the active head. *)

StoredChildren(t) == {c \in Children(t, t.active) : t.blocks[c].status = "Stored"}

BestStoredChild(t, unread) ==
  LET all == StoredChildren(t)
      wins(c, d) == HigherRank(Votes[HashAt(t, c)], HashAt(t, c), Votes[HashAt(t, d)], HashAt(t, d))
  IN  IF Cardinality(all) <= 1 THEN LowestOf(all)
      ELSE IF \E c \in all : HashAt(t, c) \in unread THEN NoRef
      ELSE CHOOSE c \in all : \A d \in all \ {c} : wins(c, d)

ExtendWith(t, c, b, verdict) ==
  CASE verdict = "Local" -> t
    [] verdict = "Valid" /\ b \notin BadVotes -> PromoteExtension(t, c, Votes[b], TailValue(t))
    [] OTHER -> DeleteSubtree(t, c)

ExtendTo(t, c, unread) ==
  IF c = NoRef \/ HashAt(t, c) \in unread THEN t
  ELSE ExtendWith(t, c, HashAt(t, c), JudgeHeadExtension(t, HashAt(t, c), unread))

ExtendOnce(t, unread) == ExtendTo(t, BestStoredChild(t, unread), unread)

DriveForwardExtension(t, unread) ==
  FoldLeft(LAMBDA u, n : ExtendOnce(u, unread), t, InSlotOrder)

-----------------------------------------------------------------------------
(* Side branches. *)

(* Mutant: only a head directly on a judged block is looked at. *)
PendingAboveJudged(t, s) ==
  LET p == t.blocks[s].parent
  IN  t.blocks[s].status = "Stored" /\ p # NoRef /\ p # t.active /\ t.blocks[p].status # "Stored"

(* Connected in the tip table, with Stored blocks above a judged one that is *)
(* not the active head.                                                      *)
PendingSideHead(t, s) ==
  LET path   == Path(t, s)
      judged == {i \in DOMAIN path : t.blocks[path[i]].status # "Stored"}
  IN  /\ t.blocks[s].status = "Stored"
      /\ judged # {} => path[Min(judged)] # t.active
      /\ judged = {} => t.blocks[Last(path)].parent # NoRef

BranchPart(t, s) ==
  LET path == Path(t, s) IN SubSeq(path, 1, ConnectionIndex(t, path) - 1)

(* The active blocks above the branch's connection point. *)
ActivePart(t, s) ==
  LET path == Path(t, s)
      top  == Path(t, t.active)
      conn == path[ConnectionIndex(t, path)]
  IN  {top[i] : i \in {j \in DOMAIN top : \A m \in 1 .. j : top[m] # conn}}

Walkable(t, s, unread) ==
  LET path == Path(t, s)
      read == Range(BranchPart(t, s)) \union ActivePart(t, s)
  IN  /\ ConnectionIndex(t, path) # NoRef
      /\ path[ConnectionIndex(t, path)] \in Ancestry(t, t.active)
      /\ \A r \in read : HashAt(t, r) \notin unread

(* Mutant: the active blocks the branch replaces still count. *)
AddedValue(t, s, extra) == t.value + SumVotes(t, Range(BranchPart(t, s))) + extra

SideValue(t, s, extra) ==
  Monus(t.value, SumVotes(t, ActivePart(t, s))) + SumVotes(t, Range(BranchPart(t, s))) + extra

(* Mutant: only the tip is marked. *)
MarkTipConnected(t, s) == SetStatus(t, {s}, "Connected")

(* The Stored blocks at the top of the ancestry of s. *)
MarkConnected(t, s) ==
  LET path == Path(t, s)
      run  == {i \in DOMAIN path : \A j \in 1 .. i : t.blocks[path[j]].status = "Stored"}
  IN  SetStatus(t, {path[i] : i \in run}, "Connected")

AdmissibleTip(t, s) ==
  LET matured == SeqAt(t, t.active) + 1 >= SeqAt(t, t.tail) + W
  IN  HoldsWindow(t) /\ (~matured \/ SeqAt(t, s) + 1 >= SeqAt(t, t.tail) + W)

ValuedHead(t, s) ==
  /\ Occupied(t, s) /\ t.blocks[s].status = "Connected" /\ HeadOf(t, s) # NoRef

(* best is NoBest or the valued head considered best so far. *)
NoBest == [slot |-> NoRef, value |-> 0, hash |-> NoHash]

Consider(t, best, s) ==
  LET rank == [slot |-> s, value |-> t.heads[HeadOf(t, s)].value, hash |-> HashAt(t, s)]
  IN  IF /\ s # t.active /\ ValuedHead(t, s) /\ AdmissibleTip(t, s)
         /\ best = NoBest \/ HigherRank(rank.value, rank.hash, best.value, best.hash)
      THEN rank ELSE best

Refused(t, part) ==
  {i \in DOMAIN part :
     t.blocks[part[i]].status = "Stored" /\ HashAt(t, part[i]) \in BadContext}

(* u is the tree t with the branch that ends at tip connected. *)
Valued(u, t, tip) ==
  IF Occupied(u, tip) /\ u.blocks[tip].status = "Connected"
  THEN SetBranchValue(u, tip, SideValue(t, tip, 0)) ELSE u

Considered(u, best, tip) ==
  [t |-> u, best |-> IF Occupied(u, tip) THEN Consider(u, best, tip) ELSE best]

ConnectBelow(t, root, parent) == DeleteSubtree(MarkConnected(t, parent), root)

(* Connect a branch whose blocks all pass, or the part of it below the       *)
(* lowest block that Tier 2 refuses, which goes with its subtree.            *)
ConnectPart(t, best, part, refused) ==
  LET root == part[Max(refused)]
      tip  == IF refused = {} THEN part[1] ELSE t.blocks[root].parent
  IN  Considered(Valued(IF refused = {} THEN MarkConnected(t, tip) ELSE ConnectBelow(t, root, tip),
                        t, tip),
                 best, tip)

ConnectOne(t, best, part) == ConnectPart(t, best, part, Refused(t, part))

(* Every pending side head that can be walked, lowest entry first; each turn *)
(* connects or deletes a Stored block, so there are at most MaxBlocks.       *)
ConnectNext(r, ready) ==
  IF ready = {} THEN r
  ELSE ConnectOne(r.t, r.best, BranchPart(r.t, r.t.heads[Min(ready)].head))

ConnectableHeads(t, unread) ==
  {k \in Tracked(t) : /\ t.heads[k].connected
                      /\ PendingSideHead(t, t.heads[k].head)
                      /\ Walkable(t, t.heads[k].head, unread)}

ConnectAll(r, unread) ==
  FoldLeft(LAMBDA q, n : ConnectNext(q, ConnectableHeads(q.t, unread)), r, InSlotOrder)

ConnectSideBranches(t, unread) ==
  IF t.tail = NoRef THEN [t |-> t, best |-> NoBest]
  ELSE ConnectAll([t |-> t, best |-> NoBest], unread)

(* A side block judged before it was written, once the tip table has seen it.*)
ConnectJudgedSideBlock(t, x, p, votes, parentValue, unread) ==
  LET connected == SetStatus(t, {x}, "Connected")
  IN  IF HeadOf(t, x) = NoRef THEN connected
      ELSE IF parentValue # {}
      THEN SetBranchValue(connected, x, votes + CHOOSE v \in parentValue : TRUE)
      ELSE IF Walkable(t, p, unread) THEN SetBranchValue(connected, x, SideValue(t, p, votes))
      ELSE t

(* Mutant: only the block just admitted may be the target. *)
SwitchToAdmitted(t, admitted, best) ==
  LET rank == Consider(t, NoBest, admitted)
  IN  IF rank # NoBest /\ HigherRank(rank.value, rank.hash, t.value, HashAt(t, t.active))
      THEN rank.hash ELSE NoHash

(* The head a chain switch should go to, NoHash if none. *)
SwitchTarget(t, admitted, best) ==
  LET first == Consider(t, NoBest, admitted)
      final == IF best = NoBest THEN first ELSE Consider(t, first, best.slot)
  IN  IF /\ final # NoBest
         /\ HigherRank(final.value, final.hash, t.value, HashAt(t, t.active))
      THEN final.hash ELSE NoHash
=============================================================================
