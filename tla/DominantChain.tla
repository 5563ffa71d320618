--------------------------- MODULE DominantChain ---------------------------
(***************************************************************************)
(* Dominant-chain acquisition, src/src/api.rs: the stopping condition over    *)
(* the tracked heads, the processing pass over the candidate's path, the     *)
(* recovery from a failed pass, the adoption of the candidate's              *)
(* configuration, the lock and the promotion.  All configurations declare    *)
(* the same window length W and differ in their size limit.                  *)
(***************************************************************************)
EXTENDS ActiveChain

-----------------------------------------------------------------------------
(* The stopping condition. *)

(* The lowest chain-configuration block of a segment that ends at a block    *)
(* with no parent link; NoRef when there is none, or when the segment ends   *)
(* at a link to a slot that is free.                                         *)
FirstConfig(t, tip) ==
  LET path    == Path(t, tip)
      configs == {i \in DOMAIN path : Kind[HashAt(t, path[i])] = "ChainConfig"}
  IN  IF t.blocks[Last(path)].parent # NoRef \/ configs = {} THEN NoRef
      ELSE path[Max(configs)]

(* Mutant: only a segment that reaches the genesis block will do. *)
GenesisHeads(t) ==
  {k \in Tracked(t) : /\ Occupied(t, t.heads[k].tail) /\ SeqAt(t, t.heads[k].tail) = 0
                      /\ FirstConfig(t, t.heads[k].head) # NoRef}

StoppingHeads(t) ==
  {k \in Tracked(t) :
     LET h == t.heads[k].head
         e == t.heads[k].tail
     IN  /\ Occupied(t, h) /\ Occupied(t, e)
         /\ SeqAt(t, e) = 0 \/ Monus(SeqAt(t, h), SeqAt(t, e)) + 1 >= W
         /\ FirstConfig(t, h) # NoRef}

(* The tip of the highest stopping head, ties to the lowest hash. *)
Candidate(t) ==
  LET tips == {t.heads[k].head : k \in StoppingHeads(t)}
      before(s, r) == \/ SeqAt(t, s) > SeqAt(t, r)
                      \/ SeqAt(t, s) = SeqAt(t, r) /\ HashAt(t, s) < HashAt(t, r)
  IN  IF tips = {} THEN NoRef ELSE CHOOSE s \in tips : \A r \in tips \ {s} : before(s, r)

-----------------------------------------------------------------------------
(* The pass and its recovery. *)

AllStored(t) == SetOnActive(SetStatus(t, Slot, "Stored"), Slot, FALSE)

AnchorAt(t, genesis) ==
  [SetOnActive(t, {genesis}, TRUE) EXCEPT !.active = genesis, !.tail = NoRef, !.value = 0]

(* Back to a tree of Stored blocks whose only anchor is the genesis block.   *)
Unwind(t) == AnchorAt(AllStored(t), LowestOf({s \in Retained(t) : SeqAt(t, s) = 0}))

(* Projections are reset, the target's subtree is deleted, and the node      *)
(* collects again.                                                           *)
RecoverWithout(t, deleted, reattach) ==
  IF deleted = {} THEN Unwind(t)
  ELSE OnBlocksDeleted(Unwind(ForgetTentative(DeleteBlocks(t, deleted), deleted)),
                       deleted, reattach)

RecoverFromFailedPass(t, target) ==
  [RecoverWithout(t, MarkSubtree(t, target), t.blocks[target].parent)
     EXCEPT !.phase = "Collecting"]

(* The first block of the path, lowest first, that stops the pass: its index *)
(* in the path, 0 if the pass succeeds.  The segment's own configuration     *)
(* block is compared with the configuration in hand before any other block.  *)
StopsPass(t, path, unread) ==
  LET stops  == {i \in DOMAIN path : \/ HashAt(t, path[i]) \in unread \union BadVotes
                                    \/ Condemned(t, HashAt(t, path[i]))}
      config == CHOOSE i \in DOMAIN path : path[i] = FirstConfig(t, path[1])
      first  == HashAt(t, path[config])
  IN  IF stops = {} THEN 0
      ELSE IF first \in unread \/ Mismatches(t, first) THEN config
      ELSE Max(stops)

(* The value of the window the promotion will cut. *)
WindowValue(t, path) ==
  LET tailSeq == WindowTailSeq(SeqAt(t, Last(path)), SeqAt(t, path[1]))
  IN  SumVotes(t, {s \in Range(path) : SeqAt(t, s) > tailSeq})

(* The window promotion of a candidate that passed. *)
BecomeReady(t, path) ==
  [PromoteCandidate(t, path[1], Range(path), WindowValue(t, path)) EXCEPT !.phase = "Ready"]

-----------------------------------------------------------------------------
(* The configuration: locked once and for all by the first pass that         *)
(* succeeds, adopted from the candidate while it is only tentative.          *)

LockConfig(t) == [t EXCEPT !.config = "Locked", !.tentative = NoRef]

OffChain(t) == {s \in Retained(t) : ~t.blocks[s].onActive}

Mismatching(t, unread) ==
  {s \in OffChain(t) : HashAt(t, s) \notin unread /\ Mismatches(t, HashAt(t, s))}

OversizedBlocks(t) == {s \in OffChain(t) : Oversized(t, HashAt(t, s))}

DropOversized(t) == DropEach(t, OversizedBlocks(t))

(* Off the active chain, what the locked configuration refuses is deleted:   *)
(* first the other configurations that can be read, then the oversized       *)
(* blocks, each with its subtree.                                            *)
ApplyLock(t, unread) == DropOversized(DropEach(t, Mismatching(t, unread)))

(* The first configuration block of the candidate supplies the tentative     *)
(* configuration; the block of the previous one goes, unless it is on the    *)
(* candidate itself.                                                         *)
AdoptConfig(t, tip, s) ==
  LET adopted == [t EXCEPT !.content = Content[HashAt(t, s)], !.tentative = s]
  IN  IF t.tentative \in {NoRef, s} \union Ancestry(t, tip) THEN adopted
      ELSE DeleteSubtree(adopted, t.tentative)

-----------------------------------------------------------------------------
(* The loop.  A round is the tree, the two single-use tokens (adopt, retry)  *)
(* and whether the loop goes on.                                             *)

Stopped(r, t) == [r EXCEPT !.t = t, !.again = FALSE]

(* What a failed pass deletes: nothing for an unreadable block, the block    *)
(* when there is evidence on it, the tip when the vote engine refuses one.   *)
FailureTarget(t, tip, s, unread) ==
  CASE HashAt(t, s) \in unread       -> NoRef
    [] Condemned(t, HashAt(t, s))    -> s
    [] OTHER                         -> tip

(* Only evidence, and a configuration still in hand, is worth a retry. *)
FailedPass(r, evidence, after) ==
  [r EXCEPT !.t = after, !.retry = FALSE,
            !.again = r.retry /\ evidence /\ after.config # "None"]

(* Mutant: a lock is no obstacle. *)
MayReplace(r, path, s, unread) ==
  /\ r.adopt
  /\ s = FirstConfig(r.t, path[1])
  /\ HashAt(r.t, s) \notin unread /\ Mismatches(r.t, HashAt(r.t, s))

(* The candidate's own configuration is not the tentative one. *)
MayAdopt(r, path, s, unread) ==
  /\ r.adopt /\ r.t.config = "Tentative"
  /\ s = FirstConfig(r.t, path[1])
  /\ HashAt(r.t, s) \notin unread /\ Mismatches(r.t, HashAt(r.t, s))

(* A pass over the path stopped at slot s. *)
PassStopped(r, path, s, unread) ==
  IF MayAdopt(r, path, s, unread)
  THEN [r EXCEPT !.t = AdoptConfig(r.t, path[1], s), !.adopt = FALSE]
  ELSE FailedPass(r, HashAt(r.t, s) \notin unread /\ Condemned(r.t, HashAt(r.t, s)),
                  RecoverFromFailedPass(r.t, FailureTarget(r.t, path[1], s, unread)))

(* The first success locks: the size limit is applied to the candidate, the  *)
(* durable write comes before the promotion, the clean-ups after it.         *)
PassSucceeded(t, path, unread, lockFails) ==
  LET oversized == {i \in DOMAIN path : Oversized(t, HashAt(t, path[i]))}
  IN  CASE t.config = "Locked" -> BecomeReady(t, path)
        [] t.config # "Locked" /\ oversized # {} -> RecoverFromFailedPass(t, path[Max(oversized)])
        [] t.config # "Locked" /\ oversized = {} ->
             IF lockFails THEN t ELSE ApplyLock(BecomeReady(LockConfig(t), path), unread)

PassResult(r, path, i, unread, lockFails) ==
  IF i = 0 THEN Stopped(r, PassSucceeded(r.t, path, unread, lockFails))
  ELSE PassStopped(r, path, path[i], unread)

RunPass(r, path, unread, lockFails) ==
  PassResult(r, path, StopsPass(r.t, path, unread), unread, lockFails)

(* One candidate. *)
Attempt(r, unread, lockFails) ==
  IF ~r.again THEN r
  ELSE IF Candidate(r.t) = NoRef THEN Stopped(r, r.t)
  ELSE RunPass(r, Path(r.t, Candidate(r.t)), unread, lockFails)

Rounds(t) == [t |-> t, adopt |-> TRUE, retry |-> TRUE, again |-> TRUE]

(* Mutant: no second candidate. *)
AcquireOnce(t, unread, lockFails) == Attempt(Rounds(t), unread, lockFails).t

(* The acquisition loop, entered with a configuration in hand: at most one   *)
(* adoption and one retry, so at most three candidates.                      *)
AttemptEach(r, unread, lockFails) ==
  FoldLeft(LAMBDA q, n : Attempt(q, unread, lockFails), r, <<1, 2, 3>>)

DriveAcquisition(t, unread, lockFails) == AttemptEach(Rounds(t), unread, lockFails).t
=============================================================================
