-------------------------------- MODULE Node --------------------------------
(***************************************************************************)
(* One node as a state machine: block intake, the founding of a chain and a  *)
(* restart from storage, src/src/api.rs and src/src/intake.rs.  Each public   *)
(* call runs to completion on the caller's thread, so a call is one action.  *)
(*                                                                           *)
(* node is the RAM state:                                                    *)
(*   blocks     the block table: per slot [hash, parent, refs, status,       *)
(*              onActive]; a free slot has hash NoHash                       *)
(*   heads      the tip table: per entry [head, tail, missing, connected,    *)
(*              value]; a free entry has head NoRef                          *)
(*   active, tail, value   active_chain_head_idx, snake_chain_tail_idx,      *)
(*              active_branch_value                                          *)
(*   config, content, tentative   the configuration held ("None",            *)
(*              "Tentative" or "Locked"), which one, and                     *)
(*              tentative_config_block_idx                                   *)
(*   phase      the lifecycle phase between calls; Processing exists only    *)
(*              inside one; "Down" stands for a device that stopped there    *)
(*   refused    restart_refused: the restart found blocks in storage and not *)
(*              one it could use                                             *)
(* store is the durable block storage, which keeps the bytes of a deleted    *)
(* block until its slot is written again; durable is the configuration in    *)
(* the control plane.  switch is the head the last call wanted to switch to. *)
(***************************************************************************)
EXTENDS DominantChain

CONSTANTS
  Founding,     \* <<block 0, block 1>> that process_genesis builds, <<>> on another node
  Flaky,        \* blocks a storage read may fail on
  LockFaults,   \* whether the durable write of the configuration may fail
  Crashing,     \* whether a call may be cut off after its durable writes
  MaxRestarts   \* bound on restarts

\* process_genesis writes only blocks that fit and pass its own configuration,
\* and has room for both.
ASSUME NodeAssumption ==
  /\ Founding = <<>> \/
       /\ Founding \in Block \X Block /\ MaxBlocks > 1
       /\ BlockSeq[Founding[1]] = 0 /\ BlockSeq[Founding[2]] = 1
       /\ Kind[Founding[1]] # "ChainConfig" /\ Kind[Founding[2]] = "ChainConfig"
       /\ \A i \in 1 .. 2 : /\ Founding[i] \notin BadBlock \union BadVotes
                           /\ Size[Founding[i]] <= SizeLimit[Content[Founding[2]]]
  /\ Flaky \subseteq Block
  /\ LockFaults \subseteq BOOLEAN /\ LockFaults # {} /\ Crashing \in BOOLEAN
  /\ MaxRestarts \in Nat

VARIABLES node, store, durable, switch, restarts

vars == <<node, store, durable, switch, restarts>>

EmptyNode ==
  [blocks |-> [s \in Slot |-> FreeSlot], heads |-> [k \in Branch |-> EmptyHead],
   active |-> NoRef, tail |-> NoRef, value |-> 0,
   config |-> "None", content |-> NoContent, tentative |-> NoRef, phase |-> "Collecting",
   refused |-> FALSE]

Init ==
  /\ node = EmptyNode
  /\ store = [s \in Slot |-> NoHash]
  /\ durable = NoContent
  /\ switch = NoHash
  /\ restarts = 0

-----------------------------------------------------------------------------
(* Intake.  The guards of one admission, in the order of the code; a refused *)
(* block changes nothing and is no step.                                     *)

Known(t, b) == Find(t, BlockSeq[b], b) # NoRef

InWindow(t, b) ==
  t.phase = "Ready" /\ HoldsWindow(t) => BlockSeq[b] \in SeqAt(t, t.tail) .. SeqAt(t, t.active) + W - 1

(* A locked configuration admits no other, and no block over its limit. *)
LockAdmits(t, b) == t.config = "Locked" => ~Mismatches(t, b) /\ ~Oversized(t, b)

DuplicateGenesis(t, b) == BlockSeq[b] = 0 /\ t.active # NoRef

(* The gates of the dispatcher and of admission that need no judgement. *)
Admissible(t, b) ==
  ~Known(t, b) /\ InWindow(t, b) /\ LockAdmits(t, b) /\ ~DuplicateGenesis(t, b)

LoadsTentative(t, b) == Kind[b] = "ChainConfig" /\ t.config = "None"

ExtendsActive(t, p) == t.phase = "Ready" /\ p # NoRef /\ p = t.active

ExtendsJudged(t, p) ==
  t.phase = "Ready" /\ p # NoRef /\ p # t.active /\ t.blocks[p].status # "Stored"

(* What the Ready judgement of block b under parent p says: "Refused" for    *)
(* evidence, "Extend" or "Side" for a block judged good, "Late" for one the  *)
(* vote engine refuses after it was written, "Stored" for one not judged.    *)
Judgement(t, b, p, unread) ==
  CASE ExtendsActive(t, p) ->
         LET verdict == JudgeHeadExtension(t, b, unread)
         IN  CASE verdict = "Invalid" -> "Refused"
               [] verdict = "Local"   -> "Stored"
               [] OTHER -> IF b \in BadVotes THEN "Late" ELSE "Extend"
    [] ExtendsJudged(t, p) ->
         IF b \in unread THEN "Stored" ELSE IF b \in BadContext THEN "Refused" ELSE "Side"
    [] OTHER -> "Stored"

LoadTentative(t, b, x) ==
  IF LoadsTentative(t, b)
  THEN [t EXCEPT !.config = "Tentative", !.content = Content[b], !.tentative = x] ELSE t

(* A genesis block is the anchor from the moment it is written. *)
WriteBlock(t, b, x, p) ==
  IF BlockSeq[b] = 0
  THEN [LoadTentative(InsertBlock(t, x, b, p, TRUE), b, x) EXCEPT !.active = x, !.tail = NoRef]
  ELSE LoadTentative(InsertBlock(t, x, b, p, FALSE), b, x)

(* The value a judged side block starts from: its parent's, read before the  *)
(* tip table moves the entry.                                                *)
ParentValue(t, p) ==
  IF t.blocks[p].status = "Connected" /\ HeadOf(t, p) # NoRef
  THEN {t.heads[HeadOf(t, p)].value} ELSE {}

(* The tree t with block b of slot x, once the judgement on it is applied;   *)
(* old is the tree before the admission.                                     *)
ApplyJudgement(t, old, b, x, p, judgement, unread) ==
  CASE judgement = "Extend" -> PromoteExtension(t, x, Votes[b], TailValue(old))
    [] judgement = "Side"   ->
         ConnectJudgedSideBlock(t, x, p, Votes[b], ParentValue(old, p), unread)
    [] OTHER                -> t

Admit(t, b, x, p, judgement, unread) ==
  ApplyJudgement(OnBlockAdmitted(WriteBlock(t, b, x, p), x, p), t, b, x, p, judgement, unread)

(* What a call does after an admission: acquisition while Collecting, the    *)
(* continuation of the active head if the node was Ready, the side branches  *)
(* and the switch decision if it is Ready now.                               *)
Advance(t, wasReady, unread, lockFails) ==
  CASE wasReady -> DriveForwardExtension(t, unread)
    [] ~wasReady /\ t.config # "None" -> DriveAcquisition(t, unread, lockFails)
    [] OTHER -> t

Decide(r, x) == [t |-> r.t, switch |-> SwitchTarget(r.t, x, r.best)]

Connect(t, x, unread) ==
  IF t.phase = "Ready" THEN Decide(ConnectSideBranches(t, unread), x)
  ELSE [t |-> t, switch |-> NoHash]

(* The configuration the control plane holds once a call left the tree t. *)
Recorded(t) == IF t.config = "Locked" THEN t.content ELSE durable

(* A call ends, or is cut off once its durable writes are done. *)
Finish(settled) ==
  /\ durable' = Recorded(settled.t)
  /\ \/ node' = settled.t /\ switch' = settled.switch /\ UNCHANGED restarts
     \/ /\ Crashing /\ restarts < MaxRestarts
        /\ node' = [EmptyNode EXCEPT !.phase = "Down"] /\ switch' = NoHash
        /\ restarts' = restarts + 1

(* A block the vote engine refuses was written for nothing. *)
ReceiveBlock(b, unread, lockFails) ==
  LET x == NextFree(node) IN
  /\ node.phase \in {"Collecting", "Ready"} /\ ~node.refused
  /\ Admissible(node, b)
  /\ x # NoRef
  /\ \E judgement \in {Judgement(node, b, FindParent(node, b), unread)} :
       /\ judgement # "Refused"
       /\ IF judgement = "Late" THEN Finish([t |-> node, switch |-> NoHash])
          ELSE \E admitted \in {Admit(node, b, x, FindParent(node, b), judgement, unread)} :
               \E advanced \in {Advance(admitted, node.phase = "Ready", unread, lockFails)} :
               \E settled \in {Connect(advanced, x, unread)} : Finish(settled)
  /\ store' = [store EXCEPT ![x] = b]

-----------------------------------------------------------------------------
(* Founding.  process_genesis writes block 0, block 1 and the configuration  *)
(* in turn; done counts the writes that succeed.                             *)

FoundBlock(t, s) ==
  OnBlockAdmitted([InsertBlock(t, s, Founding[s], s - 1, TRUE)
                     EXCEPT !.blocks[s].status = "Active", !.active = s], s, s - 1)

FoundersNode == [EmptyNode EXCEPT !.config = "Tentative", !.content = Content[Founding[2]]]

GenesisNode(done) ==
  CASE done = 0 -> FoundersNode
    [] done \in {1, 2} -> FoundBlock(FoundersNode, 1)
    [] OTHER -> [EstablishWindow(FoundBlock(FoundBlock(FoundersNode, 1), 2))
                   EXCEPT !.config = "Locked", !.phase = "Ready"]

GenesisStore(old, done) ==
  [s \in Slot |-> IF s <= Min({done, 2}) THEN Founding[s] ELSE old[s]]

(* A refused restart does not keep a node from founding a chain; the node    *)
(* goes on refusing every block.                                             *)
ProcessGenesis(done) ==
  /\ Founding # <<>>
  /\ node.phase # "Down" /\ Retained(node) = {} /\ node.config # "Locked"
  /\ node' = [GenesisNode(done) EXCEPT !.refused = node.refused]
  /\ store' = GenesisStore(store, done)
  /\ durable' = Recorded(GenesisNode(done))
  /\ switch' = NoHash
  /\ UNCHANGED restarts

-----------------------------------------------------------------------------
(* Restart: the tree is rebuilt from the durable slots, each distinct block  *)
(* once and at most one genesis block, in slot order.                        *)

LoadSlot(t, s, b, unread) ==
  IF b \in unread \union {NoHash} \/ Known(t, b) \/ DuplicateGenesis(t, b) THEN t
  ELSE IF BlockSeq[b] # 0 THEN InsertBlock(t, s, b, NoRef, FALSE)
  ELSE [InsertBlock(t, s, b, NoRef, TRUE) EXCEPT !.active = s]

LoadSlots(t, bytes, unread) ==
  FoldLeft(LAMBDA u, s : LoadSlot(u, s, bytes[s], unread), t, InSlotOrder)

LinkSlot(t, s) == IF Occupied(t, s) THEN SetParent(t, s, FindParent(t, HashAt(t, s))) ELSE t

LinkSlots(t) == FoldLeft(LinkSlot, t, InSlotOrder)

DurableTree(bytes, unread) ==
  SeedMissingParents(RebuildFromBlocks(LinkSlots(LoadSlots(EmptyNode, bytes, unread))))

(* The configuration after a restart: the durable one, or else the lowest    *)
(* configuration block retained, tentatively.                                *)
RestoreConfig(t, held) ==
  LET configs == {s \in Retained(t) : Kind[HashAt(t, s)] = "ChainConfig"}
  IN  CASE held # NoContent -> [t EXCEPT !.config = "Locked", !.content = held]
        [] held = NoContent /\ configs # {} ->
             [t EXCEPT !.config = "Tentative", !.content = Content[HashAt(t, Min(configs))],
                       !.tentative = Min(configs)]
        [] OTHER -> t

(* Mutant: only a lock taken now is applied. *)
ApplyNone(t, unread) == t

(* A restored lock is applied to the tree: its blocks bypassed intake. *)
Reapply(t, unread) == IF t.config = "Locked" THEN ApplyLock(t, unread) ELSE t

(* Blocks in storage, and not one of them usable. *)
Unusable(restored) == Retained(restored) = {} /\ \E s \in Slot : store[s] # NoHash

(* Only a restart that was not counted as a crash counts here. *)
InitializeFromStorage(unread, lockFails) ==
  /\ node.phase = "Down" \/ restarts < MaxRestarts
  /\ \E restored \in {RestoreConfig(DurableTree(store, unread), durable)} :
       IF Unusable(restored)
       THEN /\ node' = [restored EXCEPT !.refused = TRUE]
            /\ switch' = NoHash /\ UNCHANGED durable
       ELSE \E advanced \in {Advance(restored, FALSE, unread, lockFails)} :
            \E settled \in {Connect(Reapply(advanced, unread), NoRef, unread)} :
              /\ node' = settled.t /\ switch' = settled.switch
              /\ durable' = Recorded(settled.t)
  /\ restarts' = IF node.phase = "Down" THEN restarts ELSE restarts + 1
  /\ UNCHANGED store

-----------------------------------------------------------------------------
(* The durable write is attempted once: until it has succeeded. *)
LockOutcomes == IF durable = NoContent THEN LockFaults ELSE {FALSE}

Receive ==
  \E b \in Block, unread \in SUBSET Flaky, lockFails \in LockOutcomes :
    ReceiveBlock(b, unread, lockFails)
Found   == \E done \in 0 .. 3 : ProcessGenesis(done)
Restart ==
  \E unread \in SUBSET Flaky, lockFails \in LockOutcomes : InitializeFromStorage(unread, lockFails)

Next == Receive \/ Found \/ Restart

Spec == Init /\ [][Next]_vars
=============================================================================
