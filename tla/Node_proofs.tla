---------------------------- MODULE Node_proofs ----------------------------
(***************************************************************************)
(* Proofs about module Node: the inductive invariant NodeInv over every      *)
(* call, founding, restart and stop of the device, and from it the           *)
(* properties of NodeProperties that hold for every tree, storage fault and  *)
(* order of blocks.                                                          *)
(***************************************************************************)
EXTENDS NodeProperties, Chain_proofs

(* A genesis block is an ordinary block that every configuration has room    *)
(* for. The clean-ups of a restored lock skip the chain, and a collecting    *)
(* node's chain is its genesis block, which a restart has not measured.      *)
GenesisFits ==
  \A b \in Block : BlockSeq[b] = 0 =>
    /\ Kind[b] # "ChainConfig"
    /\ \A c \in Configuration : Size[b] <= SizeLimit[c]

(* The phases of a node that takes calls.                                    *)
Running == {"Collecting", "Ready"}

(* What holds of the RAM of a node, whatever its phase.                      *)
Sound(t) ==
  /\ t \in NodeState /\ Distinct(t) /\ Clean(t) /\ Evident(t) /\ ConfigHeld(t)
  /\ t.phase = "Ready" => t.config = "Locked" /\ (t.tail # NoRef => Judged(t))
  /\ t.phase = "Collecting" => Rooted(t)

(* With the lock, every retained block fits it.                              *)
Fits(t) == GenesisFits /\ t.config = "Locked" /\ t.phase \in Running => AllFit(t, Flaky)

(* The invariant of the RAM.                                                 *)
Kept(t) == Sound(t) /\ Fits(t)

(* A lock stays.                                                             *)
SameLock(t, u) == t.config = "Locked" => u.config = "Locked" /\ u.content = t.content

(* u is what a call may leave of t.                                          *)
Settles(t, u) == Kept(u) /\ u.phase \in Running /\ SameLock(t, u)

-----------------------------------------------------------------------------
(* Removing blocks keeps the others fitting.                                 *)
LEMMA AllFitOn ==
  ASSUME NEW t, NEW u, NEW spared, AllFit(t, spared), Shrinks(t, u), u.content = t.content
  PROVE  AllFit(u, spared)
BY DEF AllFit, Shrinks, Oversized, Mismatches

(* A reduction removes blocks at most.                                       *)
LEMMA ShrinksBy ==
  ASSUME NEW t, NEW u, Reduces(t, u)
  PROVE  Shrinks(t, u)
BY DEF Shrinks, Reduces

(* A reduction keeps the invariant.                                          *)
LEMMA KeptOn ==
  ASSUME NEW t, Kept(t), NEW u, Reduces(t, u)
  PROVE  Kept(u) /\ u.phase = t.phase /\ SameLock(t, u)
<1>1. Shrinks(t, u)
  BY ShrinksBy
<1>2. /\ u \in NodeState /\ u.phase = t.phase
      /\ t.config = "Locked" => u.config = "Locked" /\ u.content = t.content
      /\ u.config = "Locked" => t.config = "Locked"
      /\ u.tail # NoRef => t.tail # NoRef
  BY DEF Reduces
<1>3. Distinct(u) /\ Clean(u) /\ Evident(u) /\ ConfigHeld(u)
  BY <1>1, DistinctOn, CleanOn, EvidentOn, ConfigHeldOn DEF Kept, Sound
<1>4. u.phase = "Ready" => u.config = "Locked" /\ (u.tail # NoRef => Judged(u))
  BY <1>2, JudgedOn DEF Kept, Sound
<1>5. u.phase = "Collecting" => Rooted(u)
  BY <1>2, RootedOn DEF Kept, Sound
<1>6. Fits(u)
  BY <1>1, <1>2, AllFitOn DEF Kept, Fits
<1>7. QED
  BY <1>2, <1>3, <1>4, <1>5, <1>6 DEF Kept, Sound, SameLock

(* A Ready node serves itself.                                               *)
LEMMA ServesSelf ==
  ASSUME NEW t, Kept(t), t.phase = "Ready"
  PROVE  t \in Serves(t) /\ t.config = "Locked"
BY DEF Kept, Sound, Serves, Shrinks

(* What serves a Ready node settles.                                         *)
LEMMA ServesSettles ==
  ASSUME NEW t, Kept(t), t.phase = "Ready", NEW u \in Serves(t)
  PROVE  Settles(t, u) /\ u.phase = "Ready"
<1>1. /\ u \in NodeState /\ Shrinks(t, u) /\ Clean(u) /\ Evident(u)
      /\ u.tail # NoRef => Judged(u)
      /\ u.phase = "Ready" /\ u.config = t.config /\ u.content = t.content
  BY DEF Serves
<1>2. Distinct(t) /\ ConfigHeld(t) /\ t.config = "Locked"
  BY DEF Kept, Sound
<1>3. Distinct(u) /\ ConfigHeld(u)
  BY <1>1, <1>2, DistinctOn DEF ConfigHeld
<1>4. Sound(u)
  BY <1>1, <1>2, <1>3 DEF Sound
<1>5. Fits(u)
  BY <1>1, AllFitOn DEF Kept, Fits, Running
<1>6. QED
  BY <1>1, <1>4, <1>5 DEF Settles, Kept, SameLock, Running

(* An acquisition leaves a sound tree and the lock.                          *)
LEMMA AcquisitionSound ==
  ASSUME NEW t, Sound(t), NEW u \in Gathers(t) \union Acquires(t, Flaky)
  PROVE  Sound(u) /\ u.phase \in Running /\ SameLock(t, u)
<1>1. Distinct(t)
  BY DEF Sound
<1>2. Shrinks(t, u) /\ u \in NodeState /\ Clean(u) /\ Evident(u) /\ ConfigHeld(u)
  BY DEF Gathers, Acquires
<1>3. Distinct(u)
  BY <1>1, <1>2, DistinctOn
<1>4. /\ u.phase \in Running /\ SameLock(t, u)
      /\ u.phase = "Ready" => u.config = "Locked" /\ Judged(u)
      /\ u.phase = "Collecting" => Rooted(u)
  BY DEF Gathers, Acquires, Running, SameLock
<1>5. QED
  BY <1>2, <1>3, <1>4 DEF Sound

(* And one that fits, if it did.                                             *)
LEMMA AcquisitionSettles ==
  ASSUME NEW t, Kept(t), t.phase \in Running, NEW u \in Gathers(t) \union Acquires(t, Flaky)
  PROVE  Settles(t, u)
<1>1. Sound(u) /\ u.phase \in Running /\ SameLock(t, u)
  BY AcquisitionSound DEF Kept
<1>2. ASSUME GenesisFits, u.config = "Locked" PROVE AllFit(u, Flaky)
  <2>1. CASE t.config = "Locked"
    <3>1. AllFit(t, Flaky) /\ Shrinks(t, u) /\ u.content = t.content
      BY <1>1, <1>2, <2>1 DEF Kept, Fits, Gathers, Acquires, SameLock
    <3>2. QED
      BY <3>1, AllFitOn
  <2>2. CASE t.config # "Locked"
    BY <1>2, <2>2 DEF Gathers, Acquires
  <2>3. QED
    BY <2>1, <2>2
<1>3. QED
  BY <1>1, <1>2 DEF Settles, Kept, Fits

(* Settling composes.                                                        *)
LEMMA SettlesOn ==
  ASSUME NEW t, NEW u, NEW v, SameLock(t, u), Settles(u, v)
  PROVE  Settles(t, v)
BY DEF Settles, SameLock

-----------------------------------------------------------------------------
(* After an admission: the continuation of a Ready node, the acquisition of  *)
(* a collecting one.                                                         *)
LEMMA AdvanceSettles ==
  ASSUME NEW t, Kept(t), t.phase \in Running, NEW unread, unread \subseteq Flaky, NEW lockFails
  PROVE  Settles(t, Advance(t, t.phase = "Ready", unread, lockFails))
<1>1. CASE t.phase = "Ready"
  <2>1. DriveForwardExtension(t, unread) \in Serves(t)
    BY <1>1, ServesSelf, DriveForwardExtensionServes DEF Kept, Sound
  <2>2. Advance(t, t.phase = "Ready", unread, lockFails) = DriveForwardExtension(t, unread)
    BY <1>1 DEF Advance
  <2>3. QED
    BY <1>1, <2>1, <2>2, ServesSettles
<1>2. CASE t.phase = "Collecting"
  <2>1. Advance(t, t.phase = "Ready", unread, lockFails)
          \in {t, DriveAcquisition(t, unread, lockFails)}
    BY <1>2 DEF Advance
  <2>2. DriveAcquisition(t, unread, lockFails) \in Gathers(t) \union Acquires(t, Flaky)
    BY <1>2, DriveAcquisitionHolds DEF Kept, Sound
  <2>3. Settles(t, t)
    BY DEF Settles, SameLock
  <2>4. QED
    BY <2>1, <2>2, <2>3, AcquisitionSettles
<1>3. QED
  BY <1>1, <1>2 DEF Running

(* The side branches and the switch decision.                                *)
LEMMA ConnectSettles ==
  ASSUME NEW t, Kept(t), t.phase \in Running, NEW x, NEW unread
  PROVE  /\ Settles(t, Connect(t, x, unread).t)
         /\ Connect(t, x, unread).switch \in Block \union {NoHash}
<1>1. CASE t.phase = "Ready"
  <2> DEFINE r == ConnectSideBranches(t, unread)
  <2>1. r.t \in Serves(t)
    BY <1>1, ServesSelf, ConnectSideBranchesServes
  <2>2. Connect(t, x, unread) = [t |-> r.t, switch |-> SwitchTarget(r.t, x, r.best)]
    BY <1>1 DEF Connect, Decide
  <2> HIDE DEF r
  <2>3. SwitchTarget(r.t, x, r.best) \in Block \union {NoHash}
    BY <2>1, SwitchTargetIn DEF Serves
  <2>4. QED
    BY <1>1, <2>1, <2>2, <2>3, ServesSettles
<1>2. CASE t.phase # "Ready"
  <2>1. Connect(t, x, unread) = [t |-> t, switch |-> NoHash]
    BY <1>2 DEF Connect
  <2>2. Settles(t, t)
    BY DEF Settles, SameLock
  <2>3. QED
    BY <2>1, <2>2
<1>3. QED
  BY <1>1, <1>2

-----------------------------------------------------------------------------
(* A block intake does not know is in no slot.                               *)
LEMMA UnknownBlock ==
  ASSUME NEW t \in NodeState, NEW b \in Block, ~Known(t, b)
  PROVE  \A s \in Slot : t.blocks[s].hash # b
<1> DEFINE S == {s \in Retained(t) : t.blocks[s].hash = b /\ SeqAt(t, s) = BlockSeq[b]}
<1>1. S \subseteq Slot /\ LowestOf(S) = NoRef
  BY DEF Known, Find, Retained
<1>2. \A s \in Slot : t.blocks[s].hash = b => s \in S
  BY HeaderNumbers DEF Retained, SeqAt
<1> HIDE DEF S
<1>3. S = {}
  BY <1>1, LowestIn, Numbers
<1>4. QED
  BY <1>2, <1>3

(* The parent found is a slot or none.                                       *)
LEMMA FindParentIn ==
  ASSUME NEW t, NEW b
  PROVE  FindParent(t, b) \in Ref /\ (FindParent(t, b) # NoRef => FindParent(t, b) \in Slot)
<1> DEFINE S == {s \in Retained(t) : t.blocks[s].hash = PrevHash[b]
                                     /\ SeqAt(t, s) = BlockSeq[b] - 1}
<1>1. S \subseteq Slot /\ FindParent(t, b) \in {NoRef, LowestOf(S)}
  BY DEF FindParent, Find, Retained
<1> HIDE DEF S
<1>2. QED
  BY <1>1, LowestIn, Numbers

(* u is t with block b in slot x, Stored.                                    *)
Inserted(t, u, x, b, active) ==
  /\ u \in NodeState
  /\ u.blocks[x].hash = b /\ u.blocks[x].status = "Stored" /\ u.blocks[x].onActive = active
  /\ \A s \in Slot : s # x => u.blocks[s] = t.blocks[s]
  /\ u.active = t.active /\ u.tail = t.tail /\ u.phase = t.phase
  /\ u.config = t.config /\ u.content = t.content /\ u.tentative = t.tentative

(* insert_at writes one slot.                                                *)
LEMMA InsertBlockInserts ==
  ASSUME NEW t \in NodeState, NEW x \in Slot, NEW b \in Block, NEW p \in Ref,
         NEW active \in BOOLEAN
  PROVE  Inserted(t, InsertBlock(t, x, b, p, active), x, b, active)
<1> DEFINE e == [FreeSlot EXCEPT !.hash = b, !.parent = p, !.onActive = active]
           B == [t.blocks EXCEPT ![x] = e]
           u == [t EXCEPT !.blocks = B]
<1>1. InsertBlock(t, x, b, p, active) = u
  BY DEF InsertBlock
<1>2. e \in BlockEntry /\ e.hash = b /\ e.status = "Stored" /\ e.onActive = active
  BY DEF FreeSlot, BlockEntry, Statuses
<1> HIDE DEF e
<1>3. B \in [Slot -> BlockEntry] /\ B[x] = e /\ \A s \in Slot : s # x => B[s] = t.blocks[s]
  BY <1>2 DEF NodeState
<1> HIDE DEF B
<1>4. /\ u \in NodeState /\ u.blocks = B
      /\ u.active = t.active /\ u.tail = t.tail /\ u.phase = t.phase
      /\ u.config = t.config /\ u.content = t.content /\ u.tentative = t.tentative
  BY <1>3 DEF NodeState
<1> HIDE DEF u
<1>5. QED
  BY <1>1, <1>2, <1>3, <1>4 DEF Inserted

(* w is t with block b in slot x, and the configuration loaded perhaps.      *)
Written(t, w, b, x) ==
  /\ w \in NodeState
  /\ w.blocks[x].hash = b /\ w.blocks[x].status = "Stored"
  /\ w.blocks[x].onActive <=> BlockSeq[b] = 0
  /\ \A s \in Slot : s # x => w.blocks[s] = t.blocks[s]
  /\ w.phase = t.phase
  /\ \/ w.config = t.config /\ w.content = t.content
     \/ t.config = "None" /\ w.config = "Tentative" /\ w.content = Content[b]
        /\ Content[b] # NoContent
  /\ w.tail # NoRef => t.tail # NoRef /\ BlockSeq[b] # 0

(* A configuration block is loaded only when none is held.                   *)
LEMMA LoadTentativeLoads ==
  ASSUME NEW t \in NodeState, NEW b \in Block, NEW x \in Slot
  PROVE  LET u == LoadTentative(t, b, x)
         IN  /\ u \in NodeState /\ u.blocks = t.blocks /\ u.phase = t.phase /\ u.tail = t.tail
             /\ \/ u.config = t.config /\ u.content = t.content
                \/ t.config = "None" /\ u.config = "Tentative" /\ u.content = Content[b]
                   /\ Content[b] # NoContent
<1>1. CASE LoadsTentative(t, b)
  <2> DEFINE c == Content[b]
             u == [t EXCEPT !.config = "Tentative", !.content = c, !.tentative = x]
  <2>1. c \in Configuration /\ c # NoContent /\ t.config = "None"
    BY <1>1, ContentOfConfig DEF LoadsTentative
  <2>2. LoadTentative(t, b, x) = u
    BY <1>1 DEF LoadTentative
  <2> HIDE DEF c
  <2>3. /\ u \in NodeState /\ u.blocks = t.blocks /\ u.phase = t.phase /\ u.tail = t.tail
        /\ u.config = "Tentative" /\ u.content = c
    BY <2>1, Numbers DEF NodeState
  <2> HIDE DEF u
  <2>4. QED
    BY <2>1, <2>2, <2>3 DEF c
<1>2. CASE ~LoadsTentative(t, b)
  BY <1>2 DEF LoadTentative
<1>3. QED
  BY <1>1, <1>2

(* The write of an admitted block, a genesis block or another.               *)
LEMMA WriteBlockWrites ==
  ASSUME NEW t \in NodeState, NEW b \in Block, NEW x \in Slot, NEW p \in Ref
  PROVE  Written(t, WriteBlock(t, b, x, p), b, x)
<1>1. CASE BlockSeq[b] = 0
  <2> DEFINE v == InsertBlock(t, x, b, p, TRUE)
             u == LoadTentative(v, b, x)
             w == [u EXCEPT !.active = x, !.tail = NoRef]
  <2>1. WriteBlock(t, b, x, p) = w
    BY <1>1 DEF WriteBlock
  <2>2. Inserted(t, v, x, b, TRUE)
    BY InsertBlockInserts
  <2>3. v \in NodeState
    BY <2>2 DEF Inserted
  <2> HIDE DEF v
  <2>4. /\ u \in NodeState /\ u.blocks = v.blocks /\ u.phase = v.phase /\ u.tail = v.tail
        /\ \/ u.config = v.config /\ u.content = v.content
           \/ v.config = "None" /\ u.config = "Tentative" /\ u.content = Content[b]
              /\ Content[b] # NoContent
    BY <2>3, LoadTentativeLoads
  <2> HIDE DEF u
  <2>5. /\ w \in NodeState /\ w.blocks = u.blocks /\ w.phase = u.phase /\ w.tail = NoRef
        /\ w.config = u.config /\ w.content = u.content
    BY <2>4, Numbers DEF NodeState
  <2> HIDE DEF w
  <2>6. QED
    BY <1>1, <2>1, <2>2, <2>4, <2>5 DEF Written, Inserted
<1>2. CASE BlockSeq[b] # 0
  <2> DEFINE v == InsertBlock(t, x, b, p, FALSE)
             u == LoadTentative(v, b, x)
  <2>1. WriteBlock(t, b, x, p) = u
    BY <1>2 DEF WriteBlock
  <2>2. Inserted(t, v, x, b, FALSE)
    BY InsertBlockInserts
  <2>3. v \in NodeState
    BY <2>2 DEF Inserted
  <2> HIDE DEF v
  <2>4. /\ u \in NodeState /\ u.blocks = v.blocks /\ u.phase = v.phase /\ u.tail = v.tail
        /\ \/ u.config = v.config /\ u.content = v.content
           \/ v.config = "None" /\ u.config = "Tentative" /\ u.content = Content[b]
              /\ Content[b] # NoContent
    BY <2>3, LoadTentativeLoads
  <2> HIDE DEF u
  <2>5. QED
    BY <1>2, <2>1, <2>2, <2>4 DEF Written, Inserted
<1>3. QED
  BY <1>1, <1>2

(* The invariant holds of the tree with the admitted block: intake let       *)
(* nothing in that the lock refuses, and the block is not there yet.         *)
LEMMA WrittenKept ==
  ASSUME NEW t, Kept(t), t.phase \in Running, NEW b \in Block, Admissible(t, b), NEW x \in Slot,
         NEW w, Written(t, w, b, x)
  PROVE  Kept(w) /\ w.phase = t.phase /\ SameLock(t, w)
<1>1. /\ t \in NodeState /\ Distinct(t) /\ Clean(t) /\ Evident(t) /\ ConfigHeld(t)
      /\ t.phase = "Ready" => t.config = "Locked" /\ (t.tail # NoRef => Judged(t))
      /\ t.phase = "Collecting" => Rooted(t)
  BY DEF Kept, Sound
<1>2. /\ w \in NodeState /\ w.phase = t.phase
      /\ \/ w.config = t.config /\ w.content = t.content
         \/ t.config = "None" /\ w.config = "Tentative" /\ w.content # NoContent
      /\ w.tail # NoRef => t.tail # NoRef /\ BlockSeq[b] # 0
  BY DEF Written
<1>3. /\ w.blocks[x].hash = b /\ w.blocks[x].status = "Stored" /\ b # NoHash
      /\ w.blocks[x].onActive <=> BlockSeq[b] = 0
      /\ \A s \in Slot : s # x => w.blocks[s] = t.blocks[s]
  BY HeaderNumbers DEF Written
<1>4. \A s \in Slot : t.blocks[s].hash # b
  BY <1>1, UnknownBlock DEF Admissible
<1>5. Distinct(w)
  <2> SUFFICES ASSUME NEW r \in Slot, NEW s \in Slot, w.blocks[r].hash # NoHash,
                      w.blocks[r].hash = w.blocks[s].hash
               PROVE  r = s
    BY DEF Distinct
  <2>1. CASE r # x /\ s # x
    BY <1>1, <1>3, <2>1 DEF Distinct
  <2>2. CASE r = x \/ s = x
    BY <1>3, <1>4, <2>2
  <2>3. QED
    BY <2>1, <2>2
<1>6. Clean(w)
  BY <1>1, <1>3 DEF Clean
<1>7. Evident(w)
  BY <1>1, <1>3 DEF Evident
<1>8. ConfigHeld(w)
  BY <1>1, <1>2 DEF ConfigHeld
<1>9. w.phase = "Ready" => w.config = "Locked" /\ (w.tail # NoRef => Judged(w))
  BY <1>1, <1>2, <1>3 DEF Judged
<1>10. w.phase = "Collecting" => Rooted(w)
  BY <1>1, <1>2, <1>3 DEF Rooted
<1>11. SameLock(t, w)
  BY <1>2 DEF SameLock
<1>12. Fits(w)
  <2> SUFFICES ASSUME GenesisFits, w.config = "Locked" PROVE AllFit(w, Flaky)
    BY DEF Fits
  <2>1. t.config = "Locked" /\ w.content = t.content
    BY <1>2
  <2>2. AllFit(t, Flaky)
    BY <2>1 DEF Kept, Fits
  <2>3. ~Mismatches(t, b) /\ ~Oversized(t, b)
    BY <2>1 DEF Admissible, LockAdmits
  <2>4. QED
    BY <1>3, <2>1, <2>2, <2>3 DEF AllFit, Mismatches, Oversized
<1>13. QED
  BY <1>2, <1>5, <1>6, <1>7, <1>8, <1>9, <1>10, <1>11, <1>12 DEF Kept, Sound

-----------------------------------------------------------------------------
(* What each verdict of the Ready judgement says of the block.               *)
LEMMA JudgementFacts ==
  ASSUME NEW t, NEW b, NEW p, NEW unread
  PROVE  LET j == Judgement(t, b, p, unread)
         IN  /\ j = "Extend" => /\ t.phase = "Ready" /\ b \notin BadVotes
                                /\ JudgeHeadExtension(t, b, unread) = "Valid"
             /\ j = "Side" => t.phase = "Ready" /\ p # NoRef /\ b \notin BadContext
<1>1. JudgeHeadExtension(t, b, unread) \in {"Valid", "Invalid", "Local"}
  BY DEF JudgeHeadExtension
<1>2. CASE ExtendsActive(t, p)
  <2>1. Judgement(t, b, p, unread) =
          CASE JudgeHeadExtension(t, b, unread) = "Invalid" -> "Refused"
            [] JudgeHeadExtension(t, b, unread) = "Local"   -> "Stored"
            [] OTHER -> IF b \in BadVotes THEN "Late" ELSE "Extend"
    BY <1>2 DEF Judgement, ExtendsActive, ExtendsJudged
  <2>2. QED
    BY <1>1, <1>2, <2>1 DEF ExtendsActive
<1>3. CASE ExtendsJudged(t, p)
  <2>1. Judgement(t, b, p, unread) =
          IF b \in unread THEN "Stored" ELSE IF b \in BadContext THEN "Refused" ELSE "Side"
    BY <1>3 DEF Judgement, ExtendsActive, ExtendsJudged
  <2>2. QED
    BY <1>3, <2>1 DEF ExtendsJudged
<1>4. CASE ~ExtendsActive(t, p) /\ ~ExtendsJudged(t, p)
  <2>1. Judgement(t, b, p, unread) = "Stored"
    BY <1>4 DEF Judgement
  <2>2. QED
    BY <2>1
<1>5. QED
  BY <1>2, <1>3, <1>4

(* The value of the parent is a number.                                      *)
LEMMA ParentValueNat ==
  ASSUME NEW t \in NodeState, NEW p
  PROVE  ParentValue(t, p) \subseteq Nat
<1>1. CASE HeadOf(t, p) = NoRef
  BY <1>1 DEF ParentValue
<1>2. CASE HeadOf(t, p) # NoRef
  <2>1. t.heads[HeadOf(t, p)].value \in Nat
    BY <1>2, HeadOfIn DEF NodeState, ChainHeadEntry
  <2>2. QED
    BY <2>1 DEF ParentValue
<1>3. QED
  BY <1>1, <1>2

(* One admission, with the judgement applied.                                *)
LEMMA AdmitSettles ==
  ASSUME NEW t, Kept(t), t.phase \in Running, NEW b \in Block, Admissible(t, b), NEW x \in Slot,
         NEW unread
  PROVE  LET p == FindParent(t, b)
             u == Admit(t, b, x, p, Judgement(t, b, p, unread), unread)
         IN  Settles(t, u) /\ u.phase = t.phase
<1> DEFINE p == FindParent(t, b)
           j == Judgement(t, b, p, unread)
           w == WriteBlock(t, b, x, p)
           m == OnBlockAdmitted(w, x, p)
           u == ApplyJudgement(m, t, b, x, p, j, unread)
<1>1. Admit(t, b, x, p, j, unread) = u
  BY DEF Admit
<1>2. t \in NodeState
  BY DEF Kept, Sound
<1>3. p \in Ref /\ (p # NoRef => p \in Slot)
  BY FindParentIn
<1>4. /\ j = "Extend" => /\ t.phase = "Ready" /\ b \notin BadVotes
                         /\ JudgeHeadExtension(t, b, unread) = "Valid"
      /\ j = "Side" => t.phase = "Ready" /\ p # NoRef /\ b \notin BadContext
  BY JudgementFacts
<1> HIDE DEF p, j
<1>5. Written(t, w, b, x)
  BY <1>2, <1>3, WriteBlockWrites
<1> HIDE DEF w
<1>6. Kept(w) /\ w.phase = t.phase /\ SameLock(t, w)
  BY <1>5, WrittenKept
<1>7. Reduces(w, m)
  <2>1. w \in NodeState /\ Occupied(w, x)
    BY <1>5, HeaderNumbers DEF Written, Occupied
  <2>2. QED
    BY <2>1, OnBlockAdmittedReduces
<1> HIDE DEF m
<1>8. Kept(m) /\ m.phase = w.phase /\ SameLock(w, m)
  BY <1>6, <1>7, KeptOn
<1>9. Settles(t, m) /\ m.phase = t.phase /\ SameLock(t, m)
  BY <1>6, <1>8 DEF Settles, SameLock
<1>10. Occupied(m, x) => HashAt(m, x) = b
  BY <1>5, <1>7 DEF Written, Reduces, Occupied, HashAt
<1>11. Votes[b] \in Nat
  BY ChainAssumption
<1>12. CASE j = "Extend"
  <2>1. b \notin BadBlock /\ TailValue(t) \subseteq Nat
    BY <1>2, <1>4, <1>12, ValidJudgement DEF Condemned
  <2>2. m \in Serves(m) /\ m.config = "Locked" /\ m.phase = "Ready"
    BY <1>4, <1>8, <1>9, <1>12, ServesSelf
  <2>3. Occupied(m, x) => HashAt(m, x) \notin BadBlock \union BadVotes
    BY <1>4, <1>10, <1>12, <2>1
  <2>4. PromoteExtension(m, x, Votes[b], TailValue(t)) \in Serves(m)
    BY <1>11, <2>1, <2>2, <2>3, PromoteExtensionServes
  <2>5. u = PromoteExtension(m, x, Votes[b], TailValue(t))
    BY <1>12 DEF ApplyJudgement
  <2> HIDE DEF u
  <2>6. Settles(m, u) /\ u.phase = "Ready"
    BY <1>8, <2>2, <2>4, <2>5, ServesSettles
  <2>7. QED
    BY <1>1, <1>4, <1>9, <1>12, <2>6, SettlesOn DEF p, j
<1>13. CASE j = "Side"
  <2>1. m \in Serves(m) /\ m.config = "Locked" /\ m.phase = "Ready"
    BY <1>4, <1>8, <1>9, <1>13, ServesSelf
  <2>2. p \in Slot /\ (Occupied(m, x) => HashAt(m, x) \notin BadContext)
    BY <1>3, <1>4, <1>10, <1>13
  <2>3. ParentValue(t, p) \subseteq Nat
    BY <1>2, ParentValueNat
  <2>4. ConnectJudgedSideBlock(m, x, p, Votes[b], ParentValue(t, p), unread) \in Serves(m)
    BY <1>11, <2>1, <2>2, <2>3, ConnectJudgedServes
  <2>5. u = ConnectJudgedSideBlock(m, x, p, Votes[b], ParentValue(t, p), unread)
    BY <1>13 DEF ApplyJudgement
  <2> HIDE DEF u
  <2>6. Settles(m, u) /\ u.phase = "Ready"
    BY <1>8, <2>1, <2>4, <2>5, ServesSettles
  <2>7. QED
    BY <1>1, <1>4, <1>9, <1>13, <2>6, SettlesOn DEF p, j
<1>14. CASE j # "Extend" /\ j # "Side"
  <2>1. u = m
    BY <1>14 DEF ApplyJudgement
  <2>2. QED
    BY <1>1, <1>9, <2>1 DEF p, j
<1>15. QED
  BY <1>12, <1>13, <1>14

-----------------------------------------------------------------------------
(* The trees a restart builds before a configuration is restored.            *)
Loaded ==
  {u \in NodeState :
     /\ Distinct(u) /\ Clean(u) /\ Rooted(u)
     /\ \A s \in Slot : u.blocks[s].hash # NoHash => u.blocks[s].status = "Stored"
     /\ u.phase = "Collecting" /\ u.config = "None" /\ u.content = NoContent
     /\ u.tentative = NoRef}

(* It starts from the empty tree.                                            *)
LEMMA EmptyNodeLoaded == EmptyNode \in Loaded
<1>1. EmptyNode \in NodeState
  BY FreeSlotEntry, EmptyHeadEntry, Numbers DEF EmptyNode, NodeState, Phases
<1>2. \A s \in Slot : EmptyNode.blocks[s] = FreeSlot
  BY DEF EmptyNode
<1>3. /\ EmptyNode.phase = "Collecting" /\ EmptyNode.config = "None"
      /\ EmptyNode.content = NoContent /\ EmptyNode.tentative = NoRef
  BY DEF EmptyNode
<1>4. Distinct(EmptyNode) /\ Clean(EmptyNode) /\ Rooted(EmptyNode)
  BY <1>2, FreeSlotEntry DEF Distinct, Clean, Rooted
<1>5. QED
  BY <1>1, <1>2, <1>3, <1>4, FreeSlotEntry DEF Loaded

(* A block read back for the first time is inserted.                         *)
LEMMA InsertedLoaded ==
  ASSUME NEW t \in Loaded, NEW x \in Slot, NEW b \in Block, ~Known(t, b),
         NEW active \in BOOLEAN, active => BlockSeq[b] = 0
  PROVE  LET u == InsertBlock(t, x, b, NoRef, active)
         IN  u \in Loaded /\ [u EXCEPT !.active = x] \in Loaded
<1> DEFINE u == InsertBlock(t, x, b, NoRef, active)
           v == [u EXCEPT !.active = x]
<1>1. t \in NodeState
  BY DEF Loaded
<1>2. Inserted(t, u, x, b, active) /\ \A s \in Slot : t.blocks[s].hash # b
  BY <1>1, InsertBlockInserts, UnknownBlock, Numbers
<1> HIDE DEF u
<1>3. /\ u.blocks[x].hash = b /\ u.blocks[x].status = "Stored" /\ u.blocks[x].onActive = active
      /\ \A s \in Slot : s # x => u.blocks[s] = t.blocks[s]
      /\ b # NoHash
  BY <1>2, HeaderNumbers DEF Inserted
<1>4. Distinct(u)
  <2> SUFFICES ASSUME NEW r \in Slot, NEW s \in Slot, u.blocks[r].hash # NoHash,
                      u.blocks[r].hash = u.blocks[s].hash
               PROVE  r = s
    BY DEF Distinct
  <2>1. CASE r # x /\ s # x
    BY <1>3, <2>1 DEF Distinct, Loaded
  <2>2. CASE r = x \/ s = x
    BY <1>2, <1>3, <2>2
  <2>3. QED
    BY <2>1, <2>2
<1>5. Clean(u) /\ Rooted(u)
  BY <1>3 DEF Clean, Rooted, Loaded
<1>6. \A s \in Slot : u.blocks[s].hash # NoHash => u.blocks[s].status = "Stored"
  BY <1>3 DEF Loaded
<1>7. /\ u \in NodeState /\ u.phase = "Collecting" /\ u.config = "None" /\ u.content = NoContent
      /\ u.tentative = NoRef
  BY <1>2 DEF Inserted, Loaded
<1>8. u \in Loaded
  BY <1>4, <1>5, <1>6, <1>7 DEF Loaded
<1>9. /\ v \in NodeState /\ v.blocks = u.blocks /\ v.phase = u.phase /\ v.config = u.config
      /\ v.content = u.content /\ v.tentative = u.tentative
  BY <1>7, Numbers DEF NodeState
<1> HIDE DEF v
<1>10. v \in Loaded
  BY <1>8, <1>9 DEF Loaded, Distinct, Clean, Rooted
<1>11. QED
  BY <1>8, <1>10 DEF u, v

(* One slot: skipped or inserted.                                            *)
LEMMA LoadSlotLoaded ==
  ASSUME NEW t \in Loaded, NEW s \in Slot, NEW b \in Block \union {NoHash}, NEW unread
  PROVE  LoadSlot(t, s, b, unread) \in Loaded
<1>1. CASE b \in unread \union {NoHash} \/ Known(t, b) \/ DuplicateGenesis(t, b)
  BY <1>1 DEF LoadSlot
<1>2. CASE ~(b \in unread \union {NoHash} \/ Known(t, b) \/ DuplicateGenesis(t, b))
  <2>1. b \in Block /\ ~Known(t, b)
    BY <1>2
  <2>2. CASE BlockSeq[b] # 0
    <3>1. InsertBlock(t, s, b, NoRef, FALSE) \in Loaded
      BY <2>1, InsertedLoaded
    <3>2. QED
      BY <1>2, <2>2, <3>1 DEF LoadSlot
  <2>3. CASE BlockSeq[b] = 0
    <3>1. [InsertBlock(t, s, b, NoRef, TRUE) EXCEPT !.active = s] \in Loaded
      BY <2>1, <2>3, InsertedLoaded
    <3>2. QED
      BY <1>2, <2>3, <3>1 DEF LoadSlot
  <2>4. QED
    BY <2>2, <2>3
<1>3. QED
  BY <1>1, <1>2

(* Reading the slots back is a run of its step,                             *)
(* in whatever set the step stays in.                                       *)
LEMMA LoadSlotsRuns ==
  ASSUME NEW T, NEW t \in T, NEW bytes, NEW unread,
         \A u \in T, k \in Slot : LoadSlot(u, k, bytes[k], unread) \in T
  PROVE  /\ LoadSlots(t, bytes, unread) \in T
         /\ \E g \in [T \X Slot -> T] :
              /\ \A u \in T, k \in Slot : g[<<u, k>>] = LoadSlot(u, k, bytes[k], unread)
              /\ HasRun(MaxBlocks, T, t, g, LoadSlots(t, bytes, unread))
<1> DEFINE n == MaxBlocks
           seq == InSlotOrder
           Step(u, k) == LoadSlot(u, k, bytes[k], unread)
           g == [p \in T \X (1 .. n) |-> Step(p[1], p[2])]
           Eq(h) == h = [s \in SUBSET (DOMAIN seq) |->
                          IF s = {} THEN t ELSE Step(h[s \ {Max(s)}], seq[Max(s)])]
           iter == CHOOSE h : Eq(h)
<1>1. LoadSlots(t, bytes, unread) = iter[DOMAIN seq]
  BY DEF LoadSlots, FoldLeft, MapThenFoldSet
<1>2. n \in Nat /\ DOMAIN seq = 1 .. n /\ \A k \in 1 .. n : seq[k] = k
  BY BlockAssumption DEF InSlotOrder, Slot
<1>3. Slot = 1 .. n /\ \A u \in T, k \in 1 .. n : Step(u, k) \in T
  BY DEF Slot
<1> HIDE DEF seq, n, Step
<1>4. g \in [T \X (1 .. n) -> T] /\ \A u \in T, k \in 1 .. n : g[<<u, k>>] = Step(u, k)
  BY <1>3
<1> HIDE DEF g
<1>5. \A s \in SUBSET (1 .. n) : s # {} => Max(s) \in 1 .. n
  BY <1>2, TopOf
<1>6. PICK h \in [SUBSET (1 .. n) -> T] : FoldsUp(h, n, T, t, g)
  BY <1>2, <1>4, FoldUpExists, Zenon
<1>7. ASSUME NEW s \in SUBSET (1 .. n), s # {}
      PROVE  h[s] = Step(h[s \ {Max(s)}], seq[Max(s)])
  <2>1. Max(s) \in 1 .. n /\ h[s \ {Max(s)}] \in T
    BY <1>5, <1>7
  <2>2. h[s] = g[<<h[s \ {Max(s)}], Max(s)>>]
    BY <1>6, <1>7, <2>1 DEF FoldsUp
  <2>3. QED
    BY <1>2, <1>4, <2>1, <2>2
<1>8. Eq(h)
  BY <1>2, <1>6, <1>7 DEF FoldsUp
<1> HIDE DEF Eq
<1>9. Eq(iter)
  BY <1>8
<1> HIDE DEF iter
<1>10. FoldsUp(iter, n, T, t, g)
  <2>1. iter[{}] = t
    BY <1>2, <1>9 DEF Eq
  <2>2. ASSUME NEW s \in SUBSET (1 .. n), s # {}, iter[s \ {Max(s)}] \in T
        PROVE  iter[s] = g[<<iter[s \ {Max(s)}], Max(s)>>]
    <3>1. Max(s) \in 1 .. n /\ iter[s] = Step(iter[s \ {Max(s)}], seq[Max(s)])
      BY <1>2, <1>5, <1>9, <2>2 DEF Eq
    <3>2. QED
      BY <1>2, <1>4, <2>2, <3>1
  <2>3. QED
    BY <2>1, <2>2 DEF FoldsUp
<1>11. HasRun(n, T, t, g, LoadSlots(t, bytes, unread))
  <2>1. HasRun(n, T, t, g, iter[1 .. n])
    BY <1>2, <1>4, <1>10, FoldRunExists, Zenon
  <2>2. QED
    BY <1>1, <1>2, <2>1
<1>12. LoadSlots(t, bytes, unread) \in T
  BY <1>2, <1>11, RunEnds
<1>13. QED
  BY <1>3, <1>4, <1>11, <1>12 DEF n, Step

(* All slots.                                                                *)
LEMMA LoadSlotsLoaded ==
  ASSUME NEW bytes \in [Slot -> Block \union {NoHash}], NEW unread
  PROVE  LoadSlots(EmptyNode, bytes, unread) \in Loaded
<1> DEFINE T == Loaded
<1>1. \A u \in T, k \in Slot : LoadSlot(u, k, bytes[k], unread) \in T
  BY LoadSlotLoaded
<1>2. EmptyNode \in T
  BY EmptyNodeLoaded
<1> HIDE DEF T
<1>3. LoadSlots(EmptyNode, bytes, unread) \in T
  BY <1>1, <1>2, LoadSlotsRuns
<1>4. QED
  BY <1>3 DEF T

(* A link restored is a reduction.                                           *)
LEMMA LinkSlotReduces ==
  ASSUME NEW t \in NodeState, NEW s \in Slot
  PROVE  Reduces(t, LinkSlot(t, s))
<1>1. FindParent(t, HashAt(t, s)) \in Ref
  BY FindParentIn
<1>2. QED
  BY <1>1, SetParentReduces, ReducesSelf DEF LinkSlot

(* Restoring the links is a run of its step,                                *)
(* in whatever set the step stays in.                                       *)
LEMMA LinkSlotsRuns ==
  ASSUME NEW T, NEW t \in T,
         \A u \in T, k \in Slot : LinkSlot(u, k) \in T
  PROVE  /\ LinkSlots(t) \in T
         /\ \E g \in [T \X Slot -> T] :
              /\ \A u \in T, k \in Slot : g[<<u, k>>] = LinkSlot(u, k)
              /\ HasRun(MaxBlocks, T, t, g, LinkSlots(t))
<1> DEFINE n == MaxBlocks
           seq == InSlotOrder
           Step(u, k) == LinkSlot(u, k)
           g == [p \in T \X (1 .. n) |-> Step(p[1], p[2])]
           Eq(h) == h = [s \in SUBSET (DOMAIN seq) |->
                          IF s = {} THEN t ELSE Step(h[s \ {Max(s)}], seq[Max(s)])]
           iter == CHOOSE h : Eq(h)
<1>1. LinkSlots(t) = iter[DOMAIN seq]
  BY DEF LinkSlots, FoldLeft, MapThenFoldSet
<1>2. n \in Nat /\ DOMAIN seq = 1 .. n /\ \A k \in 1 .. n : seq[k] = k
  BY BlockAssumption DEF InSlotOrder, Slot
<1>3. Slot = 1 .. n /\ \A u \in T, k \in 1 .. n : Step(u, k) \in T
  BY DEF Slot
<1> HIDE DEF seq, n, Step
<1>4. g \in [T \X (1 .. n) -> T] /\ \A u \in T, k \in 1 .. n : g[<<u, k>>] = Step(u, k)
  BY <1>3
<1> HIDE DEF g
<1>5. \A s \in SUBSET (1 .. n) : s # {} => Max(s) \in 1 .. n
  BY <1>2, TopOf
<1>6. PICK h \in [SUBSET (1 .. n) -> T] : FoldsUp(h, n, T, t, g)
  BY <1>2, <1>4, FoldUpExists, Zenon
<1>7. ASSUME NEW s \in SUBSET (1 .. n), s # {}
      PROVE  h[s] = Step(h[s \ {Max(s)}], seq[Max(s)])
  <2>1. Max(s) \in 1 .. n /\ h[s \ {Max(s)}] \in T
    BY <1>5, <1>7
  <2>2. h[s] = g[<<h[s \ {Max(s)}], Max(s)>>]
    BY <1>6, <1>7, <2>1 DEF FoldsUp
  <2>3. QED
    BY <1>2, <1>4, <2>1, <2>2
<1>8. Eq(h)
  BY <1>2, <1>6, <1>7 DEF FoldsUp
<1> HIDE DEF Eq
<1>9. Eq(iter)
  BY <1>8
<1> HIDE DEF iter
<1>10. FoldsUp(iter, n, T, t, g)
  <2>1. iter[{}] = t
    BY <1>2, <1>9 DEF Eq
  <2>2. ASSUME NEW s \in SUBSET (1 .. n), s # {}, iter[s \ {Max(s)}] \in T
        PROVE  iter[s] = g[<<iter[s \ {Max(s)}], Max(s)>>]
    <3>1. Max(s) \in 1 .. n /\ iter[s] = Step(iter[s \ {Max(s)}], seq[Max(s)])
      BY <1>2, <1>5, <1>9, <2>2 DEF Eq
    <3>2. QED
      BY <1>2, <1>4, <2>2, <3>1
  <2>3. QED
    BY <2>1, <2>2 DEF FoldsUp
<1>11. HasRun(n, T, t, g, LinkSlots(t))
  <2>1. HasRun(n, T, t, g, iter[1 .. n])
    BY <1>2, <1>4, <1>10, FoldRunExists, Zenon
  <2>2. QED
    BY <1>1, <1>2, <2>1
<1>12. LinkSlots(t) \in T
  BY <1>2, <1>11, RunEnds
<1>13. QED
  BY <1>3, <1>4, <1>11, <1>12 DEF n, Step

(* All links.                                                                *)
LEMMA LinkSlotsReduces ==
  ASSUME NEW t \in NodeState
  PROVE  Reduces(t, LinkSlots(t))
<1> DEFINE T == Reducts(t)
<1>1. \A u \in T, k \in Slot : LinkSlot(u, k) \in T
  <2> SUFFICES ASSUME NEW u \in T, NEW k \in Slot PROVE LinkSlot(u, k) \in T
    OBVIOUS
  <2>1. u \in Reducts(t) /\ u \in NodeState
    BY DEF Reducts
  <2>2. Reduces(u, LinkSlot(u, k))
    BY <2>1, LinkSlotReduces
  <2>3. QED
    BY <2>1, <2>2, ReductsOn
<1>2. t \in T
  BY ReducesSelf DEF Reducts
<1> HIDE DEF T
<1>3. LinkSlots(t) \in T
  BY <1>1, <1>2, LinkSlotsRuns
<1>4. QED
  BY <1>3 DEF T, Reducts

(* A reduction of such a tree is one.                                        *)
LEMMA LoadedOn ==
  ASSUME NEW t \in Loaded, NEW u, Reduces(t, u)
  PROVE  u \in Loaded
<1>1. Shrinks(t, u)
  BY ShrinksBy
<1>2. Distinct(u) /\ Clean(u) /\ Rooted(u)
  BY <1>1, DistinctOn, CleanOn, RootedOn DEF Loaded
<1>3. /\ \A s \in Slot : u.blocks[s].hash # NoHash => u.blocks[s].status = "Stored"
      /\ u \in NodeState /\ u.phase = "Collecting" /\ u.config = "None"
      /\ u.content = NoContent /\ u.tentative = NoRef
  BY DEF Loaded, Reduces
<1>4. QED
  BY <1>2, <1>3 DEF Loaded

(* The rebuilt tree is one.                                                  *)
LEMMA DurableTreeLoaded ==
  ASSUME NEW bytes \in [Slot -> Block \union {NoHash}], NEW unread
  PROVE  DurableTree(bytes, unread) \in Loaded
<1> DEFINE t == LoadSlots(EmptyNode, bytes, unread)
           u == LinkSlots(t)
           v == RebuildFromBlocks(u)
           w == SeedMissingParents(v)
<1>1. DurableTree(bytes, unread) = w
  BY DEF DurableTree
<1>2. t \in Loaded /\ t \in NodeState
  BY LoadSlotsLoaded DEF Loaded
<1> HIDE DEF t
<1>3. Reduces(t, u) /\ u \in NodeState
  BY <1>2, LinkSlotsReduces DEF Reduces
<1> HIDE DEF u
<1>4. Reduces(u, v) /\ v \in NodeState
  BY <1>3, RebuildFromBlocksReduces DEF Reduces
<1> HIDE DEF v
<1>5. Reduces(v, w)
  BY <1>4, SeedMissingParentsReduces
<1> HIDE DEF w
<1>6. QED
  BY <1>1, <1>2, <1>3, <1>4, <1>5, LoadedOn

(* With the configuration restored it is sound, and locked exactly if the    *)
(* control plane holds one.                                                  *)
LEMMA RestoredSound ==
  ASSUME NEW t \in Loaded, NEW held \in Configuration \union {NoContent}
  PROVE  LET u == RestoreConfig(t, held)
         IN  /\ Sound(u) /\ u.phase = "Collecting"
             /\ u.config = "Locked" <=> held # NoContent
             /\ held # NoContent => u.content = held
<1> DEFINE configs == {s \in Retained(t) : Kind[HashAt(t, s)] = "ChainConfig"}
           u == RestoreConfig(t, held)
<1>1. t \in NodeState /\ t.phase = "Collecting" /\ t.config = "None" /\ t.content = NoContent
  BY DEF Loaded
<1>2. /\ u \in NodeState /\ u.blocks = t.blocks /\ u.phase = t.phase /\ ConfigHeld(u)
      /\ u.config = "Locked" <=> held # NoContent
      /\ held # NoContent => u.content = held
  <2>1. CASE held # NoContent
    <3>1. u = [t EXCEPT !.config = "Locked", !.content = held]
      BY <2>1 DEF RestoreConfig
    <3> HIDE DEF u
    <3>2. QED
      BY <1>1, <2>1, <3>1 DEF NodeState, ConfigHeld
  <2>2. CASE held = NoContent /\ configs # {}
    <3> DEFINE s == Min(configs)
               c == Content[HashAt(t, s)]
               v == [t EXCEPT !.config = "Tentative", !.content = c, !.tentative = s]
    <3>1. u = v
      BY <2>2 DEF RestoreConfig
    <3>2. configs \subseteq Nat
      BY Numbers DEF Retained
    <3>3. s \in configs
      BY <2>2, <3>2, MinOf
    <3>4. Occupied(t, s) /\ Kind[HashAt(t, s)] = "ChainConfig"
      BY <3>3 DEF Retained, Occupied
    <3> HIDE DEF s, u
    <3>5. c \in Configuration /\ c # NoContent /\ s \in Ref
      BY <1>1, <3>4, ContentOfConfig, RetainedBlock
    <3> HIDE DEF c
    <3>6. /\ v \in NodeState /\ v.blocks = t.blocks /\ v.phase = t.phase
          /\ v.config = "Tentative" /\ v.content = c
      BY <1>1, <3>5 DEF NodeState
    <3> HIDE DEF v
    <3>7. QED
      BY <2>2, <3>1, <3>5, <3>6 DEF ConfigHeld
  <2>3. CASE held = NoContent /\ configs = {}
    <3>1. u = t
      BY <2>3 DEF RestoreConfig
    <3>2. QED
      BY <1>1, <2>3, <3>1 DEF ConfigHeld
  <2>4. QED
    BY <2>1, <2>2, <2>3
<1> HIDE DEF u
<1>3. Distinct(u) /\ Clean(u) /\ Evident(u) /\ Rooted(u)
  BY <1>2 DEF Loaded, Distinct, Clean, Evident, Rooted
<1>4. QED
  BY <1>1, <1>2, <1>3 DEF Sound, u

(* The acquisition of a restart: its chain, if it finds one, was checked by  *)
(* the pass.                                                                 *)
LEMMA RestoredAdvances ==
  ASSUME NEW t, Sound(t), t.phase = "Collecting", NEW unread, unread \subseteq Flaky,
         NEW lockFails
  PROVE  LET u == Advance(t, FALSE, unread, lockFails)
         IN  /\ Sound(u) /\ u.phase \in Running /\ SameLock(t, u)
             /\ u.phase = "Ready" => ChainFits(u)
<1> DEFINE u == Advance(t, FALSE, unread, lockFails)
<1>1. u \in {t, DriveAcquisition(t, unread, lockFails)}
  BY DEF Advance
<1>2. DriveAcquisition(t, unread, lockFails) \in Gathers(t) \union Acquires(t, Flaky)
  BY DriveAcquisitionHolds DEF Sound
<1> HIDE DEF u
<1>3. CASE u = t
  BY <1>3 DEF SameLock, Running, u
<1>4. CASE u # t
  <2>1. u \in Gathers(t) \union Acquires(t, Flaky)
    BY <1>1, <1>2, <1>4
  <2>2. u.phase = "Ready" => ChainFits(u)
    BY <2>1 DEF Gathers, Acquires
  <2>3. QED
    BY <2>1, <2>2, AcquisitionSound DEF u
<1>5. QED
  BY <1>3, <1>4

(* The restored lock applied to the rest of the tree: this is where          *)
(* GenesisFits is needed.                                                    *)
LEMMA ReapplySettles ==
  ASSUME NEW t, Sound(t), t.phase \in Running, t.phase = "Ready" => ChainFits(t),
         NEW unread, unread \subseteq Flaky
  PROVE  Settles(t, Reapply(t, unread))
<1> DEFINE u == Reapply(t, unread)
<1>1. t \in NodeState
  BY DEF Sound
<1>2. CASE t.config # "Locked"
  BY <1>2 DEF Reapply, Settles, Kept, Fits, SameLock
<1>3. CASE t.config = "Locked"
  <2>1. u = ApplyLock(t, unread)
    BY <1>3 DEF Reapply
  <2>2. Reduces(t, u)
    BY <1>1, <2>1, ApplyLockReduces
  <2> HIDE DEF u
  <2>3. ASSUME GenesisFits PROVE AllFit(u, Flaky)
    <3>1. ChainFits(t)
      <4>1. CASE t.phase = "Ready"
        BY <4>1
      <4>2. CASE t.phase = "Collecting"
        <5> SUFFICES ASSUME NEW s \in Slot, t.blocks[s].onActive
                     PROVE  ~Oversized(t, t.blocks[s].hash) /\ ~Mismatches(t, t.blocks[s].hash)
          BY DEF ChainFits
        <5>1. BlockSeq[t.blocks[s].hash] = 0 /\ Occupied(t, s)
          BY <4>2 DEF Sound, Rooted, Clean, Occupied
        <5>2. t.blocks[s].hash \in Block
          BY <1>1, <5>1, RetainedBlock
        <5>3. t.content \in Configuration
          BY <1>1, <1>3 DEF Sound, ConfigHeld, NodeState
        <5>4. SizeLimit[t.content] \in Nat /\ Size[t.blocks[s].hash] \in Nat
          BY <5>2, <5>3, ChainAssumption
        <5>5. QED
          BY <2>3, <5>1, <5>2, <5>3, <5>4 DEF GenesisFits, Oversized, Mismatches
      <4>3. QED
        BY <4>1, <4>2 DEF Running
    <3>2. AllFit(u, unread)
      BY <1>1, <1>3, <2>1, <3>1, ApplyLockFits
    <3>3. QED
      BY <3>2 DEF AllFit
  <2>4. /\ u \in NodeState /\ u.phase = t.phase /\ u.config = "Locked" /\ u.content = t.content
        /\ u.tail # NoRef => t.tail # NoRef
    BY <1>3, <2>2 DEF Reduces
  <2>5. Distinct(u) /\ Clean(u) /\ Evident(u) /\ ConfigHeld(u)
    BY <2>2, ShrinksBy, DistinctOn, CleanOn, EvidentOn, ConfigHeldOn DEF Sound
  <2>6. /\ u.phase = "Ready" => (u.tail # NoRef => Judged(u))
        /\ u.phase = "Collecting" => Rooted(u)
    BY <2>2, <2>4, JudgedOn, RootedOn DEF Sound
  <2>7. QED
    BY <1>3, <2>3, <2>4, <2>5, <2>6 DEF Settles, Kept, Sound, Fits, SameLock, u
<1>4. QED
  BY <1>2, <1>3

-----------------------------------------------------------------------------
(* The tree after n of the two founding blocks.                              *)
Founds(t, n) ==
  /\ t \in NodeState /\ t.phase = "Collecting" /\ t.config = "Tentative"
  /\ t.content = Content[Founding[2]] /\ t.tentative = NoRef
  /\ \A r \in Slot : t.blocks[r].hash # NoHash \/ t.blocks[r].onActive =>
       /\ r \in 1 .. n /\ t.blocks[r].hash = Founding[r]
       /\ t.blocks[r].status = "Active" /\ t.blocks[r].onActive

(* What NodeAssumption says of the two founding blocks.                      *)
LEMMA FoundingBlocks ==
  ASSUME Founding # <<>>
  PROVE  /\ Founding[1] \in Block /\ Founding[2] \in Block /\ MaxBlocks > 1
         /\ BlockSeq[Founding[1]] = 0 /\ BlockSeq[Founding[2]] = 1
         /\ Kind[Founding[1]] # "ChainConfig" /\ Kind[Founding[2]] = "ChainConfig"
         /\ Founding[1] \notin BadBlock \union BadVotes
         /\ Founding[2] \notin BadBlock \union BadVotes
         /\ Size[Founding[1]] <= SizeLimit[Content[Founding[2]]]
         /\ Size[Founding[2]] <= SizeLimit[Content[Founding[2]]]
         /\ Content[Founding[2]] \in Configuration /\ Content[Founding[2]] # NoContent
<1>1. Founding[1] \in Block /\ Founding[2] \in Block /\ Kind[Founding[2]] = "ChainConfig"
  BY NodeAssumption
<1>2. 1 \in 1 .. 2 /\ 2 \in 1 .. 2
  OBVIOUS
<1>3. QED
  BY <1>1, <1>2, NodeAssumption, ContentOfConfig

(* It starts with the configuration in hand and no block.                    *)
LEMMA FoundersNodeFounds ==
  ASSUME Founding # <<>>
  PROVE  Founds(FoundersNode, 0)
<1> DEFINE c == Content[Founding[2]]
<1>1. c \in Configuration
  BY FoundingBlocks
<1>2. EmptyNode \in NodeState /\ EmptyNode.tentative = NoRef /\ EmptyNode.phase = "Collecting"
  BY EmptyNodeLoaded DEF Loaded
<1>3. \A s \in Slot : EmptyNode.blocks[s] = FreeSlot
  BY DEF EmptyNode
<1>4. FoundersNode = [EmptyNode EXCEPT !.config = "Tentative", !.content = c]
  BY DEF FoundersNode
<1> HIDE DEF c
<1>5. /\ FoundersNode \in NodeState /\ FoundersNode.blocks = EmptyNode.blocks
      /\ FoundersNode.phase = "Collecting" /\ FoundersNode.config = "Tentative"
      /\ FoundersNode.content = c /\ FoundersNode.tentative = NoRef
  BY <1>1, <1>2, <1>4 DEF NodeState
<1>6. QED
  BY <1>3, <1>5, FreeSlotEntry DEF Founds, c

(* Each founding block is written, made Active and admitted.                 *)
LEMMA FoundBlockFounds ==
  ASSUME Founding # <<>>, NEW s \in 1 .. 2, NEW t, Founds(t, s - 1)
  PROVE  Founds(FoundBlock(t, s), s)
<1> DEFINE b == Founding[s]
           v == InsertBlock(t, s, b, s - 1, TRUE)
           B == [v.blocks EXCEPT ![s].status = "Active"]
           w == [v EXCEPT !.blocks = B, !.active = s]
           m == OnBlockAdmitted(w, s, s - 1)
<1>1. t \in NodeState /\ s \in Slot /\ s - 1 \in Ref /\ b \in Block /\ b # NoHash
  <2>1. t \in NodeState
    BY DEF Founds
  <2>2. s \in {1, 2}
    OBVIOUS
  <2>3. b \in Block /\ b # NoHash
    BY <2>2, FoundingBlocks, HeaderNumbers
  <2>4. MaxBlocks \in Nat /\ MaxBlocks > 1
    BY FoundingBlocks, BlockAssumption
  <2>5. s \in Slot /\ s - 1 \in Ref
    <3>1. s \in Nat /\ 1 <= s /\ s <= MaxBlocks
      BY <2>2, <2>4
    <3>2. s \in Slot
      BY <3>1, <2>4 DEF Slot
    <3>3. s - 1 = 0 \/ (s - 1 \in 1 .. MaxBlocks)
      BY <3>1, <2>4
    <3>4. QED
      BY <3>2, <3>3 DEF Ref, Slot, NoRef
  <2>6. QED
    BY <2>1, <2>3, <2>5
<1>2. FoundBlock(t, s) = m
  BY DEF FoundBlock
<1>3. Inserted(t, v, s, b, TRUE)
  BY <1>1, InsertBlockInserts
<1> HIDE DEF v, b
<1>4. v \in NodeState
  BY <1>3 DEF Inserted
<1> DEFINE e == [v.blocks[s] EXCEPT !.status = "Active"]
<1>5. /\ B \in [Slot -> BlockEntry]
      /\ B[s].hash = v.blocks[s].hash /\ B[s].onActive = v.blocks[s].onActive
      /\ B[s].status = "Active" /\ \A r \in Slot : r # s => B[r] = v.blocks[r]
  <2>1. v.blocks \in [Slot -> BlockEntry]
    BY <1>4 DEF NodeState
  <2>2. v.blocks[s] \in BlockEntry
    BY <1>1, <2>1
  <2>3. /\ e \in BlockEntry /\ e.hash = v.blocks[s].hash
        /\ e.onActive = v.blocks[s].onActive /\ e.status = "Active"
    BY <2>2 DEF BlockEntry, Statuses
  <2>4. B = [v.blocks EXCEPT ![s] = e]
    OBVIOUS
  <2> HIDE DEF e, B
  <2>5. B \in [Slot -> BlockEntry] /\ B[s] = e /\ \A r \in Slot : r # s => B[r] = v.blocks[r]
    BY <1>1, <2>1, <2>3, <2>4
  <2>6. QED
    BY <2>3, <2>5
<1> HIDE DEF B
<1>6. /\ w \in NodeState /\ w.blocks = B /\ w.phase = v.phase /\ w.config = v.config
      /\ w.content = v.content /\ w.tentative = v.tentative
  BY <1>1, <1>4, <1>5, Numbers DEF NodeState
<1> HIDE DEF w
<1>7. Reduces(w, m)
  <2>1. Occupied(w, s)
    BY <1>1, <1>3, <1>5, <1>6 DEF Occupied, Inserted
  <2>2. QED
    BY <1>6, <2>1, OnBlockAdmittedReduces
<1> HIDE DEF m
<1>8. /\ m \in NodeState /\ m.phase = "Collecting" /\ m.config = "Tentative"
      /\ m.content = Content[Founding[2]] /\ m.tentative = NoRef
  <2>1. w.tentative = NoRef /\ w.phase = "Collecting" /\ w.config = "Tentative"
        /\ w.content = Content[Founding[2]]
    BY <1>3, <1>6 DEF Inserted, Founds
  <2>2. QED
    BY <1>7, <2>1 DEF Reduces
<1>9. ASSUME NEW r \in Slot, m.blocks[r].hash # NoHash \/ m.blocks[r].onActive
      PROVE  /\ r \in 1 .. s /\ m.blocks[r].hash = Founding[r]
             /\ m.blocks[r].status = "Active" /\ m.blocks[r].onActive
  <2>1. /\ m.blocks[r].hash = w.blocks[r].hash /\ m.blocks[r].status = w.blocks[r].status
        /\ m.blocks[r].onActive = w.blocks[r].onActive
    BY <1>7, <1>9 DEF Reduces
  <2>2. CASE r = s
    BY <1>3, <1>5, <1>6, <2>1, <2>2 DEF Inserted, b
  <2>3. CASE r # s
    <3>1. w.blocks[r] = t.blocks[r]
      BY <1>3, <1>5, <1>6, <2>3 DEF Inserted
    <3>2. r \in 1 .. (s - 1) /\ t.blocks[r].hash = Founding[r]
          /\ t.blocks[r].status = "Active" /\ t.blocks[r].onActive
      BY <1>9, <2>1, <3>1 DEF Founds
    <3>3. QED
      BY <2>1, <3>1, <3>2
  <2>4. QED
    BY <2>2, <2>3
<1>10. QED
  BY <1>2, <1>8, <1>9 DEF Founds

(* A founding tree is sound.                                                 *)
LEMMA FoundsFacts ==
  ASSUME Founding # <<>>, NEW n \in 0 .. 2, NEW t, Founds(t, n)
  PROVE  Distinct(t) /\ Clean(t) /\ Evident(t) /\ Judged(t) /\ ConfigHeld(t)
         /\ (n < 2 => Rooted(t))
<1>1. \A r \in Slot : t.blocks[r].hash # NoHash \/ t.blocks[r].onActive =>
        /\ r \in {1, 2} /\ t.blocks[r].hash = Founding[r] /\ t.blocks[r].status = "Active"
        /\ n < 2 => r = 1
  BY DEF Founds
<1>2. Founding[1] # Founding[2] /\ Founding[1] # NoHash /\ Founding[2] # NoHash
  BY FoundingBlocks, HeaderNumbers
<1>3. Distinct(t)
  BY <1>1, <1>2 DEF Distinct
<1>4. Clean(t) /\ Judged(t)
  BY <1>1, <1>2 DEF Clean, Judged
<1>5. Evident(t)
  BY <1>1, FoundingBlocks DEF Evident
<1>6. ConfigHeld(t)
  BY FoundingBlocks DEF Founds, ConfigHeld
<1>7. n < 2 => Rooted(t)
  BY <1>1, FoundingBlocks DEF Rooted
<1>8. QED
  BY <1>3, <1>4, <1>5, <1>6, <1>7

(* The founded node keeps the invariant.                                     *)
LEMMA FoundedKept ==
  ASSUME Founding # <<>>, NEW t, Founds(t, 2)
  PROVE  LET u == [EstablishWindow(t) EXCEPT !.config = "Locked", !.phase = "Ready"]
         IN  Kept(u) /\ u.phase = "Ready" /\ u.config = "Locked"
<1> DEFINE root == Last(Path(t, t.active))
           e == [t EXCEPT !.tail = root]
           f == WindowFrom(t, root)
           u == [f EXCEPT !.config = "Locked", !.phase = "Ready"]
           c == Content[Founding[2]]
<1>1. EstablishWindow(t) = f
  BY DEF EstablishWindow
<1>2. t \in NodeState /\ t.active \in Ref
  BY DEF Founds, NodeState
<1>3. root \in Ref
  <2> DEFINE q == Path(t, t.active)
  <2>1. PathFacts(t, t.active, q)
    BY <1>2, PathElements
  <2>2. root = q[Len(q)]
    BY DEF root, Last
  <2> HIDE DEF q
  <2>3. QED
    BY <2>1, <2>2 DEF PathFacts
<1> HIDE DEF root
<1>4. e \in NodeState /\ Reduces(e, f)
  BY <1>2, <1>3, WindowFromReduces
<1>5. /\ e.blocks = t.blocks /\ e.tentative = NoRef /\ e.config = "Tentative"
      /\ e.content = c
  BY <1>2, <1>3 DEF NodeState, Founds
<1> HIDE DEF e, c
<1>6. f \in NodeState /\ f.content = c
  BY <1>4, <1>5 DEF Reduces
<1>7. \A s \in Slot : f.blocks[s].hash # NoHash \/ f.blocks[s].onActive =>
        /\ f.blocks[s].hash = t.blocks[s].hash /\ f.blocks[s].status = t.blocks[s].status
        /\ f.blocks[s].onActive = t.blocks[s].onActive
  BY <1>4, <1>5 DEF Reduces
<1> HIDE DEF f
<1>8. /\ u \in NodeState /\ u.blocks = f.blocks /\ u.phase = "Ready" /\ u.config = "Locked"
      /\ u.content = c
  BY <1>6 DEF NodeState, Phases
<1> HIDE DEF u
<1>9. Distinct(t) /\ Clean(t) /\ Evident(t) /\ Judged(t)
  BY FoundsFacts
<1>10. Distinct(u) /\ Clean(u) /\ Evident(u) /\ Judged(u)
  BY <1>7, <1>8, <1>9 DEF Distinct, Clean, Evident, Judged
<1>11. ConfigHeld(u)
  BY <1>8, FoundingBlocks DEF ConfigHeld, c
<1>12. AllFit(u, Flaky)
  <2> SUFFICES ASSUME NEW s \in Slot, u.blocks[s].hash # NoHash
               PROVE  ~Oversized(u, u.blocks[s].hash) /\ ~Mismatches(u, u.blocks[s].hash)
    BY DEF AllFit
  <2>1. s \in 1 .. 2 /\ u.blocks[s].hash = Founding[s]
    BY <1>7, <1>8 DEF Founds
  <2>2. Size[Founding[s]] <= SizeLimit[c]
    BY <2>1, FoundingBlocks DEF c
  <2>3. Size[Founding[s]] \in Nat /\ SizeLimit[c] \in Nat
    BY <2>1, FoundingBlocks, ChainAssumption DEF c
  <2>4. ~(Size[Founding[s]] > SizeLimit[c])
    BY <2>2, <2>3
  <2>5. Kind[Founding[s]] = "ChainConfig" => Content[Founding[s]] = c
    BY <2>1, FoundingBlocks DEF c
  <2>6. QED
    BY <1>8, <2>1, <2>4, <2>5 DEF Oversized, Mismatches
<1>13. QED
  BY <1>1, <1>8, <1>10, <1>11, <1>12 DEF Kept, Sound, Fits, u

(* So does one whose founding failed at any of its writes.                   *)
LEMMA GenesisNodeKept ==
  ASSUME Founding # <<>>, NEW done \in 0 .. 3
  PROVE  Kept(GenesisNode(done)) /\ GenesisNode(done).phase \in Running
<1> DEFINE t == FoundBlock(FoundersNode, 1)
<1>1. Founds(FoundersNode, 0)
  BY FoundersNodeFounds
<1>2. Founds(t, 1)
  BY <1>1, FoundBlockFounds
<1>3. Founds(FoundBlock(t, 2), 2)
  BY <1>2, FoundBlockFounds
<1>4. ASSUME NEW n \in 0 .. 1, NEW u, Founds(u, n) PROVE Kept(u) /\ u.phase \in Running
  BY <1>4, FoundsFacts DEF Founds, Kept, Sound, Fits, Running
<1> HIDE DEF t
<1>5. CASE done = 0
  BY <1>1, <1>4, <1>5 DEF GenesisNode
<1>6. CASE done \in {1, 2}
  BY <1>2, <1>4, <1>6 DEF GenesisNode, t
<1>7. CASE done = 3
  <2>1. GenesisNode(done)
          = [EstablishWindow(FoundBlock(t, 2)) EXCEPT !.config = "Locked", !.phase = "Ready"]
    BY <1>7 DEF GenesisNode, t
  <2>2. QED
    BY <1>3, <2>1, FoundedKept DEF Running
<1>8. QED
  BY <1>5, <1>6, <1>7

-----------------------------------------------------------------------------
(* The RAM and the control plane agree on the lock.                          *)
Agreed(t, held) ==
  /\ held # NoContent <=> t.config = "Locked"
  /\ held # NoContent => t.content = held

(* The inductive invariant.  TypeOK, EvidenceExcluded and LockEnforced       *)
(* follow from it; a down node is the one whose RAM need not agree with the  *)
(* control plane.                                                            *)
NodeInv ==
  /\ Kept(node)
  /\ node.phase # "Down" => Agreed(node, durable)
  /\ durable \in Configuration \union {NoContent}
  /\ store \in [Slot -> Block \union {NoHash}]
  /\ switch \in Block \union {NoHash} /\ restarts \in 0 .. MaxRestarts

(* The configuration of the control plane is written once.                   *)
LockKept == durable # NoContent => durable' = durable

(* What every action must establish.                                         *)
Steps == NodeInv' /\ LockKept

(* A call that settles records what it locked, and changes no lock that was  *)
(* recorded.                                                                 *)
LEMMA RecordedAgrees ==
  ASSUME NEW t, Agreed(t, durable), NEW u, Kept(u), SameLock(t, u),
         durable \in Configuration \union {NoContent}
  PROVE  /\ Agreed(u, Recorded(u)) /\ Recorded(u) \in Configuration \union {NoContent}
         /\ durable # NoContent => Recorded(u) = durable
<1>1. u.config = "Locked" => u.content \in Configuration /\ u.content # NoContent
  BY DEF Kept, Sound, ConfigHeld, NodeState
<1>2. CASE u.config = "Locked"
  BY <1>1, <1>2 DEF Recorded, Agreed, SameLock
<1>3. CASE u.config # "Locked"
  BY <1>3 DEF Recorded, Agreed, SameLock
<1>4. QED
  BY <1>2, <1>3

(* The empty node keeps the invariant, and so does a down one.               *)
LEMMA EmptyNodeKept ==
  ASSUME NEW p \in {"Collecting", "Down"}
  PROVE  Kept([EmptyNode EXCEPT !.phase = p]) /\ Agreed([EmptyNode EXCEPT !.phase = p], NoContent)
<1> DEFINE u == [EmptyNode EXCEPT !.phase = p]
<1>1. EmptyNode \in Loaded /\ EmptyNode \in NodeState
  BY EmptyNodeLoaded DEF Loaded
<1>2. /\ u \in NodeState /\ u.blocks = EmptyNode.blocks /\ u.phase = p
      /\ u.config = "None" /\ u.content = NoContent
  BY <1>1 DEF NodeState, Phases, Loaded
<1> HIDE DEF u
<1>3. Distinct(u) /\ Clean(u) /\ Evident(u) /\ Rooted(u)
  BY <1>1, <1>2 DEF Loaded, Distinct, Clean, Evident, Rooted
<1>4. QED
  BY <1>2, <1>3 DEF Kept, Sound, Fits, ConfigHeld, Agreed, u

(* A call that ends or is cut off.                                           *)
LEMMA FinishKeeps ==
  ASSUME NodeInv, node.phase \in Running, NEW r, Settles(node, r.t),
         r.switch \in Block \union {NoHash}, Finish(r), store' \in [Slot -> Block \union {NoHash}]
  PROVE  Steps
<1>1. Agreed(node, durable)
  BY DEF NodeInv, Running
<1>2. /\ Agreed(r.t, Recorded(r.t)) /\ Recorded(r.t) \in Configuration \union {NoContent}
      /\ durable # NoContent => Recorded(r.t) = durable
  BY <1>1, RecordedAgrees DEF NodeInv, Settles
<1>3. durable' = Recorded(r.t)
  BY DEF Finish
<1>4. CASE node' = r.t /\ switch' = r.switch /\ UNCHANGED restarts
  <2>1. Kept(node') /\ Agreed(node', durable')
    BY <1>2, <1>3, <1>4 DEF Settles
  <2>2. QED
    BY <1>2, <1>3, <1>4, <2>1 DEF Steps, NodeInv, LockKept
<1>5. CASE /\ restarts < MaxRestarts /\ switch' = NoHash /\ restarts' = restarts + 1
           /\ node' = [EmptyNode EXCEPT !.phase = "Down"]
  <2>1. Kept(node') /\ node'.phase = "Down"
    <3>1. EmptyNode \in NodeState
      BY EmptyNodeLoaded DEF Loaded
    <3>2. QED
      BY <1>5, <3>1, EmptyNodeKept DEF NodeState
  <2>2. restarts' \in 0 .. MaxRestarts
    BY <1>5, NodeAssumption DEF NodeInv
  <2>3. QED
    BY <1>2, <1>3, <1>5, <2>1, <2>2 DEF Steps, NodeInv, LockKept
<1>6. QED
  BY <1>4, <1>5 DEF Finish

(* The slot a block is written to is a slot.                                 *)
LEMMA NextFreeIn == ASSUME NextFree(node) # NoRef PROVE NextFree(node) \in Slot
<1>1. (Slot \ Retained(node)) \subseteq Slot
  OBVIOUS
<1>2. QED
  BY <1>1, LowestIn, Numbers DEF NextFree

(* receive_block: admission, then what follows from it.                      *)
LEMMA ReceiveBlockKeeps ==
  ASSUME NodeInv, NEW b \in Block, NEW unread, unread \subseteq Flaky, NEW lockFails,
         ReceiveBlock(b, unread, lockFails)
  PROVE  Steps
<1> DEFINE x == NextFree(node)
           p == FindParent(node, b)
           j == Judgement(node, b, p, unread)
           u == Admit(node, b, x, p, j, unread)
           v == Advance(u, node.phase = "Ready", unread, lockFails)
           r == Connect(v, x, unread)
<1>1. node.phase \in Running /\ Kept(node)
  BY DEF ReceiveBlock, Running, NodeInv
<1>2. Admissible(node, b) /\ x \in Slot
  BY NextFreeIn DEF ReceiveBlock
<1>3. store' \in [Slot -> Block \union {NoHash}]
  BY DEF ReceiveBlock, NodeInv
<1>4. Finish([t |-> node, switch |-> NoHash]) \/ Finish(r)
  BY DEF ReceiveBlock
<1>5. CASE Finish([t |-> node, switch |-> NoHash])
  <2> DEFINE q == [t |-> node, switch |-> NoHash]
  <2>1. q.t = node /\ q.switch = NoHash
    OBVIOUS
  <2>2. Settles(node, node)
    BY <1>1 DEF Settles, SameLock
  <2>3. Finish(q)
    BY <1>5
  <2> HIDE DEF q
  <2>4. QED
    BY <1>1, <1>3, <2>1, <2>2, <2>3, FinishKeeps
<1>6. CASE Finish(r)
  <2>1. Settles(node, u) /\ u.phase = node.phase
    BY <1>1, <1>2, AdmitSettles
  <2> HIDE DEF u
  <2>2. Settles(u, v)
    BY <1>1, <2>1, AdvanceSettles DEF Settles
  <2> HIDE DEF v
  <2>3. Settles(node, v)
    BY <2>1, <2>2, SettlesOn DEF Settles
  <2>4. Settles(v, r.t) /\ r.switch \in Block \union {NoHash}
    BY <2>2, ConnectSettles DEF Settles
  <2> HIDE DEF r
  <2>5. Settles(node, r.t)
    BY <2>3, <2>4, SettlesOn DEF Settles
  <2>6. QED
    BY <1>1, <1>3, <1>6, <2>4, <2>5, FinishKeeps
<1>7. QED
  BY <1>4, <1>5, <1>6

(* The founding blocks go to their slots.                                    *)
LEMMA GenesisStoreTyped ==
  ASSUME Founding # <<>>, NEW old \in [Slot -> Block \union {NoHash}], NEW done \in 0 .. 3
  PROVE  GenesisStore(old, done) \in [Slot -> Block \union {NoHash}]
<1> DEFINE n == Min({done, 2})
<1>1. {done, 2} \subseteq Nat /\ {done, 2} # {}
  OBVIOUS
<1>2. n \in {done, 2} /\ n <= 2
  BY <1>1, MinOf
<1>3. GenesisStore(old, done) = [s \in Slot |-> IF s <= n THEN Founding[s] ELSE old[s]]
  BY DEF GenesisStore
<1> HIDE DEF n
<1>4. ASSUME NEW s \in Slot, s <= n PROVE Founding[s] \in Block
  <2>1. s \in {1, 2}
    <3>1. s \in Nat /\ s # 0
      BY <1>4, Numbers
    <3>2. n \in Nat
      BY <1>1, <1>2
    <3>3. QED
      BY <1>2, <1>4, <3>1, <3>2
  <2>2. QED
    BY <2>1, FoundingBlocks
<1>5. QED
  BY <1>3, <1>4

(* A founded lock carries a configuration.                                   *)
LEMMA GenesisNodeConfig ==
  ASSUME Founding # <<>>, NEW done \in 0 .. 3
  PROVE  LET u == GenesisNode(done) IN u.config = "Locked" => u.content \in Configuration
<1> QED
  BY GenesisNodeKept DEF Kept, Sound, ConfigHeld, NodeState

(* That a restart was refused changes nothing the invariant speaks of.       *)
LEMMA RefusedKept ==
  ASSUME NEW t, Kept(t), NEW held, Agreed(t, held), NEW r \in BOOLEAN
  PROVE  LET u == [t EXCEPT !.refused = r] IN Kept(u) /\ Agreed(u, held)
<1> DEFINE u == [t EXCEPT !.refused = r]
<1>1. /\ u \in NodeState /\ u.blocks = t.blocks /\ u.phase = t.phase
      /\ u.config = t.config /\ u.content = t.content
      /\ u.active = t.active /\ u.tail = t.tail /\ u.tentative = t.tentative
  BY DEF Kept, Sound, NodeState
<1> HIDE DEF u
<1>2. Distinct(u) /\ Clean(u) /\ Evident(u) /\ ConfigHeld(u)
  BY <1>1 DEF Kept, Sound, Distinct, Clean, Evident, ConfigHeld
<1>3. u.phase = "Ready" => u.config = "Locked" /\ (u.tail # NoRef => Judged(u))
  BY <1>1 DEF Kept, Sound, Judged
<1>4. u.phase = "Collecting" => Rooted(u)
  BY <1>1 DEF Kept, Sound, Rooted
<1>5. Fits(u)
  BY <1>1 DEF Kept, Fits, AllFit, Oversized, Mismatches
<1>6. QED
  BY <1>1, <1>2, <1>3, <1>4, <1>5 DEF Kept, Sound, Agreed, u

(* process_genesis, with a failure after any of its writes, on a node whose  *)
(* restart may have been refused.                                            *)
LEMMA ProcessGenesisKeeps ==
  ASSUME NodeInv, NEW done \in 0 .. 3, ProcessGenesis(done)
  PROVE  Steps
<1> DEFINE u == GenesisNode(done)
           w == [u EXCEPT !.refused = node.refused]
<1>1. Founding # <<>> /\ node.phase # "Down" /\ node.config # "Locked"
  BY DEF ProcessGenesis
<1>2. Kept(u) /\ u.phase \in Running
  BY <1>1, GenesisNodeKept
<1>3. /\ node' = w /\ durable' = Recorded(u) /\ store' = GenesisStore(store, done)
      /\ switch' = NoHash /\ restarts' = restarts
  BY DEF ProcessGenesis
<1> HIDE DEF u
<1>4. Agreed(node, durable) /\ durable = NoContent /\ SameLock(node, u)
  BY <1>1 DEF NodeInv, Agreed, SameLock
<1>5. Agreed(u, Recorded(u)) /\ Recorded(u) \in Configuration \union {NoContent}
  BY <1>2, <1>4, RecordedAgrees
<1>6. store' \in [Slot -> Block \union {NoHash}]
  BY <1>1, <1>3, GenesisStoreTyped DEF NodeInv
<1>7. Kept(w) /\ Agreed(w, Recorded(u))
  <2>1. node.refused \in BOOLEAN
    BY DEF NodeInv, Kept, Sound, NodeState
  <2>2. QED
    BY <1>2, <1>5, <2>1, RefusedKept
<1> HIDE DEF w
<1>8. Kept(node') /\ Agreed(node', durable')
  BY <1>3, <1>7
<1>9. QED
  BY <1>3, <1>4, <1>5, <1>6, <1>8 DEF Steps, NodeInv, LockKept

(* initialize_from_storage: the tree and the lock from storage, the          *)
(* acquisition, the lock applied, the side branches.                         *)
LEMMA InitializeFromStorageKeeps ==
  ASSUME NodeInv, NEW unread, unread \subseteq Flaky, NEW lockFails,
         InitializeFromStorage(unread, lockFails)
  PROVE  Steps
<1> DEFINE t == RestoreConfig(DurableTree(store, unread), durable)
           u == Advance(t, FALSE, unread, lockFails)
           v == Reapply(u, unread)
           r == Connect(v, NoRef, unread)
<1>1. Sound(t) /\ t.phase = "Collecting" /\ Agreed(t, durable)
  <2>1. DurableTree(store, unread) \in Loaded
    BY DurableTreeLoaded DEF NodeInv
  <2>2. /\ Sound(t) /\ t.phase = "Collecting"
        /\ t.config = "Locked" <=> durable # NoContent
        /\ durable # NoContent => t.content = durable
    BY <2>1, RestoredSound DEF NodeInv
  <2> HIDE DEF t
  <2>3. QED
    BY <2>2 DEF Agreed
<1>2. restarts' \in 0 .. MaxRestarts
  BY NodeAssumption DEF InitializeFromStorage, NodeInv
<1>3. store' \in [Slot -> Block \union {NoHash}]
  BY DEF InitializeFromStorage, NodeInv
<1>4. \/ /\ Unusable(t) /\ node' = [t EXCEPT !.refused = TRUE]
         /\ switch' = NoHash /\ durable' = durable
      \/ node' = r.t /\ switch' = r.switch /\ durable' = Recorded(r.t)
  BY DEF InitializeFromStorage
<1>5. CASE /\ Unusable(t) /\ node' = [t EXCEPT !.refused = TRUE]
           /\ switch' = NoHash /\ durable' = durable
  <2>1. Kept(node') /\ Agreed(node', durable')
    <3> HIDE DEF t
    <3>1. Fits(t)
      BY <1>5 DEF Unusable, Fits, AllFit, Retained, Occupied
    <3>2. QED
      BY <1>1, <1>5, <3>1, RefusedKept DEF Kept
  <2>2. QED
    BY <1>2, <1>3, <1>5, <2>1 DEF Steps, NodeInv, LockKept
<1>6. CASE node' = r.t /\ switch' = r.switch /\ durable' = Recorded(r.t)
  <2> HIDE DEF t
  <2>1. Sound(u) /\ u.phase \in Running /\ SameLock(t, u) /\ (u.phase = "Ready" => ChainFits(u))
    BY <1>1, RestoredAdvances
  <2> HIDE DEF u
  <2>2. Settles(u, v)
    BY <2>1, ReapplySettles
  <2> HIDE DEF v
  <2>3. Settles(t, v)
    BY <2>1, <2>2, SettlesOn
  <2>4. Settles(v, r.t) /\ r.switch \in Block \union {NoHash}
    BY <2>2, ConnectSettles DEF Settles
  <2> HIDE DEF r
  <2>5. Settles(t, r.t)
    BY <2>3, <2>4, SettlesOn DEF Settles
  <2>6. /\ Agreed(r.t, Recorded(r.t)) /\ Recorded(r.t) \in Configuration \union {NoContent}
        /\ durable # NoContent => Recorded(r.t) = durable
    BY <1>1, <2>5, RecordedAgrees DEF Settles, NodeInv
  <2>7. Kept(node') /\ Agreed(node', durable')
    BY <1>6, <2>5, <2>6 DEF Settles
  <2>8. QED
    BY <1>2, <1>3, <1>6, <2>4, <2>6, <2>7 DEF Steps, NodeInv, LockKept
<1>7. QED
  BY <1>4, <1>5, <1>6

(* NodeInv holds of a node switched on for the first time.                   *)
THEOREM InitKeeps == Init => NodeInv
<1> SUFFICES ASSUME Init PROVE NodeInv
  OBVIOUS
<1>1. EmptyNode \in NodeState /\ EmptyNode.phase = "Collecting"
  BY EmptyNodeLoaded DEF Loaded
<1>2. [EmptyNode EXCEPT !.phase = "Collecting"] = EmptyNode
  BY <1>1 DEF NodeState
<1>3. Kept(EmptyNode) /\ Agreed(EmptyNode, NoContent)
  BY <1>2, EmptyNodeKept
<1>4. QED
  BY <1>3, NodeAssumption DEF Init, NodeInv

(* NodeInv is inductive, and no call overwrites a recorded lock.             *)
THEOREM NextKeeps == NodeInv /\ [Next]_vars => NodeInv' /\ LockKept
<1> SUFFICES ASSUME NodeInv, [Next]_vars PROVE NodeInv' /\ LockKept
  OBVIOUS
<1>1. CASE UNCHANGED vars
  BY <1>1 DEF vars, NodeInv, Agreed, LockKept
<1>2. CASE Receive
  <2>1. PICK b \in Block, unread \in SUBSET Flaky, lockFails \in LockOutcomes :
          ReceiveBlock(b, unread, lockFails)
    BY <1>2 DEF Receive
  <2>2. QED
    BY <2>1, ReceiveBlockKeeps DEF Steps
<1>3. CASE Found
  <2>1. PICK done \in 0 .. 3 : ProcessGenesis(done)
    BY <1>3 DEF Found
  <2>2. QED
    BY <2>1, ProcessGenesisKeeps DEF Steps
<1>4. CASE Restart
  <2>1. PICK unread \in SUBSET Flaky, lockFails \in LockOutcomes :
          InitializeFromStorage(unread, lockFails)
    BY <1>4 DEF Restart
  <2>2. QED
    BY <2>1, InitializeFromStorageKeeps DEF Steps
<1>5. QED
  BY <1>1, <1>2, <1>3, <1>4 DEF Next

(* The states a node can be in agree with their types. *)
THEOREM NodeTypeOK == Spec => []TypeOK
<1>1. NodeInv => TypeOK
  <2> SUFFICES ASSUME NodeInv PROVE TypeOK
    OBVIOUS
  <2>1. node \in NodeState /\ Distinct(node) /\ ConfigHeld(node)
    BY DEF NodeInv, Kept, Sound
  <2>2. \A r, s \in Retained(node) : HashAt(node, r) = HashAt(node, s) => r = s
    BY <2>1 DEF Distinct, Retained, HashAt
  <2>3. QED
    BY <2>1, <2>2 DEF NodeInv, TypeOK, ConfigHeld
<1>2. QED
  BY <1>1, InitKeeps, NextKeeps, PTL DEF Spec

(* EvidenceExcluded: on a Ready node no path into the active chain - intake, *)
(* continuation, pass, restart, founding - takes a block with evidence       *)
(* against it, and no path to Connected one that Tier 2 refuses.             *)
THEOREM EvidenceStaysOut == Spec => []EvidenceExcluded
<1>1. NodeInv => EvidenceExcluded
  BY DEF NodeInv, Kept, Sound, Evident, EvidenceExcluded, Ready, Retained
<1>2. QED
  BY <1>1, InitKeeps, NextKeeps, PTL DEF Spec

(* LockIrrevocable: commit_durable_chain_config writes the configuration at  *)
(* most once in the life of a chain, through failed writes, stops of the     *)
(* device and restarts.                                                      *)
THEOREM LockOnce == Spec => LockIrrevocable
<1>1. NodeInv /\ [Next]_vars => [durable # NoContent => durable' = durable]_vars
  BY NextKeeps DEF LockKept
<1>2. QED
  BY <1>1, InitKeeps, NextKeeps, PTL DEF Spec, LockIrrevocable

(* LockEnforced: a running node holds the lock the control plane holds, and  *)
(* a Ready node retains no block the lock refuses, on any branch, unless it  *)
(* could not be read.                                                        *)
THEOREM LockGoverns == GenesisFits => (Spec => []LockEnforced)
<1> SUFFICES ASSUME GenesisFits PROVE Spec => []LockEnforced
  OBVIOUS
<1>1. NodeInv => LockEnforced
  <2> SUFFICES ASSUME NodeInv PROVE LockEnforced
    OBVIOUS
  <2>1. node.phase # "Down" /\ durable # NoContent => node.config = "Locked" /\ node.content = durable
    BY DEF NodeInv, Agreed
  <2>2. ASSUME Ready
        PROVE  /\ durable # NoContent
               /\ \A s \in Retained(node) :
                    /\ ~Oversized(node, HashAt(node, s))
                    /\ Mismatches(node, HashAt(node, s)) => HashAt(node, s) \in Flaky
    <3>1. node.config = "Locked" /\ node.phase = "Ready"
      BY <2>2 DEF Ready, NodeInv, Kept, Sound
    <3>2. durable # NoContent
      BY <3>1 DEF NodeInv, Agreed
    <3>3. AllFit(node, Flaky)
      BY <3>1 DEF NodeInv, Kept, Fits, Running
    <3>4. QED
      BY <3>2, <3>3 DEF AllFit, Retained, HashAt
  <2>3. QED
    BY <2>1, <2>2 DEF LockEnforced
<1>2. QED
  BY <1>1, InitKeeps, NextKeeps, PTL DEF Spec
=============================================================================
