--------------------------- MODULE NodeProperties ---------------------------
(***************************************************************************)
(* What makes the node of module Node correct.                               *)
(***************************************************************************)
EXTENDS Node

(* The shape of the state; also: at most one slot holds a given block. *)
TypeOK ==
  /\ node \in NodeState
  /\ node.content = NoContent <=> node.config = "None"
  /\ durable \in Configuration \union {NoContent}
  /\ store \in [Slot -> Block \union {NoHash}]
  /\ switch \in Block \union {NoHash} /\ restarts \in 0 .. MaxRestarts
  /\ \A r, s \in Retained(node) : HashAt(node, r) = HashAt(node, s) => r = s

Ready == node.phase = "Ready"

(* A link names the slot of exactly the block the header names, or no slot   *)
(* when that block is not retained: no link dangles, and none was captured   *)
(* by a block written later into a reused slot.                              *)
LinksExact ==
  \A s \in Retained(node) : node.blocks[s].parent = FindParent(node, HashAt(node, s))

(* Off the active chain the branch count the eviction walk trusts is the     *)
(* out-degree, one for a tip.                                                *)
RefsExact ==
  \A s \in Retained(node) :
    ~node.blocks[s].onActive =>
      node.blocks[s].refs = Max({1, Cardinality(Children(node, s))})

(* FR19 indexes every tip, once, and nothing else. *)
TipsTracked ==
  /\ \A k \in Tracked(node) : /\ Occupied(node, node.heads[k].head)
                              /\ Children(node, node.heads[k].head) = {}
  /\ \A s \in Retained(node) :
       Children(node, s) = {} => Cardinality({k \in Branch : node.heads[k].head = s}) = 1

(* Parent recovery asks for exactly the parent a fragment lacks: a head that *)
(* does not reach the active chain caches its lowest ancestor and the hash   *)
(* that ancestor's header names, which is no retained block.                 *)
RecoveryExact ==
  \A k \in Tracked(node) :
    LET path == Path(node, node.heads[k].head)
    IN  /\ node.heads[k].connected <=> ConnectionIndex(node, path) # NoRef
        /\ ~node.heads[k].connected =>
             /\ node.heads[k].tail = Last(path)
             /\ node.heads[k].missing = PrevHash[HashAt(node, Last(path))]
             /\ node.heads[k].missing \notin RetainedHashes(node)

(* Verdicts are closed under ancestry: an Active block is exactly a block of *)
(* the active chain, and a Connected one lies on judged blocks only.         *)
StatusClosed ==
  \A s \in Retained(node) :
    LET b == node.blocks[s]
    IN  IF ~Ready THEN b.status = "Stored" \/ (Founding # <<>> /\ b.hash = Founding[1])
        ELSE /\ (b.status = "Active") = (s \in Ancestry(node, node.active))
             /\ b.onActive = (b.status = "Active")
             /\ b.status = "Connected" => /\ b.parent # NoRef
                                          /\ node.blocks[b.parent].status # "Stored"

(* No head goes on asking for a block that is in the tree. *)
NoZombieHead ==
  \A k \in StoredHeads(node) : node.heads[k].missing \notin RetainedHashes(node)

(* A head that waits for a parent knows which one: a block other than the    *)
(* genesis block names its parent.                                           *)
MissingNamed == \A k \in StoredHeads(node) : node.heads[k].missing # NoHash

(* No link into a free slot. *)
NoDanglingLink ==
  \A s \in Retained(node) :
    node.blocks[s].parent # NoRef => Occupied(node, node.blocks[s].parent)

WindowSum(s) ==
  SumVotes(node, {r \in Ancestry(node, s) : SeqAt(node, r) > SeqAt(node, node.tail)})

(* The incrementally kept values are the window sums they stand for, after   *)
(* any history of extensions, tail releases, deletions and evictions.        *)
BranchValueExact ==
  Ready => /\ node.value = WindowSum(node.active)
           /\ \A k \in Tracked(node) :
                node.blocks[node.heads[k].head].status = "Connected" =>
                  node.heads[k].value = WindowSum(node.heads[k].head)

(* The active chain ends at the snake-chain tail, is no longer than W, and   *)
(* nothing below the tail is retained.                                       *)
WindowExact ==
  Ready => /\ Last(Path(node, node.active)) = node.tail
           /\ SeqAt(node, node.active) - SeqAt(node, node.tail) < W
           /\ \A s \in Retained(node) : SeqAt(node, s) >= SeqAt(node, node.tail)

(* When the tail has moved, no fragment is left that can never connect: the  *)
(* parent it waits for would be at or below the new tail.                    *)
StaleReclaimed ==
  [][Ready' /\ (~Ready \/ SeqAt(node', node'.tail) > SeqAt(node, node.tail)) =>
       \A s \in Retained(node') :
         ConnectionIndex(node', Path(node', s)) = NoRef =>
           SeqAt(node', Last(Path(node', s))) > SeqAt(node', node'.tail) + 1]_vars

(* The block recorded as the source of the tentative configuration is one    *)
(* that is retained and carries it.                                          *)
TentativeSound ==
  node.tentative # NoRef =>
    /\ node.config = "Tentative"
    /\ Occupied(node, node.tentative)
    /\ Kind[HashAt(node, node.tentative)] = "ChainConfig"

(* With every read succeeding, a call leaves no Stored block above a judged  *)
(* one: all that could be judged has been.                                   *)
NoPendingWork ==
  Ready => \A s \in Retained(node) :
             ConnectionIndex(node, Path(node, s)) # NoRef => node.blocks[s].status # "Stored"

(* A block with evidence against it never gets on the active chain, and one  *)
(* Tier 2 refuses is never Connected, whichever path judged it: intake, the  *)
(* continuation, the side-branch driver, a pass or a restart.                *)
EvidenceExcluded ==
  Ready => \A s \in Retained(node) :
    LET b == node.blocks[s]
    IN  /\ b.status = "Active"    => b.hash \notin BadBlock \union BadVotes
        /\ b.status = "Connected" => b.hash \notin BadContext

(* The configuration is locked at most once in the life of a chain, through  *)
(* failed durable writes, crashes and restarts.                              *)
LockIrrevocable == [][durable # NoContent => durable' = durable]_vars

(* What the control plane holds is what a running node has locked, and a     *)
(* Ready node retains nothing the lock refuses: no other configuration it    *)
(* could have read, no block over the limit, on any branch.                  *)
LockEnforced ==
  /\ node.phase # "Down" /\ durable # NoContent =>
       node.config = "Locked" /\ node.content = durable
  /\ Ready => /\ durable # NoContent
              /\ \A s \in Retained(node) :
                   /\ ~Oversized(node, HashAt(node, s))
                   /\ Mismatches(node, HashAt(node, s)) => HashAt(node, s) \in Flaky

(* All that a node's RAM must agree on at once. *)
NodeSound ==
  /\ TypeOK /\ LinksExact /\ RefsExact /\ TipsTracked /\ RecoveryExact
  /\ StatusClosed /\ BranchValueExact /\ WindowExact /\ TentativeSound /\ EvidenceExcluded

(* A node that still collects holds no candidate that would pass: the call   *)
(* that completed one acquired it, past one candidate found bad.             *)
Acquired ==
  node.phase = "Collecting" /\ node.config # "None" =>
    \A k \in StoppingHeads(node) :
      \E s \in Ancestry(node, node.heads[k].head) :
        HashAt(node, s) \in BadBlock \union BadVotes \union Flaky

(* A Ready node always holds both ends of its active chain. *)
WindowHeld == Ready => HoldsWindow(node)

(* A node that still collects has a configuration whenever it retains a      *)
(* block that carries one: a restart at that moment would find it.           *)
NotStranded ==
  node.phase = "Collecting" /\ node.config = "None" => RestoreConfig(node, durable).config = "None"

(* The valued side heads a switch may go to. *)
SwitchHeads(t) ==
  {HashAt(t, t.heads[k].head) : k \in {j \in Tracked(t) :
     /\ t.heads[j].head # t.active
     /\ t.blocks[t.heads[j].head].status = "Connected"
     /\ AdmissibleTip(t, t.heads[j].head)
     /\ HigherRank(t.heads[j].value, HashAt(t, t.heads[j].head), t.value, HashAt(t, t.active))}}

(* A side head that has just become the better chain is reported by the very *)
(* call that made it so.                                                     *)
SwitchComplete ==
  [][Ready' /\ SwitchHeads(node') \ (IF Ready THEN SwitchHeads(node) ELSE {}) # {}
       => switch' \in SwitchHeads(node')]_vars

(* The node implements module SnakeChain: its chain is the active path while *)
(* Ready.                                                                    *)
ActiveHashes ==
  LET path == Path(node, node.active)
  IN  IF Ready THEN [i \in DOMAIN path |-> HashAt(node, path[Len(path) + 1 - i])] ELSE <<>>

(* The blocks a block descends from, itself last; a segment is the top of    *)
(* such a line.                                                              *)
Lineage[b \in Block] ==
  IF PrevHash[b] \in Block THEN Append(Lineage[PrevHash[b]], b) ELSE <<b>>

Lines ==
  UNION {{SubSeq(Lineage[b], i, Len(Lineage[b])) : i \in DOMAIN Lineage[b]} : b \in Block}

Snake == INSTANCE SnakeChain WITH chain <- ActiveHashes, epoch <- restarts, Segments <- Lines

ImplementsSnakeChain == Snake!Spec

(* A configuration block, once in the window, is not lost from it. *)
ConfigStays == Snake!ConfigStays

(* A restart whose reads succeed brings a Ready node back to Ready, with a   *)
(* head at least as high as the one it had.                                  *)
RestartResumes ==
  [][Ready /\ restarts' > restarts /\ Flaky = {} =>
       Ready' /\ SeqAt(node', node'.active) >= SeqAt(node, node.active)]_vars

(* Short of a restart the active chain only grows: it keeps its blocks above *)
(* the new tail, its tail never moves back, and Ready is never left.         *)
ForwardOnly ==
  [][Ready /\ restarts' = restarts =>
       /\ Ready' /\ Occupied(node', node'.tail) /\ Occupied(node', node'.active)
       /\ SeqAt(node', node'.tail) >= SeqAt(node, node.tail)
       /\ {HashAt(node, s) : s \in {r \in Ancestry(node, node.active) :
              SeqAt(node, r) >= SeqAt(node', node'.tail)}}
            \subseteq {HashAt(node', s) : s \in Ancestry(node', node'.active)}]_vars
=============================================================================
