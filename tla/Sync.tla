-------------------------------- MODULE Sync --------------------------------
(***************************************************************************)
(* A node that joins and recovers with its peers: blocks arrive by gossip    *)
(* in any order, and the parent-recovery requests of on_tick are answered.   *)
(* When a request goes out is the subject of modules Recovery and            *)
(* RecoveryBridge, which show every waiting head to be asked for within a    *)
(* bounded time; here a request is the missing hash a waiting head caches.   *)
(* Peers hold every block.                                                   *)
(***************************************************************************)
EXTENDS NodeProperties

(* The parent some waiting head asks its peers for. *)
Requested(b) == \E k \in StoredHeads(node) : node.heads[k].missing = b

(* An arrival that leaves every tip entry with its right missing parent: not *)
(* a fork inside a fragment that waits for its parent, and not the block     *)
(* between two such fragments.                                               *)
Orderly(b) ==
  LET p == FindParent(node, b)
  IN  p # NoRef /\ ConnectionIndex(node, Path(node, p)) = NoRef =>
        HeadOf(node, p) # NoRef /\ ~Requested(b)

Gossip(b) ==
  \E unread \in SUBSET Flaky, lockFails \in LockOutcomes :
    Orderly(b) /\ ReceiveBlock(b, unread, lockFails)

OrderlyNext == Restart \/ \E b \in Block : Gossip(b)

OrderlySpec == Init /\ [][OrderlyNext]_vars

(* The blocks peers keep and hand out: the parents that stood their test. *)
Kept == {PrevHash[b] : b \in Block} \ (BadBlock \union BadVotes \union {NoHash})

(* An answer with block b can be taken in now, and is. *)
Awaited(b) ==
  /\ Requested(b) /\ Orderly(b) /\ Admissible(node, b) /\ NextFree(node) # NoRef

Answered(b) == Awaited(b) /\ store'[NextFree(node)] = b

(* Every request for a block that peers keep is answered in the end; gossip  *)
(* owes nothing.  This is weak fairness of the arrival of b as an answer,    *)
(* whose guard is Awaited(b).                                                *)
AnswersArrive == \A b \in Kept : []<>~Awaited(b) \/ []<><<Answered(b)>>_vars

AnsweredSpec == OrderlySpec /\ AnswersArrive

-----------------------------------------------------------------------------
(* What the node refuses whenever it comes. *)
Unwelcome(b) == b \in BadBlock \/ ~LockAdmits(node, b) \/ ~InWindow(node, b)

(* In the end a fragment waits only for blocks the node refuses: every other *)
(* one is connected to its root, ancestor by ancestor, or dropped with       *)
(* evidence; no head waits for a block nobody is asked for.                  *)
CatchesUp ==
  <>[](\A k \in StoredHeads(node) :
         \E b \in Range(Lineage[HashAt(node, node.heads[k].head)]) \ RetainedHashes(node) :
           Unwelcome(b))
=============================================================================
