----------------------------- MODULE BlockTable -----------------------------
(***************************************************************************)
(* The bounded block tree of src/src/blocks.rs: a fixed table of slots, each  *)
(* free or holding one retained block with a link to its parent's slot, its  *)
(* branch count, its validation status and its active-chain flag.            *)
(*                                                                           *)
(* The operators are functions of a node record t (its fields are listed in  *)
(* module Node); they read and update t.blocks only.  Two numbers identify    *)
(* a block, as in the code: its slot (an index that is reused after a        *)
(* deletion) and its hash.  A hash is a positive integer, so that the        *)
(* big-endian order of hashes is the order of integers.                      *)
(***************************************************************************)
EXTENDS Integers, Sequences, FiniteSets, FiniteSetsExt, SequencesExt

CONSTANTS
  Block,      \* hashes of the blocks peers may send
  BlockSeq,   \* BlockSeq[b]: the sequence number in b's header
  PrevHash,   \* PrevHash[b]: the previous_hash in b's header
  MaxBlocks   \* MAX_BLOCKS, the number of slots

NoHash == 0
NoRef  == 0
Slot   == 1 .. MaxBlocks

Ref    == Slot \union {NoRef}

InSlotOrder == [s \in Slot |-> s]

ASSUME BlockAssumption ==
  /\ Block \subseteq Nat \ {NoHash}
  /\ BlockSeq \in [Block -> Nat]
  /\ PrevHash \in [Block -> Nat]
  /\ MaxBlocks \in Nat \ {0}

Statuses == {"Stored", "Connected", "Active"}

BlockEntry ==
  [hash : Block \union {NoHash}, parent : Ref, refs : Nat, status : Statuses, onActive : BOOLEAN]

FreeSlot ==
  [hash |-> NoHash, parent |-> NoRef, refs |-> 0, status |-> "Stored", onActive |-> FALSE]

Retained(t) == {s \in Slot : t.blocks[s].hash # NoHash}

Occupied(t, s) == s \in Slot /\ t.blocks[s].hash # NoHash

SeqAt(t, s) == BlockSeq[t.blocks[s].hash]

RetainedHashes(t) == {t.blocks[s].hash : s \in Retained(t)}

LowestOf(S) == IF S = {} THEN NoRef ELSE Min(S)

Monus(a, b) == IF a > b THEN a - b ELSE 0

(* The slot holding the block with this hash and sequence, NoRef if none. *)
Find(t, q, h) ==
  LowestOf({s \in Retained(t) : t.blocks[s].hash = h /\ SeqAt(t, s) = q})

(* A genesis block (sequence 0) has no parent to look for. *)
FindParent(t, b) ==
  IF BlockSeq[b] = 0 THEN NoRef ELSE Find(t, BlockSeq[b] - 1, PrevHash[b])

NextFree(t) == LowestOf(Slot \ Retained(t))

Children(t, s) == {c \in Retained(t) : t.blocks[c].parent = s}

Up(t, s) == IF Occupied(t, s) THEN t.blocks[s].parent ELSE NoRef

(* The ancestry of slot s, s first, up to the last retained block on it: the *)
(* shape of every bounded parent_ref walk in the code.                       *)
Path(t, s) ==
  LET walk[p \in Seq(Ref)] ==
        IF Len(p) < MaxBlocks /\ Occupied(t, Up(t, Last(p)))
        THEN walk[Append(p, Up(t, Last(p)))] ELSE p
  IN  walk[<<s>>]

Ancestry(t, s) == Range(Path(t, s))

(* Index in a path of its first block on the active chain, 0 if none is. *)
ConnectionIndex(t, path) == LowestOf({i \in DOMAIN path : t.blocks[path[i]].onActive})

(* Mutant: the blocks above the root are left. *)
MarkRoot(t, root) == IF Occupied(t, root) THEN {root} ELSE {}

(* The child-closed set rooted at a slot; empty for a free root. *)
MarkSubtree(t, root) ==
  IF Occupied(t, root) THEN {s \in Retained(t) : root \in Ancestry(t, s)} ELSE {}

AdjustRefs(t, s, delta) ==
  IF Occupied(t, s)
  THEN [t EXCEPT !.blocks[s].refs = IF delta < 0 THEN Monus(@, -delta) ELSE @ + delta]
  ELSE t

SetParent(t, s, p) == [t EXCEPT !.blocks[s].parent = p]

SetStatus(t, S, st) ==
  [t EXCEPT !.blocks = [s \in Slot |->
     IF s \in S /\ Occupied(t, s) THEN [@[s] EXCEPT !.status = st] ELSE @[s]]]

SetOnActive(t, S, flag) ==
  [t EXCEPT !.blocks = [s \in Slot |->
     IF s \in S /\ Occupied(t, s) THEN [@[s] EXCEPT !.onActive = flag] ELSE @[s]]]

DeleteBlocks(t, S) ==
  [t EXCEPT !.blocks = [s \in Slot |-> IF s \in S THEN FreeSlot ELSE @[s]]]

(* A block is written to its slot Stored, with no edge counted yet. *)
InsertBlock(t, s, b, p, active) ==
  [t EXCEPT !.blocks[s] = [FreeSlot EXCEPT !.hash = b, !.parent = p, !.onActive = active]]
=============================================================================
