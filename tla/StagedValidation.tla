-------------------------- MODULE StagedValidation --------------------------
(***************************************************************************)
(* The Tier 1 gate of src/src/staged_validation.rs: what a block's own bytes  *)
(* must satisfy before anything is stored, derived or judged.                *)
(*                                                                           *)
(* A block is a record; its fields are the header's (seq, creator, mined,    *)
(* firstVoted, consumed, consumedFirst), size, the key that signed it        *)
(* (signer), kind, and by kind                                               *)
(*   ops       the effects of its transactions in block order                *)
(*   entries   a balance block's node entries, with its maxNode              *)
(*   content   a configuration block's content, sealed by contentSigner.     *)
(* An effect is a record tagged with its transaction's number tx and kind:   *)
(* "Transfer" and "Register" are whole transactions; a complex one is its    *)
(* "BalanceIn" and "UtxoIn" inputs, then its "BalanceOut" and "UtxoOut"      *)
(* outputs, then "Close", where its fee is taken.                            *)
(***************************************************************************)
EXTENDS Integers, Sequences, FiniteSets, FiniteSetsExt

CONSTANTS
  AmountBound,   \* 2^64, the bound of an amount
  LastSeq,       \* u32::MAX
  SizeLimit,     \* block_size_limit as far as it may be enforced
  MaxOutputs,    \* max_utxo_outputs
  Anchor         \* node_zero_public_key

ASSUME GateAssumption ==
  /\ AmountBound \in Nat \ {0} /\ LastSeq \in Nat
  /\ SizeLimit \in Nat /\ MaxOutputs \in Nat

Amount == 0 .. AmountBound - 1

OpsOf(b, kinds) == {i \in DOMAIN b.ops : b.ops[i].kind \in kinds}

Inputs  == {"BalanceIn", "UtxoIn"}
Outputs == {"BalanceOut", "UtxoOut"}
Complex == Inputs \union Outputs \union {"Close"}

(* The declared inputs or outputs of the complex transaction tx. *)
Side(b, tx, kinds) == {i \in OpsOf(b, kinds) : b.ops[i].tx = tx}

Total(b, tx, kinds) == MapThenSumSet(LAMBDA i : b.ops[i].amount, Side(b, tx, kinds))

ComplexTxs(b) == {b.ops[i].tx : i \in OpsOf(b, {"Close"})}

CarryForward(b, tx) == Side(b, tx, Inputs) = {}

(* The form a correct vote header has, whatever the branch. *)
VoteForm(b) ==
  IF b.firstVoted = b.creator THEN b.consumedFirst = 0 ELSE b.consumed <= b.consumedFirst

(* Node 0 may vote for itself for ever, any node in the genesis block. *)
NoSelfVote(b, op) == b.seq = 0 \/ op.node # op.vote \/ op.node = 0

AnchoredBefore(b, op) == b.seq = 0 \/ op.anchor < b.seq

OpGate(b, op) ==
  /\ op.kind \in {"Transfer", "BalanceIn"} => AnchoredBefore(b, op)
  /\ op.kind \in {"Transfer", "Register", "BalanceIn"} => NoSelfVote(b, op)
  /\ op.kind = "Register" => /\ op.id = 0 => op.key = Anchor
                             /\ op.possession
  /\ op.kind = "UtxoIn" => op.seq < b.seq

(* A transaction without inputs carries outputs forward and is exempt. *)
ComplexGate(b, tx) ==
  /\ Total(b, tx, Inputs) < AmountBound
  /\ Total(b, tx, Outputs) < AmountBound
  /\ CarryForward(b, tx) \/ Total(b, tx, Inputs) >= Total(b, tx, Outputs)

(* Mutant: registrations and complex transactions may share a block. *)
MixedGate(b) ==
  /\ \A i \in DOMAIN b.ops : OpGate(b, b.ops[i])
  /\ \A tx \in ComplexTxs(b) : ComplexGate(b, tx)
  /\ Cardinality(OpsOf(b, {"UtxoOut"})) <= MaxOutputs

TransactionGate(b) ==
  /\ \A i \in DOMAIN b.ops : OpGate(b, b.ops[i])
  /\ \A tx \in ComplexTxs(b) : ComplexGate(b, tx)
  /\ OpsOf(b, {"Register"}) = {} \/ OpsOf(b, Complex) = {}
  /\ Cardinality(OpsOf(b, {"UtxoOut"})) <= MaxOutputs

BalanceGate(b) == \A i \in DOMAIN b.entries : b.entries[i].node = 0 => b.entries[i].key = Anchor

(* The content is sealed by node 0, whoever made the block. *)
ConfigGate(b) == b.contentSigner = Anchor

(* Approval evidence has no check of its own yet. *)
Tier1Gate(b) ==
  /\ b.seq # LastSeq
  /\ b.size <= SizeLimit
  /\ VoteForm(b)
  /\ b.kind = "Transactions" => TransactionGate(b)
  /\ b.kind = "Balance"      => BalanceGate(b)
  /\ b.kind = "ChainConfig"  => ConfigGate(b)
=============================================================================
