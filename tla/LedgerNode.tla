----------------------------- MODULE LedgerNode -----------------------------
(***************************************************************************)
(* The per-block step of a Ready node, src/src/api.rs, effect by effect: the  *)
(* checks and effects of derive_block, the durable write that follows it,    *)
(* commit_block, and the inversion from whatever point the step fails at.    *)
(* The chain starts at its genesis block, so every projection is complete.   *)
(***************************************************************************)
EXTENDS Ledger, SequencesExt

CONSTANTS
  Universe,   \* the blocks that may arrive
  NoBlock     \* no block is being processed

ASSUME NodeAssumption == NoBlock \notin Universe

(* Only a block of transactions has effects; each is of a known kind, and    *)
(* transactions are numbered from one.                                       *)
ASSUME UniverseAssumption ==
  \A b \in Universe :
    /\ b.seq \in Nat
    /\ b.kind \in {"Transactions", "Balance", "ChainConfig", "Approval"}
    /\ Len(b.ops) \in Nat /\ DOMAIN b.ops = 1 .. Len(b.ops)
    /\ b.kind # "Transactions" => b.ops = <<>>
    /\ \A i \in DOMAIN b.ops : /\ b.ops[i].kind \in {"Transfer", "Register"} \union Complex
                               /\ b.ops[i].tx \in 1 .. Len(b.ops)

(* What a parsed effect holds: u64 amounts, u32 numbers.  Nobody holds the    *)
(* all-zero key, so nobody proves possession of it.                          *)
ParsedEffect(op) ==
  /\ op.kind \notin {"Register", "Close"} => op.amount \in Amount
  /\ op.kind \in {"Transfer", "Register"} => op.fee \in Amount
  /\ op.kind = "Register" => /\ op.price \in Amount /\ op.id \in Nat
                             /\ op.possession => op.key \in Key
  /\ op.kind = "UtxoIn" => op.seq \in Nat /\ op.index \in Nat
  /\ op.kind \in {"Transfer", "BalanceOut"} => op.to \in Nat

(* The effects of a block lie in the order of its transactions; a transfer   *)
(* and a registration are a transaction each.                                *)
InBlockOrder(b) ==
  \A i, j \in DOMAIN b.ops : i < j =>
    /\ b.ops[i].tx <= b.ops[j].tx
    /\ {b.ops[i].kind, b.ops[j].kind} \intersect {"Transfer", "Register"} # {} =>
         b.ops[i].tx # b.ops[j].tx

(* Every complex transaction is closed, once.                                *)
EachClosed(b) ==
  \A i \in OpsOf(b, Complex) :
    \E j \in OpsOf(b, {"Close"}) :
      \A k \in OpsOf(b, {"Close"}) : b.ops[k].tx = b.ops[i].tx <=> k = j

ASSUME ParsedAssumption ==
  \A b \in Universe :
    /\ b.mined \in Amount
    /\ \A i \in DOMAIN b.ops : ParsedEffect(b.ops[i])
    /\ InBlockOrder(b) /\ EachClosed(b)

(* The rest of a parsed block: u32 node numbers, and balance entries in a row. *)
ASSUME HeaderAssumption ==
  \A b \in Universe :
    /\ b.firstVoted \in Nat
    /\ \A i \in OpsOf(b, {"Transfer", "Register", "BalanceIn"}) : b.ops[i].vote \in Nat
    /\ b.kind = "Balance" =>
         Len(b.entries) \in Nat /\ DOMAIN b.entries = 1 .. Len(b.entries)

Registrations(b) == OpsOf(b, {"Register"})

(* A genesis block registers node 0 and nobody else, as process_genesis      *)
(* builds it.  The derivation does not check that: any other would leave the *)
(* watermark behind the roster.  The theorems that need it say so.           *)
GenesisForm ==
  \A b \in Universe : b.seq = 0 => \E i \in DOMAIN b.ops : Registrations(b) = {i} /\ b.ops[i].id = 0

(* It creates the currency by transfers to node 0, which follow the          *)
(* registration; a transfer to a node that is not derived would be lost.     *)
GenesisFunds ==
  \A b \in Universe :
    b.seq = 0 => \A i \in OpsOf(b, {"Transfer"}) :
                   b.ops[i].to = 0 /\ \E j \in Registrations(b) : j < i

(* A balance block lists somebody.  The derivation does not check that       *)
(* either: it accepts an empty one.                                          *)
ListsSome == \A b \in Universe : b.kind = "Balance" => b.entries # <<>>

VARIABLES
  led,        \* node_info and the available-UTXO bits
  chain,      \* every block committed so far; the element of index i has sequence i - 1
  tail,       \* the sequence of the snake-chain tail
  phase,      \* where the step stands: "Idle", "Apply", "Derived" or "Undo"
  block,      \* the block being processed
  done,       \* the effects of it that stand
  fees, outs, \* what they summed: the creator's fees, the outputs created
  base        \* (history) the ledger before the step

call == <<phase, block, done, fees, outs, base>>
vars == <<led, chain, tail, call>>

Init ==
  /\ led = EmptyLedger /\ base = EmptyLedger
  /\ chain = <<>> /\ tail = 0
  /\ phase = "Idle" /\ block = NoBlock
  /\ done = {} /\ fees = 0 /\ outs = 0

BlockAt(c, q) == c[q + 1]

(* The amount the block at q gives its i-th output. *)
OutputAmount(c, q, i) ==
  LET outputs == OpsOf(BlockAt(c, q), {"UtxoOut"})
      nth     == {j \in outputs : Cardinality({k \in outputs : k <= j}) = i}
  IN  BlockAt(c, q).ops[Min(nth)].amount

Amounts(l, c) == [u \in l.unspent |-> OutputAmount(c, u[1], u[2])]

Full == Len(chain) - tail >= W

(* A block that extends the head: what is refused before any effect of it is *)
(* applied leaves no trace and is no step.                                   *)
Begin(b) ==
  /\ phase = "Idle"
  /\ b.seq = Len(chain)
  /\ Tier1Gate(b)
  /\ Full => TailDropAllowed(led, BlockAt(chain, tail).kind, tail, b)
  /\ BlockAdmitted(led, Complete, b)
  /\ phase' = "Apply" /\ block' = b /\ base' = led
  /\ UNCHANGED <<led, chain, tail, done, fees, outs>>

Position == Cardinality(done) + 1

Current == block.ops[Position]

CurrentAdmitted ==
  Admitted(led, Complete, block, Current, fees, outs, tail, Amounts(led, chain))

Apply ==
  /\ phase = "Apply" /\ Position \in DOMAIN block.ops
  /\ CurrentAdmitted
  /\ led' = Applied(led, block, Current)
  /\ fees' = fees + FeeOf(led, block, Current)
  /\ outs' = outs + OutputsOf(Current)
  /\ done' = done \union {Position}
  /\ UNCHANGED <<chain, tail, phase, block, base>>

(* The step fails and its effects are to be inverted. *)
Fail == phase' = "Undo" /\ UNCHANGED <<led, chain, tail, block, done, fees, outs, base>>

(* Evidence against an effect, or a failed read of the block an input names. *)
Refuse ==
  /\ phase = "Apply" /\ Position \in DOMAIN block.ops
  /\ ~CurrentAdmitted \/ Current.kind = "UtxoIn"
  /\ Fail

RefuseEnd ==
  /\ phase = "Apply" /\ Position \notin DOMAIN block.ops
  /\ ~EndAdmitted(led, block, fees)
  /\ Fail

Derive ==
  /\ phase = "Apply" /\ Position \notin DOMAIN block.ops
  /\ EndAdmitted(led, block, fees)
  /\ phase' = "Derived"
  /\ UNCHANGED <<led, chain, tail, block, done, fees, outs, base>>

(* The durable write fails, or the vote engine refuses to apply the block. *)
SaveFails   == phase = "Derived" /\ Fail
VotesRefuse == phase = "Derived" /\ ~block.applies /\ Fail

Finish == phase' = "Idle" /\ block' = NoBlock /\ done' = {} /\ fees' = 0 /\ outs' = 0

(* The vote engine applies the block; the commit tail; the window follows.   *)
Commit ==
  /\ phase = "Derived" /\ block.applies
  /\ led' = IF Full THEN TailReleased(Committed(led, block, fees), tail)
            ELSE Committed(led, block, fees)
  /\ chain' = Append(chain, block)
  /\ tail' = IF Full THEN tail + 1 ELSE tail
  /\ base' = led'
  /\ Finish

Undo ==
  /\ phase = "Undo" /\ done # {}
  /\ led' = Undone(led, block, block.ops[NextUndone(block, done)], tail)
  /\ done' = done \ {NextUndone(block, done)}
  /\ UNCHANGED <<chain, tail, phase, block, fees, outs, base>>

Abandon ==
  /\ phase = "Undo" /\ done = {}
  /\ Finish
  /\ UNCHANGED <<led, chain, tail, base>>

Next ==
  \/ \E b \in Universe : Begin(b)
  \/ Apply \/ Refuse \/ RefuseEnd \/ Derive \/ SaveFails \/ VotesRefuse
  \/ Commit \/ Undo \/ Abandon

Spec == Init /\ [][Next]_vars
=============================================================================
