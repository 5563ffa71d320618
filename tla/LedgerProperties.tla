-------------------------- MODULE LedgerProperties --------------------------
(***************************************************************************)
(* What makes the ledger of module LedgerNode correct, with the processing   *)
(* pass of src/src/api.rs, which derives the same ledger from any part of the *)
(* chain.                                                                    *)
(***************************************************************************)
EXTENDS LedgerNode

-----------------------------------------------------------------------------
(* run_processing_pass over the blocks of a segment, lowest first. *)

Balances(seg) == {i \in DOMAIN seg : seg[i].kind = "Balance"}

(* Mutant: without the look ahead the first blocks are bounded by zero. *)
NoFloor(seg) == EmptyLedger

(* The floor of a segment without the genesis block: the earliest balance    *)
(* block says how many nodes there are.                                      *)
FloorLedger(seg) ==
  IF seg[1].seq = 0 \/ Balances(seg) = {} THEN EmptyLedger
  ELSE [EmptyLedger EXCEPT !.watermark = seg[Min(Balances(seg))].maxNode]

Projection(seg) ==
  [complete |-> seg[1].seq = 0, bounded |-> seg[1].seq = 0 \/ Balances(seg) # {}, saw |-> FALSE]

PassEffect(r, p, b, op, anchor, value) ==
  IF ~r.ok \/ ~Admitted(r.l, p, b, op, r.fees, r.outs, anchor, value) THEN [r EXCEPT !.ok = FALSE]
  ELSE [ok |-> TRUE, l |-> Applied(r.l, b, op), fees |-> r.fees + FeeOf(r.l, b, op),
        outs |-> r.outs + OutputsOf(op)]

PassEffects(l, p, b, anchor, c) ==
  FoldLeft(LAMBDA r, op : PassEffect(r, p, b, op, anchor, Amounts(r.l, c)),
           [ok |-> TRUE, l |-> FloorSeeded(l, p, b), fees |-> 0, outs |-> 0], b.ops)

PassEnd(r, p, b) ==
  IF r.ok /\ EndAdmitted(r.l, b, r.fees) /\ b.applies
  THEN [ok |-> TRUE, l |-> Committed(r.l, b, r.fees),
        p |-> [p EXCEPT !.saw = @ \/ b.kind = "Balance"]]
  ELSE [ok |-> FALSE, l |-> r.l, p |-> p]

PassBlock(r, b, anchor, c) ==
  IF r.ok /\ BlockAdmitted(r.l, r.p, b)
  THEN PassEnd(PassEffects(r.l, r.p, b, anchor, c), r.p, b)
  ELSE [r EXCEPT !.ok = FALSE]

PassFrom(seg, floor) ==
  FoldLeft(LAMBDA r, b : PassBlock(r, b, seg[1].seq, chain),
           [ok |-> TRUE, l |-> floor, p |-> Projection(seg)], seg)

Pass(seg) == PassFrom(seg, FloorLedger(seg))

(* The read of the floor fails, and the walk goes on without a word. *)
PassUnread(seg) == PassFrom(seg, EmptyLedger)

-----------------------------------------------------------------------------
(* Properties. *)

(* The shape of the state: above all, every balance is an amount.            *)
TypeOK ==
  /\ \A l \in {led, base} :
       /\ l.key \in [NodeSlot -> Key \union {NoKey}]
       /\ l.balance \in [NodeSlot -> Amount]
       /\ l.source \in [NodeSlot -> Nat \union {Unseeded, Released}]
       /\ l.watermark \in Nat
       /\ l.unspent \subseteq Nat \X Nat
  /\ chain \in Seq(Universe) /\ tail \in Nat
  /\ phase \in {"Idle", "Apply", "Derived", "Undo"} /\ block \in Universe \union {NoBlock}
  /\ block # NoBlock => done \subseteq DOMAIN block.ops
  /\ fees \in Amount /\ outs \in 0 .. MaxOutputs

(* The inversion of a failed step restores the ledger exactly, from every    *)
(* point of failure, though complex transactions are inverted in another     *)
(* order than they were applied in and balances wrap on the way.             *)
InverseExact == phase = "Undo" /\ done = {} => led = base

(* The nodes of the roster are exactly those up to the watermark, each with  *)
(* a key of its own; node 0 holds the trust anchor.                          *)
RosterExact ==
  chain # <<>> =>
    /\ \A n \in NodeSlot : (n <= led.watermark) = Seeded(led, n)
    /\ \A m, n \in NodeSlot : Seeded(led, m) /\ led.key[m] = led.key[n] => m = n
    /\ led.key[0] = Anchor

Spends(q) == {<<op.seq, op.index>> : op \in {BlockAt(chain, q).ops[i] : i \in OpsOf(BlockAt(chain, q), {"UtxoIn"})}}

OutputIds(q) == {<<q, i>> : i \in 1 .. Cardinality(OpsOf(BlockAt(chain, q), {"UtxoOut"}))}

Sequences0 == 0 .. Len(chain) - 1

(* Between calls the bits say what the chain says: the outputs of the        *)
(* window that no later block spent; and no output is spent twice or before  *)
(* it exists.                                                                *)
UnspentExact ==
  phase = "Idle" =>
    /\ led.unspent = (UNION {OutputIds(q) : q \in tail .. Len(chain) - 1})
                       \ (UNION {Spends(q) : q \in Sequences0})
    /\ \A q \in Sequences0 :
         /\ Cardinality(Spends(q)) = Cardinality(OpsOf(BlockAt(chain, q), {"UtxoIn"}))
         /\ \A r \in Sequences0 \ {q} : Spends(q) \intersect Spends(r) = {}
         /\ Spends(q) \subseteq UNION {OutputIds(r) : r \in 0 .. q - 1}

Holdings(l, c) == SumFunction(l.balance) + SumFunction(Amounts(l, c))

CarriedForward(b) ==
  SumFunction([tx \in {t \in ComplexTxs(b) : CarryForward(b, t)} |-> Total(b, tx, Outputs)])

(* Value from nowhere: mining, the genesis transfers, outputs carried        *)
(* forward.  Value to nowhere: registration prices, the fees of block 1, and *)
(* the outputs that leave with the tail.                                     *)
Created(b) ==
  CarriedForward(b) + (IF b.seq > 1 THEN b.mined ELSE 0)
    + (IF b.seq = 0 THEN SumFunction([i \in OpsOf(b, {"Transfer"}) |-> b.ops[i].amount]) ELSE 0)

Destroyed(b) ==
  (IF b.seq = 0 THEN 0 ELSE SumFunction([i \in OpsOf(b, {"Register"}) |-> b.ops[i].price]))
    + (IF b.seq # 1 THEN 0
       ELSE SumFunction([i \in OpsOf(b, {"Transfer", "Register"}) |-> b.ops[i].fee])
              + SumFunction([tx \in ComplexTxs(b) |-> Surplus(b, tx)]))

LeavesWithTail ==
  SumFunction([u \in {v \in led.unspent : v[1] < tail'} |-> OutputAmount(chain', u[1], u[2])])

(* Every block keeps the sum of all balances and unspent outputs, but for    *)
(* what it openly creates or destroys.                                       *)
ValueConserved ==
  [][chain' # chain =>
       Holdings(led', chain') + Destroyed(block) + LeavesWithTail
         = Holdings(base, chain) + Created(block)]_vars

(* A block owes at most one thing when it drops off the tail, so that the    *)
(* first obligation in the code's order is the only one.                     *)
OneObligation ==
  phase = "Idle" =>
    \A q \in tail .. Len(chain) - 1 : Cardinality(Obligations(led, BlockAt(chain, q).kind, q)) <= 1

(* Nothing unspent leaves the window unless the block that pushes it out     *)
(* carries outputs forward, and no roster entry loses its source unless that *)
(* block restates balances.                                                  *)
DropStep ==
  tail' # tail =>
    /\ {u \in led.unspent : u[1] < tail'} # {} => \E tx \in ComplexTxs(block) : CarryForward(block, tx)
    /\ (\E n \in NodeSlot : led'.source[n] = Released /\ led.source[n] # Released)
         => block.kind = "Balance"

(* Every drop off the tail is a restated one.                                *)
DropsRestated == [][DropStep]_vars

Trimmed(l) ==
  [l EXCEPT !.source  = [n \in NodeSlot |-> IF @[n] \in Nat /\ @[n] < tail THEN Released ELSE @[n]],
            !.unspent = {u \in @ : u[1] >= tail}]

(* What agreement of the ledger r of a node that joined at the a-th block    *)
(* means: it accepted the segment, and agrees about every node it has learnt *)
(* of and every output in its part.                                          *)
AgreesFrom(a, r) ==
  /\ r.ok
  /\ a = 1 \/ Balances(SubSeq(chain, a, Len(chain))) # {} => r.l.watermark = led.watermark
  /\ Trimmed(r.l).unspent = {u \in led.unspent : u[1] >= a - 1}
  /\ \A n \in NodeSlot : IF Seeded(r.l, n)
                         THEN /\ r.l.key[n] = led.key[n] /\ r.l.balance[n] = led.balance[n]
                              /\ Trimmed(r.l).source[n] = led.source[n]
                         ELSE a # 1 \/ ~Seeded(led, n)

(* The segments the acquisition takes for a candidate.                       *)
Joinable == {a \in DOMAIN chain : a = 1 \/ Len(chain) - a + 1 >= W}

(* A node that joins late, or restarts, and derives a segment accepts what   *)
(* was accepted block by block, and ends with the ledger of a node that has  *)
(* followed the whole chain, as far as the segment tells.                    *)
JoinerAgrees ==
  phase = "Idle" => \A a \in Joinable : AgreesFrom(a, Pass(SubSeq(chain, a, Len(chain))))

(* A segment with no balance block says nothing of how many nodes there are, *)
(* so no reference to a node is bounded in it: it is accepted as it was.     *)
UnboundedTrusted ==
  phase = "Idle" =>
    \A a \in Joinable \ {1} :
      LET seg == SubSeq(chain, a, Len(chain)) IN Balances(seg) = {} => Pass(seg).ok

(* A failed read is no evidence: without the floor of a segment the pass     *)
(* still refuses no block that it accepts with it.                           *)
FloorReadHarmless ==
  phase = "Idle" =>
    \A a \in Joinable \ {1} :
      LET seg == SubSeq(chain, a, Len(chain)) IN Pass(seg).ok => PassUnread(seg).ok

(* Mutant: every key the active chain knows is taken for every branch's. *)
AnyKnownKey(l, n) == Seeded(l, n)

(* key_is_branch_independent. *)
KeyBranchIndependent(l, n) ==
  \/ n = 0
  \/ n \in NodeSlot /\ (l.source[n] = Released \/ l.source[n] \in 0 .. tail)

(* The early signature check of a Ready node judges by the active chain's    *)
(* key; it does so only for a creator whose key every branch that can        *)
(* connect, all of them rooted at or above the tail, shares.                 *)
EarlyKeySound ==
  phase = "Idle" /\ chain # <<>> =>
    \A n \in NodeSlot \ {0} :
      KeyBranchIndependent(led, n) => Pass(SubSeq(chain, 1, tail + 1)).l.key[n] = led.key[n]

(* Mutant: the output must be unspent on the active chain. *)
Tier2Unspent(b, low) ==
  \A i \in OpsOf(b, {"UtxoIn"}) :
    b.ops[i].seq >= low => <<b.ops[i].seq, b.ops[i].index>> \in led.unspent

(* tier2_check of a block on the ancestors from sequence low up. *)
Tier2Admitted(b, low) ==
  \A i \in OpsOf(b, {"UtxoIn"}) :
    LET op == b.ops[i]
    IN  /\ op.seq < b.seq /\ b.seq - op.seq <= W
        /\ op.seq >= low =>
             /\ op.index <= Cardinality(OpsOf(BlockAt(chain, op.seq), {"UtxoOut"}))
             /\ OutputAmount(chain, op.seq, op.index) = op.amount

(* Tier 2, which judges a side block without the state of its branch and     *)
(* whatever the window has become, never refuses a block a full derivation   *)
(* accepts.                                                                  *)
Tier2Sound ==
  phase = "Idle" => \A q \in tail + 1 .. Len(chain) - 1 : Tier2Admitted(BlockAt(chain, q), tail)
=============================================================================
