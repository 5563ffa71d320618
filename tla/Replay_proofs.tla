--------------------------- MODULE Replay_proofs ---------------------------
(***************************************************************************)
(* Proof that a node that joins late derives from its part of the chain what *)
(* a node has that followed it from the genesis block.  Both are compared    *)
(* with a history: the ledgers of a replay of the whole chain that drops      *)
(* nothing off the tail.                                                     *)
(***************************************************************************)
EXTENDS Ledger_proofs

-----------------------------------------------------------------------------
(* The replay.  A run is the state of a block's step after each effect.      *)

RunState == [ok : {TRUE}, l : LedgerState, fees : Amount, outs : 0 .. MaxOutputs]

Started(l) == [ok |-> TRUE, l |-> l, fees |-> 0, outs |-> 0]

Stepped(r, b, op) ==
  [ok |-> TRUE, l |-> Applied(r.l, b, op), fees |-> r.fees + FeeOf(r.l, b, op),
   outs |-> r.outs + OutputsOf(op)]

Run(h, k, l, b) ==
  /\ h \in [0 .. k -> RunState] /\ h[0] = Started(l)
  /\ \A i \in 1 .. k :
       /\ \E value : Admitted(h[i - 1].l, Complete, b, b.ops[i], h[i - 1].fees, h[i - 1].outs, 0, value)
       /\ h[i] = Stepped(h[i - 1], b, b.ops[i])

(* The block b is accepted on the ledger l and leaves m. *)
Derives(l, b, m) ==
  /\ BlockAdmitted(l, Complete, b) /\ b.applies
  /\ \E h : LET end == h[Len(b.ops)]
            IN  /\ Run(h, Len(b.ops), l, b)
                /\ EndAdmitted(end.l, b, end.fees)
                /\ m = Committed(end.l, b, end.fees)

(* R[k] is the ledger after the first k blocks of c. *)
Replays(R, c) ==
  /\ R[0] = EmptyLedger
  /\ \A k \in 1 .. Len(c) : Derives(R[k - 1], c[k], R[k]) /\ R[k] \in LedgerState /\ Roster(R[k])

(* l is t without what has left the window from low on. *)
Trim(s, low) == IF s \in Nat /\ s < low THEN Released ELSE s

Twin(l, t, low) ==
  /\ l \in LedgerState /\ t \in LedgerState
  /\ l.key = t.key /\ l.balance = t.balance /\ l.watermark = t.watermark
  /\ \A n \in NodeSlot : l.source[n] = Trim(t.source[n], low) /\ t.source[n] # Released
  /\ l.unspent = {u \in t.unspent : u[1] >= low}

-----------------------------------------------------------------------------
(* What the window has dropped is of no consequence to a step.               *)

LEMMA TwinAlike ==
  ASSUME NEW l, NEW t, NEW low, Twin(l, t, low)
  PROVE  /\ \A n : Seeded(l, n) = Seeded(t, n) /\ BalanceOf(l, n) = BalanceOf(t, n)
         /\ \A n : InRange(l, n) = InRange(t, n) /\ CreatorKey(l, n) = CreatorKey(t, n)
         /\ \A b, n : Pays(l, b, n) = Pays(t, b, n)
         /\ \A k : KeyRegistered(l, k) = KeyRegistered(t, k)
         /\ \A n, x : Fits(l, n, x) = Fits(t, n, x)
         /\ l.unspent \subseteq t.unspent
<1>1. \A n : Seeded(l, n) = Seeded(t, n)
  BY DEF Twin, Seeded, Trim, Released, Unseeded
<1>2. l.key = t.key /\ l.balance = t.balance /\ l.watermark = t.watermark /\ l.unspent \subseteq t.unspent
  BY DEF Twin
<1>3. \A n : BalanceOf(l, n) = BalanceOf(t, n) /\ InRange(l, n) = InRange(t, n)
               /\ CreatorKey(l, n) = CreatorKey(t, n)
  BY <1>2 DEF BalanceOf, InRange, CreatorKey
<1>4. \A b, n : Pays(l, b, n) = Pays(t, b, n)
  BY <1>1 DEF Pays
<1>5. \A k : KeyRegistered(l, k) = KeyRegistered(t, k)
  BY <1>1, <1>2 DEF KeyRegistered
<1>6. \A n, x : Fits(l, n, x) = Fits(t, n, x)
  BY <1>1, <1>3 DEF Fits
<1>7. QED
  BY <1>1, <1>2, <1>3, <1>4, <1>5, <1>6

LEMMA TwinAdmits ==
  ASSUME NEW l, NEW t, NEW low, Twin(l, t, low), NEW b, NEW op, NEW x, NEW o, NEW value,
         op.kind \in {"Transfer", "Register"} \union Complex, op.kind = "UtxoIn" => op.seq \in Nat,
         Admitted(l, Complete, b, op, x, o, low, value)
  PROVE  Admitted(t, Complete, b, op, x, o, 0, value)
<1>1. /\ \A n : Seeded(l, n) = Seeded(t, n) /\ BalanceOf(l, n) = BalanceOf(t, n)
      /\ \A n : InRange(l, n) = InRange(t, n)
      /\ \A n : Pays(l, b, n) = Pays(t, b, n)
      /\ \A k : KeyRegistered(l, k) = KeyRegistered(t, k)
      /\ \A n, y : Fits(l, n, y) = Fits(t, n, y)
      /\ l.unspent \subseteq t.unspent
  BY TwinAlike
<1>2. l.key = t.key /\ l.watermark = t.watermark
  BY DEF Twin
<1>3. /\ MayAct(l, Complete, b, op) = MayAct(t, Complete, b, op)
      /\ Signed(l, b, op) = Signed(t, b, op)
      /\ \A n : CanReceive(l, Complete, b, n) = CanReceive(t, Complete, b, n)
      /\ \A n, y : Affords(l, b, n, y) = Affords(t, b, n, y)
  BY <1>1, <1>2 DEF MayAct, Signed, CanReceive, Affords
<1>4. CASE op.kind = "Transfer"
  BY <1>1, <1>3, <1>4 DEF Admitted, TransferAdmitted
<1>5. CASE op.kind = "Register"
  BY <1>1, <1>2, <1>3, <1>5 DEF Admitted, RegisterAdmitted
<1>6. CASE op.kind = "BalanceIn"
  BY <1>3, <1>6 DEF Admitted
<1>7. CASE op.kind = "UtxoIn"
  <2>1. UtxoAdmitted(l, Complete, b, op, low, value)
    BY <1>7 DEF Admitted
  <2>2. op.seq >= low /\ Resolves(Complete, b, op.seq, 0)
    BY <1>7, <2>1 DEF UtxoAdmitted, Resolves, Complete
  <2>3. UtxoAdmitted(t, Complete, b, op, 0, value)
    BY <1>1, <2>1, <2>2 DEF UtxoAdmitted
  <2>4. QED
    BY <1>7, <2>3 DEF Admitted
<1>8. CASE op.kind = "BalanceOut"
  BY <1>1, <1>3, <1>8 DEF Admitted
<1>9. CASE op.kind \in {"UtxoOut", "Close"}
  BY <1>9 DEF Admitted
<1>10. QED
  BY <1>4, <1>5, <1>6, <1>7, <1>8, <1>9 DEF Complex, Inputs, Outputs

LEMMA TwinBlocks ==
  ASSUME NEW l, NEW t, NEW low, Twin(l, t, low), NEW b, NEW x
  PROVE  /\ BlockAdmitted(l, Complete, b) => BlockAdmitted(t, Complete, b)
         /\ EndAdmitted(l, b, x) => EndAdmitted(t, b, x)
<1>1. /\ \A n : Seeded(l, n) = Seeded(t, n) /\ BalanceOf(l, n) = BalanceOf(t, n)
      /\ \A n : InRange(l, n) = InRange(t, n) /\ CreatorKey(l, n) = CreatorKey(t, n)
  BY TwinAlike
<1>2. l.key = t.key /\ l.balance = t.balance /\ l.watermark = t.watermark
  BY DEF Twin
<1>3. /\ CreatorSigned(l, Complete, b) = CreatorSigned(t, Complete, b)
      /\ \A e : EntryAdmitted(l, Complete, b, e) = EntryAdmitted(t, Complete, b, e)
  BY <1>1, <1>2 DEF CreatorSigned, EntryAdmitted
<1>4. BalanceAdmitted(l, Complete, b) = BalanceAdmitted(t, Complete, b)
  BY <1>2, <1>3 DEF BalanceAdmitted
<1>5. QED
  BY <1>1, <1>3, <1>4 DEF BlockAdmitted, EndAdmitted

LEMMA TwinRoster ==
  ASSUME NEW l, NEW t, NEW low, Twin(l, t, low), Roster(l)
  PROVE  Roster(t)
<1>1. \A n : Seeded(l, n) = Seeded(t, n)
  BY TwinAlike
<1>2. l.key = t.key /\ l.balance = t.balance /\ l.watermark = t.watermark
  BY DEF Twin
<1>3. \A n : Blank(l, n) = Blank(t, n)
  BY <1>2 DEF Blank
<1>4. QED
  BY <1>1, <1>2, <1>3 DEF Roster

LEMMA TwinApplies ==
  ASSUME NEW l, NEW t, NEW low \in Nat, Twin(l, t, low), NEW b \in Universe, low <= b.seq,
         NEW op, Payable(op)
  PROVE  Twin(Applied(l, b, op), Applied(t, b, op), low)
<1> DEFINE r == Applied(l, b, op)
           q == Applied(t, b, op)
<1>1. /\ l \in LedgerState /\ t \in LedgerState /\ b.seq \in Nat /\ IsLedger(l) /\ IsLedger(t)
      /\ op.kind \in {"Transfer", "Register"} \union Complex
  BY UniverseAssumption, StateIsLedger DEF Twin, Payable
<1>2. r \in LedgerState /\ q \in LedgerState
  BY <1>1, AppliedTyped
<1>3. IsApplied(r, l, b, op) /\ IsApplied(q, t, b, op)
  BY <1>1, AppliedFields
<1>4. /\ \A n : Seeded(l, n) = Seeded(t, n)
      /\ \A n : Pays(l, b, n) = Pays(t, b, n)
  BY TwinAlike
<1>5. r.key = q.key /\ r.balance = q.balance /\ r.watermark = q.watermark
  <2>1. l.key = t.key /\ l.balance = t.balance /\ l.watermark = t.watermark
    BY DEF Twin
  <2>2. CASE op.kind = "Register"
    <3>1. Sown(r, l, b, op) /\ Sown(q, t, b, op)
      BY <1>1, <2>2, RegisterApplied
    <3>2. \A m : Price(l, b, op, m) = Price(t, b, op, m)
      BY <1>4 DEF Price
    <3> HIDE DEF r, q
    <3>3. r.watermark = q.watermark
      BY <2>1, <3>1 DEF Sown
    <3>4. \A m \in NodeSlot : r.key[m] = q.key[m] /\ r.balance[m] = q.balance[m]
      BY <2>1, <3>1, <3>2 DEF Sown
    <3>5. QED
      BY <1>2, <3>3, <3>4 DEF LedgerState
  <2>3. CASE op.kind # "Register"
    <3>1. Gives(r, l, b, op) /\ Gives(q, t, b, op)
      BY <1>1, <2>3, PaymentApplied
    <3>2. \A m : Loss(l, b, op, m) = Loss(t, b, op, m) /\ Gain(l, b, op, m) = Gain(t, b, op, m)
      BY <1>4 DEF Loss, Gain
    <3> HIDE DEF r, q
    <3>3. \A m \in NodeSlot : r.balance[m] = q.balance[m]
      BY <2>1, <3>1, <3>2 DEF Gives
    <3>4. r.balance = q.balance
      BY <1>2, <3>3 DEF LedgerState
    <3>5. QED
      BY <2>1, <3>1, <3>4 DEF Gives
  <2>4. QED
    BY <2>2, <2>3
<1> HIDE DEF r, q
<1>6. ASSUME NEW n \in NodeSlot
      PROVE  r.source[n] = Trim(q.source[n], low) /\ q.source[n] # Released
  <2>1. l.source[n] = Trim(t.source[n], low) /\ t.source[n] # Released
    BY DEF Twin
  <2>2. Trim(b.seq, low) = b.seq /\ b.seq # Released
    BY <1>1 DEF Trim, Released
  <2>3. QED
    BY <1>3, <2>1, <2>2 DEF IsApplied
<1>7. r.unspent = {u \in q.unspent : u[1] >= low}
  <2>1. l.unspent = {u \in t.unspent : u[1] >= low}
    BY DEF Twin
  <2>2. CASE op.kind = "UtxoIn"
    <3>1. r.unspent = l.unspent \ {OutputOf(op)} /\ q.unspent = t.unspent \ {OutputOf(op)}
      BY <1>3, <2>2 DEF IsApplied
    <3>2. QED
      BY <2>1, <3>1, Zenon
  <2>3. CASE op.kind # "UtxoIn"
    BY <1>3, <2>1, <2>3 DEF IsApplied
  <2>4. QED
    BY <2>2, <2>3
<1>8. Twin(r, q, low)
  BY <1>2, <1>5, <1>6, <1>7 DEF Twin
<1>9. QED
  BY <1>8 DEF r, q

(* What a commit leaves, field by field.                                     *)
Rewarded(r, l, b, x) ==
  /\ r \in LedgerState /\ r.key = l.key /\ r.watermark = l.watermark
  /\ \A m \in NodeSlot :
       r.balance[m] = IF b.seq > 1 /\ Seeded(l, m) /\ m = b.creator
                      THEN WrapAdd(l.balance[m], b.mined + x) ELSE l.balance[m]
  /\ r.source = MovedSources(l, b)
  /\ r.unspent = l.unspent \union NewOutputs(b)

LEMMA CommitRewards ==
  ASSUME NEW l \in LedgerState, NEW b \in Universe, NEW x \in Amount, EndAdmitted(l, b, x)
  PROVE  Rewarded(Committed(l, b, x), l, b, x)
<1> DEFINE paid == IF b.seq > 1 THEN CreditSeeded(l, b.creator, b.mined + x) ELSE l
           r == Committed(l, b, x)
<1>1. r \in LedgerState /\ r.source = MovedSources(l, b) /\ r.unspent = l.unspent \union NewOutputs(b)
  BY CommittedTyped, StateIsLedger, CommittedFields
<1>2. /\ paid.key = l.key /\ paid.watermark = l.watermark /\ DOMAIN paid = Fields
      /\ \A m \in NodeSlot :
           paid.balance[m] = IF b.seq > 1 /\ Seeded(l, m) /\ m = b.creator
                             THEN WrapAdd(l.balance[m], b.mined + x) ELSE l.balance[m]
  <2>1. CASE b.seq > 1 /\ Seeded(l, b.creator)
    <3>1. b.creator \in NodeSlot /\ paid = [l EXCEPT !.balance[b.creator] = WrapAdd(@, b.mined + x)]
      BY <2>1 DEF CreditSeeded, Credit, Seeded
    <3>2. DOMAIN l = Fields /\ l.balance \in [NodeSlot -> Amount]
      BY DEF LedgerState, Fields
    <3> HIDE DEF paid
    <3>3. QED
      BY <2>1, <3>1, <3>2 DEF Fields
  <2>2. CASE ~(b.seq > 1 /\ Seeded(l, b.creator))
    <3>1. DOMAIN l = Fields
      BY DEF LedgerState, Fields
    <3>2. QED
      BY <2>2, <3>1 DEF CreditSeeded
  <2>3. QED
    BY <2>1, <2>2
<1>3. r = [paid EXCEPT !.source = MovedSources(l, b), !.unspent = @ \union NewOutputs(b)]
  BY DEF Committed
<1> HIDE DEF paid, r
<1>4. r.key = l.key /\ r.watermark = l.watermark /\ r.balance = paid.balance
  BY <1>2, <1>3 DEF Fields
<1>5. Rewarded(r, l, b, x)
  BY <1>1, <1>2, <1>4 DEF Rewarded
<1>6. QED
  BY <1>5 DEF r

LEMMA TwinCommits ==
  ASSUME NEW l, NEW t, NEW low \in Nat, Twin(l, t, low), NEW b \in Universe, low <= b.seq,
         NEW x \in Amount, EndAdmitted(l, b, x)
  PROVE  Twin(Committed(l, b, x), Committed(t, b, x), low)
<1> DEFINE r == Committed(l, b, x)
           q == Committed(t, b, x)
<1>1. /\ l \in LedgerState /\ t \in LedgerState /\ b.seq \in Nat
      /\ l.key = t.key /\ l.balance = t.balance /\ l.watermark = t.watermark
  BY UniverseAssumption DEF Twin
<1>2. EndAdmitted(t, b, x)
  BY TwinBlocks
<1>3. Rewarded(r, l, b, x) /\ Rewarded(q, t, b, x)
  BY <1>1, <1>2, CommitRewards
<1>4. \A n : Seeded(l, n) = Seeded(t, n)
  BY TwinAlike
<1> HIDE DEF r, q
<1>5. r \in LedgerState /\ q \in LedgerState /\ r.key = q.key /\ r.watermark = q.watermark
  BY <1>1, <1>3 DEF Rewarded
<1>6. r.balance = q.balance
  <2>1. \A m \in NodeSlot : r.balance[m] = q.balance[m]
    BY <1>1, <1>3, <1>4 DEF Rewarded
  <2>2. QED
    BY <1>5, <2>1 DEF LedgerState
<1>7. ASSUME NEW n \in NodeSlot
      PROVE  r.source[n] = Trim(q.source[n], low) /\ q.source[n] # Released
  <2>1. l.source[n] = Trim(t.source[n], low) /\ t.source[n] # Released
    BY DEF Twin
  <2>2. Trim(b.seq, low) = b.seq /\ b.seq # Released
    BY <1>1 DEF Trim, Released
  <2>3. l.source[n] # Unseeded <=> t.source[n] # Unseeded
    BY <1>4 DEF Seeded
  <2>4. r.source = MovedSources(l, b) /\ q.source = MovedSources(t, b)
    BY <1>3 DEF Rewarded
  <2>5. QED
    BY <2>1, <2>2, <2>3, <2>4 DEF MovedSources
<1>8. r.unspent = {u \in q.unspent : u[1] >= low}
  <2>1. l.unspent = {u \in t.unspent : u[1] >= low}
    BY DEF Twin
  <2>2. \A u \in NewOutputs(b) : u[1] >= low
    BY <1>1 DEF NewOutputs
  <2>3. r.unspent = l.unspent \union NewOutputs(b) /\ q.unspent = t.unspent \union NewOutputs(b)
    BY <1>3 DEF Rewarded
  <2>4. QED
    BY <2>1, <2>2, <2>3, Zenon
<1>9. QED
  BY <1>5, <1>6, <1>7, <1>8 DEF Twin, r, q

LEMMA TwinReleases ==
  ASSUME NEW l, NEW t, NEW low \in Nat, Twin(l, t, low)
  PROVE  Twin(TailReleased(l, low), t, low + 1)
<1> DEFINE r == TailReleased(l, low)
<1>1. l \in LedgerState /\ t \in LedgerState
  BY DEF Twin
<1>2. /\ r \in LedgerState
      /\ \A m \in NodeSlot : r.source[m] = IF l.source[m] = low THEN Released ELSE l.source[m]
      /\ r.unspent = {u \in l.unspent : u[1] # low}
  BY <1>1, ReleasedTyped, StateIsLedger, ReleasedFields
<1>3. r.key = l.key /\ r.balance = l.balance /\ r.watermark = l.watermark
  BY <1>1 DEF TailReleased, LedgerState
<1> HIDE DEF r
<1>4. ASSUME NEW n \in NodeSlot
      PROVE  r.source[n] = Trim(t.source[n], low + 1) /\ t.source[n] # Released
  <2>1. l.source[n] = Trim(t.source[n], low) /\ t.source[n] # Released
        /\ t.source[n] \in Nat \union {Unseeded, Released}
    BY <1>1 DEF Twin, LedgerState
  <2>2. QED
    BY <1>2, <2>1 DEF Trim, Unseeded, Released
<1>5. r.unspent = {u \in t.unspent : u[1] >= low + 1}
  <2>1. \A u \in t.unspent : u[1] \in Nat
    BY <1>1 DEF LedgerState
  <2>2. \A u \in t.unspent : u[1] >= low + 1 <=> u[1] >= low /\ u[1] # low
    BY <2>1
  <2>3. l.unspent = {u \in t.unspent : u[1] >= low}
    BY DEF Twin
  <2>4. QED
    BY <1>2, <2>2, <2>3, Zenon
<1>6. QED
  BY <1>1, <1>2, <1>3, <1>4, <1>5 DEF Twin, r

-----------------------------------------------------------------------------
(* The replay grows with the chain.                                          *)

LEMMA RunTyped ==
  ASSUME NEW b, NEW l, NEW k \in Nat, NEW h, Run(h, k, l, b), NEW i \in 0 .. k
  PROVE  /\ h[i].ok = TRUE /\ h[i].l \in LedgerState
         /\ h[i].fees \in Amount /\ h[i].outs \in 0 .. MaxOutputs
<1>1. h[i] \in RunState
  BY DEF Run
<1>2. QED
  BY <1>1 DEF RunState

LEMMA RunGrows ==
  ASSUME NEW b \in Universe, Tier1Gate(b), NEW l, NEW k \in Nat, NEW h, Run(h, k, l, b),
         k + 1 \in DOMAIN b.ops, NEW value,
         Admitted(h[k].l, Complete, b, b.ops[k + 1], h[k].fees, h[k].outs, 0, value),
         NEW g, g = [i \in 0 .. k + 1 |-> IF i <= k THEN h[i] ELSE Stepped(h[k], b, b.ops[k + 1])]
  PROVE  Run(g, k + 1, l, b)
<1> DEFINE op == b.ops[k + 1]
           end == Stepped(h[k], b, op)
<1>1. h \in [0 .. k -> RunState] /\ h[0] = Started(l)
  BY DEF Run
<1>2. h[k].l \in LedgerState /\ h[k].fees \in Amount /\ h[k].outs \in 0 .. MaxOutputs
  <2>1. k \in 0 .. k
    OBVIOUS
  <2>2. QED
    BY <2>1, RunTyped
<1>3. Payable(op)
  BY AdmittedPayable
<1>4. end \in RunState
  <2>1. Applied(h[k].l, b, op) \in LedgerState
    BY <1>2, <1>3, AppliedTyped
  <2>2. h[k].fees + FeeOf(h[k].l, b, op) \in Amount /\ h[k].outs + OutputsOf(op) \in 0 .. MaxOutputs
    BY <1>2, <1>3, FeesTyped
  <2>3. QED
    BY <2>1, <2>2 DEF Stepped, RunState
<1>5. \A i \in 0 .. k : g[i] = h[i]
  OBVIOUS
<1>6. g[k + 1] = end
  OBVIOUS
<1>7. g \in [0 .. k + 1 -> RunState] /\ g[0] = Started(l)
  BY <1>1, <1>4 DEF end
<1>8. ASSUME NEW i \in 1 .. k + 1
      PROVE  /\ \E v : Admitted(g[i - 1].l, Complete, b, b.ops[i], g[i - 1].fees, g[i - 1].outs, 0, v)
             /\ g[i] = Stepped(g[i - 1], b, b.ops[i])
  <2>1. CASE i = k + 1
    <3>1. g[i - 1] = h[k] /\ b.ops[i] = op /\ g[i] = end
      BY <1>5, <1>6, <2>1
    <3>2. QED
      BY <3>1
  <2>2. CASE i # k + 1
    <3>1. i \in 1 .. k /\ g[i - 1] = h[i - 1] /\ g[i] = h[i]
      BY <1>5, <2>2
    <3>2. QED
      BY <3>1 DEF Run
  <2>3. QED
    BY <2>1, <2>2
<1> HIDE DEF end, op
<1>9. QED
  BY <1>7, <1>8 DEF Run

LEMMA ReplaysGrow ==
  ASSUME NEW c \in Seq(Universe), NEW b \in Universe, NEW R, Replays(R, c),
         NEW m \in LedgerState, Roster(m), Derives(R[Len(c)], b, m),
         NEW Q, Q = [k \in 0 .. Len(c) + 1 |-> IF k <= Len(c) THEN R[k] ELSE m]
  PROVE  Replays(Q, Append(c, b)) /\ Q[Len(c) + 1] = m
<1>1. Len(c) \in Nat /\ Len(Append(c, b)) = Len(c) + 1
  OBVIOUS
<1> DEFINE n == Len(c)
           d == Append(c, b)
<1>2. \A k \in 1 .. n : d[k] = c[k]
  OBVIOUS
<1>3. d[n + 1] = b
  OBVIOUS
<1>4. n \in Nat /\ Len(d) = n + 1
  BY <1>1
<1>5. R[0] = EmptyLedger
      /\ \A k \in 1 .. n : Derives(R[k - 1], c[k], R[k]) /\ R[k] \in LedgerState /\ Roster(R[k])
  BY DEF Replays
<1>6. Derives(R[n], b, m) /\ Q = [k \in 0 .. n + 1 |-> IF k <= n THEN R[k] ELSE m]
  OBVIOUS
<1> HIDE DEF n, d
<1>7. (\A k \in 0 .. n : Q[k] = R[k]) /\ Q[n + 1] = m
  BY <1>4, <1>6
<1>8. ASSUME NEW k \in 1 .. n + 1
      PROVE  Derives(Q[k - 1], d[k], Q[k]) /\ Q[k] \in LedgerState /\ Roster(Q[k])
  <2>1. CASE k = n + 1
    <3>1. k - 1 = n /\ n \in 0 .. n
      BY <1>4, <2>1
    <3>2. Q[k - 1] = R[n] /\ d[k] = b /\ Q[k] = m
      BY <1>3, <1>7, <2>1, <3>1
    <3>3. QED
      BY <1>6, <3>2
  <2>2. CASE k # n + 1
    <3>1. k \in 1 .. n /\ k - 1 \in 0 .. n /\ k \in 0 .. n
      BY <1>4, <2>2
    <3>2. Q[k - 1] = R[k - 1] /\ d[k] = c[k] /\ Q[k] = R[k]
      BY <1>2, <1>7, <3>1
    <3>3. QED
      BY <1>5, <3>1, <3>2
  <2>3. QED
    BY <2>1, <2>2
<1>9. Q[0] = EmptyLedger
  BY <1>4, <1>5, <1>7
<1>10. Replays(Q, d)
  BY <1>4, <1>8, <1>9 DEF Replays
<1>11. QED
  BY <1>7, <1>10 DEF n, d

-----------------------------------------------------------------------------
(* The history exists, along the behaviours.  While a block is processed,     *)
(* the replay has taken the same effects.                                    *)

Followed(R) ==
  \E k, h :
    /\ k \in Nat /\ done = 1 .. k
    /\ Run(h, k, R[Len(chain)], block)
    /\ Twin(led, h[k].l, tail)
    /\ h[k].fees = fees /\ h[k].outs = outs

History(R) ==
  /\ Replays(R, chain)
  /\ Twin(base, R[Len(chain)], tail)
  /\ phase \in {"Apply", "Derived"} => BlockAdmitted(R[Len(chain)], Complete, block) /\ Followed(R)

ReplayInv ==
  /\ chain # <<>> => tail < Len(chain)
  /\ phase = "Idle" => fees = 0 /\ outs = 0
  /\ \E R : History(R)

LEMMA ReplayInit == Init => ReplayInv
<1> SUFFICES ASSUME Init PROVE ReplayInv
  OBVIOUS
<1> DEFINE R == [k \in {0} |-> EmptyLedger]
<1>1. chain = <<>> /\ Len(chain) = 0 /\ base = EmptyLedger /\ tail = 0 /\ phase = "Idle"
      /\ fees = 0 /\ outs = 0
  BY DEF Init
<1>2. R[0] = EmptyLedger
  OBVIOUS
<1>3. Replays(R, chain)
  BY <1>1, <1>2 DEF Replays
<1>4. Twin(EmptyLedger, EmptyLedger, 0)
  <2>1. EmptyLedger \in LedgerState
    BY EmptyTyped
  <2>2. \A n \in NodeSlot : EmptyLedger.source[n] = Unseeded
    BY DEF EmptyLedger
  <2>3. Trim(Unseeded, 0) = Unseeded /\ Unseeded # Released
    BY DEF Trim, Unseeded, Released
  <2>4. EmptyLedger.unspent = {}
    BY DEF EmptyLedger
  <2>5. QED
    BY <2>1, <2>2, <2>3, <2>4 DEF Twin
<1> HIDE DEF R
<1>5. History(R)
  BY <1>1, <1>2, <1>3, <1>4 DEF History
<1>6. QED
  BY <1>1, <1>5 DEF ReplayInv

LEMMA ReplayBegins ==
  ASSUME IInv, TypeInv, RosterInv, ReplayInv, NEW b \in Universe, Begin(b)
  PROVE  ReplayInv'
<1>1. /\ phase = "Idle" /\ phase' = "Apply" /\ block' = b /\ base' = led
      /\ UNCHANGED <<led, chain, tail, done, fees, outs>> /\ BlockAdmitted(led, Complete, b)
  BY DEF Begin
<1>2. led = base /\ fees = 0 /\ outs = 0 /\ done = {}
  BY <1>1 DEF RosterInv, ReplayInv, IInv
<1>3. PICK R : History(R)
  BY DEF ReplayInv
<1> DEFINE t == R[Len(chain)]
           h == [i \in 0 .. 0 |-> Started(t)]
<1>4. Replays(R, chain) /\ Twin(base, t, tail)
  BY <1>3 DEF History
<1>5. t \in LedgerState
  BY <1>4 DEF Twin
<1>6. BlockAdmitted(t, Complete, b)
  BY <1>1, <1>2, <1>4, TwinBlocks
<1> HIDE DEF t
<1>7. Run(h, 0, t, b)
  <2>1. Started(t) \in RunState
    <3>1. 0 \in Amount /\ 0 \in 0 .. MaxOutputs
      BY GateAssumption DEF Amount
    <3>2. QED
      BY <1>5, <3>1 DEF Started, RunState
  <2>2. QED
    BY <2>1 DEF Run
<1>8. h[0] = Started(t)
  OBVIOUS
<1> HIDE DEF h
<1>9. h[0].l = t /\ h[0].fees = 0 /\ h[0].outs = 0
  BY <1>8 DEF Started
<1>10. 0 \in Nat /\ done' = 1 .. 0
  BY <1>1, <1>2
<1>11. Followed(R)'
  BY <1>1, <1>2, <1>4, <1>7, <1>9, <1>10 DEF Followed, t
<1>12. History(R)'
  BY <1>1, <1>2, <1>4, <1>6, <1>11 DEF History, t
<1>13. QED
  BY <1>1, <1>12 DEF ReplayInv

LEMMA ReplayApplies ==
  ASSUME IInv, TypeInv, RosterInv, ReplayInv, Apply
  PROVE  ReplayInv'
<1>1. /\ phase = "Apply" /\ Position \in DOMAIN block.ops /\ CurrentAdmitted
      /\ led' = Applied(led, block, Current)
      /\ fees' = fees + FeeOf(led, block, Current) /\ outs' = outs + OutputsOf(Current)
      /\ done' = done \union {Position}
      /\ UNCHANGED <<chain, tail, phase, block, base>>
  BY DEF Apply
<1>2. PICK R : History(R)
  BY DEF ReplayInv
<1> DEFINE t == R[Len(chain)]
<1>3. /\ Replays(R, chain) /\ Twin(base, t, tail)
      /\ BlockAdmitted(t, Complete, block) /\ Followed(R)
  BY <1>1, <1>2 DEF History
<1>4. PICK k, h : /\ k \in Nat /\ done = 1 .. k
                  /\ Run(h, k, t, block)
                  /\ Twin(led, h[k].l, tail)
                  /\ h[k].fees = fees /\ h[k].outs = outs
  BY <1>3 DEF Followed
<1>5. /\ block \in Universe /\ block.seq = Len(chain) /\ Tier1Gate(block)
      /\ tail \in Nat /\ led \in LedgerState
  BY <1>1, CallFounded
<1>6. tail <= block.seq
  BY <1>5 DEF IInv, WellFormed
<1> DEFINE op == block.ops[k + 1]
           g == [i \in 0 .. k + 1 |-> IF i <= k THEN h[i] ELSE Stepped(h[k], block, op)]
<1>7. Position = k + 1 /\ Current = op
  BY <1>4, PositionNext DEF Current
<1>8. Admitted(led, Complete, block, op, fees, outs, tail, Amounts(led, chain)) /\ k + 1 \in DOMAIN block.ops
  BY <1>1, <1>7 DEF CurrentAdmitted
<1>9. Payable(op)
  BY <1>5, <1>8, AdmittedPayable
<1>10. op.kind \in {"Transfer", "Register"} \union Complex /\ (op.kind = "UtxoIn" => op.seq \in Nat)
  BY <1>9 DEF Payable, ParsedEffect
<1>11. Admitted(h[k].l, Complete, block, op, h[k].fees, h[k].outs, 0, Amounts(led, chain))
  BY <1>4, <1>8, <1>10, TwinAdmits
<1>12. Run(g, k + 1, t, block)
  BY <1>4, <1>5, <1>8, <1>11, RunGrows
<1>13. g[k + 1] = Stepped(h[k], block, op)
  BY <1>4
<1>14. Twin(Applied(led, block, op), Applied(h[k].l, block, op), tail)
  BY <1>4, <1>5, <1>6, <1>9, TwinApplies
<1> HIDE DEF g, t, op
<1>15. /\ g[k + 1].l = Applied(h[k].l, block, op)
       /\ g[k + 1].fees = h[k].fees + FeeOf(h[k].l, block, op)
       /\ g[k + 1].outs = h[k].outs + OutputsOf(op)
  BY <1>13 DEF Stepped
<1>16. FeeOf(h[k].l, block, op) = FeeOf(led, block, op)
  BY DEF FeeOf
<1>17. /\ Twin(led', g[k + 1].l, tail)
       /\ g[k + 1].fees = fees' /\ g[k + 1].outs = outs'
  BY <1>1, <1>4, <1>7, <1>14, <1>15, <1>16
<1>18. k + 1 \in Nat /\ done' = 1 .. k + 1
  <2>1. done' = (1 .. k) \union {k + 1}
    BY <1>1, <1>4, <1>7
  <2>2. QED
    BY <1>4, <2>1
<1> DEFINE j == k + 1
<1>19. /\ j \in Nat /\ done' = 1 .. j /\ Run(g, j, t, block)
       /\ Twin(led', g[j].l, tail) /\ g[j].fees = fees' /\ g[j].outs = outs'
  BY <1>12, <1>17, <1>18
<1> HIDE DEF j
<1>20. Followed(R)'
  BY <1>1, <1>19 DEF Followed, t
<1>21. History(R)'
  BY <1>1, <1>3, <1>20 DEF History, t
<1>22. QED
  BY <1>1, <1>21 DEF ReplayInv

LEMMA ReplayCommits ==
  ASSUME GenesisForm, IInv, TypeInv, RosterInv, ReplayInv, Commit
  PROVE  ReplayInv'
<1> DEFINE next == Committed(led, block, fees)
           n == Len(chain)
           last == Len(block.ops)
<1>1. /\ phase = "Derived" /\ block.applies
      /\ led' = (IF Full THEN TailReleased(next, tail) ELSE next)
      /\ chain' = Append(chain, block)
      /\ tail' = (IF Full THEN tail + 1 ELSE tail)
      /\ base' = led' /\ phase' = "Idle" /\ fees' = 0 /\ outs' = 0
  BY DEF Commit, Finish
<1>2. done = DOMAIN block.ops /\ EndAdmitted(led, block, fees) /\ fees \in Amount
  BY <1>1 DEF IInv, TypeInv
<1>3. /\ block \in Universe /\ block.seq = n /\ Tier1Gate(block)
      /\ tail \in Nat /\ led \in LedgerState /\ chain \in Seq(Universe) /\ n \in Nat
  <2>1. chain \in Seq(Universe)
    BY DEF IInv, WellFormed
  <2>2. QED
    BY <1>1, <2>1, CallFounded
<1>4. tail <= n
  BY DEF IInv, WellFormed
<1>5. PICK R : History(R)
  BY DEF ReplayInv
<1> DEFINE t == R[n]
<1>6. Replays(R, chain) /\ BlockAdmitted(t, Complete, block) /\ Followed(R)
  BY <1>1, <1>5 DEF History
<1>7. PICK k, h : /\ k \in Nat /\ done = 1 .. k
                  /\ Run(h, k, t, block)
                  /\ Twin(led, h[k].l, tail)
                  /\ h[k].fees = fees /\ h[k].outs = outs
  BY <1>6 DEF Followed
<1>8. k = last
  <2>1. last \in Nat /\ 1 .. k = 1 .. last
    BY <1>2, <1>3, <1>7, UniverseAssumption
  <2> HIDE DEF last
  <2>2. QED
    BY <1>7, <2>1
<1> DEFINE m == Committed(h[k].l, block, fees)
<1>9. EndAdmitted(h[k].l, block, fees)
  BY <1>2, <1>7, TwinBlocks
<1>10. Derives(t, block, m)
  BY <1>1, <1>6, <1>7, <1>8, <1>9 DEF Derives
<1>11. Twin(next, m, tail)
  BY <1>2, <1>3, <1>4, <1>7, TwinCommits
<1> HIDE DEF next, m, n
<1>12. Twin(led', m, tail')
  BY <1>1, <1>3, <1>11, TwinReleases
<1>13. m \in LedgerState /\ Roster(m)
  <2>1. RosterInv' /\ chain' # <<>>
    BY <1>1, <1>3, RosterCommits
  <2>2. Roster(led')
    BY <1>1, <2>1 DEF RosterInv
  <2>3. QED
    BY <1>12, <2>2, TwinRoster DEF Twin
<1>14. PICK Q : Q = [i \in 0 .. n + 1 |-> IF i <= n THEN R[i] ELSE m]
  OBVIOUS
<1>15. Replays(Q, chain') /\ Q[n + 1] = m /\ Len(chain') = n + 1
  <2>1. Replays(Q, Append(chain, block)) /\ Q[n + 1] = m
    BY <1>3, <1>6, <1>10, <1>13, <1>14, ReplaysGrow DEF n
  <2>2. Len(Append(chain, block)) = n + 1
    BY <1>3 DEF n
  <2>3. QED
    BY <1>1, <2>1, <2>2
<1>16. History(Q)'
  BY <1>1, <1>12, <1>15 DEF History
<1>17. tail' < Len(chain')
  <2>1. CASE Full
    <3>1. n - tail >= W /\ tail' = tail + 1
      BY <1>1, <2>1 DEF Full, n
    <3>2. QED
      BY <1>3, <1>15, <3>1, LedgerAssumption
  <2>2. CASE ~Full
    BY <1>1, <1>3, <1>4, <1>15, <2>2
  <2>3. QED
    BY <2>1, <2>2
<1>18. QED
  BY <1>1, <1>16, <1>17 DEF ReplayInv

LEMMA ReplayNext ==
  ASSUME GenesisForm
  PROVE  IInv /\ TypeInv /\ RosterInv /\ ReplayInv /\ [Next]_vars => ReplayInv'
<1> SUFFICES ASSUME IInv, TypeInv, RosterInv, ReplayInv, [Next]_vars PROVE ReplayInv'
  OBVIOUS
<1>1. ASSUME NEW b \in Universe, Begin(b) PROVE ReplayInv'
  BY <1>1, ReplayBegins
<1>2. CASE Apply
  BY <1>2, ReplayApplies
(* A step that ends in another phase with the ledger and the chain as they   *)
(* are.                                                                      *)
<1>3. CASE Refuse \/ RefuseEnd \/ SaveFails \/ VotesRefuse
  <2>1. phase' = "Undo" /\ UNCHANGED <<led, chain, tail, block, done, fees, outs, base>>
    BY <1>3 DEF Refuse, RefuseEnd, SaveFails, VotesRefuse, Fail
  <2>2. PICK R : History(R)
    BY DEF ReplayInv
  <2>3. History(R)'
    BY <2>1, <2>2 DEF History
  <2>4. QED
    BY <2>1, <2>3 DEF ReplayInv
<1>4. CASE Derive
  <2>1. /\ phase = "Apply" /\ phase' = "Derived"
        /\ UNCHANGED <<led, chain, tail, block, done, fees, outs, base>>
    BY <1>4 DEF Derive
  <2>2. PICK R : History(R)
    BY DEF ReplayInv
  <2>3. History(R)'
    BY <2>1, <2>2 DEF History, Followed
  <2>4. QED
    BY <2>1, <2>3 DEF ReplayInv
<1>5. CASE Commit
  BY <1>5, ReplayCommits
<1>6. CASE Undo
  <2>1. phase = "Undo" /\ UNCHANGED <<chain, tail, phase, block, fees, outs, base>>
    BY <1>6 DEF Undo
  <2>2. PICK R : History(R)
    BY DEF ReplayInv
  <2>3. History(R)'
    BY <2>1, <2>2 DEF History
  <2>4. QED
    BY <2>1, <2>3 DEF ReplayInv
<1>7. CASE Abandon
  <2>1. /\ phase' = "Idle" /\ fees' = 0 /\ outs' = 0 /\ UNCHANGED <<led, chain, tail, base>>
    BY <1>7 DEF Abandon, Finish
  <2>2. PICK R : History(R)
    BY DEF ReplayInv
  <2>3. History(R)'
    BY <2>1, <2>2 DEF History
  <2>4. QED
    BY <2>1, <2>3 DEF ReplayInv
<1>8. CASE UNCHANGED vars
  <2>1. UNCHANGED <<led, chain, tail, phase, block, done, fees, outs, base>>
    BY <1>8 DEF vars, call
  <2>2. PICK R : History(R)
    BY DEF ReplayInv
  <2>3. History(R)'
    BY <2>1, <2>2 DEF History, Followed
  <2>4. QED
    BY <2>1, <2>3 DEF ReplayInv
<1>9. QED
  BY <1>1, <1>2, <1>3, <1>4, <1>5, <1>6, <1>7, <1>8 DEF Next

LEMMA ReplayAlways == GenesisForm => (Spec => []ReplayInv)
<1> SUFFICES ASSUME GenesisForm PROVE Spec => []ReplayInv
  OBVIOUS
<1>1. Init => ReplayInv
  BY ReplayInit
<1>2. IInv /\ TypeInv /\ RosterInv /\ ReplayInv /\ [Next]_vars => ReplayInv'
  BY ReplayNext
<1>3. Spec => []RosterInv
  BY RosterAlways
<1>4. QED
  BY <1>1, <1>2, <1>3, InductiveInvariant, TypeInit, TypeNext, PTL DEF Spec

-----------------------------------------------------------------------------
(* What a block leaves of the ledger it finds: who is on the roster stays    *)
(* there, with the same key.                                                 *)

Lasts(l, m) ==
  /\ l.watermark <= m.watermark
  /\ \A n \in NodeSlot : Seeded(l, n) => Seeded(m, n) /\ m.key[n] = l.key[n]

Grows(l, m, b) ==
  /\ m \in LedgerState /\ Lasts(l, m)
  /\ \A n \in NodeSlot : m.source[n] \in {l.source[n], b.seq}
  /\ m.unspent \subseteq l.unspent

(* No number beyond the watermark is taken, and none before the genesis      *)
(* block.                                                                    *)
Vacant(l, b) ==
  /\ \A n \in NodeSlot : Seeded(l, n) => n <= l.watermark
  /\ b.seq = 0 => \A n \in NodeSlot : ~Seeded(l, n)

LEMMA EffectGrows ==
  ASSUME NEW l \in LedgerState, NEW b \in Universe, Vacant(l, b), NEW m, Grows(l, m, b),
         NEW op, Payable(op), NEW x, NEW o, NEW value, Admitted(m, Complete, b, op, x, o, 0, value)
  PROVE  Grows(l, Applied(m, b, op), b)
<1> DEFINE r == Applied(m, b, op)
<1>1. m \in LedgerState /\ b.seq \in Nat /\ IsLedger(m)
      /\ op.kind \in {"Transfer", "Register"} \union Complex
  BY UniverseAssumption, StateIsLedger DEF Grows, Payable
<1>2. r \in LedgerState /\ IsApplied(r, m, b, op)
  BY <1>1, AppliedTyped, AppliedFields
<1>3. r.unspent \subseteq l.unspent
  BY <1>2 DEF IsApplied, Grows
<1>4. \A n \in NodeSlot : r.source[n] \in {l.source[n], b.seq}
  BY <1>2 DEF IsApplied, Grows
<1>5. Lasts(l, r)
  <2>1. CASE op.kind = "Register"
    <3>1. Sown(r, m, b, op) /\ op.id \in Nat
      BY <1>1, <2>1, RegisterApplied DEF Payable, ParsedEffect
    <3>2. \A n \in NodeSlot : Seeded(r, n) <=> Seeded(m, n) \/ n = op.id
      BY <1>1, <3>1, SeededSown
    <3>3. l.watermark \in Nat /\ m.watermark \in Nat /\ NodeSlot \subseteq Nat
      BY <1>1, ZeroSlot DEF LedgerState
    <3>4. b.seq # 0 => op.id = m.watermark + 1
      BY <2>1 DEF Admitted, RegisterAdmitted, Complete
    <3> HIDE DEF r
    <3>5. l.watermark <= m.watermark /\ \A n \in NodeSlot : Seeded(l, n) => Seeded(m, n) /\ m.key[n] = l.key[n]
      BY DEF Grows, Lasts
    <3>6. l.watermark <= r.watermark
      BY <3>1, <3>3, <3>4, <3>5 DEF Sown
    <3>7. ASSUME NEW n \in NodeSlot, Seeded(l, n)
          PROVE  Seeded(r, n) /\ r.key[n] = l.key[n]
      <4>1. b.seq # 0 /\ n <= l.watermark
        BY <3>7 DEF Vacant
      <4>2. n # op.id
        BY <3>3, <3>4, <3>5, <4>1
      <4>3. r.key[n] = m.key[n]
        BY <3>1, <4>2 DEF Sown
      <4>4. QED
        BY <3>2, <3>5, <3>7, <4>3
    <3>8. QED
      BY <3>6, <3>7 DEF Lasts
  <2>2. CASE op.kind # "Register"
    <3>1. Gives(r, m, b, op)
      BY <1>1, <2>2, PaymentApplied
    <3>2. r.key = m.key /\ r.source = m.source /\ r.watermark = m.watermark
      BY <3>1 DEF Gives
    <3> HIDE DEF r
    <3>3. QED
      BY <3>2 DEF Grows, Lasts, Seeded
  <2>3. QED
    BY <2>1, <2>2
<1> HIDE DEF r
<1>6. Grows(l, r, b)
  BY <1>2, <1>3, <1>4, <1>5 DEF Grows
<1>7. QED
  BY <1>6 DEF r

LEMMA RunLasts ==
  ASSUME NEW l \in LedgerState, NEW b \in Universe, Tier1Gate(b), Vacant(l, b),
         NEW h, Run(h, Len(b.ops), l, b)
  PROVE  \A i \in 0 .. Len(b.ops) : Grows(l, h[i].l, b)
<1> DEFINE n == Len(b.ops)
           Good == {i \in 0 .. n : Grows(l, h[i].l, b)}
<1>1. n \in Nat /\ DOMAIN b.ops = 1 .. n
  BY UniverseAssumption
<1>2. 0 \in Good
  <2>1. h[0].l = l
    BY DEF Run, Started
  <2>2. l.watermark <= l.watermark
    BY DEF LedgerState
  <2>3. Grows(l, l, b)
    BY <2>2 DEF Grows, Lasts
  <2>4. QED
    BY <1>1, <2>1, <2>3
<1>3. ASSUME NEW i \in 1 .. n, i - 1 \in Good
      PROVE  i \in Good
  <2>1. i \in DOMAIN b.ops /\ i - 1 \in 0 .. n /\ i \in 0 .. n
    BY <1>1
  <2>2. PICK value : Admitted(h[i - 1].l, Complete, b, b.ops[i], h[i - 1].fees, h[i - 1].outs, 0, value)
    BY DEF Run
  <2>3. h[i] = Stepped(h[i - 1], b, b.ops[i])
    BY DEF Run
  <2>4. h[i].l = Applied(h[i - 1].l, b, b.ops[i])
    BY <2>3 DEF Stepped
  <2>5. Payable(b.ops[i])
    BY <2>1, <2>2, AdmittedPayable
  <2>6. Grows(l, h[i - 1].l, b)
    BY <1>3
  <2>7. Grows(l, h[i].l, b)
    BY <2>2, <2>4, <2>5, <2>6, EffectGrows
  <2>8. QED
    BY <2>1, <2>7
<1> HIDE DEF n, Good
<1>4. 0 .. n \subseteq Good
  BY <1>1, <1>2, <1>3, UpTo
<1>5. QED
  BY <1>4 DEF n, Good

LEMMA BlockGrows ==
  ASSUME NEW l \in LedgerState, NEW b \in Universe, Tier1Gate(b), Vacant(l, b),
         NEW m, Derives(l, b, m)
  PROVE  /\ m \in LedgerState /\ Lasts(l, m)
         /\ \A n \in NodeSlot : m.source[n] \in {l.source[n], b.seq}
         /\ m.unspent \subseteq l.unspent \union NewOutputs(b)
<1> DEFINE n == Len(b.ops)
<1>1. PICK h : /\ Run(h, n, l, b)
               /\ EndAdmitted(h[n].l, b, h[n].fees)
               /\ m = Committed(h[n].l, b, h[n].fees)
  BY DEF Derives
<1>2. n \in 0 .. n /\ n \in Nat
  BY UniverseAssumption
<1>3. Grows(l, h[n].l, b)
  BY <1>1, <1>2, RunLasts
<1>4. h[n].l \in LedgerState /\ h[n].fees \in Amount
  BY <1>1, <1>2, RunTyped
<1> HIDE DEF n
<1> DEFINE e == h[n].l
<1>5. Rewarded(m, e, b, h[n].fees)
  BY <1>1, <1>4, CommitRewards
<1> HIDE DEF e
<1>6. m \in LedgerState /\ m.key = e.key /\ m.watermark = e.watermark
      /\ m.source = MovedSources(e, b) /\ m.unspent = e.unspent \union NewOutputs(b)
  BY <1>5 DEF Rewarded
<1>7. e \in LedgerState /\ Lasts(l, e) /\ e.unspent \subseteq l.unspent
      /\ \A i \in NodeSlot : e.source[i] \in {l.source[i], b.seq}
  BY <1>3 DEF Grows, e
<1>8. b.seq # Unseeded
  BY UniverseAssumption DEF Unseeded
<1>9. \A i \in NodeSlot : m.source[i] \in {e.source[i], b.seq} /\ (Seeded(e, i) => Seeded(m, i))
  BY <1>6, <1>8 DEF MovedSources, Seeded
<1>10. QED
  BY <1>6, <1>7, <1>9 DEF Lasts

-----------------------------------------------------------------------------
(* What follows for any two ledgers of the replay.                           *)

LEMMA ReplayTyped ==
  ASSUME NEW c, NEW low, WellFormed(c, low), NEW R, Replays(R, c), NEW k \in 0 .. Len(c)
  PROVE  /\ R[k] \in LedgerState
         /\ k = 0 => R[k] = EmptyLedger
         /\ k # 0 => Roster(R[k])
<1>1. CASE k = 0
  BY <1>1, EmptyTyped DEF Replays
<1>2. CASE k # 0
  BY <1>2 DEF Replays, WellFormed
<1>3. QED
  BY <1>1, <1>2

LEMMA ReplayBlock ==
  ASSUME NEW c, NEW low, WellFormed(c, low), NEW R, Replays(R, c), NEW k \in 1 .. Len(c)
  PROVE  /\ c[k] \in Universe /\ c[k].seq = k - 1 /\ Tier1Gate(c[k])
         /\ k - 1 \in 0 .. Len(c)
         /\ R[k - 1] \in LedgerState /\ R[k] \in LedgerState
         /\ Derives(R[k - 1], c[k], R[k])
         /\ Vacant(R[k - 1], c[k])
<1>1. /\ c[k] \in Universe /\ c[k].seq = k - 1 /\ Tier1Gate(c[k]) /\ Len(c) \in Nat
      /\ Derives(R[k - 1], c[k], R[k]) /\ R[k] \in LedgerState
  BY DEF WellFormed, Replays
<1>2. k - 1 \in 0 .. Len(c)
  BY <1>1
<1> DEFINE j == k - 1
<1>3. j \in 0 .. Len(c) /\ c[k].seq = j
  BY <1>1, <1>2
<1> HIDE DEF j
<1>4. R[j] \in LedgerState /\ (j = 0 => R[j] = EmptyLedger) /\ (j # 0 => Roster(R[j]))
  BY <1>3, ReplayTyped
<1>5. Vacant(R[j], c[k])
  <2>1. CASE j = 0
    <3>1. \A n \in NodeSlot : ~Seeded(R[j], n)
      BY <1>4, <2>1, EmptySprouts DEF Seeded, EmptyLedger, Unseeded
    <3>2. QED
      BY <3>1 DEF Vacant
  <2>2. CASE j # 0
    BY <1>3, <1>4, <2>2 DEF Vacant, Roster
  <2>3. QED
    BY <2>1, <2>2
<1>6. QED
  BY <1>1, <1>2, <1>4, <1>5 DEF j

LEMMA LastsOn ==
  ASSUME NEW l \in LedgerState, NEW m \in LedgerState, NEW r \in LedgerState, Lasts(l, m), Lasts(m, r)
  PROVE  Lasts(l, r)
<1>1. l.watermark \in Nat /\ m.watermark \in Nat /\ r.watermark \in Nat
  BY DEF LedgerState
<1>2. l.watermark <= r.watermark
  BY <1>1 DEF Lasts
<1>3. QED
  BY <1>2 DEF Lasts

LEMMA ReplayLasts ==
  ASSUME NEW c, NEW low, WellFormed(c, low), NEW R, Replays(R, c),
         NEW j \in 0 .. Len(c), NEW k \in j .. Len(c)
  PROVE  Lasts(R[j], R[k])
<1> DEFINE n == Len(c)
           Good == {i \in 0 .. n : i >= j => Lasts(R[j], R[i])}
<1>1. n \in Nat
  BY DEF WellFormed
<1>2. R[j] \in LedgerState
  BY ReplayTyped
<1>3. Lasts(R[j], R[j])
  <2>1. R[j].watermark <= R[j].watermark
    BY <1>2 DEF LedgerState
  <2>2. QED
    BY <2>1 DEF Lasts
<1>4. 0 \in Good
  BY <1>1, <1>3
<1>5. ASSUME NEW i \in 1 .. n, i - 1 \in Good
      PROVE  i \in Good
  <2>1. CASE i > j
    <3>1. i - 1 >= j /\ Lasts(R[j], R[i - 1])
      BY <1>1, <1>5, <2>1
    <3>2. /\ c[i] \in Universe /\ Tier1Gate(c[i]) /\ Vacant(R[i - 1], c[i])
          /\ R[i - 1] \in LedgerState /\ R[i] \in LedgerState /\ Derives(R[i - 1], c[i], R[i])
      BY ReplayBlock
    <3>3. Lasts(R[i - 1], R[i])
      BY <3>2, BlockGrows
    <3>4. Lasts(R[j], R[i])
      BY <1>2, <3>1, <3>2, <3>3, LastsOn
    <3>5. QED
      BY <3>4
  <2>2. CASE i = j
    BY <1>3, <2>2
  <2>3. CASE i < j
    BY <2>3
  <2>4. QED
    BY <2>1, <2>2, <2>3
<1> HIDE DEF n, Good
<1>6. 0 .. n \subseteq Good
  BY <1>1, <1>4, <1>5, UpTo
<1>7. QED
  BY <1>6 DEF n, Good

(* A node was on the roster after the block its source names, and outputs    *)
(* are of blocks of the chain.                                               *)
Dated(R, k) ==
  /\ \A n \in NodeSlot :
       R[k].source[n] \in Nat => R[k].source[n] < k /\ Seeded(R[R[k].source[n] + 1], n)
  /\ \A u \in R[k].unspent : u[1] < k

LEMMA ReplayDated ==
  ASSUME NEW c, NEW low, WellFormed(c, low), NEW R, Replays(R, c), NEW k \in 0 .. Len(c)
  PROVE  Dated(R, k)
<1> DEFINE n == Len(c)
           Good == {i \in 0 .. n : Dated(R, i)}
<1>1. n \in Nat
  BY DEF WellFormed
<1>2. 0 \in Good
  <2>1. R[0] = EmptyLedger
    BY DEF Replays
  <2>2. Dated(R, 0)
    BY <2>1 DEF Dated, EmptyLedger, Unseeded
  <2>3. QED
    BY <1>1, <2>2
<1>3. ASSUME NEW i \in 1 .. n, i - 1 \in Good
      PROVE  i \in Good
  <2>1. /\ c[i] \in Universe /\ Tier1Gate(c[i]) /\ c[i].seq = i - 1 /\ Vacant(R[i - 1], c[i])
        /\ R[i - 1] \in LedgerState /\ R[i] \in LedgerState /\ Derives(R[i - 1], c[i], R[i])
    BY ReplayBlock
  <2>2. /\ \A m \in NodeSlot : R[i].source[m] \in {R[i - 1].source[m], c[i].seq}
        /\ R[i].unspent \subseteq R[i - 1].unspent \union NewOutputs(c[i])
    BY <2>1, BlockGrows
  <2>3. Dated(R, i - 1)
    BY <1>3
  <2>4. ASSUME NEW m \in NodeSlot, R[i].source[m] \in Nat
        PROVE  R[i].source[m] < i /\ Seeded(R[R[i].source[m] + 1], m)
    <3>1. CASE R[i].source[m] = i - 1
      <4>1. R[i].source[m] + 1 = i
        BY <1>1, <3>1
      <4>2. Seeded(R[i], m)
        BY <2>4 DEF Seeded, Unseeded
      <4>3. QED
        BY <1>1, <3>1, <4>1, <4>2
    <3>2. CASE R[i].source[m] # i - 1
      <4>1. R[i].source[m] = R[i - 1].source[m]
        BY <2>1, <2>2, <3>2
      <4>2. R[i - 1].source[m] < i - 1 /\ Seeded(R[R[i - 1].source[m] + 1], m)
        BY <2>3, <2>4, <4>1 DEF Dated
      <4>3. QED
        BY <1>1, <2>4, <4>1, <4>2
    <3>3. QED
      BY <3>1, <3>2
  <2>5. ASSUME NEW u \in R[i].unspent PROVE u[1] < i
    <3>1. u[1] \in Nat
      BY <2>1 DEF LedgerState
    <3>2. CASE u \in NewOutputs(c[i])
      BY <1>1, <2>1, <3>2 DEF NewOutputs
    <3>3. CASE u \in R[i - 1].unspent
      <4>1. u[1] < i - 1
        BY <2>3, <3>3 DEF Dated
      <4>2. QED
        BY <1>1, <3>1, <4>1
    <3>4. QED
      BY <2>2, <3>2, <3>3
  <2>6. Dated(R, i)
    BY <2>4, <2>5 DEF Dated
  <2>7. QED
    BY <1>1, <2>6
<1> HIDE DEF n, Good
<1>4. 0 .. n \subseteq Good
  BY <1>1, <1>2, <1>3, UpTo
<1>5. QED
  BY <1>4 DEF n, Good

-----------------------------------------------------------------------------
(* The ledger r of a node that has its chain from sequence low up, and t of  *)
(* the replay: equal with the whole chain; else r knows a part of the roster *)
(* and the outputs from low on.                                              *)

Joined(r, t, low) ==
  /\ r \in LedgerState /\ t \in LedgerState
  /\ \A n \in NodeSlot : IF Seeded(r, n) THEN /\ Seeded(t, n)
                                              /\ r.key[n] = t.key[n] /\ r.balance[n] = t.balance[n]
                         ELSE r.key[n] = NoKey
  /\ r.unspent = {u \in t.unspent : u[1] >= low}

(* max is what the earliest balance block says, or zero: the watermark of r  *)
(* is that until it is overtaken.  Without a balance block it is zero until  *)
(* the first registration.                                                   *)
Bounds(r, t, p, max) ==
  /\ r.watermark \in {max, t.watermark}
  /\ p.bounded => t.watermark <= r.watermark
  /\ p.saw => r.watermark = t.watermark
  /\ ~p.bounded => /\ max = 0 /\ ~p.saw
                   /\ \A n \in NodeSlot : Seeded(r, n) => r.watermark = t.watermark

Follows(r, t, p, low, max) ==
  /\ p.complete \in BOOLEAN /\ t \in LedgerState
  /\ IF p.complete THEN r = t /\ p.bounded /\ low = 0 ELSE Joined(r, t, low) /\ Bounds(r, t, p, max)

(* A balance block seeds a node before the replay makes it the node's source. *)
Sourced(r, t, b) ==
  \A n \in NodeSlot :
    Seeded(r, n) => r.source[n] = t.source[n] \/ (b.kind = "Balance" /\ EntryOf(b, n) # {})

(* An effect that the replay takes, with its amounts as the chain c has them. *)
Takes(t, c, b, op, x, o) ==
  /\ b \in Universe /\ Payable(op)
  /\ op.kind \in {"Transfer", "Register", "BalanceIn"} => op.vote \in Nat
  /\ op.kind = "UtxoIn" => OutputAmount(c, op.seq, op.index) = op.amount
  /\ \E value : Admitted(t, Complete, b, op, x, o, 0, value)

(* What the node is to check is what the replay has checked, or less.        *)
LEMMA JoinedAlike ==
  ASSUME NEW r, NEW t, NEW p, NEW low, NEW max, Joined(r, t, low), Bounds(r, t, p, max)
  PROVE  /\ \A n : Seeded(r, n) => Seeded(t, n) /\ BalanceOf(r, n) = BalanceOf(t, n) /\ r.key[n] = t.key[n]
         /\ \A n \in Nat : p.bounded /\ InRange(t, n) => InRange(r, n)
         /\ \A n \in Nat, m \in NodeSlot : Seeded(r, m) /\ InRange(t, n) => InRange(r, n)
         /\ \A k : KeyRegistered(r, k) => KeyRegistered(t, k)
         /\ \A n, x : Fits(t, n, x) => Fits(r, n, x)
<1>1. \A n : Seeded(r, n) => n \in NodeSlot
  BY DEF Seeded
<1>2. \A n : Seeded(r, n) => Seeded(t, n) /\ BalanceOf(r, n) = BalanceOf(t, n) /\ r.key[n] = t.key[n]
  BY <1>1 DEF Joined, BalanceOf
<1>3. r.watermark \in Nat /\ t.watermark \in Nat
  BY DEF Joined, LedgerState
<1>4. \A n \in Nat : p.bounded /\ InRange(t, n) => InRange(r, n)
  BY <1>3 DEF Bounds, InRange
<1>5. \A n \in Nat, m \in NodeSlot : Seeded(r, m) /\ InRange(t, n) => InRange(r, n)
  <2>1. CASE p.bounded
    BY <1>4, <2>1
  <2>2. CASE ~p.bounded
    BY <2>2 DEF Bounds, InRange
  <2>3. QED
    BY <2>1, <2>2
<1>6. \A k : KeyRegistered(r, k) => KeyRegistered(t, k)
  BY <1>2 DEF KeyRegistered
<1>7. \A n, x : Fits(t, n, x) => Fits(r, n, x)
  BY <1>2 DEF Fits
<1>8. QED
  BY <1>2, <1>4, <1>5, <1>6, <1>7

LEMMA JoinedAdmits ==
  ASSUME NEW r, NEW t, NEW p, NEW low, NEW max, Joined(r, t, low), Bounds(r, t, p, max),
         ~p.complete, NEW c, NEW b, b.seq # 0, NEW op, NEW x, NEW o, Takes(t, c, b, op, x, o)
  PROVE  Admitted(r, p, b, op, x, o, low, Amounts(r, c))
<1>1. /\ \A n : Seeded(r, n) => Seeded(t, n) /\ BalanceOf(r, n) = BalanceOf(t, n) /\ r.key[n] = t.key[n]
      /\ \A n \in Nat : p.bounded /\ InRange(t, n) => InRange(r, n)
      /\ \A n \in Nat, m \in NodeSlot : Seeded(r, m) /\ InRange(t, n) => InRange(r, n)
      /\ \A k : KeyRegistered(r, k) => KeyRegistered(t, k)
      /\ \A n, y : Fits(t, n, y) => Fits(r, n, y)
  BY JoinedAlike
<1>2. PICK value : Admitted(t, Complete, b, op, x, o, 0, value)
  BY DEF Takes
<1>3. Payable(op) /\ op.kind \in {"Transfer", "Register"} \union Complex
  BY DEF Takes, Payable
<1>4. \A n : Pays(r, b, n) => Pays(t, b, n) /\ n \in NodeSlot /\ Seeded(r, n)
  BY <1>1 DEF Pays, Seeded
<1>5. \A n, y : Affords(t, b, n, y) => Affords(r, b, n, y)
  BY <1>1, <1>4 DEF Affords
<1>6. Signed(t, b, op) => Signed(r, b, op)
  BY <1>1, <1>4 DEF Signed
<1>7. op.kind \in {"Transfer", "BalanceOut"} =>
        (CanReceive(t, Complete, b, op.to) => CanReceive(r, p, b, op.to))
  BY <1>1, <1>3 DEF CanReceive, Complete, Payable, ParsedEffect
<1>8. op.kind \in {"Transfer", "Register", "BalanceIn"} =>
        (MayAct(t, Complete, b, op) => MayAct(r, p, b, op))
  <2> SUFFICES ASSUME op.kind \in {"Transfer", "Register", "BalanceIn"}, MayAct(t, Complete, b, op)
               PROVE  MayAct(r, p, b, op)
    OBVIOUS
  <2>1. op.vote \in Nat /\ Seeded(t, op.node) /\ InRange(t, op.node)
        /\ (Pays(t, b, op.node) => InRange(t, op.vote))
    BY DEF MayAct, Complete, Takes
  <2>2. op.node \in Nat
    BY <2>1, ZeroSlot DEF Seeded
  <2>3. p.bounded => InRange(r, op.node)
    BY <1>1, <2>1, <2>2
  <2>4. Pays(r, b, op.node) => InRange(r, op.vote)
    BY <1>1, <1>4, <2>1
  <2>5. QED
    BY <2>3, <2>4 DEF MayAct
<1>9. CASE op.kind = "Transfer"
  <2>1. TransferAdmitted(t, Complete, b, op, x)
    BY <1>2, <1>9 DEF Admitted
  <2>2. (Pays(r, b, op.node) /\ op.to = op.node) \/ Fits(r, op.to, op.amount)
    <3>1. CASE Pays(t, b, op.node) /\ op.to = op.node
      BY <3>1 DEF Fits, Pays
    <3>2. CASE Fits(t, op.to, op.amount)
      BY <1>1, <3>2
    <3>3. QED
      BY <2>1, <3>1, <3>2 DEF TransferAdmitted
  <2>3. TransferAdmitted(r, p, b, op, x)
    BY <1>5, <1>6, <1>7, <1>8, <1>9, <2>1, <2>2 DEF TransferAdmitted
  <2>4. QED
    BY <1>9, <2>3 DEF Admitted
<1>10. CASE op.kind = "Register"
  <2>1. RegisterAdmitted(t, Complete, b, op, x)
    BY <1>2, <1>10 DEF Admitted
  <2>2. p.saw => op.id = r.watermark + 1
    BY <2>1 DEF RegisterAdmitted, Complete, Bounds
  <2>3. RegisterAdmitted(r, p, b, op, x)
    BY <1>1, <1>5, <1>6, <1>8, <1>10, <2>1, <2>2 DEF RegisterAdmitted
  <2>4. QED
    BY <1>10, <2>3 DEF Admitted
<1>11. CASE op.kind = "BalanceIn"
  BY <1>2, <1>5, <1>8, <1>11 DEF Admitted
<1>12. CASE op.kind = "UtxoIn"
  <2>1. UtxoAdmitted(t, Complete, b, op, 0, value) /\ op.seq \in Nat
    BY <1>2, <1>3, <1>12 DEF Admitted, Payable, ParsedEffect
  <2>2. Resolves(p, b, op.seq, low)
    BY <2>1 DEF UtxoAdmitted, Resolves
  <2>3. <<op.seq, op.index>> \in t.unspent
    BY <2>1 DEF UtxoAdmitted
  <2>4. ASSUME op.seq >= low
        PROVE  /\ <<op.seq, op.index>> \in r.unspent
               /\ Amounts(r, c)[<<op.seq, op.index>>] = op.amount
    <3>1. <<op.seq, op.index>> \in r.unspent
      BY <2>3, <2>4 DEF Joined
    <3>2. Amounts(r, c)[<<op.seq, op.index>>] = OutputAmount(c, op.seq, op.index)
      BY <3>1 DEF Amounts
    <3>3. QED
      BY <1>12, <3>1, <3>2 DEF Takes
  <2>5. QED
    BY <1>12, <2>2, <2>4 DEF Admitted, UtxoAdmitted
<1>13. CASE op.kind = "BalanceOut"
  BY <1>1, <1>2, <1>7, <1>13 DEF Admitted
<1>14. CASE op.kind \in {"UtxoOut", "Close"}
  BY <1>2, <1>14 DEF Admitted
<1>15. QED
  BY <1>3, <1>9, <1>10, <1>11, <1>12, <1>13, <1>14 DEF Complex, Inputs, Outputs

(* With the whole chain, a balance block met before makes no difference.     *)
LEMMA WholeAdmits ==
  ASSUME NEW t \in LedgerState, NEW p, p.complete = TRUE, p.bounded,
         NEW c, NEW b, NEW op, NEW x, NEW o, Takes(t, c, b, op, x, o)
  PROVE  Admitted(t, p, b, op, x, o, 0, Amounts(t, c))
<1>1. PICK value : Admitted(t, Complete, b, op, x, o, 0, value)
  BY DEF Takes
<1>2. Payable(op) /\ op.kind \in {"Transfer", "Register"} \union Complex
  BY DEF Takes, Payable
<1>3. /\ MayAct(t, Complete, b, op) => MayAct(t, p, b, op)
      /\ \A n : CanReceive(t, Complete, b, n) => CanReceive(t, p, b, n)
  BY DEF MayAct, CanReceive, Complete
<1>4. CASE op.kind = "Transfer"
  BY <1>1, <1>3, <1>4 DEF Admitted, TransferAdmitted
<1>5. CASE op.kind = "Register"
  <2>1. RegisterAdmitted(t, Complete, b, op, x)
    BY <1>1, <1>5 DEF Admitted
  <2>2. b.seq # 0 => op.id = t.watermark + 1
    BY <2>1 DEF RegisterAdmitted, Complete
  <2>3. RegisterAdmitted(t, p, b, op, x)
    BY <1>3, <2>1, <2>2 DEF RegisterAdmitted
  <2>4. QED
    BY <1>5, <2>3 DEF Admitted
<1>6. CASE op.kind = "BalanceIn"
  BY <1>1, <1>3, <1>6 DEF Admitted
<1>7. CASE op.kind = "UtxoIn"
  <2>1. UtxoAdmitted(t, Complete, b, op, 0, value) /\ op.seq \in Nat
    BY <1>1, <1>2, <1>7 DEF Admitted, Payable, ParsedEffect
  <2>2. Resolves(p, b, op.seq, 0)
    BY <2>1 DEF UtxoAdmitted, Resolves
  <2>3. <<op.seq, op.index>> \in t.unspent
    BY <2>1 DEF UtxoAdmitted
  <2>4. Amounts(t, c)[<<op.seq, op.index>>] = OutputAmount(c, op.seq, op.index)
    BY <2>3 DEF Amounts
  <2>5. OutputAmount(c, op.seq, op.index) = op.amount
    BY <1>7 DEF Takes
  <2>6. UtxoAdmitted(t, p, b, op, 0, Amounts(t, c))
    BY <2>2, <2>3, <2>4, <2>5 DEF UtxoAdmitted
  <2>7. QED
    BY <1>7, <2>6 DEF Admitted
<1>8. CASE op.kind = "BalanceOut"
  BY <1>1, <1>3, <1>8 DEF Admitted
<1>9. CASE op.kind \in {"UtxoOut", "Close"}
  BY <1>1, <1>9 DEF Admitted
<1>10. QED
  BY <1>2, <1>4, <1>5, <1>6, <1>7, <1>8, <1>9 DEF Complex, Inputs, Outputs

LEMMA FollowsAdmits ==
  ASSUME NEW r, NEW t, NEW p, NEW low, NEW max, Follows(r, t, p, low, max),
         NEW c, NEW b, p.complete \/ b.seq # 0, NEW op, NEW x, NEW o, Takes(t, c, b, op, x, o)
  PROVE  Admitted(r, p, b, op, x, o, low, Amounts(r, c))
<1>1. CASE p.complete
  <2>1. r = t /\ p.bounded /\ low = 0 /\ p.complete = TRUE /\ t \in LedgerState
    BY <1>1 DEF Follows
  <2>2. QED
    BY <2>1, WholeAdmits
<1>2. CASE ~p.complete
  BY <1>2, JoinedAdmits DEF Follows
<1>3. QED
  BY <1>1, <1>2

(* An effect does to both ledgers the same.                                  *)
LEMMA FollowsRegister ==
  ASSUME NEW r, NEW t, NEW p, NEW low, NEW max, Joined(r, t, low), Bounds(r, t, p, max), max \in Nat,
         NEW b, b.seq \in Nat, b.seq # 0, NEW op, Payable(op), op.kind = "Register",
         op.id = t.watermark + 1, Sourced(r, t, b)
  PROVE  /\ Joined(Applied(r, b, op), Applied(t, b, op), low)
         /\ Bounds(Applied(r, b, op), Applied(t, b, op), p, max)
         /\ Sourced(Applied(r, b, op), Applied(t, b, op), b)
<1> DEFINE r2 == Applied(r, b, op)
           t2 == Applied(t, b, op)
<1>1. r \in LedgerState /\ t \in LedgerState
  BY DEF Joined
<1>2. Sown(r2, r, b, op) /\ Sown(t2, t, b, op)
  BY <1>1, RegisterApplied
<1>3. /\ \A n \in NodeSlot : Seeded(r2, n) <=> Seeded(r, n) \/ n = op.id
      /\ \A n \in NodeSlot : Seeded(t2, n) <=> Seeded(t, n) \/ n = op.id
  BY <1>1, <1>2, SeededSown
<1> HIDE DEF r2, t2
<1>4. ASSUME NEW n \in NodeSlot, Seeded(r2, n)
      PROVE  /\ Seeded(t2, n) /\ r2.key[n] = t2.key[n] /\ r2.balance[n] = t2.balance[n]
             /\ r2.source[n] = t2.source[n] \/ (b.kind = "Balance" /\ EntryOf(b, n) # {})
  <2>1. CASE n = op.id
    BY <1>2, <1>3, <2>1 DEF Sown
  <2>2. CASE n # op.id
    <3>1. Seeded(r, n) /\ Seeded(t, n) /\ r.key[n] = t.key[n] /\ r.balance[n] = t.balance[n]
      BY <1>3, <1>4, <2>2 DEF Joined
    <3>2. Price(r, b, op, n) = Price(t, b, op, n)
      BY <3>1 DEF Price, Pays
    <3>3. r.source[n] = t.source[n] \/ (b.kind = "Balance" /\ EntryOf(b, n) # {})
      BY <3>1 DEF Sourced
    <3>4. QED
      BY <1>2, <1>3, <2>2, <3>1, <3>2, <3>3 DEF Sown
  <2>3. QED
    BY <2>1, <2>2
<1>5. \A n \in NodeSlot : ~Seeded(r2, n) => r2.key[n] = NoKey
  BY <1>2, <1>3 DEF Sown, Joined
<1>6. r2.unspent = {u \in t2.unspent : u[1] >= low}
  BY <1>2 DEF Sown, Joined
<1>7. Joined(r2, t2, low)
  BY <1>2, <1>4, <1>5, <1>6 DEF Joined, Sown
<1>8. Bounds(r2, t2, p, max)
  <2>1. r.watermark \in Nat /\ t.watermark \in Nat
    BY <1>1 DEF LedgerState
  <2>2. CASE op.id \notin NodeSlot
    <3>1. r2.watermark = r.watermark /\ t2.watermark = t.watermark
      BY <1>2, <2>2 DEF Sown
    <3>2. \A n \in NodeSlot : Seeded(r2, n) => Seeded(r, n)
      BY <1>3, <2>2
    <3>3. QED
      BY <3>1, <3>2 DEF Bounds
  <2>3. CASE op.id \in NodeSlot
    <3>1. t2.watermark = t.watermark + 1
      BY <1>2, <2>1, <2>3 DEF Sown
    <3>2. r2.watermark = IF r.watermark <= t.watermark + 1 THEN t.watermark + 1 ELSE r.watermark
      BY <1>2, <2>3 DEF Sown
    <3>3. /\ r.watermark \in {max, t.watermark}
          /\ p.saw => r.watermark = t.watermark
          /\ ~p.bounded => max = 0 /\ ~p.saw
      BY DEF Bounds
    <3>4. CASE r.watermark <= t.watermark + 1
      BY <2>1, <3>1, <3>2, <3>3, <3>4 DEF Bounds
    <3>5. CASE r.watermark > t.watermark + 1
      BY <2>1, <3>1, <3>2, <3>3, <3>5 DEF Bounds
    <3>6. QED
      BY <2>1, <3>4, <3>5
  <2>4. QED
    BY <2>2, <2>3
<1>9. Sourced(r2, t2, b)
  BY <1>4 DEF Sourced
<1>10. QED
  BY <1>7, <1>8, <1>9 DEF r2, t2

LEMMA FollowsPayment ==
  ASSUME NEW r, NEW t, NEW p, NEW low, NEW max, Joined(r, t, low), Bounds(r, t, p, max),
         NEW b, NEW op, Payable(op), op.kind # "Register", Sourced(r, t, b)
  PROVE  /\ Joined(Applied(r, b, op), Applied(t, b, op), low)
         /\ Bounds(Applied(r, b, op), Applied(t, b, op), p, max)
         /\ Sourced(Applied(r, b, op), Applied(t, b, op), b)
<1> DEFINE r2 == Applied(r, b, op)
           t2 == Applied(t, b, op)
<1>1. r \in LedgerState /\ t \in LedgerState /\ IsLedger(r) /\ IsLedger(t)
  BY StateIsLedger DEF Joined
<1>2. Gives(r2, r, b, op) /\ Gives(t2, t, b, op)
  BY <1>1, PaymentApplied
<1>3. IsApplied(r2, r, b, op) /\ IsApplied(t2, t, b, op)
  BY <1>1, AppliedFields DEF Payable
<1> HIDE DEF r2, t2
<1>4. \A n : Seeded(r2, n) = Seeded(r, n) /\ Seeded(t2, n) = Seeded(t, n)
  BY <1>2 DEF Gives, Seeded
<1>5. ASSUME NEW n \in NodeSlot, Seeded(r, n)
      PROVE  Seeded(t, n) /\ r2.key[n] = t2.key[n] /\ r2.balance[n] = t2.balance[n]
  <2>1. Seeded(t, n) /\ r.key[n] = t.key[n] /\ r.balance[n] = t.balance[n]
    BY <1>5 DEF Joined
  <2>2. Pays(r, b, n) = Pays(t, b, n)
    BY <1>5, <2>1 DEF Pays
  <2>3. Loss(r, b, op, n) = Loss(t, b, op, n) /\ Gain(r, b, op, n) = Gain(t, b, op, n)
    BY <1>5, <2>1, <2>2 DEF Loss, Gain
  <2>4. QED
    BY <1>2, <2>1, <2>3 DEF Gives
<1>6. \A n \in NodeSlot : ~Seeded(r, n) => r2.key[n] = NoKey
  BY <1>2 DEF Gives, Joined
<1>7. r2.unspent = {u \in t2.unspent : u[1] >= low}
  <2>1. r.unspent = {u \in t.unspent : u[1] >= low}
    BY DEF Joined
  <2>2. QED
    BY <1>3, <2>1 DEF IsApplied
<1>8. Joined(r2, t2, low)
  BY <1>2, <1>4, <1>5, <1>6, <1>7 DEF Joined, Gives
<1>9. Bounds(r2, t2, p, max)
  BY <1>2, <1>4 DEF Bounds, Gives
<1>10. Sourced(r2, t2, b)
  BY <1>2, <1>4 DEF Sourced, Gives
<1>11. QED
  BY <1>8, <1>9, <1>10 DEF r2, t2

LEMMA FollowsApplies ==
  ASSUME NEW r, NEW t, NEW p, NEW low, NEW max \in Nat, Follows(r, t, p, low, max),
         NEW c, NEW b, p.complete \/ b.seq # 0, NEW op, NEW x, NEW o, Takes(t, c, b, op, x, o),
         Sourced(r, t, b)
  PROVE  /\ Follows(Applied(r, b, op), Applied(t, b, op), p, low, max)
         /\ Sourced(Applied(r, b, op), Applied(t, b, op), b)
<1>1. Payable(op) /\ t \in LedgerState /\ b.seq \in Nat /\ p.complete \in BOOLEAN
  BY UniverseAssumption DEF Takes, Follows
<1>2. Applied(t, b, op) \in LedgerState
  <2>1. CASE op.kind = "Register"
    BY <1>1, <2>1, RegisterApplied DEF Sown
  <2>2. CASE op.kind # "Register"
    BY <1>1, <2>2, PaymentApplied DEF Gives
  <2>3. QED
    BY <2>1, <2>2
<1>3. CASE p.complete
  BY <1>1, <1>2, <1>3 DEF Follows, Sourced
<1>4. CASE ~p.complete
  <2>1. Joined(r, t, low) /\ Bounds(r, t, p, max) /\ b.seq # 0
    BY <1>4 DEF Follows
  <2>2. op.kind = "Register" => op.id = t.watermark + 1
    BY <2>1 DEF Takes, Admitted, RegisterAdmitted, Complete
  <2>3. /\ Joined(Applied(r, b, op), Applied(t, b, op), low)
        /\ Bounds(Applied(r, b, op), Applied(t, b, op), p, max)
        /\ Sourced(Applied(r, b, op), Applied(t, b, op), b)
    BY <1>1, <2>1, <2>2, FollowsRegister, FollowsPayment
  <2>4. QED
    BY <1>1, <1>2, <1>4, <2>3 DEF Follows
<1>5. QED
  BY <1>3, <1>4

-----------------------------------------------------------------------------
(* The effects of a block, one by one: the fold is a run of its step.        *)

PassState == [ok : BOOLEAN, l : LedgerState, fees : Amount, outs : 0 .. MaxOutputs]

PassStarted(l) == [ok |-> TRUE, l |-> l, fees |-> 0, outs |-> 0]

EffectStep(p, b, low, c) ==
  [q \in PassState \X (1 .. Len(b.ops)) |->
     PassEffect(q[1], p, b, b.ops[q[2]], low, Amounts(q[1].l, c))]

LEMMA PassEffectTyped ==
  ASSUME NEW b \in Universe, Tier1Gate(b), NEW p, NEW low, NEW c,
         NEW u \in PassState, NEW k \in 1 .. Len(b.ops)
  PROVE  PassEffect(u, p, b, b.ops[k], low, Amounts(u.l, c)) \in PassState
<1> DEFINE op == b.ops[k]
           a == Amounts(u.l, c)
           m == Applied(u.l, b, op)
           x == u.fees + FeeOf(u.l, b, op)
           o == u.outs + OutputsOf(op)
<1>1. k \in DOMAIN b.ops
  BY UniverseAssumption
<1>2. u.l \in LedgerState /\ u.fees \in Amount /\ u.outs \in 0 .. MaxOutputs /\ u.ok \in BOOLEAN
  BY DEF PassState
<1>3. CASE ~u.ok \/ ~Admitted(u.l, p, b, op, u.fees, u.outs, low, a)
  <2>1. PassEffect(u, p, b, op, low, a) = [u EXCEPT !.ok = FALSE]
    BY <1>3 DEF PassEffect
  <2>2. [u EXCEPT !.ok = FALSE] \in PassState
    BY DEF PassState
  <2>3. QED
    BY <2>1, <2>2
<1>4. CASE u.ok /\ Admitted(u.l, p, b, op, u.fees, u.outs, low, a)
  <2>1. Payable(op)
    BY <1>1, <1>4, AdmittedPayable
  <2>2. m \in LedgerState
    BY <1>2, <2>1, AppliedTyped
  <2>3. x \in Amount /\ o \in 0 .. MaxOutputs
    BY <1>2, <1>4, <2>1, FeesTyped
  <2>4. PassEffect(u, p, b, op, low, a) = [ok |-> TRUE, l |-> m, fees |-> x, outs |-> o]
    BY <1>4 DEF PassEffect
  <2> HIDE DEF m, x, o
  <2>5. [ok |-> TRUE, l |-> m, fees |-> x, outs |-> o] \in PassState
    BY <2>2, <2>3 DEF PassState
  <2>6. QED
    BY <2>4, <2>5
<1>5. QED
  BY <1>3, <1>4

LEMMA EffectsRun ==
  ASSUME NEW b \in Universe, Tier1Gate(b), NEW l, NEW p, FloorSeeded(l, p, b) \in LedgerState,
         NEW low, NEW c
  PROVE  HasRun(Len(b.ops), PassState, PassStarted(FloorSeeded(l, p, b)), EffectStep(p, b, low, c),
                PassEffects(l, p, b, low, c))
<1> DEFINE n == Len(b.ops)
           seq == b.ops
           first == PassStarted(FloorSeeded(l, p, b))
           Step(u, op) == PassEffect(u, p, b, op, low, Amounts(u.l, c))
           T == PassState
           g == EffectStep(p, b, low, c)
           Eq(h) == h = [s \in SUBSET (DOMAIN seq) |->
                          IF s = {} THEN first ELSE Step(h[s \ {Max(s)}], seq[Max(s)])]
           iter == CHOOSE h : Eq(h)
<1>1. PassEffects(l, p, b, low, c) = iter[DOMAIN seq]
  BY DEF PassEffects, FoldLeft, MapThenFoldSet, PassStarted
<1>2. n \in Nat /\ DOMAIN seq = 1 .. n
  BY UniverseAssumption
<1>3. \A u \in T, k \in 1 .. n : Step(u, seq[k]) \in T
  BY PassEffectTyped
<1>4. first \in T
  <2>1. 0 \in Amount /\ 0 \in 0 .. MaxOutputs
    BY GateAssumption DEF Amount
  <2> HIDE DEF first
  <2>2. QED
    BY <2>1 DEF PassState, PassStarted, first
<1>5. g \in [T \X (1 .. n) -> T] /\ \A u \in T, k \in 1 .. n : g[<<u, k>>] = Step(u, seq[k])
  BY <1>3 DEF EffectStep
<1> HIDE DEF Step, seq, n, T, first, g
<1>6. \A s \in SUBSET (1 .. n) : s # {} => Max(s) \in 1 .. n
  BY <1>2, TopOf
<1>7. PICK h \in [SUBSET (1 .. n) -> T] : FoldsUp(h, n, T, first, g)
  BY <1>2, <1>4, <1>5, FoldUpExists, Zenon
<1>8. ASSUME NEW s \in SUBSET (1 .. n), s # {}
      PROVE  h[s] = Step(h[s \ {Max(s)}], seq[Max(s)])
  <2>1. Max(s) \in 1 .. n /\ h[s \ {Max(s)}] \in T
    BY <1>6, <1>8
  <2>2. h[s] = g[<<h[s \ {Max(s)}], Max(s)>>]
    BY <1>7, <1>8, <2>1 DEF FoldsUp
  <2>3. QED
    BY <1>2, <1>5, <2>1, <2>2
<1>9. Eq(h)
  BY <1>2, <1>7, <1>8 DEF FoldsUp
<1> HIDE DEF Eq
<1>10. Eq(iter)
  BY <1>9
<1> HIDE DEF iter
<1>11. FoldsUp(iter, n, T, first, g)
  <2>1. iter[{}] = first
    BY <1>2, <1>10 DEF Eq
  <2>2. ASSUME NEW s \in SUBSET (1 .. n), s # {}, iter[s \ {Max(s)}] \in T
        PROVE  iter[s] = g[<<iter[s \ {Max(s)}], Max(s)>>]
    <3>1. Max(s) \in 1 .. n /\ iter[s] = Step(iter[s \ {Max(s)}], seq[Max(s)])
      BY <1>2, <1>6, <1>10, <2>2 DEF Eq
    <3>2. QED
      BY <1>2, <1>5, <2>2, <3>1
  <2>3. QED
    BY <2>1, <2>2 DEF FoldsUp
<1>12. HasRun(n, T, first, g, PassEffects(l, p, b, low, c))
  <2>1. HasRun(n, T, first, g, iter[1 .. n])
    BY <1>2, <1>4, <1>5, <1>11, FoldRunExists, Zenon
  <2>2. QED
    BY <1>1, <1>2, <2>1
<1>13. QED
  BY <1>12 DEF n, T, first, g

(* What the replay takes, with the amounts of the chain's outputs.           *)
LEMMA RunTakes ==
  ASSUME NEW b \in Universe, Tier1Gate(b), NEW t, NEW h, Run(h, Len(b.ops), t, b),
         NEW c, InputsFit(c, b, DOMAIN b.ops), NEW k \in 1 .. Len(b.ops)
  PROVE  /\ Takes(h[k - 1].l, c, b, b.ops[k], h[k - 1].fees, h[k - 1].outs)
         /\ h[k] = Stepped(h[k - 1], b, b.ops[k])
<1> DEFINE op == b.ops[k]
           r == h[k - 1]
<1>1. k \in DOMAIN b.ops /\ op.kind \in {"Transfer", "Register"} \union Complex
  BY UniverseAssumption
<1>2. h[k] = Stepped(r, b, op)
  BY DEF Run
<1>3. PICK value : Admitted(r.l, Complete, b, op, r.fees, r.outs, 0, value)
  BY DEF Run
<1>4. Payable(op)
  BY <1>1, <1>3, AdmittedPayable
<1>5. op.kind \in {"Transfer", "Register", "BalanceIn"} => op.vote \in Nat
  BY <1>1, HeaderAssumption DEF OpsOf
<1>6. op.kind = "UtxoIn" => OutputAmount(c, op.seq, op.index) = op.amount
  BY <1>1 DEF InputsFit, InputFits, SpendingOps, OpsOf
<1> HIDE DEF op, r
<1>7. Takes(r.l, c, b, op, r.fees, r.outs)
  BY <1>3, <1>4, <1>5, <1>6 DEF Takes
<1>8. QED
  BY <1>2, <1>7 DEF op, r

(* The pass is where the replay is: after an effect as after a block.        *)
InStep(u, e, q, b, low, max) ==
  /\ u.ok = TRUE /\ u.fees = e.fees /\ u.outs = e.outs
  /\ Follows(u.l, e.l, q, low, max) /\ Sourced(u.l, e.l, b)

LEMMA EffectFollows ==
  ASSUME NEW b \in Universe, NEW p, NEW low, NEW max \in Nat, p.complete \/ b.seq # 0,
         NEW c, NEW op, NEW e, Takes(e.l, c, b, op, e.fees, e.outs),
         NEW u \in PassState, InStep(u, e, p, b, low, max)
  PROVE  InStep(PassEffect(u, p, b, op, low, Amounts(u.l, c)), Stepped(e, b, op), p, b, low, max)
<1>1. /\ u.ok = TRUE /\ u.fees = e.fees /\ u.outs = e.outs
      /\ Follows(u.l, e.l, p, low, max) /\ Sourced(u.l, e.l, b)
  BY DEF InStep
<1>2. Admitted(u.l, p, b, op, u.fees, u.outs, low, Amounts(u.l, c))
  BY <1>1, FollowsAdmits
<1>3. PassEffect(u, p, b, op, low, Amounts(u.l, c))
        = [ok |-> TRUE, l |-> Applied(u.l, b, op), fees |-> u.fees + FeeOf(u.l, b, op),
           outs |-> u.outs + OutputsOf(op)]
  BY <1>1, <1>2 DEF PassEffect
<1>4. /\ Follows(Applied(u.l, b, op), Applied(e.l, b, op), p, low, max)
      /\ Sourced(Applied(u.l, b, op), Applied(e.l, b, op), b)
  BY <1>1, FollowsApplies
<1>5. FeeOf(u.l, b, op) = FeeOf(e.l, b, op)
  BY DEF FeeOf
<1>6. QED
  BY <1>1, <1>3, <1>4, <1>5 DEF InStep, Stepped

LEMMA EffectsFollow ==
  ASSUME NEW b \in Universe, Tier1Gate(b), NEW t, NEW h, Run(h, Len(b.ops), t, b),
         NEW c, InputsFit(c, b, DOMAIN b.ops),
         NEW l, NEW p, NEW low, NEW max \in Nat, p.complete \/ b.seq # 0,
         NEW q, Len(b.ops) # 0 => q = p,
         FloorSeeded(l, p, b) \in LedgerState,
         Follows(FloorSeeded(l, p, b), t, q, low, max), Sourced(FloorSeeded(l, p, b), t, b)
  PROVE  /\ PassEffects(l, p, b, low, c) \in PassState
         /\ InStep(PassEffects(l, p, b, low, c), h[Len(b.ops)], q, b, low, max)
<1> DEFINE n == Len(b.ops)
           first == PassStarted(FloorSeeded(l, p, b))
           g == EffectStep(p, b, low, c)
           x == PassEffects(l, p, b, low, c)
<1>1. n \in Nat
  BY UniverseAssumption
<1>2. HasRun(n, PassState, first, g, x)
  BY EffectsRun
<1>3. PICK Inv : Inv = [k \in 0 .. n |-> {u \in PassState : InStep(u, h[k], q, b, low, max)}]
  OBVIOUS
<1>4. first \in Inv[0]
  <2>1. h[0] = Started(t)
    BY DEF Run
  <2>2. InStep(first, h[0], q, b, low, max)
    BY <2>1 DEF InStep, PassStarted, Started
  <2>3. 0 \in Amount /\ 0 \in 0 .. MaxOutputs
    BY GateAssumption DEF Amount
  <2>4. first \in PassState
    BY <2>3 DEF PassState, PassStarted
  <2> HIDE DEF first, n
  <2>5. QED
    BY <1>1, <1>3, <2>2, <2>4
<1>5. ASSUME NEW k \in 1 .. n, NEW u \in PassState, u \in Inv[k - 1]
      PROVE  g[<<u, k>>] \in Inv[k]
  <2>1. k \in 0 .. n /\ k - 1 \in 0 .. n /\ q = p
    BY <1>1
  <2>2. InStep(u, h[k - 1], p, b, low, max)
    BY <1>3, <1>5, <2>1
  <2>3. /\ Takes(h[k - 1].l, c, b, b.ops[k], h[k - 1].fees, h[k - 1].outs)
        /\ h[k] = Stepped(h[k - 1], b, b.ops[k])
    BY RunTakes
  <2> DEFINE v == PassEffect(u, p, b, b.ops[k], low, Amounts(u.l, c))
  <2>4. g[<<u, k>>] = v
    BY DEF EffectStep
  <2>5. v \in PassState
    BY PassEffectTyped
  <2>6. InStep(v, h[k], p, b, low, max)
    BY <2>2, <2>3, EffectFollows
  <2> HIDE DEF v, g, n
  <2>7. QED
    BY <1>3, <2>1, <2>4, <2>5, <2>6
<1> HIDE DEF g, first, x, n
<1>6. HandsOn(Inv, n, PassState, g)
  BY <1>5 DEF HandsOn
<1>7. x \in Inv[n]
  BY <1>1, <1>2, <1>4, <1>6, RunInvariant
<1>8. n \in 0 .. n
  BY <1>1
<1>9. x \in PassState /\ InStep(x, h[n], q, b, low, max)
  BY <1>3, <1>7, <1>8
<1>10. QED
  BY <1>9 DEF n, x

-----------------------------------------------------------------------------
(* The block itself.                                                         *)

ProjectionState == [complete : BOOLEAN, bounded : BOOLEAN, saw : BOOLEAN]

Agreed(r, t) == \A n \in NodeSlot : Seeded(r, n) => r.source[n] = t.source[n]

(* The entries of a balance block that the replay has accepted say what it   *)
(* has of the nodes they list.                                               *)
LEMMA EntriesKnown ==
  ASSUME NEW b \in Universe, b.kind = "Balance", NEW t, BalanceAdmitted(t, Complete, b)
  PROVE  /\ b.maxNode = t.watermark
         /\ \A i \in DOMAIN b.entries :
              LET e == b.entries[i]
              IN  /\ e.node <= b.maxNode /\ Seeded(t, e.node) /\ e.votesMatch
                  /\ t.key[e.node] = e.key /\ t.balance[e.node] = e.balance
         /\ \A n : EntryOf(b, n) # {} =>
              LET e == b.entries[Min(EntryOf(b, n))]
              IN  Seeded(t, n) /\ t.key[n] = e.key /\ t.balance[n] = e.balance
<1>1. b.maxNode = t.watermark
  BY DEF BalanceAdmitted, Complete
<1>2. ASSUME NEW i \in DOMAIN b.entries
      PROVE  LET e == b.entries[i]
             IN  /\ e.node <= b.maxNode /\ Seeded(t, e.node) /\ e.votesMatch
                 /\ t.key[e.node] = e.key /\ t.balance[e.node] = e.balance
  <2>1. EntryAdmitted(t, Complete, b, b.entries[i])
    BY DEF BalanceAdmitted
  <2>2. QED
    BY <2>1 DEF EntryAdmitted, Complete
<1>3. ASSUME NEW n, EntryOf(b, n) # {}
      PROVE  LET e == b.entries[Min(EntryOf(b, n))]
             IN  Seeded(t, n) /\ t.key[n] = e.key /\ t.balance[n] = e.balance
  <2>1. EntryOf(b, n) \subseteq Nat
    BY HeaderAssumption DEF EntryOf
  <2>2. Min(EntryOf(b, n)) \in EntryOf(b, n)
    BY <1>3, <2>1, MinOf
  <2>3. Min(EntryOf(b, n)) \in DOMAIN b.entries /\ b.entries[Min(EntryOf(b, n))].node = n
    BY <2>2 DEF EntryOf
  <2>4. QED
    BY <1>2, <2>3
<1>4. QED
  BY <1>1, <1>2, <1>3

LEMMA FollowsBlock ==
  ASSUME NEW r, NEW t, NEW p, NEW low, NEW max, Follows(r, t, p, low, max),
         NEW b \in Universe, BlockAdmitted(t, Complete, b)
  PROVE  BlockAdmitted(r, p, b)
<1>1. CreatorSigned(r, p, b)
  <2>1. CreatorSigned(t, Complete, b)
    BY DEF BlockAdmitted
  <2>2. CASE p.complete
    BY <2>1, <2>2 DEF Follows, CreatorSigned, Complete
  <2>3. CASE ~p.complete
    <3>1. Joined(r, t, low)
      BY <2>3 DEF Follows
    <3>2. \A n : CreatorKey(r, n) \in {NoKey, CreatorKey(t, n)}
      BY <3>1 DEF CreatorKey, Joined
    <3>3. QED
      BY <2>1, <2>3, <3>2 DEF CreatorSigned
  <2>4. QED
    BY <2>2, <2>3
<1>2. ASSUME b.kind = "Balance" PROVE BalanceAdmitted(r, p, b)
  <2>1. BalanceAdmitted(t, Complete, b)
    BY <1>2 DEF BlockAdmitted
  <2>2. /\ b.maxNode = t.watermark
        /\ \A i \in DOMAIN b.entries :
             LET e == b.entries[i]
             IN  /\ e.node <= b.maxNode /\ Seeded(t, e.node) /\ e.votesMatch
                 /\ t.key[e.node] = e.key /\ t.balance[e.node] = e.balance
    BY <1>2, <2>1, EntriesKnown
  <2>3. p.complete \/ p.saw => b.maxNode = r.watermark
    BY <2>2 DEF Follows, Bounds
  <2>4. ASSUME NEW i \in DOMAIN b.entries PROVE EntryAdmitted(r, p, b, b.entries[i])
    <3> DEFINE e == b.entries[i]
    <3>1. /\ e.node <= b.maxNode /\ Seeded(t, e.node) /\ e.votesMatch
          /\ t.key[e.node] = e.key /\ t.balance[e.node] = e.balance
      BY <2>2
    <3>2. e.node \in NodeSlot
      BY <3>1 DEF Seeded
    <3> HIDE DEF e
    <3>3. CASE p.complete
      BY <3>1, <3>3 DEF Follows, EntryAdmitted, e
    <3>4. CASE ~p.complete
      <4>1. Seeded(r, e.node) => r.balance[e.node] = e.balance /\ r.key[e.node] = e.key
        BY <3>1, <3>2, <3>4 DEF Follows, Joined
      <4>2. QED
        BY <3>1, <3>4, <4>1 DEF EntryAdmitted, e
    <3>5. QED
      BY <3>3, <3>4
  <2>5. QED
    BY <2>3, <2>4 DEF BalanceAdmitted
<1>3. QED
  BY <1>1, <1>2 DEF BlockAdmitted

(* What the floor seeding of a balance block leaves.                         *)
LEMMA FloorFields ==
  ASSUME NEW r \in LedgerState, NEW t \in LedgerState, NEW p, NEW b \in Universe, b.kind = "Balance",
         BalanceAdmitted(t, Complete, b),
         NEW s, s = FloorSeeded(r, p, b)
  PROVE  /\ s \in LedgerState /\ s.unspent = r.unspent
         /\ s.watermark = IF p.saw \/ r.watermark > t.watermark THEN r.watermark ELSE t.watermark
         /\ \A n \in NodeSlot :
              IF ~Seeded(r, n) /\ EntryOf(b, n) # {}
              THEN /\ s.key[n] = t.key[n] /\ s.balance[n] = t.balance[n] /\ s.source[n] = b.seq
              ELSE /\ s.key[n] = r.key[n] /\ s.balance[n] = r.balance[n] /\ s.source[n] = r.source[n]
<1> DEFINE fresh(n) == ~Seeded(r, n) /\ EntryOf(b, n) # {}
           entry(n) == b.entries[Min(EntryOf(b, n))]
           key == [n \in NodeSlot |-> IF fresh(n) THEN entry(n).key ELSE r.key[n]]
           balance == [n \in NodeSlot |-> IF fresh(n) THEN entry(n).balance ELSE r.balance[n]]
           source == [n \in NodeSlot |-> IF fresh(n) THEN b.seq ELSE r.source[n]]
           watermark == IF p.saw \/ r.watermark > b.maxNode THEN r.watermark ELSE b.maxNode
<1>1. /\ b.maxNode = t.watermark
      /\ \A n : EntryOf(b, n) # {} => /\ Seeded(t, n)
                                      /\ t.key[n] = entry(n).key /\ t.balance[n] = entry(n).balance
  BY EntriesKnown
<1>2. b.seq \in Nat
  BY UniverseAssumption
<1>3. s = [r EXCEPT !.key = key, !.balance = balance, !.source = source, !.watermark = watermark]
  BY DEF FloorSeeded
<1>4. /\ key \in [NodeSlot -> Key \union {NoKey}]
      /\ \A n \in NodeSlot : key[n] = IF fresh(n) THEN t.key[n] ELSE r.key[n]
  BY <1>1 DEF LedgerState
<1>5. /\ balance \in [NodeSlot -> Amount]
      /\ \A n \in NodeSlot : balance[n] = IF fresh(n) THEN t.balance[n] ELSE r.balance[n]
  BY <1>1 DEF LedgerState
<1>6. /\ source \in [NodeSlot -> Nat \union {Unseeded, Released}]
      /\ \A n \in NodeSlot : source[n] = IF fresh(n) THEN b.seq ELSE r.source[n]
  BY <1>2 DEF LedgerState
<1>7. /\ watermark \in Nat
      /\ watermark = IF p.saw \/ r.watermark > t.watermark THEN r.watermark ELSE t.watermark
  BY <1>1 DEF LedgerState
<1> HIDE DEF key, balance, source, watermark
<1>8. /\ s.key = key /\ s.balance = balance /\ s.source = source /\ s.watermark = watermark
      /\ s.unspent = r.unspent
  BY <1>3 DEF LedgerState
<1>9. s \in LedgerState
  BY <1>3, <1>4, <1>5, <1>6, <1>7 DEF LedgerState
<1>10. QED
  BY <1>4, <1>5, <1>6, <1>7, <1>8, <1>9

Saw(p, b) == [p EXCEPT !.saw = @ \/ b.kind = "Balance"]

(* The first balance block is where the number of nodes was read.            *)
Looked(p, b, max) ==
  b.kind = "Balance" => p.bounded /\ (~p.complete /\ ~p.saw => max = b.maxNode)

LEMMA FollowsFloor ==
  ASSUME NEW r, NEW t, NEW p \in ProjectionState, NEW low, NEW max, Follows(r, t, p, low, max),
         Agreed(r, t), NEW b \in Universe, BlockAdmitted(t, Complete, b), Looked(p, b, max)
  PROVE  /\ FloorSeeded(r, p, b) \in LedgerState
         /\ Follows(FloorSeeded(r, p, b), t, Saw(p, b), low, max)
         /\ Sourced(FloorSeeded(r, p, b), t, b)
<1> DEFINE s == FloorSeeded(r, p, b)
           q == Saw(p, b)
<1>1. q.complete = p.complete /\ q.bounded = p.bounded /\ q.saw = (p.saw \/ b.kind = "Balance")
  BY DEF ProjectionState, Saw
<1>2. r \in LedgerState /\ t \in LedgerState /\ b.seq \in Nat
  BY UniverseAssumption DEF Follows, Joined
<1>3. CASE b.kind # "Balance"
  <2>1. s = r
    BY <1>3 DEF FloorSeeded
  <2>2. Follows(r, t, q, low, max)
    BY <1>1, <1>3 DEF Follows, Bounds
  <2>3. Sourced(r, t, b)
    BY DEF Agreed, Sourced
  <2>4. QED
    BY <1>2, <2>1, <2>2, <2>3
<1>4. CASE b.kind = "Balance"
  <2>1. BalanceAdmitted(t, Complete, b)
    BY <1>4 DEF BlockAdmitted
  <2>2. /\ b.maxNode = t.watermark
        /\ \A n : EntryOf(b, n) # {} => Seeded(t, n)
    BY <1>4, <2>1, EntriesKnown
  <2>3. /\ s \in LedgerState /\ s.unspent = r.unspent
        /\ s.watermark = IF p.saw \/ r.watermark > t.watermark THEN r.watermark ELSE t.watermark
        /\ \A n \in NodeSlot :
             IF ~Seeded(r, n) /\ EntryOf(b, n) # {}
             THEN /\ s.key[n] = t.key[n] /\ s.balance[n] = t.balance[n] /\ s.source[n] = b.seq
             ELSE /\ s.key[n] = r.key[n] /\ s.balance[n] = r.balance[n] /\ s.source[n] = r.source[n]
    BY <1>2, <1>4, <2>1, FloorFields
  <2>4. p.bounded /\ (~p.complete /\ ~p.saw => max = t.watermark)
    BY <1>4, <2>2 DEF Looked
  <2> HIDE DEF s
  <2>5. r.watermark \in Nat /\ t.watermark \in Nat
    BY <1>2 DEF LedgerState
  <2>6. CASE p.complete
    <3>1. r = t /\ p.bounded /\ low = 0
      BY <2>6 DEF Follows
    <3>2. \A n \in NodeSlot : s.key[n] = r.key[n] /\ s.balance[n] = r.balance[n] /\ s.source[n] = r.source[n]
      BY <2>2, <2>3, <3>1
    <3>3. s.key = r.key /\ s.source = r.source
      BY <1>2, <2>3, <3>2 DEF LedgerState
    <3>4. s.watermark = r.watermark
      BY <2>3, <2>5, <3>1
    <3>5. s = r
      BY <1>2, <2>3, <3>2, <3>3, <3>4, SameLedger
    <3>6. Follows(s, t, q, low, max)
      BY <1>1, <2>6, <3>1, <3>5 DEF Follows
    <3>7. Sourced(s, t, b)
      BY <3>1, <3>5 DEF Sourced
    <3>8. QED
      BY <2>3, <3>6, <3>7 DEF s
  <2>7. CASE ~p.complete
    <3>1. Joined(r, t, low) /\ Bounds(r, t, p, max)
      BY <2>7 DEF Follows
    <3>2. \A n \in NodeSlot : Seeded(s, n) <=> Seeded(r, n) \/ EntryOf(b, n) # {}
      BY <1>2, <2>3 DEF Seeded, Unseeded
    <3>3. Joined(s, t, low)
      BY <2>2, <2>3, <3>1, <3>2 DEF Joined
    <3>4. s.watermark = t.watermark
      BY <2>3, <2>4, <2>5, <2>7, <3>1 DEF Bounds
    <3>5. Bounds(s, t, q, max)
      BY <1>1, <2>4, <2>5, <3>4 DEF Bounds
    <3>6. Sourced(s, t, b)
      BY <1>4, <2>3, <3>2 DEF Sourced, Agreed
    <3>7. Follows(s, t, q, low, max)
      BY <1>1, <1>2, <2>7, <3>3, <3>5 DEF Follows, ProjectionState
    <3>8. QED
      BY <2>3, <3>6, <3>7 DEF s
  <2>8. QED
    BY <2>6, <2>7
<1>5. QED
  BY <1>3, <1>4

(* Whom a segment that bounds no reference may vote for.                     *)
Told(p, b) == p.bounded \/ b.firstVoted \in {b.creator, 0}

LEMMA FollowsEnd ==
  ASSUME NEW r, NEW t, NEW p, NEW low, NEW max, Follows(r, t, p, low, max),
         NEW b \in Universe, Sourced(r, t, b), Told(p, b),
         NEW x \in Amount, EndAdmitted(t, b, x)
  PROVE  EndAdmitted(r, b, x)
<1>1. r \in LedgerState /\ t \in LedgerState /\ b.firstVoted \in Nat
  BY HeaderAssumption DEF Follows, Joined
<1>2. r.watermark \in Nat /\ t.watermark \in Nat
  BY <1>1 DEF LedgerState
<1>3. ASSUME b.firstVoted # b.creator PROVE InRange(r, b.firstVoted)
  <2>1. b.firstVoted <= t.watermark
    BY <1>3 DEF EndAdmitted, InRange
  <2>2. p.bounded => t.watermark <= r.watermark
    BY <1>2 DEF Follows, Bounds
  <2>3. CASE p.bounded
    BY <1>1, <1>2, <2>1, <2>2, <2>3 DEF InRange
  <2>4. CASE ~p.bounded
    BY <1>2, <1>3, <2>4 DEF Told, InRange
  <2>5. QED
    BY <2>3, <2>4
<1>4. Seeded(r, b.creator) => Seeded(t, b.creator) /\ BalanceOf(r, b.creator) = BalanceOf(t, b.creator)
  BY DEF Follows, Joined, Seeded, BalanceOf
<1>5. QED
  BY <1>3, <1>4 DEF EndAdmitted

LEMMA FollowsCommit ==
  ASSUME NEW r, NEW t, NEW p, NEW low \in Nat, NEW max, Follows(r, t, p, low, max),
         NEW b \in Universe, low <= b.seq, Sourced(r, t, b),
         NEW x \in Amount, EndAdmitted(t, b, x), EndAdmitted(r, b, x)
  PROVE  /\ Follows(Committed(r, b, x), Committed(t, b, x), p, low, max)
         /\ Agreed(Committed(r, b, x), Committed(t, b, x))
<1> DEFINE r2 == Committed(r, b, x)
           t2 == Committed(t, b, x)
<1>1. r \in LedgerState /\ t \in LedgerState /\ b.seq \in Nat
  BY UniverseAssumption DEF Follows, Joined
<1>2. Rewarded(r2, r, b, x) /\ Rewarded(t2, t, b, x)
  BY <1>1, CommitRewards
<1> HIDE DEF r2, t2
<1>3. /\ \A n \in NodeSlot : Seeded(r2, n) = Seeded(r, n)
      /\ \A n \in NodeSlot : Seeded(t2, n) = Seeded(t, n)
  BY <1>1, <1>2 DEF Rewarded, MovedSources, Seeded, Unseeded
<1>4. Agreed(r2, t2)
  <2>1. ASSUME NEW n \in NodeSlot, Seeded(r2, n) PROVE r2.source[n] = t2.source[n]
    <3>1. Seeded(r, n) /\ Seeded(t, n)
      BY <1>3, <2>1 DEF Follows, Joined
    <3>2. r.source[n] = t.source[n] \/ (b.kind = "Balance" /\ EntryOf(b, n) # {})
      BY <3>1 DEF Sourced
    <3>3. /\ r2.source[n] = IF b.kind = "Balance" /\ EntryOf(b, n) # {} THEN b.seq ELSE r.source[n]
          /\ t2.source[n] = IF b.kind = "Balance" /\ EntryOf(b, n) # {} THEN b.seq ELSE t.source[n]
      BY <1>2, <3>1 DEF Rewarded, MovedSources, Seeded
    <3>4. QED
      BY <3>2, <3>3
  <2>2. QED
    BY <2>1 DEF Agreed
<1>5. ASSUME p.complete PROVE Follows(r2, t2, p, low, max)
  <2>1. r = t /\ r2 = t2
    BY <1>5 DEF Follows, r2, t2
  <2>2. QED
    BY <1>2, <1>5, <2>1 DEF Follows, Rewarded
<1>6. ASSUME ~p.complete PROVE Follows(r2, t2, p, low, max)
  <2>1. Joined(r, t, low) /\ Bounds(r, t, p, max)
    BY <1>6 DEF Follows
  <2>2. ASSUME NEW n \in NodeSlot, Seeded(r, n)
        PROVE  Seeded(t, n) /\ r2.key[n] = t2.key[n] /\ r2.balance[n] = t2.balance[n]
    BY <1>2, <2>1, <2>2 DEF Joined, Rewarded
  <2>3. \A n \in NodeSlot : ~Seeded(r, n) => r2.key[n] = NoKey
    BY <1>2, <2>1 DEF Joined, Rewarded
  <2>4. r2.unspent = {u \in t2.unspent : u[1] >= low}
    <3>1. \A u \in NewOutputs(b) : u[1] >= low
      BY <1>1 DEF NewOutputs
    <3>2. r.unspent = {u \in t.unspent : u[1] >= low}
      BY <2>1 DEF Joined
    <3>3. QED
      BY <1>2, <3>1, <3>2 DEF Rewarded
  <2>5. Joined(r2, t2, low)
    BY <1>2, <1>3, <2>2, <2>3, <2>4 DEF Joined, Rewarded
  <2>6. Bounds(r2, t2, p, max)
    BY <1>2, <1>3, <2>1 DEF Bounds, Rewarded
  <2>7. QED
    BY <1>2, <1>6, <2>5, <2>6 DEF Follows, Rewarded
<1>7. Agreed(r2, t2) /\ Follows(r2, t2, p, low, max)
  BY <1>4, <1>5, <1>6
<1>8. QED
  BY <1>7 DEF r2, t2

(* A block that the replay has accepted is accepted.                         *)
Apace(u, t, low, max) ==
  u.ok = TRUE /\ Follows(u.l, t, u.p, low, max) /\ Agreed(u.l, t)

LEMMA PassFollows ==
  ASSUME NEW b \in Universe, Tier1Gate(b), NEW t, NEW m, Derives(t, b, m),
         NEW c, InputsFit(c, b, DOMAIN b.ops), NEW low \in Nat, low <= b.seq, NEW max \in Nat,
         NEW u, u.p \in ProjectionState, Apace(u, t, low, max),
         u.p.complete \/ b.seq # 0, Looked(u.p, b, max), Told(u.p, b)
  PROVE  /\ PassBlock(u, b, low, c).p = Saw(u.p, b)
         /\ Apace(PassBlock(u, b, low, c), m, low, max)
<1> DEFINE n == Len(b.ops)
           p == u.p
           q == Saw(p, b)
           s == FloorSeeded(u.l, p, b)
           x == PassEffects(u.l, p, b, low, c)
<1>1. u.ok = TRUE /\ Follows(u.l, t, p, low, max) /\ Agreed(u.l, t)
  BY DEF Apace
<1>2. BlockAdmitted(t, Complete, b) /\ b.applies
  BY DEF Derives
<1>3. PICK h : /\ Run(h, n, t, b)
               /\ EndAdmitted(h[n].l, b, h[n].fees)
               /\ m = Committed(h[n].l, b, h[n].fees)
  BY DEF Derives
<1>4. n \in Nat /\ (n # 0 => b.kind # "Balance")
  <2>1. b.kind # "Transactions" => b.ops = <<>>
    BY UniverseAssumption
  <2>2. QED
    BY <2>1, UniverseAssumption
<1>5. h[n].fees \in Amount
  <2>1. n \in 0 .. n
    BY <1>4
  <2> HIDE DEF n
  <2>2. QED
    BY <1>3, <1>4, <2>1, RunTyped
<1>6. /\ q.complete = p.complete /\ q.bounded = p.bounded /\ q \in ProjectionState
      /\ n # 0 => q = p
  BY <1>4 DEF Saw, ProjectionState
<1>7. BlockAdmitted(u.l, p, b)
  BY <1>1, <1>2, FollowsBlock
<1>8. s \in LedgerState /\ Follows(s, t, q, low, max) /\ Sourced(s, t, b)
  BY <1>1, <1>2, FollowsFloor
<1> HIDE DEF q, p
<1>9. InStep(x, h[n], q, b, low, max)
  <2>1. p.complete \/ b.seq # 0
    BY DEF p
  <2>2. QED
    BY <1>3, <1>6, <1>8, <2>1, EffectsFollow
<1> HIDE DEF x, s, n
<1>10. /\ x.ok = TRUE /\ x.fees = h[n].fees
       /\ Follows(x.l, h[n].l, q, low, max) /\ Sourced(x.l, h[n].l, b)
  BY <1>9 DEF InStep
<1>11. Told(q, b)
  BY <1>6 DEF Told, p
<1>12. EndAdmitted(x.l, b, x.fees)
  BY <1>3, <1>5, <1>10, <1>11, FollowsEnd
<1>13. /\ Follows(Committed(x.l, b, x.fees), m, q, low, max)
       /\ Agreed(Committed(x.l, b, x.fees), m)
  BY <1>3, <1>5, <1>10, <1>12, FollowsCommit
<1>14. PassBlock(u, b, low, c) = [ok |-> TRUE, l |-> Committed(x.l, b, x.fees), p |-> q]
  BY <1>1, <1>2, <1>7, <1>10, <1>12 DEF PassBlock, PassEnd, p, q, x, Saw
<1>15. QED
  BY <1>13, <1>14 DEF Apace, q, p

-----------------------------------------------------------------------------
(* The blocks of a segment, one by one.                                      *)

SegmentState == [ok : BOOLEAN, l : LedgerState, p : ProjectionState]

SegmentStep(seg, low, c) ==
  [q \in SegmentState \X (1 .. Len(seg)) |-> PassBlock(q[1], seg[q[2]], low, c)]

(* Blocks that a replay has accepted.                                        *)
Derived(b) ==
  /\ b \in Universe /\ Tier1Gate(b)
  /\ \E t : t \in LedgerState /\ BlockAdmitted(t, Complete, b)

LEMMA PassBlockTyped ==
  ASSUME NEW b, Derived(b), NEW u \in SegmentState, NEW low, NEW c
  PROVE  PassBlock(u, b, low, c) \in SegmentState
<1> DEFINE s == FloorSeeded(u.l, u.p, b)
           x == PassEffects(u.l, u.p, b, low, c)
<1>1. b \in Universe /\ Tier1Gate(b)
  BY DEF Derived
<1>2. u.ok \in BOOLEAN /\ u.l \in LedgerState /\ u.p \in ProjectionState
  BY DEF SegmentState
<1>3. PICK t : t \in LedgerState /\ BlockAdmitted(t, Complete, b)
  BY DEF Derived
<1>4. s \in LedgerState
  <2>1. CASE b.kind = "Balance"
    BY <1>1, <1>2, <1>3, <2>1, FloorFields DEF BlockAdmitted
  <2>2. CASE b.kind # "Balance"
    BY <1>2, <2>2 DEF FloorSeeded
  <2>3. QED
    BY <2>1, <2>2
<1>5. x \in PassState
  <2>1. Len(b.ops) \in Nat
    BY <1>1, UniverseAssumption
  <2>2. HasRun(Len(b.ops), PassState, PassStarted(s), EffectStep(u.p, b, low, c), x)
    BY <1>1, <1>4, EffectsRun
  <2>3. QED
    BY <2>1, <2>2, RunEnds
<1> HIDE DEF x, s
<1>6. x.l \in LedgerState /\ x.fees \in Amount /\ x.ok \in BOOLEAN
  BY <1>5 DEF PassState
<1>7. PassEnd(x, u.p, b) \in SegmentState
  <2>1. CASE x.ok /\ EndAdmitted(x.l, b, x.fees) /\ b.applies
    <3>1. Committed(x.l, b, x.fees) \in LedgerState
      BY <1>1, <1>6, <2>1, CommittedTyped
    <3>2. [u.p EXCEPT !.saw = @ \/ b.kind = "Balance"] \in ProjectionState
      BY <1>2 DEF ProjectionState
    <3>3. QED
      BY <2>1, <3>1, <3>2 DEF PassEnd, SegmentState
  <2>2. CASE ~(x.ok /\ EndAdmitted(x.l, b, x.fees) /\ b.applies)
    BY <1>2, <1>6, <2>2 DEF PassEnd, SegmentState
  <2>3. QED
    BY <2>1, <2>2
<1>8. [u EXCEPT !.ok = FALSE] \in SegmentState
  BY DEF SegmentState
<1>9. QED
  BY <1>7, <1>8 DEF PassBlock, x

LEMMA SegmentRun ==
  ASSUME NEW seg, Len(seg) \in Nat, DOMAIN seg = 1 .. Len(seg), \A k \in 1 .. Len(seg) : Derived(seg[k]),
         NEW floor \in LedgerState, Projection(seg) \in ProjectionState
  PROVE  HasRun(Len(seg), SegmentState, [ok |-> TRUE, l |-> floor, p |-> Projection(seg)],
                SegmentStep(seg, seg[1].seq, chain), PassFrom(seg, floor))
<1> DEFINE n == Len(seg)
           low == seg[1].seq
           first == [ok |-> TRUE, l |-> floor, p |-> Projection(seg)]
           Step(u, b) == PassBlock(u, b, low, chain)
           T == SegmentState
           g == SegmentStep(seg, low, chain)
           Eq(h) == h = [s \in SUBSET (DOMAIN seg) |->
                          IF s = {} THEN first ELSE Step(h[s \ {Max(s)}], seg[Max(s)])]
           iter == CHOOSE h : Eq(h)
<1>1. PassFrom(seg, floor) = iter[DOMAIN seg]
  BY DEF PassFrom, FoldLeft, MapThenFoldSet
<1>2. n \in Nat /\ DOMAIN seg = 1 .. n
  OBVIOUS
<1>3. \A u \in T, k \in 1 .. n : Step(u, seg[k]) \in T
  BY PassBlockTyped
<1>4. first \in T
  BY DEF SegmentState
<1>5. g \in [T \X (1 .. n) -> T] /\ \A u \in T, k \in 1 .. n : g[<<u, k>>] = Step(u, seg[k])
  BY <1>3 DEF SegmentStep
<1> HIDE DEF Step, n, T, first, g
<1>6. \A s \in SUBSET (1 .. n) : s # {} => Max(s) \in 1 .. n
  BY <1>2, TopOf
<1>7. PICK h \in [SUBSET (1 .. n) -> T] : FoldsUp(h, n, T, first, g)
  BY <1>2, <1>4, <1>5, FoldUpExists, Zenon
<1>8. ASSUME NEW s \in SUBSET (1 .. n), s # {}
      PROVE  h[s] = Step(h[s \ {Max(s)}], seg[Max(s)])
  <2>1. Max(s) \in 1 .. n /\ h[s \ {Max(s)}] \in T
    BY <1>6, <1>8
  <2>2. h[s] = g[<<h[s \ {Max(s)}], Max(s)>>]
    BY <1>7, <1>8, <2>1 DEF FoldsUp
  <2>3. QED
    BY <1>5, <2>1, <2>2
<1>9. Eq(h)
  BY <1>2, <1>7, <1>8 DEF FoldsUp
<1> HIDE DEF Eq
<1>10. Eq(iter)
  BY <1>9
<1> HIDE DEF iter
<1>11. FoldsUp(iter, n, T, first, g)
  <2>1. iter[{}] = first
    BY <1>2, <1>10 DEF Eq
  <2>2. ASSUME NEW s \in SUBSET (1 .. n), s # {}, iter[s \ {Max(s)}] \in T
        PROVE  iter[s] = g[<<iter[s \ {Max(s)}], Max(s)>>]
    <3>1. Max(s) \in 1 .. n /\ iter[s] = Step(iter[s \ {Max(s)}], seg[Max(s)])
      BY <1>2, <1>6, <1>10, <2>2 DEF Eq
    <3>2. QED
      BY <1>5, <2>2, <3>1
  <2>3. QED
    BY <2>1, <2>2 DEF FoldsUp
<1>12. HasRun(n, T, first, g, PassFrom(seg, floor))
  <2>1. HasRun(n, T, first, g, iter[1 .. n])
    BY <1>2, <1>4, <1>5, <1>11, FoldRunExists, Zenon
  <2>2. QED
    BY <1>1, <1>2, <2>1
<1>13. QED
  BY <1>12 DEF n, T, first, g

-----------------------------------------------------------------------------
(* The segment of the chain from its a-th block, of n blocks.                *)

Accounted(R) ==
  /\ WellFormed(chain, tail) /\ Replays(R, chain)
  /\ \A q \in 0 .. Len(chain) - 1 : InputsFit(chain, BlockAt(chain, q), DOMAIN BlockAt(chain, q).ops)

Part(seg, a, n) ==
  /\ a \in Nat \ {0} /\ n \in Nat \ {0} /\ a + n - 1 <= Len(chain)
  /\ Len(seg) = n /\ DOMAIN seg = 1 .. n
  /\ \A k \in 1 .. n : seg[k] = chain[a + k - 1]

(* A segment that names a node, for a vote, tells how many there are.        *)
VotesTold(seg) ==
  \/ Balances(seg) # {}
  \/ \A k \in DOMAIN seg : seg[k].firstVoted \in {seg[k].creator, 0}

Reach(seg) == FloorLedger(seg).watermark

LEMMA PartIs ==
  ASSUME NEW R, Accounted(R), NEW a \in 1 .. Len(chain), NEW m \in a .. Len(chain)
  PROVE  Part(SubSeq(chain, a, m), a, m - a + 1)
<1>1. chain \in Seq(Universe) /\ Len(chain) \in Nat
  BY DEF Accounted, WellFormed
<1>2. /\ Len(SubSeq(chain, a, m)) = m - a + 1
      /\ DOMAIN SubSeq(chain, a, m) = 1 .. m - a + 1
      /\ \A k \in 1 .. m - a + 1 : SubSeq(chain, a, m)[k] = chain[a + k - 1]
  BY <1>1
<1>3. QED
  BY <1>1, <1>2 DEF Part

(* Its blocks, as the replay met them.                                       *)
LEMMA PartBlock ==
  ASSUME NEW R, Accounted(R), NEW seg, NEW a, NEW n, Part(seg, a, n), NEW k \in 1 .. n
  PROVE  /\ seg[k] \in Universe /\ seg[k].seq = a + k - 2 /\ Tier1Gate(seg[k])
         /\ a + k - 2 \in 0 .. Len(chain) /\ a + k - 1 \in 0 .. Len(chain)
         /\ Derives(R[a + k - 2], seg[k], R[a + k - 1])
         /\ R[a + k - 2] \in LedgerState
         /\ Derived(seg[k])
         /\ InputsFit(chain, seg[k], DOMAIN seg[k].ops)
         /\ seg[k].kind = "Balance" => seg[k].maxNode = R[a + k - 2].watermark
<1> DEFINE i == a + k - 1
<1>1. i \in 1 .. Len(chain) /\ i - 1 = a + k - 2 /\ seg[k] = chain[i] /\ Len(chain) \in Nat
  BY DEF Part, Accounted, WellFormed
<1>2. /\ chain[i] \in Universe /\ chain[i].seq = i - 1 /\ Tier1Gate(chain[i])
      /\ R[i - 1] \in LedgerState /\ Derives(R[i - 1], chain[i], R[i])
  BY <1>1, ReplayBlock DEF Accounted
<1>3. InputsFit(chain, chain[i], DOMAIN chain[i].ops)
  <2>1. i - 1 \in 0 .. Len(chain) - 1 /\ i - 1 + 1 = i
    BY <1>1
  <2> HIDE DEF i
  <2>2. BlockAt(chain, i - 1) = chain[i]
    BY <2>1 DEF BlockAt
  <2>3. QED
    BY <2>1, <2>2 DEF Accounted
<1>4. BlockAdmitted(R[i - 1], Complete, chain[i])
  BY <1>2 DEF Derives
<1>5. Derived(chain[i])
  BY <1>2, <1>4 DEF Derived
<1>6. chain[i].kind = "Balance" => chain[i].maxNode = R[i - 1].watermark
  BY <1>4 DEF BlockAdmitted, BalanceAdmitted, Complete
<1> DEFINE j == i - 1
<1>7. j = a + k - 2 /\ j \in 0 .. Len(chain) /\ i \in 0 .. Len(chain)
  BY <1>1
<1> HIDE DEF i, j
<1>8. /\ seg[k] \in Universe /\ seg[k].seq = j /\ Tier1Gate(seg[k])
      /\ Derives(R[j], seg[k], R[i]) /\ R[j] \in LedgerState
      /\ Derived(seg[k]) /\ InputsFit(chain, seg[k], DOMAIN seg[k].ops)
      /\ seg[k].kind = "Balance" => seg[k].maxNode = R[j].watermark
  BY <1>1, <1>2, <1>3, <1>5, <1>6 DEF j
<1>9. QED
  BY <1>7, <1>8 DEF i

(* The first balance block of a segment.                                     *)
LEMMA FirstBalance ==
  ASSUME NEW seg, NEW n \in Nat, DOMAIN seg = 1 .. n, Balances(seg) # {}
  PROVE  /\ Min(Balances(seg)) \in 1 .. n /\ seg[Min(Balances(seg))].kind = "Balance"
         /\ \A k \in Balances(seg) : Min(Balances(seg)) <= k
<1>1. Balances(seg) \subseteq Nat /\ Balances(seg) \subseteq 1 .. n
  BY DEF Balances
<1>2. Min(Balances(seg)) \in Balances(seg) /\ \A k \in Balances(seg) : Min(Balances(seg)) <= k
  BY <1>1, MinOf
<1>3. QED
  BY <1>1, <1>2 DEF Balances

(* The floor is behind the replay by what the segment itself says.           *)
LEMMA FloorFollows ==
  ASSUME NEW R, Accounted(R), NEW seg, NEW a, NEW n, Part(seg, a, n)
  PROVE  /\ FloorLedger(seg) \in LedgerState /\ Reach(seg) \in Nat
         /\ Projection(seg) = [complete |-> a = 1, bounded |-> a = 1 \/ Balances(seg) # {}, saw |-> FALSE]
         /\ Follows(FloorLedger(seg), R[a - 1], Projection(seg), a - 1, Reach(seg))
         /\ Agreed(FloorLedger(seg), R[a - 1])
         /\ a # 1 /\ Balances(seg) # {} => Reach(seg) = seg[Min(Balances(seg))].maxNode
         /\ a # 1 /\ Balances(seg) = {} => Reach(seg) = 0
<1> DEFINE floor == FloorLedger(seg)
           t == R[a - 1]
           p == Projection(seg)
           max == Reach(seg)
           first == Min(Balances(seg))
<1>1. /\ a \in Nat \ {0} /\ n \in Nat \ {0} /\ 1 \in 1 .. n /\ DOMAIN seg = 1 .. n
      /\ a - 1 \in 0 .. Len(chain) /\ Len(chain) \in Nat
  BY DEF Part, Accounted, WellFormed
<1>2. seg[1].seq = a - 1 /\ (seg[1].seq = 0 <=> a = 1)
  <2>1. seg[1].seq = a + 1 - 2
    BY <1>1, PartBlock
  <2>2. QED
    BY <1>1, <2>1
<1>3. p = [complete |-> a = 1, bounded |-> a = 1 \/ Balances(seg) # {}, saw |-> FALSE]
  BY <1>2 DEF Projection
<1>4. t \in LedgerState /\ (a = 1 => t = EmptyLedger) /\ Dated(R, a - 1)
  <2> DEFINE j == a - 1
  <2>1. j \in 0 .. Len(chain) /\ (a = 1 => j = 0)
    BY <1>1
  <2> HIDE DEF j
  <2>2. R[j] \in LedgerState /\ (j = 0 => R[j] = EmptyLedger) /\ Dated(R, j)
    BY <2>1, ReplayTyped, ReplayDated DEF Accounted
  <2>3. QED
    BY <2>1, <2>2 DEF j
<1>5. EmptyLedger \in LedgerState
  BY EmptyTyped
<1>6. CASE a = 1
  <2>1. floor = EmptyLedger /\ max = 0
    BY <1>2, <1>6 DEF FloorLedger, Reach, EmptyLedger
  <2> HIDE DEF floor, max, p
  <2>2. p.complete \in BOOLEAN /\ p.complete /\ p.bounded /\ a - 1 = 0
    <3>1. p.complete \in BOOLEAN /\ p.complete
      BY <1>3, <1>6
    <3>2. p.bounded
      BY <1>3, <1>6
    <3>3. QED
      BY <1>6, <3>1, <3>2
  <2>3. Follows(floor, t, p, a - 1, max)
    BY <1>4, <1>5, <1>6, <2>1, <2>2 DEF Follows
  <2>4. Agreed(floor, t)
    BY <1>4, <1>6, <2>1 DEF Agreed
  <2>5. QED
    BY <1>3, <1>5, <1>6, <2>1, <2>3, <2>4 DEF floor, max, p
<1>7. CASE a # 1
  <2>1. /\ Balances(seg) # {} =>
             /\ seg[first].maxNode \in Nat /\ t.watermark <= seg[first].maxNode
    <3>1. SUFFICES ASSUME Balances(seg) # {}
                   PROVE  seg[first].maxNode \in Nat /\ t.watermark <= seg[first].maxNode
      OBVIOUS
    <3>2. first \in 1 .. n /\ seg[first].kind = "Balance"
      BY <1>1, <3>1, FirstBalance
    <3> HIDE DEF first
    <3> DEFINE j == a - 1
               k == a + first - 2
    <3>3. /\ seg[first].maxNode = R[k].watermark /\ R[k] \in LedgerState
          /\ k \in 0 .. Len(chain)
      BY <3>2, PartBlock
    <3>4. j \in 0 .. Len(chain) /\ k \in j .. Len(chain)
      BY <1>1, <3>2, <3>3
    <3> HIDE DEF j, k
    <3>5. Lasts(R[j], R[k])
      BY <3>4, ReplayLasts DEF Accounted
    <3>6. R[j].watermark <= R[k].watermark
      BY <3>5 DEF Lasts
    <3>7. QED
      BY <3>3, <3>6 DEF j, LedgerState
  <2>2. max = IF Balances(seg) = {} THEN 0 ELSE seg[first].maxNode
    BY <1>2, <1>7 DEF Reach, FloorLedger, EmptyLedger
  <2>3. max \in Nat
    BY <2>1, <2>2
  <2> HIDE DEF first
  <2>4. /\ floor \in LedgerState /\ floor.watermark = max /\ floor.unspent = {}
        /\ \A m \in NodeSlot : floor.source[m] = Unseeded /\ floor.key[m] = NoKey
    <3>1. floor.watermark = max
      BY DEF Reach
    <3>2. CASE Balances(seg) = {}
      <4>1. floor = EmptyLedger
        BY <3>2 DEF FloorLedger
      <4>2. QED
        BY <1>5, <3>1, <4>1 DEF EmptyLedger
    <3>3. CASE Balances(seg) # {}
      <4>1. floor = [EmptyLedger EXCEPT !.watermark = max]
        BY <1>2, <1>7, <2>2, <3>3 DEF FloorLedger, first
      <4> HIDE DEF max, floor
      <4>2. floor \in LedgerState
        BY <1>5, <2>3, <4>1 DEF LedgerState
      <4>3. QED
        BY <3>1, <4>1, <4>2 DEF EmptyLedger
    <3>4. QED
      BY <3>2, <3>3
  <2>5. \A m : ~Seeded(floor, m)
    BY <2>4 DEF Seeded
  <2> HIDE DEF floor, max
  <2>6. Agreed(floor, t)
    BY <2>5 DEF Agreed
  <2>7. {u \in t.unspent : u[1] >= a - 1} = {}
    <3>1. ASSUME NEW u \in t.unspent PROVE ~(u[1] >= a - 1)
      <4>1. u[1] \in Nat /\ u[1] < a - 1
        BY <1>4, <3>1 DEF Dated, LedgerState
      <4>2. QED
        BY <1>1, <4>1
    <3>2. QED
      BY <3>1
  <2>8. Joined(floor, t, a - 1)
    BY <1>4, <2>4, <2>5, <2>7 DEF Joined
  <2> HIDE DEF p
  <2>9. ~p.complete /\ (p.bounded <=> Balances(seg) # {}) /\ ~p.saw
    BY <1>3, <1>7
  <2>10. Bounds(floor, t, p, max)
    BY <1>4, <2>1, <2>2, <2>4, <2>5, <2>9 DEF Bounds
  <2>11. p.complete \in BOOLEAN
    BY <1>3
  <2>12. Follows(floor, t, p, a - 1, max)
    BY <1>4, <2>8, <2>9, <2>10, <2>11 DEF Follows
  <2>13. QED
    BY <1>3, <1>7, <2>2, <2>3, <2>4, <2>6, <2>12 DEF floor, max, first, p
<1>8. QED
  BY <1>6, <1>7

(* How far the pass has come after k blocks of the segment.                  *)
Marks(p, seg, a, k) ==
  /\ p \in ProjectionState
  /\ p.complete <=> a = 1
  /\ p.bounded <=> (a = 1 \/ Balances(seg) # {})
  /\ p.saw <=> \E i \in 1 .. k : seg[i].kind = "Balance"

LEMMA MarksNext ==
  ASSUME NEW seg, NEW a, NEW n, Part(seg, a, n), NEW k \in 1 .. n, NEW p, Marks(p, seg, a, k - 1)
  PROVE  Marks(Saw(p, seg[k]), seg, a, k)
<1> DEFINE b == seg[k]
           q == Saw(p, b)
<1>1. p \in ProjectionState /\ n \in Nat /\ k \in Nat
  BY DEF Marks, Part
<1>2. /\ q.complete = p.complete /\ q.bounded = p.bounded /\ q \in ProjectionState
      /\ q.saw <=> p.saw \/ b.kind = "Balance"
  BY <1>1 DEF Saw, ProjectionState
<1> HIDE DEF q
<1>3. (\E i \in 1 .. k : seg[i].kind = "Balance")
        <=> (\E i \in 1 .. k - 1 : seg[i].kind = "Balance") \/ b.kind = "Balance"
  BY <1>1
<1>4. QED
  BY <1>2, <1>3 DEF Marks, q

(* What a block asks of the projection.                                      *)
LEMMA MarksAllow ==
  ASSUME NEW R, Accounted(R), NEW seg, NEW a, NEW n, Part(seg, a, n), a = 1 \/ VotesTold(seg),
         NEW k \in 1 .. n, NEW p, Marks(p, seg, a, k - 1)
  PROVE  /\ p.complete \/ seg[k].seq # 0
         /\ Looked(p, seg[k], Reach(seg)) /\ Told(p, seg[k])
<1> DEFINE b == seg[k]
           first == Min(Balances(seg))
<1>1. /\ a \in Nat \ {0} /\ n \in Nat /\ k \in DOMAIN seg /\ DOMAIN seg = 1 .. n
      /\ b.seq = a + k - 2
  <2>1. b.seq = a + k - 2
    BY PartBlock
  <2>2. QED
    BY <2>1 DEF Part
<1>2. p.complete \/ b.seq # 0
  BY <1>1 DEF Marks
<1>3. Told(p, b)
  BY <1>1 DEF Marks, VotesTold, Told
<1>4. ASSUME b.kind = "Balance" PROVE p.bounded /\ (~p.complete /\ ~p.saw => Reach(seg) = b.maxNode)
  <2>1. k \in Balances(seg)
    BY <1>1, <1>4 DEF Balances
  <2>2. p.bounded
    BY <2>1 DEF Marks
  <2>3. ASSUME ~p.complete, ~p.saw PROVE Reach(seg) = b.maxNode
    <3>1. first \in 1 .. n /\ seg[first].kind = "Balance" /\ first <= k
      BY <1>1, <2>1, FirstBalance
    <3>2. first \notin 1 .. k - 1
      BY <2>3, <3>1 DEF Marks
    <3>3. first = k
      BY <1>1, <3>1, <3>2
    <3>4. a # 1 /\ Balances(seg) # {}
      BY <2>1, <2>3 DEF Marks
    <3>5. Reach(seg) = seg[first].maxNode
      BY <3>4, FloorFollows
    <3>6. QED
      BY <3>3, <3>5
  <2>4. QED
    BY <2>2, <2>3
<1>5. QED
  BY <1>2, <1>3, <1>4 DEF Looked

(* The pass over the segment ends where the replay is after its last block.  *)
LEMMA SegmentFollows ==
  ASSUME NEW R, Accounted(R), NEW seg, NEW a, NEW n, Part(seg, a, n), a = 1 \/ VotesTold(seg)
  PROVE  /\ Pass(seg) \in SegmentState
         /\ Marks(Pass(seg).p, seg, a, n)
         /\ Apace(Pass(seg), R[a + n - 1], a - 1, Reach(seg))
<1> DEFINE floor == FloorLedger(seg)
           low == a - 1
           max == Reach(seg)
           first == [ok |-> TRUE, l |-> floor, p |-> Projection(seg)]
           g == SegmentStep(seg, seg[1].seq, chain)
           x == Pass(seg)
<1>1. /\ a \in Nat \ {0} /\ n \in Nat \ {0} /\ Len(seg) = n /\ DOMAIN seg = 1 .. n
  BY DEF Part
<1>2. /\ floor \in LedgerState /\ max \in Nat
      /\ Projection(seg) = [complete |-> a = 1, bounded |-> a = 1 \/ Balances(seg) # {}, saw |-> FALSE]
      /\ Follows(floor, R[a - 1], Projection(seg), low, max)
      /\ Agreed(floor, R[a - 1])
  BY FloorFollows
<1>3. Projection(seg) \in ProjectionState /\ Marks(Projection(seg), seg, a, 0)
  <2>1. Projection(seg) \in ProjectionState
    BY <1>2 DEF ProjectionState
  <2>2. PICK p : p = Projection(seg)
    OBVIOUS
  <2>3. p = [complete |-> a = 1, bounded |-> a = 1 \/ Balances(seg) # {}, saw |-> FALSE]
    BY <1>2, <2>2
  <2>4. (p.complete <=> a = 1) /\ (p.bounded <=> (a = 1 \/ Balances(seg) # {})) /\ ~p.saw
    <3>1. CASE a = 1
      <4>1. p.complete
        BY <2>3, <3>1
      <4>2. p.bounded
        BY <2>3, <3>1
      <4>3. ~p.saw
        BY <2>3
      <4>4. QED
        BY <3>1, <4>1, <4>2, <4>3
    <3>2. CASE a # 1
      BY <2>3, <3>2
    <3>3. QED
      BY <3>1, <3>2
  <2>5. QED
    BY <2>1, <2>2, <2>4 DEF Marks
<1>4. \A k \in 1 .. Len(seg) : Derived(seg[k])
  BY <1>1, PartBlock
<1>5. HasRun(n, SegmentState, first, g, x)
  BY <1>1, <1>2, <1>3, <1>4, SegmentRun DEF Pass
<1>6. seg[1].seq = low
  <2>1. 1 \in 1 .. n
    BY <1>1
  <2>2. seg[1].seq = a + 1 - 2
    BY <2>1, PartBlock
  <2>3. QED
    BY <1>1, <2>2
<1>7. PICK Inv : Inv = [k \in 0 .. n |-> {u \in SegmentState : /\ Marks(u.p, seg, a, k)
                                                               /\ Apace(u, R[a + k - 1], low, max)}]
  OBVIOUS
<1> HIDE DEF floor, max
<1>8. first \in Inv[0]
  <2>1. first \in SegmentState
    BY <1>2, <1>3 DEF SegmentState
  <2>2. a + 0 - 1 = a - 1
    BY <1>1
  <2>3. Apace(first, R[a + 0 - 1], low, max)
    BY <1>2, <2>2 DEF Apace
  <2>4. Marks(first.p, seg, a, 0)
    BY <1>3
  <2> HIDE DEF first
  <2>5. QED
    BY <1>1, <1>7, <2>1, <2>3, <2>4
<1>9. ASSUME NEW k \in 1 .. n, NEW u \in SegmentState, u \in Inv[k - 1]
      PROVE  g[<<u, k>>] \in Inv[k]
  <2> DEFINE b == seg[k]
             v == PassBlock(u, b, low, chain)
             j == k - 1
  <2>1. k \in 0 .. n /\ j \in 0 .. n /\ a + j - 1 = a + k - 2
    BY <1>1
  <2>2. Marks(u.p, seg, a, j) /\ Apace(u, R[a + j - 1], low, max)
    BY <1>7, <1>9, <2>1
  <2>3. Apace(u, R[a + k - 2], low, max) /\ u.p \in ProjectionState
    BY <2>1, <2>2 DEF Marks
  <2>4. /\ b \in Universe /\ b.seq = a + k - 2 /\ Tier1Gate(b)
        /\ Derives(R[a + k - 2], b, R[a + k - 1]) /\ Derived(b)
        /\ InputsFit(chain, b, DOMAIN b.ops)
    BY PartBlock
  <2>5. u.p.complete \/ b.seq # 0
    BY <2>2, MarksAllow
  <2>6. Looked(u.p, b, max) /\ Told(u.p, b)
    BY <2>2, MarksAllow DEF max
  <2>7. low \in Nat /\ low <= b.seq
    BY <1>1, <2>4
  <2> HIDE DEF low, b
  <2>8. v.p = Saw(u.p, b) /\ Apace(v, R[a + k - 1], low, max)
    BY <1>2, <2>3, <2>4, <2>5, <2>6, <2>7, PassFollows
  <2>9. Marks(v.p, seg, a, k)
    BY <2>2, <2>8, MarksNext DEF b
  <2>10. v \in SegmentState
    BY <2>4, PassBlockTyped
  <2>11. g[<<u, k>>] = v
    BY <1>1, <1>6 DEF SegmentStep, b
  <2> HIDE DEF v, g, j
  <2>12. QED
    BY <1>7, <2>1, <2>8, <2>9, <2>10, <2>11
<1> HIDE DEF g, first, x, low
<1>10. HandsOn(Inv, n, SegmentState, g)
  BY <1>9 DEF HandsOn
<1>11. x \in Inv[n]
  BY <1>1, <1>5, <1>8, <1>10, RunInvariant
<1>12. n \in 0 .. n
  BY <1>1
<1>13. x \in SegmentState /\ Marks(x.p, seg, a, n) /\ Apace(x, R[a + n - 1], low, max)
  BY <1>7, <1>11, <1>12
<1>14. QED
  BY <1>13 DEF x, low, max

-----------------------------------------------------------------------------
(* What this says of a node that joins, and of the one that has followed.    *)

LEMMA Accounts ==
  ASSUME IInv, InputsInv, NEW R, History(R)
  PROVE  Accounted(R)
BY DEF IInv, InputsInv, History, Accounted

LEMMA AgreesThere ==
  ASSUME IInv, TypeInv, RosterInv, InputsInv, phase = "Idle", NEW R, History(R),
         NEW a \in DOMAIN chain, a = 1 \/ VotesTold(SubSeq(chain, a, Len(chain)))
  PROVE  AgreesFrom(a, Pass(SubSeq(chain, a, Len(chain))))
<1> DEFINE seg == SubSeq(chain, a, Len(chain))
           n == Len(chain) - a + 1
           x == Pass(seg)
           t == R[Len(chain)]
           l == x.l
<1>1. Accounted(R) /\ led = base /\ Twin(led, t, tail)
  BY Accounts DEF RosterInv, History
<1>2. a \in 1 .. Len(chain) /\ Len(chain) \in Nat /\ tail \in Nat
  BY DEF IInv, WellFormed
<1>3. Part(seg, a, n)
  BY <1>1, <1>2, PartIs
<1>4. /\ x \in SegmentState /\ Marks(x.p, seg, a, n)
      /\ Apace(x, R[a + n - 1], a - 1, Reach(seg))
  BY <1>1, <1>3, SegmentFollows
<1>5. a + n - 1 = Len(chain)
  BY <1>2
<1>6. x.ok = TRUE /\ Follows(l, t, x.p, a - 1, Reach(seg)) /\ Agreed(l, t)
  BY <1>4, <1>5 DEF Apace
<1>7. l \in LedgerState /\ t \in LedgerState /\ led \in LedgerState
  BY <1>1, <1>4 DEF SegmentState, Twin
<1>8. x.p.complete <=> a = 1
  BY <1>4 DEF Marks
<1>9. Balances(seg) # {} => x.p.saw
  BY <1>3, <1>4 DEF Marks, Balances, Part
<1>10. /\ led.key = t.key /\ led.balance = t.balance /\ led.watermark = t.watermark
       /\ \A m \in NodeSlot : led.source[m] = Trim(t.source[m], tail)
       /\ led.unspent = {u \in t.unspent : u[1] >= tail}
  BY <1>1 DEF Twin
<1>11. /\ Trimmed(l).unspent = {u \in l.unspent : u[1] >= tail}
       /\ \A m \in NodeSlot : Trimmed(l).source[m] = Trim(l.source[m], tail)
  BY <1>7 DEF Trimmed, Trim, LedgerState
<1> HIDE DEF x, seg, n, t
<1>12. a = 1 \/ Balances(seg) # {} => l.watermark = led.watermark
  BY <1>6, <1>8, <1>9, <1>10 DEF Follows, Bounds
<1>13. Trimmed(l).unspent = {u \in led.unspent : u[1] >= a - 1}
  <2>1. l.unspent = {u \in t.unspent : u[1] >= a - 1}
    <3>1. CASE a = 1
      <4>1. l = t
        BY <1>6, <1>8, <3>1 DEF Follows
      <4>2. \A u \in t.unspent : u[1] >= a - 1
        BY <1>7, <3>1 DEF LedgerState
      <4>3. QED
        BY <4>1, <4>2
    <3>2. CASE a # 1
      BY <1>6, <1>8, <3>2 DEF Follows, Joined
    <3>3. QED
      BY <3>1, <3>2
  <2>2. {u \in l.unspent : u[1] >= tail} = {u \in led.unspent : u[1] >= a - 1}
    BY <1>10, <2>1, Zenon
  <2>3. QED
    BY <1>11, <2>2
<1>14. ASSUME NEW m \in NodeSlot
       PROVE  IF Seeded(l, m)
              THEN /\ l.key[m] = led.key[m] /\ l.balance[m] = led.balance[m]
                   /\ Trimmed(l).source[m] = led.source[m]
              ELSE a # 1 \/ ~Seeded(led, m)
  <2>1. CASE Seeded(l, m)
    <3>1. l.key[m] = t.key[m] /\ l.balance[m] = t.balance[m]
      BY <1>6, <2>1 DEF Follows, Joined
    <3>2. l.source[m] = t.source[m]
      BY <1>6, <2>1 DEF Agreed
    <3>3. QED
      BY <1>10, <1>11, <2>1, <3>1, <3>2
  <2>2. CASE ~Seeded(l, m) /\ a = 1
    <3>1. ~Seeded(t, m)
      BY <1>6, <1>8, <2>2 DEF Follows
    <3>2. ~Seeded(led, m)
      BY <1>1, <3>1, TwinAlike
    <3>3. QED
      BY <2>2, <3>2
  <2>3. QED
    BY <2>1, <2>2
<1>15. x.ok
  BY <1>6
<1> HIDE DEF l
<1>16. AgreesFrom(a, x)
  BY <1>12, <1>13, <1>14, <1>15 DEF AgreesFrom, l, seg
<1>17. QED
  BY <1>16 DEF x, seg

(* A node that joins with the blocks from any place on, or restarts, accepts *)
(* them and ends with what a node has that derived the chain block by block, *)
(* if the segment starts with the genesis block, holds a balance block or    *)
(* votes first for nobody but node 0 and its creators.                       *)
JoinsTold ==
  phase = "Idle" =>
    \A a \in DOMAIN chain :
      LET seg == SubSeq(chain, a, Len(chain)) IN a = 1 \/ VotesTold(seg) => AgreesFrom(a, Pass(seg))

(* run_processing_pass over a part of the chain, with the floor the earliest *)
(* balance block gives it and trust below it, derives what derive_block and  *)
(* commit_block derived block by block, whatever has left the window since.  *)
(* The condition is the one the code needs: without it UnboundedWindow.cfg   *)
(* shows a segment refused.                                                  *)
THEOREM JoinersAgree == GenesisForm => (Spec => []JoinsTold)
<1> SUFFICES ASSUME GenesisForm PROVE Spec => []JoinsTold
  OBVIOUS
<1>1. IInv /\ TypeInv /\ RosterInv /\ InputsInv /\ ReplayInv => JoinsTold
  BY AgreesThere DEF JoinsTold, ReplayInv
<1>2. Spec => []RosterInv /\ []ReplayInv
  BY RosterAlways, ReplayAlways
<1>3. QED
  BY <1>1, <1>2, InductiveInvariant, InputsAlways, TypeInit, TypeNext, PTL DEF Spec

(* Every segment that the acquisition takes without the genesis block can    *)
(* bound the nodes it votes for.                                             *)
SegmentsTold ==
  phase = "Idle" => \A a \in Joinable \ {1} : VotesTold(SubSeq(chain, a, Len(chain)))

(* So where the segments tell how many nodes there are, every late joiner    *)
(* agrees.                                                                   *)
THEOREM JoinersTold == GenesisForm => (Spec => [](SegmentsTold => JoinerAgrees))
<1> SUFFICES ASSUME GenesisForm PROVE Spec => [](SegmentsTold => JoinerAgrees)
  OBVIOUS
<1>1. JoinsTold => (SegmentsTold => JoinerAgrees)
  BY DEF JoinsTold, SegmentsTold, JoinerAgrees, Joinable
<1>2. Spec => []JoinsTold
  BY JoinersAgree
<1>3. QED
  BY <1>1, <1>2, PTL

(* The early signature check of a Ready node judges a block by the key the   *)
(* active chain has for its creator, where key_is_branch_independent says    *)
(* so: that key is what a derivation up to the tail, which every branch      *)
(* shares, has for the creator already.                                      *)
THEOREM EarlyKeyHolds == GenesisForm => (Spec => []EarlyKeySound)
<1> SUFFICES ASSUME GenesisForm PROVE Spec => []EarlyKeySound
  OBVIOUS
<1>1. IInv /\ TypeInv /\ RosterInv /\ InputsInv /\ ReplayInv => EarlyKeySound
  <2> SUFFICES ASSUME IInv, TypeInv, RosterInv, InputsInv, ReplayInv, phase = "Idle", chain # <<>>,
                      NEW n \in NodeSlot \ {0}, KeyBranchIndependent(led, n)
               PROVE  Pass(SubSeq(chain, 1, tail + 1)).l.key[n] = led.key[n]
    BY DEF EarlyKeySound
  <2>1. PICK R : History(R)
    BY DEF ReplayInv
  <2> DEFINE t == R[Len(chain)]
             q == t.source[n]
             seg == SubSeq(chain, 1, tail + 1)
             x == Pass(seg)
  <2>2. Accounted(R) /\ Twin(led, t, tail)
    BY <2>1, Accounts DEF RosterInv, History
  <2>3. tail \in Nat /\ Len(chain) \in Nat /\ tail < Len(chain)
    BY DEF IInv, WellFormed, ReplayInv
  <2>4. x.l = R[tail + 1]
    <3> DEFINE m == tail + 1
    <3>1. 1 \in 1 .. Len(chain) /\ m \in 1 .. Len(chain)
      BY <2>3
    <3>2. Part(seg, 1, m - 1 + 1)
      BY <2>2, <3>1, PartIs
    <3>3. m - 1 + 1 = m /\ 1 + m - 1 = m
      BY <2>3
    <3>4. Marks(x.p, seg, 1, m) /\ Apace(x, R[m], 0, Reach(seg))
      <4> HIDE DEF m
      <4>1. Part(seg, 1, m)
        BY <3>2, <3>3
      <4>2. Marks(x.p, seg, 1, m) /\ Apace(x, R[1 + m - 1], 1 - 1, Reach(seg))
        BY <2>2, <4>1, SegmentFollows
      <4>3. 1 - 1 = 0
        OBVIOUS
      <4>4. QED
        BY <3>3, <4>2, <4>3
    <3>5. QED
      BY <3>4 DEF Marks, Apace, Follows
  <2> HIDE DEF x, seg
  <2>5. q \in 0 .. tail
    <3>1. led.source[n] = Trim(q, tail) /\ q # Released /\ q \in Nat \union {Unseeded, Released}
      BY <2>2 DEF Twin, LedgerState
    <3>2. led.source[n] = Released \/ led.source[n] \in 0 .. tail
      BY DEF KeyBranchIndependent
    <3> HIDE DEF q
    <3>3. CASE led.source[n] = Released
      BY <2>3, <3>1, <3>3 DEF Trim, Released
    <3>4. CASE led.source[n] \in 0 .. tail
      BY <2>3, <3>1, <3>4 DEF Trim, Released
    <3>5. QED
      BY <3>2, <3>3, <3>4
  <2>6. Seeded(R[q + 1], n)
    <3>1. Len(chain) \in 0 .. Len(chain)
      BY <2>3
    <3>2. Dated(R, Len(chain))
      BY <2>2, <3>1, ReplayDated DEF Accounted
    <3>3. q \in Nat
      BY <2>5
    <3>4. QED
      BY <3>2, <3>3 DEF Dated
  <2> HIDE DEF q
  <2> DEFINE i == q + 1
             j == tail + 1
             k == Len(chain)
  <2>7. i \in 0 .. k /\ j \in i .. k /\ k \in i .. k
    BY <2>3, <2>5
  <2> HIDE DEF i, j, k
  <2>8. Lasts(R[i], R[j]) /\ Lasts(R[i], R[k])
    BY <2>2, <2>7, ReplayLasts DEF Accounted, k
  <2>9. R[j].key[n] = R[i].key[n] /\ R[k].key[n] = R[i].key[n]
    BY <2>6, <2>8 DEF Lasts, i
  <2>10. led.key[n] = R[k].key[n]
    BY <2>2 DEF Twin, k
  <2>11. QED
    BY <2>4, <2>9, <2>10 DEF x, seg, j
<1>2. Spec => []RosterInv /\ []ReplayInv
  BY RosterAlways, ReplayAlways
<1>3. QED
  BY <1>1, <1>2, InductiveInvariant, InputsAlways, TypeInit, TypeNext, PTL DEF Spec

-----------------------------------------------------------------------------
(* When every segment does tell: if no balance block is empty (ListsSome).   *)
(* A balance block lists registered nodes only and becomes their source, and *)
(* the tail passes a source at a balance block only; so, once the genesis    *)
(* block has left, there is a balance block in every window.                 *)

(* The source s is a block of the chain c, and such a block.                 *)
BalanceHome(c, s) == s \in 0 .. Len(c) - 1 /\ (s = 0 \/ BlockAt(c, s).kind = "Balance")

HomeInv ==
  /\ Len(chain) - tail <= W
  /\ chain # <<>> => \E n \in NodeSlot : BalanceHome(chain, base.source[n])

(* No effect of a block moves the source of a node that has one; and what a  *)
(* balance block lists has one.                                              *)
LEMMA SourceStays ==
  ASSUME IInv, TypeInv, RosterInv, ReplayInv, phase = "Derived", chain # <<>>
  PROVE  /\ \A n \in NodeSlot : Seeded(base, n) => led.source[n] = base.source[n]
         /\ block.kind = "Balance" => \A i \in DOMAIN block.entries : Seeded(base, block.entries[i].node)
<1> DEFINE d == Len(chain)
           last == Len(block.ops)
<1>1. /\ block \in Universe /\ block.seq = d /\ Tier1Gate(block) /\ WellFormed(chain, tail)
      /\ done = DOMAIN block.ops /\ Effects /\ d \in Nat
  BY DEF IInv, Called, WellFormed
<1>2. d # 0 /\ last \in Nat /\ DOMAIN block.ops = 1 .. last
  BY <1>1, UniverseAssumption DEF WellFormed
<1>3. PICK R : History(R)
  BY DEF ReplayInv
<1> DEFINE t == R[d]
<1>4. /\ Replays(R, chain) /\ Twin(base, t, tail) /\ BlockAdmitted(t, Complete, block)
      /\ Followed(R)
  BY <1>3 DEF History
<1>5. t \in LedgerState /\ Roster(t)
  <2>1. d \in 0 .. Len(chain)
    BY <1>1
  <2> HIDE DEF d
  <2>2. QED
    BY <1>1, <1>2, <1>4, <2>1, ReplayTyped
<1>6. PICK k, h : /\ k \in Nat /\ done = 1 .. k
                  /\ Run(h, k, t, block)
                  /\ Twin(led, h[k].l, tail)
  BY <1>4 DEF Followed
<1>7. k = last
  <2>1. 1 .. k = 1 .. last
    BY <1>1, <1>2, <1>6
  <2> HIDE DEF last
  <2>2. QED
    BY <1>2, <1>6, <2>1
<1> HIDE DEF t, d
<1>8. Vacant(t, block)
  BY <1>1, <1>2, <1>5 DEF Vacant, Roster
<1>9. \A i \in 0 .. last : Grows(t, h[i].l, block)
  BY <1>1, <1>5, <1>6, <1>7, <1>8, RunLasts
<1>10. ASSUME NEW n \in NodeSlot, Seeded(base, n)
       PROVE  led.source[n] = base.source[n]
  <2>1. Seeded(t, n)
    BY <1>4, <1>10, TwinAlike
  <2>2. Seeded(led, n)
    <3>1. last \in 0 .. last
      BY <1>2
    <3>2. Seeded(h[k].l, n)
      BY <1>7, <1>9, <2>1, <3>1 DEF Grows, Lasts
    <3>3. QED
      BY <1>6, <3>2, TwinAlike
  <2>3. ASSUME NEW i \in done, block.ops[i].kind = "Register", block.ops[i].id = n
        PROVE  FALSE
    <3> DEFINE j == i - 1
    <3>1. i \in 1 .. k /\ j \in 0 .. last
      BY <1>2, <1>6, <1>7
    <3>2. PICK value : Admitted(h[j].l, Complete, block, block.ops[i], h[j].fees, h[j].outs, 0, value)
      BY <1>6, <3>1 DEF Run
    <3> HIDE DEF j
    <3>3. n = h[j].l.watermark + 1
      BY <1>1, <1>2, <2>3, <3>2 DEF Admitted, RegisterAdmitted, Complete
    <3>4. t.watermark <= h[j].l.watermark /\ h[j].l.watermark \in Nat
      BY <1>9, <3>1 DEF Grows, Lasts, LedgerState
    <3>5. n <= t.watermark /\ t.watermark \in Nat
      BY <1>5, <1>8, <2>1 DEF Vacant, LedgerState
    <3>6. QED
      BY <3>3, <3>4, <3>5
  <2>4. QED
    BY <1>1, <2>2, <2>3 DEF Effects, Seeded
<1>11. ASSUME block.kind = "Balance", NEW i \in DOMAIN block.entries
       PROVE  Seeded(base, block.entries[i].node)
  <2>1. Seeded(t, block.entries[i].node)
    BY <1>1, <1>4, <1>11, EntriesKnown DEF BlockAdmitted
  <2>2. QED
    BY <1>4, <2>1, TwinAlike
<1>12. QED
  BY <1>10, <1>11

LEMMA HomeCommits ==
  ASSUME ListsSome, GenesisForm, IInv, TypeInv, RosterInv, ReplayInv, HomeInv, Commit
  PROVE  HomeInv'
<1> DEFINE next == Committed(led, block, fees)
           n == Len(chain)
           old(x) == base.source[x]
           mid(x) == led.source[x]
           new(x) == next.source[x]
<1>1. /\ phase = "Derived"
      /\ led' = (IF Full THEN TailReleased(next, tail) ELSE next)
      /\ chain' = Append(chain, block)
      /\ tail' = (IF Full THEN tail + 1 ELSE tail)
      /\ base' = led'
  BY DEF Commit, Finish
<1>2. /\ 0 \in NodeSlot /\ WellFormed(chain, tail) /\ chain \in Seq(Universe)
      /\ n \in Nat /\ tail \in Nat /\ tail <= n
      /\ block \in Universe /\ block.seq = n /\ IsLedger(led)
      /\ SettledAt(chain, tail, base) /\ Effects
      /\ Full => TailDropAllowed(base, BlockAt(chain, tail).kind, tail, block)
  BY <1>1, ZeroSlot DEF IInv, Called, Settled, WellFormed
<1>3. /\ Len(chain') = n + 1 /\ chain' # <<>>
      /\ \A q \in 0 .. n - 1 : BlockAt(chain', q) = BlockAt(chain, q)
      /\ BlockAt(chain', n) = block
  <2>1. Len(chain') = n + 1 /\ \A q \in 0 .. n - 1 : BlockAt(chain', q) = BlockAt(chain, q)
    BY <1>1, <1>2, Appended
  <2>2. BlockAt(chain', n) = block
    BY <1>1, <1>2, Appended
  <2>3. QED
    BY <1>2, <2>1, <2>2
<1>4. Len(chain') - tail' <= W
  BY <1>1, <1>2, <1>3, LedgerAssumption DEF Full, HomeInv
<1>5. IsLedger(next) /\ next.source = MovedSources(led, block)
  BY <1>2, CommittedFields
<1>6. \A x \in NodeSlot : new(x) = IF block.kind = "Balance" /\ mid(x) # Unseeded /\ EntryOf(block, x) # {}
                                   THEN n ELSE mid(x)
  BY <1>2, <1>5 DEF MovedSources
<1>7. \A x \in NodeSlot : base'.source[x] = IF Full /\ new(x) = tail THEN Released ELSE new(x)
  <2> HIDE DEF next
  <2>1. CASE Full
    BY <1>1, <1>2, <1>5, <2>1, ReleasedFields
  <2>2. CASE ~Full
    BY <1>1, <2>2
  <2>3. QED
    BY <2>1, <2>2
<1> HIDE DEF next
<1>8. CASE chain = <<>>
  <2>1. n = 0 /\ ~Full
    BY <1>2, <1>8, LedgerAssumption DEF Full
  <2>2. mid(0) \in {Unseeded, 0}
    BY <1>2, <1>8, <2>1 DEF Effects, RosterInv, EmptyLedger
  <2>3. base'.source[0] # Unseeded
    <3>1. RosterInv' /\ TypeInv'
      BY RosterCommits, TypeCommits
    <3>2. Roster(base)' /\ 0 <= base'.watermark
      BY <1>3, <3>1 DEF RosterInv, TypeInv, LedgerState
    <3>3. QED
      BY <1>2, <3>2 DEF Roster, Seeded
  <2>4. base'.source[0] = 0
    BY <1>2, <1>6, <1>7, <2>1, <2>2, <2>3
  <2>5. BalanceHome(chain', base'.source[0])
    BY <1>3, <2>1, <2>4 DEF BalanceHome
  <2>6. QED
    BY <1>2, <1>4, <2>5 DEF HomeInv
<1>9. CASE chain # <<>> /\ block.kind = "Balance"
  <2> DEFINE x == block.entries[1].node
  <2>1. 1 \in DOMAIN block.entries
    <3>1. Len(block.entries) \in Nat /\ DOMAIN block.entries = 1 .. Len(block.entries)
      BY <1>2, <1>9, HeaderAssumption
    <3>2. Len(block.entries) # 0
      BY <1>2, <1>9, <3>1 DEF ListsSome
    <3>3. QED
      BY <3>1, <3>2
  <2>2. Seeded(base, x) /\ x \in NodeSlot /\ mid(x) = old(x)
    <3>1. Seeded(base, x)
      BY <1>1, <1>9, <2>1, SourceStays
    <3> HIDE DEF x
    <3>2. x \in NodeSlot
      BY <3>1 DEF Seeded
    <3>3. QED
      BY <1>1, <1>9, <3>1, <3>2, SourceStays
  <2>3. EntryOf(block, x) # {}
    BY <2>1 DEF EntryOf
  <2> HIDE DEF x
  <2>4. new(x) = n
    BY <1>6, <1>9, <2>2, <2>3 DEF Seeded
  <2>5. n # tail
    BY <1>2, <1>9 DEF ReplayInv
  <2>6. base'.source[x] = n
    BY <1>7, <2>2, <2>4, <2>5
  <2>7. BalanceHome(chain', base'.source[x])
    BY <1>2, <1>3, <1>9, <2>6 DEF BalanceHome
  <2>8. QED
    BY <1>4, <2>2, <2>7 DEF HomeInv
<1>10. CASE chain # <<>> /\ block.kind # "Balance"
  <2>1. PICK x \in NodeSlot : BalanceHome(chain, old(x))
    BY <1>10 DEF HomeInv
  <2>2. Seeded(base, x)
    BY <2>1 DEF BalanceHome, Seeded, Unseeded
  <2>3. new(x) = old(x)
    BY <1>1, <1>6, <1>10, <2>2, SourceStays
  <2>4. ~(Full /\ old(x) = tail)
    <3>1. SUFFICES ASSUME Full, old(x) = tail PROVE FALSE
      OBVIOUS
    <3>2. "SeedSource" \in Obligations(base, BlockAt(chain, tail).kind, tail)
      BY <3>1 DEF Obligations
    <3>3. tail < Len(chain)
      BY <1>10 DEF ReplayInv
    <3>4. Restates(block, "SeedSource")
      BY <1>2, <3>1, <3>2, <3>3, AllowedRestates
    <3>5. QED
      BY <1>10, <3>4 DEF Restates
  <2>5. base'.source[x] = old(x)
    BY <1>7, <2>3, <2>4
  <2> DEFINE s == old(x)
  <2> HIDE DEF s
  <2>6. s \in 0 .. n - 1 /\ (s = 0 \/ BlockAt(chain, s).kind = "Balance")
    BY <2>1 DEF BalanceHome, s
  <2>7. s \in 0 .. n /\ (s = 0 \/ BlockAt(chain', s).kind = "Balance")
    BY <1>2, <1>3, <2>6
  <2>8. BalanceHome(chain', s)
    BY <1>2, <1>3, <2>7 DEF BalanceHome
  <2>9. QED
    BY <1>4, <2>5, <2>8 DEF HomeInv, s
<1>11. QED
  BY <1>8, <1>9, <1>10

LEMMA HomeNext ==
  ASSUME ListsSome, GenesisForm
  PROVE  IInv /\ TypeInv /\ RosterInv /\ ReplayInv /\ HomeInv /\ [Next]_vars => HomeInv'
<1> SUFFICES ASSUME IInv, TypeInv, RosterInv, ReplayInv, HomeInv, [Next]_vars PROVE HomeInv'
  OBVIOUS
<1>1. ASSUME NEW b \in Universe, Begin(b) PROVE HomeInv'
  <2>1. chain' = chain /\ tail' = tail /\ base' = base
    BY <1>1 DEF Begin, RosterInv
  <2>2. QED
    BY <2>1 DEF HomeInv
<1>2. CASE Apply \/ Refuse \/ RefuseEnd \/ Derive \/ SaveFails \/ VotesRefuse \/ Undo \/ Abandon
           \/ UNCHANGED vars
  <2>1. chain' = chain /\ tail' = tail /\ base' = base
    BY <1>2 DEF Apply, Refuse, RefuseEnd, Derive, SaveFails, VotesRefuse, Fail, Undo, Abandon, vars, call
  <2>2. QED
    BY <2>1 DEF HomeInv
<1>3. CASE Commit
  BY <1>3, HomeCommits
<1>4. QED
  BY <1>1, <1>2, <1>3 DEF Next

LEMMA ToldThere ==
  ASSUME IInv, RosterInv, HomeInv, phase = "Idle", NEW a \in Joinable, a # 1
  PROVE  VotesTold(SubSeq(chain, a, Len(chain)))
<1> DEFINE n == Len(chain)
           seg == SubSeq(chain, a, n)
<1>1. /\ chain \in Seq(Universe) /\ n \in Nat /\ tail \in Nat /\ a \in 2 .. n
      /\ n - a + 1 >= W /\ chain # <<>>
  BY DEF IInv, WellFormed, Joinable
<1>2. a <= tail + 1
  BY <1>1, LedgerAssumption DEF HomeInv
<1>3. led = base /\ Rooted(chain, tail, base.source)
  BY DEF RosterInv, IInv, Settled, SettledAt
<1>4. PICK x \in NodeSlot : BalanceHome(chain, base.source[x])
  BY <1>1 DEF HomeInv
<1> DEFINE s == base.source[x]
<1>5. s \in tail .. n - 1
  <2>1. s \in {Unseeded, Released} \/ s \in tail .. n - 1
    BY <1>3 DEF Rooted
  <2>2. s \in Nat
    BY <1>4 DEF BalanceHome
  <2> HIDE DEF s, n
  <2>3. QED
    BY <2>1, <2>2 DEF Unseeded, Released
<1> HIDE DEF s
<1>6. BlockAt(chain, s).kind = "Balance"
  <2>1. s # 0
    BY <1>1, <1>2, <1>5
  <2>2. QED
    BY <1>4, <2>1 DEF BalanceHome, s
<1> DEFINE j == s - a + 2
<1>7. j \in 1 .. n - a + 1 /\ a + j - 1 = s + 1
  BY <1>1, <1>2, <1>5
<1>8. DOMAIN seg = 1 .. n - a + 1 /\ seg[j] = chain[s + 1]
  <2>1. \A k \in 1 .. n - a + 1 : seg[k] = chain[a + k - 1]
    BY <1>1
  <2>2. DOMAIN seg = 1 .. n - a + 1
    BY <1>1
  <2> HIDE DEF j, seg, n
  <2>3. QED
    BY <1>7, <2>1, <2>2
<1> HIDE DEF j, seg
<1>9. j \in Balances(seg)
  BY <1>6, <1>7, <1>8 DEF Balances, BlockAt
<1>10. QED
  BY <1>9 DEF VotesTold, seg

(* Where no balance block is empty, every segment the acquisition takes      *)
(* bounds its votes: the restating rule keeps a balance block in the window. *)
THEOREM AlwaysTold == ListsSome /\ GenesisForm => (Spec => []SegmentsTold)
<1> SUFFICES ASSUME ListsSome, GenesisForm PROVE Spec => []SegmentsTold
  OBVIOUS
<1>1. Init => HomeInv
  <2> SUFFICES ASSUME Init PROVE HomeInv
    OBVIOUS
  <2>1. chain = <<>> /\ Len(chain) = 0 /\ tail = 0
    BY DEF Init
  <2>2. QED
    BY <2>1, LedgerAssumption DEF HomeInv
<1>2. IInv /\ RosterInv /\ HomeInv => SegmentsTold
  BY ToldThere DEF SegmentsTold
<1>3. IInv /\ TypeInv /\ RosterInv /\ ReplayInv /\ HomeInv /\ [Next]_vars => HomeInv'
  BY HomeNext
<1>4. Spec => []RosterInv /\ []ReplayInv
  BY RosterAlways, ReplayAlways
<1>5. QED
  BY <1>1, <1>2, <1>3, <1>4, InductiveInvariant, InputsAlways, TypeInit, TypeNext, PTL DEF Spec

(* So then a node that joins late, or restarts, accepts what was accepted    *)
(* block by block, and ends with the ledger of a node that has followed the  *)
(* whole chain, as far as the segment tells.                                 *)
THEOREM LateJoinersAgree == ListsSome /\ GenesisForm => (Spec => []JoinerAgrees)
<1> SUFFICES ASSUME ListsSome, GenesisForm PROVE Spec => []JoinerAgrees
  OBVIOUS
<1>1. (Spec => []SegmentsTold) /\ (Spec => [](SegmentsTold => JoinerAgrees))
  BY AlwaysTold, JoinersTold
<1>2. QED
  BY <1>1, PTL

=============================================================================
