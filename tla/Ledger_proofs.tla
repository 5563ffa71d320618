--------------------------- MODULE Ledger_proofs ---------------------------
(***************************************************************************)
(* Proofs about the ledger, for any blocks, any roster and any window length: *)
(* the bits follow the chain, what leaves with the tail is restated, a       *)
(* failed step is undone exactly, the roster has no gaps, and no value is    *)
(* made or lost.                                                             *)
(***************************************************************************)
EXTENDS LedgerProperties, FoldLemmas

-----------------------------------------------------------------------------
(* What the operators of module Ledger do to the fields of a ledger.         *)

Fields == {"key", "balance", "source", "watermark", "unspent"}

IsLedger(l) == DOMAIN l = Fields /\ DOMAIN l.source = NodeSlot

OutputOf(op) == <<op.seq, op.index>>

(* Payments leave everything but the balances alone.                         *)
LEMMA PaymentFields ==
  ASSUME NEW l, IsLedger(l), NEW n, NEW x, NEW c
  PROVE  /\ \A r \in {Credit(l, n, x), Debit(l, n, x), CreditSeeded(l, n, x), DebitIf(l, c, n, x)} :
              /\ IsLedger(r)
              /\ r.source = l.source /\ r.unspent = l.unspent
<1>1. ASSUME NEW v
      PROVE  LET r == [l EXCEPT !.balance[n] = v]
             IN  IsLedger(r) /\ r.source = l.source /\ r.unspent = l.unspent
  BY DEF IsLedger, Fields
<1>2. \A r \in {Credit(l, n, x), Debit(l, n, x)} :
        IsLedger(r) /\ r.source = l.source /\ r.unspent = l.unspent
  BY <1>1 DEF Credit, Debit
<1>3. QED
  BY <1>2 DEF CreditSeeded, DebitIf

LEMMA SeedingFields ==
  ASSUME NEW l, IsLedger(l), NEW n, NEW k, NEW x, NEW q
  PROVE  LET r == SeedNode(l, n, k, x, q)
         IN  /\ IsLedger(r) /\ r.unspent = l.unspent
             /\ \A m \in NodeSlot : r.source[m] = IF m = n THEN q ELSE l.source[m]
<1>1. CASE n \in NodeSlot
  <2>1. SeedNode(l, n, k, x, q) = [l EXCEPT !.key[n] = k, !.balance[n] = x, !.source[n] = q]
    BY <1>1 DEF SeedNode
  <2>2. QED
    BY <1>1, <2>1 DEF IsLedger, Fields
<1>2. CASE n \notin NodeSlot
  BY <1>2 DEF SeedNode
<1>3. QED
  BY <1>1, <1>2

LEMMA WatermarkFields ==
  ASSUME NEW l, IsLedger(l), NEW w
  PROVE  LET r == [l EXCEPT !.watermark = w]
         IN  IsLedger(r) /\ r.source = l.source /\ r.unspent = l.unspent
BY DEF IsLedger, Fields

(* An effect moves the source of the node it registers and clears the bit of *)
(* the output it spends.                                                     *)
IsApplied(r, l, b, op) ==
  /\ IsLedger(r)
  /\ \A m \in NodeSlot :
       r.source[m] = IF op.kind = "Register" /\ op.id = m THEN b.seq ELSE l.source[m]
  /\ r.unspent = IF op.kind = "UtxoIn" THEN l.unspent \ {OutputOf(op)} ELSE l.unspent

LEMMA AppliedFields ==
  ASSUME NEW l, IsLedger(l), NEW b, NEW op,
         op.kind \in {"Transfer", "Register"} \union Complex
  PROVE  IsApplied(Applied(l, b, op), l, b, op)
<1> USE DEF IsApplied
<1>1. CASE op.kind = "Transfer"
  <2>1. DEFINE paid == DebitIf(l, Pays(l, b, op.node), op.node, op.amount + op.fee)
  <2>2. IsLedger(paid) /\ paid.source = l.source /\ paid.unspent = l.unspent
    BY PaymentFields
  <2>3. Applied(l, b, op) = CreditSeeded(paid, op.to, op.amount)
    BY <1>1 DEF Applied, Transferred
  <2> HIDE DEF paid
  <2>4. QED
    BY <1>1, <2>2, <2>3, PaymentFields
<1>2. CASE op.kind = "Register"
  <2>1. DEFINE paid == DebitIf(l, Pays(l, b, op.node), op.node, op.price + op.fee)
               grown == IF b.seq # 0 /\ op.id \in NodeSlot THEN Advanced(paid, op.id) ELSE paid
  <2>2. IsLedger(paid) /\ paid.source = l.source /\ paid.unspent = l.unspent
    BY PaymentFields
  <2> HIDE DEF paid
  <2>3. IsLedger(grown) /\ grown.source = l.source /\ grown.unspent = l.unspent
    BY <2>2, WatermarkFields DEF Advanced
  <2>4. Applied(l, b, op) = SeedNode(grown, op.id, op.key, 0, b.seq)
    BY <1>2 DEF Applied, Registered, paid
  <2> HIDE DEF grown
  <2>5. QED
    BY <1>2, <2>3, <2>4, SeedingFields
<1>3. CASE op.kind = "BalanceIn"
  BY <1>3, PaymentFields DEF Applied
<1>4. CASE op.kind = "UtxoIn"
  <2>1. Applied(l, b, op) = [l EXCEPT !.unspent = @ \ {OutputOf(op)}]
    BY <1>4 DEF Applied, OutputOf
  <2>2. QED
    BY <1>4, <2>1 DEF IsLedger, Fields
<1>5. CASE op.kind = "BalanceOut"
  BY <1>5, PaymentFields DEF Applied
<1>6. CASE op.kind \in {"UtxoOut", "Close"}
  BY <1>6 DEF Applied
<1>7. QED
  BY <1>1, <1>2, <1>3, <1>4, <1>5, <1>6 DEF Complex, Inputs, Outputs

(* Its inverse clears the source again and sets the bit again.               *)
IsUndone(r, l, op, low) ==
  /\ IsLedger(r)
  /\ \A m \in NodeSlot :
       r.source[m] = IF op.kind = "Register" /\ op.id = m THEN Unseeded ELSE l.source[m]
  /\ r.unspent = IF op.kind = "UtxoIn" /\ op.seq >= low
                 THEN l.unspent \union {OutputOf(op)} ELSE l.unspent

LEMMA UndoneFields ==
  ASSUME NEW l, IsLedger(l), NEW b, NEW op, NEW low,
         op.kind \in {"Transfer", "Register"} \union Complex
  PROVE  IsUndone(Undone(l, b, op, low), l, op, low)
<1> USE DEF IsUndone
<1>1. CASE op.kind = "Transfer"
  <2>1. DEFINE back == DebitIf(l, Seeded(l, op.to), op.to, op.amount)
  <2>2. IsLedger(back) /\ back.source = l.source /\ back.unspent = l.unspent
    BY PaymentFields
  <2>3. Undone(l, b, op, low) \in {back, Credit(back, op.node, WrapAdd(op.amount, op.fee))}
    BY <1>1 DEF Undone, UndoTransfer
  <2> HIDE DEF back
  <2>4. QED
    BY <1>1, <2>2, <2>3, PaymentFields
<1>2. CASE op.kind = "Register"
  <2>1. DEFINE cleared == ClearNode(l, op.id)
               back == IF b.seq # 0 /\ op.id \in NodeSlot
                       THEN [cleared EXCEPT !.watermark = IF op.id = 0 THEN 0 ELSE op.id - 1]
                       ELSE cleared
  <2>2. /\ IsLedger(cleared) /\ cleared.unspent = l.unspent
        /\ \A m \in NodeSlot : cleared.source[m] = IF op.id = m THEN Unseeded ELSE l.source[m]
    BY SeedingFields DEF ClearNode
  <2> HIDE DEF cleared
  <2>3. IsLedger(back) /\ back.source = cleared.source /\ back.unspent = cleared.unspent
    BY <2>2, WatermarkFields
  <2>4. Undone(l, b, op, low) \in {back, Credit(back, op.node, WrapAdd(op.price, op.fee))}
    BY <1>2 DEF Undone, UndoRegister, cleared
  <2> HIDE DEF back
  <2>5. QED
    BY <1>2, <2>2, <2>3, <2>4, PaymentFields
<1>3. CASE op.kind = "BalanceIn"
  BY <1>3, PaymentFields DEF Undone
<1>4. CASE op.kind = "UtxoIn"
  <2>1. Undone(l, b, op, low) = IF op.seq >= low THEN [l EXCEPT !.unspent = @ \union {OutputOf(op)}]
                                ELSE l
    BY <1>4 DEF Undone, UndoSpend, OutputOf
  <2>2. QED
    BY <1>4, <2>1 DEF IsLedger, Fields
<1>5. CASE op.kind = "BalanceOut"
  BY <1>5, PaymentFields DEF Undone
<1>6. CASE op.kind \in {"UtxoOut", "Close"}
  BY <1>6 DEF Undone
<1>7. QED
  BY <1>1, <1>2, <1>3, <1>4, <1>5, <1>6 DEF Complex, Inputs, Outputs

(* The commit moves sources to the block and adds its outputs; the release   *)
(* of the tail forgets what has its home there.                              *)
LEMMA CommittedFields ==
  ASSUME NEW l, IsLedger(l), NEW b, NEW x
  PROVE  LET r == Committed(l, b, x)
         IN  /\ IsLedger(r)
             /\ r.source = MovedSources(l, b)
             /\ r.unspent = l.unspent \union NewOutputs(b)
<1>1. DEFINE paid == IF b.seq > 1 THEN CreditSeeded(l, b.creator, b.mined + x) ELSE l
<1>2. IsLedger(paid) /\ paid.source = l.source /\ paid.unspent = l.unspent
  BY PaymentFields
<1>3. Committed(l, b, x) = [paid EXCEPT !.source = MovedSources(l, b), !.unspent = @ \union NewOutputs(b)]
  BY DEF Committed
<1> HIDE DEF paid
<1>4. DOMAIN MovedSources(l, b) = NodeSlot
  BY DEF MovedSources
<1>5. QED
  BY <1>2, <1>3, <1>4 DEF IsLedger, Fields

LEMMA ReleasedFields ==
  ASSUME NEW l, IsLedger(l), NEW q
  PROVE  LET r == TailReleased(l, q)
         IN  /\ IsLedger(r)
             /\ \A m \in NodeSlot : r.source[m] = IF l.source[m] = q THEN Released ELSE l.source[m]
             /\ r.unspent = {u \in l.unspent : u[1] # q}
BY DEF TailReleased, IsLedger, Fields

-----------------------------------------------------------------------------
(* The inductive invariant.  A source names a block of the window that can   *)
(* seed, so that a configuration or a block with outputs is never one.       *)

Home(b) == b.kind = "Balance" \/ OpsOf(b, {"Register"}) # {}

Rooted(c, low, source) ==
  \A n \in NodeSlot :
    \/ source[n] \in {Unseeded, Released}
    \/ source[n] \in low .. Len(c) - 1 /\ Home(BlockAt(c, source[n]))

OutputsAt(c, q) == {<<q, i>> : i \in 1 .. Cardinality(OpsOf(BlockAt(c, q), {"UtxoOut"}))}

SpendingOps(b) == OpsOf(b, {"UtxoIn"})

SpendsOf(b, ops) == {OutputOf(b.ops[i]) : i \in ops \intersect SpendingOps(b)}

SpendsAt(c, q) == SpendsOf(BlockAt(c, q), SpendingOps(BlockAt(c, q)))

OneEach(b, ops) ==
  \A i, j \in ops \intersect SpendingOps(b) : OutputOf(b.ops[i]) = OutputOf(b.ops[j]) => i = j

(* UnspentExact of the chain c, the window from low and the set bits.        *)
UnspentAt(c, low, unspent) ==
  /\ \A u : u \in unspent <=> /\ \E q \in low .. Len(c) - 1 : u \in OutputsAt(c, q)
                              /\ \A q \in 0 .. Len(c) - 1 : u \notin SpendsAt(c, q)
  /\ \A q \in 0 .. Len(c) - 1 :
       /\ OneEach(BlockAt(c, q), SpendingOps(BlockAt(c, q)))
       /\ \A r \in 0 .. Len(c) - 1 : r # q => SpendsAt(c, q) \intersect SpendsAt(c, r) = {}
       /\ \A u \in SpendsAt(c, q) : \E r \in 0 .. q - 1 : u \in OutputsAt(c, r)

WellFormed(c, low) ==
  /\ c \in Seq(Universe) /\ low \in Nat /\ low <= Len(c)
  /\ \A i \in 1 .. Len(c) : c[i].seq = i - 1 /\ Tier1Gate(c[i])

SettledAt(c, low, l) ==
  IsLedger(l) /\ Rooted(c, low, l.source) /\ UnspentAt(c, low, l.unspent)

Settled(l) == SettledAt(chain, tail, l)

(* What the effects in done have made of the ledger base.                    *)
Effects ==
  /\ \A n \in NodeSlot :
       \/ led.source[n] \in {base.source[n], Unseeded}
       \/ /\ led.source[n] = block.seq
          /\ \E i \in done : block.ops[i].kind = "Register" /\ block.ops[i].id = n
  /\ led.unspent = base.unspent \ SpendsOf(block, done)
  /\ SpendsOf(block, done) \subseteq base.unspent
  /\ OneEach(block, done)
  /\ \A i \in done \intersect SpendingOps(block) : block.ops[i].seq >= tail

Called ==
  /\ block \in Universe /\ block.seq = Len(chain) /\ Tier1Gate(block)
  /\ Full => TailDropAllowed(base, BlockAt(chain, tail).kind, tail, block)
  /\ Settled(base)
  /\ done \subseteq DOMAIN block.ops
  /\ Effects

IInv ==
  /\ phase \in {"Idle", "Apply", "Derived", "Undo"}
  /\ WellFormed(chain, tail)
  /\ IsLedger(led)
  /\ phase = "Idle" => done = {} /\ Settled(led)
  /\ phase # "Idle" => Called
  /\ phase \in {"Apply", "Derived"} => \E k \in Nat : done = 1 .. k
  /\ phase = "Derived" => done = DOMAIN block.ops

-----------------------------------------------------------------------------
(* How the parts of the invariant grow with the chain and shrink with its    *)
(* tail.                                                                     *)

LEMMA Appended ==
  ASSUME NEW c, NEW low, WellFormed(c, low), NEW b \in Universe
  PROVE  /\ Append(c, b) \in Seq(Universe) /\ Len(Append(c, b)) = Len(c) + 1
         /\ Len(c) \in Nat
         /\ \A q \in 0 .. Len(c) - 1 : BlockAt(Append(c, b), q) = BlockAt(c, q)
         /\ BlockAt(Append(c, b), Len(c)) = b
BY DEF WellFormed, BlockAt

LEMMA WellFormedGrows ==
  ASSUME NEW c, NEW low, WellFormed(c, low), NEW b \in Universe,
         b.seq = Len(c), Tier1Gate(b)
  PROVE  WellFormed(Append(c, b), low)
<1>1. ASSUME NEW i \in 1 .. Len(c) + 1
      PROVE  Append(c, b)[i].seq = i - 1 /\ Tier1Gate(Append(c, b)[i])
  <2>1. CASE i \in 1 .. Len(c)
    <3>1. Append(c, b)[i] = c[i]
      BY <2>1 DEF WellFormed
    <3>2. QED
      BY <2>1, <3>1 DEF WellFormed
  <2>2. CASE i = Len(c) + 1
    <3>1. Append(c, b)[i] = b /\ Len(c) \in Nat
      BY <2>2 DEF WellFormed
    <3>2. QED
      BY <2>2, <3>1
  <2>3. QED
    BY <2>1, <2>2 DEF WellFormed
<1>2. QED
  BY <1>1, Appended DEF WellFormed

LEMMA RootedGrows ==
  ASSUME NEW c, NEW low, WellFormed(c, low), NEW b \in Universe,
         NEW old, Rooted(c, low, old), NEW source,
         \A n \in NodeSlot : \/ source[n] \in {old[n], Unseeded}
                             \/ source[n] = Len(c) /\ Home(b)
  PROVE  Rooted(Append(c, b), low, source)
<1>1. SUFFICES ASSUME NEW n \in NodeSlot, source[n] \notin {Unseeded, Released}
               PROVE  /\ source[n] \in low .. Len(c)
                      /\ Home(BlockAt(Append(c, b), source[n]))
  BY Appended DEF Rooted
<1>2. CASE source[n] = Len(c) /\ Home(b)
  BY <1>2, Appended DEF WellFormed
<1>3. CASE source[n] = old[n]
  <2>1. source[n] \in low .. Len(c) - 1 /\ Home(BlockAt(c, source[n]))
    BY <1>1, <1>3 DEF Rooted
  <2>2. source[n] \in 0 .. Len(c) - 1 /\ source[n] \in low .. Len(c)
    BY <2>1 DEF WellFormed
  <2>3. QED
    BY <2>1, <2>2, Appended
<1>4. QED
  BY <1>1, <1>2, <1>3

LEMMA RootedDrops ==
  ASSUME NEW c, NEW low, WellFormed(c, low), low < Len(c),
         NEW old, Rooted(c, low, old), NEW source,
         \A n \in NodeSlot : source[n] = IF old[n] = low THEN Released ELSE old[n]
  PROVE  Rooted(c, low + 1, source)
<1>1. SUFFICES ASSUME NEW n \in NodeSlot, source[n] \notin {Unseeded, Released}
               PROVE  /\ source[n] \in low + 1 .. Len(c) - 1
                      /\ Home(BlockAt(c, source[n]))
  BY DEF Rooted
<1>2. source[n] = old[n] /\ old[n] # low
  BY <1>1
<1>3. old[n] \in low .. Len(c) - 1 /\ Home(BlockAt(c, old[n]))
  BY <1>1, <1>2 DEF Rooted
<1>4. QED
  BY <1>2, <1>3 DEF WellFormed

(* An output names its block by its first component.                         *)
LEMMA OutputHome ==
  ASSUME NEW c, NEW q, NEW u, u \in OutputsAt(c, q)
  PROVE  u[1] = q
BY DEF OutputsAt

(* Set bits are outputs of the window, by blocks that can have outputs.      *)
LEMMA UnspentHome ==
  ASSUME NEW c, NEW low, NEW unspent, UnspentAt(c, low, unspent), NEW u \in unspent
  PROVE  u[1] \in low .. Len(c) - 1 /\ u \in OutputsAt(c, u[1])
<1>1. PICK q \in low .. Len(c) - 1 : u \in OutputsAt(c, q)
  BY DEF UnspentAt
<1>2. QED
  BY <1>1, OutputHome

LEMMA UnspentGrows ==
  ASSUME NEW c, NEW low, WellFormed(c, low), NEW unspent, UnspentAt(c, low, unspent),
         NEW b \in Universe, b.seq = Len(c),
         OneEach(b, SpendingOps(b)), SpendsOf(b, SpendingOps(b)) \subseteq unspent
  PROVE  UnspentAt(Append(c, b), low, (unspent \ SpendsOf(b, SpendingOps(b))) \union NewOutputs(b))
<1> DEFINE d == Append(c, b)
           n == Len(c)
           S == SpendsOf(b, SpendingOps(b))
           U == (unspent \ S) \union NewOutputs(b)
<1>1. /\ n \in Nat /\ low \in Nat /\ low <= n
      /\ 0 .. Len(d) - 1 = (0 .. n - 1) \union {n}
      /\ low .. Len(d) - 1 = (low .. n - 1) \union {n}
      /\ low .. n - 1 \subseteq 0 .. n - 1
  BY Appended DEF WellFormed
<1>2. /\ \A q \in 0 .. n - 1 : /\ BlockAt(d, q) = BlockAt(c, q)
                               /\ OutputsAt(d, q) = OutputsAt(c, q)
                               /\ SpendsAt(d, q) = SpendsAt(c, q)
      /\ BlockAt(d, n) = b /\ OutputsAt(d, n) = NewOutputs(b) /\ SpendsAt(d, n) = S
  BY Appended DEF OutputsAt, SpendsAt, NewOutputs
<1> HIDE DEF d, S
(* A spend is of an older output, a new output is in no older block.         *)
<1>3. ASSUME NEW u \in S
      PROVE  /\ \E q \in low .. n - 1 : u \in OutputsAt(c, q)
             /\ \A q \in 0 .. n - 1 : u \notin SpendsAt(c, q)
  BY <1>3 DEF UnspentAt, S
<1>4. ASSUME NEW q \in 0 .. n - 1, NEW u \in SpendsAt(c, q)
      PROVE  \E r \in 0 .. q - 1 : u \in OutputsAt(c, r)
  BY <1>4 DEF UnspentAt
<1>5. ASSUME NEW u \in NewOutputs(b)
      PROVE  /\ \A q \in 0 .. n - 1 : u \notin OutputsAt(c, q)
             /\ \A q \in 0 .. n - 1 : u \notin SpendsAt(c, q)
             /\ u \notin S
  <2>1. u[1] = n
    BY DEF NewOutputs
  <2>2. ASSUME NEW q \in 0 .. n - 1 PROVE u \notin OutputsAt(c, q)
    BY <2>1, <1>1, OutputHome
  <2>3. ASSUME NEW q \in 0 .. n - 1 PROVE u \notin SpendsAt(c, q)
    <3>1. \A r \in 0 .. q - 1 : r \in 0 .. n - 1
      BY <1>1
    <3>2. QED
      BY <3>1, <2>2, <1>4
  <2>4. u \notin S
    BY <2>2, <1>1, <1>3
  <2>5. QED
    BY <2>2, <2>3, <2>4
<1>6. ASSUME NEW u
      PROVE  u \in U <=> /\ \E q \in low .. Len(d) - 1 : u \in OutputsAt(d, q)
                         /\ \A q \in 0 .. Len(d) - 1 : u \notin SpendsAt(d, q)
  <2>1. (\E q \in low .. Len(d) - 1 : u \in OutputsAt(d, q))
          <=> \/ \E q \in low .. n - 1 : u \in OutputsAt(c, q)
              \/ u \in NewOutputs(b)
    BY <1>1, <1>2
  <2>2. (\A q \in 0 .. Len(d) - 1 : u \notin SpendsAt(d, q))
          <=> (\A q \in 0 .. n - 1 : u \notin SpendsAt(c, q)) /\ u \notin S
    BY <1>1, <1>2
  <2>3. u \in unspent <=> /\ \E q \in low .. n - 1 : u \in OutputsAt(c, q)
                          /\ \A q \in 0 .. n - 1 : u \notin SpendsAt(c, q)
    BY DEF UnspentAt
  <2>4. QED
    BY <2>1, <2>2, <2>3, <1>5
<1>7. ASSUME NEW q \in 0 .. Len(d) - 1
      PROVE  /\ OneEach(BlockAt(d, q), SpendingOps(BlockAt(d, q)))
             /\ \A u \in SpendsAt(d, q) : \E r \in 0 .. q - 1 : u \in OutputsAt(d, r)
  <2>1. CASE q \in 0 .. n - 1
    <3>1. OneEach(BlockAt(c, q), SpendingOps(BlockAt(c, q)))
      BY <2>1 DEF UnspentAt
    <3>2. \A r \in 0 .. q - 1 : r \in 0 .. n - 1
      BY <2>1, <1>1
    <3>3. QED
      BY <2>1, <3>1, <3>2, <1>2, <1>4
  <2>2. CASE q = n
    BY <2>2, <1>1, <1>2, <1>3
  <2>3. QED
    BY <2>1, <2>2, <1>1
<1>8. ASSUME NEW q \in 0 .. Len(d) - 1, NEW r \in 0 .. Len(d) - 1, r # q
      PROVE  SpendsAt(d, q) \intersect SpendsAt(d, r) = {}
  <2>1. CASE q \in 0 .. n - 1 /\ r \in 0 .. n - 1
    BY <2>1, <1>8, <1>2 DEF UnspentAt
  <2>2. CASE q = n /\ r \in 0 .. n - 1
    BY <2>2, <1>2, <1>3
  <2>3. CASE q \in 0 .. n - 1 /\ r = n
    BY <2>3, <1>2, <1>3
  <2>4. QED
    BY <1>1, <1>8, <2>1, <2>2, <2>3
<1>9. QED
  BY <1>6, <1>7, <1>8 DEF UnspentAt, d, S

LEMMA UnspentDrops ==
  ASSUME NEW c, NEW low, WellFormed(c, low), low < Len(c),
         NEW unspent, UnspentAt(c, low, unspent)
  PROVE  UnspentAt(c, low + 1, {u \in unspent : u[1] # low})
<1>1. low .. Len(c) - 1 = (low + 1 .. Len(c) - 1) \union {low} /\ low \notin low + 1 .. Len(c) - 1
  BY DEF WellFormed
<1>2. ASSUME NEW u
      PROVE  (u \in unspent /\ u[1] # low)
               <=> /\ \E q \in low + 1 .. Len(c) - 1 : u \in OutputsAt(c, q)
                   /\ \A q \in 0 .. Len(c) - 1 : u \notin SpendsAt(c, q)
  <2>1. (\E q \in low .. Len(c) - 1 : u \in OutputsAt(c, q)) /\ u[1] # low
          <=> \E q \in low + 1 .. Len(c) - 1 : u \in OutputsAt(c, q)
    BY <1>1, OutputHome
  <2>2. QED
    BY <2>1 DEF UnspentAt
<1>3. QED
  BY <1>2 DEF UnspentAt

-----------------------------------------------------------------------------
(* What the gate separates: only transactions have effects, and a block that *)
(* registers a node has no outputs.                                          *)

LEMMA NoOutputs ==
  ASSUME NEW b \in Universe, OpsOf(b, {"UtxoOut"}) = {}, NEW c, NEW q, BlockAt(c, q) = b
  PROVE  OutputsAt(c, q) = {}
<1>1. Cardinality(OpsOf(BlockAt(c, q), {"UtxoOut"})) = 0
  BY FS_EmptySet
<1>2. QED
  BY <1>1 DEF OutputsAt

LEMMA KindsApart ==
  ASSUME NEW b \in Universe, Tier1Gate(b)
  PROVE  /\ b.kind = "ChainConfig" => ~Home(b) /\ OpsOf(b, {"UtxoOut"}) = {}
         /\ Home(b) => OpsOf(b, {"UtxoOut"}) = {}
<1>1. b.kind # "Transactions" => OpsOf(b, {"UtxoOut"}) = {} /\ OpsOf(b, {"Register"}) = {}
  BY UniverseAssumption DEF OpsOf
<1>2. b.kind = "Transactions" /\ OpsOf(b, {"Register"}) # {} => OpsOf(b, {"UtxoOut"}) = {}
  BY DEF Tier1Gate, TransactionGate, OpsOf, Complex, Outputs
<1>3. QED
  BY <1>1, <1>2 DEF Home

(* A block of the window owes one thing at most.                             *)
LEMMA SingleObligation ==
  ASSUME NEW c, NEW low, WellFormed(c, low), NEW l,
         Rooted(c, low, l.source), UnspentAt(c, low, l.unspent),
         NEW q \in low .. Len(c) - 1
  PROVE  \E o : Obligations(l, BlockAt(c, q).kind, q) \subseteq {o}
<1> DEFINE b == BlockAt(c, q)
<1>1. b \in Universe /\ Tier1Gate(b) /\ q \in Nat
  BY DEF WellFormed, BlockAt
<1>2. ASSUME "SeedSource" \in Obligations(l, b.kind, q) PROVE Home(b)
  BY <1>1, <1>2 DEF Obligations, Rooted, Unseeded, Released
<1>3. ASSUME "Utxo" \in Obligations(l, b.kind, q) PROVE OpsOf(b, {"UtxoOut"}) # {}
  <2>1. PICK u \in l.unspent : u[1] = q
    BY <1>3 DEF Obligations
  <2>2. u \in OutputsAt(c, q)
    BY <2>1, UnspentHome
  <2>3. QED
    BY <2>2, <1>1, NoOutputs
<1>4. "ChainConfig" \in Obligations(l, b.kind, q) => b.kind = "ChainConfig"
  BY DEF Obligations
<1>5. Obligations(l, b.kind, q) \subseteq {"ChainConfig", "SeedSource", "Utxo"}
  BY DEF Obligations
<1> HIDE DEF b
<1>6. QED
  <2>1. \A o, p \in Obligations(l, b.kind, q) : o = p
    BY <1>1, <1>2, <1>3, <1>4, <1>5, KindsApart
  <2>2. QED
    BY <2>1 DEF b

-----------------------------------------------------------------------------
(* One step of the effects of a block, forwards and back.                    *)

LEMMA UndonePosition ==
  ASSUME NEW b \in Universe, NEW ops, ops \subseteq DOMAIN b.ops, ops # {}
  PROVE  NextUndone(b, ops) \in ops
<1> DEFINE txs == {b.ops[i].tx : i \in ops}
           newest == {i \in ops : \A j \in ops : b.ops[j].tx <= b.ops[i].tx}
           from == newest \intersect OpsOf(b, Outputs)
           choice == IF from # {} THEN from ELSE newest
<1>1. DOMAIN b.ops \subseteq Nat /\ Len(b.ops) \in Nat /\ txs \subseteq 1 .. Len(b.ops) /\ txs # {}
  BY UniverseAssumption
<1>2. PICK t \in txs : \A k \in txs : k <= t
  BY <1>1, GreatestUpTo
<1>3. newest # {}
  BY <1>2
<1>4. choice # {} /\ choice \subseteq ops /\ choice \subseteq Nat
  BY <1>1, <1>3
<1>5. NextUndone(b, ops) = Min(choice)
  BY DEF NextUndone
<1> HIDE DEF choice
<1>6. PICK m \in choice : \A k \in choice : m <= k
  BY <1>4, LeastOf
<1>7. Min(choice) \in choice
  BY <1>6 DEF Min
<1>8. QED
  BY <1>4, <1>5, <1>7

LEMMA ApplyEffects ==
  ASSUME IInv, phase = "Apply", Apply
  PROVE  Called' /\ IsLedger(led')
<1> DEFINE op == Current
<1>1. /\ block \in Universe /\ Position \in DOMAIN block.ops /\ op = block.ops[Position]
      /\ op.kind \in {"Transfer", "Register"} \union Complex
  BY UniverseAssumption DEF IInv, Called, Apply, Current
<1>2. /\ led' = Applied(led, block, op) /\ done' = done \union {Position}
      /\ UNCHANGED <<chain, tail, phase, block, base>>
  BY DEF Apply
<1>3. /\ IsLedger(led')
      /\ \A m \in NodeSlot :
           led'.source[m] = IF op.kind = "Register" /\ op.id = m THEN block.seq ELSE led.source[m]
      /\ led'.unspent = IF op.kind = "UtxoIn" THEN led.unspent \ {OutputOf(op)} ELSE led.unspent
  <2>1. IsLedger(led)
    BY DEF IInv
  <2> HIDE DEF op
  <2>2. IsApplied(Applied(led, block, op), led, block, op)
    BY <1>1, <2>1, AppliedFields
  <2>3. QED
    BY <1>2, <2>2 DEF IsApplied
<1>4. op.kind = "UtxoIn" => op.seq >= tail /\ OutputOf(op) \in led.unspent
  BY DEF Apply, CurrentAdmitted, Admitted, UtxoAdmitted, Resolves, Complete, OutputOf
<1>5. Effects
  BY DEF IInv, Called
<1>6. Position \in SpendingOps(block) <=> op.kind = "UtxoIn"
  BY <1>1 DEF SpendingOps, OpsOf
<1> HIDE DEF op
<1>7. SpendsOf(block, done') = IF op.kind = "UtxoIn" THEN SpendsOf(block, done) \union {OutputOf(op)}
                               ELSE SpendsOf(block, done)
  BY <1>1, <1>2, <1>6 DEF SpendsOf
<1>8. Effects'
  <2>1. \A n \in NodeSlot :
          \/ led'.source[n] \in {base.source[n], Unseeded}
          \/ /\ led'.source[n] = block.seq
             /\ \E i \in done' : block.ops[i].kind = "Register" /\ block.ops[i].id = n
    BY <1>1, <1>2, <1>3, <1>5 DEF Effects
  <2>2. led'.unspent = base.unspent \ SpendsOf(block, done')
    BY <1>3, <1>5, <1>7 DEF Effects
  <2>3. SpendsOf(block, done') \subseteq base.unspent
    BY <1>4, <1>5, <1>7 DEF Effects
  <2>4. OneEach(block, done')
    <3>1. ASSUME NEW i \in done \intersect SpendingOps(block), op.kind = "UtxoIn"
          PROVE  OutputOf(block.ops[i]) # OutputOf(op)
      <4>1. OutputOf(block.ops[i]) \in SpendsOf(block, done)
        BY DEF SpendsOf
      <4>2. QED
        BY <3>1, <4>1, <1>4, <1>5 DEF Effects
    <3>2. QED
      BY <3>1, <1>1, <1>2, <1>5, <1>6 DEF Effects, OneEach
  <2>5. \A i \in done' \intersect SpendingOps(block) : block.ops[i].seq >= tail
    BY <1>1, <1>2, <1>4, <1>5, <1>6 DEF Effects
  <2>6. QED
    BY <1>2, <2>1, <2>2, <2>3, <2>4, <2>5 DEF Effects
<1>9. QED
  BY <1>1, <1>2, <1>3, <1>8 DEF IInv, Called, Settled, Full

LEMMA UndoEffects ==
  ASSUME IInv, phase = "Undo", Undo
  PROVE  Called' /\ IsLedger(led')
<1> DEFINE i == NextUndone(block, done)
           op == block.ops[i]
<1>1. block \in Universe /\ done \subseteq DOMAIN block.ops /\ Effects
  BY DEF IInv, Called
<1>2. i \in done /\ op.kind \in {"Transfer", "Register"} \union Complex
  <2>1. i \in done
    BY <1>1, UndonePosition DEF Undo
  <2>2. QED
    BY <1>1, <2>1, UniverseAssumption
<1>3. /\ led' = Undone(led, block, op, tail) /\ done' = done \ {i}
      /\ UNCHANGED <<chain, tail, phase, block, base>>
  BY DEF Undo
<1>4. i \in SpendingOps(block) <=> op.kind = "UtxoIn"
  BY <1>1, <1>2 DEF SpendingOps, OpsOf
<1> HIDE DEF i
<1>5. /\ IsLedger(led')
      /\ \A m \in NodeSlot :
           led'.source[m] = IF op.kind = "Register" /\ op.id = m THEN Unseeded ELSE led.source[m]
      /\ led'.unspent = IF op.kind = "UtxoIn" /\ op.seq >= tail
                        THEN led.unspent \union {OutputOf(op)} ELSE led.unspent
  <2>1. IsLedger(led)
    BY DEF IInv
  <2> HIDE DEF op
  <2>2. IsUndone(Undone(led, block, op, tail), led, op, tail)
    BY <1>2, <2>1, UndoneFields
  <2>3. QED
    BY <1>3, <2>2 DEF IsUndone
<1>6. op.kind = "UtxoIn" => /\ op.seq >= tail
                            /\ SpendsOf(block, done) = SpendsOf(block, done') \union {OutputOf(op)}
                            /\ OutputOf(op) \notin SpendsOf(block, done')
  BY <1>1, <1>2, <1>3, <1>4 DEF Effects, SpendsOf, OneEach
<1>7. op.kind # "UtxoIn" => SpendsOf(block, done) = SpendsOf(block, done')
  BY <1>3, <1>4 DEF SpendsOf
<1>8. Effects'
  <2>1. ASSUME NEW n \in NodeSlot
        PROVE  \/ led'.source[n] \in {base.source[n], Unseeded}
               \/ /\ led'.source[n] = block.seq
                  /\ \E j \in done' : block.ops[j].kind = "Register" /\ block.ops[j].id = n
    <3>1. CASE op.kind = "Register" /\ op.id = n
      BY <3>1, <1>5
    <3>2. CASE ~(op.kind = "Register" /\ op.id = n)
      <4>1. led'.source[n] = led.source[n]
        BY <3>2, <1>5
      <4>2. \A j \in done : block.ops[j].kind = "Register" /\ block.ops[j].id = n => j \in done'
        BY <3>2, <1>3
      <4>3. QED
        BY <4>1, <4>2, <1>1 DEF Effects
    <3>3. QED
      BY <3>1, <3>2
  <2>2. led'.unspent = base.unspent \ SpendsOf(block, done')
    BY <1>1, <1>5, <1>6, <1>7 DEF Effects
  <2>3. SpendsOf(block, done') \subseteq base.unspent
    BY <1>1, <1>6, <1>7 DEF Effects
  <2>4. /\ OneEach(block, done')
        /\ \A j \in done' \intersect SpendingOps(block) : block.ops[j].seq >= tail
    BY <1>1, <1>3 DEF Effects, OneEach
  <2>5. QED
    BY <1>3, <2>1, <2>2, <2>3, <2>4 DEF Effects
<1>9. QED
  BY <1>1, <1>3, <1>5, <1>8 DEF IInv, Called, Settled, Full

-----------------------------------------------------------------------------
(* The commit of a derived block.                                            *)

LEMMA Commitment ==
  ASSUME NEW c, NEW low, WellFormed(c, low),
         NEW b \in Universe, b.seq = Len(c),
         NEW old, SettledAt(c, low, old),
         NEW l, IsLedger(l),
         \A n \in NodeSlot : \/ l.source[n] \in {old.source[n], Unseeded}
                             \/ l.source[n] = b.seq /\ Home(b),
         l.unspent = old.unspent \ SpendsOf(b, SpendingOps(b)),
         SpendsOf(b, SpendingOps(b)) \subseteq old.unspent,
         OneEach(b, SpendingOps(b)),
         NEW x
  PROVE  SettledAt(Append(c, b), low, Committed(l, b, x))
<1> DEFINE r == Committed(l, b, x)
<1>1. /\ IsLedger(r)
      /\ r.source = MovedSources(l, b)
      /\ r.unspent = l.unspent \union NewOutputs(b)
  BY CommittedFields
<1> HIDE DEF r
<1>2. \A n \in NodeSlot : \/ r.source[n] \in {old.source[n], Unseeded}
                          \/ r.source[n] = Len(c) /\ Home(b)
  BY <1>1 DEF MovedSources, Home
<1>3. Rooted(Append(c, b), low, r.source)
  BY <1>2, RootedGrows DEF SettledAt
<1>4. UnspentAt(Append(c, b), low, r.unspent)
  BY <1>1, UnspentGrows DEF SettledAt
<1>5. QED
  BY <1>1, <1>3, <1>4 DEF SettledAt, r

LEMMA Release ==
  ASSUME NEW c, NEW low, WellFormed(c, low), low < Len(c), NEW l, SettledAt(c, low, l)
  PROVE  WellFormed(c, low + 1) /\ SettledAt(c, low + 1, TailReleased(l, low))
<1> DEFINE r == TailReleased(l, low)
<1>1. /\ IsLedger(r)
      /\ \A n \in NodeSlot : r.source[n] = IF l.source[n] = low THEN Released ELSE l.source[n]
      /\ r.unspent = {u \in l.unspent : u[1] # low}
  BY ReleasedFields DEF SettledAt
<1> HIDE DEF r
<1>2. Rooted(c, low + 1, r.source)
  BY <1>1, RootedDrops DEF SettledAt
<1>3. UnspentAt(c, low + 1, r.unspent)
  BY <1>1, UnspentDrops DEF SettledAt
<1>4. QED
  BY <1>1, <1>2, <1>3 DEF SettledAt, WellFormed, r

LEMMA CommitSettles ==
  ASSUME IInv, phase = "Derived", Commit
  PROVE  WellFormed(chain', tail') /\ Settled(led)'
<1> DEFINE next == Committed(led, block, fees)
           grown == Append(chain, block)
<1>1. /\ WellFormed(chain, tail) /\ IsLedger(led) /\ done = DOMAIN block.ops
      /\ block \in Universe /\ block.seq = Len(chain) /\ Tier1Gate(block)
      /\ SettledAt(chain, tail, base) /\ Effects
  BY DEF IInv, Called, Settled
<1>2. SpendsOf(block, done) = SpendsOf(block, SpendingOps(block))
      /\ OneEach(block, SpendingOps(block))
  BY <1>1 DEF SpendsOf, SpendingOps, OpsOf, Effects, OneEach
<1>3. \A n \in NodeSlot : \/ led.source[n] \in {base.source[n], Unseeded}
                          \/ led.source[n] = block.seq /\ Home(block)
  BY <1>1 DEF Effects, Home, OpsOf
<1>4. /\ led.unspent = base.unspent \ SpendsOf(block, SpendingOps(block))
      /\ SpendsOf(block, SpendingOps(block)) \subseteq base.unspent
  BY <1>1, <1>2 DEF Effects
<1>5. SettledAt(grown, tail, next)
  BY <1>1, <1>2, <1>3, <1>4, Commitment
<1>6. WellFormed(grown, tail)
  BY <1>1, WellFormedGrows
<1>7. CASE Full
  <2>1. /\ tail < Len(grown)
    BY <1>1, <1>7, LedgerAssumption DEF WellFormed, Full
  <2>2. WellFormed(grown, tail + 1) /\ SettledAt(grown, tail + 1, TailReleased(next, tail))
    BY <1>5, <1>6, <2>1, Release
  <2>3. chain' = grown /\ tail' = tail + 1 /\ led' = TailReleased(next, tail)
    BY <1>7 DEF Commit
  <2> HIDE DEF next, grown
  <2>4. QED
    BY <2>2, <2>3 DEF Settled
<1>8. CASE ~Full
  <2>1. chain' = grown /\ tail' = tail /\ led' = next
    BY <1>8 DEF Commit
  <2> HIDE DEF next, grown
  <2>2. QED
    BY <1>5, <1>6, <2>1 DEF Settled
<1>9. QED
  BY <1>7, <1>8

(* The effects of a call that is given up are gone.                          *)
LEMMA AbandonSettles ==
  ASSUME IInv, phase = "Undo", done = {}
  PROVE  Settled(led)
<1>1. /\ WellFormed(chain, tail) /\ IsLedger(led) /\ SettledAt(chain, tail, base) /\ Effects
  BY DEF IInv, Called, Settled
<1>2. \A n \in NodeSlot : led.source[n] \in {base.source[n], Unseeded}
  BY <1>1 DEF Effects
<1>3. led.unspent = base.unspent
  BY <1>1 DEF Effects, SpendsOf
<1>4. Rooted(chain, tail, led.source)
  BY <1>1, <1>2 DEF SettledAt, Rooted
<1>5. QED
  BY <1>1, <1>3, <1>4 DEF Settled, SettledAt

(* As many outputs are spent by a block as it has inputs.                    *)
LEMMA SpendsCounted ==
  ASSUME NEW c, NEW low, WellFormed(c, low), NEW q \in 0 .. Len(c) - 1,
         OneEach(BlockAt(c, q), SpendingOps(BlockAt(c, q)))
  PROVE  Cardinality(SpendsAt(c, q)) = Cardinality(SpendingOps(BlockAt(c, q)))
<1> DEFINE b == BlockAt(c, q)
           f == [i \in SpendingOps(b) |-> OutputOf(b.ops[i])]
<1>1. b \in Universe
  BY DEF WellFormed, BlockAt
<1>2. IsFiniteSet(SpendingOps(b))
  <2>1. SpendingOps(b) \subseteq 1 .. Len(b.ops) /\ Len(b.ops) \in Nat
    BY <1>1, UniverseAssumption DEF SpendingOps, OpsOf
  <2>2. IsFiniteSet(1 .. Len(b.ops))
    <3>1. 1 \in Int /\ Len(b.ops) \in Int
      BY <2>1
    <3>2. QED
      BY <3>1, FS_Interval, Zenon
  <2>3. QED
    BY <2>1, <2>2, FS_Subset
<1>3. f \in Bijection(SpendingOps(b), SpendsAt(c, q))
  <2>1. SpendsAt(c, q) = {f[i] : i \in SpendingOps(b)}
    BY DEF SpendsAt, SpendsOf
  <2>2. \A i, j \in SpendingOps(b) : f[i] = f[j] => i = j
    BY DEF OneEach
  <2> HIDE DEF b
  <2>3. QED
    BY <2>1, <2>2 DEF Bijection, Injection, Surjection, IsInjective
<1>4. QED
  BY <1>2, <1>3, FS_Bijection DEF ExistsBijection

-----------------------------------------------------------------------------
(* The invariant is inductive.                                               *)

LEMMA InitOK == Init => IInv
<1>1. SUFFICES ASSUME Init PROVE IInv
  OBVIOUS
<1>2. IsLedger(EmptyLedger)
  BY DEF EmptyLedger, IsLedger, Fields
<1>3. WellFormed(<<>>, 0) /\ Rooted(<<>>, 0, EmptyLedger.source)
  BY DEF WellFormed, Rooted, EmptyLedger
<1>4. UnspentAt(<<>>, 0, EmptyLedger.unspent)
  BY DEF UnspentAt, EmptyLedger
<1>5. QED
  BY <1>1, <1>2, <1>3, <1>4 DEF Init, IInv, Settled, SettledAt

LEMMA BeginOK ==
  ASSUME IInv, NEW b \in Universe, Begin(b)
  PROVE  IInv'
<1>1. /\ phase = "Idle" /\ done = {} /\ SettledAt(chain, tail, led) /\ WellFormed(chain, tail)
      /\ phase' = "Apply" /\ block' = b /\ base' = led
      /\ UNCHANGED <<led, chain, tail, done>>
      /\ b.seq = Len(chain) /\ Tier1Gate(b)
      /\ Full => TailDropAllowed(led, BlockAt(chain, tail).kind, tail, b)
  BY DEF IInv, Begin, Settled
<1>2. Effects'
  BY <1>1 DEF Effects, SpendsOf, OneEach
<1>3. Called'
  BY <1>1, <1>2 DEF Called, Settled, Full
<1>4. done' = 1 .. 0
  BY <1>1
<1>5. IsLedger(led')
  BY <1>1 DEF IInv
<1>6. QED
  BY <1>1, <1>3, <1>4, <1>5 DEF IInv

(* The next position follows the last.                                       *)
LEMMA PositionNext ==
  ASSUME NEW k \in Nat, done = 1 .. k
  PROVE  Position = k + 1
<1>1. 1 \in Int /\ k \in Int
  OBVIOUS
<1>2. Cardinality(1 .. k) = IF 1 > k THEN 0 ELSE k - 1 + 1
  BY <1>1, FS_Interval, Zenon
<1>3. Cardinality(done) = k
  BY <1>2
<1>4. QED
  BY <1>3 DEF Position

LEMMA FailOK ==
  ASSUME IInv, phase # "Idle", Fail
  PROVE  IInv'
BY DEF IInv, Fail, Called, Effects, Settled, Full

LEMMA NextOK == IInv /\ [Next]_vars => IInv'
<1> SUFFICES ASSUME IInv, [Next]_vars PROVE IInv'
  OBVIOUS
<1>1. ASSUME NEW b \in Universe, Begin(b) PROVE IInv'
  BY <1>1, BeginOK
<1>2. CASE Apply
  <2>1. phase = "Apply" /\ UNCHANGED <<chain, tail, phase>>
    BY <1>2 DEF Apply
  <2>2. Called' /\ IsLedger(led')
    BY <1>2, <2>1, ApplyEffects
  <2>3. PICK k \in Nat : done = 1 .. k
    BY <2>1 DEF IInv
  <2>4. done' = 1 .. k + 1
    BY <1>2, <2>3, PositionNext DEF Apply
  <2>5. QED
    BY <2>1, <2>2, <2>4 DEF IInv
<1>3. CASE Refuse
  BY <1>3, FailOK DEF Refuse
<1>4. CASE RefuseEnd
  BY <1>4, FailOK DEF RefuseEnd
<1>5. CASE Derive
  <2>1. /\ phase = "Apply" /\ Position \notin DOMAIN block.ops /\ phase' = "Derived"
        /\ UNCHANGED <<led, chain, tail, block, done, base>>
    BY <1>5 DEF Derive
  <2>2. PICK k \in Nat : done = 1 .. k
    BY <2>1 DEF IInv
  <2>3. done = DOMAIN block.ops
    <3>1. DOMAIN block.ops = 1 .. Len(block.ops) /\ Len(block.ops) \in Nat
      BY <2>1, UniverseAssumption DEF IInv, Called
    <3>2. 1 .. k \subseteq 1 .. Len(block.ops)
      BY <2>1, <2>2, <3>1 DEF IInv, Called
    <3>3. k + 1 \notin 1 .. Len(block.ops)
      BY <2>1, <2>2, <3>1, PositionNext
    <3>4. k = Len(block.ops)
      BY <3>1, <3>2, <3>3
    <3>5. QED
      BY <2>2, <3>1, <3>4
  <2>4. QED
    BY <2>1, <2>2, <2>3 DEF IInv, Called, Effects, Settled, Full
<1>6. CASE SaveFails
  BY <1>6, FailOK DEF SaveFails
<1>7. CASE VotesRefuse
  BY <1>7, FailOK DEF VotesRefuse
<1>8. CASE Commit
  <2>1. phase = "Derived" /\ phase' = "Idle" /\ done' = {}
    BY <1>8 DEF Commit, Finish
  <2>2. WellFormed(chain', tail') /\ Settled(led)'
    BY <1>8, <2>1, CommitSettles
  <2>3. QED
    BY <2>1, <2>2 DEF IInv, Settled, SettledAt
<1>9. CASE Undo
  <2>1. phase = "Undo" /\ UNCHANGED <<chain, tail, phase>>
    BY <1>9 DEF Undo
  <2>2. Called' /\ IsLedger(led')
    BY <1>9, <2>1, UndoEffects
  <2>3. QED
    BY <2>1, <2>2 DEF IInv
<1>10. CASE Abandon
  <2>1. /\ phase = "Undo" /\ done = {} /\ phase' = "Idle" /\ done' = {}
        /\ UNCHANGED <<led, chain, tail>>
    BY <1>10 DEF Abandon, Finish
  <2>2. Settled(led)
    BY <2>1, AbandonSettles
  <2>3. QED
    BY <2>1, <2>2 DEF IInv, Settled
<1>11. CASE UNCHANGED vars
  BY <1>11 DEF vars, call, IInv, Called, Effects, Settled, Full
<1>12. QED
  BY <1>1, <1>2, <1>3, <1>4, <1>5, <1>6, <1>7, <1>8, <1>9, <1>10, <1>11 DEF Next

THEOREM InductiveInvariant == Spec => []IInv
BY InitOK, NextOK, PTL DEF Spec

-----------------------------------------------------------------------------
(* What follows from it.                                                     *)

(* Between blocks the set bits are exactly the outputs of the window that no *)
(* later block spent, and no output is ever spent twice or before it exists: *)
(* derive_block's checks, the inversion of a failed step, the commit and the *)
(* tail's release keep the bits of blocks.rs in step with the chain.         *)
THEOREM BitsFollowChain == Spec => []UnspentExact
<1>1. IInv => UnspentExact
  <2>1. SUFFICES ASSUME IInv, phase = "Idle" PROVE UnspentExact
    BY DEF UnspentExact
  <2>2. UnspentAt(chain, tail, led.unspent)
    BY <2>1 DEF IInv, Settled, SettledAt
  <2>3. /\ \A q : OutputIds(q) = OutputsAt(chain, q)
        /\ \A q : Spends(q) = SpendsAt(chain, q)
    BY DEF OutputIds, OutputsAt, Spends, SpendsAt, SpendsOf, SpendingOps, OutputOf
  <2>4. led.unspent = (UNION {OutputIds(q) : q \in tail .. Len(chain) - 1})
                        \ (UNION {Spends(q) : q \in Sequences0})
    BY <2>2, <2>3 DEF UnspentAt, Sequences0
  <2>5. ASSUME NEW q \in Sequences0
        PROVE  /\ Cardinality(Spends(q)) = Cardinality(OpsOf(BlockAt(chain, q), {"UtxoIn"}))
               /\ \A r \in Sequences0 \ {q} : Spends(q) \intersect Spends(r) = {}
               /\ Spends(q) \subseteq UNION {OutputIds(r) : r \in 0 .. q - 1}
    <3>1. OneEach(BlockAt(chain, q), SpendingOps(BlockAt(chain, q)))
      BY <2>2 DEF UnspentAt, Sequences0
    <3>2. Cardinality(SpendsAt(chain, q)) = Cardinality(SpendingOps(BlockAt(chain, q)))
      BY <2>1, <3>1, SpendsCounted DEF IInv, Sequences0
    <3>3. QED
      BY <2>2, <2>3, <3>2 DEF UnspentAt, Sequences0, SpendingOps
  <2>6. QED
    BY <2>4, <2>5 DEF UnspentExact
<1>2. QED
  BY <1>1, InductiveInvariant, PTL

(* A block of the window owes one thing at most when it drops off the tail,  *)
(* because the gate keeps registrations and complex transactions in separate *)
(* blocks: the order of tail_obligation's checks is of no matter.            *)
THEOREM ObligationsSingle == Spec => []OneObligation
<1>1. IInv => OneObligation
  <2>1. SUFFICES ASSUME IInv, phase = "Idle", NEW q \in tail .. Len(chain) - 1
                 PROVE  Cardinality(Obligations(led, BlockAt(chain, q).kind, q)) <= 1
    BY DEF OneObligation
  <2>2. /\ WellFormed(chain, tail) /\ Rooted(chain, tail, led.source)
        /\ UnspentAt(chain, tail, led.unspent)
    BY <2>1 DEF IInv, Settled, SettledAt
  <2>3. \E o : Obligations(led, BlockAt(chain, q).kind, q) \subseteq {o}
    BY <2>2, SingleObligation
  <2>4. QED
    <3>1. PICK o : Obligations(led, BlockAt(chain, q).kind, q) \subseteq {o}
      BY <2>3
    <3>2. IsFiniteSet({o}) /\ Cardinality({o}) = 1
      BY FS_Singleton
    <3>3. QED
      BY <3>1, <3>2, FS_Subset
<1>2. QED
  BY <1>1, InductiveInvariant, PTL

(* What a block is let to push out of the window it restates.                *)
LEMMA AllowedRestates ==
  ASSUME NEW c, NEW low, WellFormed(c, low), low < Len(c), NEW l, SettledAt(c, low, l),
         NEW b, TailDropAllowed(l, BlockAt(c, low).kind, low, b),
         NEW o \in Obligations(l, BlockAt(c, low).kind, low)
  PROVE  Restates(b, o)
<1> DEFINE owed == Obligations(l, BlockAt(c, low).kind, low)
<1>1. low \in low .. Len(c) - 1
  BY DEF WellFormed
<1>2. PICK p : owed \subseteq {p}
  BY <1>1, SingleObligation DEF SettledAt
<1>3. owed \subseteq {"ChainConfig", "SeedSource", "Utxo"} /\ o \in owed
  BY DEF Obligations
<1>4. \/ owed = {"ChainConfig"} /\ o = "ChainConfig"
      \/ owed = {"SeedSource"} /\ o = "SeedSource"
      \/ owed = {"Utxo"} /\ o = "Utxo"
  BY <1>2, <1>3
<1>5. CASE owed = {"ChainConfig"} /\ o = "ChainConfig"
  BY <1>5 DEF TailDropAllowed
<1>6. CASE owed = {"SeedSource"} /\ o = "SeedSource"
  BY <1>6 DEF TailDropAllowed
<1>7. CASE owed = {"Utxo"} /\ o = "Utxo"
  BY <1>7 DEF TailDropAllowed
<1>8. QED
  BY <1>4, <1>5, <1>6, <1>7

(* Nothing unspent leaves the window unless the block that pushes it out     *)
(* carries outputs forward, and no roster entry loses its source unless that *)
(* block restates balances: tail_drop_allowed, asked before the block's own  *)
(* effects, still covers what is there when the tail is released after them. *)
THEOREM TailRestated == Spec => DropsRestated
<1>1. ASSUME IInv, Next PROVE DropStep
  <2>1. SUFFICES ASSUME tail' # tail PROVE DropStep
    BY DEF DropStep
  <2>2. Commit /\ Full
    BY <1>1, <2>1 DEF Next, Begin, Apply, Refuse, RefuseEnd, Derive, SaveFails, VotesRefuse,
                      Fail, Commit, Undo, Abandon
  <2>3. /\ phase = "Derived" /\ tail' = tail + 1
        /\ led' = TailReleased(Committed(led, block, fees), tail)
    BY <2>2 DEF Commit
  <2>4. /\ WellFormed(chain, tail) /\ SettledAt(chain, tail, base) /\ Effects
        /\ IsLedger(led) /\ block.seq = Len(chain)
        /\ TailDropAllowed(base, BlockAt(chain, tail).kind, tail, block)
    BY <1>1, <2>2, <2>3 DEF IInv, Called, Settled
  <2>5. tail \in Nat /\ Len(chain) \in Nat /\ tail < Len(chain)
    BY <2>2, <2>4, LedgerAssumption DEF WellFormed, Full
  <2>6. ASSUME NEW o \in Obligations(base, BlockAt(chain, tail).kind, tail)
        PROVE  Restates(block, o)
    BY <2>4, <2>5, AllowedRestates
  <2>7. ASSUME NEW u \in led.unspent, u[1] < tail'
        PROVE  \E tx \in ComplexTxs(block) : CarryForward(block, tx)
    <3>1. u \in base.unspent
      BY <2>4 DEF Effects
    <3>2. u[1] \in tail .. Len(chain) - 1
      BY <2>4, <3>1, UnspentHome DEF SettledAt
    <3>3. u[1] = tail
      BY <2>3, <2>5, <2>7, <3>2
    <3>4. "Utxo" \in Obligations(base, BlockAt(chain, tail).kind, tail)
      BY <3>1, <3>3 DEF Obligations
    <3>5. Restates(block, "Utxo")
      BY <2>6, <3>4
    <3>6. QED
      BY <3>5 DEF Restates
  <2>8. ASSUME NEW n \in NodeSlot, led'.source[n] = Released, led.source[n] # Released,
               block.kind # "Balance"
        PROVE  FALSE
    <3>1. led'.source[n] = IF led.source[n] = tail THEN Released ELSE led.source[n]
      <4> DEFINE next == Committed(led, block, fees)
      <4>1. IsLedger(next) /\ next.source = MovedSources(led, block)
        BY <2>4, CommittedFields
      <4>2. next.source[n] = led.source[n]
        BY <2>8, <4>1 DEF MovedSources
      <4> HIDE DEF next
      <4>3. TailReleased(next, tail).source[n] = IF next.source[n] = tail THEN Released ELSE next.source[n]
        BY <4>1, ReleasedFields
      <4>4. QED
        BY <2>3, <4>2, <4>3 DEF next
    <3>2. led.source[n] = tail
      BY <2>8, <3>1
    <3>3. base.source[n] = tail
      BY <2>4, <2>5, <3>2 DEF Effects, Unseeded
    <3>4. "SeedSource" \in Obligations(base, BlockAt(chain, tail).kind, tail)
      BY <3>3 DEF Obligations
    <3>5. Restates(block, "SeedSource")
      BY <2>6, <3>4
    <3>6. QED
      BY <2>8, <3>5 DEF Restates
  <2>9. QED
    BY <2>7, <2>8 DEF DropStep
<1>2. IInv /\ [Next]_vars => [DropStep]_vars
  BY <1>1
<1>3. QED
  BY <1>2, InductiveInvariant, PTL DEF Spec, DropsRestated

-----------------------------------------------------------------------------
(* The types of a ledger, and the arithmetic of amounts.                     *)

LedgerState ==
  [key : [NodeSlot -> Key \union {NoKey}], balance : [NodeSlot -> Amount],
   source : [NodeSlot -> Nat \union {Unseeded, Released}], watermark : Nat,
   unspent : SUBSET (Nat \X Nat)]

(* Two ledgers that agree in every field are the same.                       *)
LEMMA SameLedger ==
  ASSUME NEW l \in LedgerState, NEW r \in LedgerState,
         r.key = l.key, r.source = l.source, r.watermark = l.watermark, r.unspent = l.unspent,
         \A m \in NodeSlot : r.balance[m] = l.balance[m]
  PROVE  r = l
<1>1. r.balance = l.balance
  BY DEF LedgerState
<1>2. QED
  BY <1>1 DEF LedgerState

LEMMA StateIsLedger ==
  ASSUME NEW l \in LedgerState
  PROVE  IsLedger(l)
BY DEF LedgerState, IsLedger, Fields

LEMMA EmptyTyped == EmptyLedger \in LedgerState
BY GateAssumption DEF EmptyLedger, LedgerState, Amount, Unseeded

(* Additions and subtractions that wrap commute and cancel.                  *)
LEMMA WrapFacts ==
  ASSUME NEW x \in Amount, NEW y \in Amount
  PROVE  /\ WrapAdd(x, y) \in Amount /\ WrapSub(x, y) \in Amount
         /\ WrapSub(WrapAdd(x, y), y) = x /\ WrapAdd(WrapSub(x, y), y) = x
         /\ WrapAdd(x, 0) = x /\ WrapSub(x, 0) = x /\ 0 \in Amount
BY GateAssumption DEF Amount, WrapAdd, WrapSub

LEMMA WrapCommutes ==
  ASSUME NEW x \in Amount, NEW y \in Amount, NEW z \in Amount
  PROVE  /\ WrapAdd(WrapAdd(x, y), z) = WrapAdd(WrapAdd(x, z), y)
         /\ WrapAdd(WrapSub(x, y), z) = WrapAdd(x, WrapSub(z, y))
         /\ WrapAdd(WrapSub(x, z), y) = WrapSub(x, WrapSub(z, y))
<1>1. AmountBound \in Nat /\ AmountBound > 0
  BY GateAssumption
<1>2. x \in Int /\ y \in Int /\ z \in Int /\ 0 <= x /\ x < AmountBound
      /\ 0 <= y /\ y < AmountBound /\ 0 <= z /\ z < AmountBound
  BY <1>1 DEF Amount
<1>3. WrapAdd(WrapAdd(x, y), z) = WrapAdd(WrapAdd(x, z), y)
  BY <1>1, <1>2 DEF WrapAdd
<1>4. WrapAdd(WrapSub(x, y), z) = WrapAdd(x, WrapSub(z, y))
  BY <1>1, <1>2 DEF WrapAdd, WrapSub
<1>5. WrapAdd(WrapSub(x, z), y) = WrapSub(x, WrapSub(z, y))
  BY <1>1, <1>2 DEF WrapAdd, WrapSub
<1>6. QED
  BY <1>3, <1>4, <1>5

(* r is the ledger l but for its balances.                                   *)
Repaid(r, l) ==
  /\ r \in LedgerState
  /\ r.key = l.key /\ r.source = l.source /\ r.watermark = l.watermark /\ r.unspent = l.unspent

LEMMA RepaidTwice ==
  ASSUME NEW q, NEW r, NEW l, Repaid(r, l), Repaid(q, r)
  PROVE  Repaid(q, l)
BY DEF Repaid

LEMMA PayTyped ==
  ASSUME NEW l \in LedgerState, NEW n, NEW x \in Amount, NEW c
  PROVE  /\ Repaid(Credit(l, n, x), l) /\ Repaid(Debit(l, n, x), l)
         /\ Repaid(CreditSeeded(l, n, x), l) /\ Repaid(DebitIf(l, c, n, x), l)
<1>1. ASSUME NEW v \in Amount, n \in NodeSlot PROVE Repaid([l EXCEPT !.balance[n] = v], l)
  BY <1>1 DEF LedgerState, Repaid
<1>2. Repaid(l, l)
  BY DEF Repaid
<1>3. n \in NodeSlot => WrapAdd(l.balance[n], x) \in Amount /\ WrapSub(l.balance[n], x) \in Amount
  BY WrapFacts DEF LedgerState
<1>4. Repaid(Credit(l, n, x), l)
  BY <1>1, <1>2, <1>3 DEF Credit
<1>5. Repaid(Debit(l, n, x), l)
  BY <1>1, <1>2, <1>3 DEF Debit
<1>6. QED
  BY <1>2, <1>4, <1>5 DEF CreditSeeded, DebitIf

LEMMA PayBalance ==
  ASSUME NEW l \in LedgerState, NEW n, NEW x \in Amount, NEW c, NEW m \in NodeSlot
  PROVE  /\ Credit(l, n, x).balance[m] = IF m = n THEN WrapAdd(l.balance[m], x) ELSE l.balance[m]
         /\ Debit(l, n, x).balance[m] = IF m = n THEN WrapSub(l.balance[m], x) ELSE l.balance[m]
         /\ CreditSeeded(l, n, x).balance[m] =
              IF Seeded(l, n) /\ m = n THEN WrapAdd(l.balance[m], x) ELSE l.balance[m]
         /\ DebitIf(l, c, n, x).balance[m] =
              IF c /\ m = n THEN WrapSub(l.balance[m], x) ELSE l.balance[m]
<1>1. ASSUME NEW v
      PROVE  n \in NodeSlot =>
               [l EXCEPT !.balance[n] = v].balance[m] = IF m = n THEN v ELSE l.balance[m]
  BY DEF LedgerState
<1>2. Credit(l, n, x).balance[m] = IF m = n THEN WrapAdd(l.balance[m], x) ELSE l.balance[m]
  BY <1>1 DEF Credit
<1>3. Debit(l, n, x).balance[m] = IF m = n THEN WrapSub(l.balance[m], x) ELSE l.balance[m]
  BY <1>1 DEF Debit
<1>4. QED
  BY <1>2, <1>3 DEF CreditSeeded, DebitIf

-----------------------------------------------------------------------------
(* What an effect that registers nobody takes from a node and gives to one.  *)

Loss(l, b, op, m) ==
  CASE op.kind = "Transfer" /\ m = op.node /\ Pays(l, b, m)  -> op.amount + op.fee
    [] op.kind = "BalanceIn" /\ m = op.node /\ Pays(l, b, m) -> op.amount
    [] OTHER -> 0

Gain(l, b, op, m) ==
  IF op.kind \in {"Transfer", "BalanceOut"} /\ m = op.to /\ Seeded(l, m) THEN op.amount ELSE 0

(* The effect op of block b, as parsed, whose payment fits an amount.        *)
Payable(op) ==
  /\ op.kind \in {"Transfer", "Register"} \union Complex /\ ParsedEffect(op)
  /\ op.kind = "Transfer" => op.amount + op.fee \in Amount
  /\ op.kind = "Register" => op.price + op.fee \in Amount /\ op.key \in Key

LEMMA FlowTyped ==
  ASSUME NEW l, NEW b, NEW op, Payable(op), NEW m
  PROVE  Loss(l, b, op, m) \in Amount /\ Gain(l, b, op, m) \in Amount
<1>1. 0 \in Amount
  BY GateAssumption DEF Amount
<1>2. op.kind \notin {"Register", "Close"} => op.amount \in Amount
  BY DEF Payable, ParsedEffect
<1>3. op.kind = "Transfer" => op.amount + op.fee \in Amount
  BY DEF Payable
<1>4. QED
  BY <1>1, <1>2, <1>3 DEF Loss, Gain

LEMMA FlowSeeded ==
  ASSUME NEW l, NEW b, NEW op, NEW m, ~Seeded(l, m)
  PROVE  Loss(l, b, op, m) = 0 /\ Gain(l, b, op, m) = 0
BY DEF Loss, Gain, Pays

(* r is l after such an effect, and l before it.                             *)
Gives(r, l, b, op) ==
  /\ r \in LedgerState /\ r.key = l.key /\ r.source = l.source /\ r.watermark = l.watermark
  /\ \A m \in NodeSlot :
       r.balance[m] = WrapAdd(WrapSub(l.balance[m], Loss(l, b, op, m)), Gain(l, b, op, m))

TakesBack(r, l, b, op) ==
  /\ r \in LedgerState /\ r.key = l.key /\ r.source = l.source /\ r.watermark = l.watermark
  /\ \A m \in NodeSlot :
       r.balance[m] = WrapAdd(WrapSub(l.balance[m], Gain(l, b, op, m)), Loss(l, b, op, m))

(* Who is seeded and who pays depends on the sources alone.                  *)
LEMMA SeededAlike ==
  ASSUME NEW l, NEW r, r.source = l.source
  PROVE  /\ \A n : Seeded(r, n) = Seeded(l, n)
         /\ \A b, n : Pays(r, b, n) = Pays(l, b, n)
         /\ \A b, op, n : Loss(r, b, op, n) = Loss(l, b, op, n)
         /\ \A b, op, n : Gain(r, b, op, n) = Gain(l, b, op, n)
<1>1. /\ \A n : Seeded(r, n) = Seeded(l, n)
      /\ \A b, n : Pays(r, b, n) = Pays(l, b, n)
  BY DEF Seeded, Pays
<1>2. QED
  BY <1>1 DEF Loss, Gain

LEMMA PaymentApplied ==
  ASSUME NEW l \in LedgerState, NEW b, NEW op, Payable(op), op.kind # "Register"
  PROVE  Gives(Applied(l, b, op), l, b, op)
<1>1. \A m \in NodeSlot : l.balance[m] \in Amount
  BY DEF LedgerState
<1>2. op.kind \notin {"Register", "Close"} => op.amount \in Amount
  BY DEF Payable, ParsedEffect
<1>3. CASE op.kind = "Transfer"
  <2> DEFINE paid == DebitIf(l, Pays(l, b, op.node), op.node, op.amount + op.fee)
  <2>1. op.amount + op.fee \in Amount
    BY <1>3 DEF Payable
  <2>2. Repaid(paid, l)
    BY <2>1, PayTyped
  <2>3. \A m \in NodeSlot : paid.balance[m] = WrapSub(l.balance[m], Loss(l, b, op, m))
    <3>1. ASSUME NEW m \in NodeSlot PROVE paid.balance[m] = WrapSub(l.balance[m], Loss(l, b, op, m))
      <4>1. paid.balance[m] = IF Pays(l, b, op.node) /\ m = op.node
                              THEN WrapSub(l.balance[m], op.amount + op.fee) ELSE l.balance[m]
        BY <2>1, PayBalance DEF DebitIf
      <4>2. Loss(l, b, op, m) = IF Pays(l, b, op.node) /\ m = op.node THEN op.amount + op.fee ELSE 0
        BY <1>3 DEF Loss
      <4>3. WrapSub(l.balance[m], 0) = l.balance[m]
        BY <1>1, WrapFacts
      <4>4. QED
        BY <4>1, <4>2, <4>3
    <3>2. QED
      BY <3>1
  <2>4. Applied(l, b, op) = CreditSeeded(paid, op.to, op.amount)
    BY <1>3 DEF Applied, Transferred
  <2> HIDE DEF paid
  <2>5. paid \in LedgerState /\ op.amount \in Amount /\ Seeded(paid, op.to) = Seeded(l, op.to)
    BY <1>2, <1>3, <2>2, SeededAlike DEF Repaid
  <2>6. Repaid(Applied(l, b, op), paid)
    BY <2>4, <2>5, PayTyped
  <2>7. ASSUME NEW m \in NodeSlot
        PROVE  Applied(l, b, op).balance[m]
                 = WrapAdd(WrapSub(l.balance[m], Loss(l, b, op, m)), Gain(l, b, op, m))
    <3>1. Applied(l, b, op).balance[m] = IF Seeded(l, op.to) /\ m = op.to
                                         THEN WrapAdd(paid.balance[m], op.amount) ELSE paid.balance[m]
      BY <2>4, <2>5, PayBalance
    <3>2. Gain(l, b, op, m) = IF Seeded(l, op.to) /\ m = op.to THEN op.amount ELSE 0
      BY <1>3 DEF Gain
    <3>3. WrapAdd(paid.balance[m], 0) = paid.balance[m]
      BY <2>5, WrapFacts DEF LedgerState
    <3>4. QED
      BY <2>3, <3>1, <3>2, <3>3
  <2>8. QED
    BY <2>2, <2>6, <2>7 DEF Gives, Repaid
<1>4. CASE op.kind = "BalanceIn"
  <2>1. Applied(l, b, op) = DebitIf(l, Pays(l, b, op.node), op.node, op.amount)
    BY <1>4 DEF Applied
  <2>2. Repaid(Applied(l, b, op), l)
    BY <1>2, <1>4, <2>1, PayTyped
  <2>3. ASSUME NEW m \in NodeSlot
        PROVE  Applied(l, b, op).balance[m]
                 = WrapAdd(WrapSub(l.balance[m], Loss(l, b, op, m)), Gain(l, b, op, m))
    <3>1. Applied(l, b, op).balance[m] = IF Pays(l, b, op.node) /\ m = op.node
                                         THEN WrapSub(l.balance[m], op.amount) ELSE l.balance[m]
      BY <1>2, <1>4, <2>1, PayBalance DEF DebitIf
    <3>2. /\ Loss(l, b, op, m) = IF Pays(l, b, op.node) /\ m = op.node THEN op.amount ELSE 0
          /\ Gain(l, b, op, m) = 0
      BY <1>4 DEF Loss, Gain
    <3>3. /\ WrapSub(l.balance[m], 0) = l.balance[m] /\ WrapAdd(l.balance[m], 0) = l.balance[m]
          /\ WrapAdd(WrapSub(l.balance[m], op.amount), 0) = WrapSub(l.balance[m], op.amount)
      BY <1>1, <1>2, <1>4, WrapFacts
    <3>4. QED
      BY <3>1, <3>2, <3>3
  <2>4. QED
    BY <2>2, <2>3 DEF Gives, Repaid
<1>5. CASE op.kind = "BalanceOut"
  <2>1. Applied(l, b, op) = CreditSeeded(l, op.to, op.amount)
    BY <1>5 DEF Applied
  <2>2. Repaid(Applied(l, b, op), l)
    BY <1>2, <1>5, <2>1, PayTyped
  <2>3. ASSUME NEW m \in NodeSlot
        PROVE  Applied(l, b, op).balance[m]
                 = WrapAdd(WrapSub(l.balance[m], Loss(l, b, op, m)), Gain(l, b, op, m))
    <3>1. Applied(l, b, op).balance[m] = IF Seeded(l, op.to) /\ m = op.to
                                         THEN WrapAdd(l.balance[m], op.amount) ELSE l.balance[m]
      BY <1>2, <1>5, <2>1, PayBalance
    <3>2. /\ Gain(l, b, op, m) = IF Seeded(l, op.to) /\ m = op.to THEN op.amount ELSE 0
          /\ Loss(l, b, op, m) = 0
      BY <1>5 DEF Loss, Gain
    <3>3. WrapSub(l.balance[m], 0) = l.balance[m] /\ WrapAdd(l.balance[m], 0) = l.balance[m]
      BY <1>1, WrapFacts
    <3>4. QED
      BY <3>1, <3>2, <3>3
  <2>4. QED
    BY <2>2, <2>3 DEF Gives, Repaid
<1>6. CASE op.kind \in {"UtxoIn", "UtxoOut", "Close"}
  <2>1. Applied(l, b, op) \in LedgerState
        /\ \A f \in {"key", "balance", "source", "watermark"} : Applied(l, b, op)[f] = l[f]
    BY <1>6 DEF Applied, LedgerState
  <2>2. \A m : Loss(l, b, op, m) = 0 /\ Gain(l, b, op, m) = 0
    BY <1>6 DEF Loss, Gain
  <2>3. \A m \in NodeSlot : WrapAdd(WrapSub(l.balance[m], 0), 0) = l.balance[m]
    BY <1>1, WrapFacts
  <2>4. QED
    BY <2>1, <2>2, <2>3 DEF Gives
<1>7. QED
  BY <1>3, <1>4, <1>5, <1>6 DEF Payable, Complex, Inputs, Outputs

LEMMA PaymentUndone ==
  ASSUME NEW l \in LedgerState, NEW b, NEW op, Payable(op), op.kind # "Register", NEW low
  PROVE  TakesBack(Undone(l, b, op, low), l, b, op)
<1>1. \A m \in NodeSlot : l.balance[m] \in Amount
  BY DEF LedgerState
<1>2. op.kind \notin {"Register", "Close"} => op.amount \in Amount
  BY DEF Payable, ParsedEffect
<1>3. CASE op.kind = "Transfer"
  <2> DEFINE back == DebitIf(l, Seeded(l, op.to), op.to, op.amount)
  <2>1. /\ op.amount \in Amount /\ op.fee \in Amount /\ op.amount + op.fee \in Amount
        /\ WrapAdd(op.amount, op.fee) = op.amount + op.fee
    BY <1>3, GateAssumption DEF Payable, ParsedEffect, WrapAdd, Amount
  <2>2. Repaid(back, l)
    BY <2>1, PayTyped
  <2>3. ASSUME NEW m \in NodeSlot PROVE back.balance[m] = WrapSub(l.balance[m], Gain(l, b, op, m))
    <3>1. back.balance[m] = IF Seeded(l, op.to) /\ m = op.to
                            THEN WrapSub(l.balance[m], op.amount) ELSE l.balance[m]
      BY <2>1, PayBalance DEF DebitIf
    <3>2. Gain(l, b, op, m) = IF Seeded(l, op.to) /\ m = op.to THEN op.amount ELSE 0
      BY <1>3 DEF Gain
    <3>3. WrapSub(l.balance[m], 0) = l.balance[m]
      BY <1>1, WrapFacts
    <3>4. QED
      BY <3>1, <3>2, <3>3
  <2>4. Undone(l, b, op, low) = IF Pays(back, b, op.node)
                                THEN Credit(back, op.node, op.amount + op.fee) ELSE back
    BY <1>3, <2>1 DEF Undone, UndoTransfer
  <2> HIDE DEF back
  <2>5. back \in LedgerState /\ Pays(back, b, op.node) = Pays(l, b, op.node)
    BY <2>2, SeededAlike DEF Repaid
  <2>6. Repaid(Undone(l, b, op, low), back)
    <3>1. Repaid(back, back) /\ Repaid(Credit(back, op.node, op.amount + op.fee), back)
      BY <2>1, <2>5, PayTyped DEF Repaid
    <3>2. QED
      BY <2>4, <3>1
  <2>7. ASSUME NEW m \in NodeSlot
        PROVE  Undone(l, b, op, low).balance[m]
                 = WrapAdd(WrapSub(l.balance[m], Gain(l, b, op, m)), Loss(l, b, op, m))
    <3>1. Undone(l, b, op, low).balance[m]
            = IF Pays(l, b, op.node) /\ m = op.node
              THEN WrapAdd(back.balance[m], op.amount + op.fee) ELSE back.balance[m]
      <4>1. Credit(back, op.node, op.amount + op.fee).balance[m]
              = IF m = op.node THEN WrapAdd(back.balance[m], op.amount + op.fee) ELSE back.balance[m]
        BY <2>1, <2>5, PayBalance
      <4>2. QED
        BY <2>4, <2>5, <4>1
    <3>2. Loss(l, b, op, m) = IF Pays(l, b, op.node) /\ m = op.node THEN op.amount + op.fee ELSE 0
      BY <1>3 DEF Loss
    <3>3. WrapAdd(back.balance[m], 0) = back.balance[m]
      BY <2>5, WrapFacts DEF LedgerState
    <3>4. QED
      BY <2>3, <3>1, <3>2, <3>3
  <2>8. QED
    BY <2>2, <2>6, <2>7 DEF TakesBack, Repaid
<1>4. CASE op.kind = "BalanceIn"
  <2>1. Undone(l, b, op, low) = IF Pays(l, b, op.node) THEN Credit(l, op.node, op.amount) ELSE l
    BY <1>4 DEF Undone
  <2>2. Repaid(Undone(l, b, op, low), l)
    <3>1. Repaid(l, l) /\ Repaid(Credit(l, op.node, op.amount), l)
      BY <1>2, <1>4, PayTyped DEF Repaid
    <3>2. QED
      BY <2>1, <3>1
  <2>3. ASSUME NEW m \in NodeSlot
        PROVE  Undone(l, b, op, low).balance[m]
                 = WrapAdd(WrapSub(l.balance[m], Gain(l, b, op, m)), Loss(l, b, op, m))
    <3>1. Undone(l, b, op, low).balance[m] = IF Pays(l, b, op.node) /\ m = op.node
                                             THEN WrapAdd(l.balance[m], op.amount) ELSE l.balance[m]
      BY <1>2, <1>4, <2>1, PayBalance
    <3>2. /\ Loss(l, b, op, m) = IF Pays(l, b, op.node) /\ m = op.node THEN op.amount ELSE 0
          /\ Gain(l, b, op, m) = 0
      BY <1>4 DEF Loss, Gain
    <3>3. WrapSub(l.balance[m], 0) = l.balance[m] /\ WrapAdd(l.balance[m], 0) = l.balance[m]
      BY <1>1, WrapFacts
    <3>4. QED
      BY <3>1, <3>2, <3>3
  <2>4. QED
    BY <2>2, <2>3 DEF TakesBack, Repaid
<1>5. CASE op.kind = "BalanceOut"
  <2>1. Undone(l, b, op, low) = DebitIf(l, Seeded(l, op.to), op.to, op.amount)
    BY <1>5 DEF Undone
  <2>2. Repaid(Undone(l, b, op, low), l)
    BY <1>2, <1>5, <2>1, PayTyped
  <2>3. ASSUME NEW m \in NodeSlot
        PROVE  Undone(l, b, op, low).balance[m]
                 = WrapAdd(WrapSub(l.balance[m], Gain(l, b, op, m)), Loss(l, b, op, m))
    <3>1. Undone(l, b, op, low).balance[m] = IF Seeded(l, op.to) /\ m = op.to
                                             THEN WrapSub(l.balance[m], op.amount) ELSE l.balance[m]
      BY <1>2, <1>5, <2>1, PayBalance DEF DebitIf
    <3>2. /\ Gain(l, b, op, m) = IF Seeded(l, op.to) /\ m = op.to THEN op.amount ELSE 0
          /\ Loss(l, b, op, m) = 0
      BY <1>5 DEF Loss, Gain
    <3>3. /\ WrapSub(l.balance[m], 0) = l.balance[m] /\ WrapAdd(l.balance[m], 0) = l.balance[m]
          /\ WrapAdd(WrapSub(l.balance[m], op.amount), 0) = WrapSub(l.balance[m], op.amount)
      BY <1>1, <1>2, <1>5, WrapFacts
    <3>4. QED
      BY <3>1, <3>2, <3>3
  <2>4. QED
    BY <2>2, <2>3 DEF TakesBack, Repaid
<1>6. CASE op.kind \in {"UtxoIn", "UtxoOut", "Close"}
  <2>1. Undone(l, b, op, low) \in LedgerState
        /\ \A f \in {"key", "balance", "source", "watermark"} : Undone(l, b, op, low)[f] = l[f]
    <3>1. CASE op.kind = "UtxoIn" /\ op.seq >= low
      <4>1. OutputOf(op) \in Nat \X Nat
        BY <3>1 DEF Payable, ParsedEffect, OutputOf
      <4>2. Undone(l, b, op, low) = [l EXCEPT !.unspent = @ \union {OutputOf(op)}]
        BY <3>1 DEF Undone, UndoSpend, OutputOf
      <4>3. QED
        BY <4>1, <4>2 DEF LedgerState
    <3>2. CASE ~(op.kind = "UtxoIn" /\ op.seq >= low)
      <4>1. Undone(l, b, op, low) = l
        BY <1>6, <3>2 DEF Undone, UndoSpend
      <4>2. QED
        BY <4>1
    <3>3. QED
      BY <3>1, <3>2
  <2>2. \A m : Loss(l, b, op, m) = 0 /\ Gain(l, b, op, m) = 0
    BY <1>6 DEF Loss, Gain
  <2>3. \A m \in NodeSlot : WrapAdd(WrapSub(l.balance[m], 0), 0) = l.balance[m]
    BY <1>1, WrapFacts
  <2>4. QED
    BY <2>1, <2>2, <2>3 DEF TakesBack
<1>7. QED
  BY <1>3, <1>4, <1>5, <1>6 DEF Payable, Complex, Inputs, Outputs

-----------------------------------------------------------------------------
(* A registration, and its inverse. *)

Seeds(r, l, n, k, x, q) ==
  /\ r \in LedgerState /\ r.watermark = l.watermark /\ r.unspent = l.unspent
  /\ \A m \in NodeSlot : /\ r.key[m] = IF m = n THEN k ELSE l.key[m]
                         /\ r.balance[m] = IF m = n THEN x ELSE l.balance[m]
                         /\ r.source[m] = IF m = n THEN q ELSE l.source[m]

LEMMA SeedTyped ==
  ASSUME NEW l \in LedgerState, NEW n, NEW k \in Key \union {NoKey}, NEW x \in Amount,
         NEW q \in Nat \union {Unseeded, Released}
  PROVE  Seeds(SeedNode(l, n, k, x, q), l, n, k, x, q)
<1>1. CASE n \in NodeSlot
  <2> DEFINE ks == [l.key EXCEPT ![n] = k]
             xs == [l.balance EXCEPT ![n] = x]
             qs == [l.source EXCEPT ![n] = q]
             r == [l EXCEPT !.key = ks, !.balance = xs, !.source = qs]
  <2>1. SeedNode(l, n, k, x, q) = r
    BY <1>1 DEF SeedNode
  <2>2. /\ ks \in [NodeSlot -> Key \union {NoKey}] /\ xs \in [NodeSlot -> Amount]
        /\ qs \in [NodeSlot -> Nat \union {Unseeded, Released}]
        /\ \A m \in NodeSlot : /\ ks[m] = IF m = n THEN k ELSE l.key[m]
                               /\ xs[m] = IF m = n THEN x ELSE l.balance[m]
                               /\ qs[m] = IF m = n THEN q ELSE l.source[m]
    BY <1>1 DEF LedgerState
  <2> HIDE DEF ks, xs, qs
  <2>3. /\ r \in LedgerState /\ r.key = ks /\ r.balance = xs /\ r.source = qs
        /\ r.watermark = l.watermark /\ r.unspent = l.unspent
    BY <2>2 DEF LedgerState
  <2> HIDE DEF r
  <2>4. QED
    BY <2>1, <2>2, <2>3 DEF Seeds
<1>2. CASE n \notin NodeSlot
  BY <1>2 DEF SeedNode, Seeds
<1>3. QED
  BY <1>1, <1>2

Price(l, b, op, m) == IF m = op.node /\ Pays(l, b, m) THEN op.price + op.fee ELSE 0

Sown(r, l, b, op) ==
  /\ r \in LedgerState /\ r.unspent = l.unspent
  /\ r.watermark = IF b.seq # 0 /\ op.id \in NodeSlot /\ l.watermark <= op.id
                   THEN op.id ELSE l.watermark
  /\ \A m \in NodeSlot :
       /\ r.key[m] = IF m = op.id THEN op.key ELSE l.key[m]
       /\ r.source[m] = IF m = op.id THEN b.seq ELSE l.source[m]
       /\ r.balance[m] = IF m = op.id THEN 0 ELSE WrapSub(l.balance[m], Price(l, b, op, m))

Unsown(r, l, b, op) ==
  /\ r \in LedgerState /\ r.unspent = l.unspent
  /\ r.watermark = IF b.seq # 0 /\ op.id \in NodeSlot THEN IF op.id = 0 THEN 0 ELSE op.id - 1
                   ELSE l.watermark
  /\ \A m \in NodeSlot :
       /\ r.key[m] = IF m = op.id THEN NoKey ELSE l.key[m]
       /\ r.source[m] = IF m = op.id THEN Unseeded ELSE l.source[m]
       /\ r.balance[m] = IF m = op.id THEN 0 ELSE WrapAdd(l.balance[m], Price(l, b, op, m))

LEMMA PriceTyped ==
  ASSUME NEW l, NEW b, NEW op, Payable(op), op.kind = "Register", NEW m
  PROVE  Price(l, b, op, m) \in Amount
BY GateAssumption DEF Price, Payable, Amount

LEMMA RegisterApplied ==
  ASSUME NEW l \in LedgerState, NEW b, b.seq \in Nat, NEW op, Payable(op), op.kind = "Register"
  PROVE  Sown(Applied(l, b, op), l, b, op)
<1> DEFINE paid == DebitIf(l, Pays(l, b, op.node), op.node, op.price + op.fee)
           grown == IF b.seq # 0 /\ op.id \in NodeSlot THEN Advanced(paid, op.id) ELSE paid
<1>1. op.price + op.fee \in Amount /\ op.key \in Key /\ op.id \in Nat /\ 0 \in Amount
  BY GateAssumption DEF Payable, ParsedEffect, Amount
<1>2. Repaid(paid, l)
  BY <1>1, PayTyped
<1>3. ASSUME NEW m \in NodeSlot PROVE paid.balance[m] = WrapSub(l.balance[m], Price(l, b, op, m))
  <2>1. paid.balance[m] = IF Pays(l, b, op.node) /\ m = op.node
                          THEN WrapSub(l.balance[m], op.price + op.fee) ELSE l.balance[m]
    BY <1>1, PayBalance DEF DebitIf
  <2>2. Price(l, b, op, m) = IF Pays(l, b, op.node) /\ m = op.node THEN op.price + op.fee ELSE 0
    BY DEF Price
  <2>3. WrapSub(l.balance[m], 0) = l.balance[m]
    BY WrapFacts DEF LedgerState
  <2>4. QED
    BY <2>1, <2>2, <2>3
<1>4. Applied(l, b, op) = SeedNode(grown, op.id, op.key, 0, b.seq)
  BY DEF Applied, Registered
<1> HIDE DEF paid
<1>5. /\ grown \in LedgerState /\ grown.key = l.key /\ grown.source = l.source
      /\ grown.balance = paid.balance /\ grown.unspent = l.unspent
      /\ grown.watermark = IF b.seq # 0 /\ op.id \in NodeSlot /\ l.watermark <= op.id
                           THEN op.id ELSE l.watermark
  <2>1. paid \in LedgerState /\ l.watermark \in Nat
    BY <1>2 DEF Repaid, LedgerState
  <2>2. Advanced(paid, op.id) = [paid EXCEPT !.watermark = IF l.watermark > op.id THEN l.watermark ELSE op.id]
    BY <1>2 DEF Advanced, Repaid
  <2>3. QED
    BY <1>1, <1>2, <2>1, <2>2 DEF Repaid, LedgerState
<1> HIDE DEF grown
<1>6. Seeds(Applied(l, b, op), grown, op.id, op.key, 0, b.seq)
  BY <1>1, <1>4, <1>5, SeedTyped
<1>7. QED
  BY <1>3, <1>5, <1>6 DEF Seeds, Sown

LEMMA RegisterUndone ==
  ASSUME NEW l \in LedgerState, NEW b, NEW op, Payable(op), op.kind = "Register", NEW low
  PROVE  Unsown(Undone(l, b, op, low), l, b, op)
<1> DEFINE cleared == ClearNode(l, op.id)
           back == IF b.seq # 0 /\ op.id \in NodeSlot
                   THEN [cleared EXCEPT !.watermark = IF op.id = 0 THEN 0 ELSE op.id - 1]
                   ELSE cleared
<1>1. /\ op.price \in Amount /\ op.fee \in Amount /\ op.price + op.fee \in Amount
      /\ WrapAdd(op.price, op.fee) = op.price + op.fee /\ op.id \in Nat /\ 0 \in Amount
  BY GateAssumption DEF Payable, ParsedEffect, WrapAdd, Amount
<1>2. Seeds(cleared, l, op.id, NoKey, 0, Unseeded)
  BY <1>1, SeedTyped DEF ClearNode
<1>3. Undone(l, b, op, low) = IF Pays(back, b, op.node)
                              THEN Credit(back, op.node, op.price + op.fee) ELSE back
  BY <1>1 DEF Undone, UndoRegister
<1> HIDE DEF cleared
<1>4. /\ back \in LedgerState /\ back.key = cleared.key /\ back.source = cleared.source
      /\ back.balance = cleared.balance /\ back.unspent = l.unspent
      /\ back.watermark = IF b.seq # 0 /\ op.id \in NodeSlot
                          THEN IF op.id = 0 THEN 0 ELSE op.id - 1 ELSE l.watermark
  <2>1. cleared \in LedgerState /\ cleared.watermark = l.watermark /\ cleared.unspent = l.unspent
    BY <1>2 DEF Seeds
  <2>2. (IF op.id = 0 THEN 0 ELSE op.id - 1) \in Nat
    BY <1>1
  <2>3. QED
    BY <2>1, <2>2 DEF LedgerState
<1> HIDE DEF back
<1>5. Pays(back, b, op.node) <=> Pays(l, b, op.node) /\ op.node # op.id
  <2>1. ASSUME op.node \in NodeSlot
        PROVE  back.source[op.node] = IF op.node = op.id THEN Unseeded ELSE l.source[op.node]
    BY <1>2, <1>4, <2>1 DEF Seeds
  <2>2. QED
    BY <2>1 DEF Pays, Seeded
<1>6. Repaid(Undone(l, b, op, low), back)
  <2>1. Repaid(back, back) /\ Repaid(Credit(back, op.node, op.price + op.fee), back)
    BY <1>1, <1>4, PayTyped DEF Repaid
  <2>2. QED
    BY <1>3, <2>1
<1>7. ASSUME NEW m \in NodeSlot
      PROVE  Undone(l, b, op, low).balance[m]
               = IF m = op.id THEN 0 ELSE WrapAdd(l.balance[m], Price(l, b, op, m))
  <2>1. Undone(l, b, op, low).balance[m]
          = IF Pays(l, b, op.node) /\ op.node # op.id /\ m = op.node
            THEN WrapAdd(back.balance[m], op.price + op.fee) ELSE back.balance[m]
    <3>1. Credit(back, op.node, op.price + op.fee).balance[m]
            = IF m = op.node THEN WrapAdd(back.balance[m], op.price + op.fee) ELSE back.balance[m]
      BY <1>1, <1>4, PayBalance
    <3>2. QED
      BY <1>3, <1>5, <3>1
  <2>2. Price(l, b, op, m) = IF Pays(l, b, op.node) /\ m = op.node THEN op.price + op.fee ELSE 0
    BY DEF Price
  <2>3. WrapAdd(l.balance[m], 0) = l.balance[m]
    BY WrapFacts DEF LedgerState
  <2>4. back.balance[m] = IF m = op.id THEN 0 ELSE l.balance[m]
    BY <1>2, <1>4 DEF Seeds
  <2>5. QED
    BY <2>1, <2>2, <2>3, <2>4
<1>8. QED
  BY <1>2, <1>4, <1>6, <1>7 DEF Unsown, Seeds, Repaid

-----------------------------------------------------------------------------
(* The sums of a complex transaction are numbers. *)

LEMMA OpsFinite ==
  ASSUME NEW b \in Universe, NEW kinds
  PROVE  /\ OpsOf(b, kinds) \subseteq 1 .. Len(b.ops) /\ Len(b.ops) \in Nat
         /\ IsFiniteSet(OpsOf(b, kinds)) /\ Cardinality(OpsOf(b, kinds)) \in Nat
<1>1. OpsOf(b, kinds) \subseteq 1 .. Len(b.ops) /\ Len(b.ops) \in Nat
  BY UniverseAssumption DEF OpsOf
<1>2. IsFiniteSet(1 .. Len(b.ops))
  <2>1. 1 \in Int /\ Len(b.ops) \in Int
    BY <1>1
  <2>2. QED
    BY <2>1, FS_Interval, Zenon
<1>3. IsFiniteSet(OpsOf(b, kinds))
  BY <1>1, <1>2, FS_Subset
<1>4. QED
  BY <1>1, <1>3, FS_CardinalityType

(* The sum of a transaction's inputs or outputs, as a sum over positions.    *)
LEMMA TotalSums ==
  ASSUME NEW b \in Universe, NEW tx, NEW kinds, kinds \in {Inputs, Outputs},
         NEW f, f = [i \in Side(b, tx, kinds) |-> b.ops[i].amount]
  PROVE  /\ IsFiniteSet(Side(b, tx, kinds)) /\ f \in [Side(b, tx, kinds) -> Nat]
         /\ \A F : Sums(F, Side(b, tx, kinds), f) => Total(b, tx, kinds) = F[Side(b, tx, kinds)]
<1> DEFINE S == Side(b, tx, kinds)
           amount(i) == b.ops[i].amount
           Eq(h) == h = [s \in SUBSET S |->
                          IF s = {} THEN 0
                          ELSE amount(CHOOSE x \in s : TRUE) + h[s \ {CHOOSE x \in s : TRUE}]]
           iter == CHOOSE h : Eq(h)
<1>1. Total(b, tx, kinds) = iter[S]
  BY DEF Total, MapThenSumSet, MapThenFoldSet
<1>2. IsFiniteSet(S)
  BY OpsFinite, FS_Subset DEF Side
<1>3. \A i \in S : amount(i) \in Nat
  <2>1. ASSUME NEW i \in S PROVE amount(i) \in Nat
    <3>1. i \in DOMAIN b.ops /\ b.ops[i].kind \in Inputs \union Outputs
      BY DEF Side, OpsOf
    <3>2. ParsedEffect(b.ops[i])
      BY <3>1, ParsedAssumption
    <3>3. QED
      BY <3>1, <3>2, GateAssumption DEF ParsedEffect, Inputs, Outputs, Amount
  <2>2. QED
    BY <2>1
<1> HIDE DEF S, amount
<1>4. f \in [S -> Nat] /\ \A i \in S : f[i] = amount(i)
  BY <1>3 DEF S, amount
<1>5. ASSUME NEW F, Sums(F, S, f) PROVE iter[S] = F[S]
  <2>1. SumEquation(F, S, f) /\ \A h : SumEquation(h, S, f) => h[S] = F[S]
    BY <1>2, <1>4, <1>5, SumSolves
  <2>2. \A s \in SUBSET S : s # {} => (CHOOSE x \in s : TRUE) \in S
    OBVIOUS
  <2>3. ASSUME NEW h, Eq(h) PROVE SumEquation(h, S, f)
    BY <2>2, <2>3, <1>4 DEF SumEquation
  <2>4. Eq([s \in SUBSET S |-> F[s]])
    BY <2>1, <2>2, <1>4 DEF SumEquation
  <2> HIDE DEF Eq
  <2>5. Eq(iter)
    BY <2>4
  <2>6. QED
    BY <2>1, <2>3, <2>5
<1>6. QED
  BY <1>1, <1>2, <1>4, <1>5 DEF S

LEMMA SurplusTyped ==
  ASSUME NEW b \in Universe, NEW tx
  PROVE  Surplus(b, tx) \in Nat /\ Total(b, tx, Inputs) \in Nat /\ Total(b, tx, Outputs) \in Nat
<1>1. ASSUME NEW kinds, kinds \in {Inputs, Outputs} PROVE Total(b, tx, kinds) \in Nat
  <2> DEFINE S == Side(b, tx, kinds)
             f == [i \in S |-> b.ops[i].amount]
  <2>1. /\ IsFiniteSet(S) /\ f \in [S -> Nat]
        /\ \A F : Sums(F, S, f) => Total(b, tx, kinds) = F[S]
    BY <1>1, TotalSums
  <2> HIDE DEF S, f
  <2>2. PICK F : Sums(F, S, f)
    BY <2>1, SumsExist
  <2>3. F[S] \in Nat
    BY <2>1, <2>2, SumsGrow
  <2>4. QED
    BY <2>1, <2>2, <2>3
<1>2. QED
  BY <1>1 DEF Surplus

-----------------------------------------------------------------------------
(* The type invariant: above all every balance stays an amount, whatever is  *)
(* applied, inverted in another order or committed.                          *)

TypeInv ==
  /\ led \in LedgerState /\ base \in LedgerState
  /\ fees \in Amount /\ outs \in 0 .. MaxOutputs
  /\ phase = "Idle" => block = NoBlock
  /\ phase # "Idle" => \A i \in done : Payable(block.ops[i])
  /\ phase = "Derived" => EndAdmitted(led, block, fees)

(* An effect that is admitted can be paid.                                   *)
LEMMA AdmittedPayable ==
  ASSUME NEW b \in Universe, Tier1Gate(b), NEW i \in DOMAIN b.ops, NEW l, NEW p, NEW x, NEW o,
         NEW low, NEW value, Admitted(l, p, b, b.ops[i], x, o, low, value)
  PROVE  Payable(b.ops[i])
<1> DEFINE op == b.ops[i]
<1>1. /\ op.kind \in {"Transfer", "Register"} \union Complex /\ ParsedEffect(op)
      /\ b.kind = "Transactions"
  BY UniverseAssumption, ParsedAssumption
<1>2. op.kind = "Transfer" => op.amount + op.fee \in Amount
  <2>1. op.kind = "Transfer" => op.amount + op.fee < AmountBound
    BY DEF Admitted, TransferAdmitted
  <2>2. QED
    BY <1>1, <2>1, GateAssumption DEF ParsedEffect, Amount
<1>3. op.kind = "Register" => op.price + op.fee \in Amount
  <2>1. op.kind = "Register" => op.price + op.fee < AmountBound
    BY DEF Admitted, RegisterAdmitted
  <2>2. QED
    BY <1>1, <2>1, GateAssumption DEF ParsedEffect, Amount
<1>4. op.kind = "Register" => op.key \in Key
  <2>1. OpGate(b, op)
    BY <1>1 DEF Tier1Gate, TransactionGate
  <2>2. QED
    BY <1>1, <2>1 DEF OpGate, ParsedEffect
<1>5. QED
  BY <1>1, <1>2, <1>3, <1>4 DEF Payable

LEMMA AppliedTyped ==
  ASSUME NEW l \in LedgerState, NEW b \in Universe, NEW op, Payable(op)
  PROVE  Applied(l, b, op) \in LedgerState
<1>1. b.seq \in Nat
  BY UniverseAssumption
<1>2. QED
  BY <1>1, PaymentApplied, RegisterApplied DEF Gives, Sown

LEMMA UndoneTyped ==
  ASSUME NEW l \in LedgerState, NEW b \in Universe, NEW op, Payable(op), NEW low
  PROVE  Undone(l, b, op, low) \in LedgerState
BY PaymentUndone, RegisterUndone DEF TakesBack, Unsown

LEMMA FeesTyped ==
  ASSUME NEW b \in Universe, NEW op, Payable(op), NEW x \in Amount, NEW o \in 0 .. MaxOutputs,
         NEW l, NEW p, NEW low, NEW value, Admitted(l, p, b, op, x, o, low, value)
  PROVE  x + FeeOf(l, b, op) \in Amount /\ o + OutputsOf(op) \in 0 .. MaxOutputs
<1>1. x \in Nat /\ x < AmountBound /\ AmountBound \in Nat /\ MaxOutputs \in Nat
  BY GateAssumption DEF Amount
<1>2. FeeOf(l, b, op) \in Nat
  <2>1. op.kind \in {"Transfer", "Register"} => op.fee \in Nat
    BY <1>1 DEF Payable, ParsedEffect, Amount
  <2>2. Surplus(b, op.tx) \in Nat
    BY SurplusTyped
  <2>3. QED
    BY <2>1, <2>2 DEF FeeOf
<1>3. x + FeeOf(l, b, op) < AmountBound
  <2>1. CASE op.kind = "Transfer"
    BY <2>1 DEF Admitted, TransferAdmitted, FeeOf
  <2>2. CASE op.kind = "Register"
    BY <1>1, <2>2 DEF Admitted, RegisterAdmitted, FeeOf
  <2>3. CASE op.kind = "Close"
    BY <2>3 DEF Admitted, FeeOf
  <2>4. CASE op.kind \notin {"Transfer", "Register", "Close"}
    BY <1>1, <2>4 DEF FeeOf
  <2>5. QED
    BY <2>1, <2>2, <2>3, <2>4
<1>4. x + FeeOf(l, b, op) \in Amount
  BY <1>1, <1>2, <1>3 DEF Amount
<1>5. o + OutputsOf(op) \in 0 .. MaxOutputs
  <2>1. op.kind = "UtxoOut" => o < MaxOutputs
    BY DEF Admitted
  <2>2. QED
    BY <1>1, <2>1 DEF OutputsOf
<1>6. QED
  BY <1>4, <1>5

LEMMA CommittedTyped ==
  ASSUME NEW l \in LedgerState, NEW b \in Universe, NEW x \in Amount, EndAdmitted(l, b, x)
  PROVE  Committed(l, b, x) \in LedgerState
<1> DEFINE paid == IF b.seq > 1 THEN CreditSeeded(l, b.creator, b.mined + x) ELSE l
<1>1. b.seq \in Nat /\ b.mined \in Amount
  BY UniverseAssumption, ParsedAssumption
<1>2. paid \in LedgerState /\ paid.source = l.source
  <2>1. CASE b.seq > 1 /\ Seeded(l, b.creator)
    <3>1. b.creator \in NodeSlot /\ l.balance[b.creator] \in Amount
      BY <2>1 DEF Seeded, LedgerState
    <3>2. l.balance[b.creator] + b.mined + x < AmountBound
      BY <2>1, <3>1 DEF EndAdmitted, BalanceOf
    <3>3. b.mined + x \in Amount
      BY <1>1, <3>1, <3>2, GateAssumption DEF Amount
    <3>4. QED
      BY <2>1, <3>3, PayTyped DEF Repaid
  <2>2. CASE ~(b.seq > 1 /\ Seeded(l, b.creator))
    BY <2>2 DEF CreditSeeded
  <2>3. QED
    BY <2>1, <2>2
<1>3. Committed(l, b, x) = [paid EXCEPT !.source = MovedSources(l, b), !.unspent = @ \union NewOutputs(b)]
  BY DEF Committed
<1> HIDE DEF paid
<1>4. MovedSources(l, b) \in [NodeSlot -> Nat \union {Unseeded, Released}]
  BY <1>1 DEF MovedSources, LedgerState
<1>5. NewOutputs(b) \subseteq Nat \X Nat
  <2>1. Cardinality(OpsOf(b, {"UtxoOut"})) \in Nat
    BY OpsFinite
  <2>2. QED
    BY <1>1, <2>1 DEF NewOutputs
<1>6. QED
  BY <1>2, <1>3, <1>4, <1>5 DEF LedgerState

LEMMA ReleasedTyped ==
  ASSUME NEW l \in LedgerState, NEW q
  PROVE  TailReleased(l, q) \in LedgerState
BY DEF TailReleased, LedgerState

LEMMA TypeInit == Init => TypeInv
BY EmptyTyped, GateAssumption DEF Init, TypeInv, Amount

LEMMA TypeFails ==
  ASSUME TypeInv, phase # "Idle", Fail
  PROVE  TypeInv'
BY DEF TypeInv, Fail

LEMMA TypeApplies ==
  ASSUME IInv, TypeInv, Apply
  PROVE  TypeInv'
<1> DEFINE op == Current
<1>1. /\ phase = "Apply" /\ Position \in DOMAIN block.ops /\ op = block.ops[Position]
      /\ Admitted(led, Complete, block, op, fees, outs, tail, Amounts(led, chain))
      /\ led' = Applied(led, block, op)
      /\ fees' = fees + FeeOf(led, block, op) /\ outs' = outs + OutputsOf(op)
      /\ done' = done \union {Position}
      /\ UNCHANGED <<chain, tail, phase, block, base>>
  BY DEF Apply, CurrentAdmitted, Current
<1>2. block \in Universe /\ Tier1Gate(block)
  BY <1>1 DEF IInv, Called
<1>3. Payable(op)
  BY <1>1, <1>2, AdmittedPayable
<1> HIDE DEF op
<1>4. led' \in LedgerState
  BY <1>1, <1>2, <1>3, AppliedTyped DEF TypeInv
<1>5. fees' \in Amount /\ outs' \in 0 .. MaxOutputs
  BY <1>1, <1>2, <1>3, FeesTyped DEF TypeInv
<1>6. \A i \in done' : Payable(block'.ops[i])
  BY <1>1, <1>3 DEF TypeInv
<1>7. QED
  BY <1>1, <1>4, <1>5, <1>6 DEF TypeInv

LEMMA TypeUndoes ==
  ASSUME IInv, TypeInv, Undo
  PROVE  TypeInv'
<1> DEFINE i == NextUndone(block, done)
<1>1. /\ phase = "Undo" /\ done # {} /\ done' = done \ {i}
      /\ led' = Undone(led, block, block.ops[i], tail)
      /\ UNCHANGED <<chain, tail, phase, block, fees, outs, base>>
  BY DEF Undo
<1>2. block \in Universe /\ done \subseteq DOMAIN block.ops
  BY <1>1 DEF IInv, Called
<1>3. i \in done
  BY <1>1, <1>2, UndonePosition
<1> HIDE DEF i
<1>4. Payable(block.ops[i])
  BY <1>1, <1>3 DEF TypeInv
<1>5. led' \in LedgerState
  BY <1>1, <1>2, <1>4, UndoneTyped DEF TypeInv
<1>6. QED
  BY <1>1, <1>5 DEF TypeInv

LEMMA TypeCommits ==
  ASSUME IInv, TypeInv, Commit
  PROVE  TypeInv'
<1> DEFINE next == Committed(led, block, fees)
<1>1. /\ phase = "Derived" /\ led' = IF Full THEN TailReleased(next, tail) ELSE next
      /\ base' = led' /\ phase' = "Idle" /\ block' = NoBlock /\ done' = {}
      /\ fees' = 0 /\ outs' = 0
  BY DEF Commit, Finish
<1>2. next \in LedgerState
  BY <1>1, CommittedTyped DEF TypeInv, IInv, Called
<1> HIDE DEF next
<1>3. led' \in LedgerState
  BY <1>1, <1>2, ReleasedTyped
<1>4. 0 \in Amount /\ 0 \in 0 .. MaxOutputs
  BY GateAssumption DEF Amount
<1>5. QED
  BY <1>1, <1>3, <1>4 DEF TypeInv

LEMMA TypeNext == IInv /\ TypeInv /\ [Next]_vars => TypeInv'
<1> SUFFICES ASSUME IInv, TypeInv, [Next]_vars PROVE TypeInv'
  OBVIOUS
<1>1. ASSUME NEW b \in Universe, Begin(b) PROVE TypeInv'
  BY <1>1 DEF Begin, TypeInv, IInv
<1>2. CASE Apply
  BY <1>2, TypeApplies
<1>3. CASE Refuse \/ RefuseEnd \/ SaveFails \/ VotesRefuse
  BY <1>3, TypeFails DEF Refuse, RefuseEnd, SaveFails, VotesRefuse
<1>4. CASE Derive
  BY <1>4 DEF Derive, TypeInv
<1>5. CASE Commit
  BY <1>5, TypeCommits
<1>6. CASE Undo
  BY <1>6, TypeUndoes
<1>7. CASE Abandon
  BY <1>7, GateAssumption DEF Abandon, Finish, TypeInv, Amount
<1>8. CASE UNCHANGED vars
  BY <1>8 DEF vars, call, TypeInv
<1>9. QED
  BY <1>1, <1>2, <1>3, <1>4, <1>5, <1>6, <1>7, <1>8 DEF Next

(* Every balance is an amount, fees and outputs stay within their bounds,    *)
(* and the rest of the state keeps its shape: the admission checks of        *)
(* derive_block leave no sum that overflows, and the wrapping inverses stay  *)
(* within the width.                                                         *)
THEOREM LedgerTyped == Spec => []TypeOK
<1>1. IInv /\ TypeInv => TypeOK
  <2>1. SUFFICES ASSUME IInv, TypeInv PROVE TypeOK
    OBVIOUS
  <2>2. \A l \in {led, base} : l \in LedgerState
    BY <2>1 DEF TypeInv
  <2>3. chain \in Seq(Universe) /\ tail \in Nat
    BY <2>1 DEF IInv, WellFormed
  <2>4. CASE phase = "Idle"
    BY <2>1, <2>2, <2>3, <2>4 DEF TypeOK, TypeInv, IInv, LedgerState
  <2>5. CASE phase # "Idle"
    BY <2>1, <2>2, <2>3, <2>5 DEF TypeOK, TypeInv, IInv, Called, LedgerState
  <2>6. QED
    BY <2>4, <2>5
<1>2. Spec => []TypeInv
  BY InductiveInvariant, TypeInit, TypeNext, PTL DEF Spec
<1>3. QED
  BY <1>1, <1>2, InductiveInvariant, PTL

-----------------------------------------------------------------------------
(* What the inputs of a derived block refer to, long after they were checked. *)

InputFits(c, b, i) ==
  LET op == b.ops[i]
  IN  /\ op.seq \in Nat /\ op.seq < b.seq /\ b.seq - op.seq <= W
      /\ OutputOf(op) \in OutputsAt(c, op.seq)
      /\ OutputAmount(c, op.seq, op.index) = op.amount

InputsFit(c, b, ops) == \A i \in ops \intersect SpendingOps(b) : InputFits(c, b, i)

InputsInv ==
  /\ \A q \in 0 .. Len(chain) - 1 : InputsFit(chain, BlockAt(chain, q), DOMAIN BlockAt(chain, q).ops)
  /\ phase # "Idle" => InputsFit(chain, block, done)

(* The chain only grows above what an input refers to.                       *)
LEMMA InputsFitOn ==
  ASSUME NEW c, NEW low, WellFormed(c, low), NEW d \in Universe,
         NEW b \in Universe, b.seq <= Len(c), NEW ops, InputsFit(c, b, ops)
  PROVE  InputsFit(Append(c, d), b, ops)
<1>1. ASSUME NEW i \in ops \intersect SpendingOps(b) PROVE InputFits(Append(c, d), b, i)
  <2> DEFINE op == b.ops[i]
             e == Append(c, d)
  <2>1. InputFits(c, b, i)
    BY DEF InputsFit
  <2>2. b.seq \in Nat /\ Len(c) \in Nat
    BY UniverseAssumption DEF WellFormed
  <2>3. op.seq \in 0 .. Len(c) - 1
    BY <2>1, <2>2 DEF InputFits
  <2>4. BlockAt(e, op.seq) = BlockAt(c, op.seq)
    BY <2>3, Appended
  <2> HIDE DEF e
  <2>5. OutputsAt(e, op.seq) = OutputsAt(c, op.seq)
    BY <2>4 DEF OutputsAt
  <2>6. OutputAmount(e, op.seq, op.index) = OutputAmount(c, op.seq, op.index)
    BY <2>4 DEF OutputAmount
  <2>7. QED
    BY <2>1, <2>5, <2>6 DEF InputFits, e
<1>2. QED
  BY <1>1 DEF InputsFit

LEMMA InputsApply ==
  ASSUME IInv, InputsInv, Apply
  PROVE  InputsInv'
<1> DEFINE op == Current
<1>1. /\ phase = "Apply" /\ Position \in DOMAIN block.ops /\ op = block.ops[Position]
      /\ Admitted(led, Complete, block, op, fees, outs, tail, Amounts(led, chain))
      /\ done' = done \union {Position}
      /\ UNCHANGED <<chain, tail, phase, block, base>>
  BY DEF Apply, CurrentAdmitted, Current
<1>2. ASSUME Position \in SpendingOps(block) PROVE InputFits(chain, block, Position)
  <2>1. op.kind = "UtxoIn" /\ ParsedEffect(op)
    BY <1>1, <1>2, ParsedAssumption DEF SpendingOps, OpsOf, IInv, Called
  <2>2. UtxoAdmitted(led, Complete, block, op, tail, Amounts(led, chain))
    BY <1>1, <2>1 DEF Admitted
  <2>3. op.seq < block.seq /\ block.seq - op.seq <= W /\ op.seq >= tail
    BY <2>2 DEF UtxoAdmitted, Resolves, Complete
  <2>4. /\ OutputOf(op) \in led.unspent
        /\ Amounts(led, chain)[OutputOf(op)] = op.amount
    BY <2>2, <2>3 DEF UtxoAdmitted, OutputOf
  <2>5. OutputAmount(chain, op.seq, op.index) = op.amount
    <3>1. Amounts(led, chain)[OutputOf(op)] = OutputAmount(chain, OutputOf(op)[1], OutputOf(op)[2])
      BY <2>4 DEF Amounts
    <3>2. OutputOf(op)[1] = op.seq /\ OutputOf(op)[2] = op.index
      BY DEF OutputOf
    <3>3. QED
      BY <2>4, <3>1, <3>2
  <2>6. OutputOf(op) \in OutputsAt(chain, op.seq)
    <3>1. OutputOf(op) \in base.unspent /\ UnspentAt(chain, tail, base.unspent)
      BY <1>1, <2>4 DEF IInv, Called, Effects, Settled, SettledAt
    <3>2. OutputOf(op) \in OutputsAt(chain, OutputOf(op)[1])
      BY <3>1, UnspentHome
    <3>3. QED
      BY <3>2 DEF OutputOf
  <2>7. QED
    BY <1>1, <2>1, <2>3, <2>5, <2>6 DEF InputFits, ParsedEffect
<1>3. InputsFit(chain, block, done')
  BY <1>1, <1>2 DEF InputsInv, InputsFit
<1>4. QED
  BY <1>1, <1>3 DEF InputsInv

LEMMA InputsCommit ==
  ASSUME IInv, InputsInv, Commit
  PROVE  InputsInv'
<1>1. /\ phase = "Derived" /\ chain' = Append(chain, block) /\ phase' = "Idle"
      /\ WellFormed(chain, tail) /\ block \in Universe /\ block.seq = Len(chain)
      /\ done = DOMAIN block.ops /\ InputsFit(chain, block, done)
  BY DEF Commit, Finish, IInv, Called, InputsInv
<1>2. ASSUME NEW q \in 0 .. Len(chain) - 1
      PROVE  InputsFit(chain', BlockAt(chain, q), DOMAIN BlockAt(chain, q).ops)
  <2> DEFINE b == BlockAt(chain, q)
  <2>1. b \in Universe /\ b.seq = q /\ Len(chain) \in Nat
    BY <1>1 DEF WellFormed, BlockAt
  <2>2. InputsFit(chain, b, DOMAIN b.ops)
    BY DEF InputsInv
  <2> HIDE DEF b
  <2>3. b.seq <= Len(chain)
    BY <2>1
  <2>4. QED
    BY <1>1, <2>1, <2>2, <2>3, InputsFitOn DEF b
<1>3. InputsFit(chain', block, DOMAIN block.ops)
  BY <1>1, InputsFitOn
<1>4. ASSUME NEW q \in 0 .. Len(chain') - 1
      PROVE  InputsFit(chain', BlockAt(chain', q), DOMAIN BlockAt(chain', q).ops)
  <2>1. /\ Len(chain) \in Nat /\ Len(chain') = Len(chain) + 1
        /\ \A r \in 0 .. Len(chain) - 1 : BlockAt(chain', r) = BlockAt(chain, r)
        /\ BlockAt(chain', Len(chain)) = block
    BY <1>1, Appended
  <2>2. CASE q = Len(chain)
    BY <1>3, <2>1, <2>2
  <2>3. CASE q # Len(chain)
    <3>1. q \in 0 .. Len(chain) - 1
      BY <2>1, <2>3
    <3>2. QED
      BY <1>2, <2>1, <3>1
  <2>4. QED
    BY <2>2, <2>3
<1>5. QED
  BY <1>1, <1>4 DEF InputsInv

LEMMA InputsNext == IInv /\ InputsInv /\ [Next]_vars => InputsInv'
<1> SUFFICES ASSUME IInv, InputsInv, [Next]_vars PROVE InputsInv'
  OBVIOUS
<1>1. ASSUME NEW b \in Universe, Begin(b) PROVE InputsInv'
  BY <1>1 DEF Begin, InputsInv, InputsFit, IInv
<1>2. CASE Apply
  BY <1>2, InputsApply
<1>3. CASE Refuse \/ RefuseEnd \/ SaveFails \/ VotesRefuse
  BY <1>3 DEF Refuse, RefuseEnd, SaveFails, VotesRefuse, Fail, InputsInv
<1>4. CASE Derive
  BY <1>4 DEF Derive, InputsInv
<1>5. CASE Commit
  BY <1>5, InputsCommit
<1>6. CASE Undo
  <2>1. phase = "Undo" /\ done' \subseteq done /\ UNCHANGED <<chain, phase, block>>
    BY <1>6 DEF Undo
  <2>2. QED
    BY <2>1 DEF InputsInv, InputsFit
<1>7. CASE Abandon
  BY <1>7 DEF Abandon, Finish, InputsInv
<1>8. CASE UNCHANGED vars
  BY <1>8 DEF vars, call, InputsInv
<1>9. QED
  BY <1>1, <1>2, <1>3, <1>4, <1>5, <1>6, <1>7, <1>8 DEF Next

LEMMA InputsAlways == Spec => []InputsInv
<1>1. Init => InputsInv
  BY DEF Init, InputsInv
<1>2. QED
  BY <1>1, InductiveInvariant, InputsNext, PTL DEF Spec

(* The contextual check of a side block, tier2_check, which looks at its     *)
(* ancestors alone, never refuses a block that the full derivation has       *)
(* accepted: what an input referred to when it was derived is where it was,  *)
(* whatever was derived since and however far the window has moved.          *)
THEOREM Tier2Agrees == Spec => []Tier2Sound
<1>1. IInv /\ InputsInv => Tier2Sound
  <2>1. SUFFICES ASSUME IInv, InputsInv, NEW q \in tail + 1 .. Len(chain) - 1
                 PROVE  Tier2Admitted(BlockAt(chain, q), tail)
    BY DEF Tier2Sound
  <2> DEFINE b == BlockAt(chain, q)
  <2>2. q \in 0 .. Len(chain) - 1 /\ b \in Universe
    BY <2>1 DEF IInv, WellFormed, BlockAt
  <2>3. InputsFit(chain, b, DOMAIN b.ops)
    BY <2>1, <2>2 DEF InputsInv
  <2> HIDE DEF b
  <2>4. ASSUME NEW i \in OpsOf(b, {"UtxoIn"})
        PROVE  LET op == b.ops[i]
               IN  /\ op.seq < b.seq /\ b.seq - op.seq <= W
                   /\ op.seq >= tail =>
                        /\ op.index <= Cardinality(OpsOf(BlockAt(chain, op.seq), {"UtxoOut"}))
                        /\ OutputAmount(chain, op.seq, op.index) = op.amount
    <3>1. InputFits(chain, b, i)
      BY <2>3 DEF InputsFit, SpendingOps, OpsOf
    <3>2. OutputOf(b.ops[i]) \in OutputsAt(chain, b.ops[i].seq)
      BY <3>1 DEF InputFits
    <3>3. b.ops[i].index <= Cardinality(OpsOf(BlockAt(chain, b.ops[i].seq), {"UtxoOut"}))
      BY <3>2 DEF OutputsAt, OutputOf
    <3>4. QED
      BY <3>1, <3>3 DEF InputFits
  <2>5. QED
    BY <2>4 DEF Tier2Admitted, b
<1>2. QED
  BY <1>1, InputsAlways, InductiveInvariant, PTL

-----------------------------------------------------------------------------
(* The roster, and how an effect and its inverse change it.                  *)

Blank(l, n) == l.key[n] = NoKey /\ l.balance[n] = 0

(* The nodes up to the watermark, and no other, are seeded, each with a key  *)
(* of its own; a slot beyond it is blank.                                    *)
Roster(l) ==
  /\ \A n \in NodeSlot : n <= l.watermark <=> Seeded(l, n)
  /\ \A n \in NodeSlot : Seeded(l, n) => l.key[n] \in Key
  /\ \A n \in NodeSlot : ~Seeded(l, n) => Blank(l, n)
  /\ \A m, n \in NodeSlot : Seeded(l, m) /\ Seeded(l, n) /\ l.key[m] = l.key[n] => m = n
  /\ l.key[0] = Anchor

(* While the genesis block is derived, only node 0 may be seeded.            *)
Sprouting(l) ==
  /\ l.watermark = 0 /\ l.unspent = {}
  /\ \A n \in NodeSlot : Seeded(l, n) => n = 0 /\ l.key[0] = Anchor
  /\ \A n \in NodeSlot : ~Seeded(l, n) => Blank(l, n)

LEMMA ZeroSlot == 0 \in NodeSlot /\ NodeSlot \subseteq Nat
BY LedgerAssumption DEF NodeSlot

(* A payment leaves both as they are.                                        *)
LEMMA BlankPaid ==
  ASSUME NEW l \in LedgerState, NEW r, NEW b, NEW op, Gives(r, l, b, op) \/ TakesBack(r, l, b, op)
  PROVE  \A n \in NodeSlot : ~Seeded(l, n) /\ Blank(l, n) => Blank(r, n)
<1>1. WrapAdd(WrapSub(0, 0), 0) = 0
  BY GateAssumption DEF WrapAdd, WrapSub
<1>2. \A n : ~Seeded(l, n) => Loss(l, b, op, n) = 0 /\ Gain(l, b, op, n) = 0
  BY FlowSeeded
<1>3. QED
  BY <1>1, <1>2 DEF Gives, TakesBack, Blank

LEMMA RosterPaid ==
  ASSUME NEW l \in LedgerState, NEW r, NEW b, NEW op, Gives(r, l, b, op) \/ TakesBack(r, l, b, op)
  PROVE  /\ Roster(l) => Roster(r)
         /\ Sprouting(l) /\ r.unspent = l.unspent => Sprouting(r)
<1>1. r.key = l.key /\ r.source = l.source /\ r.watermark = l.watermark
  BY DEF Gives, TakesBack
<1>2. \A n : Seeded(r, n) = Seeded(l, n)
  BY <1>1, SeededAlike
<1>3. \A n \in NodeSlot : ~Seeded(l, n) /\ Blank(l, n) => Blank(r, n)
  BY BlankPaid
<1>4. QED
  BY <1>1, <1>2, <1>3 DEF Roster, Sprouting

(* What holds of a registration that is admitted after the genesis block.    *)
NextInLine(l, op) == op.id = l.watermark + 1 /\ ~KeyRegistered(l, op.key)

(* Who is seeded after a registration.                                       *)
LEMMA SeededSown ==
  ASSUME NEW l \in LedgerState, NEW b, b.seq \in Nat, NEW op, NEW r, Sown(r, l, b, op)
  PROVE  \A n \in NodeSlot : Seeded(r, n) <=> Seeded(l, n) \/ n = op.id
BY DEF Sown, Seeded, Unseeded

LEMMA BlankSown ==
  ASSUME NEW l \in LedgerState, NEW b, NEW op, NEW r, Sown(r, l, b, op)
  PROVE  \A n \in NodeSlot : ~Seeded(l, n) /\ n # op.id /\ Blank(l, n) => Blank(r, n)
<1>1. WrapSub(0, 0) = 0
  BY GateAssumption DEF WrapSub
<1>2. \A n : ~Seeded(l, n) => Price(l, b, op, n) = 0
  BY DEF Price, Pays
<1>3. QED
  BY <1>1, <1>2 DEF Sown, Blank

LEMMA RosterSown ==
  ASSUME NEW l \in LedgerState, Roster(l), NEW b, b.seq \in Nat, b.seq # 0,
         NEW op, Payable(op), op.kind = "Register", NextInLine(l, op),
         NEW r, Sown(r, l, b, op)
  PROVE  Roster(r)
<1>1. \A n \in NodeSlot : Seeded(r, n) <=> Seeded(l, n) \/ n = op.id
  BY SeededSown
<1>2. l.watermark \in Nat /\ op.id = l.watermark + 1 /\ op.key \in Key
  BY DEF LedgerState, NextInLine, Payable
<1>3. r.watermark = IF op.id \in NodeSlot THEN op.id ELSE l.watermark
  BY <1>2 DEF Sown
<1>4. ASSUME NEW n \in NodeSlot PROVE n <= r.watermark <=> Seeded(r, n)
  <2>1. n \in Nat /\ (n <= l.watermark <=> Seeded(l, n))
    BY ZeroSlot DEF Roster
  <2>2. QED
    BY <1>1, <1>2, <1>3, <2>1
<1>5. \A n \in NodeSlot : n = op.id => ~Seeded(l, n)
  BY <1>2 DEF Roster
<1>6. \A n \in NodeSlot : r.key[n] = IF n = op.id THEN op.key ELSE l.key[n]
  BY DEF Sown
<1>7. \A n \in NodeSlot : Seeded(r, n) => r.key[n] \in Key
  BY <1>1, <1>2, <1>6 DEF Roster
<1>8. \A n \in NodeSlot : ~Seeded(r, n) => Blank(r, n)
  BY <1>1, BlankSown DEF Roster
<1>9. ASSUME NEW m \in NodeSlot, NEW n \in NodeSlot, Seeded(r, m), Seeded(r, n), r.key[m] = r.key[n]
      PROVE  m = n
  <2>1. \A k \in NodeSlot : Seeded(l, k) => l.key[k] # op.key
    BY DEF NextInLine, KeyRegistered
  <2>2. QED
    BY <1>1, <1>6, <1>9, <2>1 DEF Roster
<1>10. r.key[0] = Anchor
  BY <1>2, <1>6, ZeroSlot DEF Roster
<1>11. QED
  BY <1>4, <1>7, <1>8, <1>9, <1>10 DEF Roster

(* The inverse of a registration or a transfer, taken next, is exact.        *)
LEMMA RegisterInverse ==
  ASSUME NEW l \in LedgerState, Roster(l), NEW b, b.seq \in Nat, b.seq # 0,
         NEW op, Payable(op), op.kind = "Register", NextInLine(l, op),
         NEW r, Sown(r, l, b, op), NEW u, Unsown(u, r, b, op)
  PROVE  u = l
<1>1. l.watermark \in Nat /\ op.id = l.watermark + 1
  BY DEF LedgerState, NextInLine
<1>2. \A n \in NodeSlot : n = op.id => l.source[n] = Unseeded /\ Blank(l, n)
  BY <1>1 DEF Roster, Seeded
<1>3. u.watermark = l.watermark
  BY <1>1 DEF Sown, Unsown
<1>4. /\ u \in LedgerState /\ r \in LedgerState /\ u.unspent = l.unspent
      /\ \A m \in NodeSlot : u.key[m] = l.key[m] /\ u.source[m] = l.source[m]
  BY <1>2 DEF Sown, Unsown, Blank
<1>5. ASSUME NEW m \in NodeSlot PROVE u.balance[m] = l.balance[m]
  <2>1. CASE m = op.id
    BY <1>2, <2>1 DEF Unsown, Blank
  <2>2. CASE m # op.id
    <3>1. r.balance[m] = WrapSub(l.balance[m], Price(l, b, op, m))
      BY <2>2 DEF Sown
    <3>2. Price(r, b, op, m) = Price(l, b, op, m)
      BY <2>2 DEF Sown, Price, Pays, Seeded
    <3>3. u.balance[m] = WrapAdd(r.balance[m], Price(l, b, op, m))
      BY <2>2, <3>2 DEF Unsown
    <3>4. Price(l, b, op, m) \in Amount /\ l.balance[m] \in Amount
      BY PriceTyped DEF LedgerState
    <3>5. QED
      BY <3>1, <3>3, <3>4, WrapFacts
  <2>3. QED
    BY <2>1, <2>2
<1>6. u.key = l.key /\ u.source = l.source
  BY <1>4 DEF LedgerState
<1>7. QED
  BY <1>3, <1>4, <1>5, <1>6, SameLedger

LEMMA PaymentInverse ==
  ASSUME NEW l \in LedgerState, NEW b, NEW op, Payable(op),
         NEW r, Gives(r, l, b, op), NEW u, TakesBack(u, r, b, op), u.unspent = l.unspent
  PROVE  u = l
<1>1. /\ u \in LedgerState /\ r \in LedgerState /\ r.source = l.source
      /\ u.key = l.key /\ u.source = l.source /\ u.watermark = l.watermark
  BY DEF Gives, TakesBack
<1>2. ASSUME NEW m \in NodeSlot PROVE u.balance[m] = l.balance[m]
  <2> DEFINE loss == Loss(l, b, op, m)
             gain == Gain(l, b, op, m)
  <2>1. loss \in Amount /\ gain \in Amount /\ l.balance[m] \in Amount
    BY FlowTyped DEF LedgerState
  <2>2. Loss(r, b, op, m) = loss /\ Gain(r, b, op, m) = gain
    BY <1>1, SeededAlike
  <2> HIDE DEF loss, gain
  <2>3. u.balance[m] = WrapAdd(WrapSub(WrapAdd(WrapSub(l.balance[m], loss), gain), gain), loss)
    BY <2>2 DEF Gives, TakesBack, loss, gain
  <2>4. WrapSub(l.balance[m], loss) \in Amount
    BY <2>1, WrapFacts
  <2>5. WrapSub(WrapAdd(WrapSub(l.balance[m], loss), gain), gain) = WrapSub(l.balance[m], loss)
    BY <2>1, <2>4, WrapFacts
  <2>6. WrapAdd(WrapSub(l.balance[m], loss), loss) = l.balance[m]
    BY <2>1, WrapFacts
  <2>7. QED
    BY <2>3, <2>5, <2>6
<1>3. QED
  BY <1>1, <1>2, SameLedger

-----------------------------------------------------------------------------
(* A block that registers nodes holds transfers and registrations only, each *)
(* a transaction of its own: its effects are inverted last first.            *)

LEMMA WholeTransactions ==
  ASSUME NEW b \in Universe, Tier1Gate(b), Registrations(b) # {}
  PROVE  \A i \in DOMAIN b.ops : b.ops[i].kind \in {"Transfer", "Register"}
<1>1. b.kind = "Transactions"
  BY UniverseAssumption DEF Registrations, OpsOf
<1>2. OpsOf(b, Complex) = {}
  BY <1>1 DEF Tier1Gate, TransactionGate, Registrations
<1>3. QED
  BY <1>2, UniverseAssumption DEF OpsOf

LEMMA LastUndone ==
  ASSUME NEW b \in Universe, Tier1Gate(b), Registrations(b) # {},
         NEW k \in Nat, k # 0, 1 .. k \subseteq DOMAIN b.ops
  PROVE  NextUndone(b, 1 .. k) = k
<1> DEFINE newest == {i \in 1 .. k : \A j \in 1 .. k : b.ops[j].tx <= b.ops[i].tx}
           newOuts == newest \intersect OpsOf(b, Outputs)
<1>1. \A i \in 1 .. k : b.ops[i].kind \in {"Transfer", "Register"} /\ b.ops[i].tx \in Nat
  BY WholeTransactions, UniverseAssumption
<1>2. ASSUME NEW i \in 1 .. k, i # k PROVE b.ops[i].tx < b.ops[k].tx
  <2>1. k \in 1 .. k /\ i < k
    BY <1>2
  <2>2. /\ b.ops[i].tx <= b.ops[k].tx
        /\ {b.ops[i].kind, b.ops[k].kind} \intersect {"Transfer", "Register"} # {} =>
             b.ops[i].tx # b.ops[k].tx
    BY <2>1, ParsedAssumption DEF InBlockOrder
  <2>3. b.ops[k].kind \in {b.ops[i].kind, b.ops[k].kind} \intersect {"Transfer", "Register"}
    BY <1>1, <2>1
  <2>4. b.ops[i].tx # b.ops[k].tx
    BY <2>2, <2>3
  <2>5. b.ops[i].tx \in Nat /\ b.ops[k].tx \in Nat
    BY <1>1, <2>1
  <2>6. QED
    BY <2>2, <2>4, <2>5
<1>3. newest = {k}
  <2>1. k \in newest
    BY <1>1, <1>2
  <2>2. \A i \in newest : i = k
    <3>1. ASSUME NEW i \in newest, i # k PROVE FALSE
      <4>1. b.ops[k].tx <= b.ops[i].tx /\ b.ops[i].tx < b.ops[k].tx
        BY <1>2, <3>1
      <4>2. QED
        BY <1>1, <4>1
    <3>2. QED
      BY <3>1
  <2>3. QED
    BY <2>1, <2>2
<1>4. newOuts = {}
  BY <1>1 DEF OpsOf, Outputs
<1> HIDE DEF newest, newOuts
<1>5. NextUndone(b, 1 .. k) = Min({k})
  BY <1>3, <1>4 DEF NextUndone, newest, newOuts
<1>6. Min({k}) = k
  BY MinOf
<1>7. QED
  BY <1>5, <1>6

(* An effect of such a block, applied and inverted.                          *)
LEMMA StepInverse ==
  ASSUME NEW l \in LedgerState, Roster(l), NEW b \in Universe, b.seq # 0,
         NEW op, Payable(op), op.kind \in {"Transfer", "Register"},
         op.kind = "Register" => NextInLine(l, op), NEW low
  PROVE  /\ Roster(Applied(l, b, op))
         /\ Undone(Applied(l, b, op), b, op, low) = l
<1> DEFINE r == Applied(l, b, op)
           u == Undone(r, b, op, low)
<1>1. b.seq \in Nat /\ r \in LedgerState
  BY AppliedTyped, UniverseAssumption
<1>2. CASE op.kind = "Register"
  <2>1. Sown(r, l, b, op) /\ Unsown(u, r, b, op)
    BY <1>1, <1>2, RegisterApplied, RegisterUndone
  <2> HIDE DEF r, u
  <2>2. Roster(r) /\ u = l
    BY <1>1, <1>2, <2>1, RosterSown, RegisterInverse
  <2>3. QED
    BY <2>2 DEF r, u
<1>3. CASE op.kind = "Transfer"
  <2>1. Gives(r, l, b, op) /\ TakesBack(u, r, b, op)
    BY <1>1, <1>3, PaymentApplied, PaymentUndone
  <2>2. u.unspent = l.unspent
    <3>1. IsLedger(l) /\ IsLedger(r)
      BY <1>1, StateIsLedger
    <3>2. IsApplied(r, l, b, op) /\ IsUndone(u, r, op, low)
      BY <1>3, <3>1, AppliedFields, UndoneFields
    <3>3. QED
      BY <1>3, <3>2 DEF IsApplied, IsUndone
  <2> HIDE DEF r, u
  <2>3. Roster(r) /\ u = l
    BY <2>1, <2>2, RosterPaid, PaymentInverse
  <2>4. QED
    BY <2>3 DEF r, u
<1>4. QED
  BY <1>2, <1>3

-----------------------------------------------------------------------------
(* The balances of any other block: sums of what the effects that stand have *)
(* moved, which no order changes.                                            *)

Flow(l, b, op, m) ==
  IF Payable(op) THEN WrapSub(Gain(l, b, op, m), Loss(l, b, op, m)) ELSE 0

Adds == [p \in Amount \X Amount |-> WrapAdd(p[1], p[2])]

FlowsOf(b, l, m) == [i \in DOMAIN b.ops |-> Flow(l, b, b.ops[i], m)]

Flows(F, b, l, m) == GathersUp(F, DOMAIN b.ops, Amount, l.balance[m], Adds, FlowsOf(b, l, m))

Balanced(l, b, old, ops) ==
  \A m \in NodeSlot : \E F : Flows(F, b, old, m) /\ l.balance[m] = F[ops]

LEMMA FlowAmount ==
  ASSUME NEW l, NEW b, NEW op, NEW m
  PROVE  Flow(l, b, op, m) \in Amount
<1>1. 0 \in Amount
  BY GateAssumption DEF Amount
<1>2. Payable(op) => Gain(l, b, op, m) \in Amount /\ Loss(l, b, op, m) \in Amount
  BY FlowTyped
<1>3. QED
  BY <1>1, <1>2, WrapFacts DEF Flow

LEMMA BalancedFirst ==
  ASSUME NEW b \in Universe, NEW l \in LedgerState
  PROVE  Balanced(l, b, l, {})
<1>1. ASSUME NEW m \in NodeSlot PROVE \E F : Flows(F, b, l, m) /\ l.balance[m] = F[{}]
  <2>1. IsFiniteSet(DOMAIN b.ops)
    <3>1. DOMAIN b.ops = 1 .. Len(b.ops) /\ 1 \in Int /\ Len(b.ops) \in Int
      BY UniverseAssumption
    <3>2. QED
      BY <3>1, FS_Interval
  <2>2. OrderFree(Amount, Adds)
    <3>1. \A u, v \in Amount : WrapAdd(u, v) \in Amount
      BY WrapFacts
    <3>2. \A u, v, w \in Amount : WrapAdd(WrapAdd(u, v), w) = WrapAdd(WrapAdd(u, w), v)
      BY WrapCommutes
    <3>3. Adds \in [Amount \X Amount -> Amount] /\ \A u, v \in Amount : Adds[<<u, v>>] = WrapAdd(u, v)
      BY <3>1 DEF Adds
    <3>4. \A u, v, w \in Amount : Adds[<<Adds[<<u, v>>], w>>] = WrapAdd(WrapAdd(u, v), w)
      BY <3>1, <3>3
    <3>5. QED
      BY <3>2, <3>3, <3>4 DEF OrderFree
  <2>3. FlowsOf(b, l, m) \in [DOMAIN b.ops -> Amount] /\ l.balance[m] \in Amount
    BY FlowAmount DEF FlowsOf, LedgerState
  <2>4. PICK F : GathersUp(F, DOMAIN b.ops, Amount, l.balance[m], Adds, FlowsOf(b, l, m))
    BY <2>1, <2>2, <2>3, GathersExist
  <2>5. QED
    BY <2>4 DEF Flows, GathersUp
<1>2. QED
  BY <1>1 DEF Balanced

(* The sum with one effect more.                                             *)
LEMMA FlowsGrow ==
  ASSUME NEW b, NEW l, NEW m, NEW F, Flows(F, b, l, m),
         NEW ops, ops \subseteq DOMAIN b.ops, NEW i \in DOMAIN b.ops, i \notin ops
  PROVE  /\ F[ops] \in Amount
         /\ F[ops \union {i}] = WrapAdd(F[ops], Flow(l, b, b.ops[i], m))
<1>1. F[ops] \in Amount /\ F[ops \union {i}] = Adds[<<F[ops], FlowsOf(b, l, m)[i]>>]
  BY DEF Flows, GathersUp
<1>2. FlowsOf(b, l, m)[i] = Flow(l, b, b.ops[i], m) /\ Flow(l, b, b.ops[i], m) \in Amount
  BY FlowAmount DEF FlowsOf
<1>3. QED
  BY <1>1, <1>2 DEF Adds

LEMMA BalancedApplied ==
  ASSUME NEW l \in LedgerState, NEW b, NEW old, old.source = l.source, NEW ops, Balanced(l, b, old, ops),
         ops \subseteq DOMAIN b.ops, NEW i \in DOMAIN b.ops, i \notin ops, Payable(b.ops[i]),
         NEW r, Gives(r, l, b, b.ops[i])
  PROVE  Balanced(r, b, old, ops \union {i})
<1>1. ASSUME NEW m \in NodeSlot, NEW F, Flows(F, b, old, m), l.balance[m] = F[ops]
      PROVE  r.balance[m] = F[ops \union {i}]
  <2> DEFINE loss == Loss(l, b, b.ops[i], m)
             gain == Gain(l, b, b.ops[i], m)
  <2>1. loss \in Amount /\ gain \in Amount /\ l.balance[m] \in Amount
    BY FlowTyped DEF LedgerState
  <2>2. Flow(old, b, b.ops[i], m) = WrapSub(gain, loss)
    BY SeededAlike DEF Flow
  <2>3. r.balance[m] = WrapAdd(WrapSub(l.balance[m], loss), gain)
    BY DEF Gives
  <2> HIDE DEF loss, gain
  <2>4. r.balance[m] = WrapAdd(l.balance[m], WrapSub(gain, loss))
    BY <2>1, <2>3, WrapCommutes
  <2>5. F[ops \union {i}] = WrapAdd(F[ops], Flow(old, b, b.ops[i], m))
    BY <1>1, FlowsGrow
  <2>6. QED
    BY <1>1, <2>2, <2>4, <2>5
<1>2. QED
  BY <1>1 DEF Balanced

LEMMA BalancedUndone ==
  ASSUME NEW l \in LedgerState, NEW b, NEW old, old.source = l.source, NEW ops, Balanced(l, b, old, ops),
         ops \subseteq DOMAIN b.ops, NEW i \in ops, Payable(b.ops[i]),
         NEW r, TakesBack(r, l, b, b.ops[i])
  PROVE  Balanced(r, b, old, ops \ {i})
<1>1. ASSUME NEW m \in NodeSlot, NEW F, Flows(F, b, old, m), l.balance[m] = F[ops]
      PROVE  r.balance[m] = F[ops \ {i}]
  <2> DEFINE loss == Loss(l, b, b.ops[i], m)
             gain == Gain(l, b, b.ops[i], m)
             rest == ops \ {i}
  <2>1. loss \in Amount /\ gain \in Amount /\ l.balance[m] \in Amount
    BY FlowTyped DEF LedgerState
  <2>2. Flow(old, b, b.ops[i], m) = WrapSub(gain, loss)
    BY SeededAlike DEF Flow
  <2>3. r.balance[m] = WrapAdd(WrapSub(l.balance[m], gain), loss)
    BY DEF TakesBack
  <2> HIDE DEF loss, gain
  <2>4. r.balance[m] = WrapSub(l.balance[m], WrapSub(gain, loss)) /\ WrapSub(gain, loss) \in Amount
    <3>1. WrapAdd(WrapSub(l.balance[m], gain), loss) = WrapSub(l.balance[m], WrapSub(gain, loss))
      BY <2>1, WrapCommutes
    <3>2. QED
      BY <2>1, <2>3, <3>1, WrapFacts
  <2>5. rest \subseteq DOMAIN b.ops /\ i \in DOMAIN b.ops /\ i \notin rest /\ rest \union {i} = ops
    OBVIOUS
  <2> HIDE DEF rest
  <2>6. F[rest] \in Amount /\ F[ops] = WrapAdd(F[rest], WrapSub(gain, loss))
    BY <1>1, <2>2, <2>5, FlowsGrow
  <2>7. WrapSub(F[ops], WrapSub(gain, loss)) = F[rest]
    BY <2>4, <2>6, WrapFacts
  <2>8. QED
    BY <1>1, <2>4, <2>7 DEF rest
<1>2. QED
  BY <1>1 DEF Balanced

-----------------------------------------------------------------------------
(* What the effects ops of block b that stand have made of the ledger old.   *)

(* The genesis block seeds node 0 with its registration.                     *)
Sprouted(l, b, ops) ==
  Sprouting(l) /\ (Seeded(l, 0) <=> ops \intersect Registrations(b) # {})

(* A block that registers nodes retraces its steps.                          *)
Traced(l, b, old, ops, low) ==
  \E k, h :
    /\ k \in Nat
    /\ ops = 1 .. k /\ h[0] = old /\ h[k] = l
    /\ \A j \in 0 .. k : h[j] \in LedgerState /\ Roster(h[j])
    /\ \A j \in 1 .. k : Undone(h[j], b, b.ops[j], low) = h[j - 1]

(* Any other block moves balances only.                                      *)
Summed(l, b, old, ops) ==
  /\ Roster(l) /\ l.key = old.key /\ l.source = old.source /\ l.watermark = old.watermark
  /\ Balanced(l, b, old, ops)

Standing(l, b, old, ops, low) ==
  /\ b.seq = 0 => Sprouted(l, b, ops)
  /\ b.seq # 0 /\ Registrations(b) # {} => Traced(l, b, old, ops, low)
  /\ b.seq # 0 /\ Registrations(b) = {} => Summed(l, b, old, ops)

Founded(l, b) == IF b.seq = 0 THEN l = EmptyLedger ELSE Roster(l)

LEMMA EmptySprouts == Sprouting(EmptyLedger) /\ ~Seeded(EmptyLedger, 0)
BY DEF Sprouting, EmptyLedger, Seeded, Blank

LEMMA StandingFirst ==
  ASSUME NEW b \in Universe, NEW l \in LedgerState, Founded(l, b), NEW low
  PROVE  Standing(l, b, l, {}, low)
<1>1. b.seq = 0 => Sprouted(l, b, {})
  BY EmptySprouts DEF Founded, Sprouted
<1>2. b.seq # 0 => Traced(l, b, l, {}, low)
  <2> DEFINE h == [j \in {0} |-> l]
  <2>1. {} = 1 .. 0 /\ h[0] = l /\ 0 \in Nat /\ 0 .. 0 = {0}
    OBVIOUS
  <2>2. b.seq # 0 => \A j \in 0 .. 0 : h[j] \in LedgerState /\ Roster(h[j])
    BY <2>1 DEF Founded
  <2> HIDE DEF h
  <2>3. QED
    BY <2>1, <2>2 DEF Traced
<1>3. b.seq # 0 => Summed(l, b, l, {})
  BY BalancedFirst DEF Founded, Summed
<1>4. QED
  BY <1>1, <1>2, <1>3 DEF Standing

(* One effect more.                                                          *)
LEMMA SproutedApplied ==
  ASSUME GenesisForm, NEW b \in Universe, b.seq = 0, Tier1Gate(b),
         NEW l \in LedgerState, NEW ops, Sprouted(l, b, ops),
         NEW i \in DOMAIN b.ops, i \notin ops, Payable(b.ops[i])
  PROVE  Sprouted(Applied(l, b, b.ops[i]), b, ops \union {i})
<1> DEFINE op == b.ops[i]
           r == Applied(l, b, op)
<1>1. PICK n : Registrations(b) = {n} /\ b.ops[n].id = 0
  BY DEF GenesisForm
<1>2. b.kind = "Transactions" /\ op.kind \in {"Transfer", "Register"}
  <2>1. Registrations(b) # {}
    BY <1>1
  <2>2. b.kind = "Transactions"
    BY <2>1, UniverseAssumption DEF Registrations, OpsOf
  <2>3. QED
    BY <2>1, <2>2, WholeTransactions
<1>3. r.unspent = l.unspent
  <2>1. IsLedger(l)
    BY StateIsLedger
  <2>2. IsApplied(r, l, b, op)
    BY <1>2, <2>1, AppliedFields
  <2>3. QED
    BY <1>2, <2>2 DEF IsApplied
<1>4. CASE op.kind = "Transfer"
  <2>1. Gives(r, l, b, op)
    BY <1>4, PaymentApplied
  <2>2. i \notin Registrations(b)
    BY <1>4 DEF Registrations, OpsOf
  <2> HIDE DEF op, r
  <2>3. Sprouting(r)
    BY <1>3, <2>1, RosterPaid DEF Sprouted
  <2>4. Seeded(r, 0) = Seeded(l, 0)
    BY <2>1, SeededAlike DEF Gives
  <2>5. QED
    BY <2>2, <2>3, <2>4 DEF Sprouted, op, r
<1>5. CASE op.kind = "Register"
  <2>1. i = n /\ op.id = 0
    BY <1>1, <1>5 DEF Registrations, OpsOf
  <2>2. op.key = Anchor
    BY <1>2, <1>5, <2>1 DEF Tier1Gate, TransactionGate, OpGate
  <2>3. Sown(r, l, b, op)
    BY <1>5, RegisterApplied
  <2> HIDE DEF r
  <2>4. \A m \in NodeSlot : Seeded(r, m) <=> Seeded(l, m) \/ m = 0
    BY <2>1, <2>3, SeededSown
  <2>5. \A m \in NodeSlot : ~Seeded(r, m) => Blank(r, m)
    BY <2>1, <2>3, <2>4, BlankSown DEF Sprouted, Sprouting
  <2>6. r.watermark = 0 /\ r.key[0] = Anchor
    BY <2>1, <2>2, <2>3, ZeroSlot DEF Sown, Sprouted, Sprouting
  <2>7. Sprouting(r) /\ Seeded(r, 0)
    BY <1>3, <2>4, <2>5, <2>6, ZeroSlot DEF Sprouted, Sprouting
  <2>8. QED
    BY <1>1, <2>1, <2>7 DEF Sprouted, r
<1>6. QED
  BY <1>2, <1>4, <1>5

LEMMA TracedApplied ==
  ASSUME NEW b \in Universe, b.seq # 0, Tier1Gate(b), Registrations(b) # {},
         NEW old, NEW low, NEW l \in LedgerState, NEW n \in Nat, Traced(l, b, old, 1 .. n, low),
         n + 1 \in DOMAIN b.ops, Payable(b.ops[n + 1]),
         b.ops[n + 1].kind = "Register" => NextInLine(l, b.ops[n + 1])
  PROVE  Traced(Applied(l, b, b.ops[n + 1]), b, old, 1 .. n + 1, low)
<1> DEFINE op == b.ops[n + 1]
           r == Applied(l, b, op)
<1>1. PICK k, h :
        /\ k \in Nat
        /\ 1 .. n = 1 .. k /\ h[0] = old /\ h[k] = l
        /\ \A j \in 0 .. k : h[j] \in LedgerState /\ Roster(h[j])
        /\ \A j \in 1 .. k : Undone(h[j], b, b.ops[j], low) = h[j - 1]
  BY DEF Traced
<1>2. k = n
  BY <1>1
<1>3. Roster(r) /\ Undone(r, b, op, low) = l /\ r \in LedgerState
  <2>1. Roster(l) /\ op.kind \in {"Transfer", "Register"}
    BY <1>1, WholeTransactions
  <2>2. QED
    BY <2>1, StepInverse, AppliedTyped
<1> DEFINE g == [j \in 0 .. n + 1 |-> IF j = n + 1 THEN r ELSE h[j]]
<1> HIDE DEF r
<1>4. g[0] = old /\ g[n + 1] = r /\ \A j \in 0 .. n : g[j] = h[j]
  BY <1>1, <1>2
<1> HIDE DEF g
<1>5. \A j \in 0 .. n + 1 : g[j] \in LedgerState /\ Roster(g[j])
  BY <1>1, <1>2, <1>3, <1>4
<1>6. ASSUME NEW j \in 1 .. n + 1 PROVE Undone(g[j], b, b.ops[j], low) = g[j - 1]
  <2>1. CASE j = n + 1
    <3>1. g[j] = r /\ g[j - 1] = l
      BY <1>1, <1>2, <1>4, <2>1
    <3>2. QED
      BY <1>3, <2>1, <3>1
  <2>2. CASE j # n + 1
    <3>1. j \in 1 .. n /\ j \in 0 .. n /\ j - 1 \in 0 .. n
      BY <2>2
    <3>2. Undone(h[j], b, b.ops[j], low) = h[j - 1]
      BY <1>1, <1>2, <3>1
    <3>3. QED
      BY <1>4, <3>1, <3>2
  <2>3. QED
    BY <2>1, <2>2
<1>7. n + 1 \in Nat
  OBVIOUS
<1>8. QED
  BY <1>4, <1>5, <1>6, <1>7 DEF Traced, r

LEMMA SummedApplied ==
  ASSUME NEW b \in Universe, NEW old, NEW l \in LedgerState, NEW ops, Summed(l, b, old, ops),
         ops \subseteq DOMAIN b.ops, NEW i \in DOMAIN b.ops, i \notin ops,
         Payable(b.ops[i]), b.ops[i].kind # "Register"
  PROVE  Summed(Applied(l, b, b.ops[i]), b, old, ops \union {i})
<1> DEFINE r == Applied(l, b, b.ops[i])
<1>1. Gives(r, l, b, b.ops[i])
  BY PaymentApplied
<1> HIDE DEF r
<1>2. Roster(r)
  BY <1>1, RosterPaid DEF Summed
<1>3. Balanced(r, b, old, ops \union {i})
  BY <1>1, BalancedApplied DEF Summed
<1>4. QED
  BY <1>1, <1>2, <1>3 DEF Summed, Gives, r

(* One effect less.                                                          *)
LEMMA SproutedUndone ==
  ASSUME GenesisForm, NEW b \in Universe, b.seq = 0, Tier1Gate(b),
         NEW l \in LedgerState, NEW ops, Sprouted(l, b, ops), ops \subseteq DOMAIN b.ops,
         NEW i \in ops, Payable(b.ops[i]), NEW low
  PROVE  Sprouted(Undone(l, b, b.ops[i], low), b, ops \ {i})
<1> DEFINE op == b.ops[i]
           r == Undone(l, b, op, low)
<1>1. PICK n : Registrations(b) = {n} /\ b.ops[n].id = 0
  BY DEF GenesisForm
<1>2. op.kind \in {"Transfer", "Register"}
  <2>1. Registrations(b) # {}
    BY <1>1
  <2>2. QED
    BY <2>1, WholeTransactions
<1>3. r.unspent = l.unspent
  <2>1. IsLedger(l)
    BY StateIsLedger
  <2>2. IsUndone(r, l, op, low)
    BY <1>2, <2>1, UndoneFields
  <2>3. QED
    BY <1>2, <2>2 DEF IsUndone
<1>4. CASE op.kind = "Transfer"
  <2>1. TakesBack(r, l, b, op)
    BY <1>4, PaymentUndone
  <2>2. i \notin Registrations(b)
    BY <1>4 DEF Registrations, OpsOf
  <2> HIDE DEF op, r
  <2>3. Sprouting(r)
    BY <1>3, <2>1, RosterPaid DEF Sprouted
  <2>4. Seeded(r, 0) = Seeded(l, 0)
    BY <2>1, SeededAlike DEF TakesBack
  <2>5. QED
    BY <2>2, <2>3, <2>4 DEF Sprouted, op, r
<1>5. CASE op.kind = "Register"
  <2>1. i = n /\ op.id = 0
    BY <1>1, <1>5 DEF Registrations, OpsOf
  <2>2. Unsown(r, l, b, op)
    BY <1>5, RegisterUndone
  <2> HIDE DEF r
  <2>3. \A m \in NodeSlot : r.key[m] = NoKey \/ m # 0
    BY <2>1, <2>2 DEF Unsown
  <2>4. \A m \in NodeSlot : ~Seeded(r, m)
    BY <2>1, <2>2 DEF Unsown, Seeded, Sprouted, Sprouting
  <2>5. ASSUME NEW m \in NodeSlot PROVE Blank(r, m)
    <3>1. CASE m = 0
      BY <2>1, <2>2, <3>1 DEF Unsown, Blank
    <3>2. CASE m # 0
      <4>1. Blank(l, m)
        BY <3>2 DEF Sprouted, Sprouting
      <4>2. Price(l, b, op, m) = 0 /\ WrapAdd(0, 0) = 0
        BY GateAssumption DEF Price, Pays, WrapAdd
      <4>3. QED
        BY <2>1, <2>2, <3>2, <4>1, <4>2 DEF Unsown, Blank
    <3>3. QED
      BY <3>1, <3>2
  <2>6. r.watermark = 0
    BY <2>2 DEF Unsown, Sprouted, Sprouting
  <2>7. Sprouting(r) /\ ~Seeded(r, 0)
    BY <1>3, <2>4, <2>5, <2>6, ZeroSlot DEF Sprouted, Sprouting
  <2>8. QED
    BY <1>1, <2>1, <2>7 DEF Sprouted, r
<1>6. QED
  BY <1>2, <1>4, <1>5

LEMMA TracedUndone ==
  ASSUME NEW b \in Universe, Tier1Gate(b), Registrations(b) # {},
         NEW old, NEW low, NEW l, NEW ops, ops \subseteq DOMAIN b.ops, ops # {},
         Traced(l, b, old, ops, low)
  PROVE  Traced(Undone(l, b, b.ops[NextUndone(b, ops)], low), b, old, ops \ {NextUndone(b, ops)}, low)
<1>1. PICK k, h :
        /\ k \in Nat
        /\ ops = 1 .. k /\ h[0] = old /\ h[k] = l
        /\ \A j \in 0 .. k : h[j] \in LedgerState /\ Roster(h[j])
        /\ \A j \in 1 .. k : Undone(h[j], b, b.ops[j], low) = h[j - 1]
  BY DEF Traced
<1>2. k # 0
  BY <1>1
<1>3. NextUndone(b, ops) = k
  BY <1>1, <1>2, LastUndone
<1>4. k - 1 \in Nat /\ ops \ {k} = 1 .. k - 1
  BY <1>1, <1>2
<1>5. Undone(l, b, b.ops[k], low) = h[k - 1]
  BY <1>1, <1>2
<1>6. /\ \A j \in 0 .. k - 1 : h[j] \in LedgerState /\ Roster(h[j])
      /\ \A j \in 1 .. k - 1 : Undone(h[j], b, b.ops[j], low) = h[j - 1]
  BY <1>1
<1> DEFINE p == k - 1
           rest == ops \ {NextUndone(b, ops)}
           u == Undone(l, b, b.ops[NextUndone(b, ops)], low)
<1>7. p \in Nat /\ rest = 1 .. p /\ h[0] = old /\ h[p] = u
  BY <1>1, <1>3, <1>4, <1>5
<1>8. /\ \A j \in 0 .. p : h[j] \in LedgerState /\ Roster(h[j])
      /\ \A j \in 1 .. p : Undone(h[j], b, b.ops[j], low) = h[j - 1]
  BY <1>6
<1> HIDE DEF p, rest, u
<1>9. Traced(u, b, old, rest, low)
  <2> SUFFICES \E q, g :
                 /\ q \in Nat
                 /\ rest = 1 .. q /\ g[0] = old /\ g[q] = u
                 /\ \A j \in 0 .. q : g[j] \in LedgerState /\ Roster(g[j])
                 /\ \A j \in 1 .. q : Undone(g[j], b, b.ops[j], low) = g[j - 1]
    BY Zenon DEF Traced
  <2> WITNESS p, h
  <2> QED
    BY <1>7, <1>8
<1>10. QED
  BY <1>9 DEF rest, u

LEMMA SummedUndone ==
  ASSUME NEW b \in Universe, NEW old, NEW l \in LedgerState, NEW ops, Summed(l, b, old, ops),
         ops \subseteq DOMAIN b.ops, NEW i \in ops, Payable(b.ops[i]), b.ops[i].kind # "Register",
         NEW low
  PROVE  Summed(Undone(l, b, b.ops[i], low), b, old, ops \ {i})
<1> DEFINE r == Undone(l, b, b.ops[i], low)
<1>1. TakesBack(r, l, b, b.ops[i])
  BY PaymentUndone
<1> HIDE DEF r
<1>2. Roster(r)
  BY <1>1, RosterPaid DEF Summed
<1>3. Balanced(r, b, old, ops \ {i})
  BY <1>1, BalancedUndone DEF Summed
<1>4. QED
  BY <1>1, <1>2, <1>3 DEF Summed, TakesBack, r

(* No effect left, and all of them.                                          *)
LEMMA StandingNone ==
  ASSUME NEW b \in Universe, NEW l \in LedgerState, NEW old \in LedgerState, Founded(old, b),
         l.unspent = old.unspent, NEW low, Standing(l, b, old, {}, low)
  PROVE  l = old
<1>1. CASE b.seq = 0
  <2>1. old = EmptyLedger /\ Sprouting(l) /\ ~Seeded(l, 0)
    BY <1>1 DEF Founded, Standing, Sprouted
  <2>2. \A n \in NodeSlot : ~Seeded(l, n) /\ Blank(l, n)
    BY <2>1 DEF Sprouting
  <2>3. l.watermark = 0 /\ \A n \in NodeSlot : l.key[n] = NoKey /\ l.balance[n] = 0 /\ l.source[n] = Unseeded
    BY <2>1, <2>2 DEF Sprouting, Seeded, Blank
  <2>4. /\ old.watermark = 0
        /\ \A n \in NodeSlot : old.key[n] = NoKey /\ old.balance[n] = 0 /\ old.source[n] = Unseeded
    BY <2>1 DEF EmptyLedger
  <2>5. l.key = old.key /\ l.source = old.source
    BY <2>3, <2>4 DEF LedgerState
  <2>6. QED
    BY <2>3, <2>4, <2>5, SameLedger
<1>2. CASE b.seq # 0 /\ Registrations(b) # {}
  <2>1. PICK k, h : k \in Nat /\ {} = 1 .. k /\ h[0] = old /\ h[k] = l
    BY <1>2 DEF Standing, Traced
  <2>2. k = 0
    BY <2>1
  <2>3. QED
    BY <2>1, <2>2
<1>3. CASE b.seq # 0 /\ Registrations(b) = {}
  <2>1. Summed(l, b, old, {})
    BY <1>3 DEF Standing
  <2>2. \A m \in NodeSlot : l.balance[m] = old.balance[m]
    BY <2>1 DEF Summed, Balanced, Flows, GathersUp
  <2>3. QED
    BY <2>1, <2>2, SameLedger DEF Summed
<1>4. QED
  BY <1>1, <1>2, <1>3

LEMMA StandingAll ==
  ASSUME GenesisForm, NEW b \in Universe, NEW l \in LedgerState, NEW old, NEW low,
         Standing(l, b, old, DOMAIN b.ops, low)
  PROVE  Roster(l)
<1>1. CASE b.seq = 0
  <2>1. PICK n : Registrations(b) = {n}
    BY <1>1 DEF GenesisForm
  <2>2. n \in DOMAIN b.ops \intersect Registrations(b)
    BY <2>1 DEF Registrations, OpsOf
  <2>3. Sprouting(l) /\ Seeded(l, 0)
    BY <1>1, <2>2 DEF Standing, Sprouted
  <2>4. \A m \in NodeSlot : m <= 0 <=> m = 0
    BY ZeroSlot
  <2>5. l.watermark = 0 /\ l.key[0] = Anchor /\ \A m \in NodeSlot : Seeded(l, m) <=> m = 0
    BY <2>3, ZeroSlot DEF Sprouting
  <2>6. \A m \in NodeSlot : ~Seeded(l, m) => Blank(l, m)
    BY <2>3 DEF Sprouting
  <2>7. QED
    BY <2>4, <2>5, <2>6, LedgerAssumption DEF Roster
<1>2. CASE b.seq # 0 /\ Registrations(b) # {}
  <2>1. PICK k, h : k \in Nat /\ h[k] = l /\ \A j \in 0 .. k : Roster(h[j])
    BY <1>2 DEF Standing, Traced
  <2>2. QED
    BY <2>1
<1>3. CASE b.seq # 0 /\ Registrations(b) = {}
  BY <1>3 DEF Standing, Summed
<1>4. QED
  BY <1>1, <1>2, <1>3

LEMMA RosterCommitted ==
  ASSUME NEW l \in LedgerState, Roster(l), NEW b \in Universe, NEW x \in Amount, EndAdmitted(l, b, x)
  PROVE  Roster(Committed(l, b, x))
<1> DEFINE paid == IF b.seq > 1 THEN CreditSeeded(l, b.creator, b.mined + x) ELSE l
           r == Committed(l, b, x)
<1>1. r \in LedgerState /\ r.source = MovedSources(l, b) /\ b.seq \in Nat
  BY CommittedTyped, StateIsLedger, CommittedFields, UniverseAssumption
<1>2. r.key = l.key /\ r.watermark = l.watermark
      /\ \A n \in NodeSlot : ~Seeded(l, n) => r.balance[n] = l.balance[n]
  <2>1. /\ paid.key = l.key /\ paid.watermark = l.watermark /\ DOMAIN paid = Fields
        /\ \A n \in NodeSlot : ~Seeded(l, n) => paid.balance[n] = l.balance[n]
    <3>1. ASSUME NEW v, NEW m, Seeded(l, m)
          PROVE  LET p == [l EXCEPT !.balance[m] = v]
                 IN  /\ p.key = l.key /\ p.watermark = l.watermark /\ DOMAIN p = Fields
                     /\ \A n \in NodeSlot : ~Seeded(l, n) => p.balance[n] = l.balance[n]
      BY <3>1 DEF LedgerState, Fields
    <3>2. DOMAIN l = Fields
      BY DEF LedgerState, Fields
    <3>3. QED
      BY <3>1, <3>2 DEF CreditSeeded, Credit
  <2>2. r = [paid EXCEPT !.source = MovedSources(l, b), !.unspent = @ \union NewOutputs(b)]
    BY DEF Committed
  <2> HIDE DEF paid, r
  <2>3. QED
    BY <2>1, <2>2 DEF Fields
<1> HIDE DEF r
<1>3. \A n \in NodeSlot : Seeded(r, n) = Seeded(l, n)
  BY <1>1 DEF Seeded, MovedSources, Unseeded
<1>4. QED
  BY <1>2, <1>3 DEF Roster, Blank, r

LEMMA RosterReleased ==
  ASSUME NEW l \in LedgerState, Roster(l), NEW q \in Nat
  PROVE  Roster(TailReleased(l, q))
<1> DEFINE r == TailReleased(l, q)
<1>1. /\ r.key = l.key /\ r.balance = l.balance /\ r.watermark = l.watermark
      /\ \A n \in NodeSlot : r.source[n] = IF l.source[n] = q THEN Released ELSE l.source[n]
  BY DEF TailReleased, LedgerState
<1> HIDE DEF r
<1>2. \A n \in NodeSlot : Seeded(r, n) = Seeded(l, n)
  BY <1>1 DEF Seeded, Released, Unseeded
<1>3. QED
  BY <1>1, <1>2 DEF Roster, Blank, r

-----------------------------------------------------------------------------
(* The roster and the inversion, along the behaviours.                       *)

RosterInv ==
  /\ IF chain = <<>> THEN base = EmptyLedger ELSE Roster(base)
  /\ phase = "Idle" => led = base
  /\ phase # "Idle" => Standing(led, block, base, done, tail)

(* What every call keeps.                                                    *)
LEMMA CallFounded ==
  ASSUME IInv, TypeInv, RosterInv, phase # "Idle"
  PROVE  /\ block \in Universe /\ block.seq = Len(chain) /\ Tier1Gate(block)
         /\ done \subseteq DOMAIN block.ops /\ tail \in Nat
         /\ led \in LedgerState /\ base \in LedgerState
         /\ Founded(base, block)
         /\ base.source = led.source \/ Registrations(block) # {}
         /\ Standing(led, block, base, done, tail)
<1>1. /\ block \in Universe /\ block.seq = Len(chain) /\ Tier1Gate(block)
      /\ done \subseteq DOMAIN block.ops
  BY DEF IInv, Called
<1>2. chain \in Seq(Universe) /\ tail \in Nat
  BY DEF IInv, WellFormed
<1>3. block.seq = 0 <=> chain = <<>>
  BY <1>1, <1>2
<1>4. Founded(base, block)
  BY <1>3 DEF RosterInv, Founded
<1>5. Standing(led, block, base, done, tail) /\ led \in LedgerState /\ base \in LedgerState
  BY DEF RosterInv, TypeInv
<1>6. base.source = led.source \/ Registrations(block) # {}
  <2>1. SUFFICES ASSUME Registrations(block) = {} PROVE base.source = led.source
    OBVIOUS
  <2>2. CASE block.seq # 0
    BY <1>5, <2>1, <2>2 DEF Standing, Summed
  <2>3. CASE block.seq = 0
    <3>1. base = EmptyLedger /\ Sprouting(led) /\ ~Seeded(led, 0)
      BY <1>4, <1>5, <2>1, <2>3 DEF Founded, Standing, Sprouted
    <3>2. \A n \in NodeSlot : led.source[n] = Unseeded /\ base.source[n] = Unseeded
      BY <3>1 DEF Sprouting, Seeded, EmptyLedger
    <3>3. QED
      BY <1>5, <3>2 DEF LedgerState
  <2>4. QED
    BY <2>2, <2>3
<1>7. QED
  BY <1>1, <1>2, <1>4, <1>5, <1>6

LEMMA RosterApplies ==
  ASSUME GenesisForm, IInv, TypeInv, RosterInv, Apply
  PROVE  Standing(led', block, base, done', tail)
<1>1. /\ phase = "Apply" /\ Position \in DOMAIN block.ops
      /\ Admitted(led, Complete, block, Current, fees, outs, tail, Amounts(led, chain))
      /\ led' = Applied(led, block, Current) /\ done' = done \union {Position}
  BY DEF Apply, CurrentAdmitted
<1>2. /\ block \in Universe /\ Tier1Gate(block) /\ done \subseteq DOMAIN block.ops
      /\ led \in LedgerState /\ Standing(led, block, base, done, tail)
  BY <1>1, CallFounded
<1>3. PICK k \in Nat : done = 1 .. k
  BY <1>1 DEF IInv
<1>4. Position = k + 1 /\ Position \notin done /\ done \union {Position} = 1 .. k + 1
  BY <1>3, PositionNext
<1>5. Current = block.ops[k + 1] /\ k + 1 \in DOMAIN block.ops
  BY <1>1, <1>4 DEF Current
<1>6. Payable(block.ops[k + 1])
  BY <1>1, <1>2, <1>5, AdmittedPayable
<1>7. led' = Applied(led, block, block.ops[k + 1]) /\ done' = 1 .. k + 1 /\ done' = done \union {k + 1}
      /\ k + 1 \notin done
  BY <1>1, <1>4, <1>5
<1> DEFINE i == k + 1
<1>8. i \in DOMAIN block.ops /\ i \notin done /\ Payable(block.ops[i])
  BY <1>5, <1>6, <1>7
<1> HIDE DEF i
<1>9. CASE block.seq = 0
  <2>1. Sprouted(led, block, done)
    BY <1>2, <1>9 DEF Standing
  <2>2. Sprouted(Applied(led, block, block.ops[i]), block, done \union {i})
    BY <1>2, <1>9, <1>8, <2>1, SproutedApplied
  <2>3. QED
    BY <1>7, <1>9, <2>2 DEF Standing, i
<1>10. CASE block.seq # 0 /\ Registrations(block) # {}
  <2>1. Traced(led, block, base, 1 .. k, tail)
    BY <1>2, <1>3, <1>10 DEF Standing
  <2>2. block.ops[k + 1].kind = "Register" => NextInLine(led, block.ops[k + 1])
    BY <1>1, <1>5, <1>10 DEF Admitted, RegisterAdmitted, Complete, NextInLine
  <2>3. Traced(led', block, base, 1 .. k + 1, tail)
    BY <1>2, <1>5, <1>6, <1>7, <1>10, <2>1, <2>2, TracedApplied
  <2>4. QED
    BY <1>7, <1>10, <2>3 DEF Standing
<1>11. CASE block.seq # 0 /\ Registrations(block) = {}
  <2>1. Summed(led, block, base, done)
    BY <1>2, <1>11 DEF Standing
  <2>2. block.ops[i].kind # "Register"
    BY <1>11, <1>8 DEF Registrations, OpsOf
  <2>3. Summed(Applied(led, block, block.ops[i]), block, base, done \union {i})
    BY <1>2, <1>8, <2>1, <2>2, SummedApplied
  <2>4. QED
    BY <1>7, <1>11, <2>3 DEF Standing, i
<1>12. QED
  BY <1>9, <1>10, <1>11

LEMMA RosterUndoes ==
  ASSUME GenesisForm, IInv, TypeInv, RosterInv, Undo
  PROVE  Standing(led', block, base, done', tail)
<1> DEFINE i == NextUndone(block, done)
<1>1. /\ phase = "Undo" /\ done # {}
      /\ led' = Undone(led, block, block.ops[i], tail) /\ done' = done \ {i}
  BY DEF Undo
<1>2. /\ block \in Universe /\ Tier1Gate(block) /\ done \subseteq DOMAIN block.ops
      /\ led \in LedgerState /\ Standing(led, block, base, done, tail)
  BY <1>1, CallFounded
<1>3. i \in done
  BY <1>1, <1>2, UndonePosition
<1>4. Payable(block.ops[i])
  BY <1>1, <1>3 DEF TypeInv
<1>5. CASE block.seq = 0
  <2> HIDE DEF i
  <2>1. Sprouted(led, block, done)
    BY <1>2, <1>5 DEF Standing
  <2>2. Sprouted(led', block, done')
    BY <1>1, <1>2, <1>3, <1>4, <1>5, <2>1, SproutedUndone
  <2>3. QED
    BY <1>5, <2>2 DEF Standing
<1>6. CASE block.seq # 0 /\ Registrations(block) # {}
  <2>1. Traced(led, block, base, done, tail)
    BY <1>2, <1>6 DEF Standing
  <2>2. Traced(led', block, base, done', tail)
    BY <1>1, <1>2, <1>6, <2>1, TracedUndone
  <2>3. QED
    BY <1>6, <2>2 DEF Standing
<1>7. CASE block.seq # 0 /\ Registrations(block) = {}
  <2> HIDE DEF i
  <2>1. Summed(led, block, base, done)
    BY <1>2, <1>7 DEF Standing
  <2>2. block.ops[i].kind # "Register"
    BY <1>2, <1>3, <1>7 DEF Registrations, OpsOf
  <2>3. Summed(led', block, base, done')
    BY <1>1, <1>2, <1>3, <1>4, <2>1, <2>2, SummedUndone
  <2>4. QED
    BY <1>7, <2>3 DEF Standing
<1>8. QED
  BY <1>5, <1>6, <1>7

LEMMA RosterCommits ==
  ASSUME GenesisForm, IInv, TypeInv, RosterInv, Commit
  PROVE  RosterInv'
<1> DEFINE next == Committed(led, block, fees)
<1>1. /\ phase = "Derived" /\ led' = IF Full THEN TailReleased(next, tail) ELSE next
      /\ base' = led' /\ phase' = "Idle" /\ chain' = Append(chain, block)
  BY DEF Commit, Finish
<1>2. done = DOMAIN block.ops /\ EndAdmitted(led, block, fees) /\ fees \in Amount
  BY <1>1 DEF IInv, TypeInv
<1>3. /\ block \in Universe /\ led \in LedgerState /\ tail \in Nat
      /\ Standing(led, block, base, DOMAIN block.ops, tail)
  BY <1>1, <1>2, CallFounded
<1>4. Roster(led)
  BY <1>3, StandingAll
<1>5. next \in LedgerState /\ Roster(next)
  BY <1>2, <1>3, <1>4, CommittedTyped, RosterCommitted
<1> HIDE DEF next
<1>6. Roster(led')
  BY <1>1, <1>3, <1>5, RosterReleased
<1>7. chain' # <<>>
  BY <1>1, <1>3 DEF IInv, WellFormed
<1>8. QED
  BY <1>1, <1>6, <1>7 DEF RosterInv

(* Once its last effect is inverted, the ledger is the one the call found.   *)
LEMMA UndoneExact ==
  ASSUME IInv, TypeInv, RosterInv, phase = "Undo", done = {}
  PROVE  led = base
<1>1. /\ block \in Universe /\ led \in LedgerState /\ base \in LedgerState
      /\ Founded(base, block) /\ Standing(led, block, base, {}, tail)
  BY CallFounded
<1>2. led.unspent = base.unspent
  BY DEF IInv, Called, Effects, SpendsOf
<1>3. QED
  BY <1>1, <1>2, StandingNone

LEMMA RosterNext ==
  ASSUME GenesisForm
  PROVE  IInv /\ TypeInv /\ RosterInv /\ [Next]_vars => RosterInv'
<1> SUFFICES ASSUME IInv, TypeInv, RosterInv, [Next]_vars PROVE RosterInv'
  OBVIOUS
<1>1. ASSUME NEW b \in Universe, Begin(b) PROVE RosterInv'
  <2>1. /\ phase = "Idle" /\ b.seq = Len(chain) /\ phase' = "Apply" /\ block' = b /\ base' = led
        /\ UNCHANGED <<led, chain, tail, done>> /\ done = {} /\ led = base
    BY <1>1 DEF Begin, IInv, RosterInv
  <2>2. b.seq = 0 <=> chain = <<>>
    BY <2>1 DEF IInv, WellFormed
  <2>3. led \in LedgerState /\ Founded(led, b)
    BY <2>1, <2>2 DEF TypeInv, RosterInv, Founded
  <2>4. Standing(led, b, led, {}, tail)
    BY <2>3, StandingFirst
  <2>5. QED
    BY <2>1, <2>4 DEF RosterInv
<1>2. CASE Apply
  <2>1. phase = "Apply" /\ UNCHANGED <<chain, tail, phase, block, base>>
    BY <1>2 DEF Apply
  <2>2. QED
    BY <1>2, <2>1, RosterApplies DEF RosterInv
<1>3. CASE Refuse \/ RefuseEnd \/ SaveFails \/ VotesRefuse
  BY <1>3 DEF Refuse, RefuseEnd, SaveFails, VotesRefuse, Fail, RosterInv
<1>4. CASE Derive
  BY <1>4 DEF Derive, RosterInv
<1>5. CASE Commit
  BY <1>5, RosterCommits
<1>6. CASE Undo
  <2>1. phase = "Undo" /\ UNCHANGED <<chain, tail, phase, block, base>>
    BY <1>6 DEF Undo
  <2>2. QED
    BY <1>6, <2>1, RosterUndoes DEF RosterInv
<1>7. CASE Abandon
  <2>1. phase = "Undo" /\ done = {} /\ phase' = "Idle" /\ UNCHANGED <<led, chain, base>>
    BY <1>7 DEF Abandon, Finish
  <2>2. led = base
    BY <2>1, UndoneExact
  <2>3. QED
    BY <2>1, <2>2 DEF RosterInv
<1>8. CASE UNCHANGED vars
  BY <1>8 DEF vars, call, RosterInv
<1>9. QED
  BY <1>1, <1>2, <1>3, <1>4, <1>5, <1>6, <1>7, <1>8 DEF Next

LEMMA RosterAlways == GenesisForm => (Spec => []RosterInv)
<1> SUFFICES ASSUME GenesisForm PROVE Spec => []RosterInv
  OBVIOUS
<1>1. Init => RosterInv
  BY DEF Init, RosterInv
<1>2. IInv /\ TypeInv /\ RosterInv /\ [Next]_vars => RosterInv'
  BY RosterNext
<1>3. QED
  BY <1>1, <1>2, InductiveInvariant, TypeInit, TypeNext, PTL DEF Spec

(* A step that fails, at whatever effect, leaves every balance, key, source, *)
(* bit and the watermark as it found them: for a block of registrations      *)
(* because its effects are inverted last first, for any other because sums   *)
(* that wrap come out the same in any order.                                 *)
THEOREM InverseHolds == GenesisForm => (Spec => []InverseExact)
<1> SUFFICES ASSUME GenesisForm PROVE Spec => []InverseExact
  OBVIOUS
<1>1. IInv /\ TypeInv /\ RosterInv => InverseExact
  BY UndoneExact DEF InverseExact
<1>2. Spec => []RosterInv
  BY RosterAlways
<1>3. QED
  BY <1>1, <1>2, InductiveInvariant, TypeInit, TypeNext, PTL DEF Spec

(* From the genesis block on, at every moment of a step, the nodes up to the *)
(* watermark and no others are seeded, no two share a key, and node 0 holds  *)
(* the trust anchor.                                                         *)
THEOREM RosterHolds == GenesisForm => (Spec => []RosterExact)
<1> SUFFICES ASSUME GenesisForm PROVE Spec => []RosterExact
  OBVIOUS
<1>1. IInv /\ TypeInv /\ RosterInv => RosterExact
  <2> SUFFICES ASSUME IInv, TypeInv, RosterInv, chain # <<>>
               PROVE  /\ \A n \in NodeSlot : (n <= led.watermark) = Seeded(led, n)
                      /\ \A m, n \in NodeSlot : Seeded(led, m) /\ led.key[m] = led.key[n] => m = n
                      /\ led.key[0] = Anchor
    BY DEF RosterExact
  <2>1. Roster(led)
    <3>1. CASE phase = "Idle"
      BY <3>1 DEF RosterInv
    <3>2. CASE phase # "Idle"
      <4>1. block.seq = Len(chain) /\ Standing(led, block, base, done, tail)
        BY <3>2, CallFounded
      <4>2. block.seq # 0
        BY <4>1 DEF IInv, WellFormed
      <4>3. CASE Registrations(block) # {}
        <5>1. PICK k, h : k \in Nat /\ h[k] = led /\ \A j \in 0 .. k : Roster(h[j])
          BY <4>1, <4>2, <4>3 DEF Standing, Traced
        <5>2. QED
          BY <5>1
      <4>4. CASE Registrations(block) = {}
        BY <4>1, <4>2, <4>4 DEF Standing, Summed
      <4>5. QED
        BY <4>3, <4>4
    <3>3. QED
      BY <3>1, <3>2
  <2>2. ASSUME NEW m \in NodeSlot, NEW n \in NodeSlot, Seeded(led, m), led.key[m] = led.key[n]
        PROVE  m = n
    <3>1. led.key[m] \in Key /\ NoKey \notin Key
      BY <2>1, <2>2, LedgerAssumption DEF Roster
    <3>2. Seeded(led, n)
      BY <2>1, <2>2, <3>1 DEF Roster, Blank
    <3>3. QED
      BY <2>1, <2>2, <3>2 DEF Roster
  <2>3. \A n \in NodeSlot : (n <= led.watermark) = Seeded(led, n)
    <3>1. \A n \in NodeSlot : n <= led.watermark <=> Seeded(led, n)
      BY <2>1 DEF Roster
    <3>2. \A n \in NodeSlot : Seeded(led, n) \in BOOLEAN /\ (n <= led.watermark) \in BOOLEAN
      BY DEF Seeded
    <3>3. QED
      BY <3>1, <3>2
  <2>4. QED
    BY <2>1, <2>2, <2>3 DEF Roster
<1>2. Spec => []RosterInv
  BY RosterAlways
<1>3. QED
  BY <1>1, <1>2, InductiveInvariant, TypeInit, TypeNext, PTL DEF Spec

-----------------------------------------------------------------------------
(* No block changes the sum of all balances and unspent outputs, but for     *)
(* what it openly creates or destroys: every effect moves what it takes to a *)
(* balance, to an output or to the creator's fees.                           *)

(* The amounts of outputs. *)

OutputOps(b) == OpsOf(b, {"UtxoOut"})

(* The output that an effect creates has the amount the effect names.        *)
LEMMA OutputPlaces ==
  ASSUME NEW b \in Universe, NEW c, NEW q, BlockAt(c, q) = b
  PROVE  /\ \A j \in OutputOps(b) : OutputAmount(c, q, Place(OutputOps(b), j)) = b.ops[j].amount
         /\ \A i, j \in OutputOps(b) : Place(OutputOps(b), i) = Place(OutputOps(b), j) => i = j
         /\ {Place(OutputOps(b), j) : j \in OutputOps(b)} = 1 .. Cardinality(OutputOps(b))
<1> DEFINE S == OutputOps(b)
<1>1. S \subseteq 1 .. Len(b.ops) /\ Len(b.ops) \in Nat /\ S \subseteq Nat
  BY OpsFinite DEF OutputOps
<1>2. /\ \A i, j \in S : Place(S, i) = Place(S, j) => i = j
      /\ {Place(S, j) : j \in S} = 1 .. Cardinality(S)
  <2> HIDE DEF S
  <2>1. QED
    BY <1>1, PlacesCount
<1>3. ASSUME NEW j \in S PROVE OutputAmount(c, q, Place(S, j)) = b.ops[j].amount
  <2> DEFINE i == Place(S, j)
             nth == {k \in S : Cardinality({m \in S : m <= k}) = i}
  <2>1. OutputAmount(c, q, i) = b.ops[Min(nth)].amount
    BY DEF OutputAmount, OutputOps
  <2>2. nth = {k \in S : Place(S, k) = i}
    BY DEF Place, UpThrough
  <2> HIDE DEF S
  <2>3. {k \in S : Place(S, k) = i} = {j}
    BY <1>2
  <2> HIDE DEF nth
  <2>4. nth = {j} /\ nth \subseteq Nat /\ nth # {}
    BY <1>1, <2>2, <2>3
  <2>5. Min(nth) = j
    BY <2>4, MinOf
  <2>6. QED
    BY <2>1, <2>5
<1>4. QED
  BY <1>2, <1>3

(* A block of the chain has no more outputs than the bits can tell apart.    *)
LEMMA OutputsBounded ==
  ASSUME NEW b \in Universe, Tier1Gate(b)
  PROVE  Cardinality(OutputOps(b)) \in 0 .. MaxOutputs
<1>1. Cardinality(OutputOps(b)) \in Nat /\ MaxOutputs \in Nat
  BY OpsFinite, GateAssumption DEF OutputOps
<1>2. CASE b.kind = "Transactions"
  BY <1>1, <1>2 DEF Tier1Gate, TransactionGate, OutputOps
<1>3. CASE b.kind # "Transactions"
  <2>1. OutputOps(b) = {}
    BY <1>3, UniverseAssumption DEF OutputOps, OpsOf
  <2>2. QED
    BY <1>1, <2>1, FS_EmptySet
<1>4. QED
  BY <1>2, <1>3

(* The set bits are finitely many, and each names an amount.                 *)
LEMMA UnspentCounted ==
  ASSUME NEW c, NEW low, WellFormed(c, low), NEW unspent, UnspentAt(c, low, unspent)
  PROVE  /\ IsFiniteSet(unspent)
         /\ \A u \in unspent : /\ u[1] \in low .. Len(c) - 1
                               /\ OutputAmount(c, u[1], u[2]) \in Nat
<1> DEFINE N == (0 .. Len(c) - 1) \X (1 .. MaxOutputs)
<1>1. ASSUME NEW u \in unspent
      PROVE  /\ u[1] \in low .. Len(c) - 1 /\ u \in N
             /\ OutputAmount(c, u[1], u[2]) \in Nat
  <2> DEFINE q == u[1]
             b == BlockAt(c, q)
             S == OutputOps(b)
  <2>1. q \in low .. Len(c) - 1 /\ u \in OutputsAt(c, q)
    BY UnspentHome
  <2>2. Len(c) \in Nat /\ low \in Nat /\ q \in 0 .. Len(c) - 1
    BY <2>1 DEF WellFormed
  <2>3. b \in Universe /\ Tier1Gate(b)
    <3>1. q + 1 \in 1 .. Len(c) /\ b = c[q + 1]
      BY <2>2 DEF BlockAt
    <3>2. QED
      BY <3>1 DEF WellFormed
  <2>4. PICK i \in 1 .. Cardinality(S) : u = <<q, i>>
    BY <2>1 DEF OutputsAt, OutputOps
  <2>5. Cardinality(S) \in 0 .. MaxOutputs
    BY <2>3, OutputsBounded
  <2> HIDE DEF b
  <2>6. PICK j \in S : i = Place(S, j)
    <3>1. {Place(S, j) : j \in S} = 1 .. Cardinality(S)
      BY <2>3, OutputPlaces DEF b
    <3>2. QED
      BY <3>1
  <2>7. OutputAmount(c, q, i) = b.ops[j].amount
    BY <2>3, <2>6, OutputPlaces DEF b
  <2>8. b.ops[j].amount \in Nat
    <3>1. j \in DOMAIN b.ops /\ b.ops[j].kind = "UtxoOut"
      BY <2>6 DEF OutputOps, OpsOf
    <3>2. ParsedEffect(b.ops[j])
      BY <2>3, <3>1, ParsedAssumption
    <3>3. QED
      BY <3>1, <3>2, GateAssumption DEF ParsedEffect, Amount
  <2>9. u[2] = i /\ u \in N
    BY <2>2, <2>4, <2>5, GateAssumption
  <2>10. QED
    BY <2>1, <2>7, <2>8, <2>9
<1>2. IsFiniteSet(N)
  <2>1. IsFiniteSet(0 .. Len(c) - 1) /\ IsFiniteSet(1 .. MaxOutputs)
    <3>1. Len(c) - 1 \in Int /\ MaxOutputs \in Int
      BY GateAssumption DEF WellFormed
    <3>2. QED
      BY <3>1, FS_Interval
  <2>2. QED
    BY <2>1, FS_Product
<1>3. IsFiniteSet(unspent)
  <2>1. unspent \subseteq N
    BY <1>1
  <2>2. QED
    BY <1>2, <2>1, FS_Subset
<1>4. QED
  BY <1>1, <1>3

-----------------------------------------------------------------------------
(* What a ledger holds, in two sums.  *)

(* The slots of the roster are finitely many.                                *)
LEMMA SlotsFinite == IsFiniteSet(NodeSlot)
<1>1. 0 \in Int /\ MaxNodes - 1 \in Int
  BY LedgerAssumption
<1>2. QED
  BY <1>1, FS_Interval DEF NodeSlot

LEMMA BalancesSummable ==
  ASSUME NEW l \in LedgerState
  PROVE  Summable(l.balance, NodeSlot)
BY SlotsFinite, GateAssumption DEF Summable, LedgerState, Amount

(* The unspent bits of l are among those of a settled ledger on the chain c. *)
Counted(l, c) ==
  /\ IsFiniteSet(l.unspent)
  /\ \A u \in l.unspent : OutputAmount(c, u[1], u[2]) \in Nat

OutputSum(l, c) == SumOn(Amounts(l, c), l.unspent)

LEMMA HoldingsAre ==
  ASSUME NEW l \in LedgerState, NEW c, Counted(l, c)
  PROVE  /\ Holdings(l, c) = SumOn(l.balance, NodeSlot) + OutputSum(l, c)
         /\ SumOn(l.balance, NodeSlot) \in Nat /\ OutputSum(l, c) \in Nat
         /\ Summable(Amounts(l, c), l.unspent)
<1>1. DOMAIN l.balance = NodeSlot /\ DOMAIN Amounts(l, c) = l.unspent
  BY DEF LedgerState, Amounts
<1>2. Summable(Amounts(l, c), l.unspent)
  BY DEF Summable, Counted, Amounts
<1>3. SumOn(l.balance, NodeSlot) \in Nat
  BY BalancesSummable, SumOnAdd
<1>4. OutputSum(l, c) \in Nat
  BY <1>2, SumOnAdd DEF OutputSum
<1>5. QED
  BY <1>1, <1>2, <1>3, <1>4 DEF Holdings, SumFunction, SumOn, OutputSum

(* Balances that only one effect's gains and losses separate.                *)
LEMMA BalancesMoved ==
  ASSUME NEW l \in LedgerState, NEW r \in LedgerState,
         NEW gain, Summable(gain, NodeSlot), NEW loss, Summable(loss, NodeSlot),
         \A m \in NodeSlot : r.balance[m] + loss[m] = l.balance[m] + gain[m]
  PROVE  SumOn(r.balance, NodeSlot) + SumOn(loss, NodeSlot)
           = SumOn(l.balance, NodeSlot) + SumOn(gain, NodeSlot)
<1> DEFINE g == l.balance
           h == r.balance
           both == [m \in NodeSlot |-> g[m] + gain[m]]
<1>1. Summable(g, NodeSlot) /\ Summable(h, NodeSlot)
  BY BalancesSummable
<1>2. /\ \A m \in NodeSlot : both[m] = g[m] + gain[m]
      /\ \A m \in NodeSlot : both[m] = h[m] + loss[m]
  OBVIOUS
<1> HIDE DEF g, h, both
<1>3. SumOn(both, NodeSlot) = SumOn(g, NodeSlot) + SumOn(gain, NodeSlot)
  BY <1>1, <1>2, SumOnPlus
<1>4. SumOn(both, NodeSlot) = SumOn(h, NodeSlot) + SumOn(loss, NodeSlot)
  BY <1>1, <1>2, SumOnPlus
<1>5. QED
  BY <1>3, <1>4 DEF g, h

(* One bit less is its output's amount less.                                 *)
LEMMA OutputTaken ==
  ASSUME NEW l, NEW c, Counted(l, c), NEW u \in l.unspent, NEW r, r.unspent = l.unspent \ {u}
  PROVE  Counted(r, c) /\ OutputSum(r, c) + OutputAmount(c, u[1], u[2]) = OutputSum(l, c)
<1> DEFINE f == Amounts(l, c)
           A == l.unspent \ {u}
<1>1. Summable(f, l.unspent) /\ f[u] = OutputAmount(c, u[1], u[2])
  BY DEF Summable, Counted, Amounts
<1>2. A \in SUBSET l.unspent /\ u \in l.unspent \ A /\ A \union {u} = l.unspent
  OBVIOUS
<1> HIDE DEF f, A
<1>3. SumOn(f, l.unspent) = SumOn(f, A) + f[u] /\ Summable(f, A)
  BY <1>1, <1>2, SumOnAdd
<1>4. SumOn(Amounts(r, c), A) = SumOn(f, A)
  <2>1. \A v \in A : Amounts(r, c)[v] = f[v]
    BY <1>2 DEF Amounts, f, A
  <2>2. QED
    BY <1>3, <2>1, SumOnSame
<1>5. Counted(r, c)
  BY FS_Subset, <1>2 DEF Counted, A
<1>6. QED
  BY <1>1, <1>3, <1>4, <1>5 DEF OutputSum, f, A

-----------------------------------------------------------------------------
(* What an effect takes from the holdings, and what it adds to them. *)

Paid(b, op) ==
  CASE op.kind = "Transfer" -> IF b.seq = 0 THEN 0 ELSE op.fee
    [] op.kind = "Register" -> IF b.seq = 0 THEN 0 ELSE op.price + op.fee
    [] op.kind \in Inputs   -> op.amount
    [] OTHER -> 0

Got(b, op) ==
  CASE op.kind = "Transfer"   -> IF b.seq = 0 THEN op.amount ELSE 0
    [] op.kind = "BalanceOut" -> op.amount
    [] OTHER -> 0

LossOf(l, b, op) == [m \in NodeSlot |-> Loss(l, b, op, m)]
GainOf(l, b, op) == [m \in NodeSlot |-> Gain(l, b, op, m)]

(* The effect overdraws no balance and overflows none.                       *)
Covered(l, b, op) ==
  \A m \in NodeSlot : /\ Loss(l, b, op, m) <= l.balance[m]
                      /\ l.balance[m] - Loss(l, b, op, m) + Gain(l, b, op, m) < AmountBound

LEMMA PaymentMoves ==
  ASSUME NEW l \in LedgerState, NEW b, NEW op, Payable(op), op.kind # "Register", Covered(l, b, op),
         NEW r, Gives(r, l, b, op)
  PROVE  SumOn(r.balance, NodeSlot) + SumOn(LossOf(l, b, op), NodeSlot)
           = SumOn(l.balance, NodeSlot) + SumOn(GainOf(l, b, op), NodeSlot)
<1> DEFINE loss == LossOf(l, b, op)
           gain == GainOf(l, b, op)
<1>1. \A m \in NodeSlot : /\ Loss(l, b, op, m) \in Amount /\ Gain(l, b, op, m) \in Amount
                          /\ l.balance[m] \in Amount
  BY FlowTyped DEF LedgerState
<1>2. Summable(loss, NodeSlot) /\ Summable(gain, NodeSlot)
  BY <1>1, SlotsFinite, GateAssumption DEF Summable, LossOf, GainOf, Amount
<1>3. \A m \in NodeSlot : r.balance[m] + loss[m] = l.balance[m] + gain[m]
  <2> SUFFICES ASSUME NEW m \in NodeSlot PROVE r.balance[m] + loss[m] = l.balance[m] + gain[m]
    OBVIOUS
  <2> DEFINE x == l.balance[m]
             y == Loss(l, b, op, m)
             z == Gain(l, b, op, m)
  <2>1. r.balance[m] = WrapAdd(WrapSub(x, y), z) /\ loss[m] = y /\ gain[m] = z
    BY DEF Gives, LossOf, GainOf
  <2>2. x \in Nat /\ y \in Nat /\ z \in Nat /\ y <= x /\ x - y + z < AmountBound
    BY <1>1, GateAssumption DEF Covered, Amount
  <2> HIDE DEF x, y, z, loss, gain
  <2>3. WrapSub(x, y) = x - y /\ WrapAdd(x - y, z) = x - y + z
    BY <2>2, GateAssumption DEF WrapSub, WrapAdd
  <2>4. QED
    BY <2>1, <2>2, <2>3 DEF x
<1>4. r \in LedgerState
  BY DEF Gives
<1> HIDE DEF loss, gain
<1>5. SumOn(r.balance, NodeSlot) + SumOn(loss, NodeSlot)
        = SumOn(l.balance, NodeSlot) + SumOn(gain, NodeSlot)
  BY <1>2, <1>3, <1>4, BalancesMoved
<1>6. QED
  BY <1>5 DEF loss, gain

LEMMA LossTotal ==
  ASSUME NEW l \in LedgerState, NEW b, NEW op, Payable(op), op.kind # "Register"
  PROVE  SumOn(LossOf(l, b, op), NodeSlot) =
           IF op.kind = "Transfer" /\ Pays(l, b, op.node) THEN op.amount + op.fee
           ELSE IF op.kind = "BalanceIn" /\ Pays(l, b, op.node) THEN op.amount ELSE 0
<1> DEFINE f == LossOf(l, b, op)
           pays == op.kind \in {"Transfer", "BalanceIn"} /\ Pays(l, b, op.node)
           x == Loss(l, b, op, op.node)
<1>1. x \in Nat
  BY FlowTyped, GateAssumption DEF Amount
<1>2. CASE pays
  <2>1. op.node \in NodeSlot
    BY <1>2 DEF Pays, Seeded
  <2>2. \A m \in NodeSlot : f[m] = IF m = op.node THEN x ELSE 0
    BY DEF LossOf, Loss
  <2> HIDE DEF f, x
  <2>3. SumOn(f, NodeSlot) = x
    BY <1>1, <2>1, <2>2, SlotsFinite, SumOnSingle
  <2>4. QED
    BY <1>2, <2>3 DEF f, x, Loss
<1>3. CASE ~pays
  <2>1. \A m \in NodeSlot : f[m] = 0
    BY <1>3 DEF LossOf, Loss
  <2> HIDE DEF f
  <2>2. SumOn(f, NodeSlot) = 0
    BY <2>1, SlotsFinite, SumOnZero
  <2>3. QED
    BY <1>3, <2>2 DEF f
<1>4. QED
  BY <1>2, <1>3

LEMMA GainTotal ==
  ASSUME NEW l \in LedgerState, NEW b, NEW op, Payable(op), op.kind # "Register"
  PROVE  SumOn(GainOf(l, b, op), NodeSlot) =
           IF op.kind \in {"Transfer", "BalanceOut"} /\ Seeded(l, op.to) THEN op.amount ELSE 0
<1> DEFINE f == GainOf(l, b, op)
           gains == op.kind \in {"Transfer", "BalanceOut"} /\ Seeded(l, op.to)
           x == Gain(l, b, op, op.to)
<1>1. x \in Nat
  BY FlowTyped, GateAssumption DEF Amount
<1>2. CASE gains
  <2>1. op.to \in NodeSlot
    BY <1>2 DEF Seeded
  <2>2. \A m \in NodeSlot : f[m] = IF m = op.to THEN x ELSE 0
    BY DEF GainOf, Gain
  <2> HIDE DEF f, x
  <2>3. SumOn(f, NodeSlot) = x
    BY <1>1, <2>1, <2>2, SlotsFinite, SumOnSingle
  <2>4. QED
    BY <1>2, <2>3 DEF f, x, Gain
<1>3. CASE ~gains
  <2>1. \A m \in NodeSlot : f[m] = 0
    BY <1>3 DEF GainOf, Gain
  <2> HIDE DEF f
  <2>2. SumOn(f, NodeSlot) = 0
    BY <2>1, SlotsFinite, SumOnZero
  <2>3. QED
    BY <1>3, <2>2 DEF f
<1>4. QED
  BY <1>2, <1>3

-----------------------------------------------------------------------------
(* One effect, applied: what leaves the balances is paid, what enters is got. *)

(* What holds before the effect op of block b is applied to l: a roster      *)
(* without gaps, or in the genesis block node 0 registered before it is      *)
(* given anything.                                                           *)
Ready(l, b, op) ==
  /\ b.seq # 0 => Roster(l) /\ l.watermark \in NodeSlot
  /\ b.seq = 0 => /\ op.kind \in {"Transfer", "Register"}
                  /\ op.kind = "Transfer" => Seeded(l, op.to)
                  /\ op.kind = "Register" => op.id \in NodeSlot /\ Blank(l, op.id)

(* A node in range is on the roster.                                         *)
LEMMA ReachedSeeded ==
  ASSUME NEW l \in LedgerState, Roster(l), l.watermark \in NodeSlot, NEW n \in Nat, InRange(l, n)
  PROVE  Seeded(l, n)
<1>1. n \in NodeSlot
  BY LedgerAssumption DEF InRange, NodeSlot
<1>2. QED
  BY <1>1 DEF Roster, InRange

(* The transfer, the input and the output that the checks of derive_block    *)
(* let pass.                                                                 *)
LEMMA PaymentCovered ==
  ASSUME NEW l \in LedgerState, NEW b, b.seq \in Nat, NEW op, Payable(op), op.kind # "Register",
         NEW x, NEW o, NEW low, NEW value,
         Admitted(l, Complete, b, op, x, o, low, value), Ready(l, b, op)
  PROVE  /\ Covered(l, b, op)
         /\ b.seq # 0 /\ op.kind \in {"Transfer", "BalanceIn"} => Pays(l, b, op.node)
         /\ op.kind \in {"Transfer", "BalanceOut"} => Seeded(l, op.to)
<1>0. Complete.complete /\ Complete.bounded
  BY DEF Complete
<1>1. ASSUME NEW m \in NodeSlot
      PROVE  /\ l.balance[m] \in Nat /\ l.balance[m] < AmountBound
             /\ Loss(l, b, op, m) \in Nat /\ Gain(l, b, op, m) \in Nat
  BY FlowTyped, GateAssumption DEF LedgerState, Amount
<1>2. CASE op.kind = "Transfer"
  <2>1. /\ MayAct(l, Complete, b, op) /\ CanReceive(l, Complete, b, op.to)
        /\ Affords(l, b, op.node, op.amount + op.fee)
        /\ (Pays(l, b, op.node) /\ op.to = op.node) \/ Fits(l, op.to, op.amount)
    BY <1>2 DEF Admitted, TransferAdmitted
  <2>2. op.to \in Nat /\ op.amount \in Nat /\ op.fee \in Nat
    BY <1>2, GateAssumption DEF Payable, ParsedEffect, Amount
  <2>3. b.seq # 0 => Pays(l, b, op.node)
    BY <1>0, <2>1 DEF MayAct, Pays
  <2>4. Seeded(l, op.to)
    <3>1. CASE b.seq = 0
      BY <1>2, <3>1 DEF Ready
    <3>2. CASE b.seq # 0
      BY <1>0, <2>1, <2>2, <3>2, ReachedSeeded DEF Ready, CanReceive
    <3>3. QED
      BY <3>1, <3>2
  <2>5. ASSUME NEW m \in NodeSlot
        PROVE  /\ Loss(l, b, op, m) <= l.balance[m]
               /\ l.balance[m] - Loss(l, b, op, m) + Gain(l, b, op, m) < AmountBound
    <3>1. Loss(l, b, op, m) = IF m = op.node /\ Pays(l, b, m) THEN op.amount + op.fee ELSE 0
      BY <1>2 DEF Loss
    <3>2. Gain(l, b, op, m) = IF m = op.to THEN op.amount ELSE 0
      BY <1>2, <2>4 DEF Gain
    <3>3. m = op.node /\ Pays(l, b, m) => l.balance[m] >= op.amount + op.fee
      BY <2>1 DEF Affords, BalanceOf
    <3>4. m = op.to => \/ m = op.node /\ Pays(l, b, m)
                       \/ l.balance[m] + op.amount < AmountBound
      BY <2>1, <2>4 DEF Fits, BalanceOf
    <3> DEFINE bal == l.balance[m]
               y == Loss(l, b, op, m)
               z == Gain(l, b, op, m)
    <3>5. bal \in Nat /\ bal < AmountBound /\ AmountBound \in Nat /\ y \in Nat /\ z \in Nat
      BY <1>1, GateAssumption
    <3>6. \/ y = op.amount + op.fee /\ bal >= op.amount + op.fee /\ z \in {0, op.amount}
          \/ y = 0 /\ z = 0
          \/ y = 0 /\ z = op.amount /\ bal + op.amount < AmountBound
      BY <3>1, <3>2, <3>3, <3>4, Zenon
    <3> HIDE DEF bal, y, z
    <3>7. y <= bal /\ bal - y + z < AmountBound
      BY <2>2, <3>5, <3>6
    <3>8. QED
      BY <3>7 DEF bal, y, z
  <2>6. QED
    BY <1>2, <2>3, <2>4, <2>5 DEF Covered
<1>3. CASE op.kind = "BalanceIn"
  <2>1. MayAct(l, Complete, b, op) /\ Affords(l, b, op.node, op.amount) /\ op.amount \in Nat
    BY <1>3, GateAssumption DEF Admitted, Payable, ParsedEffect, Amount
  <2>2. b.seq # 0 => Pays(l, b, op.node)
    BY <1>0, <2>1 DEF MayAct, Pays
  <2>3. ASSUME NEW m \in NodeSlot
        PROVE  /\ Loss(l, b, op, m) <= l.balance[m]
               /\ l.balance[m] - Loss(l, b, op, m) + Gain(l, b, op, m) < AmountBound
    <3>1. /\ Loss(l, b, op, m) = IF m = op.node /\ Pays(l, b, m) THEN op.amount ELSE 0
          /\ Gain(l, b, op, m) = 0
      BY <1>3 DEF Loss, Gain
    <3>2. m = op.node /\ Pays(l, b, m) => l.balance[m] >= op.amount
      BY <2>1 DEF Affords, BalanceOf
    <3> DEFINE bal == l.balance[m]
               y == Loss(l, b, op, m)
    <3>3. bal \in Nat /\ bal < AmountBound /\ AmountBound \in Nat /\ y <= bal /\ y \in Nat
      <4>1. bal \in Nat /\ bal < AmountBound /\ AmountBound \in Nat
        BY <1>1, GateAssumption
      <4>2. CASE m = op.node /\ Pays(l, b, m)
        BY <2>1, <3>1, <3>2, <4>1, <4>2
      <4>3. CASE ~(m = op.node /\ Pays(l, b, m))
        <5>1. y = 0
          BY <3>1, <4>3, Zenon
        <5> HIDE DEF bal, y
        <5>2. QED
          BY <4>1, <5>1
      <4>4. QED
        BY <4>2, <4>3
    <3> HIDE DEF bal, y
    <3>4. bal - y + 0 < AmountBound
      BY <3>3
    <3>5. QED
      BY <3>1, <3>3, <3>4 DEF bal, y
  <2>4. QED
    BY <1>3, <2>2, <2>3 DEF Covered
<1>4. CASE op.kind = "BalanceOut"
  <2>1. CanReceive(l, Complete, b, op.to) /\ Fits(l, op.to, op.amount)
    BY <1>4 DEF Admitted
  <2>2. op.to \in Nat /\ op.amount \in Nat /\ b.seq # 0
    BY <1>4, GateAssumption DEF Payable, ParsedEffect, Amount, Ready
  <2>3. Seeded(l, op.to)
    BY <1>0, <2>1, <2>2, ReachedSeeded DEF Ready, CanReceive
  <2>4. ASSUME NEW m \in NodeSlot
        PROVE  /\ Loss(l, b, op, m) <= l.balance[m]
               /\ l.balance[m] - Loss(l, b, op, m) + Gain(l, b, op, m) < AmountBound
    <3>1. /\ Loss(l, b, op, m) = 0
          /\ Gain(l, b, op, m) = IF m = op.to THEN op.amount ELSE 0
      BY <1>4, <2>3 DEF Loss, Gain
    <3>2. m = op.to => l.balance[m] + op.amount < AmountBound
      BY <2>1, <2>3 DEF Fits, BalanceOf
    <3>3. QED
      BY <1>1, <2>2, <3>1, <3>2
  <2>5. QED
    BY <1>4, <2>3, <2>4 DEF Covered
<1>5. CASE op.kind \in {"UtxoIn", "UtxoOut", "Close"}
  <2>1. ASSUME NEW m \in NodeSlot PROVE Loss(l, b, op, m) = 0 /\ Gain(l, b, op, m) = 0
    BY <1>5 DEF Loss, Gain
  <2>2. QED
    BY <1>1, <1>5, <2>1 DEF Covered
<1>6. QED
  BY <1>2, <1>3, <1>4, <1>5 DEF Payable, Complex, Inputs, Outputs

PaidByBalance(b, op) == IF op.kind = "UtxoIn" THEN 0 ELSE Paid(b, op)

LEMMA PaymentBalances ==
  ASSUME NEW l \in LedgerState, NEW b, b.seq \in Nat, NEW op, Payable(op), op.kind # "Register",
         NEW x, NEW o, NEW low, NEW value,
         Admitted(l, Complete, b, op, x, o, low, value), Ready(l, b, op),
         NEW r, r = Applied(l, b, op)
  PROVE  SumOn(r.balance, NodeSlot) + PaidByBalance(b, op) = SumOn(l.balance, NodeSlot) + Got(b, op)
<1> DEFINE loss == SumOn(LossOf(l, b, op), NodeSlot)
           gain == SumOn(GainOf(l, b, op), NodeSlot)
<1>1. Gives(r, l, b, op)
  BY PaymentApplied
<1>2. /\ Covered(l, b, op)
      /\ b.seq # 0 /\ op.kind \in {"Transfer", "BalanceIn"} => Pays(l, b, op.node)
      /\ op.kind \in {"Transfer", "BalanceOut"} => Seeded(l, op.to)
  BY PaymentCovered
<1>3. SumOn(r.balance, NodeSlot) + loss = SumOn(l.balance, NodeSlot) + gain
  BY <1>1, <1>2, PaymentMoves
<1>4. SumOn(r.balance, NodeSlot) \in Nat /\ SumOn(l.balance, NodeSlot) \in Nat
  BY <1>1, BalancesSummable, SumOnAdd DEF Gives
<1>5. b.seq = 0 => ~Pays(l, b, op.node) /\ op.kind = "Transfer"
  BY DEF Pays, Ready
<1>6. /\ op.kind \in {"Transfer", "BalanceIn", "BalanceOut"} => op.amount \in Nat
      /\ op.kind = "Transfer" => op.fee \in Nat
  BY GateAssumption DEF Payable, ParsedEffect, Amount
<1>7. loss = IF op.kind = "Transfer" /\ b.seq # 0 THEN op.amount + op.fee
             ELSE IF op.kind = "BalanceIn" THEN op.amount ELSE 0
  BY <1>2, <1>5, LossTotal
<1>8. gain = IF op.kind \in {"Transfer", "BalanceOut"} THEN op.amount ELSE 0
  BY <1>2, GainTotal
<1> HIDE DEF loss, gain
<1>9. PaidByBalance(b, op) = IF op.kind = "Transfer" /\ b.seq # 0 THEN op.fee
                             ELSE IF op.kind = "BalanceIn" THEN op.amount ELSE 0
  BY <1>5 DEF PaidByBalance, Paid, Inputs
<1>10. Got(b, op) = IF op.kind = "Transfer" /\ b.seq # 0 THEN 0
                    ELSE IF op.kind \in {"Transfer", "BalanceOut"} THEN op.amount ELSE 0
  BY DEF Got
<1>11. QED
  BY <1>3, <1>4, <1>6, <1>7, <1>8, <1>9, <1>10

(* A registration takes its price and its fee from the node that registers   *)
(* another, whose slot was blank.                                            *)
LEMMA SlotBlank ==
  ASSUME NEW l \in LedgerState, NEW b, b.seq \in Nat, NEW op, Payable(op), op.kind = "Register",
         NEW x, NEW o, NEW low, NEW value,
         Admitted(l, Complete, b, op, x, o, low, value), Ready(l, b, op),
         NEW m \in NodeSlot
  PROVE  /\ m = op.id => l.balance[m] = 0 /\ Price(l, b, op, m) = 0
         /\ Price(l, b, op, m) <= l.balance[m]
         /\ b.seq # 0 => Pays(l, b, op.node)
<1>1. /\ MayAct(l, Complete, b, op)
      /\ b.seq # 0 => op.id = l.watermark + 1
      /\ Affords(l, b, op.node, op.price + op.fee)
  BY DEF Admitted, RegisterAdmitted, Complete
<1>2. b.seq # 0 => Pays(l, b, op.node)
  BY <1>1 DEF MayAct, Pays, Complete
<1>3. l.balance[m] \in Nat /\ m \in Nat /\ l.watermark \in Nat
  BY LedgerAssumption, GateAssumption DEF LedgerState, Amount, NodeSlot
<1>4. Price(l, b, op, m) <= l.balance[m]
  <2>1. CASE m = op.node /\ Pays(l, b, m)
    <3>1. Price(l, b, op, m) = op.price + op.fee
      BY <2>1 DEF Price
    <3>2. QED
      BY <1>1, <2>1, <3>1 DEF Affords, BalanceOf
  <2>2. CASE ~(m = op.node /\ Pays(l, b, m))
    <3>1. Price(l, b, op, m) = 0
      BY <2>2 DEF Price
    <3>2. QED
      BY <1>3, <3>1
  <2>3. QED
    BY <2>1, <2>2
<1>5. ASSUME m = op.id PROVE l.balance[m] = 0 /\ Price(l, b, op, m) = 0
  <2>1. CASE b.seq = 0
    BY <1>5, <2>1 DEF Ready, Blank, Price, Pays
  <2>2. CASE b.seq # 0
    <3>1. ~Seeded(l, m) /\ Blank(l, m)
      <4>1. Roster(l) /\ ~(m <= l.watermark)
        BY <1>1, <1>3, <1>5, <2>2 DEF Ready
      <4>2. QED
        BY <4>1 DEF Roster
    <3>2. QED
      BY <3>1 DEF Blank, Price, Pays
  <2>3. QED
    BY <2>1, <2>2
<1>6. QED
  BY <1>2, <1>4, <1>5

LEMMA RegisterBalances ==
  ASSUME NEW l \in LedgerState, NEW b, b.seq \in Nat, NEW op, Payable(op), op.kind = "Register",
         NEW x, NEW o, NEW low, NEW value,
         Admitted(l, Complete, b, op, x, o, low, value), Ready(l, b, op),
         NEW r, r = Applied(l, b, op)
  PROVE  SumOn(r.balance, NodeSlot) + Paid(b, op) = SumOn(l.balance, NodeSlot)
<1> DEFINE loss == [m \in NodeSlot |-> Price(l, b, op, m)]
           gain == [m \in NodeSlot |-> 0]
<1>1. Sown(r, l, b, op)
  BY RegisterApplied
<1>2. ASSUME NEW m \in NodeSlot
      PROVE  loss[m] \in Nat /\ r.balance[m] + loss[m] = l.balance[m] + gain[m]
  <2> DEFINE y == l.balance[m]
             z == Price(l, b, op, m)
  <2>1. y \in Nat /\ z \in Nat /\ z <= y /\ (m = op.id => y = 0 /\ z = 0)
    BY SlotBlank, PriceTyped, GateAssumption DEF LedgerState, Amount
  <2>2. r.balance[m] = IF m = op.id THEN 0 ELSE WrapSub(y, z)
    BY <1>1 DEF Sown
  <2> HIDE DEF y, z
  <2>3. WrapSub(y, z) = y - z
    BY <2>1 DEF WrapSub
  <2>4. r.balance[m] + z = y + 0
    BY <2>1, <2>2, <2>3
  <2>5. QED
    BY <2>1, <2>4 DEF y, z
<1>3. Summable(loss, NodeSlot)
  BY <1>2, SlotsFinite DEF Summable
<1>4. Summable(gain, NodeSlot) /\ SumOn(gain, NodeSlot) = 0
  <2>1. \A m \in NodeSlot : gain[m] = 0
    OBVIOUS
  <2> HIDE DEF gain
  <2>2. QED
    BY <2>1, SlotsFinite, SumOnZero
<1>5. r \in LedgerState
  BY <1>1 DEF Sown
<1>6. SumOn(loss, NodeSlot) = Paid(b, op)
  <2>1. CASE b.seq = 0
    <3>1. \A m \in NodeSlot : loss[m] = 0
      BY <2>1 DEF Price, Pays
    <3> HIDE DEF loss
    <3>2. SumOn(loss, NodeSlot) = 0
      BY <3>1, SlotsFinite, SumOnZero
    <3>3. QED
      BY <2>1, <3>2 DEF Paid, Inputs
  <2>2. CASE b.seq # 0
    <3>1. Pays(l, b, op.node) /\ op.node \in NodeSlot
      BY <2>2, SlotBlank, ZeroSlot DEF Pays, Seeded
    <3>2. op.price + op.fee \in Nat
      BY GateAssumption DEF Payable, ParsedEffect, Amount
    <3>3. \A m \in NodeSlot : loss[m] = IF m = op.node THEN op.price + op.fee ELSE 0
      BY <3>1 DEF Price
    <3> HIDE DEF loss
    <3>4. SumOn(loss, NodeSlot) = op.price + op.fee
      BY <3>1, <3>2, <3>3, SlotsFinite, SumOnSingle
    <3>5. QED
      BY <2>2, <3>4 DEF Paid, Inputs
  <2>3. QED
    BY <2>1, <2>2
<1>7. \A m \in NodeSlot : r.balance[m] + loss[m] = l.balance[m] + gain[m]
  BY <1>2
<1> HIDE DEF loss, gain
<1>8. SumOn(r.balance, NodeSlot) + SumOn(loss, NodeSlot) = SumOn(l.balance, NodeSlot) + SumOn(gain, NodeSlot)
  BY <1>3, <1>4, <1>5, <1>7, BalancesMoved
<1>9. SumOn(l.balance, NodeSlot) \in Nat
  BY BalancesSummable, SumOnAdd
<1>10. QED
  BY <1>4, <1>6, <1>8, <1>9

LEMMA PaidTyped ==
  ASSUME NEW b, NEW op, Payable(op)
  PROVE  Paid(b, op) \in Nat /\ Got(b, op) \in Nat
<1>1. /\ op.kind \notin {"Register", "Close"} => op.amount \in Nat
      /\ op.kind \in {"Transfer", "Register"} => op.fee \in Nat
      /\ op.kind = "Register" => op.price \in Nat /\ op.price + op.fee \in Nat
  BY GateAssumption DEF Payable, ParsedEffect, Amount
<1>2. Paid(b, op) \in Nat
  BY <1>1 DEF Paid, Inputs
<1>3. Got(b, op) \in Nat
  BY <1>1 DEF Got
<1>4. QED
  BY <1>2, <1>3

(* The bits an effect leaves, and what they are worth.                       *)
LEMMA EffectOutputs ==
  ASSUME NEW l \in LedgerState, NEW c, Counted(l, c), NEW b, NEW op, Payable(op),
         NEW x, NEW o, NEW low, Admitted(l, Complete, b, op, x, o, low, Amounts(l, c)),
         NEW r, r = Applied(l, b, op)
  PROVE  /\ Counted(r, c)
         /\ op.kind = "UtxoIn" => OutputSum(r, c) + op.amount = OutputSum(l, c)
         /\ op.kind # "UtxoIn" => OutputSum(r, c) = OutputSum(l, c)
<1>1. r.unspent = IF op.kind = "UtxoIn" THEN l.unspent \ {OutputOf(op)} ELSE l.unspent
  <2>1. IsLedger(l) /\ op.kind \in {"Transfer", "Register"} \union Complex
    BY StateIsLedger DEF Payable
  <2>2. IsApplied(r, l, b, op)
    BY <2>1, AppliedFields
  <2>3. QED
    BY <2>2 DEF IsApplied
<1>2. CASE op.kind = "UtxoIn"
  <2> DEFINE u == <<op.seq, op.index>>
  <2>1. UtxoAdmitted(l, Complete, b, op, low, Amounts(l, c))
    BY <1>2 DEF Admitted
  <2>2. u \in l.unspent /\ Amounts(l, c)[u] = op.amount
    BY <2>1 DEF UtxoAdmitted, Resolves, Complete
  <2>3. OutputAmount(c, u[1], u[2]) = op.amount
    BY <2>2 DEF Amounts
  <2>4. r.unspent = l.unspent \ {u}
    BY <1>1, <1>2 DEF OutputOf
  <2> HIDE DEF u
  <2>5. Counted(r, c) /\ OutputSum(r, c) + OutputAmount(c, u[1], u[2]) = OutputSum(l, c)
    BY <2>2, <2>4, OutputTaken
  <2>6. QED
    BY <1>2, <2>3, <2>5
<1>3. CASE op.kind # "UtxoIn"
  <2>1. r.unspent = l.unspent
    BY <1>1, <1>3
  <2>2. Amounts(r, c) = Amounts(l, c)
    BY <2>1 DEF Amounts
  <2>3. QED
    BY <1>3, <2>1, <2>2 DEF Counted, OutputSum
<1>4. QED
  BY <1>2, <1>3

(* An effect takes from what the ledger holds what it pays, and adds what it *)
(* gets.                                                                     *)
LEMMA EffectValue ==
  ASSUME NEW l \in LedgerState, NEW c, Counted(l, c),
         NEW b, b.seq \in Nat, NEW op, Payable(op), NEW x, NEW o, NEW low,
         Admitted(l, Complete, b, op, x, o, low, Amounts(l, c)), Ready(l, b, op),
         NEW r, r = Applied(l, b, op)
  PROVE  /\ Counted(r, c)
         /\ Holdings(r, c) + Paid(b, op) = Holdings(l, c) + Got(b, op)
         /\ Holdings(r, c) \in Nat
<1>1. r \in LedgerState
  BY PaymentApplied, RegisterApplied DEF Gives, Sown
<1>2. /\ Counted(r, c)
      /\ op.kind = "UtxoIn" => OutputSum(r, c) + op.amount = OutputSum(l, c)
      /\ op.kind # "UtxoIn" => OutputSum(r, c) = OutputSum(l, c)
  BY EffectOutputs
<1> DEFINE hr == SumOn(r.balance, NodeSlot)
           hl == SumOn(l.balance, NodeSlot)
           ur == OutputSum(r, c)
           ul == OutputSum(l, c)
<1>3. /\ Holdings(r, c) = hr + ur /\ hr \in Nat /\ ur \in Nat
      /\ Holdings(l, c) = hl + ul /\ hl \in Nat /\ ul \in Nat
  BY <1>1, <1>2, HoldingsAre
<1>4. hr + PaidByBalance(b, op) = hl + Got(b, op)
  <2>1. CASE op.kind = "Register"
    <3>1. hr + Paid(b, op) = hl
      BY <2>1, RegisterBalances
    <3>2. PaidByBalance(b, op) = Paid(b, op) /\ Got(b, op) = 0
      BY <2>1 DEF PaidByBalance, Got
    <3>3. QED
      BY <1>3, <3>1, <3>2
  <2>2. CASE op.kind # "Register"
    BY <2>2, PaymentBalances
  <2>3. QED
    BY <2>1, <2>2
<1>5. Paid(b, op) \in Nat /\ Got(b, op) \in Nat
  BY PaidTyped
<1>6. /\ op.kind = "UtxoIn" => PaidByBalance(b, op) = 0 /\ Paid(b, op) = op.amount
      /\ op.kind # "UtxoIn" => PaidByBalance(b, op) = Paid(b, op)
  BY DEF PaidByBalance, Paid, Inputs
<1> HIDE DEF hr, hl, ur, ul
<1>7. hr + ur + Paid(b, op) = hl + ul + Got(b, op)
  <2>1. CASE op.kind = "UtxoIn"
    <3>1. ur + Paid(b, op) = ul /\ hr + 0 = hl + Got(b, op)
      BY <1>2, <1>4, <1>6, <2>1 DEF ur, ul
    <3>2. QED
      BY <1>3, <1>5, <3>1
  <2>2. CASE op.kind # "UtxoIn"
    <3>1. ur = ul /\ hr + Paid(b, op) = hl + Got(b, op)
      BY <1>2, <1>4, <1>6, <2>2 DEF ur, ul
    <3>2. QED
      BY <1>3, <1>5, <3>1
  <2>3. QED
    BY <2>1, <2>2
<1>8. QED
  BY <1>2, <1>3, <1>5, <1>7

-----------------------------------------------------------------------------
(* The account of a block: what its effects have paid and got so far. *)

FeesOf(b) == [i \in DOMAIN b.ops |-> FeeOf(EmptyLedger, b, b.ops[i])]
PaidOf(b) == [i \in DOMAIN b.ops |-> Paid(b, b.ops[i])]
GotOf(b)  == [i \in DOMAIN b.ops |-> Got(b, b.ops[i])]

LEMMA EntriesTyped ==
  ASSUME NEW b \in Universe, NEW ops, ops \subseteq DOMAIN b.ops, \A i \in ops : Payable(b.ops[i])
  PROVE  Summable(FeesOf(b), ops) /\ Summable(PaidOf(b), ops) /\ Summable(GotOf(b), ops)
<1>1. IsFiniteSet(ops)
  <2>1. DOMAIN b.ops = 1 .. Len(b.ops) /\ Len(b.ops) \in Int /\ 1 \in Int
    BY UniverseAssumption
  <2>2. IsFiniteSet(1 .. Len(b.ops))
    BY <2>1, FS_Interval
  <2>3. QED
    BY <2>1, <2>2, FS_Subset
<1>2. ASSUME NEW i \in ops
      PROVE  FeesOf(b)[i] \in Nat /\ PaidOf(b)[i] \in Nat /\ GotOf(b)[i] \in Nat
  <2>1. FeesOf(b)[i] = FeeOf(EmptyLedger, b, b.ops[i])
    BY <1>2 DEF FeesOf
  <2>2. FeeOf(EmptyLedger, b, b.ops[i]) \in Nat
    BY SurplusTyped, GateAssumption DEF FeeOf, Payable, ParsedEffect, Amount
  <2>3. PaidOf(b)[i] \in Nat /\ GotOf(b)[i] \in Nat
    BY PaidTyped DEF PaidOf, GotOf
  <2>4. QED
    BY <2>1, <2>2, <2>3
<1>3. QED
  BY <1>1, <1>2 DEF Summable

(* The ledger l has grown out of old by the effects ops of block b, whose    *)
(* fees are x; the creator is on the roster.                                 *)
Booked(l, c, b, old, ops, x) ==
  /\ l.watermark \in NodeSlot
  /\ b.seq # 0 => Seeded(l, b.creator)
  /\ x = SumOn(FeesOf(b), ops)
  /\ Holdings(l, c) + SumOn(PaidOf(b), ops) = Holdings(old, c) + SumOn(GotOf(b), ops)

LEMMA BookedFirst ==
  ASSUME NEW b \in Universe, NEW l \in LedgerState, l.watermark \in NodeSlot,
         b.seq # 0 => Seeded(l, b.creator), NEW c
  PROVE  Booked(l, c, b, l, {}, 0)
<1>1. \A f : SumOn(f, {}) = 0
  <2> SUFFICES ASSUME NEW f PROVE SumOn(f, {}) = 0
    OBVIOUS
  <2>1. Summable(f, {})
    BY FS_EmptySet DEF Summable
  <2>2. QED
    BY <2>1, SumOnAdd
<1>2. SumOn(FeesOf(b), {}) = 0 /\ SumOn(PaidOf(b), {}) = SumOn(GotOf(b), {})
  BY <1>1
<1>3. QED
  BY <1>2 DEF Booked

(* One effect more.                                                          *)
LEMMA BookedNext ==
  ASSUME NEW b \in Universe, NEW ops, ops \subseteq DOMAIN b.ops, \A j \in ops : Payable(b.ops[j]),
         NEW i \in DOMAIN b.ops, i \notin ops, Payable(b.ops[i]),
         NEW l \in LedgerState, NEW old \in LedgerState, NEW c, Counted(l, c), Counted(old, c),
         NEW x, Booked(l, c, b, old, ops, x), NEW o, NEW low,
         Admitted(l, Complete, b, b.ops[i], x, o, low, Amounts(l, c)), Ready(l, b, b.ops[i]),
         NEW r, r = Applied(l, b, b.ops[i])
  PROVE  Booked(r, c, b, old, ops \union {i}, x + FeeOf(l, b, b.ops[i]))
<1> DEFINE op == b.ops[i]
           now == ops \union {i}
<1>0. b.seq \in Nat
  BY UniverseAssumption
<1>1. Gives(r, l, b, op) \/ Sown(r, l, b, op)
  <2>1. Payable(op) /\ r = Applied(l, b, op)
    OBVIOUS
  <2> HIDE DEF op
  <2>2. CASE op.kind = "Register"
    BY <1>0, <2>1, <2>2, RegisterApplied
  <2>3. CASE op.kind # "Register"
    BY <2>1, <2>3, PaymentApplied
  <2>4. QED
    BY <2>2, <2>3
<1>2. r.watermark \in NodeSlot
  BY <1>1 DEF Booked, Gives, Sown
<1>3. b.seq # 0 => Seeded(r, b.creator)
  <2>1. CASE Gives(r, l, b, op)
    BY <2>1 DEF Booked, Gives, Seeded
  <2>2. CASE Sown(r, l, b, op)
    <3>1. Seeded(l, b.creator) => Seeded(r, b.creator)
      <4>1. b.creator \in NodeSlot => (Seeded(r, b.creator) <=> Seeded(l, b.creator) \/ b.creator = op.id)
        BY <1>0, <2>2, SeededSown
      <4>2. QED
        BY <4>1 DEF Seeded
    <3>2. QED
      BY <3>1 DEF Booked
  <2>3. QED
    BY <1>1, <2>1, <2>2
<1>4. \A j \in now : Payable(b.ops[j])
  OBVIOUS
<1>5. now \subseteq DOMAIN b.ops
  OBVIOUS
<1>6. Summable(FeesOf(b), now) /\ Summable(PaidOf(b), now) /\ Summable(GotOf(b), now)
  BY <1>4, <1>5, EntriesTyped
<1>7. /\ FeesOf(b)[i] = FeeOf(l, b, op) /\ PaidOf(b)[i] = Paid(b, op) /\ GotOf(b)[i] = Got(b, op)
      /\ Paid(b, op) \in Nat /\ Got(b, op) \in Nat
  BY PaidTyped DEF FeesOf, PaidOf, GotOf, FeeOf
<1>8. ops \in SUBSET now /\ i \in now \ ops
  OBVIOUS
<1> HIDE DEF now, op
<1>9. /\ SumOn(FeesOf(b), ops \union {i}) = SumOn(FeesOf(b), ops) + FeeOf(l, b, op)
      /\ SumOn(PaidOf(b), ops \union {i}) = SumOn(PaidOf(b), ops) + Paid(b, op)
      /\ SumOn(GotOf(b), ops \union {i}) = SumOn(GotOf(b), ops) + Got(b, op)
      /\ SumOn(PaidOf(b), ops) \in Nat /\ SumOn(GotOf(b), ops) \in Nat
  BY <1>6, <1>7, <1>8, SumOnAdd
<1>10. Holdings(r, c) + Paid(b, op) = Holdings(l, c) + Got(b, op) /\ Holdings(r, c) \in Nat
  BY <1>0, EffectValue DEF op
<1>11. Holdings(l, c) \in Nat /\ Holdings(old, c) \in Nat
  BY HoldingsAre
<1>12. /\ x = SumOn(FeesOf(b), ops)
       /\ Holdings(l, c) + SumOn(PaidOf(b), ops) = Holdings(old, c) + SumOn(GotOf(b), ops)
  BY DEF Booked
<1>13. Holdings(r, c) + (SumOn(PaidOf(b), ops) + Paid(b, op))
         = Holdings(old, c) + (SumOn(GotOf(b), ops) + Got(b, op))
  BY <1>7, <1>9, <1>10, <1>11, <1>12
<1>14. QED
  BY <1>2, <1>3, <1>9, <1>12, <1>13 DEF Booked, op

-----------------------------------------------------------------------------
(* The account along the behaviours. *)

ValueInv ==
  /\ base.watermark \in NodeSlot
  /\ phase = "Idle" => fees = 0
  /\ phase \in {"Apply", "Derived"} => Booked(led, chain, block, base, done, fees)

(* The bits of a call are those of its base or fewer.                        *)
LEMMA CallCounted ==
  ASSUME IInv, phase # "Idle"
  PROVE  Counted(led, chain) /\ Counted(base, chain)
<1>1. /\ WellFormed(chain, tail) /\ UnspentAt(chain, tail, base.unspent)
      /\ led.unspent \subseteq base.unspent
  BY DEF IInv, Called, Settled, SettledAt, Effects
<1>2. Counted(base, chain)
  BY <1>1, UnspentCounted DEF Counted
<1>3. Counted(led, chain)
  BY <1>1, <1>2, FS_Subset DEF Counted
<1>4. QED
  BY <1>2, <1>3

(* The first call after the genesis block finds node 0, and a creator has a  *)
(* key only on the roster.                                                   *)
LEMMA CreatorSeeded ==
  ASSUME NEW l \in LedgerState, Roster(l), l.watermark \in NodeSlot,
         NEW b, b.seq # 0, CreatorSigned(l, Complete, b)
  PROVE  Seeded(l, b.creator)
<1>1. CASE b.creator = 0
  <2>1. 0 <= l.watermark
    BY LedgerAssumption DEF NodeSlot
  <2>2. QED
    BY <1>1, <2>1, ZeroSlot DEF Roster
<1>2. CASE b.creator # 0
  <2>1. b.creator \in NodeSlot /\ l.key[b.creator] # NoKey
    BY <1>2 DEF CreatorSigned, CreatorKey, Complete
  <2>2. QED
    BY <2>1 DEF Roster, Blank
<1>3. QED
  BY <1>1, <1>2

LEMMA ValueBegins ==
  ASSUME IInv, TypeInv, RosterInv, ValueInv, NEW b \in Universe, Begin(b)
  PROVE  ValueInv'
<1>1. /\ phase = "Idle" /\ b.seq = Len(chain) /\ BlockAdmitted(led, Complete, b)
      /\ phase' = "Apply" /\ block' = b /\ base' = led
      /\ UNCHANGED <<led, chain, tail, done, fees, outs>>
  BY DEF Begin
<1>2. led = base /\ led \in LedgerState /\ done = {} /\ fees = 0 /\ led.watermark \in NodeSlot
  BY <1>1 DEF RosterInv, TypeInv, ValueInv, IInv
<1>3. b.seq # 0 => Seeded(led, b.creator)
  <2> SUFFICES ASSUME b.seq # 0 PROVE Seeded(led, b.creator)
    OBVIOUS
  <2>1. chain # <<>>
    BY <1>1
  <2>2. Roster(led)
    BY <1>2, <2>1 DEF RosterInv
  <2>3. CreatorSigned(led, Complete, b)
    BY <1>1 DEF BlockAdmitted
  <2>4. QED
    BY <1>2, <2>2, <2>3, CreatorSeeded
<1>4. Booked(led, chain, b, led, {}, 0)
  BY <1>2, <1>3, BookedFirst
<1>5. QED
  BY <1>1, <1>2, <1>4 DEF ValueInv

(* What an admitted effect finds: a roster without gaps, or node 0 as the    *)
(* genesis block is to build it.                                             *)
LEMMA EffectReady ==
  ASSUME GenesisForm, GenesisFunds, IInv, TypeInv, RosterInv, ValueInv,
         phase = "Apply", Position \in DOMAIN block.ops
  PROVE  Ready(led, block, block.ops[Position])
<1>1. /\ block \in Universe /\ Tier1Gate(block) /\ done \subseteq DOMAIN block.ops
      /\ led \in LedgerState /\ Standing(led, block, base, done, tail)
  BY CallFounded
<1>2. PICK k \in Nat : done = 1 .. k
  BY DEF IInv
<1>3. Position = k + 1 /\ Position \notin done
  BY <1>2, PositionNext
<1>4. DOMAIN block.ops = 1 .. Len(block.ops) /\ Len(block.ops) \in Nat
  BY <1>1, UniverseAssumption
<1> DEFINE i == Position
           op == block.ops[i]
<1>5. i \in DOMAIN block.ops /\ i \notin done /\ i = k + 1
  BY <1>3
<1> HIDE DEF i
<1>6. CASE block.seq # 0
  <2>1. Roster(led)
    BY <1>1, <1>6 DEF Standing, Traced, Summed
  <2>2. led.watermark \in NodeSlot
    BY DEF ValueInv, Booked
  <2>3. QED
    BY <1>6, <2>1, <2>2 DEF Ready
<1>7. CASE block.seq = 0
  <2>1. PICK j \in DOMAIN block.ops : Registrations(block) = {j} /\ block.ops[j].id = 0
    BY <1>1, <1>7 DEF GenesisForm
  <2>2. op.kind \in {"Transfer", "Register"}
    BY <1>1, <1>5, <2>1, WholeTransactions
  <2>3. Sprouting(led) /\ (Seeded(led, 0) <=> done \intersect Registrations(block) # {})
    BY <1>1, <1>7 DEF Standing, Sprouted
  <2>4. ASSUME op.kind = "Transfer" PROVE Seeded(led, op.to)
    <3>1. i \in OpsOf(block, {"Transfer"})
      BY <1>5, <2>4 DEF OpsOf
    <3>2. op.to = 0 /\ j < i
      BY <1>1, <1>7, <2>1, <3>1 DEF GenesisFunds
    <3>3. j \in done
      BY <1>2, <1>4, <1>5, <2>1, <3>2
    <3>4. QED
      BY <2>1, <2>3, <3>2, <3>3
  <2>5. ASSUME op.kind = "Register" PROVE op.id \in NodeSlot /\ Blank(led, op.id)
    <3>1. i \in Registrations(block)
      BY <1>5, <2>5 DEF Registrations, OpsOf
    <3>2. i = j /\ op.id = 0
      BY <2>1, <3>1
    <3>3. ~Seeded(led, 0)
      BY <1>5, <2>1, <2>3, <3>2
    <3>4. QED
      BY <2>3, <3>2, <3>3, ZeroSlot DEF Sprouting
  <2>6. QED
    BY <1>7, <2>2, <2>4, <2>5 DEF Ready, i
<1>8. QED
  BY <1>6, <1>7 DEF i

LEMMA ValueApplies ==
  ASSUME GenesisForm, GenesisFunds, IInv, TypeInv, RosterInv, ValueInv, Apply
  PROVE  ValueInv'
<1>1. /\ phase = "Apply" /\ Position \in DOMAIN block.ops
      /\ Admitted(led, Complete, block, Current, fees, outs, tail, Amounts(led, chain))
      /\ led' = Applied(led, block, Current) /\ done' = done \union {Position}
      /\ fees' = fees + FeeOf(led, block, Current)
      /\ UNCHANGED <<chain, tail, phase, block, base>>
  BY DEF Apply, CurrentAdmitted
<1>2. /\ block \in Universe /\ Tier1Gate(block) /\ done \subseteq DOMAIN block.ops
      /\ led \in LedgerState /\ base \in LedgerState
  BY <1>1, CallFounded
<1>3. Position \notin done
  <2>1. PICK k \in Nat : done = 1 .. k
    BY <1>1 DEF IInv
  <2>2. QED
    BY <2>1, PositionNext
<1>4. Ready(led, block, block.ops[Position])
  BY <1>1, EffectReady
<1>5. Payable(block.ops[Position]) /\ \A j \in done : Payable(block.ops[j])
  BY <1>1, <1>2, AdmittedPayable DEF TypeInv, Current
<1>6. Counted(led, chain) /\ Counted(base, chain)
  BY <1>1, CallCounted
<1>7. Booked(led, chain, block, base, done, fees)
  BY <1>1 DEF ValueInv
<1> DEFINE i == Position
<1>8. /\ i \in DOMAIN block.ops /\ i \notin done /\ Payable(block.ops[i])
      /\ Admitted(led, Complete, block, block.ops[i], fees, outs, tail, Amounts(led, chain))
      /\ Ready(led, block, block.ops[i]) /\ led' = Applied(led, block, block.ops[i])
      /\ done' = done \union {i} /\ fees' = fees + FeeOf(led, block, block.ops[i])
  BY <1>1, <1>3, <1>4, <1>5 DEF Current
<1> HIDE DEF i
<1>9. Booked(led', chain, block, base, done \union {i}, fees + FeeOf(led, block, block.ops[i]))
  BY <1>2, <1>5, <1>6, <1>7, <1>8, BookedNext
<1>10. QED
  BY <1>1, <1>8, <1>9 DEF ValueInv

LEMMA ValueNext ==
  ASSUME GenesisForm, GenesisFunds
  PROVE  IInv /\ TypeInv /\ RosterInv /\ ValueInv /\ [Next]_vars => ValueInv'
<1> SUFFICES ASSUME IInv, TypeInv, RosterInv, ValueInv, [Next]_vars PROVE ValueInv'
  OBVIOUS
<1>1. CASE \E b \in Universe : Begin(b)
  BY <1>1, ValueBegins
<1>2. CASE Apply
  BY <1>2, ValueApplies
<1>3. CASE Refuse \/ RefuseEnd \/ SaveFails \/ VotesRefuse
  BY <1>3 DEF Refuse, RefuseEnd, SaveFails, VotesRefuse, Fail, ValueInv
<1>4. CASE Derive
  BY <1>4 DEF Derive, ValueInv
<1>5. CASE Commit
  <2>1. /\ phase = "Derived" /\ base' = led' /\ phase' = "Idle" /\ fees' = 0
        /\ led' = IF Full THEN TailReleased(Committed(led, block, fees), tail)
                  ELSE Committed(led, block, fees)
    BY <1>5 DEF Commit, Finish
  <2>2. led \in LedgerState /\ block \in Universe /\ fees \in Amount /\ EndAdmitted(led, block, fees)
    BY <2>1 DEF TypeInv, IInv, Called
  <2>3. led'.watermark = led.watermark
    <3>1. \A l : TailReleased(l, tail).watermark = l.watermark
      BY DEF TailReleased
    <3>2. CreditSeeded(led, block.creator, block.mined + fees).watermark = led.watermark
      BY <2>2 DEF CreditSeeded, Credit, LedgerState
    <3>3. Committed(led, block, fees).watermark = led.watermark
      BY <2>2, <3>2 DEF Committed
    <3>4. QED
      BY <2>1, <3>1, <3>3
  <2>4. QED
    BY <2>1, <2>3 DEF ValueInv, Booked
<1>6. CASE Undo
  BY <1>6 DEF Undo, ValueInv
<1>7. CASE Abandon
  BY <1>7 DEF Abandon, Finish, ValueInv
<1>8. CASE UNCHANGED vars
  BY <1>8 DEF vars, call, ValueInv
<1>9. QED
  BY <1>1, <1>2, <1>3, <1>4, <1>5, <1>6, <1>7, <1>8 DEF Next

LEMMA ValueAlways == GenesisForm /\ GenesisFunds => (Spec => []ValueInv)
<1> SUFFICES ASSUME GenesisForm, GenesisFunds PROVE Spec => []ValueInv
  OBVIOUS
<1>1. Init => ValueInv
  BY ZeroSlot DEF Init, ValueInv, EmptyLedger
<1>2. IInv /\ TypeInv /\ RosterInv /\ ValueInv /\ [Next]_vars => ValueInv'
  BY ValueNext
<1>3. Spec => []RosterInv
  BY RosterAlways
<1>4. QED
  BY <1>1, <1>2, <1>3, InductiveInvariant, TypeInit, TypeNext, PTL DEF Spec

-----------------------------------------------------------------------------
(* The complex transactions of a block: outputs and fees are what was put in *)
(* or carried forward.                                                       *)

AmountsOf(b) == [i \in DOMAIN b.ops |-> b.ops[i].amount]
TotalsOf(b, kinds) == [tx \in ComplexTxs(b) |-> Total(b, tx, kinds)]
SurplusOf(b) == [tx \in ComplexTxs(b) |-> Surplus(b, tx)]

LEMMA AmountsSummable ==
  ASSUME NEW b \in Universe, NEW kinds, kinds \subseteq Inputs \union Outputs
  PROVE  Summable(AmountsOf(b), OpsOf(b, kinds))
<1>1. ASSUME NEW i \in OpsOf(b, kinds) PROVE AmountsOf(b)[i] \in Nat
  <2>1. i \in DOMAIN b.ops /\ b.ops[i].kind \in Inputs \union Outputs /\ ParsedEffect(b.ops[i])
    BY ParsedAssumption DEF OpsOf
  <2>2. QED
    BY <2>1, GateAssumption DEF AmountsOf, ParsedEffect, Amount, Inputs, Outputs
<1>2. QED
  BY <1>1, OpsFinite DEF Summable

LEMMA TotalIs ==
  ASSUME NEW b \in Universe, NEW tx, NEW kinds, kinds \in {Inputs, Outputs}
  PROVE  Total(b, tx, kinds) = SumOn(AmountsOf(b), Side(b, tx, kinds))
<1> DEFINE S == Side(b, tx, kinds)
           f == [i \in S |-> b.ops[i].amount]
<1>1. /\ IsFiniteSet(S) /\ f \in [S -> Nat]
      /\ \A F : Sums(F, S, f) => Total(b, tx, kinds) = F[S]
  BY TotalSums
<1>2. S \subseteq DOMAIN b.ops
  BY DEF Side, OpsOf
<1>3. On(AmountsOf(b), S) = f /\ Summable(AmountsOf(b), S)
  BY <1>1, <1>2 DEF On, Summable, AmountsOf
<1> HIDE DEF S, f
<1>4. PICK F : Sums(F, S, f)
  BY <1>1, SumsExist
<1>5. SumOn(AmountsOf(b), S) = F[S]
  BY <1>3, <1>4, SumOnIs
<1>6. QED
  BY <1>1, <1>4, <1>5 DEF S

LEMMA TransactionsFinite ==
  ASSUME NEW b \in Universe
  PROVE  /\ IsFiniteSet(ComplexTxs(b))
         /\ \A i \in OpsOf(b, Complex) : b.ops[i].tx \in ComplexTxs(b)
         /\ \A i, j \in OpsOf(b, {"Close"}) : b.ops[i].tx = b.ops[j].tx => i = j
<1>1. EachClosed(b)
  BY ParsedAssumption
<1>2. \A i \in OpsOf(b, Complex) : b.ops[i].tx \in ComplexTxs(b)
  BY <1>1 DEF EachClosed, ComplexTxs
<1>3. ASSUME NEW i \in OpsOf(b, {"Close"}), NEW j \in OpsOf(b, {"Close"}), b.ops[i].tx = b.ops[j].tx
      PROVE  i = j
  <2>1. i \in OpsOf(b, Complex)
    BY DEF OpsOf, Complex
  <2>2. PICK m \in OpsOf(b, {"Close"}) : \A k \in OpsOf(b, {"Close"}) : b.ops[k].tx = b.ops[i].tx <=> k = m
    BY <1>1, <2>1 DEF EachClosed
  <2>3. QED
    BY <1>3, <2>2
<1>4. IsFiniteSet(ComplexTxs(b))
  <2>1. Len(b.ops) \in Int /\ 1 \in Int
    BY OpsFinite
  <2>2. IsFiniteSet(1 .. Len(b.ops))
    BY <2>1, FS_Interval
  <2>3. ComplexTxs(b) \subseteq 1 .. Len(b.ops)
    BY UniverseAssumption DEF ComplexTxs, OpsOf
  <2>4. QED
    BY <2>2, <2>3, FS_Subset
<1>5. QED
  BY <1>2, <1>3, <1>4

LEMMA SideTotals ==
  ASSUME NEW b \in Universe, NEW kinds, kinds \in {Inputs, Outputs}
  PROVE  /\ Summable(TotalsOf(b, kinds), ComplexTxs(b))
         /\ SumOn(TotalsOf(b, kinds), ComplexTxs(b)) = SumOn(AmountsOf(b), OpsOf(b, kinds))
<1> DEFINE S == OpsOf(b, kinds)
           T == ComplexTxs(b)
           m == [i \in S |-> b.ops[i].tx]
           g == TotalsOf(b, kinds)
           f == AmountsOf(b)
<1>1. Summable(f, S)
  BY AmountsSummable
<1>2. IsFiniteSet(T) /\ \A x \in S : m[x] \in T
  <2>1. S \subseteq OpsOf(b, Complex)
    BY DEF OpsOf, Complex
  <2>2. QED
    BY <2>1, TransactionsFinite
<1>3. \A t \in T : g[t] = SumOn(f, {x \in S : m[x] = t})
  <2> SUFFICES ASSUME NEW t \in T PROVE g[t] = SumOn(f, {x \in S : m[x] = t})
    OBVIOUS
  <2>1. {x \in S : m[x] = t} = Side(b, t, kinds)
    BY DEF Side
  <2>2. g[t] = Total(b, t, kinds)
    BY DEF TotalsOf
  <2>3. QED
    BY <2>1, <2>2, TotalIs
<1> HIDE DEF S, T, m, g, f
<1>4. Groups(g, f, S, m, T)
  BY <1>1, <1>2, <1>3 DEF Groups
<1>5. Summable(g, T) /\ SumOn(g, T) = SumOn(f, S)
  BY <1>4, SumOnGroups
<1>6. QED
  BY <1>5 DEF S, T, g, f

LEMMA SurplusTotals ==
  ASSUME NEW b \in Universe, NEW f, \A i \in OpsOf(b, {"Close"}) : f[i] = Surplus(b, b.ops[i].tx)
  PROVE  /\ Summable(SurplusOf(b), ComplexTxs(b))
         /\ SumOn(SurplusOf(b), ComplexTxs(b)) = SumOn(f, OpsOf(b, {"Close"}))
<1> DEFINE S == OpsOf(b, {"Close"})
           T == ComplexTxs(b)
           m == [i \in S |-> b.ops[i].tx]
           g == SurplusOf(b)
<1>1. Summable(f, S)
  BY OpsFinite, SurplusTyped DEF Summable
<1>2. \A x, y \in S : m[x] = m[y] => x = y
  BY TransactionsFinite
<1>3. T = {m[x] : x \in S}
  BY DEF ComplexTxs
<1>4. \A x \in S : g[m[x]] = f[x]
  BY DEF SurplusOf, ComplexTxs
<1> HIDE DEF S, T, m, g
<1>5. Summable(g, T) /\ SumOn(g, T) = SumOn(f, S)
  BY <1>1, <1>2, <1>3, <1>4, SumOnRenamed
<1>6. QED
  BY <1>5 DEF S, T, g

(* A transaction's outputs and its fee are its inputs, or all carried        *)
(* forward.                                                                  *)
CarriedOf(b) ==
  [tx \in ComplexTxs(b) |-> IF CarryForward(b, tx) THEN Total(b, tx, Outputs) ELSE 0]

LEMMA TransactionBalance ==
  ASSUME NEW b \in Universe, Tier1Gate(b), NEW tx \in ComplexTxs(b)
  PROVE  Total(b, tx, Outputs) + Surplus(b, tx) = Total(b, tx, Inputs) + CarriedOf(b)[tx]
<1>1. Total(b, tx, Inputs) \in Nat /\ Total(b, tx, Outputs) \in Nat
  BY SurplusTyped
<1>2. CarriedOf(b)[tx] = IF CarryForward(b, tx) THEN Total(b, tx, Outputs) ELSE 0
  BY DEF CarriedOf
<1>3. ComplexGate(b, tx)
  <2>1. b.kind = "Transactions"
    BY UniverseAssumption DEF ComplexTxs, OpsOf
  <2>2. QED
    BY <2>1 DEF Tier1Gate, TransactionGate
<1>4. CASE CarryForward(b, tx)
  <2>1. Total(b, tx, Inputs) = SumOn(AmountsOf(b), {})
    BY <1>4, TotalIs DEF CarryForward
  <2>2. SumOn(AmountsOf(b), {}) = 0
    BY AmountsSummable, SumOnAdd
  <2>3. Surplus(b, tx) = 0
    BY <1>4 DEF Surplus
  <2>4. QED
    BY <1>1, <1>2, <1>4, <2>1, <2>2, <2>3
<1>5. CASE ~CarryForward(b, tx)
  <2>1. Total(b, tx, Inputs) >= Total(b, tx, Outputs)
    BY <1>3, <1>5 DEF ComplexGate
  <2>2. Surplus(b, tx) = Total(b, tx, Inputs) - Total(b, tx, Outputs)
    BY <1>1, <1>5, <2>1 DEF Surplus
  <2>3. QED
    BY <1>1, <1>2, <1>5, <2>2
<1>6. QED
  BY <1>4, <1>5

LEMMA CarriedIs ==
  ASSUME NEW b \in Universe
  PROVE  /\ Summable(CarriedOf(b), ComplexTxs(b))
         /\ CarriedForward(b) = SumOn(CarriedOf(b), ComplexTxs(b))
<1> DEFINE T == ComplexTxs(b)
           A == {t \in T : CarryForward(b, t)}
           f == [tx \in A |-> Total(b, tx, Outputs)]
           g == CarriedOf(b)
<1>1. IsFiniteSet(T) /\ A \in SUBSET T
  BY TransactionsFinite
<1>2. \A x \in A : f[x] \in Nat
  BY SurplusTyped
<1>3. \A x \in T : g[x] = IF x \in A THEN f[x] ELSE 0
  BY DEF CarriedOf
<1>4. CarriedForward(b) = SumOn(f, A)
  BY DEF CarriedForward, SumFunction, SumOn
<1> HIDE DEF T, A, f, g
<1>5. Summable(g, T) /\ SumOn(g, T) = SumOn(f, A)
  BY <1>1, <1>2, <1>3, SumOnWhere
<1>6. QED
  BY <1>4, <1>5 DEF T, g

LEMMA TransactionsBalance ==
  ASSUME NEW b \in Universe, Tier1Gate(b)
  PROVE  /\ SumOn(AmountsOf(b), OpsOf(b, Outputs)) + SumOn(SurplusOf(b), ComplexTxs(b))
              = SumOn(AmountsOf(b), OpsOf(b, Inputs)) + CarriedForward(b)
         /\ SumOn(AmountsOf(b), OpsOf(b, Outputs)) \in Nat
         /\ SumOn(AmountsOf(b), OpsOf(b, Inputs)) \in Nat
         /\ SumOn(SurplusOf(b), ComplexTxs(b)) \in Nat /\ CarriedForward(b) \in Nat
<1> DEFINE T == ComplexTxs(b)
           i == TotalsOf(b, Inputs)
           o == TotalsOf(b, Outputs)
           s == SurplusOf(b)
           c == CarriedOf(b)
           both == [tx \in T |-> o[tx] + s[tx]]
<1>1. /\ Summable(i, T) /\ SumOn(i, T) = SumOn(AmountsOf(b), OpsOf(b, Inputs))
      /\ Summable(o, T) /\ SumOn(o, T) = SumOn(AmountsOf(b), OpsOf(b, Outputs))
  BY SideTotals
<1>2. Summable(s, T)
  <2> DEFINE f == [j \in OpsOf(b, {"Close"}) |-> Surplus(b, b.ops[j].tx)]
  <2>1. \A j \in OpsOf(b, {"Close"}) : f[j] = Surplus(b, b.ops[j].tx)
    OBVIOUS
  <2> HIDE DEF f
  <2>2. QED
    BY <2>1, SurplusTotals
<1>3. Summable(c, T) /\ CarriedForward(b) = SumOn(c, T)
  BY CarriedIs
<1>4. /\ \A x \in T : both[x] = o[x] + s[x]
      /\ \A x \in T : both[x] = i[x] + c[x]
  <2> SUFFICES ASSUME NEW x \in T PROVE both[x] = o[x] + s[x] /\ both[x] = i[x] + c[x]
    OBVIOUS
  <2>1. o[x] = Total(b, x, Outputs) /\ i[x] = Total(b, x, Inputs) /\ s[x] = Surplus(b, x)
    BY DEF TotalsOf, SurplusOf
  <2>2. o[x] + s[x] = i[x] + c[x]
    BY <2>1, TransactionBalance
  <2>3. QED
    BY <2>2
<1> HIDE DEF T, i, o, s, c, both
<1>5. SumOn(both, T) = SumOn(o, T) + SumOn(s, T)
  BY <1>1, <1>2, <1>4, SumOnPlus
<1>6. SumOn(both, T) = SumOn(i, T) + SumOn(c, T)
  BY <1>1, <1>3, <1>4, SumOnPlus
<1>7. /\ SumOn(o, T) \in Nat /\ SumOn(s, T) \in Nat
      /\ SumOn(i, T) \in Nat /\ SumOn(c, T) \in Nat
  BY <1>1, <1>2, <1>3, SumOnAdd
<1>8. QED
  BY <1>1, <1>3, <1>5, <1>6, <1>7 DEF T, s

-----------------------------------------------------------------------------
(* The account of a whole block. *)

(* f on the effects of these kinds.                                          *)
Portion(b, kinds, f) == [i \in DOMAIN b.ops |-> IF b.ops[i].kind \in kinds THEN f[i] ELSE 0]

LEMMA PortionSum ==
  ASSUME NEW b \in Universe, NEW kinds, NEW f, \A i \in OpsOf(b, kinds) : f[i] \in Nat
  PROVE  /\ Summable(Portion(b, kinds, f), DOMAIN b.ops)
         /\ Summable(f, OpsOf(b, kinds))
         /\ SumOn(Portion(b, kinds, f), DOMAIN b.ops) = SumOn(f, OpsOf(b, kinds))
<1> DEFINE D == DOMAIN b.ops
           A == OpsOf(b, kinds)
           g == Portion(b, kinds, f)
<1>1. IsFiniteSet(D)
  <2>1. D = 1 .. Len(b.ops) /\ Len(b.ops) \in Int /\ 1 \in Int
    BY UniverseAssumption
  <2>2. QED
    BY <2>1, FS_Interval
<1>2. A \in SUBSET D /\ \A x \in D : g[x] = IF x \in A THEN f[x] ELSE 0
  BY DEF OpsOf, Portion
<1>3. \A x \in A : f[x] \in Nat
  OBVIOUS
<1> HIDE DEF D, A, g
<1>4. Summable(f, A) /\ Summable(g, D) /\ SumOn(g, D) = SumOn(f, A)
  BY <1>1, <1>2, <1>3, SumOnWhere
<1>5. QED
  BY <1>4 DEF D, A, g

Prices(b) == [i \in DOMAIN b.ops |-> b.ops[i].price]
FlatFees(b) == [i \in DOMAIN b.ops |-> b.ops[i].fee]
CloseFees(b) == [i \in DOMAIN b.ops |-> Surplus(b, b.ops[i].tx)]

Whole == {"Transfer", "Register"}

(* After the genesis block a block's fees are those of its transfers and     *)
(* registrations, and what its complex transactions leave.                   *)
LEMMA FeesSplit ==
  ASSUME NEW b \in Universe, b.seq # 0
  PROVE  /\ SumOn(FeesOf(b), DOMAIN b.ops)
              = SumOn(FlatFees(b), OpsOf(b, Whole)) + SumOn(SurplusOf(b), ComplexTxs(b))
         /\ SumOn(FlatFees(b), OpsOf(b, Whole)) \in Nat
<1> DEFINE D == DOMAIN b.ops
           f == Portion(b, Whole, FlatFees(b))
           g == Portion(b, {"Close"}, CloseFees(b))
           h == FeesOf(b)
<1>1. \A i \in OpsOf(b, Whole) : FlatFees(b)[i] \in Nat
  BY ParsedAssumption, GateAssumption DEF OpsOf, Whole, FlatFees, ParsedEffect, Amount
<1>2. \A i \in OpsOf(b, {"Close"}) : CloseFees(b)[i] \in Nat
  BY SurplusTyped DEF OpsOf, CloseFees
<1>3. /\ Summable(f, D) /\ SumOn(f, D) = SumOn(FlatFees(b), OpsOf(b, Whole))
      /\ Summable(FlatFees(b), OpsOf(b, Whole))
  BY <1>1, PortionSum
<1>4. Summable(g, D) /\ SumOn(g, D) = SumOn(CloseFees(b), OpsOf(b, {"Close"}))
  BY <1>2, PortionSum
<1>5. SumOn(SurplusOf(b), ComplexTxs(b)) = SumOn(CloseFees(b), OpsOf(b, {"Close"}))
  <2>1. \A i \in OpsOf(b, {"Close"}) : CloseFees(b)[i] = Surplus(b, b.ops[i].tx)
    BY DEF OpsOf, CloseFees
  <2>2. QED
    BY <2>1, SurplusTotals
<1>6. \A i \in D : h[i] = f[i] + g[i]
  <2> SUFFICES ASSUME NEW i \in D PROVE h[i] = f[i] + g[i]
    OBVIOUS
  <2> DEFINE op == b.ops[i]
  <2>1. /\ op.kind \in {"Transfer", "Register"} \union Complex
        /\ op.kind \in {"Transfer", "Register"} => op.fee \in Nat
        /\ Surplus(b, op.tx) \in Nat
    BY UniverseAssumption, ParsedAssumption, SurplusTyped, GateAssumption DEF ParsedEffect, Amount
  <2>2. /\ h[i] = FeeOf(EmptyLedger, b, op)
        /\ f[i] = IF op.kind \in Whole THEN op.fee ELSE 0
        /\ g[i] = IF op.kind \in {"Close"} THEN Surplus(b, op.tx) ELSE 0
    BY DEF FeesOf, Portion, FlatFees, CloseFees
  <2> HIDE DEF op
  <2>3. QED
    BY <2>1, <2>2 DEF FeeOf, Whole
<1> HIDE DEF D, f, g, h
<1>7. SumOn(h, D) = SumOn(f, D) + SumOn(g, D)
  BY <1>3, <1>4, <1>6, SumOnPlus
<1>8. SumOn(FlatFees(b), OpsOf(b, Whole)) \in Nat
  BY <1>3, SumOnAdd
<1>9. QED
  BY <1>3, <1>4, <1>5, <1>7, <1>8 DEF D, h

(* What its effects pay: prices, flat fees and inputs.                       *)
LEMMA PaidSplit ==
  ASSUME NEW b \in Universe, b.seq # 0
  PROVE  /\ SumOn(PaidOf(b), DOMAIN b.ops)
              = SumOn(Prices(b), OpsOf(b, {"Register"})) + SumOn(FlatFees(b), OpsOf(b, Whole))
                  + SumOn(AmountsOf(b), OpsOf(b, Inputs))
         /\ SumOn(Prices(b), OpsOf(b, {"Register"})) \in Nat
<1> DEFINE D == DOMAIN b.ops
           e == Portion(b, {"Register"}, Prices(b))
           f == Portion(b, Whole, FlatFees(b))
           g == Portion(b, Inputs, AmountsOf(b))
           ef == [i \in D |-> e[i] + f[i]]
           h == PaidOf(b)
<1>1. \A i \in OpsOf(b, {"Register"}) : Prices(b)[i] \in Nat
  BY ParsedAssumption, GateAssumption DEF OpsOf, Prices, ParsedEffect, Amount
<1>2. \A i \in OpsOf(b, Whole) : FlatFees(b)[i] \in Nat
  BY ParsedAssumption, GateAssumption DEF OpsOf, Whole, FlatFees, ParsedEffect, Amount
<1>3. \A i \in OpsOf(b, Inputs) : AmountsOf(b)[i] \in Nat
  BY AmountsSummable DEF Summable
<1>4. /\ Summable(e, D) /\ SumOn(e, D) = SumOn(Prices(b), OpsOf(b, {"Register"}))
      /\ Summable(Prices(b), OpsOf(b, {"Register"}))
  BY <1>1, PortionSum
<1>5. Summable(f, D) /\ SumOn(f, D) = SumOn(FlatFees(b), OpsOf(b, Whole))
  BY <1>2, PortionSum
<1>6. Summable(g, D) /\ SumOn(g, D) = SumOn(AmountsOf(b), OpsOf(b, Inputs))
  BY <1>3, PortionSum
<1>7. \A i \in D : ef[i] = e[i] + f[i]
  OBVIOUS
<1>8. \A i \in D : h[i] = ef[i] + g[i]
  <2> SUFFICES ASSUME NEW i \in D PROVE h[i] = e[i] + f[i] + g[i]
    OBVIOUS
  <2> DEFINE op == b.ops[i]
  <2>1. /\ op.kind \in {"Transfer", "Register"} \union Complex
        /\ op.kind \in {"Transfer", "Register"} => op.fee \in Nat
        /\ op.kind = "Register" => op.price \in Nat
        /\ op.kind \in Inputs => op.amount \in Nat
    BY UniverseAssumption, ParsedAssumption, GateAssumption DEF ParsedEffect, Amount, Inputs
  <2>2. /\ h[i] = Paid(b, op)
        /\ e[i] = IF op.kind \in {"Register"} THEN op.price ELSE 0
        /\ f[i] = IF op.kind \in Whole THEN op.fee ELSE 0
        /\ g[i] = IF op.kind \in Inputs THEN op.amount ELSE 0
    BY DEF PaidOf, Portion, FlatFees, Prices, AmountsOf
  <2> HIDE DEF op
  <2>3. QED
    BY <2>1, <2>2 DEF Paid, Whole, Inputs
<1> HIDE DEF D, e, f, g, ef, h
<1>9. Summable(ef, D) /\ SumOn(ef, D) = SumOn(e, D) + SumOn(f, D)
  BY <1>4, <1>5, <1>7, SumOnPlus
<1>10. SumOn(h, D) = SumOn(ef, D) + SumOn(g, D)
  BY <1>6, <1>8, <1>9, SumOnPlus
<1>11. SumOn(Prices(b), OpsOf(b, {"Register"})) \in Nat
  BY <1>4, SumOnAdd
<1>12. QED
  BY <1>4, <1>5, <1>6, <1>9, <1>10, <1>11 DEF D, h

(* What they get goes to balances; the other outputs are set as bits.        *)
LEMMA GotSplit ==
  ASSUME NEW b \in Universe, b.seq # 0
  PROVE  /\ SumOn(GotOf(b), DOMAIN b.ops) + SumOn(AmountsOf(b), OutputOps(b))
              = SumOn(AmountsOf(b), OpsOf(b, Outputs))
         /\ SumOn(GotOf(b), DOMAIN b.ops) \in Nat /\ SumOn(AmountsOf(b), OutputOps(b)) \in Nat
<1> DEFINE D == DOMAIN b.ops
           f == AmountsOf(b)
           A == OpsOf(b, {"BalanceOut"})
           B == OutputOps(b)
           S == OpsOf(b, Outputs)
           h == GotOf(b)
<1>1. Summable(f, S)
  BY AmountsSummable
<1>2. A \in SUBSET S /\ B \in SUBSET S /\ A \intersect B = {} /\ A \union B = S
  BY DEF OutputOps, OpsOf, Outputs
<1>3. SumOn(h, D) = SumOn(f, A)
  <2>1. \A i \in A : f[i] \in Nat
    BY <1>1, <1>2 DEF Summable
  <2>2. IsFiniteSet(D)
    <3>1. D = 1 .. Len(b.ops) /\ Len(b.ops) \in Int /\ 1 \in Int
      BY UniverseAssumption
    <3>2. QED
      BY <3>1, FS_Interval
  <2>3. A \in SUBSET D /\ \A i \in D : h[i] = IF i \in A THEN f[i] ELSE 0
    BY DEF OpsOf, GotOf, Got, AmountsOf
  <2> HIDE DEF D, f, A, h
  <2>4. QED
    BY <2>1, <2>2, <2>3, SumOnWhere
<1> HIDE DEF D, f, A, B, S, h
<1>4. SumOn(f, A) \in Nat /\ SumOn(f, B) \in Nat
  BY <1>1, <1>2, SumOnAdd
<1>5. SumOn(f, S) = SumOn(f, A) + SumOn(f, B)
  BY <1>1, <1>2, SumOnSplit
<1>6. QED
  BY <1>3, <1>4, <1>5 DEF D, f, B, S, h

LEMMA FunctionSum ==
  ASSUME NEW S, NEW f, Summable(f, S)
  PROVE  SumFunction(On(f, S)) = SumOn(f, S)
<1>1. DOMAIN On(f, S) = S /\ \A x \in S : On(f, S)[x] = f[x]
  BY DEF On
<1>2. SumOn(On(f, S), S) = SumOn(f, S)
  BY <1>1, SumOnSame
<1>3. QED
  BY <1>1, <1>2 DEF SumFunction, SumOn

LEMMA DestroyedIs ==
  ASSUME NEW b \in Universe, b.seq # 0
  PROVE  Destroyed(b) = SumOn(Prices(b), OpsOf(b, {"Register"}))
                          + IF b.seq = 1 THEN SumOn(FeesOf(b), DOMAIN b.ops) ELSE 0
<1> DEFINE R == OpsOf(b, {"Register"})
           F == OpsOf(b, {"Transfer", "Register"})
           T == ComplexTxs(b)
<1>1. /\ [i \in R |-> b.ops[i].price] = On(Prices(b), R)
      /\ [i \in F |-> b.ops[i].fee] = On(FlatFees(b), F)
      /\ [tx \in T |-> Surplus(b, tx)] = On(SurplusOf(b), T)
  BY DEF On, Prices, FlatFees, SurplusOf, OpsOf
<1>2. Summable(Prices(b), R)
  <2>1. \A i \in R : Prices(b)[i] \in Nat
    BY ParsedAssumption, GateAssumption DEF OpsOf, Prices, ParsedEffect, Amount
  <2>2. QED
    BY <2>1, OpsFinite DEF Summable
<1>3. Summable(FlatFees(b), F)
  <2>1. \A i \in F : FlatFees(b)[i] \in Nat
    BY ParsedAssumption, GateAssumption DEF OpsOf, FlatFees, ParsedEffect, Amount
  <2>2. QED
    BY <2>1, OpsFinite DEF Summable
<1>4. Summable(SurplusOf(b), T)
  <2>1. \A tx \in T : SurplusOf(b)[tx] \in Nat
    BY SurplusTyped DEF SurplusOf
  <2>2. QED
    BY <2>1, TransactionsFinite DEF Summable
<1>5. /\ SumFunction([i \in R |-> b.ops[i].price]) = SumOn(Prices(b), R)
      /\ SumFunction([i \in F |-> b.ops[i].fee]) = SumOn(FlatFees(b), F)
      /\ SumFunction([tx \in T |-> Surplus(b, tx)]) = SumOn(SurplusOf(b), T)
  BY <1>1, <1>2, <1>3, <1>4, FunctionSum
<1>6. SumOn(FeesOf(b), DOMAIN b.ops) = SumOn(FlatFees(b), F) + SumOn(SurplusOf(b), T)
  BY FeesSplit DEF Whole
<1>7. Destroyed(b) = SumFunction([i \in R |-> b.ops[i].price])
                       + IF b.seq # 1 THEN 0
                         ELSE SumFunction([i \in F |-> b.ops[i].fee])
                                + SumFunction([tx \in T |-> Surplus(b, tx)])
  BY DEF Destroyed
<1> HIDE DEF R, F, T
<1>8. QED
  BY <1>5, <1>6, <1>7 DEF R

(* The genesis block holds transfers and its registration only.              *)
LEMMA GenesisAccount ==
  ASSUME GenesisForm, NEW b \in Universe, Tier1Gate(b), b.seq = 0
  PROVE  /\ SumOn(PaidOf(b), DOMAIN b.ops) = 0
         /\ SumOn(AmountsOf(b), OutputOps(b)) = 0
         /\ Created(b) = SumOn(GotOf(b), DOMAIN b.ops) /\ Created(b) \in Nat
         /\ Destroyed(b) = 0
<1> DEFINE D == DOMAIN b.ops
           A == OpsOf(b, {"Transfer"})
           f == AmountsOf(b)
<1>1. \A i \in D : b.ops[i].kind \in {"Transfer", "Register"}
  BY WholeTransactions DEF GenesisForm
<1>2. IsFiniteSet(D)
  <2>1. D = 1 .. Len(b.ops) /\ Len(b.ops) \in Int /\ 1 \in Int
    BY UniverseAssumption
  <2>2. QED
    BY <2>1, FS_Interval
<1>3. SumOn(PaidOf(b), D) = 0
  <2>1. \A i \in D : PaidOf(b)[i] = 0
    BY <1>1 DEF PaidOf, Paid, Inputs
  <2> HIDE DEF D
  <2>2. QED
    BY <1>2, <2>1, SumOnZero
<1>4. OutputOps(b) = {} /\ ComplexTxs(b) = {}
  BY <1>1 DEF OutputOps, ComplexTxs, OpsOf
<1>5. SumOn(f, OutputOps(b)) = 0
  <2>1. Summable(f, OutputOps(b))
    BY <1>4, FS_EmptySet DEF Summable
  <2>2. QED
    BY <1>4, <2>1, SumOnAdd
<1>6. CarriedForward(b) = 0
  <2>1. CarriedForward(b) = SumOn(CarriedOf(b), {}) /\ Summable(CarriedOf(b), {})
    BY <1>4, CarriedIs
  <2>2. QED
    BY <2>1, SumOnAdd
<1>7. Summable(f, A) /\ SumOn(GotOf(b), D) = SumOn(f, A)
  <2>1. \A i \in A : f[i] \in Nat
    BY ParsedAssumption, GateAssumption DEF OpsOf, AmountsOf, ParsedEffect, Amount
  <2>2. A \in SUBSET D
    BY DEF OpsOf
  <2>3. \A i \in D : GotOf(b)[i] = IF i \in A THEN f[i] ELSE 0
    BY <1>1 DEF OpsOf, GotOf, Got, AmountsOf
  <2> HIDE DEF D, f, A
  <2>4. QED
    BY <1>2, <2>1, <2>2, <2>3, SumOnWhere
<1>8. [i \in A |-> b.ops[i].amount] = On(f, A)
  BY DEF On, AmountsOf, OpsOf
<1>9. Created(b) = 0 + 0 + SumOn(f, A) /\ SumOn(f, A) \in Nat
  <2>1. SumFunction([i \in A |-> b.ops[i].amount]) = SumOn(f, A)
    BY <1>7, <1>8, FunctionSum
  <2>2. SumOn(f, A) \in Nat
    BY <1>7, SumOnAdd
  <2>3. Created(b) = CarriedForward(b) + 0 + SumFunction([i \in A |-> b.ops[i].amount])
    BY DEF Created
  <2>4. QED
    BY <1>6, <2>1, <2>2, <2>3
<1>10. Destroyed(b) = 0
  BY DEF Destroyed
<1> HIDE DEF D, A, f
<1>11. QED
  BY <1>3, <1>5, <1>7, <1>9, <1>10 DEF D, f

(* What a block adds to balances, outputs and its creator, and destroys, is  *)
(* what its effects take and what it creates.                                *)
Reward(b, x) == IF b.seq > 1 THEN b.mined + x ELSE 0

LEMMA BlockAccount ==
  ASSUME GenesisForm, NEW b \in Universe, Tier1Gate(b), NEW x, x = SumOn(FeesOf(b), DOMAIN b.ops)
  PROVE  /\ SumOn(GotOf(b), DOMAIN b.ops) + SumOn(AmountsOf(b), OutputOps(b)) + Reward(b, x) + Destroyed(b)
              = Created(b) + SumOn(PaidOf(b), DOMAIN b.ops)
         /\ SumOn(GotOf(b), DOMAIN b.ops) \in Nat /\ SumOn(PaidOf(b), DOMAIN b.ops) \in Nat
         /\ SumOn(AmountsOf(b), OutputOps(b)) \in Nat
         /\ Destroyed(b) \in Nat /\ Created(b) \in Nat
<1>1. CASE b.seq = 0
  <2>1. Reward(b, x) = 0
    BY <1>1 DEF Reward
  <2>2. QED
    BY <1>1, <2>1, GenesisAccount
<1>2. CASE b.seq # 0
  <2> DEFINE p == SumOn(Prices(b), OpsOf(b, {"Register"}))
             s == SumOn(FlatFees(b), OpsOf(b, Whole))
             u == SumOn(SurplusOf(b), ComplexTxs(b))
             i == SumOn(AmountsOf(b), OpsOf(b, Inputs))
             o == SumOn(AmountsOf(b), OpsOf(b, Outputs))
             c == CarriedForward(b)
             got == SumOn(GotOf(b), DOMAIN b.ops)
             new == SumOn(AmountsOf(b), OutputOps(b))
             paid == SumOn(PaidOf(b), DOMAIN b.ops)
  <2>1. o + u = i + c /\ o \in Nat /\ i \in Nat /\ u \in Nat /\ c \in Nat
    BY TransactionsBalance
  <2>2. x = s + u /\ s \in Nat
    BY <1>2, FeesSplit
  <2>3. paid = p + s + i /\ p \in Nat
    BY <1>2, PaidSplit
  <2>4. got + new = o /\ got \in Nat /\ new \in Nat
    BY <1>2, GotSplit
  <2>5. Destroyed(b) = p + IF b.seq = 1 THEN x ELSE 0
    BY <1>2, DestroyedIs
  <2>6. Created(b) = c + (IF b.seq > 1 THEN b.mined ELSE 0) + 0
    BY <1>2 DEF Created
  <2>7. b.seq \in Nat /\ b.mined \in Nat
    BY UniverseAssumption, ParsedAssumption, GateAssumption DEF Amount
  <2> HIDE DEF p, s, u, i, o, c, got, new, paid
  <2>8. CASE b.seq = 1
    <3>1. Reward(b, x) = 0 /\ Destroyed(b) = p + x /\ Created(b) = c
      BY <2>1, <2>5, <2>6, <2>8 DEF Reward
    <3>2. got + new + Reward(b, x) + Destroyed(b) = Created(b) + paid
      BY <2>1, <2>2, <2>3, <2>4, <3>1
    <3>3. QED
      BY <2>1, <2>2, <2>3, <2>4, <3>1, <3>2 DEF got, new, paid
  <2>9. CASE b.seq > 1
    <3>1. Reward(b, x) = b.mined + x /\ Destroyed(b) = p /\ Created(b) = c + b.mined
      BY <2>1, <2>3, <2>5, <2>6, <2>7, <2>9 DEF Reward
    <3> DEFINE m == b.mined
    <3>2. m \in Nat
      BY <2>7
    <3> HIDE DEF m
    <3>3. o + (m + (s + u)) + p = (c + m) + (p + s + i)
      BY <2>1, <2>2, <2>3, <3>2
    <3>4. got + new + Reward(b, x) + Destroyed(b) = o + (m + (s + u)) + p
      BY <2>2, <2>4, <3>1 DEF m
    <3>5. Created(b) + paid = (c + m) + (p + s + i)
      BY <2>3, <3>1 DEF m
    <3>6. QED
      BY <2>1, <2>2, <2>3, <2>4, <2>7, <3>1, <3>3, <3>4, <3>5 DEF got, new, paid
  <2>10. QED
    BY <1>2, <2>7, <2>8, <2>9
<1>3. QED
  BY <1>1, <1>2

-----------------------------------------------------------------------------
(* The commit: the reward goes to the creator, the outputs become bits, and  *)
(* the bits of the tail block leave.                                         *)

LEMMA RewardPaid ==
  ASSUME NEW l \in LedgerState, NEW b \in Universe, NEW x \in Amount, EndAdmitted(l, b, x),
         b.seq # 0 => Seeded(l, b.creator)
  PROVE  /\ SumOn(Committed(l, b, x).balance, NodeSlot) = SumOn(l.balance, NodeSlot) + Reward(b, x)
         /\ Reward(b, x) \in Nat
<1> DEFINE k == Committed(l, b, x)
           n == b.creator
           y == b.mined + x
           gain == [m \in NodeSlot |-> IF m = n THEN y ELSE 0]
           loss == [m \in NodeSlot |-> 0]
<1>1. b.seq \in Nat /\ b.mined \in Nat /\ x \in Nat /\ AmountBound \in Nat
  BY UniverseAssumption, ParsedAssumption, GateAssumption DEF Amount
<1>2. k \in LedgerState
  BY CommittedTyped
<1>3. CASE b.seq > 1
  <2>1. Seeded(l, n) /\ n \in NodeSlot
    BY <1>1, <1>3 DEF Seeded
  <2>2. BalanceOf(l, n) + b.mined + x < AmountBound
    BY <1>3, <2>1 DEF EndAdmitted
  <2>3. l.balance[n] \in Nat /\ BalanceOf(l, n) = l.balance[n]
    BY <2>1, GateAssumption DEF LedgerState, Amount, BalanceOf
  <2>4. y \in Amount /\ y \in Nat /\ l.balance[n] + y < AmountBound
    BY <1>1, <2>2, <2>3 DEF Amount
  <2>5. k.balance = CreditSeeded(l, n, y).balance
    <3>1. CreditSeeded(l, n, y) \in LedgerState
      BY <2>4, PayTyped DEF Repaid
    <3>2. QED
      BY <1>3, <3>1 DEF Committed, LedgerState
  <2>6. ASSUME NEW m \in NodeSlot PROVE k.balance[m] + loss[m] = l.balance[m] + gain[m]
    <3>1. k.balance[m] = IF m = n THEN WrapAdd(l.balance[m], y) ELSE l.balance[m]
      BY <2>1, <2>4, <2>5, PayBalance
    <3>2. l.balance[m] \in Nat
      BY GateAssumption DEF LedgerState, Amount
    <3>3. loss[m] = 0 /\ gain[m] = IF m = n THEN y ELSE 0
      OBVIOUS
    <3> HIDE DEF k, n, y, gain, loss
    <3>4. CASE m = n
      <4>1. WrapAdd(l.balance[m], y) = l.balance[m] + y
        BY <1>1, <2>4, <3>2, <3>4 DEF WrapAdd
      <4>2. QED
        BY <2>4, <3>1, <3>2, <3>3, <3>4, <4>1
    <3>5. CASE m # n
      BY <3>1, <3>2, <3>3, <3>5
    <3>6. QED
      BY <3>4, <3>5
  <2>7. \A m \in NodeSlot : k.balance[m] + loss[m] = l.balance[m] + gain[m]
    BY <2>6
  <2>8. \A m \in NodeSlot : gain[m] = IF m = n THEN y ELSE 0
    OBVIOUS
  <2>9. \A m \in NodeSlot : loss[m] = 0
    OBVIOUS
  <2>10. Reward(b, x) = y
    BY <1>3 DEF Reward
  <2> HIDE DEF k, n, y, gain, loss
  <2>11. Summable(gain, NodeSlot) /\ SumOn(gain, NodeSlot) = y
    BY <2>1, <2>4, <2>8, SlotsFinite, SumOnSingle
  <2>12. Summable(loss, NodeSlot) /\ SumOn(loss, NodeSlot) = 0
    BY <2>9, SlotsFinite, SumOnZero
  <2>13. SumOn(k.balance, NodeSlot) + 0 = SumOn(l.balance, NodeSlot) + y
    BY <1>2, <2>7, <2>11, <2>12, BalancesMoved
  <2>14. SumOn(k.balance, NodeSlot) \in Nat
    BY <1>2, BalancesSummable, SumOnAdd
  <2>15. QED
    BY <2>4, <2>10, <2>13, <2>14 DEF k
<1>4. CASE ~(b.seq > 1)
  <2>1. k.balance = l.balance
    BY <1>4 DEF Committed, LedgerState
  <2>2. Reward(b, x) = 0
    BY <1>4 DEF Reward
  <2>3. SumOn(l.balance, NodeSlot) \in Nat
    BY BalancesSummable, SumOnAdd
  <2> HIDE DEF k
  <2>4. SumOn(k.balance, NodeSlot) = SumOn(l.balance, NodeSlot) + 0
    BY <2>1, <2>3
  <2>5. QED
    BY <2>2, <2>4 DEF k
<1>5. QED
  BY <1>3, <1>4

AmountsIn(c, S) == [u \in S |-> OutputAmount(c, u[1], u[2])]

(* The amounts of old outputs stay, and the new ones are as the block says.  *)
LEMMA AmountsKept ==
  ASSUME NEW c, NEW low, WellFormed(c, low), NEW b \in Universe, NEW u, u[1] \in 0 .. Len(c) - 1
  PROVE  OutputAmount(Append(c, b), u[1], u[2]) = OutputAmount(c, u[1], u[2])
<1>1. BlockAt(Append(c, b), u[1]) = BlockAt(c, u[1])
  BY Appended
<1>2. QED
  BY <1>1 DEF OutputAmount

LEMMA NewOutputsSum ==
  ASSUME NEW c, NEW low, WellFormed(c, low), NEW b \in Universe, b.seq = Len(c)
  PROVE  LET f == AmountsIn(Append(c, b), NewOutputs(b))
         IN  /\ Summable(f, NewOutputs(b))
             /\ SumOn(f, NewOutputs(b)) = SumOn(AmountsOf(b), OutputOps(b))
<1> DEFINE d == Append(c, b)
           S == OutputOps(b)
           T == NewOutputs(b)
           m == [j \in S |-> <<b.seq, Place(S, j)>>]
           f == AmountsOf(b)
           g == AmountsIn(d, T)
<1>1. BlockAt(d, b.seq) = b
  BY Appended
<1>2. /\ \A j \in S : OutputAmount(d, b.seq, Place(S, j)) = b.ops[j].amount
      /\ \A i, j \in S : Place(S, i) = Place(S, j) => i = j
      /\ {Place(S, j) : j \in S} = 1 .. Cardinality(S)
  BY <1>1, OutputPlaces
<1>3. T = {m[j] : j \in S}
  <2>1. T = {<<b.seq, i>> : i \in 1 .. Cardinality(S)}
    BY DEF NewOutputs, OutputOps
  <2>2. {m[j] : j \in S} = {<<b.seq, Place(S, j)>> : j \in S}
    OBVIOUS
  <2> HIDE DEF S, T, m
  <2>3. {<<b.seq, i>> : i \in {Place(S, j) : j \in S}} = {<<b.seq, Place(S, j)>> : j \in S}
    BY Zenon
  <2>4. QED
    BY <1>2, <2>1, <2>2, <2>3
<1>4. Summable(f, S)
  <2>1. {"UtxoOut"} \subseteq Inputs \union Outputs
    BY DEF Outputs
  <2>2. QED
    BY <2>1, AmountsSummable DEF OutputOps
<1>5. \A j \in S : g[m[j]] = f[j]
  <2> SUFFICES ASSUME NEW j \in S PROVE g[m[j]] = f[j]
    OBVIOUS
  <2>1. m[j] \in T /\ m[j] = <<b.seq, Place(S, j)>>
    BY <1>3
  <2>2. g[m[j]] = OutputAmount(d, b.seq, Place(S, j))
    BY <2>1 DEF AmountsIn
  <2>3. f[j] = b.ops[j].amount
    BY DEF AmountsOf, OutputOps, OpsOf
  <2>4. QED
    BY <1>2, <2>2, <2>3
<1>6. \A i, j \in S : m[i] = m[j] => i = j
  BY <1>2
<1> HIDE DEF d, S, T, m, f, g
<1>7. Summable(g, T) /\ SumOn(g, T) = SumOn(f, S)
  BY <1>3, <1>4, <1>5, <1>6, SumOnRenamed
<1>8. QED
  BY <1>7 DEF d, S, T, f, g

(* What is left in the ledger after the commit, and what left it.            *)
LEMMA OutputsSettled ==
  ASSUME NEW c, NEW low, WellFormed(c, low), NEW b \in Universe, b.seq = Len(c),
         NEW l \in LedgerState, Counted(l, c), \A u \in l.unspent : u[1] \in low .. Len(c) - 1,
         NEW gone, NEW q, gone = {u \in l.unspent : u[1] < q}, q <= Len(c), q \in Nat,
         NEW r \in LedgerState, r.unspent = {u \in l.unspent \union NewOutputs(b) : ~(u[1] < q)}
  PROVE  LET d == Append(c, b)
         IN  /\ Counted(r, d)
             /\ OutputSum(r, d) + SumFunction(AmountsIn(d, gone))
                  = OutputSum(l, c) + SumOn(AmountsOf(b), OutputOps(b))
             /\ SumFunction(AmountsIn(d, gone)) \in Nat
<1> DEFINE d == Append(c, b)
           N == NewOutputs(b)
           All == l.unspent \union N
           f == AmountsIn(d, All)
<1>1. Len(c) \in Nat /\ low \in Nat
  BY DEF WellFormed
<1>2. \A u \in N : u[1] = Len(c)
  BY DEF NewOutputs
<1>3. Summable(AmountsIn(d, N), N) /\ SumOn(AmountsIn(d, N), N) = SumOn(AmountsOf(b), OutputOps(b))
  BY NewOutputsSum
<1>4. Summable(Amounts(l, c), l.unspent)
  BY HoldingsAre
<1>5. \A u \in l.unspent : f[u] = Amounts(l, c)[u]
  <2> SUFFICES ASSUME NEW u \in l.unspent PROVE f[u] = Amounts(l, c)[u]
    OBVIOUS
  <2>1. u[1] \in 0 .. Len(c) - 1
    BY <1>1
  <2>2. OutputAmount(d, u[1], u[2]) = OutputAmount(c, u[1], u[2])
    BY <2>1, AmountsKept
  <2>3. QED
    BY <2>2 DEF AmountsIn, Amounts
<1>6. \A u \in N : f[u] = AmountsIn(d, N)[u]
  BY DEF AmountsIn
<1>7. Summable(f, All)
  <2>1. IsFiniteSet(All)
    BY <1>3, <1>4, FS_Union DEF Summable
  <2>2. \A u \in All : f[u] \in Nat
    BY <1>3, <1>4, <1>5, <1>6 DEF Summable
  <2> HIDE DEF All, f
  <2>3. QED
    BY <2>1, <2>2 DEF Summable
<1>8. /\ SumOn(f, l.unspent) = OutputSum(l, c)
      /\ SumOn(f, N) = SumOn(AmountsOf(b), OutputOps(b))
  <2>1. SumOn(f, l.unspent) = SumOn(Amounts(l, c), l.unspent)
    <3> HIDE DEF f
    <3>1. QED
      BY <1>4, <1>5, SumOnSame
  <2>2. SumOn(f, N) = SumOn(AmountsIn(d, N), N)
    <3> HIDE DEF f, N
    <3>1. QED
      BY <1>3, <1>6, SumOnSame
  <2>3. QED
    BY <1>3, <2>1, <2>2 DEF OutputSum
<1>9. l.unspent \in SUBSET All /\ N \in SUBSET All /\ l.unspent \intersect N = {}
  BY <1>1, <1>2
<1>10. /\ gone \in SUBSET All /\ r.unspent \in SUBSET All
       /\ gone \intersect r.unspent = {} /\ gone \union r.unspent = All
  <2>1. gone \subseteq l.unspent /\ \A u \in gone : u[1] < q
    OBVIOUS
  <2>2. \A u \in N : ~(u[1] < q)
    BY <1>1, <1>2
  <2>3. \A u : u \in r.unspent <=> u \in All /\ ~(u[1] < q)
    OBVIOUS
  <2>4. \A u : u \in gone <=> u \in All /\ u[1] < q
    BY <2>2
  <2> HIDE DEF N, All
  <2>5. gone \in SUBSET All /\ r.unspent \in SUBSET All
    BY <2>3, <2>4, Zenon
  <2>6. gone \intersect r.unspent = {} /\ gone \union r.unspent = All
    BY <2>3, <2>4
  <2>7. QED
    BY <2>5, <2>6
<1>11. On(f, gone) = AmountsIn(d, gone)
  BY <1>10 DEF On, AmountsIn
<1>12. \A u \in r.unspent : Amounts(r, d)[u] = f[u]
  BY <1>10 DEF Amounts, AmountsIn
<1> HIDE DEF d, N, All, f
<1>13. SumOn(f, All) = SumOn(f, l.unspent) + SumOn(f, N)
  <2>1. All = l.unspent \union N
    BY DEF All
  <2>2. SumOn(f, l.unspent \union N) = SumOn(f, l.unspent) + SumOn(f, N)
    BY <1>7, <1>9, SumOnSplit
  <2>3. QED
    BY <2>1, <2>2
<1>14. SumOn(f, All) = SumOn(f, gone) + SumOn(f, r.unspent)
  <2>1. SumOn(f, gone \union r.unspent) = SumOn(f, gone) + SumOn(f, r.unspent)
    BY <1>7, <1>10, SumOnSplit
  <2>2. QED
    BY <1>10, <2>1
<1>15. /\ Summable(f, gone) /\ Summable(f, r.unspent)
       /\ SumOn(f, gone) \in Nat /\ SumOn(f, r.unspent) \in Nat
  BY <1>7, <1>10, SumOnAdd
<1>16. SumFunction(AmountsIn(d, gone)) = SumOn(f, gone)
  BY <1>11, <1>15, FunctionSum
<1>17. OutputSum(r, d) = SumOn(f, r.unspent) /\ Summable(Amounts(r, d), r.unspent)
  BY <1>12, <1>15, SumOnSame DEF OutputSum
<1>18. Counted(r, d)
  BY <1>17 DEF Counted, Summable, Amounts
<1>19. OutputSum(r, d) + SumFunction(AmountsIn(d, gone)) = OutputSum(l, c) + SumOn(AmountsOf(b), OutputOps(b))
  BY <1>8, <1>13, <1>14, <1>15, <1>16, <1>17
<1>20. QED
  BY <1>15, <1>16, <1>18, <1>19 DEF d

LEMMA CommitConserves ==
  ASSUME GenesisForm, IInv, TypeInv, ValueInv, Commit
  PROVE  Holdings(led', chain') + Destroyed(block) + LeavesWithTail
           = Holdings(base, chain) + Created(block)
<1> DEFINE k == Committed(led, block, fees)
           d == Append(chain, block)
           gone == {u \in led.unspent : u[1] < tail'}
           f == SumOn(AmountsOf(block), OutputOps(block))
           got == SumOn(GotOf(block), DOMAIN block.ops)
           paid == SumOn(PaidOf(block), DOMAIN block.ops)
<1>1. /\ phase = "Derived" /\ chain' = d
      /\ led' = IF Full THEN TailReleased(k, tail) ELSE k
      /\ tail' = IF Full THEN tail + 1 ELSE tail
  BY DEF Commit
<1>2. /\ WellFormed(chain, tail) /\ Len(chain) \in Nat /\ tail \in Nat /\ tail <= Len(chain)
      /\ block \in Universe /\ block.seq = Len(chain) /\ Tier1Gate(block)
      /\ done = DOMAIN block.ops
  BY <1>1 DEF IInv, Called, WellFormed
<1>3. /\ led \in LedgerState /\ base \in LedgerState /\ fees \in Amount /\ EndAdmitted(led, block, fees)
  BY <1>1 DEF TypeInv
<1>4. Booked(led, chain, block, base, done, fees)
  BY <1>1 DEF ValueInv
<1>5. /\ Counted(led, chain) /\ Counted(base, chain)
      /\ \A u \in led.unspent : u[1] \in tail .. Len(chain) - 1
  <2>1. Called
    BY <1>1 DEF IInv
  <2>2. UnspentAt(chain, tail, base.unspent) /\ led.unspent \subseteq base.unspent
    BY <2>1 DEF Called, Settled, SettledAt, Effects
  <2>3. QED
    BY <1>1, <2>2, CallCounted, UnspentHome
<1>6. Full => tail + 1 <= Len(chain)
  BY <1>2, LedgerAssumption DEF Full
<1>7. tail' <= Len(chain) /\ tail' \in Nat
  BY <1>1, <1>2, <1>6
<1>8. k \in LedgerState /\ k.unspent = led.unspent \union NewOutputs(block)
  BY <1>2, <1>3, CommittedTyped, StateIsLedger, CommittedFields
<1>9. led' \in LedgerState /\ led'.balance = k.balance
  <2>1. TailReleased(k, tail) \in LedgerState
    BY <1>8, ReleasedTyped
  <2>2. TailReleased(k, tail).balance = k.balance
    BY DEF TailReleased
  <2> HIDE DEF k
  <2>3. QED
    BY <1>1, <1>8, <2>1, <2>2
<1>10. led'.unspent = {u \in led.unspent \union NewOutputs(block) : ~(u[1] < tail')}
  <2>1. \A u \in led.unspent \union NewOutputs(block) : u[1] \in Nat /\ u[1] >= tail
    <3>1. \A u \in led.unspent : u[1] \in Nat /\ u[1] >= tail
      BY <1>2, <1>5
    <3>2. \A u \in NewOutputs(block) : u[1] \in Nat /\ u[1] >= tail
      BY <1>2 DEF NewOutputs
    <3>3. QED
      BY <3>1, <3>2
  <2>2. CASE Full
    <3>1. led'.unspent = {u \in k.unspent : u[1] # tail}
      BY <1>1, <1>8, <2>2, StateIsLedger, ReleasedFields
    <3>2. \A u \in led.unspent \union NewOutputs(block) : u[1] # tail <=> ~(u[1] < tail')
      BY <1>1, <1>2, <2>1, <2>2
    <3> HIDE DEF k
    <3>3. QED
      BY <1>8, <3>1, <3>2
  <2>3. CASE ~Full
    <3>1. \A u \in led.unspent \union NewOutputs(block) : ~(u[1] < tail')
      BY <1>1, <1>2, <2>1, <2>3
    <3> HIDE DEF k
    <3>2. QED
      BY <1>1, <1>8, <2>3, <3>1
  <2>4. QED
    BY <2>2, <2>3
<1>11. /\ Counted(led', d)
       /\ OutputSum(led', d) + SumFunction(AmountsIn(d, gone)) = OutputSum(led, chain) + f
       /\ SumFunction(AmountsIn(d, gone)) \in Nat
  <2> DEFINE q == tail'
             r == led'
  <2>1. /\ q <= Len(chain) /\ q \in Nat /\ r \in LedgerState /\ gone = {u \in led.unspent : u[1] < q}
        /\ r.unspent = {u \in led.unspent \union NewOutputs(block) : ~(u[1] < q)}
    BY <1>7, <1>9, <1>10
  <2> HIDE DEF q, r, gone
  <2>2. /\ Counted(r, d)
        /\ OutputSum(r, d) + SumFunction(AmountsIn(d, gone)) = OutputSum(led, chain) + f
        /\ SumFunction(AmountsIn(d, gone)) \in Nat
    BY <1>2, <1>3, <1>5, <2>1, OutputsSettled
  <2>3. QED
    BY <2>2 DEF r
<1>12. LeavesWithTail = SumFunction(AmountsIn(d, gone))
  BY <1>1 DEF LeavesWithTail, AmountsIn
<1>13. /\ SumOn(led'.balance, NodeSlot) = SumOn(led.balance, NodeSlot) + Reward(block, fees)
       /\ Reward(block, fees) \in Nat
  <2>1. block.seq # 0 => Seeded(led, block.creator)
    BY <1>4 DEF Booked
  <2>2. QED
    BY <1>2, <1>3, <1>9, <2>1, RewardPaid
<1>14. /\ Holdings(led', d) = SumOn(led'.balance, NodeSlot) + OutputSum(led', d)
       /\ OutputSum(led', d) \in Nat
  BY <1>9, <1>11, HoldingsAre
<1>15. /\ Holdings(led, chain) = SumOn(led.balance, NodeSlot) + OutputSum(led, chain)
       /\ SumOn(led.balance, NodeSlot) \in Nat /\ OutputSum(led, chain) \in Nat
       /\ Holdings(base, chain) \in Nat
  BY <1>3, <1>5, HoldingsAre
<1>16. Holdings(led, chain) + paid = Holdings(base, chain) + got
  BY <1>2, <1>4 DEF Booked
<1>17. /\ got + f + Reward(block, fees) + Destroyed(block) = Created(block) + paid
       /\ got \in Nat /\ paid \in Nat /\ f \in Nat /\ Destroyed(block) \in Nat /\ Created(block) \in Nat
  <2>1. fees = SumOn(FeesOf(block), DOMAIN block.ops)
    BY <1>2, <1>4 DEF Booked
  <2>2. QED
    BY <1>2, <2>1, BlockAccount
<1> DEFINE leaves == SumFunction(AmountsIn(d, gone))
           hb == SumOn(led.balance, NodeSlot)
           ho == OutputSum(led, chain)
           no == OutputSum(led', d)
           w == Reward(block, fees)
<1>18. no + leaves = ho + f /\ leaves \in Nat /\ w \in Nat
  BY <1>11, <1>13
<1>19. Holdings(led', d) = hb + w + no /\ no \in Nat
  BY <1>13, <1>14
<1>20. Holdings(led, chain) = hb + ho /\ hb \in Nat /\ ho \in Nat
  BY <1>15
<1>21. got + f + w + Destroyed(block) = Created(block) + paid
  BY <1>17
<1> HIDE DEF k, d, gone, f, got, paid, leaves, hb, ho, no, w
<1>22. hb + w + no + Destroyed(block) + leaves = Holdings(base, chain) + Created(block)
  <2>1. hb + ho + paid = Holdings(base, chain) + got
    BY <1>16, <1>20
  <2>2. QED
    BY <1>15, <1>17, <1>18, <1>19, <1>20, <1>21, <2>1
<1>23. QED
  BY <1>1, <1>12, <1>19, <1>22 DEF leaves

(* From block to block the sum of all balances and unspent outputs changes   *)
(* by what the block openly creates (mining, the genesis transfers, outputs  *)
(* carried forward) and destroys (prices, the fees of block 1, what leaves   *)
(* with the tail), and by nothing else: derive_block's checks let no effect  *)
(* overdraw, overflow or miss its node, and what every effect takes reaches  *)
(* a balance, an output or the creator.                                      *)
THEOREM ValueHolds == GenesisForm /\ GenesisFunds => (Spec => ValueConserved)
<1> SUFFICES ASSUME GenesisForm, GenesisFunds PROVE Spec => ValueConserved
  OBVIOUS
<1>1. IInv /\ TypeInv /\ ValueInv /\ [Next]_vars =>
        [chain' # chain =>
           Holdings(led', chain') + Destroyed(block) + LeavesWithTail
             = Holdings(base, chain) + Created(block)]_vars
  <2> SUFFICES ASSUME IInv, TypeInv, ValueInv, Next, chain' # chain
               PROVE  Holdings(led', chain') + Destroyed(block) + LeavesWithTail
                        = Holdings(base, chain) + Created(block)
    OBVIOUS
  <2>1. Commit
    BY DEF Next, Begin, Apply, Refuse, RefuseEnd, Derive, SaveFails, VotesRefuse, Fail, Undo, Abandon
  <2>2. QED
    BY <2>1, CommitConserves
<1>2. Spec => []ValueInv
  BY ValueAlways
<1>3. QED
  BY <1>1, <1>2, InductiveInvariant, TypeInit, TypeNext, PTL DEF Spec, ValueConserved
=============================================================================
