------------------------------- MODULE Ledger -------------------------------
(***************************************************************************)
(* The derived state of the active chain and how a block changes it:         *)
(* src/src/node_info.rs, the available-UTXO bits of src/src/blocks.rs and the  *)
(* per-block step of src/src/api.rs.  A ledger l is a record                  *)
(*   key, balance, source   per node slot; source is the sequence of the     *)
(*              block the node was seeded from, Unseeded or Released         *)
(*   watermark  max_known_node_id                                            *)
(*   unspent    the set bits: <<seq, i>> is output i of the block at seq     *)
(* and a projection p says how far l is complete: p.complete for a chain     *)
(* derived from the genesis block, p.bounded when the watermark is known,    *)
(* p.saw once a balance block was met.                                       *)
(***************************************************************************)
EXTENDS StagedValidation

CONSTANTS
  MaxNodes,   \* MAX_NODES, the slots of the roster
  Key,        \* public keys
  NoKey,      \* the all-zero key of an empty slot
  Config,     \* the held configuration content
  W           \* the configured active chain length

ASSUME LedgerAssumption ==
  /\ MaxNodes \in Nat \ {0} /\ NoKey \notin Key /\ Anchor \in Key /\ W \in Nat \ {0, 1}

NodeSlot == 0 .. MaxNodes - 1
Unseeded == -1
Released == -2

EmptyLedger ==
  [key |-> [n \in NodeSlot |-> NoKey], balance |-> [n \in NodeSlot |-> 0],
   source |-> [n \in NodeSlot |-> Unseeded], watermark |-> 0, unspent |-> {}]

Complete == [complete |-> TRUE, bounded |-> TRUE, saw |-> FALSE]

Seeded(l, n) == n \in NodeSlot /\ l.source[n] # Unseeded

KeyRegistered(l, k) == \E n \in NodeSlot : Seeded(l, n) /\ l.key[n] = k

BalanceOf(l, n) == IF n \in NodeSlot THEN l.balance[n] ELSE 0

InRange(l, n) == n <= l.watermark

(* u64 arithmetic that wraps; the arguments are amounts. *)
WrapAdd(x, y) == IF x + y >= AmountBound THEN x + y - AmountBound ELSE x + y
WrapSub(x, y) == IF x >= y THEN x - y ELSE x - y + AmountBound

Credit(l, n, x) == IF n \in NodeSlot THEN [l EXCEPT !.balance[n] = WrapAdd(@, x)] ELSE l
Debit(l, n, x)  == IF n \in NodeSlot THEN [l EXCEPT !.balance[n] = WrapSub(@, x)] ELSE l

CreditSeeded(l, n, x) == IF Seeded(l, n) THEN Credit(l, n, x) ELSE l
DebitIf(l, c, n, x)   == IF c THEN Debit(l, n, x) ELSE l

SeedNode(l, n, k, x, q) ==
  IF n \in NodeSlot
  THEN [l EXCEPT !.key[n] = k, !.balance[n] = x, !.source[n] = q] ELSE l

ClearNode(l, n) == SeedNode(l, n, NoKey, 0, Unseeded)

Advanced(l, n) == [l EXCEPT !.watermark = IF @ > n THEN @ ELSE n]

-----------------------------------------------------------------------------
(* One effect of block b: what it requires of the ledger, and what it does.  *)
(* tail is the sequence of the lowest block of the chain l was derived from, *)
(* fees and outs what the block's effects have summed so far.                *)

(* The node pays: its state is derived, and this is not the genesis block,   *)
(* whose transfer creates the currency.                                      *)
Pays(l, b, n) == b.seq # 0 /\ Seeded(l, n)

MayAct(l, p, b, op) ==
  /\ p.complete /\ b.seq # 0 => Seeded(l, op.node)
  /\ p.bounded /\ b.seq # 0 => InRange(l, op.node)
  /\ Pays(l, b, op.node) => InRange(l, op.vote)

Signed(l, b, op) == Pays(l, b, op.node) => l.key[op.node] = op.signer

CanReceive(l, p, b, n) == p.bounded /\ b.seq # 0 => InRange(l, n)

Affords(l, b, n, x) == Pays(l, b, n) => BalanceOf(l, n) >= x

Fits(l, n, x) == Seeded(l, n) => BalanceOf(l, n) + x < AmountBound

TransferAdmitted(l, p, b, op, fees) ==
  /\ MayAct(l, p, b, op) /\ Signed(l, b, op) /\ CanReceive(l, p, b, op.to)
  /\ op.amount + op.fee < AmountBound
  /\ Affords(l, b, op.node, op.amount + op.fee)
  /\ (Pays(l, b, op.node) /\ op.to = op.node) \/ Fits(l, op.to, op.amount)
  /\ fees + op.fee < AmountBound

Transferred(l, b, op) ==
  CreditSeeded(DebitIf(l, Pays(l, b, op.node), op.node, op.amount + op.fee), op.to, op.amount)

(* Mutant: any unused key will do. *)
AnyIdAdmitted(l, p, b, op, fees) ==
  /\ MayAct(l, p, b, op) /\ Signed(l, b, op)
  /\ op.price + op.fee < AmountBound
  /\ Affords(l, b, op.node, op.price + op.fee)
  /\ ~KeyRegistered(l, op.key)
  /\ b.seq # 0 => fees + op.fee < AmountBound

(* A new node takes the next number and a key no other node has. *)
RegisterAdmitted(l, p, b, op, fees) ==
  /\ MayAct(l, p, b, op) /\ Signed(l, b, op)
  /\ op.price + op.fee < AmountBound
  /\ b.seq # 0 /\ (p.complete \/ p.saw) => op.id = l.watermark + 1
  /\ Affords(l, b, op.node, op.price + op.fee)
  /\ ~KeyRegistered(l, op.key)
  /\ b.seq # 0 => fees + op.fee < AmountBound

(* Beyond the roster's end neither the watermark nor a slot records it. *)
Registered(l, b, op) ==
  SeedNode(IF b.seq # 0 /\ op.id \in NodeSlot
           THEN Advanced(DebitIf(l, Pays(l, b, op.node), op.node, op.price + op.fee), op.id)
           ELSE DebitIf(l, Pays(l, b, op.node), op.node, op.price + op.fee),
           op.id, op.key, 0, b.seq)

(* The output lies within the window and in a block of this chain; TRUE also *)
(* for one below an anchor that is trusted.                                  *)
Resolves(p, b, q, tail) ==
  /\ q < b.seq /\ b.seq - q <= W
  /\ p.complete => q >= tail

(* Mutant: the bit is not looked at. *)
AnyOutput(l, p, b, op, tail, value) == Resolves(p, b, op.seq, tail)

(* value[<<q, i>>] is the amount the stored block at q gives its output i. *)
UtxoAdmitted(l, p, b, op, tail, value) ==
  /\ Resolves(p, b, op.seq, tail)
  /\ op.seq >= tail => /\ <<op.seq, op.index>> \in l.unspent
                       /\ value[<<op.seq, op.index>>] = op.amount

Surplus(b, tx) ==
  IF CarryForward(b, tx) \/ Total(b, tx, Outputs) > Total(b, tx, Inputs) THEN 0
  ELSE Total(b, tx, Inputs) - Total(b, tx, Outputs)

Admitted(l, p, b, op, fees, outs, tail, value) ==
  CASE op.kind = "Transfer"   -> TransferAdmitted(l, p, b, op, fees)
    [] op.kind = "Register"   -> RegisterAdmitted(l, p, b, op, fees)
    [] op.kind = "BalanceIn"  -> MayAct(l, p, b, op) /\ Affords(l, b, op.node, op.amount)
    [] op.kind = "UtxoIn"     -> UtxoAdmitted(l, p, b, op, tail, value)
    [] op.kind = "BalanceOut" -> CanReceive(l, p, b, op.to) /\ Fits(l, op.to, op.amount)
    [] op.kind = "UtxoOut"    -> outs < MaxOutputs
    [] op.kind = "Close"      -> fees + Surplus(b, op.tx) < AmountBound

(* What the effect does to the ledger. *)
Applied(l, b, op) ==
  CASE op.kind = "Transfer"   -> Transferred(l, b, op)
    [] op.kind = "Register"   -> Registered(l, b, op)
    [] op.kind = "BalanceIn"  -> DebitIf(l, Pays(l, b, op.node), op.node, op.amount)
    [] op.kind = "UtxoIn"     -> [l EXCEPT !.unspent = @ \ {<<op.seq, op.index>>}]
    [] op.kind = "BalanceOut" -> CreditSeeded(l, op.to, op.amount)
    [] OTHER -> l

FeeOf(l, b, op) ==
  CASE op.kind = "Transfer" -> op.fee
    [] op.kind = "Register" -> IF b.seq = 0 THEN 0 ELSE op.fee
    [] op.kind = "Close"    -> Surplus(b, op.tx)
    [] OTHER -> 0

OutputsOf(op) == IF op.kind = "UtxoOut" THEN 1 ELSE 0

-----------------------------------------------------------------------------
(* The inverse of an effect, from its bytes and the ledger it left. *)

UndoTransfer(l, b, op) ==
  LET back == DebitIf(l, Seeded(l, op.to), op.to, op.amount)
  IN  IF Pays(back, b, op.node) THEN Credit(back, op.node, WrapAdd(op.amount, op.fee)) ELSE back

(* Mutant: the watermark stays. *)
UnregisterSlot(l, b, op) ==
  LET back == ClearNode(l, op.id)
  IN  IF Pays(back, b, op.node) THEN Credit(back, op.node, WrapAdd(op.price, op.fee)) ELSE back

(* Mutant: the watermark goes back one too far. *)
UnregisterTwo(l, b, op) ==
  LET cleared == ClearNode(l, op.id)
      back    == IF b.seq # 0 /\ op.id \in NodeSlot
                 THEN [cleared EXCEPT !.watermark = op.id - 2] ELSE cleared
  IN  IF Pays(back, b, op.node) THEN Credit(back, op.node, WrapAdd(op.price, op.fee)) ELSE back

UndoRegister(l, b, op) ==
  LET cleared == ClearNode(l, op.id)
      back    == IF b.seq # 0 /\ op.id \in NodeSlot
                 THEN [cleared EXCEPT !.watermark = IF op.id = 0 THEN 0 ELSE op.id - 1]
                 ELSE cleared
  IN  IF Pays(back, b, op.node) THEN Credit(back, op.node, WrapAdd(op.price, op.fee)) ELSE back

(* A trusted output below the anchor was not spent, and resolves to nothing. *)
UndoSpend(l, op, tail) ==
  IF op.seq >= tail THEN [l EXCEPT !.unspent = @ \union {<<op.seq, op.index>>}] ELSE l

Undone(l, b, op, tail) ==
  CASE op.kind = "Transfer"   -> UndoTransfer(l, b, op)
    [] op.kind = "Register"   -> UndoRegister(l, b, op)
    [] op.kind = "BalanceIn"  -> IF Pays(l, b, op.node) THEN Credit(l, op.node, op.amount) ELSE l
    [] op.kind = "UtxoIn"     -> UndoSpend(l, op, tail)
    [] op.kind = "BalanceOut" -> DebitIf(l, Seeded(l, op.to), op.to, op.amount)
    [] OTHER -> l

(* The effect inverted next when the effects in done still stand: of the     *)
(* newest transaction, outputs before inputs and each in block order.        *)
NextUndone(b, done) ==
  LET newest == {i \in done : \A j \in done : b.ops[j].tx <= b.ops[i].tx}
      outs   == newest \intersect OpsOf(b, Outputs)
  IN  Min(IF outs # {} THEN outs ELSE newest)

-----------------------------------------------------------------------------
(* The rest of the per-block step. *)

(* The creator's signature, where its key is derivable; node 0's always is.  *)
CreatorKey(l, n) == IF n = 0 THEN Anchor ELSE IF n \in NodeSlot THEN l.key[n] ELSE NoKey

CreatorSigned(l, p, b) ==
  IF CreatorKey(l, b.creator) = NoKey THEN ~p.complete \/ b.seq = 0
  ELSE CreatorKey(l, b.creator) = b.signer

(* A listed node that is derived already must be listed as derived; one that *)
(* is not is seeded, unless the chain is complete.                           *)
EntryAdmitted(l, p, b, e) ==
  /\ e.node <= b.maxNode
  /\ IF Seeded(l, e.node)
     THEN l.balance[e.node] = e.balance /\ l.key[e.node] = e.key /\ e.votesMatch
     ELSE ~p.complete

BalanceAdmitted(l, p, b) ==
  /\ p.complete \/ p.saw => b.maxNode = l.watermark
  /\ \A i \in DOMAIN b.entries : EntryAdmitted(l, p, b, b.entries[i])

BlockAdmitted(l, p, b) ==
  /\ CreatorSigned(l, p, b)
  /\ b.kind = "Balance"     => BalanceAdmitted(l, p, b)
  /\ b.kind = "ChainConfig" => b.content = Config

EntryOf(b, n) == {i \in DOMAIN b.entries : b.entries[i].node = n}

(* The floor seeding of a chain that is not complete. *)
FloorSeeded(l, p, b) ==
  LET fresh(n) == ~Seeded(l, n) /\ EntryOf(b, n) # {}
      entry(n) == b.entries[Min(EntryOf(b, n))]
  IN  IF b.kind # "Balance" THEN l
      ELSE [l EXCEPT
              !.key     = [n \in NodeSlot |-> IF fresh(n) THEN entry(n).key ELSE @[n]],
              !.balance = [n \in NodeSlot |-> IF fresh(n) THEN entry(n).balance ELSE @[n]],
              !.source  = [n \in NodeSlot |-> IF fresh(n) THEN b.seq ELSE @[n]],
              !.watermark = IF p.saw \/ @ > b.maxNode THEN @ ELSE b.maxNode]

(* After the effects: the voted node exists, the vote header holds (votesOk, *)
(* the vote engine's verdict) and the creator's credit fits.                 *)
EndAdmitted(l, b, fees) ==
  /\ b.firstVoted # b.creator => InRange(l, b.firstVoted)
  /\ b.votesOk
  /\ b.seq > 1 /\ Seeded(l, b.creator) =>
       BalanceOf(l, b.creator) + b.mined + fees < AmountBound

(* A balance block becomes the source of the nodes it lists. *)
MovedSources(l, b) ==
  [n \in NodeSlot |-> IF b.kind = "Balance" /\ l.source[n] # Unseeded /\ EntryOf(b, n) # {}
                      THEN b.seq ELSE l.source[n]]

NewOutputs(b) == {<<b.seq, i>> : i \in 1 .. Cardinality(OpsOf(b, {"UtxoOut"}))}

(* Mutant: the creator of block 0 or 1 is credited too. *)
CommittedAlways(l, b, fees) ==
  [CreditSeeded(l, b.creator, b.mined + fees)
     EXCEPT !.source = MovedSources(l, b), !.unspent = @ \union NewOutputs(b)]

Committed(l, b, fees) ==
  [(IF b.seq > 1 THEN CreditSeeded(l, b.creator, b.mined + fees) ELSE l)
     EXCEPT !.source = MovedSources(l, b), !.unspent = @ \union NewOutputs(b)]

(* The tail block leaves: its outputs go with it, its seeds lose their home. *)
TailReleased(l, q) ==
  [l EXCEPT !.source  = [n \in NodeSlot |-> IF @[n] = q THEN Released ELSE @[n]],
            !.unspent = {u \in @ : u[1] # q}]

(* What the tail block, with this kind and sequence, still owes. *)
Obligations(l, kind, q) ==
  {o \in {"ChainConfig", "SeedSource", "Utxo"} :
     CASE o = "ChainConfig" -> kind = "ChainConfig"
       [] o = "SeedSource"  -> \E n \in NodeSlot : l.source[n] = q
       [] o = "Utxo"        -> \E u \in l.unspent : u[1] = q}

Restates(b, o) ==
  CASE o = "ChainConfig" -> b.kind = "ChainConfig"
    [] o = "SeedSource"  -> b.kind = "Balance"
    [] o = "Utxo"        -> b.kind = "Transactions" /\ \E tx \in ComplexTxs(b) : CarryForward(b, tx)

(* Mutant: the obligations are looked up in another order, and a source is   *)
(* taken to be restated by any block that is not a configuration.            *)
LooseTailDrop(l, kind, q, b) ==
  LET owed == Obligations(l, kind, q)
  IN  CASE "SeedSource" \in owed  -> ~Restates(b, "ChainConfig")
        [] "Utxo" \in owed        -> Restates(b, "Utxo")
        [] "ChainConfig" \in owed -> Restates(b, "ChainConfig")
        [] OTHER -> TRUE

(* The first obligation in the code's order decides. *)
TailDropAllowed(l, kind, q, b) ==
  LET owed == Obligations(l, kind, q)
  IN  CASE "ChainConfig" \in owed -> Restates(b, "ChainConfig")
        [] "SeedSource" \in owed  -> Restates(b, "SeedSource")
        [] "Utxo" \in owed        -> Restates(b, "Utxo")
        [] OTHER -> TRUE
=============================================================================
