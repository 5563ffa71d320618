------------------------------ MODULE LedgerMC ------------------------------
(***************************************************************************)
(* Instance of LedgerNode: a chain of seven blocks in a window of four, with *)
(* candidates for every height that succeed, fail at every kind of effect,   *)
(* or fail on some chains and succeed on others.                             *)
(***************************************************************************)
EXTENDS LedgerProperties

CONSTANTS K0, K1, K2, K3, C0, C1

KeyDef == {K0, K1, K2, K3}

Transfer(from, to, x, fee) ==
  <<[kind |-> "Transfer", node |-> from, to |-> to, amount |-> x, fee |-> fee,
     vote |-> IF to = from THEN 0 ELSE to, anchor |-> 0, signer |-> IF from = 0 THEN K0 ELSE K1]>>

Register(from, id, key, price, fee) ==
  <<[kind |-> "Register", node |-> from, id |-> id, key |-> key, price |-> price,
     fee |-> fee, vote |-> 0, signer |-> K0, possession |-> TRUE]>>

BalanceIn(n, x)  == [kind |-> "BalanceIn", node |-> n, amount |-> x, vote |-> 0, anchor |-> 1]
UtxoIn(q, i, x)  == [kind |-> "UtxoIn", seq |-> q, index |-> i, amount |-> x]
UtxoOut(x)       == [kind |-> "UtxoOut", amount |-> x]
BalanceOut(n, x) == [kind |-> "BalanceOut", to |-> n, amount |-> x]
Close            == [kind |-> "Close"]

(* The effects of a sequence of transactions, each tagged with its number.   *)
Numbered(tx, ops) == [i \in DOMAIN ops |-> ops[i] @@ [tx |-> tx]]

Flatten(txs) == FoldLeft(LAMBDA ops, k : ops \o Numbered(k, txs[k]), <<>>, [k \in DOMAIN txs |-> k])

Block(q, kind, mined, ops) ==
  [seq |-> q, kind |-> kind, creator |-> 0, signer |-> K0, mined |-> mined, firstVoted |-> 0,
   consumed |-> 0, consumedFirst |-> 0, size |-> 1, ops |-> ops, entries |-> <<>>, maxNode |-> 0,
   content |-> C0, contentSigner |-> K0, votesOk |-> TRUE, applies |-> TRUE]

Txs(q, txs) == Block(q, "Transactions", 1, Flatten(txs))

BalanceBlock(q, entries, max) ==
  [Block(q, "Balance", 0, <<>>) EXCEPT !.entries = entries, !.maxNode = max]

Entry(n, k, x) == [node |-> n, key |-> k, balance |-> x, votesMatch |-> TRUE]

GenesisBlock == [Txs(0, <<Register(0, 0, K0, 0, 0), Transfer(0, 0, 9, 0)>>) EXCEPT !.mined = 0]

ConfigBlock(q) == Block(q, "ChainConfig", 1, <<>>)

(* A complex transaction that makes two outputs, and one that fails at its   *)
(* last output unless node 1 exists.                                         *)
Outs  == <<BalanceIn(0, 6), BalanceOut(0, 1), UtxoOut(2), UtxoOut(2), Close>>
Split == <<BalanceIn(0, 3), BalanceOut(0, 2), BalanceOut(1, 1), Close>>

(* Spends of the outputs of Outs in block 2.                                 *)
SpendFirst  == <<UtxoIn(2, 1, 2), BalanceOut(0, 1), UtxoOut(1), Close>>
SpendSecond == <<UtxoIn(2, 2, 2), BalanceIn(0, 1), UtxoOut(3), Close>>
Carry(x)    == <<UtxoOut(x), Close>>

(* Block 2: what later blocks build on, and what fails without it.           *)
Second ==
  {Txs(2, <<s, t>>) : s \in {Register(0, 1, K1, 1, 1), Outs, Transfer(0, 0, 2, 1)},
                      t \in {Register(0, 2, K2, 1, 0), Transfer(0, 1, 3, 1), Outs, Split}}
    \union {Txs(2, <<Outs, Transfer(0, 0, 1, 0), Split>>)}

(* Block 3: any two of these.  Registrations come in and out of order, with  *)
(* a repeated key and beyond the roster; outputs are spent once and twice.   *)
ThirdTxs ==
  {SpendFirst, SpendSecond, Split, Carry(1),
   Register(0, 1, K1, 1, 1), Register(0, 2, K1, 0, 0), Register(0, 3, K3, 0, 1),
   Transfer(0, 0, 2, 1), Transfer(0, 1, 3, 0), Transfer(1, 0, 2, 1), Transfer(1, 2, 1, 0)}

(* Also: a creator other than node 0, a creator's credit that does not fit,  *)
(* a first-voted node that may not exist, two refusals by the vote engine.   *)
Third ==
  {Txs(3, <<s, t>>) : s \in ThirdTxs, t \in ThirdTxs}
    \union {[Txs(3, <<Transfer(0, 1, 3, 1)>>) EXCEPT !.creator = 1, !.firstVoted = 1, !.signer = K1],
            [Txs(3, <<Transfer(0, 1, 1, 0), Transfer(1, 0, 1, 1)>>) EXCEPT !.mined = 9],
            [Txs(3, <<Transfer(0, 0, 1, 1)>>) EXCEPT !.firstVoted = 1],
            [Txs(3, <<Register(0, 1, K2, 1, 1)>>) EXCEPT !.votesOk = FALSE],
            [Txs(3, <<SpendFirst>>) EXCEPT !.applies = FALSE]}

(* Block 4: balance blocks that list node 0 alone or two nodes.              *)
Fourth ==
  {BalanceBlock(4, <<Entry(0, K0, x)>>, m) : x \in Amount, m \in 0 .. 2}
    \union {BalanceBlock(4, <<Entry(0, K0, x), Entry(1, K1, y)>>, m) :
              x \in Amount, y \in Amount, m \in 1 .. 2}
    \union {Txs(4, <<Transfer(0, 0, 1, 1)>>)}

(* Block 6, which pushes block 2 out: outputs carried forward, or balances,  *)
(* or a transfer and a spend of an output that is at the end of its life.    *)
Sixth ==
  {Txs(6, <<Carry(2), Carry(2)>>),
   Txs(6, <<Carry(2), <<UtxoIn(3, 1, 1), BalanceOut(0, 1), Close>>>>),
   Txs(6, <<<<UtxoIn(2, 1, 2), BalanceOut(0, 2), Close>>>>),
   Txs(6, <<Transfer(0, 0, 1, 0)>>)}
  \union {BalanceBlock(6, <<Entry(1, K1, y)>>, m) : y \in Amount, m \in 1 .. 2}

UniverseDef ==
  {GenesisBlock, ConfigBlock(1), [ConfigBlock(1) EXCEPT !.content = C1], ConfigBlock(5)}
    \union Second \union Third \union Fourth \union Sixth

(* A chain in a window of two whose balance blocks list nobody, so that the  *)
(* window of block 8, which votes first for node 1, has none.                *)
SparseUniverse ==
  {GenesisBlock} \union {ConfigBlock(q) : q \in {1, 3, 5, 7}}
    \union {BalanceBlock(2, <<>>, 0), Txs(4, <<Register(0, 1, K1, 1, 1)>>), BalanceBlock(6, <<>>, 1),
            [Txs(8, <<Transfer(0, 0, 1, 1)>>) EXCEPT !.firstVoted = 1]}

ASSUME GenesisAssumption == GenesisForm /\ GenesisFunds

ASSUME ListedAssumption == Universe = UniverseDef => ListsSome
=============================================================================
