----------------------------- MODULE SnakeChain -----------------------------
(***************************************************************************)
(* What a node promises about its active chain, without slots, links, tip    *)
(* entries or values: a window of at most W linked blocks that is adopted    *)
(* once and then only extended at its head; a block leaves it at the tail    *)
(* only when the block that pushes it out restates what would be lost.       *)
(* Module Node implements it.  The source is the snake-chain contract of     *)
(* src/src/snake_chain.rs and the Ready half of src/src/api.rs.              *)
(***************************************************************************)
EXTENDS Integers, Sequences

CONSTANTS
  Block,      \* block hashes
  PrevHash,   \* PrevHash[b]: the block b names as its parent
  Kind,       \* Kind[b]: "ChainConfig", "Balance", "Mint" or "Plain"
  Duty,       \* Duty[b]: what a non-configuration block owes when dropped
  Segments,   \* the sequences of blocks a call may adopt or append
  W           \* the configured active chain length

ASSUME WindowAssumption == W \in Nat \ {0, 1} /\ Segments \subseteq Seq(Block)

VARIABLES
  chain,      \* hashes from tail to head; <<>> while the node is not Ready
  epoch       \* restarts so far

chainVars == <<chain, epoch>>

Linked(c) == \A i \in 1 .. Len(c) - 1 : PrevHash[c[i + 1]] = c[i]

Window(c) == c \in Seq(Block) /\ Len(c) \in 1 .. W /\ Linked(c)

(* Mutant: a configuration block owes nothing. *)
OwedDuty(d) == Duty[d]

(* What block b must be to let block d leave the window. *)
Owed(d) == IF Kind[d] = "ChainConfig" THEN "ChainConfig" ELSE Duty[d]

Restates(b, d) ==
  /\ Owed(d) = "ChainConfig" => Kind[b] = "ChainConfig"
  /\ Owed(d) = "SeedSource"  => Kind[b] = "Balance"
  /\ Owed(d) = "Utxo"        => Kind[b] = "Mint"

Init == chain = <<>> /\ epoch = 0

(* Mutant: the candidate is adopted whole. *)
AdoptWhole == chain = <<>> /\ chain' \in Segments /\ UNCHANGED epoch

(* The window of a candidate that passed, or of a chain just founded. *)
Adopt == chain = <<>> /\ chain' \in Segments /\ Window(chain') /\ UNCHANGED epoch

(* An extension of the head and the Stored blocks above it, in one call. *)
Extend(bs) ==
  LET total == chain \o bs
      drop  == IF Len(total) > W THEN Len(total) - W ELSE 0
  IN  /\ chain # <<>>
      /\ Linked(total)
      /\ \A j \in 1 .. drop : Restates(total[j + W], total[j])
      /\ chain' = SubSeq(total, drop + 1, Len(total))
      /\ UNCHANGED epoch

(* A restart may come up on any window, or on none. *)
Restart ==
  epoch' = epoch + 1 /\ chain' \in Segments \union {<<>>} /\ (chain' = <<>> \/ Window(chain'))

Next == Adopt \/ (\E bs \in Segments : Extend(bs)) \/ Restart

Spec == Init /\ [][Next]_chainVars

(* The chain is a window: linked, and never longer than W, whatever the      *)
(* number of blocks a call appends.                                          *)
ChainOK == chain = <<>> \/ Window(chain)

Carries(c) == \E i \in 1 .. Len(c) : Kind[c[i]] = "ChainConfig"

(* A window that holds a configuration block goes on holding one: the block  *)
(* that pushes the last one out is one.                                      *)
ConfigStays == [][epoch' = epoch /\ Carries(chain) => Carries(chain')]_chainVars
=============================================================================
