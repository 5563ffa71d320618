# A verification project for moonblokz-blockchain

TLA+ models, TLC runs and TLAPS proofs for the blockchain crate of MoonBlokz, a
`no_std` Rust library that decides, on a small radio node, which blocks to keep
and which chain is the active one. Paths are relative to the directory that
holds `src/` (the crate, so its modules are `src/src/*.rs`) and `tla/` (this
project). `api.rs:4946` is short for `src/src/api.rs`, line 4946.

The crate is sequential: the bridge around it makes one public call at a time
and each call runs to its end. There are no threads. What makes it hard is
elsewhere:

- blocks arrive in **any order** from other nodes, with forks, and the tree, the
  tip table, the active chain and the running values are all updated
  incrementally;
- everything is **bounded**: slots and tip entries are reused, and a full tip
  table evicts a branch during an admission;
- **deletion leaves bytes behind**: a restart rebuilds from storage, which holds
  more than RAM did;
- steps of one call **fail halfway**: a storage read, a durable write, a pass over
  a candidate chain;
- the only scheduling is a **NextCall** the bridge is handed by each call, and a
  call that is refused answers `Idle` in it whatever waits.

## Inventory

| component | source | state | operations | interacts with |
|---|---|---|---|---|
| block table | `blocks.rs` | slots: hash, parent link, sequence, branch count, status, active flag | insert, find, link, mark subtree, delete | the storage uses the same slot numbers |
| tip table | `chain_heads.rs` | entries: head, tail or connection point, missing parent, value, timestamps | admission, eviction, attachment, deletion follow-up, rebuild | reads and changes the block table |
| active chain and window | `api.rs`, `snake_chain.rs` | active head, snake-chain tail, active value | extension, continuation, tail release, reclamation | deletes subtrees of the tree |
| side branches | `api.rs`, `branch_value.rs` | branch values, `Connected` status | judgement, valuation, ranking, switch decision | the switch is a stub |
| acquisition | `api.rs` | phase, configuration held, its source block | stopping condition, pass, recovery, promotion, lock | rewrites statuses and the window |
| intake | `intake.rs`, `api.rs` | – | duplicate, window and configuration gates, admission | calls all of the above |
| founding, restart | `api.rs` | durable slots, durable configuration | `process_genesis`, `initialize_from_storage` | storage |
| recovery scheduler | `api.rs`, `chain_heads.rs` | request timestamps | `on_tick`, `NextCall` | the bridge |
| lifecycle | `lifecycle.rs` | Collecting, Processing, Ready | phase changes | – |
| ledger | `api.rs`, `node_info.rs`, `available_utxo.rs` | balances, keys, seed sources, watermark, UTXO bits | derive, commit, invert; the pass over a segment | verdicts and obligations for the above; the vote engine is an external crate |
| configuration | `api.rs`, external crate | tentative or locked content, the durable copy | load, lock, adopt, discard, clean-ups | acquisition, intake, restart |
| Tier 1 gate | `staged_validation.rs` | none | checks of one block's bytes | intake |
| PRNG, helpers, stubs | `prng.rs`, `uninit.rs`, `lib.rs`, `approval.rs`, `creator.rs`, `queries.rs`, `reconciliation.rs`, `scheduler.rs`, `emit_scratch.rs` | – | – | – |

What makes each correct: the table never has a dangling or captured link; the
tip table indexes every tip and asks for exactly the parent a fragment lacks;
counts and values kept incrementally equal what they abbreviate; the active
chain is a linked window of at most W blocks that only moves forward and drops
nothing that must be restated; a judged-bad block never enters it by any route;
acquisition ends when a good candidate exists; a restart loses no progress; and
the scheduler is fair, and exact in every call that is not refused; the configuration is locked once and nothing it
refuses is retained; a failed step leaves no trace in the ledger, value is conserved,
no output is spent twice, and a node that joins late derives the ledger of the
others. `PROJECT.json` lists the hazards line by line.

## Modules

| module | models | remarks |
|---|---|---|
| `BlockTable` | `blocks.rs` | pure operators on a node record `t` |
| `ChainHeads` | `chain_heads.rs` | the same, over both tables |
| `ActiveChain` | the Ready half of `api.rs` | block verdicts are constants |
| `DominantChain` | acquisition and the configuration lock | several contents, one window length |
| `Node` | the public calls | the state machine: `node`, `store`, `durable`, `switch`, `restarts` |
| `NodeProperties` | what must hold of `Node` | also the refinement mapping to `SnakeChain` |
| `Sync` | the node beside peers that answer | which arrivals, which fairness, `CatchesUp` |
| `NodeMC` | universes of blocks for the runs | `StartSpec` and `FoundedSpec` |
| `SnakeChain` | the abstract promise about the active chain | `SnakeChainMC`, `SnakeChain_proofs` |
| `Recovery` | the request scheduler, and the calls that are refused before they consult it | `RecoveryMC`, `Recovery_proofs` |
| `RecoveryBridge` | the scheduler and a caller that keeps to `NextCall` | `HeedsRefusals`: does the `Idle` of a refused call count? `RecoveryBridgeMC` |
| `StagedValidation` | the Tier 1 gate | blocks as records with their effects |
| `Ledger` | what one effect of a block checks, does and undoes; the per-block checks, the commit, the tail's obligations | pure operators on a ledger record |
| `LedgerNode` | the per-block step of a Ready node, effect by effect | a second state machine: `led`, `chain`, `tail` and the call in progress |
| `LedgerProperties` | what must hold of it, and the processing pass over a segment | `LedgerMC` holds the instance, `Ledger_proofs` and `Replay_proofs` the proofs |
| `FoldLemmas` | least and greatest elements; what a fold over a set or a sequence keeps; sums over finite sets | lemmas of every module of proofs but `Recovery_proofs` |
| `Chain_proofs` | the operators of `BlockTable` to `DominantChain` | what each returns, keeps and deletes: the tables, then the tail, the continuation, the driver and a pass |
| `Node_proofs` | the theorems about `Node` | its inductive invariant and its four results |
| `Links_proofs` | the theorems about a node's links, branch counts and tips | a second invariant, on top of that of `Node_proofs` |

`BlockTable` <- `ChainHeads` <- `ActiveChain` <- `DominantChain` <- `Node` extend one
another the way the Rust modules call one another. The state of a node is one
record; an operator takes it and returns it changed, so a code sequence
`a(); b();` reads `B(A(t))`, and one action of `Node` is a whole public call with
everything it triggers. A loop over slots or entries is a fold in the code's
order. Walks along parent links are `Path`. Where the code reads storage in a
call, `unread` is the set of blocks whose reads fail during it. An intermediate tree is
the argument of the next operator and not a LET name: TLC's cost statistics
(`-coverage`) expand a definition once per use, and nested LETs would make
that tree exceed its memory.

Code and model correspond so: `blocks`, `heads`, `active_chain_head_idx` (`active`),
`snake_chain_tail_idx` (`tail`), `active_branch_value` (`value`),
`tentative_config_block_idx` (`tentative`), `lifecycle_phase` (`phase`),
`restart_refused` (`refused`: no block is taken in any more, but a chain may still be founded). `ReceiveBlock` is `receive_block` with
`classify_block`, `tier1_admit`, the acquisition loop, the continuation, the
side-branch driver and the switch decision; `ProcessGenesis(done)` is
`process_genesis` in which the first `done` durable writes succeed;
`InitializeFromStorage` is a stop at a call boundary and the restart after it. With
`Crashing`, a call may also be cut off after its durable writes: `Finish` then
leaves a node that is `Down`, with `store` and `durable` as the call wrote them. Every call
writes at most one block and one configuration, in that order, and what it does
after them is in RAM, so this is every interruption between two writes but one:
a stop after the block and before the lock, which is the failing write of the
lock followed by a restart. `switch` records what `switch_toward`, a stub, was called with.

The ledger is a model of its own, because a step of it is much smaller: where `Node`
takes the verdict on a block from a constant, `LedgerNode` computes it. `Begin` is
the gate, the tail-drop check and the block's own checks; `Apply` is one effect of
one transaction; `Derive` the checks at the end of `derive_block`; `SaveFails` and
`VotesRefuse` the two failures after it; `Commit` is `commit_block` with the tail
release; `Refuse` and `RefuseEnd` start the inversion, whose steps are `Undo`. A
block is the sequence of its effects: a complex transaction is its inputs, its
outputs and a closing effect that takes its fee. `Pass` is `run_processing_pass`
over a segment of the chain, with the same operators in a projection that is not complete.

The two models meet in the obligations: `Duty` and `Kind` in `Node` are what
`Obligations` computes in `Ledger`, whose `OneObligation` shows that a block owes at
most one thing, so that one value of `Duty` is enough; and in the verdicts:
`JoinerAgrees` shows a block's verdict to depend on its chain and not on where the
node started, which is what makes `BadBlock` a constant.

A comment "Mutant:" marks an operator that is not part of the model: it is the
definition after it as a plausible mistake would have it, and `PROJECT.json` pairs
it with the property that must then fail.

### Abstractions

- A block is its hash, an integer, so that the order of hashes is the code's
  big-endian order; sequence, previous hash, votes, size and payload kind are
  functions of it.
- Verdicts that need the block's bytes are constants: `BadContext` (Tier 2 finds
  evidence), `BadBlock` (a full derivation does), `BadVotes` (the vote engine
  refuses it after the write). A verdict depends on the block and its ancestry,
  which its hash fixes. In `unread`, a block stands for any local failure of its
  judgement: it is no evidence. The early signature check only finds evidence a
  derivation finds too, and is within these sets.
- What a dropped block owes (`Duty`: a seed source or unspent outputs) is a
  constant of the block in `Node`. In the code a seed source or an output can be
  used up before the block drops, as it is in `LedgerNode`; then the obligation is weaker.
- All configurations declare the same window length W and the same intervals; they
  differ in their size limit. Acceptance of a content by the configuration
  crate is taken for granted; a refusal has the effect of an unreadable block.
- In `Node` a read that fails during a pass is no evidence. The look ahead for the number
  of nodes is the exception, and the run `unread_floor` is about it.
- In the ledger, identifiers of blocks are sequences, since it follows one chain.
  Signatures are the name of the key that made them. The vote engine is an
  external crate: whether a vote header holds (`votesOk`), whether a balance entry
  repeats the votes (`votesMatch`) and whether the engine can apply the block
  (`applies`) are fields of the block.
- The code's index self-repair after a `MissingBlock` error and a parent cycle
  are not modelled; the passing runs reach neither, and the finding on restarts
  shows how the first is reached.
- A refused or unstorable block changes nothing and is no step.
- Timestamps are in `Recovery` only. There a tip entry is reduced to whether it
  waits, when it was last asked for and its rank, and a call may change the table
  in any way that keeps what `recompute_caches` and `insert_head` do to timestamps.
  A refused call (`Refuse`) may come at any time: a transaction while the node is
  not Ready, a second `initialize_from_storage`, a block after a refused restart.
  Whenever a head waits the tree is not empty, so the second of these is refused
  then, in every phase. On a Ready node the two transaction calls have no body yet.
- The processing order inside `connect_side_branches` is the lowest pending entry
  first, repeated; the code's loop over entries visits them in the same order and
  a judged one is not pending again.

## What is checked

Bounds: `MaxBlocks`, `MaxBranches` and `MaxRestarts` of the .cfg files, and `W`, `MaxNodes`,
`AmountBound` of the ledger; the universe of blocks is finite, so nothing else needs one,
except `MaxTime`, `MaxArrivals` and `MaxEpoch` of the smaller modules.

| run | question | bounds |
|---|---|---|
| `node_fork` | do the tables, counts, caches and values stay exact under forks, orphans and evictions? | 9 blocks, 7 slots, 3 entries, W = 3 |
| `node_long` | the same as the window slides over twice its length, with slot reuse and a restart anywhere; the chain moves forward, keeps its configuration, resumes | 10 blocks, 6 slots, 5 entries, W = 3, 1 restart |
| `node_join` | does a node that joins among two configurations acquire a good candidate in any order of arrival, and catch up if its requests are answered? | 7 blocks, 7 slots, 5 entries, W = 3, one bad block |
| `node_faults` | does a bad or unreadable block ever get in, or push the chain back? | 9 blocks, 6 slots, 4 entries, bad blocks of each kind, flaky reads, 1 restart |
| `node_config` | is the configuration locked once, and enforced, through failed writes, stops inside a call and restarts? | 5 blocks, 5 slots, W = 2, two configurations with different limits, a flaky block, 1 restart |
| `snake_chain` | does the contract keep the window and its configuration? | line of 8 and a fork, W = 3, batches of up to 5, 3 restarts |
| `recovery_calls` | is the wake-up of a call that is not refused exact and the choice the oldest, whatever calls do? | 2 entries, 2 ranks, 2 cadences, clock 0..6, which saturates |
| `recovery_timely` | how long can a waiting head wait, if the bridge keeps its wake-up when a call is refused? | 2 entries, 2 ranks, 3 arrivals, clock 0..8, refused calls, the retry interval equal to, above and below the other |
| `ledger` | is a failed step undone exactly, value conserved, no output spent twice, the roster exact, and does every late joiner derive the same? | chains of 7 blocks, W = 4, 3 roster slots, 4 keys, amounts below 16 |
| `restart_overflow`, `unread_floor`, `stale_fragment` | the disagreements below | – |

`NodeSound` is all of a node's state agreement at once: `TypeOK`, `LinksExact`,
`RefsExact`, `TipsTracked`, `RecoveryExact`, `StatusClosed`, `BranchValueExact`,
`WindowExact`, `TentativeSound` and `EvidenceExcluded`; `node_fork` states its parts one by one, so
that a failure names the part.

Why the bounds are enough for these questions: W = 3 is the least window with an
inner block; the universes hold a fork on the active chain, one beside it and one
within a fragment; chains are longer than the window, so that the tail moves and
slots are reused while heads still name them; tips exceed entries in `node_fork`,
so that evictions occur, from every position. `node_join` has two configurations on
sibling branches and one above the other, so that a candidate is adopted, refused
and found again. Every block may arrive at any time and again after it was
deleted, so runs of any length are covered over these universes. In the
ledger, the candidates for each height succeed, fail at every kind of effect, or fail on
some chains and succeed on others; three roster slots and four keys make the
roster full; amounts below 16 make sums overflow; seven blocks let outputs of block
2 be spent, carried and dropped, and W = 4 gives every late joiner's window a balance block.

Two restrictions are deliberate and named. `Orderly` (in `Sync`) leaves out the
two kinds of arrival after which the tip table names a wrong missing parent (findings 4,
5 and 9; the .cfg files of 4, 5 and 9 use `ServingSpec` of `NodeMC`, without it); and the passing runs with restarts have entries enough that a restart does
not evict, which finding 1 is about. `FoundedSpec` starts from a node that founded
its chain, so that the Ready half is explored deep. Deadlock is not checked
where the universe can be used up; the scheduler of `recovery_calls` never stops, and
there it is checked.

**Refinement.** `ImplementsSnakeChain` maps a node to `SnakeChain`: `chain` is the
hashes from tail to active head while Ready and empty before, `epoch` counts
restarts. A call of the node is one step there: `Adopt` for an acquisition or a
founding, `Extend` with as many blocks as the continuation appended, `Restart`,
or a stutter.

**Liveness.** The crate has no scheduler of its own, so fairness can only be asked of
its surroundings. `AnsweredSpec` asks for one thing: a block that some head asks for, that
peers keep and that the node can take in now, arrives in the end or is no longer asked
for (`AnswersArrive`). It is weak fairness of that arrival. Gossip owes nothing:
no block needs to come unasked. The code justifies it on the node's
side: `on_tick` repeats a request until the block is there, so that a peer which holds
the block is asked again and again (`Served` and `OldestFirst`, under the bridge named below). Peers keep a block if it stood their test (`Kept`). `CatchesUp` then says
that every fragment comes to rest: in the end a head waits only for blocks that the node refuses
whenever they come (bad ones, other configurations under a lock, blocks out of the
window). What `CatchesUp` does not say is that the node becomes Ready: acquisition may
be without a configuration (finding 2) or give up on a candidate (finding 7).

The rest of what must eventually happen is stated as bounded response, with no fairness:
`NoPendingWork`, `Acquired` and `SwitchComplete` say that a call leaves
nothing undone that it could do, and `Served` bounds the wait of a head under a
bridge that keeps to `NextCall` (which the documentation of `NextCall` asks of
it), by the longer of the two intervals and one request interval per other arrival.
The bridge is not part of the crate, and the bound depends on what it makes of a refused
call, whose `Idle` says nothing of the heads that wait (finding 11). `HeedsRefusals = FALSE` is the bridge that goes by the
outcome (`NotReady`, `AlreadyInitialized`, `Unstorable`) and keeps the wake-up it had; `Served` is
checked and proved of it. With `HeedsRefusals = TRUE` it is false: `RecoveryForgetful.cfg`.
An arrival counts as a head that begins to wait; a head that is only extended goes on waiting
from where it was, also if it was never asked for (`Newcomers`).
The configuration does not order the intervals: with a retry interval below the
request interval the latter is what even a lone head waits for.

### Disagreements found

Each is the shortest history that contradicts a comment of the code, quoted in
`PROJECT.json`. Three are runs; the others have a .cfg file beside the runs' ones, to be
checked by hand (`tlc -config EvictedTentative.cfg NodeMC`).

1. `restart_overflow`: a restart that finds more tips than entries evicts before
   the branch counts are computed and deletes blocks other branches stand on
   (`chain_heads.rs:481`).
2. `Stranded.cfg`: a failed pass deletes the block of the tentative configuration; the
   node then holds none, although it retains another configuration block, which a
   restart would take (`api.rs:2942`).
3. `unread_floor`: if the one read that tells how many nodes a segment may name
   fails, the pass goes on with a watermark of zero, and the recovery deletes the first block
   that names a node (`api.rs:3223`).
4. `OrphanGap.cfg`: the block between two orphan fragments arrives. The upper
   fragment's head keeps asking for that block although it is retained:
   `recompute_caches` overwrites the entry's own tail before it searches for the
   entry to copy the hash from (`chain_heads.rs:314`).
5. `OrphanFork.cfg`: by the same order of steps a fork inside an orphan fragment
   that takes a lower entry than its sibling keeps an all-zero missing parent.
6. `EvictedTentative.cfg`: an eviction deletes the block that supplied the tentative
   configuration; `tentative_config_block_idx` "cannot go stale" (`api.rs:784`), but does.
7. `MixedConfig.cfg`: with two configurations on one branch the retry goes to
   another candidate, whose good block is deleted because the adoption is spent (`api.rs:2601`).
8. `UnboundedWindow.cfg` (module `LedgerMC`): in a segment with no balance block the first-voted node is judged
   by a watermark of zero, which the comment of the check excludes (`api.rs:3502`). Such a
   segment needs balance blocks that list nobody; the tail-drop binding accepts them,
   against the premise "FR50 coverage" of `Projection::COMPLETE` (`api.rs:615`), since
   it looks at the kind alone (`snake_chain.rs:107`).

9. `stale_fragment`: the arrival of finding 4, with a fork in the lower fragment. The
   upper fragment's entry is passed over when the fragments connect, since it asks for the
   wrong block, so it stays `Stored` with a root that is on the active chain by then. When
   the tail comes to lie below that root, `reclaim_stale_fragments` deletes it with
   the active head among its descendants (`api.rs:4900`). The node stays `Ready` with neither
   head nor tail, against `api.rs:5179`, and against the premise of the reclamation at
   `api.rs:4886`.
10. No .cfg: the comment at `chain_heads.rs:915-922` says that
   eviction cannot strand a tip, but the walk stops at an active block and drops the entry, so that a
   collecting node's genesis block can be left as a tip without an entry (with two
   entries: genesis, a child of it, then two fragments).
11. `RecoveryRefused.cfg` (module `RecoveryMC`): a call that is refused returns `NextCall::Idle`, defined as "Nothing
   scheduled; do not wake", while a head waits and a request is or will be due
   (`api.rs:5057`, `5072`, `1568`). The transactions are refused exactly while a node is collecting, and
   fragments wait. `scheduler.rs:5` says that the minimum of all deadlines comes with every state-changing
   outcome. `RecoveryForgetful.cfg` (module `RecoveryBridgeMC`) shows what becomes of it: a bridge
   that takes the `Idle` at its word has no wake-up left, and unless another call is made the head is never asked for.

## What is proved

`Node_proofs`, for every universe of blocks and configurations, all sizes of the two tables,
every window length, every set of bad and flaky blocks, with founding, failed writes, reads that fail in any
call, stops inside calls and restarts (`Spec` of `Node`, with any order of arrival; not only the orderly
ones):

- `EvidenceStaysOut`: `Spec => []EvidenceExcluded`;
- `LockOnce`: `Spec => LockIrrevocable`;
- `LockGoverns`: `GenesisFits => (Spec => []LockEnforced)`;
- `NodeTypeOK`: `Spec => []TypeOK`.

None of them is inductive. `EvidenceExcluded` speaks of a Ready node, which a
restart makes out of what a collecting one held; `LockEnforced` needs to know that the
blocks a pass judged are the ones it promotes. The invariant `NodeInv` says for every phase what of the tree
can be relied on: blocks are distinct and only retained ones are on the active chain
(`Distinct`, `Clean`); no verdict stands against the evidence (`Evident`); a Ready
node has the lock and, while it has a window, has judged all of its active chain (`Judged`); a collecting one has
nothing on it but a genesis block (`Rooted`); under a lock every retained block fits (`AllFit`); and unless the
device is down, RAM and the durable slot agree on the lock (`Agreed`). TLC checked
`NodeInv` as an invariant over the universes of `node_config`, `node_faults`, `node_join`,
`node_fork` and `stale_fragment` before it was proved; the last one is why `Judged` asks for a window.

The argument goes up the layers of the code (1 to 3 in `Chain_proofs`, 4 in `Node_proofs`), and each layer needs one relation between the
tree before and after:

1. `Reduces`: every operator of the two tables adds no block, moves
   none, judges none and puts none on the active chain, however it deletes, evicts or
   relinks. So evictions and deletions, the part most entangled with orders of arrival, cannot
   hurt these properties, and the proof never needs to know that counts or caches are right.
2. `Serves`: what the continuation, the tail release and the
   side-branch driver make of a Ready node.
3. `Gathers` and `Acquires`: what an acquisition makes of a collecting node if it gives up and
   if it succeeds. Its hard lemma is about a pass that succeeds: each block
   of the path has passed `derive_block`, the oversized ones stop the lock, and the
   clean-ups after the lock remove the rest.
4. `Settles`: each public call, with one lemma per operator of `Node`
   down to `FoundBlock` and the reload of storage; `Finish` and a stop inside a call are one lemma for all of them.

Loops are folds, and the library's induction theorems take an operator as a parameter.
The lemmas of `FoldLemmas` therefore take a fold's step as a function on a set
of good states (`RunInvariant` and its kin); that is why loop bodies have names of their own in
the modules (`ExtendOnce`, `ConnectAll`, `LoadSlot`): each is shown equal to a function
on that set, and then the lemma applies. Assumptions: those of the
modules (`NodeAssumption` and the ones of the constants of `BlockTable` to `DominantChain`). `LockGoverns`
has a hypothesis, `GenesisFits`: a genesis block carries no configuration and is within the size limit of all.
It is needed: the clean-up of a lock skips the active chain because a pass has
measured it (`api.rs:5423`), and the chain of a restarted, collecting node is its genesis block,
which no pass has. All universes of the runs satisfy it.

`Links_proofs`, for the same constants and the same `Spec`:

- `LinksHold`: `Spec /\ [][Restart => RestartFits]_vars => []NoDanglingLink`;
- `CountsHold`: `Spec /\ [][Restart => RestartFits]_vars /\ []Roomy => [](RefsExact /\ TipsTracked)`;
- `AmpleTables`: `MaxBranches >= MaxBlocks => (Spec => [](NoDanglingLink /\ RefsExact /\ TipsTracked))`.

The properties are entangled: an eviction trusts the counts when it decides how far down a branch it may delete, the
counts are right only if the links are, and `on_block_admitted` keeps a count right only if it knows whether the parent
has an entry. The invariant is `Firm`: every link leads to a retained block one sequence lower (`Tied`); no block counts fewer
branches than it has children (`Covered`); every entry is a tip of its own that counts a branch (`Tipped`);
and, as long as the tip table has never overflowed, every count is exact and every tip has an entry (`Full`). The first three
are what an eviction needs: it goes on below the victim's tip only over blocks that count one branch, so over
blocks with one child, and what it deletes takes no parent from anybody (`EvictFirm`). So `LinksHold` is not restricted to nodes
that evict nothing. Its hypothesis is finding 1: `rebuild_from_blocks` evicts before there are counts, so a restart must
find room for its tips (`RestartFits`); `restart_overflow` shows the rest. `CountsHold` asks besides that a new block which finds a
slot finds an entry (`Roomy`): with an eviction a block may be left as a tip without an entry (finding 10), and the count of
such a block is wrong once it gets a child. A node with as many entries as slots satisfies both (`AmpleTables`).
So does every state of `node_long` and `node_join`, whose entries are fewer than the slots but as many as the branches
need. TLC checked `Firm` over the universes of `node_long`, `node_join`, `node_config`, `node_faults`, `node_fork` and
`stale_fragment`; in the last one an eviction does leave a tip without an entry, and there only the part without `Full` holds.

Each kind of step has one lemma about what becomes of a firm tree:

1. A step that leaves blocks, links, counts and tips alone (`SameTree`): caches, statuses, branch values, the two ends of the
   active chain, the configuration.
2. A deletion (`CutFirm`): what goes is closed under children and hangs together below one root (`SubtreeFacts`), whose parent
   alone may have become a tip; `on_blocks_deleted` gives it the entry of a tip that went.
3. A step of the tail (`MoveTailFirm`): the forks go first, which cannot reach up to the new tail; then the released block has
   one child, which becomes a root (`ShedFirm`).
4. An attachment (`HangsFirm`), an admission (`AdmittedFirm`) and an eviction (`EvictFirm`): whether an entry moves up or the parent
   counts one branch more.
5. The rebuild from storage (`LinkSlotsTied`, `RebuildFirm`): links from headers, one entry per tip, then the recount.

Ancestry, paths and subtrees are recursive; `PathDescends` (the path goes one sequence lower each step) and
`AncestryLeast` (the ancestry is in every set closed under parents) are all that the proofs use of them.

`Recovery_proofs`, for every set of entries and ranks, all intervals and any end
of the clock:

- `TypeCorrect`, `TimestampsRecorded`: `Spec => []TypeOK`, `Spec => []Recorded`;
- `WakeUpExact`: `Spec => OnlyRefusalsForget`: every call that is not refused leaves an exact
  `NextCall`, whatever was refused before it, and time takes nothing from that;
- `WakeUpHonest`: a `wake` that names an instant is exact, always. So a refused call can hide
  a wake-up but never falsify one;
- `LongestWaitingFirst`: `Spec => OldestFirst`.

`WakeExact` itself is no theorem: finding 11 refutes it.
The inductive invariant is the conjunction of the type, `Recorded` and the fact that
`wake` is `Idle` or `NextCall` of the state the last call left (`WakeCurrent`). What a step does to `WakeExact` does not follow
from `WakeExact` before it, which quantifies over later instants and says nothing of how `wake` came
about; with `WakeCurrent`, `NextCallExact` derives it from the definitions of
eligibility and cool-down alone. Preservation is one step per action; the calls
share `CallInvariant`. `LongestWaitingFirst` needs `Recorded` and monotonicity of
eligibility in the timestamp: a head asked for before an eligible one is itself eligible.
Assumption: `RecoveryAssumption` (the clock's end and the intervals are natural
numbers, ranks are some).

In the same module, about the scheduler under a bridge (`RecoveryBridge`):

- `WaitBounded`: `~HeedsRefusals => (BridgeSpec => []Served)`.

`Served` is far from inductive: it says nothing of a head until its time is up. `BridgeInv` says how the wait
is spent: the next request goes out by `Turn` at the latest, because the bridge keeps to an `alarm` that is
exact (it is `NextCall` of the present state: a refused call changes neither; `WakeByTurn`), and it is for the head or for one of the `Ahead`, those asked for no later
(`OldestIsAsked`). Each request to another head moves the turn by at most one interval and takes that head out of
`Ahead` (`StaysInTime`); a newcomer may enter `Ahead` but is taken from the arrivals to come, so
turn plus delays never grows. Two heads asked for at the same instant, which a request interval of zero
or a clock at its end allows, may stay ahead of one another; then the turn does not move either.
Assumption: `BridgeAssumption` (the tip table is finite). TLC checked the
invariant on the instance of `recovery_timely` first.

`SnakeChain_proofs`, for every block universe, every W > 1 and batches of any
length:

- `ChainIsWindow`: `Spec => []ChainOK`;
- `ConfigurationStays`: `Spec => ConfigStays`.

The invariant is the type and `ChainOK`. `ConfigStays` is the harder one: if the
last configuration block leaves in a call that appends several blocks, the block
that pushes it out carries a configuration, and it must still be inside when the
call ends. The proof (`ExtendCarries`) takes the last configuration block of
the whole line and shows that it lies in the final window, because otherwise the
block W above it would be a later one. Assumption: `WindowAssumption`.

Together with the run of `ImplementsSnakeChain`, what is proved of `SnakeChain` holds of
the node on the instances checked.

`Ledger_proofs`, for every universe of blocks, roster size, bound of an amount and
window length W > 1, and through every failure and inversion of a step:

- `BitsFollowChain`: `Spec => []UnspentExact`;
- `ObligationsSingle`: `Spec => []OneObligation`;
- `TailRestated`: `Spec => DropsRestated`;
- `LedgerTyped`: `Spec => []TypeOK`;
- `Tier2Agrees`: `Spec => []Tier2Sound`;
- `InverseHolds`: `GenesisForm => (Spec => []InverseExact)`;
- `RosterHolds`: `GenesisForm => (Spec => []RosterExact)`.

None of the first three is inductive: they speak of the ledger between two blocks, and
while a step is under way nothing says what it started from. The invariant `IInv`
says it: the ledger `base` before the step is `Settled` (its sources are homes, that is
balance blocks or blocks with a registration, inside the window; its bits are
those of the chain), and `led` is `base` changed by exactly the effects in `done` (`Effects`):
the bits lack what those effects spent, each output once and each set in `base`, and
a source has moved only for a node one of them registered. So a
commit finds all its spends distinct and old, an inversion gives
each one back, and when `done` is empty again `led` is settled as `base` was. `AppliedFields` and
`UndoneFields` say what one effect and its inverse touch; `UndonePosition` that the
inversion's order always finds an effect that stands; `Commitment` and `Release` how
`Settled` follows the chain and its tail. `ObligationsSingle` rests on the gate: a block
that registers a node has no outputs (`KindsApart`). `TailRestated` needs it
in turn, because `tail_drop_allowed` judges the first obligation only, and it judges `base`,
before the effects, where the release comes after them. Assumptions:
`LedgerAssumption` and `UniverseAssumption` (only a block of transactions has effects,
each of a known kind).

`Tier2Agrees` needs what a committed block's inputs were when they were spent (`InputsInv`): an
output of the right amount in a block not older than W. The window only moves up, so whatever the early
check still finds in it was there at the derivation.

`InverseHolds` and `RosterHolds` are one induction, `RosterInv`, since an inversion is exact only for
a roster without gaps (it sets the watermark back to the number before the one it clears, and clears the
slot to what an unregistered one holds), and the roster has no gaps only if
inversions are exact. What relates `led` to `base` while a step is under way
differs by the kind of block, because the code inverts the transactions from the last to the first but
in a complex transaction the outputs before the inputs, and checks nothing again:

- A block that registers somebody has transfers and registrations only (`KindsApart`). Whether a node pays and
  whether a receiver is credited depend on the roster, which changes on the way, so the order matters:
  `Traced` says that `led` is the last of a sequence of ledgers that begins with `base`, each the
  result of one effect, and `StepInverse` inverts one effect from the ledger it left.
- Any other block leaves the roster alone, and then the order does not matter: `Summed` says that every
  balance is that of `base` with the wrapped sum of what the effects in `done` moved; an inversion
  takes one term away, in any order, whatever wraps on the way (`FlowsGrow`, on `GathersUp` of `FoldLemmas`).

`Sprouted` and `Standing` say what the roster is at each point: contiguous up to the watermark, keys all
different, blank above it, the anchor at node 0.

Two more assumptions are used. `ParsedAssumption`: fields have their widths, effects lie in the order of
their transactions, and nobody proves possession of the all-zero key (which would make a slot with a key look empty).
`GenesisForm` is a hypothesis: a genesis block registers node 0 and nobody else.
`process_genesis` builds it so (`api.rs:1162`), and
neither the gate nor the derivation checks it: block 0 is exempt from the check that a registration takes the next number
(`api.rs:3671`), and does not advance the watermark. With any other genesis block, `RosterExact` is
false and an inversion sets the watermark to a number it never had. `LedgerMC` asserts that its universe satisfies it.

In the same module, about what the effects are worth:

- `ValueHolds`: `GenesisForm /\ GenesisFunds => (Spec => ValueConserved)`.

The property compares two commits; the proof keeps an account of the step between them (`ValueInv`): what
`led` holds and what the effects in `done` have paid is what `base` held and what they got, the fees are the
sum of those effects' fees, and the creator is on the roster, which its signature shows at `Begin`.

1. `EffectValue`: an effect takes from the holdings what `Paid` says and adds what `Got` says. This needs every check of
   `derive_block`: the payer is derived and can pay, the receiver is on the roster and the credit fits (`PaymentCovered`), the
   slot of a new node was blank (`SlotBlank`), the bit of a spent output was set and its block gives it the amount that the
   input names (`OutputTaken`). `RosterInv` gives the roster without gaps that a node "in range" needs to be one that is there.
2. `BlockAccount`, about a block alone: its outputs, the reward and what it destroys are its inputs, flat fees, prices and
   what it creates. Sums over effects are taken transaction by transaction (`SumOnGroups`), and
   the gate compares the sides of each (`TransactionBalance`).
3. `CommitConserves`: the reward fits (`EndAdmitted`) and reaches the creator, new outputs become bits that
   `OutputAmount` finds again (`NewOutputsSum`), old ones keep their amounts, and those of the tail are counted as they leave.

`ParsedAssumption` is used in full here: also that a receiver is a number and that a complex transaction ends once.
`GenesisFunds` is a hypothesis like `GenesisForm`: the genesis transfers go to node 0, after its
registration. A transfer of block 0 to a node that is not derived is lost without a word, since block 0 is exempt
from the range check; `process_genesis` makes the one transfer so, and `LedgerMC` asserts it of its universe.

`Replay_proofs`, with the same constants:

- `JoinersAgree`: `GenesisForm => (Spec => []JoinsTold)`;
- `JoinersTold`: `GenesisForm => (Spec => [](SegmentsTold => JoinerAgrees))`;
- `AlwaysTold`: `ListsSome /\ GenesisForm => (Spec => []SegmentsTold)`;
- `LateJoinersAgree`: `ListsSome /\ GenesisForm => (Spec => []JoinerAgrees)`;
- `EarlyKeyHolds`: `GenesisForm => (Spec => []EarlyKeySound)`.

`Pass` derives a segment from the bytes alone, with a floor instead of the blocks below it; the ledger of a node that
followed the chain has been trimmed at every tail release since. Neither determines the other, so both are
compared with a third thing: a **replay**, the ledgers `R[0]`, `R[1]`, ... of a node that
derived every block and released nothing (`Replays`). Such a history exists along every behaviour
(`ReplayInv`), the ledger the node has is its last one without what is below the tail (`Twin`: sources there are
released, outputs there are gone, all else equal): what the node's checks accept the replay accepts, and effects,
commits and releases keep the two twins (`TwinAdmits`, `TwinBlocks`, `TwinCommits`, `TwinReleases`). Then the segment is
run against the replay, block by block and effect by effect (`SegmentFollows`): the pass accepts each effect and stays
`Joined` to the ledger of the replay at the same place. That is: a node it has learnt of has the key and the balance of
the replay, its outputs are those of the segment, and its watermark is that of the replay or, until the first balance
block, what the look ahead found, which is not below it (`Bounds`; rosters only grow, `ReplayLasts`). A payer the pass has not seeded is trusted, and
never changes what it has of others; a balance block seeds exactly what the replay has (`EntriesKnown`). The last step
trims both at the tail.

`Pass` is a fold over a segment of any length of folds over blocks of any length; what a fold keeps
is a lemma of `FoldLemmas`, so no induction over data is needed: the statement is about what each step keeps.

Where the hypothesis `SegmentsTold` comes from: a segment can bound the first-voted node of a block only
if it holds a balance block. `UnboundedWindow.cfg` shows a segment without one refused, so `JoinerAgrees` is no theorem
by itself; `JoinsTold` is what holds of every segment (`VotesTold`: one with a balance block, or whose blocks vote first for
nobody but node 0 and their creators). `AlwaysTold` says when all are such: if no
balance block is empty (`ListsSome`). A complete projection accepts a balance block only if each entry is of a node it knows, so a
block with an entry becomes the source of somebody; and the tail passes a source only at a balance block, which is in the
window then. So once the genesis block has left, every window has one (`HomeInv`, checked by TLC on the
instance of `ledger` first). The code does not check `ListsSome`: `derive_block` takes an empty balance
block (`api.rs:3414`). `LedgerMC` asserts it of the universe of `ledger`.

`EarlyKeyHolds` uses the replay too. A key that `key_is_branch_independent` trusts has its source at or below the tail: the replay knew the
node there, and keys last.

One more assumption, `HeaderAssumption`: node numbers in headers and votes are natural numbers, and the
entries of a balance block are a sequence.

What is only model-checked, and why:

- `RefsExact` and `TipsTracked` where evictions occur, as in `node_fork`.
- `LinksExact`, `RecoveryExact`, `StatusClosed`,
  `BranchValueExact`, `NoPendingWork`, `WindowExact`, `ForwardOnly`, `Acquired` and with them `NodeSound` and
  `ImplementsSnakeChain`: they are not theorems of `Spec`, because the findings above
  refute them where entries are too few for a restart or an arrival leaves a stale cache. They hold
  in the universes of the runs, whose restrictions are named, and a proof would have to carry "orderly"
  through every operator. Of `LinksExact`, the part that no link dangles is a theorem.
- `ConfigStays`, `RestartResumes`, `SwitchComplete` and `StaleReclaimed` of a node: the same. `ConfigStays` and the
  window are proved of `SnakeChain`.
- `CatchesUp`: liveness.
- of the ledger, nothing: each property of `ledger` is a theorem, under the hypotheses named, and
  the run is the instance on which those hold and the failures happen.

## Not modelled, and why

- The vote engine and the configuration crate: external, see the abstractions.
- The index self-repair after a `MissingBlock` error (with its guard against dangling
  parents) and parent cycles: guards against a defect, which no history of the passing
  runs reaches; finding 1 shows how the first is reached.
- A second `initialize_from_storage` on the same object after a refused one, which the code
  takes as long as the tree is empty, without clearing `restart_refused`: a `Restart` of the model
  is a new process.
- The lifecycle's transition table (a debug assertion), the statistics of a
  rebuild, the hint a refused block returns to its sender.
- Byte framing, padding and the parsing of payloads: a block that does not parse is
  no record of the models.
- `switch_toward` and the other stubs: there is no code yet.
- PRNG, in-place construction: no behaviour the rest depends on.

Share of the source: more than half of the crate's lines are unit tests in the same
files, and a third of the rest are documentation comments and type declarations. The
map names function bodies only, nearly all of those outside the tests.

## What could follow

An abstract tip index (the set of tips and what each lacks) that `ChainHeads`
implements; configurations with different window lengths, where an adoption can make a
candidate too short; the caches of the tip table for orderly arrivals, on top of `Firm`; and the switch, once the code has one.
