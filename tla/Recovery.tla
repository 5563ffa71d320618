------------------------------ MODULE Recovery ------------------------------
(***************************************************************************)
(* Parent recovery: when the node asks its peers for a missing parent block. *)
(* on_tick of src/src/api.rs and the selection of src/src/chain_heads.rs.     *)
(* Every call returns the instant of the next one (NextCall), on_tick and the *)
(* calls that do their work from the heads that wait; a call that is refused *)
(* before that answers Idle, whatever heads wait.                            *)
(*                                                                           *)
(* Of a tip entry the scheduler reads whether it is Stored, when it was last *)
(* asked for and its place in the order of (sequence, hash); what else a     *)
(* call does to the tip table is left open, within what it may do to these.  *)
(***************************************************************************)
EXTENDS Integers

CONSTANTS
  Branch,     \* the entries of the tip table
  Rank,       \* places of a head block in the order of (sequence, hash)
  Cadences,   \* the interval pairs [minEmit, retry] a configuration may yield
  MaxTime     \* u64::MAX, where the additions saturate

ASSUME RecoveryAssumption ==
  /\ MaxTime \in Nat
  /\ Rank \subseteq Nat /\ Rank # {}
  /\ Cadences \subseteq [minEmit : Nat, retry : Nat]

Time == 0 .. MaxTime

Idle == -1       \* NextCall::Idle
Unconfigured == [minEmit |-> -1, retry |-> -1]   \* no configuration is loaded

VARIABLES
  heads,      \* per entry [waiting, lrt, rank]: is it a Stored head, when was
              \* it last asked for (0 for never), and its place
  lastEmit,   \* last_parent_request_emit_timestamp
  cadence,    \* parent_recovery_intervals(), as the last call left it
  now,        \* the caller's clock
  wake        \* the NextCall the last call returned

vars == <<heads, lastEmit, cadence, now, wake>>

(* A free entry, or one whose head is Connected: nothing left to ask for.    *)
Resting == [waiting |-> FALSE, lrt |-> 0, rank |-> 0]

Entry == [waiting : BOOLEAN, lrt : Time, rank : Rank \union {0}]

(* Mutant: the addition runs past the last instant. *)
PlainAdd(a, b) == a + b

SatAdd(a, b) == IF a + b > MaxTime THEN MaxTime ELSE a + b

Stored(hs) == {k \in Branch : hs[k].waiting}

(* An entry never asked for is eligible at once. *)
EligibleAt(h, c) == IF h.lrt = 0 THEN 0 ELSE SatAdd(h.lrt, c.retry)

Eligible(t) == {k \in Stored(heads) : EligibleAt(heads[k], cadence) <= t}

CooledDown(t) == SatAdd(lastEmit, cadence.minEmit) <= t

(* Mutant: the place decides before the time. *)
BeforeByRank(h, g) == h.rank < g.rank \/ (h.rank = g.rank /\ h.lrt < g.lrt)

(* Mutant: the head asked for last goes first. *)
LatestFirst(h, g) == h.lrt > g.lrt

Before(h, g) == h.lrt < g.lrt \/ (h.lrt = g.lrt /\ h.rank < g.rank)

Least(S) == CHOOSE m \in S : \A n \in S : m <= n

Later(a, b) == IF a > b THEN a ELSE b

(* Mutant: the interval between two requests is forgotten. *)
NextEligible(hs, emit, c) ==
  IF c = Unconfigured \/ Stored(hs) = {} THEN Idle ELSE Least({EligibleAt(hs[k], c) : k \in Stored(hs)})

(* The wake-up a call leaves behind. *)
NextCall(hs, emit, c) ==
  IF c = Unconfigured \/ Stored(hs) = {} THEN Idle
  ELSE Later(Least({EligibleAt(hs[k], c) : k \in Stored(hs)}), SatAdd(emit, c.minEmit))

Init ==
  /\ heads = [k \in Branch |-> Resting]
  /\ lastEmit = 0
  /\ cadence = Unconfigured
  /\ now = 0
  /\ wake = Idle

(* The entry the tick asks for, if any: the longest unasked one. *)
Emit(k) ==
  /\ cadence # Unconfigured
  /\ CooledDown(now)
  /\ k \in Eligible(now)
  /\ \A j \in Eligible(now) : ~Before(heads[j], heads[k])
  /\ heads' = [heads EXCEPT ![k].lrt = now]
  /\ lastEmit' = now
  /\ wake' = NextCall(heads', lastEmit', cadence)
  /\ UNCHANGED <<cadence, now>>

EmitsAt(t) == cadence # Unconfigured /\ CooledDown(t) /\ Eligible(t) # {}

QuietTick ==
  /\ ~EmitsAt(now)
  /\ wake' = NextCall(heads, lastEmit, cadence)
  /\ UNCHANGED <<heads, lastEmit, cadence, now>>

(* Mutant: a head that connects keeps its timestamp. *)
KeptTimes(h) ==
  {[Resting EXCEPT !.lrt = h.lrt]} \union [waiting : {TRUE}, lrt : {0, h.lrt}, rank : Rank]

(* What a call may make of an entry: an extended or deepened Stored head     *)
(* keeps its timestamp; a new one, and one that connects, starts from zero.  *)
Evolutions(h) ==
  {Resting} \union [waiting : {TRUE}, lrt : {0} \union (IF h.waiting THEN {h.lrt} ELSE {}), rank : Rank]

NextTables ==
  {hs \in [Branch -> UNION {Evolutions(heads[k]) : k \in Branch}] :
     \A k \in Branch : hs[k] \in Evolutions(heads[k])}

NewTables == [Branch -> Evolutions(Resting)]

Configurations == Cadences \union {Unconfigured}

(* An intake call, with whatever it inserts, connects, evicts or deletes,    *)
(* and the configuration it may load, lock or drop.  process_genesis returns *)
(* no NextCall; it leaves no head that waits, and is among these steps.      *)
ReceiveBlock(hs, c) ==
  /\ heads' = hs
  /\ cadence' = c
  /\ wake' = NextCall(hs, lastEmit, c)
  /\ UNCHANGED <<lastEmit, now>>

(* A restart rebuilds the tip table with every timestamp zero, on a clock    *)
(* that may start anywhere.                                                  *)
Restart(hs, c, t) ==
  /\ heads' = hs
  /\ lastEmit' = 0
  /\ cadence' = c
  /\ now' = t
  /\ wake' = NextCall(hs, 0, c)

(* A refused call: a transaction while the node is not Ready, a second       *)
(* initialize_from_storage, a block after a refused restart.  Whenever a head *)
(* waits the tree is not empty, so that the second of these may come.        *)
Refuse ==
  /\ wake' = Idle
  /\ UNCHANGED <<heads, lastEmit, cadence, now>>

Pass(t) ==
  /\ t > now
  /\ now' = t
  /\ UNCHANGED <<heads, lastEmit, cadence, wake>>

Next ==
  \/ \E k \in Branch : Emit(k)
  \/ QuietTick
  \/ \E hs \in NextTables, c \in Configurations : ReceiveBlock(hs, c)
  \/ \E hs \in NewTables, c \in Configurations, t \in Time : Restart(hs, c, t)
  \/ Refuse
  \/ \E t \in Time : Pass(t)

Spec == Init /\ [][Next]_vars

-----------------------------------------------------------------------------
(* The shape of the state. *)
TypeOK ==
  /\ heads \in [Branch -> Entry]
  /\ lastEmit \in Time /\ now \in Time
  /\ cadence \in Configurations
  /\ wake \in Time \union {Idle}

(* No timestamp is ahead of the last request, nor the last request ahead of  *)
(* the clock: whatever a call does to the table, no entry is put on hold     *)
(* longer than the request that was really made for it, and a reused entry   *)
(* inherits nothing.                                                         *)
Recorded ==
  /\ lastEmit <= now
  /\ \A k \in Branch : /\ heads[k].lrt <= lastEmit
                       /\ ~heads[k].waiting => heads[k].lrt = 0

(* The wake-up is exact: as long as nothing else happens, a tick at instant  *)
(* t asks for a parent if and only if t has reached it -- never a wake-up    *)
(* too early, never a request that could have gone out before.  scheduler.rs *)
(* says so of the NextCall of every state-changing call; a refused one       *)
(* breaks it.                                                                *)
WakeExact ==
  \A t \in Time : EmitsAt(t) <=> wake # Idle /\ wake <= t

(* Whatever happened before, a call that is not refused leaves an exact      *)
(* wake-up, and time takes nothing from it: only a refused call forgets a    *)
(* request that is due, and only until the next one that is not.             *)
OnlyRefusalsForget ==
  [][WakeExact' \/ Refuse \/ (~WakeExact /\ \E t \in Time : Pass(t))]_vars

(* The entry asked for is the one asked for longest ago, among all that      *)
(* wait and not only among those whose retry interval is over.               *)
OldestFirst ==
  [][\A k \in Branch : Emit(k) => \A j \in Stored(heads) : heads[k].lrt <= heads[j].lrt]_vars
=============================================================================
