--------------------------- MODULE RecoveryBridge ---------------------------
(***************************************************************************)
(* The scheduler of module Recovery under a bridge that calls on_tick no     *)
(* later than the wake-up it keeps, with one loaded configuration.  The      *)
(* bridge is not part of the repository.  NextCall (src/src/api.rs) says how  *)
(* it calls: at the instant the last call gave it, and not at all if that    *)
(* was Idle.  After a refused call this is a choice between two bridges: one *)
(* that heeds the Idle it got, and one that goes by the outcome (NotReady,   *)
(* AlreadyInitialized, Unstorable) and keeps the wake-up it had.             *)
(***************************************************************************)
EXTENDS Recovery, FiniteSets

CONSTANTS
  MaxArrivals,    \* bound on the heads that start to wait
  HeedsRefusals   \* does the Idle of a refused call replace the wake-up kept?

ASSUME BridgeAssumption ==
  IsFiniteSet(Branch) /\ MaxArrivals \in Nat /\ HeedsRefusals \in BOOLEAN

VARIABLES
  alarm,      \* the wake-up the bridge keeps
  since,      \* since[k]: when the head of entry k began to wait
  arrivals    \* heads that began to wait so far

bridgeVars == <<vars, alarm, since, arrivals>>

BridgeInit ==
  /\ Init
  /\ alarm = Idle
  /\ since = [k \in Branch |-> 0]
  /\ arrivals = 0

Tick ==
  /\ QuietTick \/ \E k \in Branch : Emit(k)
  /\ alarm' = wake'
  /\ UNCHANGED <<since, arrivals>>

(* The entries in which a new head waits after a call that leaves the table  *)
(* hs.  It was never asked for, and so may the head of before have been that *)
(* a block merely extended: where both are possible, both are allowed.       *)
Newcomers(hs) ==
  {new \in SUBSET {k \in Stored(hs) : hs[k].lrt = 0} :
     \A k \in Stored(hs) \ new : heads[k].waiting /\ heads[k].lrt = hs[k].lrt}

(* One configuration is loaded, once. *)
Loadable == {c \in Cadences : cadence \in {c, Unconfigured}}

Receive(hs, c, new) ==
  /\ arrivals + Cardinality(new) <= MaxArrivals
  /\ ReceiveBlock(hs, c)
  /\ alarm' = wake'
  /\ arrivals' = arrivals + Cardinality(new)
  /\ since' = [k \in Branch |->
       IF k \in new \/ cadence = Unconfigured THEN now ELSE since[k]]

RefusedCall ==
  /\ Refuse
  /\ alarm' = IF HeedsRefusals THEN wake' ELSE alarm
  /\ UNCHANGED <<since, arrivals>>

PassTo(t) ==
  /\ alarm = Idle \/ (now < alarm /\ t <= alarm)
  /\ Pass(t)
  /\ UNCHANGED <<alarm, since, arrivals>>

BridgeNext ==
  \/ Tick
  \/ \E c \in Loadable, hs \in NextTables : \E new \in Newcomers(hs) : Receive(hs, c, new)
  \/ RefusedCall
  \/ \E t \in Time : PassTo(t)

BridgeSpec == BridgeInit /\ [][BridgeNext]_bridgeVars

(* Every waiting head is asked for again within the longer of the two        *)
(* intervals and one global interval for each other head that began to wait: *)
(* a newcomer, though it goes first, delays it once.  It holds under a bridge *)
(* that does not heed the Idle of refused calls, and only there.             *)
Served ==
  cadence # Unconfigured =>
    \A k \in Stored(heads) :
      now - Later(since[k], heads[k].lrt)
        <= Later(cadence.retry, cadence.minEmit) + (MaxArrivals - 1) * cadence.minEmit
=============================================================================
