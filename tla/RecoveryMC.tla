----------------------------- MODULE RecoveryMC -----------------------------
(* Values for the run of Recovery. *)
EXTENDS Recovery

\* A slow and a fast configuration: the intervals change under the scheduler.
TwoCadences == {[minEmit |-> 1, retry |-> 3], [minEmit |-> 2, retry |-> 2]}
=============================================================================
