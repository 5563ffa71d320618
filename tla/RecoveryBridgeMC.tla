-------------------------- MODULE RecoveryBridgeMC --------------------------
(* Values for the run of RecoveryBridge. *)
EXTENDS RecoveryBridge

\* The retry interval as long as the other one, longer and shorter.
BridgeCadences ==
  {[minEmit |-> 2, retry |-> 2], [minEmit |-> 1, retry |-> 3], [minEmit |-> 2, retry |-> 1]}
=============================================================================
