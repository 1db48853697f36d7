---------------------------- MODULE MCStreamBridge ----------------------------
(***************************************************************************)
(* Instances of StreamBridge for TLC.                                      *)
(***************************************************************************)
EXTENDS StreamBridgeInvariant, TLC

Symmetry == Permutations(Messages)
===============================================================================
