------------------------------- MODULE MCPanel -------------------------------
(* Panel for TLC: two plugins, and enough requests for a review to be closed  *)
(* and the panel opened again before its process is over.                      *)
EXTENDS Panel

ASSUME BoundsAssumption == Plugins >= 2 /\ MaxRequests >= 3

=============================================================================
