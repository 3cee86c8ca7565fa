--------------------------- MODULE MCResourceScope ---------------------------
(* ResourceScope for TLC: every duration a few ticks, in the order           *)
(* ValidTimingPolicy demands, and a horizon past the last event that matters. *)
EXTENDS ResourceScope

\* The last scope starts before the run's end and lives ScopeRuntime at most.
HorizonCoversRuntime == Horizon >= OperationTimeout + ScopeRuntime
ASSUME HorizonAssumption == HorizonCoversRuntime

=============================================================================
