--------------------------- MODULE MCSandboxRunner ---------------------------
(* SandboxRunner for TLC: limits of two and one byte, so that a stream can    *)
(* stay below, meet and exceed its limit.                                     *)
EXTENDS SandboxRunner

ASSUME BoundsAssumption ==
    MaxWritten > MaxReportBytes + 1 /\ MaxWritten > MaxStderrBytes + 1

=============================================================================
