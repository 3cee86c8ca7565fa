----------------------------- MODULE ContainedRun -----------------------------
(***************************************************************************)
(* What resource.Manager.Run promises its caller, without deadlines,       *)
(* systemctl or cgroups: the command it started is dead before the         *)
(* teardown begins, and a teardown without error means that no process of  *)
(* the scope is alive, now or later.  ResourceScope implements this        *)
(* specification and Broker is built on it.                                *)
(***************************************************************************)

VARIABLES
    phase,       \* what Run is doing
    live,        \* who is alive: the command Run started, its descendants
    runErr,      \* cmd.Run failed, or Run refused to start
    teardownErr  \* Terminate failed

containedVars == <<phase, live, runErr, teardownErr>>

Init ==
    /\ phase = "idle" /\ live = {}
    /\ runErr = FALSE /\ teardownErr = FALSE

Refuse ==
    /\ phase = "idle" /\ phase' = "returned"
    /\ runErr' = TRUE
    /\ UNCHANGED <<live, teardownErr>>

Start ==
    /\ phase = "idle" /\ phase' = "running"
    /\ live' = {"command"}
    /\ UNCHANGED <<runErr, teardownErr>>

\* cmd.Run returns with the command reaped, or never started it.
CommandEnds ==
    /\ \/ phase = "idle" /\ runErr' = TRUE
       \/ phase = "running" /\ runErr' \in BOOLEAN
    /\ "command" \notin live
    /\ phase' = "teardown"
    /\ UNCHANGED <<live, teardownErr>>

TeardownEnds ==
    /\ phase = "teardown" /\ phase' = "returned"
    /\ teardownErr' \in BOOLEAN
    /\ live # {} => teardownErr'
    /\ UNCHANGED <<live, runErr>>

\* The process in Run is killed; what it started goes on.
CallerKilled ==
    /\ phase \in {"running", "teardown"} /\ phase' = "killed"
    /\ UNCHANGED <<live, runErr, teardownErr>>

Fork ==
    /\ live # {}
    /\ live' = live \union {"descendants"}
    /\ UNCHANGED <<phase, runErr, teardownErr>>

Die ==
    /\ \E who \in live : live' = live \ {who}
    /\ UNCHANGED <<phase, runErr, teardownErr>>

Next ==
    \/ Refuse \/ Start \/ CommandEnds \/ TeardownEnds \/ CallerKilled
    \/ Fork \/ Die

Spec == Init /\ [][Next]_containedVars

=============================================================================
