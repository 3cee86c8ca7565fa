---------------------------- MODULE ResourceScope ----------------------------
(***************************************************************************)
(* The outer broker's resource.Manager (internal/resource/scope.go): it    *)
(* runs one command inside a transient systemd scope (Run), then tears the *)
(* whole scope down and confirms that its cgroup is empty (Terminate), all *)
(* inside one absolute operation deadline.                                 *)
(*                                                                         *)
(* The model has an integer clock.  The broker's own computation takes no  *)
(* time; time passes only while the broker waits for a child process or    *)
(* for the next poll, and never beyond waitEnd, the latest instant at      *)
(* which that wait ends.  This is what os/exec promises: a child is killed *)
(* when its context ends and its pipes are closed WaitDelay later.         *)
(*                                                                         *)
(* The systemd user manager, the kernel's cgroup and the processes of the  *)
(* scope are external; they act at any moment between two broker steps.    *)
(***************************************************************************)
EXTENDS Integers

CONSTANTS
    WallTime,                \* policy.WallTime, the scanner's own limit
    ScopeRuntime,            \* policy.ScopeRuntime, RuntimeMaxSec of the scope
    ProcessWaitDelay,        \* policy.ProcessWaitDelay, cmd.WaitDelay
    TeardownTimeout,         \* policy.TeardownTimeout
    TeardownCommandTimeout,  \* policy.TeardownCommandTimeout, for the kill
    PollInterval,            \* the 25 ms ticker of waitCgroupEmpty
    TasksMax,                \* policy.TasksMax, pids.max of the scope
    Horizon                  \* model bound: the clock stops here

OperationTimeout ==
    ScopeRuntime + ProcessWaitDelay + TeardownTimeout + ProcessWaitDelay

\* policy.ValidTimingPolicy; its third conjunct is OperationTimeout's definition.
ValidTimingPolicy ==
    /\ WallTime + ProcessWaitDelay < ScopeRuntime
    /\ TeardownCommandTimeout <= TeardownTimeout

ASSUME DurationsAssumption ==
    /\ WallTime \in Nat \ {0} /\ ScopeRuntime \in Nat \ {0}
    /\ ProcessWaitDelay \in Nat \ {0} /\ TeardownTimeout \in Nat \ {0}
    /\ TeardownCommandTimeout \in Nat \ {0} /\ PollInterval \in Nat \ {0}
    /\ TasksMax \in Nat \ {0} /\ Horizon \in Nat

\* Run returns an error before anything else happens when this fails.
ASSUME TimingAssumption == ValidTimingPolicy

-----------------------------------------------------------------------------
VARIABLES
    clock,
    (* the outer broker *)
    pc,            \* what Run is doing; see Waiting below
    operationEnd,  \* operationDeadlines.operationEnd
    teardownEnd,   \* deadline of Terminate's context
    deadline,      \* deadline of the current child's context, or the next poll
    waitEnd,       \* the latest instant at which the current wait ends
    reply,         \* what the current systemctl child has read from the manager
    cancelled,     \* the caller's context is cancelled
    runErr,        \* Run's runErr # nil
    killErr,       \* Terminate's killErr # nil
    teardownErr,   \* Run's teardownErr # nil
    (* external: systemd-run, the manager, the cgroup *)
    command,       \* the systemd-run process, later the scoped broker it execs
    unit,          \* the transient scope unit
    tasks,         \* number of live processes in the scope's cgroup
    expiry,        \* when RuntimeMaxSec ends the active scope
    killPending,   \* the manager holds an unfinished request to kill the scope
    doomed         \* every process of the scope has been sent SIGKILL

brokerVars == <<pc, operationEnd, teardownEnd, deadline, waitEnd, reply,
                cancelled, runErr, killErr, teardownErr>>
scopeVars  == <<command, unit, tasks, expiry, killPending, doomed>>
vars       == <<clock, brokerVars, scopeVars>>

Calls    == {"LoadState", "ControlGroup", "ActiveState", "Kill"}
Teardown == Calls \union {"Poll", "Sleep"}
Waiting  == Calls \union {"Command", "Sleep"}
Phases   == Teardown \union {"Idle", "Command", "Done", "Killed"}

Replies  == {"none", "malformed", "not-found", "loaded", "empty", "path",
             "active", "inactive", "accepted"}
Commands == {"none", "client", "failed", "joined", "exited"}
Units    == {"none", "requested", "queued", "active", "terminal", "collected"}

\* Mutants of Arguments: one task too many; RuntimeMaxSec left out.
ArgumentsOneTaskMore == [TasksMax |-> TasksMax + 1, RuntimeMaxSec |-> ScopeRuntime]
ArgumentsNoRuntime   == [TasksMax |-> TasksMax, RuntimeMaxSec |-> Horizon + 1]

\* The properties systemd-run gives the scope that the model tells apart.
Arguments == [TasksMax |-> TasksMax, RuntimeMaxSec |-> ScopeRuntime]

minTime(a, b) == IF a < b THEN a ELSE b

Init ==
    /\ clock = 0
    /\ pc = "Idle" /\ reply = "none"
    /\ operationEnd = 0 /\ teardownEnd = 0 /\ deadline = 0 /\ waitEnd = 0
    /\ cancelled = FALSE
    /\ runErr = FALSE /\ killErr = FALSE /\ teardownErr = FALSE
    /\ command = "none" /\ unit = "none" /\ tasks = 0 /\ expiry = 0
    /\ killPending = FALSE /\ doomed = FALSE

-----------------------------------------------------------------------------
(* Children of the broker.                                                 *)

\* exec.CommandContext(ctx with deadline d).Start: a context that has already
\* ended fails the call at once; otherwise the call is over by d + WaitDelay.
Call(name, d) ==
    /\ pc' = name
    /\ deadline' = d
    /\ waitEnd' = IF clock < d THEN d + ProcessWaitDelay ELSE clock
    /\ reply' = "none"

Return(err) ==
    /\ pc' = "Done"
    /\ teardownErr' = err
    /\ UNCHANGED <<operationEnd, teardownEnd, deadline, waitEnd, reply,
                   cancelled, runErr, killErr>>

(***************************************************************************)
(* Manager.Run.                                                            *)
(***************************************************************************)

\* An unusable systemd-run, unit name or user runtime directory: Run returns
\* an error and never starts the command.
Refuse ==
    /\ pc = "Idle"
    /\ pc' = "Done" /\ runErr' = TRUE
    /\ UNCHANGED <<clock, operationEnd, teardownEnd, deadline, waitEnd, reply,
                   cancelled, killErr, teardownErr, scopeVars>>

\* Mutant: room for one of the two WaitDelays only.
runEndOneDelay(end) == end - (TeardownTimeout + ProcessWaitDelay)

\* deadlinesFor: what is left of the operation after runEnd.
runEndOf(end) == end - (TeardownTimeout + 2 * ProcessWaitDelay)

Begin ==
    /\ pc = "Idle"
    /\ ~cancelled
    /\ operationEnd' = clock + OperationTimeout
    /\ Call("Command", runEndOf(operationEnd'))
    /\ command' = "client"
    /\ UNCHANGED <<clock, teardownEnd, cancelled, runErr, killErr, teardownErr,
                   unit, tasks, expiry, killPending, doomed>>

\* The teardown context: detached from the caller's cancellation and never later
\* than one WaitDelay before the operation ends.  Terminate's own timeout of
\* TeardownTimeout starts at the same instant, so it never ends earlier.
teardownEndFor(end) ==
    minTime(end - ProcessWaitDelay, clock + TeardownTimeout)

BeginTeardown(end, err) ==
    /\ runErr' = err
    /\ teardownEnd' = teardownEndFor(end)
    /\ Call("LoadState", teardownEnd')

\* cmd.Run fails to start the child; teardown runs all the same.
StartFails ==
    /\ pc = "Idle"
    /\ operationEnd' = clock + OperationTimeout
    /\ BeginTeardown(operationEnd', TRUE)
    /\ UNCHANGED <<clock, cancelled, killErr, teardownErr, scopeVars>>

\* cmd.Run returns: the child has been reaped.  An error unless it exited with
\* status 0 and its pipes closed in time.
CommandReturns ==
    /\ pc = "Command"
    /\ command \in {"failed", "exited"}
    /\ \E err \in BOOLEAN :
          /\ command = "failed" => err
          /\ BeginTeardown(operationEnd, err)
    /\ UNCHANGED <<clock, operationEnd, cancelled, killErr, teardownErr,
                   scopeVars>>

\* The caller cancels; runContext ends with it, the teardown context does not.
Cancel ==
    /\ pc \notin {"Done", "Killed"}
    /\ ~cancelled
    /\ cancelled' = TRUE
    /\ IF pc = "Command"
       THEN /\ deadline' = minTime(deadline, clock)
            /\ waitEnd' = minTime(waitEnd, clock + ProcessWaitDelay)
       ELSE UNCHANGED <<deadline, waitEnd>>
    /\ UNCHANGED <<clock, pc, operationEnd, teardownEnd, reply, runErr, killErr,
                   teardownErr, scopeVars>>

\* Panel.close ends its broker with SIGTERM.  The broker handles no signal: it
\* dies where it is, and its child and the scope go on without it.
BrokerKilled ==
    /\ pc \notin {"Idle", "Done", "Killed"}
    /\ pc' = "Killed"
    /\ UNCHANGED <<clock, operationEnd, teardownEnd, deadline, waitEnd, reply,
                   cancelled, runErr, killErr, teardownErr, scopeVars>>

(***************************************************************************)
(* Manager.Terminate: one systemctl call after the other, then the poll.   *)
(***************************************************************************)

\* systemctl show LoadState: an unknown unit has nothing left to kill.
LoadStateReturns ==
    /\ pc = "LoadState"
    /\ \/ /\ reply = "not-found"
          /\ Return(FALSE)
       \/ /\ reply = "loaded"
          /\ Call("ControlGroup", teardownEnd)
          /\ UNCHANGED <<operationEnd, teardownEnd, cancelled, runErr, killErr,
                         teardownErr>>
       \/ /\ reply = "malformed"
          /\ Return(TRUE)
    /\ UNCHANGED <<clock, scopeVars>>

\* Mutant: the kill's context does not descend from the teardown's.
killDeadlineDetached == clock + TeardownCommandTimeout

\* The kill has a deadline of its own inside the teardown's.
killDeadline == minTime(teardownEnd, clock + TeardownCommandTimeout)

\* systemctl show ControlGroup: a validated path is killed and polled, an empty
\* one must be explained by ActiveState, any other is refused.
ControlGroupReturns ==
    /\ pc = "ControlGroup"
    /\ \/ /\ reply = "empty"
          /\ Call("ActiveState", teardownEnd)
          /\ UNCHANGED <<operationEnd, teardownEnd, cancelled, runErr, killErr,
                         teardownErr>>
       \/ /\ reply = "path"
          /\ Call("Kill", killDeadline)
          /\ UNCHANGED <<operationEnd, teardownEnd, cancelled, runErr, killErr,
                         teardownErr>>
       \/ /\ reply = "malformed"
          /\ Return(TRUE)
    /\ UNCHANGED <<clock, scopeVars>>

\* terminalStateWithoutControlGroup; loadState was "loaded" to get here.
ActiveStateReturns ==
    /\ pc = "ActiveState"
    /\ reply \in {"inactive", "active", "malformed"}
    /\ Return(reply # "inactive")
    /\ UNCHANGED <<clock, scopeVars>>

\* A systemctl query that cannot be started, exits with an error, is killed at
\* its deadline or leaves its pipes open past WaitDelay: Terminate gives up.
QueryFails ==
    /\ pc \in {"LoadState", "ControlGroup", "ActiveState"}
    /\ Return(TRUE)
    /\ UNCHANGED <<clock, scopeVars>>

\* systemctl kill returns; its error is kept, the poll follows either way.
KillReturns ==
    /\ pc = "Kill"
    /\ \E err \in BOOLEAN :
          /\ reply # "accepted" => err
          /\ killErr' = err
    /\ pc' = "Poll"
    /\ UNCHANGED <<clock, operationEnd, teardownEnd, deadline, waitEnd, reply,
                   cancelled, runErr, teardownErr, scopeVars>>

\* What waitCgroupEmpty reads: populated, or unpopulated, or no such cgroup.
Populated == unit = "active" /\ tasks > 0

\* Mutant: a kill the manager accepted counts as a finished teardown.
teardownResultOfKill(kill, wait) == kill

\* teardownResult: only the observation of an empty cgroup is success.
teardownResult(kill, wait) == IF ~wait THEN FALSE ELSE kill \/ wait

\* One read of cgroup.events; if populated, the select on ctx.Done and ticker.
ReadEvents ==
    /\ pc = "Poll"
    /\ \/ /\ ~Populated
          /\ Return(teardownResult(killErr, FALSE))
       \/ /\ Populated
          /\ pc' = "Sleep"
          /\ deadline' = clock + PollInterval
          /\ waitEnd' = minTime(deadline', IF clock < teardownEnd
                                           THEN teardownEnd ELSE clock)
          /\ UNCHANGED <<operationEnd, teardownEnd, reply, cancelled, runErr,
                         killErr, teardownErr>>
    /\ UNCHANGED <<clock, scopeVars>>

\* cgroup.events cannot be read or does not parse.
ReadFails ==
    /\ pc = "Poll"
    /\ Return(teardownResult(killErr, TRUE))
    /\ UNCHANGED <<clock, scopeVars>>

PollAgain ==
    /\ pc = "Sleep"
    /\ clock >= deadline
    /\ pc' = "Poll"
    /\ UNCHANGED <<clock, operationEnd, teardownEnd, deadline, waitEnd, reply,
                   cancelled, runErr, killErr, teardownErr, scopeVars>>

\* Mutant: the poll does not select on ctx.Done.
TeardownNeverExpires == FALSE /\ UNCHANGED vars

TeardownExpires ==
    /\ pc = "Sleep"
    /\ clock >= teardownEnd
    /\ Return(teardownResult(killErr, TRUE))
    /\ UNCHANGED <<clock, scopeVars>>

Broker ==
    \/ Refuse \/ Begin \/ StartFails \/ CommandReturns
    \/ LoadStateReturns \/ ControlGroupReturns \/ ActiveStateReturns
    \/ QueryFails \/ KillReturns \/ ReadEvents \/ ReadFails \/ PollAgain
    \/ TeardownExpires

-----------------------------------------------------------------------------
(* systemd-run, the user manager and the processes of the scope.           *)

\* systemd-run asks the manager for the scope (StartTransientUnit).
ClientRequests ==
    /\ command = "client" /\ unit = "none"
    /\ unit' = "requested"
    /\ UNCHANGED <<clock, brokerVars, command, tasks, expiry, killPending, doomed>>

ManagerQueues ==
    /\ unit = "requested"
    /\ unit' = "queued"
    /\ UNCHANGED <<clock, brokerVars, command, tasks, expiry, killPending, doomed>>

\* The start job runs.  It moves the client into the new cgroup, or finds no
\* process left to attach and fails.  RuntimeMaxSec counts from here; a scope
\* that would outlive the model's horizon is not started.
ManagerStarts ==
    /\ unit = "queued"
    /\ clock + ScopeRuntime <= Horizon
    /\ IF command = "client"
       THEN /\ unit' = "active" /\ command' = "joined" /\ tasks' = 1
            /\ expiry' = clock + Arguments.RuntimeMaxSec
       ELSE /\ unit' = "terminal"
            /\ UNCHANGED <<command, tasks, expiry>>
    /\ UNCHANGED <<clock, brokerVars, killPending, doomed>>

\* systemd-run gives up, or is killed by os/exec, before it joins the scope.
ClientFails ==
    /\ command = "client"
    /\ command' = "failed"
    /\ waitEnd' = IF pc = "Command" THEN minTime(waitEnd, clock + ProcessWaitDelay)
                                    ELSE waitEnd
    /\ UNCHANGED <<clock, pc, operationEnd, teardownEnd, deadline, reply,
                   cancelled, runErr, killErr, teardownErr, unit, tasks, expiry,
                   killPending, doomed>>

\* The scoped broker exits by itself.  Its descendants may outlive it.
CommandExits ==
    /\ command = "joined"
    /\ tasks' = tasks - 1
    /\ command' \in {"exited", "failed"}
    /\ waitEnd' = IF pc = "Command" THEN minTime(waitEnd, clock + ProcessWaitDelay)
                                    ELSE waitEnd
    /\ UNCHANGED <<clock, pc, operationEnd, teardownEnd, deadline, reply,
                   cancelled, runErr, killErr, teardownErr, unit, expiry,
                   killPending, doomed>>

\* os/exec kills the child of cmd.Run, and only it, when runContext ends.
CommandKilled ==
    /\ pc = "Command"
    /\ clock >= deadline
    /\ command \in {"client", "joined"}
    /\ tasks' = IF command = "joined" THEN tasks - 1 ELSE tasks
    /\ command' = "failed"
    /\ UNCHANGED <<clock, brokerVars, unit, expiry, killPending, doomed>>

Descendants == IF command = "joined" THEN tasks - 1 ELSE tasks

Fork ==
    /\ tasks > 0 /\ tasks < Arguments.TasksMax
    /\ ~doomed
    /\ tasks' = tasks + 1
    /\ UNCHANGED <<clock, brokerVars, command, unit, expiry, killPending, doomed>>

DescendantExits ==
    /\ Descendants > 0
    /\ tasks' = tasks - 1
    /\ UNCHANGED <<clock, brokerVars, command, unit, expiry, killPending, doomed>>

\* RuntimeMaxSec: the manager stops the scope by itself.
RuntimeExpires ==
    /\ unit = "active" /\ ~killPending
    /\ clock >= expiry
    /\ killPending' = TRUE
    /\ UNCHANGED <<clock, brokerVars, command, unit, tasks, expiry, doomed>>

ManagerKills ==
    /\ unit = "active" /\ killPending /\ ~doomed
    /\ doomed' = TRUE
    /\ UNCHANGED <<clock, brokerVars, command, unit, tasks, expiry, killPending>>

\* The cgroup is empty: the scope ends, then --collect unloads it.
ScopeEnds ==
    /\ unit = "active" /\ tasks = 0
    /\ unit' = "terminal"
    /\ UNCHANGED <<clock, brokerVars, command, tasks, expiry, killPending, doomed>>

ScopeCollected ==
    /\ unit = "terminal"
    /\ unit' = "collected"
    /\ UNCHANGED <<clock, brokerVars, command, tasks, expiry, killPending, doomed>>

\* What the manager answers to a query at this instant.
Answer(call) ==
    CASE call = "LoadState"    -> IF unit \in {"queued", "active", "terminal"}
                                  THEN "loaded" ELSE "not-found"
      [] call = "ControlGroup" -> IF unit = "active" THEN "path" ELSE "empty"
      [] call = "ActiveState"  -> IF unit = "active" THEN "active" ELSE "inactive"
      [] OTHER                 -> "accepted"

\* The manager answers the running systemctl; the broker learns of it only when
\* the child is reaped.  An accepted kill is carried out later (--no-block).
ManagerAnswers ==
    /\ pc \in Calls
    /\ reply = "none"
    /\ clock < deadline
    /\ reply' \in {Answer(pc)} \union (IF pc = "Kill" THEN {} ELSE {"malformed"})
    /\ killPending' = (killPending \/ (pc = "Kill" /\ unit = "active"))
    /\ UNCHANGED <<clock, pc, operationEnd, teardownEnd, deadline, waitEnd,
                   cancelled, runErr, killErr, teardownErr, command, unit,
                   tasks, expiry, doomed>>

Tick ==
    /\ clock < Horizon
    /\ pc \in Waiting \union {"Done", "Killed"}
    /\ pc \in Waiting => clock < waitEnd
    /\ clock' = clock + 1
    /\ UNCHANGED <<brokerVars, scopeVars>>

Environment ==
    \/ Cancel \/ BrokerKilled \/ ClientRequests \/ ManagerQueues \/ ManagerStarts
    \/ ClientFails \/ CommandExits \/ CommandKilled \/ Fork \/ DescendantExits
    \/ RuntimeExpires \/ ManagerKills \/ ScopeEnds \/ ScopeCollected
    \/ ManagerAnswers

Next == Broker \/ Environment \/ Tick

Spec == Init /\ [][Next]_vars

(***************************************************************************)
(* Fairness: the broker's goroutine is scheduled, time passes, os/exec     *)
(* kills at the deadline, the manager does its queued work, and a process  *)
(* with a pending SIGKILL dies.  Nothing makes the command itself exit.    *)
(***************************************************************************)
Fairness ==
    /\ WF_vars(Broker) /\ WF_vars(Tick) /\ WF_vars(CommandKilled)
    /\ WF_vars(ManagerQueues) /\ WF_vars(ManagerStarts)
    /\ WF_vars(RuntimeExpires) /\ WF_vars(ManagerKills)
    /\ WF_vars(doomed /\ DescendantExits) /\ WF_vars(doomed /\ CommandExits)

FairSpec == Spec /\ Fairness

-----------------------------------------------------------------------------
(* Properties.                                                             *)

\* Deadlines are never negative, the scope never holds more than TasksMax
\* processes, and every phase and answer is one Run and Terminate know.
TypeOK ==
    /\ clock \in Nat
    /\ pc \in Phases
    /\ operationEnd \in Nat /\ teardownEnd \in Nat
    /\ deadline \in Nat /\ waitEnd \in Nat
    /\ reply \in Replies
    /\ cancelled \in BOOLEAN
    /\ runErr \in BOOLEAN /\ killErr \in BOOLEAN /\ teardownErr \in BOOLEAN
    /\ command \in Commands
    /\ unit \in Units
    /\ tasks \in 0 .. TasksMax
    /\ expiry \in Nat
    /\ killPending \in BOOLEAN /\ doomed \in BOOLEAN

\* Run is over by its operation deadline, whichever calls overran theirs: the
\* command, the queries and the kill may each be killed and reaped late, and
\* the caller may cancel at any moment (deadlinesFor, Run, Terminate).
DeadlineRespected == pc \notin {"Idle", "Done", "Killed"} => clock <= operationEnd

\* The command cannot eat into the teardown: however late it is reaped, and
\* whether or not the caller cancelled, Terminate starts with the whole of
\* TeardownTimeout and one WaitDelay still follows it (Run, minTime).
FullTeardownReserve ==
    [][pc # "LoadState" /\ pc' = "LoadState" =>
         /\ teardownEnd' = clock' + TeardownTimeout
         /\ teardownEnd' + ProcessWaitDelay <= operationEnd']_vars

\* When the teardown reports no error, no process of the scope is left and none
\* appears later, although the answers Terminate acted on were already old, the
\* kill is asynchronous and the manager may still hold an unserved request for
\* the scope (Terminate, waitCgroupEmpty, teardownResult).
CleanReturnIsEmpty ==
    pc = "Done" /\ ~teardownErr => tasks = 0 /\ command \notin {"client", "joined"}

\* Run returns, even when neither the command nor any process of the scope ever
\* stops by itself, unless the broker itself is killed (Run, Terminate).
RunReturns == <>(pc \in {"Done", "Killed"})

\* Even after a failed teardown, or when the broker was killed before it could
\* tear anything down, the scope is empty in the end, because Run gave it
\* RuntimeMaxSec (Arguments).
ScopeDies == <>[](tasks = 0)

\* What the documentation says of closing the panel: no scan goes on after it.
\* A killed broker leaves no process that starts or multiplies (Panel.close).
NoScanAfterClose == [][pc = "Killed" => tasks' <= tasks]_vars

\* The correspondence with ContainedRun: a client of systemd-run that has not
\* joined the scope yet is the command already.
phaseOf ==
    CASE pc = "Idle"    -> "idle"     [] pc = "Command" -> "running"
      [] pc = "Done"    -> "returned" [] pc = "Killed"  -> "killed"
      [] OTHER          -> "teardown"

liveOf ==
    (IF command \in {"client", "joined"} THEN {"command"} ELSE {}) \union
    (IF Descendants > 0 THEN {"descendants"} ELSE {})

Contained == INSTANCE ContainedRun WITH phase <- phaseOf, live <- liveOf

\* Run, with its deadlines, stale answers, failing calls and asynchronous kill,
\* is a ContainedRun: whatever a caller may conclude from its result there
\* holds here, although the emptiness is never observed and acted on in one step.
ImplementsContainedRun == Contained!Spec

=============================================================================
