------------------------- MODULE ResourceScopeProofs -------------------------
(***************************************************************************)
(* Proofs about ResourceScope, for every choice of durations that          *)
(* satisfies the timing policy and for any number of tasks.                *)
(*                                                                         *)
(* Neither the type invariant nor the deadline is inductive alone.  The    *)
(* deadlines are natural numbers only because enough of the operation is   *)
(* left when each is computed (TimeInv); tasks never drops below zero only *)
(* because the joined command is one of them (ScopeInv).  The three are    *)
(* proved together.                                                        *)
(***************************************************************************)
EXTENDS ResourceScope, TLAPS

\* How much of the operation is left in each phase: one teardown and one
\* WaitDelay while the command runs, one WaitDelay after the teardown deadline.
TimeInv ==
    /\ pc = "Command" =>
          /\ clock <= waitEnd
          /\ waitEnd + TeardownTimeout + ProcessWaitDelay <= operationEnd
    /\ pc \in Teardown =>
          /\ clock <= operationEnd
          /\ teardownEnd + ProcessWaitDelay <= operationEnd
    /\ pc \in Calls \union {"Sleep"} => clock <= waitEnd /\ waitEnd <= operationEnd

\* Processes exist only in an active scope, the command is reaped before the
\* teardown starts, and from then on an observed emptiness is permanent.
ScopeInv ==
    /\ tasks > 0 => unit = "active"
    /\ command = "joined" => tasks > 0
    /\ pc \notin {"Command", "Killed"} => command \notin {"client", "joined"}
    /\ pc = "Idle" => tasks = 0
    /\ pc = "LoadState" /\ reply = "not-found" => tasks = 0
    /\ pc = "ActiveState" /\ reply = "inactive" => tasks = 0
    /\ pc = "Done" /\ ~teardownErr => tasks = 0

\* TypeOK in two halves: the provers treat the Boolean variables apart.
DataOK ==
    /\ clock \in Nat
    /\ pc \in Phases
    /\ operationEnd \in Nat /\ teardownEnd \in Nat
    /\ deadline \in Nat /\ waitEnd \in Nat
    /\ reply \in Replies
    /\ command \in Commands
    /\ unit \in Units
    /\ tasks \in 0 .. TasksMax
    /\ expiry \in Nat

FlagsOK ==
    /\ cancelled \in BOOLEAN
    /\ runErr \in BOOLEAN /\ killErr \in BOOLEAN /\ teardownErr \in BOOLEAN
    /\ killPending \in BOOLEAN /\ doomed \in BOOLEAN

IInv == DataOK /\ TimeInv /\ ScopeInv

USE DEF Phases, Waiting, Teardown, Calls, Replies, Commands, Units

\* The initial state satisfies the inductive invariant.
LEMMA InitIInv == Init => IInv
  BY DurationsAssumption DEF Init, IInv, DataOK, TimeInv, ScopeInv

\* The broker's steps preserve it: each new deadline leaves its successors
\* room, and each success is an observation of an empty scope.
LEMMA BrokerStep == IInv /\ Broker => IInv'
<1> SUFFICES ASSUME IInv, Broker PROVE IInv'
  OBVIOUS
<1> USE DurationsAssumption
<1> USE DEF IInv, DataOK, TimeInv, ScopeInv, scopeVars, Return, Call, minTime
<1>1. CASE Refuse
  BY <1>1 DEF Refuse
<1>2. CASE Begin
  BY <1>2 DEF Begin, runEndOf, OperationTimeout
<1>3. CASE StartFails
  BY <1>3 DEF StartFails, BeginTeardown, teardownEndFor, OperationTimeout
<1>4. CASE CommandReturns
  BY <1>4 DEF CommandReturns, BeginTeardown, teardownEndFor
<1>5. CASE LoadStateReturns
  BY <1>5 DEF LoadStateReturns
<1>6. CASE ControlGroupReturns
  BY <1>6 DEF ControlGroupReturns, killDeadline
<1>7. CASE ActiveStateReturns
  BY <1>7 DEF ActiveStateReturns
<1>8. CASE QueryFails
  BY <1>8 DEF QueryFails
<1>9. CASE KillReturns
  BY <1>9 DEF KillReturns
<1>10. CASE ReadEvents
  <2>1. CASE Populated
    <3>1. /\ pc = "Poll" /\ pc' = "Sleep"
          /\ deadline' = clock + PollInterval
          /\ waitEnd' = minTime(deadline', IF clock < teardownEnd
                                           THEN teardownEnd ELSE clock)
          /\ UNCHANGED <<clock, operationEnd, teardownEnd, reply, command, unit,
                         tasks, expiry>>
      BY <1>10, <2>1 DEF ReadEvents
    <3> QED
      BY <3>1
  <2>2. CASE ~Populated
    <3>1. tasks = 0
      BY <2>2 DEF Populated
    <3> QED
      BY <1>10, <2>2, <3>1 DEF ReadEvents
  <2> QED
    BY <2>1, <2>2
<1>11. CASE ReadFails
  BY <1>11 DEF ReadFails, teardownResult
<1>12. CASE PollAgain
  BY <1>12 DEF PollAgain
<1>13. CASE TeardownExpires
  BY <1>13 DEF TeardownExpires, teardownResult
<1> QED
  BY <1>1, <1>2, <1>3, <1>4, <1>5, <1>6, <1>7, <1>8, <1>9, <1>10, <1>11, <1>12,
     <1>13 DEF Broker

\* The environment's steps preserve it: no process can join a scope once the
\* client is gone, a killed broker promises nothing, and nothing moves the broker's deadlines outwards.
LEMMA EnvironmentStep == IInv /\ Environment => IInv'
<1> SUFFICES ASSUME IInv, Environment PROVE IInv'
  OBVIOUS
<1> USE DurationsAssumption
<1> USE DEF IInv, DataOK, TimeInv, ScopeInv, scopeVars, brokerVars, minTime
<1>1. CASE Cancel
  BY <1>1 DEF Cancel
<1>2. CASE ClientRequests
  BY <1>2 DEF ClientRequests
<1>3. CASE ManagerQueues
  BY <1>3 DEF ManagerQueues
<1>4. CASE ManagerStarts
  BY <1>4 DEF ManagerStarts, Arguments
<1>5. CASE ClientFails
  BY <1>5 DEF ClientFails
<1>6. CASE CommandExits
  BY <1>6 DEF CommandExits
<1>7. CASE CommandKilled
  BY <1>7 DEF CommandKilled
<1>8. CASE Fork
  BY <1>8 DEF Fork, Arguments
<1>9. CASE DescendantExits
  BY <1>9 DEF DescendantExits, Descendants
<1>10. CASE RuntimeExpires
  BY <1>10 DEF RuntimeExpires
<1>11. CASE ManagerKills
  BY <1>11 DEF ManagerKills
<1>12. CASE ScopeEnds
  BY <1>12 DEF ScopeEnds
<1>13. CASE ScopeCollected
  BY <1>13 DEF ScopeCollected
<1>14. CASE ManagerAnswers
  BY <1>14 DEF ManagerAnswers, Answer
<1>15. CASE BrokerKilled
  BY <1>15 DEF BrokerKilled
<1> QED
  BY <1>1, <1>2, <1>3, <1>4, <1>5, <1>6, <1>7, <1>8, <1>9, <1>10, <1>11, <1>12,
     <1>13, <1>14, <1>15 DEF Environment

\* So does the passing of time, which waitEnd bounds.
LEMMA TickStep == IInv /\ Tick => IInv'
  BY DurationsAssumption
     DEF IInv, DataOK, TimeInv, ScopeInv, Tick, brokerVars, scopeVars

\* Hence so does every step of Run, of its environment and of the clock.
LEMMA NextStep == IInv /\ [Next]_vars => IInv'
<1>1. IInv /\ UNCHANGED vars => IInv'
  BY DEF IInv, DataOK, TimeInv, ScopeInv, vars, brokerVars, scopeVars
<1> QED
  BY <1>1, BrokerStep, EnvironmentStep, TickStep DEF Next

\* The inductive invariant holds of every behaviour.
THEOREM Inductive == Spec => []IInv
  BY InitIInv, NextStep, PTL DEF Spec

\* The flags stay Boolean, whatever the step.
LEMMA FlagsStep == FlagsOK /\ [Next]_vars => FlagsOK'
<1> SUFFICES ASSUME FlagsOK, [Next]_vars PROVE FlagsOK'
  OBVIOUS
<1> USE DEF FlagsOK, brokerVars, scopeVars
<1>1. CASE Broker
  BY <1>1 DEF Broker, Refuse, Begin, StartFails, CommandReturns, BeginTeardown,
              LoadStateReturns, ControlGroupReturns, ActiveStateReturns,
              QueryFails, KillReturns, ReadEvents, ReadFails, PollAgain,
              TeardownExpires, Return, teardownResult
<1>2. CASE Environment
  BY <1>2 DEF Environment, BrokerKilled, Cancel, ClientRequests, ManagerQueues,
              ManagerStarts, ClientFails, CommandExits, CommandKilled, Fork, DescendantExits,
              RuntimeExpires, ManagerKills, ScopeEnds, ScopeCollected,
              ManagerAnswers
<1>3. CASE Tick
  BY <1>3 DEF Tick
<1>4. CASE UNCHANGED vars
  BY <1>4 DEF vars
<1> QED
  BY <1>1, <1>2, <1>3, <1>4 DEF Next

\* Type correctness of Run, Terminate and the scope they act on.
THEOREM TypeCorrect == Spec => []TypeOK
<1>1. Init => FlagsOK
  BY DEF Init, FlagsOK
<1>2. Spec => []FlagsOK
  BY <1>1, FlagsStep, PTL DEF Spec
<1>3. IInv /\ FlagsOK => TypeOK
  BY DEF IInv, DataOK, FlagsOK, TypeOK
<1> QED
  BY <1>2, <1>3, Inductive, PTL

\* Manager.Run never outlives its operation deadline, for every policy
\* ValidTimingPolicy accepts.
THEOREM DeadlineTheorem == Spec => []DeadlineRespected
<1>1. IInv => DeadlineRespected
  BY DurationsAssumption DEF IInv, DataOK, TimeInv, DeadlineRespected
<1> QED
  BY <1>1, Inductive, PTL

\* A teardown without error leaves an empty scope that stays empty.
THEOREM CleanReturnTheorem == Spec => []CleanReturnIsEmpty
<1>1. IInv => CleanReturnIsEmpty
  BY DEF IInv, ScopeInv, CleanReturnIsEmpty
<1> QED
  BY <1>1, Inductive, PTL

\* Terminate always starts with the whole teardown timeout in hand.
THEOREM ReserveTheorem == Spec => FullTeardownReserve
<1> DEFINE Reserve ==
      pc # "LoadState" /\ pc' = "LoadState" =>
         /\ teardownEnd' = clock' + TeardownTimeout
         /\ teardownEnd' + ProcessWaitDelay <= operationEnd'
<1>1. ASSUME IInv, Next PROVE Reserve
  <2> USE <1>1, DurationsAssumption
  <2>1. CASE StartFails
    BY <2>1 DEF StartFails, BeginTeardown, Call, teardownEndFor, minTime,
                OperationTimeout, IInv, DataOK
  <2>2. CASE CommandReturns
    BY <2>2 DEF CommandReturns, BeginTeardown, Call, teardownEndFor, minTime,
                IInv, DataOK, TimeInv
  <2>3. CASE Broker /\ ~StartFails /\ ~CommandReturns
    BY <2>3 DEF Broker, Refuse, Begin, LoadStateReturns, ControlGroupReturns,
                ActiveStateReturns, QueryFails, KillReturns, ReadEvents,
                ReadFails, PollAgain, TeardownExpires, Call, Return
  <2>4. CASE Environment
    BY <2>4 DEF Environment, BrokerKilled, Cancel, ClientRequests, ManagerQueues,
                ManagerStarts, ClientFails, CommandExits, CommandKilled, Fork,
                DescendantExits, RuntimeExpires, ManagerKills, ScopeEnds,
                ScopeCollected, ManagerAnswers, brokerVars
  <2>5. CASE Tick
    BY <2>5 DEF Tick, brokerVars
  <2> QED
    BY <2>1, <2>2, <2>3, <2>4, <2>5 DEF Next
<1>2. IInv /\ [Next]_vars => [Reserve]_vars
  BY <1>1
<1> QED
  BY <1>2, Inductive, PTL DEF Spec, FullTeardownReserve

-----------------------------------------------------------------------------
(* Refinement: ResourceScope implements ContainedRun.                      *)

commandAlive == command \in {"client", "joined"}

\* A step that changes neither who is alive nor the phase nor the two errors
\* is a stutter of ContainedRun.
LEMMA ContainedStutter ==
    ASSUME phaseOf' = phaseOf, runErr' = runErr, teardownErr' = teardownErr,
           commandAlive' <=> commandAlive,
           (Descendants > 0)' <=> (Descendants > 0)
    PROVE  UNCHANGED Contained!containedVars
<1>1. liveOf' = liveOf
  BY Zenon DEF liveOf, commandAlive
<1> QED
  BY <1>1 DEF Contained!containedVars

\* A step that only changes who is alive forks or ends somebody; nobody can
\* fork when everybody is dead.
LEMMA ContainedLife ==
    ASSUME IInv, phaseOf' = phaseOf, UNCHANGED <<runErr, teardownErr>>,
           commandAlive' => commandAlive,
           (commandAlive' <=> commandAlive) \/ ((Descendants > 0)' <=> (Descendants > 0)),
           (Descendants > 0)' => commandAlive \/ Descendants > 0
    PROVE  [Contained!Next]_(Contained!containedVars)
<1>1. CASE (commandAlive' <=> commandAlive) /\ ((Descendants > 0)' <=> (Descendants > 0))
  BY <1>1, ContainedStutter
<1>2. CASE commandAlive /\ ~commandAlive'
  <2>1. liveOf' = liveOf \ {"command"} /\ "command" \in liveOf
    BY <1>2 DEF liveOf, commandAlive
  <2> QED
    BY <2>1 DEF Contained!Next, Contained!Die
<1>3. CASE Descendants > 0 /\ ~(Descendants > 0)'
  <2>1. liveOf' = liveOf \ {"descendants"} /\ "descendants" \in liveOf
    BY <1>3 DEF liveOf, commandAlive
  <2> QED
    BY <2>1 DEF Contained!Next, Contained!Die
<1>4. CASE ~(Descendants > 0) /\ (Descendants > 0)'
  <2>1. liveOf' = liveOf \union {"descendants"} /\ liveOf # {}
    BY <1>4 DEF liveOf, commandAlive
  <2> QED
    BY <2>1 DEF Contained!Next, Contained!Fork
<1> QED
  BY <1>1, <1>2, <1>3, <1>4

\* Run and Terminate step as ContainedRun does, or not at all: the only
\* observations they return on imply that everybody is dead.
LEMMA ContainedBroker ==
    IInv /\ IInv' /\ Broker => [Contained!Next]_(Contained!containedVars)
<1> SUFFICES ASSUME IInv, IInv', Broker
             PROVE  [Contained!Next]_(Contained!containedVars)
  OBVIOUS
<1> DEFINE Quiet == UNCHANGED <<command, tasks>>
<1>0. Quiet => liveOf' = liveOf
  BY DEF liveOf, Descendants
<1>1. CASE Refuse
  <2>1. Contained!Refuse
    BY <1>1, <1>0 DEF Refuse, Contained!Refuse, phaseOf, scopeVars
  <2> QED
    BY <2>1 DEF Contained!Next
<1>2. CASE Begin
  <2>1. liveOf' = {"command"}
    BY <1>2 DEF Begin, IInv, ScopeInv, liveOf, Descendants
  <2>2. Contained!Start
    BY <1>2, <2>1 DEF Begin, Contained!Start, phaseOf, Call
  <2> QED
    BY <2>2 DEF Contained!Next
<1>3. CASE StartFails \/ CommandReturns
  <2>1. "command" \notin liveOf /\ Quiet
    BY <1>3 DEF StartFails, CommandReturns, IInv, ScopeInv, liveOf, scopeVars
  <2>2. /\ (pc = "Idle" /\ runErr' = TRUE) \/ (pc = "Command" /\ runErr' \in BOOLEAN)
        /\ pc' = "LoadState" /\ teardownErr' = teardownErr
    BY <1>3 DEF StartFails, CommandReturns, BeginTeardown, Call
  <2>3. Contained!CommandEnds
    BY <2>1, <2>2, <1>0 DEF Contained!CommandEnds, phaseOf
  <2> QED
    BY <2>3 DEF Contained!Next
<1>4. ASSUME pc \in Teardown, pc' = "Done", teardownErr' \in BOOLEAN,
             runErr' = runErr, Quiet
      PROVE  Contained!Next
  <2>1. liveOf # {} => teardownErr'
    BY <1>4 DEF IInv, ScopeInv, DataOK, liveOf, Descendants
  <2>2. Contained!TeardownEnds
    BY <1>4, <1>0, <2>1 DEF Contained!TeardownEnds, phaseOf
  <2> QED
    BY <2>2 DEF Contained!Next
<1>5. ASSUME pc \in Teardown, pc' \in Teardown, Quiet,
             UNCHANGED <<runErr, teardownErr>>
      PROVE  UNCHANGED Contained!containedVars
  BY <1>5, <1>0 DEF Contained!containedVars, phaseOf
<1>6. CASE LoadStateReturns
  BY <1>4, <1>5, <1>6 DEF LoadStateReturns, Return, Call, scopeVars
<1>7. CASE ControlGroupReturns
  BY <1>4, <1>5, <1>7 DEF ControlGroupReturns, Return, Call, scopeVars
<1>8. CASE ActiveStateReturns \/ QueryFails
  BY <1>4, <1>8 DEF ActiveStateReturns, QueryFails, Return, scopeVars
<1>9. CASE KillReturns \/ PollAgain
  BY <1>5, <1>9 DEF KillReturns, PollAgain, scopeVars
<1>10. CASE ReadEvents
  BY <1>4, <1>5, <1>10 DEF ReadEvents, Return, scopeVars, teardownResult
<1>11. CASE ReadFails \/ TeardownExpires
  BY <1>4, <1>11 DEF ReadFails, TeardownExpires, Return, scopeVars, teardownResult
<1> QED
  BY <1>1, <1>2, <1>3, <1>6, <1>7, <1>8, <1>9, <1>10, <1>11 DEF Broker

\* systemd, the scope's processes and the kill of the broker: a client that
\* joins the scope is still the command, and nobody comes back to life.
LEMMA ContainedEnvironment ==
    IInv /\ IInv' /\ (Environment \/ Tick) => [Contained!Next]_(Contained!containedVars)
<1> SUFFICES ASSUME IInv, IInv', Environment \/ Tick
             PROVE  [Contained!Next]_(Contained!containedVars)
  OBVIOUS
<1> USE DEF commandAlive, Descendants, phaseOf, brokerVars, scopeVars
<1>1. CASE BrokerKilled
  <2>1. liveOf' = liveOf
    BY <1>1 DEF BrokerKilled, liveOf
  <2>2. Contained!CallerKilled
    BY <1>1, <2>1 DEF BrokerKilled, Contained!CallerKilled, IInv, DataOK
  <2> QED
    BY <2>2 DEF Contained!Next
<1>2. CASE Cancel \/ ClientRequests \/ ManagerQueues \/ RuntimeExpires \/ ManagerKills
           \/ ScopeEnds \/ ScopeCollected \/ ManagerAnswers \/ Tick
  BY <1>2, ContainedStutter
     DEF Cancel, ClientRequests, ManagerQueues, RuntimeExpires, ManagerKills,
         ScopeEnds, ScopeCollected, ManagerAnswers, Tick
<1>3. CASE ManagerStarts
  BY <1>3, ContainedStutter DEF ManagerStarts, IInv, ScopeInv
<1>4. CASE ClientFails \/ CommandExits \/ CommandKilled
  BY <1>4, ContainedLife DEF ClientFails, CommandExits, CommandKilled, IInv, DataOK
<1>5. CASE Fork \/ DescendantExits
  BY <1>5, ContainedLife DEF Fork, DescendantExits, IInv, DataOK
<1> QED
  BY <1>1, <1>2, <1>3, <1>4, <1>5 DEF Environment

\* Manager.Run implements ContainedRun for every policy ValidTimingPolicy
\* accepts: what a caller may conclude from its result never depends on timing.
THEOREM ContainedTheorem == Spec => ImplementsContainedRun
<1>1. Init => Contained!Init
  BY DEF Init, Contained!Init, phaseOf, liveOf, Descendants
<1>2. IInv /\ IInv' /\ [Next]_vars => [Contained!Next]_(Contained!containedVars)
  <2>1. UNCHANGED vars => UNCHANGED Contained!containedVars
    BY DEF vars, brokerVars, scopeVars, Contained!containedVars, phaseOf, liveOf,
           Descendants
  <2> QED
    BY <2>1, ContainedBroker, ContainedEnvironment DEF Next
<1> QED
  BY <1>1, <1>2, Inductive, PTL DEF Spec, ImplementsContainedRun, Contained!Spec

=============================================================================
