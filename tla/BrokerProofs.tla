---------------------------- MODULE BrokerProofs -----------------------------
(***************************************************************************)
(* Proofs about Broker, for every policy, every file system, every input   *)
(* and every interleaving of the two brokers with kills and replacements.  *)
(*                                                                         *)
(* The properties speak of an end, and hold because of the order of the    *)
(* steps before it: ContainInv says what each step of the scoped broker    *)
(* has verified, OuterInv what the outer broker knows once the command is  *)
(* gone.  FileInv says what every open descriptor has passed and HeldInv   *)
(* how long it stays open; each is inductive by itself.                    *)
(***************************************************************************)
EXTENDS Broker, TLAPS

\* The scoped broker's steps, by what it has got through.
AfterVerify   == {"lifetime", "limits", "list", "review", "pin scanner",
                  "pin bwrap", "scan", "scanning", "decode"}
BeforeRead    == {"none", "manager", "verify", "lifetime", "limits"}
AfterRuntime  == AfterVerify \ {"lifetime"}
AfterLimits   == AfterRuntime \ {"limits"}
Reviewing     == AfterLimits \ {"list"}
Tearing       == Calls \union {"empty"}

Limited ==
    /\ rlimit["core"].max = 0 /\ rlimit["core"].cur = 0
    /\ rlimit["nofile"].cur <= rlimit["nofile"].max
    /\ rlimit["nofile"].max <= OpenFilesMax

DataOK ==
    /\ input \in Inputs
    /\ pc \in [Processes -> Steps] /\ code \in [Processes -> 0 .. 255]
    /\ output \in {"none", "valid", "other limits", "invalid"}
    /\ stdout \in {"empty", "partial", "list", "report"}
    /\ runExited \in -1 .. 255 /\ teardownExited \in -1 .. 255
    /\ rlimit \in Rlimits
    /\ \A r \in {"core", "nofile"} : rlimit[r].max <= input.rlimit[r].max

\* Boolean variables are kept apart: the provers treat them differently.
FlagsOK == touched \in BOOLEAN

\* What trustedexec.Open, and for the scanner requireStaticELF, have seen.
Trusted(g, i) == openOwned(i) /\ (g = "scanner" => requireStaticELF(i))

\* A program that is open has passed its checks, and so has one that was run.
FileInv ==
    /\ at \in [Programs -> Inodes] /\ fds \subseteq Descriptors
    /\ executed \subseteq Programs \X Inodes
    /\ \A d \in fds : Trusted(d.program, d.inode)
    /\ \A e \in executed : Trusted(e[1], e[2])

\* A program is open only within the function that opened it.
HeldInv == \A d \in fds : pc[d.by] \in Holding[d.program]

\* Nothing is read before the last check of the containment has succeeded.
ContainInv ==
    /\ pc["scoped"] \in AfterVerify \/ touched => VerifyOK(input.grant)
    /\ pc["scoped"] \in AfterRuntime \/ touched => verifyRuntimeMax(input.grant.runtime)
    /\ pc["scoped"] \in AfterLimits \/ touched => Limited
    /\ pc["scoped"] \in BeforeRead => ~touched
    /\ pc["scoped"] = "list" => input.request = "list"
    /\ pc["scoped"] \in Reviewing => input.request = "review"

\* What the scoped broker's status 0 says.
Delivered ==
    /\ stdout = (IF input.request = "list" THEN "list" ELSE "report")
    /\ stdout = "list" => input.root.entries <= maxInstalledPlugins
    /\ stdout = "report" => output = "valid"

\* The command lives only while the outer broker waits for it or is dead; when
\* the outer broker has no error, the command exited with 0 and nobody is left.
OuterInv ==
    /\ pc["outer"] \in {"parse", "manager", "unit", "run"} => pc["scoped"] = "none"
    /\ pc["outer"] \notin {"wait", "killed"} => "command" \notin live
    /\ pc["scoped"] = "exited" /\ code["scoped"] = 0 => Delivered
    /\ pc["outer"] \in Tearing \union {"returned"} /\ ~runErr =>
          pc["scoped"] = "exited" /\ code["scoped"] = 0
    /\ pc["outer"] = "returned" /\ ~teardownErr => live = {}
    /\ pc["outer"] = "exited" /\ code["outer"] = 0 =>
          pc["scoped"] = "exited" /\ code["scoped"] = 0 /\ live = {}

IInv == DataOK /\ ContainInv /\ OuterInv

USE DEF Processes

-----------------------------------------------------------------------------
(* What the helpers of a step do.                                          *)

\* Process p goes to a step, the other one stays where it is.
Moves(p, step) ==
    /\ pc' \in [Processes -> Steps] /\ pc'[p] = step
    /\ \A q \in Processes \ {p} : pc'[q] = pc[q]

\* Process p leaves with status c, the other one keeps its own.
Leaves(p, c) ==
    /\ Moves(p, "exited")
    /\ code' \in [Processes -> 0 .. 255] /\ code'[p] = c
    /\ \A q \in Processes \ {p} : code'[q] = code[q]

\* A process that goes on, or leaves, keeps the types of both.
LEMMA MovesType ==
    ASSUME NEW p, NEW step, NEW c, DataOK,
           (Moves(p, step) /\ code' = code) \/ Leaves(p, c)
    PROVE  pc' \in [Processes -> Steps] /\ code' \in [Processes -> 0 .. 255]
<1>1. code \in [Processes -> 0 .. 255]
  BY Zenon DEF DataOK
<1>2. CASE Moves(p, step) /\ code' = code
  BY <1>1, <1>2, Zenon DEF Moves
<1>3. CASE Leaves(p, c)
  BY <1>3, Zenon DEF Moves, Leaves
<1> QED
  BY <1>2, <1>3, Zenon

LEMMA GotoMoves ==
    ASSUME DataOK, NEW p \in Processes, NEW step \in Steps, Goto(p, step)
    PROVE  Moves(p, step) /\ code' = code
  BY DEF DataOK, Goto, Moves

LEMMA ExitLeaves ==
    ASSUME DataOK, NEW p \in Processes, NEW c \in 0 .. 255, Exit(p, c)
    PROVE  Leaves(p, c)
<1>1. "exited" \in Steps
  BY DEF Steps
<1> QED
  BY <1>1 DEF DataOK, Exit, Moves, Leaves

LEMMA CheckMoves ==
    ASSUME DataOK, NEW p \in Processes, NEW ok, NEW step \in Steps, Check(p, ok, step)
    PROVE  \/ ok /\ Moves(p, step) /\ code' = code
           \/ ~ok /\ Leaves(p, 1)
  BY GotoMoves, ExitLeaves DEF Check

\* The initial state satisfies the inductive invariant.
LEMMA InitIInv == Init => IInv
<1> SUFFICES ASSUME Init PROVE IInv
  OBVIOUS
<1> USE BrokerAssumption DEF Init, Scope!Init
<1>1. DataOK
  BY DEF DataOK, Rlimits, Steps
<1>3. ContainInv
  BY DEF ContainInv, AfterVerify, AfterRuntime, AfterLimits, Reviewing, BeforeRead
<1>4. OuterInv
  BY DEF OuterInv, Tearing, Calls, Queries
<1> QED
  BY <1>1, <1>3, <1>4 DEF IInv

-----------------------------------------------------------------------------
(* What a step leaves alone.                                               *)

\* pc and code move to steps and statuses, nothing else with a type changes.
LEMMA DataFrame ==
    ASSUME DataOK, pc' \in [Processes -> Steps], code' \in [Processes -> 0 .. 255],
           UNCHANGED <<input, output, stdout, exits, rlimit>>
    PROVE  DataOK'
  BY DEF DataOK, exits

\* The scoped broker does not move.
LEMMA ContainFrame ==
    ASSUME ContainInv, UNCHANGED <<input, touched, rlimit>>,
           pc'["scoped"] = pc["scoped"]
    PROVE  ContainInv'
  BY DEF ContainInv, Limited

\* The scoped broker moves: the outer one is waiting for it, or dead.
LEMMA OuterFrame ==
    ASSUME OuterInv, "command" \in live, pc'["outer"] = pc["outer"],
           pc'["scoped"] = "exited" /\ code'["scoped"] = 0 => Delivered'
    PROVE  OuterInv'
  BY DEF OuterInv, Tearing, Calls, Queries

\* The scoped broker goes on to a step without having written anything.
LEMMA ScopedGoes ==
    ASSUME OuterInv, NEW step \in Steps \ {"exited"}, Moves("scoped", step), "command" \in live
    PROVE  OuterInv'
  BY OuterFrame DEF Moves

\* Before the command is started the outer broker has nothing to vouch for.
LEMMA OuterEarly ==
    ASSUME OuterInv, pc["outer"] \in {"parse", "manager", "unit", "run"},
           pc'["scoped"] = pc["scoped"], live' = live,
           pc'["outer"] \in {"manager", "unit", "run", "exited"},
           pc'["outer"] = "exited" => code'["outer"] # 0
    PROVE  OuterInv'
  BY DEF OuterInv, Tearing, Calls, Queries

LEMMA ScopedFails ==
    ASSUME OuterInv, Leaves("scoped", 1), "command" \in live
    PROVE  OuterInv'
  BY OuterFrame DEF Moves, Leaves

\* The scoped broker leaves: no step is left to vouch for but what was read.
LEMMA LeaveContained ==
    ASSUME ContainInv, pc["scoped"] \in AfterLimits, pc'["scoped"] = "exited",
           UNCHANGED <<input, rlimit>>
    PROVE  ContainInv'
  BY DEF ContainInv, Limited, AfterVerify, AfterRuntime, AfterLimits, Reviewing, BeforeRead

-----------------------------------------------------------------------------
(* The outer broker.                                                       *)

\* Terminate goes on from one of its calls to the next, or to the wait.
LEMMA ContinueStep ==
    ASSUME IInv, UNCHANGED input, pc["outer"] \in Tearing, NEW call \in Tearing,
           Goto("outer", call), teardownExited' \in -1 .. 255,
           UNCHANGED <<results, phase, live, runErr, teardownErr, runExited>>
    PROVE  IInv'
<1> USE DEF IInv, results
<1>1. Moves("outer", call) /\ code' = code
  BY GotoMoves DEF Tearing, Steps
<1>2. DataOK'
  BY <1>1 DEF Moves, DataOK
<1>3. ContainInv'
  BY <1>1, ContainFrame DEF Moves
<1>4. OuterInv'
  BY <1>1 DEF Moves, OuterInv, Delivered, Tearing, Calls, Queries
<1> QED
  BY <1>2, <1>3, <1>4

\* Terminate returns without error only when the scope is empty.
LEMMA TerminateStep ==
    ASSUME IInv, UNCHANGED input, pc["outer"] \in Tearing, NEW s \in -1 .. 255,
           TerminateReturns(s)
    PROVE  IInv'
<1> USE DEF IInv, results
<1>1. Moves("outer", "returned") /\ code' = code
  BY GotoMoves DEF TerminateReturns, Steps
<1>2. /\ UNCHANGED <<output, stdout, touched, rlimit, live, runErr, runExited>>
      /\ teardownExited' = s /\ (~teardownErr' => live' = {})
  BY DEF TerminateReturns, Scope!TeardownEnds
<1>3. DataOK'
  BY <1>1, <1>2 DEF Moves, DataOK
<1>4. ContainInv'
  BY <1>1, <1>2, ContainFrame DEF Moves
<1>5. OuterInv'
  BY <1>1, <1>2 DEF Moves, OuterInv, Delivered, Tearing, Calls, Queries
<1> QED
  BY <1>3, <1>4, <1>5

\* Status 0 is left for a run and a teardown without error.
LEMMA OuterStep == IInv /\ OuterNext /\ UNCHANGED input => IInv'
<1> SUFFICES ASSUME IInv, OuterNext, UNCHANGED input PROVE IInv'
  OBVIOUS
<1> USE DEF IInv, Outer, files, results, contained
<1>1. CASE Parse
  <2>1. (Moves("outer", "manager") /\ code' = code) \/ Leaves("outer", 2)
    <3>1. CASE Goto("outer", "manager")
      BY <3>1, GotoMoves DEF Steps
    <3>2. CASE Exit("outer", 2)
      BY <3>2, ExitLeaves
    <3> QED
      BY <1>1, <3>1, <3>2 DEF Parse
  <2>2. DataOK'
    <3>1. pc' \in [Processes -> Steps] /\ code' \in [Processes -> 0 .. 255]
      BY <2>1, MovesType
    <3>2. UNCHANGED <<input, output, stdout, exits, rlimit>>
      BY <1>1 DEF Parse
    <3> QED
      BY <3>1, <3>2, DataFrame
  <2>3. ContainInv'
    BY <1>1, <2>1, ContainFrame DEF Parse, Moves, Leaves
  <2>4. OuterInv'
    BY <1>1, <2>1, OuterEarly DEF Parse, Moves, Leaves
  <2> QED
    BY <2>2, <2>3, <2>4
<1>2. CASE DefaultManager("outer")
  <2>1. (Moves("outer", "unit") /\ code' = code) \/ Leaves("outer", 1)
    BY <1>2, CheckMoves DEF DefaultManager, Steps
  <2>2. DataOK'
    <3>1. pc' \in [Processes -> Steps] /\ code' \in [Processes -> 0 .. 255]
      BY <2>1, MovesType
    <3>2. UNCHANGED <<input, output, stdout, exits, rlimit>>
      BY <1>2 DEF DefaultManager
    <3> QED
      BY <3>1, <3>2, DataFrame
  <2>3. ContainInv'
    BY <1>2, <2>1, ContainFrame DEF DefaultManager, Moves, Leaves
  <2>4. OuterInv'
    BY <1>2, <2>1, OuterEarly DEF DefaultManager, Moves, Leaves
  <2> QED
    BY <2>2, <2>3, <2>4
<1>3. CASE PinSystemdRun
  <2>1. (Moves("outer", "run") /\ code' = code) \/ Leaves("outer", 1)
    <3> DEFINE ok == openOwned(at["systemd-run"])
    <3>1. Check("outer", ok, "run")
      BY <1>3 DEF PinSystemdRun
    <3> HIDE DEF ok
    <3> QED
      BY <3>1, CheckMoves DEF Steps
  <2>2. DataOK'
    <3>1. pc' \in [Processes -> Steps] /\ code' \in [Processes -> 0 .. 255]
      BY <2>1, MovesType
    <3>2. UNCHANGED <<input, output, stdout, exits, rlimit>>
      BY <1>3 DEF PinSystemdRun
    <3> QED
      BY <3>1, <3>2, DataFrame
  <2>3. ContainInv'
    BY <1>3, <2>1, ContainFrame DEF PinSystemdRun, Moves, Leaves
  <2>4. OuterInv'
    BY <1>3, <2>1, OuterEarly DEF PinSystemdRun, Moves, Leaves
  <2> QED
    BY <2>2, <2>3, <2>4
<1>4. CASE RunRefuses
  <2>1. Leaves("outer", 1)
    BY <1>4, ExitLeaves DEF RunRefuses
  <2>2. DataOK'
    <3>1. pc' \in [Processes -> Steps] /\ code' \in [Processes -> 0 .. 255]
      BY <2>1, MovesType
    <3>2. UNCHANGED <<input, output, stdout, exits, rlimit>>
      BY <1>4 DEF RunRefuses
    <3> QED
      BY <3>1, <3>2, DataFrame
  <2>3. ContainInv'
    BY <1>4, <2>1, ContainFrame DEF RunRefuses, Moves, Leaves
  <2>4. OuterInv'
    BY <1>4, <2>1, OuterEarly DEF RunRefuses, Scope!Refuse, Moves, Leaves
  <2> QED
    BY <2>2, <2>3, <2>4
<1>5. CASE Launch
  <2>1. /\ pc' \in [Processes -> Steps]
        /\ pc'["outer"] = "wait" /\ pc'["scoped"] = "manager" /\ code' = code
    BY <1>5 DEF Launch, DataOK, Steps
  <2>2. DataOK'
    <3>1. UNCHANGED <<input, output, stdout, exits, rlimit>>
      BY <1>5 DEF Launch
    <3>2. code' \in [Processes -> 0 .. 255]
      BY <2>1 DEF DataOK
    <3> QED
      BY <2>1, <3>1, <3>2, DataFrame
  <2>3. ContainInv'
    BY <1>5, <2>1 DEF Launch, OuterInv, ContainInv, Limited, AfterVerify, AfterRuntime,
                      AfterLimits, Reviewing, BeforeRead
  <2>4. OuterInv'
    BY <2>1 DEF OuterInv, Tearing, Calls, Queries
  <2> QED
    BY <2>2, <2>3, <2>4
<1>6. CASE CommandReturns
  <2>1. Moves("outer", "load state") /\ code' = code
    BY <1>6, GotoMoves DEF CommandReturns, Steps, Calls, Queries
  <2>2. runExited' \in -1 .. 255
    <3>1. code["scoped"] \in 0 .. 255
      BY DEF DataOK
    <3>2. \A s \in Statuses : s \in -1 .. 255
      BY BrokerAssumption
    <3>3. \A s \in commandStatus : s \in -1 .. 255
      BY <3>1, <3>2 DEF commandStatus
    <3>4. runExited' = 0 \/ runExited' \in commandStatus
      BY <1>6 DEF CommandReturns
    <3> QED
      BY <3>3, <3>4
  <2>3. DataOK'
    BY <1>6, <2>1, <2>2 DEF CommandReturns, Moves, DataOK
  <2>4. ContainInv'
    BY <1>6, <2>1, ContainFrame DEF CommandReturns, Moves
  <2>5. /\ "command" \notin live' /\ UNCHANGED <<input, output, stdout>>
        /\ pc["outer"] \in {"run", "wait"}
        /\ ~runErr' => pc["scoped"] = "exited" /\ code["scoped"] = 0
    <3>1. "command" \notin live' /\ UNCHANGED <<input, output, stdout>>
      BY <1>6 DEF CommandReturns, Scope!CommandEnds
    <3>2. 0 \notin Statuses \union {-1}
      BY BrokerAssumption
    <3> QED
      BY <1>6, <3>1, <3>2 DEF CommandReturns, commandStatus
  <2>6. OuterInv'
    BY <2>1, <2>5 DEF Moves, OuterInv, Delivered, Tearing, Calls, Queries
  <2> QED
    BY <2>3, <2>4, <2>6
<1>7. CASE PinTeardown
  <2>1. pc["outer"] \in Tearing
    BY <1>7 DEF PinTeardown, Tearing
  <2>2. CASE TerminateReturns(0)
    BY <2>1, <2>2, TerminateStep
  <2>3. CASE \E call \in {pc["outer"], "empty"} : Continue(call)
    <3>1. PICK call \in {pc["outer"], "empty"} : Continue(call)
      BY <2>3
    <3>2. call \in Tearing
      BY <2>1 DEF Tearing
    <3>3. /\ Goto("outer", call) /\ teardownExited' \in -1 .. 255
          /\ UNCHANGED <<results, phase, live, runErr, teardownErr, runExited>>
      BY <3>1 DEF Continue, exits, DataOK
    <3> QED
      BY <2>1, <3>2, <3>3, ContinueStep
  <2> QED
    BY <1>7, <2>2, <2>3 DEF PinTeardown
<1>9. CASE QueryFails
  <2>1. pc["outer"] \in Tearing
    BY <1>9 DEF QueryFails, Tearing, Calls
  <2>2. PICK s \in Statuses \union {-1, 0} : TerminateReturns(s)
    BY <1>9 DEF QueryFails
  <2>3. s \in -1 .. 255
    BY BrokerAssumption
  <2> QED
    BY <2>1, <2>2, <2>3, TerminateStep
<1>10. CASE QueryAnswered
  <2>1. pc["outer"] \in Tearing
    BY <1>10 DEF QueryAnswered, Tearing, Calls
  <2>2. CASE TerminateReturns(0)
    BY <2>1, <2>2, TerminateStep
  <2>3. CASE \E call \in {"control group", "active state", "kill"} : Continue(call)
    <3>1. PICK call \in {"control group", "active state", "kill"} : Continue(call)
      BY <2>3
    <3>2. call \in Tearing
      BY DEF Tearing, Calls, Queries
    <3>3. /\ Goto("outer", call) /\ teardownExited' \in -1 .. 255
          /\ UNCHANGED <<results, phase, live, runErr, teardownErr, runExited>>
      BY <3>1 DEF Continue, exits, DataOK
    <3> QED
      BY <2>1, <3>2, <3>3, ContinueStep
  <2> QED
    BY <1>10, <2>2, <2>3 DEF QueryAnswered
<1>11. CASE KillReturns
  <2>1. pc["outer"] \in Tearing /\ "empty" \in Tearing
    BY <1>11 DEF KillReturns, Tearing, Calls
  <2>2. PICK s \in Statuses \union {-1, 0} : teardownExited' = s
    BY <1>11 DEF KillReturns
  <2>3. teardownExited' \in -1 .. 255
    BY <2>2, BrokerAssumption
  <2>4. /\ Goto("outer", "empty")
        /\ UNCHANGED <<results, phase, live, runErr, teardownErr, runExited>>
    BY <1>11 DEF KillReturns
  <2> QED
    BY <2>1, <2>3, <2>4, ContinueStep
<1>12. CASE WaitReturns
  <2>1. pc["outer"] \in Tearing /\ teardownExited \in -1 .. 255
    BY <1>12 DEF WaitReturns, Tearing, DataOK
  <2> QED
    BY <1>12, <2>1, TerminateStep DEF WaitReturns
<1>8. CASE OuterExits
  <2> DEFINE c == exitCode
  <2>1. Exit("outer", c)
    BY <1>8 DEF OuterExits
  <2>2. c \in 0 .. 255 /\ (c = 0 => ~runErr /\ ~teardownErr)
    <3>1. runExited \in -1 .. 255 /\ teardownExited \in -1 .. 255
      BY DEF DataOK
    <3>2. \A e \in -1 .. 255 : e % 256 \in 0 .. 255 /\ (e # 0 => e % 256 # 0)
      OBVIOUS
    <3> QED
      BY <3>1, <3>2 DEF exitCode
  <2> HIDE DEF c
  <2>3. Leaves("outer", c)
    BY <2>1, <2>2, ExitLeaves
  <2>4. DataOK'
    <3>1. pc' \in [Processes -> Steps] /\ code' \in [Processes -> 0 .. 255]
      BY <2>3, MovesType
    <3>2. UNCHANGED <<input, output, stdout, exits, rlimit>>
      BY <1>8 DEF OuterExits
    <3> QED
      BY <3>1, <3>2, DataFrame
  <2>5. ContainInv'
    BY <1>8, <2>3, ContainFrame DEF OuterExits, Moves, Leaves
  <2>6. OuterInv'
    BY <1>8, <2>2, <2>3 DEF OuterExits, Moves, Leaves, OuterInv, Delivered, Tearing, Calls, Queries
  <2> QED
    BY <2>4, <2>5, <2>6
<1> QED
  BY <1>1, <1>2, <1>3, <1>4, <1>5, <1>6, <1>7, <1>8, <1>9, <1>10, <1>11, <1>12 DEF OuterNext
-----------------------------------------------------------------------------
(* The scoped broker.                                                      *)

\* A limit is lowered to what was asked for, never raised, and its soft value
\* never exceeds its hard one.
LEMMA LoweredLimit ==
    ASSUME NEW l \in [cur : Nat, max : Nat], NEW value \in Nat
    PROVE  /\ lowered(l, value) \in [cur : Nat, max : Nat]
           /\ lowered(l, value).max <= l.max /\ lowered(l, value).max <= value
           /\ lowered(l, value).cur <= lowered(l, value).max
  BY DEF lowered, atMost

\* Each step adds what it has verified, and status 0 follows a complete write.
LEMMA ScopedStep == IInv /\ ScopedNext /\ UNCHANGED input => IInv'
<1> SUFFICES ASSUME IInv, ScopedNext, UNCHANGED input PROVE IInv'
  OBVIOUS
<1> USE DEF IInv, Scoped, files, results, contained
<1>1. CASE DefaultManager("scoped")
  <2>1. "command" \in live /\ pc["scoped"] = "manager"
    BY <1>1 DEF DefaultManager
  <2>2. (Moves("scoped", "verify") /\ code' = code) \/ Leaves("scoped", 1)
    BY <1>1, CheckMoves DEF DefaultManager, Steps
  <2>3. DataOK'
    <3>1. pc' \in [Processes -> Steps] /\ code' \in [Processes -> 0 .. 255]
      BY <2>2, MovesType
    <3>2. UNCHANGED <<input, output, stdout, exits, rlimit>>
      BY <1>1 DEF DefaultManager
    <3> QED
      BY <3>1, <3>2, DataFrame
  <2>5. ContainInv'
    BY <1>1, <2>1, <2>2 DEF DefaultManager, Moves, Leaves, ContainInv, Limited,
       AfterVerify, AfterRuntime, AfterLimits, Reviewing, BeforeRead
  <2>6. OuterInv'
    BY <2>1, <2>2, ScopedGoes, ScopedFails DEF Steps
  <2> QED
    BY <2>3, <2>5, <2>6
<1>2. CASE Verify
  <2>1. "command" \in live /\ pc["scoped"] = "verify"
    BY <1>2 DEF Verify
  <2>2. \/ VerifyOK(input.grant) /\ Moves("scoped", "lifetime") /\ code' = code
        \/ Leaves("scoped", 1)
    BY <1>2, CheckMoves DEF Verify, Steps
  <2>3. DataOK'
    <3>1. pc' \in [Processes -> Steps] /\ code' \in [Processes -> 0 .. 255]
      BY <2>2, MovesType
    <3>2. UNCHANGED <<input, output, stdout, exits, rlimit>>
      BY <1>2 DEF Verify
    <3> QED
      BY <3>1, <3>2, DataFrame
  <2>5. ContainInv'
    BY <1>2, <2>1, <2>2 DEF Verify, Moves, Leaves, ContainInv, Limited,
       AfterVerify, AfterRuntime, AfterLimits, Reviewing, BeforeRead
  <2>6. OuterInv'
    BY <2>1, <2>2, ScopedGoes, ScopedFails DEF Steps
  <2> QED
    BY <2>3, <2>5, <2>6
<1>3. CASE PinSystemctl
  <2>1. "command" \in live /\ pc["scoped"] = "lifetime"
    BY <1>3 DEF PinSystemctl
  <2>2. (Moves("scoped", "lifetime") /\ code' = code) \/ Leaves("scoped", 1)
    <3> DEFINE ok == openOwned(at["systemctl"])
    <3>1. Check("scoped", ok, "lifetime")
      BY <1>3 DEF PinSystemctl
    <3> HIDE DEF ok
    <3> QED
      BY <3>1, CheckMoves DEF Steps
  <2>3. DataOK'
    <3>1. pc' \in [Processes -> Steps] /\ code' \in [Processes -> 0 .. 255]
      BY <2>2, MovesType
    <3>2. UNCHANGED <<input, output, stdout, exits, rlimit>>
      BY <1>3 DEF PinSystemctl
    <3> QED
      BY <3>1, <3>2, DataFrame
  <2>5. ContainInv'
    BY <1>3, <2>1, <2>2 DEF PinSystemctl, Moves, Leaves, ContainInv, Limited,
       AfterVerify, AfterRuntime, AfterLimits, Reviewing, BeforeRead
  <2>6. OuterInv'
    BY <2>1, <2>2, ScopedGoes, ScopedFails DEF Steps
  <2> QED
    BY <2>3, <2>5, <2>6
<1>4. CASE VerifyRuntime
  <2>1. "command" \in live /\ pc["scoped"] = "lifetime"
    BY <1>4 DEF VerifyRuntime
  <2>2. \/ verifyRuntimeMax(input.grant.runtime) /\ Moves("scoped", "limits") /\ code' = code
        \/ Leaves("scoped", 1)
    <3>1. PICK answered \in BOOLEAN :
             Check("scoped", answered /\ verifyRuntimeMax(input.grant.runtime), "limits")
      BY <1>4 DEF VerifyRuntime
    <3> QED
      BY <3>1, CheckMoves DEF Steps
  <2>3. DataOK'
    <3>1. pc' \in [Processes -> Steps] /\ code' \in [Processes -> 0 .. 255]
      BY <2>2, MovesType
    <3>2. UNCHANGED <<input, output, stdout, exits, rlimit>>
      BY <1>4 DEF VerifyRuntime
    <3> QED
      BY <3>1, <3>2, DataFrame
  <2>5. ContainInv'
    BY <1>4, <2>1, <2>2 DEF VerifyRuntime, Moves, Leaves, ContainInv, Limited,
       AfterVerify, AfterRuntime, AfterLimits, Reviewing, BeforeRead
  <2>6. OuterInv'
    BY <2>1, <2>2, ScopedGoes, ScopedFails DEF Steps
  <2> QED
    BY <2>3, <2>5, <2>6
<1>5. CASE ApplyProcessLimits
  <2>1. "command" \in live /\ pc["scoped"] = "limits"
    BY <1>5 DEF ApplyProcessLimits
  <2>2. PICK applied \in {{}, {"core"}, {"core", "nofile"}} :
           /\ rlimit' = [r \in DOMAIN rlimit |->
                 IF r \in applied
                 THEN lowered(rlimit[r], IF r = "core" THEN 0 ELSE OpenFilesMax)
                 ELSE rlimit[r]]
           /\ Check("scoped", applied = {"core", "nofile"}, input.request)
    BY <1>5 DEF ApplyProcessLimits
  <2>3. input.request \in Requests
    BY BrokerAssumption DEF DataOK
  <2>4. \/ /\ applied = {"core", "nofile"}
           /\ Moves("scoped", input.request) /\ code' = code
        \/ Leaves("scoped", 1)
    <3>1. input.request \in Steps
      BY <2>3 DEF Requests, Steps
    <3> DEFINE ok == applied = {"core", "nofile"}
    <3>2. Check("scoped", ok, input.request)
      BY <2>2
    <3> HIDE DEF ok
    <3>3. \/ ok /\ Moves("scoped", input.request) /\ code' = code
          \/ ~ok /\ Leaves("scoped", 1)
      BY <3>1, <3>2, CheckMoves
    <3> QED
      BY <3>3 DEF ok
  <2> DEFINE names == {"core", "nofile"}
             value(r) == IF r = "core" THEN 0 ELSE OpenFilesMax
             low(r) == lowered(rlimit[r], value(r))
  <2>5. ASSUME NEW r \in names
        PROVE  /\ rlimit[r] \in [cur : Nat, max : Nat]
               /\ low(r) \in [cur : Nat, max : Nat]
               /\ low(r).max <= rlimit[r].max /\ low(r).max <= value(r)
               /\ low(r).cur <= low(r).max
    <3>1. rlimit[r] \in [cur : Nat, max : Nat] /\ value(r) \in Nat
      BY BrokerAssumption DEF DataOK, Rlimits
    <3> HIDE DEF value
    <3> QED
      BY <3>1, LoweredLimit
  <2>6. /\ rlimit' = [r \in names |-> rlimit'[r]]
        /\ \A r \in names : rlimit'[r] = IF r \in applied THEN low(r) ELSE rlimit[r]
    BY <2>2 DEF DataOK, Rlimits
  <2> HIDE DEF low, value
  <2>7. /\ rlimit' \in Rlimits
        /\ \A r \in names : rlimit'[r].max <= rlimit[r].max
    <3>1. \A r \in names : /\ rlimit'[r] \in [cur : Nat, max : Nat]
                           /\ rlimit'[r].max <= rlimit[r].max
      BY <2>5, <2>6
    <3> QED
      BY <2>6, <3>1 DEF Rlimits
  <2>8. applied = names => Limited'
    <3>1. value("core") = 0 /\ value("nofile") = OpenFilesMax
      BY DEF value
    <3> QED
      BY <2>5, <2>6, <3>1, BrokerAssumption DEF Limited
  <2>9. DataOK'
    <3>1. \A r \in names : rlimit'[r].max <= input'.rlimit[r].max
      <4>1. ASSUME NEW r \in names
            PROVE  /\ rlimit'[r].max \in Nat /\ rlimit[r].max \in Nat
                   /\ input.rlimit[r].max \in Nat
                   /\ rlimit[r].max <= input.rlimit[r].max
        <5>1. input.rlimit \in Rlimits
          BY BrokerAssumption DEF DataOK
        <5>2. rlimit \in Rlimits /\ rlimit[r].max <= input.rlimit[r].max
          BY DEF DataOK
        <5> QED
          BY <2>7, <5>1, <5>2 DEF Rlimits
      <4> QED
        BY <2>7, <4>1
    <3>2. pc' \in [Processes -> Steps] /\ code' \in [Processes -> 0 .. 255]
      BY <2>4, MovesType
    <3> QED
      BY <1>5, <2>7, <3>1, <3>2 DEF ApplyProcessLimits, DataOK, exits
  <2>11. ContainInv'
    BY <1>5, <2>1, <2>3, <2>4, <2>8
       DEF ApplyProcessLimits, Moves, Leaves, ContainInv, Requests,
           AfterVerify, AfterRuntime, AfterLimits, Reviewing, BeforeRead
  <2>12. OuterInv'
    BY <2>1, <2>3, <2>4, ScopedGoes, ScopedFails DEF Steps, Requests
  <2> QED
    BY <2>9, <2>11, <2>12
<1>6. CASE List
  <2>1. "command" \in live /\ pc["scoped"] = "list" /\ input.request = "list"
    BY <1>6 DEF List, ContainInv
  <2>2. \/ installedPluginIDs /\ stdout' = "list" /\ Leaves("scoped", 0)
        \/ stdout' \in {"empty", "partial", stdout} /\ Leaves("scoped", 1)
    BY <1>6, ExitLeaves DEF List, Write
  <2>3. DataOK'
    <3>1. pc' \in [Processes -> Steps] /\ code' \in [Processes -> 0 .. 255]
      BY <2>2 DEF Moves, Leaves
    <3>2. UNCHANGED <<input, output, exits, rlimit>>
      BY <1>6 DEF List
    <3>3. stdout' \in {"empty", "partial", "list", "report"}
      BY <2>2 DEF DataOK
    <3> QED
      BY <3>1, <3>2, <3>3 DEF DataOK, exits
  <2>5. ContainInv'
    BY <1>6, <2>1, <2>2, LeaveContained DEF List, Moves, Leaves, AfterVerify,
       AfterRuntime, AfterLimits
  <2>6. OuterInv'
    <3>1. CASE installedPluginIDs /\ stdout' = "list" /\ Leaves("scoped", 0)
      <4>1. Delivered'
        BY <2>1, <3>1 DEF Delivered, installedPluginIDs
      <4> QED
        BY <2>1, <3>1, <4>1, OuterFrame DEF Moves, Leaves
    <3>2. CASE Leaves("scoped", 1)
      BY <2>1, <3>2, ScopedFails
    <3> QED
      BY <2>2, <3>1, <3>2
  <2> QED
    BY <2>3, <2>5, <2>6
<1>7. CASE OpenTarget
  <2>1. "command" \in live /\ pc["scoped"] = "review"
    BY <1>7 DEF OpenTarget
  <2>2. (Moves("scoped", "pin scanner") /\ code' = code) \/ Leaves("scoped", 1)
    BY <1>7, CheckMoves DEF OpenTarget, Steps
  <2>3. DataOK'
    <3>1. pc' \in [Processes -> Steps] /\ code' \in [Processes -> 0 .. 255]
      BY <2>2, MovesType
    <3>2. UNCHANGED <<input, output, stdout, exits, rlimit>>
      BY <1>7 DEF OpenTarget
    <3> QED
      BY <3>1, <3>2, DataFrame
  <2>5. ContainInv'
    BY <1>7, <2>1, <2>2 DEF OpenTarget, Moves, Leaves, ContainInv, Limited,
       AfterVerify, AfterRuntime, AfterLimits, Reviewing, BeforeRead
  <2>6. OuterInv'
    BY <2>1, <2>2, ScopedGoes, ScopedFails DEF Steps
  <2> QED
    BY <2>3, <2>5, <2>6
<1>8. CASE PinScanner
  <2>1. "command" \in live /\ pc["scoped"] = "pin scanner"
    BY <1>8 DEF PinScanner
  <2>2. (Moves("scoped", "pin bwrap") /\ code' = code) \/ Leaves("scoped", 1)
    <3> DEFINE ok == trustedScanner(at["scanner"])
    <3>1. Check("scoped", ok, "pin bwrap")
      BY <1>8 DEF PinScanner
    <3> HIDE DEF ok
    <3> QED
      BY <3>1, CheckMoves DEF Steps
  <2>3. DataOK'
    <3>1. pc' \in [Processes -> Steps] /\ code' \in [Processes -> 0 .. 255]
      BY <2>2, MovesType
    <3>2. UNCHANGED <<input, output, stdout, exits, rlimit>>
      BY <1>8 DEF PinScanner
    <3> QED
      BY <3>1, <3>2, DataFrame
  <2>5. ContainInv'
    BY <1>8, <2>1, <2>2 DEF PinScanner, Moves, Leaves, ContainInv, Limited,
       AfterVerify, AfterRuntime, AfterLimits, Reviewing, BeforeRead
  <2>6. OuterInv'
    BY <2>1, <2>2, ScopedGoes, ScopedFails DEF Steps
  <2> QED
    BY <2>3, <2>5, <2>6
<1>12. CASE PinBwrap
  <2>1. "command" \in live /\ pc["scoped"] = "pin bwrap"
    BY <1>12 DEF PinBwrap
  <2>2. (Moves("scoped", "scan") /\ code' = code) \/ Leaves("scoped", 1)
    <3>1. CASE Goto("scoped", "scan")
      BY <3>1, GotoMoves DEF Steps
    <3>2. CASE Exit("scoped", 1)
      BY <3>2, ExitLeaves
    <3> QED
      BY <1>12, <3>1, <3>2 DEF PinBwrap
  <2>3. DataOK'
    <3>1. pc' \in [Processes -> Steps] /\ code' \in [Processes -> 0 .. 255]
      BY <2>2, MovesType
    <3>2. UNCHANGED <<input, output, stdout, exits, rlimit>>
      BY <1>12 DEF PinBwrap
    <3> QED
      BY <3>1, <3>2, DataFrame
  <2>5. ContainInv'
    BY <1>12, <2>1, <2>2 DEF PinBwrap, Moves, Leaves, ContainInv, Limited,
       AfterVerify, AfterRuntime, AfterLimits, Reviewing, BeforeRead
  <2>6. OuterInv'
    BY <2>1, <2>2, ScopedGoes, ScopedFails DEF Steps
  <2> QED
    BY <2>3, <2>5, <2>6
<1>9. CASE StartScanner
  <2>1. "command" \in live /\ pc["scoped"] = "scan"
    BY <1>9 DEF StartScanner
  <2>2. Moves("scoped", "scanning") /\ code' = code
    BY <1>9, GotoMoves DEF StartScanner, Steps
  <2>3. DataOK'
    <3>1. pc' \in [Processes -> Steps] /\ code' \in [Processes -> 0 .. 255]
      BY <2>2, MovesType
    <3>2. UNCHANGED <<input, output, stdout, exits, rlimit>>
      BY <1>9 DEF StartScanner
    <3> QED
      BY <3>1, <3>2, DataFrame
  <2>5. ContainInv'
    BY <1>9, <2>1, <2>2 DEF StartScanner, Moves, ContainInv, Limited,
       AfterVerify, AfterRuntime, AfterLimits, Reviewing, BeforeRead
  <2>6. OuterInv'
    BY <2>1, <2>2, ScopedGoes DEF Steps
  <2> QED
    BY <2>3, <2>5, <2>6
<1>10. CASE ScannerReturns
  <2>1. "command" \in live /\ pc["scoped"] \in {"scan", "scanning"}
    BY <1>10 DEF ScannerReturns
  <2>2. /\ output' \in {"valid", "other limits", "invalid", output}
        /\ (Moves("scoped", "decode") /\ code' = code) \/ Leaves("scoped", 1)
    <3>1. \/ output' \in {"valid", "other limits", "invalid"} /\ Goto("scoped", "decode")
          \/ output' = output /\ Exit("scoped", 1)
      BY <1>10 DEF ScannerReturns
    <3>2. Goto("scoped", "decode") => Moves("scoped", "decode") /\ code' = code
      BY GotoMoves DEF Steps
    <3>3. Exit("scoped", 1) => Leaves("scoped", 1)
      BY ExitLeaves
    <3> QED
      BY <3>1, <3>2, <3>3
  <2>3. DataOK'
    <3>1. output' \in {"none", "valid", "other limits", "invalid"}
      BY <2>2 DEF DataOK
    <3>2. pc' \in [Processes -> Steps] /\ code' \in [Processes -> 0 .. 255]
      BY <2>2, MovesType
    <3> QED
      BY <1>10, <3>1, <3>2 DEF ScannerReturns, DataOK, exits
  <2>5. ContainInv'
    BY <1>10, <2>1, <2>2 DEF ScannerReturns, Moves, Leaves, ContainInv, Limited,
       AfterVerify, AfterRuntime, AfterLimits, Reviewing, BeforeRead
  <2>6. OuterInv'
    BY <2>1, <2>2, ScopedGoes, ScopedFails DEF Steps
  <2> QED
    BY <2>3, <2>5, <2>6
<1>11. CASE Deliver
  <2>1. "command" \in live /\ pc["scoped"] = "decode" /\ input.request = "review"
    BY <1>11 DEF Deliver, ContainInv, AfterVerify, AfterRuntime, AfterLimits, Reviewing
  <2>2. \/ output = "valid" /\ stdout' = "report" /\ Leaves("scoped", 0)
        \/ stdout' \in {"empty", "partial", stdout} /\ Leaves("scoped", 1)
    BY <1>11, ExitLeaves DEF Deliver, Write
  <2>3. DataOK'
    <3>1. pc' \in [Processes -> Steps] /\ code' \in [Processes -> 0 .. 255]
      BY <2>2 DEF Moves, Leaves
    <3>2. UNCHANGED <<input, output, exits, rlimit>>
      BY <1>11 DEF Deliver
    <3>3. stdout' \in {"empty", "partial", "list", "report"}
      BY <2>2 DEF DataOK
    <3> QED
      BY <3>1, <3>2, <3>3 DEF DataOK, exits
  <2>5. ContainInv'
    BY <1>11, <2>1, <2>2, LeaveContained DEF Deliver, Moves, Leaves, AfterVerify,
       AfterRuntime, AfterLimits
  <2>6. OuterInv'
    <3>1. CASE output = "valid" /\ stdout' = "report" /\ Leaves("scoped", 0)
      <4>1. Delivered'
        BY <1>11, <2>1, <3>1 DEF Deliver, Delivered
      <4> QED
        BY <2>1, <3>1, <4>1, OuterFrame DEF Moves, Leaves
    <3>2. CASE Leaves("scoped", 1)
      BY <2>1, <3>2, ScopedFails
    <3> QED
      BY <2>2, <3>1, <3>2
  <2> QED
    BY <2>3, <2>5, <2>6
<1> QED
  BY <1>1, <1>2, <1>3, <1>4, <1>5, <1>6, <1>7, <1>8, <1>9, <1>10, <1>11, <1>12
     DEF ScopedNext
-----------------------------------------------------------------------------
(* Everybody else.                                                         *)

\* Kills, deaths and replaced files: a pin outlives what its path names.
LEMMA EnvironmentStep == IInv /\ Environment /\ UNCHANGED input => IInv'
<1> SUFFICES ASSUME IInv, Environment, UNCHANGED input PROVE IInv'
  OBVIOUS
<1> USE DEF IInv, files, results, contained
<1>1. CASE OuterKilled
  <2>1. Moves("outer", "killed") /\ code' = code
    BY <1>1, GotoMoves DEF OuterKilled, Steps
  <2>2. DataOK'
    BY <1>1, <2>1, DataFrame DEF OuterKilled, Moves, DataOK
  <2>3. ContainInv'
    BY <1>1, <2>1, ContainFrame DEF OuterKilled, Moves
  <2>4. OuterInv'
    BY <1>1, <2>1 DEF OuterKilled, Scope!CallerKilled, Moves, OuterInv, Delivered, Tearing, Calls, Queries
  <2> QED
    BY <2>2, <2>3, <2>4
<1>2. CASE CommandDies \/ DescendantsDie
  <2>1. /\ UNCHANGED <<pc, code, results, exits, runErr, teardownErr>>
        /\ live' \subseteq live
    BY <1>2 DEF CommandDies, DescendantsDie, Scope!Die
  <2>2. DataOK' /\ ContainInv'
    BY <2>1, DataFrame, ContainFrame DEF DataOK
  <2>3. OuterInv'
    BY <2>1 DEF OuterInv, Delivered, Tearing, Calls, Queries
  <2> QED
    BY <2>2, <2>3
<1>3. ASSUME NEW program \in Programs, NEW i \in Inodes, Replace(program, i)
      PROVE  IInv'
  <2>1. DataOK'
    BY <1>3 DEF Replace, DataOK, exits
  <2>2. ContainInv'
    BY <1>3, ContainFrame DEF Replace
  <2>3. OuterInv'
    BY <1>3 DEF Replace, OuterInv, Delivered, Tearing, Calls, Queries
  <2> QED
    BY <2>1, <2>2, <2>3
<1> QED
  BY <1>1, <1>2, <1>3 DEF Environment

-----------------------------------------------------------------------------
(* Descriptors.                                                            *)

\* A program that is pinned has passed the checks that were about that inode.
LEMMA PinFiles ==
    ASSUME FileInv, NEW p \in Processes, NEW g \in Programs, NEW accepted,
           accepted => Trusted(g, at[g]), Pin(p, g, accepted)
    PROVE  FileInv'
<1> DEFINE new == [by |-> p, program |-> g, inode |-> at[g]]
<1>1. new \in Descriptors /\ new.program = g /\ new.inode = at[g]
  BY DEF FileInv, Descriptors
<1>2. at' = at /\ executed' = executed
  BY DEF Pin
<1>3. fds' = fds \/ (accepted /\ fds' = fds \union {new})
  BY DEF Pin
<1> HIDE DEF new
<1>4. fds' \subseteq Descriptors /\ \A d \in fds' : Trusted(d.program, d.inode)
  BY <1>1, <1>3, Zenon DEF FileInv
<1> QED
  BY <1>2, <1>4, Zenon DEF FileInv, Trusted

\* Only what is open is executed, and closing takes nothing from it.
LEMMA RunFiles ==
    ASSUME FileInv, at' = at, fds' \subseteq fds, NEW p, NEW programs,
           executed' = executed \/ CommandPath(p, programs)
    PROVE  FileInv'
<1>1. ASSUME NEW e \in executed'
      PROVE  e \in Programs \X Inodes /\ Trusted(e[1], e[2])
  <2>1. CASE e \in executed
    BY <2>1 DEF FileInv
  <2>2. CASE \E d \in fds : e = <<d.program, d.inode>>
    <3>1. PICK d \in fds : e = <<d.program, d.inode>>
      BY <2>2
    <3>2. d.program \in Programs /\ d.inode \in Inodes /\ Trusted(d.program, d.inode)
      BY DEF FileInv, Descriptors
    <3> QED
      BY <3>1, <3>2
  <2> QED
    BY <1>1, <2>1, <2>2 DEF CommandPath, Open
<1>2. fds' \subseteq Descriptors /\ \A d \in fds' : Trusted(d.program, d.inode)
  BY DEF FileInv
<1> QED
  BY <1>1, <1>2 DEF FileInv, Trusted

LEMMA CloseFiles ==
    ASSUME NEW p, NEW programs, Close(p, programs)
    PROVE  fds' \subseteq fds
  BY DEF Close

LEMMA SystemctlFiles ==
    ASSUME FileInv, NEW p, NEW runs, NEW programs, systemctl(p, runs, programs)
    PROVE  FileInv'
  BY RunFiles, CloseFiles DEF systemctl

\* Every step opens a program that it checks, runs what is open, closes, or
\* leaves the files alone; a replaced path changes no descriptor.
LEMMA FileStep == FileInv /\ [Next]_vars => FileInv'
<1> SUFFICES ASSUME FileInv, [Next]_vars PROVE FileInv'
  OBVIOUS
<1> DEFINE Same == UNCHANGED files
<1>0. CASE Same
  BY <1>0 DEF files, FileInv, Trusted
<1>1. CASE PinSystemdRun \/ PinSystemctl \/ PinScanner
  BY <1>1, PinFiles DEF PinSystemdRun, PinSystemctl, PinScanner, Trusted, trustedScanner, Programs
<1>2. CASE PinTeardown
  <2>1. CASE openOwned(at["systemctl"]) /\ Pin("outer", "systemctl", TRUE)
    BY <2>1, PinFiles DEF Trusted, Programs
  <2>2. CASE Close("outer", Programs) /\ UNCHANGED <<at, executed>>
    BY <2>2, RunFiles, CloseFiles
  <2> QED
    BY <1>0, <1>2, <2>1, <2>2 DEF PinTeardown
<1>3. CASE PinBwrap
  <2>1. CASE openOwned(at["bwrap"]) /\ Pin("scoped", "bwrap", TRUE)
    BY <2>1, PinFiles DEF Trusted, Programs
  <2>2. CASE Close("scoped", {"scanner"}) /\ UNCHANGED <<at, executed>>
    BY <2>2, RunFiles, CloseFiles
  <2> QED
    BY <1>3, <2>1, <2>2 DEF PinBwrap
<1>4. CASE Launch \/ StartScanner
  BY <1>4, RunFiles DEF Launch, StartScanner
<1>5. CASE QueryFails \/ QueryAnswered \/ KillReturns \/ VerifyRuntime
  <2>1. \E p, runs, programs : systemctl(p, runs, programs)
    BY <1>5 DEF QueryFails, QueryAnswered, KillReturns, VerifyRuntime
  <2> QED
    BY <2>1, SystemctlFiles
<1>6. CASE RunRefuses \/ WaitReturns \/ ScannerReturns
  <2>1. UNCHANGED <<at, executed>> /\ \E p, programs : Close(p, programs)
    BY <1>6 DEF RunRefuses, WaitReturns, ScannerReturns
  <2> QED
    BY <2>1, RunFiles, CloseFiles
<1>7. CASE OuterKilled \/ CommandDies
  <2>1. UNCHANGED <<at, executed>> /\ fds' \subseteq fds
    BY <1>7 DEF OuterKilled, CommandDies
  <2> QED
    BY <2>1, RunFiles
<1>8. ASSUME NEW program \in Programs, NEW i \in Inodes, Replace(program, i)
      PROVE  FileInv'
  <2>1. at' \in [Programs -> Inodes] /\ UNCHANGED <<fds, executed>>
    BY <1>8 DEF Replace, FileInv
  <2> QED
    BY <2>1 DEF FileInv, Trusted
<1>9. CASE OuterNext
  <2>1. CASE Parse \/ DefaultManager("outer") \/ CommandReturns \/ OuterExits
    BY <1>0, <2>1 DEF Parse, DefaultManager, CommandReturns, OuterExits
  <2> QED
    BY <1>1, <1>2, <1>4, <1>5, <1>6, <1>9, <2>1 DEF OuterNext
<1>10. CASE ScopedNext
  <2>1. CASE \/ DefaultManager("scoped") \/ Verify \/ ApplyProcessLimits \/ List
             \/ OpenTarget \/ Deliver
    BY <1>0, <2>1 DEF DefaultManager, Verify, ApplyProcessLimits, List, OpenTarget, Deliver
  <2> QED
    BY <1>1, <1>3, <1>4, <1>5, <1>6, <1>10, <2>1 DEF ScopedNext
<1>11. CASE Environment
  <2>1. CASE DescendantsDie
    BY <1>0, <2>1 DEF DescendantsDie
  <2> QED
    BY <1>7, <1>8, <1>11, <2>1 DEF Environment
<1>12. CASE UNCHANGED vars
  BY <1>0, <1>12 DEF vars
<1> QED
  BY <1>9, <1>10, <1>11, <1>12 DEF Next

\* Every open program has passed the checks: an invariant of the files alone.
THEOREM FilesInductive == Spec => []FileInv
<1>1. Init => FileInv
  <2> SUFFICES ASSUME Init PROVE FileInv
    OBVIOUS
  <2>1. input.installed \in [Programs -> Inodes]
    BY BrokerAssumption DEF Init
  <2> QED
    BY <2>1 DEF Init, FileInv
<1> QED
  BY <1>1, FileStep, PTL DEF Spec

\* The steps at which each program may be open.
LEMMA HoldingIs ==
    /\ Holding["systemd-run"] = Calls \union {"run", "wait", "empty"}
    /\ Holding["systemctl"] = Calls \union {"lifetime"}
    /\ Holding["scanner"] = {"pin bwrap", "scan", "scanning"}
    /\ Holding["bwrap"] = {"scan", "scanning"}
  BY DEF Holding, Programs

\* Process p goes to a step at which whatever it keeps open may be open.
LEMMA HeldMoves ==
    ASSUME HeldInv, FileInv, NEW p \in Processes,
           \A q \in Processes \ {p} : pc'[q] = pc[q],
           \A d \in fds' : d \in fds /\ (d.by = p => pc'[p] \in Holding[d.program])
    PROVE  HeldInv'
<1> SUFFICES ASSUME NEW d \in fds' PROVE pc'[d.by] \in Holding[d.program]
  BY DEF HeldInv
<1>1. d \in fds /\ d.by \in Processes
  BY DEF FileInv, Descriptors
<1>2. pc[d.by] \in Holding[d.program]
  BY <1>1 DEF HeldInv
<1> QED
  BY <1>1, <1>2

\* Process p keeps what it has open and goes on within the same functions.
LEMMA HeldStays ==
    ASSUME HeldInv, FileInv, NEW p \in Processes,
           \A q \in Processes \ {p} : pc'[q] = pc[q], fds' \subseteq fds,
           \A g \in Programs : pc[p] \in Holding[g] => pc'[p] \in Holding[g]
    PROVE  HeldInv'
<1>1. ASSUME NEW d \in fds', d.by = p
      PROVE  pc'[p] \in Holding[d.program]
  <2>1. d \in fds /\ d.program \in Programs
    BY DEF FileInv, Descriptors
  <2>2. pc[p] \in Holding[d.program]
    BY <1>1, <2>1 DEF HeldInv
  <2> QED
    BY <2>1, <2>2
<1> QED
  BY <1>1, HeldMoves

\* Process p closes what it has open and could not keep at its next step.
LEMMA HeldCloses ==
    ASSUME HeldInv, FileInv, NEW p \in Processes, NEW programs,
           \A q \in Processes \ {p} : pc'[q] = pc[q], Close(p, programs),
           \A g \in Programs : pc[p] \in Holding[g] => g \in programs \/ pc'[p] \in Holding[g]
    PROVE  HeldInv'
<1>1. ASSUME NEW d \in fds'
      PROVE  d \in fds /\ (d.by = p => pc'[p] \in Holding[d.program])
  <2>1. d \in fds /\ (d.by = p => d.program \notin programs)
    BY DEF Close, Open
  <2>2. d.program \in Programs /\ pc[d.by] \in Holding[d.program]
    BY <2>1 DEF FileInv, Descriptors, HeldInv
  <2> QED
    BY <2>1, <2>2
<1> QED
  BY <1>1, HeldMoves

\* Process p opens a program and goes to a step at which it may be open.
LEMMA HeldPins ==
    ASSUME HeldInv, FileInv, NEW p \in Processes, NEW g \in Programs,
           \A q \in Processes \ {p} : pc'[q] = pc[q], Pin(p, g, TRUE),
           pc'[p] \in Holding[g],
           \A h \in Programs : pc[p] \in Holding[h] => pc'[p] \in Holding[h]
    PROVE  HeldInv'
<1> SUFFICES ASSUME NEW d \in fds' PROVE pc'[d.by] \in Holding[d.program]
  BY DEF HeldInv
<1>1. CASE d = [by |-> p, program |-> g, inode |-> at[g]]
  BY <1>1
<1>2. CASE d \in fds
  <2>1. d.by \in Processes /\ d.program \in Programs /\ pc[d.by] \in Holding[d.program]
    BY <1>2 DEF FileInv, Descriptors, HeldInv
  <2>2. CASE d.by = p
    BY <2>1, <2>2
  <2>3. CASE d.by # p
    BY <2>1, <2>3
  <2> QED
    BY <2>2, <2>3
<1> QED
  BY <1>1, <1>2 DEF Pin

\* The steps at which nothing is open.
Idle == {"none", "parse", "manager", "unit", "returned", "verify", "limits", "list",
         "review", "pin scanner", "decode"}

LEMMA IdleHolds == \A step \in Idle, g \in Programs : step \notin Holding[g]
  BY HoldingIs DEF Idle, Programs, Calls, Queries

\* A process leaves a step at which nothing is open, and opens nothing.
LEMMA HeldIdle ==
    ASSUME HeldInv, FileInv, NEW p \in Processes, pc[p] \in Idle, fds' = fds,
           \A q \in Processes \ {p} : pc'[q] = pc[q]
    PROVE  HeldInv'
  BY IdleHolds, HeldStays

LEMMA HeldFrame ==
    ASSUME HeldInv, FileInv, pc' = pc, fds' \subseteq fds
    PROVE  HeldInv'
  BY DEF HeldInv

\* Terminate's steps: it goes on, or closes everything as it returns.
LEMMA HeldTeardown ==
    ASSUME IInv, FileInv, HeldInv,
           PinTeardown \/ QueryFails \/ QueryAnswered \/ KillReturns \/ WaitReturns
    PROVE  HeldInv'
<1> USE DEF IInv
<1>0. \A g \in Programs : g \in {"systemctl", "systemd-run", "scanner", "bwrap"}
  BY DEF Programs
<1>1. /\ \A step \in Steps : Goto("outer", step) => Moves("outer", step)
      /\ Tearing \union {"returned"} \subseteq Steps
  BY GotoMoves DEF Tearing, Steps
<1>2. ASSUME NEW step \in Tearing, Goto("outer", step), Close("outer", {"systemctl"}),
             pc["outer"] \in Calls
      PROVE  HeldInv'
  <2>1. Moves("outer", step)
    BY <1>1, <1>2
  <2>2. \A g \in Programs :
           pc["outer"] \in Holding[g] => g = "systemctl" \/ step \in Holding[g]
    BY <1>0, <1>2, HoldingIs DEF Tearing, Calls, Queries
  <2> QED
    BY <1>2, <2>1, <2>2, HeldCloses DEF Moves
<1>3. ASSUME NEW s, TerminateReturns(s), Close("outer", Programs)
      PROVE  HeldInv'
  <2>1. Moves("outer", "returned")
    BY <1>1, <1>3 DEF TerminateReturns
  <2> QED
    BY <1>3, <2>1, HeldCloses DEF Moves
<1>4. CASE PinTeardown
  <2>1. CASE Pin("outer", "systemctl", TRUE) /\ Continue(pc["outer"])
    <3>1. Moves("outer", pc["outer"])
      BY <1>1, <1>4, <2>1 DEF Continue, PinTeardown, Tearing
    <3>2. "systemctl" \in Programs /\ pc["outer"] \in Holding["systemctl"]
      BY <1>4, HoldingIs DEF PinTeardown, Programs
    <3> QED
      BY <2>1, <3>1, <3>2, HeldPins DEF Moves
  <2>2. CASE TerminateReturns(0) /\ Close("outer", Programs)
    BY <1>3, <2>2
  <2>3. CASE Outer("kill") /\ Continue("empty") /\ UNCHANGED files
    <3>1. Moves("outer", "empty")
      BY <1>1, <2>3 DEF Continue, Tearing
    <3>2. ASSUME NEW d \in fds', d.by = "outer"
          PROVE  "empty" \in Holding[d.program]
      <4>1. d \in fds /\ d.program \in Programs /\ "kill" \in Holding[d.program]
        BY <2>3, <3>2 DEF files, FileInv, Descriptors, HeldInv, Outer
      <4>2. d.program # "systemctl"
        BY <1>4, <3>2, <4>1 DEF PinTeardown, Opened, Open
      <4>3. CASE d.program = "systemd-run"
        BY <4>3, HoldingIs
      <4>4. "kill" \notin Holding["scanner"] /\ "kill" \notin Holding["bwrap"]
        BY HoldingIs
      <4> QED
        BY <1>0, <4>1, <4>2, <4>3, <4>4
    <3> QED
      BY <2>3, <3>1, <3>2, HeldMoves DEF Moves, files
  <2> QED
    BY <1>4, <2>1, <2>2, <2>3 DEF PinTeardown
<1>5. CASE QueryFails
  BY <1>3, <1>5 DEF QueryFails, systemctl
<1>6. CASE QueryAnswered
  <2>1. CASE systemctl("outer", TRUE, Programs) /\ TerminateReturns(0)
    BY <1>3, <2>1 DEF systemctl
  <2>2. CASE /\ systemctl("outer", TRUE, {"systemctl"})
             /\ \E call \in {"control group", "active state", "kill"} : Continue(call)
    <3>1. PICK call \in {"control group", "active state", "kill"} : Continue(call)
      BY <2>2
    <3>2. call \in Tearing /\ pc["outer"] \in Calls
      BY <1>6 DEF Tearing, Calls, Queries, QueryAnswered
    <3> QED
      BY <1>2, <2>2, <3>1, <3>2 DEF Continue, systemctl
  <2> QED
    BY <1>6, <2>1, <2>2 DEF QueryAnswered
<1>7. CASE KillReturns
  <2>1. "empty" \in Tearing /\ pc["outer"] \in Calls
    BY <1>7 DEF Tearing, Calls, KillReturns, Outer
  <2> QED
    BY <1>2, <1>7, <2>1 DEF KillReturns, systemctl
<1>8. CASE WaitReturns
  BY <1>3, <1>8 DEF WaitReturns
<1> QED
  BY <1>4, <1>5, <1>6, <1>7, <1>8

\* Every function closes what it opened, whichever way it returns.
LEMMA HeldStep == IInv /\ FileInv /\ HeldInv /\ [Next]_vars => HeldInv'
<1> SUFFICES ASSUME IInv, FileInv, HeldInv, [Next]_vars PROVE HeldInv'
  OBVIOUS
<1> USE DEF IInv, files
<1>0. \A g \in Programs : g \in {"systemctl", "systemd-run", "scanner", "bwrap"}
  BY DEF Programs
<1>1. ASSUME NEW p \in Processes, NEW step \in Steps, NEW ok, Check(p, ok, step)
      PROVE  /\ \A q \in Processes \ {p} : pc'[q] = pc[q]
             /\ pc'[p] = IF ok THEN step ELSE "exited"
  BY <1>1, CheckMoves DEF Moves, Leaves
<1>2. ASSUME NEW p \in Processes, NEW step \in Steps, Goto(p, step)
      PROVE  Moves(p, step)
  BY <1>2, GotoMoves
<1>3. ASSUME NEW p \in Processes, NEW c \in 0 .. 255, Exit(p, c)
      PROVE  Moves(p, "exited")
  BY <1>3, ExitLeaves DEF Leaves
<1>4. ASSUME NEW p \in Processes, NEW g \in Programs, NEW step \in Steps, NEW ok,
             Pin(p, g, ok), Check(p, ok, step), step \in Holding[g], pc[p] \in Idle
      PROVE  HeldInv'
  <2>1. CASE ok
    <3>1. Pin(p, g, TRUE)
      BY <1>4, <2>1 DEF Pin
    <3>2. pc'[p] \in Holding[g] /\ \A q \in Processes \ {p} : pc'[q] = pc[q]
      BY <1>1, <1>4, <2>1
    <3> QED
      BY <1>4, <3>1, <3>2, HeldPins, IdleHolds
  <2>2. CASE ~ok
    BY <1>1, <1>4, <2>2, HeldIdle DEF Pin
  <2> QED
    BY <2>1, <2>2
<1>5. CASE Parse
  <2>1. pc["outer"] \in Idle /\ fds' = fds
    BY <1>5 DEF Parse, Outer, Idle
  <2>3. \A q \in Processes \ {"outer"} : pc'[q] = pc[q]
    BY <1>5 DEF Parse, Goto, Exit, DataOK
  <2> QED
    BY <2>1, <2>3, HeldIdle
<1>6. ASSUME NEW p \in Processes, DefaultManager(p) PROVE HeldInv'
  <2>1. pc[p] \in Idle /\ fds' = fds
    BY <1>6 DEF DefaultManager, Idle
  <2>2. "unit" \in Steps /\ "verify" \in Steps
    BY DEF Steps
  <2>3. \A q \in Processes \ {p} : pc'[q] = pc[q]
    BY <1>1, <1>6, <2>2 DEF DefaultManager
  <2> QED
    BY <2>1, <2>3, HeldIdle
<1>7. CASE PinSystemdRun \/ PinScanner
  <2>1. /\ "run" \in Steps /\ "pin bwrap" \in Steps
        /\ "run" \in Holding["systemd-run"] /\ "pin bwrap" \in Holding["scanner"]
        /\ "systemd-run" \in Programs /\ "scanner" \in Programs
    BY HoldingIs DEF Steps, Programs
  <2>2. CASE PinSystemdRun
    BY <1>4, <2>1, <2>2 DEF PinSystemdRun, Outer, Idle
  <2>3. CASE PinScanner
    BY <1>4, <2>1, <2>3 DEF PinScanner, Scoped, Idle
  <2> QED
    BY <1>7, <2>2, <2>3
<1>8. CASE RunRefuses
  <2>1. Moves("outer", "exited") /\ Close("outer", {"systemd-run"})
    BY <1>3, <1>8 DEF RunRefuses
  <2>2. \A g \in Programs : pc["outer"] \in Holding[g] => g = "systemd-run"
    BY <1>0, <1>8, HoldingIs DEF RunRefuses, Outer, Calls, Queries
  <2> QED
    BY <2>1, <2>2, HeldCloses DEF Moves
<1>9. CASE Launch
  <2>1. /\ pc["outer"] = "run" /\ pc["scoped"] = "none" /\ pc'["outer"] = "wait"
        /\ fds' = fds
    BY <1>9 DEF Launch, Outer, OuterInv, DataOK
  <2>2. ASSUME NEW d \in fds PROVE pc'[d.by] \in Holding[d.program]
    <3>1. d.by \in Processes /\ d.program \in Programs /\ pc[d.by] \in Holding[d.program]
      BY DEF FileInv, Descriptors, HeldInv
    <3>2. d.by = "outer"
      BY <2>1, <3>1, IdleHolds DEF Idle
    <3>3. "run" \in Holding[d.program] => "wait" \in Holding[d.program]
      <4>1. /\ "run" \notin Holding["systemctl"] /\ "run" \notin Holding["scanner"]
            /\ "run" \notin Holding["bwrap"]
        BY HoldingIs DEF Calls, Queries
      <4>2. "wait" \in Holding["systemd-run"]
        BY HoldingIs
      <4> QED
        BY <1>0, <3>1, <4>1, <4>2
    <3> QED
      BY <2>1, <3>1, <3>2, <3>3
  <2> QED
    BY <2>1, <2>2 DEF HeldInv
<1>10. CASE CommandReturns
  <2>1. Moves("outer", "load state") /\ fds' = fds /\ pc["outer"] \in {"run", "wait"}
    BY <1>2, <1>10 DEF CommandReturns, Outer, Steps, Calls, Queries
  <2>2. \A g \in Programs : pc["outer"] \in Holding[g] => "load state" \in Holding[g]
    BY <1>0, <2>1, HoldingIs DEF Calls, Queries
  <2> QED
    BY <2>1, <2>2, HeldStays DEF Moves
<1>11. CASE OuterExits
  <2>1. pc["outer"] \in Idle /\ fds' = fds /\ \A q \in Processes \ {"outer"} : pc'[q] = pc[q]
    BY <1>11 DEF OuterExits, Outer, Idle, Exit, DataOK
  <2> QED
    BY <2>1, HeldIdle
<1>12. CASE Verify
  <2>1. pc["scoped"] \in Idle /\ fds' = fds
    BY <1>12 DEF Verify, Scoped, Idle
  <2>2. "lifetime" \in Steps
    BY DEF Steps
  <2>3. \A q \in Processes \ {"scoped"} : pc'[q] = pc[q]
    BY <1>1, <1>12, <2>2 DEF Verify
  <2> QED
    BY <2>1, <2>3, HeldIdle
<1>13. CASE PinSystemctl
  <2> DEFINE ok == openOwned(at["systemctl"])
  <2>1. /\ Pin("scoped", "systemctl", ok) /\ Check("scoped", ok, "lifetime")
        /\ pc["scoped"] = "lifetime" /\ ~Opened("scoped", "systemctl")
    BY <1>13 DEF PinSystemctl, Scoped
  <2> HIDE DEF ok
  <2>2. "lifetime" \in Steps /\ "systemctl" \in Programs /\ "lifetime" \in Holding["systemctl"]
    BY HoldingIs DEF Steps, Programs
  <2>3. /\ \A q \in Processes \ {"scoped"} : pc'[q] = pc[q]
        /\ pc'["scoped"] = IF ok THEN "lifetime" ELSE "exited"
    BY <1>1, <2>1, <2>2
  <2>4. CASE ok
    <3>1. Pin("scoped", "systemctl", TRUE)
      BY <2>1, <2>4 DEF Pin
    <3> QED
      BY <2>1, <2>2, <2>3, <2>4, <3>1, HeldPins
  <2>5. CASE ~ok
    <3>1. ASSUME NEW d \in fds, d.by = "scoped" PROVE FALSE
      <4>1. d.program \in Programs /\ "lifetime" \in Holding[d.program]
        BY <2>1, <3>1 DEF FileInv, Descriptors, HeldInv
      <4>2. d.program # "systemctl"
        BY <2>1, <3>1 DEF Opened, Open
      <4>3. /\ "lifetime" \notin Holding["scanner"] /\ "lifetime" \notin Holding["bwrap"]
            /\ "lifetime" \notin Holding["systemd-run"]
        BY HoldingIs DEF Calls, Queries
      <4> QED
        BY <1>0, <4>1, <4>2, <4>3
    <3>2. fds' = fds
      BY <2>1, <2>5 DEF Pin
    <3> QED
      BY <2>3, <3>1, <3>2, HeldMoves
  <2> QED
    BY <2>4, <2>5
<1>14. CASE VerifyRuntime
  <2>1. pc["scoped"] = "lifetime" /\ Close("scoped", {"systemctl"})
    BY <1>14 DEF VerifyRuntime, Scoped, systemctl
  <2>2. "limits" \in Steps
    BY DEF Steps
  <2>3. \A q \in Processes \ {"scoped"} : pc'[q] = pc[q]
    BY <1>1, <1>14, <2>2 DEF VerifyRuntime
  <2>4. \A g \in Programs : "lifetime" \in Holding[g] => g = "systemctl"
    BY <1>0, HoldingIs DEF Calls, Queries
  <2> QED
    BY <2>1, <2>3, <2>4, HeldCloses
<1>15. CASE ApplyProcessLimits \/ OpenTarget \/ List \/ Deliver
  <2>1. pc["scoped"] \in Idle /\ fds' = fds
    BY <1>15 DEF ApplyProcessLimits, OpenTarget, List, Deliver, Scoped, Idle
  <2>2. "pin scanner" \in Steps /\ input.request \in Steps
    BY BrokerAssumption DEF Steps, Requests, DataOK
  <2>3. CASE ApplyProcessLimits \/ OpenTarget
    <3>1. \A q \in Processes \ {"scoped"} : pc'[q] = pc[q]
      BY <1>1, <2>2, <2>3 DEF ApplyProcessLimits, OpenTarget
    <3> QED
      BY <2>1, <3>1, HeldIdle
  <2>4. CASE List \/ Deliver
    <3>1. \A q \in Processes \ {"scoped"} : pc'[q] = pc[q]
      BY <2>4 DEF List, Deliver, Write, Exit, DataOK
    <3> QED
      BY <2>1, <3>1, HeldIdle
  <2> QED
    BY <1>15, <2>3, <2>4
<1>16. CASE PinBwrap
  <2>1. pc["scoped"] = "pin bwrap"
          /\ \A g \in Programs : pc["scoped"] \in Holding[g] => g = "scanner"
    <3>1. /\ "pin bwrap" \notin Holding["systemd-run"]
          /\ "pin bwrap" \notin Holding["systemctl"]
          /\ "pin bwrap" \notin Holding["bwrap"]
      BY HoldingIs DEF Calls, Queries
    <3> QED
      BY <1>0, <1>16, <3>1 DEF PinBwrap, Scoped
  <2>2. CASE Pin("scoped", "bwrap", TRUE) /\ Goto("scoped", "scan")
    <3>1. Moves("scoped", "scan")
      BY <1>2, <2>2 DEF Steps
    <3>2. "scan" \in Holding["scanner"] /\ "scan" \in Holding["bwrap"] /\ "bwrap" \in Programs
      BY HoldingIs DEF Programs
    <3> QED
      BY <2>1, <2>2, <3>1, <3>2, HeldPins DEF Moves
  <2>3. CASE Close("scoped", {"scanner"}) /\ Exit("scoped", 1)
    <3>1. Moves("scoped", "exited")
      BY <1>3, <2>3
    <3> QED
      BY <2>1, <2>3, <3>1, HeldCloses DEF Moves
  <2> QED
    BY <1>16, <2>2, <2>3 DEF PinBwrap
<1>17. CASE StartScanner
  <2>1. Moves("scoped", "scanning") /\ fds' = fds /\ pc["scoped"] = "scan"
    BY <1>2, <1>17 DEF StartScanner, Scoped, Steps
  <2>2. \A g \in Programs : "scan" \in Holding[g] => "scanning" \in Holding[g]
    BY <1>0, HoldingIs DEF Calls, Queries
  <2> QED
    BY <2>1, <2>2, HeldStays DEF Moves
<1>18. CASE ScannerReturns
  <2>1. /\ Close("scoped", {"bwrap", "scanner"}) /\ pc["scoped"] \in {"scan", "scanning"}
        /\ Goto("scoped", "decode") \/ Exit("scoped", 1)
    BY <1>18 DEF ScannerReturns, Scoped
  <2>2. \A q \in Processes \ {"scoped"} : pc'[q] = pc[q]
    BY <2>1 DEF Goto, Exit, DataOK
  <2>3. \A g \in Programs : pc["scoped"] \in Holding[g] => g \in {"bwrap", "scanner"}
    BY <1>0, <2>1, HoldingIs DEF Calls, Queries
  <2> QED
    BY <2>1, <2>2, <2>3, HeldCloses
<1>19. CASE OuterKilled
  <2>1. Moves("outer", "killed") /\ fds' = fds \ Open("outer")
    BY <1>2, <1>19 DEF OuterKilled, Steps
  <2> QED
    BY <2>1, HeldMoves DEF Moves, Open
<1>20. CASE \/ CommandDies \/ DescendantsDie \/ UNCHANGED vars
            \/ \E program \in Programs, i \in Inodes : Replace(program, i)
  <2>1. pc' = pc /\ fds' \subseteq fds
    BY <1>20 DEF CommandDies, DescendantsDie, vars, Replace
  <2> QED
    BY <2>1, HeldFrame
<1>21. CASE OuterNext
  BY <1>5, <1>6, <1>7, <1>8, <1>9, <1>10, <1>11, <1>21, HeldTeardown DEF OuterNext
<1>22. CASE ScopedNext
  BY <1>6, <1>7, <1>12, <1>13, <1>14, <1>15, <1>16, <1>17, <1>18, <1>22 DEF ScopedNext
<1> QED
  BY <1>19, <1>20, <1>21, <1>22 DEF Next, Environment

-----------------------------------------------------------------------------
(* The theorems.                                                           *)

\* The invariant on containment and the outer broker's view of the scope is
\* inductive: it holds in every state of the two brokers.
THEOREM Inductive == Spec => []IInv
<1>1. IInv /\ UNCHANGED vars => IInv'
  <2> SUFFICES ASSUME IInv, UNCHANGED vars PROVE IInv'
    OBVIOUS
  <2> USE DEF vars, files, results, contained, IInv
  <2>1. DataOK' /\ ContainInv'
    BY DataFrame, ContainFrame DEF DataOK
  <2>2. OuterInv'
    BY DEF OuterInv, Delivered, Tearing, Calls, Queries
  <2> QED
    BY <2>1, <2>2
<1>2. IInv /\ [Next]_vars => IInv'
  BY <1>1, OuterStep, ScopedStep, EnvironmentStep DEF Next
<1> QED
  BY InitIInv, <1>2, PTL DEF Spec

\* TypeOK holds in every reachable state; above all, a program is open only within
\* the function that opened it, on every path through it (the deferred Close), and
\* every exit status has eight bits, whatever statuses other programs exit with.
THEOREM TypeCorrect == Spec => []TypeOK
<1>1. Init => FlagsOK
  BY DEF Init, FlagsOK
<1>2. FlagsOK /\ [Next]_vars => FlagsOK'
  <2> SUFFICES ASSUME FlagsOK, [Next]_vars PROVE touched' \in BOOLEAN
    BY DEF FlagsOK
  <2> USE DEF FlagsOK, files, results, contained
  <2>1. CASE OuterNext
    BY <2>1 DEF OuterNext, Parse, DefaultManager, PinSystemdRun, RunRefuses, Launch,
                CommandReturns, PinTeardown, QueryFails, QueryAnswered, KillReturns,
                WaitReturns, OuterExits, TerminateReturns, Continue
  <2>2. CASE ScopedNext
    BY <2>2 DEF ScopedNext, DefaultManager, Verify, PinSystemctl, VerifyRuntime,
                ApplyProcessLimits, List, OpenTarget, PinScanner, PinBwrap, StartScanner,
                ScannerReturns, Deliver
  <2>3. CASE Environment
    BY <2>3 DEF Environment, OuterKilled, CommandDies, DescendantsDie, Replace
  <2>4. CASE UNCHANGED vars
    BY <2>4 DEF vars
  <2> QED
    BY <2>1, <2>2, <2>3, <2>4 DEF Next
<1>3. Init => HeldInv
  BY DEF Init, HeldInv
<1>4. IInv /\ FileInv /\ HeldInv /\ FlagsOK => TypeOK
  <2> SUFFICES ASSUME IInv, FileInv, HeldInv, FlagsOK PROVE TypeOK
    OBVIOUS
  <2>1. {runExited, teardownExited} \subseteq -1 .. 255
    BY DEF IInv, DataOK
  <2> QED
    BY <2>1, Zenon DEF IInv, DataOK, FileInv, HeldInv, FlagsOK, TypeOK
<1> QED
  BY <1>1, <1>2, <1>3, <1>4, HeldStep, Inductive, FilesInductive, PTL DEF Spec

\* No plugin is read outside of a verified containment, for every policy and
\* whatever the kernel and systemctl report (ReadOnlyContained).
THEOREM ContainedTheorem == Spec => []ReadOnlyContained
<1>1. IInv => ReadOnlyContained
  <2> SUFFICES ASSUME IInv, touched PROVE ReadOnlyContained
    BY DEF ReadOnlyContained
  <2>1. /\ VerifyOK(input.grant) /\ verifyRuntimeMax(input.grant.runtime)
        /\ Limited
    BY DEF IInv, ContainInv
  <2>2. /\ DOMAIN rlimit = {"core", "nofile"}
        /\ \A r \in {"core", "nofile"} : rlimit[r].max <= input.rlimit[r].max
    BY DEF IInv, DataOK, Rlimits
  <2>3. \A n \in {input.grant.memory, input.grant.swap, input.grant.pids,
                 input.grant.quota, input.grant.period, input.grant.runtime} : n \in Int
    BY BrokerAssumption DEF IInv, DataOK
  <2> QED
    BY <2>1, <2>2, <2>3, BrokerAssumption
       DEF ReadOnlyContained, VerifyOK, within, verifyRuntimeMax, Limited
<1> QED
  BY <1>1, Inductive, PTL

\* Only a file that has passed the checks itself is executed, for any files and
\* any number of replacements between the check and the execution: systemd-run,
\* each systemctl of both brokers, bwrap and the scanner (OnlyTrustedRuns).
THEOREM TrustedTheorem == Spec => []OnlyTrustedRuns
<1>1. FileInv => OnlyTrustedRuns
  BY DEF FileInv, Trusted, OnlyTrustedRuns, openOwned, requireStaticELF
<1> QED
  BY <1>1, FilesInductive, PTL

\* Status 0 means a complete valid answer and an empty scope, for every input
\* and every way in which commands and teardowns fail (SuccessIsDelivered).
THEOREM SuccessTheorem == Spec => []SuccessIsDelivered
<1>1. IInv => SuccessIsDelivered
  BY DEF IInv, OuterInv, Delivered, SuccessIsDelivered, Outer
<1> QED
  BY <1>1, Inductive, PTL

\* After the broker's exit nothing is added to what the panel has read
\* (OutputIsFinal): the scoped broker is dead by then.
THEOREM FinalTheorem == Spec => OutputIsFinal
<1>1. IInv /\ [Next]_vars => [Outer("exited") => stdout' = stdout]_vars
  <2> SUFFICES ASSUME IInv, Next, Outer("exited") PROVE stdout' = stdout
    OBVIOUS
  <2> USE DEF files, results, contained
  <2>1. "command" \notin live /\ pc["outer"] = "exited"
    BY DEF IInv, OuterInv, Outer
  <2>2. CASE OuterNext
    BY <2>2 DEF OuterNext, Parse, DefaultManager, PinSystemdRun, RunRefuses, Launch,
                CommandReturns, PinTeardown, QueryFails, QueryAnswered, KillReturns,
                WaitReturns, OuterExits, TerminateReturns, Continue
  <2>3. CASE ScopedNext
    BY <2>1, <2>3 DEF ScopedNext, Scoped, DefaultManager, Verify, PinSystemctl,
                      VerifyRuntime, ApplyProcessLimits, List, OpenTarget, PinScanner, PinBwrap,
                      StartScanner, ScannerReturns, Deliver
  <2>4. CASE Environment
    BY <2>4 DEF Environment, OuterKilled, CommandDies, DescendantsDie, Replace
  <2> QED
    BY <2>2, <2>3, <2>4 DEF Next
<1> QED
  BY <1>1, Inductive, PTL DEF Spec, OutputIsFinal

=============================================================================
