-------------------------------- MODULE Broker --------------------------------
(***************************************************************************)
(* The broker command (cmd/plug-prejudice-broker/main.go), which runs as   *)
(* two processes: the outer broker the panel starts, and the scoped broker *)
(* that resource.Manager.Run re-executes inside the systemd scope and that *)
(* alone reads plugins.  Manager.Run is ContainedRun, which ResourceScope  *)
(* implements; sandbox.Runner.Run is one step here, SandboxRunner its      *)
(* detail.                                                                 *)
(*                                                                         *)
(* Every program is opened, checked and pinned by trustedexec before it is *)
(* executed; other processes replace what a path names at any moment.      *)
(***************************************************************************)
EXTENDS Integers

CONSTANTS
    MemoryMaxBytes, MemorySwapBytes, TasksMax, ScopeRuntime, OpenFilesMax,
    maxInstalledPlugins,
    Statuses,         \* what systemd-run, systemctl or a crash may exit with
    Inodes, File,     \* inode -> what Stat and the ELF parser say of it
    Inputs            \* the command line and the world the broker meets

Unlimited == -1       \* the text "max" or "infinity"; readLimit returns -1
Programs  == {"systemd-run", "systemctl", "bwrap", "scanner"}
Processes == {"outer", "scoped"}
Requests  == {"list", "review"}
Queries   == {"load state", "control group", "active state"}
Calls     == Queries \union {"kill"}        \* Terminate's systemctl calls
Descriptors == [by : Processes, program : Programs, inode : Inodes]
Rlimits   == [{"core", "nofile"} -> [cur : Nat, max : Nat]]

\* Limits are numbers, and an input says of each program where it is installed,
\* which limits the process has and what the kernel and systemctl report.
ASSUME BrokerAssumption ==
    /\ MemoryMaxBytes \in Nat /\ MemorySwapBytes \in Nat /\ TasksMax \in Nat
    /\ ScopeRuntime \in Nat /\ OpenFilesMax \in Nat /\ maxInstalledPlugins \in Nat
    /\ Statuses \subseteq 1 .. 255
    /\ \A in \in Inputs :
          /\ in.request \in Requests
          /\ in.installed \in [Programs -> Inodes]
          /\ in.rlimit \in Rlimits
          /\ in.root.entries \in Nat
          /\ \A n \in {in.grant.memory, in.grant.swap, in.grant.pids, in.grant.quota,
                       in.grant.period, in.grant.runtime} : n \in Int

VARIABLES
    input,     \* the member of Inputs this behaviour is about; never changes
    pc,        \* process -> the step of run() it is at
    code,      \* process -> its exit code
    at,        \* program -> the inode its path names now
    fds,       \* the programs the processes have open to execute
    executed,  \* the <<program, inode>> pairs executed so far
    rlimit,    \* the scoped broker's own limits
    touched,   \* something below the plugins root has been read
    output,    \* what runner.Run returned
    stdout,    \* what the panel finds on the broker's stdout
    runExited,      \* ExitCode of the ExitError in runErr: -1 for a signal,
    teardownExited, \* and in Terminate's error; 0 when there is none
    phase, live, runErr, teardownErr   \* Manager.Run: see ContainedRun

Scope == INSTANCE ContainedRun

files   == <<at, executed, fds>>
results == <<output, stdout, touched, rlimit>>
exits   == <<runExited, teardownExited>>
contained == <<phase, live, runErr, teardownErr, exits>>
vars == <<input, pc, code, files, results, contained>>

Init ==
    /\ input \in Inputs
    /\ pc = [p \in Processes |-> IF p = "outer" THEN "parse" ELSE "none"]
    /\ code = [p \in Processes |-> 0]
    /\ at = input.installed
    /\ fds = {} /\ executed = {}
    /\ rlimit = input.rlimit
    /\ touched = FALSE /\ output = "none" /\ stdout = "empty"
    /\ runExited = 0 /\ teardownExited = 0
    /\ Scope!Init

Goto(p, step) == pc' = [pc EXCEPT ![p] = step] /\ UNCHANGED code

Exit(p, c) ==
    /\ pc' = [pc EXCEPT ![p] = "exited"]
    /\ code' = [code EXCEPT ![p] = c]

\* A step that may fail: exit 1, or go on to the next.
Check(p, ok, step) == IF ok THEN Goto(p, step) ELSE Exit(p, 1)

Outer(step)  == pc["outer"] = step
Scoped(step) == pc["scoped"] = step /\ "command" \in live

-----------------------------------------------------------------------------
(* trustedexec.                                                            *)

\* openOwned: no symlink on the path, a regular, executable file that only root
\* can write, and an ELF binary.  The answer is about the inode it opened.
openOwned(i) ==
    /\ File[i].kind = "regular" /\ File[i].executable /\ ~File[i].writable
    /\ File[i].owner = "root" /\ File[i].elf

requireStaticELF(i) == File[i].static

Open(p)      == {d \in fds : d.by = p}
Opened(p, g) == \E d \in Open(p) : d.program = g

\* trustedexec.Open: the file is opened first and every check is about what was
\* opened; a file that fails one is closed again.
Pin(p, program, accepted) ==
    /\ fds' = IF accepted
              THEN fds \union {[by |-> p, program |-> program, inode |-> at[program]]}
              ELSE fds
    /\ UNCHANGED <<at, executed>>

\* Mutant: the checked path is resolved again when the program starts.
CommandPathAgain(p, programs) ==
    executed' = executed \union {<<g, at[g]>> : g \in programs}

\* CommandPath: execve resolves /proc/self/fd/N to the inode that is open.
CommandPath(p, programs) ==
    executed' = executed \union
        {<<d.program, d.inode>> : d \in {e \in Open(p) : e.program \in programs}}

\* Mutant: the deferred Close is forgotten.
CloseForgotten(p, programs) == UNCHANGED fds

\* Close, deferred by every caller to the return of its own function.
Close(p, programs) == fds' = fds \ {d \in Open(p) : d.program \in programs}

\* Manager.systemctl with the descriptor open: it runs, unless the environment
\* for it cannot be built, and the descriptor is closed with its answer.
systemctl(p, runs, programs) ==
    /\ IF runs THEN CommandPath(p, {"systemctl"}) ELSE UNCHANGED executed
    /\ Close(p, programs)
    /\ UNCHANGED at

\* DefaultManager: both systemd programs must be trusted, whichever broker asks.
DefaultManager(p) ==
    /\ pc[p] = "manager"
    /\ p = "scoped" => "command" \in live
    /\ Check(p, openOwned(at["systemd-run"]) /\ openOwned(at["systemctl"]),
             IF p = "outer" THEN "unit" ELSE "verify")
    /\ UNCHANGED <<files, results, contained>>

-----------------------------------------------------------------------------
(* The outer broker.                                                       *)

validPluginID == input.validID

\* flags.Parse and the usage check.
Parse ==
    /\ Outer("parse")
    /\ IF input.usage /\ (input.request = "list" \/ validPluginID)
       THEN Goto("outer", "manager") ELSE Exit("outer", 2)
    /\ UNCHANGED <<files, results, contained>>

\* NewUnitName needs random bytes; Manager.Run then pins systemd-run, and
\* refuses a command it cannot start or a runtime directory it cannot trust.
PinSystemdRun ==
    /\ Outer("unit")
    /\ LET ok == openOwned(at["systemd-run"])
       IN  Pin("outer", "systemd-run", ok) /\ Check("outer", ok, "run")
    /\ UNCHANGED <<results, contained>>

RunRefuses ==
    /\ Outer("unit") \/ Outer("run")
    /\ Scope!Refuse
    /\ Close("outer", {"systemd-run"})
    /\ Exit("outer", 1)
    /\ UNCHANGED <<at, executed, results, exits>>

Launch ==
    /\ Outer("run")
    /\ Scope!Start
    /\ CommandPath("outer", {"systemd-run"})
    /\ pc' = [pc EXCEPT !["outer"] = "wait", !["scoped"] = "manager"]
    /\ UNCHANGED <<code, at, fds, results, exits>>

\* Mutants: the command is not awaited; a command that was killed is waited for.
CommandReturnsEarly ==
    /\ Outer("wait")
    /\ phase' = "teardown" /\ runErr' = FALSE
    /\ Goto("outer", "load state")
    /\ UNCHANGED <<files, results, live, teardownErr, exits>>
CommandReturnsUnkilled ==
    /\ Outer("wait") /\ pc["scoped"] = "exited"
    /\ runErr' = (code["scoped"] # 0) /\ runExited' = code["scoped"]
    /\ Scope!CommandEnds
    /\ Goto("outer", "load state")
    /\ UNCHANGED <<files, results, teardownExited>>

\* How the process that was started as systemd-run and became the scoped broker
\* may have ended: with the broker's status, with that of a systemd-run that did
\* not get so far or of a crash, or by a signal.
commandStatus ==
    IF pc["scoped"] = "exited" THEN {code["scoped"], -1} ELSE Statuses \union {-1}

\* cmd.Run returns: nil only for a command that ran and exited with status 0.
\* The error is an ExitError unless the command was not started, waiting for it
\* failed, or it ended well when its context was over.
CommandReturns ==
    /\ \/ Outer("run") /\ runExited' = 0 /\ runErr' = TRUE
       \/ /\ Outer("wait")
          /\ \E s \in commandStatus :
                /\ runExited' \in {0, s}
                /\ runErr' \in {s # 0, TRUE}
    /\ Scope!CommandEnds
    /\ Goto("outer", "load state")
    /\ UNCHANGED <<files, results, teardownExited>>

\* Terminate returns, with an ExitError of status s in its error or none (0);
\* then Run does, and closes systemd-run.
TerminateReturns(s) ==
    /\ Scope!TeardownEnds
    /\ teardownExited' = s
    /\ Goto("outer", "returned")
    /\ UNCHANGED <<results, runExited>>

Continue(call) ==
    /\ Goto("outer", call)
    /\ UNCHANGED <<results, phase, live, runErr, teardownErr, exits>>

\* Each call of Terminate pins systemctl anew; a kill that cannot be asked for
\* is not the end of the teardown.
PinTeardown ==
    /\ pc["outer"] \in Calls /\ ~Opened("outer", "systemctl")
    /\ \/ openOwned(at["systemctl"]) /\ Pin("outer", "systemctl", TRUE) /\ Continue(pc["outer"])
       \/ /\ ~openOwned(at["systemctl"])
          /\ \/ /\ pc["outer"] \in Queries
                /\ teardownErr' = TRUE /\ TerminateReturns(0)
                /\ Close("outer", Programs) /\ UNCHANGED <<at, executed>>
             \/ Outer("kill") /\ Continue("empty") /\ UNCHANGED files

\* A query fails; that of the ActiveState leaves no ExitError in the error.
QueryFails ==
    /\ pc["outer"] \in Queries /\ Opened("outer", "systemctl")
    /\ \E runs \in BOOLEAN, s \in Statuses \union {-1, 0} :
          /\ s # 0 => runs /\ ~Outer("active state")
          /\ systemctl("outer", runs, Programs)
          /\ teardownErr' = TRUE /\ TerminateReturns(s)

\* A query is answered: the scope is gone, the answer is refused, or Terminate
\* goes on with the next call.
QueryAnswered ==
    /\ pc["outer"] \in Queries /\ Opened("outer", "systemctl")
    /\ \/ /\ systemctl("outer", TRUE, Programs)
          /\ Outer("control group") => teardownErr' = TRUE
          /\ TerminateReturns(0)
       \/ /\ systemctl("outer", TRUE, {"systemctl"})
          /\ \/ Outer("load state") /\ Continue("control group")
             \/ Outer("control group") /\ Continue("active state")
             \/ Outer("control group") /\ Continue("kill")

\* The kill returns, in whatever way; waitCgroupEmpty decides.
KillReturns ==
    /\ Outer("kill") /\ Opened("outer", "systemctl")
    /\ \E runs \in BOOLEAN, s \in Statuses \union {-1, 0} :
          /\ s # 0 => runs
          /\ systemctl("outer", runs, {"systemctl"})
          /\ teardownExited' = s
    /\ Goto("outer", "empty")
    /\ UNCHANGED <<results, phase, live, runErr, teardownErr, runExited>>

\* waitCgroupEmpty and teardownResult: the kill's error counts with the wait's.
WaitReturns ==
    /\ Outer("empty")
    /\ TerminateReturns(teardownExited)
    /\ Close("outer", Programs)
    /\ UNCHANGED <<at, executed>>

\* Mutant: only the command's own status decides.
exitCodeOfCommand == IF runErr THEN 1 ELSE 0

\* What run() returns after Manager.Run: 0 without error; the status of the
\* first ExitError in the joined errors, -1 reaching the caller as 255; 1 for
\* any other error.
exitCode ==
    LET exited == IF runExited # 0 THEN runExited
                  ELSE IF teardownErr THEN teardownExited ELSE 0
    IN  IF ~runErr /\ ~teardownErr THEN 0
        ELSE IF exited # 0 THEN exited % 256 ELSE 1

OuterExits ==
    /\ Outer("returned")
    /\ Exit("outer", exitCode)
    /\ UNCHANGED <<files, results, contained>>

\* Panel.close: SIGTERM ends the outer broker where it is.
OuterKilled ==
    /\ Scope!CallerKilled
    /\ Goto("outer", "killed")
    /\ fds' = fds \ Open("outer")
    /\ UNCHANGED <<at, executed, results, exits>>

-----------------------------------------------------------------------------
(* The scoped broker.                                                      *)

\* Mutant: an unlimited value passes as a small one.
withinUnsigned(value, max) == value <= max

within(value, max) == value >= 0 /\ value <= max

\* Verify: in the cgroup of this unit, and every limit the kernel reports is
\* bounded by the policy; cpu.max is a quota of at most one period.
VerifyOK(g) ==
    /\ g.member
    /\ within(g.memory, MemoryMaxBytes)
    /\ within(g.swap, MemorySwapBytes)
    /\ within(g.pids, TasksMax)
    /\ g.quota > 0 /\ g.period > 0 /\ g.quota <= g.period

\* A file of the cgroup that cannot be read or parsed is a failure too.
Verify ==
    /\ Scoped("verify")
    /\ \E readable \in BOOLEAN :
          Check("scoped", readable /\ VerifyOK(input.grant), "lifetime")
    /\ UNCHANGED <<files, results, contained>>

\* VerifyRuntime asks systemctl, without any deadline of its own.
PinSystemctl ==
    /\ Scoped("lifetime") /\ ~Opened("scoped", "systemctl")
    /\ LET ok == openOwned(at["systemctl"])
       IN  Pin("scoped", "systemctl", ok) /\ Check("scoped", ok, "lifetime")
    /\ UNCHANGED <<results, contained>>

\* verifyRuntimeMax: a positive duration no longer than the policy's.
verifyRuntimeMax(duration) == duration > 0 /\ duration <= ScopeRuntime

VerifyRuntime ==
    /\ Scoped("lifetime") /\ Opened("scoped", "systemctl")
    /\ \E runs, answered \in BOOLEAN :
          /\ answered => runs
          /\ systemctl("scoped", runs, {"systemctl"})
          /\ Check("scoped", answered /\ verifyRuntimeMax(input.grant.runtime), "limits")
    /\ UNCHANGED <<results, contained>>

atMost(a, b) == IF a < b THEN a ELSE b

\* One limit of ApplyProcessLimits: soft and hard are lowered, never raised.
lowered(l, value) ==
    LET hard == atMost(l.max, value)
        soft == atMost(l.cur, value)
    IN  [cur |-> atMost(soft, hard), max |-> hard]

\* ApplyProcessLimits: no core file, then the open files; either may fail.
ApplyProcessLimits ==
    /\ Scoped("limits")
    /\ \E applied \in {{}, {"core"}, {"core", "nofile"}} :
          /\ rlimit' = [r \in DOMAIN rlimit |->
                IF r \in applied
                THEN lowered(rlimit[r], IF r = "core" THEN 0 ELSE OpenFilesMax)
                ELSE rlimit[r]]
          /\ Check("scoped", applied = {"core", "nofile"}, input.request)
    /\ UNCHANGED <<files, output, stdout, touched, contained>>

\* os.Stdout may take the whole text, a part of it, or nothing.
Write(text) ==
    \/ stdout' = text /\ Exit("scoped", 0)
    \/ stdout' \in {"empty", "partial"} /\ Exit("scoped", 1)

\* installedPluginIDs: every entry is a directory with a valid ID and there are
\* at most maxInstalledPlugins, or there is no list at all.
installedPluginIDs ==
    /\ input.root.opens
    /\ input.root.entries <= maxInstalledPlugins
    /\ input.root.acceptable

List ==
    /\ Scoped("list")
    /\ touched' = TRUE
    /\ IF installedPluginIDs THEN Write("list")
                             ELSE Exit("scoped", 1) /\ UNCHANGED stdout
    /\ UNCHANGED <<files, output, rlimit, contained>>

\* openInstalledTarget: the plugin is a live directory beneath the root, reached
\* through no link; then DefaultRunner wants a trusted bwrap.
OpenTarget ==
    /\ Scoped("review")
    /\ touched' = TRUE
    /\ Check("scoped", input.root.opens /\ input.target = "directory"
                          /\ openOwned(at["bwrap"]), "pin scanner")
    /\ UNCHANGED <<files, output, stdout, rlimit, contained>>

trustedScanner(i) == openOwned(i) /\ requireStaticELF(i)

PinScanner ==
    /\ Scoped("pin scanner")
    /\ LET ok == trustedScanner(at["scanner"])
       IN  Pin("scoped", "scanner", ok) /\ Check("scoped", ok, "pin bwrap")
    /\ UNCHANGED <<results, contained>>

\* The path of bwrap is opened and checked again, with the scanner held open.
PinBwrap ==
    /\ Scoped("pin bwrap")
    /\ \/ /\ openOwned(at["bwrap"])
          /\ Pin("scoped", "bwrap", TRUE) /\ Goto("scoped", "scan")
       \/ /\ ~openOwned(at["bwrap"])
          /\ Close("scoped", {"scanner"}) /\ Exit("scoped", 1)
          /\ UNCHANGED <<at, executed>>
    /\ UNCHANGED <<results, contained>>

\* cmd.Run: bwrap is executed from its descriptor, and executes the scanner from
\* the one it is handed.
StartScanner ==
    /\ Scoped("scan")
    /\ CommandPath("scoped", {"bwrap", "scanner"})
    /\ Scope!Fork
    /\ Goto("scoped", "scanning")
    /\ UNCHANGED <<at, fds, results, exits>>

\* Runner.Run returns the scanner's whole output, or an error, also when bwrap
\* could not be started at all; it has closed both programs.
ScannerReturns ==
    /\ Scoped("scan") \/ Scoped("scanning")
    /\ Close("scoped", {"bwrap", "scanner"})
    /\ \/ /\ Scoped("scanning")
          /\ output' \in {"valid", "other limits", "invalid"} /\ Goto("scoped", "decode")
       \/ UNCHANGED output /\ Exit("scoped", 1)
    /\ UNCHANGED <<at, executed, stdout, touched, rlimit, contained>>

\* report.Decode, then expectedResourceLimits, then the write.
Deliver ==
    /\ Scoped("decode")
    /\ IF output = "valid" THEN Write("report") ELSE Exit("scoped", 1) /\ UNCHANGED stdout
    /\ UNCHANGED <<files, output, touched, rlimit, contained>>

-----------------------------------------------------------------------------
(* Everybody else.                                                         *)

\* A path that named one file names another one now.  The paths that may change
\* are part of the input, to bound the model.
Replace(program, i) ==
    /\ program \in input.unstable /\ at[program] # i
    /\ at' = [at EXCEPT ![program] = i]
    /\ UNCHANGED <<pc, code, fds, executed, results, contained>>

\* The scoped broker dies: by itself after its exit, by os/exec at the deadline,
\* by the manager at RuntimeMaxSec, or by the kernel's memory limit.
CommandDies ==
    /\ "command" \in live
    /\ live' = live \ {"command"}
    /\ Scope!Die
    /\ fds' = fds \ Open("scoped")
    /\ UNCHANGED <<pc, code, at, executed, results, exits>>

DescendantsDie ==
    /\ "descendants" \in live
    /\ live' = live \ {"descendants"}
    /\ Scope!Die
    /\ UNCHANGED <<pc, code, files, results, exits>>

OuterNext ==
    \/ Parse \/ DefaultManager("outer") \/ PinSystemdRun \/ RunRefuses \/ Launch
    \/ CommandReturns \/ PinTeardown \/ QueryFails \/ QueryAnswered \/ KillReturns
    \/ WaitReturns \/ OuterExits

ScopedNext ==
    \/ DefaultManager("scoped") \/ Verify \/ PinSystemctl \/ VerifyRuntime
    \/ ApplyProcessLimits \/ List \/ OpenTarget \/ PinScanner \/ PinBwrap
    \/ StartScanner \/ ScannerReturns \/ Deliver

Environment ==
    \/ OuterKilled \/ CommandDies \/ DescendantsDie
    \/ \E program \in Programs, i \in Inodes : Replace(program, i)

Next == (OuterNext \/ ScopedNext \/ Environment) /\ UNCHANGED input

Spec == Init /\ [][Next]_vars

(***************************************************************************)
(* Fairness: the outer broker is scheduled and the command dies in the end *)
(* (ResourceScope: RunReturns and ScopeDies).  Nothing makes the scoped    *)
(* broker progress: its systemctl may never answer.                        *)
(***************************************************************************)
FairSpec == Spec /\ WF_vars(OuterNext /\ UNCHANGED input)
                 /\ WF_vars(CommandDies /\ UNCHANGED input)

-----------------------------------------------------------------------------
(* Properties.                                                             *)

Steps == Calls \union
         {"none", "parse", "manager", "unit", "run", "wait", "empty", "returned",
          "killed", "verify", "lifetime", "limits", "list", "review", "pin scanner",
          "pin bwrap", "scan", "scanning", "decode", "exited"}

\* The steps of the function that opened a program, up to its return.
Holding == [g \in Programs |->
    CASE g = "systemd-run" -> Calls \union {"run", "wait", "empty"}
      [] g = "systemctl"   -> Calls \union {"lifetime"}
      [] g = "scanner"     -> {"pin bwrap", "scan", "scanning"}
      [] g = "bwrap"       -> {"scan", "scanning"}]

\* Every process is at a step of run() and exits with a status of eight bits,
\* whatever the program it reports for exited with; a program is open only
\* within the function that opened it, on no path longer (the deferred Close).
TypeOK ==
    /\ input \in Inputs
    /\ pc \in [Processes -> Steps] /\ code \in [Processes -> 0 .. 255]
    /\ at \in [Programs -> Inodes] /\ fds \subseteq Descriptors
    /\ \A d \in fds : pc[d.by] \in Holding[d.program]
    /\ executed \subseteq Programs \X Inodes
    /\ touched \in BOOLEAN /\ output \in {"none", "valid", "other limits", "invalid"}
    /\ stdout \in {"empty", "partial", "list", "report"}
    /\ {runExited, teardownExited} \subseteq -1 .. 255

\* Nothing below the plugins root is read outside of containment: at that moment
\* the process is in the scope of this run, the kernel enforces limits no wider
\* than the policy, the scope has a bounded life and the process can neither
\* dump core nor raise its limits again (afterVerifiedContainment, Verify).
ReadOnlyContained ==
    touched =>
        LET g == input.grant IN
        /\ g.member
        /\ g.memory \in 0 .. MemoryMaxBytes /\ g.swap \in 0 .. MemorySwapBytes
        /\ g.pids \in 0 .. TasksMax
        /\ g.quota \in 1 .. g.period /\ g.runtime \in 1 .. ScopeRuntime
        /\ rlimit["core"].max = 0 /\ rlimit["core"].cur = 0
        /\ rlimit["nofile"].cur <= rlimit["nofile"].max
        /\ rlimit["nofile"].max <= OpenFilesMax
        /\ \A r \in DOMAIN rlimit : rlimit[r].max <= input.rlimit[r].max

\* Whatever is executed passed every check itself, however often its path is
\* replaced between the check and the execution: systemd-run, every systemctl of
\* both brokers, bwrap and the scanner (trustedexec, Manager.systemctl, Runner.Run).
OnlyTrustedRuns ==
    \A e \in executed :
        /\ File[e[2]].kind = "regular" /\ File[e[2]].owner = "root"
        /\ File[e[2]].executable /\ ~File[e[2]].writable /\ File[e[2]].elf
        /\ e[1] = "scanner" => File[e[2]].static

\* Exit status 0 is a promise about both processes and the scope: the whole
\* list, or a whole report that the broker itself validated, is on stdout and
\* no process of the scope is alive (run, Manager.Run).
SuccessIsDelivered ==
    Outer("exited") /\ code["outer"] = 0 =>
        /\ stdout = (IF input.request = "list" THEN "list" ELSE "report")
        /\ stdout = "list" => input.root.entries <= maxInstalledPlugins
        /\ stdout = "report" => output = "valid"
        /\ live = {}

\* What the panel has read when the broker exits is final: no process of a
\* failed or finished run writes to the broker's stdout afterwards.
OutputIsFinal == [][Outer("exited") => stdout' = stdout]_vars

\* The outer broker ends, even when the scoped one waits for ever, as it may in
\* VerifyRuntime, whose context never ends (afterVerifiedContainment, Run).
BrokerEnds == <>(Outer("exited") \/ Outer("killed"))

=============================================================================
