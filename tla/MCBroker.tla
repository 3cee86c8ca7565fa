------------------------------- MODULE MCBroker -------------------------------
(* Broker for TLC: a trusted static file, a trusted dynamic one and one that   *)
(* fails a check; inputs the broker accepts, and inputs that each miss one     *)
(* condition, by one where it is a number.                                     *)
EXTENDS Broker, TLC

CONSTANTS static, dynamic, planted

MCFile ==
    LET trusted == [kind |-> "regular", executable |-> TRUE, writable |-> FALSE,
                    owner |-> "root", elf |-> TRUE, static |-> TRUE]
    IN (static :> trusted) @@ (dynamic :> [trusted EXCEPT !.static = FALSE])
       @@ (planted :> [trusted EXCEPT !.owner = "user"])

Exact == [member |-> TRUE, memory |-> MemoryMaxBytes, swap |-> MemorySwapBytes,
          pids |-> TasksMax, quota |-> 1, period |-> 1, runtime |-> ScopeRuntime]

Grants ==
    {Exact, [Exact EXCEPT !.member = FALSE]}
    \union {[Exact EXCEPT !.memory = v] : v \in {Unlimited, 0, MemoryMaxBytes + 1}}
    \union {[Exact EXCEPT !.swap = v] : v \in {Unlimited, MemorySwapBytes + 1}}
    \union {[Exact EXCEPT !.pids = v] : v \in {Unlimited, TasksMax + 1}}
    \union {[Exact EXCEPT !.quota = v] : v \in {Unlimited, 0, 2}}
    \union {[Exact EXCEPT !.runtime = v] : v \in {Unlimited, 0, ScopeRuntime + 1}}

Lowerable == {[core   |-> [cur |-> c, max |-> 1],
              nofile |-> [cur |-> n, max |-> OpenFilesMax + m]] :
               c \in 0 .. 1, n \in 1 .. OpenFilesMax - 1, m \in {-1, 1}}

\* The paths that change: a list executes the systemd programs only.
Unstable(request) ==
    {{"systemd-run"}, {"systemctl"}}
    \union IF request = "list" THEN {{"systemd-run", "systemctl"}}
                               ELSE {{"bwrap"}, {"scanner"}, {"bwrap", "scanner"}}

Base(request) ==
    [usage |-> TRUE, validID |-> TRUE, request |-> request,
     installed |-> [p \in Programs |-> IF p = "scanner" THEN static ELSE dynamic],
     rlimit |-> CHOOSE r \in Lowerable : TRUE, grant |-> Exact,
     root |-> [opens |-> TRUE, entries |-> maxInstalledPlugins, acceptable |-> TRUE],
     target |-> "directory", unstable |-> {}]

MCInputs ==
    UNION {{Base(r), [Base(r) EXCEPT !.usage = FALSE]}
           \union {[Base(r) EXCEPT !.grant = g] : g \in Grants}
           \union {[Base(r) EXCEPT !.unstable = u] : u \in Unstable(r)} : r \in {"list", "review"}}
    \union {[Base("list") EXCEPT !.rlimit = l] : l \in Lowerable}
    \union {[Base("list") EXCEPT !.root.entries = maxInstalledPlugins + 1],
            [Base("list") EXCEPT !.root.acceptable = FALSE],
            [Base("list") EXCEPT !.root.opens = FALSE],
            [Base("review") EXCEPT !.validID = FALSE],
            [Base("review") EXCEPT !.target = "link"]}

=============================================================================
