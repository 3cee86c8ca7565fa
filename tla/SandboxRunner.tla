---------------------------- MODULE SandboxRunner ----------------------------
(***************************************************************************)
(* sandbox.Runner.Run (internal/sandbox/sandbox.go): the scoped broker     *)
(* starts the scanner under Bubblewrap, copies its two output streams into *)
(* bounded buffers, and decides whether what it captured is a report.      *)
(*                                                                         *)
(* Four things run at once: the child and whatever it left behind, one     *)
(* copying goroutine per stream, os/exec's watcher of the context, and the *)
(* goroutine in cmd.Wait.  os/exec is external and follows its documented  *)
(* contract: the child is killed when the context ends; cmd.Run returns    *)
(* when the child is reaped and both copies are over, or WaitDelay after   *)
(* the context's end (else after the reaping) with the pipes closed.       *)
(***************************************************************************)
EXTENDS Integers, FiniteSets

CONSTANTS
    Timeout,             \* Runner.Timeout, policy.WallTime
    ProcessWaitDelay,    \* cmd.WaitDelay
    MaxReportBytes, MaxStderrBytes,
    MaxWritten           \* model bound: bytes ever written to one stream

ASSUME RunnerAssumption ==
    /\ Timeout \in Nat \ {0} /\ ProcessWaitDelay \in Nat \ {0}
    /\ MaxReportBytes \in Nat \ {0} /\ MaxStderrBytes \in Nat \ {0}
    /\ MaxWritten \in Nat

Streams == {"stdout", "stderr"}
Limit(s) == IF s = "stdout" THEN MaxReportBytes ELSE MaxStderrBytes

VARIABLES
    clock,        \* time since context.WithTimeout
    pc,           \* Run: "start", "wait" for the child, "copies", "decide", "done"
    ctx,          \* timed.Err(): "live", "cancelled" or "expired"
    timer,        \* when os/exec's WaitDelay timer fires, None before it is set
    child,        \* bwrap: "none", "running", "ok" (status 0) or "bad"
    holders,      \* streams still held open by a descendant
    written,      \* stream -> bytes written into the pipe
    taken,        \* stream -> bytes the copying goroutine has taken out
    buffered,     \* stream -> boundedBuffer.buffer.Len()
    overflowed,   \* stream -> boundedBuffer.err # nil
    copying,      \* streams whose copying goroutine still runs
    waitErr,      \* cmd.Run's error # nil
    result        \* what Run returned

streamVars == <<holders, written, taken, buffered, overflowed, copying>>
vars == <<clock, pc, ctx, timer, child, streamVars, waitErr, result>>

None == -1

Init ==
    /\ clock = 0 /\ pc = "start" /\ ctx = "live" /\ timer = None
    /\ child = "none" /\ holders = {} /\ copying = {}
    /\ written = [s \in Streams |-> 0] /\ taken = [s \in Streams |-> 0]
    /\ buffered = [s \in Streams |-> 0] /\ overflowed = [s \in Streams |-> FALSE]
    /\ waitErr = FALSE /\ result = "none"

-----------------------------------------------------------------------------
(* Runner.Run.                                                             *)

\* A missing path, a timeout or name that is refused, a scanner that is not a
\* trusted static ELF, a target that is no directory, or a failed start.
Refuse ==
    /\ pc = "start"
    /\ pc' = "done" /\ result' = "refused"
    /\ UNCHANGED <<clock, ctx, timer, child, streamVars, waitErr>>

Start ==
    /\ pc = "start"
    /\ pc' = "wait" /\ child' = "running" /\ copying' = Streams
    /\ UNCHANGED <<clock, ctx, timer, holders, written, taken, buffered,
                   overflowed, waitErr, result>>

\* Mutants: one byte over the limit still fits; data[:remaining] is kept of data
\* that is shorter, with stale bytes of the copying goroutine's slice.
CopyOneByteMore(s, n) ==
    LET remaining == Limit(s) - buffered[s] + 1
        fits      == n <= remaining
    IN
    /\ s \in copying
    /\ n <= written[s] - taken[s]
    /\ taken' = [taken EXCEPT ![s] = @ + n]
    /\ buffered' = [buffered EXCEPT ![s] = @ + (IF fits THEN n ELSE remaining)]
    /\ overflowed' = [overflowed EXCEPT ![s] = ~fits]
    /\ copying' = IF fits THEN copying ELSE copying \ {s}
    /\ UNCHANGED <<clock, pc, ctx, timer, child, holders, written, waitErr, result>>
CopyStale(s, n) ==
    /\ s \in copying
    /\ n <= written[s] - taken[s]
    /\ taken' = [taken EXCEPT ![s] = @ + n]
    /\ buffered' = [buffered EXCEPT ![s] = Limit(s)]
    /\ UNCHANGED <<clock, pc, ctx, timer, child, holders, written, overflowed,
                   copying, waitErr, result>>

\* boundedBuffer.Write of n bytes: what fits is kept; the first byte too many
\* sets the error, which ends the copy, and cancels the context.
Copy(s, n) ==
    LET remaining == Limit(s) - buffered[s]
        fits      == n <= remaining
    IN
    /\ s \in copying
    /\ n <= written[s] - taken[s]
    /\ taken' = [taken EXCEPT ![s] = @ + n]
    /\ buffered' = [buffered EXCEPT ![s] = @ + (IF fits THEN n ELSE remaining)]
    /\ overflowed' = [overflowed EXCEPT ![s] = ~fits]
    /\ copying' = IF fits THEN copying ELSE copying \ {s}
    /\ ctx' = IF ~fits /\ ctx = "live" THEN "cancelled" ELSE ctx
    /\ waitErr' = (waitErr \/ ~fits)
    /\ UNCHANGED <<clock, pc, timer, child, holders, written, result>>

\* The order in which Run looks at what happened.
Decision ==
    CASE overflowed["stdout"] -> "stdout-overflow"
      [] overflowed["stderr"] -> "stderr-overflow"
      [] ctx = "expired"      -> "timeout"
      [] waitErr              -> "failed"
      [] OTHER                -> "report"

Decide ==
    /\ pc = "decide"
    /\ pc' = "done" /\ result' = Decision
    /\ UNCHANGED <<clock, ctx, timer, child, streamVars, waitErr>>

-----------------------------------------------------------------------------
(* os/exec and the context.                                                *)

\* Mutant: the kill's WaitDelay is added to the scanner's time.
contextEndExtended == Timeout + ProcessWaitDelay

\* context.WithTimeout(ctx, r.Timeout).
contextEnd == Timeout

ContextExpires ==
    /\ ctx = "live" /\ pc \in {"wait", "copies", "decide"}
    /\ clock >= contextEnd
    /\ ctx' = "expired"
    /\ UNCHANGED <<clock, pc, timer, child, streamVars, waitErr, result>>

\* The watcher sees the context end before the child is reaped: it kills the
\* child, which is an error and leaves the child's descendants alone; a child
\* that had already exited may escape it.
WatcherKills ==
    /\ pc = "wait" /\ ctx # "live" /\ timer = None
    /\ timer' = clock + ProcessWaitDelay
    /\ child' = IF child = "running" THEN "bad" ELSE child
    /\ holders' \in IF child = "running" THEN SUBSET Streams ELSE {holders}
    /\ waitErr' \in {TRUE, waitErr \/ child = "running"}
    /\ UNCHANGED <<clock, pc, ctx, written, taken, buffered, overflowed, copying, result>>

Reap ==
    /\ pc = "wait" /\ child \in {"ok", "bad"}
    /\ pc' = "copies"
    /\ timer' = IF timer = None THEN clock + ProcessWaitDelay ELSE timer
    /\ waitErr' = (waitErr \/ child = "bad")
    /\ UNCHANGED <<clock, ctx, child, streamVars, result>>

\* io.Copy ends at end of file: nobody can write and the pipe is drained.
CopyEnds(s) ==
    /\ s \in copying
    /\ child \in {"ok", "bad"} /\ s \notin holders /\ taken[s] = written[s]
    /\ copying' = copying \ {s}
    /\ UNCHANGED <<clock, pc, ctx, timer, child, holders, written, taken,
                   buffered, overflowed, waitErr, result>>

\* awaitGoroutines: both copies are over, or the timer closes the pipes.
CopiesDone ==
    /\ pc = "copies" /\ copying = {}
    /\ pc' = "decide"
    /\ UNCHANGED <<clock, ctx, timer, child, streamVars, waitErr, result>>

\* Mutants: the pipes are closed without an error; WaitDelay is left at zero,
\* which means no limit.
WaitDelaySilent ==
    /\ pc = "copies" /\ copying # {} /\ clock >= timer
    /\ copying' = {} /\ pc' = "decide"
    /\ UNCHANGED <<clock, ctx, timer, child, holders, written, taken, buffered,
                   overflowed, waitErr, result>>
WaitDelayUnset == FALSE /\ UNCHANGED vars

WaitDelayExpires ==
    /\ pc = "copies" /\ copying # {} /\ clock >= timer
    /\ copying' = {} /\ waitErr' = TRUE
    /\ pc' = "decide"
    /\ UNCHANGED <<clock, ctx, timer, child, holders, written, taken, buffered,
                   overflowed, result>>

-----------------------------------------------------------------------------
(* The scanner, its descendants and time.                                  *)

\* A write into a pipe whose reader is gone fails and leaves no trace.
ScannerWrites(s) ==
    /\ child = "running" \/ s \in holders
    /\ s \in copying /\ written[s] < MaxWritten
    /\ written' = [written EXCEPT ![s] = @ + 1]
    /\ UNCHANGED <<clock, pc, ctx, timer, child, holders, taken, buffered,
                   overflowed, copying, waitErr, result>>

ScannerExits ==
    /\ child = "running"
    /\ child' \in {"ok", "bad"}
    /\ holders' \in SUBSET Streams
    /\ UNCHANGED <<clock, pc, ctx, timer, written, taken, buffered, overflowed,
                   copying, waitErr, result>>

HolderCloses(s) ==
    /\ s \in holders
    /\ holders' = holders \ {s}
    /\ UNCHANGED <<clock, pc, ctx, timer, child, written, taken, buffered,
                   overflowed, copying, waitErr, result>>

\* Timers fire on time and an exited child is reaped at once.  A killed child
\* may take until the timer to be reaped, the copying goroutines as long.
Tick ==
    /\ \/ pc = "wait" /\ child = "running" /\ ctx = "live" /\ clock < contextEnd
       \/ pc = "wait" /\ timer # None /\ clock < timer
       \/ pc = "copies" /\ clock < timer /\ ~(ctx = "live" /\ clock >= contextEnd)
    /\ clock' = clock + 1
    /\ UNCHANGED <<pc, ctx, timer, child, streamVars, waitErr, result>>

Runner ==
    \/ Refuse \/ Start \/ Decide \/ ContextExpires \/ WatcherKills \/ Reap
    \/ CopiesDone \/ WaitDelayExpires
    \/ \E s \in Streams : CopyEnds(s) \/ \E n \in 1 .. MaxWritten : Copy(s, n)

Scanner ==
    \/ ScannerExits
    \/ \E s \in Streams : ScannerWrites(s) \/ HolderCloses(s)

Next == Runner \/ Scanner \/ Tick

Spec == Init /\ [][Next]_vars

(***************************************************************************)
(* Fairness: goroutines run and time passes.  The scanner need not exit,   *)
(* write, or let go of its pipes.                                          *)
(***************************************************************************)
FairSpec == Spec /\ WF_vars(Runner) /\ WF_vars(Tick)

-----------------------------------------------------------------------------
(* Properties.                                                             *)

\* Run's phases and results; a buffer holds no byte that its goroutine did not
\* take out of the pipe, which took none that was not written (boundedBuffer.Write).
TypeOK ==
    /\ clock \in Nat /\ timer \in Nat \union {None}
    /\ pc \in {"start", "wait", "copies", "decide", "done"}
    /\ ctx \in {"live", "cancelled", "expired"}
    /\ child \in {"none", "running", "ok", "bad"}
    /\ holders \subseteq Streams /\ copying \subseteq Streams
    /\ written \in [Streams -> 0 .. MaxWritten]
    /\ taken \in [Streams -> Nat] /\ buffered \in [Streams -> Nat]
    /\ \A s \in Streams : buffered[s] <= taken[s] /\ taken[s] <= written[s]
    /\ overflowed \in [Streams -> BOOLEAN]
    /\ waitErr \in BOOLEAN
    /\ result \in {"none", "refused", "stdout-overflow", "stderr-overflow",
                   "timeout", "failed", "report"}

\* Output that is returned is the whole output of a scanner that succeeded: no
\* byte was cut off by a limit, left in a pipe or still to come from a
\* descendant, however exit, overflow, timeout and copying interleave (Run).
ReportIsComplete ==
    result = "report" =>
      /\ child = "ok"
      /\ "stdout" \notin holders
      /\ buffered["stdout"] = written["stdout"]

\* No buffer outgrows its limit, and an overflow error means that the stream
\* really carried more than the limit (boundedBuffer.Write at the boundary).
LimitsExact ==
    \A s \in Streams :
      /\ buffered[s] <= Limit(s)
      /\ overflowed[s] => buffered[s] = Limit(s) /\ written[s] > Limit(s)

\* Run is over by Timeout + WaitDelay even when descendants hold both pipes
\* open, and a cancellation never gives the child more than WaitDelay (Run).
RunnerIsTimely == pc # "done" => clock <= Timeout + ProcessWaitDelay

\* Run returns although the scanner never exits and never closes a pipe (Run).
RunnerReturns == <>(pc = "done")

=============================================================================
