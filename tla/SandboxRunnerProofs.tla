------------------------- MODULE SandboxRunnerProofs -------------------------
(***************************************************************************)
(* Proofs about SandboxRunner, for every timeout, wait delay, pair of      *)
(* limits and amount of output.                                            *)
(*                                                                         *)
(* What Run returns is decided after the goroutines are over, so each      *)
(* property is carried there by what the goroutines leave behind:          *)
(* BufferInv by the copies, EndInv by the reaping, TimeInv by the timers.  *)
(***************************************************************************)
EXTENDS SandboxRunner, TLAPS

DataOK ==
    /\ clock \in Nat /\ timer \in Nat \union {None}
    /\ pc \in {"start", "wait", "copies", "decide", "done"}
    /\ ctx \in {"live", "cancelled", "expired"}
    /\ child \in {"none", "running", "ok", "bad"}
    /\ holders \subseteq Streams /\ copying \subseteq Streams
    /\ written \in [Streams -> 0 .. MaxWritten]
    /\ taken \in [Streams -> Nat] /\ buffered \in [Streams -> Nat]
    /\ overflowed \in [Streams -> BOOLEAN]
    /\ waitErr \in BOOLEAN
    /\ result \in {"none", "refused", "stdout-overflow", "stderr-overflow",
                   "timeout", "failed", "report"}

\* A buffer holds what its copy took, until the first byte too many ends it.
BufferInv ==
    \A s \in Streams :
      /\ taken[s] <= written[s]
      /\ ~overflowed[s] => buffered[s] = taken[s] /\ buffered[s] <= Limit(s)
      /\ overflowed[s] => /\ buffered[s] = Limit(s) /\ taken[s] > Limit(s)
                          /\ s \notin copying /\ waitErr

\* A copy that ended without an error ended at the end of its stream, and a
\* child that was reaped without one has succeeded.
EndInv ==
    /\ pc = "start" => /\ child = "none" /\ result = "none"
                      /\ \A s \in Streams : ~overflowed[s]
    /\ pc \in {"copies", "decide"} => child \in {"ok", "bad"}
    /\ pc \in {"copies", "decide"} /\ ~waitErr => child = "ok"
    /\ pc \in {"start", "decide", "done"} => copying = {}
    /\ pc \in {"wait", "copies", "decide"} /\ ~waitErr =>
          \A s \in Streams \ copying :
             /\ child \in {"ok", "bad"} /\ s \notin holders
             /\ taken[s] = written[s]
    /\ result # "none" => pc = "done"

\* No timer is set for later than the end of the context and one WaitDelay, and
\* no clock runs past the timer that is set.
TimeInv ==
    /\ pc = "start" => clock = 0 /\ timer = None
    /\ pc = "wait" /\ timer = None => clock <= Timeout
    /\ pc = "wait" /\ timer # None => ctx # "live"
    /\ pc = "copies" => timer # None
    /\ pc \in {"wait", "copies"} /\ timer # None =>
          clock <= timer /\ timer <= Timeout + ProcessWaitDelay
    /\ pc = "decide" => clock <= Timeout + ProcessWaitDelay

IInv == DataOK /\ BufferInv /\ EndInv /\ ReportIsComplete /\ TimeInv

USE DEF Streams, None

\* The limits are positive numbers.
LEMMA LimitType == \A s \in Streams : Limit(s) \in Nat
  BY RunnerAssumption DEF Limit

LEMMA InitIInv == Init => IInv
<1> SUFFICES ASSUME Init PROVE IInv
  OBVIOUS
<1> USE RunnerAssumption, LimitType DEF Init
<1>1. DataOK
  <2>1. overflowed \in [Streams -> BOOLEAN] /\ waitErr \in BOOLEAN
    OBVIOUS
  <2>2. written \in [Streams -> 0 .. MaxWritten]
    OBVIOUS
  <2> QED
    BY <2>1, <2>2 DEF DataOK
<1>2. BufferInv
  BY DEF BufferInv
<1>3. EndInv /\ ReportIsComplete
  BY DEF EndInv, ReportIsComplete
<1>4. TimeInv
  BY DEF TimeInv
<1> QED
  BY <1>1, <1>2, <1>3, <1>4 DEF IInv

\* Run, os/exec and the context.
LEMMA RunnerStep == IInv /\ Runner => IInv'
<1> SUFFICES ASSUME IInv, Runner PROVE IInv'
  OBVIOUS
<1> USE RunnerAssumption, LimitType
<1> USE DEF IInv, DataOK, streamVars
<1>1. CASE Refuse
  BY <1>1 DEF Refuse, BufferInv, EndInv, ReportIsComplete, TimeInv
<1>2. CASE Start
  <2>1. DataOK'
    BY <1>2 DEF Start
  <2>2. BufferInv'
    BY <1>2 DEF Start, BufferInv, EndInv
  <2>3. EndInv' /\ ReportIsComplete'
    BY <1>2 DEF Start, EndInv, ReportIsComplete
  <2>4. TimeInv'
    BY <1>2 DEF Start, TimeInv
  <2> QED
    BY <2>1, <2>2, <2>3, <2>4
<1>3. CASE Decide
  BY <1>3 DEF Decide, Decision, BufferInv, EndInv, ReportIsComplete, TimeInv
<1>4. CASE ContextExpires
  BY <1>4 DEF ContextExpires, BufferInv, EndInv, ReportIsComplete, TimeInv
<1>5. CASE WatcherKills
  <2>1. DataOK'
    <3>1. waitErr' \in BOOLEAN
      BY <1>5 DEF WatcherKills
    <3> QED
      BY <1>5, <3>1 DEF WatcherKills
  <2>2. BufferInv'
    BY <1>5 DEF WatcherKills, BufferInv
  <2>3. EndInv' /\ ReportIsComplete'
    BY <1>5 DEF WatcherKills, EndInv, ReportIsComplete
  <2>4. TimeInv'
    BY <1>5 DEF WatcherKills, TimeInv
  <2> QED
    BY <2>1, <2>2, <2>3, <2>4
<1>6. CASE Reap
  <2>1. DataOK'
    BY <1>6 DEF Reap
  <2>2. BufferInv'
    BY <1>6 DEF Reap, BufferInv
  <2>3. EndInv' /\ ReportIsComplete'
    BY <1>6 DEF Reap, EndInv, ReportIsComplete
  <2>4. TimeInv'
    BY <1>6 DEF Reap, TimeInv
  <2> QED
    BY <2>1, <2>2, <2>3, <2>4
<1>7. CASE CopiesDone
  BY <1>7 DEF CopiesDone, BufferInv, EndInv, ReportIsComplete, TimeInv
<1>8. CASE WaitDelayExpires
  BY <1>8 DEF WaitDelayExpires, BufferInv, EndInv, ReportIsComplete, TimeInv
<1>9. ASSUME NEW s \in Streams, CopyEnds(s)
      PROVE  IInv'
  BY <1>9 DEF CopyEnds, BufferInv, EndInv, ReportIsComplete, TimeInv
<1>10. ASSUME NEW s \in Streams, NEW n \in 1 .. MaxWritten, Copy(s, n)
       PROVE  IInv'
  <2>1. DataOK'
    BY <1>10 DEF Copy, BufferInv
  <2>2. BufferInv'
    <3>1. ~overflowed[s] /\ buffered[s] = taken[s]
      BY <1>10 DEF Copy, BufferInv
    <3>2. ASSUME NEW t \in Streams, t # s
          PROVE  UNCHANGED <<taken[t], written[t], buffered[t], overflowed[t]>>
                 /\ (t \in copying' <=> t \in copying)
      BY <1>10, <3>2 DEF Copy
    <3>3. ASSUME NEW t \in Streams, t # s
          PROVE  BufferInv!(t)'
      BY <1>10, <3>2, <3>3 DEF BufferInv, Copy
    <3>4. BufferInv!(s)'
      <4> DEFINE remaining == Limit(s) - buffered[s]
      <4>1. /\ taken'[s] = taken[s] + n /\ taken'[s] <= written'[s]
            /\ remaining \in Nat
        BY <1>10, <3>1 DEF BufferInv, Copy
      <4>2. CASE n <= remaining
        <5>1. buffered'[s] = buffered[s] + n /\ ~overflowed'[s]
          BY <1>10, <4>2 DEF Copy
        <5> QED
          BY <1>10, <3>1, <4>1, <4>2, <5>1
      <4>3. CASE ~(n <= remaining)
        <5>1. /\ buffered'[s] = buffered[s] + remaining /\ overflowed'[s]
              /\ s \notin copying' /\ waitErr'
          BY <1>10, <4>3 DEF Copy
        <5> QED
          BY <1>10, <3>1, <4>1, <4>3, <5>1
      <4> QED
        BY <4>2, <4>3
    <3> QED
      BY <3>3, <3>4 DEF BufferInv
  <2>3. EndInv' /\ ReportIsComplete'
    BY <1>10 DEF Copy, EndInv, ReportIsComplete, BufferInv
  <2>4. TimeInv'
    BY <1>10 DEF Copy, TimeInv
  <2> QED
    BY <2>1, <2>2, <2>3, <2>4
<1> QED
  BY <1>1, <1>2, <1>3, <1>4, <1>5, <1>6, <1>7, <1>8, <1>9, <1>10 DEF Runner

\* The scanner and its descendants: nobody writes into, or takes hold of, a
\* stream whose copy is over without an error.
LEMMA ScannerStep == IInv /\ Scanner => IInv'
<1> SUFFICES ASSUME IInv, Scanner PROVE IInv'
  OBVIOUS
<1> USE RunnerAssumption, LimitType
<1> USE DEF IInv, DataOK, streamVars
<1>1. CASE ScannerExits
  BY <1>1 DEF ScannerExits, BufferInv, EndInv, ReportIsComplete, TimeInv
<1>2. ASSUME NEW s \in Streams, ScannerWrites(s)
      PROVE  IInv'
  BY <1>2 DEF ScannerWrites, BufferInv, EndInv, ReportIsComplete, TimeInv
<1>3. ASSUME NEW s \in Streams, HolderCloses(s)
      PROVE  IInv'
  BY <1>3 DEF HolderCloses, BufferInv, EndInv, ReportIsComplete, TimeInv
<1> QED
  BY <1>1, <1>2, <1>3 DEF Scanner

\* Time passes up to the next timer and no further.
LEMMA TickStep == IInv /\ Tick => IInv'
  BY RunnerAssumption, LimitType
     DEF Tick, contextEnd, IInv, DataOK, BufferInv, EndInv, ReportIsComplete, TimeInv,
         streamVars

\* The invariant on pipes, buffers, the end of Run and its clock is inductive: it
\* holds in every state of the runner.
THEOREM Inductive == Spec => []IInv
<1>1. IInv /\ UNCHANGED vars => IInv'
  BY DEF vars, streamVars, IInv, DataOK, BufferInv, EndInv, ReportIsComplete, TimeInv
<1>2. IInv /\ [Next]_vars => IInv'
  BY <1>1, RunnerStep, ScannerStep, TickStep DEF Next
<1> QED
  BY InitIInv, <1>2, PTL DEF Spec

\* TypeOK holds in every reachable state: a buffer never holds more than its
\* goroutine took out of the pipe, nor that more than was written into it, however
\* writes, copies and overflows interleave (boundedBuffer.Write).
THEOREM TypeCorrect == Spec => []TypeOK
<1>1. IInv => TypeOK
  <2> SUFFICES ASSUME IInv PROVE TypeOK
    OBVIOUS
  <2>1. ASSUME NEW s \in Streams
        PROVE  buffered[s] <= taken[s] /\ taken[s] <= written[s]
    BY LimitType DEF IInv, DataOK, BufferInv
  <2> QED
    BY <2>1, Zenon DEF IInv, DataOK, TypeOK
<1> QED
  BY <1>1, Inductive, PTL

\* What Run returns as a report is the whole output of a scanner that succeeded,
\* for all limits and timeouts (ReportIsComplete).
THEOREM CompleteTheorem == Spec => []ReportIsComplete
<1>1. IInv => ReportIsComplete
  BY DEF IInv
<1> QED
  BY <1>1, Inductive, PTL

\* boundedBuffer keeps its limit to the byte and reports an overflow only when
\* there was one, for all limits and all sizes of chunks (LimitsExact).
THEOREM LimitsTheorem == Spec => []LimitsExact
<1>1. IInv => LimitsExact
  BY LimitType DEF IInv, DataOK, BufferInv, LimitsExact
<1> QED
  BY <1>1, Inductive, PTL

\* Run is over Timeout + WaitDelay after it started the context, for all
\* timeouts and whatever the scanner's descendants hold (RunnerIsTimely).
THEOREM TimelyTheorem == Spec => []RunnerIsTimely
<1>1. IInv => RunnerIsTimely
  BY RunnerAssumption DEF IInv, DataOK, TimeInv, RunnerIsTimely
<1> QED
  BY <1>1, Inductive, PTL

==============================================================================
