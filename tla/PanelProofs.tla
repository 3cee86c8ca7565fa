----------------------------- MODULE PanelProofs -----------------------------
(***************************************************************************)
(* Proofs about Panel, for any number of plugins and requests and any two  *)
(* schema versions.                                                        *)
(*                                                                         *)
(* AnswerIsOwn speaks of a panel in which everything has been handled.  To *)
(* get there the invariant follows the process of the latest request: it   *)
(* waits for the one before it, runs, has ended with some of its signals   *)
(* outstanding, or is over (Followed).  That no other process carries the  *)
(* request's number (NumberInv) makes the history variable disturbed mean  *)
(* what it says.                                                           *)
(***************************************************************************)
EXTENDS Panel, TLAPS

Names == {"list", "scan"}

\* The states of Quickshell's Process.
Proc == [phase : {"idle", "running", "ended"}, again : Nat, command : 0 .. Plugins,
         for : Nat, plugin : 0 .. Plugins, out : Int, ok : BOOLEAN,
         signals : SUBSET Signals]

ProcOK(p) ==
    LET s == process[p] IN
    /\ s.phase = "ended" <=> s.signals # {}
    /\ s.phase = "ended" =>
          /\ s.out = Garbage \/ s.out \in 0 .. Plugins
          /\ p = "scan" => s.out \in {Garbage, s.plugin}
          /\ s.ok => s.out # Garbage

DataOK ==
    /\ view \in {"plugins", "report", "error"}
    /\ pluginIds \in 0 .. Plugins /\ currentReport \in 0 .. Plugins
    /\ selectedPlugin \in Nat /\ (pluginIds = 0 => selectedPlugin = 0)
    /\ pluginIds > 0 => selectedPlugin < pluginIds
    /\ request \in 0 .. MaxRequests /\ asked \in 0 .. Plugins
    /\ answer \in {"none", "ok", "failed", "unclean"}
    /\ later \subseteq 0 .. request
    /\ process \in [Names -> Proc] /\ \A p \in Names : ProcOK(p)

FlagsOK == visible \in BOOLEAN /\ busy \in BOOLEAN /\ hiding \in BOOLEAN

\* The process of the latest request.
Own == IF asked = None THEN "list" ELSE "scan"

\* Only that process can be running, or can be about to run, for the request.
NumberInv ==
    /\ \A p \in Names : process[p].for <= request /\ process[p].again <= request
    /\ request > 0 => \A p \in Names \ {Own} :
                         process[p].for # request /\ process[p].again # request

\* Nothing starts for a panel that was closed.
RevokedInv == ~visible /\ ~hiding => \A p \in Names : process[p].again = 0

Answered ==
    /\ answer = "ok" => ListShown \/ ReportShown \/ (Refused /\ view = "error")
    /\ answer = "failed" => view = "error"
    /\ answer = "unclean" => ListShown \/ ReportShown \/ view = "error"

Expecting == busy /\ view = "plugins"

AnswerOf(s) == IF s.ok THEN "ok" ELSE IF s.out = Garbage THEN "failed" ELSE "unclean"

Waiting(s) ==
    /\ s.phase # "idle" /\ s.for # request /\ s.again = request /\ s.command = asked
    /\ answer = "none" /\ Expecting /\ request \notin later

Running(s) ==
    /\ s.phase = "running" /\ s.for = request /\ s.again = 0 /\ s.plugin = asked
    /\ answer = "none" /\ Expecting /\ request \notin later

\* The failure may be shown before the output is looked at, but then the process
\* has exited and the output is ignored.
Ending(s) ==
    /\ s.phase = "ended" /\ s.for = request /\ s.again = 0 /\ s.plugin = asked
    /\ answer = AnswerOf(s)
    /\ request \in later => ~s.ok /\ "exited" \notin s.signals
    /\ "stdout" \in s.signals =>
          \/ Expecting
          \/ ~busy /\ view = "error" /\ ~s.ok /\ "exited" \notin s.signals
    /\ "stdout" \notin s.signals => ~busy /\ Answered

Over(s) ==
    /\ s.for # request /\ s.again # request
    /\ answer # "none" /\ ~busy /\ Answered
    /\ request \in later => answer # "ok"

\* Where the latest request has got to, in a panel nothing older has disturbed.
Followed ==
    visible /\ request > 0 /\ ~disturbed =>
        LET s == process[Own] IN Waiting(s) \/ Running(s) \/ Ending(s) \/ Over(s)

IInv == DataOK /\ NumberInv /\ RevokedInv /\ Followed

USE DEF None, Garbage, Signals, Names

-----------------------------------------------------------------------------
(* Quickshell's Process, field by field.                                   *)

\* Everything but again and command is the same in two states of a Process.
Same(s, t) ==
    /\ t.phase = s.phase /\ t.for = s.for /\ t.plugin = s.plugin
    /\ t.out = s.out /\ t.ok = s.ok /\ t.signals = s.signals

Fresh(t, n, plugin) ==
    /\ t.phase = "running" /\ t.for = n /\ t.plugin = plugin
    /\ t.again = 0 /\ t.signals = {}

LEMMA IdleProc ==
    Idle \in Proc /\ Idle.phase = "idle" /\ Idle.again = 0 /\ Idle.for = 0 /\ Idle.signals = {}
  BY PanelAssumption DEF Idle, Proc

LEMMA SetFalse ==
    ASSUME NEW s \in Proc
    PROVE  /\ setRunningFalse(s) \in Proc
           /\ Same(s, setRunningFalse(s)) /\ setRunningFalse(s).again = 0
  BY DEF setRunningFalse, Proc, Same

LEMMA SetTrue ==
    ASSUME NEW s \in Proc, NEW n \in Nat, NEW plugin \in 0 .. Plugins
    PROVE  LET t == setRunningTrue(s, n, plugin) IN
           /\ t \in Proc
           /\ s.phase = "idle" => Fresh(t, n, plugin)
           /\ s.phase # "idle" => Same(s, t) /\ t.again = n /\ t.command = plugin
<1>1. CASE s.phase = "idle"
  <2> DEFINE t == [phase |-> "running", again |-> 0, command |-> None, for |-> n,
                   plugin |-> plugin, out |-> Garbage, ok |-> FALSE, signals |-> {}]
  <2>1. setRunningTrue(s, n, plugin) = t
    BY <1>1 DEF setRunningTrue, Idle
  <2>2. t \in Proc
    BY PanelAssumption DEF Proc
  <2>3. Fresh(t, n, plugin)
    BY DEF Fresh
  <2> QED
    BY <1>1, <2>1, <2>2, <2>3
<1>2. CASE s.phase # "idle"
  <2>1. setRunningTrue(s, n, plugin) = [s EXCEPT !.again = n, !.command = plugin]
    BY <1>2 DEF setRunningTrue
  <2> QED
    BY <1>2, <2>1 DEF Proc, Same
<1> QED
  BY <1>1, <1>2

\* A handled signal leaves the others, or the Process starts again, or is idle.
LEMMA HandledStep ==
    ASSUME DataOK, NEW p \in Names, NEW g \in process[p].signals, Handled(p, g)
    PROVE  /\ process' \in [Names -> Proc]
           /\ \A q \in Names \ {p} : process'[q] = process[q]
           /\ LET s == process[p]
                  t == process'[p]
              IN  \/ /\ t.phase = s.phase /\ t.for = s.for /\ t.plugin = s.plugin
                     /\ t.out = s.out /\ t.ok = s.ok /\ t.again = s.again
                     /\ t.command = s.command
                     /\ t.signals = s.signals \ {g} /\ t.signals # {}
                  \/ s.signals = {g} /\ s.again > 0 /\ Fresh(t, s.again, s.command)
                  \/ s.signals = {g} /\ s.again = 0 /\ t = Idle
<1> DEFINE s == process[p]
           left == [s EXCEPT !.signals = @ \ {g}]
           t == IF left.signals # {} THEN left
                ELSE IF left.again > 0 THEN setRunningTrue(Idle, left.again, left.command)
                ELSE Idle
<1>1. s \in Proc
  BY DEF DataOK
<1>2. /\ left \in Proc /\ left.phase = s.phase /\ left.for = s.for /\ left.plugin = s.plugin
      /\ left.out = s.out /\ left.ok = s.ok /\ left.again = s.again
      /\ left.command = s.command /\ left.signals = s.signals \ {g}
      /\ s.again \in Nat /\ s.command \in 0 .. Plugins
  BY <1>1 DEF Proc
<1>3. process' = [process EXCEPT ![p] = t]
  BY DEF Handled
<1>4. /\ t \in Proc
      /\ \/ left.signals # {} /\ t = left
         \/ left.signals = {} /\ s.again > 0 /\ Fresh(t, s.again, s.command)
         \/ left.signals = {} /\ s.again = 0 /\ t = Idle
  <2>1. CASE left.signals # {}
    BY <1>2, <2>1
  <2>2. CASE left.signals = {} /\ s.again > 0
    <3>1. t = setRunningTrue(Idle, s.again, s.command)
      BY <1>2, <2>2
    <3> QED
      BY <1>2, <2>2, <3>1, SetTrue, IdleProc
  <2>3. CASE left.signals = {} /\ ~(s.again > 0)
    BY <1>2, <2>3, IdleProc
  <2> QED
    BY <2>1, <2>2, <2>3
<1>5. process'[p] = t /\ process' \in [Names -> Proc]
      /\ \A q \in Names \ {p} : process'[q] = process[q]
  <2> HIDE DEF t
  <2> QED
    BY <1>3, <1>4 DEF DataOK
<1> HIDE DEF t, left
<1>6. left.signals = {} => s.signals = {g}
  BY <1>2
<1> QED
  BY <1>2, <1>4, <1>5, <1>6

\* The initial state satisfies the inductive invariant.
LEMMA InitIInv == Init => IInv
<1> SUFFICES ASSUME Init PROVE IInv
  OBVIOUS
<1>1. process \in [Names -> Proc] /\ \A p \in Names : process[p] = Idle
  BY IdleProc DEF Init
<1>2. \A p \in Names : ProcOK(p)
  BY <1>1, IdleProc DEF ProcOK
<1>3. DataOK
  BY <1>1, <1>2, PanelAssumption DEF Init, DataOK
<1>4. NumberInv /\ RevokedInv /\ Followed
  BY <1>1, IdleProc DEF Init, NumberInv, RevokedInv, Followed
<1> QED
  BY <1>3, <1>4 DEF IInv

-----------------------------------------------------------------------------
(* One lemma per action.                                                   *)

\* A new request: nothing that runs or waits carries its number yet.
LEMMA StartListStep ==
    ASSUME IInv, startList, visible' PROVE IInv'
<1> DEFINE l == setRunningFalse(process["list"])
           t == setRunningTrue(l, request + 1, None)
           c == setRunningFalse(process["scan"])
<1>1. /\ process["list"] \in Proc /\ process["scan"] \in Proc
      /\ request \in Nat /\ request + 1 \in 0 .. MaxRequests
      /\ None \in 0 .. Plugins /\ MaxRequests \in Nat
  BY PanelAssumption DEF IInv, DataOK, startList
<1>2. /\ request' = request + 1 /\ asked' = None /\ answer' = "none" /\ later' = later
      /\ pluginIds' = 0 /\ selectedPlugin' = 0 /\ currentReport' = None
      /\ view' = "plugins" /\ busy' = TRUE
      /\ process' = [list |-> t, scan |-> c]
  BY DEF startList
<1>3. l \in Proc /\ Same(process["list"], l) /\ l.again = 0
  BY <1>1, SetFalse
<1>4. c \in Proc /\ Same(process["scan"], c) /\ c.again = 0
  BY <1>1, SetFalse
<1> HIDE DEF l, c
<1>5. /\ t \in Proc
      /\ l.phase = "idle" => Fresh(t, request + 1, None)
      /\ l.phase # "idle" => Same(l, t) /\ t.again = request + 1 /\ t.command = None
  BY <1>1, <1>3, SetTrue
<1> HIDE DEF t
<1>6. process' \in [Names -> Proc] /\ process'["list"] = t /\ process'["scan"] = c
  BY <1>2, <1>4, <1>5
<1>7. /\ process["list"].for \in Nat /\ process["list"].for <= request
      /\ process["scan"].for \in Nat /\ process["scan"].for <= request
  BY <1>1 DEF IInv, NumberInv, Proc
<1>8. ProcOK("list") /\ ProcOK("scan")
  BY DEF IInv, DataOK
<1>9. ProcOK("list")' /\ ProcOK("scan")'
  BY <1>3, <1>4, <1>5, <1>6, <1>8 DEF ProcOK, Same, Fresh
<1>10. later \subseteq 0 .. request
  BY DEF IInv, DataOK
<1>11. later' \subseteq 0 .. request' /\ request' \notin later'
  BY <1>1, <1>2, <1>10
<1>12. DataOK'
  BY <1>1, <1>2, <1>6, <1>9, <1>11 DEF DataOK
<1>13. NumberInv'
  BY <1>1, <1>2, <1>3, <1>4, <1>5, <1>6, <1>7 DEF NumberInv, Own, Same, Fresh
<1>14. (Waiting(process["list"]) \/ Running(process["list"]))'
  BY <1>1, <1>2, <1>3, <1>5, <1>6, <1>7, <1>11 DEF Waiting, Running, Expecting, Same, Fresh
<1>15. Followed'
  BY <1>2, <1>14 DEF Followed, Own
<1> QED
  BY <1>12, <1>13, <1>15 DEF IInv, RevokedInv

\* The error for a missing broker: its request is over at once.
LEMMA BrokerMissingStep ==
    ASSUME IInv, brokerMissing, visible' PROVE IInv'
<1>1. /\ request \in Nat /\ request' = request + 1 /\ request' \in 0 .. MaxRequests
      /\ asked' = None /\ answer' = "failed" /\ view' = "error" /\ busy' = FALSE
      /\ UNCHANGED <<pluginIds, selectedPlugin, currentReport, process, later>>
  BY PanelAssumption DEF IInv, DataOK, brokerMissing
<1>2. \A p \in Names : /\ process[p].for \in Nat /\ process[p].for <= request
                       /\ process[p].again \in Nat /\ process[p].again <= request
  BY DEF IInv, DataOK, NumberInv, Proc
<1>3. later' \subseteq 0 .. request' /\ request' \notin later'
  BY <1>1 DEF IInv, DataOK
<1>4. \A p \in Names : ProcOK(p)'
  BY <1>1 DEF IInv, DataOK, ProcOK
<1>5. DataOK'
  BY <1>1, <1>3, <1>4, PanelAssumption DEF IInv, DataOK
<1>6. NumberInv'
  BY <1>1, <1>2 DEF NumberInv, Own
<1>7. Over(process["list"])'
  BY <1>1, <1>2, <1>3 DEF Over, Answered
<1>8. Followed'
  BY <1>1, <1>7 DEF Followed, Own
<1> QED
  BY <1>5, <1>6, <1>8 DEF IInv, RevokedInv

LEMMA RefreshStep ==
    ASSUME IInv, refreshPlugins, visible' PROVE IInv'
BY StartListStep, BrokerMissingStep DEF refreshPlugins

LEMMA ReviewStep ==
    ASSUME IInv, visible, view = "plugins", reviewSelected PROVE IInv'
<1> DEFINE s == process["scan"]
           n == request + 1
           t == setRunningTrue(s, n, selectedPlugin + 1)
<1>1. /\ process \in [Names -> Proc] /\ s \in Proc
      /\ request \in Nat /\ n \in 0 .. MaxRequests /\ MaxRequests \in Nat
      /\ selectedPlugin + 1 \in 0 .. Plugins /\ selectedPlugin + 1 # 0
  BY PanelAssumption DEF IInv, DataOK, reviewSelected
<1>2. /\ request' = n /\ asked' = selectedPlugin + 1 /\ answer' = "none" /\ later' = later
      /\ pluginIds' = pluginIds /\ selectedPlugin' = selectedPlugin /\ currentReport' = None
      /\ view' = "plugins" /\ busy' = TRUE /\ visible' = visible
      /\ process' = [process EXCEPT !["scan"] = t]
  BY DEF reviewSelected
<1>3. /\ t \in Proc
      /\ s.phase = "idle" => Fresh(t, n, selectedPlugin + 1)
      /\ s.phase # "idle" => Same(s, t) /\ t.again = n /\ t.command = selectedPlugin + 1
  BY <1>1, SetTrue
<1> HIDE DEF t
<1>4. process' \in [Names -> Proc] /\ process'["list"] = process["list"] /\ process'["scan"] = t
  BY <1>1, <1>2, <1>3
<1>5. /\ \A p \in Names : process[p].for \in Nat /\ process[p].again \in Nat
      /\ \A p \in Names : process[p].for <= request /\ process[p].again <= request
  BY <1>1 DEF IInv, NumberInv, Proc
<1>6. ProcOK("list")' /\ ProcOK("scan")'
  BY <1>3, <1>4 DEF IInv, DataOK, ProcOK, Same, Fresh
<1>7. later' \subseteq 0 .. request' /\ request' \notin later'
  BY <1>1, <1>2 DEF IInv, DataOK
<1>8. DataOK'
  BY <1>1, <1>2, <1>4, <1>6, <1>7, PanelAssumption DEF IInv, DataOK
<1>9. NumberInv'
  BY <1>1, <1>2, <1>3, <1>4, <1>5 DEF NumberInv, Own, Same, Fresh
<1>10. (Waiting(process["scan"]) \/ Running(process["scan"]))'
  BY <1>1, <1>2, <1>3, <1>4, <1>5, <1>7 DEF Waiting, Running, Expecting, Same, Fresh
<1>11. Followed'
  BY <1>1, <1>2, <1>10 DEF Followed, Own
<1> QED
  BY <1>2, <1>8, <1>9, <1>11 DEF IInv, RevokedInv

LEMMA CloseStep ==
    ASSUME IInv, close PROVE IInv'
<1>1. \A p \in Names : process[p] \in Proc
  BY DEF IInv, DataOK
<1>2. \A p \in Names : process'[p] = setRunningFalse(process[p])
  BY DEF close
<1>3. \A p \in Names : /\ process'[p] \in Proc /\ Same(process[p], process'[p])
                       /\ process'[p].again = 0
  BY <1>1, <1>2, SetFalse
<1>4. process' \in [Names -> Proc]
  BY <1>2, <1>3 DEF close
<1>5. \A p \in Names : ProcOK(p)'
  BY <1>3 DEF IInv, DataOK, ProcOK, Same
<1>6. DataOK'
  BY <1>4, <1>5 DEF IInv, DataOK, close, history
<1>7. NumberInv'
  BY <1>3 DEF IInv, DataOK, NumberInv, Own, Same, close, history
<1> QED
  BY <1>3, <1>6, <1>7 DEF IInv, RevokedInv, Followed, close

\* Only what the shell sees changes.
LEMMA HideStep ==
    ASSUME IInv, requestClose PROVE IInv'
<1>1. UNCHANGED <<view, busy, pluginIds, selectedPlugin, currentReport, process, later,
                  request, asked, answer, disturbed>> /\ visible /\ hiding'
  BY DEF requestClose, history
<1>2. DataOK' /\ NumberInv' /\ RevokedInv'
  BY <1>1 DEF IInv, DataOK, ProcOK, NumberInv, Own, RevokedInv
<1>3. Followed'
  BY <1>1 DEF IInv, Followed, Own, Waiting, Running, Ending, Over, Expecting, Answered,
              ListShown, ReportShown, Refused
<1> QED
  BY <1>2, <1>3 DEF IInv

LEMMA CursorStep ==
    ASSUME IInv, moveCursor PROVE IInv'
<1>1. UNCHANGED <<visible, view, busy, pluginIds, currentReport, process, later, hiding,
                  request, asked, answer, disturbed>>
  BY DEF moveCursor, history
<1>2. /\ selectedPlugin' \in Nat /\ (pluginIds = 0 => selectedPlugin' = 0)
      /\ pluginIds > 0 => selectedPlugin' < pluginIds
  BY PanelAssumption DEF IInv, DataOK, moveCursor, clamp
<1>3. DataOK' /\ NumberInv' /\ RevokedInv'
  BY <1>1, <1>2 DEF IInv, DataOK, ProcOK, NumberInv, Own, RevokedInv
<1>4. Followed'
  BY <1>1 DEF IInv, Followed, Own, Waiting, Running, Ending, Over, Expecting, Answered,
              ListShown, ReportShown, Refused
<1> QED
  BY <1>3, <1>4 DEF IInv

LEMMA CallLaterStep ==
    ASSUME IInv, CallLater PROVE IInv'
<1> PICK n \in later :
        /\ later' = later \ {n}
        /\ IF busy THEN showError ELSE UNCHANGED panelVars
        /\ Noticed(n)
        /\ UNCHANGED <<process, hiding, request, asked, answer>>
  BY DEF CallLater
<1>1. /\ UNCHANGED <<visible, pluginIds, selectedPlugin, currentReport, process, hiding,
                     request, asked, answer>>
      /\ busy => view' = "error" /\ busy' = FALSE
      /\ ~busy => view' = view /\ busy' = busy
      /\ ~disturbed' => ~disturbed /\ n = request
  BY DEF showError, panelVars, Noticed
<1>2. DataOK' /\ NumberInv' /\ RevokedInv'
  BY <1>1 DEF IInv, DataOK, ProcOK, NumberInv, Own, RevokedInv
<1>3. ASSUME visible', request' > 0, ~disturbed'
      PROVE  (Waiting(process[Own]) \/ Running(process[Own]) \/ Ending(process[Own])
                 \/ Over(process[Own]))'
  <2> DEFINE s == process[Own]
  <2>1. process'[Own'] = s /\ request \in later /\ request' \notin later'
    BY <1>1, <1>3 DEF Own
  <2>2. Waiting(s) \/ Running(s) \/ Ending(s) \/ Over(s)
    BY <1>1, <1>3 DEF IInv, Followed
  <2> HIDE DEF s
  <2>3. CASE Ending(s)
    <3>1. Ending(process[Own])'
      BY <1>1, <2>1, <2>3 DEF Ending, Expecting, Answered, AnswerOf, ListShown, ReportShown, Refused
    <3> QED
      BY <3>1
  <2>4. CASE Over(s)
    <3>1. Over(process[Own])'
      BY <1>1, <2>1, <2>4 DEF Over, Answered, ListShown, ReportShown, Refused
    <3> QED
      BY <3>1
  <2> QED
    BY <2>1, <2>2, <2>3, <2>4 DEF Waiting, Running
<1> QED
  BY <1>2, <1>3 DEF IInv, Followed

LEMMA EndsStep ==
    ASSUME IInv, NEW p \in Names, ProcessEnds(p) PROVE IInv'
<1> DEFINE s == process[p]
           t == process'[p]
<1>1. PICK out \in {Garbage} \union (IF p = "list" THEN 0 .. Plugins ELSE {process[p].plugin}),
           ok \in BOOLEAN :
          /\ ok => out # Garbage
          /\ process' = [process EXCEPT ![p].phase = "ended", ![p].out = out,
                                        ![p].ok = ok, ![p].signals = Signals]
          /\ answer' = IF process[p].for # request THEN answer
                       ELSE IF ok THEN "ok" ELSE IF out = Garbage THEN "failed" ELSE "unclean"
  BY DEF ProcessEnds
<1>2. /\ process \in [Names -> Proc] /\ s \in Proc /\ s.phase = "running"
      /\ UNCHANGED <<visible, view, busy, pluginIds, selectedPlugin, currentReport, later,
                     hiding, request, asked, disturbed>>
  BY DEF IInv, DataOK, ProcessEnds, panelVars
<1>3. out \in Int /\ s.plugin \in 0 .. Plugins
  BY <1>2, PanelAssumption DEF Proc
<1>4. t = [s EXCEPT !.phase = "ended", !.out = out, !.ok = ok, !.signals = Signals]
  BY <1>1, <1>2
<1>5. /\ t \in Proc /\ t.phase = "ended" /\ t.for = s.for /\ t.plugin = s.plugin
      /\ t.again = s.again /\ t.command = s.command
      /\ t.out = out /\ t.ok = ok /\ t.signals = Signals
  <2> HIDE DEF s, t
  <2>1. t = [phase |-> "ended", again |-> s.again, command |-> s.command, for |-> s.for,
             plugin |-> s.plugin, out |-> out, ok |-> ok, signals |-> Signals]
    BY <1>2, <1>4 DEF Proc
  <2>2. s.again \in Nat /\ s.command \in 0 .. Plugins /\ s.for \in Nat
    BY <1>2 DEF Proc
  <2>3. t \in Proc
    BY <1>3, <2>1, <2>2, Zenon DEF Proc
  <2> QED
    BY <2>1, <2>3, Zenon
<1>6. process' \in [Names -> Proc] /\ \A q \in Names \ {p} : process'[q] = process[q]
  <2>1. \A q \in Names \ {p} : process'[q] = process[q] /\ process'[q] \in Proc
    BY <1>1, <1>2
  <2>2. process' = [q \in Names |-> process'[q]]
    BY <1>1, <1>2
  <2> QED
    BY <1>5, <2>1, <2>2
<1>7. ProcOK(p)'
  BY <1>1, <1>3, <1>5 DEF ProcOK
<1> HIDE DEF s, t
<1>8. \A q \in Names : ProcOK(q)'
  BY <1>6, <1>7 DEF IInv, DataOK, ProcOK
<1>9. answer' \in {"none", "ok", "failed", "unclean"}
  BY <1>1 DEF IInv, DataOK
<1>10. DataOK'
  BY <1>2, <1>6, <1>8, <1>9 DEF IInv, DataOK
<1>11. \A q \in Names : process'[q].for = process[q].for /\ process'[q].again = process[q].again
  BY <1>5, <1>6 DEF s, t
<1>12. NumberInv' /\ RevokedInv'
  BY <1>2, <1>11 DEF IInv, NumberInv, RevokedInv, Own
<1>13. ASSUME visible', request' > 0, ~disturbed'
       PROVE  (Waiting(process[Own]) \/ Running(process[Own]) \/ Ending(process[Own])
                 \/ Over(process[Own]))'
  <2> DEFINE o == process[Own]
  <2>1. Waiting(o) \/ Running(o) \/ Ending(o) \/ Over(o)
    BY <1>2, <1>13 DEF IInv, Followed
  <2>2. CASE p # Own
    <3>1. process[p].for # request /\ process'[Own'] = o /\ answer' = answer
      BY <1>1, <1>2, <1>6, <1>13, <2>2 DEF IInv, NumberInv, Own
    <3> HIDE DEF o
    <3> QED
      BY <1>2, <2>1, <3>1 DEF Waiting, Running, Ending, Over, Expecting, Answered, ListShown,
                              ReportShown, Refused
  <2>3. CASE p = Own
    <3>1. o = s /\ process'[Own'] = t
      BY <1>2, <2>3 DEF s, t, Own
    <3>2. s.for # request => answer' = answer
      BY <1>1 DEF s
    <3> HIDE DEF o
    <3>3. CASE Running(s)
      <4>1. answer' = AnswerOf(t)
        BY <1>1, <1>5, <3>3 DEF AnswerOf, Running, s
      <4>2. Ending(process[Own])'
        BY <1>2, <1>5, <3>1, <3>3, <4>1 DEF Ending, Running, Expecting, AnswerOf
      <4> QED
        BY <4>2
    <3>4. CASE Waiting(s)
      <4>1. Waiting(process[Own])'
        BY <1>2, <1>5, <3>1, <3>2, <3>4 DEF Waiting, Expecting
      <4> QED
        BY <4>1
    <3>5. CASE Over(s)
      <4>1. Over(process[Own])'
        BY <1>2, <1>5, <3>1, <3>2, <3>5 DEF Over, Answered, ListShown, ReportShown, Refused
      <4> QED
        BY <4>1
    <3>6. ~Ending(s)
      BY <1>2 DEF Ending
    <3> QED
      BY <2>1, <3>1, <3>3, <3>4, <3>5, <3>6
  <2> QED
    BY <2>2, <2>3
<1> QED
  BY <1>10, <1>12, <1>13 DEF IInv, Followed

\* What a handled signal leaves of the invariant, whatever its handler shows.
LEMMA HandledFrame ==
    ASSUME IInv, NEW p \in Names, NEW g \in process[p].signals, Handled(p, g),
           UNCHANGED <<visible, hiding, request, asked>>
    PROVE  process' \in [Names -> Proc] /\ (\A q \in Names : ProcOK(q)') /\ NumberInv' /\ RevokedInv'
<1>1. DataOK
  BY DEF IInv
<1> DEFINE s == process[p]
           t == process'[p]
<1>2. /\ process' \in [Names -> Proc]
      /\ \A q \in Names \ {p} : process'[q] = process[q]
      /\ \/ /\ t.phase = s.phase /\ t.for = s.for /\ t.plugin = s.plugin
            /\ t.out = s.out /\ t.ok = s.ok /\ t.again = s.again /\ t.command = s.command
            /\ t.signals = s.signals \ {g} /\ t.signals # {}
         \/ s.signals = {g} /\ s.again > 0 /\ Fresh(t, s.again, s.command)
         \/ s.signals = {g} /\ s.again = 0 /\ t = Idle
  BY <1>1, HandledStep
<1>3. s \in Proc /\ ProcOK(p) /\ s.for \in Nat /\ s.again \in Nat
  BY <1>1 DEF DataOK, Proc
<1>4. ProcOK(p)'
  BY <1>2, <1>3, IdleProc DEF ProcOK, Fresh
<1>5. \A q \in Names : ProcOK(q)'
  BY <1>1, <1>2, <1>4 DEF DataOK, ProcOK
<1>6. /\ t.for \in {s.for, s.again, 0}
      /\ t.again \in {s.again, 0}
  BY <1>2, IdleProc DEF Fresh
<1> HIDE DEF s, t
<1>7. \A q \in Names : /\ process'[q].for \in {process[q].for, process[q].again, 0}
                       /\ process'[q].again \in {process[q].again, 0}
  BY <1>2, <1>6 DEF s, t
<1>8. NumberInv' /\ RevokedInv'
  BY <1>1, <1>7 DEF IInv, DataOK, NumberInv, RevokedInv, Own
<1> QED
  BY <1>2, <1>5, <1>8

\* A handler that shows nothing: the latest request is where it was, or has
\* started, or is over.
LEMMA QuietSignal ==
    ASSUME IInv, NEW p \in Names, NEW g \in process[p].signals, Handled(p, g), g # "stdout",
           UNCHANGED panelVars, UNCHANGED <<hiding, history>>,
           \/ later' = later
           \/ g = "exited" /\ ~process[p].ok /\ later' = later \union {process[p].for}
    PROVE  IInv'
<1> DEFINE s == process[p]
           t == process'[p]
<1>1. DataOK /\ UNCHANGED <<visible, view, busy, pluginIds, selectedPlugin, currentReport, hiding,
                            request, asked, answer, disturbed>>
  BY DEF IInv, panelVars, history
<1>2. process' \in [Names -> Proc] /\ (\A q \in Names : ProcOK(q)') /\ NumberInv' /\ RevokedInv'
  BY <1>1, HandledFrame
<1>3. s \in Proc /\ s.for \in Nat /\ s.for <= request
  BY <1>1 DEF IInv, DataOK, NumberInv, Proc
<1>4. DataOK'
  <2>1. s.for \in 0 .. request /\ later \subseteq 0 .. request
    BY <1>1, <1>3 DEF DataOK
  <2>2. later' \subseteq 0 .. request
    BY <2>1
  <2> QED
    BY <1>1, <1>2, <2>2 DEF DataOK
<1>5. /\ \A q \in Names \ {p} : process'[q] = process[q]
      /\ \/ /\ t.phase = s.phase /\ t.for = s.for /\ t.plugin = s.plugin
            /\ t.out = s.out /\ t.ok = s.ok /\ t.again = s.again /\ t.command = s.command
            /\ t.signals = s.signals \ {g} /\ t.signals # {}
         \/ s.signals = {g} /\ s.again > 0 /\ Fresh(t, s.again, s.command)
         \/ s.signals = {g} /\ s.again = 0 /\ t = Idle
  BY <1>1, HandledStep
<1>6. s.phase = "ended"
  BY <1>1 DEF DataOK, ProcOK
<1> HIDE DEF s, t
<1>7. ASSUME visible', request' > 0, ~disturbed'
      PROVE  (Waiting(process[Own]) \/ Running(process[Own]) \/ Ending(process[Own])
                 \/ Over(process[Own]))'
  <2> DEFINE o == process[Own]
  <2>1. Waiting(o) \/ Running(o) \/ Ending(o) \/ Over(o)
    BY <1>1, <1>7 DEF IInv, Followed
  <2>2. CASE p # Own
    <3>1. s.for # request /\ process'[Own'] = o
      BY <1>1, <1>5, <1>7, <2>2 DEF IInv, NumberInv, Own, s
    <3>2. request' \in later' <=> request \in later
      BY <1>1, <3>1 DEF s
    <3> HIDE DEF o
    <3> QED
      BY <1>1, <2>1, <3>1, <3>2 DEF Waiting, Running, Ending, Over, Expecting, Answered,
                                    ListShown, ReportShown, Refused
  <2>3. CASE p = Own
    <3>1. o = s /\ process'[Own'] = t /\ request > 0
      BY <1>1, <1>7, <2>3 DEF s, t, Own
    <3>2. /\ s.for # request => (request' \in later' <=> request \in later)
          /\ request' \in later' => request \in later \/ (g = "exited" /\ ~s.ok)
          /\ g \in s.signals
      BY <1>1 DEF s
    <3> HIDE DEF o
    <3>3. CASE Waiting(s)
      <4>1. (Waiting(process[Own]) \/ Running(process[Own]))'
        BY <1>1, <1>5, <1>6, <3>1, <3>2, <3>3 DEF Waiting, Running, Expecting, Fresh
      <4> QED
        BY <4>1
    <3>4. CASE Ending(s)
      <4>1. CASE t.signals # {} /\ t.signals = s.signals \ {g}
        <5>1. Ending(process[Own])'
          BY <1>1, <1>5, <1>6, <3>1, <3>2, <3>4, <4>1, IdleProc
             DEF Ending, Expecting, Answered, AnswerOf, ListShown, ReportShown, Refused, Fresh
        <5> QED
          BY <5>1
      <4>2. CASE s.signals = {g} /\ t = Idle
        <5>1. "stdout" \notin s.signals
          BY <4>2
        <5>2. Over(process[Own])'
          BY <1>1, <3>1, <3>2, <3>4, <4>2, <5>1, IdleProc
             DEF Ending, Over, Answered, AnswerOf, ListShown, ReportShown, Refused
        <5> QED
          BY <5>2
      <4> QED
        BY <1>5, <3>4, <4>1, <4>2 DEF Ending
    <3>5. CASE Over(s)
      <4>1. t.for # request /\ t.again # request
        BY <1>5, <3>1, <3>5, IdleProc DEF Over, Fresh
      <4>2. Over(process[Own])'
        BY <1>1, <3>1, <3>2, <3>5, <4>1 DEF Over, Answered, ListShown, ReportShown, Refused
      <4> QED
        BY <4>2
    <3>6. ~Running(s)
      BY <1>6 DEF Running
    <3> QED
      BY <2>1, <3>1, <3>3, <3>4, <3>5, <3>6
  <2> QED
    BY <2>2, <2>3
<1> QED
  BY <1>2, <1>4, <1>7 DEF IInv, Followed

LEMMA StderrStep ==
    ASSUME IInv, NEW p \in Names, StderrFinished(p) PROVE IInv'
  BY QuietSignal DEF StderrFinished

LEMMA ExitedStep ==
    ASSUME IInv, NEW p \in Names, Exited(p) PROVE IInv'
  BY QuietSignal DEF Exited

\* What looking at an output shows: nothing, an error, a list or a report.
LEMMA AcceptShows ==
    ASSUME IInv, NEW p \in Names, "stdout" \in process[p].signals,
           IF accepting(p) THEN accept(p, process[p].out) ELSE UNCHANGED panelVars
    PROVE  /\ visible' = visible
           /\ view' \in {"plugins", "report", "error"}
           /\ pluginIds' \in 0 .. Plugins /\ currentReport' \in 0 .. Plugins
           /\ selectedPlugin' \in Nat /\ (pluginIds' = 0 => selectedPlugin' = 0)
           /\ pluginIds' > 0 => selectedPlugin' < pluginIds'
           /\ ~accepting(p) => UNCHANGED panelVars
           /\ accepting(p) =>
                 /\ ~busy'
                 /\ process[p].out = Garbage => view' = "error"
                 /\ p = "list" /\ process[p].out # Garbage => view' = view
                 /\ p = "scan" /\ process[p].out # Garbage =>
                       \/ ReportSchema # PanelSchema /\ view' = "error"
                       \/ view' = "report" /\ currentReport' = process[p].plugin
<1> DEFINE s == process[p]
<1>1. /\ s \in Proc /\ s.plugin \in 0 .. Plugins
      /\ s.out = Garbage \/ s.out \in 0 .. Plugins
      /\ p = "scan" => s.out \in {Garbage, s.plugin}
  BY DEF IInv, DataOK, ProcOK, Proc
<1>2. /\ view \in {"plugins", "report", "error"}
      /\ pluginIds \in 0 .. Plugins /\ currentReport \in 0 .. Plugins
      /\ selectedPlugin \in Nat /\ (pluginIds = 0 => selectedPlugin = 0)
      /\ pluginIds > 0 => selectedPlugin < pluginIds
  BY DEF IInv, DataOK
<1>3. CASE ~accepting(p)
  BY <1>2, <1>3 DEF panelVars
<1>4. CASE accepting(p) /\ p = "list"
  <2>1. acceptPluginList(s.out)
    BY <1>4 DEF accept
  <2> HIDE DEF s
  <2>2. CASE s.out = Garbage
    BY <1>2, <1>4, <2>1, <2>2 DEF acceptPluginList, showError, s
  <2>3. CASE s.out # Garbage
    <3>1. /\ pluginIds' = s.out /\ busy' = FALSE
          /\ selectedPlugin' = IF selectedPlugin < s.out THEN selectedPlugin
                               ELSE IF s.out = 0 THEN 0 ELSE s.out - 1
          /\ UNCHANGED <<visible, view, currentReport>>
      BY <2>1, <2>3 DEF acceptPluginList
    <3>2. s.out \in 0 .. Plugins
      BY <1>1, <2>3
    <3>3. /\ selectedPlugin' \in Nat /\ (pluginIds' = 0 => selectedPlugin' = 0)
          /\ pluginIds' > 0 => selectedPlugin' < pluginIds'
      BY <1>2, <3>1, <3>2, PanelAssumption
    <3> QED
      BY <1>2, <1>4, <2>3, <3>1, <3>2, <3>3 DEF s
  <2> QED
    BY <2>2, <2>3
<1>5. CASE accepting(p) /\ p = "scan"
  <2>1. acceptReport(s.out)
    BY <1>5 DEF accept
  <2> HIDE DEF s
  <2> QED
    BY <1>1, <1>2, <1>5, <2>1 DEF acceptReport, showError, s
<1> QED
  BY <1>3, <1>4, <1>5

\* The answer of the latest request is looked at once: while it is expected, or
\* too late, when its failure is already on show.
LEMMA StdoutStep ==
    ASSUME IInv, NEW p \in Names, StdoutFinished(p) PROVE IInv'
<1> DEFINE s == process[p]
           t == process'[p]
<1>1. /\ DataOK /\ "stdout" \in s.signals /\ Handled(p, "stdout")
      /\ UNCHANGED <<later, hiding, request, asked, answer>>
      /\ ~disturbed' => ~disturbed /\ s.for = request
      /\ IF accepting(p) THEN accept(p, process[p].out) ELSE UNCHANGED panelVars
  BY DEF IInv, StdoutFinished, Noticed
<1>2. /\ visible' = visible
      /\ view' \in {"plugins", "report", "error"}
      /\ pluginIds' \in 0 .. Plugins /\ currentReport' \in 0 .. Plugins
      /\ selectedPlugin' \in Nat /\ (pluginIds' = 0 => selectedPlugin' = 0)
      /\ pluginIds' > 0 => selectedPlugin' < pluginIds'
      /\ ~accepting(p) => UNCHANGED panelVars
      /\ accepting(p) =>
            /\ ~busy'
            /\ s.out = Garbage => view' = "error"
            /\ p = "list" /\ s.out # Garbage => view' = view
            /\ p = "scan" /\ s.out # Garbage =>
                  \/ ReportSchema # PanelSchema /\ view' = "error"
                  \/ view' = "report" /\ currentReport' = s.plugin
  BY <1>1, AcceptShows
<1>3. process' \in [Names -> Proc] /\ (\A q \in Names : ProcOK(q)') /\ NumberInv' /\ RevokedInv'
  BY <1>1, <1>2, HandledFrame
<1>4. DataOK'
  BY <1>1, <1>2, <1>3 DEF DataOK
<1>5. /\ \/ /\ t.phase = s.phase /\ t.for = s.for /\ t.plugin = s.plugin
            /\ t.out = s.out /\ t.ok = s.ok /\ t.again = s.again /\ t.command = s.command
            /\ t.signals = s.signals \ {"stdout"} /\ t.signals # {}
         \/ s.signals = {"stdout"} /\ s.again > 0 /\ Fresh(t, s.again, s.command)
         \/ s.signals = {"stdout"} /\ s.again = 0 /\ t = Idle
  BY <1>1, HandledStep
<1>6. s.phase = "ended" /\ (s.ok => s.out # Garbage)
  BY <1>1 DEF DataOK, ProcOK
<1>7. accepting(p) <=> "exited" \in s.signals \/ busy
  BY <1>6 DEF accepting, running
<1> HIDE DEF s, t
<1>8. ASSUME visible', request' > 0, ~disturbed'
      PROVE  (Ending(process[Own]) \/ Over(process[Own]))'
  <2>1. p = Own /\ s.for = request /\ request > 0 /\ request = request'
    BY <1>1, <1>8 DEF IInv, NumberInv, Own, s
  <2>2. Ending(s)
    <3>1. Waiting(s) \/ Running(s) \/ Ending(s) \/ Over(s)
      BY <1>1, <1>2, <1>8, <2>1 DEF IInv, Followed, s
    <3> QED
      BY <1>6, <2>1, <3>1 DEF Waiting, Running, Over
  <2>3. process'[Own'] = t
    BY <1>1, <2>1 DEF t, Own
  <2>4. ~busy' /\ Answered'
    <3>1. CASE Expecting
      <4>1. accepting(p)
        BY <1>7, <3>1 DEF Expecting
      <4>2. CASE p = "list"
        <5>1. asked = None
          BY <2>1, <4>2 DEF Own
        <5> QED
          BY <1>1, <1>2, <1>6, <2>2, <3>1, <4>1, <4>2, <5>1
             DEF Answered, ListShown, Expecting, Ending, AnswerOf
      <4>3. CASE p = "scan"
        <5>1. asked # None
          BY <2>1, <4>3 DEF Own
        <5> QED
          BY <1>1, <1>2, <1>6, <2>2, <3>1, <4>1, <4>3, <5>1
             DEF Answered, ReportShown, Refused, Expecting, Ending, AnswerOf
      <4> QED
        BY <4>2, <4>3
    <3>2. CASE ~busy /\ view = "error" /\ ~s.ok /\ "exited" \notin s.signals
      <4>1. UNCHANGED panelVars
        BY <1>2, <1>7, <3>2
      <4> QED
        BY <1>1, <2>2, <3>2, <4>1 DEF panelVars, Answered, Ending, AnswerOf
    <3> QED
      BY <1>1, <2>2, <3>1, <3>2 DEF Ending
  <2>5. CASE t.signals # {} /\ t.signals = s.signals \ {"stdout"}
    <3>1. /\ t.phase = "ended" /\ t.for = request /\ t.again = 0 /\ t.plugin = asked
          /\ AnswerOf(t) = AnswerOf(s) /\ t.ok = s.ok
      BY <1>5, <1>6, <2>2, <2>5, IdleProc DEF Ending, AnswerOf, Fresh
    <3>2. Ending(process[Own])'
      BY <1>1, <2>1, <2>2, <2>3, <2>4, <2>5, <3>1 DEF Ending, AnswerOf
    <3> QED
      BY <3>2
  <2>6. CASE t = Idle
    <3>1. answer # "none" /\ (s.ok \/ answer # "ok")
      BY <2>2 DEF Ending, AnswerOf
    <3>2. Over(process[Own])'
      BY <1>1, <2>1, <2>2, <2>3, <2>4, <2>6, <3>1, IdleProc DEF Over, Ending
    <3> QED
      BY <3>2
  <2> QED
    BY <1>5, <2>2, <2>5, <2>6 DEF Ending
<1> QED
  BY <1>3, <1>4, <1>8 DEF IInv, Followed

-----------------------------------------------------------------------------
(* The theorems.                                                           *)

LEMMA NextIInv == IInv /\ [Next]_vars => IInv'
<1> SUFFICES ASSUME IInv, [Next]_vars PROVE IInv'
  OBVIOUS
<1>1. CASE open
  BY <1>1, RefreshStep DEF open
<1>2. CASE close
  BY <1>2, CloseStep
<1>3. CASE requestClose
  BY <1>3, HideStep
<1>4. CASE activateCursor
  <2>1. CASE view = "plugins" /\ reviewSelected
    BY <1>4, <2>1, ReviewStep DEF activateCursor
  <2>2. CASE view = "error" /\ refreshPlugins /\ UNCHANGED <<visible, hiding>>
    BY <1>4, <2>2, RefreshStep DEF activateCursor
  <2> QED
    BY <1>4, <2>1, <2>2 DEF activateCursor
<1>5. CASE back
  <2>1. CASE view = "plugins" /\ requestClose
    BY <2>1, HideStep
  <2>2. CASE view # "plugins" /\ refreshPlugins /\ UNCHANGED <<visible, hiding>>
    BY <1>5, <2>2, RefreshStep DEF back
  <2> QED
    BY <1>5, <2>1, <2>2 DEF back
<1>6. CASE moveCursor
  BY <1>6, CursorStep
<1>7. CASE CallLater
  BY <1>7, CallLaterStep
<1>8. ASSUME NEW p \in Names, ProcessNext(p) PROVE IInv'
  BY <1>8, EndsStep, StdoutStep, StderrStep, ExitedStep DEF ProcessNext
<1>9. CASE UNCHANGED vars
  <2>1. UNCHANGED <<visible, view, busy, pluginIds, selectedPlugin, currentReport, process,
                    later, hiding, request, asked, answer, disturbed>>
    BY <1>9 DEF vars, panelVars, history
  <2>2. DataOK' /\ NumberInv' /\ RevokedInv'
    BY <2>1 DEF IInv, DataOK, ProcOK, NumberInv, Own, RevokedInv
  <2>3. Followed'
    BY <2>1 DEF IInv, Followed, Own, Waiting, Running, Ending, Over, Expecting, Answered,
                ListShown, ReportShown, Refused
  <2> QED
    BY <2>2, <2>3 DEF IInv
<1> QED
  BY <1>1, <1>2, <1>3, <1>4, <1>5, <1>6, <1>7, <1>8, <1>9 DEF Next

\* The invariant that follows the process of the latest request is inductive:
\* it holds in every state of the panel.
THEOREM Inductive == Spec => []IInv
<1> QED
  BY InitIInv, NextIInv, PTL DEF Spec

\* Every variable has its type; the cursor is on a listed plugin, or on row 0 of
\* an empty list, after every list, hover, move and refresh.
THEOREM TypeCorrect == Spec => []TypeOK
<1>1. IInv /\ FlagsOK => TypeOK
  BY PanelAssumption DEF IInv, DataOK, FlagsOK, TypeOK
<1>2. Init => FlagsOK
  BY DEF Init, FlagsOK
<1>3. FlagsOK /\ [Next]_vars => FlagsOK'
  <2> SUFFICES ASSUME FlagsOK, [Next]_vars PROVE FlagsOK'
    OBVIOUS
  <2>1. CASE open \/ close \/ requestClose \/ activateCursor \/ back \/ moveCursor
    BY <2>1 DEF FlagsOK, open, close, requestClose, activateCursor, back, moveCursor,
                refreshPlugins, brokerMissing, startList, reviewSelected
  <2>2. CASE CallLater
    BY <2>2 DEF FlagsOK, CallLater, showError, panelVars
  <2>3. ASSUME NEW p \in Names, ProcessNext(p) PROVE FlagsOK'
    BY <2>3 DEF FlagsOK, ProcessNext, ProcessEnds, StdoutFinished, StderrFinished, Exited,
                accept, acceptPluginList, acceptReport, showError, panelVars
  <2>4. CASE UNCHANGED vars
    BY <2>4 DEF FlagsOK, vars, panelVars
  <2> QED
    BY <2>1, <2>2, <2>3, <2>4 DEF Next
<1>4. Spec => []FlagsOK
  BY <1>2, <1>3, PTL DEF Spec
<1> QED
  BY <1>1, <1>4, Inductive, PTL

\* Whatever the order of the three signals and of the deferred failure, a settled
\* panel that heard nothing from older requests answers the latest one.
THEOREM AnswerTheorem == Spec => []AnswerIsOwn
<1>1. IInv => AnswerIsOwn
  <2> SUFFICES ASSUME IInv, Settled, ~disturbed PROVE ~busy /\ Answered
    BY DEF AnswerIsOwn, Answered
  <2>1. visible /\ request > 0 /\ process[Own] = Idle
    BY DEF Settled, Own
  <2>2. Waiting(Idle) \/ Running(Idle) \/ Ending(Idle) \/ Over(Idle)
    BY <2>1 DEF IInv, Followed
  <2> QED
    BY <2>2, IdleProc DEF Waiting, Running, Ending, Over
<1> QED
  BY <1>1, Inductive, PTL

\* A hidden panel starts no broker: close() revokes the start that still waits
\* for the process before it.
THEOREM HiddenTheorem == Spec => HiddenStartsNothing
<1>1. IInv /\ [Next]_vars =>
        [~visible /\ ~visible' /\ ~hiding =>
           \A p \in {"list", "scan"} :
              process'[p].phase = "running" => process[p].phase = "running"]_vars
  <2> SUFFICES ASSUME IInv, Next, ~visible, ~visible', ~hiding,
                      NEW p \in Names, process'[p].phase = "running"
               PROVE  process[p].phase = "running"
    OBVIOUS
  <2>1. DataOK /\ \A q \in Names : process[q] \in Proc /\ process[q].again = 0
    BY DEF IInv, DataOK, RevokedInv
  <2>2. ~open /\ ~close /\ ~requestClose /\ ~activateCursor /\ ~back /\ ~moveCursor
    BY DEF open, close, requestClose, activateCursor, back, moveCursor
  <2>3. CASE CallLater
    BY <2>3 DEF CallLater
  <2>4. ASSUME NEW q \in Names, NEW g \in process[q].signals, Handled(q, g)
        PROVE  process[p].phase = "running"
    <3>1. process[q].phase = "ended"
      BY <2>1 DEF DataOK, ProcOK
    <3> QED
      BY <2>1, <2>4, <3>1, HandledStep, IdleProc
  <2>5. ASSUME NEW q \in Names, ProcessEnds(q) PROVE process[p].phase = "running"
    <3>1. process[q].phase = "running" /\ (p # q => process'[p] = process[p])
      BY <2>1, <2>5 DEF ProcessEnds, DataOK
    <3> QED
      BY <3>1
  <2> QED
    BY <2>2, <2>3, <2>4, <2>5 DEF Next, ProcessNext, StdoutFinished, StderrFinished, Exited
<1> QED
  BY <1>1, Inductive, PTL DEF Spec, HiddenStartsNothing

=============================================================================
