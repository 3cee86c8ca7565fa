-------------------------------- MODULE Panel --------------------------------
(***************************************************************************)
(* Panel.qml: the Omarchy panel that lists the installed plugins, reviews  *)
(* one of them, and shows the report.  It runs two Process objects, one    *)
(* per broker command, whose three signals (stdout finished, stderr        *)
(* finished, exited) are handled in the order in which they arrive.        *)
(*                                                                         *)
(* Quickshell's Process and the shell that opens and hides the panel are   *)
(* external.  running = false sends SIGTERM: the process and its signals   *)
(* end later.  running = true on a process that is not over starts it      *)
(* again when it is.  The order of the three signals is left open.         *)
(*                                                                         *)
(* request, asked, answer and disturbed are history: the panel does not    *)
(* number its requests.  The cursor inside a report is not modelled.       *)
(***************************************************************************)
EXTENDS Integers

CONSTANTS
    Plugins,        \* number of plugins a list can hold; IDs are 1 .. Plugins
    ReportSchema,   \* report.SchemaVersion, what the broker's report carries
    PanelSchema,    \* what acceptReport insists on
    MaxRequests     \* model bound on the requests of one behaviour

ASSUME PanelAssumption == Plugins \in Nat \ {0} /\ MaxRequests \in Nat

VARIABLES
    visible, view, busy,
    pluginIds,      \* pluginIds.length
    selectedPlugin,
    currentReport,  \* the plugin whose report is held, or None
    process,        \* "list" and "scan": see Process below
    later,          \* failures handed to Qt.callLater: {<<request>>}
    hiding,         \* shell.hide was called and close() has not run yet
    request,        \* history: number of the latest request
    asked,          \* history: the plugin it is about, 0 for a list
    answer,         \* history: how the broker of that request ended
    disturbed       \* history: a signal of an older request arrived since

panelVars == <<visible, view, busy, pluginIds, selectedPlugin, currentReport>>
history   == <<request, asked, answer, disturbed>>
vars == <<panelVars, process, later, hiding, history>>

None    == 0
Garbage == -1       \* output JSON.parse or the shape checks refuse
Signals == {"stdout", "stderr", "exited"}

\* for and plugin are what a process was started for; again is the request it
\* starts again for, 0 if it does not; command is the plugin its command names.
Idle == [phase |-> "idle", again |-> 0, command |-> None, for |-> 0,
         plugin |-> None, out |-> Garbage, ok |-> FALSE, signals |-> {}]

Init ==
    /\ visible = FALSE /\ view = "plugins" /\ busy = FALSE
    /\ pluginIds = 0 /\ selectedPlugin = 0 /\ currentReport = None
    /\ process = [p \in {"list", "scan"} |-> Idle]
    /\ later = {} /\ hiding = FALSE
    /\ request = 0 /\ asked = None /\ answer = "none" /\ disturbed = FALSE

-----------------------------------------------------------------------------
(* Quickshell's Process.                                                   *)

\* Process.running as the handlers read it.
running(p) == "exited" \in process[p].signals \/ process[p].phase = "running"

setRunningFalse(s) == [s EXCEPT !.again = 0]

setRunningTrue(s, n, plugin) ==
    IF s.phase = "idle"
    THEN [Idle EXCEPT !.phase = "running", !.for = n, !.plugin = plugin]
    ELSE [s EXCEPT !.again = n, !.command = plugin]

\* The broker ends: status 0 only with its whole output (Broker), any output
\* with any other status, whether it ended by itself or by SIGTERM.
ProcessEnds(p) ==
    /\ process[p].phase = "running"
    /\ \E out \in {Garbage} \union (IF p = "list" THEN 0 .. Plugins ELSE {process[p].plugin}),
          ok \in BOOLEAN :
          /\ ok => out # Garbage
          /\ process' = [process EXCEPT ![p].phase = "ended", ![p].out = out,
                                        ![p].ok = ok, ![p].signals = Signals]
          /\ answer' = IF process[p].for # request THEN answer
                       ELSE IF ok THEN "ok" ELSE IF out = Garbage THEN "failed" ELSE "unclean"
    /\ UNCHANGED <<panelVars, later, hiding, request, asked, disturbed>>

\* Signal s of process p has been handled; after the last one the object is
\* free, and starts again if it was told to.
Handled(p, s) ==
    LET left == [process[p] EXCEPT !.signals = @ \ {s}] IN
    process' = [process EXCEPT ![p] =
        IF left.signals # {} THEN left
        ELSE IF left.again > 0 THEN setRunningTrue(Idle, left.again, left.command)
        ELSE Idle]

Noticed(n) == disturbed' = (disturbed \/ n # request)

-----------------------------------------------------------------------------
(* The panel's functions.                                                  *)

\* Mutant: busy stays set when the list is refused.
showErrorBusy ==
    /\ view' = "error"
    /\ UNCHANGED <<visible, busy, pluginIds, selectedPlugin, currentReport>>

showError ==
    /\ view' = "error" /\ busy' = FALSE
    /\ UNCHANGED <<visible, pluginIds, selectedPlugin, currentReport>>

\* The host has set no manifest, or one without a directory: an error at once.
\* What runs is not stopped; its signals are those of an older request.
brokerMissing ==
    /\ request < MaxRequests
    /\ request' = request + 1 /\ asked' = None /\ answer' = "failed" /\ disturbed' = FALSE
    /\ view' = "error" /\ busy' = FALSE
    /\ UNCHANGED <<pluginIds, selectedPlugin, currentReport, process, later>>

startList ==
    /\ request < MaxRequests
    /\ request' = request + 1 /\ asked' = None /\ answer' = "none" /\ disturbed' = FALSE
    /\ process' = [list |-> setRunningTrue(setRunningFalse(process["list"]), request', None),
                   scan |-> setRunningFalse(process["scan"])]
    /\ pluginIds' = 0 /\ selectedPlugin' = 0 /\ currentReport' = None
    /\ view' = "plugins" /\ busy' = TRUE
    /\ UNCHANGED later

\* manifest, and so brokerPath, is the host's to set and may change between calls.
refreshPlugins == brokerMissing \/ startList

open ==
    /\ visible' = TRUE
    /\ refreshPlugins
    /\ UNCHANGED hiding

\* Mutant: the list process is not stopped.
closeScanOnly ==
    /\ visible \/ hiding
    /\ visible' = FALSE /\ busy' = FALSE /\ hiding' = FALSE
    /\ process' = [process EXCEPT !["scan"] = setRunningFalse(@)]
    /\ UNCHANGED <<view, pluginIds, selectedPlugin, currentReport, later, history>>

close ==
    /\ visible \/ hiding
    /\ visible' = FALSE /\ busy' = FALSE /\ hiding' = FALSE
    /\ process' = [p \in {"list", "scan"} |-> setRunningFalse(process[p])]
    /\ UNCHANGED <<view, pluginIds, selectedPlugin, currentReport, later, history>>

\* requestClose, or the window manager closing the window: the shell is told to
\* hide the panel and calls close() in its own time.
requestClose ==
    /\ visible
    /\ visible' \in BOOLEAN /\ hiding' = TRUE
    /\ UNCHANGED <<view, busy, pluginIds, selectedPlugin, currentReport, process,
                   later, history>>

reviewSelected ==
    /\ ~busy
    /\ selectedPlugin < pluginIds
    /\ request < MaxRequests
    /\ request' = request + 1 /\ asked' = selectedPlugin + 1 /\ answer' = "none" /\ disturbed' = FALSE
    /\ currentReport' = None
    /\ busy' = TRUE
    /\ process' = [process EXCEPT !["scan"] = setRunningTrue(@, request', asked')]
    /\ UNCHANGED <<visible, view, pluginIds, selectedPlugin, later, hiding>>

activateCursor ==
    /\ visible
    /\ \/ view = "plugins" /\ reviewSelected
       \/ view = "error" /\ refreshPlugins /\ UNCHANGED <<visible, hiding>>

back ==
    /\ visible /\ ~busy
    /\ \/ view = "plugins" /\ requestClose
       \/ view # "plugins" /\ refreshPlugins /\ UNCHANGED <<visible, hiding>>

\* Mutant: the cursor may stand one row below the list.
clampOneMore(i) == IF i < 0 THEN 0 ELSE IF i > pluginIds THEN pluginIds ELSE i

clamp(i) == IF i < 0 \/ pluginIds = 0 THEN 0 ELSE IF i >= pluginIds THEN pluginIds - 1 ELSE i

\* moveCursor(0, dy) in the list; hovering a row selects it even while busy.
moveCursor ==
    /\ visible /\ view = "plugins"
    /\ \/ ~busy /\ \E dy \in {-1, 1} : selectedPlugin' = clamp(selectedPlugin + dy)
       \/ \E row \in 0 .. pluginIds - 1 : selectedPlugin' = row
    /\ UNCHANGED <<visible, view, busy, pluginIds, currentReport, process, later,
                   hiding, history>>

-----------------------------------------------------------------------------
(* Signal handlers.                                                        *)

acceptPluginList(text) ==
    IF text = Garbage THEN showError
    ELSE /\ pluginIds' = text /\ busy' = FALSE
         /\ selectedPlugin' = IF selectedPlugin < text THEN selectedPlugin
                              ELSE IF text = 0 THEN 0 ELSE text - 1
         /\ UNCHANGED <<visible, view, currentReport>>

acceptReport(text) ==
    IF text = Garbage \/ ReportSchema # PanelSchema THEN showError
    ELSE /\ currentReport' = text /\ view' = "report" /\ busy' = FALSE
         /\ UNCHANGED <<visible, pluginIds, selectedPlugin>>

accept(p, text) == IF p = "list" THEN acceptPluginList(text) ELSE acceptReport(text)

\* Mutant: an answer is only expected while the process runs.
acceptingRunning(p) == running(p)

accepting(p) == running(p) \/ busy

StdoutFinished(p) ==
    /\ "stdout" \in process[p].signals
    /\ IF accepting(p) THEN accept(p, process[p].out) ELSE UNCHANGED panelVars
    /\ Handled(p, "stdout") /\ Noticed(process[p].for)
    /\ UNCHANGED <<later, hiding, request, asked, answer>>

\* Only diagnosticText changes.
StderrFinished(p) ==
    /\ "stderr" \in process[p].signals
    /\ Handled(p, "stderr")
    /\ UNCHANGED <<panelVars, later, hiding, history>>

\* processFailure: looked at in a later turn of the event loop.
Exited(p) ==
    /\ "exited" \in process[p].signals
    /\ later' = IF process[p].ok THEN later ELSE later \union {process[p].for}
    /\ Handled(p, "exited")
    /\ UNCHANGED <<panelVars, hiding, history>>

CallLater ==
    \E n \in later :
        /\ later' = later \ {n}
        /\ IF busy THEN showError ELSE UNCHANGED panelVars
        /\ Noticed(n)
        /\ UNCHANGED <<process, hiding, request, asked, answer>>

-----------------------------------------------------------------------------
ProcessNext(p) == ProcessEnds(p) \/ StdoutFinished(p) \/ StderrFinished(p) \/ Exited(p)

Next ==
    \/ open \/ close \/ requestClose \/ activateCursor \/ back \/ moveCursor
    \/ CallLater
    \/ \E p \in {"list", "scan"} : ProcessNext(p)

Spec == Init /\ [][Next]_vars

(***************************************************************************)
(* Fairness: a broker ends (Broker, BrokerEnds), its signals arrive, and   *)
(* the event loop turns.  Nobody has to touch the panel.                   *)
(***************************************************************************)
FairSpec == Spec /\ WF_vars(CallLater) /\ \A p \in {"list", "scan"} : WF_vars(ProcessNext(p))

-----------------------------------------------------------------------------
(* Properties.                                                             *)

\* The cursor is on a listed plugin, or on row 0 of an empty list.
TypeOK ==
    /\ visible \in BOOLEAN /\ busy \in BOOLEAN /\ hiding \in BOOLEAN
    /\ view \in {"plugins", "report", "error"}
    /\ pluginIds \in 0 .. Plugins /\ currentReport \in 0 .. Plugins
    /\ selectedPlugin \in 0 .. (IF pluginIds = 0 THEN 0 ELSE pluginIds - 1)
    /\ later \subseteq 0 .. MaxRequests

\* The panel is open and nothing of any request is outstanding.
Settled ==
    /\ visible /\ request > 0 /\ later = {}
    /\ \A p \in {"list", "scan"} : process[p] = Idle

ListShown   == view = "plugins" /\ asked = None
ReportShown == view = "report" /\ asked # None /\ currentReport = asked

\* Whatever the order of the three signals and of the deferred failure, a panel
\* that has heard nothing from older requests ends up answering the latest one:
\* a success with the list, or with the report of the plugin that was asked for,
\* a failure, or a report in a schema it does not accept, with an error; a broker
\* that failed after its whole output, when it could not tear its scope down, with
\* either (acceptReport, processFailure).
Refused == asked # None /\ ReportSchema # PanelSchema
AnswerIsOwn ==
    Settled /\ ~disturbed =>
        /\ ~busy
        /\ answer = "ok" => ListShown \/ ReportShown \/ (Refused /\ view = "error")
        /\ answer = "failed" => view = "error"
        /\ answer = "unclean" => ListShown \/ ReportShown \/ view = "error"

\* A failed request is never left looking like a running one, or like an idle
\* list: the signals may be handled in any order, but not all be ignored.
PanelSettles == busy ~> ~busy

\* Closing the panel revokes a start that still waits for the process before it
\* to end: a hidden panel starts no broker (close, refreshPlugins).
HiddenStartsNothing ==
    [][~visible /\ ~visible' /\ ~hiding =>
         \A p \in {"list", "scan"} :
            process'[p].phase = "running" => process[p].phase = "running"]_vars

\* What the documentation says of opening the panel: it lists the plugins.  Once
\* the list's own broker has succeeded and nothing is outstanding, the list is
\* what is shown, not an answer or a failure of a review stopped before.
OpeningLists == Settled /\ asked = None /\ answer = "ok" => ListShown

\* What the integration test says of a review: the report of a broker that
\* succeeded is shown.
ReportIsShown == Settled /\ ~disturbed /\ asked # None /\ answer = "ok" => ReportShown

=============================================================================
