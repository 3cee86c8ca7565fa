------------------------------- MODULE Scanner -------------------------------
(***************************************************************************)
(* The scanner command (cmd/plug-prejudice/main.go): scan, analyze, find   *)
(* the run-time references three times over, assemble the report, build    *)
(* its graph and summary, and write it if the accepting validator agrees.  *)
(*                                                                         *)
(* A plugin is what inventory.Scan retained of it (module Inventory).      *)
(* Between the graph and the summary an importer of external audit         *)
(* evidence may use the report package: no command does yet, and its calls *)
(* are marked external.                                                    *)
(***************************************************************************)
EXTENDS Report

CONSTANTS
    Plugins,    \* a sequence of plugins: path -> what Scan retained of it
    Audits,     \* a sequence of external audits: [inputs, operations, unknowns]
    Inputs,     \* the command lines and the worlds the scanner meets
    MaxCompared \* bound: comparisons an importer has in the report

\* A plugin is a function on paths.
ASSUME PluginsAssumption == \A i \in Inputs : DOMAIN Plugins[i.plugin] \subseteq Paths

VARIABLES
    input,      \* the member of Inputs this behaviour is about; never changes
    pc,         \* the step of run()
    exit,       \* its exit code
    analysis,   \* the analyze.Result
    refs, round, changed, ended,   \* runtimeReferencedPaths: see References
    r,          \* the report
    outcome     \* of WriteCanonical

loop == <<refs, round, changed, ended>>
vars == <<input, pc, exit, analysis, loop, r, outcome>>

f == Plugins[input.plugin]

\* Sources calls runtimeReferencedPaths without the inventory, Inventory with it.
withFiles == pc = "inventory"
seeds == seedsOf(f, withFiles, analysis.manifest)
marks == marksOf(f, withFiles)
References == INSTANCE References

NoReport == [status |-> "none"]

Init ==
    /\ input \in Inputs
    /\ pc = "flags" /\ exit = 0 /\ analysis = NoResult
    /\ refs = {} /\ round = {} /\ changed = FALSE /\ ended = TRUE
    /\ r = NoReport /\ outcome = "none"

\* Mutant: a report that was not written ends the scanner with success.
ReturnZero(code) == pc' = "done" /\ exit' = 0
Return(code) == pc' = "done" /\ exit' = code

ParseFlags ==
    /\ pc = "flags"
    /\ IF input.usage /\ input.sandboxed = input.limited
       THEN pc' = "scan" /\ UNCHANGED exit ELSE Return(2)
    /\ UNCHANGED <<input, analysis, loop, r, outcome>>

Scan ==
    /\ pc = "scan"
    /\ IF input.scans THEN pc' = "sources" /\ UNCHANGED exit ELSE Return(1)
    /\ UNCHANGED <<input, analysis, loop, r, outcome>>

-----------------------------------------------------------------------------
(* Sources and Inventory: each call of runtimeReferencedPaths is a loop of *)
(* its own.                                                                *)

\* res is analyzed so far; the references are computed again.
Enter(step, res, files) ==
    /\ pc' = step /\ analysis' = res
    /\ refs' = seedsOf(f, files, res.manifest)
    /\ round' = {} /\ changed' = TRUE /\ ended' = FALSE
    /\ UNCHANGED <<input, exit, r, outcome>>

AnalyzeSources ==
    /\ pc = "sources"
    /\ Enter("scopes", analyzeSources(f), FALSE)

Follow ==
    /\ References!NextRound \/ References!Visit \/ References!Leave
    /\ UNCHANGED <<input, pc, exit, analysis, r, outcome>>

ScopeSources ==
    /\ pc = "scopes" /\ ended
    /\ Enter("languages", annotateScopes(analysis, refs), FALSE)

ScopeLanguages ==
    /\ pc = "languages" /\ ended
    /\ Enter("inventory", nativeUnknowns(f, addLanguageCoverageLimitations(f, refs, analysis)), TRUE)

ScopeInventory ==
    /\ pc = "inventory" /\ ended
    /\ analysis' = annotateScopes(analysis, refs)
    /\ pc' = "assemble"
    /\ UNCHANGED <<input, exit, loop, r, outcome>>

-----------------------------------------------------------------------------
(* The report.                                                             *)

\* The limitations and errors inventory.Scan returns with what it retained.
scanLimitations ==
    LET coded == [limited |-> "max-file-bytes", brokenELF |-> "elf-parse-error"]
        paths == SelectSeq(ordered(DOMAIN f), LAMBDA p : f[p].read \in DOMAIN coded)
    IN  [i \in DOMAIN paths |-> limitation(coded[f[paths[i]].read], paths[i], "")]
scanErrors ==
    LET paths == SelectSeq(ordered(DOMAIN f), LAMBDA p : f[p].read = "failed")
    IN  [i \in DOMAIN paths |-> [code |-> "file-error", path |-> paths[i]]]

targetInput(root) == [id |-> TargetInput, type |-> "target", version |-> "1",
                      documented |-> FALSE, subject |-> {root}]

Assemble ==
    LET limitations == scanLimitations \o analysis.limitations
        files == AssignCoverageDispositions(f, limitations, scanErrors)
        coverage == coverageFromInventory(files)
        explained == analysis.unknowns # <<>> \/ scanErrors # <<>> \/ limitations # <<>>
        complete == /\ ~explained /\ coverage.excluded = 0
                    /\ coverage.level \in {"complete", "not-applicable"}
        root == InventoryRootDigest(files)
    IN  /\ pc = "assemble"
        /\ r' = [status |-> IF complete THEN "complete" ELSE "incomplete",
                 sandboxed |-> input.sandboxed, limited |-> input.limited, root |-> root,
                 manifest |-> analysis.manifest, inputs |-> <<targetInput(root)>>,
                 inventory |-> files, operations |-> analysis.operations,
                 resources |-> analysis.resources, findings |-> analysis.findings,
                 unknowns |-> analysis.unknowns, relationships |-> <<>>,
                 limitations |-> IF complete \/ explained THEN limitations
                                 ELSE <<limitation("analysis-coverage-incomplete", 0, "unknown")>>,
                 errors |-> scanErrors, review |-> NoReview]
        /\ pc' = "graph"
        /\ UNCHANGED <<input, exit, analysis, loop, outcome>>

BuildGraph ==
    /\ pc = "graph"
    /\ IF canBuildEvidenceGraph(r)
       THEN r' = BuildEvidenceGraph(r) /\ pc' = "summary" /\ UNCHANGED exit
       ELSE r' = referenced(r) /\ Return(1)
    /\ UNCHANGED <<input, analysis, loop, outcome>>

BuildSummary ==
    LET coverage == coverageFromInventory(r.inventory)
    IN  /\ pc = "summary"
        /\ IF canBuildReviewSummary(r, coverage)
           THEN r' = BuildReviewSummary(r, coverage) /\ pc' = "write" /\ UNCHANGED exit
           ELSE UNCHANGED r /\ Return(1)
        /\ UNCHANGED <<input, analysis, loop, outcome>>

\* The canonical report is validated and encoded before the first byte goes out.
WriteCanonical ==
    LET canonical == canonicalReport(r)
    IN  /\ pc = "write"
        /\ \/ ~Validate(canonical) /\ outcome' = "rejected" /\ Return(1)
           \/ Validate(canonical) /\ outcome' = "written" /\ Return(0)
           \/ Validate(canonical) /\ outcome' = "failed" /\ Return(1)
        /\ r' = canonical
        /\ UNCHANGED <<input, analysis, loop>>

-----------------------------------------------------------------------------
(* The importer.                                                           *)

audited == pc = "summary" /\ input.audit # 0
called == audited /\ UNCHANGED <<input, pc, exit, analysis, loop, outcome>>

\* The audit's records join the report: an observation has neither reference nor
\* input until the graph is built again.
Import ==
    /\ called /\ Len(r.inputs) = 1
    /\ LET audit == Audits[input.audit]
       IN  r' = [r EXCEPT !.inputs = audit.inputs \o @,
                          !.operations = @ \o audit.operations,
                          !.unknowns = @ \o audit.unknowns,
                          !.status = IF audit.unknowns = <<>> THEN @ ELSE "incomplete"]

\* A finding that says an observation has no counterpart on the other side.
ReportDifference ==
    /\ called
    /\ \A x \in Items(r, "finding") : ~reserved(x)
    /\ \E x \in Items(r, "operation") :
          r' = [r EXCEPT !.findings = Append(@,
                 [id |-> <<rank("finding"), rank("disagrees-with")>> \o x.id, ref |-> <<>>,
                  claim |-> "fact", severity |-> "informational", confidence |-> "high",
                  category |-> CoverageDifferenceCategory, scope |-> "unknown",
                  evidence |-> <<x.evidence>>, related |-> <<>>, size |-> 0,
                  provenance |-> [rule |-> CoverageComparisonRule,
                                  analyzer |-> DeterministicAnalyzer,
                                  version |-> DevelopmentAnalyzerVersion,
                                  source |-> x.provenance.source]])]

RebuildGraph ==
    /\ called
    /\ r' = IF canBuildEvidenceGraph(r) THEN BuildEvidenceGraph(r) ELSE referenced(r)

\* A call that AddComparison refuses changes nothing.
Compare ==
    /\ called /\ Len(SelectSeq(r.relationships, LAMBDA e : e.type \in Comparisons)) < MaxCompared
    /\ \E c \in [type : Comparisons, fromKind : {"operation", "resource"},
                 toKind : {"operation", "resource", "finding"}] :
       \E x \in Items(r, c.fromKind), y \in Items(r, c.toKind) :
          canCompare(r, c, x, y) /\ r' = AddComparison(r, c, x, y)

-----------------------------------------------------------------------------
Ended == pc = "done" /\ UNCHANGED vars

Run == ParseFlags \/ Scan \/ AnalyzeSources \/ Follow \/ ScopeSources \/ ScopeLanguages
       \/ ScopeInventory \/ Assemble \/ BuildGraph \/ BuildSummary \/ WriteCanonical
Importer == Import \/ ReportDifference \/ RebuildGraph \/ Compare
Next == Run \/ Importer \/ Ended

\* The scanner is one thread that nothing in it blocks: until it is done it takes
\* another step.  This is WF_vars(Run), with ENABLED Run, which takes TLC long to
\* evaluate, written out.
Fairness == []<>(pc = "done") \/ []<><<Run>>_vars

Spec == Init /\ [][Next]_vars /\ Fairness

-----------------------------------------------------------------------------
TypeOK ==
    /\ input \in Inputs
    /\ pc \in {"flags", "scan", "sources", "scopes", "languages", "inventory", "assemble",
               "graph", "summary", "write", "done"}
    /\ exit \in 0..2 /\ outcome \in {"none", "written", "rejected", "failed"}
    /\ refs \subseteq Paths /\ round \subseteq refs
    /\ outcome = "written" <=> pc = "done" /\ exit = 0

\* Whatever order Go visits the map of references in, and whether or not it
\* visits what the loop adds, runtimeReferencedPaths returns the paths reachable
\* from the entry points and the QML files, no fewer and no more.
ReferencesAreLeast == pc \in {"scopes", "languages", "inventory"} => References!LeastClosed

\* Scopes are assigned three times, from references that are computed with and
\* without the inventory, and a limitation keeps the first one it gets.  In a
\* report that was written, every record about a retained file has the scope its
\* path has under the last references.
ScopesAgree ==
    outcome = "written" =>
       LET about(x, ps) == ~external(x) => \A p \in ps : x.scope = scopeForPath(p, refs)
       IN  /\ \A k \in {"operation", "resource"} : \A x \in Items(r, k) : about(x, {x.evidence.path})
           /\ \A k \in {"finding", "unknown"} : \A x \in Items(r, k) :
                 ~(k = "finding" /\ reserved(x)) => about(x, {ev.path : ev \in Range(x.evidence)})
           /\ \A x \in Range(analysis.limitations) :
                 x.path # 0 => x.scope = scopeForPath(x.path, refs)

\* Two records of one collection with one id: stablePathID maps names that differ
\* in punctuation to one, and a pipeline's finding is named by its line.
idsCollide ==
    \E s \in {analysis.operations, analysis.resources, analysis.findings, analysis.unknowns} :
       duplicate([i \in DOMAIN s |-> s[i].id])

\* A text of the plugin that is too long or, as where sourceLine cut a character,
\* not UTF-8: a call or a pipeline of a script, one argument, the operands of a
\* removal together, a string of the manifest, a path or a link's target.
textInvalid ==
    \/ \E x \in Range(analysis.operations) : ~x.evidence.text
    \/ \E x \in Range(analysis.findings) : ~x.evidence[1].text
    \/ \E x \in Range(analysis.operations) :
          LET total == totalSize(pathOperands(x.args))
          IN  \/ \E a \in Range(x.args) : sizeOf(a) > MaxHostileStringBytes
              \/ x.command \in {"rm", "unlink", "rmdir"} /\ total > MaxHostileStringBytes
    \/ analysis.manifest.size > MaxHostileStringBytes
    \/ \E p \in DOMAIN f : f[p].label > MaxHostileStringBytes

\* A file with a name the validator wants analyzed and coverage has no use for: a
\* directory or link called x.sh, or a unit or desktop file, unless its first line
\* names an interpreter the scanner knows and was retained.
nameMisleads ==
    \E p \in DOMAIN f :
       /\ isObviouslyAnalyzablePath(p)
       /\ \/ f[p].kind # "regular"
          \/ /\ Path[p].ext \in {"desktop", "service", "socket", "timer"}
             /\ shebang(p, f) = {}

\* Why the validator rejects a report the scanner itself built; nothing else may.
\* That an executable and a manifest without kinds are among the reasons is not
\* what the docs say: see FactsAreReported.
Unproducible ==
    \/ \E p \in DOMAIN f : f[p].read \in {"elf", "brokenELF"}
    \/ analysis.manifest.present /\ analysis.manifest.kinds = <<>>
    \/ Len(analysis.manifest.kinds) > MaxManifestKinds
    \/ Cardinality(DOMAIN analysis.manifest.entryPoints) > MaxManifestEntryPoints
    \/ nameMisleads \/ idsCollide \/ textInvalid
    \/ \E x \in Range(analysis.operations) : Len(x.args) > MaxOperationArguments
    \/ \E c \in DOMAIN MaxEntries : Len(r[c]) > MaxEntries[c]


\* A file the report calls analyzed went through an analyzer that understood it,
\* and nothing the scanner reports names it as limited or failed.  The sample
\* hooks git installs are the exception, against the docs: see FactsAreReported.
AnalyzedWasAnalyzed ==
    outcome = "written" =>
       \A x \in Range(r.inventory) : x.analysis = "analyzed" =>
          /\ x.path \in contents(f)
          /\ \/ x.path = Manifest \/ Path[x.path].ext = "qml" \/ isShell(x.path, f)
          /\ ~isInertGitMetadata(x.path) /\ isShell(x.path, f) => f[x.path].parses
          /\ \A y \in Range(r.limitations) \cup Range(r.errors) : y.path # x.path

\* An observation that a written report calls corroborated by the other side is
\* not also called unknown to it, whatever the importer compared before and after
\* it added observations and built the graph again.
NeverBoth ==
    outcome = "written" =>
       \A e, d \in Range(r.relationships) :
          e.type = "corroborates" /\ d.type = "disagrees-with" => d.from \notin {e.from, e.to}

\* External evidence of the one supported format is bound to no snapshot of the
\* target: a written report that has some says so, and is not complete.
UnboundIsIncomplete ==
    outcome = "written" /\ (\E x \in Range(r.inputs) : x.type = "omarchy-audit") =>
       /\ r.status = "incomplete"
       /\ \E x \in Items(r, "unknown") : x.reason = "external-input-unbound"

\* Every run of the scanner ends: the reference loops leave.
ScanEnds == <>(pc = "done")

\* What the docs promise to report about a plugin that was scanned: a native
\* executable as an unknown (analysis-rules.md), and a manifest that breaks the
\* plugin contract, by having no kinds for one, as a manifest finding
\* (report-contract.md).  The scanner gets its report out and says so there; and a
\* sample hook of git, which is excluded from semantic analysis (analysis-rules.md),
\* is not among the files it says were analyzed.
FactsAreReported ==
    LET native == \E p \in DOMAIN f : f[p].read = "elf"
        broken == /\ Manifest \in contents(f) /\ f[Manifest].parses
                  /\ validateManifest(f[Manifest].document, f) # <<>>
    IN  pc = "done" /\ exit # 2 /\ input.scans /\ outcome # "failed" =>
           /\ native => outcome = "written"
                        /\ \E x \in Items(r, "unknown") : x.reason = "native-behavior"
           /\ broken => outcome = "written"
                        /\ \E x \in Items(r, "finding") : x.category = "manifest"
           /\ outcome = "written" =>
                 \A x \in Range(r.inventory) :
                    x.analysis = "analyzed" => ~isInertGitMetadata(x.path)
==============================================================================
