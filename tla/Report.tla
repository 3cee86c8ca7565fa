-------------------------------- MODULE Report --------------------------------
(***************************************************************************)
(* internal/report: the evidence graph, the review summary, the canonical  *)
(* encoding and the accepting validator, as operators on a report.  Every  *)
(* collection is a sequence, so that what a producer happens to emit first *)
(* is told apart from what the canonical order puts first.                 *)
(*                                                                         *)
(* A digest keeps the identities it is given apart: references and edge ids *)
(* are those identities.                                                   *)
(***************************************************************************)
EXTENDS Analysis, FiniteSets

CONSTANTS
    maxReviewReasons,
    MaxEntries,                    \* collection -> the entries it may have
    MaxOperationArguments, MaxFindingRelated,
    MaxManifestKinds, MaxManifestEntryPoints, MaxHostileStringBytes,
    MaxProducedEvidenceRelations, MaxComparisonRelations

TargetInput == 1    \* the id "input-target"; ids of inputs are in string order
NodeKinds   == {"operation", "resource", "finding", "unknown"}
Collection(kind) == CASE kind = "operation" -> "operations" [] kind = "resource" -> "resources"
                      [] kind = "finding" -> "findings" [] kind = "unknown" -> "unknowns"
Comparisons == {"corroborates", "disagrees-with", "duplicates"}
NoBasis == [kind |-> "", subject |-> <<>>]

DeterministicAnalyzer    == "plug-prejudice/deterministic"
OmarchyAuditAnalyzer     == "omarchy/plugin-audit"
OmarchyAuditInputVersion == "pr8439-732b104"
CoverageDifferenceCategory    == "omarchy-audit-coverage-disagreement"
CoverageComparisonRule        == "omarchy-audit-coverage-comparison/v1"
ExternalBindingAssessmentRule == "external-binding-assessment/v1"
ComparisonBudgetRule          == "omarchy-audit-comparison-budget/v1"
ExternalSnapshotBindingRule   == "external-snapshot-equivalence/v1"
ExternalEvidenceBindingCategory == "external-evidence-binding"

Items(r, kind) == Range(r[Collection(kind)])
reserved(x) == x.provenance.rule = CoverageComparisonRule
               \/ x.category = CoverageDifferenceCategory
external(x) == x.provenance.source = "omarchy-audit"

-----------------------------------------------------------------------------
(* The evidence graph.                                                     *)

publicReference(kind, id) == <<rank(kind)>> \o id
relationshipID(x) == <<x.type, x.fromKind, x.from, x.toKind, x.to>>
relationshipTuple(x) == <<rank(x.type), rank(x.fromKind)>> \o x.from \o <<rank(x.toKind)>> \o x.to

\* Evidence that names no input belongs to the target, or to the first external
\* input when its record says it is an external observation.
bind(r, x, ev) ==
    LET ids == {i.id : i \in {j \in Range(r.inputs) : j.type = "omarchy-audit"}}
    IN  IF ev.input # 0 THEN ev
        ELSE [ev EXCEPT !.input =
                IF ~external(x) THEN TargetInput
                ELSE IF ids = {} THEN 0 ELSE CHOOSE i \in ids : \A j \in ids : i <= j]
bindOne(r, x)  == [x EXCEPT !.evidence = bind(r, x, @)]
bindMany(r, x) == [x EXCEPT !.evidence = [i \in DOMAIN @ |-> bind(r, x, @[i])]]

assign(r, kind, s) ==
    [i \in DOMAIN s |->
       [(IF kind \in {"operation", "resource"} THEN bindOne(r, s[i]) ELSE bindMany(r, s[i]))
        EXCEPT !.ref = publicReference(kind, s[i].id)]]

referenced(r) ==
    [r EXCEPT !.operations = assign(r, "operation", @), !.resources = assign(r, "resource", @),
              !.findings = assign(r, "finding", @), !.unknowns = assign(r, "unknown", @)]

operationReference(r, id) ==
    IF \E x \in Items(r, "operation") : x.id = id
    THEN (CHOOSE x \in Items(r, "operation") : x.id = id).ref ELSE <<>>

edge(r, type, kind, x, id) ==
    LET e == [type |-> type, fromKind |-> kind, from |-> x.ref, toKind |-> "operation",
              to |-> operationReference(r, id), basis |-> NoBasis]
    IN  e @@ [id |-> relationshipID(e)]

supportType(x) == IF x.claim = "inference" THEN "inferred-from" ELSE "established-by"

\* The edges the records declare, in the order they are produced.
declaredEdges(r) ==
    LET many(s, type(_), kind, ids(_)) ==
            FlattenSeq([i \in DOMAIN s |->
               [j \in DOMAIN ids(s[i]) |-> edge(r, type(s[i]), kind, s[i], ids(s[i])[j])]])
    IN  many(r.resources, LAMBDA x : "derived-from", "resource", LAMBDA x : <<x.operation>>)
        \o many(r.findings, supportType, "finding", LAMBDA x : x.related)
        \o many(r.unknowns, LAMBDA x : "unknown-because", "unknown", LAMBDA x : x.affected)

\* The order of the digests, which is any fixed one.
byDigest(edges) == SortSeq(edges, LAMBDA x, y : Before(relationshipTuple(x), relationshipTuple(y)))

\* BuildEvidenceGraph fails at the production limit.
canBuildEvidenceGraph(r) ==
    Len(declaredEdges(referenced(r))) <= MaxProducedEvidenceRelations
BuildEvidenceGraph(r) ==
    [referenced(r) EXCEPT !.relationships = byDigest(declaredEdges(referenced(r)))]

-----------------------------------------------------------------------------
(* Comparisons of observations.                                            *)

\* What an observation is about: an operation's command, or a resource's kind,
\* access and value.
semanticSubject(kind, x) ==
    CASE kind = "operation" -> <<"command", x.command>>
      [] kind = "resource"  -> <<x.kind, x.access, x.value>>
      [] OTHER -> <<>>

equivalent(kind, x, y) ==
    CASE kind = "operation" ->
           <<x.scope, x.command, x.args, x.dynamic, x.confidence>>
             = <<y.scope, y.command, y.args, y.dynamic, y.confidence>>
      [] kind = "resource" ->
           <<x.kind, x.access, x.value, x.sensitive, x.dynamic, x.scope, x.confidence>>
             = <<y.kind, y.access, y.value, y.sensitive, y.dynamic, y.scope, y.confidence>>
      [] OTHER -> FALSE

\* Mutant: an observation of the other side with the same subject is not looked for.
coverageDifferenceShapeAlone(r, kind, x, y) ==
    /\ external(x) \/ \E i \in Range(r.inputs) : i.type = "omarchy-audit"
    /\ y.evidence = <<x.evidence>> /\ y.related = <<>>

\* The finding y says that x has no counterpart on the other side, and it has none.
coverageDifferenceShape(r, kind, x, y) ==
    /\ external(x) \/ \E i \in Range(r.inputs) : i.type = "omarchy-audit"
    /\ \A z \in Items(r, kind) :
          external(z) # external(x) => semanticSubject(kind, z) # semanticSubject(kind, x)
    /\ <<y.claim, y.severity, y.confidence, y.scope>>
         = <<"fact", "informational", "high", "unknown">>
    /\ y.category = CoverageDifferenceCategory /\ y.evidence = <<x.evidence>> /\ y.related = <<>>
    /\ y.provenance = [rule |-> CoverageComparisonRule, version |-> DevelopmentAnalyzerVersion,
                       analyzer |-> DeterministicAnalyzer,
                       source |-> x.provenance.source]

observation(kind) == kind \in {"operation", "resource"}

\* What AddComparison asks of two retained nodes; the basis it will record.
comparable(r, c, x, y) ==
    CASE c.type = "corroborates" ->
           /\ c.fromKind = c.toKind /\ observation(c.fromKind)
           /\ semanticSubject(c.fromKind, x) = semanticSubject(c.toKind, y)
      [] c.type = "duplicates" ->
           /\ c.fromKind = c.toKind /\ observation(c.fromKind)
           /\ semanticSubject(c.fromKind, x) = semanticSubject(c.toKind, y)
           /\ equivalent(c.fromKind, x, y)
      [] c.type = "disagrees-with" ->
           observation(c.fromKind) /\ c.toKind = "finding"
           /\ coverageDifferenceShape(r, c.fromKind, x, y)

comparison(r, c, x, y) ==
    LET swapped == c.type # "disagrees-with" /\ Before(y.ref, x.ref)
        e == [type |-> c.type, fromKind |-> IF swapped THEN c.toKind ELSE c.fromKind,
              from |-> IF swapped THEN y.ref ELSE x.ref,
              toKind |-> IF swapped THEN c.fromKind ELSE c.toKind,
              to |-> IF swapped THEN x.ref ELSE y.ref,
              basis |-> [kind |-> IF c.type = "disagrees-with" THEN "coverage" ELSE c.fromKind,
                         subject |-> semanticSubject(c.fromKind, x)]]
    IN  e @@ [id |-> relationshipID(e)]

\* AddComparison: the nodes exist and have references, the id is free, and the
\* production limit leaves room.  Adding an edge the report has changes nothing.
canCompare(r, c, x, y) ==
    /\ x.ref # <<>> /\ y.ref # <<>> /\ comparable(r, c, x, y)
    /\ LET e == comparison(r, c, x, y)
       IN  IF \E old \in Range(r.relationships) : old.id = e.id
           THEN e \in Range(r.relationships)
           ELSE Len(r.relationships) < MaxProducedEvidenceRelations
AddComparison(r, c, x, y) ==
    LET e == comparison(r, c, x, y)
    IN  IF e \in Range(r.relationships) THEN r
        ELSE [r EXCEPT !.relationships = byDigest(Append(@, e))]

-----------------------------------------------------------------------------
(* The review summary.                                                     *)

NewCoverageSummary(analyzed, partial, unanalyzed, excluded) ==
    LET total == analyzed + partial + unanalyzed
        percentage == IF total = 0 THEN -1 ELSE (analyzed * 100) \div total
    IN  [analyzed |-> analyzed, partial |-> partial, unanalyzed |-> unanalyzed,
         excluded |-> excluded, total |-> total, retained |-> total + excluded,
         percentage |-> percentage,
         level |-> IF total = 0 THEN "not-applicable"
                   ELSE IF analyzed = total THEN "complete"
                   ELSE IF percentage >= 80 THEN "substantial"
                   ELSE IF percentage > 0 THEN "partial" ELSE "limited"]

coverageFromInventory(files) ==
    LET count(d) == Len(SelectSeq(files, LAMBDA x : x.analysis = d))
    IN  NewCoverageSummary(count("analyzed"), count("partial"), count("unanalyzed"),
                           count("not-applicable"))

validateCoverageSummary(c) ==
    /\ c.analyzed + c.partial + c.unanalyzed = c.total /\ c.total + c.excluded = c.retained
    /\ c.retained <= MaxEntries["inventory"]
    /\ c.percentage = IF c.total = 0 THEN -1 ELSE (c.analyzed * 100) \div c.total
    /\ c.level = NewCoverageSummary(c.analyzed, c.partial, c.unanalyzed, c.excluded).level

severityRank(s) == CASE s = "critical" -> 4 [] s = "high" -> 3 [] s = "medium" -> 2
                     [] s = "low" -> 1 [] s = "informational" -> 0 [] OTHER -> -1

\* The reasons that make unknown behaviour high.
highUnknown(u) == \/ u.reason \in {"budget-exhaustion", "parser-failure"}
                  \/ u.scope = "runtime" /\ u.affected # <<>>
budgetLimitation(l) == l.code \in {"max-file-bytes", "max-total-bytes", "max-files",
                                   "max-depth", "result-production-limit"}

unknownLevel(r) ==
    LET unknowns == Range(r.unknowns) limits == Range(r.limitations)
    IN  IF \/ r.errors # <<>> \/ \E u \in unknowns : highUnknown(u)
           \/ \E l \in limits : budgetLimitation(l) THEN "high"
        ELSE IF \E x \in unknowns \cup limits : x.scope = "runtime" THEN "moderate"
        ELSE IF unknowns \cup limits # {} THEN "low" ELSE "none"

nodeReason(x) == [ref |-> x.ref, title |-> <<>>, scope |-> x.scope]
codeReason(title, code, scope) == [ref |-> <<>>, title |-> <<title, code>>, scope |-> scope]

appendReviewReason(s, reason) ==
    IF \/ Len(s) >= maxReviewReasons
       \/ \E i \in DOMAIN s : IF reason.ref # <<>> THEN s[i].ref = reason.ref
                              ELSE s[i].ref = <<>> /\ s[i].title = reason.title
    THEN s ELSE Append(s, reason)

impactReasons(findings) ==
    LET ranks == {severityRank(findings[i].severity) : i \in DOMAIN findings}
        top == SelectSeq(findings, LAMBDA x : \A n \in ranks : severityRank(x.severity) >= n)
    IN  SubSeq([i \in DOMAIN top |-> nodeReason(top[i])], 1,
               IF Len(top) < maxReviewReasons THEN Len(top) ELSE maxReviewReasons)

confidenceForImpactReasons(findings, severity) ==
    LET levels == {x.confidence : x \in {y \in Range(findings) : y.severity = severity}}
    IN  IF "low" \in levels THEN "low" ELSE IF "medium" \in levels THEN "medium" ELSE "high"

unknownReasons(r) ==
    LET reasons(s, reason(_)) == [i \in DOMAIN s |-> reason(s[i])]
        codes(s) == reasons(s, LAMBDA x : codeReason("limitation", x.code, x.scope))
    IN  FoldLeft(appendReviewReason, <<>>,
           reasons(r.errors, LAMBDA x : codeReason("error", x.code, ""))
           \o reasons(SelectSeq(r.unknowns, highUnknown), nodeReason)
           \o reasons(r.unknowns, nodeReason)
           \o codes(SelectSeq(r.limitations, LAMBDA x : x.scope = "runtime"))
           \o codes(r.limitations))

\* The impact reasons, then the unknown ones that are not listed, up to the bound.
mainReasons(impact, unknown) ==
    FoldLeft(LAMBDA s, reason :
                IF \/ Len(s) >= maxReviewReasons
                   \/ \E i \in DOMAIN s : reason.ref # <<>> /\ s[i].ref = reason.ref
                THEN s ELSE Append(s, reason),
             impact, unknown)

deriveReviewSummary(r, coverage) ==
    LET impact == impactReasons(r.findings)
        topSeverity == (CHOOSE x \in Range(r.findings) : x.ref = impact[1].ref).severity
        records == r.operations \o r.resources \o r.findings \o r.unknowns
        confident(c) == Len(SelectSeq(records, LAMBDA x : x.confidence = c))
        claims(c) == Len(SelectSeq(r.findings, LAMBDA x : x.claim = c))
    IN  [impact |-> [level |-> IF impact = <<>> THEN "informational" ELSE topSeverity,
                     reasons |-> impact],
         confidence |-> [level |-> IF impact = <<>> THEN "not-applicable"
                                   ELSE confidenceForImpactReasons(r.findings, topSeverity),
                         high |-> confident("high"), medium |-> confident("medium"),
                         low |-> confident("low"), reasons |-> impact],
         coverage |-> coverage,
         unknown |-> [level |-> unknownLevel(r), reasons |-> unknownReasons(r)],
         counts |-> [facts |-> Len(r.operations) + Len(r.resources) + claims("fact"),
                     inferences |-> claims("inference"), unknowns |-> Len(r.unknowns)],
         main |-> mainReasons(impact, unknownReasons(r))]

canBuildReviewSummary(r, coverage) ==
    validateCoverageSummary(coverage) /\ coverage = coverageFromInventory(r.inventory)
BuildReviewSummary(r, coverage) ==
    [r EXCEPT !.review = [present |-> TRUE] @@ deriveReviewSummary(r, coverage)]
NoReview == [present |-> FALSE]

-----------------------------------------------------------------------------
(* The canonical form.                                                     *)

\* What the inventory's root digest binds: the observation of every file, and
\* nothing of its analysis.
InventoryRootDigest(files) ==
    {<<files[i].path, files[i].kind, files[i].read>> : i \in DOMAIN files}

compareLimitation(x, y) == Before(<<rank(x.code), x.path, rank(x.scope)>>,
                                  <<rank(y.code), y.path, rank(y.scope)>>)
compareScanError(x, y)  == x.path < y.path    \* one code in the model
compareEvidence(x, y)   == Before(<<x.input, x.path, x.line>>, <<y.input, y.path, y.line>>)

sortedEvidence(s, ids) ==
    [i \in DOMAIN s |-> [s[i] EXCEPT !.evidence = SortSeq(@, compareEvidence),
                                    ![ids] = SortSeq(@, Before)]]

\* An ELF record's collections are copied onto nil: an empty one becomes null.
canonicalFile(x) ==
    [x EXCEPT !.null = IF x.read = "elf" /\ ~x.libraries THEN @ \cup {"libraries"} ELSE @]

\* So do the kinds of a manifest.
canonicalOrder(r) ==
    [r EXCEPT
       !.manifest = [@ EXCEPT !.null = @ \/ r.manifest.kinds = <<>>],
       !.inputs = SortSeq(@, LAMBDA x, y : x.id < y.id),
       !.inventory = LET s == SortSeq(@, LAMBDA x, y : x.path < y.path)
                     IN  [i \in DOMAIN s |-> canonicalFile(s[i])],
       !.operations = sortById(@), !.resources = sortById(@),
       !.findings = sortedEvidence(sortById(@), "related"),
       !.unknowns = sortedEvidence(sortById(@), "affected"),
       !.relationships = byDigest(@),
       !.limitations = SortSeq(@, compareLimitation),
       !.errors = SortSeq(@, compareScanError)]


canonicalReport(r) ==
    LET c == canonicalOrder(r) IN BuildReviewSummary(c, coverageFromInventory(c.inventory))

-----------------------------------------------------------------------------
(* Validate.                                                               *)

Scopes == {"runtime", "repository-tooling", "unknown"}
duplicate(s) == \E i, j \in DOMAIN s : i # j /\ s[i] = s[j]

validateCollectionBounds(r) == \A c \in DOMAIN MaxEntries : Len(r[c]) <= MaxEntries[c]

\* Every string is UTF-8 and short enough.  These are the ones that hold text of
\* the plugin: manifest, paths and link targets, commands, arguments and what is
\* quoted of them.  The messages of parsers and of the system are taken to fit.
validateHostileStrings(r) ==
    LET check(size) == size <= MaxHostileStringBytes
    IN  /\ check(r.manifest.size)
        /\ \A x \in Range(r.inventory) : check(x.label)
        /\ \A x \in Items(r, "operation") : x.evidence.text /\ \A a \in Range(x.args) : check(sizeOf(a))
        /\ \A x \in Items(r, "resource") : x.evidence.text /\ check(sizeOf(x.value))
        /\ \A x \in Items(r, "finding") : check(x.size)
        /\ \A k \in {"finding", "unknown"} : \A x \in Items(r, k) :
              \A ev \in Range(x.evidence) : ev.text

validateHeader(r) ==
    /\ r.sandboxed = r.limited
    /\ r.root = InventoryRootDigest(r.inventory)
    /\ r.manifest.present =>
          /\ ~r.manifest.null
          /\ Len(r.manifest.kinds) <= MaxManifestKinds
          /\ Cardinality(DOMAIN r.manifest.entryPoints) <= MaxManifestEntryPoints

\* The only supported external format supplies no subject.
validateEvidenceInputs(r) ==
    /\ ~duplicate([i \in DOMAIN r.inputs |-> r.inputs[i].id])
    /\ \A x \in Range(r.inputs) :
          \/ x.type = "target" /\ x.id = TargetInput /\ x.subject = {r.root}
          \/ /\ x.type = "omarchy-audit" /\ x.id # TargetInput
             /\ x.version = OmarchyAuditInputVersion /\ x.documented /\ x.subject = {}
    /\ Cardinality({x \in Range(r.inputs) : x.type = "target"}) = 1

isObviouslyAnalyzablePath(p) ==
    p = Manifest \/ Path[p].ext \in {"sh", "bash", "zsh", "qml", "py", "pyw", "js", "mjs", "cjs",
                                     "jsx", "desktop", "service", "socket", "timer"}

validateFile(x) ==
    /\ x.analysis = "analyzed" => x.read \in Inspected /\ ~x.reasoned
    /\ x.analysis = "partial"  => x.read \in Inspected
    /\ x.analysis # "analyzed" => x.reasoned
    /\ x.read \in {"elf", "brokenELF"} => x.analysis \in {"partial", "unanalyzed"}
    /\ x.analysis = "not-applicable" => ~isObviouslyAnalyzablePath(x.path)
    /\ x.null = {}

validateProvenance(x, kind) ==
    LET p == x.provenance
    IN  IF ~external(x)
        THEN p.analyzer = DeterministicAnalyzer /\ p.version = DevelopmentAnalyzerVersion
        ELSE \/ /\ p.analyzer = OmarchyAuditAnalyzer /\ kind # "unknown"
                /\ p.rule = "omarchy-audit-observation/v1"
             \/ /\ p.analyzer = DeterministicAnalyzer /\ p.version = DevelopmentAnalyzerVersion
                /\ p.rule \in CASE kind = "finding" -> {CoverageComparisonRule}
                                [] kind = "unknown" -> {ExternalBindingAssessmentRule,
                                                        ComparisonBudgetRule}
                                [] OTHER -> {}

validateAnchoredEvidence(r, x, ev) ==
    \E input \in Range(r.inputs) :
       /\ input.id = ev.input
       /\ IF external(x)
          THEN /\ input.type = "omarchy-audit"
               /\ x.provenance.analyzer = OmarchyAuditAnalyzer => x.provenance.version = input.version
          ELSE /\ input.type = "target"
               /\ \E i \in DOMAIN r.inventory : r.inventory[i].path = ev.path

operationIDs(r) == {x.id : x \in Items(r, "operation")}

\* What every operation, resource, finding and unknown has.
validateRecord(r, kind, x, evidenceOf, ids) ==
    /\ x.id \in Seq(Nat) /\ x.id # <<>> /\ x.ref = publicReference(kind, x.id)
    /\ validateProvenance(x, kind)
    /\ x.scope \in Scopes
    /\ evidenceOf # <<>> /\ \A ev \in Range(evidenceOf) : validateAnchoredEvidence(r, x, ev)
    /\ Range(ids) \subseteq operationIDs(r) /\ ~duplicate(ids)

validateReservedCoverageFinding(x) ==
    reserved(x) =>
       /\ x.provenance.rule = CoverageComparisonRule /\ x.category = CoverageDifferenceCategory
       /\ x.provenance.analyzer = DeterministicAnalyzer
       /\ <<x.claim, x.severity, x.confidence, x.scope>>
            = <<"fact", "informational", "high", "unknown">>
       /\ Len(x.evidence) = 1 /\ x.related = <<>>

bindingUnknown(x) == x.reason = "external-input-unbound"
                     \/ x.category = ExternalEvidenceBindingCategory

validateExternalBindingUnknown(r, x) ==
    bindingUnknown(x) =>
       /\ x.reason = "external-input-unbound" /\ x.category = ExternalEvidenceBindingCategory
       /\ x.scope = "unknown" /\ x.confidence = "high"
       /\ Len(x.evidence) = 1 /\ x.affected = <<>> /\ x.origins = <<>>
       /\ x.suppressed = <<ExternalSnapshotBindingRule>>
       /\ \E input \in Range(r.inputs) : input.id = x.evidence[1].input
                                       /\ input.type = "omarchy-audit" /\ input.subject = {}
       /\ x.provenance.rule = ExternalBindingAssessmentRule
       /\ external(x) /\ x.provenance.analyzer = DeterministicAnalyzer

bindingsOf(r, input) ==
    Cardinality({x \in Items(r, "unknown") : bindingUnknown(x) /\ x.evidence[1].input = input.id})

\* Mutant: an input may have no binding unknown.
validateBindingsOptional(r) == \A input \in Range(r.inputs) : bindingsOf(r, input) <= 1

\* Each external input has one unknown that says it is bound to no snapshot.
validateBindings(r) ==
    \A input \in Range(r.inputs) : input.type = "omarchy-audit" => bindingsOf(r, input) = 1

validateUnknowns(r) ==
    /\ \A x \in Items(r, "unknown") :
          /\ validateRecord(r, "unknown", x, x.evidence, x.affected)
          /\ x.reason = "native-behavior" => x.scope # "repository-tooling"
          /\ validateExternalBindingUnknown(r, x)
          /\ external(x) =>
                /\ x.provenance.rule = ExternalBindingAssessmentRule => bindingUnknown(x)
                /\ x.provenance.rule = ComparisonBudgetRule => x.reason = "budget-exhaustion"
    /\ \A file \in Range(r.inventory) :
          file.read \in {"elf", "brokenELF"} =>
             \E x \in Items(r, "unknown") :
                /\ x.reason = "native-behavior" /\ ~external(x)
                /\ \E ev \in Range(x.evidence) : ev.path = file.path
    /\ validateBindings(r)

validateRecords(r) ==
    /\ \A k \in NodeKinds :
          ~duplicate([i \in DOMAIN r[Collection(k)] |-> r[Collection(k)][i].id])
    /\ \A x \in Items(r, "operation") :
          /\ validateRecord(r, "operation", x, <<x.evidence>>, <<>>)
          /\ Len(x.args) <= MaxOperationArguments
    /\ \A x \in Items(r, "resource") :
          validateRecord(r, "resource", x, <<x.evidence>>, <<x.operation>>)
    /\ \A x \in Items(r, "finding") :
          /\ validateRecord(r, "finding", x, x.evidence, x.related)
          /\ Len(x.related) <= MaxFindingRelated
          /\ x.claim = "inference" => x.related # <<>>
          /\ validateReservedCoverageFinding(x)
    /\ validateUnknowns(r)

\* One local and one independent external observation, or two of one analyzer.
validateComparisonRelationship(r, e, x, y) ==
    LET sameAnalyzer == <<x.provenance.analyzer, x.provenance.version>>
                          = <<y.provenance.analyzer, y.provenance.version>>
        ordinary == e.type # "disagrees-with"
    IN  /\ comparable(r, e, x, y)
        /\ e.basis = [kind |-> IF ordinary THEN e.fromKind ELSE "coverage",
                      subject |-> semanticSubject(e.fromKind, x)]
        /\ ordinary => ~Before(e.to, e.from)
        /\ e.type = "corroborates" => external(x) # external(y) /\ ~sameAnalyzer
        /\ e.type = "duplicates"   => external(x) = external(y) /\ sameAnalyzer
        /\ ~ordinary => reserved(y)

validateRelationships(r) ==
    LET edges == r.relationships
        declared == {relationshipID(e) : e \in Range(declaredEdges(r))}
        compared == SelectSeq(edges, LAMBDA e : e.type \in Comparisons)
    IN  /\ ~duplicate([i \in DOMAIN edges |-> edges[i].id])
        /\ \A e \in Range(edges) :
              /\ e.from # e.to /\ e.id = relationshipID(e)
              /\ \E x \in Items(r, e.fromKind), y \in Items(r, e.toKind) :
                    /\ x.ref = e.from /\ y.ref = e.to
                    /\ IF e.type \in Comparisons
                       THEN validateComparisonRelationship(r, e, x, y)
                       ELSE relationshipID(e) \in declared
        /\ Len(compared) <= MaxComparisonRelations
        /\ ~duplicate([i \in DOMAIN compared |-> <<compared[i].from, compared[i].to>>])
        /\ declared \subseteq {e.id : e \in Range(edges)}
        /\ \A y \in Items(r, "finding") :
              reserved(y) => Cardinality({e \in Range(edges) : e.type = "disagrees-with"
                                                              /\ e.to = y.ref}) = 1

validateReviewSummary(r) ==
    /\ r.review.present
    /\ canBuildReviewSummary(r, r.review.coverage)
    /\ r.review = BuildReviewSummary(r, r.review.coverage).review

validateStatus(r) ==
    LET explained == r.unknowns # <<>> \/ r.limitations # <<>> \/ r.errors # <<>>
    IN  \/ r.status = "incomplete" /\ explained
        \/ /\ r.status = "complete" /\ ~explained
           /\ r.review.coverage.level \in {"complete", "not-applicable"}
           /\ r.review.coverage.excluded = 0

Validate(r) ==
    /\ validateCollectionBounds(r) /\ validateHostileStrings(r) /\ validateHeader(r)
    /\ validateEvidenceInputs(r)
    /\ \A x \in Range(r.inventory) : validateFile(x)
    /\ validateRecords(r) /\ validateRelationships(r)
    /\ \A x \in Range(r.limitations) : x.scope \in Scopes \cup {""}
    /\ validateReviewSummary(r) /\ validateStatus(r)
==============================================================================
