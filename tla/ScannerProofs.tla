---------------------------- MODULE ScannerProofs ----------------------------
(***************************************************************************)
(* The scanner command, for every plugin, audit and order of Go's maps:    *)
(* the references each pass uses are the least closed ones, and what the   *)
(* accepting validator lets through.                                       *)
(***************************************************************************)
EXTENDS Scanner, FiniteSetTheorems, TLAPS

\* The argument about one call of runtimeReferencedPaths is ReferencesProofs'.
Call == INSTANCE ReferencesProofs

Passes == {"scopes", "languages", "inventory"}
Steps == {"flags", "scan", "sources", "assemble", "graph", "summary", "write"} \cup Passes

-----------------------------------------------------------------------------
(* The inductive invariant.                                                *)

DataOK ==
    /\ input \in Inputs /\ pc \in Steps \cup {"done"}
    /\ exit \in 0..2 /\ outcome \in {"none", "written", "rejected", "failed"}
    /\ refs \subseteq Paths /\ round \subseteq refs

\* Nothing is decided before run() returns.
EndOK ==
    /\ pc # "done" => exit = 0 /\ outcome = "none"
    /\ pc = "done" => (outcome = "written" <=> exit = 0)

\* Outside the passes no call is under way.
LoopOK ==
    /\ pc \in Passes => Call!IInv
    /\ pc \notin Passes => ended = TRUE

\* A report that went out is one the validator accepted.
WrittenIsValid == outcome = "written" => Validate(r)

IInv == DataOK /\ EndOK /\ LoopOK /\ WrittenIsValid

LEMMA InitIInv == Init => IInv
BY DEF Init, IInv, DataOK, EndOK, LoopOK, WrittenIsValid, Passes, Steps

-----------------------------------------------------------------------------
(* runtimeReferencedPaths.                                                 *)

\* Candidates are files of the plugin.
LEMMA MarksArePaths ==
    ASSUME NEW i \in Inputs, NEW files, NEW p
    PROVE  markTextReferences(Plugins[i.plugin], files, p) \subseteq Paths
BY PluginsAssumption DEF markTextReferences, candidates

LEMMA SeedsArePaths ==
    ASSUME NEW i \in Inputs, NEW files, NEW manifest
    PROVE  seedsOf(Plugins[i.plugin], files, manifest) \subseteq Paths
<1> DEFINE g == Plugins[i.plugin]
           qml == {p \in contents(g) : Path[p].ext = "qml" /\ ~toolingPath(p)}
           entries == {entry.path : entry \in Range(manifest.entryPoints)} \cap Paths
<1>1. seedsOf(g, files, manifest)
        = entries \cup qml \cup UNION {markTextReferences(g, files, p) : p \in qml}
  BY DEF seedsOf
<1>2. qml \subseteq Paths
  BY PluginsAssumption DEF contents
<1>3. \A p : markTextReferences(g, files, p) \subseteq Paths
  BY MarksArePaths
<1> HIDE DEF qml, entries
<1>4. UNION {markTextReferences(g, files, p) : p \in qml} \subseteq Paths
  BY <1>3
<1>5. entries \subseteq Paths
  BY DEF entries
<1>6. QED
  BY <1>1, <1>2, <1>4, <1>5

\* Each pass computes the references anew.
LEMMA EnterKeeps ==
    ASSUME IInv, NEW step \in Passes, NEW res, NEW files \in BOOLEAN, pc # "done",
           files <=> step = "inventory", Enter(step, res, files)
    PROVE  IInv'
<1>1. /\ pc' = step /\ analysis' = res /\ refs' = seedsOf(f, files, res.manifest)
      /\ round' = {} /\ changed' = TRUE /\ ended' = FALSE
      /\ UNCHANGED <<input, exit, r, outcome>>
  BY DEF Enter
<1>2. f' = f
  BY <1>1 DEF f
<1>3. withFiles' = files
  BY <1>1 DEF withFiles
<1>4. seeds' = refs'
  BY <1>1, <1>2, <1>3 DEF seeds
<1>5. Call!Begin'
  BY <1>1, <1>4 DEF Call!Begin
<1>6. Call!IInv'
  BY <1>5, Call!BeginSettled, PTL
<1>7. refs' \subseteq Paths
  BY <1>1, SeedsArePaths DEF f, IInv, DataOK
<1>8. DataOK'
  BY <1>1, <1>7 DEF IInv, DataOK, Steps
<1>9. EndOK'
  BY <1>1 DEF IInv, EndOK, Passes
<1>10. LoopOK'
  BY <1>1, <1>6 DEF LoopOK
<1>11. WrittenIsValid'
  BY <1>1 DEF IInv, EndOK, WrittenIsValid
<1>12. QED
  BY <1>8, <1>9, <1>10, <1>11 DEF IInv

\* A step of the loop: the call's inputs stay what they were.
LEMMA FollowKeeps ==
    ASSUME IInv, Follow
    PROVE  IInv'
<1>1. UNCHANGED <<input, pc, exit, analysis, r, outcome>>
  BY DEF Follow
<1>2. References!NextRound \/ References!Visit \/ References!Leave
  BY DEF Follow
<1>3. ~ended
  BY <1>2 DEF References!NextRound, References!Visit, References!Leave
<1>4. pc \in Passes
  BY <1>3 DEF IInv, LoopOK
<1>5. UNCHANGED <<seeds, marks>>
  BY <1>1 DEF seeds, marks, withFiles, f
<1>6. Call!Next
  BY <1>2, <1>5 DEF Call!Next, Call!NextRound, Call!Visit, Call!Leave, Call!marked,
                    References!NextRound, References!Visit, References!Leave, References!marked
<1>7. Call!IInv
  BY <1>4 DEF IInv, LoopOK
<1>8. Call!IInv'
  BY <1>6, <1>7, Call!NextKeeps
<1>9. \A p : References!marked(p) \subseteq Paths
  <2>1. \A p : markTextReferences(f, withFiles, p) \subseteq Paths
    BY MarksArePaths DEF IInv, DataOK, f
  <2>2. marks = [p \in contents(f) |-> markTextReferences(f, withFiles, p)]
    BY DEF marks, marksOf
  <2>3. QED
    BY <2>1, <2>2 DEF References!marked
<1>10. refs' \subseteq Paths
  BY <1>2, <1>9 DEF References!NextRound, References!Visit, References!Leave, IInv, DataOK
<1>11. round' \subseteq refs'
  BY <1>8 DEF Call!IInv
<1>12. DataOK'
  BY <1>1, <1>10, <1>11 DEF IInv, DataOK
<1>13. EndOK'
  BY <1>1 DEF IInv, EndOK
<1>14. LoopOK'
  BY <1>1, <1>4, <1>8 DEF LoopOK
<1>15. WrittenIsValid'
  BY <1>1 DEF IInv, WrittenIsValid
<1>16. QED
  BY <1>12, <1>13, <1>14, <1>15 DEF IInv

-----------------------------------------------------------------------------
(* The other steps of run() and the importer.                              *)

\* A step that is not the write and not part of a pass: nothing has gone out.
LEMMA StepKeeps ==
    ASSUME IInv, pc \in Steps \ Passes,
           \/ pc' \in Steps \ Passes /\ UNCHANGED exit
           \/ pc' = "done" /\ exit' \in {1, 2},
           UNCHANGED <<input, loop, outcome>>
    PROVE  IInv'
<1>1. pc # "done" /\ outcome = "none" /\ exit = 0
  BY DEF IInv, EndOK, Steps, Passes
<1>2. DataOK'
  BY DEF IInv, DataOK, loop, Steps, Passes
<1>3. EndOK'
  BY <1>1 DEF EndOK, Steps, Passes
<1>4. LoopOK'
  BY DEF IInv, LoopOK, loop, Steps, Passes
<1>5. WrittenIsValid'
  BY <1>1 DEF WrittenIsValid
<1>6. QED
  BY <1>2, <1>3, <1>4, <1>5 DEF IInv

\* What goes out is what was validated.
LEMMA WriteKeeps ==
    ASSUME IInv, WriteCanonical
    PROVE  IInv'
<1>1. /\ pc = "write" /\ pc' = "done" /\ UNCHANGED <<input, analysis, loop>>
      /\ \/ outcome' = "rejected" /\ exit' = 1
         \/ outcome' = "failed" /\ exit' = 1
         \/ outcome' = "written" /\ exit' = 0 /\ Validate(r')
  BY DEF WriteCanonical, Return
<1>2. DataOK'
  BY <1>1 DEF IInv, DataOK, loop, Steps
<1>3. EndOK'
  BY <1>1 DEF EndOK
<1>4. LoopOK'
  BY <1>1 DEF IInv, LoopOK, loop, Passes
<1>5. WrittenIsValid'
  BY <1>1 DEF WrittenIsValid
<1>6. QED
  BY <1>2, <1>3, <1>4, <1>5 DEF IInv

LEMMA RunKeeps ==
    ASSUME IInv, Run
    PROVE  IInv'
<1>1. CASE ParseFlags
  BY <1>1, StepKeeps DEF ParseFlags, Return, Steps, Passes
<1>2. CASE Scan
  BY <1>2, StepKeeps DEF Scan, Return, Steps, Passes
<1>3. CASE AnalyzeSources
  BY <1>3, EnterKeeps DEF AnalyzeSources, Passes
<1>4. CASE Follow
  BY <1>4, FollowKeeps
<1>5. CASE ScopeSources
  BY <1>5, EnterKeeps DEF ScopeSources, Passes
<1>6. CASE ScopeLanguages
  BY <1>6, EnterKeeps DEF ScopeLanguages, Passes
<1>7. CASE ScopeInventory
  <2>1. /\ pc = "inventory" /\ ended /\ pc' = "assemble"
        /\ UNCHANGED <<input, exit, refs, round, changed, ended, r, outcome>>
    BY <1>7 DEF ScopeInventory, loop
  <2>2. ended = TRUE
    BY <2>1 DEF IInv, LoopOK, Passes, Call!IInv
  <2>3. DataOK' /\ EndOK' /\ LoopOK' /\ WrittenIsValid'
    BY <2>1, <2>2 DEF IInv, DataOK, EndOK, LoopOK, WrittenIsValid, Steps, Passes
  <2>4. QED
    BY <2>3 DEF IInv
<1>8. CASE Assemble
  BY <1>8, StepKeeps DEF Assemble, Steps, Passes
<1>9. CASE BuildGraph
  BY <1>9, StepKeeps DEF BuildGraph, Return, Steps, Passes
<1>10. CASE BuildSummary
  BY <1>10, StepKeeps DEF BuildSummary, Return, Steps, Passes
<1>11. CASE WriteCanonical
  BY <1>11, WriteKeeps
<1>12. QED
  BY <1>1, <1>2, <1>3, <1>4, <1>5, <1>6, <1>7, <1>8, <1>9, <1>10, <1>11 DEF Run

LEMMA NextKeeps == IInv /\ [Next]_vars => IInv'
<1>1. SUFFICES ASSUME IInv, [Next]_vars PROVE IInv'
  OBVIOUS
<1>2. CASE Run
  BY <1>1, <1>2, RunKeeps
<1>3. CASE Importer
  <2>1. pc = "summary" /\ UNCHANGED <<input, pc, exit, analysis, loop, outcome>>
    BY <1>3 DEF Importer, Import, ReportDifference, RebuildGraph, Compare, called, audited
  <2>2. QED
    BY <1>1, <2>1, StepKeeps DEF Steps, Passes
<1>4. CASE UNCHANGED vars
  <2>1. UNCHANGED <<input, pc, exit, analysis, refs, round, changed, ended, r, outcome>>
    BY <1>4 DEF vars, loop
  <2>2. UNCHANGED <<seeds, marks>>
    BY <2>1 DEF seeds, marks, withFiles, f
  <2>3. pc \in Passes => Call!IInv'
    <3>1. UNCHANGED Call!vars
      BY <2>1, <2>2 DEF Call!vars, Call!loop
    <3>2. QED
      BY <1>1, <3>1, Call!NextKeeps DEF IInv, LoopOK
  <2>4. DataOK' /\ EndOK' /\ LoopOK' /\ WrittenIsValid'
    BY <1>1, <2>1, <2>3 DEF IInv, DataOK, EndOK, LoopOK, WrittenIsValid
  <2>5. QED
    BY <2>4 DEF IInv
<1>5. QED
  BY <1>1, <1>2, <1>3, <1>4 DEF Next, Ended

\* What holds between any two steps of run() and of an importer.
THEOREM Inductive == Spec => []IInv
<1>1. Init => IInv
  BY InitIInv
<1>2. IInv /\ [Next]_vars => IInv'
  BY NextKeeps
<1>3. QED
  BY <1>1, <1>2, PTL DEF Spec

\* The type invariant: in particular the scanner exits with 0 exactly when its
\* report went out.
THEOREM TypeCorrect == Spec => []TypeOK
<1>1. IInv => TypeOK
  BY DEF IInv, DataOK, EndOK, TypeOK, Steps, Passes
<1>2. QED
  BY <1>1, Inductive, PTL

\* Sources and Inventory: the references each of the three passes assigns scopes
\* by are the paths reachable from the entry points and the QML files.
THEOREM ReferencesTheorem == Spec => []ReferencesAreLeast
<1>1. Call!IInv => References!LeastClosed
  <2>1. Call!IInv => Call!LeastClosed
    BY Call!Leaves
  <2>2. Call!LeastClosed => References!LeastClosed
    BY DEF Call!LeastClosed, References!LeastClosed, Call!Closed, References!Closed,
           Call!marked, References!marked
  <2>3. QED
    BY <2>1, <2>2
<1>2. IInv => ReferencesAreLeast
  BY <1>1 DEF IInv, LoopOK, ReferencesAreLeast, Passes
<1>3. QED
  BY <1>2, Inductive, PTL

-----------------------------------------------------------------------------
(* What the validator lets through.                                        *)

\* An external input has its binding unknown, and an unknown makes a report
\* incomplete.
LEMMA UnboundExplained ==
    ASSUME NEW rep, Validate(rep), NEW inp \in Range(rep.inputs), inp.type = "omarchy-audit"
    PROVE  /\ rep.status = "incomplete"
           /\ \E x \in Items(rep, "unknown") : x.reason = "external-input-unbound"
<1> DEFINE bound == {x \in Items(rep, "unknown") :
                        bindingUnknown(x) /\ x.evidence[1].input = inp.id}
<1>1. validateUnknowns(rep) /\ validateStatus(rep)
  BY DEF Validate, validateRecords
<1>2. Cardinality(bound) = 1
  BY <1>1 DEF validateUnknowns, validateBindings, bindingsOf
<1>3. bound # {}
  <2>1. Cardinality({}) = 0
    BY FS_EmptySet
  <2> HIDE DEF bound
  <2>2. QED
    BY <1>2, <2>1
<1>4. PICK x \in Items(rep, "unknown") : bindingUnknown(x)
  BY <1>3
<1>5. x.reason = "external-input-unbound"
  BY <1>1, <1>4 DEF validateUnknowns, validateExternalBindingUnknown
<1>6. rep.unknowns # <<>>
  BY <1>4 DEF Items, Collection, Range
<1>7. rep.status = "incomplete"
  BY <1>1, <1>6 DEF validateStatus
<1>8. QED
  BY <1>5, <1>7

\* A written report with external evidence, whatever the audit and whatever the
\* importer did, says that it is bound to no snapshot and is not complete.
THEOREM UnboundTheorem == Spec => []UnboundIsIncomplete
<1>1. IInv => UnboundIsIncomplete
  BY UnboundExplained DEF IInv, WrittenIsValid, UnboundIsIncomplete
<1>2. QED
  BY <1>1, Inductive, PTL

\* A reference tells the kind and the id of a record apart.
LEMMA RanksDiffer == rank("operation") = 26 /\ rank("resource") = 34
<1>1. Lexicon[26] = "operation" /\ \A i \in DOMAIN Lexicon : Lexicon[i] = "operation" => i = 26
  BY DEF Lexicon
<1>2. Lexicon[34] = "resource" /\ \A i \in DOMAIN Lexicon : Lexicon[i] = "resource" => i = 34
  BY DEF Lexicon
<1>3. 26 \in DOMAIN Lexicon /\ 34 \in DOMAIN Lexicon
  BY DEF Lexicon
<1>4. QED
  BY <1>1, <1>2, <1>3 DEF rank

LEMMA ReferenceIdentifies ==
    ASSUME NEW k \in {"operation", "resource"}, NEW l \in {"operation", "resource"},
           NEW a \in Seq(Nat), NEW b \in Seq(Nat),
           publicReference(k, a) = publicReference(l, b)
    PROVE  k = l /\ a = b
<1>1. rank(k) \in Nat /\ rank(l) \in Nat /\ (rank(k) = rank(l) => k = l)
  BY RanksDiffer
<1> DEFINE m == rank(k)
           n == rank(l)
<1>2. m \in Nat /\ n \in Nat /\ <<m>> \o a = <<n>> \o b
  BY <1>1 DEF publicReference
<1> HIDE DEF m, n
<1>3. m = n
  <2>1. (<<m>> \o a)[1] = m /\ (<<n>> \o b)[1] = n
    BY <1>2
  <2>2. QED
    BY <1>2, <2>1
<1>4. Len(a) = Len(b)
  <2>1. Len(<<m>> \o a) = 1 + Len(a) /\ Len(<<n>> \o b) = 1 + Len(b)
    BY <1>2
  <2>2. QED
    BY <1>2, <2>1
<1>5. ASSUME NEW i \in 1..Len(a) PROVE a[i] = b[i]
  <2>1. (<<m>> \o a)[i + 1] = a[i] /\ (<<n>> \o b)[i + 1] = b[i]
    BY <1>2, <1>4
  <2>2. QED
    BY <1>2, <2>1
<1>6. a = b
  <2>1. a = [i \in 1..Len(a) |-> a[i]] /\ b = [i \in 1..Len(b) |-> b[i]]
    OBVIOUS
  <2>2. QED
    BY <1>4, <1>5, <2>1, Zenon
<1>7. QED
  BY <1>1, <1>3, <1>6 DEF m, n

\* In a valid report two observations with one reference are one record.
LEMMA SameObservation ==
    ASSUME NEW rep, Validate(rep),
           NEW k \in {"operation", "resource"}, NEW l \in {"operation", "resource"},
           NEW x \in Items(rep, k), NEW y \in Items(rep, l), x.ref = y.ref
    PROVE  k = l /\ x = y
<1>1. validateRecords(rep)
  BY DEF Validate
<1>2. /\ x.id \in Seq(Nat) /\ x.ref = publicReference(k, x.id)
      /\ y.id \in Seq(Nat) /\ y.ref = publicReference(l, y.id)
  BY <1>1 DEF validateRecords, validateRecord
<1>3. k = l /\ x.id = y.id
  BY <1>2, ReferenceIdentifies
<1> DEFINE s == rep[Collection(k)]
<1>4. ~duplicate([i \in DOMAIN s |-> s[i].id])
  BY <1>1 DEF validateRecords, NodeKinds
<1>5. PICK i \in DOMAIN s : x = s[i]
  BY DEF Items, Range
<1>6. PICK j \in DOMAIN s : y = s[j]
  BY <1>3 DEF Items, Range
<1>7. i = j
  BY <1>3, <1>4, <1>5, <1>6 DEF duplicate
<1>8. QED
  BY <1>3, <1>5, <1>6, <1>7

\* What a valid report's corroboration relates: a local and an external
\* observation of one subject.
LEMMA CorroborationRelates ==
    ASSUME NEW rep, Validate(rep), NEW e \in Range(rep.relationships), e.type = "corroborates"
    PROVE  \E k \in {"operation", "resource"} : \E x, y \in Items(rep, k) :
              /\ x.ref = e.from /\ y.ref = e.to /\ external(x) # external(y)
              /\ semanticSubject(k, x) = semanticSubject(k, y)
<1>1. PICK x \in Items(rep, e.fromKind), y \in Items(rep, e.toKind) :
         x.ref = e.from /\ y.ref = e.to /\ validateComparisonRelationship(rep, e, x, y)
  BY DEF Validate, validateRelationships, Comparisons
<1>2. comparable(rep, e, x, y) /\ external(x) # external(y)
  BY <1>1 DEF validateComparisonRelationship
<1>3. /\ e.fromKind = e.toKind /\ observation(e.fromKind)
      /\ semanticSubject(e.fromKind, x) = semanticSubject(e.toKind, y)
  BY <1>2 DEF comparable
<1>4. QED
  BY <1>1, <1>2, <1>3 DEF observation

\* What a valid report's disagreement says of the observation it starts from.
LEMMA DisagreementExcludes ==
    ASSUME NEW rep, Validate(rep), NEW d \in Range(rep.relationships), d.type = "disagrees-with"
    PROVE  \E k \in {"operation", "resource"} : \E x \in Items(rep, k) :
              /\ x.ref = d.from
              /\ \A z \in Items(rep, k) :
                    external(z) # external(x) => semanticSubject(k, z) # semanticSubject(k, x)
<1>1. PICK x \in Items(rep, d.fromKind), y \in Items(rep, d.toKind) :
         x.ref = d.from /\ validateComparisonRelationship(rep, d, x, y)
  BY DEF Validate, validateRelationships, Comparisons
<1>2. comparable(rep, d, x, y)
  BY <1>1 DEF validateComparisonRelationship
<1>3. observation(d.fromKind) /\ coverageDifferenceShape(rep, d.fromKind, x, y)
  BY <1>2 DEF comparable
<1>4. QED
  BY <1>1, <1>3 DEF observation, coverageDifferenceShape

LEMMA ValidExcludesBoth ==
    ASSUME NEW rep, Validate(rep),
           NEW e \in Range(rep.relationships), NEW d \in Range(rep.relationships),
           e.type = "corroborates", d.type = "disagrees-with"
    PROVE  d.from \notin {e.from, e.to}
<1>1. PICK k \in {"operation", "resource"} : \E x, y \in Items(rep, k) :
         /\ x.ref = e.from /\ y.ref = e.to /\ external(x) # external(y)
         /\ semanticSubject(k, x) = semanticSubject(k, y)
  BY CorroborationRelates
<1>2. PICK x \in Items(rep, k), y \in Items(rep, k) :
         /\ x.ref = e.from /\ y.ref = e.to /\ external(x) # external(y)
         /\ semanticSubject(k, x) = semanticSubject(k, y)
  BY <1>1
<1>3. PICK l \in {"operation", "resource"} : \E z \in Items(rep, l) :
         /\ z.ref = d.from
         /\ \A w \in Items(rep, l) :
               external(w) # external(z) => semanticSubject(l, w) # semanticSubject(l, z)
  BY DisagreementExcludes
<1>4. PICK z \in Items(rep, l) :
         /\ z.ref = d.from
         /\ \A w \in Items(rep, l) :
               external(w) # external(z) => semanticSubject(l, w) # semanticSubject(l, z)
  BY <1>3
<1>5. ASSUME d.from = e.from PROVE FALSE
  <2>1. l = k /\ z = x
    BY <1>2, <1>4, <1>5, SameObservation
  <2>2. QED
    BY <1>2, <1>4, <2>1
<1>6. ASSUME d.from = e.to PROVE FALSE
  <2>1. l = k /\ z = y
    BY <1>2, <1>4, <1>6, SameObservation
  <2>2. QED
    BY <1>2, <1>4, <2>1
<1>7. QED
  BY <1>5, <1>6

\* A written report never calls one observation both corroborated by the other
\* side and unknown to it, whatever the importer compared and in whatever order.
THEOREM NeverBothTheorem == Spec => []NeverBoth
<1>1. IInv => NeverBoth
  BY ValidExcludesBoth DEF IInv, WrittenIsValid, NeverBoth
<1>2. QED
  BY <1>1, Inductive, PTL

==============================================================================
