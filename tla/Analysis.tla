------------------------------- MODULE Analysis -------------------------------
(***************************************************************************)
(* internal/analyze: what the scanner derives from the files it retained,  *)
(* as operators from the retained files to records of the report.          *)
(*                                                                         *)
(* Paths and arguments are numbers in the order of their strings; Path and *)
(* Arg say what the analyzers ask of them.  A parsed file is the sequence  *)
(* of its calls and pipelines, and the set of paths its text names: the    *)
(* shell parser and the QML lexer themselves are not modelled.             *)
(*                                                                         *)
(* A string of the plugin that reaches the report has a size, the bytes of *)
(* its encoding; one that is not UTF-8 is larger than any string may be.   *)
(* The fixed words around it in an id or an explanation are not counted.   *)
(***************************************************************************)
EXTENDS Integers, Sequences, SequencesExt

CONSTANTS
    Path,      \* path -> [ext, segments, words, git, stable]
    Arg,       \* argument -> [domain, option, path, dynamic, words, stable, size]
    Manifest   \* the path "manifest.json"

Paths == DOMAIN Path

\* The words of ids and codes, in the order of their strings.
Lexicon ==
    <<"analysis-coverage-incomplete", "connect", "corroborates", "delete", "derived-from",
      "disagrees-with", "download-execute", "duplicates", "dynamic-eval", "elf-parse-error",
      "established-by", "filesystem-path", "finding", "go-semantic-analysis-unavailable",
      "inferred-from", "javascript-semantic-analysis-unavailable",
      "manifest", "manifest-parse-error", "max-file-bytes", "missing-manifest", "modify",
      "native-binary", "native-binary-behavior", "network-domain", "op", "operation",
      "persistence", "privilege", "python-semantic-analysis-unavailable",
      "qml-imperative-command-analysis-unavailable", "qml-shell", "read",
      "repository-tooling", "resource", "runtime", "sensitive-path",
      "shell-parse-error", "unknown", "unknown-because", "write">>
rank(w) == IF \E i \in DOMAIN Lexicon : Lexicon[i] = w
           THEN CHOOSE i \in DOMAIN Lexicon : Lexicon[i] = w ELSE 0

\* Values that are no argument: the mechanisms addPersistence is given, and the
\* place of a value that is known only at run time.
SystemdEnable == 101
CronConfiguration == 102
DynamicValue == 103    \* the text "<dynamic>"
Dynamic == "<dynamic>"

\* Ids are sequences of numbers, in the order of the strings they stand for.
Before(a, b) ==
    \E i \in 1..Len(b) :
       /\ \A j \in 1..(i - 1) : j \in DOMAIN a /\ a[j] = b[j]
       /\ i \in DOMAIN a => a[i] < b[i]
sortById(s) == SortSeq(s, LAMBDA x, y : Before(x.id, y.id))

Extended(res, field, item) == [res EXCEPT ![field] = Append(@, item)]

NoManifest == [present |-> FALSE, kinds |-> <<>>, entryPoints |-> <<>>, size |-> 0,
               null |-> FALSE]
NoResult == [manifest |-> NoManifest, operations |-> <<>>, resources |-> <<>>,
             findings |-> <<>>, unknowns |-> <<>>, limitations |-> <<>>]

DevelopmentAnalyzerVersion == "development"
sourceProvenance(rule) ==
    [rule |-> rule, analyzer |-> "plug-prejudice/deterministic",
     version |-> DevelopmentAnalyzerVersion, source |-> "target-source"]

\* Evidence in a file; bindEvidenceInputs fills the input in.  text says whether
\* the line it quotes and the call it prints may be in a report.
evidence(p, line, text) == [input |-> 0, path |-> p, line |-> line, text |-> text]

\* size is that of the values its explanation quotes.
finding(id, severity, confidence, category, ev, related, rule, size) ==
    [id |-> <<rank("finding")>> \o id, ref |-> <<>>, claim |-> "fact", severity |-> severity,
     confidence |-> confidence, category |-> category, scope |-> "",
     evidence |-> <<ev>>, related |-> related, size |-> size,
     provenance |-> sourceProvenance(rule)]

limitation(code, p, scope) == [code |-> code, path |-> p, scope |-> scope]

-----------------------------------------------------------------------------
(* Path classes.                                                           *)

stablePathID(v) == IF v \in DOMAIN Arg THEN Arg[v].stable ELSE v
sizeOf(v) == IF v \in DOMAIN Arg THEN Arg[v].size ELSE 0
totalSize(args) == FoldLeft(LAMBDA n, a : n + sizeOf(a), 0, args)

isInertGitMetadata(p) == Path[p].git = "inert"
isGitMetadataPath(p)  == Path[p].git # "none"

toolingPath(p) ==
    \/ Path[p].segments \cap {".github", "test", "tests", "testdata", "docs", "examples"} # {}
    \/ Path[p].words \cap {"build", "release", "package", "validate", "lint", "test", "check"} # {}

\* A shebang is the set of interpreter names its line contains; there is none
\* where the content was not retained.
shebang(p, f) == IF f[p].read = "source" THEN f[p].shebang ELSE {}
isShell(p, f) == Path[p].ext \in {"sh", "bash", "zsh"} \/ "sh" \in shebang(p, f)

languageOfExtension ==
    [py |-> "python", pyw |-> "python", js |-> "javascript", mjs |-> "javascript",
     cjs |-> "javascript", jsx |-> "javascript", ts |-> "typescript", mts |-> "typescript",
     cts |-> "typescript", tsx |-> "typescript", go |-> "go", rb |-> "ruby",
     pl |-> "perl", pm |-> "perl", lua |-> "lua", php |-> "php"]

unsupportedLanguage(p, f) ==
    LET candidates == <<"python", "node", "ruby", "perl", "lua", "php">>
        found == SelectSeq(candidates, LAMBDA c : c \in shebang(p, f))
    IN  CASE Path[p].ext \in DOMAIN languageOfExtension -> languageOfExtension[Path[p].ext]
          [] Path[p].ext \notin DOMAIN languageOfExtension /\ found = <<>> -> ""
          [] OTHER -> IF found[1] = "node" THEN "javascript" ELSE found[1]

\* The paths whose bytes inventory.Scan hands to the analyzers, in path order.
contents(f) == {p \in DOMAIN f : f[p].read = "source"}
ordered(S)  == SelectSeq([p \in Paths |-> p], LAMBDA p : p \in S)
Inspected   == {"source", "elf", "brokenELF"}

-----------------------------------------------------------------------------
(* The manifest.                                                           *)

known == {"bar", "bar-widget", "menu", "overlay", "panel", "service"}
required(kind) == IF kind = "bar-widget" THEN "barWidget" ELSE kind

\* An entry point is the path it cleans to, and whether it was clean and relative.
safeEntryPoint(entry) == entry.safe

\* The contract problems of a parsed manifest, one finding each.
validateManifest(doc, f) ==
    LET broken(kind) ==
            /\ kind \in known
            /\ \/ required(kind) \notin DOMAIN doc.entryPoints
               \/ ~safeEntryPoint(doc.entryPoints[required(kind)])
               \/ doc.entryPoints[required(kind)].path \notin contents(f)
    IN  SelectSeq(<<"schema", "id", "name", "kinds">>,
                  LAMBDA c : CASE c = "schema" -> doc.schemaVersion # 1
                               [] c = "id"     -> ~doc.validID
                               [] c = "name"   -> ~doc.named
                               [] c = "kinds"  -> doc.kinds = <<>>)
        \o SelectSeq(doc.kinds, broken)

manifestFinding(res, n) ==
    Extended(res, "findings",
             finding(<<rank("manifest"), n>>, "medium", "high", "manifest",
                     evidence(Manifest, 0, TRUE), <<>>, "manifest/v1", res.manifest.size))

analyzeManifest(f, res) ==
    IF Manifest \notin contents(f)
    THEN Extended(res, "limitations", limitation("missing-manifest", 0, "runtime"))
    ELSE IF ~f[Manifest].parses
    THEN manifestFinding(
             Extended(res, "limitations", limitation("manifest-parse-error", Manifest, "")), 0)
    ELSE LET doc == f[Manifest].document
             found == [res EXCEPT !.manifest =
                          [present |-> TRUE, kinds |-> doc.kinds, size |-> doc.size,
                           entryPoints |-> doc.entryPoints, null |-> FALSE]]
         IN  FoldLeft(manifestFinding, found,
                      [n \in DOMAIN validateManifest(doc, f) |-> n])

-----------------------------------------------------------------------------
(* Shell and QML.                                                          *)

isDownloader(command)  == command \in {"curl", "wget"}
isInterpreter(command) == command \in {"sh", "bash", "zsh", "python", "python3", "node"}

operation(p, call, n, rule) ==
    LET dynamic == call.dynamic \/ \E i \in DOMAIN call.args : Arg[call.args[i]].dynamic
    IN  [id |-> <<rank("op"), Path[p].stable, call.line, n>>, ref |-> <<>>,
         command |-> IF call.command = "" THEN Dynamic ELSE call.command,
         args |-> call.args,
         dynamic |-> dynamic \/ (call.command = "" /\ rule = "qml-operation-extraction/v1"),
         scope |-> "", confidence |-> IF call.command = "" THEN "medium" ELSE "high",
         evidence |-> evidence(p, call.line, call.text),
         provenance |-> sourceProvenance(rule)]

classifyCall(res, op) ==
    LET add(word, severity, category) ==
            Extended(res, "findings",
                     finding(<<rank(word)>> \o op.id, severity, op.confidence, category,
                             op.evidence, <<op.id>>, "shell-ast/v1", 0))
    IN  CASE op.command \in {"sudo", "pkexec", "su", "doas"} ->
                add("privilege", "high", "privilege-escalation")
          [] op.command = "eval" -> add("dynamic-eval", "medium", "dynamic-execution")
          [] OTHER -> res

\* An inline program for an interpreter; "pipes" among the program's words is a
\* parsed pipeline from a downloader to an interpreter.
classifyQMLShell(res, op) ==
    IF /\ isInterpreter(op.command) /\ Len(op.args) >= 2
       /\ "-c" \in Arg[op.args[1]].words
    THEN LET piped == "pipes" \in Arg[op.args[2]].words
         IN  Extended(res, "findings",
                finding(<<rank("qml-shell")>> \o op.id, IF piped THEN "high" ELSE "medium",
                        op.confidence,
                        IF piped THEN "download-and-execute" ELSE "shell-execution",
                        op.evidence, <<op.id>>, "qml-lexical-shell-ast/v1", 0))
    ELSE res

analyzeShellCall(p, res, call) ==
    LET op == operation(p, call, Len(res.operations) + 1, "shell-operation-extraction/v1")
    IN  classifyCall(Extended(res, "operations", op), op)

analyzeQMLCommand(p, res, call) ==
    LET op == operation(p, call, Len(res.operations) + 1, "qml-operation-extraction/v1")
    IN  classifyQMLShell(classifyCall(Extended(res, "operations", op), op), op)

analyzePipe(p, calls, res, pipe) ==
    IF /\ pipe.left # 0 /\ pipe.right # 0
       /\ isDownloader(calls[pipe.left].command) /\ isInterpreter(calls[pipe.right].command)
    THEN Extended(res, "findings",
             finding(<<rank("download-execute"), Path[p].stable, pipe.line>>, "high", "high",
                     "download-and-execute",
                     evidence(p, pipe.line, pipe.text),
                     <<calls[pipe.left].id, calls[pipe.right].id>>, "shell-ast/v1", 0))
    ELSE res

analyzeShell(p, f, res) ==
    IF ~f[p].parses
    THEN Extended(res, "limitations", limitation("shell-parse-error", p, ""))
    ELSE LET called == FoldLeft(LAMBDA r, c : analyzeShellCall(p, r, c), res, f[p].calls)
             calls == SubSeq(called.operations, Len(res.operations) + 1,
                             Len(called.operations))
         IN  FoldLeft(LAMBDA r, pipe : analyzePipe(p, calls, r, pipe), called, f[p].pipes)

analyzeQML(p, f, res) ==
    LET called == FoldLeft(LAMBDA r, c : analyzeQMLCommand(p, r, c), res, f[p].calls)
    IN  IF f[p].imperative
        THEN Extended(called, "limitations",
                limitation("qml-imperative-command-analysis-unavailable", p, ""))
        ELSE called

-----------------------------------------------------------------------------
(* Capabilities of the operations.                                         *)

networkCommand(command) ==
    command \in {"curl", "wget", "git", "ssh", "scp", "sftp", "rsync", "nc", "ncat", "socat"}

literalDomain(a) == Arg[a].domain
pathOperands(args) ==
    SelectSeq(args, LAMBDA a : ~Arg[a].option /\ literalDomain(a) = 0 /\ Arg[a].path)
sensitivePath(a)   == "ssh" \in Arg[a].words
persistencePath(a) == "bashrc" \in Arg[a].words
recursiveRemoval(args) == \E i \in DOMAIN args : Arg[args[i]].option /\ "r" \in Arg[args[i]].words

\* seen holds the keys of the resources added so far.
addResource(res, op, kind, access, value, sensitive, dynamic) ==
    IF \E i \in DOMAIN res.resources :
          LET x == res.resources[i]
          IN  <<x.operation, x.kind, x.access, x.value>> = <<op.id, kind, access, value>>
    THEN res
    ELSE Extended(res, "resources",
            [id |-> <<rank("resource")>> \o op.id
                     \o <<rank(kind), rank(access), stablePathID(value)>>, ref |-> <<>>,
             kind |-> kind, access |-> access, value |-> value, sensitive |-> sensitive,
             dynamic |-> dynamic, scope |-> "", confidence |-> op.confidence,
             evidence |-> op.evidence, operation |-> op.id,
             provenance |-> sourceProvenance("command-capability/v1")])

addPersistence(res, op, mechanism) ==
    Extended(addResource(res, op, "persistence", "modify", mechanism, FALSE, op.dynamic),
             "findings",
             finding(<<rank("persistence")>> \o op.id \o <<stablePathID(mechanism)>>,
                     "medium", op.confidence, "persistence", op.evidence, <<op.id>>,
                     "command-capability/v1", sizeOf(mechanism)))

addPathResource(op, access, res, value) ==
    LET with  == addResource(res, op, "filesystem-path", access, value,
                             sensitivePath(value), Arg[value].dynamic)
        found == IF sensitivePath(value) /\ with # res
                 THEN Extended(with, "findings",
                         finding(<<rank("sensitive-path")>> \o op.id \o <<stablePathID(value)>>,
                                 "high", op.confidence, "credential-access", op.evidence,
                                 <<op.id>>, "command-capability/v1", sizeOf(value)))
                 ELSE with
    IN  IF access # "read" /\ persistencePath(value)
        THEN addPersistence(found, op, value) ELSE found

addPathResources(res, op, access, operands) ==
    FoldLeft(LAMBDA r, a : addPathResource(op, access, r, a), res, operands)

addDestructiveFinding(res, op, operands) ==
    LET has(T(_)) == \E i \in DOMAIN operands : T(operands[i])
        severity ==
            CASE has(LAMBDA a : "/" \in Arg[a].words) -> "critical"
              [] ~has(LAMBDA a : "/" \in Arg[a].words)
                 /\ has(LAMBDA a : sensitivePath(a) \/ persistencePath(a)
                                   \/ Arg[a].words \cap {"/etc", "/home"} # {}) -> "high"
              [] OTHER -> IF recursiveRemoval(op.args) \/ op.dynamic THEN "medium" ELSE "low"
    IN  Extended(res, "findings",
            finding(<<rank("delete")>> \o op.id, severity, op.confidence,
                    "destructive-operation", op.evidence, <<op.id>>, "command-capability/v1",
                    totalSize(operands)))

networkCapabilities(res, op) ==
    LET domains == SelectSeq(op.args, LAMBDA a : literalDomain(a) # 0)
        add(r, domain, dynamic) ==
            addResource(r, op, "network-domain", "connect", domain, FALSE, dynamic)
    IN  CASE ~networkCommand(op.command) -> res
          [] networkCommand(op.command) /\ domains = <<>> /\ op.dynamic -> add(res, DynamicValue, TRUE)
          [] OTHER -> FoldLeft(LAMBDA r, a : add(r, literalDomain(a), FALSE), res, domains)

commandCapabilities(res, op) ==
    LET operands == pathOperands(op.args)
        last == IF operands = <<>> THEN <<>> ELSE <<operands[Len(operands)]>>
    IN  CASE op.command \in {"cat", "head", "tail", "readlink"} ->
                addPathResources(res, op, "read", operands)
          [] op.command \in {"touch", "mkdir", "tee", "truncate", "chmod", "chown"} ->
                addPathResources(res, op, "write", operands)
          [] op.command \in {"rm", "unlink", "rmdir"} /\ operands # <<>> ->
                addDestructiveFinding(addPathResources(res, op, "delete", operands), op, operands)
          [] op.command \in {"cp", "install"} /\ Len(operands) > 1 ->
                addPathResources(addPathResources(res, op, "read", Front(operands)),
                                 op, "write", last)
          [] op.command = "mv" /\ Len(operands) > 1 ->
                addPathResources(addPathResources(res, op, "delete", <<operands[1]>>),
                                 op, "write", last)
          [] op.command = "systemctl"
             /\ \E i \in DOMAIN op.args : Arg[op.args[i]].words \cap {"enable", "reenable"} # {} ->
                addPersistence(res, op, SystemdEnable)
          [] op.command = "crontab" -> addPersistence(res, op, CronConfiguration)
          [] OTHER -> res

deriveCapabilities(res) ==
    LET derived == FoldLeft(LAMBDA r, op : commandCapabilities(networkCapabilities(r, op), op),
                            res, res.operations)
    IN  [derived EXCEPT !.resources = sortById(@)]

\* Sources up to annotateScopes.
analyzeSources(f) ==
    LET analyze(res, p) ==
            CASE isInertGitMetadata(p) -> res
              [] ~isInertGitMetadata(p) /\ isShell(p, f) -> analyzeShell(p, f, res)
              [] ~isInertGitMetadata(p) /\ ~isShell(p, f) /\ Path[p].ext = "qml" ->
                    analyzeQML(p, f, res)
              [] OTHER -> res
    IN  deriveCapabilities(FoldLeft(analyze, analyzeManifest(f, NoResult), ordered(contents(f))))

-----------------------------------------------------------------------------
(* Scopes.  The loop of runtimeReferencedPaths is module References.       *)

\* The candidates the text of p names: files = TRUE where the inventory's
\* regular files are candidates too.
candidates(f, files) ==
    {p \in DOMAIN f : ~isGitMetadataPath(p)
                      /\ (p \in contents(f) \/ (files /\ f[p].kind = "regular"))}
markTextReferences(f, files, p) ==
    {c \in candidates(f, files) : c # p /\ ~toolingPath(c) /\ c \in f[p].names}
marksOf(f, files) == [p \in contents(f) |-> markTextReferences(f, files, p)]

seedsOf(f, files, manifest) ==
    LET entries == {entry.path : entry \in Range(manifest.entryPoints)} \cap Paths
        qml == {p \in contents(f) : Path[p].ext = "qml" /\ ~toolingPath(p)}
    IN  entries \cup qml \cup UNION {markTextReferences(f, files, p) : p \in qml}

scopeForPath(p, refs) ==
    IF toolingPath(p) THEN "repository-tooling"
    ELSE IF p \in refs THEN "runtime" ELSE "unknown"

\* One scope the related operations share, else "unknown".
relatedScope(ids, operations) ==
    LET scopes == {operations[i].scope : i \in {j \in DOMAIN operations :
                                                  operations[j].id \in Range(ids)}}
    IN  IF /\ Range(ids) \subseteq {operations[i].id : i \in DOMAIN operations}
           /\ \E s \in scopes : scopes = {s}
        THEN CHOOSE s \in scopes : TRUE ELSE "unknown"

annotateScopes(res, refs) ==
    LET set(x, scope) == [x EXCEPT !.scope = scope]
        ops == [i \in DOMAIN res.operations |->
                  set(res.operations[i], scopeForPath(res.operations[i].evidence.path, refs))]
        scoped(x, related) ==
            set(x, IF related # <<>> THEN relatedScope(related, ops)
                   ELSE scopeForPath(x.evidence[1].path, refs))
        unscoped(x) == x.scope = "" /\ x.path # 0
    IN  [res EXCEPT
           !.operations = ops,
           !.resources = [i \in DOMAIN @ |-> scoped(@[i], <<@[i].operation>>)],
           !.findings  = [i \in DOMAIN @ |-> scoped(@[i], @[i].related)],
           !.unknowns  = [i \in DOMAIN @ |-> scoped(@[i], @[i].affected)],
           !.limitations = [i \in DOMAIN @ |-> IF unscoped(@[i])
                                              THEN set(@[i], scopeForPath(@[i].path, refs))
                                              ELSE @[i]]]

\* Mutant: the references of the first call are not followed for the languages.
addLanguageCoverageLimitationsUnfollowed(f, refs, res) ==
    LET named(p) == ~toolingPath(p) /\ ~isInertGitMetadata(p) /\ unsupportedLanguage(p, f) # ""
        added == SelectSeq(ordered(contents(f)), named)
    IN  [res EXCEPT !.limitations = @ \o
           [i \in DOMAIN added |->
              limitation(unsupportedLanguage(added[i], f) \o "-semantic-analysis-unavailable",
                         added[i], scopeForPath(added[i], seedsOf(f, FALSE, res.manifest)))]]

addLanguageCoverageLimitations(f, refs, res) ==
    LET named(p) == ~toolingPath(p) /\ ~isInertGitMetadata(p) /\ unsupportedLanguage(p, f) # ""
        added == SelectSeq(ordered(contents(f)), named)
    IN  [res EXCEPT !.limitations = @ \o
           [i \in DOMAIN added |->
              limitation(unsupportedLanguage(added[i], f) \o "-semantic-analysis-unavailable",
                         added[i], scopeForPath(added[i], refs))]]

\* Inventory up to annotateScopes.
nativeUnknowns(f, res) ==
    LET add(r, p) ==
            IF f[p].read # "elf" THEN r
            ELSE Extended(Extended(r, "unknowns",
                    [id |-> <<rank("native-binary"), Path[p].stable>>, ref |-> <<>>,
                     reason |-> "native-behavior", category |-> "native-binary",
                     scope |-> "unknown", confidence |-> "high",
                     evidence |-> <<evidence(p, 0, TRUE)>>, origins |-> <<>>,
                     affected |-> <<>>, suppressed |-> <<>>,
                     provenance |-> sourceProvenance("elf-metadata/v1")]),
                    "limitations", limitation("native-binary-behavior", p, ""))
    IN  FoldLeft(add, res, ordered(DOMAIN f))

-----------------------------------------------------------------------------
(* Coverage.                                                               *)

coverageRelevant(p, f) ==
    p = Manifest \/ f[p].read \in {"elf", "brokenELF"} \/ Path[p].ext = "qml" \/ isShell(p, f)
    \/ unsupportedLanguage(p, f) # ""

\* Mutant: a limitation does not make a file partial.
dispositionOfUnlimited(p, f, limitations, errors) ==
    CASE f[p].kind # "regular" \/ ~coverageRelevant(p, f) -> "not-applicable"
      [] OTHER -> IF f[p].read \notin Inspected \/ unsupportedLanguage(p, f) # ""
                  THEN "unanalyzed" ELSE IF f[p].read = "elf" THEN "partial" ELSE "analyzed"

dispositionOf(p, f, limitations, errors) ==
    LET named(s) == \E i \in DOMAIN s : s[i].path = p
    IN  CASE f[p].kind # "regular" \/ ~coverageRelevant(p, f) -> "not-applicable"
          [] OTHER ->
             IF named(errors) \/ f[p].read \notin Inspected \/ unsupportedLanguage(p, f) # ""
             THEN "unanalyzed"
             ELSE IF f[p].read = "elf" \/ named(limitations) THEN "partial" ELSE "analyzed"

\* The collections of an ELF record that recordELF leaves nil: it fills the
\* libraries in and no other.
recordELF(p, f) == IF f[p].read = "elf" THEN {"symbols", "strings", "urls", "capabilities"}
                   ELSE {}

AssignCoverageDispositions(f, limitations, errors) ==
    LET paths == ordered(DOMAIN f)
    IN  [i \in DOMAIN paths |->
           LET d == dispositionOf(paths[i], f, limitations, errors)
           IN  [path |-> paths[i], kind |-> f[paths[i]].kind,
                read |-> f[paths[i]].read, libraries |-> f[paths[i]].libraries,
                label |-> f[paths[i]].label,
                null |-> recordELF(paths[i], f),
                analysis |-> d, reasoned |-> d # "analyzed"]]
==============================================================================
