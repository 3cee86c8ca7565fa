------------------------------ MODULE MCScanner ------------------------------
(***************************************************************************)
(* Plugins for the scanner: each is there for a case of the analyzers, the *)
(* coverage or the validator; together they reach every one.               *)
(***************************************************************************)
EXTENDS Scanner

path(ext, segments, git, stable) ==
    [ext |-> ext, segments |-> segments, words |-> {}, git |-> git, stable |-> stable]

\* In the order of their names.  RunSh is run/a.sh and UtilSh run_a.sh: they have
\* one stable id, as have the arguments TmpA and TmpB.
Hook == 1  Panel == 2  Service == 3  Tool == 4  Helper == 5  MCManifest == 6
RunSh == 7  UtilSh == 8  TestSh == 9
MCPath == <<path("sample", {".git", "hooks"}, "inert", 1), path("qml", {}, "none", 2),
            path("service", {}, "none", 3), path("", {"bin"}, "none", 4),
            path("py", {}, "none", 5), path("json", {}, "none", 6), path("sh", {}, "none", 7),
            path("sh", {}, "none", 7), path("sh", {"tests"}, "none", 8)>>

arg(domain, option, isPath, dynamic, words, stable) ==
    [domain |-> domain, option |-> option, path |-> isPath, dynamic |-> dynamic,
     words |-> words, stable |-> stable, size |-> 2]

Domain == 1  SSH == 2  Bashrc == 3  Root == 4  RF == 5  Variable == 6
DashC == 7  Program == 8  TmpA == 9  TmpB == 10  Enable == 11  Long == 12
MCArg == <<arg(51, FALSE, FALSE, FALSE, {}, 11), arg(0, FALSE, TRUE, FALSE, {"ssh"}, 12),
           arg(0, FALSE, TRUE, FALSE, {"bashrc"}, 13), arg(0, FALSE, TRUE, FALSE, {"/"}, 14),
           arg(0, TRUE, FALSE, FALSE, {"r"}, 15), arg(0, FALSE, TRUE, TRUE, {}, 16),
           arg(0, TRUE, FALSE, FALSE, {"-c"}, 17), arg(0, FALSE, FALSE, FALSE, {"pipes"}, 18),
           arg(0, FALSE, TRUE, FALSE, {}, 19), arg(0, FALSE, TRUE, FALSE, {}, 19),
           arg(0, FALSE, FALSE, FALSE, {"enable"}, 20),
           [arg(0, FALSE, FALSE, TRUE, {}, 21) EXCEPT !.size = 6]>>

call(line, command, args) ==
    [line |-> line, command |-> command, args |-> args, dynamic |-> command = "", text |-> TRUE]
pipe(line, left, right) == [line |-> line, left |-> left, right |-> right, text |-> TRUE]

document == [schemaVersion |-> 1, validID |-> TRUE, named |-> TRUE, size |-> 5, kinds |-> <<"panel">>,
             entryPoints |-> [panel |-> [path |-> Panel, safe |-> TRUE]]]
source == [kind |-> "regular", read |-> "source", label |-> 5, libraries |-> FALSE, parses |-> TRUE,
           shebang |-> {}, names |-> {}, calls |-> <<>>, pipes |-> <<>>, imperative |-> FALSE,
           document |-> document]
declaring(doc) == [source EXCEPT !.document = doc]
lost(how) == [source EXCEPT !.read = how]
naming(S) == [source EXCEPT !.names = S]
calling(s) == [source EXCEPT !.calls = s]
base == MCManifest :> source @@ Panel :> naming({RunSh})

Chain == base @@ RunSh :> naming({UtilSh, TestSh}) @@ UtilSh :> [naming({Helper, RunSh}) EXCEPT !.parses = FALSE]
         @@ Helper :> source @@ TestSh :> [calling(<<call(1, "sudo", <<>>)>>) EXCEPT !.names = {Helper}]
Diamond == MCManifest :> source @@ Panel :> [naming({RunSh, UtilSh}) EXCEPT !.imperative = TRUE]
           @@ RunSh :> naming({Helper}) @@ UtilSh :> naming({Helper, Panel}) @@ Helper :> naming({RunSh})
Unreached == MCManifest :> [source EXCEPT !.document.entryPoints.panel.safe = FALSE,
                                          !.document.kinds = <<"panel", "bar">>,
                                          !.document.validID = FALSE]
             @@ Panel :> lost("limited") @@ RunSh :> naming({Helper}) @@ Helper :> naming({RunSh}) @@ TestSh :> naming({RunSh})
Busy == base @@ RunSh :> [calling(<<call(1, "rm", <<RF, Root>>), call(2, "sudo", <<>>),
                                    call(3, "curl", <<Domain>>), call(3, "sh", <<>>),
                                    call(4, "cat", <<SSH>>)>>)
                          EXCEPT !.pipes = <<pipe(3, 3, 4), pipe(5, 0, 1)>>]
Writers == Panel :> source @@ base @@ RunSh :> calling(<<call(1, "touch", <<Bashrc, TmpA>>), call(2, "cp", <<TmpA, Bashrc>>),
                                      call(3, "mv", <<TmpA, TmpB>>), call(4, "rm", <<TmpA>>)>>)
Declared == base @@ RunSh :> calling(<<call(1, "systemctl", <<Enable>>), call(2, "crontab", <<>>),
                                       call(3, "eval", <<Variable>>), call(4, "curl", <<Variable>>),
                                       call(5, "rm", <<Variable>>), call(6, "rm", <<SSH>>)>>)
InQML == MCManifest :> source
         @@ Panel :> calling(<<call(1, "", <<>>), call(2, "bash", <<DashC, Program>>),
                               call(3, "sh", <<DashC, Variable>>)>>)
Native  == base @@ Tool :> [lost("elf") EXCEPT !.libraries = TRUE] @@ RunSh :> naming({Tool})
Static  == base @@ Tool :> lost("elf")
Damaged == base @@ Tool :> lost("brokenELF")
Unit    == base @@ Service :> source
UnitOfShell == base @@ Service :> [calling(<<call(1, "sudo", <<>>)>>) EXCEPT !.shebang = {"sh"}]
UnitOfNode  == base @@ Service :> [source EXCEPT !.shebang = {"node"}]
UnitUnread  == base @@ Service :> [lost("limited") EXCEPT !.shebang = {"sh"}]
Folder  == base @@ RunSh :> [lost("none") EXCEPT !.kind = "directory"]
Kindless == Panel :> source @@ MCManifest :> declaring([document EXCEPT !.kinds = <<>>])
ManyKinds   == Panel :> source @@ MCManifest :> declaring([document EXCEPT !.kinds = <<"panel", "a", "b">>])
ManyEntries == Panel :> source
               @@ MCManifest :> declaring([document EXCEPT !.entryPoints =
                                             [k \in {"panel", "a", "b"} |-> [path |-> Panel, safe |-> TRUE]]])
Wordy       == Panel :> source @@ MCManifest :> declaring([document EXCEPT !.size = 6])
TwoPipes == base @@ RunSh :> [calling(<<call(1, "curl", <<>>), call(1, "sh", <<>>)>>)
                              EXCEPT !.pipes = <<pipe(1, 1, 2), pipe(1, 1, 2)>>]
Invalid == base @@ RunSh :> calling(<<[call(1, "sudo", <<>>) EXCEPT !.text = FALSE]>>)
LongPipe == base @@ RunSh :> [calling(<<call(1, "curl", <<>>), call(1, "sh", <<>>)>>)
                              EXCEPT !.pipes = <<[pipe(1, 1, 2) EXCEPT !.text = FALSE]>>]
LongWord == base @@ RunSh :> calling(<<call(1, "git", <<Long>>)>>)
LongList == base @@ RunSh :> calling(<<call(1, "rm", <<TmpA, SSH, Root>>)>>)
LongLink == base @@ Tool :> [lost("none") EXCEPT !.kind = "symlink", !.label = 6]
Limited == Panel :> lost("limited") @@ Helper :> lost("failed") @@ RunSh :> lost("skipped")
           @@ Tool :> [lost("none") EXCEPT !.kind = "symlink"]
NoDocument == Hook :> [source EXCEPT !.shebang = {"sh"}] @@ MCManifest :> [source EXCEPT !.parses = FALSE]
              @@ Tool :> [source EXCEPT !.shebang = {"node"}] @@ RunSh :> source
Excluded == base @@ RunSh :> source @@ Tool :> source
Same     == base @@ RunSh :> calling(<<call(1, "cat", <<TmpA, TmpB>>)>>)
Verbose  == base @@ RunSh :> calling(<<call(1, "git", <<TmpA, TmpA, TmpA, TmpA>>)>>)
Flood    == base @@ RunSh :> calling([i \in 1..5 |-> call(i, "rm", <<SSH, TmpA>>)])
Observed == base @@ RunSh :> calling(<<call(1, "git", <<Domain>>), call(2, "git", <<Domain>>)>>)

MCPlugins == <<base, Chain, Diamond, Unreached, Busy, Writers, Declared, InQML, Native, Static,
               Damaged, Unit, UnitOfShell, UnitOfNode, UnitUnread, Folder, Kindless, ManyKinds,
               ManyEntries, Wordy, TwoPipes, Invalid, LongPipe, LongWord, LongList, LongLink, Limited,
               NoDocument, Excluded, Same, Verbose, Flood, Observed>>

-----------------------------------------------------------------------------
auditInput(id) == [id |-> id, type |-> "omarchy-audit", version |-> OmarchyAuditInputVersion,
                   documented |-> TRUE, subject |-> {}]
auditProvenance(rule, analyzer, version) ==
    [rule |-> rule, analyzer |-> analyzer, version |-> version, source |-> "omarchy-audit"]
observed(n, command) ==
    [id |-> <<rank("op"), 90, n, n>>, ref |-> <<>>, command |-> command, args |-> <<>>,
     dynamic |-> FALSE, scope |-> "unknown", confidence |-> "high", evidence |-> evidence(RunSh, n, TRUE),
     provenance |-> auditProvenance("omarchy-audit-observation/v1", OmarchyAuditAnalyzer,
                                    OmarchyAuditInputVersion)]
unbound(id) ==
    [id |-> <<rank("unknown"), id>>, ref |-> <<>>, reason |-> "external-input-unbound",
     category |-> ExternalEvidenceBindingCategory, scope |-> "unknown", confidence |-> "high",
     evidence |-> <<[evidence(RunSh, 0, TRUE) EXCEPT !.input = id]>>, origins |-> <<>>,
     affected |-> <<>>, suppressed |-> <<ExternalSnapshotBindingRule>>,
     provenance |-> auditProvenance(ExternalBindingAssessmentRule, DeterministicAnalyzer,
                                    DevelopmentAnalyzerVersion)]

MCAudits ==
    <<[inputs |-> <<auditInput(2)>>, operations |-> <<observed(1, "git"), observed(2, "curl")>>,
       unknowns |-> <<unbound(2)>>],
      [inputs |-> <<auditInput(2)>>, operations |-> <<observed(1, "git")>>, unknowns |-> <<>>],
      [inputs |-> <<[auditInput(2) EXCEPT !.version = "other"]>>, operations |-> <<>>,
       unknowns |-> <<unbound(2)>>]>>

command(plugin, audit) == [plugin |-> plugin, audit |-> audit, usage |-> TRUE, scans |-> TRUE,
                           sandboxed |-> TRUE, limited |-> TRUE]
MCInputs ==
    {command(p, 0) : p \in DOMAIN MCPlugins}
    \cup {command(Len(MCPlugins), a) : a \in DOMAIN MCAudits}
    \cup {command(1, 2),
          [command(1, 0) EXCEPT !.usage = FALSE], [command(1, 0) EXCEPT !.limited = FALSE],
          [command(1, 0) EXCEPT !.scans = FALSE],
          [command(1, 0) EXCEPT !.sandboxed = FALSE, !.limited = FALSE]}

MCMaxEntries == [inventory |-> 20, operations |-> 6, resources |-> 20, findings |-> 8,
                 unknowns |-> 20, relationships |-> 40, limitations |-> 20, errors |-> 10]
==============================================================================
