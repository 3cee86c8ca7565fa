------------------------------ MODULE StableScan ------------------------------
(***************************************************************************)
(* What inventory.Scan promises its caller, without system calls, limits   *)
(* or passes: the tree may change as long as the scan runs, and yet a      *)
(* report that is returned describes the tree of one instant of the scan,  *)
(* whole; a scan that cannot say so returns an empty one with its error.   *)
(* The scan itself changes nothing.  Inventory implements this.            *)
(***************************************************************************)
EXTENDS Naturals, Sequences

CONSTANTS
    Root,       \* the inode the scan starts from
    Paths,      \* the paths the promise is about: sequences of names
    Empty,      \* the report that comes with an error
    None        \* no inode, no value

VARIABLES
    phase,      \* "reading" before the instant, "checking" after it
    tree,       \* the tree now: [node, kids]
    taken,      \* the tree at that instant
    report      \* what the caller gets: [files, limitations, errors, ...]

scanVars == <<phase, tree, taken, report>>

\* The inode a path names in t.
Lookup(t, p) ==
    LET walk[n \in 0 .. Len(p)] ==
          IF n = 0 THEN Root
          ELSE IF walk[n-1] = None \/ t.node[walk[n-1]].kind # "directory"
               THEN None
          ELSE t.kids[walk[n-1]][p[n]]
    IN  walk[Len(p)]

\* The report says nothing of f that is not so in t.
Agrees(t, f) ==
    LET i == Lookup(t, f.path) IN
    /\ i # None
    /\ t.node[i].kind = f.kind
    /\ f.kind # "directory" => /\ t.node[i].mode = f.mode
                               /\ t.node[i].body.size = f.size
    /\ f.body # None => t.node[i].body = f.body

\* The report says that nothing below a directory above p was listed.
SaysCutOff(rep, p) ==
    \E n \in 0 .. Len(p) - 1 :
       {<<"max-depth", SubSeq(p, 1, n)>>, <<"max-files", SubSeq(p, 1, n)>>}
       \intersect rep.limitations # {}

\* The report says why f was not read.
SaysWhy(rep, f) == f.skip \/ \E w \in rep.limitations \union rep.errors : w[2] = f.path

Describes(rep, t) ==
    /\ \A f \in rep.files : Agrees(t, f)
    /\ \A p \in Paths \ {<<>>} :
          Lookup(t, p) # None => (\E f \in rep.files : f.path = p) \/ SaysCutOff(rep, p)
    /\ \A f \in rep.files : f.kind = "regular" => f.inspected \/ SaysWhy(rep, f)

-----------------------------------------------------------------------------
Running == phase \in {"reading", "checking"}

Init == phase = "reading" /\ report = None

\* Others may turn the tree into any other.
Change == Running /\ UNCHANGED <<phase, taken, report>>

\* The instant the report will be about.
Take ==
    /\ phase = "reading" /\ phase' = "checking"
    /\ taken' = tree
    /\ UNCHANGED <<tree, report>>

Return ==
    /\ phase = "checking" /\ phase' = "returned"
    /\ Describes(report', taken)
    /\ UNCHANGED <<tree, taken>>

Fail ==
    /\ Running /\ phase' = "failed"
    /\ report' = Empty
    /\ UNCHANGED <<tree, taken>>

Next == Change \/ Take \/ Return \/ Fail

Spec == Init /\ [][Next]_scanVars

=============================================================================
