------------------------------ MODULE Inventory ------------------------------
(***************************************************************************)
(* The scanner's inventory of an untrusted tree (internal/inventory):      *)
(* scan walks the tree from a pinned root and reads it, then walks it      *)
(* again and compares (verifyTree).  A plugin that is already running may  *)
(* change the tree between any two system calls of the scan.               *)
(*                                                                         *)
(* Every action of the scanner is one system call with the decisions that  *)
(* follow from its result.  The file system is external: inodes with       *)
(* metadata and a body, directories binding names to inodes.  Every change *)
(* of an inode gives it a change time it never had before, so equal        *)
(* metadata means an unchanged inode; a change and revert within one       *)
(* granule of the kernel's clock is outside the model, as it is outside    *)
(* the guarantee the repository documents.                                 *)
(***************************************************************************)
EXTENDS Integers, Sequences, FiniteSets

CONSTANTS
    Ino,                \* inode numbers
    Root,               \* the inode pinned by os.OpenRoot(target)
    Names,              \* entry names: natural numbers, in sorting order
    None,               \* no inode, no value
    Bodies,             \* file contents: records [format, size, id]
    Changes,            \* what others put into the tree: records [kind, body]
    GitDatabase,        \* paths isGitDatabasePath accepts
    Trees,              \* initial file systems: records [node, kids]
    MaxFiles, MaxDepth, MaxFileBytes, MaxReadBytes,
    MaxBinaryFileBytes, MaxBinaryReadBytes,   \* inventory.Limits
    MaxMutations        \* model bound: changes made by others during one scan

Kinds == {"regular", "directory", "symlink", "special"}

\* scan refuses limits that are not positive.
ASSUME LimitsAssumption ==
    /\ MaxFiles \in Nat \ {0} /\ MaxDepth \in Nat \ {0}
    /\ MaxFileBytes \in Nat \ {0} /\ MaxReadBytes \in Nat \ {0}
    /\ MaxBinaryFileBytes \in Nat \ {0} /\ MaxBinaryReadBytes \in Nat \ {0}
    /\ MaxMutations \in Nat

ASSUME TreeAssumption ==
    /\ Root \in Ino /\ None \notin Ino /\ Names \subseteq Nat /\ IsFiniteSet(Names)
    /\ Changes \subseteq [kind : Kinds, body : Bodies]
    /\ \A b \in Bodies : b.format \in {"text", "elf", "bad-elf"} /\ b.size \in Nat
    /\ \A t \in Trees :
          /\ t.node \in [Ino -> [kind : Kinds, mode : {0, 1}, body : Bodies,
                                 ctime : {0}]]
          /\ t.kids \in [Ino -> [Names -> Ino \union {None}]]
          /\ t.node[Root].kind = "directory"

-----------------------------------------------------------------------------
VARIABLES
    (* external: the file system *)
    node,         \* inode -> kind, mode, body, ctime
    kids,         \* inode -> name -> inode, for directories
    now,          \* number of changes so far, the last change time
    (* the walker *)
    pc,           \* the next system call; "ok" and "changed" when scan returned
    stack,        \* open directories: frames [ino, path, opened, todo]
    cur,          \* the entry being inspected
    seen,         \* walker.seen: path -> observation
    result,       \* walker.result
    (* observation: the tree at the moment between the two passes *)
    snapshot

tree == <<node, kids, now, snapshot>>
vars == <<tree, pc, stack, cur, seen, result>>

Top        == stack[Len(stack)]
Pop        == SubSeq(stack, 1, Len(stack) - 1)
Replace(f) == [stack EXCEPT ![Len(stack)] = f]
depth      == Len(stack) - 1

\* Mutant: the name alone, not joined to the directory's path.
childName(name) == <<name>>

childPath(name) == Append(Top.path, name)

\* What Lstat and Stat return; link count and mtime are folded into ctime.
Info(i) == [ino |-> i, kind |-> node[i].kind, mode |-> node[i].mode,
            size |-> node[i].body.size, ctime |-> node[i].ctime]

sameFile(a, b) == a.ino = b.ino /\ a.kind = b.kind

\* Mutant: metadata is the identity alone.
stableIdentity(a, b) == sameFile(a, b)

stableMetadata(a, b) == sameFile(a, b) /\ a = b

\* The entries readDirBounded sees, and whether they exceed its limit.
Entries(i) == {n \in Names : kids[i][n] # None}

\* Mutant: the limit applies to every directory by itself.
exceedsAlone(i, bound) == Cardinality(Entries(i)) > MaxFiles

exceeds(i, bound) == Cardinality(Entries(i)) > (IF bound < 0 THEN 0 ELSE bound)

\* Opening a name inside a pinned directory: it may fail, and a symlink put in
\* its place may lead to any inode of the tree.
Opens(dir, n) ==
    LET i == kids[dir][n]
    IN  {None, i} \union (IF i # None /\ node[i].kind = "symlink" THEN Ino ELSE {})

Frame(i, path, opened) == [ino |-> i, path |-> path, opened |-> opened, todo |-> {}]

Observation(info) == [info |-> info, children |-> {}, link |-> None,
                      overflow |-> FALSE, entryLimit |-> 0]

Observe(path, obs) ==
    seen' = [p \in DOMAIN seen \union {path} |-> IF p = path THEN obs ELSE seen[p]]

NoEntry == [name |-> None, info |-> None, fd |-> None, opened |-> None, file |-> None]

NoResult == [files |-> {}, limitations |-> {}, errors |-> {},
             readBytes |-> 0, binaryBytes |-> 0]

\* scan: the root is pinned and observed before the walk.
Init ==
    /\ \E t \in Trees : node = t.node /\ kids = t.kids
    /\ now = 0
    /\ pc = "list"
    /\ stack = <<Frame(Root, <<>>, Info(Root))>>
    /\ cur = NoEntry
    /\ seen = [p \in {<<>>} |-> Observation(Info(Root))]
    /\ result = NoResult
    /\ snapshot = None

\* Mutant: the error is returned with the part of the report that was collected.
AbortWithResult ==
    /\ pc' = "changed"
    /\ stack' = <<>> /\ cur' = NoEntry /\ UNCHANGED <<seen, result>>
    /\ UNCHANGED tree

\* changed(...) or an I/O error: scan returns the error and an empty Result.
Abort ==
    /\ pc' = "changed"
    /\ stack' = <<>> /\ cur' = NoEntry /\ seen' = <<>> /\ result' = NoResult
    /\ UNCHANGED tree

\* Mutant: a limit that leaves no trace in the result.
limitSilently(code, path) == result

\* walker.limit and walker.scanError as changes of result.
limit(code, path) == [result EXCEPT !.limitations = @ \union {<<code, path>>}]
scanError(code, path) == [result EXCEPT !.errors = @ \union {<<code, path>>}]

-----------------------------------------------------------------------------
(* First pass: walk.                                                       *)

\* The head of walk: the depth limit, then readDirBounded.
ReadDir ==
    LET remaining == MaxFiles - Cardinality(result.files)
        listed    == [seen[Top.path] EXCEPT !.entryLimit = remaining]
        exceeded  == exceeds(Top.ino, remaining)
    IN
    /\ pc = "list"
    /\ \/ /\ depth > MaxDepth
          /\ result' = limit("max-depth", Top.path)
          /\ UNCHANGED <<seen, stack>>
       \/ /\ depth <= MaxDepth /\ exceeded
          /\ Observe(Top.path, [listed EXCEPT !.overflow = TRUE])
          /\ result' = limit("max-files", Top.path)
          /\ UNCHANGED stack
       \/ /\ depth <= MaxDepth /\ ~exceeded
          /\ Observe(Top.path, [listed EXCEPT !.children = Entries(Top.ino)])
          /\ stack' = Replace([Top EXCEPT !.todo = Entries(Top.ino)])
          /\ UNCHANGED result
    /\ pc' = "next"
    /\ UNCHANGED <<tree, cur>>

\* Lstat, Stat, ReadDir or, in the second pass, Readlink fails.
CallFails ==
    /\ pc \in {"list", "next", "relstat", "restat", "vstat", "vlist", "vnext", "vlink"}
    /\ pc = "vnext" => Top.todo # {}
    /\ Abort

\* The next name of the sorted listing.
NextName == CHOOSE n \in Top.todo : \A m \in Top.todo : n <= m

fileFor(path, info) ==
    [path |-> path, kind |-> info.kind, mode |-> info.mode, size |-> info.size,
     inspected |-> FALSE, body |-> None,
     skip |-> info.kind = "regular" /\ path \in GitDatabase]

Record(file) == [result EXCEPT !.files = @ \union {file}]

\* The loop body up to the switch: Lstat, and where each kind goes.  Directories
\* and special files are recorded here, the others when they are done.
LstatEntry ==
    LET name == NextName
        i    == kids[Top.ino][name]
        file == fileFor(childPath(name), Info(i))
    IN
    /\ pc = "next"
    /\ Top.todo # {}
    /\ \/ i = None /\ Abort
       \/ /\ i # None
          /\ Observe(childPath(name), Observation(Info(i)))
          /\ cur' = [NoEntry EXCEPT !.name = name, !.info = Info(i), !.file = file]
          /\ pc' = CASE file.kind = "symlink"   -> "readlink"
                     [] file.kind = "directory" -> "openroot"
                     [] file.kind = "special"   -> "relstat"
                     [] OTHER                   -> IF file.skip THEN "relstat" ELSE "open"
          /\ result' = CASE file.kind = "directory" -> Record(file)
                         [] file.kind = "special"   ->
                              [limit("special-file", file.path) EXCEPT !.files = @ \union {file}]
                         [] OTHER                   -> result
          /\ stack' = Replace([Top EXCEPT !.todo = @ \ {name}])
          /\ UNCHANGED tree

\* Readlink; a failure is recorded as a scan error and the walk goes on.
Readlink ==
    LET i    == kids[Top.ino][cur.name]
        path == cur.file.path
    IN
    /\ pc = "readlink"
    /\ \/ /\ i # None /\ node[i].kind = "symlink"
          /\ cur' = [cur EXCEPT !.file.body = node[i].body]
          /\ Observe(path, [seen[path] EXCEPT !.link = node[i].body])
          /\ UNCHANGED result
       \/ /\ result' = scanError("readlink", path)
          /\ UNCHANGED <<cur, seen>>
    /\ pc' = "relstat"
    /\ UNCHANGED <<tree, stack>>

\* The entry is finished and recorded.
Recorded ==
    /\ result' = Record(cur.file)
    /\ cur' = NoEntry
    /\ pc' = "next"
    /\ UNCHANGED <<tree, stack, seen>>

\* verifyPathStable: the name is looked up a second time.
VerifyPathStable ==
    LET i      == kids[Top.ino][cur.name]
        stable == i # None /\ stableMetadata(cur.info, Info(i))
    IN
    /\ pc = "relstat"
    /\ \/ ~stable /\ Abort
       \/ stable /\ Recorded

\* The opened inode is the one Lstat observed.
Pinned(i) == i # None /\ sameFile(cur.info, Info(i))

\* OpenRoot and Lstat(".") of a child directory, then walk on it.
OpenRoot ==
    /\ pc = "openroot"
    /\ \E i \in Opens(Top.ino, cur.name) :
          \/ ~Pinned(i) /\ Abort
          \/ /\ Pinned(i)
             /\ stack' = Append(stack, Frame(i, cur.file.path, Info(i)))
             /\ cur' = NoEntry
             /\ pc' = "list"
             /\ UNCHANGED <<tree, seen, result>>

\* Lstat(".") when a directory's entries are done.  The root ends the pass.
LeaveDirectory ==
    LET closed == Info(Top.ino)
    IN
    /\ pc = "next"
    /\ Top.todo = {}
    /\ \/ ~stableMetadata(Top.opened, closed) /\ Abort
       \/ /\ stableMetadata(Top.opened, closed)
          /\ Observe(Top.path, [seen[Top.path] EXCEPT !.info = closed])
          /\ IF Len(stack) > 1
             THEN stack' = Pop /\ pc' = "next" /\ UNCHANGED snapshot
             ELSE /\ pc' = "vstat" /\ UNCHANGED stack
                  /\ snapshot' = [node |-> node, kids |-> kids]
          /\ UNCHANGED <<node, kids, now, cur, result>>

-----------------------------------------------------------------------------
(* inspectRegular and inspectELF.                                          *)

OpenFile ==
    /\ pc = "open"
    /\ \E i \in Opens(Top.ino, cur.name) :
          \/ ~Pinned(i) /\ Abort
          \/ /\ Pinned(i)
             /\ cur' = [cur EXCEPT !.fd = i, !.opened = Info(i)]
             /\ pc' = "header"
             /\ UNCHANGED <<tree, stack, seen, result>>

\* Mutant: the total is checked before the file is added to it.
sourceLimitLate ==
    CASE cur.info.size > MaxFileBytes     -> "max-file-bytes"
      [] result.readBytes >= MaxReadBytes -> "max-total-bytes"
      [] OTHER                            -> "none"

\* The budgets of source and of binary content are charged apart, both against
\* the size Lstat reported.
sourceLimit ==
    CASE cur.info.size > MaxFileBytes                    -> "max-file-bytes"
      [] result.readBytes + cur.info.size > MaxReadBytes -> "max-total-bytes"
      [] OTHER                                           -> "none"

binaryLimit ==
    CASE cur.info.size > MaxBinaryFileBytes -> "max-binary-file-bytes"
      [] result.binaryBytes + cur.info.size > MaxBinaryReadBytes
                                            -> "max-binary-total-bytes"
      [] OTHER                              -> "none"

\* The first four bytes decide between the two inspections; if they cannot be
\* read the file counts as source.
ReadHeader ==
    /\ pc = "header"
    /\ \E elf \in {FALSE, node[cur.fd].body.format # "text"} :
          LET code == IF elf THEN binaryLimit ELSE sourceLimit IN
          IF code = "none"
          THEN pc' = (IF elf THEN "readelf" ELSE "readall") /\ UNCHANGED result
          ELSE pc' = "restat" /\ result' = limit(code, cur.file.path)
    /\ UNCHANGED <<tree, stack, cur, seen>>

\* Seek back to the start fails.
SeekFails ==
    /\ pc = "header"
    /\ result' = scanError("seek-file", cur.file.path)
    /\ pc' = "restat"
    /\ UNCHANGED <<tree, stack, cur, seen>>

Inspected(body) ==
    /\ cur' = [cur EXCEPT !.file.inspected = TRUE, !.file.body = body]
    /\ pc' = "restat"
    /\ UNCHANGED <<tree, stack, seen>>

ReadAll ==
    LET body == node[cur.fd].body
    IN
    /\ pc = "readall"
    /\ \/ body.size > MaxFileBytes /\ Abort
       \/ /\ body.size <= MaxFileBytes
          /\ result' = [result EXCEPT !.readBytes = @ + body.size]
          /\ Inspected(body)

\* ReadAll and recordELF; an ELF header that does not parse is a limitation.
ReadELF ==
    LET body   == node[cur.fd].body
        parsed == IF body.format = "elf" THEN result
                  ELSE limit("elf-parse-error", cur.file.path)
    IN
    /\ pc = "readelf"
    /\ \/ body.size # cur.info.size /\ Abort
       \/ /\ body.size = cur.info.size
          /\ result' = [parsed EXCEPT !.binaryBytes = @ + body.size]
          /\ Inspected(body)

\* An I/O error is recorded and the file stays uninspected; for an ELF the
\* metadata must also still be Lstat's.
ReadFails ==
    LET stable == pc = "readall" \/ stableMetadata(cur.info, Info(cur.fd))
    IN
    /\ pc \in {"readall", "readelf"}
    /\ \/ ~stable /\ Abort
       \/ /\ stable
          /\ result' = scanError("read", cur.file.path)
          /\ pc' = "restat"
          /\ UNCHANGED <<tree, stack, cur, seen>>

VerifyRegularStable ==
    LET stable == stableMetadata(cur.opened, Info(cur.fd))
    IN
    /\ pc = "restat"
    /\ \/ ~stable /\ Abort
       \/ stable /\ Recorded

-----------------------------------------------------------------------------
(* Second pass: verifyTree.                                                *)

\* verifyTree returns nil: back to the caller's loop, or the scan succeeds.
VerifyReturns ==
    /\ IF Len(stack) > 1 THEN stack' = Pop /\ pc' = "vnext"
                         ELSE pc' = "ok" /\ UNCHANGED stack
    /\ UNCHANGED <<tree, cur, seen, result>>

\* The head of verifyTree: nothing was listed below MaxDepth.
VerifyDirectory ==
    LET stable == stableMetadata(seen[Top.path].info, Info(Top.ino))
    IN
    /\ pc = "vstat"
    /\ \/ depth > MaxDepth /\ VerifyReturns
       \/ depth <= MaxDepth /\ ~stable /\ Abort
       \/ /\ depth <= MaxDepth /\ stable
          /\ pc' = "vlist"
          /\ UNCHANGED <<tree, stack, cur, seen, result>>

\* readDirBounded with the first pass's limit: same overflow, same members.
VerifyMembers ==
    LET obs      == seen[Top.path]
        exceeded == exceeds(Top.ino, obs.entryLimit)
        same     == ~exceeded /\ Entries(Top.ino) = obs.children
    IN
    /\ pc = "vlist"
    /\ \/ obs.overflow /\ exceeded /\ VerifyReturns
       \/ (IF obs.overflow THEN ~exceeded ELSE ~same) /\ Abort
       \/ /\ ~obs.overflow /\ same
          /\ stack' = Replace([Top EXCEPT !.todo = obs.children])
          /\ pc' = "vnext"
          /\ UNCHANGED <<tree, cur, seen, result>>

VerifyEntry ==
    LET name   == NextName
        i      == kids[Top.ino][name]
        stable == i # None /\ stableMetadata(seen[childPath(name)].info, Info(i))
    IN
    /\ pc = "vnext"
    /\ Top.todo # {}
    /\ \/ ~stable /\ Abort
       \/ /\ stable
          /\ stack' = Replace([Top EXCEPT !.todo = @ \ {name}])
          /\ cur' = [NoEntry EXCEPT !.name = name]
          /\ pc' = CASE node[i].kind = "symlink"   -> "vlink"
                     [] node[i].kind = "directory" -> "vopen"
                     [] OTHER                      -> "vnext"
          /\ UNCHANGED <<tree, seen, result>>

VerifyLink ==
    LET i    == kids[Top.ino][cur.name]
        same == i # None /\ node[i].kind = "symlink"
                /\ node[i].body = seen[childPath(cur.name)].link
    IN
    /\ pc = "vlink"
    /\ \/ ~same /\ Abort
       \/ same /\ pc' = "vnext" /\ UNCHANGED <<tree, stack, cur, seen, result>>

\* OpenRoot for the recursive call, which checks what was opened.
VerifyOpen ==
    /\ pc = "vopen"
    /\ \E i \in Opens(Top.ino, cur.name) :
          LET opened == i # None /\ node[i].kind = "directory" IN
          \/ ~opened /\ Abort
          \/ /\ opened
             /\ stack' = Append(stack, Frame(i, childPath(cur.name), None))
             /\ pc' = "vstat"
             /\ UNCHANGED <<tree, cur, seen, result>>

VerifyLeave == pc = "vnext" /\ Top.todo = {} /\ VerifyReturns

Scanner ==
    \/ ReadDir \/ CallFails \/ LstatEntry \/ Readlink \/ VerifyPathStable
    \/ OpenRoot \/ LeaveDirectory \/ OpenFile \/ ReadHeader \/ SeekFails \/ ReadAll
    \/ ReadELF \/ ReadFails \/ VerifyRegularStable \/ VerifyDirectory
    \/ VerifyMembers \/ VerifyEntry \/ VerifyLink \/ VerifyOpen \/ VerifyLeave

-----------------------------------------------------------------------------
(* Changes made by other processes while the scan runs.                    *)

Mutable == now < MaxMutations /\ pc \notin {"ok", "changed"}

Mutation ==
    /\ Mutable
    /\ now' = now + 1
    /\ UNCHANGED <<pc, stack, cur, seen, result, snapshot>>

\* The inodes in S get a new change time.
Touch(nodes, S) ==
    [i \in Ino |-> IF i \in S THEN [nodes[i] EXCEPT !.ctime = now + 1] ELSE nodes[i]]

\* No name and no descriptor holds the inode.
Free(i) ==
    /\ i # Root /\ i # cur.fd
    /\ \A d \in Ino, n \in Names : kids[d][n] # i
    /\ \A f \in 1 .. Len(stack) : stack[f].ino # i

Write(i, c) ==
    /\ Mutation
    /\ ~Free(i) /\ node[i].kind = "regular" /\ c.kind = "regular"
    /\ node' = Touch([node EXCEPT ![i].body = c.body], {i})
    /\ UNCHANGED kids

Chmod(i) ==
    /\ Mutation
    /\ ~Free(i)
    /\ node' = Touch([node EXCEPT ![i].mode = 1 - @], {i})
    /\ UNCHANGED kids

Unlink(d, n) ==
    /\ Mutation
    /\ ~Free(d) /\ kids[d][n] # None
    /\ kids' = [kids EXCEPT ![d][n] = None]
    /\ node' = Touch(node, {d, kids[d][n]})

\* A new file may take the number of an inode that is gone.
Create(d, n, i, c) ==
    /\ Mutation
    /\ node[d].kind = "directory" /\ ~Free(d) /\ kids[d][n] = None /\ Free(i)
    /\ kids' = [kids EXCEPT ![d][n] = i, ![i] = [m \in Names |-> None]]
    /\ node' = Touch([node EXCEPT ![i] = [kind |-> c.kind, mode |-> 0,
                                          body |-> c.body, ctime |-> 0]], {d, i})

\* Rename over whatever is there; a directory only moves within its parent.
\* The change time of the moved inode itself need not move.
Rename(d, n, e, m) ==
    /\ Mutation
    /\ ~Free(d) /\ ~Free(e) /\ node[e].kind = "directory"
    /\ <<d, n>> # <<e, m>> /\ kids[d][n] # None
    /\ node[kids[d][n]].kind = "directory" => e = d
    /\ kids' = [kids EXCEPT ![d][n] = None, ![e][m] = kids[d][n]]
    /\ node' = Touch(node, {d, e} \union ({kids[e][m]} \ {None}))

Mutator ==
    /\ Mutable
    /\ \/ \E i \in Ino, c \in Changes : Write(i, c)
       \/ \E i \in Ino : Chmod(i)
       \/ \E d \in Ino, n \in Names : Unlink(d, n)
       \/ \E d, i \in Ino, n \in Names, c \in Changes : Create(d, n, i, c)
       \/ \E d, e \in Ino, n, m \in Names : Rename(d, n, e, m)

Next == Scanner \/ Mutator

Spec == Init /\ [][Next]_vars

-----------------------------------------------------------------------------
(* Properties.                                                             *)

Paths == UNION {[1 .. n -> Names] : n \in 0 .. MaxDepth + 2}

\* Open directories form one path from the root, and everything recorded was
\* observed first (walk, walker.seen).
TypeOK ==
    /\ now \in 0 .. MaxMutations
    /\ \A i \in Ino : node[i].kind \in Kinds /\ node[i].ctime <= now
    /\ \A f \in 1 .. Len(stack) :
          stack[f].ino \in Ino /\ stack[f].todo \subseteq Names
          /\ Len(stack[f].path) = f - 1
    /\ DOMAIN seen \subseteq Paths
    /\ \A f \in result.files : f.path \in DOMAIN seen /\ f.kind \in Kinds
    /\ result.readBytes \in Nat /\ result.binaryBytes \in Nat

\* The inode a path names in the snapshot.
At(p) ==
    LET walk[n \in 0 .. Len(p)] ==
          IF n = 0 THEN Root
          ELSE IF walk[n-1] = None \/ snapshot.node[walk[n-1]].kind # "directory"
               THEN None
          ELSE snapshot.kids[walk[n-1]][p[n]]
    IN  walk[Len(p)]

\* A scan that succeeds reports one tree: everything it recorded, the contents
\* it read included, was so at one instant, the one between the two passes,
\* although it was read by many system calls with changes in between (walk,
\* inspectRegular, verifyTree).  A directory's mode is not part of this; see
\* DirectoryModeFaithful.
ReportIsOneTree ==
    pc = "ok" =>
      \A f \in result.files :
        LET i == At(f.path) IN
        /\ i # None
        /\ snapshot.node[i].kind = f.kind
        /\ f.kind # "directory" => /\ snapshot.node[i].mode = f.mode
                                   /\ snapshot.node[i].body.size = f.size
        /\ f.body # None => snapshot.node[i].body = f.body

\* p lies below a directory whose listing was cut off by a limit.
CutOff(p) == \E n \in 0 .. Len(p) - 1 :
                {<<"max-depth", SubSeq(p, 1, n)>>, <<"max-files", SubSeq(p, 1, n)>>}
                \intersect result.limitations # {}

\* Something in the result says why p was not inspected.
Explained(f) == f.skip \/ \E w \in result.limitations \union result.errors : w[2] = f.path

\* A scan that succeeds hides nothing: every path of that tree is recorded or
\* lies below a recorded limitation, and every regular file was read or says
\* why not (walk, inspectRegular, inspectELF).
NothingOmitted ==
    pc = "ok" =>
      /\ \A p \in Paths \ {<<>>} :
            At(p) # None => (\E f \in result.files : f.path = p) \/ CutOff(p)
      /\ \A f \in result.files : f.kind = "regular" => f.inspected \/ Explained(f)

\* The byte budgets.  A file may grow after it was charged, so source content can
\* overshoot by one file before the change is detected, but never in a report
\* that is returned; binary content never overshoots (inspectRegular).
BudgetsHold ==
    /\ result.readBytes <= MaxReadBytes + MaxFileBytes
    /\ result.binaryBytes <= MaxBinaryReadBytes
    /\ pc = "ok" => result.readBytes <= MaxReadBytes

\* How far the file count really goes: a directory at depth k was listed within
\* what was left of MaxFiles when its k ancestors were already recorded, and
\* ancestors keep what they listed before (walk, readDirBounded).
FileCountBound ==
    MaxFiles >= MaxDepth =>
      2 * Cardinality(result.files) <= (MaxDepth + 1) * (2 * MaxFiles - MaxDepth)

\* The correspondence with StableScan.
phaseOf ==
    CASE pc = "ok"      -> "returned"
      [] pc = "changed" -> "failed"
      [] pc \in {"vstat", "vlist", "vnext", "vlink", "vopen"} -> "checking"
      [] OTHER          -> "reading"
reportOf == IF pc \in {"ok", "changed"} THEN result ELSE None

Stable == INSTANCE StableScan WITH phase <- phaseOf, tree <- [node |-> node, kids |-> kids],
                                   taken <- snapshot, report <- reportOf, Empty <- NoResult

\* Seen from the caller, the scan is one step at one instant: it never changes the
\* tree it reads, what it compares with in the second pass is the tree as it really
\* was between the passes, it returns only what describes that tree, and a failed
\* scan returns an empty report, whatever it had collected (scan, walk, verifyTree).
ImplementsStableScan == Stable!Spec

\* What the documentation says of modes: the reported mode of a directory is
\* compared like everything else (walk takes it from the first Lstat, the second
\* pass compares the one taken after the directory was read).
DirectoryModeFaithful ==
    pc = "ok" =>
      \A f \in result.files : f.kind = "directory" => snapshot.node[At(f.path)].mode = f.mode

\* What the documentation says of the entry limit: at most MaxFiles entries.
FilesWithinCeiling == pc = "ok" => Cardinality(result.files) <= MaxFiles

=============================================================================
