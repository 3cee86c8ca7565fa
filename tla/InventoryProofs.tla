--------------------------- MODULE InventoryProofs ---------------------------
(***************************************************************************)
(* Proofs about Inventory, for any tree, any names, any limits and any     *)
(* number of changes made by others.                                       *)
(*                                                                         *)
(* What the walker learns from one system call may be stale at the next.   *)
(* The invariant therefore states every fact under a condition: if the     *)
(* inode still is as it was observed, then ... (Current).  A change by     *)
(* others makes the condition false for good, since change times only      *)
(* grow; it never makes the fact false.  The second pass turns conditions  *)
(* into facts: an inode that is found as it was observed before the        *)
(* instant between the passes was like that at that instant (SecondOK).    *)
(***************************************************************************)
EXTENDS Inventory, TLAPS, FiniteSetTheorems, SequenceTheorems,
        WellFoundedInduction

PassOne    == {"list", "next", "readlink", "openroot", "relstat", "open", "header",
               "readall", "readelf", "restat"}
Inspecting == PassOne \ {"list", "next"}
Opened     == {"header", "readall", "readelf", "restat"}
PassTwo    == {"vstat", "vlist", "vnext", "vlink", "vopen"}
First      == pc \in PassOne
Second     == pc \in PassTwo \union {"ok"}

Maybe(S) == S \union {None}
Nodes  == [kind : Kinds, mode : {0, 1}, body : Bodies, ctime : Nat]
Infos  == [ino : Ino, kind : Kinds, mode : {0, 1}, size : Nat, ctime : Nat]
Frames == [ino : Ino, path : Seq(Names), opened : Maybe(Infos), todo : SUBSET Names]
Observations == [info : Infos, children : SUBSET Names, link : Maybe(Bodies),
                 overflow : BOOLEAN, entryLimit : Int]
Files  == [path : Seq(Names), kind : Kinds, mode : {0, 1}, size : Nat,
           inspected : BOOLEAN, body : Maybe(Bodies), skip : BOOLEAN]
Curs   == [name : Names, info : Infos, fd : Maybe(Ino), opened : Maybe(Infos), file : Files]
Codes  == {"max-depth", "max-files", "special-file", "readlink", "seek-file", "read",
           "max-file-bytes", "max-total-bytes", "max-binary-file-bytes",
           "max-binary-total-bytes", "elf-parse-error", "none"}
Notes  == SUBSET (Codes \X Seq(Names))
Results == [files : SUBSET Files, limitations : Notes, errors : Notes,
            readBytes : Nat, binaryBytes : Nat]

\* The inode an observation is about is as it was observed.
InfoOf(nodes, i) == [ino |-> i, kind |-> nodes[i].kind, mode |-> nodes[i].mode,
                     size |-> nodes[i].body.size, ctime |-> nodes[i].ctime]
Current(x, nodes) == x = InfoOf(nodes, x.ino)

\* It is, or it has changed since and the change time says so.
Known(x) == x \in Infos /\ (Current(x, node) \/ x.ctime < node[x.ino].ctime)

\* The tree the facts are about: as it is now, and in the second pass as it was
\* between the passes.
nodesThen == IF First THEN node ELSE snapshot.node
kidsThen  == IF First THEN kids ELSE snapshot.kids

\* The observation a directory must still agree with: the one made when it was
\* opened, which is what seen holds once it was left.
Directory(q) ==
    IF First /\ Len(q) < Len(stack) /\ stack[Len(q) + 1].path = q
    THEN stack[Len(q) + 1].opened ELSE seen[q].info

\* The walk has still to come to p.
Pending(p) ==
    \E f \in 1 .. Len(stack) :
        /\ f <= Len(p) /\ SubSeq(p, 1, f - 1) = stack[f].path
        /\ \/ p[f] \in stack[f].todo
           \/ f = Len(stack) /\ pc \in {"list", "vstat", "vlist"}
           \/ f = Len(stack) /\ pc \in {"openroot", "vopen"} /\ f < Len(p) /\ p[f] = cur.name

-----------------------------------------------------------------------------
TreeOK ==
    /\ now \in 0 .. MaxMutations
    /\ node \in [Ino -> Nodes] /\ kids \in [Ino -> [Names -> Maybe(Ino)]]
    /\ \A i \in Ino : node[i].ctime <= now
    /\ pc \in PassOne \union PassTwo \union {"ok", "changed"}
    /\ Second => snapshot.node \in [Ino -> Nodes] /\ snapshot.kids \in [Ino -> [Names -> Maybe(Ino)]]

\* An open directory is the inode that was observed under its path.
FrameOK(f) ==
    LET fr == stack[f] IN
    /\ Len(fr.path) = f - 1 /\ (fr.todo # {} => f <= MaxDepth + 1)
    /\ First => /\ fr.path \in DOMAIN seen
                /\ Known(fr.opened) /\ fr.opened.ino = fr.ino /\ fr.opened.kind = "directory"
                /\ sameFile(fr.opened, seen[fr.path].info)
                /\ fr.todo \subseteq seen[fr.path].children
                /\ fr.todo # {} => ~seen[fr.path].overflow

StackOK ==
    /\ stack \in Seq(Frames) /\ Len(stack) <= MaxDepth + 2
    /\ pc # "changed" => Len(stack) > 0
    /\ pc \in {"list", "vstat", "vlist", "ok"} => Top.todo = {}
    /\ pc = "ok" => Len(stack) = 1
    /\ pc \in {"vlist", "vopen"} => Len(stack) <= MaxDepth + 1
    /\ pc = "vopen" => cur.name \in Names
    /\ \A f \in 1 .. Len(stack) : FrameOK(f)

\* p is below directories that were listed with its names, which led from one to
\* the next if they are as they were observed.
LinkOK(p, k) ==
    LET q == SubSeq(p, 1, k)
        c == SubSeq(p, 1, k + 1)
    IN  /\ q \in DOMAIN seen /\ c \in DOMAIN seen
        /\ p[k + 1] \in seen[q].children /\ ~seen[q].overflow
        /\ seen[q].info.kind = "directory" /\ Directory(q).ino = seen[q].info.ino
        /\ Current(Directory(q), nodesThen) =>
              kidsThen[Directory(q).ino][p[k + 1]] = seen[c].info.ino

SeenOK ==
    /\ seen \in [DOMAIN seen -> Observations] /\ DOMAIN seen \subseteq Seq(Names)
    /\ pc # "changed" => /\ <<>> \in DOMAIN seen
                         /\ seen[<<>>].info.ino = Root /\ seen[<<>>].info.kind = "directory"
    /\ \A p \in DOMAIN seen :
          /\ Len(p) <= MaxDepth + 1 /\ Known(seen[p].info)
          /\ \A k \in 0 .. Len(p) - 1 : LinkOK(p, k)

\* Nothing is observed twice, and a directory that was not listed yet did not
\* exceed a limit.
FreshOK ==
    First => /\ \A p \in DOMAIN seen : ~Pending(p)
             /\ pc = "list" => ~seen[Top.path].overflow
             /\ pc = "openroot" => ~seen[cur.file.path].overflow

BodyOK(q, x, body) ==
    body # None /\ Current(Directory(q), nodesThen) /\ Current(x, nodesThen) =>
        nodesThen[x.ino].body = body

CurOK ==
    pc \in Inspecting =>
        /\ cur \in Curs
        /\ cur.file.path = childPath(cur.name) /\ cur.file.path \in DOMAIN seen
        /\ cur.info = seen[cur.file.path].info
        /\ cur.file.kind = cur.info.kind /\ cur.file.mode = cur.info.mode
        /\ cur.file.size = cur.info.size
        /\ pc = "readlink" => cur.info.kind = "symlink"
        /\ pc = "openroot" <=> cur.info.kind = "directory"
        /\ pc \in Opened \union {"open"} => cur.info.kind = "regular"
        /\ pc \in Opened => cur.fd = cur.info.ino
        /\ pc = "openroot" => cur.file.body = None
        /\ BodyOK(Top.path, cur.info, cur.file.body)

FileOK(f) ==
    LET x == seen[f.path].info IN
    /\ f.path \in DOMAIN seen /\ Len(f.path) > 0
    /\ f.kind = x.kind
    /\ f.kind = "directory" => f.body = None
    /\ f.kind # "directory" => f.mode = x.mode /\ f.size = x.size
    /\ BodyOK(SubSeq(f.path, 1, Len(f.path) - 1), x, f.body)

FilesOK ==
    /\ result \in Results /\ IsFiniteSet(result.files)
    /\ \A f \in result.files : FileOK(f)

\* A source file that was larger than it was charged for is one that changed.
BudgetOK ==
    /\ result.readBytes <= MaxReadBytes + MaxFileBytes
    /\ result.binaryBytes <= MaxBinaryReadBytes
    /\ pc = "readall" => result.readBytes + cur.info.size <= MaxReadBytes
    /\ pc = "readelf" => result.binaryBytes + cur.info.size <= MaxBinaryReadBytes
    /\ \/ result.readBytes <= MaxReadBytes
       \/ \E p \in DOMAIN seen : /\ seen[p].info.kind = "regular"
                                 /\ ~Current(seen[p].info, nodesThen)

\* An inode is as it was between the passes, or newer than all that was observed;
\* what the second pass has come to was still as observed between the passes.
SecondOK ==
    Second =>
        /\ \A i \in Ino : \/ node[i] = snapshot.node[i]
                          \/ \A p \in DOMAIN seen : seen[p].info.ctime < node[i].ctime
        /\ \A p \in DOMAIN seen : Pending(p) \/ Current(seen[p].info, snapshot.node)

\* A directory was listed whole or its listing was cut off by a limit, and what was
\* listed was observed, or is still to be.
EntriesThen(i) == {n \in Names : kidsThen[i][n] # None}
Limited(q) == {<<"max-depth", q>>, <<"max-files", q>>} \intersect result.limitations # {}
Todo(q, n) == First /\ \E f \in 1 .. Len(stack) : stack[f].path = q /\ n \in stack[f].todo

ListOK(q) ==
    \/ Limited(q)
    \/ /\ Current(Directory(q), nodesThen) =>
             EntriesThen(Directory(q).ino) \subseteq seen[q].children
       /\ \A n \in seen[q].children : Append(q, n) \in DOMAIN seen \/ Todo(q, n)

ListedOK ==
    \A q \in DOMAIN seen :
        seen[q].info.kind = "directory" =>
            \/ ListOK(q)
            \/ pc = "list" /\ q = Top.path
            \/ pc = "openroot" /\ q = cur.file.path

\* What was observed is recorded, and what was not inspected is explained.
RecordedOK ==
    /\ \A p \in DOMAIN seen \ {<<>>} :
          \/ \E f \in result.files : f.path = p
          \/ pc \in Inspecting \ {"openroot"} /\ p = cur.file.path
    /\ \A f \in result.files : f.kind = "regular" => f.inspected \/ Explained(f)
    /\ pc = "relstat" /\ cur.info.kind = "regular" => cur.file.skip
    /\ pc = "restat" => cur.file.inspected \/ Explained(cur.file)

IInv == /\ TreeOK /\ StackOK /\ SeenOK /\ FreshOK /\ CurOK /\ FilesOK /\ BudgetOK
        /\ SecondOK /\ ListedOK /\ RecordedOK

-----------------------------------------------------------------------------
(* Paths, and the least element of a set of naturals.                      *)

LEMMA PrefixFacts ==
    ASSUME NEW p \in Seq(Names), NEW k \in 0 .. Len(p)
    PROVE  /\ SubSeq(p, 1, k) \in Seq(Names) /\ Len(SubSeq(p, 1, k)) = k
           /\ \A j \in 1 .. k : SubSeq(p, 1, k)[j] = p[j]
  OBVIOUS

LEMMA SamePath ==
    ASSUME NEW p \in Seq(Names), NEW q \in Seq(Names), Len(p) = Len(q),
           \A j \in 1 .. Len(p) : p[j] = q[j]
    PROVE  p = q
  BY SeqEqual

LEMMA WholePath ==
    ASSUME NEW p \in Seq(Names)
    PROVE  SubSeq(p, 1, Len(p)) = p
  BY PrefixFacts, SamePath

LEMMA ChildFacts ==
    ASSUME NEW q \in Seq(Names), NEW n \in Names
    PROVE  LET c == Append(q, n) IN
           /\ c \in Seq(Names) /\ Len(c) = Len(q) + 1 /\ c[Len(c)] = n
           /\ \A j \in 1 .. Len(q) : c[j] = q[j]
           /\ \A k \in 0 .. Len(q) : SubSeq(c, 1, k) = SubSeq(q, 1, k)
           /\ SubSeq(c, 1, Len(q)) = q
<1> DEFINE c == Append(q, n)
<1>1. /\ c \in Seq(Names) /\ Len(c) = Len(q) + 1 /\ c[Len(c)] = n
      /\ \A j \in 1 .. Len(q) : c[j] = q[j]
  OBVIOUS
<1> HIDE DEF c
<1>2. ASSUME NEW k \in 0 .. Len(q) PROVE SubSeq(c, 1, k) = SubSeq(q, 1, k)
  <2>1. k \in 0 .. Len(c)
    BY <1>1
  <2>2. \A j \in 1 .. k : SubSeq(c, 1, k)[j] = SubSeq(q, 1, k)[j]
    BY <1>1, <2>1, PrefixFacts
  <2> QED
    BY <1>1, <2>1, <2>2, PrefixFacts, SamePath
<1>3. SubSeq(c, 1, Len(q)) = q
  BY <1>2, WholePath
<1> QED
  BY <1>1, <1>2, <1>3 DEF c

\* The prefix one longer, and the prefix of a prefix.
LEMMA LongerPrefix ==
    ASSUME NEW p \in Seq(Names), NEW k \in 0 .. Len(p) - 1
    PROVE  SubSeq(p, 1, k + 1) = Append(SubSeq(p, 1, k), p[k + 1])
<1> DEFINE q == SubSeq(p, 1, k)
<1>1. q \in Seq(Names) /\ Len(q) = k /\ p[k + 1] \in Names /\ \A j \in 1 .. k : q[j] = p[j]
  BY PrefixFacts
<1> HIDE DEF q
<1>2. /\ Append(q, p[k + 1]) \in Seq(Names) /\ Len(Append(q, p[k + 1])) = k + 1
      /\ \A j \in 1 .. k + 1 : Append(q, p[k + 1])[j] = p[j]
  BY <1>1, ChildFacts
<1>3. /\ SubSeq(p, 1, k + 1) \in Seq(Names) /\ Len(SubSeq(p, 1, k + 1)) = k + 1
      /\ \A j \in 1 .. k + 1 : SubSeq(p, 1, k + 1)[j] = p[j]
  BY PrefixFacts
<1> QED
  BY <1>2, <1>3, SamePath DEF q

LEMMA PrefixOfPrefix ==
    ASSUME NEW p \in Seq(Names), NEW m \in 0 .. Len(p), NEW k \in 0 .. m
    PROVE  SubSeq(SubSeq(p, 1, m), 1, k) = SubSeq(p, 1, k)
<1> DEFINE q == SubSeq(p, 1, m)
<1>1. q \in Seq(Names) /\ Len(q) = m /\ \A j \in 1 .. m : q[j] = p[j]
  BY PrefixFacts
<1> HIDE DEF q
<1>2. /\ SubSeq(q, 1, k) \in Seq(Names) /\ Len(SubSeq(q, 1, k)) = k
      /\ \A j \in 1 .. k : SubSeq(q, 1, k)[j] = p[j]
  BY <1>1, PrefixFacts
<1>3. /\ SubSeq(p, 1, k) \in Seq(Names) /\ Len(SubSeq(p, 1, k)) = k
      /\ \A j \in 1 .. k : SubSeq(p, 1, k)[j] = p[j]
  BY PrefixFacts
<1> QED
  BY <1>2, <1>3, SamePath DEF q

\* Every set of naturals has a least element: what an induction over naturals
\* needs, for a set instead of a predicate.
LEMMA LeastNatural ==
    ASSUME NEW T, T \subseteq Nat, T # {}
    PROVE  \E n \in T : \A m \in T : n <= m
<1> DEFINE R == OpToRel(<, Nat)
<1>1. IsWellFoundedOn(R, Nat)
  BY NatLessThanWellFounded
<1> HIDE DEF R
<1>2. PICK n \in T : \A m \in T : ~ (<<m, n>> \in R)
  BY <1>1, WFMin
<1>3. \A m, k \in Nat : <<m, k>> \in R <=> m < k
  BY DEF R, OpToRel
<1>4. \A m \in T : n \in Nat /\ m \in Nat /\ ~(m < n)
  BY <1>2, <1>3
<1> QED
  BY <1>4

-----------------------------------------------------------------------------
(* Changes made by others.                                                 *)

\* What a change by others may do to the tree: an inode is as it was, or has a
\* change time nobody has observed.
Others ==
    /\ UNCHANGED <<pc, stack, cur, seen, result, snapshot>>
    /\ \A i \in Ino : (node'[i] = node[i] /\ kids'[i] = kids[i]) \/ now < node'[i].ctime

LEMMA TouchFacts ==
    ASSUME NEW nodes \in [Ino -> Nodes], NEW S \in SUBSET Ino, now \in Nat
    PROVE  /\ Touch(nodes, S) \in [Ino -> Nodes]
           /\ \A i \in S : Touch(nodes, S)[i].ctime = now + 1
           /\ \A i \in Ino \ S : Touch(nodes, S)[i] = nodes[i]
<1>1. \A i \in Ino : nodes[i] \in Nodes /\ [nodes[i] EXCEPT !.ctime = now + 1] \in Nodes
                     /\ [nodes[i] EXCEPT !.ctime = now + 1].ctime = now + 1
  BY DEF Nodes
<1>2. \A i \in Ino : Touch(nodes, S)[i] = IF i \in S THEN [nodes[i] EXCEPT !.ctime = now + 1]
                                         ELSE nodes[i]
  BY DEF Touch
<1>3. Touch(nodes, S) \in [Ino -> Nodes]
  BY <1>1 DEF Touch
<1> QED
  BY <1>1, <1>2, <1>3

\* A tree in which S was touched and nothing else changed.
LEMMA TouchedTree ==
    ASSUME TreeOK, Mutation, NEW nodes \in [Ino -> Nodes], NEW S \in SUBSET Ino,
           node' = Touch(nodes, S), kids' \in [Ino -> [Names -> Maybe(Ino)]],
           \A i \in Ino \ S : nodes[i] = node[i] /\ kids'[i] = kids[i]
    PROVE  TreeOK' /\ Others
<1>1. /\ now \in Nat /\ now' = now + 1 /\ now' \in 0 .. MaxMutations
      /\ UNCHANGED <<pc, stack, cur, seen, result, snapshot>>
  BY LimitsAssumption DEF TreeOK, Mutation, Mutable
<1>2. /\ node' \in [Ino -> Nodes]
      /\ \A i \in S : node'[i].ctime = now + 1
      /\ \A i \in Ino \ S : node'[i] = node[i]
  BY <1>1, TouchFacts
<1>3. \A i \in Ino : node'[i].ctime <= now' /\ node'[i].ctime \in Nat
  <2>1. \A i \in Ino : node'[i].ctime \in Nat
    BY <1>2, Zenon DEF Nodes
  <2>2. \A i \in S : node'[i].ctime <= now'
    BY <1>1, <1>2
  <2>3. \A i \in Ino \ S : node'[i].ctime <= now'
    <3>1. \A i \in Ino : node[i].ctime <= now /\ node[i].ctime \in Nat
      BY DEF TreeOK, Nodes
    <3> QED
      BY <1>1, <1>2, <3>1
  <2> QED
    BY <2>1, <2>2, <2>3
<1>4. TreeOK'
  BY <1>1, <1>2, <1>3 DEF TreeOK, Second
<1>5. \A i \in Ino : (node'[i] = node[i] /\ kids'[i] = kids[i]) \/ now < node'[i].ctime
  BY <1>1, <1>2
<1> QED
  BY <1>1, <1>4, <1>5 DEF Others

LEMMA MutatorTree ==
    ASSUME TreeOK, Mutator PROVE TreeOK' /\ Others
<1>1. node \in [Ino -> Nodes] /\ kids \in [Ino -> [Names -> Maybe(Ino)]] /\ None \notin Ino
  BY TreeAssumption DEF TreeOK
<1>2. \A c \in Changes : c.kind \in Kinds /\ c.body \in Bodies
  BY TreeAssumption
<1>3. ASSUME NEW i \in Ino, NEW c \in Changes, Write(i, c) PROVE TreeOK' /\ Others
  <2> DEFINE nodes == [node EXCEPT ![i].body = c.body]
  <2>1. [node[i] EXCEPT !.body = c.body] \in Nodes
    BY <1>1, <1>2 DEF Nodes
  <2>2. nodes \in [Ino -> Nodes] /\ \A j \in Ino \ {i} : nodes[j] = node[j]
    BY <1>1, <2>1
  <2> HIDE DEF nodes
  <2>3. Mutation /\ node' = Touch(nodes, {i}) /\ kids' = kids
    BY <1>3 DEF Write, nodes
  <2>4. /\ {i} \in SUBSET Ino /\ kids' \in [Ino -> [Names -> Maybe(Ino)]]
        /\ \A j \in Ino \ {i} : nodes[j] = node[j] /\ kids'[j] = kids[j]
    BY <1>1, <2>2, <2>3
  <2> QED
    BY <2>2, <2>3, <2>4, TouchedTree, ZenonT(40)
<1>4. ASSUME NEW i \in Ino, Chmod(i) PROVE TreeOK' /\ Others
  <2> DEFINE nodes == [node EXCEPT ![i].mode = 1 - @]
  <2>1. [node[i] EXCEPT !.mode = 1 - @] \in Nodes
    BY <1>1 DEF Nodes
  <2>2. nodes \in [Ino -> Nodes] /\ \A j \in Ino \ {i} : nodes[j] = node[j]
    BY <1>1, <2>1
  <2> HIDE DEF nodes
  <2>3. Mutation /\ node' = Touch(nodes, {i}) /\ kids' = kids
    BY <1>4 DEF Chmod, nodes
  <2> QED
    BY <1>1, <2>2, <2>3, TouchedTree
<1>5. ASSUME NEW d \in Ino, NEW n \in Names, Unlink(d, n) PROVE TreeOK' /\ Others
  <2>1. /\ Mutation /\ node' = Touch(node, {d, kids[d][n]})
        /\ kids' = [kids EXCEPT ![d][n] = None] /\ kids[d][n] \in Ino
    BY <1>1, <1>5 DEF Unlink, Maybe
  <2>2. kids' \in [Ino -> [Names -> Maybe(Ino)]] /\ \A j \in Ino \ {d} : kids'[j] = kids[j]
    BY <1>1, <2>1 DEF Maybe
  <2>3. {d, kids[d][n]} \in SUBSET Ino
    BY <2>1
  <2>4. \A j \in Ino \ {d, kids[d][n]} : node[j] = node[j] /\ kids'[j] = kids[j]
    BY <2>2
  <2> QED
    BY <1>1, <2>1, <2>2, <2>3, <2>4, TouchedTree
<1>6. ASSUME NEW d \in Ino, NEW i \in Ino, NEW n \in Names, NEW c \in Changes, Create(d, n, i, c)
      PROVE  TreeOK' /\ Others
  <2> DEFINE new == [kind |-> c.kind, mode |-> 0, body |-> c.body, ctime |-> 0]
             nodes == [node EXCEPT ![i] = new]
  <2>1. new \in Nodes
    BY <1>2 DEF Nodes
  <2>2. nodes \in [Ino -> Nodes] /\ \A j \in Ino \ {d, i} : nodes[j] = node[j]
    BY <1>1, <2>1
  <2>3. /\ Mutation /\ node' = Touch(nodes, {d, i})
        /\ kids' = [kids EXCEPT ![d][n] = i, ![i] = [m \in Names |-> None]]
    BY <1>6 DEF Create
  <2>4. kids' \in [Ino -> [Names -> Maybe(Ino)]] /\ \A j \in Ino \ {d, i} : kids'[j] = kids[j]
    BY <1>1, <2>3 DEF Maybe
  <2> HIDE DEF nodes
  <2>5. {d, i} \in SUBSET Ino
    OBVIOUS
  <2> QED
    BY <2>2, <2>3, <2>4, <2>5, TouchedTree
<1>7. ASSUME NEW d \in Ino, NEW e \in Ino, NEW n \in Names, NEW m \in Names, Rename(d, n, e, m)
      PROVE  TreeOK' /\ Others
  <2> DEFINE S == {d, e} \union ({kids[e][m]} \ {None})
  <2>1. S \in SUBSET Ino
    BY <1>1 DEF Maybe
  <2>2. /\ Mutation /\ node' = Touch(node, S)
        /\ kids' = [kids EXCEPT ![d][n] = None, ![e][m] = kids[d][n]]
    BY <1>7 DEF Rename
  <2>3. kids' \in [Ino -> [Names -> Maybe(Ino)]] /\ \A j \in Ino \ {d, e} : kids'[j] = kids[j]
    <3> DEFINE one == [kids EXCEPT ![d][n] = None]
    <3>1. one \in [Ino -> [Names -> Maybe(Ino)]] /\ \A j \in Ino \ {d} : one[j] = kids[j]
      BY <1>1 DEF Maybe
    <3>2. kids' = [one EXCEPT ![e][m] = kids[d][n]]
      BY <2>2
    <3>3. kids[d][n] \in Maybe(Ino)
      BY <1>1
    <3> HIDE DEF one
    <3> QED
      BY <3>1, <3>2, <3>3
  <2>4. \A j \in Ino \ S : kids'[j] = kids[j]
    BY <2>3
  <2> HIDE DEF S
  <2> QED
    BY <1>1, <2>1, <2>2, <2>3, <2>4, TouchedTree
<1> QED
  BY <1>3, <1>4, <1>5, <1>6, <1>7 DEF Mutator

\* An observation stays what is known of its inode, and if it agrees with the
\* tree after a change, the inode was not changed.
LEMMA KnownStays ==
    ASSUME TreeOK, TreeOK', Others, NEW x, Known(x)
    PROVE  /\ x \in Infos /\ (Current(x, node') \/ x.ctime < node'[x.ino].ctime)
           /\ Current(x, node') => /\ Current(x, node)
                                   /\ node'[x.ino] = node[x.ino] /\ kids'[x.ino] = kids[x.ino]
<1> DEFINE i == x.ino
<1>1. x \in Infos /\ i \in Ino /\ x.ctime \in Nat /\ node[i] \in Nodes /\ node'[i] \in Nodes
      /\ node[i].ctime \in Nat /\ node'[i].ctime \in Nat /\ node[i].ctime <= now /\ now \in Nat
  BY LimitsAssumption DEF Known, Infos, TreeOK, Nodes
<1>2. Current(x, node) => x.ctime = node[i].ctime
  BY DEF Current, InfoOf
<1>3. Current(x, node') => x.ctime = node'[i].ctime
  BY DEF Current, InfoOf
<1>4. x.ctime <= node[i].ctime
  BY <1>1, <1>2 DEF Known
<1>5. CASE node'[i] = node[i] /\ kids'[i] = kids[i]
  <2>1. InfoOf(node', i) = InfoOf(node, i)
    BY <1>5 DEF InfoOf
  <2> QED
    BY <1>1, <1>5, <2>1 DEF Known, Current
<1>6. CASE now < node'[i].ctime
  BY <1>1, <1>3, <1>4, <1>6
<1> QED
  BY <1>1, <1>5, <1>6 DEF Others

LEMMA DirectoryKnown ==
    ASSUME StackOK, SeenOK, NEW q \in DOMAIN seen
    PROVE  Known(Directory(q))
<1>1. CASE First /\ Len(q) < Len(stack) /\ stack[Len(q) + 1].path = q
  <2>1. Len(q) \in Nat /\ Len(stack) \in Nat
    BY DEF SeenOK, StackOK
  <2> QED
    BY <1>1, <2>1 DEF Directory, StackOK, FrameOK
<1>2. CASE ~(First /\ Len(q) < Len(stack) /\ stack[Len(q) + 1].path = q)
  BY <1>2 DEF Directory, SeenOK
<1> QED
  BY <1>1, <1>2

LEMMA MutatorStep ==
    ASSUME IInv, Mutator PROVE IInv'
<1>1. TreeOK /\ StackOK /\ SeenOK /\ TreeOK' /\ Others
  BY MutatorTree DEF IInv
<1>2. UNCHANGED <<pc, stack, cur, seen, result, snapshot>>
  BY <1>1 DEF Others
<1>3. \A x : Known(x) => Known(x)'
  BY <1>1, KnownStays DEF Known
<1>4. \A q : Directory(q)' = Directory(q)
  BY <1>2 DEF Directory, First
<1>5. \A p : Pending(p)' <=> Pending(p)
  BY <1>2 DEF Pending
<1>6. ASSUME NEW x, Known(x), Current(x, nodesThen')
      PROVE  /\ Current(x, nodesThen) /\ nodesThen'[x.ino] = nodesThen[x.ino]
             /\ kidsThen'[x.ino] = kidsThen[x.ino]
  BY <1>1, <1>2, <1>6, KnownStays DEF nodesThen, kidsThen, First
<1>7. StackOK'
  BY <1>2, <1>3 DEF IInv, StackOK, FrameOK, First, Top
<1>8. ASSUME NEW p \in DOMAIN seen, NEW k \in 0 .. Len(p) - 1 PROVE LinkOK(p, k)'
  <2>1. LinkOK(p, k)
    BY <1>1 DEF SeenOK
  <2>2. Known(Directory(SubSeq(p, 1, k)))
    BY <1>1, <2>1, DirectoryKnown DEF LinkOK
  <2> QED
    BY <1>2, <1>4, <1>6, <2>1, <2>2 DEF LinkOK
<1>9. SeenOK'
  BY <1>1, <1>2, <1>3, <1>8 DEF SeenOK
<1>10. FreshOK'
  BY <1>2, <1>5 DEF IInv, FreshOK, First, Top
<1>11. ASSUME NEW q \in DOMAIN seen, NEW x, Known(x), NEW body, BodyOK(q, x, body)
       PROVE  BodyOK(q, x, body)'
  BY <1>1, <1>4, <1>6, <1>11, DirectoryKnown DEF BodyOK
<1>12. CurOK'
  <2> SUFFICES ASSUME pc \in Inspecting PROVE CurOK'
    BY <1>2 DEF CurOK
  <2>1. Known(cur.info) /\ Top.path \in DOMAIN seen /\ BodyOK(Top.path, cur.info, cur.file.body)
    <3>1. pc \in PassOne /\ pc # "changed"
      BY DEF Inspecting, PassOne
    <3>2. FrameOK(Len(stack)) /\ First
      BY <1>1, <3>1 DEF StackOK, First
    <3>3. Top.path \in DOMAIN seen
      BY <3>2 DEF FrameOK, Top
    <3> QED
      BY <1>1, <3>3 DEF IInv, CurOK, SeenOK
  <2>2. BodyOK(Top.path, cur.info, cur.file.body)'
    BY <1>2, <1>11, <2>1 DEF Top
  <2> QED
    BY <1>2, <2>2 DEF IInv, CurOK, childPath, Top
<1>13. FilesOK'
  <2>1. ASSUME NEW f \in result.files PROVE FileOK(f)'
    <3> DEFINE q == SubSeq(f.path, 1, Len(f.path) - 1)
               x == seen[f.path].info
    <3>1. FileOK(f) /\ f.path \in DOMAIN seen /\ f.path \in Seq(Names) /\ Len(f.path) > 0
      BY <1>1 DEF IInv, FilesOK, FileOK, SeenOK
    <3>2. LinkOK(f.path, Len(f.path) - 1) /\ Known(x)
      BY <1>1, <3>1 DEF SeenOK
    <3>3. q \in DOMAIN seen /\ BodyOK(q, x, f.body)
      BY <3>1, <3>2 DEF LinkOK, FileOK
    <3>4. BodyOK(q, x, f.body)'
      BY <1>2, <1>11, <3>2, <3>3
    <3> QED
      BY <1>2, <3>1, <3>4 DEF FileOK
  <2> QED
    BY <1>2, <2>1 DEF IInv, FilesOK
<1>14. BudgetOK'
  <2>1. ASSUME NEW p \in DOMAIN seen, ~Current(seen[p].info, nodesThen)
        PROVE  ~Current(seen[p].info, nodesThen')
    BY <1>1, <1>6, <2>1 DEF SeenOK
  <2> QED
    BY <1>2, <2>1 DEF IInv, BudgetOK
<1>15. SecondOK'
  <2> SUFFICES ASSUME Second
               PROVE  /\ \A i \in Ino : \/ node'[i] = snapshot.node[i]
                                        \/ \A p \in DOMAIN seen : seen[p].info.ctime < node'[i].ctime
                      /\ \A p \in DOMAIN seen : Pending(p) \/ Current(seen[p].info, snapshot.node)
    BY <1>2, <1>5 DEF SecondOK, Second
  <2>1. ASSUME NEW i \in Ino, node'[i] # snapshot.node[i], NEW p \in DOMAIN seen
        PROVE  seen[p].info.ctime < node'[i].ctime
    <3> DEFINE x == seen[p].info
    <3>1. Known(x)
      BY <1>1 DEF SeenOK
    <3>2. /\ x.ctime \in Nat /\ x.ino \in Ino /\ node'[i].ctime \in Nat /\ now \in Nat
          /\ node[x.ino].ctime \in Nat /\ node[x.ino].ctime <= now
      BY <1>1, <3>1, LimitsAssumption DEF Known, Infos, TreeOK, Nodes
    <3>3. x.ctime <= node[x.ino].ctime
      BY <3>1, <3>2 DEF Known, Current, InfoOf
    <3>4. CASE node'[i] = node[i]
      BY <2>1, <3>4 DEF IInv, SecondOK
    <3>5. CASE now < node'[i].ctime
      BY <3>2, <3>3, <3>5
    <3> QED
      BY <1>1, <3>4, <3>5 DEF Others
  <2> QED
    BY <2>1 DEF IInv, SecondOK
<1>16. ListedOK'
  <2> SUFFICES ASSUME NEW q \in DOMAIN seen, ListOK(q) PROVE ListOK(q)'
    BY <1>2 DEF IInv, ListedOK, Top
  <2>1. \A n : Todo(q, n)' <=> Todo(q, n)
    BY <1>2 DEF Todo, First
  <2>2. Known(Directory(q)) /\ Directory(q).ino \in Ino
    BY <1>1, DirectoryKnown DEF Known, Infos
  <2>3. Current(Directory(q), nodesThen') =>
            /\ Current(Directory(q), nodesThen)
            /\ EntriesThen(Directory(q).ino)' = EntriesThen(Directory(q).ino)
    BY <1>4, <1>6, <2>2 DEF EntriesThen
  <2> QED
    BY <1>2, <1>4, <2>1, <2>3 DEF ListOK, Limited, Todo, First
<1>17. RecordedOK'
  BY <1>2 DEF IInv, RecordedOK, Explained
<1> QED
  BY <1>1, <1>7, <1>9, <1>10, <1>12, <1>13, <1>14, <1>15, <1>16, <1>17 DEF IInv

-----------------------------------------------------------------------------
(* The scan gives up, or has not begun.                                    *)

LEMMA AbortStep ==
    ASSUME IInv, Abort PROVE IInv'
<1>1. /\ pc' = "changed" /\ stack' = <<>> /\ seen' = <<>> /\ result' = NoResult
      /\ UNCHANGED <<node, kids, now, snapshot>>
  BY DEF Abort, tree
<1>2. ~First' /\ ~Second' /\ pc' \notin Inspecting
  BY <1>1 DEF First, Second, PassOne, PassTwo, Inspecting
<1>3. TreeOK'
  BY <1>1, <1>2 DEF IInv, TreeOK
<1>4. StackOK'
  BY <1>1, <1>2, LimitsAssumption DEF StackOK
<1>5. DOMAIN seen' = {} /\ seen' \in [DOMAIN seen' -> Observations]
  BY <1>1
<1>6. SeenOK' /\ FreshOK' /\ CurOK' /\ SecondOK' /\ ListedOK'
  BY <1>1, <1>2, <1>5 DEF SeenOK, FreshOK, CurOK, SecondOK, ListedOK
<1>7. IsFiniteSet(result'.files) /\ result'.files = {}
  BY <1>1, FS_EmptySet DEF NoResult
<1>8. FilesOK' /\ BudgetOK' /\ RecordedOK'
  BY <1>1, <1>2, <1>5, <1>7, LimitsAssumption
     DEF FilesOK, BudgetOK, RecordedOK, NoResult, Results, Notes
<1> QED
  BY <1>3, <1>4, <1>6, <1>8 DEF IInv

LEMMA InfoFacts ==
    ASSUME NEW nodes \in [Ino -> Nodes], NEW i \in Ino
    PROVE  /\ InfoOf(nodes, i) \in Infos /\ InfoOf(nodes, i).ino = i
           /\ InfoOf(nodes, i).kind = nodes[i].kind /\ InfoOf(nodes, i).mode = nodes[i].mode
           /\ InfoOf(nodes, i).size = nodes[i].body.size
           /\ Current(InfoOf(nodes, i), nodes)
<1>1. nodes[i] \in Nodes /\ nodes[i].body \in Bodies
  BY DEF Nodes
<1>2. nodes[i].body.size \in Nat
  BY <1>1, TreeAssumption
<1> QED
  BY <1>1, <1>2 DEF InfoOf, Infos, Nodes, Current

\* What Lstat returns says which object it is about, and is current, whatever the object.
LEMMA InfoIsCurrent ==
    \A nodes, i : /\ InfoOf(nodes, i).kind = nodes[i].kind
                  /\ Current(InfoOf(nodes, i), nodes)
<1>1. \A nodes, i : InfoOf(nodes, i).kind = nodes[i].kind /\ InfoOf(nodes, i).ino = i
  BY DEF InfoOf
<1> QED
  BY <1>1, Zenon DEF Current

LEMMA InfoNow == \A i : Info(i) = InfoOf(node, i)
  BY DEF Info, InfoOf

LEMMA InitIInv == Init => IInv
<1> SUFFICES ASSUME Init PROVE IInv
  OBVIOUS
<1>1. PICK t \in Trees : node = t.node /\ kids = t.kids
  BY DEF Init
<1>2. /\ node \in [Ino -> [kind : Kinds, mode : {0, 1}, body : Bodies, ctime : {0}]]
      /\ kids \in [Ino -> [Names -> Maybe(Ino)]] /\ node[Root].kind = "directory" /\ Root \in Ino
  BY <1>1, TreeAssumption DEF Maybe
<1>3. node \in [Ino -> Nodes] /\ \A i \in Ino : node[i].ctime = 0
  BY <1>2 DEF Nodes
<1>4. /\ now = 0 /\ pc = "list" /\ stack = <<Frame(Root, <<>>, Info(Root))>> /\ cur = NoEntry
      /\ seen = [p \in {<<>>} |-> Observation(Info(Root))] /\ result = NoResult
  BY DEF Init
<1>5. First /\ ~Second /\ pc \notin Inspecting
  BY <1>4 DEF First, Second, PassOne, PassTwo, Inspecting
<1>6. TreeOK
  BY <1>2, <1>3, <1>4, <1>5, LimitsAssumption DEF TreeOK, First
<1> DEFINE x == Info(Root)
<1>7. x \in Infos /\ x.ino = Root /\ x.kind = "directory" /\ Current(x, node) /\ Known(x)
  BY <1>2, <1>3, InfoFacts, InfoNow DEF Known
<1> HIDE DEF x
<1>8. Observation(x) \in Observations /\ Observation(x).info = x
  BY <1>7 DEF Observation, Observations, Maybe
<1>9. /\ Frame(Root, <<>>, x) \in Frames /\ Frame(Root, <<>>, x).path = <<>>
      /\ Frame(Root, <<>>, x).todo = {} /\ Frame(Root, <<>>, x).opened = x
      /\ Frame(Root, <<>>, x).ino = Root
  BY <1>2, <1>7 DEF Frame, Frames, Maybe
<1>10. stack = <<Frame(Root, <<>>, x)>> /\ seen = [p \in {<<>>} |-> Observation(x)]
  BY <1>4 DEF x
<1> HIDE DEF Frame
<1>11. stack \in Seq(Frames) /\ Len(stack) = 1 /\ stack[1] = Frame(Root, <<>>, x)
  BY <1>9, <1>10
<1>12. DOMAIN seen = {<<>>} /\ seen \in [DOMAIN seen -> Observations] /\ seen[<<>>].info = x
  BY <1>8, <1>10
<1>13. FrameOK(1)
  BY <1>7, <1>9, <1>11, <1>12, LimitsAssumption DEF FrameOK, sameFile
<1>14. StackOK
  BY <1>4, <1>9, <1>11, <1>13, LimitsAssumption DEF StackOK, Top
<1>15. SeenOK
  BY <1>7, <1>12, LimitsAssumption DEF SeenOK
<1>16. FreshOK /\ CurOK /\ SecondOK
  <2>1. \A p \in DOMAIN seen : ~Pending(p)
    BY <1>12 DEF Pending
  <2>2. ~seen[Top.path].overflow /\ pc # "openroot"
    BY <1>4, <1>9, <1>10, <1>11 DEF Top, Observation
  <2> QED
    BY <1>5, <2>1, <2>2 DEF FreshOK, CurOK, SecondOK
<1>17. ListedOK
  BY <1>4, <1>9, <1>11, <1>12 DEF ListedOK, Top
<1>18. IsFiniteSet(result.files) /\ result.files = {}
  BY <1>4, FS_EmptySet DEF NoResult
<1>19. FilesOK /\ BudgetOK /\ RecordedOK
  BY <1>4, <1>5, <1>12, <1>18, LimitsAssumption
     DEF FilesOK, BudgetOK, RecordedOK, NoResult, Results, Notes
<1> QED
  BY <1>6, <1>14, <1>15, <1>16, <1>17, <1>19 DEF IInv

-----------------------------------------------------------------------------
(* The second pass.                                                        *)

LEMMA TopFacts ==
    ASSUME StackOK, pc # "changed"
    PROVE  /\ Len(stack) \in Nat /\ Len(stack) >= 1 /\ Top \in Frames /\ FrameOK(Len(stack))
           /\ Top.ino \in Ino /\ Top.path \in Seq(Names) /\ Top.todo \subseteq Names
           /\ Len(Top.path) = Len(stack) - 1
<1>1. stack \in Seq(Frames) /\ Len(stack) \in Nat /\ Len(stack) >= 1
  BY DEF StackOK
<1>2. Top \in Frames /\ FrameOK(Len(stack))
  BY <1>1 DEF StackOK, Top
<1>3. Len(Top.path) = Len(stack) - 1
  BY <1>2 DEF FrameOK, Top
<1> QED
  BY <1>1, <1>2, <1>3 DEF Frames

LEMMA NextNameIn ==
    ASSUME NEW T, T = Top.todo, T \subseteq Names, T # {}
    PROVE  NextName \in T /\ NextName \in Names
<1>1. \E n \in T : \A m \in T : n <= m
  BY LeastNatural, TreeAssumption
<1> QED
  BY <1>1 DEF NextName

\* What a step of the second pass leaves alone.
LEMMA SecondFrame ==
    ASSUME IInv, pc \in PassTwo, pc' \in PassTwo \union {"ok"},
           UNCHANGED <<node, kids, now, snapshot, seen, result>>, StackOK', SecondOK'
    PROVE  IInv'
<1>1. /\ ~First /\ ~First' /\ Second /\ Second' /\ pc \notin Inspecting /\ pc' \notin Inspecting
      /\ pc # "changed" /\ pc \notin {"list", "openroot", "relstat", "restat", "readall", "readelf"}
      /\ pc' \notin {"list", "openroot", "relstat", "restat", "readall", "readelf"}
  BY DEF First, Second, PassOne, PassTwo, Inspecting
<1>2. /\ nodesThen' = nodesThen /\ kidsThen' = kidsThen
      /\ (\A q : Directory(q)' = Directory(q))
      /\ \A q, n : ~Todo(q, n) /\ ~Todo(q, n)'
  BY <1>1 DEF nodesThen, kidsThen, Directory, Todo
<1>3. TreeOK'
  BY <1>1 DEF IInv, TreeOK
<1>4. SeenOK'
  BY <1>1, <1>2 DEF IInv, SeenOK, LinkOK, Known
<1>5. FreshOK' /\ CurOK'
  BY <1>1 DEF FreshOK, CurOK
<1>6. FilesOK'
  BY <1>2 DEF IInv, FilesOK, FileOK, BodyOK
<1>7. BudgetOK' /\ RecordedOK'
  BY <1>1, <1>2 DEF IInv, BudgetOK, RecordedOK, Explained
<1>8. ListedOK'
  BY <1>1, <1>2 DEF IInv, ListedOK, ListOK, Limited, EntriesThen
<1> QED
  BY <1>3, <1>4, <1>5, <1>6, <1>7, <1>8 DEF IInv

\* What is found as it was observed was like that between the passes.
LEMMA ConfirmedThen ==
    ASSUME IInv, Second, NEW p \in DOMAIN seen, Current(seen[p].info, node)
    PROVE  Current(seen[p].info, snapshot.node)
<1> DEFINE x == seen[p].info
<1>1. x \in Infos /\ x.ino \in Ino /\ x.ctime \in Nat
  BY DEF IInv, SeenOK, Known, Infos
<1>2. x.ctime = node[x.ino].ctime
  BY DEF Current, InfoOf
<1>3. node[x.ino] = snapshot.node[x.ino]
  BY <1>1, <1>2 DEF IInv, SecondOK
<1> QED
  BY <1>3 DEF Current, InfoOf

\* The three ways in which the walk changes its stack.
LEMMA ReplaceFacts ==
    ASSUME StackOK, pc # "changed", NEW T \in SUBSET Names,
           stack' = Replace([Top EXCEPT !.todo = T])
    PROVE  /\ stack' \in Seq(Frames) /\ Len(stack') = Len(stack)
           /\ \A f \in 1 .. Len(stack) :
                 /\ stack'[f].ino = stack[f].ino /\ stack'[f].path = stack[f].path
                 /\ stack'[f].opened = stack[f].opened
                 /\ f < Len(stack) => stack'[f].todo = stack[f].todo
           /\ stack'[Len(stack)].todo = T
<1> DEFINE t == [Top EXCEPT !.todo = T]
<1>1. stack \in Seq(Frames) /\ Len(stack) \in Nat /\ Len(stack) >= 1 /\ Top \in Frames
  BY TopFacts DEF StackOK
<1>2. /\ t \in Frames /\ t.ino = Top.ino /\ t.path = Top.path /\ t.opened = Top.opened
      /\ t.todo = T
  BY <1>1 DEF Frames
<1> HIDE DEF t
<1>3. stack' = [stack EXCEPT ![Len(stack)] = t]
  BY DEF Replace, t
<1>4. /\ stack' \in Seq(Frames) /\ Len(stack') = Len(stack) /\ stack'[Len(stack)] = t
      /\ \A f \in 1 .. Len(stack) : f # Len(stack) => stack'[f] = stack[f]
  BY <1>1, <1>2, <1>3
<1>5. ASSUME NEW f \in 1 .. Len(stack)
      PROVE  /\ stack'[f].ino = stack[f].ino /\ stack'[f].path = stack[f].path
             /\ stack'[f].opened = stack[f].opened
             /\ f < Len(stack) => stack'[f].todo = stack[f].todo
  <2>1. CASE f # Len(stack)
    BY <1>4, <2>1
  <2>2. CASE f = Len(stack)
    <3>1. stack'[f] = t /\ Top = stack[f] /\ ~(f < Len(stack))
      BY <1>1, <1>4, <2>2 DEF Top
    <3> QED
      BY <1>2, <3>1
  <2> QED
    BY <2>1, <2>2
<1>6. stack'[Len(stack)].todo = T
  BY <1>2, <1>4
<1> QED
  BY <1>4, <1>5, <1>6

LEMMA PushFacts ==
    ASSUME StackOK, NEW fr \in Frames, stack' = Append(stack, fr)
    PROVE  /\ stack' \in Seq(Frames) /\ Len(stack') = Len(stack) + 1
           /\ stack'[Len(stack) + 1] = fr
           /\ \A f \in 1 .. Len(stack) : stack'[f] = stack[f]
  BY DEF StackOK

LEMMA PopFacts ==
    ASSUME StackOK, Len(stack) > 1, stack' = Pop
    PROVE  /\ stack' \in Seq(Frames) /\ Len(stack') = Len(stack) - 1
           /\ \A f \in 1 .. Len(stack) - 1 : stack'[f] = stack[f]
  BY DEF StackOK, Pop

\* p is to be visited by the directory open at level f.
Awaits(p, f) == f <= Len(p) /\ SubSeq(p, 1, f - 1) = stack[f].path /\ p[f] \in stack[f].todo

\* A directory in which nothing is left to visit is done.
LEMMA ReturnsStep ==
    ASSUME IInv, pc \in PassTwo, VerifyReturns, Top.todo = {},
           \A p \in DOMAIN seen : Pending(p) => \E f \in 1 .. Len(stack) - 1 : Awaits(p, f)
    PROVE  IInv'
<1>1. /\ UNCHANGED <<node, kids, now, snapshot, cur, seen, result>>
      /\ StackOK /\ pc # "changed" /\ Second /\ ~First /\ Len(stack) \in Nat /\ Len(stack) >= 1
  BY TopFacts DEF IInv, VerifyReturns, tree, PassTwo, PassOne, First, Second
<1>2. CASE Len(stack) > 1
  <2>1. pc' = "vnext" /\ stack' = Pop
    BY <1>2 DEF VerifyReturns
  <2>2. /\ stack' \in Seq(Frames) /\ Len(stack') = Len(stack) - 1
        /\ \A f \in 1 .. Len(stack) - 1 : stack'[f] = stack[f]
    BY <1>1, <1>2, <2>1, PopFacts
  <2>3. ~First' /\ pc' \in PassTwo
    BY <2>1 DEF First, PassOne, PassTwo
  <2>4. ASSUME NEW f \in 1 .. Len(stack') PROVE FrameOK(f)'
    <3>1. f \in 1 .. Len(stack) /\ f \in 1 .. Len(stack) - 1
      BY <1>1, <2>2
    <3>2. FrameOK(f) /\ stack'[f] = stack[f]
      BY <1>1, <2>2, <3>1 DEF StackOK
    <3> QED
      BY <2>3, <3>2 DEF FrameOK
  <2>5. StackOK'
    <3>1. Len(stack') > 0 /\ Len(stack') <= MaxDepth + 2
      BY <1>1, <1>2, <2>2, LimitsAssumption DEF StackOK
    <3> QED
      BY <2>1, <2>2, <2>4, <3>1 DEF StackOK
  <2>6. \A p \in DOMAIN seen : Pending(p) => Pending(p)'
    BY <1>1, <2>2 DEF Awaits, Pending
  <2>7. SecondOK'
    BY <1>1, <2>6 DEF IInv, SecondOK
  <2> QED
    BY <1>1, <2>3, <2>5, <2>7, SecondFrame
<1>3. CASE Len(stack) = 1
  <2>1. pc' = "ok" /\ stack' = stack
    BY <1>3 DEF VerifyReturns
  <2>2. ~First'
    BY <2>1 DEF First, PassOne
  <2>3. StackOK'
    BY <1>1, <1>3, <2>1, <2>2 DEF StackOK, FrameOK, Top
  <2>4. \A p \in DOMAIN seen : ~Pending(p)
    BY <1>3
  <2>5. SecondOK'
    BY <1>1, <2>4 DEF IInv, SecondOK
  <2> QED
    BY <1>1, <2>1, <2>3, <2>5, SecondFrame
<1>4. Len(stack) > 1 \/ Len(stack) = 1
  <2>1. \A n \in Nat : n >= 1 => n > 1 \/ n = 1
    OBVIOUS
  <2> QED
    BY <1>1, <2>1
<1> QED
  BY <1>2, <1>3, <1>4

\* Who is pending in the second pass.
LEMMA PendingSecond ==
    ASSUME pc \in PassTwo, NEW p, Pending(p)
    PROVE  \/ \E f \in 1 .. Len(stack) : Awaits(p, f)
           \/ /\ pc \in {"vstat", "vlist"} /\ Len(stack) <= Len(p)
              /\ SubSeq(p, 1, Len(stack) - 1) = Top.path
           \/ /\ pc = "vopen" /\ Len(stack) < Len(p)
              /\ SubSeq(p, 1, Len(stack) - 1) = Top.path /\ p[Len(stack)] = cur.name
  BY DEF Pending, Awaits, PassTwo, Top

LEMMA VerifyDirectoryStep ==
    ASSUME IInv, VerifyDirectory PROVE IInv'
<1>1. pc = "vstat" /\ pc \in PassTwo /\ pc # "changed" /\ StackOK /\ Second
  BY DEF IInv, VerifyDirectory, PassTwo, Second
<1>2. CASE depth > MaxDepth /\ VerifyReturns
  <2>1. Len(stack) \in Nat /\ Len(stack) >= 1 /\ MaxDepth \in Nat /\ Len(stack) > MaxDepth + 1
    BY <1>1, <1>2, TopFacts, LimitsAssumption DEF depth
  <2>2. Top.todo = {}
    BY <1>1 DEF StackOK
  <2>3. \A p \in DOMAIN seen : Len(p) \in Nat /\ Len(p) < Len(stack)
    BY <2>1 DEF IInv, SeenOK
  <2>4. ASSUME NEW p \in DOMAIN seen, Pending(p)
        PROVE  \E f \in 1 .. Len(stack) - 1 : Awaits(p, f)
    <3>1. ~(Len(stack) <= Len(p)) /\ ~(Len(stack) < Len(p)) /\ Len(p) \in Nat
      BY <2>1, <2>3
    <3>2. PICK f \in 1 .. Len(stack) : Awaits(p, f)
      BY <1>1, <2>4, <3>1, PendingSecond
    <3>3. f <= Len(p)
      BY <3>2 DEF Awaits
    <3>4. f \in 1 .. Len(stack) - 1
      BY <2>1, <3>1, <3>3
    <3> QED
      BY <3>2, <3>4
  <2> QED
    BY <1>1, <1>2, <2>2, <2>4, ReturnsStep
<1>3. CASE depth <= MaxDepth /\ pc' = "vlist" /\ UNCHANGED <<tree, stack, cur, seen, result>>
  <2>1. UNCHANGED <<node, kids, now, snapshot, stack, cur, seen, result>>
    BY <1>3 DEF tree
  <2>2. ~First /\ ~First' /\ Second' /\ pc' \in PassTwo
    BY <1>1, <1>3 DEF First, PassOne, PassTwo, Second
  <2>3. StackOK'
    <3>1. Len(stack) <= MaxDepth + 1
      <4>1. Len(stack) \in Nat /\ MaxDepth \in Nat
        BY <1>1, TopFacts, LimitsAssumption
      <4> QED
        BY <1>3, <4>1 DEF depth
    <3>2. \A f \in 1 .. Len(stack) : FrameOK(f)'
      BY <1>1, <2>1, <2>2 DEF StackOK, FrameOK
    <3> QED
      BY <1>1, <1>3, <2>1, <3>1, <3>2 DEF StackOK, Top
  <2>4. \A p : Pending(p) => Pending(p)'
    BY <1>1, <1>3, <2>1 DEF Pending
  <2>5. SecondOK'
    BY <1>1, <2>1, <2>4 DEF IInv, SecondOK
  <2> QED
    BY <1>1, <2>1, <2>2, <2>3, <2>5, SecondFrame
<1> QED
  BY <1>2, <1>3, AbortStep DEF VerifyDirectory

\* p is below the open directory: the directory's listing has the name.
LEMMA BelowTop ==
    ASSUME IInv, pc # "changed", NEW p \in DOMAIN seen, Len(stack) <= Len(p),
           SubSeq(p, 1, Len(stack) - 1) = Top.path
    PROVE  /\ p \in Seq(Names) /\ LinkOK(p, Len(stack) - 1)
           /\ Top.path \in DOMAIN seen /\ p[Len(stack)] \in seen[Top.path].children
           /\ ~seen[Top.path].overflow
           /\ SubSeq(p, 1, Len(stack)) = childPath(p[Len(stack)])
<1>1. /\ Len(stack) \in Nat /\ Len(stack) >= 1 /\ p \in Seq(Names) /\ Len(p) \in Nat
      /\ Len(stack) - 1 \in 0 .. Len(p) - 1
  BY TopFacts DEF IInv, SeenOK
<1>2. LinkOK(p, Len(stack) - 1)
  BY <1>1 DEF IInv, SeenOK
<1>3. SubSeq(p, 1, Len(stack)) = childPath(p[Len(stack)])
  BY <1>1, LongerPrefix DEF childPath
<1>4. Len(stack) - 1 + 1 = Len(stack)
  BY <1>1
<1>5. /\ Top.path \in DOMAIN seen /\ p[Len(stack)] \in seen[Top.path].children
      /\ ~seen[Top.path].overflow
  BY <1>2, <1>4 DEF LinkOK
<1> QED
  BY <1>1, <1>2, <1>3, <1>5

LEMMA VerifyMembersStep ==
    ASSUME IInv, VerifyMembers PROVE IInv'
<1> DEFINE obs == seen[Top.path]
<1>1. /\ pc = "vlist" /\ pc \in PassTwo /\ pc # "changed" /\ StackOK /\ Second /\ ~First
      /\ Len(stack) \in Nat /\ Len(stack) >= 1
  BY TopFacts DEF IInv, VerifyMembers, PassTwo, PassOne, Second, First
<1>2. CASE obs.overflow /\ VerifyReturns
  <2>1. Top.todo = {}
    BY <1>1 DEF StackOK
  <2>2. ASSUME NEW p \in DOMAIN seen, Pending(p)
        PROVE  \E f \in 1 .. Len(stack) - 1 : Awaits(p, f)
    <3>1. ~(Len(stack) <= Len(p) /\ SubSeq(p, 1, Len(stack) - 1) = Top.path)
      BY <1>1, <1>2, BelowTop
    <3> QED
      BY <1>1, <2>1, <2>2, <3>1, PendingSecond DEF Awaits, Top
  <2> QED
    BY <1>1, <1>2, <2>1, <2>2, ReturnsStep
<1>3. CASE /\ stack' = Replace([Top EXCEPT !.todo = obs.children]) /\ pc' = "vnext"
           /\ UNCHANGED <<tree, cur, seen, result>>
           /\ Entries(Top.ino) = obs.children
  <2>1. UNCHANGED <<node, kids, now, snapshot, cur, seen, result>>
    BY <1>3 DEF tree
  <2>2. ~First' /\ Second' /\ pc' \in PassTwo
    BY <1>3 DEF First, PassOne, PassTwo, Second
  <2>3. obs.children \in SUBSET Names
    BY <1>3 DEF Entries
  <2>4. /\ stack' \in Seq(Frames) /\ Len(stack') = Len(stack)
        /\ \A f \in 1 .. Len(stack) : /\ stack'[f].path = stack[f].path
                                      /\ f < Len(stack) => stack'[f].todo = stack[f].todo
        /\ stack'[Len(stack)].todo = obs.children
    BY <1>1, <1>3, <2>3, ReplaceFacts
  <2>5. StackOK'
    <3>1. Len(stack) <= MaxDepth + 1 /\ Len(stack) > 0 /\ Len(stack) <= MaxDepth + 2
      BY <1>1 DEF StackOK
    <3>2. ASSUME NEW f \in 1 .. Len(stack) PROVE FrameOK(f)'
      <4>1. f <= MaxDepth + 1
        <5>1. f \in Nat /\ f <= Len(stack) /\ Len(stack) \in Nat /\ MaxDepth \in Nat
          BY <1>1, LimitsAssumption
        <5> QED
          BY <3>1, <5>1
      <4>2. Len(stack[f].path) = f - 1
        BY <1>1 DEF StackOK, FrameOK
      <4> QED
        BY <2>2, <2>4, <4>1, <4>2 DEF FrameOK
    <3> QED
      BY <1>3, <2>4, <3>1, <3>2 DEF StackOK
  <2>6. ASSUME NEW p \in DOMAIN seen, Pending(p) PROVE Pending(p)'
    <3>1. CASE Len(stack) <= Len(p) /\ SubSeq(p, 1, Len(stack) - 1) = Top.path
      <4>1. p[Len(stack)] \in obs.children
        BY <1>1, <3>1, BelowTop
      <4>2. /\ Len(stack) \in 1 .. Len(stack') /\ stack'[Len(stack)].path = Top.path
            /\ p[Len(stack)] \in stack'[Len(stack)].todo
        BY <1>1, <2>4, <4>1 DEF Top
      <4> QED
        BY <3>1, <4>2 DEF Pending
    <3>2. CASE ~(Len(stack) <= Len(p) /\ SubSeq(p, 1, Len(stack) - 1) = Top.path)
      <4>1. pc # "vopen" /\ Len(stack) \in Nat /\ Len(stack) >= 1
        BY <1>1
      <4>2. PICK f \in 1 .. Len(stack) : Awaits(p, f)
        BY <1>1, <2>6, <3>2, <4>1, PendingSecond
      <4>3. f # Len(stack)
        BY <3>2, <4>2 DEF Awaits, Top
      <4>4. f \in 1 .. Len(stack') /\ f < Len(stack)
        BY <2>4, <4>1, <4>3
      <4>5. stack'[f].path = stack[f].path /\ stack'[f].todo = stack[f].todo
        BY <2>4, <4>4
      <4> QED
        BY <4>2, <4>4, <4>5 DEF Pending, Awaits
    <3> QED
      BY <3>1, <3>2
  <2>7. SecondOK'
    BY <1>1, <2>1, <2>6 DEF IInv, SecondOK
  <2> QED
    BY <1>1, <2>1, <2>2, <2>5, <2>7, SecondFrame
<1> QED
  BY <1>2, <1>3, AbortStep DEF VerifyMembers

LEMMA VerifyEntryStep ==
    ASSUME IInv, VerifyEntry PROVE IInv'
<1> DEFINE name == NextName
           i == kids[Top.ino][name]
           c == childPath(name)
<1>1. /\ pc = "vnext" /\ pc \in PassTwo /\ pc # "changed" /\ StackOK /\ Second /\ ~First
      /\ Len(stack) \in Nat /\ Len(stack) >= 1 /\ Top.todo # {} /\ Top.todo \subseteq Names
  BY TopFacts DEF IInv, VerifyEntry, PassTwo, PassOne, Second, First
<1>2. name \in Top.todo /\ name \in Names
  BY <1>1, NextNameIn
<1> SUFFICES ASSUME i # None, stableMetadata(seen[c].info, Info(i)),
                    stack' = Replace([Top EXCEPT !.todo = @ \ {name}]),
                    cur' = [NoEntry EXCEPT !.name = name],
                    pc' = CASE node[i].kind = "symlink"   -> "vlink"
                            [] node[i].kind = "directory" -> "vopen"
                            [] OTHER                      -> "vnext",
                    UNCHANGED <<tree, seen, result>>
             PROVE  IInv'
  BY AbortStep DEF VerifyEntry
<1> HIDE DEF name
<1>3. /\ UNCHANGED <<node, kids, now, snapshot, seen, result>> /\ cur'.name = name
  BY DEF tree, NoEntry
<1>4. /\ pc' \in {"vlink", "vopen", "vnext"} /\ (node[i].kind = "directory" => pc' = "vopen")
  OBVIOUS
<1>5. ~First' /\ Second' /\ pc' \in PassTwo
  BY <1>4 DEF First, PassOne, PassTwo, Second
<1>6. stack' = Replace([Top EXCEPT !.todo = Top.todo \ {name}])
  BY <1>1, TopFacts DEF Frames
<1>7. /\ stack' \in Seq(Frames) /\ Len(stack') = Len(stack)
      /\ \A f \in 1 .. Len(stack) : /\ stack'[f].path = stack[f].path
                                    /\ f < Len(stack) => stack'[f].todo = stack[f].todo
      /\ stack'[Len(stack)].todo = Top.todo \ {name}
  BY <1>1, <1>6, ReplaceFacts
<1>8. StackOK'
  <2>1. Len(stack) > 0 /\ Len(stack) <= MaxDepth + 2 /\ FrameOK(Len(stack))
    BY <1>1, TopFacts DEF StackOK
  <2>2. Len(stack) <= MaxDepth + 1
    BY <1>1, <2>1 DEF FrameOK, Top
  <2>3. ASSUME NEW f \in 1 .. Len(stack) PROVE stack'[f].todo \subseteq stack[f].todo
    <3>1. f < Len(stack) \/ f = Len(stack)
      BY <1>1
    <3> QED
      BY <1>7, <3>1 DEF Top
  <2>4. \A f \in 1 .. Len(stack) : FrameOK(f)'
    BY <1>1, <1>5, <1>7, <2>3 DEF StackOK, FrameOK
  <2> QED
    BY <1>2, <1>3, <1>4, <1>7, <2>1, <2>2, <2>4 DEF StackOK
<1>9. seen[c].info = InfoOf(node, i)
  BY InfoNow DEF stableMetadata
<1>10. c \in DOMAIN seen => Current(seen[c].info, snapshot.node)
  <2>1. Current(seen[c].info, node)
    BY <1>9, InfoIsCurrent, ZenonT(40)
  <2> QED
    BY <1>1, <2>1, ConfirmedThen
<1>11. ASSUME NEW p \in DOMAIN seen, Pending(p), ~Pending(p)'
       PROVE  Current(seen[p].info, snapshot.node)
  <2>1. Len(stack) <= Len(p) /\ SubSeq(p, 1, Len(stack) - 1) = Top.path /\ p[Len(stack)] = name
    <3>1. PICK f \in 1 .. Len(stack) : Awaits(p, f)
      BY <1>1, <1>11, PendingSecond
    <3>2. ~(f \in 1 .. Len(stack') /\ f <= Len(p) /\ SubSeq(p, 1, f - 1) = stack'[f].path
            /\ p[f] \in stack'[f].todo)
      BY <1>11 DEF Pending
    <3>3. p[f] \notin stack'[f].todo
      BY <1>7, <3>1, <3>2 DEF Awaits
    <3>4. f = Len(stack)
      <4>1. ~(f < Len(stack))
        BY <1>7, <3>1, <3>3 DEF Awaits
      <4>2. f \in Nat /\ f <= Len(stack) /\ Len(stack) \in Nat
        BY <1>1
      <4> QED
        BY <4>1, <4>2
    <3> QED
      BY <1>7, <3>1, <3>3, <3>4 DEF Awaits, Top
  <2>2. p \in Seq(Names) /\ SubSeq(p, 1, Len(stack)) = c
    BY <1>1, <2>1, BelowTop
  <2>3. CASE Len(p) = Len(stack)
    BY <1>10, <2>2, <2>3, WholePath
  <2>4. CASE Len(p) > Len(stack)
    <3>1. LinkOK(p, Len(stack))
      <4>1. Len(stack) \in 0 .. Len(p) - 1
        BY <1>1, <2>2, <2>4
      <4> QED
        BY <4>1 DEF IInv, SeenOK
    <3>2. node[i].kind = "directory"
      <4>1. seen[c].info.kind = "directory"
        BY <2>2, <3>1 DEF LinkOK
      <4> HIDE DEF i, c
      <4> QED
        BY <1>9, <4>1, InfoIsCurrent
    <3>3. /\ Len(stack) \in 1 .. Len(stack') /\ Len(stack) = Len(stack')
          /\ stack'[Len(stack)].path = Top.path /\ pc' = "vopen" /\ p[Len(stack)] = cur'.name
      <4>1. pc' = "vopen" /\ p[Len(stack)] = cur'.name
        BY <1>3, <1>4, <2>1, <3>2
      <4>2. Len(stack) \in 1 .. Len(stack)
        BY <1>1
      <4> QED
        BY <1>7, <4>1, <4>2 DEF Top
    <3>4. Pending(p)'
      BY <2>1, <2>4, <3>3 DEF Pending
    <3> QED
      BY <1>11, <3>4
  <2>5. Len(p) = Len(stack) \/ Len(p) > Len(stack)
    BY <1>1, <2>1, <2>2
  <2> QED
    BY <2>3, <2>4, <2>5
<1>12. SecondOK'
  BY <1>1, <1>3, <1>11 DEF IInv, SecondOK
<1> QED
  BY <1>1, <1>3, <1>5, <1>8, <1>12, SecondFrame

LEMMA VerifyLinkStep ==
    ASSUME IInv, VerifyLink PROVE IInv'
<1> SUFFICES ASSUME pc = "vlink", pc' = "vnext", UNCHANGED <<tree, stack, cur, seen, result>>
             PROVE  IInv'
  BY AbortStep DEF VerifyLink
<1>1. UNCHANGED <<node, kids, now, snapshot, stack, cur, seen, result>>
  BY DEF tree
<1>2. pc \in PassTwo /\ pc' \in PassTwo /\ ~First /\ ~First' /\ Second
  BY DEF First, PassOne, PassTwo, Second
<1>3. StackOK'
  BY <1>1, <1>2 DEF IInv, StackOK, FrameOK
<1>4. \A p : Pending(p) => Pending(p)'
  BY <1>1 DEF Pending
<1>5. SecondOK'
  BY <1>1, <1>2, <1>4 DEF IInv, SecondOK
<1> QED
  BY <1>1, <1>2, <1>3, <1>5, SecondFrame

LEMMA VerifyOpenStep ==
    ASSUME IInv, VerifyOpen PROVE IInv'
<1>1. /\ pc = "vopen" /\ pc \in PassTwo /\ pc # "changed" /\ StackOK /\ Second /\ ~First
      /\ Len(stack) \in Nat /\ Len(stack) >= 1
  BY TopFacts DEF IInv, VerifyOpen, PassTwo, PassOne, Second, First
<1> SUFFICES ASSUME NEW i \in Opens(Top.ino, cur.name), i # None, node[i].kind = "directory",
                    stack' = Append(stack, Frame(i, childPath(cur.name), None)), pc' = "vstat",
                    UNCHANGED <<tree, cur, seen, result>>
             PROVE  IInv'
  BY AbortStep DEF VerifyOpen
<1>2. UNCHANGED <<node, kids, now, snapshot, cur, seen, result>>
  BY DEF tree
<1> DEFINE c == childPath(cur.name)
           fr == Frame(i, c, None)
<1>3. cur.name \in Names /\ Len(stack) <= MaxDepth + 1
  BY <1>1 DEF StackOK
<1>4. i \in Ino
  BY <1>1, <1>3, TopFacts DEF Opens, IInv, TreeOK, Maybe
<1>5. c \in Seq(Names) /\ Len(c) = Len(stack)
  BY <1>1, <1>3, TopFacts, ChildFacts DEF childPath
<1> HIDE DEF c
<1>6. fr \in Frames /\ fr.path = c /\ fr.todo = {}
  BY <1>4, <1>5 DEF Frame, Frames, Maybe
<1>7. stack' = Append(stack, fr)
  BY DEF c
<1> HIDE DEF fr
<1>8. /\ stack' \in Seq(Frames) /\ Len(stack') = Len(stack) + 1 /\ stack'[Len(stack) + 1] = fr
      /\ \A f \in 1 .. Len(stack) : stack'[f] = stack[f]
  BY <1>1, <1>6, <1>7, PushFacts
<1>9. ~First' /\ Second' /\ pc' \in PassTwo
  BY DEF First, PassOne, PassTwo, Second
<1>10. StackOK'
  <2>1. \A f \in 1 .. Len(stack) : FrameOK(f)'
    BY <1>1, <1>8, <1>9 DEF StackOK, FrameOK
  <2>2. ASSUME NEW f \in 1 .. Len(stack'), f = Len(stack) + 1 PROVE FrameOK(f)'
    <3>1. f - 1 = Len(stack)
      BY <1>1, <2>2
    <3>2. stack'[f].path = c /\ stack'[f].todo = {}
      BY <1>6, <1>8, <2>2
    <3> QED
      BY <1>5, <1>9, <3>1, <3>2 DEF FrameOK
  <2>3. ASSUME NEW f \in 1 .. Len(stack') PROVE FrameOK(f)'
    <3>1. f \in 1 .. Len(stack) \/ f = Len(stack) + 1
      BY <1>1, <1>8
    <3> QED
      BY <2>1, <2>2, <3>1
  <2>4. Len(stack') <= MaxDepth + 2 /\ Len(stack') > 0 /\ Top'.todo = {}
    BY <1>1, <1>3, <1>6, <1>8, LimitsAssumption DEF Top
  <2> QED
    BY <1>8, <2>3, <2>4 DEF StackOK
<1>11. ASSUME NEW p \in DOMAIN seen, Pending(p) PROVE Pending(p)'
  <2>1. CASE \E f \in 1 .. Len(stack) : Awaits(p, f)
    <3>1. PICK f \in 1 .. Len(stack) : Awaits(p, f)
      BY <2>1
    <3>2. f \in 1 .. Len(stack') /\ stack'[f] = stack[f]
      BY <1>1, <1>8
    <3> QED
      BY <3>1, <3>2 DEF Awaits, Pending
  <2>2. CASE /\ Len(stack) < Len(p) /\ SubSeq(p, 1, Len(stack) - 1) = Top.path
             /\ p[Len(stack)] = cur.name
    <3>1. p \in Seq(Names) /\ Len(p) \in Nat /\ Len(stack) - 1 \in 0 .. Len(p) - 1
      BY <1>1, <2>2 DEF IInv, SeenOK
    <3>2. SubSeq(p, 1, Len(stack) - 1 + 1) = Append(Top.path, cur.name)
      BY <1>1, <2>2, <3>1, LongerPrefix
    <3>3. SubSeq(p, 1, Len(stack)) = c
      BY <1>1, <3>2 DEF c, childPath
    <3>4. /\ Len(stack) + 1 \in 1 .. Len(stack') /\ Len(stack) + 1 <= Len(p)
          /\ SubSeq(p, 1, Len(stack) + 1 - 1) = stack'[Len(stack) + 1].path
          /\ Len(stack) + 1 = Len(stack')
      BY <1>1, <1>6, <1>8, <2>2, <3>1, <3>3
    <3> QED
      BY <3>4 DEF Pending
  <2> QED
    BY <1>1, <1>11, <2>1, <2>2, PendingSecond
<1>12. SecondOK'
  BY <1>1, <1>2, <1>11 DEF IInv, SecondOK
<1> QED
  BY <1>1, <1>2, <1>9, <1>10, <1>12, SecondFrame

LEMMA VerifyLeaveStep ==
    ASSUME IInv, VerifyLeave PROVE IInv'
<1>1. /\ pc = "vnext" /\ pc \in PassTwo /\ pc # "changed" /\ StackOK /\ Top.todo = {}
      /\ VerifyReturns /\ Len(stack) \in Nat /\ Len(stack) >= 1
  BY TopFacts DEF IInv, VerifyLeave, PassTwo
<1>2. ASSUME NEW p \in DOMAIN seen, Pending(p)
      PROVE  \E f \in 1 .. Len(stack) - 1 : Awaits(p, f)
  <2>1. PICK f \in 1 .. Len(stack) : Awaits(p, f)
    BY <1>1, <1>2, PendingSecond
  <2>2. f # Len(stack)
    BY <1>1, <2>1 DEF Awaits, Top
  <2> QED
    BY <1>1, <2>1, <2>2
<1> QED
  BY <1>1, <1>2, ReturnsStep

-----------------------------------------------------------------------------
(* The first pass, while one entry is inspected.                           *)

Quietly == PassOne \ {"list", "openroot"}

\* What the walk observed stays, up to the target of a link.
SameSeen ==
    /\ DOMAIN seen' = DOMAIN seen /\ seen' \in [DOMAIN seen' -> Observations]
    /\ \A p \in DOMAIN seen : /\ seen'[p].info = seen[p].info
                              /\ seen'[p].children = seen[p].children
                              /\ seen'[p].overflow = seen[p].overflow

\* The result has lost no explanation.
Grows ==
    /\ result' \in Results
    /\ result.limitations \subseteq result'.limitations /\ result.errors \subseteq result'.errors

QuietStep ==
    /\ pc \in Quietly /\ pc' \in Quietly
    /\ UNCHANGED <<node, kids, now, snapshot, stack>> /\ SameSeen /\ Grows

LEMMA QuietFrame ==
    ASSUME IInv, QuietStep
    PROVE  /\ TreeOK' /\ StackOK' /\ SeenOK' /\ FreshOK' /\ SecondOK' /\ ListedOK'
           /\ First /\ First' /\ pc # "changed"
           /\ nodesThen' = nodesThen /\ nodesThen = node /\ kidsThen = kids
           /\ \A q \in DOMAIN seen : Directory(q)' = Directory(q)
<1>1. UNCHANGED <<node, kids, now, snapshot, stack>> /\ SameSeen /\ Grows
  BY DEF QuietStep
<1>2. /\ First /\ First' /\ ~Second /\ ~Second' /\ pc # "changed" /\ pc' # "changed"
      /\ pc \notin {"list", "openroot", "vstat", "vlist", "vopen", "ok"}
      /\ pc' \notin {"list", "openroot", "vstat", "vlist", "vopen", "ok"}
  BY DEF QuietStep, Quietly, First, Second, PassOne, PassTwo
<1>3. nodesThen' = nodesThen /\ nodesThen = node /\ kidsThen' = kidsThen /\ kidsThen = kids
  BY <1>1, <1>2 DEF nodesThen, kidsThen
<1>4. \A q \in DOMAIN seen : Directory(q)' = Directory(q)
  BY <1>1, <1>2 DEF Directory, SameSeen
<1>5. TreeOK'
  BY <1>1, <1>2 DEF IInv, TreeOK, First
<1>6. \A x : Known(x)' <=> Known(x)
  BY <1>1 DEF Known
<1>7. StackOK'
  <2>1. \A f \in 1 .. Len(stack) : FrameOK(f)'
    BY <1>1, <1>2, <1>6 DEF IInv, StackOK, FrameOK, SameSeen, sameFile
  <2> QED
    BY <1>1, <1>2, <2>1 DEF IInv, StackOK
<1>8. SeenOK'
  <2>1. ASSUME NEW p \in DOMAIN seen, NEW k \in 0 .. Len(p) - 1 PROVE LinkOK(p, k)'
    <3>1. LinkOK(p, k)
      BY DEF IInv, SeenOK
    <3> QED
      BY <1>1, <1>3, <1>4, <3>1 DEF LinkOK, SameSeen
  <2>2. \A p \in DOMAIN seen : Len(p) <= MaxDepth + 1 /\ Known(seen[p].info)'
    <3>1. \A p \in DOMAIN seen : Len(p) <= MaxDepth + 1 /\ Known(seen[p].info)
      BY DEF IInv, SeenOK
    <3>2. \A p \in DOMAIN seen : seen'[p].info = seen[p].info
      BY <1>1 DEF SameSeen
    <3> QED
      BY <1>1, <3>1, <3>2 DEF Known
  <2>3. /\ <<>> \in DOMAIN seen' /\ seen'[<<>>].info.ino = Root
        /\ seen'[<<>>].info.kind = "directory"
    BY <1>1, <1>2 DEF IInv, SeenOK, SameSeen
  <2>4. /\ seen' \in [DOMAIN seen' -> Observations] /\ DOMAIN seen' \subseteq Seq(Names)
        /\ DOMAIN seen' = DOMAIN seen
    BY <1>1 DEF IInv, SeenOK, SameSeen
  <2> QED
    BY <2>1, <2>2, <2>3, <2>4 DEF SeenOK
<1>9. \A p : Pending(p)' <=> Pending(p)
  BY <1>1, <1>2 DEF Pending
<1>10. FreshOK' /\ SecondOK'
  BY <1>1, <1>2, <1>9 DEF IInv, FreshOK, SecondOK, SameSeen
<1>11. ListedOK'
  <2> SUFFICES ASSUME NEW q \in DOMAIN seen, seen[q].info.kind = "directory" PROVE ListOK(q)'
    BY <1>1 DEF ListedOK, SameSeen
  <2>1. ListOK(q)
    BY <1>2 DEF IInv, ListedOK
  <2>2. Limited(q) => Limited(q)'
    BY <1>1 DEF Limited, Grows
  <2>3. \A n : Todo(q, n)' <=> Todo(q, n)
    BY <1>1, <1>2 DEF Todo
  <2>4. \A i : EntriesThen(i)' = EntriesThen(i)
    BY <1>3 DEF EntriesThen
  <2> QED
    BY <1>1, <1>3, <1>4, <2>1, <2>2, <2>3, <2>4 DEF ListOK, SameSeen
<1> QED
  BY <1>2, <1>3, <1>4, <1>5, <1>7, <1>8, <1>10, <1>11

\* What an explanation was stays one.
LEMMA ExplainedStays ==
    ASSUME Grows, NEW f, Explained(f) PROVE Explained(f)'
  BY DEF Explained, Grows

\* The files recorded so far are as good as before.
LEMMA FilesStay ==
    ASSUME IInv, QuietStep
    PROVE  \A f \in result.files : FileOK(f)'
<1> SUFFICES ASSUME NEW f \in result.files PROVE FileOK(f)'
  OBVIOUS
<1> DEFINE q == SubSeq(f.path, 1, Len(f.path) - 1)
           x == seen[f.path].info
<1>1. FileOK(f) /\ f.path \in DOMAIN seen /\ f.path \in Seq(Names) /\ Len(f.path) > 0
  BY DEF IInv, FilesOK, FileOK, SeenOK
<1>2. LinkOK(f.path, Len(f.path) - 1)
  BY <1>1 DEF IInv, SeenOK
<1>3. q \in DOMAIN seen
  BY <1>2 DEF LinkOK
<1>4. nodesThen' = nodesThen /\ Directory(q)' = Directory(q)
  BY <1>3, QuietFrame
<1>5. f.path \in DOMAIN seen' /\ seen'[f.path].info = x
  BY <1>1 DEF QuietStep, SameSeen
<1>6. BodyOK(q, x, f.body)'
  BY <1>1, <1>4, <1>5 DEF FileOK, BodyOK
<1> QED
  BY <1>1, <1>5, <1>6 DEF FileOK

\* What is known of the entry being inspected.
LEMMA CurFacts ==
    ASSUME IInv, pc \in Inspecting
    PROVE  /\ cur \in Curs /\ cur.file \in Files /\ cur.info \in Infos /\ cur.name \in Names
           /\ cur.info.ino \in Ino /\ cur.info.size \in Nat
           /\ cur.file.path \in Seq(Names) /\ Len(cur.file.path) = Len(stack)
           /\ SubSeq(cur.file.path, 1, Len(stack) - 1) = Top.path
           /\ cur.file.path[Len(stack)] = cur.name
           /\ Top.path \in DOMAIN seen /\ Top.ino \in Ino
           /\ Directory(Top.path) = Top.opened /\ Top.opened.ino = Top.ino
           /\ nodesThen = node /\ kidsThen = kids
           /\ Current(Top.opened, node) => kids[Top.ino][cur.name] = cur.info.ino
<1>1. pc # "changed" /\ First /\ StackOK
  BY DEF Inspecting, PassOne, First, IInv
<1>2. /\ Len(stack) \in Nat /\ Len(stack) >= 1 /\ Top.path \in Seq(Names) /\ Top.ino \in Ino
      /\ Len(Top.path) = Len(stack) - 1 /\ FrameOK(Len(stack))
  BY <1>1, TopFacts
<1>3. Top.path \in DOMAIN seen /\ Top.opened.ino = Top.ino
  BY <1>1, <1>2 DEF FrameOK, Top
<1>4. /\ cur \in Curs /\ cur.file.path = childPath(cur.name) /\ cur.file.path \in DOMAIN seen
      /\ cur.info = seen[cur.file.path].info
  BY DEF IInv, CurOK
<1>5. cur.file \in Files /\ cur.info \in Infos /\ cur.name \in Names
  BY <1>4 DEF Curs
<1>6. cur.info.ino \in Ino /\ cur.info.size \in Nat
  BY <1>5 DEF Infos
<1>7. /\ cur.file.path \in Seq(Names) /\ Len(cur.file.path) = Len(Top.path) + 1
      /\ SubSeq(cur.file.path, 1, Len(Top.path)) = Top.path
      /\ cur.file.path[Len(cur.file.path)] = cur.name
  BY <1>2, <1>4, <1>5, ChildFacts DEF childPath
<1>8. Len(cur.file.path) = Len(stack) /\ Len(Top.path) + 1 = Len(stack)
  BY <1>2, <1>7
<1>9. Directory(Top.path) = Top.opened
  <2>1. Len(Top.path) < Len(stack)
    BY <1>2
  <2> QED
    BY <1>1, <1>8, <2>1 DEF Directory, Top
<1>10. nodesThen = node /\ kidsThen = kids
  BY <1>1 DEF nodesThen, kidsThen
<1>11. LinkOK(cur.file.path, Len(stack) - 1)
  <2>1. Len(stack) - 1 \in 0 .. Len(cur.file.path) - 1
    <3>1. \A n \in Nat : n >= 1 => n - 1 \in 0 .. n - 1
      OBVIOUS
    <3> QED
      BY <1>2, <1>8, <3>1
  <2> QED
    BY <1>4, <2>1 DEF IInv, SeenOK
<1>12. Current(Top.opened, node) => kids[Top.ino][cur.name] = cur.info.ino
  <2>1. Len(stack) - 1 + 1 = Len(stack) /\ SubSeq(cur.file.path, 1, Len(stack)) = cur.file.path
    BY <1>2, <1>7, <1>8, WholePath
  <2>2. SubSeq(cur.file.path, 1, Len(stack) - 1) = Top.path
    BY <1>2, <1>7
  <2> QED
    BY <1>3, <1>4, <1>7, <1>8, <1>9, <1>10, <1>11, <2>1, <2>2 DEF LinkOK
<1> QED
  BY <1>2, <1>3, <1>4, <1>5, <1>6, <1>7, <1>8, <1>9, <1>10, <1>12

\* The entry goes on to be inspected.
LEMMA InspectStep ==
    ASSUME IInv, QuietStep, pc \in Inspecting, pc' \in Inspecting,
           result'.files = result.files, BudgetOK',
           cur' \in Curs, cur'.name = cur.name, cur'.info = cur.info,
           cur'.file.path = cur.file.path, cur'.file.kind = cur.file.kind,
           cur'.file.mode = cur.file.mode, cur'.file.size = cur.file.size,
           BodyOK(Top.path, cur.info, cur'.file.body),
           pc' = "readlink" => cur.info.kind = "symlink",
           pc' \in Opened \union {"open"} => cur.info.kind = "regular",
           pc' \in Opened => cur'.fd = cur.info.ino,
           pc' = "relstat" /\ cur.info.kind = "regular" => cur'.file.skip,
           pc' = "restat" => cur'.file.inspected \/ Explained(cur.file)' \/ cur'.file.skip
    PROVE  IInv'
<1>1. /\ TreeOK' /\ StackOK' /\ SeenOK' /\ FreshOK' /\ SecondOK' /\ ListedOK'
      /\ nodesThen' = nodesThen /\ \A q \in DOMAIN seen : Directory(q)' = Directory(q)
  BY QuietFrame
<1>2. UNCHANGED <<stack>> /\ SameSeen /\ Grows
  BY DEF QuietStep
<1>3. pc # "openroot" /\ pc' # "openroot"
  BY DEF QuietStep, Quietly
<1>4. /\ cur.file.path = childPath(cur.name) /\ cur.file.path \in DOMAIN seen
      /\ cur.info = seen[cur.file.path].info /\ cur.file.kind = cur.info.kind
      /\ cur.file.mode = cur.info.mode /\ cur.file.size = cur.info.size
      /\ cur.info.kind # "directory"
  BY <1>3 DEF IInv, CurOK
<1>5. Top' = Top /\ childPath(cur.name)' = childPath(cur.name)
  BY <1>2 DEF Top, childPath
<1>6. BodyOK(Top.path, cur.info, cur.file.body)'
  BY <1>1, <1>5, CurFacts DEF BodyOK
<1>7. CurOK'
  <2>1. cur'.file.path = childPath(cur.name)'
    BY <1>4, <1>5
  <2>2. cur'.file.path \in DOMAIN seen' /\ cur'.info = seen'[cur'.file.path].info
    BY <1>2, <1>4 DEF SameSeen
  <2> QED
    BY <1>3, <1>4, <1>6, <2>1, <2>2 DEF CurOK
<1>8. FilesOK'
  BY <1>2, FilesStay DEF IInv, FilesOK, Grows
<1>9. RecordedOK'
  <2>1. \A p \in DOMAIN seen' \ {<<>>} :
          \/ \E f \in result'.files : f.path = p
          \/ pc' \in Inspecting \ {"openroot"} /\ p = cur'.file.path
    BY <1>2, <1>3 DEF IInv, RecordedOK, SameSeen
  <2>2. \A f \in result'.files : f.kind = "regular" => f.inspected \/ Explained(f)'
    BY <1>2, ExplainedStays DEF IInv, RecordedOK
  <2>3. pc' = "restat" => cur'.file.inspected \/ Explained(cur.file)'
    BY DEF Explained
  <2> QED
    BY <2>1, <2>2, <2>3 DEF RecordedOK
<1> QED
  BY <1>1, <1>7, <1>8, <1>9 DEF IInv

\* The budgets where no bytes are charged.
LEMMA BudgetStays ==
    ASSUME IInv, QuietStep, pc' \notin {"readall", "readelf"},
           result'.readBytes = result.readBytes, result'.binaryBytes = result.binaryBytes
    PROVE  BudgetOK'
<1>1. nodesThen' = nodesThen
  BY QuietFrame
<1> QED
  BY <1>1 DEF IInv, BudgetOK, QuietStep, SameSeen

\* The results of limit and scanError.
LEMMA NoteFacts ==
    ASSUME result \in Results, NEW code \in Codes, NEW path \in Seq(Names),
           result' = limit(code, path) \/ result' = scanError(code, path)
    PROVE  /\ Grows /\ <<code, path>> \in result'.limitations \union result'.errors
           /\ result'.files = result.files
           /\ result'.readBytes = result.readBytes /\ result'.binaryBytes = result.binaryBytes
  BY DEF limit, scanError, Grows, Results, Notes

LEMMA SameGrows ==
    ASSUME result \in Results, result' = result PROVE Grows
  BY DEF Grows

LEMMA SameIsSame ==
    ASSUME SeenOK, seen' = seen PROVE SameSeen
  BY DEF SeenOK, SameSeen

LEMMA ReadlinkStep ==
    ASSUME IInv, Readlink PROVE IInv'
<1> DEFINE i == kids[Top.ino][cur.name]
           path == cur.file.path
<1>1. /\ pc = "readlink" /\ pc' = "relstat" /\ pc \in Inspecting /\ pc' \in Inspecting
      /\ pc \in Quietly /\ pc' \in Quietly /\ UNCHANGED <<node, kids, now, snapshot, stack>>
      /\ pc' \notin Opened \union {"open", "readlink", "readall", "readelf", "restat"}
  BY DEF Readlink, Inspecting, Quietly, PassOne, tree, Opened
<1>2. /\ cur.info.kind = "symlink" /\ cur.file.path \in DOMAIN seen /\ cur \in Curs
      /\ cur.file \in Files /\ path \in Seq(Names) /\ SeenOK /\ result \in Results
      /\ BodyOK(Top.path, cur.info, cur.file.body) /\ node \in [Ino -> Nodes]
      /\ kids \in [Ino -> [Names -> Maybe(Ino)]] /\ StackOK
  BY <1>1, CurFacts DEF IInv, CurOK, FilesOK, TreeOK
<1>3. CASE /\ i # None /\ cur' = [cur EXCEPT !.file.body = node[i].body]
           /\ Observe(path, [seen[path] EXCEPT !.link = node[i].body])
           /\ UNCHANGED result
  <2>1. i \in Ino /\ node[i].body \in Bodies
    <3>1. Top.ino \in Ino /\ cur.name \in Names
      BY <1>1, <1>2, CurFacts
    <3>2. i \in Maybe(Ino) /\ i # None
      BY <1>2, <1>3, <3>1
    <3>3. i \in Ino
      BY <3>2 DEF Maybe
    <3> QED
      BY <1>2, <3>3, Zenon DEF Nodes
  <2> DEFINE obs == [seen[path] EXCEPT !.link = node[i].body]
             file == [cur.file EXCEPT !.body = node[i].body]
  <2>2. /\ obs \in Observations /\ obs.info = seen[path].info
        /\ obs.children = seen[path].children /\ obs.overflow = seen[path].overflow
    <3> HIDE DEF i, path
    <3>1. seen[path] \in Observations /\ node[i].body \in Maybe(Bodies)
      BY <1>2, <2>1, Zenon DEF SeenOK, Maybe, path
    <3> QED
      BY <3>1 DEF Observations
  <2>3. seen' = [p \in DOMAIN seen \union {path} |-> IF p = path THEN obs ELSE seen[p]]
    BY <1>3 DEF Observe
  <2> HIDE DEF obs
  <2>4. SameSeen
    BY <1>2, <2>2, <2>3 DEF SameSeen, SeenOK
  <2>5. file \in Files /\ file.body = node[i].body /\ file.path = cur.file.path
        /\ file.kind = cur.file.kind /\ file.mode = cur.file.mode /\ file.size = cur.file.size
    BY <1>2, <2>1 DEF Files, Maybe
  <2>6. cur' = [cur EXCEPT !.file = file]
    BY <1>2, <1>3 DEF Curs
  <2> HIDE DEF file
  <2>7. cur' \in Curs /\ cur'.name = cur.name /\ cur'.info = cur.info /\ cur'.file = file
    BY <1>2, <2>5, <2>6 DEF Curs
  <2>8. BodyOK(Top.path, cur.info, node[i].body)
    BY <1>1, CurFacts DEF BodyOK
  <2>9. QuietStep
    BY <1>1, <1>2, <1>3, <2>4, SameGrows DEF QuietStep
  <2>10. BudgetOK'
    BY <1>1, <1>3, <2>9, BudgetStays
  <2> QED
    BY <1>1, <1>2, <1>3, <2>5, <2>7, <2>8, <2>9, <2>10, InspectStep
<1>4. CASE result' = scanError("readlink", path) /\ UNCHANGED <<cur, seen>>
  <2>1. /\ Grows /\ result'.files = result.files
        /\ result'.readBytes = result.readBytes /\ result'.binaryBytes = result.binaryBytes
    BY <1>2, <1>4, NoteFacts DEF Codes
  <2>2. QuietStep
    BY <1>1, <1>2, <1>4, <2>1, SameIsSame DEF QuietStep
  <2>3. BudgetOK'
    BY <1>1, <2>1, <2>2, BudgetStays
  <2> QED
    BY <1>1, <1>2, <1>4, <2>1, <2>2, <2>3, InspectStep
<1> QED
  BY <1>3, <1>4 DEF Readlink

LEMMA OpenFileStep ==
    ASSUME IInv, OpenFile PROVE IInv'
<1> SUFFICES ASSUME NEW i \in Opens(Top.ino, cur.name), Pinned(i),
                    cur' = [cur EXCEPT !.fd = i, !.opened = Info(i)], pc' = "header",
                    UNCHANGED <<tree, stack, seen, result>>
             PROVE  IInv'
  BY AbortStep DEF OpenFile
<1>1. /\ pc = "open" /\ pc \in Inspecting /\ pc' \in Inspecting
      /\ pc \in Quietly /\ pc' \in Quietly
      /\ UNCHANGED <<node, kids, now, snapshot, stack, seen, result>>
  BY DEF OpenFile, Inspecting, Quietly, PassOne, tree
<1>2. /\ cur.info.kind = "regular" /\ cur \in Curs /\ cur.info.ino \in Ino
      /\ SeenOK /\ result \in Results
      /\ BodyOK(Top.path, cur.info, cur.file.body) /\ node \in [Ino -> Nodes]
  BY <1>1, CurFacts DEF IInv, CurOK, FilesOK, TreeOK, Opened
<1>3. i = cur.info.ino
  BY DEF Pinned, sameFile, Info
<1>4. Info(i) \in Infos
  BY <1>2, <1>3, InfoNow, InfoFacts
<1>5. /\ cur' \in Curs /\ cur'.name = cur.name /\ cur'.info = cur.info /\ cur'.file = cur.file
      /\ cur'.fd = i
  BY <1>2, <1>3, <1>4 DEF Curs, Maybe
<1>6. QuietStep
  BY <1>1, <1>2, SameGrows, SameIsSame DEF QuietStep
<1>7. BudgetOK'
  BY <1>1, <1>6, BudgetStays
<1> QED
  BY <1>1, <1>2, <1>3, <1>5, <1>6, <1>7, InspectStep

LEMMA HeaderFacts ==
    ASSUME IInv, pc \in Opened
    PROVE  /\ pc \in Inspecting /\ pc \in Quietly /\ cur.info.kind = "regular" /\ cur \in Curs
           /\ cur.info \in Infos /\ cur.fd = cur.info.ino /\ cur.info.ino \in Ino
           /\ cur.info.size \in Nat /\ cur.file \in Files /\ cur.file.path \in Seq(Names)
           /\ cur.file.path \in DOMAIN seen /\ cur.info = seen[cur.file.path].info
           /\ SeenOK /\ result \in Results /\ result.readBytes \in Nat
           /\ result.binaryBytes \in Nat /\ node \in [Ino -> Nodes]
           /\ BodyOK(Top.path, cur.info, cur.file.body)
<1>1. pc \in Inspecting /\ pc \in Quietly
  BY DEF Opened, Inspecting, PassOne, Quietly
<1>2. result \in Results /\ result.readBytes \in Nat /\ result.binaryBytes \in Nat
  BY DEF IInv, FilesOK, Results
<1> QED
  BY <1>1, <1>2, CurFacts DEF IInv, CurOK, TreeOK

\* The file is left uninspected, and the result says why.
LEMMA NotedStep ==
    ASSUME IInv, pc \in Opened, pc' = "restat", NEW code \in Codes,
           result' = limit(code, cur.file.path) \/ result' = scanError(code, cur.file.path),
           UNCHANGED <<tree, stack, cur, seen>>
    PROVE  IInv'
<1>1. /\ pc \in Inspecting /\ pc \in Quietly /\ cur.info.kind = "regular" /\ cur \in Curs
      /\ cur.fd = cur.info.ino /\ cur.file.path \in Seq(Names) /\ SeenOK /\ result \in Results
      /\ BodyOK(Top.path, cur.info, cur.file.body)
  BY HeaderFacts
<1>2. pc' \in Inspecting /\ pc' \in Quietly /\ UNCHANGED <<node, kids, now, snapshot>>
  BY DEF Inspecting, Quietly, PassOne, tree
<1>3. /\ Grows /\ <<code, cur.file.path>> \in result'.limitations \union result'.errors
      /\ result'.files = result.files
      /\ result'.readBytes = result.readBytes /\ result'.binaryBytes = result.binaryBytes
  BY <1>1, NoteFacts
<1>4. QuietStep
  BY <1>1, <1>2, <1>3, SameIsSame DEF QuietStep
<1>5. BudgetOK'
  BY <1>3, <1>4, BudgetStays
<1>6. Explained(cur.file)'
  BY <1>3 DEF Explained
<1> QED
  BY <1>1, <1>2, <1>3, <1>4, <1>5, <1>6, InspectStep

LEMMA ReadHeaderStep ==
    ASSUME IInv, ReadHeader PROVE IInv'
<1>1. /\ pc = "header" /\ pc \in Opened /\ UNCHANGED <<tree, stack, cur, seen>>
      /\ UNCHANGED <<node, kids, now, snapshot>>
  BY DEF ReadHeader, Opened, tree
<1>2. PICK elf \in {FALSE, node[cur.fd].body.format # "text"} :
          LET code == IF elf THEN binaryLimit ELSE sourceLimit IN
          IF code = "none"
          THEN pc' = (IF elf THEN "readelf" ELSE "readall") /\ UNCHANGED result
          ELSE pc' = "restat" /\ result' = limit(code, cur.file.path)
  BY DEF ReadHeader
<1> DEFINE code == IF elf THEN binaryLimit ELSE sourceLimit
<1>3. code \in Codes
  BY DEF binaryLimit, sourceLimit, Codes
<1>4. CASE code = "none"
  <2>1. /\ pc \in Inspecting /\ pc \in Quietly /\ cur.info.kind = "regular" /\ cur \in Curs
        /\ cur.fd = cur.info.ino /\ SeenOK /\ result \in Results
        /\ BodyOK(Top.path, cur.info, cur.file.body)
        /\ cur.info.size \in Nat /\ result.readBytes \in Nat /\ result.binaryBytes \in Nat
    BY <1>1, HeaderFacts
  <2>2. result' = result /\ pc' = (IF elf THEN "readelf" ELSE "readall")
    BY <1>2, <1>4
  <2>3. /\ pc' \in Inspecting /\ pc' \in Quietly
        /\ pc' \notin {"restat", "relstat", "readlink"}
    BY <2>2 DEF Inspecting, Quietly, PassOne
  <2>4. QuietStep
    BY <1>1, <2>1, <2>2, <2>3, SameIsSame, SameGrows DEF QuietStep
  <2>5. pc' = "readall" => result.readBytes + cur.info.size <= MaxReadBytes
    <3>1. pc' = "readall" => sourceLimit = "none"
      BY <1>4, <2>2
    <3> QED
      BY <2>1, <3>1, LimitsAssumption DEF sourceLimit
  <2>6. pc' = "readelf" => result.binaryBytes + cur.info.size <= MaxBinaryReadBytes
    <3>1. pc' = "readelf" => binaryLimit = "none"
      BY <1>4, <2>2
    <3> QED
      BY <2>1, <3>1, LimitsAssumption DEF binaryLimit
  <2>7. BudgetOK'
    <3>1. nodesThen' = nodesThen
      BY <2>4, QuietFrame
    <3> QED
      BY <1>1, <2>2, <2>5, <2>6, <3>1 DEF IInv, BudgetOK
  <2> QED
    BY <1>1, <2>1, <2>2, <2>3, <2>4, <2>7, InspectStep
<1>5. CASE code # "none"
  <2>1. pc' = "restat" /\ result' = limit(code, cur.file.path)
    BY <1>2, <1>5
  <2> HIDE DEF code
  <2> QED
    BY <1>1, <1>3, <2>1, NotedStep
<1> QED
  BY <1>4, <1>5

LEMMA SeekFailsStep ==
    ASSUME IInv, SeekFails PROVE IInv'
<1>1. pc \in Opened /\ pc' = "restat" /\ result' = scanError("seek-file", cur.file.path)
      /\ UNCHANGED <<tree, stack, cur, seen>>
  BY DEF SeekFails, Opened
<1> QED
  BY <1>1, NotedStep DEF Codes

LEMMA ReadFailsStep ==
    ASSUME IInv, ReadFails PROVE IInv'
<1> SUFFICES ASSUME pc \in {"readall", "readelf"}, result' = scanError("read", cur.file.path),
                    pc' = "restat", UNCHANGED <<tree, stack, cur, seen>>
             PROVE  IInv'
  BY AbortStep DEF ReadFails
<1>1. pc \in Opened
  BY DEF Opened
<1> QED
  BY <1>1, NotedStep DEF Codes

\* The file was read: what was read is the inode's content at this moment.
LEMMA InspectedStep ==
    ASSUME IInv, pc \in Opened, Inspected(node[cur.fd].body), Grows, BudgetOK',
           result'.files = result.files
    PROVE  IInv'
<1> DEFINE body == node[cur.fd].body
           file == [cur.file EXCEPT !.inspected = TRUE, !.body = body]
<1>1. /\ pc \in Inspecting /\ pc \in Quietly /\ cur.info.kind = "regular" /\ cur \in Curs
      /\ cur.fd = cur.info.ino /\ cur.info.ino \in Ino /\ cur.file \in Files /\ SeenOK
      /\ node \in [Ino -> Nodes]
  BY HeaderFacts
<1>2. /\ pc' = "restat" /\ pc' \in Inspecting /\ pc' \in Quietly
      /\ UNCHANGED <<node, kids, now, snapshot, stack, seen>>
  BY DEF Inspected, Inspecting, Quietly, PassOne, tree
<1>3. body \in Bodies
  BY <1>1 DEF Nodes
<1>4. cur' = [cur EXCEPT !.file.inspected = TRUE, !.file.body = body]
  BY DEF Inspected
<1> HIDE DEF body
<1>5. /\ file \in Files /\ file.body = body /\ file.path = cur.file.path /\ file.inspected
      /\ file.kind = cur.file.kind /\ file.mode = cur.file.mode /\ file.size = cur.file.size
  BY <1>1, <1>3 DEF Files, Maybe
<1>6. cur' = [cur EXCEPT !.file = file]
  BY <1>1, <1>4 DEF Curs, Files
<1> HIDE DEF file
<1>7. /\ cur' \in Curs /\ cur'.name = cur.name /\ cur'.info = cur.info /\ cur'.file = file
      /\ cur'.fd = cur.fd
  BY <1>1, <1>5, <1>6 DEF Curs
<1>8. BodyOK(Top.path, cur.info, body)
  BY <1>1, CurFacts DEF BodyOK, body
<1>9. QuietStep
  BY <1>1, <1>2, SameIsSame DEF QuietStep
<1> QED
  BY <1>1, <1>2, <1>5, <1>7, <1>8, <1>9, InspectStep

LEMMA SumIsNatural == \A a, b \in Nat : a + b \in Nat
  OBVIOUS

LEMMA ReadAllStep ==
    ASSUME IInv, ReadAll PROVE IInv'
<1> DEFINE body == node[cur.fd].body
<1> SUFFICES ASSUME pc = "readall", body.size <= MaxFileBytes,
                    result' = [result EXCEPT !.readBytes = @ + body.size], Inspected(body)
             PROVE  IInv'
  BY AbortStep DEF ReadAll
<1>1. pc \in Opened
  BY DEF Opened
<1>2. /\ cur.info.kind = "regular" /\ cur.fd = cur.info.ino /\ cur.info.ino \in Ino
      /\ cur.info.size \in Nat /\ cur.file.path \in DOMAIN seen
      /\ cur.info = seen[cur.file.path].info /\ result \in Results
      /\ result.readBytes \in Nat /\ node \in [Ino -> Nodes] /\ pc \in Inspecting
  BY <1>1, HeaderFacts
<1> DEFINE n == body.size
           total == result.readBytes + n
<1>3. n \in Nat /\ n <= MaxFileBytes /\ total \in Nat /\ result' = [result EXCEPT !.readBytes = total]
  <2>1. body \in Bodies
    BY <1>2 DEF Nodes
  <2>2. n \in Nat
    BY <2>1, TreeAssumption
  <2> HIDE DEF n
  <2>3. total \in Nat
    BY <1>2, <2>2, SumIsNatural, Zenon
  <2>4. result' = [result EXCEPT !.readBytes = total]
    BY <1>2 DEF n, Results
  <2> QED
    BY <2>2, <2>3, <2>4 DEF n
<1>4. /\ Grows /\ result'.files = result.files /\ result'.readBytes = result.readBytes + n
      /\ result'.binaryBytes = result.binaryBytes
  <2> HIDE DEF total, n
  <2>1. /\ Grows /\ result'.files = result.files /\ result'.readBytes = total
        /\ result'.binaryBytes = result.binaryBytes
    BY <1>2, <1>3 DEF Grows, Results
  <2> QED
    BY <2>1 DEF total
<1>5. pc' = "restat" /\ UNCHANGED <<node, kids, snapshot, seen>> /\ First /\ First'
  BY DEF Inspected, tree, First, PassOne
<1>6. nodesThen' = node
  BY <1>5 DEF nodesThen
<1>7. result.readBytes + cur.info.size <= MaxReadBytes
  BY DEF IInv, BudgetOK
<1>8. result'.readBytes <= MaxReadBytes + MaxFileBytes
  <2>1. /\ MaxReadBytes \in Nat /\ MaxFileBytes \in Nat /\ result.readBytes \in Nat
        /\ cur.info.size \in Nat
    BY <1>2, LimitsAssumption
  <2> QED
    BY <1>3, <1>4, <1>7, <2>1
<1>9. CASE n = cur.info.size
  <2>1. result'.readBytes <= MaxReadBytes
    BY <1>4, <1>7, <1>9
  <2>2. BudgetOK'
    BY <1>4, <1>5, <1>8, <2>1 DEF IInv, BudgetOK
  <2> QED
    BY <1>1, <1>4, <2>2, InspectedStep
<1>10. CASE n # cur.info.size
  <2>1. ~Current(cur.info, nodesThen')
    <3>1. InfoOf(node, cur.info.ino).size = n
      BY <1>2 DEF InfoOf
    <3> QED
      BY <1>6, <1>10, <3>1 DEF Current
  <2>2. BudgetOK'
    BY <1>2, <1>4, <1>5, <1>8, <2>1 DEF IInv, BudgetOK
  <2> QED
    BY <1>1, <1>4, <2>2, InspectedStep
<1> QED
  BY <1>9, <1>10

LEMMA ReadELFStep ==
    ASSUME IInv, ReadELF PROVE IInv'
<1> DEFINE body == node[cur.fd].body
           parsed == IF body.format = "elf" THEN result
                     ELSE limit("elf-parse-error", cur.file.path)
<1> SUFFICES ASSUME pc = "readelf", body.size = cur.info.size,
                    result' = [parsed EXCEPT !.binaryBytes = @ + body.size], Inspected(body)
             PROVE  IInv'
  BY AbortStep DEF ReadELF
<1>1. pc \in Opened
  BY DEF Opened
<1>2. /\ cur.info.size \in Nat /\ result \in Results /\ cur.file.path \in Seq(Names)
      /\ result.binaryBytes \in Nat
  BY <1>1, HeaderFacts
<1>3. /\ parsed \in Results /\ parsed.files = result.files
      /\ result.limitations \subseteq parsed.limitations /\ result.errors \subseteq parsed.errors
      /\ parsed.readBytes = result.readBytes /\ parsed.binaryBytes = result.binaryBytes
  <2>1. "elf-parse-error" \in Codes
    BY DEF Codes
  <2>2. CASE parsed = result
    BY <1>2, <2>2
  <2>3. CASE parsed = limit("elf-parse-error", cur.file.path)
    <3> HIDE DEF parsed
    <3> QED
      BY <1>2, <2>1, <2>3 DEF limit, Results, Notes
  <2> QED
    BY <2>2, <2>3
<1> HIDE DEF parsed
<1>4. /\ Grows /\ result'.files = result.files /\ result'.readBytes = result.readBytes
      /\ result'.binaryBytes = result.binaryBytes + cur.info.size
  BY <1>2, <1>3 DEF Grows, Results
<1>5. pc' = "restat" /\ UNCHANGED <<node, kids, snapshot, seen>> /\ First /\ First'
  BY DEF Inspected, tree, First, PassOne
<1>6. nodesThen' = nodesThen
  BY <1>5 DEF nodesThen
<1>7. result'.binaryBytes <= MaxBinaryReadBytes
  BY <1>4 DEF IInv, BudgetOK
<1>8. BudgetOK'
  BY <1>4, <1>5, <1>6, <1>7 DEF IInv, BudgetOK
<1> QED
  BY <1>1, <1>4, <1>8, InspectedStep

\* The entry is done and recorded.
LEMMA RecordedStep ==
    ASSUME IInv, pc \in {"relstat", "restat"}, Recorded PROVE IInv'
<1>1. /\ pc \in Inspecting /\ pc' = "next" /\ pc' \notin Inspecting
      /\ UNCHANGED <<node, kids, now, snapshot, stack, seen>>
      /\ pc \in Quietly /\ pc' \in Quietly /\ pc # "openroot"
  BY DEF Recorded, Inspecting, Quietly, PassOne, tree
<1>2. /\ cur.file \in Files /\ cur.file.path \in DOMAIN seen /\ cur.file.path \in Seq(Names)
      /\ SubSeq(cur.file.path, 1, Len(stack) - 1) = Top.path /\ Len(cur.file.path) = Len(stack)
      /\ Top.path \in DOMAIN seen /\ SeenOK /\ Len(stack) >= 1
      /\ result \in Results /\ IsFiniteSet(result.files)
  BY <1>1, CurFacts, TopFacts DEF IInv, CurOK, FilesOK, StackOK
<1>3. /\ result'.files = result.files \union {cur.file} /\ Grows
      /\ result'.readBytes = result.readBytes /\ result'.binaryBytes = result.binaryBytes
  BY <1>2 DEF Recorded, Record, Grows, Results
<1>4. QuietStep
  BY <1>1, <1>2, <1>3, SameIsSame DEF QuietStep
<1>5. /\ TreeOK' /\ StackOK' /\ SeenOK' /\ FreshOK' /\ SecondOK' /\ ListedOK'
      /\ nodesThen' = nodesThen /\ \A q \in DOMAIN seen : Directory(q)' = Directory(q)
  BY <1>4, QuietFrame
<1>6. CurOK' /\ BudgetOK'
  BY <1>1, <1>3, <1>4, BudgetStays DEF CurOK
<1>7. FilesOK'
  <2>1. ASSUME NEW g, g = cur.file PROVE FileOK(g)'
    <3>1. /\ g.kind = cur.info.kind /\ g.mode = cur.info.mode /\ g.size = cur.info.size
          /\ g.kind # "directory" /\ cur.info = seen[g.path].info
          /\ BodyOK(Top.path, cur.info, g.body)
      BY <1>1, <2>1 DEF IInv, CurOK
    <3>2. SubSeq(g.path, 1, Len(g.path) - 1) = Top.path /\ Len(g.path) > 0
      BY <1>2, <2>1
    <3>3. BodyOK(SubSeq(g.path, 1, Len(g.path) - 1), seen[g.path].info, g.body)'
      BY <1>1, <1>2, <1>5, <3>1, <3>2 DEF BodyOK
    <3> QED
      BY <1>1, <1>2, <2>1, <3>1, <3>2, <3>3 DEF FileOK
  <2>2. \A g \in result'.files : FileOK(g)'
    BY <1>3, <1>4, <2>1, FilesStay
  <2>3. IsFiniteSet(result'.files)
    <3>1. IsFiniteSet(result.files \union {cur.file})
      BY <1>2, FS_AddElement
    <3> QED
      BY <1>3, <3>1
  <2> QED
    BY <1>3, <2>2, <2>3 DEF FilesOK, Grows
<1>8. RecordedOK'
  <2>1. \A p \in DOMAIN seen' \ {<<>>} : \E f \in result'.files : f.path = p
    BY <1>1, <1>3 DEF IInv, RecordedOK
  <2>2. ASSUME NEW f \in result'.files, f.kind = "regular" PROVE f.inspected \/ Explained(f)'
    <3>1. CASE f \in result.files
      BY <1>3, <2>2, <3>1, ExplainedStays DEF IInv, RecordedOK
    <3>2. CASE f = cur.file
      <4>1. cur.info.kind = "regular"
        BY <1>1, <2>2, <3>2 DEF IInv, CurOK
      <4>2. f.inspected \/ Explained(f)
        BY <3>2, <4>1 DEF IInv, RecordedOK, Explained
      <4> QED
        BY <1>3, <4>2, ExplainedStays
    <3> QED
      BY <1>3, <3>1, <3>2
  <2> QED
    BY <1>1, <2>1, <2>2 DEF RecordedOK
<1> QED
  BY <1>5, <1>6, <1>7, <1>8 DEF IInv

LEMMA VerifyPathStableStep ==
    ASSUME IInv, VerifyPathStable PROVE IInv'
  BY AbortStep, RecordedStep DEF VerifyPathStable

LEMMA VerifyRegularStableStep ==
    ASSUME IInv, VerifyRegularStable PROVE IInv'
  BY AbortStep, RecordedStep DEF VerifyRegularStable

LEMMA CallFailsStep ==
    ASSUME IInv, CallFails PROVE IInv'
  BY AbortStep DEF CallFails

-----------------------------------------------------------------------------
(* The first pass, from entry to entry and from directory to directory.    *)

\* Something below q was observed.
Below(q) == \E p \in DOMAIN seen : \E k \in 0 .. Len(p) - 1 : SubSeq(p, 1, k) = q

\* A step that observes more keeps what was observed, of a directory only which
\* inode it is.
Observes ==
    /\ First /\ Grows /\ nodesThen' = node /\ kidsThen' = kids
    /\ node' = node /\ kids' = kids /\ now' = now
    /\ DOMAIN seen \subseteq DOMAIN seen'
    /\ \A p \in DOMAIN seen :
          /\ sameFile(seen'[p].info, seen[p].info) /\ Known(seen[p].info)'
          /\ seen'[p].info = seen[p].info \/ seen[p].info.kind = "directory"
    /\ \A q \in DOMAIN seen :
          Below(q) => /\ Directory(q)' = Directory(q)
                      /\ seen'[q].children = seen[q].children
                      /\ seen'[q].overflow = seen[q].overflow

LEMMA LinksStay ==
    ASSUME IInv, Observes, NEW p \in DOMAIN seen, NEW k \in 0 .. Len(p) - 1
    PROVE  LinkOK(p, k)'
<1> DEFINE q == SubSeq(p, 1, k)
           c == SubSeq(p, 1, k + 1)
<1>1. LinkOK(p, k) /\ q \in DOMAIN seen /\ c \in DOMAIN seen
  BY DEF IInv, SeenOK, LinkOK
<1>2. /\ Directory(q)' = Directory(q) /\ seen'[q].children = seen[q].children
      /\ seen'[q].overflow = seen[q].overflow
  BY <1>1 DEF Observes, Below
<1>3. /\ q \in DOMAIN seen' /\ c \in DOMAIN seen' /\ seen'[q].info.ino = seen[q].info.ino
      /\ seen'[q].info.kind = seen[q].info.kind /\ seen'[c].info.ino = seen[c].info.ino
  BY <1>1 DEF Observes, sameFile
<1>4. nodesThen' = nodesThen /\ kidsThen' = kidsThen
  BY DEF Observes, nodesThen, kidsThen
<1> QED
  BY <1>1, <1>2, <1>3, <1>4 DEF LinkOK

LEMMA FilesCarried ==
    ASSUME IInv, Observes, NEW f \in result.files
    PROVE  FileOK(f)'
<1> DEFINE q == SubSeq(f.path, 1, Len(f.path) - 1)
<1>1. FileOK(f) /\ f.path \in DOMAIN seen /\ f.path \in Seq(Names) /\ Len(f.path) > 0
  BY DEF IInv, FilesOK, FileOK, SeenOK
<1>2. Len(f.path) - 1 \in 0 .. Len(f.path) - 1
  BY <1>1
<1>3. q \in DOMAIN seen
  BY <1>1, <1>2 DEF IInv, SeenOK, LinkOK
<1>4. Directory(q)' = Directory(q) /\ nodesThen' = nodesThen
  BY <1>1, <1>2, <1>3 DEF Observes, Below, nodesThen
<1>5. f.path \in DOMAIN seen' /\ seen'[f.path].info.kind = seen[f.path].info.kind
  BY <1>1 DEF Observes, sameFile
<1>6. CASE f.kind = "directory"
  BY <1>1, <1>5, <1>6 DEF FileOK, BodyOK
<1>7. CASE f.kind # "directory"
  <2>1. seen'[f.path].info = seen[f.path].info
    BY <1>1, <1>7 DEF Observes, FileOK
  <2>2. BodyOK(q, seen[f.path].info, f.body)'
    BY <1>1, <1>4, <2>1 DEF FileOK, BodyOK
  <2> QED
    BY <1>1, <1>5, <2>1, <2>2 DEF FileOK
<1> QED
  BY <1>6, <1>7

LEMMA ListCarried ==
    ASSUME IInv, Observes, NEW q \in DOMAIN seen, ListOK(q), Directory(q)' = Directory(q),
           seen'[q].children = seen[q].children,
           \A n \in seen[q].children : Todo(q, n) => Todo(q, n)' \/ Append(q, n) \in DOMAIN seen'
    PROVE  ListOK(q)'
<1>1. Limited(q) => Limited(q)'
  BY DEF Limited, Observes, Grows
<1>2. nodesThen' = nodesThen /\ kidsThen' = kidsThen
  BY DEF Observes, nodesThen, kidsThen
<1>4. \A n \in seen'[q].children : Append(q, n) \in DOMAIN seen' \/ Todo(q, n)' \/ Limited(q)
  BY DEF ListOK, Observes
<1>5. \/ Limited(q)
      \/ Current(Directory(q), nodesThen) => EntriesThen(Directory(q).ino) \subseteq seen[q].children
  BY DEF ListOK
<1>6. (EntriesThen(Directory(q).ino))' = EntriesThen(Directory(q).ino)
  BY <1>2 DEF EntriesThen
<1>7. \/ Limited(q)
      \/ (Current(Directory(q), nodesThen) =>
              EntriesThen(Directory(q).ino) \subseteq seen[q].children)'
  BY <1>2, <1>5, <1>6
<1> QED
  BY <1>1, <1>4, <1>7 DEF ListOK

LEMMA BudgetCarried ==
    ASSUME IInv, Observes, pc' \notin {"readall", "readelf"},
           result'.readBytes = result.readBytes, result'.binaryBytes = result.binaryBytes
    PROVE  BudgetOK'
<1>1. nodesThen' = nodesThen
  BY DEF Observes, nodesThen
<1>2. \A p \in DOMAIN seen : seen[p].info.kind = "regular" =>
          p \in DOMAIN seen' /\ seen'[p].info = seen[p].info
  BY DEF Observes
<1> QED
  BY <1>1, <1>2 DEF IInv, BudgetOK

\* SeenOK but for what is new.
LEMMA SeenCarried ==
    ASSUME IInv, Observes, pc # "changed", seen' \in [DOMAIN seen' -> Observations],
           \A p \in DOMAIN seen' \ DOMAIN seen :
              /\ p \in Seq(Names) /\ Len(p) <= MaxDepth + 1 /\ Known(seen[p].info)'
              /\ \A k \in 0 .. Len(p) - 1 : LinkOK(p, k)'
    PROVE  SeenOK'
<1>1. /\ <<>> \in DOMAIN seen' /\ seen'[<<>>].info.ino = Root
      /\ seen'[<<>>].info.kind = "directory"
  BY DEF IInv, SeenOK, Observes, sameFile
<1>2. DOMAIN seen' \subseteq Seq(Names)
  BY DEF IInv, SeenOK
<1>3. \A p \in DOMAIN seen : Len(p) <= MaxDepth + 1 /\ Known(seen[p].info)'
  BY DEF IInv, SeenOK, Observes
<1>4. \A p \in DOMAIN seen : \A k \in 0 .. Len(p) - 1 : LinkOK(p, k)'
  BY LinksStay
<1> QED
  BY <1>1, <1>2, <1>3, <1>4 DEF SeenOK

\* Facts about the directory the walk is in.
LEMMA WalkFacts ==
    ASSUME IInv, First
    PROVE  /\ pc # "changed" /\ Len(stack) \in Nat /\ Len(stack) >= 1 /\ Top \in Frames
           /\ Top.ino \in Ino /\ Top.path \in Seq(Names) /\ Top.todo \subseteq Names
           /\ Len(Top.path) = Len(stack) - 1 /\ Top.path \in DOMAIN seen
           /\ Known(Top.opened) /\ Top.opened.ino = Top.ino
           /\ sameFile(Top.opened, seen[Top.path].info) /\ seen[Top.path].info.kind = "directory"
           /\ Directory(Top.path) = Top.opened /\ nodesThen = node /\ kidsThen = kids
           /\ Top.todo \subseteq seen[Top.path].children
           /\ Top.todo # {} => ~seen[Top.path].overflow /\ Len(stack) <= MaxDepth + 1
           /\ \A f \in 1 .. Len(stack) : FrameOK(f) /\ stack[f].path \in DOMAIN seen
<1>1. pc # "changed" /\ StackOK
  BY DEF First, PassOne, IInv
<1>2. /\ Len(stack) \in Nat /\ Len(stack) >= 1 /\ Top \in Frames /\ FrameOK(Len(stack))
      /\ Top.ino \in Ino /\ Top.path \in Seq(Names) /\ Top.todo \subseteq Names
      /\ Len(Top.path) = Len(stack) - 1
  BY <1>1, TopFacts
<1>3. /\ Top.path \in DOMAIN seen /\ Known(Top.opened) /\ Top.opened.ino = Top.ino
      /\ Top.opened.kind = "directory" /\ sameFile(Top.opened, seen[Top.path].info)
      /\ Top.todo \subseteq seen[Top.path].children
      /\ Top.todo # {} => ~seen[Top.path].overflow /\ Len(stack) <= MaxDepth + 1
  BY <1>2 DEF FrameOK, Top
<1>4. Directory(Top.path) = Top.opened
  <2>1. Len(Top.path) < Len(stack) /\ Len(Top.path) + 1 = Len(stack)
    BY <1>2
  <2> QED
    BY <2>1 DEF Directory, Top
<1>5. \A f \in 1 .. Len(stack) : FrameOK(f) /\ stack[f].path \in DOMAIN seen
  BY <1>1 DEF StackOK, FrameOK
<1>6. seen[Top.path].info.kind = "directory"
  BY <1>3 DEF sameFile
<1> QED
  BY <1>1, <1>2, <1>3, <1>4, <1>5, <1>6 DEF nodesThen, kidsThen

\* The directory on top was listed, or its listing was cut off; D is what of it is
\* to be visited.
LEMMA ListingStep ==
    ASSUME IInv, pc = "list", pc' = "next", NEW D \in SUBSET Names, NEW T, T = Top.path,
           UNCHANGED <<node, kids, now>>, Grows, result'.files = result.files,
           result'.readBytes = result.readBytes, result'.binaryBytes = result.binaryBytes,
           stack' = Replace([Top EXCEPT !.todo = D]),
           DOMAIN seen' = DOMAIN seen, seen' \in [DOMAIN seen' -> Observations],
           \A p \in DOMAIN seen : seen'[p].info = seen[p].info,
           \A p \in DOMAIN seen \ {T} : seen'[p] = seen[p],
           D \subseteq seen'[T].children,
           D # {} => ~seen'[T].overflow /\ Len(stack) <= MaxDepth + 1,
           \/ Limited(T)'
           \/ /\ seen'[T].children = Entries(Top.ino) /\ D = Entries(Top.ino)
    PROVE  IInv'
<1>1. /\ First /\ First' /\ ~Second' /\ pc \notin Inspecting /\ pc' \notin Inspecting
      /\ pc' \notin {"list", "vstat", "vlist", "ok", "vopen", "openroot", "changed", "readall",
                     "readelf", "relstat", "restat"}
  BY DEF First, Second, PassOne, PassTwo, Inspecting
<1>2. /\ pc # "changed" /\ Len(stack) \in Nat /\ Len(stack) >= 1 /\ Top.path \in DOMAIN seen
      /\ Len(Top.path) = Len(stack) - 1 /\ Top.opened.ino = Top.ino
      /\ Directory(Top.path) = Top.opened /\ StackOK /\ Top.todo = {}
      /\ \A f \in 1 .. Len(stack) : FrameOK(f) /\ stack[f].path \in DOMAIN seen
  BY <1>1, WalkFacts DEF IInv, StackOK
<1>3. /\ stack' \in Seq(Frames) /\ Len(stack') = Len(stack)
      /\ \A f \in 1 .. Len(stack) :
            /\ stack'[f].ino = stack[f].ino /\ stack'[f].path = stack[f].path
            /\ stack'[f].opened = stack[f].opened
            /\ f < Len(stack) => stack'[f].todo = stack[f].todo
      /\ stack'[Len(stack)].todo = D
  BY <1>2, ReplaceFacts
<1>4. \A q \in DOMAIN seen : Directory(q)' = Directory(q)
  <2> SUFFICES ASSUME NEW q \in DOMAIN seen PROVE Directory(q)' = Directory(q)
    OBVIOUS
  <2>1. Len(q) \in Nat
    BY DEF IInv, SeenOK
  <2>2. Len(q) < Len(stack) => Len(q) + 1 \in 1 .. Len(stack)
    BY <1>2, <2>1
  <2> QED
    BY <1>1, <1>3, <2>2 DEF Directory
<1>5. nodesThen' = node /\ kidsThen' = kids
  BY <1>1 DEF nodesThen, kidsThen
<1>6. ~Below(T)
  <2> SUFFICES ASSUME NEW p \in DOMAIN seen, NEW k \in 0 .. Len(p) - 1, SubSeq(p, 1, k) = T
               PROVE  FALSE
    BY DEF Below
  <2>1. p \in Seq(Names) /\ Len(p) \in Nat /\ k \in 0 .. Len(p)
    BY DEF IInv, SeenOK
  <2>2. k = Len(stack) - 1
    BY <1>2, <2>1, PrefixFacts
  <2>3. /\ Len(stack) \in 1 .. Len(stack) /\ Len(stack) <= Len(p)
        /\ SubSeq(p, 1, Len(stack) - 1) = stack[Len(stack)].path
    BY <1>2, <2>1, <2>2 DEF Top
  <2>4. Pending(p)
    BY <2>3 DEF Pending
  <2> QED
    BY <1>1, <2>4 DEF IInv, FreshOK
<1>7. \A p \in DOMAIN seen : Known(seen[p].info)'
  BY DEF IInv, SeenOK, Known
<1>8. Observes
  BY <1>1, <1>4, <1>5, <1>6, <1>7 DEF Observes, sameFile
<1>9. TreeOK'
  BY <1>1 DEF IInv, TreeOK, First
<1>10. StackOK'
  <2>1. ASSUME NEW f \in 1 .. Len(stack), f # Len(stack) PROVE FrameOK(f)'
    <3>1. FrameOK(f) /\ f < Len(stack) /\ Len(stack[f].path) = f - 1 /\ stack[f].path \in DOMAIN seen
      BY <1>2, <2>1 DEF FrameOK
    <3>2. stack[f].path # T
      BY <1>2, <3>1
    <3>3. seen'[stack[f].path] = seen[stack[f].path]
      BY <3>1, <3>2
    <3> QED
      BY <1>1, <1>3, <3>1, <3>3 DEF FrameOK, Known
  <2>2. ASSUME NEW f \in 1 .. Len(stack), f = Len(stack) PROVE FrameOK(f)'
    <3>1. FrameOK(f) /\ stack[f].path = T
      BY <1>2, <2>2 DEF Top
    <3>2. seen'[T].info = seen[T].info
      BY <1>2
    <3>3. /\ stack'[f].path = T /\ stack'[f].ino = stack[f].ino
          /\ stack'[f].opened = stack[f].opened /\ stack'[f].todo = D
      BY <1>3, <2>2, <3>1
    <3>4. Known(stack[f].opened)'
      BY <1>1, <3>1, <3>3 DEF FrameOK, Known
    <3> QED
      BY <1>1, <1>2, <2>2, <3>1, <3>2, <3>3, <3>4, ZenonT(40) DEF FrameOK, sameFile
  <2>3. Len(stack') <= MaxDepth + 2 /\ Len(stack') > 0
    BY <1>2, <1>3 DEF StackOK
  <2>4. \A f \in 1 .. Len(stack') : FrameOK(f)'
    BY <1>3, <2>1, <2>2
  <2> QED
    BY <1>1, <1>3, <2>3, <2>4 DEF StackOK
<1>11. SeenOK'
  BY <1>2, <1>8, SeenCarried
<1>12. FreshOK'
  <2> SUFFICES ASSUME NEW p \in DOMAIN seen, Pending(p)' PROVE Pending(p)
    BY <1>1 DEF IInv, FreshOK
  <2>1. PICK f \in 1 .. Len(stack') : /\ f <= Len(p) /\ SubSeq(p, 1, f - 1) = stack'[f].path
                                      /\ p[f] \in stack'[f].todo
    BY <1>1 DEF Pending
  <2>2. f \in 1 .. Len(stack) /\ SubSeq(p, 1, f - 1) = stack[f].path
    BY <1>3, <2>1
  <2>3. CASE f = Len(stack)
    BY <2>1, <2>2, <2>3 DEF Pending
  <2>4. CASE f < Len(stack)
    BY <1>3, <2>1, <2>2, <2>4 DEF Pending
  <2>5. f = Len(stack) \/ f < Len(stack)
    BY <1>2, <2>2
  <2> QED
    BY <2>3, <2>4, <2>5
<1>13. CurOK' /\ SecondOK'
  BY <1>1 DEF CurOK, SecondOK
<1>14. FilesOK'
  BY <1>8, FilesCarried DEF IInv, FilesOK, Grows
<1>15. BudgetOK'
  BY <1>1, <1>8, BudgetCarried
<1>16. ListedOK'
  <2>1. ASSUME NEW q \in DOMAIN seen, q # T, seen[q].info.kind = "directory" PROVE ListOK(q)'
    <3>1. ListOK(q)
      BY <1>1, <2>1 DEF IInv, ListedOK
    <3>2. ASSUME NEW n, Todo(q, n) PROVE Todo(q, n)'
      <4>1. PICK f \in 1 .. Len(stack) : stack[f].path = q /\ n \in stack[f].todo
        BY <3>2 DEF Todo
      <4>2. f < Len(stack)
        BY <1>2, <4>1 DEF Top
      <4> QED
        BY <1>1, <1>3, <4>1, <4>2 DEF Todo
    <3>3. Directory(q)' = Directory(q) /\ seen'[q].children = seen[q].children
      BY <1>4, <2>1
    <3> QED
      BY <1>8, <3>1, <3>2, <3>3, ListCarried
  <2>2. ListOK(T)'
    <3>1. CASE Limited(T)'
      BY <3>1 DEF ListOK
    <3>2. CASE seen'[T].children = Entries(Top.ino) /\ D = Entries(Top.ino)
      <4>1. Directory(T)'.ino = Top.ino
        BY <1>2, <1>4
      <4>2. EntriesThen(Directory(T).ino)' = Entries(Top.ino)
        BY <1>5, <4>1 DEF EntriesThen, Entries
      <4>3. ASSUME NEW n \in D PROVE Todo(T, n)'
        <5>1. Len(stack) \in 1 .. Len(stack') /\ stack'[Len(stack)].path = T
          BY <1>2, <1>3 DEF Top
        <5> QED
          BY <1>1, <1>3, <5>1 DEF Todo
      <4> QED
        BY <3>2, <4>2, <4>3 DEF ListOK
    <3> QED
      BY <3>1, <3>2
  <2> QED
    BY <2>1, <2>2 DEF ListedOK
<1>17. RecordedOK'
  <2>1. \A f \in result.files : Explained(f) => Explained(f)'
    BY ExplainedStays
  <2> QED
    BY <1>1, <2>1 DEF IInv, RecordedOK
<1> QED
  BY <1>9, <1>10, <1>11, <1>12, <1>13, <1>14, <1>15, <1>16, <1>17 DEF IInv

LEMMA ReadDirStep ==
    ASSUME IInv, ReadDir PROVE IInv'
<1> DEFINE T == Top.path
           remaining == MaxFiles - Cardinality(result.files)
           listed == [seen[T] EXCEPT !.entryLimit = remaining]
<1>1. /\ pc = "list" /\ pc' = "next" /\ First /\ UNCHANGED <<node, kids, now, cur>>
  BY DEF ReadDir, First, PassOne, tree
<1>2. /\ pc # "changed" /\ StackOK /\ Top.todo = {} /\ Top \in Frames /\ T \in DOMAIN seen
      /\ T \in Seq(Names) /\ seen \in [DOMAIN seen -> Observations] /\ result \in Results
      /\ Len(stack) \in Nat /\ Len(stack) >= 1 /\ stack \in Seq(Frames)
  BY <1>1, WalkFacts DEF IInv, StackOK, SeenOK, FilesOK
<1>3. remaining \in Int
  BY LimitsAssumption, FS_CardinalityType DEF IInv, FilesOK
<1>4. Replace([Top EXCEPT !.todo = {}]) = stack
  <2>1. [Top EXCEPT !.todo = {}] = Top
    BY <1>2 DEF Frames
  <2> QED
    BY <1>2, <2>1 DEF Replace, Top
<1> HIDE DEF remaining
<1>5. /\ listed \in Observations /\ listed.info = seen[T].info
      /\ listed.children = seen[T].children
  BY <1>2, <1>3 DEF Observations
<1>6. CASE result' = limit("max-depth", T) /\ UNCHANGED <<seen, stack>>
  <2>1. /\ Grows /\ result'.files = result.files /\ result'.readBytes = result.readBytes
        /\ result'.binaryBytes = result.binaryBytes
    BY <1>2, <1>6, NoteFacts DEF Codes
  <2>2. ASSUME NEW t, t = Top.path PROVE Limited(t)'
    BY <1>2, <1>6, <2>2 DEF Limited, limit, Results
  <2> QED
    BY <1>1, <1>2, <1>4, <1>6, <2>1, <2>2, ListingStep
<1>7. CASE /\ Observe(T, [listed EXCEPT !.overflow = TRUE])
           /\ result' = limit("max-files", T) /\ UNCHANGED stack
  <2>1. /\ Grows /\ result'.files = result.files /\ result'.readBytes = result.readBytes
        /\ result'.binaryBytes = result.binaryBytes
    BY <1>2, <1>7, NoteFacts DEF Codes
  <2>2. ASSUME NEW t, t = Top.path PROVE Limited(t)'
    BY <1>2, <1>7, <2>2 DEF Limited, limit, Results
  <2> DEFINE obs == [listed EXCEPT !.overflow = TRUE]
  <2>3. obs \in Observations /\ obs.info = seen[T].info
    BY <1>5 DEF Observations
  <2>4. seen' = [p \in DOMAIN seen \union {T} |-> IF p = T THEN obs ELSE seen[p]]
    BY <1>7 DEF Observe
  <2> HIDE DEF obs
  <2>5. /\ DOMAIN seen' = DOMAIN seen /\ seen' \in [DOMAIN seen' -> Observations]
        /\ (\A p \in DOMAIN seen : seen'[p].info = seen[p].info)
        /\ \A p \in DOMAIN seen \ {T} : seen'[p] = seen[p]
    BY <1>2, <2>3, <2>4
  <2>6. stack' = Replace([Top EXCEPT !.todo = {}])
    BY <1>4, <1>7
  <2> QED
    BY <1>1, <1>2, <1>7, <2>1, <2>2, <2>5, <2>6, ListingStep
<1>8. CASE /\ depth <= MaxDepth
           /\ Observe(T, [listed EXCEPT !.children = Entries(Top.ino)])
           /\ stack' = Replace([Top EXCEPT !.todo = Entries(Top.ino)])
           /\ ~exceeds(Top.ino, remaining)
           /\ UNCHANGED result
  <2> DEFINE D == Entries(Top.ino)
             obs == [listed EXCEPT !.children = D]
  <2>1. D \in SUBSET Names
    BY DEF Entries
  <2>2. obs \in Observations /\ obs.info = seen[T].info /\ obs.children = D
        /\ ~obs.overflow
    <3> HIDE DEF D
    <3>1. ~seen[T].overflow
      BY <1>1 DEF IInv, FreshOK
    <3> QED
      BY <1>2, <1>5, <2>1, <3>1 DEF Observations
  <2>3. seen' = [p \in DOMAIN seen \union {T} |-> IF p = T THEN obs ELSE seen[p]]
    BY <1>8 DEF Observe
  <2> HIDE DEF obs
  <2>4. /\ DOMAIN seen' = DOMAIN seen /\ seen' \in [DOMAIN seen' -> Observations]
        /\ (\A p \in DOMAIN seen : seen'[p].info = seen[p].info)
        /\ \A p \in DOMAIN seen \ {T} : seen'[p] = seen[p]
        /\ seen'[T] = obs
    BY <1>2, <2>2, <2>3
  <2>5. Len(stack) <= MaxDepth + 1
    <3>1. MaxDepth \in Nat
      BY LimitsAssumption
    <3> QED
      BY <1>2, <1>8, <3>1 DEF depth
  <2>6. Grows
    BY <1>2, <1>8, SameGrows
  <2> QED
    BY <1>1, <1>2, <1>8, <2>1, <2>2, <2>4, <2>5, <2>6, ListingStep, ZenonT(40)
<1> QED
  BY <1>6, <1>7, <1>8 DEF ReadDir, remaining

LEMMA LstatEntryStep ==
    ASSUME IInv, LstatEntry PROVE IInv'
<1> SUFFICES ASSUME NEW T, T = Top.path, NEW L, L = Len(stack) PROVE IInv'
  OBVIOUS
<1>1. pc = "next" /\ Top.todo # {} /\ First
  BY DEF LstatEntry, First, PassOne
<1>2. /\ pc # "changed" /\ L \in Nat /\ L >= 1 /\ Top \in Frames /\ Top.ino \in Ino
      /\ T \in Seq(Names) /\ Top.todo \subseteq Names /\ Len(T) = L - 1 /\ T \in DOMAIN seen
      /\ Top.opened.ino = Top.ino /\ sameFile(Top.opened, seen[T].info)
      /\ seen[T].info.kind = "directory" /\ Directory(T) = Top.opened
      /\ Top.todo \subseteq seen[T].children /\ ~seen[T].overflow /\ L <= MaxDepth + 1
      /\ (\A f \in 1 .. L : FrameOK(f) /\ stack[f].path \in DOMAIN seen) /\ StackOK
  BY <1>1, WalkFacts DEF IInv
<1>3. NextName \in Top.todo /\ NextName \in Names
  BY <1>1, <1>2, NextNameIn
<1> SUFFICES ASSUME NEW name, name = NextName, NEW i, i = kids[Top.ino][name],
                    NEW c, c = childPath(name), NEW x, x = Info(i),
                    NEW file, file = fileFor(c, x)
             PROVE  IInv'
  OBVIOUS
<1>0. SUFFICES ASSUME i # None, Observe(c, Observation(x)),
                      cur' = [NoEntry EXCEPT !.name = name, !.info = x, !.file = file],
                      pc' = CASE file.kind = "symlink"   -> "readlink"
                              [] file.kind = "directory" -> "openroot"
                              [] file.kind = "special"   -> "relstat"
                              [] OTHER                   -> IF file.skip THEN "relstat" ELSE "open",
                      result' = CASE file.kind = "directory" -> Record(file)
                                  [] file.kind = "special"   ->
                                       [limit("special-file", file.path)
                                            EXCEPT !.files = @ \union {file}]
                                  [] OTHER                   -> result,
                      stack' = Replace([Top EXCEPT !.todo = @ \ {name}]),
                      UNCHANGED tree
               PROVE  IInv'
  BY AbortStep DEF LstatEntry
<1>4. UNCHANGED <<node, kids, now, snapshot>> /\ name \in Top.todo /\ name \in Names
  BY <1>0, <1>3 DEF tree
<1>5. /\ c \in Seq(Names) /\ Len(c) = L /\ c[L] = name /\ SubSeq(c, 1, L - 1) = T
      /\ (\A j \in 1 .. L - 1 : c[j] = T[j])
      /\ \A k \in 0 .. L - 1 : SubSeq(c, 1, k) = SubSeq(T, 1, k)
  BY <1>2, <1>4, ChildFacts DEF childPath
<1>6. i \in Ino /\ node \in [Ino -> Nodes]
  <2>1. node \in [Ino -> Nodes] /\ kids \in [Ino -> [Names -> Maybe(Ino)]]
    BY Zenon DEF IInv, TreeOK
  <2>2. i = kids[Top.ino][name] /\ i # None
    BY <1>0
  <2>3. i \in Maybe(Ino)
    BY <1>2, <1>4, <2>1, <2>2, ZenonT(40)
  <2> QED
    BY <2>1, <2>2, <2>3, ZenonT(40) DEF Maybe
<1>7. x \in Infos /\ x.ino = i /\ Current(x, node) /\ x.kind \in Kinds
  BY <1>6, InfoFacts, InfoNow DEF Infos
<1>8. /\ file \in Files /\ file.path = c /\ file.kind = x.kind /\ file.mode = x.mode
      /\ file.size = x.size /\ file.body = None
  BY <1>5, <1>7 DEF fileFor, Files, Infos, Maybe
<1> DEFINE obs == Observation(x)
<1>9. obs \in Observations /\ obs.info = x /\ ~obs.overflow
  BY <1>7 DEF Observation, Observations, Maybe
<1>10. seen' = [p \in DOMAIN seen \union {c} |-> IF p = c THEN obs ELSE seen[p]]
  BY <1>0 DEF Observe
<1> HIDE DEF obs
<1>11. c \notin DOMAIN seen
  <2>1. L \in 1 .. L /\ L <= Len(c)
    BY <1>2, <1>5
  <2>3. SubSeq(c, 1, L - 1) = stack[L].path /\ c[L] \in stack[L].todo
    BY <1>4, <1>5 DEF Top
  <2>2. Pending(c)
    BY <2>1, <2>3 DEF Pending
  <2> QED
    BY <1>1, <2>2 DEF IInv, FreshOK
<1>12. /\ DOMAIN seen' = DOMAIN seen \union {c} /\ seen'[c] = obs
       /\ \A p \in DOMAIN seen : seen'[p] = seen[p]
  BY <1>10, <1>11
<1>13. seen' \in [DOMAIN seen' -> Observations]
  BY <1>9, <1>10 DEF IInv, SeenOK
<1>14. stack' = Replace([Top EXCEPT !.todo = Top.todo \ {name}])
  BY <1>0, <1>2 DEF Frames
<1>15. /\ stack' \in Seq(Frames) /\ Len(stack') = L
       /\ \A f \in 1 .. L :
             /\ stack'[f].ino = stack[f].ino /\ stack'[f].path = stack[f].path
             /\ stack'[f].opened = stack[f].opened
             /\ f < L => stack'[f].todo = stack[f].todo
       /\ stack'[L].todo = Top.todo \ {name}
  BY <1>2, <1>14, ReplaceFacts
<1>16. /\ cur' \in Curs /\ cur'.name = name /\ cur'.info = x /\ cur'.file = file
       /\ cur'.fd = None
  BY <1>0, <1>4, <1>7, <1>8 DEF NoEntry, Curs, Maybe
<1>17. /\ pc' \in {"readlink", "openroot", "relstat", "open"} /\ pc' \in Inspecting
       /\ (pc' = "readlink" => x.kind = "symlink") /\ (pc' = "openroot" <=> x.kind = "directory")
       /\ (pc' = "open" => x.kind = "regular")
       /\ (pc' = "relstat" /\ x.kind = "regular" => file.skip)
  BY <1>0, <1>7, <1>8 DEF Kinds, Inspecting, PassOne
<1>18. First' /\ ~Second' /\ pc' # "changed" /\ pc' \notin Opened
       /\ pc' \notin {"list", "vstat", "vlist", "ok", "vopen", "readall", "readelf", "restat"}
  BY <1>17 DEF First, Second, PassOne, PassTwo, Inspecting, Opened
<1>19. nodesThen' = node /\ kidsThen' = kids
  BY <1>4, <1>18 DEF nodesThen, kidsThen
<1>20. result \in Results /\ IsFiniteSet(result.files)
  BY DEF IInv, FilesOK
<1>21. /\ Grows /\ result'.readBytes = result.readBytes /\ result'.binaryBytes = result.binaryBytes
       /\ \/ result'.files = result.files /\ x.kind # "directory"
          \/ result'.files = result.files \union {file} /\ x.kind \in {"directory", "special"}
  <2>1. CASE file.kind = "directory"
    <3>1. result' = [result EXCEPT !.files = @ \union {file}]
      BY <1>0, <2>1 DEF Record
    <3> QED
      BY <1>8, <1>20, <2>1, <3>1 DEF Grows, Results
  <2>2. CASE file.kind = "special"
    <3>1. result' = [limit("special-file", file.path) EXCEPT !.files = @ \union {file}]
      BY <1>0, <2>2
    <3>2. "special-file" \in Codes
      BY DEF Codes
    <3>3. /\ limit("special-file", file.path) \in Results
          /\ limit("special-file", file.path).files = result.files
          /\ limit("special-file", file.path).readBytes = result.readBytes
          /\ limit("special-file", file.path).binaryBytes = result.binaryBytes
          /\ result.limitations \subseteq limit("special-file", file.path).limitations
          /\ limit("special-file", file.path).errors = result.errors
      <4>1. <<"special-file", file.path>> \in Codes \X Seq(Names)
        BY <1>5, <1>8, <3>2
      <4> QED
        BY <1>20, <4>1 DEF limit, Results, Notes
    <3> DEFINE noted == limit("special-file", file.path)
    <3> HIDE DEF noted
    <3>4. /\ noted \in Results /\ noted.files = result.files
          /\ noted.readBytes = result.readBytes /\ noted.binaryBytes = result.binaryBytes
          /\ result.limitations \subseteq noted.limitations /\ noted.errors = result.errors
          /\ result' = [noted EXCEPT !.files = @ \union {file}]
      BY <3>1, <3>3 DEF noted
    <3> QED
      BY <1>8, <2>2, <3>4 DEF Grows, Results
  <2>3. CASE file.kind \notin {"directory", "special"}
    BY <1>0, <1>8, <1>20, <2>3, SameGrows
  <2> QED
    BY <2>1, <2>2, <2>3
<1>22. \A q \in DOMAIN seen : Directory(q)' = Directory(q)
  <2> SUFFICES ASSUME NEW q \in DOMAIN seen PROVE Directory(q)' = Directory(q)
    OBVIOUS
  <2>1. Len(q) \in Nat
    BY DEF IInv, SeenOK
  <2>2. Len(q) < L => Len(q) + 1 \in 1 .. L
    BY <1>2, <2>1
  <2> QED
    BY <1>1, <1>12, <1>15, <1>18, <2>2 DEF Directory
<1>23. Observes
  <2>1. \A p \in DOMAIN seen : Known(seen[p].info)'
    BY <1>4, <1>12 DEF IInv, SeenOK, Known
  <2> QED
    BY <1>1, <1>4, <1>12, <1>19, <1>21, <1>22, <2>1 DEF Observes, sameFile
<1>24. TreeOK'
  BY <1>4, <1>18 DEF IInv, TreeOK, First
<1>25. StackOK'
  <2>1. ASSUME NEW f \in 1 .. L PROVE FrameOK(f)'
    <3>1. FrameOK(f) /\ stack[f].path \in DOMAIN seen
      BY <1>2
    <3>2. seen'[stack[f].path] = seen[stack[f].path] /\ stack[f].path \in DOMAIN seen'
      BY <1>12, <3>1
    <3>3. stack'[f].todo \subseteq stack[f].todo
      <4>1. f < L \/ f = L
        BY <1>2
      <4> QED
        BY <1>15, <4>1 DEF Top
    <3>4. /\ stack'[f].path = stack[f].path /\ stack'[f].ino = stack[f].ino
          /\ stack'[f].opened = stack[f].opened
      BY <1>15
    <3>5. Known(stack[f].opened)'
      BY <1>1, <1>4, <3>1, <3>4 DEF FrameOK, Known
    <3> QED
      BY <1>1, <3>1, <3>2, <3>3, <3>4, <3>5 DEF FrameOK
  <2>2. L <= MaxDepth + 2 /\ L > 0
    BY <1>2 DEF StackOK
  <2> QED
    BY <1>15, <1>18, <2>1, <2>2 DEF StackOK
<1>26. SeenOK'
  <2>1. Known(x)'
    BY <1>4, <1>7 DEF Known
  <2>2. ASSUME NEW k \in 0 .. Len(c) - 1 PROVE LinkOK(c, k)'
    <3>1. CASE k < L - 1
      <4>1. k \in 0 .. Len(T) - 1 /\ k \in 0 .. L - 1 /\ k + 1 \in 0 .. L - 1 /\ k + 1 \in 1 .. L - 1
        BY <1>2, <1>5, <3>1
      <4>2. LinkOK(T, k)'
        BY <1>2, <1>23, <4>1, LinksStay
      <4>3. /\ SubSeq(c, 1, k) = SubSeq(T, 1, k) /\ SubSeq(c, 1, k + 1) = SubSeq(T, 1, k + 1)
            /\ c[k + 1] = T[k + 1]
        BY <1>5, <4>1
      <4> QED
        BY <4>2, <4>3 DEF LinkOK
    <3>2. CASE k = L - 1
      <4>1. k + 1 = L /\ SubSeq(c, 1, k) = T /\ SubSeq(c, 1, k + 1) = c /\ c[k + 1] = name
        BY <1>2, <1>5, <3>2, WholePath
      <4>2. /\ T \in DOMAIN seen' /\ c \in DOMAIN seen' /\ seen'[T] = seen[T]
            /\ seen'[c].info.ino = i /\ name \in seen[T].children
        BY <1>2, <1>4, <1>7, <1>9, <1>12
      <4>3. Directory(T)' = Top.opened /\ Top.opened.ino = Top.ino
            /\ Top.opened.ino = seen[T].info.ino
        BY <1>2, <1>22 DEF sameFile
      <4>4. kidsThen'[Top.ino][name] = i
        BY <1>19
      <4>5. ASSUME NEW q, q = T PROVE Directory(q)' = Top.opened
        BY <1>2, <1>22, <4>5
      <4> QED
        BY <1>2, <4>1, <4>2, <4>3, <4>4, <4>5 DEF LinkOK
    <3> QED
      BY <1>2, <1>5, <3>1, <3>2
  <2>3. \A p \in DOMAIN seen' \ DOMAIN seen : p = c
    BY <1>12
  <2>4. Known(seen[c].info)'
    BY <1>9, <1>12, <2>1 DEF Known
  <2>5. Len(c) <= MaxDepth + 1
    BY <1>2, <1>5
  <2> QED
    BY <1>2, <1>5, <1>13, <1>23, <2>2, <2>3, <2>4, <2>5, SeenCarried
<1>27. FreshOK'
  <2>1. ASSUME NEW p \in DOMAIN seen', NEW f \in 1 .. L, f <= Len(p),
               SubSeq(p, 1, f - 1) = stack[f].path, p[f] \in stack'[f].todo
        PROVE  FALSE
    <3>1. f < L \/ f = L
      BY <1>2
    <3>2. p[f] \in stack[f].todo /\ (f = L => p[f] # name)
      BY <1>15, <2>1, <3>1 DEF Top
    <3>3. CASE p \in DOMAIN seen
      <4>1. Pending(p)
        BY <2>1, <3>2 DEF Pending
      <4> QED
        BY <1>1, <3>3, <4>1 DEF IInv, FreshOK
    <3>4. CASE p = c
      <4>1. f < L
        BY <1>5, <3>1, <3>2, <3>4
      <4>2. f \in 1 .. L - 1 /\ f - 1 \in 0 .. L - 1 /\ f <= Len(T)
        BY <1>2, <4>1
      <4>3. c[f] = T[f] /\ SubSeq(c, 1, f - 1) = SubSeq(T, 1, f - 1)
        BY <1>5, <4>2
      <4>4. Pending(T)
        BY <2>1, <3>2, <3>4, <4>2, <4>3 DEF Pending
      <4> QED
        BY <1>1, <1>2, <4>4 DEF IInv, FreshOK
    <3> QED
      BY <1>12, <3>3, <3>4
  <2>2. ASSUME NEW p \in DOMAIN seen', L < Len(p), SubSeq(p, 1, L - 1) = stack[L].path, p[L] = name
        PROVE  FALSE
    <3>1. p # c /\ p \in DOMAIN seen
      BY <1>2, <1>5, <1>12, <2>2
    <3>2. L \in 1 .. L /\ L <= Len(p) /\ p[L] \in stack[L].todo
      <4>1. p \in Seq(Names) /\ Len(p) \in Nat
        BY <3>1 DEF IInv, SeenOK
      <4> QED
        <5>1. L \in 1 .. L /\ L <= Len(p)
          BY <1>2, <2>2, <4>1
        <5> QED
          BY <1>4, <2>2, <5>1 DEF Top
    <3>3. Pending(p)
      BY <2>2, <3>2 DEF Pending
    <3> QED
      BY <1>1, <3>1, <3>3 DEF IInv, FreshOK
  <2>3. ASSUME NEW p \in DOMAIN seen', Pending(p)' PROVE FALSE
    <3>1. PICK f \in 1 .. L :
            /\ f <= Len(p) /\ SubSeq(p, 1, f - 1) = stack[f].path
            /\ \/ p[f] \in stack'[f].todo
               \/ f = L /\ f < Len(p) /\ p[f] = name
      <4>1. PICK f \in 1 .. Len(stack') :
              /\ f <= Len(p) /\ SubSeq(p, 1, f - 1) = stack'[f].path
              /\ \/ p[f] \in stack'[f].todo
                 \/ f = Len(stack') /\ f < Len(p) /\ p[f] = cur'.name
        BY <1>18, <2>3 DEF Pending
      <4> QED
        BY <1>15, <1>16, <4>1
    <3> QED
      BY <2>1, <2>2, <3>1
  <2>4. ~seen'[file.path].overflow
    BY <1>8, <1>9, <1>12
  <2> QED
    BY <1>16, <1>18, <2>3, <2>4 DEF FreshOK
<1>28. CurOK'
  <2>1. Top'.path = T
    <3>1. L \in 1 .. L
      BY <1>2
    <3> QED
      BY <1>15, <3>1 DEF Top
  <2>4. childPath(cur.name)' = c
    BY <1>16, <2>1 DEF childPath
  <2>2. BodyOK(Top.path, cur.info, cur.file.body)'
    BY <1>8, <1>16 DEF BodyOK
  <2>3. cur'.file.path \in DOMAIN seen' /\ cur'.info = seen'[cur'.file.path].info
    BY <1>8, <1>9, <1>12, <1>16
  <2> QED
    BY <1>8, <1>16, <1>17, <1>18, <2>2, <2>3, <2>4 DEF CurOK
<1>29. SecondOK'
  BY <1>18 DEF SecondOK
<1>30. FilesOK'
  <2>1. \A f \in result.files : FileOK(f)'
    BY <1>23, FilesCarried
  <2>2. FileOK(file)'
    BY <1>2, <1>5, <1>8, <1>9, <1>12 DEF FileOK, BodyOK
  <2>3. IsFiniteSet(result.files \union {file})
    BY <1>20, FS_AddElement
  <2>4. IsFiniteSet(result'.files) /\ result' \in Results
    BY <1>20, <1>21, <2>3 DEF Grows
  <2> QED
    BY <1>21, <2>1, <2>2, <2>4 DEF FilesOK
<1>31. BudgetOK'
  BY <1>18, <1>21, <1>23, BudgetCarried
<1>32. ListedOK'
  <2>1. ASSUME NEW q \in DOMAIN seen, seen[q].info.kind = "directory" PROVE ListOK(q)'
    <3>1. ListOK(q)
      BY <1>1, <2>1 DEF IInv, ListedOK
    <3>2. ASSUME NEW n, Todo(q, n) PROVE Todo(q, n)' \/ Append(q, n) \in DOMAIN seen'
      <4>1. PICK f \in 1 .. L : stack[f].path = q /\ n \in stack[f].todo
        BY <3>2 DEF Todo
      <4>2. CASE n \in stack'[f].todo
        BY <1>15, <1>18, <4>1, <4>2 DEF Todo
      <4>3. CASE n \notin stack'[f].todo
        <5>1. f < L \/ f = L
          BY <1>2
        <5>2. f = L /\ n = name
          BY <1>15, <4>1, <4>3, <5>1 DEF Top
        <5>3. Append(q, n) = c
          BY <4>1, <5>2 DEF childPath, Top
        <5> QED
          BY <1>12, <5>3
      <4> QED
        BY <4>2, <4>3
    <3> QED
      BY <1>12, <1>22, <1>23, <3>1, <3>2, ListCarried
  <2>2. x.kind = "directory" => pc' = "openroot" /\ c = cur'.file.path
    BY <1>8, <1>16, <1>17
  <2> QED
    BY <1>9, <1>12, <2>1, <2>2 DEF ListedOK
<1>33. RecordedOK'
  <2>1. ASSUME NEW p \in DOMAIN seen' \ {<<>>}
        PROVE  \/ \E f \in result'.files : f.path = p
               \/ pc' \in Inspecting \ {"openroot"} /\ p = cur'.file.path
    <3>1. CASE p = c
      BY <1>8, <1>16, <1>17, <1>21, <3>1
    <3>2. CASE p # c
      <4>1. \E f \in result.files : f.path = p
        BY <1>1, <1>12, <3>2 DEF IInv, RecordedOK, Inspecting
      <4> QED
        BY <1>21, <4>1
    <3> QED
      BY <3>1, <3>2
  <2>2. ASSUME NEW f \in result'.files, f.kind = "regular" PROVE f.inspected \/ Explained(f)'
    <3>1. f \in result.files
      BY <1>8, <1>21, <2>2
    <3> QED
      BY <1>21, <2>2, <3>1, ExplainedStays DEF IInv, RecordedOK
  <2> QED
    BY <1>16, <1>17, <1>18, <2>1, <2>2 DEF RecordedOK
<1> QED
  BY <1>24, <1>25, <1>26, <1>27, <1>28, <1>29, <1>30, <1>31, <1>32, <1>33 DEF IInv

LEMMA OpenRootStep ==
    ASSUME IInv, OpenRoot PROVE IInv'
<1> SUFFICES ASSUME NEW T, T = Top.path, NEW L, L = Len(stack), NEW c, c = cur.file.path PROVE IInv'
  OBVIOUS
<1>0. SUFFICES ASSUME NEW i \in Opens(Top.ino, cur.name), Pinned(i),
                      stack' = Append(stack, Frame(i, c, Info(i))), cur' = NoEntry, pc' = "list",
                      UNCHANGED <<tree, seen, result>>
               PROVE  IInv'
  BY AbortStep DEF OpenRoot
<1>1. /\ pc = "openroot" /\ pc \in Inspecting /\ First /\ First' /\ ~Second' /\ pc' \notin Inspecting
      /\ pc' = "list" /\ UNCHANGED <<node, kids, now, snapshot, seen, result>>
  BY <1>0 DEF OpenRoot, Inspecting, First, Second, PassOne, PassTwo, tree
<1>2. /\ L \in Nat /\ L >= 1 /\ T \in Seq(Names) /\ Len(T) = L - 1 /\ T \in DOMAIN seen /\ StackOK
      /\ \A f \in 1 .. L : FrameOK(f) /\ stack[f].path \in DOMAIN seen
  BY <1>1, WalkFacts DEF IInv
<1>3. /\ c \in Seq(Names) /\ Len(c) = L /\ SubSeq(c, 1, L - 1) = T /\ c[L] = cur.name
      /\ cur.info.ino \in Ino
  BY <1>1, CurFacts
<1>4. c \in DOMAIN seen /\ cur.info = seen[c].info /\ cur.info.kind = "directory"
  BY <1>1 DEF IInv, CurOK
<1>5. L <= MaxDepth + 1
  BY <1>3, <1>4 DEF IInv, SeenOK
<1>6. i = cur.info.ino /\ Info(i).kind = "directory" /\ sameFile(Info(i), cur.info) /\ i \in Ino
  BY <1>0, <1>3, <1>4 DEF Pinned, sameFile, Info
<1>7. Info(i) \in Infos /\ Info(i).ino = i /\ Current(Info(i), node) /\ node \in [Ino -> Nodes]
  BY <1>6, InfoNow, InfoFacts DEF IInv, TreeOK
<1> SUFFICES ASSUME NEW fr, fr = Frame(i, c, Info(i)), NEW x, x = Info(i) PROVE IInv'
  OBVIOUS
<1>8. fr \in Frames /\ fr.ino = i /\ fr.path = c /\ fr.opened = x /\ fr.todo = {}
  BY <1>3, <1>6, <1>7 DEF Frame, Frames, Maybe
<1>9. /\ stack' \in Seq(Frames) /\ Len(stack') = L + 1 /\ stack'[L + 1] = fr
      /\ \A f \in 1 .. L : stack'[f] = stack[f]
  BY <1>0, <1>2, <1>8, PushFacts
\* Nothing below c was observed.
<1>10. ASSUME NEW p \in DOMAIN seen, L < Len(p), SubSeq(p, 1, L) = c PROVE FALSE
  <2>1. p \in Seq(Names) /\ Len(p) \in Nat
    BY DEF IInv, SeenOK
  <2>2. L \in 0 .. Len(p) /\ L - 1 \in 0 .. L /\ L \in 1 .. L /\ L <= Len(p)
    BY <1>2, <1>10, <2>1
  <2>3. SubSeq(p, 1, L - 1) = T
    BY <1>3, <1>10, <2>1, <2>2, PrefixOfPrefix
  <2>4. p[L] = cur.name
    BY <1>3, <1>10, <2>1, <2>2, PrefixFacts
  <2>5. Pending(p)
    BY <1>1, <1>10, <2>2, <2>3, <2>4 DEF Pending, Top
  <2> QED
    BY <1>1, <2>5 DEF IInv, FreshOK
<1>11. ~Below(c)
  <2> SUFFICES ASSUME NEW p \in DOMAIN seen, NEW k \in 0 .. Len(p) - 1, SubSeq(p, 1, k) = c
               PROVE  FALSE
    BY DEF Below
  <2>1. p \in Seq(Names) /\ Len(p) \in Nat /\ k \in 0 .. Len(p)
    BY DEF IInv, SeenOK
  <2>2. k = L
    BY <1>3, <2>1, PrefixFacts
  <2>3. L < Len(p)
    BY <2>1, <2>2
  <2> QED
    BY <1>10, <2>2, <2>3
<1>12. \A q \in DOMAIN seen : q # c => Directory(q)' = Directory(q)
  <2> SUFFICES ASSUME NEW q \in DOMAIN seen, q # c PROVE Directory(q)' = Directory(q)
    OBVIOUS
  <2>1. Len(q) \in Nat
    BY DEF IInv, SeenOK
  <2>2. CASE Len(q) < L
    <3>1. Len(q) + 1 \in 1 .. L /\ Len(q) < L + 1
      BY <1>2, <2>1, <2>2
    <3> QED
      BY <1>1, <1>9, <2>2, <3>1 DEF Directory
  <2>3. CASE Len(q) = L
    BY <1>1, <1>8, <1>9, <2>3 DEF Directory
  <2>4. CASE Len(q) > L
    <3>1. ~(Len(q) < L) /\ ~(Len(q) < L + 1)
      BY <1>2, <2>1, <2>4
    <3> QED
      BY <1>1, <1>9, <3>1 DEF Directory
  <2> QED
    BY <1>2, <2>1, <2>2, <2>3, <2>4
<1>13. nodesThen' = node /\ kidsThen' = kids
  BY <1>1 DEF nodesThen, kidsThen
<1>14. Grows /\ IsFiniteSet(result.files)
  BY <1>1, SameGrows DEF IInv, FilesOK
<1>15. Observes
  <2>1. \A p \in DOMAIN seen : Known(seen[p].info)'
    BY <1>1 DEF IInv, SeenOK, Known
  <2> QED
    BY <1>1, <1>11, <1>12, <1>13, <1>14, <2>1 DEF Observes, sameFile
<1>16. TreeOK'
  BY <1>1 DEF IInv, TreeOK, First
<1>17. StackOK'
  <2>1. ASSUME NEW f \in 1 .. L PROVE FrameOK(f)'
    <3>1. FrameOK(f) /\ stack'[f] = stack[f]
      BY <1>2, <1>9
    <3> QED
      BY <1>1, <3>1 DEF FrameOK, Known
  <2>2. ASSUME NEW f, f = L + 1 PROVE FrameOK(f)'
    <3>1. stack'[f] = fr /\ f - 1 = L
      BY <1>2, <1>9, <2>2
    <3>2. Known(x)' /\ x.ino = i /\ x.kind = "directory" /\ sameFile(x, seen[c].info)
      BY <1>1, <1>4, <1>6, <1>7 DEF Known
    <3> QED
      BY <1>1, <1>3, <1>4, <1>8, <3>1, <3>2 DEF FrameOK
  <2>3. \A f \in 1 .. Len(stack') : f \in 1 .. L \/ f = L + 1
    BY <1>2, <1>9
  <2>4. \A f \in 1 .. Len(stack') : FrameOK(f)'
    BY <2>1, <2>2, <2>3
  <2>5. Len(stack') <= MaxDepth + 2 /\ Len(stack') > 0
    BY <1>2, <1>5, <1>9, LimitsAssumption
  <2>6. Top'.todo = {}
    BY <1>8, <1>9 DEF Top
  <2> QED
    BY <1>1, <1>9, <2>4, <2>5, <2>6 DEF StackOK
<1>18. SeenOK'
  BY <1>1, <1>15, SeenCarried DEF IInv, SeenOK
<1>19. FreshOK'
  <2>1. ASSUME NEW p \in DOMAIN seen, Pending(p)' PROVE FALSE
    <3>1. PICK f \in 1 .. Len(stack') : /\ f <= Len(p) /\ SubSeq(p, 1, f - 1) = stack'[f].path
                                        /\ p[f] \in stack'[f].todo \/ f = Len(stack')
      BY <1>1, <2>1 DEF Pending
    <3>2. CASE f \in 1 .. L
      <4>1. stack'[f] = stack[f] /\ f # Len(stack')
        BY <1>2, <1>9, <3>2
      <4>2. Pending(p)
        BY <3>1, <3>2, <4>1 DEF Pending
      <4> QED
        BY <1>1, <4>2 DEF IInv, FreshOK
    <3>3. CASE f = L + 1
      <4>1. Len(p) \in Nat
        BY DEF IInv, SeenOK
      <4>2. L < Len(p) /\ f - 1 = L
        BY <1>2, <3>1, <3>3, <4>1
      <4> QED
        BY <1>8, <1>9, <1>10, <3>1, <3>3, <4>2
    <3> QED
      BY <1>2, <1>9, <3>2, <3>3
  <2>2. Top'.path = c /\ ~seen[c].overflow
    BY <1>1, <1>8, <1>9 DEF Top, IInv, FreshOK
  <2> QED
    BY <1>1, <2>1, <2>2 DEF FreshOK
<1>20. CurOK' /\ SecondOK'
  BY <1>1 DEF CurOK, SecondOK
<1>21. FilesOK'
  BY <1>1, <1>14, <1>15, FilesCarried DEF FilesOK, Grows
<1>22. BudgetOK'
  BY <1>1, <1>15, BudgetCarried
<1>23. ListedOK'
  <2>1. ASSUME NEW q \in DOMAIN seen, q # c, seen[q].info.kind = "directory" PROVE ListOK(q)'
    <3>1. ListOK(q)
      BY <1>1, <2>1 DEF IInv, ListedOK
    <3>2. ASSUME NEW n, Todo(q, n) PROVE Todo(q, n)'
      <4>1. PICK f \in 1 .. L : stack[f].path = q /\ n \in stack[f].todo
        BY <3>2 DEF Todo
      <4>2. f \in 1 .. Len(stack') /\ stack'[f] = stack[f]
        BY <1>2, <1>9
      <4> QED
        BY <1>1, <4>1, <4>2 DEF Todo
    <3> QED
      BY <1>1, <1>12, <1>15, <2>1, <3>1, <3>2, ListCarried
  <2>2. Top'.path = c
    BY <1>8, <1>9 DEF Top
  <2> QED
    BY <1>1, <2>1, <2>2 DEF ListedOK
<1>24. RecordedOK'
  <2>1. \A f \in result.files : Explained(f) => Explained(f)'
    BY <1>14, ExplainedStays
  <2> QED
    BY <1>1, <2>1 DEF IInv, RecordedOK
<1> QED
  BY <1>16, <1>17, <1>18, <1>19, <1>20, <1>21, <1>22, <1>23, <1>24 DEF IInv

\* What leaving a directory does not touch, for the root and for the others.
LEMMA LeaveFrame ==
    ASSUME IInv, pc = "next", NEW T, T = Top.path, Top.todo = {},
           UNCHANGED <<node, kids, now, result>>, First' \/ Second',
           nodesThen' = node, kidsThen' = kids,
           pc' \notin Inspecting /\ pc' \notin {"list", "readall", "readelf", "changed"},
           Current(Top.opened, node),
           Observe(T, [seen[T] EXCEPT !.info = Top.opened]),
           \A q \in DOMAIN seen : Directory(q)' = Directory(q),
           \A q, n : Todo(q, n) => Todo(q, n)'
    PROVE  /\ DOMAIN seen' = DOMAIN seen /\ seen'[T].info = Top.opened
           /\ \A p \in DOMAIN seen : /\ p # T => seen'[p] = seen[p]
                                     /\ sameFile(seen'[p].info, seen[p].info)
                                     /\ seen'[p].children = seen[p].children
                                     /\ seen'[p].overflow = seen[p].overflow
           /\ SeenOK' /\ CurOK' /\ FilesOK' /\ BudgetOK' /\ ListedOK' /\ RecordedOK'
<1>1. First /\ pc \notin Inspecting
  BY DEF First, PassOne, Inspecting
<1>2. /\ pc # "changed" /\ T \in DOMAIN seen /\ Known(Top.opened)
      /\ sameFile(Top.opened, seen[T].info) /\ seen[T].info.kind = "directory"
      /\ seen \in [DOMAIN seen -> Observations] /\ Top.opened \in Infos
  BY <1>1, WalkFacts DEF IInv, SeenOK, Known
<1> DEFINE obs == [seen[T] EXCEPT !.info = Top.opened]
<1>3. /\ obs \in Observations /\ obs.info = Top.opened /\ obs.children = seen[T].children
      /\ obs.overflow = seen[T].overflow
  BY <1>2 DEF Observations
<1>4. seen' = [p \in DOMAIN seen \union {T} |-> IF p = T THEN obs ELSE seen[p]]
  BY DEF Observe
<1> HIDE DEF obs
<1>5. /\ DOMAIN seen' = DOMAIN seen /\ seen'[T] = obs /\ seen' \in [DOMAIN seen' -> Observations]
      /\ \A p \in DOMAIN seen : p # T => seen'[p] = seen[p]
  BY <1>2, <1>3, <1>4
<1>6. \A p \in DOMAIN seen : /\ sameFile(seen'[p].info, seen[p].info)
                             /\ seen'[p].children = seen[p].children
                             /\ seen'[p].overflow = seen[p].overflow
  <2>1. \A p : sameFile(seen[p].info, seen[p].info)
    BY DEF sameFile
  <2> QED
    BY <1>2, <1>3, <1>5, <2>1
<1>7. \A p \in DOMAIN seen : Known(seen[p].info)'
  <2>1. ASSUME NEW p \in DOMAIN seen PROVE Known(seen'[p].info)
    BY <1>2, <1>3, <1>5 DEF IInv, SeenOK
  <2> QED
    BY <1>5, <2>1 DEF Known
<1>8. Grows
  BY SameGrows DEF IInv, FilesOK
<1>9. Observes
  <2>1. \A p \in DOMAIN seen : seen'[p].info = seen[p].info \/ seen[p].info.kind = "directory"
    BY <1>2, <1>5
  <2> QED
    BY <1>1, <1>5, <1>6, <1>7, <1>8, <2>1 DEF Observes
<1>10. SeenOK'
  BY <1>2, <1>5, <1>9, SeenCarried
<1>11. CurOK'
  BY DEF CurOK
<1>12. FilesOK'
  BY <1>8, <1>9, FilesCarried DEF IInv, FilesOK, Grows
<1>13. BudgetOK'
  BY <1>9, BudgetCarried
<1>14. ListedOK'
  <2>1. ASSUME NEW q \in DOMAIN seen, seen[q].info.kind = "directory" PROVE ListOK(q)'
    <3>1. ListOK(q)
      BY <2>1 DEF IInv, ListedOK
    <3> QED
      BY <1>6, <1>9, <3>1, ListCarried
  <2> QED
    BY <1>5, <1>6, <2>1 DEF ListedOK, sameFile
<1>15. RecordedOK'
  <2>1. \A f \in result.files : Explained(f) => Explained(f)'
    BY <1>8, ExplainedStays
  <2>2. pc' \notin {"relstat", "restat"}
    BY DEF Inspecting, PassOne
  <2> QED
    BY <1>1, <1>5, <2>1, <2>2 DEF IInv, RecordedOK
<1> QED
  BY <1>3, <1>5, <1>6, <1>10, <1>11, <1>12, <1>13, <1>14, <1>15

LEMMA LeaveDirectoryStep ==
    ASSUME IInv, LeaveDirectory PROVE IInv'
<1> SUFFICES ASSUME NEW T, T = Top.path, NEW L, L = Len(stack) PROVE IInv'
  OBVIOUS
<1>0. SUFFICES ASSUME stableMetadata(Top.opened, Info(Top.ino)),
                      Observe(T, [seen[T] EXCEPT !.info = Info(Top.ino)]),
                      IF L > 1
                      THEN stack' = Pop /\ pc' = "next" /\ UNCHANGED snapshot
                      ELSE /\ pc' = "vstat" /\ UNCHANGED stack
                           /\ snapshot' = [node |-> node, kids |-> kids],
                      UNCHANGED <<node, kids, now, cur, result>>
               PROVE  IInv'
  BY AbortStep DEF LeaveDirectory
<1>1. pc = "next" /\ Top.todo = {} /\ First
  BY DEF LeaveDirectory, First, PassOne
<1>2. /\ L \in Nat /\ L >= 1 /\ T \in Seq(Names) /\ Len(T) = L - 1 /\ T \in DOMAIN seen
      /\ StackOK /\ Top.opened.ino = Top.ino /\ Directory(T) = Top.opened
      /\ \A f \in 1 .. L : FrameOK(f) /\ stack[f].path \in DOMAIN seen
  BY <1>1, WalkFacts DEF IInv
<1>3. Top.opened = Info(Top.ino) /\ UNCHANGED <<node, kids, now, result>>
  BY <1>0 DEF stableMetadata
<1>4. Current(Top.opened, node) /\ Observe(T, [seen[T] EXCEPT !.info = Top.opened])
  BY <1>0, <1>2, <1>3, InfoNow DEF Current
<1>5. /\ T \in DOMAIN seen' /\ seen'[T].info = Top.opened
      /\ \A q \in DOMAIN seen : q \in DOMAIN seen' /\ (q # T => seen'[q] = seen[q])
  <2>1. seen[T] \in Observations
    BY <1>2 DEF IInv, SeenOK
  <2> QED
    BY <1>2, <1>4, <2>1 DEF Observe, Observations
<1>6. \A q \in DOMAIN seen : q \in Seq(Names) /\ Len(q) \in Nat
  BY DEF IInv, SeenOK
<1>7. CASE L > 1
  <2>1. stack' = Pop /\ pc' = "next" /\ UNCHANGED snapshot
    BY <1>0, <1>7
  <2>2. /\ stack' \in Seq(Frames) /\ Len(stack') = L - 1
        /\ \A f \in 1 .. L - 1 : stack'[f] = stack[f]
    BY <1>2, <1>7, <2>1, PopFacts
  <2>3. First' /\ ~Second' /\ pc' \notin Inspecting
    BY <2>1 DEF First, Second, PassOne, PassTwo, Inspecting
  <2>4. ASSUME NEW q \in DOMAIN seen PROVE Directory(q)' = Directory(q)
    <3>1. CASE Len(q) < L - 1
      <4>1. Len(q) + 1 \in 1 .. L - 1 /\ Len(q) < L
        BY <1>2, <1>6, <3>1
      <4>2. q # T
        BY <1>2, <3>1
      <4> QED
        BY <1>1, <1>5, <2>2, <2>3, <3>1, <4>1, <4>2 DEF Directory
    <3>2. CASE q = T
      <4>1. ~(Len(q) < L - 1)
        BY <1>2, <3>2
      <4> QED
        BY <1>2, <1>5, <2>2, <3>2, <4>1 DEF Directory
    <3>3. CASE q # T /\ ~(Len(q) < L - 1)
      <4>1. Len(q) < L => Len(q) + 1 = L
        BY <1>2, <1>6, <3>3
      <4>2. Directory(q) = seen[q].info
        BY <3>3, <4>1 DEF Directory, Top
      <4> QED
        BY <1>5, <2>2, <3>3, <4>2 DEF Directory
    <3> QED
      BY <3>1, <3>2, <3>3
  <2>5. ASSUME NEW q, NEW n, Todo(q, n) PROVE Todo(q, n)'
    <3>1. PICK f \in 1 .. L : stack[f].path = q /\ n \in stack[f].todo
      BY <2>5 DEF Todo
    <3>2. f \in 1 .. L - 1
      BY <1>1, <1>2, <3>1 DEF Top
    <3> QED
      BY <2>2, <2>3, <3>1, <3>2 DEF Todo
  <2>6. nodesThen' = node /\ kidsThen' = kids
    BY <1>3, <2>3 DEF nodesThen, kidsThen
  <2>7. /\ DOMAIN seen' = DOMAIN seen
        /\ \A p \in DOMAIN seen : p # T => seen'[p] = seen[p]
        /\ SeenOK' /\ CurOK' /\ FilesOK' /\ BudgetOK' /\ ListedOK' /\ RecordedOK'
    BY <1>1, <1>3, <1>4, <2>1, <2>3, <2>4, <2>5, <2>6, LeaveFrame
  <2>8. TreeOK'
    BY <1>3, <2>1, <2>3 DEF IInv, TreeOK, First
  <2>9. StackOK'
    <3>1. ASSUME NEW f \in 1 .. L - 1 PROVE FrameOK(f)'
      <4>1. /\ FrameOK(f) /\ stack'[f] = stack[f] /\ stack[f].path \in DOMAIN seen
            /\ Len(stack[f].path) = f - 1
        <5>1. f \in 1 .. L
          BY <1>2
        <5> QED
          BY <1>2, <2>2, <5>1 DEF FrameOK
      <4>2. stack[f].path # T
        BY <1>2, <4>1
      <4>3. seen'[stack[f].path] = seen[stack[f].path]
        BY <2>7, <4>1, <4>2
      <4> QED
        BY <1>1, <1>3, <2>7, <4>1, <4>3 DEF FrameOK, Known
    <3>2. Len(stack') > 0 /\ Len(stack') <= MaxDepth + 2
      BY <1>2, <1>7, <2>2, LimitsAssumption DEF StackOK
    <3> QED
      BY <2>1, <2>2, <3>1, <3>2 DEF StackOK
  <2>10. FreshOK'
    <3>1. ASSUME NEW p \in DOMAIN seen, Pending(p)' PROVE Pending(p)
      <4>1. PICK f \in 1 .. L - 1 : /\ f <= Len(p) /\ SubSeq(p, 1, f - 1) = stack'[f].path
                                    /\ p[f] \in stack'[f].todo
        BY <2>1, <2>2, <3>1 DEF Pending
      <4>2. f \in 1 .. L /\ stack'[f] = stack[f]
        BY <1>2, <2>2
      <4> QED
        BY <4>1, <4>2 DEF Pending
    <3> QED
      BY <1>1, <2>1, <2>7, <3>1 DEF IInv, FreshOK
  <2>11. SecondOK'
    BY <2>3 DEF SecondOK
  <2> QED
    BY <2>7, <2>8, <2>9, <2>10, <2>11 DEF IInv
<1>8. CASE L = 1
  <2>1. pc' = "vstat" /\ stack' = stack /\ snapshot' = [node |-> node, kids |-> kids]
    BY <1>0, <1>8
  <2>2. /\ ~First' /\ Second' /\ pc' \notin Inspecting /\ snapshot'.node = node
        /\ snapshot'.kids = kids
    BY <2>1 DEF First, Second, PassOne, PassTwo, Inspecting
  <2>3. ASSUME NEW q \in DOMAIN seen, q # T PROVE Len(q) > 0
    <3>1. Len(q) = 0 => q = T
      BY <1>2, <1>6, <1>8, SamePath
    <3> QED
      BY <1>6, <2>3, <3>1
  <2>4. ASSUME NEW q \in DOMAIN seen PROVE Directory(q)' = Directory(q)
    <3>1. CASE q = T
      BY <1>2, <1>5, <2>2, <3>1 DEF Directory
    <3>2. CASE q # T
      <4>1. ~(Len(q) < L)
        BY <1>6, <1>8, <2>3, <3>2
      <4> QED
        BY <1>5, <2>2, <3>2, <4>1 DEF Directory
    <3> QED
      BY <3>1, <3>2
  <2>5. \A q, n : ~Todo(q, n)
    <3>1. \A f \in 1 .. L : f = L
      BY <1>8
    <3> QED
      BY <1>1, <3>1 DEF Todo, Top
  <2>6. nodesThen' = node /\ kidsThen' = kids
    BY <2>2 DEF nodesThen, kidsThen
  <2>7. /\ DOMAIN seen' = DOMAIN seen
        /\ \A p \in DOMAIN seen : p # T => seen'[p] = seen[p]
        /\ SeenOK' /\ CurOK' /\ FilesOK' /\ BudgetOK' /\ ListedOK' /\ RecordedOK'
    BY <1>1, <1>3, <1>4, <2>1, <2>2, <2>4, <2>5, <2>6, LeaveFrame
  <2>8. TreeOK'
    BY <1>3, <2>1, <2>2 DEF IInv, TreeOK, PassTwo
  <2>9. StackOK'
    <3>1. \A f \in 1 .. Len(stack') : FrameOK(f)'
      BY <1>2, <2>1, <2>2 DEF FrameOK
    <3> QED
      BY <1>1, <1>2, <2>1, <3>1 DEF StackOK, Top
  <2>10. FreshOK'
    BY <2>2 DEF FreshOK
  <2>11. SecondOK'
    <3>1. ASSUME NEW p \in DOMAIN seen, p # T PROVE Pending(p)'
      <4>1. 1 <= Len(p) /\ Len(stack') = 1 /\ 1 \in 1 .. Len(stack')
        <5>1. Len(p) \in Nat /\ Len(p) > 0
          BY <1>6, <2>3, <3>1
        <5>2. Len(stack') = 1
          BY <1>8, <2>1
        <5> QED
          BY <5>1, <5>2
      <4>2. SubSeq(p, 1, 1 - 1) = stack'[1].path
        <5>1. 0 \in 0 .. Len(p) /\ Len(T) = 0
          BY <1>2, <1>6, <1>8
        <5>2. SubSeq(p, 1, 0) = T
          BY <1>2, <1>6, <5>1, PrefixFacts, SamePath
        <5> QED
          BY <1>8, <2>1, <5>2 DEF Top
      <4> QED
        BY <2>1, <4>1, <4>2 DEF Pending
    <3>2. Current(seen'[T].info, snapshot'.node)
      BY <1>4, <1>5, <2>2
    <3> QED
      BY <1>3, <2>2, <2>7, <3>1, <3>2 DEF SecondOK
  <2> QED
    BY <2>7, <2>8, <2>9, <2>10, <2>11 DEF IInv
<1>9. L > 1 \/ L = 1
  BY <1>2
<1> QED
  BY <1>7, <1>8, <1>9

-----------------------------------------------------------------------------
\* Every step keeps the invariant.
LEMMA NextIInv ==
    ASSUME IInv, [Next]_vars PROVE IInv'
<1>1. CASE Scanner
  BY <1>1, ReadDirStep, CallFailsStep, LstatEntryStep, ReadlinkStep, VerifyPathStableStep,
     OpenRootStep, LeaveDirectoryStep, OpenFileStep, ReadHeaderStep, SeekFailsStep, ReadAllStep,
     ReadELFStep, ReadFailsStep, VerifyRegularStableStep, VerifyDirectoryStep,
     VerifyMembersStep, VerifyEntryStep, VerifyLinkStep, VerifyOpenStep, VerifyLeaveStep
     DEF Scanner
<1>2. CASE UNCHANGED vars
  <2>1. UNCHANGED <<node, kids, now, snapshot, pc, stack, cur, seen, result>>
    BY <1>2 DEF vars, tree
  <2>2. First' = First /\ Second' = Second /\ nodesThen' = nodesThen /\ kidsThen' = kidsThen
        /\ Top' = Top
    BY <2>1 DEF First, Second, nodesThen, kidsThen, Top
  <2>3. /\ \A q : Directory(q)' = Directory(q) /\ Limited(q)' = Limited(q)
        /\ \A p : Pending(p)' = Pending(p)
        /\ \A x : Known(x)' = Known(x) /\ Explained(x)' = Explained(x)
        /\ \A q, n : Todo(q, n)' = Todo(q, n)
        /\ \A i : EntriesThen(i)' = EntriesThen(i)
    BY <2>1, <2>2 DEF Directory, Pending, Known, Limited, Explained, Todo, EntriesThen
  <2>4. TreeOK' /\ StackOK'
    BY <2>1, <2>2, <2>3 DEF IInv, TreeOK, StackOK, FrameOK
  <2>5. SeenOK' /\ FreshOK' /\ CurOK'
    BY <2>1, <2>2, <2>3 DEF IInv, SeenOK, LinkOK, FreshOK, CurOK, BodyOK, childPath
  <2>6. FilesOK' /\ BudgetOK' /\ SecondOK'
    BY <2>1, <2>2, <2>3 DEF IInv, FilesOK, FileOK, BodyOK, BudgetOK, SecondOK
  <2>7. ListedOK' /\ RecordedOK'
    BY <2>1, <2>2, <2>3 DEF IInv, ListedOK, ListOK, RecordedOK
  <2> QED
    BY <2>4, <2>5, <2>6, <2>7 DEF IInv
<1> QED
  BY <1>1, <1>2, MutatorStep DEF Next

\* The invariant holds in every state of every behaviour of the scan, whatever the
\* tree and whoever changes it (scan, walk, verifyTree).
THEOREM Inductive == Spec => []IInv
  BY InitIInv, NextIInv, PTL DEF Spec

-----------------------------------------------------------------------------
(* What the invariant says of a scan.                                      *)

\* Open directories form one path from the root, and everything recorded was
\* observed first, for every tree and every limit (walk, walker.seen).
THEOREM TypeCorrect == Spec => []TypeOK
<1>1. IInv => TypeOK
  <2> SUFFICES ASSUME IInv PROVE TypeOK
    OBVIOUS
  <2>1. now \in 0 .. MaxMutations /\ \A i \in Ino : node[i].kind \in Kinds /\ node[i].ctime <= now
    BY DEF IInv, TreeOK, Nodes
  <2>2. \A f \in 1 .. Len(stack) : stack[f].ino \in Ino /\ stack[f].todo \subseteq Names
                                   /\ Len(stack[f].path) = f - 1
    <3>1. stack \in Seq(Frames) /\ \A f \in 1 .. Len(stack) : FrameOK(f)
      BY DEF IInv, StackOK
    <3>2. \A f \in 1 .. Len(stack) : stack[f] \in Frames
      BY <3>1
    <3> QED
      BY <3>1, <3>2 DEF FrameOK, Frames
  <2>3. ASSUME NEW p \in DOMAIN seen PROVE p \in Paths
    <3>1. p \in Seq(Names) /\ Len(p) \in Nat /\ Len(p) <= MaxDepth + 1 /\ MaxDepth \in Nat
      BY LimitsAssumption DEF IInv, SeenOK
    <3>2. Len(p) \in 0 .. MaxDepth + 2 /\ p \in [1 .. Len(p) -> Names]
      BY <3>1
    <3> QED
      BY <3>2 DEF Paths
  <2>4. \A f \in result.files : f.path \in DOMAIN seen /\ f.kind \in Kinds
    BY DEF IInv, FilesOK, FileOK, Results, Files
  <2>5. result.readBytes \in Nat /\ result.binaryBytes \in Nat
    BY DEF IInv, FilesOK, Results
  <2> QED
    BY <2>1, <2>2, <2>3, <2>4, <2>5 DEF TypeOK
<1> QED
  BY <1>1, Inductive, PTL

\* When the scan succeeds, nothing is left to come to: all that was observed was
\* so between the passes.
LEMMA AllConfirmed ==
    ASSUME IInv, pc = "ok"
    PROVE  /\ nodesThen = snapshot.node /\ kidsThen = snapshot.kids /\ ~First /\ SeenOK
           /\ \A q : Directory(q) = seen[q].info
           /\ \A p \in DOMAIN seen : /\ Current(seen[p].info, snapshot.node)
                                     /\ seen[p].info \in Infos /\ seen[p].info.ino \in Ino
<1>1. ~First /\ Second /\ SeenOK
  BY DEF First, Second, PassOne, IInv
<1>2. Len(stack) = 1 /\ Top.todo = {}
  BY DEF IInv, StackOK
<1>3. \A f \in 1 .. Len(stack) : f = Len(stack)
  BY <1>2
<1>4. \A p : ~Pending(p)
  BY <1>2, <1>3 DEF Pending, Top
<1>5. \A p \in DOMAIN seen : Current(seen[p].info, snapshot.node)
  BY <1>1, <1>4 DEF IInv, SecondOK
<1>6. \A p \in DOMAIN seen : seen[p].info \in Infos /\ seen[p].info.ino \in Ino
  BY <1>1 DEF SeenOK, Known, Infos
<1> QED
  BY <1>1, <1>5, <1>6 DEF nodesThen, kidsThen, Directory

\* The byte budgets hold for every tree and every limit, in a returned report to the
\* byte (inspectRegular, inspectELF).
THEOREM BudgetTheorem == Spec => []BudgetsHold
<1>1. IInv => BudgetsHold
  <2> SUFFICES ASSUME IInv PROVE BudgetsHold
    OBVIOUS
  <2>1. pc = "ok" => result.readBytes <= MaxReadBytes
    BY AllConfirmed DEF IInv, BudgetOK
  <2> QED
    BY <2>1 DEF IInv, BudgetOK, BudgetsHold
<1> QED
  BY <1>1, Inductive, PTL

-----------------------------------------------------------------------------
(* The inode a path names.                                                 *)

\* One step down the tree between the passes.
Down(i, n) == IF i = None \/ snapshot.node[i].kind # "directory" THEN None ELSE snapshot.kids[i][n]

Walks(w, p, m) ==
    /\ w = [k \in 0 .. m |-> w[k]] /\ w[0] = Root
    /\ \A k \in 1 .. m : w[k] = Down(w[k - 1], p[k])

LEMMA WalkExists ==
    ASSUME NEW p, NEW m \in Nat
    PROVE  \E w : Walks(w, p, m)
<1> DEFINE S == {n \in Nat : ~ \E w : Walks(w, p, n)}
<1> SUFFICES ASSUME S # {} PROVE FALSE
  OBVIOUS
<1>1. PICK n \in S : \A k \in S : n <= k
  BY LeastNatural
<1>2. n \in Nat /\ ~ \E w : Walks(w, p, n)
  BY <1>1
<1>3. CASE n = 0
  <2> DEFINE w == [k \in 0 .. 0 |-> Root]
  <2>1. w = [k \in 0 .. 0 |-> w[k]] /\ w[0] = Root
    OBVIOUS
  <2>2. Walks(w, p, 0)
    BY <2>1 DEF Walks
  <2> QED
    BY <1>2, <1>3, <2>2
<1>4. CASE n > 0
  <2>1. n - 1 \in Nat /\ ~(n <= n - 1)
    BY <1>2, <1>4
  <2>2. n - 1 \notin S
    BY <1>1, <2>1
  <2>3. PICK v : Walks(v, p, n - 1)
    BY <2>1, <2>2
  <2> DEFINE w == [k \in 0 .. n |-> IF k = n THEN Down(v[n - 1], p[n]) ELSE v[k]]
  <2>4. w = [k \in 0 .. n |-> w[k]] /\ w[n] = Down(v[n - 1], p[n])
        /\ \A k \in 0 .. n - 1 : w[k] = v[k]
    BY <1>2, <1>4
  <2> HIDE DEF w
  <2>5. w[0] = Root
    <3>1. 0 \in 0 .. n - 1
      BY <2>1
    <3> QED
      BY <2>3, <2>4, <3>1 DEF Walks
  <2>6. ASSUME NEW k \in 1 .. n PROVE w[k] = Down(w[k - 1], p[k])
    <3>1. CASE k = n
      BY <1>2, <2>1, <2>4, <3>1
    <3>2. CASE k # n
      <4>1. k \in 1 .. n - 1 /\ k \in 0 .. n - 1 /\ k - 1 \in 0 .. n - 1
        BY <1>2, <3>2
      <4> QED
        BY <2>3, <2>4, <4>1 DEF Walks
    <3> QED
      BY <3>1, <3>2
  <2>7. Walks(w, p, n)
    BY <2>4, <2>5, <2>6 DEF Walks
  <2> QED
    BY <1>2, <2>7
<1> QED
  BY <1>2, <1>3, <1>4

LEMMA AtFacts ==
    ASSUME NEW p \in Seq(Names)
    PROVE  \E w : Walks(w, p, Len(p)) /\ At(p) = w[Len(p)]
<1> DEFINE Body(w) == [n \in 0 .. Len(p) |->
                         IF n = 0 THEN Root
                         ELSE IF w[n-1] = None \/ snapshot.node[w[n-1]].kind # "directory"
                              THEN None
                         ELSE snapshot.kids[w[n-1]][p[n]]]
           walk == CHOOSE w : w = Body(w)
<1>1. At(p) = walk[Len(p)]
  BY DEF At
<1>2. PICK v : Walks(v, p, Len(p))
  BY WalkExists
<1>3. v = Body(v)
  <2>1. v = [k \in 0 .. Len(p) |-> v[k]] /\ v[0] = Root
    BY <1>2 DEF Walks
  <2>2. ASSUME NEW k \in 0 .. Len(p), k # 0
        PROVE  v[k] = IF v[k-1] = None \/ snapshot.node[v[k-1]].kind # "directory"
                      THEN None ELSE snapshot.kids[v[k-1]][p[k]]
    <3>1. k \in 1 .. Len(p)
      BY <2>2
    <3> QED
      BY <1>2, <3>1, Zenon DEF Walks, Down
  <2> QED
    BY <2>1, <2>2
<1>4. walk = Body(walk)
  BY <1>3
<1> HIDE DEF walk
<1>5. Walks(walk, p, Len(p))
  <2>1. Len(p) \in Nat /\ 0 \in 0 .. Len(p)
    OBVIOUS
  <2>2. walk = [k \in 0 .. Len(p) |-> walk[k]]
    BY <1>4
  <2>3. walk[0] = Root
    BY <1>4, <2>1
  <2>4. ASSUME NEW k \in 1 .. Len(p) PROVE walk[k] = Down(walk[k - 1], p[k])
    <3>1. k \in 0 .. Len(p) /\ k # 0
      BY <2>1
    <3> QED
      BY <1>4, <3>1 DEF Down
  <2> QED
    BY <2>2, <2>3, <2>4 DEF Walks
<1> QED
  BY <1>1, <1>5

\* The inode a path names, for a path that was observed.
LEMMA WalkIsSeen ==
    ASSUME IInv, pc = "ok", NEW p \in Seq(Names), NEW w, Walks(w, p, Len(p)),
           NEW k \in 0 .. Len(p), SubSeq(p, 1, k) \in DOMAIN seen
    PROVE  w[k] = seen[SubSeq(p, 1, k)].info.ino
<1> DEFINE S == {n \in 0 .. k : w[n] # seen[SubSeq(p, 1, n)].info.ino}
<1> SUFFICES ASSUME S # {} PROVE FALSE
  OBVIOUS
<1>1. S \subseteq Nat /\ Len(p) \in Nat /\ k \in Nat /\ k <= Len(p)
  OBVIOUS
<1>2. PICK n \in S : \A m \in S : n <= m
  BY <1>1, LeastNatural
<1>3. n \in 0 .. k /\ n \in Nat /\ w[n] # seen[SubSeq(p, 1, n)].info.ino
  BY <1>2
<1>4. CASE n = 0
  <2>1. SubSeq(p, 1, 0) = <<>>
    OBVIOUS
  <2>2. seen[<<>>].info.ino = Root
    BY DEF IInv, SeenOK
  <2> QED
    BY <1>3, <1>4, <2>1, <2>2 DEF Walks
<1>5. CASE n > 0
  <2> DEFINE s == SubSeq(p, 1, k)
             q == SubSeq(p, 1, n - 1)
             c == SubSeq(p, 1, n)
  <2>1. /\ n - 1 \in 0 .. k - 1 /\ n - 1 \in 0 .. k /\ ~(n <= n - 1) /\ n - 1 + 1 = n
        /\ n \in 1 .. Len(p) /\ n \in 1 .. k
    BY <1>1, <1>3, <1>5
  <2>2. w[n - 1] = seen[q].info.ino
    BY <1>2, <2>1
  <2>3. /\ s \in DOMAIN seen /\ Len(s) = k /\ SubSeq(s, 1, n - 1) = q /\ SubSeq(s, 1, n) = c
        /\ s[n] = p[n]
    BY <1>3, <2>1, PrefixFacts, PrefixOfPrefix
  <2>4. LinkOK(s, n - 1)
    BY <2>1, <2>3 DEF IInv, SeenOK
  <2> HIDE DEF q, c, s
  <2>5. /\ q \in DOMAIN seen /\ seen[q].info.kind = "directory"
        /\ Current(Directory(q), nodesThen) => kidsThen[Directory(q).ino][p[n]] = seen[c].info.ino
    BY <2>1, <2>3, <2>4 DEF LinkOK
  <2>6. /\ Directory(q) = seen[q].info /\ Current(seen[q].info, snapshot.node)
        /\ nodesThen = snapshot.node /\ kidsThen = snapshot.kids /\ seen[q].info.ino \in Ino
    BY <2>5, AllConfirmed
  <2>7. snapshot.node[seen[q].info.ino].kind = "directory"
    <3>1. InfoOf(snapshot.node, seen[q].info.ino).kind = snapshot.node[seen[q].info.ino].kind
      BY DEF InfoOf
    <3> QED
      BY <2>5, <2>6, <3>1 DEF Current
  <2>8. w[n] = Down(w[n - 1], p[n])
    BY <2>1 DEF Walks
  <2>9. w[n] = snapshot.kids[seen[q].info.ino][p[n]]
    BY <2>2, <2>6, <2>7, <2>8, TreeAssumption DEF Down
  <2> QED
    BY <1>3, <2>5, <2>6, <2>9 DEF c
<1> QED
  BY <1>3, <1>4, <1>5

LEMMA SeenIsThere ==
    ASSUME IInv, pc = "ok", NEW p \in DOMAIN seen
    PROVE  At(p) = seen[p].info.ino
<1>1. p \in Seq(Names) /\ Len(p) \in 0 .. Len(p) /\ SubSeq(p, 1, Len(p)) = p
  BY WholePath DEF IInv, SeenOK
<1>2. PICK w : Walks(w, p, Len(p)) /\ At(p) = w[Len(p)]
  BY <1>1, AtFacts
<1>3. w[Len(p)] = seen[SubSeq(p, 1, Len(p))].info.ino
  BY <1>1, <1>2, WalkIsSeen
<1> QED
  BY <1>1, <1>2, <1>3

\* A scan that succeeds reports one tree, the one between its two passes, for every
\* tree, every limit and every sequence of changes made while it ran (walk,
\* inspectRegular, verifyTree).
THEOREM OneTreeTheorem == Spec => []ReportIsOneTree
<1>1. IInv => ReportIsOneTree
  <2> SUFFICES ASSUME IInv, pc = "ok", NEW f \in result.files
               PROVE  LET i == At(f.path) IN
                      /\ i # None
                      /\ snapshot.node[i].kind = f.kind
                      /\ f.kind # "directory" => /\ snapshot.node[i].mode = f.mode
                                                 /\ snapshot.node[i].body.size = f.size
                      /\ f.body # None => snapshot.node[i].body = f.body
    BY DEF ReportIsOneTree
  <2> DEFINE x == seen[f.path].info
             i == x.ino
             q == SubSeq(f.path, 1, Len(f.path) - 1)
  <2>1. FileOK(f) /\ f.path \in DOMAIN seen /\ f.path \in Seq(Names) /\ Len(f.path) > 0
    BY DEF IInv, FilesOK, FileOK, SeenOK
  <2>2. At(f.path) = i
    BY <2>1, SeenIsThere
  <2>3. Current(x, snapshot.node) /\ i \in Ino /\ nodesThen = snapshot.node
    BY <2>1, AllConfirmed
  <2>4. Len(f.path) - 1 \in 0 .. Len(f.path) - 1
    BY <2>1
  <2>5. q \in DOMAIN seen
    BY <2>1, <2>4 DEF IInv, SeenOK, LinkOK
  <2>6. Current(Directory(q), nodesThen)
    BY <2>5, AllConfirmed
  <2>7. /\ snapshot.node[i].kind = x.kind /\ snapshot.node[i].mode = x.mode
        /\ snapshot.node[i].body.size = x.size
    <3>1. x = InfoOf(snapshot.node, i)
      BY <2>3 DEF Current
    <3> HIDE DEF x, i
    <3> QED
      BY <3>1 DEF InfoOf
  <2>8. f.body # None => snapshot.node[i].body = f.body
    BY <2>1, <2>3, <2>6 DEF FileOK, BodyOK
  <2>9. f.kind = x.kind /\ (f.kind # "directory" => f.mode = x.mode /\ f.size = x.size)
    BY <2>1 DEF FileOK
  <2>10. i # None
    BY <2>3, TreeAssumption
  <2> HIDE DEF i, x
  <2> QED
    BY <2>2, <2>7, <2>8, <2>9, <2>10
<1> QED
  BY <1>1, Inductive, PTL

\* What is below nothing is nothing.
LEMMA NoneBelowNone ==
    ASSUME NEW p \in Seq(Names), NEW w, Walks(w, p, Len(p)), w[Len(p)] # None, NEW k \in 0 .. Len(p)
    PROVE  w[k] # None
<1> SUFFICES ASSUME w[k] = None PROVE FALSE
  OBVIOUS
<1> DEFINE S == {m \in k .. Len(p) : w[m] # None}
<1>1. S \subseteq Nat /\ Len(p) \in Nat /\ k \in Nat /\ Len(p) \in S
  OBVIOUS
<1>2. PICK m \in S : \A j \in S : m <= j
  BY <1>1, LeastNatural
<1>3. m \in k .. Len(p) /\ m # k /\ w[m] # None
  BY <1>2
<1>4. m - 1 \in k .. Len(p) /\ ~(m <= m - 1) /\ m \in 1 .. Len(p)
  BY <1>1, <1>3
<1>5. w[m - 1] = None
  BY <1>2, <1>4
<1> QED
  BY <1>3, <1>4, <1>5 DEF Walks, Down

\* A scan that succeeds hides nothing of that tree, for every tree, every limit and
\* every sequence of changes (walk, inspectRegular, inspectELF).
THEOREM OmittedTheorem == Spec => []NothingOmitted
<1>1. IInv => NothingOmitted
  <2> SUFFICES ASSUME IInv, pc = "ok" PROVE NothingOmitted
    BY DEF NothingOmitted
  <2>1. ASSUME NEW p \in Paths \ {<<>>}, At(p) # None, ~CutOff(p)
        PROVE  \E f \in result.files : f.path = p
    <3>1. p \in Seq(Names) /\ Len(p) \in Nat
      BY DEF Paths
    <3>2. PICK w : Walks(w, p, Len(p)) /\ At(p) = w[Len(p)]
      BY <3>1, AtFacts
    <3> DEFINE S == {k \in 0 .. Len(p) : SubSeq(p, 1, k) \notin DOMAIN seen}
    <3>3. S = {}
      <4> SUFFICES ASSUME S # {} PROVE FALSE
        OBVIOUS
      <4>1. S \subseteq Nat
        BY <3>1
      <4>2. PICK k \in S : \A m \in S : k <= m
        BY <4>1, LeastNatural
      <4>3. k \in 0 .. Len(p) /\ SubSeq(p, 1, k) \notin DOMAIN seen
        BY <4>2
      <4>4. k # 0
        <5>1. SubSeq(p, 1, 0) = <<>>
          BY <3>1
        <5> QED
          BY <4>3, <5>1 DEF IInv, SeenOK
      <4>5. /\ k - 1 \in 0 .. Len(p) /\ ~(k <= k - 1) /\ k - 1 \in 0 .. Len(p) - 1 /\ k - 1 + 1 = k
            /\ k \in 1 .. Len(p) /\ p[k] \in Names
        BY <3>1, <4>3, <4>4
      <4> DEFINE q == SubSeq(p, 1, k - 1)
                 x == seen[q].info
      <4>6. q \in DOMAIN seen
        BY <4>2, <4>5
      <4>7. w[k - 1] = x.ino
        BY <3>1, <3>2, <4>5, <4>6, WalkIsSeen
      <4>8. w[k] # None /\ w[k] = Down(w[k - 1], p[k])
        BY <2>1, <3>1, <3>2, <4>3, <4>5, NoneBelowNone DEF Walks
      <4>9. /\ Current(x, snapshot.node) /\ x.ino \in Ino /\ ~First
            /\ Directory(q) = x /\ nodesThen = snapshot.node /\ kidsThen = snapshot.kids
        BY <4>6, AllConfirmed
      <4> HIDE DEF q
      <4>10. snapshot.node[x.ino].kind = "directory" /\ kidsThen[x.ino][p[k]] # None
        BY <4>7, <4>8, <4>9 DEF Down
      <4>11. x.kind = "directory"
        <5>1. InfoOf(snapshot.node, x.ino).kind = snapshot.node[x.ino].kind
          BY DEF InfoOf
        <5> QED
          BY <4>9, <4>10, <5>1 DEF Current
      <4>12. ListOK(q)
        BY <4>6, <4>11 DEF IInv, ListedOK
      <4>13. ~Limited(q)
        BY <2>1, <4>5 DEF Limited, CutOff, q
      <4>14. p[k] \in seen[q].children
        BY <4>5, <4>9, <4>10, <4>12, <4>13 DEF ListOK, EntriesThen
      <4>15. Append(q, p[k]) \in DOMAIN seen
        BY <4>9, <4>12, <4>13, <4>14 DEF ListOK, Todo
      <4>16. Append(q, p[k]) = SubSeq(p, 1, k)
        BY <3>1, <4>5, LongerPrefix DEF q
      <4> QED
        BY <4>3, <4>15, <4>16
    <3>4. p \in DOMAIN seen
      <4>1. Len(p) \in 0 .. Len(p) /\ SubSeq(p, 1, Len(p)) = p
        BY <3>1, WholePath
      <4> QED
        BY <3>3, <4>1
    <3>5. pc \notin Inspecting
      BY DEF Inspecting, PassOne
    <3> QED
      BY <2>1, <3>4, <3>5 DEF IInv, RecordedOK
  <2>2. \A f \in result.files : f.kind = "regular" => f.inspected \/ Explained(f)
    BY DEF IInv, RecordedOK
  <2> QED
    BY <2>1, <2>2 DEF NothingOmitted
<1> QED
  BY <1>1, Inductive, PTL

-----------------------------------------------------------------------------
(* Refinement: Inventory implements StableScan.                            *)

abstractVars == Stable!scanVars

\* The tree a report is compared with is the one the promise is about, and so the
\* two invariants of a finished scan say what the promise asks of its report.
LEMMA DescribesSnapshot ==
    ASSUME pc = "ok", ReportIsOneTree, NothingOmitted
    PROVE  Stable!Describes(result, snapshot)
<1>1. \A p : Stable!Lookup(snapshot, p) = At(p)
  BY DEF Stable!Lookup, At
<1>2. \A p : Stable!SaysCutOff(result, p) <=> CutOff(p)
  BY DEF Stable!SaysCutOff, CutOff
<1>3. \A f : Stable!SaysWhy(result, f) <=> Explained(f)
  BY DEF Stable!SaysWhy, Explained
<1>4. \A f \in result.files : Stable!Agrees(snapshot, f)
  BY <1>1 DEF Stable!Agrees, ReportIsOneTree
<1>5. \A p \in Paths \ {<<>>} :
         Stable!Lookup(snapshot, p) # None =>
           (\E f \in result.files : f.path = p) \/ Stable!SaysCutOff(result, p)
  BY <1>1, <1>2 DEF NothingOmitted
<1>6. \A f \in result.files : f.kind = "regular" => f.inspected \/ Stable!SaysWhy(result, f)
  BY <1>3 DEF NothingOmitted
<1> QED
  BY <1>4, <1>5, <1>6 DEF Stable!Describes

\* The promise holds of what every state with a finished scan reports.
Promised == pc = "ok" => Stable!Describes(result, snapshot)

LEMMA PromiseKept == Spec => []Promised
<1>1. ReportIsOneTree /\ NothingOmitted => Promised
  BY DescribesSnapshot DEF Promised
<1> QED
  BY <1>1, OneTreeTheorem, OmittedTheorem, PTL

Ended    == {"ok", "changed"}
Checking == {"vstat", "vlist", "vnext", "vlink", "vopen"}

\* phaseOf, case by case, now and after a step.
LEMMA PhaseFacts ==
    /\ pc = "ok" => phaseOf = "returned"
    /\ pc = "changed" => phaseOf = "failed"
    /\ pc \in Checking => phaseOf = "checking"
    /\ pc \notin Checking \union Ended => phaseOf = "reading"
    /\ pc \notin Ended => reportOf = None
BY DEF phaseOf, reportOf, Checking, Ended

LEMMA PhaseFactsNext ==
    /\ pc' = "ok" => phaseOf' = "returned"
    /\ pc' = "changed" => phaseOf' = "failed"
    /\ pc' \in Checking => phaseOf' = "checking"
    /\ pc' \notin Checking \union Ended => phaseOf' = "reading"
    /\ pc' \in Ended => reportOf' = result'
    /\ pc' \notin Ended => reportOf' = None
BY DEF phaseOf, reportOf, Checking, Ended

\* An aborted scan returns the empty report and has changed nothing.
LEMMA StableAbort ==
    ASSUME pc \notin Ended, Abort
    PROVE  Stable!Next
<1>1. pc' = "changed" /\ result' = NoResult /\ UNCHANGED <<node, kids, snapshot>>
  BY DEF Abort, tree
<1>2. Stable!Running
  BY PhaseFacts DEF Stable!Running, Ended
<1>3. phaseOf' = "failed" /\ reportOf' = NoResult
  BY <1>1, PhaseFactsNext DEF Ended
<1> QED
  BY <1>1, <1>2, <1>3 DEF Stable!Next, Stable!Fail

\* A step within one pass is invisible to the caller.
LEMMA StableQuiet ==
    ASSUME UNCHANGED tree, pc \notin Ended, pc' \notin Ended,
           pc \in Checking <=> pc' \in Checking
    PROVE  UNCHANGED abstractVars
<1>1. phaseOf' = phaseOf /\ reportOf' = reportOf
  BY PhaseFacts, PhaseFactsNext DEF Ended
<1> QED
  BY <1>1 DEF abstractVars, Stable!scanVars, tree

\* verifyTree returns: to its caller, or with the report.
LEMMA StableReturns ==
    ASSUME Promised', pc \in Checking, VerifyReturns
    PROVE  [Stable!Next]_abstractVars
<1>1. pc \notin Ended /\ UNCHANGED tree /\ UNCHANGED <<node, kids, snapshot>>
  BY DEF VerifyReturns, tree, Checking, Ended
<1>2. CASE pc' = "vnext"
  BY <1>1, <1>2, StableQuiet DEF Checking, Ended
<1>3. CASE pc' = "ok"
  <2>1. phaseOf = "checking" /\ phaseOf' = "returned" /\ reportOf' = result'
    BY <1>3, PhaseFacts, PhaseFactsNext DEF Ended
  <2>2. Stable!Describes(result', snapshot')
    BY <1>3 DEF Promised
  <2>3. Stable!Describes(reportOf', snapshot)
    BY <1>1, <2>1, <2>2
  <2> QED
    BY <1>1, <2>1, <2>3 DEF Stable!Next, Stable!Return
<1> QED
  BY <1>2, <1>3 DEF VerifyReturns

\* The end of the first pass is the instant the report is about.
LEMMA StableLeave == LeaveDirectory => [Stable!Next]_abstractVars
<1> SUFFICES ASSUME LeaveDirectory PROVE [Stable!Next]_abstractVars
  OBVIOUS
<1>1. pc = "next" /\ pc \notin Ended /\ pc \notin Checking
  BY DEF LeaveDirectory, Ended, Checking
<1>2. CASE Abort
  BY <1>1, <1>2, StableAbort
<1>3. CASE pc' = "next" /\ UNCHANGED snapshot /\ UNCHANGED <<node, kids, now, cur, result>>
  BY <1>1, <1>3, StableQuiet DEF tree
<1>4. CASE /\ pc' = "vstat" /\ snapshot' = [node |-> node, kids |-> kids]
           /\ UNCHANGED <<node, kids, now, cur, result>>
  <2>1. pc' \in Checking /\ pc' \notin Ended
    BY <1>4 DEF Checking, Ended
  <2>2. phaseOf = "reading" /\ phaseOf' = "checking" /\ reportOf' = reportOf
    BY <1>1, <2>1, PhaseFacts, PhaseFactsNext
  <2> QED
    BY <1>4, <2>2 DEF Stable!Next, Stable!Take
<1> QED
  BY <1>2, <1>3, <1>4 DEF LeaveDirectory

\* Every step of the scan is a step of the promise or invisible.
LEMMA StableScanner ==
    ASSUME Promised', Scanner PROVE [Stable!Next]_abstractVars
<1> DEFINE Within(S) == pc \in S /\ (Abort \/ (UNCHANGED tree /\ pc' \in S))
           Reading   == {"list", "next", "readlink", "relstat", "openroot", "open",
                         "header", "readall", "readelf", "restat"}
<1>1. ASSUME NEW S, S = Reading \/ S = Checking, Within(S)
      PROVE  [Stable!Next]_abstractVars
  <2>1. pc \notin Ended
    BY <1>1 DEF Ended, Checking
  <2>2. CASE Abort
    BY <2>1, <2>2, StableAbort
  <2>3. CASE UNCHANGED tree /\ pc' \in S
    <3>1. pc' \notin Ended /\ (pc \in Checking <=> pc' \in Checking)
      BY <1>1, <2>3 DEF Ended, Checking
    <3> QED
      BY <2>1, <2>3, <3>1, StableQuiet
  <2> QED
    BY <1>1, <2>2, <2>3
<1>2. CASE CallFails
  <2>1. pc \in Reading \union Checking /\ Abort
    BY <1>2 DEF CallFails, Checking
  <2> QED
    BY <1>1, <2>1
<1>3. CASE LeaveDirectory
  BY <1>3, StableLeave
<1>4. CASE ReadDir
  <2>1. Within(Reading)
    BY <1>4 DEF ReadDir
  <2> QED
    BY <1>1, <2>1
<1>5. CASE LstatEntry
  <2>1. Within(Reading)
    BY <1>5, Zenon DEF LstatEntry
  <2> QED
    BY <1>1, <2>1
<1>6. CASE Readlink
  <2>1. Within(Reading)
    BY <1>6 DEF Readlink
  <2> QED
    BY <1>1, <2>1
<1>7. CASE VerifyPathStable \/ VerifyRegularStable
  <2>1. Within(Reading)
    BY <1>7 DEF VerifyPathStable, VerifyRegularStable, Recorded
  <2> QED
    BY <1>1, <2>1
<1>8. CASE OpenRoot \/ OpenFile
  <2>1. Within(Reading)
    BY <1>8 DEF OpenRoot, OpenFile
  <2> QED
    BY <1>1, <2>1
<1>9. CASE ReadHeader \/ SeekFails
  <2>1. Within(Reading)
    BY <1>9 DEF ReadHeader, SeekFails
  <2> QED
    BY <1>1, <2>1
<1>10. CASE ReadAll \/ ReadELF \/ ReadFails
  <2>1. Within(Reading)
    BY <1>10 DEF ReadAll, ReadELF, ReadFails, Inspected
  <2> QED
    BY <1>1, <2>1
<1>11. CASE VerifyDirectory
  <2>1. pc \in Checking /\ (VerifyReturns \/ Within(Checking))
    BY <1>11 DEF VerifyDirectory, Checking
  <2> QED
    BY <1>1, <2>1, StableReturns
<1>12. CASE VerifyMembers
  <2>1. pc \in Checking /\ (VerifyReturns \/ Within(Checking))
    BY <1>12 DEF VerifyMembers, Checking
  <2> QED
    BY <1>1, <2>1, StableReturns
<1>13. CASE VerifyLeave
  <2>1. pc \in Checking /\ VerifyReturns
    BY <1>13 DEF VerifyLeave, Checking
  <2> QED
    BY <2>1, StableReturns
<1>14. CASE VerifyEntry
  <2>1. Within(Checking)
    BY <1>14, Zenon DEF VerifyEntry, Checking
  <2> QED
    BY <1>1, <2>1
<1>15. CASE VerifyLink \/ VerifyOpen
  <2>1. Within(Checking)
    BY <1>15 DEF VerifyLink, VerifyOpen, Checking
  <2> QED
    BY <1>1, <2>1
<1> QED
  BY <1>2, <1>3, <1>4, <1>5, <1>6, <1>7, <1>8, <1>9, <1>10, <1>11, <1>12, <1>13, <1>14,
     <1>15 DEF Scanner

\* Whatever the others do to the tree, they do it while the scan runs, and neither
\* the instant nor the report changes.
LEMMA StableMutator == Mutator => [Stable!Next]_abstractVars
<1> SUFFICES ASSUME Mutator PROVE [Stable!Next]_abstractVars
  OBVIOUS
<1>1. pc \notin Ended
  BY DEF Mutator, Mutable, Ended
<1>2. UNCHANGED <<pc, result, snapshot>>
  <2>1. \A i, c : Write(i, c) => Mutation
    BY DEF Write
  <2>2. \A i : Chmod(i) => Mutation
    BY DEF Chmod
  <2>3. \A d, n : Unlink(d, n) => Mutation
    BY DEF Unlink
  <2>4. \A d, n, i, c : Create(d, n, i, c) => Mutation
    BY DEF Create
  <2>5. \A d, n, e, m : Rename(d, n, e, m) => Mutation
    BY DEF Rename
  <2>6. Mutation
    BY <2>1, <2>2, <2>3, <2>4, <2>5, Zenon DEF Mutator
  <2> QED
    BY <2>6 DEF Mutation
<1>3. phaseOf' = phaseOf /\ reportOf' = reportOf
  BY <1>2 DEF phaseOf, reportOf
<1>4. Stable!Running
  BY <1>1, PhaseFacts DEF Stable!Running
<1> QED
  BY <1>2, <1>3, <1>4 DEF Stable!Next, Stable!Change

\* inventory.Scan keeps its promise for every tree, all limits and every sequence of
\* changes between its system calls: seen from the caller it reads the tree at one
\* instant, returns only what describes that instant whole, or returns nothing, and
\* changes nothing (scan, walk, verifyTree).
THEOREM StableTheorem == Spec => ImplementsStableScan
<1>1. Init => Stable!Init
  BY DEF Init, Stable!Init, phaseOf, reportOf
<1>2. Promised' /\ [Next]_vars => [Stable!Next]_abstractVars
  <2>1. UNCHANGED vars => UNCHANGED abstractVars
    BY DEF vars, tree, abstractVars, Stable!scanVars, phaseOf, reportOf
  <2> QED
    BY <2>1, StableScanner, StableMutator DEF Next
<1> QED
  BY <1>1, <1>2, PromiseKept, PTL DEF Spec, ImplementsStableScan, Stable!Spec, abstractVars

=============================================================================
