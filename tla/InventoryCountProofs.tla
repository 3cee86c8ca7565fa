------------------------ MODULE InventoryCountProofs -------------------------
(***************************************************************************)
(* How many entries a scan can record, for any tree, any limits and any    *)
(* number of changes made by others.                                       *)
(*                                                                         *)
(* readDirBounded compares one directory with what is left of MaxFiles at  *)
(* that moment, so names already listed but not yet recorded are not       *)
(* counted.  CountOK counts them: the backlog of the open directories.     *)
(* A directory at depth k was listed when its k ancestors were recorded,   *)
(* so it adds at most MaxFiles - k names, one of which is the directory    *)
(* the walk went on to.                                                    *)
(***************************************************************************)
EXTENDS InventoryProofs

\* The names listed but not yet taken up in the directories before the j-th.
Backlog(s, j) == {c \in (1 .. j - 1) \X Names : c[2] \in s[c[1]].todo}

\* What the directories before the j-th may have left, twice; and the bound.
Share(j) == (j - 1) * (2 * MaxFiles - j)
Ceiling  == (MaxDepth + 1) * (2 * MaxFiles - MaxDepth)

\* An entry was taken up and is recorded when it is done; a special file and a
\* directory are recorded at once.
InHand == IF pc \in Inspecting \ {"openroot"} /\ cur.file.kind # "special" THEN 1 ELSE 0

Total == Cardinality(result.files) + Cardinality(Backlog(stack, Len(stack)))
         + Cardinality(Top.todo) + InHand

TotalOK == MaxFiles >= MaxDepth => 2 * Total <= Ceiling

ShareOK(j) ==
    /\ 2 * Cardinality(Backlog(stack, j)) <= Share(j)
    /\ stack[j].todo # {} => Cardinality(stack[j].todo) <= MaxFiles - j + 1

HandOK ==
    pc \in Inspecting =>
        /\ Cardinality(Top.todo) <= MaxFiles - Len(stack)
        /\ cur.file.kind = "special" => cur.file \in result.files

CountOK ==
    /\ FileCountBound
    /\ First => TotalOK /\ HandOK /\ \A j \in 1 .. Len(stack) : ShareOK(j)

-----------------------------------------------------------------------------
(* The arithmetic.                                                         *)

LEMMA ShareGrows ==
    ASSUME NEW j \in Int PROVE Share(j + 1) = Share(j) + 2 * (MaxFiles - j)
  BY LimitsAssumption DEF Share

\* A directory that is listed within MaxFiles stays within the bound.
LEMMA ShareBound ==
    ASSUME NEW j \in Nat, 1 <= j, j <= MaxDepth + 1, MaxFiles >= MaxDepth
    PROVE  2 * MaxFiles + Share(j) <= Ceiling
<1>1. MaxFiles \in Nat /\ MaxDepth \in Nat
  BY LimitsAssumption
<1> DEFINE a == MaxDepth + 1 - j
           b == 2 * MaxFiles - MaxDepth - j
<1>2. Ceiling - (2 * MaxFiles + Share(j)) = a * b
  BY <1>1 DEF Ceiling, Share
<1>3. a \in Int /\ b \in Int /\ (a = 0 \/ (a > 0 /\ b >= 0))
  BY <1>1
<1>4. Ceiling \in Int /\ Share(j) \in Int
  BY <1>1 DEF Ceiling, Share
<1> HIDE DEF a, b
<1>5. a * b >= 0
  BY <1>3
<1> QED
  BY <1>1, <1>2, <1>4, <1>5

LEMMA CeilingType ==
    /\ Ceiling \in Int /\ MaxFiles \in Nat /\ MaxDepth \in Nat
    /\ MaxFiles >= MaxDepth => Ceiling >= 0
<1>1. MaxFiles \in Nat /\ MaxDepth \in Nat
  BY LimitsAssumption
<1> DEFINE b == 2 * MaxFiles - MaxDepth
<1>2. b \in Int /\ (MaxFiles >= MaxDepth => b >= 0)
  BY <1>1
<1> HIDE DEF b
<1>3. MaxFiles >= MaxDepth => (MaxDepth + 1) * b >= 0
  BY <1>1, <1>2
<1> QED
  BY <1>1, <1>2, <1>3 DEF Ceiling, b

-----------------------------------------------------------------------------
(* The backlog.                                                            *)

LEMMA NamesFinite ==
    ASSUME NEW T, T \subseteq Names
    PROVE  IsFiniteSet(T) /\ Cardinality(T) \in Nat
<1>1. IsFiniteSet(Names) /\ T \in SUBSET Names
  BY TreeAssumption
<1>2. IsFiniteSet(T)
  BY <1>1, FS_Subset
<1> QED
  BY <1>2, FS_CardinalityType

LEMMA BacklogFinite ==
    ASSUME NEW s, NEW j \in Int
    PROVE  IsFiniteSet(Backlog(s, j)) /\ Cardinality(Backlog(s, j)) \in Nat
<1>1. IsFiniteSet(1 .. j - 1) /\ IsFiniteSet(Names)
  BY FS_Interval, TreeAssumption
<1>2. IsFiniteSet((1 .. j - 1) \X Names)
  BY <1>1, FS_Product
<1>3. Backlog(s, j) \in SUBSET ((1 .. j - 1) \X Names)
  BY DEF Backlog
<1>4. IsFiniteSet(Backlog(s, j))
  BY <1>2, <1>3, FS_Subset
<1> QED
  BY <1>4, FS_CardinalityType

LEMMA BacklogSame ==
    ASSUME NEW s, NEW t, NEW j \in Int, \A k \in 1 .. j - 1 : s[k].todo = t[k].todo
    PROVE  Backlog(s, j) = Backlog(t, j)
<1>1. \A c \in (1 .. j - 1) \X Names : c[1] \in 1 .. j - 1
  OBVIOUS
<1> QED
  BY <1>1 DEF Backlog

\* The j-th directory's own names come on top.
LEMMA BacklogSplit ==
    ASSUME NEW s, NEW j \in Nat, 1 <= j, s[j].todo \subseteq Names
    PROVE  Cardinality(Backlog(s, j + 1)) = Cardinality(Backlog(s, j)) + Cardinality(s[j].todo)
<1> DEFINE T == s[j].todo
           row == {j} \X T
<1>1. IsFiniteSet(T) /\ Cardinality(T) \in Nat
  BY NamesFinite
<1>2. IsFiniteSet({j}) /\ Cardinality({j}) = 1
  BY FS_Singleton
<1>3. IsFiniteSet(row) /\ Cardinality(row) = Cardinality({j}) * Cardinality(T)
  BY <1>1, <1>2, FS_Product
<1>4. Cardinality(row) = Cardinality(T)
  <2> HIDE DEF row, T
  <2> QED
    BY <1>1, <1>2, <1>3
<1>5. IsFiniteSet(Backlog(s, j)) /\ Cardinality(Backlog(s, j)) \in Nat
  BY BacklogFinite
<1>6. Backlog(s, j + 1) = Backlog(s, j) \union row
  <2>1. ASSUME NEW k, NEW n
        PROVE  <<k, n>> \in Backlog(s, j + 1) <=> <<k, n>> \in Backlog(s, j) \union row
    <3>1. k \in 1 .. j + 1 - 1 <=> k \in 1 .. j - 1 \/ k = j
      OBVIOUS
    <3> QED
      BY <3>1 DEF Backlog
  <2>2. \A c \in Backlog(s, j + 1) : c = <<c[1], c[2]>>
    BY DEF Backlog
  <2>3. \A c \in Backlog(s, j) \union row : c = <<c[1], c[2]>>
    BY DEF Backlog
  <2> HIDE DEF row
  <2> QED
    BY <2>1, <2>2, <2>3
<1>7. Backlog(s, j) \intersect row = {}
  BY DEF Backlog
<1> HIDE DEF row, T
<1>8. Cardinality(Backlog(s, j) \union row) =
        Cardinality(Backlog(s, j)) + Cardinality(row) - Cardinality(Backlog(s, j) \intersect row)
  BY <1>3, <1>5, FS_Union
<1>9. Cardinality(Backlog(s, j) \intersect row) = 0
  BY <1>7, FS_EmptySet
<1>10. Cardinality(Backlog(s, j) \union row) = Cardinality(Backlog(s, j)) + Cardinality(T)
  BY <1>1, <1>4, <1>5, <1>8, <1>9
<1> QED
  BY <1>6, <1>10 DEF T

-----------------------------------------------------------------------------
(* Counting.                                                               *)

LEMMA CountTypes ==
    ASSUME IInv, First
    PROVE  /\ IsFiniteSet(result.files) /\ Cardinality(result.files) \in Nat
           /\ StackOK /\ pc # "changed"
           /\ Len(stack) \in Nat /\ Len(stack) >= 1 /\ Len(stack) \in 1 .. Len(stack)
           /\ Top = stack[Len(stack)] /\ Top.todo \subseteq Names /\ Cardinality(Top.todo) \in Nat
           /\ (\A j \in 1 .. Len(stack) : stack[j].todo \subseteq Names)
           /\ Cardinality(Backlog(stack, Len(stack))) \in Nat /\ InHand \in {0, 1}
<1>1. IsFiniteSet(result.files) /\ Cardinality(result.files) \in Nat
  BY FS_CardinalityType DEF IInv, FilesOK
<1>2. /\ Len(stack) \in Nat /\ Len(stack) >= 1 /\ Top.todo \subseteq Names /\ StackOK
      /\ pc # "changed"
  BY WalkFacts DEF IInv
<1>3. \A j \in 1 .. Len(stack) : stack[j].todo \subseteq Names
  <2>1. \A j \in 1 .. Len(stack) : stack[j] \in Frames
    BY <1>2 DEF StackOK
  <2> QED
    BY <2>1 DEF Frames
<1>4. Cardinality(Top.todo) \in Nat
  BY <1>2, NamesFinite
<1>5. Cardinality(Backlog(stack, Len(stack))) \in Nat
  BY <1>2, BacklogFinite
<1>6. InHand \in {0, 1} /\ Top = stack[Len(stack)]
  BY DEF InHand, Top
<1>7. Len(stack) \in 1 .. Len(stack)
  BY <1>2
<1> QED
  BY <1>1, <1>2, <1>3, <1>4, <1>5, <1>6, <1>7

\* What is counted covers what is recorded.
LEMMA CountParts ==
    ASSUME IInv', First', TotalOK', HandOK', \A j \in 1 .. Len(stack') : ShareOK(j)'
    PROVE  CountOK'
<1> DEFINE a == Cardinality(result'.files)
           b == Cardinality(Backlog(stack', Len(stack')))
           c == Cardinality(Top'.todo)
           d == InHand'
<1>1. a \in Nat
  BY FS_CardinalityType DEF IInv, FilesOK
<1>2. pc' # "changed"
  BY DEF First, PassOne
<1>3. stack' \in Seq(Frames) /\ Len(stack') \in Nat /\ Len(stack') > 0
  BY <1>2 DEF IInv, StackOK
<1>4. b \in Nat
  BY <1>3, BacklogFinite
<1>5. Top' \in Frames
  BY <1>3 DEF Top
<1>6. c \in Nat
  BY <1>5, NamesFinite DEF Frames
<1>7. d \in {0, 1}
  BY DEF InHand
<1>8. TotalOK' <=> (MaxFiles >= MaxDepth => 2 * (a + b + c + d) <= Ceiling)
  BY DEF TotalOK, Total, Ceiling
<1>9. FileCountBound' <=> (MaxFiles >= MaxDepth => 2 * a <= Ceiling)
  BY DEF FileCountBound, Ceiling
<1> HIDE DEF a, b, c, d
<1>10. FileCountBound'
  BY <1>1, <1>4, <1>6, <1>7, <1>8, <1>9, CeilingType
<1> QED
  BY <1>10 DEF CountOK

\* The scan is over, or in its second pass.
LEMMA CountAbort ==
    ASSUME Abort PROVE CountOK'
<1>1. Cardinality(result'.files) = 0
  BY FS_EmptySet DEF Abort, NoResult
<1>2. ~First'
  BY DEF Abort, First, PassOne
<1>3. FileCountBound'
  BY <1>1, CeilingType DEF FileCountBound, Ceiling
<1> QED
  BY <1>2, <1>3 DEF CountOK

LEMMA CountEnds ==
    ASSUME CountOK, pc' \in PassTwo \union {"ok"}, result' = result PROVE CountOK'
<1>1. ~First'
  BY DEF First, PassOne, PassTwo
<1>2. FileCountBound'
  BY DEF CountOK, FileCountBound
<1> QED
  BY <1>1, <1>2 DEF CountOK

\* Nothing is listed, taken up or recorded.
LEMMA CountQuiet ==
    ASSUME IInv, IInv', CountOK, First, First', stack' = stack, result'.files = result.files,
           InHand' = InHand, HandOK'
    PROVE  CountOK'
<1>1. Top' = Top
  BY DEF Top
<1>2. TotalOK'
  BY <1>1 DEF CountOK, TotalOK, Total
<1>3. \A j \in 1 .. Len(stack') : ShareOK(j)'
  BY DEF CountOK, ShareOK
<1> QED
  BY <1>2, <1>3, CountParts

\* The entry in hand is inspected.
LEMMA CountInspect ==
    ASSUME IInv, IInv', CountOK, pc \in Inspecting \ {"openroot"},
           pc' \in Inspecting \ {"openroot"}, stack' = stack, result'.files = result.files,
           cur'.file.kind = cur.file.kind, cur'.file = cur.file \/ cur.file.kind # "special"
    PROVE  CountOK'
<1>1. First /\ First'
  BY DEF First, Inspecting
<1>2. InHand' = InHand
  BY DEF InHand
<1>3. HandOK'
  BY <1>1 DEF CountOK, HandOK, Top
<1> QED
  BY <1>1, <1>2, <1>3, CountQuiet

\* The directories above an open one are recorded.
LEMMA AncestorsRecorded ==
    ASSUME IInv, pc = "list" PROVE Len(stack) - 1 <= Cardinality(result.files)
<1>1. First /\ pc \notin Inspecting
  BY DEF First, PassOne, Inspecting
<1>2. /\ IsFiniteSet(result.files) /\ Cardinality(result.files) \in Nat
      /\ Len(stack) \in Nat /\ Len(stack) >= 1
  BY <1>1, CountTypes
<1> DEFINE n == Len(stack) - 1
           above == [k \in 1 .. n |-> CHOOSE f \in result.files : Len(f.path) = k]
<1>3. ASSUME NEW k \in 1 .. n PROVE above[k] \in result.files /\ Len(above[k].path) = k
  <2>1. k + 1 \in 1 .. Len(stack) /\ k + 1 - 1 = k /\ k # 0
    BY <1>2
  <2>2. FrameOK(k + 1) /\ stack[k + 1].path \in DOMAIN seen
    BY <1>1, <2>1, WalkFacts
  <2>3. Len(stack[k + 1].path) = k
    BY <2>1, <2>2 DEF FrameOK
  <2>4. stack[k + 1].path # <<>>
    BY <2>1, <2>3
  <2>5. \E f \in result.files : f.path = stack[k + 1].path
    BY <1>1, <2>2, <2>4 DEF IInv, RecordedOK
  <2> QED
    BY <2>3, <2>5
<1> HIDE DEF above
<1>4. above \in [1 .. n -> result.files]
  BY <1>3 DEF above
<1>5. above \in Injection(1 .. n, result.files)
  BY <1>3, <1>4 DEF Injection, IsInjective
<1>6. Cardinality(1 .. n) <= Cardinality(result.files)
  BY <1>2, <1>5, FS_Injection
<1>7. Cardinality(1 .. n) = n
  BY <1>2, FS_Interval
<1> QED
  BY <1>6, <1>7

\* A directory is listed: its names come within what is left of MaxFiles.
LEMMA CountListed ==
    ASSUME IInv, IInv', CountOK, pc = "list", pc' = "next", NEW D \in SUBSET Names,
           Len(stack) <= MaxDepth + 1, result' = result, Len(stack') = Len(stack),
           stack'[Len(stack)].todo = D,
           \A j \in 1 .. Len(stack) : j < Len(stack) => stack'[j].todo = stack[j].todo,
           D # {} => Cardinality(result.files) + Cardinality(D) <= MaxFiles
    PROVE  CountOK'
<1>1. /\ First /\ First' /\ pc \notin Inspecting /\ pc' \notin Inspecting
  BY DEF First, PassOne, Inspecting
<1> DEFINE m == Len(stack)
           a == Cardinality(result.files)
           b == Cardinality(Backlog(stack, m))
           d == Cardinality(D)
<1>2. /\ a \in Nat /\ b \in Nat /\ d \in Nat /\ m \in Nat /\ m >= 1 /\ StackOK /\ pc # "changed"
      /\ IsFiniteSet(D) /\ Top = stack[m]
  BY <1>1, CountTypes, NamesFinite
<1>3. InHand = 0 /\ InHand' = 0 /\ HandOK'
  BY <1>1 DEF InHand, HandOK
<1>4. /\ Len(stack') = m /\ stack'[m].todo = D /\ Top'.todo = D
      /\ \A j \in 1 .. m : j < m => stack'[j].todo = stack[j].todo
  BY DEF Top
<1>5. \A j \in 1 .. m : Backlog(stack', j) = Backlog(stack, j)
  <2> SUFFICES ASSUME NEW j \in 1 .. m PROVE Backlog(stack', j) = Backlog(stack, j)
    OBVIOUS
  <2>1. \A k \in 1 .. j - 1 : k \in 1 .. m /\ k < m
    BY <1>2
  <2>2. \A k \in 1 .. j - 1 : stack'[k].todo = stack[k].todo
    BY <1>4, <2>1
  <2> QED
    BY <2>2, BacklogSame
<1>6. m \in 1 .. m /\ Top.todo = {} /\ Cardinality(Top.todo) = 0
  <2>1. Top.todo = {}
    BY <1>2 DEF StackOK
  <2> QED
    BY <1>2, <2>1, FS_EmptySet
<1>7. MaxFiles \in Nat /\ MaxDepth \in Nat /\ Ceiling \in Int /\ Share(m) \in Int
  BY <1>2, CeilingType DEF Share
<1>8. d = 0 <=> D = {}
  BY <1>2, FS_EmptySet
<1>9. D # {} => a + d <= MaxFiles
  OBVIOUS
<1>10. m - 1 <= a /\ m <= MaxDepth + 1
  BY AncestorsRecorded
<1>11. 2 * b <= Share(m)
  BY <1>1, <1>6 DEF CountOK, ShareOK
<1>12. MaxFiles >= MaxDepth => 2 * (a + b) <= Ceiling
  <2>1. Total = a + b + 0 + 0
    BY <1>3, <1>6 DEF Total
  <2> HIDE DEF a, b, m
  <2> QED
    BY <1>1, <1>2, <2>1 DEF CountOK, TotalOK
<1>13. MaxFiles >= MaxDepth => 2 * MaxFiles + Share(m) <= Ceiling
  BY <1>2, <1>10, ShareBound
<1>14. Total' = a + b + d + 0
  BY <1>2, <1>3, <1>4, <1>5, <1>6 DEF Total
<1> HIDE DEF a, b, d, m
<1>15. TotalOK'
  <2>1. CASE D = {}
    BY <1>2, <1>8, <1>12, <1>14, <2>1 DEF TotalOK
  <2>2. CASE D # {}
    BY <1>2, <1>7, <1>9, <1>11, <1>13, <1>14, <2>2 DEF TotalOK
  <2> QED
    BY <2>1, <2>2
<1>16. D # {} => d <= MaxFiles - m + 1
  BY <1>2, <1>7, <1>9, <1>10
<1>17. ASSUME NEW j \in 1 .. Len(stack') PROVE ShareOK(j)'
  <2>1. j \in 1 .. m /\ ShareOK(j) /\ (j < m \/ j = m)
    BY <1>1, <1>2, <1>4 DEF CountOK, m
  <2>2. 2 * Cardinality(Backlog(stack', j)) <= Share(j)
    BY <1>5, <2>1 DEF ShareOK
  <2>3. stack'[j].todo # {} => Cardinality(stack'[j].todo) <= MaxFiles - j + 1
    <3>1. CASE j < m
      BY <1>4, <2>1, <3>1 DEF ShareOK
    <3>2. CASE j = m
      BY <1>4, <1>16, <3>2 DEF d
    <3> QED
      BY <2>1, <3>1, <3>2
  <2> QED
    BY <2>2, <2>3 DEF ShareOK, Share
<1> QED
  BY <1>1, <1>3, <1>15, <1>17, CountParts

\* An open directory other than the last keeps its share.
LEMMA SharesStay ==
    ASSUME NEW m \in Nat, m <= Len(stack), m <= Len(stack'), \A j \in 1 .. Len(stack) : ShareOK(j),
           stack \in Seq(Frames), stack' \in Seq(Frames),
           \A j \in 1 .. m : j < m => stack'[j].todo = stack[j].todo
    PROVE  /\ \A j \in 1 .. m : Backlog(stack', j) = Backlog(stack, j)
           /\ \A j \in 1 .. m : 2 * Cardinality(Backlog(stack', j)) <= Share(j)
           /\ \A j \in 1 .. m : j < m => ShareOK(j)'
<1>1. \A j \in 1 .. m : Backlog(stack', j) = Backlog(stack, j)
  <2> SUFFICES ASSUME NEW j \in 1 .. m PROVE Backlog(stack', j) = Backlog(stack, j)
    OBVIOUS
  <2>1. \A k \in 1 .. j - 1 : k \in 1 .. m /\ k < m
    OBVIOUS
  <2>2. \A k \in 1 .. j - 1 : stack'[k].todo = stack[k].todo
    BY <2>1
  <2> QED
    BY <2>2, BacklogSame
<1>2. \A j \in 1 .. m : j \in 1 .. Len(stack)
  OBVIOUS
<1>3. \A j \in 1 .. m : 2 * Cardinality(Backlog(stack', j)) <= Share(j)
  BY <1>1, <1>2 DEF ShareOK
<1>4. ASSUME NEW j \in 1 .. m, j < m PROVE ShareOK(j)'
  <2>1. stack'[j].todo # {} => Cardinality(stack'[j].todo) <= MaxFiles - j + 1
    BY <1>2, <1>4 DEF ShareOK
  <2> QED
    BY <1>3, <2>1 DEF ShareOK, Share
<1> QED
  BY <1>1, <1>3, <1>4

LEMMA TotalStays ==
    ASSUME TotalOK, Total \in Int, Total' \in Int, Total' <= Total PROVE TotalOK'
<1>1. Ceiling \in Int
  BY CeilingType
<1> QED
  BY <1>1 DEF TotalOK, Ceiling

\* An entry is taken up: it leaves the backlog, and is recorded or in hand.
LEMMA CountTaken ==
    ASSUME IInv, IInv', CountOK, pc = "next", pc' \in Inspecting, NEW name \in Top.todo,
           Len(stack') = Len(stack), stack'[Len(stack)].todo = Top.todo \ {name},
           \A j \in 1 .. Len(stack) : j < Len(stack) => stack'[j].todo = stack[j].todo,
           Cardinality(result'.files) + InHand' <= Cardinality(result.files) + 1,
           cur'.file.kind = "special" => cur'.file \in result'.files
    PROVE  CountOK'
<1>1. First /\ First' /\ pc \notin Inspecting
  BY DEF First, PassOne, Inspecting
<1> DEFINE m == Len(stack)
           a == Cardinality(result.files)
           b == Cardinality(Backlog(stack, m))
           c == Cardinality(Top.todo)
           e == Cardinality(result'.files)
           h == InHand'
<1>2. /\ a \in Nat /\ b \in Nat /\ c \in Nat /\ m \in Nat /\ m >= 1 /\ m \in 1 .. m
      /\ Top = stack[m] /\ Top.todo \subseteq Names /\ StackOK
  BY <1>1, CountTypes
<1>3. e \in Nat /\ h \in {0, 1}
  BY FS_CardinalityType DEF IInv, FilesOK, InHand
<1>4. Top'.todo = Top.todo \ {name} /\ Cardinality(Top'.todo) = c - 1 /\ Top.todo # {}
  <2>1. Top'.todo = Top.todo \ {name}
    BY DEF Top
  <2>2. IsFiniteSet(Top.todo)
    BY <1>2, NamesFinite
  <2>3. Cardinality(Top.todo \ {name}) = c - 1
    BY <2>2, FS_RemoveElement
  <2> QED
    BY <2>1, <2>3
<1>5. TotalOK /\ \A j \in 1 .. m : ShareOK(j)
  BY <1>1 DEF CountOK
<1>6. stack \in Seq(Frames) /\ stack' \in Seq(Frames)
  BY <1>2 DEF IInv, StackOK
<1>7. /\ Backlog(stack', m) = Backlog(stack, m)
      /\ 2 * Cardinality(Backlog(stack', m)) <= Share(m)
      /\ \A j \in 1 .. m : j < m => ShareOK(j)'
  BY <1>2, <1>5, <1>6, SharesStay
<1>8. Total = a + b + c + 0
  BY <1>1 DEF Total, InHand
<1>9. Total' = e + b + (c - 1) + h
  BY <1>4, <1>7 DEF Total
<1>10. c <= MaxFiles - m + 1 /\ MaxFiles \in Nat
  BY <1>2, <1>4, <1>5, CeilingType DEF ShareOK
<1>11. e + h <= a + 1
  OBVIOUS
<1> HIDE DEF a, b, c, e, h
<1>12. Total' <= Total /\ Total \in Nat /\ Total' \in Int
  BY <1>2, <1>3, <1>8, <1>9, <1>11
<1>13. TotalOK'
  BY <1>5, <1>12, TotalStays
<1>14. c - 1 <= MaxFiles - m /\ c - 1 <= MaxFiles - m + 1
  BY <1>2, <1>10
<1>15. HandOK'
  BY <1>4, <1>14 DEF HandOK
<1>16. ShareOK(m)'
  BY <1>2, <1>4, <1>7, <1>14 DEF ShareOK, Share
<1>17. \A j \in 1 .. Len(stack') : ShareOK(j)'
  <2>1. \A j \in 1 .. Len(stack') : j \in 1 .. m /\ (j < m \/ j = m)
    BY <1>2
  <2> QED
    BY <1>7, <1>16, <2>1
<1> QED
  BY <1>1, <1>13, <1>15, <1>17, CountParts

\* The entry in hand is recorded.
LEMMA CountRecorded ==
    ASSUME IInv, IInv', CountOK, pc \in {"relstat", "restat"}, Recorded PROVE CountOK'
<1>1. /\ First /\ First' /\ pc \in Inspecting \ {"openroot"} /\ pc' \notin Inspecting
      /\ stack' = stack /\ result'.files = result.files \union {cur.file}
  <2>1. pc' = "next" /\ stack' = stack /\ result' = Record(cur.file)
    BY DEF Recorded
  <2>2. result \in Results
    BY DEF IInv, FilesOK
  <2>3. result'.files = result.files \union {cur.file}
    BY <2>1, <2>2 DEF Record, Results
  <2> QED
    BY <2>1, <2>3 DEF First, PassOne, Inspecting
<1> DEFINE a == Cardinality(result.files)
           b == Cardinality(Backlog(stack, Len(stack)))
           c == Cardinality(Top.todo)
           e == Cardinality(result'.files)
           h == InHand
<1>2. a \in Nat /\ b \in Nat /\ c \in Nat /\ h \in {0, 1} /\ IsFiniteSet(result.files)
  BY <1>1, CountTypes
<1>3. e = IF cur.file \in result.files THEN a ELSE a + 1
  BY <1>1, <1>2, FS_AddElement
<1>4. h = 0 => cur.file \in result.files
  BY <1>1 DEF CountOK, HandOK, InHand
<1>5. Total = a + b + c + h
  BY DEF Total
<1>6. Total' = e + b + c + 0
  BY <1>1 DEF Total, InHand, Top
<1> HIDE DEF a, b, c, e, h
<1>7. Total' <= Total /\ Total \in Nat /\ Total' \in Nat
  BY <1>2, <1>3, <1>4, <1>5, <1>6
<1>8. TotalOK'
  <2>1. TotalOK
    BY <1>1 DEF CountOK
  <2> QED
    BY <1>7, <2>1, TotalStays
<1>9. HandOK' /\ \A j \in 1 .. Len(stack') : ShareOK(j)'
  BY <1>1 DEF CountOK, HandOK, ShareOK
<1> QED
  BY <1>1, <1>8, <1>9, CountParts

\* The walk goes on to a directory: what is left of its parent joins the backlog.
LEMMA CountPushed ==
    ASSUME IInv, IInv', CountOK, pc = "openroot", pc' = "list", Len(stack') = Len(stack) + 1,
           stack'[Len(stack) + 1].todo = {},
           \A j \in 1 .. Len(stack) : stack'[j].todo = stack[j].todo, result' = result
    PROVE  CountOK'
<1>1. First /\ First' /\ pc \in Inspecting /\ pc' \notin Inspecting
  BY DEF First, PassOne, Inspecting
<1> SUFFICES ASSUME NEW m, m = Len(stack) PROVE CountOK'
  OBVIOUS
<1> DEFINE a == Cardinality(result.files)
           b == Cardinality(Backlog(stack, m))
           c == Cardinality(Top.todo)
<1>2. /\ a \in Nat /\ b \in Nat /\ c \in Nat /\ m \in Nat /\ m >= 1 /\ m \in 1 .. m
      /\ Top = stack[m] /\ Top.todo \subseteq Names /\ StackOK
  BY <1>1, CountTypes
<1>3. TotalOK /\ HandOK /\ \A j \in 1 .. m : ShareOK(j)
  BY <1>1 DEF CountOK
<1>4. stack \in Seq(Frames) /\ stack' \in Seq(Frames)
  BY <1>2 DEF IInv, StackOK
<1>5. /\ \A j \in 1 .. m : 2 * Cardinality(Backlog(stack', j)) <= Share(j)
      /\ \A j \in 1 .. m : j < m => ShareOK(j)'
      /\ Backlog(stack', m) = Backlog(stack, m)
  <2>1. m <= Len(stack') /\ \A j \in 1 .. m : j < m => stack'[j].todo = stack[j].todo
    BY <1>2
  <2> QED
    BY <1>2, <1>3, <1>4, <2>1, SharesStay
<1>6. Cardinality(Backlog(stack', m + 1)) = b + c
  <2>1. stack'[m].todo = Top.todo
    BY <1>2
  <2> QED
    BY <1>2, <1>5, <2>1, BacklogSplit
<1>7. Top'.todo = {} /\ Cardinality(Top'.todo) = 0
  BY FS_EmptySet DEF Top
<1>8. Total = a + b + c + 0
  BY <1>1 DEF Total, InHand
<1>9. Total' = a + (b + c) + 0 + 0
  BY <1>1, <1>6, <1>7 DEF Total, InHand
<1>10. 2 * b <= Share(m) /\ c <= MaxFiles - m
  BY <1>1, <1>2, <1>3 DEF ShareOK, HandOK
<1>11. Share(m + 1) = Share(m) + 2 * (MaxFiles - m) /\ Share(m) \in Int /\ MaxFiles \in Nat
  BY <1>2, ShareGrows, CeilingType DEF Share
<1> HIDE DEF a, b, c
<1>12. TotalOK'
  <2>1. Total' = Total /\ Total \in Int
    BY <1>2, <1>8, <1>9
  <2> QED
    BY <1>3, <2>1, TotalStays
<1>13. 2 * Cardinality(Backlog(stack', m + 1)) <= Share(m + 1)
  BY <1>2, <1>6, <1>10, <1>11
<1>14. ShareOK(m + 1)'
  BY <1>13 DEF ShareOK, Share
<1>15. ShareOK(m)'
  <2>1. stack'[m].todo # {} => Cardinality(stack'[m].todo) <= MaxFiles - m + 1
    BY <1>2, <1>3 DEF ShareOK
  <2> QED
    BY <1>2, <1>5, <2>1 DEF ShareOK, Share
<1>16. \A j \in 1 .. Len(stack') : ShareOK(j)'
  <2>1. \A j \in 1 .. Len(stack') : (j \in 1 .. m /\ j < m) \/ j = m \/ j = m + 1
    BY <1>2
  <2> QED
    BY <1>5, <1>14, <1>15, <2>1
<1>17. HandOK'
  BY <1>1 DEF HandOK
<1> QED
  BY <1>1, <1>12, <1>16, <1>17, CountParts

\* The walk comes back from a directory in which nothing is left.
LEMMA CountPopped ==
    ASSUME IInv, IInv', CountOK, pc = "next", pc' = "next", Top.todo = {}, Len(stack) > 1,
           Len(stack') = Len(stack) - 1, result' = result,
           \A j \in 1 .. Len(stack) - 1 : stack'[j].todo = stack[j].todo
    PROVE  CountOK'
<1>1. First /\ First' /\ pc \notin Inspecting
  BY DEF First, PassOne, Inspecting
<1> SUFFICES ASSUME NEW m, m = Len(stack) - 1 PROVE CountOK'
  OBVIOUS
<1> DEFINE a == Cardinality(result.files)
           b == Cardinality(Backlog(stack, m))
           c == Cardinality(stack[m].todo)
<1>2. /\ a \in Nat /\ m \in Nat /\ m >= 1 /\ m \in 1 .. m /\ m + 1 = Len(stack) /\ StackOK
      /\ \A j \in 1 .. m : j \in 1 .. Len(stack)
  BY <1>1, CountTypes
<1>3. stack[m].todo \subseteq Names /\ b \in Nat /\ c \in Nat
  <2>1. stack[m].todo \subseteq Names
    BY <1>1, <1>2, CountTypes
  <2> QED
    BY <1>2, <2>1, NamesFinite, BacklogFinite
<1>4. TotalOK /\ \A j \in 1 .. Len(stack) : ShareOK(j)
  BY <1>1 DEF CountOK
<1>5. stack \in Seq(Frames) /\ stack' \in Seq(Frames)
  BY <1>2 DEF IInv, StackOK
<1>6. /\ \A j \in 1 .. m : 2 * Cardinality(Backlog(stack', j)) <= Share(j)
      /\ \A j \in 1 .. m : j < m => ShareOK(j)'
      /\ Backlog(stack', m) = Backlog(stack, m)
  <2>1. m <= Len(stack) /\ m <= Len(stack')
    BY <1>2
  <2>2. \A j \in 1 .. m : stack'[j].todo = stack[j].todo
    OBVIOUS
  <2> QED
    BY <1>2, <1>4, <1>5, <2>1, <2>2, SharesStay
<1>7. Cardinality(Backlog(stack, Len(stack))) = b + c
  BY <1>2, <1>3, BacklogSplit
<1>8. Top'.todo = stack[m].todo
  BY <1>2 DEF Top
<1>9. Total = a + (b + c) + 0 + 0
  BY <1>1, <1>7, FS_EmptySet DEF Total, InHand
<1>10. Total' = a + b + c + 0
  BY <1>1, <1>6, <1>8 DEF Total, InHand
<1>11. ShareOK(m)'
  <2>1. stack'[m].todo # {} => Cardinality(stack'[m].todo) <= MaxFiles - m + 1
    BY <1>2, <1>4 DEF ShareOK
  <2> QED
    BY <1>2, <1>6, <2>1 DEF ShareOK, Share
<1> HIDE DEF a, b, c
<1>12. TotalOK'
  <2>1. Total' = Total /\ Total \in Int
    BY <1>2, <1>3, <1>9, <1>10
  <2> QED
    BY <1>4, <2>1, TotalStays
<1>13. \A j \in 1 .. Len(stack') : ShareOK(j)'
  <2>1. \A j \in 1 .. Len(stack') : (j \in 1 .. m /\ j < m) \/ j = m
    BY <1>2
  <2> QED
    BY <1>6, <1>11, <2>1
<1>14. HandOK'
  BY <1>1 DEF HandOK
<1> QED
  BY <1>1, <1>12, <1>13, <1>14, CountParts

-----------------------------------------------------------------------------
(* The steps of the walk.                                                  *)

LEMMA CountInit == Init => CountOK
<1> SUFFICES ASSUME Init PROVE CountOK
  OBVIOUS
<1>1. /\ stack = <<Frame(Root, <<>>, Info(Root))>> /\ result = NoResult /\ pc = "list"
  BY DEF Init
<1>2. Len(stack) = 1 /\ Top.todo = {} /\ stack[1].todo = {}
  BY <1>1 DEF Top, Frame
<1>3. Cardinality(result.files) = 0 /\ Cardinality(Top.todo) = 0
  BY <1>1, <1>2, FS_EmptySet DEF NoResult
<1>4. Cardinality(Backlog(stack, 1)) = 0
  <2>1. Backlog(stack, 1) = {}
    BY DEF Backlog
  <2> QED
    BY <2>1, FS_EmptySet
<1>5. InHand = 0 /\ pc \notin Inspecting
  BY <1>1 DEF InHand, Inspecting
<1>6. Total = 0 + 0 + 0 + 0
  BY <1>2, <1>3, <1>4, <1>5 DEF Total
<1>7. TotalOK /\ FileCountBound
  BY <1>3, <1>6, CeilingType DEF TotalOK, FileCountBound, Ceiling
<1>8. ShareOK(1)
  BY <1>2, <1>4, LimitsAssumption DEF ShareOK, Share
<1> QED
  BY <1>2, <1>5, <1>7, <1>8 DEF CountOK, HandOK

LEMMA CountReadDir ==
    ASSUME IInv, IInv', CountOK, ReadDir PROVE CountOK'
<1>1. /\ pc = "list" /\ pc' = "next" /\ First /\ First' /\ pc \notin Inspecting
      /\ pc' \notin Inspecting /\ result \in Results
  BY DEF ReadDir, First, PassOne, Inspecting, IInv, FilesOK
<1>2. InHand' = InHand /\ HandOK'
  BY <1>1 DEF InHand, HandOK
<1>3. CASE \/ result' = limit("max-depth", Top.path) /\ UNCHANGED stack
           \/ result' = limit("max-files", Top.path) /\ UNCHANGED stack
  <2>1. stack' = stack /\ result'.files = result.files
    BY <1>1, <1>3 DEF limit, Results
  <2> QED
    BY <1>1, <1>2, <2>1, CountQuiet
<1>4. CASE /\ depth <= MaxDepth /\ ~exceeds(Top.ino, MaxFiles - Cardinality(result.files))
           /\ stack' = Replace([Top EXCEPT !.todo = Entries(Top.ino)]) /\ UNCHANGED result
  <2>1. /\ StackOK /\ pc # "changed" /\ Cardinality(result.files) \in Nat /\ Len(stack) \in Nat
    BY <1>1, CountTypes
  <2> SUFFICES ASSUME NEW D \in SUBSET Names, D = Entries(Top.ino) PROVE CountOK'
    BY DEF Entries
  <2>2. Len(stack) <= MaxDepth + 1 /\ MaxFiles \in Nat /\ result' = result
    BY <1>4, <2>1, CeilingType DEF depth
  <2>3. stack' = Replace([Top EXCEPT !.todo = D])
    BY <1>4
  <2>4. /\ Len(stack') = Len(stack) /\ stack'[Len(stack)].todo = D
        /\ \A j \in 1 .. Len(stack) : j < Len(stack) => stack'[j].todo = stack[j].todo
    BY <2>1, <2>3, ReplaceFacts
  <2>5. IsFiniteSet(D) /\ Cardinality(D) \in Nat /\ (D # {} => Cardinality(D) # 0)
    BY NamesFinite, FS_EmptySet
  <2>6. ~(Cardinality(D) > (IF MaxFiles - Cardinality(result.files) < 0 THEN 0
                            ELSE MaxFiles - Cardinality(result.files)))
    BY <1>4 DEF exceeds
  <2>7. D # {} => Cardinality(result.files) + Cardinality(D) <= MaxFiles
    BY <2>1, <2>2, <2>5, <2>6
  <2> QED
    BY <1>1, <2>2, <2>4, <2>7, CountListed
<1> QED
  BY <1>3, <1>4 DEF ReadDir

LEMMA CountLstatEntry ==
    ASSUME IInv, IInv', CountOK, LstatEntry PROVE CountOK'
<1>1. /\ pc = "next" /\ First /\ pc \notin Inspecting /\ result \in Results
      /\ Top.todo # {}
  BY DEF LstatEntry, First, PassOne, Inspecting, IInv, FilesOK
<1>2. /\ StackOK /\ pc # "changed" /\ Top.todo \subseteq Names /\ IsFiniteSet(result.files)
      /\ Cardinality(result.files) \in Nat
  BY <1>1, CountTypes
<1>3. NextName \in Top.todo /\ NextName \in Names
  BY <1>1, <1>2, NextNameIn
<1>4. CASE Abort
  BY <1>4, CountAbort
<1> SUFFICES ASSUME NEW name, name = NextName, NEW x, x = Info(kids[Top.ino][name]),
                    NEW file, file = fileFor(childPath(name), x), ~Abort
             PROVE  CountOK'
  BY <1>4
<1>5. /\ cur' = [NoEntry EXCEPT !.name = name, !.info = x, !.file = file]
      /\ pc' = CASE file.kind = "symlink"   -> "readlink"
                 [] file.kind = "directory" -> "openroot"
                 [] file.kind = "special"   -> "relstat"
                 [] OTHER                   -> IF file.skip THEN "relstat" ELSE "open"
      /\ result' = CASE file.kind = "directory" -> Record(file)
                     [] file.kind = "special"   ->
                          [limit("special-file", file.path) EXCEPT !.files = @ \union {file}]
                     [] OTHER                   -> result
      /\ stack' = Replace([Top EXCEPT !.todo = @ \ {name}])
  BY DEF LstatEntry
<1>6. cur'.file = file
  BY <1>5 DEF NoEntry
<1>7. /\ pc' \in {"readlink", "openroot", "relstat", "open"}
      /\ file.kind = "directory" => pc' = "openroot"
  BY <1>5
<1>8. \/ file.kind \notin {"directory", "special"} /\ result'.files = result.files
      \/ file.kind \in {"directory", "special"} /\ result'.files = result.files \union {file}
  BY <1>1, <1>5 DEF Record, limit, Results
<1>9. stack' = Replace([Top EXCEPT !.todo = Top.todo \ {name}])
  BY <1>2, <1>5, TopFacts DEF Frames
<1>10. /\ Len(stack') = Len(stack) /\ stack'[Len(stack)].todo = Top.todo \ {name}
       /\ \A j \in 1 .. Len(stack) : j < Len(stack) => stack'[j].todo = stack[j].todo
  BY <1>2, <1>9, ReplaceFacts
<1>11. Cardinality(result'.files) + InHand' <= Cardinality(result.files) + 1
  <2>1. CASE file.kind \notin {"directory", "special"}
    <3>1. InHand' \in {0, 1}
      BY DEF InHand
    <3> QED
      BY <1>2, <1>8, <2>1, <3>1
  <2>2. CASE file.kind \in {"directory", "special"}
    <3>1. InHand' = 0
      BY <1>6, <1>7, <2>2 DEF InHand
    <3>2. Cardinality(result.files \union {file}) \in {Cardinality(result.files),
                                                      Cardinality(result.files) + 1}
      BY <1>2, FS_AddElement
    <3>3. result'.files = result.files \union {file}
      BY <1>8, <2>2
    <3> QED
      BY <1>2, <3>1, <3>2, <3>3
  <2> QED
    BY <2>1, <2>2
<1>12. cur'.file.kind = "special" => cur'.file \in result'.files
  BY <1>6, <1>8
<1>13. pc' \in Inspecting
  BY <1>7 DEF Inspecting, PassOne
<1> QED
  BY <1>1, <1>3, <1>10, <1>11, <1>12, <1>13, CountTaken

\* A note in the result records no entry.
LEMMA NotesRecordNothing ==
    ASSUME result \in Results, NEW code, NEW path,
           result' = limit(code, path) \/ result' = scanError(code, path)
    PROVE  result'.files = result.files
  BY DEF limit, scanError, Results

\* The system calls that inspect the entry in hand.
LEMMA CountInspection ==
    ASSUME IInv, IInv', CountOK,
           Readlink \/ OpenFile \/ ReadHeader \/ SeekFails \/ ReadAll \/ ReadELF \/ ReadFails
    PROVE  CountOK'
<1>1. /\ pc \in {"readlink", "open", "header", "readall", "readelf"}
  BY DEF Readlink, OpenFile, ReadHeader, SeekFails, ReadAll, ReadELF, ReadFails
<1>2. pc \in Inspecting \ {"openroot"} /\ result \in Results /\ CurOK
  BY <1>1 DEF Inspecting, PassOne, IInv, FilesOK
<1>3. cur \in Curs /\ cur.file \in Files /\ cur.file.kind # "special"
  BY <1>1, <1>2 DEF CurOK, Curs, Opened
<1>4. CASE Abort
  BY <1>4, CountAbort
<1>5. SUFFICES ASSUME ~Abort
               PROVE  /\ pc' \in {"relstat", "header", "readall", "readelf", "restat"}
                      /\ stack' = stack /\ result'.files = result.files
                      /\ cur'.file.kind = cur.file.kind
  <2>1. CASE ~Abort
    <3>1. /\ pc' \in Inspecting \ {"openroot"} /\ stack' = stack /\ result'.files = result.files
          /\ cur'.file.kind = cur.file.kind
      BY <2>1, <1>5 DEF Inspecting, PassOne
    <3> QED
      BY <1>2, <1>3, <3>1, CountInspect
  <2> QED
    BY <1>4, <2>1
<1>6. CASE Readlink
  <2>1. pc' = "relstat" /\ stack' = stack
    BY <1>6 DEF Readlink
  <2>2. \/ cur' = [cur EXCEPT !.file.body = node[kids[Top.ino][cur.name]].body] /\ result' = result
        \/ cur' = cur /\ result' = scanError("readlink", cur.file.path)
    BY <1>6 DEF Readlink
  <2>3. cur'.file.kind = cur.file.kind
    BY <1>3, <2>2 DEF Curs, Files
  <2> QED
    BY <1>2, <2>1, <2>2, <2>3, NotesRecordNothing
<1>7. CASE OpenFile
  <2>1. PICK i \in Opens(Top.ino, cur.name) :
           /\ cur' = [cur EXCEPT !.fd = i, !.opened = Info(i)] /\ pc' = "header"
           /\ UNCHANGED <<tree, stack, seen, result>>
    BY <1>5, <1>7 DEF OpenFile
  <2>2. cur'.file = cur.file
    BY <1>3, <2>1 DEF Curs
  <2> QED
    BY <2>1, <2>2
<1>8. CASE ReadHeader
  <2>1. cur' = cur /\ stack' = stack
    BY <1>8 DEF ReadHeader
  <2>2. PICK elf \in {FALSE, node[cur.fd].body.format # "text"} :
          LET code == IF elf THEN binaryLimit ELSE sourceLimit IN
          IF code = "none"
          THEN pc' = (IF elf THEN "readelf" ELSE "readall") /\ UNCHANGED result
          ELSE pc' = "restat" /\ result' = limit(code, cur.file.path)
    BY <1>8 DEF ReadHeader
  <2>3. /\ pc' \in {"readelf", "readall", "restat"}
        /\ result' = result \/ \E code : result' = limit(code, cur.file.path)
    BY <2>2
  <2> QED
    BY <1>2, <2>1, <2>3, NotesRecordNothing
<1>9. CASE SeekFails
  BY <1>2, <1>9, NotesRecordNothing DEF SeekFails
<1>10. CASE ReadFails
  BY <1>2, <1>5, <1>10, NotesRecordNothing DEF ReadFails
<1>11. CASE ReadAll
  <2> DEFINE body == node[cur.fd].body
  <2>1. result' = [result EXCEPT !.readBytes = @ + body.size] /\ Inspected(body)
    BY <1>5, <1>11 DEF ReadAll
  <2> HIDE DEF body
  <2>2. result'.files = result.files
    BY <1>2, <2>1 DEF Results
  <2>3. pc' = "restat" /\ stack' = stack
        /\ cur' = [cur EXCEPT !.file.inspected = TRUE, !.file.body = body]
    BY <2>1 DEF Inspected
  <2>4. cur'.file.kind = cur.file.kind
    BY <1>3, <2>3 DEF Curs, Files
  <2> QED
    BY <2>2, <2>3, <2>4
<1>12. CASE ReadELF
  <2> DEFINE body == node[cur.fd].body
             parsed == IF body.format = "elf" THEN result
                       ELSE limit("elf-parse-error", cur.file.path)
  <2>1. result' = [parsed EXCEPT !.binaryBytes = @ + body.size] /\ Inspected(body)
    BY <1>5, <1>12 DEF ReadELF
  <2> HIDE DEF body
  <2>2. result'.files = result.files
    BY <1>2, <2>1 DEF Results, limit
  <2>3. pc' = "restat" /\ stack' = stack
        /\ cur' = [cur EXCEPT !.file.inspected = TRUE, !.file.body = body]
    BY <2>1 DEF Inspected
  <2>4. cur'.file.kind = cur.file.kind
    BY <1>3, <2>3 DEF Curs, Files
  <2> QED
    BY <2>2, <2>3, <2>4
<1> QED
  BY <1>6, <1>7, <1>8, <1>9, <1>10, <1>11, <1>12

LEMMA CountOpenRoot ==
    ASSUME IInv, IInv', CountOK, OpenRoot PROVE CountOK'
<1>1. CASE Abort
  BY <1>1, CountAbort
<1>2. CASE ~Abort
  <2>1. PICK i \in Opens(Top.ino, cur.name) :
           /\ stack' = Append(stack, Frame(i, cur.file.path, Info(i))) /\ pc' = "list"
           /\ UNCHANGED <<tree, seen, result>>
    BY <1>2 DEF OpenRoot
  <2>2. pc = "openroot" /\ stack \in Seq(Frames) /\ result' = result
    BY <2>1 DEF OpenRoot, IInv, StackOK
  <2>3. Frame(i, cur.file.path, Info(i)).todo = {}
    BY DEF Frame
  <2>4. /\ Len(stack') = Len(stack) + 1
        /\ stack'[Len(stack) + 1] = Frame(i, cur.file.path, Info(i))
        /\ \A j \in 1 .. Len(stack) : stack'[j] = stack[j]
    BY <2>1, <2>2
  <2> QED
    BY <2>1, <2>2, <2>3, <2>4, CountPushed
<1> QED
  BY <1>1, <1>2

LEMMA CountLeaveDirectory ==
    ASSUME IInv, IInv', CountOK, LeaveDirectory PROVE CountOK'
<1>1. CASE Abort
  BY <1>1, CountAbort
<1>2. CASE ~Abort /\ Len(stack) > 1
  <2>1. pc = "next" /\ pc' = "next" /\ Top.todo = {} /\ stack' = Pop /\ result' = result
    BY <1>2 DEF LeaveDirectory
  <2>2. StackOK
    BY DEF IInv
  <2>3. Len(stack') = Len(stack) - 1 /\ \A j \in 1 .. Len(stack) - 1 : stack'[j] = stack[j]
    BY <1>2, <2>1, <2>2, PopFacts
  <2> QED
    BY <1>2, <2>1, <2>3, CountPopped
<1>3. CASE ~Abort /\ ~(Len(stack) > 1)
  <2>1. pc' = "vstat" /\ result' = result
    BY <1>3 DEF LeaveDirectory
  <2> QED
    BY <2>1, CountEnds DEF PassTwo
<1> QED
  BY <1>1, <1>2, <1>3

\* The second pass records nothing.
LEMMA CountVerifies ==
    ASSUME CountOK,
           \/ VerifyDirectory \/ VerifyMembers \/ VerifyEntry \/ VerifyLink \/ VerifyOpen
           \/ VerifyLeave
    PROVE  CountOK'
<1>1. CASE Abort
  BY <1>1, CountAbort
<1>2. CASE ~Abort
  <2>1. VerifyReturns => pc' \in {"vnext", "ok"} /\ result' = result
    BY DEF VerifyReturns
  <2>2. result' = result /\ pc' \in {"vnext", "ok", "vlist", "vlink", "vopen", "vstat"}
    <3>1. CASE VerifyDirectory
      BY <1>2, <2>1, <3>1 DEF VerifyDirectory
    <3>2. CASE VerifyMembers
      BY <1>2, <2>1, <3>2 DEF VerifyMembers
    <3>3. CASE VerifyEntry
      BY <1>2, <3>3 DEF VerifyEntry
    <3>4. CASE VerifyLink
      BY <1>2, <3>4 DEF VerifyLink
    <3>5. CASE VerifyOpen
      BY <1>2, <3>5 DEF VerifyOpen
    <3>6. CASE VerifyLeave
      BY <2>1, <3>6 DEF VerifyLeave
    <3> QED
      BY <3>1, <3>2, <3>3, <3>4, <3>5, <3>6
  <2> QED
    BY <2>2, CountEnds DEF PassTwo
<1> QED
  BY <1>1, <1>2

\* Others change the tree, never what the walker holds.
LEMMA CountStutters ==
    ASSUME CountOK, UNCHANGED <<pc, stack, cur, result>> PROVE CountOK'
<1>1. Top' = Top /\ First' = First /\ InHand' = InHand
  BY DEF Top, First, InHand
<1>2. Total' = Total
  BY <1>1 DEF Total
<1> QED
  BY <1>1, <1>2 DEF CountOK, FileCountBound, TotalOK, HandOK, ShareOK, Ceiling, Share

LEMMA NextCount ==
    ASSUME IInv, CountOK, [Next]_vars PROVE CountOK'
<1>1. IInv'
  BY NextIInv
<1>2. CASE Scanner
  <2>1. CASE VerifyPathStable \/ VerifyRegularStable
    BY <1>1, <2>1, CountAbort, CountRecorded DEF VerifyPathStable, VerifyRegularStable
  <2>2. CASE CallFails
    BY <2>2, CountAbort DEF CallFails
  <2> QED
    BY <1>1, <1>2, <2>1, <2>2, CountReadDir, CountLstatEntry, CountInspection, CountOpenRoot,
       CountLeaveDirectory, CountVerifies DEF Scanner
<1>3. CASE Mutator
  <2>1. UNCHANGED <<pc, stack, cur, result>>
    BY <1>3, MutatorTree DEF IInv, Others
  <2> QED
    BY <2>1, CountStutters
<1>4. CASE UNCHANGED vars
  BY <1>4, CountStutters DEF vars
<1> QED
  BY <1>2, <1>3, <1>4 DEF Next

\* However the tree is shaped and whoever changes it, a scan never holds more entries
\* than the sum of what its open directories could be listed with: the entry limit
\* bounds every directory by what is left, not the walk (walk, readDirBounded).
THEOREM FileCountTheorem == Spec => []FileCountBound
<1>1. IInv /\ CountOK /\ [Next]_vars => CountOK'
  BY NextCount
<1>2. CountOK => FileCountBound
  BY DEF CountOK
<1> QED
  BY <1>1, <1>2, CountInit, Inductive, PTL DEF Spec

=============================================================================
