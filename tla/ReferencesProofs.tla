--------------------------- MODULE ReferencesProofs ---------------------------
(***************************************************************************)
(* runtimeReferencedPaths returns the least closed set, for every plugin   *)
(* and every order in which Go visits the map.                             *)
(***************************************************************************)
EXTENDS References, TLAPS

\* A key that this round has visited, in a round that has changed nothing, names
\* nothing outside the references.
Settled == ~changed => \A p \in refs \ round : marked(p) \subseteq refs

\* Nothing gets in that a closed set could do without.
Needed == \A C : Closed(C) => refs \subseteq C

\* The inductive invariant.  LeastClosed speaks of the moment the loop is left; on
\* the way there Settled and Needed carry its two halves.
IInv ==
    /\ changed \in BOOLEAN /\ ended \in BOOLEAN
    /\ seeds \subseteq refs /\ round \subseteq refs
    /\ Settled /\ Needed
    /\ ended => round = {} /\ ~changed

\* What is closed does not change: seeds and marks are inputs of the call.
LEMMA ClosedIsFixed ==
    ASSUME NEW C, UNCHANGED <<seeds, marks>>
    PROVE  Closed(C)' <=> Closed(C)
BY DEF Closed, marked

LEMMA BeginSettled == Begin => IInv
<1>1. SUFFICES ASSUME Begin PROVE IInv
  OBVIOUS
<1>2. changed = TRUE /\ ended = FALSE
  BY <1>1 DEF Begin
<1>3. seeds \subseteq refs /\ round \subseteq refs
  BY <1>1 DEF Begin
<1>4. Settled
  BY <1>2 DEF Settled
<1>5. Needed
  BY <1>1 DEF Begin, Needed, Closed
<1>6. QED
  BY <1>2, <1>3, <1>4, <1>5 DEF IInv

\* One key is visited: either nothing is new and the key is settled, or the round
\* counts as changed; every closed set has what the key names.
LEMMA VisitKeeps ==
    ASSUME IInv, Visit, UNCHANGED <<seeds, marks>>
    PROVE  IInv'
<1>1. PICK p \in round :
         /\ ~ended /\ refs' = refs \cup marked(p)
         /\ changed' = (changed \/ refs' # refs)
         /\ \E new \in SUBSET (refs' \ refs) : round' = (round \ {p}) \cup new
         /\ UNCHANGED ended
  BY DEF Visit
<1>2. PICK new \in SUBSET (refs' \ refs) : round' = (round \ {p}) \cup new
  BY <1>1
<1>3. p \in refs
  BY DEF IInv
<1>4. /\ changed' \in BOOLEAN /\ ended' \in BOOLEAN
      /\ seeds' \subseteq refs' /\ round' \subseteq refs'
  BY <1>1, <1>2 DEF IInv
<1>5. Settled'
  <2>1. SUFFICES ASSUME ~changed', NEW q \in refs' \ round'
                 PROVE  marked(q)' \subseteq refs'
    BY DEF Settled
  <2>2. ~changed /\ refs' = refs
    BY <1>1, <2>1 DEF IInv
  <2>3. q = p \/ q \in refs \ round
    BY <1>2, <2>1, <2>2
  <2>4. marked(q) \subseteq refs
    BY <1>1, <2>2, <2>3 DEF IInv, Settled
  <2>5. QED
    BY <2>2, <2>4 DEF marked
<1>6. Needed'
  <2>1. SUFFICES ASSUME NEW C, Closed(C)' PROVE refs' \subseteq C
    BY DEF Needed
  <2>2. Closed(C)
    BY <2>1, ClosedIsFixed
  <2>3. refs \subseteq C
    BY <2>2 DEF IInv, Needed
  <2>4. marked(p) \subseteq C
    BY <1>3, <2>2, <2>3 DEF Closed
  <2>5. QED
    BY <1>1, <2>3, <2>4
<1>7. QED
  BY <1>1, <1>4, <1>5, <1>6 DEF IInv

LEMMA NextKeeps == IInv /\ [Next]_vars => IInv'
<1>1. SUFFICES ASSUME IInv, [Next]_vars PROVE IInv'
  OBVIOUS
<1>2. CASE UNCHANGED vars
  <2>1. UNCHANGED <<seeds, marks, refs, round, changed, ended>>
    BY <1>2 DEF vars, loop
  <2>2. QED
    BY <1>1, <2>1 DEF IInv, Settled, Needed, Closed, marked
<1>3. CASE Next
  <2>1. UNCHANGED <<seeds, marks>>
    BY <1>3 DEF Next
  <2>2. CASE NextRound
    BY <1>1, <2>1, <2>2 DEF NextRound, IInv, Settled, Needed, Closed, marked
  <2>3. CASE Visit
    BY <1>1, <2>1, <2>3, VisitKeeps
  <2>4. CASE Leave
    BY <1>1, <2>1, <2>4 DEF Leave, IInv, Settled, Needed, Closed, marked
  <2>5. QED
    BY <1>3, <2>2, <2>3, <2>4 DEF Next
<1>4. QED
  BY <1>1, <1>2, <1>3

LEMMA Leaves == IInv => LeastClosed
<1>1. SUFFICES ASSUME IInv, ended
               PROVE  Closed(refs) /\ \A C \in SUBSET refs : Closed(C) => C = refs
  BY DEF LeastClosed
<1>2. Closed(refs)
  BY <1>1 DEF IInv, Settled, Closed
<1>3. ASSUME NEW C \in SUBSET refs, Closed(C) PROVE C = refs
  BY <1>1, <1>3 DEF IInv, Needed
<1>4. QED
  BY <1>2, <1>3

\* runtimeReferencedPaths: whenever the loop is left, references is the set of
\* paths reachable from the entry points and QML files, whatever the plugin and
\* in whatever order, and with or without the keys it adds, Go visits the map.
THEOREM LeastClosedTheorem == Spec => []LeastClosed
<1>1. Begin => IInv
  BY BeginSettled
<1>2. IInv /\ [Next]_vars => IInv'
  BY NextKeeps
<1>3. IInv => LeastClosed
  BY Leaves
<1>4. QED
  BY <1>1, <1>2, <1>3, PTL DEF Spec
==============================================================================
