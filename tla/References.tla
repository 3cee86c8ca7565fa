------------------------------ MODULE References ------------------------------
(***************************************************************************)
(* runtimeReferencedPaths (internal/analyze/scope.go): the paths that code *)
(* reaches at run time, found by following textual references from the     *)
(* entry points until a round adds none.                                   *)
(*                                                                         *)
(* The rounds range over a Go map that the body grows: Go visits the keys  *)
(* in any order and may or may not visit a key added during the round.     *)
(***************************************************************************)

VARIABLES
    seeds,    \* references when the rounds begin; never changes
    marks,    \* inspectable path -> the candidates its text names; never changes
    refs,     \* references
    round,    \* the keys the current round still has to visit
    changed,  \* references grew in this round
    ended     \* the loop is left

loop == <<refs, round, changed, ended>>
vars == <<seeds, marks, loop>>

\* What markTextReferences adds for one key; a path whose content was not
\* retained has no text to follow.
marked(p) == IF p \in DOMAIN marks THEN marks[p] ELSE {}

Begin == refs = seeds /\ round = {} /\ changed = TRUE /\ ended = FALSE

NextRound ==
    /\ ~ended /\ round = {} /\ changed
    /\ round' = refs /\ changed' = FALSE
    /\ UNCHANGED <<refs, ended>>

\* Mutant: the length is compared only once, after the whole round.
VisitForgets ==
    \E p \in round :
       /\ ~ended
       /\ refs' = refs \cup marked(p)
       /\ changed' = (refs' # refs)
       /\ \E new \in SUBSET (refs' \ refs) : round' = (round \ {p}) \cup new
       /\ UNCHANGED ended

\* Mutant: a round that visited a key is taken to have changed the references.
VisitAlwaysChanges ==
    \E p \in round :
       /\ ~ended
       /\ refs' = refs \cup marked(p)
       /\ changed' = TRUE
       /\ \E new \in SUBSET (refs' \ refs) : round' = (round \ {p}) \cup new
       /\ UNCHANGED ended

Visit ==
    \E p \in round :
       /\ ~ended
       /\ refs' = refs \cup marked(p)
       /\ changed' = (changed \/ refs' # refs)
       /\ \E new \in SUBSET (refs' \ refs) : round' = (round \ {p}) \cup new
       /\ UNCHANGED ended

Leave ==
    /\ ~ended /\ round = {} /\ ~changed
    /\ ended' = TRUE
    /\ UNCHANGED <<refs, round, changed>>

Next == (NextRound \/ Visit \/ Leave) /\ UNCHANGED <<seeds, marks>>

Spec == Begin /\ [][Next]_vars

-----------------------------------------------------------------------------
\* C contains the seeds and whatever the text of its members names.
Closed(C) == seeds \subseteq C /\ \A p \in C : marked(p) \subseteq C

\* The loop leaves with exactly the paths reachable from the seeds: a closed set
\* no part of which is closed, whatever order the map was visited in.
LeastClosed == ended => Closed(refs) /\ \A C \in SUBSET refs : Closed(C) => C = refs
==============================================================================
