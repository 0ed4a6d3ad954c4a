----------------------------- MODULE StatusSpec -----------------------------
(***************************************************************************)
(* What a reader of the API server may rely on, and nothing of how the     *)
(* operator works: there is no cache, no queue, no worker and no restart   *)
(* here.  The status of a Pacto changes in one way only: a report, made at *)
(* once from the spec the object has at that moment, and stamped with its  *)
(* generation.                                                             *)
(***************************************************************************)
EXTENDS Naturals

CONSTANTS
    Nil,
    Specs,               \* the specs a user may submit
    FreshStatus,         \* the status of a new object
    Reportable(_, _)     \* whether a derived status may be reported of a spec

VARIABLES exists, spec, gen, status, revisions

vars == <<exists, spec, gen, status, revisions>>

Init ==
    /\ exists = TRUE /\ gen = 1 /\ spec \in Specs
    /\ status = FreshStatus /\ revisions = {}

\* A user edits the spec: the status is now of an earlier generation.
Edit ==
    /\ exists
    /\ spec' \in Specs /\ gen' = gen + 1
    /\ UNCHANGED <<exists, status, revisions>>

\* A user deletes the object, and its revisions go with it.
Delete ==
    /\ exists /\ ~exists'
    /\ revisions' = {}
    /\ UNCHANGED <<spec, gen, status>>

\* Revisions are added, never changed or removed.
Record ==
    /\ exists /\ revisions \subseteq revisions'
    /\ UNCHANGED <<exists, spec, gen, status>>

\* The status is replaced as a whole.  It is of the present spec, says so, and
\* points at a revision that is there; a pointer is never taken back to none.
Report ==
    /\ exists
    /\ status'.observedGeneration = gen
    /\ Reportable(status'.derived, spec)
    /\ \/ status'.currentRevision \in revisions
       \/ status'.currentRevision = Nil /\ status.currentRevision = Nil
    /\ UNCHANGED <<exists, spec, gen, revisions>>

Next == Edit \/ Delete \/ Record \/ Report

Spec == Init /\ [][Next]_vars
=============================================================================
