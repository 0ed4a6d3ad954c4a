---------------------------- MODULE RevisionLog -----------------------------
(***************************************************************************)
(* What the PactoRevisions of a Pacto are to their readers: a log of what  *)
(* each tag has served.  A record is added once and never changed, and     *)
(* the current one is in the log.  No informer, no cache, no failures.     *)
(***************************************************************************)
CONSTANT Nil

VARIABLES
    log,      \* a set of records tag, hash, digest
    current,  \* <<tag, hash>> of the revision in use, or Nil
    served    \* every <<tag, hash>> a tag has served

vars == <<log, current, served>>

Names(l) == {<<r.tag, r.hash>> : r \in l}

Init == log = {} /\ current = Nil

\* A push: the past stays.
Publish == served \subseteq served' /\ UNCHANGED <<log, current>>

\* One record more, of something a tag served, under a name not taken.
Record ==
    /\ log \subseteq log'
    /\ \E r \in log' : /\ <<r.tag, r.hash>> \in served \ Names(log)
                       /\ log' = log \cup {r}
    /\ UNCHANGED <<current, served>>

\* A recorded revision becomes the current one.
Select == current' \in Names(log) /\ UNCHANGED <<log, served>>

Next == Publish \/ Record \/ Select

Spec == Init /\ [][Next]_vars
=============================================================================
