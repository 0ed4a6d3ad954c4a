---------------------------- MODULE MCRevisions -----------------------------
(***************************************************************************)
(* Instances of Revisions.                                                 *)
(***************************************************************************)
EXTENDS Revisions

CONSTANTS h1, h2, d1, d2

\* Two bundles with different contracts.
TwoBundles == {[hash |-> h1, digest |-> d1], [hash |-> h2, digest |-> d2]}
=============================================================================
