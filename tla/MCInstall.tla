----------------------------- MODULE MCInstall -----------------------------
(***************************************************************************)
(* Install as TLC runs it: a kill in the middle of an install is the    *)
(* end of a run.                                                           *)
(***************************************************************************)
EXTENDS Install

NotTorn == ~torn

=============================================================================
