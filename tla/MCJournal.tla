----------------------------- MODULE MCJournal -----------------------------
(***************************************************************************)
(* Journal with interchangeable runs and pids.  Nothing is claimed of what *)
(* follows a write the store refused, or a clash of pids, so TLC goes no   *)
(* further there.                                                          *)
(***************************************************************************)
EXTENDS Journal, TLC

Symmetry == Permutations(Runs) \cup Permutations(Pids)

WhileKind == Kind

=============================================================================
