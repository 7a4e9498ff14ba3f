------------------------------ MODULE MCRemote ------------------------------
(***************************************************************************)
(* Remote as TLC runs it: the bounds are in the cfg.                       *)
(***************************************************************************)
EXTENDS Remote

=============================================================================
