----------------------------- MODULE MCSession -----------------------------
(***************************************************************************)
(* Session as TLC runs it: the bounds are in the cfg.                      *)
(***************************************************************************)
EXTENDS Session

=============================================================================
