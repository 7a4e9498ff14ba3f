----------------------------- MODULE MCLibrary -----------------------------
(***************************************************************************)
(* Library as TLC runs it: two subscriptions, of which one's panel has     *)
(* databases of its own.                                                   *)
(***************************************************************************)
EXTENDS Library

CONSTANTS s1, s2

MCSubs == {s1, s2}
MCWithGeo == {s1}

\* Every property but one is about what has not strayed.
NotStrayed == ~strayed

=============================================================================
