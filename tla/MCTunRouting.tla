---------------------------- MODULE MCTunRouting ----------------------------
(***************************************************************************)
(* TunRouting with one entry of each kind, in the code's order: the        *)
(* server's exception, the mark rule, an IPv6 half, both halves of default.*)
(***************************************************************************)
EXTENDS TunRouting

MCRules  == {2}
MCV6     == {3}
MCViaTun == {4, 5}

=============================================================================
