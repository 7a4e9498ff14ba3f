------------------------------ MODULE MCService ------------------------------
(***************************************************************************)
(* Service with two windows of one user and one of another.                *)
(***************************************************************************)
EXTENDS ServiceInv, TLC

CONSTANTS c1, c2, c3, u1, u2

MCConns  == {c1, c2, c3}
MCUsers  == {u1, u2}
MCOwner  == c1 :> u1 @@ c2 :> u1 @@ c3 :> u2
MCConns2 == {c1, c2}
MCOwner2 == c1 :> u1 @@ c2 :> u1

\* The windows of one user are alike, and so are sessions.
WindowSymmetry == Permutations({c1, c2})
Symmetry       == Permutations(Sessions) \cup WindowSymmetry

\* What the service goes by.  It never looks at what a takedown has left, so
\* states that differ in that alone are explored once; every takedown that falls
\* short is still among their steps.
Going == <<svcVars, connVars, timeVars, lifeVars, {s \in Sessions : host[s] = "up"},
           tunVars, known>>

=============================================================================
