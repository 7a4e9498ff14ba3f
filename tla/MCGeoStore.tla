----------------------------- MODULE MCGeoStore -----------------------------
(***************************************************************************)
(* GeoStore as TLC runs it: five databases for a store of four, two pairs  *)
(* that share one and a third of their own.                                *)
(***************************************************************************)
EXTENDS GeoStore, TLC

CONSTANTS d1, d2, d3, d4, d5

MCDbs   == {d1, d2, d3, d4, d5}
MCPairs == {<<d1, d2>>, <<d3, d4>>, <<d1, d5>>}
MCSize  == [d \in MCDbs |-> 1]

\* The connections, and the two databases that are the second of d1's pairs.
MCSwap == [d \in {d2, d5} |-> IF d = d2 THEN d5 ELSE d2]
MCSymmetry == Permutations(Conns) \union {p @@ MCSwap : p \in Permutations(Conns)}

=============================================================================
