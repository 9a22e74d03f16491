--------------------------- MODULE MCCatalogSync ---------------------------
(* CatalogSync on small instances: two versions of the upstream catalog,   *)
(* one of a single chunk and one of two.                                   *)
EXTENDS CatalogSync, TLC

CONSTANTS small, big

MCSize  == (small :> 1) @@ (big :> 2)
MCCards == (small :> 1) @@ (big :> 2)
MCRunSymmetry == Permutations(Run)
=============================================================================
