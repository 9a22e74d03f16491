----------------------------- MODULE MCLibrary -----------------------------
(* Library on small instances: saves s1 and s2 name the same job.          *)
EXTENDS Library, TLC

CONSTANTS s1, s2, s3, j1, j2

MCJobOf == [s \in Item |-> IF s = s3 THEN j2 ELSE j1]
MCSize  == (j1 :> 1) @@ (j2 :> 2)
MCDeleterSymmetry == Permutations(Deleter)
=============================================================================
