------------------------------ MODULE MCAuth ------------------------------
(* Small instances of Auth for TLC. *)
EXTENDS Auth, TLC

CONSTANTS k0, k1, k2, i1, c1, c2
MCCeremony == 1 .. 3
MCCeremony2 == 1 .. 2
MCPasskey == {k0, k1, k2}
MCPasskey2 == {k0, k1}
MCInvite == {i1}
MCClient == {c1, c2}
Symmetry == Permutations(MCClient) \union Permutations({k1, k2})
=============================================================================
