-------------------------------- MODULE Ranks --------------------------------
(***************************************************************************)
(* The order in which the progress of a job or of a run is measured: four  *)
(* natural numbers, the first ones counting most.                          *)
(***************************************************************************)
EXTENDS Integers, WellFoundedInduction

Less    == OpToRel(<, Nat)
Pairs   == Nat \X Nat
Less2   == LexPairOrdering(Less, Less, Nat, Nat)
Triples == Nat \X Pairs
Less3   == LexPairOrdering(Less, Less2, Nat, Pairs)
Rank4   == Nat \X Triples
Less4   == LexPairOrdering(Less, Less3, Nat, Triples)

\* No infinite sequence of ranks falls all the way.
NoInfiniteDescent == IsWellFoundedOn(Less4, Rank4)

Measure(a, b, c, d) == <<a, <<b, <<c, d>>>>>>
=============================================================================
