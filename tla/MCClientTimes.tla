---------------------------- MODULE MCClientTimes ----------------------------
(* Symmetry for the instance of ClientTimes, and the unit its times are in. *)
EXTENDS ClientTimes

Symmetry == Permutations(Clients) \cup Permutations(Workers)

ASSUME UnitAssumption == FineUnit(12)

=============================================================================
