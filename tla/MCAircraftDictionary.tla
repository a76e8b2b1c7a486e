------------------------ MODULE MCAircraftDictionary ------------------------
(***************************************************************************)
(* Three aircraft, two nodes: the dictionary overflows, and what is freed  *)
(* is used again.                                                          *)
(***************************************************************************)
EXTENDS AircraftDictionary, TLC
CONSTANTS a1, a2, u1
Symmetry == Permutations({a1, a2})
=============================================================================
