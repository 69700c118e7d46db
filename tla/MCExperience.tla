---------------------------- MODULE MCExperience ----------------------------
(* A checkout for two places and a direct reservation for one compete for  *)
(* a session with two places.                                              *)
EXTENDS Experience

CONSTANTS a, d

MCPlaces == [i \in Slot |-> IF i = a THEN 2 ELSE 1]
=============================================================================
