--------------------------- MODULE MCSingleFlight ---------------------------
(***************************************************************************)
(* An instance of SingleFlight: its callers are interchangeable, and so are  *)
(* its Lazy objects.                                                        *)
(***************************************************************************)
EXTENDS SingleFlight, TLC

MCSymmetry == Permutations(Callers) \cup Permutations(Flights) \cup Permutations(Keys)
=============================================================================
