-------------------------------- MODULE MCHotel -------------------------------
(* The instances of Hotel for TLC.  No symmetry: a run checks a liveness property. *)
EXTENDS Hotel
=============================================================================
