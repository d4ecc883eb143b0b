-------------------------- MODULE MCClimateFixed --------------------------
(* A small instance of ClimateFixed for TLC. *)
EXTENDS MCClimate, ClimateFixed
=============================================================================
