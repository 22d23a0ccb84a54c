---------------------------- MODULE MCVehicles ----------------------------
(* Small instances of Vehicles for TLC. *)
EXTENDS Vehicles
=============================================================================
