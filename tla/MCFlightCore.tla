---------------------------- MODULE MCFlightCore ----------------------------
(* The flight core for TLC *)
EXTENDS FlightCore
=============================================================================
