----------------------------- MODULE MCSensors -----------------------------
(***************************************************************************)
(* A small instance of Sensors: two 1-wire sensors and one of the database *)
(* with the series that it matches.                                        *)
(***************************************************************************)
EXTENDS Sensors, TLC

CONSTANTS attic, cellar, hall, s1

Tags == (hall :> {s1})

=============================================================================
