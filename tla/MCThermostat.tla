---------------------------- MODULE MCThermostat ----------------------------
(***************************************************************************)
(* Small instances of Thermostat.  With thresholds of 1, a reading of 0 is *)
(* below the band of every target, 4 is above the band of target 2 and     *)
(* inside that of target 4.                                                *)
(***************************************************************************)
EXTENDS Thermostat, TLC

MCReadings == {0, 4}
MCTargets == {2, 4}

\* The HomeKit connections are interchangeable.
MCSymmetry == Permutations(HkClients)

=============================================================================
