------------------------------ MODULE MCIoLoop ------------------------------
(***************************************************************************)
(* Small installations for IoLoop.  Every wall switch drives all lights;   *)
(* a single press of a button toggles all lights and outlets, a double     *)
(* press the outlets, and a long press is bound to nothing.                *)
(***************************************************************************)
EXTENDS IoLoop, SequencesExt

MCSwitchSlice == [s \in Switches |-> SetToSeq(Lights)]

MCToggleMap == [b \in Buttons |-> [e \in PushEvents |->
    CASE e = 0 -> SetToSeq(Lights) \o SetToSeq(Outlets)
      [] e = 1 -> SetToSeq(Outlets)
      [] e = 2 -> <<>>]]

MCSyncOrder == SetToSeq(Lights) \o SetToSeq(Switches) \o SetToSeq(Outlets)
               \o SetToSeq(Motions)

=============================================================================
