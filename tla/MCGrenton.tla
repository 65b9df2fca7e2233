----------------------------- MODULE MCGrenton -----------------------------
(***************************************************************************)
(* Small instances of Grenton.  A request may last one tick, and an answer *)
(* is fresh for two: grentonNetClientTimeout is less than a quarter of     *)
(* grentonObjectFreshness.                                                 *)
(***************************************************************************)
EXTENDS Grenton

=============================================================================
