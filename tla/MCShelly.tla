------------------------------ MODULE MCShelly ------------------------------
(***************************************************************************)
(* Small instances of Shelly.  The limit of the health check is 1 instead  *)
(* of unhealthyCountLimit = 5: it only delays the discovery.               *)
(***************************************************************************)
EXTENDS Shelly

=============================================================================
