---------------------------- MODULE MCPushInput ----------------------------
(***************************************************************************)
(* PushInput with the intervals of the code, in units of 15 ms.            *)
(***************************************************************************)
EXTENDS PushInput

=============================================================================
