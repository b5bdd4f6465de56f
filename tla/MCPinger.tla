------------------------------ MODULE MCPinger ------------------------------
(* The pinger with the periods of the code.                                *)
EXTENDS Pinger
=============================================================================
