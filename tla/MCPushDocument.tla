---------------------------- MODULE MCPushDocument ----------------------------
(* A small instance of PushDocument for TLC. *)
EXTENDS PushDocument
===============================================================================
