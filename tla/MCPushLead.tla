------------------------------ MODULE MCPushLead ------------------------------
(* A small instance of PushLead for TLC.  Jobs are not symmetric in a run that *)
(* checks a temporal property, so none is declared.                            *)
EXTENDS PushLead
===============================================================================
