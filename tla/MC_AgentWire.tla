---------------------------- MODULE MC_AgentWire ----------------------------
(* Instances of AgentWire for TLC.                                          *)
EXTENDS AgentWire
MCRecords == 1..3
=============================================================================
