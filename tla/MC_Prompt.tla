------------------------------ MODULE MC_Prompt ------------------------------
(* A small agent for TLC: one turn of another service. *)
EXTENDS Prompt
Others == {10}
=============================================================================
