---------------------------- MODULE MC_AppendLog ----------------------------
(* Instances of AppendLog for TLC; the configurations give the bounds.      *)
EXTENDS AppendLog
=============================================================================
