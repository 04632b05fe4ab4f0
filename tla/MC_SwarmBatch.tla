---------------------------- MODULE MC_SwarmBatch ----------------------------
(* A small swarm for TLC; task names in the order SetToSeq gives them. *)
EXTENDS SwarmBatch
MCTasks == 1..3
=============================================================================
