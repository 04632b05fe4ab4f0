------------------------------ MODULE MC_PromptDeferred -----------------------
(* The same agent, with a history of which prompts were deferred. *)
EXTENDS MC_Prompt

VARIABLE deferred   \* history: prompts submitted while a compaction ran
watched == <<vars, deferred>>

WatchInit == Init /\ deferred = {}
WatchNext ==
  /\ Next
  /\ deferred' = IF compacting = None THEN deferred
                 ELSE deferred \union {p \in Prompts : state[p] = "new" /\ state'[p] # "new"}
WatchSpec == WatchInit /\ [][WatchNext]_watched

(* A prompt submitted while the agent compacts is deferred and replayed      *)
(* (fullCompaction.test.ts): it fails only by its own launch or in a turn,   *)
(* never because a launcher met a compaction.                                *)
DeferredIsReplayed ==
  [][\A p \in deferred : state[p] = "pending" /\ state'[p] = "failed" =>
       launching = p]_watched
=============================================================================
