---------------------------- MODULE MCLogsPipeline ----------------------------
(* Small instances of LogsPipeline for TLC. *)
EXTENDS LogsPipeline

DeadlineOnly == {"deadline"}
EveryFault == {"timeout", "deadline", "panic"}
=============================================================================
