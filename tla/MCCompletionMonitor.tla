-------------------------- MODULE MCCompletionMonitor --------------------------
(* Values of the constants of CompletionMonitor for TLC. *)
EXTENDS CompletionMonitor

CONSTANTS a1, a2

MCAccounts == {a1, a2}
=============================================================================
