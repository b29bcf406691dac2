-------------------------- MODULE MCActionExecutor --------------------------
(* Instances of ActionExecutor for TLC.                                    *)
EXTENDS ActionExecutor, TLC

\* Workers and intents are interchangeable where no liveness is checked.
Interchangeable == Permutations(Workers) \cup Permutations(Intents)

=============================================================================
