---------------------------- MODULE MCEventQueue ----------------------------
(* Instances of EventQueue for TLC.                                        *)
EXTENDS EventQueue, TLC

\* Workers and deliveries are interchangeable where no liveness is checked.
Interchangeable == Permutations(Workers) \cup Permutations(Deliveries)

=============================================================================
