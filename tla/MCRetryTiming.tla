---------------------------- MODULE MCRetryTiming ----------------------------
(* Instances of RetryTiming for TLC.                                       *)
EXTENDS RetryTiming, TLC

CONSTANTS w1, w2

Interchangeable == Permutations(Workers)

=============================================================================
