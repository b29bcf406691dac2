------------------------- MODULE MCRepositoryConnect -------------------------
(* Instances of RepositoryConnect for TLC.                                 *)
EXTENDS RepositoryConnect, TLC

CONSTANTS u1, u2, g1, g2, d1, d2

\* One delivery for each of the two repositories, or both for one of them.
DeliveryEach == (d1 :> g1) @@ (d2 :> g2)

Interchangeable == Permutations(Users) \cup Permutations(RuleIds) \cup Permutations(Requests)

=============================================================================
