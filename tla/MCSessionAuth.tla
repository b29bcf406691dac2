---------------------------- MODULE MCSessionAuth ----------------------------
(* Instances of SessionAuth for TLC.                                       *)
EXTENDS SessionAuth, TLC

Interchangeable ==
    Permutations(Accounts) \cup Permutations(States) \cup Permutations(Tokens)
        \cup Permutations(Requests)

=============================================================================
