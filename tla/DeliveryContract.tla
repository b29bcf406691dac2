-------------------------- MODULE DeliveryContract --------------------------
(***************************************************************************)
(* What the durable event queue promises of the GitHub deliveries it       *)
(* accepts, whatever workers, leases and database rows implement it:       *)
(*                                                                         *)
(*   - a delivery id is accepted once while its repository stays           *)
(*     connected, however often it is delivered, and with a fixed budget   *)
(*     of runs; the acceptance is an event;                                *)
(*   - an event is only ever run out of a waiting state or taken over from *)
(*     a run already under way, and never more often than its budget;      *)
(*   - it goes back to waiting only when a run is left in the budget;      *)
(*   - once the repository is disconnected it is gone and never runs       *)
(*     again.                                                              *)
(*                                                                         *)
(* The budget is max_retries, or one run when max_retries is 0.            *)
(***************************************************************************)
EXTENDS Naturals

CONSTANTS
    Events,     \* the identities the acceptance of a delivery may get
    Deliveries, \* the delivery ids
    Budgets,    \* the run budgets an event may get, positive numbers
    None        \* "no delivery"

VARIABLES
    phase,      \* [Events -> Phases]
    delivery,   \* [Events -> Deliveries \cup {None}]: what the event accepted
    tries,      \* [Events -> Nat]: how often the pipeline was started on it
    budget      \* [Events -> Budgets \cup {0}]

contractVars == <<phase, delivery, tries, budget>>

Phases == {"none", "waiting", "running", "closed", "gone"}

ContractInit ==
    /\ phase = [e \in Events |-> "none"]
    /\ delivery = [e \in Events |-> None]
    /\ tries = [e \in Events |-> 0]
    /\ budget = [e \in Events |-> 0]

\* Is the acceptance of the id still on record, settled or not?
OnRecord(d) == \E e \in Events : phase[e] \notin {"none", "gone"} /\ delivery[e] = d

Accept(e, d) ==
    /\ phase[e] = "none"
    /\ ~OnRecord(d)
    /\ phase' = [phase EXCEPT ![e] = "waiting"]
    /\ delivery' = [delivery EXCEPT ![e] = d]
    /\ \E b \in Budgets : budget' = [budget EXCEPT ![e] = b]
    /\ UNCHANGED tries

\* A run starts, from waiting or as the takeover of a run that seems lost.
Try(e) ==
    /\ phase[e] \in {"waiting", "running"}
    /\ tries[e] < budget[e]
    /\ phase' = [phase EXCEPT ![e] = "running"]
    /\ tries' = [tries EXCEPT ![e] = @ + 1]
    /\ UNCHANGED <<delivery, budget>>

\* A run that failed for the moment puts the event back. The run may be one
\* that was taken over: the event may be closed by then.
Retry(e) ==
    /\ phase[e] \in {"waiting", "running", "closed"}
    /\ tries[e] \in 1 .. budget[e] - 1
    /\ phase' = [phase EXCEPT ![e] = "waiting"]
    /\ UNCHANGED <<delivery, tries, budget>>

Close(e) ==
    /\ phase[e] \in {"waiting", "running"}
    /\ tries[e] > 0
    /\ phase' = [phase EXCEPT ![e] = "closed"]
    /\ UNCHANGED <<delivery, tries, budget>>

\* Disconnecting the repository drops every event it ever had.
DropAll ==
    /\ phase' = [e \in Events |-> IF phase[e] = "none" THEN "none" ELSE "gone"]
    /\ UNCHANGED <<delivery, tries, budget>>

ContractNext ==
    \/ \E e \in Events : (\E d \in Deliveries : Accept(e, d)) \/ Try(e) \/ Retry(e) \/ Close(e)
    \/ DropAll

ContractSpec == ContractInit /\ [][ContractNext]_contractVars
=============================================================================
