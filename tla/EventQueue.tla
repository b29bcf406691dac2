----------------------------- MODULE EventQueue -----------------------------
(***************************************************************************)
(* The durable event queue of the backend: the webhook_events table, the   *)
(* ingestion of GitHub deliveries into it, the workers that claim its rows *)
(* and settle them, and the connection of the one repository that owns the *)
(* rows.                                                                   *)
(*                                                                         *)
(* One action is one committed statement or transaction, except for the    *)
(* claim, whose SELECT ... FOR UPDATE SKIP LOCKED and whose UPDATE are two *)
(* steps (SelectClaimable, then Claim or FailStale): in between the worker *)
(* holds the row's lock and the copy it read.                              *)
(*                                                                         *)
(* Abstracted: event type, payload and error texts; the clock, of which    *)
(* only "the backoff has elapsed" and "the lease has expired" are kept; the *)
(* pipeline, of which only the three outcomes are kept (success, transient *)
(* error, permanent error; ActionExecutor models what it does).            *)
(***************************************************************************)
EXTENDS Naturals, FiniteSets

CONSTANTS
    MaxRows,        \* bound: rows ever inserted into webhook_events
    Deliveries,     \* X-GitHub-Delivery ids
    Workers,        \* worker goroutines, over all server processes
    RetryLimits,    \* the values EVENT_MAX_RETRIES has over the deployments
    None            \* "no delivery" and "no row"

ASSUME RowsAssumption == MaxRows \in Nat
ASSUME WorkersAssumption == IsFiniteSet(Workers)
ASSUME LimitsAssumption == RetryLimits \subseteq Nat
ASSUME NoneAssumption == None \notin Deliveries /\ None \notin Nat

\* Rows are named by their rank in created_at order.
EventIds == 1 .. MaxRows

VARIABLES
    connected,      \* is the repository connected (has it a repositories row)?
    events,         \* [EventIds -> Row]: the webhook_events table
    workers,        \* [Workers -> Local]: each worker's local state
    claims,         \* history: [EventIds -> Nat], committed claims of the row
    lapsed          \* history: [EventIds -> BOOLEAN], did a lease ever expire?

vars == <<connected, events, workers, claims, lapsed>>

\* "absent" is a row not inserted yet, "deleted" one that was deleted.
Row == [status        : {"absent", "pending", "processing", "processed",
                         "failed", "deleted"},
        delivery      : Deliveries \cup {None},
        retry_count   : Nat,
        max_retries   : Nat,
        next_retry_at : {"null", "future", "past"},
        locked_at     : {"null", "fresh", "stale"}]

\* status and retry_count: the copy of the row's columns that ClaimNext read.
Local == [pc          : {"idle", "selected", "working"},
          event       : EventIds \cup {None},
          status      : {"pending", "processing", "none"},
          retry_count : Nat]

AbsentRow == [status |-> "absent", delivery |-> None, retry_count |-> 0,
              max_retries |-> 0, next_retry_at |-> "null", locked_at |-> "null"]

Idle == [pc |-> "idle", event |-> None, status |-> "none", retry_count |-> 0]

\* What the INSERT, the UPDATEs and the cascading DELETE make of a row.
Inserted(d, limit) == [AbsentRow EXCEPT !.status = "pending", !.delivery = d,
                                        !.max_retries = limit]

Leased(row, n) == [row EXCEPT !.status = "processing", !.retry_count = n,
                              !.locked_at = "fresh", !.next_retry_at = "null"]

BackedOff(row, n) == [row EXCEPT !.status = "pending", !.retry_count = n,
                                 !.locked_at = "null", !.next_retry_at = "future"]

Closed(row, s, n) == [row EXCEPT !.status = s, !.retry_count = n,
                                 !.locked_at = "null", !.next_retry_at = "null"]

Deleted(row) == [row EXCEPT !.status = "deleted"]

Live(e) == events[e].status \notin {"absent", "deleted"}

Init ==
    /\ connected = FALSE
    /\ events = [e \in EventIds |-> AbsentRow]
    /\ workers = [w \in Workers |-> Idle]
    /\ claims = [e \in EventIds |-> 0]
    /\ lapsed = [e \in EventIds |-> FALSE]

-----------------------------------------------------------------------------
(* Row locks. A worker between the SELECT FOR UPDATE and the commit of its *)
(* claim holds the lock of the row it read; everybody else's UPDATE or     *)
(* DELETE of that row waits, and everybody else's SELECT skips it.         *)

\* Fault variant: the SELECT without FOR UPDATE, which locks nothing.
RowNeverLocked(e) == Live(e) /\ FALSE

RowLocked(e) == \E w \in Workers : workers[w].pc = "selected" /\ workers[w].event = e

-----------------------------------------------------------------------------
(* Connection and ingestion.                                               *)

Connect ==
    /\ ~connected
    /\ connected' = TRUE
    /\ UNCHANGED <<events, workers, claims, lapsed>>

\* Deleting the repositories row deletes its events in cascade.
Disconnect ==
    /\ connected
    /\ \A e \in EventIds : ~RowLocked(e)
    /\ connected' = FALSE
    /\ events' = [e \in EventIds |->
                    IF Live(e) THEN Deleted(events[e]) ELSE events[e]]
    /\ UNCHANGED <<workers, claims, lapsed>>

\* Rows are inserted in the order of their names.
NextRow(e) == /\ events[e].status = "absent"
              /\ \A f \in 1 .. e - 1 : events[f].status # "absent"

\* Fault variant: the id is looked for among the rows still to be run only.
NotWaiting(d) ==
    \A f \in EventIds : ~(events[f].status \in {"pending", "processing"}
                          /\ events[f].delivery = d)

\* The UNIQUE constraint on delivery_id.
NotReceived(d) == \A f \in EventIds : ~(Live(f) /\ events[f].delivery = d)

\* A delivery for the connected repository is inserted as a pending row,
\* unless the UNIQUE constraint finds its id in the table: that one is
\* answered "already_received", and one for no connected repository
\* "ignored", both without effect.
Ingest(d, e) ==
    /\ connected
    /\ NotReceived(d)
    /\ NextRow(e)
    /\ \E limit \in RetryLimits :
         events' = [events EXCEPT ![e] = Inserted(d, limit)]
    /\ UNCHANGED <<connected, workers, claims, lapsed>>

-----------------------------------------------------------------------------
(* Claiming: ClaimNext and claimOne.                                       *)

\* Fault variant: rows left in processing are never reclaimed.
PendingDue(e) == events[e].status = "pending" /\ events[e].next_retry_at # "future"

Claimable(e) ==
    \/ events[e].status = "pending" /\ events[e].next_retry_at # "future"
    \/ events[e].status = "processing" /\ events[e].locked_at = "stale"

\* The oldest claimable row that nobody else has locked.
SelectClaimable(w) ==
    /\ workers[w].pc = "idle"
    /\ \E e \in EventIds :
         /\ Claimable(e) /\ ~RowLocked(e)
         /\ \A f \in 1 .. e - 1 : Claimable(f) => RowLocked(f)
         /\ workers' = [workers EXCEPT ![w] =
                          [pc |-> "selected", event |-> e,
                           status |-> events[e].status,
                           retry_count |-> events[e].retry_count]]
    /\ UNCHANGED <<connected, events, claims, lapsed>>

\* Fault variants: a count that goes down, and one that stays.
PreviousRetryCount(n) == n - 1
SameRetryCount(n) == n

NextRetryCount(n) == n + 1

Exhausted(n, limit) == n >= limit

\* Taking over an expired lease counts as a retry; a first claim does not.
ClaimCount(w) == IF workers[w].status = "processing"
                 THEN NextRetryCount(workers[w].retry_count)
                 ELSE workers[w].retry_count

\* A row whose expired lease was its last attempt is failed, and ClaimNext
\* looks for another one.
FailStale(w) ==
    LET e == workers[w].event IN
    /\ workers[w].pc = "selected"
    /\ workers[w].status = "processing"
    /\ Exhausted(ClaimCount(w), events[e].max_retries)
    /\ events' = [events EXCEPT ![e] = Closed(@, "failed", ClaimCount(w))]
    /\ workers' = [workers EXCEPT ![w] = Idle]
    /\ UNCHANGED <<connected, claims, lapsed>>

Claim(w) ==
    LET e == workers[w].event IN
    /\ workers[w].pc = "selected"
    /\ workers[w].status = "processing" => ~Exhausted(ClaimCount(w), events[e].max_retries)
    /\ events' = [events EXCEPT ![e] = Leased(@, ClaimCount(w))]
    /\ workers' = [workers EXCEPT ![w].pc = "working"]
    /\ claims' = [claims EXCEPT ![e] = @ + 1]
    /\ UNCHANGED <<connected, lapsed>>

-----------------------------------------------------------------------------
(* Settling: processOne and handleFailure, after the pipeline's outcome.   *)
(* Nothing ties the statement to the worker's own claim: it names the row. *)

Processing(e) == events[e].status = "processing"

\* The statement of a worker that is done with the row waits for its lock.
MaySettle(w) == workers[w].pc = "working" /\ ~RowLocked(workers[w].event)

\* The pipeline succeeded. On a row not in processing: ErrNotFound, logged.
MarkProcessed(w) ==
    LET e == workers[w].event IN
    /\ MaySettle(w)
    /\ events' = IF Processing(e)
                 THEN [events EXCEPT ![e] = Closed(@, "processed", @.retry_count)]
                 ELSE events
    /\ workers' = [workers EXCEPT ![w] = Idle]
    /\ UNCHANGED <<connected, claims, lapsed>>

\* The pipeline failed for good. On a row not in processing: ErrNotFound.
MarkFailedImmediately(w) ==
    LET e == workers[w].event IN
    /\ MaySettle(w)
    /\ events' = IF Processing(e)
                 THEN [events EXCEPT ![e] = Closed(@, "failed", @.retry_count)]
                 ELSE events
    /\ workers' = [workers EXCEPT ![w] = Idle]
    /\ UNCHANGED <<connected, claims, lapsed>>

\* The pipeline failed for the moment. The row is read and written whatever
\* its status; only a deleted one is not found. The retry count is that of
\* the row now, not the claimed copy.
ScheduleRetry(w) ==
    LET e == workers[w].event
        n == NextRetryCount(events[e].retry_count) IN
    /\ MaySettle(w)
    /\ events' =
         IF ~Live(e) THEN events
         ELSE IF Exhausted(n, events[e].max_retries)
         THEN [events EXCEPT ![e] = Closed(@, "failed", n)]
         ELSE [events EXCEPT ![e] = BackedOff(@, n)]
    /\ workers' = [workers EXCEPT ![w] = Idle]
    /\ UNCHANGED <<connected, claims, lapsed>>

-----------------------------------------------------------------------------
(* Faults and time.                                                        *)

\* The worker's process dies, its context is cancelled, or its statement
\* fails: a claim not yet committed rolls back, a row in processing stays.
Crash(w) ==
    /\ workers[w].pc # "idle"
    /\ workers' = [workers EXCEPT ![w] = Idle]
    /\ UNCHANGED <<connected, events, claims, lapsed>>

\* The lease runs out, whether its worker is dead or only slow: nothing
\* renews locked_at while the pipeline runs.
LeaseExpires(e) ==
    /\ Processing(e)
    /\ events[e].locked_at = "fresh"
    /\ events' = [events EXCEPT ![e] = [@ EXCEPT !.locked_at = "stale"]]
    /\ lapsed' = [lapsed EXCEPT ![e] = TRUE]
    /\ UNCHANGED <<connected, workers, claims>>

BackoffElapses(e) ==
    /\ events[e].status = "pending"
    /\ events[e].next_retry_at = "future"
    /\ events' = [events EXCEPT ![e] = [@ EXCEPT !.next_retry_at = "past"]]
    /\ UNCHANGED <<connected, workers, claims, lapsed>>

-----------------------------------------------------------------------------
Settle(w) == MarkProcessed(w) \/ MarkFailedImmediately(w) \/ ScheduleRetry(w)

Next ==
    \/ Connect
    \/ Disconnect
    \/ \E d \in Deliveries, e \in EventIds : Ingest(d, e)
    \/ \E w \in Workers : \/ SelectClaimable(w)
                          \/ FailStale(w)
                          \/ Claim(w)
                          \/ MarkProcessed(w)
                          \/ MarkFailedImmediately(w)
                          \/ ScheduleRetry(w)
                          \/ Crash(w)
    \/ \E e \in EventIds : LeaseExpires(e) \/ BackoffElapses(e)

Spec == Init /\ [][Next]_vars

-----------------------------------------------------------------------------
(* Properties.                                                             *)

\* The types of the table, of the workers' copies and of the history.
TypeOK ==
    /\ connected \in BOOLEAN
    /\ events \in [EventIds -> Row]
    /\ workers \in [Workers -> Local]
    /\ claims \in [EventIds -> Nat]
    /\ lapsed \in [EventIds -> BOOLEAN]

\* How often the pipeline may start on an event: once for the delivery and
\* once per retry, the last retry being the one that fails the row.
RunBudget(limit) == IF limit = 0 THEN 1 ELSE limit

\* However often workers crash, run past their lease and settle rows they no
\* longer hold, an event is claimed at most max_retries times (once when 0):
\* the bound on retries of ScheduleRetry and of the stale reclaim together.
ClaimBudget == \A e \in EventIds : claims[e] <= RunBudget(events[e].max_retries)

WorksOn(w, e) == workers[w].pc = "working" /\ workers[w].event = e

\* Two workers run the pipeline of one event at the same time only if a
\* lease on it once expired: SKIP LOCKED and the status guard exclude it
\* otherwise.
OverlapOnlyAfterLapse ==
    \A e \in EventIds, v, w \in Workers :
        v # w /\ WorksOn(v, e) /\ WorksOn(w, e) => lapsed[e]

\* A row failed by exhausting its retries stays failed until it is deleted,
\* also when a worker that was presumed dead settles it afterwards.
ExhaustedKept ==
    \A e \in EventIds :
        /\ events[e].status = "failed"
        /\ events[e].retry_count >= events[e].max_retries
        => events'[e].status \in {"failed", "deleted"}

ExhaustedStaysFailed == [][ExhaustedKept]_vars

\* Every accepted delivery ends processed, failed or deleted for good, with
\* workers crashing in any step and leases expiring at any time.
Settles ==
    \A e \in EventIds : <>[](events[e].status \notin {"pending", "processing"})

\* The rows seen as events of DeliveryContract.
PhaseOf(row) == CASE row.status = "absent"     -> "none"
                  [] row.status = "pending"    -> "waiting"
                  [] row.status = "processing" -> "running"
                  [] row.status = "deleted"    -> "gone"
                  [] OTHER                     -> "closed"

BudgetOf(row) == IF row.status = "absent" THEN 0 ELSE RunBudget(row.max_retries)

phases == [e \in EventIds |-> PhaseOf(events[e])]
accepted == [e \in EventIds |-> events[e].delivery]
budgets == [e \in EventIds |-> BudgetOf(events[e])]

Contract == INSTANCE DeliveryContract WITH
    Events   <- EventIds,
    Budgets  <- {RunBudget(limit) : limit \in RetryLimits},
    phase    <- phases,
    delivery <- accepted,
    tries    <- claims,
    budget   <- budgets

\* The table implements the contract: a delivery id is accepted once while its
\* repository stays connected, redelivered or not, settled or not; its event is
\* run within its budget, never again once closed unless a retry is left, and
\* never again after the repository is disconnected.
ImplementsContract == Contract!ContractSpec

=============================================================================
