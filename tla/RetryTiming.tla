----------------------------- MODULE RetryTiming -----------------------------
(* The clocks of a retry: one event of the queue and its actions, with the  *)
(* backoff of the event, the backoff of each action, the lease of a claim,  *)
(* the time limit of a call and the poll of the workers over one explicit   *)
(* clock.  EventQueue and ActionExecutor let these times pass at any moment; *)
(* here is what their lengths guarantee.  Statements take no time, calls do. *)
EXTENDS Integers

CONSTANTS
    Workers,    \* the workers, of any number of processes
    Intents,    \* number of rules that may match: their actions, oldest first
    RetryLimits, \* the values webhook_events.max_retries may have
    MaxAttempts,\* actions.max_attempts
    Backoff1, Backoff2, Backoff3,  \* RetryBackoff: 1, 5 and 15 minutes
    Leases,     \* the values EVENT_PROCESSING_LEASE may have
    Timeout,    \* the time limit of a call of GitHub, Slack or the AI provider
    Poll,       \* a claimable event is claimed within this time
    MaxFaults   \* bound on crashes and failed statements

ASSUME TimesAssumption ==
    /\ {Intents, MaxAttempts} \subseteq Nat \ {0} /\ RetryLimits \subseteq Nat /\ MaxFaults \in Nat
    /\ {Backoff1, Backoff2, Backoff3, Timeout, Poll} \subseteq Nat
    /\ Backoff1 =< Backoff2 /\ Backoff2 =< Backoff3
    /\ Leases \subseteq Nat \ {0}
ASSUME WorkersAssumption == Workers # {}

VARIABLES
    clock,
    settings,   \* EVENT_PROCESSING_LEASE and max_retries
    event,      \* the row: status, retry_count, next_retry_at, locked_at
    actions,    \* the rows of its actions, by intent
    run,        \* the run of each worker
    faults,     \* number of crashes and failed statements so far
    lapsed      \* history: was the event taken over from a run under way?

vars == <<clock, settings, event, actions, run, faults, lapsed>>

Actions == 1..Intents

(* A time column that is NULL reads 0: no row waits for it.                *)
Absent == [status |-> "absent", attempts |-> 0, due |-> 0, born |-> 0]

NewAction(born) == [status |-> "pending", attempts |-> 0, due |-> 0, born |-> born]

(* A run: its copy of retry_count, its list of the actions, the call it is *)
(* at (0 is the AI suggestion) and since when, if that call is under way.  *)
Run(at, count) ==
    [at |-> at, retryCount |-> count, list |-> [i \in Actions |-> Absent], next |-> 0, since |-> 0]
Idle == Run("idle", 0)

Running(w) == run[w].at # "idle"
Calling(w) == run[w].at = "calling"

Init ==
    /\ clock = 0
    /\ settings \in [lease: Leases, maxRetries: RetryLimits]
    /\ event = [status |-> "pending", retryCount |-> 0, due |-> 0, lockedAt |-> 0]
    /\ actions = [i \in Actions |-> Absent]
    /\ run = [w \in Workers |-> Idle]
    /\ faults = 0
    /\ lapsed = FALSE

RetryBackoff(n) == IF n =< 1 THEN Backoff1 ELSE IF n = 2 THEN Backoff2 ELSE Backoff3

------------------------------------------------------------------------------
(* ClaimNext                                                               *)

\* Fault variant: a lease is over at its last moment.
StaleEarly == event.status = "processing" /\ event.lockedAt + settings.lease =< clock
Stale == event.status = "processing" /\ event.lockedAt + settings.lease < clock
Claimable == (event.status = "pending" /\ event.due =< clock) \/ Stale

\* Fault variant: one retry more.
ExhaustedLate(count) == count > settings.maxRetries
Exhausted(count) == count >= settings.maxRetries

(* The moment from which a waiting or a leased event can be claimed.       *)
ClaimableFrom == IF event.status = "pending" THEN event.due ELSE event.lockedAt + settings.lease + 1

Closed(count) == [status |-> "failed", retryCount |-> count, due |-> 0, lockedAt |-> 0]

ClaimCount == IF Stale THEN event.retryCount + 1 ELSE event.retryCount

Claim(w) ==
    LET count == ClaimCount
    IN  /\ ~Running(w) /\ Claimable
        /\ IF Stale /\ Exhausted(count)
           THEN event' = Closed(count) /\ UNCHANGED run
           ELSE /\ event' = [status |-> "processing", retryCount |-> count, due |-> 0, lockedAt |-> clock]
                /\ run' = [run EXCEPT ![w] = Run("claimed", count)]
        /\ lapsed' = (lapsed \/ \E v \in Workers: Running(v))
        /\ UNCHANGED <<clock, settings, actions, faults>>

(* Evaluate, CreateOrGet and ListByEventID: the rules of this moment match; *)
(* when an action on the list wants an AI suggestion it is asked for.       *)
EnsureActions(w) ==
    /\ run[w].at = "claimed"
    /\ \E matching \in SUBSET Actions, needsAI \in BOOLEAN:
        LET rows == [i \in Actions |-> IF i \in matching /\ actions[i] = Absent
                                       THEN NewAction(event.retryCount)
                                       ELSE actions[i]]
        IN  /\ actions' = rows
            /\ run' = [run EXCEPT ![w].list = rows,
                                  ![w].at = IF needsAI THEN "calling" ELSE "between",
                                  ![w].next = IF needsAI THEN 0 ELSE 1,
                                  ![w].since = clock]
    /\ UNCHANGED <<clock, settings, event, faults, lapsed>>

\* Fault variant: the loop goes on after the action behind the next.
AdvanceTwice(w) == run' = [run EXCEPT ![w].at = "between", ![w].next = @ + 2]
Advance(w) == run' = [run EXCEPT ![w].at = "between", ![w].next = @ + 1]

(* fetchSuggestion returns, whatever it brought.                           *)
SuggestionEnds(w) ==
    /\ Calling(w) /\ run[w].next = 0
    /\ Advance(w)
    /\ UNCHANGED <<clock, settings, event, actions, faults, lapsed>>

Due(a) == a.status = "pending" /\ a.due =< clock

Call(w, attempts) ==
    run' = [run EXCEPT ![w].at = "calling", ![w].since = clock, ![w].list[run[w].next].attempts = attempts]

(* The loop of EnsureAndExecute up to executeOne: an action left in         *)
(* processing is called again at once, one that is due is marked first.     *)
StartAction(w) ==
    LET i == run[w].next
        listed == run[w].list[i]
    IN  /\ run[w].at = "between" /\ i \in Actions
        /\ \/ /\ listed.status = "processing"
              /\ Call(w, listed.attempts)
              /\ UNCHANGED actions
           \/ /\ Due(listed) /\ Due(actions[i])
              /\ actions' = [actions EXCEPT ![i].status = "processing", ![i].due = 0]
              /\ Call(w, actions[i].attempts)
           \/ /\ listed.status # "processing" /\ ~(Due(listed) /\ Due(actions[i]))
              /\ Advance(w)
              /\ UNCHANGED actions
        /\ UNCHANGED <<clock, settings, event, faults, lapsed>>

\* Fault variant: the backoff of an action counts from its first failure.
ActionBackoffLate(attempts) == RetryBackoff(attempts + 2)
ActionBackoff(attempts) == RetryBackoff(attempts + 1)

Written(a, status, attempts, due) ==
    [status |-> status, attempts |-> attempts, due |-> due, born |-> a.born]

(* Actions.ScheduleRetry, with the backoff of the worker's copy.           *)
Retried(a, copy) ==
    IF a.attempts + 1 >= MaxAttempts
    THEN Written(a, "failed", a.attempts + 1, 0)
    ELSE Written(a, "pending", a.attempts + 1, clock + ActionBackoff(copy))

(* The call returns, at the latest at its time limit, and the outcome is   *)
(* written: MarkCompleted, MarkFailedImmediately or ScheduleRetry.  The     *)
(* first two miss a row that another run has taken out of processing, and   *)
(* the run ends with that error.                                            *)
ActionEnds(w) ==
    LET i == run[w].next
        row == actions[i]
    IN  /\ Calling(w) /\ i # 0
        /\ \/ \E outcome \in {Written(row, "completed", row.attempts, 0),
                              Written(row, "failed", row.attempts + 1, 0)}:
              IF row.status = "processing"
              THEN actions' = [actions EXCEPT ![i] = outcome] /\ Advance(w)
              ELSE run' = [run EXCEPT ![w].at = "failed"] /\ UNCHANGED actions
           \/ actions' = [actions EXCEPT ![i] = Retried(row, run[w].list[i].attempts)] /\ Advance(w)
        /\ UNCHANGED <<clock, settings, event, faults, lapsed>>

------------------------------------------------------------------------------
(* handleFailure and MarkProcessed                                         *)

\* Fault variant: the backoff of the last failure, not of this one.
EventBackoffStale(copy) == RetryBackoff(copy)
EventBackoff(copy) == RetryBackoff(copy + 1)

(* WebhookEvents.ScheduleRetry, with the backoff of the worker's copy.     *)
RetryEvent(copy) ==
    event' = IF Exhausted(event.retryCount + 1) THEN Closed(event.retryCount + 1)
             ELSE [status |-> "pending", retryCount |-> event.retryCount + 1,
                   due |-> clock + EventBackoff(copy), lockedAt |-> 0]

Settle(status) ==
    event' = IF event.status = "processing"
             THEN [event EXCEPT !.status = status, !.due = 0, !.lockedAt = 0] ELSE event

With(status) == {i \in Actions: actions[i].status = status}

RunEnds(w) ==
    /\ run[w].at = "failed" \/ (run[w].at = "between" /\ run[w].next \notin Actions)
    /\ IF run[w].at = "failed" \/ With("pending") \cup With("processing") # {}
       THEN RetryEvent(run[w].retryCount)
       ELSE Settle(IF With("failed") # {} THEN "failed" ELSE "processed")
    /\ run' = [run EXCEPT ![w] = Idle]
    /\ UNCHANGED <<clock, settings, actions, faults, lapsed>>

Fault == faults < MaxFaults /\ faults' = faults + 1

(* A statement of the run fails: the event is retried.                     *)
StatementFails(w) ==
    /\ Fault
    /\ Running(w) /\ run[w].at # "failed"
    /\ run' = [run EXCEPT ![w].at = "failed"]
    /\ UNCHANGED <<clock, settings, event, actions, lapsed>>

(* The process dies, or the statement that would settle the event fails.   *)
Crash(w) ==
    /\ Fault
    /\ Running(w)
    /\ run' = [run EXCEPT ![w] = Idle]
    /\ UNCHANGED <<clock, settings, event, actions, lapsed>>

------------------------------------------------------------------------------
Settled == event.status \in {"processed", "failed"} /\ \A w \in Workers: ~Running(w)

(* Time passes while calls are under way or nothing is to be done: a call  *)
(* ends at its time limit, and a free worker claims within a poll.         *)
Tick ==
    /\ ~Settled
    /\ \A w \in Workers: Running(w) => Calling(w) /\ clock < run[w].since + Timeout
    /\ event.status \in {"pending", "processing"} /\ (\E w \in Workers: ~Running(w))
       => clock < ClaimableFrom + Poll
    /\ clock' = clock + 1
    /\ UNCHANGED <<settings, event, actions, run, faults, lapsed>>

Done == Settled /\ UNCHANGED vars

Next ==
    \/ \E w \in Workers:
        \/ Claim(w) \/ EnsureActions(w) \/ SuggestionEnds(w) \/ StartAction(w)
        \/ ActionEnds(w) \/ RunEnds(w) \/ StatementFails(w) \/ Crash(w)
    \/ Tick
    \/ Done

Spec == Init /\ [][Next]_vars

------------------------------------------------------------------------------
Statuses == {"pending", "processing", "processed", "failed"}
Times == 0..clock + Backoff3
ActionRows == [status: {"absent", "pending", "processing", "completed", "failed"},
               attempts: Nat, due: Times, born: Nat]

TypeOK ==
    /\ settings \in [lease: Leases, maxRetries: RetryLimits]
    /\ clock \in Nat /\ lapsed \in BOOLEAN /\ faults \in 0..MaxFaults
    /\ event \in [status: Statuses, retryCount: Nat, due: Times, lockedAt: 0..clock]
    /\ actions \in [Actions -> ActionRows]
    /\ run \in [Workers -> [at: {"idle", "claimed", "between", "calling", "failed"},
                            retryCount: Nat, list: [Actions -> ActionRows],
                            next: 0..Intents + 1, since: 0..clock]]

(* The longest a run may be at its calls.                                  *)
RunTime == (Intents + 1) * Timeout

(* When an event comes up for its next claim, so do all its actions that    *)
(* wait: the retry of an event is claimed behind the backoffs of them all,  *)
(* and so is the takeover of a run that died, if the lease is as long as a  *)
(* run and the backoff at its end. Behind a shorter lease a takeover may    *)
(* find an action that still waits, and one retry of the event is spent     *)
(* without it. No run was taken over alive (executor.go:133 and :171,       *)
(* worker.go:142, webhook_events.go:165).                                   *)
BackoffCovered ==
    ~lapsed /\ \/ event.status = "pending"
               \/ /\ event.status = "processing"
                  /\ settings.lease >= RunTime + RetryBackoff(event.retryCount + 1)
        => \A i \in With("pending"): actions[i].due =< ClaimableFrom

(* Retries of the event that passed without a call of a waiting action.     *)
Missed(i) == event.retryCount - (actions[i].born + actions[i].attempts)

(* A crash or a failed statement costs an action at most one of the retries *)
(* of its event, and nothing else costs it any: not the takeover of a run   *)
(* that died behind the failure of an action, though it may come before the *)
(* action is due, so that it and the retry behind it both count. No run was *)
(* taken over alive (executor.go:133 and :171-182, worker.go:142-145,       *)
(* webhook_events.go:188-191).                                              *)
RetriesMissed ==
    ~lapsed /\ event.status \in {"pending", "failed"} =>
        \A i \in With("pending"): Missed(i) \in 0..faults

(* No run is taken over alive when the lease covers the time limits of its *)
(* calls, the suggestion and one call per action (webhook_events.go:165).  *)
LeaseCoversRun == settings.lease >= (Intents + 1) * Timeout => ~lapsed

(* The longest an event takes to be settled: each of its claims waits for  *)
(* a poll and ends by itself or by its lease, each but the last is followed *)
(* by its backoff, and the takeover that gives up waits for a poll, too.    *)
Longer(m, n) == IF m >= n THEN m ELSE n
ClaimTime == Poll + Longer(RunTime, settings.lease + 1)
Claims == Longer(1, settings.maxRetries)
BackoffSum(n) == IF n < 2 THEN n * Backoff1 ELSE Backoff1 + Backoff2 + (n - 2) * Backoff3
Deadline == Claims * ClaimTime + BackoffSum(Claims - 1) + Poll

(* Every event is settled by its deadline, through crashes, failed         *)
(* statements and runs that are taken over: no order of backoffs, leases    *)
(* and polls keeps it going (worker.go:99-155, webhook_events.go:128-316). *)
SettledByDeadline == clock =< Deadline

=============================================================================
