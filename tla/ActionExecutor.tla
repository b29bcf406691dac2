--------------------------- MODULE ActionExecutor ---------------------------
(***************************************************************************)
(* The pipeline a worker runs on the event it claimed: Processor.Process   *)
(* (validate, match the rules, one intent per matching rule) and           *)
(* Executor.EnsureAndExecute (persist the intents as actions, run the      *)
(* ready ones against GitHub or Slack, tally), over EventQueue, whose      *)
(* workers, leases and retries it drives.                                  *)
(*                                                                         *)
(* One action is one statement on the actions table or one call of an      *)
(* external API; the worker's local state between two of them is exec.     *)
(*                                                                         *)
(* Abstracted: what the actions say (labels, comments, texts, AI           *)
(* suggestions); the order of an event's actions, which created_at fixes   *)
(* and which is left open here; the rules, which users edit at any time,   *)
(* so that any set of them may match in any run of an event; the clock of  *)
(* an action's backoff, which may run out at any time.                     *)
(***************************************************************************)
EXTENDS EventQueue

CONSTANTS
    Intents,        \* the pairs of a rule and its action type
    MaxAttempts,    \* ACTION_MAX_RETRIES (0 stands for 3 in the executor)
    Faults          \* which of FaultKinds happen

\* crash: a process dies.  slow: a run outlives its lease.  lost: a call takes
\* effect but its answer does not arrive.  db: a statement fails.
FaultKinds == {"crash", "slow", "lost", "db"}

ASSUME AttemptsAssumption == MaxAttempts \in Nat \ {0}
ASSUME FaultsAssumption == Faults \subseteq FaultKinds
ASSUME IntentsAssumption == None \notin Intents

VARIABLES
    actions,        \* [EventIds -> [Intents -> ActionRow]]: the actions table,
                    \* by the two parts of the idempotency key
    exec,           \* [Workers -> Run]: the local state of each worker's run
    calls,          \* history: [EventIds -> [Intents -> Nat]], API calls made
    effects,        \* history: the same, calls that took effect
    windows         \* history: the same, effects whose record was cut off by a
                    \* crash or a failed statement

actionVars == <<actions, calls, effects, windows>>
execVars == <<vars, actionVars, exec>>

\* due: next_retry_at is NULL or past.
ActionRow == [status        : {"absent", "pending", "processing", "completed", "failed"},
              attempt_count : Nat,
              due           : BOOLEAN]

\* todo: the intents still to persist, then the listed actions still to run;
\* listed: those of them that were listed as processing; current: the action
\* being run; result: of its call, and in the end of the whole run.
Run == [pc      : {"off", "loading", "ensuring", "listing", "running",
                   "calling", "reporting", "done"},
        todo    : SUBSET Intents,
        listed  : SUBSET Intents,
        current : Intents \cup {None},
        result  : {"none", "ok", "transient", "permanent"}]

NoAction == [status |-> "absent", attempt_count |-> 0, due |-> TRUE]

Off == [pc |-> "off", todo |-> {}, listed |-> {}, current |-> None, result |-> "none"]

\* Fault variant: the run's end is recorded as no run.
DroppedRun(result) == [Off EXCEPT !.result = result]

Done(result) == [Off EXCEPT !.pc = "done", !.result = result]

Zeros == [e \in EventIds |-> [i \in Intents |-> 0]]

ExecInit ==
    /\ Init
    /\ actions = [e \in EventIds |-> [i \in Intents |-> NoAction]]
    /\ exec = [w \in Workers |-> Off]
    /\ calls = Zeros
    /\ effects = Zeros
    /\ windows = Zeros

\* A worker's own event; a run at pc p goes on as run.
Own(w) == workers[w].event
At(w, p) == exec[w].pc = p
Goto(w, run) == exec' = [exec EXCEPT ![w] = run]

\* The rows of an event's actions; its deletion deletes them in cascade.
Exists(e, i) == Live(e) /\ actions[e][i].status # "absent"
Update(e, i, row) == actions' = [actions EXCEPT ![e][i] = row]

-----------------------------------------------------------------------------
(* Processor.Process up to the executor.                                   *)

\* Validation, extraction of the event's context and the rules: a permanent
\* error when the repository is gone or the payload does not fit it, else
\* some of the rules match.
LoadRules(w) ==
    /\ At(w, "loading")
    /\ \/ Goto(w, Done("permanent"))
       \/ /\ Live(Own(w))
          /\ \E matched \in SUBSET Intents :
               Goto(w, [Off EXCEPT !.pc = "ensuring", !.todo = matched])
    /\ UNCHANGED <<vars, actionVars>>

-----------------------------------------------------------------------------
(* Executor.EnsureAndExecute.                                              *)

\* CreateOrGet: the UNIQUE idempotency key makes a second insert find the
\* first. The insert fails when the event or the rule was deleted meanwhile.
CreateOrGet(w) ==
    /\ At(w, "ensuring")
    /\ \E i \in exec[w].todo :
         \/ /\ Live(Own(w))
            /\ IF Exists(Own(w), i)
               THEN UNCHANGED actions
               ELSE Update(Own(w), i, [NoAction EXCEPT !.status = "pending"])
            /\ Goto(w, [exec[w] EXCEPT !.todo = @ \ {i}])
         \/ /\ Goto(w, Done("transient"))
            /\ UNCHANGED actions
    /\ UNCHANGED <<vars, calls, effects, windows>>

Persisted(w) ==
    /\ At(w, "ensuring") /\ exec[w].todo = {}
    /\ Goto(w, [exec[w] EXCEPT !.pc = "listing"])
    /\ UNCHANGED <<vars, actionVars>>

\* Fault variant: the listing takes completed actions for unfinished ones.
StillListed(row) == row.status \in {"pending", "processing", "completed"}

\* What a run picks from the list: an action another run left in processing,
\* or a pending one whose backoff is over.
Ready(row) == \/ row.status = "processing"
              \/ row.status = "pending" /\ row.due

\* ListByEventID and the repository's row. No action at all: nothing to do.
ListByEventID(w) ==
    LET e == Own(w)
        ready == {i \in Intents : Exists(e, i) /\ Ready(actions[e][i])} IN
    /\ At(w, "listing")
    /\ IF \E i \in Intents : Exists(e, i)
       THEN Goto(w, [Off EXCEPT !.pc = "running",
                                !.todo = ready,
                                !.listed = {i \in ready : actions[e][i].status # "pending"}])
       ELSE \/ Goto(w, Done("ok"))
            \/ ~Live(e) /\ Goto(w, Done("transient"))
    /\ UNCHANGED <<vars, actionVars>>

\* Fault variant: an action that was run stays on the list.
WithSame(w, i) == exec[w].todo

\* The list goes on behind the action.
Without(w, i) == exec[w].todo \ {i}

PendingDueAction(e, i) ==
    Exists(e, i) /\ actions[e][i].status = "pending" /\ actions[e][i].due

\* An action listed as pending is claimed first, and passed over when it is
\* not pending and due any more; one listed as processing is run at once.
MarkProcessing(w) ==
    LET e == Own(w) IN
    /\ At(w, "running")
    /\ \E i \in exec[w].todo :
         \/ /\ i \notin exec[w].listed
            /\ PendingDueAction(e, i)
            /\ Update(e, i, [actions[e][i] EXCEPT !.status = "processing"])
            /\ Goto(w, [exec[w] EXCEPT !.pc = "calling", !.todo = Without(w, i), !.current = i])
         \/ /\ i \notin exec[w].listed
            /\ ~PendingDueAction(e, i)
            /\ Goto(w, [exec[w] EXCEPT !.todo = Without(w, i)])
            /\ UNCHANGED actions
         \/ /\ i \in exec[w].listed
            /\ Goto(w, [exec[w] EXCEPT !.pc = "calling", !.todo = Without(w, i), !.current = i])
            /\ UNCHANGED actions
    /\ UNCHANGED <<vars, calls, effects, windows>>

\* executeOne: the call succeeds, fails for good (4xx, bad configuration), or
\* for the moment (network, 429, 5xx); a lost one took effect all the same.
ExecuteOne(w) ==
    LET e == Own(w)
        i == exec[w].current IN
    /\ At(w, "calling")
    /\ \E result \in {"ok", "transient", "permanent"}, applied \in BOOLEAN :
         /\ \/ applied = (result = "ok")
            \/ "lost" \in Faults /\ result = "transient" /\ applied
         /\ Goto(w, [exec[w] EXCEPT !.pc = "reporting", !.result = result])
         /\ effects' = [effects EXCEPT ![e][i] = IF applied THEN @ + 1 ELSE @]
    /\ calls' = [calls EXCEPT ![e][i] = @ + 1]
    /\ UNCHANGED <<vars, actions, windows>>

NextAction(w) == Goto(w, [exec[w] EXCEPT !.pc = "running", !.current = None, !.result = "none"])

\* MarkCompleted, when the call succeeded.
MarkCompleted(w) ==
    LET e == Own(w)
        i == exec[w].current IN
    /\ At(w, "reporting") /\ exec[w].result = "ok"
    /\ IF Exists(e, i) /\ actions[e][i].status = "processing"
       THEN Update(e, i, [actions[e][i] EXCEPT !.status = "completed"]) /\ NextAction(w)
       ELSE UNCHANGED actions /\ Goto(w, Done("transient"))
    /\ UNCHANGED <<vars, calls, effects, windows>>

\* The store's MarkFailedImmediately, when the call failed for good.
FailAction(w) ==
    LET e == Own(w)
        i == exec[w].current IN
    /\ At(w, "reporting") /\ exec[w].result = "permanent"
    /\ IF Exists(e, i) /\ actions[e][i].status = "processing"
       THEN /\ Update(e, i, [actions[e][i] EXCEPT !.status = "failed", !.attempt_count = @ + 1])
            /\ NextAction(w)
       ELSE UNCHANGED actions /\ Goto(w, Done("transient"))
    /\ UNCHANGED <<vars, calls, effects, windows>>

\* The store's ScheduleRetry, when the call failed for the moment: whatever
\* the status of the row by now.
RetryAction(w) ==
    LET e == Own(w)
        i == exec[w].current
        n == actions[e][i].attempt_count + 1 IN
    /\ At(w, "reporting") /\ exec[w].result = "transient"
    /\ IF Exists(e, i)
       THEN /\ Update(e, i, [status |-> IF n >= MaxAttempts THEN "failed" ELSE "pending",
                             attempt_count |-> n,
                             due |-> n >= MaxAttempts])
            /\ NextAction(w)
       ELSE UNCHANGED actions /\ Goto(w, Done("transient"))
    /\ UNCHANGED <<vars, calls, effects, windows>>

Unfinished(e) == {i \in Intents : Exists(e, i) /\ actions[e][i].status \in {"pending", "processing"}}
Failed(e) == {i \in Intents : Exists(e, i) /\ actions[e][i].status = "failed"}

\* Fault variant: actions that still wait for a retry are not tallied.
VerdictIgnoringPending(e) == IF Failed(e) # {} THEN "permanent" ELSE "ok"

Verdict(e) == IF Unfinished(e) # {} THEN "transient"
              ELSE IF Failed(e) # {} THEN "permanent" ELSE "ok"

\* The final list, once the listed actions were run.
Tally(w) ==
    /\ At(w, "running") /\ exec[w].todo = {}
    /\ Goto(w, Done(Verdict(Own(w))))
    /\ UNCHANGED <<vars, actionVars>>

-----------------------------------------------------------------------------
(* The worker around the run, and the faults.                              *)

StartRun(w) ==
    /\ Claim(w)
    /\ Goto(w, [Off EXCEPT !.pc = "loading"])
    /\ UNCHANGED actionVars

\* Which statement settles the event is the run's result.
EndRun(w) ==
    /\ At(w, "done")
    /\ \/ exec[w].result = "ok" /\ MarkProcessed(w)
       \/ exec[w].result = "permanent" /\ MarkFailedImmediately(w)
       \/ exec[w].result = "transient" /\ ScheduleRetry(w)
    /\ Goto(w, Off)
    /\ UNCHANGED actionVars

\* A run cut off between the effect of a call and its record.
CutOff(w) ==
    windows' = IF At(w, "reporting") /\ exec[w].result = "ok"
               THEN [windows EXCEPT ![Own(w)][exec[w].current] = @ + 1]
               ELSE windows

\* A statement of the run fails, or finds no connection: the run's error is
\* neither an invalid event nor failed actions, hence transient.
StatementFails(w) ==
    /\ "db" \in Faults
    /\ exec[w].pc \in {"loading", "ensuring", "listing", "running", "reporting"}
    /\ Goto(w, Done("transient"))
    /\ CutOff(w)
    /\ UNCHANGED <<vars, actions, calls, effects>>

CrashRun(w) ==
    /\ "crash" \in Faults
    /\ Crash(w)
    /\ Goto(w, Off)
    /\ CutOff(w)
    /\ UNCHANGED <<actions, calls, effects>>

\* Runs that stay within their lease have ended when it expires.
LeaseRunsOut(e) ==
    /\ LeaseExpires(e)
    /\ \/ "slow" \in Faults
       \/ \A w \in Workers : ~WorksOn(w, e)
    /\ UNCHANGED <<actionVars, exec>>

ActionBackoffElapses(e, i) ==
    /\ Exists(e, i) /\ ~actions[e][i].due
    /\ Update(e, i, [actions[e][i] EXCEPT !.due = TRUE])
    /\ UNCHANGED <<vars, exec, calls, effects, windows>>

RunStep(w) ==
    \/ LoadRules(w) \/ CreateOrGet(w) \/ Persisted(w) \/ ListByEventID(w)
    \/ MarkProcessing(w) \/ ExecuteOne(w) \/ MarkCompleted(w) \/ FailAction(w)
    \/ RetryAction(w) \/ Tally(w)

\* What users, GitHub and the clock of the queue do, and a worker's polling.
Alone(queueStep) == queueStep /\ UNCHANGED <<actionVars, exec>>

ExecNext ==
    \/ Alone(Connect)
    \/ Alone(Disconnect)
    \/ \E d \in Deliveries, e \in EventIds : Alone(Ingest(d, e))
    \/ \E w \in Workers : \/ Alone(SelectClaimable(w))
                          \/ Alone(FailStale(w))
                          \/ StartRun(w)
                          \/ LoadRules(w)
                          \/ CreateOrGet(w)
                          \/ Persisted(w)
                          \/ ListByEventID(w)
                          \/ MarkProcessing(w)
                          \/ ExecuteOne(w)
                          \/ MarkCompleted(w)
                          \/ FailAction(w)
                          \/ RetryAction(w)
                          \/ Tally(w)
                          \/ EndRun(w)
                          \/ StatementFails(w)
                          \/ CrashRun(w)
    \/ \E e \in EventIds : Alone(BackoffElapses(e)) \/ LeaseRunsOut(e)
    \/ \E e \in EventIds, i \in Intents : ActionBackoffElapses(e, i)

ExecSpec == ExecInit /\ [][ExecNext]_execVars

\* The worker polls on a ticker and the pipeline's calls have timeouts, so a
\* worker keeps stepping and a run goes on; a claim that crashes now and then
\* is tried again at the next tick and goes through in the end (hence strong
\* fairness); leases and backoffs run out. Nothing is assumed of users, of
\* GitHub, of crashes or of the outcome of a call.
ExecFairness ==
    /\ \A w \in Workers : /\ WF_execVars(Alone(SelectClaimable(w)))
                          /\ SF_execVars(Alone(FailStale(w)) \/ StartRun(w))
                          /\ WF_execVars(RunStep(w))
                          /\ WF_execVars(EndRun(w))
    /\ \A e \in EventIds : /\ WF_execVars(Alone(BackoffElapses(e)))
                           /\ WF_execVars(LeaseRunsOut(e))

FairExecSpec == ExecSpec /\ ExecFairness

-----------------------------------------------------------------------------
(* Properties.                                                             *)

\* Types of the actions table, the runs and the history; a worker has a run
\* exactly while it works.
ExecTypeOK ==
    /\ TypeOK
    /\ actions \in [EventIds -> [Intents -> ActionRow]]
    /\ exec \in [Workers -> Run]
    /\ calls \in [EventIds -> [Intents -> Nat]]
    /\ effects \in [EventIds -> [Intents -> Nat]]
    /\ windows \in [EventIds -> [Intents -> Nat]]
    /\ \A w \in Workers : At(w, "off") <=> workers[w].pc # "working"

\* An action is called at most once per claim of its event, and so at most
\* max_retries times, whatever faults there are: its row in processing is
\* run again by every later run, but by none twice.
CallsWithinClaims ==
    \A e \in EventIds, i \in Intents : calls[e][i] <= claims[e]

\* ADR-008: an effect is repeated only through the window after a success.
\* Every effect of an action but one is paid for by a run that was cut off
\* between a call that succeeded and its record.
RepeatsOnlyThroughWindow ==
    \A e \in EventIds, i \in Intents : effects[e][i] <= 1 + windows[e][i]

\* An event is marked processed only when all its actions are completed.
ProcessedAfterActions ==
    [][\A e \in EventIds :
         events[e].status # "processed" /\ events'[e].status = "processed"
         => Unfinished(e) = {} /\ Failed(e) = {}]_execVars

\* An action that is completed stays completed: no later run calls it again.
CompletedIsFinal ==
    [][\A e \in EventIds, i \in Intents :
         actions[e][i].status = "completed"
         => actions'[e][i].status = "completed" /\ calls'[e][i] = calls[e][i]]_execVars

\* Every action ends completed or failed, or its event does not end processed:
\* no action is forgotten behind an event that counts as done. A run that
\* reopens an action reopens its event.
NoActionForgotten ==
    \A e \in EventIds :
        <>[](events[e].status \in {"absent", "failed", "deleted"} \/ Unfinished(e) = {})

=============================================================================
