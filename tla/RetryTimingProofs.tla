-------------------------- MODULE RetryTimingProofs --------------------------
(* What the lengths of backoffs, lease and calls guarantee for any number of *)
(* workers, actions and retries and any times; and the time by which every   *)
(* event is settled.                                                         *)
EXTENDS RetryTiming, TLAPS

(* Where a run can be.                                                       *)
AtCall(w) == run[w].at \in {"between", "calling"}
RunInv ==
    \A w \in Workers:
        /\ run[w].at = "calling" => run[w].next \in 0..Intents
        /\ run[w].at = "between" => run[w].next \in 1..Intents + 1

(* As long as no run was taken over alive, one worker runs the event.        *)
OneRun ==
    ~lapsed =>
        /\ \A v, w \in Workers: Running(v) /\ Running(w) => v = w
        /\ \A w \in Workers:
             Running(w) => event.status = "processing" /\ run[w].retryCount = event.retryCount

(* The time limits of the calls a run has behind it bound its time since the  *)
(* claim.                                                                    *)
Span(k) == k * Timeout
InTime(w) ==
    /\ run[w].at = "claimed" => clock = event.lockedAt
    /\ run[w].at = "calling" => run[w].since <= event.lockedAt + Span(run[w].next)
                               /\ clock <= run[w].since + Timeout
    /\ run[w].at = "between" => clock <= event.lockedAt + Span(run[w].next)
    /\ run[w].at = "failed" => clock <= event.lockedAt + Span(Intents + 1)
Paced == ~lapsed => \A w \in Workers: InTime(w)

(* No action has failed more often than its event was retried, but for those *)
(* that the current run has behind it; so no backoff of an action is longer   *)
(* than the next backoff of the event.                                       *)
WithinRetries(i, n) == actions[i].attempts <= n
WaitsUntil(i, t) == actions[i].status = "pending" => actions[i].due <= t
CoveredRun(w) ==
    /\ run[w].at = "claimed" => \A i \in Actions: WithinRetries(i, run[w].retryCount)
    /\ AtCall(w) => \A i \in Actions:
         /\ run[w].list[i].attempts <= run[w].retryCount
         /\ i >= run[w].next => WithinRetries(i, run[w].retryCount)
CoveredRows ==
    \A i \in Actions: /\ WithinRetries(i, event.retryCount + 1)
                      /\ WaitsUntil(i, clock + RetryBackoff(event.retryCount + 1))
Covered ==
    ~lapsed =>
        /\ event.status = "pending" =>
             \A i \in Actions: WithinRetries(i, event.retryCount) /\ WaitsUntil(i, event.due)
        /\ event.status = "processing" => CoveredRows
        /\ \A w \in Workers: CoveredRun(w)

(* A run that died leaves no backoff behind that is longer than a run and the *)
(* next backoff of the event, counted from its claim.                        *)
Behind ==
    ~lapsed /\ event.status = "processing" =>
        \A i \in Actions: WaitsUntil(i, event.lockedAt + Span(Intents + 1) + RetryBackoff(event.retryCount + 1))

(* What an open action has missed of the n retries of its event, after f      *)
(* faults; one that still waits has one retry in hand, which it misses next.  *)
Open(a) == a.status \in {"pending", "processing"}
Counts(a, n, f) == Open(a) => a.born + a.attempts <= n /\ n <= a.born + a.attempts + f
Ready(a, n, f, t) ==
    /\ Counts(a, n, f)
    /\ a.status = "pending" /\ a.due > t => n + 1 <= a.born + a.attempts + f
KeptRun(w) ==
    LET n == run[w].retryCount
        next == run[w].next
    IN  /\ run[w].at = "claimed" => \A i \in Actions: Ready(actions[i], n, faults, clock)
        /\ run[w].at = "failed" => \A i \in Actions: Counts(actions[i], n + 1, faults)
        /\ AtCall(w) => \A i \in Actions:
             /\ i < next => Counts(actions[i], n + 1, faults)
             /\ i > next => Ready(actions[i], n, faults, clock) /\ run[w].list[i] = actions[i]
             /\ i = next => IF run[w].at = "between"
                           THEN Ready(actions[i], n, faults, clock) /\ run[w].list[i] = actions[i]
                           ELSE actions[i].status = "processing" /\ Counts(actions[i], n, faults)
Kept ==
    ~lapsed =>
        /\ event.status = "processing" /\ (\A w \in Workers: ~Running(w)) =>
             \A i \in Actions: Ready(actions[i], event.retryCount + 1, faults, clock)
        /\ event.status \in {"pending", "failed"} =>
             \A i \in Actions: Counts(actions[i], event.retryCount, faults)
        /\ \A w \in Workers: KeptRun(w)

IInv == TypeOK /\ RunInv /\ OneRun /\ Paced /\ Covered /\ Behind /\ Kept

------------------------------------------------------------------------------
Places == {"idle", "claimed", "between", "calling", "failed"}
RunRows == [at: Places, retryCount: Nat, list: [Actions -> ActionRows], next: 0..Intents + 1, since: 0..clock]

LEMMA Backoffs ==
    /\ \A n \in Int: RetryBackoff(n) \in Nat /\ RetryBackoff(n) <= Backoff3
    /\ \A m, n \in Int: m <= n => RetryBackoff(m) <= RetryBackoff(n)
<1> QED
  BY TimesAssumption DEF RetryBackoff

LEMMA IdleRun == TypeOK => Idle \in RunRows /\ Absent \in ActionRows
<1> SUFFICES ASSUME TypeOK PROVE Idle \in RunRows /\ Absent \in ActionRows
  OBVIOUS
<1>1. 0 \in Times /\ 0 \in 0..clock /\ 0 \in 0..Intents + 1
  BY TimesAssumption DEF TypeOK, Times
<1>2. Absent \in ActionRows
  BY <1>1 DEF Absent, ActionRows
<1> QED
  BY <1>1, <1>2 DEF Idle, Run, RunRows, Places

(* What the parts of an action do to the run of its worker; the runs of the   *)
(* others stay as they are.                                                  *)
Only(w) == \A v \in Workers \ {w}: run'[v] = run[v]

LEMMA IdleStep ==
    ASSUME TypeOK, NEW w \in Workers, run' = [run EXCEPT ![w] = Idle]
    PROVE  run'[w] = Idle /\ Only(w) /\ run' \in [Workers -> RunRows]
<1> QED
  BY IdleRun DEF TypeOK, RunRows, Places, Only

LEMMA FailedStep ==
    ASSUME TypeOK, NEW w \in Workers, run' = [run EXCEPT ![w].at = "failed"]
    PROVE  /\ run'[w] = [at |-> "failed", retryCount |-> run[w].retryCount, list |-> run[w].list,
                         next |-> run[w].next, since |-> run[w].since]
           /\ Only(w) /\ run' \in [Workers -> RunRows]
<1>1. run'[w] = [at |-> "failed", retryCount |-> run[w].retryCount, list |-> run[w].list,
                 next |-> run[w].next, since |-> run[w].since]
  BY DEF TypeOK
<1>2. run'[w] \in RunRows
  BY <1>1 DEF TypeOK, RunRows, Places
<1>3. Only(w) /\ \A v \in Workers \ {w}: run[v] \in RunRows
  BY DEF TypeOK, RunRows, Places, Only
<1> QED
  BY <1>1, <1>2, <1>3 DEF TypeOK, Only

LEMMA AdvanceStep ==
    ASSUME TypeOK, NEW w \in Workers, Advance(w), run[w].next \in 0..Intents
    PROVE  /\ run'[w] = [at |-> "between", retryCount |-> run[w].retryCount, list |-> run[w].list,
                         next |-> run[w].next + 1, since |-> run[w].since]
           /\ Only(w) /\ run' \in [Workers -> RunRows]
<1>1. run'[w] = [at |-> "between", retryCount |-> run[w].retryCount, list |-> run[w].list,
                 next |-> run[w].next + 1, since |-> run[w].since]
  BY DEF TypeOK, Advance
<1>2. run'[w] \in RunRows
  BY <1>1, TimesAssumption DEF TypeOK, RunRows, Places
<1>3. Only(w) /\ \A v \in Workers \ {w}: run[v] \in RunRows
  BY DEF TypeOK, RunRows, Places, Only, Advance
<1> QED
  BY <1>1, <1>2, <1>3 DEF TypeOK, Only, Advance

LEMMA CallStep ==
    ASSUME TypeOK, NEW w \in Workers, NEW n \in Nat, Call(w, n), run[w].next \in Actions
    PROVE  /\ \E list \in [Actions -> ActionRows]:
                /\ run'[w] = [at |-> "calling", retryCount |-> run[w].retryCount, list |-> list,
                              next |-> run[w].next, since |-> clock]
                /\ list[run[w].next].attempts = n
                /\ \A i \in Actions \ {run[w].next}: list[i] = run[w].list[i]
           /\ Only(w) /\ run' \in [Workers -> RunRows]
<1> DEFINE i == run[w].next
           row == [run[w].list[i] EXCEPT !.attempts = n]
           list == [run[w].list EXCEPT ![i] = row]
<1>1. run[w] \in RunRows
  BY DEF TypeOK, RunRows, Places
<1>2. run[w].list \in [Actions -> ActionRows]
  BY <1>1 DEF RunRows
<1>3. row \in ActionRows /\ row.attempts = n
  <2>1. run[w].list[i] \in ActionRows
    BY <1>2
  <2> QED
    BY <2>1 DEF ActionRows
<1> HIDE DEF row
<1>4. /\ list \in [Actions -> ActionRows] /\ list[i].attempts = n
      /\ \A j \in Actions \ {i}: list[j] = run[w].list[j]
  BY <1>2, <1>3
<1>5. run' = [run EXCEPT ![w].at = "calling", ![w].since = clock, ![w].list = list]
  BY <1>2 DEF Call, row, TypeOK
<1> HIDE DEF list
<1>6. run'[w] = [at |-> "calling", retryCount |-> run[w].retryCount, list |-> list,
                 next |-> run[w].next, since |-> clock]
  BY <1>5 DEF TypeOK
<1>7. run'[w] \in RunRows
  BY <1>1, <1>4, <1>6, TimesAssumption DEF TypeOK, RunRows, Places
<1>8. Only(w) /\ \A v \in Workers \ {w}: run[v] \in RunRows
  BY <1>5 DEF TypeOK, RunRows, Places, Only
<1>9. run' \in [Workers -> RunRows]
  BY <1>5, <1>7, <1>8 DEF TypeOK, Only
<1> QED
  BY <1>4, <1>6, <1>8, <1>9

(* What each action does to the run of its worker, and to the rows.          *)
LEMMA EnsureActionsStep ==
    ASSUME TypeOK, NEW w \in Workers, EnsureActions(w)
    PROVE  /\ run[w].at = "claimed" /\ UNCHANGED <<clock, settings, event, faults, lapsed>>
           /\ Only(w) /\ actions' \in [Actions -> ActionRows]
           /\ \A i \in Actions: actions'[i] = actions[i]
                \/ actions'[i] = NewAction(event.retryCount)
           /\ run'[w].retryCount = run[w].retryCount /\ run'[w].list = actions' /\ run'[w].since = clock
           /\ \/ run'[w].at = "calling" /\ run'[w].next = 0
              \/ run'[w].at = "between" /\ run'[w].next = 1
           /\ run' \in [Workers -> RunRows]
<1>1. PICK matching \in SUBSET Actions, needsAI \in BOOLEAN:
        LET rows == [i \in Actions |-> IF i \in matching /\ actions[i] = Absent
                                       THEN NewAction(event.retryCount)
                                       ELSE actions[i]]
        IN  /\ actions' = rows
            /\ run' = [run EXCEPT ![w].list = rows,
                                  ![w].at = IF needsAI THEN "calling" ELSE "between",
                                  ![w].next = IF needsAI THEN 0 ELSE 1,
                                  ![w].since = clock]
  BY DEF EnsureActions
<1> DEFINE new == NewAction(event.retryCount)
<1>3. new \in ActionRows
  <2>1. 0 \in Times /\ event.retryCount \in Nat
    BY TimesAssumption DEF Times, TypeOK
  <2> QED
    BY <2>1 DEF ActionRows, NewAction
<1> HIDE DEF new
<1>4. /\ actions' \in [Actions -> ActionRows]
      /\ \A i \in Actions: actions'[i] = actions[i] \/ actions'[i] = new
  BY <1>1, <1>3 DEF TypeOK, new
<1>5. run' = [run EXCEPT ![w].list = actions', ![w].at = IF needsAI THEN "calling" ELSE "between",
                         ![w].next = IF needsAI THEN 0 ELSE 1, ![w].since = clock]
  BY <1>1
<1>6. run'[w] = [at |-> IF needsAI THEN "calling" ELSE "between", retryCount |-> run[w].retryCount,
                 list |-> actions', next |-> IF needsAI THEN 0 ELSE 1, since |-> clock]
  BY <1>5 DEF TypeOK
<1>7. run'[w] \in RunRows
  BY <1>4, <1>6, TimesAssumption DEF TypeOK, RunRows, Places
<1>8. \A v \in Workers \ {w}: run'[v] = run[v] /\ run[v] \in RunRows
  BY <1>5 DEF TypeOK, RunRows, Places
<1>9. run' \in [Workers -> RunRows]
  BY <1>5, <1>7, <1>8 DEF TypeOK
<1>10. /\ run'[w].retryCount = run[w].retryCount /\ run'[w].list = actions' /\ run'[w].since = clock
       /\ \/ run'[w].at = "calling" /\ run'[w].next = 0
          \/ run'[w].at = "between" /\ run'[w].next = 1
  BY <1>6
<1> QED
  BY <1>4, <1>8, <1>9, <1>10 DEF EnsureActions, new, Only

(* The rows that a step writes keep their type.                              *)
EventRows == [status: Statuses, retryCount: Nat, due: Times, lockedAt: 0..clock]

LEMMA ClaimStep ==
    ASSUME TypeOK, NEW w \in Workers, Claim(w)
    PROVE  /\ ~Running(w) /\ UNCHANGED <<clock, settings, actions, faults>>
           /\ lapsed' = (lapsed \/ \E v \in Workers: Running(v))
           /\ event' \in EventRows /\ run' \in [Workers -> RunRows]
           /\ \/ Stale /\ run' = run /\ event' = Closed(event.retryCount + 1)
              \/ /\ \/ Stale /\ ~Exhausted(event.retryCount + 1) /\ event'.retryCount = event.retryCount + 1
                    \/ event.status = "pending" /\ event.due <= clock /\ event'.retryCount = event.retryCount
                 /\ event'.status = "processing" /\ event'.lockedAt = clock
                 /\ run'[w].at = "claimed" /\ run'[w].retryCount = event'.retryCount /\ Only(w)
<1> DEFINE count == ClaimCount
           claimed == [status |-> "processing", retryCount |-> count, due |-> 0, lockedAt |-> clock]
           r == Run("claimed", count)
<1>1. /\ count \in Nat /\ (Stale => count = event.retryCount + 1) /\ (~Stale => count = event.retryCount)
      /\ 0 \in Times /\ 0 \in 0..clock /\ clock \in 0..clock
  BY TimesAssumption DEF TypeOK, ClaimCount, Times
<1>2. claimed \in EventRows /\ Closed(count) \in EventRows
  BY <1>1 DEF EventRows, Statuses, Closed
<1>3. r \in RunRows /\ r.at = "claimed" /\ r.retryCount = count
  BY <1>1, IdleRun DEF RunRows, Places, Idle, Run
<1>5. event \in EventRows /\ run \in [Workers -> RunRows]
  BY DEF TypeOK, EventRows, RunRows, Places
<1>6. /\ ~Running(w) /\ Claimable
      /\ IF Stale /\ Exhausted(count)
         THEN event' = Closed(count) /\ UNCHANGED run
         ELSE event' = claimed /\ run' = [run EXCEPT ![w] = r]
      /\ lapsed' = (lapsed \/ \E v \in Workers: Running(v))
      /\ UNCHANGED <<clock, settings, actions, faults>>
  BY DEF Claim
<1>7. CASE Stale /\ Exhausted(count)
  BY <1>1, <1>2, <1>5, <1>6, <1>7
<1>8. CASE ~(Stale /\ Exhausted(count))
  <2> HIDE DEF r
  <2>1. event' = claimed /\ run' = [run EXCEPT ![w] = r]
    BY <1>6, <1>8
  <2>2. run'[w] = r /\ Only(w) /\ run' \in [Workers -> RunRows]
    BY <2>1, <1>3, <1>5 DEF Only
  <2>3. event'.status = "processing" /\ event'.lockedAt = clock /\ event'.retryCount = count
    BY <2>1
  <2>4. Stale \/ (event.status = "pending" /\ event.due <= clock)
    BY <1>6 DEF Claimable
  <2>5. Stale => ~Exhausted(event.retryCount + 1)
    BY <1>1, <1>8
  <2> QED
    BY <1>1, <1>2, <1>6, <2>1, <1>3, <2>2, <2>3, <2>4, <2>5 DEF Stale
<1> QED
  BY <1>7, <1>8

LEMMA StartActionStep ==
    ASSUME TypeOK, NEW w \in Workers, StartAction(w)
    PROVE  LET i == run[w].next
           IN  /\ run[w].at = "between" /\ i \in Actions /\ UNCHANGED <<clock, settings, event, faults, lapsed>>
               /\ Only(w) /\ run' \in [Workers -> RunRows] /\ actions' \in [Actions -> ActionRows]
               /\ run'[w].retryCount = run[w].retryCount
               /\ \A j \in Actions \ {i}: actions'[j] = actions[j] /\ run'[w].list[j] = run[w].list[j]
               /\ \/ /\ run'[w].at = "calling" /\ run'[w].next = i /\ run'[w].since = clock
                     /\ \/ /\ actions'[i] = actions[i] /\ run[w].list[i].status = "processing"
                           /\ run'[w].list[i].attempts = run[w].list[i].attempts
                        \/ /\ actions[i].status = "pending" /\ actions'[i].status = "processing"
                           /\ actions'[i].attempts = actions[i].attempts /\ actions'[i].born = actions[i].born
                           /\ run'[w].list[i].attempts = actions[i].attempts
                  \/ /\ run'[w].at = "between" /\ run'[w].next = i + 1 /\ run'[w].list = run[w].list
                     /\ actions' = actions /\ run[w].list[i].status # "processing"
                     /\ ~(Due(run[w].list[i]) /\ Due(actions[i]))
<1> DEFINE i == run[w].next
           listed == run[w].list[i]
<1>1. /\ run[w].at = "between" /\ i \in Actions /\ UNCHANGED <<clock, settings, event, faults, lapsed>>
      /\ \/ listed.status = "processing" /\ Call(w, listed.attempts) /\ UNCHANGED actions
         \/ /\ Due(listed) /\ Due(actions[i])
            /\ actions' = [actions EXCEPT ![i].status = "processing", ![i].due = 0]
            /\ Call(w, actions[i].attempts)
         \/ /\ listed.status # "processing" /\ ~(Due(listed) /\ Due(actions[i]))
            /\ Advance(w) /\ UNCHANGED actions
  BY DEF StartAction
<1>2. /\ run \in [Workers -> RunRows] /\ actions \in [Actions -> ActionRows]
      /\ i \in 0..Intents /\ listed.attempts \in Nat /\ actions[i].attempts \in Nat
  <2>1. run \in [Workers -> RunRows] /\ actions \in [Actions -> ActionRows]
    BY DEF TypeOK, RunRows, Places
  <2>2. run[w] \in RunRows
    BY <2>1
  <2>3. listed \in ActionRows /\ actions[i] \in ActionRows
    BY <1>1, <2>1, <2>2 DEF RunRows
  <2>4. i \in 0..Intents
    BY <1>1, TimesAssumption DEF Actions
  <2> QED
    BY <2>1, <2>3, <2>4 DEF ActionRows
<1> DEFINE Called(n) ==
             /\ \E list \in [Actions -> ActionRows]:
                  /\ run'[w] = [at |-> "calling", retryCount |-> run[w].retryCount, list |-> list,
                                next |-> i, since |-> clock]
                  /\ list[i].attempts = n
                  /\ \A j \in Actions \ {i}: list[j] = run[w].list[j]
             /\ Only(w) /\ run' \in [Workers -> RunRows]
<1>c. \A n \in Nat: Call(w, n) => Called(n)
  BY <1>1, CallStep
<1>d. \A n: Called(n) =>
        /\ Only(w) /\ run' \in [Workers -> RunRows]
        /\ run'[w].at = "calling" /\ run'[w].next = i /\ run'[w].since = clock
        /\ run'[w].retryCount = run[w].retryCount /\ run'[w].list[i].attempts = n
        /\ \A j \in Actions \ {i}: run'[w].list[j] = run[w].list[j]
  <2> SUFFICES ASSUME NEW n, Called(n)
               PROVE  /\ Only(w) /\ run' \in [Workers -> RunRows]
                      /\ run'[w].at = "calling" /\ run'[w].next = i /\ run'[w].since = clock
                      /\ run'[w].retryCount = run[w].retryCount /\ run'[w].list[i].attempts = n
                      /\ \A j \in Actions \ {i}: run'[w].list[j] = run[w].list[j]
    OBVIOUS
  <2>1. PICK list \in [Actions -> ActionRows]:
          /\ run'[w] = [at |-> "calling", retryCount |-> run[w].retryCount, list |-> list,
                        next |-> i, since |-> clock]
          /\ list[i].attempts = n
          /\ \A j \in Actions \ {i}: list[j] = run[w].list[j]
    OBVIOUS
  <2> QED
    BY <2>1
<1> HIDE DEF Called
<1>3. CASE listed.status = "processing" /\ Call(w, listed.attempts) /\ UNCHANGED actions
  <2>1. Called(listed.attempts) /\ actions' = actions /\ listed.status = "processing"
    BY <1>2, <1>3, <1>c
  <2> QED
    BY <1>1, <1>2, <1>d, <2>1
<1>4. CASE /\ Due(listed) /\ Due(actions[i])
           /\ actions' = [actions EXCEPT ![i].status = "processing", ![i].due = 0]
           /\ Call(w, actions[i].attempts)
  <2> DEFINE row == [actions[i] EXCEPT !.status = "processing", !.due = 0]
  <2>1. /\ row \in ActionRows /\ row.status = "processing" /\ row.attempts = actions[i].attempts
        /\ row.born = actions[i].born
    <3>1. actions[i] \in ActionRows /\ 0 \in Times
      BY <1>1, <1>2, TimesAssumption DEF TypeOK, Times
    <3> QED
      BY <3>1 DEF ActionRows
  <2>2. actions' = [actions EXCEPT ![i] = row]
    BY <1>4
  <2> HIDE DEF row
  <2>3. /\ actions' \in [Actions -> ActionRows] /\ actions'[i] = row
        /\ \A j \in Actions \ {i}: actions'[j] = actions[j]
    BY <1>1, <1>2, <2>1, <2>2
  <2>4. actions[i].status = "pending"
    BY <1>4 DEF Due
  <2>5. Called(actions[i].attempts)
    BY <1>2, <1>4, <1>c
  <2> QED
    BY <1>1, <1>d, <2>1, <2>3, <2>4, <2>5
<1>5. CASE listed.status # "processing" /\ ~(Due(listed) /\ Due(actions[i])) /\ Advance(w) /\ UNCHANGED actions
  <2>1. /\ run'[w] = [at |-> "between", retryCount |-> run[w].retryCount, list |-> run[w].list,
                      next |-> i + 1, since |-> run[w].since]
        /\ Only(w) /\ run' \in [Workers -> RunRows]
    BY <1>2, <1>5, AdvanceStep
  <2>2. /\ run'[w].at = "between" /\ run'[w].next = i + 1 /\ run'[w].list = run[w].list
        /\ run'[w].retryCount = run[w].retryCount
    BY <2>1
  <2> QED
    BY <1>1, <1>2, <1>5, <2>1, <2>2
<1> QED
  BY <1>1, <1>3, <1>4, <1>5

LEMMA ActionEndsStep ==
    ASSUME TypeOK, RunInv, NEW w \in Workers, ActionEnds(w)
    PROVE  LET i == run[w].next
           IN  /\ run[w].at = "calling" /\ i \in Actions /\ UNCHANGED <<clock, settings, event, faults, lapsed>>
               /\ Only(w) /\ run' \in [Workers -> RunRows] /\ actions' \in [Actions -> ActionRows]
               /\ run'[w].retryCount = run[w].retryCount /\ run'[w].list = run[w].list
               /\ \A j \in Actions \ {i}: actions'[j] = actions[j]
               /\ \/ /\ run'[w].at = "failed" /\ run'[w].next = i
                     /\ actions' = actions /\ actions[i].status # "processing"
                  \/ /\ run'[w].at = "between" /\ run'[w].next = i + 1
                     /\ \/ actions'[i].status = "completed" /\ actions'[i].attempts = actions[i].attempts
                        \/ actions'[i].status = "failed" /\ actions'[i].attempts = actions[i].attempts + 1
                        \/ /\ actions'[i].status = "pending" /\ actions'[i].attempts = actions[i].attempts + 1
                           /\ actions'[i].born = actions[i].born
                           /\ actions'[i].due = clock + RetryBackoff(run[w].list[i].attempts + 1)
<1> DEFINE i == run[w].next
           row == actions[i]
           completed == Written(row, "completed", row.attempts, 0)
           failed == Written(row, "failed", row.attempts + 1, 0)
           retried == Retried(row, run[w].list[i].attempts)
<1>1. /\ run[w].at = "calling" /\ i # 0 /\ UNCHANGED <<clock, settings, event, faults, lapsed>>
      /\ \/ \E outcome \in {completed, failed}:
              IF row.status = "processing"
              THEN actions' = [actions EXCEPT ![i] = outcome] /\ Advance(w)
              ELSE run' = [run EXCEPT ![w].at = "failed"] /\ UNCHANGED actions
         \/ actions' = [actions EXCEPT ![i] = retried] /\ Advance(w)
  BY DEF ActionEnds, Calling
<1>2. /\ run \in [Workers -> RunRows] /\ actions \in [Actions -> ActionRows]
      /\ i \in Actions /\ i \in 0..Intents /\ row \in ActionRows /\ run[w].list[i] \in ActionRows
  <2>1. run \in [Workers -> RunRows] /\ actions \in [Actions -> ActionRows]
    BY DEF TypeOK, RunRows, Places
  <2>2. i \in Actions /\ i \in 0..Intents
    BY <1>1, TimesAssumption DEF RunInv, Actions
  <2>3. run[w] \in RunRows
    BY <2>1
  <2> QED
    BY <2>1, <2>2, <2>3 DEF RunRows
<1>0. \A status \in {"pending", "completed", "failed"}, attempts \in Nat, due \in Times:
        Written(row, status, attempts, due) \in ActionRows
  BY <1>2 DEF ActionRows, Written
<1>a. row.attempts \in Nat /\ row.attempts + 1 \in Nat /\ 0 \in Times
  BY <1>2, TimesAssumption DEF ActionRows, Times, TypeOK
<1>3. completed \in ActionRows /\ completed.status = "completed" /\ completed.attempts = row.attempts
  BY <1>0, <1>a DEF Written
<1>4. failed \in ActionRows /\ failed.status = "failed" /\ failed.attempts = row.attempts + 1
  BY <1>0, <1>a DEF Written
<1>5. /\ retried \in ActionRows /\ retried.attempts = row.attempts + 1
      /\ \/ retried.status = "failed"
         \/ /\ retried.status = "pending" /\ retried.born = row.born
            /\ retried.due = clock + RetryBackoff(run[w].list[i].attempts + 1)
  <2>1. clock + ActionBackoff(run[w].list[i].attempts) \in Times
    <3>1. run[w].list[i].attempts + 1 \in Int
      BY <1>2 DEF ActionRows
    <3> QED
      BY <3>1, Backoffs, TimesAssumption DEF Times, TypeOK, ActionBackoff
  <2> QED
    BY <1>0, <1>a, <2>1 DEF Retried, Written, ActionBackoff
<1> HIDE DEF completed, failed, retried
<1>6. CASE row.status # "processing" /\ run' = [run EXCEPT ![w].at = "failed"] /\ UNCHANGED actions
  <2>1. /\ run'[w] = [at |-> "failed", retryCount |-> run[w].retryCount, list |-> run[w].list,
                      next |-> i, since |-> run[w].since]
        /\ Only(w) /\ run' \in [Workers -> RunRows]
    BY <1>6, FailedStep
  <2>2. /\ run'[w].at = "failed" /\ run'[w].next = i /\ run'[w].retryCount = run[w].retryCount
        /\ run'[w].list = run[w].list
    BY <2>1
  <2> QED
    BY <1>1, <1>2, <1>6, <2>1, <2>2
<1>7. ASSUME NEW outcome \in {completed, failed, retried},
             actions' = [actions EXCEPT ![i] = outcome], Advance(w)
      PROVE  /\ Only(w) /\ run' \in [Workers -> RunRows] /\ actions' \in [Actions -> ActionRows]
             /\ run'[w].retryCount = run[w].retryCount /\ run'[w].list = run[w].list
             /\ \A j \in Actions \ {i}: actions'[j] = actions[j]
             /\ run'[w].at = "between" /\ run'[w].next = i + 1 /\ actions'[i] = outcome
  <2>1. /\ run'[w] = [at |-> "between", retryCount |-> run[w].retryCount, list |-> run[w].list,
                      next |-> i + 1, since |-> run[w].since]
        /\ Only(w) /\ run' \in [Workers -> RunRows]
    BY <1>2, <1>7, AdvanceStep
  <2>2. /\ run'[w].at = "between" /\ run'[w].next = i + 1 /\ run'[w].list = run[w].list
        /\ run'[w].retryCount = run[w].retryCount
    BY <2>1
  <2>3. outcome \in ActionRows
    BY <1>3, <1>4, <1>5
  <2>4. /\ actions' \in [Actions -> ActionRows] /\ actions'[i] = outcome
        /\ \A j \in Actions \ {i}: actions'[j] = actions[j]
    BY <1>2, <1>7, <2>3
  <2> QED
    BY <2>1, <2>2, <2>4
<1>8. CASE \E outcome \in {completed, failed, retried}: actions' = [actions EXCEPT ![i] = outcome] /\ Advance(w)
  BY <1>1, <1>2, <1>3, <1>4, <1>5, <1>7, <1>8
<1> QED
  BY <1>1, <1>6, <1>8

LEMMA RunEndsStep ==
    ASSUME TypeOK, NEW w \in Workers, RunEnds(w)
    PROVE  /\ run[w].at = "failed" \/ (run[w].at = "between" /\ run[w].next \notin Actions)
           /\ UNCHANGED <<clock, settings, actions, faults, lapsed>>
           /\ run'[w] = Idle /\ Only(w) /\ run' \in [Workers -> RunRows] /\ event' \in EventRows
           /\ \/ event' = Closed(event.retryCount + 1)
              \/ /\ event'.status = "pending" /\ event'.retryCount = event.retryCount + 1
                 /\ event'.due = clock + RetryBackoff(run[w].retryCount + 1)
                 /\ ~Exhausted(event.retryCount + 1)
              \/ /\ run[w].at = "between" /\ \A i \in Actions: actions[i].status \notin {"pending", "processing"}
                 /\ event' = event \/ event'.status \in {"failed", "processed"}
                 /\ event'.status # "processing" /\ event'.retryCount = event.retryCount
<1>1. /\ run[w].at = "failed" \/ (run[w].at = "between" /\ run[w].next \notin Actions)
      /\ UNCHANGED <<clock, settings, actions, faults, lapsed>>
      /\ run' = [run EXCEPT ![w] = Idle]
  BY DEF RunEnds
<1>2. run'[w] = Idle /\ Only(w) /\ run' \in [Workers -> RunRows]
  BY <1>1, IdleStep
<1>3. event \in EventRows /\ 0 \in Times /\ 0 \in 0..clock /\ run[w].retryCount \in Nat
  BY TimesAssumption DEF TypeOK, EventRows, Times
<1>4. CASE RetryEvent(run[w].retryCount)
  <2>1. clock + EventBackoff(run[w].retryCount) \in Times
    BY <1>3, Backoffs, TimesAssumption DEF Times, TypeOK, EventBackoff
  <2>2. Closed(event.retryCount + 1) \in EventRows
    BY <1>3 DEF EventRows, Closed, Statuses
  <2> DEFINE waiting == [status |-> "pending", retryCount |-> event.retryCount + 1,
                         due |-> clock + EventBackoff(run[w].retryCount), lockedAt |-> 0]
  <2>3. waiting \in EventRows
    BY <1>3, <2>1 DEF EventRows, Statuses
  <2>4. event' = Closed(event.retryCount + 1) \/ (event' = waiting /\ ~Exhausted(event.retryCount + 1))
    BY <1>4 DEF RetryEvent
  <2> QED
    BY <1>1, <1>2, <2>2, <2>3, <2>4 DEF EventBackoff
<1>5. CASE /\ run[w].at = "between" /\ With("pending") \cup With("processing") = {}
           /\ \E s \in {"failed", "processed"}: Settle(s)
  <2>1. \A i \in Actions: actions[i].status \notin {"pending", "processing"}
    BY <1>5 DEF With
  <2>2. PICK s \in {"failed", "processed"}: Settle(s)
    BY <1>5
  <2> DEFINE settled == [event EXCEPT !.status = s, !.due = 0, !.lockedAt = 0]
  <2>3. settled \in EventRows /\ settled.status = s /\ settled.retryCount = event.retryCount
    BY <1>3 DEF EventRows, Statuses
  <2>4. event' = settled \/ (event' = event /\ event.status # "processing")
    BY <2>2 DEF Settle
  <2> QED
    BY <1>1, <1>2, <1>3, <1>5, <2>1, <2>3, <2>4
<1> QED
  BY <1>1, <1>4, <1>5 DEF RunEnds

LEMMA SuggestionEndsStep ==
    ASSUME TypeOK, NEW w \in Workers, SuggestionEnds(w)
    PROVE  /\ run[w].at = "calling" /\ run[w].next = 0
           /\ UNCHANGED <<clock, settings, event, actions, faults, lapsed>>
           /\ Only(w) /\ run' \in [Workers -> RunRows]
           /\ run'[w].at = "between" /\ run'[w].next = 1
           /\ run'[w].retryCount = run[w].retryCount /\ run'[w].list = run[w].list
<1>1. /\ run[w].at = "calling" /\ run[w].next = 0 /\ Advance(w)
      /\ UNCHANGED <<clock, settings, event, actions, faults, lapsed>>
  BY DEF SuggestionEnds, Calling
<1>2. run[w].next \in 0..Intents
  BY <1>1, TimesAssumption
<1>3. /\ run'[w] = [at |-> "between", retryCount |-> run[w].retryCount, list |-> run[w].list,
                    next |-> run[w].next + 1, since |-> run[w].since]
      /\ Only(w) /\ run' \in [Workers -> RunRows]
  BY <1>1, <1>2, AdvanceStep
<1>4. /\ run'[w].at = "between" /\ run'[w].next = run[w].next + 1
      /\ run'[w].retryCount = run[w].retryCount /\ run'[w].list = run[w].list
  BY <1>3
<1> QED
  BY <1>1, <1>3, <1>4

LEMMA FaultStep ==
    ASSUME TypeOK, NEW w \in Workers, StatementFails(w) \/ Crash(w)
    PROVE  /\ Running(w) /\ faults' = faults + 1 /\ faults' \in 0..MaxFaults
           /\ UNCHANGED <<clock, settings, event, actions, lapsed>>
           /\ Only(w) /\ run' \in [Workers -> RunRows]
           /\ \/ run'[w].at = "failed" /\ run'[w].next = run[w].next /\ run'[w].retryCount = run[w].retryCount
              \/ run'[w] = Idle
<1>1. /\ Running(w) /\ faults' = faults + 1 /\ faults' \in 0..MaxFaults
      /\ UNCHANGED <<clock, settings, event, actions, lapsed>>
  BY TimesAssumption DEF StatementFails, Crash, Fault, TypeOK
<1>2. CASE StatementFails(w)
  <2>1. run' = [run EXCEPT ![w].at = "failed"]
    BY <1>2 DEF StatementFails
  <2>2. /\ run'[w] = [at |-> "failed", retryCount |-> run[w].retryCount, list |-> run[w].list,
                      next |-> run[w].next, since |-> run[w].since]
        /\ Only(w) /\ run' \in [Workers -> RunRows]
    BY <2>1, FailedStep
  <2>3. run'[w].at = "failed" /\ run'[w].next = run[w].next /\ run'[w].retryCount = run[w].retryCount
    BY <2>2
  <2> QED
    BY <1>1, <2>2, <2>3
<1>3. CASE Crash(w)
  <2>1. run' = [run EXCEPT ![w] = Idle]
    BY <1>3 DEF Crash
  <2> QED
    BY <1>1, <2>1, IdleStep
<1> QED
  BY <1>2, <1>3

------------------------------------------------------------------------------
LEMMA TypesKept ==
    ASSUME TypeOK, clock' = clock, settings' = settings, faults' \in 0..MaxFaults, lapsed' \in BOOLEAN,
           event' \in EventRows, actions' \in [Actions -> ActionRows], run' \in [Workers -> RunRows]
    PROVE  TypeOK'
<1>1. ActionRows' = ActionRows /\ Times' = Times /\ (0..clock)' = 0..clock
  BY DEF ActionRows, Times
<1> QED
  BY <1>1 DEF TypeOK, EventRows, RunRows, Places

LEMMA RunInvKept ==
    ASSUME RunInv, NEW w \in Workers, Only(w),
           run'[w].at = "calling" => run'[w].next \in 0..Intents,
           run'[w].at = "between" => run'[w].next \in 1..Intents + 1
    PROVE  RunInv'
<1> QED
  BY DEF RunInv, Only

LEMMA TypeStep ==
    ASSUME TypeOK, RunInv, [Next]_vars
    PROVE  TypeOK' /\ RunInv'
<1>1. event \in EventRows /\ run \in [Workers -> RunRows]
  BY DEF TypeOK, EventRows, RunRows, Places
<1>2. ASSUME NEW w \in Workers, Claim(w)
      PROVE  TypeOK' /\ RunInv'
  <2>1. lapsed' \in BOOLEAN /\ faults' \in 0..MaxFaults
    BY <1>2, ClaimStep DEF TypeOK
  <2>2. TypeOK'
    BY <1>2, <2>1, ClaimStep, TypesKept DEF TypeOK
  <2>3. RunInv'
    BY <1>2, ClaimStep DEF RunInv, Only
  <2> QED
    BY <2>2, <2>3
<1>3. ASSUME NEW w \in Workers, EnsureActions(w)
      PROVE  TypeOK' /\ RunInv'
  <2>1. /\ Only(w)
        /\ run'[w].at = "calling" => run'[w].next = 0
        /\ run'[w].at = "between" => run'[w].next = 1
    BY <1>3, EnsureActionsStep
  <2>2. TypeOK'
    BY <1>1, <1>3, EnsureActionsStep, TypesKept DEF TypeOK
  <2>3. RunInv'
    BY <2>1, RunInvKept, TimesAssumption
  <2> QED
    BY <2>2, <2>3
<1>4. ASSUME NEW w \in Workers, SuggestionEnds(w)
      PROVE  TypeOK' /\ RunInv'
  <2>1. TypeOK'
    BY <1>1, <1>4, SuggestionEndsStep, TypesKept DEF TypeOK
  <2>2. RunInv'
    BY <1>4, SuggestionEndsStep, RunInvKept, TimesAssumption
  <2> QED
    BY <2>1, <2>2
<1>5. ASSUME NEW w \in Workers, StartAction(w)
      PROVE  TypeOK' /\ RunInv'
  <2>1. TypeOK'
    BY <1>1, <1>5, StartActionStep, TypesKept DEF TypeOK
  <2>2. /\ Only(w) /\ run[w].next \in 1..Intents
        /\ \/ run'[w].at = "calling" /\ run'[w].next = run[w].next
           \/ run'[w].at = "between" /\ run'[w].next = run[w].next + 1
    BY <1>5, StartActionStep DEF Actions
  <2>3. RunInv'
    BY <2>2, RunInvKept, TimesAssumption
  <2> QED
    BY <2>1, <2>3
<1>6. ASSUME NEW w \in Workers, ActionEnds(w)
      PROVE  TypeOK' /\ RunInv'
  <2>1. TypeOK'
    BY <1>1, <1>6, ActionEndsStep, TypesKept DEF TypeOK
  <2>2. /\ Only(w) /\ run[w].next \in 1..Intents
        /\ \/ run'[w].at = "failed"
           \/ run'[w].at = "between" /\ run'[w].next = run[w].next + 1
    BY <1>6, ActionEndsStep DEF Actions
  <2>3. RunInv'
    BY <2>2, RunInvKept, TimesAssumption
  <2> QED
    BY <2>1, <2>3
<1>7. ASSUME NEW w \in Workers, RunEnds(w)
      PROVE  TypeOK' /\ RunInv'
  <2>1. TypeOK'
    BY <1>7, RunEndsStep, TypesKept DEF TypeOK
  <2>2. RunInv'
    BY <1>7, RunEndsStep, RunInvKept DEF Idle, Run
  <2> QED
    BY <2>1, <2>2
<1>8. ASSUME NEW w \in Workers, StatementFails(w) \/ Crash(w)
      PROVE  TypeOK' /\ RunInv'
  <2>1. TypeOK'
    BY <1>1, <1>8, FaultStep, TypesKept DEF TypeOK
  <2>2. RunInv'
    BY <1>8, FaultStep, RunInvKept DEF Idle, Run
  <2> QED
    BY <2>1, <2>2
<1>9. CASE Tick
  <2>1. /\ clock' = clock + 1 /\ clock \in Nat /\ clock' \in Nat
        /\ UNCHANGED <<settings, event, actions, run, faults, lapsed>>
    BY <1>9 DEF Tick, TypeOK
  <2>2. Times \subseteq Times' /\ 0..clock \subseteq 0..clock'
    BY <2>1, TimesAssumption DEF Times
  <2>3. ActionRows \subseteq ActionRows'
    BY <2>2 DEF ActionRows
  <2>4. /\ event \in [status: Statuses, retryCount: Nat, due: Times', lockedAt: 0..clock']
        /\ actions \in [Actions -> ActionRows']
    BY <1>1, <2>2, <2>3 DEF TypeOK, EventRows
  <2>5. \A w \in Workers: run[w] \in [at: Places, retryCount: Nat, list: [Actions -> ActionRows'],
                                      next: 0..Intents + 1, since: 0..clock']
    <3> TAKE w \in Workers
    <3>1. run[w] \in RunRows
      BY <1>1
    <3>2. run[w].list \in [Actions -> ActionRows']
      BY <2>3, <3>1 DEF RunRows
    <3>3. run[w].since \in 0..clock'
      BY <2>2, <3>1 DEF RunRows
    <3> QED
      BY <3>1, <3>2, <3>3 DEF RunRows
  <2>6. TypeOK'
    BY <2>1, <2>4, <2>5 DEF TypeOK, Places
  <2> QED
    BY <2>1, <2>6 DEF RunInv
<1>10. CASE UNCHANGED vars
  <2>1. lapsed' \in BOOLEAN /\ faults' \in 0..MaxFaults
    BY <1>10 DEF vars, TypeOK
  <2>2. TypeOK'
    BY <1>1, <1>10, <2>1, TypesKept DEF vars, TypeOK
  <2> QED
    BY <1>10, <2>2 DEF vars, RunInv
<1> QED
  BY <1>2, <1>3, <1>4, <1>5, <1>6, <1>7, <1>8, <1>9, <1>10 DEF Next, Done

------------------------------------------------------------------------------
LEMMA OneRunKept ==
    ASSUME OneRun, NEW w \in Workers, Running(w), Only(w), lapsed' = lapsed, event' = event,
           run'[w].at = "idle" \/ run'[w].retryCount = run[w].retryCount
    PROVE  OneRun'
<1> QED
  BY DEF OneRun, Only, Running

LEMMA OneRunStep ==
    ASSUME TypeOK, RunInv, OneRun, [Next]_vars
    PROVE  OneRun'
<1>1. ASSUME NEW w \in Workers, Claim(w)
      PROVE  OneRun'
  <2>1. ~lapsed' => \A v \in Workers: ~Running(v)
    BY <1>1, ClaimStep
  <2>2. \/ run' = run
        \/ event'.status = "processing" /\ run'[w].retryCount = event'.retryCount /\ Only(w)
    BY <1>1, ClaimStep
  <2> QED
    BY <2>1, <2>2 DEF OneRun, Only, Running
<1>2. ASSUME NEW w \in Workers,
             EnsureActions(w) \/ SuggestionEnds(w) \/ StartAction(w) \/ ActionEnds(w)
      PROVE  OneRun'
  <2>1. /\ run[w].at # "idle" /\ Only(w) /\ lapsed' = lapsed /\ event' = event
        /\ run'[w].retryCount = run[w].retryCount
    BY <1>2, EnsureActionsStep, SuggestionEndsStep, StartActionStep, ActionEndsStep
  <2> QED
    BY <2>1, OneRunKept DEF Running
<1>3. ASSUME NEW w \in Workers, RunEnds(w)
      PROVE  OneRun'
  <2>1. Running(w) /\ Only(w) /\ lapsed' = lapsed /\ run'[w].at = "idle"
    BY <1>3, RunEndsStep DEF Running, Idle, Run
  <2> QED
    BY <2>1 DEF OneRun, Only, Running
<1>4. ASSUME NEW w \in Workers, StatementFails(w) \/ Crash(w)
      PROVE  OneRun'
  <2>1. Idle.at = "idle"
    BY DEF Idle, Run
  <2> QED
    BY <1>4, <2>1, FaultStep, OneRunKept
<1>5. CASE Tick
  BY <1>5 DEF Tick, OneRun, Running
<1>6. CASE UNCHANGED vars
  BY <1>6 DEF vars, OneRun, Running
<1> QED
  BY <1>1, <1>2, <1>3, <1>4, <1>5, <1>6 DEF Next, Done

------------------------------------------------------------------------------
LEMMA Spans ==
    /\ Span(0) = 0
    /\ \A k \in Nat: Span(k) \in Nat /\ Span(k + 1) = Span(k) + Timeout
    /\ \A j, k \in Nat: j <= k => Span(j) <= Span(k)
<1>1. Timeout \in Nat
  BY TimesAssumption
<1>2. Span(0) = 0
  BY <1>1 DEF Span
<1>3. \A k \in Nat: Span(k) \in Nat /\ Span(k + 1) = Span(k) + Timeout
  BY <1>1 DEF Span
<1>4. \A j, k \in Nat: j <= k => Span(j) <= Span(k)
  <2> TAKE j, k \in Nat
  <2> HAVE j <= k
  <2>1. k - j \in Nat /\ (k - j) * Timeout \in Nat
    BY <1>1
  <2>2. (k - j) * Timeout = k * Timeout - j * Timeout
    BY <1>1
  <2>3. j * Timeout \in Nat /\ k * Timeout \in Nat
    BY <1>1
  <2> QED
    BY <2>1, <2>2, <2>3 DEF Span
<1> QED
  BY <1>2, <1>3, <1>4

LEMMA SpansOfRun ==
    /\ Span(Intents + 1) \in Nat
    /\ \A k \in 0..Intents + 1: Span(k) \in Nat /\ Span(k) <= Span(Intents + 1)
    /\ \A k \in 0..Intents: Span(k + 1) = Span(k) + Timeout /\ Span(k) + Timeout <= Span(Intents + 1)
<1>1. Intents \in Nat /\ Intents + 1 \in Nat
  BY TimesAssumption
<1>2. Span(Intents + 1) \in Nat
  BY <1>1, Spans
<1>3. ASSUME NEW k \in 0..Intents + 1
      PROVE  Span(k) \in Nat /\ Span(k) <= Span(Intents + 1)
  <2>1. k \in Nat /\ k <= Intents + 1
    BY <1>1
  <2> QED
    BY <1>1, <2>1, Spans
<1>4. ASSUME NEW k \in 0..Intents
      PROVE  Span(k + 1) = Span(k) + Timeout /\ Span(k) + Timeout <= Span(Intents + 1)
  <2>1. k \in Nat /\ k + 1 \in 0..Intents + 1
    BY <1>1
  <2>2. Span(k + 1) = Span(k) + Timeout
    BY <2>1, Spans
  <2>3. Span(k + 1) <= Span(Intents + 1)
    BY <2>1, <1>3
  <2> QED
    BY <2>2, <2>3
<1> QED
  BY <1>2, <1>3, <1>4

LEMMA PacedKept ==
    ASSUME OneRun, NEW w \in Workers, Running(w), Only(w), lapsed' = lapsed, ~lapsed => InTime(w)'
    PROVE  Paced'
<1> QED
  BY DEF OneRun, Paced, InTime, Only, Running

LEMMA PacedStep ==
    ASSUME TypeOK, RunInv, OneRun, Paced, [Next]_vars
    PROVE  Paced'
<1>t. Timeout \in Nat /\ Intents \in Nat /\ clock \in Int /\ event.lockedAt \in Int
  BY TimesAssumption DEF TypeOK
<1>1. ASSUME NEW w \in Workers, Claim(w)
      PROVE  Paced'
  <2>1. ~lapsed' => \A v \in Workers: ~Running(v)
    BY <1>1, ClaimStep
  <2>2. /\ clock' = clock
        /\ run' = run \/ (event'.lockedAt = clock /\ run'[w].at = "claimed" /\ Only(w))
    BY <1>1, ClaimStep
  <2> QED
    BY <2>1, <2>2 DEF Paced, InTime, Only, Running
<1>2. ASSUME NEW w \in Workers, EnsureActions(w)
      PROVE  Paced'
  <2>1. /\ Running(w) /\ Only(w) /\ lapsed' = lapsed /\ clock' = clock /\ event' = event
        /\ run[w].at = "claimed" /\ run'[w].since = clock
        /\ \/ run'[w].at = "calling" /\ run'[w].next = 0
           \/ run'[w].at = "between" /\ run'[w].next = 1
    BY <1>2, EnsureActionsStep DEF Running
  <2>2. Span(0) = 0 /\ Span(1) \in Nat
    BY Spans
  <2>3. ~lapsed => InTime(w)'
    BY <1>t, <2>1, <2>2 DEF Paced, InTime
  <2> QED
    BY <2>1, <2>3, PacedKept
<1>3. ASSUME NEW w \in Workers, SuggestionEnds(w)
      PROVE  Paced'
  <2>1. /\ Running(w) /\ Only(w) /\ lapsed' = lapsed /\ clock' = clock /\ event' = event
        /\ run[w].at = "calling" /\ run[w].next = 0 /\ run[w].since \in Int
        /\ run'[w].at = "between" /\ run'[w].next = 1
    BY <1>3, SuggestionEndsStep DEF Running, TypeOK
  <2>2. Span(0) = 0 /\ Span(1) = Timeout
    BY Spans, <1>t
  <2>3. ~lapsed => InTime(w)'
    BY <1>t, <2>1, <2>2 DEF Paced, InTime
  <2> QED
    BY <2>1, <2>3, PacedKept
<1>4. ASSUME NEW w \in Workers, StartAction(w)
      PROVE  Paced'
  <2>1. /\ Running(w) /\ Only(w) /\ lapsed' = lapsed /\ clock' = clock /\ event' = event
        /\ run[w].at = "between" /\ run[w].next \in Nat
        /\ \/ run'[w].at = "calling" /\ run'[w].next = run[w].next /\ run'[w].since = clock
           \/ run'[w].at = "between" /\ run'[w].next = run[w].next + 1
    BY <1>4, StartActionStep DEF Running, Actions
  <2>2. Span(run[w].next) \in Nat /\ Span(run[w].next + 1) = Span(run[w].next) + Timeout
    BY <2>1, Spans
  <2>3. ~lapsed => InTime(w)'
    BY <1>t, <2>1, <2>2 DEF Paced, InTime
  <2> QED
    BY <2>1, <2>3, PacedKept
<1>5. ASSUME NEW w \in Workers, ActionEnds(w)
      PROVE  Paced'
  <2>1. /\ Running(w) /\ Only(w) /\ lapsed' = lapsed /\ clock' = clock /\ event' = event
        /\ run[w].at = "calling" /\ run[w].next \in 0..Intents /\ run[w].since \in Int
        /\ \/ run'[w].at = "failed"
           \/ run'[w].at = "between" /\ run'[w].next = run[w].next + 1
    BY <1>5, ActionEndsStep DEF Running, RunInv, TypeOK
  <2>2. /\ Span(run[w].next) \in Nat /\ Span(run[w].next + 1) = Span(run[w].next) + Timeout
        /\ Span(run[w].next + 1) <= Span(Intents + 1) /\ Span(Intents + 1) \in Nat
    <3>1. run[w].next \in 0..Intents + 1
      BY <1>t, <2>1
    <3> QED
      BY <2>1, <3>1, SpansOfRun
  <2>3. ~lapsed => InTime(w)'
    BY <1>t, <2>1, <2>2 DEF Paced, InTime
  <2> QED
    BY <2>1, <2>3, PacedKept
<1>6. ASSUME NEW w \in Workers, RunEnds(w)
      PROVE  Paced'
  <2>1. Running(w) /\ Only(w) /\ lapsed' = lapsed /\ run'[w].at = "idle"
    BY <1>6, RunEndsStep DEF Running, Idle, Run
  <2>2. ~lapsed => InTime(w)'
    BY <2>1 DEF InTime
  <2> QED
    BY <2>1, <2>2, PacedKept
<1>7. ASSUME NEW w \in Workers, StatementFails(w) \/ Crash(w)
      PROVE  Paced'
  <2>1. /\ Running(w) /\ Only(w) /\ lapsed' = lapsed /\ clock' = clock /\ event' = event
        /\ run'[w].at \in {"failed", "idle"} /\ run[w].since \in Int
        /\ run[w].at \in Places /\ run[w].next \in 0..Intents + 1
    BY <1>7, FaultStep DEF Idle, Run, TypeOK, Places
  <2>2. /\ Span(run[w].next) \in Nat /\ Span(run[w].next) <= Span(Intents + 1) /\ Span(Intents + 1) \in Nat
        /\ run[w].next \in 0..Intents => Span(run[w].next) + Timeout <= Span(Intents + 1)
    BY <2>1, SpansOfRun
  <2>3. run[w].at = "calling" => run[w].next \in 0..Intents
    BY DEF RunInv
  <2>4. ~lapsed => clock <= event.lockedAt + Span(Intents + 1)
    BY <1>t, <2>1, <2>2, <2>3 DEF Paced, InTime, Places, Running
  <2>5. ~lapsed => InTime(w)'
    BY <2>1, <2>4 DEF InTime
  <2> QED
    BY <2>1, <2>5, PacedKept
<1>8. CASE Tick
  <2>1. /\ clock' = clock + 1 /\ UNCHANGED <<event, run, lapsed>>
        /\ \A w \in Workers: Running(w) => run[w].at = "calling" /\ clock < run[w].since + Timeout
    BY <1>8 DEF Tick, Calling
  <2>2. \A w \in Workers: run[w].since \in Int /\ (~Running(w) => run[w].at = "idle")
    BY DEF TypeOK, Running
  <2> QED
    BY <1>t, <2>1, <2>2 DEF Paced, InTime
<1>9. CASE UNCHANGED vars
  BY <1>9 DEF vars, Paced, InTime
<1> QED
  BY <1>1, <1>2, <1>3, <1>4, <1>5, <1>6, <1>7, <1>8, <1>9 DEF Next, Done

------------------------------------------------------------------------------
LEMMA Typed ==
    ASSUME TypeOK
    PROVE  /\ event.retryCount \in Nat /\ event.due \in Nat /\ clock \in Nat
           /\ \A i \in Actions: actions[i] \in ActionRows /\ actions[i].attempts \in Nat /\ actions[i].due \in Nat
           /\ \A w \in Workers:
                /\ run[w] \in RunRows /\ run[w].retryCount \in Nat
                /\ \A i \in Actions: run[w].list[i] \in ActionRows /\ run[w].list[i].attempts \in Nat
<1>1. Times \subseteq Nat /\ clock \in Nat
  BY TimesAssumption DEF Times, TypeOK
<1>2. run \in [Workers -> RunRows] /\ actions \in [Actions -> ActionRows] /\ event \in EventRows
  BY DEF TypeOK, RunRows, Places, EventRows
<1>3. \A a \in ActionRows: a.attempts \in Nat /\ a.due \in Nat
  BY <1>1 DEF ActionRows
<1>4. \A r \in RunRows: r.retryCount \in Nat /\ r.list \in [Actions -> ActionRows]
  BY DEF RunRows
<1> QED
  BY <1>1, <1>2, <1>3, <1>4 DEF EventRows

LEMMA CoveredKept ==
    ASSUME OneRun, NEW w \in Workers, Running(w), Only(w), lapsed' = lapsed, event' = event,
           ~lapsed => CoveredRows' /\ CoveredRun(w)'
    PROVE  Covered'
<1> SUFFICES ASSUME ~lapsed PROVE Covered'
  BY DEF Covered
<1>1. event'.status = "processing"
  BY DEF OneRun
<1>2. \A v \in Workers \ {w}: run'[v].at = "idle"
  BY DEF OneRun, Only, Running
<1>3. \A v \in Workers: CoveredRun(v)'
  BY <1>2 DEF CoveredRun, AtCall
<1> QED
  BY <1>1, <1>3 DEF Covered

LEMMA CoveredStep ==
    ASSUME TypeOK, TypeOK', RunInv, OneRun, Covered, [Next]_vars
    PROVE  Covered'
<1>1. ASSUME NEW w \in Workers, Claim(w)
      PROVE  Covered'
  <2> SUFFICES ASSUME ~lapsed' PROVE Covered'
    BY DEF Covered
  <2>1. /\ ~lapsed /\ clock' = clock /\ actions' = actions /\ \A v \in Workers: run[v].at = "idle"
    BY <1>1, ClaimStep DEF Running
  <2>2. CASE run' = run /\ event' = Closed(event.retryCount + 1)
    BY <2>1, <2>2 DEF Covered, CoveredRun, AtCall, Closed
  <2>3. CASE /\ event'.status = "processing" /\ run'[w].at = "claimed"
             /\ run'[w].retryCount = event'.retryCount /\ Only(w)
             /\ \/ Stale /\ event'.retryCount = event.retryCount + 1
                \/ event.status = "pending" /\ event.due <= clock /\ event'.retryCount = event.retryCount
    <3>1. \A v \in Workers \ {w}: run'[v].at = "idle"
      BY <2>1, <2>3 DEF Only
    <3> DEFINE n == event.retryCount
    <3>2. /\ RetryBackoff(n + 1) \in Nat /\ RetryBackoff(n + 2) \in Nat
          /\ RetryBackoff(n + 1) <= RetryBackoff(n + 2) /\ (n + 1) + 1 = n + 2
      BY Typed, Backoffs
    <3>3. CASE Stale /\ event'.retryCount = n + 1
      <4>1. CoveredRows
        BY <2>1, <3>3 DEF Covered, Stale
      <4>2. event'.retryCount + 1 = n + 2 /\ RetryBackoff(event'.retryCount + 1) = RetryBackoff(n + 2)
        BY <3>2, <3>3
      <4> HIDE DEF n
      <4>3. \A i \in Actions: actions[i].attempts <= n + 1
        BY <4>1 DEF CoveredRows, WithinRetries, n
      <4>4. CoveredRows'
        <5>1. \A i \in Actions: actions[i].status = "pending" => actions[i].due <= clock + RetryBackoff(n + 1)
          BY <4>1 DEF CoveredRows, WaitsUntil, n
        <5>2. \A i \in Actions: actions[i].status = "pending" => actions[i].due <= clock + RetryBackoff(n + 2)
          BY <3>2, <5>1, Typed
        <5>3. \A i \in Actions: actions[i].attempts <= n + 2
          BY <4>3, Typed DEF n
        <5>4. CoveredRows' = \A i \in Actions:
                 /\ actions[i].attempts <= n + 2
                 /\ actions[i].status = "pending" => actions[i].due <= clock + RetryBackoff(event'.retryCount + 1)
          BY <2>1, <4>2 DEF CoveredRows, WithinRetries, WaitsUntil, RetryBackoff
        <5> QED
          BY <4>2, <5>2, <5>3, <5>4
      <4>5. CoveredRun(w)'
        BY <2>1, <2>3, <3>3, <4>3 DEF CoveredRun, WithinRetries, AtCall
      <4>6. \A v \in Workers: CoveredRun(v)'
        BY <3>1, <4>5 DEF CoveredRun, AtCall
      <4> QED
        BY <2>3, <4>4, <4>6 DEF Covered
    <3>4. CASE event.status = "pending" /\ event.due <= clock /\ event'.retryCount = n
      <4>1. \A i \in Actions: WithinRetries(i, n) /\ WaitsUntil(i, event.due)
        BY <2>1, <3>4 DEF Covered
      <4>2. CoveredRows'
        <5>1. \A i \in Actions: /\ actions[i].attempts <= n + 1
                                /\ actions[i].status = "pending" => actions[i].due <= clock + RetryBackoff(n + 1)
          BY <3>2, <3>4, <4>1, Typed DEF WithinRetries, WaitsUntil
        <5> QED
          BY <2>1, <3>4, <5>1 DEF CoveredRows, WithinRetries, WaitsUntil, RetryBackoff
      <4>3. CoveredRun(w)'
        BY <2>1, <2>3, <3>4, <4>1 DEF CoveredRun, WithinRetries, AtCall
      <4>4. \A v \in Workers: CoveredRun(v)'
        BY <3>1, <4>3 DEF CoveredRun, AtCall
      <4> QED
        BY <2>3, <4>2, <4>4 DEF Covered
    <3> QED
      BY <2>3, <3>3, <3>4
  <2> QED
    BY <1>1, <2>2, <2>3, ClaimStep
<1> DEFINE n == event.retryCount
<1>n. n \in Nat /\ RetryBackoff(n + 1) \in Nat
  BY Typed, Backoffs
<1>2. ASSUME NEW w \in Workers, EnsureActions(w)
      PROVE  Covered'
  <2>1. /\ run[w].at = "claimed" /\ clock' = clock /\ event' = event /\ lapsed' = lapsed /\ Only(w)
        /\ \A i \in Actions: actions'[i] = actions[i] \/ actions'[i] = NewAction(n)
        /\ run'[w].retryCount = run[w].retryCount /\ run'[w].list = actions'
    BY <1>2, EnsureActionsStep
  <2>2. NewAction(n).attempts = 0 /\ NewAction(n).due = 0
    BY DEF NewAction
  <2>3. ASSUME ~lapsed
        PROVE  CoveredRows' /\ CoveredRun(w)'
    <3>1. /\ CoveredRows /\ run[w].retryCount = n
          /\ \A i \in Actions: WithinRetries(i, n)
      BY <2>1, <2>3 DEF Covered, CoveredRun, OneRun, Running
    <3>2. \A i \in Actions: actions'[i].attempts <= n
      BY <1>n, <2>1, <2>2, <3>1, Typed DEF WithinRetries
    <3>3. \A i \in Actions: /\ actions'[i].attempts <= n + 1
                            /\ actions'[i].status = "pending" => actions'[i].due <= clock + RetryBackoff(n + 1)
      BY <1>n, <2>1, <2>2, <3>1, Typed DEF CoveredRows, WaitsUntil, WithinRetries
    <3>4. CoveredRows'
      BY <2>1, <3>3 DEF CoveredRows, WithinRetries, WaitsUntil, RetryBackoff
    <3>5. CoveredRun(w)'
      BY <2>1, <3>1, <3>2 DEF CoveredRun, WithinRetries
    <3> QED
      BY <3>4, <3>5
  <2> QED
    BY <2>1, <2>3, CoveredKept DEF Running
<1>3. ASSUME NEW w \in Workers, SuggestionEnds(w)
      PROVE  Covered'
  <2>1. /\ run[w].at = "calling" /\ run[w].next = 0 /\ Only(w)
        /\ UNCHANGED <<clock, event, lapsed, actions>>
        /\ run'[w].next = 1 /\ run'[w].retryCount = run[w].retryCount /\ run'[w].list = run[w].list
    BY <1>3, SuggestionEndsStep
  <2>2. ASSUME ~lapsed
        PROVE  CoveredRows' /\ CoveredRun(w)'
    <3>1. CoveredRows /\ CoveredRun(w)
      BY <2>1, <2>2 DEF Covered, OneRun, Running
    <3>2. CoveredRows'
      BY <2>1, <3>1 DEF CoveredRows, WithinRetries, WaitsUntil, RetryBackoff
    <3>3. CoveredRun(w)'
      BY <1>3, <2>1, <3>1, SuggestionEndsStep DEF CoveredRun, AtCall, WithinRetries, Actions
    <3> QED
      BY <3>2, <3>3
  <2> QED
    BY <2>1, <2>2, CoveredKept DEF Running
<1>4. ASSUME NEW w \in Workers, StartAction(w)
      PROVE  Covered'
  <2> DEFINE i == run[w].next
  <2>1. /\ run[w].at = "between" /\ i \in Actions /\ Only(w)
        /\ UNCHANGED <<clock, event, lapsed>>
        /\ run'[w].retryCount = run[w].retryCount /\ run'[w].at \in {"calling", "between"}
        /\ run'[w].next = i \/ run'[w].next = i + 1
        /\ \A j \in Actions \ {i}: actions'[j] = actions[j] /\ run'[w].list[j] = run[w].list[j]
        /\ \/ actions'[i] = actions[i]
           \/ actions'[i].status = "processing" /\ actions'[i].attempts = actions[i].attempts
        /\ run'[w].list[i].attempts \in {run[w].list[i].attempts, actions[i].attempts}
    BY <1>4, StartActionStep
  <2>2. ASSUME ~lapsed
        PROVE  CoveredRows' /\ CoveredRun(w)'
    <3>1. /\ CoveredRows /\ run[w].retryCount = n
          /\ \A j \in Actions: run[w].list[j].attempts <= n /\ (j >= i => actions[j].attempts <= n)
      BY <2>1, <2>2 DEF Covered, CoveredRun, OneRun, Running, AtCall, WithinRetries
    <3>2. \A j \in Actions:
            \/ actions'[j] = actions[j]
            \/ actions'[j].status = "processing" /\ actions'[j].attempts = actions[j].attempts
      BY <2>1
    <3>3. \A j \in Actions: run'[w].list[j].attempts <= n
      <4>1. i >= i
        BY <2>1 DEF Actions
      <4> QED
        BY <2>1, <3>1, <4>1
    <3>4. CoveredRows'
      BY <2>1, <3>1, <3>2 DEF CoveredRows, WithinRetries, WaitsUntil, RetryBackoff
    <3>5. \A j \in Actions: j >= run'[w].next => actions'[j].attempts <= n
      BY <2>1, <3>1, <3>2 DEF Actions
    <3>6. CoveredRun(w)'
      BY <2>1, <3>1, <3>3, <3>5 DEF CoveredRun, WithinRetries
    <3> QED
      BY <3>4, <3>6
  <2> QED
    BY <2>1, <2>2, CoveredKept DEF Running
<1>5. ASSUME NEW w \in Workers, ActionEnds(w)
      PROVE  Covered'
  <2> DEFINE i == run[w].next
             copy == run[w].list[i].attempts
  <2>1. /\ run[w].at = "calling" /\ i \in Actions /\ Only(w)
        /\ UNCHANGED <<clock, event, lapsed>>
        /\ run'[w].retryCount = run[w].retryCount /\ run'[w].list = run[w].list
        /\ run'[w].at = "failed" \/ (run'[w].at = "between" /\ run'[w].next = i + 1)
        /\ \A j \in Actions \ {i}: actions'[j] = actions[j]
        /\ \/ actions'[i] = actions[i]
           \/ actions'[i].status # "pending" /\ actions'[i].attempts \in {actions[i].attempts, actions[i].attempts + 1}
           \/ actions'[i].due = clock + RetryBackoff(copy + 1) /\ actions'[i].attempts = actions[i].attempts + 1
    BY <1>5, ActionEndsStep
  <2>2. ASSUME ~lapsed
        PROVE  CoveredRows' /\ CoveredRun(w)'
    <3>1. /\ CoveredRows /\ run[w].retryCount = n
          /\ \A j \in Actions: run[w].list[j].attempts <= n /\ (j >= i => actions[j].attempts <= n)
      BY <2>1, <2>2 DEF Covered, CoveredRun, OneRun, Running, AtCall, WithinRetries
    <3>2. copy \in Nat /\ copy <= n /\ actions[i].attempts \in Nat /\ actions[i].attempts <= n
      <4>1. i >= i
        BY <2>1 DEF Actions
      <4> QED
        BY <2>1, <3>1, <4>1, Typed
    <3>3. RetryBackoff(copy + 1) <= RetryBackoff(n + 1) /\ RetryBackoff(copy + 1) \in Nat
      BY <1>n, <3>2, Backoffs
    <3>4. \A j \in Actions \ {i}: /\ actions'[j].attempts <= n + 1
                                  /\ actions'[j].status = "pending" => actions'[j].due <= clock + RetryBackoff(n + 1)
      BY <2>1, <3>1 DEF CoveredRows, WithinRetries, WaitsUntil
    <3>5. /\ actions'[i].attempts <= n + 1
          /\ actions'[i].status = "pending" => actions'[i].due <= clock + RetryBackoff(n + 1)
      <4> HIDE DEF copy
      <4>1. /\ actions[i].attempts <= n + 1
            /\ actions[i].status = "pending" => actions[i].due <= clock + RetryBackoff(n + 1)
        BY <2>1, <3>1 DEF CoveredRows, WithinRetries, WaitsUntil
      <4> QED
        BY <1>n, <2>1, <3>2, <3>3, <4>1, Typed
    <3>6. CoveredRows'
      <4>1. \A j \in Actions: /\ actions'[j].attempts <= n + 1
                              /\ actions'[j].status = "pending" => actions'[j].due <= clock + RetryBackoff(n + 1)
        <5> TAKE j \in Actions
        <5>1. CASE j = i
          BY <3>5, <5>1
        <5>2. CASE j # i
          BY <3>4, <5>2
        <5> QED
          BY <5>1, <5>2
      <4>2. clock' = clock /\ event'.retryCount = n
        BY <2>1
      <4>3. RetryBackoff(n + 1)' = RetryBackoff(n + 1)
        BY <2>1 DEF RetryBackoff
      <4> QED
        BY <4>1, <4>2, <4>3 DEF CoveredRows, WithinRetries, WaitsUntil
    <3>7. \A j \in Actions: run'[w].at = "between" /\ j >= run'[w].next => actions'[j].attempts <= n
      <4>1. \A j \in Actions: j >= i + 1 => j # i /\ j >= i
        BY <2>1 DEF Actions
      <4> QED
        BY <2>1, <3>1, <4>1
    <3>8. CoveredRun(w)'
      BY <2>1, <3>1, <3>7 DEF CoveredRun, WithinRetries, AtCall
    <3> QED
      BY <3>6, <3>8
  <2> QED
    BY <2>1, <2>2, CoveredKept DEF Running
<1>6. ASSUME NEW w \in Workers, RunEnds(w)
      PROVE  Covered'
  <2> SUFFICES ASSUME ~lapsed' PROVE Covered'
    BY DEF Covered
  <2>1. /\ Running(w) /\ Only(w) /\ run'[w].at = "idle" /\ UNCHANGED <<clock, actions, lapsed>>
        /\ \/ event'.status # "processing" /\ event'.status # "pending"
           \/ /\ event'.status = "pending" /\ event'.retryCount = n + 1
              /\ event'.due = clock + RetryBackoff(run[w].retryCount + 1)
    BY <1>6, RunEndsStep DEF Running, Idle, Run, Closed, OneRun
  <2>2. /\ ~lapsed /\ run[w].retryCount = n /\ CoveredRows
        /\ \A v \in Workers: run'[v].at = "idle"
    BY <2>1 DEF OneRun, Covered, Only, Running
  <2>3. \A v \in Workers: CoveredRun(v)'
    BY <2>2 DEF CoveredRun, AtCall
  <2>4. event'.status = "pending" =>
          \A i \in Actions: /\ actions'[i].attempts <= event'.retryCount
                            /\ actions'[i].status = "pending" => actions'[i].due <= event'.due
    BY <2>1, <2>2 DEF CoveredRows, WithinRetries, WaitsUntil
  <2> QED
    BY <2>1, <2>3, <2>4 DEF Covered, WithinRetries, WaitsUntil
<1>7. ASSUME NEW w \in Workers, StatementFails(w) \/ Crash(w)
      PROVE  Covered'
  <2>1. /\ Running(w) /\ Only(w) /\ run'[w].at \in {"failed", "idle"}
        /\ UNCHANGED <<clock, event, actions, lapsed>>
    BY <1>7, FaultStep DEF Idle, Run
  <2>2. CoveredRun(w)'
    BY <2>1 DEF CoveredRun, AtCall
  <2>3. ~lapsed => CoveredRows'
    BY <2>1 DEF Covered, OneRun, CoveredRows, WithinRetries, WaitsUntil, RetryBackoff
  <2> QED
    BY <2>1, <2>2, <2>3, CoveredKept
<1>8. CASE Tick
  <2>1. clock' = clock + 1 /\ UNCHANGED <<event, actions, run, lapsed>>
    BY <1>8 DEF Tick
  <2>2. CoveredRows => CoveredRows'
    <3> SUFFICES ASSUME CoveredRows PROVE CoveredRows'
      OBVIOUS
    <3>1. \A i \in Actions: /\ actions[i].attempts <= n + 1
                            /\ actions[i].status = "pending" => actions[i].due <= clock + 1 + RetryBackoff(n + 1)
      BY <1>n, Typed DEF CoveredRows, WithinRetries, WaitsUntil
    <3> QED
      BY <2>1, <3>1 DEF CoveredRows, WithinRetries, WaitsUntil, RetryBackoff
  <2> QED
    BY <2>1, <2>2 DEF Covered, CoveredRun, WithinRetries, WaitsUntil, AtCall
<1>9. CASE UNCHANGED vars
  BY <1>9 DEF vars, Covered, CoveredRun, CoveredRows, WithinRetries, WaitsUntil, AtCall, RetryBackoff
<1> QED
  BY <1>1, <1>2, <1>3, <1>4, <1>5, <1>6, <1>7, <1>8, <1>9 DEF Next, Done

------------------------------------------------------------------------------
LEMMA RunBounded ==
    ASSUME TypeOK, RunInv, OneRun, Paced, ~lapsed, NEW w \in Workers, Running(w)
    PROVE  event.status = "processing" /\ clock <= event.lockedAt + (Intents + 1) * Timeout
<1>1. /\ Timeout \in Nat /\ clock \in Int /\ event.lockedAt \in Nat
      /\ run[w].since \in Int /\ run[w].at \in Places /\ run[w].next \in 0..Intents + 1
  BY TimesAssumption DEF TypeOK, Places
<1>2. /\ Span(run[w].next) \in Nat /\ Span(run[w].next) <= Span(Intents + 1) /\ Span(Intents + 1) \in Nat
      /\ run[w].next \in 0..Intents => Span(run[w].next) + Timeout <= Span(Intents + 1)
  BY <1>1, SpansOfRun
<1>3. run[w].at = "calling" => run[w].next \in 0..Intents
  BY DEF RunInv
<1>4. clock <= event.lockedAt + Span(Intents + 1)
  BY <1>1, <1>2, <1>3 DEF Paced, InTime, Places, Running
<1> QED
  BY <1>4 DEF Span, OneRun

LEMMA BehindStep ==
    ASSUME TypeOK, RunInv, OneRun, Paced, Covered, Behind, [Next]_vars
    PROVE  Behind'
<1> DEFINE n == event.retryCount
           S == Span(Intents + 1)
<1>t. S \in Nat /\ n \in Nat /\ RetryBackoff(n + 1) \in Nat /\ clock \in Nat /\ event.lockedAt \in Nat /\ event.lockedAt <= clock
  <2>1. event.lockedAt \in 0..clock
    BY DEF TypeOK
  <2> QED
    BY <2>1, SpansOfRun, Typed, Backoffs
<1>s. S' = S /\ \A m: RetryBackoff(m)' = RetryBackoff(m)
  BY DEF Span, RetryBackoff
<1> HIDE DEF S
<1>0. ASSUME event'.status = "processing" => event' = event,
             \A i \in Actions: WaitsUntil(i, event.lockedAt + S + RetryBackoff(n + 1)) =>
                (actions'[i].status = "pending" => actions'[i].due <= event.lockedAt + S + RetryBackoff(n + 1)),
             ~lapsed' => ~lapsed
      PROVE  Behind'
  <2> SUFFICES ASSUME ~lapsed, event' = event, event.status = "processing", NEW i \in Actions
               PROVE  WaitsUntil(i, event.lockedAt + S + RetryBackoff(n + 1))'
    BY <1>0 DEF Behind, S
  <2>1. WaitsUntil(i, event.lockedAt + S + RetryBackoff(n + 1))
    BY DEF Behind, S
  <2>2. actions'[i].status = "pending" => actions'[i].due <= event.lockedAt + S + RetryBackoff(n + 1)
    BY <1>0, <2>1
  <2> QED
    BY <1>s, <2>2 DEF WaitsUntil
<1>1. ASSUME NEW w \in Workers, Claim(w)
      PROVE  Behind'
  <2> SUFFICES ASSUME ~lapsed', event'.status = "processing", NEW i \in Actions, actions'[i].status = "pending"
               PROVE  actions'[i].due <= event'.lockedAt + S + RetryBackoff(event'.retryCount + 1)
    BY <1>s DEF Behind, WaitsUntil, S
  <2>1. ~lapsed /\ actions' = actions /\ event'.lockedAt = clock
    <3>1. ~lapsed /\ actions' = actions
      BY <1>1, ClaimStep
    <3>2. Closed(event.retryCount + 1).status # "processing"
      BY DEF Closed
    <3>3. event'.lockedAt = clock
      BY <1>1, <3>2, ClaimStep
    <3> QED
      BY <3>1, <3>3
  <2>2. CASE Stale /\ event'.retryCount = n + 1
    <3>1. actions[i].due <= event.lockedAt + S + RetryBackoff(n + 1)
      BY <2>1, <2>2 DEF Behind, Stale, WaitsUntil, S
    <3>2. (n + 1) + 1 \in Nat /\ RetryBackoff((n + 1) + 1) \in Nat /\ RetryBackoff(n + 1) <= RetryBackoff((n + 1) + 1)
      BY <1>t, Backoffs
    <3>3. actions[i].due <= clock + S + RetryBackoff((n + 1) + 1)
      BY <1>t, <3>1, <3>2, Typed
    <3> QED
      BY <2>1, <2>2, <3>3
  <2>3. CASE event.status = "pending" /\ event.due <= clock /\ event'.retryCount = n
    <3>1. actions[i].due <= event.due
      BY <2>1, <2>3 DEF Covered, WaitsUntil
    <3>2. actions[i].due <= clock + S + RetryBackoff(n + 1)
      BY <1>t, <2>3, <3>1, Typed
    <3> QED
      BY <2>1, <2>3, <3>2
  <2> QED
    BY <1>1, <2>2, <2>3, ClaimStep DEF Closed
<1>2. ASSUME NEW w \in Workers, EnsureActions(w)
      PROVE  Behind'
  <2>1. /\ event' = event /\ lapsed' = lapsed
        /\ \A i \in Actions: actions'[i] = actions[i] \/ actions'[i] = NewAction(n)
    BY <1>2, EnsureActionsStep
  <2>2. NewAction(n).due = 0 /\ 0 <= event.lockedAt + S + RetryBackoff(n + 1)
    BY <1>t DEF NewAction
  <2>3. \A i \in Actions: WaitsUntil(i, event.lockedAt + S + RetryBackoff(n + 1)) =>
           (actions'[i].status = "pending" => actions'[i].due <= event.lockedAt + S + RetryBackoff(n + 1))
    BY <2>1, <2>2 DEF WaitsUntil
  <2> QED
    BY <1>0, <2>1, <2>3
<1>3. ASSUME NEW w \in Workers, SuggestionEnds(w) \/ StatementFails(w) \/ Crash(w)
      PROVE  Behind'
  <2>1. UNCHANGED <<event, actions, lapsed>>
    BY <1>3, SuggestionEndsStep, FaultStep
  <2> QED
    BY <1>0, <2>1 DEF WaitsUntil
<1>4. ASSUME NEW w \in Workers, StartAction(w)
      PROVE  Behind'
  <2>1. /\ UNCHANGED <<event, lapsed>>
        /\ \A i \in Actions: actions'[i] = actions[i] \/ actions'[i].status = "processing"
    BY <1>4, StartActionStep
  <2> QED
    BY <1>0, <2>1 DEF WaitsUntil
<1>5. ASSUME NEW w \in Workers, ActionEnds(w)
      PROVE  Behind'
  <2> DEFINE i == run[w].next
             copy == run[w].list[i].attempts
  <2>1. /\ run[w].at = "calling" /\ i \in Actions /\ UNCHANGED <<clock, event, lapsed>>
        /\ \A j \in Actions \ {i}: actions'[j] = actions[j]
        /\ \/ actions'[i] = actions[i]
           \/ actions'[i].status # "pending"
           \/ actions'[i].due = clock + RetryBackoff(copy + 1)
    BY <1>5, ActionEndsStep
  <2>2. CASE lapsed
    BY <2>1, <2>2 DEF Behind
  <2>3. CASE ~lapsed
    <3>1. run[w].retryCount = n /\ copy <= n /\ copy \in Nat /\ clock <= event.lockedAt + S
      <4>1. Running(w) /\ AtCall(w)
        BY <2>1 DEF Running, AtCall
      <4>2. copy \in Nat
        BY <2>1, Typed
      <4> QED
        BY <2>1, <2>3, <4>1, <4>2, RunBounded DEF OneRun, Covered, CoveredRun, S, Span
    <3>2. RetryBackoff(copy + 1) \in Nat /\ RetryBackoff(copy + 1) <= RetryBackoff(n + 1)
      BY <1>t, <3>1, Backoffs
    <3>3. clock + RetryBackoff(copy + 1) <= event.lockedAt + S + RetryBackoff(n + 1)
      BY <1>t, <3>1, <3>2
    <3>4. \A j \in Actions: WaitsUntil(j, event.lockedAt + S + RetryBackoff(n + 1)) =>
             (actions'[j].status = "pending" => actions'[j].due <= event.lockedAt + S + RetryBackoff(n + 1))
      <4> SUFFICES ASSUME NEW j \in Actions, WaitsUntil(j, event.lockedAt + S + RetryBackoff(n + 1)),
                          actions'[j].status = "pending"
                   PROVE  actions'[j].due <= event.lockedAt + S + RetryBackoff(n + 1)
        OBVIOUS
      <4>1. actions[j].status = "pending" => actions[j].due <= event.lockedAt + S + RetryBackoff(n + 1)
        BY DEF WaitsUntil
      <4> HIDE DEF copy
      <4>2. CASE j = i
        BY <2>1, <3>3, <4>1, <4>2
      <4>3. CASE j # i
        BY <2>1, <4>1, <4>3
      <4> QED
        BY <4>2, <4>3
    <3> QED
      BY <1>0, <2>1, <3>4
  <2> QED
    BY <2>2, <2>3
<1>6. ASSUME NEW w \in Workers, RunEnds(w)
      PROVE  Behind'
  <2>1. event'.status # "processing"
    BY <1>6, RunEndsStep DEF Closed
  <2> QED
    BY <2>1 DEF Behind
<1>7. CASE Tick \/ UNCHANGED vars
  <2>1. UNCHANGED <<event, actions, lapsed>>
    BY <1>7 DEF Tick, vars
  <2> QED
    BY <1>0, <2>1 DEF WaitsUntil
<1> QED
  BY <1>1, <1>2, <1>3, <1>4, <1>5, <1>6, <1>7 DEF Next, Done

------------------------------------------------------------------------------
(* The retries an action has missed: every step.                             *)
LEMMA Counting ==
    ASSUME TypeOK, NEW a \in ActionRows, NEW n \in Nat, NEW f \in Nat, NEW t \in Nat
    PROVE  /\ ~Open(a) => Counts(a, n, f) /\ Ready(a, n, f, t)
           /\ Counts(a, n, f) => Counts(a, n, f + 1) /\ Ready(a, n, f + 1, t)
           /\ Ready(a, n, f, t) => /\ Counts(a, n, f) /\ Ready(a, n, f, t + 1)
                                   /\ Counts(a, n + 1, f + 1) /\ Ready(a, n + 1, f + 1, t)
           /\ Ready(a, n, f, t) /\ a.status = "pending" /\ a.due > t => Counts(a, n + 1, f)
           /\ a.status = "processing" /\ Counts(a, n, f) => Ready(a, n + 1, f + 1, t) /\ Counts(a, n + 1, f + 1)
<1>1. a.born \in Nat /\ a.attempts \in Nat /\ a.due \in Nat
  BY TimesAssumption DEF ActionRows, Times, TypeOK
<1> QED
  BY <1>1 DEF Open, Counts, Ready

LEMMA KeptKept ==
    ASSUME OneRun, NEW w \in Workers, Running(w), Only(w), lapsed' = lapsed, event' = event,
           run'[w].at # "idle", ~lapsed => KeptRun(w)'
    PROVE  Kept'
<1> SUFFICES ASSUME ~lapsed PROVE Kept'
  BY DEF Kept
<1>1. event'.status = "processing"
  BY DEF OneRun
<1>2. \A v \in Workers \ {w}: run'[v].at = "idle"
  BY DEF OneRun, Only, Running
<1>3. \A v \in Workers: KeptRun(v)'
  BY <1>2 DEF KeptRun, AtCall
<1> QED
  BY <1>1, <1>3 DEF Kept, Running

LEMMA KeptBetween ==
    ASSUME NEW w \in Workers, NEW k \in Nat, NEW m \in Nat,
           run'[w].at = "between", run'[w].next = k, run'[w].retryCount = m,
           \A j \in Actions: j < k => Counts(actions'[j], m + 1, faults'),
           \A j \in Actions: j >= k => Ready(actions'[j], m, faults', clock') /\ run'[w].list[j] = actions'[j]
    PROVE  KeptRun(w)'
<1>1. \A j \in Actions: j > k \/ j = k => j >= k
  BY DEF Actions
<1> QED
  BY <1>1 DEF KeptRun, AtCall

LEMMA KeptStep ==
    ASSUME TypeOK, TypeOK', RunInv, OneRun, Covered, Kept, [Next]_vars
    PROVE  Kept'
<1> DEFINE n == event.retryCount
           f == faults
<1>n. n \in Nat /\ f \in Nat /\ clock \in Nat /\ n + 1 \in Nat /\ \A i \in Actions: actions[i] \in ActionRows
  BY Typed, TimesAssumption DEF TypeOK
<1>1. ASSUME NEW w \in Workers, Claim(w)
      PROVE  Kept'
  <2> SUFFICES ASSUME ~lapsed' PROVE Kept'
    BY DEF Kept
  <2>1. /\ ~lapsed /\ faults' = f /\ clock' = clock /\ actions' = actions
        /\ \A v \in Workers: ~Running(v) /\ run[v].at = "idle"
    BY <1>1, ClaimStep DEF Running
  <2>2. Stale => \A i \in Actions: Ready(actions[i], n + 1, f, clock)
    BY <2>1 DEF Stale, Kept
  <2>3. CASE Stale /\ run' = run /\ event' = Closed(n + 1)
    <3>1. \A i \in Actions: Counts(actions'[i], event'.retryCount, faults')
      BY <2>1, <2>2, <2>3 DEF Closed, Ready
    <3>2. event'.status = "failed" /\ \A v \in Workers: KeptRun(v)'
      BY <2>1, <2>3 DEF Closed, KeptRun, AtCall
    <3> QED
      BY <3>1, <3>2 DEF Kept
  <2>4. ASSUME event'.status = "processing", run'[w].at = "claimed",
               run'[w].retryCount = event'.retryCount, Only(w),
               \/ Stale /\ event'.retryCount = n + 1
               \/ event.status = "pending" /\ event.due <= clock /\ event'.retryCount = n
        PROVE  Kept'
    <3>1. \A i \in Actions: Ready(actions[i], event'.retryCount, f, clock)
      <4>1. CASE Stale /\ event'.retryCount = n + 1
        BY <2>2, <4>1
      <4>2. CASE event.status = "pending" /\ event.due <= clock /\ event'.retryCount = n
        <5>1. \A i \in Actions: Counts(actions[i], n, f) /\ WaitsUntil(i, event.due)
          BY <2>1, <4>2 DEF Kept, Covered
        <5>2. \A i \in Actions: actions[i].status = "pending" => ~(actions[i].due > clock)
          BY <4>2, <5>1, Typed DEF WaitsUntil
        <5> QED
          BY <4>2, <5>1, <5>2 DEF Ready
      <4> QED
        BY <2>4, <4>1, <4>2
    <3>2. KeptRun(w)'
      BY <2>1, <2>4, <3>1 DEF KeptRun, AtCall
    <3>3. \A v \in Workers \ {w}: run'[v].at = "idle"
      BY <2>1, <2>4 DEF Only
    <3>4. \A v \in Workers: KeptRun(v)'
      BY <3>2, <3>3 DEF KeptRun, AtCall
    <3> QED
      BY <2>4, <3>4 DEF Kept, Running
  <2> QED
    BY <1>1, <2>3, <2>4, ClaimStep
<1>2. ASSUME NEW w \in Workers, EnsureActions(w)
      PROVE  Kept'
  <2>1. /\ run[w].at = "claimed" /\ UNCHANGED <<clock, event, lapsed, faults>> /\ Only(w)
        /\ \A i \in Actions: actions'[i] = actions[i] \/ actions'[i] = NewAction(n)
        /\ run'[w].retryCount = run[w].retryCount /\ run'[w].list = actions'
        /\ \/ run'[w].at = "calling" /\ run'[w].next = 0
           \/ run'[w].at = "between" /\ run'[w].next = 1
    BY <1>2, EnsureActionsStep
  <2>2. Ready(NewAction(n), n, f, clock)
    <3>1. /\ NewAction(n).status = "pending" /\ NewAction(n).attempts = 0
          /\ NewAction(n).due = 0 /\ NewAction(n).born = n
      BY DEF NewAction
    <3> QED
      BY <1>n, <3>1 DEF Ready, Counts
  <2>3. ASSUME ~lapsed
        PROVE  KeptRun(w)'
    <3>1. run[w].retryCount = n /\ \A i \in Actions: Ready(actions[i], n, f, clock)
      BY <2>1, <2>3 DEF Kept, KeptRun, OneRun, Running
    <3>2. \A i \in Actions: Ready(actions'[i], n, f, clock)
      BY <2>1, <2>2, <3>1
    <3>3. \A i \in Actions: i \in Nat /\ i >= 1
      BY TimesAssumption DEF Actions
    <3> QED
      BY <2>1, <3>1, <3>2, <3>3 DEF KeptRun, AtCall
  <2> QED
    BY <2>1, <2>3, KeptKept DEF Running
<1>3. ASSUME NEW w \in Workers, SuggestionEnds(w)
      PROVE  Kept'
  <2>1. /\ run[w].at = "calling" /\ run[w].next = 0 /\ Only(w)
        /\ UNCHANGED <<clock, event, lapsed, actions, faults>> /\ run'[w].at = "between"
        /\ run'[w].next = 1 /\ run'[w].retryCount = run[w].retryCount /\ run'[w].list = run[w].list
    BY <1>3, SuggestionEndsStep
  <2>2. ASSUME ~lapsed
        PROVE  KeptRun(w)'
    <3>1. \A i \in Actions: i \in Nat /\ i > 0 /\ ~(i < 1) /\ i # 0
      BY TimesAssumption DEF Actions
    <3>2. \A i \in Actions: Ready(actions[i], run[w].retryCount, f, clock) /\ run[w].list[i] = actions[i]
      BY <2>1, <2>2, <3>1 DEF Kept, KeptRun, AtCall
    <3> QED
      BY <2>1, <3>1, <3>2 DEF KeptRun, AtCall
  <2> QED
    BY <2>1, <2>2, KeptKept DEF Running
<1>4. ASSUME NEW w \in Workers, StartAction(w)
      PROVE  Kept'
  <2> DEFINE i == run[w].next
  <2>1. /\ run[w].at = "between" /\ i \in Actions /\ Only(w)
        /\ UNCHANGED <<clock, event, lapsed, faults>>
        /\ run'[w].retryCount = run[w].retryCount
        /\ \A j \in Actions \ {i}: actions'[j] = actions[j] /\ run'[w].list[j] = run[w].list[j]
    BY <1>4, StartActionStep
  <2>2. ASSUME ~lapsed
        PROVE  KeptRun(w)'
    <3>1. /\ run[w].retryCount = n
          /\ \A j \in Actions: /\ j < i => Counts(actions[j], n + 1, f)
                               /\ j >= i => Ready(actions[j], n, f, clock) /\ run[w].list[j] = actions[j]
      BY <2>1, <2>2 DEF Kept, KeptRun, AtCall, OneRun, Running, Actions
    <3>2. Ready(actions[i], n, f, clock) /\ run[w].list[i] = actions[i]
      <4>1. i >= i
        BY <2>1 DEF Actions
      <4> QED
        BY <2>1, <3>1, <4>1
    <3>3. \A j \in Actions \ {i}: /\ j < i => Counts(actions'[j], n + 1, f)
                                  /\ j > i => Ready(actions'[j], n, f, clock) /\ run'[w].list[j] = actions'[j]
      BY <2>1, <3>1 DEF Actions
    <3>4. CASE /\ run'[w].at = "calling" /\ run'[w].next = i
               /\ \/ actions'[i] = actions[i] /\ run[w].list[i].status = "processing"
                  \/ /\ actions[i].status = "pending" /\ actions'[i].status = "processing"
                     /\ actions'[i].attempts = actions[i].attempts /\ actions'[i].born = actions[i].born
      <4>1. actions'[i].status = "processing" /\ Counts(actions'[i], n, f)
        BY <3>2, <3>4 DEF Ready, Counts, Open
      <4>2. \A j \in Actions: ~(j = i) => j \in Actions \ {i}
        OBVIOUS
      <4>3. ~(i < i) /\ ~(i > i)
        BY <2>1 DEF Actions
      <4> QED
        BY <2>1, <3>1, <3>3, <3>4, <4>1, <4>2, <4>3 DEF KeptRun, AtCall
    <3>5. CASE /\ run'[w].at = "between" /\ run'[w].next = i + 1 /\ run'[w].list = run[w].list
               /\ actions' = actions /\ run[w].list[i].status # "processing"
               /\ ~(Due(run[w].list[i]) /\ Due(actions[i]))
      <4>1. Counts(actions[i], n + 1, f)
        <5>1. ~Open(actions[i]) \/ (actions[i].status = "pending" /\ actions[i].due > clock)
          BY <1>n, <2>1, <3>2, <3>5, Typed DEF Due, Open
        <5> QED
          BY <1>n, <2>1, <3>2, <5>1, Counting
      <4>2. \A j \in Actions: /\ j < i + 1 => j = i \/ j < i
                              /\ j > i + 1 \/ j = i + 1 => j > i /\ j # i
        BY <2>1 DEF Actions
      <4>3. ASSUME NEW j \in Actions, j < i + 1
            PROVE  Counts(actions'[j], n + 1, f)
        <5>1. CASE j = i
          BY <3>5, <4>1, <5>1
        <5>2. CASE j # i
          BY <3>3, <4>2, <4>3, <5>2
        <5> QED
          BY <5>1, <5>2
      <4>4. ASSUME NEW j \in Actions, j >= i + 1
            PROVE  Ready(actions'[j], n, f, clock) /\ run'[w].list[j] = actions'[j]
        <5>1. j > i /\ j \in Actions \ {i}
          BY <2>1, <4>4 DEF Actions
        <5> QED
          BY <3>3, <5>1
      <4>5. i + 1 \in Nat
        BY <2>1 DEF Actions
      <4>6. run'[w].retryCount = n /\ faults' = f /\ clock' = clock
        BY <2>1, <3>1
      <4> HIDE DEF f
      <4> QED
        BY <1>n, <3>5, <4>3, <4>4, <4>5, <4>6, KeptBetween
    <3> QED
      BY <1>4, <3>4, <3>5, StartActionStep
  <2>3. run'[w].at # "idle"
    BY <1>4, StartActionStep
  <2> QED
    BY <2>1, <2>2, <2>3, KeptKept DEF Running
<1>5. ASSUME NEW w \in Workers, ActionEnds(w)
      PROVE  Kept'
  <2> DEFINE i == run[w].next
  <2>1. /\ run[w].at = "calling" /\ i \in Actions /\ Only(w)
        /\ UNCHANGED <<clock, event, lapsed, faults>>
        /\ run'[w].retryCount = run[w].retryCount /\ run'[w].list = run[w].list
        /\ \A j \in Actions \ {i}: actions'[j] = actions[j]
        /\ \/ run'[w].at = "failed" /\ actions[i].status # "processing"
           \/ /\ run'[w].at = "between" /\ run'[w].next = i + 1
              /\ \/ actions'[i].status \in {"completed", "failed"}
                 \/ /\ actions'[i].status = "pending" /\ actions'[i].attempts = actions[i].attempts + 1
                    /\ actions'[i].born = actions[i].born
    BY <1>5, ActionEndsStep
  <2>2. ASSUME ~lapsed
        PROVE  KeptRun(w)'
    <3>1. /\ run[w].retryCount = n
          /\ actions[i].status = "processing" /\ Counts(actions[i], n, f)
          /\ \A j \in Actions \ {i}: /\ j < i => Counts(actions[j], n + 1, f)
                                     /\ j > i => Ready(actions[j], n, f, clock) /\ run[w].list[j] = actions[j]
      BY <2>1, <2>2 DEF Kept, KeptRun, AtCall, OneRun, Running
    <3>2. \A j \in Actions \ {i}: /\ j < i => Counts(actions'[j], n + 1, f)
                                  /\ j > i => Ready(actions'[j], n, f, clock) /\ run'[w].list[j] = actions'[j]
      BY <2>1, <3>1
    <3>3. Counts(actions'[i], n + 1, f)
      <4>1. actions[i].born \in Nat /\ actions[i].attempts \in Nat
        BY <2>1, Typed DEF ActionRows
      <4>2. actions[i].born + actions[i].attempts <= n /\ n <= actions[i].born + actions[i].attempts + f
        BY <3>1 DEF Counts, Open
      <4>3. actions'[i].status \in {"completed", "failed"} \/
            (actions'[i].attempts = actions[i].attempts + 1 /\ actions'[i].born = actions[i].born)
        BY <2>1, <3>1
      <4> QED
        BY <1>n, <4>1, <4>2, <4>3 DEF Counts, Open
    <3>4. i + 1 \in Nat /\ \A j \in Actions: /\ j < i + 1 => j = i \/ j < i
                                             /\ j >= i + 1 => j > i /\ j # i
      BY <2>1 DEF Actions
    <3>5. /\ run'[w].at = "between" /\ run'[w].next = i + 1 /\ run'[w].retryCount = n
          /\ faults' = f /\ clock' = clock
      BY <2>1, <3>1
    <3>6. ASSUME NEW j \in Actions, j < i + 1
          PROVE  Counts(actions'[j], n + 1, f)
      <4>1. CASE j = i
        BY <3>3, <4>1
      <4>2. CASE j # i
        BY <3>2, <3>4, <3>6, <4>2
      <4> QED
        BY <4>1, <4>2
    <3>7. ASSUME NEW j \in Actions, j >= i + 1
          PROVE  Ready(actions'[j], n, f, clock) /\ run'[w].list[j] = actions'[j]
      <4>1. j > i /\ j \in Actions \ {i}
        BY <2>1, <3>7 DEF Actions
      <4> QED
        BY <3>2, <4>1
    <3> HIDE DEF f
    <3> QED
      BY <1>n, <3>4, <3>5, <3>6, <3>7, KeptBetween
  <2> QED
    BY <2>1, <2>2, KeptKept DEF Running
<1>6. ASSUME NEW w \in Workers, RunEnds(w)
      PROVE  Kept'
  <2> SUFFICES ASSUME ~lapsed' PROVE Kept'
    BY DEF Kept
  <2>1. /\ Running(w) /\ Only(w) /\ run'[w].at = "idle" /\ UNCHANGED <<clock, actions, lapsed, faults>>
        /\ run[w].at = "failed" \/ (run[w].at = "between" /\ run[w].next \notin Actions)
    BY <1>6, RunEndsStep DEF Running, Idle, Run
  <2>2. /\ ~lapsed /\ run[w].retryCount = n /\ event.status = "processing"
        /\ KeptRun(w) /\ \A v \in Workers: run'[v].at = "idle"
    BY <2>1 DEF OneRun, Kept, Only, Running
  <2>3. \A i \in Actions: Counts(actions[i], n + 1, f)
    <3>1. CASE run[w].at = "failed"
      BY <2>2, <3>1 DEF KeptRun
    <3>2. CASE run[w].at = "between" /\ run[w].next \notin Actions
      <4>1. run[w].next = Intents + 1
        BY <3>2, TimesAssumption DEF RunInv, Actions
      <4>2. \A i \in Actions: i < Intents + 1
        BY TimesAssumption DEF Actions
      <4> QED
        BY <2>2, <3>2, <4>1, <4>2 DEF KeptRun, AtCall
    <3> QED
      BY <2>1, <3>1, <3>2
  <2>4. \A v \in Workers: KeptRun(v)'
    BY <2>2 DEF KeptRun, AtCall
  <2>5. /\ event'.status # "processing"
        /\ \/ event'.retryCount = n + 1
           \/ \A i \in Actions: ~Open(actions[i])
    BY <1>6, RunEndsStep DEF Closed, Open
  <2>6. \A i \in Actions: Counts(actions'[i], event'.retryCount, faults')
    <3>1. CASE event'.retryCount = n + 1
      BY <2>1, <2>3, <3>1
    <3>2. CASE \A i \in Actions: ~Open(actions[i])
      BY <2>1, <3>2 DEF Counts
    <3> QED
      BY <2>5, <3>1, <3>2
  <2> QED
    BY <2>4, <2>5, <2>6 DEF Kept
<1>7. ASSUME NEW w \in Workers, StatementFails(w) \/ Crash(w)
      PROVE  Kept'
  <2> SUFFICES ASSUME ~lapsed' PROVE Kept'
    BY DEF Kept
  <2>1. /\ Running(w) /\ Only(w) /\ faults' = f + 1 /\ UNCHANGED <<clock, event, actions, lapsed>>
        /\ \/ run'[w].at = "failed" /\ run'[w].retryCount = run[w].retryCount
           \/ run'[w].at = "idle"
    BY <1>7, FaultStep DEF Idle, Run
  <2>2. /\ ~lapsed /\ run[w].retryCount = n /\ event.status = "processing"
        /\ KeptRun(w) /\ \A v \in Workers \ {w}: run'[v].at = "idle"
    BY <2>1 DEF OneRun, Kept, Only, Running
  <2>3. \A i \in Actions: Counts(actions[i], n + 1, f + 1) /\ Ready(actions[i], n + 1, f + 1, clock)
    <3> TAKE i \in Actions
    <3>1. \/ Counts(actions[i], n + 1, f)
          \/ Ready(actions[i], n, f, clock)
          \/ actions[i].status = "processing" /\ Counts(actions[i], n, f)
      <4>1. run[w].at \in {"claimed", "between", "calling", "failed"} /\ run[w].next \in Nat
        BY <2>1 DEF TypeOK, Running
      <4>2. i \in Nat
        BY DEF Actions
      <4>3. i < run[w].next \/ i = run[w].next \/ i > run[w].next
        BY <4>1, <4>2
      <4>4. CASE run[w].at \in {"claimed", "failed"}
        BY <2>2, <4>4 DEF KeptRun
      <4>5. CASE run[w].at \in {"between", "calling"}
        BY <2>2, <4>3, <4>5 DEF KeptRun, AtCall
      <4> QED
        BY <4>1, <4>4, <4>5
    <3> QED
      BY <1>n, <3>1, Counting
  <2>4. KeptRun(w)'
    BY <2>1, <2>2, <2>3 DEF KeptRun, AtCall
  <2>5. \A v \in Workers: KeptRun(v)'
    BY <2>2, <2>4 DEF KeptRun, AtCall
  <2>6. \A i \in Actions: Ready(actions'[i], event'.retryCount + 1, faults', clock')
    BY <2>1, <2>3
  <2> QED
    BY <2>1, <2>2, <2>5, <2>6 DEF Kept
<1>8. CASE Tick
  <2>1. /\ clock' = clock + 1 /\ UNCHANGED <<event, actions, run, lapsed, faults>>
    BY <1>8 DEF Tick
  <2>2. \A i \in Actions, m \in Nat: Ready(actions[i], m, f, clock) => Ready(actions[i], m, f, clock + 1)
    BY <1>n, Counting
  <2>3. ASSUME NEW w \in Workers, KeptRun(w)
        PROVE  KeptRun(w)'
    <3>1. run' = run /\ actions' = actions /\ faults' = f /\ run[w].retryCount \in Nat
      BY <2>1, Typed
    <3> DEFINE m == run[w].retryCount
    <3>2. \A i \in Actions: Ready(actions[i], m, f, clock) => Ready(actions'[i], m, f, clock')
      BY <2>1, <2>2, <3>1
    <3> HIDE DEF m
    <3> QED
      BY <2>3, <3>1, <3>2 DEF KeptRun, AtCall, m
  <2> QED
    BY <1>n, <2>1, <2>2, <2>3 DEF Kept, Running
<1>9. CASE UNCHANGED vars
  BY <1>9 DEF vars, Kept, KeptRun, AtCall, Running
<1> QED
  BY <1>1, <1>2, <1>3, <1>4, <1>5, <1>6, <1>7, <1>8, <1>9 DEF Next, Done

------------------------------------------------------------------------------
LEMMA LeaseStep ==
    ASSUME TypeOK, RunInv, OneRun, Paced, LeaseCoversRun, [Next]_vars
    PROVE  LeaseCoversRun'
<1>1. ASSUME NEW w \in Workers, Claim(w)
      PROVE  LeaseCoversRun'
  <2> SUFFICES ASSUME settings.lease >= (Intents + 1) * Timeout, lapsed'
               PROVE  FALSE
    BY <1>1, ClaimStep DEF LeaseCoversRun
  <2>1. ~lapsed
    BY DEF LeaseCoversRun
  <2>2. PICK v \in Workers: Running(v)
    BY <1>1, <2>1, ClaimStep
  <2>3. event.status = "processing" /\ clock <= event.lockedAt + (Intents + 1) * Timeout
    BY <2>1, <2>2, RunBounded
  <2>4. event.lockedAt + settings.lease < clock
    BY <1>1, <2>3, ClaimStep DEF Stale
  <2>5. /\ settings.lease \in Nat /\ clock \in Nat /\ event.lockedAt \in Nat
        /\ (Intents + 1) * Timeout \in Nat
    <3>1. settings.lease \in Leases /\ clock \in Nat /\ event.lockedAt \in 0..clock
      BY DEF TypeOK
    <3>2. Leases \subseteq Nat
      BY TimesAssumption
    <3>3. settings.lease \in Nat
      BY <3>1, <3>2, Zenon
    <3>4. event.lockedAt \in Nat
      BY <3>1, SMT
    <3>5. Intents + 1 \in Nat /\ Timeout \in Nat
      BY TimesAssumption
    <3> QED
      BY <3>1, <3>3, <3>4, <3>5
  <2> DEFINE time == (Intents + 1) * Timeout
  <2>6. time \in Nat /\ settings.lease >= time /\ clock <= event.lockedAt + time
    BY <2>3, <2>5
  <2> HIDE DEF time
  <2> QED
    BY <2>4, <2>5, <2>6
<1>2. ASSUME NEW w \in Workers,
             EnsureActions(w) \/ SuggestionEnds(w) \/ StartAction(w) \/ ActionEnds(w) \/ RunEnds(w)
               \/ StatementFails(w) \/ Crash(w)
      PROVE  settings' = settings /\ lapsed' = lapsed
  BY <1>2, EnsureActionsStep, SuggestionEndsStep, StartActionStep, ActionEndsStep, RunEndsStep, FaultStep
<1>3. CASE settings' = settings /\ lapsed' = lapsed
  BY <1>3 DEF LeaseCoversRun
<1> QED
  BY <1>1, <1>2, <1>3 DEF Next, Done, Tick, vars

------------------------------------------------------------------------------
LEMMA InitInv == Init => IInv /\ LeaseCoversRun
<1> SUFFICES ASSUME Init PROVE IInv /\ LeaseCoversRun
  OBVIOUS
<1>1. 0 \in 0..clock /\ 0 \in Times /\ 0 \in 0..MaxFaults /\ clock \in Nat
  BY TimesAssumption DEF Init, Times
<1>2. \A w \in Workers: run[w].at = "idle"
  BY DEF Init, Idle, Run
<1>3. TypeOK
  <2>1. Absent \in ActionRows
    BY <1>1 DEF Absent, ActionRows
  <2>2. Idle \in RunRows
    BY <1>1, <2>1, TimesAssumption DEF Idle, Run, RunRows, Places
  <2> QED
    BY <1>1, <2>1, <2>2 DEF Init, TypeOK, Statuses, RunRows, Places
<1>4. \A i \in Actions: actions[i].status = "absent" /\ actions[i].attempts = 0
  BY DEF Init, Absent
<1>5. Covered
  BY <1>2, <1>4 DEF Init, Covered, CoveredRun, AtCall, WithinRetries, WaitsUntil
<1>6. Kept
  BY <1>2, <1>4 DEF Init, Kept, KeptRun, AtCall, Counts, Open
<1> QED
  BY <1>2, <1>3, <1>5, <1>6 DEF Init, IInv, Behind, RunInv, OneRun, Running, Paced, InTime, LeaseCoversRun

LEMMA StepInv == IInv /\ LeaseCoversRun /\ [Next]_vars => IInv' /\ LeaseCoversRun'
<1> SUFFICES ASSUME IInv, LeaseCoversRun, [Next]_vars PROVE IInv' /\ LeaseCoversRun'
  OBVIOUS
<1>1. TypeOK' /\ RunInv'
  BY TypeStep DEF IInv
<1>2. OneRun' /\ Paced' /\ LeaseCoversRun'
  BY OneRunStep, PacedStep, LeaseStep DEF IInv
<1>3. Covered' /\ Behind' /\ Kept'
  BY <1>1, CoveredStep, BehindStep, KeptStep DEF IInv
<1> QED
  BY <1>1, <1>2, <1>3 DEF IInv

LEMMA Invariant == Spec => [](IInv /\ LeaseCoversRun)
<1> QED
  BY InitInv, StepInv, PTL DEF Spec

(* The rows of an event and its actions, the copies of the runs and the clock *)
(* keep their types, and no run goes past the end of its list                *)
(* (EnsureAndExecute).                                                       *)
THEOREM TypeCorrect == Spec => []TypeOK
<1>1. IInv => TypeOK
  BY DEF IInv
<1> QED
  BY <1>1, Invariant, PTL

(* A lease of at least the time limits of the suggestion and of one call per  *)
(* action keeps every run from being taken over alive, for any number of      *)
(* actions and workers and any limits (ClaimNext, EVENT_PROCESSING_LEASE).    *)
THEOREM LeaseCovers == Spec => []LeaseCoversRun
<1> QED
  BY Invariant, PTL

(* As long as no run was taken over alive, the retry of an event is claimed   *)
(* behind the backoffs of all its actions, whatever crashed or failed before; *)
(* the takeover of a run that died is, too, if the lease is as long as a run  *)
(* and the backoff at its end (RetryBackoff in handleFailure and in           *)
(* EnsureAndExecute, EVENT_PROCESSING_LEASE).                                *)
THEOREM BackoffsCover == Spec => []BackoffCovered
<1>1. ASSUME IInv
      PROVE  BackoffCovered
  <2> SUFFICES ASSUME ~lapsed, NEW i \in With("pending"),
                      \/ event.status = "pending"
                      \/ /\ event.status = "processing"
                         /\ settings.lease >= RunTime + RetryBackoff(event.retryCount + 1)
               PROVE  actions[i].due <= ClaimableFrom
    BY DEF BackoffCovered
  <2>1. i \in Actions /\ actions[i].status = "pending"
    BY DEF With
  <2>2. CASE event.status = "pending"
    BY <1>1, <2>1, <2>2 DEF IInv, Covered, WaitsUntil, ClaimableFrom
  <2>3. CASE event.status = "processing" /\ settings.lease >= RunTime + RetryBackoff(event.retryCount + 1)
    <3>1. actions[i].due <= event.lockedAt + Span(Intents + 1) + RetryBackoff(event.retryCount + 1)
      BY <1>1, <2>1, <2>3 DEF IInv, Behind, WaitsUntil
    <3>2. RunTime = Span(Intents + 1) /\ Span(Intents + 1) \in Nat
      BY SpansOfRun DEF RunTime, Span
    <3>3. event.retryCount \in Nat /\ actions[i].due \in Nat
      BY <1>1, <2>1, Typed DEF IInv
    <3>4. RetryBackoff(event.retryCount + 1) \in Nat
      BY <3>3, Backoffs
    <3>5. event.lockedAt \in Nat /\ settings.lease \in Nat
      <4>1. settings.lease \in Leases /\ event.lockedAt \in 0..clock /\ clock \in Nat
        BY <1>1 DEF IInv, TypeOK
      <4>2. Leases \subseteq Nat
        BY TimesAssumption
      <4>3. settings.lease \in Nat
        BY <4>1, <4>2, Zenon
      <4> QED
        BY <4>1, <4>3
    <3>6. ClaimableFrom = event.lockedAt + settings.lease + 1
      BY <2>3 DEF ClaimableFrom
    <3> QED
      BY <2>3, <3>1, <3>2, <3>3, <3>4, <3>5, <3>6
  <2> QED
    BY <2>2, <2>3
<1> QED
  BY <1>1, Invariant, PTL

(* A crash or a failed statement costs an action at most one of the retries   *)
(* of its event, and nothing else costs it any, as long as no run was taken   *)
(* over alive: even the takeover of a run that died behind the failure of the *)
(* action counts once (ScheduleRetry of both tables, ClaimNext).              *)
THEOREM MissedByFaults == Spec => []RetriesMissed
<1>1. ASSUME IInv
      PROVE  RetriesMissed
  <2> SUFFICES ASSUME ~lapsed, event.status \in {"pending", "failed"}, NEW i \in With("pending")
               PROVE  Missed(i) \in 0..faults
    BY DEF RetriesMissed
  <2>1. i \in Actions /\ Open(actions[i])
    BY DEF With, Open
  <2>2. /\ actions[i].born + actions[i].attempts <= event.retryCount
        /\ event.retryCount <= actions[i].born + actions[i].attempts + faults
    BY <1>1, <2>1 DEF IInv, Kept, Counts
  <2>3. event.retryCount \in Nat /\ actions[i].born \in Nat /\ actions[i].attempts \in Nat /\ faults \in Nat
    BY <1>1, <2>1, Typed, TimesAssumption DEF IInv, ActionRows, TypeOK
  <2> QED
    BY <2>2, <2>3 DEF Missed
<1> QED
  BY <1>1, Invariant, PTL

------------------------------------------------------------------------------
(* The deadline.  What an event can have used of it: every claim before this  *)
(* one its poll and its run or lease, and every retry its backoff.            *)
Start(n) == n * ClaimTime + BackoffSum(n)
Latest(n) == Start(n) + Poll

(* A run keeps to the time of the claim with its copy of retry_count, also    *)
(* when it was taken over.                                                   *)
Punctual(w, latest) ==
    /\ run[w].at = "claimed" => clock <= latest
    /\ run[w].at = "calling" => run[w].since <= latest + Span(run[w].next) /\ clock <= run[w].since + Timeout
    /\ run[w].at = "between" => clock <= latest + Span(run[w].next)
    /\ run[w].at = "failed" => clock <= latest + Span(Intents + 1)
RunOnTime(w) ==
    Running(w) =>
        /\ run[w].retryCount < Claims /\ run[w].retryCount <= event.retryCount
        /\ event.status = "pending" => run[w].retryCount < event.retryCount
        /\ Punctual(w, Latest(run[w].retryCount))
EventOnTime ==
    LET n == event.retryCount
    IN  /\ event.status = "pending" => n < Claims /\ event.due <= Start(n) /\ clock <= Latest(n)
        /\ event.status = "processing" =>
             n < Claims /\ event.lockedAt <= Latest(n) /\ clock <= Latest(n) + ClaimTime
DeadlineInv == (\A w \in Workers: RunOnTime(w)) /\ EventOnTime /\ SettledByDeadline

LEMMA BackoffSums ==
    \A n \in Nat: /\ BackoffSum(n) \in Nat
                 /\ BackoffSum(n + 1) = BackoffSum(n) + RetryBackoff(n + 1)
<1> SUFFICES ASSUME NEW n \in Nat
             PROVE  /\ BackoffSum(n) \in Nat
                    /\ BackoffSum(n + 1) = BackoffSum(n) + RetryBackoff(n + 1)
  OBVIOUS
<1>1. Backoff1 \in Nat /\ Backoff2 \in Nat /\ Backoff3 \in Nat
  BY TimesAssumption
<1>2. CASE n = 0
  BY <1>1, <1>2 DEF BackoffSum, RetryBackoff
<1>3. CASE n = 1
  BY <1>1, <1>3 DEF BackoffSum, RetryBackoff
<1>4. CASE n >= 2
  <2>1. (n - 2) * Backoff3 \in Nat /\ (n + 1 - 2) * Backoff3 = (n - 2) * Backoff3 + Backoff3
    BY <1>1, <1>4
  <2>2. /\ BackoffSum(n) = Backoff1 + Backoff2 + (n - 2) * Backoff3
        /\ BackoffSum(n + 1) = Backoff1 + Backoff2 + (n + 1 - 2) * Backoff3
        /\ RetryBackoff(n + 1) = Backoff3
    BY <1>4 DEF BackoffSum, RetryBackoff
  <2> QED
    BY <1>1, <2>1, <2>2
<1> QED
  BY <1>2, <1>3, <1>4

(* The backoffs do not shrink, and so neither do their sums.                  *)
LEMMA BackoffSumsGrow == \A m, n \in Nat: m <= n => BackoffSum(m) <= BackoffSum(n)
<1> SUFFICES ASSUME NEW m \in Nat, NEW n \in Nat, m <= n
             PROVE  BackoffSum(m) <= BackoffSum(n)
  OBVIOUS
<1>1. Backoff1 \in Nat /\ Backoff2 \in Nat /\ Backoff3 \in Nat
  BY TimesAssumption
<1>2. CASE n < 2
  BY <1>1, <1>2 DEF BackoffSum
<1>3. CASE n >= 2
  <2>1. /\ (n - 2) * Backoff3 \in Nat
        /\ BackoffSum(n) = Backoff1 + Backoff2 + (n - 2) * Backoff3
    BY <1>1, <1>3 DEF BackoffSum
  <2>2. CASE m < 2
    <3>1. BackoffSum(m) <= Backoff1
      BY <1>1, <2>2 DEF BackoffSum
    <3>2. BackoffSum(m) \in Nat
      BY BackoffSums
    <3> QED
      BY <1>1, <2>1, <3>1, <3>2
  <2>3. CASE m >= 2
    <3>1. /\ (n - m) * Backoff3 \in Nat
          /\ (n - m) * Backoff3 = (n - 2) * Backoff3 - (m - 2) * Backoff3
          /\ (m - 2) * Backoff3 \in Nat
      BY <1>1, <1>3, <2>3
    <3>2. BackoffSum(m) = Backoff1 + Backoff2 + (m - 2) * Backoff3
      BY <2>3 DEF BackoffSum
    <3> QED
      BY <1>1, <2>1, <3>1, <3>2
  <2> QED
    BY <2>2, <2>3
<1> QED
  BY <1>2, <1>3

LEMMA ClaimTimes ==
    ASSUME TypeOK
    PROVE  /\ ClaimTime \in Nat /\ ClaimTime >= Poll + Span(Intents + 1)
           /\ settings.lease \in Nat /\ ClaimTime >= Poll + settings.lease + 1
           /\ Claims \in Nat /\ Claims >= 1 /\ settings.maxRetries \in Nat
           /\ settings.maxRetries <= Claims
<1>1. settings.lease \in Leases /\ settings.maxRetries \in RetryLimits
  BY DEF TypeOK
<1>2. Leases \subseteq Nat /\ RetryLimits \subseteq Nat /\ Poll \in Nat
  BY TimesAssumption
<1>3. settings.lease \in Nat /\ settings.maxRetries \in Nat
  BY <1>1, <1>2, Zenon
<1>4. Span(Intents + 1) \in Nat /\ RunTime = Span(Intents + 1)
  BY SpansOfRun DEF RunTime, Span
<1> QED
  BY <1>2, <1>3, <1>4 DEF ClaimTime, Claims, Longer

(* The starts of the claims are a claim and a backoff apart.                  *)
LEMMA Starts ==
    ASSUME TypeOK
    PROVE  /\ Start(0) = 0
           /\ \A n \in Nat: Start(n) \in Nat /\ Start(n + 1) = Start(n) + ClaimTime + RetryBackoff(n + 1)
           /\ \A m, n \in Nat: m <= n => Start(m) <= Start(n)
           /\ \A m, n \in Nat: m < n => Start(m) + ClaimTime <= Start(n)
<1>1. ClaimTime \in Nat
  BY ClaimTimes
<1> DEFINE t == ClaimTime
<1> HIDE DEF t
<1>2. t \in Nat /\ \A n: Start(n) = n * t + BackoffSum(n)
  BY <1>1 DEF t, Start
<1>3. Start(0) = 0
  <2>1. BackoffSum(0) = 0 /\ 0 * t = 0
    BY <1>2, TimesAssumption DEF BackoffSum
  <2> QED
    BY <1>2, <2>1
<1>4. ASSUME NEW n \in Nat
      PROVE  Start(n) \in Nat /\ Start(n + 1) = Start(n) + t + RetryBackoff(n + 1)
  <2>1. /\ BackoffSum(n) \in Nat /\ BackoffSum(n + 1) = BackoffSum(n) + RetryBackoff(n + 1)
        /\ RetryBackoff(n + 1) \in Nat
    BY BackoffSums, Backoffs
  <2>2. n * t \in Nat /\ (n + 1) * t = n * t + t
    BY <1>2
  <2> QED
    BY <1>2, <2>1, <2>2
<1>5. ASSUME NEW m \in Nat, NEW n \in Nat, m <= n
      PROVE  Start(m) <= Start(n)
  <2>1. BackoffSum(m) \in Nat /\ BackoffSum(n) \in Nat /\ BackoffSum(m) <= BackoffSum(n)
    BY <1>5, BackoffSums, BackoffSumsGrow
  <2>2. (n - m) * t \in Nat /\ (n - m) * t = n * t - m * t /\ m * t \in Nat /\ n * t \in Nat
    BY <1>2, <1>5
  <2> QED
    BY <1>2, <2>1, <2>2
<1>6. ASSUME NEW m \in Nat, NEW n \in Nat, m < n
      PROVE  Start(m) + t <= Start(n)
  <2>1. m + 1 \in Nat /\ m + 1 <= n
    BY <1>6
  <2>2. Start(m + 1) <= Start(n) /\ Start(m) \in Nat /\ Start(m + 1) \in Nat /\ Start(n) \in Nat
    BY <2>1, <1>4, <1>5
  <2>3. Start(m + 1) = Start(m) + t + RetryBackoff(m + 1) /\ RetryBackoff(m + 1) \in Nat
    BY <1>4, Backoffs
  <2> QED
    BY <1>2, <2>2, <2>3
<1> QED
  BY <1>3, <1>4, <1>5, <1>6 DEF t

(* The deadline is the end of the last claim, and a poll.                     *)
LEMMA DeadlineEnds ==
    ASSUME TypeOK
    PROVE  Deadline = Start(Claims - 1) + ClaimTime + Poll /\ Claims - 1 \in Nat
<1>1. ClaimTime \in Nat /\ Claims \in Nat /\ Claims >= 1
  BY ClaimTimes
<1> DEFINE t == ClaimTime
           k == Claims
<1> HIDE DEF t, k
<1>2. t \in Nat /\ k \in Nat /\ k >= 1 /\ k - 1 \in Nat
  BY <1>1 DEF t, k
<1>3. k * t = (k - 1) * t + t /\ (k - 1) * t \in Nat /\ k * t \in Nat
  BY <1>2
<1>4. BackoffSum(k - 1) \in Nat /\ Poll \in Nat
  BY <1>2, BackoffSums, TimesAssumption
<1>5. Deadline = k * t + BackoffSum(k - 1) + Poll /\ Start(k - 1) = (k - 1) * t + BackoffSum(k - 1)
  BY DEF Deadline, Start, t, k
<1>6. Deadline = Start(k - 1) + t + Poll
  BY <1>2, <1>3, <1>4, <1>5
<1> QED
  BY <1>2, <1>6 DEF t, k

LEMMA SameTimes ==
    ASSUME settings' = settings
    PROVE  ClaimTime' = ClaimTime /\ Claims' = Claims /\ Deadline' = Deadline
<1> QED
  BY DEF ClaimTime, Claims, Deadline, Longer, RunTime

(* A run that keeps to its time at one place keeps to it at the next.         *)
LEMMA PunctualStep ==
    ASSUME TypeOK, RunInv, NEW w \in Workers, NEW latest \in Nat, Punctual(w, latest),
           EnsureActions(w) \/ SuggestionEnds(w) \/ StartAction(w) \/ ActionEnds(w) \/ StatementFails(w) \/ Crash(w)
    PROVE  /\ Running(w) /\ Only(w) /\ UNCHANGED <<clock, settings, event>>
           /\ run'[w].at = "idle" \/ (run'[w].retryCount = run[w].retryCount /\ Punctual(w, latest)')
<1>t. Timeout \in Nat /\ Intents \in Nat /\ clock \in Int /\ run[w].since \in Int
  BY TimesAssumption DEF TypeOK
<1>2. CASE EnsureActions(w)
  <2>1. /\ Running(w) /\ Only(w) /\ UNCHANGED <<clock, settings, event>>
        /\ run[w].at = "claimed" /\ run'[w].since = clock /\ run'[w].retryCount = run[w].retryCount
        /\ \/ run'[w].at = "calling" /\ run'[w].next = 0
           \/ run'[w].at = "between" /\ run'[w].next = 1
    BY <1>2, EnsureActionsStep DEF Running
  <2>2. Span(0) = 0 /\ Span(1) \in Nat
    BY Spans
  <2> QED
    BY <1>t, <2>1, <2>2 DEF Punctual
<1>3. CASE SuggestionEnds(w)
  <2>1. /\ Running(w) /\ Only(w) /\ UNCHANGED <<clock, settings, event>>
        /\ run[w].at = "calling" /\ run[w].next = 0 /\ run'[w].retryCount = run[w].retryCount
        /\ run'[w].at = "between" /\ run'[w].next = 1
    BY <1>3, SuggestionEndsStep DEF Running
  <2>2. Span(0) = 0 /\ Span(1) = Timeout
    BY Spans, <1>t
  <2> QED
    BY <1>t, <2>1, <2>2 DEF Punctual
<1>4. CASE StartAction(w)
  <2>1. /\ Running(w) /\ Only(w) /\ UNCHANGED <<clock, settings, event>>
        /\ run[w].at = "between" /\ run[w].next \in Nat /\ run'[w].retryCount = run[w].retryCount
        /\ \/ run'[w].at = "calling" /\ run'[w].next = run[w].next /\ run'[w].since = clock
           \/ run'[w].at = "between" /\ run'[w].next = run[w].next + 1
    BY <1>4, StartActionStep DEF Running, Actions
  <2>2. Span(run[w].next) \in Nat /\ Span(run[w].next + 1) = Span(run[w].next) + Timeout
    BY <2>1, Spans
  <2> QED
    BY <1>t, <2>1, <2>2 DEF Punctual
<1>5. CASE ActionEnds(w)
  <2>1. /\ Running(w) /\ Only(w) /\ UNCHANGED <<clock, settings, event>>
        /\ run[w].at = "calling" /\ run[w].next \in 0..Intents /\ run'[w].retryCount = run[w].retryCount
        /\ \/ run'[w].at = "failed"
           \/ run'[w].at = "between" /\ run'[w].next = run[w].next + 1
    BY <1>5, ActionEndsStep DEF Running, RunInv
  <2>2. /\ Span(run[w].next) \in Nat /\ Span(run[w].next + 1) = Span(run[w].next) + Timeout
        /\ Span(run[w].next + 1) <= Span(Intents + 1) /\ Span(Intents + 1) \in Nat
    <3>1. run[w].next \in 0..Intents + 1
      BY <1>t, <2>1
    <3> QED
      BY <2>1, <3>1, SpansOfRun
  <2> QED
    BY <1>t, <2>1, <2>2 DEF Punctual
<1>6. CASE StatementFails(w) \/ Crash(w)
  <2>1. /\ Running(w) /\ Only(w) /\ UNCHANGED <<clock, settings, event>>
        /\ \/ run'[w].at = "failed" /\ run'[w].retryCount = run[w].retryCount
           \/ run'[w].at = "idle"
    BY <1>6, FaultStep DEF Idle, Run
  <2>2. run[w].at \in Places /\ run[w].next \in 0..Intents + 1
    BY DEF TypeOK, Places
  <2>3. /\ Span(run[w].next) \in Nat /\ Span(run[w].next) <= Span(Intents + 1) /\ Span(Intents + 1) \in Nat
        /\ run[w].next \in 0..Intents => Span(run[w].next) + Timeout <= Span(Intents + 1)
    BY <2>2, SpansOfRun
  <2>4. run[w].at = "calling" => run[w].next \in 0..Intents
    BY DEF RunInv
  <2>5. clock <= latest + Span(Intents + 1)
    BY <1>t, <2>1, <2>2, <2>3, <2>4 DEF Punctual, Places, Running
  <2> QED
    BY <2>1, <2>5 DEF Punctual
<1> QED
  BY <1>2, <1>3, <1>4, <1>5, <1>6

(* No run lasts longer than the time limits of all its calls.                 *)
LEMMA PunctualRun ==
    ASSUME TypeOK, RunInv, NEW w \in Workers, Running(w), NEW latest \in Nat, Punctual(w, latest)
    PROVE  clock <= latest + Span(Intents + 1)
<1>1. /\ Timeout \in Nat /\ clock \in Int /\ run[w].since \in Int
      /\ run[w].at \in Places /\ run[w].next \in 0..Intents + 1
  BY TimesAssumption DEF TypeOK, Places
<1>2. /\ Span(run[w].next) \in Nat /\ Span(run[w].next) <= Span(Intents + 1) /\ Span(Intents + 1) \in Nat
      /\ run[w].next \in 0..Intents => Span(run[w].next) + Timeout <= Span(Intents + 1)
  BY <1>1, SpansOfRun
<1>3. run[w].at = "calling" => run[w].next \in 0..Intents
  BY DEF RunInv
<1> QED
  BY <1>1, <1>2, <1>3 DEF Punctual, Places, Running

(* The runs of the other workers keep to their time: the row they are behind   *)
(* only counts up.                                                           *)
LEMMA OtherOnTime ==
    ASSUME NEW v \in Workers, RunOnTime(v), run'[v] = run[v], clock' = clock, settings' = settings,
           TypeOK, TypeOK', event'.retryCount >= event.retryCount,
           event'.status = "pending" =>
               event'.retryCount > event.retryCount \/ event.status = "pending"
    PROVE  RunOnTime(v)'
<1>1. ClaimTime' = ClaimTime /\ Claims' = Claims
  BY SameTimes
<1>2. /\ run[v].retryCount \in Nat /\ event.retryCount \in Nat /\ event'.retryCount \in Nat
      /\ Claims \in Nat
  BY Typed, ClaimTimes DEF TypeOK
<1>3. Running(v)' => Running(v)
  BY DEF Running
<1>4. Latest(run[v].retryCount)' = Latest(run[v].retryCount)
  BY <1>1 DEF Latest, Start
<1>5. Running(v) => Punctual(v, Latest(run[v].retryCount))'
  BY <1>4 DEF RunOnTime, Punctual
<1>6. Running(v) => /\ run'[v].retryCount < Claims' /\ run'[v].retryCount <= event'.retryCount
                    /\ event'.status = "pending" => run'[v].retryCount < event'.retryCount
  BY <1>1, <1>2 DEF RunOnTime
<1> QED
  BY <1>3, <1>5, <1>6 DEF RunOnTime

LEMMA EventInTime ==
    ASSUME settings' = settings,
           LET n == event'.retryCount
           IN  /\ event'.status = "pending" => n < Claims /\ event'.due <= Start(n) /\ clock' <= Start(n) + Poll
               /\ event'.status = "processing" =>
                    n < Claims /\ event'.lockedAt <= Start(n) + Poll /\ clock' <= Start(n) + Poll + ClaimTime
    PROVE  EventOnTime'
<1>1. ClaimTime' = ClaimTime /\ Claims' = Claims
  BY SameTimes
<1>2. Start(event.retryCount)' = Start(event'.retryCount)
  BY <1>1 DEF Start
<1> QED
  BY <1>1, <1>2 DEF EventOnTime, Latest

(* The numbers of the time a claim takes.                                     *)
LEMMA Numbers ==
    ASSUME TypeOK
    PROVE  /\ clock \in Nat /\ event.retryCount \in Nat /\ event.due \in Nat /\ event.lockedAt \in Nat
           /\ Poll \in Nat /\ Timeout \in Nat /\ Span(Intents + 1) \in Nat
           /\ ClaimTime \in Nat /\ ClaimTime >= Poll + Span(Intents + 1)
           /\ settings.lease \in Nat /\ ClaimTime >= Poll + settings.lease + 1
           /\ Claims \in Nat /\ Claims >= 1 /\ settings.maxRetries \in Nat /\ settings.maxRetries <= Claims
<1>1. clock \in Nat /\ event.retryCount \in Nat /\ event.due \in Nat /\ event.lockedAt \in Nat
  <2>1. event.lockedAt \in 0..clock
    BY DEF TypeOK
  <2> QED
    BY <2>1, Typed
<1>2. Poll \in Nat /\ Timeout \in Nat /\ Span(Intents + 1) \in Nat
  BY TimesAssumption, SpansOfRun
<1> QED
  BY <1>1, <1>2, ClaimTimes

(* The times of one claim are numbers, and it is followed by the next one's.  *)
LEMMA StartNumbers ==
    ASSUME TypeOK, NEW n \in Nat
    PROVE  /\ Start(n) \in Nat /\ Latest(n) \in Nat /\ RetryBackoff(n + 1) \in Nat
           /\ Start(n + 1) = Start(n) + ClaimTime + RetryBackoff(n + 1)
<1>1. RetryBackoff(n + 1) \in Nat
  <2>1. n + 1 \in Nat
    OBVIOUS
  <2> QED
    BY <2>1, Backoffs
<1>2. Start(n) \in Nat /\ Start(n + 1) = Start(n) + ClaimTime + RetryBackoff(n + 1)
  BY Starts
<1>3. Poll \in Nat
  BY TimesAssumption
<1>4. Latest(n) \in Nat
  BY <1>2, <1>3 DEF Latest
<1> QED
  BY <1>1, <1>2, <1>4

(* A run with an older copy of retry_count ends in time for the next retry.   *)
LEMMA NextStart ==
    ASSUME TypeOK, NEW r \in Nat, NEW n \in Nat, r <= n, clock <= Start(r) + Poll + Span(Intents + 1)
    PROVE  clock + RetryBackoff(r + 1) <= Start(n + 1) /\ clock <= Start(n + 1) + Poll
<1>1. Start(r) <= Start(n) /\ Start(r) \in Nat /\ Start(n) \in Nat
  BY Starts
<1>2. /\ RetryBackoff(r + 1) <= RetryBackoff(n + 1)
      /\ RetryBackoff(r + 1) \in Nat /\ RetryBackoff(n + 1) \in Nat
  <2>1. r + 1 \in Int /\ n + 1 \in Int /\ r + 1 <= n + 1
    OBVIOUS
  <2> QED
    BY <2>1, Backoffs
<1>3. Start(n + 1) = Start(n) + ClaimTime + RetryBackoff(n + 1)
  BY Starts
<1>4. /\ clock \in Nat /\ Poll \in Nat /\ Span(Intents + 1) \in Nat
      /\ ClaimTime \in Nat /\ ClaimTime >= Poll + Span(Intents + 1)
  BY Numbers
<1> QED
  BY <1>1, <1>2, <1>3, <1>4

LEMMA DeadlineClaim ==
    ASSUME TypeOK, TypeOK', DeadlineInv, NEW w \in Workers, Claim(w)
    PROVE  DeadlineInv'
<1> DEFINE n == event.retryCount
<1>1. /\ ~Running(w) /\ clock' = clock /\ settings' = settings /\ event' \in EventRows
      /\ \/ Stale /\ run' = run /\ event' = Closed(n + 1)
         \/ /\ \/ Stale /\ ~Exhausted(n + 1) /\ event'.retryCount = n + 1
               \/ event.status = "pending" /\ event'.retryCount = n
            /\ event'.status = "processing" /\ event'.lockedAt = clock
            /\ run'[w].at = "claimed" /\ run'[w].retryCount = event'.retryCount /\ Only(w)
  BY ClaimStep
<1>2. SettledByDeadline'
  BY <1>1, SameTimes DEF DeadlineInv, SettledByDeadline
<1>3. event'.retryCount \in Nat /\ event'.retryCount >= n /\ event'.status # "pending"
  BY <1>1, Numbers DEF Closed
<1>4. ASSUME event'.status = "processing"
      PROVE  LET m == event'.retryCount
             IN  /\ m < Claims /\ event'.lockedAt = clock /\ clock <= Start(m) + Poll
                 /\ run'[w].at = "claimed" /\ run'[w].retryCount = m /\ Only(w)
  <2>1. \/ Stale /\ ~Exhausted(n + 1) /\ event'.retryCount = n + 1
        \/ event.status = "pending" /\ event'.retryCount = n
    BY <1>1, <1>4 DEF Closed
  <2>2. CASE Stale /\ ~Exhausted(n + 1) /\ event'.retryCount = n + 1
    <3>1. clock <= Start(n) + Poll + ClaimTime
      BY <2>2 DEF DeadlineInv, EventOnTime, Latest, Stale
    <3>2. /\ n \in Nat /\ Start(n) \in Nat /\ RetryBackoff(n + 1) \in Nat
          /\ Start(n + 1) = Start(n) + ClaimTime + RetryBackoff(n + 1)
      <4>1. n \in Nat
        BY Numbers
      <4> QED
        BY <4>1, StartNumbers
    <3>3. n + 1 < Claims /\ clock <= Start(n + 1) + Poll
      BY <2>2, <3>1, <3>2, Numbers DEF Exhausted
    <3> QED
      BY <1>1, <1>4, <2>2, <3>3 DEF Closed
  <2>3. CASE event.status = "pending" /\ event'.retryCount = n
    <3>1. n < Claims /\ clock <= Start(n) + Poll
      BY <2>3 DEF DeadlineInv, EventOnTime, Latest
    <3> QED
      BY <1>1, <1>4, <2>3, <3>1 DEF Closed
  <2> QED
    BY <2>1, <2>2, <2>3
<1>5. EventOnTime'
  <2>1. \A m \in Nat: clock <= Start(m) + Poll => clock <= Start(m) + Poll + ClaimTime
    <3> SUFFICES ASSUME NEW m \in Nat, clock <= Start(m) + Poll
                 PROVE  clock <= Start(m) + Poll + ClaimTime
      OBVIOUS
    <3>1. Start(m) \in Nat
      BY StartNumbers
    <3> QED
      BY <3>1, Numbers
  <2> QED
    BY <1>1, <1>3, <1>4, <2>1, EventInTime
<1>6. ASSUME NEW v \in Workers
      PROVE  RunOnTime(v)'
  <2>1. CASE run'[v] = run[v]
    BY <1>1, <1>3, <2>1, OtherOnTime DEF DeadlineInv
  <2>2. CASE run'[v] # run[v]
    <3>1. v = w /\ event'.status = "processing"
      BY <1>1, <2>2 DEF Only
    <3>2. /\ event'.retryCount < Claims /\ clock <= Start(event'.retryCount) + Poll
          /\ run'[v].at = "claimed" /\ run'[v].retryCount = event'.retryCount
      BY <1>4, <3>1
    <3>3. ClaimTime' = ClaimTime /\ Claims' = Claims
      BY <1>1, SameTimes
    <3>4. Latest(run[v].retryCount)' = Start(event'.retryCount) + Poll
      BY <3>2, <3>3 DEF Latest, Start
    <3>5. Punctual(v, Latest(run[v].retryCount))'
      BY <1>1, <3>2, <3>4 DEF Punctual
    <3> QED
      BY <1>3, <3>1, <3>2, <3>3, <3>5 DEF RunOnTime
  <2> QED
    BY <2>1, <2>2
<1> QED
  BY <1>2, <1>5, <1>6 DEF DeadlineInv

(* A step of a run that leaves the row alone.                                 *)
LEMMA DeadlineRun ==
    ASSUME TypeOK, TypeOK', RunInv, DeadlineInv, NEW w \in Workers,
           EnsureActions(w) \/ SuggestionEnds(w) \/ StartAction(w) \/ ActionEnds(w) \/ StatementFails(w) \/ Crash(w)
    PROVE  DeadlineInv'
<1> DEFINE latest == Latest(run[w].retryCount)
<1>1. run[w].retryCount \in Nat
  BY Typed
<1>2. PICK L \in Nat: L = latest
  BY <1>1, StartNumbers
<1>3. Running(w)
  BY EnsureActionsStep, SuggestionEndsStep, StartActionStep, ActionEndsStep, FaultStep DEF Running
<1>4. Punctual(w, L)
  BY <1>2, <1>3 DEF DeadlineInv, RunOnTime
<1>5. /\ Only(w) /\ UNCHANGED <<clock, settings, event>>
      /\ run'[w].at = "idle" \/ (run'[w].retryCount = run[w].retryCount /\ Punctual(w, L)')
  BY <1>4, PunctualStep
<1>6. SettledByDeadline' /\ EventOnTime'
  BY <1>5, SameTimes DEF DeadlineInv, SettledByDeadline, EventOnTime, Latest, Start
<1>7. ASSUME NEW v \in Workers
      PROVE  RunOnTime(v)'
  <2>1. CASE v # w
    <3>1. event.retryCount \in Nat /\ run'[v] = run[v]
      BY <1>5, <2>1, Numbers DEF Only
    <3> QED
      BY <1>5, <3>1, OtherOnTime DEF DeadlineInv
  <2>2. CASE v = w /\ run'[w].at = "idle"
    BY <2>2 DEF RunOnTime, Running
  <2>3. CASE v = w /\ run'[w].retryCount = run[w].retryCount /\ Punctual(w, L)'
    <3>1. ClaimTime' = ClaimTime /\ Claims' = Claims
      BY <1>5, SameTimes
    <3>2. Latest(run[w].retryCount)' = L
      BY <1>2, <2>3, <3>1 DEF Latest, Start
    <3>3. Punctual(w, Latest(run[w].retryCount))'
      BY <2>3, <3>2 DEF Punctual
    <3> QED
      BY <1>3, <1>5, <2>3, <3>1, <3>3 DEF DeadlineInv, RunOnTime
  <2> QED
    BY <1>5, <2>1, <2>2, <2>3
<1> QED
  BY <1>6, <1>7 DEF DeadlineInv

LEMMA DeadlineRunEnds ==
    ASSUME TypeOK, TypeOK', RunInv, DeadlineInv, NEW w \in Workers, RunEnds(w)
    PROVE  DeadlineInv'
<1> DEFINE n == event.retryCount
           r == run[w].retryCount
<1>1. /\ Running(w) /\ clock' = clock /\ settings' = settings /\ run'[w].at = "idle" /\ Only(w)
      /\ \/ event' = Closed(n + 1)
         \/ /\ event'.status = "pending" /\ event'.retryCount = n + 1
            /\ event'.due = clock + RetryBackoff(r + 1) /\ ~Exhausted(n + 1)
         \/ event'.status # "processing" /\ event'.retryCount = n
            /\ (event' = event \/ event'.status \in {"failed", "processed"})
  BY RunEndsStep DEF Running, Idle, Run
<1>2. SettledByDeadline'
  BY <1>1, SameTimes DEF DeadlineInv, SettledByDeadline
<1>3. r \in Nat /\ n \in Nat /\ r <= n /\ clock <= Start(r) + Poll + Span(Intents + 1)
  <2>1. r \in Nat /\ n \in Nat
    BY Typed
  <2>2. r <= n /\ Punctual(w, Latest(r)) /\ Latest(r) \in Nat
    BY <1>1, <2>1, StartNumbers DEF DeadlineInv, RunOnTime
  <2>3. clock <= Latest(r) + Span(Intents + 1)
    BY <1>1, <2>2, PunctualRun
  <2> QED
    BY <2>1, <2>2, <2>3 DEF Latest
<1>4. EventOnTime'
  <2>1. CASE event' = Closed(n + 1)
    BY <1>1, <2>1, EventInTime DEF Closed
  <2>2. CASE /\ event'.status = "pending" /\ event'.retryCount = n + 1
             /\ event'.due = clock + RetryBackoff(r + 1) /\ ~Exhausted(n + 1)
    <3>1. n + 1 < Claims
      BY <1>3, <2>2, Numbers DEF Exhausted
    <3>2. clock + RetryBackoff(r + 1) <= Start(n + 1) /\ clock <= Start(n + 1) + Poll
      BY <1>3, NextStart
    <3> QED
      BY <1>1, <2>2, <3>1, <3>2, EventInTime
  <2>3. CASE /\ event'.status # "processing" /\ event'.retryCount = n
             /\ (event' = event \/ event'.status \in {"failed", "processed"})
    BY <1>1, <2>3, EventInTime DEF DeadlineInv, EventOnTime, Latest
  <2> QED
    BY <1>1, <2>1, <2>2, <2>3
<1>5. ASSUME NEW v \in Workers
      PROVE  RunOnTime(v)'
  <2>1. CASE v # w
    <3>1. event'.retryCount >= n /\ (event'.status = "pending" => event'.retryCount > n \/ event.status = "pending")
      BY <1>1, <1>3 DEF Closed
    <3> QED
      BY <1>1, <2>1, <3>1, OtherOnTime DEF DeadlineInv, Only
  <2>2. CASE v = w
    BY <1>1, <2>2 DEF RunOnTime, Running
  <2> QED
    BY <2>1, <2>2
<1> QED
  BY <1>2, <1>4, <1>5 DEF DeadlineInv

(* Time passes: a free worker claims the event in time, and without one a run *)
(* that is under way bounds the clock.                                        *)
LEMMA DeadlineTick ==
    ASSUME TypeOK, TypeOK', RunInv, DeadlineInv, Tick
    PROVE  DeadlineInv'
<1> DEFINE n == event.retryCount
<1>1. /\ clock' = clock + 1 /\ settings' = settings /\ event' = event /\ run' = run /\ ~Settled
      /\ \A w \in Workers: Running(w) => run[w].at = "calling" /\ clock < run[w].since + Timeout
      /\ event.status \in {"pending", "processing"} /\ (\E w \in Workers: ~Running(w)) => clock < ClaimableFrom + Poll
  BY DEF Tick, Calling
<1>2. ClaimTime' = ClaimTime /\ Claims' = Claims /\ Deadline' = Deadline
  BY <1>1, SameTimes
<1>3. ASSUME NEW w \in Workers, Running(w)
      PROVE  LET r == run[w].retryCount
             IN  /\ r \in Nat /\ r < Claims /\ r <= n /\ (event.status = "pending" => r < n)
                 /\ clock + 1 <= Start(r) + Poll + Span(Intents + 1)
  <2> DEFINE r == run[w].retryCount
  <2>1. r \in Nat /\ Latest(r) \in Nat
    BY Typed, StartNumbers
  <2>2. /\ r < Claims /\ r <= n /\ (event.status = "pending" => r < n)
        /\ run[w].since <= Latest(r) + Span(run[w].next) /\ clock < run[w].since + Timeout
    BY <1>1, <1>3 DEF DeadlineInv, RunOnTime, Punctual
  <2>3. run[w].next \in 0..Intents /\ run[w].since \in Int
    BY <1>1, <1>3 DEF RunInv, TypeOK
  <2>4. Span(run[w].next) + Timeout <= Span(Intents + 1) /\ Span(run[w].next) \in Nat
    <3>1. run[w].next \in 0..Intents + 1
      BY <2>3, TimesAssumption
    <3> QED
      BY <2>3, <3>1, SpansOfRun
  <2>5. clock + 1 <= Latest(r) + Span(Intents + 1)
    BY <2>1, <2>2, <2>3, <2>4, Numbers
  <2> QED
    BY <2>1, <2>2, <2>5 DEF Latest
<1>4. EventOnTime'
  <2>1. CASE event.status = "pending"
    <3>1. n < Claims /\ event.due <= Start(n) /\ n \in Nat /\ Start(n) \in Nat
      <4>1. n \in Nat
        BY Numbers
      <4> QED
        BY <2>1, <4>1, StartNumbers DEF DeadlineInv, EventOnTime
    <3>2. clock + 1 <= Start(n) + Poll
      <4>1. CASE \E w \in Workers: ~Running(w)
        <5>1. clock < event.due + Poll
          BY <1>1, <2>1, <4>1 DEF ClaimableFrom
        <5> QED
          BY <3>1, <5>1, Numbers
      <4>2. CASE \A w \in Workers: Running(w)
        <5>1. PICK w \in Workers: Running(w)
          BY <4>2, WorkersAssumption
        <5> DEFINE r == run[w].retryCount
        <5>2. r \in Nat /\ r < n /\ clock + 1 <= Start(r) + Poll + Span(Intents + 1)
          BY <1>3, <2>1, <5>1
        <5>3. Start(r) + ClaimTime <= Start(n) /\ Start(r) \in Nat /\ Start(n) \in Nat
          BY <3>1, <5>2, Starts
        <5> QED
          BY <5>2, <5>3, Numbers
      <4> QED
        BY <4>1, <4>2
    <3> QED
      BY <1>1, <2>1, <3>1, <3>2, EventInTime
  <2>2. CASE event.status = "processing"
    <3>1. n < Claims /\ event.lockedAt <= Start(n) + Poll /\ n \in Nat /\ Start(n) \in Nat
      <4>1. n \in Nat
        BY Numbers
      <4> QED
        BY <2>2, <4>1, StartNumbers DEF DeadlineInv, EventOnTime, Latest
    <3>2. clock + 1 <= Start(n) + Poll + ClaimTime
      <4>1. CASE \E w \in Workers: ~Running(w)
        <5>1. clock < event.lockedAt + settings.lease + 1 + Poll
          BY <1>1, <2>2, <4>1 DEF ClaimableFrom
        <5> QED
          BY <3>1, <5>1, Numbers
      <4>2. CASE \A w \in Workers: Running(w)
        <5>1. PICK w \in Workers: Running(w)
          BY <4>2, WorkersAssumption
        <5> DEFINE r == run[w].retryCount
        <5>2. r \in Nat /\ r <= n /\ clock + 1 <= Start(r) + Poll + Span(Intents + 1)
          BY <1>3, <5>1
        <5>3. Start(r) <= Start(n) /\ Start(r) \in Nat
          BY <3>1, <5>2, Starts
        <5> QED
          BY <3>1, <5>2, <5>3, Numbers
      <4> QED
        BY <4>1, <4>2
    <3> QED
      BY <1>1, <2>2, <3>1, <3>2, EventInTime
  <2>3. CASE event.status \notin {"pending", "processing"}
    BY <1>1, <2>3, EventInTime
  <2> QED
    BY <2>1, <2>2, <2>3
<1>5. SettledByDeadline'
  <2> DEFINE k == Claims - 1
  <2>1. Deadline = Start(k) + ClaimTime + Poll /\ k \in Nat /\ Start(k) \in Nat
    <3>1. k \in Nat
      BY Numbers
    <3> QED
      BY <3>1, DeadlineEnds, StartNumbers
  <2>2. PICK m \in Nat: m < Claims /\ clock + 1 <= Start(m) + Poll + ClaimTime
    <3>1. CASE event.status \in {"pending", "processing"}
      <4>1. /\ event.status = "pending" => n < Claims /\ clock' <= Start(n) + Poll
            /\ event.status = "processing" => n < Claims /\ clock' <= Start(n) + Poll + ClaimTime
        <5>1. Start(event.retryCount)' = Start(event.retryCount)
          BY <1>1, <1>2 DEF Start
        <5> QED
          BY <1>1, <1>2, <1>4, <5>1 DEF EventOnTime, Latest
      <4>2. n \in Nat /\ Start(n) \in Nat
        <5>1. n \in Nat
          BY Numbers
        <5> QED
          BY <5>1, StartNumbers
      <4> QED
        BY <1>1, <3>1, <4>1, <4>2, Numbers
    <3>2. CASE event.status \notin {"pending", "processing"}
      <4>1. PICK w \in Workers: Running(w)
        BY <1>1, <3>2 DEF Settled, TypeOK, Statuses
      <4> DEFINE r == run[w].retryCount
      <4>2. r \in Nat /\ r < Claims /\ clock + 1 <= Start(r) + Poll + Span(Intents + 1)
        BY <1>3, <4>1
      <4>3. Start(r) \in Nat
        BY <4>2, StartNumbers
      <4> QED
        BY <4>2, <4>3, Numbers
    <3> QED
      BY <3>1, <3>2
  <2>3. m <= k
    BY <2>2, Numbers
  <2>4. Start(m) <= Start(k) /\ Start(m) \in Nat
    BY <2>1, <2>3, Starts
  <2>5. clock + 1 <= Deadline
    BY <2>1, <2>2, <2>4, Numbers
  <2> QED
    BY <1>1, <1>2, <2>5 DEF SettledByDeadline
<1>6. ASSUME NEW v \in Workers
      PROVE  RunOnTime(v)'
  <2>1. Latest(run[v].retryCount)' = Latest(run[v].retryCount)
    BY <1>1, <1>2 DEF Latest, Start
  <2>2. Running(v) => Punctual(v, Latest(run[v].retryCount))'
    <3>1. Running(v) => run[v].at = "calling" /\ clock < run[v].since + Timeout /\ run[v].since \in Int
      BY <1>1 DEF TypeOK
    <3>2. Running(v) => run[v].since <= Latest(run[v].retryCount) + Span(run[v].next)
      BY <3>1 DEF DeadlineInv, RunOnTime, Punctual
    <3> QED
      BY <1>1, <2>1, <3>1, <3>2, Numbers DEF Punctual
  <2> QED
    BY <1>1, <1>2, <2>2 DEF DeadlineInv, RunOnTime, Running
<1> QED
  BY <1>4, <1>5, <1>6 DEF DeadlineInv

LEMMA DeadlineStep == IInv /\ DeadlineInv /\ [Next]_vars => DeadlineInv'
<1> SUFFICES ASSUME IInv, DeadlineInv, [Next]_vars PROVE DeadlineInv'
  OBVIOUS
<1>1. TypeOK /\ RunInv /\ TypeOK'
  BY TypeStep DEF IInv
<1>2. CASE UNCHANGED vars
  <2>1. UNCHANGED <<clock, settings, event, run>>
    BY <1>2 DEF vars
  <2> QED
    BY <2>1, SameTimes DEF DeadlineInv, EventOnTime, SettledByDeadline, RunOnTime, Punctual, Running, Latest, Start
<1> QED
  BY <1>1, <1>2, DeadlineClaim, DeadlineRun, DeadlineRunEnds, DeadlineTick DEF Next, Done

LEMMA DeadlineInit == Init => DeadlineInv
<1> SUFFICES ASSUME Init PROVE DeadlineInv
  OBVIOUS
<1>1. TypeOK
  BY InitInv DEF IInv
<1>2. Start(0) = 0 /\ 0 < Claims /\ ClaimTime \in Nat /\ Poll \in Nat
  BY <1>1, Starts, Numbers
<1>3. EventOnTime
  BY <1>2 DEF Init, EventOnTime, Latest
<1>4. \A w \in Workers: ~Running(w)
  <2>1. \A w \in Workers: run[w] = Idle
    BY DEF Init
  <2>2. Idle.at = "idle"
    BY DEF Idle, Run
  <2> QED
    BY <2>1, <2>2 DEF Running
<1>5. SettledByDeadline
  <2>1. Deadline = Start(Claims - 1) + ClaimTime + Poll /\ Start(Claims - 1) \in Nat
    <3>1. Claims - 1 \in Nat
      BY <1>1, Numbers
    <3> QED
      BY <1>1, <3>1, DeadlineEnds, StartNumbers
  <2> QED
    BY <1>2, <2>1 DEF Init, SettledByDeadline
<1> QED
  BY <1>3, <1>4, <1>5 DEF DeadlineInv, RunOnTime

(* Every event is settled, and no run of it is left, by a time that the       *)
(* backoffs, the lease, the time limits of the calls, the poll and max_retries *)
(* give, whatever crashes or fails and whichever runs are taken over           *)
(* (ClaimNext, ScheduleRetry and handleFailure).                             *)
THEOREM SettledInTime == Spec => []SettledByDeadline
<1>1. DeadlineInv => SettledByDeadline
  BY DEF DeadlineInv
<1> QED
  BY <1>1, DeadlineInit, DeadlineStep, Invariant, PTL DEF Spec

==============================================================================
