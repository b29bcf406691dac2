# Verification of gitactionflow in TLA+

gitactionflow is a Go server that receives GitHub webhooks, stores them in
PostgreSQL, and runs the user's rules on them: a label, a comment on GitHub, or
a message on Slack. A React dashboard shows what happened. This directory holds
TLA+ models of the parts of the server where order, concurrency and failure
decide what is correct, of the rules that users write, and of the dashboard
that shows the result; the TLC configurations that check them on small
instances; and proofs, checked by TLAPS, of what the event queue, the pipeline,
its retries, the rules, the repository tables, the sign-in and the rate limiter
promise for every instance.

Paths below are relative to the repository; `store/x.go` stands for
`backend/internal/store/x.go`, and so on.

## 1. The system

### Components

| Component | State | Operations | Hard behaviour | What makes it correct |
|---|---|---|---|---|
| Event queue (`store/webhook_events.go`, migrations 000004, 000005) | rows of `webhook_events`: status, retry_count, max_retries, next_retry_at, locked_at | InsertPending…, ClaimNext, MarkProcessed, MarkFailedImmediately, ScheduleRetry | concurrent claims, leases that expire under a live worker, statements of a worker that lost its lease | bounded runs per event, no unexplained overlap, every event settles |
| Worker (`events/worker.go`) | the event it claimed, as it read it | Run, drain, processOne, handleFailure | crash or cancelled context between two statements | a claim is never lost for good |
| Pipeline (`events/processor.go`, `actions/executor.go`, `store/actions.go`) | rows of `actions`: status, attempt_count, next_retry_at; the list one run works through | Process, EnsureAndExecute, CreateOrGet, MarkProcessing, MarkCompleted, ScheduleRetry, MarkFailedImmediately | effects that cannot be undone, answers that are lost, two runs of one event, partial failure | effects repeat only where they must; `processed` means all done |
| Ingestion (`http/handlers/webhook.go`, `webhook/service.go`) | none | HandlePOST, Ingest | redelivery, concurrent duplicates, unknown repository | a delivery id is accepted once |
| GitHub and Slack clients (`githubapi`, `slack`) | none | AddLabels, CreateIssueComment, SendText, ListRepositories | time-outs, lost answers, rate limits, pages that move | the class of a failure (transient or permanent) |
| Repository connection (`reposervice/service.go`, `store/repositories.go`) | rows of `repositories` | Connect, Disconnect | check-then-insert by two requests; the cascade under running workers; two users on one GitHub repository | one repository per user |
| Retry timing (`events/backoff.go`, the lease of ClaimNext, the time limits of the calls) | times in the rows | RetryBackoff | backoffs of an event and its actions that are computed apart; leases shorter than a run or a backoff | a retry finds no action still waiting but for a fault; a run keeps its lease |
| Rule service and engine (`rules/*`, `store/rules.go`, `events/context.go`) | rows of `rules`, the config kept in `actions` | Create, Update, SetEnabled, Delete, Match, Evaluate | edits while events are run, blank and repeated conditions | a rule matches what its author wrote, and a retry sends the text first written |
| AI suggestions (`ai/suggest.go`) | none | Suggest, ValidateSuggestion | answers that are missing, empty or outside the allow-list | the provider's text is used only where the rule asked for it |
| Sessions and OAuth (`http/handlers/auth.go`, `store/oauth_states.go`, `store/sessions.go`, `http/middleware/auth.go`) | `oauth_states`, `sessions`, cookies | StartGitHub, CallbackGitHub, Logout, RequireAuth | two callbacks with one state, expiry, logout during a request | a state is consumed at most once |
| Rate limiter (`http/middleware/ratelimit.go`) | a token bucket per address | allow, cleanup | refill arithmetic, eviction | burst plus refill is never exceeded |
| Start and shutdown (`app/app.go`) | worker context, HTTP server | Run | order of cancel, wait, drain | no run outlives the database pool |
| Dashboard (`frontend/src/pages/DashboardPage.tsx`) | lists, filters, loading flags, the rule form | refresh…, connect, disconnect, save, toggle, delete | answers out of order, answers after a disconnect, lost answers | a list shows what the page says it shows; spinners end |
| Read API (`http/handlers/activity.go`, the List… of the stores) | none | ListEvents, ListActions | rows that arrive between two pages | nothing is skipped |
| Configuration, logging, crypto, migrations | none that a later step depends on | | | |

### How they interact

```
GitHub --POST--> HandlePOST --Ingest--> webhook_events <--ClaimNext-- Worker
                                             ^                           |
   dashboard --Connect/Disconnect--> repositories (cascade)              v
                                             |                 Processor.Process
                                             v                           |
                                          actions <----- EnsureAndExecute
                                                                |
                                                       GitHub / Slack
```

Nothing is shared in memory between a request and a worker, nor between two
workers: they meet in PostgreSQL. What is atomic is therefore a statement or a
transaction, and the models' steps are these.

## 2. The modules

`DeliveryContract` is the abstract specification: which deliveries are accepted,
and what the event of one may go through. `EventQueue` is the table and its workers, and implements it.
`ActionExecutor` extends `EventQueue` with the pipeline a worker runs between
claim and settlement. `RepositoryConnect` is a module of its own: who owns which
repository, and the rows that hang on it; it takes of the queue only that events
are inserted, validated and failed. `RetryTiming` is one event of the queue and
the pipeline again, with an explicit clock in place of times that may pass at
any moment, and `RuleEngine` one event again, with what rules, configs and
payloads say. `Dashboard` is the browser and the server as the browser sees it.
`Paging`, `SessionAuth` and `RateLimiter` stand alone. The `MC…` modules
instantiate them for TLC, the `…Proofs` modules hold the theorems.

### EventQueue

| TLA+ | Code |
|---|---|
| `connected` | a row of `repositories` exists |
| `events[e]` | a row of `webhook_events`; rows are named in `created_at` order |
| `workers[w]` | a worker's goroutine in processOne: `selected` is the open transaction of claimOne (the row is locked), `working` the pipeline |
| `claims`, `lapsed` | history: committed claims; whether a lease ever expired |
| `Ingest` | Ingest, InsertPendingWithMaxRetries, whose unique violation (23505) on `delivery_id` is answered as already received |
| `SelectClaimable` | claimOne's SELECT … FOR UPDATE SKIP LOCKED LIMIT 1 |
| `Claim`, `FailStale` | claimOne's UPDATE and COMMIT; FailStale is the reclaim that exhausts the retries |
| `MarkProcessed`, `MarkFailedImmediately`, `ScheduleRetry` | the three settlements, with their exact guards: the first two need status `processing`, the third has no status guard |
| `Disconnect` | DeleteByUserID and ON DELETE CASCADE; waits for locked rows |
| `Crash` | the process dies, its context is cancelled, or a statement fails |
| `LeaseExpires`, `BackoffElapses` | time: `locked_at` falls behind now − lease, `next_retry_at` comes to lie in the past |

The select and the update of a claim are separate steps because the code reads
`status` and `retry_count` in the first and computes with them in the second.
`LeaseExpires` may happen at any time to any row in `processing`, since nothing
renews a lease; a model in which only dead workers lose theirs would hide the
interesting half. `RetryLimits` is a set, because `max_retries` is copied into
the row at insertion and deployments change the setting.

### ActionExecutor

| TLA+ | Code |
|---|---|
| `actions[e][i]` | the row of `actions` with the idempotency key of event `e` and intent `i` (rule and action type) |
| `exec[w]` | the local state of Process and EnsureAndExecute: what is still to persist or to run, the action being run, the result of its call |
| `LoadRules` | validation and rule matching; any set of rules may match, because users edit them between runs |
| `CreateOrGet` … `Tally` | the loops of EnsureAndExecute, one statement or API call per step |
| `ExecuteOne` | executeOne: success, transient or permanent error, and (fault `lost`) an effect whose answer does not arrive |
| `StartRun`, `EndRun` | EventQueue's Claim and its settlements, the outcome decided by the run's result |
| `StatementFails`, `CrashRun`, `LeaseRunsOut` | the faults, each switched on by the constant `Faults` |
| `calls`, `effects`, `windows` | history: calls, effects, and effects whose record was cut off |

Any order of an event's actions is allowed (the code orders by `created_at`);
an action's backoff may run out at any time.

### RepositoryConnect

| TLA+ | Code |
|---|---|
| `repositories[c]`, `rules[x]`, `events[d]` | rows of the three tables; ids are never used again, and a delivery id is in the table at most once |
| `requests[r]` | an HTTP request, or a worker's run, between its statements, with what it read so far |
| `shared` | history: were two users ever connected to the repository on GitHub at once? |
| `CheckConnect`, `InsertRepository` | Connect up to GitHub's answer, and its INSERT under UNIQUE (user_id) |
| `Disconnect` | DeleteByUserID and the cascade to rules and events |
| `ConnectedRepo`, then `CreateRule` or `ChangeRule` | the rule service: the lookup of the caller's repository, then the statement for it |
| `LookupDelivery`, `InsertEvent` | Ingest |
| `ClaimEvent`, `LoadById`, `LoadByGitHub`, `FailEvent` | a worker's Validate, whose two lookups may see different rows, and the failure of the event |
| `Abandon` | an error return, or a crash |

None of these operations has a transaction around its statements; what holds the
tables together are the constraints (`UserMayConnect`, `References`) and the
conditions of the statements (`RuleOf`, `FoundByGitHub`).

### SessionAuth

| TLA+ | Code |
|---|---|
| `oauthStates[s]`, `users`, `sessions[t]` | rows of the three tables; `s` and `t` are the random state and session token, of which the tables have the hash |
| `requests[r]` | a callback or a call of the API between its statements, with the clock reading it goes by |
| `stored`, `loggedOut`, the `state` of a session | history: when a row was inserted, was the session logged out when the call came in, which sign-in is it from |
| `StartGitHub` | the whole handler; the clock was read at any time before the INSERT |
| `ReceiveCallback`, `ConsumeState`, `IdentifyUser`, `UpsertUser`, `CreateSession` | CallbackGitHub; `IdentifyUser` is the two calls of GitHub, which change nothing here |
| `Logout` | the DELETE, answered ok with or without a row |
| `ReceiveCall`, `LookupSession`, `LoadUser` | RequireAuth; `authorised` is the handler behind it |
| `Leave` | the end of a handler, an error return, or a crash |

The clock is explicit, because what matters is how old a reading is when the
statement that uses it runs. A statement that took effect but whose answer was
lost needs no action of its own: the callback ends in `Leave` after the step, or
nobody presents the state or token that was stored.

### RateLimiter

| TLA+ | Code |
|---|---|
| `visitors[a]` | the map's entry of an address; tokens are counted in the ticks it takes to earn them |
| `requests[r]` | a request between time.Now() and the mutex |
| `spent[a][w]` | history: the tokens paid by requests with a reading in the window `w` |
| `ReadClock`, then `NewVisitor`, `Admit` or `Refuse` | allow, in two steps since the clock is read before the mutex is taken |
| `Cleanup` | one pass of cleanup; the ticker's phase is left open |

`MaxDelay` bounds the time a request waits between the two, which the code does
not bound but the scheduler does; `IdleAssumption` compares it and the time to
fill a bucket (40 s and 60 s in router.go) with the ten minutes of cleanup.
float64 is taken as exact.

### RetryTiming

| TLA+ | Code |
|---|---|
| `clock`, `settings` | the time; EVENT_PROCESSING_LEASE and the row's `max_retries` |
| `event`, `actions[i]` | the rows with their times: `due` is next_retry_at, `lockedAt` locked_at |
| `run[w]` | a run: its copy of `retry_count`, its list of the actions, the call it is at (0 is the AI suggestion) and since when |
| `born`, `faults`, `lapsed` | history: retry count of the event when the action was created; crashes and failed statements; was a live run taken over? |
| `Claim`, `Exhausted`, `Stale` | ClaimNext with its takeover and its last claim |
| `EnsureActions`, `SuggestionEnds`, `StartAction`, `ActionEnds`, `RunEnds` | a run, statement by statement; a call ends at any time up to its time limit |
| `ActionBackoff`, `EventBackoff`, `RetryBackoff` | `next_retry_at` of both tables |
| `StatementFails`, `Crash` | the faults |
| `Tick` | time passes only while calls are under way or all wait; a free worker claims within `Poll` |

Statements take no time: what takes time is a call (its time limit bounds it),
a backoff, a lease and the poll. That is what lets the lengths be compared.

### RuleEngine

| TLA+ | Code |
|---|---|
| `rules`, `written` | the table after ValidateNormalize; history: the input it was made from |
| `payload` | what the webhook carried, malformed or without an item as well |
| `actions[<<rule, type>>]` | the rows, with the config Evaluate copied from the rule |
| `run`, `last` | the actions a run works through, its AI suggestion and the names of the rules it matched; the last call |
| `origin`, `birth`, `meant` | history: what was written for the rule, config and name, when the action was created, and in which run; the names written for the rules that wanted the event |
| `Save`, `Delete` | Create, Update with `Valid` and `Normalized` |
| `Evaluate` | ExtractEventContext, Match, CreateOrGet and fetchSuggestion |
| `Execute` | executeOne: `Content` is what is sent, with `RuleName` in Slack, `Outcomes` the classes of responses of doJSON and SendText, `IsPermanent` decides |
| `EndRun` | the run ends with whatever is left |

A text is a word with or without space around it and in either case, which is
what TrimSpace, ToLower and EqualFold tell apart; that a keyword may match
within a word is abstracted.

### Dashboard

| TLA+ | Code |
|---|---|
| `repo`, `rules` | the server: the user's connection and its rules |
| `connected`, `picking`, `card`, `shown`, `loading`, `failed`, `filter`, `form`, `formBusy` | the page's `useState` variables |
| `inFlight` | the requests under way, each on a connection of the browser, with what waits for its answer |
| `crossed`, `doubtful` | history: was a disconnect answered with lists in flight; did rule requests overlap, or a form save lose its answer, since the rules were last listed alone? |
| `Refresh`, `ChooseFilter`, `ConnectClick`, `Submit`, `Toggle`, … | a click: what its handler does up to the first await, under the guards of the `disabled` attributes |
| `Serve`, `Fail`, `LoseAnswer` | the server answers; the request fails; it takes effect and its answer is lost |
| `DeliverList`, `DeliverConnect`, … | what the handler does after the await, with the state of that moment |
| `Reload` | the page starts anew; what is in flight takes effect and is answered to nobody |

### Paging

| TLA+ | Code |
|---|---|
| `list` | the rows a query selects, those of one event type where it says so, by `received_at` or `created_at`, newest first; or a user's repositories at GitHub, last updated first |
| `reader` | a client of the API that asks for page after page, by `page` or by `offset`, or one ListRepositories |
| `ListActivity` | parsePageLimit and the store's query: `Limit`, `Offset`, `Capped` |
| `ListRepositories` | the loop over pages of 100, at most five of them |
| `Insert`, `Update`, `Withdraw` | rows arrive, repositories move to the front, come and go |

## 3. Hazards and properties

PROJECT.json lists the hazards with their lines. The properties aimed at them:

* `ClaimBudget`: `retry_count` is raised in two places, by the takeover of an
  expired lease and by ScheduleRetry, the second by any worker that believes it
  still owns the row. Together they still bound the runs of an event by
  `max_retries` (one run if that is 0).
* `OverlapOnlyAfterLapse`: two workers run one event only after a lease expired.
* `ExhaustedStaysFailed`: ScheduleRetry writes whatever the status is, yet a row
  that failed by exhausting its retries is never revived.
* `ImplementsContract`: the refinement of `DeliveryContract`. It says among
  other things that a delivery id is accepted once while its repository stays
  connected, however often it is delivered and whether its event is settled or
  not; that a closed event reopens only with a run left in its budget; and that
  nothing runs again after the repository was disconnected.
* `Settles`: every accepted event is in the end processed, failed or deleted,
  for good.
* `CallsWithinClaims`: with every fault at once an action is called at most once
  per claim, hence (with `ClaimBudget`) at most `max_retries` times.
* `RepeatsOnlyThroughWindow`: without lost answers, an effect is repeated only
  for a run that was cut off between the success and its record.
* `ProcessedAfterActions`, `CompletedIsFinal`, `NoActionForgotten`: while runs
  stay within their lease, `processed` means that all actions are completed, a
  completed action is not called again, and none is left behind.

* `OneRepositoryPerUser`: two Connects of one user that both passed the check do
  not both insert.
* `RowsFollowRepository`: no rule and no event is left of a repository that was
  disconnected, or connected anew, between a lookup and the write it led to.
* `RulesWrittenByOwner`: a rule is written by nobody but the user of its
  repository, whatever rule a caller names and whatever happened to the caller's
  repository since it was looked up.
* `FailedOnlyWhenShared`: the two lookups of Validate, with a disconnect and a
  connect in between, fail no event that is still stored, unless two users were
  connected to the same repository on GitHub; then LIMIT 1 decides which row a
  delivery and its validation see.
* `OneLoginPerState`: callbacks that repeat a state, concurrently or after a
  failure, a sign-in or a logout, sign in once.
* `StateUsedInTime`, `SessionUsedInTime`: the deadlines hold with respect to the
  moment a request came in and the moment a row was stored, however long the
  process takes between a reading of the clock and a statement.
* `NothingAfterLogout`: a call that came in after a logout was answered does not
  run as the user's; one that the logout overtook may.
* `BurstPlusRefill`: with readings out of order and addresses forgotten, no
  window of time admits more than the burst and what is earned in it.
* `RefusedOnlyWhenSpent`: and nothing is refused that could have been admitted,
  up to the disorder of the readings: a request that read the clock earlier and
  got the mutex later than another one lowers the tokens by the time between the
  two, and one of the first burst requests may be refused. With `MaxDelay` 0 the
  property is exact.

* `BackoffCovered`: the backoffs of an event and of its actions are computed
  apart, from different counters and at different moments; still, while runs keep
  their lease, an event that waits for its backoff comes up only after all its
  actions. So does the takeover of a run that died, if the lease is as long as a
  run and the backoff at its end. Behind a shorter lease (60 s by default) it may
  come while an action still waits for a backoff.
* `RetriesMissed`: what that costs. While runs keep their lease, an action misses
  at most one run of its event for each crash or failed statement, and none
  without: the takeover and the retry behind it together do not cost it two. The
  last run may be the one that it misses; the event then fails with attempts of
  the action unused.
* `LeaseCoversRun`: a lease as long as the time limits of the suggestion and one
  call per action keeps every run from being taken over alive.
* `SettledByDeadline`: lapses, crashes and retries add up to a bound by which an
  event is settled.
* `MatchesAsWritten`: the normal form of a rule, its storage and Match agree on
  blanks, case and repeated labels: a rule matches the events its author meant.
* `SentAsFirstWritten`: the text of a call is what its rule said when the action
  was created, however the rule was changed or deleted before a retry, and text
  of the AI provider is used only where the rule asked for it. The name of the
  rule, which Slack shows above the text, is not stored with the action: it is
  the name the rule had when the run began, and "(unnamed)" if the rule did not
  want the event then or is deleted by the time of the call (`NamesRightly`). So
  a retry after a rename has the new name above the old message; in the run that
  created the action the two are of one save.
* `FailsAsDocumented`: transient failures are retried and permanent ones are
  not, and a config that passed validation is bad only for want of the AI's
  answer.
* `ShowsWhatItSays`: lists on display are those of the repository and the filter
  the page names, however late answers come, unless a disconnect was answered
  with lists in flight (see the findings).
* `RulesCurrent`: with rule requests one after the other, the rules on display
  are the server's once none is under way, through failed saves, toggles and
  deletions, and through lost answers of the last two, which hide the rules
  behind an error. A form save that loses its answer is left out until the rules
  are next listed alone: its error shows in the form, over the old rules.
* `SpinnersEnd`: no spinner turns for ever, though spinners are shared by
  requests that fail, are lost or are overtaken by a disconnect.
* `NothingSkipped`: a reader of all pages has seen every row that was there all
  along and stayed in its place, though rows are added in between.

`CompletedIsFinal` and `NoActionForgotten` are claims about runs that keep their
lease: with the fault `slow` a late ScheduleRetry of an action reopens a
completed one (section 5).

One hazard has no property: rules on display that stay older than the server's.
The page does nothing against two ways to it, and `RulesCurrent` leaves them out:
two toggles in flight at once, whose refreshes are answered in the other order,
leave the older list of rules on display; and a save of the form that takes
effect and loses its answer leaves the rules as they were before it. Both last
until the rules are next listed with no other rule request in flight, so
`doubtful` is lowered there.

## 4. Runs

| Run | Checks | Instance |
|---|---|---|
| queue_safety | TypeOK, ClaimBudget, OverlapOnlyAfterLapse, ExhaustedStaysFailed, ImplementsContract | 2 rows, 2 deliveries, 3 workers, limits 0, 1, 2, 3; symmetry in workers and deliveries |
| executor_recovery | ExecTypeOK, RepeatsOnlyThroughWindow, ProcessedAfterActions, CompletedIsFinal, NoActionForgotten | 1 row, 2 workers, 2 intents, limit 3, 2 attempts per action; crashes and failing statements; fair |
| executor_faults | CallsWithinClaims, Settles | 1 row, 2 workers, 1 intent, limit 2, all four faults; fair |
| executor_processed | ProcessedAfterActions, violated | 1 row, 2 workers, 1 intent, limit 3, fault `slow` alone |
| repository_connect | TypeOK, OneRepositoryPerUser, RowsFollowRepository, RulesWrittenByOwner, FailedOnlyWhenShared | 2 users, 2 repositories on GitHub, 3 connections in all, 2 deliveries, 2 rules, 2 requests under way; symmetry in users, rules and requests |
| session_auth | TypeOK, OneLoginPerState, StateUsedInTime, NothingAfterLogout, SessionUsedInTime | 2 accounts, 2 states, 2 session tokens, 2 requests under way, times to live 1 and 2, 4 ticks; symmetry in all four sets |
| rate_limiter | TypeOK, BurstPlusRefill, RefusedOnlyWhenSpent | 3 requests, burst 2, a token every 2 ticks, readings up to 1 tick late, 9 ticks; symmetry in requests |
| retry_timing | TypeOK, BackoffCovered, RetriesMissed, LeaseCoversRun, SettledByDeadline | 2 workers, 2 actions, limits 0, 1, 3, 3 attempts per action, backoffs 1, 2, 4, leases 1, 3 and 4, calls of up to 1 tick, poll 1, two faults; symmetry in workers |
| rule_engine | TypeOK, MatchesAsWritten, SentAsFirstWritten, FailsAsDocumented | 1 rule under 2 names, 2 saves or deletions, 2 runs of one event, 2 attempts; each condition alone and all together, every config of every action type, 7 payloads, 3 answers of the provider |
| paging | TypeOK, NothingSkipped | up to 5 rows, at most 2 in an answer, limits 0 (none given), 2 and 3, 2 pages of repositories |
| dashboard | TypeOK, ShowsWhatItSays, RulesCurrent, SpinnersEnd | the load and 4 clicks, at most 2 requests in flight at a click, the lists of rules and actions, 2 filters, 2 texts, one failed request or lost answer; fair |
| dashboard_late | ShowsConnectedOnly, violated | the same without failures |

**Bounds.** In the queue and the pipeline `MaxRows` is the only bound on behaviours: the table never forgets a
row, so its rows bound everything else (each can be claimed only as often as its
budget allows, which is itself a property). Two rows are what it takes for SKIP
LOCKED to skip one, and for a redelivered id to meet its first row; the rows do
not otherwise interact. Three workers are one that lost its lease, one that took
over and one that selects meanwhile. The limits 0, 1, 2 and 3 are the boundary
cases of the comparison and the first with a retry left after a lapse; the code's
default is 3. For the pipeline one row suffices, because a run touches only its
own event's actions, and two intents are one that is done while the other is
not. For the tables of RepositoryConnect three
connections are a repository, its successor after a disconnect, and another
user's; two requests are one between its statements and one that changes the
tables meanwhile. The same two requests of SessionAuth are two callbacks with
one state, or a call and what happens to its session meanwhile; its clock
outlasts both times to live. The limiter's clock runs long enough for a bucket to empty, to
fill, and to be forgotten. Of the leases of RetryTiming 3 covers a run of the
suggestion and two calls exactly and 1 does not; 4 also covers the first backoff
behind such a run, and none the later ones, so that a takeover may find an action
waiting; two faults are a crash and another one at the run that took over; limits of 0 and 1 are the
boundary and 3 lets all three backoffs happen; its clock needs no bound, since
events settle. Two saves of a rule are one before and one between the two runs
of its event, or one during a run. Four clicks on the dashboard, after the load of the page, are a refresh, the
disconnect that overtakes it, and the two clicks of the next connect. Five rows are three
answers of the cap and less, and a row that arrives between any two of them.
All invariants are proved without these bounds (section 6).

**Fairness.** `Settles` and `NoActionForgotten` assume (`ExecFairness`): an idle worker selects a
claimable row (the ticker of Worker.Run polls for ever); a claim is committed if
it is attempted again and again (strong fairness, since a crash can cut off any
one attempt); a run goes on and is settled (every call of the pipeline has a
time-out, `http.Client.Timeout`); leases and backoffs run out. Nothing is
assumed of users, of GitHub, of the number of crashes or of the outcome of a
call. `SpinnersEnd` assumes that each request sent is in the end served or
fails, and that its answer is taken up: weak fairness for each connection of
the browser, and none for the clicks. `SettledByDeadline` needs no fairness: the
clock of RetryTiming cannot pass a poll or a time limit.

**Deadlock** is checked where the system never stops: a repository can be
connected again, a clock goes on, a settled event stays as it is (`Done`). It is
not checked in dashboard, dashboard_late and rule_engine, which stop when the
bound on clicks, saves or runs is reached, and in paging, which stops when the
reader has come to the end.

## 5. Where the code leaves its documents

Two runs end in a counterexample to a sentence of the documents.

1. *Processed* (`docs/database/README.md:70`, run executor_processed): an event
   is said to be marked processed only after all its actions are completed; two
   overlapping runs can break that between one run's tally and its
   MarkProcessed.
2. *The connected repository* (`docs/setup/LOCAL.md:147`, run dashboard_late):
   the dashboard is said to read the connected repository only. A list requested
   before a disconnect and answered after the next connect has refreshed the
   page replaces the new repository's list.

Other sentences are narrower in the models than in the documents, and the
properties name the exception:

* `docs/decisions/ADR-006…:13` has no way from `processed` back to `pending`.
  The ScheduleRetry of a worker that lost its lease takes it, because its UPDATE
  has no guard on the status. What remains true is the contract's: a closed
  event reopens only with a run left in its budget, and never once its retries
  are exhausted.
* `docs/decisions/ADR-008…:30` confines repeated effects to the window of a crash
  after success. A call whose answer is lost is repeated without a crash;
  `RepeatsOnlyThroughWindow` is checked without that fault.
* `docs/decisions/ADR-008…:32` bounds attempts by ACTION_MAX_RETRIES. An attempt
  that a crash cut off is not counted; the bound that remains true is
  `CallsWithinClaims`.
* `docs/decisions/ADR-008…:23` calls 403 permanent. The client classes a 403 that
  carries a rate limit as 429, and it is retried; `FailsAsDocumented` takes the
  class the client gives.
* `docs/api/README.md:164` gives `limit` a maximum of 100. The store cuts the
  rows to 100, but the offset of a page is computed from the limit as asked, so
  that page 2 of 200 skips a hundred rows; `NothingSkipped` excepts that client.

## 6. Proofs

The first part of `ActionExecutorProofs` is about `EventQueue` alone. It proves
for every number of rows, deliveries and workers and every set of retry limits
(`RowsAssumption`, `LimitsAssumption`, `NoneAssumption` are the only
assumptions):

| Theorem | Statement |
|---|---|
| TypeCorrect | `Spec => []TypeOK` |
| ClaimsBounded | `Spec => []ClaimBudget` |
| OverlapNeedsLapse | `Spec => []OverlapOnlyAfterLapse` |
| ExhaustedNeverRevived | `Spec => ExhaustedStaysFailed` |
| QueueImplementsContract | `Spec => ImplementsContract` |

The argument. `LockInv` says that a row between SELECT and UPDATE has one
selector (`OneSelector`) whose copy still equals the row (`CopyIsRow`): that is
what the row lock buys, and every later step may then reason about the row
instead of the copy. `ClaimBudget` is not inductive: the number of claims says
nothing about the retries still possible. `BudgetInv` ties the two together,
row by row (`RowBudget`): the claims of a row never exceed its retry count plus
one, a row waiting to be claimed has made no more than its retry count, and a
retry count at the limit leaves no open row. `RanOnce` adds that a worker at
work, or a closed row, has a claim to show, so that a stray ScheduleRetry meets
a row with at least one run made. `OverlapInv` adds `Unlapsed`: while no lease
of a row ever expired, the row is not stale, at most one worker is at work on
it, and none while it is pending. The refinement maps each row to an event of the contract, with the delivery id
it accepted, so that the UNIQUE constraint of the table is what lets Ingest be an
`Accept`; `RowView` says what each
change of a row is in the contract, so that the step proof is one case per
action.

Its second part proves of the whole pipeline, for any number of intents
and any set of faults (`WorkersAssumption`: finitely many workers):

| Theorem | Statement |
|---|---|
| ExecutorIsQueue | `ExecSpec => Spec`: all theorems of the queue hold of it |
| ExecTypeCorrect | `ExecSpec => []ExecTypeOK` |
| CallsPaidByClaims | `ExecSpec => []CallsWithinClaims` |
| CallsBounded | `max_retries` of an event bounds the calls of each of its actions |
| ProcessedWhenDone | without the fault `"slow"`: `ExecSpec => ProcessedAfterActions` |
| CompletedForGood | without the fault `"slow"`: `ExecSpec => CompletedIsFinal` |
| RepeatsNeedWindows | without the faults `"slow"` and `"lost"`: `ExecSpec => []RepeatsOnlyThroughWindow` |

Each step of a run leaves the queue alone or is one of its steps. `May(run, i)`
says that a run may still call action `i`; `RunGoesOn` shows that no step of a
run brings an action back that it has behind it, and `InHand` that a call takes
its action off the list. `CallInv` then adds up: the calls made of an action and
the runs that may still make one (`Open`) are never more than the claims, since
a claim opens one and a call closes one.

The last three say what no crash, failed statement or lost answer can undo
while runs end within their lease; `"slow"` in `Faults` is the run that does
not, and the runs `executor_faults` and `executor_recovery` leave it out as
well. Then a worker's claim stays its own: `Held` says that the row of a run is
still processing (or deleted), is not stale, and that no other worker is on it.
Nobody else writes the actions of its event, so the run may be reasoned about by
their rows: what it has listed or is calling is open (`RowsAwait`), and a run
that ended well left nothing undone (`AllDone`), whence `ProcessedAfterActions`
and `CompletedIsFinal`. For the repeated effects `EffectsPaid` compares the
effects of an action with the windows that opened between a success and its
record. An effect may be one ahead of its windows only while the row is
completed, or while a run holds the success it has not recorded (`Recording`),
or when the event is gone; an action that lies ahead of a run (`Ahead`) has
none to spare. A window opens exactly when a run is cut off while `Recording`.

`RepositoryConnectProofs` proves, for any users, requests and rows
(`RepositoriesAssumption`, `RepoOfAssumption`, `NobodyAssumption`):

| Theorem | Statement |
|---|---|
| TypeCorrect | `Spec => []TypeOK` |
| OneRepository | `Spec => []OneRepositoryPerUser` |
| NoOrphans | `Spec => []RowsFollowRepository` |
| OwnRulesOnly | `Spec => []RulesWrittenByOwner` |
| MismatchNeedsSharing | `Spec => []FailedOnlyWhenShared` |

What carries them is what a request remembers: `Remembers` types it for each
operation, `NamesInv` says that the row it names was there and was the right one
(`Named`), which stays true because rows are written once and ids are never used
again. For the last theorem `SharedInv` adds that two connected rows of one
repository on GitHub set `shared`, and that a mismatch found but not yet
recorded is `Excused`: it is of a shared repository, or of a row that is gone by
now, which FailEvent will then not find.

`SessionAuthProofs` proves, for any accounts, requests and times to live
(`TimesAssumption`):

| Theorem | Statement |
|---|---|
| TypeCorrect | `Spec => []TypeOK` |
| StateSignsInOnce | `Spec => []OneLoginPerState` |
| StateExpires | `Spec => []StateUsedInTime` |
| LogoutIsFinal | `Spec => []NothingAfterLogout` |
| SessionExpires | `Spec => []SessionUsedInTime` |

The argument is that rows move forward only (`LastingStates`,
`LastingSessions`): consumed and deleted are final, and deadlines never change.
So what a request found in a row still bounds it later (`Knows`, `KnownStill`).
`OneLoginPerState` becomes inductive with one fact about each callback past
Consume and each session: its state is consumed, so that the state a Consume
finds open has neither.

`RateLimiterProofs` proves `TypeCorrect`, `WindowBounded`
(`Spec => []BurstPlusRefill`) and `RefusalsDeserved`
(`Spec => RefusedOnlyWhenSpent`) for any rate, burst and number of requests,
from `RateAssumption`, `TimeAssumption` and `IdleAssumption`. `BurstPlusRefill` is
not inductive, since it says nothing of the bucket. `Account` does: as long as
the bucket exists, it is short of whatever was spent in a window and not earned
since the window began; readings out of order cancel out in it, as they move
tokens and `last` by the same amount. When the bucket is forgotten, that was
earned in the meantime, which is where IdleAssumption is needed; `Sound` bounds
the debt that late readings can leave. Refusals need the opposite bound, on what
a bucket has at least: `Drained` says that there was a moment when it was full
(its first request, or the last time the refill was cut off at the burst), and
that what it lacks of burst and refill since is no more than was spent since
(`FullAt`). A refused request finds less than a token, so that the window from
that moment to its reading is the one `RefusedOnlyWhenSpent` asks for.

`RetryTimingProofs` proves, for any workers, number of actions, retry limits,
leases, time limits and ascending backoffs (`TimesAssumption`,
`WorkersAssumption`):

| Theorem | Statement |
|---|---|
| TypeCorrect | `Spec => []TypeOK` |
| LeaseCovers | `Spec => []LeaseCoversRun` |
| BackoffsCover | `Spec => []BackoffCovered` |
| MissedByFaults | `Spec => []RetriesMissed` |
| SettledInTime | `Spec => []SettledByDeadline` |

For the first four the inductive invariant has five parts beside the types. `OneRun`: as long as no
run was taken over alive, one worker runs the event and its copy of the retry
count is the row's. `Paced`: the time since the claim is at most the time limits
of the calls the run has behind it, so a takeover of a live run needs a lease
shorter than all of them. `Covered`: no action has failed more often than its
event was retried, but for those the current run has behind it; since
RetryBackoff is monotonic, no action then waits longer than the event.
`Behind`: what a run that died leaves waiting is due within the longest run and
the event's next backoff after its claim. `Kept`: attempts and retries, counted
from the retry in which the action was created, differ by the faults at most; an
action that still waits when its event is claimed is short of that by one
(`Ready`), which the run that passes it by then spends.

The deadline is a safety property, since the clock may only tick when nothing is
due. `Start(n)` is what an event with retry count `n` can have used of its time:
`n` claims, each with its poll and its run or lease, and the backoffs between
them. `DeadlineInv` keeps a pending event due by `Start(n)`, and a claim of it
within a poll of that (`EventOnTime`); and every run on time by the retry count
it copied (`RunOnTime`, `Punctual`): a run that was taken over goes on with an
old copy, so that its ScheduleRetry only ever shortens the row's schedule. The
sums of the backoffs have a closed form (`BackoffSums`), which spares the
induction over the retries.

`RuleEngineProofs` proves, for any rules, words, inputs, payloads and answers of
the provider (`BoundsAssumption`, `WordsAssumption`, `InputsAssumption`,
`PayloadsAssumption`, `OutputsAssumption`):

| Theorem | Statement |
|---|---|
| TypeCorrect | `Spec => []TypeOK` |
| RulesMatchAsWritten | `Spec => []MatchesAsWritten` |
| CallsSayAsWritten | `Spec => []SentAsFirstWritten` |
| AttemptsFailAsDocumented | `Spec => []FailsAsDocumented` |

A stored rule is the normal form of the input it was made from, and folding case
and space is idempotent, so that a condition of the row and of the input hold of
the same fields. The one step that is not field by field is the labels: the
row keeps one of each, the first, and the first place at which a label occurs
exists because a set of numbers has a least element. For the calls the invariant
keeps with each action the config it was created with and that it sufficed, so
that only a missing suggestion can leave a call without a text; and with a run
the names of the rules it matched (`NamesKept`), that of each action it created
among them (`NameKnown`).

`DashboardProofs` proves, for any number of clicks, of requests in flight, of
failures, and any lists, filters and texts (`ListsAssumption`,
`FiltersAssumption`, `TextsAssumption`, `BoundsAssumption`):

| Theorem | Statement |
|---|---|
| DashboardTypes | `Spec => []TypeOK` |
| DashboardShowsWhatItSays | `Spec => []ShowsWhatItSays` |
| DashboardRulesCurrent | `Spec => []RulesCurrent` |

What keeps late answers apart is not that answers are checked on arrival (they
are not) but what can be in flight together, and the invariant says that.
`OneCard`: the card asks for one thing at a time, and for a repository only
while the page shows none. `Attentive`, as long as nothing was `crossed`: lists
and rule requests the page waits for exist only while it shows a repository
(`Attached`); that repository is the server's, or gone there (`SameRepo`); an
answer under way still says what the server and the page say (`FreshAnswer`);
at most one list of actions is asked for, under the filter the page names, and
its spinner turns (`Filtered`). Hence a repository changes at the server only
while no list is in flight. `Ordered`, as long as nothing is `doubtful`
either: one request about rules at most is in flight (`OneRuling`), the list of
rules it may carry is the server's (`CurrentView`), and so is the one on display
unless a write or a fresh list is on its way (`CurrentRules`). The proof first
brings every click, every step of the server and every answer to one of a dozen
forms (`ListClick`, `CardClick`, `Handled`, `Refreshed`, `RuleSaved`, …), and
then shows each of the three layers `Basic`, `Attentive` and `Ordered` for each
form.

`PagingProofs` proves of a reader, for any limits, cap and bound on the pages
and lists of any length (`LimitsAssumption`, `BoundsAssumption`):

| Theorem | Statement |
|---|---|
| PagingTypes | `Spec => []TypeOK` |
| PagesSkipNothing | `Spec => []NothingSkipped` |

`NothingSkipped` speaks of the end only; `StillBefore` says what leads there:
unless a row left the list, or the pages of the query are longer than an answer
(`Fits`), every row the reader should see was seen or stands beyond the offset
it asks for next. A row that is inserted, or moved to the front, only pushes the
others further back (`InsertedKeeps`), except the one that moved, which the
reader is no longer owed; an answer takes up every position from its offset to
where the next one begins (`Answered`). `FullPages` keeps the number of
repositories seen a multiple of the page, so that a loop that ends at its bound
has seen `MaxPages * Cap`. The lists are sequences, and what `InsertAt`,
`RemoveAt` and a page make of them is stated once, position by position.

Only model-checked is liveness, since fairness is out of the prover's reach:
`Settles`, `SpinnersEnd`, and `NoActionForgotten`, which says that something
holds from some time on. Every other property of the passing runs is a theorem.

## 7. Not modelled, and the plan

* *Start and shutdown* (`app/app.go`): the order of cancelling the worker, waiting
  for it and draining HTTP is one straight line with no state of its own. What
  it does to the others is in their models: a cancelled context is the `Crash`,
  `CrashRun` and `StatementFails` of a run, a request that is cut off `Abandon`
  or `Leave`.
* *Configuration, logging, cryptography, migrations*: no state that a later step
  depends on; settings are constants of the modules.
* *Of the ingestion*: the HMAC check and the JSON envelope, which come before any
  change of state.
* *Of the dashboard*: rendering, the texts of errors, and the details of a
  selected event.
* *Of the AI provider*: prompts and HTTP; the priority it suggests is wording.

What is left to do: every safety property of a run is proved. Between the
modules there is one refinement (`QueueImplementsContract`) and one composition
(`ExecutorIsQueue`) proved; not yet that RetryTiming, which runs the same queue
and pipeline by a clock, is an `EventQueue` whose lapses happen in time.
