------------------------------ MODULE Dashboard ------------------------------
(* One tab of the dashboard and the server behind it.  Every click sends a   *)
(* request; the server serves requests in any order, answers arrive in any   *)
(* order, and what follows the await in the page's handlers runs with the    *)
(* state of that later moment.  Connections and rules carry the number of    *)
(* the click that made them.                                                 *)
EXTENDS Integers, FiniteSetsExt, Functions

CONSTANTS
    Lists,      \* the lists shown: "rules", and "events" and "actions" or one of them
    Filters,    \* the values of the event type selector
    AnyType,    \* its initial value, "All event types"
    Texts,      \* what a rule may say
    MaxClicks,  \* bound on the clicks of the user, reloads included
    MaxInFlight,\* bound on the requests in flight when the user clicks
    MaxFailures \* bound on the requests that fail or whose answer is lost

ASSUME ListsAssumption == "rules" \in Lists /\ Lists \subseteq {"rules", "events", "actions"}
ASSUME FiltersAssumption == AnyType \in Filters
ASSUME TextsAssumption == Texts # {}
ASSUME BoundsAssumption == MaxClicks \in Nat \ {0} /\ MaxInFlight \in Nat /\ MaxFailures \in Nat

VARIABLES
    repo,       \* server: the connection of the user, 0 when there is none
    rules,      \* server: the rules of that connection, by number
    connected,  \* page: the connection it shows, 0 for null
    picking,    \* page: is the list of candidates open?
    card,       \* page: repoLoading, repoBusy or neither
    shown,      \* page: the answer each list was last set to
    loading,    \* page: rulesLoading, eventsLoading, actionsLoading
    failed,     \* page: is rulesError, eventsError, actionsError set?
    filter,     \* page: actionEventTypeFilter
    form,       \* page: the rule form, closed, for a new rule or for the rule it edits
    formBusy,   \* page: formBusy
    clicks,     \* number of clicks so far
    failures,   \* number of requests that failed or lost their answer so far
    inFlight,   \* requests sent whose answer has not been taken up
    crossed,    \* history: a disconnect was answered with other requests in flight,
                \*   or a reload left a connect or a disconnect in flight
    doubtful    \* history: since the rules were last asked for with no other rule
                \*   request in flight, rule requests ran concurrently, or a save of
                \*   the form lost its answer

server == <<repo, rules>>
cardVars == <<connected, picking, card>>
listVars == <<shown, loading, failed, filter>>
formVars == <<form, formBusy>>
history == <<crossed, doubtful>>
vars == <<server, cardVars, listVars, formVars, clicks, failures, inFlight, history>>

Numbers == 1..MaxClicks

(* What a rule says, as the API carries it.                                *)
Rule == [text: Texts, on: BOOLEAN]
NoRule == [text |-> CHOOSE t \in Texts: TRUE, on |-> FALSE]

(* The rows a read found: those of a connection, under a filter; for the    *)
(* rules also what they say.                                                *)
View(r, f, rs) == [repo |-> r, filter |-> f, rules |-> rs]
Empty == View(0, AnyType, <<>>)

RuleWrites == {"createRule", "updateRule", "deleteRule"}
Writes == RuleWrites \cup {"connect", "disconnect"}

(* A request: the connection of the browser it is sent on, what it asks for, *)
(* the rule it names or the number of what it makes, what it sends, what     *)
(* waits for it, a spinner or a page that is gone ("nobody"), and whether    *)
(* its success closes the form.                                              *)
Request(slot, op, rule, body, waiter) ==
    [slot |-> slot, op |-> op, filter |-> AnyType, rule |-> rule, body |-> body,
     waiter |-> waiter, closes |-> waiter = "form", status |-> "sent", view |-> Empty]

(* listRules, listEvents, listActions: only the last takes a filter.       *)
ListRequest(l, slot, f, waiter) ==
    [Request(slot, l, 0, NoRule, waiter) EXCEPT !.filter = IF l = "actions" THEN f ELSE AnyType]

Sent == {q \in inFlight: q.status = "sent"}
Answered == inFlight \ Sent
AboutRules(qs) == {q \in qs: q.op \in RuleWrites \cup {"rules"}}

\* The connection the next request is sent on: the lowest that is free.
FreeSlot == Min(1..(Cardinality(inFlight) + 1) \ {q.slot: q \in inFlight})

ClosedForm == [open |-> FALSE, rule |-> 0]

(* The user may come back to a connection with a rule: both numbered 1.    *)
Init ==
    /\ repo \in {0, 1}
    /\ rules = IF repo = 0 THEN <<>> ELSE [r \in {1} |-> [NoRule EXCEPT !.on = TRUE]]
    /\ connected = 0 /\ picking = FALSE /\ card = "loading"
    /\ shown = [l \in Lists |-> Empty]
    /\ loading = [l \in Lists |-> FALSE]
    /\ failed = [l \in Lists |-> FALSE]
    /\ filter = AnyType
    /\ form = ClosedForm /\ formBusy = FALSE
    /\ clicks = 1 /\ failures = 0
    /\ inFlight = {Request(1, "load", 0, NoRule, "card")}
    /\ crossed = FALSE /\ doubtful = FALSE

------------------------------------------------------------------------------
(* The clicks of the user.                                                 *)

NextClick ==
    /\ clicks < MaxClicks /\ Cardinality(inFlight) < MaxInFlight
    /\ clicks' = clicks + 1
    /\ UNCHANGED failures

Ask(op, rule, body, waiter) ==
    /\ NextClick
    /\ inFlight' = inFlight \cup {Request(FreeSlot, op, rule, body, waiter)}

(* refreshRules, refreshEvents, refreshActions up to their await.          *)
StartRefresh(ls) ==
    /\ loading' = [l \in Lists |-> l \in ls \/ loading[l]]
    /\ failed' = [l \in Lists |-> l \notin ls /\ failed[l]]

\* Fault variant: the controls of a list stay enabled while it loads.
ControlsAlways(l) == connected # 0
(* A list can be refreshed: its controls are enabled, or, for the rules,   *)
(* "Try again" is shown.                                                   *)
Controls(l) == connected # 0 /\ ~loading[l] /\ (l = "rules" => failed[l])

Refresh(l) ==
    /\ Controls(l)
    /\ NextClick
    /\ StartRefresh({l})
    /\ inFlight' = inFlight \cup {ListRequest(l, FreeSlot, filter, "list")}
    /\ doubtful' = IF l = "rules" THEN AboutRules(inFlight) # {} ELSE doubtful
    /\ UNCHANGED <<server, cardVars, shown, filter, formVars, crossed>>

(* onActionEventTypeFilterChange                                           *)
ChooseFilter(f) ==
    /\ "actions" \in Lists /\ Controls("actions") /\ f # filter
    /\ NextClick
    /\ filter' = f
    /\ StartRefresh({"actions"})
    /\ inFlight' = inFlight \cup {ListRequest("actions", FreeSlot, f, "list")}
    /\ UNCHANGED <<server, cardVars, shown, formVars, history>>

StartPick ==
    /\ connected = 0 /\ ~picking /\ card = "free"
    /\ Ask("pick", 0, NoRule, "card")
    /\ card' = "busy"
    /\ UNCHANGED <<server, connected, picking, listVars, formVars, history>>

CancelPick ==
    /\ picking /\ card = "free"
    /\ picking' = FALSE
    /\ UNCHANGED <<server, connected, card, listVars, formVars, clicks, failures, inFlight, history>>

ConnectClick ==
    /\ picking /\ card = "free"
    /\ Ask("connect", clicks + 1, NoRule, "card")
    /\ card' = "busy"
    /\ UNCHANGED <<server, connected, picking, listVars, formVars, history>>

DisconnectClick ==
    /\ connected # 0 /\ ~picking /\ card = "free"
    /\ Ask("disconnect", 0, NoRule, "card")
    /\ card' = "busy"
    /\ UNCHANGED <<server, connected, picking, listVars, formVars, history>>

(* The form and the rows of the rules show only then.                      *)
RulesVisible == connected # 0 /\ ~loading["rules"] /\ ~failed["rules"]

OpenCreate ==
    /\ connected # 0 /\ ~form.open
    /\ NextClick
    /\ form' = [ClosedForm EXCEPT !.open = TRUE]
    /\ UNCHANGED <<server, cardVars, listVars, formBusy, inFlight, history>>

Edit(r) ==
    /\ RulesVisible
    /\ NextClick
    /\ form' = [open |-> TRUE, rule |-> r]
    /\ UNCHANGED <<server, cardVars, listVars, formBusy, inFlight, history>>

CancelForm ==
    /\ RulesVisible /\ form.open /\ ~formBusy
    /\ form' = ClosedForm
    /\ UNCHANGED <<server, cardVars, listVars, formBusy, clicks, failures, inFlight, history>>

AskRule(q) ==
    /\ NextClick
    /\ inFlight' = inFlight \cup {q}
    /\ doubtful' = (doubtful \/ AboutRules(inFlight) # {})
    /\ UNCHANGED <<server, cardVars, listVars, form, crossed>>

(* onSubmitRule: the form sends all that the user has filled in.           *)
Submit(body) ==
    /\ RulesVisible /\ form.open /\ ~formBusy
    /\ formBusy' = TRUE
    /\ IF form.rule # 0
       THEN AskRule(Request(FreeSlot, "updateRule", form.rule, body, "form"))
       ELSE AskRule(Request(FreeSlot, "createRule", clicks + 1, body, "form"))

(* onToggle: the row sends all it shows, with the switch turned.           *)
Toggle(r) ==
    /\ RulesVisible
    /\ LET row == shown["rules"].rules[r]
       IN  AskRule(Request(FreeSlot, "updateRule", r, [row EXCEPT !.on = ~row.on], "list"))
    /\ UNCHANGED formBusy

(* onDelete: what it does to the form is settled by the rule that is being *)
(* edited when it is clicked.                                              *)
DeleteClick(r) ==
    /\ RulesVisible
    /\ AskRule([Request(FreeSlot, "deleteRule", r, NoRule, "list")
                   EXCEPT !.closes = (form.rule = r)])
    /\ UNCHANGED formBusy

(* A reload, or a logout and a new login: the page starts afresh, and only *)
(* what its writes still do at the server is left of it.                   *)
Reload ==
    LET abandoned == {[q EXCEPT !.waiter = "nobody"]: q \in {p \in Sent: p.op \in Writes}}
    IN  /\ NextClick
        /\ inFlight' = abandoned \cup {Request(FreeSlot, "load", 0, NoRule, "card")}
        /\ connected' = 0 /\ picking' = FALSE /\ card' = "loading"
        /\ shown' = [l \in Lists |-> Empty]
        /\ loading' = [l \in Lists |-> FALSE]
        /\ failed' = [l \in Lists |-> FALSE]
        /\ filter' = AnyType
        /\ form' = ClosedForm /\ formBusy' = FALSE
        /\ crossed' = (abandoned # AboutRules(abandoned))
        /\ doubtful' = (AboutRules(abandoned) # {})
        /\ UNCHANGED server

Click ==
    \/ \E l \in Lists: Refresh(l)
    \/ \E f \in Filters: ChooseFilter(f)
    \/ StartPick \/ CancelPick \/ ConnectClick \/ DisconnectClick
    \/ OpenCreate \/ CancelForm
    \/ \E body \in Rule: Submit(body)
    \/ \E r \in DOMAIN shown["rules"].rules: Edit(r) \/ Toggle(r) \/ DeleteClick(r)
    \/ Reload

------------------------------------------------------------------------------
(* The server.                                                             *)

(* GetConnected, List, ListEvents, ListActions, ListGitHubRepositories     *)
Found(q) ==
    IF q.op = "rules" THEN View(repo, AnyType, rules) ELSE View(repo, q.filter, <<>>)

\* Disconnecting is idempotent: without a repository it succeeds too.
StatusOf(q) ==
    IF q.op \in {"load", "pick", "disconnect"} THEN "ok"
    ELSE IF q.op = "connect" THEN IF repo = 0 THEN "ok" ELSE "error"
    ELSE IF repo = 0 THEN "notfound"
    ELSE IF q.op \in {"updateRule", "deleteRule"} /\ q.rule \notin DOMAIN rules THEN "notfound"
    ELSE "ok"

(* What the request changes when it succeeds; a connection takes its rules *)
(* with it.                                                                *)
Effect(q) ==
    /\ repo' = CASE q.op = "connect" -> q.rule
               [] q.op = "disconnect" -> 0
               [] OTHER -> repo
    /\ rules' = CASE q.op = "createRule" ->
                       [r \in DOMAIN rules \cup {q.rule} |-> IF r = q.rule THEN q.body ELSE rules[r]]
                [] q.op = "updateRule" -> [rules EXCEPT ![q.rule] = q.body]
                [] q.op = "deleteRule" -> Restrict(rules, DOMAIN rules \ {q.rule})
                [] q.op = "disconnect" -> <<>>
                [] OTHER -> rules

(* The answer is on its way; nobody waits for those of a page that is gone. *)
Answer(q, status, view) ==
    inFlight' = (inFlight \ {q}) \cup
        IF q.waiter = "nobody" THEN {} ELSE {[q EXCEPT !.status = status, !.view = view]}

Fails == failures < MaxFailures /\ failures' = failures + 1

Serve(q) ==
    /\ IF StatusOf(q) = "ok" THEN Effect(q) ELSE UNCHANGED server
    /\ Answer(q, StatusOf(q), IF StatusOf(q) = "ok" THEN Found(q)' ELSE Empty)
    /\ UNCHANGED <<cardVars, listVars, formVars, clicks, failures, history>>

(* It fails, or is lost, before it has any effect.                         *)
Fail(q) ==
    /\ Fails
    /\ Answer(q, "error", Empty)
    /\ UNCHANGED <<server, cardVars, listVars, formVars, clicks, history>>

(* It has its effect, and its answer is lost. Behind a save of the form the *)
(* rules stay on display as they were.                                     *)
LoseAnswer(q) ==
    /\ q.op \in Writes /\ StatusOf(q) = "ok"
    /\ Fails
    /\ Effect(q)
    /\ Answer(q, "error", Empty)
    /\ doubtful' = (doubtful \/ q.waiter = "form")
    /\ UNCHANGED <<cardVars, listVars, formVars, clicks, crossed>>

------------------------------------------------------------------------------
(* The handlers of the page after their await.                             *)

\* Fault variant: with the first of them.
AwaitedNone(q) == {}
(* The awaited answers of a click: its spinner ends with the last of them. *)
Awaited(q) == {p \in inFlight' : p.waiter = q.waiter}

Finish(q) ==
    /\ card' = IF q.waiter = "card" /\ Awaited(q) = {} THEN "free" ELSE card
    /\ formBusy' = IF q.waiter = "form" /\ Awaited(q) = {} THEN FALSE ELSE formBusy

TakeUp(q, follow) == inFlight' = (inFlight \ {q}) \cup follow

\* Fault variant: the spinner of a list ends only when the list arrives.
LoadedOnSuccess(q) == IF q.status = "ok" THEN [loading EXCEPT ![q.op] = FALSE] ELSE loading
(* finally: a list that arrived, or failed, is not loading any more.       *)
Loaded(q) == [loading EXCEPT ![q.op] = FALSE]

(* refreshRules, refreshEvents, refreshActions after their await: no       *)
(* repository is an empty list of events or actions, and an error of rules. *)
DeliverList(q) ==
    /\ q.op \in Lists
    /\ shown' = CASE q.status = "ok" -> [shown EXCEPT ![q.op] = q.view]
                [] q.status = "notfound" /\ q.op # "rules" -> [shown EXCEPT ![q.op] = Empty]
                [] OTHER -> shown
    /\ failed' = IF q.status = "error" \/ (q.status = "notfound" /\ q.op = "rules")
                 THEN [failed EXCEPT ![q.op] = TRUE] ELSE failed
    /\ loading' = Loaded(q)
    /\ TakeUp(q, {})
    /\ Finish(q)
    /\ UNCHANGED <<server, connected, picking, filter, form, clicks, failures, history>>

(* Promise.all of the three refreshes.                                     *)
RefreshAll(q) ==
    /\ StartRefresh(Lists)
    /\ TakeUp(q, {ListRequest(l, q.slot, filter, "card"): l \in Lists})
    /\ doubtful' = (AboutRules(inFlight) # {})
    /\ UNCHANGED shown

(* Without a repository the refreshes only clear what is shown.            *)
ClearAll(q) ==
    /\ shown' = [l \in Lists |-> Empty]
    /\ failed' = [l \in Lists |-> FALSE]
    /\ UNCHANGED <<loading, doubtful>>
    /\ TakeUp(q, {})

(* refreshAll                                                              *)
DeliverLoad(q) ==
    /\ q.op = "load"
    /\ IF q.status = "ok"
       THEN /\ connected' = q.view.repo /\ picking' = FALSE
            /\ IF q.view.repo = 0 THEN ClearAll(q) ELSE RefreshAll(q)
       ELSE TakeUp(q, {}) /\ UNCHANGED <<connected, picking, shown, loading, failed, doubtful>>
    /\ Finish(q)
    /\ UNCHANGED <<server, filter, form, clicks, failures, crossed>>

(* onStartPick                                                             *)
DeliverPick(q) ==
    /\ q.op = "pick"
    /\ picking' = (q.status = "ok" \/ picking)
    /\ TakeUp(q, {}) /\ Finish(q)
    /\ UNCHANGED <<server, connected, listVars, form, clicks, failures, history>>

(* onConnect                                                               *)
DeliverConnect(q) ==
    /\ q.op = "connect"
    /\ IF q.status = "ok"
       THEN connected' = q.view.repo /\ picking' = FALSE /\ RefreshAll(q)
       ELSE TakeUp(q, {}) /\ UNCHANGED <<connected, picking, shown, loading, failed, doubtful>>
    /\ Finish(q)
    /\ UNCHANGED <<server, filter, form, clicks, failures, crossed>>

(* onDisconnect: what is loading keeps loading.                            *)
DeliverDisconnect(q) ==
    /\ q.op = "disconnect"
    /\ IF q.status = "ok"
       THEN /\ connected' = 0 /\ form' = ClosedForm
            /\ shown' = [l \in Lists |-> Empty]
            /\ crossed' = (crossed \/ \E p \in inFlight \ {q}: p.waiter # "nobody")
       ELSE UNCHANGED <<connected, form, shown, crossed>>
    /\ TakeUp(q, {}) /\ Finish(q)
    /\ UNCHANGED <<server, picking, loading, failed, filter, clicks, failures, doubtful>>

(* A rule that was written is followed by a fresh list of the rules.       *)
FollowUp(q) == IF q.status = "ok" THEN {ListRequest("rules", q.slot, filter, q.waiter)} ELSE {}

\* Fault variant: its error shows beside the rules, like that of the form.
HidesNone(q) == FALSE
(* A toggle or a deletion that failed hides the rules behind its error.    *)
HidesRules(q) == q.waiter = "list"

(* onSubmitRule, onToggle, onDelete.                                       *)
DeliverRuleWrite(q) ==
    /\ q.op \in RuleWrites
    /\ IF q.status = "ok"
       THEN /\ form' = IF q.closes THEN ClosedForm ELSE form
            /\ StartRefresh({"rules"})
            /\ doubtful' = (AboutRules(inFlight \ {q}) # {})
       ELSE /\ failed' = [failed EXCEPT !["rules"] = @ \/ HidesRules(q)]
            /\ UNCHANGED <<form, loading, doubtful>>
    /\ TakeUp(q, FollowUp(q)) /\ Finish(q)
    /\ UNCHANGED <<server, connected, picking, shown, filter, clicks, failures, crossed>>

Deliver(q) ==
    \/ DeliverList(q) \/ DeliverLoad(q) \/ DeliverPick(q)
    \/ DeliverConnect(q) \/ DeliverDisconnect(q) \/ DeliverRuleWrite(q)

Next ==
    \/ Click
    \/ \E q \in Sent: Serve(q) \/ Fail(q) \/ LoseAnswer(q)
    \/ \E q \in Answered: Deliver(q)

(* Every request is answered, if it does not fail, and its answer taken up. *)
Fairness ==
    \A n \in Numbers:
        /\ WF_vars(\E q \in Sent: q.slot = n /\ Serve(q))
        /\ WF_vars(\E q \in Answered: q.slot = n /\ Deliver(q))

Spec == Init /\ [][Next]_vars /\ Fairness

------------------------------------------------------------------------------
(* Types; and every spinner turns exactly as long as a request of its click *)
(* is unanswered.                                                           *)
TypeOK ==
    /\ repo \in Numbers \cup {0} /\ connected \in Numbers \cup {0}
    /\ DOMAIN rules \subseteq Numbers /\ Range(rules) \subseteq Rule
    /\ repo = 0 => rules = <<>>
    /\ picking \in BOOLEAN /\ picking => connected = 0
    /\ card \in {"loading", "busy", "free"}
    /\ loading \in [Lists -> BOOLEAN] /\ failed \in [Lists -> BOOLEAN] /\ filter \in Filters
    /\ clicks \in Numbers /\ failures \in 0..MaxFailures
    /\ formBusy \in BOOLEAN /\ history \in BOOLEAN \X BOOLEAN
    /\ card = "free" <=> \A q \in inFlight: q.waiter # "card"
    /\ formBusy <=> \E q \in inFlight: q.waiter = "form"

Showing(l) == connected # 0 /\ ~loading[l] /\ ~failed[l]

(* A list on display is that of the repository the page names, under the   *)
(* filter the page names, or empty because that repository is gone from    *)
(* the server: answers that arrive late, or in another order than asked,   *)
(* never mix two repositories or two filters, unless a disconnect was      *)
(* answered with lists still in flight (DashboardPage.tsx, refreshActions).*)
ShowsWhatItSays ==
    ~crossed => \A l \in Lists: Showing(l) =>
        IF shown[l].repo = 0 THEN l # "rules" /\ repo # connected
        ELSE /\ shown[l].repo = connected
             /\ l = "actions" => shown[l].filter = filter

(* The documents say it without an exception: the dashboard reads Postgres  *)
(* for the connected repo only (docs/setup/LOCAL.md).                       *)
ShowsConnectedOnly ==
    \A l \in Lists: Showing(l) => shown[l].repo \in {0, connected}

(* With no rule request in flight the rules on display are those of the    *)
(* server, whichever saves, toggles and deletions went before, failed or   *)
(* took effect and lost their answer (DashboardPage.tsx, onSubmitRule,     *)
(* onToggle, onDelete). Two things the page does nothing against are left   *)
(* out, until the rules are next listed with no other rule request in       *)
(* flight: rule requests that ran at the same time, and a save of the form  *)
(* whose answer was lost, behind which the old rules stay on display.       *)
RulesCurrent ==
    Showing("rules") /\ ~crossed /\ ~doubtful /\ repo = connected
        /\ AboutRules(inFlight) = {}
        => shown["rules"].rules = rules

(* No spinner turns for ever: every list, the repository card and the form *)
(* leave their loading state, though requests fail and repositories go     *)
(* (the finally clauses of DashboardPage.tsx).                             *)
SpinnersEnd ==
    /\ \A l \in Lists: loading[l] ~> ~loading[l]
    /\ card # "free" ~> card = "free"
    /\ formBusy ~> ~formBusy

=============================================================================
