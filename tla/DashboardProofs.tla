-------------------------- MODULE DashboardProofs --------------------------
(* What the page shows is what it says, for any number of clicks, lists,     *)
(* filters, requests in flight and failures, and any order in which the      *)
(* server serves them and their answers arrive.                              *)
EXTENDS Dashboard, TLAPS

(* A request as the page sends it and the server answers it.                 *)
CardOps == {"load", "pick", "connect", "disconnect"}
Alive(q) == q.waiter # "nobody"
IsRules(f) == DOMAIN f \subseteq Numbers /\ \A r \in DOMAIN f: f[r] \in Rule
IsView(v) == v.repo \in 0..MaxClicks /\ v.filter \in Filters /\ IsRules(v.rules)

WaitersOf(op) ==
    IF op \in {"load", "pick"} THEN {"card"}
    ELSE IF op \in {"connect", "disconnect"} THEN {"card", "nobody"}
    ELSE IF op \in Lists THEN {"card", "form", "list"}
    ELSE {"form", "list", "nobody"}

IsRequest(q) ==
    /\ q \in [slot: {q.slot}, op: CardOps \cup Lists \cup RuleWrites, filter: Filters,
              rule: 0..MaxClicks, body: Rule, waiter: {"card", "form", "list", "nobody"}, closes: BOOLEAN,
              status: {"sent", "ok", "error", "notfound"}, view: {q.view}]
    /\ q.waiter \in WaitersOf(q.op) /\ IsView(q.view)
    /\ q.op \in {"createRule", "connect"} => q.rule # 0
    /\ q.status # "sent" => Alive(q)

ServerTyped == repo \in 0..MaxClicks /\ IsRules(rules) /\ (repo = 0 => rules = <<>>)
PageTyped ==
    /\ connected \in 0..MaxClicks /\ picking \in BOOLEAN /\ (picking => connected = 0)
    /\ card \in {"loading", "busy", "free"}
    /\ shown = [l \in Lists |-> shown[l]] /\ \A l \in Lists: IsView(shown[l])
    /\ loading \in [Lists -> BOOLEAN] /\ failed \in [Lists -> BOOLEAN] /\ filter \in Filters
    /\ form \in [open: BOOLEAN, rule: 0..MaxClicks] /\ formBusy \in BOOLEAN
    /\ clicks \in Numbers /\ failures \in 0..MaxFailures
    /\ crossed \in BOOLEAN /\ doubtful \in BOOLEAN
RequestsTyped == \A q \in inFlight: IsRequest(q)
Spinners ==
    /\ card = "free" <=> \A q \in inFlight: q.waiter # "card"
    /\ formBusy <=> \E q \in inFlight: q.waiter = "form"

(* The card asks for one thing at a time.                                    *)
OnCard(q) == q.op \in CardOps /\ q.waiter = "card"
OneCard ==
    /\ \A p, q \in inFlight: OnCard(p) /\ q.waiter = "card" => p = q
    /\ \A q \in inFlight: OnCard(q) /\ q.op # "disconnect" => connected = 0

(* As long as a disconnect had nothing to cross.                             *)
Lingering == \A q \in inFlight: ~Alive(q) => q.op \in RuleWrites
Attached == \A q \in inFlight: Alive(q) /\ q.op \in Lists \cup RuleWrites => connected # 0
SameRepo == connected # 0 => repo \in {0, connected}
FreshAnswer(q) ==
    /\ q.status = "ok" /\ q.op \in {"load", "connect"} => q.view.repo = repo /\ (q.op = "connect" => repo # 0)
    /\ q.status = "ok" /\ q.op \in Lists => q.view.repo = connected /\ (q.op = "actions" => q.view.filter = q.filter)
    /\ q.status = "notfound" /\ q.op \in Lists => repo = 0
Fresh == \A q \in inFlight: FreshAnswer(q)
Filtered ==
    /\ \A q \in inFlight: q.op = "actions" => loading["actions"] /\ q.filter = filter
    /\ \A p, q \in inFlight: p.op = "actions" /\ q.op = "actions" => p = q
Display(l) ==
    Showing(l) =>
        IF shown[l].repo = 0 THEN l # "rules" /\ repo # connected
        ELSE /\ shown[l].repo = connected
             /\ l = "actions" => shown[l].filter = filter
Attentive == Lingering /\ Attached /\ SameRepo /\ Fresh /\ Filtered /\ \A l \in Lists: Display(l)
CrossInv == ~crossed => Attentive

(* As long as no doubt is left about the rules. What is not saved yet, or was *)
(* refused, or failed before it had an effect, has changed nothing.           *)
Unsaved(q) == q.op \in RuleWrites /\ (q.status = "sent" \/ (q.waiter = "form" /\ q.status # "ok"))
Ruling(q) == q.op \in RuleWrites \cup {"rules"}
OneRuling ==
    /\ \A p, q \in inFlight: Ruling(p) /\ Ruling(q) => p = q
    /\ \A q \in inFlight: Ruling(q) => Alive(q)
CurrentView == \A q \in inFlight: q.op = "rules" /\ q.status = "ok" /\ repo = connected => q.view.rules = rules
CurrentRules ==
    Showing("rules") /\ repo = connected
        /\ (\A q \in inFlight: Ruling(q) => Unsaved(q))
        => shown["rules"].rules = rules
Ordered == OneRuling /\ CurrentView /\ CurrentRules
RulesInv == ~crossed /\ ~doubtful => Ordered

Types == ServerTyped /\ PageTyped /\ RequestsTyped
Basic == Types /\ Spinners /\ OneCard
IInv == Basic /\ CrossInv /\ RulesInv

------------------------------------------------------------------------------
(* The parts an action is made of.                                           *)

LEMMA Constants ==
    /\ MaxClicks \in Nat /\ MaxClicks >= 1 /\ Numbers = 1..MaxClicks
    /\ Rule = [text: Texts, on: BOOLEAN] /\ NoRule \in Rule /\ [NoRule EXCEPT !.on = TRUE] \in Rule
    /\ "rules" \in Lists /\ Lists \subseteq {"rules", "events", "actions"}
    /\ IsRules(<<>>) /\ IsView(Empty) /\ Empty.repo = 0 /\ AnyType \in Filters
<1>1. MaxClicks \in Nat /\ MaxClicks >= 1 /\ 0 \in 0..MaxClicks
  BY BoundsAssumption
<1>2. NoRule \in Rule /\ [NoRule EXCEPT !.on = TRUE] \in Rule
  BY TextsAssumption DEF NoRule, Rule
<1>3. IsRules(<<>>)
  BY DEF IsRules
<1>4. IsView(Empty) /\ Empty.repo = 0
  BY <1>1, <1>3, FiltersAssumption DEF IsView, Empty, View
<1> QED
  BY <1>1, <1>2, <1>3, <1>4, ListsAssumption, FiltersAssumption DEF Numbers, Rule

LEMMA RuleFunctions ==
    ASSUME NEW f, IsRules(f), NEW r, NEW b \in Rule
    PROVE  /\ r \in Numbers => IsRules([x \in DOMAIN f \cup {r} |-> IF x = r THEN b ELSE f[x]])
           /\ IsRules([f EXCEPT ![r] = b])
           /\ IsRules(Restrict(f, DOMAIN f \ {r}))
<1> QED
  BY DEF IsRules, Restrict

(* A request that was just sent.                                             *)
LEMMA Sends ==
    ASSUME NEW slot, NEW op \in CardOps \cup RuleWrites, NEW rule \in 0..MaxClicks, NEW body \in Rule,
           NEW waiter \in WaitersOf(op), op \in {"createRule", "connect"} => rule # 0
    PROVE  LET q == Request(slot, op, rule, body, waiter)
           IN  /\ IsRequest(q) /\ q.op = op /\ q.rule = rule /\ q.body = body /\ q.waiter = waiter
               /\ q.status = "sent"
<1> DEFINE q == Request(slot, op, rule, body, waiter)
<1>1. q = [slot |-> slot, op |-> op, filter |-> AnyType, rule |-> rule, body |-> body,
           waiter |-> waiter, closes |-> waiter = "form", status |-> "sent", view |-> Empty]
  BY DEF Request
<1> HIDE DEF q
<1>2. /\ q.slot = slot /\ q.op = op /\ q.rule = rule /\ q.body = body /\ q.waiter = waiter
      /\ q.status = "sent" /\ q.view = Empty
  BY <1>1
<1>3. waiter \in {"card", "form", "list", "nobody"}
  BY DEF WaitersOf
<1>4. q \in [slot: {q.slot}, op: CardOps \cup Lists \cup RuleWrites, filter: Filters,
             rule: 0..MaxClicks, body: Rule, waiter: {"card", "form", "list", "nobody"}, closes: BOOLEAN,
             status: {"sent", "ok", "error", "notfound"}, view: {q.view}]
  BY <1>1, <1>2, <1>3, Constants
<1>5. IsRequest(q)
  BY <1>2, <1>4, Constants DEF IsRequest
<1> QED
  BY <1>2, <1>5 DEF q

(* A request whose success closes the form, or does not.                     *)
LEMMA Closing ==
    ASSUME NEW q, IsRequest(q), NEW c \in BOOLEAN
    PROVE  LET b == [q EXCEPT !.closes = c]
           IN  IsRequest(b) /\ b.op = q.op /\ b.waiter = q.waiter /\ b.status = q.status
<1> DEFINE b == [q EXCEPT !.closes = c]
<1>1. PICK slot, v: q \in [slot: {slot}, op: CardOps \cup Lists \cup RuleWrites, filter: Filters,
                         rule: 0..MaxClicks, body: Rule, waiter: {"card", "form", "list", "nobody"}, closes: BOOLEAN,
                         status: {"sent", "ok", "error", "notfound"}, view: {v}]
  BY Zenon DEF IsRequest
<1>2. /\ b.slot = slot /\ b.op = q.op /\ b.rule = q.rule /\ b.waiter = q.waiter
      /\ b.status = q.status /\ b.view = v /\ q.view = v
      /\ b \in [slot: {slot}, op: CardOps \cup Lists \cup RuleWrites, filter: Filters,
               rule: 0..MaxClicks, body: Rule, waiter: {"card", "form", "list", "nobody"}, closes: BOOLEAN,
               status: {"sent", "ok", "error", "notfound"}, view: {v}]
  BY <1>1
<1> HIDE DEF b
<1>3. IsRequest(b)
  BY <1>2 DEF IsRequest, Alive
<1> QED
  BY <1>2, <1>3 DEF b

LEMMA SendsList ==
    ASSUME NEW l \in Lists, NEW slot, NEW f \in Filters, NEW waiter \in WaitersOf(l)
    PROVE  LET q == ListRequest(l, slot, f, waiter)
           IN  /\ IsRequest(q) /\ q.op = l /\ q.waiter = waiter /\ q.status = "sent"
               /\ l = "actions" => q.filter = f
<1> DEFINE q == ListRequest(l, slot, f, waiter)
           g == IF l = "actions" THEN f ELSE AnyType
<1>1. q = [slot |-> slot, op |-> l, filter |-> g, rule |-> 0, body |-> NoRule,
           waiter |-> waiter, closes |-> waiter = "form", status |-> "sent", view |-> Empty]
  BY DEF ListRequest, Request
<1>2. g \in Filters /\ 0 \in 0..MaxClicks /\ l \in CardOps \cup Lists \cup RuleWrites
  BY Constants
<1>3. l \notin {"createRule", "connect"}
  BY Constants
<1> HIDE DEF q, g
<1>4. /\ q.slot = slot /\ q.op = l /\ q.waiter = waiter /\ q.status = "sent" /\ q.filter = g
      /\ q.view = Empty
  BY <1>1
<1>5. waiter \in {"card", "form", "list", "nobody"}
  BY DEF WaitersOf
<1>6. q \in [slot: {q.slot}, op: CardOps \cup Lists \cup RuleWrites, filter: Filters,
             rule: 0..MaxClicks, body: Rule, waiter: {"card", "form", "list", "nobody"}, closes: BOOLEAN,
             status: {"sent", "ok", "error", "notfound"}, view: {q.view}]
  BY <1>1, <1>2, <1>4, <1>5, Constants
<1>7. IsRequest(q)
  BY <1>3, <1>4, <1>6, Constants DEF IsRequest
<1> QED
  BY <1>4, <1>7 DEF q, g

(* The answer to a request.                                                  *)
AnswerTo(a, q, status, view) ==
    /\ IsRequest(a) /\ a.op = q.op /\ a.filter = q.filter /\ a.waiter = q.waiter
    /\ a.status = status /\ a.view = view

LEMMA Answers ==
    ASSUME NEW q \in Sent, IsRequest(q), NEW status \in {"ok", "error", "notfound"},
           NEW view, IsView(view), Answer(q, status, view)
    PROVE  \/ ~Alive(q) /\ inFlight' = inFlight \ {q}
           \/ Alive(q) /\ \E a: AnswerTo(a, q, status, view) /\ inFlight' = (inFlight \ {q}) \cup {a}
<1> DEFINE a == [q EXCEPT !.status = status, !.view = view]
<1>1. CASE ~Alive(q)
  BY <1>1 DEF Answer, Alive
<1>2. CASE Alive(q)
  <2>1. inFlight' = (inFlight \ {q}) \cup {a}
    BY <1>2 DEF Answer, Alive
  <2>2. PICK slot, v: q \in [slot: {slot}, op: CardOps \cup Lists \cup RuleWrites, filter: Filters,
                           rule: 0..MaxClicks, body: Rule, waiter: {"card", "form", "list", "nobody"}, closes: BOOLEAN,
                           status: {"sent", "ok", "error", "notfound"}, view: {v}]
    BY Zenon DEF IsRequest
  <2>3. /\ a.slot = slot /\ a.op = q.op /\ a.filter = q.filter /\ a.rule = q.rule
        /\ a.waiter = q.waiter /\ a.status = status /\ a.view = view
        /\ a \in [slot: {slot}, op: CardOps \cup Lists \cup RuleWrites, filter: Filters,
                 rule: 0..MaxClicks, body: Rule, waiter: {"card", "form", "list", "nobody"}, closes: BOOLEAN,
                 status: {"sent", "ok", "error", "notfound"}, view: {view}]
    BY <2>2
  <2> HIDE DEF a
  <2>4. IsRequest(a)
    BY <1>2, <2>3 DEF IsRequest, Alive
  <2>5. AnswerTo(a, q, status, view)
    BY <2>3, <2>4 DEF AnswerTo
  <2> QED
    BY <1>2, <2>1, <2>5
<1> QED
  BY <1>1, <1>2

(* The server.                                                               *)
LEMMA EffectStep ==
    ASSUME ServerTyped, NEW q, IsRequest(q), StatusOf(q) = "ok", Effect(q)
    PROVE  /\ ServerTyped'
           /\ q.op = "connect" => repo = 0 /\ repo' # 0
           /\ q.op = "disconnect" => repo' = 0
           /\ q.op \in RuleWrites => repo' = repo
           /\ q.op \in Lists => repo # 0
           /\ q.op \in Lists \cup {"load", "pick"} => UNCHANGED server
<1>1. q.rule \in 0..MaxClicks /\ q.body \in Rule /\ q.op \in CardOps \cup Lists \cup RuleWrites
  BY DEF IsRequest
<1>2. CASE q.op = "connect"
  <2>1. repo = 0 /\ repo' = q.rule /\ rules' = rules /\ q.rule # 0
    BY <1>2 DEF StatusOf, Effect, IsRequest
  <2> QED
    BY <1>1, <1>2, <2>1, Constants DEF ServerTyped, RuleWrites
<1>3. CASE q.op = "disconnect"
  <2>1. repo' = 0 /\ rules' = <<>>
    BY <1>3 DEF StatusOf, Effect
  <2> QED
    BY <1>1, <1>3, <2>1, Constants DEF ServerTyped, RuleWrites
<1>4. CASE q.op \in RuleWrites
  <2>1. repo' = repo /\ repo # 0
    BY <1>4 DEF StatusOf, Effect, RuleWrites
  <2>2. IsRules(rules')
    <3>1. \/ q.op = "createRule" /\ rules' = [r \in DOMAIN rules \cup {q.rule} |-> IF r = q.rule THEN q.body ELSE rules[r]]
          \/ rules' = [rules EXCEPT ![q.rule] = q.body]
          \/ rules' = Restrict(rules, DOMAIN rules \ {q.rule})
      BY <1>4 DEF Effect, RuleWrites
    <3>2. q.op = "createRule" => q.rule \in Numbers
      BY <1>1, Constants DEF IsRequest
    <3>3. IsRules(rules) /\ q.body \in Rule
      BY <1>1 DEF ServerTyped
    <3>4. /\ q.rule \in Numbers =>
               IsRules([r \in DOMAIN rules \cup {q.rule} |-> IF r = q.rule THEN q.body ELSE rules[r]])
          /\ IsRules([rules EXCEPT ![q.rule] = q.body])
          /\ IsRules(Restrict(rules, DOMAIN rules \ {q.rule}))
      BY <3>3, RuleFunctions
    <3> QED
      BY <3>1, <3>2, <3>4, Zenon
  <2> QED
    BY <1>4, <2>1, <2>2, Constants DEF ServerTyped, RuleWrites
<1>5. CASE q.op \in Lists \cup {"load", "pick"}
  <2>1. q.op \notin RuleWrites \cup {"connect", "disconnect"}
    BY <1>5, Constants DEF RuleWrites
  <2>2. UNCHANGED server
    BY <2>1 DEF Effect, server, RuleWrites
  <2>3. q.op \in Lists => repo # 0
    BY Constants DEF StatusOf
  <2> QED
    BY <1>5, <2>1, <2>2, <2>3 DEF ServerTyped, server
<1> QED
  BY <1>1, <1>2, <1>3, <1>4, <1>5 DEF CardOps

(* What the server makes of a request: its answer, and what changes.         *)
Handled(q, status, view) ==
    /\ IsView(view) /\ failures' \in 0..MaxFailures
    /\ UNCHANGED <<cardVars, listVars, formVars, clicks, crossed>>
    /\ \/ ~Alive(q) /\ inFlight' = inFlight \ {q}
       \/ Alive(q) /\ \E a: AnswerTo(a, q, status, view) /\ inFlight' = (inFlight \ {q}) \cup {a}
    /\ \/ status # "ok" /\ UNCHANGED <<server, doubtful>>
       \/ StatusOf(q) = "ok" /\ Effect(q) /\ status = "ok" /\ view = Found(q)' /\ UNCHANGED doubtful
       \/ StatusOf(q) = "ok" /\ Effect(q) /\ status = "error" /\ doubtful' = (doubtful \/ q.waiter = "form")
    /\ status = "notfound" /\ q.op \in Lists => repo = 0

LEMMA FoundView ==
    ASSUME ServerTyped', NEW q, IsRequest(q)
    PROVE  IsView(Found(q)')
<1>1. q.filter \in Filters
  BY DEF IsRequest
<1> QED
  BY <1>1, Constants DEF Found, View, IsView, ServerTyped

LEMMA ServerSteps ==
    ASSUME ServerTyped, PageTyped, RequestsTyped, NEW q \in Sent, Serve(q) \/ Fail(q) \/ LoseAnswer(q)
    PROVE  /\ ServerTyped' /\ \E status \in {"ok", "error", "notfound"}: \E view: Handled(q, status, view)
<1>1. q \in inFlight /\ IsRequest(q)
  BY DEF Sent, RequestsTyped
<1>2. CASE Serve(q)
  <2> DEFINE status == StatusOf(q)
             view == IF StatusOf(q) = "ok" THEN Found(q)' ELSE Empty
  <2>1. status \in {"ok", "error", "notfound"}
    BY DEF StatusOf
  <2>2. ServerTyped'
    <3>1. CASE status = "ok"
      BY <1>1, <1>2, <3>1, EffectStep DEF Serve
    <3>2. CASE status # "ok"
      BY <1>2, <3>2 DEF Serve, ServerTyped, server
    <3> QED
      BY <3>1, <3>2
  <2>3. IsView(view)
    BY <1>1, <2>2, FoundView, Constants
  <2>4. /\ UNCHANGED <<cardVars, listVars, formVars, clicks, crossed>>
        /\ failures' \in 0..MaxFailures /\ UNCHANGED doubtful
        /\ Answer(q, status, view)
        /\ IF status = "ok" THEN Effect(q) ELSE UNCHANGED server
    BY <1>2 DEF Serve, history, PageTyped
  <2>5. status = "notfound" /\ q.op \in Lists => repo = 0
    <3>1. q.op \in Lists => q.op \notin {"updateRule", "deleteRule"}
      BY Constants
    <3> QED
      BY <3>1 DEF StatusOf
  <2>6. \/ status # "ok" /\ UNCHANGED <<server, doubtful>>
        \/ StatusOf(q) = "ok" /\ Effect(q) /\ status = "ok" /\ view = Found(q)' /\ UNCHANGED doubtful
    BY <2>4
  <2> HIDE DEF status, view
  <2>7. \/ ~Alive(q) /\ inFlight' = inFlight \ {q}
        \/ Alive(q) /\ \E a: AnswerTo(a, q, status, view) /\ inFlight' = (inFlight \ {q}) \cup {a}
    BY <1>1, <2>1, <2>3, <2>4, Answers
  <2>8. Handled(q, status, view)
    BY <2>3, <2>4, <2>5, <2>6, <2>7 DEF Handled
  <2> QED
    BY <2>1, <2>2, <2>8
<1>3. CASE Fail(q)
  <2>1. /\ UNCHANGED <<server, cardVars, listVars, formVars, clicks, history>>
        /\ failures' \in 0..MaxFailures /\ Answer(q, "error", Empty)
    BY <1>3, BoundsAssumption DEF Fail, Fails, PageTyped
  <2>2. \/ ~Alive(q) /\ inFlight' = inFlight \ {q}
        \/ Alive(q) /\ \E a: AnswerTo(a, q, "error", Empty) /\ inFlight' = (inFlight \ {q}) \cup {a}
    BY <1>1, <2>1, Answers, Constants
  <2>3. Handled(q, "error", Empty)
    BY <2>1, <2>2, Constants DEF Handled, history
  <2> QED
    BY <2>1, <2>3 DEF ServerTyped, server
<1>4. CASE LoseAnswer(q)
  <2>1. /\ StatusOf(q) = "ok" /\ Effect(q) /\ doubtful' = (doubtful \/ q.waiter = "form")
        /\ UNCHANGED <<cardVars, listVars, formVars, clicks, crossed>>
        /\ failures' \in 0..MaxFailures /\ Answer(q, "error", Empty)
    BY <1>4, BoundsAssumption DEF LoseAnswer, Fails, PageTyped
  <2>2. \/ ~Alive(q) /\ inFlight' = inFlight \ {q}
        \/ Alive(q) /\ \E a: AnswerTo(a, q, "error", Empty) /\ inFlight' = (inFlight \ {q}) \cup {a}
    BY <1>1, <2>1, Answers, Constants
  <2>3. Handled(q, "error", Empty)
    BY <2>1, <2>2, Constants DEF Handled
  <2> QED
    BY <1>1, <2>1, <2>3, EffectStep
<1> QED
  BY <1>2, <1>3, <1>4

(* The page.                                                                 *)
LEMMA RefreshStarts ==
    ASSUME PageTyped, NEW ls, StartRefresh(ls)
    PROVE  /\ loading' \in [Lists -> BOOLEAN] /\ failed' \in [Lists -> BOOLEAN]
           /\ \A l \in Lists: (loading'[l] <=> l \in ls \/ loading[l]) /\ (failed'[l] <=> l \notin ls /\ failed[l])
<1> QED
  BY DEF StartRefresh, PageTyped

LEMMA Finishes ==
    ASSUME PageTyped, Spinners, NEW q \in inFlight, NEW follow, TakeUp(q, follow), Finish(q),
           \A p \in follow: p.waiter = q.waiter
    PROVE  Spinners' /\ card' \in {"loading", "busy", "free"} /\ formBusy' \in BOOLEAN
<1>1. inFlight' = (inFlight \ {q}) \cup follow
  BY DEF TakeUp
<1>2. \A p \in inFlight': p \in inFlight \/ p.waiter = q.waiter
  BY <1>1
<1>3. \A p \in inFlight: p \in inFlight' \/ p = q
  BY <1>1
<1>4. CASE q.waiter = "card"
  <2>1. formBusy' = formBusy /\ card' = IF Awaited(q) = {} THEN "free" ELSE card
    BY <1>4 DEF Finish
  <2>2. card # "free"
    BY <1>4 DEF Spinners
  <2>3. card' = "free" <=> \A p \in inFlight': p.waiter # "card"
    BY <1>4, <2>1, <2>2 DEF Awaited
  <2>4. (\E p \in inFlight': p.waiter = "form") <=> (\E p \in inFlight: p.waiter = "form")
    BY <1>2, <1>3, <1>4
  <2> QED
    BY <2>1, <2>3, <2>4 DEF Spinners, PageTyped
<1>5. CASE q.waiter # "card"
  <2>1. card' = card /\ ((\A p \in inFlight': p.waiter # "card") <=> (\A p \in inFlight: p.waiter # "card"))
    BY <1>2, <1>3, <1>5 DEF Finish
  <2>2. CASE q.waiter = "form"
    <3>1. formBusy' = IF Awaited(q) = {} THEN FALSE ELSE formBusy
      BY <2>2 DEF Finish
    <3>2. formBusy = TRUE
      BY <2>2 DEF Spinners, PageTyped
    <3>3. Awaited(q) = {} <=> ~\E p \in inFlight': p.waiter = "form"
      BY <2>2 DEF Awaited
    <3> QED
      BY <2>1, <3>1, <3>2, <3>3 DEF Spinners, PageTyped
  <2>3. CASE q.waiter # "form"
    <3>1. formBusy' = formBusy
      BY <2>3 DEF Finish
    <3>2. (\E p \in inFlight': p.waiter = "form") <=> (\E p \in inFlight: p.waiter = "form")
      BY <1>2, <1>3, <2>3
    <3> QED
      BY <2>1, <3>1, <3>2 DEF Spinners, PageTyped
  <2> QED
    BY <2>2, <2>3
<1> QED
  BY <1>4, <1>5

(* The clicks.                                                               *)
LEMMA Asks ==
    ASSUME PageTyped, NEW op \in CardOps \cup RuleWrites, NEW rule \in 0..MaxClicks, NEW body \in Rule,
           NEW waiter \in WaitersOf(op), op \in {"createRule", "connect"} => rule # 0,
           Ask(op, rule, body, waiter)
    PROVE  /\ clicks' \in Numbers /\ failures' = failures
           /\ \E a: /\ IsRequest(a) /\ a.op = op /\ a.waiter = waiter /\ a.status = "sent"
                    /\ inFlight' = inFlight \cup {a}
<1>1. clicks' \in Numbers /\ failures' = failures
  BY Constants DEF Ask, NextClick, PageTyped
<1>2. inFlight' = inFlight \cup {Request(FreeSlot, op, rule, body, waiter)}
  BY DEF Ask
<1>3. LET a == Request(FreeSlot, op, rule, body, waiter)
      IN  IsRequest(a) /\ a.op = op /\ a.waiter = waiter /\ a.status = "sent"
  BY Sends
<1> QED
  BY <1>1, <1>2, <1>3

(* A list is asked for.                                                      *)
ListClick(l, a) ==
    /\ connected # 0 /\ ~loading[l] /\ (l = "rules" => failed[l])
    /\ IsRequest(a) /\ a.op = l /\ a.waiter = "list" /\ a.status = "sent"
    /\ l = "actions" => a.filter = filter'
    /\ l # "actions" => filter' = filter
    /\ filter' \in Filters
    /\ inFlight' = inFlight \cup {a} /\ StartRefresh({l})
    /\ doubtful' = IF l = "rules" THEN AboutRules(inFlight) # {} ELSE doubtful
    /\ clicks' \in Numbers
    /\ UNCHANGED <<server, cardVars, shown, formVars, failures, crossed>>

LEMMA ListClicks ==
    ASSUME PageTyped,
           \/ \E l \in Lists: Refresh(l)
           \/ \E f \in Filters: ChooseFilter(f)
    PROVE  \E l \in Lists: \E a: ListClick(l, a)
<1>0. NextClick => clicks' \in Numbers /\ failures' = failures
  BY Constants DEF NextClick, PageTyped
<1>1. ASSUME NEW l \in Lists, Refresh(l)
      PROVE  \E a: ListClick(l, a)
  <2> DEFINE a == ListRequest(l, FreeSlot, filter, "list")
  <2>1. "list" \in WaitersOf(l) /\ filter \in Filters
    BY Constants DEF WaitersOf, PageTyped
  <2>2. IsRequest(a) /\ a.op = l /\ a.waiter = "list" /\ a.status = "sent" /\ (l = "actions" => a.filter = filter)
    BY <2>1, SendsList
  <2> HIDE DEF a
  <2>3. /\ connected # 0 /\ ~loading[l] /\ (l = "rules" => failed[l]) /\ filter' = filter
        /\ inFlight' = inFlight \cup {a} /\ StartRefresh({l})
        /\ doubtful' = IF l = "rules" THEN AboutRules(inFlight) # {} ELSE doubtful
        /\ NextClick /\ UNCHANGED <<server, cardVars, shown, formVars, crossed>>
    BY <1>1 DEF Refresh, Controls, a
  <2> QED
    BY <1>0, <2>1, <2>2, <2>3 DEF ListClick
<1>2. ASSUME NEW f \in Filters, ChooseFilter(f)
      PROVE  "actions" \in Lists /\ \E a: ListClick("actions", a)
  <2> DEFINE a == ListRequest("actions", FreeSlot, f, "list")
  <2>1. "actions" \in Lists /\ "list" \in WaitersOf("actions")
    BY <1>2 DEF ChooseFilter, WaitersOf
  <2>2. IsRequest(a) /\ a.op = "actions" /\ a.waiter = "list" /\ a.status = "sent" /\ a.filter = f
    BY <2>1, SendsList
  <2> HIDE DEF a
  <2>3. /\ connected # 0 /\ ~loading["actions"] /\ filter' = f
        /\ inFlight' = inFlight \cup {a} /\ StartRefresh({"actions"})
        /\ NextClick /\ UNCHANGED <<server, cardVars, shown, formVars, crossed, doubtful>>
    BY <1>2 DEF ChooseFilter, Controls, history, a
  <2> QED
    BY <1>0, <2>1, <2>2, <2>3 DEF ListClick
<1> QED
  BY <1>1, <1>2

(* The repository card is asked for something.                               *)
CardClick(a) ==
    /\ card = "free" /\ card' = "busy"
    /\ IsRequest(a) /\ a.op \in {"pick", "connect", "disconnect"} /\ a.waiter = "card" /\ a.status = "sent"
    /\ a.op # "disconnect" => connected = 0
    /\ inFlight' = inFlight \cup {a} /\ clicks' \in Numbers
    /\ UNCHANGED <<server, connected, picking, listVars, formVars, failures, history>>

LEMMA CardClicks ==
    ASSUME PageTyped, StartPick \/ ConnectClick \/ DisconnectClick
    PROVE  \E a: CardClick(a)
<1>1. /\ clicks + 1 \in 0..MaxClicks \/ ~ConnectClick
      /\ clicks + 1 # 0 /\ 0 \in 0..MaxClicks /\ NoRule \in Rule
  BY Constants DEF PageTyped, ConnectClick, Ask, NextClick
<1>2. /\ {"pick", "connect", "disconnect"} \subseteq CardOps
      /\ \A op \in {"pick", "connect", "disconnect"}: "card" \in WaitersOf(op)
  BY DEF CardOps, WaitersOf
<1>3. CASE StartPick
  <2>1. /\ connected = 0 /\ card = "free" /\ card' = "busy" /\ Ask("pick", 0, NoRule, "card")
        /\ UNCHANGED <<server, connected, picking, listVars, formVars, history>>
    BY <1>3 DEF StartPick
  <2> QED
    BY <1>1, <1>2, <2>1, Asks DEF CardClick
<1>4. CASE ConnectClick
  <2>1. /\ connected = 0 /\ card = "free" /\ card' = "busy" /\ Ask("connect", clicks + 1, NoRule, "card")
        /\ UNCHANGED <<server, connected, picking, listVars, formVars, history>>
    BY <1>4 DEF ConnectClick, PageTyped
  <2> QED
    BY <1>1, <1>2, <1>4, <2>1, Asks DEF CardClick
<1>5. CASE DisconnectClick
  <2>1. /\ card = "free" /\ card' = "busy" /\ Ask("disconnect", 0, NoRule, "card")
        /\ UNCHANGED <<server, connected, picking, listVars, formVars, history>>
    BY <1>5 DEF DisconnectClick
  <2> QED
    BY <1>1, <1>2, <2>1, Asks DEF CardClick
<1> QED
  BY <1>3, <1>4, <1>5

(* A rule is to be written.                                                  *)
RuleClick(a) ==
    /\ RulesVisible
    /\ IsRequest(a) /\ a.op \in RuleWrites /\ a.waiter \in {"form", "list"} /\ a.status = "sent"
    /\ formBusy' = (formBusy \/ a.waiter = "form")
    /\ inFlight' = inFlight \cup {a} /\ clicks' \in Numbers
    /\ doubtful' = (doubtful \/ AboutRules(inFlight) # {})
    /\ UNCHANGED <<server, cardVars, listVars, form, failures, crossed>>

LEMMA RuleClicks ==
    ASSUME PageTyped,
           \/ \E body \in Rule: Submit(body)
           \/ \E r \in DOMAIN shown["rules"].rules: Toggle(r) \/ DeleteClick(r)
    PROVE  \E a: RuleClick(a)
<1>1. /\ RuleWrites = {"createRule", "updateRule", "deleteRule"}
      /\ \A op \in RuleWrites: "list" \in WaitersOf(op) /\ "form" \in WaitersOf(op)
  BY Constants DEF RuleWrites, WaitersOf
<1>2. IsRules(shown["rules"].rules) /\ NoRule \in Rule /\ formBusy \in BOOLEAN
  BY Constants DEF PageTyped, IsView
<1>3. ASSUME NEW a, IsRequest(a), a.op \in RuleWrites, NEW waiter \in {"form", "list"}, a.waiter = waiter,
             a.status = "sent", RulesVisible, AskRule(a), formBusy' = (formBusy \/ waiter = "form")
      PROVE  \E q: RuleClick(q)
  <2>1. /\ NextClick /\ inFlight' = inFlight \cup {a} /\ doubtful' = (doubtful \/ AboutRules(inFlight) # {})
        /\ UNCHANGED <<server, cardVars, listVars, form, crossed>>
    BY <1>3 DEF AskRule
  <2>2. clicks' \in Numbers /\ failures' = failures
    BY <2>1, Constants DEF NextClick, PageTyped
  <2>3. RuleClick(a)
    BY <1>3, <2>1, <2>2 DEF RuleClick
  <2> QED
    BY <2>3
<1>7. ASSUME NEW op \in RuleWrites, NEW rule \in 0..MaxClicks, NEW body \in Rule, NEW waiter \in {"form", "list"},
             op = "createRule" => rule # 0
      PROVE  LET a == Request(FreeSlot, op, rule, body, waiter)
             IN  IsRequest(a) /\ a.op = op /\ a.waiter = waiter /\ a.status = "sent"
  <2>1. waiter \in WaitersOf(op) /\ (op \in {"createRule", "connect"} => rule # 0)
    BY <1>1, <1>7
  <2> QED
    BY <2>1, Sends
<1>8. ASSUME NEW op \in RuleWrites, NEW rule \in 0..MaxClicks, NEW body \in Rule, NEW waiter \in {"form", "list"},
             op = "createRule" => rule # 0, RulesVisible, AskRule(Request(FreeSlot, op, rule, body, waiter)),
             formBusy' = (formBusy \/ waiter = "form")
      PROVE  \E a: RuleClick(a)
  <2> DEFINE a == Request(FreeSlot, op, rule, body, waiter)
  <2>1. IsRequest(a) /\ a.op = op /\ a.waiter = waiter /\ a.status = "sent"
    BY <1>7, <1>8
  <2>2. AskRule(a)
    BY <1>8
  <2> HIDE DEF a
  <2> QED
    BY <1>3, <1>8, <2>1, <2>2
<1>4. ASSUME NEW body \in Rule, Submit(body)
      PROVE  \E a: RuleClick(a)
  <2>1. RulesVisible /\ formBusy' = (formBusy \/ "form" = "form")
    BY <1>4 DEF Submit
  <2>2. CASE form.rule # 0
    <3>1. form.rule \in 0..MaxClicks
      BY DEF PageTyped
    <3>2. AskRule(Request(FreeSlot, "updateRule", form.rule, body, "form"))
      BY <1>4, <2>2 DEF Submit
    <3> QED
      BY <1>1, <1>8, <2>1, <3>1, <3>2
  <2>3. CASE form.rule = 0
    <3>1. AskRule(Request(FreeSlot, "createRule", clicks + 1, body, "form"))
      BY <1>4, <2>3 DEF Submit
    <3>2. clicks + 1 \in 0..MaxClicks /\ clicks + 1 # 0
      BY <3>1, Constants DEF PageTyped, AskRule, NextClick
    <3> QED
      BY <1>1, <1>8, <2>1, <3>1, <3>2
  <2> QED
    BY <2>2, <2>3
<1>5. ASSUME NEW r \in DOMAIN shown["rules"].rules, Toggle(r)
      PROVE  \E a: RuleClick(a)
  <2> DEFINE row == shown["rules"].rules[r]
             body == [row EXCEPT !.on = ~row.on]
  <2>1. /\ RulesVisible /\ AskRule(Request(FreeSlot, "updateRule", r, body, "list"))
        /\ formBusy' = (formBusy \/ "list" = "form")
    BY <1>2, <1>5 DEF Toggle
  <2>2. r \in 0..MaxClicks /\ row \in Rule
    BY <1>2, Constants DEF IsRules
  <2>3. body \in Rule
    BY <2>2, Constants
  <2> HIDE DEF body
  <2> QED
    BY <1>1, <1>8, <2>1, <2>2, <2>3
<1>6. ASSUME NEW r \in DOMAIN shown["rules"].rules, DeleteClick(r)
      PROVE  \E a: RuleClick(a)
  <2> DEFINE q == Request(FreeSlot, "deleteRule", r, NoRule, "list")
             c == (form.rule = r)
             a == [q EXCEPT !.closes = c]
  <2>1. RulesVisible /\ AskRule(a) /\ formBusy' = (formBusy \/ "list" = "form")
    BY <1>2, <1>6 DEF DeleteClick
  <2>2. r \in 0..MaxClicks
    BY <1>2, Constants DEF IsRules
  <2>3. IsRequest(q) /\ q.op = "deleteRule" /\ q.waiter = "list" /\ q.status = "sent"
    BY <1>1, <1>2, <1>7, <2>2
  <2>4. c \in BOOLEAN
    OBVIOUS
  <2> HIDE DEF q, c
  <2>5. IsRequest(a) /\ a.op = "deleteRule" /\ a.waiter = "list" /\ a.status = "sent"
    BY <2>3, <2>4, Closing
  <2> HIDE DEF a
  <2> QED
    BY <1>1, <1>3, <2>1, <2>5
<1> QED
  BY <1>4, <1>5, <1>6

(* Nothing is asked for.                                                     *)
QuietClick ==
    /\ picking' \in BOOLEAN /\ (picking' => picking) /\ clicks' \in Numbers
    /\ form' \in [open: BOOLEAN, rule: 0..MaxClicks]
    /\ UNCHANGED <<server, connected, card, listVars, formBusy, failures, inFlight, history>>

LEMMA Closed == ClosedForm \in [open: BOOLEAN, rule: 0..MaxClicks]
<1>1. 0 \in 0..MaxClicks
  BY Constants
<1> QED
  BY <1>1 DEF ClosedForm

LEMMA QuietClicks ==
    ASSUME PageTyped,
           \/ CancelPick \/ OpenCreate \/ CancelForm
           \/ \E r \in DOMAIN shown["rules"].rules: Edit(r)
    PROVE  QuietClick
<1>1. [ClosedForm EXCEPT !.open = TRUE] \in [open: BOOLEAN, rule: 0..MaxClicks]
  BY Closed
<1>2. CASE CancelPick
  BY <1>2 DEF CancelPick, QuietClick, PageTyped, formVars
<1>3. CASE OpenCreate
  BY <1>1, <1>3, Constants DEF OpenCreate, NextClick, QuietClick, PageTyped, cardVars
<1>4. CASE CancelForm
  BY <1>4, Closed DEF CancelForm, QuietClick, PageTyped, cardVars
<1>5. ASSUME NEW r \in DOMAIN shown["rules"].rules, Edit(r)
      PROVE  QuietClick
  <2>1. IsRules(shown["rules"].rules)
    BY Constants DEF PageTyped, IsView
  <2>2. r \in 0..MaxClicks
    BY <2>1, Constants DEF IsRules
  <2>3. form' \in [open: BOOLEAN, rule: 0..MaxClicks]
    BY <1>5, <2>2 DEF Edit
  <2> QED
    BY <1>5, <2>3, Constants DEF Edit, NextClick, QuietClick, PageTyped, cardVars
<1> QED
  BY <1>2, <1>3, <1>4, <1>5

(* The page starts afresh.                                                   *)
Reloaded(a) ==
    /\ IsRequest(a) /\ a.op = "load" /\ a.waiter = "card" /\ a.status = "sent" /\ a \in inFlight'
    /\ \A p \in inFlight': p = a \/ (IsRequest(p) /\ p.op \in Writes /\ ~Alive(p))
    /\ ~crossed' => \A p \in inFlight': p = a \/ p.op \in RuleWrites
    /\ ~crossed' /\ ~doubtful' => inFlight' = {a}
    /\ connected' = 0 /\ picking' = FALSE /\ card' = "loading"
    /\ shown' = [l \in Lists |-> Empty] /\ filter' = AnyType
    /\ loading' = [l \in Lists |-> FALSE] /\ failed' = [l \in Lists |-> FALSE]
    /\ form' = ClosedForm /\ formBusy' = FALSE
    /\ clicks' \in Numbers /\ crossed' \in BOOLEAN /\ doubtful' \in BOOLEAN
    /\ UNCHANGED <<server, failures>>

LEMMA Abandons ==
    ASSUME NEW q \in Sent, IsRequest(q), q.op \in Writes
    PROVE  LET b == [q EXCEPT !.waiter = "nobody"]
           IN  IsRequest(b) /\ b.op \in Writes /\ ~Alive(b)
<1> DEFINE b == [q EXCEPT !.waiter = "nobody"]
<1>1. PICK slot, v: q \in [slot: {slot}, op: CardOps \cup Lists \cup RuleWrites, filter: Filters,
                         rule: 0..MaxClicks, body: Rule, waiter: {"card", "form", "list", "nobody"}, closes: BOOLEAN,
                         status: {"sent", "ok", "error", "notfound"}, view: {v}]
  BY Zenon DEF IsRequest
<1>2. /\ b.slot = slot /\ b.op = q.op /\ b.rule = q.rule /\ b.waiter = "nobody"
      /\ b.status = q.status /\ b.view = v /\ q.view = v
      /\ b \in [slot: {slot}, op: CardOps \cup Lists \cup RuleWrites, filter: Filters,
               rule: 0..MaxClicks, body: Rule, waiter: {"card", "form", "list", "nobody"}, closes: BOOLEAN,
               status: {"sent", "ok", "error", "notfound"}, view: {v}]
  BY <1>1
<1>3. "nobody" \in WaitersOf(q.op)
  BY Constants DEF WaitersOf, Writes, RuleWrites
<1>4. q.status = "sent"
  BY DEF Sent
<1>5. IsView(v) /\ (q.op \in {"createRule", "connect"} => q.rule # 0)
  BY <1>2 DEF IsRequest
<1> HIDE DEF b
<1>6. IsRequest(b)
  BY <1>2, <1>3, <1>4, <1>5 DEF IsRequest
<1> QED
  BY <1>2, <1>6 DEF Alive, b

LEMMA Reloads ==
    ASSUME Types, Reload
    PROVE  \E a: Reloaded(a)
<1> DEFINE gone(q) == [q EXCEPT !.waiter = "nobody"]
           abandoned == {gone(q): q \in {p \in Sent: p.op \in Writes}}
           a == Request(FreeSlot, "load", 0, NoRule, "card")
<1>1. IsRequest(a) /\ a.op = "load" /\ a.waiter = "card" /\ a.status = "sent"
  <2>1. "load" \in CardOps \cup RuleWrites /\ "card" \in WaitersOf("load") /\ 0 \in 0..MaxClicks /\ NoRule \in Rule
    BY Constants DEF CardOps, WaitersOf
  <2> QED
    BY <2>1, Sends
<1>2. \A b \in abandoned: IsRequest(b) /\ b.op \in Writes /\ ~Alive(b)
  <2>1. ASSUME NEW q \in Sent, q.op \in Writes
        PROVE  IsRequest(gone(q)) /\ gone(q).op \in Writes /\ ~Alive(gone(q))
    BY <2>1, Abandons DEF Sent, Types, RequestsTyped
  <2> QED
    BY <2>1
<1>3. /\ NextClick /\ inFlight' = abandoned \cup {a}
      /\ connected' = 0 /\ picking' = FALSE /\ card' = "loading"
      /\ shown' = [l \in Lists |-> Empty] /\ filter' = AnyType
      /\ loading' = [l \in Lists |-> FALSE] /\ failed' = [l \in Lists |-> FALSE]
      /\ form' = ClosedForm /\ formBusy' = FALSE
      /\ crossed' = (abandoned # AboutRules(abandoned))
      /\ doubtful' = (AboutRules(abandoned) # {})
      /\ UNCHANGED server
  BY DEF Reload
<1>4. clicks' \in Numbers /\ UNCHANGED failures
  BY <1>3, Constants DEF NextClick, Types, PageTyped
<1> HIDE DEF abandoned, a
<1>5. \A p \in AboutRules(abandoned): p \in abandoned /\ p.op \in RuleWrites
  BY <1>2 DEF AboutRules, Writes, RuleWrites
<1>6. /\ a \in inFlight'
      /\ \A p \in inFlight': p = a \/ (IsRequest(p) /\ p.op \in Writes /\ ~Alive(p))
  BY <1>2, <1>3
<1>11. crossed' \in BOOLEAN /\ doubtful' \in BOOLEAN
  BY <1>3, Zenon
<1>7. ~crossed' => abandoned = AboutRules(abandoned)
  BY <1>3
<1>8. ~doubtful' => AboutRules(abandoned) = {}
  BY <1>3
<1>9. ~crossed' => \A p \in inFlight': p = a \/ p.op \in RuleWrites
  BY <1>3, <1>5, <1>7
<1>10. ~crossed' /\ ~doubtful' => inFlight' = {a}
  BY <1>3, <1>7, <1>8
<1> QED
  BY <1>1, <1>3, <1>4, <1>6, <1>9, <1>10, <1>11 DEF Reloaded

------------------------------------------------------------------------------
(* The answers.                                                              *)

(* The lists of a repository are asked for.                                  *)
Refreshed(q, follow) ==
    /\ q.op \in {"load", "connect"} /\ q.status = "ok"
    /\ connected' = q.view.repo /\ (q.op = "load" => connected' # 0) /\ picking' = FALSE
    /\ StartRefresh(Lists) /\ UNCHANGED shown
    /\ doubtful' = (AboutRules(inFlight) # {})
    /\ inFlight' = (inFlight \ {q}) \cup follow
    /\ \A p \in follow: /\ IsRequest(p) /\ p.op \in Lists /\ p.waiter = "card" /\ p.status = "sent"
                        /\ p.op = "actions" => p.filter = filter
    /\ \A p, r \in follow: p.op = r.op => p = r

(* No repository: nothing is shown.                                          *)
Cleared(q) ==
    /\ q.op = "load" /\ connected' = 0 /\ picking' = FALSE
    /\ shown' = [l \in Lists |-> Empty] /\ failed' = [l \in Lists |-> FALSE] /\ UNCHANGED <<loading, doubtful>>
    /\ inFlight' = inFlight \ {q}

(* The card keeps what it shows.                                             *)
CardKept(q) ==
    /\ q.op \in CardOps /\ inFlight' = inFlight \ {q}
    /\ picking' \in BOOLEAN /\ (picking' => picking \/ q.op = "pick")
    /\ UNCHANGED <<connected, shown, loading, failed, doubtful>>

CardAnswer(q) ==
    /\ \/ \E follow: Refreshed(q, follow)
       \/ Cleared(q)
       \/ CardKept(q)
    /\ UNCHANGED <<server, filter, form, clicks, failures, crossed>>

(* The repository is gone.                                                   *)
Disconnected(q) ==
    /\ q.op = "disconnect" /\ connected' = 0 /\ form' = ClosedForm
    /\ shown' = [l \in Lists |-> Empty]
    /\ crossed' \in BOOLEAN /\ (~crossed' => ~crossed /\ \A p \in inFlight \ {q}: ~Alive(p))
    /\ inFlight' = inFlight \ {q}
    /\ UNCHANGED <<server, picking, loading, failed, filter, clicks, failures, doubtful>>

(* A rule is saved, and the rules are asked for.                             *)
RuleSaved(q, a) ==
    /\ q.op \in RuleWrites
    /\ form' \in {ClosedForm, form} /\ StartRefresh({"rules"})
    /\ IsRequest(a) /\ a.op = "rules" /\ a.waiter = q.waiter /\ a.status = "sent"
    /\ inFlight' = (inFlight \ {q}) \cup {a}
    /\ doubtful' = (AboutRules(inFlight \ {q}) # {})
    /\ UNCHANGED <<server, connected, picking, shown, filter, clicks, failures, crossed>>

(* A rule is not saved.                                                      *)
RuleRefused(q) ==
    /\ q.op \in RuleWrites /\ q.status # "ok"
    /\ failed' \in [Lists -> BOOLEAN] /\ \A l \in Lists: failed[l] => failed'[l]
    /\ inFlight' = inFlight \ {q}
    /\ \A l \in Lists \ {"rules"}: failed'[l] = failed[l]
    /\ q.waiter = "list" => failed'["rules"]
    /\ UNCHANGED <<server, connected, picking, shown, loading, filter, form, clicks, failures, history>>

LEMMA Follows ==
    ASSUME PageTyped, NEW q, RefreshAll(q), q.op \in {"load", "connect"}, q.status = "ok",
           connected' = q.view.repo, q.op = "load" => connected' # 0, picking' = FALSE
    PROVE  \E follow: Refreshed(q, follow)
<1> DEFINE ask(l) == ListRequest(l, q.slot, filter, "card")
           follow == {ask(l): l \in Lists}
<1>1. /\ StartRefresh(Lists) /\ UNCHANGED shown /\ inFlight' = (inFlight \ {q}) \cup follow
      /\ doubtful' = (AboutRules(inFlight) # {})
  BY DEF RefreshAll, TakeUp
<1>2. ASSUME NEW l \in Lists
      PROVE  /\ IsRequest(ask(l)) /\ ask(l).op = l /\ ask(l).waiter = "card" /\ ask(l).status = "sent"
             /\ l = "actions" => ask(l).filter = filter
  <2>1. "card" \in WaitersOf(l) /\ filter \in Filters
    BY Constants DEF WaitersOf, PageTyped
  <2> QED
    BY <2>1, SendsList
<1> HIDE DEF ask
<1>3. \A p \in follow: \E l \in Lists: p = ask(l)
  OBVIOUS
<1> HIDE DEF follow
<1>4. ASSUME NEW p \in follow
      PROVE  /\ IsRequest(p) /\ p.op \in Lists /\ p.waiter = "card" /\ p.status = "sent" /\ p = ask(p.op)
             /\ p.op = "actions" => p.filter = filter
  <2>1. PICK l \in Lists: p = ask(l)
    BY <1>3
  <2> QED
    BY <1>2, <2>1
<1>5. \A p, r \in follow: p.op = r.op => p = r
  BY <1>4, Zenon
<1> QED
  BY <1>1, <1>4, <1>5 DEF Refreshed

LEMMA CardAnswers ==
    ASSUME PageTyped, NEW q \in Answered, IsRequest(q),
           DeliverLoad(q) \/ DeliverPick(q) \/ DeliverConnect(q) \/ (DeliverDisconnect(q) /\ q.status # "ok")
    PROVE  CardAnswer(q)
<1>1. CASE DeliverLoad(q) /\ q.status = "ok"
  <2>1. /\ q.op = "load" /\ connected' = q.view.repo /\ picking' = FALSE
        /\ UNCHANGED <<server, filter, form, clicks, failures, crossed>>
        /\ IF q.view.repo = 0 THEN ClearAll(q) ELSE RefreshAll(q)
    BY <1>1 DEF DeliverLoad
  <2>2. CASE q.view.repo = 0
    <3>1. Cleared(q)
      BY <2>1, <2>2 DEF ClearAll, TakeUp, Cleared
    <3> QED
      BY <2>1, <3>1 DEF CardAnswer
  <2>3. CASE q.view.repo # 0
    <3>1. \E follow: Refreshed(q, follow)
      BY <1>1, <2>1, <2>3, Follows
    <3> QED
      BY <2>1, <3>1 DEF CardAnswer
  <2> QED
    BY <2>2, <2>3
<1>2. CASE DeliverConnect(q) /\ q.status = "ok"
  <2>1. /\ q.op = "connect" /\ connected' = q.view.repo /\ picking' = FALSE /\ RefreshAll(q)
        /\ UNCHANGED <<server, filter, form, clicks, failures, crossed>>
    BY <1>2 DEF DeliverConnect
  <2>2. \E follow: Refreshed(q, follow)
    BY <1>2, <2>1, Follows
  <2> QED
    BY <2>1, <2>2 DEF CardAnswer
<1>3. CASE (DeliverLoad(q) \/ DeliverConnect(q) \/ DeliverDisconnect(q)) /\ q.status # "ok"
  <2>1. /\ q.op \in {"load", "connect", "disconnect"} /\ TakeUp(q, {})
        /\ UNCHANGED <<connected, picking, shown, loading, failed, doubtful>>
        /\ UNCHANGED <<server, filter, form, clicks, failures, crossed>>
    BY <1>3 DEF DeliverLoad, DeliverConnect, DeliverDisconnect, history
  <2>2. CardKept(q)
    BY <2>1 DEF CardKept, TakeUp, CardOps, PageTyped
  <2> QED
    BY <2>1, <2>2 DEF CardAnswer
<1>4. CASE DeliverPick(q)
  <2>1. /\ q.op = "pick" /\ TakeUp(q, {}) /\ picking' = (q.status = "ok" \/ picking)
        /\ UNCHANGED <<connected, shown, loading, failed, doubtful>>
        /\ UNCHANGED <<server, filter, form, clicks, failures, crossed>>
    BY <1>4 DEF DeliverPick, listVars, history
  <2>2. CardKept(q)
    BY <2>1 DEF CardKept, TakeUp, CardOps, PageTyped
  <2> QED
    BY <2>1, <2>2 DEF CardAnswer
<1> QED
  BY <1>1, <1>2, <1>3, <1>4

LEMMA DisconnectAnswers ==
    ASSUME PageTyped, NEW q \in Answered, DeliverDisconnect(q), q.status = "ok"
    PROVE  Disconnected(q)
<1>1. crossed' = (crossed \/ \E p \in inFlight \ {q}: Alive(p))
  BY DEF DeliverDisconnect, Alive
<1>2. crossed' \in BOOLEAN /\ (~crossed' => ~crossed /\ \A p \in inFlight \ {q}: ~Alive(p))
  BY <1>1 DEF PageTyped
<1> QED
  BY <1>2 DEF DeliverDisconnect, TakeUp, Disconnected

LEMMA RuleAnswers ==
    ASSUME PageTyped, NEW q \in Answered, IsRequest(q), DeliverRuleWrite(q)
    PROVE  (\E a: RuleSaved(q, a)) \/ RuleRefused(q)
<1>1. /\ q.op \in RuleWrites /\ TakeUp(q, FollowUp(q))
      /\ UNCHANGED <<server, connected, picking, shown, filter, clicks, failures, crossed>>
  BY DEF DeliverRuleWrite
<1>2. CASE q.status = "ok"
  <2> DEFINE a == ListRequest("rules", q.slot, filter, q.waiter)
  <2>1. FollowUp(q) = {a}
    BY <1>2 DEF FollowUp
  <2>2. q.waiter \in WaitersOf("rules")
    <3>1. q.waiter \in WaitersOf(q.op) /\ Alive(q)
      BY <1>2 DEF IsRequest
    <3>2. q.op \notin Lists /\ q.op \notin CardOps
      BY <1>1, Constants DEF RuleWrites, CardOps
    <3> QED
      BY <3>1, <3>2, Constants DEF WaitersOf, CardOps, Alive
  <2>3. IsRequest(a) /\ a.op = "rules" /\ a.waiter = q.waiter /\ a.status = "sent"
    BY <2>2, SendsList, Constants DEF PageTyped
  <2> HIDE DEF a
  <2>5. /\ StartRefresh({"rules"}) /\ form' \in {ClosedForm, form}
        /\ doubtful' = (AboutRules(inFlight \ {q}) # {})
    BY <1>2 DEF DeliverRuleWrite
  <2>6. inFlight' = (inFlight \ {q}) \cup {a}
    BY <1>1, <2>1 DEF TakeUp
  <2> QED
    BY <1>1, <2>3, <2>5, <2>6 DEF RuleSaved
<1>3. CASE q.status # "ok"
  <2>1. /\ failed' = [failed EXCEPT !["rules"] = @ \/ q.waiter = "list"]
        /\ UNCHANGED <<form, loading, doubtful>>
    BY <1>3 DEF DeliverRuleWrite, HidesRules
  <2>2. inFlight' = inFlight \ {q}
    BY <1>1, <1>3 DEF TakeUp, FollowUp
  <2>3. /\ failed' \in [Lists -> BOOLEAN] /\ \A l \in Lists: failed[l] => failed'[l]
        /\ \A l \in Lists \ {"rules"}: failed'[l] = failed[l]
        /\ q.waiter = "list" => failed'["rules"]
    BY <2>1, Constants DEF PageTyped
  <2> QED
    BY <1>1, <1>3, <2>1, <2>2, <2>3 DEF RuleRefused, history
<1> QED
  BY <1>2, <1>3

(* A list arrives, or fails to.                                              *)
ListTaken(q) ==
    /\ q.op \in Lists /\ inFlight' = inFlight \ {q}
    /\ shown' = [l \in Lists |-> shown'[l]]
    /\ loading' \in [Lists -> BOOLEAN] /\ failed' \in [Lists -> BOOLEAN]
    /\ ~loading'[q.op]
    /\ \/ q.status = "ok" /\ shown'[q.op] = q.view
       \/ q.status = "notfound" /\ q.op # "rules" /\ shown'[q.op] = Empty
       \/ shown'[q.op] = shown[q.op] /\ failed'[q.op]
    /\ \A l \in Lists \ {q.op}: shown'[l] = shown[l] /\ loading'[l] = loading[l] /\ failed'[l] = failed[l]
    /\ UNCHANGED <<server, connected, picking, filter, form, clicks, failures, history>>

LEMMA ListAnswers ==
    ASSUME PageTyped, NEW q \in Answered, IsRequest(q), DeliverList(q)
    PROVE  ListTaken(q)
<1>1. /\ q.op \in Lists /\ loading' = [loading EXCEPT ![q.op] = FALSE]
      /\ UNCHANGED <<server, connected, picking, filter, form, clicks, failures, history>>
      /\ inFlight' = inFlight \ {q}
  BY DEF DeliverList, Loaded, TakeUp
<1>2. q.status \in {"ok", "error", "notfound"} /\ q \in inFlight
  <2>1. q \in inFlight /\ q.status # "sent"
    BY DEF Answered, Sent
  <2>2. q.status \in {"sent", "ok", "error", "notfound"}
    BY DEF IsRequest
  <2> QED
    BY <2>1, <2>2
<1>3. loading' \in [Lists -> BOOLEAN] /\ ~loading'[q.op] /\ \A l \in Lists \ {q.op}: loading'[l] = loading[l]
  BY <1>1 DEF PageTyped
<1>4. failed' = IF q.status = "error" \/ (q.status = "notfound" /\ q.op = "rules")
                 THEN [failed EXCEPT ![q.op] = TRUE] ELSE failed
  BY DEF DeliverList
<1>5. /\ failed' \in [Lists -> BOOLEAN] /\ \A l \in Lists \ {q.op}: failed'[l] = failed[l]
      /\ q.status = "error" \/ (q.status = "notfound" /\ q.op = "rules") => failed'[q.op]
  BY <1>1, <1>4 DEF PageTyped
<1>6. shown' = CASE q.status = "ok" -> [shown EXCEPT ![q.op] = q.view]
                 [] q.status = "notfound" /\ q.op # "rules" -> [shown EXCEPT ![q.op] = Empty]
                 [] OTHER -> shown
  BY DEF DeliverList
<1>7. shown = [l \in Lists |-> shown[l]]
  BY DEF PageTyped
<1>8. CASE q.status = "ok"
  <2>1. shown' = [shown EXCEPT ![q.op] = q.view]
    BY <1>6, <1>8
  <2>2. /\ shown' = [l \in Lists |-> shown'[l]] /\ shown'[q.op] = q.view
        /\ \A l \in Lists \ {q.op}: shown'[l] = shown[l]
    BY <1>1, <1>7, <2>1
  <2> QED
    BY <1>1, <1>3, <1>5, <1>8, <2>2 DEF ListTaken
<1>9. CASE q.status = "notfound" /\ q.op # "rules"
  <2>1. shown' = [shown EXCEPT ![q.op] = Empty]
    BY <1>6, <1>9
  <2>2. /\ shown' = [l \in Lists |-> shown'[l]] /\ shown'[q.op] = Empty
        /\ \A l \in Lists \ {q.op}: shown'[l] = shown[l]
    BY <1>1, <1>7, <2>1
  <2> QED
    BY <1>1, <1>3, <1>5, <1>9, <2>2 DEF ListTaken
<1>10. CASE q.status = "error" \/ (q.status = "notfound" /\ q.op = "rules")
  <2>1. shown' = shown
    BY <1>6, <1>10
  <2> QED
    BY <1>1, <1>3, <1>5, <1>7, <1>10, <2>1 DEF ListTaken
<1> QED
  BY <1>2, <1>8, <1>9, <1>10

------------------------------------------------------------------------------
(* Types, spinners, and the one request of the card: every step.             *)
\* Whom an alive request of the card keeps waiting.
LEMMA CardWaits ==
    ASSUME NEW q, IsRequest(q), q.op \in CardOps, Alive(q)
    PROVE  OnCard(q)
  BY Constants DEF IsRequest, WaitersOf, OnCard, Alive, CardOps

LEMMA NotOnCard ==
    /\ \A l \in Lists: l \notin CardOps /\ l \notin RuleWrites
    /\ \A op \in RuleWrites: op \notin CardOps /\ op \notin Lists
  BY Constants DEF CardOps, RuleWrites

LEMMA BasicHandled ==
    ASSUME Basic, NEW q \in Sent, NEW status, NEW view, ServerTyped', Handled(q, status, view)
    PROVE  Basic'
<1>1. q \in inFlight /\ q.status = "sent" /\ IsRequest(q)
  BY DEF Sent, Basic, Types, RequestsTyped
<1>2. /\ connected' = connected /\ picking' = picking /\ card' = card /\ shown' = shown
      /\ loading' = loading /\ failed' = failed /\ filter' = filter /\ form' = form
      /\ formBusy' = formBusy /\ clicks' = clicks /\ crossed' = crossed /\ failures' \in 0..MaxFailures
  BY DEF Handled, cardVars, listVars, formVars
<1>3. doubtful' \in BOOLEAN
  <2>1. doubtful \in BOOLEAN
    BY DEF Basic, Types, PageTyped
  <2>2. doubtful' = doubtful \/ doubtful' = (doubtful \/ q.waiter = "form")
    BY DEF Handled
  <2> QED
    BY <2>1, <2>2, Zenon
<1>4. PageTyped'
  BY <1>2, <1>3 DEF Basic, Types, PageTyped
<1>5. CASE ~Alive(q) /\ inFlight' = inFlight \ {q}
  <2>1. q.waiter = "nobody"
    BY <1>5 DEF Alive
  <2>2. Spinners' /\ OneCard'
    BY <1>2, <1>5, <2>1 DEF Basic, Spinners, OneCard, OnCard
  <2>3. RequestsTyped'
    BY <1>5 DEF Basic, Types, RequestsTyped
  <2> QED
    BY <1>4, <2>2, <2>3 DEF Basic, Types
<1>6. ASSUME NEW a, AnswerTo(a, q, status, view), inFlight' = (inFlight \ {q}) \cup {a}
      PROVE  Basic'
  <2>1. a.waiter = q.waiter /\ a.op = q.op /\ IsRequest(a) /\ (OnCard(a) <=> OnCard(q))
    BY <1>6 DEF AnswerTo, OnCard
  <2>2. Spinners'
    BY <1>1, <1>2, <1>6, <2>1 DEF Basic, Spinners
  <2>3. OneCard'
    <3>1. ASSUME NEW p \in inFlight', NEW r \in inFlight', OnCard(p), r.waiter = "card"
          PROVE  p = r
      BY <1>1, <1>6, <2>1, <3>1 DEF Basic, OneCard
    <3>2. ASSUME NEW p \in inFlight', OnCard(p), p.op # "disconnect"
          PROVE  connected' = 0
      BY <1>1, <1>2, <1>6, <2>1, <3>2 DEF Basic, OneCard
    <3> QED
      BY <3>1, <3>2 DEF OneCard
  <2>4. RequestsTyped'
    BY <1>6, <2>1 DEF Basic, Types, RequestsTyped
  <2> QED
    BY <1>4, <2>2, <2>3, <2>4 DEF Basic, Types
<1> QED
  BY <1>5, <1>6 DEF Handled

LEMMA BasicListClick ==
    ASSUME Basic, NEW l \in Lists, NEW a, ListClick(l, a)
    PROVE  Basic'
<1>1. /\ repo' = repo /\ rules' = rules /\ connected' = connected /\ picking' = picking /\ card' = card
      /\ shown' = shown /\ form' = form /\ formBusy' = formBusy /\ failures' = failures /\ crossed' = crossed
      /\ clicks' \in Numbers /\ filter' \in Filters /\ inFlight' = inFlight \cup {a} /\ StartRefresh({l})
      /\ IsRequest(a) /\ a.op = l /\ a.waiter = "list" /\ connected # 0
  BY DEF ListClick, server, cardVars, formVars
<1>2. loading' \in [Lists -> BOOLEAN] /\ failed' \in [Lists -> BOOLEAN]
  BY <1>1, RefreshStarts DEF Basic, Types
<1>3. doubtful' \in BOOLEAN
  <2>1. doubtful \in BOOLEAN
    BY DEF Basic, Types, PageTyped
  <2>2. doubtful' = doubtful \/ doubtful' = (AboutRules(inFlight) # {})
    BY DEF ListClick
  <2> QED
    BY <2>1, <2>2, Zenon
<1>4. ServerTyped' /\ PageTyped' /\ RequestsTyped'
  BY <1>1, <1>2, <1>3 DEF Basic, Types, ServerTyped, PageTyped, RequestsTyped
<1>5. Spinners'
  BY <1>1 DEF Basic, Spinners
<1>6. OneCard'
  BY <1>1, NotOnCard DEF Basic, OneCard, OnCard
<1> QED
  BY <1>4, <1>5, <1>6 DEF Basic, Types

LEMMA BasicCardClick ==
    ASSUME Basic, NEW a, CardClick(a)
    PROVE  Basic'
<1>1. /\ repo' = repo /\ rules' = rules /\ connected' = connected /\ picking' = picking
      /\ shown' = shown /\ loading' = loading /\ failed' = failed /\ filter' = filter
      /\ form' = form /\ formBusy' = formBusy /\ failures' = failures /\ crossed' = crossed
      /\ doubtful' = doubtful /\ clicks' \in Numbers /\ inFlight' = inFlight \cup {a}
      /\ IsRequest(a) /\ a.waiter = "card" /\ card = "free" /\ card' = "busy"
      /\ a.op # "disconnect" => connected = 0
  BY DEF CardClick, server, listVars, formVars, history
<1>2. ServerTyped' /\ PageTyped' /\ RequestsTyped'
  BY <1>1 DEF Basic, Types, ServerTyped, PageTyped, RequestsTyped
<1>3. Spinners' /\ \A q \in inFlight: q.waiter # "card"
  BY <1>1 DEF Basic, Spinners
<1>4. OneCard'
  BY <1>1, <1>3 DEF Basic, OneCard, OnCard
<1> QED
  BY <1>2, <1>3, <1>4 DEF Basic, Types

LEMMA BasicRuleClick ==
    ASSUME Basic, NEW a, RuleClick(a)
    PROVE  Basic'
<1>1. /\ repo' = repo /\ rules' = rules /\ connected' = connected /\ picking' = picking /\ card' = card
      /\ shown' = shown /\ loading' = loading /\ failed' = failed /\ filter' = filter
      /\ form' = form /\ failures' = failures /\ crossed' = crossed
      /\ clicks' \in Numbers /\ inFlight' = inFlight \cup {a}
      /\ IsRequest(a) /\ a.op \in RuleWrites /\ a.waiter \in {"form", "list"}
  BY DEF RuleClick, server, cardVars, listVars
<1>2. doubtful' \in BOOLEAN /\ formBusy' \in BOOLEAN /\ (formBusy' <=> formBusy \/ a.waiter = "form")
  <2>1. doubtful' = (doubtful \/ AboutRules(inFlight) # {}) /\ formBusy' = (formBusy \/ a.waiter = "form")
    BY DEF RuleClick
  <2> QED
    BY <2>1, Zenon
<1>3. ServerTyped' /\ PageTyped' /\ RequestsTyped'
  BY <1>1, <1>2 DEF Basic, Types, ServerTyped, PageTyped, RequestsTyped
<1>4. Spinners'
  BY <1>1, <1>2 DEF Basic, Spinners
<1>5. OneCard'
  BY <1>1, NotOnCard DEF Basic, OneCard, OnCard
<1> QED
  BY <1>3, <1>4, <1>5 DEF Basic, Types

LEMMA BasicQuietClick ==
    ASSUME Basic, QuietClick
    PROVE  Basic'
<1>1. /\ repo' = repo /\ rules' = rules /\ connected' = connected /\ card' = card
      /\ shown' = shown /\ loading' = loading /\ failed' = failed /\ filter' = filter
      /\ formBusy' = formBusy /\ failures' = failures /\ crossed' = crossed
      /\ doubtful' = doubtful /\ clicks' \in Numbers /\ inFlight' = inFlight
      /\ picking' \in BOOLEAN /\ (picking' => picking)
      /\ form' \in [open: BOOLEAN, rule: 0..MaxClicks]
  BY DEF QuietClick, server, listVars, history
<1> QED
  BY <1>1 DEF Basic, Types, ServerTyped, PageTyped, RequestsTyped, Spinners, OneCard

LEMMA BasicReloaded ==
    ASSUME Basic, NEW a, Reloaded(a)
    PROVE  Basic'
<1>1. /\ IsRequest(a) /\ a.op = "load" /\ a.waiter = "card" /\ a \in inFlight'
      /\ \A p \in inFlight': p = a \/ (IsRequest(p) /\ p.waiter = "nobody")
  BY DEF Reloaded, Alive
<1>2. /\ connected' = 0 /\ picking' = FALSE /\ card' = "loading" /\ shown' = [l \in Lists |-> Empty]
      /\ filter' = AnyType /\ loading' = [l \in Lists |-> FALSE] /\ failed' = [l \in Lists |-> FALSE]
      /\ form' = ClosedForm /\ formBusy' = FALSE /\ clicks' \in Numbers
      /\ crossed' \in BOOLEAN /\ doubtful' \in BOOLEAN
      /\ repo' = repo /\ rules' = rules /\ failures' = failures
  BY DEF Reloaded, server
<1>3. ServerTyped' /\ PageTyped' /\ RequestsTyped'
  <2>1. ServerTyped' /\ RequestsTyped'
    BY <1>1, <1>2 DEF Basic, Types, ServerTyped, RequestsTyped
  <2>2. shown' = [l \in Lists |-> shown'[l]] /\ \A l \in Lists: IsView(shown'[l])
    BY <1>2, Constants
  <2>3. 0 \in 0..MaxClicks /\ AnyType \in Filters /\ failures \in 0..MaxFailures
    BY Constants DEF Basic, Types, PageTyped
  <2>4. form' \in [open: BOOLEAN, rule: 0..MaxClicks]
    BY <1>2, Closed
  <2> QED
    BY <1>2, <2>1, <2>2, <2>3, <2>4 DEF PageTyped
<1>4. Spinners'
  BY <1>1, <1>2 DEF Spinners
<1>5. OneCard'
  BY <1>1, <1>2 DEF OneCard, OnCard
<1> QED
  BY <1>3, <1>4, <1>5 DEF Basic, Types

\* The answer taken up, and what the page asks for then.
LEMMA BasicAnswered ==
    ASSUME Basic, NEW q \in Answered, NEW follow, TakeUp(q, follow), Finish(q),
           \A p \in follow: IsRequest(p) /\ p.waiter = q.waiter /\ p.op \in Lists,
           connected' = connected \/ OnCard(q), UNCHANGED <<server, clicks, failures>>, doubtful' \in BOOLEAN,
           connected' \in 0..MaxClicks, picking' \in BOOLEAN, picking' => connected' = 0,
           shown' = [l \in Lists |-> shown'[l]], \A l \in Lists: IsView(shown'[l]),
           loading' \in [Lists -> BOOLEAN], failed' \in [Lists -> BOOLEAN], filter' \in Filters,
           form' \in [open: BOOLEAN, rule: 0..MaxClicks], crossed' \in BOOLEAN
    PROVE  Basic'
<1>1. q \in inFlight /\ inFlight' = (inFlight \ {q}) \cup follow
  BY DEF Answered, TakeUp
<1>2. Spinners' /\ card' \in {"loading", "busy", "free"} /\ formBusy' \in BOOLEAN
  BY <1>1, Finishes DEF Basic, Types
<1>3. PageTyped'
  BY <1>2 DEF Basic, Types, PageTyped
<1>4. ServerTyped' /\ RequestsTyped'
  BY <1>1 DEF Basic, Types, ServerTyped, RequestsTyped, server
<1>5. OneCard'
  <2>1. ASSUME NEW p \in inFlight', OnCard(p)
        PROVE  p \in inFlight /\ p # q
    <3>1. p \notin follow
      BY <2>1, NotOnCard DEF OnCard
    <3> QED
      BY <1>1, <3>1
  <2>2. ASSUME NEW p \in inFlight', NEW r \in inFlight', OnCard(p), r.waiter = "card"
        PROVE  p = r
    <3>1. p \in inFlight /\ p # q
      BY <2>1, <2>2
    <3>2. r \in inFlight \/ q.waiter = "card"
      BY <1>1, <2>2
    <3>3. q.waiter # "card" \/ p = q
      BY <1>1, <2>2, <3>1 DEF Basic, OneCard
    <3> QED
      BY <2>2, <3>1, <3>2, <3>3 DEF Basic, OneCard
  <2>3. ASSUME NEW p \in inFlight', OnCard(p), p.op # "disconnect"
        PROVE  connected' = 0
    <3>1. p \in inFlight /\ p # q
      BY <2>1, <2>3
    <3>2. connected = 0
      BY <2>3, <3>1 DEF Basic, OneCard
    <3>3. ~OnCard(q)
      BY <1>1, <2>3, <3>1 DEF Basic, OneCard, OnCard
    <3> QED
      BY <3>2, <3>3
  <2> QED
    BY <2>2, <2>3 DEF OneCard
<1> QED
  BY <1>2, <1>3, <1>4, <1>5 DEF Basic, Types

LEMMA AnsweredAlive ==
    ASSUME Basic, NEW q \in Answered
    PROVE  q \in inFlight /\ IsRequest(q) /\ q.status # "sent" /\ Alive(q) /\ (q.op \in CardOps => OnCard(q))
<1>1. q \in inFlight /\ q.status # "sent"
  BY DEF Answered, Sent
<1>2. IsRequest(q)
  BY <1>1 DEF Basic, Types, RequestsTyped
<1>3. Alive(q)
  BY <1>1, <1>2 DEF IsRequest
<1> QED
  BY <1>1, <1>2, <1>3, CardWaits

LEMMA BasicListTaken ==
    ASSUME Basic, NEW q \in Answered, ListTaken(q), Finish(q)
    PROVE  Basic'
<1>1. TakeUp(q, {})
  BY DEF ListTaken, TakeUp
<1>2. IsView(q.view) /\ IsView(Empty)
  BY AnsweredAlive, Constants DEF IsRequest
<1>3. \A l \in Lists: IsView(shown'[l])
  BY <1>2 DEF ListTaken, Basic, Types, PageTyped
<1>4. /\ connected' = connected /\ picking' = picking /\ filter' = filter /\ form' = form /\ crossed' = crossed
      /\ UNCHANGED <<server, clicks, failures>> /\ doubtful' = doubtful
      /\ shown' = [l \in Lists |-> shown'[l]]
      /\ loading' \in [Lists -> BOOLEAN] /\ failed' \in [Lists -> BOOLEAN]
  BY DEF ListTaken, history
<1>5. /\ connected \in 0..MaxClicks /\ picking \in BOOLEAN /\ (picking => connected = 0) /\ filter \in Filters
      /\ form \in [open: BOOLEAN, rule: 0..MaxClicks] /\ crossed \in BOOLEAN /\ doubtful \in BOOLEAN
  BY DEF Basic, Types, PageTyped
<1> QED
  BY <1>1, <1>3, <1>4, <1>5, BasicAnswered

LEMMA BasicCardAnswer ==
    ASSUME Basic, NEW q \in Answered, CardAnswer(q), Finish(q)
    PROVE  Basic'
<1>0. q \in inFlight /\ IsRequest(q) /\ q.op \in CardOps /\ OnCard(q)
  <2>1. q.op \in CardOps
    BY DEF CardAnswer, Refreshed, Cleared, CardKept, CardOps
  <2> QED
    BY <2>1, AnsweredAlive
<1>1. /\ UNCHANGED <<server, clicks, failures>>
      /\ filter' = filter /\ form' = form /\ crossed' = crossed
      /\ doubtful' \in BOOLEAN
  <2>1. doubtful \in BOOLEAN
    BY DEF Basic, Types, PageTyped
  <2>2. doubtful' = doubtful \/ doubtful' = (AboutRules(inFlight) # {})
    BY DEF CardAnswer, Refreshed, Cleared, CardKept
  <2>3. doubtful' \in BOOLEAN
    BY <2>1, <2>2, Zenon
  <2> QED
    BY <2>3 DEF CardAnswer
<1>2. /\ connected \in 0..MaxClicks /\ picking \in BOOLEAN /\ (picking => connected = 0) /\ filter \in Filters
      /\ form \in [open: BOOLEAN, rule: 0..MaxClicks] /\ crossed \in BOOLEAN
      /\ shown = [l \in Lists |-> shown[l]] /\ \A l \in Lists: IsView(shown[l])
      /\ loading \in [Lists -> BOOLEAN] /\ failed \in [Lists -> BOOLEAN]
  BY DEF Basic, Types, PageTyped
<1>3. ASSUME NEW follow, Refreshed(q, follow)
      PROVE  Basic'
  <2>1. TakeUp(q, follow) /\ StartRefresh(Lists) /\ shown' = shown /\ picking' = FALSE /\ connected' = q.view.repo
    BY <1>3 DEF Refreshed, TakeUp
  <2>2. \A p \in follow: IsRequest(p) /\ p.waiter = q.waiter /\ p.op \in Lists
    BY <1>0, <1>3 DEF Refreshed, OnCard
  <2>3. connected' \in 0..MaxClicks
    BY <1>0, <2>1 DEF IsRequest, IsView
  <2>4. loading' \in [Lists -> BOOLEAN] /\ failed' \in [Lists -> BOOLEAN]
    BY <2>1, RefreshStarts DEF Basic, Types
  <2> QED
    BY <1>0, <1>1, <1>2, <2>1, <2>2, <2>3, <2>4, BasicAnswered
<1>4. CASE Cleared(q)
  <2>1. /\ TakeUp(q, {}) /\ connected' = 0 /\ picking' = FALSE /\ shown' = [l \in Lists |-> Empty]
        /\ failed' = [l \in Lists |-> FALSE] /\ loading' = loading
    BY <1>4 DEF Cleared, TakeUp
  <2>2. shown' = [l \in Lists |-> shown'[l]] /\ \A l \in Lists: IsView(shown'[l])
    BY <2>1, Constants
  <2>3. failed' \in [Lists -> BOOLEAN] /\ 0 \in 0..MaxClicks
    BY <2>1, Constants
  <2>4. TakeUp(q, {}) /\ connected' \in 0..MaxClicks /\ picking' \in BOOLEAN /\ (picking' => connected' = 0)
    BY <2>1, <2>3
  <2>5. /\ loading' \in [Lists -> BOOLEAN] /\ filter' \in Filters /\ crossed' \in BOOLEAN
        /\ form' \in [open: BOOLEAN, rule: 0..MaxClicks]
    BY <1>1, <1>2, <2>1
  <2> QED
    BY <1>0, <1>1, <2>2, <2>3, <2>4, <2>5, BasicAnswered
<1>5. CASE CardKept(q)
  <2>1. /\ TakeUp(q, {}) /\ connected' = connected /\ shown' = shown /\ loading' = loading /\ failed' = failed
        /\ picking' \in BOOLEAN /\ (picking' => picking \/ q.op = "pick")
    BY <1>5 DEF CardKept, TakeUp
  <2>2. q.op = "pick" => connected = 0
    BY <1>0 DEF Basic, OneCard
  <2> QED
    BY <1>0, <1>1, <1>2, <2>1, <2>2, BasicAnswered
<1> QED
  BY <1>3, <1>4, <1>5 DEF CardAnswer

LEMMA BasicDisconnected ==
    ASSUME Basic, NEW q \in Answered, Disconnected(q), Finish(q)
    PROVE  Basic'
<1>1. OnCard(q)
  BY AnsweredAlive DEF Disconnected, CardOps
<1>2. /\ TakeUp(q, {}) /\ connected' = 0 /\ form' = ClosedForm /\ shown' = [l \in Lists |-> Empty]
      /\ crossed' \in BOOLEAN /\ picking' = picking /\ loading' = loading /\ failed' = failed /\ filter' = filter
      /\ UNCHANGED <<server, clicks, failures>> /\ doubtful' \in BOOLEAN
  BY DEF Disconnected, TakeUp, Basic, Types, PageTyped
<1>3. shown' = [l \in Lists |-> shown'[l]] /\ \A l \in Lists: IsView(shown'[l])
  BY <1>2, Constants
<1>4. /\ picking \in BOOLEAN /\ filter \in Filters /\ 0 \in 0..MaxClicks
      /\ loading \in [Lists -> BOOLEAN] /\ failed \in [Lists -> BOOLEAN]
  BY Constants DEF Basic, Types, PageTyped
<1>5. form' \in [open: BOOLEAN, rule: 0..MaxClicks]
  BY <1>2, Closed
<1> QED
  BY <1>1, <1>2, <1>3, <1>4, <1>5, BasicAnswered

LEMMA BasicRuleAnswer ==
    ASSUME Basic, NEW q \in Answered, (\E a: RuleSaved(q, a)) \/ RuleRefused(q), Finish(q)
    PROVE  Basic'
<1>1. /\ connected \in 0..MaxClicks /\ picking \in BOOLEAN /\ (picking => connected = 0) /\ filter \in Filters
      /\ form \in [open: BOOLEAN, rule: 0..MaxClicks] /\ crossed \in BOOLEAN
      /\ shown = [l \in Lists |-> shown[l]] /\ \A l \in Lists: IsView(shown[l])
      /\ loading \in [Lists -> BOOLEAN] /\ failed \in [Lists -> BOOLEAN]
  BY DEF Basic, Types, PageTyped
<1>2. /\ connected' = connected /\ picking' = picking /\ shown' = shown /\ filter' = filter /\ crossed' = crossed
      /\ UNCHANGED <<server, clicks, failures>> /\ doubtful' \in BOOLEAN
  <2>1. doubtful \in BOOLEAN
    BY DEF Basic, Types, PageTyped
  <2>2. doubtful' = doubtful \/ doubtful' = (AboutRules(inFlight \ {q}) # {})
    BY DEF RuleSaved, RuleRefused, history
  <2>3. doubtful' \in BOOLEAN
    BY <2>1, <2>2, Zenon
  <2> QED
    BY <2>3 DEF RuleSaved, RuleRefused, history
<1>3. form' \in [open: BOOLEAN, rule: 0..MaxClicks]
  BY <1>1, Closed DEF RuleSaved, RuleRefused
<1>4. ASSUME NEW a, RuleSaved(q, a)
      PROVE  Basic'
  <2>1. TakeUp(q, {a}) /\ StartRefresh({"rules"}) /\ IsRequest(a) /\ a.waiter = q.waiter /\ a.op \in Lists
    BY <1>4, Constants DEF RuleSaved, TakeUp
  <2>2. loading' \in [Lists -> BOOLEAN] /\ failed' \in [Lists -> BOOLEAN]
    BY <2>1, RefreshStarts DEF Basic, Types
  <2> QED
    BY <1>1, <1>2, <1>3, <2>1, <2>2, BasicAnswered
<1>5. CASE RuleRefused(q)
  <2>1. TakeUp(q, {}) /\ loading' = loading /\ failed' \in [Lists -> BOOLEAN]
    BY <1>5 DEF RuleRefused, TakeUp
  <2> QED
    BY <1>1, <1>2, <1>3, <2>1, BasicAnswered
<1> QED
  BY <1>4, <1>5

------------------------------------------------------------------------------
(* What is shown is that of the repository shown: every step.                *)
\* A repository appears at the server for a page that shows none.
LEMMA RepoAppears ==
    ASSUME Basic, Lingering, NEW q \in inFlight, q.op = "connect"
    PROVE  connected = 0 /\ OnCard(q)
<1>1. IsRequest(q) /\ q.op \in CardOps /\ q.op \notin RuleWrites
  BY DEF Basic, Types, RequestsTyped, CardOps, RuleWrites
<1>2. OnCard(q)
  BY <1>1, CardWaits DEF Lingering
<1> QED
  BY <1>2 DEF Basic, OneCard

\* What the server's step may change under the page.
LEMMA ServerMoves ==
    ASSUME Basic, Lingering, NEW q \in Sent, NEW status, NEW view, Handled(q, status, view)
    PROVE  /\ connected # 0 => repo' \in {repo, 0}
           /\ \A p \in inFlight: OnCard(p) /\ p # q => repo' = repo
           /\ connected # 0 /\ repo' # 0 /\ q.op \notin RuleWrites => rules' = rules
           /\ q.op = "connect" /\ status = "ok" => repo' # 0
           /\ q.op \in Lists /\ status = "ok" => repo # 0 /\ repo' = repo
           /\ status = "notfound" => repo' = repo
<1>1. q \in inFlight /\ IsRequest(q) /\ ServerTyped
  BY DEF Sent, Basic, Types, RequestsTyped
<1>2. CASE UNCHANGED server /\ status # "ok"
  BY <1>2 DEF server
<1>3. CASE StatusOf(q) = "ok" /\ Effect(q) /\ status # "notfound"
  <2>1. /\ q.op = "connect" => repo = 0 /\ repo' # 0
        /\ q.op = "disconnect" => repo' = 0
        /\ q.op \in RuleWrites => repo' = repo
        /\ q.op \in Lists => repo # 0
        /\ q.op \in Lists \cup {"load", "pick"} => repo' = repo /\ rules' = rules
    BY <1>1, <1>3, EffectStep DEF server
  <2>2. q.op \in CardOps \cup Lists \cup RuleWrites
    BY <1>1 DEF IsRequest
  <2>3. q.op = "connect" => connected = 0
    BY <1>1, RepoAppears
  <2>4. connected # 0 => repo' \in {repo, 0}
    BY <2>1, <2>2, <2>3 DEF CardOps
  <2>5. ASSUME NEW p \in inFlight, OnCard(p), p # q
        PROVE  repo' = repo
    <3>1. ~OnCard(q)
      BY <1>1, <2>5 DEF Basic, OneCard, OnCard
    <3>2. q.op \in CardOps => q.op \in RuleWrites
      BY <1>1, <3>1, CardWaits DEF Lingering
    <3>3. q.op \notin {"connect", "disconnect"}
      BY <3>2 DEF CardOps, RuleWrites
    <3> QED
      BY <2>1, <2>2, <3>3 DEF CardOps
  <2>6. connected # 0 /\ repo' # 0 /\ q.op \notin RuleWrites => rules' = rules
    BY <2>1, <2>2, <2>3 DEF CardOps
  <2> QED
    BY <1>3, <2>1, <2>4, <2>5, <2>6
<1> QED
  BY <1>2, <1>3 DEF Handled

LEMMA CrossHandled ==
    ASSUME Basic, Attentive, NEW q \in Sent, NEW status, NEW view, Handled(q, status, view)
    PROVE  Attentive'
<1>1. q \in inFlight /\ q.status = "sent" /\ IsRequest(q) /\ Lingering
  BY DEF Sent, Basic, Types, RequestsTyped, Attentive
<1>2. /\ connected' = connected /\ shown' = shown /\ loading' = loading /\ failed' = failed /\ filter' = filter
  BY DEF Handled, cardVars, listVars
<1>3. \A p \in inFlight': (p \in inFlight /\ p # q) \/ (AnswerTo(p, q, status, view) /\ Alive(q))
  BY DEF Handled
<1>4. \A p, r \in inFlight': AnswerTo(p, q, status, view) /\ AnswerTo(r, q, status, view) /\ p # r
          => (p \in inFlight /\ p # q) \/ (r \in inFlight /\ r # q)
  BY DEF Handled
<1>5. Lingering'
  BY <1>3 DEF Attentive, Lingering, AnswerTo, Alive
<1>6. Attached'
  BY <1>1, <1>2, <1>3 DEF Attentive, Attached, AnswerTo
<1>7. SameRepo'
  BY <1>1, <1>2, ServerMoves DEF Attentive, SameRepo
<1>8. Fresh'
  <2>1. ASSUME NEW p \in inFlight, p # q
        PROVE  FreshAnswer(p)'
    <3>1. FreshAnswer(p) /\ IsRequest(p) /\ (p.status # "sent" => Alive(p))
      BY <2>1 DEF Attentive, Fresh, Basic, Types, RequestsTyped, IsRequest
    <3>2. CASE p.op \in {"load", "connect"} /\ p.status = "ok"
      <4>1. OnCard(p)
        BY <3>1, <3>2, CardWaits DEF CardOps
      <4>2. repo' = repo
        BY <1>1, <2>1, <4>1, ServerMoves
      <4> QED
        BY <3>1, <3>2, <4>2, NotOnCard DEF FreshAnswer, CardOps
    <3>3. CASE p.op \in Lists /\ p.status # "sent"
      <4>1. connected # 0
        BY <2>1, <3>1, <3>3 DEF Attentive, Attached
      <4>2. repo' \in {repo, 0}
        BY <1>1, <4>1, ServerMoves
      <4> QED
        BY <1>2, <3>1, <3>3, <4>2, NotOnCard DEF FreshAnswer, CardOps
    <3>4. CASE p.status = "sent"
      BY <3>4 DEF FreshAnswer
    <3>5. CASE p.op \notin {"load", "connect"} /\ p.op \notin Lists
      BY <3>5 DEF FreshAnswer
    <3>6. CASE p.op \in {"load", "connect"} /\ p.status # "ok"
      BY <3>6, NotOnCard DEF FreshAnswer, CardOps
    <3> QED
      BY <3>2, <3>3, <3>4, <3>5, <3>6
  <2>2. ASSUME NEW a \in inFlight', AnswerTo(a, q, status, view), Alive(q)
        PROVE  FreshAnswer(a)'
    <3>1. a.op = q.op /\ a.filter = q.filter /\ a.status = status /\ a.view = view
      BY <2>2 DEF AnswerTo
    <3>2. status = "ok" => view = Found(q)'
      BY DEF Handled
    <3>3. status = "ok" => view.repo = repo' /\ (q.op = "actions" => view.filter = q.filter)
      BY <3>2 DEF Found, View
    <3>4. q.op \in Lists /\ status = "ok" => view.repo = connected'
      <4>1. q.op \in Lists => connected # 0
        BY <1>1, <2>2 DEF Attentive, Attached
      <4>2. q.op \in Lists /\ status = "ok" => repo # 0 /\ repo' = repo
        BY <1>1, ServerMoves
      <4> QED
        BY <1>2, <3>3, <4>1, <4>2 DEF Attentive, SameRepo
    <3>5. q.op \in Lists /\ status = "notfound" => repo' = 0
      <4>1. status = "notfound" => repo' = repo
        BY <1>1, ServerMoves
      <4> QED
        BY <4>1 DEF Handled
    <3>6. q.op = "connect" /\ status = "ok" => repo' # 0
      BY <1>1, ServerMoves
    <3> QED
      BY <3>1, <3>3, <3>4, <3>5, <3>6 DEF FreshAnswer
  <2> QED
    BY <1>3, <2>1, <2>2 DEF Fresh
<1>9. Filtered'
  <2>1. ASSUME NEW p \in inFlight', p.op = "actions"
        PROVE  loading'["actions"] /\ p.filter = filter'
    BY <1>1, <1>2, <1>3, <2>1 DEF Attentive, Filtered, AnswerTo
  <2>2. ASSUME NEW p \in inFlight', NEW r \in inFlight', p.op = "actions", r.op = "actions"
        PROVE  p = r
    BY <1>1, <1>3, <1>4, <2>2 DEF Attentive, Filtered, AnswerTo
  <2> QED
    BY <2>1, <2>2 DEF Filtered
<1>10. ASSUME NEW l \in Lists
       PROVE  Display(l)'
  <2>1. connected # 0 => repo' \in {repo, 0}
    BY <1>1, ServerMoves
  <2>2. Display(l)
    BY DEF Attentive
  <2> QED
    BY <1>2, <2>1, <2>2 DEF Attentive, Display, Showing, SameRepo
<1> QED
  BY <1>5, <1>6, <1>7, <1>8, <1>9, <1>10 DEF Attentive

LEMMA CrossListClick ==
    ASSUME Basic, Attentive, NEW l \in Lists, NEW a, ListClick(l, a)
    PROVE  Attentive'
<1>1. /\ repo' = repo /\ connected' = connected /\ shown' = shown /\ inFlight' = inFlight \cup {a}
      /\ a.op = l /\ a.waiter = "list" /\ a.status = "sent" /\ connected # 0 /\ ~loading[l]
      /\ l = "actions" => a.filter = filter'
      /\ l # "actions" => filter' = filter
      /\ StartRefresh({l})
  BY DEF ListClick, server, cardVars
<1>2. \A k \in Lists: (loading'[k] <=> k = l \/ loading[k]) /\ (failed'[k] <=> k # l /\ failed[k])
  BY <1>1, RefreshStarts DEF Basic, Types
<1>3. Lingering' /\ Attached' /\ SameRepo'
  BY <1>1 DEF Attentive, Lingering, Attached, SameRepo, Alive
<1>4. Fresh'
  BY <1>1 DEF Attentive, Fresh, FreshAnswer
<1>5. Filtered'
  <2>1. CASE l = "actions"
    <3>1. \A q \in inFlight: q.op # "actions"
      BY <1>1, <2>1 DEF Attentive, Filtered
    <3> QED
      BY <1>1, <1>2, <2>1, <3>1 DEF Filtered
  <2>2. CASE l # "actions"
    <3>1. ASSUME NEW p \in inFlight', p.op = "actions"
          PROVE  p \in inFlight /\ loading'["actions"] /\ p.filter = filter'
      <4>1. p \in inFlight /\ loading["actions"] /\ p.filter = filter /\ IsRequest(p)
        BY <1>1, <2>2, <3>1 DEF Attentive, Filtered, Basic, Types, RequestsTyped
      <4>2. "actions" \in Lists
        BY <3>1, <4>1 DEF IsRequest, CardOps, RuleWrites
      <4> QED
        BY <1>1, <1>2, <2>2, <4>1, <4>2
    <3> QED
      BY <3>1 DEF Attentive, Filtered
  <2> QED
    BY <2>1, <2>2
<1>6. ASSUME NEW k \in Lists
      PROVE  Display(k)'
  <2>1. Display(k) /\ (k = "actions" /\ k # l => filter' = filter)
    BY <1>1 DEF Attentive
  <2> QED
    BY <1>1, <1>2, <2>1 DEF Display, Showing
<1> QED
  BY <1>3, <1>4, <1>5, <1>6 DEF Attentive

\* Neither the lists nor the server are asked for anything of the page.
LEMMA CrossOtherClick ==
    ASSUME Basic, Attentive, NEW a, CardClick(a) \/ RuleClick(a)
    PROVE  Attentive'
<1>1. /\ repo' = repo /\ connected' = connected /\ shown' = shown /\ loading' = loading /\ failed' = failed
      /\ filter' = filter /\ inFlight' = inFlight \cup {a} /\ a.status = "sent" /\ Alive(a)
  BY DEF CardClick, RuleClick, server, cardVars, listVars, Alive
<1>2. a.op \notin Lists /\ (a.op \in RuleWrites => connected # 0) /\ a.op # "actions"
  <2>1. a.op \in {"pick", "connect", "disconnect"} \/ (a.op \in RuleWrites /\ connected # 0)
    BY DEF CardClick, RuleClick, RulesVisible
  <2> QED
    BY <2>1, NotOnCard DEF RuleWrites, CardOps
<1>3. Lingering' /\ Attached' /\ SameRepo'
  BY <1>1, <1>2 DEF Attentive, Lingering, Attached, SameRepo
<1>4. Fresh'
  BY <1>1 DEF Attentive, Fresh, FreshAnswer
<1>5. Filtered'
  BY <1>1, <1>2 DEF Attentive, Filtered
<1>6. \A l \in Lists: Display(l)'
  BY <1>1 DEF Attentive, Display, Showing
<1> QED
  BY <1>3, <1>4, <1>5, <1>6 DEF Attentive

LEMMA CrossQuietClick ==
    ASSUME Attentive, QuietClick
    PROVE  Attentive'
<1>1. /\ repo' = repo /\ connected' = connected /\ shown' = shown /\ loading' = loading /\ failed' = failed
      /\ filter' = filter /\ inFlight' = inFlight
  BY DEF QuietClick, server, listVars
<1> QED
  BY <1>1 DEF Attentive, Lingering, Attached, SameRepo, Fresh, FreshAnswer, Filtered, Display, Showing

LEMMA CrossReloaded ==
    ASSUME Basic, ~crossed', NEW a, Reloaded(a)
    PROVE  Attentive'
<1>1. /\ a.op = "load" /\ a.waiter = "card" /\ a.status = "sent" /\ connected' = 0
      /\ \A p \in inFlight': p = a \/ (IsRequest(p) /\ p.op \in RuleWrites /\ ~Alive(p))
  BY DEF Reloaded
<1>2. \A p \in inFlight': p.status = "sent" /\ (Alive(p) => p = a) /\ p.op \notin Lists
  <2>1. ASSUME NEW p \in inFlight', p # a
        PROVE  p.status = "sent" /\ ~Alive(p) /\ p.op \notin Lists
    BY <1>1, <2>1, NotOnCard DEF IsRequest
  <2> QED
    BY <1>1, <2>1, NotOnCard DEF CardOps
<1>3. Lingering' /\ Attached' /\ SameRepo'
  BY <1>1, <1>2 DEF Lingering, Attached, SameRepo, RuleWrites, Alive
<1>4. Fresh'
  BY <1>2 DEF Fresh, FreshAnswer
<1>5. Filtered'
  BY <1>1 DEF Filtered, RuleWrites
<1>6. \A l \in Lists: Display(l)'
  BY <1>1 DEF Display, Showing
<1> QED
  BY <1>3, <1>4, <1>5, <1>6 DEF Attentive

LEMMA CrossListTaken ==
    ASSUME Basic, Attentive, NEW q \in Answered, ListTaken(q)
    PROVE  Attentive'
<1>1. q \in inFlight /\ IsRequest(q) /\ Alive(q) /\ connected # 0 /\ FreshAnswer(q)
  BY AnsweredAlive DEF Attentive, Attached, Fresh, ListTaken
<1>2. /\ repo' = repo /\ connected' = connected /\ filter' = filter /\ inFlight' = inFlight \ {q}
      /\ q.op \in Lists
      /\ \A l \in Lists \ {q.op}: shown'[l] = shown[l] /\ loading'[l] = loading[l] /\ failed'[l] = failed[l]
  BY DEF ListTaken, server
<1>3. Lingering' /\ Attached' /\ SameRepo'
  BY <1>2 DEF Attentive, Lingering, Attached, SameRepo
<1>4. Fresh'
  BY <1>2 DEF Attentive, Fresh, FreshAnswer
<1>5. Filtered'
  <2>1. ASSUME NEW p \in inFlight', p.op = "actions"
        PROVE  loading'["actions"] /\ p.filter = filter'
    <3>1. p \in inFlight /\ p # q /\ loading["actions"] /\ p.filter = filter /\ IsRequest(p)
      BY <1>2, <2>1 DEF Attentive, Filtered, Basic, Types, RequestsTyped
    <3>2. "actions" \in Lists
      BY <2>1, <3>1 DEF IsRequest, CardOps, RuleWrites
    <3>3. q.op # "actions"
      BY <1>1, <2>1, <3>1 DEF Attentive, Filtered
    <3> QED
      BY <1>2, <3>1, <3>2, <3>3
  <2> QED
    BY <1>2, <2>1 DEF Attentive, Filtered
<1>6. ASSUME NEW l \in Lists
      PROVE  Display(l)'
  <2>1. CASE l # q.op
    BY <1>2, <2>1 DEF Attentive, Display, Showing
  <2>2. CASE l = q.op
    <3>1. CASE q.status = "ok" /\ shown'[l] = q.view
      <4>1. q.view.repo = connected /\ (l = "actions" => q.view.filter = filter)
        BY <1>1, <2>2, <3>1 DEF FreshAnswer, Attentive, Filtered
      <4> QED
        BY <1>1, <1>2, <3>1, <4>1 DEF Display
    <3>2. CASE q.status = "notfound" /\ l # "rules" /\ shown'[l] = Empty
      <4>1. repo = 0
        BY <1>1, <2>2, <3>2 DEF FreshAnswer
      <4> QED
        BY <1>1, <1>2, <3>2, <4>1, Constants DEF Display
    <3>3. CASE failed'[l]
      BY <3>3 DEF Display, Showing
    <3> QED
      BY <2>2, <3>1, <3>2, <3>3 DEF ListTaken
  <2> QED
    BY <2>1, <2>2
<1> QED
  BY <1>3, <1>4, <1>5, <1>6 DEF Attentive

\* The card asked for its repository: no list or rule is asked for.
LEMMA CardAlone ==
    ASSUME Basic, Attentive, NEW q \in Answered, q.op \in {"load", "connect"}
    PROVE  /\ connected = 0
           /\ \A p \in inFlight: Alive(p) => p.op \notin Lists \cup RuleWrites
           /\ \A p \in inFlight: p.status # "sent" /\ p # q => p.op \notin CardOps /\ p.op \notin Lists
<1>1. q \in inFlight /\ OnCard(q)
  BY AnsweredAlive DEF CardOps
<1>2. connected = 0
  BY <1>1 DEF Basic, OneCard
<1>3. \A p \in inFlight: Alive(p) => p.op \notin Lists \cup RuleWrites
  BY <1>2 DEF Attentive, Attached
<1>4. ASSUME NEW p \in inFlight, p.status # "sent", p # q
      PROVE  p.op \notin CardOps /\ p.op \notin Lists
  <2>1. IsRequest(p) /\ Alive(p)
    BY <1>4 DEF Basic, Types, RequestsTyped, IsRequest
  <2>2. ~OnCard(p)
    BY <1>1, <1>4 DEF Basic, OneCard, OnCard
  <2> QED
    BY <1>3, <2>1, <2>2, CardWaits
<1> QED
  BY <1>2, <1>3, <1>4

LEMMA CrossCardAnswer ==
    ASSUME Basic, Attentive, NEW q \in Answered, CardAnswer(q)
    PROVE  Attentive'
<1>1. q \in inFlight /\ IsRequest(q) /\ FreshAnswer(q)
  BY AnsweredAlive DEF Attentive, Fresh
<1>2. repo' = repo /\ filter' = filter
  BY DEF CardAnswer, server
<1>3. ASSUME NEW follow, Refreshed(q, follow)
      PROVE  Attentive'
  <2>1. /\ q.op \in {"load", "connect"} /\ inFlight' = (inFlight \ {q}) \cup follow
        /\ \A p \in follow: /\ IsRequest(p) /\ p.op \in Lists /\ p.waiter = "card" /\ p.status = "sent"
                            /\ p.op = "actions" => p.filter = filter
        /\ \A p, r \in follow: p.op = r.op => p = r
    BY <1>3 DEF Refreshed
  <2>2. connected' = repo /\ connected' # 0
    BY <1>1, <1>3, NotOnCard DEF Refreshed, FreshAnswer, CardOps
  <2>3. \A l \in Lists: loading'[l]
    BY <1>3, RefreshStarts DEF Refreshed, Basic, Types
  <2>4. /\ \A p \in inFlight: Alive(p) => p.op \notin Lists \cup RuleWrites
        /\ \A p \in inFlight: p.status # "sent" /\ p # q => p.op \notin CardOps /\ p.op \notin Lists
    BY <2>1, CardAlone
  <2>5. Lingering' /\ Attached' /\ SameRepo'
    BY <1>2, <2>1, <2>2 DEF Attentive, Lingering, Attached, SameRepo, Alive
  <2>6. Fresh'
    BY <2>1, <2>4 DEF Fresh, FreshAnswer, CardOps
  <2>7. \A p \in inFlight: p.op # "actions"
    BY <2>4 DEF Attentive, Lingering, Basic, Types, RequestsTyped, IsRequest, CardOps, RuleWrites
  <2>8. Filtered'
    BY <1>2, <2>1, <2>3, <2>7 DEF Filtered
  <2>9. \A l \in Lists: Display(l)'
    BY <2>3 DEF Display, Showing
  <2> QED
    BY <2>5, <2>6, <2>8, <2>9 DEF Attentive
<1>4. CASE Cleared(q)
  <2>1. q.op = "load" /\ inFlight' = inFlight \ {q} /\ connected' = 0 /\ loading' = loading
    BY <1>4 DEF Cleared
  <2>2. /\ \A p \in inFlight: Alive(p) => p.op \notin Lists \cup RuleWrites
        /\ \A p \in inFlight: p.status # "sent" /\ p # q => p.op \notin CardOps /\ p.op \notin Lists
    BY <2>1, CardAlone
  <2>3. Lingering' /\ Attached' /\ SameRepo'
    BY <1>2, <2>1, <2>2 DEF Attentive, Lingering, Attached, SameRepo, Alive
  <2>4. Fresh'
    BY <2>1, <2>2 DEF Fresh, FreshAnswer, CardOps
  <2>5. Filtered'
    BY <1>2, <2>1 DEF Attentive, Filtered
  <2>6. \A l \in Lists: Display(l)'
    BY <2>1 DEF Display, Showing
  <2> QED
    BY <2>3, <2>4, <2>5, <2>6 DEF Attentive
<1>5. CASE CardKept(q)
  <2>1. inFlight' = inFlight \ {q} /\ connected' = connected /\ shown' = shown /\ loading' = loading /\ failed' = failed
    BY <1>5 DEF CardKept
  <2> QED
    BY <1>2, <2>1 DEF Attentive, Lingering, Attached, SameRepo, Fresh, FreshAnswer, Filtered, Display, Showing
<1> QED
  BY <1>3, <1>4, <1>5 DEF CardAnswer

LEMMA CrossDisconnected ==
    ASSUME Basic, Attentive, ~crossed', NEW q \in Answered, Disconnected(q)
    PROVE  Attentive'
<1>1. /\ repo' = repo /\ connected' = 0 /\ inFlight' = inFlight \ {q} /\ loading' = loading /\ filter' = filter
      /\ \A p \in inFlight': ~Alive(p)
  BY DEF Disconnected, server
<1>2. Lingering' /\ Attached' /\ SameRepo'
  BY <1>1 DEF Attentive, Lingering, Attached, SameRepo
<1>3. \A p \in inFlight': p.status = "sent"
  BY <1>1 DEF Basic, Types, RequestsTyped, IsRequest
<1>4. Fresh'
  BY <1>3 DEF Fresh, FreshAnswer
<1>5. Filtered'
  BY <1>1 DEF Attentive, Filtered
<1>6. \A l \in Lists: Display(l)'
  BY <1>1 DEF Display, Showing
<1> QED
  BY <1>2, <1>4, <1>5, <1>6 DEF Attentive

LEMMA CrossRuleAnswer ==
    ASSUME Basic, Attentive, NEW q \in Answered, (\E a: RuleSaved(q, a)) \/ RuleRefused(q)
    PROVE  Attentive'
<1>1. q \in inFlight /\ Alive(q) /\ q.op \in RuleWrites
  BY AnsweredAlive DEF RuleSaved, RuleRefused
<1>2. connected # 0
  BY <1>1 DEF Attentive, Attached
<1>3. repo' = repo /\ connected' = connected /\ shown' = shown /\ filter' = filter
  BY DEF RuleSaved, RuleRefused, server
<1>4. ASSUME NEW a, RuleSaved(q, a)
      PROVE  Attentive'
  <2>1. /\ inFlight' = (inFlight \ {q}) \cup {a} /\ a.op = "rules" /\ a.waiter = q.waiter /\ a.status = "sent"
        /\ StartRefresh({"rules"})
    BY <1>4 DEF RuleSaved
  <2>2. \A k \in Lists: (loading'[k] <=> k = "rules" \/ loading[k]) /\ (failed'[k] <=> k # "rules" /\ failed[k])
    BY <2>1, RefreshStarts DEF Basic, Types
  <2>3. Lingering' /\ Attached' /\ SameRepo'
    BY <1>1, <1>2, <1>3, <2>1 DEF Attentive, Lingering, Attached, SameRepo, Alive
  <2>4. Fresh'
    BY <1>3, <2>1 DEF Attentive, Fresh, FreshAnswer
  <2>5. Filtered'
    <3>1. ASSUME NEW p \in inFlight', p.op = "actions"
          PROVE  p \in inFlight /\ loading'["actions"] /\ p.filter = filter'
      <4>1. p \in inFlight /\ loading["actions"] /\ p.filter = filter /\ IsRequest(p)
        BY <2>1, <3>1 DEF Attentive, Filtered, Basic, Types, RequestsTyped
      <4>2. "actions" \in Lists
        BY <3>1, <4>1 DEF IsRequest, CardOps, RuleWrites
      <4> QED
        BY <1>3, <2>2, <4>1, <4>2
    <3> QED
      BY <3>1 DEF Attentive, Filtered
  <2>6. \A l \in Lists: Display(l)'
    BY <1>3, <2>2 DEF Attentive, Display, Showing
  <2> QED
    BY <2>3, <2>4, <2>5, <2>6 DEF Attentive
<1>5. CASE RuleRefused(q)
  <2>1. inFlight' = inFlight \ {q} /\ loading' = loading /\ \A l \in Lists: failed[l] => failed'[l]
    BY <1>5 DEF RuleRefused
  <2> QED
    BY <1>3, <2>1 DEF Attentive, Lingering, Attached, SameRepo, Fresh, FreshAnswer, Filtered, Display, Showing
<1> QED
  BY <1>4, <1>5

------------------------------------------------------------------------------
(* The rules on display are those of the server: every step.                 *)
LEMMA OrderedHandled ==
    ASSUME Basic, Attentive, doubtful => doubtful', ~doubtful => Ordered, ~doubtful',
           NEW q \in Sent, NEW status, status # "sent", NEW view, Handled(q, status, view)
    PROVE  Ordered'
<1>1. q \in inFlight /\ q.status = "sent" /\ IsRequest(q) /\ Lingering /\ Ordered
  BY DEF Sent, Basic, Types, RequestsTyped, Attentive
<1>2. connected' = connected /\ shown' = shown /\ loading' = loading /\ failed' = failed
  BY DEF Handled, cardVars, listVars
<1>3. \A p \in inFlight': (p \in inFlight /\ p # q) \/ (AnswerTo(p, q, status, view) /\ Alive(q))
  BY DEF Handled
<1>4. \A p \in inFlight: p # q => p \in inFlight'
  BY DEF Handled
<1>5. Alive(q) => \E a \in inFlight': AnswerTo(a, q, status, view)
  BY DEF Handled
<1>6. \A p, r \in inFlight': AnswerTo(p, q, status, view) /\ AnswerTo(r, q, status, view) /\ p # r
          => (p \in inFlight /\ p # q) \/ (r \in inFlight /\ r # q)
  BY DEF Handled
<1>7. /\ connected # 0 => repo' \in {repo, 0}
      /\ connected # 0 /\ repo' # 0 /\ q.op \notin RuleWrites => rules' = rules
  BY <1>1, ServerMoves
<1>8. OneRuling'
  <2>1. ASSUME NEW p \in inFlight', NEW r \in inFlight', Ruling(p), Ruling(r)
        PROVE  p = r
    BY <1>1, <1>3, <1>6, <2>1 DEF Ordered, OneRuling, Ruling, AnswerTo
  <2>2. ASSUME NEW p \in inFlight', Ruling(p)
        PROVE  Alive(p)
    BY <1>1, <1>3, <2>2 DEF Ordered, OneRuling, Ruling, AnswerTo, Alive
  <2> QED
    BY <2>1, <2>2 DEF OneRuling
<1>9. CurrentView'
  <2>1. ASSUME NEW p \in inFlight', p.op = "rules", p.status = "ok", repo' = connected'
        PROVE  p.view.rules = rules'
    <3>1. CASE p \in inFlight /\ p # q
      <4>1. Alive(p) /\ connected # 0
        BY <1>1, <2>1, <3>1, Constants DEF Ordered, OneRuling, Ruling, Attentive, Attached
      <4>2. ~Ruling(q)
        BY <1>1, <2>1, <3>1 DEF Ordered, OneRuling, Ruling
      <4>3. repo = connected /\ rules' = rules
        BY <1>2, <1>7, <2>1, <4>1, <4>2 DEF Ruling
      <4> QED
        BY <1>1, <2>1, <3>1, <4>3 DEF Ordered, CurrentView
    <3>2. CASE AnswerTo(p, q, status, view)
      <4>1. q.op = "rules" /\ status = "ok" /\ p.view = view
        BY <2>1, <3>2 DEF AnswerTo
      <4>2. view = Found(q)'
        BY <4>1 DEF Handled
      <4> QED
        BY <4>1, <4>2 DEF Found, View
    <3> QED
      BY <1>3, <3>1, <3>2
  <2> QED
    BY <2>1 DEF CurrentView
<1>10. CurrentRules'
  <2>1. SUFFICES ASSUME Showing("rules")', repo' = connected',
                        \A p \in inFlight': Ruling(p) => Unsaved(p)
                 PROVE  shown'["rules"].rules = rules'
    BY DEF CurrentRules, Ruling, Unsaved
  <2>2. connected # 0 /\ repo = connected /\ Showing("rules")
    BY <1>2, <1>7, <2>1 DEF Showing
  <2>3. \A p \in inFlight: Ruling(p) /\ p # q => Unsaved(p)
    BY <1>4, <2>1
  <2>4. ~Ruling(q) \/ (q.op \in RuleWrites /\ q.waiter = "form" /\ status # "ok")
    <3>1. Ruling(q) => \E a \in inFlight': AnswerTo(a, q, status, view)
      BY <1>1, <1>5 DEF Ordered, OneRuling
    <3> QED
      BY <2>1, <3>1 DEF Ruling, AnswerTo, Unsaved
  <2>5. rules' = rules
    <3>1. CASE ~Ruling(q)
      BY <1>2, <1>7, <2>1, <2>2, <3>1 DEF Ruling
    <3>2. CASE q.op \in RuleWrites /\ q.waiter = "form" /\ status # "ok"
      <4>1. ~(doubtful' = (doubtful \/ q.waiter = "form"))
        BY <3>2
      <4> QED
        BY <3>2, <4>1 DEF Handled, server
    <3> QED
      BY <2>4, <3>1, <3>2
  <2>6. \A p \in inFlight: Ruling(p) => Unsaved(p)
    BY <1>1, <2>3, <2>4 DEF Unsaved
  <2> QED
    BY <1>1, <1>2, <2>2, <2>5, <2>6 DEF Ordered, CurrentRules
<1> QED
  BY <1>8, <1>9, <1>10 DEF Ordered

LEMMA OrderedListClick ==
    ASSUME Basic, ~doubtful => Ordered, ~doubtful', NEW l \in Lists, NEW a, ListClick(l, a)
    PROVE  Ordered'
<1>1. /\ repo' = repo /\ rules' = rules /\ connected' = connected /\ shown' = shown
      /\ inFlight' = inFlight \cup {a} /\ a.op = l /\ a.waiter = "list" /\ a.status = "sent" /\ StartRefresh({l})
  BY DEF ListClick, server, cardVars
<1>2. \A k \in Lists: (loading'[k] <=> k = l \/ loading[k]) /\ (failed'[k] <=> k # l /\ failed[k])
  BY <1>1, RefreshStarts DEF Basic, Types
<1>3. CASE l = "rules"
  <2>1. \A q \in inFlight: ~Ruling(q)
    BY <1>3 DEF ListClick, AboutRules, Ruling
  <2>2. OneRuling' /\ CurrentView'
    BY <1>1, <2>1 DEF OneRuling, CurrentView, Ruling, Alive
  <2>3. CurrentRules'
    BY <1>2, <1>3, Constants DEF CurrentRules, Showing
  <2> QED
    BY <2>2, <2>3 DEF Ordered
<1>4. CASE l # "rules"
  <2>1. Ordered /\ ~Ruling(a)
    BY <1>1, <1>4, NotOnCard DEF ListClick, Ruling
  <2>2. OneRuling' /\ CurrentView'
    BY <1>1, <2>1 DEF Ordered, OneRuling, CurrentView, Ruling
  <2>3. CurrentRules'
    BY <1>1, <1>2, <1>4, <2>1, Constants DEF Ordered, CurrentRules, Showing
  <2> QED
    BY <2>2, <2>3 DEF Ordered
<1> QED
  BY <1>3, <1>4

LEMMA OrderedCardClick ==
    ASSUME Ordered, NEW a, CardClick(a)
    PROVE  Ordered'
<1>1. /\ repo' = repo /\ rules' = rules /\ connected' = connected /\ shown' = shown
      /\ loading' = loading /\ failed' = failed /\ inFlight' = inFlight \cup {a} /\ ~Ruling(a)
  BY DEF CardClick, server, listVars, Ruling, RuleWrites
<1>2. a.op # "rules"
  BY <1>1 DEF Ruling
<1> QED
  BY <1>1, <1>2 DEF Ordered, OneRuling, CurrentView, CurrentRules, Showing

LEMMA OrderedRuleClick ==
    ASSUME ~doubtful => Ordered, ~doubtful', NEW a, RuleClick(a)
    PROVE  Ordered'
<1>1. /\ repo' = repo /\ rules' = rules /\ connected' = connected /\ shown' = shown
      /\ loading' = loading /\ failed' = failed /\ inFlight' = inFlight \cup {a}
      /\ a.op \in RuleWrites /\ a.status = "sent" /\ Alive(a)
  BY DEF RuleClick, server, cardVars, listVars, Alive
<1>2. ~doubtful /\ AboutRules(inFlight) = {}
  BY DEF RuleClick
<1>3. \A q \in inFlight: ~Ruling(q)
  BY <1>2 DEF AboutRules, Ruling
<1>4. OneRuling' /\ CurrentView'
  BY <1>1, <1>3 DEF OneRuling, CurrentView, Ruling, RuleWrites
<1>5. CurrentRules'
  BY <1>1, <1>2, <1>3 DEF Ordered, CurrentRules, Showing
<1> QED
  BY <1>4, <1>5 DEF Ordered

LEMMA OrderedQuietClick ==
    ASSUME Ordered, QuietClick
    PROVE  Ordered'
<1>1. /\ repo' = repo /\ rules' = rules /\ connected' = connected /\ shown' = shown
      /\ loading' = loading /\ failed' = failed /\ inFlight' = inFlight
  BY DEF QuietClick, server, listVars
<1> QED
  BY <1>1 DEF Ordered, OneRuling, CurrentView, CurrentRules, Showing

LEMMA OrderedReloaded ==
    ASSUME ~crossed', ~doubtful', NEW a, Reloaded(a)
    PROVE  Ordered'
<1>1. inFlight' = {a} /\ a.op = "load" /\ connected' = 0
  BY DEF Reloaded
<1> QED
  BY <1>1 DEF Ordered, OneRuling, CurrentView, CurrentRules, Showing, Ruling, RuleWrites

LEMMA OrderedListTaken ==
    ASSUME Ordered, NEW q \in Answered, ListTaken(q)
    PROVE  Ordered'
<1>1. /\ repo' = repo /\ rules' = rules /\ connected' = connected
      /\ inFlight' = inFlight \ {q} /\ q \in inFlight /\ q.op \in Lists
      /\ \A l \in Lists \ {q.op}: shown'[l] = shown[l] /\ loading'[l] = loading[l] /\ failed'[l] = failed[l]
  BY DEF ListTaken, server, Answered
<1>2. OneRuling' /\ CurrentView'
  BY <1>1 DEF Ordered, OneRuling, CurrentView
<1>3. CASE q.op # "rules"
  <2>1. ~Ruling(q)
    BY <1>1, <1>3, NotOnCard DEF Ruling
  <2>2. CurrentRules'
    BY <1>1, <1>3, <2>1, Constants DEF Ordered, CurrentRules, Showing
  <2> QED
    BY <1>2, <2>2 DEF Ordered
<1>4. CASE q.op = "rules"
  <2>1. CASE q.status = "ok" /\ shown'["rules"] = q.view
    BY <1>1, <1>2, <1>4, <2>1 DEF Ordered, CurrentView, CurrentRules
  <2>2. CASE failed'["rules"]
    BY <1>2, <2>2 DEF Ordered, CurrentRules, Showing
  <2> QED
    BY <1>4, <2>1, <2>2 DEF ListTaken
<1> QED
  BY <1>3, <1>4

LEMMA OrderedCardAnswer ==
    ASSUME Basic, Attentive, ~doubtful => Ordered, ~doubtful', NEW q \in Answered, CardAnswer(q)
    PROVE  Ordered'
<1>1. repo' = repo /\ rules' = rules
  BY DEF CardAnswer, server
<1>2. ASSUME NEW follow, Refreshed(q, follow)
      PROVE  Ordered'
  <2>1. /\ q.op \in {"load", "connect"} /\ inFlight' = (inFlight \ {q}) \cup follow
        /\ \A p \in follow: p.op \in Lists /\ p.waiter = "card" /\ p.status = "sent"
        /\ \A p, r \in follow: p.op = r.op => p = r
    BY <1>2 DEF Refreshed
  <2>2. \A p \in inFlight: ~Ruling(p)
    BY <1>2 DEF Refreshed, AboutRules, Ruling
  <2>3. loading'["rules"]
    BY <1>2, RefreshStarts, Constants DEF Refreshed, Basic, Types
  <2>4. OneRuling' /\ CurrentView'
    BY <2>1, <2>2, NotOnCard DEF OneRuling, CurrentView, Ruling, Alive
  <2>5. CurrentRules'
    BY <2>3 DEF CurrentRules, Showing
  <2> QED
    BY <2>4, <2>5 DEF Ordered
<1>3. CASE Cleared(q)
  <2>1. inFlight' = inFlight \ {q} /\ connected' = 0 /\ Ordered
    BY <1>3 DEF Cleared
  <2>2. OneRuling' /\ CurrentRules'
    BY <2>1 DEF Ordered, OneRuling, CurrentRules, Showing
  <2>3. CurrentView'
    <3>1. ASSUME NEW p \in inFlight'
          PROVE  p.op # "rules" \/ p.status # "ok" \/ repo' # 0
      <4>1. p \in inFlight /\ IsRequest(p)
        BY <2>1 DEF Basic, Types, RequestsTyped
      <4>2. CASE p.op = "rules" /\ p.status = "ok"
        <5>1. Alive(p)
          BY <4>1, <4>2 DEF IsRequest
        <5> QED
          BY <4>1, <4>2, <5>1, <1>3, CardAlone, Constants DEF Cleared
      <4> QED
        BY <4>2
    <3> QED
      BY <2>1, <3>1 DEF CurrentView
  <2> QED
    BY <2>2, <2>3 DEF Ordered
<1>4. CASE CardKept(q)
  <2>1. /\ inFlight' = inFlight \ {q} /\ connected' = connected /\ shown' = shown /\ loading' = loading
        /\ failed' = failed /\ ~Ruling(q) /\ Ordered
    BY <1>4, NotOnCard DEF CardKept, Ruling, CardOps, RuleWrites
  <2> QED
    BY <1>1, <2>1 DEF Ordered, OneRuling, CurrentView, CurrentRules, Showing
<1> QED
  BY <1>2, <1>3, <1>4 DEF CardAnswer

LEMMA OrderedDisconnected ==
    ASSUME Ordered, ~crossed', NEW q \in Answered, Disconnected(q)
    PROVE  Ordered'
<1>1. /\ connected' = 0 /\ inFlight' = inFlight \ {q} /\ \A p \in inFlight': ~Alive(p)
  BY DEF Disconnected
<1> QED
  BY <1>1 DEF Ordered, OneRuling, CurrentView, CurrentRules, Showing, Ruling

LEMMA OrderedRuleAnswer ==
    ASSUME ~doubtful => Ordered, ~doubtful', Basic,
           NEW q \in Answered, (\E a: RuleSaved(q, a)) \/ RuleRefused(q)
    PROVE  Ordered'
<1>1. q \in inFlight /\ Alive(q) /\ Ruling(q) /\ repo' = repo /\ rules' = rules /\ connected' = connected /\ shown' = shown
  BY AnsweredAlive DEF RuleSaved, RuleRefused, Ruling, server
<1>2. \A p \in inFlight: p # q => ~Ruling(p)
  <2>1. (\E a: RuleSaved(q, a)) => AboutRules(inFlight \ {q}) = {}
    BY DEF RuleSaved
  <2>2. RuleRefused(q) => OneRuling
    BY DEF RuleRefused, history, Ordered
  <2> QED
    BY <1>1, <2>1, <2>2 DEF OneRuling, AboutRules, Ruling
<1>3. ASSUME NEW a, RuleSaved(q, a)
      PROVE  Ordered'
  <2>1. /\ inFlight' = (inFlight \ {q}) \cup {a} /\ a.op = "rules" /\ a.waiter = q.waiter /\ a.status = "sent"
        /\ StartRefresh({"rules"})
    BY <1>3 DEF RuleSaved
  <2>2. loading'["rules"]
    BY <2>1, RefreshStarts, Constants DEF Basic, Types
  <2>3. OneRuling' /\ CurrentView'
    BY <1>1, <1>2, <2>1 DEF OneRuling, CurrentView, Ruling, Alive
  <2>4. CurrentRules'
    BY <2>2 DEF CurrentRules, Showing
  <2> QED
    BY <2>3, <2>4 DEF Ordered
<1>4. CASE RuleRefused(q)
  <2>1. /\ inFlight' = inFlight \ {q} /\ loading' = loading /\ \A l \in Lists: failed[l] => failed'[l]
        /\ q.op \in RuleWrites /\ q.status # "ok" /\ (q.waiter = "list" => failed'["rules"]) /\ Ordered
    BY <1>4 DEF RuleRefused, history
  <2>2. OneRuling' /\ CurrentView'
    BY <1>1, <2>1 DEF Ordered, OneRuling, CurrentView
  <2>3. Showing("rules")' => Showing("rules")
    BY <1>1, <2>1, Constants DEF Showing
  <2>4. q.waiter = "list" => CurrentRules'
    BY <2>1 DEF CurrentRules, Showing
  <2>5. ASSUME q.waiter = "form"
        PROVE  CurrentRules'
    <3>1. \A p \in inFlight: Ruling(p) => Unsaved(p)
      BY <1>2, <2>1, <2>5 DEF Unsaved
    <3> QED
      BY <1>1, <2>1, <2>3, <3>1 DEF Ordered, CurrentRules
  <2>6. q.waiter \in {"form", "list"}
    <3>1. IsRequest(q)
      BY AnsweredAlive
    <3>2. q.op \notin Lists /\ q.op \notin {"load", "pick", "connect", "disconnect"}
      BY <2>1, Constants DEF RuleWrites
    <3> QED
      BY <1>1, <3>1, <3>2 DEF IsRequest, WaitersOf, Alive
  <2> QED
    BY <2>2, <2>4, <2>5, <2>6 DEF Ordered
<1> QED
  BY <1>3, <1>4

------------------------------------------------------------------------------
(* The invariant.                                                            *)

LEMMA InitInv ==
    ASSUME Init
    PROVE  IInv
<1> DEFINE a == Request(1, "load", 0, NoRule, "card")
<1>1. IsRequest(a) /\ a.op = "load" /\ a.waiter = "card" /\ a.status = "sent"
  <2>1. "load" \in CardOps \cup RuleWrites /\ "card" \in WaitersOf("load") /\ 0 \in 0..MaxClicks /\ NoRule \in Rule
    BY Constants DEF CardOps, WaitersOf
  <2> QED
    BY <2>1, Sends
<1> HIDE DEF a
<1>2. /\ inFlight = {a} /\ repo \in {0, 1} /\ connected = 0 /\ picking = FALSE /\ card = "loading"
      /\ shown = [l \in Lists |-> Empty] /\ filter = AnyType
      /\ loading = [l \in Lists |-> FALSE] /\ failed = [l \in Lists |-> FALSE]
      /\ form = ClosedForm /\ formBusy = FALSE /\ clicks = 1 /\ failures = 0
      /\ crossed = FALSE /\ doubtful = FALSE
      /\ rules = IF repo = 0 THEN <<>> ELSE [r \in {1} |-> [NoRule EXCEPT !.on = TRUE]]
  BY DEF Init, a
<1>3. /\ 1 \in Numbers /\ repo \in 0..MaxClicks /\ 0 \in 0..MaxClicks /\ 0 \in 0..MaxFailures /\ AnyType \in Filters
      /\ [NoRule EXCEPT !.on = TRUE] \in Rule /\ IsRules(<<>>)
  BY <1>2, Constants, BoundsAssumption
<1>4. IsRules(rules) /\ (repo = 0 => rules = <<>>)
  <2> DEFINE b == [NoRule EXCEPT !.on = TRUE]
  <2> HIDE DEF b
  <2>1. ASSUME b \in Rule
        PROVE  IsRules([r \in {1} |-> b])
    BY <1>3, <2>1 DEF IsRules
  <2> QED
    BY <1>2, <1>3, <2>1 DEF b
<1>5. shown = [l \in Lists |-> shown[l]] /\ \A l \in Lists: IsView(shown[l])
  BY <1>2, Constants
<1>6. Types
  <2>1. PageTyped
    BY <1>2, <1>3, <1>5, Closed DEF PageTyped
  <2> QED
    BY <1>1, <1>2, <1>3, <1>4, <2>1 DEF Types, ServerTyped, RequestsTyped
<1>7. Spinners /\ OneCard
  BY <1>1, <1>2 DEF Spinners, OneCard, OnCard
<1>8. a.op \notin Lists /\ a.op \notin RuleWrites /\ Alive(a) /\ ~Ruling(a)
  BY <1>1, NotOnCard DEF CardOps, RuleWrites, Ruling, Alive
<1>9. Attentive
  BY <1>1, <1>2, <1>8
  DEF Attentive, Lingering, Attached, SameRepo, Fresh, FreshAnswer, Filtered, Display, Showing
<1>10. Ordered
  BY <1>1, <1>2, <1>8 DEF Ordered, OneRuling, CurrentView, CurrentRules, Showing
<1> QED
  BY <1>6, <1>7, <1>9, <1>10 DEF IInv, Basic, CrossInv, RulesInv

LEMMA ClickInv ==
    ASSUME IInv, Click
    PROVE  IInv'
<1>0. Basic /\ PageTyped /\ Types /\ (~crossed => Attentive) /\ (~crossed /\ ~doubtful => Ordered)
  BY DEF IInv, Basic, Types, CrossInv, RulesInv
<1>1. ASSUME NEW l \in Lists, NEW a, ListClick(l, a)
      PROVE  IInv'
  <2>1. crossed' = crossed
    BY <1>1 DEF ListClick
  <2>2. Basic' /\ (~crossed => Attentive')
    BY <1>0, <1>1, BasicListClick, CrossListClick
  <2>3. ~crossed /\ ~doubtful' => Ordered'
    BY <1>0, <1>1, OrderedListClick
  <2> QED
    BY <2>1, <2>2, <2>3 DEF IInv, CrossInv, RulesInv
<1>2. ASSUME NEW a, CardClick(a)
      PROVE  IInv'
  <2>1. crossed' = crossed /\ doubtful' = doubtful
    BY <1>2 DEF CardClick, history
  <2>2. Basic' /\ (~crossed => Attentive') /\ (~crossed /\ ~doubtful => Ordered')
    BY <1>0, <1>2, BasicCardClick, CrossOtherClick, OrderedCardClick
  <2> QED
    BY <2>1, <2>2 DEF IInv, CrossInv, RulesInv
<1>3. ASSUME NEW a, RuleClick(a)
      PROVE  IInv'
  <2>1. crossed' = crossed
    BY <1>3 DEF RuleClick
  <2>2. Basic' /\ (~crossed => Attentive')
    BY <1>0, <1>3, BasicRuleClick, CrossOtherClick
  <2>3. ~crossed /\ ~doubtful' => Ordered'
    BY <1>0, <1>3, OrderedRuleClick
  <2> QED
    BY <2>1, <2>2, <2>3 DEF IInv, CrossInv, RulesInv
<1>4. CASE QuietClick
  <2>1. crossed' = crossed /\ doubtful' = doubtful
    BY <1>4 DEF QuietClick, history
  <2>2. Basic' /\ (~crossed => Attentive') /\ (~crossed /\ ~doubtful => Ordered')
    BY <1>0, <1>4, BasicQuietClick, CrossQuietClick, OrderedQuietClick
  <2> QED
    BY <2>1, <2>2 DEF IInv, CrossInv, RulesInv
<1>5. ASSUME NEW a, Reloaded(a)
      PROVE  IInv'
  <2>1. Basic' /\ (~crossed' => Attentive') /\ (~crossed' /\ ~doubtful' => Ordered')
    BY <1>0, <1>5, BasicReloaded, CrossReloaded, OrderedReloaded
  <2> QED
    BY <2>1 DEF IInv, CrossInv, RulesInv
<1>6. CASE (\E l \in Lists: Refresh(l)) \/ (\E f \in Filters: ChooseFilter(f))
  BY <1>0, <1>1, <1>6, ListClicks
<1>7. CASE StartPick \/ ConnectClick \/ DisconnectClick
  BY <1>0, <1>2, <1>7, CardClicks
<1>8. CASE \/ \E body \in Rule: Submit(body)
           \/ \E r \in DOMAIN shown["rules"].rules: Toggle(r) \/ DeleteClick(r)
  BY <1>0, <1>3, <1>8, RuleClicks
<1>9. CASE \/ CancelPick \/ OpenCreate \/ CancelForm
           \/ \E r \in DOMAIN shown["rules"].rules: Edit(r)
  BY <1>0, <1>4, <1>9, QuietClicks
<1>10. CASE Reload
  BY <1>0, <1>5, <1>10, Reloads
<1> QED
  BY <1>6, <1>7, <1>8, <1>9, <1>10 DEF Click

LEMMA ServeInv ==
    ASSUME IInv, NEW q \in Sent, Serve(q) \/ Fail(q) \/ LoseAnswer(q)
    PROVE  IInv'
<1>0. Basic /\ (~crossed => Attentive) /\ (~crossed /\ ~doubtful => Ordered)
  BY DEF IInv, CrossInv, RulesInv
<1>1. ServerTyped' /\ \E status \in {"ok", "error", "notfound"}: \E view: Handled(q, status, view)
  BY <1>0, ServerSteps DEF Basic, Types
<1>2. PICK status \in {"ok", "error", "notfound"}: \E view: Handled(q, status, view)
  BY <1>1
<1>3. PICK view: Handled(q, status, view)
  BY <1>2
<1>4. crossed' = crossed /\ (doubtful => doubtful')
  <2>1. doubtful' = doubtful \/ doubtful' = (doubtful \/ q.waiter = "form")
    BY <1>3 DEF Handled
  <2>2. doubtful => doubtful'
    BY <2>1, Zenon
  <2>3. crossed' = crossed
    BY <1>3 DEF Handled
  <2> QED
    BY <2>2, <2>3
<1>5. Basic'
  BY <1>0, <1>1, <1>3, BasicHandled
<1>6. ~crossed => Attentive'
  BY <1>0, <1>3, CrossHandled
<1>7. ~crossed /\ ~doubtful' => Ordered'
  BY <1>0, <1>3, <1>4, OrderedHandled
<1> QED
  BY <1>4, <1>5, <1>6, <1>7 DEF IInv, CrossInv, RulesInv

LEMMA DeliverInv ==
    ASSUME IInv, NEW q \in Answered, Deliver(q)
    PROVE  IInv'
<1>0. /\ Basic /\ PageTyped /\ (~crossed => Attentive) /\ (~crossed /\ ~doubtful => Ordered)
      /\ IsRequest(q) /\ Finish(q)
  <2>1. Basic /\ PageTyped /\ (~crossed => Attentive) /\ (~crossed /\ ~doubtful => Ordered)
    BY DEF IInv, Basic, Types, CrossInv, RulesInv
  <2>2. Finish(q)
    BY DEF Deliver, DeliverList, DeliverLoad, DeliverPick, DeliverConnect, DeliverDisconnect, DeliverRuleWrite
  <2> QED
    BY <2>1, <2>2, AnsweredAlive
<1>1. CASE DeliverList(q)
  <2>1. ListTaken(q)
    BY <1>0, <1>1, ListAnswers
  <2>2. crossed' = crossed /\ doubtful' = doubtful
    BY <2>1 DEF ListTaken, history
  <2>3. Basic' /\ (~crossed => Attentive') /\ (~crossed /\ ~doubtful => Ordered')
    BY <1>0, <2>1, BasicListTaken, CrossListTaken, OrderedListTaken
  <2> QED
    BY <2>2, <2>3 DEF IInv, CrossInv, RulesInv
<1>2. CASE DeliverLoad(q) \/ DeliverPick(q) \/ DeliverConnect(q) \/ (DeliverDisconnect(q) /\ q.status # "ok")
  <2>1. CardAnswer(q)
    BY <1>0, <1>2, CardAnswers
  <2>2. crossed' = crossed
    BY <2>1 DEF CardAnswer
  <2>3. Basic' /\ (~crossed => Attentive')
    BY <1>0, <2>1, BasicCardAnswer, CrossCardAnswer
  <2>4. ~crossed /\ ~doubtful' => Ordered'
    BY <1>0, <2>1, OrderedCardAnswer
  <2> QED
    BY <2>2, <2>3, <2>4 DEF IInv, CrossInv, RulesInv
<1>3. CASE DeliverDisconnect(q) /\ q.status = "ok"
  <2>1. Disconnected(q)
    BY <1>0, <1>3, DisconnectAnswers
  <2>2. doubtful' = doubtful /\ (~crossed' => ~crossed)
    BY <2>1 DEF Disconnected
  <2>3. Basic' /\ (~crossed' => Attentive') /\ (~crossed' /\ ~doubtful => Ordered')
    BY <1>0, <2>1, <2>2, BasicDisconnected, CrossDisconnected, OrderedDisconnected
  <2> QED
    BY <2>2, <2>3 DEF IInv, CrossInv, RulesInv
<1>4. CASE DeliverRuleWrite(q)
  <2>1. (\E a: RuleSaved(q, a)) \/ RuleRefused(q)
    BY <1>0, <1>4, RuleAnswers
  <2>2. crossed' = crossed
    BY <2>1 DEF RuleSaved, RuleRefused, history
  <2>3. Basic' /\ (~crossed => Attentive')
    BY <1>0, <2>1, BasicRuleAnswer, CrossRuleAnswer
  <2>4. ~crossed /\ ~doubtful' => Ordered'
    BY <1>0, <2>1, OrderedRuleAnswer
  <2> QED
    BY <2>2, <2>3, <2>4 DEF IInv, CrossInv, RulesInv
<1> QED
  BY <1>1, <1>2, <1>3, <1>4 DEF Deliver

LEMMA StepInv ==
    ASSUME IInv, [Next]_vars
    PROVE  IInv'
<1>1. CASE Next
  BY <1>1, ClickInv, ServeInv, DeliverInv DEF Next
<1>2. CASE UNCHANGED vars
  <2>1. /\ repo' = repo /\ rules' = rules /\ connected' = connected /\ picking' = picking /\ card' = card
        /\ shown' = shown /\ loading' = loading /\ failed' = failed /\ filter' = filter /\ form' = form
        /\ formBusy' = formBusy /\ clicks' = clicks /\ failures' = failures /\ inFlight' = inFlight
        /\ crossed' = crossed /\ doubtful' = doubtful
    BY <1>2 DEF vars, server, cardVars, listVars, formVars, history
  <2>2. Basic => Basic'
    BY <2>1 DEF Basic, Types, ServerTyped, PageTyped, RequestsTyped, Spinners, OneCard
  <2>3. Attentive => Attentive'
    BY <2>1 DEF Attentive, Lingering, Attached, SameRepo, Fresh, FreshAnswer, Filtered, Display, Showing
  <2>4. Ordered => Ordered'
    BY <2>1 DEF Ordered, OneRuling, CurrentView, CurrentRules, Showing
  <2> QED
    BY <2>1, <2>2, <2>3, <2>4 DEF IInv, CrossInv, RulesInv
<1> QED
  BY <1>1, <1>2

LEMMA TypesOK ==
    ASSUME Basic
    PROVE  TypeOK
<1>1. /\ repo \in Numbers \cup {0} /\ connected \in Numbers \cup {0}
      /\ DOMAIN rules \subseteq Numbers /\ (repo = 0 => rules = <<>>)
  BY Constants DEF Basic, Types, ServerTyped, PageTyped, IsRules
<1>2. Range(rules) \subseteq Rule
  BY DEF Basic, Types, ServerTyped, IsRules, Range
<1>3. /\ picking \in BOOLEAN /\ (picking => connected = 0) /\ card \in {"loading", "busy", "free"}
      /\ loading \in [Lists -> BOOLEAN] /\ failed \in [Lists -> BOOLEAN] /\ filter \in Filters
      /\ clicks \in Numbers /\ failures \in 0..MaxFailures /\ formBusy \in BOOLEAN
      /\ history \in BOOLEAN \X BOOLEAN
  BY DEF Basic, Types, PageTyped, history
<1>4. Spinners
  BY DEF Basic
<1> QED
  BY <1>1, <1>2, <1>3, <1>4 DEF TypeOK, Spinners

(* For any number of clicks, lists, filters, requests in flight and        *)
(* failures: the state has its types, and every spinner turns exactly as   *)
(* long as a request of its click is unanswered (the finally clauses of    *)
(* DashboardPage.tsx).                                                     *)
THEOREM DashboardTypes == Spec => []TypeOK
<1>1. IInv => TypeOK
  BY TypesOK DEF IInv
<1> QED
  BY <1>1, InitInv, StepInv, PTL DEF Spec

(* For any of them: a list on display is that of the repository and filter *)
(* the page names, or empty because that repository is gone, unless a      *)
(* disconnect was answered with lists in flight (DashboardPage.tsx,        *)
(* refreshActions).                                                        *)
THEOREM DashboardShowsWhatItSays == Spec => []ShowsWhatItSays
<1>1. IInv => ShowsWhatItSays
  BY DEF IInv, CrossInv, Attentive, Display, ShowsWhatItSays
<1> QED
  BY <1>1, InitInv, StepInv, PTL DEF Spec

(* For any of them: with no rule request in flight the rules on display    *)
(* are those of the server, whichever saves, toggles and deletions failed  *)
(* or lost their answer, except, until the rules are next listed with no   *)
(* other rule request in flight, after rule requests that ran at the same  *)
(* time and after a save of the form whose answer was lost                 *)
(* (DashboardPage.tsx, onSubmitRule, onToggle, onDelete).                  *)
THEOREM DashboardRulesCurrent == Spec => []RulesCurrent
<1>1. IInv => RulesCurrent
  <2>1. SUFFICES ASSUME IInv, Showing("rules"), ~crossed, ~doubtful, repo = connected, AboutRules(inFlight) = {}
                 PROVE  shown["rules"].rules = rules
    BY DEF RulesCurrent
  <2>2. \A q \in inFlight: ~Ruling(q)
    BY <2>1 DEF AboutRules, Ruling
  <2> QED
    BY <2>1, <2>2 DEF IInv, RulesInv, Ordered, CurrentRules
<1> QED
  BY <1>1, InitInv, StepInv, PTL DEF Spec

==============================================================================
