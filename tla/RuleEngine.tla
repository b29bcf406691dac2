------------------------------ MODULE RuleEngine ------------------------------
(* The life of a rule: what a user writes is validated and stored, matched    *)
(* against an event, turned into an action that keeps what the rule said,     *)
(* and sent to GitHub or Slack, with or without the help of the AI provider;  *)
(* the response decides whether the action is done, retried or failed.  Rules *)
(* change between the runs of the event; one worker runs it.                  *)
EXTENDS Integers, Sequences, FiniteSetsExt, Functions

CONSTANTS
    RuleIds,
    Words,          \* the words texts are made of
    AllowedLabels,  \* ai.allowedLabels, among the words
    Inputs,         \* what users may send as a rule
    Payloads,       \* what webhooks may carry
    Outputs,        \* what the AI provider may answer
    MaxAttempts,    \* actions.max_attempts
    MaxSaves,       \* bound on the rules saved, changed or deleted
    MaxRuns         \* bound on the runs of the event

ASSUME BoundsAssumption == MaxAttempts \in Nat \ {0} /\ MaxSaves \in Nat /\ MaxRuns \in Nat

------------------------------------------------------------------------------
(* Texts: a word, or none, with or without space around it, in lower case   *)
(* or not.  NoText is a field that was not given.                           *)
Blank == "blank"
Text(word, padded, upper) == [word |-> word, padded |-> padded, upper |-> upper]
NoText == Text("none", FALSE, FALSE)
EmptyText == Text(Blank, FALSE, FALSE)
Unnamed == Text("unnamed", FALSE, FALSE)
Texts == [word: Words, padded: BOOLEAN, upper: BOOLEAN]
         \cup {EmptyText, Text(Blank, TRUE, FALSE)}

(* What a rule, a payload or an answer of the AI provider may hold; only     *)
(* texts of an issue have no space around them.                             *)
Fields == Texts \cup {NoText}
RawConfigs == [text: Fields, useAI: BOOLEAN, appendAI: BOOLEAN]

ASSUME WordsAssumption == AllowedLabels \subseteq Words /\ {Blank, "none", "unnamed"} \cap Words = {}
ASSUME InputsAssumption ==
    Inputs \subseteq [name: Fields, enabled: BOOLEAN, wellFormed: BOOLEAN, eventType: STRING,
                      keyword: Fields, author: Fields, labels: Seq(Texts),
                      actionType: STRING, config: RawConfigs]
ASSUME PayloadsAssumption ==
    /\ Payloads \subseteq [item: {"given", "missing", "malformed"}, type: STRING, number: Int,
                           words: SUBSET {t \in Texts: ~t.padded}, author: Texts, labels: SUBSET Texts]
    /\ \A p \in Payloads: p.item = "missing" => p.words = {} /\ p.author = EmptyText /\ p.labels = {}
ASSUME OutputsAssumption == Outputs \subseteq [summary: Fields, labels: Seq(Texts)]

TrimSpace(t) == Text(t.word, FALSE, t.upper)
\* Fault variant: cases are told apart.
AsIs(t) == t
ToLower(t) == Text(t.word, t.padded, FALSE)
Folded(t) == ToLower(TrimSpace(t))

(* A field without a value is the empty text to what reads it.             *)
Given(t) == IF t = NoText THEN EmptyText ELSE t
HasText(t) == TrimSpace(Given(t)) # EmptyText

------------------------------------------------------------------------------
(* ValidateNormalize                                                       *)

EventTypes == {"issues", "pull_request"}
ActionTypes == {"github_label", "github_comment", "slack_notification"}

(* normalizeActionConfig: what each type keeps, and what it cannot do      *)
(* without.                                                                *)
KeepsUseAI(type) == type # "slack_notification"
KeepsAppendAI(type) == type # "github_label"

Config(type, c) ==
    [text |-> TrimSpace(Given(c.text)),
     useAI |-> c.useAI /\ KeepsUseAI(type),
     appendAI |-> c.appendAI /\ KeepsAppendAI(type)]

\* Fault variant: either AI option makes up for the text, whatever the type.
AnyConfigSuffices(type, c) == HasText(c.text) \/ c.useAI \/ c.appendAI
ConfigSuffices(type, c) ==
    \/ HasText(c.text)
    \/ type = "github_label" /\ c.useAI
    \/ type = "github_comment" /\ (c.useAI \/ c.appendAI)

Valid(in) ==
    /\ HasText(in.name) /\ in.eventType \in EventTypes /\ in.actionType \in ActionTypes
    /\ in.wellFormed /\ ConfigSuffices(in.actionType, in.config)

Condition(t) == IF HasText(t) THEN TrimSpace(t) ELSE NoText

(* The labels without blanks, and the first of those that differ in case.  *)
RequiredLabels(ls) ==
    {TrimSpace(ls[i]): i \in {j \in DOMAIN ls: HasText(ls[j])
                                /\ \A k \in 1..(j - 1): Folded(ls[k]) # Folded(ls[j])}}

Normalized(in) ==
    [name |-> TrimSpace(in.name), enabled |-> in.enabled, eventType |-> in.eventType,
     keyword |-> Condition(in.keyword), author |-> Condition(in.author),
     labels |-> RequiredLabels(in.labels),
     actionType |-> in.actionType, config |-> Config(in.actionType, in.config)]

------------------------------------------------------------------------------
(* ExtractEventContext: the issue or pull request of a payload; "words" is *)
(* what its title and body contain.                                        *)
Context(p) ==
    IF p.item = "missing"
    THEN [type |-> p.type, number |-> 0, words |-> {}, author |-> EmptyText, labels |-> {}]
    ELSE [type |-> p.type, number |-> p.number, words |-> p.words, author |-> p.author,
          labels |-> {TrimSpace(l): l \in {m \in p.labels: HasText(m)}}]

(* Match                                                                   *)
Match(rule, ev) ==
    /\ rule.enabled
    /\ rule.eventType = ev.type
    /\ HasText(rule.keyword) => Folded(rule.keyword) \in {ToLower(w): w \in ev.words}
    /\ HasText(rule.author) => Folded(rule.author) = Folded(ev.author)
    /\ {Folded(l): l \in rule.labels} \subseteq {Folded(l): l \in ev.labels}

------------------------------------------------------------------------------
(* ValidateSuggestion.  Of its labels only the first is ever used: label is  *)
(* that, or the empty text.                                                 *)
NoSuggestion == [summary |-> EmptyText, label |-> EmptyText]

\* Fault variant: the labels of the model are taken as they come.
AnyLabel(l) == TRUE
Allowed(l) == l.word \in AllowedLabels

FirstLabel(ls) ==
    LET usable == {i \in DOMAIN ls: Allowed(Folded(ls[i]))}
    IN  IF usable = {} THEN EmptyText ELSE Folded(ls[Min(usable)])

ValidateSuggestion(s) ==
    IF ~HasText(s.summary) THEN NoSuggestion
    ELSE [summary |-> TrimSpace(s.summary), label |-> FirstLabel(s.labels)]

(* What execGitHubLabel, execGitHubComment and execSlack send: a text, what  *)
(* is appended to it, and, in Slack, the name of the rule.                  *)
Content(type, c, s, name) ==
    LET summary == IF s.summary = EmptyText THEN NoText ELSE s.summary
    IN  IF type = "github_label" THEN
            [text |-> IF c.useAI /\ s.label # EmptyText THEN s.label ELSE c.text,
             appended |-> NoText, rule |-> NoText]
        ELSE IF type = "github_comment" /\ c.text = EmptyText /\ (c.useAI \/ c.appendAI) THEN
            [text |-> Given(summary), appended |-> NoText, rule |-> NoText]
        ELSE [text |-> c.text, appended |-> IF c.appendAI THEN summary ELSE NoText,
              rule |-> IF type = "slack_notification" THEN name ELSE NoText]

------------------------------------------------------------------------------
(* What an attempt comes to: a refusal before the call, or the response.    *)
Refusals == {"no number", "bad config", "no token", "not configured"}
Responses == {"ok", "network", "3xx", "401", "403", "403 limited", "404", "409", "422", "4xx", "429", "5xx"}

Outcomes(type, content, number) ==
    IF type # "slack_notification" /\ number <= 0 THEN {"no number"}
    ELSE IF content.text = EmptyText THEN {"bad config"}
    ELSE Responses \cup {IF type = "slack_notification" THEN "not configured" ELSE "no token"}

(* doJSON and SendText: the responses that come as a permanent error.  The   *)
(* client of GitHub knows "403 limited" by its header; a status below 400 is *)
(* no class of its own there, and no permanent one.                          *)
DoJSON == Responses \ {"ok", "network", "429", "5xx", "403 limited", "3xx"}
SendText == Responses \ {"ok", "network", "429", "5xx"}
PermanentResponses(type) == IF type = "slack_notification" THEN SendText ELSE DoJSON

\* Fault variant: ErrNotFound is not among the permanent errors.
IsPermanentIfKnown(type, outcome) ==
    outcome \in Refusals \cup (PermanentResponses(type) \ {"404"})
IsPermanent(type, outcome) == outcome \in Refusals \cup PermanentResponses(type)

------------------------------------------------------------------------------
VARIABLES
    rules,    \* the rows of rules
    written,  \* history: what the user last sent for a rule that was stored
    payload,  \* the payload of the event
    actions,  \* the rows of actions, by rule and type; "origin" and "birth" are histories: the
              \* config that was written at its creation, and the name, with the run
    run,      \* the worker: the actions it has still to run, the suggestion and the rules' names;
              \* "meant" is a history: the names written for the rules that wanted the event
    last,     \* history: the last attempt, if there was one
    saves,    \* how often rules were saved or deleted
    runs      \* how often the event was run
vars == <<rules, written, payload, actions, run, last, saves, runs>>

Idle == [busy |-> FALSE, todo |-> {}, suggestion |-> NoSuggestion, names |-> <<>>, meant |-> <<>>]
With(f, x, v) == [y \in DOMAIN f \cup {x} |-> IF y = x THEN v ELSE f[y]]
Without(f, x) == Restrict(f, DOMAIN f \ {x})

Init ==
    /\ rules = <<>> /\ written = <<>> /\ actions = <<>> /\ last = {}
    /\ payload \in Payloads
    /\ run = Idle
    /\ saves = 0 /\ runs = 0

(* Create and Update; what is not valid is answered 400 and changes nothing. *)
Save(r, in) ==
    /\ saves < MaxSaves /\ saves' = saves + 1
    /\ r \in DOMAIN written => r \in DOMAIN rules
    /\ Valid(in)
    /\ rules' = With(rules, r, Normalized(in))
    /\ written' = With(written, r, in)
    /\ UNCHANGED <<payload, actions, run, last, runs>>

(* Delete; the actions of a rule outlive it.                               *)
Delete(r) ==
    /\ saves < MaxSaves /\ saves' = saves + 1
    /\ r \in DOMAIN rules
    /\ rules' = Without(rules, r)
    /\ UNCHANGED <<written, payload, actions, run, last, runs>>

------------------------------------------------------------------------------
(* What a user meant by a rule, in terms of what he wrote: every condition   *)
(* that is not blank holds of the issue, whatever its case and its spaces.   *)
Wanted(in, p) ==
    LET Means(cond, found) == cond.word \in Words => \E f \in found: f.word = cond.word
    IN  /\ in.enabled /\ in.eventType = p.type
        /\ Means(in.keyword, p.words)
        /\ Means(in.author, {p.author})
        /\ \A i \in DOMAIN in.labels: Means(in.labels[i], p.labels)

Matching == {r \in DOMAIN rules: Match(rules[r], Context(payload))}

NewAction(r) ==
    [config |-> rules[r].config, status |-> "pending", attempts |-> 0,
     origin |-> written[r].config, birth |-> [run |-> runs + 1, name |-> written[r].name]]

\* Fault variant: the row that is there takes what the rule says now.
Overwritten(created) ==
    [k \in DOMAIN actions \cup DOMAIN created |->
        IF k \notin DOMAIN actions THEN created[k]
        ELSE IF k \notin DOMAIN created THEN actions[k]
        ELSE [actions[k] EXCEPT !.config = created[k].config]]
(* CreateOrGet for every intent: a row that is there stays as it is.       *)
Persisted(created) ==
    [k \in DOMAIN actions \cup DOMAIN created |->
        IF k \in DOMAIN actions THEN actions[k] ELSE created[k]]

NeedsAI(list) == \E k \in DOMAIN list: list[k].config.useAI \/ list[k].config.appendAI

(* fetchSuggestion: what the provider answers, or nothing: AI switched off,  *)
(* no answer, or no JSON in it.                                              *)
Suggested(list) ==
    {NoSuggestion} \cup (IF NeedsAI(list) THEN {ValidateSuggestion(o): o \in Outputs} ELSE {})

(* Process and EnsureAndExecute up to the loop over the actions.  A payload  *)
(* that cannot be read fails the event.                                      *)
Evaluate ==
    /\ ~run.busy /\ runs < MaxRuns /\ runs' = runs + 1
    /\ payload.item # "malformed"
    /\ LET created == [k \in {<<r, rules[r].actionType>>: r \in Matching} |-> NewAction(k[1])]
           list == Persisted(created)
       IN  /\ actions' = list
           /\ \E s \in Suggested(list):
                run' = [busy |-> TRUE, todo |-> {k \in DOMAIN list: list[k].status = "pending"},
                        suggestion |-> s,
                        names |-> [r \in Matching |-> rules[r].name],
                        meant |-> [r \in {q \in DOMAIN rules: Wanted(written[q], payload)} |-> written[r].name]]
    /\ UNCHANGED <<rules, written, payload, last, saves>>

(* The name of an action's rule: none if the rule did not match when the run *)
(* began, or is deleted when the action is claimed (ON DELETE SET NULL).     *)
RuleName(r) == IF r \in DOMAIN rules \cap DOMAIN run.names THEN run.names[r] ELSE Unnamed

\* Fault variant: one attempt too many.
ExhaustedLate(a) == a.attempts >= MaxAttempts
Exhausted(a) == a.attempts + 1 >= MaxAttempts

After(type, a, outcome) ==
    IF outcome = "ok" THEN [a EXCEPT !.status = "completed"]
    ELSE IF IsPermanent(type, outcome) THEN [a EXCEPT !.status = "failed", !.attempts = @ + 1]
    ELSE [a EXCEPT !.status = IF Exhausted(a) THEN "failed" ELSE "pending", !.attempts = @ + 1]

(* An attempt at an action, and the record of what came of it.             *)
Execute(k) ==
    /\ run.busy /\ k \in run.todo
    /\ LET type == k[2]
           a == actions[k]
           content == Content(type, a.config, run.suggestion, RuleName(k[1]))
       IN  \E outcome \in Outcomes(type, content, Context(payload).number):
             /\ actions' = [actions EXCEPT ![k] = After(type, a, outcome)]
             /\ last' = {[type |-> type, origin |-> a.origin, suggestion |-> run.suggestion,
                          content |-> content, outcome |-> outcome,
                          attempt |-> a.attempts + 1, status |-> After(type, a, outcome).status,
                          naming |-> [stored |-> k[1] \in DOMAIN rules,
                                      meant |-> {run.meant[r]: r \in {k[1]} \cap DOMAIN run.meant},
                                      birth |-> a.birth, run |-> runs]]}
    /\ run' = [run EXCEPT !.todo = @ \ {k}]
    /\ UNCHANGED <<rules, written, payload, saves, runs>>

(* The run ends: nothing is left, the rest waits for its backoff, or a      *)
(* statement failed.                                                        *)
EndRun ==
    /\ run.busy
    /\ run' = Idle
    /\ UNCHANGED <<rules, written, payload, actions, last, saves, runs>>

Next ==
    \/ \E r \in RuleIds: Delete(r) \/ \E in \in Inputs: Save(r, in)
    \/ Evaluate
    \/ \E k \in run.todo: Execute(k)
    \/ EndRun
Spec == Init /\ [][Next]_vars

------------------------------------------------------------------------------
Configs == [text: Texts, useAI: BOOLEAN, appendAI: BOOLEAN]

(* Types; an action that is still to be tried has attempts left, and no     *)
(* stored config is short of the text its type cannot do without.           *)
TypeOK ==
    /\ \A r \in DOMAIN rules:
         /\ r \in DOMAIN written /\ rules[r].config \in Configs
         /\ ConfigSuffices(rules[r].actionType, rules[r].config)
    /\ \A k \in DOMAIN actions:
         /\ k \in RuleIds \X ActionTypes /\ actions[k].config \in Configs
         /\ actions[k].status \in {"pending", "completed", "failed"}
         /\ actions[k].attempts \in 0..MaxAttempts
         /\ actions[k].status = "pending" => actions[k].attempts < MaxAttempts
    /\ run.todo \subseteq {k \in DOMAIN actions: actions[k].status = "pending"}
    /\ saves \in 0..MaxSaves /\ runs \in 0..MaxRuns

(* A stored rule matches the event exactly if the input it was made from    *)
(* meant it to: normalisation, storage, extraction and Match agree on blank  *)
(* conditions, repeated labels, case and space.                              *)
MatchesAsWritten ==
    payload.item # "malformed" =>
        \A r \in DOMAIN rules: r \in Matching <=> Wanted(written[r], payload)

(* The name that Slack shows is the rule's when the run began, if it wanted  *)
(* the event then and is not deleted by the time of the call; else Slack is  *)
(* told of no rule.  In the run that created the action the name and the     *)
(* message are of one save of the rule.                                      *)
NamesRightly(c) ==
    LET name == c.content.rule
    IN  /\ ~c.naming.stored \/ c.naming.meant = {} => name = Unnamed
        /\ c.naming.stored => \A n \in c.naming.meant: name.word = n.word
        /\ c.naming.stored /\ c.naming.birth.run = c.naming.run => name.word = c.naming.birth.name.word

SaysAsWritten(c) ==
    LET own == c.origin.text.word \in Words
        verbatim == c.content.text.word = c.origin.text.word
        summary == c.suggestion.summary
    IN  /\ c.content.text.word \in Words
        /\ c.content.appended # NoText =>
             c.origin.appendAI /\ own /\ c.type # "github_label" /\ c.content.appended = summary
        /\ \/ own /\ verbatim
           \/ c.type = "github_label" /\ c.origin.useAI /\ c.content.text.word \in AllowedLabels
           \/ /\ c.type = "github_comment" /\ ~own /\ c.content.text = summary
              /\ c.origin.useAI \/ c.origin.appendAI

(* The text of a call is what the rule said when its action was created,     *)
(* however the rule was changed or deleted since and whatever retry it is.   *)
(* Text of the AI provider is in it only where the rule asked for it, takes  *)
(* no written comment's place, and is never a label outside the allow-list.  *)
(* Only the rule's name that Slack shows may be newer, or missing, in a run  *)
(* later than the one that created the action (executor.go:113, :149).       *)
SentAsFirstWritten ==
    \A c \in last: c.outcome \in Responses =>
        SaysAsWritten(c) /\ (c.type = "slack_notification" => NamesRightly(c))

(* ADR-008: network errors, 429 and 5xx are retried while attempts are left; *)
(* 401, 403, 404, 422 and a bad config fail the action at once.  A config is *)
(* bad only if the rule left the text to the AI and none came: what Validate *)
(* let in, the executor can run.                                             *)
FailsRightly(c) ==
    /\ c.outcome \in {"network", "429", "5xx"} =>
         c.status = IF c.attempt < MaxAttempts THEN "pending" ELSE "failed"
    /\ c.outcome \in {"401", "403", "404", "422"} \cup Refusals => c.status = "failed"
    /\ c.outcome = "bad config" =>
         /\ c.origin.text.word \notin Words
         /\ c.origin.useAI \/ c.origin.appendAI
         /\ c.suggestion.summary = EmptyText \/ c.suggestion.label = EmptyText

FailsAsDocumented == \A c \in last: FailsRightly(c)
===============================================================================
