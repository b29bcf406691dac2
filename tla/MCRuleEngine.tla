---------------------------- MODULE MCRuleEngine ----------------------------
(* One rule that is saved, changed and deleted around two runs of an event.  *)
EXTENDS RuleEngine

Plain(w) == Text(w, FALSE, FALSE)
Odd(w) == Text(w, TRUE, TRUE)
BlankText == Text(Blank, TRUE, FALSE)

NoConditions ==
    [name |-> Plain("w1"), enabled |-> TRUE, wellFormed |-> TRUE, eventType |-> "issues",
     keyword |-> NoText, author |-> NoText, labels |-> <<>>,
     actionType |-> "github_label", config |-> [text |-> Plain("w1"), useAI |-> FALSE, appendAI |-> FALSE]]

(* Conditions one at a time, and together.                                 *)
SomeTexts == {BlankText, Odd("w1"), Plain("w2")}
ConditionInputs ==
    {[NoConditions EXCEPT !.keyword = t]: t \in SomeTexts}
    \cup {[NoConditions EXCEPT !.author = t]: t \in SomeTexts}
    \cup {[NoConditions EXCEPT !.labels = ls]:
            ls \in {<<BlankText>>, <<Plain("w1"), Odd("w1")>>, <<Plain("w1"), BlankText, Odd("w2")>>}}
    \cup {[NoConditions EXCEPT !.keyword = Odd("w1"), !.author = Plain("w2"), !.labels = <<Plain("w1")>>],
          [NoConditions EXCEPT !.eventType = "pull_request"], [NoConditions EXCEPT !.enabled = FALSE]}

ConfigInputs ==
    {[NoConditions EXCEPT !.actionType = t, !.config = [text |-> x, useAI |-> u, appendAI |-> a]]:
       t \in ActionTypes, x \in {BlankText, Odd("w2")}, u \in BOOLEAN, a \in BOOLEAN}

(* The message of Slack under another name.                                *)
Slack == [NoConditions EXCEPT !.actionType = "slack_notification", !.config.text = Odd("w2")]
Renamed == [Slack EXCEPT !.name = Odd("w2")]

MCInputs == ConditionInputs \cup ConfigInputs \cup {Renamed, [Slack EXCEPT !.enabled = FALSE]}
    \cup {[NoConditions EXCEPT !.name = BlankText], [NoConditions EXCEPT !.wellFormed = FALSE]}

Full == [item |-> "given", type |-> "issues", number |-> 1,
         words |-> {Text("w1", FALSE, TRUE)}, author |-> Plain("w1"), labels |-> {Plain("w1"), BlankText}]
MCPayloads ==
    {Full, [Full EXCEPT !.words = {Text("w2", FALSE, TRUE)}, !.author = Odd("w2"), !.labels = {Odd("w1"), Plain("w2")}],
     [Full EXCEPT !.words = {Plain("w1")}, !.author = Plain("w2")],
     [Full EXCEPT !.type = "pull_request"], [Full EXCEPT !.number = 0],
     [item |-> "missing", type |-> "issues", number |-> 0, words |-> {}, author |-> EmptyText, labels |-> {}],
     [item |-> "malformed", type |-> "issues", number |-> 0, words |-> {}, author |-> EmptyText, labels |-> {}]}

MCOutputs ==
    {[summary |-> Odd("ai"), labels |-> <<>>], [summary |-> BlankText, labels |-> <<Plain("bug")>>],
     [summary |-> Odd("ai"), labels |-> <<Odd("ai"), Odd("bug")>>]}
=============================================================================
