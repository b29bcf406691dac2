-------------------------- MODULE RuleEngineProofs --------------------------
(* What RuleEngine promises for any texts, rules, payloads, answers of the   *)
(* AI provider and numbers of attempts.                                      *)
EXTENDS RuleEngine, WellFoundedInduction, TLAPS

------------------------------------------------------------------------------
(* Texts                                                                    *)

(* A set of positions has a first one.                                      *)
LEMMA LeastElement ==
    ASSUME NEW T, T \subseteq Nat, T # {}
    PROVE  \E x \in T: \A y \in T: x <= y
<1>1. \E x \in T: \A y \in T: ~(<<y, x>> \in OpToRel(<, Nat))
  BY NatLessThanWellFounded, WFMin
<1>2. ASSUME NEW x \in T, NEW y \in T, ~(<<y, x>> \in OpToRel(<, Nat))
      PROVE  x <= y
  BY <1>2 DEF OpToRel
<1> QED
  BY <1>1, <1>2

(* The fields of a text, and what folding leaves of it.                      *)
LEMMA TextShape ==
    ASSUME NEW t \in Fields
    PROVE  /\ t = Text(t.word, t.padded, t.upper)
           /\ t.padded \in BOOLEAN /\ t.upper \in BOOLEAN
           /\ \/ t.word \in Words
              \/ t.word = Blank /\ ~t.upper
              \/ t = NoText
<1>1. CASE t \in [word: Words, padded: BOOLEAN, upper: BOOLEAN]
  BY <1>1 DEF Text
<1>2. CASE t = EmptyText
  BY <1>2 DEF EmptyText, Text
<1>3. CASE t = Text(Blank, TRUE, FALSE)
  BY <1>3 DEF Text
<1>4. CASE t = NoText
  BY <1>4 DEF NoText, Text
<1> QED
  BY <1>1, <1>2, <1>3, <1>4 DEF Fields, Texts

LEMMA Folding ==
    ASSUME NEW t
    PROVE  /\ TrimSpace(t).word = t.word
           /\ Folded(t) = Text(t.word, FALSE, FALSE)
<1> QED
  BY DEF TrimSpace, ToLower, Folded, Text

(* A field has text exactly if there is a word in it.                        *)
LEMMA TextIsWord ==
    ASSUME NEW t \in Fields
    PROVE  /\ HasText(t) <=> t.word \in Words
           /\ HasText(t) => Given(t) = t /\ TrimSpace(Given(t)).word = t.word
           /\ ~HasText(t) => TrimSpace(Given(t)) = EmptyText
           /\ TrimSpace(Given(t)) \in Texts
<1>1. Given(t) \in Texts /\ Given(t) \in Fields
  BY DEF Given, Fields, Texts, EmptyText
<1>2. TrimSpace(Given(t)) = Text(Given(t).word, FALSE, Given(t).upper)
  BY DEF TrimSpace
<1>3. CASE t = NoText
  BY <1>2, <1>3, WordsAssumption DEF Given, HasText, NoText, EmptyText, Text, Texts, Blank
<1>4. CASE t # NoText
  <2>1. Given(t) = t
    BY <1>4 DEF Given
  <2>2. CASE t.word \in Words
    <3>1. TrimSpace(t) # EmptyText
      BY <1>2, <2>1, <2>2, WordsAssumption DEF EmptyText, Text, Blank
    <3>2. TrimSpace(t) \in Texts
      <4>1. t.upper \in BOOLEAN
        BY TextShape
      <4>2. Text(t.word, FALSE, t.upper) \in [word: Words, padded: BOOLEAN, upper: BOOLEAN]
        BY <2>2, <4>1 DEF Text
      <4> QED
        BY <1>2, <2>1, <4>2 DEF Texts
    <3> QED
      BY <1>2, <2>1, <2>2, <3>1, <3>2, Folding DEF HasText
  <2>3. CASE t.word = Blank /\ ~t.upper
    <3>1. TrimSpace(t) = EmptyText
      BY <1>2, <2>1, <2>3, TextShape DEF EmptyText, Text
    <3> QED
      BY <2>1, <2>3, <3>1, WordsAssumption DEF HasText, Texts
  <2> QED
    BY <1>4, <2>2, <2>3, TextShape
<1> QED
  BY <1>3, <1>4

------------------------------------------------------------------------------
(* Matching                                                                 *)

(* Two texts that fold to the same have the same word.                       *)
LEMMA SameFolded ==
    ASSUME NEW t, NEW u
    PROVE  Folded(t) = Folded(u) <=> t.word = u.word
<1>1. \A x, y: Text(x, FALSE, FALSE) = Text(y, FALSE, FALSE) => x = y
  BY DEF Text
<1> QED
  BY <1>1, Folding

(* A condition on a field means what it says, whatever its case and space.   *)
LEMMA ConditionKept ==
    ASSUME NEW t \in Fields
    PROVE  /\ HasText(Condition(t)) <=> t.word \in Words
           /\ HasText(t) => Condition(t).word = t.word
<1>1. CASE HasText(t)
  <2>1. Condition(t) = TrimSpace(Given(t)) /\ Condition(t) # EmptyText
    BY <1>1, TextIsWord DEF Condition, HasText
  <2>2. Condition(t) \in Fields /\ Condition(t).word = t.word
    BY <1>1, <2>1, TextIsWord DEF Fields
  <2> QED
    BY <1>1, <2>2, TextIsWord
<1>2. CASE ~HasText(t)
  <2>1. Condition(t) = NoText /\ NoText \in Fields /\ NoText.word \notin Words
    BY <1>2, WordsAssumption DEF Condition, Fields, NoText, Text
  <2> QED
    BY <1>2, <2>1, TextIsWord
<1> QED
  BY <1>1, <1>2

(* Every label that is not blank is among the required ones, but for case    *)
(* and space, and nothing else is.                                           *)
LEMMA RequiredLabelsSound ==
    ASSUME NEW ls \in Seq(Texts)
    PROVE  {Folded(l): l \in RequiredLabels(ls)}
           = {Folded(ls[i]): i \in {j \in DOMAIN ls: ls[j].word \in Words}}
<1> DEFINE First(j) == HasText(ls[j]) /\ \A k \in 1..(j - 1): Folded(ls[k]) # Folded(ls[j])
           firsts == {j \in DOMAIN ls: First(j)}
           Same(i) == {k \in 1..Len(ls): Folded(ls[k]) = Folded(ls[i])}
<1>1. DOMAIN ls = 1..Len(ls) /\ Len(ls) \in Nat /\ \A i \in 1..Len(ls): ls[i] \in Fields
  BY DEF Fields
<1>2. RequiredLabels(ls) = {TrimSpace(ls[i]): i \in firsts}
  BY DEF RequiredLabels
<1>3. \A t: Folded(TrimSpace(t)) = Folded(t)
  BY Folding
<1>4. ASSUME NEW i \in 1..Len(ls), ls[i].word \in Words
      PROVE  \E j \in firsts: Folded(ls[j]) = Folded(ls[i])
  <2>1. Same(i) \subseteq Nat /\ i \in Same(i)
    BY <1>1
  <2>2. PICK j \in Same(i): \A k \in Same(i): j <= k
    BY <2>1, LeastElement
  <2>3. ASSUME NEW k \in 1..(j - 1)
        PROVE  Folded(ls[k]) # Folded(ls[j])
    <3>1. k \in 1..Len(ls) /\ ~(j <= k)
      BY <1>1
    <3> QED
      BY <2>2, <3>1
  <2>4. HasText(ls[j])
    BY <1>1, <1>4, SameFolded, TextIsWord
  <2> QED
    BY <1>1, <2>3, <2>4
<1>5. ASSUME NEW i \in firsts
      PROVE  ls[i].word \in Words
  BY <1>1, TextIsWord
<1> HIDE DEF firsts, Same
<1>6. firsts \subseteq DOMAIN ls
  BY DEF firsts
<1>7. {Folded(l): l \in RequiredLabels(ls)} = {Folded(ls[i]): i \in firsts}
  BY <1>2, <1>3
<1> QED
  BY <1>1, <1>4, <1>5, <1>6, <1>7

(* A stored rule matches a payload exactly if its input meant it to.         *)
LEMMA MatchIsWanted ==
    ASSUME NEW in \in Inputs, Valid(in), NEW p \in Payloads, p.item # "malformed"
    PROVE  Match(Normalized(in), Context(p)) <=> Wanted(in, p)
<1> DEFINE rule == Normalized(in)
           ev == Context(p)
<1>1. /\ in.enabled \in BOOLEAN /\ in.keyword \in Fields /\ in.author \in Fields
      /\ in.labels \in Seq(Texts)
  BY InputsAssumption
<1>2. /\ rule.enabled = in.enabled /\ rule.eventType = in.eventType
      /\ rule.keyword = Condition(in.keyword) /\ rule.author = Condition(in.author)
      /\ rule.labels = RequiredLabels(in.labels)
  BY DEF Normalized
<1>3. /\ p.words \subseteq {t \in Texts: ~t.padded} /\ p.author \in Texts /\ p.labels \subseteq Texts
      /\ p.item = "missing" => p.words = {} /\ p.author = EmptyText /\ p.labels = {}
  BY PayloadsAssumption
<1>4. /\ ev.type = p.type /\ ev.words = p.words /\ ev.author = p.author
      /\ ev.labels = {TrimSpace(l): l \in {m \in p.labels: HasText(m)}}
  <2>1. CASE p.item = "missing"
    BY <1>3, <2>1 DEF Context
  <2>2. CASE p.item # "missing"
    BY <2>2 DEF Context
  <2> QED
    BY <2>1, <2>2
<1>5. (HasText(rule.keyword) => Folded(rule.keyword) \in {ToLower(w): w \in ev.words})
      <=> (in.keyword.word \in Words => \E f \in p.words: f.word = in.keyword.word)
  <2>1. ASSUME NEW w \in p.words
        PROVE  ToLower(w) = Text(w.word, FALSE, FALSE)
    BY <1>3, TextShape DEF ToLower, Fields
  <2>2. ASSUME HasText(in.keyword)
        PROVE  Folded(rule.keyword) = Text(in.keyword.word, FALSE, FALSE)
    BY <1>1, <1>2, <2>2, ConditionKept, Folding
  <2>3. \A w \in p.words: Text(w.word, FALSE, FALSE) = Text(in.keyword.word, FALSE, FALSE)
                          <=> w.word = in.keyword.word
    BY DEF Text
  <2>4. HasText(rule.keyword) <=> in.keyword.word \in Words
    BY <1>1, <1>2, ConditionKept
  <2>5. HasText(in.keyword) <=> in.keyword.word \in Words
    BY <1>1, TextIsWord
  <2> HIDE DEF rule, ev
  <2> QED
    BY <1>4, <2>1, <2>2, <2>3, <2>4, <2>5
<1>6. (HasText(rule.author) => Folded(rule.author) = Folded(ev.author))
      <=> (in.author.word \in Words => p.author.word = in.author.word)
  BY <1>1, <1>2, <1>4, ConditionKept, TextIsWord, SameFolded
<1>7. ({Folded(l): l \in rule.labels} \subseteq {Folded(l): l \in ev.labels})
      <=> (\A i \in DOMAIN in.labels:
             in.labels[i].word \in Words => \E f \in p.labels: f.word = in.labels[i].word)
  <2> DEFINE wanted == {i \in DOMAIN in.labels: in.labels[i].word \in Words}
             found == {f \in p.labels: f.word \in Words}
  <2>1. {Folded(l): l \in rule.labels} = {Folded(in.labels[i]): i \in wanted}
    BY <1>1, <1>2, RequiredLabelsSound
  <2>2. {Folded(l): l \in ev.labels} = {Folded(f): f \in found}
    <3>1. \A t: Folded(TrimSpace(t)) = Folded(t)
      BY Folding
    <3>2. {m \in p.labels: HasText(m)} = found
      BY <1>3, TextIsWord DEF Fields
    <3> HIDE DEF found
    <3> QED
      BY <1>4, <3>1, <3>2
  <2>3. (\A i \in wanted: \E f \in found: Folded(f) = Folded(in.labels[i]))
        <=> (\A i \in wanted: \E f \in found: f.word = in.labels[i].word)
    BY SameFolded
  <2>4. (\A i \in wanted: \E f \in found: f.word = in.labels[i].word)
        <=> (\A i \in DOMAIN in.labels:
               in.labels[i].word \in Words => \E f \in p.labels: f.word = in.labels[i].word)
    OBVIOUS
  <2> HIDE DEF wanted, found, rule, ev
  <2>5. ({Folded(l): l \in rule.labels} \subseteq {Folded(l): l \in ev.labels})
        <=> (\A i \in wanted: \E f \in found: Folded(f) = Folded(in.labels[i]))
    BY <2>1, <2>2
  <2> QED
    BY <2>3, <2>4, <2>5
<1> HIDE DEF rule, ev
<1>8. Match(rule, ev) <=> Wanted(in, p)
  BY <1>2, <1>4, <1>5, <1>6, <1>7 DEF Match, Wanted
<1> QED
  BY <1>8 DEF rule, ev

------------------------------------------------------------------------------
(* Attempts                                                                 *)

Suggestions == {NoSuggestion} \cup {ValidateSuggestion(o): o \in Outputs}

(* What comes of the AI provider is a text, or nothing; and a label of the   *)
(* allow-list, or none.                                                      *)
LEMMA SuggestionShape ==
    ASSUME NEW s \in Suggestions
    PROVE  /\ s.summary = EmptyText \/ s.summary.word \in Words
           /\ s.label = EmptyText \/ s.label.word \in AllowedLabels
<1>1. CASE s = NoSuggestion
  BY <1>1 DEF NoSuggestion
<1>2. ASSUME NEW o \in Outputs, s = ValidateSuggestion(o), HasText(o.summary)
      PROVE  /\ s.summary = EmptyText \/ s.summary.word \in Words
             /\ s.label = EmptyText \/ s.label.word \in AllowedLabels
  <2>1. o.summary \in Fields /\ o.labels \in Seq(Texts)
    BY OutputsAssumption
  <2>2. s.summary = TrimSpace(o.summary) /\ s.label = FirstLabel(o.labels)
    BY <1>2 DEF ValidateSuggestion
  <2>3. s.summary.word \in Words
    BY <1>2, <2>1, <2>2, TextIsWord, Folding
  <2> DEFINE usable == {i \in DOMAIN o.labels: Allowed(Folded(o.labels[i]))}
  <2>4. CASE usable # {}
    <3>1. usable \subseteq Nat
      BY <2>1
    <3> HIDE DEF usable
    <3>2. Min(usable) \in usable
      BY <2>4, <3>1, LeastElement DEF Min
    <3>3. Allowed(Folded(o.labels[Min(usable)]))
      BY <3>2 DEF usable
    <3>4. s.label = Folded(o.labels[Min(usable)])
      BY <2>2, <2>4 DEF FirstLabel, usable
    <3> QED
      BY <2>3, <3>3, <3>4 DEF Allowed
  <2>5. CASE usable = {}
    BY <2>2, <2>3, <2>5 DEF FirstLabel
  <2> QED
    BY <2>4, <2>5
<1>3. ASSUME NEW o \in Outputs, s = ValidateSuggestion(o), ~HasText(o.summary)
      PROVE  s = NoSuggestion
  BY <1>3 DEF ValidateSuggestion
<1> QED
  BY <1>1, <1>2, <1>3 DEF Suggestions

LEMMA ConfigShape ==
    ASSUME NEW type, NEW c \in RawConfigs
    PROVE  /\ Config(type, c) \in [text: Texts, useAI: BOOLEAN, appendAI: BOOLEAN]
           /\ c.text.word \in Words => Config(type, c).text.word = c.text.word
           /\ c.text.word \notin Words => Config(type, c).text = EmptyText
<1>1. c.text \in Fields /\ c.useAI \in BOOLEAN /\ c.appendAI \in BOOLEAN
  BY DEF RawConfigs
<1>2. TrimSpace(Given(c.text)) \in Texts
  BY <1>1, TextIsWord
<1> QED
  BY <1>1, <1>2, TextIsWord DEF Config

(* The record of an attempt, as Execute writes it.                           *)
Attempt(type, origin, s, name, outcome, attempt, status, naming) ==
    [type |-> type, origin |-> origin, suggestion |-> s,
     content |-> Content(type, Config(type, origin), s, name), outcome |-> outcome,
     attempt |-> attempt, status |-> status, naming |-> naming]

NoneOfWords == EmptyText.word \notin Words /\ NoText.word \notin Words /\ EmptyText # NoText

LEMMA NotWords == NoneOfWords
<1> QED
  BY WordsAssumption DEF NoneOfWords, EmptyText, NoText, Text, Blank

(* The content of an attempt, type by type.                                  *)
LEMMA LabelSent ==
    ASSUME NEW c \in RawConfigs, NEW s \in Suggestions, NEW name,
           Content("github_label", Config("github_label", c), s, name).text # EmptyText
    PROVE  LET content == Content("github_label", Config("github_label", c), s, name)
           IN  /\ content.appended = NoText /\ content.text.word \in Words
               /\ \/ c.text.word \in Words /\ content.text.word = c.text.word
                  \/ c.useAI /\ content.text.word \in AllowedLabels
<1> DEFINE own == Config("github_label", c)
<1>1. own.useAI = c.useAI /\ c.useAI \in BOOLEAN
  BY DEF Config, KeepsUseAI, RawConfigs
<1>2. /\ c.text.word \in Words => own.text.word = c.text.word
      /\ c.text.word \notin Words => own.text = EmptyText
  BY ConfigShape
<1>3. s.label = EmptyText \/ s.label.word \in AllowedLabels
  BY SuggestionShape
<1> HIDE DEF own
<1>4. Content("github_label", own, s, name)
      = [text |-> IF own.useAI /\ s.label # EmptyText THEN s.label ELSE own.text,
         appended |-> NoText, rule |-> NoText]
  BY DEF Content
<1>5. Content("github_label", own, s, name).text # EmptyText
  BY DEF own
<1>6. LET content == Content("github_label", own, s, name)
      IN  /\ content.appended = NoText /\ content.text.word \in Words
          /\ \/ c.text.word \in Words /\ content.text.word = c.text.word
             \/ c.useAI /\ content.text.word \in AllowedLabels
  BY <1>1, <1>2, <1>3, <1>4, <1>5, WordsAssumption
<1> QED
  BY <1>6 DEF own

LEMMA CommentSent ==
    ASSUME NEW c \in RawConfigs, NEW s \in Suggestions, NEW name,
           Content("github_comment", Config("github_comment", c), s, name).text # EmptyText
    PROVE  LET content == Content("github_comment", Config("github_comment", c), s, name)
           IN  /\ content.text.word \in Words
               /\ content.appended # NoText =>
                    c.appendAI /\ c.text.word \in Words /\ content.appended = s.summary
               /\ \/ c.text.word \in Words /\ content.text.word = c.text.word
                  \/ c.text.word \notin Words /\ content.text = s.summary /\ (c.useAI \/ c.appendAI)
<1> DEFINE own == Config("github_comment", c)
           summary == IF s.summary = EmptyText THEN NoText ELSE s.summary
<1>1. own.useAI = c.useAI /\ own.appendAI = c.appendAI /\ c.useAI \in BOOLEAN /\ c.appendAI \in BOOLEAN
  BY DEF Config, KeepsUseAI, KeepsAppendAI, RawConfigs
<1>2. /\ c.text.word \in Words => own.text.word = c.text.word
      /\ c.text.word \notin Words => own.text = EmptyText
  BY ConfigShape
<1>3. s.summary = EmptyText \/ s.summary.word \in Words
  BY SuggestionShape
<1> HIDE DEF own
<1>4. Content("github_comment", own, s, name)
      = IF own.text = EmptyText /\ (own.useAI \/ own.appendAI)
        THEN [text |-> Given(summary), appended |-> NoText, rule |-> NoText]
        ELSE [text |-> own.text, appended |-> IF own.appendAI THEN summary ELSE NoText, rule |-> NoText]
  BY DEF Content
<1>5. Content("github_comment", own, s, name).text # EmptyText
  BY DEF own
<1>6. Given(summary) # EmptyText => Given(summary) = s.summary /\ s.summary.word \in Words
  BY <1>3 DEF Given
<1>7. summary # NoText => summary = s.summary
  OBVIOUS
<1> HIDE DEF summary
<1>8. LET content == Content("github_comment", own, s, name)
      IN  /\ content.text.word \in Words
          /\ content.appended # NoText =>
               c.appendAI /\ c.text.word \in Words /\ content.appended = s.summary
          /\ \/ c.text.word \in Words /\ content.text.word = c.text.word
             \/ c.text.word \notin Words /\ content.text = s.summary /\ (c.useAI \/ c.appendAI)
  <2>1. CASE own.text = EmptyText /\ (own.useAI \/ own.appendAI)
    <3>1. c.text.word \notin Words
      BY <1>2, <2>1, NotWords DEF NoneOfWords
    <3> QED
      BY <1>1, <1>4, <1>5, <1>6, <2>1, <3>1
  <2>2. CASE ~(own.text = EmptyText /\ (own.useAI \/ own.appendAI))
    <3>1. own.text # EmptyText
      BY <1>4, <1>5, <2>2
    <3> QED
      BY <1>1, <1>2, <1>4, <1>7, <2>2, <3>1
  <2> QED
    BY <2>1, <2>2
<1> QED
  BY <1>8 DEF own

LEMMA SlackSent ==
    ASSUME NEW c \in RawConfigs, NEW s \in Suggestions, NEW name,
           Content("slack_notification", Config("slack_notification", c), s, name).text # EmptyText
    PROVE  LET content == Content("slack_notification", Config("slack_notification", c), s, name)
           IN  /\ c.text.word \in Words /\ content.text.word = c.text.word
               /\ content.appended # NoText => c.appendAI /\ content.appended = s.summary
<1> DEFINE own == Config("slack_notification", c)
<1>1. own.appendAI = c.appendAI /\ c.appendAI \in BOOLEAN
  BY DEF Config, KeepsAppendAI, RawConfigs
<1>2. /\ c.text.word \in Words => own.text.word = c.text.word
      /\ c.text.word \notin Words => own.text = EmptyText
  BY ConfigShape
<1> HIDE DEF own
<1>3. Content("slack_notification", own, s, name)
      = [text |-> own.text,
         appended |-> IF own.appendAI THEN (IF s.summary = EmptyText THEN NoText ELSE s.summary) ELSE NoText,
         rule |-> name]
  BY DEF Content
<1>4. Content("slack_notification", own, s, name).text # EmptyText
  BY DEF own
<1>5. LET content == Content("slack_notification", own, s, name)
      IN  /\ c.text.word \in Words /\ content.text.word = c.text.word
          /\ content.appended # NoText => c.appendAI /\ content.appended = s.summary
  BY <1>1, <1>2, <1>3, <1>4
<1> QED
  BY <1>5 DEF own

(* A call is made only with a text, and says what was written.               *)
LEMMA CallSaysAsWritten ==
    ASSUME NEW type \in ActionTypes, NEW c \in RawConfigs, NEW s \in Suggestions, NEW name,
           NEW number \in Int, NEW outcome \in Outcomes(type, Content(type, Config(type, c), s, name), number),
           outcome \in Responses, NEW attempt, NEW status, NEW naming
    PROVE  SaysAsWritten(Attempt(type, c, s, name, outcome, attempt, status, naming))
<1> DEFINE content == Content(type, Config(type, c), s, name)
<1>1. Responses \cap Refusals = {}
  BY DEF Responses, Refusals
<1>2. content.text # EmptyText
  <2>1. {"no number"} \subseteq Refusals /\ {"bad config"} \subseteq Refusals
    BY DEF Refusals
  <2> HIDE DEF content
  <2>2. outcome \in Outcomes(type, content, number)
    BY DEF content
  <2> QED
    BY <1>1, <2>1, <2>2 DEF Outcomes
<1>3. CASE type = "github_label"
  BY <1>2, <1>3, LabelSent DEF SaysAsWritten, Attempt
<1>4. CASE type = "github_comment"
  BY <1>2, <1>4, CommentSent DEF SaysAsWritten, Attempt
<1>5. CASE type = "slack_notification"
  BY <1>2, <1>5, SlackSent DEF SaysAsWritten, Attempt
<1> QED
  BY <1>3, <1>4, <1>5 DEF ActionTypes

(* A config that Validate let in is bad only for want of the AI's help.      *)
LEMMA BadConfigNeedsAI ==
    ASSUME NEW type \in ActionTypes, NEW c \in RawConfigs, ConfigSuffices(type, c), NEW s \in Suggestions,
           NEW name, Content(type, Config(type, c), s, name).text = EmptyText
    PROVE  /\ c.text.word \notin Words
           /\ c.useAI \/ c.appendAI
           /\ s.summary = EmptyText \/ s.label = EmptyText
<1> DEFINE own == Config(type, c)
<1>1. /\ own.useAI = (c.useAI /\ KeepsUseAI(type)) /\ own.appendAI = (c.appendAI /\ KeepsAppendAI(type))
      /\ c.useAI \in BOOLEAN /\ c.appendAI \in BOOLEAN
  BY DEF Config, RawConfigs
<1>2. /\ c.text.word \in Words => own.text.word = c.text.word
      /\ c.text.word \notin Words => own.text = EmptyText
  BY ConfigShape
<1>3. HasText(c.text) <=> c.text.word \in Words
  BY TextIsWord DEF RawConfigs
<1>4. s.summary = EmptyText \/ s.summary.word \in Words
  BY SuggestionShape
<1>5. EmptyText.word \notin Words /\ NoText.word \notin Words /\ EmptyText # NoText
  BY NotWords DEF NoneOfWords
<1> HIDE DEF own
<1>6. Content(type, own, s, name).text = EmptyText
  BY DEF own
<1>7. CASE type = "github_label"
  <2>1. Content(type, own, s, name).text = IF own.useAI /\ s.label # EmptyText THEN s.label ELSE own.text
    BY <1>7 DEF Content
  <2>2. own.text = EmptyText
    BY <1>6, <2>1
  <2>3. c.text.word \notin Words /\ c.useAI
    BY <1>2, <1>3, <1>5, <1>7, <2>2 DEF ConfigSuffices
  <2> QED
    BY <1>1, <1>6, <1>7, <2>1, <2>3 DEF KeepsUseAI
<1>8. CASE type = "github_comment"
  <2> DEFINE summary == IF s.summary = EmptyText THEN NoText ELSE s.summary
  <2>1. Content(type, own, s, name).text
        = IF own.text = EmptyText /\ (own.useAI \/ own.appendAI) THEN Given(summary) ELSE own.text
    BY <1>8 DEF Content
  <2>2. Given(summary) = EmptyText => s.summary = EmptyText
    BY <1>4, <1>5 DEF Given
  <2> HIDE DEF summary
  <2>3. own.text = EmptyText
    BY <1>6, <2>1
  <2>4. c.text.word \notin Words /\ (c.useAI \/ c.appendAI)
    BY <1>2, <1>3, <1>5, <1>8, <2>3 DEF ConfigSuffices
  <2> QED
    BY <1>1, <1>6, <1>8, <2>1, <2>2, <2>3, <2>4 DEF KeepsUseAI, KeepsAppendAI
<1>9. CASE type = "slack_notification"
  <2>1. Content(type, own, s, name).text = own.text
    BY <1>9 DEF Content
  <2> QED
    BY <1>2, <1>3, <1>5, <1>6, <1>9, <2>1 DEF ConfigSuffices
<1> QED
  BY <1>7, <1>8, <1>9 DEF ActionTypes

ActionRows ==
    [config: Configs, status: {"pending", "completed", "failed"}, attempts: 0..MaxAttempts,
     origin: RawConfigs, birth: [run: Nat, name: Fields]]

(* The class of an outcome decides what becomes of the action.               *)
LEMMA AttemptFailsRightly ==
    ASSUME NEW type \in ActionTypes, NEW c \in RawConfigs, ConfigSuffices(type, c),
           NEW s \in Suggestions, NEW name, NEW number \in Int,
           NEW outcome \in Outcomes(type, Content(type, Config(type, c), s, name), number),
           NEW a \in ActionRows, NEW naming
    PROVE  FailsRightly(Attempt(type, c, s, name, outcome, a.attempts + 1, After(type, a, outcome).status, naming))
<1> DEFINE content == Content(type, Config(type, c), s, name)
<1>1. outcome = "bad config" => content.text = EmptyText
  <2> HIDE DEF content
  <2>1. "bad config" \notin Responses \cup {"no number", "not configured", "no token"}
    BY DEF Responses
  <2>2. outcome \in Outcomes(type, content, number)
    BY DEF content
  <2> QED
    BY <2>1, <2>2 DEF Outcomes
<1>2. outcome = "bad config" =>
        c.text.word \notin Words /\ (c.useAI \/ c.appendAI) /\ (s.summary = EmptyText \/ s.label = EmptyText)
  BY <1>1, BadConfigNeedsAI
<1>3. outcome \in {"401", "403", "404", "422"} \cup Refusals =>
        outcome # "ok" /\ IsPermanent(type, outcome) /\ outcome \notin {"network", "429", "5xx"}
  BY DEF IsPermanent, PermanentResponses, DoJSON, SendText, Responses, Refusals
<1>4. outcome \in {"network", "429", "5xx"} => outcome # "ok" /\ ~IsPermanent(type, outcome)
  BY DEF IsPermanent, PermanentResponses, DoJSON, SendText, Responses, Refusals
<1>5. outcome # "ok" /\ IsPermanent(type, outcome) => After(type, a, outcome).status = "failed"
  BY DEF After
<1>6. outcome # "ok" /\ ~IsPermanent(type, outcome) =>
        After(type, a, outcome).status = IF a.attempts + 1 < MaxAttempts THEN "pending" ELSE "failed"
  BY BoundsAssumption DEF After, Exhausted, ActionRows
<1> QED
  BY <1>2, <1>3, <1>4, <1>5, <1>6 DEF FailsRightly, Attempt

------------------------------------------------------------------------------
(* The invariant                                                            *)

(* Every rule is what its input was normalised to.                           *)
RuleInv ==
    /\ DOMAIN rules \subseteq RuleIds /\ DOMAIN rules \subseteq DOMAIN written
    /\ \A r \in DOMAIN rules:
         written[r] \in Inputs /\ Valid(written[r]) /\ rules[r] = Normalized(written[r])

(* Every action keeps what the rule it came from was written with.           *)
ActionKept(k) ==
    /\ k \in RuleIds \X ActionTypes /\ actions[k] \in ActionRows
    /\ actions[k].config = Config(k[2], actions[k].origin)
    /\ ConfigSuffices(k[2], actions[k].origin)
    /\ actions[k].status = "pending" => actions[k].attempts < MaxAttempts
    /\ actions[k].birth.run <= runs

(* What a run knows of the rules are the names written for those that wanted *)
(* the event, that of every action it created among them.                    *)
NamesKept ==
    /\ DOMAIN run.names = DOMAIN run.meant
    /\ \A r \in DOMAIN run.meant: run.names[r].word = run.meant[r].word
NameKnown(k) ==
    actions[k].birth.run = runs => k[1] \in DOMAIN run.meant /\ run.meant[k[1]] = actions[k].birth.name

RunInv ==
    /\ run = [busy |-> run.busy, todo |-> run.todo, suggestion |-> run.suggestion,
              names |-> run.names, meant |-> run.meant]
    /\ run.busy \in BOOLEAN /\ run.todo \subseteq DOMAIN actions /\ run.suggestion \in Suggestions
    /\ \A k \in run.todo: actions[k].status = "pending" /\ NameKnown(k)
    /\ NamesKept

IInv ==
    /\ payload \in Payloads /\ saves \in 0..MaxSaves /\ runs \in 0..MaxRuns
    /\ RuleInv /\ (\A k \in DOMAIN actions: ActionKept(k)) /\ RunInv
    /\ SentAsFirstWritten /\ FailsAsDocumented

LEMMA InitInv == Init => IInv
<1> SUFFICES ASSUME Init PROVE IInv
  OBVIOUS
<1>1. NoSuggestion \in Suggestions
  BY DEF Suggestions
<1>2. RunInv
  BY <1>1 DEF Init, RunInv, NamesKept, Idle
<1>3. RuleInv /\ \A k \in DOMAIN actions: ActionKept(k)
  BY DEF Init, RuleInv
<1>4. SentAsFirstWritten /\ FailsAsDocumented
  BY DEF Init, SentAsFirstWritten, FailsAsDocumented
<1> QED
  BY <1>2, <1>3, <1>4, BoundsAssumption DEF Init, IInv

(* A rule that is stored is what was written; one that is gone leaves the    *)
(* others.                                                                   *)
LEMMA SaveKeeps ==
    ASSUME RuleInv, NEW r \in RuleIds, NEW in \in Inputs, Save(r, in)
    PROVE  RuleInv'
<1>1. Valid(in) /\ rules' = With(rules, r, Normalized(in)) /\ written' = With(written, r, in)
  BY DEF Save
<1>2. /\ DOMAIN rules' = DOMAIN rules \cup {r}
      /\ \A x \in DOMAIN rules': rules'[x] = IF x = r THEN Normalized(in) ELSE rules[x]
  BY <1>1 DEF With
<1>3. /\ DOMAIN written' = DOMAIN written \cup {r}
      /\ \A x \in DOMAIN written': written'[x] = IF x = r THEN in ELSE written[x]
  BY <1>1 DEF With
<1>4. DOMAIN rules' \subseteq RuleIds /\ DOMAIN rules' \subseteq DOMAIN written'
  BY <1>2, <1>3 DEF RuleInv
<1>5. ASSUME NEW x \in DOMAIN rules'
      PROVE  written'[x] \in Inputs /\ Valid(written'[x]) /\ rules'[x] = Normalized(written'[x])
  BY <1>1, <1>2, <1>3, <1>4, <1>5 DEF RuleInv
<1> QED
  BY <1>4, <1>5 DEF RuleInv

LEMMA DeleteKeeps ==
    ASSUME RuleInv, NEW r, Delete(r)
    PROVE  RuleInv'
<1>1. /\ written' = written /\ DOMAIN rules' = DOMAIN rules \ {r}
      /\ \A x \in DOMAIN rules': rules'[x] = rules[x]
  BY DEF Delete, Without, Restrict
<1> QED
  BY <1>1 DEF RuleInv

(* An action that is created has the config of its rule.                     *)
LEMMA NewActionKept ==
    ASSUME RuleInv, runs \in Nat, NEW r \in DOMAIN rules
    PROVE  LET type == rules[r].actionType
               a == NewAction(r)
           IN  /\ <<r, type>> \in RuleIds \X ActionTypes /\ a \in ActionRows
               /\ a.config = Config(type, a.origin) /\ ConfigSuffices(type, a.origin)
               /\ a.status = "pending" /\ a.attempts < MaxAttempts
               /\ a.birth = [run |-> runs + 1, name |-> written[r].name]
<1> DEFINE in == written[r]
           a == NewAction(r)
<1>1. in \in Inputs /\ Valid(in) /\ rules[r] = Normalized(in) /\ r \in RuleIds
  BY DEF RuleInv
<1>2. in.config \in RawConfigs /\ in.name \in Fields
  BY <1>1, InputsAssumption
<1>3. /\ rules[r].actionType = in.actionType
      /\ rules[r].config = Config(in.actionType, in.config)
  BY <1>1 DEF Normalized
<1>4. in.actionType \in ActionTypes /\ ConfigSuffices(in.actionType, in.config)
  BY <1>1 DEF Valid
<1>5. Config(in.actionType, in.config) \in Configs
  BY <1>2, ConfigShape DEF Configs
<1>6. a = [config |-> Config(in.actionType, in.config), status |-> "pending", attempts |-> 0,
           origin |-> in.config, birth |-> [run |-> runs + 1, name |-> in.name]]
  BY <1>3 DEF NewAction
<1> HIDE DEF in, a
<1>7. a \in ActionRows
  BY <1>2, <1>5, <1>6, BoundsAssumption DEF ActionRows
<1> QED
  BY <1>1, <1>3, <1>4, <1>6, <1>7, BoundsAssumption DEF a, in

(* The rules that match are those that were meant to.                        *)
LEMMA MatchingIsWanted ==
    ASSUME RuleInv, payload \in Payloads, payload.item # "malformed"
    PROVE  /\ Matching = {r \in DOMAIN rules: Wanted(written[r], payload)}
           /\ \A r \in DOMAIN rules: rules[r].name.word = written[r].name.word
<1>1. ASSUME NEW r \in DOMAIN rules
      PROVE  /\ r \in Matching <=> Wanted(written[r], payload)
             /\ rules[r].name.word = written[r].name.word
  <2>1. written[r] \in Inputs /\ Valid(written[r]) /\ rules[r] = Normalized(written[r])
    BY DEF RuleInv
  <2>2. rules[r].name = TrimSpace(written[r].name)
    BY <2>1 DEF Normalized
  <2> QED
    BY <2>1, <2>2, MatchIsWanted, Folding DEF Matching
<1>2. Matching \subseteq DOMAIN rules
  BY DEF Matching
<1> QED
  BY <1>1, <1>2

LEMMA EvaluateKeeps ==
    ASSUME IInv, Evaluate
    PROVE  /\ (\A k \in DOMAIN actions: ActionKept(k))'
           /\ RunInv'
<1> DEFINE created == [k \in {<<r, rules[r].actionType>>: r \in Matching} |-> NewAction(k[1])]
           list == Persisted(created)
           names == [r \in Matching |-> rules[r].name]
           meant == [r \in {q \in DOMAIN rules: Wanted(written[q], payload)} |-> written[r].name]
           todo == {k \in DOMAIN list: list[k].status = "pending"}
<1>0. runs \in Nat /\ RuleInv
  BY BoundsAssumption DEF IInv
<1>1. /\ actions' = list /\ runs' = runs + 1
      /\ \E s \in Suggested(list):
           run' = [busy |-> TRUE, todo |-> todo, suggestion |-> s, names |-> names, meant |-> meant]
  BY DEF Evaluate
<1>2. /\ DOMAIN list = DOMAIN actions \cup DOMAIN created
      /\ \A k \in DOMAIN list: list[k] = IF k \in DOMAIN actions THEN actions[k] ELSE created[k]
  BY DEF Persisted
<1>3. ASSUME NEW k \in DOMAIN created
      PROVE  \E r \in Matching: k = <<r, rules[r].actionType>> /\ created[k] = NewAction(r)
  BY <1>3
<1>4. Suggested(list) \subseteq Suggestions
  BY DEF Suggested, Suggestions
<1>5. /\ Matching = {q \in DOMAIN rules: Wanted(written[q], payload)}
      /\ \A r \in DOMAIN rules: rules[r].name.word = written[r].name.word
  BY <1>0, MatchingIsWanted DEF IInv, Evaluate
<1>6. DOMAIN names = DOMAIN meant /\ \A r \in DOMAIN meant: names[r].word = meant[r].word
  BY <1>5
<1>7. \A r \in Matching: r \in DOMAIN meant /\ meant[r] = written[r].name
  BY <1>5
<1>8. Matching \subseteq DOMAIN rules
  BY DEF Matching
<1> HIDE DEF created, list, names, meant
<1>9. ASSUME NEW k \in DOMAIN actions'
      PROVE  /\ ActionKept(k)'
             /\ actions'[k].birth.run = runs' => k[1] \in DOMAIN meant /\ meant[k[1]] = actions'[k].birth.name
  <2>1. CASE k \in DOMAIN actions
    <3>1. actions'[k] = actions[k] /\ ActionKept(k)
      BY <1>1, <1>2, <2>1 DEF IInv
    <3>2. actions[k].birth.run \in Nat /\ actions[k].birth.run <= runs
      BY <3>1 DEF ActionKept, ActionRows
    <3>3. actions[k].birth.run <= runs + 1 /\ actions[k].birth.run # runs + 1
      BY <1>0, <1>1, <3>2
    <3>4. ActionKept(k)'
      BY <1>0, <1>1, <3>1, <3>3 DEF ActionKept
    <3> QED
      BY <1>0, <1>1, <3>1, <3>3, <3>4
  <2>2. CASE k \notin DOMAIN actions
    <3>1. PICK r \in Matching: k = <<r, rules[r].actionType>> /\ created[k] = NewAction(r)
      BY <1>1, <1>2, <1>3, <1>9, <2>2
    <3>2. actions'[k] = NewAction(r) /\ k[2] = rules[r].actionType /\ k[1] = r
      BY <1>1, <1>2, <1>9, <2>2, <3>1
    <3>3. r \in DOMAIN rules
      BY <1>8
    <3>4. /\ k \in RuleIds \X ActionTypes /\ actions'[k] \in ActionRows
          /\ actions'[k].config = Config(k[2], actions'[k].origin) /\ ConfigSuffices(k[2], actions'[k].origin)
          /\ actions'[k].status = "pending" /\ actions'[k].attempts < MaxAttempts
          /\ actions'[k].birth = [run |-> runs + 1, name |-> written[r].name]
      BY <1>0, <1>1, <3>1, <3>2, <3>3, NewActionKept
    <3>5. ActionKept(k)'
      BY <1>0, <1>1, <3>4 DEF ActionKept
    <3> QED
      BY <1>7, <3>2, <3>4, <3>5
  <2> QED
    BY <2>1, <2>2
<1>10. RunInv'
  <2>1. PICK s \in Suggestions:
          run' = [busy |-> TRUE, todo |-> todo, suggestion |-> s, names |-> names, meant |-> meant]
    BY <1>1, <1>4
  <2>2. \A k \in todo: k \in DOMAIN actions' /\ actions'[k].status = "pending"
    BY <1>1
  <2> HIDE DEF todo
  <2>3. run'.todo = todo /\ run'.names = names /\ run'.meant = meant
    BY <2>1
  <2>4. NamesKept'
    BY <1>6, <2>3 DEF NamesKept
  <2>5. \A k \in todo: NameKnown(k)'
    BY <1>9, <2>2, <2>3 DEF NameKnown
  <2> QED
    BY <2>1, <2>2, <2>3, <2>4, <2>5 DEF RunInv
<1> QED
  BY <1>9, <1>10

(* An attempt changes the status and the attempts of its action only.        *)
LEMMA AfterKeeps ==
    ASSUME NEW type, NEW a \in ActionRows, a.attempts < MaxAttempts, NEW outcome
    PROVE  LET b == After(type, a, outcome)
           IN  /\ b \in ActionRows /\ b.config = a.config /\ b.origin = a.origin /\ b.birth = a.birth
               /\ b.status = "pending" => b.attempts < MaxAttempts
<1>1. a.attempts \in 0..MaxAttempts /\ a.attempts + 1 \in 0..MaxAttempts
  BY BoundsAssumption DEF ActionRows
<1>2. CASE outcome = "ok"
  BY <1>2 DEF After, ActionRows
<1>3. CASE outcome # "ok" /\ IsPermanent(type, outcome)
  <2> DEFINE b == [a EXCEPT !.status = "failed", !.attempts = a.attempts + 1]
  <2>1. After(type, a, outcome) = b
    BY <1>3 DEF After
  <2>2. b \in ActionRows /\ b.config = a.config /\ b.origin = a.origin /\ b.birth = a.birth /\ b.status = "failed"
    BY <1>1 DEF ActionRows
  <2> QED
    BY <2>1, <2>2
<1>4. CASE outcome # "ok" /\ ~IsPermanent(type, outcome)
  <2> DEFINE status == IF Exhausted(a) THEN "failed" ELSE "pending"
             b == [a EXCEPT !.status = status, !.attempts = a.attempts + 1]
  <2>1. After(type, a, outcome) = b
    BY <1>4 DEF After
  <2>2. status \in {"pending", "failed"} /\ (status = "pending" => a.attempts + 1 < MaxAttempts)
    BY <1>1, BoundsAssumption DEF Exhausted
  <2> HIDE DEF status
  <2>3. /\ b \in ActionRows /\ b.config = a.config /\ b.origin = a.origin /\ b.birth = a.birth
        /\ b.status = status /\ b.attempts = a.attempts + 1
    BY <1>1, <2>2 DEF ActionRows
  <2> QED
    BY <2>1, <2>2, <2>3
<1> QED
  BY <1>2, <1>3, <1>4

(* A call to Slack names the rule rightly.                                   *)
LEMMA CallNamesItsRule ==
    ASSUME IInv, NEW k \in run.todo, NEW c,
           c.content.rule = RuleName(k[1]),
           c.naming.stored <=> k[1] \in DOMAIN rules,
           c.naming.meant = {run.meant[r]: r \in {k[1]} \cap DOMAIN run.meant},
           c.naming.birth = actions[k].birth, c.naming.run = runs
    PROVE  NamesRightly(c)
<1>1. NamesKept /\ NameKnown(k)
  BY DEF IInv, RunInv
<1>2. k[1] \notin DOMAIN rules \/ k[1] \notin DOMAIN run.meant => c.content.rule = Unnamed
  BY <1>1 DEF RuleName, NamesKept
<1>3. k[1] \in DOMAIN rules /\ k[1] \in DOMAIN run.meant => c.content.rule.word = run.meant[k[1]].word
  BY <1>1 DEF RuleName, NamesKept
<1>4. c.naming.meant = {} => k[1] \notin DOMAIN run.meant
  OBVIOUS
<1>5. \A n \in c.naming.meant: n = run.meant[k[1]] /\ k[1] \in DOMAIN run.meant
  OBVIOUS
<1>6. c.naming.birth.run = c.naming.run => k[1] \in DOMAIN run.meant /\ run.meant[k[1]] = c.naming.birth.name
  BY <1>1 DEF NameKnown
<1> DEFINE rule == c.content.rule
           naming == c.naming
<1>7. /\ ~naming.stored \/ naming.meant = {} => rule = Unnamed
      /\ naming.stored => \A n \in naming.meant: rule.word = n.word
      /\ naming.stored /\ naming.birth.run = naming.run => rule.word = naming.birth.name.word
  BY <1>2, <1>3, <1>4, <1>5, <1>6
<1> QED
  BY <1>7 DEF NamesRightly

LEMMA ExecuteKeeps ==
    ASSUME IInv, NEW k \in run.todo, Execute(k)
    PROVE  /\ (\A j \in DOMAIN actions: ActionKept(j))' /\ RunInv'
           /\ SentAsFirstWritten' /\ FailsAsDocumented'
<1> DEFINE type == k[2]
           a == actions[k]
           s == run.suggestion
           name == RuleName(k[1])
           number == Context(payload).number
           content == Content(type, Config(type, a.origin), s, name)
           naming == [stored |-> k[1] \in DOMAIN rules,
                      meant |-> {run.meant[r]: r \in {k[1]} \cap DOMAIN run.meant},
                      birth |-> a.birth, run |-> runs]
<1>1. /\ k \in DOMAIN actions /\ ActionKept(k) /\ a.status = "pending"
      /\ run.todo \subseteq DOMAIN actions /\ run.busy \in BOOLEAN /\ s \in Suggestions
      /\ run = [busy |-> run.busy, todo |-> run.todo, suggestion |-> s, names |-> run.names, meant |-> run.meant]
  BY DEF IInv, RunInv
<1>2. /\ type \in ActionTypes /\ a \in ActionRows /\ a.attempts < MaxAttempts
      /\ a.config = Config(type, a.origin) /\ a.origin \in RawConfigs /\ ConfigSuffices(type, a.origin)
  BY <1>1 DEF ActionKept, ActionRows
<1>3. number \in Int
  BY PayloadsAssumption DEF Context, IInv
<1>4. Content(type, a.config, s, name) = content
  BY <1>2
<1>5. PICK outcome \in Outcomes(type, content, number):
        /\ actions' = [actions EXCEPT ![k] = After(type, a, outcome)]
        /\ last' = {Attempt(type, a.origin, s, name, outcome, a.attempts + 1,
                            After(type, a, outcome).status, naming)}
  BY <1>4 DEF Execute, Attempt
<1>6. run' = [run EXCEPT !.todo = @ \ {k}] /\ runs' = runs
  BY DEF Execute
<1> DEFINE b == After(type, a, outcome)
           c == Attempt(type, a.origin, s, name, outcome, a.attempts + 1, b.status, naming)
<1>7. /\ b \in ActionRows /\ b.config = a.config /\ b.origin = a.origin /\ b.birth = a.birth
      /\ b.status = "pending" => b.attempts < MaxAttempts
  BY <1>2, AfterKeeps
<1>8. FailsRightly(c)
  BY <1>1, <1>2, <1>3, <1>5, AttemptFailsRightly
<1>9. outcome \in Responses => SaysAsWritten(c)
  BY <1>1, <1>2, <1>3, <1>5, CallSaysAsWritten
<1>10. c.type = "slack_notification" => NamesRightly(c)
  <2>1. type = "slack_notification" => content.rule = name
    BY DEF Content
  <2>2. c.type = type /\ c.content = content /\ c.naming = naming
    BY DEF Attempt
  <2>3. /\ naming.stored = (k[1] \in DOMAIN rules)
        /\ naming.meant = {run.meant[r]: r \in {k[1]} \cap DOMAIN run.meant}
        /\ naming.birth = a.birth /\ naming.run = runs
    OBVIOUS
  <2> HIDE DEF c, content, naming
  <2> QED
    BY <2>1, <2>2, <2>3, CallNamesItsRule
<1>11. last' = {c} /\ c.outcome = outcome
  BY <1>5 DEF Attempt
<1> HIDE DEF type, a, s, name, number, content, naming, b, c
<1>12. SentAsFirstWritten' /\ FailsAsDocumented'
  BY <1>8, <1>9, <1>10, <1>11 DEF SentAsFirstWritten, FailsAsDocumented
<1>13. ASSUME NEW j \in DOMAIN actions'
       PROVE  ActionKept(j)' /\ actions'[j].birth = actions[j].birth
  <2>1. j \in DOMAIN actions /\ actions'[j] = IF j = k THEN b ELSE actions[j]
    BY <1>1, <1>5, <1>13 DEF b
  <2>2. ActionKept(j) /\ ActionKept(k)
    BY <1>1, <2>1 DEF IInv
  <2> QED
    BY <1>2, <1>6, <1>7, <2>1, <2>2 DEF ActionKept, a, type
<1>14. RunInv'
  <2>1. run' = [busy |-> run.busy, todo |-> run.todo \ {k}, suggestion |-> s,
                names |-> run.names, meant |-> run.meant]
    BY <1>1, <1>6
  <2>2. DOMAIN actions' = DOMAIN actions
    BY <1>5
  <2>3. \A j \in run.todo \ {k}: actions'[j] = actions[j] /\ actions[j].status = "pending"
    BY <1>1, <1>5 DEF IInv, RunInv
  <2>4. \A j \in run.todo \ {k}: NameKnown(j)'
    BY <1>6, <2>1, <2>3 DEF IInv, RunInv, NameKnown
  <2>5. NamesKept'
    BY <2>1 DEF IInv, RunInv, NamesKept
  <2> QED
    BY <1>1, <2>1, <2>2, <2>3, <2>4, <2>5 DEF RunInv
<1> QED
  BY <1>12, <1>13, <1>14

LEMMA NextInv == IInv /\ [Next]_vars => IInv'
<1> SUFFICES ASSUME IInv, [Next]_vars PROVE IInv'
  OBVIOUS
<1> USE DEF IInv
<1>1. ASSUME NEW r \in RuleIds, NEW in \in Inputs, Save(r, in)
      PROVE  IInv'
  <2>1. RuleInv'
    BY <1>1, SaveKeeps
  <2>2. saves' \in 0..MaxSaves /\ UNCHANGED <<payload, actions, run, last, runs>>
    BY <1>1, BoundsAssumption DEF Save
  <2> QED
    BY <2>1, <2>2 DEF ActionKept, RunInv, NamesKept, NameKnown, SentAsFirstWritten, FailsAsDocumented
<1>2. ASSUME NEW r \in RuleIds, Delete(r)
      PROVE  IInv'
  <2>1. RuleInv'
    BY <1>2, DeleteKeeps
  <2>2. saves' \in 0..MaxSaves /\ UNCHANGED <<payload, actions, run, last, runs>>
    BY <1>2, BoundsAssumption DEF Delete
  <2> QED
    BY <2>1, <2>2 DEF ActionKept, RunInv, NamesKept, NameKnown, SentAsFirstWritten, FailsAsDocumented
<1>3. CASE Evaluate
  <2>1. (\A k \in DOMAIN actions: ActionKept(k))' /\ RunInv'
    BY <1>3, EvaluateKeeps
  <2>2. runs' \in 0..MaxRuns /\ UNCHANGED <<rules, written, payload, last, saves>>
    BY <1>3, BoundsAssumption DEF Evaluate
  <2> QED
    BY <2>1, <2>2 DEF RuleInv, SentAsFirstWritten, FailsAsDocumented
<1>4. ASSUME NEW k \in run.todo, Execute(k)
      PROVE  IInv'
  <2>1. /\ (\A j \in DOMAIN actions: ActionKept(j))' /\ RunInv'
        /\ SentAsFirstWritten' /\ FailsAsDocumented'
    BY <1>4, ExecuteKeeps
  <2>2. UNCHANGED <<rules, written, payload, saves, runs>>
    BY <1>4 DEF Execute
  <2> QED
    BY <2>1, <2>2 DEF RuleInv
<1>5. CASE EndRun
  <2>1. run' = Idle /\ UNCHANGED <<rules, written, payload, actions, last, saves, runs>>
    BY <1>5 DEF EndRun
  <2>2. RunInv'
    BY <2>1 DEF RunInv, NamesKept, Idle, Suggestions
  <2> QED
    BY <2>1, <2>2 DEF RuleInv, ActionKept, SentAsFirstWritten, FailsAsDocumented
<1>6. CASE UNCHANGED vars
  BY <1>6 DEF vars, RuleInv, ActionKept, RunInv, NamesKept, NameKnown, SentAsFirstWritten, FailsAsDocumented
<1> QED
  BY <1>1, <1>2, <1>3, <1>4, <1>5, <1>6 DEF Next

LEMMA Invariant == Spec => []IInv
<1> QED
  BY InitInv, NextInv, PTL DEF Spec

------------------------------------------------------------------------------
(* The rows keep their types, and a pending action has attempts left.        *)
THEOREM TypeCorrect == Spec => []TypeOK
<1>1. ASSUME IInv
      PROVE  TypeOK
  <2>1. ASSUME NEW r \in DOMAIN rules
        PROVE  /\ r \in DOMAIN written /\ rules[r].config \in Configs
               /\ ConfigSuffices(rules[r].actionType, rules[r].config)
    <3> DEFINE in == written[r]
    <3>1. in \in Inputs /\ Valid(in) /\ rules[r] = Normalized(in) /\ r \in DOMAIN written
      BY <1>1 DEF IInv, RuleInv
    <3>2. in.config \in RawConfigs
      BY <3>1, InputsAssumption
    <3>3. /\ rules[r].actionType = in.actionType
          /\ rules[r].config = Config(in.actionType, in.config)
      BY <3>1 DEF Normalized
    <3> HIDE DEF in
    <3>4. ConfigSuffices(in.actionType, in.config) /\ in.actionType \in ActionTypes
      BY <3>1 DEF Valid
    <3>5. ConfigSuffices(in.actionType, Config(in.actionType, in.config))
      <4> DEFINE c == Config(in.actionType, in.config)
      <4>1. HasText(in.config.text) => HasText(c.text)
        BY <3>2, ConfigShape, TextIsWord DEF RawConfigs, Fields
      <4>2. /\ c.useAI = (in.config.useAI /\ KeepsUseAI(in.actionType))
            /\ c.appendAI = (in.config.appendAI /\ KeepsAppendAI(in.actionType))
        BY DEF Config
      <4> HIDE DEF c
      <4>3. ConfigSuffices(in.actionType, c)
        BY <3>2, <3>4, <4>1, <4>2 DEF ConfigSuffices, KeepsUseAI, KeepsAppendAI, RawConfigs
      <4> QED
        BY <4>3 DEF c
    <3> QED
      BY <3>1, <3>2, <3>3, <3>5, ConfigShape DEF Configs
  <2>2. ASSUME NEW k \in DOMAIN actions
        PROVE  /\ k \in RuleIds \X ActionTypes /\ actions[k].config \in Configs
               /\ actions[k].status \in {"pending", "completed", "failed"}
               /\ actions[k].attempts \in 0..MaxAttempts
               /\ actions[k].status = "pending" => actions[k].attempts < MaxAttempts
    <3>1. ActionKept(k)
      BY <1>1 DEF IInv
    <3> QED
      BY <3>1 DEF ActionKept, ActionRows
  <2>3. run.todo \subseteq {k \in DOMAIN actions: actions[k].status = "pending"}
    BY <1>1 DEF IInv, RunInv
  <2> QED
    BY <1>1, <2>1, <2>2, <2>3 DEF TypeOK, IInv
<1> QED
  BY <1>1, Invariant, PTL

(* For any words, conditions, cases and spaces a stored rule matches exactly *)
(* the events its author meant.                                              *)
THEOREM RulesMatchAsWritten == Spec => []MatchesAsWritten
<1>1. ASSUME IInv
      PROVE  MatchesAsWritten
  <2> SUFFICES ASSUME payload.item # "malformed", NEW r \in DOMAIN rules
               PROVE  r \in Matching <=> Wanted(written[r], payload)
    BY DEF MatchesAsWritten
  <2>1. written[r] \in Inputs /\ Valid(written[r]) /\ rules[r] = Normalized(written[r])
    BY <1>1 DEF IInv, RuleInv
  <2>2. payload \in Payloads
    BY <1>1 DEF IInv
  <2> QED
    BY <2>1, <2>2, MatchIsWanted DEF Matching
<1> QED
  BY <1>1, Invariant, PTL

(* Whatever the AI provider answers and however rules are changed, renamed   *)
(* and deleted, the text of a call is what the rule said when its action was *)
(* created, under the name the rule had when the run began.                  *)
THEOREM CallsSayAsWritten == Spec => []SentAsFirstWritten
<1>1. IInv => SentAsFirstWritten
  BY DEF IInv
<1> QED
  BY <1>1, Invariant, PTL

(* An attempt fails its action exactly when ADR-008 says, and a config that  *)
(* was let in is bad only for want of the AI's help.                         *)
THEOREM AttemptsFailAsDocumented == Spec => []FailsAsDocumented
<1>1. IInv => FailsAsDocumented
  BY DEF IInv
<1> QED
  BY <1>1, Invariant, PTL

==============================================================================
