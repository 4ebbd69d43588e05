--------------------------- MODULE PolicyResolution ---------------------------
(***************************************************************************)
(* internal/policy: how a token's policy is validated, what of it holds    *)
(* for a model (ResolveForModel and mergeProvider), and what it does to    *)
(* the messages of a request (CheckModel, CheckRules, MaskContent,         *)
(* InjectPrompts).  A model pattern is the set of the models it matches,   *)
(* and a text the set of the subjects in it; a rule is about a subject.    *)
(* max_tokens and timeout are overridden as upstream is, and left out.     *)
(***************************************************************************)
EXTENDS Naturals, Sequences, FiniteSets, SequencesExt, FiniteSetsExt

CONSTANTS
  Models,    \* model names
  Providers, \* provider names
  Subjects,  \* what a text may be about
  NotText,   \* a content that is no string: it is not looked at
  None       \* a field that is empty, a criterion that does not compile

ASSUME ValuesAssumption ==
  /\ None \notin STRING \cup Models \cup Providers
  /\ \A models \in SUBSET Models : models # None
  /\ \A text \in SUBSET Subjects : text # NotText

\* What is read of a rule, of a provider's policy and of a policy; a rule's action and
\* scope may be any words.
Rule ==
  [subject: Subjects \cup {None}, action: STRING \cup {None}, scope: STRING \cup {None}]
ProviderPolicy ==
  [key: STRING \cup {None}, upstream: STRING \cup {None}, model: Models \cup {None},
   regex: {None} \cup SUBSET Models, prompts: Seq(SUBSET Subjects), rules: Seq(Rule)]
Policy ==
  [key: STRING \cup {None}, upstream: STRING \cup {None}, model: Models \cup {None},
   regex: {None} \cup SUBSET Models, prompts: Seq(SUBSET Subjects), rules: Seq(Rule),
   providers: [Providers -> Seq(ProviderPolicy)], default: Providers \cup {None},
   fallbacks: SUBSET Models]

Scopes == {"input", "output", "both"}
Actions == {"fail", "warn", "log", "mask"}

----------------------------------------------------------------------------
(* Parse and Validate.                                                     *)

\* compile of a rule: what it leaves open gets the default.
Compiled(rule) ==
  [rule EXCEPT !.action = IF @ = None THEN "fail" ELSE @,
               !.scope = IF @ = None THEN "input" ELSE @]

\* A rule with an unknown action or scope, or with no criterion, is refused.
RuleIsValid(rule) ==
  /\ rule.action \in Actions \cup {None}
  /\ rule.scope \in Scopes \cup {None}
  /\ rule.subject # None

RulesAreValid(rules) == \A i \in DOMAIN rules : RuleIsValid(rules[i])

Validate(p) ==
  /\ p.key # None \/ \E n \in Providers : p.providers[n] # <<>>
  /\ RulesAreValid(p.rules)
  /\ \A n \in Providers : \A i \in DOMAIN p.providers[n] :
       LET pp == p.providers[n][i] IN pp.key # None /\ RulesAreValid(pp.rules)

CompiledRules(rules) == [i \in DOMAIN rules |-> Compiled(rules[i])]

\* What Parse makes of a policy that is valid.
Parse(p) ==
  [p EXCEPT !.rules = CompiledRules(@),
            !.providers = [n \in Providers |->
              [i \in DOMAIN p.providers[n] |->
                [p.providers[n][i] EXCEPT !.rules = CompiledRules(@)]]]]

----------------------------------------------------------------------------
(* Resolution.                                                             *)

\* The exact model or the pattern; neither matches every model.
MatchesModel(pp, model) ==
  \/ pp.model # None /\ pp.model = model
  \/ pp.regex # None /\ model \in pp.regex
  \/ pp.model = None /\ pp.regex = None

\* The global fields.
BaseResolved(p) ==
  [provider |-> None, key |-> p.key, upstream |-> p.upstream, model |-> p.model,
   regex |-> p.regex, prompts |-> p.prompts, rules |-> p.rules]

\* Slip: the rules of a provider take the place of the global ones.
MergeProviderReplacesRules(rp, n, pp) ==
  [provider |-> n,
   key |-> IF pp.key # None THEN pp.key ELSE rp.key,
   upstream |-> IF pp.upstream # None THEN pp.upstream ELSE rp.upstream,
   model |-> IF pp.model # None THEN pp.model ELSE rp.model,
   regex |-> IF pp.regex # None THEN pp.regex
             ELSE IF pp.model # None THEN None ELSE rp.regex,
   prompts |-> pp.prompts \o rp.prompts,
   rules |-> IF pp.rules = <<>> THEN rp.rules ELSE pp.rules]

\* The provider's fields over the global ones, its prompts before and its rules after
\* them.  An exact model drops the global pattern; a pattern keeps the global model.
MergeProvider(rp, n, pp) ==
  [provider |-> n,
   key |-> IF pp.key # None THEN pp.key ELSE rp.key,
   upstream |-> IF pp.upstream # None THEN pp.upstream ELSE rp.upstream,
   model |-> IF pp.model # None THEN pp.model ELSE rp.model,
   regex |-> IF pp.regex # None THEN pp.regex
             ELSE IF pp.model # None THEN None ELSE rp.regex,
   prompts |-> pp.prompts \o rp.prompts,
   rules |-> rp.rules \o pp.rules]

\* The first policy of a provider that matches, or 0.
FirstMatch(pps, model) == SelectInSeq(pps, LAMBDA pp : MatchesModel(pp, model))

\* What ResolveForModel may return: the providers are a Go map, in any order, and the
\* first one with a match is taken.
ResolveForModel(p, model) ==
  LET matching == {n \in Providers : FirstMatch(p.providers[n], model) # 0}
  IN IF matching = {} THEN {BaseResolved(p)}
     ELSE {MergeProvider(BaseResolved(p), n, p.providers[n][FirstMatch(p.providers[n], model)]) :
             n \in matching}

\* ResolveProvider: a provider's first policy, for whatever model.
ResolveProvider(p, n) ==
  IF n = None \/ p.providers[n] = <<>> THEN BaseResolved(p)
  ELSE MergeProvider(BaseResolved(p), n, p.providers[n][1])

----------------------------------------------------------------------------
(* The resolved policy and a request.                                      *)

CheckModel(rp, model) ==
  /\ rp.model # None => model = rp.model
  /\ rp.regex # None => model \in rp.regex

InScope(rule, scope) == rule.scope \in {scope, "both"}

\* The rules that a text is matched by.
Matches(rules, text, scope) ==
  {i \in DOMAIN rules : InScope(rules[i], scope) /\ rules[i].subject \in text}

\* CheckRules returns an error: one of them has the action fail.
Blocked(rules, text, scope) ==
  \E i \in Matches(rules, text, scope) : rules[i].action = "fail"

\* MaskContent.
Masked(rules, text, scope) ==
  text \ {rules[i].subject : i \in {j \in Matches(rules, text, scope) : rules[j].action = "mask"}}

\* InjectPrompts.
InjectPrompts(rp, messages) == rp.prompts \o messages

=============================================================================
