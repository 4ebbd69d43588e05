------------------------------ MODULE ServeProofs ------------------------------
(***************************************************************************)
(* Proofs about the server and the logs it writes: what goes upstream,     *)
(* what a report shows and what a session file holds (Serve); then what    *)
(* its memory writers keep on disk (MemoryWriter).                         *)
(*                                                                         *)
(* The server's inductive invariant has six parts: what a request holds    *)
(* and where it is (CallsInv), what is sent for it (Allowed), the two      *)
(* tables of usage and what a report has copied of the first (UsageInv),   *)
(* the servers and their drains (LifeInv), what the ledger has been told   *)
(* of each request (LedgerInv), and what Close has copied and written      *)
(* (CopyInv). UsageInv stands alone; Allowed and LifeInv need CallsInv,    *)
(* LedgerInv needs both CallsInv and LifeInv, and CopyInv those and        *)
(* LedgerInv.                                                              *)
(*                                                                         *)
(* The writers' has four: who holds the mutex and what that goroutine      *)
(* knows (Control), which files there are (OnDiskInv), each accepted       *)
(* entry's place (Kept), and the sizes of the files and their counts       *)
(* (Sized).                                                                *)
(***************************************************************************)
EXTENDS Serve, MemoryWriter, SumTheorems, SequenceTheorems, TLAPS

----------------------------------------------------------------------------
(* The first of several.                                                   *)

\* A set of indices has a least one: the smallest of the intervals that end at one.
LEMMA LeastIndex ==
  ASSUME NEW n \in Nat, NEW I \in SUBSET (1..n), I # {}
  PROVE  Min(I) \in I /\ \A j \in I : Min(I) <= j
<1> DEFINE T == 1..n
           R == StrictSubsetOrdering(T)
           D == {1..i : i \in I}
<1>1. IsFiniteSet(T)
  BY FS_Interval
<1>2. D # {} /\ D \subseteq SUBSET T
  <2>1. \A i \in I : 1..i \subseteq T
    OBVIOUS
  <2> QED
    BY <2>1
<1>3. PICK s \in D : \A t \in D : <<t, s>> \notin R
  <2> HIDE DEF D, T
  <2>1. IsWellFoundedOn(R, SUBSET T)
    BY <1>1, FS_StrictSubsetOrderingWellFounded, FS_FiniteSubsetsOfFinite
  <2> HIDE DEF R
  <2> QED
    BY <1>2, <2>1, WFMin
<1>4. PICK i \in I : s = 1..i
  OBVIOUS
<1>5. \A j \in I : i <= j
  <2> SUFFICES ASSUME NEW j \in I, j < i PROVE FALSE
    OBVIOUS
  <2>1. 1..j \subseteq 1..i /\ 1..j # 1..i
    <3>1. i \in 1..i /\ i \notin 1..j
      OBVIOUS
    <3> QED
      BY <3>1
  <2>2. <<1..j, 1..i>> \in R
    BY <2>1 DEF StrictSubsetOrdering
  <2> QED
    BY <1>3, <1>4, <2>2
<1> QED
  BY <1>4, <1>5 DEF Min

\* What FirstMatch finds: a policy that matches, with none that matches before it.
LEMMA FirstMatchFinds ==
  ASSUME NEW pps, NEW X, pps \in Seq(X), NEW m
  PROVE  /\ FirstMatch(pps, m) = 0 => \A i \in DOMAIN pps : ~MatchesModel(pps[i], m)
         /\ FirstMatch(pps, m) # 0 =>
              /\ FirstMatch(pps, m) \in DOMAIN pps
              /\ MatchesModel(pps[FirstMatch(pps, m)], m)
              /\ \A j \in 1..FirstMatch(pps, m) - 1 : ~MatchesModel(pps[j], m)
<1> DEFINE I == {i \in 1..Len(pps) : MatchesModel(pps[i], m)}
<1>1. FirstMatch(pps, m) = IF I # {} THEN Min(I) ELSE 0
  BY DEF FirstMatch, SelectInSeq
<1>2. Len(pps) \in Nat /\ DOMAIN pps = 1..Len(pps)
  OBVIOUS
<1>3. I # {} => Min(I) \in I /\ \A j \in I : Min(I) <= j
  <2>1. I \in SUBSET (1..Len(pps))
    OBVIOUS
  <2> HIDE DEF I
  <2> QED
    BY <1>2, <2>1, LeastIndex
<1>4. CASE I = {}
  BY <1>1, <1>2, <1>4
<1>5. CASE I # {}
  <2> DEFINE k == FirstMatch(pps, m)
  <2>1. k = Min(I)
    BY <1>1, <1>5
  <2> HIDE DEF k
  <2>2. k \in 1..Len(pps) /\ MatchesModel(pps[k], m) /\ \A j \in I : k <= j
    BY <1>3, <1>5, <2>1
  <2>3. ASSUME NEW j \in 1..k - 1 PROVE ~MatchesModel(pps[j], m)
    <3>1. j \in 1..Len(pps) /\ j < k
      BY <1>2, <2>2
    <3>2. j \notin I
      BY <1>2, <2>2, <3>1
    <3> QED
      BY <3>1, <3>2
  <2> QED
    BY <1>2, <2>2, <2>3 DEF k
<1> QED
  BY <1>4, <1>5

\* FirstOf takes one of its fields.
LEMMA FirstOfField ==
  ASSUME NEW X, NEW fields \in Seq(X)
  PROVE  FirstOf(fields) \in X \cup {None}
<1> DEFINE I == {i \in 1..Len(fields) : fields[i] # None}
           k == IF I # {} THEN Min(I) ELSE 0
<1>1. FirstOf(fields) = IF k = 0 THEN None ELSE fields[k]
  BY DEF FirstOf, SelectInSeq
<1>2. I # {} => Min(I) \in I
  <2>1. I \in SUBSET (1..Len(fields)) /\ Len(fields) \in Nat
    OBVIOUS
  <2> HIDE DEF I
  <2> QED
    BY <2>1, LeastIndex
<1> QED
  BY <1>1, <1>2

----------------------------------------------------------------------------
(* Policies.                                                               *)

CompiledRule == {Compiled(rule) : rule \in Rule}

\* Compiling keeps the number of rules.
LEMMA CompiledAreRules ==
  ASSUME NEW rules \in Seq(Rule)
  PROVE  CompiledRules(rules) \in Seq(CompiledRule)
BY DEF CompiledRules, CompiledRule

\* What Parse keeps of a policy, and what it makes of its rules.
LEMMA ParseKeeps ==
  ASSUME NEW q \in Policy
  PROVE  /\ Parse(q).key = q.key /\ Parse(q).prompts = q.prompts
         /\ Parse(q).default = q.default
         /\ Parse(q).rules = CompiledRules(q.rules)
         /\ \A n \in Providers :
              Parse(q).providers[n] =
                [i \in DOMAIN q.providers[n] |->
                   [q.providers[n][i] EXCEPT !.rules = CompiledRules(@)]]
BY DEF Parse, Policy

\* The policies of a provider, as they are parsed.
ParsedPolicy ==
  [key: STRING \cup {None}, upstream: STRING \cup {None}, model: Models \cup {None},
   regex: {None} \cup SUBSET Models, prompts: Seq(SUBSET Subjects), rules: Seq(CompiledRule)]

LEMMA ParsedProviders ==
  ASSUME NEW q \in Policy, NEW n \in Providers
  PROVE  /\ Parse(q).providers[n] \in Seq(ParsedPolicy)
         /\ DOMAIN Parse(q).providers[n] = DOMAIN q.providers[n]
         /\ \A i \in DOMAIN q.providers[n] :
              Parse(q).providers[n][i].key = q.providers[n][i].key
<1>1. q.providers[n] \in Seq(ProviderPolicy)
  BY DEF Policy
<1>2. Parse(q).providers[n] =
        [j \in DOMAIN q.providers[n] |-> [q.providers[n][j] EXCEPT !.rules = CompiledRules(@)]]
  BY ParseKeeps
<1>3. ASSUME NEW i \in DOMAIN q.providers[n]
      PROVE  /\ Parse(q).providers[n][i] \in ParsedPolicy
             /\ Parse(q).providers[n][i].key = q.providers[n][i].key
  <2>1. PICK pp \in ProviderPolicy : pp = q.providers[n][i]
    BY <1>1
  <2>2. Parse(q).providers[n][i] = [pp EXCEPT !.rules = CompiledRules(pp.rules)]
    <3>1. Parse(q).providers[n][i] = [q.providers[n][i] EXCEPT !.rules = CompiledRules(@)]
      BY <1>2
    <3> QED
      BY <2>1, <3>1
  <2>3. CompiledRules(pp.rules) \in Seq(CompiledRule)
    BY CompiledAreRules DEF ProviderPolicy
  <2> QED
    BY <2>1, <2>2, <2>3 DEF ProviderPolicy, ParsedPolicy
<1>4. DOMAIN Parse(q).providers[n] = DOMAIN q.providers[n]
  BY <1>2
<1>5. Parse(q).providers[n] \in Seq(ParsedPolicy)
  <2>1. Parse(q).providers[n] = [i \in 1..Len(q.providers[n]) |-> Parse(q).providers[n][i]]
    <3>1. DOMAIN q.providers[n] = 1..Len(q.providers[n])
      BY <1>1
    <3> QED
      BY <1>2, <3>1
  <2>2. \A i \in 1..Len(q.providers[n]) : Parse(q).providers[n][i] \in ParsedPolicy
    BY <1>1, <1>3
  <2>3. Len(q.providers[n]) \in Nat
    BY <1>1
  <2> QED
    BY <2>1, <2>2, <2>3, IsASeq
<1> QED
  BY <1>3, <1>4, <1>5

\* What a request is held to: the global policy when no provider has one for the model,
\* or the first one of a provider that matches.
LEMMA ResolutionCases ==
  ASSUME NEW p, NEW m, NEW rp \in ResolveForModel(p, m)
  PROVE  \/ /\ rp = BaseResolved(p)
            /\ \A n \in Providers : FirstMatch(p.providers[n], m) = 0
         \/ \E n \in Providers :
              /\ FirstMatch(p.providers[n], m) # 0
              /\ rp = MergeProvider(BaseResolved(p), n,
                                    p.providers[n][FirstMatch(p.providers[n], m)])
BY DEF ResolveForModel

\* It names a provider or none, and only its key is looked up elsewhere.
LEMMA ResolutionFields ==
  ASSUME NEW p, NEW m, NEW rp \in ResolveForModel(p, m), NEW key
  PROVE  /\ rp.provider \in Providers \cup {None}
         /\ [rp EXCEPT !.key = key].key = key
         /\ [rp EXCEPT !.key = key].provider = rp.provider
         /\ [rp EXCEPT !.key = key].rules = rp.rules
         /\ [rp EXCEPT !.key = key].prompts = rp.prompts
<1>1. CASE rp = BaseResolved(p)
  BY <1>1 DEF BaseResolved
<1>2. ASSUME NEW n \in Providers, NEW pp, rp = MergeProvider(BaseResolved(p), n, pp)
      PROVE  /\ rp.provider \in Providers \cup {None}
             /\ [rp EXCEPT !.key = key].key = key
             /\ [rp EXCEPT !.key = key].provider = rp.provider
             /\ [rp EXCEPT !.key = key].rules = rp.rules
             /\ [rp EXCEPT !.key = key].prompts = rp.prompts
  BY <1>2 DEF MergeProvider
<1> QED
  BY <1>1, <1>2, ResolutionCases

\* The first of two fields.
LEMMA FirstOfTwo ==
  ASSUME NEW a, NEW b
  PROVE  FirstOf(<<a, b>>) = IF a # None THEN a ELSE b
<1> DEFINE fields == <<a, b>>
           I == {i \in 1..Len(fields) : fields[i] # None}
           k == IF I # {} THEN Min(I) ELSE 0
<1>1. FirstOf(fields) = IF k = 0 THEN None ELSE fields[k]
  BY DEF FirstOf, SelectInSeq
<1>2. Len(fields) = 2 /\ fields[1] = a /\ fields[2] = b
  OBVIOUS
<1> HIDE DEF fields
<1>3. I \in SUBSET (1..2) /\ (1 \in I <=> a # None) /\ (2 \in I <=> b # None)
  BY <1>2
<1> HIDE DEF I
<1>4. I # {} => Min(I) \in I /\ \A j \in I : Min(I) <= j
  BY <1>3, LeastIndex
<1>5. CASE a # None
  <2>1. Min(I) \in 1..2 /\ Min(I) <= 1
    BY <1>3, <1>4, <1>5
  <2>2. k = 1
    BY <1>3, <1>5, <2>1
  <2> HIDE DEF k
  <2> QED
    BY <1>1, <1>2, <1>5, <2>2 DEF fields
<1>6. CASE a = None /\ b # None
  <2>1. I # {} /\ \A i \in I : i = 2
    BY <1>3, <1>6
  <2>2. k = 2
    BY <1>4, <2>1
  <2> HIDE DEF k
  <2> QED
    BY <1>1, <1>2, <1>6, <2>2 DEF fields
<1>7. CASE a = None /\ b = None
  <2>1. I = {}
    BY <1>3, <1>7
  <2>2. k = 0
    BY <2>1
  <2> HIDE DEF k
  <2> QED
    BY <1>1, <1>7, <2>2 DEF fields
<1> QED
  BY <1>5, <1>6, <1>7

\* The first of three, when the first is missing.
LEMMA FirstOfLastTwo ==
  ASSUME NEW a, NEW b
  PROVE  FirstOf(<<None, a, b>>) = IF a # None THEN a ELSE b
<1> DEFINE fields == <<None, a, b>>
           I == {i \in 1..Len(fields) : fields[i] # None}
           k == IF I # {} THEN Min(I) ELSE 0
<1>1. FirstOf(fields) = IF k = 0 THEN None ELSE fields[k]
  BY DEF FirstOf, SelectInSeq
<1>2. Len(fields) = 3 /\ fields[1] = None /\ fields[2] = a /\ fields[3] = b
  OBVIOUS
<1> HIDE DEF fields
<1>3. /\ I \in SUBSET (1..3) /\ 1 \notin I
      /\ (2 \in I <=> a # None) /\ (3 \in I <=> b # None)
  BY <1>2
<1> HIDE DEF I
<1>4. I # {} => Min(I) \in I /\ \A j \in I : Min(I) <= j
  BY <1>3, LeastIndex
<1>5. CASE a # None
  <2>1. Min(I) \in 1..3 /\ Min(I) # 1 /\ Min(I) <= 2
    BY <1>3, <1>4, <1>5
  <2>2. k = 2
    BY <1>3, <1>5, <2>1
  <2> HIDE DEF k
  <2> QED
    BY <1>1, <1>2, <1>5, <2>2 DEF fields
<1>6. CASE a = None /\ b # None
  <2>1. I # {} /\ \A i \in I : i = 3
    BY <1>3, <1>6
  <2>2. k = 3
    BY <1>4, <2>1
  <2> HIDE DEF k
  <2> QED
    BY <1>1, <1>2, <1>6, <2>2 DEF fields
<1>7. CASE a = None /\ b = None
  <2>1. I = {}
    BY <1>3, <1>7
  <2>2. k = 0
    BY <2>1
  <2> HIDE DEF k
  <2> QED
    BY <1>1, <1>7, <2>2 DEF fields
<1> QED
  BY <1>5, <1>6, <1>7

\* A key that is there is taken first.
LEMMA OwnKeyFirst ==
  ASSUME NEW p, NEW rp, rp.key # None
  PROVE  KeyOf(p, rp) = rp.key
BY FirstOfTwo DEF KeyOf

\* The key when no provider has the model.
LEMMA KeyIsGlobal ==
  ASSUME NEW p
  PROVE  KeyOf(p, BaseResolved(p)) = GlobalKey(p)
<1> DEFINE n == IF p.default # None THEN p.default ELSE DefaultProvider
<1>1. BaseResolved(p).provider = None /\ BaseResolved(p).key = p.key
  BY DEF BaseResolved
<1>2. ProviderName(p, BaseResolved(p)) = n
  BY <1>1, FirstOfLastTwo DEF ProviderName
<1> HIDE DEF n
<1>3. KeyOf(p, BaseResolved(p)) = IF p.key # None THEN p.key ELSE FromConfig(n, "key")
  BY <1>1, <1>2, FirstOfTwo DEF KeyOf
<1>4. GlobalKey(p) = IF p.key # None \/ n = None \/ ProviderConfig[n] = None
                     THEN p.key ELSE ProviderConfig[n].key
  BY DEF GlobalKey, n
<1> QED
  BY <1>3, <1>4 DEF FromConfig

----------------------------------------------------------------------------
(* What a chat request is forwarded with.                                  *)

FirstMatching(p, m, n) ==
  {i \in DOMAIN p.providers[n] :
     /\ MatchesModel(p.providers[n][i], m)
     /\ \A j \in 1..i - 1 : ~MatchesModel(p.providers[n][j], m)}

OwnRules(p, m, n) ==
  IF n = None THEN <<>>
  ELSE p.providers[n][CHOOSE i \in FirstMatching(p, m, n) : TRUE].rules

\* The key is the provider's own, or the global one when none has a policy for the model.
KeyAllowed(p, m, n, key) ==
  IF n = None
  THEN /\ key = GlobalKey(p)
       /\ \A q \in Providers : \A i \in DOMAIN p.providers[q] : ~MatchesModel(p.providers[q][i], m)
  ELSE \E i \in FirstMatching(p, m, n) : key = p.providers[n][i].key

\* The texts break no rule, and what is masked is not sent.
TextsAllowed(rules, messages, sentMessages) ==
  \A rule \in rules, i \in {j \in DOMAIN messages : messages[j] # NotText} :
    InScope(rule, "input") =>
      /\ rule.action = "fail" => rule.subject \notin messages[i]
      /\ rule.action = "mask" =>
           rule.subject \notin sentMessages[Len(sentMessages) - Len(messages) + i]

\* ForwardsAllowed, in two parts.
LEMMA AllowedParts ==
  ForwardsAllowed <=>
    \A r \in Requests : sent[r] # None /\ KindOf[r] = "chat" =>
      /\ KeyAllowed(PolicyOf(r), ModelOf[r], resolved[r].provider, sent[r].key)
      /\ TextsAllowed(ToSet(PolicyOf(r).rules)
                       \cup ToSet(OwnRules(PolicyOf(r), ModelOf[r], resolved[r].provider)),
                     MessagesOf[r], sent[r].messages)
BY DEF ForwardsAllowed, KeyAllowed, TextsAllowed, OwnRules, FirstMatching

\* The one policy of a provider that is first to match.
LEMMA FirstIsOnly ==
  ASSUME NEW q \in Policy, NEW n \in Providers, NEW m,
         FirstMatch(Parse(q).providers[n], m) # 0
  PROVE  /\ FirstMatch(Parse(q).providers[n], m) \in DOMAIN q.providers[n]
         /\ FirstMatching(Parse(q), m, n) = {FirstMatch(Parse(q).providers[n], m)}
<1> DEFINE pps == Parse(q).providers[n]
           k == FirstMatch(pps, m)
<1>1. pps \in Seq(ParsedPolicy) /\ DOMAIN pps = DOMAIN q.providers[n]
  BY ParsedProviders
<1>2. FirstMatching(Parse(q), m, n) =
        {i \in DOMAIN pps : MatchesModel(pps[i], m) /\ \A j \in 1..i - 1 : ~MatchesModel(pps[j], m)}
  BY DEF FirstMatching
<1>3. k # 0
  OBVIOUS
<1> HIDE DEF pps
<1>4. /\ k \in DOMAIN pps /\ MatchesModel(pps[k], m)
      /\ \A j \in 1..k - 1 : ~MatchesModel(pps[j], m)
  BY <1>1, <1>3, FirstMatchFinds
<1> HIDE DEF k
<1>5. ASSUME NEW i \in DOMAIN pps, MatchesModel(pps[i], m),
             \A j \in 1..i - 1 : ~MatchesModel(pps[j], m)
      PROVE  i = k
  <2>1. i \in Nat \ {0} /\ k \in Nat \ {0}
    BY <1>1, <1>4
  <2>2. ~(i < k) /\ ~(k < i)
    BY <1>4, <1>5, <2>1
  <2> QED
    BY <2>1, <2>2
<1> QED
  BY <1>1, <1>2, <1>4, <1>5 DEF k, pps

\* The rules a request is held to are the global ones and the provider's own.
LEMMA RulesHeld ==
  ASSUME NEW q \in Policy, NEW m, NEW rp \in ResolveForModel(Parse(q), m)
  PROVE  /\ rp.rules \in Seq(CompiledRule) /\ rp.prompts \in Seq(SUBSET Subjects)
         /\ ToSet(Parse(q).rules) \cup ToSet(OwnRules(Parse(q), m, rp.provider)) = ToSet(rp.rules)
<1> DEFINE p == Parse(q)
<1>1. p.rules \in Seq(CompiledRule) /\ p.prompts \in Seq(SUBSET Subjects)
  BY ParseKeeps, CompiledAreRules DEF Policy
<1>2. CASE rp = BaseResolved(p)
  <2>1. rp.provider = None /\ rp.rules = p.rules /\ rp.prompts = p.prompts
    BY <1>2 DEF BaseResolved
  <2>2. ToSet(OwnRules(p, m, rp.provider)) = {}
    BY <2>1 DEF OwnRules, ToSet
  <2> QED
    BY <1>1, <2>1, <2>2
<1>3. ASSUME NEW n \in Providers, FirstMatch(p.providers[n], m) # 0,
             rp = MergeProvider(BaseResolved(p), n, p.providers[n][FirstMatch(p.providers[n], m)])
      PROVE  /\ rp.rules \in Seq(CompiledRule) /\ rp.prompts \in Seq(SUBSET Subjects)
             /\ ToSet(p.rules) \cup ToSet(OwnRules(p, m, rp.provider)) = ToSet(rp.rules)
  <2> DEFINE k == FirstMatch(p.providers[n], m)
             pp == p.providers[n][k]
  <2>1. k \in DOMAIN q.providers[n] /\ FirstMatching(p, m, n) = {k}
    BY <1>3, FirstIsOnly
  <2>2. pp \in ParsedPolicy
    BY <2>1, ParsedProviders
  <2>3. rp.provider = n /\ rp.rules = p.rules \o pp.rules /\ rp.prompts = pp.prompts \o p.prompts
    BY <1>3 DEF MergeProvider, BaseResolved
  <2>4. n # None
    BY ValuesAssumption
  <2>5. OwnRules(p, m, rp.provider) = pp.rules
    <3>1. (CHOOSE i \in {k} : TRUE) = k
      OBVIOUS
    <3> QED
      BY <2>1, <2>3, <2>4, <3>1 DEF OwnRules
  <2> HIDE DEF p, pp
  <2>6. pp.rules \in Seq(CompiledRule) /\ pp.prompts \in Seq(SUBSET Subjects)
    BY <2>2 DEF ParsedPolicy
  <2>7. ToSet(p.rules \o pp.rules) = ToSet(p.rules) \cup ToSet(pp.rules)
    <3> DEFINE a == p.rules
               b == pp.rules
    <3>1. a \in Seq(CompiledRule) /\ b \in Seq(CompiledRule)
      BY <1>1, <2>6
    <3> HIDE DEF a, b
    <3>2. /\ Len(a \o b) = Len(a) + Len(b) /\ DOMAIN (a \o b) = 1..Len(a) + Len(b)
          /\ \A i \in 1..Len(a) : (a \o b)[i] = a[i]
          /\ \A i \in 1..Len(b) : (a \o b)[Len(a) + i] = b[i]
      BY <3>1
    <3>3. \A i \in 1..Len(a) : i \in 1..Len(a) + Len(b)
      BY <3>1
    <3>4. \A i \in 1..Len(b) : Len(a) + i \in 1..Len(a) + Len(b)
      BY <3>1
    <3>5. ToSet(a) \cup ToSet(b) \subseteq ToSet(a \o b)
      <4> DEFINE c == a \o b
      <4>1. \A i \in 1..Len(a) : i \in DOMAIN c /\ c[i] = a[i]
        BY <3>2, <3>3
      <4>2. \A i \in 1..Len(b) : Len(a) + i \in DOMAIN c /\ c[Len(a) + i] = b[i]
        BY <3>2, <3>4
      <4>3. DOMAIN a = 1..Len(a) /\ DOMAIN b = 1..Len(b)
        BY <3>1
      <4> HIDE DEF c
      <4>4. ToSet(a) \subseteq ToSet(c) /\ ToSet(b) \subseteq ToSet(c)
        BY <4>1, <4>2, <4>3 DEF ToSet
      <4> QED
        BY <4>4 DEF c
    <3>6. ToSet(a \o b) \subseteq ToSet(a) \cup ToSet(b)
      BY <3>1, <3>2 DEF ToSet
    <3>7. ToSet(a \o b) = ToSet(a) \cup ToSet(b)
      BY <3>5, <3>6
    <3> QED
      BY <3>7 DEF a, b
  <2> QED
    BY <1>1, <2>3, <2>5, <2>6, <2>7
<1> QED
  BY <1>2, <1>3, ResolutionCases

\* A text that no rule blocks, masked by the same rules, is allowed.
LEMMA MaskedIsAllowed ==
  ASSUME NEW rp, rp.rules \in Seq(CompiledRule), rp.prompts \in Seq(SUBSET Subjects),
         NEW messages \in Seq({NotText} \cup SUBSET Subjects), ~IsBlocked(rp, messages)
  PROVE  TextsAllowed(ToSet(rp.rules), messages,
                      InjectPrompts(rp, MaskedMessages(rp, messages)))
<1> DEFINE masked == MaskedMessages(rp, messages)
           whole == InjectPrompts(rp, masked)
<1>1. /\ masked \in Seq({NotText} \cup SUBSET Subjects) /\ Len(masked) = Len(messages)
      /\ \A i \in DOMAIN messages : messages[i] # NotText =>
            masked[i] = Masked(rp.rules, messages[i], "input")
  <2>1. masked = [i \in 1..Len(messages) |-> masked[i]]
    BY DEF MaskedMessages
  <2>2. \A i \in 1..Len(messages) : masked[i] \in {NotText} \cup SUBSET Subjects
    BY DEF MaskedMessages, Masked
  <2>3. Len(messages) \in Nat
    OBVIOUS
  <2>4. masked \in Seq({NotText} \cup SUBSET Subjects) /\ Len(masked) = Len(messages)
    <3> HIDE DEF masked
    <3> QED
      BY <2>1, <2>2, <2>3, IsASeq
  <2>5. \A i \in DOMAIN messages : messages[i] # NotText =>
          masked[i] = Masked(rp.rules, messages[i], "input")
    BY DEF MaskedMessages
  <2> QED
    BY <2>4, <2>5
<1>2. \A i \in DOMAIN messages : whole[Len(whole) - Len(messages) + i] = masked[i]
  <2> DEFINE prompts == rp.prompts
             Content == {NotText} \cup SUBSET Subjects
  <2>1. prompts \in Seq(Content) /\ masked \in Seq(Content)
    BY <1>1
  <2>2. whole = prompts \o masked
    BY DEF InjectPrompts
  <2> HIDE DEF prompts, masked, whole, Content
  <2>3. /\ Len(whole) = Len(prompts) + Len(masked)
        /\ \A i \in 1..Len(masked) : whole[Len(prompts) + i] = masked[i]
    BY <2>1, <2>2
  <2>4. Len(prompts) \in Nat /\ Len(messages) \in Nat /\ DOMAIN messages = 1..Len(messages)
    BY <2>1
  <2>5. Len(whole) - Len(messages) = Len(prompts)
    BY <1>1, <2>3, <2>4
  <2> QED
    BY <1>1, <2>3, <2>4, <2>5
<1> HIDE DEF masked, whole
<1>3. ASSUME NEW rule \in ToSet(rp.rules), InScope(rule, "input"),
             NEW i \in DOMAIN messages, messages[i] # NotText
      PROVE  /\ rule.action = "fail" => rule.subject \notin messages[i]
             /\ rule.action = "mask" =>
                  rule.subject \notin whole[Len(whole) - Len(messages) + i]
  <2>1. PICK k \in DOMAIN rp.rules : rule = rp.rules[k]
    BY DEF ToSet
  <2>2. rule.action = "fail" => rule.subject \notin messages[i]
    <3>1. ~Blocked(rp.rules, messages[i], "input")
      BY <1>3 DEF IsBlocked
    <3> QED
      BY <1>3, <2>1, <3>1 DEF Blocked, Matches
  <2>3. rule.action = "mask" => rule.subject \notin Masked(rp.rules, messages[i], "input")
    BY <1>3, <2>1 DEF Masked, Matches
  <2>4. whole[Len(whole) - Len(messages) + i] = Masked(rp.rules, messages[i], "input")
    BY <1>1, <1>2, <1>3
  <2> QED
    BY <2>2, <2>3, <2>4
<1>4. TextsAllowed(ToSet(rp.rules), messages, whole)
  BY <1>3 DEF TextsAllowed
<1> QED
  BY <1>4 DEF whole, masked

\* What Forward looks up and sends is allowed.
LEMMA ForwardIsAllowed ==
  ASSUME NEW q \in Policy, Validate(q), NEW m \in Models,
         NEW messages \in Seq({NotText} \cup SUBSET Subjects),
         NEW found \in ResolveForModel(Parse(q), m),
         NEW rp, rp = [found EXCEPT !.key = KeyOf(Parse(q), found)],
         ~IsBlocked(rp, messages)
  PROVE  /\ KeyAllowed(Parse(q), m, rp.provider, rp.key)
         /\ TextsAllowed(ToSet(Parse(q).rules) \cup ToSet(OwnRules(Parse(q), m, rp.provider)),
                         messages, InjectPrompts(rp, MaskedMessages(rp, messages)))
<1> DEFINE p == Parse(q)
<1>1. /\ rp.provider = found.provider /\ rp.key = KeyOf(p, found)
      /\ rp.rules = found.rules /\ rp.prompts = found.prompts
  BY ResolutionFields
<1>2. KeyAllowed(p, m, rp.provider, rp.key)
  <2>1. CASE found = BaseResolved(p) /\ \A n \in Providers : FirstMatch(p.providers[n], m) = 0
    <3>1. rp.provider = None /\ rp.key = GlobalKey(p)
      BY <1>1, <2>1, KeyIsGlobal DEF BaseResolved
    <3>2. ASSUME NEW n \in Providers, NEW i \in DOMAIN p.providers[n]
          PROVE  ~MatchesModel(p.providers[n][i], m)
      BY <2>1, FirstMatchFinds, ParsedProviders
    <3> QED
      BY <3>1, <3>2 DEF KeyAllowed
  <2>2. ASSUME NEW n \in Providers, FirstMatch(p.providers[n], m) # 0,
               found = MergeProvider(BaseResolved(p), n,
                                     p.providers[n][FirstMatch(p.providers[n], m)])
        PROVE  KeyAllowed(p, m, rp.provider, rp.key)
    <3> DEFINE k == FirstMatch(p.providers[n], m)
               pp == p.providers[n][k]
    <3>1. k \in DOMAIN q.providers[n] /\ FirstMatching(p, m, n) = {k}
      BY <2>2, FirstIsOnly
    <3>2. pp.key # None
      <4>1. q.providers[n][k].key # None
        BY <3>1 DEF Validate
      <4> QED
        BY <3>1, <4>1, ParsedProviders
    <3>3. found.provider = n /\ found.key = pp.key
      BY <2>2, <3>2 DEF MergeProvider
    <3>4. rp.key = pp.key
      BY <1>1, <3>2, <3>3, OwnKeyFirst
    <3>5. n # None
      BY ValuesAssumption
    <3> QED
      BY <1>1, <3>1, <3>3, <3>4, <3>5 DEF KeyAllowed
  <2> QED
    BY <2>1, <2>2, ResolutionCases
<1>3. /\ rp.rules \in Seq(CompiledRule) /\ rp.prompts \in Seq(SUBSET Subjects)
      /\ ToSet(p.rules) \cup ToSet(OwnRules(p, m, rp.provider)) = ToSet(rp.rules)
  BY <1>1, RulesHeld
<1>4. TextsAllowed(ToSet(rp.rules), messages, InjectPrompts(rp, MaskedMessages(rp, messages)))
  BY <1>3, MaskedIsAllowed
<1> QED
  BY <1>2, <1>3, <1>4

----------------------------------------------------------------------------
(* Requests.                                                               *)

Places == {"new", "chat", "pass", "upstream", "meter", "entry", "last", "done"}

\* What a request is recorded with, and what was sent of one for which something was.
Recorded == [provider: Providers \cup {None}, key: KeysSet, broken: BOOLEAN]
IsCall(out) ==
  /\ out.model \in Models
  /\ out = [model |-> out.model, key |-> out.key, upstream |-> out.upstream,
            messages |-> out.messages]

\* A request has the kind its path gives it.  Until its handler returns it holds a
\* policy of its token that is valid; it is recorded with a provider, and nothing was
\* sent for it before it went upstream.
CallsInv ==
  /\ pc \in [Requests -> Places]
  /\ answered \in [Requests -> BOOLEAN]
  /\ DOMAIN policy = Requests /\ DOMAIN resolved = Requests /\ DOMAIN sent = Requests
  /\ \A r \in Requests :
       /\ pc[r] \in {"chat", "pass"} => pc[r] = KindOf[r]
       /\ pc[r] \notin {"new", "done"} => policy[r] \in Stored(TokenOf[r])
       /\ pc[r] \in {"upstream", "meter", "entry"} =>
            resolved[r] \in Recorded /\ IsCall(sent[r])
       /\ sent[r] # None => pc[r] \in {"upstream", "meter", "entry", "last"}
       /\ answered[r] => pc[r] \in {"meter", "entry", "last", "done"}

\* Only the steps of a request touch it.
LEMMA CallsOrNot ==
  ASSUME [Next]_vars
  PROVE  UNCHANGED calls \/ \E r \in Requests : Call(r)
<1>1. CASE Main
  BY <1>1 DEF Main, Start, Return, SkipLedger, OpenLedger, NotifyContext, NoCertificates, OpenStore,
       StartHTTP, StartHTTPS, SeeSignal, SeeError, WaitForServers, DeferredStop, DeferredStore,
       DeferredLedger, Exit, others
<1>2. CASE Signal \/ Snapshot \/ UNCHANGED vars
  BY <1>2 DEF Signal, Snapshot, others, vars
<1>3. CASE \E s \in Servers : Shutdown(s) \/ ServerFails(s)
  BY <1>3 DEF Shutdown, BeginShutdown, Drained, DrainTimesOut, ServerFails, others
<1> QED
  BY <1>1, <1>2, <1>3 DEF Next

\* The policy a request holds was parsed from one that is valid.
LEMMA PolicyHeld ==
  ASSUME CallsInv, NEW r \in Requests, pc[r] \notin {"new", "done"}
  PROVE  \E q \in Policy : Validate(q) /\ PolicyOf(r) = Parse(q)
<1>1. PICK text \in TextsOf[TokenOf[r]] : Validate(PolicyText[text]) /\ text = policy[r]
  BY DEF CallsInv, Stored
<1>2. PolicyText[text] \in Policy
  BY RequestsAssumption
<1> QED
  BY <1>1, <1>2 DEF PolicyOf

\* The table g is f, but for what it holds for r.
Changed(f, g, r, v) ==
  DOMAIN g = Requests /\ g[r] = v /\ \A q \in Requests \ {r} : g[q] = f[q]

LEMMA ChangedByExcept ==
  ASSUME NEW f, DOMAIN f = Requests, NEW r \in Requests, NEW v
  PROVE  Changed(f, [f EXCEPT ![r] = v], r, v) /\ Changed(f, f, r, f[r])
BY DEF Changed

\* A step of one request: where it is then, and what it then holds, keeps CallsInv.
LEMMA CallsAt ==
  ASSUME CallsInv, NEW r \in Requests, NEW place \in Places, Goto(r, place),
         NEW held, Changed(policy, policy', r, held),
         NEW with, Changed(resolved, resolved', r, with),
         NEW out, Changed(sent, sent', r, out),
         NEW used \in BOOLEAN, answered' = [answered EXCEPT ![r] = used],
         place \in {"chat", "pass"} => place = KindOf[r],
         place \notin {"new", "done"} => held \in Stored(TokenOf[r]),
         place \in {"upstream", "meter", "entry"} => with \in Recorded /\ IsCall(out),
         out # None => place \in {"upstream", "meter", "entry", "last"},
         used => place \in {"meter", "entry", "last", "done"}
  PROVE  CallsInv'
<1>1. /\ pc' \in [Requests -> Places] /\ answered' \in [Requests -> BOOLEAN]
      /\ DOMAIN policy' = Requests /\ DOMAIN resolved' = Requests /\ DOMAIN sent' = Requests
  BY DEF CallsInv, Goto, Changed
<1>2. /\ pc'[r] = place /\ policy'[r] = held /\ resolved'[r] = with
      /\ sent'[r] = out /\ answered'[r] = used
  BY DEF CallsInv, Goto, Changed
<1>3. \A q \in Requests \ {r} :
        /\ pc'[q] = pc[q] /\ policy'[q] = policy[q] /\ resolved'[q] = resolved[q]
        /\ sent'[q] = sent[q] /\ answered'[q] = answered[q]
  BY DEF CallsInv, Goto, Changed
<1>4. ASSUME NEW q \in Requests
      PROVE  /\ pc'[q] \in {"chat", "pass"} => pc'[q] = KindOf[q]
             /\ pc'[q] \notin {"new", "done"} => policy'[q] \in Stored(TokenOf[q])
             /\ pc'[q] \in {"upstream", "meter", "entry"} =>
                  resolved'[q] \in Recorded /\ IsCall(sent'[q])
             /\ sent'[q] # None => pc'[q] \in {"upstream", "meter", "entry", "last"}
             /\ answered'[q] => pc'[q] \in {"meter", "entry", "last", "done"}
  <2>1. CASE q = r
    BY <1>2, <2>1
  <2>2. CASE q # r
    BY <1>3, <2>2 DEF CallsInv
  <2> QED
    BY <2>1, <2>2
<1> QED
  BY <1>1, <1>4 DEF CallsInv, Stored, Recorded, IsCall

\* When its handler returns.
LEMMA CallsReturn ==
  ASSUME CallsInv, NEW r \in Requests, HandlerReturns(r), answered' = answered
  PROVE  CallsInv'
<1>1. answered' = [answered EXCEPT ![r] = answered[r]] /\ answered[r] \in BOOLEAN
  BY DEF CallsInv
<1>2. /\ Changed(policy, policy', r, None) /\ Changed(resolved, resolved', r, None)
      /\ Changed(sent, sent', r, None)
  BY ChangedByExcept DEF CallsInv, HandlerReturns
<1>3. Goto(r, "done") /\ "done" \in Places
  BY DEF HandlerReturns, Places
<1> QED
  BY <1>1, <1>2, <1>3, CallsAt

\* A resolution of a chat request, with its key.
LEMMA ResolutionOf ==
  ASSUME NEW r \in Requests, NEW rp \in Resolutions(r)
  PROVE  /\ pc[r] = "chat"
         /\ \E found \in ResolveForModel(PolicyOf(r), ModelOf[r]) :
              rp = [found EXCEPT !.key = KeyOf(PolicyOf(r), found)]
<1>1. pc[r] = "chat"
  BY DEF Resolutions
<1> QED
  BY <1>1 DEF Resolutions

\* The name of the provider of a passthrough request.
LEMMA PassProvider ==
  ASSUME NEW q \in Policy
  PROVE  ProviderName(Parse(q), ResolveProvider(Parse(q), None)) \in Providers \cup {None}
<1> DEFINE p == Parse(q)
           X == Providers \cup {None}
<1>1. ResolveProvider(p, None).provider = None
  BY DEF ResolveProvider, BaseResolved
<1>2. p.default \in X
  BY ParseKeeps DEF Policy
<1>3. DefaultProvider \in X
  BY RequestsAssumption
<1> HIDE DEF p
<1>4. <<None, p.default, DefaultProvider>> \in Seq(X)
  BY <1>2, <1>3
<1>5. FirstOf(<<None, p.default, DefaultProvider>>) \in X \cup {None}
  BY <1>4, FirstOfField
<1> QED
  BY <1>1, <1>5 DEF ProviderName, p

\* Every step of a request.
LEMMA CallsStep ==
  ASSUME CallsInv, NEW r \in Requests, Call(r)
  PROVE  CallsInv'
<1>1. ASSUME NEW p \in Stored(TokenOf[r]) \cup {None}, ServeHTTP(r, p) PROVE CallsInv'
  <2>1. CASE p = None
    BY <1>1, <2>1, CallsReturn DEF ServeHTTP
  <2>2. CASE p # None
    <3>1. /\ policy' = [policy EXCEPT ![r] = p] /\ Goto(r, KindOf[r])
          /\ UNCHANGED <<resolved, sent, answered>> /\ pc[r] = "new"
      BY <1>1, <2>2 DEF ServeHTTP
    <3>2. KindOf[r] \in {"chat", "pass"} /\ KindOf[r] \in Places
      BY RequestsAssumption DEF Places
    <3>3. sent[r] = None /\ ~answered[r]
      BY <3>1 DEF CallsInv
    <3>4. /\ Changed(policy, policy', r, p) /\ Changed(resolved, resolved', r, resolved[r])
          /\ Changed(sent, sent', r, None)
      BY <3>1, <3>3, ChangedByExcept DEF CallsInv
    <3>5. answered' = [answered EXCEPT ![r] = FALSE]
      BY <3>1, <3>3 DEF CallsInv
    <3> QED
      BY <1>1, <2>2, <3>1, <3>2, <3>4, <3>5, CallsAt
  <2> QED
    BY <2>1, <2>2
<1>2. CASE Exhausted(r)
  BY <1>2, CallsReturn DEF Exhausted
<1>3. ASSUME NEW rp \in Resolutions(r), NEW n, Refuse(r, rp, n) PROVE CallsInv'
  BY <1>3, CallsReturn DEF Refuse
<1>4. ASSUME NEW rp \in Resolutions(r), Forward(r, rp) PROVE CallsInv'
  <2> DEFINE passes == rp.key \in KeysSet /\ UpstreamOf(PolicyOf(r), rp) \in URLs
  <2>1. CASE ~passes
    BY <1>4, <2>1, CallsReturn DEF Forward
  <2>2. CASE passes
    <3> DEFINE with == [provider |-> rp.provider, key |-> rp.key, broken |-> FALSE]
               out == [model |-> ModelOf[r], key |-> rp.key,
                       upstream |-> UpstreamOf(PolicyOf(r), rp),
                       messages |-> InjectPrompts(rp, MaskedMessages(rp, MessagesOf[r]))]
    <3>1. /\ resolved' = [resolved EXCEPT ![r] = with] /\ sent' = [sent EXCEPT ![r] = out]
          /\ Goto(r, "upstream") /\ policy' = policy /\ answered' = answered /\ pc[r] = "chat"
      BY <1>4, <2>2 DEF Forward
    <3>2. with \in Recorded /\ IsCall(out)
      <4>1. PICK found \in ResolveForModel(PolicyOf(r), ModelOf[r]) :
              rp = [found EXCEPT !.key = KeyOf(PolicyOf(r), found)]
        BY <1>4, ResolutionOf
      <4>2. rp.provider = found.provider /\ found.provider \in Providers \cup {None}
        BY <4>1, ResolutionFields
      <4>3. ModelOf[r] \in Models
        BY RequestsAssumption
      <4> QED
        BY <2>2, <4>2, <4>3 DEF Recorded, IsCall
    <3>3. policy[r] \in Stored(TokenOf[r]) /\ ~answered[r]
      BY <3>1 DEF CallsInv
    <3>4. /\ Changed(policy, policy', r, policy[r]) /\ Changed(resolved, resolved', r, with)
          /\ Changed(sent, sent', r, out)
      BY <3>1, ChangedByExcept DEF CallsInv
    <3>5. answered' = [answered EXCEPT ![r] = FALSE]
      BY <3>1, <3>3 DEF CallsInv
    <3>6. "upstream" \in Places
      BY DEF Places
    <3> HIDE DEF with, out
    <3> QED
      BY <3>1, <3>2, <3>3, <3>4, <3>5, <3>6, CallsAt
  <2> QED
    BY <2>1, <2>2
<1>5. CASE Use(r) \/ PassAnswered(r)
  <2>1. PICK place \in {"meter", "entry"} : Goto(r, place)
    BY <1>5 DEF Use, PassAnswered
  <2>2. /\ answered' = [answered EXCEPT ![r] = TRUE] /\ UNCHANGED <<policy, resolved, sent>>
        /\ pc[r] = "upstream"
    BY <1>5 DEF Use, PassAnswered
  <2>3. /\ Changed(policy, policy', r, policy[r]) /\ Changed(sent, sent', r, sent[r])
        /\ Changed(resolved, resolved', r, resolved[r])
    BY <2>2, ChangedByExcept DEF CallsInv
  <2>4. policy[r] \in Stored(TokenOf[r]) /\ resolved[r] \in Recorded /\ IsCall(sent[r])
    BY <2>2 DEF CallsInv
  <2>5. place \in Places
    BY DEF Places
  <2> QED
    BY <2>1, <2>2, <2>3, <2>4, <2>5, CallsAt
<1>6. CASE (\E fails \in BOOLEAN : Meter(r, fails)) \/ RecordLedgerEntry(r)
  <2>1. PICK place \in {"entry", "last"} :
          Goto(r, place) /\ pc[r] = IF place = "entry" THEN "meter" ELSE "entry"
    BY <1>6 DEF Meter, RecordLedgerEntry
  <2>2. /\ UNCHANGED <<policy, sent, answered>>
        /\ resolved' = resolved \/ \E fails \in BOOLEAN :
             resolved' = [resolved EXCEPT ![r] = [resolved[r] EXCEPT !.broken = fails]]
    BY <1>6 DEF Meter, RecordLedgerEntry
  <2>0. PICK with \in Recorded : Changed(resolved, resolved', r, with)
    <3>1. resolved[r] \in Recorded /\ DOMAIN resolved = Requests
      BY <2>1 DEF CallsInv
    <3>2. CASE resolved' = resolved
      BY <3>1, <3>2, ChangedByExcept
    <3>3. ASSUME NEW fails \in BOOLEAN,
                 resolved' = [resolved EXCEPT ![r] = [resolved[r] EXCEPT !.broken = fails]]
          PROVE  \E with \in Recorded : Changed(resolved, resolved', r, with)
      <4>1. [resolved[r] EXCEPT !.broken = fails] \in Recorded
        BY <3>1 DEF Recorded
      <4> QED
        BY <3>1, <3>3, <4>1, ChangedByExcept
    <3> QED
      BY <2>2, <3>2, <3>3
  <2>3. Changed(policy, policy', r, policy[r]) /\ Changed(sent, sent', r, sent[r])
    BY <2>2, ChangedByExcept DEF CallsInv
  <2>4. answered' = [answered EXCEPT ![r] = answered[r]] /\ answered[r] \in BOOLEAN
    BY <2>2 DEF CallsInv
  <2>5. policy[r] \in Stored(TokenOf[r]) /\ IsCall(sent[r])
    BY <2>1 DEF CallsInv
  <2>6. place \in Places
    BY DEF Places
  <2>7. place \in {"meter", "entry", "last", "done"} /\ place \notin {"chat", "pass"}
    OBVIOUS
  <2>8. Goto(r, place)
    BY <2>1
  <2>9. sent[r] # None => place \in {"upstream", "meter", "entry", "last"}
    OBVIOUS
  <2> QED
    BY <2>0, <2>3, <2>5, <2>6, <2>4, <2>7, <2>8, <2>9, CallsAt
<1>7. CASE Passthrough(r)
  <2> DEFINE p == PolicyOf(r)
             rp == ResolveProvider(p, None)
             key == KeyOf(p, rp)
             with == [provider |-> ProviderName(p, rp), key |-> key, broken |-> FALSE]
             out == [model |-> ModelOf[r], key |-> key, upstream |-> UpstreamOf(p, rp),
                     messages |-> MessagesOf[r]]
             passes == key \in KeysSet /\ UpstreamOf(p, rp) \in URLs
  <2>1. CASE ~passes
    BY <1>7, <2>1, CallsReturn DEF Passthrough
  <2>2. CASE passes
    <3>1. /\ resolved' = [resolved EXCEPT ![r] = with] /\ sent' = [sent EXCEPT ![r] = out]
          /\ Goto(r, "upstream") /\ policy' = policy /\ answered' = answered /\ pc[r] = "pass"
      BY <1>7, <2>2 DEF Passthrough
    <3>2. with \in Recorded /\ IsCall(out)
      <4>1. PICK q \in Policy : p = Parse(q)
        BY <3>1, PolicyHeld
      <4>2. ProviderName(p, rp) \in Providers \cup {None}
        BY <4>1, PassProvider
      <4>3. ModelOf[r] \in Models
        BY RequestsAssumption
      <4> QED
        BY <2>2, <4>2, <4>3 DEF Recorded, IsCall
    <3>3. policy[r] \in Stored(TokenOf[r]) /\ ~answered[r]
      BY <3>1 DEF CallsInv
    <3>4. /\ Changed(policy, policy', r, policy[r]) /\ Changed(resolved, resolved', r, with)
          /\ Changed(sent, sent', r, out)
      BY <3>1, ChangedByExcept DEF CallsInv
    <3>5. answered' = [answered EXCEPT ![r] = FALSE]
      BY <3>1, <3>3 DEF CallsInv
    <3>6. "upstream" \in Places
      BY DEF Places
    <3> HIDE DEF with, out
    <3> QED
      BY <3>1, <3>2, <3>3, <3>4, <3>5, <3>6, CallsAt
  <2> QED
    BY <2>1, <2>2
<1>8. CASE PassAborted(r) \/ Finish(r)
  BY <1>8, CallsReturn DEF PassAborted, Finish
<1>9. ASSUME NEW model \in Models, Fallback(r, model) PROVE CallsInv'
  <2> DEFINE out == [sent[r] EXCEPT !.model = model]
  <2>1. /\ sent' = [sent EXCEPT ![r] = out] /\ Goto(r, "upstream") /\ pc[r] = "upstream"
        /\ UNCHANGED <<policy, resolved, answered>>
    BY <1>9 DEF Fallback
  <2>2. policy[r] \in Stored(TokenOf[r]) /\ resolved[r] \in Recorded /\ IsCall(sent[r])
    BY <2>1 DEF CallsInv
  <2>3. IsCall(out)
    BY <2>2 DEF IsCall
  <2> HIDE DEF out
  <2>4. /\ Changed(policy, policy', r, policy[r]) /\ Changed(sent, sent', r, out)
        /\ Changed(resolved, resolved', r, resolved[r])
    BY <2>1, ChangedByExcept DEF CallsInv
  <2>5. answered' = [answered EXCEPT ![r] = FALSE]
    BY <2>1 DEF CallsInv
  <2>6. "upstream" \in Places
    BY DEF Places
  <2> QED
    BY <2>1, <2>2, <2>3, <2>4, <2>5, <2>6, CallsAt
<1> QED
  BY <1>1, <1>2, <1>3, <1>4, <1>5, <1>6, <1>7, <1>8, <1>9 DEF Call

\* CallsInv is inductive.
LEMMA CallsInvariant == Spec => []CallsInv
<1>1. Init => CallsInv
  BY DEF Init, CallsInv, Places
<1>2. CallsInv /\ [Next]_vars => CallsInv'
  <2> SUFFICES ASSUME CallsInv, [Next]_vars PROVE CallsInv'
    OBVIOUS
  <2>1. CASE UNCHANGED calls
    BY <2>1 DEF CallsInv, Stored, calls, Recorded, IsCall
  <2> QED
    BY <2>1, CallsOrNot, CallsStep
<1> QED
  BY <1>1, <1>2, PTL DEF Spec

----------------------------------------------------------------------------
(* ForwardsAllowed.                                                        *)

Sending == {"upstream", "meter", "entry", "last"}

\* What is sent for a chat request, as AllowedParts has it.
Allowed(r) ==
  pc[r] \in Sending /\ KindOf[r] = "chat" =>
    /\ KeyAllowed(PolicyOf(r), ModelOf[r], resolved[r].provider, sent[r].key)
    /\ TextsAllowed(ToSet(PolicyOf(r).rules)
                     \cup ToSet(OwnRules(PolicyOf(r), ModelOf[r], resolved[r].provider)),
                   MessagesOf[r], sent[r].messages)

\* It stays so while the request keeps what it holds, or asks for another model.
LEMMA AllowedKept ==
  ASSUME NEW q \in Requests, Allowed(q), pc'[q] \in Sending => pc[q] \in Sending,
         policy'[q] = policy[q], resolved'[q].provider = resolved[q].provider,
         sent'[q].key = sent[q].key, sent'[q].messages = sent[q].messages
  PROVE  Allowed(q)'
<1>1. PolicyOf(q)' = PolicyOf(q)
  BY DEF PolicyOf
<1> QED
  BY <1>1
  DEF Allowed, KeyAllowed, TextsAllowed, OwnRules, FirstMatching, GlobalKey, Sending

\* It stays so for the requests that a step is not of.
LEMMA AllowedOthers ==
  ASSUME CallsInv, NEW r \in Requests, NEW place, Goto(r, place), NEW q \in Requests, q # r,
         Allowed(q), UNCHANGED <<policy[q], resolved[q], sent[q]>>
  PROVE  Allowed(q)'
<1>1. pc'[q] = pc[q]
  BY DEF CallsInv, Goto
<1> QED
  BY <1>1, AllowedKept

\* The handler returns: nothing is held to be sent.
LEMMA AllowedReturn ==
  ASSUME CallsInv, NEW r \in Requests, HandlerReturns(r),
         \A q \in Requests : Allowed(q), NEW q \in Requests
  PROVE  Allowed(q)'
<1>1. CASE q = r
  <2>1. pc'[r] = "done"
    BY DEF CallsInv, HandlerReturns, Goto
  <2> QED
    BY <1>1, <2>1 DEF Allowed, Sending
<1>2. CASE q # r
  <2>1. /\ policy'[q] = policy[q] /\ resolved'[q] = resolved[q] /\ sent'[q] = sent[q]
        /\ Goto(r, "done")
    BY <1>2 DEF CallsInv, HandlerReturns
  <2> QED
    BY <1>2, <2>1, AllowedOthers
<1> QED
  BY <1>1, <1>2

\* A step of a request keeps what is sent allowed.
LEMMA AllowedStep ==
  ASSUME CallsInv, NEW r \in Requests, Call(r), \A q \in Requests : Allowed(q), NEW q \in Requests
  PROVE  Allowed(q)'
<1>1. ASSUME NEW p \in Stored(TokenOf[r]) \cup {None}, ServeHTTP(r, p) PROVE Allowed(q)'
  <2>1. CASE p = None
    BY <1>1, <2>1, AllowedReturn DEF ServeHTTP
  <2>2. CASE p # None /\ q = r
    <3>1. pc'[r] = KindOf[r] /\ KindOf[r] \in {"chat", "pass"}
      BY <1>1, <2>2, RequestsAssumption DEF ServeHTTP, CallsInv, Goto
    <3> QED
      BY <2>2, <3>1 DEF Allowed, Sending
  <2>3. CASE p # None /\ q # r
    <3>1. /\ policy'[q] = policy[q] /\ resolved'[q] = resolved[q] /\ sent'[q] = sent[q]
          /\ Goto(r, KindOf[r])
      BY <1>1, <2>3 DEF ServeHTTP, CallsInv
    <3> QED
      BY <2>3, <3>1, AllowedOthers
  <2> QED
    BY <2>1, <2>2, <2>3
<1>2. CASE Exhausted(r) \/ PassAborted(r) \/ Finish(r)
  BY <1>2, AllowedReturn DEF Exhausted, PassAborted, Finish
<1>3. ASSUME NEW rp \in Resolutions(r), NEW n, Refuse(r, rp, n) PROVE Allowed(q)'
  BY <1>3, AllowedReturn DEF Refuse
<1>4. ASSUME NEW rp \in Resolutions(r), Forward(r, rp) PROVE Allowed(q)'
  <2> DEFINE passes == rp.key \in KeysSet /\ UpstreamOf(PolicyOf(r), rp) \in URLs
  <2>1. CASE ~passes
    BY <1>4, <2>1, AllowedReturn DEF Forward
  <2>2. CASE passes /\ q # r
    <3>1. /\ policy'[q] = policy[q] /\ resolved'[q] = resolved[q] /\ sent'[q] = sent[q]
          /\ Goto(r, "upstream")
      BY <1>4, <2>2 DEF Forward, CallsInv
    <3> QED
      BY <2>2, <3>1, AllowedOthers
  <2>3. CASE passes /\ q = r
    <3> DEFINE messages == InjectPrompts(rp, MaskedMessages(rp, MessagesOf[r]))
    <3>1. /\ policy'[r] = policy[r] /\ pc[r] = "chat" /\ ~IsBlocked(rp, MessagesOf[r])
          /\ resolved'[r].provider = rp.provider
          /\ sent'[r].key = rp.key /\ sent'[r].messages = messages
      BY <1>4, <2>3 DEF Forward, CallsInv
    <3>2. PICK text \in Policy : Validate(text) /\ PolicyOf(r) = Parse(text)
      BY <3>1, PolicyHeld
    <3>3. PICK found \in ResolveForModel(PolicyOf(r), ModelOf[r]) :
            rp = [found EXCEPT !.key = KeyOf(PolicyOf(r), found)]
      BY <1>4, ResolutionOf
    <3>4. ModelOf[r] \in Models /\ MessagesOf[r] \in Seq({NotText} \cup SUBSET Subjects)
      BY RequestsAssumption
    <3>5. /\ KeyAllowed(PolicyOf(r), ModelOf[r], rp.provider, rp.key)
          /\ TextsAllowed(ToSet(PolicyOf(r).rules)
                           \cup ToSet(OwnRules(PolicyOf(r), ModelOf[r], rp.provider)),
                         MessagesOf[r], messages)
      BY <3>1, <3>2, <3>3, <3>4, ForwardIsAllowed
    <3>6. PolicyOf(r)' = PolicyOf(r)
      BY <3>1 DEF PolicyOf
    <3> HIDE DEF messages
    <3>7. /\ KeyAllowed(PolicyOf(r)', ModelOf[r], resolved'[r].provider, sent'[r].key)
          /\ TextsAllowed(ToSet(PolicyOf(r)'.rules)
                           \cup ToSet(OwnRules(PolicyOf(r)', ModelOf[r], resolved'[r].provider)),
                         MessagesOf[r], sent'[r].messages)
      BY <3>1, <3>5, <3>6
    <3>8. Allowed(r)'
      BY <3>7 DEF Allowed, KeyAllowed, TextsAllowed, OwnRules, FirstMatching, GlobalKey
    <3> QED
      BY <2>3, <3>8 DEF Allowed
  <2> QED
    BY <2>1, <2>2, <2>3
<1>5. CASE Use(r) \/ PassAnswered(r) \/ RecordLedgerEntry(r)
  <2>1. /\ UNCHANGED <<policy, resolved, sent>> /\ pc[r] \in Sending
        /\ \E place : Goto(r, place)
    BY <1>5 DEF Use, PassAnswered, RecordLedgerEntry, Sending
  <2>2. pc'[q] \in Sending => pc[q] \in Sending
    BY <2>1 DEF CallsInv, Goto
  <2> QED
    BY <2>1, <2>2, AllowedKept
<1>7. ASSUME NEW fails \in BOOLEAN, Meter(r, fails) PROVE Allowed(q)'
  <2>1. /\ UNCHANGED <<policy, sent>> /\ pc[r] = "meter" /\ Goto(r, "entry")
        /\ resolved' = [resolved EXCEPT ![r] = [resolved[r] EXCEPT !.broken = fails]]
    BY <1>7 DEF Meter
  <2>2. resolved[r] \in Recorded /\ DOMAIN resolved = Requests
    BY <2>1 DEF CallsInv
  <2>3. resolved'[q].provider = resolved[q].provider
    BY <2>1, <2>2 DEF Recorded
  <2>4. pc'[q] \in Sending => pc[q] \in Sending
    BY <2>1 DEF CallsInv, Goto, Sending
  <2> QED
    BY <2>1, <2>3, <2>4, AllowedKept
<1>8. ASSUME NEW model \in Models, Fallback(r, model) PROVE Allowed(q)'
  <2>1. /\ UNCHANGED <<policy, resolved>> /\ pc[r] = "upstream" /\ Goto(r, "upstream")
        /\ sent' = [sent EXCEPT ![r] = [sent[r] EXCEPT !.model = model]]
    BY <1>8 DEF Fallback
  <2>2. IsCall(sent[r]) /\ DOMAIN sent = Requests
    BY <2>1 DEF CallsInv
  <2>3. sent'[q].key = sent[q].key /\ sent'[q].messages = sent[q].messages
    <3>1. CASE q # r
      BY <2>1, <2>2, <3>1
    <3>2. CASE q = r
      BY <2>1, <2>2, <3>2 DEF IsCall
    <3> QED
      BY <3>1, <3>2
  <2>4. pc'[q] = pc[q]
    BY <2>1 DEF CallsInv, Goto
  <2> QED
    BY <2>1, <2>3, <2>4, AllowedKept
<1>6. CASE Passthrough(r)
  <2>1. pc[r] = "pass" /\ KindOf[r] # "chat"
    BY <1>6 DEF Passthrough, CallsInv
  <2>2. CASE q = r
    BY <2>1, <2>2 DEF Allowed
  <2>3. CASE q # r
    <3>1. /\ policy'[q] = policy[q] /\ resolved'[q] = resolved[q] /\ sent'[q] = sent[q]
          /\ \E place : Goto(r, place)
      BY <1>6, <2>3 DEF Passthrough, HandlerReturns, CallsInv
    <3> QED
      BY <2>3, <3>1, AllowedOthers
  <2> QED
    BY <2>2, <2>3
<1> QED
  BY <1>1, <1>2, <1>3, <1>4, <1>5, <1>6, <1>7, <1>8 DEF Call

\* Every call of a chat request goes with what the policy it looked up has for the model
\* it asked for, for any policies and fallbacks, however the lookups and the requests
\* interleave.
THEOREM ForwardsAreAllowed == Spec => []ForwardsAllowed
<1> DEFINE All == \A r \in Requests : Allowed(r)
<1>1. Init => All
  BY DEF Init, Allowed, Sending
<1>2. CallsInv /\ All /\ [Next]_vars => All'
  <2> SUFFICES ASSUME CallsInv, All, [Next]_vars, NEW r \in Requests PROVE Allowed(r)'
    OBVIOUS
  <2>1. CASE UNCHANGED calls
    BY <2>1, AllowedKept DEF calls
  <2>2. CASE \E q \in Requests : Call(q)
    BY <2>2, AllowedStep
  <2> QED
    BY <2>1, <2>2, CallsOrNot
<1>3. CallsInv /\ All => ForwardsAllowed
  <2>1. CallsInv => \A r \in Requests : sent[r] # None => pc[r] \in Sending
    BY DEF CallsInv, Sending
  <2> QED
    BY <2>1, AllowedParts DEF Allowed
<1> QED
  BY <1>1, <1>2, <1>3, CallsInvariant, PTL DEF Spec

----------------------------------------------------------------------------
(* The statistics.                                                         *)

Fields == {"requests", "tokens"}
Usage == [requests: Nat, tokens: Nat]
UsageTable(f, keys) == DOMAIN f = keys /\ \A k \in keys : f[k] \in Usage

\* One more request under a key.
RecordedIn(f, key, n) == [f EXCEPT ![key] = Plus(@, [requests |-> 1, tokens |-> n])]

\* What it adds to a field.
Added(n, field) == IF field = "requests" THEN 1 ELSE n

\* A total is a natural number.
LEMMA TotalType ==
  ASSUME NEW keys, IsFiniteSet(keys), NEW f, UsageTable(f, keys), NEW field \in Fields
  PROVE  SumField(f, field) \in Nat
<1> DEFINE a == [k \in DOMAIN f |-> f[k][field]]
<1>1. \A k \in keys : a[k] \in Nat
  BY DEF UsageTable, Fields, Usage
<1>2. SumField(f, field) = SumOver(a, keys)
  BY DEF SumField, UsageTable
<1> HIDE DEF a
<1> QED
  BY <1>1, <1>2, SumType

\* One more request under a key adds what it used to the total; there may be no such key.
LEMMA TotalAdded ==
  ASSUME NEW keys, IsFiniteSet(keys), NEW f, UsageTable(f, keys), NEW key, NEW n \in Nat,
         NEW g, g = RecordedIn(f, key, n), NEW field \in Fields
  PROVE  /\ UsageTable(g, keys)
         /\ key \in keys => SumField(g, field) = SumField(f, field) + Added(n, field)
         /\ key \notin keys => SumField(g, field) = SumField(f, field)
<1> DEFINE a == [k \in DOMAIN f |-> f[k][field]]
           b == [k \in DOMAIN g |-> g[k][field]]
<1>1. DOMAIN g = keys /\ DOMAIN f = keys
  BY DEF UsageTable, RecordedIn
<1>2. \A k \in keys \ {key} : g[k] = f[k]
  BY <1>1 DEF RecordedIn
<1>3. key \in keys => g[key] = Plus(f[key], [requests |-> 1, tokens |-> n])
  BY <1>1 DEF RecordedIn
<1>4. \A k \in keys : f[k] \in Usage
  BY DEF UsageTable
<1>5. key \in keys => g[key] \in Usage /\ g[key][field] = f[key][field] + Added(n, field)
  BY <1>3, <1>4 DEF Usage, Plus, Added, Fields
<1>6. \A k \in keys : g[k] \in Usage
  BY <1>2, <1>4, <1>5
<1>7. \A k \in keys : a[k] \in Nat /\ b[k] \in Nat
  BY <1>1, <1>4, <1>6 DEF Usage, Fields
<1>8. \A k \in keys \ {key} : b[k] = a[k]
  BY <1>1, <1>2
<1>9. key \in keys => b[key] = a[key] + Added(n, field)
  BY <1>1, <1>5
<1>10. SumField(f, field) = SumOver(a, keys) /\ SumField(g, field) = SumOver(b, keys)
  BY <1>1 DEF SumField
<1> HIDE DEF a, b
<1>11. CASE key \in keys
  <2>1. SumOver(b, keys) = SumOver(a, keys) - a[key] + b[key]
    BY <1>7, <1>8, <1>11, SumChanged
  <2>2. SumOver(a, keys) \in Nat /\ a[key] \in Nat /\ Added(n, field) \in Nat
    BY <1>7, <1>11, SumType DEF Added
  <2>3. SumOver(b, keys) = SumOver(a, keys) + Added(n, field)
    BY <1>9, <1>11, <2>1, <2>2
  <2> QED
    BY <1>1, <1>6, <1>10, <1>11, <2>3 DEF UsageTable
<1>12. CASE key \notin keys
  <2>1. SumOver(b, keys) = SumOver(a, keys)
    BY <1>7, <1>8, <1>12, SumSame
  <2> QED
    BY <1>1, <1>6, <1>10, <1>12, <2>1 DEF UsageTable
<1> QED
  BY <1>11, <1>12

\* There are finitely many tokens to show.
LEMMA DisplaysFinite == IsFiniteSet(Displays)
<1> DEFINE f == [t \in Tokens |-> Display[t]]
<1>1. f \in Surjection(Tokens, Displays)
  BY DEF Surjection, Displays
<1> HIDE DEF f
<1> QED
  BY <1>1, StatsAssumption, FS_Surjection

\* Usage by model is never more than usage by token, and what a report has copied of
\* the first is no more than there is now.
UsageCounted(byModel, byToken, reported) ==
  /\ UsageTable(byModel, StatsKeys) /\ UsageTable(byToken, Displays)
  /\ reported # None => reported["entries"] \in Usage
  /\ \A field \in Fields :
       /\ SumField(byModel, field) <= SumField(byToken, field)
       /\ reported # None => reported["entries"][field] <= SumField(byModel, field)

UsageInv == UsageCounted(entries, sessionEntries, report)

\* Usage that is recorded, in numbers: what is added to one is added to the other.
LEMMA UsageAdded ==
  ASSUME NEW e, UsageTable(e, StatsKeys), NEW s, UsageTable(s, Displays),
         NEW token \in Tokens, NEW key, NEW n \in Nat,
         NEW e2, e2 = RecordedIn(e, key, n), NEW s2, s2 = RecordedIn(s, Display[token], n),
         NEW field \in Fields, SumField(e, field) <= SumField(s, field)
  PROVE  /\ UsageTable(e2, StatsKeys) /\ UsageTable(s2, Displays)
         /\ SumField(e2, field) <= SumField(s2, field)
         /\ SumField(e, field) <= SumField(e2, field)
<1>1. IsFiniteSet(StatsKeys) /\ IsFiniteSet(Displays) /\ Display[token] \in Displays
  BY StatsAssumption, DisplaysFinite DEF Displays
<1>2. /\ UsageTable(e2, StatsKeys)
      /\ \/ SumField(e2, field) = SumField(e, field) + Added(n, field)
         \/ SumField(e2, field) = SumField(e, field)
  BY <1>1, TotalAdded
<1>3. UsageTable(s2, Displays) /\ SumField(s2, field) = SumField(s, field) + Added(n, field)
  BY <1>1, TotalAdded
<1>4. SumField(e, field) \in Nat /\ SumField(s, field) \in Nat /\ Added(n, field) \in Nat
  BY <1>1, TotalType DEF Added
<1> QED
  BY <1>2, <1>4, <1>3

\* A step records usage, or copies it for a report, or neither.
LEMMA StatsOrNot ==
  ASSUME [Next]_vars
  PROVE  \/ UNCHANGED <<statsVars, report>>
         \/ Snapshot
         \/ /\ UNCHANGED report
            /\ \E r \in Requests, n \in Nat : \E key : Record(TokenOf[r], key, n)
<1>1. ASSUME NEW r \in Requests, Call(r)
      PROVE  \/ UNCHANGED <<statsVars, report>>
             \/ UNCHANGED report /\ \E n \in Nat : \E key : Record(TokenOf[r], key, n)
  <2>0. UsageOf[r] \in Nat /\ PromptOf[r] \in Nat
    BY RequestsAssumption
  <2>1. CASE Exhausted(r)
    BY <2>0, <2>1 DEF Exhausted
  <2>7. ASSUME NEW fails \in BOOLEAN, Meter(r, fails)
        PROVE  UNCHANGED report /\ \E n \in Nat : \E key : Record(TokenOf[r], key, n)
    <3>1. TokensOf(r)' \in Nat
      BY <2>0 DEF TokensOf
    <3>2. UNCHANGED report /\ Record(TokenOf[r], <<sent[r].model, resolved[r].key>>, TokensOf(r)')
      BY <2>7 DEF Meter
    <3> HIDE DEF TokensOf
    <3> QED
      BY <3>1, <3>2
  <2>8. ASSUME NEW model, Fallback(r, model) PROVE UNCHANGED <<statsVars, report>>
    BY <2>8 DEF Fallback
  <2>2. ASSUME NEW rp, NEW n \in {0, PromptOf[r]}, Refuse(r, rp, n)
        PROVE  UNCHANGED report /\ \E k \in Nat : \E key : Record(TokenOf[r], key, k)
    BY <2>0, <2>2 DEF Refuse
  <2>3. ASSUME NEW rp, Forward(r, rp) PROVE UNCHANGED <<statsVars, report>>
    BY <2>3 DEF Forward
  <2>4. ASSUME NEW p, ServeHTTP(r, p) PROVE UNCHANGED <<statsVars, report>>
    BY <2>4 DEF ServeHTTP
  <2>5. CASE Use(r) \/ Passthrough(r) \/ PassAborted(r) \/ PassAnswered(r)
    BY <2>5 DEF Use, Passthrough, PassAborted, PassAnswered
  <2>6. CASE RecordLedgerEntry(r) \/ Finish(r)
    BY <2>6 DEF RecordLedgerEntry, Finish
  <2> QED
    BY <1>1, <2>1, <2>2, <2>3, <2>4, <2>5, <2>6, <2>7, <2>8 DEF Call
<1>2. CASE Main
  BY <1>2 DEF Main, Start, Return, SkipLedger, OpenLedger, NotifyContext, NoCertificates, OpenStore,
       StartHTTP, StartHTTPS, SeeSignal, SeeError, WaitForServers, DeferredStop, DeferredStore,
       DeferredLedger, Exit, others
<1>3. CASE Signal \/ UNCHANGED vars
  BY <1>3 DEF Signal, others, vars
<1>4. CASE \E s \in Servers : Shutdown(s) \/ ServerFails(s)
  BY <1>4 DEF Shutdown, BeginShutdown, Drained, DrainTimesOut, ServerFails, others
<1> QED
  BY <1>1, <1>2, <1>3, <1>4 DEF Next

\* What is recorded keeps the invariant.
LEMMA RecordCounts ==
  ASSUME NEW e, NEW s, NEW rep, UsageCounted(e, s, rep),
         NEW token \in Tokens, NEW key, NEW n \in Nat,
         NEW e2, e2 = RecordedIn(e, key, n), NEW s2, s2 = RecordedIn(s, Display[token], n)
  PROVE  UsageCounted(e2, s2, rep)
<1>1. /\ UsageTable(e, StatsKeys) /\ UsageTable(s, Displays)
      /\ rep # None => rep["entries"] \in Usage
      /\ \A field \in Fields :
           /\ SumField(e, field) <= SumField(s, field)
           /\ rep # None => rep["entries"][field] <= SumField(e, field)
  BY DEF UsageCounted
<1>2. ASSUME NEW field \in Fields
      PROVE  /\ UsageTable(e2, StatsKeys) /\ UsageTable(s2, Displays)
             /\ SumField(e2, field) <= SumField(s2, field)
             /\ rep # None => rep["entries"][field] <= SumField(e2, field)
  <2>1. /\ UsageTable(e2, StatsKeys) /\ UsageTable(s2, Displays)
        /\ SumField(e2, field) <= SumField(s2, field) /\ SumField(e, field) <= SumField(e2, field)
    BY <1>1, UsageAdded
  <2>2. SumField(e, field) \in Nat /\ SumField(e2, field) \in Nat
    BY <1>1, <2>1, StatsAssumption, TotalType
  <2>3. rep # None => rep["entries"][field] \in Nat
    BY <1>1 DEF Usage, Fields
  <2>4. rep # None => rep["entries"][field] <= SumField(e2, field)
    BY <1>1, <2>1, <2>2, <2>3
  <2> QED
    BY <2>1, <2>4
<1>3. "tokens" \in Fields
  BY DEF Fields
<1> QED
  BY <1>1, <1>2, <1>3 DEF UsageCounted

\* A report copies the usage by model as it is.
LEMMA CopyCounts ==
  ASSUME NEW e, NEW s, NEW rep, UsageCounted(e, s, rep),
         NEW rep2, rep2 = None \/ rep2 = [which \in {"entries"} |-> TotalUsage(e)]
  PROVE  UsageCounted(e, s, rep2)
<1>1. UsageTable(e, StatsKeys) /\ IsFiniteSet(StatsKeys)
  BY StatsAssumption DEF UsageCounted
<1>2. \A field \in Fields : SumField(e, field) \in Nat
  BY <1>1, TotalType
<1>3. TotalUsage(e) \in Usage /\ \A field \in Fields : TotalUsage(e)[field] = SumField(e, field)
  BY <1>2 DEF TotalUsage, Usage, Fields
<1>4. rep2 # None => rep2["entries"] = TotalUsage(e)
  OBVIOUS
<1>5. \A field \in Fields : SumField(e, field) <= SumField(e, field)
  BY <1>2
<1> QED
  BY <1>3, <1>4, <1>5 DEF UsageCounted

\* Nothing is counted at first.
LEMMA NothingCounted ==
  ASSUME NEW keys, IsFiniteSet(keys), NEW field \in Fields
  PROVE  UsageTable([k \in keys |-> NoUsage], keys) /\ SumField([k \in keys |-> NoUsage], field) = 0
<1> DEFINE f == [k \in keys |-> NoUsage]
           a == [k \in DOMAIN f |-> f[k][field]]
<1>1. \A k \in keys : a[k] = 0
  BY DEF NoUsage, Fields
<1>2. SumField(f, field) = SumOver(a, keys)
  BY DEF SumField
<1> HIDE DEF a
<1>3. SumOver(a, keys) = 0
  BY <1>1, SumZero
<1>4. UsageTable(f, keys)
  BY DEF UsageTable, NoUsage, Usage
<1> QED
  BY <1>2, <1>3, <1>4

\* UsageInv is inductive.
LEMMA UsageInvariant == Spec => []UsageInv
<1>1. Init => UsageInv
  <2> SUFFICES ASSUME Init PROVE UsageInv
    OBVIOUS
  <2>1. /\ entries = [k \in StatsKeys |-> NoUsage] /\ sessionEntries = [d \in Displays |-> NoUsage]
        /\ report = None
    BY DEF Init, NewUsageStats
  <2>2. \A field \in Fields :
          /\ UsageTable(entries, StatsKeys) /\ SumField(entries, field) = 0
          /\ UsageTable(sessionEntries, Displays) /\ SumField(sessionEntries, field) = 0
    BY <2>1, NothingCounted, StatsAssumption, DisplaysFinite
  <2>3. "tokens" \in Fields
    BY DEF Fields
  <2> QED
    BY <2>1, <2>2, <2>3 DEF UsageInv, UsageCounted
<1>2. UsageInv /\ [Next]_vars => UsageInv'
  <2> SUFFICES ASSUME UsageInv, [Next]_vars PROVE UsageInv'
    OBVIOUS
  <2>1. CASE UNCHANGED <<statsVars, report>>
    BY <2>1 DEF UsageInv, UsageCounted, UsageTable, statsVars, Displays, SumField
  <2>2. CASE Snapshot
    <3>1. UNCHANGED statsVars
      BY <2>2 DEF Snapshot
    <3>2. report' = None \/ report' = [which \in {"entries"} |-> TotalUsage(entries)]
      BY <2>2 DEF Snapshot, Snapshots, TotalOf
    <3>3. UsageCounted(entries, sessionEntries, report')
      BY <3>2, CopyCounts DEF UsageInv
    <3> QED
      BY <3>1, <3>3 DEF UsageInv, UsageCounted, UsageTable, statsVars, Displays, SumField
  <2>3. ASSUME UNCHANGED report, NEW r \in Requests, NEW n \in Nat, NEW key,
               Record(TokenOf[r], key, n)
        PROVE  UsageInv'
    <3>1. /\ TokenOf[r] \in Tokens
          /\ entries' = RecordedIn(entries, key, n)
          /\ sessionEntries' = RecordedIn(sessionEntries, Display[TokenOf[r]], n)
      BY <2>3, RequestsAssumption DEF Record, RecordedIn
    <3>2. UsageCounted(entries', sessionEntries', report)
      BY <3>1, RecordCounts DEF UsageInv
    <3> QED
      BY <2>3, <3>2 DEF UsageInv, UsageCounted, UsageTable, Displays, SumField
  <2> QED
    BY <2>1, <2>2, <2>3, StatsOrNot
<1> QED
  BY <1>1, <1>2, PTL DEF Spec

\* A report is put together from two copies that agree, whatever is recorded between
\* them: what it shows by model it shows by token.
LEMMA AnswerAgrees ==
  ASSUME UsageInv, report # None, NEW field \in Fields
  PROVE  Answer["entries"][field] <= Answer["sessionEntries"][field]
<1>1. /\ UsageTable(entries, StatsKeys) /\ UsageTable(sessionEntries, Displays)
      /\ report["entries"] \in Usage
      /\ SumField(entries, field) <= SumField(sessionEntries, field)
      /\ report["entries"][field] <= SumField(entries, field)
  BY DEF UsageInv, UsageCounted
<1>2. SumField(entries, field) \in Nat /\ SumField(sessionEntries, field) \in Nat
  BY <1>1, TotalType, StatsAssumption, DisplaysFinite
<1>3. report["entries"][field] \in Nat
  BY <1>1 DEF Usage, Fields
<1>4. Answer["entries"] = report["entries"]
  BY DEF Answer, Snapshots
<1>5. Answer["sessionEntries"][field] = SumField(sessionEntries, field)
  BY DEF Answer, Snapshots, TotalOf, TotalUsage, Fields
<1> QED
  BY <1>1, <1>2, <1>3, <1>4, <1>5

\* A report never shows more usage by model than by token, for any number of requests,
\* keys and tokens and however they are recorded while the report is made.
THEOREM ReportsAlwaysAgree == Spec => ReportsAgree
<1>1. ASSUME UsageInv, report # None
      PROVE  \A field \in DOMAIN NoUsage : Answer.entries[field] <= Answer.sessionEntries[field]
  <2>1. DOMAIN NoUsage = Fields
    BY DEF NoUsage, Fields
  <2> QED
    BY <1>1, <2>1, AnswerAgrees
<1>2. UsageInv /\ [Next]_vars =>
        [report # None /\ report' = None =>
           \A field \in DOMAIN NoUsage :
             Answer.entries[field] <= Answer.sessionEntries[field]]_vars
  BY <1>1
<1> QED
  BY <1>2, UsageInvariant, PTL DEF Spec, ReportsAgree

----------------------------------------------------------------------------
(* The servers, their drains and runServe.                                 *)

Returned == main \in {"return", "exited"}

\* A server that is off has no requests; one that is shut down takes no new ones, and
\* has none left when its drain is over, unless they are cut off.  runServe returns
\* when all drains are over, unless requests are cut off.
LifeInv ==
  /\ server \in [Servers -> {"off", "up", "failed", "closed"}]
  /\ drain \in [Servers -> {"none", "waiting", "draining", "done"}]
  /\ cut \in BOOLEAN
  /\ \A s \in Servers :
       /\ drain[s] = "none" => server[s] = "off"
       /\ server[s] = "off" => drain[s] = "none" /\ InFlight(s) = {}
       /\ drain[s] \in {"draining", "done"} => server[s] # "up"
       /\ drain[s] = "done" /\ ~cut => InFlight(s) = {}
       /\ main \in {"store", "ledger"} => server[s] = "off"
       /\ Returned /\ ~cut => drain[s] \in {"none", "done"}
  /\ main \in {"store", "ledger"} => \A r \in Requests : pc[r] = "new"

\* A request goes on when it has come, and comes only to a server that is up.
LEMMA CallMoves ==
  ASSUME CallsInv, NEW r \in Requests, Call(r)
  PROVE  /\ UNCHANGED life /\ pc[r] # "done"
         /\ \E place \in Places : Goto(r, place)
         /\ pc[r] = "new" => server[ServerOf[r]] = "up"
<1>1. \/ \E p : ServeHTTP(r, p)
      \/ pc[r] \notin {"new", "done"} /\ UNCHANGED life
         /\ \E place \in Places : Goto(r, place)
  <2>1. ASSUME NEW rp, NEW n, Refuse(r, rp, n) \/ Forward(r, rp)
        PROVE  pc[r] \notin {"new", "done"} /\ UNCHANGED life /\ \E place \in Places : Goto(r, place)
    BY <2>1 DEF Refuse, Forward, HandlerReturns, Places
  <2>2. ASSUME NEW model, NEW fails,
               Exhausted(r) \/ Fallback(r, model) \/ Use(r) \/ Meter(r, fails)
        PROVE  pc[r] \notin {"new", "done"} /\ UNCHANGED life /\ \E place \in Places : Goto(r, place)
    BY <2>2 DEF Exhausted, Fallback, Use, Meter, HandlerReturns, Places
  <2>3. CASE Passthrough(r)
    BY <2>3 DEF Passthrough, HandlerReturns, Places
  <2>4. CASE PassAborted(r) \/ PassAnswered(r) \/ RecordLedgerEntry(r) \/ Finish(r)
    BY <2>4 DEF PassAborted, PassAnswered, RecordLedgerEntry, Finish, HandlerReturns, Places
  <2> QED
    BY <2>1, <2>2, <2>3, <2>4 DEF Call
<1>2. ASSUME NEW p, ServeHTTP(r, p)
      PROVE  /\ UNCHANGED life /\ pc[r] = "new" /\ server[ServerOf[r]] = "up"
             /\ \E place \in Places : Goto(r, place)
  <2>1. KindOf[r] \in Places
    BY RequestsAssumption DEF Places
  <2> QED
    BY <1>2, <2>1 DEF ServeHTTP, HandlerReturns, Places
<1> QED
  BY <1>1, <1>2

\* A request that moves keeps the lifecycle's invariant.
LEMMA LifeCall ==
  ASSUME CallsInv, LifeInv, NEW r \in Requests, Call(r)
  PROVE  LifeInv'
<1>1. /\ UNCHANGED life /\ pc[r] # "done"
      /\ \E place \in Places : Goto(r, place)
      /\ pc[r] = "new" => server[ServerOf[r]] = "up"
  BY CallMoves
<1>2. ServerOf[r] \in Servers
  BY RequestsAssumption
<1>3. \A q \in Requests \ {r} : pc'[q] = pc[q]
  BY <1>1 DEF Goto, CallsInv
<1>4. ASSUME NEW s \in Servers, server[s] # "up" \/ s # ServerOf[r], InFlight(s) = {}
      PROVE  InFlight(s)' = {}
  <2>1. s # ServerOf[r]
    BY <1>1, <1>4 DEF InFlight
  <2> QED
    BY <1>3, <1>4, <2>1 DEF InFlight
<1>5. ~(main \in {"store", "ledger"})
  BY <1>1, <1>2 DEF LifeInv
<1>6. UNCHANGED <<main, server, drain, cut>>
  BY <1>1 DEF life
<1>7. ASSUME NEW s \in Servers
      PROVE  /\ server[s] = "off" => InFlight(s)' = {}
             /\ drain[s] = "done" /\ ~cut => InFlight(s)' = {}
  BY <1>4 DEF LifeInv
<1> QED
  BY <1>5, <1>6, <1>7 DEF LifeInv, Returned

\* runServe's own steps.
LEMMA LifeMain ==
  ASSUME LifeInv, Main
  PROVE  LifeInv'
<1>1. pc' = pc /\ \A s \in Servers : InFlight(s)' = InFlight(s)
  BY DEF Main, Start, Return, SkipLedger, OpenLedger, NotifyContext, NoCertificates, OpenStore,
     StartHTTP, StartHTTPS, SeeSignal, SeeError, WaitForServers, DeferredStop, DeferredStore,
     DeferredLedger, Exit, others, calls, InFlight
<1>2. CASE SkipLedger \/ OpenLedger \/ NotifyContext
  BY <1>1, <1>2 DEF SkipLedger, OpenLedger, NotifyContext, LifeInv, Returned
<1>3. CASE NoCertificates \/ SeeError
  BY <1>1, <1>3 DEF NoCertificates, SeeError, LifeInv, Returned
<1>4. ASSUME NEW fails \in BOOLEAN, OpenStore(fails) PROVE LifeInv'
  BY <1>1, <1>4 DEF OpenStore, LifeInv, Returned
<1>5. CASE StartHTTP
  <2>1. \/ server' = server /\ drain' = drain
        \/ server' = [server EXCEPT !["http"] = "up"] /\ drain' = [drain EXCEPT !["http"] = "waiting"]
    BY <1>5 DEF StartHTTP, StartServer
  <2> QED
    BY <1>1, <1>5, <2>1 DEF StartHTTP, LifeInv, Returned, Servers
<1>6. CASE StartHTTPS
  <2>1. \/ server' = server /\ drain' = drain
        \/ server' = [server EXCEPT !["https"] = "up"] /\ drain' = [drain EXCEPT !["https"] = "waiting"]
    BY <1>6 DEF StartHTTPS, StartServer
  <2> QED
    BY <1>1, <1>6, <2>1 DEF StartHTTPS, LifeInv, Returned, Servers
<1>7. CASE SeeSignal \/ DeferredStop \/ DeferredStore \/ Exit
  BY <1>1, <1>7 DEF SeeSignal, DeferredStop, DeferredStore, Exit, Returning, LifeInv, Returned
<1>8. CASE WaitForServers
  BY <1>1, <1>8 DEF WaitForServers, LifeInv, Returned
<1>9. ASSUME NEW fails \in BOOLEAN, DeferredLedger(fails) PROVE LifeInv'
  BY <1>1, <1>9 DEF DeferredLedger, LifeInv, Returned
<1> QED
  BY <1>2, <1>3, <1>4, <1>5, <1>6, <1>7, <1>8, <1>9 DEF Main, Start, Return

\* The servers fail and are shut down.
LEMMA LifeServers ==
  ASSUME LifeInv, NEW s \in Servers, Shutdown(s) \/ ServerFails(s)
  PROVE  LifeInv'
<1>1. /\ main' = main /\ pc' = pc /\ \A t \in Servers : InFlight(t)' = InFlight(t)
  BY DEF Shutdown, BeginShutdown, Drained, DrainTimesOut, ServerFails, others, calls, InFlight
<1>2. CASE BeginShutdown(s)
  BY <1>1, <1>2 DEF BeginShutdown, LifeInv, Returned
<1>3. CASE Drained(s)
  BY <1>1, <1>3 DEF Drained, LifeInv, Returned
<1>4. CASE DrainTimesOut(s)
  BY <1>1, <1>4 DEF DrainTimesOut, LifeInv, Returned
<1>5. CASE ServerFails(s)
  BY <1>1, <1>5 DEF ServerFails, LifeInv, Returned
<1> QED
  BY <1>2, <1>3, <1>4, <1>5 DEF Shutdown

\* LifeInv is inductive, with what is known of the requests.
LEMMA LifeInvariant == Spec => []LifeInv
<1>1. Init => LifeInv
  <2> SUFFICES ASSUME Init PROVE LifeInv
    OBVIOUS
  <2>1. /\ main = "store" /\ cut = FALSE
        /\ server = [s \in Servers |-> "off"] /\ drain = [s \in Servers |-> "none"]
        /\ pc = [r \in Requests |-> "new"]
    BY DEF Init
  <2>2. \A s \in Servers : InFlight(s) = {}
    BY <2>1 DEF InFlight
  <2> QED
    BY <2>1, <2>2 DEF LifeInv, Returned
<1>2. CallsInv /\ LifeInv /\ [Next]_vars => LifeInv'
  <2> SUFFICES ASSUME CallsInv, LifeInv, [Next]_vars PROVE LifeInv'
    OBVIOUS
  <2>1. CASE Signal \/ Snapshot \/ UNCHANGED vars
    BY <2>1 DEF Signal, Snapshot, others, vars, life, calls, LifeInv, Returned, InFlight
  <2> QED
    BY <2>1, LifeCall, LifeMain, LifeServers DEF Next
<1> QED
  BY <1>1, <1>2, CallsInvariant, PTL DEF Spec

----------------------------------------------------------------------------
(* The session ledger: its entries and events.                             *)

Entry == [request: Requests, token: Tokens, model: Models,
          provider: Providers \cup {None}, tokens: Nat]
Listed(es) == {es[i].request : i \in DOMAIN es}

\* Entries and events that agree: one entry for a request, one for each that is
\* completed, and the start of each that has one.
Agree(es, evs) ==
  /\ es \in Seq(Entry)
  /\ Cardinality(Listed(es)) = Len(es)
  /\ \A r \in Requests :
       /\ <<r, "response.completed">> \in evs => r \in Listed(es)
       /\ r \in Listed(es) /\ EventLedger => <<r, "response.started">> \in evs

\* Nothing agrees with nothing.
LEMMA AgreeEmpty == Agree(<<>>, {})
<1>1. Listed(<<>>) = {}
  BY DEF Listed
<1>2. Cardinality(Listed(<<>>)) = 0
  BY <1>1, FS_EmptySet
<1> QED
  BY <1>1, <1>2 DEF Agree

\* The listed requests are finitely many.
LEMMA ListedFinite ==
  ASSUME NEW es \in Seq(Entry)
  PROVE  IsFiniteSet(Listed(es))
<1> DEFINE f == [i \in 1..Len(es) |-> es[i].request]
<1>1. f \in Surjection(1..Len(es), Listed(es))
  BY DEF Surjection, Listed
<1>2. IsFiniteSet(1..Len(es))
  BY FS_Interval
<1> HIDE DEF f
<1> QED
  BY <1>1, <1>2, FS_Surjection

\* One more entry, of a request that has none and has started.
LEMMA AgreeAppend ==
  ASSUME NEW es, NEW evs, Agree(es, evs), NEW e \in Entry, e.request \notin Listed(es),
         EventLedger => <<e.request, "response.started">> \in evs
  PROVE  Listed(Append(es, e)) = Listed(es) \cup {e.request} /\ Agree(Append(es, e), evs)
<1>1. es \in Seq(Entry)
  BY DEF Agree
<1>2. /\ Append(es, e) \in Seq(Entry) /\ Len(Append(es, e)) = Len(es) + 1
      /\ DOMAIN Append(es, e) = (DOMAIN es) \cup {Len(es) + 1}
      /\ Append(es, e)[Len(es) + 1] = e
      /\ \A i \in DOMAIN es : Append(es, e)[i] = es[i]
  <2>1. /\ Append(es, e) \in Seq(Entry) /\ Len(Append(es, e)) = Len(es) + 1
        /\ Append(es, e)[Len(es) + 1] = e
        /\ \A i \in 1..Len(es) : Append(es, e)[i] = es[i]
    BY <1>1, AppendProperties
  <2>2. DOMAIN es = 1..Len(es) /\ Len(es) \in Nat /\ DOMAIN Append(es, e) = 1..Len(es) + 1
    BY <1>1, <2>1
  <2>3. 1..Len(es) + 1 = (1..Len(es)) \cup {Len(es) + 1}
    BY <2>2
  <2> QED
    BY <2>1, <2>2, <2>3
<1>3. Listed(Append(es, e)) = Listed(es) \cup {e.request}
  BY <1>2 DEF Listed
<1>4. Cardinality(Listed(es) \cup {e.request}) = Cardinality(Listed(es)) + 1
  BY <1>1, ListedFinite, FS_AddElement
<1> QED
  BY <1>2, <1>3, <1>4 DEF Agree

\* More events of a request, which is listed when it is completed.
LEMMA AgreeEvents ==
  ASSUME NEW es, NEW evs, Agree(es, evs), NEW r, NEW types,
         "response.completed" \in types => r \in Listed(es)
  PROVE  Agree(es, evs \cup ({r} \X types))
BY DEF Agree

\* What the ledger, when there is one, has been told of a request that is at a place.
Told(place, used, listed, begun) ==
  /\ place \in {"meter", "entry"} /\ EventLedger => begun
  /\ place = "last" => listed
  /\ place = "done" /\ used => listed
  /\ listed => place \in {"last", "done"}

ToldOf(r) ==
  Told(pc[r], answered[r], r \in Listed(requests), <<r, "response.started">> \in commEvents)

LedgerInv ==
  /\ Agree(requests, commEvents)
  /\ main \in {"store", "ledger"} => ledger = "none"
  /\ ledger = "none" => requests = <<>> /\ commEvents = {}
  /\ ledger # "none" => \A r \in Requests : ToldOf(r)

\* The steps of a request that tell the ledger nothing.
Quiet(r) ==
  /\ UNCHANGED <<ledgerVars, main, answered>>
  /\ \E place \in {"chat", "pass", "upstream", "entry", "done"} :
       /\ Goto(r, place)
       /\ pc[r] \in IF place = "entry" THEN {"meter"} ELSE {"new", "chat", "pass", "upstream"}

\* The steps that tell it of an event.
Telling(r) ==
  /\ UNCHANGED <<ledger, requests, copied, file, main>>
  /\ \/ /\ pc[r] = "upstream" /\ \E place \in {"meter", "entry"} : Goto(r, place)
        /\ \E types : /\ RecordCommunicationEvents(r, types)
                      /\ "response.started" \in types /\ "response.completed" \notin types
        /\ answered' = [answered EXCEPT ![r] = TRUE]
     \/ /\ pc[r] = "pass" /\ Goto(r, "upstream")
        /\ RecordCommunicationEvents(r, {"request.received"}) /\ answered' = answered
     \/ /\ pc[r] \in {"upstream", "last"} /\ Goto(r, "done") /\ answered' = answered
        /\ \E types : /\ RecordCommunicationEvents(r, types)
                      /\ "response.completed" \in types => pc[r] = "last"

LEMMA CallTells ==
  ASSUME NEW r \in Requests, Call(r)
  PROVE  Quiet(r) \/ Telling(r) \/ RecordLedgerEntry(r)
<1>1. ASSUME NEW p, ServeHTTP(r, p) PROVE Quiet(r)
  <2>1. KindOf[r] \in {"chat", "pass"}
    BY RequestsAssumption
  <2> QED
    BY <1>1, <2>1 DEF ServeHTTP, HandlerReturns, Quiet, life
<1>2. ASSUME NEW fails, NEW model, PassAborted(r) \/ Meter(r, fails) \/ Fallback(r, model)
      PROVE  Quiet(r)
  BY <1>2 DEF PassAborted, Meter, Fallback, HandlerReturns, Quiet, life
<1>3. ASSUME NEW rp, NEW n, Refuse(r, rp, n) \/ Forward(r, rp) PROVE Quiet(r)
  BY <1>3 DEF Refuse, Forward, HandlerReturns, Quiet, life
<1>4. CASE Use(r)
  <2>1. RecordCommunicationEvents(r, {"request.received", "response.started"})
    BY <1>4 DEF Use
  <2> QED
    BY <1>4, <2>1 DEF Use, Telling, life
<1>5. CASE PassAnswered(r)
  <2>1. RecordCommunicationEvents(r, {"response.started"})
    BY <1>5 DEF PassAnswered
  <2> QED
    BY <1>5, <2>1 DEF PassAnswered, Telling, life
<1>6. CASE Passthrough(r)
  BY <1>6 DEF Passthrough, HandlerReturns, Quiet, Telling, life, ledgerVars
<1>7. CASE Finish(r)
  <2>1. /\ pc[r] = "last" /\ Goto(r, "done") /\ answered' = answered
        /\ \E types : RecordCommunicationEvents(r, types)
    BY <1>7 DEF Finish, HandlerReturns
  <2> QED
    BY <1>7, <2>1 DEF Finish, Telling, life
<1>8. CASE Exhausted(r)
  <2>1. RecordCommunicationEvents(r, {"response.error"})
    BY <1>8 DEF Exhausted
  <2> QED
    BY <1>8, <2>1 DEF Exhausted, HandlerReturns, Telling, life
<1> QED
  BY <1>1, <1>2, <1>3, <1>4, <1>5, <1>6, <1>7, <1>8 DEF Call

\* The ledger of a request that moves without telling it anything.
LEMMA LedgerQuiet ==
  ASSUME CallsInv, LedgerInv, NEW r \in Requests, Quiet(r), main \notin {"store", "ledger"}
  PROVE  LedgerInv'
<1>1. PICK place \in {"chat", "pass", "upstream", "entry", "done"} :
        /\ Goto(r, place)
        /\ pc[r] \in IF place = "entry" THEN {"meter"} ELSE {"new", "chat", "pass", "upstream"}
  BY DEF Quiet
<1>2. /\ requests' = requests /\ commEvents' = commEvents /\ ledger' = ledger
      /\ main' = main /\ answered' = answered
  BY DEF Quiet, ledgerVars
<1>3. ASSUME ledger # "none", NEW q \in Requests PROVE ToldOf(q)'
  <2>1. ToldOf(q)
    BY <1>3 DEF LedgerInv
  <2>2. CASE q # r
    <3>1. pc'[q] = pc[q]
      BY <1>1, <2>2 DEF Goto, CallsInv
    <3> QED
      BY <1>2, <2>1, <3>1 DEF ToldOf
  <2>3. CASE q = r
    <3>1. pc'[r] = place
      BY <1>1 DEF Goto, CallsInv
    <3>2. ~answered[r] \/ place = "entry"
      BY <1>1 DEF CallsInv
    <3>3. Told(place, answered[r], r \in Listed(requests), <<r, "response.started">> \in commEvents)
      BY <1>1, <2>1, <2>3, <3>2 DEF ToldOf, Told
    <3> QED
      BY <1>2, <2>3, <3>1, <3>3 DEF ToldOf
  <2> QED
    BY <2>2, <2>3
<1>4. Agree(requests', commEvents')
  BY <1>2 DEF LedgerInv
<1> QED
  BY <1>2, <1>3, <1>4 DEF LedgerInv

\* It is told of these events, and the request goes on to this place.
Tells(r, types, place) ==
  /\ Goto(r, place) /\ RecordCommunicationEvents(r, types)
  /\ IF place = "upstream" THEN pc[r] = "pass"
     ELSE pc[r] = "upstream" \/ (place = "done" /\ pc[r] = "last")
  /\ place \in {"meter", "entry"} => "response.started" \in types
  /\ "response.completed" \in types => pc[r] = "last"
  /\ answered' = IF place \in {"meter", "entry"} THEN [answered EXCEPT ![r] = TRUE] ELSE answered

\* The events of a request are told.
LEMMA LedgerTelling ==
  ASSUME CallsInv, LedgerInv, NEW r \in Requests, Telling(r), main \notin {"store", "ledger"}
  PROVE  LedgerInv'
<1>1. requests' = requests /\ ledger' = ledger /\ main' = main
  BY DEF Telling
<1>2. PICK place \in {"meter", "entry", "upstream", "done"} : \E types : Tells(r, types, place)
  <2>1. ASSUME NEW to \in {"meter", "entry"}, NEW types, pc[r] = "upstream", Goto(r, to),
               answered' = [answered EXCEPT ![r] = TRUE], RecordCommunicationEvents(r, types),
               "response.started" \in types, "response.completed" \notin types
        PROVE  Tells(r, types, to)
    BY <2>1 DEF Tells
  <2>2. CASE pc[r] = "pass" /\ Goto(r, "upstream") /\ answered' = answered
             /\ RecordCommunicationEvents(r, {"request.received"})
    <3>1. Tells(r, {"request.received"}, "upstream")
      BY <2>2 DEF Tells
    <3> QED
      BY <3>1
  <2>3. ASSUME NEW types, pc[r] \in {"upstream", "last"}, Goto(r, "done"), answered' = answered,
               RecordCommunicationEvents(r, types), "response.completed" \in types => pc[r] = "last"
        PROVE  Tells(r, types, "done")
    BY <2>3 DEF Tells
  <2> QED
    BY <2>1, <2>2, <2>3 DEF Telling
<1>3. PICK types : Tells(r, types, place)
  BY <1>2
<1>4. CASE ledger = "none"
  BY <1>1, <1>3, <1>4 DEF LedgerInv, RecordCommunicationEvents, Tells
<1>5. CASE ledger # "none"
  <2>1. ToldOf(r)
    BY <1>5 DEF LedgerInv
  <2>2. commEvents' = commEvents \/ commEvents' = commEvents \cup ({r} \X types)
    BY <1>3 DEF RecordCommunicationEvents, Tells
  <2>3. EventLedger => commEvents' = commEvents \cup ({r} \X types)
    BY <1>3, <1>5 DEF RecordCommunicationEvents, Tells
  <2>4. "response.completed" \in types => r \in Listed(requests)
    BY <1>3, <2>1 DEF ToldOf, Told, Tells
  <2>5. Agree(requests, commEvents)
    BY DEF LedgerInv
  <2>6. Agree(requests', commEvents')
    <3>1. Agree(requests, commEvents \cup ({r} \X types))
      BY <2>4, <2>5, AgreeEvents
    <3> QED
      BY <1>1, <2>2, <2>5, <3>1
  <2>7. ASSUME NEW q \in Requests PROVE ToldOf(q)'
    <3>1. CASE q # r
      <4>1. pc'[q] = pc[q] /\ answered'[q] = answered[q]
        BY <1>3, <3>1 DEF Goto, CallsInv, Tells
      <4>2. <<q, "response.started">> \in commEvents => <<q, "response.started">> \in commEvents'
        BY <2>2
      <4>3. ToldOf(q)
        BY <1>5 DEF LedgerInv
      <4> QED
        BY <1>1, <4>1, <4>2, <4>3 DEF ToldOf, Told
    <3>2. CASE q = r
      <4>1. pc'[r] = place
        BY <1>3 DEF Goto, CallsInv, Tells
      <4>2. place \in {"meter", "entry"} /\ EventLedger => <<r, "response.started">> \in commEvents'
        BY <1>3, <2>3 DEF Tells
      <4>3. Told(place, answered'[r], r \in Listed(requests),
                 <<r, "response.started">> \in commEvents')
        <5>1. place = "done" /\ pc[r] = "upstream" => ~answered'[r]
          BY <1>3 DEF CallsInv, Tells
        <5> QED
          BY <1>3, <2>1, <4>2, <5>1 DEF ToldOf, Told, Tells
      <4> QED
        BY <1>1, <3>2, <4>1, <4>3 DEF ToldOf
    <3> QED
      BY <3>1, <3>2
  <2> QED
    BY <1>1, <1>5, <2>6, <2>7 DEF LedgerInv
<1> QED
  BY <1>4, <1>5

\* A request is entered once, when it has started.
LEMMA LedgerEntry ==
  ASSUME CallsInv, LedgerInv, NEW r \in Requests, RecordLedgerEntry(r),
         main \notin {"store", "ledger"}
  PROVE  LedgerInv'
<1> DEFINE e == [request |-> r, token |-> TokenOf[r], model |-> sent[r].model,
                 provider |-> resolved[r].provider, tokens |-> TokensOf(r)]
<1>1. /\ pc[r] = "entry" /\ Goto(r, "last") /\ answered' = answered /\ main' = main
      /\ ledger' = ledger /\ commEvents' = commEvents
      /\ requests' = IF ledger = "none" THEN requests ELSE Append(requests, e)
  BY DEF RecordLedgerEntry, RecordRequest, life
<1>2. CASE ledger = "none"
  BY <1>1, <1>2 DEF LedgerInv
<1>3. CASE ledger # "none"
  <2>1. e \in Entry
    <3>1. resolved[r].provider \in Providers \cup {None} /\ sent[r].model \in Models
      BY <1>1 DEF CallsInv, Recorded, IsCall
    <3>2. TokenOf[r] \in Tokens /\ TokensOf(r) \in Nat
      BY RequestsAssumption DEF TokensOf
    <3> QED
      BY <3>1, <3>2 DEF Entry
  <2>2. ToldOf(r)
    BY <1>3 DEF LedgerInv
  <2>3. r \notin Listed(requests) /\ (EventLedger => <<r, "response.started">> \in commEvents)
    BY <1>1, <2>2 DEF ToldOf, Told
  <2>4. e.request = r /\ requests' = Append(requests, e) /\ Agree(requests, commEvents)
    BY <1>1, <1>3 DEF LedgerInv
  <2> HIDE DEF e
  <2>5. Listed(requests') = Listed(requests) \cup {r} /\ Agree(requests', commEvents)
    BY <2>1, <2>3, <2>4, AgreeAppend
  <2>6. ASSUME NEW q \in Requests PROVE ToldOf(q)'
    <3>1. ToldOf(q)
      BY <1>3 DEF LedgerInv
    <3>2. pc'[q] = IF q = r THEN "last" ELSE pc[q]
      BY <1>1 DEF Goto, CallsInv
    <3>3. q # r => (q \in Listed(requests') <=> q \in Listed(requests))
      BY <2>5
    <3>4. r \in Listed(requests')
      BY <2>5
    <3>5. Told(pc'[q], answered[q], q \in Listed(requests'),
               <<q, "response.started">> \in commEvents)
      BY <3>1, <3>2, <3>3, <3>4 DEF ToldOf, Told
    <3> QED
      BY <1>1, <3>5 DEF ToldOf
  <2>7. Agree(requests', commEvents')
    BY <1>1, <2>5
  <2> QED
    BY <1>1, <1>3, <2>6, <2>7 DEF LedgerInv
<1> QED
  BY <1>2, <1>3

\* A request runs only when runServe has started its servers.
LEMMA CallsStarted ==
  ASSUME CallsInv, LifeInv, NEW r \in Requests, Call(r)
  PROVE  main \notin {"store", "ledger"}
<1>1. pc[r] = "new" => server[ServerOf[r]] = "up"
  BY CallMoves
<1>2. ServerOf[r] \in Servers
  BY RequestsAssumption
<1> QED
  BY <1>1, <1>2 DEF LifeInv

\* Close copies what there is, and takes nothing from it.
LEMMA LedgerMain ==
  ASSUME CallsInv, LifeInv, LedgerInv, Main
  PROVE  LedgerInv'
<1>1. UNCHANGED <<pc, answered, requests, commEvents>>
  BY DEF Main, Start, Return, SkipLedger, OpenLedger, NotifyContext, NoCertificates, OpenStore,
     StartHTTP, StartHTTPS, SeeSignal, SeeError, WaitForServers, DeferredStop, DeferredStore,
     DeferredLedger, Exit, others, calls, ledgerVars, Open, CloseCopies, CloseCreates, CloseWrites
<1>2. Agree(requests', commEvents')
  BY <1>1 DEF LedgerInv
<1>3. CASE OpenLedger
  <2>1. main = "ledger" /\ main' = "notify" /\ ledger' = "open"
    BY <1>3 DEF OpenLedger, Open
  <2>2. requests = <<>> /\ \A r \in Requests : pc[r] = "new" /\ ~answered[r]
    BY <2>1 DEF LedgerInv, LifeInv, CallsInv
  <2>3. \A r \in Requests : r \notin Listed(requests)
    BY <2>2 DEF Listed
  <2>4. \A r \in Requests : ToldOf(r)'
    BY <1>1, <2>2, <2>3 DEF ToldOf, Told
  <2> QED
    BY <1>2, <2>1, <2>4 DEF LedgerInv
<1>4. CASE ~OpenLedger
  <2>1. /\ ledger' = "none" <=> ledger = "none"
        /\ main' \in {"store", "ledger"} => main \in {"store", "ledger"}
    BY <1>4 DEF Main, Start, Return, SkipLedger, OpenLedger, NotifyContext, NoCertificates, OpenStore,
       StartHTTP, StartHTTPS, SeeSignal, SeeError, WaitForServers, DeferredStop, DeferredStore,
       DeferredLedger, Exit, ledgerVars, CloseCopies, CloseCreates, CloseWrites
  <2>2. \A r \in Requests : ToldOf(r) => ToldOf(r)'
    BY <1>1 DEF ToldOf
  <2> QED
    BY <1>1, <1>2, <2>1, <2>2 DEF LedgerInv
<1> QED
  BY <1>3, <1>4

\* What the other steps leave alone.
LEMMA LedgerOther ==
  ASSUME Signal \/ Snapshot \/ UNCHANGED vars \/ \E s \in Servers : Shutdown(s) \/ ServerFails(s)
  PROVE  UNCHANGED <<main, pc, answered, ledgerVars>>
BY DEF Signal, Snapshot, Shutdown, BeginShutdown, Drained, DrainTimesOut, ServerFails,
   others, vars, life, calls

\* LedgerInv is inductive, with what is known of the requests and of the servers.
LEMMA LedgerInvariant == Spec => []LedgerInv
<1>1. Init => LedgerInv
  <2> SUFFICES ASSUME Init PROVE LedgerInv
    OBVIOUS
  <2>1. requests = <<>> /\ commEvents = {} /\ ledger = "none"
    BY DEF Init, NoLedger
  <2> QED
    BY <2>1, AgreeEmpty DEF LedgerInv
<1>2. CallsInv /\ LifeInv /\ LedgerInv /\ [Next]_vars => LedgerInv'
  <2> SUFFICES ASSUME CallsInv, LifeInv, LedgerInv, [Next]_vars PROVE LedgerInv'
    OBVIOUS
  <2>1. ASSUME NEW r \in Requests, Call(r) PROVE LedgerInv'
    BY <2>1, CallsStarted, CallTells, LedgerQuiet, LedgerTelling, LedgerEntry
  <2>2. CASE UNCHANGED <<main, pc, answered, ledgerVars>>
    <3>1. Agree(requests', commEvents') /\ \A r \in Requests : ToldOf(r) => ToldOf(r)'
      BY <2>2 DEF LedgerInv, ToldOf, ledgerVars
    <3> QED
      BY <2>2, <3>1 DEF LedgerInv, ledgerVars
  <2> QED
    BY <2>1, <2>2, LedgerMain, LedgerOther DEF Next
<1> QED
  BY <1>1, <1>2, CallsInvariant, LifeInvariant, PTL DEF Spec

----------------------------------------------------------------------------
(* The session file.                                                       *)

\* Close runs when runServe returns.  Its copies agree, and hold every request an
\* answer was used for unless requests were cut off; the file is made of the copies.
CopyInv ==
  /\ ledger \in {"none", "open", "copied", "created", "closed"}
  /\ ledger \in {"copied", "created", "closed"} =>
       /\ Returned
       /\ Agree(copied.requests, copied.events)
       /\ ~cut => \A r \in Requests : answered[r] => r \in Listed(copied.requests)
  /\ InFile => ledger = "closed" /\ file = BuildSummary(copied.requests, copied.events, None)

\* When runServe has returned and no request was cut off, none is in flight.
LEMMA NoneInFlight ==
  ASSUME CallsInv, LifeInv, Returned, ~cut, NEW r \in Requests
  PROVE  pc[r] \in {"new", "done"}
<1>1. ServerOf[r] \in Servers
  BY RequestsAssumption
<1>2. InFlight(ServerOf[r]) = {}
  BY <1>1 DEF LifeInv
<1> QED
  BY <1>2 DEF InFlight

\* Then every request an answer was used for has its entry.
LEMMA AllEntered ==
  ASSUME CallsInv, LifeInv, LedgerInv, Returned, ~cut, ledger # "none"
  PROVE  \A r \in Requests : answered[r] => r \in Listed(requests)
<1> SUFFICES ASSUME NEW r \in Requests, answered[r] PROVE r \in Listed(requests)
  OBVIOUS
<1>1. pc[r] = "done"
  BY NoneInFlight DEF CallsInv
<1> QED
  BY <1>1 DEF LedgerInv, ToldOf, Told

\* runServe does not start again, and a request that was cut off stays so.
LEMMA ReturnedStays ==
  ASSUME LifeInv, [Next]_vars
  PROVE  /\ Returned => Returned'
         /\ cut => cut'
<1>1. CASE Main
  BY <1>1 DEF Main, Start, Return, SkipLedger, OpenLedger, NotifyContext, NoCertificates, OpenStore,
     StartHTTP, StartHTTPS, SeeSignal, SeeError, WaitForServers, DeferredStop, DeferredStore,
     DeferredLedger, Exit, Returning, Returned
<1>2. CASE \E s \in Servers : Shutdown(s) \/ ServerFails(s)
  BY <1>2 DEF Shutdown, BeginShutdown, Drained, DrainTimesOut, ServerFails, Returned
<1>3. CASE Signal \/ Snapshot \/ UNCHANGED vars
  BY <1>3 DEF Signal, Snapshot, others, vars, life, Returned
<1>4. ASSUME NEW r \in Requests, Call(r) PROVE UNCHANGED life
  BY <1>4 DEF Call, ServeHTTP, Exhausted, Fallback, Refuse, Forward, Use, Meter, Passthrough,
     PassAborted, PassAnswered, RecordLedgerEntry, Finish
<1> QED
  BY <1>1, <1>2, <1>3, <1>4 DEF Next, life, Returned

\* A request takes nothing from what Close has copied, and is not answered any more
\* when none is in flight.
LEMMA CopyCall ==
  ASSUME CallsInv, LifeInv, CopyInv, NEW r \in Requests, Call(r)
  PROVE  CopyInv'
<1>1. UNCHANGED <<ledger, copied, file, main, cut>>
  <2>1. UNCHANGED life
    BY CallMoves
  <2>2. UNCHANGED <<ledger, copied, file>>
    BY CallTells DEF Quiet, Telling, RecordLedgerEntry, RecordRequest, ledgerVars
  <2> QED
    BY <2>1, <2>2 DEF life
<1>2. ASSUME Returned, ~cut PROVE answered' = answered
  <2>1. pc[r] \in {"new", "done"}
    BY <1>2, NoneInFlight
  <2> QED
    BY <2>1, CallTells DEF Quiet, Telling, RecordLedgerEntry
<1> QED
  BY <1>1, <1>2 DEF CopyInv, Returned, InFile

\* Close, one step at a time.
LEMMA CopyClose ==
  ASSUME CallsInv, LifeInv, LedgerInv, CopyInv, NEW fails \in BOOLEAN, DeferredLedger(fails)
  PROVE  CopyInv'
<1>1. main = "return" /\ UNCHANGED <<main, cut, answered>>
  BY DEF DeferredLedger, Returning, others, calls
<1>2. Returned /\ Returned'
  BY <1>1 DEF Returned
<1>3. CASE CloseCopies
  <2>1. /\ ledger = "open" /\ ledger' = "copied" /\ file' = file
        /\ copied'.requests = requests /\ copied'.events = commEvents
    BY <1>3 DEF CloseCopies
  <2>2. ~InFile /\ ~InFile'
    BY <2>1 DEF CopyInv, InFile
  <2>3. Agree(copied'.requests, copied'.events)
    BY <2>1 DEF LedgerInv
  <2>4. ~cut => \A r \in Requests : answered[r] => r \in Listed(copied'.requests)
    BY <1>2, <2>1, AllEntered
  <2> QED
    BY <1>1, <1>2, <2>1, <2>2, <2>3, <2>4 DEF CopyInv
<1>4. CASE CloseCreates(fails) \/ CloseWrites(fails, None)
  <2>1. /\ copied' = copied /\ ledger' \in {"created", "closed"}
        /\ ledger \in {"copied", "created"}
        /\ InFile' => ledger' = "closed" /\ file' = BuildSummary(copied.requests, copied.events, None)
    BY <1>4 DEF CloseCreates, CloseWrites, InFile
  <2>2. /\ Agree(copied'.requests, copied'.events)
        /\ ~cut => \A r \in Requests : answered[r] => r \in Listed(copied'.requests)
    BY <2>1 DEF CopyInv
  <2>3. InFile' => file' = BuildSummary(copied'.requests, copied'.events, None)
    BY <2>1
  <2> QED
    BY <1>1, <1>2, <2>1, <2>2, <2>3 DEF CopyInv
<1> QED
  BY <1>3, <1>4 DEF DeferredLedger

\* CopyInv is inductive, with what is known of the requests, the servers and the
\* ledger.
LEMMA CopyInvariant == Spec => []CopyInv
<1>1. Init => CopyInv
  BY DEF Init, NoLedger, CopyInv, InFile
<1>2. CallsInv /\ LifeInv /\ LedgerInv /\ CopyInv /\ [Next]_vars => CopyInv'
  <2> SUFFICES ASSUME CallsInv, LifeInv, LedgerInv, CopyInv, [Next]_vars PROVE CopyInv'
    OBVIOUS
  <2>1. (Returned => Returned') /\ (cut => cut')
    BY ReturnedStays
  <2>2. CASE UNCHANGED <<answered, ledgerVars>>
    <3>1. UNCHANGED <<answered, ledger, copied, file>>
      BY <2>2 DEF ledgerVars
    <3> QED
      BY <2>1, <3>1 DEF CopyInv, InFile, Listed, Agree
  <2>3. CASE OpenLedger
    <3>1. main = "ledger" /\ ledger' = "open" /\ file' = file
      BY <2>3 DEF OpenLedger, Open
    <3>2. ~InFile
      BY <3>1 DEF LedgerInv, CopyInv
    <3> QED
      BY <3>1, <3>2 DEF CopyInv, InFile
  <2>4. CASE Main /\ ~OpenLedger /\ ~\E fails \in BOOLEAN : DeferredLedger(fails)
    <3>1. UNCHANGED <<answered, ledgerVars>>
      BY <2>4 DEF Main, Start, Return, SkipLedger, NotifyContext, NoCertificates, OpenStore,
         StartHTTP, StartHTTPS, SeeSignal, SeeError, WaitForServers, DeferredStop, DeferredStore,
         Exit, others, calls
    <3> QED
      BY <2>2, <3>1
  <2> QED
    BY <2>2, <2>3, <2>4, CopyCall, CopyClose, LedgerOther DEF Next
<1> QED
  BY <1>1, <1>2, CallsInvariant, LifeInvariant, LedgerInvariant, PTL DEF Spec

\* What an entry adds to a field of a rollup.
Weights(es, field) == [i \in DOMAIN es |-> IF field = "requests" THEN 1 ELSE es[i].tokens]

\* A rollup of some entries adds up what they weigh.
LEMMA RollupSums ==
  ASSUME NEW es \in Seq(Entry), NEW J \in SUBSET (DOMAIN es), NEW field \in Fields
  PROVE  /\ IsFiniteSet(J) /\ \A i \in J : Weights(es, field)[i] \in Nat
         /\ Rollup(es, J)[field] = SumOver(Weights(es, field), J)
<1>1. IsFiniteSet(J)
  <2>1. IsFiniteSet(1..Len(es)) /\ DOMAIN es = 1..Len(es)
    BY FS_Interval
  <2> QED
    BY <2>1, FS_Subset
<1>2. \A i \in DOMAIN es : es[i].tokens \in Nat
  <2>1. \A i \in DOMAIN es : es[i] \in Entry
    OBVIOUS
  <2> QED
    BY <2>1 DEF Entry
<1>3. \A i \in J : Weights(es, field)[i] \in Nat
  BY <1>2 DEF Weights
<1>4. CASE field = "requests"
  <2> DEFINE ones == [i \in J |-> 1]
  <2>1. \A i \in J : ones[i] \in Nat /\ Weights(es, field)[i] = ones[i]
    BY <1>4 DEF Weights
  <2>2. SumOver(ones, J) = Cardinality(J)
    BY <1>1, SumOfOnes
  <2> HIDE DEF ones
  <2>3. SumOver(Weights(es, field), J) = Cardinality(J)
    BY <1>1, <2>1, <2>2, SumSame
  <2> QED
    BY <1>1, <1>3, <1>4, <2>3 DEF Rollup
<1>5. CASE field = "tokens"
  <2> DEFINE tokens == [i \in J |-> es[i].tokens]
  <2>1. \A i \in J : tokens[i] \in Nat /\ Weights(es, field)[i] = tokens[i]
    BY <1>2, <1>5 DEF Weights
  <2>2. Rollup(es, J)[field] = SumOver(tokens, J)
    BY <1>5 DEF Rollup
  <2> HIDE DEF tokens
  <2> QED
    BY <1>1, <1>3, <2>1, <2>2, SumSame
<1> QED
  BY <1>4, <1>5 DEF Fields

\* The rollups for the values of a field add up to the rollup of all.
LEMMA RollupsAdd ==
  ASSUME NEW es \in Seq(Entry), NEW I \in SUBSET (DOMAIN es), NEW by, NEW field \in Fields
  PROVE  SumField(RollupBy(es, I, by), field) = Rollup(es, I)[field]
<1> DEFINE w == Weights(es, field)
           g == [i \in I |-> es[i][by]]
           V == {es[i][by] : i \in I}
           a == [v \in V |-> RollupBy(es, I, by)[v][field]]
<1>1. IsFiniteSet(I) /\ \A i \in I : w[i] \in Nat
  BY RollupSums
<1>2. Rollup(es, I)[field] = SumOver(w, I)
  BY RollupSums
<1>3. g \in Surjection(I, V) /\ \A i \in I : g[i] \in V
  BY DEF Surjection
<1>4. IsFiniteSet(V)
  BY <1>1, <1>3, FS_Surjection
<1>5. SumField(RollupBy(es, I, by), field) = SumOver(a, V)
  BY DEF SumField, RollupBy
<1>6. ASSUME NEW v \in V PROVE a[v] = SumOver(w, Part(g, I, v))
  <2>1. Part(g, I, v) = {i \in I : es[i][by] = v} /\ Part(g, I, v) \in SUBSET (DOMAIN es)
    BY DEF Part
  <2>2. a[v] = Rollup(es, Part(g, I, v))[field]
    BY <2>1 DEF RollupBy
  <2> HIDE DEF a, g, V
  <2> QED
    BY <2>1, <2>2, RollupSums
<1>7. a = PartSums(w, g, I, V)
  BY <1>6 DEF PartSums
<1> HIDE DEF w, g, V, a
<1> QED
  BY <1>1, <1>2, <1>3, <1>4, <1>5, <1>7, SumByParts

\* Some entries roll up to no more than all.
LEMMA RollupsWithin ==
  ASSUME NEW es \in Seq(Entry), NEW I \in SUBSET (DOMAIN es), NEW field \in Fields
  PROVE  Rollup(es, I)[field] <= Rollup(es, DOMAIN es)[field]
<1> DEFINE w == Weights(es, field)
<1>1. /\ Rollup(es, I)[field] = SumOver(w, I)
      /\ Rollup(es, DOMAIN es)[field] = SumOver(w, DOMAIN es)
      /\ IsFiniteSet(DOMAIN es) /\ \A i \in DOMAIN es : w[i] \in Nat
  BY RollupSums
<1> HIDE DEF w
<1> QED
  BY <1>1, SumSubset

\* A session file is whole, for any requests, any number of them, and however runServe
\* is ended.
THEOREM SessionFilesWhole == Spec => []SessionFileWhole
<1>1. ASSUME CopyInv, InFile PROVE SessionFileWhole
  <2> DEFINE es == copied.requests
             evs == copied.events
  <2>1. ledger = "closed" /\ file = BuildSummary(es, evs, None)
    BY <1>1 DEF CopyInv
  <2>2. Agree(es, evs) /\ (~cut => \A r \in Requests : answered[r] => r \in Listed(es))
    BY <1>1, <2>1 DEF CopyInv
  <2>3. /\ file.requests = es /\ file.events = evs /\ file.totals = Rollup(es, DOMAIN es)
        /\ file.byModel = RollupBy(es, DOMAIN es, "model")
        /\ file.byToken = RollupBy(es, DOMAIN es, "token")
        /\ file.byProvider =
             RollupBy(es, {i \in DOMAIN es : es[i].provider # None}, "provider")
    BY <2>1 DEF BuildSummary
  <2> HIDE DEF es, evs
  <2>4. ASSUME NEW field \in Fields
        PROVE  /\ SumField(file.byModel, field) = file.totals[field]
               /\ SumField(file.byToken, field) = file.totals[field]
               /\ SumField(file.byProvider, field) <= file.totals[field]
    <3> DEFINE I == {i \in DOMAIN es : es[i].provider # None}
    <3>1. es \in Seq(Entry) /\ I \in SUBSET (DOMAIN es)
      BY <2>2 DEF Agree
    <3>2. file.byProvider = RollupBy(es, I, "provider")
      BY <2>3
    <3> HIDE DEF I
    <3>3. DOMAIN es \in SUBSET (DOMAIN es)
      OBVIOUS
    <3>4. /\ SumField(file.byModel, field) = file.totals[field]
          /\ SumField(file.byToken, field) = file.totals[field]
      BY <2>3, <3>1, <3>3, RollupsAdd
    <3>5. SumField(file.byProvider, field) = Rollup(es, I)[field]
      BY <3>1, <3>2, RollupsAdd
    <3>6. Rollup(es, I)[field] <= file.totals[field]
      BY <2>3, <3>1, RollupsWithin
    <3> QED
      BY <3>4, <3>5, <3>6
  <2>5. {file.requests[i].request : i \in DOMAIN file.requests} = Listed(es)
    BY <2>3 DEF Listed
  <2>6. Cardinality(Listed(es)) = Len(file.requests)
    BY <2>2, <2>3 DEF Agree
  <2>7. \A r \in Requests :
          /\ <<r, "response.completed">> \in file.events => r \in Listed(es)
          /\ r \in Listed(es) /\ EventLedger => <<r, "response.started">> \in file.events
    BY <2>2, <2>3 DEF Agree
  <2> QED
    BY <2>2, <2>4, <2>5, <2>6, <2>7 DEF SessionFileWhole, Fields
<1>2. ~InFile => SessionFileWhole
  BY DEF SessionFileWhole
<1> QED
  BY <1>1, <1>2, CopyInvariant, PTL

----------------------------------------------------------------------------
(* The memory writers.                                                     *)

Stages == {"idle", "getFile", "check", "rename", "compress", "reopen", "getFileAgain", "write"}
Instants == Seconds \cup {Nil}
Files == Seq(Entries) \cup {Nil}
Disks == [Paths -> [Instants -> [Forms -> Files]]]
Jobs == [session: Sessions \cup {Nil}, entry: Entries \cup {0},
         path: Paths \cup {Nil}, at: Instants]

\* The mutex has one holder, who knows its session and entry, its path once
\* getFile returned, and the archive's second once it renamed the file.
Control ==
  /\ config \in [kind: Kinds, dated: BOOLEAN, compress: BOOLEAN]
  /\ now \in Seconds
  /\ handle \in [Paths -> {"none", "open", "closed"}]
  /\ stage \in [Appenders -> Stages]
  /\ job \in [Appenders -> Jobs]
  /\ \A a \in Appenders : stage[a] # "idle" <=> lock = a
  /\ \A a \in Appenders :
       /\ stage[a] # "idle" => job[a].session \in Sessions /\ job[a].entry \in Entries
       /\ stage[a] \notin {"idle", "getFile"} => job[a].path \in Paths
       /\ stage[a] \in {"compress", "reopen"} => job[a].at \in Seconds
       /\ stage[a] = "compress" => config.compress

Has(f, e) == f # Nil /\ e \in ToSet(f)
Held(d, e) == \E p \in Paths, at \in Instants, form \in Forms : Has(d[p][at][form], e)

\* An open handle has its file.  After the rename there is none until the new one
\* is made, and an older compressed archive of this second counts as overwritten.
OnDiskInv ==
  /\ disk \in Disks
  /\ \A p \in Paths : handle[p] = "open" => Live(p) # Nil
  /\ \A a \in Appenders :
       /\ stage[a] \in {"compress", "reopen"} => Live(job[a].path) = Nil
       /\ stage[a] = "compress" =>
            \A e \in Entries : Has(disk[job[a].path][job[a].at]["gz"], e) => e \in overwritten

Kept == \A e \in accepted : e \in Entries /\ (e \in overwritten \/ Held(disk, e))

\* A file that may take one more entry of any size: all of it fits in the limit, or
\* it is a single entry.
Small(f) == f = Nil \/ Size(f) <= MaxSize \/ Len(f) <= 1

\* The path a session's entries go to today.
Today(p) == p.day = IF config.dated /\ now >= DayEnds THEN 2 ELSE 1

\* What is known of the files: today's are small and, when open, no entry in them is
\* left uncounted, unless they were opened without learning their size; the second
\* day's are not there before it begins.
FilesSized ==
  /\ written \in [Paths -> Nat] /\ torn \in [Paths -> Nat]
  /\ \A p \in Paths \ unsized : Live(p) \notin {Nil, <<>>} => Small(Front(Live(p)))
  /\ \A p \in Paths \ unsized : Today(p) => Small(Live(p))
  /\ \A p \in Paths \ unsized : Today(p) /\ handle[p] = "open" => Size(Live(p)) <= written[p]
  /\ \A p \in Paths : p.day = 2 /\ Live(p) # Nil => config.dated /\ now >= DayEnds
  /\ \A p, q \in Paths : handle[p] # "none" /\ handle[q] # "none" /\ p.session = q.session => p = q

\* What the goroutine in Append knows of its path.
Inside(a) == stage[a] \notin {"idle", "getFile"}

JobSized(a) ==
  LET p == job[a].path IN
  /\ p.session = job[a].session /\ handle[p] # "none"
  /\ p.day = 2 => config.dated /\ now >= DayEnds
  /\ p.day = 1 /\ config.dated => Live([p EXCEPT !.day = 2]) = Nil
  /\ stage[a] = "getFileAgain" => Live(p) = <<>>
  /\ stage[a] \in {"check", "write"} /\ p \notin unsized => Small(Live(p))
  /\ stage[a] = "write" /\ handle[p] = "open" /\ Today(p) /\ p \notin unsized =>
       Live(p) = <<>> \/ Size(Live(p)) + SizeOf[job[a].entry] <= MaxSize

Sized ==
  config.kind = "rotating" => FilesSized /\ \A a \in Appenders : Inside(a) => JobSized(a)

----------------------------------------------------------------------------

\* The path of a session is one of the paths.
LEMMA InPaths == ASSUME NEW s \in Sessions PROVE ResolvePath(s) \in Paths
<1>1. (CHOOSE x \in Sessions : TRUE) \in Sessions
  OBVIOUS
<1> QED
  BY <1>1 DEF ResolvePath, Paths

\* The control invariant holds of a new process.
LEMMA ControlInit == NewMemoryWriter => Control
<1>1. SUFFICES ASSUME NewMemoryWriter PROVE Control
  OBVIOUS
<1>2. now \in Seconds
  BY <1>1, SizesAssumption DEF NewMemoryWriter, Seconds
<1>3. NoJob \in Jobs
  BY DEF NoJob, Jobs, Instants
<1>4. \A a \in Appenders : stage[a] = "idle" /\ lock # a
  BY <1>1, NilAssumption DEF NewMemoryWriter
<1> QED
  BY <1>1, <1>2, <1>3, <1>4 DEF NewMemoryWriter, Control, GetMemoryWriter, Stages

\* Releasing the mutex keeps the control invariant.
LEMMA UnlockKeeps ==
  ASSUME Control, NEW a \in Appenders, stage[a] # "idle", Unlock(a), config' = config, now' = now,
         handle' \in [Paths -> {"none", "open", "closed"}]
  PROVE  Control'
<1>1. NoJob \in Jobs
  BY DEF NoJob, Jobs, Instants
<1>2. \A b \in Appenders : stage'[b] = "idle" /\ lock' # b
  BY NilAssumption DEF Unlock, ToStage, Control
<1>3. stage' \in [Appenders -> Stages] /\ job' \in [Appenders -> Jobs]
  BY <1>1 DEF Unlock, ToStage, Control, Stages
<1> QED
  BY <1>2, <1>3 DEF Control

\* A step of the holder that goes on keeps the control invariant.
LEMMA StageKeeps ==
  ASSUME Control, NEW a \in Appenders, lock' = a, lock \in {a, Nil},
         NEW place \in Stages \ {"idle"}, stage' = [stage EXCEPT ![a] = place],
         NEW j \in Jobs, job' = [job EXCEPT ![a] = j],
         j.session \in Sessions, j.entry \in Entries,
         place # "getFile" => j.path \in Paths,
         place \in {"compress", "reopen"} => j.at \in Seconds,
         place = "compress" => config.compress,
         config' = config, now' = now, handle' \in [Paths -> {"none", "open", "closed"}]
  PROVE  Control'
<1>1. stage' \in [Appenders -> Stages] /\ job' \in [Appenders -> Jobs]
  BY DEF Control
<1>2. stage'[a] = place /\ job'[a] = j
  BY DEF Control
<1>3. \A b \in Appenders \ {a} : stage'[b] = "idle"
  BY NilAssumption DEF Control
<1> QED
  BY <1>1, <1>2, <1>3 DEF Control

\* Every step keeps the control invariant.
LEMMA ControlStep ==
  ASSUME Control, WriterNext
  PROVE  Control'
<1> DEFINE J(a, s, e, p, at) == [session |-> s, entry |-> e, path |-> p, at |-> at]
<1>j. \A a \in Appenders : /\ job[a] \in Jobs
                          /\ job[a] = J(a, job[a].session, job[a].entry, job[a].path, job[a].at)
  BY DEF Control, Jobs
<1>1. ASSUME NEW a \in Appenders, NEW s \in Sessions, Lock(a, s) PROVE Control'
  <2> DEFINE j == [NoJob EXCEPT !.session = s, !.entry = count + 1]
  <2>1. j \in Jobs
    BY <1>1 DEF Lock, NoJob, Jobs, Instants
  <2>2. job' = [job EXCEPT ![a] = j] /\ j.session = s /\ j.entry = count + 1
    BY <1>1 DEF Lock, NoJob
  <2>3. /\ stage' = [stage EXCEPT ![a] = "getFile"] /\ lock = Nil /\ lock' = a
        /\ config' = config /\ now' = now /\ handle' = handle /\ count + 1 \in Entries
    BY <1>1 DEF Lock, ToStage, handleVars
  <2>4. "getFile" \in Stages \ {"idle"} /\ handle \in [Paths -> {"none", "open", "closed"}]
    BY DEF Stages, Control
  <2> HIDE DEF j
  <2> QED
    BY <1>1, <2>1, <2>2, <2>3, <2>4, StageKeeps
<1>2. ASSUME NEW a \in Appenders, NEW from \in {"getFile", "getFileAgain"},
             NEW to \in {"check", "write"}, GetFile(a, from, to)
      PROVE  Control'
  <2> DEFINE p == ResolvePath(job[a].session)
             j == [job[a] EXCEPT !.path = p]
  <2>1. stage[a] # "idle" /\ lock = a
    BY <1>2 DEF GetFile, Control
  <2>2. p \in Paths
    BY <2>1, InPaths DEF Control
  <2>3. j \in Jobs /\ j.session = job[a].session /\ j.entry = job[a].entry /\ j.path = p
    BY <1>j, <2>2 DEF Jobs
  <2>4. handle' \in [Paths -> {"none", "open", "closed"}]
    BY <1>2, <2>2 DEF GetFile, Control, handleVars
  <2>5. job' = [job EXCEPT ![a] = j]
    BY <1>2, <1>j DEF GetFile, Control
  <2>6. stage' = [stage EXCEPT ![a] = to] /\ lock' = lock /\ config' = config /\ now' = now
    BY <1>2 DEF GetFile, ToStage
  <2> HIDE DEF j, p
  <2> QED
    BY <2>1, <2>2, <2>3, <2>4, <2>5, <2>6, StageKeeps DEF Control, Stages
<1>3. ASSUME NEW a \in Appenders, GetFileFails(a) PROVE Control'
  BY <1>3, UnlockKeeps DEF GetFileFails, Forget, Control
<1>4. ASSUME NEW a \in Appenders, Unlimited(a) \/ Check(a) PROVE Control'
  <2> DEFINE place == stage'[a]
  <2>1. stage[a] = "check" /\ lock = a /\ lock' = lock /\ job' = job
    BY <1>4 DEF Unlimited, Check, Control
  <2>2. place \in {"rename", "write"} /\ stage' = [stage EXCEPT ![a] = place]
    BY <1>4 DEF Unlimited, Check, ToStage, Control
  <2>3. job' = [job EXCEPT ![a] = job[a]]
    BY <2>1 DEF Control
  <2> HIDE DEF place
  <2> QED
    BY <1>4, <1>j, <2>1, <2>2, <2>3, StageKeeps DEF Unlimited, Check, handleVars, Control, Stages
<1>5. ASSUME NEW a \in Appenders, Rename(a) PROVE Control'
  <2> DEFINE place == stage'[a]
             j == [job[a] EXCEPT !.at = now]
  <2>1. stage[a] = "rename" /\ lock = a /\ lock' = lock
    BY <1>5 DEF Rename, Control
  <2>2. /\ place \in {"compress", "reopen"} /\ stage' = [stage EXCEPT ![a] = place]
        /\ (place = "compress" => config.compress)
    BY <1>5 DEF Rename, ToStage, Control
  <2>3. /\ j \in Jobs /\ j.session = job[a].session /\ j.entry = job[a].entry
        /\ j.path = job[a].path /\ j.at = now
    BY <1>j DEF Jobs, Control, Instants
  <2>4. job' = [job EXCEPT ![a] = j]
    BY <1>5, <1>j DEF Rename, Control
  <2>5. handle' \in [Paths -> {"none", "open", "closed"}]
    BY <1>5 DEF Rename, Control
  <2> HIDE DEF j, place
  <2> QED
    BY <1>5, <2>1, <2>2, <2>3, <2>4, <2>5, StageKeeps DEF Rename, Control, Stages
<1>6. ASSUME NEW a \in Appenders, RenameFails(a) PROVE Control'
  BY <1>6, UnlockKeeps DEF RenameFails, Control
<1>7. ASSUME NEW a \in Appenders, CompressFails(a) \/ \E removed \in BOOLEAN : Compress(a, removed)
      PROVE  Control'
  <2>1. /\ stage[a] = "compress" /\ lock = a /\ lock' = lock /\ job' = job
        /\ stage' = [stage EXCEPT ![a] = "reopen"] /\ config' = config /\ now' = now /\ handle' = handle
    BY <1>7 DEF CompressFails, Compress, handleVars, ToStage, Control
  <2>3. job' = [job EXCEPT ![a] = job[a]]
    BY <2>1 DEF Control
  <2> QED
    BY <1>j, <2>1, <2>3, StageKeeps DEF Control, Stages
<1>8. ASSUME NEW a \in Appenders, Reopen(a) PROVE Control'
  <2>1. stage[a] = "reopen" /\ lock = a /\ lock' = lock /\ job' = job
    BY <1>8 DEF Reopen, Control
  <2>3. job' = [job EXCEPT ![a] = job[a]]
    BY <2>1 DEF Control
  <2>5. handle' \in [Paths -> {"none", "open", "closed"}]
    BY <1>8 DEF Reopen, Control
  <2> QED
    BY <1>8, <1>j, <2>1, <2>3, <2>5, StageKeeps DEF Reopen, ToStage, Control, Stages
<1>9. ASSUME NEW a \in Appenders, ReopenFails(a) \/ Write(a) \/ WriteFails(a) PROVE Control'
  <2>1. /\ stage[a] # "idle" /\ Unlock(a) /\ config' = config /\ now' = now /\ handle' = handle
    BY <1>9 DEF ReopenFails, Write, WriteFails, handleVars
  <2> QED
    BY <2>1, UnlockKeeps DEF Control
<1>10. ASSUME Close PROVE Control'
  BY <1>10 DEF Close, Control
<1>11. ASSUME Crash PROVE Control'
  <2>1. NoJob \in Jobs
    BY DEF NoJob, Jobs, Instants
  <2>2. \A b \in Appenders : stage'[b] = "idle" /\ lock' # b
    BY <1>11, NilAssumption DEF Crash
  <2> QED
    BY <1>11, <2>1, <2>2 DEF Crash, Control, Stages
<1>12. ASSUME PassTime PROVE Control'
  <2>1. now' \in Seconds
    BY <1>12, SizesAssumption DEF PassTime, Control, Seconds
  <2> QED
    BY <1>12, <2>1 DEF PassTime, Control, handleVars
<1> QED
  BY <1>1, <1>2, <1>3, <1>4, <1>5, <1>6, <1>7, <1>8, <1>9, <1>10, <1>11, <1>12
  DEF WriterNext, AppendEntry, Rotate

----------------------------------------------------------------------------

\* The files after one of them has another content.
Put(d, p, at, form, f) == [d EXCEPT ![p][at][form] = f]

\* Giving one file another content changes that file only.
LEMMA PutChanges ==
  ASSUME NEW d \in Disks, NEW p \in Paths, NEW at \in Instants, NEW form \in Forms,
         NEW f \in Files
  PROVE  /\ Put(d, p, at, form, f) \in Disks
         /\ Put(d, p, at, form, f)[p][at][form] = f
         /\ \A q \in Paths, b \in Instants, g \in Forms :
              ~(q = p /\ b = at /\ g = form) => Put(d, p, at, form, f)[q][b][g] = d[q][b][g]
<1>1. Put(d, p, at, form, f) \in Disks
  BY DEF Disks, Put
<1>2. Put(d, p, at, form, f)[p][at][form] = f
  BY DEF Disks, Put
<1>3. \A q \in Paths, b \in Instants, g \in Forms :
        ~(q = p /\ b = at /\ g = form) => Put(d, p, at, form, f)[q][b][g] = d[q][b][g]
  BY DEF Disks, Put
<1> QED
  BY <1>1, <1>2, <1>3

\* The two forms of a file.
LEMMA BothForms == "plain" \in Forms /\ "gz" \in Forms
BY DEF Forms

\* A place on the disk holds a file or nothing.
LEMMA Contents ==
  ASSUME NEW d \in Disks, NEW p \in Paths, NEW at \in Instants, NEW form \in Forms
  PROVE  d[p][at][form] \in Files
BY DEF Disks

\* Changing the file that is written to changes no other one of them.
LEMMA PutLive ==
  ASSUME NEW d \in Disks, NEW p \in Paths, NEW f \in Files
  PROVE  /\ Put(d, p, Nil, "plain", f) \in Disks
         /\ Put(d, p, Nil, "plain", f)[p][Nil]["plain"] = f
         /\ \A q \in Paths : q # p =>
              Put(d, p, Nil, "plain", f)[q][Nil]["plain"] = d[q][Nil]["plain"]
<1>1. Nil \in Instants /\ "plain" \in Forms
  BY DEF Instants, Forms
<1>2. /\ Put(d, p, Nil, "plain", f) \in Disks
      /\ Put(d, p, Nil, "plain", f)[p][Nil]["plain"] = f
  BY <1>1, BothForms DEF Put, Disks
<1>3. ASSUME NEW q \in Paths, q # p
      PROVE  Put(d, p, Nil, "plain", f)[q][Nil]["plain"] = d[q][Nil]["plain"]
  BY <1>1, <1>3, BothForms DEF Put, Disks
<1> QED
  BY <1>2, <1>3

\* Nor does it change an archive.
LEMMA PutLiveArchive ==
  ASSUME NEW d \in Disks, NEW p \in Paths, NEW f \in Files,
         NEW q \in Paths, NEW at \in Seconds, NEW form \in Forms
  PROVE  Put(d, p, Nil, "plain", f)[q][at][form] = d[q][at][form]
<1>1. at \in Instants /\ at # Nil /\ Nil \in Instants
  BY NilAssumption DEF Instants
<1> QED
  BY <1>1, BothForms DEF Put, Disks

\* Changing an archive changes no file that is written to.
LEMMA PutArchive ==
  ASSUME NEW d \in Disks, NEW p \in Paths, NEW at \in Seconds, NEW form \in Forms,
         NEW f \in Files
  PROVE  /\ Put(d, p, at, form, f) \in Disks
         /\ Put(d, p, at, form, f)[p][at][form] = f
         /\ \A q \in Paths : Put(d, p, at, form, f)[q][Nil]["plain"] = d[q][Nil]["plain"]
<1>1. at \in Instants /\ Nil \in Instants /\ at # Nil
  BY NilAssumption DEF Instants
<1>2. Put(d, p, at, form, f) \in Disks
  BY <1>1 DEF Put, Disks
<1>3. Put(d, p, at, form, f)[p][at][form] = f
  BY <1>1 DEF Put, Disks
<1>4. ASSUME NEW q \in Paths
      PROVE  Put(d, p, at, form, f)[q][Nil]["plain"] = d[q][Nil]["plain"]
  BY <1>1, BothForms DEF Put, Disks
<1> QED
  BY <1>2, <1>3, <1>4

\* Changing an archive leaves its other form alone.
LEMMA PutOtherForm ==
  ASSUME NEW d \in Disks, NEW p \in Paths, NEW at \in Seconds, NEW form \in Forms,
         NEW f \in Files, NEW g \in Forms, g # form
  PROVE  Put(d, p, at, form, f)[p][at][g] = d[p][at][g]
BY DEF Put, Disks, Instants

\* An entry on disk stays there when a file changes, unless it was in that file.
LEMMA PutHolds ==
  ASSUME NEW d \in Disks, NEW p \in Paths, NEW at \in Instants, NEW form \in Forms,
         NEW f \in Files, NEW e
  PROVE  /\ Held(d, e) => Held(Put(d, p, at, form, f), e) \/ Has(d[p][at][form], e)
         /\ Has(f, e) => Held(Put(d, p, at, form, f), e)
<1> DEFINE d2 == Put(d, p, at, form, f)
<1>1. /\ d2[p][at][form] = f
      /\ \A q \in Paths, b \in Instants, g \in Forms :
           ~(q = p /\ b = at /\ g = form) => d2[q][b][g] = d[q][b][g]
  BY PutChanges
<1> HIDE DEF d2
<1>2. ASSUME Held(d, e), ~Has(d[p][at][form], e) PROVE Held(d2, e)
  <2>1. PICK q \in Paths, b \in Instants, g \in Forms : Has(d[q][b][g], e)
    BY <1>2 DEF Held
  <2>2. ~(q = p /\ b = at /\ g = form)
    BY <1>2, <2>1
  <2>3. d2[q][b][g] = d[q][b][g]
    BY <1>1, <2>2
  <2> QED
    BY <2>1, <2>3 DEF Held
<1>3. ASSUME Has(f, e) PROVE Held(d2, e)
  BY <1>1, <1>3 DEF Held
<1> QED
  BY <1>2, <1>3 DEF d2

\* What a file holds after an entry was appended.
LEMMA HasAppended ==
  ASSUME NEW f \in Seq(Entries), NEW e \in Entries
  PROVE  /\ Append(f, e) \in Files
         /\ Has(Append(f, e), e)
         /\ \A x : Has(f, x) => Has(Append(f, e), x)
<1>1. /\ Append(f, e) \in Seq(Entries)
      /\ Len(Append(f, e)) = Len(f) + 1
      /\ \A i \in 1..Len(f) : Append(f, e)[i] = f[i]
      /\ Append(f, e)[Len(f) + 1] = e
  BY AppendProperties
<1>2. Append(f, e) # Nil
  BY <1>1, NilAssumption
<1>3. /\ DOMAIN f = 1..Len(f) /\ Len(f) \in Nat
      /\ DOMAIN Append(f, e) = 1..(Len(f) + 1)
  BY <1>1, LenProperties
<1>4. e \in ToSet(Append(f, e))
  <2>1. Len(f) + 1 \in DOMAIN Append(f, e)
    BY <1>3
  <2> QED
    BY <1>1, <2>1, Zenon DEF ToSet
<1>5. ASSUME NEW x \in ToSet(f) PROVE x \in ToSet(Append(f, e))
  <2>1. PICK i \in DOMAIN f : x = f[i]
    BY <1>5, Zenon DEF ToSet
  <2>2. i \in DOMAIN Append(f, e) /\ Append(f, e)[i] = x
    BY <1>1, <1>3, <2>1
  <2> QED
    BY <2>2, Zenon DEF ToSet
<1> QED
  BY <1>1, <1>2, <1>4, <1>5 DEF Has, Files

\* While one goroutine is inside Append no other is.
LEMMA Alone ==
  ASSUME Control, NEW a \in Appenders, stage[a] # "idle"
  PROVE  \A b \in Appenders \ {a} : stage[b] = "idle"
BY DEF Control

\* A step that leaves the files alone.
LEMMA DiskStays ==
  ASSUME OnDiskInv, Kept, UNCHANGED diskVars,
         \A p \in Paths : handle'[p] = "open" => handle[p] = "open",
         \A a \in Appenders : stage'[a] \in {"compress", "reopen"} =>
                              stage'[a] = stage[a] /\ job'[a] = job[a]
  PROVE  OnDiskInv' /\ Kept'
<1>1. Kept'
  BY DEF Kept, Held, diskVars
<1>2. OnDiskInv'
  BY DEF OnDiskInv, Live, diskVars
<1> QED
  BY <1>1, <1>2

\* Steps that leave the files alone, and Close, Crash and the clock.
LEMMA OtherSteps ==
  ASSUME Control, OnDiskInv, Kept,
         \/ \E a \in Appenders :
              \/ \E x \in Sessions : Lock(a, x)
              \/ GetFileFails(a) \/ Unlimited(a) \/ Check(a)
              \/ RenameFails(a) \/ ReopenFails(a) \/ WriteFails(a)
         \/ Close \/ Crash \/ PassTime
  PROVE  OnDiskInv' /\ Kept'
<1>1. ASSUME NEW a \in Appenders, NEW x \in Sessions, Lock(a, x) PROVE OnDiskInv' /\ Kept'
  BY <1>1, DiskStays DEF Lock, ToStage, handleVars, Control
<1>2. ASSUME NEW a \in Appenders, GetFileFails(a) PROVE OnDiskInv' /\ Kept'
  BY <1>2, DiskStays DEF GetFileFails, Forget, Unlock, ToStage, Control
<1>3. ASSUME NEW a \in Appenders, Unlimited(a) PROVE OnDiskInv' /\ Kept'
  BY <1>3, DiskStays DEF Unlimited, ToStage, handleVars, Control
<1>4. ASSUME NEW a \in Appenders, Check(a) PROVE OnDiskInv' /\ Kept'
  <2>1. stage' = [stage EXCEPT ![a] = "rename"] \/ stage' = [stage EXCEPT ![a] = "write"]
    BY <1>4 DEF Check, ToStage
  <2>2. UNCHANGED <<diskVars, handleVars, job>>
    BY <1>4 DEF Check
  <2> QED
    BY <2>1, <2>2, DiskStays DEF handleVars, Control
<1>5. ASSUME NEW a \in Appenders, RenameFails(a) PROVE OnDiskInv' /\ Kept'
  BY <1>5, DiskStays DEF RenameFails, Unlock, ToStage, Control
<1>6. ASSUME NEW a \in Appenders, ReopenFails(a) \/ WriteFails(a) PROVE OnDiskInv' /\ Kept'
  BY <1>6, DiskStays DEF ReopenFails, WriteFails, Unlock, ToStage, handleVars, Control
<1>7. ASSUME Close \/ Crash PROVE OnDiskInv' /\ Kept'
  BY <1>7, DiskStays DEF Close, Crash
<1>8. ASSUME PassTime PROVE OnDiskInv' /\ Kept'
  BY <1>8, DiskStays DEF PassTime, handleVars
<1> QED
  BY <1>1, <1>2, <1>3, <1>4, <1>5, <1>6, <1>7, <1>8

\* getFile makes a file that is not there, empty.
LEMMA GetFileKeeps ==
  ASSUME Control, OnDiskInv, Kept, NEW a \in Appenders,
         NEW from \in {"getFile", "getFileAgain"}, NEW to \in {"check", "write"},
         GetFile(a, from, to)
  PROVE  /\ OnDiskInv' /\ Kept'
         /\ \A q \in Paths : disk'[q][Nil]["plain"] =
              IF q = ResolvePath(job[a].session) /\ handle[q] = "none" /\ Live(q) = Nil
              THEN <<>> ELSE Live(q)
<1> DEFINE p == ResolvePath(job[a].session)
<1>1. p \in Paths
  BY InPaths DEF GetFile, Control
<1>2. \A b \in Appenders : stage'[b] \notin {"compress", "reopen"}
  BY Alone DEF GetFile, ToStage, Control
<1>3. CASE handle[p] # "none"
  <2>1. UNCHANGED diskVars /\ handle' = handle
    BY <1>3 DEF GetFile, handleVars, diskVars
  <2> QED
    BY <1>2, <1>3, <2>1, DiskStays DEF diskVars, Live
<1>4. CASE handle[p] = "none"
  <2> DEFINE f == IF disk[p][Nil]["plain"] = Nil THEN <<>> ELSE disk[p][Nil]["plain"]
  <2>1. /\ disk' = Put(disk, p, Nil, "plain", f)
        /\ accepted' = accepted /\ overwritten' = overwritten
        /\ \A q \in Paths : handle'[q] = "open" => q = p \/ handle[q] = "open"
    BY <1>4, <1>1 DEF GetFile, Put, OnDiskInv, Disks, Instants
  <2>2. f \in Files /\ f # Nil
    <3>1. disk[p][Nil]["plain"] \in Files
      BY <1>1, Contents, BothForms DEF OnDiskInv, Instants
    <3>2. <<>> \in Seq(Entries)
      BY EmptySeq
    <3> QED
      BY <3>1, <3>2, NilAssumption DEF Files
  <2>3. \A e : Has(disk[p][Nil]["plain"], e) => Has(f, e)
    BY DEF Has
  <2> HIDE DEF f, p
  <2>4. /\ disk' \in Disks /\ disk'[p][Nil]["plain"] = f
        /\ \A q \in Paths : q # p => disk'[q][Nil]["plain"] = disk[q][Nil]["plain"]
    BY <1>1, <2>1, <2>2, PutLive, BothForms DEF OnDiskInv
  <2>5. \A e : Held(disk, e) => Held(disk', e)
    BY <1>1, <2>1, <2>2, <2>3, PutHolds, BothForms DEF OnDiskInv, Instants
  <2>6. OnDiskInv'
    BY <1>2, <2>1, <2>2, <2>4 DEF OnDiskInv, Live
  <2>7. Kept'
    BY <2>1, <2>5 DEF Kept, Held
  <2>8. \A q \in Paths : disk'[q][Nil]["plain"] =
          IF q = p /\ handle[q] = "none" /\ Live(q) = Nil THEN <<>> ELSE Live(q)
    BY <1>4, <2>4 DEF Live, f, p
  <2> QED
    BY <2>6, <2>7, <2>8 DEF p
<1> QED
  BY <1>3, <1>4

\* The entry is on disk before Append returns.
LEMMA WriteKeeps ==
  ASSUME Control, OnDiskInv, Kept, NEW a \in Appenders, Write(a)
  PROVE  /\ OnDiskInv' /\ Kept'
         /\ \A q \in Paths : disk'[q][Nil]["plain"] =
              IF q = job[a].path /\ handle[q] = "open"
              THEN Append(Live(q), job[a].entry) ELSE Live(q)
<1> DEFINE p == job[a].path
           e == job[a].entry
<1>1. p \in Paths /\ e \in Entries
  BY DEF Write, Control
<1>2. \A b \in Appenders : stage'[b] \notin {"compress", "reopen"}
  BY Alone DEF Write, Unlock, ToStage, Control
<1>3. CASE handle[p] # "open"
  <2>1. UNCHANGED diskVars /\ handle' = handle
    BY <1>3 DEF Write, diskVars
  <2> QED
    BY <1>2, <1>3, <2>1, DiskStays DEF diskVars, Live
<1>4. CASE handle[p] = "open"
  <2> DEFINE f == Append(disk[p][Nil]["plain"], e)
  <2>1. /\ disk' = Put(disk, p, Nil, "plain", f) /\ handle' = handle
        /\ accepted' = accepted \cup {e} /\ overwritten' = overwritten
    BY <1>4, <1>1 DEF Write, Put, OnDiskInv, Disks, Instants
  <2>2. disk[p][Nil]["plain"] \in Seq(Entries)
    <3>1. disk[p][Nil]["plain"] \in Files
      BY <1>1, Contents, BothForms DEF OnDiskInv, Instants
    <3> QED
      BY <1>1, <1>4, <3>1 DEF OnDiskInv, Files, Live
  <2>3. /\ f \in Files /\ f # Nil /\ Has(f, e)
        /\ \A x : Has(disk[p][Nil]["plain"], x) => Has(f, x)
    BY <1>1, <2>2, HasAppended DEF Has
  <2> HIDE DEF f, p, e
  <2>4. /\ disk' \in Disks /\ disk'[p][Nil]["plain"] = f
        /\ \A q \in Paths : q # p => disk'[q][Nil]["plain"] = disk[q][Nil]["plain"]
    BY <1>1, <2>1, <2>3, PutLive, BothForms DEF OnDiskInv
  <2>5. Held(disk', e) /\ \A x : Held(disk, x) => Held(disk', x)
    BY <1>1, <2>1, <2>3, PutHolds, BothForms DEF OnDiskInv, Instants
  <2>6. OnDiskInv'
    BY <1>2, <2>1, <2>3, <2>4 DEF OnDiskInv, Live
  <2>7. Kept'
    BY <1>1, <2>1, <2>5 DEF Kept, Held
  <2>8. \A q \in Paths : disk'[q][Nil]["plain"] =
          IF q = p /\ handle[q] = "open" THEN Append(Live(q), e) ELSE Live(q)
    BY <1>4, <2>4 DEF Live, f, p
  <2> QED
    BY <2>6, <2>7, <2>8 DEF p, e
<1> QED
  BY <1>3, <1>4

\* The renamed file is on disk under its new name; what had that name is overwritten.
LEMMA RenameKeeps ==
  ASSUME Control, OnDiskInv, Kept, NEW a \in Appenders, Rename(a)
  PROVE  /\ OnDiskInv' /\ Kept'
         /\ \A q \in Paths : disk'[q][Nil]["plain"] = IF q = job[a].path THEN Nil ELSE Live(q)
<1> DEFINE p == job[a].path
           archived == Put(disk, p, now, "plain", Live(p))
<1>1. p \in Paths /\ now \in Seconds /\ now \in Instants /\ Nil \in Instants
  BY DEF Rename, Control, Instants
<1>2. disk \in Disks /\ Live(p) \in Files /\ Nil \in Files
  BY <1>1, Contents, BothForms DEF OnDiskInv, Live, Files
<1>3. /\ disk' = Put(archived, p, Nil, "plain", Nil)
      /\ accepted' = accepted /\ config' = config
      /\ handle' = [handle EXCEPT ![p] = "closed"]
  BY DEF Rename, Put
<1>4. /\ job'[a].path = p /\ job'[a].at = now
      /\ stage'[a] = "compress" => config.compress
  BY DEF Rename, ToStage, Control, Jobs
<1>5. \A b \in Appenders \ {a} : stage'[b] = "idle"
  BY Alone DEF Rename, ToStage, Control
<1>6. /\ overwritten \subseteq overwritten'
      /\ \A e : Has(disk[p][now]["plain"], e) => e \in overwritten'
      /\ config.compress => \A e : Has(disk[p][now]["gz"], e) => e \in overwritten'
  <2>1. overwritten' = overwritten \cup
          UNION {ToSet(disk[p][now][form]) :
                   form \in {g \in Forms : disk[p][now][g] # Nil /\ (g = "gz" => config.compress)}}
    BY DEF Rename
  <2> HIDE DEF p
  <2>2. ASSUME NEW form \in Forms, form = "gz" => config.compress, NEW e, Has(disk[p][now][form], e)
        PROVE  e \in overwritten'
    BY <2>1, <2>2 DEF Has
  <2>3. \A e : Has(disk[p][now]["plain"], e) => e \in overwritten'
    BY <2>2, BothForms
  <2>4. config.compress => \A e : Has(disk[p][now]["gz"], e) => e \in overwritten'
    BY <2>2, BothForms
  <2> QED
    BY <2>1, <2>3, <2>4
<1> HIDE DEF p
<1>7. /\ archived \in Disks /\ archived[p][now]["plain"] = Live(p)
      /\ \A q \in Paths : archived[q][Nil]["plain"] = disk[q][Nil]["plain"]
  BY <1>1, <1>2, PutArchive, BothForms
<1>older. archived[p][now]["gz"] = disk[p][now]["gz"]
  BY <1>1, <1>2, PutOtherForm, BothForms
<1>8. ASSUME NEW e, Held(disk, e) PROVE Held(archived, e) \/ e \in overwritten'
  BY <1>1, <1>2, <1>6, <1>8, PutHolds, BothForms
<1> HIDE DEF archived
<1>9. /\ disk' \in Disks /\ disk'[p][Nil]["plain"] = Nil
      /\ \A q \in Paths : q # p => disk'[q][Nil]["plain"] = disk[q][Nil]["plain"]
  BY <1>1, <1>2, <1>3, <1>7, PutLive, BothForms
<1>archive. disk'[p][now]["plain"] = Live(p) /\ disk'[p][now]["gz"] = disk[p][now]["gz"]
  BY <1>1, <1>2, <1>3, <1>7, <1>older, PutLiveArchive, BothForms
<1>10. ASSUME NEW e, Held(archived, e) PROVE Held(disk', e)
  <2>1. Held(disk', e) \/ Has(archived[p][Nil]["plain"], e)
    BY <1>1, <1>2, <1>3, <1>7, <1>10, PutHolds, BothForms
  <2>2. Has(archived[p][Nil]["plain"], e) => Has(disk'[p][now]["plain"], e)
    BY <1>1, <1>7, <1>archive DEF Live
  <2>3. Has(disk'[p][now]["plain"], e) => Held(disk', e)
    BY <1>1, BothForms DEF Held
  <2> QED
    BY <2>1, <2>2, <2>3
<1>11. Kept'
  BY <1>3, <1>6, <1>8, <1>10 DEF Kept, Held
<1>12. \A q \in Paths : handle'[q] = "open" => q # p /\ handle[q] = "open"
  BY <1>1, <1>3 DEF Control
<1>13. OnDiskInv'
  <2>1. \A q \in Paths : handle'[q] = "open" => disk'[q][Nil]["plain"] # Nil
    BY <1>9, <1>12 DEF OnDiskInv, Live
  <2>2. \A e : config.compress /\ Has(disk'[p][now]["gz"], e) => e \in overwritten'
    BY <1>6, <1>archive
  <2> QED
    BY <1>4, <1>5, <1>9, <2>1, <2>2 DEF OnDiskInv, Live
<1> QED
  BY <1>9, <1>11, <1>13 DEF Live, p

\* The compressed archive holds what the archive did, and neither, or both, or one
\* of them stays.  An older one it replaces counts as overwritten.
LEMMA CompressKeeps ==
  ASSUME Control, OnDiskInv, Kept, NEW a \in Appenders, NEW removed \in BOOLEAN,
         Compress(a, removed)
  PROVE  /\ OnDiskInv' /\ Kept'
         /\ \A q \in Paths : disk'[q][Nil]["plain"] = Live(q)
<1> DEFINE p == job[a].path
           at == job[a].at
           f == disk[p][at]["plain"]
           compressed == Put(disk, p, at, "gz", f)
<1>1. /\ p \in Paths /\ at \in Seconds /\ at \in Instants /\ Nil \in Instants
      /\ at # Nil
  BY NilAssumption DEF Compress, Control, Instants
<1>2. disk \in Disks /\ f \in Files /\ Nil \in Files
  BY <1>1, Contents, BothForms DEF OnDiskInv, Files
<1>3. /\ disk' = IF removed THEN Put(compressed, p, at, "plain", Nil) ELSE compressed
      /\ accepted' = accepted /\ overwritten' = overwritten /\ handle' = handle
      /\ \A b \in Appenders : job'[b] = job[b]
  BY DEF Compress, Put, handleVars
<1>4. \A b \in Appenders : stage'[b] \in {"compress", "reopen"} => b = a
  BY Alone DEF Compress, ToStage, Control
<1>5. /\ Live(p) = Nil /\ stage'[a] = "reopen"
      /\ \A e \in Entries : Has(disk[p][at]["gz"], e) => e \in overwritten
  BY DEF Compress, ToStage, Control, OnDiskInv
<1> HIDE DEF p, at, f
<1>6. /\ compressed \in Disks /\ compressed[p][at]["gz"] = f
      /\ \A q \in Paths : compressed[q][Nil]["plain"] = disk[q][Nil]["plain"]
  BY <1>1, <1>2, PutArchive, BothForms
<1>7. compressed[p][at]["plain"] = f
  BY <1>1, <1>2, PutOtherForm, BothForms DEF f
<1>9. ASSUME NEW e \in Entries, Held(disk, e) PROVE Held(compressed, e) \/ e \in overwritten
  BY <1>1, <1>2, <1>5, <1>9, PutHolds, BothForms
<1> HIDE DEF compressed
<1>10. disk' \in Disks
  BY <1>1, <1>2, <1>3, <1>6, PutArchive, BothForms
<1>11. ASSUME NEW q \in Paths PROVE disk'[q][Nil]["plain"] = disk[q][Nil]["plain"]
  <2>1. CASE ~removed
    BY <1>3, <1>6, <2>1
  <2>2. CASE removed
    <3>1. disk' = Put(compressed, p, at, "plain", Nil)
      BY <1>3, <2>2
    <3> QED
      BY <1>1, <1>2, <1>6, <3>1, PutArchive, BothForms
  <2> QED
    BY <2>1, <2>2
<1>12. disk'[p][at]["gz"] = f
  <2>1. CASE ~removed
    BY <1>3, <1>6, <2>1
  <2>2. CASE removed
    <3>1. disk' = Put(compressed, p, at, "plain", Nil)
      BY <1>3, <2>2
    <3>2. Put(compressed, p, at, "plain", Nil)[p][at]["gz"] = compressed[p][at]["gz"]
      BY <1>1, <1>2, <1>6, PutOtherForm, BothForms
    <3> QED
      BY <1>6, <3>1, <3>2
  <2> QED
    BY <2>1, <2>2
<1>13. ASSUME NEW e, Held(compressed, e) PROVE Held(disk', e)
  <2>1. CASE ~removed
    BY <1>3, <1>13, <2>1
  <2>2. CASE removed
    <3>1. Held(disk', e) \/ Has(f, e)
      BY <1>1, <1>2, <1>3, <1>6, <1>7, <1>13, <2>2, PutHolds, BothForms
    <3>2. Has(f, e) => Held(disk', e)
      BY <1>1, <1>12, BothForms DEF Held
    <3> QED
      BY <3>1, <3>2
  <2> QED
    BY <2>1, <2>2
<1>14. Kept'
  BY <1>3, <1>9, <1>13 DEF Kept, Held
<1>15. OnDiskInv'
  <2>1. disk'[p][Nil]["plain"] = Nil /\ job'[a].path = p
    BY <1>1, <1>3, <1>5, <1>11 DEF Live, p
  <2>2. \A q \in Paths : handle'[q] = "open" => disk'[q][Nil]["plain"] # Nil
    BY <1>3, <1>11 DEF OnDiskInv, Live
  <2> QED
    BY <1>4, <1>5, <1>10, <2>1, <2>2 DEF OnDiskInv, Live
<1> QED
  BY <1>11, <1>14, <1>15 DEF Live

\* A half-written compressed file is removed, the archive stays.
LEMMA CompressFailsKeeps ==
  ASSUME Control, OnDiskInv, Kept, NEW a \in Appenders, CompressFails(a)
  PROVE  /\ OnDiskInv' /\ Kept'
         /\ \A q \in Paths : disk'[q][Nil]["plain"] = Live(q)
<1> DEFINE p == job[a].path
           at == job[a].at
<1>1. /\ p \in Paths /\ at \in Seconds /\ at \in Instants /\ Nil \in Instants
      /\ at # Nil
  BY NilAssumption DEF CompressFails, Control, Instants
<1>2. disk \in Disks /\ Nil \in Files
  BY DEF OnDiskInv, Files
<1>3. /\ disk' = Put(disk, p, at, "gz", Nil)
      /\ accepted' = accepted /\ overwritten' = overwritten /\ handle' = handle
      /\ \A b \in Appenders : job'[b] = job[b]
  BY DEF CompressFails, Put, handleVars
<1>4. \A b \in Appenders : stage'[b] \in {"compress", "reopen"} => b = a
  BY Alone DEF CompressFails, ToStage, Control
<1>5. /\ Live(p) = Nil /\ stage'[a] = "reopen"
      /\ \A e \in Entries : Has(disk[p][at]["gz"], e) => e \in overwritten
  BY DEF CompressFails, ToStage, Control, OnDiskInv
<1>path. job'[a].path = p
  BY <1>3
<1> HIDE DEF p, at
<1>6. disk' \in Disks
  BY <1>1, <1>2, <1>3, PutArchive, BothForms
<1>8. ASSUME NEW q \in Paths PROVE disk'[q][Nil]["plain"] = disk[q][Nil]["plain"]
  BY <1>1, <1>2, <1>3, PutArchive, BothForms
<1>9. ASSUME NEW e \in Entries, Held(disk, e) PROVE Held(disk', e) \/ e \in overwritten
  BY <1>1, <1>2, <1>3, <1>5, <1>9, PutHolds, BothForms
<1>14. Kept'
  BY <1>3, <1>9 DEF Kept, Held
<1>15. OnDiskInv'
  <2>1. disk'[p][Nil]["plain"] = Nil
    BY <1>1, <1>5, <1>8 DEF Live
  <2>2. \A q \in Paths : handle'[q] = "open" => disk'[q][Nil]["plain"] # Nil
    BY <1>3, <1>8 DEF OnDiskInv, Live
  <2> QED
    BY <1>4, <1>5, <1>6, <1>path, <2>1, <2>2 DEF OnDiskInv, Live
<1> QED
  BY <1>8, <1>14, <1>15 DEF Live

\* There is no file where the new one is made.
LEMMA ReopenKeeps ==
  ASSUME Control, OnDiskInv, Kept, NEW a \in Appenders, Reopen(a)
  PROVE  /\ OnDiskInv' /\ Kept'
         /\ \A q \in Paths : disk'[q][Nil]["plain"] = IF q = job[a].path THEN <<>> ELSE Live(q)
<1> DEFINE p == job[a].path
<1>1. p \in Paths /\ Live(p) = Nil /\ Nil \in Instants
  BY DEF Reopen, Control, OnDiskInv, Instants
<1>2. disk \in Disks /\ <<>> \in Files /\ <<>> # Nil
  <2>1. <<>> \in Seq(Entries)
    BY EmptySeq
  <2> QED
    BY <2>1, NilAssumption DEF OnDiskInv, Files
<1>3. /\ disk' = Put(disk, p, Nil, "plain", <<>>)
      /\ accepted' = accepted /\ overwritten' = overwritten
      /\ handle' = [handle EXCEPT ![p] = "open"]
  BY DEF Reopen, Put
<1>4. \A b \in Appenders : stage'[b] \notin {"compress", "reopen"}
  BY Alone DEF Reopen, ToStage, Control
<1> HIDE DEF p
<1>5. /\ disk' \in Disks /\ disk'[p][Nil]["plain"] = <<>>
      /\ \A q \in Paths : q # p => disk'[q][Nil]["plain"] = disk[q][Nil]["plain"]
  BY <1>1, <1>2, <1>3, PutLive, BothForms
<1>6. ASSUME NEW e, Held(disk, e) PROVE Held(disk', e)
  <2>1. ~Has(disk[p][Nil]["plain"], e)
    BY <1>1 DEF Has, Live
  <2> QED
    BY <1>1, <1>2, <1>3, <1>6, <2>1, PutHolds, BothForms
<1>7. Kept'
  BY <1>3, <1>6 DEF Kept, Held
<1>8. OnDiskInv'
  <2>1. \A q \in Paths : handle'[q] = "open" => disk'[q][Nil]["plain"] # Nil
    BY <1>1, <1>2, <1>3, <1>5 DEF OnDiskInv, Live, Control
  <2> QED
    BY <1>4, <1>5, <2>1 DEF OnDiskInv, Live
<1> QED
  BY <1>5, <1>7, <1>8 DEF Live, p

----------------------------------------------------------------------------
(* The sizes of files.                                                     *)

\* The length of an entry is a number.
LEMMA Lengths == \A e \in Entries : SizeOf[e] \in Nat /\ SizeOf[e] > 0
BY SizesAssumption

\* The size of a file is a number, and an empty file has none.
LEMMA SizeType ==
  /\ Size(Nil) = 0 /\ Size(<<>>) = 0
  /\ \A f \in Files : Size(f) \in Nat
<1>1. ASSUME NEW f \in Seq(Entries)
      PROVE  Size(f) = SumOver([i \in DOMAIN f |-> SizeOf[f[i]]], DOMAIN f)
  BY NilAssumption DEF Size
<1>2. ASSUME NEW f \in Seq(Entries) PROVE Size(f) \in Nat
  <2> DEFINE g == [i \in DOMAIN f |-> SizeOf[f[i]]]
  <2>1. IsFiniteSet(DOMAIN f)
    BY LenProperties, FS_Interval
  <2>2. \A i \in DOMAIN f : g[i] \in Nat
    BY Lengths, ElementOfSeq, LenProperties
  <2> HIDE DEF g
  <2>3. SumOver(g, DOMAIN f) \in Nat
    BY <2>1, <2>2, SumType
  <2> QED
    BY <1>1, <2>3 DEF g
<1>3. <<>> \in Seq(Entries) /\ DOMAIN <<>> = {}
  BY EmptySeq
<1>4. Size(<<>>) = 0
  BY <1>1, <1>3, SumEmpty
<1> QED
  BY <1>2, <1>4 DEF Files, Size

\* An entry adds its length.
LEMMA SizeAppended ==
  ASSUME NEW f \in Seq(Entries), NEW e \in Entries
  PROVE  /\ Append(f, e) \in Seq(Entries) /\ Append(f, e) # <<>>
         /\ Len(Append(f, e)) = Len(f) + 1
         /\ Size(Append(f, e)) = Size(f) + SizeOf[e]
         /\ Front(Append(f, e)) = f
<1> DEFINE h == Append(f, e)
           n == Len(f)
           g == [i \in DOMAIN f |-> SizeOf[f[i]]]
           k == [i \in DOMAIN h |-> SizeOf[h[i]]]
<1>1. /\ h \in Seq(Entries) /\ Len(h) = n + 1 /\ h[n + 1] = e
      /\ \A i \in 1..n : h[i] = f[i]
  BY AppendProperties
<1>2. n \in Nat /\ DOMAIN f = 1..n /\ DOMAIN h = 1..(n + 1)
  BY <1>1, LenProperties
<1>3. \A i \in 1..n : f[i] \in Entries
  BY <1>2, ElementOfSeq
<1>4. h # <<>> /\ f # Nil /\ h # Nil
  BY <1>1, <1>2, NilAssumption
<1>5. Front(h) = f
  <2>1. Front(h) = SubSeq(h, 1, n)
    BY <1>1, <1>2 DEF Front
  <2>2. SubSeq(h, 1, n) = [i \in 1..n |-> h[i]]
    BY <1>2
  <2>3. f = [i \in 1..n |-> f[i]]
    BY <1>2
  <2> QED
    BY <1>1, <2>1, <2>2, <2>3
<1> HIDE DEF h, n
<1>6. /\ \A i \in 1..n : g[i] \in Nat /\ k[i] = g[i]
      /\ k[n + 1] = SizeOf[e] /\ SizeOf[e] \in Nat
  BY <1>1, <1>2, <1>3, Lengths
<1>7. Size(f) = SumOver(g, 1..n) /\ Size(h) = SumOver(k, 1..(n + 1))
  BY <1>2, <1>4 DEF Size
<1> HIDE DEF g, k
<1>8. IsFiniteSet(1..n) /\ SumOver(k, 1..n) = SumOver(g, 1..n)
  <2>1. IsFiniteSet(1..n)
    BY <1>2, FS_Interval
  <2> QED
    BY <1>6, <2>1, SumSame
<1>9. 1..(n + 1) = (1..n) \cup {n + 1} /\ n + 1 \notin 1..n
  BY <1>2
<1>10. SumOver(k, (1..n) \cup {n + 1}) = SumOver(k, 1..n) + k[n + 1]
  <2> DEFINE S == 1..n
             x == n + 1
  <2>1. IsFiniteSet(S) /\ x \notin S /\ k[x] \in Nat /\ \A y \in S : k[y] \in Nat
    BY <1>6, <1>8, <1>9
  <2> HIDE DEF S, x
  <2>2. SumOver(k, S \cup {x}) = SumOver(k, S) + k[x]
    BY <2>1, SumWith, Zenon
  <2> QED
    BY <2>2 DEF S, x
<1>11. Size(h) = Size(f) + SizeOf[e]
  BY <1>6, <1>7, <1>8, <1>9, <1>10
<1> QED
  BY <1>1, <1>4, <1>5, <1>11 DEF h, n

\* No file and an empty one are small.
LEMMA SmallEmpty == Small(Nil) /\ Small(<<>>)
BY SizeType, SizesAssumption DEF Small

\* A file that may take one more entry keeps to the bound with it, and it is small
\* again when it was empty or the entry was seen to fit.
LEMMA SmallAppended ==
  ASSUME NEW f \in Seq(Entries), NEW e \in Entries
  PROVE  /\ Small(f) => Small(Front(Append(f, e)))
         /\ f = <<>> \/ Size(f) + SizeOf[e] <= MaxSize => Small(Append(f, e))
<1>1. f = <<>> => Len(Append(f, e)) <= 1
  BY SizeAppended, EmptySeq
<1> QED
  BY <1>1, SizeAppended DEF Small

\* Today's path of a session, for a writer that rotates.
LEMMA TodaysPath ==
  ASSUME config.kind = "rotating", NEW s \in Sessions
  PROVE  /\ ResolvePath(s) \in Paths
         /\ ResolvePath(s).session = s /\ Today(ResolvePath(s))
         /\ \A p \in Paths : p.session = s /\ Today(p) => p = ResolvePath(s)
<1>1. ResolvePath(s) = [session |-> s, day |-> IF config.dated /\ now >= DayEnds THEN 2 ELSE 1]
  BY DEF ResolvePath
<1>2. ResolvePath(s) \in Paths
  BY InPaths
<1>3. \A p \in Paths : p = [session |-> p.session, day |-> p.day]
  BY DEF Paths
<1> QED
  BY <1>1, <1>2, <1>3 DEF Today

\* Steps that leave the files written to, the day and the counts of open handles alone.
LEMMA FilesStay ==
  ASSUME FilesSized, UNCHANGED <<config, now, unsized>>,
         written' \in [Paths -> Nat], torn' \in [Paths -> Nat],
         \A p \in Paths : disk'[p][Nil]["plain"] = Live(p),
         \A p \in Paths : \/ handle'[p] = "none"
                          \/ /\ handle[p] # "none"
                             /\ handle'[p] = "open" =>
                                  handle[p] = "open" /\ written'[p] = written[p]
  PROVE  FilesSized'
<1>1. \A p \in Paths : Live(p)' = Live(p) /\ Today(p)' = Today(p)
  BY DEF Live, Today
<1> QED
  BY <1>1 DEF FilesSized

\* Nobody else is inside Append while a goroutine takes a step of its own.
LEMMA OthersOutside ==
  ASSUME Control, NEW a \in Appenders, stage[a] # "idle", NEW place, stage' = [stage EXCEPT ![a] = place],
         Inside(a)' => JobSized(a)'
  PROVE  \A b \in Appenders : Inside(b)' => JobSized(b)'
<1>1. \A b \in Appenders \ {a} : stage'[b] = "idle"
  BY Alone DEF Control
<1> QED
  BY <1>1 DEF Inside

\* Steps after which nobody is inside Append.
LEMMA SizedOutside ==
  ASSUME Control, Sized, UNCHANGED <<config, now, unsized>>,
         config.kind = "rotating" => written' \in [Paths -> Nat] /\ torn' \in [Paths -> Nat],
         \A b \in Appenders : stage'[b] \in {"idle", "getFile"},
         \A p \in Paths : disk'[p][Nil]["plain"] = Live(p),
         \A p \in Paths : \/ handle'[p] = "none"
                          \/ /\ handle[p] # "none"
                             /\ handle'[p] = "open" =>
                                  handle[p] = "open" /\ written'[p] = written[p]
  PROVE  Sized'
<1>1. SUFFICES ASSUME config.kind = "rotating"
               PROVE  FilesSized' /\ \A b \in Appenders : Inside(b)' => JobSized(b)'
  BY DEF Sized
<1>2. FilesSized'
  BY <1>1, FilesStay DEF Sized, FilesSized
<1> QED
  BY <1>2 DEF Inside

\* Steps that begin or end an Append, Close and Crash.
LEMMA SizedIdle ==
  ASSUME Control, Sized,
         \/ \E a \in Appenders :
              \/ \E s \in Sessions : Lock(a, s)
              \/ GetFileFails(a) \/ RenameFails(a) \/ ReopenFails(a) \/ WriteFails(a)
         \/ Close \/ Crash
  PROVE  Sized'
<1>1. ASSUME NEW a \in Appenders, NEW s \in Sessions, Lock(a, s) PROVE Sized'
  <2>1. \A b \in Appenders : stage'[b] \in {"idle", "getFile"}
    BY <1>1, NilAssumption DEF Lock, ToStage, Control
  <2> QED
    BY <1>1, <2>1, SizedOutside
    DEF Sized, FilesSized, Lock, diskVars, handleVars, sizeVars, Live
<1>2. ASSUME NEW a \in Appenders, GetFileFails(a) PROVE Sized'
  <2>1. \A b \in Appenders : stage'[b] \in {"idle", "getFile"}
    BY <1>2, Alone DEF GetFileFails, Unlock, ToStage, Control
  <2> QED
    BY <1>2, <2>1, SizedOutside
    DEF Sized, FilesSized, GetFileFails, Forget, diskVars, sizeVars, Live
<1>3. ASSUME NEW a \in Appenders, RenameFails(a) PROVE Sized'
  <2>1. \A b \in Appenders : stage'[b] \in {"idle", "getFile"}
    BY <1>3, Alone DEF RenameFails, Unlock, ToStage, Control
  <2>2. CASE config.kind = "rotating"
    <3>1. handle[job[a].path] # "none"
      BY <1>3, <2>2 DEF RenameFails, Sized, Inside, JobSized
    <3>2. handle' = [handle EXCEPT ![job[a].path] = "closed"] /\ written' = written
      BY <1>3 DEF RenameFails
    <3>3. \A p \in Paths : \/ handle'[p] = "none"
                           \/ /\ handle[p] # "none"
                              /\ handle'[p] = "open" =>
                                   handle[p] = "open" /\ written'[p] = written[p]
      BY <3>1, <3>2 DEF Control
    <3> QED
      BY <1>3, <2>1, <3>3, SizedOutside
      DEF Sized, FilesSized, RenameFails, diskVars, sizeVars, Live
  <2>3. CASE config.kind # "rotating"
    BY <1>3, <2>3 DEF RenameFails, Sized
  <2> QED
    BY <2>2, <2>3
<1>4. ASSUME NEW a \in Appenders, ReopenFails(a) \/ WriteFails(a) PROVE Sized'
  <2>1. \A b \in Appenders : stage'[b] \in {"idle", "getFile"}
    BY <1>4, Alone DEF ReopenFails, WriteFails, Unlock, ToStage, Control
  <2>2. torn \in [Paths -> Nat] => torn' \in [Paths -> Nat]
    <3>1. CASE ReopenFails(a)
      BY <3>1 DEF ReopenFails, sizeVars
    <3>2. CASE WriteFails(a)
      <4>1. PICK p \in Paths, e \in Entries : p = job[a].path /\ e = job[a].entry
        BY <3>2 DEF WriteFails, Control
      <4>2. PICK k \in 0..(SizeOf[e] - 1) \cup {0} : torn' = [torn EXCEPT ![p] = @ + k]
        BY <3>2, <4>1 DEF WriteFails
      <4>3. k \in Nat
        BY <4>1, <4>2, Lengths
      <4> QED
        BY <4>2, <4>3
    <3> QED
      BY <1>4, <3>1, <3>2
  <2>3. /\ UNCHANGED <<config, now, unsized, disk, handle, written>>
    BY <1>4 DEF ReopenFails, WriteFails, diskVars, handleVars, sizeVars
  <2> QED
    BY <2>1, <2>2, <2>3, SizedOutside DEF Sized, FilesSized, Live
<1>5. ASSUME Close PROVE Sized'
  <2>1. \A b \in Appenders : stage'[b] \in {"idle", "getFile"}
    BY <1>5, NilAssumption DEF Close, Control
  <2> QED
    BY <1>5, <2>1, SizedOutside DEF Sized, FilesSized, Close, diskVars, sizeVars, Live
<1>6. ASSUME Crash PROVE Sized'
  <2>1. \A b \in Appenders : stage'[b] \in {"idle", "getFile"}
    BY <1>6 DEF Crash
  <2> QED
    BY <1>6, <2>1, SizedOutside DEF Sized, FilesSized, Crash, diskVars, sizeVars, Live
<1> QED
  BY <1>1, <1>2, <1>3, <1>4, <1>5, <1>6

\* What the file written to is, of a path.
LEMMA LiveFile ==
  ASSUME OnDiskInv, NEW p \in Paths
  PROVE  /\ Live(p) \in Files
         /\ Live(p) # Nil => Live(p) \in Seq(Entries)
         /\ handle[p] = "open" => Live(p) # Nil
BY BothForms DEF OnDiskInv, Live, Disks, Instants, Files

\* The size of a file is compared only when its path is today's, by a count that is
\* then no less than its entries.  A file that passes without the comparison is yesterday's.
LEMMA SizedCheck ==
  ASSUME Control, OnDiskInv, Sized, NEW a \in Appenders, Unlimited(a) \/ Check(a)
  PROVE  Sized'
<1> DEFINE p == job[a].path
<1>1. SUFFICES ASSUME config.kind = "rotating"
               PROVE  FilesSized' /\ \A b \in Appenders : Inside(b)' => JobSized(b)'
  BY DEF Sized, Unlimited, Check
<1>2. /\ Check(a) /\ stage[a] = "check" /\ config' = config /\ now' = now
      /\ disk' = disk /\ handle' = handle /\ written' = written /\ job' = job
      /\ torn' = torn /\ unsized' = unsized
  BY <1>1 DEF Unlimited, Check, diskVars, handleVars, sizeVars
<1>3. FilesSized'
  BY <1>1, <1>2, FilesStay DEF Sized, FilesSized, Live
<1>4. JobSized(a) /\ FilesSized /\ job[a].session \in Sessions /\ p \in Paths
  BY <1>1, <1>2 DEF Sized, Inside, Control
<1>5. PICK place \in {"rename", "write"} : stage' = [stage EXCEPT ![a] = place]
  BY <1>2 DEF Check, ToStage
<1>stage. stage'[a] = place
  BY <1>5 DEF Control
<1>6. ASSUME place = "write", handle[p] = "open", Today(p), p \notin unsized
      PROVE  Size(Live(p)) + SizeOf[job[a].entry] <= MaxSize
  <2>1. ResolvePath(job[a].session) = p
    BY <1>1, <1>4, <1>6, TodaysPath DEF JobSized
  <2>2. Size(Live(p)) <= written[p]
    BY <1>4, <1>6 DEF FilesSized
  <2>3. ~(written[p] + SizeOf[job[a].entry] > MaxSize)
    BY <1>2, <1>6, <1>stage, <2>1 DEF Check, ToStage, Control
  <2>4. written[p] \in Nat /\ Size(Live(p)) \in Nat /\ SizeOf[job[a].entry] \in Nat
    <3>1. Live(p) \in Files /\ job[a].entry \in Entries
      BY <1>2, <1>4, LiveFile DEF Control
    <3> QED
      BY <1>4, <3>1, SizeType, Lengths DEF FilesSized
  <2> QED
    BY <2>2, <2>3, <2>4, SizesAssumption
<1>7. JobSized(a)'
  BY <1>2, <1>4, <1>6, <1>stage DEF JobSized, Live, Today
<1>8. \A b \in Appenders : Inside(b)' => JobSized(b)'
  BY <1>2, <1>5, <1>7, OthersOutside
<1> QED
  BY <1>3, <1>8

\* Time passes: on the second day the files of the first are left, and those of the
\* second are not there yet.
LEMMA SizedPassTime ==
  ASSUME Control, OnDiskInv, Sized, PassTime
  PROVE  Sized'
<1>1. SUFFICES ASSUME config.kind = "rotating"
               PROVE  FilesSized' /\ \A b \in Appenders : Inside(b)' => JobSized(b)'
  BY DEF Sized, PassTime
<1>2. /\ config' = config /\ disk' = disk /\ handle' = handle /\ written' = written
      /\ torn' = torn /\ unsized' = unsized
      /\ stage' = stage /\ job' = job /\ now' = now + 1 /\ now \in Nat
  BY DEF PassTime, diskVars, handleVars, sizeVars, Control, Seconds
<1>3. FilesSized /\ DayEnds \in Nat /\ (now >= DayEnds => now' >= DayEnds)
  BY <1>1, <1>2, SizesAssumption DEF Sized
<1>4. ASSUME NEW p \in Paths PROVE Live(p)' = Live(p)
  BY <1>2 DEF Live
<1>5. ASSUME NEW p \in Paths, Today(p)', ~Today(p)
      PROVE  p.day = 2 /\ ~(config.dated /\ now >= DayEnds) /\ Live(p) = Nil /\ handle[p] # "open"
  <2>1. p.day = 2 /\ ~(config.dated /\ now >= DayEnds)
    BY <1>2, <1>3, <1>5 DEF Today
  <2> QED
    BY <1>3, <2>1, LiveFile DEF FilesSized
<1>6. FilesSized'
  <2>1. ASSUME NEW p \in Paths \ unsized, Today(p)'
        PROVE  Small(Live(p)) /\ (handle[p] = "open" => Size(Live(p)) <= written[p])
    BY <1>3, <1>5, <2>1, SmallEmpty DEF FilesSized
  <2> QED
    BY <1>2, <1>3, <1>4, <2>1 DEF FilesSized
<1>7. ASSUME NEW a \in Appenders, Inside(a) PROVE JobSized(a)'
  <2>1. PICK p \in Paths : p = job[a].path
    BY <1>7 DEF Inside, Control
  <2>2. JobSized(a)
    BY <1>1, <1>7 DEF Sized
  <2>3. Today(p)' => Today(p)
    BY <1>5, <2>1, <2>2 DEF JobSized
  <2> QED
    BY <1>2, <1>3, <2>1, <2>2, <2>3 DEF JobSized, Live
<1> QED
  BY <1>2, <1>6, <1>7 DEF Inside

\* getFile takes today's path.  A file it opens is counted from the size found; after a
\* rotation the file is the new one, or the first of a day that has just begun.
LEMMA SizedGetFile ==
  ASSUME Control, OnDiskInv, Kept, Sized, NEW a \in Appenders, NEW from, NEW to,
         \/ from = "getFile" /\ to = "check"
         \/ from = "getFileAgain" /\ to = "write",
         GetFile(a, from, to)
  PROVE  Sized'
<1>1. SUFFICES ASSUME config.kind = "rotating"
               PROVE  FilesSized' /\ \A b \in Appenders : Inside(b)' => JobSized(b)'
  BY DEF Sized, GetFile
<1>2. /\ stage[a] = from /\ stage' = [stage EXCEPT ![a] = to] /\ stage'[a] = to
      /\ config' = config /\ now' = now
  BY DEF GetFile, ToStage, Control
<1>3. job[a].session \in Sessions /\ FilesSized
  BY <1>1, <1>2 DEF Control, Sized
<1>4. PICK p \in Paths : p = ResolvePath(job[a].session)
  BY <1>3, InPaths
<1>5. p.session = job[a].session /\ Today(p)
  BY <1>1, <1>3, <1>4, TodaysPath
<1>6. job'[a].path = p /\ job'[a].session = job[a].session
  BY <1>4 DEF GetFile, Control, Jobs
<1>7. \A q \in Paths : Live(q)' = IF q = p /\ handle[q] = "none" /\ Live(q) = Nil
                                  THEN <<>> ELSE Live(q)
  BY <1>4, GetFileKeeps DEF Live
<1>8. \A q \in Paths : Today(q)' = Today(q)
  BY <1>2 DEF Today
<1>9. handle[p] # "none" => handle' = handle /\ written' = written /\ unsized' = unsized
  BY <1>4 DEF GetFile, handleVars, sizeVars
<1>none. ASSUME handle[p] = "none"
         PROVE  \E sized \in BOOLEAN :
                  /\ handle' = [q \in Paths |-> IF q = p THEN "open"
                                                ELSE IF q.session = p.session THEN "none"
                                                ELSE handle[q]]
                  /\ written' = [q \in Paths |-> IF q = p THEN OpenedAt(p, sized)
                                                 ELSE IF q.session = p.session THEN 0
                                                 ELSE written[q]]
                  /\ unsized' = IF sized THEN unsized ELSE unsized \cup {p}
  BY <1>4, <1>none DEF GetFile
<1>size. Size(Live(p)) \in Nat /\ torn' = torn /\ torn[p] \in Nat
  BY <1>3, LiveFile, SizeType DEF GetFile, sizeVars, FilesSized
<1>10. ASSUME handle[p] = "none", NEW q \in Paths
       PROVE  /\ handle'[q] = IF q = p THEN "open"
                              ELSE IF q.session = p.session THEN "none" ELSE handle[q]
              /\ q # p => written'[q] = IF q.session = p.session THEN 0 ELSE written[q]
              /\ q = p /\ q \notin unsized' => Size(Live(p)) <= written'[q]
  BY <1>none, <1>size, <1>10 DEF OpenedAt
<1>grows. unsized \subseteq unsized'
  BY <1>9, <1>none
<1>11. FilesSized'
  <2>1. \A q \in Paths : Live(q)' \notin {Nil, <<>>} => Live(q)' = Live(q)
    BY <1>7
  <2>2. \A q \in Paths : Small(Live(q)) => Small(Live(q)')
    BY <1>7, SmallEmpty
  <2>3. \A q \in Paths : q.day = 2 /\ Live(q)' # Nil => config.dated /\ now >= DayEnds
    BY <1>3, <1>5, <1>7 DEF FilesSized, Today
  <2>4. \A q \in Paths : Size(Live(q)') = Size(Live(q))
    BY <1>7, SizeType
  <2>5. ASSUME NEW q \in Paths \ unsized', Today(q), handle'[q] = "open"
        PROVE  Size(Live(q)) <= written'[q]
    BY <1>3, <1>9, <1>10, <1>grows, <2>5 DEF FilesSized
  <2>7. written' \in [Paths -> Nat] /\ torn' \in [Paths -> Nat]
    BY <1>3, <1>9, <1>none, <1>size DEF OpenedAt, FilesSized
  <2>6. ASSUME NEW q \in Paths, NEW r \in Paths, handle'[q] # "none", handle'[r] # "none",
               q.session = r.session
        PROVE  q = r
    BY <1>3, <1>9, <1>10, <2>6 DEF FilesSized
  <2>8. \A q \in Paths \ unsized' : Live(q)' \notin {Nil, <<>>} => Small(Front(Live(q)'))
    BY <1>3, <1>grows, <2>1 DEF FilesSized
  <2>9. \A q \in Paths \ unsized' : Today(q) => Small(Live(q)')
    BY <1>3, <1>grows, <2>2 DEF FilesSized
  <2>10. \A q \in Paths \ unsized' : Today(q) /\ handle'[q] = "open" => Size(Live(q)') <= written'[q]
    BY <2>4, <2>5
  <2> QED
    BY <1>2, <1>8, <2>3, <2>6, <2>7, <2>8, <2>9, <2>10 DEF FilesSized
<1>12. JobSized(a)'
  <2>1. handle'[p] # "none" /\ (p \notin unsized' => Small(Live(p)'))
    BY <1>3, <1>5, <1>7, <1>9, <1>10, <1>grows, SmallEmpty DEF FilesSized
  <2>2. p.day = 2 => config.dated /\ now >= DayEnds
    BY <1>5 DEF Today
  <2>3. ASSUME p.day = 1, config.dated PROVE Live([p EXCEPT !.day = 2])' = Nil
    <3>1. PICK q \in Paths : q = [p EXCEPT !.day = 2]
      BY DEF Paths
    <3>2. q.day = 2 /\ ~(now >= DayEnds) /\ q # p
      BY <1>5, <2>3, <3>1 DEF Today, Paths
    <3>3. Live(q)' = Nil
      BY <1>3, <1>7, <3>2 DEF FilesSized
    <3> QED
      BY <3>1, <3>3
  <2>4. ASSUME to = "write" PROVE Live(p)' = <<>>
    <3>1. from = "getFileAgain" /\ Inside(a) /\ JobSized(a)
      BY <1>1, <1>2, <2>4 DEF Inside, Sized
    <3>2. PICK q \in Paths : q = job[a].path
      BY <3>1 DEF Inside, Control
    <3>3. /\ q.session = p.session /\ handle[q] # "none" /\ Live(q) = <<>>
          /\ q.day = 2 => config.dated /\ now >= DayEnds
          /\ q.day = 1 /\ config.dated => Live([q EXCEPT !.day = 2]) = Nil
      BY <1>2, <1>5, <3>1, <3>2 DEF JobSized
    <3>4. CASE handle[p] # "none"
      <4>1. p = q
        BY <1>3, <3>3, <3>4 DEF FilesSized
      <4> QED
        BY <1>7, <3>3, <3>4, <4>1
    <3>5. CASE handle[p] = "none"
      <4>1. p.day = 2 /\ q.day = 1 /\ config.dated
        BY <1>5, <3>3, <3>5 DEF Today, Paths
      <4>2. p = [q EXCEPT !.day = 2]
        BY <3>3, <4>1 DEF Paths
      <4>3. Live(p) = Nil
        BY <3>3, <4>1, <4>2
      <4> QED
        BY <1>7, <3>5, <4>3
    <3> QED
      BY <3>4, <3>5
  <2>5. to \in {"check", "write"}
    OBVIOUS
  <2> QED
    BY <1>2, <1>5, <1>6, <2>1, <2>2, <2>3, <2>4, <2>5 DEF JobSized
<1>13. \A b \in Appenders : Inside(b)' => JobSized(b)'
  BY <1>2, <1>12, OthersOutside
<1> QED
  BY <1>11, <1>13

\* The entry goes to the file in hand, which may take one more, and is counted for
\* today's: the same file, or none that is open.
LEMMA SizedWrite ==
  ASSUME Control, OnDiskInv, Kept, Sized, NEW a \in Appenders, Write(a)
  PROVE  Sized'
<1>1. SUFFICES ASSUME config.kind = "rotating"
               PROVE  FilesSized' /\ \A b \in Appenders : Inside(b)' => JobSized(b)'
  BY DEF Sized, Write
<1>2. /\ stage[a] = "write" /\ config' = config /\ now' = now /\ handle' = handle
      /\ torn' = torn /\ unsized' = unsized
      /\ \A b \in Appenders : stage'[b] = "idle"
  BY Alone DEF Write, sizeVars, Unlock, ToStage, Control
<1>3. PICK p \in Paths : p = job[a].path
  BY <1>2 DEF Control
<1>4. PICK e \in Entries : e = job[a].entry
  BY <1>2 DEF Control
<1>5. JobSized(a) /\ FilesSized /\ job[a].session \in Sessions
  BY <1>1, <1>2 DEF Sized, Inside, Control
<1>dom. written \in [Paths -> Nat] /\ torn \in [Paths -> Nat]
  BY <1>5 DEF FilesSized
<1>6. PICK q \in Paths : q = ResolvePath(job[a].session)
  BY <1>5, InPaths
<1>7. /\ p.session = q.session /\ Today(q) /\ handle[p] # "none"
      /\ (Today(p) => p = q) /\ (handle[q] # "none" => p = q)
      /\ (p.day = 2 => config.dated /\ now >= DayEnds)
  BY <1>1, <1>3, <1>5, <1>6, TodaysPath DEF JobSized, FilesSized
<1>8. \A r \in Paths : Live(r)' = IF r = p /\ handle[r] = "open"
                                  THEN Append(Live(r), e) ELSE Live(r)
  BY <1>3, <1>4, WriteKeeps DEF Live
<1>9. \A r \in Paths : Today(r)' = Today(r)
  BY <1>2 DEF Today
<1>10. CASE handle[p] # "open"
  <2>1. written' = written
    BY <1>3, <1>10 DEF Write
  <2>2. \A r \in Paths : disk'[r][Nil]["plain"] = Live(r)
    BY <1>8, <1>10 DEF Live
  <2> QED
    BY <1>2, <1>5, <2>1, <2>2, FilesStay DEF FilesSized, Inside
<1>11. CASE handle[p] = "open"
  <2>1. /\ Live(p) \in Seq(Entries) /\ (p \notin unsized => Small(Live(p)))
        /\ Today(p) /\ p \notin unsized =>
             Live(p) = <<>> \/ Size(Live(p)) + SizeOf[e] <= MaxSize
    BY <1>2, <1>3, <1>4, <1>5, <1>11, LiveFile DEF JobSized
  <2> DEFINE f == Live(p)
             h == Append(f, e)
  <2>2. /\ Size(h) = Size(f) + SizeOf[e]
        /\ p \notin unsized => Small(Front(h)) /\ (Today(p) => Small(h))
    BY <2>1, SizeAppended, SmallAppended
  <2>3. Live(p)' = h /\ \A r \in Paths : r # p => Live(r)' = Live(r)
    BY <1>8, <1>11
  <2>4. written' = IF handle[q] # "none" THEN [written EXCEPT ![q] = @ + SizeOf[e]] ELSE written
    BY <1>1, <1>3, <1>4, <1>6, <1>11 DEF Write
  <2> HIDE DEF h
  <2>5. ASSUME NEW r \in Paths \ unsized, Today(r), handle[r] = "open"
        PROVE  Size(Live(r)') <= written'[r]
    <3>1. Size(Live(r)) <= written[r]
      BY <1>5, <2>5 DEF FilesSized
    <3>2. CASE r = p
      <4>1. q = p
        BY <1>7, <2>5, <3>2
      <4>2. written'[p] = written[p] + SizeOf[e]
        BY <1>11, <1>dom, <2>4, <4>1
      <4>3. Size(f) \in Nat /\ written[p] \in Nat /\ SizeOf[e] \in Nat
        BY <1>dom, <2>1, LiveFile, SizeType, Lengths
      <4> QED
        BY <2>2, <2>3, <3>1, <3>2, <4>2, <4>3
    <3>3. CASE r # p
      <4>1. written'[r] = written[r]
        BY <1>7, <2>4, <3>3
      <4> QED
        BY <2>3, <3>1, <3>3, <4>1
    <3> QED
      BY <3>2, <3>3
  <2>6. \A r \in Paths \ unsized : Live(r)' \notin {Nil, <<>>} => Small(Front(Live(r)'))
    BY <1>5, <2>2, <2>3 DEF FilesSized
  <2>7. \A r \in Paths \ unsized : Today(r) => Small(Live(r)')
    BY <1>5, <2>2, <2>3 DEF FilesSized
  <2>8. \A r \in Paths : r.day = 2 /\ Live(r)' # Nil => config.dated /\ now >= DayEnds
    BY <1>5, <1>7, <2>3 DEF FilesSized
  <2>10. written' \in [Paths -> Nat]
    BY <1>dom, <2>4, Lengths
  <2>9. FilesSized'
    BY <1>2, <1>5, <1>9, <1>dom, <2>5, <2>6, <2>7, <2>8, <2>10 DEF FilesSized
  <2> QED
    BY <1>2, <2>9 DEF Inside
<1> QED
  BY <1>10, <1>11

\* Rotation: the file is archived, its archive may be compressed, a new file is made.
LEMMA SizedRotate ==
  ASSUME Control, OnDiskInv, Kept, Sized, NEW a \in Appenders,
         \/ Rename(a) \/ CompressFails(a) \/ (\E removed \in BOOLEAN : Compress(a, removed))
         \/ Reopen(a)
  PROVE  Sized'
<1>1. SUFFICES ASSUME config.kind = "rotating"
               PROVE  FilesSized' /\ \A b \in Appenders : Inside(b)' => JobSized(b)'
  BY DEF Sized, Rename, CompressFails, Compress, Reopen
<1>2. /\ stage[a] \in {"rename", "compress", "reopen"} /\ config' = config /\ now' = now
      /\ job'[a].path = job[a].path /\ job'[a].session = job[a].session
  <2>1. CASE Rename(a)
    BY <2>1 DEF Rename, Control, Jobs
  <2>2. CASE CompressFails(a) \/ (\E removed \in BOOLEAN : Compress(a, removed)) \/ Reopen(a)
    BY <2>2 DEF CompressFails, Compress, Reopen
  <2> QED
    BY <2>1, <2>2
<1>3. PICK p \in Paths : p = job[a].path
  BY <1>2 DEF Control
<1>4. JobSized(a) /\ FilesSized
  BY <1>1, <1>2 DEF Sized, Inside
<1>sizes. /\ written' \in [Paths -> Nat] /\ torn' \in [Paths -> Nat]
          /\ unsized' = IF Rename(a) THEN unsized \ {p} ELSE unsized
  <2>1. CASE Rename(a)
    <3>1. written' = written /\ torn' = [torn EXCEPT ![p] = 0] /\ unsized' = unsized \ {p}
      BY <1>3, <2>1 DEF Rename
    <3> QED
      BY <1>4, <2>1, <3>1 DEF FilesSized
  <2>2. CASE CompressFails(a) \/ (\E removed \in BOOLEAN : Compress(a, removed)) \/ Reopen(a)
    <3>1. ~Rename(a)
      BY <2>2 DEF Rename, CompressFails, Compress, Reopen
    <3>2. torn' = torn /\ unsized' = unsized /\ written' \in {written, [written EXCEPT ![p] = 0]}
      BY <1>3, <2>2 DEF CompressFails, Compress, Reopen, handleVars, sizeVars
    <3> QED
      BY <1>4, <3>1, <3>2 DEF FilesSized
  <2> QED
    BY <2>1, <2>2
<1>5. PICK place \in {"compress", "reopen", "getFileAgain"} : stage' = [stage EXCEPT ![a] = place]
  BY DEF Rename, CompressFails, Compress, Reopen, ToStage
<1>stage. stage'[a] = place
  BY <1>5 DEF Control
<1>6. \A q \in Paths : Today(q)' = Today(q)
  BY <1>2 DEF Today
<1>7. PICK f \in {Nil, <<>>, Live(p)} :
        /\ \A q \in Paths : Live(q)' = IF q = p THEN f ELSE Live(q)
        /\ place = "getFileAgain" => f = <<>>
        /\ Rename(a) => f = Nil
  <2>1. CASE Rename(a)
    <3>1. \A q \in Paths : Live(q)' = IF q = p THEN Nil ELSE Live(q)
      BY <1>3, <2>1, RenameKeeps DEF Live
    <3>2. place # "getFileAgain"
      BY <1>stage, <2>1 DEF Rename, ToStage, Control
    <3> QED
      BY <3>1, <3>2
  <2>0. ~Rename(a) \/ stage[a] = "rename"
    BY DEF Rename
  <2>2. CASE CompressFails(a) \/ \E removed \in BOOLEAN : Compress(a, removed)
    <3>1. \A q \in Paths : Live(q)' = Live(q)
      BY <2>2, CompressKeeps, CompressFailsKeeps DEF Live
    <3>2. place # "getFileAgain"
      BY <1>stage, <2>2 DEF CompressFails, Compress, ToStage, Control
    <3>3. ~Rename(a)
      BY <2>0, <2>2 DEF CompressFails, Compress
    <3> QED
      BY <3>1, <3>2, <3>3
  <2>3. CASE Reopen(a)
    <3>1. \A q \in Paths : Live(q)' = IF q = p THEN <<>> ELSE Live(q)
      BY <1>3, <2>3, ReopenKeeps DEF Live
    <3>2. ~Rename(a)
      BY <2>0, <2>3 DEF Reopen
    <3> QED
      BY <3>1, <3>2
  <2> QED
    BY <2>1, <2>2, <2>3
<1>8. /\ handle[p] # "none" /\ handle'[p] # "none"
      /\ \A q \in Paths : q # p => handle'[q] = handle[q] /\ written'[q] = written[q]
      /\ handle'[p] = "open" =>
           \/ f = <<>> /\ written'[p] = 0
           \/ f = Live(p) /\ handle[p] = "open" /\ written'[p] = written[p]
  <2>1. handle[p] # "none"
    BY <1>3, <1>4 DEF JobSized
  <2>2. CASE Rename(a)
    BY <1>3, <2>1, <2>2 DEF Rename, Control
  <2>3. CASE CompressFails(a) \/ \E removed \in BOOLEAN : Compress(a, removed)
    <3>1. handle' = handle /\ written' = written
      BY <2>3 DEF CompressFails, Compress, handleVars
    <3>2. Live(p) = Nil
      BY <1>3, <2>3 DEF OnDiskInv, CompressFails, Compress
    <3>3. handle[p] # "open"
      BY <3>2, LiveFile
    <3> QED
      BY <2>1, <3>1, <3>3
  <2>4. CASE Reopen(a)
    <3>1. handle' = [handle EXCEPT ![p] = "open"] /\ written' = [written EXCEPT ![p] = 0]
      BY <1>3, <2>4 DEF Reopen
    <3>2. f = <<>>
      BY <1>7, <1>stage, <2>4 DEF Reopen, ToStage, Control
    <3> QED
      BY <1>4, <2>1, <3>1, <3>2 DEF FilesSized, Control
  <2> QED
    BY <2>2, <2>3, <2>4
<1>renamed. Rename(a) => handle'[p] = "closed"
  BY <1>3, <1>4 DEF Rename, Control
<1>9. (p.day = 2 => config.dated /\ now >= DayEnds) /\ p.session = job[a].session
  BY <1>3, <1>4 DEF JobSized
<1>10. FilesSized'
  <2>1. \A q \in Paths \ unsized' : Live(q)' \notin {Nil, <<>>} => Small(Front(Live(q)'))
    BY <1>4, <1>7, <1>sizes DEF FilesSized
  <2>2. \A q \in Paths \ unsized' : Today(q) => Small(Live(q)')
    BY <1>4, <1>7, <1>sizes, SmallEmpty DEF FilesSized
  <2>3. \A q \in Paths : q.day = 2 /\ Live(q)' # Nil => config.dated /\ now >= DayEnds
    BY <1>4, <1>7, <1>9 DEF FilesSized
  <2>4. \A q \in Paths \ unsized' : Today(q) /\ handle'[q] = "open" => Size(Live(q)') <= written'[q]
    <3>1. ASSUME NEW q \in Paths \ unsized', Today(q), handle'[q] = "open", q # p
          PROVE  Size(Live(q)') <= written'[q]
      <4>1. q \notin unsized /\ Live(q)' = Live(q)
        BY <1>7, <1>sizes, <3>1
      <4>2. written'[q] = written[q] /\ handle[q] = "open"
        BY <1>8, <3>1
      <4> QED
        BY <1>4, <3>1, <4>1, <4>2 DEF FilesSized
    <3>2. ASSUME p \notin unsized', Today(p), handle'[p] = "open"
          PROVE  Size(Live(p)') <= written'[p]
      <4>1. Live(p)' = f /\ p \notin unsized
        BY <1>7, <1>renamed, <1>sizes, <3>2
      <4>2. CASE f = <<>> /\ written'[p] = 0
        BY <4>1, <4>2, SizeType
      <4>3. CASE f = Live(p) /\ handle[p] = "open" /\ written'[p] = written[p]
        BY <1>4, <3>2, <4>1, <4>3 DEF FilesSized
      <4> QED
        BY <1>8, <3>2, <4>2, <4>3
    <3> QED
      BY <3>1, <3>2
  <2>5. \A q, r \in Paths :
          handle'[q] # "none" /\ handle'[r] # "none" /\ q.session = r.session => q = r
    BY <1>4, <1>8 DEF FilesSized
  <2> QED
    BY <1>2, <1>6, <1>sizes, <2>1, <2>2, <2>3, <2>4, <2>5 DEF FilesSized
<1>11. JobSized(a)'
  <2>1. p.day = 1 /\ config.dated => Live([p EXCEPT !.day = 2])' = Nil
    <3>1. PICK q \in Paths : q = [p EXCEPT !.day = 2]
      BY DEF Paths
    <3>2. p.day = 1 => q # p
      BY <3>1 DEF Paths
    <3> QED
      BY <1>3, <1>4, <1>7, <3>1, <3>2 DEF JobSized
  <2>2. place = "getFileAgain" => Live(p)' = <<>>
    BY <1>7
  <2> QED
    BY <1>2, <1>3, <1>8, <1>9, <1>stage, <2>1, <2>2 DEF JobSized
<1>12. \A b \in Appenders : Inside(b)' => JobSized(b)'
  BY <1>2, <1>5, <1>11, OthersOutside
<1> QED
  BY <1>10, <1>12

\* Every step keeps the sizes.
LEMMA SizedStep ==
  ASSUME Control, OnDiskInv, Kept, Sized, WriterNext
  PROVE  Sized'
BY SizedIdle, SizedCheck, SizedPassTime, SizedGetFile, SizedWrite, SizedRotate
DEF WriterNext, AppendEntry, Rotate

\* A new writer finds no files.
LEMMA SizedInit == NewMemoryWriter => Sized
<1>1. SUFFICES ASSUME NewMemoryWriter PROVE FilesSized /\ \A a \in Appenders : ~Inside(a)
  BY DEF Sized
<1>2. \A p \in Paths : Live(p) = Nil /\ handle[p] = "none"
  BY <1>1, BothForms DEF NewMemoryWriter, Live
<1>3. written \in [Paths -> Nat] /\ torn \in [Paths -> Nat]
  BY <1>1 DEF NewMemoryWriter
<1>4. \A a \in Appenders : ~Inside(a)
  BY <1>1 DEF NewMemoryWriter, Inside
<1> QED
  BY <1>2, <1>3, <1>4, SmallEmpty DEF FilesSized

\* What the run's invariant says, from the smallness of all but the last entry.
LEMMA SizedImplies == OnDiskInv /\ Sized => SizeBound
<1>1. SUFFICES ASSUME OnDiskInv, Sized, config.kind = "rotating", NEW p \in Paths \ unsized,
                      Live(p) \notin {Nil, <<>>}
               PROVE  Size(Front(Live(p))) <= MaxSize \/ Len(Front(Live(p))) = 1
  BY DEF SizeBound
<1> DEFINE f == Live(p)
           rest == Front(f)
<1>2. f \in Seq(Entries) /\ f # <<>> /\ Small(rest)
  BY <1>1, LiveFile DEF Sized, FilesSized
<1>3. rest \in Seq(Entries)
  <2>1. Len(f) \in Nat /\ DOMAIN f = 1..Len(f) /\ Len(f) # 0
    BY <1>2, LenProperties, EmptySeq
  <2>2. rest = SubSeq(f, 1, Len(f) - 1)
    BY DEF Front
  <2> HIDE DEF rest, f
  <2> QED
    BY <1>2, <2>1, <2>2
<1>4. rest # Nil /\ Len(rest) \in Nat
  BY <1>3, NilAssumption, LenProperties
<1>5. Len(rest) = 0 => Size(rest) <= MaxSize
  BY <1>3, EmptySeq, SizeType, SizesAssumption
<1>6. Size(rest) <= MaxSize \/ Len(rest) = 1
  <2> HIDE DEF rest
  <2>1. Size(rest) <= MaxSize \/ Len(rest) <= 1
    BY <1>2, <1>4 DEF Small
  <2>2. \A n \in Nat : n <= 1 => n = 0 \/ n = 1
    OBVIOUS
  <2> QED
    BY <1>4, <1>5, <2>1, <2>2, Zenon
<1> QED
  BY <1>6

----------------------------------------------------------------------------

\* Every step keeps the first three parts of the invariant.
LEMMA InvStep ==
  ASSUME Control, OnDiskInv, Kept, [WriterNext]_writerVars
  PROVE  Control' /\ OnDiskInv' /\ Kept'
<1>1. CASE WriterNext
  <2>1. Control'
    BY <1>1, ControlStep
  <2>2. OnDiskInv' /\ Kept'
    BY <1>1, OtherSteps, GetFileKeeps, WriteKeeps, RenameKeeps, CompressKeeps,
       CompressFailsKeeps, ReopenKeeps
    DEF WriterNext, AppendEntry, Rotate
  <2> QED
    BY <2>1, <2>2
<1>2. CASE UNCHANGED writerVars
  BY <1>2, DiskStays DEF writerVars, handleVars, diskVars, Control
<1> QED
  BY <1>1, <1>2

\* A new writer has lost nothing.
LEMMA InvInit == NewMemoryWriter => Control /\ OnDiskInv /\ Kept
<1>1. SUFFICES ASSUME NewMemoryWriter PROVE OnDiskInv /\ Kept
  BY ControlInit
<1>2. disk \in Disks
  BY <1>1 DEF NewMemoryWriter, Disks, Instants, Files
<1>3. \A p \in Paths : handle[p] # "open"
  BY <1>1 DEF NewMemoryWriter
<1>4. \A a \in Appenders : stage[a] = "idle"
  BY <1>1 DEF NewMemoryWriter
<1>5. Kept
  BY <1>1 DEF NewMemoryWriter, Kept
<1> QED
  BY <1>2, <1>3, <1>4, <1>5 DEF OnDiskInv

\* What the run's invariant says, from its elementwise form.
LEMMA KeptImplies == Kept => NothingLost
<1>1. SUFFICES ASSUME Kept, NEW e \in accepted, e \notin overwritten
               PROVE  \E p \in Paths : e \in OnDisk(p)
  BY DEF NothingLost
<1>2. PICK p \in Paths, at \in Instants, form \in Forms : Has(disk[p][at][form], e)
  BY <1>1 DEF Kept, Held
<1>3. /\ disk[p][at][form] \in {disk[p][b][g] : b \in Seconds \cup {Nil}, g \in Forms} \ {Nil}
      /\ e \in ToSet(disk[p][at][form])
  BY <1>2 DEF Has, Instants
<1>4. e \in OnDisk(p)
  <2> DEFINE files == {disk[p][b][g] : b \in Seconds \cup {Nil}, g \in Forms} \ {Nil}
             f == disk[p][at][form]
  <2>1. f \in files /\ e \in ToSet(f)
    BY <1>3
  <2>2. OnDisk(p) = UNION {ToSet(x) : x \in files}
    BY DEF OnDisk
  <2> HIDE DEF files, f
  <2>3. ToSet(f) \in {ToSet(x) : x \in files}
    BY <2>1
  <2> QED
    BY <2>1, <2>2, <2>3
<1> QED
  BY <1>4

\* An entry whose Append returned no error is in a file, unless a second archive of its
\* file took the name of the first within the second: for any number of goroutines,
\* sessions, rotations, failed calls and crashes.
THEOREM KeepsEntries == WriterSpec => []NothingLost
<1>1. NewMemoryWriter => Control /\ OnDiskInv /\ Kept
  BY InvInit
<1>2. Control /\ OnDiskInv /\ Kept /\ [WriterNext]_writerVars => Control' /\ OnDiskInv' /\ Kept'
  BY InvStep
<1>3. Kept => NothingLost
  BY KeptImplies
<1> QED
  BY <1>1, <1>2, <1>3, PTL DEF WriterSpec

\* A file of a writer that rotates is over its limit by its last entry at most, or by that
\* and an only other one, whatever the sizes, the order of the calls, the moment the day
\* ends, and the calls that fail, save that the pieces of short writes come on top and that
\* a file opened without learning its size is not bounded before it is rotated.
THEOREM KeepsSize == WriterSpec => []SizeBound
<1>1. NewMemoryWriter => Control /\ OnDiskInv /\ Kept /\ Sized
  BY InvInit, SizedInit
<1>2. Control /\ OnDiskInv /\ Kept /\ Sized /\ [WriterNext]_writerVars =>
        Control' /\ OnDiskInv' /\ Kept' /\ Sized'
  <2>1. SUFFICES ASSUME Control, OnDiskInv, Kept, Sized, [WriterNext]_writerVars
                 PROVE  Control' /\ OnDiskInv' /\ Kept' /\ Sized'
    OBVIOUS
  <2>2. CASE WriterNext
    BY <2>1, <2>2, InvStep, SizedStep
  <2>3. CASE UNCHANGED writerVars
    <3>1. Sized'
      BY <2>1, <2>3 DEF Sized, FilesSized, JobSized, Inside, Live, Today, writerVars,
         diskVars, handleVars, sizeVars
    <3> QED
      BY <2>1, <3>1, InvStep
  <2> QED
    BY <2>1, <2>2, <2>3
<1>3. OnDiskInv /\ Sized => SizeBound
  BY SizedImplies
<1> QED
  BY <1>1, <1>2, <1>3, PTL DEF WriterSpec

=============================================================================
