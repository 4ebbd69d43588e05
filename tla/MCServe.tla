-------------------------------- MODULE MCServe --------------------------------
EXTENDS Serve

CONSTANTS t1, t2, r1, r2, m1, m2, n1, n2, secret, insult

NoProviders == [n \in Providers |-> <<>>]
RuleOn(subject, action) == [subject |-> subject, action |-> action, scope |-> None]

Base == [key |-> "k0", upstream |-> None, model |-> None, regex |-> None, prompts |-> <<>>,
         rules |-> <<RuleOn(insult, "mask")>>, providers |-> NoProviders, default |-> None,
         fallbacks |-> {}]

\* Both providers match m1, the second one by its pattern, after a policy for m2.
Two == [Base EXCEPT !.providers =
  (n1 :> <<[key |-> "k1", upstream |-> "u1", model |-> m1, regex |-> None,
            prompts |-> <<{}>>, rules |-> <<RuleOn(secret, "mask")>>]>>)
  @@ (n2 :> <<[key |-> "k2", upstream |-> None, model |-> m2, regex |-> None,
               prompts |-> <<>>, rules |-> <<>>],
              [key |-> "k1", upstream |-> None, model |-> None, regex |-> {m1, m2},
               prompts |-> <<>>, rules |-> <<RuleOn(secret, None)>>]>>)]

\* No key of its own: for m1 it is the one of the default provider, and so it is for the
\* fallback, which has a provider's key.
Lent == [Base EXCEPT !.key = None, !.default = n1, !.fallbacks = {m2}, !.providers =
  [NoProviders EXCEPT ![n2] = <<[key |-> "k2", upstream |-> None, model |-> m2, regex |-> None,
                                 prompts |-> <<>>, rules |-> <<>>]>>]]

\* No key of its own, and no provider: not valid.
Keyless == [Base EXCEPT !.key = None]

MCKindOf == r1 :> "chat" @@ r2 :> "pass"
MCTokenOf == r1 :> t1 @@ r2 :> t2
MCModelOf == r1 :> m1 @@ r2 :> m2
MCMessagesOf == [r \in Requests |-> <<{secret, insult}, NotText>>]
MCServerOf == r1 :> "http" @@ r2 :> "https"
MCPromptOf == [r \in Requests |-> 1]
MCUsageOf == [r \in Requests |-> 2]
MCPolicyText ==
  [base |-> Base, two |-> Two, lent |-> Lent, keyless |-> Keyless,
   unset |-> [Base EXCEPT !.key = "k2"], broken |-> [Base EXCEPT !.upstream = "%"]]
MCProviderConfig == n1 :> [upstream |-> "v1", key |-> "k1"] @@ n2 :> None
MCStatsKeys == Models \X {"k0", "k1", "k2", None}
MCTextsOf == t1 :> {"two", "lent", "keyless"} @@ t2 :> {"base", "unset", "broken"}
MCDisplay == [t \in Tokens |-> t]

=============================================================================
