--------------------------------- MODULE Serve ---------------------------------
(***************************************************************************)
(* `tokenomics serve` from start to exit: runServe of cmd/serve.go with    *)
(* its two HTTP servers, the signal, the drain and the deferred closes;    *)
(* the requests that Handler.ServeHTTP hands to the chat or the            *)
(* passthrough handler, each under the policy it looked up; the reports of *)
(* the admin API.  They meet in the statistics and in the session ledger.  *)
(* The limits, the budget and the retries of a chat request are in         *)
(* RateLimiter, SessionBudget and ChatHandler; here a request may be       *)
(* refused, the calls for one model are one, and any fallback may be the   *)
(* next.                                                                   *)
(***************************************************************************)
EXTENDS PolicyResolution, UsageStats, SessionLedger

CONSTANTS
  Requests,       \* requests
  KindOf,         \* KindOf[r]: "chat" or "pass", by its path
  TokenOf,        \* TokenOf[r]: the hash of the token it comes with
  ModelOf,        \* ModelOf[r]: the model it asks for
  MessagesOf,     \* MessagesOf[r]: its messages, each a text or none
  PromptOf,       \* PromptOf[r]: the tokens of its prompt
  UsageOf,        \* UsageOf[r]: those, and the tokens of an answer to it
  ServerOf,       \* ServerOf[r]: the server it comes to
  PolicyText,     \* PolicyText[i]: the policy that a text stands for
  TextsOf,        \* TextsOf[t]: the texts that token t may be given
  ProviderConfig, \* ProviderConfig[n]: upstream and key of providers.yaml, or None
  DefaultProvider,\* default_provider of the configuration, or None
  GlobalUpstream, \* server.upstream_url
  KeysSet,        \* the environment variables that are set
  URLs,           \* the upstreams that url.Parse accepts
  Configured,     \* the servers that are configured
  Failing         \* bound: the servers that may fail

Servers == {"http", "https"}

ASSUME RequestsAssumption ==
  /\ IsFiniteSet(Requests)
  /\ \A r \in Requests : KindOf[r] \in {"chat", "pass"} /\ TokenOf[r] \in Tokens
  /\ Configured \subseteq Servers /\ \A r \in Requests : ServerOf[r] \in Configured
  /\ \A r \in Requests : ModelOf[r] \in Models /\ PromptOf[r] \in Nat /\ UsageOf[r] \in Nat
  /\ \A r \in Requests : MessagesOf[r] \in Seq({NotText} \cup SUBSET Subjects)
  /\ \A t \in Tokens : \A text \in TextsOf[t] : PolicyText[text] \in Policy
  /\ DefaultProvider \in Providers \cup {None}

VARIABLES
  main,     \* where runServe is
  deferred, \* the deferred calls, the last one on top
  server,   \* server[s]: "off", "up", "failed", "closed" (no new requests)
  drain,    \* drain[s]: its shutdown goroutine: "none", "waiting", "draining", "done"
  stopped,  \* ctx.Done(): a signal, or the deferred stop()
  cut,      \* history: requests may be in flight when runServe returns
  pc,       \* pc[r]: where a request is
  policy,   \* policy[r]: what Lookup returned
  resolved, \* resolved[r]: the provider and the key it is recorded with, and whether the
            \* body of its answer could not be read
  sent,     \* sent[r]: what the last call sent upstream, or None
  answered, \* answered[r]: an upstream answer was used for it
  report    \* bound: one report at a time; what it has copied, or None

life == <<main, deferred, server, drain, stopped, cut>>
calls == <<pc, policy, resolved, sent, answered>>
vars == <<life, calls, report, statsVars, ledgerVars>>

Goto(r, place) == pc' = [pc EXCEPT ![r] = place]
\* The handler returns, and what it held is gone.
HandlerReturns(r) ==
  /\ Goto(r, "done")
  /\ policy' = [policy EXCEPT ![r] = None]
  /\ resolved' = [resolved EXCEPT ![r] = None]
  /\ sent' = [sent EXCEPT ![r] = None]
\* errCh holds an error.
Errors == \E s \in Servers : server[s] = "failed"

Running == main # "exited"
InFlight(s) == {r \in Requests : pc[r] \notin {"new", "done"} /\ ServerOf[r] = s}

\* The first of these that is set.
FirstOf(fields) ==
  LET i == SelectInSeq(fields, LAMBDA f : f # None) IN IF i = 0 THEN None ELSE fields[i]

ProviderName(p, rp) == FirstOf(<<rp.provider, p.default, DefaultProvider>>)
FromConfig(n, field) ==
  IF n = None \/ ProviderConfig[n] = None THEN None ELSE ProviderConfig[n][field]
UpstreamOf(p, rp) ==
  FirstOf(<<rp.upstream, FromConfig(ProviderName(p, rp), "upstream"), GlobalUpstream>>)
KeyOf(p, rp) == FirstOf(<<rp.key, FromConfig(ProviderName(p, rp), "key")>>)

----------------------------------------------------------------------------
(* Requests.                                                               *)

\* What Lookup may return: the writers of the store, the admin API among them, parse
\* a policy before they store it.
Stored(t) == {p \in TextsOf[t] : Validate(PolicyText[p])}

\* ServeHTTP: the token is looked up once; without a policy the answer is 401.
ServeHTTP(r, p) ==
  /\ pc[r] = "new" /\ server[ServerOf[r]] = "up" /\ Running
  /\ IF p = None
     THEN HandlerReturns(r)
     ELSE /\ policy' = [policy EXCEPT ![r] = p] /\ Goto(r, KindOf[r])
          /\ UNCHANGED <<resolved, sent>>
  /\ UNCHANGED <<life, answered, report, statsVars, ledgerVars>>

\* The policy that the request's lookup returned.
PolicyOf(r) == Parse(PolicyText[policy[r]])

\* What a chat request may be held to, with the key it would be sent with.
Resolutions(r) ==
  IF pc[r] # "chat" THEN {}
  ELSE LET p == PolicyOf(r)
       IN {[rp EXCEPT !.key = KeyOf(p, rp)] : rp \in ResolveForModel(p, ModelOf[r])}

\* A limit or a rule refuses it, or the model, or the budget, which has counted its
\* prompt.
Refuse(r, rp, n) ==
  /\ pc[r] = "chat" /\ Running
  /\ Record(TokenOf[r], <<ModelOf[r], rp.key>>, n)
  /\ HandlerReturns(r)
  /\ UNCHANGED <<life, answered, report, ledgerVars>>

\* The messages that are texts are looked at one by one, and redacted.
IsBlocked(rp, messages) ==
  \E i \in DOMAIN messages :
    messages[i] # NotText /\ Blocked(rp.rules, messages[i], "input")

MaskedMessages(rp, messages) ==
  [i \in DOMAIN messages |->
     IF messages[i] = NotText THEN NotText ELSE Masked(rp.rules, messages[i], "input")]

\* A request passes the checks, and its key is looked up: without one the answer is 500,
\* as it is when the upstream does not parse.
Forward(r, rp) ==
  LET upstream == UpstreamOf(PolicyOf(r), rp)
  IN /\ pc[r] = "chat" /\ Running
     /\ CheckModel(rp, ModelOf[r]) /\ ~IsBlocked(rp, MessagesOf[r])
     /\ IF rp.key \in KeysSet /\ upstream \in URLs
        THEN /\ resolved' = [resolved EXCEPT ![r] =
                  [provider |-> rp.provider, key |-> rp.key, broken |-> FALSE]]
             /\ sent' = [sent EXCEPT ![r] =
                  [model |-> ModelOf[r], key |-> rp.key, upstream |-> upstream,
                   messages |-> InjectPrompts(rp, MaskedMessages(rp, MessagesOf[r]))]]
             /\ Goto(r, "upstream") /\ policy' = policy
        ELSE HandlerReturns(r)
     /\ UNCHANGED <<life, answered, report, statsVars, ledgerVars>>

\* The loop goes on with a fallback of the policy: the call asks for another model, and
\* is otherwise the same.
Fallback(r, model) ==
  /\ pc[r] = "upstream" /\ KindOf[r] = "chat" /\ Running
  /\ model \in PolicyOf(r).fallbacks
  /\ sent' = [sent EXCEPT ![r] = [@ EXCEPT !.model = model]]
  /\ Goto(r, "upstream")
  /\ UNCHANGED <<life, policy, resolved, answered, report, statsVars, ledgerVars>>

\* The retry loops of a chat request end without an answer: no ledger entry.
Exhausted(r) ==
  /\ pc[r] = "upstream" /\ KindOf[r] = "chat" /\ Running
  /\ Record(TokenOf[r], <<ModelOf[r], resolved[r].key>>, PromptOf[r])
  /\ RecordCommunicationEvents(r, {"response.error"})
  /\ HandlerReturns(r)
  /\ UNCHANGED <<life, answered, report, ledger, requests, copied, file>>

\* An answer is used: the request's events are recorded.
Use(r) ==
  /\ pc[r] = "upstream" /\ KindOf[r] = "chat" /\ Running
  /\ answered' = [answered EXCEPT ![r] = TRUE]
  /\ RecordCommunicationEvents(r, {"request.received", "response.started"})
  /\ Goto(r, "meter")
  /\ UNCHANGED <<life, policy, resolved, sent, report, statsVars,
                 ledger, requests, copied, file>>

\* What is recorded of it: only its prompt when the body broke off.
TokensOf(r) == IF resolved[r].broken THEN PromptOf[r] ELSE UsageOf[r]

\* The statistics, once the body is read or has failed.
Meter(r, fails) ==
  /\ pc[r] = "meter" /\ Running
  /\ resolved' = [resolved EXCEPT ![r] = [@ EXCEPT !.broken = fails]]
  /\ Record(TokenOf[r], <<sent[r].model, resolved[r].key>>, TokensOf(r)')
  /\ Goto(r, "entry")
  /\ UNCHANGED <<life, policy, sent, answered, report, ledgerVars>>

\* passthrough: the global fields, no check, no limit, no statistics.  Without a key,
\* or an upstream that parses, the answer is 500.
Passthrough(r) ==
  LET p == PolicyOf(r)
      rp == ResolveProvider(p, None)
      key == KeyOf(p, rp)
      upstream == UpstreamOf(p, rp)
  IN /\ pc[r] = "pass" /\ Running
     /\ IF key \in KeysSet /\ upstream \in URLs
        THEN /\ resolved' = [resolved EXCEPT ![r] =
                  [provider |-> ProviderName(p, rp), key |-> key, broken |-> FALSE]]
             /\ sent' = [sent EXCEPT ![r] =
                  [model |-> ModelOf[r], key |-> key, upstream |-> upstream,
                   messages |-> MessagesOf[r]]]
             /\ RecordCommunicationEvents(r, {"request.received"})
             /\ Goto(r, "upstream") /\ policy' = policy
        ELSE UNCHANGED commEvents /\ HandlerReturns(r)
     /\ UNCHANGED <<life, answered, report, statsVars,
                    ledger, requests, copied, file>>

\* ReverseProxy panics when the body breaks off: nothing more is recorded.
PassAborted(r) ==
  /\ pc[r] = "upstream" /\ KindOf[r] = "pass" /\ Running
  /\ HandlerReturns(r)
  /\ UNCHANGED <<life, answered, report, statsVars, ledgerVars>>

\* It has copied the answer, or answered 502 itself.
PassAnswered(r) ==
  /\ pc[r] = "upstream" /\ KindOf[r] = "pass" /\ Running
  /\ answered' = [answered EXCEPT ![r] = TRUE]
  /\ RecordCommunicationEvents(r, {"response.started"})
  /\ Goto(r, "entry")
  /\ UNCHANGED <<life, policy, resolved, sent, report, statsVars,
                 ledger, requests, copied, file>>

RecordLedgerEntry(r) ==
  /\ pc[r] = "entry" /\ Running
  /\ RecordRequest([request |-> r, token |-> TokenOf[r], model |-> sent[r].model,
                    provider |-> resolved[r].provider, tokens |-> TokensOf(r)])
  /\ Goto(r, "last")
  /\ UNCHANGED <<life, policy, resolved, sent, answered, report, statsVars>>

\* The last event, and the handler returns.
Finish(r) ==
  /\ pc[r] = "last" /\ Running
  /\ RecordCommunicationEvents(r,
       {IF resolved[r].broken THEN "response.error" ELSE "response.completed"})
  /\ HandlerReturns(r)
  /\ UNCHANGED <<life, answered, report, statsVars,
                 ledger, requests, copied, file>>

----------------------------------------------------------------------------
(* Reports: /stats and the summaries of the admin API.                     *)

TotalOf(which) == TotalUsage(IF which = "entries" THEN entries ELSE sessionEntries)

\* Slip: the two are copied in the other order.
SnapshotsSwapped == <<"sessionEntries", "entries">>

\* A report copies the usage by model and then the usage by token.
Snapshots == <<"entries", "sessionEntries">>

\* The second copy makes the answer.
Answer ==
  [which \in {"entries", "sessionEntries"} |->
     IF which = Snapshots[1] THEN report[which] ELSE TotalOf(which)]

Snapshot ==
  /\ Running
  /\ IF report = None
     THEN /\ \E s \in Servers : server[s] = "up"
          /\ report' = [which \in {Snapshots[1]} |-> TotalOf(which)]
     ELSE report' = None
  /\ UNCHANGED <<life, calls, statsVars, ledgerVars>>

----------------------------------------------------------------------------
(* runServe.                                                               *)

others == <<calls, report, statsVars>>

\* A resource that is to be closed when runServe returns.
Defer(resource) == deferred' = Append(deferred, resource)

OpenStore(fails) ==
  /\ main = "store"
  /\ main' = IF fails THEN "return" ELSE "ledger"
  /\ IF fails THEN deferred' = deferred ELSE Defer("store")
  /\ UNCHANGED <<server, drain, stopped, cut, others, ledgerVars>>

\* Not enabled, or not to be had: runServe goes on without.
SkipLedger ==
  /\ main = "ledger" /\ main' = "notify"
  /\ UNCHANGED <<deferred, server, drain, stopped, cut, others, ledgerVars>>

OpenLedger ==
  /\ main = "ledger" /\ main' = "notify"
  /\ Open
  /\ Defer("ledger")
  /\ UNCHANGED <<server, drain, stopped, cut, others>>

NotifyContext ==
  /\ main = "notify" /\ main' = "http"
  /\ Defer("stop")
  /\ UNCHANGED <<server, drain, stopped, cut, others, ledgerVars>>

\* A server and the goroutine that shuts it down.
StartServer(s) ==
  /\ server' = [server EXCEPT ![s] = "up"]
  /\ drain' = [drain EXCEPT ![s] = "waiting"]

StartHTTP ==
  /\ main = "http" /\ main' = "https"
  /\ IF "http" \in Configured THEN StartServer("http") ELSE UNCHANGED <<server, drain>>
  /\ UNCHANGED <<deferred, stopped, cut, others, ledgerVars>>

\* The certificates may be missing: runServe returns, and the HTTP server is up.
StartHTTPS ==
  /\ main = "https" /\ main' = "serving"
  /\ IF "https" \in Configured THEN StartServer("https") ELSE UNCHANGED <<server, drain>>
  /\ UNCHANGED <<deferred, stopped, cut, others, ledgerVars>>

NoCertificates ==
  /\ main = "https" /\ "https" \in Configured /\ main' = "return"
  /\ cut' = TRUE
  /\ UNCHANGED <<deferred, server, drain, stopped, others, ledgerVars>>

\* Interrupt or SIGTERM, once they are caught.
Signal ==
  /\ Running /\ "stop" \in ToSet(deferred) /\ ~stopped
  /\ stopped' = TRUE
  /\ UNCHANGED <<main, deferred, server, drain, cut, others, ledgerVars>>

\* ListenAndServe returns an error: the requests it has accepted go on.
ServerFails(s) ==
  /\ Running /\ server[s] = "up"
  /\ s \in Failing
  /\ server' = [server EXCEPT ![s] = "failed"]
  /\ UNCHANGED <<main, deferred, drain, stopped, cut, others, ledgerVars>>

\* Slip: the signal ends the wait, and the servers are not waited for.
SeeSignalReturns ==
  /\ main = "serving" /\ stopped
  /\ main' = "return"
  /\ UNCHANGED <<deferred, server, drain, stopped, cut, others, ledgerVars>>

\* The select takes either when both are ready.
SeeSignal ==
  /\ main = "serving" /\ stopped
  /\ main' = "waiting"
  /\ UNCHANGED <<deferred, server, drain, stopped, cut, others, ledgerVars>>

SeeError ==
  /\ main = "serving" /\ Errors
  /\ main' = "return" /\ cut' = TRUE
  /\ UNCHANGED <<deferred, server, drain, stopped, others, ledgerVars>>

\* shutdownWG.Wait().
WaitForServers ==
  /\ main = "waiting" /\ \A s \in Servers : drain[s] \in {"none", "done"}
  /\ main' = "return"
  /\ UNCHANGED <<deferred, server, drain, stopped, cut, others, ledgerVars>>

\* The goroutine of s: Shutdown closes the listener.
BeginShutdown(s) ==
  /\ Running /\ drain[s] = "waiting" /\ stopped
  /\ drain' = [drain EXCEPT ![s] = "draining"]
  /\ server' = [server EXCEPT ![s] = IF @ = "up" THEN "closed" ELSE @]
  /\ UNCHANGED <<main, deferred, stopped, cut, others, ledgerVars>>

Drained(s) ==
  /\ Running /\ drain[s] = "draining" /\ InFlight(s) = {}
  /\ drain' = [drain EXCEPT ![s] = "done"]
  /\ UNCHANGED <<main, deferred, server, stopped, cut, others, ledgerVars>>

\* Slip: Shutdown gets a context without a deadline.
DrainTimesOutNever(s) ==
  /\ Running /\ drain[s] = "draining" /\ InFlight(s) = {}
  /\ drain' = [drain EXCEPT ![s] = "done"]
  /\ cut' = TRUE
  /\ UNCHANGED <<main, deferred, server, stopped, others, ledgerVars>>

\* Ten seconds have passed; the requests in flight go on.
DrainTimesOut(s) ==
  /\ Running /\ drain[s] = "draining" /\ InFlight(s) # {}
  /\ drain' = [drain EXCEPT ![s] = "done"]
  /\ cut' = TRUE
  /\ UNCHANGED <<main, deferred, server, stopped, others, ledgerVars>>

Returning(resource) == main = "return" /\ deferred # <<>> /\ Last(deferred) = resource
Closed == deferred' = Front(deferred)

DeferredStop ==
  /\ Returning("stop") /\ Closed
  /\ stopped' = TRUE
  /\ UNCHANGED <<main, server, drain, cut, others, ledgerVars>>

\* Close of the ledger, which the handlers do not know of.
DeferredLedger(fails) ==
  /\ Returning("ledger")
  /\ CloseCopies \/ CloseCreates(fails) \/ CloseWrites(fails, None)
  /\ IF ledger' = "closed" THEN Closed ELSE deferred' = deferred
  /\ UNCHANGED <<main, server, drain, stopped, cut, others>>

\* tokenStore.Close().
DeferredStore ==
  /\ Returning("store") /\ Closed
  /\ UNCHANGED <<main, server, drain, stopped, cut, others, ledgerVars>>

\* The process ends, and the requests in flight with it.
Exit ==
  /\ main = "return" /\ deferred = <<>>
  /\ main' = "exited"
  /\ UNCHANGED <<deferred, server, drain, stopped, cut, others, ledgerVars>>

----------------------------------------------------------------------------

Init ==
  /\ main = "store" /\ deferred = <<>>
  /\ server = [s \in Servers |-> "off"] /\ drain = [s \in Servers |-> "none"]
  /\ stopped = FALSE /\ cut = FALSE
  /\ pc = [r \in Requests |-> "new"]
  /\ policy = [r \in Requests |-> None] /\ resolved = [r \in Requests |-> None]
  /\ sent = [r \in Requests |-> None] /\ answered = [r \in Requests |-> FALSE]
  /\ report = None
  /\ NewUsageStats /\ NoLedger

Call(r) ==
  \/ \E p \in Stored(TokenOf[r]) \cup {None} : ServeHTTP(r, p)
  \/ \E rp \in Resolutions(r) :
       Forward(r, rp) \/ \E n \in {0, PromptOf[r]} : Refuse(r, rp, n)
  \/ Exhausted(r) \/ \E model \in Models : Fallback(r, model)
  \/ Use(r) \/ \E fails \in BOOLEAN : Meter(r, fails)
  \/ Passthrough(r) \/ PassAborted(r) \/ PassAnswered(r)
  \/ RecordLedgerEntry(r) \/ Finish(r)

Start ==
  \/ SkipLedger \/ OpenLedger \/ NotifyContext \/ NoCertificates
  \/ \E fails \in BOOLEAN : OpenStore(fails)
  \/ StartHTTP \/ StartHTTPS

Return ==
  \/ DeferredStop \/ DeferredStore \/ Exit
  \/ \E fails \in BOOLEAN : DeferredLedger(fails)

Main == Start \/ SeeSignal \/ SeeError \/ WaitForServers \/ Return

Shutdown(s) == BeginShutdown(s) \/ Drained(s) \/ DrainTimesOut(s)

Next ==
  \/ Main \/ Signal \/ Snapshot
  \/ \E s \in Servers : Shutdown(s) \/ ServerFails(s)
  \/ \E r \in Requests : Call(r)

\* runServe and the shutdown goroutines run; nothing is said of the requests.
Fairness == WF_vars(Main) /\ \A s \in Servers : WF_vars(Shutdown(s))

Spec == Init /\ [][Next]_vars /\ Fairness

----------------------------------------------------------------------------
(* Properties.                                                             *)

\* The key for a model that no provider of the policy has: the policy's own, or else the
\* one that providers.yaml gives for the default provider.
GlobalKey(p) ==
  LET n == IF p.default # None THEN p.default ELSE DefaultProvider
  IN IF p.key # None \/ n = None \/ ProviderConfig[n] = None
     THEN p.key ELSE ProviderConfig[n].key

\* Every call of a chat request goes with what the policy it looked up has for the model
\* the request asked for: the key is that of the first policy of a provider that matches
\* this model, or GlobalKey when none does; no global rule and no rule of that policy
\* forbids a text of it, and none of the subjects they mask is left in one.  It is the
\* model asked for also when a fallback is called, which handler_chat.go:394 does
\* without another resolution (docs/MULTI_MODEL_ROUTING.md:166 has it that each
\* fallback goes through the same one).
ForwardsAllowed ==
  \A r \in Requests : sent[r] # None /\ KindOf[r] = "chat" =>
    LET p == PolicyOf(r)
        m == ModelOf[r]
        n == resolved[r].provider
        first == {i \in DOMAIN p.providers[n] :
                    /\ MatchesModel(p.providers[n][i], m)
                    /\ \A j \in 1..i - 1 : ~MatchesModel(p.providers[n][j], m)}
        own == IF n = None THEN <<>> ELSE p.providers[n][CHOOSE i \in first : TRUE].rules
        rules == ToSet(p.rules) \cup ToSet(own)
        texts == {i \in DOMAIN MessagesOf[r] : MessagesOf[r][i] # NotText}
        tail == Len(sent[r].messages) - Len(MessagesOf[r])
    IN /\ IF n = None
          THEN /\ sent[r].key = GlobalKey(p)
               /\ \A q \in Providers : \A i \in DOMAIN p.providers[q] :
                    ~MatchesModel(p.providers[q][i], m)
          ELSE \E i \in first : sent[r].key = p.providers[n][i].key
       /\ \A rule \in rules, i \in texts : InScope(rule, "input") =>
            /\ rule.action = "fail" => rule.subject \notin MessagesOf[r][i]
            /\ rule.action = "mask" => rule.subject \notin sent[r].messages[tail + i]

\* A report never shows more usage by model than it shows by token: it copies the
\* first before the second, and a request is counted in both under one lock.
ReportsAgree ==
  [][report # None /\ report' = None =>
       \A field \in DOMAIN NoUsage :
         Answer.entries[field] <= Answer.sessionEntries[field]]_vars

\* A session file agrees with itself: a request that it says is completed has its
\* entry, one with an entry has its start, and the rollups add up to the totals.
\* Unless requests were cut off (a drain timed out, a server failed, TLS could not
\* be started) it holds, once, every request an answer was used for.
SessionFileWhole ==
  /\ InFile =>
       LET listed == {file.requests[i].request : i \in DOMAIN file.requests}
       IN /\ \A r \in Requests :
               /\ <<r, "response.completed">> \in file.events => r \in listed
               /\ r \in listed /\ EventLedger => <<r, "response.started">> \in file.events
          /\ \A field \in {"requests", "tokens"} :
               /\ SumField(file.byModel, field) = file.totals[field]
               /\ SumField(file.byToken, field) = file.totals[field]
               /\ SumField(file.byProvider, field) <= file.totals[field]
          /\ Cardinality(listed) = Len(file.requests)
          /\ ~cut => \A r \in Requests : answered[r] => r \in listed

\* A server that was signalled, or that failed, exits: the requests in flight hold it
\* up for as long as the drain may take.
ShutdownEnds == (main = "serving" /\ (stopped \/ Errors)) ~> (main = "exited")

=============================================================================
