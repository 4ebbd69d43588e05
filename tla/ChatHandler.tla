------------------------------ MODULE ChatHandler ------------------------------
(***************************************************************************)
(* Handler.handleChatCompletions of internal/proxy/handler_chat.go: what   *)
(* one proxy does with concurrent chat requests made with one token.  A    *)
(* request passes admission (rate limit, model, rules, budget), tries the  *)
(* models of its policy until an upstream response is used, is metered by  *)
(* the budget counter, the statistics, the rate limiter, the ledger and    *)
(* the event stream, and gives back what it holds in its deferred calls.   *)
(* The limiter's own state is in RateLimiter and the steps of the counter  *)
(* in SessionBudget; here Allow refuses or not and a reservation is one    *)
(* step.                                                                   *)
(***************************************************************************)
EXTENDS Integers, Sequences, FiniteSets, FiniteSetsExt, Sums

CONSTANTS
  Requests,  \* chat requests
  Models,    \* model names
  ModelOf,   \* ModelOf[r]: the model r asks for
  Prompt,    \* Prompt[r]: the input tokens counted for r
  PolicyOf,  \* PolicyOf[r]: what ResolveForModel returns for it
  Outputs,   \* the completion tokens a response may have
  Codes,     \* the status codes an upstream may answer with; 0 stands for none
  RetryOn,   \* retry_on, the codes shouldRetry looks for
  OK         \* the code 200

ASSUME RequestsAssumption == IsFiniteSet(Requests)
ASSUME InputsAssumption ==
  /\ ModelOf \in [Requests -> Models] /\ Prompt \in [Requests -> Nat]
  /\ Outputs \subseteq Nat
ASSUME PoliciesAssumption ==
  PolicyOf \in [Requests -> [limit: Nat, retries: Nat, fallbacks: Seq(Models)]]
ASSUME CodesAssumption ==
  Codes \subseteq Nat \ {0} /\ OK \in Codes /\ RetryOn \subseteq Codes \ {OK}

VARIABLES
  pc,         \* where each request is
  usage,      \* the session store's counter of the token
  parallel,   \* the limiter's count of the token's requests in flight
  reserved,   \* reserved[r]: reservedInput
  committed,  \* committed[r]: committedInput
  mi, att,    \* mi[r], att[r]: the model and the attempt of the retry loop
  last,       \* last[r]: the status of lastResp, 0 for nil
  calls,      \* calls[r]: the upstream calls made, a model and an outcome
              \* each: the status, 0 for a network error
  status,     \* status[r]: the status the client is sent, 0 for none
  stats,      \* stats[r]: what UsageStats.Record was told of r
  limiter,    \* limiter[r]: what RateLimiter.RecordTokens was told of r
  ledger,     \* ledger[r]: the ledger entries of r
  told        \* told[r]: the events emitted for r

accounts == <<usage, parallel, reserved, committed>>
loop == <<mi, att, last, calls>>
meters == <<stats, limiter, ledger, told>>
vars == <<pc, accounts, loop, status, meters>>

Set(f, r, v) == [f EXCEPT ![r] = v]
Add(f, r, v) == [f EXCEPT ![r] = Append(@, v)]
Goto(r, place) == pc' = Set(pc, r, place)

Schedule(r) == <<ModelOf[r]>> \o PolicyOf[r].fallbacks
MaxAttempts(r) == 1 + PolicyOf[r].retries
IsError(code) == code >= 400

----------------------------------------------------------------------------
(* Admission.                                                              *)

\* An unreadable body or invalid JSON.
BadRequest(r) ==
  /\ pc[r] = "new"
  /\ status' = Set(status, r, 400)
  /\ Goto(r, "done")
  /\ UNCHANGED <<accounts, loop, meters>>

\* An error is answered and counted, and the handler returns.
Refuse(r, code, events, input) ==
  /\ status' = Set(status, r, code)
  /\ stats' = Add(stats, r, [in |-> input, out |-> 0, error |-> TRUE])
  /\ told' = Set(told, r, told[r] \cup events)
  /\ UNCHANGED <<limiter, ledger>>

RateExceeded(r) ==
  /\ pc[r] = "new"
  /\ Refuse(r, 429, {"rate.exceeded"}, 0)
  /\ Goto(r, "done")
  /\ UNCHANGED <<accounts, loop>>

\* Allow lets the request through, and Acquire counts it.
Admit(r) ==
  /\ pc[r] = "new"
  /\ parallel' = parallel + 1
  /\ Goto(r, "checks")
  /\ UNCHANGED <<usage, reserved, committed, loop, status, meters>>

\* CheckModel fails, or a message matches a fail rule.
Forbidden(r) ==
  /\ pc[r] = "checks"
  /\ \E events \in {{}, {"rule.violation"}} : Refuse(r, 403, events, 0)
  /\ Goto(r, "leaving")
  /\ UNCHANGED <<accounts, loop>>

\* Slip: the comparison forgets the prompt.
ReserveUsedOnly(r) ==
  LET limit == PolicyOf[r].limit
      taken == IF limit = 0 THEN 0 ELSE Prompt[r]
  IN /\ pc[r] = "checks" /\ usage <= limit
     /\ usage' = usage + taken
     /\ reserved' = Set(reserved, r, taken)
     /\ Goto(r, "calling")
     /\ UNCHANGED <<parallel, committed, loop, status, meters>>

\* reserveInputBudget.
Reserve(r) ==
  LET limit == PolicyOf[r].limit
      fits == limit = 0 \/ usage + Prompt[r] <= limit
      taken == IF limit = 0 THEN 0 ELSE Prompt[r]
  IN /\ pc[r] = "checks"
     /\ IF fits
        THEN /\ usage' = usage + taken
             /\ reserved' = Set(reserved, r, taken)
             /\ Goto(r, "calling")
             /\ UNCHANGED <<status, meters>>
        ELSE /\ Refuse(r, 429, {"budget.exceeded"}, Prompt[r])
             /\ Goto(r, "leaving")
             /\ UNCHANGED <<usage, reserved>>
     /\ UNCHANGED <<parallel, committed, loop>>

----------------------------------------------------------------------------
(* The retry loop.                                                         *)

\* No key in the environment, or an upstream URL that does not parse: the first
\* attempt finds out.
CannotBuild(r) ==
  /\ pc[r] = "calling" /\ mi[r] = 1 /\ att[r] = 0
  /\ status' = Set(status, r, 500)
  /\ Goto(r, "leaving")
  /\ UNCHANGED <<accounts, loop, meters>>

\* "continue": the next attempt, or the next model, or the end of both loops.
Continue(r) ==
  /\ IF att[r] + 1 < MaxAttempts(r)
     THEN att' = Set(att, r, att[r] + 1) /\ mi' = mi
     ELSE att' = Set(att, r, 0) /\ mi' = Set(mi, r, mi[r] + 1)
  /\ Goto(r, IF mi'[r] > Len(Schedule(r)) THEN "exhausted" ELSE "calling")

Called(r, outcome) ==
  calls' = Add(calls, r, [model |-> Schedule(r)[mi[r]], outcome |-> outcome])

\* client.Do fails: no connection, or the attempt's timeout.
NetworkError(r) ==
  /\ pc[r] = "calling"
  /\ Called(r, 0)
  /\ Continue(r)
  /\ UNCHANGED <<accounts, last, status, meters>>

\* Slip: retry_on is not looked at.
ShouldRetryAny(r, code) == PolicyOf[r].retries > 0

ShouldRetry(r, code) == PolicyOf[r].retries > 0 /\ code \in RetryOn

\* Slip: the last attempt of any model counts as the last one.
IsLastAttemptOfAny(r) == att[r] >= MaxAttempts(r) - 1

\* Models are compared by name with the last one of the list.
IsLastAttempt(r) ==
  /\ att[r] >= MaxAttempts(r) - 1
  /\ Schedule(r)[mi[r]] = Schedule(r)[Len(Schedule(r))]

\* A response that is retried: it is kept as the last one seen.
Retry(r, code) ==
  /\ pc[r] = "calling"
  /\ ShouldRetry(r, code) /\ ~IsLastAttempt(r)
  /\ Called(r, code)
  /\ last' = Set(last, r, code)
  /\ Continue(r)
  /\ UNCHANGED <<accounts, status, meters>>

\* A response that is used: from here on the prompt is paid for.
Use(r, code) ==
  /\ pc[r] = "calling"
  /\ ~(ShouldRetry(r, code) /\ ~IsLastAttempt(r))
  /\ Called(r, code)
  /\ committed' = Set(committed, r, TRUE)
  /\ status' = Set(status, r, code)
  /\ limiter' = Set(limiter, r, Prompt[r])
  /\ told' = Set(told, r, told[r] \cup {"budget.update"})
  /\ Goto(r, "using")
  /\ UNCHANGED <<usage, parallel, reserved, mi, att, last, stats, ledger>>

\* Slip: only a retried status ends the loops, a network error does not.
ExhaustedWithStatus(r) ==
  /\ pc[r] = "exhausted" /\ last[r] # 0
  /\ Refuse(r, last[r], {}, Prompt[r])
  /\ Goto(r, "leaving")
  /\ UNCHANGED <<accounts, loop>>

\* Both loops ran out: the last status seen is sent, or 502.
Exhausted(r) ==
  /\ pc[r] = "exhausted"
  /\ Refuse(r, IF last[r] = 0 THEN 502 ELSE last[r], {}, Prompt[r])
  /\ Goto(r, "leaving")
  /\ UNCHANGED <<accounts, loop>>

----------------------------------------------------------------------------
(* The response.                                                           *)

\* recordLedgerEntry.
RecordLedgerEntry(r, n, code) ==
  ledger' = Add(ledger, r, [in |-> Prompt[r], out |-> n, status |-> code])

\* A response of n tokens is counted everywhere: the counter (AddUsage), the
\* statistics, the limiter, the events and the ledger.
Meter(r, n, error) ==
  /\ usage' = usage + n
  /\ stats' = Add(stats, r, [in |-> Prompt[r], out |-> n, error |-> error])
  /\ limiter' = Set(limiter, r, limiter[r] + n)
  /\ told' = Set(told, r, told[r] \cup {"request.completed"})
  /\ RecordLedgerEntry(r, n, status[r])

\* A stream is sent on as it arrives; one that breaks off is counted as it is.
Stream(r, n) ==
  /\ pc[r] = "using" /\ status[r] = OK
  /\ Meter(r, n, FALSE)
  /\ Goto(r, "leaving")
  /\ UNCHANGED <<parallel, reserved, committed, loop, status>>

Buffered(r, n) ==
  /\ pc[r] = "using"
  /\ Meter(r, n, IsError(status[r]))
  /\ Goto(r, "leaving")
  /\ UNCHANGED <<parallel, reserved, committed, loop, status>>

\* Slip: the error path forgets the ledger.
BodyFailsUnrecorded(r) ==
  /\ pc[r] = "using"
  /\ status' = Set(status, r, 502)
  /\ stats' = Add(stats, r, [in |-> Prompt[r], out |-> 0, error |-> TRUE])
  /\ Goto(r, "leaving")
  /\ UNCHANGED <<accounts, loop, limiter, ledger, told>>

\* The body cannot be read, its context is cancelled: the client is sent 502.
BodyFails(r) ==
  /\ pc[r] = "using"
  /\ status' = Set(status, r, 502)
  /\ stats' = Add(stats, r, [in |-> Prompt[r], out |-> 0, error |-> TRUE])
  /\ RecordLedgerEntry(r, 0, 502)
  /\ Goto(r, "leaving")
  /\ UNCHANGED <<accounts, loop, limiter, told>>

\* Slip: the reservation of a used response is released too.
LeaveReleasesUsed(r) ==
  /\ pc[r] = "leaving"
  /\ usage' = IF reserved[r] > 0 THEN usage - reserved[r] ELSE usage
  /\ parallel' = parallel - 1
  /\ Goto(r, "done")
  /\ UNCHANGED <<reserved, committed, loop, status, meters>>

\* Slip: the prompt is given back whether or not it was reserved.
LeaveReleasesPrompt(r) ==
  /\ pc[r] = "leaving"
  /\ usage' = IF ~committed[r] THEN usage - Prompt[r] ELSE usage
  /\ parallel' = parallel - 1
  /\ Goto(r, "done")
  /\ UNCHANGED <<reserved, committed, loop, status, meters>>

\* Slip: the deferred release is missing.
LeaveKeeps(r) ==
  /\ pc[r] = "leaving"
  /\ parallel' = parallel - 1
  /\ Goto(r, "done")
  /\ UNCHANGED <<usage, reserved, committed, loop, status, meters>>

\* The deferred calls: the reservation is released, then the parallel slot.
Leave(r) ==
  LET released == reserved[r] > 0 /\ ~committed[r]
  IN /\ pc[r] = "leaving"
     /\ usage' = IF released THEN usage - reserved[r] ELSE usage
     /\ reserved' = IF released THEN Set(reserved, r, 0) ELSE reserved
     /\ parallel' = parallel - 1
     /\ Goto(r, "done")
     /\ UNCHANGED <<committed, loop, status, meters>>

Init ==
  /\ usage = 0 /\ parallel = 0
  /\ pc = [r \in Requests |-> "new"]
  /\ reserved = [r \in Requests |-> 0]
  /\ committed = [r \in Requests |-> FALSE]
  /\ mi = [r \in Requests |-> 1]
  /\ att = [r \in Requests |-> 0]
  /\ last = [r \in Requests |-> 0]
  /\ calls = [r \in Requests |-> <<>>]
  /\ status = [r \in Requests |-> 0]
  /\ stats = [r \in Requests |-> <<>>]
  /\ limiter = [r \in Requests |-> 0]
  /\ ledger = [r \in Requests |-> <<>>]
  /\ told = [r \in Requests |-> {}]

Step(r) ==
  \/ BadRequest(r) \/ RateExceeded(r) \/ Admit(r)
  \/ Forbidden(r) \/ Reserve(r) \/ CannotBuild(r)
  \/ NetworkError(r) \/ \E code \in Codes : Retry(r, code) \/ Use(r, code)
  \/ Exhausted(r) \/ BodyFails(r) \/ Leave(r)
  \/ \E n \in Outputs : Stream(r, n) \/ Buffered(r, n)

Next == \E r \in Requests : Step(r)

\* net/http runs every handler, and an upstream call ends by its timeout.
Fairness == \A r \in Requests : WF_vars(Step(r))

Spec == Init /\ [][Next]_vars /\ Fairness

----------------------------------------------------------------------------
(* Properties.                                                             *)

\* Type invariant.
TypeOK ==
  /\ pc \in [Requests -> {"new", "checks", "calling", "exhausted", "using", "leaving", "done"}]
  /\ usage \in Nat /\ parallel \in Nat
  /\ reserved \in [Requests -> Nat] /\ committed \in [Requests -> BOOLEAN]
  /\ mi \in [Requests -> Nat \ {0}] /\ att \in [Requests -> Nat]
  /\ last \in [Requests -> RetryOn \cup {0}]
  /\ calls \in [Requests -> Seq([model: Models, outcome: Codes \cup {0}])]
  /\ status \in [Requests -> Nat]
  /\ stats \in [Requests -> Seq([in: Nat, out: Nat, error: BOOLEAN])]
  /\ limiter \in [Requests -> Nat]
  /\ ledger \in [Requests -> Seq([in: Nat, out: Nat, status: Nat])]
  /\ told \in [Requests -> SUBSET {"rate.exceeded", "rule.violation", "budget.exceeded",
                                   "budget.update", "request.completed"}]

\* What the ledger says r was charged.
Charges(r) ==
  SumOver([k \in DOMAIN ledger[r] |->
             ledger[r][k].out + IF PolicyOf[r].limit > 0 THEN ledger[r][k].in ELSE 0],
          DOMAIN ledger[r])

\* At rest the budget counter is what the ledger says was used: no early return,
\* retry, fallback or unreadable body leaves tokens charged that no entry
\* explains, or an entry whose tokens were given back.
LedgerExplainsUsage ==
  (\A r \in Requests : pc[r] \in {"new", "done"}) =>
    usage = SumOver([r \in Requests |-> Charges(r)], Requests)

\* The records of a finished request agree: one entry in the statistics for
\* every request that was admitted or refused, one ledger entry at most, and for a
\* request whose response was used an entry, a budget event and limiter tokens with
\* the same token counts and the status the client got.  No budget event, limiter
\* tokens or completion event is told of one without a response.  (Whether such a
\* request should have a ledger entry is left open: docs/LEDGER.md:43 says that every
\* proxied request is recorded, the handler records none here.)
RecordsAgree ==
  \A r \in Requests : pc[r] = "done" =>
    LET failedEarly == status[r] \in {400, 500} /\ calls[r] = <<>>
    IN /\ Len(stats[r]) = (IF failedEarly THEN 0 ELSE 1)
       /\ Len(ledger[r]) <= 1
       /\ committed[r] <=> "budget.update" \in told[r]
       /\ committed[r] =>
            /\ Len(ledger[r]) = 1
            /\ limiter[r] = ledger[r][1].in + ledger[r][1].out
            /\ stats[r][1].in = ledger[r][1].in /\ stats[r][1].out = ledger[r][1].out
            /\ ledger[r][1].status = status[r]
       /\ ~committed[r] => limiter[r] = 0 /\ "request.completed" \notin told[r]

Admitted == {r \in Requests : PolicyOf[r].limit > 0 /\ (reserved[r] > 0 \/ committed[r])}

\* The prompts being tried or paid for fit the budget of one of the requests
\* that made them: concurrent requests do not overrun it together.
InputCap ==
  LET owed == SumOver(Prompt, Admitted)
  IN owed > 0 => \E r \in Admitted : owed <= PolicyOf[r].limit

\* The calls follow the schedule, model by model, and one is repeated or moved
\* on from only when it failed: once an upstream has answered for good nothing
\* more is sent, and nothing is sent beyond the schedule.
CallOrder ==
  \A r \in Requests :
    /\ Len(calls[r]) <= MaxAttempts(r) * Len(Schedule(r))
    /\ \A k \in DOMAIN calls[r] :
         /\ calls[r][k].model = Schedule(r)[1 + (k - 1) \div MaxAttempts(r)]
         /\ k < Len(calls[r]) => calls[r][k].outcome \in RetryOn \cup {0}

\* A request whose upstream calls all failed has made every one of them, if its
\* policy retries at all and names its last model once.
TriesEverything ==
  \A r \in Requests :
    /\ pc[r] = "done" /\ calls[r] # <<>>
    /\ calls[r][Len(calls[r])].outcome \in RetryOn \cup {0}
    /\ PolicyOf[r].retries > 0
    /\ \A k \in 1..(Len(Schedule(r)) - 1) : Schedule(r)[k] # Schedule(r)[Len(Schedule(r))]
    => Len(calls[r]) = MaxAttempts(r) * Len(Schedule(r))

\* docs/POLICIES.md:338: "If all retries fail, it moves to the next model in
\* `fallbacks` and retries again.  The process continues until a successful
\* response or all models are exhausted."
FallbacksTried ==
  \A r \in Requests :
    /\ pc[r] = "done" /\ calls[r] # <<>>
    /\ calls[r][Len(calls[r])].outcome \in RetryOn \cup {0}
    => \A k \in DOMAIN Schedule(r) :
         \E c \in DOMAIN calls[r] : calls[r][c].model = Schedule(r)[k]

\* Every request is answered.
AllAnswered == \A r \in Requests : <>(pc[r] = "done" /\ status[r] # 0)

\* The handler keeps the book of the token: the entry of a metered request is
\* held from its reservation, settled by the response that is used, and
\* returned by the deferred release.
Entry(r) ==
  LET passed == pc[r] = "calling" \/ calls[r] # <<>> \/ status[r] = 500
  IN IF PolicyOf[r].limit = 0 THEN "none"
     ELSE IF committed[r] THEN "settled"
     ELSE IF "budget.exceeded" \in told[r] THEN "refused"
     ELSE IF ~passed THEN "none"
     ELSE IF pc[r] = "done" THEN "returned" ELSE "held"

Book == INSTANCE BudgetLedger WITH
  LimitOf <- [r \in Requests |-> PolicyOf[r].limit],
  Slack <- 0,
  entry <- [r \in Requests |-> Entry(r)],
  charged <- usage - SumOver(Prompt, {r \in Requests : Entry(r) \in {"held", "settled"}})

KeepsBook == Book!BookSpec
================================================================================
