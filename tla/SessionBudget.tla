----------------------------- MODULE SessionBudget -----------------------------
(***************************************************************************)
(* The per-token usage counter of internal/session and the budget code of  *)
(* internal/proxy that reads and writes it.  Every proxy process guards    *)
(* its check-then-add with its own mutex (Handler.budgetMu); the counter   *)
(* is shared by the proxies when the store is Redis.  Its client sends a   *)
(* call again when the reply is lost, so a call may be applied more than   *)
(* once, and one that fails may have been applied.  Completions are        *)
(* charged without the mutex.  A proxy may crash with requests in flight.  *)
(***************************************************************************)
EXTENDS Integers, FiniteSets, FiniteSetsExt, Sums

CONSTANTS
  Proxies,   \* proxy processes sharing the store
  Requests,  \* chat requests made with one token
  ProxyOf,   \* the proxy that serves a request
  Prompt,    \* Prompt[r]: CountMessages of r, 0 when counting fails
  LimitOf,   \* LimitOf[r]: resolved.MaxTokens of r's policy, 0 for no budget
  Outputs,   \* the token counts a response may be charged
  Nobody,    \* no request: the mutex is free
  MaxSends,  \* how often the client sends a call at most: its MaxRetries and one
  MaxFaults  \* bound: store failures, calls applied more than once, crashes

ASSUME ProxiesAssumption ==
  IsFiniteSet(Proxies) /\ Proxies # {} /\ ProxyOf \in [Requests -> Proxies]
ASSUME RequestsAssumption == IsFiniteSet(Requests) /\ Nobody \notin Requests
ASSUME CountsAssumption ==
  /\ Prompt \in [Requests -> Nat] /\ LimitOf \in [Requests -> Nat]
  /\ Outputs \subseteq Nat /\ MaxFaults \in Nat /\ MaxSends \in Nat \ {0}

VARIABLES
  usage,      \* the store's counter of the token
  mutex,      \* mutex[p]: the request holding budgetMu of proxy p
  pc,         \* where each request is
  reserved,   \* reserved[r]: reservedInput
  committed,  \* committed[r]: committedInput
  out,        \* out[r]: the completion tokens r was answered with
  excess,     \* history: what releases applied again took beyond their reservation
  faults      \* failures, repeated calls and crashes so far

vars == <<usage, mutex, pc, reserved, committed, out, excess, faults>>

Goto(r, place) == pc' = [pc EXCEPT ![r] = place]
Free(r) == mutex[ProxyOf[r]] = Nobody
Fault == faults < MaxFaults /\ faults' = faults + 1

\* RedisStore.AddUsage of n or of -n tokens, applied k times.
Add(n, k) == usage' = usage + k * n /\ UNCHANGED excess
Subtract(n, k) ==
  /\ usage' = usage - k * n
  /\ excess' = excess + IF k > 1 THEN (k - 1) * n ELSE 0

\* A call that returns no error and is applied once is the only one without a fault.
Returns(k) == IF k = 1 THEN UNCHANGED faults ELSE Fault

----------------------------------------------------------------------------
(* reserveInputBudget.                                                     *)

\* A policy without a budget is not metered.
Unmetered(r) ==
  /\ pc[r] = "new" /\ LimitOf[r] = 0
  /\ Goto(r, "send")
  /\ UNCHANGED <<usage, mutex, reserved, committed, out, excess, faults>>

\* Slip: check-then-add without the mutex.
ReserveReadUnlocked(r) ==
  /\ pc[r] = "new" /\ LimitOf[r] > 0
  /\ Goto(r, IF usage + Prompt[r] <= LimitOf[r] THEN "add" ELSE "refused")
  /\ UNCHANGED <<usage, mutex, reserved, committed, out, excess, faults>>

\* Slip: the comparison forgets the prompt.
ReserveReadUsedOnly(r) ==
  LET fits == usage <= LimitOf[r]
  IN /\ pc[r] = "new" /\ LimitOf[r] > 0 /\ Free(r)
     /\ Goto(r, IF ~fits THEN "refused" ELSE IF Prompt[r] = 0 THEN "send" ELSE "add")
     /\ mutex' = IF fits /\ Prompt[r] > 0 THEN [mutex EXCEPT ![ProxyOf[r]] = r] ELSE mutex
     /\ UNCHANGED <<usage, reserved, committed, out, excess, faults>>

\* GetUsage and the comparison, with the mutex taken; an empty prompt adds nothing.
ReserveRead(r) ==
  LET fits == usage + Prompt[r] <= LimitOf[r]
  IN /\ pc[r] = "new" /\ LimitOf[r] > 0 /\ Free(r)
     /\ Goto(r, IF ~fits THEN "refused" ELSE IF Prompt[r] = 0 THEN "send" ELSE "add")
     /\ mutex' = IF fits /\ Prompt[r] > 0 THEN [mutex EXCEPT ![ProxyOf[r]] = r] ELSE mutex
     /\ UNCHANGED <<usage, reserved, committed, out, excess, faults>>

\* Slip: the mutex is not released after the increment.
ReserveAddKeepsMutex(r) ==
  /\ pc[r] = "add"
  /\ usage' = usage + Prompt[r]
  /\ reserved' = [reserved EXCEPT ![r] = Prompt[r]]
  /\ Goto(r, "send")
  /\ UNCHANGED <<mutex, committed, out, excess, faults>>

\* AddUsage, and the mutex released.
ReserveAdd(r) ==
  /\ pc[r] = "add"
  /\ \E k \in 1..MaxSends : Add(Prompt[r], k) /\ Returns(k)
  /\ reserved' = [reserved EXCEPT ![r] = Prompt[r]]
  /\ mutex' = [mutex EXCEPT ![ProxyOf[r]] = Nobody]
  /\ Goto(r, "send")
  /\ UNCHANGED <<committed, out>>

\* A store error refuses the request like an exceeded budget does; an increment
\* that failed may have reached the store.
ReserveFails(r) ==
  /\ \/ /\ pc[r] = "new" /\ LimitOf[r] > 0 /\ Free(r) /\ Fault
        /\ UNCHANGED <<usage, mutex, excess>>
     \/ /\ pc[r] = "add"
        /\ \E k \in 0..MaxSends : Add(Prompt[r], k) /\ Fault
        /\ mutex' = [mutex EXCEPT ![ProxyOf[r]] = Nobody]
  /\ Goto(r, "refused")
  /\ UNCHANGED <<reserved, committed, out>>

----------------------------------------------------------------------------
(* After the upstream call.                                                *)

\* An upstream response is used, whatever its status.
Answer(r) ==
  /\ pc[r] = "send"
  /\ committed' = [committed EXCEPT ![r] = TRUE]
  /\ Goto(r, "answered")
  /\ UNCHANGED <<usage, mutex, reserved, out, excess, faults>>

\* No response is used: every attempt failed, or the request could not be built.
GiveUp(r) ==
  /\ pc[r] = "send"
  /\ Goto(r, "leaving")
  /\ UNCHANGED <<usage, mutex, reserved, committed, out, excess, faults>>

\* countResponseTokens and handleStreamingResponse: AddUsage of the completion,
\* 0 when the body could not be read.
ChargeOutput(r, n) ==
  /\ pc[r] = "answered"
  /\ \E k \in 1..MaxSends : Add(n, k) /\ Returns(k)
  /\ out' = [out EXCEPT ![r] = n]
  /\ Goto(r, "leaving")
  /\ UNCHANGED <<mutex, reserved, committed>>

\* The store call failed: the error is logged.
ChargeFails(r, n) ==
  /\ pc[r] = "answered" /\ n > 0
  /\ \E k \in 0..MaxSends : Add(n, k) /\ Fault
  /\ Goto(r, "leaving")
  /\ UNCHANGED <<mutex, reserved, committed, out>>

\* Slip: the deferred release ignores committedInput.
ReturnAlways(r) ==
  /\ pc[r] = "leaving" /\ Free(r)
  /\ usage' = usage - reserved[r]
  /\ reserved' = [reserved EXCEPT ![r] = 0]
  /\ Goto(r, "done")
  /\ UNCHANGED <<mutex, committed, out, excess, faults>>

\* Slip: the reservation is not given back when no response is used.
ReturnNever(r) ==
  /\ pc[r] = "leaving"
  /\ Goto(r, "done")
  /\ UNCHANGED <<usage, mutex, reserved, committed, out, excess, faults>>

\* Slip: the whole prompt is subtracted, reserved or not.
ReturnPrompt(r) ==
  /\ pc[r] = "leaving" /\ Free(r)
  /\ usage' = usage - IF committed[r] THEN 0 ELSE Prompt[r]
  /\ reserved' = [reserved EXCEPT ![r] = 0]
  /\ Goto(r, "done")
  /\ UNCHANGED <<mutex, committed, out, excess, faults>>

\* The deferred release.
Return(r) ==
  /\ pc[r] = "leaving"
  /\ IF reserved[r] > 0 /\ ~committed[r]
     THEN /\ Free(r)
          /\ \E k \in 1..MaxSends : Subtract(reserved[r], k) /\ Returns(k)
          /\ reserved' = [reserved EXCEPT ![r] = 0]
     ELSE UNCHANGED <<usage, reserved, excess, faults>>
  /\ Goto(r, "done")
  /\ UNCHANGED <<mutex, committed, out>>

ReturnFails(r) ==
  /\ pc[r] = "leaving" /\ reserved[r] > 0 /\ ~committed[r] /\ Free(r)
  /\ \E k \in 0..MaxSends : Subtract(reserved[r], k) /\ Fault
  /\ reserved' = [reserved EXCEPT ![r] = 0]
  /\ Goto(r, "done")
  /\ UNCHANGED <<mutex, committed, out>>

\* A proxy dies and its requests with it; the shared store keeps the counter.
Crash(p) ==
  /\ \E r \in Requests : ProxyOf[r] = p /\ pc[r] \notin {"new", "refused", "done", "lost"}
  /\ Fault
  /\ mutex' = [mutex EXCEPT ![p] = Nobody]
  /\ pc' = [r \in Requests |->
       IF ProxyOf[r] = p /\ pc[r] \notin {"new", "refused", "done"} THEN "lost" ELSE pc[r]]
  /\ UNCHANGED <<usage, reserved, committed, out, excess>>

Init ==
  /\ usage = 0 /\ excess = 0 /\ faults = 0
  /\ mutex = [p \in Proxies |-> Nobody]
  /\ pc = [r \in Requests |-> "new"]
  /\ reserved = [r \in Requests |-> 0]
  /\ committed = [r \in Requests |-> FALSE]
  /\ out = [r \in Requests |-> 0]

Step(r) ==
  \/ Unmetered(r) \/ ReserveRead(r) \/ ReserveAdd(r)
  \/ Answer(r) \/ GiveUp(r) \/ Return(r)
  \/ \E n \in Outputs : ChargeOutput(r, n)

Next ==
  \/ \E r \in Requests :
       Step(r) \/ ReserveFails(r) \/ ReturnFails(r) \/ \E n \in Outputs : ChargeFails(r, n)
  \/ \E p \in Proxies : Crash(p)

\* The Go scheduler runs every request, and an upstream call ends by its timeout.
Fairness == \A r \in Requests : WF_vars(Step(r))

Spec == Init /\ [][Next]_vars /\ Fairness

----------------------------------------------------------------------------
(* Properties.                                                             *)

\* Type invariant: the mutex of a proxy is held by one of its requests that is
\* between its comparison and its increment, and the counter is negative by no more
\* than what releases took beyond their reservations.
TypeOK ==
  /\ usage \in Int /\ excess \in Nat /\ usage + excess >= 0 /\ faults \in 0..MaxFaults
  /\ mutex \in [Proxies -> Requests \cup {Nobody}]
  /\ pc \in [Requests -> {"new", "add", "refused", "send", "answered", "leaving",
                          "done", "lost"}]
  /\ reserved \in [Requests -> Nat]
  /\ committed \in [Requests -> BOOLEAN]
  /\ out \in [Requests -> Nat]

\* A metered request owes its prompt from its reservation on, and keeps owing it
\* for good once a response was used.
OwesPrompt(r) ==
  LimitOf[r] > 0 /\ (pc[r] \in {"send", "answered", "leaving"} \/ committed[r])

Owing == {r \in Requests : OwesPrompt(r)}

InputsOwed == SumOver(Prompt, Owing)
OutputsOwed == SumOver(out, Requests)

\* Until a store call fails or is repeated, or a proxy dies, the counter is exactly what the
\* requests owe: nothing is charged twice, and a request that used no response
\* leaves nothing behind.
UsageIsOwed == faults = 0 => usage = InputsOwed + OutputsOwed

\* The counter covers every prompt in flight or answered, but for what releases took
\* that were applied more than once.  Every other fault only makes the budget stricter
\* for prompts: a crash, a failed call whether it was applied or not, a repeated
\* reservation or charge leaks budget.
InputsCovered == usage + excess >= InputsOwed

\* The largest prompt, and the largest budget, of a set of requests.
MaxPrompt == IF Requests = {} THEN 0 ELSE Max({Prompt[r] : r \in Requests})
Overrun == (Cardinality(Proxies) - 1) * MaxPrompt

\* The prompts admitted never exceed the budget of one of the requests that made
\* them by more than one prompt for each other proxy on the store and what repeated
\* releases took: within one proxy, whose store is not Redis, the budget is strict, and
\* budgetMu is what makes it so.
InputCap ==
  InputsOwed > 0 =>
    \E r \in Owing : InputsOwed <= LimitOf[r] + Overrun + excess

\* Every request gets through: the mutex is never left taken.
AllSettle == \A r \in Requests : <>(pc[r] \in {"refused", "done", "lost"})

\* The counter keeps the book: a reservation is a Hold at the moment of its
\* comparison, and completions charged before its increment do not undo that.
Entry(r) ==
  IF LimitOf[r] = 0 THEN "none"
  ELSE CASE pc[r] = "new" -> "none"
         [] pc[r] = "refused" -> "refused"
         [] committed[r] -> "settled"
         [] ~committed[r] /\ pc[r] \in {"add", "send", "leaving"} -> "held"
         [] OTHER -> "returned"

Book == INSTANCE BudgetLedger WITH
  Slack <- Overrun,
  entry <- [r \in Requests |-> Entry(r)],
  charged <- usage - InputsOwed

\* Until the first fault every step of the counter is a step of the book.
KeepsBook ==
  /\ Book!BookInit
  /\ [][faults' = 0 => [Book!BookNext]_(Book!bookVars)]_vars
================================================================================
