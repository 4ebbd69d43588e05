----------------------------- MODULE BudgetLedger -----------------------------
(***************************************************************************)
(* What the token budget promises (docs/FEATURES.md:9), without mutexes,   *)
(* stores or retries: an account book of one token.  A metered             *)
(* request's prompt is held if it fits the budget, and is then either      *)
(* settled, when an upstream response is used, or returned in full.  What  *)
(* a response produces is charged afterwards and may overrun the budget.   *)
(***************************************************************************)
EXTENDS Integers, FiniteSets, Sums

CONSTANTS
  Requests,  \* requests made with the token
  Prompt,    \* Prompt[r]: the input tokens of r
  LimitOf,   \* LimitOf[r]: the budget of the policy r resolves to, 0 for none
  Slack      \* what concurrent proxies may overrun a budget by

VARIABLES
  entry,    \* entry[r]: what the book says of r's prompt
  charged   \* the completion tokens charged so far

bookVars == <<entry, charged>>

Entries == {"none", "held", "settled", "returned", "refused"}

\* The prompts the book counts: held, or settled for good.
Inputs == SumOver(Prompt, {r \in Requests : entry[r] \in {"held", "settled"}})

Total == Inputs + charged

Move(r, from, to) == entry[r] = from /\ entry' = [entry EXCEPT ![r] = to]

Hold(r) ==
  /\ LimitOf[r] > 0 /\ Total + Prompt[r] <= LimitOf[r] + Slack
  /\ Move(r, "none", "held")
  /\ UNCHANGED charged

Refuse(r) ==
  /\ LimitOf[r] > 0 /\ Total + Prompt[r] > LimitOf[r]
  /\ Move(r, "none", "refused")
  /\ UNCHANGED charged

Settle(r) == Move(r, "held", "settled") /\ UNCHANGED charged
Return(r) == Move(r, "held", "returned") /\ UNCHANGED charged

\* A completion is charged to a request whose prompt is settled or unmetered.
Charge(r) ==
  /\ entry[r] = "settled" \/ LimitOf[r] = 0
  /\ charged' >= charged
  /\ UNCHANGED entry

BookInit == entry = [r \in Requests |-> "none"] /\ charged = 0

BookNext == \E r \in Requests :
  Hold(r) \/ Refuse(r) \/ Settle(r) \/ Return(r) \/ Charge(r)

BookSpec == BookInit /\ [][BookNext]_bookVars
=============================================================================
