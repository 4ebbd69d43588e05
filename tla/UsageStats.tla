------------------------------ MODULE UsageStats ------------------------------
(***************************************************************************)
(* UsageStats of internal/proxy/stats.go: what was used by each model and  *)
(* key, and by each token, counted under one lock and copied for a report  *)
(* under one lock for each of the two.  A token is known by the first 16   *)
(* digits of its hash.  Input and output tokens are one number, and error  *)
(* counts and times are left out.                                          *)
(***************************************************************************)
EXTENDS Naturals, FiniteSets, Sums

CONSTANTS
  StatsKeys,  \* pairs of a model and a base_key_env
  Tokens,     \* token hashes
  Display     \* Display[t]: the hash as it is shown

ASSUME StatsAssumption == IsFiniteSet(StatsKeys) /\ IsFiniteSet(Tokens)

VARIABLES
  entries,        \* entries[k]: the usage of a model with a key
  sessionEntries  \* sessionEntries[d]: the usage of a token

statsVars == <<entries, sessionEntries>>

Displays == {Display[t] : t \in Tokens}

NoUsage == [requests |-> 0, tokens |-> 0]
Plus(u, v) == [requests |-> u.requests + v.requests, tokens |-> u.tokens + v.tokens]
TotalUsage(f) ==
  [requests |-> SumField(f, "requests"), tokens |-> SumField(f, "tokens")]

NewUsageStats ==
  /\ entries = [k \in StatsKeys |-> NoUsage]
  /\ sessionEntries = [d \in Displays |-> NoUsage]

Record(token, key, n) ==
  LET use == [requests |-> 1, tokens |-> n]
  IN /\ entries' = [entries EXCEPT ![key] = Plus(@, use)]
     /\ sessionEntries' = [sessionEntries EXCEPT ![Display[token]] = Plus(@, use)]

=============================================================================
