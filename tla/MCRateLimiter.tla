----------------------------- MODULE MCRateLimiter -----------------------------
(***************************************************************************)
(* Instances of RateLimiter for TLC.                                       *)
(***************************************************************************)
EXTENDS RateLimiter

CONSTANTS r1, r2, r3, r4, t1

OneToken == [r \in Requests |-> t1]

Sliding(n) == [requests |-> n, tokens |-> 0, duration |-> 2, fixed |-> FALSE]
Fixed(n)   == [requests |-> n, tokens |-> 0, duration |-> 2, fixed |-> TRUE]
TokenRule(n, f) == [requests |-> 0, tokens |-> n, duration |-> 2, fixed |-> f]

\* Windows of 2 instants, buckets kept for 4: one policy with a parallel limit,
\* one with none, so that a change of policy is among the interleavings.
MixedConfigs ==
  { [maxParallel |-> 1, rules |-> <<Fixed(1)>>],
    [maxParallel |-> 0, rules |-> <<Sliding(1), TokenRule(2, FALSE)>>] }

\* Only max_parallel.
ParallelConfigs == { [maxParallel |-> 1, rules |-> <<>>] }

\* A window as long as a bucket is kept, the documented "24h".
LongConfigs == { [maxParallel |-> 0, rules |-> <<TokenRule(2, FALSE)>>] }
=============================================================================
