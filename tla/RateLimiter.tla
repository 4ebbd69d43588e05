------------------------------ MODULE RateLimiter ------------------------------
(***************************************************************************)
(* The in-memory rate limiter of internal/proxy/ratelimit.go: one bucket   *)
(* per token hash, with sliding or fixed windows over requests and tokens  *)
(* and a counter of the requests in flight.                                *)
(*                                                                         *)
(* A request is a process.  It calls Allow, which looks its bucket up      *)
(* (AllowEnter), reads the parallel counter and the time (AllowRead) and   *)
(* decides under the limiter's mutex (AllowDecide), then Acquire, then     *)
(* RecordTokens for its prompt and for its completion, then Release.       *)
(* Other requests run between any two of these steps, and time passes.     *)
(***************************************************************************)
EXTENDS Integers, Sequences, FiniteSets, Sums

CONSTANTS
  Requests,    \* request processes, each makes one pass through the limiter
  Tokens,      \* token hashes
  TokenOf,     \* the token hash a request carries
  Configs,     \* the policy.RateLimitConfig values a policy may resolve to
  Counts,      \* the token counts a RecordTokens call may report
  StaleAfter,  \* staleAfter: how long an idle bucket is kept
  GCInterval,  \* the least time between two collections
  MaxStall,    \* bound: how long Allow may take up to reading the time, and how long
               \* from there to Acquire
  MaxFlight,   \* bound: how long a request may run
  MaxTime      \* bound: the last instant of the clock

Rule == [requests: Nat, tokens: Nat, duration: Nat \ {0}, fixed: BOOLEAN]

ASSUME RequestsAssumption == IsFiniteSet(Requests)
ASSUME TokenOfAssumption == TokenOf \in [Requests -> Tokens]
ASSUME ConfigsAssumption ==
  Configs \subseteq [maxParallel: Nat, rules: Seq(Rule)]
ASSUME CountsAssumption == Counts \subseteq Nat \ {0}
ASSUME TimeAssumption ==
  /\ StaleAfter \in Nat /\ GCInterval \in Nat /\ MaxTime \in Nat
  /\ MaxFlight \in Nat
  /\ MaxStall \in Nat /\ 2 * MaxStall <= StaleAfter

VARIABLES
  clock,     \* time.Now()
  lastGC,    \* RateLimiter.lastGC
  buckets,   \* the keys of RateLimiter.buckets
  limits,    \* limits[t]: the configuration bucket t was created with
  parallel,  \* parallel[t]: tokenBucket.parallel
  lastSeen,  \* lastSeen[t]: tokenBucket.lastSeen
  windows,   \* windows[t][i]: the windowCounter of rule i
  pc,        \* where each request is
  conf,      \* conf[r]: resolved.RateLimit of the request's policy
  stamp,     \* stamp[r]: the time Allow read last: in getBucket, then its own
  used       \* used[r]: the RecordTokens calls of r, each a count and a time

bucketVars == <<lastGC, buckets, limits, parallel, lastSeen, windows>>
vars == <<clock, bucketVars, pc, conf, stamp, used>>

Unlimited(c) == c.rules = <<>> /\ c.maxParallel = 0

\* A window holds the requests it counts (their times are in stamp), the
\* RecordTokens calls it counts (the k-th call of r, its time is in used), and
\* the counters of the fixed strategy.
NewWindow(rule) ==
  [reqs |-> {}, toks |-> {}, start |-> 0 - rule.duration, nreq |-> 0, ntok |-> 0]

NoConfig == [maxParallel |-> 0, rules |-> <<>>]

----------------------------------------------------------------------------
(* Counting.                                                               *)

Spent(calls) == SumOver([e \in calls |-> used[e[1]][e[2]].n], calls)

\* Slip: the cutoff itself is counted as outside by one instant too many.
YoungReqsOffByOne(w, rule, now) ==
  {r \in w.reqs : stamp[r] > now - rule.duration + 1}

YoungReqs(w, rule, now) == {r \in w.reqs : stamp[r] > now - rule.duration}
YoungToks(w, rule, now) ==
  {e \in w.toks : used[e[1]][e[2]].at > now - rule.duration}

\* Slip: the counters are reset and the start is not moved.
RolledKeepsStart(w, rule, now) ==
  IF rule.fixed /\ now - w.start >= rule.duration
  THEN [w EXCEPT !.nreq = 0, !.ntok = 0] ELSE w

\* Reading a fixed window that has run its length starts it again at now; a
\* rule that limits nothing is never read.
Rolled(w, rule, now) ==
  IF /\ rule.fixed /\ rule.requests + rule.tokens > 0
     /\ now - w.start >= rule.duration
  THEN [reqs |-> w.reqs, toks |-> w.toks, start |-> now, nreq |-> 0, ntok |-> 0]
  ELSE w

CountRequests(w, rule, now) ==
  IF rule.fixed THEN Rolled(w, rule, now).nreq
  ELSE Cardinality(YoungReqs(w, rule, now))

CountTokens(w, rule, now) ==
  IF rule.fixed THEN Rolled(w, rule, now).ntok
  ELSE Spent(YoungToks(w, rule, now))

Exceeded(w, rule, now) ==
  \/ rule.requests > 0 /\ CountRequests(w, rule, now) >= rule.requests
  \/ rule.tokens > 0 /\ CountTokens(w, rule, now) >= rule.tokens

\* addRequest: the entry is appended and the entries the cutoff passed dropped.
WithRequest(w, rule, r, now) ==
  IF rule.requests = 0 THEN Rolled(w, rule, now)
  ELSE IF rule.fixed
       THEN [Rolled(w, rule, now) EXCEPT !.nreq = @ + 1]
       ELSE [w EXCEPT !.reqs = YoungReqs(w, rule, now) \cup {r}]

\* addTokens, for the k-th call of r, which reports n tokens.
WithTokens(w, rule, r, k, n, now) ==
  IF rule.tokens = 0 THEN w
  ELSE IF rule.fixed
       THEN [Rolled(w, rule, now) EXCEPT !.ntok = @ + n]
       ELSE [w EXCEPT !.toks = YoungToks(w, rule, now) \cup {<<r, k>>}]

----------------------------------------------------------------------------
(* getBucket: collect stale buckets, at most once per GCInterval, then     *)
(* look the token up and create its bucket when it has none.  A bucket     *)
(* keeps the configuration it was created with.                            *)

\* Slip: a bucket without requests in flight is collected however recent it is.
StaleWhenIdle ==
  IF clock - lastGC < GCInterval THEN {} ELSE {t \in buckets : ~(parallel[t] > 0)}

Stale ==
  IF clock - lastGC < GCInterval THEN {}
  ELSE {t \in buckets : ~(parallel[t] > 0) /\ clock - lastSeen[t] > StaleAfter}

GetBucket(t, c) ==
  /\ lastGC' = IF clock - lastGC < GCInterval THEN lastGC ELSE clock
  /\ buckets' = (buckets \ Stale) \cup {t}
  /\ lastSeen' = [lastSeen EXCEPT ![t] = clock]
  /\ limits' = IF t \in buckets \ Stale THEN limits ELSE [limits EXCEPT ![t] = c]
  /\ windows' = [u \in Tokens |->
       IF u \in buckets \ Stale THEN windows[u]
       ELSE IF u = t THEN [i \in DOMAIN c.rules |-> NewWindow(c.rules[i])]
       ELSE <<>>]

\* The parallel counters getBucket leaves: a bucket that is created starts at 0.
KeptParallel == [u \in Tokens |-> IF u \in buckets \ Stale THEN parallel[u] ELSE 0]

----------------------------------------------------------------------------
(* The steps of a request.                                                 *)

Goto(r, place) == pc' = [pc EXCEPT ![r] = place]

\* Allow up to getBucket.  A limiter with nothing to enforce is not entered.
AllowEnter(r, c) ==
  /\ pc[r] = "new"
  /\ conf' = [conf EXCEPT ![r] = c]
  /\ stamp' = [stamp EXCEPT ![r] = clock]
  /\ IF Unlimited(c)
     THEN Goto(r, "admitted") /\ UNCHANGED bucketVars
     ELSE /\ GetBucket(TokenOf[r], c)
          /\ parallel' = KeptParallel
          /\ Goto(r, "looked")
  /\ UNCHANGED <<clock, used>>

\* No mutex is held: the counter is compared, then the time is read.
AllowRead(r) ==
  LET t == TokenOf[r]
      full == limits[t].maxParallel > 0 /\ parallel[t] >= limits[t].maxParallel
  IN /\ pc[r] = "looked"
     /\ IF full THEN stamp' = stamp ELSE stamp' = [stamp EXCEPT ![r] = clock]
     /\ Goto(r, IF full THEN "denied" ELSE "allow")
     /\ UNCHANGED <<clock, bucketVars, conf, used>>

\* Slip: the request is counted before the rules are read, denied or not.
AllowDecideCountsDenied(r) ==
  LET t == TokenOf[r]
      rules == limits[t].rules
  IN /\ pc[r] = "allow"
     /\ windows' = [windows EXCEPT ![t] = [i \in DOMAIN rules |->
          WithRequest(windows[t][i], rules[i], r, stamp[r])]]
     /\ Goto(r, IF \E i \in DOMAIN rules : Exceeded(windows[t][i], rules[i], stamp[r])
                THEN "denied" ELSE "admitted")
     /\ UNCHANGED <<clock, lastGC, buckets, limits, parallel, lastSeen, conf, stamp, used>>

\* Allow under its mutex.  The rules are read in order up to the first that is
\* exceeded, and reading a fixed window rolls it; a request that is admitted
\* is then counted by every rule.
AllowDecide(r) ==
  LET t == TokenOf[r]
      now == stamp[r]
      rules == limits[t].rules
      over == {i \in DOMAIN rules : Exceeded(windows[t][i], rules[i], now)}
      read == {i \in DOMAIN rules : \A j \in over : i <= j}
  IN /\ pc[r] = "allow"
     /\ windows' = [windows EXCEPT ![t] = [i \in DOMAIN rules |->
          IF over = {} THEN WithRequest(windows[t][i], rules[i], r, now)
          ELSE IF i \in read THEN Rolled(windows[t][i], rules[i], now)
          ELSE windows[t][i]]]
     /\ Goto(r, IF over = {} THEN "admitted" ELSE "denied")
     /\ UNCHANGED <<clock, lastGC, buckets, limits, parallel, lastSeen, conf, stamp, used>>

\* Slip: the counter is raised whether or not the policy limits it.
AcquireAlways(r) ==
  /\ pc[r] = "admitted"
  /\ GetBucket(TokenOf[r], conf[r])
  /\ parallel' = [KeptParallel EXCEPT ![TokenOf[r]] = @ + 1]
  /\ Goto(r, "running")
  /\ UNCHANGED <<clock, conf, stamp, used>>

Acquire(r) ==
  LET t == TokenOf[r]
  IN /\ pc[r] = "admitted"
     /\ IF conf[r].maxParallel = 0 THEN UNCHANGED bucketVars
        ELSE /\ GetBucket(t, conf[r])
             /\ parallel' = [KeptParallel EXCEPT ![t] = @ + 1]
     /\ Goto(r, "running")
     /\ UNCHANGED <<clock, conf, stamp, used>>

\* The prompt's tokens, then the completion's.  The call does nothing for a
\* configuration without rules or a token without a bucket.
RecordTokens(r, n) ==
  LET t == TokenOf[r]
      k == Len(used[r]) + 1
      rules == limits[t].rules
  IN /\ pc[r] = "running" /\ k <= 2
     /\ used' = [used EXCEPT ![r] = Append(@, [n |-> n, at |-> clock])]
     /\ IF conf[r].rules = <<>> \/ t \notin buckets THEN UNCHANGED windows
        ELSE windows' = [windows EXCEPT ![t] = [i \in DOMAIN rules |->
               WithTokens(windows[t][i], rules[i], r, k, n, clock)]]
     /\ UNCHANGED <<clock, lastGC, buckets, limits, parallel, lastSeen, pc, conf, stamp>>

\* Slip: the counter is lowered whether or not this request raised it.
ReleaseAlways(r) ==
  /\ pc[r] = "running"
  /\ parallel' = [parallel EXCEPT ![TokenOf[r]] = @ - 1]
  /\ Goto(r, "done")
  /\ UNCHANGED <<clock, lastGC, buckets, limits, lastSeen, windows, conf, stamp, used>>

Release(r) ==
  LET t == TokenOf[r]
  IN /\ pc[r] = "running"
     /\ parallel' = IF conf[r].maxParallel = 0 \/ t \notin buckets THEN parallel
                    ELSE [parallel EXCEPT ![t] = @ - 1]
     /\ Goto(r, "done")
     /\ UNCHANGED <<clock, lastGC, buckets, limits, lastSeen, windows, conf, stamp, used>>

\* Time passes.  A request between getBucket and Acquire only waits for the mutex,
\* so MaxStall bounds its stay there; MaxFlight bounds how long it runs.
Tick ==
  /\ clock < MaxTime
  /\ \A r \in Requests :
       /\ pc[r] \in {"looked", "allow", "admitted"} => clock - stamp[r] < MaxStall
       /\ pc[r] = "running" => clock - stamp[r] < MaxFlight
  /\ clock' = clock + 1
  /\ UNCHANGED <<bucketVars, pc, conf, stamp, used>>

Init ==
  /\ clock = 0 /\ lastGC = 0 - GCInterval
  /\ buckets = {}
  /\ limits = [t \in Tokens |-> NoConfig]
  /\ parallel = [t \in Tokens |-> 0]
  /\ lastSeen = [t \in Tokens |-> 0]
  /\ windows = [t \in Tokens |-> <<>>]
  /\ pc = [r \in Requests |-> "new"]
  /\ conf = [r \in Requests |-> NoConfig]
  /\ stamp = [r \in Requests |-> 0]
  /\ used = [r \in Requests |-> <<>>]

Next ==
  \/ Tick
  \/ \E r \in Requests :
       \/ \E c \in Configs : AllowEnter(r, c)
       \/ AllowRead(r)
       \/ AllowDecide(r)
       \/ Acquire(r)
       \/ \E n \in Counts : RecordTokens(r, n)
       \/ Release(r)

Spec == Init /\ [][Next]_vars

----------------------------------------------------------------------------
(* Properties.                                                             *)

Place == {"new", "looked", "allow", "denied", "admitted", "running", "done"}

Window == [reqs: SUBSET Requests, toks: SUBSET (Requests \X {1, 2}),
           start: Int, nreq: Nat, ntok: Nat]

\* Type invariant of the limiter's buckets and of the request processes.
TypeOK ==
  /\ clock \in Nat /\ lastGC \in Int
  /\ buckets \subseteq Tokens
  /\ limits \in [Tokens -> Configs \cup {NoConfig}]
  /\ parallel \in [Tokens -> Nat]
  /\ lastSeen \in [Tokens -> Nat]
  /\ windows \in [Tokens -> Seq(Window)]
  /\ pc \in [Requests -> Place]
  /\ conf \in [Requests -> Configs \cup {NoConfig}]
  /\ stamp \in [Requests -> Nat]
  /\ used \in [Requests -> Seq([n: Counts, at: Nat])]

\* The requests of t that Acquire counted and Release has not yet.
Holders(t) ==
  {r \in Requests : TokenOf[r] = t /\ pc[r] = "running" /\ conf[r].maxParallel > 0}

\* The requests Allow let through for t, under a configuration with limits.
Admitted(t) ==
  {r \in Requests : /\ TokenOf[r] = t /\ ~Unlimited(conf[r])
                    /\ pc[r] \in {"admitted", "running", "done"}}

\* Those whose time of admission lies less than a window back.
Recent(t, rule) == {r \in Admitted(t) : stamp[r] > clock - rule.duration}

\* The parallel counter is the number of requests in flight: no early return,
\* no collection of a bucket and no change of policy makes it drift, so it can
\* neither go negative nor stay above zero and lock the token out.
ParallelIsHolders ==
  \A t \in Tokens : parallel[t] = Cardinality(Holders(t))

\* A sliding rule of a bucket bounds the requests admitted in the last window,
\* at every instant, whatever the order in which requests that read the time
\* early get the mutex, and across the collection of buckets.
SlidingBound ==
  \A t \in buckets : \A i \in DOMAIN limits[t].rules :
    LET rule == limits[t].rules[i] IN
    rule.requests > 0 /\ ~rule.fixed => Cardinality(Recent(t, rule)) <= rule.requests

\* A fixed rule lets at most two windows' worth through in the time of one: a
\* full window may end where another starts, but a third never fits.
FixedBurst ==
  \A t \in buckets : \A i \in DOMAIN limits[t].rules :
    LET rule == limits[t].rules[i] IN
    rule.requests > 0 /\ rule.fixed => Cardinality(Recent(t, rule)) <= 2 * rule.requests

\* The tokens RecordTokens reported for t in the last window, whether or not
\* the bucket still counts them.
RecentTokens(t, rule) ==
  Spent({e \in Requests \X {1, 2} :
           /\ TokenOf[e[1]] = t /\ conf[e[1]].rules # <<>>
           /\ e[2] <= Len(used[e[1]])
           /\ used[e[1]][e[2]].at > clock - rule.duration})

\* No request is admitted while the tokens reported within a sliding window
\* have used the rule up: pruning and collection never forget young tokens.
TokenGate ==
  [][\A r \in Requests :
       pc[r] = "allow" /\ pc'[r] = "admitted" =>
         \A i \in DOMAIN limits[TokenOf[r]].rules :
           LET rule == limits[TokenOf[r]].rules[i] IN
           rule.tokens > 0 /\ ~rule.fixed => RecentTokens(TokenOf[r], rule) < rule.tokens
    ]_vars

\* A request is turned away only for a limit its token really has used up:
\* as many requests in flight as max_parallel, or a window's worth of admitted
\* requests or reported tokens no older than the window at the time it read
\* (a fixed window may also count a request that waited for the mutex as it
\* started).
NoFalseDenial ==
  [][\A r \in Requests : pc[r] # "denied" /\ pc'[r] = "denied" =>
       LET t == TokenOf[r] IN
       \/ /\ limits'[t].maxParallel > 0
          /\ Cardinality(Holders(t)) >= limits'[t].maxParallel
       \/ \E i \in DOMAIN limits[t].rules :
            LET rule == limits[t].rules[i]
                since == stamp[r] - rule.duration - IF rule.fixed THEN MaxStall ELSE 0
            IN \/ /\ rule.requests > 0
                  /\ Cardinality({q \in Admitted(t) : stamp[q] > since}) >= rule.requests
               \/ /\ rule.tokens > 0
                  /\ Spent({e \in Requests \X {1, 2} :
                              /\ TokenOf[e[1]] = t /\ e[2] <= Len(used[e[1]])
                              /\ used[e[1]][e[2]].at > since}) >= rule.tokens
    ]_vars

\* docs/POLICIES.md:316: "`max_parallel` limits concurrent in-flight requests
\* per token".  Allow reads the counter and Acquire raises it later.
MaxParallelHolds ==
  \A t \in buckets : limits[t].maxParallel > 0 =>
    Cardinality(Holders(t)) <= limits[t].maxParallel
================================================================================
