--------------------------- MODULE RateLimiterProofs ---------------------------
(*****************************************************************************)
(* Proofs about RateLimiter, for any requests, tokens, configurations and    *)
(* bounds: types, the parallel counter, the sliding and the fixed windows,   *)
(* and the steps by which Allow admits and denies.  The invariant is IInv;   *)
(* its parts Timing and Counter say why a bucket that a request still needs  *)
(* is not collected, Remembered and Forgotten what the windows know of the   *)
(* requests that were admitted.  Three invariants hold beside it: Bursts     *)
(* says what two consecutive fixed windows have let through, Honest that a   *)
(* window counts nothing that was not there, TokensKnown that it knows every *)
(* young RecordTokens call.                                                  *)
(*****************************************************************************)
EXTENDS RateLimiter, SumTheorems

\* A bucket has a window for each of its rules.
Shape == \A t \in buckets : DOMAIN windows[t] = DOMAIN limits[t].rules

\* A request reads its time at most a stall after a look at its bucket, and decides at
\* most a stall after that, which together is no longer than a bucket is kept.
Timed(r) ==
  /\ stamp[r] <= clock
  /\ pc[r] \in {"looked", "allow", "admitted"} => clock - stamp[r] <= MaxStall
  /\ pc[r] = "looked" => stamp[r] <= lastSeen[TokenOf[r]]
  /\ pc[r] # "new" /\ ~Unlimited(conf[r]) => stamp[r] <= lastSeen[TokenOf[r]] + MaxStall
  /\ pc[r] \in {"looked", "allow"} => TokenOf[r] \in buckets /\ ~Unlimited(conf[r])
Timing ==
  /\ \A t \in Tokens : lastSeen[t] <= clock
  /\ \A r \in Requests : Timed(r)

\* How long a bucket is kept after the time that a request for it read.
Kept == StaleAfter - MaxStall

\* The counter of a token without a bucket is 0.
Counter ==
  /\ ParallelIsHolders
  /\ \A t \in Tokens \ buckets : parallel[t] = 0

\* A sliding window that counts requests holds no more than its limit, and every
\* request it should still know if it is no longer than a bucket is kept for it.
RememberedBy(t, i) ==
  LET rule == limits[t].rules[i] IN
  rule.requests > 0 /\ ~rule.fixed =>
    /\ Cardinality(windows[t][i].reqs) <= rule.requests
    /\ rule.duration <= Kept => Recent(t, rule) \subseteq windows[t][i].reqs
Remembered == \A t \in buckets : \A i \in DOMAIN limits[t].rules : RememberedBy(t, i)

\* What a token without a bucket admitted is too old for such a window.
Forgotten ==
  \A t \in Tokens \ buckets : \A r \in Admitted(t) : clock - stamp[r] > Kept

IInv == TypeOK /\ Shape /\ Timing /\ Counter /\ Remembered /\ Forgotten

\* A fixed window w and its predecessor hold the requests of R: those the predecessor
\* let through (A) came before w started, those w let through (B) before it ends.
TwoWindows(w, rule, R, now, time) ==
  /\ w.start <= now /\ w.nreq <= rule.requests
  /\ \E A \in SUBSET R : \E B \in SUBSET R :
       /\ R = A \cup B
       /\ Cardinality(A) <= rule.requests /\ Cardinality(B) <= w.nreq
       /\ \A q \in A : time[q] < w.start
       /\ \A q \in B : time[q] < w.start + rule.duration

\* What a fixed rule admitted in the length of a window is in two of its windows.
BurstBy(t, i) ==
  LET rule == limits[t].rules[i] IN
  rule.requests > 0 /\ rule.fixed /\ rule.duration <= Kept =>
    TwoWindows(windows[t][i], rule, Recent(t, rule), clock, stamp)
Bursts == \A t \in buckets : \A i \in DOMAIN limits[t].rules : BurstBy(t, i)

\* Every window of every configuration is no longer than a bucket is kept after the time
\* that a request read: getBucket stamps the bucket with an earlier one.
ShortWindows ==
  \A c \in Configs : \A i \in DOMAIN c.rules : c.rules[i].duration <= Kept

----------------------------------------------------------------------------
(* Types of the helpers.                                                   *)

\* A bucket is kept longer than a stall.
LEMMA KeptType == Kept \in Nat /\ StaleAfter \in Nat /\ MaxStall \in Nat
                  /\ Kept + MaxStall = StaleAfter /\ MaxStall <= Kept
BY TimeAssumption DEF Kept

\* A policy's configuration is a limit of parallel requests and a list of rules.
LEMMA ConfigType ==
  ASSUME NEW c \in Configs \cup {NoConfig}
  PROVE  c \in [maxParallel: Nat, rules: Seq(Rule)]
<1>1. <<>> \in Seq(Rule)
  OBVIOUS
<1>2. NoConfig \in [maxParallel: Nat, rules: Seq(Rule)]
  BY <1>1 DEF NoConfig
<1> QED
  BY <1>2, ConfigsAssumption

\* The rules of a configuration are numbered from 1.
LEMMA RulesType ==
  ASSUME NEW c \in Configs \cup {NoConfig}
  PROVE  /\ c.maxParallel \in Nat
         /\ DOMAIN c.rules = 1..Len(c.rules) /\ Len(c.rules) \in Nat
         /\ \A i \in DOMAIN c.rules : c.rules[i] \in Rule
  BY ConfigType

\* The fields of a rule.
LEMMA RuleType ==
  ASSUME NEW rule \in Rule
  PROVE  /\ rule.requests \in Nat /\ rule.tokens \in Nat
         /\ rule.duration \in Nat /\ rule.fixed \in BOOLEAN
  BY DEF Rule

\* A function over the indices of a sequence is a sequence.
LEMMA MapType ==
  ASSUME NEW n \in Nat, NEW S, NEW f, DOMAIN f = 1..n, f = [i \in 1..n |-> f[i]],
         \A i \in 1..n : f[i] \in S
  PROVE  f \in Seq(S)
<1>1. f \in [1..n -> S]
  OBVIOUS
<1> QED
  BY <1>1

\* The window getBucket makes for a rule counts nothing.
LEMMA NewWindowType ==
  ASSUME NEW rule \in Rule
  PROVE  NewWindow(rule) \in Window /\ NewWindow(rule).reqs = {}
  BY RuleType DEF NewWindow, Window

\* Starting a fixed window again forgets no sliding entry.
LEMMA RolledType ==
  ASSUME NEW w \in Window, NEW rule \in Rule, NEW at \in Nat
  PROVE  Rolled(w, rule, at) \in Window /\ Rolled(w, rule, at).reqs = w.reqs
<1> DEFINE v == [reqs |-> w.reqs, toks |-> w.toks, start |-> at, nreq |-> 0, ntok |-> 0]
<1>1. v \in Window /\ v.reqs = w.reqs
  BY DEF Window
<1> QED
  BY <1>1 DEF Rolled

\* addRequest returns a window.
LEMMA WithRequestType ==
  ASSUME TypeOK, NEW w \in Window, NEW rule \in Rule, NEW r \in Requests, NEW at \in Nat
  PROVE  WithRequest(w, rule, r, at) \in Window
<1> DEFINE v == Rolled(w, rule, at)
<1>1. v \in Window
  BY RolledType
<1>2. [v EXCEPT !.nreq = @ + 1] \in Window
  BY <1>1 DEF Window
<1>3. YoungReqs(w, rule, at) \cup {r} \in SUBSET Requests
  BY DEF YoungReqs, Window
<1>4. [w EXCEPT !.reqs = YoungReqs(w, rule, at) \cup {r}] \in Window
  BY <1>3 DEF Window
<1> QED
  BY <1>1, <1>2, <1>4 DEF WithRequest

\* v is a window that counts the same requests as w.
SameRequests(v, w) == v \in Window /\ v.reqs = w.reqs

\* addTokens returns a window that counts the same requests.
LEMMA WithTokensType ==
  ASSUME NEW w \in Window, NEW rule \in Rule, NEW r \in Requests, NEW k \in {1, 2},
         NEW n \in Nat, NEW at \in Nat
  PROVE  SameRequests(WithTokens(w, rule, r, k, n, at), w)
<1> DEFINE v == Rolled(w, rule, at)
<1>1. v \in Window /\ v.reqs = w.reqs
  BY RolledType
<1>2. [v EXCEPT !.ntok = @ + n] \in Window /\ [v EXCEPT !.ntok = @ + n].reqs = w.reqs
  BY <1>1 DEF Window
<1> DEFINE toks == YoungToks(w, rule, at) \cup {<<r, k>>}
<1>3. toks \in SUBSET (Requests \X {1, 2})
  BY DEF YoungToks, Window
<1>4. [w EXCEPT !.toks = toks] \in Window /\ [w EXCEPT !.toks = toks].reqs = w.reqs
  BY <1>3 DEF Window
<1> QED
  BY <1>1, <1>2, <1>4 DEF WithTokens, SameRequests

----------------------------------------------------------------------------
(* Buckets.                                                                *)

\* A bucket with a request in flight, and one that a request waiting for the mutex
\* looked up, is not collected.
LEMMA StaleIsIdle ==
  ASSUME IInv, NEW t \in Stale
  PROVE  /\ t \in buckets /\ parallel[t] = 0 /\ clock - lastSeen[t] > StaleAfter
         /\ \A r \in Requests : pc[r] \in {"looked", "allow"} => TokenOf[r] # t
<1>1. t \in buckets /\ parallel[t] = 0 /\ clock - lastSeen[t] > StaleAfter
  BY DEF Stale, IInv, TypeOK
<1>2. ASSUME NEW r \in Requests, pc[r] \in {"looked", "allow"}, TokenOf[r] = t PROVE FALSE
  <2>1. stamp[r] <= lastSeen[t] + MaxStall /\ clock - stamp[r] <= MaxStall
    BY <1>2 DEF IInv, Timing, Timed
  <2>2. stamp[r] \in Nat /\ lastSeen[t] \in Nat /\ clock \in Nat
    BY <1>1 DEF IInv, TypeOK
  <2> QED
    BY <1>1, <2>1, <2>2, TimeAssumption
<1> QED
  BY <1>1, <1>2

\* Each rule of a bucket has its window.
LEMMA BucketTypes ==
  ASSUME IInv, NEW t \in buckets, NEW i \in DOMAIN limits[t].rules
  PROVE  limits[t].rules[i] \in Rule /\ windows[t][i] \in Window
<1>1. t \in Tokens /\ limits[t] \in Configs \cup {NoConfig} /\ windows[t] \in Seq(Window)
  BY DEF IInv, TypeOK
<1>2. i \in DOMAIN windows[t]
  BY DEF IInv, Shape
<1> QED
  BY <1>1, <1>2, RulesType

\* Collecting buckets and creating one changes no parallel counter: a bucket is
\* collected only at 0, and a new one starts at 0.
LEMMA KeptParallelIsParallel == IInv => KeptParallel = parallel
<1> SUFFICES ASSUME IInv, NEW u \in Tokens
             PROVE  (IF u \in buckets \ Stale THEN parallel[u] ELSE 0) = parallel[u]
  BY DEF KeptParallel, IInv, TypeOK
<1>1. CASE u \in Stale
  BY <1>1, StaleIsIdle
<1>2. CASE u \notin buckets
  BY <1>2 DEF IInv, Counter
<1> QED
  BY <1>1, <1>2

\* The windows of a new bucket.
LEMMA NewWindowsType ==
  ASSUME NEW c \in Configs
  PROVE  [i \in DOMAIN c.rules |-> NewWindow(c.rules[i])] \in Seq(Window)
<1> DEFINE f == [i \in DOMAIN c.rules |-> NewWindow(c.rules[i])]
<1>1. DOMAIN c.rules = 1..Len(c.rules) /\ Len(c.rules) \in Nat
  BY RulesType
<1>2. \A i \in 1..Len(c.rules) : f[i] \in Window
  BY <1>1, RulesType, NewWindowType
<1> QED
  BY <1>1, <1>2, MapType

\* What getBucket leaves: the buckets that are not collected as they are, and one
\* for t, which is new if t had none.
LEMMA GetBucketEffect ==
  ASSUME IInv, NEW t \in Tokens, NEW c \in Configs, GetBucket(t, c)
  PROVE  /\ lastGC' \in Int /\ buckets' \subseteq Tokens
         /\ buckets' = (buckets \ Stale) \cup {t}
         /\ lastSeen' \in [Tokens -> Nat]
         /\ \A u \in Tokens : lastSeen'[u] = IF u = t THEN clock ELSE lastSeen[u]
         /\ limits' \in [Tokens -> Configs \cup {NoConfig}]
         /\ windows' \in [Tokens -> Seq(Window)]
         /\ \A u \in buckets \ Stale : limits'[u] = limits[u] /\ windows'[u] = windows[u]
         /\ t \notin buckets \ Stale =>
              /\ limits'[t] = c
              /\ windows'[t] = [i \in DOMAIN c.rules |-> NewWindow(c.rules[i])]
<1>1. lastGC' \in Int
  BY DEF GetBucket, IInv, TypeOK
<1>2. buckets' = (buckets \ Stale) \cup {t} /\ buckets' \subseteq Tokens
  BY DEF GetBucket, IInv, TypeOK
<1>3. /\ lastSeen' \in [Tokens -> Nat]
      /\ \A u \in Tokens : lastSeen'[u] = IF u = t THEN clock ELSE lastSeen[u]
  BY DEF GetBucket, IInv, TypeOK
<1>4. limits' = IF t \in buckets \ Stale THEN limits ELSE [limits EXCEPT ![t] = c]
  BY DEF GetBucket
<1>5. limits \in [Tokens -> Configs \cup {NoConfig}] /\ buckets \subseteq Tokens
  BY DEF IInv, TypeOK
<1>6. limits' \in [Tokens -> Configs \cup {NoConfig}]
  BY <1>4, <1>5
<1>7. \A u \in buckets \ Stale : limits'[u] = limits[u]
  BY <1>4, <1>5
<1>8. t \notin buckets \ Stale => limits'[t] = c
  BY <1>4, <1>5
<1> DEFINE new == [i \in DOMAIN c.rules |-> NewWindow(c.rules[i])]
<1>9. windows' = [u \in Tokens |-> IF u \in buckets \ Stale THEN windows[u]
                                   ELSE IF u = t THEN new ELSE <<>>]
  BY DEF GetBucket
<1>10. new \in Seq(Window)
  BY NewWindowsType
<1>11. <<>> \in Seq(Window)
  OBVIOUS
<1>12. windows \in [Tokens -> Seq(Window)]
  BY DEF IInv, TypeOK
<1> HIDE DEF new
<1>13. windows' \in [Tokens -> Seq(Window)]
  BY <1>9, <1>10, <1>11, <1>12
<1>14. \A u \in buckets \ Stale : windows'[u] = windows[u]
  BY <1>5, <1>9
<1>15. t \notin buckets \ Stale => windows'[t] = new
  BY <1>9
<1> QED
  BY <1>1, <1>2, <1>3, <1>6, <1>7, <1>8, <1>13, <1>14, <1>15 DEF new

\* getBucket keeps the shape of the buckets, and what they remember when no
\* request is admitted and no time passes meanwhile.
LEMMA GetBucketShape ==
  ASSUME IInv, NEW t \in Tokens, NEW c \in Configs, GetBucket(t, c)
  PROVE  Shape'
<1> SUFFICES ASSUME NEW u \in buckets' PROVE DOMAIN windows'[u] = DOMAIN limits'[u].rules
  BY DEF Shape
<1>1. CASE u \in buckets \ Stale
  BY <1>1, GetBucketEffect DEF IInv, Shape
<1>2. CASE u \notin buckets \ Stale
  <2>1. u = t
    BY <1>2, GetBucketEffect
  <2>2. limits'[t] = c /\ windows'[t] = [i \in DOMAIN c.rules |-> NewWindow(c.rules[i])]
    BY <1>2, <2>1, GetBucketEffect
  <2> QED
    BY <2>1, <2>2
<1> QED
  BY <1>1, <1>2

\* No request waiting for the mutex loses its bucket, no counter is lost.
LEMMA GetBucketAllow ==
  ASSUME IInv, NEW t \in Tokens, NEW c \in Configs, GetBucket(t, c),
         NEW q \in Requests, pc[q] \in {"looked", "allow"}
  PROVE  TokenOf[q] \in buckets'
<1>1. TokenOf[q] \in buckets
  BY DEF IInv, Timing, Timed
<1>2. TokenOf[q] \notin Stale
  BY StaleIsIdle
<1> QED
  BY <1>1, <1>2, GetBucketEffect

\* A token without a bucket after a look has no request in flight.
LEMMA GetBucketCounter ==
  ASSUME IInv, NEW t \in Tokens, NEW c \in Configs, GetBucket(t, c),
         NEW u \in Tokens \ buckets'
  PROVE  parallel[u] = 0 /\ u # t
<1>1. u \notin buckets \ Stale /\ u # t
  BY GetBucketEffect
<1>2. CASE u \in Stale
  BY <1>1, <1>2, StaleIsIdle
<1>3. CASE u \notin buckets
  BY <1>1, <1>3 DEF IInv, Counter
<1> QED
  BY <1>1, <1>2, <1>3

\* Looks at buckets only get more recent.
LEMMA GetBucketSeen ==
  ASSUME IInv, NEW t \in Tokens, NEW c \in Configs, GetBucket(t, c), clock' = clock,
         NEW u \in Tokens
  PROVE  lastSeen'[u] <= clock' /\ lastSeen[u] <= lastSeen'[u]
<1>1. lastSeen[u] \in Nat /\ clock \in Nat /\ lastSeen[u] <= clock
  BY DEF IInv, TypeOK, Timing
<1>2. lastSeen'[u] = IF u = t THEN clock ELSE lastSeen[u]
  BY GetBucketEffect
<1> QED
  BY <1>1, <1>2

\* What a token without a bucket, or with one that is collected, has admitted is
\* older than a bucket is kept.
LEMMA ForgottenIsOld ==
  ASSUME IInv, NEW u \in Tokens, u \notin buckets \ Stale, NEW q \in Admitted(u)
  PROVE  clock - stamp[q] > Kept
<1>1. CASE u \in Stale
  <2>1. u \in buckets /\ clock - lastSeen[u] > StaleAfter
    BY <1>1, StaleIsIdle
  <2>2. q \in Requests /\ TokenOf[q] = u /\ pc[q] # "new" /\ ~Unlimited(conf[q])
    BY DEF Admitted
  <2>3. stamp[q] <= lastSeen[u] + MaxStall
    BY <2>2 DEF IInv, Timing, Timed
  <2>4. stamp[q] \in Nat /\ lastSeen[u] \in Nat /\ clock \in Nat
    BY <2>2 DEF IInv, TypeOK
  <2> QED
    BY <2>1, <2>3, <2>4, KeptType
<1>2. CASE u \notin buckets
  BY <1>2 DEF IInv, Forgotten
<1> QED
  BY <1>1, <1>2

\* A look at a bucket forgets nothing young, when no request is admitted by the
\* same step and no time passes.
LEMMA GetBucketMemory ==
  ASSUME IInv, NEW t \in Tokens, NEW c \in Configs, GetBucket(t, c), clock' = clock,
         \A u \in Tokens : \A q \in Admitted(u)' : q \in Admitted(u) /\ stamp'[q] = stamp[q]
  PROVE  Remembered' /\ Forgotten'
<1>1. \A u \in Tokens : Admitted(u) \subseteq Requests
  BY DEF Admitted
<1>2. ASSUME NEW u \in buckets \ Stale PROVE u \in buckets' /\ u \in buckets /\ u \in Tokens
  BY <1>2, GetBucketEffect DEF IInv, TypeOK
<1>4. ASSUME NEW u \in Tokens, u \notin buckets \ Stale, NEW q \in Admitted(u)
      PROVE  clock - stamp[q] > Kept
  BY <1>4, ForgottenIsOld
<1>5. Forgotten'
  <2> SUFFICES ASSUME NEW u \in Tokens \ buckets', NEW q \in Admitted(u)'
               PROVE  clock' - stamp'[q] > Kept
    BY DEF Forgotten
  <2>1. u \notin buckets \ Stale /\ q \in Admitted(u) /\ stamp'[q] = stamp[q]
    BY GetBucketEffect
  <2> QED
    BY <1>4, <2>1
<1>6. ASSUME NEW u \in buckets \ Stale, NEW i \in DOMAIN limits'[u].rules
      PROVE  RememberedBy(u, i)'
  <2>1. u \in Tokens /\ limits'[u] = limits[u] /\ windows'[u] = windows[u]
    BY <1>2, GetBucketEffect
  <2> DEFINE rule == limits[u].rules[i]
  <2>2. RememberedBy(u, i)
    BY <1>2, <2>1 DEF IInv, Remembered
  <2>3. Recent(u, rule)' \subseteq Recent(u, rule)
    BY <2>1 DEF Recent
  <2> QED
    BY <2>1, <2>2, <2>3 DEF RememberedBy, Recent
<1>7. ASSUME t \notin buckets \ Stale, NEW i \in DOMAIN limits'[t].rules
      PROVE  RememberedBy(t, i)'
  <2> DEFINE rule == c.rules[i]
  <2>1. limits'[t] = c /\ windows'[t] = [j \in DOMAIN c.rules |-> NewWindow(c.rules[j])]
    BY <1>7, GetBucketEffect
  <2>2. rule \in Rule /\ windows'[t][i] = NewWindow(rule)
    BY <1>7, <2>1, RulesType
  <2>3. windows'[t][i].reqs = {}
    BY <2>2, NewWindowType
  <2>4. Cardinality({}) = 0 /\ rule.requests \in Nat /\ rule.duration \in Nat
    BY <2>2, FS_EmptySet, RuleType
  <2>5. ASSUME rule.duration <= Kept PROVE Recent(t, rule)' = {}
    <3> SUFFICES ASSUME NEW q \in Recent(t, rule)' PROVE FALSE
      OBVIOUS
    <3>1. q \in Admitted(t)' /\ stamp'[q] > clock' - rule.duration
      BY <2>1 DEF Recent
    <3>2. q \in Admitted(t) /\ stamp'[q] = stamp[q]
      BY <3>1
    <3>3. clock - stamp[q] > Kept
      BY <1>4, <1>7, <3>2
    <3>4. stamp[q] \in Nat /\ clock \in Nat
      BY <1>1, <3>2 DEF IInv, TypeOK
    <3> QED
      BY <2>4, <2>5, <3>1, <3>2, <3>3, <3>4, KeptType
  <2>6. limits'[t].rules[i] = rule
    BY <2>1
  <2>7. Recent(t, limits[t].rules[i])' = Recent(t, rule)'
    BY <2>6 DEF Recent
  <2> QED
    BY <2>3, <2>4, <2>5, <2>6, <2>7 DEF RememberedBy
<1>8. Remembered'
  <2> SUFFICES ASSUME NEW u \in buckets', NEW i \in DOMAIN limits'[u].rules
               PROVE  RememberedBy(u, i)'
    BY DEF Remembered
  <2>1. CASE u \in buckets \ Stale
    BY <1>6, <2>1
  <2>2. CASE u \notin buckets \ Stale
    <3>1. u = t
      BY <2>2, GetBucketEffect
    <3> QED
      BY <1>7, <2>2, <3>1
  <2> QED
    BY <2>1, <2>2
<1> QED
  BY <1>5, <1>8

\* A request that makes no step itself, while its bucket is at most looked at.
LEMMA TimedStays ==
  ASSUME NEW q \in Requests, Timed(q), clock' = clock,
         pc'[q] = pc[q], conf'[q] = conf[q], stamp'[q] = stamp[q], stamp[q] \in Nat,
         lastSeen[TokenOf[q]] \in Nat, lastSeen'[TokenOf[q]] \in Nat,
         lastSeen[TokenOf[q]] <= lastSeen'[TokenOf[q]],
         pc[q] \in {"looked", "allow"} => TokenOf[q] \in buckets'
  PROVE  Timed(q)'
<1> DEFINE old == lastSeen[TokenOf[q]]
           new == lastSeen'[TokenOf[q]]
<1>1. stamp[q] <= old => stamp[q] <= new
  OBVIOUS
<1>2. stamp[q] <= old + MaxStall => stamp[q] <= new + MaxStall
  <2> HIDE DEF old, new
  <2> QED
    BY KeptType DEF old, new
<1> QED
  BY <1>1, <1>2 DEF Timed, Unlimited

----------------------------------------------------------------------------
(* The actions.                                                            *)

\* Allow up to getBucket keeps the invariant.
LEMMA AllowEnterKeeps ==
  ASSUME IInv, NEW r \in Requests, NEW c \in Configs, AllowEnter(r, c)
  PROVE  IInv'
<1> DEFINE t == TokenOf[r]
<1>1. t \in Tokens /\ pc[r] = "new"
  BY TokenOfAssumption DEF AllowEnter
<1>2. /\ clock' = clock /\ used' = used /\ conf' = [conf EXCEPT ![r] = c]
      /\ stamp' = [stamp EXCEPT ![r] = clock]
      /\ \E p \in {"admitted", "looked"} : pc' = [pc EXCEPT ![r] = p]
  BY DEF AllowEnter, Goto
<1>3. /\ conf' \in [Requests -> Configs \cup {NoConfig}]
      /\ stamp' \in [Requests -> Nat] /\ pc' \in [Requests -> Place]
      /\ clock' \in Nat /\ used' \in [Requests -> Seq([n: Counts, at: Nat])]
  BY <1>2 DEF IInv, TypeOK, Place
<1>4. \A q \in Requests \ {r} :
        pc'[q] = pc[q] /\ conf'[q] = conf[q] /\ stamp'[q] = stamp[q]
  BY <1>2 DEF IInv, TypeOK
<1>5. conf'[r] = c /\ stamp'[r] = clock
  BY <1>2 DEF IInv, TypeOK
<1>6. \A u \in Tokens : Holders(u)' = Holders(u)
  BY <1>1, <1>2, <1>4 DEF Holders, IInv, TypeOK
<1>7. CASE Unlimited(c)
  <2>1. UNCHANGED bucketVars /\ pc' = [pc EXCEPT ![r] = "admitted"]
    BY <1>7 DEF AllowEnter, Goto
  <2>2. \A u \in Tokens : Admitted(u)' = Admitted(u)
    BY <1>1, <1>4, <1>5, <1>7 DEF Admitted, Unlimited
  <2>3. TypeOK' /\ Shape' /\ Counter'
    BY <1>3, <1>6, <2>1 DEF IInv, TypeOK, Shape, Counter, ParallelIsHolders, bucketVars
  <2>4. Timing'
    <3>1. Timed(r)'
      <4>1. pc'[r] = "admitted" /\ clock' = clock /\ stamp'[r] <= clock'
            /\ clock' - stamp'[r] <= MaxStall
        BY <1>2, <1>5, <2>1, KeptType DEF IInv, TypeOK
      <4> QED
        BY <1>5, <1>7, <4>1 DEF Timed, Unlimited
    <3>2. ASSUME NEW q \in Requests \ {r} PROVE Timed(q)'
      <4>1. TokenOf[q] \in Tokens
        BY TokenOfAssumption
      <4>2. stamp[q] \in Nat /\ lastSeen[TokenOf[q]] \in Nat /\ Timed(q)
        BY <4>1 DEF IInv, TypeOK, Timing
      <4>3. lastSeen' = lastSeen /\ buckets' = buckets
        BY <2>1 DEF bucketVars
      <4>4. pc[q] \in {"looked", "allow"} => TokenOf[q] \in buckets'
        BY <4>2, <4>3 DEF Timed
      <4>5. lastSeen[TokenOf[q]] <= lastSeen'[TokenOf[q]]
        BY <4>2, <4>3
      <4> QED
        BY <1>2, <1>4, <4>2, <4>3, <4>4, <4>5, TimedStays
    <3> QED
      BY <1>2, <2>1, <3>1, <3>2 DEF IInv, Timing, bucketVars
  <2>5. Forgotten'
    BY <1>1, <1>2, <1>4, <2>1, <2>2 DEF IInv, Forgotten, bucketVars, Admitted
  <2>6. Remembered'
    <3> SUFFICES ASSUME NEW u \in buckets, NEW i \in DOMAIN limits[u].rules
                 PROVE  RememberedBy(u, i)'
      BY <2>1 DEF Remembered, bucketVars
    <3>1. u \in Tokens /\ RememberedBy(u, i)
      BY DEF IInv, TypeOK, Remembered
    <3>2. r \notin Admitted(u)
      BY <1>1 DEF Admitted
    <3>3. Recent(u, limits[u].rules[i])' = Recent(u, limits[u].rules[i])
      BY <1>2, <1>4, <2>1, <2>2, <3>1, <3>2 DEF Recent, Admitted, bucketVars
    <3> QED
      BY <2>1, <3>1, <3>3 DEF RememberedBy, bucketVars, Recent
  <2> QED
    BY <2>3, <2>4, <2>5, <2>6 DEF IInv
<1>8. CASE ~Unlimited(c)
  <2>1. /\ GetBucket(t, c) /\ parallel' = parallel
        /\ pc' = [pc EXCEPT ![r] = "looked"]
    BY <1>8, KeptParallelIsParallel DEF AllowEnter, Goto
  <2>2. pc'[r] = "looked"
    BY <2>1 DEF IInv, TypeOK
  <2>3. TypeOK'
    BY <1>1, <1>3, <2>1, GetBucketEffect DEF IInv, TypeOK
  <2>4. Shape'
    BY <1>1, <2>1, GetBucketShape
  <2>5. Counter'
    BY <1>1, <1>6, <2>1, GetBucketCounter DEF IInv, Counter, ParallelIsHolders
  <2>6. Timing'
    <3>1. \A u \in Tokens : lastSeen'[u] <= clock' /\ lastSeen[u] <= lastSeen'[u]
      BY <1>1, <1>2, <2>1, GetBucketSeen
    <3>2. lastSeen'[t] = clock /\ t \in buckets'
      BY <1>1, <2>1, GetBucketEffect
    <3>3. ASSUME NEW q \in Requests \ {r} PROVE Timed(q)'
      <4>1. TokenOf[q] \in Tokens
        BY TokenOfAssumption
      <4>2. stamp[q] \in Nat /\ lastSeen[TokenOf[q]] \in Nat /\ lastSeen'[TokenOf[q]] \in Nat
        BY <4>1, <2>3 DEF IInv, TypeOK
      <4>3. pc[q] \in {"looked", "allow"} => TokenOf[q] \in buckets'
        BY <1>1, <2>1, GetBucketAllow
      <4>4. Timed(q) /\ lastSeen[TokenOf[q]] <= lastSeen'[TokenOf[q]]
        BY <3>1, <4>1 DEF IInv, Timing
      <4> QED
        BY <1>2, <1>4, <4>2, <4>3, <4>4, TimedStays
    <3>4. Timed(r)'
      <4>1. clock \in Nat /\ clock - clock <= MaxStall /\ clock <= clock + MaxStall
        BY KeptType DEF IInv, TypeOK
      <4> QED
        BY <1>2, <1>5, <1>8, <2>2, <3>2, <4>1 DEF Timed, Unlimited
    <3> QED
      BY <3>1, <3>3, <3>4 DEF Timing
  <2>7. \A u \in Tokens : \A q \in Admitted(u)' : q \in Admitted(u) /\ stamp'[q] = stamp[q]
    BY <1>4, <2>2 DEF Admitted
  <2>8. Remembered' /\ Forgotten'
    BY <1>1, <1>2, <2>1, <2>7, GetBucketMemory
  <2> QED
    BY <2>3, <2>4, <2>5, <2>6, <2>8 DEF IInv
<1> QED
  BY <1>7, <1>8

\* Comparing the counter and reading the time keeps the invariant: a request that waits
\* for the mutex is not admitted, and its time is at most a stall after its look.
LEMMA AllowReadKeeps ==
  ASSUME IInv, NEW r \in Requests, AllowRead(r)
  PROVE  IInv'
<1>1. pc[r] = "looked" /\ UNCHANGED <<clock, bucketVars, conf, used>>
  BY DEF AllowRead
<1>2. /\ \/ pc' = [pc EXCEPT ![r] = "denied"] /\ stamp' = stamp
         \/ pc' = [pc EXCEPT ![r] = "allow"] /\ stamp' = [stamp EXCEPT ![r] = clock]
  BY DEF AllowRead, Goto
<1>3. clock \in Nat /\ pc \in [Requests -> Place] /\ stamp \in [Requests -> Nat]
  BY DEF IInv, TypeOK
<1>4. /\ pc' \in [Requests -> Place] /\ stamp' \in [Requests -> Nat]
      /\ \/ pc'[r] = "denied" /\ stamp'[r] = stamp[r]
         \/ pc'[r] = "allow" /\ stamp'[r] = clock
      /\ \A q \in Requests \ {r} : pc'[q] = pc[q] /\ stamp'[q] = stamp[q]
  BY <1>2, <1>3 DEF Place
<1>5. UNCHANGED <<lastGC, buckets, limits, parallel, lastSeen, windows>>
  BY <1>1 DEF bucketVars
<1>6. \A u \in Tokens : Holders(u)' = Holders(u)
  BY <1>1, <1>4 DEF Holders
<1>7. ASSUME NEW u \in Tokens
      PROVE  Admitted(u)' = Admitted(u) /\ \A q \in Admitted(u) : stamp'[q] = stamp[q]
  <2>1. r \notin Admitted(u) /\ r \notin Admitted(u)'
    BY <1>1, <1>4 DEF Admitted
  <2> QED
    BY <1>1, <1>4, <2>1 DEF Admitted
<1>8. TypeOK'
  BY <1>1, <1>4, <1>5 DEF IInv, TypeOK
<1>9. Shape' /\ Counter'
  BY <1>5, <1>6 DEF IInv, Shape, Counter, ParallelIsHolders
<1>10. Timing'
  <2>1. ASSUME NEW q \in Requests \ {r} PROVE Timed(q)'
    <3>1. TokenOf[q] \in Tokens /\ Timed(q)
      BY TokenOfAssumption DEF IInv, Timing
    <3>2. stamp[q] \in Nat /\ lastSeen[TokenOf[q]] \in Nat
      BY <3>1 DEF IInv, TypeOK
    <3> QED
      BY <1>1, <1>4, <1>5, <3>1, <3>2 DEF Timed, Unlimited
  <2>2. Timed(r)'
    <3>1. TokenOf[r] \in Tokens /\ Timed(r)
      BY TokenOfAssumption DEF IInv, Timing
    <3>2. stamp[r] \in Nat /\ lastSeen[TokenOf[r]] \in Nat
      BY <3>1 DEF IInv, TypeOK
    <3>3. /\ stamp[r] <= clock /\ clock - stamp[r] <= MaxStall
          /\ stamp[r] <= lastSeen[TokenOf[r]]
          /\ TokenOf[r] \in buckets /\ ~Unlimited(conf[r])
      BY <1>1, <3>1 DEF Timed
    <3> DEFINE seen == lastSeen[TokenOf[r]]
    <3>4. /\ clock - clock <= MaxStall /\ clock <= seen + MaxStall
          /\ stamp[r] <= seen + MaxStall
      <4> HIDE DEF seen
      <4> QED
        BY <1>3, <3>2, <3>3, KeptType DEF seen
    <3>5. CASE pc'[r] = "denied" /\ stamp'[r] = stamp[r]
      BY <1>1, <1>5, <3>3, <3>4, <3>5 DEF Timed, Unlimited
    <3>6. CASE pc'[r] = "allow" /\ stamp'[r] = clock
      BY <1>1, <1>3, <1>5, <3>3, <3>4, <3>6 DEF Timed, Unlimited
    <3> QED
      BY <1>4, <3>5, <3>6
  <2> QED
    BY <1>1, <1>5, <2>1, <2>2 DEF IInv, Timing
<1>11. Forgotten'
  BY <1>1, <1>5, <1>7 DEF IInv, Forgotten
<1>12. Remembered'
  <2> SUFFICES ASSUME NEW u \in buckets, NEW i \in DOMAIN limits[u].rules
               PROVE  RememberedBy(u, i)'
    BY <1>5 DEF Remembered
  <2>1. u \in Tokens /\ RememberedBy(u, i)
    BY DEF IInv, TypeOK, Remembered
  <2>2. Recent(u, limits[u].rules[i])' = Recent(u, limits[u].rules[i])
    BY <1>1, <1>5, <1>7, <2>1 DEF Recent
  <2> QED
    BY <1>5, <2>1, <2>2 DEF RememberedBy
<1> QED
  BY <1>8, <1>9, <1>10, <1>11, <1>12 DEF IInv

\* The windows AllowDecide leaves in t's bucket.
Decided(r, i) ==
  LET t == TokenOf[r]
      rules == limits[t].rules
      over == {j \in DOMAIN rules : Exceeded(windows[t][j], rules[j], stamp[r])}
  IN IF over = {} THEN WithRequest(windows[t][i], rules[i], r, stamp[r])
     ELSE IF i \in {j \in DOMAIN rules : \A k \in over : j <= k}
          THEN Rolled(windows[t][i], rules[i], stamp[r])
     ELSE windows[t][i]

\* An admitted request was below the limit of every rule, and is remembered by it.
LEMMA AdmittedIsRemembered ==
  ASSUME IInv, NEW r \in Requests, pc[r] = "allow", NEW i \in DOMAIN limits[TokenOf[r]].rules,
         ~Exceeded(windows[TokenOf[r]][i], limits[TokenOf[r]].rules[i], stamp[r]),
         limits[TokenOf[r]].rules[i].requests > 0, ~limits[TokenOf[r]].rules[i].fixed
  PROVE  LET t == TokenOf[r]
             rule == limits[t].rules[i]
             w == windows[t][i]
             v == WithRequest(w, rule, r, stamp[r])
         IN /\ Cardinality(v.reqs) <= rule.requests
            /\ r \in v.reqs
            /\ \A q \in w.reqs : stamp[q] > clock - rule.duration => q \in v.reqs
<1> DEFINE t == TokenOf[r]
           rule == limits[t].rules[i]
           w == windows[t][i]
           young == YoungReqs(w, rule, stamp[r])
<1>1. t \in buckets /\ t \in Tokens /\ stamp[r] <= clock
  BY DEF IInv, Timing, Timed, TypeOK
<1>2. rule \in Rule /\ w \in Window
  BY <1>1, BucketTypes
<1>3. young \in SUBSET Requests /\ \A q \in w.reqs : stamp[q] \in Nat
  BY <1>2 DEF YoungReqs, Window, IInv, TypeOK
<1>4. IsFiniteSet(young) /\ Cardinality(young) \in Nat
  BY <1>3, RequestsAssumption, FS_Subset, FS_CardinalityType
<1>5. ~(Cardinality(young) >= rule.requests)
  BY DEF Exceeded, CountRequests
<1>6. Cardinality(young \cup {r}) <= rule.requests
  <2>1. Cardinality(young \cup {r}) = IF r \in young THEN Cardinality(young)
                                     ELSE Cardinality(young) + 1
    BY <1>4, FS_AddElement
  <2>2. rule.requests \in Nat
    BY <1>2, RuleType
  <2> QED
    BY <1>4, <1>5, <2>1, <2>2
<1>7. WithRequest(w, rule, r, stamp[r]) = [w EXCEPT !.reqs = young \cup {r}]
  BY <1>2, RuleType DEF WithRequest
<1>8. WithRequest(w, rule, r, stamp[r]).reqs = young \cup {r}
  BY <1>2, <1>7 DEF Window
<1>9. ASSUME NEW q \in w.reqs, stamp[q] > clock - rule.duration PROVE q \in young
  <2>1. stamp[r] \in Nat /\ clock \in Nat /\ rule.duration \in Nat /\ stamp[q] \in Nat
    BY <1>2, <1>3, RuleType DEF IInv, TypeOK
  <2> QED
    BY <1>1, <1>9, <2>1 DEF YoungReqs
<1> QED
  BY <1>6, <1>8, <1>9

\* Allow under its mutex keeps the invariant: a request is admitted only when the
\* sliding windows of its bucket have room for it, and they remember it.
LEMMA AllowDecideKeeps ==
  ASSUME IInv, NEW r \in Requests, AllowDecide(r)
  PROVE  IInv'
<1> DEFINE t == TokenOf[r]
           rules == limits[t].rules
           over == {j \in DOMAIN rules : Exceeded(windows[t][j], rules[j], stamp[r])}
<1>1. pc[r] = "allow" /\ t \in Tokens /\ t \in buckets /\ ~Unlimited(conf[r])
  BY TokenOfAssumption DEF AllowDecide, IInv, Timing, Timed
<1>2. UNCHANGED <<clock, lastGC, buckets, limits, parallel, lastSeen, conf, stamp, used>>
  BY DEF AllowDecide
<1>3. pc' = [pc EXCEPT ![r] = IF over = {} THEN "admitted" ELSE "denied"]
  BY DEF AllowDecide, Goto
<1>4. pc' \in [Requests -> Place] /\ pc'[r] = (IF over = {} THEN "admitted" ELSE "denied")
      /\ \A q \in Requests \ {r} : pc'[q] = pc[q]
  BY <1>3 DEF IInv, TypeOK, Place
<1>5. windows' = [windows EXCEPT ![t] = [i \in DOMAIN rules |-> Decided(r, i)]]
  BY DEF AllowDecide, Decided
<1>6. DOMAIN rules = 1..Len(rules) /\ Len(rules) \in Nat /\ \A i \in DOMAIN rules : rules[i] \in Rule
  BY <1>1, RulesType DEF IInv, TypeOK
<1>7. \A i \in DOMAIN rules : windows[t][i] \in Window
  BY <1>1 DEF IInv, TypeOK, Shape
<1>8. stamp[r] \in Nat /\ TypeOK
  BY DEF IInv, TypeOK
<1>9. ASSUME NEW i \in DOMAIN rules PROVE Decided(r, i) \in Window
  <2>1. WithRequest(windows[t][i], rules[i], r, stamp[r]) \in Window
    BY <1>6, <1>7, <1>8, WithRequestType
  <2>2. Rolled(windows[t][i], rules[i], stamp[r]) \in Window
    BY <1>6, <1>7, <1>8, RolledType
  <2> QED
    BY <1>7, <2>1, <2>2 DEF Decided
<1> DEFINE new == [i \in DOMAIN rules |-> Decided(r, i)]
<1>10. new \in Seq(Window)
  BY <1>6, <1>9, MapType
<1>11. /\ windows' \in [Tokens -> Seq(Window)] /\ windows'[t] = new
       /\ \A u \in Tokens \ {t} : windows'[u] = windows[u]
  <2> HIDE DEF new
  <2> QED
    BY <1>1, <1>5, <1>10 DEF IInv, TypeOK, new
<1>12. TypeOK'
  BY <1>2, <1>4, <1>11 DEF IInv, TypeOK
<1>13. Shape'
  <2>1. DOMAIN new = DOMAIN rules
    OBVIOUS
  <2> HIDE DEF new
  <2> QED
    BY <1>2, <1>11, <2>1 DEF IInv, TypeOK, Shape
<1>14. Timing'
  BY <1>1, <1>2, <1>4 DEF IInv, Timing, Timed, Unlimited
<1>15. \A u \in Tokens : Holders(u)' = Holders(u)
  BY <1>1, <1>2, <1>4 DEF Holders
<1>16. Counter'
  BY <1>2, <1>15 DEF IInv, Counter, ParallelIsHolders
<1>17. \A u \in Tokens \ {t} : Admitted(u)' = Admitted(u)
  BY <1>2, <1>4 DEF Admitted
<1>18. Admitted(t)' = IF over = {} THEN Admitted(t) \cup {r} ELSE Admitted(t)
  BY <1>1, <1>2, <1>4 DEF Admitted, Unlimited
<1>19. Forgotten'
  BY <1>1, <1>2, <1>17 DEF IInv, Forgotten
<1>20. ASSUME NEW u \in buckets \ {t}, NEW i \in DOMAIN limits[u].rules
       PROVE  RememberedBy(u, i)'
  <2>1. RememberedBy(u, i) /\ u \in Tokens
    BY DEF IInv, Remembered, TypeOK
  <2>2. Recent(u, limits[u].rules[i])' = Recent(u, limits[u].rules[i])
    BY <1>2, <1>17, <2>1 DEF Recent
  <2> QED
    BY <1>2, <1>11, <2>1, <2>2 DEF RememberedBy
<1>21. ASSUME NEW i \in DOMAIN rules PROVE RememberedBy(t, i)'
  <2> DEFINE rule == rules[i]
             w == windows[t][i]
  <2>1. RememberedBy(t, i) /\ rule \in Rule /\ w \in Window
    BY <1>1, <1>6, <1>7 DEF IInv, Remembered
  <2>2. windows'[t][i] = Decided(r, i)
    BY <1>11
  <2>3. SUFFICES ASSUME rule.requests > 0, ~rule.fixed
                 PROVE  /\ Cardinality(Decided(r, i).reqs) <= rule.requests
                        /\ rule.duration <= Kept =>
                             Recent(t, rule)' \subseteq Decided(r, i).reqs
    <3>1. Recent(t, limits[t].rules[i])' = Recent(t, rule)'
      BY <1>2 DEF Recent
    <3> QED
      BY <1>2, <2>2, <2>3, <3>1 DEF RememberedBy
  <2>4. /\ Cardinality(w.reqs) <= rule.requests
        /\ rule.duration <= Kept => Recent(t, rule) \subseteq w.reqs
    BY <2>1, <2>3 DEF RememberedBy
  <2>5. CASE over = {}
    <3>1. ~Exceeded(w, rule, stamp[r])
      BY <2>5
    <3>2. Decided(r, i) = WithRequest(w, rule, r, stamp[r])
      BY <2>5 DEF Decided
    <3>3. /\ Cardinality(Decided(r, i).reqs) <= rule.requests
          /\ r \in Decided(r, i).reqs
          /\ \A q \in w.reqs : stamp[q] > clock - rule.duration => q \in Decided(r, i).reqs
      BY <1>1, <2>3, <3>1, <3>2, AdmittedIsRemembered
    <3>4. \A q \in Recent(t, rule)' : q = r \/ q \in Recent(t, rule)
      BY <1>2, <1>18, <2>5 DEF Recent
    <3>5. \A q \in Recent(t, rule) : stamp[q] > clock - rule.duration
      BY DEF Recent
    <3> QED
      BY <2>4, <3>3, <3>4, <3>5
  <2>6. CASE over # {}
    <3>1. Decided(r, i).reqs = w.reqs
      BY <1>8, <2>1, <2>6, RolledType DEF Decided
    <3>2. Recent(t, rule)' = Recent(t, rule)
      BY <1>2, <1>18, <2>6 DEF Recent
    <3> QED
      BY <2>4, <3>1, <3>2
  <2> QED
    BY <2>5, <2>6
<1>22. Remembered'
  BY <1>1, <1>2, <1>20, <1>21 DEF Remembered
<1> QED
  BY <1>12, <1>13, <1>14, <1>16, <1>19, <1>22 DEF IInv

\* The requests in flight of a token can be counted.
LEMMA HoldersFinite ==
  ASSUME NEW t \in Tokens
  PROVE  IsFiniteSet(Holders(t)) /\ Cardinality(Holders(t)) \in Nat
<1>1. Holders(t) \in SUBSET Requests
  BY DEF Holders
<1> QED
  BY <1>1, RequestsAssumption, FS_Subset, FS_CardinalityType

\* A step that leaves the buckets alone, and who is admitted by them.
LEMMA SameBuckets ==
  ASSUME IInv, UNCHANGED <<clock, buckets, limits, windows, stamp>>,
         \A u \in Tokens : Admitted(u)' = Admitted(u)
  PROVE  Shape' /\ Remembered' /\ Forgotten'
<1>1. Shape' /\ Forgotten'
  BY DEF IInv, Shape, Forgotten
<1>2. ASSUME NEW u \in buckets, NEW i \in DOMAIN limits[u].rules PROVE RememberedBy(u, i)'
  <2>1. RememberedBy(u, i) /\ u \in Tokens
    BY DEF IInv, Remembered, TypeOK
  <2>2. Recent(u, limits[u].rules[i])' = Recent(u, limits[u].rules[i])
    BY <2>1 DEF Recent
  <2> QED
    BY <2>1, <2>2 DEF RememberedBy
<1> QED
  BY <1>1, <1>2 DEF Remembered

\* Acquire raises the counter by the one request it adds to those in flight.
LEMMA AcquireKeeps ==
  ASSUME IInv, NEW r \in Requests, Acquire(r)
  PROVE  IInv'
<1> DEFINE t == TokenOf[r]
           c == conf[r]
<1>1. t \in Tokens /\ pc[r] = "admitted"
  BY TokenOfAssumption DEF Acquire
<1>2. UNCHANGED <<clock, conf, stamp, used>> /\ pc' = [pc EXCEPT ![r] = "running"]
  BY DEF Acquire, Goto
<1>3. /\ pc' \in [Requests -> Place] /\ pc'[r] = "running"
      /\ \A q \in Requests \ {r} : pc'[q] = pc[q]
  BY <1>2 DEF IInv, TypeOK, Place
<1>4. \A u \in Tokens : Admitted(u)' = Admitted(u)
  BY <1>1, <1>2, <1>3 DEF Admitted
<1>5. c \in Configs \cup {NoConfig} /\ c.maxParallel \in Nat
  BY ConfigType DEF IInv, TypeOK
<1>6. CASE c.maxParallel = 0
  <2>1. UNCHANGED bucketVars
    BY <1>6 DEF Acquire
  <2>2. \A u \in Tokens : Holders(u)' = Holders(u)
    BY <1>1, <1>2, <1>3, <1>6 DEF Holders
  <2>3. TypeOK' /\ Counter'
    BY <1>2, <1>3, <2>1, <2>2 DEF IInv, TypeOK, Counter, ParallelIsHolders, bucketVars
  <2>4. Timing'
    BY <1>1, <1>2, <1>3, <2>1 DEF IInv, Timing, Timed, bucketVars, Unlimited
  <2>5. Shape' /\ Remembered' /\ Forgotten'
    BY <1>2, <1>4, <2>1, SameBuckets DEF bucketVars
  <2> QED
    BY <2>3, <2>4, <2>5 DEF IInv
<1>7. CASE c.maxParallel # 0
  <2>1. c \in Configs
    BY <1>5, <1>7 DEF NoConfig
  <2>2. GetBucket(t, c) /\ parallel' = [parallel EXCEPT ![t] = @ + 1]
    BY <1>7, KeptParallelIsParallel DEF Acquire
  <2>3. r \notin Holders(t) /\ Holders(t)' = Holders(t) \cup {r}
    BY <1>1, <1>2, <1>3, <1>5, <1>7 DEF Holders
  <2>4. \A u \in Tokens \ {t} : Holders(u)' = Holders(u)
    BY <1>2, <1>3 DEF Holders
  <2>5. parallel'[t] = parallel[t] + 1 /\ \A u \in Tokens \ {t} : parallel'[u] = parallel[u]
    BY <1>1, <2>2 DEF IInv, TypeOK
  <2>6. Cardinality(Holders(t)') = Cardinality(Holders(t)) + 1
    BY <1>1, <2>3, HoldersFinite, FS_AddElement
  <2>7. ParallelIsHolders'
    <3> SUFFICES ASSUME NEW u \in Tokens PROVE parallel'[u] = Cardinality(Holders(u)')
      BY DEF ParallelIsHolders
    <3>1. parallel[u] = Cardinality(Holders(u))
      BY DEF IInv, Counter, ParallelIsHolders
    <3> QED
      BY <2>4, <2>5, <2>6, <3>1
  <2>8. Counter'
    BY <1>1, <2>1, <2>2, <2>5, <2>7, GetBucketCounter DEF Counter
  <2>9. parallel' \in [Tokens -> Nat]
    <3>1. parallel \in [Tokens -> Nat] /\ parallel[t] + 1 \in Nat
      BY <1>1 DEF IInv, TypeOK
    <3> QED
      BY <1>1, <2>2, <3>1
  <2>10. TypeOK'
    BY <1>1, <1>2, <1>3, <2>1, <2>2, <2>9, GetBucketEffect DEF IInv, TypeOK
  <2>11. Shape'
    BY <1>1, <2>1, <2>2, GetBucketShape
  <2>12. Remembered' /\ Forgotten'
    BY <1>1, <1>2, <1>4, <2>1, <2>2, GetBucketMemory
  <2>13. Timing'
    <3>1. \A u \in Tokens : lastSeen'[u] <= clock' /\ lastSeen[u] <= lastSeen'[u]
      BY <1>1, <1>2, <2>1, <2>2, GetBucketSeen
    <3>2. ASSUME NEW q \in Requests
          PROVE  /\ TokenOf[q] \in Tokens /\ Timed(q) /\ stamp[q] \in Nat
                 /\ lastSeen[TokenOf[q]] \in Nat /\ lastSeen'[TokenOf[q]] \in Nat
                 /\ lastSeen[TokenOf[q]] <= lastSeen'[TokenOf[q]]
                 /\ stamp'[q] = stamp[q] /\ conf'[q] = conf[q]
      BY <1>2, <2>10, <3>1, TokenOfAssumption DEF IInv, TypeOK, Timing
    <3>3. ASSUME NEW q \in Requests \ {r} PROVE Timed(q)'
      <4>1. pc[q] \in {"looked", "allow"} => TokenOf[q] \in buckets'
        BY <1>1, <2>1, <2>2, GetBucketAllow
      <4> QED
        BY <1>2, <1>3, <3>2, <4>1, TimedStays
    <3>4. Timed(r)'
      <4> DEFINE old == lastSeen[TokenOf[r]]
                 new == lastSeen'[TokenOf[r]]
      <4>1. stamp[r] <= old + MaxStall => stamp[r] <= new + MaxStall
        <5>1. stamp[r] \in Nat /\ old \in Nat /\ new \in Nat /\ old <= new
          BY <3>2
        <5> HIDE DEF old, new
        <5> QED
          BY <5>1, KeptType
      <4> QED
        BY <1>1, <1>2, <1>3, <3>2, <4>1 DEF Timed, Unlimited
    <3> QED
      BY <3>1, <3>3, <3>4 DEF Timing
  <2> QED
    BY <2>8, <2>10, <2>11, <2>12, <2>13 DEF IInv
<1> QED
  BY <1>6, <1>7

\* Release finds the bucket that Acquire raised, and lowers it by the one request.
LEMMA ReleaseKeeps ==
  ASSUME IInv, NEW r \in Requests, Release(r)
  PROVE  IInv'
<1> DEFINE t == TokenOf[r]
<1>1. t \in Tokens /\ pc[r] = "running" /\ conf[r].maxParallel \in Nat
  BY TokenOfAssumption, ConfigType DEF Release, IInv, TypeOK
<1>2. UNCHANGED <<clock, lastGC, buckets, limits, lastSeen, windows, conf, stamp, used>>
  BY DEF Release
<1>3. pc' = [pc EXCEPT ![r] = "done"]
  BY DEF Release, Goto
<1>4. /\ pc' \in [Requests -> Place] /\ pc'[r] = "done"
      /\ \A q \in Requests \ {r} : pc'[q] = pc[q]
  BY <1>3 DEF IInv, TypeOK, Place
<1>5. \A u \in Tokens : Admitted(u)' = Admitted(u)
  BY <1>1, <1>2, <1>4 DEF Admitted
<1>6. Shape' /\ Remembered' /\ Forgotten'
  BY <1>2, <1>5, SameBuckets
<1>7. Timing'
  BY <1>1, <1>2, <1>4 DEF IInv, Timing, Timed, Unlimited
<1>8. CASE conf[r].maxParallel = 0
  <2>1. parallel' = parallel
    BY <1>8 DEF Release
  <2>2. \A u \in Tokens : Holders(u)' = Holders(u)
    BY <1>1, <1>2, <1>4, <1>8 DEF Holders
  <2>3. TypeOK' /\ Counter'
    BY <1>2, <1>4, <2>1, <2>2 DEF IInv, TypeOK, Counter, ParallelIsHolders
  <2> QED
    BY <1>6, <1>7, <2>3 DEF IInv
<1>9. CASE conf[r].maxParallel # 0
  <2>1. r \in Holders(t) /\ Holders(t)' = Holders(t) \ {r}
    BY <1>1, <1>2, <1>4, <1>9 DEF Holders
  <2>2. \A u \in Tokens \ {t} : Holders(u)' = Holders(u)
    BY <1>2, <1>4 DEF Holders
  <2>3. Cardinality(Holders(t)') = Cardinality(Holders(t)) - 1
    BY <1>1, <2>1, HoldersFinite, FS_RemoveElement
  <2>4. IsFiniteSet(Holders(t)') /\ Cardinality(Holders(t)') \in Nat
    BY <1>1, <2>1, HoldersFinite, FS_RemoveElement, FS_CardinalityType
  <2>5. parallel[t] = Cardinality(Holders(t)) /\ Cardinality(Holders(t)) \in Nat
    BY <1>1, HoldersFinite DEF IInv, Counter, ParallelIsHolders
  <2>6. t \in buckets
    BY <1>1, <2>3, <2>4, <2>5 DEF IInv, Counter
  <2>7. parallel' = [parallel EXCEPT ![t] = @ - 1]
    BY <1>9, <2>6 DEF Release
  <2>8. parallel'[t] = parallel[t] - 1 /\ \A u \in Tokens \ {t} : parallel'[u] = parallel[u]
    BY <1>1, <2>7 DEF IInv, TypeOK
  <2>9. parallel[t] - 1 \in Nat
    BY <2>3, <2>4, <2>5
  <2>10. parallel' \in [Tokens -> Nat]
    BY <2>7, <2>9 DEF IInv, TypeOK
  <2>11. TypeOK'
    BY <1>2, <1>4, <2>10 DEF IInv, TypeOK
  <2>12. ParallelIsHolders'
    <3> SUFFICES ASSUME NEW u \in Tokens PROVE parallel'[u] = Cardinality(Holders(u)')
      BY DEF ParallelIsHolders
    <3>1. parallel[u] = Cardinality(Holders(u))
      BY DEF IInv, Counter, ParallelIsHolders
    <3> QED
      BY <2>2, <2>3, <2>8, <3>1
  <2>13. Counter'
    BY <1>2, <2>6, <2>8, <2>12 DEF IInv, Counter
  <2> QED
    BY <1>6, <1>7, <2>11, <2>13 DEF IInv
<1> QED
  BY <1>8, <1>9

\* Reporting tokens touches no count of requests.
LEMMA RecordTokensKeeps ==
  ASSUME IInv, NEW r \in Requests, NEW n \in Counts, RecordTokens(r, n)
  PROVE  IInv'
<1> DEFINE t == TokenOf[r]
           k == Len(used[r]) + 1
           rules == limits[t].rules
           new == [i \in DOMAIN rules |-> WithTokens(windows[t][i], rules[i], r, k, n, clock)]
<1>1. t \in Tokens /\ n \in Nat /\ clock \in Nat /\ k <= 2
  BY TokenOfAssumption, CountsAssumption DEF RecordTokens, IInv, TypeOK
<1>2. UNCHANGED <<clock, lastGC, buckets, limits, parallel, lastSeen, pc, conf, stamp>>
  BY DEF RecordTokens
<1>3. used[r] \in Seq([n: Counts, at: Nat])
  BY DEF IInv, TypeOK
<1>4. k \in {1, 2}
  BY <1>1, <1>3
<1>5. used' \in [Requests -> Seq([n: Counts, at: Nat])]
  <2>1. [n |-> n, at |-> clock] \in [n: Counts, at: Nat]
    BY <1>1
  <2>2. Append(used[r], [n |-> n, at |-> clock]) \in Seq([n: Counts, at: Nat])
    BY <1>3, <2>1
  <2>3. used \in [Requests -> Seq([n: Counts, at: Nat])]
    BY DEF IInv, TypeOK
  <2>4. used' = [used EXCEPT ![r] = Append(used[r], [n |-> n, at |-> clock])]
    BY DEF RecordTokens
  <2> QED
    BY <2>2, <2>3, <2>4
<1>6. /\ windows' \in [Tokens -> Seq(Window)]
      /\ \A u \in buckets : DOMAIN windows'[u] = DOMAIN windows[u]
      /\ \A u \in buckets : \A i \in DOMAIN windows[u] : windows'[u][i].reqs = windows[u][i].reqs
  <2>1. windows \in [Tokens -> Seq(Window)] /\ buckets \subseteq Tokens
    BY DEF IInv, TypeOK
  <2>2. CASE conf[r].rules = <<>> \/ t \notin buckets
    BY <2>1, <2>2 DEF RecordTokens
  <2>3. CASE ~(conf[r].rules = <<>> \/ t \notin buckets)
    <3>1. windows' = [windows EXCEPT ![t] = new]
      BY <2>3 DEF RecordTokens
    <3>2. t \in buckets /\ limits[t] \in Configs \cup {NoConfig}
      BY <1>1, <2>3 DEF IInv, TypeOK
    <3>3. DOMAIN rules = 1..Len(rules) /\ Len(rules) \in Nat
      BY <3>2, RulesType
    <3>4. ASSUME NEW i \in DOMAIN rules PROVE SameRequests(new[i], windows[t][i])
      <4>1. rules[i] \in Rule /\ windows[t][i] \in Window
        BY <3>2, BucketTypes
      <4>2. new[i] = WithTokens(windows[t][i], rules[i], r, k, n, clock)
        OBVIOUS
      <4>3. n \in Nat /\ clock \in Nat
        BY <1>1
      <4> HIDE DEF k, rules, new
      <4> QED
        BY <1>4, <4>1, <4>2, <4>3, WithTokensType
    <3>5. DOMAIN new = DOMAIN rules /\ new = [i \in DOMAIN rules |-> new[i]]
      OBVIOUS
    <3>6. DOMAIN windows[t] = DOMAIN rules
      BY <3>2 DEF IInv, Shape
    <3> HIDE DEF new
    <3>7. new \in Seq(Window)
      BY <3>3, <3>4, <3>5, MapType DEF SameRequests
    <3> QED
      BY <1>1, <2>1, <3>1, <3>4, <3>5, <3>6, <3>7 DEF SameRequests
  <2> QED
    BY <2>2, <2>3
<1>7. TypeOK'
  BY <1>2, <1>5, <1>6 DEF IInv, TypeOK
<1>8. Shape'
  BY <1>2, <1>6 DEF IInv, Shape
<1>9. Timing'
  BY <1>2 DEF IInv, Timing, Timed, Unlimited
<1>10. \A u \in Tokens : Holders(u)' = Holders(u) /\ Admitted(u)' = Admitted(u)
  BY <1>2 DEF Holders, Admitted
<1>11. Counter'
  BY <1>2, <1>10 DEF IInv, Counter, ParallelIsHolders
<1>12. Forgotten'
  BY <1>2, <1>10 DEF IInv, Forgotten
<1>13. ASSUME NEW u \in buckets, NEW i \in DOMAIN limits[u].rules PROVE RememberedBy(u, i)'
  <2>1. RememberedBy(u, i) /\ u \in Tokens /\ i \in DOMAIN windows[u]
    BY DEF IInv, Remembered, Shape, TypeOK
  <2>2. Recent(u, limits[u].rules[i])' = Recent(u, limits[u].rules[i])
    BY <1>2, <1>10, <2>1 DEF Recent
  <2>3. windows'[u][i].reqs = windows[u][i].reqs
    BY <1>6, <2>1
  <2> QED
    BY <1>2, <2>1, <2>2, <2>3 DEF RememberedBy
<1>14. Remembered'
  BY <1>2, <1>13 DEF Remembered
<1> QED
  BY <1>7, <1>8, <1>9, <1>11, <1>12, <1>14 DEF IInv

\* Time only makes what was admitted older.
LEMMA TickKeeps ==
  ASSUME IInv, Tick
  PROVE  IInv'
<1>1. clock \in Nat /\ clock' = clock + 1
  BY DEF Tick, IInv, TypeOK
<1>2. UNCHANGED <<lastGC, buckets, limits, parallel, lastSeen, windows, pc, conf, stamp, used>>
  BY DEF Tick, bucketVars
<1>3. TypeOK' /\ Shape'
  <2>1. clock' \in Nat
    BY <1>1
  <2>2. Shape'
    BY <1>2 DEF IInv, Shape
  <2> QED
    BY <1>2, <2>1, <2>2 DEF IInv, TypeOK
<1>4. \A u \in Tokens : Holders(u)' = Holders(u) /\ Admitted(u)' = Admitted(u)
  BY <1>2 DEF Holders, Admitted
<1>5. Counter'
  BY <1>2, <1>4 DEF IInv, Counter, ParallelIsHolders
<1>6. Timing'
  <2>1. \A u \in Tokens : lastSeen[u] \in Nat /\ lastSeen[u] <= clock
    BY DEF IInv, TypeOK, Timing
  <2>2. ASSUME NEW q \in Requests
        PROVE  /\ stamp[q] <= clock + 1
               /\ pc[q] \in {"looked", "allow", "admitted"} => clock + 1 - stamp[q] <= MaxStall
    <3>1. stamp[q] \in Nat /\ stamp[q] <= clock
      BY DEF IInv, TypeOK, Timing, Timed
    <3>2. pc[q] \in {"looked", "allow", "admitted"} => clock - stamp[q] < MaxStall
      BY DEF Tick
    <3> QED
      BY <1>1, <3>1, <3>2, TimeAssumption
  <2>3. \A u \in Tokens : lastSeen'[u] <= clock'
    BY <1>1, <1>2, <2>1
  <2>4. ASSUME NEW q \in Requests
        PROVE  /\ stamp'[q] <= clock'
               /\ pc'[q] \in {"looked", "allow", "admitted"} => clock' - stamp'[q] <= MaxStall
    <3>1. stamp'[q] = stamp[q] /\ pc'[q] = pc[q]
      BY <1>2
    <3>2. stamp[q] \in Nat /\ MaxStall \in Nat
      BY TimeAssumption DEF IInv, TypeOK
    <3> QED
      BY <1>1, <2>2, <3>1, <3>2
  <2>5. \A q \in Requests :
          /\ pc'[q] = "looked" => stamp'[q] <= lastSeen'[TokenOf[q]]
          /\ pc'[q] # "new" /\ ~Unlimited(conf'[q]) =>
               stamp'[q] <= lastSeen'[TokenOf[q]] + MaxStall
          /\ pc'[q] \in {"looked", "allow"} => TokenOf[q] \in buckets' /\ ~Unlimited(conf'[q])
    BY <1>2 DEF IInv, Timing, Timed, Unlimited
  <2> QED
    BY <2>3, <2>4, <2>5 DEF Timing, Timed, Unlimited
<1>7. Forgotten'
  <2> SUFFICES ASSUME NEW u \in Tokens \ buckets, NEW q \in Admitted(u)
               PROVE  clock + 1 - stamp[q] > Kept
    <3> SUFFICES ASSUME NEW u \in Tokens \ buckets', NEW q \in Admitted(u)'
                 PROVE  clock' - stamp'[q] > Kept
      BY DEF Forgotten
    <3>1. u \in Tokens \ buckets /\ q \in Admitted(u) /\ stamp'[q] = stamp[q]
      BY <1>2, <1>4
    <3>2. stamp[q] \in Nat
      BY <3>1 DEF Admitted, IInv, TypeOK
    <3> QED
      BY <1>1, <3>1, <3>2, KeptType
  <2>1. clock - stamp[q] > Kept
    BY DEF IInv, Forgotten
  <2>2. stamp[q] \in Nat
    BY DEF Admitted, IInv, TypeOK
  <2> QED
    BY <1>1, <2>1, <2>2, KeptType
<1>8. ASSUME NEW u \in buckets, NEW i \in DOMAIN limits[u].rules PROVE RememberedBy(u, i)'
  <2> DEFINE rule == limits[u].rules[i]
  <2>1. RememberedBy(u, i) /\ u \in Tokens
    BY DEF IInv, Remembered, TypeOK
  <2>2. rule.duration \in Nat
    BY BucketTypes, RuleType
  <2>3. ASSUME NEW q \in Admitted(u), stamp[q] > clock + 1 - rule.duration
        PROVE  stamp[q] > clock - rule.duration
    <3>1. stamp[q] \in Nat
      BY DEF Admitted, IInv, TypeOK
    <3> QED
      BY <1>1, <2>2, <2>3, <3>1
  <2>4. Recent(u, rule)' \subseteq Recent(u, rule)
    <3> SUFFICES ASSUME NEW q \in Recent(u, rule)' PROVE q \in Recent(u, rule)
      OBVIOUS
    <3>1. q \in Admitted(u)' /\ stamp'[q] > clock' - rule'.duration
      BY DEF Recent
    <3>2. q \in Admitted(u) /\ stamp'[q] = stamp[q] /\ rule' = rule
      BY <1>2, <1>4, <2>1, <3>1
    <3>3. stamp[q] \in Nat
      BY <3>2 DEF Admitted, IInv, TypeOK
    <3>4. stamp[q] > clock + 1 - rule.duration
      BY <1>1, <2>2, <3>1, <3>2, <3>3
    <3> QED
      BY <1>1, <2>2, <2>3, <3>2, <3>3, <3>4 DEF Recent
  <2> QED
    BY <1>2, <2>1, <2>4 DEF RememberedBy
<1>9. Remembered'
  BY <1>2, <1>8 DEF Remembered
<1> QED
  BY <1>3, <1>5, <1>6, <1>7, <1>9 DEF IInv

----------------------------------------------------------------------------
(* The invariant, and what follows from it.                                *)

\* Initially there is no bucket and no request has read anything.
LEMMA InitIInv == Init => IInv
<1> SUFFICES ASSUME Init PROVE IInv
  OBVIOUS
<1>1. TypeOK
  <2>1. <<>> \in Seq(Window) /\ <<>> \in Seq([n: Counts, at: Nat])
    OBVIOUS
  <2>2. 0 - GCInterval \in Int
    BY TimeAssumption
  <2> QED
    BY <2>1, <2>2 DEF Init, TypeOK, Place
<1>2. Shape /\ Remembered
  BY DEF Init, Shape, Remembered
<1>3. \A r \in Requests : pc[r] = "new" /\ stamp[r] = 0
  BY DEF Init
<1>4. Timing
  BY <1>3, TokenOfAssumption, TimeAssumption DEF Init, Timing, Timed
<1>5. \A t \in Tokens : Holders(t) = {} /\ Admitted(t) = {}
  BY <1>3 DEF Holders, Admitted
<1>6. Counter
  BY <1>5, FS_EmptySet DEF Init, Counter, ParallelIsHolders
<1>7. Forgotten
  BY <1>5 DEF Forgotten
<1> QED
  BY <1>1, <1>2, <1>4, <1>6, <1>7 DEF IInv

\* Every step keeps the invariant.
LEMMA NextIInv == IInv /\ [Next]_vars => IInv'
<1> SUFFICES ASSUME IInv, [Next]_vars PROVE IInv'
  OBVIOUS
<1>1. CASE Tick
  BY <1>1, TickKeeps
<1>2. ASSUME NEW r \in Requests, NEW c \in Configs, AllowEnter(r, c) PROVE IInv'
  BY <1>2, AllowEnterKeeps
<1>3. ASSUME NEW r \in Requests, AllowDecide(r) PROVE IInv'
  BY <1>3, AllowDecideKeeps
<1>4. ASSUME NEW r \in Requests, Acquire(r) PROVE IInv'
  BY <1>4, AcquireKeeps
<1>5. ASSUME NEW r \in Requests, NEW n \in Counts, RecordTokens(r, n) PROVE IInv'
  BY <1>5, RecordTokensKeeps
<1>6. ASSUME NEW r \in Requests, Release(r) PROVE IInv'
  BY <1>6, ReleaseKeeps
<1>7. CASE UNCHANGED vars
  <2>1. UNCHANGED <<clock, lastGC, buckets, limits, parallel, lastSeen, windows, pc, conf,
                    stamp, used>>
    BY <1>7 DEF vars, bucketVars
  <2>2. \A u \in Tokens : Holders(u)' = Holders(u) /\ Admitted(u)' = Admitted(u)
    BY <2>1 DEF Holders, Admitted
  <2>3. Shape' /\ Remembered' /\ Forgotten'
    BY <2>1, <2>2, SameBuckets
  <2>4. TypeOK' /\ Timing' /\ Counter'
    BY <2>1, <2>2 DEF IInv, TypeOK, Timing, Timed, Unlimited, Counter, ParallelIsHolders
  <2> QED
    BY <2>3, <2>4 DEF IInv
<1>8. ASSUME NEW r \in Requests, AllowRead(r) PROVE IInv'
  BY <1>8, AllowReadKeeps
<1> QED
  BY <1>1, <1>2, <1>3, <1>4, <1>5, <1>6, <1>7, <1>8 DEF Next

\* The invariant holds of every reachable state.
LEMMA Invariance == Spec => []IInv
<1>1. Init => IInv
  BY InitIInv
<1>2. IInv /\ [Next]_vars => IInv'
  BY NextIInv
<1> QED
  BY <1>1, <1>2, PTL DEF Spec

\* Every variable of the limiter keeps its type; in particular the parallel counter
\* that Acquire raises and Release lowers never goes below zero.
THEOREM TypeCorrect == Spec => []TypeOK
<1>1. IInv => TypeOK
  BY DEF IInv
<1> QED
  BY <1>1, Invariance, PTL

\* The parallel counter of a token is the number of its requests between Acquire and
\* Release, whatever the order of the requests, the collection of buckets and the
\* policies the requests resolve to.
THEOREM CounterExact == Spec => []ParallelIsHolders
<1>1. IInv => ParallelIsHolders
  BY DEF IInv, Counter
<1> QED
  BY <1>1, Invariance, PTL

\* If no window is longer than an idle bucket is kept, less the stall by which getBucket
\* may stamp it before Allow reads its own time, a sliding rule never lets more requests
\* through in the length of its window than it allows.
THEOREM SlidingWindows == ASSUME ShortWindows PROVE Spec => []SlidingBound
<1>1. IInv => SlidingBound
  <2> SUFFICES ASSUME IInv, NEW t \in buckets, NEW i \in DOMAIN limits[t].rules,
                      limits[t].rules[i].requests > 0, ~limits[t].rules[i].fixed
               PROVE  Cardinality(Recent(t, limits[t].rules[i])) <= limits[t].rules[i].requests
    BY DEF SlidingBound
  <2> DEFINE rule == limits[t].rules[i]
             reqs == windows[t][i].reqs
  <2>1. rule.requests \in Nat /\ reqs \subseteq Requests
    BY BucketTypes, RuleType DEF Window
  <2>2. limits[t] \in Configs \cup {NoConfig}
    BY DEF IInv, TypeOK
  <2>3. limits[t] \in Configs
    BY <2>2 DEF NoConfig
  <2>4. rule.duration <= Kept
    BY <2>3 DEF ShortWindows
  <2>5. Cardinality(reqs) <= rule.requests /\ Recent(t, rule) \subseteq reqs
    BY <2>4 DEF IInv, Remembered, RememberedBy
  <2>6. IsFiniteSet(reqs)
    BY <2>1, RequestsAssumption, FS_Subset
  <2>7. Cardinality(Recent(t, rule)) <= Cardinality(reqs) /\ IsFiniteSet(Recent(t, rule))
    BY <2>5, <2>6, FS_Subset
  <2>8. Cardinality(reqs) \in Nat /\ Cardinality(Recent(t, rule)) \in Nat
    BY <2>6, <2>7, FS_CardinalityType
  <2> QED
    BY <2>1, <2>5, <2>7, <2>8
<1> QED
  BY <1>1, Invariance, PTL

----------------------------------------------------------------------------
(* Fixed windows.                                                          *)

\* The numbers in a window.
LEMMA WindowType ==
  ASSUME NEW w \in Window
  PROVE  w.start \in Int /\ w.nreq \in Nat /\ w.ntok \in Nat
  BY DEF Window

\* Fewer requests, later, and a window that differs in nothing that counts requests.
LEMMA TwoWindowsFewer ==
  ASSUME NEW w \in Window, NEW v \in Window, NEW rule \in Rule,
         NEW R \in SUBSET Requests, NEW S \in SUBSET R,
         NEW now \in Nat, NEW later \in Nat, now <= later,
         NEW time, NEW after, \A q \in S : after[q] = time[q],
         v.start = w.start, v.nreq = w.nreq, TwoWindows(w, rule, R, now, time)
  PROVE  TwoWindows(v, rule, S, later, after)
<1>1. w.start \in Int /\ w.nreq \in Nat /\ rule.requests \in Nat
  BY WindowType, RuleType
<1>2. v.start <= later /\ v.nreq <= rule.requests
  BY <1>1 DEF TwoWindows
<1>3. PICK A \in SUBSET R : \E B \in SUBSET R :
        /\ R = A \cup B
        /\ Cardinality(A) <= rule.requests /\ Cardinality(B) <= w.nreq
        /\ \A q \in A : time[q] < w.start
        /\ \A q \in B : time[q] < w.start + rule.duration
  BY DEF TwoWindows
<1>4. PICK B \in SUBSET R :
        /\ R = A \cup B
        /\ Cardinality(A) <= rule.requests /\ Cardinality(B) <= w.nreq
        /\ \A q \in A : time[q] < w.start
        /\ \A q \in B : time[q] < w.start + rule.duration
  BY <1>3
<1>5. IsFiniteSet(A) /\ IsFiniteSet(B)
  BY RequestsAssumption, FS_Subset
<1>6. Cardinality(A \cap S) <= Cardinality(A) /\ Cardinality(B \cap S) <= Cardinality(B)
      /\ IsFiniteSet(A \cap S) /\ IsFiniteSet(B \cap S)
  BY <1>5, FS_Subset
<1>7. Cardinality(A) \in Nat /\ Cardinality(B) \in Nat
      /\ Cardinality(A \cap S) \in Nat /\ Cardinality(B \cap S) \in Nat
  BY <1>5, <1>6, FS_CardinalityType
<1>8. Cardinality(A \cap S) <= rule.requests /\ Cardinality(B \cap S) <= v.nreq
  BY <1>1, <1>4, <1>6, <1>7
<1>9. A \cap S \in SUBSET S /\ B \cap S \in SUBSET S /\ S = (A \cap S) \cup (B \cap S)
  BY <1>4
<1>10. /\ \A q \in A \cap S : after[q] < v.start
       /\ \A q \in B \cap S : after[q] < v.start + rule.duration
  BY <1>4
<1> QED
  BY <1>2, <1>8, <1>9, <1>10 DEF TwoWindows

\* Starting the window again at a time in which it is over: what it let through is
\* now the predecessor's, and what the predecessor let through is too old to count.
LEMMA TwoWindowsRolled ==
  ASSUME NEW w \in Window, NEW rule \in Rule, NEW R \in SUBSET Requests,
         NEW now \in Nat, NEW at \in Nat, at <= now, NEW time \in [Requests -> Nat],
         \A q \in R : time[q] > now - rule.duration,
         rule.fixed, rule.requests > 0, TwoWindows(w, rule, R, now, time)
  PROVE  /\ Rolled(w, rule, at) \in Window
         /\ TwoWindows(Rolled(w, rule, at), rule, R, now, time)
         /\ at < Rolled(w, rule, at).start + rule.duration
<1> DEFINE v == Rolled(w, rule, at)
<1>1. v \in Window
  BY RolledType
<1>2. w.start \in Int /\ w.nreq \in Nat /\ rule.requests \in Nat /\ rule.tokens \in Nat
      /\ rule.duration \in Nat /\ rule.duration > 0
  BY WindowType, RuleType DEF Rule
<1>3. CASE at - w.start >= rule.duration
  <2>1. v.start = at /\ v.nreq = 0
    BY <1>2, <1>3 DEF Rolled
  <2>2. PICK A \in SUBSET R : \E B \in SUBSET R :
          /\ R = A \cup B
          /\ Cardinality(A) <= rule.requests /\ Cardinality(B) <= w.nreq
          /\ \A q \in A : time[q] < w.start
          /\ \A q \in B : time[q] < w.start + rule.duration
    BY DEF TwoWindows
  <2>3. PICK B \in SUBSET R :
          /\ R = A \cup B
          /\ Cardinality(B) <= w.nreq
          /\ \A q \in A : time[q] < w.start
          /\ \A q \in B : time[q] < w.start + rule.duration
    BY <2>2
  <2>4. ASSUME NEW q \in A PROVE FALSE
    <3>1. q \in Requests /\ time[q] \in Nat /\ time[q] < w.start /\ time[q] > now - rule.duration
      BY <2>3
    <3> QED
      BY <1>2, <1>3, <3>1
  <2>5. R = B \cup {} /\ B \in SUBSET R /\ {} \in SUBSET R
    BY <2>3, <2>4
  <2>6. Cardinality(B) <= rule.requests
    <3>1. IsFiniteSet(B)
      BY RequestsAssumption, FS_Subset
    <3>2. Cardinality(B) \in Nat
      BY <3>1, FS_CardinalityType
    <3>3. w.nreq <= rule.requests
      BY DEF TwoWindows
    <3> QED
      BY <1>2, <2>3, <3>2, <3>3
  <2>7. Cardinality({}) <= v.nreq
    BY <2>1, FS_EmptySet
  <2>8. ASSUME NEW q \in B PROVE time[q] < v.start
    <3>1. q \in Requests /\ time[q] \in Nat /\ time[q] < w.start + rule.duration
      BY <2>3
    <3> QED
      BY <1>2, <1>3, <2>1, <3>1
  <2>9. v.start <= now /\ v.nreq <= rule.requests /\ at < v.start + rule.duration
    BY <1>2, <2>1
  <2> HIDE DEF v
  <2>10. TwoWindows(v, rule, R, now, time)
    BY <2>5, <2>6, <2>7, <2>8, <2>9 DEF TwoWindows
  <2> QED
    BY <1>1, <2>9, <2>10 DEF v
<1>4. CASE ~(at - w.start >= rule.duration)
  <2>1. v = w
    BY <1>4 DEF Rolled
  <2>2. at < w.start + rule.duration
    BY <1>2, <1>4
  <2> QED
    BY <1>1, <2>1, <2>2
<1> QED
  BY <1>3, <1>4

\* A window with room for it lets one more request through before it ends.
LEMMA TwoWindowsAdmit ==
  ASSUME NEW w \in Window, NEW rule \in Rule, NEW R \in SUBSET Requests,
         NEW r \in Requests, NEW now \in Nat, NEW time,
         TwoWindows(w, rule, R, now, time),
         ~(w.nreq >= rule.requests), time[r] < w.start + rule.duration
  PROVE  TwoWindows([w EXCEPT !.nreq = @ + 1], rule, R \cup {r}, now, time)
<1> DEFINE v == [w EXCEPT !.nreq = @ + 1]
           T == R \cup {r}
<1>1. w.nreq \in Nat /\ rule.requests \in Nat
  BY WindowType, RuleType
<1>2. v.start = w.start /\ v.nreq = w.nreq + 1
  BY DEF Window
<1>3. PICK A \in SUBSET R : \E B \in SUBSET R :
        /\ R = A \cup B
        /\ Cardinality(A) <= rule.requests /\ Cardinality(B) <= w.nreq
        /\ \A q \in A : time[q] < w.start
        /\ \A q \in B : time[q] < w.start + rule.duration
  BY DEF TwoWindows
<1>4. PICK B \in SUBSET R :
        /\ R = A \cup B
        /\ Cardinality(A) <= rule.requests /\ Cardinality(B) <= w.nreq
        /\ \A q \in A : time[q] < w.start
        /\ \A q \in B : time[q] < w.start + rule.duration
  BY <1>3
<1>5. IsFiniteSet(B) /\ Cardinality(B) \in Nat
  BY RequestsAssumption, FS_Subset, FS_CardinalityType
<1>6. Cardinality(B \cup {r}) <= w.nreq + 1
  <2>1. Cardinality(B \cup {r}) = IF r \in B THEN Cardinality(B) ELSE Cardinality(B) + 1
    BY <1>5, FS_AddElement
  <2> QED
    BY <1>1, <1>4, <1>5, <2>1
<1>7. v.start <= now /\ v.nreq <= rule.requests
  BY <1>1, <1>2 DEF TwoWindows
<1>8. A \in SUBSET T /\ B \cup {r} \in SUBSET T /\ T = A \cup (B \cup {r})
  BY <1>4
<1>9. /\ Cardinality(A) <= rule.requests /\ Cardinality(B \cup {r}) <= v.nreq
      /\ \A q \in A : time[q] < v.start
      /\ \A q \in B \cup {r} : time[q] < v.start + rule.duration
  BY <1>2, <1>4, <1>6
<1> HIDE DEF v, T
<1>10. TwoWindows(v, rule, T, now, time)
  BY <1>7, <1>8, <1>9 DEF TwoWindows
<1> QED
  BY <1>10 DEF v, T

\* A rule of a bucket whose requests are the same, or fewer for being older.
LEMMA BurstStays ==
  ASSUME IInv, IInv', clock <= clock', NEW u \in buckets, u \in buckets',
         NEW i \in DOMAIN limits[u].rules, BurstBy(u, i),
         limits'[u] = limits[u], windows'[u][i].start = windows[u][i].start,
         windows'[u][i].nreq = windows[u][i].nreq,
         \A q \in Admitted(u)' : q \in Admitted(u) /\ stamp'[q] = stamp[q]
  PROVE  BurstBy(u, i)'
<1> DEFINE rule == limits[u].rules[i]
           R == Recent(u, rule)
           S == {q \in Admitted(u)' : stamp'[q] > clock' - rule.duration}
<1>1. u \in Tokens /\ clock \in Nat /\ clock' \in Nat
  BY DEF IInv, TypeOK
<1>2. rule \in Rule /\ windows[u][i] \in Window
  BY BucketTypes
<1>3. windows'[u][i] \in Window
  <2>1. DOMAIN windows'[u] = DOMAIN limits'[u].rules /\ windows' \in [Tokens -> Seq(Window)]
    BY DEF IInv, Shape, TypeOK
  <2>2. i \in DOMAIN windows'[u] /\ windows'[u] \in Seq(Window)
    BY <1>1, <2>1
  <2> QED
    BY <2>2
<1>4. Recent(u, limits[u].rules[i])' = S
  BY <1>1 DEF Recent
<1>5. R \in SUBSET Requests /\ S \in SUBSET R /\ \A q \in S : stamp'[q] = stamp[q]
  <2>1. Admitted(u) \subseteq Requests
    BY DEF Admitted
  <2>2. ASSUME NEW q \in S PROVE q \in R
    <3>1. q \in Admitted(u) /\ stamp'[q] = stamp[q] /\ stamp'[q] > clock' - rule.duration
      OBVIOUS
    <3>2. stamp[q] \in Nat /\ rule.duration \in Nat
      BY <1>2, <2>1, <3>1, RuleType DEF IInv, TypeOK
    <3>3. stamp[q] > clock - rule.duration
      BY <1>1, <3>1, <3>2
    <3> QED
      BY <3>1, <3>3 DEF Recent
  <2> QED
    BY <2>1, <2>2 DEF Recent
<1>6. ASSUME rule.requests > 0, rule.fixed, rule.duration <= Kept
      PROVE  TwoWindows(windows'[u][i], rule, S, clock', stamp')
  <2>1. TwoWindows(windows[u][i], rule, R, clock, stamp)
    BY <1>6 DEF BurstBy
  <2> HIDE DEF rule, R, S
  <2> QED
    BY <1>1, <1>2, <1>3, <1>5, <2>1, TwoWindowsFewer
<1>7. limits'[u].rules[i] = rule
  OBVIOUS
<1> HIDE DEF S, R
<1> QED
  BY <1>4, <1>6, <1>7 DEF BurstBy

\* getBucket: a bucket that is kept has its windows, one that is created counts
\* nothing, and nothing that its token admitted is as young as a window.
LEMMA GetBucketBursts ==
  ASSUME IInv, IInv', Bursts, NEW t \in Tokens, NEW c \in Configs, GetBucket(t, c),
         clock' = clock,
         \A u \in Tokens : \A q \in Admitted(u)' : q \in Admitted(u) /\ stamp'[q] = stamp[q]
  PROVE  Bursts'
<1> SUFFICES ASSUME NEW u \in buckets', NEW i \in DOMAIN limits'[u].rules PROVE BurstBy(u, i)'
  BY DEF Bursts
<1>1. clock \in Nat /\ clock' = clock /\ u \in Tokens
  BY GetBucketEffect DEF IInv, TypeOK
<1>2. CASE u \in buckets \ Stale
  <2>1. limits'[u] = limits[u] /\ windows'[u] = windows[u] /\ u \in buckets
    BY <1>2, GetBucketEffect
  <2>2. BurstBy(u, i)
    BY <2>1 DEF Bursts
  <2>3. \A q \in Admitted(u)' : q \in Admitted(u) /\ stamp'[q] = stamp[q]
    BY <1>1
  <2>4. clock <= clock' /\ i \in DOMAIN limits[u].rules
    BY <1>1, <2>1
  <2> QED
    BY <2>1, <2>2, <2>3, <2>4, BurstStays
<1>3. CASE u \notin buckets \ Stale
  <2> DEFINE rule == c.rules[i]
             S == {q \in Admitted(u)' : stamp'[q] > clock' - rule.duration}
  <2>1. u = t
    BY <1>3, GetBucketEffect
  <2>2. limits'[u] = c /\ windows'[u] = [j \in DOMAIN c.rules |-> NewWindow(c.rules[j])]
    BY <1>3, <2>1, GetBucketEffect
  <2>3. rule \in Rule /\ windows'[u][i] = NewWindow(rule) /\ limits'[u].rules[i] = rule
    BY <2>2, RulesType
  <2>4. rule.duration \in Nat /\ rule.requests \in Nat
    BY <2>3, RuleType
  <2>5. ASSUME rule.duration <= Kept, NEW q \in S PROVE FALSE
    <3>1. q \in Admitted(u) /\ stamp'[q] = stamp[q] /\ stamp'[q] > clock' - rule.duration
      BY <1>1
    <3>2. clock - stamp[q] > Kept
      BY <1>1, <1>3, <3>1, ForgottenIsOld
    <3>3. stamp[q] \in Nat
      BY <3>1 DEF Admitted, IInv, TypeOK
    <3> QED
      BY <1>1, <2>4, <2>5, <3>1, <3>2, <3>3, KeptType
  <2>6. Recent(u, limits[u].rules[i])' = S
    BY <1>1, <2>3 DEF Recent
  <2>7. ASSUME rule.duration <= Kept
        PROVE  TwoWindows(NewWindow(rule), rule, S, clock', stamp')
    <3>1. S = {}
      BY <2>5, <2>7
    <3>2. {} \in SUBSET {} /\ {} = {} \cup {} /\ Cardinality({}) = 0
      BY FS_EmptySet
    <3>3. NewWindow(rule).start = 0 - rule.duration /\ NewWindow(rule).nreq = 0
      BY DEF NewWindow
    <3>4. NewWindow(rule).start <= clock' /\ NewWindow(rule).nreq <= rule.requests
      BY <1>1, <2>4, <3>3
    <3>5. Cardinality({}) <= rule.requests /\ Cardinality({}) <= NewWindow(rule).nreq
      BY <2>4, <3>2, <3>3
    <3> HIDE DEF rule, S
    <3> QED
      BY <3>1, <3>2, <3>4, <3>5 DEF TwoWindows
  <2> HIDE DEF S
  <2> QED
    BY <2>3, <2>6, <2>7 DEF BurstBy
<1> QED
  BY <1>2, <1>3

\* A step that admits nobody and leaves each bucket's limits and request counts.
LEMMA SameBursts ==
  ASSUME IInv, IInv', Bursts, clock <= clock', buckets' = buckets, limits' = limits,
         windows' = windows,
         \A u \in Tokens : \A q \in Admitted(u)' : q \in Admitted(u) /\ stamp'[q] = stamp[q]
  PROVE  Bursts'
<1> SUFFICES ASSUME NEW u \in buckets, NEW i \in DOMAIN limits[u].rules PROVE BurstBy(u, i)'
  BY DEF Bursts
<1>1. BurstBy(u, i) /\ u \in Tokens
  BY DEF Bursts, IInv, TypeOK
<1> QED
  BY <1>1, BurstStays

\* Allow up to getBucket admits nobody but those without limits.
LEMMA AllowEnterBursts ==
  ASSUME IInv, IInv', Bursts, NEW r \in Requests, NEW c \in Configs, AllowEnter(r, c)
  PROVE  Bursts'
<1> DEFINE t == TokenOf[r]
<1>1. t \in Tokens /\ pc[r] = "new" /\ clock' = clock /\ clock \in Nat
  BY TokenOfAssumption DEF AllowEnter, IInv, TypeOK
<1>2. /\ conf' = [conf EXCEPT ![r] = c] /\ stamp' = [stamp EXCEPT ![r] = clock]
      /\ \E p \in {"admitted", "looked"} :
           pc' = [pc EXCEPT ![r] = p] /\ (p = "admitted" => Unlimited(c))
  BY DEF AllowEnter, Goto
<1>3. \A q \in Requests \ {r} :
        pc'[q] = pc[q] /\ conf'[q] = conf[q] /\ stamp'[q] = stamp[q]
  BY <1>2 DEF IInv, TypeOK
<1>4. conf'[r] = c /\ (pc'[r] \in {"admitted", "running", "done"} => Unlimited(c))
  BY <1>2 DEF IInv, TypeOK
<1>5. \A u \in Tokens : \A q \in Admitted(u)' : q \in Admitted(u) /\ stamp'[q] = stamp[q]
  BY <1>3, <1>4 DEF Admitted, Unlimited
<1>6. CASE Unlimited(c)
  <2>1. buckets' = buckets /\ limits' = limits /\ windows' = windows
    BY <1>6 DEF AllowEnter, bucketVars
  <2>2. clock <= clock'
    BY <1>1
  <2> QED
    BY <1>5, <2>1, <2>2, SameBursts
<1>7. CASE ~Unlimited(c)
  <2>1. GetBucket(t, c)
    BY <1>7 DEF AllowEnter
  <2> QED
    BY <1>1, <1>5, <2>1, GetBucketBursts
<1> QED
  BY <1>6, <1>7

\* A request that waits for the mutex is not admitted.
LEMMA AllowReadBursts ==
  ASSUME IInv, IInv', Bursts, NEW r \in Requests, AllowRead(r)
  PROVE  Bursts'
<1>1. /\ pc[r] = "looked" /\ clock' = clock /\ conf' = conf /\ clock \in Nat
      /\ buckets' = buckets /\ limits' = limits /\ windows' = windows
  BY DEF AllowRead, bucketVars, IInv, TypeOK
<1>2. \A q \in Requests \ {r} : pc'[q] = pc[q] /\ stamp'[q] = stamp[q]
  BY DEF AllowRead, Goto, IInv, TypeOK
<1>3. pc'[r] \in {"denied", "allow"}
  BY DEF AllowRead, Goto, IInv, TypeOK
<1>4. \A u \in Tokens : \A q \in Admitted(u)' : q \in Admitted(u) /\ stamp'[q] = stamp[q]
  BY <1>1, <1>2, <1>3 DEF Admitted
<1>5. clock <= clock'
  BY <1>1
<1> QED
  BY <1>1, <1>4, <1>5, SameBursts

\* Allow under its mutex: a fixed window that has run its length starts again at the
\* time the request read, and an admitted request finds room in it.
LEMMA AllowDecideBursts ==
  ASSUME IInv, IInv', Bursts, NEW r \in Requests, AllowDecide(r)
  PROVE  Bursts'
<1> DEFINE t == TokenOf[r]
           rules == limits[t].rules
           over == {j \in DOMAIN rules : Exceeded(windows[t][j], rules[j], stamp[r])}
<1>1. pc[r] = "allow" /\ t \in Tokens /\ t \in buckets /\ ~Unlimited(conf[r])
      /\ stamp[r] <= clock /\ stamp[r] \in Nat /\ clock \in Nat /\ stamp \in [Requests -> Nat]
  BY TokenOfAssumption DEF AllowDecide, IInv, Timing, Timed, TypeOK
<1>2. UNCHANGED <<clock, buckets, limits, conf, stamp>>
  BY DEF AllowDecide
<1>3. pc' = [pc EXCEPT ![r] = IF over = {} THEN "admitted" ELSE "denied"]
  BY DEF AllowDecide, Goto
<1>4. pc'[r] = (IF over = {} THEN "admitted" ELSE "denied")
      /\ \A q \in Requests \ {r} : pc'[q] = pc[q]
  BY <1>3 DEF IInv, TypeOK
<1>5. windows' = [windows EXCEPT ![t] = [i \in DOMAIN rules |-> Decided(r, i)]]
  BY DEF AllowDecide, Decided
<1>6. /\ \A i \in DOMAIN rules : windows'[t][i] = Decided(r, i)
      /\ \A u \in Tokens \ {t} : windows'[u] = windows[u]
  BY <1>1, <1>5 DEF IInv, TypeOK
<1>7. \A u \in Tokens \ {t} : Admitted(u)' = Admitted(u)
  BY <1>2, <1>4 DEF Admitted
<1>8. Admitted(t)' = IF over = {} THEN Admitted(t) \cup {r} ELSE Admitted(t)
  BY <1>1, <1>2, <1>4 DEF Admitted, Unlimited
<1>9. ASSUME NEW u \in buckets \ {t}, NEW i \in DOMAIN limits[u].rules
      PROVE  BurstBy(u, i)'
  <2>1. BurstBy(u, i) /\ u \in Tokens
    BY DEF Bursts, IInv, TypeOK
  <2>2. \A q \in Admitted(u)' : q \in Admitted(u) /\ stamp'[q] = stamp[q]
    BY <1>2, <1>7, <2>1
  <2>3. clock <= clock' /\ limits'[u] = limits[u] /\ windows'[u] = windows[u] /\ u \in buckets'
    BY <1>1, <1>2, <1>6, <2>1
  <2> QED
    BY <2>1, <2>2, <2>3, BurstStays
<1>10. ASSUME NEW i \in DOMAIN rules PROVE BurstBy(t, i)'
  <2> DEFINE rule == rules[i]
             w == windows[t][i]
             R == Recent(t, rule)
             v == Rolled(w, rule, stamp[r])
             S == {q \in Admitted(t)' : stamp'[q] > clock' - rule.duration}
  <2>1. rule \in Rule /\ w \in Window /\ BurstBy(t, i)
    BY <1>1, BucketTypes DEF Bursts
  <2>2. Recent(t, limits[t].rules[i])' = S
    BY <1>1, <1>2 DEF Recent
  <2>3. R \in SUBSET Requests /\ \A q \in R : stamp[q] > clock - rule.duration
    BY DEF Recent, Admitted
  <2>4. SUFFICES ASSUME rule.requests > 0, rule.fixed, rule.duration <= Kept
                 PROVE  TwoWindows(Decided(r, i), rule, S, clock, stamp)
    <3>1. limits'[t].rules[i] = rule /\ windows'[t][i] = Decided(r, i)
          /\ clock' = clock /\ stamp' = stamp
      BY <1>2, <1>6
    <3> HIDE DEF rule, S
    <3> QED
      BY <2>2, <2>4, <3>1 DEF BurstBy
  <2>5. TwoWindows(w, rule, R, clock, stamp)
    BY <2>1, <2>4 DEF BurstBy
  <2>6. v \in Window /\ TwoWindows(v, rule, R, clock, stamp)
        /\ stamp[r] < v.start + rule.duration
    <3> HIDE DEF rule, w, R
    <3> QED
      BY <1>1, <2>1, <2>3, <2>4, <2>5, TwoWindowsRolled
  <2>7. CASE over = {}
    <3>1. ~Exceeded(w, rule, stamp[r])
      BY <2>7
    <3>2. ~(v.nreq >= rule.requests)
      BY <2>4, <3>1 DEF Exceeded, CountRequests
    <3>3. Decided(r, i) = [v EXCEPT !.nreq = @ + 1]
      <4>1. Decided(r, i) = WithRequest(w, rule, r, stamp[r])
        BY <2>7 DEF Decided
      <4>2. rule.requests # 0
        BY <2>1, <2>4, RuleType
      <4> QED
        BY <2>4, <4>1, <4>2 DEF WithRequest
    <3>4. TwoWindows([v EXCEPT !.nreq = @ + 1], rule, R \cup {r}, clock, stamp)
      <4> HIDE DEF rule, v, R
      <4> QED
        BY <1>1, <2>1, <2>3, <2>6, <3>2, TwoWindowsAdmit
    <3>5. S \subseteq R \cup {r} /\ R \cup {r} \in SUBSET Requests
      BY <1>2, <1>8, <2>3, <2>7 DEF Recent
    <3>6. [v EXCEPT !.nreq = @ + 1] \in Window
      <4> HIDE DEF v
      <4> QED
        BY <2>6 DEF Window
    <3> DEFINE x == [v EXCEPT !.nreq = @ + 1]
               T == R \cup {r}
    <3>7. /\ x \in Window /\ TwoWindows(x, rule, T, clock, stamp)
          /\ S \in SUBSET T /\ T \in SUBSET Requests /\ clock <= clock
      <4>1. clock <= clock
        BY <1>1
      <4>2. S \in SUBSET T /\ T \in SUBSET Requests
        <5> HIDE DEF S, R
        <5> QED
          BY <3>5
      <4> HIDE DEF S, R, rule, v
      <4> QED
        BY <3>4, <3>6, <4>1, <4>2
    <3> HIDE DEF x, T, S, rule
    <3>8. TwoWindows(x, rule, S, clock, stamp)
      BY <1>1, <2>1, <3>7, TwoWindowsFewer
    <3> QED
      BY <3>3, <3>8 DEF x
  <2>8. CASE over # {}
    <3>1. S = R
      BY <1>2, <1>8, <2>8 DEF Recent
    <3>2. Decided(r, i) = v \/ Decided(r, i) = w
      BY <2>8 DEF Decided
    <3> HIDE DEF S, R, rule, v, w
    <3> QED
      BY <2>5, <2>6, <3>1, <3>2
  <2> QED
    BY <2>7, <2>8
<1> QED
  <2> SUFFICES ASSUME NEW u \in buckets, NEW i \in DOMAIN limits[u].rules PROVE BurstBy(u, i)'
    BY <1>2 DEF Bursts
  <2>1. CASE u = t
    BY <1>10, <2>1
  <2>2. CASE u # t
    BY <1>9, <2>2
  <2> QED
    BY <2>1, <2>2

\* Acquire looks the bucket up; Release does not even do that.
LEMMA AcquireBursts ==
  ASSUME IInv, IInv', Bursts, NEW r \in Requests, Acquire(r) \/ Release(r)
  PROVE  Bursts'
<1>1. TokenOf[r] \in Tokens /\ pc[r] \in {"admitted", "running"} /\ clock \in Nat
      /\ UNCHANGED <<clock, conf, stamp>>
      /\ \E p \in {"running", "done"} : pc' = [pc EXCEPT ![r] = p]
  BY TokenOfAssumption DEF Acquire, Release, Goto, IInv, TypeOK
<1>2. pc'[r] \in {"running", "done"} /\ \A q \in Requests \ {r} : pc'[q] = pc[q]
  BY <1>1 DEF IInv, TypeOK
<1>3. \A u \in Tokens : \A q \in Admitted(u)' : q \in Admitted(u) /\ stamp'[q] = stamp[q]
  BY <1>1, <1>2 DEF Admitted
<1>4. CASE UNCHANGED <<buckets, limits, windows>>
  <2>1. clock <= clock'
    BY <1>1
  <2> QED
    BY <1>3, <1>4, <2>1, SameBursts
<1>5. CASE ~UNCHANGED <<buckets, limits, windows>>
  <2>1. conf[r].maxParallel # 0 /\ GetBucket(TokenOf[r], conf[r])
    BY <1>5 DEF Acquire, Release, bucketVars
  <2>2. conf[r] \in Configs
    BY <2>1 DEF IInv, TypeOK, NoConfig
  <2> QED
    BY <1>1, <1>3, <2>1, <2>2, GetBucketBursts
<1> QED
  BY <1>4, <1>5

\* Reporting tokens may start a fixed window again, and counts no request.
LEMMA RecordTokensBursts ==
  ASSUME IInv, IInv', Bursts, NEW r \in Requests, NEW n \in Counts, RecordTokens(r, n)
  PROVE  Bursts'
<1> DEFINE t == TokenOf[r]
           k == Len(used[r]) + 1
           rules == limits[t].rules
<1>1. t \in Tokens /\ clock \in Nat /\ n \in Nat /\ stamp \in [Requests -> Nat]
  BY TokenOfAssumption, CountsAssumption DEF IInv, TypeOK
<1>2. UNCHANGED <<clock, buckets, limits, pc, conf, stamp>>
  BY DEF RecordTokens
<1>3. \A u \in Tokens : Admitted(u)' = Admitted(u)
  BY <1>2 DEF Admitted
<1>4. clock <= clock' /\ \A u \in Tokens : \A q \in Admitted(u)' :
                           q \in Admitted(u) /\ stamp'[q] = stamp[q]
  BY <1>1, <1>2, <1>3
<1>5. CASE windows' = windows
  BY <1>2, <1>4, <1>5, SameBursts
<1>6. CASE windows' # windows
  <2>1. windows' = [windows EXCEPT ![t] = [i \in DOMAIN rules |->
                      WithTokens(windows[t][i], rules[i], r, k, n, clock)]]
        /\ t \in buckets
    BY <1>6 DEF RecordTokens
  <2>2. /\ \A i \in DOMAIN rules :
             windows'[t][i] = WithTokens(windows[t][i], rules[i], r, k, n, clock)
        /\ \A u \in Tokens \ {t} : windows'[u] = windows[u]
    BY <1>1, <2>1 DEF IInv, TypeOK
  <2>3. ASSUME NEW u \in buckets \ {t}, NEW i \in DOMAIN limits[u].rules
        PROVE  BurstBy(u, i)'
    <3>1. BurstBy(u, i) /\ u \in Tokens
      BY DEF Bursts, IInv, TypeOK
    <3>2. limits'[u] = limits[u] /\ windows'[u] = windows[u] /\ u \in buckets'
      BY <1>2, <2>2, <3>1
    <3> QED
      BY <1>4, <3>1, <3>2, BurstStays
  <2>4. ASSUME NEW i \in DOMAIN rules PROVE BurstBy(t, i)'
    <3> DEFINE rule == rules[i]
               w == windows[t][i]
               R == Recent(t, rule)
               v == Rolled(w, rule, clock)
               x == windows'[t][i]
    <3>1. rule \in Rule /\ w \in Window /\ BurstBy(t, i)
      BY <2>1, BucketTypes DEF Bursts
    <3>2. x \in Window
      <4>1. limits'[t].rules[i] = rule /\ t \in buckets' /\ i \in DOMAIN limits'[t].rules
        BY <1>2, <2>1
      <4>2. DOMAIN windows'[t] = DOMAIN limits'[t].rules /\ windows'[t] \in Seq(Window)
        BY <1>1, <4>1 DEF IInv, Shape, TypeOK
      <4> QED
        BY <4>1, <4>2
    <3>3. Recent(t, limits[t].rules[i])' = R
      BY <1>1, <1>2, <1>3 DEF Recent
    <3>4. R \in SUBSET Requests /\ \A q \in R : stamp[q] > clock - rule.duration
      BY DEF Recent, Admitted
    <3>5. SUFFICES ASSUME rule.requests > 0, rule.fixed, rule.duration <= Kept
                   PROVE  TwoWindows(x, rule, R, clock, stamp)
      <4>1. limits'[t].rules[i] = rule /\ clock' = clock /\ stamp' = stamp
        BY <1>2
      <4> HIDE DEF rule, R
      <4> QED
        BY <3>3, <3>5, <4>1 DEF BurstBy
    <3>6. TwoWindows(w, rule, R, clock, stamp)
      BY <3>1, <3>5 DEF BurstBy
    <3>7. v \in Window /\ TwoWindows(v, rule, R, clock, stamp)
      <4>1. clock <= clock
        BY <1>1
      <4> HIDE DEF rule, w, R
      <4> QED
        BY <1>1, <3>1, <3>4, <3>5, <3>6, <4>1, TwoWindowsRolled
    <3>8. x = w \/ (x.start = v.start /\ x.nreq = v.nreq)
      <4>1. x = WithTokens(w, rule, r, k, n, clock)
        BY <2>2
      <4>2. x = w \/ x = [v EXCEPT !.ntok = @ + n]
        BY <3>5, <4>1 DEF WithTokens
      <4> HIDE DEF v, x, w
      <4> QED
        BY <3>7, <4>2 DEF Window
    <3>9. R \in SUBSET R /\ clock <= clock
      BY <1>1
    <3> HIDE DEF v, x, w, R, rule
    <3>10. CASE x = w
      BY <3>6, <3>10
    <3>11. CASE x.start = v.start /\ x.nreq = v.nreq
      BY <1>1, <3>1, <3>2, <3>4, <3>7, <3>9, <3>11, TwoWindowsFewer
    <3> QED
      BY <3>8, <3>10, <3>11
  <2> SUFFICES ASSUME NEW u \in buckets, NEW i \in DOMAIN limits[u].rules PROVE BurstBy(u, i)'
    BY <1>2 DEF Bursts
  <2>5. CASE u = t
    BY <2>4, <2>5
  <2>6. CASE u # t
    BY <2>3, <2>6
  <2> QED
    BY <2>5, <2>6
<1> QED
  BY <1>5, <1>6

\* Every step keeps what two fixed windows hold.
LEMMA NextBursts == IInv /\ IInv' /\ Bursts /\ [Next]_vars => Bursts'
<1> SUFFICES ASSUME IInv, IInv', Bursts, [Next]_vars PROVE Bursts'
  OBVIOUS
<1>1. CASE Tick \/ UNCHANGED vars
  <2>1. clock \in Nat /\ clock' \in {clock, clock + 1}
        /\ UNCHANGED <<buckets, limits, windows, pc, conf, stamp>>
    BY <1>1 DEF Tick, bucketVars, vars, IInv, TypeOK
  <2>2. clock <= clock'
    BY <2>1
  <2>3. \A u \in Tokens : \A q \in Admitted(u)' : q \in Admitted(u) /\ stamp'[q] = stamp[q]
    BY <2>1 DEF Admitted
  <2> QED
    BY <2>1, <2>2, <2>3, SameBursts
<1>2. ASSUME NEW r \in Requests, NEW c \in Configs, AllowEnter(r, c) PROVE Bursts'
  BY <1>2, AllowEnterBursts
<1>3. ASSUME NEW r \in Requests, AllowDecide(r) PROVE Bursts'
  BY <1>3, AllowDecideBursts
<1>4. ASSUME NEW r \in Requests, Acquire(r) \/ Release(r) PROVE Bursts'
  BY <1>4, AcquireBursts
<1>5. ASSUME NEW r \in Requests, NEW n \in Counts, RecordTokens(r, n) PROVE Bursts'
  BY <1>5, RecordTokensBursts
<1>6. ASSUME NEW r \in Requests, AllowRead(r) PROVE Bursts'
  BY <1>6, AllowReadBursts
<1> QED
  BY <1>1, <1>2, <1>3, <1>4, <1>5, <1>6 DEF Next

\* If no window is longer than an idle bucket is kept, less a stall, a fixed rule never lets
\* more than two windows' worth of requests through in the length of one: Rolled starts a
\* window when the last has run its length, so a third is always too old.
THEOREM FixedWindows == ASSUME ShortWindows PROVE Spec => []FixedBurst
<1>1. Init => Bursts
  BY DEF Init, Bursts
<1>2. Spec => []Bursts
  BY <1>1, NextBursts, Invariance, PTL DEF Spec
<1>3. IInv /\ Bursts => FixedBurst
  <2> SUFFICES ASSUME IInv, Bursts, NEW t \in buckets, NEW i \in DOMAIN limits[t].rules,
                      limits[t].rules[i].requests > 0, limits[t].rules[i].fixed
               PROVE  Cardinality(Recent(t, limits[t].rules[i])) <= 2 * limits[t].rules[i].requests
    BY DEF FixedBurst
  <2> DEFINE rule == limits[t].rules[i]
             R == Recent(t, rule)
             w == windows[t][i]
  <2>1. rule.requests \in Nat /\ w.nreq \in Nat
    BY BucketTypes, RuleType, WindowType
  <2>2. limits[t] \in Configs
    <3>1. limits[t] \in Configs \cup {NoConfig}
      BY DEF IInv, TypeOK
    <3> QED
      BY <3>1 DEF NoConfig
  <2>3. TwoWindows(w, rule, R, clock, stamp)
    <3>1. rule.duration <= Kept
      BY <2>2 DEF ShortWindows
    <3> QED
      BY <3>1 DEF Bursts, BurstBy
  <2>4. R \in SUBSET Requests
    BY DEF Recent, Admitted
  <2> HIDE DEF rule, w, R
  <2>5. w.nreq <= rule.requests
    BY <2>3 DEF TwoWindows
  <2>6. PICK A \in SUBSET R : \E B \in SUBSET R :
          R = A \cup B /\ Cardinality(A) <= rule.requests /\ Cardinality(B) <= w.nreq
    BY <2>3 DEF TwoWindows
  <2>7. PICK B \in SUBSET R :
          R = A \cup B /\ Cardinality(A) <= rule.requests /\ Cardinality(B) <= w.nreq
    BY <2>6
  <2>8. IsFiniteSet(A) /\ IsFiniteSet(B)
    BY <2>4, RequestsAssumption, FS_Subset
  <2>9. Cardinality(R) = Cardinality(A) + Cardinality(B) - Cardinality(A \cap B)
    BY <2>7, <2>8, FS_Union
  <2>10. Cardinality(A) \in Nat /\ Cardinality(B) \in Nat /\ Cardinality(A \cap B) \in Nat
    BY <2>8, FS_Intersection, FS_CardinalityType
  <2>11. Cardinality(R) <= 2 * rule.requests
    BY <2>1, <2>5, <2>7, <2>9, <2>10
  <2> QED
    BY <2>11 DEF R, rule
<1> QED
  BY <1>2, <1>3, Invariance, PTL

----------------------------------------------------------------------------
(* What the windows know.                                                  *)

\* The RecordTokens calls of requests with t, and what each reported.
Calls(t) == {e \in Requests \X {1, 2} : TokenOf[e[1]] = t /\ e[2] <= Len(used[e[1]])}
Amounts(reports) ==
  [e \in Requests \X {1, 2} |->
     IF e[2] <= Len(reports[e[1]]) THEN reports[e[1]][e[2]].n ELSE 0]
ReportedAt(e, reports) == reports[e[1]][e[2]].at

\* A window w counts nothing that was not really there: its entries are among the
\* requests R and the calls C, and so are enough requests and calls, no older than
\* a fixed one by more than a stall, to make up its counters.
CountsOnly(w, R, C, now, time, reports) ==
  /\ w.reqs \subseteq R /\ w.toks \subseteq C /\ w.start <= now
  /\ \E B \in SUBSET R : /\ w.nreq <= Cardinality(B)
                         /\ \A q \in B : w.start - MaxStall <= time[q]
  /\ \E D \in SUBSET C : /\ w.ntok <= SumOver(Amounts(reports), D)
                         /\ \A e \in D : w.start <= ReportedAt(e, reports)
HonestBy(t, i) ==
  CountsOnly(windows[t][i], Admitted(t), Calls(t), clock, stamp, used)
Honest == \A t \in buckets : \A i \in DOMAIN limits[t].rules : HonestBy(t, i)

\* A request's calls are made while it runs, and how long it may.
Flight == IF MaxFlight < MaxStall THEN MaxStall ELSE MaxFlight
FlightOf(r) ==
  /\ pc[r] = "running" => clock - stamp[r] <= Flight
  /\ used[r] # <<>> => pc[r] \in {"running", "done"}
  /\ Len(used[r]) <= 2
  /\ \A k \in DOMAIN used[r] : used[r][k].at <= clock /\ used[r][k].at - stamp[r] <= Flight
Flights == \A r \in Requests : FlightOf(r)

\* A sliding window knows every call of its length, if a bucket is kept for that
\* long after the longest flight.
RecentCalls(t, rule) ==
  {e \in Calls(t) : conf[e[1]].rules # <<>> /\ ReportedAt(e, used) > clock - rule.duration}
CallsKnown(t, i) ==
  LET rule == limits[t].rules[i] IN
  rule.tokens > 0 /\ ~rule.fixed /\ rule.duration + Flight <= Kept =>
    RecentCalls(t, rule) \subseteq windows[t][i].toks
TokensKnown == \A t \in buckets : \A i \in DOMAIN limits[t].rules : CallsKnown(t, i)

\* Every sliding rule over tokens has a bucket that is kept, after the time that a request
\* read, for its window and the longest flight together.
KeptThroughFlights ==
  \A c \in Configs : \A i \in DOMAIN c.rules :
    LET rule == c.rules[i] IN
    rule.tokens > 0 /\ ~rule.fixed => rule.duration + Flight <= Kept

----------------------------------------------------------------------------
(* Calls, and what they reported.                                          *)

\* The calls that were made can be counted and summed.
LEMMA CallsFinite ==
  ASSUME NEW C \in SUBSET (Requests \X {1, 2})
  PROVE  IsFiniteSet(C)
<1>1. IsFiniteSet({1, 2})
  <2>1. IsFiniteSet({1}) /\ {1} \cup {2} = {1, 2}
    BY FS_Singleton
  <2> QED
    BY <2>1, FS_AddElement
<1>2. IsFiniteSet(Requests \X {1, 2})
  BY <1>1, RequestsAssumption, FS_Product
<1> QED
  BY <1>2, FS_Subset

\* The elements of a sequence.
LEMMA ElementType ==
  ASSUME NEW S, NEW s \in Seq(S), NEW k \in 1..Len(s)
  PROVE  s[k] \in S
OBVIOUS

\* What a call reported is a count.
LEMMA AmountsType ==
  ASSUME NEW reports \in [Requests -> Seq([n: Counts, at: Nat])], NEW e \in Requests \X {1, 2}
  PROVE  Amounts(reports)[e] \in Nat
<1>1. e[1] \in Requests /\ e[2] \in {1, 2}
  OBVIOUS
<1>2. reports[e[1]] \in Seq([n: Counts, at: Nat])
  BY <1>1
<1>3. CASE e[2] <= Len(reports[e[1]])
  <2>1. e[2] \in 1..Len(reports[e[1]])
    BY <1>1, <1>2, <1>3
  <2>2. reports[e[1]][e[2]] \in [n: Counts, at: Nat]
    BY <1>2, <2>1, ElementType
  <2>3. reports[e[1]][e[2]].n \in Nat
    BY <2>2, CountsAssumption
  <2> QED
    BY <1>3, <2>3 DEF Amounts
<1>4. CASE ~(e[2] <= Len(reports[e[1]]))
  BY <1>4 DEF Amounts
<1> QED
  BY <1>3, <1>4

\* A sum over calls is a number.
LEMMA AmountsSum ==
  ASSUME NEW reports \in [Requests -> Seq([n: Counts, at: Nat])],
         NEW C \in SUBSET (Requests \X {1, 2})
  PROVE  SumOver(Amounts(reports), C) \in Nat
<1>1. \A e \in C : Amounts(reports)[e] \in Nat
  BY AmountsType
<1> QED
  BY <1>1, CallsFinite, SumType

\* Spent over calls that were made is the sum of what they reported.
LEMMA SpentIsSum ==
  ASSUME TypeOK, NEW C \in SUBSET (Requests \X {1, 2}),
         \A e \in C : e[2] <= Len(used[e[1]])
  PROVE  Spent(C) = SumOver(Amounts(used), C)
<1> DEFINE g == [e \in C |-> used[e[1]][e[2]].n]
           f == Amounts(used)
<1>1. \A e \in C : g[e] = f[e]
  BY DEF Amounts
<1>2. \A e \in C : f[e] \in Nat
  BY AmountsType DEF TypeOK
<1>3. Spent(C) = SumOver(g, C)
  BY DEF Spent
<1>4. IsFiniteSet(C)
  BY CallsFinite
<1> HIDE DEF f, g
<1>5. SumOver(g, C) = SumOver(f, C)
  BY <1>1, <1>2, <1>4, SumSame
<1> QED
  BY <1>3, <1>5 DEF f

\* More calls that were made spent more.
LEMMA SpentMore ==
  ASSUME TypeOK, NEW C \in SUBSET (Requests \X {1, 2}),
         \A e \in C : e[2] <= Len(used[e[1]]), NEW D \in SUBSET C
  PROVE  Spent(D) <= Spent(C) /\ Spent(D) \in Nat /\ Spent(C) \in Nat
<1>1. used \in [Requests -> Seq([n: Counts, at: Nat])]
  BY DEF TypeOK
<1>2. \A e \in C : Amounts(used)[e] \in Nat
  BY <1>1, AmountsType
<1>3. SumOver(Amounts(used), D) <= SumOver(Amounts(used), C)
  BY <1>2, CallsFinite, SumSubset
<1>4. D \in SUBSET (Requests \X {1, 2}) /\ \A e \in D : e[2] <= Len(used[e[1]])
  OBVIOUS
<1>5. SumOver(Amounts(used), D) \in Nat /\ SumOver(Amounts(used), C) \in Nat
  BY <1>1, <1>4, AmountsSum
<1> QED
  BY <1>3, <1>4, <1>5, SpentIsSum

----------------------------------------------------------------------------
(* Honest windows.                                                         *)

\* A window whose entries are there, and that counts what w counts, when there is
\* more to count.
LEMMA CountsMore ==
  ASSUME NEW w \in Window, NEW v \in Window,
         NEW R, NEW S, R \subseteq S, NEW C, NEW D, C \subseteq D,
         v.reqs \subseteq S, v.toks \subseteq D,
         v.start = w.start, v.nreq = w.nreq, v.ntok = w.ntok,
         NEW now \in Nat, NEW later \in Nat, now <= later,
         NEW time, NEW after, \A q \in R : after[q] = time[q],
         NEW reports, NEW then, C \in SUBSET (Requests \X {1, 2}),
         reports \in [Requests -> Seq([n: Counts, at: Nat])],
         \A e \in C : /\ Amounts(then)[e] = Amounts(reports)[e]
                      /\ ReportedAt(e, then) = ReportedAt(e, reports),
         CountsOnly(w, R, C, now, time, reports)
  PROVE  CountsOnly(v, S, D, later, after, then)
<1>1. w.start \in Int
  BY WindowType
<1>2. v.start <= later
  BY <1>1 DEF CountsOnly
<1>3. PICK B \in SUBSET R : /\ w.nreq <= Cardinality(B)
                            /\ \A q \in B : w.start - MaxStall <= time[q]
  BY DEF CountsOnly
<1>4. \E E \in SUBSET S : /\ v.nreq <= Cardinality(E)
                          /\ \A q \in E : v.start - MaxStall <= after[q]
  <2>1. /\ B \in SUBSET S /\ v.nreq <= Cardinality(B)
        /\ \A q \in B : v.start - MaxStall <= after[q]
    BY <1>3
  <2> QED
    BY <2>1
<1>5. PICK E \in SUBSET C : /\ w.ntok <= SumOver(Amounts(reports), E)
                            /\ \A e \in E : w.start <= ReportedAt(e, reports)
  BY DEF CountsOnly
<1>6. \E F \in SUBSET D : /\ v.ntok <= SumOver(Amounts(then), F)
                          /\ \A e \in F : v.start <= ReportedAt(e, then)
  <2>1. IsFiniteSet(E)
    BY CallsFinite
  <2>2. \A e \in E : Amounts(reports)[e] \in Nat /\ Amounts(then)[e] = Amounts(reports)[e]
    BY AmountsType
  <2>3. SumOver(Amounts(then), E) = SumOver(Amounts(reports), E)
    BY <2>1, <2>2, SumSame
  <2>4. /\ E \in SUBSET D /\ v.ntok <= SumOver(Amounts(then), E)
        /\ \A e \in E : v.start <= ReportedAt(e, then)
    BY <1>5, <2>3
  <2> QED
    BY <2>4
<1> QED
  BY <1>2, <1>4, <1>6 DEF CountsOnly

\* A window with empty counters.
LEMMA CountsNothing ==
  ASSUME NEW w \in Window, NEW R, NEW C, w.reqs \subseteq R, w.toks \subseteq C,
         w.nreq = 0, w.ntok = 0, NEW now \in Nat, w.start <= now, NEW time, NEW reports
  PROVE  CountsOnly(w, R, C, now, time, reports)
<1>1. {} \in SUBSET R /\ {} \in SUBSET C /\ 0 <= Cardinality({})
  BY FS_EmptySet
<1>2. 0 <= SumOver(Amounts(reports), {})
  BY SumEmpty
<1>3. \E B \in SUBSET R : /\ w.nreq <= Cardinality(B)
                          /\ \A q \in B : w.start - MaxStall <= time[q]
  BY <1>1
<1>4. \E D \in SUBSET C : /\ w.ntok <= SumOver(Amounts(reports), D)
                          /\ \A e \in D : w.start <= ReportedAt(e, reports)
  BY <1>1, <1>2
<1> QED
  BY <1>3, <1>4 DEF CountsOnly

\* Starting a fixed window again.
LEMMA CountsRolled ==
  ASSUME NEW w \in Window, NEW rule \in Rule, NEW R, NEW C, NEW now \in Nat,
         NEW at \in Nat, at <= now, NEW time, NEW reports,
         CountsOnly(w, R, C, now, time, reports)
  PROVE  /\ Rolled(w, rule, at) \in Window
         /\ CountsOnly(Rolled(w, rule, at), R, C, now, time, reports)
<1> DEFINE v == [reqs |-> w.reqs, toks |-> w.toks, start |-> at, nreq |-> 0, ntok |-> 0]
<1>1. v \in Window
  BY DEF Window
<1>2. v.reqs \subseteq R /\ v.toks \subseteq C
  BY DEF CountsOnly
<1>3. CountsOnly(v, R, C, now, time, reports)
  BY <1>1, <1>2, CountsNothing
<1>4. Rolled(w, rule, at) = v \/ Rolled(w, rule, at) = w
  BY DEF Rolled
<1> HIDE DEF v
<1> QED
  BY <1>1, <1>3, <1>4

\* addRequest: one more entry, or one more in the counter.
LEMMA CountsRequest ==
  ASSUME TypeOK, NEW w \in Window, NEW rule \in Rule, NEW R \in SUBSET Requests,
         NEW C \in SUBSET (Requests \X {1, 2}), NEW now \in Nat, now = clock,
         NEW r \in Requests, r \notin R,
         stamp[r] <= now, now - stamp[r] <= MaxStall,
         CountsOnly(w, R, C, now, stamp, used)
  PROVE  CountsOnly(WithRequest(w, rule, r, stamp[r]), R \cup {r}, C, now, stamp, used)
<1> DEFINE S == R \cup {r}
           at == stamp[r]
           v == Rolled(w, rule, at)
<1>0. at \in Nat /\ at <= now /\ used \in [Requests -> Seq([n: Counts, at: Nat])]
      /\ MaxStall \in Nat
  BY TimeAssumption DEF TypeOK
<1>1. v \in Window /\ CountsOnly(v, R, C, now, stamp, used)
  <2> HIDE DEF at
  <2> QED
    BY <1>0, CountsRolled
<1>2. CountsOnly(v, S, C, now, stamp, used)
  <2>1. now <= now /\ v.reqs \subseteq S /\ v.toks \subseteq C /\ R \subseteq S /\ C \subseteq C
    BY <1>1 DEF CountsOnly
  <2> HIDE DEF v, S
  <2> QED
    BY <1>0, <1>1, <2>1, CountsMore
<1>3. CASE rule.requests = 0
  BY <1>2, <1>3 DEF WithRequest
<1>4. CASE rule.requests # 0 /\ rule.fixed
  <2> DEFINE x == [v EXCEPT !.nreq = @ + 1]
  <2>1. WithRequest(w, rule, r, stamp[r]) = x
    BY <1>4 DEF WithRequest
  <2>2. /\ x.reqs = v.reqs /\ x.toks = v.toks /\ x.start = v.start
        /\ x.nreq = v.nreq + 1 /\ x.ntok = v.ntok
        /\ v.start \in Int /\ v.nreq \in Nat
    <3> HIDE DEF v
    <3> QED
      BY <1>1 DEF Window
  <2>3. /\ v.reqs \subseteq R /\ v.toks \subseteq C /\ v.start <= now
        /\ \E D \in SUBSET C : /\ v.ntok <= SumOver(Amounts(used), D)
                               /\ \A e \in D : v.start <= ReportedAt(e, used)
    BY <1>1 DEF CountsOnly
  <2>4. PICK B \in SUBSET R : /\ v.nreq <= Cardinality(B)
                              /\ \A q \in B : v.start - MaxStall <= stamp[q]
    BY <1>1 DEF CountsOnly
  <2>5. IsFiniteSet(B) /\ Cardinality(B) \in Nat
    BY RequestsAssumption, FS_Subset, FS_CardinalityType
  <2>6. Cardinality(B \cup {r}) = Cardinality(B) + 1
    BY <2>5, FS_AddElement
  <2>7. v.nreq + 1 <= Cardinality(B \cup {r})
    BY <2>2, <2>4, <2>5, <2>6
  <2>8. v.start - MaxStall <= at
    BY <1>0, <2>2, <2>3
  <2>9. \E E \in SUBSET S : /\ x.nreq <= Cardinality(E)
                            /\ \A q \in E : x.start - MaxStall <= stamp[q]
    <3>1. B \cup {r} \in SUBSET S /\ \A q \in B \cup {r} : x.start - MaxStall <= stamp[q]
      BY <2>2, <2>4, <2>8
    <3> HIDE DEF x, v, S
    <3> QED
      BY <2>2, <2>7, <3>1
  <2> HIDE DEF x, v
  <2>10. x.reqs \subseteq S /\ x.toks \subseteq C /\ x.start <= now
         /\ \E D \in SUBSET C : /\ x.ntok <= SumOver(Amounts(used), D)
                                /\ \A e \in D : x.start <= ReportedAt(e, used)
    BY <2>2, <2>3
  <2>11. CountsOnly(x, S, C, now, stamp, used)
    BY <2>9, <2>10 DEF CountsOnly
  <2> QED
    BY <2>1, <2>11
<1>5. CASE rule.requests # 0 /\ ~rule.fixed
  <2> DEFINE x == [w EXCEPT !.reqs = YoungReqs(w, rule, at) \cup {r}]
  <2>1. WithRequest(w, rule, r, stamp[r]) = x
    BY <1>5 DEF WithRequest
  <2>2. /\ x.reqs = YoungReqs(w, rule, at) \cup {r} /\ x.toks = w.toks /\ x.start = w.start
        /\ x.nreq = w.nreq /\ x.ntok = w.ntok
    BY DEF Window
  <2>3. w.reqs \subseteq R /\ w.toks \subseteq C /\ R \subseteq S /\ C \subseteq C /\ now <= now
    BY DEF CountsOnly
  <2>4. x.reqs \subseteq S /\ x.toks \subseteq C
    BY <2>2, <2>3 DEF YoungReqs
  <2>5. x \in Window
    BY <2>1, WithRequestType, <1>0
  <2> HIDE DEF x, S, at
  <2>6. CountsOnly(x, S, C, now, stamp, used)
    BY <1>0, <2>2, <2>3, <2>4, <2>5, CountsMore
  <2> QED
    BY <2>1, <2>6 DEF S
<1> QED
  BY <1>3, <1>4, <1>5

\* addTokens: one more entry, or its tokens in the counter.
LEMMA CountsTokens ==
  ASSUME NEW w \in Window, NEW rule \in Rule, NEW R \in SUBSET Requests,
         NEW C \in SUBSET (Requests \X {1, 2}), NEW now \in Nat,
         NEW r \in Requests, NEW k \in {1, 2}, NEW n \in Nat, <<r, k>> \notin C,
         NEW time, NEW reports \in [Requests -> Seq([n: Counts, at: Nat])],
         Amounts(reports)[<<r, k>>] = n, ReportedAt(<<r, k>>, reports) = now,
         CountsOnly(w, R, C, now, time, reports)
  PROVE  CountsOnly(WithTokens(w, rule, r, k, n, now), R, C \cup {<<r, k>>}, now, time, reports)
<1> DEFINE D == C \cup {<<r, k>>}
           v == Rolled(w, rule, now)
<1>1. D \in SUBSET (Requests \X {1, 2}) /\ now <= now
  OBVIOUS
<1>2. v \in Window /\ CountsOnly(v, R, C, now, time, reports)
  BY <1>1, CountsRolled
<1>3. CASE rule.tokens = 0
  <2>1. w.reqs \subseteq R /\ w.toks \subseteq D /\ C \subseteq D /\ R \subseteq R
    BY DEF CountsOnly
  <2>2. CountsOnly(w, R, D, now, time, reports)
    <3> HIDE DEF D
    <3> QED
      BY <1>1, <2>1, CountsMore
  <2> QED
    BY <1>3, <2>2 DEF WithTokens
<1>4. CASE rule.tokens # 0 /\ rule.fixed
  <2> DEFINE x == [v EXCEPT !.ntok = @ + n]
  <2>1. WithTokens(w, rule, r, k, n, now) = x
    BY <1>4 DEF WithTokens
  <2>2. /\ x.reqs = v.reqs /\ x.toks = v.toks /\ x.start = v.start
        /\ x.nreq = v.nreq /\ x.ntok = v.ntok + n /\ v.start \in Int /\ v.ntok \in Nat
    <3> HIDE DEF v
    <3> QED
      BY <1>2 DEF Window
  <2>3. /\ v.reqs \subseteq R /\ v.toks \subseteq C /\ v.start <= now
        /\ \E B \in SUBSET R : /\ v.nreq <= Cardinality(B)
                               /\ \A q \in B : v.start - MaxStall <= time[q]
    BY <1>2 DEF CountsOnly
  <2>4. PICK E \in SUBSET C : /\ v.ntok <= SumOver(Amounts(reports), E)
                              /\ \A e \in E : v.start <= ReportedAt(e, reports)
    BY <1>2 DEF CountsOnly
  <2>5. IsFiniteSet(E) /\ \A e \in E : Amounts(reports)[e] \in Nat
    BY CallsFinite, AmountsType
  <2>6. SumOver(Amounts(reports), E) \in Nat
    BY AmountsSum
  <2>7. SumOver(Amounts(reports), E \cup {<<r, k>>}) = SumOver(Amounts(reports), E) + n
    BY <2>5, SumWith
  <2>8. x.ntok <= SumOver(Amounts(reports), E \cup {<<r, k>>})
    <3> HIDE DEF x, v
    <3> QED
      BY <2>2, <2>4, <2>6, <2>7
  <2>9. E \cup {<<r, k>>} \in SUBSET D
        /\ \A e \in E \cup {<<r, k>>} : x.start <= ReportedAt(e, reports)
    <3> HIDE DEF x, v
    <3> QED
      BY <2>2, <2>3, <2>4
  <2> HIDE DEF x, v
  <2>10. /\ x.reqs \subseteq R /\ x.toks \subseteq D /\ x.start <= now
         /\ \E B \in SUBSET R : /\ x.nreq <= Cardinality(B)
                                /\ \A q \in B : x.start - MaxStall <= time[q]
    BY <2>2, <2>3
  <2>11. CountsOnly(x, R, D, now, time, reports)
    BY <2>8, <2>9, <2>10 DEF CountsOnly
  <2> QED
    BY <2>1, <2>11
<1>5. CASE rule.tokens # 0 /\ ~rule.fixed
  <2> DEFINE x == [w EXCEPT !.toks = YoungToks(w, rule, now) \cup {<<r, k>>}]
  <2>1. WithTokens(w, rule, r, k, n, now) = x
    BY <1>5 DEF WithTokens
  <2>2. /\ x.reqs = w.reqs /\ x.toks = YoungToks(w, rule, now) \cup {<<r, k>>}
        /\ x.start = w.start /\ x.nreq = w.nreq /\ x.ntok = w.ntok
    BY DEF Window
  <2>3. w.reqs \subseteq R /\ w.toks \subseteq C /\ R \subseteq R /\ C \subseteq D
    BY DEF CountsOnly
  <2>4. x.reqs \subseteq R /\ x.toks \subseteq D
    BY <2>2, <2>3 DEF YoungToks
  <2>5. x \in Window
    <3>1. SameRequests(WithTokens(w, rule, r, k, n, now), w)
      BY WithTokensType
    <3> HIDE DEF x
    <3> QED
      BY <2>1, <3>1 DEF SameRequests
  <2> HIDE DEF x, D
  <2>6. CountsOnly(x, R, D, now, time, reports)
    BY <1>1, <2>2, <2>3, <2>4, <2>5, CountsMore
  <2> QED
    BY <2>1, <2>6 DEF D
<1> QED
  BY <1>3, <1>4, <1>5

----------------------------------------------------------------------------
(* What a step adds.                                                       *)

\* A RecordTokens call, as the calls of its token see it.
LEMMA RecordTokensEffect ==
  ASSUME IInv, NEW r \in Requests, NEW n \in Counts, RecordTokens(r, n)
  PROVE  LET k == Len(used[r]) + 1
             e == <<r, k>>
         IN /\ k \in {1, 2} /\ n \in Nat
            /\ Len(used'[r]) = k /\ used'[r][k] = [n |-> n, at |-> clock]
            /\ \A j \in 1..Len(used[r]) : used'[r][j] = used[r][j]
            /\ \A q \in Requests \ {r} : used'[q] = used[q]
            /\ \A u \in Tokens : e \notin Calls(u)
            /\ Calls(TokenOf[r])' = Calls(TokenOf[r]) \cup {e}
            /\ \A u \in Tokens \ {TokenOf[r]} : Calls(u)' = Calls(u)
            /\ Amounts(used')[e] = n /\ ReportedAt(e, used') = clock
<1> DEFINE s == used[r]
           k == Len(s) + 1
           new == [n |-> n, at |-> clock]
           S == [n: Counts, at: Nat]
           e == <<r, k>>
<1>1. s \in Seq(S) /\ clock \in Nat /\ used \in [Requests -> Seq(S)]
  BY DEF IInv, TypeOK
<1>2. Len(s) \in Nat /\ k <= 2 /\ n \in Nat /\ used' = [used EXCEPT ![r] = Append(s, new)]
  BY <1>1, CountsAssumption DEF RecordTokens
<1>3. k \in {1, 2}
  BY <1>2
<1>4. used'[r] = Append(s, new) /\ \A q \in Requests \ {r} : used'[q] = used[q]
  BY <1>1, <1>2
<1>5. new \in S
  BY <1>1
<1>6. Len(Append(s, new)) = k /\ Append(s, new)[k] = new
      /\ \A j \in 1..Len(s) : Append(s, new)[j] = s[j]
  <2> HIDE DEF s, S, new
  <2> QED
    BY <1>1, <1>5
<1>7. Len(used'[r]) = k /\ used'[r][k] = new /\ \A j \in 1..Len(s) : used'[r][j] = s[j]
  BY <1>4, <1>6
<1>8. \A u \in Tokens : e \notin Calls(u)
  BY <1>2 DEF Calls
<1>9. e \in Requests \X {1, 2} /\ e[1] = r /\ e[2] = k
  BY <1>3
<1>10. Amounts(used')[e] = n /\ ReportedAt(e, used') = clock
  <2>1. k <= k
    BY <1>2
  <2> HIDE DEF k, e
  <2> QED
    BY <1>7, <1>9, <2>1 DEF Amounts, ReportedAt
<1>11. ASSUME NEW f \in Requests \X {1, 2}
       PROVE  f[2] <= Len(used'[f[1]]) <=> f[2] <= Len(used[f[1]]) \/ f = e
  <2>1. f[1] \in Requests /\ f[2] \in {1, 2} /\ f = <<f[1], f[2]>>
    OBVIOUS
  <2>2. CASE f[1] = r
    <3>1. f = e <=> f[2] = k
      BY <2>1, <2>2
    <3> HIDE DEF e
    <3> QED
      BY <1>2, <1>7, <2>1, <2>2, <3>1
  <2>3. CASE f[1] # r
    BY <1>4, <2>1, <2>3
  <2> QED
    BY <2>2, <2>3
<1>12. Calls(TokenOf[r])' = Calls(TokenOf[r]) \cup {e}
  BY <1>9, <1>11 DEF Calls
<1>13. \A u \in Tokens \ {TokenOf[r]} : Calls(u)' = Calls(u)
  BY <1>9, <1>11 DEF Calls
<1> QED
  BY <1>2, <1>3, <1>4, <1>7, <1>8, <1>10, <1>12, <1>13

\* What a step leaves as it was: time does not go back, and admissions and calls
\* stay as they were made.
Grows ==
  /\ clock <= clock'
  /\ \A u \in Tokens : \A q \in Admitted(u) : q \in Admitted(u)' /\ stamp'[q] = stamp[q]
  /\ \A u \in Tokens : \A e \in Calls(u) :
       /\ e \in Calls(u)' /\ Amounts(used')[e] = Amounts(used)[e]
       /\ ReportedAt(e, used') = ReportedAt(e, used)

\* Every step adds only.
LEMMA OnlyMore == ASSUME IInv, [Next]_vars PROVE Grows
<1>1. clock <= clock'
  <2>1. clock \in Nat /\ clock' \in {clock, clock + 1}
    BY DEF IInv, TypeOK, Next, Tick, AllowEnter, AllowRead, AllowDecide, Acquire,
           RecordTokens, Release, vars
  <2> QED
    BY <2>1
<1>2. CASE Tick \/ UNCHANGED vars
  <2>1. UNCHANGED <<pc, conf, stamp, used>>
    BY <1>2 DEF Tick, vars
  <2> QED
    BY <1>1, <2>1 DEF Grows, Admitted, Calls
<1>3. ASSUME NEW r \in Requests, NEW c \in Configs, AllowEnter(r, c) PROVE Grows
  <2>1. pc[r] = "new" /\ used' = used
        /\ \A q \in Requests \ {r} :
             pc'[q] = pc[q] /\ conf'[q] = conf[q] /\ stamp'[q] = stamp[q]
    BY <1>3 DEF AllowEnter, Goto, IInv, TypeOK
  <2>2. \A u \in Tokens : \A q \in Admitted(u) : q # r
    BY <2>1 DEF Admitted
  <2> QED
    BY <1>1, <2>1, <2>2 DEF Grows, Admitted, Unlimited, Calls
<1>4. ASSUME NEW r \in Requests, AllowDecide(r) \/ Acquire(r) \/ Release(r) PROVE Grows
  <2>1. UNCHANGED <<conf, stamp, used>> /\ pc[r] \in {"allow", "admitted", "running"}
        /\ \E p \in {"admitted", "denied", "running", "done"} :
             /\ pc' = [pc EXCEPT ![r] = p]
             /\ pc[r] # "allow" => p \in {"running", "done"}
    BY <1>4 DEF AllowDecide, Acquire, Release, Goto
  <2>2. /\ pc[r] # "allow" => pc'[r] \in {"running", "done"}
        /\ \A q \in Requests \ {r} : pc'[q] = pc[q]
    BY <2>1 DEF IInv, TypeOK
  <2> QED
    BY <1>1, <2>1, <2>2 DEF Grows, Admitted, Calls
<1>5. ASSUME NEW r \in Requests, NEW n \in Counts, RecordTokens(r, n) PROVE Grows
  <2>1. UNCHANGED <<pc, conf, stamp>>
    BY <1>5 DEF RecordTokens
  <2>2. ASSUME NEW u \in Tokens, NEW e \in Calls(u)
        PROVE  /\ e \in Calls(u)' /\ Amounts(used')[e] = Amounts(used)[e]
               /\ ReportedAt(e, used') = ReportedAt(e, used)
    <3>1. e \in Calls(u)'
      BY <1>5, <2>2, RecordTokensEffect
    <3>2. e \in Requests \X {1, 2} /\ e[2] <= Len(used[e[1]]) /\ e[2] <= Len(used'[e[1]])
      BY <3>1 DEF Calls
    <3>3. e[1] \in Requests /\ e[2] \in 1..Len(used[e[1]])
      <4>1. e[1] \in Requests /\ e[2] \in {1, 2} /\ Len(used[e[1]]) \in Nat
        BY <3>2 DEF IInv, TypeOK
      <4> QED
        BY <3>2, <4>1
    <3>4. used'[e[1]][e[2]] = used[e[1]][e[2]]
      <4>1. /\ \A j \in 1..Len(used[r]) : used'[r][j] = used[r][j]
            /\ \A q \in Requests \ {r} : used'[q] = used[q]
        BY <1>5, RecordTokensEffect
      <4>2. CASE e[1] = r
        BY <3>3, <4>1, <4>2
      <4>3. CASE e[1] # r
        BY <3>3, <4>1, <4>3
      <4> QED
        BY <4>2, <4>3
    <3> QED
      BY <3>1, <3>2, <3>4 DEF Amounts, ReportedAt
  <2> QED
    BY <1>1, <2>1, <2>2 DEF Grows, Admitted
<1>6. ASSUME NEW r \in Requests, AllowRead(r) PROVE Grows
  <2>1. pc[r] = "looked" /\ used' = used /\ conf' = conf
        /\ \A q \in Requests \ {r} : pc'[q] = pc[q] /\ stamp'[q] = stamp[q]
    BY <1>6 DEF AllowRead, Goto, IInv, TypeOK
  <2>2. \A u \in Tokens : \A q \in Admitted(u) : q # r
    BY <2>1 DEF Admitted
  <2> QED
    BY <1>1, <2>1, <2>2 DEF Grows, Admitted, Calls
<1> QED
  BY <1>2, <1>3, <1>4, <1>5, <1>6 DEF Next

\* A step without a RecordTokens call, that changes the policy of no request that
\* has made one.
Quiet ==
  /\ used' = used /\ clock <= clock'
  /\ \A r \in Requests : used[r] # <<>> => conf'[r] = conf[r]

\* What a bucket's window says of the requests and the calls of its token.
Known(t, i) == HonestBy(t, i) /\ CallsKnown(t, i)

\* The request of a call.
LEMMA CallType ==
  ASSUME TypeOK, NEW t \in Tokens, NEW e \in Calls(t)
  PROVE  /\ e[1] \in Requests /\ e[2] \in 1..Len(used[e[1]]) /\ e[2] \in {1, 2}
         /\ TokenOf[e[1]] = t /\ used[e[1]] # <<>> /\ e = <<e[1], e[2]>>
         /\ ReportedAt(e, used) \in Nat
<1>1. /\ e[1] \in Requests /\ e[2] \in {1, 2} /\ e[2] <= Len(used[e[1]])
      /\ TokenOf[e[1]] = t /\ e = <<e[1], e[2]>>
  BY DEF Calls
<1>2. used[e[1]] \in Seq([n: Counts, at: Nat])
  BY <1>1 DEF TypeOK
<1>3. Len(used[e[1]]) \in Nat
  BY <1>2
<1>4. e[2] \in 1..Len(used[e[1]])
  BY <1>1, <1>3
<1>5. used[e[1]] # <<>>
  BY <1>4
<1>6. used[e[1]][e[2]] \in [n: Counts, at: Nat]
  BY <1>2, <1>4, ElementType
<1>7. used[e[1]][e[2]].at \in Nat
  BY <1>6
<1> QED
  BY <1>1, <1>4, <1>5, <1>7 DEF ReportedAt

\* The calls of a window's length are no more after a step without one.
LEMMA QuietCalls ==
  ASSUME TypeOK, TypeOK', Quiet, NEW t \in Tokens, NEW rule \in Rule
  PROVE  RecentCalls(t, rule)' \subseteq RecentCalls(t, rule)
<1> SUFFICES ASSUME NEW e \in RecentCalls(t, rule)' PROVE e \in RecentCalls(t, rule)
  OBVIOUS
<1>1. Calls(t)' = Calls(t) /\ ReportedAt(e, used)' = ReportedAt(e, used)
  BY DEF Quiet, Calls, ReportedAt
<1>2. e \in Calls(t) /\ conf'[e[1]].rules # <<>>
      /\ ReportedAt(e, used) > clock' - rule.duration
  BY <1>1 DEF RecentCalls
<1>3. conf'[e[1]] = conf[e[1]]
  BY <1>2, CallType DEF Quiet
<1>4. ReportedAt(e, used) \in Nat /\ clock \in Nat /\ clock' \in Nat /\ rule.duration \in Nat
  BY <1>2, CallType, RuleType DEF TypeOK
<1>5. ReportedAt(e, used) > clock - rule.duration
  BY <1>2, <1>4 DEF Quiet
<1> QED
  BY <1>2, <1>3, <1>5 DEF RecentCalls

\* A bucket's calls and requests are what their names say.
LEMMA MadeTypes ==
  ASSUME NEW t \in Tokens
  PROVE  Admitted(t) \in SUBSET Requests /\ Calls(t) \in SUBSET (Requests \X {1, 2})
  BY DEF Admitted, Calls

\* An honest window stays honest, if it is left as it is.
LEMMA HonestStays ==
  ASSUME IInv, IInv', Grows, NEW u \in buckets, NEW i \in DOMAIN limits[u].rules,
         HonestBy(u, i), windows'[u][i] = windows[u][i]
  PROVE  HonestBy(u, i)'
<1> DEFINE w == windows[u][i]
           R == Admitted(u)
           S == Admitted(u)'
           C == Calls(u)
           D == Calls(u)'
           now == clock
           later == clock'
           then == used'
           after == stamp'
<1>1. u \in Tokens /\ w \in Window
  BY BucketTypes DEF IInv, TypeOK
<1>2. now \in Nat /\ later \in Nat /\ now <= later
      /\ used \in [Requests -> Seq([n: Counts, at: Nat])]
  BY DEF IInv, TypeOK, Grows
<1>3. R \subseteq S /\ C \subseteq D /\ \A q \in R : after[q] = stamp[q]
  BY <1>1 DEF Grows
<1>4. \A e \in C : /\ Amounts(then)[e] = Amounts(used)[e]
                   /\ ReportedAt(e, then) = ReportedAt(e, used)
  BY <1>1 DEF Grows
<1>5. CountsOnly(w, R, C, now, stamp, used)
  BY DEF HonestBy
<1>6. w.reqs \subseteq S /\ w.toks \subseteq D
  BY <1>3, <1>5 DEF CountsOnly
<1>7. C \in SUBSET (Requests \X {1, 2})
  BY <1>1, MadeTypes
<1>8. HonestBy(u, i)' <=> CountsOnly(windows'[u][i], S, D, later, after, then)
  BY DEF HonestBy
<1> HIDE DEF w, R, S, C, D, now, later, then, after
<1>9. CountsOnly(w, S, D, later, after, then)
  BY <1>1, <1>2, <1>3, <1>4, <1>5, <1>6, <1>7, CountsMore
<1> QED
  BY <1>8, <1>9 DEF w

\* A window that is left as it is by a quiet step knows what it knew.
LEMMA WindowStays ==
  ASSUME IInv, IInv', Grows, Quiet, NEW u \in buckets, NEW i \in DOMAIN limits[u].rules,
         Known(u, i), limits'[u] = limits[u], windows'[u][i] = windows[u][i]
  PROVE  Known(u, i)'
<1>1. u \in Tokens /\ limits[u].rules[i] \in Rule
  BY BucketTypes DEF IInv, TypeOK
<1>2. HonestBy(u, i)'
  BY HonestStays DEF Known
<1>3. PICK rule \in Rule : rule = limits[u].rules[i]
  BY <1>1
<1>4. RecentCalls(u, rule)' \subseteq RecentCalls(u, rule)
  BY <1>1, QuietCalls DEF IInv
<1>5. limits'[u].rules[i] = rule
  BY <1>3
<1>6. RecentCalls(u, limits[u].rules[i])' = RecentCalls(u, rule)'
  BY <1>5 DEF RecentCalls
<1>7. CallsKnown(u, i)
  BY DEF Known
<1>8. CallsKnown(u, i)'
  BY <1>3, <1>4, <1>5, <1>6, <1>7 DEF CallsKnown
<1> QED
  BY <1>2, <1>8 DEF Known

\* Calls of a token without a bucket, or with one that is collected, are too old for
\* a window that is kept through the flight of their request.
LEMMA ForgottenCalls ==
  ASSUME IInv, Flights, NEW u \in Tokens, u \notin buckets \ Stale, NEW rule \in Rule,
         rule.duration + Flight <= Kept
  PROVE  RecentCalls(u, rule) = {}
<1> SUFFICES ASSUME NEW e \in RecentCalls(u, rule) PROVE FALSE
  OBVIOUS
<1>1. e \in Calls(u) /\ conf[e[1]].rules # <<>> /\ ReportedAt(e, used) > clock - rule.duration
  BY DEF RecentCalls
<1>2. e[1] \in Requests /\ e[2] \in DOMAIN used[e[1]] /\ TokenOf[e[1]] = u
      /\ used[e[1]] # <<>> /\ ReportedAt(e, used) \in Nat
  <2>1. used[e[1]] \in Seq([n: Counts, at: Nat])
    BY <1>1, CallType DEF IInv, TypeOK
  <2> QED
    BY <1>1, <2>1, CallType DEF IInv
<1>3. pc[e[1]] \in {"running", "done"} /\ ReportedAt(e, used) - stamp[e[1]] <= Flight
  BY <1>2 DEF Flights, FlightOf, ReportedAt
<1>4. e[1] \in Admitted(u)
  BY <1>1, <1>2, <1>3 DEF Admitted, Unlimited
<1>5. clock - stamp[e[1]] > Kept
  BY <1>4, ForgottenIsOld
<1> DEFINE at == ReportedAt(e, used)
           since == stamp[e[1]]
           length == rule.duration
<1>6. clock \in Nat /\ at \in Nat /\ since \in Nat /\ length \in Nat
      /\ Flight \in Nat /\ Kept \in Nat
  BY <1>2, RuleType, TimeAssumption, KeptType DEF IInv, TypeOK, Flight
<1>7. at > clock - length /\ at - since <= Flight /\ clock - since > Kept
      /\ length + Flight <= Kept
  BY <1>1, <1>3, <1>5
<1> HIDE DEF at, since, length
<1> QED
  BY <1>6, <1>7

\* getBucket: a bucket that is kept has its windows, one that is created counts
\* nothing, and no call of its token is as young as its windows.
LEMMA GetBucketKnown ==
  ASSUME IInv, IInv', Flights, Honest, TokensKnown, Grows, Quiet,
         NEW t \in Tokens, NEW c \in Configs, GetBucket(t, c)
  PROVE  Honest' /\ TokensKnown'
<1> SUFFICES ASSUME NEW u \in buckets', NEW i \in DOMAIN limits'[u].rules PROVE Known(u, i)'
  BY DEF Honest, TokensKnown, Known
<1>1. u \in Tokens /\ clock' \in Nat
  BY GetBucketEffect DEF IInv, TypeOK
<1>2. CASE u \in buckets \ Stale
  <2>1. limits'[u] = limits[u] /\ windows'[u] = windows[u] /\ u \in buckets
    BY <1>2, GetBucketEffect
  <2>2. Known(u, i)
    BY <2>1 DEF Honest, TokensKnown, Known
  <2>3. i \in DOMAIN limits[u].rules /\ windows'[u][i] = windows[u][i]
    BY <2>1
  <2> QED
    BY <2>1, <2>2, <2>3, WindowStays
<1>3. CASE u \notin buckets \ Stale
  <2> DEFINE rule == c.rules[i]
             w == NewWindow(rule)
  <2>1. u = t
    BY <1>3, GetBucketEffect
  <2>2. limits'[u] = c /\ windows'[u] = [j \in DOMAIN c.rules |-> NewWindow(c.rules[j])]
    BY <1>3, <2>1, GetBucketEffect
  <2>3. rule \in Rule /\ windows'[u][i] = w /\ limits'[u].rules[i] = rule
    BY <2>2, RulesType
  <2>4. /\ w \in Window /\ w.reqs = {} /\ w.toks = {} /\ w.nreq = 0 /\ w.ntok = 0
        /\ w.start <= clock'
    <3>1. rule.duration \in Nat
      BY <2>3, RuleType
    <3>2. w \in Window
      BY <2>3, NewWindowType
    <3> HIDE DEF rule
    <3> QED
      BY <1>1, <3>1, <3>2 DEF NewWindow
  <2>5. HonestBy(u, i)'
    <3> DEFINE R == Admitted(u)'
               C == Calls(u)'
               now == clock'
               time == stamp'
               reports == used'
    <3>1. HonestBy(u, i)' <=> CountsOnly(w, R, C, now, time, reports)
      BY <2>3 DEF HonestBy
    <3>2. w.reqs \subseteq R /\ w.toks \subseteq C /\ now \in Nat /\ w.start <= now
      BY <1>1, <2>4
    <3> HIDE DEF w, R, C, now, time, reports
    <3>3. CountsOnly(w, R, C, now, time, reports)
      BY <2>4, <3>2, CountsNothing
    <3> QED
      BY <3>1, <3>3
  <2>6. rule.duration + Flight <= Kept => RecentCalls(u, rule)' = {}
    <3>1. RecentCalls(u, rule)' \subseteq RecentCalls(u, rule)
      <4> HIDE DEF rule
      <4> QED
        BY <1>1, <2>3, QuietCalls DEF IInv
    <3>2. rule.duration + Flight <= Kept => RecentCalls(u, rule) = {}
      <4> HIDE DEF rule
      <4> QED
        BY <1>1, <1>3, <2>3, ForgottenCalls
    <3> QED
      BY <3>1, <3>2
  <2>7. RecentCalls(u, limits[u].rules[i])' = RecentCalls(u, rule)'
    BY <2>3 DEF RecentCalls
  <2> HIDE DEF rule, w
  <2>8. CallsKnown(u, i)'
    BY <2>3, <2>6, <2>7 DEF CallsKnown
  <2> QED
    BY <2>5, <2>8 DEF Known
<1> QED
  BY <1>2, <1>3

\* A quiet step that leaves every bucket as it is.
LEMMA SameWindowsKnown ==
  ASSUME IInv, IInv', Honest, TokensKnown, Grows, Quiet, UNCHANGED <<buckets, limits, windows>>
  PROVE  Honest' /\ TokensKnown'
<1> SUFFICES ASSUME NEW u \in buckets, NEW i \in DOMAIN limits[u].rules PROVE Known(u, i)'
  BY DEF Honest, TokensKnown, Known
<1>1. Known(u, i)
  BY DEF Honest, TokensKnown, Known
<1> QED
  BY <1>1, WindowStays

\* A request that has read no policy yet has made no call.
LEMMA NewIsQuiet ==
  ASSUME Flights, NEW r \in Requests, pc[r] = "new"
  PROVE  used[r] = <<>>
  BY DEF Flights, FlightOf

\* Allow up to getBucket admits nobody that a window counts, and makes no call.
LEMMA AllowEnterKnown ==
  ASSUME IInv, IInv', Flights, Honest, TokensKnown, Grows,
         NEW r \in Requests, NEW c \in Configs, AllowEnter(r, c)
  PROVE  Honest' /\ TokensKnown'
<1>1. used[r] = <<>>
  BY NewIsQuiet DEF AllowEnter
<1>2. TokenOf[r] \in Tokens /\ used' = used /\ conf' = [conf EXCEPT ![r] = c]
  BY TokenOfAssumption DEF AllowEnter
<1>3. Quiet
  BY <1>1, <1>2 DEF Quiet, Grows, IInv, TypeOK
<1>4. CASE Unlimited(c)
  <2>1. UNCHANGED <<buckets, limits, windows>>
    BY <1>4 DEF AllowEnter, bucketVars
  <2> QED
    BY <1>3, <2>1, SameWindowsKnown
<1>5. CASE ~Unlimited(c)
  <2>1. GetBucket(TokenOf[r], c)
    BY <1>5 DEF AllowEnter
  <2> QED
    BY <1>2, <1>3, <2>1, GetBucketKnown
<1> QED
  BY <1>4, <1>5

\* Acquire looks the bucket up; AllowRead, Release, Tick and a stuttering step do not.
LEMMA OthersKnown ==
  ASSUME IInv, IInv', Flights, Honest, TokensKnown, Grows,
         \/ Tick \/ UNCHANGED vars
         \/ \E r \in Requests : AllowRead(r) \/ Acquire(r) \/ Release(r)
  PROVE  Honest' /\ TokensKnown'
<1>1. UNCHANGED <<used, conf>>
  BY DEF Tick, vars, AllowRead, Acquire, Release
<1>2. Quiet
  BY <1>1 DEF Quiet, Grows
<1>3. CASE UNCHANGED <<buckets, limits, windows>>
  BY <1>2, <1>3, SameWindowsKnown
<1>4. CASE ~UNCHANGED <<buckets, limits, windows>>
  <2>1. PICK r \in Requests : conf[r].maxParallel # 0 /\ GetBucket(TokenOf[r], conf[r])
    BY <1>4 DEF Tick, vars, AllowRead, Acquire, Release, bucketVars
  <2>2. conf[r] \in Configs /\ TokenOf[r] \in Tokens
    BY <2>1, TokenOfAssumption DEF IInv, TypeOK, NoConfig
  <2> QED
    BY <1>2, <2>1, <2>2, GetBucketKnown
<1> QED
  BY <1>3, <1>4

\* addRequest and starting a window again keep every entry for a call.
LEMMA DecidedTokens ==
  ASSUME NEW r \in Requests, NEW i \in DOMAIN limits[TokenOf[r]].rules,
         windows[TokenOf[r]][i] \in Window
  PROVE  Decided(r, i).toks = windows[TokenOf[r]][i].toks
<1> DEFINE w == windows[TokenOf[r]][i]
           rule == limits[TokenOf[r]].rules[i]
           v == Rolled(w, rule, stamp[r])
<1>1. v.toks = w.toks
  BY DEF Rolled
<1>2. [v EXCEPT !.nreq = @ + 1].toks = w.toks
  <2>1. v = w \/ v = [reqs |-> w.reqs, toks |-> w.toks, start |-> stamp[r], nreq |-> 0, ntok |-> 0]
    BY DEF Rolled
  <2> QED
    BY <2>1 DEF Window
<1>3. [w EXCEPT !.reqs = YoungReqs(w, rule, stamp[r]) \cup {r}].toks = w.toks
  BY DEF Window
<1>4. WithRequest(w, rule, r, stamp[r]).toks = w.toks
  BY <1>1, <1>2, <1>3 DEF WithRequest
<1>5. \/ Decided(r, i) = WithRequest(w, rule, r, stamp[r])
      \/ Decided(r, i) = v \/ Decided(r, i) = w
  BY DEF Decided
<1> HIDE DEF w, v
<1> QED
  BY <1>1, <1>4, <1>5 DEF w

\* Allow under its mutex: a request that is counted is admitted, and read its time
\* no longer ago than a stall.
LEMMA AllowDecideKnown ==
  ASSUME IInv, IInv', Honest, TokensKnown, Grows, NEW r \in Requests, AllowDecide(r)
  PROVE  Honest' /\ TokensKnown'
<1> DEFINE t == TokenOf[r]
           rules == limits[t].rules
           over == {j \in DOMAIN rules : Exceeded(windows[t][j], rules[j], stamp[r])}
<1>1. pc[r] = "allow" /\ t \in Tokens /\ t \in buckets /\ ~Unlimited(conf[r])
      /\ stamp[r] <= clock /\ stamp[r] \in Nat /\ clock \in Nat /\ clock - stamp[r] <= MaxStall
  BY TokenOfAssumption DEF AllowDecide, IInv, Timing, Timed, TypeOK
<1>2. UNCHANGED <<clock, buckets, limits, conf, stamp, used>>
  BY DEF AllowDecide
<1>3. Quiet
  BY <1>2 DEF Quiet, Grows
<1>4. pc' = [pc EXCEPT ![r] = IF over = {} THEN "admitted" ELSE "denied"]
  BY DEF AllowDecide, Goto
<1>5. pc'[r] = (IF over = {} THEN "admitted" ELSE "denied")
      /\ \A q \in Requests \ {r} : pc'[q] = pc[q]
  BY <1>4 DEF IInv, TypeOK
<1>6. windows' = [windows EXCEPT ![t] = [i \in DOMAIN rules |-> Decided(r, i)]]
  BY DEF AllowDecide, Decided
<1>7. /\ \A i \in DOMAIN rules : windows'[t][i] = Decided(r, i)
      /\ \A u \in Tokens \ {t} : windows'[u] = windows[u]
  BY <1>1, <1>6 DEF IInv, TypeOK
<1>8. r \notin Admitted(t)
      /\ Admitted(t)' = IF over = {} THEN Admitted(t) \cup {r} ELSE Admitted(t)
  BY <1>1, <1>2, <1>5 DEF Admitted, Unlimited
<1>9. Calls(t)' = Calls(t)
  BY <1>2 DEF Calls
<1>10. ASSUME NEW u \in buckets \ {t}, NEW i \in DOMAIN limits[u].rules
       PROVE  Known(u, i)'
  <2>1. Known(u, i) /\ u \in Tokens
    BY DEF Honest, TokensKnown, Known, IInv, TypeOK
  <2>2. limits'[u] = limits[u] /\ windows'[u][i] = windows[u][i] /\ u \in buckets
    BY <1>2, <1>7, <2>1
  <2> QED
    BY <1>3, <2>1, <2>2, WindowStays
<1>11. ASSUME NEW i \in DOMAIN rules PROVE HonestBy(t, i)'
  <2> DEFINE rule == rules[i]
             w == windows[t][i]
             R == Admitted(t)
             C == Calls(t)
             at == stamp[r]
             now == clock
  <2>1. rule \in Rule /\ w \in Window /\ TypeOK
    BY <1>1, BucketTypes DEF IInv
  <2>2. CountsOnly(w, R, C, now, stamp, used)
    BY <1>1 DEF Honest, HonestBy
  <2>3. R \in SUBSET Requests /\ C \in SUBSET (Requests \X {1, 2})
    BY <1>1, MadeTypes
  <2>4. HonestBy(t, i)' <=> CountsOnly(Decided(r, i), Admitted(t)', C, now, stamp, used)
    BY <1>2, <1>7, <1>9 DEF HonestBy
  <2>5. CASE over = {}
    <3>1. Decided(r, i) = WithRequest(w, rule, r, at)
      BY <2>5 DEF Decided
    <3>2. Admitted(t)' = R \cup {r} /\ r \notin R
      BY <1>8, <2>5
    <3>3. now = clock /\ now \in Nat /\ stamp[r] <= now /\ now - stamp[r] <= MaxStall
      BY <1>1
    <3>4. CountsOnly(WithRequest(w, rule, r, stamp[r]), R \cup {r}, C, now, stamp, used)
      <4> HIDE DEF rule, w, R, C, now
      <4> QED
        BY <2>1, <2>2, <2>3, <3>2, <3>3, CountsRequest
    <3> QED
      BY <2>4, <3>1, <3>2, <3>4
  <2>6. CASE over # {}
    <3>1. Decided(r, i) = w \/ Decided(r, i) = Rolled(w, rule, at)
      BY <2>6 DEF Decided
    <3>2. Admitted(t)' = R
      BY <1>8, <2>6
    <3>3. at \in Nat /\ at <= now /\ now \in Nat
      BY <1>1
    <3>4. CountsOnly(Rolled(w, rule, at), R, C, now, stamp, used)
      <4> HIDE DEF rule, w, R, C, now, at
      <4> QED
        BY <2>1, <2>2, <2>3, <3>3, CountsRolled
    <3> QED
      BY <2>2, <2>4, <3>1, <3>2, <3>4
  <2> QED
    BY <2>5, <2>6
<1>12. ASSUME NEW i \in DOMAIN rules PROVE CallsKnown(t, i)'
  <2>1. windows[t][i] \in Window /\ rules[i] \in Rule
    BY <1>1, BucketTypes
  <2>2. windows'[t][i].toks = windows[t][i].toks
    BY <1>7, <2>1, DecidedTokens
  <2>3. RecentCalls(t, limits[t].rules[i])' = RecentCalls(t, limits[t].rules[i])
    BY <1>2, <1>9 DEF RecentCalls, ReportedAt
  <2>4. CallsKnown(t, i)
    BY <1>1 DEF TokensKnown
  <2> QED
    BY <1>2, <2>2, <2>3, <2>4 DEF CallsKnown
<1> QED
  <2> SUFFICES ASSUME NEW u \in buckets, NEW i \in DOMAIN limits[u].rules PROVE Known(u, i)'
    BY <1>2 DEF Honest, TokensKnown, Known
  <2>1. CASE u = t
    BY <1>11, <1>12, <2>1 DEF Known
  <2>2. CASE u # t
    BY <1>10, <2>2
  <2> QED
    BY <2>1, <2>2

\* A call is a recent one of its own token, if its policy has rules.
LEMMA RecordedCalls ==
  ASSUME IInv, IInv', Grows, NEW r \in Requests, NEW n \in Counts, RecordTokens(r, n),
         NEW u \in Tokens, NEW rule \in Rule, NEW e \in RecentCalls(u, rule)'
  PROVE  \/ e \in RecentCalls(u, rule)
         \/ u = TokenOf[r] /\ conf[r].rules # <<>> /\ e = <<r, Len(used[r]) + 1>>
<1> DEFINE new == <<r, Len(used[r]) + 1>>
<1>1. UNCHANGED <<clock, conf>>
  BY DEF RecordTokens
<1>2. e \in Calls(u)' /\ conf[e[1]].rules # <<>> /\ ReportedAt(e, used') > clock - rule.duration
  BY <1>1 DEF RecentCalls
<1>3. e \in Calls(u) \/ (u = TokenOf[r] /\ e = new)
  <2>1. /\ Calls(TokenOf[r])' = Calls(TokenOf[r]) \cup {new}
        /\ \A x \in Tokens \ {TokenOf[r]} : Calls(x)' = Calls(x)
    BY RecordTokensEffect
  <2> HIDE DEF new
  <2> QED
    BY <1>2, <2>1
<1>4. CASE e \in Calls(u)
  <2>1. ReportedAt(e, used') = ReportedAt(e, used)
    BY <1>4 DEF Grows
  <2> QED
    BY <1>2, <1>4, <2>1 DEF RecentCalls
<1>5. CASE u = TokenOf[r] /\ e = new
  BY <1>2, <1>5
<1> QED
  BY <1>3, <1>4, <1>5

\* A window that a RecordTokens call does not reach.
LEMMA RecordTokensPast ==
  ASSUME IInv, IInv', Honest, TokensKnown, Grows,
         NEW r \in Requests, NEW n \in Counts, RecordTokens(r, n),
         NEW u \in buckets, NEW i \in DOMAIN limits[u].rules,
         windows'[u][i] = windows[u][i], u # TokenOf[r] \/ conf[r].rules = <<>>
  PROVE  Known(u, i)'
<1>1. u \in Tokens /\ limits[u].rules[i] \in Rule /\ Known(u, i) /\ UNCHANGED <<clock, limits>>
  BY BucketTypes DEF IInv, TypeOK, Honest, TokensKnown, Known, RecordTokens
<1>2. HonestBy(u, i)'
  BY <1>1, HonestStays DEF Known
<1>3. PICK rule \in Rule : rule = limits[u].rules[i]
  BY <1>1
<1>4. RecentCalls(u, rule)' \subseteq RecentCalls(u, rule)
  BY <1>1, RecordedCalls
<1>5. limits'[u].rules[i] = rule
  BY <1>1, <1>3
<1>6. RecentCalls(u, limits[u].rules[i])' = RecentCalls(u, rule)'
  BY <1>5 DEF RecentCalls
<1>7. CallsKnown(u, i)'
  BY <1>1, <1>3, <1>4, <1>5, <1>6 DEF CallsKnown, Known
<1> QED
  BY <1>2, <1>7 DEF Known

\* A window that a RecordTokens call reaches counts it, and what it counted.
LEMMA RecordTokensHonest ==
  ASSUME IInv, IInv', Honest, Grows, NEW r \in Requests, NEW n \in Counts, RecordTokens(r, n),
         TokenOf[r] \in buckets, NEW i \in DOMAIN limits[TokenOf[r]].rules,
         windows'[TokenOf[r]][i] =
           WithTokens(windows[TokenOf[r]][i], limits[TokenOf[r]].rules[i], r,
                      Len(used[r]) + 1, n, clock)
  PROVE  HonestBy(TokenOf[r], i)'
<1> DEFINE t == TokenOf[r]
           k == Len(used[r]) + 1
           rule == limits[t].rules[i]
           w == windows[t][i]
           R == Admitted(t)
           C == Calls(t)
           now == clock
           then == used'
           x == WithTokens(w, rule, r, k, n, now)
<1>1. t \in Tokens /\ rule \in Rule /\ w \in Window
  BY BucketTypes DEF IInv, TypeOK
<1>2. now \in Nat /\ now <= now /\ used \in [Requests -> Seq([n: Counts, at: Nat])]
      /\ then \in [Requests -> Seq([n: Counts, at: Nat])]
  <2>1. TypeOK /\ TypeOK'
    BY DEF IInv
  <2>2. now \in Nat /\ used \in [Requests -> Seq([n: Counts, at: Nat])]
    BY <2>1 DEF TypeOK
  <2>3. then \in [Requests -> Seq([n: Counts, at: Nat])]
    BY <2>1 DEF TypeOK
  <2>4. now <= now
    BY <2>2
  <2> QED
    BY <2>2, <2>3, <2>4
<1>3. R \in SUBSET Requests /\ C \in SUBSET (Requests \X {1, 2})
  BY <1>1, MadeTypes
<1>4. \A e \in C : /\ Amounts(then)[e] = Amounts(used)[e]
                   /\ ReportedAt(e, then) = ReportedAt(e, used)
  BY <1>1 DEF Grows
<1>5. CountsOnly(w, R, C, now, stamp, used)
  BY DEF Honest, HonestBy
<1>6. k \in {1, 2} /\ n \in Nat /\ <<r, k>> \notin C /\ Calls(t)' = C \cup {<<r, k>>}
      /\ Amounts(then)[<<r, k>>] = n /\ ReportedAt(<<r, k>>, then) = now
  BY <1>1, RecordTokensEffect
<1>7. HonestBy(t, i)' <=> CountsOnly(x, R, Calls(t)', now, stamp, then)
  <2>1. Admitted(t)' = R /\ UNCHANGED <<clock, stamp>>
    BY DEF RecordTokens, Admitted
  <2> QED
    BY <2>1 DEF HonestBy
<1> HIDE DEF k, rule, w, R, C, now, then
<1>8. CountsOnly(w, R, C, now, stamp, then)
  <2>1. w.reqs \subseteq R /\ w.toks \subseteq C /\ R \subseteq R /\ C \subseteq C
    BY <1>5 DEF CountsOnly
  <2> QED
    BY <1>1, <1>2, <1>3, <1>4, <1>5, <2>1, CountsMore
<1>9. CountsOnly(x, R, C \cup {<<r, k>>}, now, stamp, then)
  BY <1>1, <1>2, <1>3, <1>6, <1>8, CountsTokens
<1> QED
  BY <1>6, <1>7, <1>9

\* A sliding window over tokens that a RecordTokens call reaches knows it, and the
\* calls it knew that are still young.
LEMMA RecordTokensYoung ==
  ASSUME IInv, IInv', TokensKnown, Grows,
         NEW r \in Requests, NEW n \in Counts, RecordTokens(r, n),
         TokenOf[r] \in buckets, NEW i \in DOMAIN limits[TokenOf[r]].rules,
         windows'[TokenOf[r]][i] =
           WithTokens(windows[TokenOf[r]][i], limits[TokenOf[r]].rules[i], r,
                      Len(used[r]) + 1, n, clock)
  PROVE  CallsKnown(TokenOf[r], i)'
<1> DEFINE t == TokenOf[r]
           e == <<r, Len(used[r]) + 1>>
           w == windows[t][i]
<1>1. t \in Tokens /\ limits[t].rules[i] \in Rule /\ w \in Window /\ UNCHANGED limits
  BY BucketTypes DEF IInv, TypeOK, RecordTokens
<1>2. PICK rule \in Rule : rule = limits[t].rules[i]
  BY <1>1
<1>3. limits'[t].rules[i] = rule
  BY <1>1, <1>2
<1>4. RecentCalls(t, limits[t].rules[i])' = RecentCalls(t, rule)'
  BY <1>3 DEF RecentCalls
<1>5. \A f \in RecentCalls(t, rule)' : f \in RecentCalls(t, rule) \/ f = e
  BY <1>1, RecordedCalls
<1>6. ASSUME rule.tokens > 0, ~rule.fixed, rule.duration + Flight <= Kept
      PROVE  RecentCalls(t, rule)' \subseteq windows'[t][i].toks
  <2>1. RecentCalls(t, rule) \subseteq w.toks
    BY <1>2, <1>6 DEF TokensKnown, CallsKnown
  <2>2. RecentCalls(t, rule) \subseteq YoungToks(w, rule, clock)
    BY <2>1 DEF RecentCalls, YoungToks, ReportedAt
  <2>3. rule.tokens # 0
    BY <1>2, <1>6, RuleType
  <2>4. windows'[t][i] = [w EXCEPT !.toks = YoungToks(w, rule, clock) \cup {e}]
    BY <1>2, <1>6, <2>3 DEF WithTokens
  <2>5. windows'[t][i].toks = YoungToks(w, rule, clock) \cup {e}
    BY <1>1, <2>4 DEF Window
  <2> HIDE DEF e, w
  <2> QED
    BY <1>5, <2>2, <2>5
<1> QED
  BY <1>3, <1>4, <1>6 DEF CallsKnown

\* RecordTokens keeps the windows honest, and what they know.
LEMMA RecordTokensKnown ==
  ASSUME IInv, IInv', Honest, TokensKnown, Grows,
         NEW r \in Requests, NEW n \in Counts, RecordTokens(r, n)
  PROVE  Honest' /\ TokensKnown'
<1> DEFINE t == TokenOf[r]
           k == Len(used[r]) + 1
           rules == limits[t].rules
<1>1. t \in Tokens /\ UNCHANGED <<buckets, limits>>
  BY TokenOfAssumption DEF RecordTokens
<1> SUFFICES ASSUME NEW u \in buckets, NEW i \in DOMAIN limits[u].rules PROVE Known(u, i)'
  BY <1>1 DEF Honest, TokensKnown, Known
<1>2. u \in Tokens
  BY DEF IInv, TypeOK
<1>3. CASE conf[r].rules = <<>> \/ t \notin buckets
  <2>1. windows' = windows /\ (u # t \/ conf[r].rules = <<>>)
    BY <1>3 DEF RecordTokens
  <2> QED
    BY <2>1, RecordTokensPast
<1>4. CASE ~(conf[r].rules = <<>> \/ t \notin buckets)
  <2>1. windows' = [windows EXCEPT ![t] = [j \in DOMAIN rules |->
                      WithTokens(windows[t][j], rules[j], r, k, n, clock)]]
    BY <1>4 DEF RecordTokens
  <2>2. /\ \A j \in DOMAIN rules :
             windows'[t][j] = WithTokens(windows[t][j], rules[j], r, k, n, clock)
        /\ u # t => windows'[u] = windows[u]
    BY <1>1, <1>2, <2>1 DEF IInv, TypeOK
  <2>3. CASE u = t
    BY <1>4, <2>2, <2>3, RecordTokensHonest, RecordTokensYoung DEF Known
  <2>4. CASE u # t
    BY <2>2, <2>4, RecordTokensPast
  <2> QED
    BY <2>3, <2>4
<1> QED
  BY <1>3, <1>4

\* A request that is not touched, while no time passes.
LEMMA FlightStays ==
  ASSUME NEW q \in Requests, FlightOf(q), clock' = clock,
         pc'[q] = pc[q], stamp'[q] = stamp[q], used'[q] = used[q]
  PROVE  FlightOf(q)'
BY DEF FlightOf

\* A request makes its calls while it runs, and runs no longer than it may.
LEMMA NextFlights == IInv /\ Flights /\ [Next]_vars => Flights'
<1> SUFFICES ASSUME IInv, Flights, [Next]_vars, NEW q \in Requests PROVE FlightOf(q)'
  BY DEF Flights
<1>1. FlightOf(q)
  BY DEF Flights
<1>2. Flight \in Nat /\ MaxStall <= Flight /\ MaxFlight <= Flight
      /\ MaxStall \in Nat /\ MaxFlight \in Nat
  BY TimeAssumption DEF Flight
<1>3. clock \in Nat /\ stamp[q] \in Nat /\ used[q] \in Seq([n: Counts, at: Nat])
  BY DEF IInv, TypeOK
<1>4. ASSUME NEW r \in Requests, NEW c \in Configs, AllowEnter(r, c) PROVE FlightOf(q)'
  <2>1. clock' = clock /\ used' = used
    BY <1>4 DEF AllowEnter
  <2>2. CASE q = r
    <3>1. used[q] = <<>>
      BY <1>4, <2>2, NewIsQuiet DEF AllowEnter
    <3>2. pc'[q] # "running"
      BY <1>4, <2>2 DEF AllowEnter, Goto, IInv, TypeOK
    <3> QED
      BY <2>1, <3>1, <3>2 DEF FlightOf
  <2>3. CASE q # r
    BY <1>1, <1>4, <2>1, <2>3, FlightStays DEF AllowEnter, Goto, IInv, TypeOK
  <2> QED
    BY <2>2, <2>3
<1>5. ASSUME NEW r \in Requests, AllowDecide(r) \/ Acquire(r) \/ Release(r)
      PROVE  FlightOf(q)'
  <2>1. UNCHANGED <<clock, stamp, used>> /\ pc[r] \in {"allow", "admitted", "running"}
        /\ \E p \in Place :
             /\ pc' = [pc EXCEPT ![r] = p]
             /\ pc[r] = "allow" => p # "running"
             /\ pc[r] = "admitted" => p = "running"
             /\ pc[r] = "running" => p = "done"
    BY <1>5 DEF AllowDecide, Acquire, Release, Goto, Place
  <2>2. CASE q = r
    <3>1. pc' \in [Requests -> Place]
      BY <2>1 DEF IInv, TypeOK
    <3>2. /\ pc[r] = "allow" => pc'[r] # "running"
          /\ pc[r] = "admitted" => pc'[r] = "running"
          /\ pc[r] = "running" => pc'[r] = "done"
      BY <2>1 DEF IInv, TypeOK
    <3>3. pc[r] = "admitted" => clock - stamp[r] <= MaxStall
      BY DEF IInv, Timing, Timed
    <3>4. pc'[q] = "running" => clock - stamp[q] <= Flight
      BY <1>2, <1>3, <2>1, <2>2, <3>2, <3>3
    <3>5. used[q] # <<>> => pc'[q] \in {"running", "done"}
      BY <1>1, <2>1, <2>2, <3>2 DEF FlightOf
    <3> QED
      BY <1>1, <2>1, <3>4, <3>5 DEF FlightOf
  <2>3. CASE q # r
    BY <1>1, <2>1, <2>3, FlightStays DEF IInv, TypeOK
  <2> QED
    BY <2>2, <2>3
<1>6. ASSUME NEW r \in Requests, NEW n \in Counts, RecordTokens(r, n) PROVE FlightOf(q)'
  <2>1. UNCHANGED <<clock, stamp, pc>> /\ pc[r] = "running"
    BY <1>6 DEF RecordTokens
  <2>2. CASE q = r
    <3> DEFINE k == Len(used[r]) + 1
    <3>1. /\ k \in {1, 2} /\ Len(used'[r]) = k /\ used'[r][k] = [n |-> n, at |-> clock]
          /\ \A j \in 1..Len(used[r]) : used'[r][j] = used[r][j]
      BY <1>6, RecordTokensEffect
    <3>2. used'[r] = Append(used[r], [n |-> n, at |-> clock])
      BY <1>6 DEF RecordTokens, IInv, TypeOK
    <3>3. DOMAIN used'[r] = DOMAIN used[r] \cup {k} /\ DOMAIN used[r] = 1..Len(used[r])
      BY <1>3, <2>2, <3>2
    <3>4. clock - stamp[r] <= Flight
      BY <1>1, <2>1, <2>2 DEF FlightOf
    <3>5. ASSUME NEW j \in DOMAIN used'[r]
          PROVE  used'[r][j].at <= clock /\ used'[r][j].at - stamp[r] <= Flight
      <4>1. CASE j = k
        BY <1>3, <3>1, <3>4, <4>1
      <4>2. CASE j \in DOMAIN used[r]
        BY <1>1, <2>2, <3>1, <3>3, <4>2 DEF FlightOf
      <4> QED
        BY <3>3, <3>5, <4>1, <4>2
    <3>6. Len(used'[r]) <= 2
      BY <3>1
    <3> QED
      BY <2>1, <2>2, <3>4, <3>5, <3>6 DEF FlightOf
  <2>3. CASE q # r
    <3>1. used'[q] = used[q]
      BY <1>6, <2>3 DEF RecordTokens, IInv, TypeOK
    <3> QED
      BY <1>1, <2>1, <3>1, FlightStays
  <2> QED
    BY <2>2, <2>3
<1>7. CASE Tick
  <2>1. clock' = clock + 1 /\ UNCHANGED <<pc, stamp, used>>
    BY <1>7 DEF Tick
  <2>2. pc[q] = "running" => clock - stamp[q] < MaxFlight
    BY <1>7 DEF Tick
  <2>3. pc[q] = "running" => (clock + 1) - stamp[q] <= Flight
    BY <1>2, <1>3, <2>2
  <2>4. ASSUME NEW j \in DOMAIN used[q]
        PROVE  used[q][j].at <= clock + 1 /\ used[q][j].at - stamp[q] <= Flight
    <3>1. j \in 1..Len(used[q])
      BY <1>3
    <3>2. used[q][j] \in [n: Counts, at: Nat]
      BY <1>3, <3>1, ElementType
    <3>3. used[q][j].at \in Nat
      BY <3>2
    <3>4. used[q][j].at <= clock /\ used[q][j].at - stamp[q] <= Flight
      BY <1>1 DEF FlightOf
    <3> QED
      BY <1>3, <3>3, <3>4
  <2>5. Len(used[q]) <= 2 /\ (used[q] # <<>> => pc[q] \in {"running", "done"})
    BY <1>1 DEF FlightOf
  <2>6. /\ clock' = clock + 1 /\ stamp'[q] = stamp[q]
        /\ used'[q] = used[q] /\ pc'[q] = pc[q]
    BY <2>1
  <2>7. \A j \in DOMAIN used'[q] :
          used'[q][j].at <= clock' /\ used'[q][j].at - stamp'[q] <= Flight
    BY <2>4, <2>6
  <2>8. pc'[q] = "running" => clock' - stamp'[q] <= Flight
    BY <2>3, <2>6
  <2>9. Len(used'[q]) <= 2 /\ (used'[q] # <<>> => pc'[q] \in {"running", "done"})
    BY <2>5, <2>6
  <2> QED
    BY <2>7, <2>8, <2>9 DEF FlightOf
<1>8. CASE UNCHANGED vars
  BY <1>1, <1>8, FlightStays DEF vars
<1>9. ASSUME NEW r \in Requests, AllowRead(r) PROVE FlightOf(q)'
  <2>1. clock' = clock /\ used' = used /\ pc[r] = "looked"
    BY <1>9 DEF AllowRead
  <2>2. CASE q = r
    <3>1. used[q] = <<>>
      BY <1>1, <2>1, <2>2 DEF FlightOf
    <3>2. pc'[q] # "running"
      BY <1>9, <2>2 DEF AllowRead, Goto, IInv, TypeOK
    <3> QED
      BY <2>1, <3>1, <3>2 DEF FlightOf
  <2>3. CASE q # r
    BY <1>1, <1>9, <2>1, <2>3, FlightStays DEF AllowRead, Goto, IInv, TypeOK
  <2> QED
    BY <2>2, <2>3
<1> QED
  BY <1>4, <1>5, <1>6, <1>7, <1>8, <1>9 DEF Next

\* Every step keeps the windows honest, and what they know of the calls.
LEMMA NextKnown ==
  IInv /\ IInv' /\ Flights /\ Honest /\ TokensKnown /\ [Next]_vars => Honest' /\ TokensKnown'
<1> SUFFICES ASSUME IInv, IInv', Flights, Honest, TokensKnown, [Next]_vars
             PROVE  Honest' /\ TokensKnown'
  OBVIOUS
<1>1. Grows
  BY OnlyMore
<1>2. ASSUME NEW r \in Requests, NEW c \in Configs, AllowEnter(r, c)
      PROVE  Honest' /\ TokensKnown'
  BY <1>1, <1>2, AllowEnterKnown
<1>3. ASSUME NEW r \in Requests, AllowDecide(r) PROVE Honest' /\ TokensKnown'
  BY <1>1, <1>3, AllowDecideKnown
<1>4. ASSUME NEW r \in Requests, NEW n \in Counts, RecordTokens(r, n)
      PROVE  Honest' /\ TokensKnown'
  BY <1>1, <1>4, RecordTokensKnown
<1>5. CASE \/ Tick \/ UNCHANGED vars
           \/ \E r \in Requests : AllowRead(r) \/ Acquire(r) \/ Release(r)
  BY <1>1, <1>5, OthersKnown
<1> QED
  BY <1>2, <1>3, <1>4, <1>5 DEF Next

\* The windows of every reachable state are honest and know the calls that are young.
LEMMA Knowledge == Spec => [](IInv /\ Flights /\ Honest /\ TokensKnown)
<1>1. Init => Flights /\ Honest /\ TokensKnown
  <2> SUFFICES ASSUME Init PROVE Flights /\ Honest /\ TokensKnown
    OBVIOUS
  <2>1. Honest /\ TokensKnown
    BY DEF Init, Honest, TokensKnown
  <2>2. ASSUME NEW r \in Requests PROVE pc[r] = "new" /\ used[r] = <<>>
    BY DEF Init
  <2> QED
    BY <2>1, <2>2 DEF Flights, FlightOf
<1>2. Init => IInv
  BY InitIInv
<1>3. IInv /\ [Next]_vars => IInv'
  BY NextIInv
<1> QED
  BY <1>1, <1>2, <1>3, NextFlights, NextKnown, PTL DEF Spec

----------------------------------------------------------------------------
(* What the steps of Allow may do.                                         *)

\* Only AllowDecide of a request that waits for the mutex admits it, and only if no
\* rule is exceeded.
LEMMA AdmittedBy ==
  ASSUME TypeOK, [Next]_vars, NEW r \in Requests, pc[r] = "allow", pc'[r] = "admitted"
  PROVE  \A i \in DOMAIN limits[TokenOf[r]].rules :
           ~Exceeded(windows[TokenOf[r]][i], limits[TokenOf[r]].rules[i], stamp[r])
<1> DEFINE t == TokenOf[r]
           over == {i \in DOMAIN limits[t].rules :
                      Exceeded(windows[t][i], limits[t].rules[i], stamp[r])}
<1>1. CASE AllowDecide(r)
  <2>1. pc' = [pc EXCEPT ![r] = IF over = {} THEN "admitted" ELSE "denied"]
    BY <1>1 DEF AllowDecide, Goto
  <2>2. over = {}
    BY <2>1 DEF TypeOK
  <2> QED
    BY <2>2
<1>2. CASE Tick \/ UNCHANGED vars
  BY <1>2 DEF Tick, vars
<1>3. ASSUME NEW q \in Requests, NEW c \in Configs, AllowEnter(q, c) PROVE FALSE
  BY <1>3 DEF AllowEnter, Goto, TypeOK
<1>4. ASSUME NEW q \in Requests \ {r}, AllowDecide(q) PROVE FALSE
  BY <1>4 DEF AllowDecide, Goto, TypeOK
<1>5. ASSUME NEW q \in Requests, Acquire(q) \/ Release(q) PROVE FALSE
  BY <1>5 DEF Acquire, Release, Goto, TypeOK
<1>6. ASSUME NEW q \in Requests, NEW n \in Counts, RecordTokens(q, n) PROVE FALSE
  BY <1>6 DEF RecordTokens
<1>7. ASSUME NEW q \in Requests, AllowRead(q) PROVE FALSE
  BY <1>7 DEF AllowRead, Goto, TypeOK
<1> QED
  BY <1>1, <1>2, <1>3, <1>4, <1>5, <1>6, <1>7 DEF Next

\* No request is admitted while the tokens reported within a sliding window have used
\* the rule up, if buckets are kept for a window and a flight: neither pruning nor
\* collection forgets a young call.
THEOREM TokensGated == ASSUME KeptThroughFlights PROVE Spec => TokenGate
<1> DEFINE Safe ==
      \A r \in Requests :
        pc[r] = "allow" /\ pc'[r] = "admitted" =>
          \A i \in DOMAIN limits[TokenOf[r]].rules :
            LET rule == limits[TokenOf[r]].rules[i] IN
            rule.tokens > 0 /\ ~rule.fixed => RecentTokens(TokenOf[r], rule) < rule.tokens
<1>1. ASSUME IInv, Honest, TokensKnown, [Next]_vars PROVE [Safe]_vars
  <2> SUFFICES ASSUME NEW r \in Requests, pc[r] = "allow", pc'[r] = "admitted",
                      NEW i \in DOMAIN limits[TokenOf[r]].rules,
                      limits[TokenOf[r]].rules[i].tokens > 0,
                      ~limits[TokenOf[r]].rules[i].fixed
               PROVE  RecentTokens(TokenOf[r], limits[TokenOf[r]].rules[i])
                        < limits[TokenOf[r]].rules[i].tokens
    OBVIOUS
  <2> DEFINE t == TokenOf[r]
             rule == limits[t].rules[i]
             w == windows[t][i]
             known == RecentCalls(t, rule)
             young == YoungToks(w, rule, stamp[r])
  <2>1. t \in buckets /\ t \in Tokens /\ stamp[r] <= clock
    BY <1>1 DEF IInv, Timing, Timed, TypeOK
  <2>2. rule \in Rule /\ w \in Window /\ limits[t] \in Configs \cup {NoConfig}
    BY <1>1, <2>1, BucketTypes DEF IInv, TypeOK
  <2>3. limits[t] \in Configs
    BY <2>2 DEF NoConfig
  <2>4. known \subseteq w.toks
    BY <1>1, <2>1, <2>3 DEF TokensKnown, CallsKnown, KeptThroughFlights
  <2>5. w.toks \subseteq Calls(t)
    BY <1>1, <2>1 DEF Honest, HonestBy, CountsOnly
  <2>6. known \subseteq young
    <3> SUFFICES ASSUME NEW e \in known PROVE e \in young
      OBVIOUS
    <3>1. e \in Calls(t) /\ ReportedAt(e, used) > clock - rule.duration
      BY DEF RecentCalls
    <3>2. ReportedAt(e, used) \in Nat
      BY <1>1, <2>1, <3>1, CallType DEF IInv
    <3> DEFINE at == ReportedAt(e, used)
    <3>3. at \in Nat /\ stamp[r] \in Nat /\ clock \in Nat /\ rule.duration \in Nat
      BY <1>1, <2>2, <3>2, RuleType DEF IInv, TypeOK
    <3>4. at > clock - rule.duration
      BY <3>1
    <3>5. at > stamp[r] - rule.duration
      <4> HIDE DEF at, rule
      <4> QED
        BY <2>1, <3>3, <3>4
    <3>6. e \in w.toks
      BY <2>4
    <3> QED
      BY <3>5, <3>6 DEF YoungToks, ReportedAt
  <2>7. young \in SUBSET (Requests \X {1, 2}) /\ \A e \in young : e[2] <= Len(used[e[1]])
    BY <2>5 DEF YoungToks, Calls
  <2>8. Spent(known) <= Spent(young) /\ Spent(known) \in Nat /\ Spent(young) \in Nat
    <3> HIDE DEF known, young
    <3> QED
      BY <1>1, <2>6, <2>7, SpentMore DEF IInv
  <2>9. Spent(young) < rule.tokens
    <3>1. ~Exceeded(w, rule, stamp[r])
      BY <1>1, AdmittedBy DEF IInv
    <3>2. ~(Spent(young) >= rule.tokens)
      BY <3>1 DEF Exceeded, CountTokens
    <3>3. rule.tokens \in Nat
      BY <2>2, RuleType
    <3> HIDE DEF young, rule
    <3> QED
      BY <2>8, <3>2, <3>3
  <2>10. RecentTokens(t, rule) = Spent(known)
    <3>1. known = {e \in Requests \X {1, 2} :
                     /\ TokenOf[e[1]] = t /\ conf[e[1]].rules # <<>>
                     /\ e[2] <= Len(used[e[1]])
                     /\ used[e[1]][e[2]].at > clock - rule.duration}
      BY DEF RecentCalls, Calls, ReportedAt
    <3> HIDE DEF known
    <3> QED
      BY <3>1 DEF RecentTokens
  <2>11. rule.tokens \in Nat
    BY <2>2, RuleType
  <2> HIDE DEF known, young, rule
  <2> QED
    BY <2>8, <2>9, <2>10, <2>11 DEF rule
<1>2. IInv /\ Flights /\ Honest /\ TokensKnown /\ [Next]_vars => [Safe]_vars
  BY <1>1
<1> QED
  BY <1>2, Knowledge, PTL DEF Spec, TokenGate

\* What Allow finds in a window when it turns a request away.
DeniedBy(r, rule) ==
  LET t == TokenOf[r]
      since == stamp[r] - rule.duration - IF rule.fixed THEN MaxStall ELSE 0
  IN \/ /\ rule.requests > 0
        /\ Cardinality({q \in Admitted(t) : stamp[q] > since}) >= rule.requests
     \/ /\ rule.tokens > 0
        /\ Spent({e \in Requests \X {1, 2} :
                    /\ TokenOf[e[1]] = t /\ e[2] <= Len(used[e[1]])
                    /\ used[e[1]][e[2]].at > since}) >= rule.tokens

\* As many requests or tokens as the rule allows are enough to turn one away.
LEMMA EnoughToDeny ==
  ASSUME TypeOK, NEW r \in Requests, NEW rule \in Rule, NEW since \in Int,
         since = stamp[r] - rule.duration - (IF rule.fixed THEN MaxStall ELSE 0),
         \/ /\ rule.requests > 0
            /\ \E B \in SUBSET Admitted(TokenOf[r]) :
                 rule.requests <= Cardinality(B) /\ \A q \in B : stamp[q] > since
         \/ /\ rule.tokens > 0
            /\ \E D \in SUBSET Calls(TokenOf[r]) :
                 rule.tokens <= Spent(D) /\ \A e \in D : ReportedAt(e, used) > since
  PROVE  DeniedBy(r, rule)
<1> DEFINE t == TokenOf[r]
<1>1. t \in Tokens /\ rule.requests \in Nat /\ rule.tokens \in Nat
  BY TokenOfAssumption, RuleType
<1>2. ASSUME rule.requests > 0, NEW B \in SUBSET Admitted(t), rule.requests <= Cardinality(B),
             \A q \in B : stamp[q] > since
      PROVE  DeniedBy(r, rule)
  <2> DEFINE A == {q \in Admitted(t) : stamp[q] > since}
  <2>1. A \in SUBSET Requests /\ B \in SUBSET A
    BY <1>2 DEF Admitted
  <2>2. IsFiniteSet(A) /\ IsFiniteSet(B) /\ Cardinality(B) <= Cardinality(A)
    <3> HIDE DEF A
    <3> QED
      BY <2>1, RequestsAssumption, FS_Subset
  <2>3. Cardinality(A) \in Nat /\ Cardinality(B) \in Nat
    BY <2>2, FS_CardinalityType
  <2>4. Cardinality(A) >= rule.requests
    <3> HIDE DEF A
    <3> QED
      BY <1>1, <1>2, <2>2, <2>3
  <2> QED
    BY <1>2, <2>4 DEF DeniedBy
<1>3. ASSUME rule.tokens > 0, NEW D \in SUBSET Calls(t), rule.tokens <= Spent(D),
             \A e \in D : ReportedAt(e, used) > since
      PROVE  DeniedBy(r, rule)
  <2> DEFINE C == {e \in Requests \X {1, 2} :
                     /\ TokenOf[e[1]] = t /\ e[2] <= Len(used[e[1]])
                     /\ used[e[1]][e[2]].at > since}
  <2>1. C \in SUBSET (Requests \X {1, 2}) /\ \A e \in C : e[2] <= Len(used[e[1]])
    OBVIOUS
  <2>2. D \in SUBSET C
    BY <1>3 DEF Calls, ReportedAt
  <2>3. Spent(D) <= Spent(C) /\ Spent(D) \in Nat /\ Spent(C) \in Nat
    <3> HIDE DEF C
    <3> QED
      BY <2>1, <2>2, SpentMore
  <2>4. Spent(C) >= rule.tokens
    <3> HIDE DEF C
    <3> QED
      BY <1>1, <1>3, <2>3
  <2> QED
    BY <1>3, <2>4 DEF DeniedBy
<1> QED
  BY <1>2, <1>3

\* A window that exceeds its rule when a request reads it really counts that many.
LEMMA ExceededIsEnough ==
  ASSUME IInv, Honest, NEW r \in Requests, pc[r] = "allow",
         NEW i \in DOMAIN limits[TokenOf[r]].rules,
         Exceeded(windows[TokenOf[r]][i], limits[TokenOf[r]].rules[i], stamp[r])
  PROVE  DeniedBy(r, limits[TokenOf[r]].rules[i])
<1> DEFINE t == TokenOf[r]
           rule == limits[t].rules[i]
           w == windows[t][i]
           at == stamp[r]
           since == at - rule.duration - (IF rule.fixed THEN MaxStall ELSE 0)
<1>1. t \in buckets /\ t \in Tokens
  BY DEF IInv, Timing, Timed, TypeOK
<1>2. rule \in Rule /\ w \in Window /\ TypeOK
  BY <1>1, BucketTypes DEF IInv
<1>3. /\ rule.duration \in Nat /\ rule.requests \in Nat /\ rule.tokens \in Nat
      /\ rule.fixed \in BOOLEAN /\ w.start \in Int /\ w.nreq \in Nat /\ w.ntok \in Nat
  BY <1>2, RuleType, WindowType
<1>4. at \in Nat /\ MaxStall \in Nat /\ \A q \in Requests : stamp[q] \in Nat
  BY <1>2, TimeAssumption DEF TypeOK
<1>5. since \in Int
  BY <1>3, <1>4
<1>6. /\ w.reqs \subseteq Admitted(t) /\ w.toks \subseteq Calls(t)
      /\ \E B \in SUBSET Admitted(t) : /\ w.nreq <= Cardinality(B)
                                       /\ \A q \in B : w.start - MaxStall <= stamp[q]
      /\ \E D \in SUBSET Calls(t) : /\ w.ntok <= SumOver(Amounts(used), D)
                                    /\ \A e \in D : w.start <= ReportedAt(e, used)
  BY <1>1 DEF Honest, HonestBy, CountsOnly
<1>7. Admitted(t) \in SUBSET Requests /\ Calls(t) \in SUBSET (Requests \X {1, 2})
  BY <1>1, MadeTypes
<1>8. SUFFICES
        \/ /\ rule.requests > 0
           /\ \E B \in SUBSET Admitted(t) :
                rule.requests <= Cardinality(B) /\ \A q \in B : stamp[q] > since
        \/ /\ rule.tokens > 0
           /\ \E D \in SUBSET Calls(t) :
                rule.tokens <= Spent(D) /\ \A e \in D : ReportedAt(e, used) > since
  <2>1. since = stamp[r] - rule.duration - (IF rule.fixed THEN MaxStall ELSE 0)
    OBVIOUS
  <2> HIDE DEF since, rule
  <2> QED
    BY <1>2, <1>5, <1>8, <2>1, EnoughToDeny DEF rule
<1>9. CASE ~rule.fixed
  <2>1. since = at - rule.duration
    BY <1>3, <1>4, <1>9
  <2>2. CASE rule.requests > 0 /\ CountRequests(w, rule, at) >= rule.requests
    <3> DEFINE B == YoungReqs(w, rule, at)
    <3>1. B \in SUBSET Admitted(t) /\ \A q \in B : stamp[q] > since
      BY <1>6, <2>1 DEF YoungReqs
    <3>2. Cardinality(B) >= rule.requests
      BY <1>9, <2>2 DEF CountRequests
    <3>3. Cardinality(B) \in Nat
      BY <1>7, <3>1, RequestsAssumption, FS_Subset, FS_CardinalityType
    <3>4. rule.requests <= Cardinality(B)
      <4> HIDE DEF B, rule
      <4> QED
        BY <1>3, <3>2, <3>3
    <3> HIDE DEF B, rule, since
    <3> QED
      BY <2>2, <3>1, <3>4
  <2>3. CASE rule.tokens > 0 /\ CountTokens(w, rule, at) >= rule.tokens
    <3> DEFINE D == YoungToks(w, rule, at)
    <3>1. D \in SUBSET Calls(t) /\ \A e \in D : ReportedAt(e, used) > since
      BY <1>6, <2>1 DEF YoungToks, ReportedAt
    <3>2. Spent(D) >= rule.tokens
      BY <1>9, <2>3 DEF CountTokens
    <3>3. Spent(D) \in Nat
      <4>1. D \in SUBSET (Requests \X {1, 2}) /\ \A e \in D : e[2] <= Len(used[e[1]])
        BY <3>1 DEF Calls
      <4> HIDE DEF D
      <4> QED
        BY <1>2, <4>1, SpentMore
    <3>4. rule.tokens <= Spent(D)
      <4> HIDE DEF D, rule
      <4> QED
        BY <1>3, <3>2, <3>3
    <3> HIDE DEF D, rule, since
    <3> QED
      BY <2>3, <3>1, <3>4
  <2> QED
    BY <2>2, <2>3 DEF Exceeded
<1>10. CASE rule.fixed
  <2>1. since = at - rule.duration - MaxStall
    BY <1>3, <1>4, <1>10
  <2> DEFINE over == at - w.start >= rule.duration
  <2>2. CASE rule.requests > 0 /\ CountRequests(w, rule, at) >= rule.requests
    <3>1. rule.requests + rule.tokens > 0
      BY <1>3, <2>2
    <3>2. Rolled(w, rule, at).nreq >= rule.requests
      BY <1>10, <2>2 DEF CountRequests
    <3>3. ASSUME over PROVE FALSE
      <4>1. Rolled(w, rule, at).nreq = 0
        BY <1>10, <3>1, <3>3 DEF Rolled
      <4> QED
        BY <1>3, <2>2, <3>2, <4>1
    <3>4. Rolled(w, rule, at) = w
      BY <3>3 DEF Rolled
    <3>5. w.nreq >= rule.requests
      BY <3>2, <3>4
    <3>6. PICK B \in SUBSET Admitted(t) :
            w.nreq <= Cardinality(B) /\ \A q \in B : w.start - MaxStall <= stamp[q]
      BY <1>6
    <3>7. Cardinality(B) \in Nat
      BY <1>7, RequestsAssumption, FS_Subset, FS_CardinalityType
    <3>8. rule.requests <= Cardinality(B)
      <4> HIDE DEF rule, w
      <4> QED
        BY <1>3, <3>5, <3>6, <3>7
    <3>9. \A q \in B : stamp[q] > since
      <4> SUFFICES ASSUME NEW q \in B PROVE stamp[q] > since
        OBVIOUS
      <4>1. w.start - MaxStall <= stamp[q] /\ stamp[q] \in Nat
        BY <1>4, <1>7, <3>6
      <4>2. ~(at - w.start >= rule.duration)
        BY <3>3
      <4> HIDE DEF rule, w, since, at
      <4> QED
        BY <1>3, <1>4, <2>1, <4>1, <4>2
    <3> HIDE DEF rule, since
    <3> QED
      BY <2>2, <3>8, <3>9
  <2>3. CASE rule.tokens > 0 /\ CountTokens(w, rule, at) >= rule.tokens
    <3>1. rule.requests + rule.tokens > 0
      BY <1>3, <2>3
    <3>2. Rolled(w, rule, at).ntok >= rule.tokens
      BY <1>10, <2>3 DEF CountTokens
    <3>3. ASSUME over PROVE FALSE
      <4>1. Rolled(w, rule, at).ntok = 0
        BY <1>10, <3>1, <3>3 DEF Rolled
      <4> QED
        BY <1>3, <2>3, <3>2, <4>1
    <3>4. Rolled(w, rule, at) = w
      BY <3>3 DEF Rolled
    <3>5. w.ntok >= rule.tokens
      BY <3>2, <3>4
    <3>6. PICK D \in SUBSET Calls(t) :
            /\ w.ntok <= SumOver(Amounts(used), D)
            /\ \A e \in D : w.start <= ReportedAt(e, used)
      BY <1>6
    <3>7. D \in SUBSET (Requests \X {1, 2}) /\ \A e \in D : e[2] <= Len(used[e[1]])
      BY DEF Calls
    <3>8. Spent(D) = SumOver(Amounts(used), D) /\ Spent(D) \in Nat
      BY <1>2, <3>7, SpentIsSum, SpentMore
    <3>9. rule.tokens <= Spent(D)
      <4> HIDE DEF rule, w
      <4> QED
        BY <1>3, <3>5, <3>6, <3>8
    <3>10. \A e \in D : ReportedAt(e, used) > since
      <4> SUFFICES ASSUME NEW e \in D PROVE ReportedAt(e, used) > since
        OBVIOUS
      <4> DEFINE when == ReportedAt(e, used)
      <4>1. w.start <= when /\ when \in Nat
        BY <1>1, <1>2, <3>6, CallType
      <4>2. ~(at - w.start >= rule.duration)
        BY <3>3
      <4> HIDE DEF rule, w, since, at, when
      <4>3. when > since
        BY <1>3, <1>4, <2>1, <4>1, <4>2
      <4> QED
        BY <4>3 DEF when
    <3> HIDE DEF rule, since
    <3> QED
      BY <2>3, <3>9, <3>10
  <2> QED
    BY <2>2, <2>3 DEF Exceeded
<1> QED
  BY <1>3, <1>9, <1>10

\* A request is turned away only for a limit its token has used up.
THEOREM DenialsDue == Spec => NoFalseDenial
<1> DEFINE Due(r) ==
      LET t == TokenOf[r] IN
      \/ /\ limits'[t].maxParallel > 0
         /\ Cardinality(Holders(t)) >= limits'[t].maxParallel
      \/ \E i \in DOMAIN limits[t].rules :
           LET rule == limits[t].rules[i]
               since == stamp[r] - rule.duration - IF rule.fixed THEN MaxStall ELSE 0
           IN \/ /\ rule.requests > 0
                 /\ Cardinality({q \in Admitted(t) : stamp[q] > since}) >= rule.requests
              \/ /\ rule.tokens > 0
                 /\ Spent({e \in Requests \X {1, 2} :
                             /\ TokenOf[e[1]] = t /\ e[2] <= Len(used[e[1]])
                             /\ used[e[1]][e[2]].at > since}) >= rule.tokens
           Safe == \A r \in Requests : pc[r] # "denied" /\ pc'[r] = "denied" => Due(r)
<1>1. ASSUME IInv, Honest, [Next]_vars PROVE [Safe]_vars
  <2> SUFFICES ASSUME NEW r \in Requests, pc[r] # "denied", pc'[r] = "denied" PROVE Due(r)
    OBVIOUS
  <2> DEFINE t == TokenOf[r]
  <2>1. ASSUME NEW i \in DOMAIN limits[t].rules, DeniedBy(r, limits[t].rules[i]) PROVE Due(r)
    BY <2>1 DEF DeniedBy
  <2>2. ASSUME limits'[t].maxParallel > 0, Cardinality(Holders(t)) >= limits'[t].maxParallel
        PROVE  Due(r)
    BY <2>2
  <2> HIDE DEF Due
  <2>3. CASE AllowDecide(r)
    <3> DEFINE over == {i \in DOMAIN limits[t].rules :
                          Exceeded(windows[t][i], limits[t].rules[i], stamp[r])}
    <3>1. pc' = [pc EXCEPT ![r] = IF over = {} THEN "admitted" ELSE "denied"]
      BY <2>3 DEF AllowDecide, Goto
    <3>2. over # {}
      BY <1>1, <3>1 DEF IInv, TypeOK
    <3>3. PICK i \in DOMAIN limits[t].rules :
            Exceeded(windows[t][i], limits[t].rules[i], stamp[r])
      BY <3>2
    <3>4. pc[r] = "allow"
      BY <2>3 DEF AllowDecide
    <3>5. DeniedBy(r, limits[t].rules[i])
      BY <1>1, <3>3, <3>4, ExceededIsEnough
    <3> QED
      BY <2>1, <3>5
  <2>4. CASE AllowRead(r)
    <3> DEFINE full == limits[t].maxParallel > 0 /\ parallel[t] >= limits[t].maxParallel
    <3>1. pc' = [pc EXCEPT ![r] = IF full THEN "denied" ELSE "allow"] /\ limits' = limits
      BY <2>4 DEF AllowRead, Goto, bucketVars
    <3>2. full
      BY <1>1, <3>1 DEF IInv, TypeOK
    <3>3. parallel[t] = Cardinality(Holders(t))
      BY <1>1, TokenOfAssumption DEF IInv, Counter, ParallelIsHolders
    <3> QED
      BY <2>2, <3>1, <3>2, <3>3
  <2>5. CASE Tick \/ UNCHANGED vars
    BY <2>5 DEF Tick, vars
  <2>6. ASSUME NEW q \in Requests \ {r}, AllowDecide(q) \/ AllowRead(q) PROVE FALSE
    BY <1>1, <2>6 DEF AllowDecide, AllowRead, Goto, IInv, TypeOK
  <2>7. ASSUME NEW q \in Requests, Acquire(q) \/ Release(q) PROVE FALSE
    BY <1>1, <2>7 DEF Acquire, Release, Goto, IInv, TypeOK
  <2>8. ASSUME NEW q \in Requests, NEW n \in Counts, RecordTokens(q, n) PROVE FALSE
    BY <2>8 DEF RecordTokens
  <2>9. ASSUME NEW q \in Requests, NEW c \in Configs, AllowEnter(q, c) PROVE FALSE
    BY <1>1, <2>9 DEF AllowEnter, Goto, IInv, TypeOK
  <2> QED
    BY <1>1, <2>3, <2>4, <2>5, <2>6, <2>7, <2>8, <2>9 DEF Next
<1>2. IInv /\ Flights /\ Honest /\ TokensKnown /\ [Next]_vars => [Safe]_vars
  BY <1>1
<1> QED
  BY <1>2, Knowledge, PTL DEF Spec, NoFalseDenial
================================================================================
