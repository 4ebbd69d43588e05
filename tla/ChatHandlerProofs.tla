--------------------------- MODULE ChatHandlerProofs ---------------------------
(***************************************************************************)
(* Proofs about the chat handler, for any number of concurrent requests,   *)
(* models, retries and fallbacks: its upstream calls follow the schedule   *)
(* (CallOrder), none is left out (TriesEverything), the records of a       *)
(* finished request agree (RecordsAgree), the budget counter is what the   *)
(* ledger explains (LedgerExplainsUsage), the prompts paid for fit a       *)
(* budget (InputCap), and the handler keeps the account book of the token  *)
(* (KeepsBook).  The first three follow from what is known of one request  *)
(* (LoopInv, RecordsInv); the others are about all requests at once, and   *)
(* their invariant (BudgetInv) sums over sets of requests.                 *)
(***************************************************************************)
EXTENDS ChatHandler, SequenceTheorems, SumTheorems

Places == {"new", "checks", "calling", "exhausted", "using", "leaving", "done"}
CallRecord == [model: Models, outcome: Codes \cup {0}]

\* What the retry loop uses.
LoopTypes ==
  /\ pc \in [Requests -> Places]
  /\ mi \in [Requests -> Nat \ {0}] /\ att \in [Requests -> Nat]
  /\ last \in [Requests -> RetryOn \cup {0}]
  /\ calls \in [Requests -> Seq(CallRecord)]

\* How many calls were made when the loop is at model mi and attempt att.
Position(r) ==
  /\ pc[r] \in {"new", "checks"} => calls[r] = <<>> /\ mi[r] = 1 /\ att[r] = 0
  /\ pc[r] = "calling" =>
       /\ mi[r] \in 1..Len(Schedule(r)) /\ att[r] \in 0..MaxAttempts(r) - 1
       /\ Len(calls[r]) = MaxAttempts(r) * (mi[r] - 1) + att[r]
  /\ pc[r] = "exhausted" => Len(calls[r]) = MaxAttempts(r) * Len(Schedule(r))

\* The calls made follow the schedule, and while the loop goes on all have failed.
Follows(r) ==
  /\ Len(calls[r]) <= MaxAttempts(r) * Len(Schedule(r))
  /\ \A k \in DOMAIN calls[r] :
       /\ calls[r][k].model = Schedule(r)[1 + (k - 1) \div MaxAttempts(r)]
       /\ k < Len(calls[r]) \/ pc[r] \in {"calling", "exhausted"} =>
            calls[r][k].outcome \in RetryOn \cup {0}

LastNamedOnce(r) ==
  \A k \in 1..(Len(Schedule(r)) - 1) : Schedule(r)[k] # Schedule(r)[Len(Schedule(r))]

\* A response that failed and is used all the same was the last one of the schedule.
Tried(r) ==
  /\ pc[r] \in {"using", "leaving", "done"} /\ calls[r] # <<>>
  /\ calls[r][Len(calls[r])].outcome \in RetryOn \cup {0}
  /\ PolicyOf[r].retries > 0 /\ LastNamedOnce(r)
  => Len(calls[r]) = MaxAttempts(r) * Len(Schedule(r))

LoopInv == LoopTypes /\ \A r \in Requests : Position(r) /\ Follows(r) /\ Tried(r)

----------------------------------------------------------------------------

\* The quotient of a position by the attempts for each model.
LEMMA Quotient ==
  ASSUME NEW m \in Nat \ {0}, NEW q \in Nat, NEW a \in 0..m - 1
  PROVE  (m * q + a) \div m = q
<1> DEFINE d == (m * q + a) \div m
<1>1. m * q + a \in Nat /\ m * q \in Nat
  OBVIOUS
<1>2. d \in Int /\ m * d <= m * q + a /\ m * q + a < m * d + m
  BY <1>1
<1> HIDE DEF d
<1>3. ~(d < q)
  <2>1. SUFFICES ASSUME d + 1 <= q PROVE FALSE
    BY <1>2
  <2>2. m * (d + 1) <= m * q
    BY <1>2, <2>1
  <2> QED
    BY <1>2, <2>2
<1>4. ~(d > q)
  <2>1. SUFFICES ASSUME q + 1 <= d PROVE FALSE
    BY <1>2
  <2>2. m * (q + 1) <= m * d
    BY <1>2, <2>1
  <2> QED
    BY <1>2, <2>2
<1> QED
  BY <1>2, <1>3, <1>4 DEF d

\* A position in the schedule is within it.
LEMMA WithinSchedule ==
  ASSUME NEW m \in Nat \ {0}, NEW n \in Nat \ {0}, NEW i \in 1..n, NEW a \in 0..m - 1
  PROVE  m * (i - 1) + a + 1 <= m * n
<1> DEFINE x == m * (i - 1)
<1>1. x + m = m * i
  BY SMT
<1>2. n - i \in Nat
  OBVIOUS
<1>3. m * (n - i) \in Nat /\ m * n = m * i + m * (n - i)
  BY <1>2
<1>4. x \in Int /\ m * n \in Int
  OBVIOUS
<1> DEFINE y == m * n
           z == m * (n - i)
           w == m * i
<1>5. /\ x + m = w /\ y = w + z /\ z \in Nat /\ x \in Int /\ w \in Int /\ y \in Int
      /\ a + 1 <= m
  BY <1>1, <1>3, <1>4
<1> HIDE DEF x, y, z, w
<1>6. x + a + 1 <= y
  BY <1>5
<1> QED
  BY <1>6 DEF x, y

\* The schedule is a sequence of models, never empty, each tried at least once.
LEMMA ScheduleType ==
  ASSUME NEW r \in Requests
  PROVE  /\ Schedule(r) \in Seq(Models) /\ Len(Schedule(r)) \in Nat \ {0}
         /\ MaxAttempts(r) \in Nat \ {0}
<1>1. /\ ModelOf[r] \in Models /\ PolicyOf[r].fallbacks \in Seq(Models)
      /\ PolicyOf[r].retries \in Nat
  BY InputsAssumption, PoliciesAssumption
<1>2. <<ModelOf[r]>> \in Seq(Models) /\ Len(<<ModelOf[r]>>) = 1
  BY <1>1
<1>3. /\ Schedule(r) \in Seq(Models)
      /\ Len(Schedule(r)) = 1 + Len(PolicyOf[r].fallbacks)
  BY <1>1, <1>2, ConcatProperties DEF Schedule
<1>4. Len(PolicyOf[r].fallbacks) \in Nat
  BY <1>1, LenProperties
<1> QED
  BY <1>1, <1>3, <1>4 DEF MaxAttempts

\* A call is one more of the schedule.
LEMMA CallFollows ==
  ASSUME LoopTypes, NEW r \in Requests, pc[r] = "calling", Position(r), Follows(r),
         NEW outcome \in Codes \cup {0}, Called(r, outcome)
  PROVE  /\ calls' \in [Requests -> Seq(CallRecord)]
         /\ \A x \in Requests \ {r} : calls'[x] = calls[x]
         /\ Len(calls'[r]) = Len(calls[r]) + 1
         /\ Len(calls'[r]) <= MaxAttempts(r) * Len(Schedule(r))
         /\ \A k \in DOMAIN calls'[r] :
              /\ calls'[r][k].model = Schedule(r)[1 + (k - 1) \div MaxAttempts(r)]
              /\ k < Len(calls'[r]) => calls'[r][k].outcome \in RetryOn \cup {0}
         /\ calls'[r][Len(calls'[r])].outcome = outcome
<1> DEFINE m == MaxAttempts(r)
           n == Len(Schedule(r))
           old == calls[r]
           call == [model |-> Schedule(r)[mi[r]], outcome |-> outcome]
<1>1. /\ m \in Nat \ {0} /\ n \in Nat \ {0} /\ Schedule(r) \in Seq(Models)
      /\ mi[r] \in 1..n /\ att[r] \in 0..m - 1 /\ mi[r] - 1 \in Nat
      /\ Len(old) = m * (mi[r] - 1) + att[r]
  BY ScheduleType DEF Position
<1>2. call \in CallRecord
  BY <1>1, ElementOfSeq DEF CallRecord
<1>3. old \in Seq(CallRecord) /\ calls' = [calls EXCEPT ![r] = Append(old, call)]
  BY DEF LoopTypes, Called, Add
<1> HIDE DEF call, old
<1>4. /\ Append(old, call) \in Seq(CallRecord)
      /\ Len(Append(old, call)) = Len(old) + 1
      /\ \A k \in 1..Len(old) : Append(old, call)[k] = old[k]
      /\ Append(old, call)[Len(old) + 1] = call
  BY <1>2, <1>3, AppendProperties
<1>5. /\ calls' \in [Requests -> Seq(CallRecord)] /\ calls'[r] = Append(old, call)
      /\ \A x \in Requests \ {r} : calls'[x] = calls[x]
  BY <1>3, <1>4 DEF LoopTypes
<1>6. Len(old) \in Nat /\ DOMAIN calls'[r] = 1..(Len(old) + 1) /\ DOMAIN old = 1..Len(old)
  BY <1>3, <1>4, <1>5, LenProperties
<1>7. Len(old) + 1 <= m * n
  BY <1>1, WithinSchedule
<1>8. call.model = Schedule(r)[1 + Len(old) \div m] /\ call.outcome = outcome
  <2>1. Len(old) \div m = mi[r] - 1
    BY <1>1, Quotient
  <2>2. 1 + Len(old) \div m = mi[r]
    BY <1>1, <2>1
  <2> QED
    BY <2>2 DEF call
<1>9. ASSUME NEW k \in DOMAIN calls'[r]
      PROVE  /\ calls'[r][k].model = Schedule(r)[1 + (k - 1) \div m]
             /\ k < Len(calls'[r]) => calls'[r][k].outcome \in RetryOn \cup {0}
  <2>1. CASE k \in DOMAIN old
    <3>1. calls'[r][k] = old[k]
      BY <1>4, <1>5, <1>6, <2>1
    <3> QED
      BY <2>1, <3>1 DEF Follows, old
  <2>2. CASE k = Len(old) + 1
    <3>1. calls'[r][k] = call /\ k - 1 = Len(old) /\ ~(k < Len(calls'[r]))
      BY <1>4, <1>5, <1>6, <2>2
    <3> QED
      BY <1>8, <3>1
  <2> QED
    BY <1>6, <2>1, <2>2
<1> QED
  BY <1>4, <1>5, <1>7, <1>8, <1>9 DEF old

\* A failed call leads to the next attempt, the next model, or the end of the loops.
LEMMA ContinueKeeps ==
  ASSUME LoopTypes, NEW r \in Requests, pc[r] = "calling", Position(r), Follows(r),
         NEW outcome \in RetryOn \cup {0}, Called(r, outcome), Continue(r)
  PROVE  /\ pc' \in [Requests -> Places] /\ calls' \in [Requests -> Seq(CallRecord)]
         /\ mi' \in [Requests -> Nat \ {0}] /\ att' \in [Requests -> Nat]
         /\ Position(r)' /\ Follows(r)' /\ Tried(r)'
         /\ \A x \in Requests \ {r} : /\ pc'[x] = pc[x] /\ calls'[x] = calls[x]
                                      /\ mi'[x] = mi[x] /\ att'[x] = att[x]
<1> DEFINE m == MaxAttempts(r)
           n == Len(Schedule(r))
<1>1. /\ m \in Nat \ {0} /\ n \in Nat \ {0}
      /\ mi[r] \in 1..n /\ att[r] \in 0..m - 1
      /\ Len(calls[r]) = m * (mi[r] - 1) + att[r]
  BY ScheduleType DEF Position
<1>2. outcome \in Codes \cup {0}
  BY CodesAssumption
<1>3. /\ calls' \in [Requests -> Seq(CallRecord)]
      /\ \A x \in Requests \ {r} : calls'[x] = calls[x]
      /\ Len(calls'[r]) = Len(calls[r]) + 1
      /\ Len(calls'[r]) <= m * n
      /\ \A k \in DOMAIN calls'[r] :
           /\ calls'[r][k].model = Schedule(r)[1 + (k - 1) \div m]
           /\ k < Len(calls'[r]) => calls'[r][k].outcome \in RetryOn \cup {0}
      /\ calls'[r][Len(calls'[r])].outcome = outcome
  BY <1>2, CallFollows
<1>4. DOMAIN calls'[r] = 1..Len(calls'[r]) /\ Len(calls'[r]) \in Nat
  BY <1>3, LenProperties
<1>5. \A k \in DOMAIN calls'[r] : calls'[r][k].outcome \in RetryOn \cup {0}
  BY <1>3, <1>4
<1>6. Follows(r)'
  BY <1>3, <1>5 DEF Follows
<1>7. CASE att[r] + 1 < m
  <2>1. /\ att' = [att EXCEPT ![r] = att[r] + 1] /\ mi' = mi
        /\ pc' = [pc EXCEPT ![r] = "calling"]
    <3>1. att' = [att EXCEPT ![r] = att[r] + 1] /\ mi' = mi
      BY <1>7 DEF Continue, Set
    <3>2. pc' = [pc EXCEPT ![r] = IF mi'[r] > n THEN "exhausted" ELSE "calling"]
      BY DEF Continue, Goto, Set
    <3>3. ~(mi'[r] > n)
      BY <1>1, <3>1
    <3> QED
      BY <3>1, <3>2, <3>3
  <2>2. Len(calls'[r]) = m * (mi'[r] - 1) + att'[r]
    <3> DEFINE x == m * (mi[r] - 1)
    <3>1. x \in Int /\ Len(calls[r]) = x + att[r]
      BY <1>1
    <3>2. mi'[r] = mi[r] /\ att'[r] = att[r] + 1
      BY <2>1 DEF LoopTypes
    <3> HIDE DEF x
    <3>3. Len(calls'[r]) = x + att'[r]
      BY <1>1, <1>3, <3>1, <3>2
    <3> QED
      BY <3>2, <3>3 DEF x
  <2>3. pc'[r] = "calling" /\ mi'[r] = mi[r] /\ att'[r] = att[r] + 1
    BY <2>1 DEF LoopTypes
  <2>4. Position(r)' /\ Tried(r)'
    BY <1>1, <1>7, <2>2, <2>3 DEF Position, Tried
  <2>5. /\ pc' \in [Requests -> Places] /\ mi' \in [Requests -> Nat \ {0}]
        /\ att' \in [Requests -> Nat]
    BY <1>1, <2>1 DEF LoopTypes, Places
  <2> QED
    BY <1>3, <1>6, <2>1, <2>4, <2>5 DEF LoopTypes
<1>8. CASE ~(att[r] + 1 < m)
  <2> DEFINE place == IF mi[r] + 1 > n THEN "exhausted" ELSE "calling"
  <2>1. /\ att' = [att EXCEPT ![r] = 0] /\ mi' = [mi EXCEPT ![r] = mi[r] + 1]
        /\ pc' = [pc EXCEPT ![r] = place]
    BY <1>1, <1>8 DEF Continue, Goto, Set, LoopTypes
  <2>2. pc'[r] = place /\ mi'[r] = mi[r] + 1 /\ att'[r] = 0
    BY <2>1 DEF LoopTypes
  <2>3. Len(calls'[r]) = m * mi[r]
    <3>1. att[r] = m - 1
      BY <1>1, <1>8
    <3>2. m * (mi[r] - 1) + m = m * mi[r] /\ m * (mi[r] - 1) \in Int
      BY <1>1
    <3> QED
      BY <1>1, <1>3, <3>1, <3>2
  <2>4. place = "exhausted" => mi[r] = n
    BY <1>1
  <2>5. place # "exhausted" => place = "calling" /\ mi[r] + 1 \in 1..n
    BY <1>1
  <2>6. 0 \in 0..m - 1 /\ (mi[r] + 1) - 1 = mi[r] /\ m * mi[r] + 0 = m * mi[r]
    BY <1>1
  <2>7. Position(r)'
    BY <2>2, <2>3, <2>4, <2>5, <2>6 DEF Position
  <2>8. Tried(r)'
    BY <2>2 DEF Tried
  <2>9. /\ pc' \in [Requests -> Places] /\ mi' \in [Requests -> Nat \ {0}]
        /\ att' \in [Requests -> Nat]
    BY <1>1, <2>1 DEF LoopTypes, Places
  <2> QED
    BY <1>3, <1>6, <2>1, <2>7, <2>8, <2>9 DEF LoopTypes
<1> QED
  BY <1>7, <1>8

\* Nothing changes for the requests that do not take the step.
LEMMA OthersKeep ==
  ASSUME NEW x \in Requests, Position(x), Follows(x), Tried(x),
         pc'[x] = pc[x], calls'[x] = calls[x], mi'[x] = mi[x], att'[x] = att[x]
  PROVE  Position(x)' /\ Follows(x)' /\ Tried(x)'
<1>1. Position(x)'
  BY DEF Position
<1>2. Follows(x)'
  BY DEF Follows
<1>3. Tried(x)'
  BY DEF Tried
<1> QED
  BY <1>1, <1>2, <1>3

\* Steps outside the retry loop.
LEMMA OutsideLoop ==
  ASSUME LoopTypes, NEW r \in Requests, Position(r), Follows(r), Tried(r),
         NEW place \in Places, pc' = [pc EXCEPT ![r] = place], UNCHANGED loop,
         \/ pc[r] = "new" /\ place \in {"checks", "done"}
         \/ pc[r] = "checks" /\ place \in {"calling", "leaving"}
         \/ pc[r] = "calling" /\ place = "leaving" /\ mi[r] = 1 /\ att[r] = 0
         \/ pc[r] \in {"exhausted", "using"} /\ place = "leaving"
         \/ pc[r] = "leaving" /\ place = "done"
  PROVE  /\ LoopTypes' /\ Position(r)' /\ Follows(r)' /\ Tried(r)'
         /\ \A x \in Requests \ {r} : /\ pc'[x] = pc[x] /\ calls'[x] = calls[x]
                                      /\ mi'[x] = mi[x] /\ att'[x] = att[x]
<1> DEFINE m == MaxAttempts(r)
           n == Len(Schedule(r))
<1>1. m \in Nat \ {0} /\ n \in Nat \ {0}
  BY ScheduleType
<1>2. /\ pc'[r] = place /\ calls'[r] = calls[r] /\ mi'[r] = mi[r] /\ att'[r] = att[r]
      /\ calls' = calls /\ mi' = mi /\ att' = att /\ last' = last
  BY DEF LoopTypes, loop
<1>3. LoopTypes'
  BY <1>2 DEF LoopTypes
<1>4. calls[r] = <<>> => Len(calls[r]) = 0
  OBVIOUS
<1>5. Position(r)'
  <2>1. 1 \in 1..n /\ 0 \in 0..m - 1 /\ m * (1 - 1) + 0 = 0
    BY <1>1
  <2> HIDE DEF m, n
  <2> QED
    BY <1>2, <1>4, <2>1 DEF Position, m, n
<1>6. Follows(r)'
  <2>1. ASSUME place = "calling" PROVE DOMAIN calls[r] = {}
    <3>1. calls[r] = <<>>
      BY <2>1 DEF Position
    <3> QED
      BY <3>1
  <2>2. place # "exhausted"
    OBVIOUS
  <2> QED
    BY <1>2, <2>1, <2>2 DEF Follows
<1>7. Tried(r)'
  <2>1. CASE pc[r] \in {"new", "checks"}
    BY <1>2, <2>1 DEF Tried, Position
  <2>2. CASE pc[r] = "calling"
    <3>1. Len(calls[r]) = 0
      <4>1. mi[r] = 1 /\ att[r] = 0
        BY <2>2
      <4>2. Len(calls[r]) = m * (mi[r] - 1) + att[r]
        BY <2>2 DEF Position
      <4>3. m * (1 - 1) + 0 = 0
        BY <1>1
      <4> HIDE DEF m
      <4> QED
        BY <4>1, <4>2, <4>3
    <3>2. calls[r] = <<>>
      BY <3>1, EmptySeq DEF LoopTypes
    <3> QED
      BY <1>2, <3>2 DEF Tried
  <2>3. CASE pc[r] = "exhausted"
    BY <1>2, <2>3 DEF Tried, Position
  <2>4. CASE pc[r] \in {"using", "leaving"}
    BY <1>2, <2>4 DEF Tried
  <2> QED
    BY <2>1, <2>2, <2>3, <2>4
<1>8. \A x \in Requests \ {r} : /\ pc'[x] = pc[x] /\ calls'[x] = calls[x]
                              /\ mi'[x] = mi[x] /\ att'[x] = att[x]
  BY <1>2 DEF LoopTypes
<1> QED
  BY <1>3, <1>5, <1>6, <1>7, <1>8

\* A failed response is used in the last attempt only.
LEMMA UseKeeps ==
  ASSUME LoopTypes, NEW r \in Requests, Position(r), Follows(r), NEW code \in Codes, Use(r, code)
  PROVE  /\ LoopTypes' /\ Position(r)' /\ Follows(r)' /\ Tried(r)'
         /\ \A x \in Requests \ {r} : /\ pc'[x] = pc[x] /\ calls'[x] = calls[x]
                                      /\ mi'[x] = mi[x] /\ att'[x] = att[x]
<1> DEFINE m == MaxAttempts(r)
           n == Len(Schedule(r))
<1>1. /\ pc[r] = "calling" /\ Called(r, code) /\ pc' = [pc EXCEPT ![r] = "using"]
      /\ mi' = mi /\ att' = att /\ last' = last
      /\ ShouldRetry(r, code) => IsLastAttempt(r)
  BY DEF Use, Goto, Set
<1>2. /\ m \in Nat \ {0} /\ n \in Nat \ {0}
      /\ mi[r] \in 1..n /\ att[r] \in 0..m - 1
      /\ Len(calls[r]) = m * (mi[r] - 1) + att[r]
  BY <1>1, ScheduleType DEF Position
<1>3. /\ calls' \in [Requests -> Seq(CallRecord)]
      /\ \A x \in Requests \ {r} : calls'[x] = calls[x]
      /\ Len(calls'[r]) = Len(calls[r]) + 1
      /\ Len(calls'[r]) <= m * n
      /\ \A k \in DOMAIN calls'[r] :
           /\ calls'[r][k].model = Schedule(r)[1 + (k - 1) \div m]
           /\ k < Len(calls'[r]) => calls'[r][k].outcome \in RetryOn \cup {0}
      /\ calls'[r][Len(calls'[r])].outcome = code
  BY <1>1, CallFollows
<1>4. pc'[r] = "using" /\ \A x \in Requests \ {r} : pc'[x] = pc[x]
  BY <1>1 DEF LoopTypes
<1>5. LoopTypes'
  BY <1>1, <1>3 DEF LoopTypes, Places
<1>6. Position(r)' /\ Follows(r)'
  BY <1>3, <1>4 DEF Position, Follows
<1>7. ASSUME code \in RetryOn \cup {0}, PolicyOf[r].retries > 0, LastNamedOnce(r)
      PROVE  Len(calls'[r]) = m * n
  <2>1. code \in RetryOn
    BY <1>7, CodesAssumption
  <2>2. att[r] >= m - 1 /\ Schedule(r)[mi[r]] = Schedule(r)[n]
    BY <1>1, <1>7, <2>1 DEF ShouldRetry, IsLastAttempt
  <2>3. mi[r] = n
    BY <1>2, <1>7, <2>2 DEF LastNamedOnce
  <2>4. att[r] = m - 1
    BY <1>2, <2>2
  <2>5. m * (n - 1) + m = m * n /\ m * (n - 1) \in Int
    BY <1>2
  <2> QED
    BY <1>2, <1>3, <2>3, <2>4, <2>5
<1>8. Tried(r)'
  BY <1>3, <1>7 DEF Tried, LastNamedOnce
<1> QED
  BY <1>1, <1>3, <1>4, <1>5, <1>6, <1>8

\* Every step keeps the invariant of the retry loop.
LEMMA LoopStep ==
  ASSUME LoopInv, [Next]_vars
  PROVE  LoopInv'
<1>1. CASE UNCHANGED vars
  BY <1>1, OthersKeep DEF LoopInv, LoopTypes, vars, loop
<1>2. ASSUME NEW r \in Requests, Step(r) PROVE LoopInv'
  <2>1. SUFFICES /\ LoopTypes' /\ Position(r)' /\ Follows(r)' /\ Tried(r)'
                 /\ \A x \in Requests \ {r} : /\ pc'[x] = pc[x] /\ calls'[x] = calls[x]
                                              /\ mi'[x] = mi[x] /\ att'[x] = att[x]
    BY OthersKeep DEF LoopInv
  <2>2. LoopTypes /\ Position(r) /\ Follows(r) /\ Tried(r)
    BY DEF LoopInv
  <2> USE DEF Goto, Set, Places
  <2>3. CASE BadRequest(r) \/ RateExceeded(r) \/ Admit(r)
    BY <2>2, <2>3, OutsideLoop DEF BadRequest, RateExceeded, Admit
  <2>4. CASE Forbidden(r) \/ Reserve(r)
    <3>1. /\ pc[r] = "checks" /\ UNCHANGED loop
          /\ \E place \in {"calling", "leaving"} : pc' = [pc EXCEPT ![r] = place]
      BY <2>4 DEF Forbidden, Reserve
    <3> QED
      BY <2>2, <3>1, OutsideLoop
  <2>5. CASE CannotBuild(r) \/ Exhausted(r) \/ Leave(r) \/ BodyFails(r)
    BY <2>2, <2>5, OutsideLoop DEF CannotBuild, Exhausted, Leave, BodyFails
  <2>6. ASSUME NEW k \in Outputs, Stream(r, k) \/ Buffered(r, k)
        PROVE  /\ LoopTypes' /\ Position(r)' /\ Follows(r)' /\ Tried(r)'
               /\ \A x \in Requests \ {r} : /\ pc'[x] = pc[x] /\ calls'[x] = calls[x]
                                            /\ mi'[x] = mi[x] /\ att'[x] = att[x]
    BY <2>2, <2>6, OutsideLoop DEF Stream, Buffered
  <2>7. CASE NetworkError(r)
    <3>1. /\ pc[r] = "calling" /\ Called(r, 0) /\ Continue(r) /\ last' = last
          /\ 0 \in RetryOn \cup {0}
      BY <2>7 DEF NetworkError
    <3> QED
      BY <2>2, <3>1, ContinueKeeps DEF LoopTypes
  <2>8. ASSUME NEW code \in Codes, Retry(r, code)
        PROVE  /\ LoopTypes' /\ Position(r)' /\ Follows(r)' /\ Tried(r)'
               /\ \A x \in Requests \ {r} : /\ pc'[x] = pc[x] /\ calls'[x] = calls[x]
                                            /\ mi'[x] = mi[x] /\ att'[x] = att[x]
    <3>1. /\ pc[r] = "calling" /\ Called(r, code) /\ Continue(r)
          /\ last' = [last EXCEPT ![r] = code] /\ code \in RetryOn \cup {0}
      BY <2>8 DEF Retry, ShouldRetry
    <3>2. last' \in [Requests -> RetryOn \cup {0}]
      BY <2>2, <3>1 DEF LoopTypes
    <3> QED
      BY <2>2, <3>1, <3>2, ContinueKeeps DEF LoopTypes
  <2>9. ASSUME NEW code \in Codes, Use(r, code)
        PROVE  /\ LoopTypes' /\ Position(r)' /\ Follows(r)' /\ Tried(r)'
               /\ \A x \in Requests \ {r} : /\ pc'[x] = pc[x] /\ calls'[x] = calls[x]
                                            /\ mi'[x] = mi[x] /\ att'[x] = att[x]
    BY <2>2, <2>9, UseKeeps
  <2> QED
    BY <1>2, <2>3, <2>4, <2>5, <2>6, <2>7, <2>8, <2>9 DEF Step
<1> QED
  BY <1>1, <1>2 DEF Next

\* Nothing was called when the requests arrive.
LEMMA LoopInit ==
  ASSUME Init
  PROVE  LoopInv
<1>1. LoopTypes
  BY EmptySeq DEF Init, LoopTypes, Places
<1>2. ASSUME NEW r \in Requests PROVE Position(r) /\ Follows(r) /\ Tried(r)
  <2>1. pc[r] = "new" /\ calls[r] = <<>> /\ mi[r] = 1 /\ att[r] = 0
    BY DEF Init
  <2>2. Len(calls[r]) = 0 /\ DOMAIN calls[r] = {}
    BY <2>1
  <2>3. 0 <= MaxAttempts(r) * Len(Schedule(r))
    BY ScheduleType
  <2>4. Position(r) /\ Tried(r)
    BY <2>1 DEF Position, Tried
  <2> QED
    BY <2>2, <2>3, <2>4 DEF Follows
<1> QED
  BY <1>1, <1>2 DEF LoopInv

\* The upstream calls of a request are the models of its policy in their order,
\* each tried at most as often as the policy says, and nothing is sent after a
\* response that was used: the retry loop of handleChatCompletions.
THEOREM CallsFollowSchedule == Spec => []CallOrder
<1>1. LoopInv => CallOrder
  BY DEF LoopInv, Follows, CallOrder
<1> QED
  BY LoopInit, LoopStep, <1>1, PTL DEF Spec

\* A request that ends with a failure to retry has made every call of its
\* schedule: only the last attempt of the last model lets such a response pass.
THEOREM AllAreTried == Spec => []TriesEverything
<1>1. LoopInv => TriesEverything
  BY DEF LoopInv, Tried, LastNamedOnce, TriesEverything
<1> QED
  BY LoopInit, LoopStep, <1>1, PTL DEF Spec

----------------------------------------------------------------------------
(* The records of a request.                                               *)

Events == {"rate.exceeded", "rule.violation", "budget.exceeded", "budget.update",
           "request.completed"}
StatRecord == [in: Nat, out: Nat, error: BOOLEAN]
LedgerRecord == [in: Nat, out: Nat, status: Nat]

RecordTypes ==
  /\ status \in [Requests -> Nat] /\ committed \in [Requests -> BOOLEAN]
  /\ stats \in [Requests -> Seq(StatRecord)] /\ ledger \in [Requests -> Seq(LedgerRecord)]
  /\ limiter \in [Requests -> Nat] /\ told \in [Requests -> SUBSET Events]

\* What RecordsAgree says of one finished request, and that the handler makes no ledger
\* entry for one without a response.
Agree(r) ==
  /\ Len(stats[r]) = (IF status[r] \in {400, 500} /\ calls[r] = <<>> THEN 0 ELSE 1)
  /\ Len(ledger[r]) = (IF committed[r] THEN 1 ELSE 0)
  /\ committed[r] <=> "budget.update" \in told[r]
  /\ committed[r] =>
       /\ limiter[r] = ledger[r][1].in + ledger[r][1].out
       /\ stats[r][1].in = ledger[r][1].in /\ stats[r][1].out = ledger[r][1].out
       /\ ledger[r][1].status = status[r]
  /\ ~committed[r] => limiter[r] = 0 /\ "request.completed" \notin told[r]

Unrecorded(r) ==
  stats[r] = <<>> /\ ledger[r] = <<>> /\ told[r] = {} /\ limiter[r] = 0 /\ ~committed[r]

Records(r) ==
  /\ pc[r] \in {"new", "checks", "calling", "exhausted"} => Unrecorded(r)
  /\ pc[r] = "using" =>
       /\ stats[r] = <<>> /\ ledger[r] = <<>> /\ told[r] = {"budget.update"}
       /\ limiter[r] = Prompt[r] /\ committed[r] /\ calls[r] # <<>>
  /\ pc[r] \in {"leaving", "done"} => Agree(r)

RecordsInv == RecordTypes /\ \A r \in Requests : Records(r)

\* The first element of a sequence.
LEMMA FirstElement ==
  ASSUME NEW S, NEW e \in S
  PROVE  /\ Append(<<>>, e) \in Seq(S) /\ Len(Append(<<>>, e)) = 1
         /\ Append(<<>>, e)[1] = e
<1>1. <<>> \in Seq(S) /\ Len(<<>>) = 0
  BY EmptySeq
<1> QED
  BY <1>1, AppendProperties

\* A request that is refused with an error code has one entry in the statistics.
LEMMA RefuseAgrees ==
  ASSUME RecordTypes, NEW r \in Requests, Unrecorded(r), LoopTypes,
         NEW code \in Nat, NEW events \in SUBSET (Events \ {"budget.update", "request.completed"}),
         NEW input \in Nat, Refuse(r, code, events, input),
         UNCHANGED <<committed, calls>>, code \notin {400, 500} \/ calls[r] # <<>>
  PROVE  RecordTypes' /\ Agree(r)'
<1> DEFINE e == [in |-> input, out |-> 0, error |-> TRUE]
<1>1. /\ status' = [status EXCEPT ![r] = code] /\ stats' = [stats EXCEPT ![r] = Append(<<>>, e)]
      /\ told' = [told EXCEPT ![r] = events]
      /\ limiter' = limiter /\ ledger' = ledger /\ committed' = committed /\ calls' = calls
  BY DEF Refuse, Set, Add, Unrecorded
<1>2. e \in StatRecord
  BY DEF StatRecord
<1> HIDE DEF e
<1>3. Append(<<>>, e) \in Seq(StatRecord) /\ Len(Append(<<>>, e)) = 1
  BY <1>2, FirstElement
<1>4. RecordTypes'
  BY <1>1, <1>3 DEF RecordTypes
<1>5. /\ status'[r] = code /\ Len(stats'[r]) = 1 /\ told'[r] = events
      /\ limiter'[r] = 0 /\ ledger'[r] = <<>> /\ ~committed'[r] /\ calls'[r] = calls[r]
  BY <1>1, <1>3 DEF RecordTypes, Unrecorded
<1>6. Len(<<>>) = 0
  OBVIOUS
<1> QED
  BY <1>4, <1>5, <1>6 DEF Agree

\* A response that was used has one entry in the statistics and one in the
\* ledger, with the same counts and the status the client is sent.
LEMMA RecordedAgrees ==
  ASSUME RecordTypes, NEW r \in Requests, pc[r] = "using", Records(r),
         NEW n \in Nat, NEW code \in Nat, NEW e \in StatRecord, e.in = Prompt[r], e.out = n,
         NEW events \in SUBSET (Events \ {"budget.update"}),
         status' = [status EXCEPT ![r] = code],
         stats' = Add(stats, r, e),
         ledger' = Add(ledger, r, [in |-> Prompt[r], out |-> n, status |-> code]),
         limiter' = [limiter EXCEPT ![r] = limiter[r] + n],
         told' = [told EXCEPT ![r] = told[r] \cup events],
         UNCHANGED <<committed, calls>>
  PROVE  RecordTypes' /\ Agree(r)'
<1> DEFINE l == [in |-> Prompt[r], out |-> n, status |-> code]
<1>1. /\ stats[r] = <<>> /\ ledger[r] = <<>> /\ told[r] = {"budget.update"}
      /\ limiter[r] = Prompt[r] /\ committed[r] /\ calls[r] # <<>>
  BY DEF Records
<1>2. Prompt[r] \in Nat
  BY InputsAssumption
<1>3. l \in LedgerRecord
  BY <1>2 DEF LedgerRecord
<1>4. l.in = Prompt[r] /\ l.out = n /\ l.status = code
  OBVIOUS
<1>5. stats' = [stats EXCEPT ![r] = Append(<<>>, e)]
  BY <1>1 DEF Add
<1>6. ledger' = [ledger EXCEPT ![r] = Append(<<>>, l)]
  BY <1>1 DEF Add
<1> HIDE DEF l
<1>7. /\ Append(<<>>, e) \in Seq(StatRecord) /\ Len(Append(<<>>, e)) = 1
      /\ Append(<<>>, e)[1] = e
  BY FirstElement
<1>8. /\ Append(<<>>, l) \in Seq(LedgerRecord) /\ Len(Append(<<>>, l)) = 1
      /\ Append(<<>>, l)[1] = l
  BY <1>3, FirstElement
<1>9. /\ stats'[r] = Append(<<>>, e) /\ ledger'[r] = Append(<<>>, l)
      /\ status'[r] = code /\ limiter'[r] = Prompt[r] + n
      /\ told'[r] = {"budget.update"} \cup events
      /\ committed'[r] /\ calls'[r] # <<>>
  BY <1>1, <1>5, <1>6 DEF RecordTypes
<1>10. RecordTypes'
  <2>1. status' \in [Requests -> Nat] /\ limiter' \in [Requests -> Nat]
    BY DEF RecordTypes
  <2>2. stats' \in [Requests -> Seq(StatRecord)]
    BY <1>5, <1>7 DEF RecordTypes
  <2>3. ledger' \in [Requests -> Seq(LedgerRecord)]
    BY <1>6, <1>8 DEF RecordTypes
  <2>4. told' \in [Requests -> SUBSET Events]
    BY DEF RecordTypes
  <2> QED
    BY <2>1, <2>2, <2>3, <2>4 DEF RecordTypes
<1>11. Agree(r)'
  <2>1. Len(stats'[r]) = 1 /\ Len(ledger'[r]) = 1
    BY <1>7, <1>8, <1>9
  <2>2. /\ limiter'[r] = ledger'[r][1].in + ledger'[r][1].out
        /\ stats'[r][1].in = ledger'[r][1].in /\ stats'[r][1].out = ledger'[r][1].out
        /\ ledger'[r][1].status = status'[r]
    BY <1>4, <1>7, <1>8, <1>9
  <2>3. committed'[r] /\ "budget.update" \in told'[r] /\ calls'[r] # <<>>
    BY <1>9
  <2> QED
    BY <2>1, <2>2, <2>3 DEF Agree
<1> QED
  BY <1>10, <1>11

\* From here on the prompt is paid for: the budget event and the limiter's
\* tokens precede the response's own records.
LEMMA UseRecords ==
  ASSUME RecordTypes, LoopInv, LoopInv', NEW r \in Requests, Records(r),
         NEW code \in Codes, Use(r, code)
  PROVE  RecordTypes' /\ Records(r)'
<1>1. /\ pc[r] = "calling" /\ status' = [status EXCEPT ![r] = code]
      /\ committed' = [committed EXCEPT ![r] = TRUE]
      /\ limiter' = [limiter EXCEPT ![r] = Prompt[r]]
      /\ told' = [told EXCEPT ![r] = told[r] \cup {"budget.update"}]
      /\ stats' = stats /\ ledger' = ledger /\ pc' = [pc EXCEPT ![r] = "using"]
      /\ Called(r, code)
  BY DEF Use, Set, Goto
<1>2. Unrecorded(r) /\ code \in Nat /\ Prompt[r] \in Nat
  BY <1>1, CodesAssumption, InputsAssumption DEF Records
<1>3. RecordTypes'
  BY <1>1, <1>2 DEF RecordTypes, Events
<1>4. calls'[r] # <<>>
  <2>1. /\ Len(calls'[r]) = Len(calls[r]) + 1 /\ calls[r] \in Seq(CallRecord)
    BY <1>1, CallFollows DEF LoopInv, LoopTypes
  <2>2. Len(calls[r]) \in Nat /\ Len(<<>>) = 0
    BY <2>1, LenProperties
  <2> QED
    BY <2>1, <2>2
<1>5. /\ pc'[r] = "using" /\ committed'[r] /\ limiter'[r] = Prompt[r]
      /\ stats'[r] = <<>> /\ ledger'[r] = <<>> /\ told'[r] = {"budget.update"}
  BY <1>1, <1>2 DEF LoopInv, LoopTypes, RecordTypes, Unrecorded
<1> QED
  BY <1>3, <1>4, <1>5 DEF Records

\* The records of the requests that do not take the step stay as they are.
LEMMA OthersRecords ==
  ASSUME NEW x \in Requests, Records(x),
         pc'[x] = pc[x], calls'[x] = calls[x], status'[x] = status[x],
         committed'[x] = committed[x], stats'[x] = stats[x], ledger'[x] = ledger[x],
         limiter'[x] = limiter[x], told'[x] = told[x]
  PROVE  Records(x)'
BY DEF Records, Unrecorded, Agree

\* A request that leaves with records that agree.
LEMMA LeavesAgreed ==
  ASSUME LoopTypes, NEW r \in Requests, NEW place \in {"leaving", "done"},
         pc' = [pc EXCEPT ![r] = place], Agree(r)'
  PROVE  Records(r)'
<1>1. pc'[r] = place
  BY DEF LoopTypes
<1> QED
  BY <1>1 DEF Records

\* What a request has recorded and where it is.
Own(x) == <<pc[x], calls[x], status[x], committed[x], stats[x], ledger[x], limiter[x], told[x]>>

\* A step of one request leaves the others as they are.
LEMMA StepIsLocal ==
  ASSUME LoopTypes, RecordTypes, NEW r \in Requests, Step(r), NEW x \in Requests \ {r}
  PROVE  UNCHANGED Own(x)
<1> USE DEF LoopTypes, RecordTypes, Set, Add, Goto, Own
<1>1. CASE BadRequest(r)
  BY <1>1 DEF BadRequest, loop, meters, accounts
<1>2. CASE RateExceeded(r)
  BY <1>2 DEF RateExceeded, Refuse, loop, accounts
<1>3. CASE Admit(r)
  BY <1>3 DEF Admit, loop, meters
<1>4. CASE Forbidden(r)
  BY <1>4 DEF Forbidden, Refuse, loop, accounts
<1>5. CASE Reserve(r)
  <2>1. \E place \in Places : pc' = [pc EXCEPT ![r] = place]
    BY <1>5 DEF Reserve, Places
  <2>2. calls' = calls /\ committed' = committed
    BY <1>5 DEF Reserve, loop
  <2>3. \/ UNCHANGED <<status, meters>>
        \/ Refuse(r, 429, {"budget.exceeded"}, Prompt[r])
    BY <1>5 DEF Reserve
  <2>4. UNCHANGED <<status[x], stats[x], told[x], ledger[x], limiter[x]>>
    <3>1. CASE UNCHANGED <<status, meters>>
      BY <3>1 DEF meters
    <3>2. CASE Refuse(r, 429, {"budget.exceeded"}, Prompt[r])
      BY <3>2 DEF Refuse
    <3> QED
      BY <2>3, <3>1, <3>2
  <2>5. pc'[x] = pc[x]
    BY <2>1
  <2> QED
    BY <2>2, <2>4, <2>5
<1>6. CASE CannotBuild(r)
  BY <1>6 DEF CannotBuild, loop, meters, accounts
<1>7. CASE NetworkError(r)
  BY <1>7 DEF NetworkError, Called, Continue, meters, accounts
<1>8. ASSUME NEW code \in Codes, Retry(r, code) PROVE UNCHANGED Own(x)
  BY <1>8 DEF Retry, Called, Continue, meters, accounts
<1>9. ASSUME NEW code \in Codes, Use(r, code) PROVE UNCHANGED Own(x)
  BY <1>9 DEF Use, Called
<1>10. CASE Exhausted(r)
  BY <1>10 DEF Exhausted, Refuse, loop, accounts
<1>11. CASE BodyFails(r)
  BY <1>11 DEF BodyFails, RecordLedgerEntry, loop, accounts
<1>12. CASE Leave(r)
  BY <1>12 DEF Leave, loop, meters
<1>13. ASSUME NEW n \in Outputs, Stream(r, n) \/ Buffered(r, n) PROVE UNCHANGED Own(x)
  BY <1>13 DEF Stream, Buffered, Meter, RecordLedgerEntry, loop
<1> QED
  BY <1>1, <1>2, <1>3, <1>4, <1>5, <1>6, <1>7, <1>8, <1>9, <1>10, <1>11, <1>12, <1>13 DEF Step

\* Every step keeps the records as they should be.
LEMMA RecordsStep ==
  ASSUME LoopInv, LoopInv', RecordsInv, [Next]_vars
  PROVE  RecordsInv'
<1>1. CASE UNCHANGED vars
  BY <1>1, OthersRecords DEF RecordsInv, RecordTypes, vars, loop, meters, accounts
<1>2. ASSUME NEW r \in Requests, Step(r) PROVE RecordsInv'
  <2>1. RecordTypes /\ Records(r) /\ LoopTypes /\ Position(r)
    BY DEF RecordsInv, LoopInv
  <2>2. SUFFICES RecordTypes' /\ Records(r)'
    <3>1. \A x \in Requests \ {r} : UNCHANGED Own(x)
      BY <1>2, <2>1, StepIsLocal
    <3>2. \A x \in Requests \ {r} : Records(x)'
      BY <3>1, OthersRecords DEF RecordsInv, Own
    <3> QED
      BY <2>2, <3>2 DEF RecordsInv
  <2>3. /\ \A place \in Places : pc' = [pc EXCEPT ![r] = place] => pc'[r] = place
        /\ RetryOn \subseteq Nat /\ Prompt[r] \in Nat
    BY <2>1, CodesAssumption, InputsAssumption DEF LoopTypes
  <2>4. ASSUME pc[r] \in {"new", "checks", "calling", "exhausted"} PROVE Unrecorded(r)
    BY <2>1, <2>4 DEF Records
  <2>5. ASSUME pc[r] # "using", pc'[r] \in {"new", "checks", "calling", "exhausted"},
               Unrecorded(r), UNCHANGED <<status, committed, meters>>
        PROVE  RecordTypes' /\ Records(r)'
    BY <2>1, <2>5 DEF RecordTypes, Records, Unrecorded, meters
  <2>6. CASE BadRequest(r) \/ CannotBuild(r)
    <3>1. PICK place \in {"leaving", "done"} : pc' = [pc EXCEPT ![r] = place]
      BY <2>6 DEF BadRequest, CannotBuild, Goto, Set
    <3>2. PICK code \in {400, 500} : status' = [status EXCEPT ![r] = code]
      BY <2>6 DEF BadRequest, CannotBuild, Set
    <3>3. UNCHANGED <<accounts, loop, meters>> /\ pc[r] \in {"new", "calling"}
      BY <2>6 DEF BadRequest, CannotBuild
    <3>4. RecordTypes'
      BY <2>1, <3>2, <3>3 DEF RecordTypes, accounts, meters
    <3>5. calls'[r] = <<>>
      <4>1. CASE BadRequest(r)
        BY <2>1, <3>3, <4>1 DEF BadRequest, Position, loop
      <4>2. CASE CannotBuild(r)
        <5>1. MaxAttempts(r) * (1 - 1) + 0 = 0
          BY ScheduleType
        <5>2. mi[r] = 1 /\ att[r] = 0 /\ pc[r] = "calling"
          BY <4>2 DEF CannotBuild
        <5>3. Len(calls[r]) = MaxAttempts(r) * (mi[r] - 1) + att[r]
          BY <2>1, <5>2 DEF Position
        <5>4. Len(calls[r]) = 0
          BY <5>1, <5>2, <5>3
        <5> QED
          BY <2>1, <3>3, <5>4, EmptySeq DEF LoopTypes, loop
      <4> QED
        BY <2>6, <4>1, <4>2
    <3>6. status'[r] \in {400, 500} /\ Unrecorded(r)' /\ Len(<<>>) = 0
      BY <2>1, <2>4, <3>2, <3>3 DEF RecordTypes, Unrecorded, accounts, meters
    <3>7. Agree(r)'
      BY <3>5, <3>6 DEF Agree, Unrecorded
    <3> QED
      BY <2>1, <3>1, <3>4, <3>7, LeavesAgreed
  <2>7. ASSUME NEW code \in Nat,
               NEW events \in SUBSET (Events \ {"budget.update", "request.completed"}),
               NEW input \in Nat, Refuse(r, code, events, input),
               NEW place \in {"leaving", "done"}, pc' = [pc EXCEPT ![r] = place],
               UNCHANGED <<committed, calls>>, code \notin {400, 500} \/ calls[r] # <<>>,
               pc[r] \in {"new", "checks", "exhausted"}
        PROVE  RecordTypes' /\ Records(r)'
    BY <2>1, <2>4, <2>7, RefuseAgrees, LeavesAgreed
  <2>8. CASE RateExceeded(r)
    BY <2>7, <2>8 DEF RateExceeded, Events, Goto, Set, accounts, loop
  <2>9. CASE Admit(r)
    BY <2>3, <2>4, <2>5, <2>9 DEF Admit, Goto, Set, Places
  <2>10. CASE Forbidden(r)
    BY <2>7, <2>10 DEF Forbidden, Events, Goto, Set, accounts, loop
  <2>11. CASE Reserve(r)
    <3>1. pc[r] = "checks" /\ UNCHANGED <<committed, calls>>
      BY <2>11 DEF Reserve, loop
    <3>2. \/ UNCHANGED <<status, meters>> /\ pc' = [pc EXCEPT ![r] = "calling"]
          \/ /\ Refuse(r, 429, {"budget.exceeded"}, Prompt[r])
             /\ pc' = [pc EXCEPT ![r] = "leaving"]
      BY <2>11 DEF Reserve, Goto, Set
    <3> QED
      BY <2>3, <2>4, <2>5, <2>7, <3>1, <3>2 DEF Events, Places
  <2>12. CASE NetworkError(r) \/ \E code \in Codes : Retry(r, code)
    <3>1. /\ pc[r] = "calling" /\ UNCHANGED <<accounts, status, meters>> /\ Continue(r)
      BY <2>12 DEF NetworkError, Retry
    <3>2. pc'[r] \in {"calling", "exhausted"}
      BY <2>1, <3>1 DEF Continue, Goto, Set, LoopTypes
    <3> QED
      BY <2>4, <2>5, <3>1, <3>2 DEF accounts
  <2>13. ASSUME NEW code \in Codes, Use(r, code) PROVE RecordTypes' /\ Records(r)'
    BY <2>1, <2>13, UseRecords
  <2>14. CASE Exhausted(r)
    <3>1. calls[r] # <<>>
      <4> DEFINE m == MaxAttempts(r)
                 n == Len(Schedule(r))
      <4>1. Len(calls[r]) = m * n
        BY <2>1, <2>14 DEF Position, Exhausted
      <4>2. m * n # 0
        BY ScheduleType
      <4> HIDE DEF m, n
      <4>3. Len(<<>>) = 0
        OBVIOUS
      <4> QED
        BY <4>1, <4>2, <4>3
    <3>2. PICK code \in Nat : code = IF last[r] = 0 THEN 502 ELSE last[r]
      <4>1. last[r] \in RetryOn \/ last[r] = 0
        BY <2>1 DEF LoopTypes
      <4>2. CASE last[r] = 0
        BY <4>2
      <4>3. CASE last[r] # 0
        <5>1. last[r] \in Nat
          BY <2>3, <4>1, <4>3
        <5> QED
          BY <4>3, <5>1
      <4> QED
        BY <4>2, <4>3
    <3>3. /\ pc[r] = "exhausted" /\ Refuse(r, code, {}, Prompt[r])
          /\ pc' = [pc EXCEPT ![r] = "leaving"] /\ UNCHANGED <<committed, calls>>
      BY <2>14, <3>2 DEF Exhausted, Goto, Set, accounts, loop
    <3> QED
      BY <2>3, <2>7, <3>1, <3>3
  <2>15. ASSUME NEW k \in Nat, NEW code \in Nat,
                NEW e \in StatRecord, e.in = Prompt[r], e.out = k,
                NEW events \in SUBSET (Events \ {"budget.update"}), pc[r] = "using",
                status' = [status EXCEPT ![r] = code],
                stats' = Add(stats, r, e),
                ledger' = Add(ledger, r, [in |-> Prompt[r], out |-> k, status |-> code]),
                limiter' = [limiter EXCEPT ![r] = limiter[r] + k],
                told' = [told EXCEPT ![r] = told[r] \cup events],
                pc' = [pc EXCEPT ![r] = "leaving"],
                UNCHANGED <<committed, calls>>
         PROVE  RecordTypes' /\ Records(r)'
    BY <2>1, <2>15, RecordedAgrees, LeavesAgreed
  <2>16. CASE BodyFails(r)
    <3>1. PICK k \in Nat : k = 0
      OBVIOUS
    <3>2. PICK code \in Nat : code = 502
      OBVIOUS
    <3>3. PICK events \in SUBSET (Events \ {"budget.update"}) : events = {}
      OBVIOUS
    <3> DEFINE e == [in |-> Prompt[r], out |-> k, error |-> TRUE]
    <3>4. e \in StatRecord /\ e.in = Prompt[r] /\ e.out = k
      BY <2>3 DEF StatRecord
    <3>5. limiter' = [limiter EXCEPT ![r] = limiter[r] + k]
      BY <2>1, <2>16, <3>1 DEF BodyFails, RecordTypes
    <3>6. told' = [told EXCEPT ![r] = told[r] \cup events]
      BY <2>1, <2>16, <3>3 DEF BodyFails, RecordTypes
    <3>7. /\ pc[r] = "using" /\ pc' = [pc EXCEPT ![r] = "leaving"]
          /\ stats' = Add(stats, r, e) /\ status' = [status EXCEPT ![r] = code]
          /\ ledger' = Add(ledger, r, [in |-> Prompt[r], out |-> k, status |-> code])
          /\ UNCHANGED <<committed, calls>>
      BY <2>16, <3>1, <3>2 DEF BodyFails, RecordLedgerEntry, Goto, Set, accounts, loop
    <3> HIDE DEF e
    <3> QED
      BY <2>15, <3>4, <3>5, <3>6, <3>7
  <2>17. ASSUME NEW k \in Outputs, Stream(r, k) \/ Buffered(r, k)
         PROVE  RecordTypes' /\ Records(r)'
    <3>1. k \in Nat /\ status[r] \in Nat /\ status' = [status EXCEPT ![r] = status[r]]
      BY <2>1, <2>17, InputsAssumption DEF Stream, Buffered, RecordTypes
    <3>2. PICK e \in StatRecord : /\ e.in = Prompt[r] /\ e.out = k
                                  /\ stats' = Add(stats, r, e)
      <4>1. CASE Stream(r, k)
        <5> DEFINE e == [in |-> Prompt[r], out |-> k, error |-> FALSE]
        <5>1. e \in StatRecord /\ e.in = Prompt[r] /\ e.out = k
          BY <2>3, <3>1 DEF StatRecord
        <5>2. stats' = Add(stats, r, e)
          BY <4>1 DEF Stream, Meter
        <5> HIDE DEF e
        <5> QED
          BY <5>1, <5>2
      <4>2. CASE Buffered(r, k)
        <5> DEFINE e == [in |-> Prompt[r], out |-> k, error |-> IsError(status[r])]
        <5>1. e \in StatRecord /\ e.in = Prompt[r] /\ e.out = k
          BY <2>3, <3>1 DEF StatRecord, IsError
        <5>2. stats' = Add(stats, r, e)
          BY <4>2 DEF Buffered, Meter
        <5> HIDE DEF e
        <5> QED
          BY <5>1, <5>2
      <4> QED
        BY <2>17, <4>1, <4>2
    <3>3. /\ pc[r] = "using" /\ pc' = [pc EXCEPT ![r] = "leaving"]
          /\ UNCHANGED <<committed, calls>>
      BY <2>17 DEF Stream, Buffered, Goto, Set, loop
    <3>4. /\ limiter' = [limiter EXCEPT ![r] = limiter[r] + k]
          /\ told' = [told EXCEPT ![r] = told[r] \cup {"request.completed"}]
          /\ ledger' = Add(ledger, r, [in |-> Prompt[r], out |-> k, status |-> status[r]])
      BY <2>17 DEF Stream, Buffered, Meter, RecordLedgerEntry, Set
    <3>5. {"request.completed"} \in SUBSET (Events \ {"budget.update"})
      BY DEF Events
    <3> QED
      BY <2>15, <3>1, <3>2, <3>3, <3>4, <3>5
  <2>18. CASE Leave(r)
    <3>1. /\ pc[r] = "leaving" /\ pc' = [pc EXCEPT ![r] = "done"]
          /\ UNCHANGED <<committed, calls, status, meters>>
      BY <2>18 DEF Leave, Goto, Set, loop
    <3>2. Agree(r)' /\ RecordTypes'
      BY <2>1, <3>1 DEF Records, Agree, RecordTypes, meters
    <3> QED
      BY <2>1, <3>1, <3>2, LeavesAgreed
  <2> QED
    BY <1>2, <2>6, <2>8, <2>9, <2>10, <2>11, <2>12, <2>13, <2>14, <2>16, <2>17, <2>18 DEF Step
<1> QED
  BY <1>1, <1>2 DEF Next

\* Nothing is recorded of a request that has not arrived.
LEMMA RecordsInit ==
  ASSUME Init
  PROVE  RecordsInv
<1>1. RecordTypes
  BY EmptySeq DEF Init, RecordTypes
<1> QED
  BY <1>1 DEF RecordsInv, Records, Unrecorded, Init

\* The statistics, the ledger, the limiter and the events of a finished request
\* say the same of it: every return of handleChatCompletions has recorded what
\* it must, and no more.
THEOREM RecordsOfOneRequest == Spec => []RecordsAgree
<1>1. RecordsInv => RecordsAgree
  <2> SUFFICES ASSUME RecordsInv PROVE RecordsAgree
    OBVIOUS
  <2>1. ASSUME NEW r \in Requests, pc[r] = "done" PROVE Agree(r) /\ Len(ledger[r]) <= 1
    <3>1. Agree(r)
      BY <2>1 DEF RecordsInv, Records
    <3>2. Len(ledger[r]) = 0 \/ Len(ledger[r]) = 1
      BY <3>1 DEF Agree
    <3>3. 0 <= 1 /\ 1 <= 1
      OBVIOUS
    <3>4. Len(ledger[r]) <= 1
      BY <3>2, <3>3
    <3> QED
      BY <3>1, <3>4
  <2> QED
    BY <2>1 DEF Agree, RecordsAgree
<1> QED
  BY LoopInit, LoopStep, RecordsInit, RecordsStep, <1>1, PTL DEF Spec

----------------------------------------------------------------------------
(* The budget.                                                             *)

\* The requests whose prompt is held or settled, and what the ledger says r was
\* answered with.
Kept == {r \in Requests : Entry(r) \in {"held", "settled"}}
Completion(r) == IF ledger[r] = <<>> THEN 0 ELSE ledger[r][1].out
Owed == [r \in Requests |-> reserved[r] + Completion(r)]

\* A prompt stays reserved as long as it is held, and for good once it is settled.
Purse(r) ==
  /\ reserved[r] = IF r \in Kept THEN Prompt[r] ELSE 0
  /\ pc[r] \in {"new", "checks"} => status[r] = 0
  /\ \A k \in DOMAIN ledger[r] : ledger[r][k].in = Prompt[r]

\* The counter is what is reserved and was answered, whatever steps are in between.
Pursed ==
  /\ reserved \in [Requests -> Nat]
  /\ usage = SumOver(Owed, Requests)
  /\ \A r \in Requests : Purse(r)

\* Any prompts that are kept, and not only all of them, fit the budget of one of
\* the requests: whichever are returned, the others still do.
Capped ==
  \A T \in SUBSET Kept : T # {} => \E r \in T : SumOver(Prompt, T) <= PolicyOf[r].limit

HandlerInv == LoopInv /\ RecordsInv

\* What the book says of a request, by its records.
LEMMA EntryOf ==
  ASSUME NEW r \in Requests
  PROVE  /\ PolicyOf[r].limit = 0 => Entry(r) = "none"
         /\ PolicyOf[r].limit # 0 /\ committed[r] => Entry(r) = "settled"
         /\ PolicyOf[r].limit # 0 /\ ~committed[r] /\ "budget.exceeded" \in told[r] =>
              Entry(r) = "refused"
         /\ PolicyOf[r].limit # 0 /\ ~committed[r] /\ "budget.exceeded" \notin told[r] =>
              /\ pc[r] # "calling" /\ calls[r] = <<>> /\ status[r] # 500 => Entry(r) = "none"
              /\ pc[r] = "calling" \/ calls[r] # <<>> \/ status[r] = 500 =>
                   Entry(r) = IF pc[r] = "done" THEN "returned" ELSE "held"
BY DEF Entry

\* The same after a step.
LEMMA EntryAfter ==
  ASSUME NEW r \in Requests
  PROVE  /\ PolicyOf[r].limit = 0 => Entry(r)' = "none"
         /\ PolicyOf[r].limit # 0 /\ committed'[r] => Entry(r)' = "settled"
         /\ PolicyOf[r].limit # 0 /\ ~committed'[r] /\ "budget.exceeded" \in told'[r] =>
              Entry(r)' = "refused"
         /\ PolicyOf[r].limit # 0 /\ ~committed'[r] /\ "budget.exceeded" \notin told'[r] =>
              /\ pc'[r] # "calling" /\ calls'[r] = <<>> /\ status'[r] # 500 => Entry(r)' = "none"
              /\ pc'[r] = "calling" \/ calls'[r] # <<>> \/ status'[r] = 500 =>
                   Entry(r)' = IF pc'[r] = "done" THEN "returned" ELSE "held"
BY DEF Entry

\* The six things a step can mean for the budget.
Idle(r) ==
  /\ Entry(r)' = Entry(r) /\ usage' = usage /\ reserved' = reserved
  /\ Completion(r)' = Completion(r)
Holds(r) ==
  /\ PolicyOf[r].limit > 0 /\ usage + Prompt[r] <= PolicyOf[r].limit
  /\ Entry(r) = "none" /\ Entry(r)' = "held"
  /\ usage' = usage + Prompt[r] /\ reserved' = [reserved EXCEPT ![r] = Prompt[r]]
  /\ Completion(r)' = Completion(r)
Refuses(r) ==
  /\ PolicyOf[r].limit > 0 /\ usage + Prompt[r] > PolicyOf[r].limit
  /\ Entry(r) = "none" /\ Entry(r)' = "refused" /\ usage' = usage /\ reserved' = reserved
  /\ Completion(r)' = Completion(r)
Settles(r) ==
  /\ Entry(r) = "held" /\ Entry(r)' = "settled" /\ usage' = usage /\ reserved' = reserved
  /\ Completion(r)' = Completion(r)
Charged(r, n) ==
  /\ Entry(r) = "settled" \/ PolicyOf[r].limit = 0
  /\ Entry(r)' = Entry(r) /\ usage' = usage + n /\ reserved' = reserved
  /\ Completion(r) = 0 /\ Completion(r)' = n
Returns(r) ==
  /\ Entry(r) = "held" /\ Entry(r)' = "returned"
  /\ usage' = usage - Prompt[r] /\ reserved' = [reserved EXCEPT ![r] = 0]
  /\ Completion(r)' = Completion(r)

Means(r) ==
  \/ Idle(r) \/ Holds(r) \/ Refuses(r) \/ Settles(r) \/ Returns(r)
  \/ \E n \in Outputs : Charged(r, n)

\* A completion is a natural number.
LEMMA CompletionType ==
  ASSUME RecordTypes, NEW r \in Requests
  PROVE  Completion(r) \in Nat
<1>1. ledger[r] \in Seq(LedgerRecord)
  BY DEF RecordTypes
<1>2. CASE ledger[r] = <<>>
  BY <1>2 DEF Completion
<1>3. CASE ledger[r] # <<>>
  <2>1. ledger[r][1] \in LedgerRecord
    BY <1>1, <1>3, EmptySeq, LenProperties, ElementOfSeq
  <2> QED
    BY <1>3, <2>1 DEF Completion, LedgerRecord
<1> QED
  BY <1>2, <1>3

\* The step of a response that is recorded with k tokens.
LEMMA RecordedCompletion ==
  ASSUME RecordTypes, NEW r \in Requests, ledger[r] = <<>>, NEW k \in Nat, NEW code \in Nat,
         RecordLedgerEntry(r, k, code)
  PROVE  /\ Completion(r) = 0 /\ Completion(r)' = k
         /\ \A i \in DOMAIN ledger'[r] : ledger'[r][i].in = Prompt[r]
<1> DEFINE l == [in |-> Prompt[r], out |-> k, status |-> code]
<1>1. l \in LedgerRecord /\ l.out = k /\ l.in = Prompt[r]
  BY InputsAssumption DEF LedgerRecord
<1>2. ledger' = [ledger EXCEPT ![r] = Append(<<>>, l)]
  BY DEF RecordLedgerEntry, Add
<1> HIDE DEF l
<1>3. /\ Append(<<>>, l) \in Seq(LedgerRecord) /\ Len(Append(<<>>, l)) = 1
      /\ Append(<<>>, l)[1] = l
  BY <1>1, FirstElement
<1>4. ledger'[r] = Append(<<>>, l)
  BY <1>2 DEF RecordTypes
<1>5. DOMAIN ledger'[r] = 1..1 /\ Len(<<>>) = 0
  BY <1>3, <1>4, LenProperties
<1>6. ledger'[r] # <<>>
  BY <1>3, <1>4, <1>5
<1> QED
  BY <1>1, <1>3, <1>4, <1>5, <1>6 DEF Completion

\* The counter is a natural number.
LEMMA UsageType ==
  ASSUME HandlerInv, Pursed
  PROVE  usage \in Nat /\ \A x \in Requests : Owed[x] \in Nat
<1>1. \A x \in Requests : Completion(x) \in Nat /\ reserved[x] \in Nat
  BY CompletionType DEF HandlerInv, RecordsInv, Pursed
<1>2. \A x \in Requests : Owed[x] \in Nat
  BY <1>1 DEF Owed
<1> QED
  BY <1>2, RequestsAssumption, SumType DEF Pursed

\* Each step of a request is one of the six, and keeps its purse.
LEMMA MeaningOfStep ==
  ASSUME HandlerInv, HandlerInv', Pursed, NEW r \in Requests, Step(r)
  PROVE  Means(r) /\ Purse(r)'
<1> DEFINE limit == PolicyOf[r].limit
<1>1. /\ LoopTypes /\ LoopTypes' /\ RecordTypes /\ RecordTypes' /\ Position(r) /\ Position(r)'
      /\ Records(r) /\ Records(r)' /\ Purse(r) /\ reserved \in [Requests -> Nat]
      /\ Prompt[r] \in Nat /\ limit \in Nat
  BY InputsAssumption, PoliciesAssumption DEF HandlerInv, LoopInv, RecordsInv, Pursed
<1>2. \A place : pc' = [pc EXCEPT ![r] = place] => pc'[r] = place
  BY <1>1 DEF LoopTypes
<1>3. \A code : status' = [status EXCEPT ![r] = code] => status'[r] = code
  BY <1>1 DEF RecordTypes
<1>4. ASSUME pc[r] \in {"new", "checks"} PROVE Entry(r) = "none" /\ reserved[r] = 0
  <2>1. calls[r] = <<>> /\ told[r] = {} /\ ~committed[r] /\ status[r] = 0
    BY <1>1, <1>4 DEF Position, Records, Unrecorded, Purse
  <2>2. Entry(r) = "none"
    BY <1>4, <2>1, EntryOf
  <2> QED
    BY <1>1, <2>2 DEF Purse, Kept
<1>5. ASSUME pc[r] \in {"calling", "exhausted"} PROVE Entry(r) = IF limit = 0 THEN "none" ELSE "held"
  <2>1. told[r] = {} /\ ~committed[r]
    BY <1>1, <1>5 DEF Records, Unrecorded
  <2>2. pc[r] = "exhausted" => calls[r] # <<>>
    <3>1. SUFFICES ASSUME pc[r] = "exhausted", calls[r] = <<>> PROVE FALSE
      OBVIOUS
    <3>2. Len(calls[r]) = MaxAttempts(r) * Len(Schedule(r)) /\ Len(<<>>) = 0
      BY <1>1, <3>1 DEF Position
    <3>3. MaxAttempts(r) * Len(Schedule(r)) # 0
      BY ScheduleType
    <3> QED
      BY <3>1, <3>2, <3>3
  <2> QED
    BY <1>5, <2>1, <2>2, EntryOf
<1>6. ASSUME pc'[r] \in {"calling", "exhausted"}
      PROVE  Entry(r)' = IF limit = 0 THEN "none" ELSE "held"
  <2>1. told'[r] = {} /\ ~committed'[r]
    BY <1>1, <1>6 DEF Records, Unrecorded
  <2>2. pc'[r] = "exhausted" => calls'[r] # <<>>
    <3>1. SUFFICES ASSUME pc'[r] = "exhausted", calls'[r] = <<>> PROVE FALSE
      OBVIOUS
    <3>2. Len(calls'[r]) = MaxAttempts(r) * Len(Schedule(r)) /\ Len(<<>>) = 0
      BY <1>1, <3>1 DEF Position
    <3>3. MaxAttempts(r) * Len(Schedule(r)) # 0
      BY ScheduleType
    <3> QED
      BY <3>1, <3>2, <3>3
  <2> QED
    BY <1>6, <2>1, <2>2, EntryAfter
<1>7. ASSUME Idle(r), ledger' = ledger, pc'[r] \in {"new", "checks"} => status'[r] = 0
      PROVE  Means(r) /\ Purse(r)'
  BY <1>1, <1>7 DEF Idle, Means, Purse, Kept
<1>8. ASSUME ledger' = ledger PROVE Completion(r)' = Completion(r)
  BY <1>8 DEF Completion
<1>9. CASE BadRequest(r) \/ RateExceeded(r) \/ Admit(r) \/ Forbidden(r)
  <2>1. /\ pc[r] \in {"new", "checks"} /\ pc'[r] \in {"done", "checks", "leaving"}
        /\ UNCHANGED <<usage, reserved, committed, calls, ledger>>
    BY <1>2, <1>9 DEF BadRequest, RateExceeded, Admit, Forbidden, Refuse, Goto, Set,
                      accounts, loop, meters
  <2>2. calls[r] = <<>> /\ told[r] = {} /\ ~committed[r] /\ status[r] = 0
    BY <1>1, <2>1 DEF Position, Records, Unrecorded, Purse
  <2>3. /\ status'[r] \in {0, 400, 403, 429} /\ "budget.exceeded" \notin told'[r]
        /\ pc'[r] = "checks" => status'[r] = 0
    <3>1. CASE BadRequest(r)
      BY <1>2, <1>3, <2>2, <3>1 DEF BadRequest, Goto, Set, meters
    <3>2. CASE RateExceeded(r)
      BY <1>1, <1>2, <1>3, <2>2, <3>2 DEF RateExceeded, Refuse, Goto, Set, RecordTypes
    <3>3. CASE Admit(r)
      BY <2>2, <3>3 DEF Admit, meters
    <3>4. CASE Forbidden(r)
      <4>1. PICK events \in {{}, {"rule.violation"}} : Refuse(r, 403, events, 0)
        BY <3>4 DEF Forbidden
      <4>2. status'[r] = 403 /\ told'[r] = events
        BY <1>1, <1>3, <2>2, <4>1 DEF Refuse, Set, RecordTypes
      <4>3. pc'[r] = "leaving"
        BY <1>2, <3>4 DEF Forbidden, Goto, Set
      <4> QED
        BY <4>2, <4>3
    <3> QED
      BY <1>9, <3>1, <3>2, <3>3, <3>4
  <2>4. Entry(r)' = "none"
    BY <2>1, <2>2, <2>3, EntryAfter
  <2>5. Idle(r)
    BY <1>4, <1>8, <2>1, <2>4 DEF Idle
  <2> QED
    BY <1>7, <2>1, <2>3, <2>5
<1>10. CASE Reserve(r)
  <2>1. /\ pc[r] = "checks" /\ UNCHANGED <<committed, calls>> /\ Entry(r) = "none"
        /\ reserved[r] = 0
    BY <1>4, <1>10 DEF Reserve, loop
  <2>2. CASE limit = 0 \/ usage + Prompt[r] <= limit
    <3> DEFINE taken == IF limit = 0 THEN 0 ELSE Prompt[r]
    <3>1. /\ usage' = usage + taken /\ reserved' = [reserved EXCEPT ![r] = taken]
          /\ pc' = [pc EXCEPT ![r] = "calling"] /\ ledger' = ledger
      BY <1>10, <2>2 DEF Reserve, Goto, Set, meters
    <3>2. pc'[r] = "calling" /\ Completion(r)' = Completion(r)
      BY <1>2, <1>8, <3>1
    <3>3. CASE limit = 0
      <4>1. Entry(r)' = "none" /\ taken = 0
        BY <1>6, <3>2, <3>3
      <4>2. reserved' = reserved
        BY <1>1, <2>1, <3>1, <4>1
      <4>3. usage' = usage
        <5>1. usage \in Nat
          BY UsageType
        <5> QED
          BY <3>1, <4>1, <5>1
      <4> QED
        BY <1>7, <2>1, <3>1, <3>2, <4>1, <4>2, <4>3 DEF Idle
    <3>4. CASE limit # 0
      <4>1. /\ Entry(r)' = "held" /\ limit > 0 /\ usage + Prompt[r] <= limit
            /\ usage' = usage + Prompt[r] /\ reserved' = [reserved EXCEPT ![r] = Prompt[r]]
        BY <1>1, <1>6, <2>2, <3>1, <3>2, <3>4
      <4>2. Holds(r)
        BY <2>1, <3>2, <4>1 DEF Holds
      <4>3. reserved'[r] = Prompt[r]
        BY <1>1, <4>1
      <4>4. Purse(r)'
        BY <1>1, <3>1, <3>2, <4>1, <4>3 DEF Purse, Kept
      <4> QED
        BY <4>2, <4>4 DEF Means
    <3> QED
      BY <3>3, <3>4
  <2>3. CASE ~(limit = 0 \/ usage + Prompt[r] <= limit)
    <3>1. /\ Refuse(r, 429, {"budget.exceeded"}, Prompt[r]) /\ pc' = [pc EXCEPT ![r] = "leaving"]
          /\ UNCHANGED <<usage, reserved>>
      BY <1>10, <2>3 DEF Reserve, Goto, Set
    <3>2. "budget.exceeded" \in told'[r] /\ ledger' = ledger /\ pc'[r] = "leaving"
      BY <1>1, <1>2, <3>1 DEF Refuse, Set, RecordTypes
    <3>3. ~committed'[r] /\ Completion(r)' = Completion(r)
      BY <1>1, <1>8, <2>1, <3>2 DEF Records, Unrecorded
    <3>4. Entry(r)' = "refused"
      BY <2>3, <3>2, <3>3, EntryAfter
    <3>5. limit > 0
      BY <1>1, <2>3
    <3>6. usage + Prompt[r] > limit
      <4>1. usage \in Nat
        BY UsageType
      <4> QED
        BY <1>1, <2>3, <4>1
    <3>7. Refuses(r)
      BY <2>1, <3>1, <3>3, <3>4, <3>5, <3>6 DEF Refuses
    <3>8. Purse(r)'
      BY <1>1, <2>1, <3>1, <3>2, <3>4 DEF Purse, Kept
    <3> QED
      BY <3>7, <3>8 DEF Means
  <2> QED
    BY <2>2, <2>3
<1>11. CASE CannotBuild(r)
  <2>1. /\ pc[r] = "calling" /\ pc'[r] = "leaving" /\ status'[r] = 500
        /\ UNCHANGED <<usage, reserved, committed, calls, ledger, told>>
    <3>1. pc[r] = "calling" /\ UNCHANGED <<usage, reserved, committed, calls, ledger, told>>
      BY <1>11 DEF CannotBuild, accounts, loop, meters
    <3>2. pc' = [pc EXCEPT ![r] = "leaving"] /\ status' = [status EXCEPT ![r] = 500]
      BY <1>11 DEF CannotBuild, Goto, Set
    <3>3. pc'[r] = "leaving"
      BY <1>2, <3>2
    <3>4. status'[r] = 500
      BY <1>3, <3>2
    <3> QED
      BY <3>1, <3>3, <3>4
  <2>2. told'[r] = {} /\ ~committed'[r]
    BY <1>1, <2>1 DEF Records, Unrecorded
  <2>3. Entry(r)' = IF limit = 0 THEN "none" ELSE "held"
    BY <2>1, <2>2, EntryAfter
  <2> QED
    BY <1>5, <1>7, <1>8, <2>1, <2>3 DEF Idle
<1>12. CASE NetworkError(r) \/ \E code \in Codes : Retry(r, code)
  <2>1. /\ pc[r] = "calling" /\ UNCHANGED <<usage, reserved, ledger>> /\ Continue(r)
    BY <1>12 DEF NetworkError, Retry, accounts, meters
  <2>2. pc'[r] \in {"calling", "exhausted"}
    BY <1>1, <2>1 DEF Continue, Goto, Set, LoopTypes
  <2> QED
    BY <1>5, <1>6, <1>7, <1>8, <2>1, <2>2 DEF Idle
<1>13. ASSUME NEW code \in Codes, Use(r, code) PROVE Means(r) /\ Purse(r)'
  <2>1. /\ pc[r] = "calling" /\ pc'[r] = "using" /\ UNCHANGED <<usage, reserved, ledger>>
    BY <1>2, <1>13 DEF Use, Goto, Set
  <2>2. committed'[r]
    BY <1>1, <2>1 DEF Records
  <2>3. CASE limit = 0
    <3>1. Entry(r) = "none" /\ Entry(r)' = "none"
      BY <2>3, EntryOf, EntryAfter
    <3> QED
      BY <1>7, <1>8, <2>1, <3>1 DEF Idle
  <2>4. CASE limit # 0
    <3>1. Entry(r) = "held" /\ Entry(r)' = "settled"
      BY <1>5, <2>1, <2>2, <2>4, EntryAfter
    <3>2. Settles(r)
      BY <1>8, <2>1, <3>1 DEF Settles
    <3>3. Purse(r)'
      BY <1>1, <2>1, <3>1 DEF Purse, Kept
    <3> QED
      BY <3>2, <3>3 DEF Means
  <2> QED
    BY <2>3, <2>4
<1>14. CASE Exhausted(r)
  <2>1. /\ pc[r] = "exhausted" /\ pc'[r] = "leaving"
        /\ UNCHANGED <<usage, reserved, committed, calls, ledger>> /\ told'[r] = told[r]
    <3>1. pc[r] = "exhausted" /\ UNCHANGED <<usage, reserved, committed, calls, ledger>>
      BY <1>14 DEF Exhausted, Refuse, accounts, loop
    <3>2. pc' = [pc EXCEPT ![r] = "leaving"] /\ told' = [told EXCEPT ![r] = told[r] \cup {}]
      BY <1>14 DEF Exhausted, Refuse, Goto, Set
    <3> QED
      BY <1>1, <1>2, <3>1, <3>2 DEF RecordTypes
  <2>2. told'[r] = {} /\ ~committed'[r]
    BY <1>1, <2>1 DEF Records, Unrecorded
  <2>3. calls'[r] # <<>>
    <3>1. SUFFICES ASSUME calls[r] = <<>> PROVE FALSE
      BY <2>1
    <3>2. Len(calls[r]) = MaxAttempts(r) * Len(Schedule(r)) /\ Len(<<>>) = 0
      BY <1>1, <2>1 DEF Position
    <3>3. MaxAttempts(r) * Len(Schedule(r)) # 0
      BY ScheduleType
    <3> QED
      BY <3>1, <3>2, <3>3
  <2>4. Entry(r)' = IF limit = 0 THEN "none" ELSE "held"
    BY <2>1, <2>2, <2>3, EntryAfter
  <2> QED
    BY <1>5, <1>7, <1>8, <2>1, <2>4 DEF Idle
<1>15. ASSUME pc[r] = "using", pc'[r] = "leaving", committed' = committed, reserved' = reserved,
              NEW k \in Nat, NEW code \in Nat, RecordLedgerEntry(r, k, code), usage' = usage + k,
              k \in Outputs \/ (k = 0 /\ usage' = usage)
       PROVE  Means(r) /\ Purse(r)'
  <2>1. committed[r] /\ committed'[r] /\ ledger[r] = <<>>
    BY <1>1, <1>15 DEF Records
  <2>2. /\ Completion(r) = 0 /\ Completion(r)' = k
        /\ \A i \in DOMAIN ledger'[r] : ledger'[r][i].in = Prompt[r]
    BY <1>1, <1>15, <2>1, RecordedCompletion
  <2>3. Entry(r)' = Entry(r) /\ (limit = 0 \/ Entry(r) = "settled")
    BY <2>1, EntryOf, EntryAfter
  <2>4. Purse(r)'
    BY <1>1, <1>15, <2>2, <2>3 DEF Purse, Kept
  <2>5. CASE k \in Outputs
    <3>1. Charged(r, k)
      BY <1>15, <2>2, <2>3 DEF Charged
    <3> QED
      BY <2>4, <2>5, <3>1 DEF Means
  <2>6. CASE k = 0 /\ usage' = usage
    BY <1>15, <2>2, <2>3, <2>4, <2>6 DEF Idle, Means
  <2> QED
    BY <1>15, <2>5, <2>6
<1>16. CASE BodyFails(r)
  <2>1. PICK k \in Nat : k = 0
    OBVIOUS
  <2>2. PICK code \in Nat : code = 502
    OBVIOUS
  <2>3. /\ pc[r] = "using" /\ pc'[r] = "leaving" /\ committed' = committed /\ usage' = usage
        /\ reserved' = reserved /\ RecordLedgerEntry(r, k, code)
    BY <1>2, <1>16, <2>1, <2>2 DEF BodyFails, Goto, Set, accounts
  <2>4. usage \in Nat
    BY UsageType
  <2>5. usage' = usage + k
    BY <2>1, <2>3, <2>4
  <2> QED
    BY <1>15, <2>1, <2>3, <2>5
<1>17. ASSUME NEW k \in Outputs, Stream(r, k) \/ Buffered(r, k) PROVE Means(r) /\ Purse(r)'
  <2>1. /\ pc[r] = "using" /\ pc'[r] = "leaving" /\ committed' = committed
        /\ reserved' = reserved /\ RecordLedgerEntry(r, k, status[r]) /\ usage' = usage + k
    BY <1>2, <1>17 DEF Stream, Buffered, Meter, Goto, Set
  <2>2. k \in Nat /\ status[r] \in Nat
    BY <1>1, InputsAssumption DEF RecordTypes
  <2> QED
    BY <1>15, <2>1, <2>2
<1>18. CASE Leave(r)
  <2>1. /\ pc[r] = "leaving" /\ pc'[r] = "done"
        /\ UNCHANGED <<committed, calls, status, ledger, told>>
    BY <1>2, <1>18 DEF Leave, Goto, Set, loop, meters
  <2>2. CASE reserved[r] > 0 /\ ~committed[r]
    <3>1. usage' = usage - reserved[r] /\ reserved' = [reserved EXCEPT ![r] = 0]
      BY <1>18, <2>2 DEF Leave, Set
    <3>2. r \in Kept /\ reserved[r] = Prompt[r] /\ reserved'[r] = 0
      BY <1>1, <2>2, <3>1 DEF Purse
    <3>3. Entry(r) = "held" /\ Entry(r)' = "returned"
      <4>1. Entry(r) = "held" \/ Entry(r) = "settled"
        BY <3>2 DEF Kept
      <4>2. limit # 0 /\ Entry(r) = "held" /\ "budget.exceeded" \notin told[r]
        BY <2>2, <4>1, EntryOf DEF Entry
      <4>3. pc[r] = "calling" \/ calls[r] # <<>> \/ status[r] = 500
        BY <2>2, <4>2, EntryOf
      <4> QED
        BY <2>1, <2>2, <4>2, <4>3, EntryAfter
    <3>4. Returns(r)
      BY <1>8, <2>1, <3>1, <3>2, <3>3 DEF Returns
    <3>5. Purse(r)'
      BY <1>1, <2>1, <3>2, <3>3 DEF Purse, Kept
    <3> QED
      BY <3>4, <3>5 DEF Means
  <2>3. CASE ~(reserved[r] > 0 /\ ~committed[r])
    <3>1. usage' = usage /\ reserved' = reserved
      BY <1>18, <2>3 DEF Leave
    <3>2. CASE Entry(r) = "held"
      <4>1. limit # 0 /\ ~committed[r] /\ "budget.exceeded" \notin told[r]
        BY <3>2 DEF Entry
      <4>2. pc[r] = "calling" \/ calls[r] # <<>> \/ status[r] = 500
        BY <3>2, <4>1, EntryOf
      <4>3. Entry(r)' = "returned"
        BY <2>1, <4>1, <4>2, EntryAfter
      <4>4. reserved[r] = Prompt[r] /\ reserved[r] = 0
        BY <1>1, <2>3, <3>2, <4>1 DEF Purse, Kept
      <4>5. reserved' = [reserved EXCEPT ![r] = 0]
        BY <1>1, <3>1, <4>4
      <4>6. usage \in Nat
        BY UsageType
      <4>7. usage' = usage - Prompt[r]
        BY <3>1, <4>4, <4>6
      <4>8. Returns(r)
        BY <1>8, <2>1, <3>2, <4>3, <4>5, <4>7 DEF Returns
      <4>9. Purse(r)'
        BY <1>1, <2>1, <3>1, <4>3, <4>4 DEF Purse, Kept
      <4> QED
        BY <4>8, <4>9 DEF Means
    <3>3. CASE Entry(r) # "held"
      <4>1. Entry(r)' = Entry(r)
        BY <2>1, <3>3 DEF Entry
      <4> QED
        BY <1>7, <1>8, <2>1, <3>1, <4>1 DEF Idle
    <3> QED
      BY <3>2, <3>3
  <2> QED
    BY <2>2, <2>3
<1>19. CASE \E code \in Codes : Retry(r, code) \/ Use(r, code)
  BY <1>12, <1>13, <1>19
<1>20. CASE \E n \in Outputs : Stream(r, n) \/ Buffered(r, n)
  BY <1>17, <1>20
<1> QED
  BY <1>9, <1>10, <1>11, <1>12, <1>14, <1>16, <1>18, <1>19, <1>20 DEF Step

\* The others' entries, completions and purses stay as they are.
LEMMA OthersPurse ==
  ASSUME NEW x \in Requests, UNCHANGED Own(x), reserved'[x] = reserved[x]
  PROVE  /\ Entry(x)' = Entry(x) /\ Completion(x)' = Completion(x)
         /\ Purse(x) => Purse(x)'
<1>1. /\ pc'[x] = pc[x] /\ calls'[x] = calls[x] /\ status'[x] = status[x]
      /\ committed'[x] = committed[x] /\ ledger'[x] = ledger[x] /\ told'[x] = told[x]
  BY DEF Own
<1>2. Entry(x)' = Entry(x)
  BY <1>1 DEF Entry
<1>3. Completion(x)' = Completion(x)
  BY <1>1 DEF Completion
<1> QED
  BY <1>1, <1>2, <1>3 DEF Purse, Kept

\* Whatever a step means, the counter stays the sum of what is owed.
LEMMA OwedStep ==
  ASSUME HandlerInv, HandlerInv', Pursed, NEW r \in Requests, Step(r), Means(r)
  PROVE  /\ reserved' \in [Requests -> Nat] /\ usage' = SumOver(Owed, Requests)'
         /\ \A x \in Requests \ {r} : reserved'[x] = reserved[x] /\ UNCHANGED Own(x)
<1>1. /\ usage \in Nat /\ \A x \in Requests : Owed[x] \in Nat
      /\ Prompt[r] \in Nat /\ reserved \in [Requests -> Nat] /\ IsFiniteSet(Requests)
  BY UsageType, InputsAssumption, RequestsAssumption DEF Pursed
<1>2. \A x \in Requests \ {r} : UNCHANGED Own(x)
  BY StepIsLocal DEF HandlerInv, LoopInv, RecordsInv
<1>3. reserved' \in {reserved, [reserved EXCEPT ![r] = Prompt[r]], [reserved EXCEPT ![r] = 0]}
  BY DEF Means, Idle, Holds, Refuses, Settles, Charged, Returns
<1>4. /\ reserved' \in [Requests -> Nat]
      /\ \A x \in Requests \ {r} : reserved'[x] = reserved[x]
  BY <1>1, <1>3
<1>5. Completion(r) \in Nat /\ reserved[r] \in Nat /\ reserved'[r] \in Nat
  BY <1>1, <1>4, CompletionType DEF HandlerInv, RecordsInv
<1> DEFINE new == Owed'
           c == Completion(r)'
<1>6. Owed[r] = reserved[r] + Completion(r) /\ new[r] = reserved'[r] + c
  BY DEF Owed
<1>7. \A x \in Requests \ {r} : new[x] = Owed[x]
  BY <1>2, <1>4, OthersPurse DEF Owed
<1>8. c \in Nat /\ usage' = usage - (reserved[r] + Completion(r)) + (reserved'[r] + c)
  <2> HIDE DEF c, new
  <2>1. CASE Idle(r) \/ Refuses(r) \/ Settles(r)
    BY <1>1, <1>5, <2>1 DEF Idle, Refuses, Settles, c
  <2>2. CASE Holds(r)
    <3>1. reserved[r] = 0 /\ reserved'[r] = Prompt[r]
      BY <1>1, <2>2 DEF Holds, Pursed, Purse, Kept
    <3> QED
      BY <1>1, <1>5, <2>2, <3>1 DEF Holds, c
  <2>3. CASE Returns(r)
    <3>1. reserved[r] = Prompt[r] /\ reserved'[r] = 0
      BY <1>1, <2>3 DEF Returns, Pursed, Purse, Kept
    <3> QED
      BY <1>1, <1>5, <2>3, <3>1 DEF Returns, c
  <2>4. ASSUME NEW n \in Outputs, Charged(r, n)
        PROVE  c \in Nat /\ usage' = usage - (reserved[r] + Completion(r)) + (reserved'[r] + c)
    <3>1. n \in Nat
      BY InputsAssumption
    <3> QED
      BY <1>1, <1>5, <2>4, <3>1 DEF Charged, c
  <2> QED
    BY <2>1, <2>2, <2>3, <2>4 DEF Means
<1> HIDE DEF new, c
<1>9. new[r] \in Nat
  BY <1>5, <1>6, <1>8
<1>10. SumOver(new, Requests) = SumOver(Owed, Requests) - Owed[r] + new[r]
  BY <1>1, <1>7, <1>9, SumChanged
<1>11. usage' = SumOver(new, Requests)
  BY <1>6, <1>8, <1>10 DEF Pursed
<1> QED
  BY <1>2, <1>4, <1>11 DEF new

\* What is kept is on the counter.
LEMMA KeptFits ==
  ASSUME HandlerInv, Pursed
  PROVE  /\ IsFiniteSet(Kept) /\ SumOver(Prompt, Kept) \in Nat
         /\ SumOver(Prompt, Kept) <= usage
<1>1. /\ IsFiniteSet(Requests) /\ \A x \in Requests : Prompt[x] \in Nat /\ reserved[x] \in Nat
      /\ \A x \in Requests : Completion(x) \in Nat /\ Owed[x] \in Nat /\ Purse(x)
  BY UsageType, CompletionType, InputsAssumption, RequestsAssumption
  DEF HandlerInv, RecordsInv, Pursed
<1>2. Kept \in SUBSET Requests
  BY DEF Kept
<1>3. IsFiniteSet(Kept)
  BY <1>1, <1>2, FS_Subset
<1>4. \A x \in Kept : Prompt[x] \in Nat /\ Owed[x] \in Nat /\ Prompt[x] <= Owed[x]
  <2>1. TAKE x \in Kept
  <2>2. x \in Requests /\ reserved[x] = Prompt[x]
    BY <1>1, <1>2 DEF Purse
  <2>3. Owed[x] = reserved[x] + Completion(x)
    BY <2>2 DEF Owed
  <2> QED
    BY <1>1, <2>2, <2>3
<1>5. SumOver(Prompt, Kept) <= SumOver(Owed, Kept)
  BY <1>3, <1>4, SumMonotone
<1>6. SumOver(Owed, Kept) <= SumOver(Owed, Requests)
  BY <1>1, <1>2, SumSubset
<1>7. SumOver(Prompt, Kept) \in Nat /\ SumOver(Owed, Kept) \in Nat /\ usage \in Nat
  BY <1>3, <1>4, SumType, UsageType
<1> QED
  BY <1>3, <1>5, <1>6, <1>7 DEF Pursed

\* Only a reservation that fits adds to what is kept.
LEMMA KeptStep ==
  ASSUME NEW r \in Requests, Means(r), \A x \in Requests \ {r} : Entry(x)' = Entry(x)
  PROVE  \/ Kept' = Kept /\ ~Holds(r) /\ ~Returns(r)
         \/ Holds(r) /\ r \notin Kept /\ Kept' = Kept \cup {r}
         \/ Returns(r) /\ r \in Kept /\ Kept' = Kept \ {r}
<1>1. CASE Holds(r)
  BY <1>1 DEF Holds, Kept
<1>2. CASE Returns(r)
  BY <1>2 DEF Returns, Kept
<1>3. CASE Idle(r) /\ ~Holds(r) /\ ~Returns(r)
  BY <1>3 DEF Idle, Kept
<1>4. CASE (Refuses(r) \/ Settles(r)) /\ ~Holds(r) /\ ~Returns(r)
  BY <1>4 DEF Refuses, Settles, Kept
<1>5. ASSUME NEW n \in Outputs, Charged(r, n), ~Holds(r), ~Returns(r) PROVE Kept' = Kept
  BY <1>5 DEF Charged, Kept
<1> QED
  BY <1>1, <1>2, <1>3, <1>4, <1>5 DEF Means

\* The prompts kept still fit.
LEMMA CappedStep ==
  ASSUME HandlerInv, Pursed, Capped, NEW r \in Requests, Means(r),
         \A x \in Requests \ {r} : Entry(x)' = Entry(x)
  PROVE  Capped'
<1>1. CASE Kept' \subseteq Kept
  BY <1>1 DEF Capped
<1>2. CASE Holds(r) /\ r \notin Kept /\ Kept' = Kept \cup {r}
  <2>1. /\ IsFiniteSet(Kept) /\ SumOver(Prompt, Kept) \in Nat /\ SumOver(Prompt, Kept) <= usage
        /\ usage \in Nat /\ Prompt[r] \in Nat /\ PolicyOf[r].limit \in Nat
        /\ \A x \in Kept \cup {r} : Prompt[x] \in Nat
    BY KeptFits, UsageType, InputsAssumption, PoliciesAssumption DEF Kept
  <2>2. /\ IsFiniteSet(Kept \cup {r})
        /\ SumOver(Prompt, Kept \cup {r}) = SumOver(Prompt, Kept) + Prompt[r]
    BY <1>2, <2>1, FS_AddElement, SumWith
  <2>3. usage + Prompt[r] <= PolicyOf[r].limit
    BY <1>2 DEF Holds
  <2>4. ASSUME NEW T \in SUBSET (Kept \cup {r}), T # {}
        PROVE  \E x \in T : SumOver(Prompt, T) <= PolicyOf[x].limit
    <3>1. CASE r \in T
      <4>1. SumOver(Prompt, T) <= SumOver(Prompt, Kept \cup {r})
        BY <2>1, <2>2, SumSubset
      <4>2. SumOver(Prompt, T) \in Nat
        BY <2>1, <2>2, FS_Subset, SumType
      <4>3. SumOver(Prompt, T) <= PolicyOf[r].limit
        BY <2>1, <2>2, <2>3, <4>1, <4>2
      <4> QED
        BY <3>1, <4>3
    <3>2. CASE r \notin T
      <4>1. T \in SUBSET Kept
        BY <3>2
      <4> QED
        BY <2>4, <4>1 DEF Capped
    <3> QED
      BY <3>1, <3>2
  <2> QED
    BY <1>2, <2>4 DEF Capped
<1> QED
  BY <1>1, <1>2, KeptStep

\* The requests between Acquire and Release.
Busy == {r \in Requests : pc[r] \notin {"new", "done"}}
Counted == parallel = Cardinality(Busy)

\* The limiter's count follows them.
LEMMA CountedStep ==
  ASSUME LoopTypes, Counted, NEW r \in Requests, Step(r),
         \A x \in Requests \ {r} : pc'[x] = pc[x]
  PROVE  Counted'
<1>1. IsFiniteSet(Busy) /\ Busy \in SUBSET Requests /\ Cardinality(Busy) \in Nat
  <2>1. Busy \in SUBSET Requests
    BY DEF Busy
  <2>2. IsFiniteSet(Busy)
    BY <2>1, RequestsAssumption, FS_Subset
  <2> QED
    BY <2>1, <2>2, FS_CardinalityType
<1>2. \A place : pc' = [pc EXCEPT ![r] = place] => pc'[r] = place
  BY DEF LoopTypes
<1> DEFINE inside == {"checks", "calling", "exhausted", "using", "leaving"}
<1>3. CASE (BadRequest(r) \/ RateExceeded(r))
  <2>1. pc[r] = "new" /\ pc'[r] = "done" /\ parallel' = parallel
    BY <1>2, <1>3 DEF BadRequest, RateExceeded, Goto, Set, accounts
  <2>2. Busy' = Busy
    BY <2>1 DEF Busy
  <2> QED
    BY <2>1, <2>2 DEF Counted
<1>4. CASE Admit(r)
  <2>1. pc[r] = "new" /\ pc'[r] = "checks" /\ parallel' = parallel + 1
    BY <1>2, <1>4 DEF Admit, Goto, Set
  <2>2. Busy' = Busy \cup {r} /\ r \notin Busy
    BY <2>1 DEF Busy
  <2>3. Cardinality(Busy \cup {r}) = Cardinality(Busy) + 1
    BY <1>1, <2>2, FS_AddElement
  <2> QED
    BY <2>1, <2>2, <2>3 DEF Counted
<1>5. CASE Leave(r)
  <2>1. pc[r] = "leaving" /\ pc'[r] = "done" /\ parallel' = parallel - 1
    BY <1>2, <1>5 DEF Leave, Goto, Set
  <2>2. Busy' = Busy \ {r} /\ r \in Busy
    BY <2>1 DEF Busy
  <2>3. Cardinality(Busy \ {r}) = Cardinality(Busy) - 1
    BY <1>1, <2>2, FS_RemoveElement
  <2> QED
    BY <2>1, <2>2, <2>3 DEF Counted
<1>6. ASSUME pc[r] \in inside, pc'[r] \in inside, parallel' = parallel PROVE Counted'
  <2>1. Busy' = Busy
    BY <1>6 DEF Busy
  <2> QED
    BY <1>6, <2>1 DEF Counted
<1>7. CASE Forbidden(r) \/ CannotBuild(r) \/ Exhausted(r) \/ BodyFails(r)
  BY <1>2, <1>6, <1>7 DEF Forbidden, CannotBuild, Exhausted, BodyFails, Goto, Set, accounts
<1>8. CASE Reserve(r)
  <2>1. pc' = [pc EXCEPT ![r] = "calling"] \/ pc' = [pc EXCEPT ![r] = "leaving"]
    BY <1>8 DEF Reserve, Goto, Set
  <2>2. pc[r] = "checks" /\ parallel' = parallel
    BY <1>8 DEF Reserve
  <2> QED
    BY <1>2, <1>6, <2>1, <2>2
<1>9. CASE NetworkError(r) \/ \E code \in Codes : Retry(r, code)
  <2>1. pc[r] = "calling" /\ Continue(r) /\ parallel' = parallel
    BY <1>9 DEF NetworkError, Retry, accounts
  <2>2. pc'[r] \in {"calling", "exhausted"}
    BY <2>1 DEF Continue, Goto, Set, LoopTypes
  <2> QED
    BY <1>6, <2>1, <2>2
<1>10. ASSUME NEW code \in Codes, Use(r, code) PROVE Counted'
  BY <1>2, <1>6, <1>10 DEF Use, Goto, Set
<1>11. ASSUME NEW n \in Outputs, Stream(r, n) \/ Buffered(r, n) PROVE Counted'
  BY <1>2, <1>6, <1>11 DEF Stream, Buffered, Goto, Set
<1>12. CASE \E code \in Codes : Retry(r, code) \/ Use(r, code)
  BY <1>9, <1>10, <1>12
<1>13. CASE \E n \in Outputs : Stream(r, n) \/ Buffered(r, n)
  BY <1>11, <1>13
<1> QED
  BY <1>3, <1>4, <1>5, <1>7, <1>8, <1>9, <1>12, <1>13 DEF Step

BudgetInv == HandlerInv /\ Pursed /\ Capped /\ Counted

\* What a step means to the budget, and that the invariant is kept.
LEMMA BudgetStep ==
  ASSUME BudgetInv, NEW r \in Requests, Step(r)
  PROVE  /\ BudgetInv' /\ Means(r)
         /\ \A x \in Requests \ {r} : Entry(x)' = Entry(x)
<1>1. HandlerInv /\ HandlerInv' /\ Pursed /\ Capped /\ Counted /\ LoopTypes
  BY LoopStep, RecordsStep DEF BudgetInv, HandlerInv, LoopInv, Next
<1>2. Means(r) /\ Purse(r)'
  BY <1>1, MeaningOfStep
<1>3. /\ reserved' \in [Requests -> Nat] /\ usage' = SumOver(Owed, Requests)'
      /\ \A x \in Requests \ {r} : reserved'[x] = reserved[x] /\ UNCHANGED Own(x)
  BY <1>1, <1>2, OwedStep
<1>4. \A x \in Requests \ {r} : Entry(x)' = Entry(x) /\ Purse(x)' /\ pc'[x] = pc[x]
  BY <1>1, <1>3, OthersPurse DEF Pursed, Own
<1>5. Pursed'
  BY <1>2, <1>3, <1>4 DEF Pursed
<1>6. Capped'
  BY <1>1, <1>2, <1>4, CappedStep
<1>7. Counted'
  BY <1>1, <1>4, CountedStep
<1> QED
  BY <1>1, <1>2, <1>4, <1>5, <1>6, <1>7 DEF BudgetInv

\* The invariant is inductive.
LEMMA BudgetInductive ==
  ASSUME BudgetInv, [Next]_vars
  PROVE  BudgetInv'
<1>1. CASE UNCHANGED vars
  <2>1. HandlerInv'
    BY <1>1, LoopStep, RecordsStep DEF BudgetInv, HandlerInv
  <2>2. UNCHANGED <<Owed, Kept, Busy>>
    BY <1>1 DEF vars, accounts, loop, meters, Owed, Completion, Kept, Entry, Busy
  <2>3. Pursed'
    BY <1>1, <2>2 DEF BudgetInv, Pursed, Purse, vars, accounts, meters
  <2>4. Capped' /\ Counted'
    BY <1>1, <2>2 DEF BudgetInv, Capped, Counted, vars, accounts
  <2> QED
    BY <2>1, <2>3, <2>4 DEF BudgetInv
<1>2. ASSUME NEW r \in Requests, Step(r) PROVE BudgetInv'
  BY <1>2, BudgetStep
<1> QED
  BY <1>1, <1>2 DEF Next

\* Nothing is reserved, kept or in flight when the requests arrive.
LEMMA BudgetInit ==
  ASSUME Init
  PROVE  BudgetInv
<1>1. HandlerInv
  BY LoopInit, RecordsInit DEF HandlerInv
<1>2. /\ usage = 0 /\ parallel = 0
      /\ \A r \in Requests : /\ pc[r] = "new" /\ reserved[r] = 0 /\ ledger[r] = <<>>
                             /\ status[r] = 0 /\ calls[r] = <<>> /\ told[r] = {} /\ ~committed[r]
  BY DEF Init
<1>3. \A r \in Requests : Entry(r) = "none"
  BY <1>2, EntryOf
<1>4. Kept = {} /\ Busy = {}
  BY <1>2, <1>3 DEF Kept, Busy
<1>5. \A r \in Requests : Owed[r] = 0
  <2>1. \A r \in Requests : Completion(r) = 0
    BY <1>2 DEF Completion
  <2> QED
    BY <1>2, <2>1 DEF Owed
<1>6. SumOver(Owed, Requests) = 0
  BY <1>5, RequestsAssumption, SumZero
<1>7. \A r \in Requests : Purse(r)
  BY <1>2, <1>4 DEF Purse
<1>8. Pursed
  BY <1>2, <1>6, <1>7 DEF Pursed, Init
<1>9. Capped
  BY <1>4 DEF Capped
<1>10. Counted
  BY <1>2, <1>4, FS_EmptySet DEF Counted
<1> QED
  BY <1>1, <1>8, <1>9, <1>10 DEF BudgetInv

\* It always holds.
LEMMA BudgetAlways == Spec => []BudgetInv
BY BudgetInit, BudgetInductive, PTL DEF Spec

\* Type correctness: a release never takes more than was reserved and the limiter's
\* count of requests in flight never becomes negative.
THEOREM TypeCorrect == Spec => []TypeOK
<1>1. BudgetInv => TypeOK
  <2> SUFFICES ASSUME BudgetInv PROVE TypeOK
    OBVIOUS
  <2>1. LoopTypes /\ RecordTypes /\ reserved \in [Requests -> Nat] /\ usage \in Nat
    BY UsageType DEF BudgetInv, HandlerInv, LoopInv, RecordsInv, Pursed
  <2>2. parallel \in Nat
    <3>1. IsFiniteSet(Busy)
      BY RequestsAssumption, FS_Subset DEF Busy
    <3> QED
      BY <3>1, FS_CardinalityType DEF BudgetInv, Counted
  <2> QED
    BY <2>1, <2>2 DEF TypeOK, LoopTypes, RecordTypes, Places, CallRecord, StatRecord,
                      LedgerRecord, Events
<1> QED
  BY <1>1, BudgetAlways, PTL

\* What the ledger explains of one request at rest is what it owes.
LEMMA ChargesAtRest ==
  ASSUME HandlerInv, Pursed, NEW r \in Requests, pc[r] \in {"new", "done"}
  PROVE  Charges(r) = Owed[r]
<1> DEFINE f == [k \in DOMAIN ledger[r] |->
                   ledger[r][k].out + IF PolicyOf[r].limit > 0 THEN ledger[r][k].in ELSE 0]
<1>1. /\ Position(r) /\ Records(r) /\ Purse(r) /\ ledger[r] \in Seq(LedgerRecord)
      /\ reserved[r] \in Nat /\ PolicyOf[r].limit \in Nat /\ Prompt[r] \in Nat
  BY PoliciesAssumption, InputsAssumption
  DEF HandlerInv, LoopInv, RecordsInv, RecordTypes, Pursed
<1>2. Charges(r) = SumOver(f, DOMAIN ledger[r]) /\ Owed[r] = reserved[r] + Completion(r)
  BY DEF Charges, Owed
<1>3. CASE ledger[r] = <<>>
  <2>1. Charges(r) = 0 /\ Completion(r) = 0
    <3>1. DOMAIN ledger[r] = {}
      BY <1>3
    <3> HIDE DEF f
    <3> QED
      BY <1>2, <1>3, <3>1, SumEmpty DEF Completion
  <2>2. ~committed[r]
    <3>1. CASE pc[r] = "new"
      BY <1>1, <3>1 DEF Records, Unrecorded
    <3>2. CASE pc[r] = "done"
      <4>1. Len(ledger[r]) = 0 /\ Agree(r)
        BY <1>1, <1>3, <3>2 DEF Records
      <4> QED
        BY <4>1 DEF Agree
    <3> QED
      BY <3>1, <3>2
  <2>3. r \notin Kept
    <3>1. CASE pc[r] = "new"
      <4>1. calls[r] = <<>> /\ told[r] = {} /\ status[r] = 0
        BY <1>1, <3>1 DEF Position, Records, Unrecorded, Purse
      <4>2. Entry(r) = "none"
        BY <2>2, <3>1, <4>1, EntryOf
      <4> QED
        BY <4>2 DEF Kept
    <3>2. CASE pc[r] = "done"
      BY <2>2, <3>2 DEF Kept, Entry
    <3> QED
      BY <3>1, <3>2
  <2>4. reserved[r] = 0
    BY <1>1, <2>3 DEF Purse
  <2> QED
    BY <1>2, <2>1, <2>4
<1>4. CASE ledger[r] # <<>>
  <2>1. pc[r] = "done" /\ Agree(r)
    BY <1>1, <1>4 DEF Records, Unrecorded
  <2>2. committed[r] /\ Len(ledger[r]) = 1
    <3>1. Len(ledger[r]) # 0
      BY <1>1, <1>4, EmptySeq
    <3> QED
      BY <2>1, <3>1 DEF Agree
  <2>3. DOMAIN ledger[r] = {1}
    BY <1>1, <2>2, LenProperties
  <2>4. /\ ledger[r][1] \in LedgerRecord /\ ledger[r][1].in = Prompt[r]
        /\ Completion(r) = ledger[r][1].out /\ Completion(r) \in Nat
    <3>1. ledger[r][1] \in LedgerRecord
      BY <1>1, <2>2, ElementOfSeq
    <3> QED
      BY <1>1, <1>4, <2>3, <3>1 DEF Purse, Completion, LedgerRecord
  <2>5. f[1] = Completion(r) + IF PolicyOf[r].limit > 0 THEN Prompt[r] ELSE 0
    BY <2>3, <2>4
  <2>6. Charges(r) = f[1]
    <3>1. f[1] \in Nat
      BY <1>1, <2>4, <2>5
    <3> HIDE DEF f
    <3> QED
      BY <1>2, <2>3, <3>1, SumOne
  <2>7. reserved[r] = IF PolicyOf[r].limit > 0 THEN Prompt[r] ELSE 0
    <3>1. CASE PolicyOf[r].limit > 0
      <4>1. Entry(r) = "settled"
        BY <1>1, <2>2, <3>1, EntryOf
      <4> QED
        BY <1>1, <3>1, <4>1 DEF Purse, Kept
    <3>2. CASE ~(PolicyOf[r].limit > 0)
      <4>1. PolicyOf[r].limit = 0
        BY <1>1, <3>2
      <4>2. Entry(r) = "none"
        BY <4>1, EntryOf
      <4> QED
        BY <1>1, <3>2, <4>2 DEF Purse, Kept
    <3> QED
      BY <3>1, <3>2
  <2> HIDE DEF f
  <2> QED
    BY <1>1, <1>2, <2>4, <2>5, <2>6, <2>7
<1> QED
  BY <1>3, <1>4

\* At rest the budget counter is what the ledger says was used: no return of
\* handleChatCompletions leaves tokens charged that no entry explains, or an entry
\* whose tokens were given back.
THEOREM LedgerExplains == Spec => []LedgerExplainsUsage
<1>1. BudgetInv => LedgerExplainsUsage
  <2> DEFINE charges == [r \in Requests |-> Charges(r)]
  <2> SUFFICES ASSUME BudgetInv, \A r \in Requests : pc[r] \in {"new", "done"}
               PROVE  usage = SumOver(charges, Requests)
    BY DEF LedgerExplainsUsage
  <2>1. \A r \in Requests : Owed[r] \in Nat /\ charges[r] = Owed[r]
    BY ChargesAtRest, UsageType DEF BudgetInv
  <2> HIDE DEF charges
  <2>2. SumOver(charges, Requests) = SumOver(Owed, Requests)
    BY <2>1, RequestsAssumption, SumSame
  <2> QED
    BY <2>2 DEF BudgetInv, Pursed
<1> QED
  BY <1>1, BudgetAlways, PTL

\* The prompts being tried or paid for fit the budget of one of the requests that
\* made them, however many handlers run at once.
THEOREM PromptsFit == Spec => []InputCap
<1>1. BudgetInv => InputCap
  <2> SUFFICES ASSUME BudgetInv, SumOver(Prompt, Admitted) > 0
               PROVE  \E r \in Admitted : SumOver(Prompt, Admitted) <= PolicyOf[r].limit
    BY DEF InputCap
  <2>1. Admitted # {}
    <3>1. SUFFICES ASSUME Admitted = {} PROVE FALSE
      OBVIOUS
    <3>2. SumOver(Prompt, Admitted) = 0
      BY <3>1, SumEmpty
    <3> QED
      BY <3>2
  <2>2. Admitted \in SUBSET Kept
    <3>1. ASSUME NEW r \in Admitted PROVE r \in Kept
      <4>1. /\ r \in Requests /\ PolicyOf[r].limit # 0 /\ (reserved[r] > 0 \/ committed[r])
            /\ reserved[r] = IF r \in Kept THEN Prompt[r] ELSE 0
        BY DEF Admitted, BudgetInv, Pursed, Purse
      <4>2. CASE committed[r]
        BY <4>1, <4>2, EntryOf DEF Kept
      <4>3. CASE reserved[r] > 0
        BY <4>1, <4>3
      <4> QED
        BY <4>1, <4>2, <4>3
    <3> QED
      BY <3>1
  <2> QED
    BY <2>1, <2>2 DEF BudgetInv, Capped
<1> QED
  BY <1>1, BudgetAlways, PTL

----------------------------------------------------------------------------
(* The book.                                                               *)

\* The book's total is the counter.
LEMMA BookTotal ==
  ASSUME BudgetInv
  PROVE  Book!Total = usage
<1>1. Book!SumOver(Prompt, Kept) = SumOver(Prompt, Kept)
  BY DEF Book!SumOver, SumOver, Book!MapThenSumSet, MapThenSumSet, Book!MapThenFoldSet,
         MapThenFoldSet
<1>2. Kept = {r \in Requests : [x \in Requests |-> Entry(x)][r] \in {"held", "settled"}}
  BY DEF Kept
<1>3. Book!Inputs = SumOver(Prompt, Kept)
  BY <1>1, <1>2 DEF Book!Inputs
<1>4. Book!Total = Book!Inputs + (usage - SumOver(Prompt, Kept))
  BY DEF Book!Total, Kept
<1>5. SumOver(Prompt, Kept) \in Nat /\ usage \in Nat
  BY KeptFits, UsageType DEF BudgetInv
<1> QED
  BY <1>3, <1>4, <1>5

\* What is charged beyond the prompts kept grows with completions and changes with
\* nothing else.
LEMMA BookCharged ==
  ASSUME BudgetInv, NEW r \in Requests, \A x \in Requests \ {r} : Entry(x)' = Entry(x)
  PROVE  /\ Idle(r) \/ Holds(r) \/ Refuses(r) \/ Settles(r) \/ Returns(r) =>
              usage' - SumOver(Prompt, Kept)' = usage - SumOver(Prompt, Kept)
         /\ \A n \in Outputs : Charged(r, n) =>
              usage' - SumOver(Prompt, Kept)' >= usage - SumOver(Prompt, Kept)
<1> DEFINE now == Kept'
           a == SumOver(Prompt, Kept)
           b == SumOver(Prompt, now)
<1>1. /\ IsFiniteSet(Kept) /\ a \in Nat /\ usage \in Nat /\ Prompt[r] \in Nat
      /\ \A x \in Kept : Prompt[x] \in Nat
  BY KeptFits, UsageType, InputsAssumption DEF BudgetInv, Kept
<1>2. Idle(r) \/ Refuses(r) \/ Settles(r) => usage' = usage /\ now = Kept
  BY DEF Idle, Refuses, Settles, Kept
<1>3. Holds(r) => usage' = usage + Prompt[r] /\ now = Kept \cup {r} /\ r \notin Kept
  BY DEF Holds, Kept
<1>4. Returns(r) => usage' = usage - Prompt[r] /\ now = Kept \ {r} /\ r \in Kept
  BY DEF Returns, Kept
<1>5. ASSUME NEW n \in Outputs, Charged(r, n)
      PROVE  usage' = usage + n /\ now = Kept /\ n \in Nat
  BY <1>5, InputsAssumption DEF Charged, Kept
<1> HIDE DEF now
<1>6. ASSUME Idle(r) \/ Refuses(r) \/ Settles(r) PROVE usage' - b = usage - a
  BY <1>2, <1>6
<1>7. ASSUME Holds(r) PROVE usage' - b = usage - a
  <2>1. b = a + Prompt[r]
    BY <1>1, <1>3, <1>7, SumWith
  <2> QED
    BY <1>1, <1>3, <1>7, <2>1
<1>8. ASSUME Returns(r) PROVE usage' - b = usage - a
  <2>1. a = b + Prompt[r]
    BY <1>1, <1>4, <1>8, SumWithout
  <2>2. b \in Nat
    BY <1>1, <1>4, <1>8, FS_RemoveElement, SumType
  <2> HIDE DEF a, b
  <2> QED
    BY <1>1, <1>4, <1>8, <2>1, <2>2
<1>9. ASSUME NEW n \in Outputs, Charged(r, n) PROVE usage' - b >= usage - a
  <2>1. usage' = usage + n /\ b = a /\ n \in Nat
    BY <1>5, <1>9
  <2> HIDE DEF a, b
  <2> QED
    BY <1>1, <2>1
<1> QED
  BY <1>6, <1>7, <1>8, <1>9 DEF now

\* What a step means to the budget is a step of the book.
LEMMA BookStep ==
  ASSUME BudgetInv, NEW r \in Requests, Step(r)
  PROVE  [Book!BookNext]_(Book!bookVars)
<1> DEFINE entry == [x \in Requests |-> Entry(x)]
           charged == usage - SumOver(Prompt, Kept)
           limits == [x \in Requests |-> PolicyOf[x].limit]
<1>1. Means(r) /\ \A x \in Requests \ {r} : Entry(x)' = Entry(x)
  BY BudgetStep
<1>2. Book!bookVars = <<entry, charged>>
  BY DEF Book!bookVars, Kept
<1>3. /\ entry' = [entry EXCEPT ![r] = Entry(r)'] /\ entry[r] = Entry(r)
      /\ limits[r] = PolicyOf[r].limit
  BY <1>1
<1>4. Book!Total = usage
  BY BookTotal
<1>5. /\ Idle(r) \/ Holds(r) \/ Refuses(r) \/ Settles(r) \/ Returns(r) => charged' = charged
      /\ \A n \in Outputs : Charged(r, n) => charged' >= charged
  BY <1>1, BookCharged
<1>6. \A from, to : Entry(r) = from /\ Entry(r)' = to => Book!Move(r, from, to)
  BY <1>3 DEF Book!Move
<1>7. CASE Idle(r)
  <2>1. entry' = entry
    BY <1>1, <1>7 DEF Idle
  <2>2. charged' = charged
    BY <1>5, <1>7
  <2> QED
    BY <2>1, <2>2 DEF Book!bookVars, Kept
<1>8. CASE Holds(r)
  <2>1. Book!Move(r, "none", "held") /\ limits[r] > 0 /\ Book!Total + Prompt[r] <= limits[r] + 0
    <3>1. usage \in Nat /\ Prompt[r] \in Nat /\ PolicyOf[r].limit \in Nat
      BY UsageType, InputsAssumption, PoliciesAssumption DEF BudgetInv
    <3> QED
      BY <1>3, <1>4, <1>6, <1>8, <3>1 DEF Holds
  <2>2. Book!Hold(r)
    BY <1>5, <1>8, <2>1 DEF Book!Hold, Kept
  <2> QED
    BY <2>2 DEF Book!BookNext
<1>9. CASE Refuses(r)
  <2>1. Book!Move(r, "none", "refused") /\ limits[r] > 0 /\ Book!Total + Prompt[r] > limits[r]
    BY <1>3, <1>4, <1>6, <1>9 DEF Refuses
  <2>2. Book!Refuse(r)
    BY <1>5, <1>9, <2>1 DEF Book!Refuse, Kept
  <2> QED
    BY <2>2 DEF Book!BookNext
<1>10. CASE Settles(r)
  <2>1. Book!Settle(r)
    BY <1>5, <1>6, <1>10 DEF Settles, Book!Settle, Kept
  <2> QED
    BY <2>1 DEF Book!BookNext
<1>11. CASE Returns(r)
  <2>1. Book!Return(r)
    BY <1>5, <1>6, <1>11 DEF Returns, Book!Return, Kept
  <2> QED
    BY <2>1 DEF Book!BookNext
<1>12. ASSUME NEW n \in Outputs, Charged(r, n) PROVE [Book!BookNext]_(Book!bookVars)
  <2>1. entry' = entry /\ (entry[r] = "settled" \/ limits[r] = 0) /\ charged' >= charged
    BY <1>1, <1>3, <1>5, <1>12 DEF Charged
  <2>2. Book!Charge(r)
    BY <2>1 DEF Book!Charge, Kept
  <2> QED
    BY <2>2 DEF Book!BookNext
<1> QED
  BY <1>1, <1>7, <1>8, <1>9, <1>10, <1>11, <1>12 DEF Means

\* The handler keeps the account book of the token (BudgetLedger), with no slack:
\* a prompt is held if it fits, settled by the response that is used, and otherwise
\* returned in full by the deferred release; only completions are charged besides.
THEOREM HandlerKeepsBook == Spec => KeepsBook
<1>1. Init => Book!BookInit
  <2> SUFFICES ASSUME Init PROVE Book!BookInit
    OBVIOUS
  <2>1. BudgetInv /\ usage = 0 /\ \A r \in Requests : Entry(r) = "none"
    <3>1. \A r \in Requests : /\ pc[r] = "new" /\ status[r] = 0 /\ calls[r] = <<>>
                              /\ told[r] = {} /\ ~committed[r]
      BY DEF Init
    <3>2. \A r \in Requests : Entry(r) = "none"
      BY <3>1, EntryOf
    <3> QED
      BY <3>2, BudgetInit DEF Init
  <2>2. Kept = {}
    BY <2>1 DEF Kept
  <2>3. usage - SumOver(Prompt, Kept) = 0
    BY <2>1, <2>2, SumEmpty
  <2> QED
    BY <2>1, <2>3 DEF Book!BookInit, Kept
<1>2. BudgetInv /\ [Next]_vars => [Book!BookNext]_(Book!bookVars)
  <2> SUFFICES ASSUME BudgetInv, [Next]_vars PROVE [Book!BookNext]_(Book!bookVars)
    OBVIOUS
  <2>1. CASE UNCHANGED vars
    BY <2>1 DEF vars, accounts, loop, meters, Book!bookVars, Entry
  <2>2. ASSUME NEW r \in Requests, Step(r) PROVE [Book!BookNext]_(Book!bookVars)
    BY <2>2, BookStep
  <2> QED
    BY <2>1, <2>2 DEF Next
<1> QED
  BY <1>1, <1>2, BudgetAlways, PTL DEF Spec, KeepsBook, Book!BookSpec

============================================================================
