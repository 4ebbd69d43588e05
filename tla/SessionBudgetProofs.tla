--------------------------- MODULE SessionBudgetProofs ---------------------------
(***************************************************************************)
(* Proofs about the usage counter, for any number of proxies, requests and *)
(* faults and any prompts and budgets: until a fault it is exactly what is *)
(* owed, it covers the prompts owed but for what repeated releases took,   *)
(* and these never exceed a budget by more than that and a prompt for each *)
(* other proxy.                                                            *)
(***************************************************************************)
EXTENDS SessionBudget, SumTheorems

\* Requests between their comparison and their increment.
Adding == {r \in Requests : pc[r] = "add"}
Counted == Owing \cup Adding

\* Only one request of a proxy is between the two: the one that holds its mutex.
Holding == \A r \in Adding : mutex[ProxyOf[r]] = r /\ LimitOf[r] > 0

\* What a request has reserved, committed and been charged, by where it is.
Account(r) ==
  /\ LimitOf[r] = 0 \/ pc[r] \in {"new", "add", "refused"} => reserved[r] = 0
  /\ LimitOf[r] > 0 /\ pc[r] \in {"send", "answered", "leaving"} => reserved[r] = Prompt[r]
  /\ pc[r] \in {"new", "add", "refused", "send"} => ~committed[r]
  /\ pc[r] = "answered" => committed[r]
  /\ pc[r] \in {"new", "add", "refused", "send", "answered"} => out[r] = 0

\* The counter and what repeated releases took of it cover what is owed, and until a
\* fault the counter is exactly that.
Covered ==
  /\ usage + excess >= InputsOwed + OutputsOwed
  /\ faults = 0 => usage = InputsOwed + OutputsOwed

\* Any requests that are counted, and not only all of them, fit the budget of one
\* of them: whichever are returned, the others still do.
Capped ==
  \A T \in SUBSET Counted : T # {} =>
    \E r \in T : SumOver(Prompt, T) <= LimitOf[r] + Overrun + excess

IInv == TypeOK /\ Holding /\ (\A r \in Requests : Account(r)) /\ Covered /\ Capped

----------------------------------------------------------------------------
(* The bound on what other proxies may add.                                *)

\* A bounded set of naturals that is not empty has a maximum.
LEMMA MaxIsBound ==
  ASSUME NEW S \in SUBSET Nat, S # {}, NEW n \in Nat, \A s \in S : s <= n
  PROVE  Max(S) \in S /\ \A s \in S : s <= Max(S)
<1> DEFINE U == {k \in Nat : \A s \in S : s <= k}
           B == {0..k : k \in U}
           R == StrictSubsetOrdering(Nat)
<1>1. B # {} /\ \A k \in U : 0..k \in SUBSET Nat /\ IsFiniteSet(0..k)
  <2>1. n \in U
    OBVIOUS
  <2>2. ASSUME NEW k \in U PROVE 0..k \in SUBSET Nat /\ IsFiniteSet(0..k)
    <3>1. k \in Int /\ 0 \in Int
      OBVIOUS
    <3> QED
      BY <3>1, FS_Interval
  <2> QED
    BY <2>1, <2>2
<1>2. B \subseteq FiniteSubsetsOf(Nat)
  BY <1>1 DEF FiniteSubsetsOf
<1>3. PICK u \in U : \A k \in U : ~(k < u)
  <2>1. PICK t \in B : \A b \in B : <<b, t>> \notin R
    <3>1. IsWellFoundedOn(R, FiniteSubsetsOf(Nat))
      BY FS_StrictSubsetOrderingWellFounded
    <3> HIDE DEF B, R
    <3> QED
      BY <1>1, <1>2, <3>1, WFMin
  <2>2. PICK u \in U : t = 0..u
    BY <2>1
  <2>3. ASSUME NEW k \in U, k < u PROVE FALSE
    <3>1. 0..k \subseteq 0..u /\ u \in 0..u /\ u \notin 0..k
      BY <2>2, <2>3
    <3>2. <<0..k, 0..u>> \in R
      BY <1>1, <2>2, <3>1 DEF StrictSubsetOrdering
    <3> QED
      BY <2>1, <2>2, <3>2
  <2> QED
    BY <2>2, <2>3
<1>4. u \in S
  <2>1. SUFFICES ASSUME u \notin S PROVE FALSE
    OBVIOUS
  <2>2. PICK s \in S : TRUE
    OBVIOUS
  <2>3. s \in Nat /\ s < u
    BY <2>1, <2>2
  <2>4. u - 1 \in U
    BY <2>1, <2>3
  <2> QED
    BY <1>3, <2>3, <2>4
<1>5. \A s \in S : u >= s
  OBVIOUS
<1>6. \E x \in S : \A s \in S : x >= s
  BY <1>4, <1>5
<1>7. Max(S) \in S /\ \A s \in S : Max(S) >= s
  BY <1>6 DEF Max
<1> QED
  BY <1>7

\* Every prompt is bounded by the largest.
LEMMA MaxPromptBound == MaxPrompt \in Nat /\ \A r \in Requests : Prompt[r] \in 0..MaxPrompt
<1>1. CASE Requests = {}
  BY <1>1 DEF MaxPrompt
<1>2. CASE Requests # {}
  <2> DEFINE S == {Prompt[r] : r \in Requests}
             n == SumOver(Prompt, Requests)
  <2>1. \A r \in Requests : Prompt[r] \in Nat
    BY CountsAssumption
  <2>2. IsFiniteSet(Requests)
    BY RequestsAssumption
  <2>3. n \in Nat
    BY <2>1, <2>2, SumType
  <2>4. ASSUME NEW r \in Requests PROVE Prompt[r] <= n
    <3>1. SumOver(Prompt, Requests) = SumOver(Prompt, Requests \ {r}) + Prompt[r]
      BY <2>1, <2>2, SumWithout
    <3>2. IsFiniteSet(Requests \ {r})
      BY <2>2, FS_RemoveElement
    <3>3. SumOver(Prompt, Requests \ {r}) \in Nat
      BY <2>1, <3>2, SumType
    <3> QED
      BY <2>1, <3>1, <3>3
  <2>5. S \in SUBSET Nat /\ S # {} /\ \A s \in S : s <= n
    BY <1>2, <2>1, <2>4
  <2> HIDE DEF n
  <2>6. Max(S) \in S /\ \A s \in S : s <= Max(S)
    <3> HIDE DEF S
    <3> QED
      BY <2>3, <2>5, MaxIsBound
  <2>7. MaxPrompt = Max(S)
    BY <1>2 DEF MaxPrompt
  <2> QED
    BY <2>1, <2>5, <2>6, <2>7
<1> QED
  BY <1>1, <1>2

\* The slack is a natural number.
LEMMA OverrunType == Overrun \in Nat
<1>1. MaxPrompt \in Nat
  BY MaxPromptBound
<1>2. Cardinality(Proxies) \in Nat /\ Cardinality(Proxies) # 0
  BY ProxiesAssumption, FS_CardinalityType, FS_EmptySet
<1>3. Cardinality(Proxies) - 1 \in Nat
  BY <1>2
<1> QED
  BY <1>1, <1>3 DEF Overrun

\* While a proxy's mutex is free, the others add no more than Overrun.
LEMMA AddingBound ==
  ASSUME TypeOK, Holding, NEW r \in Requests, Free(r)
  PROVE  /\ IsFiniteSet(Adding) /\ SumOver(Prompt, Adding) \in Nat
         /\ SumOver(Prompt, Adding) <= Overrun /\ Overrun \in Nat
<1> DEFINE p == ProxyOf[r]
           others == Proxies \ {p}
           place == [x \in Adding |-> ProxyOf[x]]
           n == Cardinality(Proxies)
<1>1. p \in Proxies /\ IsFiniteSet(Proxies)
  BY ProxiesAssumption
<1>2. IsFiniteSet(others) /\ Cardinality(others) = n - 1 /\ Cardinality(others) \in Nat
  BY <1>1, FS_RemoveElement, FS_CardinalityType
<1>3. ASSUME NEW x \in Adding PROVE ProxyOf[x] \in others
  BY <1>3, ProxiesAssumption, RequestsAssumption DEF Adding, Holding, Free
<1>4. place \in Injection(Adding, others)
  <2>1. place \in [Adding -> others]
    BY <1>3
  <2>2. ASSUME NEW x \in Adding, NEW y \in Adding, place[x] = place[y] PROVE x = y
    <3>1. mutex[ProxyOf[x]] = x /\ mutex[ProxyOf[y]] = y
      BY DEF Holding
    <3> QED
      BY <2>2, <3>1
  <2> QED
    BY <2>1, <2>2 DEF Injection, IsInjective
<1> HIDE DEF place, others, n
<1>5. IsFiniteSet(Adding) /\ Cardinality(Adding) <= n - 1
  BY <1>2, <1>4, FS_Injection
<1>6. \A x \in Adding : Prompt[x] \in 0..MaxPrompt /\ Prompt[x] \in Nat
  BY MaxPromptBound, CountsAssumption DEF Adding
<1>7. SumOver(Prompt, Adding) \in Nat
  BY <1>5, <1>6, SumType
<1>8. SumOver(Prompt, Adding) <= Cardinality(Adding) * MaxPrompt
  BY <1>5, <1>6, MaxPromptBound, SumBound
<1>9. Cardinality(Adding) \in Nat /\ n - 1 \in Nat /\ MaxPrompt \in Nat
  BY <1>2, <1>5, FS_CardinalityType, MaxPromptBound
<1>10. Cardinality(Adding) * MaxPrompt <= (n - 1) * MaxPrompt
  <2>1. \A a, b, c \in Nat : a <= b => a * c <= b * c
    <3>1. TAKE a, b, c \in Nat
    <3>2. HAVE a <= b
    <3>3. PICK d \in Nat : b = a + d
      BY <3>2
    <3>4. b * c = a * c + d * c /\ d * c \in Nat /\ a * c \in Nat
      BY <3>3
    <3> QED
      BY <3>4
  <2> QED
    BY <1>5, <1>9, <2>1
<1>11. Overrun = (n - 1) * MaxPrompt /\ Overrun \in Nat
  <2>1. Overrun = (n - 1) * MaxPrompt
    BY DEF Overrun, n
  <2> QED
    BY <1>9, <2>1
<1>12. Cardinality(Adding) * MaxPrompt \in Nat
  BY <1>9
<1> QED
  BY <1>5, <1>7, <1>8, <1>10, <1>11, <1>12

----------------------------------------------------------------------------
(* What a step does to the sums.                                           *)

Places == {"new", "add", "refused", "send", "answered", "leaving", "done", "lost"}

\* TypeOK but for the sign of the counter.
Typed ==
  /\ usage \in Int /\ excess \in Nat /\ faults \in 0..MaxFaults
  /\ mutex \in [Proxies -> Requests \cup {Nobody}]
  /\ pc \in [Requests -> Places]
  /\ reserved \in [Requests -> Nat] /\ committed \in [Requests -> BOOLEAN]
  /\ out \in [Requests -> Nat]

LEMMA TypedOK == TypeOK <=> Typed /\ usage + excess >= 0
BY DEF TypeOK, Typed, Places

\* A call that adds n tokens, as often as it is applied.
LEMMA CallAdds ==
  ASSUME Typed, NEW n \in Nat, NEW k \in 0..MaxSends, Add(n, k)
  PROVE  /\ usage' \in Int /\ excess' = excess /\ usage' >= usage
         /\ k # 0 => usage' >= usage + n
         /\ k = 1 => usage' = usage + n
<1>1. usage' = usage + k * n /\ excess' = excess /\ usage \in Int /\ k \in Nat
  BY CountsAssumption DEF Add, Typed
<1>2. CASE k = 0
  BY <1>1, <1>2
<1>3. CASE k # 0
  <2>1. PICK j \in Nat : k = j + 1
    BY <1>1, <1>3
  <2>2. k * n = j * n + n /\ j * n \in Nat
    BY <2>1
  <2>3. j = 0 => k * n = n
    BY <2>1
  <2> QED
    BY <1>1, <1>3, <2>1, <2>2, <2>3
<1> QED
  BY <1>2, <1>3

\* A call that takes n tokens: what it takes beyond them is recorded.
LEMMA CallSubtracts ==
  ASSUME Typed, NEW n \in Nat, NEW k \in 0..MaxSends, Subtract(n, k)
  PROVE  /\ usage' \in Int /\ excess' \in Nat /\ excess' >= excess
         /\ usage' + excess' >= usage + excess - n
         /\ k = 1 => usage' = usage - n /\ excess' = excess
<1>1. /\ usage' = usage - k * n /\ excess' = excess + IF k > 1 THEN (k - 1) * n ELSE 0
      /\ usage \in Int /\ excess \in Nat /\ k \in Nat
  BY CountsAssumption DEF Subtract, Typed
<1>2. CASE k = 0
  <2>1. usage' = usage /\ excess' = excess
    BY <1>1, <1>2
  <2> QED
    BY <1>1, <1>2, <2>1
<1>3. CASE k = 1
  <2>1. usage' = usage - n /\ excess' = excess
    BY <1>1, <1>3
  <2> QED
    BY <1>1, <2>1
<1>4. CASE k > 1
  <2>1. PICK j \in Nat : k = j + 1
    BY <1>1, <1>4
  <2>2. k * n = j * n + n /\ j * n \in Nat
    BY <2>1
  <2>3. (k - 1) * n = j * n
    BY <2>1
  <2>4. usage' = usage - (j * n + n) /\ excess' = excess + j * n
    BY <1>1, <1>4, <2>2, <2>3
  <2> DEFINE m == j * n
  <2>5. m \in Nat /\ usage' = usage - (m + n) /\ excess' = excess + m
    BY <2>2, <2>4
  <2> HIDE DEF m
  <2> QED
    BY <1>1, <1>4, <2>5
<1> QED
  BY <1>1, <1>2, <1>3, <1>4

\* The sums are natural numbers.
LEMMA SumsType ==
  ASSUME Typed
  PROVE  /\ IsFiniteSet(Owing) /\ \A r \in Requests : Prompt[r] \in Nat
         /\ InputsOwed \in Nat /\ OutputsOwed \in Nat
<1>1. IsFiniteSet(Requests) /\ \A r \in Requests : Prompt[r] \in Nat /\ out[r] \in Nat
  BY RequestsAssumption, CountsAssumption DEF Typed
<1>2. Owing \in SUBSET Requests
  BY DEF Owing
<1>3. IsFiniteSet(Owing)
  BY <1>1, <1>2, FS_Subset
<1>4. SumOver(Prompt, Owing) \in Nat
  BY <1>1, <1>2, <1>3, SumType
<1>5. SumOver(out, Requests) \in Nat
  BY <1>1, SumType
<1> QED
  BY <1>1, <1>3, <1>4, <1>5 DEF InputsOwed, OutputsOwed

\* They are after a step, too.
LEMMA SumsTypeAfter ==
  ASSUME Typed'
  PROVE  InputsOwed' \in Nat /\ OutputsOwed' \in Nat
<1> DEFINE new == out'
           owing == Owing'
<1>1. IsFiniteSet(Requests) /\ \A r \in Requests : Prompt[r] \in Nat /\ new[r] \in Nat
  BY RequestsAssumption, CountsAssumption DEF Typed
<1>2. owing \in SUBSET Requests
  BY DEF Owing
<1>3. InputsOwed' = SumOver(Prompt, owing) /\ OutputsOwed' = SumOver(new, Requests)
  BY DEF InputsOwed, OutputsOwed
<1> HIDE DEF new, owing
<1>4. IsFiniteSet(owing)
  BY <1>1, <1>2, FS_Subset
<1>5. SumOver(Prompt, owing) \in Nat
  BY <1>1, <1>2, <1>4, SumType
<1>6. SumOver(new, Requests) \in Nat
  BY <1>1, SumType
<1> QED
  BY <1>3, <1>5, <1>6

\* A request starts to owe its prompt.
LEMMA OwingJoins ==
  ASSUME Typed, NEW r \in Requests, r \notin Owing, Owing' = Owing \cup {r}
  PROVE  InputsOwed' = InputsOwed + Prompt[r]
<1>1. IsFiniteSet(Owing) /\ Prompt[r] \in Nat /\ \A x \in Owing : Prompt[x] \in Nat
  BY SumsType DEF Owing
<1>2. SumOver(Prompt, Owing \cup {r}) = SumOver(Prompt, Owing) + Prompt[r]
  BY <1>1, SumWith
<1> QED
  BY <1>2 DEF InputsOwed

\* A request owes nothing any more.
LEMMA OwingLeaves ==
  ASSUME Typed, NEW r \in Owing, Owing' = Owing \ {r}
  PROVE  InputsOwed = InputsOwed' + Prompt[r]
<1>1. IsFiniteSet(Owing) /\ \A x \in Owing : Prompt[x] \in Nat
  BY SumsType DEF Owing
<1>2. SumOver(Prompt, Owing) = SumOver(Prompt, Owing \ {r}) + Prompt[r]
  BY <1>1, SumWithout
<1> QED
  BY <1>2 DEF InputsOwed

\* Fewer requests owe less.
LEMMA OwingShrinks ==
  ASSUME Typed, Owing' \subseteq Owing
  PROVE  InputsOwed' <= InputsOwed
<1>1. IsFiniteSet(Owing) /\ \A x \in Owing : Prompt[x] \in Nat
  BY SumsType DEF Owing
<1>2. SumOver(Prompt, Owing') <= SumOver(Prompt, Owing)
  BY <1>1, SumSubset
<1> QED
  BY <1>2 DEF InputsOwed

\* A completion of n tokens is charged to r.
LEMMA OutputJoins ==
  ASSUME Typed, NEW r \in Requests, out[r] = 0, NEW n \in Nat, out' = [out EXCEPT ![r] = n]
  PROVE  OutputsOwed' = OutputsOwed + n
<1>1. IsFiniteSet(Requests) /\ \A x \in Requests : out[x] \in Nat
  BY RequestsAssumption DEF Typed
<1>2. out'[r] = n /\ out'[r] \in Nat /\ \A x \in Requests \ {r} : out'[x] = out[x]
  BY DEF Typed
<1> DEFINE new == out'
<1>3. SumOver(new, Requests) = SumOver(out, Requests) - out[r] + new[r]
  <2>1. new[r] \in Nat /\ \A x \in Requests \ {r} : new[x] = out[x]
    BY <1>2
  <2> HIDE DEF new
  <2> QED
    BY <1>1, <2>1, SumChanged
<1>4. SumOver(out, Requests) \in Nat
  BY <1>1, SumType
<1> QED
  BY <1>2, <1>3, <1>4 DEF OutputsOwed

\* What fits the budgets still does when fewer requests are counted.
LEMMA CappedKept ==
  ASSUME Typed, Typed', excess' >= excess, Capped, Counted' \subseteq Counted
  PROVE  Capped'
<1>1. excess \in Nat /\ excess' \in Nat /\ Overrun \in Nat /\ LimitOf \in [Requests -> Nat]
  BY OverrunType, CountsAssumption DEF Typed
<1>2. ASSUME NEW T \in SUBSET Counted', T # {}
      PROVE  \E r \in T : SumOver(Prompt, T) <= LimitOf[r] + Overrun + excess'
  <2>1. T \in SUBSET Counted
    BY <1>2
  <2>2. PICK r \in T : SumOver(Prompt, T) <= LimitOf[r] + Overrun + excess
    BY <1>2, <2>1 DEF Capped
  <2>3. IsFiniteSet(T) /\ \A x \in T : Prompt[x] \in Nat
    BY <2>1, RequestsAssumption, CountsAssumption, FS_Subset DEF Counted, Owing, Adding
  <2>4. SumOver(Prompt, T) \in Nat
    BY <2>3, SumType
  <2>5. LimitOf[r] \in Nat
    BY <1>1, <2>1, <2>2 DEF Counted, Owing, Adding
  <2> QED
    BY <1>1, <2>2, <2>4, <2>5
<1> QED
  BY <1>2 DEF Capped

\* A request whose prompt fits by the counter it has read fits with all that is
\* counted, up to what the other proxies are adding.
LEMMA CappedGrows ==
  ASSUME TypeOK, Holding, Covered, Capped, NEW r \in Requests, Free(r), r \notin Counted,
         usage + Prompt[r] <= LimitOf[r], Counted' \subseteq Counted \cup {r},
         Owing \cap Adding = {}, excess' = excess
  PROVE  Capped'
<1>1. /\ IsFiniteSet(Owing) /\ InputsOwed \in Nat /\ OutputsOwed \in Nat
      /\ \A x \in Requests : Prompt[x] \in Nat
  BY TypedOK, SumsType
<1>2. /\ IsFiniteSet(Adding) /\ SumOver(Prompt, Adding) \in Nat
      /\ SumOver(Prompt, Adding) <= Overrun /\ Overrun \in Nat
  BY AddingBound
<1>3. \A x \in Counted : Prompt[x] \in Nat
  BY <1>1 DEF Counted, Owing, Adding
<1>4. IsFiniteSet(Counted) /\ SumOver(Prompt, Counted) = InputsOwed + SumOver(Prompt, Adding)
  BY <1>1, <1>2, <1>3, FS_Union, SumDisjoint DEF Counted, InputsOwed
<1>5. /\ IsFiniteSet(Counted \cup {r})
      /\ SumOver(Prompt, Counted \cup {r}) = SumOver(Prompt, Counted) + Prompt[r]
  BY <1>1, <1>3, <1>4, FS_AddElement, SumWith
<1>6. usage \in Int /\ excess \in Nat /\ LimitOf[r] \in Nat /\ usage + excess >= InputsOwed
  BY <1>1, CountsAssumption DEF TypeOK, Covered
<1>7. SumOver(Prompt, Counted \cup {r}) <= LimitOf[r] + Overrun + excess
  BY <1>1, <1>2, <1>4, <1>5, <1>6
<1>8. ASSUME NEW T \in SUBSET (Counted \cup {r}), T # {}
      PROVE  \E x \in T : SumOver(Prompt, T) <= LimitOf[x] + Overrun + excess
  <2>1. CASE r \in T
    <3>1. \A x \in Counted \cup {r} : Prompt[x] \in Nat
      BY <1>1, <1>3
    <3>2. SumOver(Prompt, T) <= SumOver(Prompt, Counted \cup {r})
      BY <1>5, <3>1, SumSubset
    <3>3. SumOver(Prompt, T) \in Nat
      BY <1>5, <3>1, FS_Subset, SumType
    <3>4. SumOver(Prompt, Counted \cup {r}) \in Nat
      BY <1>5, <3>1, SumType
    <3>5. SumOver(Prompt, T) <= LimitOf[r] + Overrun + excess
      BY <1>2, <1>6, <1>7, <3>2, <3>3, <3>4
    <3> QED
      BY <2>1, <3>5
  <2>2. CASE r \notin T
    <3>1. T \in SUBSET Counted
      BY <2>2
    <3> QED
      BY <1>8, <3>1 DEF Capped
  <2> QED
    BY <2>1, <2>2
<1> QED
  BY <1>8 DEF Capped

----------------------------------------------------------------------------
(* The steps.                                                              *)

\* The steps of one request.
RequestStep(r) ==
  Step(r) \/ ReserveFails(r) \/ ReturnFails(r) \/ \E n \in Outputs : ChargeFails(r, n)

\* The three outcomes of the comparison.
LEMMA ReserveReadCases ==
  ASSUME NEW r \in Requests, ReserveRead(r)
  PROVE  /\ pc[r] = "new" /\ LimitOf[r] > 0 /\ Free(r)
         /\ UNCHANGED <<usage, reserved, committed, out, excess, faults>>
         /\ \/ /\ pc' = [pc EXCEPT ![r] = "refused"] /\ mutex' = mutex
               /\ ~(usage + Prompt[r] <= LimitOf[r])
            \/ /\ pc' = [pc EXCEPT ![r] = "send"] /\ mutex' = mutex
               /\ usage + Prompt[r] <= LimitOf[r] /\ Prompt[r] = 0
            \/ /\ pc' = [pc EXCEPT ![r] = "add"] /\ mutex' = [mutex EXCEPT ![ProxyOf[r]] = r]
               /\ usage + Prompt[r] <= LimitOf[r] /\ Prompt[r] > 0
<1> DEFINE fits == usage + Prompt[r] <= LimitOf[r]
<1>1. /\ pc[r] = "new" /\ LimitOf[r] > 0 /\ Free(r)
      /\ UNCHANGED <<usage, reserved, committed, out, excess, faults>>
      /\ pc' = [pc EXCEPT ![r] =
           IF ~fits THEN "refused" ELSE IF Prompt[r] = 0 THEN "send" ELSE "add"]
      /\ mutex' = IF fits /\ Prompt[r] > 0 THEN [mutex EXCEPT ![ProxyOf[r]] = r] ELSE mutex
  BY DEF ReserveRead, Goto
<1>2. Prompt[r] \in Nat
  BY CountsAssumption
<1> HIDE DEF fits
<1>3. CASE ~fits
  BY <1>1, <1>3 DEF fits
<1>4. CASE fits /\ Prompt[r] = 0
  BY <1>1, <1>4 DEF fits
<1>5. CASE fits /\ Prompt[r] > 0
  <2>1. Prompt[r] # 0
    BY <1>2, <1>5
  <2> QED
    BY <1>1, <1>5, <2>1 DEF fits
<1> QED
  BY <1>2, <1>3, <1>4, <1>5

\* What the invariant says of one request.
Local(x) == <<pc[x], reserved[x], committed[x], out[x]>>

\* The types, but for the sign of the counter, need no other invariant.
LEMMA TypedStep ==
  ASSUME TypeOK, NEW r \in Requests, RequestStep(r)
  PROVE  Typed' /\ \A x \in Requests \ {r} : UNCHANGED Local(x)
<1> USE DEF Typed, Places, Goto, Local, Fault
<1>1. Typed /\ Prompt[r] \in Nat /\ ProxyOf[r] \in Proxies /\ MaxFaults \in Nat /\ Outputs \subseteq Nat
  BY TypedOK, CountsAssumption, ProxiesAssumption
<1>2. CASE Unmetered(r)
  BY <1>1, <1>2 DEF Unmetered
<1>3. CASE ReserveRead(r)
  <2>1. PICK place \in {"refused", "send", "add"} : pc' = [pc EXCEPT ![r] = place]
    BY <1>3 DEF ReserveRead
  <2>2. mutex' \in {mutex, [mutex EXCEPT ![ProxyOf[r]] = r]}
    BY <1>3 DEF ReserveRead
  <2> QED
    BY <1>1, <1>3, <2>1, <2>2 DEF ReserveRead
<1>4. CASE ReserveAdd(r)
  <2>1. PICK k \in 1..MaxSends : Add(Prompt[r], k) /\ Returns(k)
    BY <1>4 DEF ReserveAdd
  <2>2. usage' \in Int /\ excess' \in Nat /\ faults' \in 0..MaxFaults
    BY <1>1, <2>1, CallAdds DEF Returns
  <2> QED
    BY <1>1, <1>4, <2>2 DEF ReserveAdd
<1>5. CASE Answer(r) \/ GiveUp(r)
  BY <1>1, <1>5 DEF Answer, GiveUp
<1>6. CASE Return(r) \/ ReturnFails(r)
  <2>1. /\ reserved' \in {reserved, [reserved EXCEPT ![r] = 0]}
        /\ pc' = [pc EXCEPT ![r] = "done"] /\ UNCHANGED <<mutex, committed, out>>
    BY <1>6 DEF Return, ReturnFails
  <2>2. CASE UNCHANGED <<usage, excess, faults>>
    BY <1>1, <2>1, <2>2
  <2>3. CASE \E k \in 0..MaxSends : Subtract(reserved[r], k) /\ (Returns(k) \/ Fault)
    <3>1. PICK k \in 0..MaxSends : Subtract(reserved[r], k) /\ (Returns(k) \/ Fault)
      BY <2>3
    <3>2. reserved[r] \in Nat
      BY <1>1
    <3>3. usage' \in Int /\ excess' \in Nat
      BY <1>1, <3>1, <3>2, CallSubtracts
    <3>4. faults' \in 0..MaxFaults
      BY <1>1, <3>1 DEF Returns
    <3> QED
      BY <1>1, <2>1, <3>3, <3>4
  <2> QED
    BY <1>6, <2>2, <2>3 DEF Return, ReturnFails
<1>7. ASSUME NEW n \in Outputs, ChargeOutput(r, n) \/ ChargeFails(r, n)
      PROVE  Typed' /\ \A x \in Requests \ {r} : UNCHANGED Local(x)
  <2>1. PICK k \in 0..MaxSends : Add(n, k) /\ (Returns(k) \/ Fault)
    BY <1>7 DEF ChargeOutput, ChargeFails
  <2>2. usage' \in Int /\ excess' \in Nat
    BY <1>1, <2>1, CallAdds
  <2>3. faults' \in 0..MaxFaults
    BY <1>1, <2>1 DEF Returns
  <2>4. /\ out' \in {out, [out EXCEPT ![r] = n]} /\ n \in Nat
        /\ pc' = [pc EXCEPT ![r] = "leaving"] /\ UNCHANGED <<mutex, reserved, committed>>
    BY <1>1, <1>7 DEF ChargeOutput, ChargeFails
  <2> QED
    BY <1>1, <2>2, <2>3, <2>4
<1>8. CASE ReserveFails(r)
  <2>1. /\ mutex' \in {mutex, [mutex EXCEPT ![ProxyOf[r]] = Nobody]}
        /\ pc' = [pc EXCEPT ![r] = "refused"] /\ UNCHANGED <<reserved, committed, out>>
        /\ faults' \in 0..MaxFaults
    BY <1>1, <1>8 DEF ReserveFails
  <2>2. usage' \in Int /\ excess' \in Nat
    BY <1>1, <1>8, CallAdds DEF ReserveFails
  <2> QED
    BY <1>1, <2>1, <2>2
<1> QED
  BY <1>2, <1>3, <1>4, <1>5, <1>6, <1>7, <1>8 DEF RequestStep, Step

\* The other requests keep their accounts, and owe and add what they did.
LEMMA OthersStay ==
  ASSUME NEW r \in Requests, \A x \in Requests \ {r} : UNCHANGED Local(x),
         \A x \in Requests : Account(x)
  PROVE  /\ \A x \in Requests \ {r} : Account(x)'
         /\ Owing' = (Owing \ {r}) \cup {x \in {r} : OwesPrompt(x)'}
         /\ Adding' = (Adding \ {r}) \cup {x \in {r} : pc'[x] = "add"}
<1>1. \A x \in Requests \ {r} : Account(x)'
  BY DEF Account, Local
<1>2. \A x \in Requests \ {r} : OwesPrompt(x)' <=> OwesPrompt(x)
  BY DEF OwesPrompt, Local
<1>3. \A x \in Requests \ {r} : pc'[x] = pc[x]
  BY DEF Local
<1> QED
  BY <1>1, <1>2, <1>3 DEF Owing, Adding

\* The mutex of a proxy passes between its own requests only.
LEMMA HoldingStep ==
  ASSUME TypeOK, Holding, NEW r \in Requests, RequestStep(r)
  PROVE  Holding'
<1> USE DEF Goto
<1>1. /\ mutex \in [Proxies -> Requests \cup {Nobody}] /\ pc \in [Requests -> Places]
      /\ ProxyOf \in [Requests -> Proxies] /\ Nobody \notin Requests /\ Prompt[r] \in Nat
      /\ \A x \in Requests : pc[x] = "add" => mutex[ProxyOf[x]] = x /\ LimitOf[x] > 0
  BY TypedOK, ProxiesAssumption, RequestsAssumption, CountsAssumption
  DEF Typed, Holding, Adding
<1>2. CASE UNCHANGED mutex /\ \E place \in Places \ {"add"} : pc' = [pc EXCEPT ![r] = place]
  BY <1>1, <1>2 DEF Holding, Adding
<1>3. CASE ReserveRead(r)
  <2>1. CASE /\ mutex' = [mutex EXCEPT ![ProxyOf[r]] = r] /\ Free(r) /\ LimitOf[r] > 0
             /\ pc' = [pc EXCEPT ![r] = "add"]
    BY <1>1, <2>1 DEF Holding, Adding, Free
  <2> QED
    BY <1>2, <1>3, <2>1, ReserveReadCases DEF Places
<1>4. CASE /\ pc[r] = "add" /\ mutex' = [mutex EXCEPT ![ProxyOf[r]] = Nobody]
           /\ \E place \in {"send", "refused"} : pc' = [pc EXCEPT ![r] = place]
  BY <1>1, <1>4 DEF Holding, Adding
<1>5. CASE Unmetered(r) \/ Answer(r) \/ GiveUp(r) \/ Return(r) \/ ReturnFails(r)
  BY <1>2, <1>5 DEF Unmetered, Answer, GiveUp, Return, ReturnFails, Places
<1>6. CASE ReserveAdd(r)
  BY <1>4, <1>6 DEF ReserveAdd
<1>7. CASE ReserveFails(r)
  BY <1>2, <1>4, <1>7 DEF ReserveFails, Places
<1>8. ASSUME NEW n \in Outputs, ChargeOutput(r, n) \/ ChargeFails(r, n) PROVE Holding'
  BY <1>2, <1>8 DEF ChargeOutput, ChargeFails, Places
<1> QED
  BY <1>3, <1>5, <1>6, <1>7, <1>8 DEF RequestStep, Step

\* Each step changes the counter by what it changes of the sums, or is a fault
\* and leaves the counter, with what repeated releases took, higher.
Balanced ==
  /\ excess' >= excess
  /\ (usage' + excess') - (usage + excess)
       >= (InputsOwed' - InputsOwed) + (OutputsOwed' - OutputsOwed)
  /\ faults' = 0 =>
       faults = 0 /\ usage' - usage = (InputsOwed' - InputsOwed) + (OutputsOwed' - OutputsOwed)

LEMMA BalancedCovers ==
  ASSUME Typed, Typed', Covered, Balanced
  PROVE  Covered' /\ usage' + excess' >= 0
<1> DEFINE a == InputsOwed
           b == OutputsOwed
           c == InputsOwed'
           d == OutputsOwed'
           u == usage
           v == usage'
           e == excess
           f == excess'
<1>1. /\ a \in Nat /\ b \in Nat /\ c \in Nat /\ d \in Nat /\ u \in Int /\ v \in Int
      /\ e \in Nat /\ f \in Nat
  BY SumsType, SumsTypeAfter DEF Typed
<1>2. u + e >= a + b /\ (v + f) - (u + e) >= (c - a) + (d - b)
  BY DEF Covered, Balanced
<1>3. ASSUME faults' = 0 PROVE u = a + b /\ v - u = (c - a) + (d - b)
  BY <1>3 DEF Covered, Balanced
<1>4. Covered' <=> v + f >= c + d /\ (faults' = 0 => v = c + d)
  BY DEF Covered
<1> HIDE DEF a, b, c, d, u, v, e, f
<1>5. v + f >= c + d /\ v + f >= 0
  BY <1>1, <1>2
<1>6. ASSUME faults' = 0 PROVE v = c + d
  BY <1>1, <1>3, <1>6
<1> QED
  BY <1>4, <1>5, <1>6 DEF v, f

\* A step of a request that has no part in the sums, or keeps its part.
LEMMA SameSums ==
  ASSUME Typed, Owing' = Owing, out' = out, usage' = usage, excess' = excess,
         faults' = faults
  PROVE  Balanced
<1>1. InputsOwed' = InputsOwed /\ OutputsOwed' = OutputsOwed
  BY DEF InputsOwed, OutputsOwed
<1>2. /\ InputsOwed \in Nat /\ OutputsOwed \in Nat /\ usage \in Int /\ excess \in Nat
  BY SumsType DEF Typed
<1> QED
  BY <1>1, <1>2 DEF Balanced

\* A request that owed a prompt of no tokens owes it no more.
LEMMA OwedNothing ==
  ASSUME Typed, NEW r \in Owing, Prompt[r] = 0, Owing' = Owing \ {r},
         out' = out, usage' = usage, excess' = excess,
         faults' \in {faults, faults + 1}, faults \in Nat
  PROVE  Balanced
<1>1. IsFiniteSet(Owing) /\ \A x \in Owing : Prompt[x] \in Nat
  BY SumsType DEF Owing
<1>2. SumOver(Prompt, Owing) = SumOver(Prompt, Owing \ {r}) + Prompt[r]
  BY <1>1, SumWithout
<1>3. SumOver(Prompt, Owing \ {r}) \in Nat
  BY <1>1, FS_RemoveElement, SumType
<1>4. SumOver(Prompt, Owing) = SumOver(Prompt, Owing \ {r})
  BY <1>2, <1>3
<1>5. InputsOwed' = InputsOwed /\ OutputsOwed' = OutputsOwed
  BY <1>4 DEF InputsOwed, OutputsOwed
<1>6. InputsOwed \in Nat /\ OutputsOwed \in Nat /\ usage \in Int /\ excess \in Nat
  BY SumsType DEF Typed
<1> QED
  BY <1>5, <1>6 DEF Balanced

\* A fault that leaves the sums alone never lowers the counter.
LEMMA FaultSums ==
  ASSUME Typed, Owing' = Owing, out' = out, usage' \in Int, usage' >= usage,
         excess' = excess, faults' = faults + 1
  PROVE  Balanced
<1>1. InputsOwed' = InputsOwed /\ OutputsOwed' = OutputsOwed
  BY DEF InputsOwed, OutputsOwed
<1>2. /\ InputsOwed \in Nat /\ OutputsOwed \in Nat /\ usage \in Int /\ faults \in Nat
      /\ excess \in Nat
  BY SumsType, CountsAssumption DEF Typed
<1>3. (usage' + excess') - (usage + excess) >= 0 /\ excess' >= excess /\ faults' # 0
  <2>1. \A u, v \in Int, e \in Nat : v >= u => (v + e) - (u + e) >= 0 /\ e >= e
    OBVIOUS
  <2>2. \A k \in Nat : k + 1 # 0
    OBVIOUS
  <2> QED
    BY <1>2, <2>1, <2>2
<1>4. (InputsOwed' - InputsOwed) + (OutputsOwed' - OutputsOwed) = 0
  BY <1>1, <1>2
<1> QED
  BY <1>3, <1>4 DEF Balanced

\* Every step of a request keeps its account and the balance, and counts no
\* other request.
LEMMA AccountStep ==
  ASSUME IInv, NEW r \in Requests, RequestStep(r)
  PROVE  /\ Account(r)' /\ Balanced
         /\ Counted' \subseteq Counted \/ (ReserveRead(r) /\ Counted' \subseteq Counted \cup {r})
<1>1. /\ Typed /\ Typed' /\ usage \in Int /\ Prompt[r] \in Nat /\ LimitOf[r] \in Nat
      /\ \A x \in Requests \ {r} : UNCHANGED Local(x)
  <2>1. Typed /\ usage \in Int
    BY TypedOK DEF IInv, Typed
  <2> QED
    BY <2>1, TypedStep, CountsAssumption DEF IInv
<1>2. Account(r)
  BY DEF IInv
<1>3. /\ Owing' = (Owing \ {r}) \cup {x \in {r} : OwesPrompt(x)'}
      /\ Adding' = (Adding \ {r}) \cup {x \in {r} : pc'[x] = "add"}
  BY <1>1, OthersStay DEF IInv
<1>4. (r \in Owing <=> OwesPrompt(r)) /\ (r \in Adding <=> pc[r] = "add")
  BY DEF Owing, Adding
<1>5. usage' \in Int /\ faults \in Nat /\ excess \in Nat /\ excess' \in Nat
  BY <1>1 DEF Typed
<1>6. ASSUME NEW place, pc' = [pc EXCEPT ![r] = place] PROVE pc'[r] = place
  BY <1>1, <1>6 DEF Typed
<1>15. /\ InputsOwed \in Nat /\ OutputsOwed \in Nat
       /\ InputsOwed' \in Nat /\ OutputsOwed' \in Nat
  BY <1>1, SumsType, SumsTypeAfter
<1> USE DEF Goto
<1>7. CASE Unmetered(r)
  <2>1. /\ pc[r] = "new" /\ pc'[r] = "send" /\ LimitOf[r] = 0
        /\ UNCHANGED <<usage, reserved, committed, out, excess, faults>>
    BY <1>6, <1>7 DEF Unmetered
  <2>2. Owing' = Owing /\ Adding' = Adding
    BY <1>3, <1>4, <2>1 DEF OwesPrompt
  <2>3. Account(r)'
    BY <1>2, <2>1 DEF Account
  <2>4. Balanced
    <3>1. usage' = usage /\ out' = out /\ excess' = excess /\ faults' = faults
      BY <2>1
    <3> QED
      BY <1>1, <2>2, <3>1, SameSums
  <2> QED
    BY <2>2, <2>3, <2>4 DEF Counted
<1>8. CASE ReserveRead(r)
  <2>1. /\ pc[r] = "new" /\ LimitOf[r] > 0 /\ UNCHANGED <<usage, reserved, committed, out, excess, faults>>
        /\ pc'[r] = "refused" \/ (pc'[r] = "send" /\ Prompt[r] = 0) \/ pc'[r] = "add"
    <3>1. /\ pc[r] = "new" /\ LimitOf[r] > 0
          /\ UNCHANGED <<usage, reserved, committed, out, excess, faults>>
      BY <1>8, ReserveReadCases
    <3>2. \E place \in {"refused", "send", "add"} :
            pc' = [pc EXCEPT ![r] = place] /\ (place = "send" => Prompt[r] = 0)
      BY <1>8, ReserveReadCases
    <3>3. \E place \in {"refused", "send", "add"} :
            pc'[r] = place /\ (place = "send" => Prompt[r] = 0)
      BY <1>6, <3>2
    <3>4. pc'[r] = "refused" \/ (pc'[r] = "send" /\ Prompt[r] = 0) \/ pc'[r] = "add"
      BY <3>3
    <3> QED
      BY <3>1, <3>4
  <2>2. ~committed[r] /\ reserved[r] = 0 /\ out[r] = 0 /\ ~OwesPrompt(r)
    BY <1>1, <1>2, <2>1 DEF Account, Typed, OwesPrompt
  <2>3. CASE pc'[r] = "send" /\ Prompt[r] = 0
    <3>1. Owing' = Owing \cup {r} /\ Counted' \subseteq Counted \cup {r}
      BY <1>3, <1>4, <2>1, <2>2, <2>3 DEF OwesPrompt, Counted
    <3>2. InputsOwed' = InputsOwed + Prompt[r] /\ OutputsOwed' = OutputsOwed
      BY <1>1, <1>4, <2>1, <2>2, <3>1, OwingJoins DEF OutputsOwed
    <3>3. Balanced
      BY <1>1, <1>5, <2>1, <2>3, <3>2, <1>15 DEF Balanced
    <3>4. Account(r)'
      BY <1>1, <2>1, <2>2, <2>3 DEF Account
    <3> QED
      BY <1>8, <3>1, <3>3, <3>4
  <2>4. CASE pc'[r] \in {"refused", "add"}
    <3>1. Owing' = Owing /\ Counted' \subseteq Counted \cup {r}
      BY <1>3, <1>4, <2>1, <2>2, <2>4 DEF OwesPrompt, Counted
    <3>2. Account(r)'
      BY <2>1, <2>2, <2>4 DEF Account
    <3>3. Balanced
      <4>1. usage' = usage /\ out' = out /\ excess' = excess /\ faults' = faults
        BY <2>1
      <4> QED
        BY <1>1, <3>1, <4>1, SameSums
    <3> QED
      BY <1>8, <3>1, <3>2, <3>3
  <2> QED
    BY <2>1, <2>3, <2>4
<1>9. CASE ReserveAdd(r) \/ (pc[r] = "add" /\ ReserveFails(r))
  <2>1. pc[r] = "add" /\ r \in Adding /\ LimitOf[r] > 0 /\ ~OwesPrompt(r)
    BY <1>2, <1>4, <1>9 DEF ReserveAdd, IInv, Holding, Account, OwesPrompt
  <2>2. ~committed[r] /\ reserved[r] = 0 /\ out[r] = 0
    BY <1>2, <2>1 DEF Account
  <2>3. CASE ReserveAdd(r)
    <3>1. /\ pc'[r] = "send" /\ reserved'[r] = Prompt[r] /\ UNCHANGED <<committed, out>>
      BY <1>1, <1>6, <2>3 DEF ReserveAdd, Typed
    <3>5. /\ usage' >= usage + Prompt[r] /\ excess' = excess
          /\ faults' = 0 => faults = 0 /\ usage' = usage + Prompt[r]
      <4>1. PICK k \in 1..MaxSends : Add(Prompt[r], k) /\ Returns(k)
        BY <2>3 DEF ReserveAdd
      <4>2. k \in 0..MaxSends /\ k # 0 /\ (faults' = 0 => faults = 0 /\ k = 1)
        BY <1>5, <4>1, CountsAssumption DEF Returns, Fault
      <4> QED
        BY <1>1, <4>1, <4>2, CallAdds
    <3>2. Owing' = Owing \cup {r} /\ Counted' \subseteq Counted
      BY <1>3, <1>4, <2>1, <3>1 DEF OwesPrompt, Counted
    <3>3. InputsOwed' = InputsOwed + Prompt[r] /\ OutputsOwed' = OutputsOwed
      BY <1>1, <1>4, <2>1, <3>1, <3>2, OwingJoins DEF OutputsOwed
    <3>4. Balanced
      BY <1>1, <1>5, <3>3, <3>5, <1>15 DEF Balanced
    <3> QED
      BY <2>1, <2>2, <3>1, <3>2, <3>4 DEF Account
  <2>4. CASE ReserveFails(r)
    <3>1. /\ pc'[r] = "refused" /\ usage' >= usage /\ excess' = excess
          /\ UNCHANGED <<reserved, committed, out>> /\ faults' = faults + 1
      BY <1>1, <1>6, <2>1, <2>4, CallAdds DEF ReserveFails, Fault
    <3>2. Owing' = Owing /\ Counted' \subseteq Counted
      BY <1>3, <1>4, <2>1, <2>2, <3>1 DEF OwesPrompt, Counted
    <3>4. Balanced
      <4>1. out' = out /\ faults' = faults + 1 /\ usage' >= usage /\ excess' = excess
        BY <3>1
      <4> QED
        BY <1>1, <1>5, <3>2, <4>1, FaultSums
    <3> QED
      BY <2>1, <2>2, <3>1, <3>2, <3>4 DEF Account
  <2> QED
    BY <1>9, <2>3, <2>4
<1>10. CASE pc[r] = "new" /\ ReserveFails(r)
  <2>1. /\ pc'[r] = "refused" /\ UNCHANGED <<usage, reserved, committed, out, excess>>
        /\ faults' = faults + 1
    BY <1>6, <1>10 DEF ReserveFails, Fault
  <2>2. Owing' = Owing /\ Adding' = Adding
    BY <1>2, <1>3, <1>4, <1>10, <2>1 DEF OwesPrompt, Account
  <2>3. Account(r)'
    BY <1>2, <1>10, <2>1 DEF Account
  <2>5. Balanced
    <3>1. out' = out /\ faults' = faults + 1 /\ usage' >= usage /\ excess' = excess
      BY <1>1, <2>1
    <3> QED
      BY <1>1, <1>5, <2>2, <3>1, FaultSums
  <2> QED
    BY <2>2, <2>3, <2>5 DEF Counted
<1>11. CASE Answer(r) \/ GiveUp(r)
  <2>1. /\ pc[r] = "send" /\ UNCHANGED <<usage, reserved, out, excess, faults>>
        /\ \/ pc'[r] = "answered" /\ committed'[r] = TRUE
           \/ pc'[r] = "leaving" /\ committed'[r] = committed[r]
    BY <1>1, <1>6, <1>11 DEF Answer, GiveUp, Typed
  <2>2. Owing' = Owing /\ Adding' = Adding
    BY <1>2, <1>3, <1>4, <2>1 DEF OwesPrompt, Account
  <2>3. Account(r)'
    BY <1>2, <2>1 DEF Account
  <2>4. Balanced
    <3>1. usage' = usage /\ out' = out /\ excess' = excess /\ faults' = faults
      BY <2>1
    <3> QED
      BY <1>1, <2>2, <3>1, SameSums
  <2> QED
    BY <2>2, <2>3, <2>4 DEF Counted
<1>12. ASSUME NEW n \in Outputs, ChargeOutput(r, n) \/ ChargeFails(r, n)
       PROVE  Account(r)' /\ Balanced /\ Counted' \subseteq Counted
  <2>1. n \in Nat
    BY CountsAssumption
  <2>2. pc[r] = "answered" /\ pc'[r] = "leaving" /\ UNCHANGED <<reserved, committed>>
    BY <1>6, <1>12 DEF ChargeOutput, ChargeFails
  <2>3. Owing' = Owing /\ Adding' = Adding /\ out[r] = 0
    BY <1>2, <1>3, <1>4, <2>2 DEF OwesPrompt, Account
  <2>4. Account(r)'
    BY <1>2, <2>2 DEF Account
  <2>5. CASE ChargeOutput(r, n)
    <3>1. out' = [out EXCEPT ![r] = n]
      BY <2>5 DEF ChargeOutput
    <3>5. /\ usage' >= usage + n /\ excess' = excess
          /\ faults' = 0 => faults = 0 /\ usage' = usage + n
      <4>1. PICK k \in 1..MaxSends : Add(n, k) /\ Returns(k)
        BY <2>5 DEF ChargeOutput
      <4>2. k \in 0..MaxSends /\ k # 0 /\ (faults' = 0 => faults = 0 /\ k = 1)
        BY <1>5, <4>1, CountsAssumption DEF Returns, Fault
      <4> QED
        BY <1>1, <2>1, <4>1, <4>2, CallAdds
    <3>2. OutputsOwed' = OutputsOwed + n
      BY <1>1, <2>1, <2>3, <3>1, OutputJoins
    <3>3. InputsOwed' = InputsOwed
      BY <2>3 DEF InputsOwed
    <3>4. Balanced
      BY <1>1, <1>5, <2>1, <3>2, <3>3, <3>5, <1>15 DEF Balanced
    <3> QED
      BY <2>3, <2>4, <3>4 DEF Counted
  <2>6. CASE ChargeFails(r, n)
    <3>1. usage' >= usage /\ excess' = excess /\ out' = out /\ faults' = faults + 1
      BY <1>1, <2>1, <2>6, CallAdds DEF ChargeFails, Fault
    <3>2. Balanced
      BY <1>1, <1>5, <2>3, <3>1, FaultSums
    <3> QED
      BY <2>3, <2>4, <3>2 DEF Counted
  <2> QED
    BY <1>12, <2>5, <2>6
<1>13. CASE Return(r) \/ ReturnFails(r)
  <2>1. pc[r] = "leaving" /\ pc'[r] = "done" /\ UNCHANGED <<committed, out>>
    BY <1>6, <1>13 DEF Return, ReturnFails
  <2>2. Adding' = Adding \ {r} /\ r \notin Adding
    BY <1>3, <1>4, <2>1
  <2>3. CASE reserved[r] > 0 /\ ~committed[r]
    <3>1. reserved' = [reserved EXCEPT ![r] = 0]
      BY <1>13, <2>3 DEF Return, ReturnFails
    <3>7. /\ usage' + excess' >= usage + excess - reserved[r] /\ excess' >= excess
          /\ faults' = 0 => faults = 0 /\ usage' = usage - reserved[r]
      <4>1. PICK k \in 0..MaxSends :
              Subtract(reserved[r], k) /\ (Returns(k) \/ Fault)
        BY <1>13, <2>3 DEF Return, ReturnFails
      <4>2. reserved[r] \in Nat /\ (faults' = 0 => faults = 0 /\ k = 1)
        BY <1>1, <1>5, <4>1, CountsAssumption DEF Returns, Fault, Typed
      <4> QED
        BY <1>1, <4>1, <4>2, CallSubtracts
    <3>2. OwesPrompt(r) /\ reserved[r] = Prompt[r] /\ reserved'[r] = 0
      <4>1. LimitOf[r] # 0
        BY <1>2, <2>3 DEF Account
      <4>2. LimitOf[r] > 0
        BY <1>1, <4>1
      <4> QED
        BY <1>1, <1>2, <2>1, <3>1, <4>2 DEF Account, OwesPrompt, Typed
    <3>3. Owing' = Owing \ {r} /\ r \in Owing
      BY <1>3, <1>4, <2>1, <2>3, <3>2 DEF OwesPrompt
    <3>4. InputsOwed = InputsOwed' + Prompt[r] /\ OutputsOwed' = OutputsOwed
      BY <1>1, <2>1, <3>3, OwingLeaves DEF OutputsOwed
    <3>5. Balanced
      BY <1>1, <1>5, <3>2, <3>4, <3>7, <1>15 DEF Balanced
    <3>6. Account(r)'
      BY <1>2, <2>1, <3>2 DEF Account
    <3> QED
      BY <2>2, <3>3, <3>5, <3>6 DEF Counted
  <2>4. CASE ~(reserved[r] > 0 /\ ~committed[r])
    <3>1. UNCHANGED <<usage, reserved, excess, faults>>
      BY <1>13, <2>4 DEF Return, ReturnFails
    <3>2. Account(r)'
      BY <1>2, <2>1, <3>1 DEF Account
    <3>3. CASE Owing' = Owing
      <4>1. Balanced
        <5>1. usage' = usage /\ out' = out /\ excess' = excess /\ faults' = faults
          BY <2>1, <3>1
        <5> QED
          BY <1>1, <3>3, <5>1, SameSums
      <4> QED
        BY <2>2, <3>2, <3>3, <4>1 DEF Counted
    <3>4. CASE Owing' # Owing
      <4>1. r \in Owing /\ Owing' = Owing \ {r} /\ ~committed[r] /\ OwesPrompt(r)
        BY <1>3, <1>4, <2>1, <3>4 DEF OwesPrompt
      <4>2. Prompt[r] = 0
        <5>1. reserved[r] = Prompt[r]
          BY <1>2, <2>1, <4>1 DEF Account, OwesPrompt
        <5> QED
          BY <1>1, <2>4, <4>1, <5>1
      <4>4. Balanced
        BY <1>1, <1>5, <2>1, <3>1, <4>1, <4>2, OwedNothing
      <4> QED
        BY <2>2, <3>2, <4>1, <4>4 DEF Counted
    <3> QED
      BY <3>3, <3>4
  <2> QED
    BY <2>3, <2>4
<1>14. CASE ReserveFails(r)
  BY <1>9, <1>10, <1>14 DEF ReserveFails
<1>16. CASE \E n \in Outputs : ChargeOutput(r, n) \/ ChargeFails(r, n)
  BY <1>12, <1>16
<1>17. CASE ReserveAdd(r)
  BY <1>9, <1>17
<1> QED
  BY <1>7, <1>8, <1>11, <1>13, <1>14, <1>16, <1>17 DEF RequestStep, Step

\* A step of a request keeps the whole invariant.
LEMMA RequestKeeps ==
  ASSUME IInv, NEW r \in Requests, RequestStep(r)
  PROVE  IInv'
<1>1. /\ Typed /\ Typed' /\ \A x \in Requests \ {r} : UNCHANGED Local(x)
      /\ TypeOK /\ Holding /\ Covered /\ Capped /\ \A x \in Requests : Account(x)
  BY TypedOK, TypedStep DEF IInv
<1>2. /\ Account(r)' /\ Balanced
      /\ Counted' \subseteq Counted \/ (ReserveRead(r) /\ Counted' \subseteq Counted \cup {r})
  BY AccountStep
<1>3. /\ \A x \in Requests \ {r} : Account(x)'
      /\ Owing' = (Owing \ {r}) \cup {x \in {r} : OwesPrompt(x)'}
      /\ Adding' = (Adding \ {r}) \cup {x \in {r} : pc'[x] = "add"}
  BY <1>1, OthersStay
<1>4. Holding'
  BY <1>1, HoldingStep
<1>5. Covered' /\ usage' + excess' >= 0
  BY <1>1, <1>2, BalancedCovers
<1>6. TypeOK' /\ excess' >= excess
  BY <1>1, <1>2, <1>5 DEF TypeOK, Typed, Places, Balanced
<1>7. \A x \in Requests : Account(x)'
  BY <1>2, <1>3
<1>8. Capped'
  <2>1. CASE Counted' \subseteq Counted
    BY <1>1, <1>6, <2>1, CappedKept
  <2>2. CASE ReserveRead(r) /\ Counted' \subseteq Counted \cup {r}
    <3>1. pc[r] = "new" /\ Free(r) /\ UNCHANGED <<committed, excess>>
      BY <2>2, ReserveReadCases
    <3>2. ~committed[r] /\ ~OwesPrompt(r) /\ r \notin Counted
      BY <1>1, <3>1 DEF Account, OwesPrompt, Counted, Owing, Adding
    <3>3. Owing \cap Adding = {}
      BY <1>1 DEF Account, Owing, Adding, OwesPrompt
    <3>4. CASE usage + Prompt[r] <= LimitOf[r]
      BY <1>1, <2>2, <3>1, <3>2, <3>3, <3>4, CappedGrows
    <3>5. CASE pc' = [pc EXCEPT ![r] = "refused"]
      <4>1. pc'[r] = "refused" /\ committed' = committed
        BY <1>1, <3>1, <3>5 DEF Typed
      <4>2. ~OwesPrompt(r)'
        BY <3>2, <4>1 DEF OwesPrompt
      <4>3. Counted' \subseteq Counted
        BY <1>3, <4>1, <4>2 DEF Counted
      <4> QED
        BY <1>1, <1>6, <4>3, CappedKept
    <3> QED
      BY <2>2, <3>4, <3>5, ReserveReadCases
  <2> QED
    BY <1>2, <2>1, <2>2
<1> QED
  BY <1>4, <1>5, <1>6, <1>7, <1>8 DEF IInv

\* The death of a proxy frees its mutex; what its requests had reserved and nobody
\* will return only makes the counter higher than what is owed.
LEMMA CrashKeeps ==
  ASSUME IInv, NEW p \in Proxies, Crash(p)
  PROVE  IInv'
<1>1. /\ Typed /\ TypeOK /\ Holding /\ Covered /\ Capped /\ \A x \in Requests : Account(x)
      /\ ProxyOf \in [Requests -> Proxies]
  BY TypedOK, ProxiesAssumption DEF IInv
<1>2. /\ mutex' = [mutex EXCEPT ![p] = Nobody] /\ faults < MaxFaults /\ faults' = faults + 1
      /\ usage' = usage /\ reserved' = reserved /\ committed' = committed /\ out' = out
      /\ excess' = excess
      /\ pc' = [r \in Requests |->
           IF ProxyOf[r] = p /\ pc[r] \notin {"new", "refused", "done"} THEN "lost" ELSE pc[r]]
  BY DEF Crash, Fault
<1>3. \A x \in Requests :
        \/ pc'[x] = pc[x] /\ (ProxyOf[x] # p \/ pc[x] \in {"new", "refused", "done"})
        \/ pc'[x] = "lost"
  BY <1>2
<1>4. Typed'
  <2>1. faults' \in 0..MaxFaults
    BY <1>1, <1>2, CountsAssumption DEF Typed
  <2>2. mutex' \in [Proxies -> Requests \cup {Nobody}]
    BY <1>1, <1>2 DEF Typed
  <2>3. pc' \in [Requests -> Places]
    BY <1>1, <1>2 DEF Typed, Places
  <2> QED
    BY <1>1, <1>2, <2>1, <2>2, <2>3 DEF Typed
<1>5. Holding'
  BY <1>1, <1>2, <1>3 DEF Holding, Adding, Typed
<1>6. \A x \in Requests : Account(x)'
  BY <1>1, <1>2, <1>3 DEF Account
<1>7. Owing' \subseteq Owing /\ Adding' \subseteq Adding
  BY <1>2, <1>3 DEF Owing, Adding, OwesPrompt
<1>8. Balanced
  <2> DEFINE a == InputsOwed
             b == OutputsOwed
             c == InputsOwed'
             d == OutputsOwed'
  <2>1. c <= a /\ d = b
    BY <1>1, <1>2, <1>7, OwingShrinks DEF OutputsOwed
  <2>2. a \in Nat /\ b \in Nat /\ c \in Nat /\ d \in Nat
    BY <1>1, <1>4, SumsType, SumsTypeAfter
  <2> HIDE DEF a, b, c, d
  <2>3. 0 >= (c - a) + (d - b)
    BY <2>1, <2>2
  <2>4. (usage' + excess') - (usage + excess) = 0 /\ excess' >= excess /\ faults' # 0
    BY <1>1, <1>2, CountsAssumption DEF Typed
  <2> QED
    BY <2>3, <2>4 DEF Balanced, a, b, c, d
<1>9. Covered' /\ usage' + excess' >= 0
  BY <1>1, <1>4, <1>8, BalancedCovers
<1>10. TypeOK'
  BY <1>4, <1>9 DEF TypeOK, Typed, Places
<1>11. Capped'
  <2>1. excess' >= excess /\ Counted' \subseteq Counted
    BY <1>1, <1>2, <1>7 DEF Typed, Counted
  <2> QED
    BY <1>1, <1>4, <2>1, CappedKept
<1> QED
  BY <1>5, <1>6, <1>9, <1>10, <1>11 DEF IInv

\* Nothing is owed before the first request.
LEMMA InitIInv == Init => IInv
<1> SUFFICES ASSUME Init PROVE IInv
  OBVIOUS
<1>1. /\ usage = 0 /\ excess = 0 /\ faults = 0 /\ \A r \in Requests : pc[r] = "new" /\ reserved[r] = 0
      /\ \A r \in Requests : ~committed[r] /\ out[r] = 0
  BY DEF Init
<1>2. TypeOK
  BY CountsAssumption DEF Init, TypeOK
<1>3. Owing = {} /\ Adding = {}
  BY <1>1 DEF Owing, Adding, OwesPrompt
<1>4. InputsOwed = 0 /\ OutputsOwed = 0
  <2>1. InputsOwed = 0
    BY <1>3, SumEmpty DEF InputsOwed
  <2>2. OutputsOwed = 0
    BY <1>1, RequestsAssumption, SumZero DEF OutputsOwed
  <2> QED
    BY <2>1, <2>2
<1>5. Covered
  BY <1>1, <1>4 DEF Covered
<1>6. Capped
  BY <1>3 DEF Capped, Counted
<1>7. Holding
  BY <1>3 DEF Holding
<1>8. \A r \in Requests : Account(r)
  BY <1>1 DEF Account
<1> QED
  BY <1>2, <1>5, <1>6, <1>7, <1>8 DEF IInv

\* The invariant is inductive.
LEMMA StepIInv == IInv /\ [Next]_vars => IInv'
<1> SUFFICES ASSUME IInv, [Next]_vars PROVE IInv'
  OBVIOUS
<1>1. CASE UNCHANGED vars
  BY <1>1 DEF vars, IInv, TypeOK, Holding, Adding, Account, Covered, InputsOwed, OutputsOwed,
              Owing, OwesPrompt, Capped, Counted
<1>2. ASSUME NEW r \in Requests, RequestStep(r) PROVE IInv'
  BY <1>2, RequestKeeps
<1>3. ASSUME NEW p \in Proxies, Crash(p) PROVE IInv'
  BY <1>3, CrashKeeps
<1> QED
  BY <1>1, <1>2, <1>3 DEF Next, RequestStep

\* It always holds.
THEOREM Inductive == Spec => []IInv
BY InitIInv, StepIInv, PTL DEF Spec

\* Type correctness: a release never takes more than was added unless the client sends it
\* again, so the counter of the store is negative by no more than what such releases took
\* (reserveInputBudget and its deferred release).
THEOREM TypeCorrect == Spec => []TypeOK
<1>1. IInv => TypeOK
  BY DEF IInv
<1> QED
  BY <1>1, Inductive, PTL

\* Until a store call fails or a proxy dies, the counter is exactly what is owed:
\* nothing is charged twice and what used no response leaves nothing behind.
THEOREM CounterExact == Spec => []UsageIsOwed
<1>1. IInv => UsageIsOwed
  BY DEF IInv, Covered, UsageIsOwed
<1> QED
  BY <1>1, Inductive, PTL

\* The counter covers every prompt in flight or answered, but for what releases took that
\* were applied more than once: any other fault leaks budget.
THEOREM CounterCovers == Spec => []InputsCovered
<1>1. IInv => InputsCovered
  <2> SUFFICES ASSUME IInv PROVE InputsCovered
    OBVIOUS
  <2>1. InputsOwed \in Nat /\ OutputsOwed \in Nat /\ usage \in Int /\ excess \in Nat
    BY TypedOK, SumsType DEF IInv, Typed
  <2>2. usage + excess >= InputsOwed + OutputsOwed
    BY DEF IInv, Covered
  <2> QED
    BY <2>1, <2>2 DEF InputsCovered
<1> QED
  BY <1>1, Inductive, PTL

\* The prompts admitted exceed the budget of one of the requests that made them by at most
\* one prompt for each other proxy on the store and what repeated releases took.
THEOREM BudgetHeld == Spec => []InputCap
<1>1. IInv => InputCap
  <2> SUFFICES ASSUME IInv, InputsOwed > 0
               PROVE  \E r \in Owing : InputsOwed <= LimitOf[r] + Overrun + excess
    BY DEF InputCap
  <2>1. Owing # {}
    <3>1. SUFFICES ASSUME Owing = {} PROVE FALSE
      OBVIOUS
    <3>2. InputsOwed = 0
      BY <3>1, SumEmpty DEF InputsOwed
    <3> QED
      BY <3>2
  <2>2. Owing \in SUBSET Counted
    BY DEF Counted
  <2> QED
    BY <2>1, <2>2 DEF IInv, Capped, InputsOwed
<1> QED
  BY <1>1, Inductive, PTL

----------------------------------------------------------------------------
(* The counter keeps the book.                                             *)

\* What the book says of a request, case by case.
LEMMA EntryCases ==
  ASSUME NEW r \in Requests, Account(r)
  PROVE  /\ LimitOf[r] = 0 => Entry(r) = "none"
         /\ LimitOf[r] # 0 =>
              /\ pc[r] = "new" => Entry(r) = "none"
              /\ pc[r] = "refused" => Entry(r) = "refused"
              /\ committed[r] => Entry(r) = "settled"
              /\ ~committed[r] /\ pc[r] \in {"add", "send", "leaving"} => Entry(r) = "held"
              /\ ~committed[r] /\ pc[r] \in {"done", "lost"} => Entry(r) = "returned"
BY DEF Account, Entry

\* It says the same after a step that has brought r there.
LEMMA EntryCasesAfter ==
  ASSUME NEW r \in Requests, Account(r)'
  PROVE  /\ LimitOf[r] = 0 => Entry(r)' = "none"
         /\ LimitOf[r] # 0 =>
              /\ pc'[r] = "new" => Entry(r)' = "none"
              /\ pc'[r] = "refused" => Entry(r)' = "refused"
              /\ committed'[r] => Entry(r)' = "settled"
              /\ ~committed'[r] /\ pc'[r] \in {"add", "send", "leaving"} => Entry(r)' = "held"
              /\ ~committed'[r] /\ pc'[r] \in {"done", "lost"} => Entry(r)' = "returned"
BY DEF Account, Entry

\* The book counts the prompts owed and those about to be added.
LEMMA BookTotal ==
  ASSUME IInv, IsFiniteSet(Adding)
  PROVE  Book!Total = usage + SumOver(Prompt, Adding)
<1>1. /\ Typed /\ Holding /\ \A r \in Requests : Account(r) /\ LimitOf[r] \in Nat
  BY TypedOK, CountsAssumption DEF IInv
<1>2. \A r \in Requests : r \in Counted <=> Entry(r) \in {"held", "settled"}
  <2>1. TAKE r \in Requests
  <2>2. /\ LimitOf[r] \in Nat /\ pc[r] \in Places /\ (pc[r] = "add" => LimitOf[r] > 0)
        /\ Account(r)
    BY <1>1 DEF Typed, Holding, Adding
  <2>3. r \in Counted <=> OwesPrompt(r) \/ pc[r] = "add"
    BY DEF Counted, Owing, Adding
  <2>4. CASE LimitOf[r] = 0
    <3>1. Entry(r) = "none"
      BY <2>2, <2>4, EntryCases
    <3>2. ~OwesPrompt(r) /\ pc[r] # "add"
      BY <2>2, <2>4 DEF OwesPrompt
    <3> QED
      BY <2>3, <3>1, <3>2
  <2>5. CASE LimitOf[r] # 0
    <3>1. LimitOf[r] > 0
      BY <2>2, <2>5
    <3>2. CASE committed[r]
      BY <2>2, <2>3, <2>5, <3>1, <3>2, EntryCases DEF OwesPrompt
    <3>3. CASE ~committed[r]
      BY <2>2, <2>3, <2>5, <3>1, <3>3, EntryCases DEF OwesPrompt, Places, Account
    <3> QED
      BY <3>2, <3>3
  <2> QED
    BY <2>4, <2>5
<1>3. Book!Inputs = SumOver(Prompt, Counted)
  <2>1. Counted = {r \in Requests : [x \in Requests |-> Entry(x)][r] \in {"held", "settled"}}
    BY <1>2 DEF Counted, Owing, Adding
  <2>2. Book!SumOver(Prompt, Counted) = SumOver(Prompt, Counted)
    BY DEF Book!SumOver, SumOver, Book!MapThenSumSet, MapThenSumSet, Book!MapThenFoldSet,
           MapThenFoldSet
  <2>3. Book!Inputs = Book!SumOver(Prompt, Counted)
    BY <2>1 DEF Book!Inputs
  <2> QED
    BY <2>2, <2>3
<1>5. /\ IsFiniteSet(Owing) /\ InputsOwed \in Nat /\ \A r \in Requests : Prompt[r] \in Nat
  BY <1>1, SumsType
<1>6. Owing \cap Adding = {} /\ \A x \in Owing \cup Adding : Prompt[x] \in Nat
  BY <1>1, <1>5 DEF Account, Owing, Adding, OwesPrompt
<1>7. SumOver(Prompt, Counted) = InputsOwed + SumOver(Prompt, Adding)
  BY <1>5, <1>6, SumDisjoint DEF Counted, InputsOwed
<1>8. SumOver(Prompt, Adding) \in Nat /\ usage \in Int
  BY <1>1, <1>6, SumType DEF Typed
<1>9. Book!Total = Book!Inputs + (usage - InputsOwed)
  BY DEF Book!Total
<1> QED
  BY <1>3, <1>5, <1>7, <1>8, <1>9

\* The completions charged are changed by what the step charges.
LEMMA BookCharged ==
  ASSUME Typed, Typed', Balanced, faults' = 0
  PROVE  /\ out' = out => usage' - InputsOwed' = usage - InputsOwed
         /\ OutputsOwed' >= OutputsOwed => usage' - InputsOwed' >= usage - InputsOwed
<1> DEFINE a == InputsOwed
           b == OutputsOwed
           c == InputsOwed'
           d == OutputsOwed'
           u == usage
           v == usage'
<1>1. a \in Nat /\ b \in Nat /\ c \in Nat /\ d \in Nat /\ u \in Int /\ v \in Int
  BY SumsType, SumsTypeAfter DEF Typed
<1>2. v - u = (c - a) + (d - b)
  BY DEF Balanced
<1>3. out' = out => d = b
  BY DEF OutputsOwed
<1> HIDE DEF a, b, c, d, u, v
<1>4. v - c = (u - a) + (d - b)
  BY <1>1, <1>2
<1>5. d = b => v - c = u - a
  BY <1>1, <1>4
<1>6. d >= b => v - c >= u - a
  BY <1>1, <1>4
<1> QED
  BY <1>3, <1>5, <1>6 DEF a, b, c, d, u, v

\* Every step but a fault is a step of the book, or changes nothing it records.
LEMMA BookStep ==
  ASSUME IInv, NEW r \in Requests, Step(r), faults' = 0
  PROVE  [Book!BookNext]_(Book!bookVars)
<1> DEFINE entry == [x \in Requests |-> Entry(x)]
<1>1. /\ Typed /\ Typed' /\ TypeOK /\ Holding /\ Balanced /\ Account(r) /\ Account(r)'
      /\ \A x \in Requests \ {r} : UNCHANGED Local(x)
  BY TypedOK, TypedStep, AccountStep DEF IInv, RequestStep
<1>2. entry' = [entry EXCEPT ![r] = Entry(r)']
  <2>1. \A x \in Requests \ {r} : Entry(x)' = Entry(x)
    BY <1>1 DEF Local, Entry
  <2> QED
    BY <2>1
<1>3. /\ out' = out => usage' - InputsOwed' = usage - InputsOwed
      /\ OutputsOwed' >= OutputsOwed => usage' - InputsOwed' >= usage - InputsOwed
  BY <1>1, BookCharged
<1>4. /\ entry[r] = Entry(r) /\ LimitOf[r] \in Nat /\ Prompt[r] \in Nat /\ usage \in Int
  BY <1>1, CountsAssumption DEF TypeOK
<1> HIDE DEF entry
<1>5. ASSUME Entry(r)' = Entry(r), out' = out PROVE UNCHANGED Book!bookVars
  <2>1. entry' = entry
    BY <1>2, <1>4, <1>5 DEF entry
  <2> QED
    BY <1>3, <1>5, <2>1 DEF Book!bookVars, entry
<1>6. ASSUME NEW from, NEW to, Entry(r) = from, Entry(r)' = to, out' = out
      PROVE  Book!Move(r, from, to) /\ UNCHANGED (usage - InputsOwed)
  BY <1>2, <1>3, <1>4, <1>6 DEF Book!Move, entry
<1>7. CASE Unmetered(r)
  BY <1>1, <1>5, <1>7, EntryCases, EntryCasesAfter DEF Unmetered
<1>8. CASE ReserveRead(r)
  <2>1. /\ pc[r] = "new" /\ LimitOf[r] > 0 /\ Free(r) /\ committed' = committed /\ out' = out
    BY <1>8, ReserveReadCases
  <2>2. /\ IsFiniteSet(Adding) /\ SumOver(Prompt, Adding) \in Nat
        /\ SumOver(Prompt, Adding) <= Overrun /\ Overrun \in Nat
    BY <1>1, <2>1, AddingBound
  <2>3. Book!Total = usage + SumOver(Prompt, Adding)
    BY <2>2, BookTotal
  <2>4. LimitOf[r] # 0 /\ ~committed[r] /\ ~committed'[r] /\ Entry(r) = "none"
    BY <1>1, <1>4, <2>1, EntryCases DEF Account
  <2>5. CASE /\ pc' = [pc EXCEPT ![r] = "refused"]
             /\ ~(usage + Prompt[r] <= LimitOf[r])
    <3>1. pc'[r] = "refused"
      BY <1>1, <2>5 DEF Typed
    <3>2. Entry(r)' = "refused"
      BY <1>1, <2>4, <3>1, EntryCasesAfter
    <3>3. Book!Total + Prompt[r] > LimitOf[r]
      BY <1>4, <2>2, <2>3, <2>5
    <3> QED
      BY <1>6, <2>1, <2>4, <3>2, <3>3 DEF Book!Refuse, Book!BookNext
  <2>6. CASE /\ \E place \in {"send", "add"} : pc' = [pc EXCEPT ![r] = place]
             /\ usage + Prompt[r] <= LimitOf[r]
    <3>1. pc'[r] \in {"send", "add"}
      BY <1>1, <2>6 DEF Typed
    <3>2. Entry(r)' = "held"
      BY <1>1, <2>4, <3>1, EntryCasesAfter
    <3>3. Book!Total + Prompt[r] <= LimitOf[r] + Overrun
      BY <1>4, <2>2, <2>3, <2>6
    <3> QED
      BY <1>6, <2>1, <2>4, <3>2, <3>3 DEF Book!Hold, Book!BookNext
  <2> QED
    BY <1>8, <2>5, <2>6, ReserveReadCases
<1>9. CASE ReserveAdd(r)
  <2>1. pc[r] = "add" /\ pc'[r] = "send" /\ committed' = committed /\ out' = out
    BY <1>1, <1>9 DEF ReserveAdd, Goto, Typed
  <2> QED
    BY <1>1, <1>5, <2>1, EntryCases, EntryCasesAfter DEF Account
<1>10. CASE Answer(r)
  <2>1. pc[r] = "send" /\ pc'[r] = "answered" /\ committed'[r] /\ out' = out
    BY <1>1, <1>10 DEF Answer, Goto, Typed
  <2>2. CASE LimitOf[r] = 0
    BY <1>1, <1>5, <2>1, <2>2, EntryCases, EntryCasesAfter
  <2>3. CASE LimitOf[r] # 0
    <3>1. Entry(r) = "held" /\ Entry(r)' = "settled"
      BY <1>1, <2>1, <2>3, EntryCases, EntryCasesAfter DEF Account
    <3> QED
      BY <1>6, <2>1, <3>1 DEF Book!Settle, Book!BookNext
  <2> QED
    BY <2>2, <2>3
<1>11. CASE GiveUp(r)
  <2>1. pc[r] = "send" /\ pc'[r] = "leaving" /\ committed' = committed /\ out' = out
    BY <1>1, <1>11 DEF GiveUp, Goto, Typed
  <2> QED
    BY <1>1, <1>5, <2>1, EntryCases, EntryCasesAfter DEF Account
<1>12. CASE Return(r)
  <2>1. pc[r] = "leaving" /\ pc'[r] = "done" /\ committed' = committed /\ out' = out
    BY <1>1, <1>12 DEF Return, Goto, Typed
  <2>2. CASE LimitOf[r] = 0 \/ committed[r]
    BY <1>1, <1>5, <2>1, <2>2, EntryCases, EntryCasesAfter
  <2>3. CASE LimitOf[r] # 0 /\ ~committed[r]
    <3>1. Entry(r) = "held" /\ Entry(r)' = "returned"
      BY <1>1, <2>1, <2>3, EntryCases, EntryCasesAfter
    <3> QED
      BY <1>6, <2>1, <3>1 DEF Book!Return, Book!BookNext
  <2> QED
    BY <2>2, <2>3
<1>13. ASSUME NEW n \in Outputs, ChargeOutput(r, n) PROVE [Book!BookNext]_(Book!bookVars)
  <2>1. /\ pc[r] = "answered" /\ pc'[r] = "leaving" /\ committed' = committed
        /\ out' = [out EXCEPT ![r] = n]
    BY <1>1, <1>13 DEF ChargeOutput, Goto, Typed
  <2>2. committed[r] /\ committed'[r] /\ out[r] = 0 /\ n \in Nat
    BY <1>1, <2>1, CountsAssumption DEF Account
  <2>3. OutputsOwed' = OutputsOwed + n
    BY <1>1, <2>1, <2>2, OutputJoins
  <2>4. OutputsOwed' >= OutputsOwed
    BY <1>1, <2>2, <2>3, SumsType
  <2>5. Entry(r)' = Entry(r) /\ (LimitOf[r] = 0 \/ Entry(r) = "settled")
    BY <1>1, <2>2, EntryCases, EntryCasesAfter
  <2>6. entry' = entry
    BY <1>2, <1>4, <2>5 DEF entry
  <2> QED
    BY <1>3, <1>4, <2>4, <2>5, <2>6 DEF Book!Charge, Book!BookNext, entry
<1> QED
  BY <1>7, <1>8, <1>9, <1>10, <1>11, <1>12, <1>13 DEF Step

\* The counter with its mutex, its separate read and increment and the charges
\* nobody orders keeps a token's account book (BudgetLedger): every prompt is held
\* when it is compared, then settled or returned in full, until the first fault.
THEOREM CounterKeepsBook == Spec => KeepsBook
<1>1. Init => Book!BookInit
  <2> SUFFICES ASSUME Init PROVE Book!BookInit
    OBVIOUS
  <2>1. IInv /\ usage = 0 /\ \A r \in Requests : pc[r] = "new" /\ ~committed[r]
    BY InitIInv DEF Init
  <2>2. \A r \in Requests : Entry(r) = "none"
    BY <2>1, EntryCases DEF IInv
  <2>3. Owing = {}
    BY <2>1 DEF Owing, OwesPrompt
  <2>4. usage - InputsOwed = 0
    BY <2>1, <2>3, SumEmpty DEF InputsOwed
  <2> QED
    BY <2>2, <2>4 DEF Book!BookInit
<1>2. IInv /\ [Next]_vars => [faults' = 0 => [Book!BookNext]_(Book!bookVars)]_vars
  <2> SUFFICES ASSUME IInv, Next, faults' = 0 PROVE [Book!BookNext]_(Book!bookVars)
    OBVIOUS
  <2>1. faults \in Nat /\ faults + 1 # 0
    BY CountsAssumption DEF IInv, TypeOK
  <2>2. ASSUME NEW r \in Requests, Step(r) PROVE [Book!BookNext]_(Book!bookVars)
    BY <2>2, BookStep
  <2> QED
    BY <2>1, <2>2 DEF Next, ReserveFails, ReturnFails, ChargeFails, Crash, Fault
<1> QED
  BY <1>1, <1>2, Inductive, PTL DEF Spec, KeepsBook

============================================================================
