--------------------------- MODULE RemoteSyncProofs ---------------------------
(***************************************************************************)
(* Proofs about RemoteSync, for any tokens, records, goroutines and ids,   *)
(* and any number of writes, seconds and faults.  Each theorem has an      *)
(* inductive invariant of its own, since they are about different parts of *)
(* the state: the records the syncs carry and the registrations of the     *)
(* webhook.                                                                *)
(***************************************************************************)
EXTENDS RemoteSync, TLAPS, FiniteSetTheorems

----------------------------------------------------------------------------
(* Records.                                                                *)

\* What the stores hold, and how far the syncs are.
Stores ==
  /\ versions \in Seq([Tokens -> Record \cup {None}]) /\ Len(versions) > 0
  /\ local \in [Tokens -> Record \cup {None}]
  /\ pc \in [Syncers -> {"idle", "fetch", "next", "put", "exit"}]
  /\ fetched \in [Syncers -> 1..Len(versions)]
  /\ todo \in [Syncers -> SUBSET Tokens]
  /\ got \in [Syncers -> [token: Tokens, missing: BOOLEAN] \cup {None}]

\* A sync looks at, and writes, only tokens that the version it fetched has.
InHand ==
  \A s \in Syncers :
    /\ \A t \in todo[s] : versions[fetched[s]][t] # None
    /\ pc[s] = "put" => /\ got[s] \in [token: Tokens, missing: BOOLEAN]
                        /\ versions[fetched[s]][got[s].token] # None

RecordsInv == Stores /\ InHand /\ RecordsAreVersions

\* A token whose record comes from a version, and the others as they were.
LEMMA OneRecordSet ==
  ASSUME RecordsAreVersions, UNCHANGED versions, NEW t \in Tokens, NEW v \in DOMAIN versions,
         \A x \in Tokens \ {t} : local'[x] = local[x],
         versions[v][t] # None, versions[v][t].policy = local'[t].policy,
         versions[v][t].exp \in {local'[t].exp, None}
  PROVE  RecordsAreVersions'
<1>1. ASSUME NEW x \in Tokens, local'[x] # None
      PROVE  \E w \in DOMAIN versions :
               /\ versions[w][x] # None /\ versions[w][x].policy = local'[x].policy
               /\ versions[w][x].exp \in {local'[x].exp, None}
  <2>1. CASE x = t
    BY <2>1
  <2>2. CASE x # t
    BY <1>1, <2>2 DEF RecordsAreVersions
  <2> QED
    BY <2>1, <2>2
<1> QED
  BY <1>1 DEF RecordsAreVersions

\* Any proxy that starts holds some of what the central store has.
LEMMA RecordsInit == Init => RecordsInv
<1> SUFFICES ASSUME Init PROVE RecordsInv
  OBVIOUS
<1>1. PICK d \in [Tokens -> {None} \cup Record], kept \in SUBSET Tokens :
        /\ versions = <<d>>
        /\ local = [t \in Tokens |-> IF t \in kept THEN d[t] ELSE None]
  BY DEF Init
<1>2. /\ versions \in Seq([Tokens -> Record \cup {None}]) /\ Len(versions) = 1 /\ versions[1] = d
      /\ DOMAIN versions = {1}
  BY <1>1
<1>3. Stores
  BY <1>1, <1>2 DEF Init, Stores
<1>4. InHand
  BY DEF Init, InHand
<1>5. RecordsAreVersions
  BY <1>1, <1>2 DEF RecordsAreVersions
<1> QED
  BY <1>3, <1>4, <1>5 DEF RecordsInv

\* A write of the central store leaves the earlier versions as they are.
LEMMA CentralWriteKeeps ==
  ASSUME RecordsInv, NEW t \in Tokens, NEW r \in Record \cup {None}, CentralWrite(t, r)
  PROVE  RecordsInv'
<1> DEFINE d == [central EXCEPT ![t] = r]
<1>1. central \in [Tokens -> Record \cup {None}]
  BY DEF RecordsInv, Stores, central
<1>2. d \in [Tokens -> Record \cup {None}]
  BY <1>1
<1>3. versions' = Append(versions, d) /\ UNCHANGED <<local, pc, fetched, todo, got>>
  BY DEF CentralWrite, syncVars
<1> HIDE DEF d
<1>4. /\ versions' \in Seq([Tokens -> Record \cup {None}]) /\ Len(versions') = Len(versions) + 1
      /\ DOMAIN versions = 1..Len(versions) /\ DOMAIN versions' = 1..Len(versions')
      /\ \A v \in 1..Len(versions) : v \in 1..Len(versions') /\ versions'[v] = versions[v]
  BY <1>2, <1>3 DEF RecordsInv, Stores
<1>5. Stores'
  BY <1>3, <1>4 DEF RecordsInv, Stores
<1>6. InHand'
  BY <1>3, <1>4 DEF RecordsInv, Stores, InHand
<1>7. RecordsAreVersions'
  <2> SUFFICES ASSUME NEW x \in Tokens, local[x] # None
               PROVE  \E v \in DOMAIN versions' :
                        /\ versions'[v][x] # None /\ versions'[v][x].policy = local[x].policy
                        /\ versions'[v][x].exp \in {local[x].exp, None}
    BY <1>3 DEF RecordsAreVersions
  <2>1. PICK v \in DOMAIN versions :
          /\ versions[v][x] # None /\ versions[v][x].policy = local[x].policy
          /\ versions[v][x].exp \in {local[x].exp, None}
    BY DEF RecordsInv, RecordsAreVersions
  <2>2. v \in DOMAIN versions' /\ versions'[v] = versions[v]
    BY <1>4
  <2> QED
    BY <2>1, <2>2
<1> QED
  BY <1>5, <1>6, <1>7 DEF RecordsInv

\* The steps of a sync: each write is of one version, whatever was there before.
LEMMA SyncToKeeps ==
  ASSUME RecordsInv, NEW s \in Syncers, SyncTo(s) \/ FetchFails(s)
  PROVE  RecordsInv'
<1> USE DEF RecordsInv, Stores
<1>1. UNCHANGED versions
  BY DEF SyncTo, FetchFails, FetchTokens, SyncGet, SyncPut, SyncEnds
<1>2. CASE FetchTokens(s)
  <2>1. Len(versions) \in 1..Len(versions) /\ {t \in Tokens : central[t] # None} \in SUBSET Tokens
    OBVIOUS
  <2>2. Stores' /\ RecordsAreVersions'
    BY <1>2, <2>1 DEF FetchTokens, RecordsAreVersions
  <2>3. InHand'
    BY <1>2 DEF FetchTokens, InHand, central
  <2> QED
    BY <2>2, <2>3
<1>3. CASE FetchFails(s)
  BY <1>3 DEF FetchFails, InHand, RecordsAreVersions
<1>4. ASSUME NEW t \in Tokens, SyncGet(s, t) PROVE RecordsInv'
  <2>1. UNCHANGED <<local, fetched>> /\ t \in todo[s] /\ todo' = [todo EXCEPT ![s] = @ \ {t}]
    BY <1>4 DEF SyncGet
  <2>2. CASE got' = [got EXCEPT ![s] = [token |-> t, missing |-> local[t] = None]]
             /\ pc' = [pc EXCEPT ![s] = "put"]
    <3>1. [token |-> t, missing |-> local[t] = None] \in [token: Tokens, missing: BOOLEAN]
      OBVIOUS
    <3>2. Stores' /\ RecordsAreVersions'
      BY <1>1, <2>1, <2>2, <3>1 DEF RecordsAreVersions
    <3>3. /\ got'[s] = [token |-> t, missing |-> local[t] = None]
          /\ got'[s] \in [token: Tokens, missing: BOOLEAN] /\ got'[s].token = t
          /\ versions[fetched[s]][t] # None
      BY <2>1, <2>2, <3>1 DEF InHand
    <3>4. \A q \in Syncers \ {s} : pc'[q] = pc[q] /\ got'[q] = got[q] /\ todo'[q] = todo[q]
      BY <2>1, <2>2
    <3>5. InHand'
      BY <1>1, <2>1, <2>2, <3>3, <3>4 DEF InHand
    <3> QED
      BY <3>2, <3>5
  <2>3. CASE UNCHANGED <<got, pc>>
    BY <1>1, <2>1, <2>3 DEF InHand, RecordsAreVersions
  <2> QED
    BY <1>4, <2>2, <2>3 DEF SyncGet
<1>5. CASE SyncPut(s)
  <2> DEFINE t == got[s].token
             new == versions[fetched[s]][t]
  <2>1. /\ pc[s] = "put" /\ got' = [got EXCEPT ![s] = None] /\ pc' = [pc EXCEPT ![s] = "next"]
        /\ UNCHANGED <<fetched, todo>>
    BY <1>5 DEF SyncPut
  <2>2. t \in Tokens /\ fetched[s] \in DOMAIN versions /\ new \in Record
    BY <2>1 DEF InHand
  <2>3. InHand'
    BY <1>1, <2>1 DEF InHand
  <2>4. CASE UNCHANGED local
    BY <1>1, <2>1, <2>3, <2>4 DEF RecordsAreVersions
  <2>5. CASE local' = [local EXCEPT ![t] = new]
    <3>1. local' \in [Tokens -> Record \cup {None}]
      BY <2>2, <2>5
    <3>2. local'[t] = new /\ \A x \in Tokens \ {t} : local'[x] = local[x]
      BY <2>2, <2>5
    <3>3. new # None /\ new.exp \in {new.exp, None}
      BY <2>1 DEF InHand
    <3>4. RecordsAreVersions'
      BY <1>1, <2>2, <3>2, <3>3, OneRecordSet
    <3> QED
      BY <1>1, <2>1, <2>3, <3>1, <3>4
  <2>6. CASE local[t] # None /\ local' = [local EXCEPT ![t] = Updated(local[t], new)]
    <3>1. /\ local[t] \in Record /\ Updated(local[t], new) \in Record
          /\ Updated(local[t], new).policy = new.policy
          /\ new.exp \in {Updated(local[t], new).exp, None}
      BY <2>2, <2>6 DEF Updated, Record
    <3>2. local' \in [Tokens -> Record \cup {None}]
      BY <2>2, <2>6, <3>1
    <3>3. local'[t] = Updated(local[t], new) /\ \A x \in Tokens \ {t} : local'[x] = local[x]
      BY <2>2, <2>6
    <3>4. new # None
      BY <2>1 DEF InHand
    <3>5. RecordsAreVersions'
      BY <1>1, <2>2, <3>1, <3>3, <3>4, OneRecordSet
    <3> QED
      BY <1>1, <2>1, <2>3, <3>2, <3>5
  <2>7. local' = IF ~StoreOpen \/ got[s].missing # (local[t] = None) THEN local
                 ELSE [local EXCEPT ![t] = IF got[s].missing THEN new ELSE Updated(local[t], new)]
    BY <1>5 DEF SyncPut
  <2>8. got[s].missing \in BOOLEAN
    BY <2>1 DEF InHand
  <2> HIDE DEF new
  <2>9. CASE ~StoreOpen \/ got[s].missing # (local[t] = None)
    BY <2>4, <2>7, <2>9
  <2>10. CASE StoreOpen /\ got[s].missing = (local[t] = None) /\ got[s].missing
    <3>1. local' = [local EXCEPT ![t] = new]
      BY <2>7, <2>10
    <3> QED
      BY <2>5, <3>1
  <2>11. CASE StoreOpen /\ got[s].missing = (local[t] = None) /\ ~got[s].missing
    <3>1. local' = [local EXCEPT ![t] = Updated(local[t], new)] /\ local[t] # None
      BY <2>7, <2>11
    <3> QED
      BY <2>6, <3>1
  <2> QED
    BY <2>8, <2>9, <2>10, <2>11
<1>6. CASE SyncEnds(s)
  <2>1. 1 \in 1..Len(versions)
    OBVIOUS
  <2> QED
    BY <1>6, <2>1 DEF SyncEnds, InHand, RecordsAreVersions
<1> QED
  BY <1>2, <1>3, <1>4, <1>5, <1>6 DEF SyncTo

\* Every step keeps the records.
LEMMA RecordsStep == RecordsInv /\ [Next]_vars => RecordsInv'
<1> SUFFICES ASSUME RecordsInv, [Next]_vars PROVE RecordsInv'
  OBVIOUS
<1>1. ASSUME NEW x \in {"idle", "fetch", "exit"}, NEW s \in Syncers, pc[s] = "idle",
             pc' = [pc EXCEPT ![s] = x], UNCHANGED <<versions, local, fetched, todo, got>>
      PROVE  RecordsInv'
  BY <1>1 DEF RecordsInv, Stores, InHand, RecordsAreVersions
<1>2. ASSUME UNCHANGED <<versions, local, pc, fetched, todo, got>>
      PROVE  RecordsInv'
  BY <1>2 DEF RecordsInv, Stores, InHand, RecordsAreVersions
<1>3. CASE LosePush \/ Debounce \/ RunServe \/ PassTime \/ UNCHANGED vars
  BY <1>2, <1>3 DEF LosePush, Debounce, RunServe, PassTime, vars, syncVars, StartPeriodicSync,
     RegisterWebhook, Shutdown, UnregisterWebhook, Stop, CloseStore
<1>4. ASSUME NEW s \in Pushers, NEW again \in BOOLEAN, Accept(s, again) PROVE RecordsInv'
  BY <1>1, <1>4 DEF Accept, Syncers
<1>5. CASE Tick
  BY <1>1, <1>5 DEF Tick, Syncers
<1>6. CASE SeeStop
  BY <1>1, <1>6 DEF SeeStop, Syncers
<1>7. CASE Restart
  <2>1. 1 \in 1..Len(versions)
    BY DEF RecordsInv, Stores
  <2> QED
    BY <1>7, <2>1 DEF Restart, RecordsInv, Stores, InHand, RecordsAreVersions
<1>8. ASSUME NEW t \in Tokens, DeleteLocal(t) PROVE RecordsInv'
  BY <1>8 DEF DeleteLocal, syncVars, RecordsInv, Stores, InHand, RecordsAreVersions
<1> QED
  BY <1>3, <1>4, <1>5, <1>6, <1>7, <1>8, CentralWriteKeeps, SyncToKeeps DEF Next, ServeHTTP

\* No local token has the policy of one central version and the expiration of another,
\* however the first, the periodic and the pushed syncs overlap.
THEOREM NoMixedRecords == Spec => []RecordsAreVersions
<1>1. RecordsInv => RecordsAreVersions
  BY DEF RecordsInv
<1> QED
  BY <1>1, RecordsInit, RecordsStep, PTL DEF Spec

----------------------------------------------------------------------------
(* Registrations.                                                          *)

\* The proxy has an id from RegisterWebhook on, at most until it unregisters.
RegistrationsInv ==
  /\ IsFiniteSet(regs) /\ regs \subseteq Ids /\ faults \in Nat
  /\ life \in {"boot", "register"} => mine = None
  /\ OnlyFaultsLeaveRegistrations

\* What a call that failed, or a crash, leaves behind is one registration.
LEMMA RegistrationsStep == RegistrationsInv /\ [Next]_vars => RegistrationsInv'
<1> SUFFICES ASSUME RegistrationsInv, [Next]_vars PROVE RegistrationsInv'
  OBVIOUS
<1> USE SyncAssumption DEF RegistrationsInv, OnlyFaultsLeaveRegistrations
<1>1. /\ IsFiniteSet(regs \ {mine}) /\ Cardinality(regs \ {mine}) \in Nat
      /\ Cardinality(regs) \in Nat /\ Cardinality(regs) <= Cardinality(regs \ {mine}) + 1
  <2>1. Cardinality(regs) \in Nat
    BY FS_CardinalityType
  <2>2. IsFiniteSet(regs \ {mine})
    BY FS_RemoveElement
  <2>3. Cardinality(regs \ {mine}) \in Nat
    BY <2>2, FS_CardinalityType
  <2>4. CASE mine \in regs
    <3>1. Cardinality(regs \ {mine}) = Cardinality(regs) - 1
      BY <2>4, FS_RemoveElement
    <3> QED
      BY <2>1, <2>2, <2>3, <3>1
  <2>5. CASE mine \notin regs
    <3>1. regs \ {mine} = regs
      BY <2>5
    <3> QED
      BY <2>1, <2>2, <2>3, <3>1
  <2> QED
    BY <2>4, <2>5
<1>2. ASSUME UNCHANGED <<regs, mine>>, faults' \in {faults, faults + 1},
             life' \in {"boot", "register"} => life \in {"boot", "register"}
      PROVE  RegistrationsInv'
  BY <1>1, <1>2
<1>3. CASE RegisterWebhook
  <2>1. mine = None /\ regs \ {mine} = regs
    BY <1>3 DEF RegisterWebhook
  <2>2. CASE regs' = regs /\ mine' = None /\ Fault
    BY <1>1, <1>3, <2>1, <2>2 DEF RegisterWebhook, Fault
  <2>3. ASSUME NEW id \in Ids \ regs, regs' = regs \cup {id},
               \/ mine' = id /\ faults' = faults
               \/ mine' = None /\ Fault
        PROVE  RegistrationsInv'
    <3>1. IsFiniteSet(regs') /\ Cardinality(regs') = Cardinality(regs) + 1
      BY <2>3, FS_AddElement
    <3>2. CASE mine' = id /\ faults' = faults
      <4>1. regs' \ {mine'} = regs
        BY <2>3, <3>2
      <4> QED
        BY <1>3, <2>1, <2>3, <3>1, <3>2, <4>1 DEF RegisterWebhook
    <3>3. CASE mine' = None /\ Fault
      <4>1. regs' \ {mine'} = regs'
        BY <2>3, <3>3
      <4> QED
        BY <1>1, <1>3, <2>1, <2>3, <3>1, <3>3, <4>1 DEF RegisterWebhook, Fault
    <3> QED
      BY <2>3, <3>2, <3>3
  <2> QED
    BY <1>3, <2>2, <2>3 DEF RegisterWebhook
<1>4. CASE UnregisterWebhook
  <2>1. mine' = None /\ life' = "stop"
    BY <1>4 DEF UnregisterWebhook
  <2>2. CASE regs' = regs \ {mine} /\ faults' \in {faults, faults + 1}
    <3>1. regs' \ {mine'} = regs \ {mine} /\ regs' \subseteq Ids
      BY <2>1, <2>2
    <3>2. IsFiniteSet(regs')
      BY <1>1, <2>2
    <3>3. faults' \in Nat /\ faults <= faults'
      BY <2>2
    <3>4. Cardinality(regs' \ {mine'}) <= faults'
      <4>1. Cardinality(regs' \ {mine'}) = Cardinality(regs \ {mine})
        BY <3>1, Zenon
      <4> QED
        BY <1>1, <3>3, <4>1
    <3> QED
      BY <2>1, <3>1, <3>2, <3>3, <3>4
  <2>3. CASE regs' = regs /\ faults' = faults + 1
    <3>1. Cardinality(regs' \ {mine'}) <= faults'
      <4>1. regs' \ {mine'} = regs
        BY <2>1, <2>3
      <4>2. Cardinality(regs' \ {mine'}) = Cardinality(regs)
        BY <4>1, Zenon
      <4> QED
        BY <1>1, <2>3, <4>2
    <3>2. IsFiniteSet(regs') /\ regs' \subseteq Ids /\ faults' \in Nat /\ mine' = None
      BY <2>1, <2>3
    <3> QED
      BY <3>1, <3>2
  <2> QED
    BY <1>4, <2>2, <2>3 DEF UnregisterWebhook, Fault
<1>5. CASE Restart
  <2>1. mine' = None /\ regs' = regs /\ faults' = faults + 1
    BY <1>5 DEF Restart, Fault
  <2>2. regs' \ {mine'} = regs
    BY <2>1
  <2> QED
    BY <1>1, <2>1, <2>2
<1>6. CASE StartPeriodicSync \/ Shutdown \/ Stop \/ CloseStore
  BY <1>2, <1>6 DEF StartPeriodicSync, Shutdown, Stop, CloseStore
<1>7. CASE LosePush \/ Debounce \/ PassTime \/ Tick \/ SeeStop \/ UNCHANGED vars
  BY <1>2, <1>7 DEF LosePush, Debounce, PassTime, Tick, SeeStop, vars, lifeVars, Fault
<1>8. ASSUME NEW s \in Pushers, NEW again \in BOOLEAN, Accept(s, again) PROVE RegistrationsInv'
  BY <1>2, <1>8 DEF Accept, lifeVars, Fault
<1>9. ASSUME NEW s \in Syncers, SyncTo(s) \/ FetchFails(s) PROVE RegistrationsInv'
  BY <1>2, <1>9 DEF SyncTo, FetchFails, FetchTokens, SyncGet, SyncPut, SyncEnds, lifeVars, Fault
<1>10. ASSUME NEW t \in Tokens,
              DeleteLocal(t) \/ \E r \in Record \cup {None} : CentralWrite(t, r)
       PROVE  RegistrationsInv'
  BY <1>2, <1>10 DEF DeleteLocal, CentralWrite, lifeVars, Fault
<1> QED
  BY <1>3, <1>4, <1>5, <1>6, <1>7, <1>8, <1>9, <1>10 DEF Next, RunServe, ServeHTTP

\* Registrations other than the running proxy's are no more than there were crashes and
\* failed calls, for any number of restarts.
THEOREM RegistrationsCleanedUp == Spec => []OnlyFaultsLeaveRegistrations
<1>1. Init => RegistrationsInv
  <2>1. IsFiniteSet({}) /\ Cardinality({}) = 0 /\ {} \ {None} = {}
    BY FS_EmptySet
  <2> QED
    BY <2>1 DEF Init, RegistrationsInv, OnlyFaultsLeaveRegistrations
<1>2. RegistrationsInv => OnlyFaultsLeaveRegistrations
  BY DEF RegistrationsInv
<1> QED
  BY <1>1, <1>2, RegistrationsStep, PTL DEF Spec

=============================================================================
