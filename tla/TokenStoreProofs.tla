--------------------------- MODULE TokenStoreProofs ---------------------------
(***************************************************************************)
(* Proofs about TokenStore, for any tokens, policies, writers and readers. *)
(* TypeOK and CacheIsAVersion are inductive together: a snapshot in flight *)
(* is a version (TypeOK), so the cache it becomes is one; versions are     *)
(* never removed; and an expired entry stays expired.                      *)
(***************************************************************************)
EXTENDS TokenStore, TLAPS

\* A database is a record or nothing for each token.
Databases == [Tokens -> Record \cup {None}]

\* Reload makes a cache of any database.
LEMMA LoadType ==
  ASSUME NEW d \in Databases
  PROVE  Load(d) \in [Tokens -> CacheEntry \cup {None}]
<1> SUFFICES ASSUME NEW t \in Tokens, d[t] # None
             PROVE  [policy |-> d[t].policy, exp |-> d[t].exp] \in CacheEntry
  BY DEF Load
<1>1. d[t] \in Record
  BY DEF Databases
<1> QED
  BY <1>1 DEF Record, CacheEntry

\* Time only moves on: what has expired stays expired.
LEMMA ExpiredStays ==
  ASSUME NEW e \in Record \cup {None}, TypeOK, PassTime, Expired(e)
  PROVE  Expired(e)'
<1>1. e # None /\ e \in Record /\ e.exp # None /\ now > e.exp
  BY DEF Expired
<1>2. e.exp \in Nat
  BY <1>1, ValuesAssumption DEF Record
<1>3. now \in Nat /\ now' = now + 1
  BY DEF TypeOK, PassTime
<1> QED
  BY <1>1, <1>2, <1>3 DEF Expired

\* Init loads a database into the cache.
LEMMA InitType == Init => TypeOK
<1> SUFFICES ASSUME Init PROVE TypeOK
  OBVIOUS
<1>1. PICK d \in [Tokens -> {None} \cup [policy: Policies, exp: {None}, sealed: BOOLEAN]] :
        versions = <<d>> /\ cache = Load(d)
  BY DEF Init
<1>2. d \in Databases
  <2> SUFFICES ASSUME NEW t \in Tokens PROVE d[t] \in Record \cup {None}
    BY <1>1 DEF Databases
  <2>1. CASE d[t] = None
    BY <2>1
  <2>2. CASE d[t] \in [policy: Policies, exp: {None}, sealed: BOOLEAN]
    BY <2>2 DEF Record
  <2> QED
    BY <2>1, <2>2
<1>3. versions \in Seq(Databases) /\ versions # <<>> /\ Len(versions) = 1
  BY <1>1, <1>2
<1>4. cache \in [Tokens -> CacheEntry \cup {None}]
  BY <1>1, <1>2, LoadType
<1> QED
  BY <1>3, <1>4 DEF Init, TypeOK, Databases, Latest

\* A commit of a database keeps the types.
LEMMA CommitType ==
  ASSUME TypeOK, NEW w \in Writers, NEW d \in Databases, Commit(w, d)
  PROVE  TypeOK'
<1>1. versions' \in Seq(Databases) /\ versions' # <<>> /\ Latest' = Latest + 1
  BY DEF TypeOK, Commit, Databases, Latest
<1>2. Latest \in Nat
  BY DEF TypeOK, Latest
<1>3. snap' \in [Loaders -> 1..Latest'] /\ lastMod' \in 0..Latest'
  BY <1>1, <1>2 DEF TypeOK, Commit
<1>4. pc' \in [Loaders -> {"idle", "reload", "swap"}]
  BY DEF TypeOK, Commit
<1>5. UNCHANGED <<cache, now, open, key>>
  BY DEF Commit
<1> QED
  BY <1>1, <1>3, <1>4, <1>5 DEF TypeOK, Databases

\* The latest version is a database.
LEMMA DbType == TypeOK => db \in Databases /\ Latest \in Nat /\ Latest >= 1
  BY DEF TypeOK, db, Latest, Databases

\* A write keeps the types, refused or committed.
LEMMA WriteType ==
  ASSUME TypeOK, NEW w \in Writers, Write(w)
  PROVE  TypeOK'
<1>1. PICK t \in Tokens :
        \/ \E p \in Policies, e \in Expiries \cup {None} : Create(w, t, p, e)
        \/ \E keepPolicy, keepExp \in BOOLEAN, p \in Policies, e \in Expiries \cup {None} :
             Update(w, t, keepPolicy, p, keepExp, e)
        \/ Delete(w, t)
  BY DEF Write
<1>2. ASSUME NEW p \in Policies, NEW e \in Expiries \cup {None}, Create(w, t, p, e)
      PROVE  TypeOK'
  <2> DEFINE d == [db EXCEPT ![t] = [policy |-> p, exp |-> e, sealed |-> FALSE]]
  <2>1. d \in Databases
    BY DbType DEF Databases, Record
  <2>2. Commit(w, d)
    BY <1>2 DEF Create
  <2> QED
    BY <2>1, <2>2, CommitType
<1>3. ASSUME NEW keepPolicy \in BOOLEAN, NEW keepExp \in BOOLEAN, NEW p \in Policies,
             NEW e \in Expiries \cup {None}, Update(w, t, keepPolicy, p, keepExp, e)
      PROVE  TypeOK'
  <2> DEFINE r == [policy |-> IF keepPolicy THEN db[t].policy ELSE p,
                   exp |-> IF keepExp THEN db[t].exp ELSE e,
                   sealed |-> keepPolicy /\ db[t].sealed]
             d == [db EXCEPT ![t] = r]
  <2>1. db[t] \in Record /\ db \in Databases
    BY <1>3, DbType DEF Update, Databases
  <2>2. r \in Record
    BY <2>1 DEF Record
  <2>3. d \in Databases
    BY <2>1, <2>2 DEF Databases
  <2>4. Commit(w, d)
    BY <1>3 DEF Update
  <2> QED
    BY <2>3, <2>4, CommitType
<1>4. ASSUME Delete(w, t) PROVE TypeOK'
  <2> DEFINE d == [db EXCEPT ![t] = None]
  <2>1. d \in Databases
    BY DbType DEF Databases
  <2>2. Commit(w, d)
    BY <1>4 DEF Delete
  <2> QED
    BY <2>1, <2>2, CommitType
<1> QED
  BY <1>1, <1>2, <1>3, <1>4

\* Every step keeps the types.
LEMMA NextType ==
  ASSUME TypeOK, [Next]_vars
  PROVE  TypeOK'
<1>1. ASSUME NEW w \in Writers, Write(w) PROVE TypeOK'
  BY <1>1, WriteType
<1>2. ASSUME NEW w \in Loaders, Snapshot(w) PROVE TypeOK'
  <2>1. 1 <= Latest /\ Latest \in Nat
    BY DbType
  <2>2. Latest \in 1..Latest
    BY <2>1
  <2>4. snap' \in [Loaders -> 1..Latest]
    BY <1>2, <2>2 DEF TypeOK, Snapshot
  <2>5. pc' \in [Loaders -> {"idle", "reload", "swap"}]
    BY <1>2 DEF TypeOK, Snapshot
  <2>3. UNCHANGED <<versions, cache, now, open, lastMod, key>>
    BY <1>2 DEF Snapshot
  <2> QED
    BY <2>3, <2>4, <2>5 DEF TypeOK, Latest
<1>3. ASSUME NEW w \in Loaders, Swap(w) PROVE TypeOK'
  <2>1. versions[snap[w]] \in Databases
    BY DEF TypeOK, Databases, Latest
  <2>2. cache' \in [Tokens -> CacheEntry \cup {None}]
    BY <1>3, <2>1, LoadType DEF Swap
  <2> QED
    BY <1>3, <2>2 DEF TypeOK, Swap, Latest
<1>4. ASSUME Tick PROVE TypeOK'
  <2>1. lastMod' \in 0..Latest
    BY <1>4, DbType DEF Tick
  <2>2. pc' \in [Loaders -> {"idle", "reload", "swap"}]
    BY <1>4 DEF TypeOK, Tick
  <2>3. UNCHANGED <<versions, cache, now, open, snap, key>>
    BY <1>4 DEF Tick
  <2> QED
    BY <2>1, <2>2, <2>3 DEF TypeOK, Latest
<1>5. ASSUME NEW l \in Readers, Evict(l) PROVE TypeOK'
  BY <1>5 DEF TypeOK, Evict, Latest
<1>6. ASSUME NEW l \in Readers, NEW t \in Tokens, SeeExpired(l, t) PROVE TypeOK'
  BY <1>6 DEF TypeOK, SeeExpired, Latest
<1>7. ASSUME PassTime PROVE TypeOK'
  BY <1>7 DEF TypeOK, PassTime, Latest
<1>8. ASSUME Close PROVE TypeOK'
  BY <1>8 DEF TypeOK, Close, Latest
<1>9. ASSUME UNCHANGED vars PROVE TypeOK'
  BY <1>9 DEF TypeOK, vars, Latest
<1> QED
  BY <1>1, <1>2, <1>3, <1>4, <1>5, <1>6, <1>7, <1>8, <1>9 DEF Next

\* TypeOK: every snapshot in flight is a committed version of the database, and
\* the cache, the records and the keys about to be evicted have their types.
THEOREM TypeCorrect == Spec => []TypeOK
<1>1. Init => TypeOK
  BY InitType
<1>2. TypeOK /\ [Next]_vars => TypeOK'
  BY NextType
<1> QED
  BY <1>1, <1>2, PTL DEF Spec

----------------------------------------------------------------------------
(* The cache is one committed version of the database.                     *)

\* A commit leaves the versions there are as they are.
LEMMA CommitKeepsVersions ==
  ASSUME TypeOK, NEW w \in Writers, NEW d, Commit(w, d), NEW v \in DOMAIN versions
  PROVE  v \in DOMAIN versions' /\ versions'[v] = versions[v]
<1>1. versions \in Seq(Databases) /\ versions' = Append(versions, d)
  BY DEF TypeOK, Commit, Databases
<1> QED
  BY <1>1

\* What shows a database is what Reload makes of it, but for what has expired.
LEMMA ShowsLoaded ==
  ASSUME NEW d \in Databases
  PROVE  Shows(d) <=> \A t \in Tokens : \/ cache[t] = Load(d)[t]
                                        \/ cache[t] = None /\ Expired(Load(d)[t])
<1>1. ASSUME NEW t \in Tokens, d[t] # None, ~d[t].sealed
      PROVE  /\ Load(d)[t] = [policy |-> d[t].policy, exp |-> d[t].exp]
             /\ Expired(Load(d)[t]) <=> Expired(d[t])
  <2>1. Load(d)[t] = [policy |-> d[t].policy, exp |-> d[t].exp]
    BY <1>1 DEF Load
  <2>2. d[t] \in Record
    BY <1>1 DEF Databases
  <2>3. Load(d)[t] # None
    BY <2>1, <2>2, NoneAssumption DEF Record, CacheEntry
  <2> QED
    BY <1>1, <2>1, <2>3 DEF Expired
<1>2. ASSUME NEW t \in Tokens, d[t] = None \/ d[t].sealed
      PROVE  Load(d)[t] = None /\ ~Expired(Load(d)[t])
  BY <1>2 DEF Load, Expired
<1> QED
  BY <1>1, <1>2 DEF Shows

\* An action that changes neither cache nor clock keeps the cache's version.
LEMMA UnchangedShows ==
  ASSUME NEW v, NEW u, Shows(versions[v]), versions'[u] = versions[v],
         UNCHANGED <<cache, now>>
  PROVE  Shows(versions[u])'
  BY DEF Shows, Load, Expired

\* Every write ends in the commit of one new database, or in the same one.
LEMMA WriteCommits ==
  ASSUME NEW w \in Writers, Write(w)
  PROVE  \E d : Commit(w, d)
<1>1. PICK t \in Tokens :
        \/ \E p \in Policies, e \in Expiries \cup {None} : Create(w, t, p, e)
        \/ \E keepPolicy, keepExp \in BOOLEAN, p \in Policies, e \in Expiries \cup {None} :
             Update(w, t, keepPolicy, p, keepExp, e)
        \/ Delete(w, t)
  BY DEF Write
<1>2. ASSUME NEW p, NEW e, Create(w, t, p, e) PROVE \E d : Commit(w, d)
  BY <1>2 DEF Create
<1>3. ASSUME NEW keepPolicy, NEW p, NEW keepExp, NEW e,
             Update(w, t, keepPolicy, p, keepExp, e)
      PROVE  \E d : Commit(w, d)
  BY <1>3 DEF Update
<1>4. ASSUME Delete(w, t) PROVE \E d : Commit(w, d)
  BY <1>4 DEF Delete
<1> QED
  BY <1>1, <1>2, <1>3, <1>4

\* Every step leaves the cache a version of the database.
LEMMA NextVersion ==
  ASSUME TypeOK, CacheIsAVersion, [Next]_vars
  PROVE  CacheIsAVersion'
<1> PICK v \in DOMAIN versions : Shows(versions[v])
  BY DEF CacheIsAVersion
<1>1. ASSUME NEW w \in Writers, Write(w) PROVE CacheIsAVersion'
  <2>1. PICK d : Commit(w, d)
    BY <1>1, WriteCommits
  <2>2. v \in DOMAIN versions' /\ versions'[v] = versions[v]
    BY <2>1, CommitKeepsVersions
  <2>3. UNCHANGED <<cache, now>>
    BY <2>1 DEF Commit
  <2>4. Shows(versions[v])'
    BY <2>2, <2>3, UnchangedShows
  <2> QED
    BY <2>2, <2>4 DEF CacheIsAVersion
<1>2. ASSUME UNCHANGED <<versions, cache, now>> PROVE CacheIsAVersion'
  BY <1>2, UnchangedShows DEF CacheIsAVersion
<1>3. ASSUME NEW w \in Loaders, Swap(w) PROVE CacheIsAVersion'
  <2>1. snap[w] \in DOMAIN versions /\ versions' = versions /\ snap' = snap
    BY <1>3 DEF TypeOK, Latest, Swap
  <2>2. cache' = Load(versions[snap[w]])
    BY <1>3 DEF Swap
  <2>3. Shows(versions[snap[w]])'
    BY <2>1, <2>2 DEF Shows, Load
  <2> QED
    BY <2>1, <2>3 DEF CacheIsAVersion
<1>4. ASSUME NEW l \in Readers, Evict(l) PROVE CacheIsAVersion'
  <2>1. UNCHANGED <<versions, now>>
    BY <1>4 DEF Evict
  <2>2. ASSUME NEW t \in Tokens
        PROVE  \/ cache'[t] = cache[t]
               \/ cache'[t] = None /\ Expired(cache[t])
    BY <1>4 DEF Evict, TypeOK
  <2>3. ASSUME NEW t \in Tokens
        PROVE  \/ cache'[t] = Load(versions[v])[t]
               \/ cache'[t] = None /\ Expired(Load(versions[v])[t])
    <3>1. \/ cache[t] = Load(versions[v])[t]
          \/ cache[t] = None /\ Expired(Load(versions[v])[t])
      BY ShowsLoaded DEF TypeOK, Databases
    <3> QED
      BY <2>2, <3>1 DEF Expired
  <2>4. Shows(versions[v])'
    BY <2>1, <2>3 DEF Shows, Load, Expired
  <2> QED
    BY <2>1, <2>4 DEF CacheIsAVersion
<1>5. ASSUME PassTime PROVE CacheIsAVersion'
  <2>1. UNCHANGED <<versions, cache>>
    BY <1>5 DEF PassTime
  <2>2. versions[v] \in Databases
    BY DEF TypeOK, Databases
  <2>3. ASSUME NEW t \in Tokens, Expired(versions[v][t]) PROVE Expired(versions[v][t])'
    <3>1. versions[v][t] \in Record \cup {None} /\ versions'[v][t] = versions[v][t]
      BY <2>1, <2>2 DEF Databases
    <3>2. \A e \in Record \cup {None} : Expired(e) => e # None /\ e.exp # None /\ now' > e.exp
      <4> SUFFICES ASSUME NEW e \in Record \cup {None}, Expired(e)
                   PROVE  e # None /\ e.exp # None /\ now' > e.exp
        OBVIOUS
      <4> QED
        BY <1>5, ExpiredStays DEF Expired
    <3> QED
      BY <2>3, <3>1, <3>2 DEF Expired
  <2>4. Shows(versions[v])'
    BY <2>1, <2>3 DEF Shows
  <2> QED
    BY <2>1, <2>4 DEF CacheIsAVersion
<1>6. CASE \E w \in Loaders : Snapshot(w)
  BY <1>2, <1>6 DEF Snapshot
<1>7. CASE Tick
  BY <1>2, <1>7 DEF Tick
<1>8. CASE \E l \in Readers, t \in Tokens : SeeExpired(l, t)
  BY <1>2, <1>8 DEF SeeExpired
<1>9. CASE Close
  BY <1>2, <1>9 DEF Close
<1>10. CASE UNCHANGED vars
  BY <1>2, <1>10 DEF vars
<1> QED
  BY <1>1, <1>3, <1>4, <1>5, <1>6, <1>7, <1>8, <1>9, <1>10 DEF Next

\* CacheIsAVersion: whatever reloads, lookups and writers interleave, Lookup
\* answers from one committed version of the database, less what has expired.
THEOREM OneVersion == Spec => []CacheIsAVersion
<1>1. Init => TypeOK /\ CacheIsAVersion
  <2> SUFFICES ASSUME Init PROVE CacheIsAVersion
    BY InitType
  <2>1. PICK d : versions = <<d>> /\ cache = Load(d)
    BY DEF Init
  <2>2. 1 \in DOMAIN versions /\ versions[1] = d
    BY <2>1
  <2>3. d \in Databases
    BY <2>2, InitType DEF TypeOK, Databases
  <2>4. Shows(d)
    BY <2>1, <2>3, ShowsLoaded
  <2> QED
    BY <2>2, <2>4 DEF CacheIsAVersion
<1>2. TypeOK /\ CacheIsAVersion /\ [Next]_vars => (TypeOK /\ CacheIsAVersion)'
  BY NextType, NextVersion
<1> QED
  BY <1>1, <1>2, PTL DEF Spec

----------------------------------------------------------------------------
(* What a lookup removes.                                                  *)

\* EvictsOnlyExpired: an entry leaves the cache by a reload, or because it has
\* expired at the moment it is removed.
THEOREM EvictionSafe == Spec => EvictsOnlyExpired
<1> DEFINE Safe ==
      \A t \in Tokens : cache[t] # None /\ cache'[t] = None =>
        \/ Expired(cache[t])
        \/ \E w \in Loaders : pc[w] = "swap" /\ pc'[w] = "idle"
<1>1. ASSUME TypeOK, [Next]_vars PROVE [Safe]_vars
  <2>1. ASSUME NEW w \in Writers, Write(w) PROVE Safe
    <3>1. PICK d : Commit(w, d)
      BY <2>1, WriteCommits
    <3> QED
      BY <3>1 DEF Commit
  <2>2. ASSUME NEW w \in Loaders, Swap(w) PROVE Safe
    <3>1. pc[w] = "swap" /\ pc'[w] = "idle"
      BY <1>1, <2>2 DEF Swap, TypeOK
    <3> QED
      BY <3>1
  <2>3. ASSUME NEW l \in Readers, Evict(l) PROVE Safe
    BY <1>1, <2>3 DEF Evict, TypeOK
  <2>4. ASSUME cache' = cache PROVE Safe
    BY <2>4
  <2>5. ASSUME NEW w \in Loaders, Snapshot(w) PROVE Safe
    BY <2>4, <2>5 DEF Snapshot
  <2>6. ASSUME Tick PROVE Safe
    BY <2>4, <2>6 DEF Tick
  <2>7. ASSUME NEW l \in Readers, NEW t \in Tokens, SeeExpired(l, t) PROVE Safe
    BY <2>4, <2>7 DEF SeeExpired
  <2>8. ASSUME Close \/ PassTime PROVE Safe
    BY <2>4, <2>8 DEF Close, PassTime
  <2>9. Next => Safe
    <3> HIDE DEF Safe
    <3> QED
      BY <2>1, <2>2, <2>3, <2>5, <2>6, <2>7, <2>8 DEF Next
  <2> QED
    BY <1>1, <2>9
<1>2. Spec => []TypeOK
  BY TypeCorrect
<1> QED
  BY <1>1, <1>2, PTL DEF Spec, EvictsOnlyExpired

=============================================================================
