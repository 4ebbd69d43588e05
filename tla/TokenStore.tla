------------------------------ MODULE TokenStore ------------------------------
(***************************************************************************)
(* BoltStore of internal/store/bolt.go: the tokens and their policies in a *)
(* database file, and the in-memory cache that requests are looked up in.  *)
(* Every write commits a transaction and then reloads the cache: a read    *)
(* transaction takes a snapshot, and the new cache is installed under the  *)
(* store's mutex.  Writers (the admin API, the periodic and the pushed     *)
(* sync) run concurrently, a watcher reloads when the file's modification  *)
(* time has moved, and a Lookup that meets an expired entry evicts it.     *)
(***************************************************************************)
EXTENDS Integers, Sequences, FiniteSets

CONSTANTS
  Tokens,    \* token hashes
  Policies,  \* policies, as opaque values
  Expiries,  \* the expirations a caller may set
  Writers,   \* goroutines that create, update or delete tokens
  Readers,   \* goroutines that look tokens up
  Watcher,   \* the goroutine of StartFileWatch
  None,      \* no record, no entry, no expiration
  MaxWrites, \* bound: committed write transactions
  MaxTime    \* bound: the last instant of the clock

ASSUME ProcessesAssumption == Watcher \notin Writers
ASSUME ValuesAssumption ==
  /\ Expiries \subseteq Nat /\ None \notin Expiries /\ None \notin Policies
  /\ MaxWrites \in Nat /\ MaxTime \in Nat

\* boltRecord: sealed when it cannot be decrypted with the key of this process.
Record == [policy: Policies, exp: Expiries \cup {None}, sealed: BOOLEAN]
CacheEntry == [policy: Policies, exp: Expiries \cup {None}]
ASSUME NoneAssumption == None \notin Record /\ None \notin CacheEntry

VARIABLES
  versions,  \* the database after each committed transaction; a read
             \* transaction sees the version it started at
  cache,     \* BoltStore.cache
  now,       \* time.Now()
  open,      \* the database is open and the watcher runs
  pc,        \* where each writer and the watcher is
  snap,      \* snap[w]: the version w's Reload read
  lastMod,   \* lastMod of the watcher, as the version whose commit wrote it last
  key        \* key[l]: the expired token l is about to evict, or None

vars == <<versions, cache, now, open, pc, snap, lastMod, key>>

Loaders == Writers \cup {Watcher}
Latest == Len(versions)
db == versions[Latest]

Expired(e) == e # None /\ e.exp # None /\ now > e.exp

\* Mutant of Load: a record that cannot be read keeps its zero policy.
LoadSealed(database) ==
  [t \in Tokens |-> IF database[t] = None THEN None
                    ELSE [policy |-> IF database[t].sealed THEN None
                                     ELSE database[t].policy,
                          exp |-> database[t].exp]]

\* What Reload makes of a database: a record that cannot be read is skipped.
Load(database) ==
  [t \in Tokens |-> IF database[t] = None \/ database[t].sealed THEN None
                    ELSE [policy |-> database[t].policy, exp |-> database[t].exp]]

\* What Lookup answers for t.
Answer(t) == IF cache[t] = None \/ Expired(cache[t]) THEN None ELSE cache[t].policy

----------------------------------------------------------------------------
(* Writes: a committed transaction, then the writer's Reload.              *)

Commit(w, database) ==
  /\ pc[w] = "idle" /\ open /\ Latest <= MaxWrites
  /\ versions' = Append(versions, database)
  /\ pc' = [pc EXCEPT ![w] = "reload"]
  /\ UNCHANGED <<cache, now, open, snap, lastMod, key>>

Create(w, t, p, e) ==
  /\ db[t] = None
  /\ Commit(w, [db EXCEPT ![t] = [policy |-> p, exp |-> e, sealed |-> FALSE]])

\* An empty policy or expiration keeps the record's; "clear" is e = None.
Update(w, t, keepPolicy, p, keepExp, e) ==
  /\ db[t] # None
  /\ Commit(w, [db EXCEPT ![t] =
       [policy |-> IF keepPolicy THEN @.policy ELSE p,
        exp |-> IF keepExp THEN @.exp ELSE e,
        sealed |-> keepPolicy /\ @.sealed]])

Delete(w, t) ==
  /\ db[t] # None
  /\ Commit(w, [db EXCEPT ![t] = None])

----------------------------------------------------------------------------
(* Reload.                                                                 *)

\* The read transaction.  After Close it fails, and the cache stays as it is.
Snapshot(w) ==
  /\ pc[w] = "reload"
  /\ IF open
     THEN snap' = [snap EXCEPT ![w] = Latest] /\ pc' = [pc EXCEPT ![w] = "swap"]
     ELSE snap' = snap /\ pc' = [pc EXCEPT ![w] = "idle"]
  /\ UNCHANGED <<versions, cache, now, open, lastMod, key>>

\* Mutant of Swap: the entries read are added to the old cache.
SwapMerges(w) ==
  /\ pc[w] = "swap"
  /\ LET new == Load(versions[snap[w]])
     IN cache' = [t \in Tokens |-> IF new[t] = None THEN cache[t] ELSE new[t]]
  /\ pc' = [pc EXCEPT ![w] = "idle"]
  /\ UNCHANGED <<versions, now, open, snap, lastMod, key>>

\* Mutant of Swap: the watcher reads the modification time after it has reloaded.
SwapMarksFile(w) ==
  /\ pc[w] = "swap"
  /\ cache' = Load(versions[snap[w]])
  /\ pc' = [pc EXCEPT ![w] = "idle"]
  /\ lastMod' = IF w = Watcher THEN Latest ELSE lastMod
  /\ UNCHANGED <<versions, now, open, snap, key>>

\* The new cache replaces the old one.
Swap(w) ==
  /\ pc[w] = "swap"
  /\ cache' = Load(versions[snap[w]])
  /\ pc' = [pc EXCEPT ![w] = "idle"]
  /\ UNCHANGED <<versions, now, open, snap, lastMod, key>>

\* A tick of the watcher: the file changed since the last one that reloaded.
Tick ==
  /\ pc[Watcher] = "idle" /\ open /\ lastMod < Latest
  /\ lastMod' = Latest
  /\ pc' = [pc EXCEPT ![Watcher] = "reload"]
  /\ UNCHANGED <<versions, cache, now, open, snap, key>>

----------------------------------------------------------------------------
(* Lookup of an expired entry.                                             *)

\* Under the read lock; the lock is then released.
SeeExpired(l, t) ==
  /\ key[l] = None /\ Expired(cache[t])
  /\ key' = [key EXCEPT ![l] = t]
  /\ UNCHANGED <<versions, cache, now, open, pc, snap, lastMod>>

\* Mutant of Evict: the entry is not looked at again under the write lock.
EvictUnchecked(l) ==
  LET t == key[l]
  IN /\ t # None
     /\ cache' = [cache EXCEPT ![t] = None]
     /\ key' = [key EXCEPT ![l] = None]
     /\ UNCHANGED <<versions, now, open, pc, snap, lastMod>>

\* Under the write lock: the entry may have been replaced meanwhile.
Evict(l) ==
  LET t == key[l]
  IN /\ t # None
     /\ cache' = IF Expired(cache[t]) THEN [cache EXCEPT ![t] = None] ELSE cache
     /\ key' = [key EXCEPT ![l] = None]
     /\ UNCHANGED <<versions, now, open, pc, snap, lastMod>>

PassTime ==
  /\ now < MaxTime
  /\ now' = now + 1
  /\ UNCHANGED <<versions, cache, open, pc, snap, lastMod, key>>

\* Close waits for the watcher to be between ticks, and closes the database.
Close ==
  /\ open /\ pc[Watcher] = "idle"
  /\ open' = FALSE
  /\ UNCHANGED <<versions, cache, now, pc, snap, lastMod, key>>

\* Init opens the file, whose records may have been written with another key,
\* and loads it; the watcher starts with no modification time seen.
Init ==
  /\ \E d \in [Tokens -> {None} \cup
                 [policy: Policies, exp: {None}, sealed: BOOLEAN]] :
       versions = <<d>> /\ cache = Load(d)
  /\ now = 0 /\ open = TRUE
  /\ pc = [w \in Loaders |-> "idle"]
  /\ snap = [w \in Loaders |-> 1]
  /\ lastMod = 0
  /\ key = [l \in Readers |-> None]

Write(w) ==
  \E t \in Tokens :
    \/ \E p \in Policies, e \in Expiries \cup {None} : Create(w, t, p, e)
    \/ \E keepPolicy, keepExp \in BOOLEAN, p \in Policies, e \in Expiries \cup {None} :
         Update(w, t, keepPolicy, p, keepExp, e)
    \/ Delete(w, t)

Next ==
  \/ \E w \in Writers : Write(w)
  \/ \E w \in Loaders : Snapshot(w) \/ Swap(w)
  \/ Tick
  \/ \E l \in Readers : Evict(l) \/ \E t \in Tokens : SeeExpired(l, t)
  \/ PassTime
  \/ Close

\* A goroutine that is reloading goes on, and the watcher's ticker keeps ticking.
Fairness ==
  /\ \A w \in Loaders : WF_vars(Snapshot(w) \/ Swap(w))
  /\ WF_vars(Tick)

Spec == Init /\ [][Next]_vars /\ Fairness

----------------------------------------------------------------------------
(* Properties.                                                             *)

\* Type invariant.
TypeOK ==
  /\ versions \in Seq([Tokens -> Record \cup {None}]) /\ versions # <<>>
  /\ cache \in [Tokens -> CacheEntry \cup {None}]
  /\ now \in Nat /\ open \in BOOLEAN
  /\ pc \in [Loaders -> {"idle", "reload", "swap"}]
  /\ snap \in [Loaders -> 1..Latest]
  /\ lastMod \in 0..Latest
  /\ key \in [Readers -> Tokens \cup {None}]

\* The cache shows database d: the policy and expiry of each record that can be
\* read, whatever the others are, but for entries evicted because they expired.
Shows(d) ==
  \A t \in Tokens :
    IF d[t] # None /\ ~d[t].sealed
    THEN \/ cache[t] = [policy |-> d[t].policy, exp |-> d[t].exp]
         \/ cache[t] = None /\ Expired(d[t])
    ELSE cache[t] = None

\* Whatever writers, watcher and lookups do to it, the cache is one committed
\* version of the database: never a mixture of two, never a token that was not
\* there together with the others.
CacheIsAVersion == \E v \in DOMAIN versions : Shows(versions[v])

\* A Lookup removes no entry but an expired one: a token that was renewed between
\* its read lock and its write lock stays.
EvictsOnlyExpired ==
  [][\A t \in Tokens : cache[t] # None /\ cache'[t] = None =>
       \/ Expired(cache[t])
       \/ \E w \in Loaders : pc[w] = "swap" /\ pc'[w] = "idle"]_vars

\* Once the writers have stopped, the cache comes to show the database and stays
\* so: the watcher repairs what a reload that read an older version installed.
\* This holds for one writer: see DeletedIsRejected for two.
CacheCatchesUp == <>[](open => Shows(db))

\* "Once deleted, any requests using that token will be rejected immediately"
\* (docs/TOKEN_MANAGEMENT.md:202), at least in the end.  Two reloads that overlap
\* install their snapshots in either order, and nothing reloads again afterwards.
DeletedIsRejected ==
  \A t \in Tokens : db[t] = None ~> (Answer(t) = None \/ db[t] # None \/ ~open)

=============================================================================
