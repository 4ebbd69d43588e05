------------------------------ MODULE RemoteSync ------------------------------
(***************************************************************************)
(* A proxy that takes its tokens from a central server: Client.SyncTo of   *)
(* internal/remote/remote.go, called at start, by the periodic goroutine   *)
(* and by WebhookReceiver (webhook_receiver.go) for each pushed event it   *)
(* does not debounce, with the registration of the webhook and the order   *)
(* of runServe's deferred calls at the end.  Nothing serialises the syncs: *)
(* each fetches all tokens once and writes them one by one.                *)
(***************************************************************************)
EXTENDS Integers, Sequences, FiniteSets

CONSTANTS
  Tokens, Policies, Expiries,
  Pushers,   \* goroutines of pushed syncs; bound: how many run at once
  Main,      \* the goroutine of runServe
  Periodic,  \* the goroutine of StartPeriodicSync
  Ids,       \* registration ids of the central server
  None,      \* no record, no expiration, no time, no id
  Second,    \* instants in the debounce interval
  MaxWrites, \* bound: writes of the central store
  MaxTime,   \* bound: the last instant of the clock
  MaxFaults  \* bound: failed or lost calls, crashes, local deletions

Record == [policy: Policies, exp: Expiries \cup {None}]

ASSUME SyncAssumption ==
  /\ Second \in Nat \ {0} /\ MaxWrites \in Nat /\ MaxTime \in Nat /\ MaxFaults \in Nat
  /\ None \notin Record \cup Expiries \cup Ids \cup Nat
  /\ Main \notin Pushers /\ Periodic \notin Pushers \cup {Main}

Syncers == Pushers \cup {Main, Periodic}

VARIABLES
  versions, \* the central store after each of its writes
  regs,     \* the central server's webhook registrations for this proxy
  pushes,   \* events under way to the receiver
  local,    \* the proxy's token store
  unreadable, \* the tokens whose local record the running proxy cannot decrypt or parse
  life,     \* where runServe is: "boot", "register", "serve", "unregister",
            \* "stop", "close" or "down"
  mine,     \* registeredClientID
  stopped,  \* Client.stopCh is closed
  pc,       \* where each syncing goroutine is
  fetched,  \* fetched[s]: the version s fetched
  todo,     \* todo[s]: the tokens of that version s has yet to look at
  got,      \* got[s]: the token and the local record s has just read
  lastSync, \* WebhookReceiver.lastSync
  now, faults

central == versions[Len(versions)]
syncVars == <<pc, fetched, todo, got>>
lifeVars == <<life, mine, stopped, unreadable>>
vars == <<versions, regs, pushes, local, lifeVars, syncVars, lastSync, now, faults>>

Fault == faults < MaxFaults /\ faults' = faults + 1
StoreOpen == life # "down"

----------------------------------------------------------------------------
(* The central server: its tokens change, and an event is sent to every    *)
(* registered webhook.  Delivery may lose an event, or repeat one that     *)
(* the receiver was too slow to answer.                                    *)

CentralWrite(t, r) ==
  /\ Len(versions) <= MaxWrites /\ r # central[t]
  /\ versions' = Append(versions, [central EXCEPT ![t] = r])
  /\ pushes' = pushes + Cardinality(regs)
  /\ UNCHANGED <<regs, local, lifeVars, syncVars, lastSync, now, faults>>

LosePush ==
  /\ pushes > 0
  /\ life = "serve" => Fault
  /\ life # "serve" => faults' = faults
  /\ pushes' = pushes - 1
  /\ UNCHANGED <<versions, regs, local, lifeVars, syncVars, lastSync, now>>

----------------------------------------------------------------------------
(* WebhookReceiver.ServeHTTP.                                              *)

Debounced == lastSync # None /\ now - lastSync < Second

\* An event within a second of the last sync is answered and dropped.
Debounce ==
  /\ life = "serve" /\ pushes > 0 /\ Debounced
  /\ pushes' = pushes - 1
  /\ UNCHANGED <<versions, regs, local, lifeVars, syncVars, lastSync, now, faults>>

\* The time is compared and set under the mutex, and a sync is started.  When the
\* answer comes too late the sender repeats the event.
Accept(s, again) ==
  /\ life = "serve" /\ pushes > 0 /\ ~Debounced /\ pc[s] = "idle"
  /\ lastSync' = now
  /\ pc' = [pc EXCEPT ![s] = "fetch"]
  /\ IF again THEN Fault /\ pushes' = pushes ELSE faults' = faults /\ pushes' = pushes - 1
  /\ UNCHANGED <<versions, regs, local, lifeVars, fetched, todo, got, now>>

----------------------------------------------------------------------------
(* SyncTo.                                                                 *)

\* All tokens of the central store, as of one read transaction there.
FetchTokens(s) ==
  /\ pc[s] = "fetch"
  /\ fetched' = [fetched EXCEPT ![s] = Len(versions)]
  /\ todo' = [todo EXCEPT ![s] = {t \in Tokens : central[t] # None}]
  /\ pc' = [pc EXCEPT ![s] = "next"]
  /\ UNCHANGED <<versions, regs, pushes, local, lifeVars, got, lastSync, now, faults>>

\* The error is logged; a pushed sync is not tried again.
FetchFails(s) ==
  /\ pc[s] = "fetch" /\ Fault
  /\ pc' = [pc EXCEPT ![s] = "idle"]
  /\ UNCHANGED <<versions, regs, pushes, local, lifeVars, fetched, todo, got, lastSync, now>>

\* BoltStore.Get returns without an error.
Gets(t) == StoreOpen /\ t \notin unreadable

\* Slip: only the policies are compared.
DiffersInPolicy(mineRec, theirs) == mineRec = None \/ mineRec.policy # theirs.policy

\* The local record is missing, or differs from the one fetched.
Differs(mineRec, theirs) ==
  mineRec = None \/ mineRec.policy # theirs.policy \/ mineRec.exp # theirs.exp

\* Get, and the comparison.  With the store closed, or a record that cannot be read,
\* Get fails and the token is skipped, in this sync and in every later one.
SyncGet(s, t) ==
  /\ pc[s] = "next" /\ t \in todo[s]
  /\ todo' = [todo EXCEPT ![s] = @ \ {t}]
  /\ IF Gets(t) /\ Differs(local[t], versions[fetched[s]][t])
     THEN /\ got' = [got EXCEPT ![s] = [token |-> t, missing |-> local[t] = None]]
          /\ pc' = [pc EXCEPT ![s] = "put"]
     ELSE UNCHANGED <<got, pc>>
  /\ UNCHANGED <<versions, regs, pushes, local, lifeVars, fetched, lastSync, now, faults>>

\* Slip: what is equal is not passed on, and what is passed is not taken.
UpdatedPartly(old, new) == [old EXCEPT !.policy = new.policy]

\* BoltStore.Update: an empty expiration keeps the old one.
Updated(old, new) ==
  [policy |-> new.policy, exp |-> IF new.exp = None THEN old.exp ELSE new.exp]

\* Create or Update, as decided by what Get saw.  Create fails if the token has
\* appeared meanwhile, Update if it is gone, both if the store is closed.
SyncPut(s) ==
  LET t == got[s].token
      new == versions[fetched[s]][t]
  IN /\ pc[s] = "put"
     /\ local' = IF ~StoreOpen \/ got[s].missing # (local[t] = None) THEN local
                 ELSE [local EXCEPT ![t] = IF got[s].missing THEN new ELSE Updated(@, new)]
     /\ got' = [got EXCEPT ![s] = None]
     /\ pc' = [pc EXCEPT ![s] = "next"]
     /\ UNCHANGED <<versions, regs, pushes, lifeVars, fetched, todo, lastSync, now, faults>>

SyncEnds(s) ==
  /\ pc[s] = "next" /\ todo[s] = {}
  /\ pc' = [pc EXCEPT ![s] = "idle"]
  /\ fetched' = [fetched EXCEPT ![s] = 1]
  /\ UNCHANGED <<versions, regs, pushes, local, lifeVars, todo, got, lastSync, now, faults>>

\* The ticker of StartPeriodicSync.  A tick may still be taken after Stop, when the
\* select finds both channels ready.
Tick ==
  /\ life \notin {"boot", "down"} /\ pc[Periodic] = "idle"
  /\ pc' = [pc EXCEPT ![Periodic] = "fetch"]
  /\ UNCHANGED <<versions, regs, pushes, local, lifeVars, fetched, todo, got, lastSync, now, faults>>

SeeStop ==
  /\ stopped /\ pc[Periodic] = "idle"
  /\ pc' = [pc EXCEPT ![Periodic] = "exit"]
  /\ UNCHANGED <<versions, regs, pushes, local, lifeVars, fetched, todo, got, lastSync, now, faults>>

----------------------------------------------------------------------------
(* runServe.                                                               *)

\* The first sync is over, whatever came of it, and the periodic one is started.
StartPeriodicSync ==
  /\ life = "boot" /\ pc[Main] = "idle"
  /\ life' = "register"
  /\ UNCHANGED <<versions, regs, pushes, local, mine, stopped, unreadable, syncVars, lastSync, now, faults>>

\* The call may fail with or without having registered the webhook; the proxy
\* goes on without an id then.
RegisterWebhook ==
  /\ life = "register"
  /\ life' = "serve"
  /\ \/ \E id \in Ids \ regs :
          /\ regs' = regs \cup {id}
          /\ \/ mine' = id /\ faults' = faults
             \/ mine' = None /\ Fault
     \/ regs' = regs /\ mine' = None /\ Fault
  /\ UNCHANGED <<versions, pushes, local, stopped, unreadable, syncVars, lastSync, now>>

\* The signal, and the HTTP servers drained.
Shutdown ==
  /\ life = "serve"
  /\ life' = "unregister"
  /\ UNCHANGED <<versions, regs, pushes, local, mine, stopped, unreadable, syncVars, lastSync, now, faults>>

\* Slip: the id is taken from the configuration of the client and is empty.
UnregisterNothing ==
  /\ life = "unregister"
  /\ life' = "stop"
  /\ mine' = None
  /\ UNCHANGED <<versions, regs, pushes, local, stopped, unreadable, syncVars, lastSync, now, faults>>

\* The first deferred call; a failure is logged, and may come after the effect.
UnregisterWebhook ==
  /\ life = "unregister"
  /\ life' = "stop"
  /\ mine' = None
  /\ \/ regs' = regs \ {mine} /\ faults' = faults
     \/ mine # None /\ regs' \in {regs, regs \ {mine}} /\ Fault
  /\ UNCHANGED <<versions, pushes, local, stopped, unreadable, syncVars, lastSync, now>>

Stop ==
  /\ life = "stop"
  /\ life' = "close"
  /\ stopped' = TRUE
  /\ UNCHANGED <<versions, regs, pushes, local, mine, unreadable, syncVars, lastSync, now, faults>>

\* tokenStore.Close: no sync is waited for.
CloseStore ==
  /\ life = "close"
  /\ life' = "down"
  /\ UNCHANGED <<versions, regs, pushes, local, mine, stopped, unreadable, syncVars, lastSync, now, faults>>

\* The process is killed or has ended, and is started again, with another encryption
\* key or over damaged records perhaps: any of them may be unreadable now.
Restart ==
  /\ Fault
  /\ unreadable' \in SUBSET {t \in Tokens : local[t] # None}
  /\ life' = "boot" /\ mine' = None /\ stopped' = FALSE
  /\ pc' = [s \in Syncers |-> IF s = Main THEN "fetch" ELSE "idle"]
  /\ fetched' = [s \in Syncers |-> 1]
  /\ todo' = [s \in Syncers |-> {}]
  /\ got' = [s \in Syncers |-> None]
  /\ lastSync' = None
  /\ UNCHANGED <<versions, regs, pushes, local, now>>

----------------------------------------------------------------------------
(* The environment.                                                        *)

\* The operator deletes a token of the proxy; Delete does not read the record.
DeleteLocal(t) ==
  /\ local[t] # None /\ StoreOpen /\ Fault
  /\ local' = [local EXCEPT ![t] = None]
  /\ unreadable' = unreadable \ {t}
  /\ UNCHANGED <<versions, regs, pushes, life, mine, stopped, syncVars, lastSync, now>>

PassTime ==
  /\ now < MaxTime
  /\ now' = now + 1
  /\ UNCHANGED <<versions, regs, pushes, local, lifeVars, syncVars, lastSync, faults>>

\* The proxy starts with nothing, or with what an earlier sync left.
Init ==
  /\ \E d \in [Tokens -> {None} \cup Record], kept \in SUBSET Tokens :
       /\ versions = <<d>>
       /\ local = [t \in Tokens |-> IF t \in kept THEN d[t] ELSE None]
  /\ unreadable \in SUBSET {t \in Tokens : local[t] # None}
  /\ regs = {} /\ pushes = 0
  /\ life = "boot" /\ mine = None /\ stopped = FALSE
  /\ pc = [s \in Syncers |-> IF s = Main THEN "fetch" ELSE "idle"]
  /\ fetched = [s \in Syncers |-> 1]
  /\ todo = [s \in Syncers |-> {}]
  /\ got = [s \in Syncers |-> None]
  /\ lastSync = None
  /\ now = 0 /\ faults = 0

SyncTo(s) ==
  FetchTokens(s) \/ SyncPut(s) \/ SyncEnds(s) \/ \E t \in Tokens : SyncGet(s, t)

ServeHTTP == Debounce \/ \E s \in Pushers, again \in BOOLEAN : Accept(s, again)

RunServe ==
  \/ StartPeriodicSync \/ RegisterWebhook
  \/ Shutdown \/ UnregisterWebhook \/ Stop \/ CloseStore

Next ==
  \/ \E t \in Tokens, r \in Record \cup {None} : CentralWrite(t, r)
  \/ LosePush
  \/ ServeHTTP
  \/ \E s \in Syncers : SyncTo(s) \/ FetchFails(s)
  \/ Tick \/ SeeStop
  \/ RunServe
  \/ Restart
  \/ \E t \in Tokens : DeleteLocal(t)
  \/ PassTime

\* A sync that has begun goes on, the ticker ticks, and runServe gets to serving
\* and, once the signal came, to its end.  No event need arrive, nor the signal.
Fairness ==
  /\ \A s \in Syncers : WF_vars(SyncTo(s))
  /\ WF_vars(Tick)
  /\ WF_vars(RunServe /\ life # "serve")

Spec == Init /\ [][Next]_vars /\ Fairness

----------------------------------------------------------------------------
(* Properties.                                                             *)

\* Whatever syncs overlap, a local token has the policy and the expiration of one
\* central version of it, never a policy of one with an expiration of another.
\* The exception is a version without expiration: it takes over the one found.
RecordsAreVersions ==
  \A t \in Tokens : local[t] # None =>
    \E v \in DOMAIN versions :
      /\ versions[v][t] # None /\ versions[v][t].policy = local[t].policy
      /\ versions[v][t].exp \in {local[t].exp, None}

\* "On proxy shutdown, the auto-registration is cleaned up" (docs/EVENTS.md:373):
\* a registration that is not the running proxy's was left by a crash or by a
\* call that failed.
OnlyFaultsLeaveRegistrations ==
  Cardinality(regs \ {mine}) <= faults

\* The local store shows what the central store has, but for an expiration that was
\* cleared there: the empty value SyncTo passes on means "keep".
Shows(t) ==
  central[t] # None =>
    /\ local[t] # None /\ local[t].policy = central[t].policy
    /\ central[t].exp \in {local[t].exp, None}

\* While the proxy runs, it comes to show the central store and stays so, whatever
\* events were lost or debounced, whatever calls failed and whatever syncs wrote old
\* records over new ones: the periodic sync repairs it.  The exception is a local record
\* the proxy cannot read, which no sync replaces until the operator deletes it.
Converges == <>[](life # "down" => \A t \in Tokens \ unreadable : Shows(t))

=============================================================================
