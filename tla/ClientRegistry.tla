---------------------------- MODULE ClientRegistry ----------------------------
(***************************************************************************)
(* The webhook emitters of a process and who uses them.  There are two     *)
(* kinds.  runRemote has the ClientRegistry of                             *)
(* internal/remote/client_registry.go: a registration is a record in a     *)
(* database and an emitter in a map, written one after the other, the map  *)
(* under the registry's read-write mutex.  Emit holds the mutex for        *)
(* reading while it offers an event to every emitter, Unregister and Close *)
(* hold it for writing while an emitter drains.  runServe, and runRemote   *)
(* beside the registry, has one emitter for each webhook of the            *)
(* configuration (buildEmitter of cmd/serve.go), in a slice that never     *)
(* changes (Multi of internal/events/multi.go), and no mutex: a handler    *)
(* may offer an event to an emitter that is being closed, or is closed.    *)
(* The process may die and start again.                                    *)
(***************************************************************************)
EXTENDS WebhookEmitter, FiniteSets

CONSTANTS
  Procs,      \* goroutines: requests of the API, and writers of tokens that emit
  Main,       \* the goroutine of runRemote or runServe, which closes the emitters at the end
  Nobody,     \* no goroutine and no client: the mutex is free
  MaxRestarts \* bound: how often the process is started again

ASSUME RegistryAssumption ==
  /\ Events \subseteq Nat /\ MaxRestarts \in Nat
  /\ Main \notin Procs /\ Nobody \notin Procs \cup {Main} \cup Clients

VARIABLES
  host,      \* whose the emitters are: "registry" (ClientRegistry) or "server" (buildEmitter)
  db,        \* the registrations in the database; of a server, its configured webhooks
  emitters,  \* cr.emitters: the clients with an emitter in the map; of a server, those
             \* its Close has not closed yet
  writer,    \* who holds cr.mu for writing, or Nobody
  pc,        \* where each goroutine is
  arg,       \* arg[p]: the client p registers or unregisters, or closes next
  left,      \* left[p]: the emitters p has yet to offer its event to
  event,     \* event[p]: the event p emits
  emitted,   \* events made so far, numbered
  used,      \* client ids made so far
  overtaken, \* history: unregistered when the map had no emitter for them
  closed,    \* the database is closed
  doubleClose, \* a done channel was closed twice, which panics
  restarts

registryVars == <<host, db, emitters, writer, pc, arg, left, event, emitted, used,
                  overtaken, closed, doubleClose, restarts>>
vars == <<emitterVars, registryVars>>

Goroutines == Procs \cup {Main}
Goto(p, place) == pc' = [pc EXCEPT ![p] = place]
Return(p) == Goto(p, "idle") /\ arg' = [arg EXCEPT ![p] = Nobody]
Reading == {p \in Procs : pc[p] = "offer"}
CanRead == writer = Nobody
CanWrite == writer = Nobody /\ Reading = {}

----------------------------------------------------------------------------
(* Register.                                                               *)

\* The record is written under a fresh id.  A URL that is not valid, or a
\* database that is closed, is an error and changes nothing.
RegisterStore(p, c) ==
  /\ host = "registry" /\ pc[p] = "idle" /\ ~closed /\ c \notin used
  /\ db' = db \cup {c}
  /\ used' = used \cup {c}
  /\ arg' = [arg EXCEPT ![p] = c]
  /\ Goto(p, "insert")
  /\ UNCHANGED <<emitterVars, host, emitters, writer, left, event, emitted, overtaken,
                 closed, doubleClose, restarts>>

\* The emitter is made and put in the map, under the mutex.
RegisterInsert(p) ==
  /\ pc[p] = "insert" /\ CanWrite
  /\ NewWebhookEmitter(arg[p])
  /\ emitters' = emitters \cup {arg[p]}
  /\ Return(p)
  /\ UNCHANGED <<host, db, writer, left, event, emitted, used, overtaken, closed,
                 doubleClose, restarts>>

----------------------------------------------------------------------------
(* Unregister.                                                             *)

\* The record is deleted; an unknown id is an error and changes nothing.
UnregisterDelete(p, c) ==
  /\ host = "registry" /\ pc[p] = "idle" /\ ~closed /\ c \in db
  /\ db' = db \ {c}
  /\ arg' = [arg EXCEPT ![p] = c]
  /\ Goto(p, "remove")
  /\ UNCHANGED <<emitterVars, host, emitters, writer, left, event, emitted, used,
                 overtaken, closed, doubleClose, restarts>>

\* close(w.done) by p, which then waits with the mutex held.
CloseEmitter(p, c) ==
  /\ CloseDone(c)
  /\ doubleClose' = (doubleClose \/ done[c])
  /\ arg' = [arg EXCEPT ![p] = c]

\* Slip: the emitter is closed before the mutex is taken, and stays in the map
\* until it has drained.
UnregisterLockLate(p) ==
  /\ pc[p] = "remove" /\ arg[p] \in emitters
  /\ CloseEmitter(p, arg[p]) /\ Goto(p, "removeWait")
  /\ UNCHANGED <<host, db, emitters, writer, left, event, emitted, used, overtaken, closed,
                 restarts>>

\* Slip: the early return of a client without an emitter keeps the mutex.
UnregisterLockLeaks(p) ==
  /\ pc[p] = "remove" /\ CanWrite
  /\ writer' = p
  /\ IF arg[p] \in emitters
     THEN CloseEmitter(p, arg[p]) /\ Goto(p, "removeWait")
     ELSE Return(p) /\ UNCHANGED <<emitterVars, doubleClose>>
  /\ UNCHANGED <<host, db, emitters, left, event, emitted, used, overtaken, closed, restarts>>

\* The mutex is taken for writing and the emitter, if there is one, is closed.
UnregisterLock(p) ==
  /\ pc[p] = "remove" /\ CanWrite
  /\ IF arg[p] \in emitters
     THEN /\ writer' = p
          /\ CloseEmitter(p, arg[p])
          /\ Goto(p, "removeWait")
          /\ overtaken' = overtaken
     ELSE /\ Return(p)
          /\ overtaken' = overtaken \cup {arg[p]}
          /\ UNCHANGED <<emitterVars, writer, doubleClose>>
  /\ UNCHANGED <<host, db, emitters, left, event, emitted, used, closed, restarts>>

\* Slip: the closed emitter stays in the map.
UnregisterFinishKeeps(p) ==
  /\ pc[p] = "removeWait" /\ worker[arg[p]] = "exit"
  /\ writer' = Nobody
  /\ Return(p)
  /\ UNCHANGED <<emitterVars, host, db, emitters, left, event, emitted, used,
                 overtaken, closed, doubleClose, restarts>>

\* The worker has returned: wg.Wait is over, and the mutex is released.
UnregisterFinish(p) ==
  /\ pc[p] = "removeWait" /\ worker[arg[p]] = "exit"
  /\ emitters' = emitters \ {arg[p]}
  /\ writer' = Nobody
  /\ Return(p)
  /\ UNCHANGED <<emitterVars, host, db, left, event, emitted, used, overtaken,
                 closed, doubleClose, restarts>>

----------------------------------------------------------------------------
(* Emit.                                                                   *)

\* The emitters an event goes to: those of the map, or all of the slice.
Offered == IF host = "registry" THEN emitters ELSE db

\* A new event, and in a registry the read lock: the map does not change until it is
\* released.  A server's emitters have no lock (its writer is Nobody throughout).
EmitLock(p) ==
  /\ pc[p] = "idle" /\ emitted + 1 \in Events /\ CanRead
  /\ emitted' = emitted + 1
  /\ event' = [event EXCEPT ![p] = emitted + 1]
  /\ left' = [left EXCEPT ![p] = Offered]
  /\ Goto(p, "offer")
  /\ UNCHANGED <<emitterVars, host, db, emitters, writer, arg, used, overtaken, closed,
                 doubleClose, restarts>>

\* The emitters of a map are visited in any order, those of a slice in one of them.
EmitOne(p, c) ==
  /\ pc[p] = "offer" /\ c \in left[p]
  /\ Emit(c, event[p])
  /\ left' = [left EXCEPT ![p] = @ \ {c}]
  /\ UNCHANGED <<host, db, emitters, writer, pc, arg, event, emitted, used, overtaken,
                 closed, doubleClose, restarts>>

EmitUnlock(p) ==
  /\ pc[p] = "offer" /\ left[p] = {}
  /\ Goto(p, "idle")
  /\ event' = [event EXCEPT ![p] = 0]
  /\ UNCHANGED <<emitterVars, host, db, emitters, writer, arg, left, emitted, used,
                 overtaken, closed, doubleClose, restarts>>

----------------------------------------------------------------------------
(* Close, at the end of runRemote or runServe, while requests that         *)
(* outlived the drain of the HTTP server may still be running.             *)

CloseLock ==
  /\ pc[Main] = "idle"
  /\ IF host = "registry" THEN CanWrite /\ writer' = Main ELSE writer' = writer
  /\ Goto(Main, "close")
  /\ UNCHANGED <<emitterVars, host, db, emitters, arg, left, event, emitted, used,
                 overtaken, closed, doubleClose, restarts>>

CloseNext(c) ==
  /\ pc[Main] = "close" /\ c \in emitters
  /\ CloseEmitter(Main, c)
  /\ Goto(Main, "closeWait")
  /\ UNCHANGED <<host, db, emitters, writer, left, event, emitted, used, overtaken,
                 closed, restarts>>

CloseOne ==
  /\ pc[Main] = "closeWait" /\ worker[arg[Main]] = "exit"
  /\ emitters' = emitters \ {arg[Main]}
  /\ Goto(Main, "close")
  /\ UNCHANGED <<emitterVars, host, db, writer, arg, left, event, emitted, used,
                 overtaken, closed, doubleClose, restarts>>

CloseUnlock ==
  /\ pc[Main] = "close" /\ emitters = {}
  /\ writer' = Nobody
  /\ closed' = TRUE
  /\ Goto(Main, "end")
  /\ arg' = [arg EXCEPT ![Main] = Nobody]
  /\ UNCHANGED <<emitterVars, host, db, emitters, left, event, emitted, used,
                 overtaken, doubleClose, restarts>>

----------------------------------------------------------------------------
(* The process.                                                            *)

\* Slip: the registry starts with an empty map.
NewClientRegistryEmpty ==
  /\ restarts < MaxRestarts
  /\ restarts' = restarts + 1
  /\ NewEmitters({})
  /\ emitters' = {}
  /\ writer' = Nobody
  /\ pc' = [p \in Goroutines |-> "idle"]
  /\ arg' = [p \in Goroutines |-> Nobody]
  /\ left' = [p \in Procs |-> {}]
  /\ event' = [p \in Procs |-> 0]
  /\ overtaken' = {} /\ closed' = FALSE
  /\ UNCHANGED <<host, db, emitted, used, doubleClose>>

\* The process dies at any moment, or ends, and is started again: the registry
\* makes an emitter for every registration it finds.  What was queued is gone.
NewClientRegistry ==
  /\ restarts < MaxRestarts
  /\ restarts' = restarts + 1
  /\ NewEmitters(db)
  /\ emitters' = db
  /\ writer' = Nobody
  /\ pc' = [p \in Goroutines |-> "idle"]
  /\ arg' = [p \in Goroutines |-> Nobody]
  /\ left' = [p \in Procs |-> {}]
  /\ event' = [p \in Procs |-> 0]
  /\ overtaken' = {} /\ closed' = FALSE
  /\ UNCHANGED <<host, db, emitted, used, doubleClose>>

\* A registry that has never run, or one that finds the registrations of an earlier one;
\* a server with any webhooks.
Init ==
  /\ host \in {"registry", "server"}
  /\ db \in SUBSET Clients
  /\ InitEmitters(db)
  /\ emitters = db /\ used = db
  /\ writer = Nobody
  /\ pc = [p \in Goroutines |-> "idle"]
  /\ arg = [p \in Goroutines |-> Nobody]
  /\ left = [p \in Procs |-> {}]
  /\ event = [p \in Procs |-> 0]
  /\ emitted = 0 /\ overtaken = {} /\ closed = FALSE
  /\ doubleClose = FALSE /\ restarts = 0

\* POST and DELETE of the client API; the other methods, requests that do not
\* authenticate and bodies that do not parse change nothing.
HandleClients(p) ==
  \E c \in Clients : RegisterStore(p, c) \/ UnregisterDelete(p, c)

Progress(p) ==
  \/ RegisterInsert(p) \/ UnregisterLock(p) \/ UnregisterFinish(p)
  \/ EmitUnlock(p) \/ \E c \in Clients : EmitOne(p, c)

Close == CloseLock \/ CloseOne \/ CloseUnlock \/ \E c \in Clients : CloseNext(c)

WorkerStep == \E m \in Clients : Work(m) /\ UNCHANGED registryVars

Next ==
  \/ \E p \in Procs : HandleClients(p) \/ EmitLock(p) \/ Progress(p)
  \/ Close
  \/ WorkerStep
  \/ NewClientRegistry

\* Goroutines are scheduled, an attempt ends by the client's timeout, a pause by
\* its timer, and a goroutine that waits for the mutex gets it (a waiting writer
\* keeps new readers out).  Requests, events and the end of the process may come
\* or not; a Close that has begun goes on.
Fairness ==
  /\ \A p \in Procs : WF_vars(Progress(p))
  /\ \A m \in Clients : WF_vars(Work(m) /\ UNCHANGED registryVars)
  /\ WF_vars(pc[Main] # "idle" /\ Close)

Spec == Init /\ [][Next]_vars /\ Fairness

----------------------------------------------------------------------------
(* Properties.                                                             *)

\* Type invariant.
TypeOK ==
  /\ EmittersTypeOK /\ host \in {"registry", "server"}
  /\ db \subseteq used /\ used \subseteq Clients /\ emitters \subseteq used
  /\ writer \in Goroutines \cup {Nobody}
  /\ pc \in [Goroutines -> {"idle", "insert", "remove", "removeWait", "offer",
                            "close", "closeWait", "end"}]
  /\ arg \in [Goroutines -> Clients \cup {Nobody}]
  /\ left \in [Procs -> SUBSET used]
  /\ event \in [Procs -> Events \cup {0}] /\ emitted \in Events \cup {0}
  /\ overtaken \subseteq used \ db
  /\ closed \in BOOLEAN /\ doubleClose \in BOOLEAN /\ restarts \in 0..MaxRestarts

\* No emitter is closed twice, which would end the process with a panic, although
\* Unregister and Close both close emitters and may run at the same time.
ClosedOnce == ~doubleClose

\* "On shutdown, the queue is drained before the process exits" (docs/EVENTS.md:271): a
\* worker that has returned has delivered, or tried as often as it may, every event its
\* emitter had accepted before Close began, whatever was offered to it meanwhile.  In a
\* registry it leaves no event behind at all, since Unregister and Close drain with the
\* mutex held.  A server has no such mutex: an event that a handler offers after the
\* worker has returned stays in the queue, and the sentence is not true of it.
NothingStranded ==
  \A m \in Clients : worker[m] = "exit" =>
    owed[m] = 0 /\ (host = "registry" => queue[m] = <<>>)

\* The map and the database agree up to the steps in progress: a client of the
\* database has an emitter unless its Register has yet to make it or the registry
\* is being closed, and a running emitter has a client in the database unless an
\* Unregister is removing it or has overtaken its Register.  The last case is an
\* emitter nobody can stop: a second Unregister does not find the client.
MapMatchesDatabase ==
  /\ \A c \in db : \/ c \in emitters /\ Running(c)
                   \/ pc[Main] # "idle"
                   \/ \E p \in Procs : pc[p] = "insert" /\ arg[p] = c
  /\ \A m \in Clients : Running(m) =>
       \/ m \in emitters
          /\ (m \in db \cup overtaken \/ \E p \in Procs : pc[p] \in {"remove", "removeWait"} /\ arg[p] = m)

\* The emitters implement the channels of EventChannel.
KeepsChannel == Channel!Spec

\* Every request returns: neither the drain of an emitter, which is waited for
\* with the mutex held, nor the mutex keeps one forever.
OperationsEnd ==
  \A p \in Procs : pc[p] # "idle" ~> pc[p] = "idle"

=============================================================================
