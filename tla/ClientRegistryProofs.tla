------------------------- MODULE ClientRegistryProofs -------------------------
(***************************************************************************)
(* Proofs about ClientRegistry, for any clients, goroutines, filters,      *)
(* queue size and number of attempts and restarts.  What keeps an emitter  *)
(* that is being closed from being closed again, and in a registry from    *)
(* being offered an event, is that whoever closes it holds the mutex for   *)
(* writing (Locks) and keeps it in the map meanwhile (Emitters); what      *)
(* keeps the map and the database together is that an id is used once      *)
(* (Arguments, Owners).  In a server there is no mutex, but only Main      *)
(* closes, one emitter after the other.                                    *)
(*                                                                         *)
(* The second half shows that ClientRegistry implements EventChannel: what *)
(* a client has coming is the event its worker delivers and the queue      *)
(* behind it.  Beside the invariant this needs that an emitter owes no     *)
(* more than it has coming (OwedHeld), or it could return with events      *)
(* owed; that it does not is also what NothingStranded says of a server.   *)
(***************************************************************************)
EXTENDS ClientRegistry, SequenceTheorems, TLAPS

\* p has closed the emitter of c and waits for its worker.
Waits(p, c) == pc[p] \in {"removeWait", "closeWait"} /\ arg[p] = c

\* p is about to make the emitter of c.
Inserts(p, c) == pc[p] = "insert" /\ arg[p] = c

\* p has deleted c from the database, and its emitter is to go.
Removes(p, c) == pc[p] \in {"remove", "removeWait"} /\ arg[p] = c

\* The mutex of a registry: one writer, or readers; only Main runs Close.
Locks ==
  /\ \A p \in Goroutines :
       writer = p <=> host = "registry" /\ pc[p] \in {"removeWait", "close", "closeWait"}
  /\ \A p \in Procs : pc[p] = "offer" => writer = Nobody
  /\ \A p \in Procs : pc[p] \notin {"close", "closeWait", "end"}
  /\ pc[Main] \in {"idle", "close", "closeWait", "end"}
  /\ host = "server" => \A p \in Procs : pc[p] \in {"idle", "offer"}

\* What a goroutine has in hand: ids are used once, so an inserter's is its own.
Arguments ==
  /\ \A p \in Procs : pc[p] # "offer" => left[p] = {}
  /\ host = "registry" => \A p \in Procs : left[p] \subseteq emitters
  /\ host = "server" => used = db
  /\ \A p \in Procs : pc[p] = "insert" => arg[p] \in used \ emitters /\ worker[arg[p]] = "none"
  /\ \A p, q \in Procs : pc[p] = "insert" /\ pc[q] = "insert" /\ arg[p] = arg[q] => p = q
  /\ \A p \in Procs : pc[p] \in {"remove", "removeWait"} => arg[p] \in used \ db
  /\ \A p \in Goroutines : pc[p] \in {"removeWait", "closeWait"} =>
       arg[p] \in emitters /\ done[arg[p]]

\* The life of an emitter: in the map while it runs, closed by the one who waits.
Life(m) ==
  /\ worker[m] = "none" => m \notin emitters /\ queue[m] = <<>> /\ ~done[m]
  /\ m \notin used => worker[m] = "none"
  /\ host = "server" /\ m \in used => worker[m] # "none"
  /\ m \notin emitters => worker[m] \in {"none", "exit"}
  /\ worker[m] \in {"drain", "exit"} => done[m]
  /\ m \in emitters /\ done[m] => \E p \in Goroutines : Waits(p, m)
  /\ host = "registry" /\ worker[m] = "exit" => queue[m] = <<>>

Emitters == \A m \in Clients : Life(m)

\* Whom an emitter, or one about to be made, belongs to, and who has one.
Owners ==
  /\ \A m \in Clients : m \in emitters \/ (\E p \in Procs : Inserts(p, m)) =>
       m \in db \cup overtaken \/ \E p \in Procs : Removes(p, m)
  /\ \A c \in db : c \in emitters \/ pc[Main] # "idle" \/ \E p \in Procs : Inserts(p, c)

IInv == TypeOK /\ ~doubleClose /\ Locks /\ Arguments /\ Emitters /\ Owners

\* While nobody writes, no emitter of a registry is being closed.
LEMMA NoneClosing ==
  ASSUME host = "registry", Locks, Emitters, emitters \subseteq Clients, writer = Nobody
  PROVE  \A m \in emitters : ~done[m]
  BY RegistryAssumption DEF Locks, Emitters, Life, Waits, Goroutines

\* A closed emitter still has to deliver at most a full queue and one event more.
LEMMA OwedBound ==
  ASSUME EmittersTypeOK, NEW m \in Clients
  PROVE  Len(Held(m) \o queue[m]) \in 0..QueueSize + 1
<1>1. Held(m) \in Seq(Events) /\ Len(Held(m)) \in {0, 1}
  BY DEF EmittersTypeOK, Held
<1>2. queue[m] \in Seq(Events) /\ Len(queue[m]) \in Nat /\ Len(queue[m]) <= QueueSize
  BY DEF EmittersTypeOK
<1>3. Len(Held(m) \o queue[m]) = Len(Held(m)) + Len(queue[m])
  BY <1>1, <1>2
<1>4. QueueSize \in Nat
  BY EmitterAssumption
<1>5. \A x \in {0, 1}, y, z \in Nat : y <= z => x + y \in 0..z + 1
  OBVIOUS
<1>6. Len(Held(m)) + Len(queue[m]) \in 0..QueueSize + 1
  BY <1>1, <1>2, <1>4, <1>5
<1> QED
  BY <1>3, <1>6

\* A goroutine that comes and goes without a client in hand changes no ownership.
LEMMA OwnersKept ==
  ASSUME IInv, NEW p \in Procs, NEW place \in {"idle", "offer"}, pc[p] \in {"idle", "offer"},
         pc' = [pc EXCEPT ![p] = place], UNCHANGED <<host, arg, emitters, db, overtaken>>
  PROVE  Owners'
<1>1. \A q \in Procs, m \in Clients :
        /\ Inserts(q, m) <=> Inserts(q, m)'
        /\ Removes(q, m) <=> Removes(q, m)'
  BY DEF IInv, TypeOK, Inserts, Removes, Goroutines
<1>2. pc'[Main] = pc[Main]
  BY RegistryAssumption DEF IInv, TypeOK, Goroutines
<1>3. db \subseteq Clients
  BY DEF IInv, TypeOK
<1> QED
  BY <1>1, <1>2, <1>3 DEF IInv, Owners

\* A fresh id: it has no emitter, and nobody else inserts it.
LEMMA RegisterStorePreserves ==
  ASSUME NEW p \in Procs, NEW c \in Clients, IInv, RegisterStore(p, c)
  PROVE  IInv'
<1> USE RegistryAssumption, EmitterAssumption DEF IInv, Goroutines, TypeOK, EmittersTypeOK, emitterVars, Running
<1>1. TypeOK'
  BY DEF Locks, Arguments, Emitters, Life, RegisterStore, Goto
<1>2. ~doubleClose'
  BY DEF Locks, Arguments, Emitters, Life, Waits, RegisterStore, Goto
<1>3. Locks'
  BY DEF Locks, RegisterStore, Goto
<1>4. Arguments'
  BY DEF Locks, Arguments, Emitters, Life, RegisterStore, Goto
<1>5. Emitters'
  BY DEF Locks, Arguments, Emitters, Life, Waits, RegisterStore, Goto
<1>6. Owners'
  BY DEF Locks, Arguments, Emitters, Life, Owners, Inserts, Removes, RegisterStore, Goto
<1> QED
  BY <1>1, <1>2, <1>3, <1>4, <1>5, <1>6

\* The new emitter is that of a client in the database, or of one whose removal is under way or over.
LEMMA RegisterInsertPreserves ==
  ASSUME NEW p \in Procs, IInv, RegisterInsert(p)
  PROVE  IInv'
<1> USE RegistryAssumption, EmitterAssumption DEF IInv, Goroutines, TypeOK, EmittersTypeOK, emitterVars, Running
<1>1. TypeOK'
  BY DEF Locks, Arguments, Emitters, Life, RegisterInsert, Goto, Return, CanWrite, Reading, NewWebhookEmitter
<1>2. ~doubleClose'
  BY DEF Locks, Arguments, Emitters, Life, Waits, RegisterInsert, Goto, Return, CanWrite, Reading, NewWebhookEmitter
<1>3. Locks'
  BY DEF Locks, RegisterInsert, Goto, Return, CanWrite, Reading, NewWebhookEmitter
<1>4. Arguments'
  BY DEF Locks, Arguments, Emitters, Life, RegisterInsert, Goto, Return, CanWrite, Reading, NewWebhookEmitter
<1>5. Emitters'
  BY DEF Locks, Arguments, Emitters, Life, Waits, RegisterInsert, Goto, Return, CanWrite, Reading, NewWebhookEmitter
<1>6. Owners'
  <2>1. /\ pc[p] = "insert" /\ arg[p] \in Clients
        /\ pc' = [pc EXCEPT ![p] = "idle"] /\ arg' = [arg EXCEPT ![p] = Nobody]
        /\ emitters' = emitters \cup {arg[p]} /\ UNCHANGED <<db, overtaken>>
    BY DEF RegisterInsert, Goto, Return, Arguments
  <2>2. \A q \in Procs, m \in Clients :
          /\ Inserts(q, m)' <=> Inserts(q, m) /\ q # p
          /\ Removes(q, m)' <=> Removes(q, m)
    BY <2>1 DEF Inserts, Removes
  <2>3. \A m \in Clients : Inserts(p, m) <=> m = arg[p]
    BY <2>1 DEF Inserts
  <2>4. pc'[Main] = pc[Main]
    BY <2>1
  <2>5. ASSUME NEW m \in Clients, m \in emitters' \/ \E q \in Procs : Inserts(q, m)'
        PROVE  m \in db' \cup overtaken' \/ \E q \in Procs : Removes(q, m)'
    <3>1. m \in emitters \/ \E q \in Procs : Inserts(q, m)
      BY <2>1, <2>2, <2>3, <2>5
    <3>2. m \in db \cup overtaken \/ \E q \in Procs : Removes(q, m)
      BY <3>1 DEF Owners
    <3> QED
      BY <3>2, <2>1, <2>2
  <2>6. ASSUME NEW m \in db'
        PROVE  m \in emitters' \/ pc'[Main] # "idle" \/ \E q \in Procs : Inserts(q, m)'
    <3>1. m \in db /\ m \in Clients
      BY <2>1, <2>6
    <3>2. CASE m = arg[p]
      BY <3>2, <2>1
    <3>3. CASE m # arg[p]
      BY <3>1, <3>3, <2>1, <2>2, <2>3, <2>4 DEF Owners
    <3> QED
      BY <3>2, <3>3
  <2> QED
    BY <2>5, <2>6 DEF Owners
<1> QED
  BY <1>1, <1>2, <1>3, <1>4, <1>5, <1>6

\* The client leaves the database, and the goroutine owes the removal of its emitter.
LEMMA UnregisterDeletePreserves ==
  ASSUME NEW p \in Procs, NEW c \in Clients, IInv, UnregisterDelete(p, c)
  PROVE  IInv'
<1> USE RegistryAssumption, EmitterAssumption DEF IInv, Goroutines, TypeOK, EmittersTypeOK, emitterVars, Running
<1>1. TypeOK'
  BY DEF Locks, Arguments, Emitters, Life, UnregisterDelete, Goto
<1>2. ~doubleClose'
  BY DEF Locks, Arguments, Emitters, Life, Waits, UnregisterDelete, Goto
<1>3. Locks'
  BY DEF Locks, UnregisterDelete, Goto
<1>4. Arguments'
  BY DEF Locks, Arguments, Emitters, Life, UnregisterDelete, Goto
<1>5. Emitters'
  BY DEF Locks, Arguments, Emitters, Life, Waits, UnregisterDelete, Goto
<1>6. Owners'
  <2>1. /\ pc[p] = "idle" /\ db' = db \ {c} /\ UNCHANGED <<emitters, overtaken>>
        /\ pc' = [pc EXCEPT ![p] = "remove"] /\ arg' = [arg EXCEPT ![p] = c]
    BY DEF UnregisterDelete, Goto
  <2>2. \A q \in Procs, m \in Clients :
          /\ Inserts(q, m)' <=> Inserts(q, m)
          /\ Removes(q, m)' <=> Removes(q, m) \/ (q = p /\ m = c)
    BY <2>1 DEF Inserts, Removes
  <2>3. pc'[Main] = pc[Main]
    BY <2>1
  <2> QED
    BY <2>1, <2>2, <2>3 DEF Owners
<1> QED
  BY <1>1, <1>2, <1>3, <1>4, <1>5, <1>6

\* The emitter is in the map and nobody waits for one, so it is not closed yet.
LEMMA UnregisterLockPreserves ==
  ASSUME NEW p \in Procs, IInv, UnregisterLock(p)
  PROVE  IInv'
<1> USE RegistryAssumption, EmitterAssumption DEF IInv, Goroutines, TypeOK, EmittersTypeOK, emitterVars, Running
<1>1. CASE arg[p] \in emitters
  <2>0. host = "registry"
    BY DEF UnregisterLock, Locks
  <2>1. arg[p] \in Clients /\ ~done[arg[p]]
    BY <1>1, <2>0, NoneClosing DEF UnregisterLock, CanWrite
  <2>2. Len(Held(arg[p]) \o queue[arg[p]]) \in 0..QueueSize + 1
    BY <2>1, OwedBound
  <2>3. /\ pc[p] = "remove" /\ writer = Nobody /\ Reading = {} /\ writer' = p
        /\ done' = [done EXCEPT ![arg[p]] = TRUE]
        /\ owed' = [owed EXCEPT ![arg[p]] = Len(Held(arg[p]) \o queue[arg[p]])]
        /\ arg' = [arg EXCEPT ![p] = arg[p]] /\ pc' = [pc EXCEPT ![p] = "removeWait"]
        /\ doubleClose' = (doubleClose \/ done[arg[p]])
        /\ UNCHANGED <<host, queue, worker, job, overtaken, db, emitters, left, event, emitted,
                       used, closed, restarts>>
    BY <1>1 DEF UnregisterLock, CanWrite, CloseEmitter, CloseDone, Goto
  <2>4. TypeOK'
    BY <2>1, <2>2, <2>3
  <2>5. ~doubleClose'
    BY <2>1, <2>3
  <2>6. Locks'
    BY <2>0, <2>3 DEF Locks, Reading
  <2>7. Arguments'
    BY <1>1, <2>0, <2>1, <2>3 DEF Locks, Arguments, Emitters, Life
  <2>8. Emitters'
    <3>1. Waits(p, arg[p])'
      BY <2>3 DEF Waits
    <3>2. \A m \in emitters : ~done[m]
      BY <2>0, <2>3, NoneClosing
    <3> QED
      <4> SUFFICES ASSUME NEW m \in Clients PROVE Life(m)'
        BY DEF Emitters, Life
      <4>1. CASE m = arg[p]
        BY <4>1, <1>1, <2>0, <2>1, <2>3, <3>1 DEF Emitters, Life
      <4>2. CASE m # arg[p]
        BY <4>2, <2>0, <2>1, <2>3, <3>2 DEF Emitters, Life
      <4> QED
        BY <4>1, <4>2
  <2>9. Owners'
    BY <2>3 DEF Owners, Inserts, Removes
  <2> QED
    BY <2>4, <2>5, <2>6, <2>7, <2>8, <2>9
<1>2. CASE arg[p] \notin emitters
  <2>1. arg[p] \in used \ db
    BY DEF UnregisterLock, Arguments
  <2>2. /\ pc[p] = "remove" /\ writer = Nobody
        /\ pc' = [pc EXCEPT ![p] = "idle"] /\ arg' = [arg EXCEPT ![p] = Nobody]
        /\ overtaken' = overtaken \cup {arg[p]}
        /\ UNCHANGED <<host, queue, done, worker, job, owed, writer, doubleClose, db, emitters,
                       left, event, emitted, used, closed, restarts>>
    BY <1>2 DEF UnregisterLock, CanWrite, Goto, Return
  <2>3. TypeOK'
    BY <2>1, <2>2
  <2>4. ~doubleClose' /\ Locks'
    BY <2>2 DEF Locks
  <2>5. Arguments'
    BY <2>2 DEF Arguments
  <2>6. Emitters'
    BY <2>2 DEF Emitters, Life, Waits
  <2>7. Owners'
    <3>1. \A q \in Procs, m \in Clients :
            /\ Inserts(q, m)' <=> Inserts(q, m)
            /\ Removes(q, m) => Removes(q, m)' \/ m \in overtaken'
      BY <2>2 DEF Inserts, Removes
    <3>2. pc'[Main] = pc[Main]
      BY <2>2
    <3> QED
      BY <2>2, <3>1, <3>2 DEF Owners
  <2> QED
    BY <2>3, <2>4, <2>5, <2>6, <2>7
<1> QED
  BY <1>1, <1>2

\* The writer takes an emitter that has returned out of the map.
LEMMA UnregisterFinishPreserves ==
  ASSUME NEW p \in Procs, IInv, UnregisterFinish(p)
  PROVE  IInv'
<1> USE RegistryAssumption, EmitterAssumption DEF IInv, Goroutines, TypeOK, EmittersTypeOK, emitterVars, Running
<1>1. TypeOK'
  BY DEF Locks, Arguments, Emitters, Life, UnregisterFinish, Goto, Return
<1>2. ~doubleClose'
  BY DEF Locks, Arguments, Emitters, Life, Waits, UnregisterFinish, Goto, Return
<1>3. Locks'
  BY DEF Locks, UnregisterFinish, Goto, Return
<1>4. Arguments'
  <2>1. /\ pc[p] = "removeWait" /\ emitters' = emitters \ {arg[p]}
        /\ pc' = [pc EXCEPT ![p] = "idle"] /\ arg' = [arg EXCEPT ![p] = Nobody]
        /\ UNCHANGED <<host, left, used, db, worker, done>>
    BY DEF UnregisterFinish, Goto, Return
  <2>2. host = "registry" /\ writer = p
    BY <2>1 DEF Locks
  <2>3. \A q \in Procs : pc[q] # "offer" /\ left[q] = {}
    BY <2>2 DEF Locks, Arguments
  <2>4. \A q \in Goroutines \ {p} : pc[q] \notin {"removeWait", "closeWait"}
    BY <2>2 DEF Locks
  <2> QED
    BY <2>1, <2>2, <2>3, <2>4 DEF Arguments
<1>5. Emitters'
  BY DEF Locks, Arguments, Emitters, Life, Waits, UnregisterFinish, Goto, Return
<1>6. Owners'
  <2>1. /\ pc[p] = "removeWait" /\ emitters' = emitters \ {arg[p]}
        /\ pc' = [pc EXCEPT ![p] = "idle"] /\ arg' = [arg EXCEPT ![p] = Nobody]
        /\ UNCHANGED <<db, overtaken>> /\ arg[p] \in emitters /\ arg[p] \notin db
    BY DEF UnregisterFinish, Goto, Return, Arguments
  <2>2. \A q \in Procs, m \in Clients :
          /\ Inserts(q, m)' <=> Inserts(q, m)
          /\ Inserts(q, m) => m # arg[p]
          /\ Removes(q, m) => Removes(q, m)' \/ m = arg[p]
    BY <2>1 DEF Inserts, Removes, Arguments
  <2>3. pc'[Main] = pc[Main]
    BY <2>1
  <2> QED
    BY <2>1, <2>2, <2>3 DEF Owners
<1> QED
  BY <1>1, <1>2, <1>3, <1>4, <1>5, <1>6

\* The emitters to be visited are those of the map.
LEMMA EmitLockPreserves ==
  ASSUME NEW p \in Procs, IInv, EmitLock(p)
  PROVE  IInv'
<1> USE RegistryAssumption, EmitterAssumption DEF IInv, Goroutines, TypeOK, EmittersTypeOK, emitterVars, Running
<1>1. TypeOK'
  BY DEF Locks, Arguments, Emitters, Life, EmitLock, Goto, CanRead, Offered
<1>2. ~doubleClose'
  BY DEF Locks, Arguments, Emitters, Life, Waits, EmitLock, Goto, CanRead
<1>3. Locks'
  BY DEF Locks, EmitLock, Goto, CanRead
<1>4. Arguments'
  BY DEF Locks, Arguments, Emitters, Life, EmitLock, Goto, CanRead, Offered
<1>5. Emitters'
  BY DEF Locks, Arguments, Emitters, Life, Waits, EmitLock, Goto, CanRead
<1>6. Owners'
  BY OwnersKept DEF EmitLock, Goto
<1> QED
  BY <1>1, <1>2, <1>3, <1>4, <1>5, <1>6

\* A reader of a registry finds no emitter that is being closed; an emitter of a server
\* was made, closed or not.
LEMMA EmitOnePreserves ==
  ASSUME NEW p \in Procs, NEW c \in Clients, IInv, EmitOne(p, c)
  PROVE  IInv'
<1> USE RegistryAssumption, EmitterAssumption DEF IInv, Goroutines, TypeOK, EmittersTypeOK, emitterVars, Running
<1>1. TypeOK'
  BY DEF Locks, Arguments, Emitters, Life, EmitOne, Emit
<1>2. ~doubleClose'
  BY DEF Locks, Arguments, Emitters, Life, Waits, EmitOne, Emit
<1>3. Locks'
  BY DEF Locks, EmitOne, Emit
<1>4. Arguments'
  BY DEF Locks, Arguments, Emitters, Life, EmitOne, Emit
<1>5. Emitters'
  <2>1. worker[c] # "none"
    BY DEF EmitOne, Emitters, Life, Arguments
  <2>2. host = "registry" => worker[c] # "exit"
    <3> SUFFICES ASSUME host = "registry" PROVE worker[c] # "exit"
      OBVIOUS
    <3>1. c \in emitters /\ c \in Clients /\ writer = Nobody
      BY DEF EmitOne, Locks, Arguments
    <3>2. ~done[c]
      BY <3>1, NoneClosing
    <3> QED
      BY <3>1, <3>2 DEF Emitters, Life
  <2>3. \A q \in Goroutines, m \in Clients : Waits(q, m) <=> Waits(q, m)'
    BY DEF EmitOne, Waits
  <2>4. UNCHANGED <<host, worker, emitters, used, done>>
        /\ (\A m \in Clients \ {c} : queue'[m] = queue[m])
    BY DEF EmitOne, Emit
  <2> SUFFICES ASSUME NEW m \in Clients PROVE Life(m)'
    BY DEF Emitters
  <2>5. CASE m = c
    BY <2>1, <2>2, <2>3, <2>4, <2>5 DEF Emitters, Life
  <2>6. CASE m # c
    BY <2>3, <2>4, <2>6 DEF Emitters, Life
  <2> QED
    BY <2>5, <2>6
<1>6. Owners'
  BY DEF Locks, Arguments, Emitters, Life, Owners, Inserts, Removes, EmitOne, Emit
<1> QED
  BY <1>1, <1>2, <1>3, <1>4, <1>5, <1>6

\* The reader leaves.
LEMMA EmitUnlockPreserves ==
  ASSUME NEW p \in Procs, IInv, EmitUnlock(p)
  PROVE  IInv'
<1> USE RegistryAssumption, EmitterAssumption DEF IInv, Goroutines, TypeOK, EmittersTypeOK, emitterVars, Running
<1>1. TypeOK'
  BY DEF Locks, Arguments, Emitters, Life, EmitUnlock, Goto
<1>2. ~doubleClose'
  BY DEF Locks, Arguments, Emitters, Life, Waits, EmitUnlock, Goto
<1>3. Locks'
  BY DEF Locks, EmitUnlock, Goto
<1>4. Arguments'
  BY DEF Locks, Arguments, Emitters, Life, EmitUnlock, Goto
<1>5. Emitters'
  BY DEF Locks, Arguments, Emitters, Life, Waits, EmitUnlock, Goto
<1>6. Owners'
  BY OwnersKept DEF EmitUnlock, Goto
<1> QED
  BY <1>1, <1>2, <1>3, <1>4, <1>5, <1>6

\* Main becomes the writer.
LEMMA CloseLockPreserves ==
  ASSUME IInv, CloseLock
  PROVE  IInv'
<1> USE RegistryAssumption, EmitterAssumption DEF IInv, Goroutines, TypeOK, EmittersTypeOK, emitterVars, Running
<1>1. TypeOK'
  BY DEF Locks, Arguments, Emitters, Life, CloseLock, Goto, CanWrite, Reading
<1>2. ~doubleClose'
  BY DEF Locks, Arguments, Emitters, Life, Waits, CloseLock, Goto, CanWrite, Reading
<1>3. Locks'
  BY DEF Locks, CloseLock, Goto, CanWrite, Reading
<1>4. Arguments'
  BY DEF Locks, Arguments, Emitters, Life, CloseLock, Goto, CanWrite, Reading
<1>5. Emitters'
  BY DEF Locks, Arguments, Emitters, Life, Waits, CloseLock, Goto, CanWrite, Reading
<1>6. Owners'
  BY DEF Locks, Arguments, Emitters, Life, Owners, Inserts, Removes, CloseLock, Goto, CanWrite, Reading
<1> QED
  BY <1>1, <1>2, <1>3, <1>4, <1>5, <1>6

\* Main is the writer and waits for no emitter, so this one is not closed yet.
LEMMA CloseNextPreserves ==
  ASSUME NEW c \in Clients, IInv, CloseNext(c)
  PROVE  IInv'
<1> USE RegistryAssumption, EmitterAssumption DEF IInv, Goroutines, TypeOK, EmittersTypeOK, emitterVars, Running
<1>1. TypeOK'
  BY DEF Locks, Arguments, Emitters, Life, CloseNext, Goto, CloseEmitter, CloseDone, Held
<1>2. ~doubleClose'
  <2>1. pc[Main] = "close" /\ c \in emitters /\ doubleClose' = (doubleClose \/ done[c])
    BY DEF CloseNext, CloseEmitter
  <2>2. \A q \in Goroutines : ~Waits(q, c)
    BY <2>1 DEF Locks, Waits
  <2> QED
    BY <2>1, <2>2 DEF Emitters, Life
<1>3. Locks'
  BY DEF Locks, CloseNext, Goto, CloseEmitter, CloseDone, Held
<1>4. Arguments'
  BY DEF Locks, Arguments, Emitters, Life, CloseNext, Goto, CloseEmitter, CloseDone, Held
<1>5. Emitters'
  <2>1. /\ pc[Main] = "close" /\ c \in emitters /\ host' = host
        /\ pc' = [pc EXCEPT ![Main] = "closeWait"] /\ arg' = [arg EXCEPT ![Main] = c]
        /\ done' = [done EXCEPT ![c] = TRUE]
        /\ UNCHANGED <<emitters, used, queue, worker>>
    BY DEF CloseNext, CloseEmitter, CloseDone, Goto
  <2>2. \A q \in Goroutines, m \in Clients : ~Waits(q, m)
    BY <2>1 DEF Locks, Waits
  <2>3. Waits(Main, c)'
    BY <2>1 DEF Waits
  <2> SUFFICES ASSUME NEW m \in Clients PROVE Life(m)'
    BY DEF Emitters
  <2>4. CASE m = c
    BY <2>4, <2>1, <2>2, <2>3 DEF Emitters, Life
  <2>5. CASE m # c
    BY <2>5, <2>1, <2>2 DEF Emitters, Life
  <2> QED
    BY <2>4, <2>5
<1>6. Owners'
  BY DEF Locks, Arguments, Emitters, Life, Owners, Inserts, Removes, CloseNext, Goto, CloseEmitter, CloseDone, Held
<1> QED
  BY <1>1, <1>2, <1>3, <1>4, <1>5, <1>6

\* An emitter that has returned leaves the map.
LEMMA CloseOnePreserves ==
  ASSUME IInv, CloseOne
  PROVE  IInv'
<1> USE RegistryAssumption, EmitterAssumption DEF IInv, Goroutines, TypeOK, EmittersTypeOK, emitterVars, Running
<1>1. TypeOK'
  BY DEF Locks, Arguments, Emitters, Life, CloseOne, Goto
<1>2. ~doubleClose'
  BY DEF Locks, Arguments, Emitters, Life, Waits, CloseOne, Goto
<1>3. Locks'
  BY DEF Locks, CloseOne, Goto
<1>4. Arguments'
  BY DEF Locks, Arguments, Emitters, Life, CloseOne, Goto
<1>5. Emitters'
  BY DEF Locks, Arguments, Emitters, Life, Waits, CloseOne, Goto
<1>6. Owners'
  BY DEF Locks, Arguments, Emitters, Life, Owners, Inserts, Removes, CloseOne, Goto
<1> QED
  BY <1>1, <1>2, <1>3, <1>4, <1>5, <1>6

\* The map is empty.
LEMMA CloseUnlockPreserves ==
  ASSUME IInv, CloseUnlock
  PROVE  IInv'
<1> USE RegistryAssumption, EmitterAssumption DEF IInv, Goroutines, TypeOK, EmittersTypeOK, emitterVars, Running
<1>1. TypeOK'
  BY DEF Locks, Arguments, Emitters, Life, CloseUnlock, Goto
<1>2. ~doubleClose'
  BY DEF Locks, Arguments, Emitters, Life, Waits, CloseUnlock, Goto
<1>3. Locks'
  BY DEF Locks, CloseUnlock, Goto
<1>4. Arguments'
  BY DEF Locks, Arguments, Emitters, Life, CloseUnlock, Goto
<1>5. Emitters'
  BY DEF Locks, Arguments, Emitters, Life, Waits, CloseUnlock, Goto
<1>6. Owners'
  <2>1. \A q \in Procs, m \in Clients :
          (Inserts(q, m) <=> Inserts(q, m)') /\ (Removes(q, m) <=> Removes(q, m)')
    BY DEF CloseUnlock, Goto, Inserts, Removes
  <2> QED
    BY <2>1 DEF Owners, CloseUnlock, Goto
<1> QED
  BY <1>1, <1>2, <1>3, <1>4, <1>5, <1>6

\* Every registration has a new emitter.
LEMMA NewClientRegistryPreserves ==
  ASSUME IInv, NewClientRegistry
  PROVE  IInv'
<1> USE RegistryAssumption, EmitterAssumption DEF IInv, Goroutines, TypeOK, EmittersTypeOK, emitterVars, Running
<1>1. TypeOK'
  <2>1. db \subseteq Clients /\ db \subseteq used /\ restarts + 1 \in 0..MaxRestarts
    BY DEF NewClientRegistry
  <2>2. EmittersTypeOK'
    BY <2>1 DEF NewClientRegistry, NewEmitters
  <2> QED
    BY <2>1, <2>2 DEF NewClientRegistry
<1>2. ~doubleClose'
  BY DEF Locks, Arguments, Emitters, Life, Waits, NewClientRegistry, NewEmitters
<1>3. Locks'
  BY DEF Locks, NewClientRegistry, NewEmitters
<1>4. Arguments'
  BY DEF Locks, Arguments, Emitters, Life, NewClientRegistry, NewEmitters
<1>5. Emitters'
  BY DEF Locks, Arguments, Emitters, Life, Waits, NewClientRegistry, NewEmitters
<1>6. Owners'
  BY DEF Locks, Arguments, Emitters, Life, Owners, Inserts, Removes, NewClientRegistry, NewEmitters
<1> QED
  BY <1>1, <1>2, <1>3, <1>4, <1>5, <1>6

\* The registry's part of the invariant, when a worker takes a step: only workers that
\* run do, and none of them is an emitter that is yet to be made.
LEMMA WorkerLeavesRegistry ==
  ASSUME NEW m \in Clients, IInv, UNCHANGED registryVars, UNCHANGED done,
         NEW w \in {"select", "drain", "exit"}, Running(m), worker' = [worker EXCEPT ![m] = w]
  PROVE  ~doubleClose' /\ Locks' /\ Arguments' /\ Owners'
<1> USE DEF IInv, registryVars, Running
<1>1. ~doubleClose' /\ Locks'
  BY DEF Locks
<1>2. Arguments'
  BY DEF Arguments, TypeOK, EmittersTypeOK
<1>3. Owners'
  BY DEF Owners, Inserts, Removes
<1> QED
  BY <1>1, <1>2, <1>3

\* The worker's steps: what it leaves behind when it returns is nothing.
LEMMA WorkPreserves ==
  ASSUME NEW m \in Clients, IInv, Work(m), UNCHANGED registryVars
  PROVE  IInv'
<1> USE EmitterAssumption, RegistryAssumption DEF registryVars, Running
<1>1. CASE Receive(m)
  <2>1. worker' = [worker EXCEPT ![m] = worker[m]] /\ UNCHANGED done /\ Running(m)
    BY <1>1 DEF Receive, IInv, TypeOK, EmittersTypeOK
  <2>2. ~doubleClose' /\ Locks' /\ Arguments' /\ Owners'
    BY <2>1, WorkerLeavesRegistry
  <2>3. Head(queue[m]) \in Events /\ Tail(queue[m]) \in Seq(Events)
        /\ Len(Tail(queue[m])) <= QueueSize
    BY <1>1 DEF Receive, IInv, TypeOK, EmittersTypeOK
  <2>4. TypeOK'
    BY <1>1, <2>3 DEF Receive, IInv, TypeOK, EmittersTypeOK
  <2>5. Emitters'
    BY <1>1 DEF Receive, IInv, TypeOK, EmittersTypeOK, Emitters, Life, Waits
  <2> QED
    BY <2>2, <2>4, <2>5 DEF IInv
<1>2. CASE SeeDone(m)
  <2>1. worker' = [worker EXCEPT ![m] = "drain"] /\ UNCHANGED done /\ Running(m)
    BY <1>2 DEF SeeDone
  <2>2. ~doubleClose' /\ Locks' /\ Arguments' /\ Owners'
    BY <2>1, WorkerLeavesRegistry
  <2>3. TypeOK'
    BY <1>2 DEF SeeDone, IInv, TypeOK, EmittersTypeOK
  <2>4. Emitters'
    BY <1>2 DEF SeeDone, IInv, TypeOK, EmittersTypeOK, Emitters, Life, Waits
  <2> QED
    BY <2>2, <2>3, <2>4 DEF IInv
<1>3. CASE Drained(m)
  <2>1. worker' = [worker EXCEPT ![m] = "exit"] /\ UNCHANGED done /\ Running(m)
    BY <1>3 DEF Drained
  <2>2. ~doubleClose' /\ Locks' /\ Arguments' /\ Owners'
    BY <2>1, WorkerLeavesRegistry
  <2>3. TypeOK'
    BY <1>3 DEF Drained, IInv, TypeOK, EmittersTypeOK
  <2>4. Emitters'
    BY <1>3 DEF Drained, IInv, TypeOK, EmittersTypeOK, Emitters, Life, Waits
  <2> QED
    BY <2>2, <2>3, <2>4 DEF IInv
<1>4. CASE AttemptAgain(m)
  <2>1. worker' = [worker EXCEPT ![m] = worker[m]] /\ UNCHANGED done /\ Running(m)
    BY <1>4 DEF AttemptAgain, IInv, TypeOK, EmittersTypeOK
  <2>2. ~doubleClose' /\ Locks' /\ Arguments' /\ Owners'
    BY <2>1, WorkerLeavesRegistry
  <2>3. TypeOK'
    <3>1. job[m] \in [event: Events, tries: 0..Attempts - 1]
      BY <1>4 DEF AttemptAgain, IInv, TypeOK, EmittersTypeOK
    <3>2. [job[m] EXCEPT !.tries = @ + 1] \in [event: Events, tries: 0..Attempts - 1]
      BY <1>4, <3>1 DEF AttemptAgain
    <3>3. job' = [job EXCEPT ![m] = [job[m] EXCEPT !.tries = @ + 1]]
      BY <1>4 DEF AttemptAgain
    <3>4. UNCHANGED <<queue, done, worker, owed>> /\ Running(m)
      BY <1>4, <2>1 DEF AttemptAgain
    <3>5. job' \in [Clients -> [event: Events, tries: 0..Attempts - 1] \cup {None}]
      BY <3>2, <3>3 DEF IInv, TypeOK, EmittersTypeOK
    <3>6. \A c \in Clients : job'[c] # None => Running(c)
      BY <3>3, <3>4 DEF IInv, TypeOK, EmittersTypeOK
    <3>7. EmittersTypeOK'
      BY <3>4, <3>5, <3>6 DEF IInv, TypeOK, EmittersTypeOK
    <3> QED
      BY <3>7 DEF IInv, TypeOK
  <2>4. Emitters'
    BY <1>4 DEF AttemptAgain, IInv, TypeOK, EmittersTypeOK, Emitters, Life, Waits
  <2> QED
    BY <2>2, <2>3, <2>4 DEF IInv
<1>5. CASE AttemptLast(m)
  <2>1. worker' = [worker EXCEPT ![m] = worker[m]] /\ UNCHANGED done /\ Running(m)
    BY <1>5 DEF AttemptLast, IInv, TypeOK, EmittersTypeOK
  <2>2. ~doubleClose' /\ Locks' /\ Arguments' /\ Owners'
    BY <2>1, WorkerLeavesRegistry
  <2>3. TypeOK'
    BY <1>5, <2>1 DEF AttemptLast, IInv, TypeOK, EmittersTypeOK
  <2>4. Emitters'
    BY <1>5 DEF AttemptLast, IInv, TypeOK, EmittersTypeOK, Emitters, Life, Waits
  <2> QED
    BY <2>2, <2>3, <2>4 DEF IInv
<1> QED
  BY <1>1, <1>2, <1>3, <1>4, <1>5 DEF Work

\* A new server, or one with the registrations of an earlier one.
LEMMA InitHolds == Init => IInv
<1> SUFFICES ASSUME Init PROVE IInv
  OBVIOUS
<1> USE RegistryAssumption, EmitterAssumption DEF Init, InitEmitters, Goroutines
<1>1. TypeOK
  <2>1. db \subseteq Clients
    OBVIOUS
  <2>2. queue \in [Clients -> Seq(Events)] /\ \A m \in Clients : Len(queue[m]) <= QueueSize
    <3>1. <<>> \in Seq(Events) /\ Len(<<>>) = 0
      OBVIOUS
    <3> QED
      BY <3>1
  <2>3. /\ done \in [Clients -> BOOLEAN]
        /\ worker \in [Clients -> {"none", "select", "drain", "exit"}]
        /\ job \in [Clients -> [event: Events, tries: 0..Attempts - 1] \cup {None}]
        /\ \A m \in Clients : job[m] = None
    OBVIOUS
  <2>4. owed \in [Clients -> 0..QueueSize + 1]
    OBVIOUS
  <2>5. EmittersTypeOK
    BY <2>2, <2>3, <2>4 DEF EmittersTypeOK
  <2>6. /\ emitters = db /\ used = db /\ overtaken = {} /\ writer = Nobody
        /\ pc \in [Goroutines -> {"idle"}] /\ arg \in [Goroutines -> {Nobody}]
    OBVIOUS
  <2>7. left \in [Procs -> SUBSET used] /\ event \in [Procs -> {0}] /\ emitted = 0
    OBVIOUS
  <2>8. closed \in BOOLEAN /\ doubleClose \in BOOLEAN /\ restarts \in 0..MaxRestarts
    <3>1. restarts = 0 /\ 0 \in 0..MaxRestarts
      OBVIOUS
    <3>2. closed = FALSE /\ doubleClose = FALSE
      BY Zenon
    <3> QED
      BY <3>1, <3>2
  <2>9. /\ pc \in [Goroutines -> {"idle", "insert", "remove", "removeWait", "offer",
                                  "close", "closeWait", "end"}]
        /\ arg \in [Goroutines -> Clients \cup {Nobody}]
        /\ event \in [Procs -> Events \cup {0}] /\ emitted \in Events \cup {0}
    BY <2>6, <2>7
  <2>10. host \in {"registry", "server"}
    OBVIOUS
  <2> HIDE DEF Init, InitEmitters
  <2> QED
    BY <2>1, <2>4, <2>5, <2>6, <2>7, <2>8, <2>9, <2>10 DEF TypeOK
<1>2. ~doubleClose /\ Locks /\ Arguments
  BY DEF Locks, Arguments
<1>3. Emitters
  BY DEF Emitters, Life
<1>4. Owners
  BY DEF Owners, Inserts
<1> QED
  BY <1>1, <1>2, <1>3, <1>4 DEF IInv

\* Every step keeps the invariant.
LEMMA StepPreserves == IInv /\ [Next]_vars => IInv'
<1> SUFFICES ASSUME IInv, [Next]_vars PROVE IInv'
  OBVIOUS
<1>1. ASSUME NEW p \in Procs, HandleClients(p) \/ EmitLock(p) \/ Progress(p) PROVE IInv'
  BY <1>1, RegisterStorePreserves, UnregisterDeletePreserves, EmitLockPreserves,
     RegisterInsertPreserves, UnregisterLockPreserves, UnregisterFinishPreserves,
     EmitUnlockPreserves, EmitOnePreserves DEF HandleClients, Progress
<1>2. CASE Close
  BY <1>2, CloseLockPreserves, CloseNextPreserves, CloseOnePreserves, CloseUnlockPreserves
     DEF Close
<1>3. CASE WorkerStep
  BY <1>3, WorkPreserves DEF WorkerStep
<1>4. CASE NewClientRegistry
  BY <1>4, NewClientRegistryPreserves
<1>5. CASE UNCHANGED vars
  <2>1. UNCHANGED <<host, queue, done, worker, job, owed, db, emitters, writer, pc, arg, left, event,
                    emitted, used, overtaken, closed, doubleClose, restarts>>
    BY <1>5 DEF vars, emitterVars, registryVars
  <2>2. TypeOK'
    BY <2>1 DEF IInv, TypeOK, EmittersTypeOK, Running
  <2>3. ~doubleClose' /\ Locks' /\ Arguments'
    BY <2>1 DEF IInv, Locks, Arguments
  <2>4. Emitters' /\ Owners'
    BY <2>1 DEF IInv, Emitters, Life, Waits, Owners, Inserts, Removes
  <2> QED
    BY <2>2, <2>3, <2>4 DEF IInv
<1> QED
  BY <1>1, <1>2, <1>3, <1>4, <1>5 DEF Next

\* The inductive invariant holds throughout.
THEOREM Invariance == Spec => []IInv
<1> QED
  BY InitHolds, StepPreserves, PTL DEF Spec

\* Every variable of the emitters and the registry keeps its type: queues hold no more
\* than QueueSize events, and an event is tried no more than Attempts times.
THEOREM TypeCorrect == Spec => []TypeOK
<1>1. IInv => TypeOK
  BY DEF IInv
<1> QED
  BY <1>1, Invariance, PTL

\* No emitter is closed twice, whatever Unregister and Close overlap.
THEOREM ClosesOnce == Spec => []ClosedOnce
<1>1. IInv => ClosedOnce
  BY DEF IInv, ClosedOnce
<1> QED
  BY <1>1, Invariance, PTL

\* The map and the database agree up to the steps in progress.
THEOREM MapAgrees == Spec => []MapMatchesDatabase
<1>1. IInv => MapMatchesDatabase
  <2> SUFFICES ASSUME IInv PROVE MapMatchesDatabase
    OBVIOUS
  <2>1. ASSUME NEW c \in db
        PROVE  \/ c \in emitters /\ Running(c)
               \/ pc[Main] # "idle"
               \/ \E p \in Procs : pc[p] = "insert" /\ arg[p] = c
    <3>1. CASE c \in emitters /\ pc[Main] = "idle"
      <4>1. c \in Clients /\ c \in used
        BY DEF IInv, TypeOK
      <4>2. \A p \in Goroutines : ~Waits(p, c)
        BY <3>1 DEF IInv, Locks, Arguments, Waits, Goroutines
      <4>3. worker[c] = "select"
        BY <3>1, <4>1, <4>2 DEF IInv, TypeOK, EmittersTypeOK, Emitters, Life
      <4> QED
        BY <3>1, <4>3 DEF Running
    <3> QED
      BY <3>1 DEF IInv, Owners, Inserts
  <2>2. ASSUME NEW m \in Clients, Running(m)
        PROVE  m \in emitters
               /\ (m \in db \cup overtaken
                   \/ \E p \in Procs : pc[p] \in {"remove", "removeWait"} /\ arg[p] = m)
    <3>1. m \in emitters
      BY <2>2 DEF IInv, Emitters, Life, Running
    <3> QED
      BY <3>1 DEF IInv, Owners, Removes
  <2> QED
    BY <2>1, <2>2 DEF MapMatchesDatabase
<1> QED
  BY <1>1, Invariance, PTL

----------------------------------------------------------------------------

\* The channels of the clients, as the emitters show them.
Pending == [m \in Clients |-> Coming(m)]
Tries == [m \in Clients |-> IF job[m] = None THEN 0 ELSE job[m].tries]
State == [m \in Clients |-> ChannelState(m)]

\* What was accepted before Close and is not delivered is still to come.
OwedHeld == \A m \in Clients : owed[m] <= Len(Coming(m))

RInv == IInv /\ OwedHeld

\* What joins the back of the queue joins the back of what is to come.
LEMMA AppendLast ==
  ASSUME NEW S, NEW s \in Seq(S), NEW t \in Seq(S), NEW e \in S
  PROVE  s \o Append(t, e) = Append(s \o t, e)
<1>1. s \o t \in Seq(S) /\ <<e>> \in Seq(S)
  BY ConcatProperties
<1>2. Append(t, e) = t \o <<e>> /\ Append(s \o t, e) = (s \o t) \o <<e>>
  BY <1>1, AppendIsConcat
<1>3. (s \o t) \o <<e>> = s \o (t \o <<e>>)
  BY <1>1, ConcatAssociative
<1> QED
  BY <1>2, <1>3

\* A sequence is its head and what follows.
LEMMA HeadThenTail ==
  ASSUME NEW S, NEW s \in Seq(S), s # <<>>
  PROVE  <<Head(s)>> \o Tail(s) = s
<1>1. Len(s) \in Nat \ {0}
  BY EmptySeq
<1>2. Head(s) = s[1] /\ Tail(s) = SubSeq(s, 2, Len(s))
  BY TailIsSubSeq
<1>3. SubSeq(s, 1, Len(s)) = <<s[1]>> \o SubSeq(s, 2, Len(s))
  BY <1>1, SubSeqRecursiveFirst
<1> QED
  BY <1>2, <1>3, SubSeqFull

\* What a client has coming, by what its worker delivers.
LEMMA PendingFacts ==
  ASSUME EmittersTypeOK, NEW m \in Clients
  PROVE  /\ Pending[m] \in Seq(Events) /\ Len(Pending[m]) \in Nat
         /\ Held(m) \in Seq(Events) /\ queue[m] \in Seq(Events)
         /\ worker[m] = "exit" => Pending[m] = <<>>
         /\ worker[m] # "exit" => Pending[m] = Held(m) \o queue[m]
         /\ job[m] = None /\ worker[m] # "exit" => Held(m) = <<>> /\ Pending[m] = queue[m]
         /\ job[m] # None =>
              /\ Held(m) = <<job[m].event>> /\ Pending[m] # <<>>
              /\ Tail(Pending[m]) = queue[m]
              /\ Len(Pending[m]) = Len(queue[m]) + 1
<1>1. queue[m] \in Seq(Events) /\ Held(m) \in Seq(Events)
  BY DEF EmittersTypeOK, Held
<1>2. /\ worker[m] = "exit" => Pending[m] = <<>>
      /\ worker[m] # "exit" => Pending[m] = Held(m) \o queue[m]
  BY DEF Pending, Coming
<1>3. Pending[m] \in Seq(Events) /\ Len(Pending[m]) \in Nat
  <2>1. <<>> \in Seq(Events)
    OBVIOUS
  <2>2. Held(m) \o queue[m] \in Seq(Events)
    BY <1>1, ConcatProperties
  <2> QED
    BY <1>2, <2>1, <2>2, LenProperties
<1>4. ASSUME job[m] = None, worker[m] # "exit" PROVE Held(m) = <<>> /\ Pending[m] = queue[m]
  BY <1>1, <1>2, <1>4, ConcatEmptySeq DEF Held
<1>5. ASSUME job[m] # None
      PROVE  /\ Held(m) = <<job[m].event>> /\ Pending[m] # <<>>
             /\ Tail(Pending[m]) = queue[m]
             /\ Len(Pending[m]) = Len(queue[m]) + 1
  <2>0. Pending[m] = Held(m) \o queue[m]
    BY <1>2, <1>5 DEF EmittersTypeOK, Running
  <2>1. Held(m) = <<job[m].event>>
    BY <1>5 DEF Held
  <2>2. Len(Held(m)) = 1 /\ Len(queue[m]) \in Nat
    BY <1>1, <2>1, LenProperties
  <2>3. /\ Len(Pending[m]) = 1 + Len(queue[m]) /\ Len(Pending[m]) = Len(queue[m]) + 1
        /\ \A i \in 1..1 + Len(queue[m]) :
             Pending[m][i] = IF i <= 1 THEN Held(m)[i] ELSE queue[m][i - 1]
    <3>1. /\ Len(Held(m) \o queue[m]) = Len(Held(m)) + Len(queue[m])
          /\ \A i \in 1..Len(Held(m)) + Len(queue[m]) :
               (Held(m) \o queue[m])[i] = IF i <= Len(Held(m)) THEN Held(m)[i]
                                          ELSE queue[m][i - Len(Held(m))]
      BY <1>1, ConcatProperties, Zenon
    <3> QED
      BY <2>0, <2>2, <3>1
  <2>4. Pending[m] # <<>>
    BY <1>3, <2>2, <2>3
  <2>5. /\ Tail(Pending[m]) \in Seq(Events) /\ Len(Tail(Pending[m])) = Len(queue[m])
        /\ \A i \in 1..Len(queue[m]) : Tail(Pending[m])[i] = Pending[m][i + 1]
    BY <1>3, <2>2, <2>3, <2>4, HeadTailProperties
  <2>6. \A i \in 1..Len(queue[m]) : Tail(Pending[m])[i] = queue[m][i]
    BY <2>2, <2>3, <2>5
  <2>7. Tail(Pending[m]) = queue[m]
    BY <1>1, <2>5, <2>6, SeqEqual
  <2> QED
    BY <2>1, <2>3, <2>4, <2>7, Zenon
<1> QED
  BY <1>1, <1>2, <1>3, <1>4, <1>5

\* A step of one emitter leaves the channels of the others alone.
LEMMA OneChannel ==
  ASSUME NEW m \in Clients,
         \A x \in Clients \ {m} : /\ queue'[x] = queue[x] /\ job'[x] = job[x]
                                  /\ worker'[x] = worker[x] /\ done'[x] = done[x]
  PROVE  /\ Pending' = [Pending EXCEPT ![m] = Pending'[m]]
         /\ Tries' = [Tries EXCEPT ![m] = Tries'[m]]
         /\ State' = [State EXCEPT ![m] = State'[m]]
<1>1. Pending' = [Pending EXCEPT ![m] = Pending'[m]]
  BY DEF Pending, Coming, Held
<1>2. Tries' = [Tries EXCEPT ![m] = Tries'[m]]
  BY DEF Tries
<1>3. State' = [State EXCEPT ![m] = State'[m]]
  BY DEF State, ChannelState
<1> QED
  BY <1>1, <1>2, <1>3

\* The same of what is owed: if one emitter moves, it is the one to look at.
LEMMA OneOwes ==
  ASSUME OwedHeld, NEW m \in Clients,
         \A x \in Clients \ {m} : /\ queue'[x] = queue[x] /\ job'[x] = job[x]
                                  /\ owed'[x] = owed[x] /\ worker'[x] = worker[x],
         owed'[m] <= Len(Pending'[m])
  PROVE  OwedHeld'
<1>1. \A x \in Clients : Pending'[x] = Coming(x)'
  BY DEF Pending
<1>2. \A x \in Clients \ {m} : Coming(x)' = Coming(x)
  BY DEF Coming, Held
<1> QED
  BY <1>1, <1>2 DEF OwedHeld

\* A step of the registry that leaves the emitters alone.
LEMMA Stutter ==
  ASSUME UNCHANGED emitterVars, OwedHeld
  PROVE  OwedHeld' /\ UNCHANGED Channel!vars
<1>1. UNCHANGED <<queue, done, worker, job, owed>>
  BY DEF emitterVars
<1>2. OwedHeld'
  BY <1>1 DEF OwedHeld, Coming, Held
<1>3. UNCHANGED <<Pending, Tries, State>>
  BY <1>1 DEF Pending, Coming, Tries, State, Held, ChannelState
<1> QED
  BY <1>1, <1>2, <1>3 DEF Channel!vars, Pending, Tries, State

\* A new emitter is an open channel with nothing in it.
LEMMA InsertOpens ==
  ASSUME RInv, NEW p \in Procs, RegisterInsert(p)
  PROVE  OwedHeld' /\ Channel!Open(arg[p])
<1> DEFINE m == arg[p]
<1>0. EmittersTypeOK /\ OwedHeld
  BY DEF RInv, IInv, TypeOK
<1>1. m \in Clients /\ worker[m] = "none" /\ ~done[m]
  BY DEF RInv, IInv, TypeOK, Arguments, Emitters, Life, RegisterInsert
<1>2. worker' = [worker EXCEPT ![m] = "select"] /\ UNCHANGED <<queue, done, job, owed>>
  BY DEF RegisterInsert, NewWebhookEmitter
<1>3. OwedHeld' /\ UNCHANGED <<Pending, Tries>>
  <2>1. \A x \in Clients : Coming(x)' = Coming(x)
    BY <1>0, <1>1, <1>2 DEF EmittersTypeOK, Coming, Held
  <2> QED
    BY <1>0, <1>2, <2>1 DEF OwedHeld, Pending, Tries
<1>4. State[m] = "absent" /\ State'[m] = "open"
  BY <1>1, <1>2 DEF State, ChannelState, RInv, IInv, TypeOK, EmittersTypeOK
<1>5. State' = [State EXCEPT ![m] = "open"]
  BY <1>1, <1>2, <1>4, OneChannel DEF RInv, IInv, TypeOK, EmittersTypeOK
<1> QED
  BY <1>2, <1>3, <1>4, <1>5 DEF Channel!Open, Pending, Tries, State

\* An event that passes the filter and finds room goes to the end of what is to come, unless
\* the worker has returned: then the channel does not take it.
LEMMA EmitOffers ==
  ASSUME RInv, NEW p \in Procs, NEW c \in Clients, EmitOne(p, c)
  PROVE  /\ OwedHeld'
         /\ \/ UNCHANGED Channel!vars
            \/ event[p] \in Events /\ Channel!Offer(c, event[p])
<1> DEFINE e == event[p]
<1>1. UNCHANGED <<done, worker, job, owed>>
  BY DEF EmitOne, Emit
<1>2. CASE UNCHANGED queue
  <2>1. UNCHANGED emitterVars
    BY <1>1, <1>2 DEF emitterVars
  <2>2. OwedHeld' /\ UNCHANGED Channel!vars
    BY <2>1, Stutter DEF RInv
  <2> QED
    BY <2>2
<1>3. CASE worker[c] = "exit"
  <2>1. \A x \in Clients : Coming(x)' = Coming(x)
    <3>1. \A x \in Clients \ {c} : queue'[x] = queue[x]
      BY DEF EmitOne, Emit, RInv, IInv, TypeOK, EmittersTypeOK
    <3> QED
      BY <1>1, <1>3, <3>1 DEF Coming, Held
  <2>2. OwedHeld' /\ UNCHANGED <<Pending, Tries, State>>
    BY <1>1, <2>1 DEF RInv, OwedHeld, Pending, Tries, State, ChannelState
  <2> QED
    BY <1>1, <2>2 DEF Channel!vars, Pending, Tries, State
<1>4. CASE worker[c] # "exit" /\ e \in Wanted[c] /\ Len(queue[c]) < QueueSize
  <2>1. e \in Events
    BY <1>4, EmitterAssumption
  <2>2. queue' = [queue EXCEPT ![c] = Append(queue[c], e)]
    BY <1>4 DEF EmitOne, Emit
  <2>3. worker[c] # "none"
    <3>1. host \in {"registry", "server"} /\ c \in used /\ Life(c)
          /\ (host = "registry" => c \in emitters)
      BY DEF EmitOne, RInv, IInv, TypeOK, Arguments, Emitters
    <3> QED
      BY <3>1 DEF Life
  <2>4. State[c] \in {"open", "closing"}
    BY <1>4, <2>3 DEF State, ChannelState
  <2>5. EmittersTypeOK
    BY DEF RInv, IInv, TypeOK
  <2>6. Pending'[c] = Append(Pending[c], e) /\ Len(Pending'[c]) = Len(Pending[c]) + 1
    <3>1. Held(c) \in Seq(Events) /\ queue[c] \in Seq(Events) /\ Pending[c] \in Seq(Events)
      BY <2>5, PendingFacts
    <3>2. Pending[c] = Held(c) \o queue[c] /\ Pending'[c] = (Held(c) \o queue[c])'
      BY <1>1, <1>4 DEF Pending, Coming
    <3>3. (Held(c) \o queue[c])' = Held(c) \o Append(queue[c], e)
      BY <1>1, <2>2, <2>5 DEF Held, EmittersTypeOK
    <3>4. Held(c) \o Append(queue[c], e) = Append(Held(c) \o queue[c], e)
      BY <2>1, <3>1, AppendLast
    <3>5. Len(Append(Pending[c], e)) = Len(Pending[c]) + 1
      BY <2>1, <3>1, AppendProperties
    <3> QED
      BY <3>2, <3>3, <3>4, <3>5
  <2>7. Len(Pending[c]) < QueueSize + 1 /\ Len(Pending[c]) \in Nat
    <3>1. Len(queue[c]) \in Nat
      BY <2>5, PendingFacts, LenProperties
    <3> QED
      BY <1>4, <2>5, <3>1, PendingFacts, EmitterAssumption
  <2>8. OwedHeld'
    <3>1. owed[c] \in Nat /\ owed[c] <= Len(Pending[c])
      BY <2>5, EmitterAssumption DEF RInv, OwedHeld, Pending, EmittersTypeOK
    <3>2. owed'[c] <= Len(Pending'[c])
      BY <1>1, <2>6, <2>7, <3>1
    <3>3. \A x \in Clients \ {c} : queue'[x] = queue[x]
      BY <2>2, <2>5 DEF EmittersTypeOK
    <3> QED
      BY <1>1, <3>2, <3>3, OneOwes DEF RInv
  <2>9. /\ Pending' = [Pending EXCEPT ![c] = Append(Pending[c], e)]
        /\ UNCHANGED <<Tries, State>>
    <3>1. \A x \in Clients \ {c} : queue'[x] = queue[x]
      BY <2>2, <2>5 DEF EmittersTypeOK
    <3>2. Pending' = [Pending EXCEPT ![c] = Pending'[c]]
      BY <1>1, <3>1, OneChannel
    <3> QED
      BY <1>1, <2>6, <3>2 DEF Tries, State, ChannelState
  <2>10. Channel!Offer(c, e)
    BY <1>1, <2>4, <2>7, <2>9 DEF Channel!Offer, Pending, Tries, State
  <2> QED
    BY <2>1, <2>8, <2>10
<1> QED
  BY <1>2, <1>3, <1>4 DEF EmitOne, Emit

\* The steps of a worker, on the channel of its client: to take an event out of the queue, or
\* to see that it is closed, changes nothing there.
LEMMA WorkerDelivers ==
  ASSUME RInv, NEW m \in Clients, Work(m), UNCHANGED registryVars
  PROVE  /\ OwedHeld'
         /\ \/ UNCHANGED Channel!vars
            \/ Channel!Try(m) \/ Channel!Settle(m) \/ Channel!EndClose(m)
<1>1. EmittersTypeOK /\ OwedHeld /\ Life(m)
  BY DEF RInv, IInv, TypeOK, Emitters
<1>2. EmittersTypeOK'
  BY WorkPreserves DEF RInv, IInv, TypeOK
<1>0. worker[m] # "exit"
  BY <1>1 DEF Work, Receive, SeeDone, Drained, AttemptAgain, AttemptLast, EmittersTypeOK, Running
<1>3. owed[m] \in Nat /\ owed[m] <= Len(Pending[m]) /\ Len(Pending[m]) \in Nat
  BY <1>1, PendingFacts, EmitterAssumption DEF OwedHeld, Pending, EmittersTypeOK
<1>4. CASE Receive(m)
  <2>1. /\ job[m] = None /\ job'[m] # None /\ job'[m].event = Head(queue[m]) /\ job'[m].tries = 0
        /\ queue[m] # <<>> /\ queue'[m] = Tail(queue[m])
        /\ \A x \in Clients \ {m} : queue'[x] = queue[x] /\ job'[x] = job[x]
        /\ UNCHANGED <<done, worker, owed>>
    <3>1. queue[m] # <<>> /\ queue[m] \in Seq(Events)
      BY <1>1, <1>4 DEF Receive, EmittersTypeOK
    <3>2. Head(queue[m]) \in Events
      BY <3>1, HeadTailProperties
    <3>3. [event |-> Head(queue[m]), tries |-> 0] \in [event: Events, tries: 0..Attempts - 1]
      BY <3>2, EmitterAssumption
    <3>4. job' = [job EXCEPT ![m] = [event |-> Head(queue[m]), tries |-> 0]]
      BY <1>4 DEF Receive
    <3>5. job'[m] = [event |-> Head(queue[m]), tries |-> 0]
      BY <1>1, <3>4 DEF EmittersTypeOK
    <3>6. job'[m] # None
      BY <3>3, <3>5, EmitterAssumption
    <3> QED
      BY <1>1, <1>4, <3>1, <3>4, <3>5, <3>6 DEF Receive, EmittersTypeOK
  <2>2. Pending'[m] = Pending[m]
    <3>1. queue[m] \in Seq(Events) /\ Pending[m] = queue[m]
      BY <1>0, <1>1, <2>1, PendingFacts
    <3>2. Pending'[m] = <<Head(queue[m])>> \o Tail(queue[m])
      BY <1>0, <2>1 DEF Pending, Coming, Held
    <3>3. <<Head(queue[m])>> \o Tail(queue[m]) = queue[m]
      BY <2>1, <3>1, HeadThenTail
    <3> QED
      BY <3>1, <3>2, <3>3
  <2>3. UNCHANGED <<Pending, Tries, State>>
    <3>1. Pending' = [Pending EXCEPT ![m] = Pending'[m]] /\ Tries' = [Tries EXCEPT ![m] = Tries'[m]]
      BY <2>1, OneChannel
    <3>2. Tries'[m] = Tries[m]
      BY <2>1 DEF Tries
    <3>3. State' = State
      BY <2>1 DEF State, ChannelState
    <3>4. Pending = [Pending EXCEPT ![m] = Pending[m]] /\ Tries = [Tries EXCEPT ![m] = Tries[m]]
      BY DEF Pending, Tries
    <3> QED
      BY <2>2, <3>1, <3>2, <3>3, <3>4
  <2>4. OwedHeld'
    BY <1>1, <1>3, <2>1, <2>2, OneOwes
  <2>5. UNCHANGED Channel!vars
    BY <2>1, <2>3 DEF Channel!vars, Pending, Tries, State
  <2> QED
    BY <2>4, <2>5
<1>5. CASE SeeDone(m)
  <2>1. /\ worker[m] = "select" /\ done[m] /\ UNCHANGED <<queue, done, job, owed>>
        /\ worker' = [worker EXCEPT ![m] = "drain"]
    BY <1>5 DEF SeeDone
  <2>2. OwedHeld' /\ UNCHANGED <<Pending, Tries>>
    <3>1. \A x \in Clients : Coming(x)' = Coming(x)
      BY <1>1, <2>1 DEF EmittersTypeOK, Coming, Held
    <3> QED
      BY <1>1, <2>1, <3>1 DEF OwedHeld, Pending, Tries
  <2>3. \A x \in Clients : ChannelState(x)' = ChannelState(x)
    BY <1>1, <2>1 DEF ChannelState, EmittersTypeOK
  <2>4. UNCHANGED Channel!vars
    BY <2>1, <2>2, <2>3 DEF Channel!vars, Pending, Tries
  <2> QED
    BY <2>2, <2>4
<1>6. CASE Drained(m)
  <2>1. /\ worker[m] = "drain" /\ job[m] = None /\ queue[m] = <<>>
        /\ UNCHANGED <<queue, done, job, owed>> /\ worker' = [worker EXCEPT ![m] = "exit"]
    BY <1>6 DEF Drained
  <2>2. OwedHeld' /\ UNCHANGED <<Pending, Tries>>
    <3>1. Coming(m) = <<>> /\ Coming(m)' = <<>>
      <4>1. worker'[m] = "exit"
        BY <1>1, <2>1 DEF EmittersTypeOK
      <4>2. Pending[m] = <<>>
        BY <1>0, <1>1, <2>1, PendingFacts
      <4> QED
        BY <4>1, <4>2 DEF Coming, Pending
    <3>2. \A x \in Clients \ {m} : worker'[x] = worker[x]
      BY <2>1
    <3>3. \A x \in Clients : Coming(x)' = Coming(x)
      BY <2>1, <3>1, <3>2 DEF Coming, Held
    <3> QED
      BY <1>1, <2>1, <3>3 DEF OwedHeld, Pending, Tries
  <2>3. Pending[m] = <<>> /\ owed[m] = 0
    <3>1. Pending[m] = <<>>
      BY <1>0, <1>1, <2>1, PendingFacts
    <3> QED
      BY <1>3, <3>1
  <2>4. State[m] = "closing" /\ State'[m] = "closed"
    BY <1>1, <2>1 DEF State, ChannelState, Life, EmittersTypeOK
  <2>5. State' = [State EXCEPT ![m] = "closed"]
    BY <1>1, <2>1, <2>4, OneChannel DEF EmittersTypeOK
  <2>6. Channel!EndClose(m)
    BY <2>1, <2>2, <2>3, <2>4, <2>5 DEF Channel!EndClose, Pending, Tries, State
  <2> QED
    BY <2>2, <2>6
<1>7. ASSUME job[m] # None
      PROVE  State[m] \in {"open", "closing"} /\ Pending[m] # <<>>
             /\ Tries[m] = job[m].tries /\ Tries[m] < Attempts
             /\ Tail(Pending[m]) = queue[m] /\ Len(Pending[m]) = Len(queue[m]) + 1
  <2>1. worker[m] \in {"select", "drain"}
    BY <1>1, <1>7 DEF EmittersTypeOK, Running
  <2>2. job[m].tries \in 0..Attempts - 1
    BY <1>1, <1>7 DEF EmittersTypeOK
  <2>3. job[m].tries < Attempts
    BY <2>2, EmitterAssumption
  <2> QED
    BY <1>1, <1>7, <2>1, <2>3, PendingFacts DEF State, ChannelState, Tries
<1>8. CASE AttemptAgain(m)
  <2>1. /\ job[m] # None /\ job[m].tries + 1 < Attempts
        /\ job' = [job EXCEPT ![m] = [job[m] EXCEPT !.tries = @ + 1]]
        /\ UNCHANGED <<queue, done, worker, owed>>
    BY <1>8 DEF AttemptAgain
  <2>2. /\ job'[m] # None /\ job'[m].event = job[m].event /\ job'[m].tries = job[m].tries + 1
        /\ \A x \in Clients \ {m} : job'[x] = job[x]
    <3>1. job[m] \in [event: Events, tries: 0..Attempts - 1]
      BY <1>1, <2>1 DEF EmittersTypeOK
    <3>2. [job[m] EXCEPT !.tries = @ + 1] \in [event: Events, tries: 0..Attempts - 1]
      BY <2>1, <3>1, EmitterAssumption
    <3>3. job'[m] = [job[m] EXCEPT !.tries = @ + 1]
      BY <1>1, <2>1 DEF EmittersTypeOK
    <3>4. job'[m] # None
      BY <3>2, <3>3, EmitterAssumption
    <3>5. job'[m].event = job[m].event /\ job'[m].tries = job[m].tries + 1
      BY <3>1, <3>3
    <3> QED
      BY <1>1, <2>1, <3>4, <3>5 DEF EmittersTypeOK
  <2>3. OwedHeld' /\ UNCHANGED <<Pending, State>>
    <3>1. \A x \in Clients : Held(x)' = Held(x)
      BY <2>1, <2>2 DEF Held
    <3>2. \A x \in Clients : Coming(x)' = Coming(x)
      BY <2>1, <3>1 DEF Coming
    <3> QED
      BY <1>1, <2>1, <3>2 DEF OwedHeld, Pending, State, ChannelState
  <2>4. Tries' = [Tries EXCEPT ![m] = Tries[m] + 1]
    <3>1. Tries' = [Tries EXCEPT ![m] = Tries'[m]]
      BY <2>1, <2>2, OneChannel
    <3>2. Tries'[m] = Tries[m] + 1
      BY <1>7, <2>1, <2>2 DEF Tries
    <3> QED
      BY <3>1, <3>2
  <2>5. Channel!Try(m)
    BY <1>7, <2>1, <2>3, <2>4 DEF Channel!Try, Pending, Tries, State
  <2> QED
    BY <2>3, <2>5
<1>9. CASE AttemptLast(m)
  <2>1. /\ job[m] # None /\ job' = [job EXCEPT ![m] = None]
        /\ owed' = [owed EXCEPT ![m] = IF owed[m] > 0 THEN owed[m] - 1 ELSE 0]
        /\ UNCHANGED <<queue, done, worker>>
    BY <1>9 DEF AttemptLast
  <2>2. /\ job'[m] = None /\ owed'[m] = IF owed[m] > 0 THEN owed[m] - 1 ELSE 0
        /\ \A x \in Clients \ {m} : job'[x] = job[x] /\ owed'[x] = owed[x]
    BY <1>1, <2>1 DEF EmittersTypeOK
  <2>3. Pending'[m] = queue[m] /\ Len(queue[m]) \in Nat
    <3>1. queue[m] \in Seq(Events)
      BY <1>1, PendingFacts
    <3>2. Pending'[m] = <<>> \o queue[m]
      BY <1>0, <2>1, <2>2 DEF Pending, Coming, Held
    <3> QED
      BY <3>1, <3>2, ConcatEmptySeq, LenProperties
  <2>4. OwedHeld'
    <3>1. owed'[m] <= Len(Pending'[m])
      BY <1>3, <1>7, <2>1, <2>2, <2>3
    <3> QED
      BY <1>1, <2>1, <2>2, <3>1, OneOwes
  <2>5. /\ Pending' = [Pending EXCEPT ![m] = Tail(Pending[m])]
        /\ Tries' = [Tries EXCEPT ![m] = 0] /\ UNCHANGED State
    <3>1. Pending' = [Pending EXCEPT ![m] = Pending'[m]] /\ Tries' = [Tries EXCEPT ![m] = Tries'[m]]
      BY <2>1, <2>2, OneChannel
    <3>2. Tries'[m] = 0
      BY <2>2 DEF Tries
    <3>3. UNCHANGED State
      BY <2>1 DEF State, ChannelState
    <3> QED
      BY <1>7, <2>1, <2>3, <3>1, <3>2, <3>3
  <2>6. Channel!Settle(m)
    BY <1>7, <2>1, <2>5 DEF Channel!Settle, Pending, Tries, State
  <2> QED
    BY <2>4, <2>6
<1> QED
  BY <1>4, <1>5, <1>6, <1>8, <1>9 DEF Work

\* To close an emitter of the map that nobody has closed is to begin to close its channel:
\* what it holds then is owed.
LEMMA CloseBegins ==
  ASSUME RInv, NEW m \in emitters, ~done[m], CloseDone(m)
  PROVE  OwedHeld' /\ Channel!BeginClose(m)
<1>1. EmittersTypeOK /\ m \in Clients /\ Life(m)
  BY DEF RInv, IInv, TypeOK, Emitters
<1>2. /\ done' = [done EXCEPT ![m] = TRUE] /\ UNCHANGED <<queue, worker, job>>
      /\ owed' = [owed EXCEPT ![m] = Len(Pending[m])]
  BY <1>1 DEF CloseDone, Pending, Coming, Life
<1>3. UNCHANGED <<Pending, Tries>>
  BY <1>2 DEF Pending, Tries, Coming, Held
<1>4. OwedHeld'
  <2>1. owed'[m] <= Len(Pending'[m])
    BY <1>1, <1>2, <1>3, PendingFacts DEF EmittersTypeOK
  <2>2. \A x \in Clients \ {m} : owed'[x] = owed[x]
    BY <1>1, <1>2 DEF EmittersTypeOK
  <2> QED
    BY <1>1, <1>2, <2>1, <2>2, OneOwes DEF RInv
<1>5. State[m] = "open" /\ State'[m] = "closing"
  BY <1>1, <1>2 DEF State, ChannelState, Life, EmittersTypeOK
<1>6. State' = [State EXCEPT ![m] = "closing"]
  BY <1>1, <1>2, <1>5, OneChannel DEF EmittersTypeOK
<1> QED
  BY <1>2, <1>3, <1>4, <1>5, <1>6 DEF Channel!BeginClose, Pending, Tries, State

\* Channels with nothing in them, open for the clients in kept.
LEMMA NewChannels ==
  ASSUME NEW kept, \A m \in Clients : job[m] = None /\ queue[m] = <<>> /\ ~done[m],
         \A m \in Clients : owed[m] = 0 /\ worker[m] = IF m \in kept THEN "select" ELSE "none"
  PROVE  /\ Pending = [m \in Clients |-> <<>>] /\ Tries = [m \in Clients |-> 0]
         /\ State = [m \in Clients |-> IF m \in kept THEN "open" ELSE "absent"]
         /\ OwedHeld
<1>1. <<>> \o <<>> = <<>> /\ Len(<<>>) = 0
  OBVIOUS
<1>2. \A m \in Clients : Held(m) \o queue[m] = <<>>
  BY <1>1 DEF Held
<1>3. Pending = [m \in Clients |-> <<>>] /\ OwedHeld
  <2>1. \A m \in Clients : Coming(m) = <<>>
    BY <1>2 DEF Coming
  <2> QED
    BY <1>1, <2>1 DEF Pending, OwedHeld
<1>4. Tries = [m \in Clients |-> 0]
  BY DEF Tries
<1>5. \A m \in Clients : ChannelState(m) = IF m \in kept THEN "open" ELSE "absent"
  BY DEF ChannelState
<1> QED
  BY <1>3, <1>4, <1>5 DEF State

\* A new process has new channels, those of the clients it finds open.
LEMMA RestartForgets ==
  ASSUME RInv, NewClientRegistry
  PROVE  OwedHeld' /\ Channel!Restart
<1>1. db \in SUBSET Clients
  BY DEF RInv, IInv, TypeOK
<1>2. /\ \A m \in Clients : job'[m] = None /\ queue'[m] = <<>> /\ ~done'[m]
      /\ \A m \in Clients : owed'[m] = 0 /\ worker'[m] = IF m \in db THEN "select" ELSE "none"
      /\ owed' = [m \in Clients |-> 0]
  BY DEF NewClientRegistry, NewEmitters
<1>3. /\ Pending' = [m \in Clients |-> <<>>] /\ Tries' = [m \in Clients |-> 0]
      /\ State' = [m \in Clients |-> IF m \in db THEN "open" ELSE "absent"]
      /\ OwedHeld'
  <2>1. \A m \in Clients : Held(m)' = <<>>
    BY <1>2 DEF Held
  <2>2. <<>> \o <<>> = <<>> /\ Len(<<>>) = 0
    OBVIOUS
  <2>3. \A m \in Clients : Coming(m)' = <<>>
    BY <1>2, <2>1, <2>2 DEF Coming
  <2>4. \A m \in Clients : ChannelState(m)' = IF m \in db THEN "open" ELSE "absent"
    BY <1>2 DEF ChannelState
  <2> QED
    BY <1>2, <2>2, <2>3, <2>4 DEF Pending, Tries, State, OwedHeld
<1> QED
  BY <1>1, <1>2, <1>3 DEF Channel!Restart, Pending, Tries, State

\* The channels of a server that starts: those of the clients it finds are open.
LEMMA InitMaps == Init => OwedHeld /\ Channel!Init
<1> SUFFICES ASSUME Init PROVE OwedHeld /\ Channel!Init
  OBVIOUS
<1>1. /\ \A m \in Clients : job[m] = None /\ queue[m] = <<>> /\ ~done[m]
      /\ \A m \in Clients : owed[m] = 0 /\ worker[m] = IF m \in db THEN "select" ELSE "none"
      /\ owed = [m \in Clients |-> 0]
  BY DEF Init, InitEmitters
<1>2. /\ Pending = [m \in Clients |-> <<>>] /\ Tries = [m \in Clients |-> 0]
      /\ State = [m \in Clients |-> IF m \in db THEN "open" ELSE "absent"]
      /\ OwedHeld
  BY <1>1, NewChannels
<1>3. State \in [Clients -> {"absent", "open"}]
  BY <1>2
<1> QED
  BY <1>1, <1>2, <1>3 DEF Channel!Init, Pending, Tries, State

\* Every step of the registry and the workers is one of the channels, or none.
LEMMA StepMaps ==
  RInv /\ [Next]_vars => OwedHeld' /\ [Channel!Next]_(Channel!vars)
<1> SUFFICES ASSUME RInv, [Next]_vars PROVE OwedHeld' /\ [Channel!Next]_(Channel!vars)
  OBVIOUS
<1>1. ASSUME UNCHANGED emitterVars PROVE OwedHeld' /\ [Channel!Next]_(Channel!vars)
  BY <1>1, Stutter DEF RInv
<1>2. emitters \subseteq Clients
  BY DEF RInv, IInv, TypeOK
<1>3. ASSUME NEW m \in emitters, ~done[m], CloseDone(m)
      PROVE  OwedHeld' /\ [Channel!Next]_(Channel!vars)
  <2>1. OwedHeld' /\ Channel!BeginClose(m)
    BY <1>3, CloseBegins
  <2> QED
    BY <1>2, <2>1 DEF Channel!Next
<1>4. ASSUME NEW p \in Procs, HandleClients(p) \/ EmitLock(p) \/ EmitUnlock(p) \/ UnregisterFinish(p)
      PROVE  UNCHANGED emitterVars
  BY <1>4 DEF HandleClients, RegisterStore, UnregisterDelete, EmitLock, EmitUnlock,
     UnregisterFinish
<1>5. ASSUME NEW p \in Procs, RegisterInsert(p)
      PROVE  OwedHeld' /\ [Channel!Next]_(Channel!vars)
  <2>1. OwedHeld' /\ Channel!Open(arg[p])
    BY <1>5, InsertOpens
  <2>2. arg[p] \in Clients
    BY <1>5 DEF RInv, IInv, TypeOK, Arguments, RegisterInsert
  <2> QED
    BY <2>1, <2>2 DEF Channel!Next
<1>6. ASSUME NEW p \in Procs, UnregisterLock(p)
      PROVE  OwedHeld' /\ [Channel!Next]_(Channel!vars)
  <2>1. CASE arg[p] \in emitters
    <3>1. host = "registry" /\ CloseDone(arg[p])
      BY <1>6, <2>1 DEF UnregisterLock, CloseEmitter, RInv, IInv, TypeOK, Locks
    <3>2. ~done[arg[p]]
      BY <1>2, <1>6, <2>1, <3>1, NoneClosing DEF UnregisterLock, CanWrite, RInv, IInv
    <3> QED
      BY <1>3, <2>1, <3>1, <3>2
  <2>2. CASE arg[p] \notin emitters
    BY <1>1, <1>6, <2>2 DEF UnregisterLock
  <2> QED
    BY <2>1, <2>2
<1>7. ASSUME NEW p \in Procs, NEW c \in Clients, EmitOne(p, c)
      PROVE  OwedHeld' /\ [Channel!Next]_(Channel!vars)
  <2>1. OwedHeld'
    BY <1>7, EmitOffers
  <2>2. CASE UNCHANGED Channel!vars
    BY <2>1, <2>2
  <2>3. CASE event[p] \in Events /\ Channel!Offer(c, event[p])
    <3>1. PICK e \in Events : e = event[p]
      BY <2>3
    <3>2. Channel!Offer(c, e)
      BY <2>3, <3>1 DEF Channel!Offer
    <3>3. Channel!Next
      BY <3>2 DEF Channel!Next
    <3> QED
      BY <2>1, <3>3
  <2> QED
    BY <1>7, <2>2, <2>3, EmitOffers
<1>8. ASSUME NEW c \in Clients, CloseNext(c)
      PROVE  OwedHeld' /\ [Channel!Next]_(Channel!vars)
  <2>1. c \in emitters /\ CloseDone(c)
    BY <1>8 DEF CloseNext, CloseEmitter
  <2>2. ~done[c]
    <3>1. pc[Main] = "close" /\ host \in {"registry", "server"} /\ Main \in Goroutines
      BY <1>8 DEF CloseNext, RInv, IInv, TypeOK, Goroutines
    <3>2. \A p \in Procs : pc[p] \notin {"removeWait", "closeWait"}
      BY <3>1, RegistryAssumption DEF RInv, IInv, Locks, Goroutines
    <3>3. \A p \in Goroutines : ~Waits(p, c)
      BY <3>1, <3>2 DEF Waits, Goroutines
    <3> QED
      BY <1>8, <2>1, <3>3 DEF RInv, IInv, Emitters, Life
  <2> QED
    BY <1>3, <2>1, <2>2
<1>9. CASE CloseLock \/ CloseOne \/ CloseUnlock
  BY <1>1, <1>9 DEF CloseLock, CloseOne, CloseUnlock
<1>10. ASSUME NEW m \in Clients, Work(m), UNCHANGED registryVars
       PROVE  OwedHeld' /\ [Channel!Next]_(Channel!vars)
  <2>1. OwedHeld'
    BY <1>10, WorkerDelivers
  <2>2. CASE UNCHANGED Channel!vars
    BY <2>1, <2>2
  <2>3. CASE Channel!Try(m) \/ Channel!Settle(m) \/ Channel!EndClose(m)
    BY <2>1, <2>3 DEF Channel!Next
  <2> QED
    BY <1>10, <2>2, <2>3, WorkerDelivers
<1>11. CASE NewClientRegistry
  <2>1. OwedHeld' /\ Channel!Restart
    BY <1>11, RestartForgets
  <2> QED
    BY <2>1 DEF Channel!Next
<1>12. CASE UNCHANGED vars
  BY <1>1, <1>12 DEF vars
<1> QED
  BY <1>1, <1>4, <1>5, <1>6, <1>7, <1>8, <1>9, <1>10, <1>11, <1>12
     DEF Next, Progress, Close, WorkerStep

\* The registry and the workers keep both parts of the invariant.
THEOREM ChannelInvariance == Spec => []RInv
<1>1. Init => RInv
  BY InitHolds, InitMaps DEF RInv
<1>2. RInv /\ [Next]_vars => RInv'
  BY StepPreserves, StepMaps DEF RInv
<1> QED
  BY <1>1, <1>2, PTL DEF Spec

\* A worker that has returned owes nothing, and in a registry its queue is empty.
THEOREM DrainsAll == Spec => []NothingStranded
<1>1. RInv => NothingStranded
  <2> SUFFICES ASSUME RInv, NEW m \in Clients, worker[m] = "exit"
               PROVE  owed[m] = 0 /\ (host = "registry" => queue[m] = <<>>)
    BY DEF NothingStranded
  <2>1. owed[m] <= 0 /\ owed[m] \in Nat
    <3>1. Coming(m) = <<>> /\ Len(<<>>) = 0
      BY DEF Coming
    <3> QED
      BY <3>1, EmitterAssumption DEF RInv, OwedHeld, IInv, TypeOK, EmittersTypeOK
  <2> QED
    BY <2>1 DEF RInv, IInv, Emitters, Life
<1> QED
  BY <1>1, ChannelInvariance, PTL

\* Each webhook keeps what the documentation promises of it: events leave in the order they
\* were accepted, none is tried more often than allowed or put aside before its turn, and an
\* emitter that has closed has settled all that it had accepted before.
THEOREM Refines == Spec => KeepsChannel
<1>1. Init => RInv /\ Channel!Init
  BY InitHolds, InitMaps DEF RInv
<1>2. RInv /\ [Next]_vars => RInv' /\ [Channel!Next]_(Channel!vars)
  BY StepPreserves, StepMaps DEF RInv
<1> QED
  BY <1>1, <1>2, PTL DEF Spec, KeepsChannel, Channel!Spec

=============================================================================
