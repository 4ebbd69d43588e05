---------------------------- MODULE WebhookEmitter ----------------------------
(***************************************************************************)
(* WebhookEmitter of internal/events/webhook.go, one for each endpoint:    *)
(* Emit puts an event in a bounded queue or drops it, a worker takes the   *)
(* events out and delivers each with a bounded number of attempts, and     *)
(* Close lets the worker drain the queue.  The operations are used by      *)
(* ClientRegistry, which says who calls them and when.                     *)
(***************************************************************************)
EXTENDS Integers, Sequences

CONSTANTS
  Clients,   \* the endpoints, one emitter each
  Events,    \* events that may be emitted
  Wanted,    \* Wanted[m]: the events that pass the filter of m
  QueueSize, \* 256 in the code
  Attempts,  \* 3 in the code
  None       \* no event is being delivered

ASSUME EmitterAssumption ==
  /\ Wanted \in [Clients -> SUBSET Events]
  /\ QueueSize \in Nat \ {0} /\ Attempts \in Nat \ {0}
  /\ None \notin [event: Events, tries: 0..Attempts - 1]

VARIABLES
  queue,  \* queue[m]: the buffered channel
  done,   \* done[m]: the channel that tells the worker to stop is closed
  worker, \* worker[m]: the goroutine: "none", "select", "drain", "exit"
  job,    \* job[m]: what the worker is delivering, or None
  owed    \* history: what was accepted before Close and is not delivered yet

emitterVars == <<queue, done, worker, job, owed>>

Running(m) == worker[m] \in {"select", "drain"}
Held(m) == IF job[m] = None THEN <<>> ELSE <<job[m].event>>

\* What will be delivered: a worker that has returned takes nothing out of its queue.
Coming(m) == IF worker[m] = "exit" THEN <<>> ELSE Held(m) \o queue[m]

NewWebhookEmitter(m) ==
  /\ worker[m] = "none"
  /\ worker' = [worker EXCEPT ![m] = "select"]
  /\ UNCHANGED <<queue, done, job, owed>>

\* Non-blocking: what is filtered out or finds the queue full is dropped.  Whether the
\* emitter is closed is not asked.
Emit(m, e) ==
  /\ queue' = IF e \in Wanted[m] /\ Len(queue[m]) < QueueSize
              THEN [queue EXCEPT ![m] = Append(@, e)] ELSE queue
  /\ UNCHANGED <<done, worker, job, owed>>

\* The worker takes an event, in its loop or while it drains.
Receive(m) ==
  /\ Running(m) /\ job[m] = None /\ queue[m] # <<>>
  /\ job' = [job EXCEPT ![m] = [event |-> Head(queue[m]), tries |-> 0]]
  /\ queue' = [queue EXCEPT ![m] = Tail(@)]
  /\ UNCHANGED <<done, worker, owed>>

\* select chooses freely between the queue and done when both are ready.
SeeDone(m) ==
  /\ worker[m] = "select" /\ job[m] = None /\ done[m]
  /\ worker' = [worker EXCEPT ![m] = "drain"]
  /\ UNCHANGED <<queue, done, job, owed>>

\* The default branch of the drain loop: nothing is left, and wg.Done.
Drained(m) ==
  /\ worker[m] = "drain" /\ job[m] = None /\ queue[m] = <<>>
  /\ worker' = [worker EXCEPT ![m] = "exit"]
  /\ UNCHANGED <<queue, done, job, owed>>

\* Slip: an event that failed goes back to the end of the queue.
AttemptAgainRequeues(m) ==
  /\ job[m] # None /\ job[m].tries + 1 < Attempts
  /\ job' = [job EXCEPT ![m] = None]
  /\ queue' = [queue EXCEPT ![m] = Append(@, job[m].event)]
  /\ UNCHANGED <<done, worker, owed>>

\* Slip: as many retries as there may be attempts.
AttemptAgainOnceMore(m) ==
  /\ job[m] # None /\ job[m].tries < Attempts
  /\ job' = [job EXCEPT ![m].tries = @ + 1]
  /\ UNCHANGED <<queue, done, worker, owed>>

\* An attempt that a timeout, a network error, 429, 5xx or another status but 2xx
\* and 4xx ended, whether or not the receiver got it; the next follows a pause.
AttemptAgain(m) ==
  /\ job[m] # None /\ job[m].tries + 1 < Attempts
  /\ job' = [job EXCEPT ![m].tries = @ + 1]
  /\ UNCHANGED <<queue, done, worker, owed>>

\* 2xx, a 4xx that is not repeated, or the last attempt whatever its outcome.
AttemptLast(m) ==
  /\ job[m] # None
  /\ job' = [job EXCEPT ![m] = None]
  /\ owed' = [owed EXCEPT ![m] = IF @ > 0 THEN @ - 1 ELSE 0]
  /\ UNCHANGED <<queue, done, worker>>

Work(m) ==
  Receive(m) \/ SeeDone(m) \/ Drained(m) \/ AttemptAgain(m) \/ AttemptLast(m)

\* close(w.done); the caller then waits until the worker has returned.
CloseDone(m) ==
  /\ done' = [done EXCEPT ![m] = TRUE]
  /\ owed' = [owed EXCEPT ![m] = Len(Held(m) \o queue[m])]
  /\ UNCHANGED <<queue, worker, job>>

\* The process has ended: emitters exist for kept only, and are new.
NewEmitters(kept) ==
  /\ queue' = [m \in Clients |-> <<>>]
  /\ done' = [m \in Clients |-> FALSE]
  /\ worker' = [m \in Clients |-> IF m \in kept THEN "select" ELSE "none"]
  /\ job' = [m \in Clients |-> None]
  /\ owed' = [m \in Clients |-> 0]

InitEmitters(kept) ==
  /\ queue = [m \in Clients |-> <<>>]
  /\ done = [m \in Clients |-> FALSE]
  /\ worker = [m \in Clients |-> IF m \in kept THEN "select" ELSE "none"]
  /\ job = [m \in Clients |-> None]
  /\ owed = [m \in Clients |-> 0]

\* Part of the type invariant: a worker that is gone delivers nothing.
EmittersTypeOK ==
  /\ queue \in [Clients -> Seq(Events)]
  /\ \A m \in Clients : Len(queue[m]) <= QueueSize
  /\ done \in [Clients -> BOOLEAN]
  /\ worker \in [Clients -> {"none", "select", "drain", "exit"}]
  /\ job \in [Clients -> [event: Events, tries: 0..Attempts - 1] \cup {None}]
  /\ \A m \in Clients : job[m] # None => Running(m)
  /\ owed \in [Clients -> 0..QueueSize + 1]

----------------------------------------------------------------------------
(* The emitters are the channels of EventChannel: the event being          *)
(* delivered and the queue behind it, while there is a worker to deliver   *)
(* them.                                                                   *)

ChannelState(m) ==
  CASE worker[m] = "none" -> "absent"
    [] worker[m] = "exit" -> "closed"
    [] OTHER -> IF done[m] THEN "closing" ELSE "open"

Channel == INSTANCE EventChannel WITH
  Receivers <- Clients,
  Capacity <- QueueSize + 1,
  pending <- [m \in Clients |-> Coming(m)],
  tries <- [m \in Clients |-> IF job[m] = None THEN 0 ELSE job[m].tries],
  state <- [m \in Clients |-> ChannelState(m)]

=============================================================================
