----------------------------- MODULE EventChannel -----------------------------
(***************************************************************************)
(* What docs/EVENTS.md ("Delivery") promises of a webhook, as an abstract  *)
(* specification: a bounded first-in first-out channel for each receiver.  *)
(* An event offered to a full channel is lost.  The oldest event is tried  *)
(* a bounded number of times, at least once, and then settled; what a      *)
(* channel held when its closing began is settled before it is closed.     *)
(***************************************************************************)
EXTENDS Integers, Sequences

CONSTANTS
  Receivers, \* the endpoints
  Events,    \* events, each offered once
  Capacity,  \* events a channel holds, the one being tried included
  Attempts   \* how often an event is tried at most

VARIABLES
  pending, \* pending[m]: what the channel of m holds, oldest first
  tries,   \* tries[m]: how often the oldest was tried
  state,   \* state[m]: "absent", "open", "closing" or "closed"
  owed     \* owed[m]: while closing, the events still to be settled

vars == <<pending, tries, state, owed>>

Open(m) ==
  /\ state[m] = "absent"
  /\ state' = [state EXCEPT ![m] = "open"]
  /\ UNCHANGED <<pending, tries, owed>>

\* Offered to a channel with no room, the event is lost and nothing changes.
Offer(m, e) ==
  /\ state[m] \in {"open", "closing"} /\ Len(pending[m]) < Capacity
  /\ pending' = [pending EXCEPT ![m] = Append(@, e)]
  /\ UNCHANGED <<tries, state, owed>>

\* A try that will be repeated.
Try(m) ==
  /\ state[m] \in {"open", "closing"} /\ pending[m] # <<>> /\ tries[m] + 1 < Attempts
  /\ tries' = [tries EXCEPT ![m] = @ + 1]
  /\ UNCHANGED <<pending, state, owed>>

\* A try that is the last for the event: answered for good, or the attempts are used up.
Settle(m) ==
  /\ state[m] \in {"open", "closing"} /\ pending[m] # <<>> /\ tries[m] < Attempts
  /\ pending' = [pending EXCEPT ![m] = Tail(@)]
  /\ tries' = [tries EXCEPT ![m] = 0]
  /\ owed' = [owed EXCEPT ![m] = IF @ > 0 THEN @ - 1 ELSE 0]
  /\ state' = state

BeginClose(m) ==
  /\ state[m] = "open"
  /\ state' = [state EXCEPT ![m] = "closing"]
  /\ owed' = [owed EXCEPT ![m] = Len(pending[m])]
  /\ UNCHANGED <<pending, tries>>

EndClose(m) ==
  /\ state[m] = "closing" /\ owed[m] = 0
  /\ state' = [state EXCEPT ![m] = "closed"]
  /\ UNCHANGED <<pending, tries, owed>>

\* The process that holds the channels ends; some are there when it is back.
Restart ==
  /\ \E kept \in SUBSET Receivers :
       state' = [m \in Receivers |-> IF m \in kept THEN "open" ELSE "absent"]
  /\ pending' = [m \in Receivers |-> <<>>]
  /\ tries' = [m \in Receivers |-> 0]
  /\ owed' = [m \in Receivers |-> 0]

Init ==
  /\ pending = [m \in Receivers |-> <<>>]
  /\ tries = [m \in Receivers |-> 0]
  /\ owed = [m \in Receivers |-> 0]
  /\ state \in [Receivers -> {"absent", "open"}]

Next ==
  \/ \E m \in Receivers :
       \/ Open(m) \/ Try(m) \/ Settle(m) \/ BeginClose(m) \/ EndClose(m)
       \/ \E e \in Events : Offer(m, e)
  \/ Restart

Spec == Init /\ [][Next]_vars

=============================================================================
