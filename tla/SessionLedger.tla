----------------------------- MODULE SessionLedger -----------------------------
(***************************************************************************)
(* Ledger of internal/ledger/ledger.go: the requests and the communication *)
(* events of one process, kept in memory and written to one session file   *)
(* when the ledger is closed.  The entry of a request is what the rollups  *)
(* are made of; the memory log is a DirMemoryWriter, see MemoryWriter.     *)
(***************************************************************************)
EXTENDS Naturals, Sequences, FiniteSets, SequencesExt, Sums

CONSTANTS
  NoFile, HalfWritten, \* no session file, and one that cannot be read
  EventLedger          \* ledger.event_ledger: communication events are recorded

VARIABLES
  ledger,    \* "none", "open", "copied" (Close has its copies), "created", "closed"
  requests,  \* l.requests
  commEvents,\* l.communicationEvents: a request and the type of the event
  copied,    \* what Close has copied under the lock
  file       \* the session file: none, half written, or a summary

ledgerVars == <<ledger, requests, commEvents, copied, file>>

InFile == file \notin {NoFile, HalfWritten}

----------------------------------------------------------------------------
(* buildSummary.                                                           *)

\* The entries with these indices.
Rollup(es, indices) ==
  [requests |-> Cardinality(indices),
   tokens |-> SumOver([i \in indices |-> es[i].tokens], indices)]

\* addToRollup over them: a rollup for each value of a field.
RollupBy(es, indices, field) ==
  [v \in {es[i][field] : i \in indices} |-> Rollup(es, {i \in indices : es[i][field] = v})]

\* Entries without a provider are not rolled up by provider.
BuildSummary(es, evs, none) ==
  [totals |-> Rollup(es, DOMAIN es),
   byModel |-> RollupBy(es, DOMAIN es, "model"),
   byProvider |-> RollupBy(es, {i \in DOMAIN es : es[i].provider # none}, "provider"),
   byToken |-> RollupBy(es, DOMAIN es, "token"),
   requests |-> es,
   events |-> evs]

----------------------------------------------------------------------------

NoLedger ==
  /\ ledger = "none" /\ file = NoFile
  /\ requests = <<>> /\ commEvents = {} /\ copied = [requests |-> <<>>, events |-> {}]

Open ==
  /\ ledger' = "open"
  /\ UNCHANGED <<requests, commEvents, copied, file>>

RecordRequest(e) ==
  /\ requests' = IF ledger = "none" THEN requests ELSE Append(requests, e)
  /\ UNCHANGED <<ledger, commEvents, copied, file>>

RecordCommunicationEvents(r, types) ==
  commEvents' = IF ledger = "none" \/ ~EventLedger THEN commEvents ELSE commEvents \cup ({r} \X types)

\* Close, under the lock: the copies.
CloseCopies ==
  /\ ledger = "open"
  /\ ledger' = "copied"
  /\ copied' = [requests |-> requests, events |-> commEvents]
  /\ UNCHANGED <<requests, commEvents, file>>

\* os.WriteFile makes the file and writes it; each may fail, and Close then returns.
CloseCreates(fails) ==
  /\ ledger = "copied"
  /\ ledger' = IF fails THEN "closed" ELSE "created"
  /\ file' = IF fails THEN NoFile ELSE HalfWritten
  /\ UNCHANGED <<requests, commEvents, copied>>

CloseWrites(fails, none) ==
  /\ ledger = "created"
  /\ ledger' = "closed"
  /\ file' = IF fails THEN HalfWritten ELSE BuildSummary(copied.requests, copied.events, none)
  /\ UNCHANGED <<requests, commEvents, copied>>

=============================================================================
