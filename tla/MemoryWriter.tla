----------------------------- MODULE MemoryWriter -----------------------------
(***************************************************************************)
(* The conversation logs of internal/session/memory_writer.go, as          *)
(* getMemoryWriter of internal/proxy/handler.go and the ledger make them:  *)
(* a single file, a file for each session, or a file for each session that *)
(* is archived, and perhaps compressed, when it would grow past a limit.   *)
(* File names may hold the date.  An Append runs under the writer's mutex, *)
(* but the clock goes on, a call to the file system may fail, and the      *)
(* process may die between two of them.                                    *)
(***************************************************************************)
EXTENDS Integers, Sequences, FiniteSets, SequencesExt, Sums

CONSTANTS
  Sessions,   \* session ids
  Appenders,  \* goroutines that append
  Nil,        \* no such file, no goroutine, not an archive
  SizeOf,     \* SizeOf[i]: the length of the i-th entry
  MaxSize,    \* maxSizeBytes
  DayEnds,    \* the first second of the second day
  MaxTime,    \* bound: the last second
  MaxFaults   \* bound: failed calls, crashes

Entries == DOMAIN SizeOf
Kinds == {"file", "dir", "rotating"}
Forms == {"plain", "gz"}
Seconds == 0..MaxTime
Paths == [session: Sessions, day: {1, 2}]

ASSUME SizesAssumption ==
  /\ \A i \in Entries : SizeOf[i] \in Nat \ {0}
  /\ MaxSize \in Nat /\ MaxTime \in Nat /\ MaxFaults \in Nat /\ DayEnds \in Nat
ASSUME NilAssumption == Nil \notin Appenders \cup Seconds /\ Nil \notin Seq(Entries)

VARIABLES
  config,      \* the MemoryConfig: kind, {date} in the pattern, CompressOld
  disk,        \* disk[p][at][form]: what a file holds; at = Nil is the file written to
  handle,      \* handle[p]: what w.files has for p: "none", "open" or "closed"
  written,     \* written[p]: its count, 0 when there is none
  torn,        \* torn[p]: bytes in the file written to that short writes left
  unsized,     \* history: paths whose file was opened without learning its size
  lock,        \* who holds the writer's mutex, or Nil
  stage, job,  \* where each appender is; its session, entry, path and archive
  now, count,  \* the clock; entries made so far
  accepted,    \* history: entries whose Append returned no error
  overwritten, \* history: entries in an archive whose name was used again
  faults

diskVars == <<disk, accepted, overwritten>>
handleVars == <<handle, written>>
sizeVars == <<torn, unsized>>
writerVars == <<config, diskVars, handleVars, sizeVars, lock, stage, job, now, count, faults>>

Fault == faults < MaxFaults /\ faults' = faults + 1
ToStage(a, place) == stage' = [stage EXCEPT ![a] = place]
NoJob == [session |-> Nil, entry |-> 0, path |-> Nil, at |-> Nil]

\* The mutex is released and Append returns.
Unlock(a) == ToStage(a, "idle") /\ lock' = Nil /\ job' = [job EXCEPT ![a] = NoJob]

Size(f) == IF f = Nil THEN 0 ELSE SumOver([i \in DOMAIN f |-> SizeOf[f[i]]], DOMAIN f)
Live(p) == disk[p][Nil]["plain"]

\* The single file has one path; the others have one per session, and per day when
\* the pattern holds the date.  The time is read at each call.
ResolvePath(s) ==
  [session |-> IF config.kind = "file" THEN CHOOSE x \in Sessions : TRUE ELSE s,
   day |-> IF config.kind # "file" /\ config.dated /\ now >= DayEnds THEN 2 ELSE 1]

\* Slip: an old file counts as empty.
OpenedAtZero(p, sized) == 0

\* What the count of a file opened for appending starts with: the size found, pieces
\* of entries included, or 0 when Stat fails.
OpenedAt(p, sized) == IF sized THEN Size(Live(p)) + torn[p] ELSE 0

\* The handles of a session's other paths are closed and forgotten; p may be among them.
Forget(p) ==
  /\ handle' = [q \in Paths |-> IF q.session = p.session THEN "none" ELSE handle[q]]
  /\ written' = [q \in Paths |-> IF q.session = p.session THEN 0 ELSE written[q]]

----------------------------------------------------------------------------
(* Append.                                                                 *)

Lock(a, s) ==
  /\ stage[a] = "idle" /\ lock = Nil /\ count + 1 \in Entries
  /\ lock' = a
  /\ count' = count + 1
  /\ job' = [job EXCEPT ![a] = [NoJob EXCEPT !.session = s, !.entry = count + 1]]
  /\ ToStage(a, "getFile")
  /\ UNCHANGED <<config, diskVars, handleVars, sizeVars, now, faults>>

\* getFile: the handle in the map, open or not; or else a new one, after the
\* session's handles of other paths were closed.  Only a rotating writer asks for the
\* size of what it opens.
GetFile(a, from, to) ==
  LET p == ResolvePath(job[a].session)
  IN /\ stage[a] = from /\ ToStage(a, to)
     /\ job' = [job EXCEPT ![a].path = p]
     /\ IF handle[p] # "none"
        THEN UNCHANGED <<handleVars, disk, sizeVars, faults>>
        ELSE \E sized \in BOOLEAN :
             /\ ~sized => config.kind = "rotating"
             /\ handle' = [q \in Paths |-> IF q = p THEN "open"
                                           ELSE IF q.session = p.session THEN "none"
                                           ELSE handle[q]]
             /\ written' = [q \in Paths |-> IF q = p THEN OpenedAt(p, sized)
                                            ELSE IF q.session = p.session THEN 0
                                            ELSE written[q]]
             /\ disk' = [disk EXCEPT ![p][Nil]["plain"] = IF @ = Nil THEN <<>> ELSE @]
             /\ IF sized THEN unsized' = unsized /\ faults' = faults
                ELSE unsized' = unsized \cup {p} /\ Fault
             /\ torn' = torn
     /\ UNCHANGED <<config, accepted, overwritten, lock, now, count>>

\* The directory or the file cannot be made: the old handles are gone, and the
\* entry is.
GetFileFails(a) ==
  LET p == ResolvePath(job[a].session)
  IN /\ stage[a] \in {"getFile", "getFileAgain"} /\ handle[p] = "none" /\ Fault
     /\ Forget(p)
     /\ Unlock(a)
     /\ UNCHANGED <<config, diskVars, sizeVars, now, count>>

\* FileMemoryWriter and DirMemoryWriter write to what they have opened.
Unlimited(a) ==
  /\ stage[a] = "check" /\ config.kind # "rotating"
  /\ ToStage(a, "write")
  /\ UNCHANGED <<config, diskVars, handleVars, sizeVars, lock, job, now, count, faults>>

\* The path is resolved again: on another day there is no handle for it, and the
\* size of the file in hand is not looked at.
Check(a) ==
  LET p == ResolvePath(job[a].session)
      full == handle[p] # "none" /\ written[p] + SizeOf[job[a].entry] > MaxSize
  IN /\ stage[a] = "check" /\ config.kind = "rotating"
     /\ ToStage(a, IF full THEN "rename" ELSE "write")
     /\ UNCHANGED <<config, diskVars, handleVars, sizeVars, lock, job, now, count, faults>>

\* rotate: the file is closed and gets the name of the second it is renamed in,
\* and takes the place of an archive of that name.
Rename(a) ==
  LET p == job[a].path
      archived == [disk EXCEPT ![p][now]["plain"] = Live(p)]
  IN /\ stage[a] = "rename" /\ Live(p) # Nil
     /\ handle' = [handle EXCEPT ![p] = "closed"] /\ written' = written
     /\ overwritten' = overwritten \cup
          UNION {ToSet(disk[p][now][form]) :
                   form \in {g \in Forms : disk[p][now][g] # Nil /\ (g = "gz" => config.compress)}}
     /\ disk' = [archived EXCEPT ![p][Nil]["plain"] = Nil]
     /\ torn' = [torn EXCEPT ![p] = 0] /\ unsized' = unsized \ {p}
     /\ job' = [job EXCEPT ![a].at = now]
     /\ ToStage(a, IF config.compress THEN "compress" ELSE "reopen")
     /\ UNCHANGED <<config, accepted, lock, now, count, faults>>

\* The rename fails, and always does when there is no file: the closed file stays
\* in the map.
RenameFails(a) ==
  LET p == job[a].path
  IN /\ stage[a] = "rename"
     /\ IF Live(p) = Nil THEN faults' = faults ELSE Fault
     /\ handle' = [handle EXCEPT ![p] = "closed"] /\ written' = written
     /\ Unlock(a)
     /\ UNCHANGED <<config, diskVars, sizeVars, now, count>>

\* compressFile; the original is removed last, and may stay if that fails.
Compress(a, removed) ==
  LET p == job[a].path  at == job[a].at
      compressed == [disk EXCEPT ![p][at]["gz"] = disk[p][at]["plain"]]
  IN /\ stage[a] = "compress"
     /\ IF removed THEN faults' = faults ELSE Fault
     /\ disk' = IF removed THEN [compressed EXCEPT ![p][at]["plain"] = Nil] ELSE compressed
     /\ ToStage(a, "reopen")
     /\ UNCHANGED <<config, accepted, overwritten, handleVars, sizeVars, lock, job, now, count>>

\* Slip: the original is removed by a deferred call, whatever happened.
CompressFailsRemoves(a) ==
  LET p == job[a].path  at == job[a].at
  IN /\ stage[a] = "compress" /\ Fault
     /\ disk' = [disk EXCEPT ![p][at]["gz"] = Nil, ![p][at]["plain"] = Nil]
     /\ ToStage(a, "reopen")
     /\ UNCHANGED <<config, accepted, overwritten, handleVars, sizeVars, lock, job, now, count>>

\* A half-written compressed file is removed, the archive stays.
CompressFails(a) ==
  LET p == job[a].path  at == job[a].at
  IN /\ stage[a] = "compress" /\ Fault
     /\ disk' = [disk EXCEPT ![p][at]["gz"] = Nil]
     /\ ToStage(a, "reopen")
     /\ UNCHANGED <<config, accepted, overwritten, handleVars, sizeVars, lock, job, now, count>>

\* The new file; getFile is then called again, maybe on another day.
Reopen(a) ==
  LET p == job[a].path
  IN /\ stage[a] = "reopen"
     /\ handle' = [handle EXCEPT ![p] = "open"]
     /\ written' = [written EXCEPT ![p] = 0]
     /\ disk' = [disk EXCEPT ![p][Nil]["plain"] = <<>>]
     /\ ToStage(a, "getFileAgain")
     /\ UNCHANGED <<config, accepted, overwritten, sizeVars, lock, job, now, count, faults>>

ReopenFails(a) ==
  /\ stage[a] = "reopen" /\ Fault
  /\ Unlock(a)
  /\ UNCHANGED <<config, diskVars, handleVars, sizeVars, now, count>>

\* The entry is written to the file that getFile returned, and counted for the path
\* as it is resolved now.  A closed file refuses it.
Write(a) ==
  LET p == job[a].path
      e == job[a].entry
      q == ResolvePath(job[a].session)
  IN /\ stage[a] = "write"
     /\ IF handle[p] = "open"
        THEN /\ disk' = [disk EXCEPT ![p][Nil]["plain"] = Append(@, e)]
             /\ accepted' = accepted \cup {e}
             /\ written' = IF config.kind = "rotating" /\ handle[q] # "none"
                           THEN [written EXCEPT ![q] = @ + SizeOf[e]]
                           ELSE written
        ELSE UNCHANGED <<disk, accepted, written>>
     /\ Unlock(a)
     /\ UNCHANGED <<config, overwritten, handle, sizeVars, now, count, faults>>

\* The disk is full, say: a piece of the entry may be in the file, and is not counted.
WriteFails(a) ==
  LET p == job[a].path
      pieces == IF handle[p] = "open" THEN 0..(SizeOf[job[a].entry] - 1) ELSE {0}
  IN /\ stage[a] = "write" /\ Fault
     /\ \E k \in pieces : torn' = [torn EXCEPT ![p] = @ + k]
     /\ unsized' = unsized
     /\ Unlock(a)
     /\ UNCHANGED <<config, diskVars, handleVars, now, count>>

----------------------------------------------------------------------------

\* Close of the two writers of directories; a later Append opens its file again.
Close ==
  /\ lock = Nil /\ config.kind # "file" /\ \E p \in Paths : handle[p] # "none"
  /\ handle' = [p \in Paths |-> "none"] /\ written' = [p \in Paths |-> 0]
  /\ UNCHANGED <<config, diskVars, sizeVars, lock, stage, job, now, count, faults>>

\* The process dies, and another finds the files as they are.
Crash ==
  /\ Fault
  /\ handle' = [p \in Paths |-> "none"] /\ written' = [p \in Paths |-> 0]
  /\ lock' = Nil
  /\ stage' = [a \in Appenders |-> "idle"] /\ job' = [a \in Appenders |-> NoJob]
  /\ UNCHANGED <<config, diskVars, sizeVars, now, count>>

PassTime ==
  /\ now < MaxTime
  /\ now' = now + 1
  /\ UNCHANGED <<config, diskVars, handleVars, sizeVars, lock, stage, job, count, faults>>

\* getMemoryWriter: the writer that the policy's memory section asks for.  A limit
\* or compression makes it a rotating one, no file name a single file.
GetMemoryWriter ==
  config \in [kind: Kinds, dated: BOOLEAN, compress: BOOLEAN]

NewMemoryWriter ==
  /\ GetMemoryWriter
  /\ config.kind = "file" => ~config.dated
  /\ config.kind # "rotating" => ~config.compress
  /\ disk = [p \in Paths |-> [at \in Seconds \cup {Nil} |-> [form \in Forms |-> Nil]]]
  /\ handle = [p \in Paths |-> "none"] /\ written = [p \in Paths |-> 0]
  /\ torn = [p \in Paths |-> 0] /\ unsized = {}
  /\ lock = Nil
  /\ stage = [a \in Appenders |-> "idle"] /\ job = [a \in Appenders |-> NoJob]
  /\ now = 0 /\ count = 0 /\ accepted = {} /\ overwritten = {} /\ faults = 0

AppendEntry(a) ==
  \/ \E s \in Sessions : Lock(a, s)
  \/ GetFile(a, "getFile", "check") \/ GetFileFails(a)
  \/ Unlimited(a) \/ Check(a)
  \/ GetFile(a, "getFileAgain", "write")
  \/ Write(a) \/ WriteFails(a)

Rotate(a) ==
  \/ Rename(a) \/ RenameFails(a)
  \/ CompressFails(a) \/ \E removed \in BOOLEAN : Compress(a, removed)
  \/ Reopen(a) \/ ReopenFails(a)

WriterNext ==
  \/ \E a \in Appenders : AppendEntry(a) \/ Rotate(a)
  \/ Close
  \/ Crash
  \/ PassTime

WriterSpec == NewMemoryWriter /\ [][WriterNext]_writerVars

----------------------------------------------------------------------------
(* Properties.                                                             *)

OnDisk(p) ==
  UNION {ToSet(f) : f \in {disk[p][at][form] : at \in Seconds \cup {Nil}, form \in Forms} \ {Nil}}

\* An entry whose Append succeeded stays on disk, in the session's file or in an
\* archive of it, through rollovers, rotations, failed calls and crashes.  The one
\* way to lose it is a second rotation of the same file within a second, whose
\* archive has the same name.
NothingLost ==
  accepted \subseteq overwritten \cup UNION {OnDisk(p) : p \in Paths}

\* A file of a rotating writer outgrows its limit by its last entry at most, or by that
\* and an only other one: an entry larger than the limit, and one for which the day ended
\* between the two times its path is resolved.  The pieces that short writes left in it
\* come on top, and a file opened without learning its size may grow by the limit again.
SizeBound ==
  config.kind = "rotating" =>
    \A p \in Paths \ unsized : Live(p) \notin {Nil, <<>>} =>
      LET rest == Front(Live(p)) IN Size(rest) <= MaxSize \/ Len(rest) = 1

=============================================================================
