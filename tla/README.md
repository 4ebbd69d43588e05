# Tokenomics: TLA+ models, model checking and proofs

Tokenomics is a reverse proxy for LLM APIs. A client presents a wrapper token; the proxy
finds the token's policy, enforces it (budget, rate limits, rules), calls the provider
with the real key, retries and falls back to other models, and records what was used.
This directory holds TLA+ models of its stateful parts, the TLC configurations that
check them, and TLAPS proofs of what matters most. `PROJECT.json` lists the components,
the runs, the theorems, the hazards, the mutated definitions that each property is
shown to detect, and for every definition the lines of code it models.

Paths below are relative to the repository (`src/`).

## 1. The system

### Components and how they interact

```
 client --HTTP--> dispatch (handler.go)
                    |  Lookup -------------> token store (bolt.go) <--- admin API, CLI
                    |                             ^      ^ file watch
                    |                             |      +-- remote sync, webhook receiver
                    |  path .../chat/completions: chat handler (handler_chat.go)
                    |     |- rate limiter (ratelimit.go)
                    |     |- session budget (memory.go | redis.go)
                    |     |- policy resolution, engine (internal/policy)
                    |     |- upstream calls, retries, fallbacks
                    |     `- stats, ledger, memory writers, event emitters
                    `- any other path: passthrough handler (handler_passthrough.go)
 serve.go starts all of it, and on a signal drains it and closes it in order
```

| Component | State | Operations | What makes it hard | What makes it correct |
|---|---|---|---|---|
| Rate limiter, `internal/proxy/ratelimit.go` | a bucket per token: the rules it was created with, windows, in-flight counter, time last used | `Allow`, `Acquire`, `RecordTokens`, `Release`, collection of idle buckets | check and count are in different critical sections; the time is read before the mutex; buckets are collected while requests run; a token's policy changes under its bucket | the counter is the number of requests in flight; a window bounds what was admitted; nothing is refused without a reason |
| Session budget, `internal/session/{memory,redis}.go`, `reserveInputBudget` and `releaseReservedInputBudget` of `handler_chat.go` | a usage counter per token, a mutex per proxy, the reservation of each request | reserve, charge, release | check-then-add; several proxies on one Redis counter; store calls that fail after taking effect or take it twice; a proxy that dies with reservations | prompts admitted fit the budget; nothing is charged twice or left behind |
| Chat handler, `internal/proxy/handler_chat.go` | per request: reservation, retry loop, last response | admission, calls, retries, fallbacks, streaming and buffered responses, deferred calls | a dozen early returns, each with its own obligations; deferred calls depend on flags set in the loop | counter, statistics, limiter, ledger and events agree; calls follow the schedule; every request is answered |
| Token store, `internal/store/bolt.go` | database file, in-memory cache, watcher | `Create`, `Update`, `Delete`, `Reload`, `Lookup` with eviction, `StartFileWatch`, `Close` | reloads overlap; eviction re-takes a lock; the watcher races with writers | the cache is one committed database; what is deleted is gone; nothing but expired entries is evicted |
| Dispatch, `internal/proxy/handler.go` | map of open memory writers | token lookup, routing, `getMemoryWriter` | the writers it opens are never closed at shutdown | a request runs under one stored, valid policy |
| Passthrough, `internal/proxy/handler_passthrough.go` | none | one upstream call | `ReverseProxy` panics when the body breaks off, and nothing after the call runs | an answered call has its ledger entry |
| Policy, `internal/policy` | none | `ResolveForModel`, `ResolveProvider`, `mergeProvider`, rules, masking, prompts | several providers match a model and are visited in map order | the key, rules and prompts that go upstream belong to one provider that matches |
| Statistics, `internal/proxy/stats.go` | usage by model and key, and by token | `Record`, reports of two snapshots | a report takes the lock twice | a report does not contradict itself |
| Event emitters, `internal/events` | a queue of 256 and a worker for each webhook | `Emit`, delivery with three attempts, `Close` | full queue, slow receiver, emit while closing | first in first out; `Close` drains what was accepted before it |
| Webhook client registry, `internal/remote/client_registry.go` | database of clients, map of emitters | `Register`, `Unregister`, `Emit`, `Close` | database write and map insert are not atomic; an emitter drains under the lock | an emitter for each registration, closed once; every call returns |
| Remote sync and receiver, `internal/remote/{remote,webhook_receiver}.go` | local store, time of the last sync, the proxy's registration | `SyncTo` at start, from the ticker and pushed; debounce; registration and its removal | syncs interleave and write back what they fetched earlier; events are lost or dropped; calls fail | the local store converges and never mixes two versions |
| Memory writers, `internal/session/memory_writer.go` | open files, bytes written | `Append`, rollover, rotation, compression, `Close` | a rotation fails half-way, archives with one name, midnight inside an `Append`, `Append` after `Close` | no entry is lost; files keep to their limit |
| Ledger, `internal/ledger/ledger.go` | requests and events of the session | `Open`, `Record*`, `Close` | requests that end while or after `Close` copies | the session file agrees with itself and has every answered request |
| Lifecycle, `cmd/serve.go` | what was deferred, the two servers | start, signal, drain with a time limit, deferred closes | handlers outlive the drain; TLS fails when HTTP serves already | a stopped server exits and closes in order |
| Process control, admin API, CLI, configuration, crypto, token counting, logging, compression, TLS | files or nothing | - | mostly sequential or stateless | - |

Every component is in `PROJECT.json` with its status; each hazard is there with its
line and the properties that cover it.

## 2. Modules

| Module | Models | Role |
|---|---|---|
| `RateLimiter` | `ratelimit.go` | the limiter under interleaving requests and passing time |
| `BudgetLedger` | `docs/FEATURES.md:9` | abstract specification: an account book of one token |
| `SessionBudget` | `reserveInputBudget` and its counterparts, the two stores | refines `BudgetLedger` until the first fault |
| `ChatHandler` | `handleChatCompletions` | refines `BudgetLedger` |
| `TokenStore` | `bolt.go` | database, cache, reloads, watcher, lookups |
| `EventChannel` | `docs/EVENTS.md`, "Delivery" | abstract specification: bounded FIFO channels |
| `WebhookEmitter` | `internal/events/webhook.go` | queue, worker, attempts; the part of an emitter, and the mapping to `EventChannel` |
| `ClientRegistry` | `client_registry.go`, `cmd/remote.go`, `multi.go`, `buildEmitter` | EXTENDS `WebhookEmitter`: all emitters, with the registry or without a lock; refines `EventChannel` |
| `RemoteSync` | `remote.go`, `webhook_receiver.go`, their part of `serve.go` | a proxy and the central server it copies |
| `MemoryWriter` | `memory_writer.go`, `getMemoryWriter` | file, directory and rotating writers |
| `PolicyResolution` | `internal/policy` | operators on policies: parsing, matching, merging, rules |
| `UsageStats`, `SessionLedger` | `stats.go`, `ledger.go` | state and operations that `Serve` composes |
| `Serve` | `serve.go`, dispatch, both handlers | EXTENDS the three above: the server from start to exit |
| `Sums` | - | sums over finite sets: prompts of requests, sizes of entries, usage in a table |
| `MC...` | - | instances for TLC, one module per composed system |
| `SumTheorems`, `RateLimiterProofs`, `SessionBudgetProofs`, `ChatHandlerProofs`, `TokenStoreProofs`, `ClientRegistryProofs`, `RemoteSyncProofs`, `ServeProofs` | - | theorems and proofs |

### RateLimiter

A request is a process with the places `new`, `looked` and `allow` (inside `Allow`, before and
after it reads the time), `admitted`, `running`, `denied`, `done`. `AllowEnter` is `getBucket`,
a critical section of its own: it collects idle buckets, looks the token's up and stamps it with
a time it reads itself. `AllowRead` holds no mutex: it compares the parallel counter and reads
the time that the windows are asked with. `AllowDecide` is the critical section: rules are read
in order, reading a fixed window rolls it, and only a request that passes all of them is
counted. `Acquire`, `RecordTokens` (prompt, then completion) and `Release` are one action each.
Time passes and other requests run between any two of these, so a bucket's stamp is older than
the time of the request that looked it up, and that time is older than the decision.

A sliding window holds the *identities* of the requests and `RecordTokens` calls it
counts; their times are in `stamp` and `used`. That keeps the same information as the
code's list of entries, and lets the properties compare what a window counts with what
was really admitted. `parseWindow` is abstracted to the durations of the rules,
which are positive: a window of "0s" would count nothing at all. `2 * MaxStall <= StaleAfter` is
the one assumption about time: no request takes half a day from `getBucket` to the reading of the
time (where it may wait for the processor), nor from there to `Acquire` (where it waits for the mutex).

### BudgetLedger, SessionBudget

`BudgetLedger` says of each request of a token whether its prompt is held, settled,
returned or refused, and how many completion tokens were charged. `Slack` is what
concurrent proxies may overrun a budget by, 0 for one proxy.

`SessionBudget` splits the reservation at its two store calls, with `Handler.budgetMu`
held between them, one mutex per proxy and one counter for all: with one proxy this is
the memory store, with several it is Redis. A store call may fail with or without
having taken effect. The Redis client is built with its default `MaxRetries` of 3
(`redis.go:16-20`), so a call whose reply is lost is sent again and may be applied several
times, whether it then returns or fails: `Add` and `Subtract` are a call applied `k` times,
and `MaxSends` is how often one can be sent. A proxy may crash. `MaxFaults` bounds failed calls,
calls applied more than once and crashes together. A call is applied before it returns
or not at all: a command that a slow server applies after the client has given up on it is left
out. `excess` is the history of what repeated releases took beyond the reservation they
gave back, the one fault by which the counter falls below the prompts it stands for. The
refinement maps the moment of a request's comparison to `Hold`: completions of other
requests may be charged between the comparison and the increment, so the increment
itself would be too late.

### ChatHandler

One action per way through `handleChatCompletions` between two points where other
requests matter: the refusals of admission, `Reserve`, each outcome of an upstream call
(`NetworkError`, `Retry`, `Use`), `Exhausted`, the three ways a response ends
(`Stream`, `Buffered`, `BodyFails`), and `Leave` for the deferred calls. `calls[r]` is the
history of upstream calls, which the properties read; nothing in the model depends on it.
Details that the model keeps because the code has them:

- `shouldRetry` is false when `max_retries` is 0 (line 796), so fallbacks are tried only
  by policies that retry (see the findings).
- "last attempt" compares the model *by name* with the last of the schedule (line 517).
- The context of the call is cancelled before its body is read (line 530), so a call that
  succeeded may still end as `BodyFails`, with its prompt charged.
- Fallback models use the policy that was resolved for the first model.
- A request that was refused, and one whose calls were exhausted, has statistics but no ledger
  entry. `docs/LEDGER.md:43` says "Every proxied request is recorded with token counts" and
  `docs/LEDGER.md:310` "Proxy records every request to the in-memory session"; whether the code or
  the text is meant, no property says: `RecordsAgree` asks for the entry of a request whose
  response was used, and for one at most.
- `lastResp` is kept for its status only; the body sent with it is empty.
- Completions are charged after the response, without looking at the budget.

The model check, rules, masking, prompts, key and communication events of a chat request
are in `Serve`. Left out of both: the memory log of the conversation (its writer is
`MemoryWriter`), the OpenClaw events, the events of rules that warn, log or mask, and a
response writer that cannot flush (`net/http`'s can).

### TokenStore

The database is the sequence of its committed versions: bbolt's read transactions see
the version at which they started. A writer commits and then reloads (`Snapshot`, then
`Swap` under the mutex); so does the watcher when the file's modification time moved.
A record that this process cannot decrypt is `sealed`, and `Load` skips it. `SeeExpired`
and `Evict` are the two lock sections of `Lookup`. Assumed of the environment: every
commit changes the file's modification time, and only this process writes the file
(bbolt locks it).

### EventChannel, WebhookEmitter, ClientRegistry

`EventChannel` is a channel per receiver: an event offered to a full one is lost, the oldest
is tried up to `Attempts` times and settled, and what a channel held when its closing began
(`owed`) is settled before it is closed. `WebhookEmitter` has the state of one emitter, the
queue, the `done` channel and the worker: `Receive`, `SeeDone`, `AttemptAgain`,
`AttemptLast` and `Drained` are the steps of the worker's loop. The select of the worker is
a choice, so after `done` is closed it may still go on receiving. docs/EVENTS.md
says "retried up to 3 times"; the code makes three attempts in total.

`ClientRegistry` has a read-write mutex as `writer` and the set of goroutines that offer an
event under the read lock. `RegisterStore` and `RegisterInsert` are the two halves of
`Register`, as the database write does not take the mutex; `UnregisterDelete`,
`UnregisterLock` and `UnregisterFinish` are those of `Unregister`, which waits for the
emitter to drain with the mutex held, and so does `Close`, one emitter after the other.
Client ids are drawn at random and used once (`used`). An `Unregister` that overtakes
the map insert of its `Register` leaves an emitter that nobody can stop; those are
recorded in `overtaken`. In the command that serves the registry
(`tokenomics remote`) nothing writes the token store, so its events come from
other users of the emitter interface; the model lets any goroutine emit.

The webhooks of the configuration have emitters too (`buildEmitter`, one or a `Multi`), in
`runServe` and, beside the registry, in `runRemote`. They never change and have no lock, so
`Emit` and `Close` may overlap. `host` says at the start which kind the behaviour has: with
"server" the emitters are those of `db`, nothing registers or unregisters, an event
goes to all of them (`Offered`), and `CloseLock` waits for nobody and takes no lock, while
handlers that outlived the drain of the HTTP server may be offering events. A worker that
drains may still deliver those; offered after it has returned they stay in the queue. So
`docs/EVENTS.md:271`, "On shutdown, the queue is drained before the process exits", holds of a
registry, and of a server only for what was accepted before `Close`: `NothingStranded` says
so. Without its condition on `host` it is violated, by one event offered after `Drained`.
In the mapping to `EventChannel` a closed channel holds nothing and takes nothing.

### RemoteSync

`versions` is the central store with its past, so that a sync which fetched an earlier
version can be told from one that mixes two. A syncer (the first sync of `runServe`, the
ticker's, those pushed by webhook) fetches all tokens in one step and then reads
(`SyncGet`) and writes (`SyncPut`) each token; syncs do not exclude each other.
`SyncPut` updates with the expiry of the central record, and the empty value means "keep":
a cleared expiry never reaches the local store. Tokens deleted centrally stay: syncing is
additive. `unreadable` are the tokens whose local record `Get` cannot decrypt or parse, found
or made so at a start of the process: each sync skips them, so they never converge until the
operator deletes the record (`Converges` leaves them out). A push is accepted unless an earlier one was within `Second`; its time is
noted before the sync, and stays when the sync fails. `life` is the part of `runServe`
around it: boot, registration, serving, and the deferred calls, which run last in first
out. A proxy with `sync: 0` has pushes only; it does not converge when one is lost, and
the model always has the ticker.

### MemoryWriter

`disk[p][at][form]` is what is in a file: `at = Nil` is the file written to, a second is the
archive renamed in that second, in its plain or its compressed form. `Append` holds the mutex for all
of its steps, so they interleave with the clock, with failing system calls and with a
crash, not with each other. The code resolves the path up to three times in one `Append`,
and the day may end between: then rotation is skipped, or the count goes to another file.
What the code does after a failure is kept:

- a rename that fails leaves the closed file in the map, and appends fail until one is
  large enough to try the rotation again, or the day changes;
- so does a new file that cannot be opened;
- when `Stat` fails after a file was opened its count starts at 0 (`unsized` notes the path until
  the file is rotated), and the piece of an entry that a short write leaves in a file is not
  counted until the file is opened again (`torn`): both let a file outgrow its limit further,
  and `SizeBound` says so;
- a second rotation of a file in one second overwrites the archive, or its compressed form.

`config` is what `getMemoryWriter` makes of the policy's memory section. Its Redis branch
cannot be reached, and the handler's writers are not closed at shutdown.

### PolicyResolution, UsageStats, SessionLedger, Serve

A request of `Serve` looks its token up and gets one of the texts the token may be given
that is valid (`Validate`); a policy written meanwhile concerns later requests. Then it is
refused or forwarded (`Forward` has the resolved policy, the rules, the masked messages,
the prompts, the upstream and the key in the order of the code), answered, metered, and
recorded. A text is the set of subjects in it, a pattern the set of models it matches. Two
providers may match a model; the code visits them in Go's map order, so `Resolutions` is a
set. A provider's pattern keeps the global exact model, and an exact model drops the global
pattern, as in `mergeProvider`. Messages whose content is no string skip the rules
(`NotText`). Passthrough requests ignore provider policies, rules, limits and
statistics; their ledger entry has the default provider, and that of a chat request the
one it was routed to, perhaps none. `PassAborted` is `ReverseProxy`'s panic.

`main` is `runServe` up to its exit, with `deferred` as the stack of deferred closes; each
server has a shutdown goroutine whose drain may time out (`DrainTimesOut`). The comment
of serve.go:355-358, that the database is closed once no handlers run, is true
of a drain in time only: not after `DrainTimesOut`, an error of a server, or
certificates that cannot be loaded when the HTTP server is up (`NoCertificates`). Limits, budget and
retries are in the other modules; here a request may be refused (`Refuse`), the calls for one
model are one, and any fallback of the policy may be called next (`Fallback`). A fallback call
changes the model of the body and nothing else: provider, upstream, key, rules and prompts are
those of the model the client asked for, and `CheckModel` is not asked again
(`handler_chat.go:394-416`). `docs/MULTI_MODEL_ROUTING.md:166` has it that "Each fallback model
goes through the same resolution process"; `ForwardsAllowed` is stated of what the code does. The
statistics count the prompt of a request that the budget refused, and 0 for other refusals; a
chat whose body breaks off is recorded with its prompt and `response.error` (`broken`). An
upstream that `url.Parse` rejects is answered with 500, by both handlers.
Admin writes are TokenStore's writers; the emitters of `runServe` are those of a server in
`ClientRegistry`, its remote sync is in `RemoteSync`. `duration_ms` and `rule_violation_count` of the ledger
are always 0, against docs/LEDGER.md:108 and :131, and left out. So are a provider
named with an empty list and passthrough requests without a body.

## 3. Runs

| Run | Bounds | Shows |
|---|---|---|
| `rate_limiter` | 3 requests of one token, two policies (parallel limit with a fixed rule; sliding request and token rules), windows of 2 instants, buckets kept for 4, a stall and a flight of 1, clock to 5 | `ParallelIsHolders`, `SlidingBound`, `FixedBurst` (two windows' worth, never three), `TokenGate`, `NoFalseDenial` hold |
| `rate_limiter_parallel` | `max_parallel` 1 | two requests get in (finding) |
| `rate_limiter_long_window` | a token window exactly as long as a bucket is kept | the window forgets the tokens of a long flight (finding) |
| `session_budget` | two proxies, five requests (three on one proxy, one unmetered), prompts of 1, budget 2, calls sent twice at most, one fault | `UsageIsOwed`, `InputsCovered`, `InputCap`; the counter refines the book until the first fault; all requests settle |
| `chat_handler` | three requests: two with a budget for one prompt, one retry and one fallback, one plain; codes 200, 400, 503 | records agree, calls follow the schedule, the handler refines the book, every request is answered |
| `chat_handler_fallback` | one request, fallback without retries | the fallback is not tried (finding) |
| `token_store` | one writer, watcher, one reader, two tokens, two policies, two commits, one instant at which tokens expire | the cache is always one version, evictions are of expired entries, the cache catches up |
| `token_store_stale` | two writers, two commits | a deleted token is served for good (finding) |
| `event_delivery` | two clients, two goroutines and `Close`, two events, queues of 1, three attempts, one restart | with a registry and without a lock: the emitters refine `EventChannel`; what was accepted before `Close` is delivered, a registry strands nothing; no emitter is closed twice; map and database agree; every call returns |
| `remote_sync` | one token, two policies, one expiry, the first, the ticker's and one pushed sync, one central write, two faults, clock to 1 | records are not mixed, registrations are cleaned up, the local store converges (but for records it cannot read) |
| `memory_writer` | two sessions, two goroutines, entries of sizes 1, 2, 1, 3 and a limit of 2, midnight at second 1, clock to 2, two faults; every kind of writer | no entry is lost but to an archive of the same name; the entries of a file outgrow its limit by one, unless it was opened without learning its size |
| `serve` | one chat request on HTTP, one passthrough request on HTTPS, two models, two providers that both match, three keys of which one is not set, one fallback, an upstream that does not parse, the HTTP server may fail, one report at a time | what goes upstream is allowed, reports agree, the session file is whole, a stopped server exits |

Why the bounds are enough. Three requests make a window full, stale and full again, and
leave one to be counted wrongly; the clock covers two full windows and the collection of
a bucket. Two proxies are what it takes to overrun a shared counter, three requests on
one of them to contend for its mutex and to be refused. Two models with two attempts
each reach every place of the retry loop, and the third request shares the counter and
the limiter. Two commits leave the watcher one version behind while it is
reloading another. A queue of one is full while its worker backs off, and two events and
two goroutines fill it, overtake each other and meet `Unregister` and `Close`; the restart
finds registrations. Two policies with and without an expiry are what two versions can be
mixed from, and three syncs overlap with one change between them; the two faults are a
failed call or a crash in each half of a run. Four entries with a limit of two rotate
twice, in the same second or not, on either side of midnight, and the two faults break a
rotation and then hit the retry. In `serve` one request of each kind runs through every exit while the
server is at any point of its shutdown. The bounds `MaxTime`, `MaxStall`, `MaxFlight`, `MaxFaults`,
`MaxSends`, `MaxWrites`, `MaxRestarts` and `Failing` cut behaviours short and add none.

Deadlock is not checked: in every model the requests end and the clocks stop. That
everything *does* end is checked as liveness where something could block (`AllSettle`,
`AllAnswered`, `OperationsEnd`, `ShutdownEnds`).

### Fairness

- `SessionBudget`, `ChatHandler`: weak fairness of each request's own steps. Goroutines
  are scheduled, `sync.Mutex` is starvation-free, and upstream calls end by their
  timeout. A store call that fails, a crash and the failure of a release are not fair.
- `TokenStore`: weak fairness of a started reload and of the watcher's tick; writers,
  readers, time and `Close` are not fair.
- `ClientRegistry`: weak fairness of the goroutines inside a call, of each worker, and of a
  `Close` that has begun. An attempt ends by the HTTP client's timeout, a pause by its timer,
  and Go's `RWMutex` lets a waiting writer in before new readers. Requests, events and
  restarts are not fair.
- `RemoteSync`: weak fairness of a sync that has begun, of the ticker, and of `runServe` until
  it serves and after its signal. Pushes, failures and the signal are not fair.
- `Serve`: weak fairness of `runServe` and of the shutdown goroutines; a drain ends when
  the handlers have returned or its ten seconds are over. The requests are not fair.
- `RateLimiter` and `MemoryWriter` have safety properties only and no fairness.

### Findings

Each is the counterexample of a run with `expect: violation`, and quoted with its
documentation in `PROJECT.json`.

1. `max_parallel` is checked by `Allow` and counted by `Acquire`, later and in another
   critical section: requests that arrive together all pass.
2. A bucket is collected 24 hours after `Allow` last looked it up, whatever its windows, and
   reporting tokens is not a look: with a window of 24 hours the tokens that a long request
   reported late in its flight are forgotten while they are still in the window. (So may be the
   requests, by the time that passes between `getBucket`, which stamps the bucket, and the reading
   of the time: `SlidingWindows` has `ShortWindows` as its hypothesis, a window and a stall are no
   longer than a bucket is kept, and `TokensGated` the stronger `KeptThroughFlights`, which this
   run violates.)
3. With `max_retries: 0` a retryable status of the first model is final, and no fallback
   is tried.
4. Two overlapping reloads may install their snapshots in the wrong order. The watcher
   may be one of the two, and then nothing reloads again: a deleted token stays valid
   until the next write.

## 4. Proofs

Checked by TLAPS for every value of the constants, from the named assumptions of the
modules.

| Theorem | Module | Statement |
|---|---|---|
| `TypeCorrect` | `RateLimiterProofs` | `Spec => []TypeOK`; the parallel counter is a natural number |
| `CounterExact` | `RateLimiterProofs` | `Spec => []ParallelIsHolders` |
| `SlidingWindows` | `RateLimiterProofs` | if every window and a stall are no longer than an idle bucket is kept, `Spec => []SlidingBound` |
| `FixedWindows` | `RateLimiterProofs` | under the same condition, `Spec => []FixedBurst` |
| `TokensGated` | `RateLimiterProofs` | if a bucket is kept for a sliding token window, a flight and a stall, `Spec => TokenGate` |
| `DenialsDue` | `RateLimiterProofs` | `Spec => NoFalseDenial` |
| `SumCounts` | `SumTheorems` | the sum over a finite set is the number of its units |
| `SumByParts` | `SumTheorems` | the sums over the parts of a set add up to the sum over it |
| `TypeCorrect` | `SessionBudgetProofs` | `Spec => []TypeOK` |
| `CounterExact` | `SessionBudgetProofs` | `Spec => []UsageIsOwed`: until a fault the counter is what is owed |
| `CounterCovers` | `SessionBudgetProofs` | `Spec => []InputsCovered`: after any fault it covers the prompts, but for what repeated releases took |
| `BudgetHeld` | `SessionBudgetProofs` | `Spec => []InputCap`: within a budget, one prompt for each other proxy and what repeated releases took |
| `CounterKeepsBook` | `SessionBudgetProofs` | `Spec => KeepsBook`: the counter implements `BudgetLedger` until a fault |
| `TypeCorrect` | `TokenStoreProofs` | `Spec => []TypeOK` |
| `OneVersion` | `TokenStoreProofs` | `Spec => []CacheIsAVersion` |
| `EvictionSafe` | `TokenStoreProofs` | `Spec => EvictsOnlyExpired` |
| `TypeCorrect` | `ClientRegistryProofs` | `Spec => []TypeOK` |
| `ClosesOnce` | `ClientRegistryProofs` | `Spec => []ClosedOnce` |
| `DrainsAll` | `ClientRegistryProofs` | `Spec => []NothingStranded` |
| `MapAgrees` | `ClientRegistryProofs` | `Spec => []MapMatchesDatabase` |
| `Refines` | `ClientRegistryProofs` | `Spec => KeepsChannel`: registry and emitters implement `EventChannel` |
| `NoMixedRecords` | `RemoteSyncProofs` | `Spec => []RecordsAreVersions` |
| `RegistrationsCleanedUp` | `RemoteSyncProofs` | `Spec => []OnlyFaultsLeaveRegistrations` |
| `KeepsEntries` | `ServeProofs` | `WriterSpec => []NothingLost` |
| `KeepsSize` | `ServeProofs` | `WriterSpec => []SizeBound` |
| `ForwardsAreAllowed` | `ServeProofs` | `Spec => []ForwardsAllowed` |
| `SessionFilesWhole` | `ServeProofs` | `Spec => []SessionFileWhole` |
| `ReportsAlwaysAgree` | `ServeProofs` | `Spec => ReportsAgree` |
| `CallsFollowSchedule` | `ChatHandlerProofs` | `Spec => []CallOrder` |
| `AllAreTried` | `ChatHandlerProofs` | `Spec => []TriesEverything` |
| `RecordsOfOneRequest` | `ChatHandlerProofs` | `Spec => []RecordsAgree` |
| `TypeCorrect` | `ChatHandlerProofs` | `Spec => []TypeOK` |
| `LedgerExplains` | `ChatHandlerProofs` | `Spec => []LedgerExplainsUsage` |
| `PromptsFit` | `ChatHandlerProofs` | `Spec => []InputCap` |
| `HandlerKeepsBook` | `ChatHandlerProofs` | `Spec => KeepsBook`: the handler implements `BudgetLedger` |

**The limiter.** `ParallelIsHolders` is not inductive: `Release` lowers the counter only if
the bucket is there, and collecting a bucket drops its counter. `Counter` adds that a
token without a bucket has counter 0, and as a bucket is collected only at 0 the counter
never changes by a collection (`KeptParallelIsParallel`). `SlidingBound` needs more. It
compares the requests admitted in the last window, by their real time stamps, with the
rule's limit, but the limiter only knows its window. `RememberedBy` says the window still
holds every admitted request young enough to matter, and holds no more than the limit:
`Allow` admits only while fewer than the limit are left after pruning. The window is
pruned with the time of the request that looks, which is never later than the clock, so
nothing is pruned too early, however the requests overtake each other between reading
the time and the mutex. A collected bucket forgets; `Forgotten` says all it has
forgotten is older than `Kept`, which is `StaleAfter` less the stall by which the stamp of a bucket
may be older than the time its request read; this is where longer windows fail
(finding 2) and why the theorem has a hypothesis. `Timing` ties the two: a request that
has looked its bucket up reads the time within `MaxStall` and decides within `MaxStall` of that,
so its bucket is not collected under it (`StaleIsIdle`). `IInv` is the conjunction; there is a
lemma for each action.

`FixedBurst` is about identities that a fixed window does not keep: it only has a count and a
start. `TwoWindows` says there are two sets that the recent requests are made of, the
predecessor's (all stamped before this window started) and the window's own (all
stamped before it ends, and no more than it counts). A window starts again only when it has
run its length, by the time of the request that looks; the predecessor's requests
are then older than a window and drop out, and its own take their place
(`TwoWindowsRolled`). This holds although requests that read the time early are counted
by later windows, because nothing in it needs the stamps of a window to be after its start.

`NoFalseDenial` and `TokenGate` are about single steps of `Allow`, and each needs to know what a
window is made of. `Honest` says that a window counts nothing that was not there: its entries
are admitted requests and reported calls, and for its counters there are a set of requests and a
set of calls, large enough and not older than its start (a request by at most a stall, since
it is counted with the time it read). So a window that turns a request away has a set to show
for it, whatever was collected or started again (`ExceededIsEnough`). `TokensKnown` is the
converse: a sliding window has every call that is younger than its length. It survives
collection because a forgotten request is older than `Kept` and its calls were made in its
flight (`Flights`, `ForgottenCalls`), which is where `KeptThroughFlights` is needed: a window of
the full `StaleAfter` is too long by a flight (finding 2).

**The sums.** `UsageIsOwed`, `InputCap`, `TokenGate` and the account books speak of sums over sets of
requests. `SumOver` folds with the community modules' recursive function, of which nothing
can be proved by the induction theorems of the library (they take an operator). `SumTheorems`
instead compares the function with another that solves the same equation, the number of
the pairs `<<x, k>>` with `k` in `1..f[x]`: if the two differed there would be a smallest set
on which they do (strict inclusion is well-founded on finite sets), and there is none
(`SolutionUnique`). What is known of cardinalities then gives what sums do when an
element joins, leaves or changes, and that fewer elements sum to less.

**The session budget.** `Account` says what a request has reserved, committed and been charged
at each of its places; `Covered` that the counter with `excess` is at least what is owed, and
the counter alone exactly that as long as nothing has failed. A step changes what one request
owes and the counter by the same amount (`AccountStep`), or it is a fault and the counter is not
lowered by more than `excess` grows (`CallAdds`, `CallSubtracts`). `InputCap`
alone is not inductive: when a request returns its prompt, the request whose budget held
the others may be gone. `Capped` says it of *every* set of requests that are counted, so of the
ones that remain, too. A reservation succeeds only if the counter with its prompt fits its
own limit, except that other proxies may be between their reading and their addition: one
request each, because each holds its proxy's mutex (`Holding`), hence the slack `Overrun`.
For the refinement the book's charges are the same sums, and each step is one of the book's or
leaves it alone.

**The store.** A snapshot in flight is a committed version (part of `TypeOK`), versions
are never removed, and what has expired stays expired; so whatever a `Swap` installs and
whatever a lookup evicts, the cache shows one version.

**The registry.** None of its invariants is inductive. The strengthening says who may hold the
write lock and with which argument (`Locks`, `Arguments`), what state an emitter is in
(`Emitters`), and which of them have an owner (`Owners`). The argument: whoever closes an
emitter of a registry holds the write lock and keeps the emitter in the map until it has
drained, so no second goroutine finds it there and none offers it an event;
since ids are used once, no `Register` puts another emitter in its place. Of a server only
`Main` closes, one emitter after the other. From this `ClosedOnce` follows for any number
of clients, goroutines, events and any queue size. The refinement maps a queue with the event
in the worker's hand to `pending` until the worker has returned, and needs one more invariant
(`OwedHeld`): an emitter owes no more than it has coming. A worker that has returned has nothing
coming, so `NothingStranded` rests on `OwedHeld` as well. Each step of the emitters maps to
one step of `EventChannel` or none; an event offered to an emitter that is closing
is an `Offer`, one offered to a closed emitter a stutter.

**Remote sync.** Two inductive invariants that do not need each other. `RecordsInv` says that
what any syncer has fetched and read, and what is stored, are records of central
versions up to a kept expiry, so overlapping writes cannot mix two of them.
`RegistrationsInv` counts the registrations that belong to no running proxy against the faults.

**The memory writers.** `Control`: the mutex has one holder and this goroutine knows its
session, path and archive. `OnDiskInv`: an open handle has a file; between the rename and
the new file there is none, so creating it truncates nothing. `Kept`: every accepted entry
is in some file or in an archive that was overwritten. Each file operation changes one
place of the disk (`PutChanges`), and `PutHolds` says an entry stays unless it was there.

`SizeBound` (for files that are not in `unsized`) says nothing of the count a writer compares with its limit, and a write may be
counted for a path that is not the file's: the path is resolved again. `Sized` separates today's
files from those of the day before. Today's are `Small`, so they may take one more entry, and while
they are open their count is at least the size of their entries (a session has one handle, so a write that is counted for
another path is counted nowhere). A file that passes the check without the comparison is the day
before's, is small at that moment, and is never written to again. After a rotation the entry goes
to an empty file even if the day ends in between, because nobody else could make the new
day's file under the mutex. Sizes are sums over a file's positions, with the theorems above.

**The chat handler.** `Position` says how many calls a request has made when the loop is at
model `i` and attempt `a`: `m * (i - 1) + a`, where `m` is the number of attempts for
each model. The call made next is therefore number `m * (i - 1) + a + 1`, and its model is
the one `CallOrder` computes by division (`Quotient`, `WithinSchedule`). `Follows` adds that
all calls have failed as long as the loop goes on, and `Tried` that a failed response is
used only at the last position. `RecordsInv` says what has been recorded at each place of
the handler: nothing before a response is used, then the budget event and the limiter's
prompt tokens, and records that agree from the moment the deferred calls run. It needs
`Position` to know that a request whose loops ran out has called at least once.

The budget is about all requests at once. `MeaningOfStep` sorts the steps of a request
into six meanings for the book: idle, holds, refuses, settles, charged, returns. `Purse` says
that a prompt is reserved as long as the book counts it, `Pursed` that the counter is what is
reserved and what the ledger says was answered, and `Capped` is the argument of the session
budget, here without a slack, since reading and adding is one step. `LedgerExplainsUsage` is
`Pursed` at rest, term by term (`ChargesAtRest`);
`KeepsBook` is the six meanings. `Counted` is the limiter's count of requests in flight, without
which its type could not be shown.

**The server.** `ServeProofs` has the proofs of `Serve` and, with an initial condition and a
next-state relation of their own (`WriterSpec`), those of the memory writers.

`ForwardsAllowed` has two halves. The first is about the operators of `PolicyResolution` and
holds of any policy that parses: what `ResolveForModel` returns is the global policy or
the merge with the first policy of a provider that matches (`ResolutionCases`), the provider's
own key comes before the global one (`OwnKeyFirst`), and when none matches it is the global one or
that of the default provider (`KeyIsGlobal`), the rules it is held to are the compiled
rules of both (`RulesHeld`), and messages that are not blocked and are masked by these rules
hold nothing that one of them forbids or masks (`MaskedIsAllowed`); `ForwardIsAllowed` puts
them together. That a rule is masked for good needs that masking only removes subjects.
The second half is the server's: `CallsInv` says that until its handler returns a request holds the
policy its lookup gave it, a valid one of its token, so that what was sent is compared with the
policy that it was resolved from; a fallback call only changes its model.

`ReportsAgree` is about two copies at two moments. `UsageInv` says that usage by model is never
more than usage by token, in requests and in tokens, and that what a report has copied of the
first is no more than there is now: usage only grows. It is kept because `Record` adds the
same to both tables under one lock; a key that is not in the table of models only makes the first
smaller.

`SessionFileWhole` needs three invariants more. `LifeInv`: a server that is off has no requests, one
that is shut down takes no new ones, none is left when its drain is over, and all drains are over
when `runServe` returns, unless requests were cut off. `LedgerInv`: what an open ledger has been
told of a request at each of its places (`Told`: it has started when it is metered, has its
entry before its last event and exactly one entry), and that entries and events agree
(`Agree`). `CopyInv`: `Close` runs when `runServe` has returned, its copies agree although
handlers that outlived the drain go on recording, because what is copied is a state of the
ledger, taken under its lock; and when none was cut off every request is at its end, so
each one that was answered has its entry (`AllEntered`). The rollups are sums over the parts
of the entries, so they add up to the totals by `SumByParts` (`RollupsAdd`), and those by provider
leave out the entries without one (`RollupsWithin`).

What is assumed of the constants: there are finitely many requests, tokens and keys of the
statistics; policies have the fields of the structs of `policy.go`, with any strings as actions and scopes
(`RequestsAssumption`, `StatsAssumption`); and the value that stands for "empty" is no name, no
model and no set of subjects (`ValuesAssumption`).

Only model-checked is liveness (`AllSettle`, `AllAnswered`, `CacheCatchesUp`, `OperationsEnd`,
`Converges`, `ShutdownEnds`), which needs fairness and with it `ENABLED`.

## 5. Not modelled

- **Process management** (`cmd/daemon.go`, `start.go`, `stop.go`, `run.go`, `status.go`): pid files and
  signals of single-shot commands, which keep no state but the pid file.
- **Token encryption** (`internal/store/crypto.go`): stateless. `TokenStore` has records that can
  be read and records that cannot.
- **Token counting, request transformation, PII patterns**: text processing. Numbers of
  tokens are constants, texts are sets of subjects, and the models choose what matches.
- **Logging, configuration, TLS certificates**: output, or read once at start. That
  certificates cannot be loaded is an outcome in `Serve`.
- **Ledger analytics and the command-line tools**: they read session files that are already
  written, or call the operations modelled elsewhere.
- In modelled components: the OpenClaw metadata and events; the extraction of token
  counts from passthrough bodies; header parsing and authentication of the receiver;
  error counts and latencies of the statistics; `Reset` of the session stores, which is
  never called; `duration_ms` and `rule_violation_count`.

## Running

```
tlc -config MCRateLimiter.cfg MCRateLimiter     # likewise the other MC*.cfg
tlapm RateLimiterProofs.tla
tlapm TokenStoreProofs.tla               # likewise SumTheorems.tla and the other
                                         # *Proofs.tla
```
