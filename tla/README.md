# A TLA+ verification of Golectra

Golectra collects runtime and host metrics in an *agent*, sends them over HTTP
to a *server*, and keeps them in memory with a JSON snapshot on disk, or in
Postgres. This directory holds TLA+ models of its parts, the TLC runs that
check them and the TLAPS proofs about them. `PROJECT.json` lists the runs, the
source lines behind every definition, a faulty variant for every property
checked, and the hazards the properties are aimed at.

## 1. Inventory

| Part | State | Operations | Talks to |
|---|---|---|---|
| Domain, ports (`internal/domain`, `internal/ports`) | metric values and types | | everything |
| Memory repository (`adapters/repository/memory`) | two maps, one RWMutex | SetGauge, AddCounter, UpdateMany, GetGauge, GetCounter, Snapshot, Ping | service |
| Postgres repository (`adapters/repository/postgres`) | table `metrics`, one row per name | the same, each under `misc.Retry`; UpdateMany as a transaction | service, database |
| File persister (`adapters/persistence/file`) | snapshot file, temporary files | Save, Restore | service callback, ticker, start-up |
| Metrics service (`services/metrics`) | audit channel, dispatcher, its cancel function | Upsert, UpsertBatch, Get, Snapshot, Close | repository, `onChanged`, audit subject |
| Audit (`pkg/observer`, `adapters/audit`) | list of observers; what each sink has recorded | Publish; Notify of the file writer and the remote client | dispatcher |
| HTTP handlers (`adapters/http/ginserver`) | pool of slices for decoding batches | update (path and JSON), updates, value (path and JSON), snapshot, index, ping | service |
| Middlewares and router (`ginserver/router.go`, `middlewares`) | per request: buffered answer, inflating and deflating streams | GzipRequest, GzipResponse, HashSHA256, logging, unknown routes and methods | handlers, clients |
| Server process (`cmd/server`) | chosen repository, persister, ticker goroutine | start with fallback and Restore, ticks, shutdown | all of the above |
| Configuration (`internal/config`, `misc/env.go`) | none after start-up | LoadServerConfig, LoadAgentConfig | server, agent |
| Agent service (`services/agent`) | channel of batches, worker pool | Run, enqueueSnapshot, Submit, Stop | collector, publisher |
| HTTP publisher and retry (`adapters/publisher/httpjson`, `misc/retry.go`) | none | SendOne, SendBatch, Retry | network |
| Collector (`adapters/collector/runtime`) | gauges, PollCount, two goroutines | Start, Snapshot, Stop | agent |
| Code generator (`cmd/reset`) | the package's source, `reset.gen.go` | a run: load, select marked structs, emit, write | developers |
| Object pool, static analysis | | | not modelled, section 8 |

What is hard here:

* **Concurrency.** Every request has a goroutine; the ticker, the audit
  dispatcher, the sampling goroutines and the senders run beside them. Only the
  repository is locked: saving a snapshot, auditing and reading back a write
  happen outside any lock.
* **Failure.** Any system call of a Save may fail and the process may die
  between two of them; connections to the server and to the database break
  before or after their request took effect, and both are retried.
* **Ordering.** Snapshots are renamed, audit events delivered and reports
  stored in orders that need not be those of the writes.
* **Lifetimes.** A request context and a pooled slice outlive or underlive the
  work that uses them.
* **Layers.** A body is hashed, compressed, inflated, verified, decoded and
  answered by code in two programs that agree only if every layer nests right;
  a write may be kept by a database, a file or memory, depending on which
  attempt of which start failed.

What makes the parts correct: repository calls are atomic; the snapshot file is
always one complete past state and a restart brings exactly that back; what was
acknowledged is saved, audited and found again; events reach the sinks once and
in order; auditing never holds up a request; retries duplicate nothing without
cause; a report is accepted exactly if the secrets fit and an answer says what
happened; acknowledged batches survive every mix of restarts and outages in
one store or the other as long as Saves work and do not overlap; and everything that is waited for happens.

## 2. Modules

| Module | Models | How |
|---|---|---|
| `Metrics` | domain, validation, in-memory updates, flattening of a snapshot | pure operators; int64 addition wraps at `HalfRange` |
| `RepoPort` | the calls of `ports.MetricsRepo` | sets of calls, `Result` |
| `MetricsRepo` | what a repository promises | abstract: a call takes effect at one moment |
| `MemoryRepo` | `memory.go` | one step per lock operation, map access and copied map; implements `MetricsRepo` |
| `PostgresRepo` | `postgres.go`, `retry.go` | one step per statement sent, executed, answered or lost; the database is external |
| `FilePersister` | `file.go` | one step per system call of a Save, each of which may fail |
| `AuditTrail` | audit half of `metrics.go`, `observer`, sinks | channel, dispatcher, publishing sink by sink, Close |
| `Server` | `cmd/server`, `services/metrics`, write handlers | composes `FilePersister` and `AuditTrail`; requests, ticker, death, restart |
| `BatchDecode` | pooled decoding in `handler.go` | elements of reused slices, clones that share their numbers; part of `Exchange` |
| `Exchange` | the publisher's requests, middlewares, router, every handler | bodies as what they stand for, wrapped by `Gzip`; one step for the way in, one per repository call, one for the way out |
| `Config` | `internal/config`, `misc/env.go` | pure operators; int64 durations that wrap |
| `Startup` | `cmd/server/main.go`, `init.go` | starts, retries, fallback, Restore, crashes, outages; handlers and ticker that write, snapshot, save and answer, over `Config` |
| `ResetCode` | emitters of `cmd/reset` | emitted statements, and what Go makes of them |
| `ResetGen` | `cmd/reset` runs on a package that changes | edits and runs, over `ResetCode` |
| `AgentContext`, `Collector`, `BatchPublisher` | signal context; `runtime.go`; `sender.go`, `httpjson`, `retry.go` | goroutines step by step, network that breaks connections and delivers late |
| `Agent` | `agent.go`, `cmd/agent` | composes the three |
| `MC_*` | | constants for TLC |
| `MetricsProofs`, `MemoryRepoProofs`, `AuditProofs`, `ServerProofs`, `ExchangeProofs`, `StartupProofs`, `AgentProofs`, `PostgresProofs` | | theorems, section 5 |

How state and actions correspond to the code:

* **`MemoryRepo`.** `store` is the pair of maps, `mu` the RWMutex with Go's
  writer preference; `pc` says how far a call is. `LoadItem`/`PutItem` split
  `+=` into its read and its write, `CopyGauges`/`CopyCounters` are the two
  `maps.Copy` of Snapshot. The refinement mapping shows the caller a write that
  takes effect at its unlock and a read at its copy.
* **`Server`.** A handler's `pc` follows the service: `write`, `readback`
  (single writes read their value back), `audit`, `snapshot`, `saving`,
  `respond`. `Upsert` has no save step, as in the code. The repository call is
  one step, which `MemoryRepo` justifies. `hist` records every store the
  repository has held, so that a file can be compared with the past;
  `ProcessEnds` clears memory and leaves the disk; `Boot` runs Restore, and a
  Restore that fails leaves an empty repository or one it had filled in before
  failing.
* **`FilePersister`.** `save[p]` is where goroutine `p` is in
  `writeJSONAtomic`; `temps` and `file` are the directory. `Flatten` yields a
  set because Go iterates maps in no order; Restore replays any order of it.
* **`AuditTrail`.** An event is the number of its request. `live` holds the
  requests whose context is open; the remote client needs it, the file writer
  does not.
* **`BatchPublisher`.** `limbo` holds payloads on broken connections that may
  still be stored; `stored` counts how often each metric of each report was.
* **`PostgresRepo`.** Each attempt of a call is a session with uncommitted
  rows and row locks. A session that lost its client executes what it was sent.
  `log` lists the calls that committed, `hasty` is explained in section 4. An upsert replaces the type of a row,
  because the table has one row per name; BIGINT refuses to overflow.
* **`BatchDecode`.** encoding/json keeps fields of an existing array element
  that the body does not mention, and `cloneMetrics` copies pointers.
* **`Exchange`.** A connection's `pc` goes from `handle` (the request has passed
  the middlewares) over `use`, `release` or `readback` (between the calls of
  the service) to `respond` and `done`. `Verify` and `Hashed` are the two halves
  of HashSHA256, `Compressed` is GzipResponse; GzipRequest is in `Arrive` and
  `Plain`. `effect` is a history variable: what the request has stored.
  `SumSHA256` is the pair of its arguments, so no two inputs collide.
* **`Config`.** What strconv, time and net/url make of a text is given by
  constant functions; the loaders are translated around them. `Seconds` is the
  multiplication that may overflow.
* **`Startup`.** `proc` is where `run` is, `repo` what
  `buildRepoAndPersister` returned. Writes are names, so that `mem`, `file` and
  `db` are sets that can be compared; ticker and persister exist
  exactly where the code installs them. A handler's `pc` goes from `Write` over
  `TakeSnapshot` and `Save` (batches with a persister only) to `Respond`; the
  ticker has the middle two. No lock spans them, a `Save` may fail, which is
  only logged, and the process may die between any two. `lapses` records what
  has gone wrong so far: a start that missed the database, a Restore or a Save
  that failed, a snapshot taken while another had yet to be saved.
* **`ResetGen`, `ResetCode`.** A field is a type tree. The emitters yield
  statements (`EmitResetForExpr` and the operators under it); `WellTyped` and
  `Exec` say whether Go accepts them and what they do, `Clean` what Reset is
  for. An emission deeper than `MaxDepth`, which no finite nesting of these
  shapes reaches, stands for a stack overflow. Developers' edits are external.

Operators named like another with a suffix and introduced as *faulty variant*
are not part of any specification: each is a bug one could write in that place,
and the property it is listed with in `PROJECT.json` must detect it.

## 3. Runs

Passing runs, with the bounds that matter and why they are enough:

| Run | Properties | Bounds |
|---|---|---|
| `memory_repo` | `StepsUnderLock` (types, `LockDiscipline`, `CallsFit`, `StepsAreCovered`), `RefinesRepo`, `CallsReturn` | 2 goroutines, every call again and again, a batch that touches one name twice and both maps, 2-bit counters so that `+=` wraps |
| `server_disk` | `TypeOK`, `FileIsPastState`, `TempsAccounted`, `SavesApart`, `RestartRestoresFile`, `EventuallyPersisted` | a handler and the ticker saving at once, 4 temporary names, 1 failing system call, 1 death anywhere and a restart, a NaN in the store, good and bad batches |
| `server_audit` | `TakenReachFile`, `DeliveredOnceInOrder`, `NoSilentLoss`, `RequestsComplete`, `QueueDrains` | 2 handlers, 3 requests on a channel of 2 so that it fills, file sink and failing remote sink, clients that leave, Close |
| `exchange` | `OwnFieldsKept`, `AnswersTellEffect`, `OnlyVerifiedStored`, `ReportsGetThrough`, `AnswersReadable` | 2 connections, 3 out of 25 different requests covering every route, 2 slices of 2 elements; secrets that fit, fit after trimming, differ or are absent on either side; complete, incomplete, malformed, damaged and falsely hashed bodies |
| `startup` | `TypeOK`, `SharedAddressMeets`, `AckedVisible`, `AckedDurable`, `StartsEnd` | hundreds of server and agent settings; intervals that overflow to a negative, to zero and to a short duration; 2 handlers and the ticker, 2 batches and a single write; 3 crashes, outages and failing Saves; one retry |
| `reset_gen` | `ResetCleans`, `OutputCompiles`, `OverflowsOnCycles` | 2 structs; a field of every kind, the struct itself, the other one and foreign structs with and without Reset, each directly and behind one and two pointers, and structs of several fields; 5 edits and any number of runs |
| `agent_sends` | `SnapshotsCoherent`, `DuplicatesBounded`, `OneFailureTolerated`, `DrainedAtExit`, `GaugesFresh` | 1 worker (`RATE_LIMIT` 0) and 2 failures, or 2 workers and 1 failure; 2 reports, one retry, 2 polls |
| `agent_live` | `ShutdownCompletes`, `ReportsHandled` | 1 worker, 4 reports: one in work, two in the channel, one Run waits to submit; 2 failures |
| `postgres_repo` | `CallsSerialize`, `AppliedAsAnswered`, `ReadsCommitted`, `AnswersLikeMemory`, `DeadlocksRecovered`, `CallsReturn` | 2 calls out of two batches that lock 2 rows in opposite orders, single writes of both types, a snapshot, a read and an empty batch; one retry, 2 faults, counters that overflow |

All runs end by exhausting their states. `CHECK_DEADLOCK FALSE` stands in the
configurations whose systems may stop: clients send no more requests, the
agent has exited, the bounded number of calls has been made, a configuration
was refused. `memory_repo`, in which clients never stop calling, and
`reset_gen`, in which the generator can always be run again, check for
deadlock.

Runs that show a disagreement between the code and what the repository says of
it (the quotes are under `findings`):

| Run | What TLC finds |
|---|---|
| `stale_overwrite` (`AckedBatchesSaved`) | synchronous mode, two batches at once: the older snapshot is renamed last, an acknowledged batch is not in the file |
| `audit_cancelled` (`RemoteSinkComplete`) | the event carries the context of its request, which is cancelled before the remote sink uses it |
| `stale_fields` (`IncompleteItemsFiltered`) | an item without a value inherits one from an earlier request through the pooled slice |

Other behaviour the models contain and a reader should know of:

* *Saving.* In synchronous mode a single write never triggers a save (`Upsert`
  does not call `onChanged`). A gauge set to NaN through the URL makes every
  later Save fail until it is overwritten, which is why `EventuallyPersisted`
  asks for an encodable store; reading it as JSON is answered 200 with an empty
  body. A Restore that fails is only logged, and the next Save replaces the
  file that could not be read; a Save that fails is only logged too, and the
  batch is answered 200; of two Saves that overlap the older may be the last.
  After each of these a crash may lose an acknowledged batch, so `AckedVisible`
  and `AckedDurable` except them, and TLC violates both without any one of the
  exceptions.
* *Fallback.* A server that cannot reach its database serves from memory
  without what the database holds, and without a ticker (`main.go` starts one
  only if no DSN is set); the next start that does reach it hides what was
  written meanwhile. `AckedVisible` excepts both, `AckedDurable` does not.
* *Requests.* With `KEY` set an unknown route is answered 200 with an empty
  body instead of 404, and empty bodies carry no HashSHA256 header, although
  `README.md:92` says responses always do. A damaged gzip body is noticed only
  if a hash is verified. Negative deltas are accepted and lower a counter.
* *Audit.* A full channel drops the event, which `NoSilentLoss` counts in
  `dropped`.
* *Agent.* PollCount is sent as the running total although the server adds it
  as a delta. The retryable statuses of `isRetryableHTTP` are checked after the
  retry loop, so a 503 is not retried. With a bare port as `ADDRESS` the server
  listens on it and the agent takes it for a host (`SharedAddressMeets` excepts
  it). A number of seconds that overflows int64 may become a short positive
  interval.
* *Postgres.* A broken connection may store a write twice, the allowance in
  `AppliedAsAnswered`. `rows.Err` is not asked: a connection that breaks while
  rows are read yields a part of one committed state without an error, which
  `ReadsCommitted` allows for that case only. A gauge and a counter of one name share a row, the
  exception in `AnswersLikeMemory`.
* *Generator.* A second run finds the methods of the first, skips their structs
  and rewrites the file without them; the methods it emits may call one it has
  just removed. Structs of the package, and others that have a Reset, behind two
  pointers, and `unsafe.Pointer`, yield code that
  does not compile, a struct that leads back to itself overflows the stack.
  `OutputCompiles` and `OverflowsOnCycles` say that there are no other cases.

## 4. Fairness

Goroutines that can run do run. `FairSpec` of `Server` has weak fairness of the
handlers only. A property that needs another goroutine says so as its
antecedent: `EventuallyPersisted` that the ticker runs (`TickerRuns`),
`QueueDrains` that the dispatcher does (`DispatcherRuns`). `RequestsComplete`
has no such antecedent, because handlers must not depend on either. `AgentSpec`
has weak fairness of workers and sampling goroutines but none of the server,
on which `ShutdownCompletes` must not depend; `ReportsHandled` assumes it
(`ServerAnswers`). Clients, signals, crashes, starts and faults are never fair.

Strong fairness is used in two places. Go's `select` chooses at random among
ready cases, so a loop that is offered its exit again and again takes it
(`StopReporting`, `SamplerLeaves`). And `sync.RWMutex` hands over to a waiting
writer, its inner Mutex to a starving goroutine (`AwaitLock`).

`Startup` has weak fairness of `Boot`: the process runs, and an attempt at the
database ends. `PingContext` is given no deadline there, so a database that
accepts a connection and then stays silent is excluded. `Exchange` and
`ResetGen` state safety only.

For Postgres, statements, timers and the deadlock detector make progress
(`FairSpec`). Time is not modelled: a retry may come back before a statement
whose lock has become free has run, and the variable `hasty` records that one
did. `DeadlocksRecovered` excludes these behaviours, in which a victim may
become the victim again; the first delay of `DefaultBackoff`, a second, makes
them unlikely and not impossible.

## 5. Proofs

The theorems hold for every value of the constants that satisfies the named
assumptions, which TLC evaluates in every run. `PROJECT.json` lists them with
the property each one states. Every property of a run that is proved is proved
as it stands in the model, `DeadlocksRecovered` for the number of batches it is
about.

| Module | Theorems (property) | For every number of |
|---|---|---|
| `MetricsProofs` | `RestoreRoundTrip` | names, values, widths of int64 |
| `MemoryRepoProofs` | `EveryStepUnderLock` (`StepsUnderLock`), `MemoryRepoIsAtomic` (`RefinesRepo`), `NoLockIsLost` | goroutines, names, calls |
| `ServerProofs` | `TypeCorrect` (`TypeOK`), `FileAlwaysPastState` (`FileIsPastState`), `SavesStayApart` (`SavesApart`), `NoTempLeaks` (`TempsAccounted`), `RestartRestores` (`RestartRestoresFile`), `TakenAreRecorded` (`TakenReachFile`), `EventsRecordedOnce` (`DeliveredOnceInOrder`), `NoEventVanishes` (`NoSilentLoss`), `SerialBatchesSaved` | handlers, names, temporary names, requests, faults, crashes, every size of the channel |
| `ExchangeProofs` | `FieldsAreKept` (`OwnFieldsKept`), `AnswersTell` (`AnswersTellEffect`), `StoredIsVerified` (`OnlyVerifiedStored`), `ReportsAccepted` (`ReportsGetThrough`), `AnswersAreReadable` (`AnswersReadable`) | connections, slices and their elements, secrets, requests |
| `StartupProofs` | `StartupTypes` (`TypeOK`), `AddressesMeet` (`SharedAddressMeets`), `BatchesVisible` (`AckedVisible`), `BatchesDurable` (`AckedDurable`) | settings, handlers, writes, retries, crashes, failing Saves, outages |
| `AgentProofs` | `ReportsAreCoherent` (`SnapshotsCoherent`), `NothingLeftBehind` (`DrainedAtExit`), `DuplicatesAreBounded` (`DuplicatesBounded`), `OneFailureSurvived` (`OneFailureTolerated`), `GaugesStayFresh` (the action property `GaugesFresh`) | gauges, polls, workers, reports, retries, failures |
| `PostgresProofs` | `RowsAreWholeCalls` (`CallsSerialize`), `AnswersCountCommits` (`AppliedAsAnswered`), `ReadsSeeWholeCalls` (`ReadsCommitted`), `AnswersAsMemoryDoes` (`AnswersLikeMemory`), `VictimsRecover` (`DeadlocksRecovered`), `AbortsLetThrough`, `NobodyIsStranded` | calls and their items, attempts, faults |

### The arguments

Each argument is an inductive invariant: the property, and what must be added
so that every action preserves it. There is one lemma per action, or per group
of actions that disturb the same part.

* **Operators.** `MetricsProofs` proves that `Wrap` stays in int64, that every
  iteration of UpdateMany and of the validation loop keeps its type, that
  UpdateMany leaves alone the names its items do not mention, and
  `RestoreRoundTrip`: replaying the items of a flattened snapshot, in *any*
  order, into an empty repository gives back the store.
* **`MemoryRepo`** (`StepsUnderLock`). The lock has one writer or only readers
  (`LockDiscipline`); therefore the value a writer has read with the first half
  of `+=`, and the map a reader has already copied, are still those of the
  store (`StepsAreCovered`). With this every step is a step of `MetricsRepo` or
  leaves what its callers can tell: a write takes effect at its unlock, and the
  store until then is the one before the call. `NoLockIsLost` is the half of
  `CallsReturn` that needs no fairness: whoever is in a call can go on, or waits
  for one that can, or for a pending writer that waits for a reader that can.
  Beside the lock discipline it needs that readers queue only behind a writer
  (`QueuedBehind`).
* **`Server`, disk** (`IInv == ServerTypeOK /\ StoreIsLatest /\ DiskInv /\
  AuditInv`). `FileIsPastState` is not inductive: a rename makes the file
  whatever the temporary file held. `DiskInv` adds that each Save carries the
  flattening of one entry of `hist`, that the file it is about to rename is
  exactly this, that no two Saves own the same name and that a name in use is
  never created again. `StoreIsLatest` ties the snapshot a Save is called with
  to `hist`.
* **`Server`, audit** (`TrailInv`, `LossInv`). That no sink records an event
  twice depends on where the event is: its handler still owes it (`Owes`), it
  is in the channel, the dispatcher is publishing it, or its handler publishes
  it alone because the channel was closed. `SentOnce` says that these exclude
  each other and what has been recorded so far in each; `PublishFits` that a
  Publish has not reached the sinks it has yet to visit and that the dispatcher
  publishes what it took last, from which the order follows. `LossInv` says for
  `NoSilentLoss` that an event passed on stays held until a file sink that
  works has it, through Close (`FirstLife`). `FileInv` is for `TakenReachFile`:
  a Publish that is past the file sink has been recorded there, everything
  taken is recorded or being published, and Close does not forget the channel
  while the dispatcher publishes (`CloseWaits`).
* **`Server`, synchronous writes** (`SerialInv`). Run `stale_overwrite` shows
  that a batch answered 200 need not be in the file. `SerialBatchesSaved` says
  what is left of that promise and so what breaks it: with requests one at a
  time and no ticker, only a failed system call or a NaN in the repository can.
  The Save of the one handler carries the newest version, so no rename puts an
  older one in place of a newer (`SavesFit`, `FileKeepsUp`).
* **`Exchange`** (`ExchangeInv`). A slice is in the pool or held by exactly one
  handler (`PoolInv`), so what a handler finds in its slice is what its own body
  made of it (`UseInv`). `ConnInv` records for each stage of a request what
  arrived, what was verified and what was stored. `OutboundFaithful` shows that
  the two response middlewares nest: what the client inflates and hashes is
  what the handler wrote.
* **`Startup`** (`StartupInv`). `AckedDurable` depends on the stage of the
  start and the repository it chose (`PhaseFits`), on what each handler at each
  step of its write has put where (`WorkFits`, `BatchesHeld`), on memory never
  holding less than the file (`FileInMemory`), on a snapshot that is about to
  replace the file holding all of it, which is where overlapping Saves break the
  argument (`SavesGrow`), and on the batches being in the one place the next
  start reads (`OnePlace`).
  `SharedAddressMeets` and the ranges of the intervals,
  overflow included, are facts about the loaders in `Config`.
* **`Agent`.** `CollectorInv` says which gauges are one poll ahead of PollCount
  and gives `SnapshotsCoherent`. `QueueInv` says that every report is in exactly
  one place (being submitted, in the channel, with one worker, or handled) and
  gives `DrainedAtExit`. `DuplicatesBounded` and `OneFailureTolerated` are about
  what a worker will still do, so the invariant is an account: per metric of a
  report, what is stored plus what may arrive late plus what may still be sent
  is at most one more than the connections that broke; and a worker in its
  fallback has stored every metric before the one it is at, or the one failure
  has happened. `FreshInv` is for `GaugesFresh`: the collector's gauges only
  grow, so those of the reports grow with their numbers (`GrowInv`); reports
  leave the channel in that order (`OrderInv`); and with one worker and no
  broken connection only the one request that the shutdown cancelled may arrive
  late, after which nothing more is sent (`LimboInv`). So what the server has of
  a gauge is from a report that is not newer than anything still to come
  (`ServerBehind`).
* **`PostgresRepo`** (`PostgresInv`). The rows a transaction has not committed
  are what its items make of the committed ones (`WorkInv`); that stays true
  while others commit because they cannot hold its locks (`LockInv`). So a
  commit applies one whole call and `CallsSerialize` follows. `DebtInv` counts
  the attempts that may still commit against the connections that broke, for
  `AppliedAsAnswered`; `ReadInv` dates what a read has returned, or what a
  Snapshot that was cut short returned a part of (`CutFrom`). `MemoryInv`
  is for `AnswersLikeMemory`: no statement that an open transaction executed
  would have overflowed int64 (`FitsInv`), the type of a row is one that an item
  of a committed call had, and on every name used with one type only the
  committed rows agree with what `UpdateMany` makes of those items, one after
  the other.
* **`PostgresRepo`, waiting** (`RecoverInv`, `HeardInv`). `DeadlocksRecovered`
  says that the retry of a deadlock's victim succeeds. For two batches of at
  most two rows `RecoverInv` follows the victim: while it backs off, the row
  the other batch waits for is the last one it needs, so by the time the victim
  is back, if the delay was long enough (`~hasty`, part of the property), the
  other holds all its rows and waits for nobody again. Single statements hold
  no row while they wait.
  `AbortsLetThrough` is about any number of calls: the victim is an UpdateMany
  and its abort gives another waiting transaction its row. `NobodyIsStranded`
  is the half of `CallsReturn` that needs no fairness: the session Retry waits
  for is open and will be heard (`HeardInv`), and a set of sessions closed under
  waiting has one that can move or one in a cycle that DeadlockDetected breaks.
  The cycle is a closed set of waiters of least cardinality.

### The assumptions

* Operators and server: `TrimAssumption`, `ValuesAssumption`, `NilAssumption`
  and those of `FilePersister` and `Server`. `AuditAssumption` says that no sink
  is attached twice: `buildAuditor` attaches at most one file writer and one
  remote client.
* `ConfigAssumption`: trimming twice is trimming once, empty text is no number,
  and the default addresses parse to what they are. `ScaleAssumption`: the
  default intervals do not overflow. `InputsAssumption`: settings are texts and
  numbers; nothing is said of which.
* `ExchangeAssumption`: a report has at least one metric and every metric its
  value, which is what the agent builds (`Measured`), and fits into a slice,
  which in Go grows. Other requests are arbitrary, with a body that is damaged,
  malformed, incomplete, or whole and hashed with any secret.
* `AgentAssumption`: PollCount is not a sampled gauge, and the numbers of the
  polls fit into float64 and int64.
* `PostgresAssumption`: the marker for "no row" is not a row.
* `VictimsRecover`: at least one delay and finitely many clients; it speaks of
  the states in which at most two batches, of at most two rows each, have been
  called (`TwoBatches`); names, values, orders and the number of
  other calls are free. The bounds are needed: TLC violates `DeadlocksRecovered`
  for two batches of three shared rows in opposite orders, even with the three
  delays of `DefaultBackoff`, and for three batches on two rows with one delay.
* `NobodyIsStranded`: there are finitely many clients.
* `SerialBatchesSaved`: at most one handler and no ticker, which is the claim.

### Loops

Facts about loops would need induction, which the available provers cannot
apply to an operator. Where one is needed (the recursive functions inside
`AfterItems` and `ValidItems` exist; every iteration keeps the type) the proof
takes the least index at which the claim fails (`LeastNatural`) and derives a
contradiction from the index before it. Where a finite set takes the place of
the index (the cycle in `WaitersCycle`) it takes one of least cardinality.

### Only model-checked

* All liveness properties: fairness and ENABLED are out of the prover's reach.
  Of both `CallsReturn` the part that is a state predicate, no call is stuck,
  is proved.
* `ResetCleans`, `OutputCompiles` and `OverflowsOnCycles`: the emitters of
  `ResetCode` are recursive operators, which keeps `ResetGen` with TLC for good.

## 6. Abstractions worth knowing

* Names, values and payloads are small sets; `Trim` is a function on them,
  int64 a few bits wide. Encoding as JSON is represented by what it refuses
  (NaN, infinities) and what it leaves unsaid (order, missing fields).
* The page cache is not modelled: what was written survives a crash of the
  process. The code does not sync, so this says nothing about a power failure.
* `Server`, `Agent` and `Startup` leave out hashing and compression; what they
  do to a request and its answer is in `Exchange`, which leaves out saving and
  auditing.
* `Startup` takes a repository call and a Save as one step each; the system
  calls of a Save are in `Server`, the statements of a call in `PostgresRepo`,
  and the audit of a batch, which comes between its write and its snapshot, in
  `Server`. A write that the database refuses leaves no trace; one whose answer
  was lost is `WriteAnswerLost`.
* Agent batches are never empty: an empty snapshot is not submitted.
* In `PostgresRepo` a client makes one call; a cancelled request context is a
  broken connection or the end of a backoff.

## 7. Plan

Done: memory repository against its abstract specification; server with
persister, audit and restart; pooled decoding; agent; Postgres repository;
server safety proofs; the HTTP exchange with both sides of hashing and
compression; configuration and start-up with the fallback; the code generator.

Proved: the memory repository against its abstract specification, all safety
properties of the server, the exchange, start-up, the agent and the Postgres
repository, and that no call of either repository waits in vain.

Next: `agent_live` with two workers stuck and Run waiting for room, which takes
seven reports and more states than TLC's liveness check takes in minutes; with
two workers and four reports the properties hold.

## 8. Not modelled

| Part | Why |
|---|---|
| Text of the HTML page, logging middleware | rendering and output only |
| Migrations | run once by goose, an attempt at them is part of the attempt at the database; the resulting table is the model's |
| Parsing of numbers, durations and URLs | standard library; a parameter of `Config` |
| Import aliases of the generator (`importManager`) | they choose names, not statements |
| `reportOnce`, `buildBatch`, `recycleBatch` of the agent | only tests call them |
| Page cache | the code does not sync; see section 6 |
| Object pool (`misc/pool.go`) | used by no other package |
| Static analysis (`cmd/staticlint`) | a list of analyzers and one syntax check, no state |
