# Formal verification of @kitiumai/job-queue

TLA+ models of the job queue under `src/src`, checked by TLC on small instances, with
theorems TLAPS proves for every value of the constants. Paths below are relative to the
repository's directory as `PROJECT.json` names it (`src/src/JobQueue.ts` is the file
`src/JobQueue.ts` of the repository).

## 1. Inventory

The repository holds two generations of one system. `JobQueue.ts` is the class the README
and the tests are about. `core/`, `application/` and `infrastructure/` split the same work into
services behind interfaces, and add managers for idempotency, FIFO groups, chains, webhooks,
circuit breakers, encryption, access control and several regions.

All of it runs on one JavaScript event loop per process. Code between two awaits is
atomic; anything may happen at an await. State shared between processes, and state that
survives a crash, is in Redis, where BullMQ runs each command as one script.

| Component | State it keeps | Operations | Interacts with | What makes it correct |
|---|---|---|---|---|
| `JobQueue` | processors, workers; in Redis: the queue, the DLQ | addJob, process, retryJob, bulkRetry, replayDLQ, removeJob, clear, drain, pause, resume, close; processJob and handleJobFailure from the worker | BullMQ (calls and callbacks), processors, notification handler, metrics and spans | at-least-once delivery; a DLQ entry stays until it is replayed; events tell the truth; close() waits for work; jobs settle |
| `CircuitBreaker` | state, statistics, next attempt time | execute, open, close, reset | the guarded operation (awaited), onStateChange (called) | no call while open and cooling; trips at the threshold; late results do no harm; probed again |
| `CircuitBreakerManager` | id to breaker | create, get, remove | | one breaker per id |
| `DLQManager` | none of its own: the failed list of the primary queue | replayJob, replayDLQ, clearDLQ, moveJobToDLQ | queue client, events, metrics | a replay removes the job it replayed, nothing else |
| `IdempotencyManager` | records with a TTL in Redis | recordExecution, getExecutionResult, cleanExpired | processors that check and record | one side effect per key; no fresh record deleted |
| `WebhookManager` | configurations and attempt records in Redis, a cache | register, update, delete, sendEvent, deliver, retry | HTTP endpoint | bounded retries; cache agrees with store |
| `GlobalQueueManager` | a queue per region, the primary region | addJob, replicateJob, failoverTo, health ticks | regional Redis | the best region that answers takes over; replicas exist where they were asked for |
| `EncryptionManager` | keys in Redis, a cache, the active key | initialize, encrypt, decrypt, addKey, rotateKey, deactivate, remove | | one active key; what was encrypted can be decrypted |
| `AccessControlManager` | tenants and entries in Redis, a cache of each | register, update, delete a tenant; grant, revoke, check | | a revocation takes effect; no update of a tenant is lost; a pattern matches the names it means |
| `FIFOQueueManager` | groups, none of which can be made | addToGroup, pauseGroup, drainGroup | BullMQ | order within a group |
| `JobChainManager` | workflow and chain records in Redis | create, execute, cancel, waitForDependencies | whoever writes job results | a workflow is what the last call made it; waits end |
| pipeline services | processors, handlers | processJob, emit, on, off, shouldRetry, backoff functions | each other, processors, handlers, metrics and span adapters | one outcome, the true one, is announced; no handler is passed over; retries back off within their cap |
| connection managers | connection, client, workers | connect, registerWorker, disconnect, reset | Redis, the services the container builds on the client | no leaked client or worker, and of connections only the adapter's (section 4); nobody is handed a closed client |
| status services | none: they read | getStatusCounts, getAllJobs, getJobsByStatus, getStats | the queue, one command at a time | an answer is right about the jobs that did not move |
| adapters, facade, DI, configuration, metrics, telemetry | none of consequence | delegation and pure functions | | an accepted retry configuration retries, later and later |

What is hard here: executions that overlap with stalls, retries and replays of the same job;
multi-command operations (replay, close, bulk retry, DLQ add then failed transition) that a crash
or a rejection cuts in two; results that arrive after the state they were meant for; listings
that are stale when they are used. `PROJECT.json` lists these hazards line by line.

## 2. Modules

| Module | What it is |
|---|---|
| `BullMQ` | the BullMQ commands the code calls, as operators on a queue (external to the repository) |
| `JobQueue` | `src/src/JobQueue.ts` in one service process, with its worker, its callers and its faults |
| `AtLeastOnce` | what a queue with a DLQ promises, with no ids, attempts or locks |
| `MCJobQueue` + 4 `.cfg` | instances of `JobQueue` |
| `JobQueueProofs` | invariants and theorems about `JobQueue` |
| `DeliveryProofs` | the refinement of `AtLeastOnce`, and once without faults, on top of them |
| `CircuitBreaker` | the breaker class, with overlapping executions |
| `Gate` | what a breaker promises, with no counters |
| `MCCircuitBreaker` + 2 `.cfg` | a counting and a percentage breaker |
| `CircuitBreakerProofs` | invariants, refinement and theorems about `CircuitBreaker` |
| `DLQManager` + 1 `.cfg` | `core/services/dlq/dlq-manager.ts` over the failed list |
| `Idempotency` | the idempotency manager, its records in Redis, and the processors that use it |
| `MCIdempotency` + 2 `.cfg` | instances of `Idempotency` |
| `IdempotencyProofs` | invariants and theorems about `Idempotency` |
| `CachedStore` | configurations in Redis behind a Map: tenants and webhooks |
| `AccessControl` | access control entries, one key each, and the cached list of a principal |
| `Patterns` | how an entry's queue pattern is matched, against what a pattern means |
| `Encryption` + 1 `.cfg` | encryption keys, their cache and the active key |
| `JobChain` | workflows, chains, and the wait for dependencies |
| `GlobalQueue` | regions, replication, health checks and failover |
| `MCManagers` + 1 `.cfg` | the managers that keep their state in Redis, side by side |
| `Webhook` | `CachedStore` with the delivery loop |
| `Connection` | connect, disconnect, workers, and the services built on the client |
| `Pipeline` | `processJob` of the orchestrator, events, handlers, metrics and span |
| `StatusQueries` | counts and listings of jobs that move |
| `RetryConfig` | from retry settings to delays |
| `MCServices` + 1 `.cfg` | `Webhook`, `JobChain`, `GlobalQueue`, `Connection`, `Pipeline`, `StatusQueries` and `RetryConfig`, side by side |
| `ManagerProofs` | invariants and theorems about `CachedStore`, `Webhook`, `JobChain` and `GlobalQueue` |
| `AccessProofs` | invariants and theorems about `AccessControl` and `Encryption`, and about `MCManagers` |
| `AlgorithmProofs` | induction, and theorems about `RetryConfig` and `Patterns` |
| `ServiceProofs` | invariants and theorems about `Connection`, `Pipeline` and `StatusQueries`, and about `MCServices` |

### JobQueue and the code

* `main` and `dlq` are the two BullMQ queues: functions from job ids to records. Ids are the keys
  callers pass (`idempotencyKey` becomes the job id), the integers BullMQ counts up, and the
  integers of the DLQ. That the last two overlap is a fact about the code, and is kept.
* A payload is a number given to each accepted `addJob`. `wraps` counts the envelopes
  `moveJobToDLQ` put around it: a replay passes the envelope on as the data.
* `run[s]` is one call of `processJob`; its `pc` is the await it is at. `processor` is the
  processor itself, `dlqAdd` and `notify` the two awaits of `moveJobToDLQ`, `resolved` and
  `rejected` what BullMQ is about to apply. `said` is the set of events emitted.
* `call[c]` is an API call with more than one await: retryJob, bulkRetry, removeJob,
  replayDLQ, close. An API call that is one command (addJob, clear, drain, pause) is one action.
* `stage` is how far close() has got: workers, DLQ, queue, connection, in that order. `worker` is the one in `this.workers`, of which there
  is at most one: the first `process()` makes it, also after a close() that found none (`late`). It takes jobs until a close() closes it or
  the connection has gone; then nothing it ran is applied (`Applies`).
* Faults are crashes (locks lost, everything in flight gone), locks that expire under a running
  execution, and the rejection of the remove in replayDLQ. Rejections that leave nothing half done
  are free.
* `won`, `twice`, `dropped` and `taken` are history: no action's guard reads `twice`, `dropped`
  or `taken`, and `won` only decides `twice`.

Abstracted: the order of the lists (priorities and delays permute it, so any waiting job may be
fetched), real time, the contents of payloads, errors and options other than attempts and the two
remove flags, rate limits. Options a job can be given are a constant; the model includes `attempts: 0`,
which `buildDefaultJobOptions` lets through (`??`).

### CircuitBreaker and the code

`b` holds the fields of the object; `op[c]` says that the operation of caller `c` is awaited. `Date.now()`
and `nextAttemptAt` occur only in one comparison, so `cooldown` is their difference and `Tick`
lowers it. `execute` is two steps: entering and settling. `onStateChange` may throw, which matters at
two places: before the try block the operation never runs, inside it a success is counted as a failure too.

### DLQManager and the code

`failed` is the failed list, oldest first as BullMQ cleans it; `getJobs` lists it newest first. Each await of
`replayJob` is a step: getJob, addJob, clean.

### Idempotency and the code

`store` is the Redis key space: each record has the `expiresAt` the code wrote and the tick Redis drops the key at, which differ
because SETEX runs later and counts whole seconds (`Math.ceil`). `job[w]` is one processor at an await: it looks the key up
(`LookUp`), has its side effect and computes `expiresAt` (`Run`), and stores (`Record`). The processors are the client's; the order is
that of README.md:641-668. `sweep[s]` is one `cleanExpired`: `KEYS`, the clock read after it, then `GET` and perhaps `DEL` for one key
at a time. A rejected lookup counts as "not executed", as in the code; a rejected GET or DEL of a sweep is swallowed. Lookup results are
not checked against `expiresAt`, so an expired record still in Redis answers: the model keeps that. `promised`, `overtaken`, `ran` and
`again` are history. Processes and Redis share one clock in the model.

### The managers that keep their state in Redis

These modules share one convention. A process has one connection to Redis, so commands are executed and answered in the order they
were sent. `wire` (`aclWire`, `keyWire`, `flowWire`) is the sequence of commands sent and not answered; a caller sends its next
command when the last one is answered, at the end of the sequence, so calls of one process interleave at every await. A
reply and what the caller does up to its next await are one step. A command may reject, executed or not.

* `CachedStore`: `store` is what Redis holds, `cache` the Map. `Put`, `Update`, `Get`, `Delete` send; `Answer` executes the
  oldest command, fills the cache, and lets an update write what it read back, merged. `Foreign` is a write of another process or an
  expiry. History: `unsure` are the ids whose value changed without this process being told, `contended` those with two writes in
  flight at once, `wanted` every answered write applied in turn.
* `AccessControl`: a load is `KEYS` and then one `GET` per entry, the list built up in the command (`found`, `todo`); a write that is
  answered drops the cached list (`Invalidate`). History: `raced` are the principals written to during a load, or whose write
  was never answered.
* `Patterns`: `MatchesWildcardPattern` splits at the stars and searches for one part after the other as the code does. A
  part is known by where it ends in the pattern (`PartEnds`), and `Position` is where the search is after each of them. The reference is
  `Means`: the pattern can be laid along the whole name, a star on any stretch of it and a letter on itself. The state is the
  question, any name and any pattern.
* `Encryption`: `rotateKey` is two writes, the second sent when the first is answered; `deactivateKey` changes the cached object
  before it writes it. A ciphertext is its key's id and material. `Encrypt` does not ask whether the key in use is still marked
  active, as the code does not. History: `sealed` is what this process encrypted, of keys nobody removed or replaced; `tidy` says that no two
  calls overlapped and nothing was lost; `phase` is how far the first call, initialize, has come.
* `JobChain`: executions carry a number in place of `startedAt`. `cancelWorkflow` reads and then writes. A waiter polls each dependency in
  turn until its result is there or the time is used up; the time is shared by the dependencies and counted in polls. Time is looked at
  before a GET (`Poll`), never after it. A GET that rejects, or reads what does not parse, throws out of the whole wait (`WaitThrows`).
  Nothing under `src/` writes a result or advances a workflow, so the writer is external (`JobFinishes`). History: `newest`, `crossed` (a
  cancellation that overlapped another call), `atStart` (results there when a wait began) and `polled` (dependencies a wait has asked for).
* `GlobalQueue`: `jobs[r]` is the queue of region r; `adds[a]` is one addJob or replicateJob at an await, and the regions it is for
  (`asked`: all of them for addJob, any for replicateJob); `checks[r]` is one health check. `getPrimaryJob` and the choice of targets read
  `primaryRegion` again after an await: so does the model (`Added`, `Targets`). Jobs and health checks meet only in `primaryRegion`, which
  both change through `SetPrimary`; to a job, a failover is the same whoever caused it, so `JobStep` is checked with `FailoverTo` by the
  user (run `managers`) and `HealthStep` without jobs (run `services`). One tick of a region is in progress at a time, although
  `setInterval` would start another. History: `clean` are the calls that met no rejection and no failover; `lost` says that some call met
  one, or that a region became primary that had counted fewer ids than another; `steady` are the regions that have answered all along since
  a health check began to ask them.

### The services of one process

* `Webhook`: `send[s]` is one sendEvent, retryDelivery or testWebhook. The webhooks are listed first and then delivered to from
  that list, so a webhook may change or go between. Outcomes of a request are a constant, because `httpPost` is a stub in the source that
  always answers 200. History: `due` are webhooks active all along, `told` those delivered to or given up on.
* `Connection`: connections, clients and workers are numbered as they are made; `connect` makes two connections, the manager's own and that
  of a new adapter, which the client and the workers use (`sockets`). `call[c]` is one connect or disconnect at an await. `Error`, `Drop`
  and `Ready` are the events of a connection that tries again as ioredis does. `registerWorker` pushes to the array a disconnect may be
  iterating, which then closes the new worker too (`Pushed`, until the array is replaced, `Detached`). `resolved` is the client each
  singleton of the container was built on. History: `spoiled` records that overlapping calls, a reset or an error left something behind,
  `stale` that a service was resolved before a disconnect.
* `Pipeline`: `run[r]` is one processJob, `emission[e]` an emission and the position of its iterator over a live `Set`: handlers that come
  during the loop are reached, ones that go are not, ones that go and come back are called again. Metrics and span adapters may throw where
  the code lets them out. Whether a job is announced as retrying the code decides by `HandleFailure`, and BullMQ tries it again by
  `TriedAgain`: the two differ on the last attempt.
* `StatusQueries`: each state is read by a command of its own and BullMQ moves jobs between the commands: in and out of the lists of
  waiting, paused and prioritized jobs, back to them after a failed attempt, a stall or a `retryJob`. The statuses asked are those of the
  code, PAUSED and DLQ included; a count is modelled by the jobs it counted, so that one counted under two statuses shows. `Meant` says
  which states a status is named for, and `Rerun` that an attempt has left its marks on the hash of a job that waits again. A wrapped job
  infers its state from the fields of its hash (`Inferred`); `JobQueue` asks (`GetJobState`). `shifted`, the jobs that moved since the query
  began, is history.
* `RetryConfig`: `retry` is the configuration `LoadConfiguration` merges from the defaults and what a program passes, settings of its own or
  those of the environment. `Valid` is the validator, and the three strategies turn it into delays; `2**attempt` is a recursive
  function.

## 3. Runs

| Run | Instance | What it shows |
|---|---|---|
| `jobqueue_safety` | 1 key, 1 payload, 2 slots, 1 caller, every API call, attempts 0 or 2, 1 DLQ entry, 1 fault | types, at-least-once delivery as a refinement of `AtLeastOnce`, JOB_DLQ truthful |
| `jobqueue_replay` | 2 keys, 2 payloads, 2 DLQ entries, 1 slot, 2 callers that replay and close, 1 fault | overlapping replays lose nothing; overlapping close() calls close nothing under an execution |
| `jobqueue_live` | 1 key and 1 automatic id, 2 names, 2 slots, delayed jobs, DLQ adds and metrics that fail, 1 fault | jobs settle, close() returns, and without faults nothing runs to success twice |
| `jobqueue_dlq` | 1 job with 2 attempts, no faults | *violation*: an exhausted job never reaches the DLQ |
| `breaker` | 2 callers, 5 calls, both threshold modes | the breaker is a `Gate`, trips in time, keeps coherent statistics, is probed again |
| `breaker_earned` | as `breaker` | *violation*: late successes count towards successThreshold |
| `dlqmanager_replay` | 1 caller, 4 ids | *violation*: replaying one failed job deletes another |
| `idempotency` | 2 keys, 2 processors, 1 sweep, TTL of half a second, 4 ticks, 1 fault | stored results last until they expire; no worker repeats a key |
| `idempotency_sweep` | 1 key, 2 processors, 1 sweep, TTLs of 0.5 and 1.5 s, no faults | *violation*: a sweep deletes a record that has not expired |
| `managers` | one manager at a time, table below | caches agree with Redis, no answered write is lost, revocations take effect, patterns match what they mean, what was encrypted can be read, one key is active, workflows are what the last call made them, jobs reach the regions they are to be in |
| `services` | one service at a time, table below | only the adapter's connections are forgotten, clients are current, one outcome is announced, all handlers hear, counts and listings are right, retries back off, every webhook is tried, ready results are returned, the best region takes over from a primary that is down, every call returns |
| `encryption_restart` | 2 keys, 2 materials, 1 command in flight, 1 fault | *violation*: after a restart initialize loads no keys |

Why the bounds are enough to be interesting. One payload is enough for loss, since payloads interact only through ids and lists; two slots
let an execution overlap with the one a stall or a retryJob started, and StallLimit 1 lets a job stall and run again; that it stalls out
takes a second fault, or the StallLimit 0 of the live run. One fault is the smallest number that cuts an operation in two; the theorems
below have no such bound. The replay run has two of everything a replay loop touches, and two callers, so that close() calls overlap too;
that close() returns (`CloseReturns`) is checked with one caller. Five calls let a breaker trip (two failures), be probed, and see late
results of earlier calls. Deadlock is not checked in `JobQueue` and `DLQManager`, where a closed queue with every bound used up really
stops; it is checked in `breaker`.

In `idempotency` a tick is half a second, so that the rounding of the TTL shows; four ticks let a record expire while Redis still
holds it, be swept, and be replaced. Keys meet only in the list of a sweep, for which two suffice. Deadlock is not checked there: at the
last tick everything may be done.

`managers` and `services` check several modules in one run. The modules share no key, no variable and no call, so what one of them does
never depends on another; a variable `subject` chooses in the initial state whose behaviour this is, and the others stay
as they began. The state space is the sum of the parts, not their product, and every behaviour of a part, within its bounds, is a behaviour of the run.
Some parts appear twice, with different bounds on what overlaps.

| Subject | Bounds |
|---|---|
| `tenants` | 1 id, 2 fields of 2 values, 2 commands in flight, 1 fault |
| `access` | 1 principal, 2 patterns, 1 grant, 3 commands in flight (a load and two writes), 1 rejection |
| `patterns` | every name and pattern of up to 4 letters of a 2-letter alphabet; initial states only |
| `keys`, `restart` | 2 keys, 2 materials; 2 commands in flight and no fault, or 1 and a fault or restart |
| `flows` | 1 workflow, 1 chain, 2 executions, 3 commands in flight, 1 fault or expiry |
| `jobs`, `outage`, `close` (managers) | 3 regions, 2 jobs, custom and automatic ids, both modes; 2 calls and a failover; 1 call at a time with an outage too; 1 call, an outage and close; replications to any set of regions |
| `webhooks`, `faults` | 2 webhooks, one best-effort, 1 sender, 2 attempts; 1 fault without a sender |
| `waits` | 2 dependencies, a timeout of 2 polls, replies that are slow or fail |
| `health`, `close` (services) | 3 regions; 2 outages or failovers; 1 outage and close |
| `connection`, `overlap` | 1 caller, and nothing begun that makes something once 5 things are made; 2 callers, and once 3 things are made nothing but a client |
| `pipeline` | 1 run, 2 handlers, 3 registrations and removals, progress not awaited |
| `counts`, `listing` | 1 job, which is not run again, and counts; 2 jobs anywhere, one of which moves during a query, and a listing of at most 2 |
| `retries` | attempts 0, 1, 3 and NaN, delays of -1, 0, 700, 90000 ms and NaN, all types, every subset of settings, from the caller or the environment; one step each |

Two commands in flight are the least that can cross, and three let a load be crossed twice. Three regions make a failover choose among two
candidates, of which one may be down. Deadlock is not checked in these two runs: the bounds end behaviours, and `patterns` takes no step and
`retries` one.

Exemptions in these invariants are the cases in which the code does not keep the promise; they are narrow, and most are stated as history.
`ChecksAreCurrent` exempts a principal written to while its list is being loaded: the load then caches the list from before the write, and a
revoked entry goes on being granted until the next write. `UpdatesKept` exempts two writes of one id in flight: both merge into the
configuration of before, and one is lost. `LastCallStands` exempts a cancellation that overlaps an execution, `OnlySocketsLeft` overlapping
connect and disconnect calls and the adapters' connections, `Replicated` rejections and failovers during the call, and, for whose job an id
is, a primary that counted fewer ids than another region. `NoWorkAfterClose` exempts a late worker, `ReadyAreReturned` a wait that throws or
whose time is used up, `CountsBounded` and `AllListed` prioritized jobs where the code does not ask for them, `AllListed` the inferred state
of a job an attempt has left its marks on, `OutcomeStands` a span that throws; and it allows `retrying` after the last attempt, as the code
announces it. Section 4 says what the code does in these cases. `PROJECT.json` lists these as hazards.

Symmetry is used in `jobqueue_safety`, `jobqueue_replay` and `idempotency` only (slots and callers, keys in the replay run, keys and
processors in the idempotency run, which occur in no asymmetric place); runs with liveness use none.

Assumptions of the runs. The safety run takes metrics and spans that throw only after the processor
returned (`TelemetryFaults = {"completed"}`), the replay run none, and both register the processors they add jobs for: a job
with `attempts: 0` and `removeOnFail` whose execution rejects before the try block
(`JobQueue.ts:194-213`) is removed by BullMQ without passing handleJobFailure, so it is lost. The live run includes
both. The safety and replay runs have no automatic ids in the main queue, or the DLQ's ids would
collide with them; section 5 says what is proved about that.

Fairness (`Fairness` in `JobQueue`). The event loop runs every continuation that is ready, so each
execution and each API call in progress is weakly fair; that includes the assumption that processors and
notification handlers settle, without which nothing could be promised. BullMQ promotes delayed jobs. Fetch
and the stalled check are strongly fair, because pausing, restarting and competing jobs disable
them again and again. A process that died is restarted and registers its processors. The choice between success and failure, faults
and callers have no fairness. In `CircuitBreaker`, time passes, operations settle, and someone keeps calling.

In `services` every part in progress is weakly fair: senders, waiters, health checks, connect and disconnect calls, processJob and
emissions. That is what the event loop gives, with the assumptions that Redis answers or the client gives up, requests, processors and
handlers settle, and timers fire. The health interval is fair because `setInterval` fires again until close. Nothing else is: starting a
call, the coming and going of handlers, outages and recoveries, and whether a connection ever becomes ready are left to chance.
`CallsReturn` for connect therefore rests on its timer.

## 4. Findings

1. **Exhausted jobs never reach the DLQ** (`jobqueue_dlq`). `handleJobFailure` (`JobQueue.ts:249`) tests
   `job.attemptsMade >= maxAttempts` with the attempts that ended *before* this one. On the last attempt of a job
   with n attempts that is n - 1. BullMQ then fails the job for good. README.md:1000 promises "Automatic
   handling of permanently failed jobs". JOB_RETRYING is emitted for the final failure.
2. **A breaker closes early** (`breaker_earned`). `consecutiveSuccesses` is not reset on entering half-open, and
   operations that settle while the breaker is open count (`circuit-breaker.manager.ts:102-114`).
3. **A replay deletes the wrong job** (`dlqmanager_replay`). `replayJob` cleans the oldest failed job, whichever it
   is (`dlq-manager.ts:167`); `replayDLQ` starts with the newest.
4. **A sweep deletes a fresh record** (`idempotency_sweep`). `cleanKeyIfExpired` judges the record it read and deletes by key
   (`idempotency.manager.ts:121-131`); a record stored in between goes too, and the next lookup of the key finds nothing.
5. **Keys are not loaded after a restart** (`encryption_restart`). `initialize` lists the keys and keeps only the id of the active one
   (`encryption.manager.ts:41-54`), though its comment (:37) says it initializes "with keys from Redis". The cache that
   encrypt and decrypt look in stays empty, so both reject (:74-83) until every key is added again.

Seen while modelling, each visible in the source without a run:

* `new JobQueueFacade` always throws: its constructor resolves a service that needs a connected client
  (`job-queue.facade.ts:65,77`, `bindings.ts:128-134`), before connect can be called.
* `tryDeliverWebhookAttempt` records its attempts under the webhook's url (`webhook.manager.ts:366,380`), and `getDeliveryHistory` reads
  under its id (:216), so the history is empty.
* `FIFOQueueManager.addToGroup` always throws: `initializeGroup` (`fifo-queue.manager.ts:255`) never fills the map it looks in.
* Every connect opens an ioredis connection in a new BullMQ adapter (`bullmq.adapter.ts:62-74`) that nothing closes: disconnect drops the adapter
  (`queue-connection-manager.ts:255-257`), and `closeRedisConnection` (`bullmq.adapter.ts:97`) has no caller. `OnlySocketsLeft` counts these.
* A worker that a first `process()` makes after close() looked for workers (`JobQueue.ts:171-182`, :756) is waited for by no one, and
  fetches jobs while the DLQ, the queue and the connection are closed, after which it cannot complete them.
* Jobs with a priority are in a list of their own, which neither the status service nor `getStats` asks for
  (`job-status-query-service.ts:209-216`, `JobQueue.ts:730`): they are counted under no status and missed by the service's listings, while
  `JobQueue.getJobsByStatus` finds them and calls them waiting (`JobQueue.ts:491-495`, :530). As it reads two lists up to the limit each, it
  may answer twice the limit.
* A job that is retried, stalled or moved back by `retryJob` waits with the `processedOn` of its last attempt, so the listings of the status
  service show it as active (`bullmq-job.wrapper.ts:51-53`).
* `JobRetryCoordinator.handleFailure` compares the attempts before this one with the maximum, as finding 1, so the pipeline announces the last
  failure as retrying and `failed` only past it, although "True if job will be retried, false if DLQ" (`job-retry-coordinator.ts:32`, :36).
* In `waitForDependencies` one GET that rejects, or one result that does not parse, throws out of the whole wait
  (`job-chain.manager.ts:289-295`, :306-308), and the results that were there are lost to the caller.
* One unanswered ping of the primary is enough for a failover: `failover.failureThreshold`, the "Number of health check failures before
  failover" (`global-queue.interface.ts:92-95`), is never read; nor are `dataResidency.allowedRegions` and `blockedRegions` (:101-111), so
  jobs are copied to any region they are sent to, addJob's to all. When overlapping health checks fail over one after the other, the later
  one may leave a primary that is healthy.
* Without a cap the delays are cut at 60000 ms, whatever was asked for: only the environment can leave it out
  (`queue-configuration-loader.ts:150-152`), and a `RETRY_BACKOFF_DELAY` of 90000 then waits 60000. `RetriesBackOff` promises "not less than
  asked for" only with a cap.
* `getPrincipalAccess` lists the entries of a principal by the glob `acl:ace:<id>:*` (`access-control.manager.ts:250`), which for an id that
  is the beginning of another up to a colon, or has glob characters in it, also finds the other's. The model's principals are no such ids.
* Neither `failureWindow` nor `windowMs` of a breaker (`circuit-breaker.interface.ts:33-41`, the latter in ms) is read: the failure
  percentage is that of its whole life.
* The container caches transient bindings too (`container.ts:61-62`), so services keep a closed client after a reconnect: the
  reason for `stale` in `ClientsCurrent`.
* `loadConfiguration` does not read the environment, though the loader promises "Programmatic > File > Environment > Default"
  (`queue-configuration-loader.ts:21`). The validator's comparisons let NaN through, and `fixed` backoff selects no strategy of its own
  (`bindings.ts:72`).
* Overlapping connects, a connect during a disconnect, and two disconnects forget clients or workers that stay open; a connect that
  failed leaves a connection that keeps trying.
* `replicateJob` copies a job under the id it has in the primary, but does not count it there. When the region it was copied to
  becomes primary later, it generates the same id for another job: the reason for `lost` in `Replicated`.
* With a DLQ, a job of `removeOnFail` that stalls out, or whose last attempt fails while `attempts` is at least 1, is removed by BullMQ and
  never added to the DLQ (finding 1): the reason for `FailuresKept`. The default options keep failed jobs.
* Without any fault there are three ways to a second success: `retryJob` on an active job, a metrics adapter that throws after the
  processor returned (`JobQueue.ts:229`), and two `replayDLQ` calls at once: the reason for `Calm`.
* A limit of 0 makes BullMQ answer every job (`getJobs(..., 0, -1)`), in `replayDLQ(0)` as in `getJobsByStatus`: the reason for a `Limit`
  of at least 1.
* A webhook registered with `maxRetries` 0 is never sent anything: the loop of `deliverWebhook` (`webhook.manager.ts:330`) does not run, and
  a failure is logged. The reason for `MaxRetries` of at least 1.
* `GlobalQueueManager.close` may stop at a region that is down, when its quit rejects (`global-queue.manager.ts:364-366`), and leave the
  others open; ioredis can also answer a quit that was never sent.

## 5. Theorems

All are proved without bounds on keys, slots, callers, payloads, faults, TTLs, configurations, commands in flight, connections, regions,
jobs, handlers, attempts or letters. What they assume of the constants is stated as `ConstantsAssumption`, `BreakerAssumption` and
`IdempotencyAssumption`, which only give the constants their types, and as `CachedStoreAssumption`, `AccessControlAssumption`,
`EncryptionAssumption`, `WebhookAssumption`, `JobChainAssumption`, `GlobalAssumption`, `PipelineAssumption`, `QueryAssumption`,
`RetryAssumption` and `PatternsAssumption`: that delays and attempts are numbers, attempts below the 1024 at which `2**attempt` is Infinity, and a jitter is a share of the delay; that no queue name
has a star in it; that the value for "nothing" is not a configuration, a grant, a key, a workflow, an id, a handler or a status; that the
dependencies, and the jobs of a queue, are finitely many; that among regions one has the best priority; and that neither the limit of a
listing nor `maxRetries` of a webhook is 0 (section 4). The MC modules assume the same, so TLC evaluates it.

`JobQueueProofs`
* `TypeCorrect`. The inductive invariant is `IInv`: `TypeOK` and `Tracked`, which says that every
  execution in flight and every call in progress carries ids and payloads that exist. `TypeOK` alone is not
  inductive, because steps copy ids and payloads from executions and calls back into the queues.
* `DlqEventTrueAlways`, by `EventInv`: an execution past the DLQ add already has its entry. Entries only change
  list, never payload, so the entry found once is there for ever.
* `NoWorkAfterCloseAlways`, by `CloseInv`: a call past the wait for the workers implies that every slot is idle and stays so, unless a
  `process()` has made a worker meanwhile (`late`). Until a close() waits for that one too, what it runs is exempt. Several close() calls at
  once, and a process() between them, are the interesting case (`WorkerMoves`).
* `EntryKeptAlways`, by `TakenInv`: a call about to remove an entry has its payload taken over. It assumes
  `NoForeignIds`: the main queue generates no ids, or BullMQ refuses integer ids (recent versions do; then
  replayDLQ throws at its first entry). Without it the add can be ignored because the id belongs to another job, and the
  remove that follows loses the entry: `JobQueue.ts:426` passes the DLQ's id on.

`DeliveryProofs`, on top of them
* `NothingLostAlways`: `JobQueue` implements `AtLeastOnce`; its initial states are mapped to initial states and its steps to steps or
  stutters (`PromiseStep`). The invariant is `DeliveryInv`. That every accepted payload is settled or held (`AllHeld`) is not
  inductive: an execution past its DLQ add fails the job and so removes it, which is right because the entry is there
  (`PastAdd`); and an entry is removed after its replay, which is right because the job it was added as is still there, or
  settled, or has come back under a later id of the DLQ (`TakenOver`, `Newer`: ids of the DLQ only grow, and a replayed job
  keeps the id of its entry). `Known` says what jobs, executions and entries can be at all, and which execution a lock stands for (`Owned`). It
  assumes `NoForeignIds` and `FailuresKept`: with a DLQ, failed jobs are not removed (the default), or `removeOnFail` cannot lose one.
* `OnceWithoutFaultsAlways`, by `OnceInv`: before the first fault a payload has at most one copy that can still be processed - a waiting
  job, an execution that has not returned or may be tried again, an entry not replayed - (`OneCopy`), and none once a processor has returned
  for it (`NoneOpen`); active jobs are locked by their execution (`Locked`), and what a `replayDLQ` call has still to add is open
  (`Replaying`, `TakenGo`). It assumes `Calm`, which excludes the three ways to a second success of section 4.

`CircuitBreakerProofs`
* `TypeCorrect`, `StatsCoherentAlways`, and `TripsInTimeAlways`, whose invariant adds that the failures
  counted before a state change are below the threshold.
* `BreakerIsAGate`: Init and every step of `CircuitBreaker` map to `Gate`, with the refinement mapping written at `Promise`.

`IdempotencyProofs`
* `TypeCorrect`, with `Tracked`: a processor that runs and a sweep that deletes name a key.
* `ResultLastsAlways`, by `LInv`. `Promise` says what is about to be recorded was promised no more than its TTL ago, so the rounded-up
  TTL covers it; `Sweeping` that a sweep deletes what had expired when it was read; `Newest` that the record of a result in force is the
  one last written and outlives its `expiresAt`. A sweep that finds the record it read cannot hit a result in force; one that finds a newer
  record is the case the property exempts, and finding 4.
* `NoWorkerRepeatsAlways`, by `RInv` on top of it: a worker that ran a key since its result came into force is not about to run it
  again, because its lookup finds the result. The theorem is for histories without rejected lookups and crashes.

`ManagerProofs`
* `TypeCorrect`, and `CacheAgreesAlways`, which is inductive with the types alone: the cache is written in the same step as the
  reply that says what Redis holds, in the order Redis executed.
* `UpdatesKeptAlways`, by `KeptInv`: of an id that is not contended at most one write is in flight (`OneWrite`), and a write that merges was
  merged into what is stored (`Based`), so that executing it and applying it are the same.
* `WebhooksAreKept`: the configurations of webhooks, with deliveries under way, are a `CachedStore`, step by step (`WebhookIsStore`), and
  have its invariants. `WebhookTypeCorrect`, and `EveryHookTriedAlways`, an action property, by `WebhookInv`: a webhook that is due
  is still to be read, or read as active and waiting for its turn, or being delivered to, or told (`Tried`); and it is still
  active as stored, which is why reading it finds it so.
* `ChainTypeCorrect`, and `LastCallStandsAlways` by `FlowInv`: between the read and the write of a cancellation nothing crossed, the
  workflow is what the read found and no other write of it is under way (`Undisturbed`).
* `ReadyAreReturnedAlways`, an action property, by `WaitInv`: what was there when a wait began has been found or is still to be polled,
  unless the time is used up; and what was asked for in time has been found or is being answered (`Awaited`).
* `GlobalTypeCorrect`, and `BestTakesOverAlways` by `ProbeInv`: the regions that have answered all along since a check began to ask are up,
  and those of them it has asked are among its answers. What takes over is the best of the answers that are not the primary, so no region
  that answered all along is passed over.
* `ReplicatedAlways`, by `CopyInv`. A call that is clean still works on the primary and has brought the job to every region it was asked for
  and has passed (`CleanSoFar`). Whose job an id is needs `Agreed`: the primary has counted at least as far as any id in use (`FreshIds`),
  and a region holds under an id what the primary holds, or nothing while a call is bringing it (`SameJobs`). The proof attempt found the
  case that `lost` now exempts: after a replication and a failover the new primary had counted less (section 4).

`AccessProofs`
* `ChecksAreCurrentAlways`, by `AclInv`: what a load has found so far is what is stored, but for the entries it has still to read
  (`Loads`, `Partly`). Without it, the list cached at the end of a load could be anything.
* `KeyTypeCorrect`, and `ReadBackAlways` by `SealedInv`: no command in flight takes away the key of a ciphertext that is to be readable
  (`Spares`). A rotation writes back the material it found, and gives the new key an id of its own.
* `OneActiveAlways`, by `TidyInv`: as long as no calls overlapped, an active key is the one the process holds as active, and it is
  cached; a write sent to an idle connection is the oldest command; and the second write of a rotation is sent when the first has left no
  key active, whatever loads were sent before and after it (`Orderly`).
* `ManagersKeepTheirs`: the composition `MCManagers`. Each of its steps is, for every manager, a step of its own or none (`ManagersStep`), and it
  begins where each of them begins (`ManagersBegin`), so every invariant of the run and `Replicated` hold of all of them side by
  side, for every value of the constants. The bounds of the run, and its choice of one manager per behaviour, keep the product small;
  they only remove behaviours, and the theorem is about the ones that are left.

`AlgorithmProofs`
* Both theorems are about a recursion, and the library's induction takes an operator the provers cannot instantiate. The module gets its
  induction from well-founded sets instead: a nonempty set of numbers has a least one (`Least`, `Greatest`), so the set of numbers that fail
  has, unless it is empty (`Induction`). From it follow that a recursion defines a function at all (`Recursion`), and what it computes
  (`PowerOfTwoIs`, `PositionIs`).
* `RetriesAlwaysBackOff`: every accepted configuration retries a first failure, and its delays never shrink and stay between the delay asked
  for and the cap, for all three strategies and up to 1022 attempts, where a JavaScript `2**attempt` still is a number. `DelaysGrow` needs that the powers of two double, that a jitter is
  at most the delay, so that it never reaches past the next one, and that a delay that is cut at the cap stays there.
* `PatternsAlwaysMatch`: the search accepts the names the pattern means and no other, for names, patterns and letters of any number. If
  the pattern can be laid along a name, the search finds every part there or before, and so never runs out of name
  (`SearchIsBehind`). If it finds them all, the pattern can be laid where it found them, but for the last part of a pattern that does not end in a
  star: that one is laid at the end of the name, which is not before where it was found (`Laid`, `FoundIsMeant`).

`ServiceProofs`
* `PipeTypeCorrect`, and `OutcomeStandsAlways`: until its span throws, a run has announced that it started and, once the
  processor has settled, the one event of its outcome; a run whose span threw is in or past the catch (`OrderlyRun`).
* `AllHearAlways`: the handlers registered since an emission began are still registered, and the iterator has passed none without
  calling it (`Heard`). Registrations go to the end of the set and removals keep the order, which is what the lemmas
  on sequences are about.
* `QueryTypeCorrect`, `CountsBoundedAlways` and `AllListedAlways`, by `QueryInv`. Of the jobs that did not move, what was counted under a
  status is in a state read for it, and those in such a state are counted or their status is still to be asked (`CountSoFar`); the rest is
  which states are read for a status and which it is named for. A job that stayed where a listing looks for it is listed, on the page being
  read, or of a status still to be asked, unless there is no room (`ListSoFar`); and but for the marks of an attempt before the hash of a
  job shows its state (`Hashes`), which what a listing infers rests on.
* `ConnTypeCorrect`, `OnlySocketsLeftAlways` and `ClientsCurrentAlways`, by `ConnInv`: until something is spoiled one call is in
  progress (`Alone`); what a disconnect has not closed yet is in the loop it runs or is the client it is about to close, although
  workers keep being registered (`ClientInv`); and the connection it quits is the current one (`RedisInv`).
* `ServicesKeepTheirs`: the composition `MCServices`, as `ManagersKeepTheirs`, with the three action properties. What must eventually happen is
  the part of it that stays with the run.

Only model-checked:

* What must eventually happen - `JobsSettle`, `CloseReturns`, `OpenIsProbed`, `PrimaryRecovers`, `CallsReturn` - since liveness under
  fairness is beyond the prover.
* `DLQManager`, whose run is a violation.

## 6. Not modelled

* `CircuitBreakerManager`: a map from ids to breakers. That `createBreaker` replaces a breaker in use is listed as a hazard; with one
  breaker per id there is nothing to interleave.
* `FIFOQueueManager`: `addToGroup` always throws (section 4), so there is no reachable state beyond the first.
* The facade: its constructor always throws (section 4). The container it uses is in `Connection`.
* `DLQManager` has no passing run: with one failed job at a time it cannot delete the wrong one, and with more it does (section 4).
  Its `moveJobToDLQ` counts, emits and notifies and changes no queue.
* Repeatable jobs: `scheduleJob` and `scheduleEvery` hand the repetition to BullMQ and keep no state.
* Event handlers of `JobQueue.emit`: not awaited, their errors are caught.
* The audit log, the listings and the conditions (hours, expiry) of access control entries; `getDeliveryHistory`,
  `getGlobalStats`, `getRegionalQueue`: reads that change nothing, or checks of one value.
* The contents of messages, ciphers, metrics and spans; configuration sections other than retry, which are independent checks of
  single fields; `pause`, `resume` and event forwarding of the adapters, which delegate.
* Types, interfaces, factories, tests, examples and build files.

Open ends: the refinement of an abstract specification by the managers, as `JobQueue` and `CircuitBreaker` have one; liveness under the
fairness of section 3 for instances larger than the runs'.
