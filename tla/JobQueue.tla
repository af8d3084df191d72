------------------------------ MODULE JobQueue ------------------------------
(***************************************************************************)
(* The class JobQueue of src/src/JobQueue.ts in one service process, with  *)
(* the BullMQ queue, dead letter queue and worker it drives.               *)
(*                                                                         *)
(* Concurrency.  The process has one event loop; a step of the model is    *)
(* the code between two awaits.  The worker runs one processJob per slot,  *)
(* callers run API calls, and both queues live in Redis, so they survive a *)
(* crash while every execution and call in flight is lost.                 *)
(***************************************************************************)
EXTENDS BullMQ

CONSTANTS
    Keys,       \* idempotency keys callers pass (custom, non-integer job ids)
    Names,      \* job names
    Slots,      \* worker.concurrency: executions at a time
    Clients,    \* API calls at a time
    Api,        \* the API operations callers use
    JobOpts,    \* job options: [attempts, removeOnFail, removeOnComplete]
    DefaultOpts,\* buildDefaultJobOptions(config.defaultJobOptions)
    AddTo,      \* lists an added job enters: "wait", or "delayed" by delay and jitter
    Limits,     \* limit arguments of bulkRetry and replayDLQ
    DlqEnabled,         \* config.dlq.enabled
    DlqAddMayFail,      \* Redis may reject the add to the DLQ
    TelemetryFaults,    \* the events after which a metric or a span may throw
    IntegerIdsRejected, \* does BullMQ refuse a custom job id that is an integer
    StallLimit,         \* BullMQ's maxStalledCount
    MaxAuto,    \* bound: job ids BullMQ generates for the main queue
    MaxAdds,    \* bound: accepted addJob calls
    MaxDlq,     \* bound: entries ever added to the DLQ
    MaxFaults,  \* bound: crashes, lost locks and rejected removes
    None

AutoIds  == 1..MaxAuto
DlqIds   == 1..MaxDlq
Payloads == 1..MaxAdds
Ids      == Keys \union AutoIds \union DlqIds
Options  == [attempts : Nat, removeOnFail : BOOLEAN, removeOnComplete : BOOLEAN]

ASSUME ConstantsAssumption ==
    /\ MaxAuto \in Nat /\ MaxAdds \in Nat /\ MaxDlq \in Nat /\ MaxFaults \in Nat
    /\ StallLimit \in Nat
    /\ Keys \intersect Nat = {}
    /\ JobOpts \subseteq Options /\ DefaultOpts \in Options
    /\ Limits \subseteq Nat /\ AddTo \subseteq {"wait", "delayed"}
    /\ None \notin Slots /\ None \notin Keys /\ None \notin Nat /\ None \notin Names
    /\ DlqEnabled \in BOOLEAN /\ DlqAddMayFail \in BOOLEAN
    /\ IntegerIdsRejected \in BOOLEAN /\ TelemetryFaults \subseteq {"started", "completed"}

VARIABLES
    main,       \* the BullMQ queue config.name: id -> job
    dlq,        \* the BullMQ queue of the DLQ: id -> entry, all of them waiting
    paused,     \* queue.pause() is in force (kept in Redis)
    autoNext,   \* the main queue's id counter
    dlqNext,    \* the DLQ's id counter
    payNext,    \* addJob calls accepted: payloads 1..payNext are in use
    up,         \* the process runs
    procs,      \* this.processors
    worker,     \* the one in this.workers: none, live, or closing
    late,       \* a process() made it after a close() had begun, and none has waited for it
    stage,      \* close(): 0 open, 1 workers closing, 2 DLQ, 3 queue, 4 redis closed
    run,        \* slot -> the execution in it
    call,       \* client -> its API call in progress
    faults,     \* crashes, lost locks and rejected removes so far
    won,        \* payloads a processor has returned for
    twice,      \* payloads it has returned for more than once
    dropped,    \* payloads given up: removeJob, drain, removeOnFail without a DLQ
    taken       \* DLQ ids whose payload a replay has put into the main queue

redis   == <<main, dlq, paused, autoNext, dlqNext, payNext>>
process == <<up, procs, worker, late, stage>>
history == <<faults, won, twice, dropped, taken>>
vars    == <<redis, process, run, call, history>>

NoJob == [st |-> "none", made |-> 0, opt |-> DefaultOpts, name |-> None,
          pay |-> 0, wraps |-> 0, stalls |-> 0, lock |-> None]

NoEntry == [st |-> "none", name |-> None, pay |-> 0, wraps |-> 0]

IdleRun == [pc |-> "idle", id |-> None, name |-> None, pay |-> 0, wraps |-> 0,
            made |-> 0, max |-> 0, said |-> {}]

IdleCall == [pc |-> "idle", todo |-> {}, cur |-> None]

Events == {"started", "completed", "failed", "retrying", "dlq"}

Job(st, opt, name, pay, wraps) ==
    [NoJob EXCEPT !.st = st, !.opt = opt, !.name = name, !.pay = pay, !.wraps = wraps]

Init ==
    /\ main = [i \in Ids |-> NoJob]
    /\ dlq = [d \in DlqIds |-> NoEntry]
    /\ paused = FALSE /\ autoNext = 0 /\ dlqNext = 0 /\ payNext = 0
    /\ up = TRUE /\ procs = {} /\ worker = "none" /\ late = FALSE /\ stage = 0
    /\ run = [s \in Slots |-> IdleRun]
    /\ call = [c \in Clients |-> IdleCall]
    /\ faults = 0 /\ won = {} /\ twice = {} /\ dropped = {} /\ taken = {}

(***************************************************************************)
(* Registration and submission.                                            *)
(***************************************************************************)

\* A mutant that registers the processor and starts no worker.
Mutant_NoWorker(name) ==
    /\ up /\ name \notin procs
    /\ procs' = procs \union {name}
    /\ UNCHANGED <<redis, up, worker, late, stage, run, call, history>>

\* A second registration of a name throws; the first one starts the worker, also after a
\* close() that found none.
Process(name) ==
    /\ up /\ name \notin procs
    /\ procs' = procs \union {name}
    /\ IF worker = "none" THEN worker' = "live" /\ late' = (stage > 0)
                          ELSE UNCHANGED <<worker, late>>
    /\ UNCHANGED <<redis, up, stage, run, call, history>>

\* addJob: one command.  A key in use makes BullMQ return the job that is there.
\* jitter and options.delay put the job into the delayed list.
AddJob(name, opt, key, st) ==
    LET p  == payNext + 1
        id == IF key = None THEN autoNext + 1 ELSE key
    IN  /\ up /\ stage < 4 /\ p \in Payloads
        /\ key = None => id \in AutoIds
        /\ IF key # None /\ Present(main, key)
           THEN UNCHANGED <<main, payNext>>
           ELSE /\ main' = [main EXCEPT ![id] = Job(st, opt, name, p, 0)]
                /\ payNext' = p
        /\ autoNext' = IF key = None THEN id ELSE autoNext
        /\ UNCHANGED <<dlq, paused, dlqNext, process, run, call, history>>

(***************************************************************************)
(* The worker: BullMQ hands a waiting job to processJob, and applies what  *)
(* processJob settles to afterwards.                                       *)
(***************************************************************************)

\* A worker takes jobs until a close() closes it, or the connection it shares is gone.
Working == up /\ worker = "live" /\ stage < 4

\* Handed out: a name nobody registered throws before the try block, and so may the
\* metric and the span after JOB_STARTED: handleJobFailure does not run for them.
Handed(job) ==
    IF job.name \notin procs THEN {[pc |-> "rejected", said |-> {}]}
    ELSE {[pc |-> pc, said |-> {"started"}] :
              pc \in {"processor"}
                     \union (IF "started" \in TelemetryFaults THEN {"rejected"} ELSE {})}

Fetch(s, i) ==
    LET job == main[i]
    IN  /\ Working /\ ~paused
        /\ run[s].pc = "idle" /\ job.st = "wait"
        /\ main' = Activate(main, i, s)
        /\ \E h \in Handed(job) :
              run' = [run EXCEPT ![s] =
                       [pc |-> h.pc, id |-> i, name |-> job.name, pay |-> job.pay,
                        wraps |-> job.wraps, made |-> job.made, max |-> job.opt.attempts,
                        said |-> h.said]]
        /\ UNCHANGED <<dlq, paused, autoNext, dlqNext, payNext, process, call, history>>

\* The processor returned: JOB_COMPLETED goes out before BullMQ knows.
Succeeds(r) == [r EXCEPT !.pc = "resolved", !.said = @ \union {"completed"}]

CountsSuccess(p) ==
    /\ won' = won \union {p}
    /\ twice' = IF p \in won THEN twice \union {p} ELSE twice

ProcessorReturns(s) ==
    /\ run[s].pc = "processor"
    /\ run' = [run EXCEPT ![s] = Succeeds(@)]
    /\ CountsSuccess(run[s].pay)
    /\ UNCHANGED <<redis, process, call, faults, dropped, taken>>

\* handleJobFailure up to its first await.  attemptsMade is that of the job as
\* it was handed out.
Mutant_ExhaustedLater(r) == r.made > r.max

Exhausted(r) == r.made >= r.max

\* A mutant that emits JOB_DLQ without waiting for the add.
Mutant_EventFirst(r) ==
    IF DlqEnabled /\ Exhausted(r)
    THEN [r EXCEPT !.pc = "dlqAdd", !.said = @ \union {"dlq"}]
    ELSE [r EXCEPT !.pc = "rejected"]

Failing(r) ==
    IF DlqEnabled /\ Exhausted(r)
    THEN [r EXCEPT !.pc = "dlqAdd"]
    ELSE [r EXCEPT !.pc = "rejected",
                   !.said = @ \union {"failed"}
                              \union (IF Exhausted(r) THEN {} ELSE {"retrying"})]

ProcessorThrows(s) ==
    /\ run[s].pc = "processor"
    /\ run' = [run EXCEPT ![s] = Failing(@)]
    /\ UNCHANGED <<redis, process, call, history>>

\* The processor returned, then a metric or the span threw inside the try block:
\* the success is handled as a failure.
TelemetryThrows(s) ==
    /\ "completed" \in TelemetryFaults /\ run[s].pc = "processor"
    /\ run' = [run EXCEPT ![s] = Failing(Succeeds(@))]
    /\ CountsSuccess(run[s].pay)
    /\ UNCHANGED <<redis, process, call, faults, dropped, taken>>

\* moveJobToDLQ: the add, then the awaited notificationHandler.
DlqAdd(s) ==
    LET r == run[s]
        d == dlqNext + 1
    IN  /\ r.pc = "dlqAdd" /\ stage < 4 /\ d \in DlqIds
        /\ dlq' = [dlq EXCEPT ![d] = [st |-> "wait", name |-> r.name, pay |-> r.pay,
                                      wraps |-> r.wraps + 1]]
        /\ dlqNext' = d
        /\ run' = [run EXCEPT ![s].pc = "notify"]
        /\ UNCHANGED <<main, paused, autoNext, payNext, process, call, history>>

\* The add rejects, as it does once the connection is closed: moveJobToDLQ throws out of
\* the catch block, so neither JOB_DLQ nor JOB_FAILED is emitted.
DlqAddRejects(s) ==
    /\ DlqAddMayFail \/ stage = 4
    /\ run[s].pc = "dlqAdd"
    /\ run' = [run EXCEPT ![s].pc = "rejected"]
    /\ UNCHANGED <<redis, process, call, history>>

\* The handler settles, either way, and JOB_DLQ is emitted.
Notified(s) ==
    /\ run[s].pc = "notify"
    /\ run' = [run EXCEPT ![s].pc = "rejected", ![s].said = @ \union {"dlq"}]
    /\ UNCHANGED <<redis, process, call, history>>

\* What BullMQ applies needs the lock and the connection.
Applies(i, s) == Owns(main, i, s) /\ stage < 4

\* BullMQ completes the job whose processJob resolved.
Complete(s) ==
    LET i == run[s].id
    IN  /\ run[s].pc = "resolved"
        /\ main' = IF Applies(i, s)
                   THEN Finish(main, i, "completed", main[i].opt.removeOnComplete, None, NoJob)
                   ELSE main
        /\ run' = [run EXCEPT ![s] = IdleRun]
        /\ UNCHANGED <<dlq, paused, autoNext, dlqNext, payNext, process, call, history>>

\* A permanently failed job that removeOnFail deletes is given up, unless the
\* caller asked for a DLQ to keep it.
GivenUp(job) == IF job.opt.removeOnFail /\ ~DlqEnabled THEN {job.pay} ELSE {}

\* BullMQ fails or retries the job whose processJob rejected.
FailAttempt(s) ==
    LET i == run[s].id
        job == main[i]
    IN  /\ run[s].pc = "rejected"
        /\ run' = [run EXCEPT ![s] = IdleRun]
        /\ \/ /\ ~Applies(i, s)
              /\ UNCHANGED <<main, dropped>>
           \/ /\ Applies(i, s) /\ WillRetry(job)
              /\ main' = Backoff(main, i, None)
              /\ UNCHANGED dropped
           \/ /\ Applies(i, s) /\ ~WillRetry(job)
              /\ main' = Finish(main, i, "failed", job.opt.removeOnFail, None, NoJob)
              /\ dropped' = dropped \union GivenUp(job)
        /\ UNCHANGED <<dlq, paused, autoNext, dlqNext, payNext, process, call,
                       faults, won, twice, taken>>

\* A delay or a backoff ends.
Promote(i) ==
    /\ main[i].st = "delayed"
    /\ main' = [main EXCEPT ![i].st = "wait"]
    /\ UNCHANGED <<dlq, paused, autoNext, dlqNext, payNext, process, run, call, history>>

(***************************************************************************)
(* Faults.                                                                 *)
(***************************************************************************)

\* A lock expires under a running execution: a blocked event loop, a partition.
LoseLock(i) ==
    /\ main[i].st = "active" /\ main[i].lock # None
    /\ faults < MaxFaults
    /\ faults' = faults + 1
    /\ main' = [main EXCEPT ![i].lock = None]
    /\ UNCHANGED <<dlq, paused, autoNext, dlqNext, payNext, process, run, call,
                   won, twice, dropped, taken>>

\* The stalled-job check of a worker finds an active job without a lock.
Stalled(i) ==
    LET job == main[i]
    IN  /\ Working
        /\ job.st = "active" /\ job.lock = None
        /\ IF job.stalls + 1 > StallLimit
           THEN /\ main' = [main EXCEPT ![i] = IF job.opt.removeOnFail THEN NoJob
                                               ELSE [@ EXCEPT !.st = "failed"]]
                /\ dropped' = dropped \union GivenUp(job)
           ELSE /\ main' = [main EXCEPT ![i].st = "wait", ![i].stalls = @ + 1]
                /\ UNCHANGED dropped
        /\ UNCHANGED <<dlq, paused, autoNext, dlqNext, payNext, process, run, call,
                       faults, won, twice, taken>>

\* The process dies: every lock will expire, every await is gone.
Crash ==
    /\ up /\ faults < MaxFaults
    /\ faults' = faults + 1
    /\ up' = FALSE /\ procs' = {} /\ worker' = "none" /\ late' = FALSE /\ stage' = 0
    /\ main' = [i \in Ids |-> [main[i] EXCEPT !.lock = None]]
    /\ run' = [s \in Slots |-> IdleRun]
    /\ call' = [c \in Clients |-> IdleCall]
    /\ UNCHANGED <<dlq, paused, autoNext, dlqNext, payNext, won, twice, dropped, taken>>

Restart ==
    /\ ~up /\ up' = TRUE
    /\ UNCHANGED <<redis, procs, worker, late, stage, run, call, history>>

(***************************************************************************)
(* The API.  A call that awaits between commands is a record in call[c];   *)
(* one that sends a single command is one step.                            *)
(***************************************************************************)

Online == up /\ stage < 4

Starts(c, op) == Online /\ op \in Api /\ call[c].pc = "idle"

Enters(c, pc, todo, cur) ==
    call' = [call EXCEPT ![c] = [pc |-> pc, todo |-> todo, cur |-> cur]]

\* A loop over `todo` that has nothing left returns.
Continues(c, pc) ==
    call' = [call EXCEPT ![c] = IF @.todo = {} THEN IdleCall
                                ELSE [@ EXCEPT !.pc = pc, !.cur = None]]

\* retryJob: getJob; a missing job is a NotFoundError.
RetryJob(c, i) ==
    /\ Starts(c, "retry") /\ Present(main, i)
    /\ Enters(c, "moveToWait", {}, i)
    /\ UNCHANGED <<redis, process, run, history>>

\* bulkRetry: getJobsByStatus first, then retryJob for one id after the other.
BulkRetry(c, st, limit) ==
    /\ Starts(c, "bulk")
    /\ \E page \in Page(InState(main, {st}), limit) :
          /\ page # {}
          /\ Enters(c, "bulkNext", page, None)
    /\ UNCHANGED <<redis, process, run, history>>

\* The next id of a bulkRetry; one that is gone ends the call by an exception.
BulkNext(c, i) ==
    /\ Online /\ call[c].pc = "bulkNext" /\ i \in call[c].todo
    /\ IF Present(main, i) THEN Enters(c, "moveToWait", call[c].todo \ {i}, i)
                           ELSE call' = [call EXCEPT ![c] = IdleCall]
    /\ UNCHANGED <<redis, process, run, history>>

\* job.moveToWait() without a token: only an active job moves, whoever runs it.
RetryMoves(c) ==
    LET i == call[c].cur
    IN  /\ Online /\ call[c].pc = "moveToWait" /\ main[i].st = "active"
        /\ main' = MoveToWait(main, i, None)
        /\ Continues(c, "bulkNext")
        /\ UNCHANGED <<dlq, paused, autoNext, dlqNext, payNext, process, run, history>>

\* removeJob: getJob, then remove; a job another worker has locked rejects.
RemoveJob(c, i) ==
    /\ Starts(c, "remove") /\ Present(main, i)
    /\ Enters(c, "remove", {}, i)
    /\ UNCHANGED <<redis, process, run, history>>

\* A mutant that counts the removal of a job that is gone as a success.
Mutant_RemoveGone(c) ==
    LET i == call[c].cur
    IN  /\ Online /\ call[c].pc = "remove"
        /\ call' = [call EXCEPT ![c] = IdleCall]
        /\ main' = [main EXCEPT ![i] = NoJob]
        /\ dropped' = dropped \union {main[i].pay}
        /\ UNCHANGED <<dlq, paused, autoNext, dlqNext, payNext, process, run,
                       faults, won, twice, taken>>

Remove(c) ==
    LET i == call[c].cur
        locked == main[i].st = "active" /\ main[i].lock # None
    IN  /\ Online /\ call[c].pc = "remove"
        /\ call' = [call EXCEPT ![c] = IdleCall]
        /\ IF Present(main, i) /\ ~locked
           THEN /\ main' = [main EXCEPT ![i] = NoJob]
                /\ dropped' = dropped \union {main[i].pay}
           ELSE UNCHANGED <<main, dropped>>
        /\ UNCHANGED <<dlq, paused, autoNext, dlqNext, payNext, process, run,
                       faults, won, twice, taken>>

\* A mutant that removes the first listed entry before it adds anything.
Mutant_RemoveFirst(c, limit) ==
    /\ Starts(c, "replay") /\ DlqEnabled
    /\ \E page \in Page(InState(dlq, {"wait"}), limit) :
       \E d \in page : Enters(c, "replayRemove", page, d)
    /\ UNCHANGED <<redis, process, run, history>>

\* replayDLQ: one listing, then add and remove for each entry of it.
ReplayDLQ(c, limit) ==
    /\ Starts(c, "replay") /\ DlqEnabled
    /\ \E page \in Page(InState(dlq, {"wait"}), limit) :
          /\ page # {}
          /\ Enters(c, "replayAdd", page, None)
    /\ UNCHANGED <<redis, process, run, history>>

\* A mutant in which the add is rejected and the rejection ignored.
Mutant_AddIgnored(d) == main

\* The main queue with the entry added under the id it has in the DLQ.
Readded(d) ==
    AddWithId(main, d, Job("wait", DefaultOpts, dlq[d].name, dlq[d].pay, dlq[d].wraps))

ReplayAdd(c, d) ==
    /\ Online /\ call[c].pc = "replayAdd" /\ d \in call[c].todo
    /\ ~IntegerIdsRejected
    /\ main' = Readded(d)
    /\ taken' = IF Present(main, d) THEN taken ELSE taken \union {d}
    /\ Enters(c, "replayRemove", call[c].todo \ {d}, d)
    /\ UNCHANGED <<dlq, paused, autoNext, dlqNext, payNext, process, run,
                   faults, won, twice, dropped>>

\* A mutant that never removes the entry it replayed.
Mutant_NoRemove(c) ==
    /\ Online /\ call[c].pc = "replayRemove"
    /\ Continues(c, "replayAdd")
    /\ UNCHANGED <<redis, process, run, history>>

ReplayRemove(c) ==
    LET d == call[c].cur
    IN  /\ Online /\ call[c].pc = "replayRemove"
        /\ dlq' = [dlq EXCEPT ![d].st = "none"]
        /\ Continues(c, "replayAdd")
        /\ UNCHANGED <<main, paused, autoNext, dlqNext, payNext, process, run, history>>

\* A command of a call in progress rejects, without effect: Redis refused it, the
\* connection is gone, moveToWait found no active job, the id was an integer.
Rejected(c) ==
    /\ call[c].pc \in {"bulkNext", "moveToWait", "remove", "replayAdd"}
    /\ call' = [call EXCEPT ![c] = IdleCall]
    /\ UNCHANGED <<redis, process, run, history>>

\* The remove of a replayed entry rejects: a fault, for the entry is now in both.
ReplayRemoveRejected(c) ==
    /\ call[c].pc = "replayRemove" /\ faults < MaxFaults
    /\ faults' = faults + 1
    /\ call' = [call EXCEPT ![c] = IdleCall]
    /\ UNCHANGED <<redis, process, run, won, twice, dropped, taken>>

\* clear(): clean(0, 10000), whose list is "completed" unless one is named.
Clear ==
    /\ Online /\ "clear" \in Api
    /\ main' = [i \in Ids |-> IF main[i].st = "completed" THEN NoJob ELSE main[i]]
    /\ UNCHANGED <<dlq, paused, autoNext, dlqNext, payNext, process, run, call, history>>

\* drain(): the jobs that wait; delayed and active ones stay.
Drain ==
    /\ Online /\ "drain" \in Api
    /\ main' = [i \in Ids |-> IF main[i].st = "wait" THEN NoJob ELSE main[i]]
    /\ dropped' = dropped \union {main[i].pay : i \in InState(main, {"wait"})}
    /\ UNCHANGED <<dlq, paused, autoNext, dlqNext, payNext, process, run, call,
                   faults, won, twice, taken>>

PauseResume ==
    /\ Online /\ "pause" \in Api
    /\ paused' = ~paused
    /\ UNCHANGED <<main, dlq, autoNext, dlqNext, payNext, process, run, call, history>>

\* close(): each await of it is a step.  worker.close() stops fetching and
\* waits for the executions; then the DLQ, the queue and the connection.  Without a worker
\* there is nothing to wait for.
Close(c) ==
    /\ Starts(c, "close")
    /\ stage' = IF stage = 0 THEN 1 ELSE stage
    /\ IF worker = "none" THEN Enters(c, "closeDlq", {}, None) /\ UNCHANGED worker
                          ELSE Enters(c, "closeWorkers", {}, None) /\ worker' = "closing"
    /\ UNCHANGED <<redis, up, procs, late, run, history>>

\* Mutants of worker.close(): one that does not wait, one that waits for the queue
\* instead of for the executions.
Mutant_NoWait == TRUE

Mutant_WaitForQueue == \A i \in Ids : main[i].st # "active"

\* What worker.close() waits for.
WorkersIdle == \A s \in Slots : run[s].pc = "idle"

CloseOrder == <<"closeWorkers", "closeDlq", "closeQueue", "quit">>

CloseStep(c, n) ==
    /\ up /\ call[c].pc = CloseOrder[n]
    /\ n = 1 => WorkersIdle
    /\ stage' = IF stage < n /\ n > 1 THEN n ELSE stage
    /\ late' = (late /\ n # 1)
    /\ IF n = 4 THEN call' = [call EXCEPT ![c] = IdleCall]
                ELSE Enters(c, CloseOrder[n + 1], {}, None)
    /\ UNCHANGED <<redis, up, procs, worker, run, history>>

-----------------------------------------------------------------------------
Submit ==
    \E name \in Names, opt \in JobOpts, key \in Keys \union {None},
       st \in AddTo : AddJob(name, opt, key, st)

Execution(s) ==
    \/ ProcessorReturns(s) \/ ProcessorThrows(s) \/ TelemetryThrows(s)
    \/ DlqAdd(s) \/ DlqAddRejects(s) \/ Notified(s)
    \/ Complete(s) \/ FailAttempt(s)

StartCall(c) ==
    \/ \E i \in Ids : RetryJob(c, i) \/ RemoveJob(c, i)
    \/ \E limit \in Limits, st \in Pending \union {"failed", "completed"} :
          BulkRetry(c, st, limit)
    \/ \E limit \in Limits : ReplayDLQ(c, limit)
    \/ Close(c)

CallStep(c) ==
    \/ \E i \in Ids : BulkNext(c, i)
    \/ RetryMoves(c) \/ Remove(c)
    \/ \E d \in DlqIds : ReplayAdd(c, d)
    \/ ReplayRemove(c) \/ Rejected(c) \/ ReplayRemoveRejected(c)
    \/ \E n \in 1..4 : CloseStep(c, n)

Next ==
    \/ \E name \in Names : Process(name)
    \/ Submit
    \/ \E s \in Slots, i \in Ids : Fetch(s, i)
    \/ \E s \in Slots : Execution(s)
    \/ \E i \in Ids : Promote(i) \/ LoseLock(i) \/ Stalled(i)
    \/ Crash \/ Restart
    \/ \E c \in Clients : StartCall(c) \/ CallStep(c)
    \/ Clear \/ Drain \/ PauseResume

Spec == Init /\ [][Next]_vars

(***************************************************************************)
(* Fairness.  The event loop runs every continuation that is ready,        *)
(* processors and notification handlers settle, BullMQ hands waiting jobs  *)
(* to idle slots, promotes delayed ones and checks for stalled ones; a     *)
(* process that died is restarted and registers its processors.  Nothing   *)
(* is assumed of callers, nor of the choice between success and failure.   *)
(***************************************************************************)
Fairness ==
    /\ WF_vars(\E name \in Names : Process(name))
    /\ WF_vars(Restart)
    /\ \A i \in Ids : /\ SF_vars(\E s \in Slots : Fetch(s, i))
                      /\ WF_vars(Promote(i))
                      /\ SF_vars(Stalled(i))
    /\ \A s \in Slots : WF_vars(Execution(s))
    /\ \A c \in Clients : WF_vars(CallStep(c))

FairSpec == Spec /\ Fairness

-----------------------------------------------------------------------------
JobType ==
    [st : States, made : Nat, opt : Options, name : Names \union {None},
     pay : 0..MaxAdds, wraps : Nat, stalls : Nat, lock : Slots \union {None}]

EntryType == [st : {"none", "wait"}, name : Names \union {None},
              pay : 0..MaxAdds, wraps : Nat]

RunType ==
    [pc : {"idle", "processor", "dlqAdd", "notify", "resolved", "rejected"},
     id : Ids \union {None}, name : Names \union {None}, pay : 0..MaxAdds,
     wraps : Nat, made : Nat, max : Nat, said : SUBSET Events]

CallPcs == {"idle", "bulkNext", "moveToWait", "remove", "replayAdd", "replayRemove",
            "closeWorkers", "closeDlq", "closeQueue", "quit"}

CallType == [pc : CallPcs, todo : SUBSET Ids, cur : Ids \union {None}]

QueuesOK ==
    /\ main \in [Ids -> JobType]
    /\ dlq \in [DlqIds -> EntryType]
    /\ paused \in BOOLEAN
    /\ autoNext \in 0..MaxAuto /\ dlqNext \in 0..MaxDlq /\ payNext \in 0..MaxAdds

ProcessOK ==
    /\ up \in BOOLEAN /\ procs \subseteq Names /\ stage \in 0..4
    /\ worker \in {"none", "live", "closing"} /\ late \in BOOLEAN

InFlightOK == run \in [Slots -> RunType] /\ call \in [Clients -> CallType]

HistoryOK ==
    /\ faults \in 0..MaxFaults
    /\ won \subseteq Payloads /\ twice \subseteq won /\ dropped \subseteq Payloads
    /\ taken \subseteq DlqIds

\* The values every variable takes: the shape of queues, executions and calls.
TypeOK == QueuesOK /\ ProcessOK /\ InFlightOK /\ HistoryOK

(***************************************************************************)
(* Safety.                                                                 *)
(***************************************************************************)

Held == {main[i].pay : i \in {j \in Ids : Present(main, j)}}
        \union {dlq[d].pay : d \in InState(dlq, {"wait"})}

Promise == INSTANCE AtLeastOnce
           WITH accepted <- 1..payNext, settled <- won \union dropped, held <- Held

\* The two queues together implement at-least-once delivery: a payload addJob
\* accepted (JobQueue.ts:300-314) leaves both queues only after a processor has
\* returned for it or a caller gave it up, whatever the interleaving of
\* executions, failures, DLQ adds, replays, stalls and crashes.
NothingLost == Promise!Spec

\* replayDLQ adds before it removes (JobQueue.ts:424-428): an entry that was ever
\* in the DLQ is still there, or the main queue has taken its payload over.
EntryKeptUntilTaken == \A d \in 1..dlqNext : dlq[d].st = "wait" \/ d \in taken

\* close() waits for the workers before it closes the DLQ (JobQueue.ts:756-762), whichever
\* of several overlapping calls is ahead: no execution can find the DLQ, the queue or the
\* connection closed under it.  Only a worker that a process() made after a close() had
\* begun (:171-182) is waited for by no one, until another close() has.
NoWorkAfterClose == stage >= 2 /\ ~late => \A s \in Slots : run[s].pc = "idle"

\* JOB_DLQ (JobQueue.ts:251) is only ever said of a payload the DLQ has received.
DlqEventTrue ==
    \A s \in Slots : "dlq" \in run[s].said =>
        \E d \in 1..dlqNext : dlq[d].pay = run[s].pay

\* Delivery is exactly once as long as nothing crashes and no lock is lost: one
\* success per payload, replays of the DLQ included.
OnceWithoutFaults == faults = 0 => twice = {}

(***************************************************************************)
(* Liveness.                                                               *)
(***************************************************************************)

\* A job that waits, is delayed or runs ends up completed, failed or gone, unless
\* the queue is closed: attempts, backoffs and stalls are finite, and a job of a
\* name without a processor runs out of attempts too.
JobsSettle ==
    \A i \in Ids : (main[i].st \in Pending) ~> (main[i].st \notin Pending \/ stage > 0)

\* close() returns: every execution settles and no step of it waits for another
\* call.  A crash ends it as well.
CloseReturns ==
    \A c \in Clients : (call[c].pc = "closeWorkers") ~> (call[c].pc = "idle")

(***************************************************************************)
(* What the documentation says.                                            *)
(***************************************************************************)

\* README.md:1000 "Automatic handling of permanently failed jobs": a job BullMQ
\* has failed for good is in the DLQ, or has been.
ExhaustedReachesDLQ ==
    \A i \in Ids : main[i].st = "failed" =>
        \E d \in 1..dlqNext : dlq[d].pay = main[i].pay
=============================================================================
