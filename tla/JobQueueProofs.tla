--------------------------- MODULE JobQueueProofs ---------------------------
(***************************************************************************)
(* What JobQueue satisfies for any number of slots, clients, names, keys,  *)
(* jobs and faults.                                                        *)
(***************************************************************************)
EXTENDS JobQueue, TLAPS

QueueType == [Ids -> JobType]

\* Every job of queue r is one of queue q, with the payload it has there: nothing
\* was added on the way from q to r.
Carries(q, r) == \A i \in Ids : Present(r, i) => Present(q, i) /\ r[i].pay = q[i].pay

LEMMA Bounds ==
    /\ MaxAuto \in Nat /\ MaxAdds \in Nat /\ MaxDlq \in Nat /\ MaxFaults \in Nat
    /\ AutoIds \subseteq Ids /\ DlqIds \subseteq Ids /\ Keys \subseteq Ids
    /\ DlqIds \subseteq Nat /\ AutoIds \subseteq Nat
    /\ None \notin Ids /\ Keys \intersect Nat = {}
  BY ConstantsAssumption DEF Ids, AutoIds, DlqIds

LEMMA BlankTypes ==
    /\ NoJob \in JobType /\ NoEntry \in EntryType
    /\ IdleRun \in RunType /\ IdleCall \in CallType
    /\ NoJob.st = "none" /\ NoEntry.st = "none" /\ IdleRun.pc = "idle" /\ IdleCall.pc = "idle"
  BY ConstantsAssumption DEF NoJob, NoEntry, IdleRun, IdleCall, JobType, EntryType, RunType,
     CallType, CallPcs, Options, States

LEMMA JobMade ==
    ASSUME NEW st \in States, NEW opt \in Options, NEW name \in Names \union {None},
           NEW pay \in 0..MaxAdds, NEW wraps \in Nat
    PROVE  /\ Job(st, opt, name, pay, wraps) \in JobType
           /\ Job(st, opt, name, pay, wraps).st = st
           /\ Job(st, opt, name, pay, wraps).pay = pay
  BY ConstantsAssumption DEF Job, NoJob, JobType

\* Changing the list, the lock or the stall count of a job, or taking it out, adds
\* nothing to the queue.
LEMMA Rewrites ==
    ASSUME NEW q \in QueueType, NEW i \in Ids, NEW job \in JobType,
           job.st # "none" => Present(q, i) /\ job.pay = q[i].pay
    PROVE  [q EXCEPT ![i] = job] \in QueueType /\ Carries(q, [q EXCEPT ![i] = job])
  BY DEF QueueType, Carries, Present

\* The records a command leaves behind are jobs with the same payload.
SameJob(job, new) == new \in JobType /\ new.pay = job.pay

LEMMA JobUpdates ==
    ASSUME NEW job \in JobType, NEW st \in States, NEW lock \in Slots \union {None},
           NEW n \in Nat
    PROVE  /\ SameJob(job, [job EXCEPT !.st = st])
           /\ SameJob(job, [job EXCEPT !.lock = lock])
           /\ SameJob(job, [job EXCEPT !.st = st, !.lock = lock])
           /\ SameJob(job, [job EXCEPT !.st = st, !.stalls = n])
           /\ SameJob(job, [job EXCEPT !.st = st, !.lock = lock, !.made = n])
  BY DEF JobType, SameJob

\* The constants of the records above.
LEMMA Literals ==
    /\ \A st \in {"none", "wait", "delayed", "active", "completed", "failed"} : st \in States
    /\ None \in Slots \union {None} /\ \A s \in Slots : s \in Slots \union {None}
  BY DEF States

(***************************************************************************)
(* The invariant behind the types: what executions, calls and entries      *)
(* refer to exists, and the payload they carry is one that addJob          *)
(* accepted.                                                               *)
(***************************************************************************)
Accepted == 1..payNext

Tracked ==
    /\ \A i \in Ids : Present(main, i) => main[i].pay \in Accepted
    /\ \A d \in 1..dlqNext : dlq[d].pay \in Accepted
    /\ \A d \in DlqIds : dlq[d].st = "wait" => d \in 1..dlqNext
    /\ \A s \in Slots : run[s].pc # "idle" => run[s].id \in Ids /\ run[s].pay \in Accepted
    /\ \A c \in Clients :
          /\ call[c].pc \in {"moveToWait", "remove"} => call[c].cur \in Ids
          /\ call[c].pc \in {"replayAdd", "replayRemove"} => call[c].todo \subseteq 1..dlqNext
          /\ call[c].pc = "replayRemove" => call[c].cur \in 1..dlqNext

IInv == TypeOK /\ Tracked

\* Nothing but the two adds puts a job into the main queue.
LEMMA MainStep ==
    ASSUME IInv, [Next]_vars
    PROVE  \/ main' \in QueueType /\ Carries(main, main')
           \/ Submit
           \/ \E c \in Clients, d \in DlqIds : ReplayAdd(c, d)
<1> DEFINE Kept == main' \in QueueType /\ Carries(main, main')
<1>0. main \in QueueType /\ \A i \in Ids : main[i] \in JobType
  BY DEF IInv, TypeOK, QueuesOK, QueueType
<1>1. ASSUME main' = main PROVE Kept
  BY <1>0, <1>1 DEF Carries
<1>2. ASSUME NEW i \in Ids, NEW job \in JobType, main' = [main EXCEPT ![i] = job],
             job.st # "none" => Present(main, i) /\ job.pay = main[i].pay
      PROVE  Kept
  BY <1>0, <1>2, Rewrites
<1>3. ASSUME NEW s \in Slots, NEW i \in Ids, Fetch(s, i) PROVE Kept
  <2> DEFINE job == [main[i] EXCEPT !.st = "active", !.lock = s]
  <2>1. main' = [main EXCEPT ![i] = job] /\ Present(main, i)
    BY <1>0, <1>3 DEF Fetch, Activate, Present, QueueType
  <2>2. SameJob(main[i], job)
    BY <1>0, JobUpdates, Literals, Zenon
  <2>3. QED
    BY <1>2, <2>1, <2>2 DEF SameJob
<1>4. ASSUME NEW i \in Ids, NEW st \in States, NEW remove \in BOOLEAN, Present(main, i),
             main' = Finish(main, i, st, remove, None, NoJob)
      PROVE  Kept
  <2> DEFINE ended == Ended(main[i], st, None)
             new == IF remove THEN NoJob ELSE ended
  <2>1. main' = [main EXCEPT ![i] = new]
    BY <1>4 DEF Finish
  <2>2. main[i].made + 1 \in Nat
    BY <1>0 DEF JobType
  <2>3. SameJob(main[i], ended)
    BY <1>0, <2>2, JobUpdates, Literals, Zenon DEF Ended
  <2> HIDE DEF ended
  <2>4. new \in JobType /\ (new.st # "none" => new.pay = main[i].pay)
    BY <2>3, BlankTypes DEF SameJob
  <2> HIDE DEF new
  <2>5. QED
    BY <1>2, <1>4, <2>1, <2>4
<1>5. ASSUME NEW s \in Slots, Complete(s) PROVE Kept
  <2>1. run[s].id \in Ids
    BY <1>5 DEF Complete, IInv, Tracked
  <2>2. CASE ~Applies(run[s].id, s)
    BY <1>1, <1>5, <2>2 DEF Complete
  <2>3. CASE Applies(run[s].id, s)
    <3>1. Present(main, run[s].id) /\ main[run[s].id].opt.removeOnComplete \in BOOLEAN
      BY <1>0, <2>1, <2>3 DEF Applies, Owns, Present, JobType, Options
    <3>2. QED
      BY <1>4, <1>5, <2>1, <2>3, <3>1 DEF Complete, States
  <2>4. QED
    BY <2>2, <2>3
<1>6. ASSUME NEW s \in Slots, FailAttempt(s) PROVE Kept
  <2> DEFINE i == run[s].id
             job == [main[i] EXCEPT !.st = "delayed", !.lock = None, !.made = main[i].made + 1]
  <2>1. i \in Ids
    BY <1>6 DEF FailAttempt, IInv, Tracked
  <2>2. CASE ~Applies(i, s)
    BY <1>1, <1>6, <2>2 DEF FailAttempt
  <2>3. CASE Applies(i, s)
    <3>1. Present(main, i) /\ main[i].opt.removeOnFail \in BOOLEAN /\ main[i].made + 1 \in Nat
      BY <1>0, <2>1, <2>3 DEF Applies, Owns, Present, JobType, Options
    <3>2. CASE WillRetry(main[i])
      <4>1. main' = [main EXCEPT ![i] = job]
        BY <1>0, <1>6, <2>1, <2>3, <3>2 DEF FailAttempt, Backoff, QueueType
      <4>2. SameJob(main[i], job)
        BY <1>0, <2>1, <3>1, JobUpdates, Literals, Zenon
      <4>3. QED
        BY <1>2, <2>1, <3>1, <4>1, <4>2 DEF SameJob
    <3>3. CASE ~WillRetry(main[i])
      BY <1>4, <1>6, <2>1, <2>3, <3>1, <3>3 DEF FailAttempt, States
    <3>4. QED
      BY <3>2, <3>3
  <2>4. QED
    BY <2>2, <2>3
<1>7. ASSUME NEW i \in Ids, NEW st \in States, Present(main, i),
             main' = [main EXCEPT ![i].st = st]
      PROVE  Kept
  <2>1. main' = [main EXCEPT ![i] = [main[i] EXCEPT !.st = st]]
    BY <1>0, <1>7 DEF QueueType
  <2>2. SameJob(main[i], [main[i] EXCEPT !.st = st])
    BY <1>0, JobUpdates, Literals, Zenon
  <2>3. QED
    BY <1>2, <1>7, <2>1, <2>2 DEF SameJob
<1>8. ASSUME NEW i \in Ids, Promote(i) PROVE Kept
  BY <1>7, <1>8 DEF Promote, Present, States
<1>9. ASSUME NEW i \in Ids, LoseLock(i) PROVE Kept
  <2> DEFINE job == [main[i] EXCEPT !.lock = None]
  <2>1. main' = [main EXCEPT ![i] = job] /\ Present(main, i)
    BY <1>0, <1>9 DEF LoseLock, Present, QueueType
  <2>2. SameJob(main[i], job)
    BY <1>0, JobUpdates, Literals, Zenon
  <2>3. QED
    BY <1>2, <2>1, <2>2 DEF SameJob
<1>10. ASSUME NEW i \in Ids, Stalled(i) PROVE Kept
  <2> DEFINE failed == [main[i] EXCEPT !.st = "failed"]
             back == [main[i] EXCEPT !.st = "wait", !.stalls = main[i].stalls + 1]
  <2>1. Present(main, i) /\ main[i].stalls + 1 \in Nat
    BY <1>0, <1>10 DEF Stalled, Present, JobType
  <2>2. SameJob(main[i], failed) /\ SameJob(main[i], back)
    BY <1>0, <2>1, JobUpdates, Literals, Zenon
  <2>3. \/ main' = [main EXCEPT ![i] = NoJob]
        \/ main' = [main EXCEPT ![i] = failed]
        \/ main' = [main EXCEPT ![i] = back]
    BY <1>0, <1>10 DEF Stalled, QueueType
  <2> HIDE DEF failed, back
  <2>4. QED
    BY <1>2, <2>1, <2>2, <2>3, BlankTypes DEF SameJob
<1>11. CASE Crash
  <2>1. \A i \in Ids : SameJob(main[i], [main[i] EXCEPT !.lock = None])
    BY <1>0, JobUpdates, Literals, Zenon
  <2>2. \A i \in Ids : main'[i].st = main[i].st /\ main'[i].pay = main[i].pay
    BY <1>0, <1>11 DEF Crash, JobType
  <2>3. QED
    BY <1>11, <2>1, <2>2 DEF Crash, SameJob, QueueType, Carries, Present
<1>12. ASSUME NEW c \in Clients, RetryMoves(c) PROVE Kept
  <2> DEFINE i == call[c].cur
             job == [main[i] EXCEPT !.st = "wait", !.lock = None]
  <2>1. i \in Ids
    BY <1>12 DEF RetryMoves, IInv, Tracked
  <2>2. main' = [main EXCEPT ![i] = job] /\ Present(main, i)
    BY <1>0, <1>12, <2>1 DEF RetryMoves, MoveToWait, Present, QueueType
  <2>3. SameJob(main[i], job)
    BY <1>0, <2>1, JobUpdates, Literals, Zenon
  <2>4. QED
    BY <1>2, <2>1, <2>2, <2>3 DEF SameJob
<1>13. ASSUME NEW c \in Clients, Remove(c) PROVE Kept
  <2>1. call[c].cur \in Ids
    BY <1>13 DEF Remove, IInv, Tracked
  <2>2. main' = main \/ main' = [main EXCEPT ![call[c].cur] = NoJob]
    BY <1>13 DEF Remove
  <2>3. QED
    BY <1>1, <1>2, <2>1, <2>2, BlankTypes
<1>14. ASSUME NEW S \in SUBSET States,
              main' = [i \in Ids |-> IF main[i].st \in S THEN NoJob ELSE main[i]]
       PROVE  Kept
  BY <1>0, <1>14, BlankTypes DEF QueueType, Carries, Present
<1>15. CASE Clear
  <2>1. main' = [i \in Ids |-> IF main[i].st \in {"completed"} THEN NoJob ELSE main[i]]
    BY <1>15 DEF Clear
  <2>2. QED
    BY <1>14, <2>1 DEF States
<1>16. CASE Drain
  <2>1. main' = [i \in Ids |-> IF main[i].st \in {"wait"} THEN NoJob ELSE main[i]]
    BY <1>16 DEF Drain
  <2>2. QED
    BY <1>14, <2>1 DEF States
<1>17. ASSUME NEW s \in Slots, Execution(s), ~Complete(s), ~FailAttempt(s) PROVE Kept
  BY <1>1, <1>17 DEF Execution, ProcessorReturns, ProcessorThrows, TelemetryThrows, DlqAdd,
     DlqAddRejects, Notified, redis
<1>18. ASSUME NEW c \in Clients, StartCall(c) PROVE Kept
  BY <1>1, <1>18 DEF StartCall, RetryJob, RemoveJob, BulkRetry, ReplayDLQ, Close, redis
<1>19. ASSUME NEW c \in Clients, CallStep(c), ~RetryMoves(c), ~Remove(c),
              \A d \in DlqIds : ~ReplayAdd(c, d)
       PROVE  Kept
  BY <1>1, <1>19 DEF CallStep, BulkNext, ReplayRemove, Rejected, ReplayRemoveRejected,
     CloseStep, redis
<1>20. ASSUME \/ \E name \in Names : Process(name)
              \/ Restart \/ PauseResume \/ UNCHANGED vars
       PROVE  Kept
  BY <1>1, <1>20 DEF Process, Restart, PauseResume, vars, redis
<1>21. QED
  BY <1>3, <1>5, <1>6, <1>8, <1>9, <1>10, <1>11, <1>12, <1>13, <1>15, <1>16, <1>17, <1>18,
     <1>19, <1>20 DEF Next

\* Which steps change what.
LEMMA Frame ==
    ASSUME [Next]_vars
    PROVE  /\ \/ UNCHANGED <<paused, autoNext, payNext>>
              \/ Submit \/ PauseResume
           /\ \/ UNCHANGED <<dlq, dlqNext>>
              \/ \E s \in Slots : DlqAdd(s)
              \/ \E c \in Clients : ReplayRemove(c)
           /\ \/ run' = run \/ Crash
              \/ \E s \in Slots : (\E i \in Ids : Fetch(s, i)) \/ Execution(s)
           /\ \/ call' = call \/ Crash
              \/ \E c \in Clients : StartCall(c) \/ CallStep(c)
           /\ \/ UNCHANGED process
              \/ \E name \in Names : Process(name)
              \/ Crash \/ Restart
              \/ \E c \in Clients : Close(c) \/ \E n \in 1..4 : CloseStep(c, n)
           /\ \/ UNCHANGED <<won, twice>>
              \/ \E s \in Slots : ProcessorReturns(s) \/ TelemetryThrows(s)
           /\ \/ dropped' = dropped \/ Drain
              \/ \E s \in Slots : FailAttempt(s)
              \/ \E i \in Ids : Stalled(i)
              \/ \E c \in Clients : Remove(c)
           /\ \/ taken' = taken
              \/ \E c \in Clients, d \in DlqIds : ReplayAdd(c, d)
           /\ \/ faults' = faults \/ (faults < MaxFaults /\ faults' = faults + 1)
<1> USE DEF redis, process, history
<1>1. CASE \E name \in Names : Process(name)
  BY <1>1 DEF Process
<1>2. CASE Submit
  BY <1>2 DEF Submit, AddJob
<1>3. CASE \E s \in Slots, i \in Ids : Fetch(s, i)
  BY <1>3 DEF Fetch
<1>4. CASE \E s \in Slots : Execution(s)
  BY <1>4 DEF Execution, ProcessorReturns, ProcessorThrows, TelemetryThrows, DlqAdd,
     DlqAddRejects, Notified, Complete, FailAttempt
<1>5. CASE \E i \in Ids : Promote(i) \/ LoseLock(i) \/ Stalled(i)
  BY <1>5 DEF Promote, LoseLock, Stalled
<1>6. CASE Crash \/ Restart \/ Clear \/ Drain \/ PauseResume
  BY <1>6 DEF Crash, Restart, Clear, Drain, PauseResume
<1>7. CASE \E c \in Clients : StartCall(c)
  BY <1>7 DEF StartCall, RetryJob, RemoveJob, BulkRetry, ReplayDLQ, Close
<1>8. CASE \E c \in Clients : CallStep(c)
  BY <1>8 DEF CallStep, BulkNext, RetryMoves, Remove, ReplayAdd, ReplayRemove, Rejected,
     ReplayRemoveRejected, CloseStep
<1>9. CASE UNCHANGED vars
  BY <1>9 DEF vars
<1>10. QED
  BY <1>1, <1>2, <1>3, <1>4, <1>5, <1>6, <1>7, <1>8, <1>9 DEF Next

\* addJob and replayDLQ put typed jobs with an accepted payload into the main queue.
LEMMA Adds ==
    ASSUME IInv, \/ Submit \/ \E c \in Clients, d \in DlqIds : ReplayAdd(c, d)
    PROVE  /\ main' \in QueueType
           /\ payNext' \in 0..MaxAdds /\ payNext <= payNext' /\ autoNext' \in 0..MaxAuto
           /\ \A i \in Ids : Present(main', i) => main'[i].pay \in 1..payNext'
<1>0. /\ main \in QueueType /\ \A i \in Ids : Present(main, i) => main[i].pay \in 1..payNext
      /\ payNext \in 0..MaxAdds /\ autoNext \in 0..MaxAuto
  BY DEF IInv, TypeOK, QueuesOK, QueueType, Tracked, Accepted
<1>1. ASSUME NEW i \in Ids, NEW job \in JobType, job.pay \in 1..payNext',
             payNext' \in 0..MaxAdds, payNext <= payNext', autoNext' \in 0..MaxAuto,
             main' = [main EXCEPT ![i] = job]
      PROVE  /\ main' \in QueueType
             /\ \A j \in Ids : Present(main', j) => main'[j].pay \in 1..payNext'
  BY <1>0, <1>1 DEF QueueType, Present
<1>2. ASSUME NEW name \in Names, NEW opt \in JobOpts, NEW key \in Keys \union {None},
             NEW st \in AddTo, AddJob(name, opt, key, st)
      PROVE  /\ main' \in QueueType
             /\ payNext' \in 0..MaxAdds /\ payNext <= payNext' /\ autoNext' \in 0..MaxAuto
             /\ \A i \in Ids : Present(main', i) => main'[i].pay \in 1..payNext'
  <2> DEFINE p == payNext + 1
             id == IF key = None THEN autoNext + 1 ELSE key
             job == Job(st, opt, name, p, 0)
  <2>1. p \in 1..MaxAdds /\ p \in 0..MaxAdds /\ payNext <= p
    BY <1>0, <1>2, Bounds DEF AddJob, Payloads
  <2>2. autoNext' \in 0..MaxAuto /\ id \in Ids
    BY <1>0, <1>2, Bounds DEF AddJob, AutoIds, Ids
  <2>3. job \in JobType /\ job.pay = p
    <3>1. opt \in Options /\ st \in States /\ name \in Names \union {None} /\ 0 \in Nat
      BY ConstantsAssumption DEF States
    <3> HIDE DEF p
    <3>2. /\ Job(st, opt, name, p, 0) \in JobType
          /\ Job(st, opt, name, p, 0).pay = p
      BY <2>1, <3>1, JobMade
    <3>3. QED
      BY <3>2
  <2>4. CASE UNCHANGED <<main, payNext>>
    BY <1>0, <2>2, <2>4
  <2>5. CASE main' = [main EXCEPT ![id] = job] /\ payNext' = p
    <3> HIDE DEF job, id
    <3>1. payNext' \in 0..MaxAdds /\ payNext <= payNext' /\ job.pay \in 1..payNext'
      BY <1>0, <2>1, <2>3, <2>5, Bounds
    <3>2. QED
      BY <1>1, <2>2, <2>3, <2>5, <3>1
  <2>6. QED
    BY <1>2, <2>4, <2>5 DEF AddJob
<1>3. ASSUME NEW c \in Clients, NEW d \in DlqIds, ReplayAdd(c, d)
      PROVE  /\ main' \in QueueType
             /\ payNext' \in 0..MaxAdds /\ payNext <= payNext' /\ autoNext' \in 0..MaxAuto
             /\ \A i \in Ids : Present(main', i) => main'[i].pay \in 1..payNext'
  <2> DEFINE e == dlq[d]
             job == Job("wait", DefaultOpts, e.name, e.pay, e.wraps)
  <2>1. /\ e \in EntryType /\ e.pay \in 1..payNext
        /\ payNext' = payNext /\ autoNext' = autoNext
    BY <1>3 DEF IInv, TypeOK, QueuesOK, Tracked, Accepted, ReplayAdd
  <2>2. e.name \in Names \union {None} /\ e.pay \in 0..MaxAdds /\ e.wraps \in Nat
    BY <2>1 DEF EntryType
  <2>3. job \in JobType /\ job.pay = e.pay
    BY <2>2, JobMade, ConstantsAssumption, Literals
  <2>4. main' = main \/ main' = [main EXCEPT ![d] = job]
    BY <1>3 DEF ReplayAdd, Readded, AddWithId
  <2> HIDE DEF job, e
  <2>5. QED
    BY <1>0, <1>1, <2>1, <2>3, <2>4, Bounds
<1>4. QED
  BY <1>2, <1>3 DEF Submit

LEMMA QueuesStep ==
    ASSUME IInv, [Next]_vars
    PROVE  /\ QueuesOK' /\ payNext <= payNext' /\ dlqNext <= dlqNext'
           /\ \A i \in Ids : Present(main', i) => main'[i].pay \in 1..payNext'
           /\ \A d \in 1..dlqNext' : dlq'[d].pay \in 1..payNext'
           /\ \A d \in DlqIds : dlq'[d].st = "wait" => d \in 1..dlqNext'
           /\ \A d \in 1..dlqNext : dlq'[d].pay = dlq[d].pay
<1>0. /\ main \in QueueType /\ dlq \in [DlqIds -> EntryType]
      /\ \A i \in Ids : Present(main, i) => main[i].pay \in 1..payNext
      /\ \A d \in 1..dlqNext : dlq[d].pay \in 1..payNext
      /\ \A d \in DlqIds : dlq[d].st = "wait" => d \in 1..dlqNext
      /\ paused \in BOOLEAN /\ autoNext \in 0..MaxAuto
      /\ dlqNext \in 0..MaxDlq /\ payNext \in 0..MaxAdds /\ 1..dlqNext \subseteq DlqIds
  BY Bounds DEF IInv, TypeOK, QueuesOK, QueueType, Tracked, Accepted, DlqIds
<1>1. /\ main' \in QueueType /\ payNext' \in 0..MaxAdds /\ payNext <= payNext'
      /\ autoNext' \in 0..MaxAuto
      /\ \A i \in Ids : Present(main', i) => main'[i].pay \in 1..payNext'
  <2>1. CASE Submit \/ \E c \in Clients, d \in DlqIds : ReplayAdd(c, d)
    BY <2>1, Adds
  <2>2. CASE ~(Submit \/ \E c \in Clients, d \in DlqIds : ReplayAdd(c, d))
    <3>1. main' \in QueueType /\ Carries(main, main')
      BY <2>2, MainStep
    <3>2. payNext' = payNext /\ autoNext' = autoNext
      BY <2>2, Frame DEF PauseResume
    <3>3. QED
      BY <1>0, <3>1, <3>2 DEF Carries
  <2>3. QED
    BY <2>1, <2>2
<1>1a. 1..payNext \subseteq 1..payNext'
  BY <1>0, <1>1
<1>2. paused' \in BOOLEAN
  BY <1>0, Frame DEF Submit, AddJob, PauseResume
<1> DEFINE DlqGood == /\ dlq' \in [DlqIds -> EntryType] /\ dlqNext' \in 0..MaxDlq /\ dlqNext <= dlqNext'
                      /\ \A d \in 1..dlqNext' : dlq'[d].pay \in 1..payNext'
                      /\ \A d \in DlqIds : dlq'[d].st = "wait" => d \in 1..dlqNext'
                      /\ \A d \in 1..dlqNext : dlq'[d].pay = dlq[d].pay
<1>3. DlqGood
  <2>1. CASE UNCHANGED <<dlq, dlqNext>>
    BY <1>0, <1>1, <2>1
  <2>2. ASSUME NEW s \in Slots, DlqAdd(s)
        PROVE  DlqGood
    <3> DEFINE d == dlqNext + 1
               e == [st |-> "wait", name |-> run[s].name, pay |-> run[s].pay,
                     wraps |-> run[s].wraps + 1]
    <3>1. run[s] \in RunType /\ run[s].pay \in 1..payNext
      BY <2>2 DEF DlqAdd, IInv, TypeOK, InFlightOK, Tracked, Accepted
    <3>2. e \in EntryType /\ e.pay \in 1..payNext
      BY <3>1 DEF RunType, EntryType
    <3>3. /\ d \in DlqIds /\ dlqNext' = d /\ dlq' = [dlq EXCEPT ![d] = e]
          /\ d \notin 1..dlqNext /\ 1..d = (1..dlqNext) \union {d} /\ d \in 0..MaxDlq
          /\ dlqNext <= d
      BY <1>0, <2>2, Bounds DEF DlqAdd, DlqIds
    <3> HIDE DEF d, e
    <3>4. dlq' \in [DlqIds -> EntryType] /\ dlq'[d] = e
          /\ \A x \in DlqIds : x # d => dlq'[x] = dlq[x]
      BY <1>0, <3>2, <3>3
    <3>5. \A x \in 1..dlqNext' : dlq'[x].pay \in 1..payNext'
      <4>1. \A x \in 1..dlqNext' : x = d \/ (x # d /\ x \in 1..dlqNext /\ x \in DlqIds)
        BY <1>0, <3>3
      <4>2. QED
        BY <1>0, <1>1a, <3>2, <3>4, <4>1
    <3>6. \A x \in DlqIds : dlq'[x].st = "wait" => x \in 1..dlqNext'
      BY <1>0, <3>3, <3>4
    <3>7. \A x \in 1..dlqNext : dlq'[x].pay = dlq[x].pay
      BY <1>0, <3>3, <3>4
    <3>8. QED
      BY <3>3, <3>4, <3>5, <3>6, <3>7
  <2>3. ASSUME NEW c \in Clients, ReplayRemove(c)
        PROVE  DlqGood
    <3>1. dlq' = [dlq EXCEPT ![call[c].cur].st = "none"] /\ dlqNext' = dlqNext
      BY <2>3 DEF ReplayRemove
    <3>2. \A d \in DlqIds : /\ dlq'[d] \in EntryType /\ dlq'[d].pay = dlq[d].pay
                            /\ dlq'[d].st = "wait" => dlq[d].st = "wait"
      BY <1>0, <3>1 DEF EntryType
    <3>3. dlq' \in [DlqIds -> EntryType] /\ dlqNext' \in 0..MaxDlq /\ dlqNext <= dlqNext'
      <4>1. dlq' = [d \in DlqIds |-> dlq'[d]]
        BY <1>0, <3>1
      <4>2. dlq' \in [DlqIds -> EntryType]
        BY <3>2, <4>1
      <4>3. QED
        BY <1>0, <3>1, <4>2
    <3>4. \A d \in 1..dlqNext : dlq'[d].pay = dlq[d].pay /\ dlq'[d].pay \in 1..payNext'
      BY <1>0, <1>1a, <3>2
    <3>5. QED
      BY <1>0, <3>1, <3>2, <3>3, <3>4
  <2>4. QED
    BY <2>1, <2>2, <2>3, Frame
<1>4. QED
  BY <1>1, <1>2, <1>3 DEF QueuesOK, QueueType

LEMMA RunStep ==
    ASSUME IInv, [Next]_vars
    PROVE  /\ run' \in [Slots -> RunType]
           /\ \A s \in Slots : run'[s].pc # "idle" =>
                 run'[s].id \in Ids /\ run'[s].pay \in 1..payNext'
<1> DEFINE Fine(r) == r \in RunType /\ (r.pc # "idle" => r.id \in Ids /\ r.pay \in 1..payNext)
<1>0. /\ run \in [Slots -> RunType] /\ \A s \in Slots : Fine(run[s])
      /\ main \in QueueType /\ \A i \in Ids : Present(main, i) => main[i].pay \in 1..payNext
      /\ payNext <= payNext' /\ payNext \in 0..MaxAdds /\ payNext' \in 0..MaxAdds
  BY QueuesStep DEF IInv, TypeOK, InFlightOK, QueuesOK, QueueType, Tracked, Accepted
<1>1. ASSUME NEW s \in Slots, NEW r, Fine(r), run' = [run EXCEPT ![s] = r]
      PROVE  run' \in [Slots -> RunType] /\ \A x \in Slots : Fine(run'[x])
  BY <1>0, <1>1
<1>2. Fine(IdleRun)
  BY BlankTypes
<1> SUFFICES run' \in [Slots -> RunType] /\ \A s \in Slots : Fine(run'[s])
  BY <1>0
<1>3. ASSUME NEW s \in Slots, NEW i \in Ids, Fetch(s, i)
      PROVE  run' \in [Slots -> RunType] /\ \A x \in Slots : Fine(run'[x])
  <2>1. /\ main[i] \in JobType /\ main[i].pay \in 1..payNext /\ main[i].opt \in Options
    BY <1>0, <1>3 DEF Fetch, Present, QueueType, JobType
  <2>2. PICK h \in Handed(main[i]) :
          run' = [run EXCEPT ![s] =
                   [pc |-> h.pc, id |-> i, name |-> main[i].name, pay |-> main[i].pay,
                    wraps |-> main[i].wraps, made |-> main[i].made,
                    max |-> main[i].opt.attempts, said |-> h.said]]
    BY <1>3 DEF Fetch
  <2>3. h.pc \in {"processor", "rejected"} /\ h.said \in SUBSET Events
    BY DEF Handed, Events
  <2>4. Fine([pc |-> h.pc, id |-> i, name |-> main[i].name, pay |-> main[i].pay,
              wraps |-> main[i].wraps, made |-> main[i].made,
              max |-> main[i].opt.attempts, said |-> h.said])
    BY <2>1, <2>3 DEF RunType, JobType, Options
  <2>5. QED
    BY <1>1, <2>2, <2>4
<1>4. ASSUME NEW r \in RunType, Fine(r), r.pc # "idle",
             NEW pc \in {"dlqAdd", "notify", "resolved", "rejected"},
             NEW said \in SUBSET Events
      PROVE  /\ Fine([r EXCEPT !.pc = pc]) /\ Fine([r EXCEPT !.pc = pc, !.said = said])
             /\ [r EXCEPT !.pc = pc, !.said = said].pc # "idle"
  BY <1>4 DEF RunType
<1>5. ASSUME NEW r \in RunType, Fine(r), r.pc # "idle"
      PROVE  Fine(Succeeds(r)) /\ Succeeds(r).pc # "idle" /\ Fine(Failing(r))
  <2>1. /\ r.said \union {"completed"} \in SUBSET Events
        /\ \A e \in {{}, {"retrying"}} : r.said \union {"failed"} \union e \in SUBSET Events
    BY DEF RunType, Events
  <2>2. Fine(Succeeds(r)) /\ Succeeds(r).pc # "idle"
    BY <1>4, <1>5, <2>1 DEF Succeeds
  <2>3. Fine(Failing(r))
    BY <1>4, <1>5, <2>1 DEF Failing
  <2>4. QED
    BY <2>2, <2>3
<1>6. ASSUME NEW s \in Slots, Execution(s)
      PROVE  run' \in [Slots -> RunType] /\ \A x \in Slots : Fine(run'[x])
  <2>1. Fine(run[s])
    BY <1>0
  <2>2. CASE ProcessorReturns(s)
    BY <1>1, <1>5, <2>1, <2>2 DEF ProcessorReturns
  <2>3. CASE ProcessorThrows(s)
    BY <1>1, <1>5, <2>1, <2>3 DEF ProcessorThrows
  <2>4. CASE TelemetryThrows(s)
    <3>1. Fine(Succeeds(run[s])) /\ Succeeds(run[s]).pc # "idle" /\ Succeeds(run[s]) \in RunType
      BY <1>5, <2>1, <2>4 DEF TelemetryThrows
    <3>2. Fine(Failing(Succeeds(run[s])))
      BY <1>5, <3>1
    <3>3. QED
      BY <1>1, <2>4, <3>2 DEF TelemetryThrows
  <2>5. CASE DlqAdd(s) \/ DlqAddRejects(s) \/ Notified(s)
    <3>1. run[s].pc # "idle" /\ run[s].said \union {"dlq"} \in SUBSET Events
      BY <2>1, <2>5 DEF DlqAdd, DlqAddRejects, Notified, RunType, Events
    <3>2. /\ Fine([run[s] EXCEPT !.pc = "notify"]) /\ Fine([run[s] EXCEPT !.pc = "rejected"])
          /\ Fine([run[s] EXCEPT !.pc = "rejected", !.said = run[s].said \union {"dlq"}])
      BY <1>4, <2>1, <3>1
    <3>3. \/ run' = [run EXCEPT ![s] = [run[s] EXCEPT !.pc = "notify"]]
          \/ run' = [run EXCEPT ![s] = [run[s] EXCEPT !.pc = "rejected"]]
          \/ run' = [run EXCEPT ![s] = [run[s] EXCEPT !.pc = "rejected",
                                              !.said = run[s].said \union {"dlq"}]]
      BY <1>0, <2>5 DEF DlqAdd, DlqAddRejects, Notified
    <3> QED
      BY <1>1, <3>2, <3>3
  <2>6. CASE Complete(s) \/ FailAttempt(s)
    BY <1>1, <1>2, <2>6 DEF Complete, FailAttempt
  <2>7. QED
    BY <1>6, <2>2, <2>3, <2>4, <2>5, <2>6 DEF Execution
<1>7. CASE Crash
  BY <1>2, <1>7 DEF Crash
<1>8. CASE run' = run
  BY <1>0, <1>8
<1>9. QED
  BY <1>3, <1>6, <1>7, <1>8, Frame

\* A page of a listing is a part of what is listed.
LEMMA PageSubset ==
    ASSUME NEW S, NEW limit, NEW T \in Page(S, limit)
    PROVE  T \subseteq S
  BY DEF Page

LEMMA CallStepType ==
    ASSUME IInv, [Next]_vars
    PROVE  /\ call' \in [Clients -> CallType]
           /\ \A c \in Clients :
                /\ call'[c].pc \in {"moveToWait", "remove"} => call'[c].cur \in Ids
                /\ call'[c].pc \in {"replayAdd", "replayRemove"} =>
                      call'[c].todo \subseteq 1..dlqNext'
                /\ call'[c].pc = "replayRemove" => call'[c].cur \in 1..dlqNext'
<1> DEFINE Fine(k) == /\ k \in CallType
                      /\ k.pc \in {"moveToWait", "remove"} => k.cur \in Ids
                      /\ k.pc \in {"replayAdd", "replayRemove"} => k.todo \subseteq 1..dlqNext
                      /\ k.pc = "replayRemove" => k.cur \in 1..dlqNext
           Good == call' \in [Clients -> CallType] /\ \A c \in Clients : Fine(call'[c])
<1>0. /\ call \in [Clients -> CallType] /\ \A c \in Clients : Fine(call[c])
      /\ \A d \in DlqIds : dlq[d].st = "wait" => d \in 1..dlqNext
      /\ main \in QueueType /\ dlq \in [DlqIds -> EntryType]
      /\ 1..dlqNext \subseteq 1..dlqNext' /\ 1..dlqNext \subseteq DlqIds
      /\ DlqIds \subseteq Ids
  BY QueuesStep, Bounds
     DEF IInv, TypeOK, InFlightOK, QueuesOK, QueueType, Tracked, Accepted, DlqIds
<1> SUFFICES Good
  BY <1>0
<1>1. ASSUME NEW c \in Clients, NEW k, Fine(k), call' = [call EXCEPT ![c] = k]
      PROVE  Good
  BY <1>0, <1>1
<1>2. Fine(IdleCall)
  BY BlankTypes DEF IdleCall
<1>3. ASSUME NEW c \in Clients, NEW pc \in CallPcs, NEW todo \in SUBSET Ids,
             NEW cur \in Ids \union {None}, Enters(c, pc, todo, cur),
             pc \in {"moveToWait", "remove"} => cur \in Ids,
             pc \in {"replayAdd", "replayRemove"} => todo \subseteq 1..dlqNext,
             pc = "replayRemove" => cur \in 1..dlqNext
      PROVE  Good
  <2> DEFINE k == [pc |-> pc, todo |-> todo, cur |-> cur]
  <2>1. Fine(k)
    BY <1>3 DEF CallType
  <2>2. call' = [call EXCEPT ![c] = k]
    BY <1>3 DEF Enters
  <2>3. QED
    BY <1>1, <2>1, <2>2
<1>4. ASSUME NEW c \in Clients, NEW pc \in {"bulkNext", "replayAdd"}, Continues(c, pc),
             pc = "replayAdd" => call[c].todo \subseteq 1..dlqNext
      PROVE  Good
  <2> DEFINE k == [call[c] EXCEPT !.pc = pc, !.cur = None]
  <2>1. Fine(k)
    BY <1>0, <1>4 DEF CallType, CallPcs
  <2>2. call' = [call EXCEPT ![c] = IdleCall] \/ call' = [call EXCEPT ![c] = k]
    BY <1>0, <1>4 DEF Continues
  <2> HIDE DEF k
  <2>3. QED
    BY <1>1, <1>2, <2>1, <2>2
<1>5. ASSUME NEW c \in Clients, StartCall(c) PROVE Good
  <2>1. CASE \E i \in Ids : RetryJob(c, i) \/ RemoveJob(c, i)
    BY <1>3, <2>1 DEF RetryJob, RemoveJob, CallPcs
  <2>2. ASSUME NEW limit \in Limits, NEW st, BulkRetry(c, st, limit) PROVE Good
    <3>1. PICK page \in Page(InState(main, {st}), limit) : Enters(c, "bulkNext", page, None)
      BY <2>2 DEF BulkRetry
    <3>2. page \subseteq Ids
      BY <1>0, PageSubset DEF InState, QueueType
    <3>3. QED
      BY <1>3, <3>1, <3>2 DEF CallPcs
  <2>3. ASSUME NEW limit \in Limits, ReplayDLQ(c, limit) PROVE Good
    <3>1. PICK page \in Page(InState(dlq, {"wait"}), limit) : Enters(c, "replayAdd", page, None)
      BY <2>3 DEF ReplayDLQ
    <3>2. page \subseteq 1..dlqNext
      BY <1>0, PageSubset DEF InState
    <3>3. QED
      BY <1>0, <1>3, <3>1, <3>2 DEF CallPcs
  <2>4. CASE Close(c)
    BY <1>3, <2>4 DEF Close, CallPcs
  <2>5. QED
    BY <1>5, <2>1, <2>2, <2>3, <2>4 DEF StartCall
<1>6. ASSUME NEW c \in Clients, CallStep(c) PROVE Good
  <2>0. Fine(call[c]) /\ call[c].todo \subseteq Ids
    BY <1>0 DEF CallType
  <2>1. ASSUME NEW i \in Ids, BulkNext(c, i) PROVE Good
    <3>1. CASE Present(main, i)
      <4>1. Enters(c, "moveToWait", call[c].todo \ {i}, i) /\ call[c].todo \ {i} \subseteq Ids
        BY <2>0, <2>1, <3>1 DEF BulkNext
      <4>2. QED
        BY <1>3, <4>1 DEF CallPcs
    <3>2. CASE ~Present(main, i)
      BY <1>1, <1>2, <2>1, <3>2 DEF BulkNext
    <3>3. QED
      BY <3>1, <3>2
  <2>2. CASE RetryMoves(c)
    BY <1>4, <2>2 DEF RetryMoves
  <2>3. CASE Remove(c) \/ Rejected(c) \/ ReplayRemoveRejected(c)
    BY <1>1, <1>2, <2>3 DEF Remove, Rejected, ReplayRemoveRejected
  <2>4. ASSUME NEW d \in DlqIds, ReplayAdd(c, d) PROVE Good
    <3>1. /\ Enters(c, "replayRemove", call[c].todo \ {d}, d)
          /\ call[c].todo \ {d} \subseteq 1..dlqNext /\ d \in 1..dlqNext
      BY <2>0, <2>4 DEF ReplayAdd
    <3>2. QED
      BY <1>0, <1>3, <3>1 DEF CallPcs
  <2>5. CASE ReplayRemove(c)
    BY <1>4, <2>0, <2>5 DEF ReplayRemove
  <2>6. ASSUME NEW n \in 1..4, CloseStep(c, n) PROVE Good
    <3>1. CASE n = 4
      BY <1>1, <1>2, <2>6, <3>1 DEF CloseStep
    <3>2. CASE n # 4
      <4>1. CloseOrder[n + 1] \in {"closeDlq", "closeQueue", "quit"}
        BY <3>2 DEF CloseOrder
      <4>2. Enters(c, CloseOrder[n + 1], {}, None)
        BY <2>6, <3>2 DEF CloseStep
      <4>3. QED
        BY <1>3, <4>1, <4>2 DEF CallPcs
    <3>3. QED
      BY <3>1, <3>2
  <2>7. QED
    BY <1>6, <2>1, <2>2, <2>3, <2>4, <2>5, <2>6 DEF CallStep
<1>7. CASE Crash
  BY <1>2, <1>7 DEF Crash
<1>8. CASE call' = call
  BY <1>0, <1>8
<1>9. QED
  BY <1>5, <1>6, <1>7, <1>8, Frame

LEMMA ProcessStep ==
    ASSUME IInv, [Next]_vars
    PROVE  ProcessOK'
<1> USE DEF ProcessOK
<1>0. ProcessOK
  BY DEF IInv, TypeOK
<1>1. CASE UNCHANGED process
  BY <1>0, <1>1 DEF process
<1>2. CASE \E name \in Names : Process(name)
  <2>1. UNCHANGED <<up, stage>> /\ procs' \subseteq Names
    BY <1>0, <1>2 DEF Process
  <2>2. worker' \in {"none", "live", "closing"}
    BY <1>0, <1>2 DEF Process
  <2>3. late' = late \/ late' = (stage > 0)
    BY <1>2 DEF Process
  <2>4. late' \in BOOLEAN
    <3>1. (stage > 0) \in BOOLEAN
      OBVIOUS
    <3>2. QED
      BY <1>0, <2>3, <3>1, Zenon
  <2>5. QED
    BY <1>0, <2>1, <2>2, <2>4
<1>3. CASE Crash \/ Restart
  <2>1. up' \in BOOLEAN /\ late' \in BOOLEAN
    BY <1>0, <1>3, Zenon DEF Crash, Restart
  <2>2. procs' \subseteq Names /\ worker' \in {"none", "live", "closing"} /\ stage' \in 0..4
    BY <1>0, <1>3 DEF Crash, Restart
  <2>3. QED
    BY <2>1, <2>2
<1>4. CASE \E c \in Clients : Close(c) \/ \E n \in 1..4 : CloseStep(c, n)
  <2>1. UNCHANGED <<up, procs>> /\ (UNCHANGED late \/ late' \in BOOLEAN)
    BY <1>4 DEF Close, CloseStep
  <2>2. stage' \in 0..4 /\ worker' \in {"none", "live", "closing"}
    BY <1>0, <1>4 DEF Close, CloseStep
  <2>3. QED
    BY <1>0, <2>1, <2>2
<1>5. QED
  BY <1>1, <1>2, <1>3, <1>4, Frame

LEMMA HistoryStep ==
    ASSUME IInv, [Next]_vars
    PROVE  HistoryOK'
<1>0. HistoryOK /\ payNext \in 0..MaxAdds /\ 1..payNext \subseteq Payloads
  BY Bounds DEF IInv, TypeOK, QueuesOK, Payloads
<1>1. faults' \in 0..MaxFaults
  BY <1>0, Frame, Bounds DEF HistoryOK
<1>2. won' \subseteq Payloads /\ twice' \subseteq won'
  <2>1. CASE UNCHANGED <<won, twice>>
    BY <1>0, <2>1 DEF HistoryOK
  <2>2. ASSUME NEW s \in Slots, ProcessorReturns(s) \/ TelemetryThrows(s)
        PROVE  won' \subseteq Payloads /\ twice' \subseteq won'
    <3>1. run[s].pay \in Payloads
      BY <1>0, <2>2 DEF IInv, Tracked, Accepted, ProcessorReturns, TelemetryThrows
    <3>2. CountsSuccess(run[s].pay)
      BY <2>2 DEF ProcessorReturns, TelemetryThrows
    <3>3. QED
      BY <1>0, <3>1, <3>2 DEF CountsSuccess, HistoryOK
  <2>3. QED
    BY <2>1, <2>2, Frame
<1>3. dropped' \subseteq Payloads
  <2>1. \A i \in Ids : Present(main, i) => main[i].pay \in Payloads
    BY <1>0 DEF IInv, Tracked, Accepted
  <2>2. CASE dropped' = dropped
    BY <1>0, <2>2 DEF HistoryOK
  <2>3. CASE Drain
    <3>1. DOMAIN main = Ids
      BY DEF IInv, TypeOK, QueuesOK
    <3>2. QED
      BY <1>0, <2>1, <2>3, <3>1 DEF Drain, InState, Present, HistoryOK
  <2>4. ASSUME NEW s \in Slots, FailAttempt(s) PROVE dropped' \subseteq Payloads
    <3>1. run[s].id \in Ids
      BY <2>4 DEF FailAttempt, IInv, Tracked
    <3>2. QED
      BY <1>0, <2>1, <2>4, <3>1 DEF FailAttempt, Applies, Owns, Present, GivenUp, HistoryOK
  <2>5. ASSUME NEW i \in Ids, Stalled(i) PROVE dropped' \subseteq Payloads
    BY <1>0, <2>1, <2>5 DEF Stalled, Present, GivenUp, HistoryOK
  <2>6. ASSUME NEW c \in Clients, Remove(c) PROVE dropped' \subseteq Payloads
    <3>1. call[c].cur \in Ids
      BY <2>6 DEF Remove, IInv, Tracked
    <3>2. QED
      BY <1>0, <2>1, <2>6, <3>1 DEF Remove, HistoryOK
  <2>7. QED
    BY <2>2, <2>3, <2>4, <2>5, <2>6, Frame
<1>4. taken' \subseteq DlqIds
  <2>1. CASE taken' = taken
    BY <1>0, <2>1 DEF HistoryOK
  <2>2. CASE \E c \in Clients, d \in DlqIds : ReplayAdd(c, d)
    BY <1>0, <2>2 DEF HistoryOK, ReplayAdd
  <2>3. QED
    BY <2>1, <2>2, Frame
<1>5. QED
  BY <1>1, <1>2, <1>3, <1>4 DEF HistoryOK

LEMMA IInvInit == Init => IInv
<1> SUFFICES ASSUME Init PROVE IInv
  OBVIOUS
<1>1. QueuesOK
  <2>1. main \in [Ids -> JobType] /\ dlq \in [DlqIds -> EntryType] /\ paused \in BOOLEAN
    BY BlankTypes, Zenon DEF Init
  <2>2. autoNext \in 0..MaxAuto /\ dlqNext \in 0..MaxDlq /\ payNext \in 0..MaxAdds
    BY Bounds DEF Init
  <2>3. QED
    BY <2>1, <2>2 DEF QueuesOK
<1>1a. ProcessOK
  <2>1. up \in BOOLEAN /\ late \in BOOLEAN
    BY Zenon DEF Init
  <2>2. procs \subseteq Names /\ worker \in {"none", "live", "closing"} /\ stage \in 0..4
    BY DEF Init
  <2>3. QED
    BY <2>1, <2>2 DEF ProcessOK
<1>1b. HistoryOK
  BY Bounds DEF Init, HistoryOK
<1>2. InFlightOK
  BY BlankTypes DEF Init, InFlightOK
<1>3. Tracked
  BY BlankTypes DEF Init, Tracked, Present, IdleCall, IdleRun
<1>4. QED
  BY <1>1, <1>1a, <1>1b, <1>2, <1>3 DEF IInv, TypeOK

LEMMA IInvStep == IInv /\ [Next]_vars => IInv'
<1> SUFFICES ASSUME IInv, [Next]_vars PROVE IInv'
  OBVIOUS
<1>1. TypeOK'
  BY QueuesStep, ProcessStep, RunStep, CallStepType, HistoryStep DEF TypeOK, InFlightOK
<1>2. Tracked'
  BY QueuesStep, RunStep, CallStepType DEF Tracked, Accepted, Present
<1>3. QED
  BY <1>1, <1>2 DEF IInv

\* Queues, executions, calls and histories keep their types, whatever the numbers
\* of slots, clients, keys and names.
THEOREM TypeCorrect == Spec => []TypeOK
<1>1. IInv => TypeOK
  BY DEF IInv
<1>2. QED
  BY <1>1, IInvInit, IInvStep, PTL DEF Spec

(***************************************************************************)
(* JOB_DLQ.  The event is said in the step after the add, so the invariant *)
(* is about executions that have added their entry, said so or not; what   *)
(* an entry carries never changes.                                         *)
(***************************************************************************)
InDlq(p) == \E d \in 1..dlqNext : dlq[d].pay = p

InDlqNext(p) == \E d \in 1..dlqNext' : dlq'[d].pay = p

EventInv == \A s \in Slots : (run[s].pc = "notify" \/ "dlq" \in run[s].said) => InDlq(run[s].pay)

LEMMA EventStep ==
    ASSUME IInv, [Next]_vars, EventInv
    PROVE  EventInv'
<1>0. /\ run \in [Slots -> RunType]
      /\ \A p : InDlq(p) => InDlqNext(p)
  <2>1. /\ \A d \in 1..dlqNext : dlq'[d].pay = dlq[d].pay
        /\ dlqNext <= dlqNext' /\ dlqNext \in 0..MaxDlq /\ dlqNext' \in 0..MaxDlq
    BY QueuesStep DEF IInv, TypeOK, QueuesOK
  <2>2. 1..dlqNext \subseteq 1..dlqNext'
    BY <2>1, Bounds
  <2>3. QED
    BY <2>1, <2>2 DEF InDlq, InDlqNext, IInv, TypeOK, InFlightOK
<1>1. ASSUME NEW s \in Slots, NEW r, run' = [run EXCEPT ![s] = r],
             (r.pc = "notify" \/ "dlq" \in r.said) => InDlqNext(r.pay)
      PROVE  EventInv'
  <2>1. \A x \in Slots : run'[x] = IF x = s THEN r ELSE run[x]
    BY <1>0, <1>1
  <2>2. QED
    BY <1>0, <1>1, <2>1 DEF EventInv, InDlq, InDlqNext
<1>2. CASE run' = run
  BY <1>0, <1>2 DEF EventInv, InDlq, InDlqNext
<1>3. CASE Crash
  BY <1>3 DEF Crash, EventInv, IdleRun
<1>4. ASSUME NEW s \in Slots, NEW i \in Ids, Fetch(s, i) PROVE EventInv'
  <2>1. PICK h \in Handed(main[i]) :
          run' = [run EXCEPT ![s] =
                   [pc |-> h.pc, id |-> i, name |-> main[i].name, pay |-> main[i].pay,
                    wraps |-> main[i].wraps, made |-> main[i].made,
                    max |-> main[i].opt.attempts, said |-> h.said]]
    BY <1>4 DEF Fetch
  <2>2. h.pc # "notify" /\ "dlq" \notin h.said
    BY DEF Handed
  <2>3. QED
    BY <1>1, <2>1, <2>2
<1>5. ASSUME NEW s \in Slots, Execution(s) PROVE EventInv'
  <2>0. /\ run[s] \in RunType
        /\ (run[s].pc = "notify" \/ "dlq" \in run[s].said) => InDlqNext(run[s].pay)
    BY <1>0 DEF EventInv
  <2>1. ASSUME NEW r \in RunType, "dlq" \in r.said => InDlqNext(r.pay)
        PROVE  /\ "dlq" \in Failing(r).said => InDlqNext(Failing(r).pay)
               /\ Failing(r).pc # "notify"
    BY <2>1 DEF Failing, RunType
  <2>2. /\ Succeeds(run[s]) \in RunType
        /\ Succeeds(run[s]).pc # "notify"
        /\ "dlq" \in Succeeds(run[s]).said => InDlqNext(Succeeds(run[s]).pay)
    BY <2>0 DEF Succeeds, RunType, Events
  <2>3. CASE ProcessorReturns(s)
    BY <1>1, <2>2, <2>3 DEF ProcessorReturns
  <2>4. CASE ProcessorThrows(s)
    BY <1>1, <2>0, <2>1, <2>4 DEF ProcessorThrows
  <2>5. CASE TelemetryThrows(s)
    BY <1>1, <2>1, <2>2, <2>5 DEF TelemetryThrows
  <2>6. CASE DlqAdd(s)
    <3> DEFINE d == dlqNext + 1
               e == [st |-> "wait", name |-> run[s].name, pay |-> run[s].pay,
                     wraps |-> run[s].wraps + 1]
    <3>1. /\ d \in DlqIds /\ dlqNext' = d /\ dlq' = [dlq EXCEPT ![d] = e]
          /\ run' = [run EXCEPT ![s] = [run[s] EXCEPT !.pc = "notify"]]
      BY <1>0, <2>6 DEF DlqAdd
    <3>2. dlq'[d] = e /\ d \in 1..dlqNext'
      BY <3>1, Bounds DEF IInv, TypeOK, QueuesOK, DlqIds
    <3>3. InDlqNext(run[s].pay)
      <4>1. dlq'[d].pay = run[s].pay
        BY <3>2
      <4>2. QED
        BY <3>2, <4>1 DEF InDlqNext
    <3>4. QED
      BY <1>1, <2>0, <3>1, <3>3 DEF RunType
  <2>7. CASE DlqAddRejects(s) \/ Notified(s)
    <3>1. \/ run' = [run EXCEPT ![s] = [run[s] EXCEPT !.pc = "rejected"]]
          \/ /\ run[s].pc = "notify"
             /\ run' = [run EXCEPT ![s] = [run[s] EXCEPT !.pc = "rejected",
                                             !.said = run[s].said \union {"dlq"}]]
      BY <1>0, <2>7 DEF DlqAddRejects, Notified
    <3>2. QED
      BY <1>1, <2>0, <3>1 DEF RunType
  <2>8. CASE Complete(s) \/ FailAttempt(s)
    BY <1>1, <2>8 DEF Complete, FailAttempt, IdleRun
  <2>9. QED
    BY <1>5, <2>3, <2>4, <2>5, <2>6, <2>7, <2>8 DEF Execution
<1>6. QED
  BY <1>2, <1>3, <1>4, <1>5, Frame

\* JOB_DLQ is never said of a payload the DLQ has not received, whatever else the
\* queue does meanwhile.
THEOREM DlqEventTrueAlways == Spec => []DlqEventTrue
<1>1. Init => EventInv
  BY DEF Init, EventInv, IdleRun
<1>2. IInv /\ EventInv => DlqEventTrue
  BY DEF EventInv, DlqEventTrue, InDlq
<1>3. IInv /\ EventInv /\ [Next]_vars => IInv' /\ EventInv'
  BY IInvStep, EventStep
<1>4. QED
  BY <1>1, <1>2, <1>3, IInvInit, PTL DEF Spec

(***************************************************************************)
(* Calls.  Which step brings a call to the points the invariants below are *)
(* about.                                                                  *)
(***************************************************************************)
ClosePcs == {"closeWorkers", "closeDlq", "closeQueue", "quit"}

LEMMA CallMoves ==
    ASSUME IInv, [Next]_vars, NEW c \in Clients,
           call'[c] # call[c], call'[c].pc \in ClosePcs \union {"replayRemove"}
    PROVE  \/ \E d \in DlqIds : /\ ReplayAdd(c, d)
                                /\ call'[c].pc = "replayRemove" /\ call'[c].cur = d
           \/ Close(c) /\ call'[c].pc \in {"closeWorkers", "closeDlq"}
           \/ \E n \in 1..3 : CloseStep(c, n) /\ call'[c].pc \in ClosePcs
<1> DEFINE Goal == \/ \E d \in DlqIds : /\ ReplayAdd(c, d)
                                        /\ call'[c].pc = "replayRemove" /\ call'[c].cur = d
                   \/ Close(c) /\ call'[c].pc \in {"closeWorkers", "closeDlq"}
                   \/ \E n \in 1..3 : CloseStep(c, n) /\ call'[c].pc \in ClosePcs
<1> USE DEF ClosePcs
<1>0. call \in [Clients -> CallType]
  BY DEF IInv, TypeOK, InFlightOK
<1>1. ASSUME NEW x \in Clients, NEW pc, NEW todo, NEW cur, Enters(x, pc, todo, cur)
      PROVE  x = c /\ call'[c].pc = pc /\ call'[c].cur = cur
  BY <1>0, <1>1 DEF Enters
<1>2. ASSUME NEW x \in Clients, NEW pc \in {"bulkNext", "replayAdd"}, Continues(x, pc)
      PROVE  FALSE
  BY <1>0, <1>2 DEF Continues, IdleCall, CallType
<1>3. ASSUME NEW x \in Clients, call' = [call EXCEPT ![x] = IdleCall] PROVE FALSE
  BY <1>0, <1>3 DEF IdleCall
<1>4. ASSUME NEW x \in Clients, StartCall(x) PROVE Goal
  <2>1. CASE \E i \in Ids : RetryJob(x, i) \/ RemoveJob(x, i)
    BY <1>1, <2>1 DEF RetryJob, RemoveJob
  <2>2. CASE \E limit \in Limits, st \in Pending \union {"failed", "completed"} :
                BulkRetry(x, st, limit)
    BY <1>1, <2>2 DEF BulkRetry
  <2>3. CASE \E limit \in Limits : ReplayDLQ(x, limit)
    BY <1>1, <2>3 DEF ReplayDLQ
  <2>4. CASE Close(x)
    BY <1>1, <2>4 DEF Close
  <2>5. QED
    BY <1>4, <2>1, <2>2, <2>3, <2>4 DEF StartCall
<1>5. ASSUME NEW x \in Clients, CallStep(x) PROVE Goal
  <2>1. ASSUME NEW i \in Ids, BulkNext(x, i) PROVE Goal
    BY <1>1, <1>3, <2>1 DEF BulkNext
  <2>2. CASE RetryMoves(x)
    BY <1>2, <2>2 DEF RetryMoves
  <2>3. CASE Remove(x) \/ Rejected(x) \/ ReplayRemoveRejected(x)
    BY <1>3, <2>3 DEF Remove, Rejected, ReplayRemoveRejected
  <2>4. ASSUME NEW d \in DlqIds, ReplayAdd(x, d) PROVE Goal
    BY <1>1, <2>4 DEF ReplayAdd
  <2>5. CASE ReplayRemove(x)
    BY <1>2, <2>5 DEF ReplayRemove
  <2>6. ASSUME NEW n \in 1..4, CloseStep(x, n) PROVE Goal
    <3>1. n \in 1..3
      BY <1>3, <2>6 DEF CloseStep
    <3>2. Enters(x, CloseOrder[n + 1], {}, None) /\ CloseOrder[n + 1] \in ClosePcs
      BY <2>6, <3>1 DEF CloseStep, CloseOrder
    <3>3. QED
      BY <1>1, <2>6, <3>1, <3>2
  <2>7. QED
    BY <1>5, <2>1, <2>2, <2>3, <2>4, <2>5, <2>6 DEF CallStep
<1>6. CASE Crash
  BY <1>6 DEF Crash, IdleCall
<1>7. QED
  BY <1>4, <1>5, <1>6, Frame

(***************************************************************************)
(* close().  Once it has begun, only a late worker fetches; when it is     *)
(* past the workers, no slot is busy, and none but a late worker's can     *)
(* become busy again.                                                      *)
(***************************************************************************)
Quiet == \A s \in Slots : run[s].pc = "idle"

CloseInv ==
    /\ NoWorkAfterClose
    /\ worker = "none" => Quiet
    /\ worker = "live" /\ stage >= 1 => late
    /\ \A c \in Clients : call[c].pc \in ClosePcs =>
          stage >= 1 /\ IF call[c].pc = "closeWorkers" THEN worker = "closing" ELSE late \/ Quiet

\* The steps of close() and the worker.
LEMMA WorkerMoves ==
    ASSUME IInv, CloseInv, [Next]_vars, ~Crash
    PROVE  /\ stage \in 0..4 /\ (stage >= 1 => stage' >= 1)
           /\ \/ UNCHANGED <<worker, late, stage>>
              \/ worker = "none" /\ worker' = "live" /\ (stage > 0 => late') /\ stage' = stage
              \/ \E c \in Clients :
                    /\ Close(c) /\ late' = late /\ stage' = (IF stage = 0 THEN 1 ELSE stage)
                    /\ worker' = (IF worker = "none" THEN worker ELSE "closing")
              \/ \E c \in Clients : /\ CloseStep(c, 1) /\ worker = "closing" /\ Quiet
                                    /\ ~late' /\ UNCHANGED <<worker, stage>>
              \/ \E c \in Clients, n \in 2..4 :
                    CloseStep(c, n) /\ (late \/ Quiet) /\ UNCHANGED <<worker, late>>
<1>0. stage \in 0..4
  BY DEF IInv, TypeOK, ProcessOK
<1>1. CASE UNCHANGED process \/ Restart
  BY <1>0, <1>1 DEF process, Restart
<1>2. CASE \E name \in Names : Process(name)
  <2>1. stage' = stage
    BY <1>2 DEF Process
  <2>2. \/ UNCHANGED <<worker, late>>
        \/ worker = "none" /\ worker' = "live" /\ late' = (stage > 0)
    BY <1>2 DEF Process
  <2>3. late' = (stage > 0) => (stage > 0 => late')
    BY Zenon
  <2>4. QED
    BY <1>0, <2>1, <2>2, <2>3
<1>3. ASSUME NEW c \in Clients, Close(c)
      PROVE  /\ late' = late /\ stage' = (IF stage = 0 THEN 1 ELSE stage)
             /\ worker' = (IF worker = "none" THEN worker ELSE "closing")
  BY <1>3 DEF Close
<1>4. ASSUME NEW c \in Clients, CloseStep(c, 1)
      PROVE  worker = "closing" /\ Quiet /\ ~late' /\ UNCHANGED <<worker, stage>>
  <2>1. call[c].pc = "closeWorkers" /\ Quiet /\ UNCHANGED <<worker, stage>>
    BY <1>0, <1>4 DEF CloseStep, CloseOrder, WorkersIdle, Quiet
  <2>2. worker = "closing"
    BY <2>1 DEF ClosePcs, CloseInv
  <2>3. late' = (late /\ 1 # 1)
    BY <1>4 DEF CloseStep
  <2>4. 1 # 1 <=> FALSE
    OBVIOUS
  <2>5. ~late'
    BY <2>3, <2>4, Zenon
  <2>6. QED
    BY <2>1, <2>2, <2>5
<1>5. ASSUME NEW c \in Clients, NEW n \in 2..4, CloseStep(c, n)
      PROVE  (late \/ Quiet) /\ UNCHANGED <<worker, late>> /\ (stage >= 1 => stage' >= 1)
  <2>1. late' = late
    BY <1>5 DEF CloseStep, IInv, TypeOK, ProcessOK
  <2>2. call[c].pc \in ClosePcs \ {"closeWorkers"}
    BY <1>5 DEF CloseStep, CloseOrder, ClosePcs
  <2>3. QED
    BY <1>0, <1>5, <2>1, <2>2 DEF CloseStep, CloseInv
<1>6. 1..4 = {1} \union 2..4
  OBVIOUS
<1>7. CASE \E c \in Clients : Close(c) \/ \E n \in 1..4 : CloseStep(c, n)
  BY <1>0, <1>3, <1>4, <1>5, <1>6, <1>7
<1>8. QED
  BY <1>1, <1>2, <1>7, Frame

LEMMA CloseStepInv ==
    ASSUME IInv, [Next]_vars, CloseInv
    PROVE  CloseInv'
<1>1. CASE Crash
  BY <1>1 DEF Crash, CloseInv, NoWorkAfterClose, IdleCall, IdleRun, ClosePcs, Quiet
<1>2. CASE ~Crash
  <2> DEFINE QuietNext == \A s \in Slots : run'[s].pc = "idle"
  <2>0. stage \in 0..4 /\ (stage >= 1 => stage' >= 1)
    BY <1>2, WorkerMoves
  <2>1. Quiet /\ worker # "live" => QuietNext
    <3>1. ASSUME NEW s \in Slots, NEW i \in Ids, Fetch(s, i) PROVE worker = "live"
      BY <3>1 DEF Fetch, Working
    <3>2. ASSUME NEW s \in Slots, Execution(s) PROVE run[s].pc # "idle"
      BY <3>2 DEF Execution, ProcessorReturns, ProcessorThrows, TelemetryThrows, DlqAdd,
         DlqAddRejects, Notified, Complete, FailAttempt
    <3>3. QED
      BY <1>2, <3>1, <3>2, Frame DEF Quiet
  <2>2. worker' = "live" /\ stage' >= 1 => late'
    <3>1. CASE UNCHANGED <<worker, late, stage>>
      BY <3>1 DEF CloseInv
    <3>2. CASE (stage > 0 => late') /\ stage' = stage
      BY <2>0, <3>2
    <3>3. ASSUME NEW c \in Clients, NEW n \in 2..4, CloseStep(c, n), UNCHANGED <<worker, late>>
          PROVE  stage >= 1
      BY <3>3 DEF CloseStep, CloseOrder, ClosePcs, CloseInv
    <3>4. CASE \E c \in Clients : worker' = (IF worker = "none" THEN worker ELSE "closing")
      BY <3>4
    <3>5. CASE \E c \in Clients : worker = "closing" /\ UNCHANGED worker
      BY <3>5
    <3>6. CASE \E c \in Clients, n \in 2..4 : CloseStep(c, n) /\ UNCHANGED <<worker, late>>
      BY <3>3, <3>6 DEF CloseInv
    <3>7. QED
      BY <1>2, <3>1, <3>2, <3>4, <3>5, <3>6, WorkerMoves
  <2>3. worker' = "none" => QuietNext
    BY <1>2, <2>1, WorkerMoves DEF CloseInv
  <2>4. stage >= 1 /\ (late \/ Quiet) /\ UNCHANGED <<worker, late>> => late' \/ QuietNext
    BY <2>1 DEF CloseInv
  <2>5. stage >= 1 /\ (late \/ Quiet) => late' \/ QuietNext
    BY <1>2, <2>0, <2>1, <2>4, WorkerMoves DEF CloseInv
  <2>6. stage' >= 2 => late' \/ QuietNext
    <3>1. CASE stage >= 2
      <4>1. late \/ Quiet
        BY <3>1 DEF CloseInv, NoWorkAfterClose, Quiet
      <4>2. stage >= 1
        BY <2>0, <3>1
      <4>3. QED
        BY <2>5, <4>1, <4>2
    <3>2. CASE ~(stage >= 2) /\ stage' >= 2
      <4>1. PICK c \in Clients, n \in 2..4 : CloseStep(c, n) /\ (late \/ Quiet)
        BY <1>2, <2>0, <3>2, WorkerMoves
      <4>2. stage >= 1
        BY <4>1 DEF CloseStep, CloseOrder, ClosePcs, CloseInv
      <4>3. QED
        BY <2>5, <4>1, <4>2
    <3>3. QED
      BY <3>1, <3>2
  <2>7. ASSUME NEW c \in Clients, call'[c].pc \in ClosePcs
        PROVE  stage' >= 1 /\ IF call'[c].pc = "closeWorkers" THEN worker' = "closing"
                              ELSE late' \/ QuietNext
    <3>1. CASE call'[c] = call[c]
      BY <1>2, <2>0, <2>5, <2>7, <3>1, WorkerMoves DEF CloseInv
    <3>2. CASE Close(c) /\ call'[c].pc = "closeWorkers"
      <4>1. call \in [Clients -> CallType] /\ stage' >= 1
        BY <2>0, <3>2 DEF Close, IInv, TypeOK, InFlightOK
      <4>2. worker' = "closing"
        BY <3>2, <4>1 DEF Close, Enters
      <4>3. QED
        BY <3>2, <4>1, <4>2
    <3>3. CASE Close(c) /\ call'[c].pc = "closeDlq"
      <4>1. call \in [Clients -> CallType] /\ stage' >= 1
        BY <2>0, <3>3 DEF Close, IInv, TypeOK, InFlightOK
      <4>2. worker = "none"
        BY <3>3, <4>1 DEF Close, Enters
      <4>3. QED
        BY <2>1, <3>3, <4>1, <4>2 DEF CloseInv
    <3>4. ASSUME NEW n \in 1..3, CloseStep(c, n), call'[c].pc \in ClosePcs
          PROVE  stage' >= 1 /\ call'[c].pc # "closeWorkers" /\ (late' \/ QuietNext)
      <4>1. call[c].pc \in ClosePcs
        BY <3>4 DEF CloseStep, CloseOrder, ClosePcs
      <4>2. call'[c].pc = CloseOrder[n + 1] /\ CloseOrder[n + 1] # "closeWorkers"
        BY <3>4 DEF CloseStep, CloseOrder, Enters, IInv, TypeOK, InFlightOK
      <4>3. late \/ Quiet
        <5>1. n = 1 => Quiet
          BY <3>4 DEF CloseStep, WorkersIdle, Quiet
        <5>2. n # 1 => call[c].pc # "closeWorkers"
          BY <3>4 DEF CloseStep, CloseOrder
        <5>3. QED
          BY <4>1, <5>1, <5>2 DEF CloseInv
      <4>4. stage >= 1
        BY <4>1 DEF CloseInv
      <4>5. QED
        BY <2>0, <2>5, <4>2, <4>3, <4>4
    <3>5. QED
      BY <2>7, <3>1, <3>2, <3>3, <3>4, CallMoves DEF ClosePcs
  <2>8. QED
    BY <2>2, <2>3, <2>6, <2>7 DEF CloseInv, NoWorkAfterClose, Quiet
<1>3. QED
  BY <1>1, <1>2

\* No execution is under way when close() has gone past the workers, however many
\* callers close the queue at once and wherever a crash cut them off, unless a process()
\* made a worker after a close() had begun.
THEOREM NoWorkAfterCloseAlways == Spec => []NoWorkAfterClose
<1>1. Init => CloseInv
  BY DEF Init, CloseInv, NoWorkAfterClose, IdleCall, IdleRun, ClosePcs, Quiet
<1>2. CloseInv => NoWorkAfterClose
  BY DEF CloseInv
<1>3. IInv /\ CloseInv /\ [Next]_vars => IInv' /\ CloseInv'
  BY IInvStep, CloseStepInv
<1>4. QED
  BY <1>1, <1>2, <1>3, IInvInit, PTL DEF Spec

(***************************************************************************)
(* replayDLQ.  The entry is removed under the id that was added, so what   *)
(* matters is whether the id can have been in use in the main queue for    *)
(* another reason.  It cannot be when no job of the main queue has an id   *)
(* BullMQ generated; and where BullMQ refuses integer ids, no entry is     *)
(* ever replayed.                                                          *)
(***************************************************************************)
NoForeignIds == MaxAuto = 0 \/ IntegerIdsRejected

TakenInv ==
    /\ EntryKeptUntilTaken
    /\ ~IntegerIdsRejected => \A d \in DlqIds : Present(main, d) => d \in taken
    /\ \A c \in Clients : call[c].pc = "replayRemove" => call[c].cur \in taken

LEMMA TakenStep ==
    ASSUME NoForeignIds, IInv, [Next]_vars, TakenInv
    PROVE  TakenInv'
<1>0. /\ main \in QueueType /\ dlq \in [DlqIds -> EntryType]
      /\ dlqNext \in 0..MaxDlq /\ 1..dlqNext \subseteq DlqIds
      /\ payNext \in 0..MaxAdds /\ autoNext \in 0..MaxAuto
  BY Bounds DEF IInv, TypeOK, QueuesOK, QueueType, DlqIds
<1>1. ASSUME NEW c \in Clients, NEW d \in DlqIds, ReplayAdd(c, d)
      PROVE  taken \subseteq taken' /\ (~IntegerIdsRejected => d \in taken')
  BY <1>1 DEF ReplayAdd, TakenInv
<1>2. taken \subseteq taken'
  BY <1>1, Frame
<1>3. ASSUME ~IntegerIdsRejected, NEW d \in DlqIds, Present(main', d)
      PROVE  d \in taken'
  <2>1. CASE Present(main, d)
    BY <1>2, <1>3, <2>1 DEF TakenInv
  <2>2. CASE ~Present(main, d)
    <3>1. ASSUME NEW c \in Clients, NEW x \in DlqIds, ReplayAdd(c, x) PROVE d \in taken'
      <4>1. CASE x = d
        BY <1>1, <1>3, <3>1, <4>1
      <4>2. CASE x # d
        BY <1>0, <1>3, <2>2, <3>1, <4>2 DEF ReplayAdd, Readded, AddWithId, Present, QueueType
      <4>3. QED
        BY <4>1, <4>2
    <3>2. CASE Submit
      <4>1. PICK name \in Names, opt \in JobOpts, key \in Keys \union {None}, st \in AddTo :
              AddJob(name, opt, key, st)
        BY <3>2 DEF Submit
      <4>2. key \in Keys /\ key # d
        BY <1>3, <4>1, Bounds DEF AddJob, AutoIds, NoForeignIds
      <4>3. QED
        BY <1>0, <1>3, <2>2, <4>1, <4>2, Bounds DEF AddJob, Present, QueueType
    <3>3. CASE main' \in QueueType /\ Carries(main, main')
      BY <1>3, <2>2, <3>3, Bounds DEF Carries
    <3>4. QED
      BY <3>1, <3>2, <3>3, MainStep
  <2>3. QED
    BY <2>1, <2>2
<1>4. ASSUME NEW c \in Clients, call'[c].pc = "replayRemove" PROVE call'[c].cur \in taken'
  <2>1. CASE call'[c] = call[c]
    BY <1>2, <1>4, <2>1 DEF TakenInv
  <2>2. CASE call'[c] # call[c]
    <3>1. PICK d \in DlqIds : ReplayAdd(c, d) /\ call'[c].cur = d
      BY <1>4, <2>2, CallMoves DEF ClosePcs
    <3>2. ~IntegerIdsRejected
      BY <3>1 DEF ReplayAdd
    <3>3. QED
      BY <1>1, <3>1, <3>2
  <2>3. QED
    BY <2>1, <2>2
<1>5. ASSUME NEW d \in 1..dlqNext' PROVE dlq'[d].st = "wait" \/ d \in taken'
  <2>1. CASE UNCHANGED <<dlq, dlqNext>>
    BY <1>2, <1>5, <2>1 DEF TakenInv, EntryKeptUntilTaken
  <2>2. ASSUME NEW s \in Slots, DlqAdd(s) PROVE dlq'[d].st = "wait" \/ d \in taken'
    <3>1. /\ dlqNext' = dlqNext + 1 /\ dlqNext + 1 \in DlqIds
          /\ dlq'[dlqNext + 1].st = "wait"
          /\ \A x \in DlqIds : x # dlqNext + 1 => dlq'[x] = dlq[x]
      BY <1>0, <2>2 DEF DlqAdd
    <3>2. d = dlqNext + 1 \/ (d \in 1..dlqNext /\ d \in DlqIds /\ d # dlqNext + 1)
      BY <1>0, <3>1, Bounds
    <3>3. QED
      BY <1>2, <3>1, <3>2 DEF TakenInv, EntryKeptUntilTaken
  <2>3. ASSUME NEW c \in Clients, ReplayRemove(c) PROVE dlq'[d].st = "wait" \/ d \in taken'
    <3>1. /\ call[c].cur \in taken /\ dlqNext' = dlqNext
          /\ dlq' = [dlq EXCEPT ![call[c].cur].st = "none"]
      BY <2>3 DEF ReplayRemove, TakenInv
    <3>2. CASE d = call[c].cur
      BY <1>2, <3>1, <3>2
    <3>3. CASE d # call[c].cur
      BY <1>0, <1>2, <1>5, <3>1, <3>3 DEF TakenInv, EntryKeptUntilTaken
    <3>4. QED
      BY <3>2, <3>3
  <2>4. QED
    BY <2>1, <2>2, <2>3, Frame
<1>6. QED
  BY <1>3, <1>4, <1>5 DEF TakenInv, EntryKeptUntilTaken, Present

\* An entry of the DLQ is never lost between the two queues, whatever crashes,
\* rejected removes, stalls and concurrent replays come in between; unless jobs of
\* the main queue have integer ids and BullMQ accepts such ids from callers.
THEOREM EntryKeptAlways ==
    ASSUME NoForeignIds
    PROVE  Spec => []EntryKeptUntilTaken
<1>1. Init => TakenInv
  BY Bounds, BlankTypes DEF Init, TakenInv, EntryKeptUntilTaken, Present, IdleCall
<1>2. TakenInv => EntryKeptUntilTaken
  BY DEF TakenInv
<1>3. IInv /\ TakenInv /\ [Next]_vars => IInv' /\ TakenInv'
  BY IInvStep, TakenStep
<1>4. QED
  BY <1>1, <1>2, <1>3, IInvInit, PTL DEF Spec
=============================================================================
