---------------------------- MODULE DeliveryProofs ----------------------------
(***************************************************************************)
(* What JobQueue promises about delivery, proved for any number of slots,  *)
(* clients, names, keys, jobs and faults: the two queues implement         *)
(* AtLeastOnce, and without faults a payload is processed once.            *)
(***************************************************************************)
EXTENDS JobQueueProofs

(***************************************************************************)
(* What a step may do to a single id of the main queue.                    *)
(***************************************************************************)

\* addJob puts a new job there; under a key of its caller only where none is.
Submitted(i) ==
    \E name \in Names, opt \in JobOpts, key \in Keys \union {None}, st \in AddTo :
        /\ AddJob(name, opt, key, st)
        /\ i = (IF key = None THEN autoNext + 1 ELSE key)
        /\ key # None => ~Present(main, i)
        /\ main'[i] = Job(st, opt, name, payNext + 1, 0)
        /\ payNext' = payNext + 1

Replayed(i) ==
    /\ i \in DlqIds /\ ~Present(main, i)
    /\ \E c \in Clients : ReplayAdd(c, i)
    /\ main'[i] = Job("wait", DefaultOpts, dlq[i].name, dlq[i].pay, dlq[i].wraps)

\* The attempt of slot s settles the job i it still holds the lock of.
Settles(s, i) == run[s].id = i /\ Applies(i, s)

MovesTo(i) ==
    \/ main'[i] = main[i]
    \/ \E s \in Slots : Fetch(s, i) /\ main'[i] = [main[i] EXCEPT !.st = "active", !.lock = s]
    \/ \E s \in Slots : /\ Complete(s) /\ Settles(s, i)
                        /\ main'[i] = Ended(main[i], "completed", None)
    \/ \E s \in Slots :
          /\ FailAttempt(s) /\ Settles(s, i)
          /\ \/ ~WillRetry(main[i]) /\ main'[i] = Ended(main[i], "failed", None)
             \/ WillRetry(main[i]) /\ main'[i] = Ended(main[i], "delayed", None)
    \/ Promote(i) /\ main'[i] = [main[i] EXCEPT !.st = "wait"]
    \/ (LoseLock(i) \/ Crash) /\ main'[i] = [main[i] EXCEPT !.lock = None]
    \/ /\ Stalled(i)
       /\ \/ main'[i] = [main[i] EXCEPT !.st = "failed"]
          \/ main'[i] = [main[i] EXCEPT !.st = "wait", !.stalls = main[i].stalls + 1]
    \/ /\ \E c \in Clients : RetryMoves(c)
       /\ main[i].st = "active"
       /\ main'[i] = [main[i] EXCEPT !.st = "wait", !.lock = None]

\* Removed when its attempt ended, by the stalled-job check, or by a caller; the
\* first two leave the other jobs and the DLQ alone.
Alone(i) == dlq' = dlq /\ \A j \in Ids : j # i => main'[j] = main[j]

Departs(i) ==
    /\ Present(main, i) /\ main'[i] = NoJob
    /\ \/ \E s \in Slots : Complete(s) /\ Settles(s, i) /\ Alone(i)
       \/ \E s \in Slots : /\ FailAttempt(s) /\ Settles(s, i) /\ Alone(i)
                           /\ main[i].opt.removeOnFail /\ GivenUp(main[i]) \subseteq dropped'
       \/ /\ Stalled(i) /\ main[i].opt.removeOnFail /\ main[i].stalls + 1 > StallLimit
          /\ GivenUp(main[i]) \subseteq dropped'
       \/ (Drain \/ \E c \in Clients : Remove(c)) /\ main[i].pay \in dropped'
       \/ Clear /\ main[i].st = "completed"

LEMMA JobStep ==
    ASSUME IInv, [Next]_vars
    PROVE  \A i \in Ids : Submitted(i) \/ Replayed(i) \/ MovesTo(i) \/ Departs(i)
<1> DEFINE Step(i) == Submitted(i) \/ Replayed(i) \/ MovesTo(i) \/ Departs(i)
           Goal == \A i \in Ids : Step(i)
<1>0. main \in [Ids -> JobType] /\ run \in [Slots -> RunType]
  BY DEF IInv, TypeOK, QueuesOK, InFlightOK
<1>1. ASSUME main' = main PROVE Goal
  BY <1>1 DEF MovesTo
<1>2. ASSUME NEW i \in Ids, NEW job, main' = [main EXCEPT ![i] = job],
             main'[i] = job /\ (\A j \in Ids : j # i => main'[j] = main[j]) => Step(i)
      PROVE  Goal
  <2>1. main'[i] = job /\ \A j \in Ids : j # i => main'[j] = main[j]
    BY <1>0, <1>2
  <2>2. \A j \in Ids : j # i => Step(j)
    BY <2>1 DEF MovesTo
  <2>3. QED
    BY <1>2, <2>1, <2>2
<1>3. ASSUME NEW s \in Slots, NEW i \in Ids, Fetch(s, i) PROVE Goal
  <2>1. main' = [main EXCEPT ![i] = [main[i] EXCEPT !.st = "active", !.lock = s]]
    BY <1>0, <1>3 DEF Fetch, Activate
  <2>2. QED
    BY <1>2, <1>3, <2>1 DEF MovesTo
<1>4. ASSUME NEW s \in Slots, Complete(s) PROVE Goal
  <2>1. run[s].id \in Ids
    BY <1>4 DEF Complete, IInv, Tracked
  <2>2. CASE ~Applies(run[s].id, s)
    BY <1>1, <1>4, <2>2 DEF Complete
  <2>3. CASE Applies(run[s].id, s)
    <3> DEFINE i == run[s].id
    <3>1. /\ Present(main, i) /\ Settles(s, i) /\ dlq' = dlq
          /\ main' = [main EXCEPT ![i] = IF main[i].opt.removeOnComplete THEN NoJob
                                         ELSE Ended(main[i], "completed", None)]
      BY <1>4, <2>3 DEF Complete, Finish, Applies, Owns, Present, Settles
    <3> HIDE DEF i
    <3>2. CASE main' = [main EXCEPT ![i] = NoJob]
      BY <1>2, <1>4, <2>1, <3>1, <3>2 DEF Departs, Alone, i
    <3>3. CASE main' = [main EXCEPT ![i] = Ended(main[i], "completed", None)]
      BY <1>2, <1>4, <2>1, <3>1, <3>3 DEF MovesTo, i
    <3>4. QED
      BY <3>1, <3>2, <3>3
  <2>4. QED
    BY <2>2, <2>3
<1>5. ASSUME NEW s \in Slots, FailAttempt(s) PROVE Goal
  <2>1. run[s].id \in Ids
    BY <1>5 DEF FailAttempt, IInv, Tracked
  <2>2. CASE ~Applies(run[s].id, s)
    BY <1>1, <1>5, <2>2 DEF FailAttempt
  <2>3. CASE Applies(run[s].id, s)
    <3> DEFINE i == run[s].id
    <3>1. Present(main, i) /\ Settles(s, i) /\ dlq' = dlq
      BY <1>5, <2>3 DEF FailAttempt, Applies, Owns, Present, Settles
    <3>2. \/ /\ WillRetry(main[i])
             /\ main' = [main EXCEPT ![i] = Ended(main[i], "delayed", None)]
          \/ /\ main[i].opt.removeOnFail /\ GivenUp(main[i]) \subseteq dropped'
             /\ main' = [main EXCEPT ![i] = NoJob]
          \/ /\ ~WillRetry(main[i])
             /\ main' = [main EXCEPT ![i] = Ended(main[i], "failed", None)]
      BY <1>0, <1>5, <2>1, <2>3 DEF FailAttempt, Finish, Backoff, Ended
    <3> HIDE DEF i
    <3>3. CASE /\ WillRetry(main[i])
               /\ main' = [main EXCEPT ![i] = Ended(main[i], "delayed", None)]
      BY <1>2, <1>5, <2>1, <3>1, <3>3 DEF MovesTo, i
    <3>4. CASE /\ main[i].opt.removeOnFail /\ GivenUp(main[i]) \subseteq dropped'
               /\ main' = [main EXCEPT ![i] = NoJob]
      BY <1>2, <1>5, <2>1, <3>1, <3>4 DEF Departs, Alone, i
    <3>5. CASE /\ ~WillRetry(main[i])
               /\ main' = [main EXCEPT ![i] = Ended(main[i], "failed", None)]
      BY <1>2, <1>5, <2>1, <3>1, <3>5 DEF MovesTo, i
    <3>6. QED
      BY <3>2, <3>3, <3>4, <3>5
  <2>4. QED
    BY <2>2, <2>3
<1>6. ASSUME NEW i \in Ids, Promote(i) PROVE Goal
  <2>1. main' = [main EXCEPT ![i] = [main[i] EXCEPT !.st = "wait"]]
    BY <1>0, <1>6 DEF Promote
  <2>2. QED
    BY <1>2, <1>6, <2>1 DEF MovesTo
<1>7. ASSUME NEW i \in Ids, LoseLock(i) PROVE Goal
  <2>1. main' = [main EXCEPT ![i] = [main[i] EXCEPT !.lock = None]]
    BY <1>0, <1>7 DEF LoseLock
  <2>2. QED
    BY <1>2, <1>7, <2>1 DEF MovesTo
<1>8. ASSUME NEW i \in Ids, Stalled(i) PROVE Goal
  <2>0. Present(main, i)
    BY <1>8 DEF Stalled, Present
  <2>1. \/ /\ main' = [main EXCEPT ![i] = NoJob]
           /\ main[i].opt.removeOnFail /\ main[i].stalls + 1 > StallLimit
           /\ GivenUp(main[i]) \subseteq dropped'
        \/ main' = [main EXCEPT ![i] = [main[i] EXCEPT !.st = "failed"]]
        \/ main' = [main EXCEPT ![i] = [main[i] EXCEPT !.st = "wait",
                                                       !.stalls = main[i].stalls + 1]]
    BY <1>0, <1>8 DEF Stalled
  <2>2. CASE /\ main' = [main EXCEPT ![i] = NoJob]
             /\ main[i].opt.removeOnFail /\ main[i].stalls + 1 > StallLimit
           /\ GivenUp(main[i]) \subseteq dropped'
    BY <1>2, <1>8, <2>0, <2>2 DEF Departs
  <2>3. CASE main' = [main EXCEPT ![i] = [main[i] EXCEPT !.st = "failed"]]
    BY <1>2, <1>8, <2>3 DEF MovesTo
  <2>4. CASE main' = [main EXCEPT ![i] = [main[i] EXCEPT !.st = "wait",
                                                         !.stalls = main[i].stalls + 1]]
    BY <1>2, <1>8, <2>4 DEF MovesTo
  <2>5. QED
    BY <2>1, <2>2, <2>3, <2>4
<1>9. CASE Crash
  BY <1>9 DEF Crash, MovesTo
<1>10. ASSUME NEW c \in Clients, RetryMoves(c) PROVE Goal
  <2> DEFINE i == call[c].cur
  <2>1. i \in Ids
    BY <1>10 DEF RetryMoves, IInv, Tracked
  <2>2. /\ main[i].st = "active"
        /\ main' = [main EXCEPT ![i] = [main[i] EXCEPT !.st = "wait", !.lock = None]]
    BY <1>0, <1>10, <2>1 DEF RetryMoves, MoveToWait
  <2> HIDE DEF i
  <2>3. QED
    BY <1>2, <1>10, <2>1, <2>2 DEF MovesTo
<1>11. ASSUME NEW c \in Clients, Remove(c) PROVE Goal
  <2> DEFINE i == call[c].cur
  <2>1. i \in Ids
    BY <1>11 DEF Remove, IInv, Tracked
  <2>2. \/ main' = main
        \/ Present(main, i) /\ main' = [main EXCEPT ![i] = NoJob] /\ main[i].pay \in dropped'
    BY <1>11 DEF Remove
  <2> HIDE DEF i
  <2>3. QED
    BY <1>1, <1>2, <1>11, <2>1, <2>2 DEF Departs
<1>12. CASE Clear
  BY <1>12 DEF Clear, MovesTo, Departs, Present
<1>13. CASE Drain
  <2>1. \A i \in Ids : main[i].st = "wait" => main[i].pay \in dropped'
    BY <1>0, <1>13 DEF Drain, InState
  <2>2. QED
    BY <1>13, <2>1 DEF Drain, MovesTo, Departs, Present
<1>14. ASSUME NEW name \in Names, NEW opt \in JobOpts, NEW key \in Keys \union {None},
              NEW st \in AddTo, AddJob(name, opt, key, st)
       PROVE  Goal
  <2> DEFINE i == IF key = None THEN autoNext + 1 ELSE key
             job == Job(st, opt, name, payNext + 1, 0)
  <2>1. i \in Ids
    BY <1>14, Bounds DEF AddJob
  <2>2. \/ main' = main
        \/ /\ main' = [main EXCEPT ![i] = job] /\ payNext' = payNext + 1
           /\ key # None => ~Present(main, i)
    BY <1>14, ConstantsAssumption DEF AddJob
  <2>3. CASE /\ main' = [main EXCEPT ![i] = job] /\ payNext' = payNext + 1
             /\ key # None => ~Present(main, i)
    <3>1. main'[i] = job => Submitted(i)
      BY <1>14, <2>3 DEF Submitted
    <3> HIDE DEF i, job
    <3>2. QED
      BY <1>2, <2>1, <2>3, <3>1
  <2>4. QED
    BY <1>1, <2>2, <2>3
<1>15. ASSUME NEW c \in Clients, NEW d \in DlqIds, ReplayAdd(c, d) PROVE Goal
  <2> DEFINE job == Job("wait", DefaultOpts, dlq[d].name, dlq[d].pay, dlq[d].wraps)
  <2>1. main' = main \/ (~Present(main, d) /\ main' = [main EXCEPT ![d] = job])
    BY <1>15 DEF ReplayAdd, Readded, AddWithId
  <2>2. CASE ~Present(main, d) /\ main' = [main EXCEPT ![d] = job]
    <3>1. main'[d] = job => Replayed(d)
      BY <1>15, <2>2 DEF Replayed
    <3> HIDE DEF job
    <3>2. QED
      BY <1>2, <2>2, <3>1, Bounds
  <2>3. QED
    BY <1>1, <2>1, <2>2
<1>16. ASSUME NEW s \in Slots, Execution(s), ~Complete(s), ~FailAttempt(s) PROVE Goal
  BY <1>1, <1>16 DEF Execution, ProcessorReturns, ProcessorThrows, TelemetryThrows, DlqAdd,
     DlqAddRejects, Notified, redis
<1>17. ASSUME NEW c \in Clients, StartCall(c) PROVE Goal
  BY <1>1, <1>17 DEF StartCall, RetryJob, RemoveJob, BulkRetry, ReplayDLQ, Close, redis
<1>18. ASSUME NEW c \in Clients, CallStep(c), ~RetryMoves(c), ~Remove(c),
              \A d \in DlqIds : ~ReplayAdd(c, d)
       PROVE  Goal
  BY <1>1, <1>18 DEF CallStep, BulkNext, ReplayRemove, Rejected, ReplayRemoveRejected,
     CloseStep, redis
<1>19. ASSUME \/ \E name \in Names : Process(name)
              \/ Restart \/ PauseResume \/ UNCHANGED vars
       PROVE  Goal
  BY <1>1, <1>19 DEF Process, Restart, PauseResume, vars, redis
<1>20. QED
  BY <1>3, <1>4, <1>5, <1>6, <1>7, <1>8, <1>9, <1>10, <1>11, <1>12, <1>13, <1>14, <1>15,
     <1>16, <1>17, <1>18, <1>19 DEF Next, Submit

\* The stalls of a job, those the stalled-job check has yet to count included.
Stalls(job) == job.stalls + (IF job.st = "active" /\ job.lock = None THEN 1 ELSE 0)

LEMMA Continued ==
    ASSUME IInv, [Next]_vars, NEW i \in Ids, MovesTo(i)
    PROVE  /\ main'[i].opt = main[i].opt /\ main'[i].name = main[i].name
           /\ main'[i].pay = main[i].pay
           /\ Present(main', i) <=> Present(main, i)
           /\ main'[i].st = "active" /\ main'[i].lock # None =>
                 \/ main'[i] = main[i]
                 \/ \E s \in Slots : /\ Fetch(s, i) /\ main'[i].lock = s
                                     /\ main'[i].made = main[i].made
           /\ main'[i].st = "active" /\ main'[i].lock = None =>
                 main[i].st = "active" /\ (main[i].lock = None \/ faults' # faults)
           /\ main'[i].st = "completed" =>
                 \/ main[i].st = "completed"
                 \/ \E s \in Slots : Complete(s) /\ Settles(s, i)
           /\ Stalls(main[i]) <= faults => Stalls(main'[i]) <= faults'
<1> DEFINE job == main[i]
           new == main'[i]
           Goal == /\ new.opt = job.opt /\ new.name = job.name /\ new.pay = job.pay
                   /\ new.st # "none" <=> job.st # "none"
                   /\ new.st = "active" /\ new.lock # None =>
                         \/ new = job
                         \/ \E s \in Slots : Fetch(s, i) /\ new.lock = s /\ new.made = job.made
                   /\ new.st = "active" /\ new.lock = None =>
                         job.st = "active" /\ (job.lock = None \/ faults' # faults)
                   /\ new.st = "completed" =>
                         \/ job.st = "completed"
                         \/ \E s \in Slots : Complete(s) /\ Settles(s, i)
                   /\ Stalls(job) <= faults => Stalls(new) <= faults'
<1>0. /\ main[i] \in JobType /\ job.stalls \in Nat /\ faults \in Nat /\ faults' \in Nat
      /\ faults <= faults' /\ None \notin Slots
  BY Bounds, ConstantsAssumption, Frame DEF IInv, TypeOK, QueuesOK, HistoryOK, JobType
<1> USE DEF Stalls
<1> SUFFICES Goal
  BY DEF Present
<1>1. CASE main'[i] = main[i]
  BY <1>0, <1>1
<1>2. ASSUME NEW s \in Slots, Fetch(s, i), new = [job EXCEPT !.st = "active", !.lock = s]
      PROVE  Goal
  <2>1. job.st = "wait"
    BY <1>2 DEF Fetch
  <2>2. QED
    BY <1>0, <1>2, <2>1 DEF JobType
<1>3. ASSUME NEW s \in Slots, Complete(s), Settles(s, i), new = Ended(job, "completed", None)
      PROVE  Goal
  BY <1>0, <1>3 DEF Ended, Settles, Applies, Owns, JobType
<1>4. ASSUME NEW s \in Slots, NEW st \in {"failed", "delayed"}, Settles(s, i),
             new = Ended(job, st, None)
      PROVE  Goal
  BY <1>0, <1>4 DEF Ended, Settles, Applies, Owns, JobType
<1>5. CASE Promote(i) /\ new = [job EXCEPT !.st = "wait"]
  BY <1>0, <1>5 DEF Promote, JobType
<1>6. CASE (LoseLock(i) \/ Crash) /\ new = [job EXCEPT !.lock = None]
  BY <1>0, <1>6 DEF LoseLock, Crash, JobType
<1>7. CASE /\ Stalled(i)
           /\ \/ new = [job EXCEPT !.st = "failed"]
              \/ new = [job EXCEPT !.st = "wait", !.stalls = job.stalls + 1]
  <2>1. job.st = "active" /\ job.lock = None
    BY <1>7 DEF Stalled
  <2>2. new = [job EXCEPT !.st = "failed"] => Goal
    BY <1>0, <2>1 DEF JobType
  <2>3. new = [job EXCEPT !.st = "wait", !.stalls = job.stalls + 1] => Goal
    BY <1>0, <2>1 DEF JobType
  <2>4. QED
    BY <1>7, <2>2, <2>3
<1>8. CASE job.st = "active" /\ new = [job EXCEPT !.st = "wait", !.lock = None]
  BY <1>0, <1>8 DEF JobType
<1>9. QED
  BY <1>1, <1>2, <1>3, <1>4, <1>5, <1>6, <1>7, <1>8 DEF MovesTo

(***************************************************************************)
(* What a step may do to a single execution.                               *)
(***************************************************************************)

Handles(r, i, job) ==
    r.id = i /\ r.name = job.name /\ r.pay = job.pay /\ r.made = job.made
    /\ r.max = job.opt.attempts

SameAttempt(r, new) ==
    new.id = r.id /\ new.name = r.name /\ new.pay = r.pay /\ new.made = r.made /\ new.max = r.max

\* An execution begins.
Begins(s) ==
    \E i \in Ids : /\ Fetch(s, i) /\ run[s].pc = "idle" /\ main[i].st = "wait"
                   /\ Handles(run'[s], i, main[i])
                   /\ \/ run'[s].pc = "processor"
                      \/ /\ run'[s].pc = "rejected"
                         /\ main[i].name \notin procs \/ "started" \in TelemetryFaults

\* It goes on to its next await.
Advances(s) ==
    /\ SameAttempt(run[s], run'[s])
    /\ \/ /\ ProcessorReturns(s) /\ run[s].pc = "processor" /\ run'[s].pc = "resolved"
          /\ run[s].pay \in won'
       \/ /\ ProcessorThrows(s) \/ TelemetryThrows(s)
          /\ run[s].pc = "processor"
          /\ run'[s].pc = IF DlqEnabled /\ run[s].made >= run[s].max THEN "dlqAdd" ELSE "rejected"
       \/ DlqAdd(s) /\ run[s].pc = "dlqAdd" /\ run'[s].pc = "notify"
       \/ DlqAddRejects(s) /\ run[s].pc = "dlqAdd" /\ run'[s].pc = "rejected"
       \/ Notified(s) /\ run[s].pc = "notify" /\ run'[s].pc = "rejected"

Ends(s) == (Complete(s) \/ FailAttempt(s) \/ Crash) /\ run'[s].pc = "idle"

LEMMA RunMoves ==
    ASSUME IInv, [Next]_vars
    PROVE  \A s \in Slots : run'[s] = run[s] \/ Begins(s) \/ Advances(s) \/ Ends(s)
<1> DEFINE Step(s) == run'[s] = run[s] \/ Begins(s) \/ Advances(s) \/ Ends(s)
           Goal == \A s \in Slots : Step(s)
<1>0. run \in [Slots -> RunType]
  BY DEF IInv, TypeOK, InFlightOK
<1>1. ASSUME run' = run PROVE Goal
  BY <1>1
<1>2. ASSUME NEW s \in Slots, NEW r, run' = [run EXCEPT ![s] = r], run'[s] = r => Step(s)
      PROVE  Goal
  BY <1>0, <1>2
<1>3. ASSUME NEW s \in Slots, NEW i \in Ids, Fetch(s, i) PROVE Goal
  <2>1. PICK h \in Handed(main[i]) :
          run' = [run EXCEPT ![s] =
                   [pc |-> h.pc, id |-> i, name |-> main[i].name, pay |-> main[i].pay,
                    wraps |-> main[i].wraps, made |-> main[i].made,
                    max |-> main[i].opt.attempts, said |-> h.said]]
    BY <1>3 DEF Fetch
  <2>2. \/ h.pc = "processor"
        \/ h.pc = "rejected" /\ (main[i].name \notin procs \/ "started" \in TelemetryFaults)
    BY DEF Handed
  <2>3. run[s].pc = "idle" /\ main[i].st = "wait"
    BY <1>3 DEF Fetch
  <2>4. QED
    BY <1>2, <1>3, <2>1, <2>2, <2>3 DEF Begins, Handles
<1>4. CASE Crash
  BY <1>4, BlankTypes DEF Crash, Ends
<1>5. ASSUME NEW s \in Slots, Execution(s) PROVE Goal
  <2>0. run[s] \in RunType
    BY <1>0
  <2>1. ASSUME NEW r \in RunType
        PROVE  /\ SameAttempt(r, Succeeds(r)) /\ Succeeds(r).pc = "resolved"
               /\ Succeeds(r).made = r.made /\ Succeeds(r).max = r.max
               /\ SameAttempt(r, Failing(r)) /\ SameAttempt(r, Failing(Succeeds(r)))
               /\ Failing(r).pc = IF DlqEnabled /\ r.made >= r.max THEN "dlqAdd" ELSE "rejected"
               /\ Failing(Succeeds(r)).pc =
                    IF DlqEnabled /\ r.made >= r.max THEN "dlqAdd" ELSE "rejected"
    BY DEF SameAttempt, Succeeds, Failing, Exhausted, RunType
  <2>2. CASE ProcessorReturns(s)
    <3>1. /\ run' = [run EXCEPT ![s] = Succeeds(run[s])]
          /\ run[s].pc = "processor" /\ run[s].pay \in won'
      BY <2>2 DEF ProcessorReturns, CountsSuccess
    <3>2. QED
      BY <1>2, <2>0, <2>1, <2>2, <3>1 DEF Advances
  <2>3. CASE ProcessorThrows(s) \/ TelemetryThrows(s)
    <3>1. /\ \/ run' = [run EXCEPT ![s] = Failing(run[s])]
             \/ run' = [run EXCEPT ![s] = Failing(Succeeds(run[s]))]
          /\ run[s].pc = "processor"
      BY <2>3 DEF ProcessorThrows, TelemetryThrows
    <3>2. QED
      BY <1>2, <2>0, <2>1, <2>3, <3>1 DEF Advances
  <2>4. CASE DlqAdd(s) \/ DlqAddRejects(s) \/ Notified(s)
    <3> DEFINE said == run[s].said \union {"dlq"}
    <3>1. /\ DlqAdd(s) \/ DlqAddRejects(s) => run[s].pc = "dlqAdd"
          /\ Notified(s) => run[s].pc = "notify"
      BY DEF DlqAdd, DlqAddRejects, Notified
    <3>2. ASSUME NEW r, run' = [run EXCEPT ![s] = r], SameAttempt(run[s], r),
                 \/ DlqAdd(s) /\ r.pc = "notify"
                 \/ (DlqAddRejects(s) \/ Notified(s)) /\ r.pc = "rejected"
          PROVE  Goal
      BY <1>2, <3>1, <3>2 DEF Advances
    <3>3. \A pc \in {"notify", "rejected"} :
             /\ SameAttempt(run[s], [run[s] EXCEPT !.pc = pc])
             /\ [run[s] EXCEPT !.pc = pc].pc = pc
             /\ SameAttempt(run[s], [run[s] EXCEPT !.pc = pc, !.said = said])
             /\ [run[s] EXCEPT !.pc = pc, !.said = said].pc = pc
      BY <2>0 DEF SameAttempt, RunType
    <3>4. /\ DlqAdd(s) => run' = [run EXCEPT ![s] = [run[s] EXCEPT !.pc = "notify"]]
          /\ DlqAddRejects(s) => run' = [run EXCEPT ![s] = [run[s] EXCEPT !.pc = "rejected"]]
          /\ Notified(s) => run' = [run EXCEPT ![s] = [run[s] EXCEPT !.pc = "rejected",
                                                                     !.said = said]]
      BY <1>0 DEF DlqAdd, DlqAddRejects, Notified
    <3> HIDE DEF said, Goal
    <3>5. QED
      BY <2>4, <3>2, <3>3, <3>4
  <2>5. CASE Complete(s) \/ FailAttempt(s)
    BY <1>2, <2>5, BlankTypes DEF Complete, FailAttempt, Ends
  <2>6. QED
    BY <1>5, <2>2, <2>3, <2>4, <2>5 DEF Execution
<1>6. QED
  BY <1>1, <1>3, <1>4, <1>5, Frame

\* A job whose lock is held is the one the slot that holds it executes, while the
\* connection is there for its end to be applied.
Owned ==
    stage < 4 => \A i \in Ids : main[i].st = "active" /\ main[i].lock # None =>
        /\ run[main[i].lock].pc # "idle"
        /\ Handles(run[main[i].lock], i, main[i])

LEMMA NewJob ==
    ASSUME NEW st, NEW opt, NEW name, NEW pay, NEW wraps
    PROVE  LET job == Job(st, opt, name, pay, wraps)
           IN  job.st = st /\ job.opt = opt /\ job.name = name /\ job.pay = pay /\ job.stalls = 0
  BY DEF Job, NoJob

LEMMA NewStates ==
    ASSUME NEW i \in Ids, Submitted(i) \/ Replayed(i)
    PROVE  main'[i].st \in {"wait", "delayed"} /\ main'[i].stalls = 0
  BY NewJob, ConstantsAssumption DEF Submitted, Replayed

\* A process whose connection is closed has to die first.
LEMMA StaysClosed ==
    ASSUME IInv, [Next]_vars, stage' < 4
    PROVE  Crash \/ stage < 4
<1>0. stage \in 0..4
  BY DEF IInv, TypeOK, ProcessOK
<1>1. CASE UNCHANGED process \/ Restart \/ \E name \in Names : Process(name)
  BY <1>0, <1>1 DEF process, Restart, Process
<1>2. ASSUME NEW c \in Clients, Close(c) PROVE stage < 4
  BY <1>2 DEF Close, Starts, Online
<1>3. ASSUME NEW c \in Clients, NEW n \in 1..4, CloseStep(c, n) PROVE stage < 4
  BY <1>0, <1>3 DEF CloseStep
<1>4. QED
  BY <1>1, <1>2, <1>3, Frame

LEMMA OwnedStep ==
    ASSUME IInv, [Next]_vars, Owned
    PROVE  Owned'
<1>0. \A i \in Ids : main[i] \in JobType
  BY DEF IInv, TypeOK, QueuesOK
<1> SUFFICES ASSUME stage' < 4, NEW i \in Ids, main'[i].st = "active", main'[i].lock # None
             PROVE  run'[main'[i].lock].pc # "idle" /\ Handles(run'[main'[i].lock], i, main'[i])
  BY DEF Owned
<1>0a. ~Crash
  BY <1>0 DEF Crash, JobType
<1>0b. stage < 4
  BY <1>0a, StaysClosed
<1>1. MovesTo(i)
  BY NewStates, JobStep, BlankTypes DEF Departs
<1>2. CASE main'[i] = main[i]
  <2> DEFINE s == main[i].lock
  <2>1. s \in Slots /\ main[i].st = "active" /\ Applies(i, s)
    BY <1>0, <1>0b, <1>2 DEF JobType, Owns, Applies
  <2>2. run[s].pc # "idle" /\ Handles(run[s], i, main[i])
    BY <1>0b, <1>2 DEF Owned
  <2>3. ~Ends(s)
    <3>2. Complete(s) => main'[i] \in {NoJob, Ended(main[i], "completed", None)}
      <4>1. run[s].id = i /\ main \in [Ids -> JobType]
        BY <2>2 DEF Handles, IInv, TypeOK, QueuesOK
      <4> HIDE DEF s
      <4>2. QED
        BY <2>1, <4>1 DEF Complete, Finish
    <3>3. ~Complete(s)
      BY <1>0, <1>2, <2>1, <3>2, BlankTypes DEF Ended, JobType
    <3>4. FailAttempt(s) =>
            main'[i] \in {NoJob, Ended(main[i], "delayed", None), Ended(main[i], "failed", None)}
      <4> DEFINE job == main[i]
      <4>1. run[s].id = i /\ main \in [Ids -> JobType]
        BY <2>2 DEF Handles, IInv, TypeOK, QueuesOK
      <4>2. SUFFICES ASSUME FailAttempt(s)
                     PROVE  main'[i] \in {NoJob, Ended(main[i], "delayed", None), Ended(main[i], "failed", None)}
        OBVIOUS
      <4> HIDE DEF s
      <4>3. \/ main' = Backoff(main, i, None)
            \/ main' = Finish(main, i, "failed", job.opt.removeOnFail, None, NoJob)
        BY <2>1, <4>1, <4>2 DEF FailAttempt
      <4>4. CASE main' = Backoff(main, i, None)
        BY <4>1, <4>4 DEF Backoff, Ended
      <4>5. CASE main' = Finish(main, i, "failed", job.opt.removeOnFail, None, NoJob)
        BY <4>1, <4>5 DEF Finish
      <4>6. QED
        BY <4>3, <4>4, <4>5
    <3>5. ~FailAttempt(s)
      BY <1>0, <1>2, <2>1, <3>4, BlankTypes DEF Ended, JobType
    <3>6. QED
      BY <1>0a, <3>3, <3>5 DEF Ends
  <2>4. ~Begins(s)
    BY <2>2 DEF Begins
  <2>5. CASE run'[s] = run[s]
    BY <1>2, <2>2, <2>5
  <2>6. CASE Advances(s)
    BY <1>2, <2>2, <2>6 DEF Advances, SameAttempt, Handles
  <2>7. QED
    BY <2>1, <2>3, <2>4, <2>5, <2>6, RunMoves
<1>3. ASSUME NEW s \in Slots, Fetch(s, i), main'[i].lock = s, main'[i].made = main[i].made
      PROVE  run'[s].pc # "idle" /\ Handles(run'[s], i, main'[i])
  <2>1. PICK h \in Handed(main[i]) :
          run' = [run EXCEPT ![s] =
                   [pc |-> h.pc, id |-> i, name |-> main[i].name, pay |-> main[i].pay,
                    wraps |-> main[i].wraps, made |-> main[i].made,
                    max |-> main[i].opt.attempts, said |-> h.said]]
    BY <1>3 DEF Fetch
  <2>2. h.pc # "idle"
    BY DEF Handed
  <2>3. run'[s].pc # "idle" /\ Handles(run'[s], i, main[i])
    BY <2>1, <2>2 DEF Handles, IInv, TypeOK, InFlightOK
  <2>4. QED
    BY <1>1, <1>3, <2>3, Continued DEF Handles
<1>4. QED
  BY <1>1, <1>2, <1>3, Continued

(***************************************************************************)
(* At-least-once delivery.                                                 *)
(*                                                                         *)
(* BullMQ deletes a job of removeOnFail when its last attempt fails or it  *)
(* stalls once too often, and processJob hands a job to the DLQ only when  *)
(* attemptsMade, which counts ended attempts, has reached its attempts.    *)
(* So a removeOnFail job with a DLQ is lost unless it is handed over in    *)
(* its first attempt (attempts = 0), the hand-over cannot be missed, and   *)
(* no job stalls out.  The default options keep failed jobs.               *)
(***************************************************************************)
Offered == JobOpts \union {DefaultOpts}

\* No failing attempt misses the DLQ: the add does not fail, nothing throws before
\* the try block, and one name means that a fetched job has its processor.
HandsOver ==
    /\ DlqEnabled /\ ~DlqAddMayFail /\ "started" \notin TelemetryFaults
    /\ \A n, m \in Names : n = m

FailuresKept ==
    DlqEnabled => \A opt \in Offered :
        opt.removeOnFail => opt.attempts = 0 /\ HandsOver /\ MaxFaults <= StallLimit

Settled == won \union dropped

\* The ids of the DLQ grow, and a replayed entry takes its id to the main queue: a
\* payload that leaves id n for good is under a later id, waiting or replayed.
Newer(p, n) ==
    \E e \in DlqIds :
       /\ e > n
       /\ \/ dlq[e].st = "wait" /\ dlq[e].pay = p
          \/ ~IntegerIdsRejected /\ Present(main, e) /\ main[e].pay = p

\* The rank of a job among the copies of its payload: that of the entry it replays.
Rank(i) == IF i \in DlqIds /\ ~IntegerIdsRejected THEN i ELSE 0

JobsKnown ==
    \A i \in Ids : Present(main, i) =>
        /\ main[i].opt \in Offered /\ main[i].name \in Names
        /\ main[i].st = "completed" => main[i].pay \in won
        /\ IntegerIdsRejected => i \in Keys \/ i \in 1..autoNext
        /\ ~IntegerIdsRejected /\ i \in DlqIds => i \in 1..dlqNext
        /\ Stalls(main[i]) <= faults

RunsKnown ==
    \A s \in Slots : run[s].pc # "idle" =>
        /\ run[s].name \in Names
        /\ run[s].pc = "resolved" => run[s].pay \in won
        /\ Rank(run[s].id) <= dlqNext

EntriesKnown ==
    /\ \A d \in 1..dlqNext : dlq[d].name \in Names
    /\ worker # "none" => procs # {}
    /\ taken \subseteq 1..dlqNext /\ (IntegerIdsRejected => taken = {})

\* An execution that has added its entry, or that can only be there because it has.
PastAdd ==
    \A s \in Slots :
        run[s].pc = "notify" \/ (run[s].pc = "rejected" /\ run[s].max = 0 /\ HandsOver /\ stage < 4) =>
            run[s].pay \in Settled \/ Newer(run[s].pay, Rank(run[s].id))

\* An entry that was replayed is in the main queue, settled, or back in the DLQ.
TakenOver ==
    \A d \in taken :
        \/ Present(main, d) /\ main[d].pay = dlq[d].pay
        \/ dlq[d].pay \in Settled \/ Newer(dlq[d].pay, d)

AllHeld == \A p \in 1..payNext : p \in Settled \union Held

Known == Owned /\ JobsKnown /\ RunsKnown /\ EntriesKnown

DeliveryInv == IInv /\ TakenInv /\ Known /\ PastAdd /\ TakenOver /\ AllHeld

LEMMA JobsKnownStep ==
    ASSUME IInv, NoForeignIds, [Next]_vars, Known
    PROVE  JobsKnown'
<1>0. /\ autoNext \in Nat /\ autoNext' \in Nat /\ autoNext <= autoNext'
      /\ dlqNext \in Nat /\ dlqNext' \in Nat /\ dlqNext <= dlqNext'
      /\ won \subseteq won' /\ faults' \in Nat
      /\ \A i \in Ids : main[i] \in JobType
  <2>1. QueuesOK /\ QueuesOK' /\ HistoryOK' /\ dlqNext <= dlqNext'
    BY IInvStep, QueuesStep DEF IInv, TypeOK
  <2>2. autoNext <= autoNext'
    BY <2>1, Frame, Bounds DEF QueuesOK, Submit, AddJob, PauseResume
  <2>3. won \subseteq won'
    BY Frame DEF ProcessorReturns, TelemetryThrows, CountsSuccess
  <2>4. QED
    BY <2>1, <2>2, <2>3, Bounds DEF QueuesOK, HistoryOK
<1> SUFFICES ASSUME NEW i \in Ids, Present(main', i)
             PROVE  /\ main'[i].opt \in Offered /\ main'[i].name \in Names
                    /\ main'[i].st = "completed" => main'[i].pay \in won'
                    /\ IntegerIdsRejected => i \in Keys \/ i \in 1..autoNext'
                    /\ ~IntegerIdsRejected /\ i \in DlqIds => i \in 1..dlqNext'
                    /\ Stalls(main'[i]) <= faults'
  BY DEF JobsKnown, Present
<1>1. CASE Submitted(i)
  <2>1. PICK name \in Names, opt \in JobOpts, key \in Keys \union {None}, st \in AddTo :
          /\ AddJob(name, opt, key, st)
          /\ i = (IF key = None THEN autoNext + 1 ELSE key)
          /\ main'[i] = Job(st, opt, name, payNext + 1, 0)
    BY <1>1 DEF Submitted
  <2>2. i \in Keys \/ (i = autoNext + 1 /\ autoNext' = autoNext + 1 /\ i \in AutoIds)
    BY <2>1 DEF AddJob
  <2>3. /\ IntegerIdsRejected => i \in Keys \/ i \in 1..autoNext'
        /\ ~IntegerIdsRejected => i \notin DlqIds
    BY <1>0, <2>2, Bounds DEF NoForeignIds, AutoIds
  <2>4. main'[i].opt = opt /\ main'[i].name = name
    BY <2>1, NewJob
  <2>5. main'[i].st \in {"wait", "delayed"} /\ Stalls(main'[i]) <= faults'
    BY <1>0, <1>1, NewStates DEF Stalls
  <2>6. QED
    BY <2>3, <2>4, <2>5 DEF Offered
<1>2. CASE Replayed(i)
  <2>1. PICK c \in Clients : ReplayAdd(c, i)
    BY <1>2 DEF Replayed
  <2>2. i \in 1..dlqNext /\ ~IntegerIdsRejected
    BY <2>1 DEF ReplayAdd, IInv, Tracked
  <2>3. main'[i].opt = DefaultOpts /\ main'[i].name = dlq[i].name
    BY <1>2, NewJob DEF Replayed
  <2>4. main'[i].st \in {"wait", "delayed"} /\ Stalls(main'[i]) <= faults'
    BY <1>0, <1>2, NewStates DEF Stalls
  <2>5. i \in 1..dlqNext'
    BY <1>0, <2>2
  <2>6. QED
    BY <2>2, <2>3, <2>4, <2>5 DEF Offered, Known, EntriesKnown
<1>3. CASE MovesTo(i)
  <2>1. Present(main, i)
    BY <1>3, Continued
  <2>2. /\ main[i].opt \in Offered /\ main[i].name \in Names
        /\ main[i].st = "completed" => main[i].pay \in won
        /\ IntegerIdsRejected => i \in Keys \/ i \in 1..autoNext
        /\ ~IntegerIdsRejected /\ i \in DlqIds => i \in 1..dlqNext
        /\ Stalls(main[i]) <= faults
    BY <2>1 DEF Known, JobsKnown
  <2>3. ASSUME NEW s \in Slots, Complete(s), Settles(s, i) PROVE main[i].pay \in won
    <3>1. run[s].pc = "resolved"
      BY <2>3 DEF Complete
    <3>2. main[i].st = "active" /\ main[i].lock = s
      BY <2>3 DEF Settles, Applies, Owns
    <3>3. s # None
      BY ConstantsAssumption
    <3>4. run[s].pay = main[i].pay
      BY <2>3, <3>2, <3>3 DEF Known, Owned, Handles, Settles, Applies
    <3>5. QED
      BY <3>1, <3>4 DEF Known, RunsKnown
  <2>4. /\ main'[i].opt \in Offered /\ main'[i].name \in Names
        /\ main'[i].st = "completed" => main'[i].pay \in won'
        /\ Stalls(main'[i]) <= faults'
    BY <1>0, <1>3, <2>2, <2>3, Continued
  <2>5. QED
    BY <1>0, <2>2, <2>4
<1>4. QED
  BY <1>1, <1>2, <1>3, JobStep, BlankTypes DEF Departs, Present

LEMMA RunsKnownStep ==
    ASSUME IInv, [Next]_vars, Known
    PROVE  RunsKnown'
<1>0. /\ dlqNext \in Nat /\ dlqNext' \in Nat /\ dlqNext <= dlqNext' /\ won \subseteq won'
      /\ \A n \in {0} \union DlqIds : n \in Nat
  <2>1. QueuesOK /\ QueuesOK' /\ dlqNext <= dlqNext'
    BY IInvStep, QueuesStep DEF IInv, TypeOK
  <2>2. won \subseteq won'
    BY Frame DEF ProcessorReturns, TelemetryThrows, CountsSuccess
  <2>3. QED
    BY <2>1, <2>2, Bounds DEF QueuesOK
<1>1. \A i \in Ids : Rank(i) \in Nat
  BY <1>0 DEF Rank
<1> SUFFICES ASSUME NEW s \in Slots, run'[s].pc # "idle"
             PROVE  /\ run'[s].name \in Names
                    /\ run'[s].pc = "resolved" => run'[s].pay \in won'
                    /\ Rank(run'[s].id) <= dlqNext'
  BY DEF RunsKnown, Rank
<1>2. run[s].pc # "idle" => /\ run[s].name \in Names /\ run[s].id \in Ids
                            /\ run[s].pc = "resolved" => run[s].pay \in won
                            /\ Rank(run[s].id) <= dlqNext
  BY DEF Known, RunsKnown, IInv, Tracked
<1>3. CASE run'[s] = run[s]
  BY <1>0, <1>1, <1>2, <1>3
<1>4. CASE Begins(s)
  <2>1. PICK i \in Ids : /\ main[i].st = "wait" /\ Handles(run'[s], i, main[i])
                         /\ run'[s].pc # "resolved"
    BY <1>4 DEF Begins
  <2>2. main[i].name \in Names /\ Rank(i) <= dlqNext
    BY <1>0, <2>1 DEF Known, JobsKnown, Present, Rank
  <2>3. QED
    BY <1>0, <1>1, <2>1, <2>2 DEF Handles
<1>5. CASE Advances(s)
  <2>1. run[s].pc # "idle" /\ SameAttempt(run[s], run'[s])
    BY <1>5 DEF Advances
  <2>2. run'[s].pc = "resolved" => run[s].pay \in won'
    BY <1>5 DEF Advances
  <2>3. QED
    BY <1>0, <1>1, <1>2, <2>1, <2>2 DEF SameAttempt
<1>6. QED
  BY <1>3, <1>4, <1>5, RunMoves DEF Ends

LEMMA EntriesKnownStep ==
    ASSUME IInv, [Next]_vars, Known
    PROVE  EntriesKnown'
<1>0. /\ dlqNext \in Nat /\ dlqNext' \in Nat /\ dlqNext <= dlqNext'
      /\ dlq \in [DlqIds -> EntryType] /\ 1..dlqNext \subseteq DlqIds
  BY IInvStep, QueuesStep, Bounds DEF IInv, TypeOK, QueuesOK, DlqIds
<1>1. \A d \in 1..dlqNext' : dlq'[d].name \in Names
  <2>1. CASE UNCHANGED <<dlq, dlqNext>>
    BY <2>1 DEF Known, EntriesKnown
  <2>2. ASSUME NEW s \in Slots, DlqAdd(s), NEW d \in 1..dlqNext'
        PROVE  dlq'[d].name \in Names
    <3>1. /\ run[s].name \in Names /\ dlqNext' = dlqNext + 1
          /\ dlqNext + 1 \in DlqIds /\ dlq'[dlqNext + 1].name = run[s].name
          /\ \A e \in DlqIds : e # dlqNext + 1 => dlq'[e] = dlq[e]
      BY <1>0, <2>2 DEF DlqAdd, Known, RunsKnown
    <3>2. d = dlqNext + 1 \/ (d \in 1..dlqNext /\ d # dlqNext + 1)
      BY <1>0, <3>1
    <3>3. QED
      BY <1>0, <3>1, <3>2 DEF Known, EntriesKnown
  <2>3. ASSUME NEW c \in Clients, ReplayRemove(c), NEW d \in 1..dlqNext'
        PROVE  dlq'[d].name \in Names
    <3>1. dlqNext' = dlqNext /\ dlq' = [dlq EXCEPT ![call[c].cur].st = "none"]
      BY <2>3 DEF ReplayRemove
    <3>2. dlq'[d].name = dlq[d].name
      BY <1>0, <2>3, <3>1 DEF EntryType
    <3>3. QED
      BY <2>3, <3>1, <3>2 DEF Known, EntriesKnown
  <2>4. QED
    BY <2>1, <2>2, <2>3, Frame
<1>2. worker' # "none" => procs' # {}
  BY Frame DEF Known, EntriesKnown, process, Process, Crash, Restart, Close, CloseStep
<1>3. taken' \subseteq 1..dlqNext' /\ (IntegerIdsRejected => taken' = {})
  <2>1. 1..dlqNext \subseteq 1..dlqNext'
    BY <1>0
  <2>2. ASSUME NEW c \in Clients, NEW d \in DlqIds, ReplayAdd(c, d)
        PROVE  taken' \subseteq 1..dlqNext /\ ~IntegerIdsRejected
    BY <2>2 DEF ReplayAdd, Known, EntriesKnown, IInv, Tracked
  <2>3. QED
    BY <2>1, <2>2, Frame DEF Known, EntriesKnown
<1>4. QED
  BY <1>1, <1>2, <1>3 DEF EntriesKnown

LEMMA KnownStep ==
    ASSUME IInv, NoForeignIds, [Next]_vars, Known
    PROVE  Known'
<1>1. Owned
  BY DEF Known
<1>2. QED
  BY <1>1, OwnedStep, JobsKnownStep, RunsKnownStep, EntriesKnownStep DEF Known

LEMMA SettledGrows ==
    ASSUME [Next]_vars
    PROVE  won \subseteq won' /\ dropped \subseteq dropped'
  BY Frame DEF ProcessorReturns, TelemetryThrows, CountsSuccess, Drain, FailAttempt, Stalled,
     Remove

\* An id that stays in use keeps its payload: a new job never overwrites one.
LEMMA Stays ==
    ASSUME IInv, NoForeignIds, [Next]_vars, Known,
           NEW i \in Ids, Present(main, i), Present(main', i)
    PROVE  main'[i].pay = main[i].pay
<1>1. ~Submitted(i)
  <2>1. SUFFICES ASSUME Submitted(i) PROVE FALSE
    OBVIOUS
  <2>2. i = autoNext + 1 /\ i \in AutoIds /\ autoNext \in Nat
    <3>1. PICK name \in Names, opt \in JobOpts, key \in Keys \union {None}, st \in AddTo :
            /\ AddJob(name, opt, key, st)
            /\ i = (IF key = None THEN autoNext + 1 ELSE key)
            /\ key # None => ~Present(main, i)
      BY <2>1 DEF Submitted
    <3>2. key = None /\ i = autoNext + 1
      BY <3>1
    <3>3. i \in AutoIds
      BY <3>1, <3>2 DEF AddJob
    <3>4. QED
      BY <3>2, <3>3, Bounds DEF IInv, TypeOK, QueuesOK
  <2>3. IntegerIdsRejected
    BY <2>2, Bounds DEF NoForeignIds, AutoIds
  <2>4. i \in Keys \/ i \in 1..autoNext
    BY <2>3 DEF Known, JobsKnown
  <2>5. QED
    BY <2>2, <2>4, Bounds
<1>2. QED
  BY <1>1, JobStep, Continued, BlankTypes DEF Replayed, Departs, Present

\* A job that leaves the main queue is settled, or its payload is under a later id.
LEMMA Departure ==
    ASSUME FailuresKept, IInv, Known, PastAdd, [Next]_vars,
           NEW i \in Ids, Present(main, i), ~Present(main', i)
    PROVE  \/ main[i].pay \in won' \union dropped'
           \/ Alone(i) /\ Newer(main[i].pay, Rank(i))
<1> DEFINE Goal == \/ main[i].pay \in won' \union dropped'
                   \/ Alone(i) /\ Newer(main[i].pay, Rank(i))
<1>0. /\ main[i] \in JobType /\ main[i].opt \in Offered /\ Stalls(main[i]) <= faults
      /\ faults \in Nat /\ faults <= MaxFaults
      /\ main[i].st = "completed" => main[i].pay \in won
  BY Bounds DEF IInv, TypeOK, QueuesOK, HistoryOK, Known, JobsKnown
<1>1. ASSUME NEW s \in Slots, Settles(s, i)
      PROVE  Handles(run[s], i, main[i])
  <2>1. main[i].st = "active" /\ main[i].lock = s /\ s # None
    BY <1>1, ConstantsAssumption DEF Settles, Applies, Owns
  <2>2. QED
    BY <1>1, <2>1 DEF Known, Owned, Settles, Applies
<1>2. ASSUME ~DlqEnabled, main[i].opt.removeOnFail, GivenUp(main[i]) \subseteq dropped'
      PROVE  Goal
  BY <1>2 DEF GivenUp
<1>3. ASSUME DlqEnabled, main[i].opt.removeOnFail
      PROVE  main[i].opt.attempts = 0 /\ HandsOver /\ MaxFaults <= StallLimit
  BY <1>0, <1>3 DEF FailuresKept
<1>4. ASSUME NEW s \in Slots, Complete(s), Settles(s, i) PROVE Goal
  <2>1. run[s].pc = "resolved"
    BY <1>4 DEF Complete
  <2>2. run[s].pay \in won
    BY <2>1 DEF Known, RunsKnown
  <2>3. QED
    BY <1>1, <1>4, <2>2, SettledGrows DEF Handles
<1>5. ASSUME NEW s \in Slots, FailAttempt(s), Settles(s, i), Alone(i),
             main[i].opt.removeOnFail, GivenUp(main[i]) \subseteq dropped'
      PROVE  Goal
  <2>1. CASE ~DlqEnabled
    BY <1>2, <1>5, <2>1
  <2>2. CASE DlqEnabled
    <3>1. run[s].pc = "rejected" /\ run[s].max = 0 /\ HandsOver
      BY <1>1, <1>3, <1>5, <2>2 DEF FailAttempt, Handles
    <3>2. main[i].pay \in Settled \/ Newer(main[i].pay, Rank(i))
      BY <1>1, <1>5, <3>1 DEF PastAdd, Handles, Settles, Applies
    <3>3. QED
      BY <1>5, <3>2, SettledGrows DEF Settled
  <2>3. QED
    BY <2>1, <2>2
<1>6. ASSUME Stalled(i), main[i].opt.removeOnFail, main[i].stalls + 1 > StallLimit,
             GivenUp(main[i]) \subseteq dropped'
      PROVE  Goal
  <2>1. Stalls(main[i]) = main[i].stalls + 1 /\ main[i].stalls \in Nat
    BY <1>0, <1>6 DEF Stalled, Stalls, JobType
  <2>2. ~DlqEnabled
    BY <1>0, <1>3, <1>6, <2>1, ConstantsAssumption
  <2>3. QED
    BY <1>2, <1>6, <2>2
<1>7. Departs(i)
  <2>1. ~Submitted(i) /\ ~Replayed(i)
    BY NewStates DEF Present
  <2>2. QED
    BY <2>1, JobStep, Continued
<1>8. QED
  BY <1>0, <1>4, <1>5, <1>6, <1>7, SettledGrows DEF Departs

NewerNext(p, n) ==
    \E e \in DlqIds :
       /\ e > n
       /\ \/ dlq'[e].st = "wait" /\ dlq'[e].pay = p
          \/ ~IntegerIdsRejected /\ Present(main', e) /\ main'[e].pay = p

\* No step loses the later copy of a payload, unless it settles the payload.
LEMMA NewerStep ==
    ASSUME FailuresKept, NoForeignIds, DeliveryInv, [Next]_vars,
           NEW p, NEW n \in Nat, Newer(p, n)
    PROVE  p \in won' \union dropped' \/ NewerNext(p, n)
<1> USE DEF DeliveryInv
<1> DEFINE Goal == p \in won' \union dropped' \/ NewerNext(p, n)
<1>0. /\ dlq \in [DlqIds -> EntryType] /\ dlqNext \in Nat /\ DlqIds \subseteq Nat
      /\ DlqIds \subseteq Ids
  BY Bounds DEF IInv, TypeOK, QueuesOK
<1>1. PICK e \in DlqIds :
        /\ e > n
        /\ \/ dlq[e].st = "wait" /\ dlq[e].pay = p
           \/ ~IntegerIdsRejected /\ Present(main, e) /\ main[e].pay = p
  BY DEF Newer
<1>2. ASSUME Newer(p, e), \A x \in DlqIds : x # e => dlq'[x] = dlq[x] /\ main'[x] = main[x]
      PROVE  Goal
  BY <1>0, <1>1, <1>2 DEF Newer, NewerNext, Present
<1>3. CASE ~IntegerIdsRejected /\ Present(main, e) /\ main[e].pay = p
  <2>1. CASE Present(main', e)
    BY <1>0, <1>1, <1>3, <2>1, Stays DEF NewerNext
  <2>2. CASE ~Present(main', e)
    <3>1. Rank(e) = e
      BY <1>3 DEF Rank
    <3>2. p \in won' \union dropped' \/ (Alone(e) /\ Newer(p, e))
      BY <1>0, <1>3, <2>2, <3>1, Departure
    <3>3. QED
      BY <1>0, <1>2, <3>2 DEF Alone
  <2>3. QED
    BY <2>1, <2>2
<1>4. CASE dlq[e].st = "wait" /\ dlq[e].pay = p
  <2>1. CASE dlq'[e] = dlq[e]
    BY <1>1, <1>4, <2>1 DEF NewerNext
  <2>2. CASE dlq'[e] # dlq[e]
    <3>1. \A s \in Slots : ~DlqAdd(s)
      <4>1. e # dlqNext + 1
        BY <1>0, <1>4 DEF IInv, Tracked
      <4>2. QED
        BY <1>0, <2>2, <4>1 DEF DlqAdd
    <3>2. PICK c \in Clients : ReplayRemove(c)
      BY <2>2, <3>1, Frame
    <3>3. /\ e = call[c].cur /\ main' = main
          /\ \A x \in DlqIds : x # e => dlq'[x] = dlq[x]
      BY <1>0, <2>2, <3>2 DEF ReplayRemove
    <3>4. e \in taken /\ ~IntegerIdsRejected
      BY <3>2, <3>3 DEF ReplayRemove, TakenInv, Known, EntriesKnown
    <3>5. (Present(main, e) /\ main[e].pay = p) \/ p \in Settled \/ Newer(p, e)
      BY <1>4, <3>4 DEF TakenOver
    <3>6. QED
      BY <1>1, <1>2, <3>3, <3>4, <3>5, SettledGrows DEF Settled, NewerNext
  <2>3. QED
    BY <2>1, <2>2
<1>5. QED
  BY <1>1, <1>3, <1>4

LEMMA PastAddStep ==
    ASSUME FailuresKept, NoForeignIds, DeliveryInv, [Next]_vars
    PROVE  PastAdd'
<1> USE DEF DeliveryInv
<1>0. /\ \A i \in Ids : Rank(i) \in Nat
      /\ won' \union dropped' = Settled' /\ \A p \in Settled : p \in won' \union dropped'
  BY SettledGrows, Bounds DEF Rank, Settled
<1>1. ASSUME NEW s \in Slots, run[s].pc # "idle",
             run[s].pay \in Settled \/ Newer(run[s].pay, Rank(run[s].id)),
             SameAttempt(run[s], run'[s])
      PROVE  \/ run'[s].pay \in won' \union dropped'
             \/ NewerNext(run'[s].pay, Rank(run'[s].id))
  <2>1. run[s].id \in Ids
    BY <1>1 DEF IInv, Tracked
  <2>2. QED
    BY <1>0, <1>1, <2>1, NewerStep DEF SameAttempt
<1> SUFFICES ASSUME NEW s \in Slots,
                    \/ run'[s].pc = "notify"
                    \/ /\ run'[s].pc = "rejected" /\ run'[s].max = 0 /\ HandsOver
                       /\ stage' < 4
             PROVE  \/ run'[s].pay \in won' \union dropped'
                    \/ NewerNext(run'[s].pay, Rank(run'[s].id))
  BY <1>0 DEF PastAdd, Newer, NewerNext, Present, HandsOver, Rank
<1>1a. run'[s].pc # "idle" => ~Crash
  BY DEF Crash, IdleRun
<1>2. CASE run'[s] = run[s]
  BY <1>1, <1>1a, <1>2, StaysClosed DEF PastAdd, SameAttempt
<1>3. CASE Begins(s)
  <2>1. PICK i \in Ids : /\ Fetch(s, i) /\ main[i].st = "wait"
                         /\ \/ run'[s].pc = "processor"
                            \/ /\ run'[s].pc = "rejected"
                               /\ main[i].name \notin procs \/ "started" \in TelemetryFaults
    BY <1>3 DEF Begins
  <2>2. main[i].name \in Names /\ procs # {} /\ procs \subseteq Names
    BY <2>1 DEF Fetch, Working, Known, JobsKnown, EntriesKnown, Present, IInv, TypeOK, ProcessOK
  <2>3. QED
    BY <2>1, <2>2 DEF HandsOver
<1>4. CASE Advances(s)
  <2>1. CASE DlqAdd(s)
    <3> DEFINE d == dlqNext + 1
    <3>1. run[s].id \in Ids /\ Rank(run[s].id) <= dlqNext /\ dlqNext \in Nat
      BY <2>1 DEF DlqAdd, Known, RunsKnown, IInv, Tracked, TypeOK, QueuesOK
    <3>2. d \in DlqIds /\ d > Rank(run[s].id) /\ dlq'[d].st = "wait" /\ dlq'[d].pay = run[s].pay
      BY <1>0, <2>1, <3>1 DEF DlqAdd, IInv, TypeOK, QueuesOK
    <3> HIDE DEF d
    <3>3. NewerNext(run[s].pay, Rank(run[s].id))
      BY <3>2 DEF NewerNext
    <3>4. QED
      BY <1>4, <3>3 DEF Advances, SameAttempt
  <2>2. CASE Notified(s)
    <3>1. run[s].pc = "notify" /\ SameAttempt(run[s], run'[s])
      BY <1>4, <2>2 DEF Advances, Notified
    <3>2. QED
      BY <1>1, <3>1 DEF PastAdd
  <2>3. CASE DlqAddRejects(s)
    BY <1>4, <2>3 DEF Advances, DlqAddRejects, HandsOver, process
  <2>4. CASE ProcessorReturns(s) \/ ProcessorThrows(s) \/ TelemetryThrows(s)
    <3>1. run[s].made \in Nat /\ run[s].pc = "processor"
      BY <2>4 DEF ProcessorReturns, ProcessorThrows, TelemetryThrows, IInv, TypeOK, InFlightOK,
         RunType
    <3>2. QED
      BY <1>4, <3>1 DEF Advances, SameAttempt, HandsOver
  <2>5. QED
    BY <1>4, <2>1, <2>2, <2>3, <2>4 DEF Advances
<1>5. QED
  BY <1>2, <1>3, <1>4, RunMoves DEF Ends

LEMMA TakenOverStep ==
    ASSUME FailuresKept, NoForeignIds, DeliveryInv, [Next]_vars
    PROVE  TakenOver'
<1> USE DEF DeliveryInv
<1>0. /\ won' \union dropped' = Settled' /\ \A p \in Settled : p \in won' \union dropped'
      /\ taken \subseteq 1..dlqNext /\ (IntegerIdsRejected => taken = {})
      /\ DlqIds \subseteq Nat /\ DlqIds \subseteq Ids /\ taken \subseteq DlqIds
      /\ \A d \in 1..dlqNext : dlq'[d].pay = dlq[d].pay
  BY SettledGrows, QueuesStep, Bounds DEF Settled, Known, EntriesKnown, IInv, TypeOK, HistoryOK
<1> SUFFICES ASSUME NEW d \in taken'
             PROVE  \/ Present(main', d) /\ main'[d].pay = dlq'[d].pay
                    \/ dlq'[d].pay \in won' \union dropped' \/ NewerNext(dlq'[d].pay, d)
  BY <1>0 DEF TakenOver, Newer, NewerNext, Present
<1>1. CASE d \in taken
  <2> DEFINE p == dlq[d].pay
  <2>1. dlq'[d].pay = p /\ d \in Ids /\ d \in Nat /\ Rank(d) = d
    BY <1>0, <1>1 DEF Rank
  <2>2. CASE p \in Settled \/ Newer(p, d)
    BY <1>0, <2>1, <2>2, NewerStep
  <2>3. CASE Present(main, d) /\ main[d].pay = p
    <3>1. CASE Present(main', d)
      BY <2>1, <2>3, <3>1, Stays
    <3>2. CASE ~Present(main', d)
      <4>1. p \in won' \union dropped' \/ Newer(p, d)
        BY <2>1, <2>3, <3>2, Departure
      <4>2. QED
        BY <2>1, <4>1, NewerStep
    <3>3. QED
      BY <3>1, <3>2
  <2>4. QED
    BY <1>1, <2>2, <2>3 DEF TakenOver
<1>2. CASE d \notin taken
  <2>1. PICK c \in Clients, x \in DlqIds : ReplayAdd(c, x)
    BY <1>2, Frame
  <2>2. d = x /\ ~Present(main, d) /\ dlq' = dlq /\ d \in Ids
    BY <1>0, <1>2, <2>1 DEF ReplayAdd
  <2>3. main'[d] = Job("wait", DefaultOpts, dlq[d].name, dlq[d].pay, dlq[d].wraps)
    BY <2>1, <2>2 DEF ReplayAdd, Readded, AddWithId, IInv, TypeOK, QueuesOK
  <2>4. QED
    BY <2>2, <2>3, NewJob DEF Present
<1>3. QED
  BY <1>1, <1>2

HeldNext(p) == \/ \E i \in Ids : Present(main', i) /\ main'[i].pay = p
               \/ \E d \in DlqIds : dlq'[d].st = "wait" /\ dlq'[d].pay = p

LEMMA HeldMeans ==
    ASSUME IInv
    PROVE  \A p : p \in Held <=> \/ \E i \in Ids : Present(main, i) /\ main[i].pay = p
                                 \/ \E d \in DlqIds : dlq[d].st = "wait" /\ dlq[d].pay = p
<1>1. DOMAIN dlq = DlqIds
  BY DEF IInv, TypeOK, QueuesOK
<1>2. QED
  BY <1>1 DEF Held, InState

LEMMA HeldNextMeans ==
    ASSUME IInv'
    PROVE  \A p : p \in Held' <=> HeldNext(p)
<1>1. DOMAIN dlq' = DlqIds
  BY DEF IInv, TypeOK, QueuesOK
<1>2. QED
  BY <1>1 DEF Held, InState, HeldNext, Present

LEMMA AllHeldStep ==
    ASSUME FailuresKept, NoForeignIds, DeliveryInv, [Next]_vars
    PROVE  AllHeld'
<1> USE DEF DeliveryInv
<1>0. /\ won' \union dropped' = Settled' /\ \A p \in Settled : p \in won' \union dropped'
      /\ \A p, n : NewerNext(p, n) => HeldNext(p)
      /\ \A i \in Ids : Rank(i) \in Nat
      /\ payNext \in Nat
      /\ \A d \in DlqIds : d > 0
  BY SettledGrows, Bounds DEF Settled, NewerNext, HeldNext, Rank, IInv, TypeOK, QueuesOK, DlqIds
<1>1. SUFFICES ASSUME NEW p \in 1..payNext'
               PROVE  p \in won' \union dropped' \/ HeldNext(p)
  BY <1>0, HeldNextMeans, IInvStep DEF AllHeld
<1>2. CASE p \in 1..payNext
  <2>1. CASE p \in Settled
    BY <1>0, <2>1
  <2>2. ASSUME NEW i \in Ids, Present(main, i), main[i].pay = p
        PROVE  p \in won' \union dropped' \/ HeldNext(p)
    <3>1. CASE Present(main', i)
      BY <2>2, <3>1, Stays DEF HeldNext
    <3>2. CASE ~Present(main', i)
      <4>1. p \in won' \union dropped' \/ Newer(p, Rank(i))
        BY <2>2, <3>2, Departure
      <4>2. QED
        BY <1>0, <4>1, NewerStep
    <3>3. QED
      BY <3>1, <3>2
  <2>3. ASSUME NEW d \in DlqIds, dlq[d].st = "wait", dlq[d].pay = p
        PROVE  p \in won' \union dropped' \/ HeldNext(p)
    <3>1. Newer(p, 0)
      BY <1>0, <2>3 DEF Newer
    <3>2. QED
      BY <1>0, <3>1, NewerStep
  <2>4. QED
    BY <1>2, <2>1, <2>2, <2>3, HeldMeans DEF AllHeld
<1>3. CASE p \notin 1..payNext
  <2>1. PICK name \in Names, opt \in JobOpts, key \in Keys \union {None}, st \in AddTo :
          AddJob(name, opt, key, st)
    BY <1>3, Frame DEF Submit, PauseResume
  <2> DEFINE i == IF key = None THEN autoNext + 1 ELSE key
             job == Job(st, opt, name, payNext + 1, 0)
  <2>2. i \in Ids /\ job.pay = payNext + 1 /\ job.st # "none"
    BY <2>1, Bounds, NewJob, ConstantsAssumption DEF AddJob
  <2>3. payNext' = payNext + 1 /\ main' = [main EXCEPT ![i] = job]
    BY <1>3, <2>1 DEF AddJob
  <2> HIDE DEF i, job
  <2>4. p = payNext + 1 /\ main'[i] = job
    BY <1>0, <1>3, <2>2, <2>3 DEF IInv, TypeOK, QueuesOK
  <2>5. QED
    BY <2>2, <2>4 DEF HeldNext, Present
<1>4. QED
  BY <1>2, <1>3

LEMMA DeliveryInvInit == Init => DeliveryInv
<1> SUFFICES ASSUME Init PROVE DeliveryInv
  OBVIOUS
<1>1. \A i \in Ids : ~Present(main, i) /\ main[i].st = "none"
  BY BlankTypes DEF Init, Present
<1>2. \A s \in Slots : run[s].pc = "idle"
  BY BlankTypes DEF Init
<1>3. TakenInv
  BY <1>1, Bounds, BlankTypes DEF Init, TakenInv, EntryKeptUntilTaken, Present, IdleCall
<1>4. Known
  BY <1>1, <1>2 DEF Init, Known, Owned, JobsKnown, RunsKnown, EntriesKnown
<1>5. PastAdd /\ TakenOver /\ AllHeld
  BY <1>2 DEF Init, PastAdd, TakenOver, AllHeld
<1>6. QED
  BY <1>3, <1>4, <1>5, IInvInit DEF DeliveryInv

LEMMA DeliveryInvStep ==
    ASSUME FailuresKept, NoForeignIds, DeliveryInv, [Next]_vars
    PROVE  DeliveryInv'
  BY IInvStep, TakenStep, KnownStep, PastAddStep, TakenOverStep, AllHeldStep DEF DeliveryInv

\* The three ways in which the queues step as AtLeastOnce does.
LEMMA ReturnsOrStutters ==
    ASSUME IInv, AllHeld, NEW p \in 1..payNext,
           payNext' = payNext, won' = won, dropped' = dropped, Held' = Held \union {p}
    PROVE  [Promise!Next]_(Promise!vars)
<1>0. Settled' = Settled /\ p \in Payloads
  BY Bounds DEF Settled, Payloads, IInv, TypeOK, QueuesOK
<1>1. CASE p \in Settled
  BY <1>0, <1>1 DEF Promise!Next, Promise!Return, Settled
<1>2. CASE p \notin Settled
  <2>1. Held' = Held
    BY <1>2 DEF AllHeld
  <2>2. QED
    BY <2>1 DEF Promise!vars
<1>3. QED
  BY <1>1, <1>2

LEMMA GivesUp ==
    ASSUME IInv, AllHeld', payNext' = payNext, Held' \subseteq Held, Held \subseteq 1..payNext,
           Settled \subseteq Settled', Settled' \ Settled \subseteq Held
    PROVE  [Promise!Next]_(Promise!vars)
<1> DEFINE T == Held \ Held'
           S == (Settled' \ Settled) \union T
<1>0. 1..payNext \subseteq Payloads
  BY Bounds DEF Payloads, IInv, TypeOK, QueuesOK
<1>1. S \subseteq Held /\ S \in SUBSET Payloads
  BY <1>0
<1>2. T \subseteq Settled'
  BY DEF AllHeld
<1>3. Settled' = Settled \union S /\ T \in SUBSET S /\ Held' = Held \ T
  BY <1>2
<1> HIDE DEF S, T
<1>4. Promise!GiveUp(S)
  BY <1>1, <1>3 DEF Promise!GiveUp, Settled
<1>5. QED
  BY <1>1, <1>4 DEF Promise!Next

LEMMA PromiseStep ==
    ASSUME FailuresKept, NoForeignIds, DeliveryInv, [Next]_vars
    PROVE  [Promise!Next]_(Promise!vars)
<1> DEFINE Goal == [Promise!Next]_(Promise!vars)
<1> USE DEF DeliveryInv
<1>0. /\ AllHeld' /\ Settled \subseteq Settled' /\ Held \subseteq 1..payNext
      /\ payNext \in Nat /\ 1..payNext \subseteq Payloads
      /\ main \in [Ids -> JobType] /\ dlq \in [DlqIds -> EntryType]
  <2>1. AllHeld' /\ Settled \subseteq Settled'
    BY DeliveryInvStep, SettledGrows DEF Settled
  <2>2. Held \subseteq 1..payNext
    BY HeldMeans DEF IInv, Tracked, Accepted
  <2>3. QED
    BY <2>1, <2>2, Bounds DEF IInv, TypeOK, QueuesOK, Payloads
<1>1. /\ \A p : p \in Held' <=> HeldNext(p)
      /\ \A i \in Ids : Present(main, i) => main[i].pay \in Held
      /\ \A d \in DlqIds : dlq[d].st = "wait" => dlq[d].pay \in Held
  BY HeldMeans, HeldNextMeans, IInvStep
<1>2. ASSUME NEW name \in Names, NEW opt \in JobOpts, NEW key \in Keys \union {None},
             NEW st \in AddTo, AddJob(name, opt, key, st)
      PROVE  Goal
  <2> DEFINE i == IF key = None THEN autoNext + 1 ELSE key
             job == Job(st, opt, name, payNext + 1, 0)
             p == payNext + 1
  <2>1. /\ i \in Ids /\ job.pay = p /\ job.st # "none" /\ p \in Payloads
        /\ dlq' = dlq /\ won' = won /\ dropped' = dropped
    BY <1>2, Bounds, NewJob, ConstantsAssumption DEF AddJob, history
  <2>2. CASE UNCHANGED <<main, payNext>>
    <3>1. Held' = Held
      BY <2>1, <2>2 DEF Held, InState, Present
    <3>2. QED
      BY <2>1, <2>2, <3>1 DEF Promise!vars
  <2>3. CASE /\ payNext' = p /\ main' = [main EXCEPT ![i] = job]
             /\ key # None => ~Present(main, i)
    <3>1. main'[i] = job /\ \A j \in Ids : j # i => main'[j] = main[j]
      BY <1>0, <2>1, <2>3
    <3>2. ~Present(main, i)
      <4>1. CASE key = None
        <5>1. i = autoNext + 1 /\ i \in AutoIds
          BY <1>2, <4>1 DEF AddJob
        <5>2. IntegerIdsRejected /\ i \notin Keys /\ i \notin 1..autoNext
          BY <5>1, Bounds DEF NoForeignIds, AutoIds, IInv, TypeOK, QueuesOK
        <5>3. QED
          BY <2>1, <5>2 DEF Known, JobsKnown
      <4>2. QED
        BY <2>3, <4>1
    <3> HIDE DEF i, job
    <3>3. Held' = Held \union {p}
      BY <1>1, <2>1, <3>1, <3>2, HeldMeans DEF HeldNext, Present
    <3>4. 1..payNext' = 1..payNext \union {p} /\ p \notin 1..payNext
      BY <1>0, <2>3
    <3>5. Promise!Accept(p)
      BY <2>1, <3>3, <3>4 DEF Promise!Accept
    <3>6. QED
      BY <2>1, <3>5 DEF Promise!Next
  <2>4. QED
    BY <1>2, <2>2, <2>3, ConstantsAssumption DEF AddJob
<1>3. ASSUME NEW c \in Clients, NEW d \in DlqIds, ReplayAdd(c, d) PROVE Goal
  <2> DEFINE job == Job("wait", DefaultOpts, dlq[d].name, dlq[d].pay, dlq[d].wraps)
  <2>1. /\ job.pay = dlq[d].pay /\ job.st # "none" /\ dlq[d].pay \in 1..payNext
        /\ d \in Ids /\ UNCHANGED <<dlq, payNext, won, dropped>>
    BY <1>3, NewJob, Bounds DEF ReplayAdd, IInv, Tracked, Accepted
  <2>2. CASE main' = main
    <3>1. Held' = Held
      BY <2>1, <2>2 DEF Held, InState, Present
    <3>2. QED
      BY <2>1, <2>2, <3>1 DEF Promise!vars
  <2>3. CASE ~Present(main, d) /\ main' = [main EXCEPT ![d] = job]
    <3>1. main'[d] = job /\ \A j \in Ids : j # d => main'[j] = main[j]
      BY <1>0, <2>1, <2>3
    <3> HIDE DEF job
    <3>2. Held' = Held \union {dlq[d].pay}
      BY <1>1, <2>1, <2>3, <3>1, HeldMeans DEF HeldNext, Present
    <3>3. QED
      BY <2>1, <3>2, ReturnsOrStutters
  <2>4. QED
    BY <1>3, <2>2, <2>3 DEF ReplayAdd, Readded, AddWithId
<1>4. ASSUME NEW s \in Slots, DlqAdd(s) PROVE Goal
  <2> DEFINE d == dlqNext + 1
             p == run[s].pay
  <2>1. /\ d \in DlqIds /\ p \in 1..payNext /\ UNCHANGED <<main, payNext, won, dropped>>
        /\ dlq'[d].st = "wait" /\ dlq'[d].pay = p
        /\ \A e \in DlqIds : e # d => dlq'[e] = dlq[e]
    BY <1>0, <1>4 DEF DlqAdd, history, IInv, Tracked, Accepted
  <2>2. dlq[d].st # "wait"
    BY <2>1, Bounds DEF IInv, Tracked, TypeOK, QueuesOK
  <2> HIDE DEF d, p
  <2>3. Held' = Held \union {p}
    BY <1>1, <2>1, <2>2, HeldMeans DEF HeldNext, Present
  <2>4. QED
    BY <2>1, <2>3, ReturnsOrStutters
<1>5. ASSUME NEW s \in Slots, ProcessorReturns(s) \/ TelemetryThrows(s) PROVE Goal
  <2>1. /\ run[s].pay \in 1..payNext /\ UNCHANGED <<main, dlq, payNext, dropped>>
        /\ won' = won \union {run[s].pay}
    BY <1>5 DEF ProcessorReturns, TelemetryThrows, CountsSuccess, redis, IInv, Tracked, Accepted
  <2>2. Held' = Held
    BY <2>1 DEF Held, InState, Present
  <2>3. Promise!Process(run[s].pay)
    BY <2>1, <2>2 DEF Promise!Process
  <2>4. QED
    BY <1>0, <2>1, <2>3 DEF Promise!Next
<1>6. ASSUME ~Submit, \A c \in Clients, d \in DlqIds : ~ReplayAdd(c, d),
             \A s \in Slots : ~DlqAdd(s) /\ ~ProcessorReturns(s) /\ ~TelemetryThrows(s)
      PROVE  Goal
  <2>1. payNext' = payNext /\ won' = won
    BY <1>6, Frame DEF PauseResume
  <2>2. \A i \in Ids : Present(main', i) => Present(main, i) /\ main'[i].pay = main[i].pay
    BY <1>6, MainStep DEF Carries
  <2>3. \A d \in DlqIds : dlq'[d].st = "wait" => dlq[d].st = "wait" /\ dlq'[d].pay = dlq[d].pay
    BY <1>0, <1>6, Frame DEF ReplayRemove, EntryType
  <2>4. Held' \subseteq Held
    BY <1>1, <2>2, <2>3 DEF HeldNext
  <2>5. dropped' \ dropped \subseteq Held
    <3>1. ASSUME NEW s \in Slots, FailAttempt(s) PROVE dropped' \ dropped \subseteq Held
      BY <1>1, <3>1 DEF FailAttempt, Applies, Owns, Present, GivenUp, IInv, Tracked
    <3>2. ASSUME NEW i \in Ids, Stalled(i) PROVE dropped' \ dropped \subseteq Held
      BY <1>1, <3>2 DEF Stalled, Present, GivenUp
    <3>3. ASSUME NEW c \in Clients, Remove(c) PROVE dropped' \ dropped \subseteq Held
      BY <1>1, <3>3 DEF Remove, IInv, Tracked
    <3>4. ASSUME Drain PROVE dropped' \ dropped \subseteq Held
      BY <1>0, <1>1, <3>4 DEF Drain, InState, Present
    <3>5. QED
      BY <3>1, <3>2, <3>3, <3>4, Frame
  <2>6. QED
    BY <1>0, <2>1, <2>4, <2>5, GivesUp DEF Settled
<1>7. QED
  BY <1>2, <1>3, <1>4, <1>5, <1>6 DEF Submit

\* The two queues implement at-least-once delivery, whatever the interleaving of
\* executions, failures, DLQ adds, replays, stalls and crashes: no accepted payload
\* leaves both of them before a processor has returned for it or a caller gave it
\* up.  Failed jobs must be kept (FailuresKept), and ids in the two queues apart.
THEOREM NothingLostAlways ==
    ASSUME FailuresKept, NoForeignIds
    PROVE  Spec => NothingLost
<1>1. Init => Promise!Init
  <2> SUFFICES ASSUME Init PROVE Promise!Init
    OBVIOUS
  <2>1. Held = {} /\ Settled = {}
    BY IInvInit, HeldMeans, BlankTypes DEF Init, Present, Settled
  <2>2. QED
    BY <2>1 DEF Init, Promise!Init, Settled
<1>2. DeliveryInv /\ [Next]_vars => DeliveryInv'
  BY DeliveryInvStep
<1>3. DeliveryInv /\ [Next]_vars => [Promise!Next]_(Promise!vars)
  BY PromiseStep
<1>4. QED
  BY <1>1, <1>2, <1>3, DeliveryInvInit, PTL DEF Spec, NothingLost, Promise!Spec

(***************************************************************************)
(* Once without faults.                                                    *)
(*                                                                         *)
(* A payload has at most one copy that can still be processed: a job that  *)
(* waits, an execution that has not returned and may return, fail over to  *)
(* the DLQ or be retried, or an entry of the DLQ not yet replayed.         *)
(*                                                                         *)
(* retryJob puts an active job back under a running execution, a throwing  *)
(* metric makes a success a failure, and two replayDLQ calls can add one   *)
(* entry twice (the second one after the first one's job is gone): without *)
(* any fault, these are the ways to a second success.                      *)
(***************************************************************************)
Calm ==
    /\ "retry" \notin Api /\ "bulk" \notin Api /\ "completed" \notin TelemetryFaults
    /\ "replay" \notin Api \/ \A c, d \in Clients : c = d

OpenJob(i) == main[i].st \in {"wait", "delayed"}

OpenRun(s) == \/ run[s].pc \in {"processor", "dlqAdd"}
              \/ run[s].pc = "rejected" /\ run[s].made + 1 < run[s].max

OpenEntry(d) == dlq[d].st = "wait" /\ d \notin taken

Copies(p) ==
    {<<"job", i>> : i \in {j \in Ids : OpenJob(j) /\ main[j].pay = p}}
    \union {<<"run", s>> : s \in {t \in Slots : OpenRun(t) /\ run[t].pay = p}}
    \union {<<"entry", d>> : d \in {e \in DlqIds : OpenEntry(e) /\ dlq[e].pay = p}}

OneCopy == \A p \in Payloads : \A x, y \in Copies(p) : x = y

NoneOpen == \A p \in won : Copies(p) = {}

Locked == \A i \in Ids : main[i].st = "active" => main[i].lock # None

\* What a replayDLQ call has yet to add is open, and what has been added goes next.
Replaying ==
    \A c \in Clients : call[c].pc \in {"replayAdd", "replayRemove"} =>
        \A d \in call[c].todo : OpenEntry(d) /\ (call[c].pc = "replayRemove" => d # call[c].cur)

TakenGo ==
    \A d \in taken :
        dlq[d].st # "wait" \/ \E c \in Clients : call[c].pc = "replayRemove" /\ call[c].cur = d

CallsKnown ==
    \A c \in Clients :
        /\ call[c].pc \notin {"moveToWait", "bulkNext"}
        /\ call[c].pc \in {"replayAdd", "replayRemove"} => "replay" \in Api

Bounded ==
    /\ won \subseteq 1..payNext /\ taken \subseteq 1..dlqNext
    /\ \A s \in Slots : run[s].pc \in {"dlqAdd", "notify"} => run[s].made >= run[s].max

Once == OneCopy /\ NoneOpen /\ Locked /\ Replaying /\ TakenGo /\ twice = {}

OnceInv == IInv /\ Owned /\ CallsKnown /\ Bounded /\ (faults = 0 => Once)

LEMMA BoundedStep ==
    ASSUME IInv, [Next]_vars, Bounded
    PROVE  Bounded'
<1>0. /\ 1..payNext \subseteq 1..payNext' /\ 1..dlqNext \subseteq 1..dlqNext'
      /\ run \in [Slots -> RunType]
  <2>1. /\ payNext \in Nat /\ payNext' \in Nat /\ payNext <= payNext'
        /\ dlqNext \in Nat /\ dlqNext' \in Nat /\ dlqNext <= dlqNext'
    BY IInvStep, QueuesStep, Bounds DEF IInv, TypeOK, QueuesOK
  <2>2. QED
    BY <2>1 DEF IInv, TypeOK, InFlightOK
<1>1. won' \subseteq 1..payNext'
  <2>1. ASSUME NEW s \in Slots, ProcessorReturns(s) \/ TelemetryThrows(s)
        PROVE  won' \subseteq won \union (1..payNext)
    BY <2>1 DEF ProcessorReturns, TelemetryThrows, CountsSuccess, IInv, Tracked, Accepted
  <2>2. QED
    BY <1>0, <2>1, Frame DEF Bounded
<1>2. taken' \subseteq 1..dlqNext'
  BY <1>0, Frame DEF ReplayAdd, Bounded, IInv, Tracked
<1>3. ASSUME NEW s \in Slots, run'[s].pc \in {"dlqAdd", "notify"}
      PROVE  run'[s].made >= run'[s].max
  BY <1>3, RunMoves DEF Begins, Advances, SameAttempt, Ends, Bounded
<1>4. QED
  BY <1>1, <1>2, <1>3 DEF Bounded

ReplayPcs == {"replayAdd", "replayRemove"}

\* What a step may do to a single replayDLQ call.
ReplayMoves(c) ==
    \/ call'[c] = call[c]
    \/ call[c].pc # "replayRemove" /\ call'[c].pc \notin ReplayPcs
    \/ /\ call[c].pc = "idle" /\ "replay" \in Api /\ dlq' = dlq /\ taken' = taken
       /\ call'[c].pc = "replayAdd" /\ \A d \in call'[c].todo : d \in DlqIds /\ dlq[d].st = "wait"
    \/ \E d \in DlqIds :
          /\ ReplayAdd(c, d) /\ call[c].pc = "replayAdd" /\ d \in call[c].todo
          /\ call'[c] = [pc |-> "replayRemove", todo |-> call[c].todo \ {d}, cur |-> d]
    \/ /\ ReplayRemove(c) /\ call[c].pc = "replayRemove"
       /\ call'[c].pc = "idle" \/ (call'[c].pc = "replayAdd" /\ call'[c].todo = call[c].todo)
    \/ faults' # faults /\ call'[c].pc = "idle"

LEMMA CallsStep ==
    ASSUME IInv, [Next]_vars, "retry" \notin Api, "bulk" \notin Api, CallsKnown
    PROVE  CallsKnown' /\ \A c \in Clients : ReplayMoves(c)
<1> DEFINE Fine(c) == /\ call'[c].pc \notin {"moveToWait", "bulkNext"}
                      /\ ReplayMoves(c)
           Goal == \A c \in Clients : Fine(c)
<1>0. call \in [Clients -> CallType] /\ dlq \in [DlqIds -> EntryType]
  BY DEF IInv, TypeOK, InFlightOK, QueuesOK
<1> SUFFICES Goal
  BY DEF CallsKnown, ReplayMoves, ReplayPcs
<1>1. ASSUME call' = call PROVE Goal
  BY <1>1 DEF CallsKnown, ReplayMoves
<1>2. ASSUME NEW c \in Clients, NEW k, call' = [call EXCEPT ![c] = k],
             call'[c] = k => Fine(c)
      PROVE  Goal
  BY <1>0, <1>2 DEF CallsKnown, ReplayMoves
<1>2a. ASSUME NEW c \in Clients, NEW pc, NEW todo, NEW cur, Enters(c, pc, todo, cur)
      PROVE  /\ call'[c] = [pc |-> pc, todo |-> todo, cur |-> cur]
             /\ call'[c].pc = pc /\ call'[c].todo = todo
             /\ Fine(c) => Goal
  BY <1>0, <1>2, <1>2a DEF Enters
<1>3. ASSUME NEW c \in Clients, NEW pc \in CallPcs \ (ReplayPcs \union {"moveToWait", "bulkNext"}),
             NEW todo, NEW cur, Enters(c, pc, todo, cur), call[c].pc # "replayRemove"
      PROVE  Goal
  <2>1. Fine(c)
    BY <1>2a, <1>3 DEF ReplayMoves
  <2>2. QED
    BY <1>2a, <1>3, <2>1
<1>4. ASSUME NEW c \in Clients, call' = [call EXCEPT ![c] = IdleCall],
             call[c].pc # "replayRemove" \/ faults' # faults
      PROVE  Goal
  BY <1>2, <1>4, BlankTypes DEF ReplayMoves, ReplayPcs
<1>5. ASSUME NEW c \in Clients, StartCall(c) PROVE Goal
  <2>1. CASE \E i \in Ids : RemoveJob(c, i)
    BY <1>3, <2>1 DEF RemoveJob, Starts, CallPcs, ReplayPcs
  <2>2. CASE Close(c)
    BY <1>3, <2>2 DEF Close, Starts, CallPcs, ReplayPcs
  <2>3. ASSUME NEW limit \in Limits, ReplayDLQ(c, limit) PROVE Goal
    <3>1. PICK page \in Page(InState(dlq, {"wait"}), limit) : Enters(c, "replayAdd", page, None)
      BY <2>3 DEF ReplayDLQ
    <3>2. \A d \in page : d \in DlqIds /\ dlq[d].st = "wait"
      BY <1>0, PageSubset DEF InState
    <3>3. call[c].pc = "idle" /\ "replay" \in Api /\ dlq' = dlq /\ taken' = taken
      BY <2>3 DEF ReplayDLQ, Starts, redis, history
    <3>4. Fine(c)
      <4>1. call'[c].pc = "replayAdd" /\ call'[c].todo = page
        BY <1>2a, <3>1
      <4>2. QED
        BY <3>2, <3>3, <4>1 DEF ReplayMoves
    <3>5. QED
      BY <1>2a, <3>1, <3>4
  <2>4. QED
    BY <1>5, <2>1, <2>2, <2>3 DEF StartCall, RetryJob, BulkRetry, Starts
<1>6. ASSUME NEW c \in Clients, CallStep(c) PROVE Goal
  <2>0. call[c].pc \notin {"moveToWait", "bulkNext"}
    BY DEF CallsKnown
  <2>1. CASE Remove(c) \/ Rejected(c) \/ ReplayRemoveRejected(c)
    <3>1. faults \in Nat
      BY Bounds DEF IInv, TypeOK, HistoryOK
    <3>2. QED
      BY <1>4, <2>1, <3>1 DEF Remove, Rejected, ReplayRemoveRejected
  <2>2. ASSUME NEW d \in DlqIds, ReplayAdd(c, d) PROVE Goal
    <3>1. /\ call[c].pc = "replayAdd" /\ d \in call[c].todo
          /\ Enters(c, "replayRemove", call[c].todo \ {d}, d)
      BY <2>2 DEF ReplayAdd
    <3>2. Fine(c)
      BY <1>2a, <2>2, <3>1 DEF ReplayMoves
    <3>3. QED
      BY <1>2a, <3>1, <3>2
  <2>3. CASE ReplayRemove(c)
    <3> DEFINE k == [call[c] EXCEPT !.pc = "replayAdd", !.cur = None]
    <3>1. \/ call' = [call EXCEPT ![c] = IdleCall]
          \/ call' = [call EXCEPT ![c] = k]
      BY <1>0, <2>3 DEF ReplayRemove, Continues
    <3>2. k.pc = "replayAdd" /\ k.todo = call[c].todo /\ call[c].pc = "replayRemove"
      BY <1>0, <2>3 DEF CallType, ReplayRemove
    <3> HIDE DEF k
    <3>3. QED
      BY <1>2, <2>3, <3>1, <3>2, BlankTypes DEF ReplayMoves
  <2>4. ASSUME NEW n \in 1..4, CloseStep(c, n) PROVE Goal
    <3>1. call[c].pc # "replayRemove"
      BY <2>4 DEF CloseStep, CloseOrder
    <3>2. CASE n = 4
      BY <1>4, <2>4, <3>1, <3>2 DEF CloseStep
    <3>3. CASE n # 4
      <4>1. CloseOrder[n + 1] \in {"closeDlq", "closeQueue", "quit"}
        BY <3>3 DEF CloseOrder
      <4>2. Enters(c, CloseOrder[n + 1], {}, None)
        BY <2>4, <3>3 DEF CloseStep
      <4>3. QED
        BY <1>3, <3>1, <4>1, <4>2 DEF CallPcs, ReplayPcs
    <3>4. QED
      BY <3>2, <3>3
  <2>5. QED
    BY <1>6, <2>0, <2>1, <2>2, <2>3, <2>4 DEF CallStep, BulkNext, RetryMoves
<1>7. CASE Crash
  <2>1. faults' # faults
    BY <1>7, Bounds DEF Crash, IInv, TypeOK, HistoryOK
  <2>2. QED
    BY <1>7, <2>1, BlankTypes DEF Crash, ReplayMoves
<1>8. QED
  BY <1>1, <1>5, <1>6, <1>7, Frame

OpenJobNext(i) == main'[i].st \in {"wait", "delayed"}

OpenRunNext(s) == \/ run'[s].pc \in {"processor", "dlqAdd"}
                  \/ run'[s].pc = "rejected" /\ run'[s].made + 1 < run'[s].max

OpenEntryNext(d) == dlq'[d].st = "wait" /\ d \notin taken'

CopiesNext(p) ==
    {<<"job", i>> : i \in {j \in Ids : OpenJobNext(j) /\ main'[j].pay = p}}
    \union {<<"run", s>> : s \in {t \in Slots : OpenRunNext(t) /\ run'[t].pay = p}}
    \union {<<"entry", d>> : d \in {e \in DlqIds : OpenEntryNext(e) /\ dlq'[e].pay = p}}

JobStays(i) == OpenJob(i) /\ main'[i].pay = main[i].pay

RunStays(s) == OpenRun(s) /\ run'[s].pay = run[s].pay

EntryStays(d) == OpenEntry(d) /\ dlq'[d].pay = dlq[d].pay

\* The copies of a payload shrink, one becomes another, or the payload is new.
CopyStep(p) ==
    \/ CopiesNext(p) \subseteq Copies(p)
    \/ \E x \in Copies(p) : \E y : CopiesNext(p) \subseteq (Copies(p) \ {x}) \union {y}
    \/ p = payNext + 1 /\ \E y : CopiesNext(p) \subseteq {y}

LEMMA Tags == \A a, b, i, j : <<a, i>> = <<b, j>> <=> a = b /\ i = j
  OBVIOUS

LEMMA CopiesShrink ==
    ASSUME \A i \in Ids : OpenJobNext(i) => JobStays(i),
           \A s \in Slots : OpenRunNext(s) => RunStays(s),
           \A d \in DlqIds : OpenEntryNext(d) => EntryStays(d)
    PROVE  \A p : CopiesNext(p) \subseteq Copies(p)
  BY DEF CopiesNext, Copies, JobStays, RunStays, EntryStays

LEMMA CopyMoves ==
    ASSUME NEW q, NEW x \in Copies(q), NEW y,
           \A i \in Ids : OpenJobNext(i) =>
              \/ <<"job", i>> = y /\ main'[i].pay = q
              \/ <<"job", i>> # x /\ JobStays(i),
           \A s \in Slots : OpenRunNext(s) =>
              \/ <<"run", s>> = y /\ run'[s].pay = q
              \/ <<"run", s>> # x /\ RunStays(s),
           \A d \in DlqIds : OpenEntryNext(d) =>
              \/ <<"entry", d>> = y /\ dlq'[d].pay = q
              \/ <<"entry", d>> # x /\ EntryStays(d)
    PROVE  \A p : CopyStep(p)
<1> SUFFICES ASSUME NEW p PROVE CopyStep(p)
  OBVIOUS
<1>1. CASE p = q
  <2>1. \A z \in CopiesNext(p) : z = y \/ (z \in Copies(p) /\ z # x)
    BY <1>1 DEF CopiesNext, Copies, JobStays, RunStays, EntryStays
  <2>2. QED
    BY <1>1, <2>1 DEF CopyStep
<1>2. CASE p # q
  <2>1. CopiesNext(p) \subseteq Copies(p)
    BY <1>2 DEF CopiesNext, Copies, JobStays, RunStays, EntryStays
  <2>2. QED
    BY <2>1 DEF CopyStep
<1>3. QED
  BY <1>1, <1>2

LEMMA CopiesIn ==
    /\ \A i \in Ids : OpenJob(i) => <<"job", i>> \in Copies(main[i].pay)
    /\ \A s \in Slots : OpenRun(s) => <<"run", s>> \in Copies(run[s].pay)
    /\ \A d \in DlqIds : OpenEntry(d) => <<"entry", d>> \in Copies(dlq[d].pay)
  BY DEF Copies

\* Steps that leave the lists, the executions or the entries as they are.
LEMMA Unmoved ==
    /\ main' = main => \A i \in Ids : OpenJobNext(i) => JobStays(i)
    /\ run' = run => \A s \in Slots : OpenRunNext(s) => RunStays(s)
    /\ UNCHANGED <<dlq, taken>> => \A d \in DlqIds : OpenEntryNext(d) => EntryStays(d)
  BY DEF OpenJobNext, OpenJob, JobStays, OpenRunNext, OpenRun, RunStays, OpenEntryNext,
     OpenEntry, EntryStays

\* A new payload has no copies yet.
LEMMA NewPayload ==
    ASSUME IInv
    PROVE  Copies(payNext + 1) = {}
<1>1. /\ \A i \in Ids : OpenJob(i) => main[i].pay \in 1..payNext
      /\ \A s \in Slots : OpenRun(s) => run[s].pay \in 1..payNext
      /\ \A d \in DlqIds : OpenEntry(d) => dlq[d].pay \in 1..payNext
      /\ payNext \in Nat
  BY Bounds DEF IInv, Tracked, Accepted, OpenJob, OpenRun, OpenEntry, Present, TypeOK, QueuesOK
<1>2. payNext + 1 \notin 1..payNext
  BY <1>1
<1>3. QED
  BY <1>1, <1>2 DEF Copies

LEMMA CopiesStep ==
    ASSUME Calm, OnceInv, faults = 0, faults' = 0, [Next]_vars
    PROVE  \A p : CopyStep(p)
<1> DEFINE Goal == \A p : CopyStep(p)
<1> USE DEF OnceInv
<1>0. /\ main \in [Ids -> JobType] /\ run \in [Slots -> RunType]
      /\ dlq \in [DlqIds -> EntryType]
      /\ OneCopy /\ Locked /\ Replaying /\ TakenGo /\ dlqNext \in Nat
  BY Bounds DEF IInv, TypeOK, QueuesOK, InFlightOK, Once
<1>1. ASSUME \A i \in Ids : OpenJobNext(i) => JobStays(i),
             \A s \in Slots : OpenRunNext(s) => RunStays(s),
             \A d \in DlqIds : OpenEntryNext(d) => EntryStays(d)
      PROVE  Goal
  BY <1>1, CopiesShrink DEF CopyStep
<1>2. ASSUME NEW name \in Names, NEW opt \in JobOpts, NEW key \in Keys \union {None},
             NEW st \in AddTo, AddJob(name, opt, key, st)
      PROVE  Goal
  <2> DEFINE i == IF key = None THEN autoNext + 1 ELSE key
             job == Job(st, opt, name, payNext + 1, 0)
  <2>1. run' = run /\ UNCHANGED <<dlq, taken>>
    BY <1>2 DEF AddJob, history
  <2>2. CASE main' = main
    BY <1>1, <2>1, <2>2, Unmoved
  <2>3. CASE main' = [main EXCEPT ![i] = job]
    <3> DEFINE q == payNext + 1
    <3>1. i \in Ids /\ job.pay = q
      BY <1>2, Bounds, NewJob DEF AddJob
    <3> HIDE DEF i, job, q
    <3>2. /\ main'[i].pay = q
          /\ \A j \in Ids : j # i /\ OpenJobNext(j) => JobStays(j)
      BY <1>0, <2>3, <3>1 DEF OpenJobNext, OpenJob, JobStays
    <3>3. CopiesNext(q) \subseteq {<<"job", i>>}
      <4>1. Copies(q) = {}
        BY NewPayload DEF q
      <4>2. QED
        BY <2>1, <3>1, <3>2, <4>1, CopiesIn, Unmoved DEF CopiesNext, JobStays, RunStays,
           EntryStays
    <3>4. \A p : p # q => CopiesNext(p) \subseteq Copies(p)
      BY <2>1, <3>1, <3>2, Unmoved DEF CopiesNext, Copies, JobStays, RunStays, EntryStays
    <3>5. QED
      BY <3>3, <3>4 DEF CopyStep, q
  <2>4. QED
    BY <1>2, <2>2, <2>3 DEF AddJob
<1>3. ASSUME NEW s \in Slots, NEW i \in Ids, Fetch(s, i) PROVE Goal
  <2>1. /\ OpenJob(i) /\ UNCHANGED <<dlq, taken>> /\ ~OpenJobNext(i)
        /\ \A j \in Ids : j # i => main'[j] = main[j]
    BY <1>0, <1>3 DEF Fetch, OpenJob, OpenJobNext, Activate, history, JobType
  <2>2. /\ run'[s].pay = main[i].pay
        /\ \A t \in Slots : t # s => run'[t] = run[t]
    BY <1>0, <1>3 DEF Fetch
  <2>3. \A j \in Ids : OpenJobNext(j) => <<"job", j>> # <<"job", i>> /\ JobStays(j)
    BY <2>1, Tags DEF OpenJobNext, OpenJob, JobStays
  <2>4. \A t \in Slots : OpenRunNext(t) =>
          \/ <<"run", t>> = <<"run", s>> /\ run'[t].pay = main[i].pay
          \/ <<"run", t>> # <<"job", i>> /\ RunStays(t)
    BY <2>2, Tags DEF OpenRunNext, OpenRun, RunStays
  <2>5. \A d \in DlqIds : OpenEntryNext(d) => <<"entry", d>> # <<"job", i>> /\ EntryStays(d)
    BY <2>1, Tags, Unmoved
  <2>6. <<"job", i>> \in Copies(main[i].pay)
    BY <2>1, CopiesIn
  <2> DEFINE q == main[i].pay
             x == <<"job", i>>
             y == <<"run", s>>
  <2> HIDE DEF q, x, y
  <2>7. QED
    BY <2>3, <2>4, <2>5, <2>6, CopyMoves DEF q, x, y
<1>4. ASSUME NEW s \in Slots, Execution(s) PROVE Goal
  <2> DEFINE r == run[s]
  <2>0. \A t \in Slots : t # s => run'[t] = run[t]
    BY <1>0, <1>4 DEF Execution, ProcessorReturns, ProcessorThrows, TelemetryThrows, DlqAdd,
       DlqAddRejects, Notified, Complete, FailAttempt
  <2>0a. ASSUME OpenRunNext(s) => RunStays(s)
         PROVE  \A t \in Slots : OpenRunNext(t) => RunStays(t)
    BY <2>0, <2>0a DEF OpenRunNext, OpenRun, RunStays
  <2>0b. ASSUME ~OpenRunNext(s), NEW x, x = <<"run", s>>
         PROVE  \A t \in Slots : OpenRunNext(t) => <<"run", t>> # x /\ RunStays(t)
    BY <2>0, <2>0b, Tags DEF OpenRunNext, OpenRun, RunStays
  <2>1. CASE ProcessorReturns(s) \/ ProcessorThrows(s) \/ DlqAddRejects(s) \/ Notified(s)
    <3>1. UNCHANGED <<main, dlq, taken>> /\ run[s].pc \in {"processor", "dlqAdd", "notify"}
      BY <2>1 DEF ProcessorReturns, ProcessorThrows, DlqAddRejects, Notified, redis, history
    <3>2. /\ run[s].pc \in {"dlqAdd", "notify"} => run[s].made >= run[s].max
          /\ run[s].made \in Nat /\ run[s].max \in Nat
      BY <1>0 DEF Bounded, RunType
    <3>3. CASE Advances(s)
      <4>1. OpenRunNext(s) => RunStays(s)
        BY <3>2, <3>3 DEF Advances, SameAttempt, OpenRunNext, OpenRun, RunStays
      <4>2. QED
        BY <1>1, <2>0a, <3>1, <4>1, Unmoved
    <3>4. CASE run'[s] = run[s] \/ run'[s].pc = "idle"
      <4>1. OpenRunNext(s) => RunStays(s)
        BY <3>4 DEF OpenRunNext, OpenRun, RunStays
      <4>2. QED
        BY <1>1, <2>0a, <3>1, <4>1, Unmoved
    <3>5. QED
      BY <3>1, <3>3, <3>4, RunMoves DEF Begins, Ends
  <2>2. CASE DlqAdd(s)
    <3> DEFINE d == dlqNext + 1
    <3>1. /\ main' = main /\ taken' = taken /\ r.pc = "dlqAdd" /\ run'[s].pc = "notify"
          /\ d \in DlqIds /\ dlq'[d].pay = r.pay
          /\ \A e \in DlqIds : e # d => dlq'[e] = dlq[e]
      BY <1>0, <2>2 DEF DlqAdd, history
    <3>2. <<"run", s>> \in Copies(r.pay)
      BY <3>1, CopiesIn DEF OpenRun
    <3>3. \A i \in Ids : OpenJobNext(i) => <<"job", i>> # <<"run", s>> /\ JobStays(i)
      BY <3>1, Tags, Unmoved
    <3> HIDE DEF d, r
    <3>4. \A e \in DlqIds : OpenEntryNext(e) =>
            \/ <<"entry", e>> = <<"entry", d>> /\ dlq'[e].pay = r.pay
            \/ <<"entry", e>> # <<"run", s>> /\ EntryStays(e)
      BY <3>1, Tags DEF OpenEntryNext, OpenEntry, EntryStays
    <3>5. \A t \in Slots : OpenRunNext(t) => <<"run", t>> # <<"run", s>> /\ RunStays(t)
      BY <2>0b, <3>1 DEF OpenRunNext
    <3>6. QED
      BY <3>2, <3>3, <3>4, <3>5, CopyMoves
  <2>3. CASE Complete(s)
    <3>1. UNCHANGED <<dlq, taken>> /\ ~OpenRunNext(s)
      BY <1>0, <2>3, BlankTypes DEF Complete, OpenRunNext, history
    <3>2. \A i \in Ids : OpenJobNext(i) => main'[i] = main[i]
      BY <1>0, <2>3, BlankTypes DEF Complete, Finish, Ended, OpenJobNext, JobType
    <3>3. \A i \in Ids : OpenJobNext(i) => JobStays(i)
      BY <3>2 DEF OpenJobNext, OpenJob, JobStays
    <3>4. QED
      BY <1>1, <2>0a, <3>1, <3>3, Unmoved
  <2>4. CASE FailAttempt(s)
    <3> DEFINE i == r.id
    <3>1. UNCHANGED <<dlq, taken>> /\ ~OpenRunNext(s) /\ r.pc = "rejected" /\ i \in Ids
      BY <1>0, <2>4, BlankTypes DEF FailAttempt, OpenRunNext, IInv, Tracked
    <3>2. CASE Applies(i, s) /\ WillRetry(main[i])
      <4>1. Handles(r, i, main[i])
        BY <3>1, <3>2, ConstantsAssumption DEF Applies, Owns, Owned
      <4>2. r.made + 1 < r.max
        BY <3>2, <4>1 DEF WillRetry, Handles
      <4>3. <<"run", s>> \in Copies(r.pay)
        BY <3>1, <4>2, CopiesIn DEF OpenRun
      <4>4. main'[i].pay = r.pay /\ \A j \in Ids : j # i => main'[j] = main[j]
        BY <1>0, <2>4, <3>1, <3>2, <4>1 DEF FailAttempt, Backoff, Handles, JobType
      <4> HIDE DEF r, i
      <4>5. \A j \in Ids : OpenJobNext(j) =>
              \/ <<"job", j>> = <<"job", i>> /\ main'[j].pay = r.pay
              \/ <<"job", j>> # <<"run", s>> /\ JobStays(j)
        BY <4>4, Tags DEF OpenJobNext, OpenJob, JobStays
      <4>6. \A t \in Slots : OpenRunNext(t) => <<"run", t>> # <<"run", s>> /\ RunStays(t)
        BY <2>0b, <3>1
      <4>7. \A d \in DlqIds : OpenEntryNext(d) => <<"entry", d>> # <<"run", s>> /\ EntryStays(d)
        BY <3>1, Tags, Unmoved
      <4>8. QED
        BY <4>3, <4>5, <4>6, <4>7, CopyMoves
    <3>3. CASE ~(Applies(i, s) /\ WillRetry(main[i]))
      <4>1. \A j \in Ids : OpenJobNext(j) => main'[j] = main[j]
        <5>1. \/ main' = main
              \/ main' = [main EXCEPT ![i] = NoJob]
              \/ main' = [main EXCEPT ![i] = Ended(main[i], "failed", None)]
          BY <2>4, <3>3 DEF FailAttempt, Finish
        <5>2. Ended(main[i], "failed", None).st = "failed"
          BY <1>0, <3>1 DEF Ended, JobType
        <5> HIDE DEF i
        <5>3. QED
          BY <1>0, <3>1, <5>1, <5>2, BlankTypes DEF OpenJobNext
      <4>2. \A j \in Ids : OpenJobNext(j) => JobStays(j)
        BY <4>1 DEF OpenJobNext, OpenJob, JobStays
      <4>3. QED
        BY <1>1, <2>0a, <3>1, <4>2, Unmoved
    <3>4. QED
      BY <3>2, <3>3
  <2>5. QED
    BY <1>4, <2>1, <2>2, <2>3, <2>4 DEF Execution, TelemetryThrows, Calm
<1>5. ASSUME \A i \in Ids : OpenJobNext(i) => main'[i].pay = main[i].pay /\ OpenJob(i),
             run' = run, UNCHANGED <<dlq, taken>>
      PROVE  Goal
  BY <1>1, <1>5, Unmoved DEF JobStays
<1>6. ASSUME NEW i \in Ids, Promote(i) PROVE Goal
  BY <1>0, <1>5, <1>6 DEF Promote, OpenJobNext, OpenJob, JobType, history
<1>7. ASSUME Drain \/ Clear \/ \E c \in Clients : Remove(c) PROVE Goal
  <2>1. run' = run /\ UNCHANGED <<dlq, taken>>
    BY <1>7 DEF Drain, Clear, Remove, history
  <2>2. \A i \in Ids : main'[i] \in {main[i], NoJob}
    BY <1>0, <1>7 DEF Drain, Clear, Remove
  <2>3. QED
    BY <1>5, <2>1, <2>2, BlankTypes DEF OpenJobNext, OpenJob
<1>8. ASSUME NEW c \in Clients, NEW d \in DlqIds, ReplayAdd(c, d) PROVE Goal
  <2>1. run' = run /\ dlq' = dlq /\ d \in Ids /\ call[c].pc = "replayAdd" /\ d \in call[c].todo
    BY <1>8, Bounds DEF ReplayAdd
  <2>2. CASE Present(main, d)
    BY <1>5, <1>8, <2>1, <2>2 DEF ReplayAdd, Readded, AddWithId, OpenJobNext, OpenJob
  <2>3. CASE ~Present(main, d)
    <3>1. <<"entry", d>> \in Copies(dlq[d].pay)
      BY <1>0, <2>1, CopiesIn DEF Replaying
    <3>2. /\ taken' = taken \union {d} /\ main'[d].pay = dlq[d].pay
          /\ \A j \in Ids : j # d => main'[j] = main[j]
      BY <1>0, <1>8, <2>1, <2>3, NewJob DEF ReplayAdd, Readded, AddWithId
    <3>3. \A j \in Ids : OpenJobNext(j) =>
            \/ <<"job", j>> = <<"job", d>> /\ main'[j].pay = dlq[d].pay
            \/ <<"job", j>> # <<"entry", d>> /\ JobStays(j)
      BY <3>2, Tags DEF OpenJobNext, OpenJob, JobStays
    <3>4. \A t \in Slots : OpenRunNext(t) => <<"run", t>> # <<"entry", d>> /\ RunStays(t)
      BY <2>1, Tags, Unmoved
    <3>5. \A e \in DlqIds : OpenEntryNext(e) => <<"entry", e>> # <<"entry", d>> /\ EntryStays(e)
      BY <2>1, <3>2, Tags DEF OpenEntryNext, OpenEntry, EntryStays
    <3>6. QED
      BY <3>1, <3>3, <3>4, <3>5, CopyMoves
  <2>4. QED
    BY <2>2, <2>3
<1>9. ASSUME NEW c \in Clients, ReplayRemove(c) PROVE Goal
  <2>1. main' = main /\ run' = run /\ taken' = taken
    BY <1>9 DEF ReplayRemove, history
  <2>2. \A d \in DlqIds : OpenEntryNext(d) => EntryStays(d)
    BY <1>0, <1>9, <2>1 DEF ReplayRemove, OpenEntryNext, OpenEntry, EntryStays, EntryType
  <2>3. QED
    BY <1>1, <2>1, <2>2, Unmoved
<1>10. ASSUME UNCHANGED <<main, run, dlq, taken>> PROVE Goal
  BY <1>1, <1>10, Unmoved
<1>11. ASSUME NEW c \in Clients, StartCall(c) PROVE Goal
  BY <1>10, <1>11 DEF StartCall, RetryJob, RemoveJob, BulkRetry, ReplayDLQ, Close, redis, history
<1>12. ASSUME NEW c \in Clients, CallStep(c) PROVE Goal
  <2>1. ~RetryMoves(c)
    BY DEF RetryMoves, CallsKnown
  <2>2. CASE \/ \E i \in Ids : BulkNext(c, i)
             \/ Rejected(c) \/ ReplayRemoveRejected(c) \/ \E n \in 1..4 : CloseStep(c, n)
    BY <1>10, <2>2 DEF BulkNext, Rejected, ReplayRemoveRejected, CloseStep, redis, history
  <2>3. QED
    BY <1>7, <1>8, <1>9, <1>12, <2>1, <2>2 DEF CallStep
<1>13. \A i \in Ids : ~Stalled(i) /\ ~LoseLock(i)
  BY <1>0 DEF Stalled, LoseLock, Locked
<1>14. ~Crash
  BY DEF Crash
<1>15. ASSUME \/ \E name \in Names : Process(name)
              \/ Restart \/ PauseResume \/ UNCHANGED vars
       PROVE  Goal
  BY <1>10, <1>15 DEF Process, Restart, PauseResume, vars, redis, history
<1>16. QED
  BY <1>2, <1>3, <1>4, <1>6, <1>7, <1>11, <1>12, <1>13, <1>14, <1>15 DEF Next, Submit

\* A return without a fault is the first one of its payload, and leaves no copy.
LEMMA ReturnStep ==
    ASSUME OnceInv, faults = 0, faults' = 0, [Next]_vars,
           NEW s \in Slots, ProcessorReturns(s)
    PROVE  /\ run[s].pay \notin won /\ CopiesNext(run[s].pay) = {}
           /\ won' = won \union {run[s].pay} /\ twice' = twice
<1> USE DEF OnceInv
<1> DEFINE p == run[s].pay
<1>1. /\ OpenRun(s) /\ p \in Payloads /\ main' = main /\ UNCHANGED <<dlq, taken>>
      /\ won' = won \union {p} /\ twice' = IF p \in won THEN twice \union {p} ELSE twice
      /\ run' = [run EXCEPT ![s] = Succeeds(run[s])]
  <2>1. p \in 1..payNext /\ 1..payNext \subseteq Payloads
    BY Bounds DEF ProcessorReturns, IInv, Tracked, Accepted, TypeOK, QueuesOK, Payloads
  <2>2. QED
    BY <2>1 DEF ProcessorReturns, CountsSuccess, redis, OpenRun
<1>2. <<"run", s>> \in Copies(p)
  BY <1>1, CopiesIn
<1>3. p \notin won
  BY <1>2 DEF Once, NoneOpen
<1>4. \A x \in Copies(p) : x = <<"run", s>>
  BY <1>1, <1>2 DEF Once, OneCopy
<1>5. ~OpenRunNext(s) /\ \A t \in Slots : t # s => run'[t] = run[t]
  BY <1>1 DEF OpenRunNext, Succeeds, IInv, TypeOK, InFlightOK, RunType
<1>6. \A t \in Slots : OpenRunNext(t) => t # s /\ RunStays(t)
  BY <1>5 DEF OpenRunNext, OpenRun, RunStays
<1>7. \A x \in CopiesNext(p) : x \in Copies(p) /\ x # <<"run", s>>
  BY <1>1, <1>6, Tags, Unmoved DEF CopiesNext, Copies, JobStays, RunStays, EntryStays
<1>8. QED
  BY <1>1, <1>3, <1>4, <1>7

LEMMA OneCopyStep ==
    ASSUME Calm, OnceInv, faults = 0, faults' = 0, [Next]_vars
    PROVE  OneCopy' /\ NoneOpen' /\ twice' = {}
<1> USE DEF OnceInv
<1>0. \A p \in Payloads : \A x, y \in CopiesNext(p) : x = y
  <2>1. SUFFICES ASSUME NEW p \in Payloads, NEW x \in CopiesNext(p), NEW y \in CopiesNext(p)
                 PROVE  x = y
    OBVIOUS
  <2>2. \A z, w \in Copies(p) : z = w
    BY DEF Once, OneCopy
  <2>3. CopyStep(p)
    BY CopiesStep
  <2>4. QED
    BY <2>1, <2>2, <2>3 DEF CopyStep
<1>1. \A p \in won : CopiesNext(p) = {}
  <2>1. SUFFICES ASSUME NEW p \in won PROVE CopiesNext(p) = {}
    OBVIOUS
  <2>2. Copies(p) = {} /\ p # payNext + 1
    BY Bounds DEF Once, NoneOpen, Bounded, IInv, TypeOK, QueuesOK
  <2>3. QED
    BY <2>2, CopiesStep DEF CopyStep
<1>2. (\A p \in won' : CopiesNext(p) = {}) /\ twice' = {}
  <2>1. CASE UNCHANGED <<won, twice>>
    BY <1>1, <2>1 DEF Once
  <2>2. ASSUME NEW s \in Slots, ProcessorReturns(s)
        PROVE  (\A p \in won' : CopiesNext(p) = {}) /\ twice' = {}
    BY <1>1, <2>2, ReturnStep DEF Once
  <2>3. \A s \in Slots : ~TelemetryThrows(s)
    BY DEF Calm, TelemetryThrows
  <2>4. QED
    BY <2>1, <2>2, <2>3, Frame
<1>3. QED
  BY <1>0, <1>2 DEF OneCopy, NoneOpen, Copies, CopiesNext, OpenJob, OpenJobNext, OpenRun,
     OpenRunNext, OpenEntry, OpenEntryNext

LEMMA LockedStep ==
    ASSUME OnceInv, faults = 0, faults' = 0, [Next]_vars
    PROVE  Locked'
<1> SUFFICES ASSUME NEW i \in Ids, main'[i].st = "active" PROVE main'[i].lock # None
  BY DEF Locked
<1>1. MovesTo(i)
  BY NewStates, JobStep, BlankTypes DEF OnceInv, Departs
<1>2. QED
  BY <1>1, Continued DEF OnceInv, Once, Locked

LEMMA ReplayingStep ==
    ASSUME Calm, OnceInv, faults = 0, faults' = 0, [Next]_vars
    PROVE  Replaying' /\ TakenGo'
<1> USE DEF OnceInv, ReplayPcs
<1>0. /\ dlq \in [DlqIds -> EntryType] /\ taken \subseteq 1..dlqNext /\ dlqNext \in Nat
      /\ 1..dlqNext \subseteq DlqIds
      /\ CallsKnown' /\ \A c \in Clients : ReplayMoves(c)
  BY CallsStep, Bounds DEF Calm, IInv, TypeOK, QueuesOK, DlqIds, Bounded
<1>1. \A c, d \in Clients : call[c].pc \in ReplayPcs \/ call'[c].pc \in ReplayPcs => c = d
  BY <1>0 DEF Calm, CallsKnown
<1>2. ASSUME NEW c \in Clients, ReplayRemove(c)
      PROVE  /\ call[c].pc = "replayRemove" /\ call'[c].pc # "replayRemove" /\ taken' = taken
             /\ dlq'[call[c].cur].st = "none"
             /\ \A d \in DlqIds : d # call[c].cur => dlq'[d] = dlq[d]
  <2>1. /\ call[c].pc = "replayRemove" /\ taken' = taken
        /\ dlq' = [dlq EXCEPT ![call[c].cur].st = "none"]
    BY <1>2 DEF ReplayRemove, history
  <2>2. call[c].cur \in DlqIds
    BY <1>0, <2>1 DEF IInv, Tracked
  <2>3. call'[c].pc # "replayRemove"
    BY <1>2, BlankTypes DEF ReplayRemove, Continues, IInv, TypeOK, InFlightOK, CallType
  <2>4. QED
    BY <1>0, <2>1, <2>2, <2>3 DEF EntryType
<1>3. ASSUME NEW c \in Clients, NEW d \in DlqIds, ReplayAdd(c, d)
      PROVE  /\ call[c].pc = "replayAdd" /\ call'[c].pc = "replayRemove" /\ call'[c].cur = d
             /\ dlq' = dlq /\ taken' \subseteq taken \union {d}
  BY <1>3 DEF ReplayAdd, Enters, IInv, TypeOK, InFlightOK
<1>4. ASSUME NEW d \in 1..dlqNext, \A c \in Clients : ReplayRemove(c) => d # call[c].cur
      PROVE  dlq'[d] = dlq[d]
  <2>1. ASSUME NEW s \in Slots, DlqAdd(s) PROVE dlq'[d] = dlq[d]
    <3>1. d # dlqNext + 1
      BY <1>0
    <3>2. QED
      BY <1>0, <2>1, <3>1 DEF DlqAdd
  <2>2. QED
    BY <1>0, <1>2, <1>4, <2>1, Frame
<1>5. ASSUME NEW c \in Clients, call'[c].pc \in ReplayPcs, NEW d \in call'[c].todo
      PROVE  OpenEntryNext(d) /\ (call'[c].pc = "replayRemove" => d # call'[c].cur)
  <2>0. \A e \in DlqIds : OpenEntry(e) => e \in 1..dlqNext
    BY DEF OpenEntry, IInv, Tracked
  <2>1. CASE call'[c] = call[c]
    <3>1. d \in DlqIds /\ OpenEntry(d) /\ (call[c].pc = "replayRemove" => d # call[c].cur)
      BY <1>0, <1>5, <2>1 DEF Once, Replaying, IInv, Tracked
    <3>2. taken' = taken
      BY <1>1, <1>3, <1>5, <2>1, Frame
    <3>3. \A x \in Clients : ~ReplayRemove(x)
      BY <1>1, <1>2, <1>5, <2>1
    <3>4. dlq'[d] = dlq[d]
      BY <1>4, <2>0, <3>1, <3>3
    <3>5. QED
      BY <2>1, <3>1, <3>2, <3>4 DEF OpenEntry, OpenEntryNext
  <2>2. CASE /\ call[c].pc = "idle" /\ dlq' = dlq /\ taken' = taken
             /\ call'[c].pc = "replayAdd" /\ dlq[d].st = "wait"
    <3>1. \A x \in Clients : call[x].pc # "replayRemove"
      BY <1>1, <1>5, <2>2
    <3>2. d \notin taken
      BY <2>2, <3>1 DEF Once, TakenGo
    <3>3. QED
      BY <2>2, <3>2 DEF OpenEntryNext
  <2>3. ASSUME NEW e \in DlqIds, ReplayAdd(c, e), call[c].pc = "replayAdd",
               call'[c] = [pc |-> "replayRemove", todo |-> call[c].todo \ {e}, cur |-> e]
        PROVE  OpenEntryNext(d) /\ (call'[c].pc = "replayRemove" => d # call'[c].cur)
    <3>1. d \in call[c].todo /\ d # e
      BY <1>5, <2>3
    <3>2. OpenEntry(d)
      BY <2>3, <3>1 DEF Once, Replaying
    <3>3. QED
      BY <1>3, <2>3, <3>1, <3>2 DEF OpenEntry, OpenEntryNext
  <2>4. CASE /\ ReplayRemove(c) /\ call'[c].pc = "replayAdd" /\ call'[c].todo = call[c].todo
    <3>1. d \in DlqIds /\ OpenEntry(d) /\ d # call[c].cur
      BY <1>0, <1>2, <1>5, <2>4 DEF Once, Replaying, IInv, Tracked
    <3>2. dlq'[d] = dlq[d] /\ taken' = taken
      BY <1>0, <1>2, <2>4, <3>1
    <3>3. QED
      BY <2>4, <3>1, <3>2 DEF OpenEntry, OpenEntryNext
  <2>5. QED
    BY <1>0, <1>5, <2>1, <2>2, <2>3, <2>4 DEF ReplayMoves
<1>6. ASSUME NEW d \in taken'
      PROVE  \/ dlq'[d].st # "wait"
             \/ \E c \in Clients : call'[c].pc = "replayRemove" /\ call'[c].cur = d
  <2>1. CASE d \notin taken
    <3>1. PICK c \in Clients, e \in DlqIds : ReplayAdd(c, e)
      BY <1>6, <2>1, Frame
    <3>2. QED
      BY <1>3, <1>6, <2>1, <3>1
  <2>2. CASE d \in taken /\ dlq[d].st # "wait"
    <3>1. d \in 1..dlqNext /\ d \in DlqIds
      BY <1>0, <2>2
    <3>2. CASE \A c \in Clients : ReplayRemove(c) => d # call[c].cur
      BY <1>4, <2>2, <3>1, <3>2
    <3>3. CASE \E c \in Clients : ReplayRemove(c) /\ d = call[c].cur
      BY <1>2, <3>3
    <3>4. QED
      BY <3>2, <3>3
  <2>3. ASSUME d \in taken, NEW c \in Clients, call[c].pc = "replayRemove", call[c].cur = d
        PROVE  \/ dlq'[d].st # "wait"
               \/ \E x \in Clients : call'[x].pc = "replayRemove" /\ call'[x].cur = d
    <3>1. CASE call'[c] = call[c]
      BY <2>3, <3>1
    <3>2. CASE ReplayRemove(c)
      BY <1>2, <2>3, <3>2
    <3>3. QED
      BY <1>0, <2>3, <3>1, <3>2 DEF ReplayMoves
  <2>4. QED
    BY <2>1, <2>2, <2>3 DEF Once, TakenGo
<1>7. QED
  BY <1>5, <1>6 DEF Replaying, TakenGo, OpenEntry, OpenEntryNext

\* Without crashes, lost locks and rejected removes, no payload is processed twice:
\* replays of the DLQ, attempts, backoffs and the closing of the queue add no second success.
THEOREM OnceWithoutFaultsAlways ==
    ASSUME Calm
    PROVE  Spec => []OnceWithoutFaults
<1>1. Init => OnceInv
  <2> SUFFICES ASSUME Init PROVE OnceInv
    OBVIOUS
  <2>1. /\ \A i \in Ids : main[i].st = "none"
        /\ \A s \in Slots : run[s].pc = "idle"
        /\ \A d \in DlqIds : dlq[d].st = "none"
        /\ \A c \in Clients : call[c].pc = "idle"
        /\ won = {} /\ taken = {} /\ twice = {}
    BY BlankTypes DEF Init
  <2>2. \A p : Copies(p) = {}
    BY <2>1 DEF Copies, OpenJob, OpenRun, OpenEntry
  <2>3. Once
    BY <2>1, <2>2 DEF Once, OneCopy, NoneOpen, Locked, Replaying, TakenGo
  <2>4. Owned /\ CallsKnown /\ Bounded
    BY <2>1 DEF Owned, CallsKnown, Bounded
  <2>5. QED
    BY <2>3, <2>4, IInvInit DEF OnceInv
<1>2. OnceInv => OnceWithoutFaults
  BY DEF OnceInv, Once, OnceWithoutFaults
<1>3. OnceInv /\ [Next]_vars => OnceInv'
  <2> SUFFICES ASSUME OnceInv, [Next]_vars PROVE OnceInv'
    OBVIOUS
  <2>1. IInv' /\ Owned' /\ Bounded' /\ CallsKnown'
    BY IInvStep, OwnedStep, BoundedStep, CallsStep DEF OnceInv, Calm
  <2>2. faults' = 0 => faults = 0
    BY Frame, Bounds DEF OnceInv, IInv, TypeOK, HistoryOK
  <2>3. faults' = 0 => Once'
    BY <2>2, OneCopyStep, LockedStep, ReplayingStep DEF OnceInv, Once
  <2>4. QED
    BY <2>1, <2>3 DEF OnceInv
<1>4. QED
  BY <1>1, <1>2, <1>3, PTL DEF Spec
=============================================================================
