--------------------------- MODULE StatusQueries ---------------------------
(***************************************************************************)
(* Counting and listing the jobs of a queue while they move: the class     *)
(* JobStatusQueryService of src/src/core/services/status, with the         *)
(* DLQManager, the queue client, the job wrapper and the status factory it *)
(* asks, and getStats of src/src/JobQueue.ts.                              *)
(*                                                                         *)
(* Every state is read by a command of its own, and BullMQ moves jobs      *)
(* between the commands.  A count is modelled by the jobs that it counted. *)
(***************************************************************************)
EXTENDS Naturals, Sequences, FiniteSets, SequencesExt

CONSTANTS
    Jobs,
    Limit,     \* limit of a listing: of none, BullMQ would answer all
    Absent

\* BullMQ's lists.  A job that has a priority waits in one of its own; the others do in
\* "paused" while the queue is paused.  Nothing in src/ makes a job wait for children.
WaitLists == {"waiting", "paused", "prioritized"}
States == WaitLists \union {"active", "completed", "failed", "delayed"}

VARIABLES
    jobState, \* job -> where BullMQ holds it, or Absent
    fields,   \* job -> what its hash says: set of "delay", "processedOn", "finishedOn", "failedReason"
    query,    \* the query under way
    shifted   \* jobs that moved since it began

queryVars == <<jobState, fields, query, shifted>>

\* How a listing tells the status of a job: from its hash, by asking, or not at all.
Listings == {"inferred", "asked", "letters"}

JobStatuses == {"PENDING", "ACTIVE", "COMPLETED", "FAILED", "DELAYED", "WAITING", "PAUSED", "DLQ"}

\* Of the constants; the models that give them values assume it.
QueryAssumption ==
    /\ IsFiniteSet(Jobs) /\ Limit \in Nat \ {0}
    /\ Absent \notin States \union Listings \union {"counts", "stats"} \union JobStatuses

\* Counts have each job they counted under the status; a listing has the jobs of the
\* statuses asked, each with its status, or Absent until that is known.
NoQuery == [kind |-> Absent, todo |-> <<>>, asked |-> {}, counted |-> {}, page |-> {},
            list |-> <<>>, failed |-> FALSE]

QueryInit ==
    /\ jobState = [j \in Jobs |-> Absent] /\ fields = [j \in Jobs |-> {}]
    /\ query = NoQuery /\ shifted = {}

\* What BullMQ does with a job.
Moves(j, from, to, hash) ==
    /\ jobState[j] \in from
    /\ jobState' = [jobState EXCEPT ![j] = to]
    /\ fields' = [fields EXCEPT ![j] = hash]
    /\ shifted' = IF query.kind = Absent THEN shifted ELSE shifted \union {j}
    /\ UNCHANGED query

\* A paused queue pauses all that wait at once, here one by one, which allows more.
MoveJob(j) ==
    \/ \E list \in WaitLists :
          \/ Moves(j, {Absent}, list, {})
          \/ Moves(j, {"delayed"}, list, fields[j] \ {"delay"})
          \* A failed attempt: the job waits for the next one with what the last one left.
          \/ Moves(j, {"active"}, list, fields[j] \union {"failedReason"})
          \* The stalled check, and retryJob.
          \/ Moves(j, {"active"}, list, fields[j])
          \* The retry of a job that failed forgets what it left.
          \/ Moves(j, {"failed"}, list, {})
    \/ Moves(j, {Absent}, "delayed", {"delay"})
    \/ Moves(j, {"waiting"}, "paused", fields[j]) \/ Moves(j, {"paused"}, "waiting", fields[j])
    \/ Moves(j, {"waiting", "prioritized"}, "active", fields[j] \union {"processedOn"})
    \/ Moves(j, {"active"}, "completed", fields[j] \union {"finishedOn"})
    \/ Moves(j, {"active"}, "failed", fields[j] \union {"finishedOn", "failedReason"})
    \/ Moves(j, {"active"}, "delayed", fields[j] \union {"failedReason", "delay"})
    \/ Moves(j, {"completed", "failed"}, Absent, {})

\* The job still has what an attempt before left in its hash.
Rerun(j) ==
    \/ "failedReason" \in fields[j] /\ jobState[j] # "failed"
    \/ "processedOn" \in fields[j] /\ jobState[j] \in WaitLists \union {"delayed"}

\* get state(): the job does not know where it is; it is inferred from its hash.
Inferred(j) ==
    CASE "finishedOn" \in fields[j] -> IF "failedReason" \in fields[j] THEN "failed" ELSE "completed"
      [] "finishedOn" \notin fields[j] /\ "processedOn" \in fields[j] -> "active"
      [] fields[j] \intersect {"finishedOn", "processedOn"} = {} ->
             IF "delay" \in fields[j] THEN "delayed" ELSE "waiting"

-----------------------------------------------------------------------------
Statuses == <<"PENDING", "ACTIVE", "COMPLETED", "FAILED", "DELAYED", "WAITING">>

\* What BullMQ reads for each status: with the waiting jobs the paused ones.  The dead
\* letters are the failed jobs.
MapStatusToStates(status) ==
    CASE status \in {"PENDING", "WAITING"} -> {"waiting", "paused"}
      [] status = "PAUSED" -> {"paused"}
      [] status = "ACTIVE" -> {"active"}
      [] status = "COMPLETED" -> {"completed"}
      [] status \in {"FAILED", "DLQ"} -> {"failed"}
      [] status = "DELAYED" -> {"delayed"}

\* Of JobQueue, which knows of the prioritized ones.
GetBullmqStatuses(status) ==
    MapStatusToStates(status) \union IF status \in {"PENDING", "WAITING"} THEN {"prioritized"} ELSE {}

StatesRead(status) ==
    IF query.kind = "asked" THEN GetBullmqStatuses(status) ELSE MapStatusToStates(status)

In(states) == {j \in Jobs : jobState[j] \in states}

ToJobStatus(state) ==
    CASE state = Absent -> "PENDING"
      [] state \in {"waiting", "prioritized"} -> "WAITING"
      [] state = "paused" -> "PAUSED"
      [] state = "active" -> "ACTIVE"
      [] state = "completed" -> "COMPLETED"
      [] state = "failed" -> "FAILED"
      [] state = "delayed" -> "DELAYED"

Ask(q) ==
    /\ query.kind = Absent
    /\ query' = q
    /\ shifted' = {}
    /\ UNCHANGED <<jobState, fields>>

AskFor(kind, statuses) ==
    Ask([NoQuery EXCEPT !.kind = kind, !.todo = statuses, !.asked = ToSet(statuses)])

GetStatusCounts == AskFor("counts", Statuses \o <<"PAUSED", "DLQ">>)

GetStats == AskFor("stats", Tail(Statuses))

GetAllJobs == AskFor("inferred", Statuses)

\* Of DLQManager: the dead letters are listed as what they are.
GetDLQJobs == AskFor("letters", <<"DLQ">>)

\* Of JobQueue, whose dead letters are another queue's jobs, all waiting: Jobs are those.
GetDeadLetters == AskFor("letters", <<"WAITING">>)

\* Of the status service, and of JobQueue, which asks for the state of every job it found.
GetJobsByStatus(kind) == \E status \in JobStatuses \ {"DLQ"} : AskFor(kind, <<status>>)

\* Likewise.
GetJobStatus(kind, j) == Ask([NoQuery EXCEPT !.kind = kind, !.page = {j}])

\* A mutant that counts the jobs of the status before too.
Mutant_NoReset(status) ==
    In(MapStatusToStates(status) \union IF status = "ACTIVE" THEN MapStatusToStates("PENDING") ELSE {})

GetCountByStatus(status) == In(MapStatusToStates(status))

Count ==
    LET status == Head(query.todo)
    IN  /\ query.kind \in {"counts", "stats"} /\ query.todo # <<>>
        /\ query' = [query EXCEPT !.todo = Tail(@),
                                  !.counted = @ \union (GetCountByStatus(status) \X {status})]
        /\ UNCHANGED <<jobState, fields, shifted>>

\* A mutant that asks for one job less than there is room for.
Mutant_Room == Limit - Len(query.list) - 1

\* limit - allJobs.length
Room == Limit - Len(query.list)

\* BullMQ reads as many of the prioritized jobs as there is room for, and as many of the
\* others: with the waiting jobs it reads the paused ones, and only one of both are any.
Lists == {{"prioritized"}, States \ {"prioritized"}}

\* getJobsByState: the ids, as many as there is room for ...
GetIds ==
    LET found == In(StatesRead(Head(query.todo)))
    IN  /\ query.kind \in Listings /\ query.todo # <<>> /\ query.page = {}
        /\ Len(query.list) < Limit
        /\ \E page \in SUBSET found :
              /\ \A list \in Lists :
                    LET size == Cardinality(found \intersect In(list))
                    IN  Cardinality(page \intersect In(list)) = IF size < Room THEN size ELSE Room
              /\ query' = [query EXCEPT !.todo = Tail(@), !.page = page]
        /\ UNCHANGED <<jobState, fields, shifted>>

Listed(j) ==
    <<j, CASE query.kind = "inferred" -> ToJobStatus(Inferred(j))
           [] query.kind = "asked" -> Absent
           [] query.kind = "letters" -> CHOOSE status \in query.asked : TRUE>>

\* ... and their hashes.  One that is gone makes the whole listing fail, and is not found.
GetHashes ==
    /\ query.page # {}
    /\ IF \E j \in query.page : jobState[j] = Absent
       THEN query' = [query EXCEPT !.page = {}, !.failed = TRUE, !.todo = <<>>, !.list = <<>>]
       ELSE query' = [query EXCEPT !.page = {}, !.list = @ \o SetToSeq({Listed(j) : j \in query.page})]
    /\ UNCHANGED <<jobState, fields, shifted>>

Unknown == {n \in DOMAIN query.list : query.list[n][2] = Absent}

\* What BullMQ answers of a job; of a paused one its releases differ.
Told(state) == {ToJobStatus(state)} \union IF state = "paused" THEN {"WAITING"} ELSE {}

\* getState, of one job after the other.
GetJobState ==
    /\ query.page = {}
    /\ \E n \in Unknown :
          /\ \A m \in Unknown : n <= m
          /\ \E status \in Told(jobState[query.list[n][1]]) :
                query' = [query EXCEPT !.list[n][2] = status]
    /\ UNCHANGED <<jobState, fields, shifted>>

\* A command rejects: the count of that status is 0; a listing is empty, getStats throws.
ReadFails ==
    /\ query.todo # <<>> \/ query.page # {} \/ Unknown # {}
    /\ query' = IF query.kind = "counts"
                THEN [query EXCEPT !.todo = Tail(@), !.asked = @ \ {Head(query.todo)}]
                ELSE [query EXCEPT !.todo = <<>>, !.page = {}, !.list = <<>>, !.failed = TRUE]
    /\ UNCHANGED <<jobState, fields, shifted>>

Answered ==
    /\ query.kind # Absent /\ query.page = {} /\ Unknown = {}
    /\ query.todo = <<>> \/ (query.kind \in Listings /\ Len(query.list) >= Limit)

Reply ==
    /\ Answered
    /\ query' = NoQuery /\ shifted' = {}
    /\ UNCHANGED <<jobState, fields>>

QueryNext ==
    \/ \E j \in Jobs : MoveJob(j)
    \/ GetStatusCounts \/ GetStats \/ GetAllJobs \/ GetDLQJobs \/ GetDeadLetters
    \/ \E kind \in {"inferred", "asked"} :
          GetJobsByStatus(kind) \/ \E j \in Jobs : GetJobStatus(kind, j)
    \/ Count \/ GetIds \/ GetHashes \/ GetJobState \/ ReadFails \/ Reply

QuerySpec == QueryInit /\ [][QueryNext]_queryVars

-----------------------------------------------------------------------------
\* The values the variables take.
QueryTypeOK ==
    /\ jobState \in [Jobs -> States \union {Absent}] /\ shifted \subseteq Jobs
    /\ fields \in [Jobs -> SUBSET {"delay", "processedOn", "finishedOn", "failedReason"}]
    /\ query \in [kind : Listings \union {"counts", "stats", Absent}, todo : Seq(JobStatuses),
                  asked : SUBSET JobStatuses, counted : SUBSET (Jobs \X JobStatuses), page : SUBSET Jobs,
                  list : Seq(Jobs \X (JobStatuses \union {Absent})), failed : BOOLEAN]

\* The states a status is named for: JobQueue.ts:491-495 calls a prioritized job waiting.
Meant(status) ==
    [PENDING |-> WaitLists, WAITING |-> WaitLists, PAUSED |-> {"paused"}, ACTIVE |-> {"active"},
     COMPLETED |-> {"completed"}, FAILED |-> {"failed"}, DELAYED |-> {"delayed"}, DLQ |-> {"failed"}][status]

\* getStatusCounts (:160-192) and getStats (JobQueue.ts:715-742) count every job that did
\* not move meanwhile under each status asked that is named for its state, once, and under no
\* other, whatever the others do: but a prioritized job under none, which neither asks for.
CountsBounded ==
    Answered /\ query.kind \in {"counts", "stats"} /\ ~query.failed =>
        \A j \in Jobs \ shifted : \A status \in query.asked :
            <<j, status>> \in query.counted <=>
                jobState[j] \in Meant(status) /\ jobState[j] # "prioritized"

\* getAllJobs (:131-158) and both getJobsByStatus (:59-95, JobQueue.ts:506-514) answer
\* with no more than the limit; of JobQueue, whose waiting jobs are in two lists, twice that.
\* Of the jobs that did not move they miss one only when the limit is used up, or when it is
\* prioritized and JobQueue is not who asks; and show each in its state, where that is only
\* inferred (bullmq-job.wrapper.ts:46-58) unless an attempt before has left its marks.
AllListed ==
    Answered /\ query.kind \in Listings /\ ~query.failed =>
        /\ Len(query.list) <= IF query.kind = "asked" THEN 2 * Limit ELSE Limit
        /\ \A j \in Jobs \ shifted :
              /\ (\E status \in query.asked : jobState[j] \in Meant(status)) =>
                    \/ Len(query.list) >= Limit
                    \/ \E n \in DOMAIN query.list : query.list[n][1] = j
                    \/ jobState[j] = "prioritized" /\ query.kind # "asked"
              /\ \A n \in DOMAIN query.list : query.list[n][1] = j =>
                    \/ jobState[j] \in Meant(query.list[n][2])
                    \/ query.kind = "inferred" /\ Rerun(j)
=============================================================================
