----------------------------- MODULE DLQManager -----------------------------
(***************************************************************************)
(* The class DLQManager of src/src/core/services/dlq/dlq-manager.ts.  It   *)
(* keeps no queue of its own: the failed list of the primary queue stands  *)
(* for the DLQ, and moveJobToDLQ only counts, emits and notifies.          *)
(*                                                                         *)
(* `failed` is that list, oldest first: the order BullMQ cleans it in.     *)
(* getJobs lists it newest first.                                          *)
(***************************************************************************)
EXTENDS Naturals, SequencesExt

CONSTANTS
    Callers,    \* callers of the manager
    Api,        \* the operations callers use
    Limits,     \* limit arguments of replayDLQ
    DlqEnabled, \* dlqConfig.enabled
    MaxIds      \* bound: job ids of the primary queue

VARIABLES
    origin,     \* origin[i]: the job whose payload job i carries, for the ids in use
    failed,     \* the failed list
    live,       \* jobs that wait or run
    completed,  \* completed jobs, which the queue keeps
    settled,    \* payloads processed, or cleared on purpose
    call        \* caller -> its call in progress

vars == <<origin, failed, live, completed, settled, call>>

Ids == 1..Len(origin)

Idle == [pc |-> "idle", todo |-> <<>>, count |-> 0]

Init ==
    /\ origin = <<>> /\ failed = <<>> /\ live = {} /\ completed = {} /\ settled = {}
    /\ call = [c \in Callers |-> Idle]

\* The primary queue and its worker.
Submit ==
    LET i == Len(origin) + 1
    IN  /\ i <= MaxIds
        /\ origin' = Append(origin, i)
        /\ live' = live \union {i}
        /\ UNCHANGED <<failed, completed, settled, call>>

JobFails(i) ==
    /\ i \in live
    /\ live' = live \ {i}
    /\ failed' = Append(failed, i)
    /\ UNCHANGED <<origin, completed, settled, call>>

JobCompletes(i) ==
    /\ i \in live
    /\ live' = live \ {i}
    /\ completed' = completed \union {i}
    /\ settled' = settled \union {origin[i]}
    /\ UNCHANGED <<origin, failed, call>>

\* primaryQueue.clean(0, limit, 'failed'): the oldest ones, all of them for 0.
Cleaned(limit) ==
    IF limit = 0 THEN <<>> ELSE SubSeq(failed, limit + 1, Len(failed))

Starts(c, op) == DlqEnabled /\ op \in Api /\ call[c].pc = "idle"

Continues(c, x) == call' = [call EXCEPT ![c] = x]

\* replayJob(jobId), for any job id.
ReplayJob(c, i) ==
    /\ Starts(c, "replayJob")
    /\ Continues(c, [Idle EXCEPT !.pc = "getJob", !.todo = <<i>>])
    /\ UNCHANGED <<origin, failed, live, completed, settled>>

\* replayDLQ(limit): getDLQJobs, then replayJob for one listed job after the other.
ReplayDLQ(c, limit) ==
    LET listed == Reverse(failed)
    IN  /\ Starts(c, "replayDLQ") /\ failed # <<>>
        /\ Continues(c, [Idle EXCEPT !.pc = "getJob",
                         !.todo = IF limit = 0 \/ limit >= Len(listed) THEN listed
                                  ELSE SubSeq(listed, 1, limit)])
        /\ UNCHANGED <<origin, failed, live, completed, settled>>

\* The jobs still to replay once this one is done with.
NextJob(c) ==
    Continues(c, IF Len(call[c].todo) <= 1 THEN Idle
                 ELSE [call[c] EXCEPT !.pc = "getJob", !.todo = Tail(@)])

\* getJob finds a job in whatever state it is in; a missing one is skipped.
GetJob(c) ==
    /\ call[c].pc = "getJob"
    /\ IF Head(call[c].todo) \in Range(failed) \union live \union completed
       THEN Continues(c, [call[c] EXCEPT !.pc = "add"])
       ELSE NextJob(c)
    /\ UNCHANGED <<origin, failed, live, completed, settled>>

\* The copy gets an id of its own.
AddJob(c) ==
    LET i == Len(origin) + 1
    IN  /\ call[c].pc = "add" /\ i <= MaxIds
        /\ origin' = Append(origin, origin[Head(call[c].todo)])
        /\ live' = live \union {i}
        /\ Continues(c, [call[c] EXCEPT !.pc = "clean"])
        /\ UNCHANGED <<failed, completed, settled>>

\* The removal that follows names no job.
Clean(c) ==
    /\ call[c].pc = "clean"
    /\ failed' = Cleaned(1)
    /\ NextJob(c)
    /\ UNCHANGED <<origin, live, completed, settled>>

\* A command rejects: the error is logged, the loop goes on.
Rejected(c) ==
    /\ call[c].pc \in {"getJob", "add", "clean"}
    /\ NextJob(c)
    /\ UNCHANGED <<origin, failed, live, completed, settled>>

\* clearDLQ(): getDLQCount, which is 0 when it rejects, then clean.
ClearDLQ(c) ==
    /\ Starts(c, "clearDLQ")
    /\ \E n \in {Len(failed), 0} : Continues(c, [Idle EXCEPT !.pc = "clear", !.count = n])
    /\ UNCHANGED <<origin, failed, live, completed, settled>>

Clear(c) ==
    /\ call[c].pc = "clear"
    /\ failed' = Cleaned(call[c].count)
    /\ settled' = settled \union {origin[i] : i \in Range(failed) \ Range(failed')}
    /\ Continues(c, Idle)
    /\ UNCHANGED <<origin, live, completed>>

Next ==
    \/ Submit
    \/ \E i \in Ids : JobFails(i) \/ JobCompletes(i)
    \/ \E c \in Callers :
          \/ \E i \in Ids : ReplayJob(c, i)
          \/ \E limit \in Limits : ReplayDLQ(c, limit)
          \/ GetJob(c) \/ AddJob(c) \/ Clean(c) \/ Rejected(c)
          \/ ClearDLQ(c) \/ Clear(c)

Spec == Init /\ [][Next]_vars

-----------------------------------------------------------------------------
\* dlq-manager.ts:166 "Remove from DLQ (by removing the failed job)": a replay takes
\* only the job it replayed out of the failed list, so that a payload stays in the
\* queue until it is processed or cleared.
ReplayRemovesTheReplayed ==
    \A i \in Ids : \/ origin[i] \in settled
                   \/ \E j \in Range(failed) \union live : origin[j] = origin[i]
=============================================================================
