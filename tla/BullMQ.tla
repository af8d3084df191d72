------------------------------- MODULE BullMQ -------------------------------
(***************************************************************************)
(* The part of a BullMQ queue (a Redis data structure, not under src/)     *)
(* that the code of src/src calls.  A queue is a function from job ids to  *)
(* job records; every operator below is one BullMQ command, which Redis    *)
(* runs as one atomic script.  Records carry at least                      *)
(*   st      the list the job is in, "none" when the id is not in use      *)
(*   made    attemptsMade: attempts that have ENDED (BullMQ 5)             *)
(*   lock    the worker slot whose lock token is stored, or None           *)
(*   stalls  times the stalled-job check returned it to the wait list      *)
(* The order of the lists is abstracted: priorities and delays can permute *)
(* it, and no property here depends on it.                                 *)
(***************************************************************************)
EXTENDS Naturals, FiniteSets

\* The lists a job can be in; "paused" and "prioritized" are the wait list.
States == {"none", "wait", "delayed", "active", "completed", "failed"}

Pending == {"wait", "delayed", "active"}

Present(q, i) == q[i].st # "none"

InState(q, S) == {i \in DOMAIN q : q[i].st \in S}

\* Queue.add with a job id of the caller's: an id in use is left alone.
AddWithId(q, i, job) == IF Present(q, i) THEN q ELSE [q EXCEPT ![i] = job]

\* The lock token a finishing attempt presents must be the stored one.
Owns(q, i, tok) == q[i].st = "active" /\ q[i].lock = tok

Activate(q, i, tok) == [q EXCEPT ![i].st = "active", ![i].lock = tok]

\* Job.moveToWait: active to wait, no token asked for, attemptsMade kept.
MoveToWait(q, i, none) == [q EXCEPT ![i].st = "wait", ![i].lock = none]

\* A failed attempt is retried while attemptsMade + 1 < opts.attempts.
WillRetry(job) == job.made + 1 < job.opt.attempts

\* Retry after a backoff: the attempt is counted and the job is delayed.
Backoff(q, i, none) ==
    [q EXCEPT ![i].st = "delayed", ![i].lock = none, ![i].made = @ + 1]

\* A job whose last attempt has ended.
Ended(job, st, none) == [job EXCEPT !.st = st, !.lock = none, !.made = @ + 1]

\* A finished job: kept in its list, or deleted when the option says so.
Finish(q, i, st, remove, none, blank) ==
    [q EXCEPT ![i] = IF remove THEN blank ELSE Ended(q[i], st, none)]

\* What a listing of the ids S with a limit can return: getJobs(.., 0, limit - 1)
\* reads limit = 0 as "to the end".
Page(S, limit) ==
    IF limit = 0 \/ limit >= Cardinality(S) THEN {S}
    ELSE {T \in SUBSET S : Cardinality(T) = limit}
=============================================================================
