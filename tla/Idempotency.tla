---------------------------- MODULE Idempotency ----------------------------
(***************************************************************************)
(* The class IdempotencyManager of                                         *)
(* src/src/infrastructure/services/idempotency.manager.ts with the Redis   *)
(* keys it writes, the processors that use it (client code: look up, run,  *)
(* record) and the sweeps of cleanExpired.  Everything in flight lives in  *)
(* some process; the records live in Redis.                                *)
(*                                                                         *)
(* Time is one clock for the processes and Redis, in ticks; a key written  *)
(* by SETEX is gone, for every command, from the tick its TTL ends at.     *)
(***************************************************************************)
EXTENDS Naturals

CONSTANTS
    Keys,      \* idempotency keys
    Workers,   \* processors at a time
    Sweepers,  \* cleanExpired calls at a time
    Ttls,      \* ttlMs arguments of recordExecution, in ticks
    Second,    \* ticks in a second: SETEX counts seconds
    MaxClock,  \* bound: the clock
    MaxFaults, \* bound: commands Redis rejects, and crashes
    None

ASSUME IdempotencyAssumption ==
    /\ Ttls \subseteq Nat \ {0} /\ Second \in Nat \ {0}
    /\ MaxClock \in Nat /\ MaxFaults \in Nat
    /\ None \notin Keys

VARIABLES
    clock,     \* Date.now()
    store,     \* key -> the record in Redis: expiresAt, and when Redis drops the key
    job,       \* worker -> its execution
    sweep,     \* sweeper -> its cleanExpired call
    faults,    \* rejected commands and crashes so far
    promised,  \* key -> expiresAt of the record last stored, 0 after clear()
    overtaken, \* keys whose newest record a sweep deleted that had read an older one
    ran,       \* key -> workers that ran it since a stored result was in force
    again      \* keys a worker ran twice while a stored result was in force

vars == <<clock, store, job, sweep, faults, promised, overtaken, ran, again>>

history == <<promised, overtaken, ran, again>>

NoRecord  == [expires |-> 0, evicts |-> 0]
IdleJob   == [pc |-> "idle", key |-> None, ttl |-> 0, expires |-> 0]
IdleSweep == [pc |-> "idle", todo |-> {}, now |-> 0, cur |-> None, seen |-> NoRecord]

Init ==
    /\ clock = 0 /\ faults = 0
    /\ store = [k \in Keys |-> NoRecord]
    /\ job = [w \in Workers |-> IdleJob]
    /\ sweep = [s \in Sweepers |-> IdleSweep]
    /\ promised = [k \in Keys |-> 0] /\ overtaken = {}
    /\ ran = [k \in Keys |-> {}] /\ again = {}

\* What GET and KEYS see.
Stored(k) == clock < store[k].evicts

\* A stored result that has not expired, and that no overtaken sweep deleted.
InForce(k) == clock < promised[k] /\ k \notin overtaken

Tick ==
    /\ clock < MaxClock
    /\ clock' = clock + 1
    /\ UNCHANGED <<store, job, sweep, faults, history>>

Fault == faults < MaxFaults /\ faults' = faults + 1

(***************************************************************************)
(* A processor.                                                            *)
(***************************************************************************)
Begin(w, k) == job' = [job EXCEPT ![w] = [IdleJob EXCEPT !.pc = "run", !.key = k]]

\* getExecutionResult: a stored record answers, whatever its expiresAt says.
LookUp(w, k) ==
    /\ job[w].pc = "idle"
    /\ IF Stored(k) THEN UNCHANGED job ELSE Begin(w, k)
    /\ UNCHANGED <<clock, store, sweep, faults, history>>

\* A command that rejects is answered with null as well.
LookUpFails(w, k) ==
    /\ job[w].pc = "idle" /\ Fault
    /\ Begin(w, k)
    /\ UNCHANGED <<clock, store, sweep, history>>

\* The side effect, and recordExecution up to its await: expiresAt is taken here.
Run(w, ttl) ==
    LET k == job[w].key
    IN  /\ job[w].pc = "run"
        /\ job' = [job EXCEPT ![w].pc = "record", ![w].ttl = ttl, ![w].expires = clock + ttl]
        /\ IF InForce(k)
           THEN /\ ran' = [ran EXCEPT ![k] = @ \union {w}]
                /\ again' = IF w \in ran[k] THEN again \union {k} ELSE again
           ELSE UNCHANGED <<ran, again>>
        /\ UNCHANGED <<clock, store, sweep, faults, promised, overtaken>>

\* Mutants that round the TTL down, and that subtract the second they should add.
Mutant_Floor(t) == t - (t % Second)

Mutant_Minus(t) == t - (t % Second) - Second

\* Math.ceil(ttlMs / 1000), in ticks.
TtlSeconds(t) == IF t % Second = 0 THEN t ELSE t - (t % Second) + Second

\* SETEX runs: the TTL counts from now, expiresAt from before.
Record(w) ==
    LET k == job[w].key
    IN  /\ job[w].pc = "record"
        /\ store' = [store EXCEPT ![k] = [expires |-> job[w].expires,
                                          evicts |-> clock + TtlSeconds(job[w].ttl)]]
        /\ job' = [job EXCEPT ![w] = IdleJob]
        /\ promised' = [promised EXCEPT ![k] = job[w].expires]
        /\ overtaken' = overtaken \ {k}
        /\ ran' = IF InForce(k) THEN ran ELSE [ran EXCEPT ![k] = {}]
        /\ UNCHANGED <<clock, sweep, faults, again>>

\* SETEX rejects and recordExecution throws, or the process dies.
Dies(w) ==
    /\ job[w].pc # "idle" /\ Fault
    /\ job' = [job EXCEPT ![w] = IdleJob]
    /\ UNCHANGED <<clock, store, sweep, history>>

\* clear(key)
Clear(k) ==
    /\ store' = [store EXCEPT ![k] = NoRecord]
    /\ promised' = [promised EXCEPT ![k] = 0]
    /\ UNCHANGED <<clock, job, sweep, faults, overtaken, ran, again>>

(***************************************************************************)
(* cleanExpired: KEYS, the time once it has answered, then GET and perhaps *)
(* DEL for one key after the other against that time.                      *)
(***************************************************************************)
List(s) ==
    LET keys == {k \in Keys : Stored(k)}
    IN  /\ sweep[s].pc = "idle" /\ keys # {}
        /\ sweep' = [sweep EXCEPT ![s] = [IdleSweep EXCEPT !.pc = "listed", !.todo = keys]]
        /\ UNCHANGED <<clock, store, job, faults, history>>

ReadTime(s) ==
    /\ sweep[s].pc = "listed"
    /\ sweep' = [sweep EXCEPT ![s].pc = "get", ![s].now = clock]
    /\ UNCHANGED <<clock, store, job, faults, history>>

\* The sweep once it is done with a key.
Onward(x) == IF x.todo = {} THEN IdleSweep
             ELSE [x EXCEPT !.pc = "get", !.cur = None, !.seen = NoRecord]

\* A mutant that deletes every record it can read.
Mutant_AnyRecord(s, k) == Stored(k)

\* data && record.expiresAt < now
Expired(s, k) == Stored(k) /\ store[k].expires < sweep[s].now

Get(s, k) ==
    LET rest == [sweep[s] EXCEPT !.todo = @ \ {k}]
    IN  /\ sweep[s].pc = "get" /\ k \in sweep[s].todo
        /\ sweep' = [sweep EXCEPT ![s] =
                      IF Expired(s, k)
                      THEN [rest EXCEPT !.pc = "del", !.cur = k, !.seen = store[k]]
                      ELSE Onward(rest)]
        /\ UNCHANGED <<clock, store, job, faults, history>>

Del(s) ==
    LET k == sweep[s].cur
    IN  /\ sweep[s].pc = "del"
        /\ store' = [store EXCEPT ![k] = NoRecord]
        /\ overtaken' = IF store[k] = sweep[s].seen THEN overtaken ELSE overtaken \union {k}
        /\ sweep' = [sweep EXCEPT ![s] = Onward(@)]
        /\ UNCHANGED <<clock, job, faults, promised, ran, again>>

\* GET or DEL rejects: cleanKeyIfExpired swallows it and the loop goes on.
SweepRejected(s) ==
    /\ \/ sweep[s].pc = "get" /\ \E k \in sweep[s].todo :
             sweep' = [sweep EXCEPT ![s] = Onward([sweep[s] EXCEPT !.todo = @ \ {k}])]
       \/ sweep[s].pc = "del" /\ sweep' = [sweep EXCEPT ![s] = Onward(@)]
    /\ UNCHANGED <<clock, store, job, faults, history>>

Next ==
    \/ Tick
    \/ \E w \in Workers : \/ \E k \in Keys : LookUp(w, k) \/ LookUpFails(w, k)
                          \/ \E ttl \in Ttls : Run(w, ttl)
                          \/ Record(w) \/ Dies(w)
    \/ \E k \in Keys : Clear(k)
    \/ \E s \in Sweepers : \/ List(s) \/ ReadTime(s) \/ Del(s) \/ SweepRejected(s)
                           \/ \E k \in Keys : Get(s, k)

Spec == Init /\ [][Next]_vars

-----------------------------------------------------------------------------
RecordType == [expires : Nat, evicts : Nat]

JobType == [pc : {"idle", "run", "record"}, key : Keys \union {None},
            ttl : Ttls \union {0}, expires : Nat]

SweepType == [pc : {"idle", "listed", "get", "del"}, todo : SUBSET Keys,
              now : Nat, cur : Keys \union {None}, seen : RecordType]

\* The values the variables take.
TypeOK ==
    /\ clock \in Nat /\ faults \in Nat
    /\ store \in [Keys -> RecordType]
    /\ job \in [Workers -> JobType]
    /\ sweep \in [Sweepers -> SweepType]
    /\ promised \in [Keys -> Nat] /\ overtaken \subseteq Keys
    /\ ran \in [Keys -> SUBSET Workers] /\ again \subseteq Keys

\* recordExecution (:28-61) keeps its word: its record is found until expiresAt,
\* although SETEX runs later and counts in seconds, unless clear() or a sweep that
\* had read an older record of the key took it.
ResultLasts == \A k \in Keys : InForce(k) => Stored(k)

\* README.md:232 "cleanExpired() - Remove expired records": no other record goes.
OnlyExpiredGo == \A k \in Keys : clock < promised[k] => Stored(k)

\* What is left of "exactly once" (README.md:219): once a result is stored and in
\* force, an execution that had looked the key up before may still run, but no
\* worker runs the key a second time, unless Redis failed to answer.
NoWorkerRepeats == faults = 0 => again = {}
=============================================================================
