------------------------------ MODULE Pipeline ------------------------------
(***************************************************************************)
(* What a job goes through in src/src/core/services: the class             *)
(* JobProcessingOrchestrator with its processor registry, the              *)
(* EventCoordinator and its handlers, the JobRetryCoordinator, the         *)
(* JobMetricsCollector and the JobTelemetryService.                        *)
(*                                                                         *)
(* A handler that is awaited lets everything else run: other jobs, other   *)
(* emissions, and on and off of the handlers of the emission itself.       *)
(***************************************************************************)
EXTENDS Naturals, Sequences, FiniteSets, SequencesExt

CONSTANTS
    Runs,        \* processJob calls at a time
    Names,       \* job names
    Handlers,
    Watched,     \* events that handlers are registered for
    MaxAttempts, \* retryConfig.maxAttempts ?? 3, which is also the attempts option of the jobs
    MaxChanges,  \* bound: on and off calls
    Nothing

Outcomes == {"completed", "retrying", "failed"}

Events == Outcomes \union {"started", "progress"}

\* Of the constants; the models that give them values assume it.
PipelineAssumption ==
    /\ Watched \subseteq Events /\ MaxAttempts \in Nat
    /\ Nothing \notin Handlers /\ Nothing \notin Names /\ Nothing \notin Events

\* A run awaits one emission, and does not await those of its progress.
Emitters == Runs \X {"run", "progress"}

VARIABLES
    processors, \* names with a processor
    handlers,   \* event -> its handlers: a Set, in the order of insertion
    changes,
    run,        \* processJob call -> where it is
    emission    \* emitter -> its emission

pipeVars == <<processors, handlers, changes, run, emission>>

NoRun == [pc |-> "idle", name |-> Nothing, attempts |-> 0, span |-> Nothing, outcome |-> Nothing,
          answer |-> Nothing, announced |-> {}, counted |-> {}, broken |-> FALSE]

\* seen: the handlers the iterator has passed.  due: those registered all along.
NoEmission == [event |-> Nothing, seen |-> {}, hearing |-> Nothing, due |-> {}, heard |-> {}]

PipeInit ==
    /\ processors = {} /\ handlers = [e \in Events |-> <<>>] /\ changes = 0
    /\ run = [r \in Runs |-> NoRun] /\ emission = [e \in Emitters |-> NoEmission]

-----------------------------------------------------------------------------
\* The registry of processors: a name that has one is refused.
RegisterProcessor(name) ==
    /\ name \notin processors /\ processors' = processors \union {name}
    /\ UNCHANGED <<handlers, changes, run, emission>>

Unregister(name) ==
    /\ name \in processors /\ processors' = processors \ {name}
    /\ UNCHANGED <<handlers, changes, run, emission>>

Change == changes < MaxChanges /\ changes' = changes + 1

\* A handler the Set holds keeps its place.
On(event, h) ==
    /\ Change
    /\ handlers' = [handlers EXCEPT ![event] = IF h \in ToSet(@) THEN @ ELSE Append(@, h)]
    /\ UNCHANGED <<processors, run, emission>>

\* One that comes back after it left is new to the iterators that had passed it.
Off(event, h) ==
    /\ Change
    /\ \E n \in DOMAIN handlers[event] :
          handlers[event][n] = h /\ handlers' = [handlers EXCEPT ![event] = RemoveAt(@, n)]
    /\ emission' = [e \in Emitters |->
                      IF emission[e].event # event THEN emission[e]
                      ELSE [emission[e] EXCEPT !.seen = @ \ {h}, !.due = @ \ {h}]]
    /\ UNCHANGED <<processors, run>>

\* emit: the loop iterates the live Set.
Begin(event) == [NoEmission EXCEPT !.event = event, !.due = ToSet(handlers[event])]

\* A mutant whose iterator counts handlers instead.
Mutant_ByIndex(x) == {n \in DOMAIN handlers[x.event] : n > Cardinality(x.heard)}

\* The places of the handlers the iterator has yet to come to.
Rest(x) == {n \in DOMAIN handlers[x.event] : handlers[x.event][n] \notin x.seen}

Over(x) == x.event = Nothing \/ (x.hearing = Nothing /\ Rest(x) = {})

\* The next handler is called ...
Hear(e) ==
    LET x == emission[e]
    IN  /\ x.event # Nothing /\ x.hearing = Nothing
        /\ \E n \in Rest(x) :
              LET h == handlers[x.event][n]
              IN  /\ \A m \in Rest(x) : n <= m
                  /\ emission' = [emission EXCEPT ![e] = [x EXCEPT !.seen = @ \union {h}, !.hearing = h,
                                                                   !.heard = @ \union {h}]]
        /\ UNCHANGED <<processors, handlers, changes, run>>

\* ... and has returned, or thrown: what it throws is caught and logged.
Settle(e) ==
    /\ emission[e].hearing # Nothing
    /\ emission' = [emission EXCEPT ![e].hearing = Nothing]
    /\ UNCHANGED <<processors, handlers, changes, run>>

ProgressHeard(r) ==
    /\ emission[<<r, "progress">>].event # Nothing /\ Over(emission[<<r, "progress">>])
    /\ emission' = [emission EXCEPT ![<<r, "progress">>] = NoEmission]
    /\ UNCHANGED <<processors, handlers, changes, run>>

-----------------------------------------------------------------------------
\* Goes on to announce an event, once the metrics of the last one are counted or their
\* adapter has thrown.
Announce(r, x, event) ==
    /\ run' = [run EXCEPT ![r] = [x EXCEPT !.pc = event, !.announced = @ \union {event}]]
    /\ emission' = [emission EXCEPT ![<<r, "run">>] = Begin(event)]

Finish(r, x, answer) ==
    /\ run' = [run EXCEPT ![r] = [x EXCEPT !.pc = "done", !.answer = answer]]
    /\ emission' = [emission EXCEPT ![<<r, "run">>] = NoEmission]

\* startJobSpan answers with a span that does nothing when the adapter throws.
ProcessJob(r, name, attempts) ==
    /\ run[r].pc = "idle"
    /\ \E span \in {"live", "noop"} :
          Announce(r, [NoRun EXCEPT !.name = name, !.attempts = attempts, !.span = span], "started")
    /\ UNCHANGED <<processors, handlers, changes>>

\* handleFailure, by shouldRetry of the three strategies.
HandleFailure(x) == x.attempts < MaxAttempts

\* The catch of processJob.  A live span may throw, out of processJob.
Catch(r, x) ==
    \/ Announce(r, x, IF HandleFailure(x) THEN "retrying" ELSE "failed")
    \/ x.span = "live" /\ Finish(r, [x EXCEPT !.broken = TRUE], "error")

\* The run, with the metrics of its event counted or not.
Counted(x) == {x, [x EXCEPT !.counted = @ \union {x.pc}]}

Started(r) ==
    /\ run[r].pc = "started" /\ Over(emission[<<r, "run">>])
    /\ \E x \in Counted(run[r]) :
          IF x.name \in processors
          THEN /\ run' = [run EXCEPT ![r] = [x EXCEPT !.pc = "processing"]]
               /\ emission' = [emission EXCEPT ![<<r, "run">>] = NoEmission]
          ELSE Catch(r, [x EXCEPT !.outcome = "missing"])
    /\ UNCHANGED <<processors, handlers, changes>>

\* The progress reporter given to the processor; it does not wait.
Report(r) ==
    /\ run[r].pc = "processing" /\ emission[<<r, "progress">>].event = Nothing
    /\ emission' = [emission EXCEPT ![<<r, "progress">>] = Begin("progress")]
    /\ UNCHANGED <<processors, handlers, changes, run>>

Processed(r, outcome) ==
    /\ run[r].pc = "processing"
    /\ LET x == [run[r] EXCEPT !.outcome = outcome]
       IN  IF outcome = "ok" THEN Announce(r, x, "completed") ELSE Catch(r, x)
    /\ UNCHANGED <<processors, handlers, changes>>

\* A mutant whose catch is a finally.
Mutant_Finally(r, x) == Catch(r, x)

\* span.end() and the result; a live span may throw here too, into the catch.
Complete(r, x) ==
    \/ Finish(r, x, "ok")
    \/ x.span = "live" /\ Catch(r, [x EXCEPT !.broken = TRUE])

Announced(r) ==
    /\ run[r].pc \in Outcomes /\ Over(emission[<<r, "run">>])
    /\ \E x \in Counted(run[r]) : IF x.pc = "completed" THEN Complete(r, x) ELSE Finish(r, x, "error")
    /\ UNCHANGED <<processors, handlers, changes>>

Return(r) ==
    /\ run[r].pc = "done"
    /\ run' = [run EXCEPT ![r] = NoRun]
    /\ UNCHANGED <<processors, handlers, changes, emission>>

Runner(r) == Started(r) \/ Announced(r) \/ \E outcome \in {"ok", "throws"} : Processed(r, outcome)

Emitter(e) == Hear(e) \/ Settle(e)

PipeNext ==
    \/ \E name \in Names : RegisterProcessor(name) \/ Unregister(name)
    \/ \E event \in Watched, h \in Handlers : On(event, h) \/ Off(event, h)
    \/ \E e \in Emitters : Emitter(e)
    \/ \E r \in Runs :
          \/ \E name \in Names, attempts \in 0..MaxAttempts : ProcessJob(r, name, attempts)
          \/ Report(r) \/ ProgressHeard(r) \/ Return(r) \/ Runner(r)

\* Processors and handlers settle.
PipeFairness ==
    /\ \A r \in Runs : WF_pipeVars(Runner(r))
    /\ \A e \in Emitters : WF_pipeVars(Emitter(e))

PipeSpec == PipeInit /\ [][PipeNext]_pipeVars /\ PipeFairness

-----------------------------------------------------------------------------
\* The values the variables take.
PipeTypeOK ==
    /\ processors \subseteq Names /\ handlers \in [Events -> Seq(Handlers)] /\ changes \in Nat
    /\ run \in [Runs -> [pc : Events \union {"idle", "processing", "done"}, name : Names \union {Nothing},
                         attempts : 0..MaxAttempts, span : {"live", "noop", Nothing},
                         outcome : {"ok", "throws", "missing", Nothing}, answer : {"ok", "error", Nothing},
                         announced : SUBSET Events, counted : SUBSET Events, broken : BOOLEAN]]
    /\ emission \in [Emitters -> [event : Events \union {Nothing}, seen : SUBSET Handlers,
                                  hearing : Handlers \union {Nothing}, due : SUBSET Handlers,
                                  heard : SUBSET Handlers]]

\* What BullMQ does with a job that has failed: attempts counts those before this one.
TriedAgain(x) == x.attempts + 1 < MaxAttempts

\* processJob answers what the processor did, and announces one outcome, the true one: a job
\* that completed; one that failed for good; or one that will be tried again, which is also
\* announced, against job-retry-coordinator.ts:32, after its last attempt.  Whatever handlers
\* and the metrics adapter throw, unless the span of the job throws
\* (job-processing-orchestrator.ts:58-175, job-retry-coordinator.ts:34-62).
OutcomeStands ==
    \A r \in Runs : LET x == run[r] IN x.pc = "done" /\ ~x.broken =>
        /\ x.answer = IF x.outcome = "ok" THEN "ok" ELSE "error"
        /\ \E event \in Outcomes :
              /\ x.announced \ {"started"} = {event}
              /\ event = "completed" <=> x.outcome = "ok"
              /\ event = "failed" => ~TriedAgain(x)
              /\ event = "retrying" => TriedAgain(x) \/ x.attempts + 1 = MaxAttempts
        /\ x.counted \subseteq x.announced

\* A handler that is registered for the whole of an emission hears it, though others
\* come and go meanwhile (event-coordinator.ts:151-178).
AllHear == \A e \in Emitters : Over(emission[e]) => emission[e].due \subseteq emission[e].heard

Running(r) == run[r].pc \notin {"idle", "done"}

\* Every processJob settles, when the handlers stop coming and going.
RunsEnd == \A r \in Runs : Running(r) ~> ~Running(r)
=============================================================================
