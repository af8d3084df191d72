--------------------------- MODULE CircuitBreaker ---------------------------
(***************************************************************************)
(* The class CircuitBreaker of                                             *)
(* src/src/infrastructure/services/circuit-breaker.manager.ts: one breaker *)
(* shared by Callers whose operations overlap.  execute() awaits the       *)
(* operation, so its result is applied to whatever the state has become.   *)
(*                                                                         *)
(* Date.now() and nextAttemptAt only ever meet in a comparison, so the     *)
(* model keeps their difference: `cooldown` counts down to 0.              *)
(***************************************************************************)
EXTENDS Naturals, FiniteSets

CONSTANTS
    Callers,          \* callers of execute()
    Configs,          \* the configurations a breaker may be built with
    CallbackMayThrow, \* config.onStateChange may throw
    MaxCalls          \* bound: operations ever started

\* failureThreshold is a count, or a percentage of all requests once there have
\* been minRequests.
ConfigType == [percentageMode : BOOLEAN, failureThreshold : Nat, minRequests : Nat,
               successThreshold : Nat, timeout : Nat]

ASSUME BreakerAssumption ==
    /\ Configs \subseteq ConfigType
    /\ CallbackMayThrow \in BOOLEAN
    /\ MaxCalls \in Nat

VARIABLES
    config,   \* this.config
    b,        \* the breaker's own fields, with stats.state as `reported`
    op,       \* caller -> does its operation run
    calls,    \* operations started
    byHand,   \* the breaker was last closed by close(), not by its own logic
    earned    \* successes counted since the breaker last became half-open

vars == <<config, b, op, calls, byHand, earned>>

CLOSED    == "closed"
OPEN      == "open"
HALF_OPEN == "half-open"

Fresh(state) ==
    [state |-> state, reported |-> CLOSED, cooldown |-> 0,
     successCount |-> 0, failureCount |-> 0,
     consecutiveSuccesses |-> 0, consecutiveFailures |-> 0]

\* Mutants of transitionTo: one that forgets stats.state, one that opens an open
\* breaker again.
Mutant_NotReported(x, new) ==
    IF x.state = new THEN x
    ELSE [x EXCEPT !.state = new, !.cooldown = IF new = OPEN THEN config.timeout ELSE @]

Mutant_Reopens(x, new) ==
    [x EXCEPT !.state = new, !.reported = new,
              !.cooldown = IF new = OPEN THEN config.timeout ELSE @]

\* transitionTo: nothing when the state is already the new one, so re-opening an
\* open breaker keeps its nextAttemptAt.
TransitionTo(x, new) ==
    IF x.state = new THEN x
    ELSE [x EXCEPT !.state = new, !.reported = new,
                   !.cooldown = IF new = OPEN THEN config.timeout ELSE @]

\* A mutant that trips one failure late.
Mutant_OneLate(x) ==
    ~config.percentageMode /\ x.consecutiveFailures > config.failureThreshold

ShouldOpen(x) ==
    IF ~config.percentageMode
    THEN x.consecutiveFailures >= config.failureThreshold
    ELSE LET total == x.successCount + x.failureCount
         IN  /\ total >= config.minRequests
             /\ x.failureCount * 100 >= config.failureThreshold * total

\* A mutant that lets a success forgive a failure.
Mutant_Forgive(x) ==
    [x EXCEPT !.successCount = @ + 1, !.consecutiveSuccesses = @ + 1,
              !.consecutiveFailures = 0, !.failureCount = @ - 1]

CountSuccess(x) ==
    [x EXCEPT !.successCount = @ + 1, !.consecutiveSuccesses = @ + 1,
              !.consecutiveFailures = 0]

CountFailure(x) ==
    [x EXCEPT !.failureCount = @ + 1, !.consecutiveFailures = @ + 1,
              !.consecutiveSuccesses = 0]

\* A mutant that closes the breaker from whatever state the success finds it in.
Mutant_ClosesAny(x) ==
    LET y == CountSuccess(x)
    IN  IF y.consecutiveSuccesses >= config.successThreshold
        THEN TransitionTo(y, CLOSED) ELSE y

OnSuccess(x) ==
    LET y == CountSuccess(x)
    IN  IF y.state = HALF_OPEN /\ y.consecutiveSuccesses >= config.successThreshold
        THEN TransitionTo(y, CLOSED)
        ELSE y

OnFailure(x) ==
    LET y == CountFailure(x)
    IN  IF y.state = HALF_OPEN \/ ShouldOpen(y) THEN TransitionTo(y, OPEN) ELSE y

Init ==
    /\ config \in Configs
    /\ b = Fresh(CLOSED)
    /\ op = [c \in Callers |-> FALSE]
    /\ calls = 0 /\ byHand = FALSE /\ earned = 0

Starts(c) ==
    /\ ~op[c] /\ calls < MaxCalls
    /\ calls' = calls + 1

\* execute() while the breaker is not open.  While it is open and cooling down
\* execute() throws and changes nothing.
Execute(c) ==
    /\ b.state # OPEN
    /\ Starts(c)
    /\ op' = [op EXCEPT ![c] = TRUE]
    /\ UNCHANGED <<config, b, byHand, earned>>

\* execute() once the cooldown is over.  onStateChange is called before the try
\* block: when it throws, the operation never runs.
ExecuteProbe(c) ==
    /\ b.state = OPEN /\ b.cooldown = 0
    /\ Starts(c)
    /\ b' = TransitionTo(b, HALF_OPEN)
    /\ \/ op' = [op EXCEPT ![c] = TRUE]
       \/ CallbackMayThrow /\ UNCHANGED op
    /\ earned' = 0
    /\ UNCHANGED <<config, byHand>>

\* The operation of c settles.
Settles(c, x) ==
    /\ op[c]
    /\ op' = [op EXCEPT ![c] = FALSE]
    /\ b' = x
    /\ byHand' = (byHand /\ x.state = CLOSED)
    /\ UNCHANGED <<config, calls>>

Resolve(c) ==
    /\ Settles(c, OnSuccess(b))
    /\ earned' = IF b.state = HALF_OPEN THEN earned + 1 ELSE earned

Reject(c) ==
    /\ Settles(c, OnFailure(b))
    /\ UNCHANGED earned

\* onSuccess closed the breaker and onStateChange threw, inside the try block: the
\* catch block counts the same call as a failure as well.
ResolveThrows(c) ==
    /\ CallbackMayThrow
    /\ OnSuccess(b).state # b.state
    /\ Settles(c, OnFailure(OnSuccess(b)))
    /\ earned' = earned + 1

Open ==
    /\ b' = TransitionTo(b, OPEN)
    /\ byHand' = FALSE
    /\ UNCHANGED <<config, op, calls, earned>>

\* close() leaves the counters alone.
Close ==
    /\ b' = TransitionTo(b, CLOSED)
    /\ byHand' = TRUE
    /\ UNCHANGED <<config, op, calls, earned>>

\* reset() clears the statistics, then closes.
Reset ==
    /\ b' = TransitionTo([Fresh(b.state) EXCEPT !.cooldown = b.cooldown], CLOSED)
    /\ byHand' = FALSE
    /\ UNCHANGED <<config, op, calls, earned>>

Tick ==
    /\ b.cooldown > 0
    /\ b' = [b EXCEPT !.cooldown = @ - 1]
    /\ UNCHANGED <<config, op, calls, byHand, earned>>

Next ==
    \/ \E c \in Callers : \/ Execute(c) \/ ExecuteProbe(c)
                          \/ Resolve(c) \/ Reject(c) \/ ResolveThrows(c)
    \/ Open \/ Close \/ Reset \/ Tick

Spec == Init /\ [][Next]_vars

\* Time passes, and callers keep calling a breaker that would let them through.
FairSpec ==
    /\ Spec
    /\ WF_vars(Tick)
    /\ WF_vars(\E c \in Callers : ExecuteProbe(c))
    /\ \A c \in Callers : WF_vars(Resolve(c) \/ Reject(c))

-----------------------------------------------------------------------------
BreakerType ==
    [state : {CLOSED, OPEN, HALF_OPEN}, reported : {CLOSED, OPEN, HALF_OPEN},
     cooldown : Nat, successCount : Nat, failureCount : Nat,
     consecutiveSuccesses : Nat, consecutiveFailures : Nat]

\* The values the variables take.
TypeOK ==
    /\ config \in Configs
    /\ b \in BreakerType
    /\ op \in [Callers -> BOOLEAN]
    /\ calls \in 0..MaxCalls
    /\ byHand \in BOOLEAN
    /\ earned \in Nat

Promise == INSTANCE Gate
           WITH gate <- b.state, cooldown <- b.cooldown, inside <- {c \in Callers : op[c]},
                Timeouts <- {cf.timeout : cf \in Configs}

\* The breaker is a gate (circuit-breaker.manager.ts:42-160): no operation enters
\* while it is open and cooling down, a result that arrives while it is open
\* neither moves it nor prolongs it, it becomes half-open only from open.
IsAGate == Promise!Spec

\* Counting mode: a breaker that was not closed by hand is open before
\* failureThreshold failures in a row have been seen, however late and in whatever
\* state the results arrive (:102-141).
TripsInTime ==
    (b.state = CLOSED /\ ~byHand /\ ~config.percentageMode /\ config.failureThreshold > 0)
        => b.consecutiveFailures < config.failureThreshold

\* getStats() never contradicts itself (:23-30): the state it reports is the one
\* execute() acts on, a run of successes and one of failures exclude each other,
\* and neither is longer than its total.
StatsCoherent ==
    /\ b.reported = b.state
    /\ b.consecutiveSuccesses = 0 \/ b.consecutiveFailures = 0
    /\ b.consecutiveSuccesses <= b.successCount
    /\ b.consecutiveFailures <= b.failureCount

\* An open breaker is probed: nothing that happens while it is open keeps it open
\* for ever (the calls of this instance permitting).
OpenIsProbed == (b.state = OPEN) ~> (b.state # OPEN \/ calls = MaxCalls)

\* circuit-breaker.interface.ts:49 "Number of successful requests needed in half-open
\* to close": a success closes the breaker only after successThreshold of them.
EarnedClose ==
    [][(b.state = HALF_OPEN /\ b'.state = CLOSED /\ op' # op)
        => earned' >= config.successThreshold]_vars
=============================================================================
