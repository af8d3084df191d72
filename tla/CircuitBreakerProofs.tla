------------------------ MODULE CircuitBreakerProofs ------------------------
(***************************************************************************)
(* What CircuitBreaker satisfies for every set of callers, every           *)
(* configuration, and any number of calls.                                 *)
(***************************************************************************)
EXTENDS CircuitBreaker, TLAPS

USE DEF CLOSED, OPEN, HALF_OPEN

\* transitionTo keeps the types and the counters, and its result is in the state
\* it was asked for.
LEMMA TransitionToType ==
    ASSUME NEW x \in BreakerType, NEW new \in {CLOSED, OPEN, HALF_OPEN},
           config \in ConfigType
    PROVE  /\ TransitionTo(x, new) \in BreakerType
           /\ TransitionTo(x, new).state = new
           /\ TransitionTo(x, new).successCount = x.successCount
           /\ TransitionTo(x, new).failureCount = x.failureCount
           /\ TransitionTo(x, new).consecutiveSuccesses = x.consecutiveSuccesses
           /\ TransitionTo(x, new).consecutiveFailures = x.consecutiveFailures
           /\ x.reported = x.state => TransitionTo(x, new).reported = new
           /\ TransitionTo(x, new).cooldown =
                IF x.state # OPEN /\ new = OPEN THEN config.timeout ELSE x.cooldown
  BY DEF TransitionTo, BreakerType, ConfigType

\* Three counters at a time can be set to any numbers.
LEMMA SetCounters ==
    ASSUME NEW x \in BreakerType, NEW n \in Nat, NEW m \in Nat
    PROVE  /\ [x EXCEPT !.successCount = n, !.consecutiveSuccesses = m,
                        !.consecutiveFailures = 0] \in BreakerType
           /\ [x EXCEPT !.failureCount = n, !.consecutiveFailures = m,
                        !.consecutiveSuccesses = 0] \in BreakerType
  BY DEF BreakerType

\* Counting a result keeps the types.
LEMMA CountType ==
    ASSUME NEW x \in BreakerType
    PROVE  CountSuccess(x) \in BreakerType /\ CountFailure(x) \in BreakerType
<1>1. /\ x.successCount + 1 \in Nat /\ x.consecutiveSuccesses + 1 \in Nat
      /\ x.failureCount + 1 \in Nat /\ x.consecutiveFailures + 1 \in Nat
  BY DEF BreakerType
<1>2. QED
  BY <1>1, SetCounters, Zenon DEF CountSuccess, CountFailure

\* onSuccess and onFailure keep the types.
LEMMA ResultType ==
    ASSUME NEW x \in BreakerType, config \in ConfigType
    PROVE  OnSuccess(x) \in BreakerType /\ OnFailure(x) \in BreakerType
<1>1. CountSuccess(x) \in BreakerType /\ CountFailure(x) \in BreakerType
  BY CountType
<1>2. QED
  BY <1>1, TransitionToType DEF OnSuccess, OnFailure

\* A breaker as built.
LEMMA FreshType ==
    ASSUME NEW state \in {CLOSED, OPEN, HALF_OPEN}, NEW n \in Nat
    PROVE  Fresh(state) \in BreakerType /\ [Fresh(state) EXCEPT !.cooldown = n] \in BreakerType
  BY DEF Fresh, BreakerType

LEMMA TypeInit == Init => TypeOK
<1>1. Fresh(CLOSED) \in BreakerType
  BY FreshType
<1>2. 0 \in 0..MaxCalls /\ 0 \in Nat
  BY BreakerAssumption
<1>3. QED
  BY <1>1, <1>2, Zenon DEF Init, TypeOK

LEMMA TypeStep == TypeOK /\ [Next]_vars => TypeOK'
<1> SUFFICES ASSUME TypeOK, [Next]_vars PROVE TypeOK'
  OBVIOUS
<1>0. config \in ConfigType /\ b \in BreakerType /\ MaxCalls \in Nat
  BY BreakerAssumption DEF TypeOK
<1>1. ASSUME NEW c \in Callers, Execute(c) PROVE TypeOK'
  BY <1>0, <1>1 DEF TypeOK, Execute, Starts
<1>2. ASSUME NEW c \in Callers, ExecuteProbe(c) PROVE TypeOK'
  <2>1. b' \in BreakerType
    BY <1>0, <1>2, TransitionToType DEF ExecuteProbe
  <2>2. calls' \in 0..MaxCalls
    BY <1>0, <1>2 DEF TypeOK, ExecuteProbe, Starts
  <2>3. op' \in [Callers -> BOOLEAN]
    BY <1>2 DEF TypeOK, ExecuteProbe
  <2>4. QED
    BY <1>2, <2>1, <2>2, <2>3 DEF TypeOK, ExecuteProbe
<1>3. ASSUME NEW c \in Callers, NEW x \in BreakerType, Settles(c, x)
      PROVE  /\ config' \in Configs /\ b' \in BreakerType /\ op' \in [Callers -> BOOLEAN]
             /\ calls' \in 0..MaxCalls /\ byHand' \in BOOLEAN
  BY <1>0, <1>3 DEF TypeOK, Settles
<1>4. ASSUME NEW c \in Callers, Resolve(c) PROVE TypeOK'
  <2>1. OnSuccess(b) \in BreakerType
    BY <1>0, ResultType
  <2>2. earned' \in Nat
    BY <1>4 DEF Resolve, TypeOK
  <2>3. QED
    BY <1>3, <1>4, <2>1, <2>2 DEF TypeOK, Resolve
<1>5. ASSUME NEW c \in Callers, Reject(c) PROVE TypeOK'
  <2>1. OnFailure(b) \in BreakerType
    BY <1>0, ResultType
  <2>2. QED
    BY <1>3, <1>5, <2>1 DEF TypeOK, Reject
<1>6. ASSUME NEW c \in Callers, ResolveThrows(c) PROVE TypeOK'
  <2>1. OnFailure(OnSuccess(b)) \in BreakerType
    BY <1>0, ResultType
  <2>2. earned' \in Nat
    BY <1>6 DEF ResolveThrows, TypeOK
  <2>3. QED
    BY <1>3, <1>6, <2>1, <2>2 DEF TypeOK, ResolveThrows
<1>7. CASE Open
  BY <1>0, <1>7, TransitionToType DEF TypeOK, Open
<1>8. CASE Close
  BY <1>0, <1>8, TransitionToType DEF TypeOK, Close
<1>9. CASE Reset
  <2>1. b.state \in {CLOSED, OPEN, HALF_OPEN} /\ b.cooldown \in Nat
    BY <1>0 DEF BreakerType
  <2>2. QED
    BY <1>0, <1>9, <2>1, FreshType, TransitionToType DEF TypeOK, Reset
<1>10. CASE Tick
  <2>1. b' \in BreakerType
    BY <1>0, <1>10 DEF Tick, BreakerType
  <2>2. QED
    BY <1>10, <2>1 DEF TypeOK, Tick
<1>11. CASE UNCHANGED vars
  BY <1>11 DEF TypeOK, vars
<1>12. QED
  BY <1>1, <1>2, <1>4, <1>5, <1>6, <1>7, <1>8, <1>9, <1>10, <1>11 DEF Next

\* The types hold in every reachable state.
THEOREM TypeCorrect == Spec => []TypeOK
<1>1. QED
  BY TypeInit, TypeStep, PTL DEF Spec

(***************************************************************************)
(* The statistics.  TripsInTime and StatsCoherent are inductive together   *)
(* with the types: each result is counted first and only then looked at,   *)
(* so it is enough to follow the counters through count and transition.    *)
(***************************************************************************)

\* The part of StatsCoherent about one breaker record.
Coherent(x) ==
    /\ x.reported = x.state
    /\ x.consecutiveSuccesses = 0 \/ x.consecutiveFailures = 0
    /\ x.consecutiveSuccesses <= x.successCount
    /\ x.consecutiveFailures <= x.failureCount

LEMMA SuccessFields ==
    ASSUME NEW x \in BreakerType
    PROVE  /\ CountSuccess(x).successCount = x.successCount + 1
           /\ CountSuccess(x).failureCount = x.failureCount
           /\ CountSuccess(x).consecutiveSuccesses = x.consecutiveSuccesses + 1
           /\ CountSuccess(x).consecutiveFailures = 0
           /\ CountSuccess(x).state = x.state
           /\ CountSuccess(x).reported = x.reported
           /\ CountSuccess(x).cooldown = x.cooldown
  BY DEF CountSuccess, BreakerType

LEMMA FailureFields ==
    ASSUME NEW x \in BreakerType
    PROVE  /\ CountFailure(x).successCount = x.successCount
           /\ CountFailure(x).failureCount = x.failureCount + 1
           /\ CountFailure(x).consecutiveSuccesses = 0
           /\ CountFailure(x).consecutiveFailures = x.consecutiveFailures + 1
           /\ CountFailure(x).state = x.state
           /\ CountFailure(x).reported = x.reported
           /\ CountFailure(x).cooldown = x.cooldown
  BY DEF CountFailure, BreakerType

\* Applying a result keeps the statistics coherent.
LEMMA ResultCoherent ==
    ASSUME NEW x \in BreakerType, config \in ConfigType, Coherent(x)
    PROVE  Coherent(OnSuccess(x)) /\ Coherent(OnFailure(x))
<1>0. /\ x.successCount \in Nat /\ x.failureCount \in Nat
      /\ x.consecutiveSuccesses \in Nat /\ x.consecutiveFailures \in Nat
  BY DEF BreakerType
<1>1. Coherent(CountSuccess(x)) /\ Coherent(CountFailure(x))
  BY <1>0, SuccessFields, FailureFields DEF Coherent
<1>2. ASSUME NEW y \in BreakerType, Coherent(y), NEW new \in {CLOSED, OPEN, HALF_OPEN}
      PROVE  Coherent(TransitionTo(y, new))
  BY <1>2, TransitionToType DEF Coherent
<1>3. CountSuccess(x) \in BreakerType /\ CountFailure(x) \in BreakerType
  BY CountType
<1>4. QED
  BY <1>1, <1>2, <1>3 DEF OnSuccess, OnFailure

\* After a success there is no failure in a row; after a failure that left the
\* breaker closed there are fewer than the threshold.
LEMMA ResultTrips ==
    ASSUME NEW x \in BreakerType, config \in ConfigType
    PROVE  /\ OnSuccess(x).consecutiveFailures = 0
           /\ (OnFailure(x).state = CLOSED /\ ~config.percentageMode)
                => OnFailure(x).consecutiveFailures < config.failureThreshold
<1>1. CountSuccess(x) \in BreakerType /\ CountFailure(x) \in BreakerType
  BY CountType
<1>2. OnSuccess(x).consecutiveFailures = 0
  BY <1>1, SuccessFields, TransitionToType DEF OnSuccess
<1>3. TransitionTo(CountFailure(x), OPEN).state = OPEN
  BY <1>1, TransitionToType
<1>4. ASSUME OnFailure(x).state = CLOSED, ~config.percentageMode
      PROVE  OnFailure(x).consecutiveFailures < config.failureThreshold
  <2>1. OnFailure(x) = CountFailure(x) /\ ~ShouldOpen(CountFailure(x))
    BY <1>3, <1>4 DEF OnFailure
  <2>2. CountFailure(x).consecutiveFailures \in Nat /\ config.failureThreshold \in Nat
    BY <1>1 DEF BreakerType, ConfigType
  <2>3. QED
    BY <1>4, <2>1, <2>2 DEF ShouldOpen
<1>5. QED
  BY <1>2, <1>4

IInv == TypeOK /\ StatsCoherent /\ TripsInTime

LEMMA IInvInit == Init => IInv
<1>1. ASSUME Init PROVE StatsCoherent /\ TripsInTime
  <2>1. b = Fresh(CLOSED) /\ config \in ConfigType
    BY <1>1, BreakerAssumption DEF Init
  <2>2. QED
    BY <2>1 DEF Fresh, StatsCoherent, TripsInTime, ConfigType
<1>2. QED
  BY <1>1, TypeInit DEF IInv

LEMMA IInvStep == IInv /\ [Next]_vars => IInv'
<1> SUFFICES ASSUME IInv, [Next]_vars PROVE StatsCoherent' /\ TripsInTime'
  BY TypeStep DEF IInv
<1>0. /\ config \in ConfigType /\ b \in BreakerType /\ Coherent(b) /\ TripsInTime
      /\ b.state \in {CLOSED, OPEN, HALF_OPEN}
  BY BreakerAssumption DEF IInv, TypeOK, StatsCoherent, Coherent, BreakerType
<1>1. ASSUME NEW x \in BreakerType, Coherent(x), b' = x, config' = config,
             (x.state = CLOSED /\ ~byHand' /\ ~config.percentageMode
                /\ config.failureThreshold > 0)
               => x.consecutiveFailures < config.failureThreshold
      PROVE  StatsCoherent' /\ TripsInTime'
  BY <1>1 DEF StatsCoherent, TripsInTime, Coherent
<1>2. ASSUME NEW new \in {CLOSED, OPEN, HALF_OPEN}, new = CLOSED => byHand',
             b' = TransitionTo(b, new), config' = config
      PROVE  StatsCoherent' /\ TripsInTime'
  <2>1. TransitionTo(b, new) \in BreakerType /\ TransitionTo(b, new).state = new
        /\ Coherent(TransitionTo(b, new))
    BY <1>0, TransitionToType DEF Coherent
  <2>2. QED
    BY <1>1, <1>2, <2>1
<1>3. ASSUME NEW c \in Callers, Execute(c) PROVE StatsCoherent' /\ TripsInTime'
  BY <1>0, <1>1, <1>3 DEF Execute, TripsInTime
<1>4. ASSUME NEW c \in Callers, ExecuteProbe(c) PROVE StatsCoherent' /\ TripsInTime'
  BY <1>2, <1>4 DEF ExecuteProbe
<1>5. ASSUME NEW c \in Callers, Resolve(c) PROVE StatsCoherent' /\ TripsInTime'
  <2>1. OnSuccess(b) \in BreakerType /\ Coherent(OnSuccess(b))
        /\ OnSuccess(b).consecutiveFailures = 0
    BY <1>0, ResultType, ResultCoherent, ResultTrips
  <2>2. config.failureThreshold \in Nat
    BY <1>0 DEF ConfigType
  <2>3. QED
    BY <1>1, <1>5, <2>1, <2>2 DEF Resolve, Settles
<1>6. ASSUME NEW c \in Callers, NEW x \in BreakerType, Coherent(x), Settles(c, OnFailure(x))
      PROVE  StatsCoherent' /\ TripsInTime'
  <2>1. OnFailure(x) \in BreakerType /\ Coherent(OnFailure(x))
        /\ ((OnFailure(x).state = CLOSED /\ ~config.percentageMode)
              => OnFailure(x).consecutiveFailures < config.failureThreshold)
    BY <1>0, <1>6, ResultType, ResultCoherent, ResultTrips
  <2>2. QED
    BY <1>1, <1>6, <2>1 DEF Settles
<1>7. ASSUME NEW c \in Callers, Reject(c) PROVE StatsCoherent' /\ TripsInTime'
  BY <1>0, <1>6, <1>7 DEF Reject
<1>8. ASSUME NEW c \in Callers, ResolveThrows(c) PROVE StatsCoherent' /\ TripsInTime'
  <2>1. OnSuccess(b) \in BreakerType /\ Coherent(OnSuccess(b))
    BY <1>0, ResultType, ResultCoherent
  <2>2. QED
    BY <1>6, <1>8, <2>1 DEF ResolveThrows
<1>9. CASE Open
  BY <1>2, <1>9 DEF Open
<1>10. CASE Close
  BY <1>2, <1>10 DEF Close
<1>11. CASE Reset
  <2> DEFINE x == [Fresh(b.state) EXCEPT !.cooldown = b.cooldown]
  <2>1. x \in BreakerType
    <3>1. b.cooldown \in Nat
      BY <1>0 DEF BreakerType
    <3>2. QED
      BY <1>0, <3>1, FreshType
  <2>2. x.reported = CLOSED /\ x.state = b.state /\ x.successCount = 0 /\ x.failureCount = 0
        /\ x.consecutiveSuccesses = 0 /\ x.consecutiveFailures = 0
    BY DEF Fresh
  <2> HIDE DEF x
  <2>3. TransitionTo(x, CLOSED).reported = CLOSED
    BY <2>1, <2>2 DEF TransitionTo, BreakerType
  <2>4. TransitionTo(x, CLOSED) \in BreakerType /\ Coherent(TransitionTo(x, CLOSED))
        /\ TransitionTo(x, CLOSED).consecutiveFailures = 0
    BY <1>0, <2>1, <2>2, <2>3, TransitionToType DEF Coherent
  <2>5. config.failureThreshold \in Nat
    BY <1>0 DEF ConfigType
  <2>6. QED
    BY <1>1, <1>11, <2>4, <2>5 DEF Reset, x
<1>12. CASE Tick
  <2> DEFINE x == [b EXCEPT !.cooldown = b.cooldown - 1]
  <2>1. x \in BreakerType
    BY <1>0, <1>12 DEF Tick, BreakerType
  <2>2. x.state = b.state /\ x.consecutiveFailures = b.consecutiveFailures /\ Coherent(x)
    BY <1>0 DEF Coherent, BreakerType
  <2> HIDE DEF x
  <2>3. b' = x /\ config' = config /\ byHand' = byHand
    BY <1>12 DEF Tick, x
  <2>4. QED
    BY <1>0, <1>1, <2>1, <2>2, <2>3 DEF TripsInTime
<1>13. CASE UNCHANGED vars
  BY <1>0, <1>1, <1>13 DEF vars, TripsInTime
<1>14. QED
  BY <1>3, <1>4, <1>5, <1>7, <1>8, <1>9, <1>10, <1>11, <1>12, <1>13 DEF Next

\* Counting mode trips before failureThreshold failures in a row, for every
\* threshold, number of callers and order of results.
THEOREM TripsInTimeAlways == Spec => []TripsInTime
<1>1. IInv => TripsInTime
  BY DEF IInv
<1>2. QED
  BY <1>1, IInvInit, IInvStep, PTL DEF Spec

\* The statistics never contradict each other or the state.
THEOREM StatsCoherentAlways == Spec => []StatsCoherent
<1>1. IInv => StatsCoherent
  BY DEF IInv
<1>2. QED
  BY <1>1, IInvInit, IInvStep, PTL DEF Spec

(***************************************************************************)
(* The refinement.  A step of the breaker is one step of the gate, or none *)
(* at all; only the types are needed.                                      *)
(***************************************************************************)
Inside == {c \in Callers : op[c]}

Timeouts == {cf.timeout : cf \in Configs}

\* transitionTo, seen from outside.
LEMMA TransitionMoves ==
    ASSUME TypeOK, NEW x \in BreakerType, NEW new \in {CLOSED, OPEN, HALF_OPEN}
    PROVE  /\ TransitionTo(x, new).state = new
           /\ x.state # OPEN /\ new = OPEN => TransitionTo(x, new).cooldown \in Timeouts
           /\ x.state = OPEN \/ new # OPEN => TransitionTo(x, new).cooldown = x.cooldown
  BY TransitionToType, BreakerAssumption DEF TypeOK, Timeouts

\* A result moves the breaker the way a gate lets it.
Moves(x, y) ==
    \/ y.state = x.state /\ y.cooldown = x.cooldown
    \/ x.state # OPEN /\ y.state = OPEN /\ y.cooldown \in Timeouts
    \/ x.state = HALF_OPEN /\ y.state = CLOSED /\ y.cooldown = x.cooldown

LEMMA ResultMoves ==
    ASSUME TypeOK, NEW x \in BreakerType
    PROVE  Moves(x, OnSuccess(x)) /\ Moves(x, OnFailure(x))
<1>1. /\ CountSuccess(x) \in BreakerType /\ CountFailure(x) \in BreakerType
      /\ CountSuccess(x).state = x.state /\ CountSuccess(x).cooldown = x.cooldown
      /\ CountFailure(x).state = x.state /\ CountFailure(x).cooldown = x.cooldown
      /\ x.state \in {CLOSED, OPEN, HALF_OPEN}
  BY CountType, SuccessFields, FailureFields DEF BreakerType
<1>2. Moves(x, OnSuccess(x))
  BY <1>1, TransitionMoves DEF Moves, OnSuccess
<1>3. Moves(x, OnFailure(x))
  BY <1>1, TransitionMoves DEF Moves, OnFailure
<1>4. QED
  BY <1>2, <1>3

LEMMA GateInit == Init => Promise!Init
  BY DEF Init, Promise!Init, Fresh

LEMMA GateStep == TypeOK /\ [Next]_vars => [Promise!Next]_Promise!vars
<1> SUFFICES ASSUME TypeOK, [Next]_vars PROVE Promise!Next \/ UNCHANGED Promise!vars
  OBVIOUS
<1> USE DEF Inside, Timeouts
<1>0. b \in BreakerType /\ b.state \in {CLOSED, OPEN, HALF_OPEN} /\ op \in [Callers -> BOOLEAN]
  BY DEF TypeOK, BreakerType
<1>1. ASSUME NEW c \in Callers, op' = [op EXCEPT ![c] = TRUE]
      PROVE  Inside' = Inside \union {c}
  BY <1>0, <1>1
<1>2. ASSUME NEW c \in Callers, op[c], op' = [op EXCEPT ![c] = FALSE]
      PROVE  c \in Inside /\ Inside' = Inside \ {c}
  BY <1>0, <1>2
<1>3. ASSUME NEW c \in Callers, Execute(c) PROVE Promise!Next
  <2>1. Promise!Enter(c)
    BY <1>1, <1>3 DEF Execute, Promise!Enter, Promise!Keeps
  <2>2. QED
    BY <2>1 DEF Promise!Next
<1>4. ASSUME NEW c \in Callers, ExecuteProbe(c) PROVE Promise!Next
  <2>1. Promise!Probe(c)
    BY <1>0, <1>1, <1>4, TransitionMoves DEF ExecuteProbe, Promise!Probe
  <2>2. QED
    BY <2>1 DEF Promise!Next
<1>5. ASSUME NEW c \in Callers, NEW x \in BreakerType, Moves(b, x), Settles(c, x)
      PROVE  Promise!Next
  <2>1. Promise!Leave(c)
    BY <1>2, <1>5 DEF Settles, Moves, Promise!Leave, Promise!Keeps, Promise!Opens
  <2>2. QED
    BY <2>1 DEF Promise!Next
<1>6. ASSUME NEW c \in Callers, Resolve(c) \/ Reject(c) PROVE Promise!Next
  <2>1. config \in ConfigType
    BY BreakerAssumption DEF TypeOK
  <2>2. QED
    BY <1>0, <1>5, <1>6, <2>1, ResultType, ResultMoves DEF Resolve, Reject
<1>7. ASSUME NEW c \in Callers, ResolveThrows(c) PROVE Promise!Next
  <2>1. config \in ConfigType /\ OnSuccess(b) \in BreakerType
    BY <1>0, BreakerAssumption, ResultType DEF TypeOK
  <2>2. OnSuccess(b).state = CLOSED /\ b.state = HALF_OPEN
    <3>1. OnSuccess(b).state # b.state
      BY <1>7 DEF ResolveThrows
    <3>2. QED
      BY <1>0, <2>1, <3>1, CountType, SuccessFields, TransitionToType DEF OnSuccess
  <2>3. Moves(b, OnFailure(OnSuccess(b)))
    BY <1>0, <2>1, <2>2, ResultMoves DEF Moves
  <2>4. QED
    BY <1>5, <1>7, <2>1, <2>3, ResultType DEF ResolveThrows
<1>8. CASE Open \/ Close \/ Reset
  <2>1. PICK x \in BreakerType, new \in {CLOSED, OPEN} :
          x.state = b.state /\ x.cooldown = b.cooldown /\ b' = TransitionTo(x, new)
    <3>1. CASE Open \/ Close
      BY <1>0, <3>1 DEF Open, Close
    <3>2. CASE Reset
      <4>1. b.cooldown \in Nat
        BY <1>0 DEF BreakerType
      <4>2. [Fresh(b.state) EXCEPT !.cooldown = b.cooldown] \in BreakerType
        BY <1>0, <4>1, FreshType
      <4>3. QED
        BY <3>2, <4>2 DEF Reset, Fresh
    <3>3. QED
      BY <1>8, <3>1, <3>2
  <2>2. op' = op
    BY <1>8 DEF Open, Close, Reset
  <2>3. Promise!ByHand \/ UNCHANGED Promise!vars
    BY <1>0, <2>1, <2>2, TransitionMoves
       DEF Promise!ByHand, Promise!Opens, Promise!vars
  <2>4. QED
    BY <2>3 DEF Promise!Next
<1>9. CASE Tick
  <2>1. Promise!Tick
    BY <1>0, <1>9 DEF Tick, Promise!Tick, BreakerType
  <2>2. QED
    BY <2>1 DEF Promise!Next
<1>10. CASE UNCHANGED vars
  BY <1>10 DEF vars, Promise!vars
<1>11. QED
  BY <1>3, <1>4, <1>6, <1>7, <1>8, <1>9, <1>10 DEF Next

\* The breaker implements the gate: late results, probes, manual operation and
\* observers that throw included.
THEOREM BreakerIsAGate == Spec => IsAGate
<1>1. QED
  BY TypeInit, TypeStep, GateInit, GateStep, PTL DEF Spec, IsAGate, Promise!Spec
=============================================================================
