---------------------------- MODULE RetryConfig ----------------------------
(***************************************************************************)
(* From a retry configuration to the delays of the retries: the            *)
(* QueueConfigurationLoader and QueueConfigurationValidator of             *)
(* src/src/infrastructure/config, and the strategies of                    *)
(* src/src/core/services/retry.                                            *)
(***************************************************************************)
EXTENDS Integers

CONSTANTS
    Attempts,  \* values of maxAttempts, numbers below 1 included
    Delays,    \* values of backoffDelay and maxBackoffDelay, in ms, negative ones included
    Shares,    \* how much of a delay the jitter can be, in percent
    Tries,     \* attempts made when a delay is asked for
    NaN,       \* what parseInt makes of what is no number
    Undefined

\* Of the constants; the models that give them values assume it.  From 1024 on, 2**attempt
\* is Infinity, and Infinity times a delay of 0 is no number; below, the floating-point
\* products are exact up to the cap, and so are these.
RetryAssumption ==
    Attempts \subseteq Int /\ Delays \subseteq Int /\ Shares \subseteq 0..100 /\ Tries \subseteq 0..1022

VARIABLE retry \* the configuration being loaded

\* Comparisons with the others are false.
Number(v) == v \notin {NaN, Undefined}

Settings == {"maxAttempts", "backoffType", "backoffDelay", "maxBackoffDelay"}

Types == {"exponential", "fixed", "linear"}

Configs == [maxAttempts : Attempts \union {NaN}, backoffType : Types,
            backoffDelay : Delays \union {NaN}, maxBackoffDelay : Delays \union {NaN}]

DefaultConfig == [maxAttempts |-> 3, backoffType |-> "exponential",
                  backoffDelay |-> 1000, maxBackoffDelay |-> 60000]

RetryInit == retry = DefaultConfig

\* What a program may pass: some of the settings.
Patches == UNION {{[f \in fields |-> c[f]] : c \in Configs} : fields \in SUBSET Settings}

\* { ...target.retry, ...source.retry }
MergeConfigs(target, source) == [f \in Settings |-> IF f \in DOMAIN source THEN source[f] ELSE target[f]]

\* The variables of the environment: none, or all four settings, the cap undefined unless
\* it is set.
FromEnvironment(env) ==
    IF DOMAIN env = {} THEN env
    ELSE [f \in Settings |-> IF f \in DOMAIN env THEN env[f]
                             ELSE IF f = "maxBackoffDelay" THEN Undefined ELSE DefaultConfig[f]]

\* A program passes settings of its own, or those of the environment.
LoadConfiguration ==
    /\ retry = DefaultConfig
    /\ \E patch \in Patches :
          \E source \in {patch, FromEnvironment(patch)} : retry' = MergeConfigs(retry, source)

RetrySpec == RetryInit /\ [][LoadConfiguration]_retry

\* A mutant that does not compare the delay with its cap.
Mutant_AnyCap(c) ==
    /\ ~(Number(c.maxAttempts) /\ c.maxAttempts <= 0)
    /\ ~(Number(c.backoffDelay) /\ c.backoffDelay < 0)
    /\ ~(Number(c.maxBackoffDelay) /\ c.maxBackoffDelay < 0)
    /\ c.backoffType \in {"exponential", "fixed"}

\* validateRetryConfig.
Valid(c) ==
    /\ ~(Number(c.maxAttempts) /\ c.maxAttempts <= 0)
    /\ ~(Number(c.backoffDelay) /\ c.backoffDelay < 0)
    /\ ~(Number(c.maxBackoffDelay) /\ c.maxBackoffDelay < 0)
    /\ ~(Number(c.backoffDelay) /\ Number(c.maxBackoffDelay) /\ c.backoffDelay > c.maxBackoffDelay)
    /\ c.backoffType \in {"exponential", "fixed"}

Cap(c) == IF c.maxBackoffDelay = Undefined THEN 60000 ELSE c.maxBackoffDelay

Capped(delay, c) == IF delay < Cap(c) THEN delay ELSE Cap(c)

\* 2**attempt
PowerOfTwo[n \in Nat] == IF n = 0 THEN 1 ELSE 2 * PowerOfTwo[n - 1]

Exponential(attempt, c) == c.backoffDelay * PowerOfTwo[attempt]

\* The three strategies; the jitter is random, in ms.
CalculateDelay(attempt, c) == Capped(Exponential(attempt, c), c)

LinearDelay(attempt, c) == Capped(c.backoffDelay * (1 + attempt), c)

JitterDelay(attempt, c, jitter) == Capped(Exponential(attempt, c) + jitter, c)

Jitters(attempt, c) == {(Exponential(attempt, c) * share) \div 100 : share \in Shares}

ShouldRetry(attempt, c) == Number(c.maxAttempts) /\ attempt < c.maxAttempts

CanRetry(attempt, c) == ShouldRetry(attempt, c)

GetRemainingAttempts(attempt, c) == IF c.maxAttempts < attempt THEN 0 ELSE c.maxAttempts - attempt

-----------------------------------------------------------------------------
\* A configuration of numbers that is accepted (queue-configuration-loader.ts:26-46,
\* 132-154, validator :114-179) retries a job that failed once, and a later retry never
\* waits less than an earlier one, nor less than asked for, nor more than the cap,
\* whatever the strategy and the jitter (retry-strategies :22-60).
RetriesBackOff ==
    LET c == retry
    IN  Valid(c) /\ Number(c.maxAttempts) /\ Number(c.backoffDelay) /\ c.maxBackoffDelay # NaN =>
            /\ ShouldRetry(0, c)
            /\ \A attempt \in Tries :
                  /\ ShouldRetry(attempt, c) <=> GetRemainingAttempts(attempt, c) > 0
                  /\ LinearDelay(attempt, c) \in 0..LinearDelay(attempt + 1, c)
                  /\ \A j \in Jitters(attempt, c), k \in Jitters(attempt + 1, c) :
                        JitterDelay(attempt, c, j)
                            \in CalculateDelay(attempt, c)..JitterDelay(attempt + 1, c, k)
                  /\ Number(c.maxBackoffDelay) =>
                        CalculateDelay(attempt, c) \in c.backoffDelay..c.maxBackoffDelay
=============================================================================
