-------------------------- MODULE MCCircuitBreaker --------------------------
(* Instances of CircuitBreaker for TLC. *)
EXTENDS CircuitBreaker

CONSTANTS c1, c2, c3

\* Two failures in a row, or half of at least two requests.
MCConfigs ==
    {[percentageMode |-> FALSE, failureThreshold |-> 2, minRequests |-> 5,
      successThreshold |-> 2, timeout |-> 2],
     [percentageMode |-> TRUE, failureThreshold |-> 50, minRequests |-> 2,
      successThreshold |-> 1, timeout |-> 1]}
=============================================================================
