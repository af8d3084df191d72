-------------------------------- MODULE Gate --------------------------------
(***************************************************************************)
(* What a circuit breaker promises, with no counters: when calls are let   *)
(* through, and which way each event may move the state.                   *)
(***************************************************************************)
EXTENDS Naturals

CONSTANTS Callers, Timeouts

VARIABLES gate,      \* "closed", "open" or "half-open"
          cooldown,  \* time left before a call is let through an open gate
          inside     \* callers whose operation runs

vars == <<gate, cooldown, inside>>

TypeOK ==
    /\ gate \in {"closed", "open", "half-open"}
    /\ cooldown \in Nat
    /\ inside \subseteq Callers

Init == gate = "closed" /\ cooldown = 0 /\ inside = {}

\* Opening starts a full cooldown; nothing else touches it but time.
Opens == gate' = "open" /\ cooldown' \in Timeouts

Keeps == UNCHANGED <<gate, cooldown>>

\* A call enters a gate that is not open.
Enter(c) == gate # "open" /\ inside' = inside \union {c} /\ Keeps

\* The first call after the cooldown makes the gate half-open, and enters, unless
\* telling the observer about it throws.
Probe(c) ==
    /\ gate = "open" /\ cooldown = 0
    /\ gate' = "half-open"
    /\ inside' \in {inside, inside \union {c}}
    /\ UNCHANGED cooldown

\* Results: a closed gate can open, a half-open one can go either way, and an open
\* one ignores whatever comes in late.
Leave(c) ==
    /\ c \in inside /\ inside' = inside \ {c}
    /\ \/ Keeps
       \/ gate # "open" /\ Opens
       \/ gate = "half-open" /\ gate' = "closed" /\ UNCHANGED cooldown

\* An operator moves the gate by hand.  Opening an open gate does not prolong it.
ByHand ==
    /\ UNCHANGED inside
    /\ \/ gate # "open" /\ Opens
       \/ gate' = "closed" /\ UNCHANGED cooldown

Tick == cooldown > 0 /\ cooldown' = cooldown - 1 /\ UNCHANGED <<gate, inside>>

Next ==
    \/ \E c \in Callers : Enter(c) \/ Probe(c) \/ Leave(c)
    \/ ByHand \/ Tick

Spec == Init /\ [][Next]_vars
=============================================================================
