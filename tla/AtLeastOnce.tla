---------------------------- MODULE AtLeastOnce ----------------------------
(***************************************************************************)
(* What a job queue with a dead letter queue promises its callers, with    *)
(* nothing said of ids, attempts, locks or commands: a payload that was    *)
(* accepted is held somewhere until it has been processed or someone gave  *)
(* it up on purpose.  It may come back after that (delivery is at least    *)
(* once), it may not vanish before.                                        *)
(***************************************************************************)
EXTENDS Naturals

CONSTANT Payloads

VARIABLES accepted,   \* payloads a caller was told are in the queue
          settled,    \* processed once, or given up on purpose
          held        \* payloads some queue holds a copy of

vars == <<accepted, settled, held>>

TypeOK ==
    /\ accepted \subseteq Payloads
    /\ settled \subseteq accepted
    /\ held \subseteq accepted

Init == accepted = {} /\ settled = {} /\ held = {}

Accept(p) ==
    /\ p \notin accepted
    /\ accepted' = accepted \union {p}
    /\ held' = held \union {p}
    /\ UNCHANGED settled

\* A processor returned for p; copies of p may still be queued.
Process(p) ==
    /\ p \in accepted
    /\ settled' = settled \union {p}
    /\ UNCHANGED <<accepted, held>>

\* A caller removes queued copies of S: the last copies may go with it.
GiveUp(S) ==
    /\ S \subseteq held
    /\ settled' = settled \union S
    /\ \E T \in SUBSET S : held' = held \ T
    /\ UNCHANGED accepted

\* The last copies of settled payloads go.
Forget(S) ==
    /\ S \subseteq held \intersect settled
    /\ held' = held \ S
    /\ UNCHANGED <<accepted, settled>>

\* At least once: an attempt that outlived its job puts a copy back.
Return(p) ==
    /\ p \in settled
    /\ held' = held \union {p}
    /\ UNCHANGED <<accepted, settled>>

Next ==
    \/ \E p \in Payloads : Accept(p) \/ Process(p) \/ Return(p)
    \/ \E S \in SUBSET Payloads : GiveUp(S) \/ Forget(S)

Spec == Init /\ [][Next]_vars
=============================================================================
