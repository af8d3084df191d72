----------------------------- MODULE MCJobQueue -----------------------------
(* Instances of JobQueue for TLC. *)
EXTENDS JobQueue, TLC

CONSTANTS k1, k2, s1, s2, c1, c2

\* One attempt-less job that is deleted on failure (it must reach the DLQ first),
\* one that is retried once and kept.
MCJobOpts == {[attempts |-> 0, removeOnFail |-> TRUE, removeOnComplete |-> TRUE],
              [attempts |-> 2, removeOnFail |-> FALSE, removeOnComplete |-> FALSE]}

MCDefaultOpts == [attempts |-> 0, removeOnFail |-> TRUE, removeOnComplete |-> TRUE]

MCTwoAttempts == {[attempts |-> 2, removeOnFail |-> FALSE, removeOnComplete |-> TRUE]}

MCNoAttempts == {MCDefaultOpts}

MCOneOrTwo == MCTwoAttempts \union
              {[attempts |-> 0, removeOnFail |-> FALSE, removeOnComplete |-> TRUE]}

Symmetry == Permutations(Slots) \union Permutations(Clients)

SymmetryAll == Symmetry \union Permutations(Keys)
=============================================================================
