------------------------------ MODULE Patterns ------------------------------
(***************************************************************************)
(* How the pattern of an access control entry is matched with the name of  *)
(* a queue, in src/src/infrastructure/services/access-control.manager.ts,  *)
(* against what a pattern means.                                           *)
(***************************************************************************)
EXTENDS Integers, SequencesExt

CONSTANTS
    Letters,    \* of queue names
    MaxLength   \* bound: of names and patterns

Star == "*"

\* Of the constants; the models that give them values assume it.
PatternsAssumption == Star \notin Letters /\ MaxLength \in Nat

VARIABLE question \* a queue name and a pattern

QueueNames == UNION {[1..n -> Letters] : n \in 0..MaxLength}

QueuePatterns == UNION {[1..n -> Letters \union {Star}] : n \in 0..MaxLength}

\* Any name is asked about with any pattern; an answer changes nothing.
PatternsInit == question \in QueueNames \X QueuePatterns

PatternsSpec == PatternsInit /\ [][FALSE]_question

\* pattern.split('*'), the empty parts left out: a part is known by where it ends.
PartEnds(pattern) ==
    {j \in 1..Len(pattern) : pattern[j] # Star /\ (j = Len(pattern) \/ pattern[j + 1] = Star)}

PartStart(pattern, j) == Max({i \in 1..j : i = 1 \/ pattern[i - 1] = Star})

Part(pattern, j) == SubSeq(pattern, PartStart(pattern, j), j)

\* The part is found in the value after the first i letters of it.
Occurs(value, part, i) ==
    i \in 0..(Len(value) - Len(part)) /\ \A k \in 1..Len(part) : value[i + k] = part[k]

StartsWith(value, part) == Occurs(value, part, 0)

EndsWith(value, part) == Occurs(value, part, Len(value) - Len(part))

\* value.indexOf(part, position) + part.length, or -1.
After(value, part, position) ==
    LET hits == {i \in position..Len(value) : Occurs(value, part, i)}
    IN  IF position = -1 \/ hits = {} THEN -1 ELSE Min(hits) + Len(part)

\* Where the search is after the parts that end among the first j letters of the pattern.
Position(value, pattern) ==
    LET position[j \in Nat] ==
            IF j = 0 THEN 0
            ELSE IF j \in PartEnds(pattern) THEN After(value, Part(pattern, j), position[j - 1])
            ELSE position[j - 1]
    IN  position

\* A mutant that looks for every part from the start.
Mutant_NoPosition(value, pattern) ==
    \A j \in PartEnds(pattern) : After(value, Part(pattern, j), 0) # -1

\* The parts follow one another.
InOrder(value, pattern) == Position(value, pattern)[Len(pattern)] # -1

MatchesWildcardPattern(value, pattern) ==
    LET ends == PartEnds(pattern)
    IN  IF \A j \in 1..Len(pattern) : pattern[j] # Star THEN value = pattern
        ELSE ends = {} \/ /\ InOrder(value, pattern)
                          /\ pattern[1] = Star \/ StartsWith(value, Part(pattern, Min(ends)))
                          /\ pattern[Len(pattern)] = Star \/ EndsWith(value, Part(pattern, Max(ends)))

MatchesPattern(queueName, pattern) ==
    pattern = <<Star>> \/ pattern = queueName \/ MatchesWildcardPattern(queueName, pattern)

-----------------------------------------------------------------------------
\* What a pattern means: it can be laid along the whole name, a star on any stretch of
\* it and a letter on itself (reach[j], the letters its first j elements lie on).
Lies(value, pattern, reach) ==
    /\ reach[0] = 0 /\ reach[Len(pattern)] = Len(value)
    /\ \A j \in 1..Len(pattern) :
          IF pattern[j] = Star THEN reach[j - 1] <= reach[j]
          ELSE reach[j] = reach[j - 1] + 1 /\ value[reach[j]] = pattern[j]

Means(value, pattern) ==
    \E reach \in [0..Len(pattern) -> 0..Len(value)] : Lies(value, pattern, reach)

\* The search for one part after the other decides every pattern (:408-450), with
\* parts that overlap or occur several times in the name.
PatternsMatch == MatchesPattern(question[1], question[2]) <=> Means(question[1], question[2])
=============================================================================
