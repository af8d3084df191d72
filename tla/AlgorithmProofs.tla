--------------------------- MODULE AlgorithmProofs ---------------------------
(***************************************************************************)
(* Proofs about what two algorithms compute, for inputs of any size.  Both *)
(* are recursions, so the module begins with the induction they need: the  *)
(* least number of a set is what WellFoundedInduction gives.               *)
(***************************************************************************)
EXTENDS Patterns, RetryConfig, WellFoundedInduction, TLAPS

LEMMA Least ==
    ASSUME NEW S \in SUBSET Nat, S # {}
    PROVE  \E x \in S : \A y \in S : x <= y
<1> DEFINE R == OpToRel(<, Nat)
<1>1. IsWellFoundedOn(R, Nat)
  BY NatLessThanWellFounded
<1>2. \A x, y \in Nat : x < y => <<x, y>> \in R
  BY DEF OpToRel
<1> HIDE DEF R
<1>3. PICK x \in S : \A y \in S : <<y, x>> \notin R
  BY <1>1, WFMin
<1>4. \A y \in S : x \in Nat /\ y \in Nat /\ ~(y < x)
  BY <1>2, <1>3
<1>5. \A y \in S : x <= y
  BY <1>4
<1>6. QED
  BY <1>5

LEMMA Greatest ==
    ASSUME NEW n \in Nat, NEW S \in SUBSET (0..n), S # {}
    PROVE  \E x \in S : \A y \in S : y <= x
<1> DEFINE T == {n - x : x \in S}
<1>1. T \in SUBSET Nat /\ T # {}
  <2>1. ASSUME NEW x \in S PROVE n - x \in Nat
    OBVIOUS
  <2>2. QED
    BY <2>1
<1>2. PICK t \in T : \A u \in T : t <= u
  BY <1>1, Least
<1>3. PICK x \in S : t = n - x
  BY <1>2
<1>4. ASSUME NEW y \in S PROVE y <= x
  <2>1. n - y \in T
    OBVIOUS
  <2>2. n - x <= n - y
    BY <1>2, <1>3, <2>1
  <2>3. QED
    BY <2>2
<1>5. QED
  BY <1>4

LEMMA Induction ==
    ASSUME NEW S, 0 \in S, \A n \in Nat : n \in S => n + 1 \in S
    PROVE  Nat \subseteq S
<1> SUFFICES ASSUME Nat \ S # {} PROVE FALSE
  OBVIOUS
<1>1. PICK x \in Nat \ S : \A y \in Nat \ S : x <= y
  BY Least
<1>2. x # 0 /\ x - 1 \in Nat /\ x - 1 \notin Nat \ S
  BY <1>1
<1>3. QED
  BY <1>1, <1>2

-----------------------------------------------------------------------------
\* A recursion over the numbers that the function G steps.
Starts(f, v) == f[0] = v

Follows(f, G, m) == \A n \in 1..m : f[n] = G[n][f[n - 1]]

LEMMA Beginnings ==
    ASSUME NEW V, NEW v \in V, NEW G \in [Nat -> [V -> V]]
    PROVE  \A m \in Nat : \E g \in [Nat -> V] : Starts(g, v) /\ Follows(g, G, m)
<1> DEFINE S == {m \in Nat : \E g \in [Nat -> V] : Starts(g, v) /\ Follows(g, G, m)}
<1>1. 0 \in S
  <2>1. Starts([n \in Nat |-> v], v) /\ Follows([n \in Nat |-> v], G, 0)
    BY DEF Starts, Follows
  <2>2. [n \in Nat |-> v] \in [Nat -> V]
    OBVIOUS
  <2>3. QED
    BY <2>1, <2>2
<1>2. ASSUME NEW m \in Nat, m \in S PROVE m + 1 \in S
  <2>1. PICK g \in [Nat -> V] : Starts(g, v) /\ Follows(g, G, m)
    BY <1>2
  <2>2. G[m + 1][g[m]] \in V
    OBVIOUS
  <2> DEFINE h == [g EXCEPT ![m + 1] = G[m + 1][g[m]]]
  <2>3. h \in [Nat -> V] /\ h[m + 1] = G[m + 1][g[m]] /\ \A n \in 0..m : h[n] = g[n]
    BY <2>2
  <2> HIDE DEF h
  <2>4. Starts(h, v)
    BY <2>1, <2>3 DEF Starts
  <2>5. Follows(h, G, m + 1)
    <3>1. SUFFICES ASSUME NEW n \in 1..(m + 1) PROVE h[n] = G[n][h[n - 1]]
      BY DEF Follows
    <3>2. h[n - 1] = g[n - 1]
      BY <2>3
    <3>3. CASE n = m + 1
      BY <2>3, <3>2, <3>3
    <3>4. CASE n \in 1..m
      BY <2>1, <2>3, <3>2, <3>4 DEF Follows
    <3>5. QED
      BY <3>3, <3>4
  <2>6. m + 1 \in Nat /\ \E k \in [Nat -> V] : Starts(k, v) /\ Follows(k, G, m + 1)
    BY <2>3, <2>4, <2>5
  <2>7. QED
    BY <2>6
<1> HIDE DEF S
<1>3. Nat \subseteq S
  BY <1>1, <1>2, Induction
<1>4. QED
  BY <1>3 DEF S

\* A function is what its recursion says.
Computes(f, V, v, G) ==
    f \in [Nat -> V] /\ f = [n \in Nat |-> IF n = 0 THEN v ELSE G[n][f[n - 1]]]

LEMMA Recursion ==
    ASSUME NEW V, NEW v \in V, NEW G \in [Nat -> [V -> V]]
    PROVE  \E f : Computes(f, V, v, G)
<1> DEFINE Beginning(m) == CHOOSE g \in [Nat -> V] : Starts(g, v) /\ Follows(g, G, m)
           f == [m \in Nat |-> Beginning(m)[m]]
<1>1. \A m \in Nat : Beginning(m) \in [Nat -> V] /\ Starts(Beginning(m), v) /\ Follows(Beginning(m), G, m)
  BY Beginnings
<1> HIDE DEF Beginning
<1>2. f \in [Nat -> V] /\ \A m \in Nat : f[m] = Beginning(m)[m]
  BY <1>1
<1> HIDE DEF f
<1>3. f[0] = v
  BY <1>1, <1>2 DEF Starts
<1>4. ASSUME NEW n \in Nat \ {0} PROVE f[n] = G[n][f[n - 1]]
  <2>1. n \in 1..n /\ n - 1 \in Nat /\ n - 1 <= n /\ n \in Nat
    OBVIOUS
  <2>2. Beginning(n)[n] = G[n][Beginning(n)[n - 1]]
    BY <1>1, <2>1 DEF Follows
  <2>3. Beginning(n - 1)[n - 1] = Beginning(n)[n - 1]
    <3> DEFINE S == {m \in Nat : m < n => Beginning(n - 1)[m] = Beginning(n)[m]}
    <3>1. 0 \in S
      BY <1>1, <2>1 DEF Starts
    <3>2. ASSUME NEW m \in Nat, m \in S, m + 1 < n PROVE Beginning(n - 1)[m + 1] = Beginning(n)[m + 1]
      <4>1. m + 1 \in 1..(n - 1) /\ m + 1 \in 1..n /\ (m + 1) - 1 = m /\ m < n
        BY <3>2
      <4>2. Beginning(n - 1)[m] = Beginning(n)[m]
        BY <3>2, <4>1
      <4>3. Beginning(n - 1)[m + 1] = G[m + 1][Beginning(n - 1)[m]]
        BY <1>1, <2>1, <4>1 DEF Follows
      <4>4. Beginning(n)[m + 1] = G[m + 1][Beginning(n)[m]]
        BY <1>1, <2>1, <4>1 DEF Follows
      <4>5. QED
        BY <4>2, <4>3, <4>4
    <3>3. \A m \in Nat : m \in S => m + 1 \in S
      BY <3>2
    <3> HIDE DEF S
    <3>4. n - 1 \in S
      BY <2>1, <3>1, <3>3, Induction
    <3>5. QED
      BY <2>1, <3>4 DEF S
  <2>4. f[n] = Beginning(n)[n] /\ f[n - 1] = Beginning(n - 1)[n - 1]
    BY <1>2, <2>1
  <2>5. QED
    BY <2>2, <2>3, <2>4
<1>5. f = [n \in Nat |-> IF n = 0 THEN v ELSE G[n][f[n - 1]]]
  <2>1. \A n \in Nat : f[n] = IF n = 0 THEN v ELSE G[n][f[n - 1]]
    BY <1>3, <1>4
  <2>2. QED
    BY <1>2, <2>1
<1>6. QED
  BY <1>2, <1>5 DEF Computes

-----------------------------------------------------------------------------
(* 2**attempt *)

LEMMA PowerOfTwoIs ==
    /\ PowerOfTwo \in [Nat -> Nat]
    /\ PowerOfTwo = [n \in Nat |-> IF n = 0 THEN 1 ELSE 2 * PowerOfTwo[n - 1]]
<1> DEFINE G == [n \in Nat |-> [x \in Nat |-> 2 * x]]
           IsPower(f) == f = [n \in Nat |-> IF n = 0 THEN 1 ELSE 2 * f[n - 1]]
<1>1. G \in [Nat -> [Nat -> Nat]]
  OBVIOUS
<1>2. PICK f \in [Nat -> Nat] : f = [n \in Nat |-> IF n = 0 THEN 1 ELSE G[n][f[n - 1]]]
  <2> DEFINE V == Nat
             v == 1
  <2>1. v \in V /\ G \in [Nat -> [V -> V]]
    BY <1>1
  <2> HIDE DEF G, V, v
  <2>2. \E f : Computes(f, V, v, G)
    BY <2>1, Recursion
  <2>3. QED
    BY <2>2 DEF V, v, Computes
<1>3. IsPower(f)
  <2>1. ASSUME NEW n \in Nat, n # 0 PROVE G[n][f[n - 1]] = 2 * f[n - 1]
    BY <2>1
  <2>2. [n \in Nat |-> IF n = 0 THEN 1 ELSE G[n][f[n - 1]]]
          = [n \in Nat |-> IF n = 0 THEN 1 ELSE 2 * f[n - 1]]
    BY <2>1
  <2>3. QED
    BY <1>2, <2>2
<1>4. PowerOfTwo = CHOOSE g : IsPower(g)
  BY DEF PowerOfTwo
<1>5. IsPower(PowerOfTwo)
  <2> HIDE DEF IsPower
  <2>1. QED
    BY <1>3, <1>4
<1>6. PowerOfTwo = [n \in Nat |-> IF n = 0 THEN 1 ELSE 2 * PowerOfTwo[n - 1]]
  BY <1>5
<1>7. PowerOfTwo \in [Nat -> Nat]
  <2> DEFINE S == {n \in Nat : PowerOfTwo[n] \in Nat}
  <2>1. 0 \in S
    BY <1>6
  <2>2. ASSUME NEW n \in Nat, n \in S PROVE n + 1 \in S
    <3>1. n + 1 \in Nat /\ n + 1 # 0 /\ (n + 1) - 1 = n
      OBVIOUS
    <3>2. PowerOfTwo[n + 1] = 2 * PowerOfTwo[n]
      BY <1>6, <3>1
    <3>3. PowerOfTwo[n] \in Nat
      BY <2>2
    <3>4. QED
      BY <3>1, <3>2, <3>3
  <2> HIDE DEF S
  <2>3. Nat \subseteq S
    BY <2>1, <2>2, Induction
  <2>4. \A n \in Nat : PowerOfTwo[n] \in Nat
    BY <2>3 DEF S
  <2>5. QED
    BY <1>6, <2>4
<1>8. QED
  BY <1>6, <1>7

LEMMA PowersDouble ==
    \A n \in Nat : PowerOfTwo[n] \in Nat \ {0} /\ PowerOfTwo[n + 1] = 2 * PowerOfTwo[n]
<1>1. ASSUME NEW n \in Nat PROVE PowerOfTwo[n + 1] = 2 * PowerOfTwo[n]
  <2>1. n + 1 \in Nat /\ n + 1 # 0 /\ (n + 1) - 1 = n
    OBVIOUS
  <2>2. QED
    BY <2>1, PowerOfTwoIs
<1> DEFINE S == {n \in Nat : PowerOfTwo[n] # 0}
<1>2. 0 \in S
  BY PowerOfTwoIs
<1>3. ASSUME NEW n \in Nat, n \in S PROVE n + 1 \in S
  <2>1. PowerOfTwo[n] \in Nat /\ PowerOfTwo[n] # 0
    BY <1>3, PowerOfTwoIs
  <2>2. PowerOfTwo[n + 1] # 0 /\ n + 1 \in Nat
    BY <1>1, <2>1
  <2>3. QED
    BY <2>2
<1> HIDE DEF S
<1>4. Nat \subseteq S
  BY <1>2, <1>3, Induction
<1>5. \A n \in Nat : PowerOfTwo[n] # 0
  BY <1>4 DEF S
<1>6. QED
  BY <1>1, <1>5, PowerOfTwoIs

-----------------------------------------------------------------------------
(* The delays of the retries *)

LEMMA Products ==
    \A x, y \in Nat : x * y \in Nat /\ (y # 0 => x <= x * y)
OBVIOUS

LEMMA Hundredth ==
    ASSUME NEW x \in Nat, NEW s \in 0..100
    PROVE  (x * s) \div 100 \in 0..x
<1>1. x * s \in 0..(x * 100)
  OBVIOUS
<1> DEFINE y == x * s
<1>2. y \in 0..(x * 100)
  BY <1>1
<1> HIDE DEF y
<1>3. y \div 100 \in 0..x
  BY <1>2
<1>4. QED
  BY <1>3 DEF y

\* What a loaded configuration holds.
Loaded(c) ==
    \A f \in {"maxAttempts", "backoffDelay", "maxBackoffDelay"} : c[f] \in Int \union {NaN, Undefined}

LEMMA ConfigurationLoaded ==
    ASSUME RetryAssumption
    PROVE  RetrySpec => []Loaded(retry)
<1>1. RetryInit => Loaded(retry)
  BY DEF RetryInit, DefaultConfig, Loaded
<1>2. ASSUME Loaded(retry), [LoadConfiguration]_retry PROVE Loaded(retry)'
  <2>1. CASE LoadConfiguration
    <3>0. PICK patch \in Patches :
             \E source \in {patch, FromEnvironment(patch)} : retry' = MergeConfigs(retry, source)
      BY <2>1 DEF LoadConfiguration
    <3>1. PICK source \in {patch, FromEnvironment(patch)} : retry' = MergeConfigs(retry, source)
      BY <3>0
    <3>2. \A f \in DOMAIN patch : f # "backoffType" => patch[f] \in Int \union {NaN}
      <4>1. PICK fields \in SUBSET Settings, c \in Configs : patch = [f \in fields |-> c[f]]
        BY <3>1 DEF Patches
      <4>2. Attempts \subseteq Int /\ Delays \subseteq Int
        BY RetryAssumption, Zenon DEF RetryAssumption
      <4>3. c.maxAttempts \in Int \union {NaN} /\ c.backoffDelay \in Int \union {NaN}
              /\ c.maxBackoffDelay \in Int \union {NaN}
        BY <4>1, <4>2 DEF Configs
      <4>4. QED
        BY <4>1, <4>3 DEF Settings
    <3>3. \A f \in DOMAIN source : f # "backoffType" => source[f] \in Int \union {NaN, Undefined}
      <4>1. CASE source = patch
        BY <3>2, <4>1
      <4>2. CASE source = FromEnvironment(patch)
        BY <3>2, <4>2 DEF FromEnvironment, Settings, DefaultConfig
      <4>3. QED
        BY <3>1, <4>1, <4>2
    <3>4. ASSUME NEW f \in {"maxAttempts", "backoffDelay", "maxBackoffDelay"}
          PROVE  retry'[f] \in Int \union {NaN, Undefined}
      <4>1. f \in Settings /\ f # "backoffType"
        BY DEF Settings
      <4>2. retry'[f] = IF f \in DOMAIN source THEN source[f] ELSE retry[f]
        BY <3>1, <4>1 DEF MergeConfigs
      <4>3. retry[f] \in Int \union {NaN, Undefined}
        BY <1>2 DEF Loaded
      <4>4. QED
        BY <3>3, <4>1, <4>2, <4>3
    <3>5. QED
      BY <3>4 DEF Loaded
  <2>2. CASE UNCHANGED retry
    BY <1>2, <2>2
  <2>3. QED
    BY <1>2, <2>1, <2>2
<1>3. QED
  BY <1>1, <1>2, PTL DEF RetrySpec

\* The three strategies, for any number of attempts.
LEMMA DelaysGrow ==
    ASSUME RetryAssumption, NEW c, NEW attempt \in Nat, c.backoffDelay \in Nat, Cap(c) \in Nat
    PROVE  /\ LinearDelay(attempt, c) \in 0..LinearDelay(attempt + 1, c)
           /\ \A j \in Jitters(attempt, c), k \in Jitters(attempt + 1, c) :
                 JitterDelay(attempt, c, j) \in CalculateDelay(attempt, c)..JitterDelay(attempt + 1, c, k)
           /\ c.backoffDelay <= Cap(c) => CalculateDelay(attempt, c) \in c.backoffDelay..Cap(c)
<1> DEFINE b == c.backoffDelay
           p == PowerOfTwo[attempt]
           e == Exponential(attempt, c)
           f == Exponential(attempt + 1, c)
<1>1. p \in Nat /\ p # 0 /\ PowerOfTwo[attempt + 1] = 2 * p /\ b \in Nat
  BY PowersDouble
<1>2. e = b * p /\ f = b * (2 * p)
  BY <1>1 DEF Exponential
<1>3. e \in Nat /\ b <= e /\ f = 2 * e
  <2> HIDE DEF b, p, e, f
  <2>1. b * p \in Nat /\ b <= b * p
    BY <1>1, Products
  <2>2. b * (2 * p) = 2 * (b * p)
    BY <1>1
  <2>3. QED
    BY <1>2, <2>1, <2>2
<1>4. b * (1 + attempt) \in Nat /\ b * (1 + (attempt + 1)) = b * (1 + attempt) + b
  <2> HIDE DEF b
  <2>1. QED
    BY <1>1
<1>5. ASSUME NEW j \in Jitters(attempt, c) PROVE j \in 0..e
  <2>1. Shares \subseteq 0..100
    BY RetryAssumption, Zenon DEF RetryAssumption
  <2>2. QED
    BY <1>3, <2>1, Hundredth DEF Jitters
<1>6. ASSUME NEW k \in Jitters(attempt + 1, c) PROVE k \in Nat
  <2>1. f \in Nat
    BY <1>3
  <2>2. PICK s \in Shares : k = (f * s) \div 100
    BY DEF Jitters
  <2>3. s \in 0..100
    BY RetryAssumption DEF RetryAssumption
  <2> HIDE DEF f
  <2>4. k \in 0..f
    BY <2>1, <2>2, <2>3, Hundredth
  <2>5. QED
    BY <2>1, <2>4
<1>7. LinearDelay(attempt, c) \in 0..LinearDelay(attempt + 1, c)
  <2> DEFINE l == b * (1 + attempt)
             m == b * (1 + (attempt + 1))
  <2>1. l \in Nat /\ m = l + b /\ b \in Nat
    BY <1>1, <1>4
  <2>2. LinearDelay(attempt, c) = Capped(l, c) /\ LinearDelay(attempt + 1, c) = Capped(m, c)
    BY DEF LinearDelay
  <2> HIDE DEF b, l, m
  <2>3. QED
    BY <2>1, <2>2 DEF Capped
<1>8. ASSUME NEW j \in Jitters(attempt, c), NEW k \in Jitters(attempt + 1, c)
      PROVE  JitterDelay(attempt, c, j) \in CalculateDelay(attempt, c)..JitterDelay(attempt + 1, c, k)
  <2>1. j \in 0..e /\ k \in Nat
    BY <1>5, <1>6
  <2>2. /\ JitterDelay(attempt, c, j) = Capped(e + j, c)
        /\ CalculateDelay(attempt, c) = Capped(e, c)
        /\ JitterDelay(attempt + 1, c, k) = Capped(f + k, c)
    BY DEF JitterDelay, CalculateDelay
  <2> HIDE DEF e, f
  <2>3. QED
    BY <1>3, <2>1, <2>2 DEF Capped
<1>9. ASSUME b <= Cap(c) PROVE CalculateDelay(attempt, c) \in b..Cap(c)
  <2>1. CalculateDelay(attempt, c) = Capped(e, c)
    BY DEF CalculateDelay
  <2> HIDE DEF b, e
  <2>2. QED
    BY <1>1, <1>3, <1>9, <2>1 DEF Capped
<1>10. QED
  BY <1>7, <1>8, <1>9

\* A configuration of numbers that is accepted retries a job that failed once, and a
\* later retry never waits less than an earlier one, nor less than asked for, nor more
\* than the cap (queue-configuration-loader.ts:26-46, validator :114-179,
\* retry-strategies :22-60): for every setting, every jitter and as many attempts as
\* 2**attempt is a number for.
THEOREM RetriesAlwaysBackOff ==
    ASSUME RetryAssumption
    PROVE  RetrySpec => []RetriesBackOff
<1>1. ASSUME Loaded(retry) PROVE RetriesBackOff
  <2> DEFINE c == retry
  <2>1. SUFFICES ASSUME Valid(c), Number(c.maxAttempts), Number(c.backoffDelay), c.maxBackoffDelay # NaN
                 PROVE  /\ ShouldRetry(0, c)
                        /\ \A attempt \in Tries :
                              /\ ShouldRetry(attempt, c) <=> GetRemainingAttempts(attempt, c) > 0
                              /\ LinearDelay(attempt, c) \in 0..LinearDelay(attempt + 1, c)
                              /\ \A j \in Jitters(attempt, c), k \in Jitters(attempt + 1, c) :
                                    JitterDelay(attempt, c, j)
                                        \in CalculateDelay(attempt, c)..JitterDelay(attempt + 1, c, k)
                              /\ Number(c.maxBackoffDelay) =>
                                    CalculateDelay(attempt, c) \in c.backoffDelay..c.maxBackoffDelay
    BY DEF RetriesBackOff
  <2>2. c.maxAttempts \in Int /\ c.backoffDelay \in Int /\ c.maxBackoffDelay \in Int \union {Undefined}
    BY <1>1, <2>1 DEF Loaded, Number
  <2>3. c.maxAttempts > 0 /\ c.backoffDelay \in Nat
    BY <2>1, <2>2 DEF Valid
  <2>4. Number(c.maxBackoffDelay) => /\ c.maxBackoffDelay \in Nat /\ Cap(c) = c.maxBackoffDelay
                                     /\ c.backoffDelay <= c.maxBackoffDelay
    BY <2>1, <2>2 DEF Valid, Number, Cap
  <2>5. Cap(c) \in Nat
    BY <2>1, <2>2, <2>4 DEF Number, Cap
  <2> HIDE DEF c
  <2>6. ShouldRetry(0, c)
    BY <2>1, <2>3 DEF ShouldRetry
  <2>7. ASSUME NEW attempt \in Tries
        PROVE  /\ ShouldRetry(attempt, c) <=> GetRemainingAttempts(attempt, c) > 0
               /\ LinearDelay(attempt, c) \in 0..LinearDelay(attempt + 1, c)
               /\ \A j \in Jitters(attempt, c), k \in Jitters(attempt + 1, c) :
                     JitterDelay(attempt, c, j)
                         \in CalculateDelay(attempt, c)..JitterDelay(attempt + 1, c, k)
               /\ Number(c.maxBackoffDelay) =>
                     CalculateDelay(attempt, c) \in c.backoffDelay..c.maxBackoffDelay
    <3>1. attempt \in Nat
      BY RetryAssumption DEF RetryAssumption
    <3>2. ShouldRetry(attempt, c) <=> GetRemainingAttempts(attempt, c) > 0
      BY <2>1, <2>2, <3>1 DEF ShouldRetry, GetRemainingAttempts
    <3>3. QED
      BY <2>3, <2>4, <2>5, <3>1, <3>2, DelaysGrow
  <2>8. QED
    BY <2>6, <2>7
<1>2. RetrySpec => []Loaded(retry)
  BY ConfigurationLoaded
<1>3. QED
  BY <1>1, <1>2, PTL

-----------------------------------------------------------------------------
(* The parts of a pattern *)

\* The letters from i to j of the pattern are of one part.
Run(pattern, i, j) == \A k \in i..j : pattern[k] # Star

Indexed(s, n) == s \in [1..n -> {s[k] : k \in 1..n}]

LEMMA Lengths ==
    ASSUME NEW n \in Nat, NEW s, Indexed(s, n)
    PROVE  Len(s) = n /\ DOMAIN s = 1..n
<1> DEFINE S == {s[k] : k \in 1..n}
<1>1. s \in [1..n -> S]
  BY DEF Indexed
<1> HIDE DEF S
<1>2. QED
  BY <1>1

LEMMA MinIs ==
    ASSUME NEW S \in SUBSET Nat, S # {}
    PROVE  Min(S) \in S /\ \A x \in S : Min(S) <= x
BY Least DEF Min

LEMMA MaxIs ==
    ASSUME NEW n \in Nat, NEW S \in SUBSET (0..n), S # {}
    PROVE  Max(S) \in S /\ \A x \in S : x <= Max(S)
<1>1. \E x \in S : \A y \in S : x >= y
  <2>1. PICK x \in S : \A y \in S : y <= x
    BY Greatest
  <2>2. \A y \in S : x >= y
    BY <2>1
  <2>3. QED
    BY <2>2
<1>2. Max(S) \in S /\ \A y \in S : Max(S) >= y
  BY <1>1 DEF Max
<1>3. QED
  BY <1>2

\* Where a part starts, of which it ends at j.
LEMMA PartStarts ==
    ASSUME NEW n \in Nat, NEW pattern, Indexed(pattern, n), NEW j \in PartEnds(pattern)
    PROVE  LET i == PartStart(pattern, j)
           IN  /\ j \in 1..n /\ i \in 1..j /\ Run(pattern, i, j)
               /\ i = 1 \/ pattern[i - 1] = Star
<1>1. j \in 1..n /\ pattern[j] # Star /\ Len(pattern) = n
  BY Lengths DEF PartEnds
<1> DEFINE T == {i \in 1..j : i = 1 \/ pattern[i - 1] = Star}
           i == PartStart(pattern, j)
<1>2. i = Max(T) /\ 1 \in T /\ T \in SUBSET (0..j) /\ j \in Nat
  BY <1>1 DEF PartStart
<1>3. T # {}
  BY <1>2
<1> HIDE DEF i
<1>4. i \in T /\ \A x \in T : x <= i
  <2> HIDE DEF T
  <2>1. QED
    BY <1>2, <1>3, MaxIs
<1>5. ASSUME NEW k \in i..j PROVE pattern[k] # Star
  <2>1. CASE k = j
    BY <1>1, <2>1
  <2>2. CASE k # j
    <3>1. k + 1 \in 1..j /\ k + 1 > i /\ (k + 1) - 1 = k
      BY <1>1, <1>4, <2>2
    <3>2. QED
      BY <1>4, <3>1
  <2>3. QED
    BY <2>1, <2>2
<1>6. QED
  BY <1>1, <1>4, <1>5 DEF i, Run

\* Every letter is of a part: the one that ends at e and starts at its first letter.
LEMMA PartOf ==
    ASSUME NEW n \in Nat, NEW pattern, Indexed(pattern, n), NEW k \in 1..n, pattern[k] # Star
    PROVE  \E e \in PartEnds(pattern) : e \in k..n /\ PartStart(pattern, e) <= k /\ Run(pattern, k, e)
<1>1. Len(pattern) = n
  BY Lengths
<1> DEFINE T == {e \in k..n : e = n \/ pattern[e + 1] = Star}
<1>2. T \in SUBSET Nat /\ n \in T
  OBVIOUS
<1>3. PICK e \in T : \A x \in T : e <= x
  <2>1. T # {}
    BY <1>2
  <2> HIDE DEF T
  <2>2. QED
    BY <1>2, <2>1, Least
<1>4. Run(pattern, k, e)
  <2>1. ASSUME NEW x \in k..e PROVE pattern[x] # Star
    <3>1. CASE x = k
      BY <3>1
    <3>2. CASE x # k
      <4>1. x - 1 \in k..n /\ x - 1 < e /\ (x - 1) + 1 = x
        BY <1>3, <3>2
      <4>2. x - 1 \notin T
        <5>1. e \in k..n /\ x \in k..e
          BY <1>3
        <5> HIDE DEF T
        <5>2. x - 1 \in T => e <= x - 1
          BY <1>3
        <5>3. QED
          BY <4>1, <5>1, <5>2
      <4>3. QED
        BY <1>3, <4>1, <4>2
    <3>3. QED
      BY <3>1, <3>2
  <2>2. QED
    BY <2>1 DEF Run
<1>5. e \in PartEnds(pattern)
  BY <1>1, <1>3, <1>4 DEF PartEnds, Run
<1>6. PartStart(pattern, e) <= k
  <2> DEFINE i == PartStart(pattern, e)
  <2>1. i \in 1..e /\ (i = 1 \/ pattern[i - 1] = Star)
    BY <1>5, PartStarts
  <2> HIDE DEF i
  <2>2. ASSUME i > k PROVE FALSE
    <3>1. i - 1 \in k..e /\ i # 1
      BY <1>3, <2>1, <2>2
    <3>2. QED
      BY <1>4, <2>1, <3>1 DEF Run
  <2>3. i <= k
    BY <2>1, <2>2
  <2>4. QED
    BY <2>3 DEF i
<1>7. QED
  BY <1>3, <1>4, <1>5, <1>6

LEMMA Parts ==
    ASSUME NEW n \in Nat, NEW pattern, Indexed(pattern, n), NEW j \in PartEnds(pattern)
    PROVE  LET i == PartStart(pattern, j)
           IN  /\ Len(Part(pattern, j)) = j - i + 1
               /\ \A k \in 1..(j - i + 1) : Part(pattern, j)[k] = pattern[i + k - 1]
<1> DEFINE i == PartStart(pattern, j)
<1>1. j \in 1..n /\ i \in 1..j
  BY PartStarts
<1> HIDE DEF i
<1>2. Part(pattern, j) = SubSeq(pattern, i, j)
  BY DEF Part, i
<1>3. SubSeq(pattern, i, j) = [k \in 1..(j - i + 1) |-> pattern[i + k - 1]]
  BY <1>1
<1>4. \A k \in 1..(j - i + 1) : i + k - 1 \in 1..n
  BY <1>1
<1> DEFINE S == {pattern[k] : k \in 1..n}
<1>5. [k \in 1..(j - i + 1) |-> pattern[i + k - 1]] \in [1..(j - i + 1) -> S]
  BY <1>4
<1>6. Len(SubSeq(pattern, i, j)) = j - i + 1
  <2> DEFINE m == j - i + 1
             s == [k \in 1..m |-> pattern[i + k - 1]]
  <2>1. m \in Nat /\ s \in [1..m -> S]
    BY <1>1, <1>5
  <2> HIDE DEF m, s, S
  <2>2. Len(s) = m
    BY <2>1
  <2>3. QED
    BY <1>3, <2>2 DEF m, s
<1>7. QED
  BY <1>2, <1>3, <1>6 DEF i

-----------------------------------------------------------------------------
(* The search for the parts *)

LEMMA AfterIs ==
    ASSUME NEW value, NEW part, NEW x \in -1..Len(value), Len(value) \in Nat, Len(part) \in Nat
    PROVE  LET a == After(value, part, x)
           IN  /\ a \in -1..Len(value)
               /\ a # -1 => x # -1 /\ Occurs(value, part, a - Len(part)) /\ a - Len(part) >= x
               /\ \A i \in Nat : x # -1 /\ x <= i /\ Occurs(value, part, i) => a # -1 /\ a <= i + Len(part)
<1> DEFINE hits == {i \in x..Len(value) : Occurs(value, part, i)}
           a == After(value, part, x)
<1>1. a = IF x = -1 \/ hits = {} THEN -1 ELSE Min(hits) + Len(part)
  BY DEF After
<1>2. CASE x = -1
  BY <1>1, <1>2
<1>3. CASE x # -1 /\ hits = {}
  <2>1. a = -1
    BY <1>1, <1>3
  <2>2. ASSUME NEW i \in Nat, x <= i, Occurs(value, part, i) PROVE FALSE
    <3>1. i \in x..Len(value)
      BY <2>2 DEF Occurs
    <3>2. QED
      BY <1>3, <2>2, <3>1
  <2> HIDE DEF a
  <2>3. QED
    BY <2>1, <2>2 DEF a
<1>4. CASE x # -1 /\ hits # {}
  <2> DEFINE h == Min(hits)
  <2>1. hits \in SUBSET Nat
    BY <1>4
  <2>2. h \in hits /\ \A i \in hits : h <= i
    <3> HIDE DEF hits
    <3>1. QED
      BY <1>4, <2>1, MinIs
  <2>3. a = h + Len(part)
    BY <1>1, <1>4
  <2> HIDE DEF a, h
  <2>4. h \in x..Len(value) /\ Occurs(value, part, h) /\ h \in 0..(Len(value) - Len(part))
    BY <2>2 DEF Occurs
  <2>5. a - Len(part) = h /\ a \in 0..Len(value)
    BY <2>3, <2>4
  <2>6. ASSUME NEW i \in Nat, x <= i, Occurs(value, part, i) PROVE a <= i + Len(part)
    <3>1. i \in x..Len(value)
      BY <2>6 DEF Occurs
    <3>2. h <= i
      BY <2>2, <2>6, <3>1
    <3>3. QED
      BY <2>3, <2>4, <3>2
  <2>7. a # -1 /\ a - Len(part) >= x
    BY <2>4, <2>5
  <2>8. QED
    BY <1>4, <2>4, <2>5, <2>6, <2>7 DEF a
<1>5. QED
  BY <1>2, <1>3, <1>4

LEMMA PositionIs ==
    ASSUME NEW n \in Nat, NEW pattern, Indexed(pattern, n), NEW value, Len(value) \in Nat
    PROVE  LET p == Position(value, pattern)
           IN  /\ p \in [Nat -> -1..Len(value)] /\ p[0] = 0
               /\ \A j \in Nat \ {0} : p[j] = IF j \in PartEnds(pattern) THEN After(value, Part(pattern, j), p[j - 1])
                                              ELSE p[j - 1]
<1> DEFINE V == -1..Len(value)
           G == [j \in Nat |-> [x \in V |-> IF j \in PartEnds(pattern) THEN After(value, Part(pattern, j), x) ELSE x]]
           Is(f) == f = [j \in Nat |-> IF j = 0 THEN 0
                                       ELSE IF j \in PartEnds(pattern) THEN After(value, Part(pattern, j), f[j - 1])
                                       ELSE f[j - 1]]
           v == 0
<1>1. ASSUME NEW j \in PartEnds(pattern), NEW x \in V PROVE After(value, Part(pattern, j), x) \in V
  <2>1. Len(Part(pattern, j)) \in Nat
    <3>1. PartStart(pattern, j) \in 1..j /\ j \in 1..n
      BY PartStarts
    <3>2. Len(Part(pattern, j)) = j - PartStart(pattern, j) + 1
      BY Parts
    <3>3. QED
      BY <3>1, <3>2
  <2>2. QED
    BY <2>1, AfterIs
<1>2. G \in [Nat -> [V -> V]] /\ v \in V
  <2>1. ASSUME NEW j \in Nat, NEW x \in V
        PROVE  (IF j \in PartEnds(pattern) THEN After(value, Part(pattern, j), x) ELSE x) \in V
    <3> HIDE DEF V
    <3>1. QED
      BY <1>1
  <2>2. v \in V
    OBVIOUS
  <2> HIDE DEF V, v
  <2>3. QED
    BY <2>1, <2>2
<1>3. PICK f \in [Nat -> V] : f = [j \in Nat |-> IF j = 0 THEN v ELSE G[j][f[j - 1]]]
  <2> HIDE DEF G, V, v, Is
  <2>1. v \in V /\ G \in [Nat -> [V -> V]]
    BY <1>2
  <2>2. \E f : Computes(f, V, v, G)
    BY <2>1, Recursion
  <2>3. QED
    BY <2>2 DEF Computes
<1>4. Is(f)
  <2>1. ASSUME NEW j \in Nat, j # 0
        PROVE  G[j][f[j - 1]] = IF j \in PartEnds(pattern) THEN After(value, Part(pattern, j), f[j - 1]) ELSE f[j - 1]
    <3>1. f[j - 1] \in V
      BY <2>1
    <3> HIDE DEF V
    <3>2. QED
      BY <3>1
  <2> HIDE DEF G, V
  <2>2. QED
    BY <1>3, <2>1
<1>5. Position(value, pattern) = CHOOSE g : Is(g)
  BY DEF Position
<1>6. Is(Position(value, pattern))
  <2> HIDE DEF Is
  <2>1. QED
    BY <1>4, <1>5
<1> DEFINE p == Position(value, pattern)
<1>7. /\ DOMAIN p = Nat /\ p[0] = 0
      /\ \A j \in Nat \ {0} : p[j] = IF j \in PartEnds(pattern) THEN After(value, Part(pattern, j), p[j - 1])
                                     ELSE p[j - 1]
  <2> HIDE DEF p
  <2>1. Is(p)
    BY <1>6 DEF p
  <2>2. QED
    BY <2>1
<1>8. \A j \in Nat : p[j] \in V
  <2> DEFINE T == {j \in Nat : p[j] \in V}
  <2> HIDE DEF p, V
  <2>1. 0 \in T
    BY <1>2, <1>7 DEF V
  <2>2. ASSUME NEW j \in Nat, j \in T PROVE j + 1 \in T
    <3>1. j + 1 \in Nat \ {0} /\ (j + 1) - 1 = j /\ p[j] \in V
      BY <2>2
    <3>2. QED
      BY <1>1, <1>7, <3>1
  <2> HIDE DEF T
  <2>3. Nat \subseteq T
    BY <2>1, <2>2, Induction
  <2>4. QED
    BY <2>3 DEF T
<1>9. p \in [Nat -> V]
  <2>1. p = [j \in Nat |-> p[j]]
    <3> HIDE DEF p
    <3>1. Is(p)
      BY <1>6 DEF p
    <3>2. QED
      BY <3>1
  <2> HIDE DEF p, V
  <2>2. QED
    BY <1>8, <2>1
<1>10. QED
  BY <1>7, <1>9

\* The search does not move inside a part.
LEMMA SearchStays ==
    ASSUME NEW n \in Nat, NEW pattern, Indexed(pattern, n), NEW value, Len(value) \in Nat,
           NEW j \in 1..n, NEW i \in 1..j, Run(pattern, i, j)
    PROVE  Position(value, pattern)[j - 1] = Position(value, pattern)[i - 1]
<1> DEFINE p == Position(value, pattern)
           T == {d \in Nat : i + d <= j => p[(i + d) - 1] = p[i - 1]}
<1>1. Len(pattern) = n
  BY Lengths
<1>2. \A k \in Nat \ {0} : k \notin PartEnds(pattern) => p[k] = p[k - 1]
  BY PositionIs
<1> HIDE DEF p
<1>3. 0 \in T
  OBVIOUS
<1>4. ASSUME NEW d \in Nat, d \in T, i + (d + 1) <= j PROVE p[(i + (d + 1)) - 1] = p[i - 1]
  <2> DEFINE k == i + d
  <2>1. k \in Nat \ {0} /\ k \in 1..n /\ k # n /\ k + 1 \in i..j /\ (i + (d + 1)) - 1 = k
    BY <1>4
  <2>2. p[k - 1] = p[i - 1]
    BY <1>4
  <2> HIDE DEF k
  <2>3. k \notin PartEnds(pattern)
    BY <1>1, <2>1 DEF PartEnds, Run
  <2>4. QED
    BY <1>2, <2>1, <2>2, <2>3
<1>5. \A d \in Nat : d \in T => d + 1 \in T
  BY <1>4
<1>6. j - i \in Nat /\ i + (j - i) = j
  OBVIOUS
<1> HIDE DEF T
<1>7. j - i \in T
  BY <1>3, <1>5, <1>6, Induction
<1>8. p[j - 1] = p[i - 1]
  BY <1>6, <1>7 DEF T
<1>9. QED
  BY <1>8 DEF p

\* A search that has failed stays failed.
LEMMA SearchFails ==
    ASSUME NEW n \in Nat, NEW pattern, Indexed(pattern, n), NEW value, Len(value) \in Nat,
           InOrder(value, pattern), NEW k \in 0..n
    PROVE  Position(value, pattern)[k] # -1
<1> DEFINE p == Position(value, pattern)
           T == {d \in Nat : p[k + d] = -1}
<1> SUFFICES ASSUME p[k] = -1 PROVE FALSE
  OBVIOUS
<1>1. p[n] # -1
  BY Lengths DEF InOrder
<1>2. \A j \in Nat \ {0} : p[j] = IF j \in PartEnds(pattern) THEN After(value, Part(pattern, j), p[j - 1])
                                  ELSE p[j - 1]
  BY PositionIs
<1>3. ASSUME NEW j \in Nat \ {0}, p[j - 1] = -1 PROVE p[j] = -1
  <2> HIDE DEF p
  <2>1. QED
    BY <1>2, <1>3 DEF After
<1> HIDE DEF p
<1>4. 0 \in T
  OBVIOUS
<1>5. ASSUME NEW d \in Nat, d \in T PROVE d + 1 \in T
  <2>1. k + (d + 1) \in Nat \ {0} /\ (k + (d + 1)) - 1 = k + d /\ d + 1 \in Nat
    OBVIOUS
  <2>2. p[k + (d + 1)] = -1
    BY <1>3, <1>5, <2>1
  <2>3. QED
    BY <2>1, <2>2
<1>6. n - k \in Nat /\ k + (n - k) = n
  OBVIOUS
<1> HIDE DEF T
<1>7. n - k \in T
  BY <1>4, <1>5, <1>6, Induction
<1>8. QED
  BY <1>1, <1>6, <1>7 DEF T

\* The first part is the one the pattern starts with, the last the one it ends with.
LEMMA FirstPart ==
    ASSUME NEW n \in Nat, n # 0, NEW pattern, Indexed(pattern, n), pattern[1] # Star
    PROVE  LET e == Min(PartEnds(pattern)) IN e \in PartEnds(pattern) /\ PartStart(pattern, e) = 1
<1>1. Len(pattern) = n /\ PartEnds(pattern) \in SUBSET Nat
  BY Lengths DEF PartEnds
<1>2. PICK d \in PartEnds(pattern) : d \in 1..n /\ PartStart(pattern, d) <= 1 /\ Run(pattern, 1, d)
  <2>1. n \in Nat /\ 1 \in 1..n
    OBVIOUS
  <2>2. QED
    BY <2>1, PartOf
<1> DEFINE e == Min(PartEnds(pattern))
<1>3. e \in PartEnds(pattern) /\ e <= d
  BY <1>1, <1>2, MinIs
<1> HIDE DEF e
<1>4. e \in 1..n /\ (e = n \/ pattern[e + 1] = Star)
  BY <1>1, <1>3 DEF PartEnds
<1>5. e = d
  <2>1. ASSUME e < d PROVE FALSE
    <3>1. e # n /\ e + 1 \in 1..d
      BY <1>2, <1>4, <2>1
    <3>2. QED
      BY <1>2, <1>4, <3>1 DEF Run
  <2>2. QED
    BY <1>2, <1>3, <1>4, <2>1
<1>6. PartStart(pattern, d) \in 1..d
  BY PartStarts
<1>7. PartStart(pattern, d) = 1
  BY <1>2, <1>6
<1>8. QED
  BY <1>3, <1>5, <1>7 DEF e

LEMMA LastPart ==
    ASSUME NEW n \in Nat, n # 0, NEW pattern, Indexed(pattern, n), pattern[n] # Star
    PROVE  n \in PartEnds(pattern) /\ Max(PartEnds(pattern)) = n
<1>1. n \in PartEnds(pattern) /\ PartEnds(pattern) \in SUBSET (0..n) /\ n \in Nat
  BY Lengths DEF PartEnds
<1> DEFINE e == Max(PartEnds(pattern))
<1>2. e \in PartEnds(pattern) /\ n <= e
  BY <1>1, MaxIs
<1> HIDE DEF e
<1>3. e = n
  BY <1>1, <1>2
<1>4. QED
  BY <1>1, <1>3 DEF e

-----------------------------------------------------------------------------
(* A pattern that means the name is found in it *)

LEMMA LaidRun ==
    ASSUME NEW n \in Nat, NEW pattern, Indexed(pattern, n), NEW m \in Nat, NEW value, Indexed(value, m),
           NEW reach \in [0..n -> 0..m], Lies(value, pattern, reach),
           NEW i \in 1..n, NEW j \in i..n, Run(pattern, i, j)
    PROVE  reach[j] = reach[i - 1] + (j - i + 1)
<1> DEFINE T == {d \in Nat : (i - 1) + d <= j => reach[(i - 1) + d] = reach[i - 1] + d}
<1>1. \A k \in 1..n : pattern[k] # Star => reach[k] = reach[k - 1] + 1
  BY Lengths DEF Lies
<1>2. 0 \in T
  OBVIOUS
<1>3. ASSUME NEW d \in Nat, d \in T, (i - 1) + (d + 1) <= j
      PROVE  reach[(i - 1) + (d + 1)] = reach[i - 1] + (d + 1)
  <2> DEFINE k == (i - 1) + (d + 1)
  <2>1. k \in i..j /\ k \in 1..n /\ k - 1 = (i - 1) + d /\ (i - 1) + d <= j /\ i - 1 \in 0..n
    BY <1>3
  <2>2. reach[k - 1] = reach[i - 1] + d
    BY <1>3, <2>1
  <2>3. reach[i - 1] \in Nat
    BY <2>1
  <2> HIDE DEF k
  <2>4. reach[k] = reach[k - 1] + 1
    BY <1>1, <2>1 DEF Run
  <2>5. reach[k] = reach[i - 1] + (d + 1)
    BY <2>1, <2>2, <2>3, <2>4
  <2>6. QED
    BY <2>5 DEF k
<1>4. \A d \in Nat : d \in T => d + 1 \in T
  BY <1>3
<1>5. j - i + 1 \in Nat /\ (i - 1) + (j - i + 1) = j
  OBVIOUS
<1> HIDE DEF T
<1>6. j - i + 1 \in T
  BY <1>2, <1>4, <1>5, Induction
<1>7. QED
  BY <1>5, <1>6 DEF T

LEMMA LaidPart ==
    ASSUME NEW n \in Nat, NEW pattern, Indexed(pattern, n), NEW m \in Nat, NEW value, Indexed(value, m),
           NEW reach \in [0..n -> 0..m], Lies(value, pattern, reach), NEW e \in PartEnds(pattern)
    PROVE  LET part == Part(pattern, e)
               i == PartStart(pattern, e)
           IN  Occurs(value, part, reach[i - 1]) /\ reach[e] = reach[i - 1] + Len(part)
<1> DEFINE part == Part(pattern, e)
           i == PartStart(pattern, e)
<1>1. e \in 1..n /\ i \in 1..e /\ Run(pattern, i, e)
  BY PartStarts
<1>2. Len(part) = e - i + 1 /\ \A k \in 1..(e - i + 1) : part[k] = pattern[i + k - 1]
  BY Parts
<1> HIDE DEF part, i
<1>3. ASSUME NEW j \in i..e PROVE reach[j] = reach[i - 1] + (j - i + 1)
  <2>1. i \in 1..n /\ j \in i..n /\ Run(pattern, i, j)
    BY <1>1 DEF Run
  <2>2. QED
    BY <2>1, LaidRun
<1>4. reach[e] = reach[i - 1] + Len(part)
  BY <1>1, <1>2, <1>3
<1>5. Len(value) = m /\ Len(pattern) = n
  BY Lengths
<1>6. reach[i - 1] \in Nat /\ reach[e] \in 0..m
  BY <1>1
<1>7. reach[i - 1] \in 0..(Len(value) - Len(part))
  BY <1>1, <1>2, <1>4, <1>5, <1>6
<1>8. ASSUME NEW k \in 1..Len(part) PROVE value[reach[i - 1] + k] = part[k]
  <2> DEFINE j == i + k - 1
  <2>1. j \in i..e /\ j \in 1..n /\ j - i + 1 = k /\ k \in 1..(e - i + 1)
    BY <1>1, <1>2
  <2>2. part[k] = pattern[j]
    BY <1>2, <2>1
  <2> HIDE DEF j
  <2>3. pattern[j] # Star /\ reach[j] = reach[i - 1] + k
    BY <1>1, <1>3, <2>1 DEF Run
  <2>4. value[reach[j]] = pattern[j]
    BY <1>5, <2>1, <2>3 DEF Lies
  <2>5. QED
    BY <2>2, <2>3, <2>4
<1>9. Occurs(value, part, reach[i - 1])
  BY <1>7, <1>8 DEF Occurs
<1>10. QED
  BY <1>4, <1>9 DEF part, i

\* The search finds every part where the pattern can lie, or before.
LEMMA SearchIsBehind ==
    ASSUME NEW n \in Nat, NEW pattern, Indexed(pattern, n), NEW m \in Nat, NEW value, Indexed(value, m),
           NEW reach \in [0..n -> 0..m], Lies(value, pattern, reach)
    PROVE  \A j \in 0..n : Position(value, pattern)[j] # -1 /\ Position(value, pattern)[j] <= reach[j]
<1> DEFINE p == Position(value, pattern)
           Behind(j) == p[j] # -1 /\ p[j] <= reach[j]
           T == {d \in Nat : \A j \in 0..d : j <= n => Behind(j)}
<1>1. Len(value) = m /\ Len(pattern) = n
  BY Lengths
<1>2. /\ p \in [Nat -> -1..m] /\ p[0] = 0
      /\ \A j \in Nat \ {0} : p[j] = IF j \in PartEnds(pattern) THEN After(value, Part(pattern, j), p[j - 1])
                                     ELSE p[j - 1]
  BY <1>1, PositionIs
<1>3. reach[0] = 0 /\ \A j \in 1..n : reach[j - 1] <= reach[j] /\ reach[j] \in 0..m /\ reach[j - 1] \in 0..m
  <2>1. ASSUME NEW j \in 1..n PROVE reach[j - 1] <= reach[j] /\ reach[j] \in 0..m /\ reach[j - 1] \in 0..m
    <3>1. reach[j] \in 0..m /\ reach[j - 1] \in 0..m
      OBVIOUS
    <3>2. reach[j - 1] <= reach[j] \/ reach[j] = reach[j - 1] + 1
      BY <1>1 DEF Lies
    <3>3. QED
      BY <3>1, <3>2
  <2>2. QED
    BY <2>1 DEF Lies
<1>4. ASSUME NEW j \in 1..n, \A k \in 0..(j - 1) : Behind(k) PROVE Behind(j)
  <2>1. j \in Nat \ {0} /\ j - 1 \in 0..(j - 1)
    OBVIOUS
  <2>2. CASE j \notin PartEnds(pattern)
    <3> HIDE DEF p
    <3>1. p[j] = p[j - 1] /\ p[j] \in -1..m
      BY <1>2, <2>1, <2>2
    <3>2. p[j - 1] # -1 /\ p[j - 1] <= reach[j - 1]
      BY <1>4, <2>1
    <3>3. QED
      BY <1>3, <3>1, <3>2
  <2>3. CASE j \in PartEnds(pattern)
    <3> DEFINE i == PartStart(pattern, j)
               part == Part(pattern, j)
    <3>1. i \in 1..j /\ Run(pattern, i, j) /\ Len(part) = j - i + 1
      BY <2>3, PartStarts, Parts
    <3>2. Occurs(value, part, reach[i - 1]) /\ reach[j] = reach[i - 1] + Len(part)
      BY <2>3, LaidPart
    <3> HIDE DEF i, part
    <3>3. p[j - 1] = p[i - 1]
      BY <1>1, <3>1, SearchStays
    <3> HIDE DEF p
    <3>4. p[i - 1] # -1 /\ p[i - 1] <= reach[i - 1] /\ i - 1 \in 0..n
      BY <1>4, <3>1
    <3>5. p[j] = After(value, part, p[j - 1]) /\ p[j - 1] \in -1..Len(value)
      BY <1>1, <1>2, <2>1, <2>3 DEF part
    <3>6. reach[i - 1] \in Nat /\ Len(part) \in Nat /\ Len(value) \in Nat
      BY <1>1, <3>1, <3>4
    <3>7. p[j] # -1 /\ p[j] <= reach[i - 1] + Len(part)
      BY <3>2, <3>3, <3>4, <3>5, <3>6, AfterIs
    <3>8. QED
      BY <3>2, <3>7
  <2>4. QED
    BY <2>2, <2>3
<1> HIDE DEF p
<1>5. 0 \in T
  <2>1. Behind(0)
    BY <1>2, <1>3
  <2> HIDE DEF Behind
  <2>2. QED
    BY <2>1
<1> HIDE DEF Behind
<1>6. ASSUME NEW d \in Nat, d \in T PROVE d + 1 \in T
  <2>1. ASSUME NEW j \in 0..(d + 1), j <= n PROVE Behind(j)
    <3>1. CASE j \in 0..d
      BY <1>6, <2>1, <3>1
    <3>2. CASE j = d + 1
      <4>1. j \in 1..n /\ \A k \in 0..(j - 1) : k \in 0..d /\ k <= n
        BY <2>1, <3>2
      <4>2. \A k \in 0..(j - 1) : Behind(k)
        BY <1>6, <4>1
      <4>3. QED
        BY <1>4, <4>1, <4>2
    <3>3. QED
      BY <3>1, <3>2
  <2>2. QED
    BY <2>1
<1> HIDE DEF T
<1>7. n \in T
  BY <1>5, <1>6, Induction
<1>8. \A j \in 0..n : Behind(j)
  BY <1>7 DEF T
<1>9. QED
  BY <1>8 DEF Behind, p

\* What matchesWildcardPattern asks of a pattern with a star and a letter.
FoundInOrder(value, pattern) ==
    /\ InOrder(value, pattern)
    /\ pattern[1] = Star \/ StartsWith(value, Part(pattern, Min(PartEnds(pattern))))
    /\ pattern[Len(pattern)] = Star \/ EndsWith(value, Part(pattern, Max(PartEnds(pattern))))

LEMMA MeantIsFound ==
    ASSUME NEW n \in Nat, n # 0, NEW pattern, Indexed(pattern, n), NEW m \in Nat, NEW value, Indexed(value, m),
           Means(value, pattern)
    PROVE  FoundInOrder(value, pattern)
<1>1. Len(value) = m /\ Len(pattern) = n
  BY Lengths
<1>2. PICK reach \in [0..n -> 0..m] : Lies(value, pattern, reach)
  BY <1>1 DEF Means
<1>3. reach[0] = 0 /\ reach[n] = m
  BY <1>1, <1>2 DEF Lies
<1>4. InOrder(value, pattern)
  <2>1. n \in 0..n
    OBVIOUS
  <2>2. QED
    BY <1>1, <1>2, <2>1, SearchIsBehind DEF InOrder
<1>5. ASSUME pattern[1] # Star PROVE StartsWith(value, Part(pattern, Min(PartEnds(pattern))))
  <2> DEFINE e == Min(PartEnds(pattern))
  <2>1. e \in PartEnds(pattern) /\ PartStart(pattern, e) = 1
    BY <1>5, FirstPart
  <2> HIDE DEF e
  <2>2. Occurs(value, Part(pattern, e), reach[PartStart(pattern, e) - 1])
    BY <1>2, <2>1, LaidPart
  <2>3. PartStart(pattern, e) - 1 = 0
    BY <2>1
  <2>4. QED
    BY <1>3, <2>2, <2>3 DEF StartsWith, e
<1>6. ASSUME pattern[n] # Star PROVE EndsWith(value, Part(pattern, Max(PartEnds(pattern))))
  <2>1. n \in PartEnds(pattern) /\ Max(PartEnds(pattern)) = n
    BY <1>6, LastPart
  <2> DEFINE i == PartStart(pattern, n)
             l == Len(Part(pattern, n))
  <2>2. Occurs(value, Part(pattern, n), reach[i - 1]) /\ reach[n] = reach[i - 1] + l
    BY <1>2, <2>1, LaidPart
  <2>3. i \in 1..n /\ l = n - i + 1
    BY <2>1, PartStarts, Parts
  <2> HIDE DEF i, l
  <2>4. reach[i - 1] \in 0..m /\ l \in Nat
    BY <2>3
  <2>5. reach[i - 1] = Len(value) - l
    BY <1>1, <1>3, <2>2, <2>4
  <2>6. QED
    BY <2>1, <2>2, <2>5 DEF EndsWith, l
<1>7. QED
  BY <1>1, <1>4, <1>5, <1>6 DEF FoundInOrder

-----------------------------------------------------------------------------
(* A pattern that is found in the name means it *)

\* Where the part that ends at e is laid: as far left as the search found it, the last
\* one at the end of the name.
Laid(value, pattern, e) == IF e = Len(pattern) THEN Len(value) ELSE Position(value, pattern)[e]

LEMMA FoundPart ==
    ASSUME NEW n \in Nat, n # 0, NEW pattern, Indexed(pattern, n), NEW m \in Nat, NEW value, Indexed(value, m),
           FoundInOrder(value, pattern), NEW e \in PartEnds(pattern)
    PROVE  LET part == Part(pattern, e)
               q == Laid(value, pattern, e)
           IN  /\ q \in 0..m /\ Occurs(value, part, q - Len(part))
               /\ q - Len(part) >= Position(value, pattern)[PartStart(pattern, e) - 1]
<1> DEFINE p == Position(value, pattern)
           part == Part(pattern, e)
           i == PartStart(pattern, e)
           q == Laid(value, pattern, e)
<1>1. Len(value) = m /\ Len(pattern) = n
  BY Lengths
<1>2. e \in 1..n /\ i \in 1..e /\ Run(pattern, i, e) /\ Len(part) = e - i + 1
  BY PartStarts, Parts
<1>3. p \in [Nat -> -1..m] /\ p[e] = After(value, part, p[e - 1])
  <2>1. /\ p \in [Nat -> -1..m]
        /\ \A j \in Nat \ {0} : p[j] = IF j \in PartEnds(pattern) THEN After(value, Part(pattern, j), p[j - 1])
                                       ELSE p[j - 1]
    BY <1>1, PositionIs
  <2> HIDE DEF p, i
  <2>2. e \in Nat \ {0}
    BY <1>2
  <2>3. QED
    BY <2>1, <2>2
<1>4. p[e] # -1
  BY <1>1, <1>2, SearchFails DEF FoundInOrder
<1>5. p[e - 1] = p[i - 1]
  BY <1>1, <1>2, SearchStays
<1> HIDE DEF p, i, part
<1>6. p[e - 1] \in -1..m /\ p[e] \in -1..m /\ Len(part) \in Nat
  BY <1>2, <1>3
<1>7. Occurs(value, part, p[e] - Len(part)) /\ p[e] - Len(part) >= p[e - 1]
  BY <1>1, <1>3, <1>4, <1>6, AfterIs
<1>8. CASE e = n
  <2>1. q = m
    BY <1>1, <1>8 DEF Laid
  <2>2. pattern[n] # Star
    BY <1>2, <1>8 DEF Run
  <2>3. Max(PartEnds(pattern)) = n
    BY <2>2, LastPart
  <2>4. Occurs(value, part, q - Len(part))
    BY <1>1, <1>8, <2>1, <2>2, <2>3 DEF FoundInOrder, EndsWith, part
  <2> HIDE DEF q
  <2>5. q - Len(part) >= p[i - 1]
    BY <1>5, <1>6, <1>7, <2>1
  <2>6. QED
    BY <2>1, <2>4, <2>5 DEF q, p, part, i
<1>9. CASE e # n
  <2>1. q = p[e]
    BY <1>1, <1>9 DEF Laid, p
  <2> HIDE DEF q
  <2>2. q \in 0..m /\ q - Len(part) >= p[i - 1]
    BY <1>4, <1>5, <1>6, <1>7, <2>1
  <2>3. QED
    BY <1>7, <2>1, <2>2 DEF q, p, part, i
<1>10. QED
  BY <1>8, <1>9

\* The part that has the letter k of the pattern ends at e.
PartHas(pattern, k, e) ==
    e \in PartEnds(pattern) /\ e \in k..Len(pattern) /\ PartStart(pattern, e) <= k /\ Run(pattern, k, e)

LEMMA OnePartHas ==
    ASSUME NEW n \in Nat, NEW pattern, Indexed(pattern, n), NEW k \in 1..n,
           NEW d, NEW e, PartHas(pattern, k, d), PartHas(pattern, k, e)
    PROVE  d = e
<1>1. Len(pattern) = n
  BY Lengths
<1>2. ASSUME NEW x, NEW y, PartHas(pattern, k, x), PartHas(pattern, k, y), x < y PROVE FALSE
  <2>1. x \in k..n /\ y \in k..n /\ (x = n \/ pattern[x + 1] = Star) /\ Run(pattern, k, y)
    BY <1>1, <1>2 DEF PartHas, PartEnds
  <2>2. x + 1 \in k..y /\ x # n
    BY <1>2, <2>1
  <2>3. QED
    BY <2>1, <2>2 DEF Run
<1>3. d \in k..n /\ e \in k..n
  BY <1>1 DEF PartHas
<1>4. ~(d < e) /\ ~(e < d)
  BY <1>2
<1>5. QED
  BY <1>3, <1>4

LEMMA FoundIsMeant ==
    ASSUME NEW n \in Nat, n # 0, NEW pattern, Indexed(pattern, n), NEW m \in Nat, NEW value, Indexed(value, m),
           FoundInOrder(value, pattern), NEW s \in 1..n, pattern[s] = Star
    PROVE  Means(value, pattern)
<1> DEFINE p == Position(value, pattern)
           At(e) == Laid(value, pattern, e)
           End(k) == IF k < n /\ pattern[k + 1] # Star THEN CHOOSE e : PartHas(pattern, k + 1, e) ELSE k
           reach == [k \in 0..n |-> At(End(k)) - (End(k) - k)]
<1>1. Len(value) = m /\ Len(pattern) = n
  BY Lengths
<1>2. /\ p \in [Nat -> -1..m] /\ p[0] = 0
      /\ \A j \in Nat \ {0} : p[j] = IF j \in PartEnds(pattern) THEN After(value, Part(pattern, j), p[j - 1])
                                     ELSE p[j - 1]
  BY <1>1, PositionIs
<1>3. \A k \in 0..n : p[k] \in 0..m
  <2>1. \A k \in 0..n : p[k] # -1
    BY SearchFails DEF FoundInOrder
  <2> HIDE DEF p
  <2>2. QED
    BY <1>2, <2>1
<1> HIDE DEF p
<1>4. \A k \in 0..n : At(k) \in 0..m /\ (k # n => At(k) = p[k])
  BY <1>1, <1>3 DEF Laid, p
<1>5. At(n) = m
  BY <1>1 DEF Laid
\* The parts, each found where it is laid.
<1>6. ASSUME NEW k \in 1..n, pattern[k] # Star PROVE \E e : PartHas(pattern, k, e)
  BY <1>1, <1>6, PartOf DEF PartHas
<1>7. ASSUME NEW k \in 1..n, NEW e, PartHas(pattern, k, e)
      PROVE  /\ e \in k..n /\ e \in PartEnds(pattern)
             /\ PartStart(pattern, e) \in 1..k /\ Run(pattern, PartStart(pattern, e), e)
             /\ Len(Part(pattern, e)) = e - PartStart(pattern, e) + 1
             /\ Part(pattern, e)[k - PartStart(pattern, e) + 1] = pattern[k]
             /\ At(e) \in 0..m /\ Occurs(value, Part(pattern, e), At(e) - Len(Part(pattern, e)))
             /\ At(e) - Len(Part(pattern, e)) >= p[PartStart(pattern, e) - 1]
  <2> DEFINE i == PartStart(pattern, e)
  <2>1. e \in k..n /\ e \in PartEnds(pattern) /\ i <= k
    BY <1>1, <1>7 DEF PartHas
  <2>2. i \in 1..e /\ Run(pattern, i, e)
    BY <2>1, PartStarts
  <2>3. Len(Part(pattern, e)) = e - i + 1 /\ \A j \in 1..(e - i + 1) : Part(pattern, e)[j] = pattern[i + j - 1]
    BY <2>1, Parts
  <2>4. /\ At(e) \in 0..m /\ Occurs(value, Part(pattern, e), At(e) - Len(Part(pattern, e)))
        /\ At(e) - Len(Part(pattern, e)) >= p[i - 1]
    BY <2>1, FoundPart DEF p
  <2> HIDE DEF i, At
  <2>5. k - i + 1 \in 1..(e - i + 1) /\ i + (k - i + 1) - 1 = k /\ i \in 1..k
    BY <2>1, <2>2
  <2>6. Part(pattern, e)[k - i + 1] = pattern[k]
    BY <2>3, <2>5
  <2>7. QED
    BY <2>1, <2>2, <2>3, <2>4, <2>5, <2>6 DEF i
\* Where each of them is laid.
<1>8. ASSUME NEW k \in 1..n, NEW e, PartHas(pattern, k, e) PROVE End(k - 1) = e /\ End(k) = e
  <2>1. e \in k..n /\ e \in PartEnds(pattern) /\ PartStart(pattern, e) <= k /\ Run(pattern, k, e)
    BY <1>1, <1>8 DEF PartHas
  <2>2. pattern[k] # Star /\ (k - 1) + 1 = k /\ k - 1 < n
    BY <2>1 DEF Run
  <2>3. End(k - 1) = e
    <3>1. End(k - 1) = CHOOSE x : PartHas(pattern, k, x)
      BY <2>2
    <3> HIDE DEF End
    <3>2. \A x : PartHas(pattern, k, x) => x = e
      BY <1>8, OnePartHas
    <3>3. QED
      BY <1>8, <3>1, <3>2
  <2>4. CASE k < n /\ pattern[k + 1] # Star
    <3>1. e # k /\ k + 1 \in 1..n
      BY <1>1, <2>1, <2>4 DEF PartEnds
    <3>2. PartHas(pattern, k + 1, e)
      <4>1. PartStart(pattern, e) \in 1..e
        BY <2>1, PartStarts
      <4>2. QED
        BY <1>1, <2>1, <3>1, <4>1 DEF PartHas, Run
    <3>3. End(k) = CHOOSE x : PartHas(pattern, k + 1, x)
      BY <2>4
    <3> HIDE DEF End
    <3>4. \A x : PartHas(pattern, k + 1, x) => x = e
      BY <3>1, <3>2, OnePartHas
    <3>5. End(k) = e
      BY <3>2, <3>3, <3>4
    <3>6. QED
      BY <2>3, <3>5
  <2>5. CASE ~(k < n /\ pattern[k + 1] # Star)
    <3>1. End(k) = k
      BY <2>5
    <3> HIDE DEF End
    <3>2. e = k
      BY <2>1, <2>5 DEF Run
    <3>3. QED
      BY <2>3, <3>1, <3>2
  <2>6. QED
    BY <2>4, <2>5
<1>9. ASSUME NEW k \in 0..n, k = n \/ pattern[k + 1] = Star PROVE End(k) = k
  BY <1>9
<1>10. \A k \in 0..n : reach[k] = At(End(k)) - (End(k) - k)
  OBVIOUS
<1>11. DOMAIN reach = 0..n /\ reach = [k \in 0..n |-> reach[k]]
  OBVIOUS
<1> HIDE DEF End, At, reach
<1>12. ASSUME NEW k \in 1..n, NEW e, PartHas(pattern, k, e)
       PROVE  reach[k - 1] = At(e) - (e - (k - 1)) /\ reach[k] = At(e) - (e - k)
  BY <1>8, <1>10, <1>12
<1>13. ASSUME NEW k \in 0..n, k = n \/ pattern[k + 1] = Star PROVE reach[k] = At(k)
  <2>1. reach[k] = At(k) - (k - k) /\ At(k) \in 0..m
    BY <1>4, <1>9, <1>10, <1>13
  <2>2. QED
    BY <2>1
<1>14. ASSUME NEW k \in 0..n PROVE reach[k] \in 0..m
  <2>1. CASE k = n \/ pattern[k + 1] = Star
    BY <1>4, <1>13, <2>1
  <2>2. CASE ~(k = n \/ pattern[k + 1] = Star)
    <3>1. k + 1 \in 1..n /\ (k + 1) - 1 = k
      BY <2>2
    <3>2. PICK e : PartHas(pattern, k + 1, e)
      BY <1>6, <2>2, <3>1
    <3>3. reach[k] = At(e) - (e - k)
      BY <1>12, <3>1, <3>2
    <3> DEFINE i == PartStart(pattern, e)
    <3>4. /\ e \in (k + 1)..n /\ i \in 1..(k + 1) /\ At(e) \in 0..m
          /\ At(e) - (e - i + 1) \in 0..(Len(value) - Len(Part(pattern, e)))
      BY <1>7, <3>1, <3>2 DEF Occurs
    <3> HIDE DEF i
    <3>5. At(e) - (e - i + 1) >= 0
      BY <3>4
    <3>6. QED
      BY <3>3, <3>4, <3>5
  <2>3. QED
    BY <2>1, <2>2
<1>15. reach \in [0..n -> 0..m]
  BY <1>11, <1>14
<1>16. reach[0] = 0
  <2>1. CASE pattern[1] = Star
    <3>1. reach[0] = At(0) /\ At(0) = p[0]
      BY <1>4, <1>13, <2>1
    <3>2. QED
      BY <1>2, <3>1
  <2>2. CASE pattern[1] # Star
    <3> DEFINE e == Min(PartEnds(pattern))
    <3>1. e \in PartEnds(pattern) /\ PartStart(pattern, e) = 1 /\ StartsWith(value, Part(pattern, e))
      BY <2>2, FirstPart DEF FoundInOrder
    <3> HIDE DEF e
    <3>2. e \in 1..n /\ Run(pattern, 1, e)
      BY <3>1, PartStarts
    <3>3. PartHas(pattern, 1, e)
      BY <1>1, <3>1, <3>2 DEF PartHas
    <3>4. e # n
      BY <3>2 DEF Run
    <3>5. At(e) = p[e] /\ Len(Part(pattern, e)) = e /\ p[e] - e >= p[0]
      <4>1. 1 \in 1..n /\ e \in 0..n /\ e - 1 + 1 = e /\ 1 - 1 = 0
        BY <3>2
      <4>2. /\ Len(Part(pattern, e)) = e - PartStart(pattern, e) + 1
            /\ At(e) - Len(Part(pattern, e)) >= p[PartStart(pattern, e) - 1]
        BY <1>7, <3>3, <4>1
      <4>3. At(e) = p[e]
        BY <1>4, <3>4, <4>1
      <4>4. QED
        BY <3>1, <4>1, <4>2, <4>3
    <3>6. p[e] = After(value, Part(pattern, e), 0)
      <4>1. p[e - 1] = p[1 - 1]
        BY <1>1, <3>2, SearchStays DEF p
      <4>2. QED
        BY <1>2, <3>1, <3>2, <4>1
    <3>7. p[e] <= e
      <4>1. 0 \in -1..Len(value) /\ Len(value) \in Nat /\ Len(Part(pattern, e)) \in Nat
        BY <1>1, <3>2, <3>5
      <4>2. After(value, Part(pattern, e), 0) <= 0 + Len(Part(pattern, e))
        BY <3>1, <4>1, AfterIs DEF StartsWith
      <4>3. QED
        BY <3>2, <3>5, <3>6, <4>2
    <3>8. reach[0] = At(e) - e
      BY <1>12, <3>2, <3>3
    <3>9. p[e] \in 0..m
      BY <1>3, <3>2
    <3>10. QED
      BY <1>2, <3>2, <3>5, <3>7, <3>8, <3>9
  <2>3. QED
    BY <2>1, <2>2
<1>17. ASSUME NEW j \in 1..n, pattern[j] = Star PROVE reach[j - 1] <= reach[j]
  <2>1. j - 1 \in 0..n /\ j - 1 # n /\ (j - 1) + 1 = j
    OBVIOUS
  <2>2. reach[j - 1] = p[j - 1] /\ p[j - 1] \in 0..m
    BY <1>3, <1>4, <1>13, <1>17, <2>1
  <2>3. p[j] = p[j - 1]
    <3>1. j \notin PartEnds(pattern)
      BY <1>17 DEF PartEnds
    <3>2. QED
      BY <1>2, <3>1
  <2>4. CASE j = n
    BY <1>5, <1>13, <2>2, <2>4
  <2>5. CASE j # n /\ pattern[j + 1] = Star
    BY <1>4, <1>13, <2>2, <2>3, <2>5
  <2>6. CASE j # n /\ pattern[j + 1] # Star
    <3>1. j + 1 \in 1..n /\ (j + 1) - 1 = j
      BY <2>6
    <3>2. PICK e : PartHas(pattern, j + 1, e)
      BY <1>6, <2>6, <3>1
    <3> DEFINE i == PartStart(pattern, e)
    <3>3. reach[j] = At(e) - (e - j)
      BY <1>12, <3>1, <3>2
    <3>4. /\ e \in (j + 1)..n /\ i \in 1..(j + 1) /\ Run(pattern, i, e)
          /\ At(e) \in 0..m /\ At(e) - (e - i + 1) >= p[i - 1]
      BY <1>7, <3>1, <3>2
    <3> HIDE DEF i
    <3>5. i = j + 1
      <4>1. ~(i <= j)
        BY <1>17, <3>4 DEF Run
      <4>2. QED
        BY <3>4, <4>1
    <3>6. At(e) - (e - j) >= p[j]
      BY <3>4, <3>5
    <3>7. QED
      BY <2>2, <2>3, <3>3, <3>4, <3>6
  <2>7. QED
    BY <2>4, <2>5, <2>6
<1>18. ASSUME NEW j \in 1..n, pattern[j] # Star
       PROVE  reach[j] = reach[j - 1] + 1 /\ value[reach[j]] = pattern[j]
  <2>1. PICK e : PartHas(pattern, j, e)
    BY <1>6, <1>18
  <2> DEFINE i == PartStart(pattern, e)
             part == Part(pattern, e)
  <2>2. reach[j - 1] = At(e) - (e - (j - 1)) /\ reach[j] = At(e) - (e - j)
    BY <1>12, <2>1
  <2>3. /\ e \in j..n /\ i \in 1..j /\ Len(part) = e - i + 1 /\ part[j - i + 1] = pattern[j]
        /\ At(e) \in 0..m /\ Occurs(value, part, At(e) - Len(part))
    BY <1>7, <2>1
  <2> HIDE DEF i, part
  <2>4. reach[j] = reach[j - 1] + 1
    BY <2>2, <2>3
  <2> DEFINE k == j - i + 1
             q == At(e)
             l == Len(part)
  <2>5. k \in 1..l /\ (q - l) + k = q - (e - j)
    BY <2>3
  <2>6. value[(q - l) + k] = part[k]
    BY <2>3, <2>5 DEF Occurs
  <2>7. QED
    BY <2>2, <2>3, <2>4, <2>5, <2>6
<1>19. reach[n] = m
  BY <1>5, <1>13
<1>20. Lies(value, pattern, reach)
  BY <1>1, <1>16, <1>17, <1>18, <1>19 DEF Lies
<1>21. QED
  BY <1>1, <1>15, <1>20 DEF Means

-----------------------------------------------------------------------------
\* A pattern without a star means itself.
LEMMA LettersMeanThemselves ==
    ASSUME NEW n \in Nat, NEW pattern, Indexed(pattern, n), NEW m \in Nat, NEW value, Indexed(value, m),
           \A j \in 1..n : pattern[j] # Star
    PROVE  Means(value, pattern) <=> value = pattern
<1>1. Len(value) = m /\ Len(pattern) = n
  BY Lengths
<1>2. ASSUME value = pattern PROVE Means(value, pattern)
  <2> DEFINE reach == [k \in 0..n |-> k]
  <2>1. m = n
    BY <1>1, <1>2
  <2>2. reach \in [0..n -> 0..m]
    BY <2>1
  <2>3. ASSUME NEW j \in 1..n PROVE reach[j] = reach[j - 1] + 1 /\ value[reach[j]] = pattern[j]
    <3>1. reach[j] = j /\ reach[j - 1] = j - 1
      OBVIOUS
    <3> HIDE DEF reach
    <3>2. QED
      BY <1>2, <3>1
  <2>4. reach[0] = 0 /\ reach[n] = m
    BY <2>1
  <2> HIDE DEF reach
  <2>5. Lies(value, pattern, reach)
    BY <1>1, <2>3, <2>4 DEF Lies
  <2>6. QED
    BY <1>1, <2>2, <2>5 DEF Means
<1>3. ASSUME Means(value, pattern) PROVE value = pattern
  <2>1. PICK reach \in [0..n -> 0..m] : Lies(value, pattern, reach)
    BY <1>1, <1>3 DEF Means
  <2>2. reach[0] = 0 /\ reach[n] = m
    BY <1>1, <2>1 DEF Lies
  <2>3. ASSUME NEW j \in 1..n PROVE reach[j] = j /\ value[j] = pattern[j]
    <3>1. 1 \in 1..n /\ j \in 1..n /\ Run(pattern, 1, j)
      BY DEF Run
    <3>2. reach[j] = reach[1 - 1] + (j - 1 + 1)
      BY <2>1, <3>1, LaidRun
    <3>3. reach[j] = j
      BY <2>2, <3>2
    <3>4. value[reach[j]] = pattern[j]
      BY <1>1, <2>1 DEF Lies
    <3>5. QED
      BY <3>3, <3>4
  <2>4. m = n
    <3>1. CASE n = 0
      BY <2>2, <3>1
    <3>2. CASE n # 0
      <4>1. n \in 1..n
        BY <3>2
      <4>2. QED
        BY <2>2, <2>3, <4>1
    <3>3. QED
      BY <3>1, <3>2
  <2>5. value = [j \in 1..n |-> value[j]] /\ pattern = [j \in 1..n |-> pattern[j]]
    BY <2>4 DEF Indexed
  <2>6. QED
    BY <2>3, <2>5
<1>4. QED
  BY <1>2, <1>3

\* A pattern of stars means every name.
LEMMA StarsMeanAll ==
    ASSUME NEW n \in Nat, n # 0, NEW pattern, Indexed(pattern, n), NEW m \in Nat, NEW value, Indexed(value, m),
           PartEnds(pattern) = {}
    PROVE  Means(value, pattern)
<1>1. Len(value) = m /\ Len(pattern) = n
  BY Lengths
<1>2. ASSUME NEW j \in 1..n PROVE pattern[j] = Star
  <2>1. pattern[j] # Star => \E e \in PartEnds(pattern) : TRUE
    BY PartOf
  <2>2. QED
    BY <2>1
<1> DEFINE reach == [k \in 0..n |-> IF k = n THEN m ELSE 0]
<1>3. reach \in [0..n -> 0..m] /\ reach[0] = 0 /\ reach[n] = m
  OBVIOUS
<1>4. ASSUME NEW j \in 1..n PROVE reach[j - 1] <= reach[j]
  <2>1. reach[j - 1] = 0 /\ reach[j] \in 0..m
    OBVIOUS
  <2> HIDE DEF reach
  <2>2. QED
    BY <2>1
<1> HIDE DEF reach
<1>5. Lies(value, pattern, reach)
  BY <1>1, <1>2, <1>3, <1>4 DEF Lies
<1>6. QED
  BY <1>1, <1>3, <1>5 DEF Means

\* The search for one part after the other decides every pattern
\* (access-control.manager.ts:408-450): over any letters, for names and patterns of any
\* length, with parts that overlap or occur several times in the name.
THEOREM PatternsAlwaysMatch ==
    ASSUME PatternsAssumption
    PROVE  PatternsSpec => []PatternsMatch
<1>1. ASSUME NEW value \in QueueNames, NEW pattern \in QueuePatterns
      PROVE  MatchesPattern(value, pattern) <=> Means(value, pattern)
  <2>1. PICK m \in 0..MaxLength : value \in [1..m -> Letters]
    BY DEF QueueNames
  <2>2. PICK n \in 0..MaxLength : pattern \in [1..n -> Letters \union {Star}]
    BY DEF QueuePatterns
  <2>3. m \in Nat /\ n \in Nat /\ Indexed(value, m) /\ Indexed(pattern, n)
    <3>1. m \in Nat /\ n \in Nat
      BY PatternsAssumption DEF PatternsAssumption
    <3>2. Indexed(value, m)
      BY <2>1 DEF Indexed
    <3>3. Indexed(pattern, n)
      BY <2>2 DEF Indexed
    <3>4. QED
      BY <3>1, <3>2, <3>3
  <2>4. Len(value) = m /\ Len(pattern) = n
    BY <2>3, Lengths
  <2>5. CASE \A j \in 1..n : pattern[j] # Star
    <3>1. Means(value, pattern) <=> value = pattern
      BY <2>3, <2>5, LettersMeanThemselves
    <3>2. pattern # <<Star>>
      <4>1. ASSUME pattern = <<Star>> PROVE FALSE
        <5>1. n = 1 /\ pattern[1] = Star
          BY <2>4, <4>1
        <5>2. QED
          BY <2>5, <5>1
      <4>2. QED
        BY <4>1
    <3>3. MatchesWildcardPattern(value, pattern) <=> value = pattern
      BY <2>4, <2>5 DEF MatchesWildcardPattern
    <3>4. QED
      BY <3>1, <3>2, <3>3 DEF MatchesPattern
  <2>6. CASE \E j \in 1..n : pattern[j] = Star
    <3>1. PICK s \in 1..n : pattern[s] = Star
      BY <2>6
    <3>2. n # 0
      BY <2>3, <3>1
    <3>3. MatchesWildcardPattern(value, pattern) <=> PartEnds(pattern) = {} \/ FoundInOrder(value, pattern)
      BY <2>4, <3>1 DEF MatchesWildcardPattern, FoundInOrder
    <3>4. pattern # value
      <4>1. ASSUME pattern = value PROVE FALSE
        <5>1. m = n /\ value[s] = Star
          BY <2>4, <3>1, <4>1
        <5>2. value[s] \in Letters
          BY <2>1, <3>1, <5>1
        <5>3. QED
          BY <5>1, <5>2, PatternsAssumption DEF PatternsAssumption
      <4>2. QED
        BY <4>1
    <3>5. CASE PartEnds(pattern) = {}
      <4>1. Means(value, pattern)
        BY <2>3, <3>2, <3>5, StarsMeanAll
      <4>2. QED
        BY <3>3, <3>5, <4>1 DEF MatchesPattern
    <3>6. CASE PartEnds(pattern) # {}
      <4>1. pattern # <<Star>>
        <5>1. ASSUME pattern = <<Star>> PROVE PartEnds(pattern) = {}
          <6>1. n = 1 /\ pattern[1] = Star
            BY <2>4, <5>1
          <6>2. QED
            BY <2>4, <6>1 DEF PartEnds
        <5>2. QED
          BY <3>6, <5>1
      <4>2. FoundInOrder(value, pattern) <=> Means(value, pattern)
        BY <2>3, <3>1, <3>2, FoundIsMeant, MeantIsFound
      <4>3. QED
        BY <3>3, <3>4, <3>6, <4>1, <4>2 DEF MatchesPattern
    <3>7. QED
      BY <3>5, <3>6
  <2>7. QED
    BY <2>5, <2>6
<1>2. ASSUME PatternsInit PROVE PatternsMatch
  <2>1. question[1] \in QueueNames /\ question[2] \in QueuePatterns
    BY <1>2 DEF PatternsInit
  <2>2. QED
    BY <1>1, <2>1 DEF PatternsMatch
<1>3. ASSUME PatternsMatch, [FALSE]_question PROVE PatternsMatch'
  <2>1. question' = question
    BY <1>3
  <2>2. QED
    BY <1>3, <2>1 DEF PatternsMatch
<1>4. QED
  BY <1>2, <1>3, PTL DEF PatternsSpec
=============================================================================
