--------------------------- MODULE ManagerProofs ---------------------------
(***************************************************************************)
(* What the managers that poll or cache what Redis holds satisfy, for any  *)
(* number of ids, fields, workflows, dependencies, regions, callers,       *)
(* commands in flight, faults and failovers: CachedStore, Webhook,         *)
(* JobChain and GlobalQueue, each under its own assumption.  But for a     *)
(* webhook's configurations, which are CachedStore's, they share the       *)
(* lemmas on what is on a wire.                                            *)
(***************************************************************************)
EXTENDS Webhook, JobChain, GlobalQueue, SequenceTheorems, FiniteSetTheorems, TLAPS

\* A sequence of commands, its end and its rest.
LEMMA Sequence ==
    ASSUME NEW T, NEW w \in Seq(T)
    PROVE  /\ Len(w) \in Nat /\ DOMAIN w = 1..Len(w)
           /\ \A n \in 1..Len(w) : w[n] \in T
           /\ \A c \in T : /\ Append(w, c) \in Seq(T)
                           /\ Len(Append(w, c)) = Len(w) + 1
                           /\ \A n \in 1..Len(w) : Append(w, c)[n] = w[n]
                           /\ Append(w, c)[Len(w) + 1] = c
           /\ w # <<>> => /\ Len(w) >= 1 /\ Head(w) = w[1] /\ Head(w) \in T
                          /\ Tail(w) \in Seq(T)
                          /\ Len(Tail(w)) = Len(w) - 1
                          /\ \A n \in 1..Len(Tail(w)) : Tail(w)[n] = w[n + 1]
  OBVIOUS

\* What is left when the oldest element goes, and perhaps another one comes.
LEMMA Shifted ==
    ASSUME NEW T, NEW w \in Seq(T), w # <<>>
    PROVE  /\ 1 \in DOMAIN w /\ Head(w) = w[1] /\ Head(w) \in T
           /\ \A n \in DOMAIN Tail(w) : /\ n \in Nat /\ n + 1 \in DOMAIN w /\ n + 1 # 1
                                       /\ Tail(w)[n] = w[n + 1]
           /\ \A c \in T : \A n \in DOMAIN Append(Tail(w), c) :
                 /\ n \in Nat
                 /\ \/ n + 1 \in DOMAIN w /\ n + 1 # 1 /\ Append(Tail(w), c)[n] = w[n + 1]
                    \/ n = Len(w) /\ Append(Tail(w), c)[n] = c
<1>1. /\ Len(w) \in Nat /\ Len(w) >= 1 /\ DOMAIN w = 1..Len(w)
      /\ Head(w) = w[1] /\ Head(w) \in T
      /\ Tail(w) \in Seq(T) /\ Len(Tail(w)) = Len(w) - 1
      /\ \A n \in 1..Len(Tail(w)) : Tail(w)[n] = w[n + 1]
  BY Sequence
<1>2. DOMAIN Tail(w) = 1..(Len(w) - 1)
  BY <1>1, Sequence
<1>3. ASSUME NEW c \in T
      PROVE  /\ DOMAIN Append(Tail(w), c) = 1..Len(w)
             /\ \A n \in 1..(Len(w) - 1) : Append(Tail(w), c)[n] = Tail(w)[n]
             /\ Append(Tail(w), c)[Len(w)] = c
  <2>1. /\ Append(Tail(w), c) \in Seq(T) /\ Len(Append(Tail(w), c)) = Len(w) - 1 + 1
        /\ \A n \in 1..(Len(w) - 1) : Append(Tail(w), c)[n] = Tail(w)[n]
        /\ Append(Tail(w), c)[Len(w) - 1 + 1] = c
    BY <1>1, <1>3, Sequence
  <2>2. QED
    BY <1>1, <2>1, Sequence
<1>4. QED
  BY <1>1, <1>2, <1>3

-----------------------------------------------------------------------------
(***************************************************************************)
(* CachedStore: the caches of managers, and what a partial update keeps.   *)
(***************************************************************************)
LEMMA Merges ==
    ASSUME CachedStoreAssumption, NEW patch \in Patch, NEW config \in Config
    PROVE  Applied(patch, config) \in Config /\ Merge(config, patch) = Applied(patch, config)
           /\ Applied(patch, config) # None /\ patch # None
<1>1. PICK S \in SUBSET Fields : patch \in [S -> Values]
  BY DEF Patch
<1>2. Applied(patch, config) \in Config
  BY <1>1 DEF Applied, Config
<1>3. QED
  BY <1>2 DEF Merge, CachedStoreAssumption

LEMMA Commands ==
    ASSUME NEW op \in {"set", "del", "get"}, NEW i \in Ids, NEW config \in Value,
           NEW patch \in Patch \union {None}
    PROVE  Command(op, i, config, patch) \in CommandType
  BY DEF Command, CommandType

\* The commands a send or an answer leaves on the wire.
LEMMA Wires ==
    ASSUME NEW w \in Seq(CommandType), NEW c \in CommandType
    PROVE  /\ Append(w, c) \in Seq(CommandType)
           /\ Len(Append(w, c)) = Len(w) + 1
           /\ \A n \in 1..Len(w) : Append(w, c)[n] = w[n]
           /\ Append(w, c)[Len(w) + 1] = c
           /\ w # <<>> => /\ Len(w) >= 1 /\ Head(w) = w[1] /\ Head(w) \in CommandType
                          /\ Tail(w) \in Seq(CommandType)
                          /\ Len(Tail(w)) = Len(w) - 1
                          /\ \A n \in 1..Len(Tail(w)) : Tail(w)[n] = w[n + 1]
  OBVIOUS

(***************************************************************************)
(* Type correctness.                                                       *)
(***************************************************************************)
LEMMA TypeInit == ASSUME CachedStoreAssumption, Init PROVE TypeOK
  BY DEF Init, TypeOK, Value

LEMMA SendTypes ==
    ASSUME TypeOK, NEW c \in CommandType, Send(c), cache' \in [Ids -> Value]
    PROVE  TypeOK'
<1>1. wire' \in Seq(CommandType)
  BY Wires DEF Send, TypeOK
<1>2. contended' \subseteq Ids
  BY DEF Send, TypeOK, CommandType
<1>3. QED
  BY <1>1, <1>2 DEF Send, TypeOK

LEMMA AnswerTypes == ASSUME CachedStoreAssumption, TypeOK, Answer PROVE TypeOK'
<1> DEFINE c == Head(wire)
           found == Stored(c)
           merged == Command("set", c.id, Merge(found, c.patch), c.patch)
           again == c.op = "get" /\ c.patch # None /\ found # None
<1>1. wire \in Seq(CommandType) /\ wire # <<>>
  BY DEF TypeOK, Answer
<1>2. c \in CommandType /\ Tail(wire) \in Seq(CommandType)
  BY <1>1, Wires
<1>3. c.id \in Ids /\ c.config \in Value /\ c.patch \in Patch \union {None}
  BY <1>2 DEF CommandType
<1>4. found \in Value
  BY <1>3 DEF Stored, TypeOK
<1>5. store' \in [Ids -> Value] /\ cache' \in [Ids -> Value]
  BY <1>3, <1>4 DEF TypeOK, Answer
<1>6. wire' \in Seq(CommandType)
  <2>1. CASE again
    <3>1. found \in Config /\ c.patch \in Patch
      BY <1>3, <1>4, <2>1 DEF Value
    <3>2. Merge(found, c.patch) \in Value
      BY <3>1, Merges DEF Value
    <3>3. merged \in CommandType
      BY <1>3, <3>2, Commands
    <3>4. wire' = Append(Tail(wire), merged)
      BY <2>1 DEF Answer
    <3>5. QED
      BY <1>2, <3>3, <3>4, Wires
  <2>2. CASE ~again
    BY <1>2, <2>2 DEF Answer
  <2>3. QED
    BY <2>1, <2>2
<1>7. wanted' \in [Ids -> Value]
  <2>1. \A v \in Value : v # None /\ c.patch # None => Applied(c.patch, v) \in Value
    BY <1>3, Merges DEF Value
  <2>2. wanted \in [Ids -> Value] /\ wanted[c.id] \in Value
    BY <1>3 DEF TypeOK
  <2>3. QED
    BY <1>3, <2>1, <2>2 DEF Answer
<1>8. faults' \in Nat /\ unsure' \subseteq Ids /\ contended' \subseteq Ids
  BY DEF Answer, TypeOK
<1>9. QED
  BY <1>5, <1>6, <1>7, <1>8 DEF TypeOK

LEMMA TypeStep == ASSUME CachedStoreAssumption, TypeOK, [Next]_vars PROVE TypeOK'
<1>1. ASSUME NEW i \in Ids, NEW config \in Config, Put(i, config) PROVE TypeOK'
  BY <1>1, Commands, SendTypes DEF Put, Value, TypeOK
<1>2. ASSUME NEW i \in Ids, NEW patch \in Patch, Update(i, patch) PROVE TypeOK'
  <2>1. None \in Value /\ cache[i] \in Value
    BY DEF TypeOK, Value
  <2>2. cache[i] # None => Merge(cache[i], patch) \in Value
    BY <2>1, Merges DEF Value
  <2>3. QED
    BY <1>2, <2>1, <2>2, Commands, SendTypes DEF Update, TypeOK
<1>3. ASSUME NEW i \in Ids, NEW v \in Config \union {None}, Foreign(i, v) PROVE TypeOK'
  BY <1>3 DEF Foreign, Fault, TypeOK, Value
<1>4. ASSUME NEW i \in Ids, Get(i) \/ Delete(i) PROVE TypeOK'
  BY <1>4, Commands, SendTypes DEF Get, Delete, Value, TypeOK
<1>5. CASE Answer
  BY <1>5, AnswerTypes
<1>6. ASSUME NEW executed \in BOOLEAN, Reject(executed) PROVE TypeOK'
  <2>1. Head(wire) \in CommandType /\ Tail(wire) \in Seq(CommandType)
    BY <1>6, Wires DEF TypeOK, Reject
  <2>2. Head(wire).id \in Ids /\ Stored(Head(wire)) \in Value
    BY <2>1 DEF CommandType, Stored, TypeOK
  <2>3. QED
    BY <1>6, <2>1, <2>2 DEF Reject, Fault, TypeOK
<1>7. CASE UNCHANGED vars
  BY <1>7 DEF vars, TypeOK
<1>8. QED
  BY <1>1, <1>2, <1>3, <1>4, <1>5, <1>6, <1>7 DEF Next

\* The values the variables take, for tenants and webhooks alike
\* (access-control.manager.ts:35-150, webhook.manager.ts:37-158).
THEOREM TypeCorrect == ASSUME CachedStoreAssumption PROVE Spec => []TypeOK
<1>1. Init => TypeOK
  BY TypeInit
<1>2. TypeOK /\ [Next]_vars => TypeOK'
  BY TypeStep
<1>3. QED
  BY <1>1, <1>2, PTL DEF Spec

(***************************************************************************)
(* CacheAgrees.  A reply caches what Redis ran the command to; nothing     *)
(* else changes Redis but what makes the id unsure.                        *)
(***************************************************************************)
LEMMA AgreesStep == ASSUME TypeOK, CacheAgrees, [Next]_vars PROVE CacheAgrees'
<1>1. CASE UNCHANGED <<store, cache>> /\ unsure \subseteq unsure'
  BY <1>1 DEF CacheAgrees
<1>2. CASE Answer
  <2>1. Head(wire) \in CommandType
    BY <1>2, Wires DEF TypeOK, Answer
  <2> DEFINE i == Head(wire).id
  <2>2. i \in Ids /\ store'[i] = Stored(Head(wire)) /\ unsure \ {i} \subseteq unsure'
    BY <1>2, <2>1 DEF Answer, TypeOK, CommandType
  <2>3. \A j \in Ids \ {i} : store'[j] = store[j] /\ cache'[j] = cache[j]
    BY <1>2, <2>2 DEF Answer, TypeOK
  <2>4. \/ cache'[i] = store'[i]
        \/ Head(wire).op = "get" /\ store'[i] = None /\ cache'[i] = cache[i]
    <3>. DEFINE c == Head(wire)
    <3>0. cache' = [cache EXCEPT ![c.id] = IF c.op = "get" /\ Stored(c) = None THEN @ ELSE Stored(c)]
      BY <1>2, Zenon DEF Answer
    <3>. HIDE DEF c
    <3>1. cache'[i] = IF Head(wire).op = "get" /\ Stored(Head(wire)) = None
                      THEN cache[i] ELSE Stored(Head(wire))
      BY <2>2, <3>0 DEF TypeOK, c
    <3>2. QED
      BY <2>2, <3>1
  <2>5. CASE Head(wire).op = "get"
    <3>1. store'[i] = store[i] /\ unsure' = unsure
      BY <1>2, <2>2, <2>5 DEF Answer, Stored
    <3>2. QED
      BY <2>2, <2>3, <2>4, <3>1 DEF CacheAgrees
  <2>6. CASE Head(wire).op # "get"
    BY <2>2, <2>3, <2>4, <2>6 DEF CacheAgrees
  <2>7. QED
    BY <2>5, <2>6
<1>3. ASSUME NEW i \in Ids, Fault(i), UNCHANGED cache, \A j \in Ids \ {i} : store'[j] = store[j]
      PROVE  CacheAgrees'
  BY <1>3 DEF Fault, CacheAgrees
<1>4. ASSUME NEW executed \in BOOLEAN, Reject(executed) PROVE CacheAgrees'
  <2>1. Head(wire) \in CommandType
    BY <1>4, Wires DEF TypeOK, Reject
  <2>. Head(wire).id \in Ids
    BY <2>1 DEF CommandType
  <2>2. \A j \in Ids \ {Head(wire).id} : store'[j] = store[j]
    BY <1>4, <2>1 DEF Reject, TypeOK
  <2>3. QED
    BY <1>3, <1>4, <2>1, <2>2 DEF Reject
<1>5. ASSUME NEW i \in Ids, NEW v \in Config \union {None}, Foreign(i, v) PROVE CacheAgrees'
  BY <1>3, <1>5 DEF Foreign, TypeOK
<1>6. ASSUME NEW c, Send(c), UNCHANGED cache PROVE CacheAgrees'
  BY <1>1, <1>6 DEF Send
<1>8. ASSUME NEW i \in Ids,
             \/ \E config \in Config : Put(i, config)
             \/ \E patch \in Patch : Update(i, patch)
             \/ Get(i) \/ Delete(i)
      PROVE  CacheAgrees'
  BY <1>6, <1>8 DEF Put, Update, Get, Delete
<1>7. CASE UNCHANGED vars
  BY <1>1, <1>7 DEF vars
<1>9. QED
  BY <1>2, <1>4, <1>5, <1>7, <1>8 DEF Next

\* A cached configuration is the stored one, in every order of reads, writes and
\* deletions: what getTenant and getWebhook answer from their Map is what Redis holds
\* (access-control.manager.ts:35-150, webhook.manager.ts:37-158).
THEOREM CacheAgreesAlways == ASSUME CachedStoreAssumption PROVE Spec => []CacheAgrees
<1>1. Init => TypeOK /\ CacheAgrees
  BY TypeInit DEF Init, CacheAgrees
<1>2. TypeOK /\ CacheAgrees /\ [Next]_vars => TypeOK' /\ CacheAgrees'
  BY TypeStep, AgreesStep
<1>3. QED
  BY <1>1, <1>2, PTL DEF Spec

(***************************************************************************)
(* UpdatesKept.  An id that is not contended has one write in flight at    *)
(* most; if that is an update, it was merged into what Redis still holds.  *)
(***************************************************************************)
OneWrite ==
    \A m, n \in 1..Len(wire) :
        m # n /\ Writes(wire[m]) /\ Writes(wire[n]) /\ wire[m].id = wire[n].id
            => wire[n].id \in contended

Based(c) ==
    c.op # "get" /\ c.patch # None /\ c.id \notin contended
        => store[c.id] # None /\ c.config = Applied(c.patch, store[c.id])

BasedNext(c) ==
    c.op # "get" /\ c.patch # None /\ c.id \notin contended'
        => store'[c.id] # None /\ c.config = Applied(c.patch, store'[c.id])

KeptInv ==
    /\ OneWrite /\ \A n \in 1..Len(wire) : Based(wire[n])
    /\ unsure \subseteq contended
    /\ UpdatesKept

LEMMA SendKept ==
    ASSUME TypeOK, KeptInv, NEW c \in CommandType, Send(c),
           c.op # "get" /\ c.patch # None /\ c.id \notin unsure =>
              store[c.id] # None /\ c.config = Applied(c.patch, store[c.id])
    PROVE  KeptInv'
<1>1. contended \subseteq contended' /\ UNCHANGED <<store, unsure, wanted>>
  BY DEF Send
<1>2. /\ Len(wire) \in Nat /\ Len(wire') = Len(wire) + 1 /\ wire'[Len(wire) + 1] = c
      /\ \A n \in 1..Len(wire) : wire'[n] = wire[n]
  BY Wires DEF Send, TypeOK
<1>3. OneWrite'
  <2>1. SUFFICES ASSUME NEW m \in 1..Len(wire'), NEW n \in 1..Len(wire'), m # n,
                        Writes(wire'[m]), Writes(wire'[n]), wire'[m].id = wire'[n].id
                 PROVE  wire'[n].id \in contended'
    BY DEF OneWrite, Writes
  <2>2. CASE m \in 1..Len(wire) /\ n \in 1..Len(wire)
    BY <1>1, <1>2, <2>1, <2>2 DEF KeptInv, OneWrite
  <2>3. ASSUME NEW k \in 1..Len(wire), Writes(wire[k]), Writes(c), wire[k].id = c.id
        PROVE  c.id \in contended'
    BY <2>3 DEF Send, TypeOK
  <2>4. QED
    BY <1>2, <2>1, <2>2, <2>3
<1>4. ASSUME NEW n \in 1..Len(wire') PROVE Based(wire[n])'
  <2>1. CASE n \in 1..Len(wire)
    BY <1>1, <1>2, <2>1 DEF KeptInv, Based
  <2>2. CASE n = Len(wire) + 1
    BY <1>1, <1>2, <2>2 DEF KeptInv, Based
  <2>3. QED
    BY <1>2, <2>1, <2>2
<1>5. QED
  BY <1>1, <1>3, <1>4 DEF KeptInv, UpdatesKept

\* What is in flight behind the command answered: none of it writes the same id, if
\* the command does and the id is not contended.
LEMMA NoOtherWrite ==
    ASSUME TypeOK, KeptInv, wire # <<>>, Writes(Head(wire)), NEW n \in 2..Len(wire),
           wire[n].id = Head(wire).id, Head(wire).id \notin contended
    PROVE  ~Writes(wire[n])
<1>1. Head(wire) = wire[1] /\ 1 \in 1..Len(wire) /\ n \in 1..Len(wire) /\ n # 1
  BY Wires DEF TypeOK
<1>2. QED
  BY <1>1 DEF KeptInv, OneWrite

LEMMA AnswerKept ==
    ASSUME CachedStoreAssumption, TypeOK, KeptInv, CacheAgrees, Answer
    PROVE  KeptInv'
<1> DEFINE c == Head(wire)
           merged == Command("set", c.id, Merge(store[c.id], c.patch), c.patch)
           again == c.op = "get" /\ c.patch # None /\ store[c.id] # None
<1>0. /\ wire \in Seq(CommandType) /\ wire # <<>> /\ Len(wire) \in Nat /\ Len(wire) >= 1
      /\ c = wire[1] /\ c \in CommandType /\ Tail(wire) \in Seq(CommandType)
      /\ Len(Tail(wire)) = Len(wire) - 1
      /\ \A n \in 1..Len(Tail(wire)) : Tail(wire)[n] = wire[n + 1]
  BY Wires DEF TypeOK, Answer
<1>1. c.id \in Ids /\ c.op \in {"set", "del", "get"} /\ c.patch \in Patch \union {None}
  BY <1>0 DEF CommandType
<1>2. contended' = contended /\ unsure' \subseteq contended'
  BY DEF Answer, KeptInv
<1>3. \A n \in 2..Len(wire) :
         Writes(c) /\ wire[n].id = c.id /\ c.id \notin contended => ~Writes(wire[n])
  BY <1>0, NoOtherWrite
<1>4. \A j \in Ids \ {c.id} : store'[j] = store[j] /\ wanted'[j] = wanted[j]
  BY <1>1 DEF Answer, TypeOK
<1>5. UpdatesKept'
  <2>1. CASE c.op = "get"
    <3>1. store' = store /\ wanted' = wanted
      BY <1>1, <2>1 DEF Answer, Stored, TypeOK
    <3>2. QED
      BY <1>2, <3>1 DEF KeptInv, UpdatesKept
  <2>2. CASE c.op # "get" /\ c.id \notin contended
    <3>1. store'[c.id] = c.config
      BY <1>1, <2>2 DEF Answer, Stored, TypeOK
    <3>2. wanted'[c.id] = IF c.patch = None \/ wanted[c.id] = None THEN c.config
                          ELSE Applied(c.patch, wanted[c.id])
      BY <1>1, <2>2 DEF Answer, TypeOK
    <3>3. wanted[c.id] = store[c.id]
      BY <1>1, <2>2 DEF KeptInv, UpdatesKept
    <3>4. c.patch # None => c.config = Applied(c.patch, store[c.id])
      BY <1>0, <2>2 DEF KeptInv, Based
    <3>5. store'[c.id] = wanted'[c.id]
      BY <3>1, <3>2, <3>3, <3>4
    <3>6. QED
      BY <1>2, <1>4, <3>5 DEF KeptInv, UpdatesKept
  <2>3. CASE c.id \in contended
    BY <1>2, <1>4, <2>3 DEF KeptInv, UpdatesKept
  <2>4. QED
    BY <2>1, <2>2, <2>3
<1>6. ASSUME NEW n \in 2..Len(wire) PROVE BasedNext(wire[n])
  <2>1. Based(wire[n]) /\ wire[n].id \in Ids
    <3>1. n \in 1..Len(wire)
      BY <1>0
    <3>2. wire[n] \in CommandType
      BY <3>1 DEF TypeOK
    <3>3. QED
      BY <3>1, <3>2 DEF KeptInv, CommandType
  <2>2. CASE wire[n].id # c.id
    BY <1>2, <1>4, <2>1, <2>2 DEF Based, BasedNext
  <2>3. CASE wire[n].id = c.id /\ Writes(c)
    BY <1>2, <1>3, <2>3 DEF BasedNext, Writes
  <2>4. CASE wire[n].id = c.id /\ ~Writes(c)
    <3>1. store' = store
      BY <1>1, <2>4 DEF Answer, Stored, Writes, TypeOK
    <3>2. QED
      BY <1>2, <2>1, <3>1 DEF Based, BasedNext
  <2>5. QED
    BY <2>2, <2>3, <2>4
<1>7. CASE ~again
  <2>1. wire' = Tail(wire)
    BY <1>7 DEF Answer, Stored
  <2>2. OneWrite'
    BY <1>0, <1>2, <2>1 DEF KeptInv, OneWrite, Writes
  <2>3. \A n \in 1..Len(wire') : Based(wire[n])'
    <3>1. ASSUME NEW n \in 1..Len(wire') PROVE wire'[n] = wire[n + 1] /\ n + 1 \in 2..Len(wire)
      BY <1>0, <2>1
    <3>2. QED
      BY <1>6, <3>1 DEF Based, BasedNext
  <2>4. QED
    BY <1>2, <1>5, <2>2, <2>3 DEF KeptInv
<1>8. CASE again
  <2>1. merged \in CommandType /\ Merge(store[c.id], c.patch) = Applied(c.patch, store[c.id])
    <3>1. store[c.id] \in Config /\ c.patch \in Patch
      BY <1>1, <1>8 DEF TypeOK, Value
    <3>2. QED
      BY <1>1, <3>1, Commands, Merges DEF Value
  <2>2. wire' = Append(Tail(wire), merged) /\ store' = store
    BY <1>1, <1>8 DEF Answer, Stored, TypeOK
  <2>3. /\ Len(wire') = Len(wire) /\ wire'[Len(wire)] = merged
        /\ \A n \in 1..(Len(wire) - 1) : wire'[n] = wire[n + 1]
    BY <1>0, <2>1, <2>2, Wires
  <2>4. merged.id = c.id /\ merged.patch = c.patch
        /\ merged.config = Applied(c.patch, store[c.id])
    BY <2>1 DEF Command
  <2>0. Len(wire) \in Nat /\ Len(wire) >= 1
    BY <1>0
  <2> HIDE DEF merged, c
  <2>5. OneWrite'
    <3>1. ASSUME NEW m \in 1..(Len(wire) - 1), wire[m + 1].id = c.id, Writes(wire[m + 1])
          PROVE  c.id \in contended
      BY <2>0, <1>3, <1>8, <3>1 DEF Writes, c
    <3>2. ASSUME NEW m \in 1..(Len(wire) - 1), NEW n \in 1..(Len(wire) - 1), m # n,
                 Writes(wire[m + 1]), Writes(wire[n + 1]), wire[m + 1].id = wire[n + 1].id
          PROVE  wire[n + 1].id \in contended
      BY <1>0, <3>2 DEF KeptInv, OneWrite
    <3>3. SUFFICES ASSUME NEW m \in 1..Len(wire), NEW n \in 1..Len(wire), m # n,
                          Writes(wire'[m]), Writes(wire'[n]), wire'[m].id = wire'[n].id
                   PROVE  wire'[n].id \in contended
      BY <1>2, <2>3 DEF OneWrite, Writes
    <3>4. CASE m = Len(wire)
      BY <2>0, <2>3, <2>4, <3>1, <3>3, <3>4
    <3>5. CASE n = Len(wire)
      BY <2>0, <2>3, <2>4, <3>1, <3>3, <3>5
    <3>6. CASE m # Len(wire) /\ n # Len(wire)
      <4>1. /\ m \in 1..(Len(wire) - 1) /\ wire'[m] = wire[m + 1]
            /\ n \in 1..(Len(wire) - 1) /\ wire'[n] = wire[n + 1]
        BY <2>0, <2>3, <3>6
      <4>2. QED
        BY <3>2, <3>3, <4>1
    <3>7. QED
      BY <3>4, <3>5, <3>6
  <2>6. ASSUME NEW n \in 1..Len(wire') PROVE Based(wire[n])'
    <3>1. CASE n = Len(wire)
      BY <1>8, <2>2, <2>3, <2>4, <3>1 DEF Based
    <3>2. CASE n # Len(wire)
      <4>1. n + 1 \in 2..Len(wire) /\ wire'[n] = wire[n + 1]
        BY <2>0, <2>3, <3>2
      <4>2. QED
        BY <1>6, <4>1 DEF Based, BasedNext
    <3>3. QED
      BY <3>1, <3>2
  <2>7. QED
    BY <1>2, <1>5, <2>5, <2>6 DEF KeptInv
<1>9. QED
  BY <1>7, <1>8

LEMMA KeptStep ==
    ASSUME CachedStoreAssumption, TypeOK, CacheAgrees, KeptInv, [Next]_vars
    PROVE  KeptInv'
<1>1. ASSUME NEW i \in Ids, NEW config \in Config, Put(i, config) PROVE KeptInv'
  <2>1. Command("set", i, config, None) \in CommandType
    BY Commands DEF Value
  <2>2. QED
    BY <1>1, <2>1, SendKept DEF Put, Command
<1>2. ASSUME NEW i \in Ids, NEW patch \in Patch, Update(i, patch) PROVE KeptInv'
  <2>1. CASE cache[i] = None
    <3>1. Command("get", i, None, patch) \in CommandType
      BY Commands DEF Value
    <3>2. QED
      BY <1>2, <2>1, <3>1, SendKept DEF Update, Command
  <2>2. CASE cache[i] # None
    <3> DEFINE c == Command("set", i, Merge(cache[i], patch), patch)
    <3>1. cache[i] \in Config
      BY <2>2 DEF TypeOK, Value
    <3>2. Merge(cache[i], patch) = Applied(patch, cache[i]) /\ Merge(cache[i], patch) \in Value
      BY <3>1, Merges DEF Value
    <3>3. c \in CommandType
      BY <3>2, Commands
    <3>4. c.id \notin unsure => store[c.id] # None /\ c.config = Applied(c.patch, store[c.id])
      BY <2>2, <3>2 DEF CacheAgrees, Command
    <3>5. Send(c)
      BY <1>2, <2>2 DEF Update
    <3> HIDE DEF c
    <3>6. QED
      BY <3>3, <3>4, <3>5, SendKept
  <2>3. QED
    BY <2>1, <2>2
<1>3. ASSUME NEW i \in Ids, Get(i) \/ Delete(i) PROVE KeptInv'
  <2>1. Command("get", i, None, None) \in CommandType /\ Command("del", i, None, None) \in CommandType
    BY Commands DEF Value
  <2>2. QED
    BY <1>3, <2>1, SendKept DEF Get, Delete, Command
<1>4. CASE Answer
  BY <1>4, AnswerKept
<1>5. ASSUME NEW i \in Ids, Fault(i), wanted' = wanted,
             \A j \in Ids \ {i} : store'[j] = store[j],
             wire' = wire \/ (wire # <<>> /\ wire' = Tail(wire))
      PROVE  KeptInv'
  <2>0. Len(wire) \in Nat /\ \A n \in 1..Len(wire) : wire[n] \in CommandType
    BY DEF TypeOK
  <2>1. PICK k \in {0, 1} : /\ Len(wire') = Len(wire) - k
                          /\ \A n \in 1..Len(wire') : wire'[n] = wire[n + k] /\ n + k \in 1..Len(wire)
    <3>1. CASE wire' = wire
      BY <2>0, <3>1
    <3>2. CASE wire # <<>> /\ wire' = Tail(wire)
      BY <2>0, <3>2, Wires DEF TypeOK
    <3>3. QED
      BY <1>5, <3>1, <3>2
  <2>2. contended \union {i} = contended' /\ unsure' \subseteq contended'
    BY <1>5 DEF Fault, KeptInv
  <2>3. OneWrite'
    <3>1. SUFFICES ASSUME NEW m \in 1..Len(wire'), NEW n \in 1..Len(wire'), m # n,
                          Writes(wire'[m]), Writes(wire'[n]), wire'[m].id = wire'[n].id
                   PROVE  wire'[n].id \in contended'
      BY DEF OneWrite, Writes
    <3>2. /\ m + k \in 1..Len(wire) /\ wire'[m] = wire[m + k]
          /\ n + k \in 1..Len(wire) /\ wire'[n] = wire[n + k]
      BY <2>1
    <3>3. m + k # n + k
      BY <2>0, <2>1, <3>1
    <3>4. QED
      BY <2>2, <3>1, <3>2, <3>3 DEF KeptInv, OneWrite
  <2>4. ASSUME NEW n \in 1..Len(wire') PROVE Based(wire[n])'
    <3>1. Based(wire[n + k]) /\ wire'[n] = wire[n + k] /\ wire[n + k].id \in Ids
      BY <2>0, <2>1 DEF KeptInv, CommandType
    <3>2. QED
      BY <1>5, <2>2, <3>1 DEF Based
  <2>5. UpdatesKept'
    BY <1>5, <2>2 DEF KeptInv, UpdatesKept
  <2>6. QED
    BY <2>2, <2>3, <2>4, <2>5 DEF KeptInv
<1>6. ASSUME NEW executed \in BOOLEAN, Reject(executed) PROVE KeptInv'
  <2>1. Head(wire) \in CommandType
    BY <1>6, Wires DEF TypeOK, Reject
  <2>2. Head(wire).id \in Ids
    BY <2>1 DEF CommandType
  <2>3. \A j \in Ids \ {Head(wire).id} : store'[j] = store[j]
    BY <1>6, <2>2 DEF Reject, TypeOK
  <2>4. QED
    BY <1>5, <1>6, <2>2, <2>3 DEF Reject
<1>7. ASSUME NEW i \in Ids, NEW v \in Config \union {None}, Foreign(i, v) PROVE KeptInv'
  BY <1>5, <1>7 DEF Foreign, TypeOK
<1>8. CASE UNCHANGED vars
  BY <1>8 DEF vars, KeptInv, OneWrite, Based, UpdatesKept, Writes
<1>9. QED
  BY <1>1, <1>2, <1>3, <1>4, <1>6, <1>7, <1>8 DEF Next

\* No update is lost: unless two writes of an id were in flight at once, Redis holds
\* what the updates, applied one after the other, make of it
\* (access-control.manager.ts:55-73, webhook.manager.ts:83-101).
THEOREM UpdatesKeptAlways == ASSUME CachedStoreAssumption PROVE Spec => []UpdatesKept
<1>1. Init => TypeOK /\ CacheAgrees /\ KeptInv
  BY TypeInit DEF Init, CacheAgrees, KeptInv, OneWrite, UpdatesKept
<1>2. TypeOK /\ CacheAgrees /\ KeptInv /\ [Next]_vars => TypeOK' /\ CacheAgrees' /\ KeptInv'
  BY TypeStep, AgreesStep, KeptStep
<1>3. KeptInv => UpdatesKept
  BY DEF KeptInv
<1>4. QED
  BY <1>1, <1>2, <1>3, PTL DEF Spec

-----------------------------------------------------------------------------
(***************************************************************************)
(* Webhook: its configurations are CachedStore's, and whoever is due to    *)
(* hear of an event is still to be listed, listed and waiting for its turn,*)
(* being delivered to, or told.                                            *)
(***************************************************************************)
LEMMA StoreSteps == ASSUME WebhookAssumption, StoreStep PROVE Next
<1>1. \A b \in BOOLEAN : [f \in {"active"} |-> b] \in Patch
  <2>1. {"active"} \in (SUBSET Fields) \ {{}} /\ Values = BOOLEAN
    BY DEF WebhookAssumption
  <2>2. \A b \in BOOLEAN : [f \in {"active"} |-> b] \in [{"active"} -> Values]
    BY <2>1
  <2>3. QED
    BY <2>1, <2>2 DEF Patch
<1>2. ASSUME NEW i \in Ids, EnableWebhook(i) \/ DisableWebhook(i)
      PROVE  \E patch \in Patch : Update(i, patch)
  BY <1>1, <1>2 DEF EnableWebhook, DisableWebhook
<1>3. ASSUME NEW i \in Ids, NEW config \in Config, RegisterWebhook(i, config) PROVE Put(i, config)
  BY <1>3 DEF RegisterWebhook
<1>4. QED
  BY <1>2, <1>3 DEF StoreStep, Next, UpdateWebhook, DeleteWebhook, GetWebhook

LEMMA WebhookIsStore == ASSUME WebhookAssumption, [WebhookNext]_whVars PROVE [Next]_vars
<1>1. CASE StoreStep
  BY <1>1, StoreSteps
<1>2. CASE UNCHANGED vars
  BY <1>2
<1>3. QED
  BY <1>1, <1>2
     DEF WebhookNext, SendEvent, ListRejects, Sender, ListOne, NextHook, TryDeliver, WaitBeforeRetry,
         Tested, RetryDelivery, TestWebhook, whVars

\* The configurations of webhooks keep what CachedStore promises, whatever is sent
\* meanwhile: registerWebhook, updateWebhook, enableWebhook, disableWebhook and
\* deleteWebhook are its writes (webhook.manager.ts:37-158, :292-321).
THEOREM WebhooksAreKept ==
    ASSUME CachedStoreAssumption, WebhookAssumption
    PROVE  WebhookSpec => Spec /\ [](CacheAgrees /\ UpdatesKept)
<1>1. WebhookInit => Init
  BY DEF WebhookInit
<1>2. [WebhookNext]_whVars => [Next]_vars
  BY WebhookIsStore
<1>3. QED
  BY <1>1, <1>2, CacheAgreesAlways, UpdatesKeptAlways, PTL DEF WebhookSpec, Spec

\* A call's part of the invariant.
Tried(x, hooks, heard) ==
    /\ x.pc \in {"post", "wait"} => x.hook \in Ids \X Config
    /\ x.pc \in {"post", "wait", "next"} => x.todo = {}
    /\ x.pc = "test" => hooks = {}
    /\ x.pc # "idle" =>
          \A i \in hooks : \/ i \in x.todo \union heard
                           \/ \E h \in Pending(x) : h[1] = i
                           \/ x.pc \in {"post", "wait"} /\ x.hook[1] = i

WebhookInv ==
    /\ WebhookTypeOK
    /\ \A s \in Senders : Tried(send[s], due[s], told[s]) /\ \A i \in due[s] : Active(i)

LEMMA WebhookInvInit == ASSUME CachedStoreAssumption, WebhookAssumption, WebhookInit PROVE WebhookInv
<1>1. TypeOK
  BY TypeInit DEF WebhookInit
<1>2. IdleSend \in SendType
  BY DEF IdleSend, SendType, WebhookAssumption
<1>3. QED
  BY <1>1, <1>2 DEF WebhookInit, WebhookInv, WebhookTypeOK, Tried, IdleSend

\* A step of one call.
LEMMA SenderInv ==
    ASSUME WebhookInv, NEW s \in Senders, NEW x \in SendType, NEW hooks, NEW heard \in SUBSET Ids,
           send' = [send EXCEPT ![s] = x], due' = [due EXCEPT ![s] = hooks],
           told' = [told EXCEPT ![s] = heard], UNCHANGED vars,
           Tried(x, hooks, heard), hooks \subseteq Ids, \A i \in hooks : Active(i)
    PROVE  WebhookInv'
<1>1. TypeOK'
  BY DEF WebhookInv, WebhookTypeOK, TypeOK, vars
<1>2. WebhookTypeOK'
  BY <1>1 DEF WebhookInv, WebhookTypeOK
<1>3. \A i : Active(i)' <=> Active(i)
  BY DEF Active, vars
<1>4. /\ send'[s] = x /\ due'[s] = hooks /\ told'[s] = heard
      /\ \A r \in Senders \ {s} : send'[r] = send[r] /\ due'[r] = due[r] /\ told'[r] = told[r]
  BY DEF WebhookInv, WebhookTypeOK
<1>5. \A r \in Senders : Tried(send'[r], due'[r], told'[r])
  BY <1>4 DEF WebhookInv
<1>6. \A r \in Senders : Tried(send[r], due[r], told[r])' <=> Tried(send'[r], due'[r], told'[r])
  BY DEF Tried, Pending
<1>7. QED
  BY <1>2, <1>3, <1>4, <1>5, <1>6 DEF WebhookInv

LEMMA StoreStepInv ==
    ASSUME CachedStoreAssumption, WebhookAssumption, WebhookInv, StoreStep
    PROVE  WebhookInv'
<1>1. TypeOK'
  BY StoreSteps, TypeStep DEF WebhookInv, WebhookTypeOK
<1>2. /\ due' = [s \in Senders |-> {i \in due[s] : store'[i] = store[i]}]
      /\ UNCHANGED <<send, told>>
  BY DEF StoreStep
<1>3. WebhookTypeOK'
  BY <1>1, <1>2 DEF WebhookInv, WebhookTypeOK
<1>4. ASSUME NEW s \in Senders
      PROVE  Tried(send[s], due[s], told[s])' /\ \A i \in due'[s] : Active(i)'
  <2>1. due'[s] \subseteq due[s] /\ \A i \in due'[s] : store'[i] = store[i]
    BY <1>2
  <2>2. Tried(send[s], due[s], told[s]) /\ \A i \in due[s] : Active(i)
    BY DEF WebhookInv
  <2>3. Tried(send[s], due'[s], told[s])
    BY <2>1, <2>2 DEF Tried
  <2>4. QED
    BY <1>2, <2>1, <2>2, <2>3 DEF Tried, Active, Pending
<1>5. QED
  BY <1>3, <1>4 DEF WebhookInv

LEMMA ListOneInv ==
    ASSUME WebhookInv, NEW s \in Senders, NEW i \in Ids, ListOne(s, i)
    PROVE  WebhookInv'
<1> DEFINE x == send[s]
           y == [x EXCEPT !.todo = @ \ {i},
                          !.found = IF store[i] = None THEN @ ELSE @ \union {<<i, store[i]>>}]
<1>1. x \in SendType /\ due[s] \in SUBSET Ids /\ told[s] \in SUBSET Ids
  BY DEF WebhookInv, WebhookTypeOK
<1>2. store[i] # None => <<i, store[i]>> \in Ids \X Config
  BY DEF WebhookInv, WebhookTypeOK, TypeOK, Value
<1>3. y.found \in SUBSET (Ids \X Config) /\ x.found \subseteq y.found
  BY <1>1, <1>2 DEF SendType
<1>4. y \in SendType /\ y.pc = "list" /\ y.todo = x.todo \ {i}
  BY <1>1, <1>3 DEF SendType, ListOne
<1>5. /\ send' = [send EXCEPT ![s] = y] /\ due' = [due EXCEPT ![s] = due[s]]
      /\ told' = [told EXCEPT ![s] = told[s]] /\ UNCHANGED vars /\ x.pc = "list"
  BY DEF ListOne, WebhookInv, WebhookTypeOK
<1>6. \A j \in due[s] : Active(j)
  BY DEF WebhookInv
<1>7. Tried(y, due[s], told[s])
  <2>1. ASSUME NEW j \in due[s]
        PROVE  j \in y.todo \union told[s] \/ \E h \in Pending(y) : h[1] = j
    <3>1. j \in x.todo \union told[s] \/ \E h \in Pending(x) : h[1] = j
      BY <1>5 DEF WebhookInv, Tried
    <3>2. Pending(x) \subseteq Pending(y)
      BY <1>3 DEF Pending
    <3>3. CASE j # i
      BY <1>4, <3>1, <3>2, <3>3
    <3>4. CASE j = i
      <4>1. store[j] # None /\ store[j].active
        BY <1>6 DEF Active
      <4>2. <<j, store[j]>> \in y.found
        BY <1>1, <3>4, <4>1 DEF SendType
      <4>3. <<j, store[j]>> \in Pending(y)
        BY <4>1, <4>2 DEF Pending
      <4>4. QED
        BY <4>3
    <3>5. QED
      BY <3>3, <3>4
  <2>2. QED
    BY <1>4, <2>1 DEF Tried
<1> HIDE DEF x, y
<1>8. QED
  BY <1>1, <1>4, <1>5, <1>6, <1>7, SenderInv

\* A call that is idle owes nothing any more.
LEMMA IdleTried ==
    ASSUME WebhookAssumption, NEW hooks, NEW heard
    PROVE  IdleSend \in SendType /\ Tried(IdleSend, hooks, heard)
  BY DEF IdleSend, SendType, WebhookAssumption, Tried

\* A call that ends has told everyone who was due.
LEMMA NextHookInv ==
    ASSUME WebhookAssumption, WebhookInv, NEW s \in Senders, NextHook(s)
    PROVE  WebhookInv' /\ (send'[s].pc = "idle" => due'[s] \subseteq told'[s])
<1> DEFINE x == send[s]
<1>1. x \in SendType /\ due[s] \in SUBSET Ids /\ told[s] \in SUBSET Ids /\ \A i \in due[s] : Active(i)
  BY DEF WebhookInv, WebhookTypeOK
<1>2. /\ due' = [due EXCEPT ![s] = due[s]] /\ told' = [told EXCEPT ![s] = told[s]] /\ UNCHANGED vars
      /\ due' = due /\ told' = told /\ x.pc \in {"list", "next"} /\ x.todo = {}
  BY DEF NextHook, WebhookInv, WebhookTypeOK
<1>3. \A i \in due[s] : i \in told[s] \/ \E h \in Pending(x) : h[1] = i
  BY <1>2 DEF WebhookInv, Tried
<1>4. CASE Pending(x) = {}
  <2>1. send' = [send EXCEPT ![s] = IdleSend]
    BY <1>4 DEF NextHook
  <2>2. WebhookInv'
    BY <1>1, <1>2, <2>1, IdleTried, SenderInv
  <2>3. QED
    BY <1>2, <1>3, <1>4, <2>2
<1>5. ASSUME NEW h \in Pending(x),
             send' = [send EXCEPT ![s] = [x EXCEPT !.pc = "post", !.found = @ \ {h},
                                                   !.hook = h, !.attempt = 1]]
      PROVE  WebhookInv' /\ send'[s].pc # "idle"
  <2> DEFINE y == [x EXCEPT !.pc = "post", !.found = @ \ {h}, !.hook = h, !.attempt = 1]
  <2>1. h \in Ids \X Config /\ h \in x.found
    BY <1>1 DEF SendType, Pending
  <2>2. 1 \in 0..MaxRetries
    BY DEF WebhookAssumption
  <2>3. y \in SendType /\ y.pc = "post" /\ y.hook = h /\ y.todo = {} /\ y.found = x.found \ {h}
    BY <1>1, <1>2, <2>1, <2>2 DEF SendType
  <2>4. send' = [send EXCEPT ![s] = y]
    BY <1>5
  <2> HIDE DEF y
  <2>5. Pending(y) = Pending(x) \ {h}
    BY <2>3 DEF Pending
  <2>6. Tried(y, due[s], told[s])
    BY <1>3, <2>1, <2>3, <2>5 DEF Tried
  <2>7. WebhookInv'
    BY <1>1, <1>2, <2>3, <2>4, <2>6, SenderInv
  <2>8. send'[s] = y
    BY <2>4 DEF WebhookInv, WebhookTypeOK
  <2>9. QED
    BY <2>3, <2>7, <2>8
<1>6. QED
  BY <1>4, <1>5 DEF NextHook

LEMMA TryDeliverInv ==
    ASSUME WebhookAssumption, WebhookInv, NEW s \in Senders, NEW response, TryDeliver(s, response)
    PROVE  WebhookInv' /\ send'[s].pc # "idle"
<1> DEFINE x == send[s]
           again == response # "ok" /\ x.hook[1] \in Reliable
           y == [x EXCEPT !.pc = "next"]
           z == [x EXCEPT !.pc = "wait", !.attempt = @ + 1]
<1>1. x \in SendType /\ due[s] \in SUBSET Ids /\ told[s] \in SUBSET Ids /\ \A i \in due[s] : Active(i)
  BY DEF WebhookInv, WebhookTypeOK
<1>2. due' = [due EXCEPT ![s] = due[s]] /\ UNCHANGED vars /\ x.pc = "post"
  BY DEF TryDeliver, WebhookInv, WebhookTypeOK
<1>3. x.hook \in Ids \X Config /\ x.todo = {} /\ x.hook[1] \in Ids
  BY <1>2 DEF WebhookInv, Tried
<1>4. \A i \in due[s] : i \in told[s] \union {x.hook[1]} \/ \E h \in Pending(x) : h[1] = i
  BY <1>2, <1>3 DEF WebhookInv, Tried
<1>5. send'[s] = y \/ send'[s] = z => send'[s].pc # "idle"
  BY <1>1 DEF SendType
<1>6. CASE again /\ x.attempt < MaxRetries
  <2>1. send' = [send EXCEPT ![s] = z] /\ told' = [told EXCEPT ![s] = told[s]]
    BY <1>6 DEF TryDeliver, Retry
  <2>2. x.attempt + 1 \in 0..MaxRetries
    BY <1>1, <1>6 DEF SendType, WebhookAssumption
  <2>3. z \in SendType /\ z.pc = "wait" /\ z.hook = x.hook /\ z.todo = {} /\ z.found = x.found
    BY <1>1, <1>3, <2>2 DEF SendType
  <2>4. send'[s] = z
    BY <2>1 DEF WebhookInv, WebhookTypeOK
  <2> HIDE DEF z
  <2>5. Tried(z, due[s], told[s])
    BY <1>3, <1>4, <2>3 DEF Tried, Pending
  <2>6. QED
    BY <1>1, <1>2, <1>5, <2>1, <2>3, <2>4, <2>5, SenderInv
<1>7. CASE ~(again /\ x.attempt < MaxRetries)
  <2>1. /\ send' = [send EXCEPT ![s] = y]
        /\ told' = [told EXCEPT ![s] = told[s] \union {x.hook[1]}]
    BY <1>7 DEF TryDeliver, Retry
  <2>2. y \in SendType /\ y.pc = "next" /\ y.todo = {} /\ y.found = x.found
    BY <1>1, <1>3 DEF SendType
  <2>3. send'[s] = y /\ told[s] \union {x.hook[1]} \in SUBSET Ids
    BY <1>1, <1>3, <2>1 DEF WebhookInv, WebhookTypeOK
  <2> HIDE DEF y
  <2>4. Tried(y, due[s], told[s] \union {x.hook[1]})
    BY <1>4, <2>2 DEF Tried, Pending
  <2>5. QED
    BY <1>1, <1>2, <1>5, <2>1, <2>2, <2>3, <2>4, SenderInv
<1>8. QED
  BY <1>6, <1>7

\* The steps that begin a call, and those that end one with nobody due.
LEMMA CallInv ==
    ASSUME WebhookAssumption, WebhookInv, NEW s \in Senders,
           \/ SendEvent(s) \/ ListRejects(s) \/ Tested(s) \/ WaitBeforeRetry(s)
           \/ \E i \in Ids : RetryDelivery(s, i) \/ TestWebhook(s, i)
    PROVE  WebhookInv' /\ (send[s].pc # "idle" /\ send'[s].pc = "idle" => due'[s] = {})
<1>1. /\ send[s] \in SendType /\ due[s] \in SUBSET Ids /\ told[s] \in SUBSET Ids
      /\ {} \in SUBSET Ids /\ \A i \in due[s] : Active(i)
      /\ send \in [Senders -> SendType] /\ due \in [Senders -> SUBSET Ids]
      /\ told \in [Senders -> SUBSET Ids]
      /\ IdleSend \in SendType /\ \A hooks, heard : Tried(IdleSend, hooks, heard)
  BY IdleTried DEF WebhookInv, WebhookTypeOK
<1>2. CASE SendEvent(s)
  <2> DEFINE known == {i \in Ids : store[i] # None}
             y == [IdleSend EXCEPT !.pc = "list", !.todo = known]
             hooks == {i \in known : Active(i)}
  <2>1. y \in SendType /\ y.pc = "list" /\ y.todo = known
    BY <1>1 DEF IdleSend, SendType
  <2>2. /\ send' = [send EXCEPT ![s] = y] /\ due' = [due EXCEPT ![s] = hooks]
        /\ told' = [told EXCEPT ![s] = {}] /\ UNCHANGED vars /\ send[s].pc = "idle"
    BY <1>2 DEF SendEvent
  <2>3. hooks \subseteq known /\ hooks \in SUBSET Ids /\ \A i \in hooks : Active(i)
    OBVIOUS
  <2> HIDE DEF y, hooks
  <2>4. Tried(y, hooks, {})
    BY <2>1, <2>3 DEF Tried
  <2>5. QED
    BY <1>1, <2>1, <2>2, <2>3, <2>4, SenderInv
<1>3. CASE ListRejects(s)
  <2>1. /\ send' = [send EXCEPT ![s] = IdleSend] /\ due' = [due EXCEPT ![s] = {}]
        /\ told' = [told EXCEPT ![s] = told[s]] /\ UNCHANGED vars /\ due'[s] = {}
    BY <1>1, <1>3 DEF ListRejects
  <2>2. QED
    BY <1>1, <2>1, SenderInv
<1>4. CASE Tested(s)
  <2>1. /\ send' = [send EXCEPT ![s] = IdleSend] /\ due' = [due EXCEPT ![s] = {}]
        /\ told' = [told EXCEPT ![s] = told[s]] /\ UNCHANGED vars /\ due'[s] = {}
    BY <1>1, <1>4 DEF Tested, WebhookInv, Tried
  <2>2. QED
    BY <1>1, <2>1, SenderInv
<1>5. CASE WaitBeforeRetry(s)
  <2> DEFINE x == send[s]
             y == [x EXCEPT !.pc = "post"]
  <2>1. /\ y \in SendType /\ y.pc = "post" /\ y.hook = x.hook /\ y.todo = x.todo
        /\ y.found = x.found /\ x.pc = "wait"
    BY <1>1, <1>5 DEF SendType, WaitBeforeRetry
  <2>2. /\ send' = [send EXCEPT ![s] = y] /\ due' = [due EXCEPT ![s] = due[s]]
        /\ told' = [told EXCEPT ![s] = told[s]] /\ UNCHANGED vars /\ send'[s] = y
    BY <1>1, <1>5 DEF WaitBeforeRetry
  <2>3. Tried(x, due[s], told[s])
    BY DEF WebhookInv
  <2> HIDE DEF y
  <2>4. Tried(y, due[s], told[s])
    BY <2>1, <2>3 DEF Tried, Pending
  <2>5. QED
    BY <1>1, <2>1, <2>2, <2>4, SenderInv
<1>6. ASSUME NEW y \in SendType, Tried(y, {}, {}), UNCHANGED vars, send' = [send EXCEPT ![s] = y],
             due' = [due EXCEPT ![s] = {}], told' = [told EXCEPT ![s] = {}]
      PROVE  WebhookInv'
  <2> DEFINE none == {}
  <2>1. none \in SUBSET Ids /\ none \subseteq Ids /\ \A i \in none : Active(i)
    OBVIOUS
  <2>2. /\ Tried(y, none, none) /\ due' = [due EXCEPT ![s] = none]
        /\ told' = [told EXCEPT ![s] = none]
    BY <1>6
  <2> HIDE DEF none
  <2>3. QED
    BY <1>6, <2>1, <2>2, SenderInv
<1>7. ASSUME NEW i \in Ids, RetryDelivery(s, i) PROVE WebhookInv' /\ send[s].pc = "idle"
  <2> DEFINE y == [IdleSend EXCEPT !.pc = "post", !.hook = <<i, cache[i]>>, !.attempt = 1]
  <2>1. <<i, cache[i]>> \in Ids \X Config
    BY <1>7 DEF RetryDelivery, WebhookInv, WebhookTypeOK, TypeOK, Value
  <2>2. 1 \in 0..MaxRetries
    BY DEF WebhookAssumption
  <2>3. y \in SendType /\ y.pc = "post" /\ y.hook = <<i, cache[i]>> /\ y.todo = {}
    BY <1>1, <2>1, <2>2 DEF IdleSend, SendType
  <2>4. /\ send' = [send EXCEPT ![s] = y] /\ due' = [due EXCEPT ![s] = {}]
        /\ told' = [told EXCEPT ![s] = {}] /\ UNCHANGED vars /\ send[s].pc = "idle"
    BY <1>7 DEF RetryDelivery
  <2> HIDE DEF y
  <2>5. Tried(y, {}, {})
    BY <2>1, <2>3 DEF Tried
  <2>6. WebhookInv'
    BY <1>6, <2>3, <2>4, <2>5
  <2>7. QED
    BY <2>4, <2>6
<1>8. ASSUME NEW i \in Ids, TestWebhook(s, i) PROVE WebhookInv' /\ send[s].pc = "idle"
  <2> DEFINE y == [IdleSend EXCEPT !.pc = "test"]
  <2>1. y \in SendType /\ y.pc = "test"
    BY <1>1 DEF IdleSend, SendType
  <2>2. /\ send' = [send EXCEPT ![s] = y] /\ due' = [due EXCEPT ![s] = {}]
        /\ told' = [told EXCEPT ![s] = {}] /\ UNCHANGED vars /\ send[s].pc = "idle"
    BY <1>8 DEF TestWebhook
  <2> HIDE DEF y
  <2>3. Tried(y, {}, {})
    BY <2>1 DEF Tried
  <2>4. WebhookInv'
    BY <1>6, <2>1, <2>2, <2>3
  <2>5. QED
    BY <2>2, <2>4
<1>9. QED
  BY <1>2, <1>3, <1>4, <1>5, <1>7, <1>8

\* No step of another call, and no step of the configurations, ends this one.
LEMMA WebhookInvStep ==
    ASSUME CachedStoreAssumption, WebhookAssumption, WebhookInv, [WebhookNext]_whVars
    PROVE  /\ WebhookInv'
           /\ \A s \in Senders : send[s].pc # "idle" /\ send'[s].pc = "idle" => due'[s] \subseteq told'[s]
<1>1. CASE UNCHANGED whVars
  <2>1. WebhookTypeOK'
    BY <1>1 DEF whVars, calls, vars, WebhookInv, WebhookTypeOK, TypeOK
  <2>2. \A s \in Senders : Tried(send[s], due[s], told[s])' /\ \A i \in due'[s] : Active(i)'
    BY <1>1 DEF whVars, calls, vars, WebhookInv, Tried, Pending, Active
  <2>3. QED
    BY <1>1, <2>1, <2>2 DEF WebhookInv, whVars, calls
<1>2. CASE StoreStep
  BY <1>2, StoreStepInv DEF StoreStep
<1>3. ASSUME NEW s \in Senders,
             \/ SendEvent(s) \/ ListRejects(s) \/ Sender(s)
             \/ \E i \in Ids : RetryDelivery(s, i) \/ TestWebhook(s, i)
      PROVE  /\ WebhookInv'
             /\ send[s].pc # "idle" /\ send'[s].pc = "idle" => due'[s] \subseteq told'[s]
             /\ \A r \in Senders \ {s} : send'[r] = send[r]
  <2>1. \A r \in Senders \ {s} : send'[r] = send[r]
    BY <1>3 DEF WebhookInv, WebhookTypeOK, SendEvent, ListRejects, Sender, ListOne, NextHook, TryDeliver,
                WaitBeforeRetry, Tested, RetryDelivery, TestWebhook
  <2>2. ASSUME NEW i \in Ids, ListOne(s, i) PROVE send'[s].pc # "idle"
    <3>1. send[s] \in SendType /\ send[s].pc = "list" /\ send \in [Senders -> SendType]
      BY <2>2 DEF WebhookInv, WebhookTypeOK, ListOne
    <3>2. QED
      BY <2>2, <3>1 DEF ListOne, SendType
  <2>3. QED
    BY <1>3, <2>1, <2>2, ListOneInv, NextHookInv, TryDeliverInv, CallInv DEF Sender
<1>4. QED
  BY <1>1, <1>2, <1>3 DEF WebhookNext

\* The values the variables take, and who is due while a call lasts
\* (webhook.manager.ts:190-208, :323-392).
THEOREM WebhookTypeCorrect ==
    ASSUME CachedStoreAssumption, WebhookAssumption PROVE WebhookSpec => []WebhookTypeOK
<1>1. WebhookInit => WebhookInv
  BY WebhookInvInit
<1>2. WebhookInv /\ [WebhookNext]_whVars => WebhookInv'
  BY WebhookInvStep
<1>3. WebhookInv => WebhookTypeOK
  BY DEF WebhookInv
<1>4. QED
  BY <1>1, <1>2, <1>3, PTL DEF WebhookSpec

\* sendEvent leaves no webhook out, whatever the receivers before it answered and
\* whatever is written meanwhile (webhook.manager.ts:190-208, :323-392).
THEOREM EveryHookTriedAlways ==
    ASSUME CachedStoreAssumption, WebhookAssumption PROVE WebhookSpec => EveryHookTried
<1> DEFINE Ends ==
      \A s \in Senders : send[s].pc # "idle" /\ send'[s].pc = "idle" => due'[s] \subseteq told'[s]
<1>1. WebhookInit => WebhookInv
  BY WebhookInvInit
<1>2. WebhookInv /\ [WebhookNext]_whVars => WebhookInv' /\ [Ends]_whVars
  BY WebhookInvStep
<1>3. QED
  BY <1>1, <1>2, PTL DEF WebhookSpec, EveryHookTried

-----------------------------------------------------------------------------
(***************************************************************************)
(* JobChain: the last call on a workflow stands; what a wait returns.      *)
(***************************************************************************)
FlowCommandType == [op : {"set", "get"}, id : Flows, flow : FlowValue, cancel : BOOLEAN]

(***************************************************************************)
(* Workflows: what follows is a cancellation between its read and its      *)
(* write, the one call that writes what it has read.                       *)
(***************************************************************************)
\* Between the read and the write of a cancellation that nothing crossed, the workflow is
\* what the read found, and no other call of it is on its way but reads.
Undisturbed(n, f) ==
    LET c == flowWire[n]
    IN  c.id = f /\ c.cancel =>
           /\ c.op = "set" => newest[f] # NoFlow /\ c.flow = Cancelled(newest[f])
           /\ \A m \in DOMAIN flowWire \ {n} :
                 flowWire[m].id = f => flowWire[m].op = "get" /\ ~flowWire[m].cancel

FlowInv ==
    /\ ChainTypeOK
    /\ \A f \in Flows \ crossed : /\ flows[f] = newest[f]
                                  /\ \A n \in DOMAIN flowWire : Undisturbed(n, f)

LEMMA FlowCommands ==
    ASSUME NEW f \in Flows, NEW op \in {"set", "get"}, NEW flow \in FlowValue, NEW cancel \in BOOLEAN
    PROVE  FlowCommand(op, f, flow, cancel) \in FlowCommandType
  BY DEF FlowCommand, FlowCommandType

LEMMA ChainTypeInit == ASSUME JobChainAssumption, ChainInit PROVE ChainTypeOK
  BY DEF JobChainAssumption, ChainInit, ChainTypeOK, FlowValue, IdleWait, Wait

FlowTypeOK ==
    /\ flows \in [Flows -> FlowValue] /\ newest \in [Flows -> FlowValue]
    /\ runs \in 0..MaxRuns /\ flowFaults \in Nat /\ crossed \subseteq Flows
    /\ flowWire \in Seq(FlowCommandType)

LEMMA FlowTypeStep ==
    ASSUME JobChainAssumption, ChainTypeOK, FlowStep
    PROVE  ChainTypeOK'
<1>0. FlowTypeOK
  BY DEF ChainTypeOK, FlowTypeOK, FlowCommandType
<1>1. FlowTypeOK' => ChainTypeOK'
  BY DEF ChainTypeOK, FlowTypeOK, FlowStep, waitVars, FlowCommandType
<1>2. ASSUME NEW c \in FlowCommandType, SendFlow(c)
      PROVE  /\ flowWire' \in Seq(FlowCommandType)
             /\ UNCHANGED <<flows, flowFaults, newest>>
  BY <1>0, <1>2, Sequence DEF SendFlow, FlowTypeOK
<1>3. NoFlow \in FlowValue
  BY DEF FlowValue
<1>4. ASSUME NEW f \in Flows, Start(f)
      PROVE  /\ \E c \in FlowCommandType : SendFlow(c)
             /\ runs' \in 0..MaxRuns /\ crossed' \subseteq Flows
  <2>1. runs' \in 0..MaxRuns /\ Flow(runs, "running") \in FlowValue
    <3>1. runs \in 0..MaxRuns /\ runs < MaxRuns /\ runs' = runs + 1 /\ MaxRuns \in Nat
      BY <1>0, <1>4 DEF Start, FlowTypeOK, JobChainAssumption
    <3>2. QED
      BY <3>1 DEF Flow, FlowValue
  <2>2. crossed' \subseteq Flows
    BY <1>0, <1>4 DEF Start, FlowTypeOK
  <2>3. QED
    BY <1>0, <1>4, <2>1, <2>2, FlowCommands DEF Start
<1>5. ASSUME NEW f \in Flows, Look(f) \/ CancelWorkflow(f)
      PROVE  /\ \E c \in FlowCommandType : SendFlow(c)
             /\ runs' = runs /\ crossed' \subseteq Flows
  BY <1>0, <1>3, <1>5, FlowCommands DEF Look, CancelWorkflow, FlowTypeOK
<1>6. ASSUME flowWire # <<>>
      PROVE  /\ Head(flowWire) \in FlowCommandType /\ Tail(flowWire) \in Seq(FlowCommandType)
             /\ Head(flowWire).id \in Flows /\ Head(flowWire).flow \in FlowValue
  <2>1. Head(flowWire) \in FlowCommandType /\ Tail(flowWire) \in Seq(FlowCommandType)
    BY <1>0, <1>6, Sequence DEF FlowTypeOK
  <2>2. QED
    BY <2>1 DEF FlowCommandType
<1>7. CASE FlowAnswered
  <2> DEFINE c == Head(flowWire)
  <2>1. /\ c \in FlowCommandType /\ Tail(flowWire) \in Seq(FlowCommandType)
        /\ c.id \in Flows /\ c.flow \in FlowValue
    BY <1>0, <1>6, <1>7 DEF FlowAnswered
  <2>2. \A f \in Flows : flows[f] \in FlowValue /\ newest[f] \in FlowValue
    BY <1>0 DEF FlowTypeOK
  <2>3. \A flow \in FlowValue : flow # NoFlow => /\ Cancelled(flow) \in FlowValue
                                                 /\ [flow EXCEPT !.status = "cancelled"] \in FlowValue
    BY DEF Cancelled, FlowValue
  <2>4. flows' \in [Flows -> FlowValue]
    BY <1>0, <1>7, <2>1 DEF FlowAnswered, FlowTypeOK
  <2>5. newest' \in [Flows -> FlowValue]
    BY <1>0, <1>7, <2>1, <2>2, <2>3 DEF FlowAnswered, FlowTypeOK
  <2>6. flowWire' \in Seq(FlowCommandType)
    <3>1. CASE c.op = "get" /\ c.cancel /\ flows[c.id] # NoFlow
      BY <1>0, <1>7, <2>1, <2>2, <2>3, <3>1, FlowCommands, Sequence DEF FlowAnswered
    <3>2. CASE ~(c.op = "get" /\ c.cancel /\ flows[c.id] # NoFlow)
      BY <1>0, <1>7, <2>1, <3>2 DEF FlowAnswered
    <3>3. QED
      BY <3>1, <3>2
  <2>7. QED
    <3>1. runs' \in 0..MaxRuns /\ flowFaults' \in Nat /\ crossed' \subseteq Flows
      BY <1>0, <1>7 DEF FlowAnswered, FlowTypeOK
    <3>2. QED
      BY <1>1, <2>4, <2>5, <2>6, <3>1 DEF FlowTypeOK
<1>8. ASSUME NEW executed \in BOOLEAN, FlowRejected(executed)
      PROVE  FlowTypeOK'
  BY <1>0, <1>6, <1>8 DEF FlowRejected, FlowFault, FlowTypeOK
<1>9. ASSUME NEW f \in Flows, Expire(f)
      PROVE  FlowTypeOK'
  BY <1>0, <1>3, <1>9 DEF Expire, FlowFault, FlowTypeOK
<1>10. QED
  <2>1. ASSUME NEW f \in Flows, Start(f) \/ Look(f) \/ CancelWorkflow(f)
        PROVE  FlowTypeOK'
    BY <1>0, <1>2, <1>4, <1>5, <2>1 DEF FlowTypeOK, Start, Look, CancelWorkflow
  <2>2. QED
    BY <1>1, <1>7, <1>8, <1>9, <2>1
       DEF FlowStep, CreateChain, GetChainStatus, AddJobToChain, ExecuteWorkflow, GetWorkflowStatus

WaitType == [pc : {"idle", "check", "get", "sleep"}, deps : Seq(Parents), elapsed : 0..Timeout,
             found : SUBSET Parents, polled : SUBSET Parents]

LEMMA Dependencies == ASSUME JobChainAssumption PROVE SetToSeqs(Parents) \subseteq Seq(Parents)
  BY FS_CardinalityType DEF JobChainAssumption, SetToSeqs

WaitTypeOK ==
    /\ results \subseteq Parents /\ atStart \in [Waiters -> SUBSET Parents]
    /\ waits \in [Waiters -> WaitType]
    /\ \A w \in Waiters : waits[w].pc \in {"get", "sleep"} => waits[w].deps # <<>>

LEMMA WaitTypeStep ==
    ASSUME JobChainAssumption, ChainTypeOK, WaitStep
    PROVE  ChainTypeOK'
<1>1. WaitTypeOK /\ Timeout \in Nat
  BY DEF ChainTypeOK, WaitTypeOK, WaitType, JobChainAssumption
<1> USE DEF WaitTypeOK
<1>2. SUFFICES WaitTypeOK'
  BY DEF ChainTypeOK, WaitType, WaitStep, JobFinishes, WaitForDependencies, SlowReply, Waiter, Poll, NextDependency,
         Miss, Slept, WaitThrows, WaitReturns, flowVars
<1>3. CASE \E j \in Parents : JobFinishes(j)
  BY <1>1, <1>3 DEF JobFinishes
<1>4. ASSUME NEW w \in Waiters, NEW deps \in SetToSeqs(Parents), WaitForDependencies(w, deps)
      PROVE  WaitTypeOK'
  <2>1. Wait("check", deps) \in WaitType /\ Wait("check", deps).pc = "check"
    <3>1. deps \in Seq(Parents) /\ 0 \in 0..Timeout
      BY <1>1, Dependencies
    <3>2. QED
      BY <3>1 DEF Wait, WaitType
  <2>2. ToSet(deps) \cap results \in SUBSET Parents
    BY <1>1
  <2>3. QED
    BY <1>1, <1>4, <2>1, <2>2 DEF WaitForDependencies
<1>5. ASSUME NEW w \in Waiters, Waiter(w) \/ SlowReply(w) \/ WaitThrows(w)
      PROVE  WaitTypeOK'
  <2>0. /\ waits[w] \in WaitType /\ waits[w].deps \in Seq(Parents)
        /\ waits[w].elapsed \in 0..Timeout /\ waits[w].found \subseteq Parents
        /\ waits[w].polled \subseteq Parents
    BY <1>1 DEF WaitType
  <2>1. results' = results /\ atStart' = atStart
    BY <1>5 DEF Waiter, SlowReply, Poll, NextDependency, Miss, Slept, WaitThrows, WaitReturns
  <2>2. ASSUME waits[w].deps # <<>>
        PROVE  Tail(waits[w].deps) \in Seq(Parents) /\ Head(waits[w].deps) \in Parents
    BY <2>0, <2>2, Sequence
  <2>3. CASE Poll(w)
    <3>1. waits[w].deps # <<>> /\ waits[w].pc = "check"
      BY <2>3 DEF Poll
    <3>2. [waits[w] EXCEPT !.deps = Tail(@)] \in WaitType
      BY <2>0, <2>2, <3>1 DEF WaitType
    <3>3. [waits[w] EXCEPT !.pc = "get", !.polled = @ \union {Head(waits[w].deps)}] \in WaitType
      BY <2>0, <2>2, <3>1 DEF WaitType
    <3>4. CASE TimedOut(waits[w])
      BY <1>1, <2>0, <2>1, <2>3, <3>1, <3>2, <3>4 DEF Poll, WaitType
    <3>5. CASE ~TimedOut(waits[w])
      BY <1>1, <2>0, <2>1, <2>3, <3>1, <3>3, <3>5 DEF Poll, WaitType
    <3>6. QED
      BY <3>4, <3>5
  <2>4. CASE NextDependency(w)
    <3>1. waits[w].deps # <<>>
      BY <1>1, <2>4 DEF NextDependency
    <3>2. QED
      BY <1>1, <2>0, <2>1, <2>2, <2>4, <3>1 DEF NextDependency, WaitType
  <2>5. CASE Miss(w)
    BY <1>1, <2>0, <2>1, <2>5 DEF Miss, AfterMiss, WaitType
  <2>6. CASE Slept(w)
    <3> DEFINE n == IF waits[w].elapsed < Timeout THEN waits[w].elapsed + 1 ELSE waits[w].elapsed
    <3>1. n \in 0..Timeout
      BY <1>1, <2>0
    <3>2. [waits[w] EXCEPT !.pc = "check", !.elapsed = n] \in WaitType
      BY <2>0, <3>1 DEF WaitType
    <3>3. waits' = [waits EXCEPT ![w] = [waits[w] EXCEPT !.pc = "check", !.elapsed = n]]
      BY <2>6 DEF Slept
    <3>4. [waits[w] EXCEPT !.pc = "check", !.elapsed = n].pc = "check"
      BY <2>0 DEF WaitType
    <3> HIDE DEF n
    <3>5. QED
      BY <1>1, <2>1, <3>2, <3>3, <3>4
  <2>7. CASE WaitReturns(w) \/ WaitThrows(w)
    <3>1. IdleWait \in WaitType /\ IdleWait.pc = "idle"
      <4>1. <<>> \in Seq(Parents) /\ 0 \in 0..Timeout
        BY <1>1
      <4>2. QED
        BY <4>1 DEF IdleWait, Wait, WaitType
    <3>2. QED
      BY <1>1, <2>1, <2>7, <3>1 DEF WaitReturns, WaitThrows
  <2>8. CASE SlowReply(w)
    <3>1. waits[w].elapsed + 1 \in 0..Timeout
      BY <1>1, <2>0, <2>8 DEF SlowReply
    <3>2. [waits[w] EXCEPT !.elapsed = @ + 1] \in WaitType
      BY <2>0, <3>1 DEF WaitType
    <3>3. [waits[w] EXCEPT !.elapsed = @ + 1].deps = waits[w].deps
      BY <2>0 DEF WaitType
    <3>4. [waits[w] EXCEPT !.elapsed = @ + 1].pc = waits[w].pc
      BY <2>0 DEF WaitType
    <3>5. QED
      BY <1>1, <2>1, <2>8, <3>2, <3>3, <3>4 DEF SlowReply
  <2>9. QED
    BY <1>5, <2>3, <2>4, <2>5, <2>6, <2>7, <2>8 DEF Waiter
<1>6. QED
  BY <1>3, <1>4, <1>5 DEF WaitStep

LEMMA ChainTypeStep == ASSUME JobChainAssumption, ChainTypeOK, [ChainNext]_chainVars PROVE ChainTypeOK'
<1>1. CASE UNCHANGED chainVars
  BY <1>1 DEF ChainTypeOK, chainVars, flowVars, waitVars
<1>2. QED
  BY <1>1, FlowTypeStep, WaitTypeStep DEF ChainNext

\* The values the variables of workflows and waits take (job-chain.manager.ts:45-319).
THEOREM ChainTypeCorrect == ASSUME JobChainAssumption PROVE ChainSpec => []ChainTypeOK
<1>1. ChainInit => ChainTypeOK
  BY ChainTypeInit
<1>2. ChainTypeOK /\ [ChainNext]_chainVars => ChainTypeOK'
  BY ChainTypeStep
<1>3. QED
  BY <1>1, <1>2, PTL DEF ChainSpec

\* A command that is sent joins the others at the end.
LEMMA SendFlowStep ==
    ASSUME FlowInv, NEW c \in FlowCommandType, SendFlow(c), crossed \subseteq crossed',
           c.cancel => c.op = "get" /\ (Busy(c.id) => c.id \in crossed'),
           c.op = "set" => (Cancelling(c.id) => c.id \in crossed')
    PROVE  \A f \in Flows \ crossed' : /\ flows'[f] = newest'[f]
                                       /\ \A n \in DOMAIN flowWire' : Undisturbed(n, f)'
<1>0. flowWire \in Seq(FlowCommandType)
  BY DEF FlowInv, ChainTypeOK, FlowCommandType
<1>1. /\ DOMAIN flowWire = 1..Len(flowWire) /\ DOMAIN flowWire' = 1..(Len(flowWire) + 1)
      /\ Len(flowWire) \in Nat /\ flowWire'[Len(flowWire) + 1] = c
      /\ \A n \in 1..Len(flowWire) : flowWire'[n] = flowWire[n]
  BY <1>0, Sequence DEF SendFlow
<1>2. flows' = flows /\ newest' = newest
  BY DEF SendFlow
<1>3. SUFFICES ASSUME NEW f \in Flows \ crossed', NEW n \in DOMAIN flowWire'
               PROVE  Undisturbed(n, f)'
  BY <1>2 DEF FlowInv
<1>4. f \notin crossed
  OBVIOUS
<1>5. CASE n = Len(flowWire) + 1
  <2>1. CASE c.id = f /\ c.cancel
    BY <1>1, <1>2, <1>5, <2>1 DEF Undisturbed, Busy
  <2>2. QED
    BY <1>1, <1>5, <2>1 DEF Undisturbed
<1>6. CASE n \in DOMAIN flowWire
  <2>1. CASE flowWire[n].id = f /\ flowWire[n].cancel
    <3>1. /\ Undisturbed(n, f) /\ Busy(f) /\ Cancelling(f)
      BY <1>4, <1>6, <2>1 DEF FlowInv, Busy, Cancelling
    <3>2. c.id = f => c.op = "get" /\ ~c.cancel
      BY <3>1 DEF FlowCommandType
    <3>3. QED
      BY <1>1, <1>2, <1>6, <2>1, <3>1, <3>2 DEF Undisturbed
  <2>2. QED
    BY <1>1, <1>6, <2>1 DEF Undisturbed
<1>7. QED
  BY <1>1, <1>5, <1>6

\* An answer removes the oldest command, and may add the write of a cancellation.
LEMMA FlowAnsweredStep ==
    ASSUME FlowInv, FlowAnswered
    PROVE  \A f \in Flows \ crossed' : /\ flows'[f] = newest'[f]
                                       /\ \A n \in DOMAIN flowWire' : Undisturbed(n, f)'
<1> DEFINE c == Head(flowWire)
           write == FlowCommand("set", c.id, Cancelled(flows[c.id]), TRUE)
<1>0. flowWire \in Seq(FlowCommandType) /\ flowWire # <<>>
  BY DEF FlowInv, ChainTypeOK, FlowCommandType, FlowAnswered
<1>1. /\ c = flowWire[1] /\ 1 \in DOMAIN flowWire
      /\ c \in FlowCommandType /\ c.id \in Flows /\ c.op \in {"set", "get"}
  <2>1. c = flowWire[1] /\ 1 \in DOMAIN flowWire /\ c \in FlowCommandType
    BY <1>0, Shifted
  <2>2. QED
    BY <2>1 DEF FlowCommandType
<1>2. crossed' = crossed
  BY DEF FlowAnswered
<1>3. ASSUME NEW n \in DOMAIN flowWire'
      PROVE  /\ n \in Nat
             /\ \/ n + 1 \in DOMAIN flowWire /\ n + 1 # 1 /\ flowWire'[n] = flowWire[n + 1]
                \/ /\ flowWire'[n] = write /\ n = Len(flowWire)
                   /\ c.op = "get" /\ c.cancel /\ flows[c.id] # NoFlow
  <2>1. CASE c.op = "get" /\ c.cancel /\ flows[c.id] # NoFlow
    <3>1. flows[c.id] \in FlowValue
      BY <1>1 DEF FlowInv, ChainTypeOK
    <3>2. Cancelled(flows[c.id]) \in FlowValue
      BY <2>1, <3>1 DEF FlowValue, Cancelled
    <3>3. write \in FlowCommandType
      BY <1>1, <3>2, FlowCommands
    <3>4. flowWire' = Append(Tail(flowWire), write)
      BY <2>1 DEF FlowAnswered
    <3>5. /\ n \in Nat
          /\ \/ n + 1 \in DOMAIN flowWire /\ n + 1 # 1 /\ Append(Tail(flowWire), write)[n] = flowWire[n + 1]
             \/ n = Len(flowWire) /\ Append(Tail(flowWire), write)[n] = write
      <4> HIDE DEF write
      <4>1. QED
        BY <1>0, <1>3, <3>3, <3>4, Shifted
    <3>6. QED
      BY <2>1, <3>4, <3>5
  <2>2. CASE ~(c.op = "get" /\ c.cancel /\ flows[c.id] # NoFlow)
    <3>1. flowWire' = Tail(flowWire)
      BY <2>2 DEF FlowAnswered
    <3>2. QED
      BY <1>0, <1>3, <3>1, Shifted
  <2>3. QED
    BY <2>1, <2>2
<1>4. SUFFICES ASSUME NEW f \in Flows \ crossed
               PROVE  flows'[f] = newest'[f] /\ \A n \in DOMAIN flowWire' : Undisturbed(n, f)'
  BY <1>2
<1>5. flows[f] = newest[f] /\ \A n \in DOMAIN flowWire : Undisturbed(n, f)
  BY DEF FlowInv
<1>6. c.op = "get" \/ c.id # f => flows'[f] = flows[f] /\ newest'[f] = newest[f]
  BY <1>1 DEF FlowAnswered, FlowInv, ChainTypeOK
<1>7. c.op = "set" /\ c.id = f => flows'[f] = newest'[f]
  <2>1. ASSUME c.op = "set", c.id = f, c.cancel
        PROVE  flows'[f] = newest'[f]
    <3>1. newest[f] # NoFlow /\ c.flow = Cancelled(newest[f])
      BY <1>1, <1>5, <2>1 DEF Undisturbed
    <3>2. QED
      BY <1>1, <2>1, <3>1 DEF FlowAnswered, FlowInv, ChainTypeOK, Cancelled
  <2>2. ASSUME c.op = "set", c.id = f, ~c.cancel
        PROVE  flows'[f] = newest'[f]
    BY <1>1, <2>2 DEF FlowAnswered, FlowInv, ChainTypeOK
  <2>3. QED
    BY <2>1, <2>2
<1>8. ASSUME NEW n \in DOMAIN flowWire', flowWire'[n].id = f, flowWire'[n].cancel
      PROVE  Undisturbed(n, f)'
  <2>1. CASE n + 1 \in DOMAIN flowWire /\ n + 1 # 1 /\ flowWire'[n] = flowWire[n + 1]
    <3>1. /\ flowWire[n + 1].op = "set" => newest[f] # NoFlow /\ flowWire[n + 1].flow = Cancelled(newest[f])
          /\ \A m \in DOMAIN flowWire \ {n + 1} :
                flowWire[m].id = f => flowWire[m].op = "get" /\ ~flowWire[m].cancel
      BY <1>5, <1>8, <2>1 DEF Undisturbed
    <3>2. c.id = f => c.op = "get" /\ ~c.cancel
      BY <1>1, <2>1, <3>1
    <3>3. \A m \in DOMAIN flowWire' \ {n} :
             flowWire'[m].id = f => flowWire'[m].op = "get" /\ ~flowWire'[m].cancel
      <4>1. SUFFICES ASSUME NEW m \in DOMAIN flowWire' \ {n}, flowWire'[m].id = f
                     PROVE  flowWire'[m].op = "get" /\ ~flowWire'[m].cancel
        OBVIOUS
      <4>2. m \in Nat /\ n \in Nat /\ m # n
        BY <1>3
      <4>3. CASE m + 1 \in DOMAIN flowWire /\ flowWire'[m] = flowWire[m + 1]
        BY <3>1, <4>1, <4>2, <4>3
      <4>4. CASE flowWire'[m] = write /\ c.op = "get" /\ c.cancel
        BY <3>2, <4>1, <4>4 DEF FlowCommand
      <4>5. QED
        BY <1>3, <4>3, <4>4
    <3>4. newest'[f] = newest[f]
      BY <1>1, <1>6, <3>2
    <3>5. QED
      BY <2>1, <3>1, <3>3, <3>4 DEF Undisturbed
  <2>2. CASE /\ flowWire'[n] = write /\ n = Len(flowWire)
             /\ c.op = "get" /\ c.cancel /\ flows[c.id] # NoFlow
    <3>1. c.id = f /\ write.op = "set" /\ write.flow = Cancelled(flows[c.id])
      BY <1>8, <2>2 DEF FlowCommand
    <3>2. \A m \in DOMAIN flowWire \ {1} : flowWire[m].id = f => flowWire[m].op = "get" /\ ~flowWire[m].cancel
      BY <1>1, <1>5, <2>2, <3>1 DEF Undisturbed
    <3>3. \A m \in DOMAIN flowWire' \ {n} :
             flowWire'[m].id = f => flowWire'[m].op = "get" /\ ~flowWire'[m].cancel
      BY <1>3, <2>2, <3>2
    <3>4. newest'[f] = newest[f] /\ newest[f] = flows[f]
      BY <1>5, <1>6, <2>2
    <3>5. QED
      BY <2>2, <3>1, <3>3, <3>4 DEF Undisturbed
  <2>3. QED
    BY <1>3, <2>1, <2>2
<1>9. QED
  BY <1>1, <1>5, <1>6, <1>7, <1>8 DEF Undisturbed

LEMMA FlowRejectedStep ==
    ASSUME FlowInv, NEW executed \in BOOLEAN, FlowRejected(executed)
    PROVE  \A f \in Flows \ crossed' : /\ flows'[f] = newest'[f]
                                       /\ \A n \in DOMAIN flowWire' : Undisturbed(n, f)'
<1> DEFINE c == Head(flowWire)
<1>0. flowWire \in Seq(FlowCommandType) /\ flowWire # <<>>
  BY DEF FlowInv, ChainTypeOK, FlowCommandType, FlowRejected
<1>1. \A n \in DOMAIN flowWire' : n \in Nat /\ n + 1 \in DOMAIN flowWire /\ flowWire'[n] = flowWire[n + 1]
  BY <1>0, Shifted DEF FlowRejected
<1>2. newest' = newest /\ crossed' = crossed \union {c.id}
  BY DEF FlowRejected, FlowFault
<1>3. \A f \in Flows \ crossed' : flows'[f] = flows[f]
  BY <1>2 DEF FlowRejected, FlowInv, ChainTypeOK
<1>4. ASSUME NEW f \in Flows \ crossed', NEW n \in DOMAIN flowWire'
      PROVE  Undisturbed(n, f)'
  <2>1. Undisturbed(n + 1, f)
    BY <1>1, <1>2 DEF FlowInv
  <2>2. QED
    BY <1>1, <1>2, <2>1 DEF Undisturbed
<1>5. QED
  BY <1>2, <1>3, <1>4 DEF FlowInv

LEMMA FlowInvStep == ASSUME JobChainAssumption, FlowInv, [ChainNext]_chainVars PROVE FlowInv'
<1>1. ChainTypeOK'
  BY ChainTypeStep DEF FlowInv
<1>2. SUFFICES \A f \in Flows \ crossed' : /\ flows'[f] = newest'[f]
                                           /\ \A n \in DOMAIN flowWire' : Undisturbed(n, f)'
  BY <1>1 DEF FlowInv
<1>3. CASE UNCHANGED flowVars
  BY <1>3 DEF FlowInv, flowVars, Undisturbed
<1>4. ASSUME NEW f \in Flows, Start(f) \/ Look(f) \/ CancelWorkflow(f)
      PROVE  <1>2!1
  <2>1. Flow(runs, "running") \in FlowValue /\ NoFlow \in FlowValue
    BY DEF FlowInv, ChainTypeOK, Flow, FlowValue
  <2>2. CASE Start(f)
    BY <2>1, <2>2, FlowCommands, SendFlowStep DEF Start, FlowCommand
  <2>3. CASE Look(f)
    BY <2>1, <2>3, FlowCommands, SendFlowStep DEF Look, FlowCommand
  <2>4. CASE CancelWorkflow(f)
    BY <2>1, <2>4, FlowCommands, SendFlowStep DEF CancelWorkflow, FlowCommand
  <2>5. QED
    BY <1>4, <2>2, <2>3, <2>4
<1>5. ASSUME NEW f \in Flows, Expire(f)
      PROVE  <1>2!1
  BY <1>5 DEF Expire, FlowFault, FlowInv, ChainTypeOK, Undisturbed
<1>6. CASE WaitStep
  BY <1>3, <1>6 DEF WaitStep, JobFinishes, WaitForDependencies, SlowReply, Waiter, Poll, NextDependency,
                    Miss, Slept, WaitThrows, WaitReturns
<1>7. QED
  BY <1>3, <1>4, <1>5, <1>6, FlowAnsweredStep, FlowRejectedStep
     DEF ChainNext, chainVars, FlowStep, CreateChain, GetChainStatus, AddJobToChain, ExecuteWorkflow, GetWorkflowStatus

\* A workflow is what the last call made it, for any number of calls in flight, unless a
\* cancellation was crossed (job-chain.manager.ts:147-245).
THEOREM LastCallStandsAlways == ASSUME JobChainAssumption PROVE ChainSpec => []LastCallStands
<1>1. ChainInit => FlowInv
  BY ChainTypeInit DEF ChainInit, FlowInv
<1>2. FlowInv /\ [ChainNext]_chainVars => FlowInv'
  BY FlowInvStep
<1>3. FlowInv => LastCallStands
  BY DEF FlowInv, LastCallStands
<1>4. QED
  BY <1>1, <1>2, <1>3, PTL DEF ChainSpec

\* What was there when a wait began has been returned or is still to be asked for, and what
\* was asked for has been returned or is being read.
Awaited(w) ==
    waits[w].pc # "idle" =>
        /\ TimedOut(waits[w]) \/ atStart[w] \subseteq waits[w].found \union ToSet(waits[w].deps)
        /\ atStart[w] \cap waits[w].polled
              \subseteq waits[w].found \union {p \in Parents : waits[w].pc = "get" /\ p = Head(waits[w].deps)}
        /\ atStart[w] \subseteq results

WaitInv == ChainTypeOK /\ \A w \in Waiters : Awaited(w)

LEMMA HeadAndTail ==
    ASSUME NEW s \in Seq(Parents), s # <<>>
    PROVE  ToSet(s) = {Head(s)} \union ToSet(Tail(s))
<1>1. /\ Head(s) = s[1] /\ DOMAIN s = 1..Len(s) /\ Len(s) \in Nat /\ Len(s) >= 1
      /\ DOMAIN Tail(s) = 1..(Len(s) - 1)
      /\ \A n \in 1..(Len(s) - 1) : Tail(s)[n] = s[n + 1]
  OBVIOUS
<1>2. \A n \in 1..Len(s) : n = 1 \/ (n - 1 \in 1..(Len(s) - 1) /\ (n - 1) + 1 = n)
  BY <1>1
<1>3. \A n \in 1..(Len(s) - 1) : n + 1 \in 1..Len(s)
  BY <1>1
<1>4. ToSet(s) \subseteq {Head(s)} \union ToSet(Tail(s))
  <2>1. SUFFICES ASSUME NEW n \in 1..Len(s), n # 1
                 PROVE  s[n] \in ToSet(Tail(s))
    BY <1>1 DEF ToSet
  <2>2. n - 1 \in DOMAIN Tail(s) /\ Tail(s)[n - 1] = s[n]
    BY <1>1, <1>2, <2>1
  <2>3. QED
    BY <2>2 DEF ToSet
<1>5. {Head(s)} \union ToSet(Tail(s)) \subseteq ToSet(s)
  BY <1>1, <1>3 DEF ToSet
<1>6. QED
  BY <1>4, <1>5

LEMMA WaitInvStep ==
    ASSUME JobChainAssumption, WaitInv, [ChainNext]_chainVars
    PROVE  WaitInv'
<1>1. ChainTypeOK'
  BY ChainTypeStep DEF WaitInv
<1>2. SUFFICES ASSUME NEW w \in Waiters PROVE Awaited(w)'
  BY <1>1 DEF WaitInv
<1>3. /\ Awaited(w) /\ waits \in [Waiters -> WaitType]
      /\ waits[w].deps \in Seq(Parents) /\ waits[w].elapsed \in 0..Timeout
      /\ Timeout \in Nat /\ atStart \in [Waiters -> SUBSET Parents]
  BY DEF WaitInv, ChainTypeOK, WaitType, JobChainAssumption
<1>3a. results \subseteq results'
  BY DEF ChainNext, chainVars, waitVars, FlowStep, WaitStep, JobFinishes, WaitForDependencies, SlowReply, Waiter, Poll,
         NextDependency, Miss, Slept, WaitThrows, WaitReturns
<1>3b. waits[w].deps # <<>> =>
           /\ ToSet(waits[w].deps) = {Head(waits[w].deps)} \union ToSet(Tail(waits[w].deps))
           /\ Head(waits[w].deps) \in Parents
  BY <1>3, HeadAndTail
<1>4. CASE waits'[w] = waits[w] /\ atStart'[w] = atStart[w]
  BY <1>3, <1>3a, <1>4 DEF Awaited, TimedOut
<1>5. ASSUME NEW deps \in SetToSeqs(Parents), WaitForDependencies(w, deps)
      PROVE  Awaited(w)'
  BY <1>3, <1>5 DEF WaitForDependencies, Awaited, Wait
<1>6. CASE Poll(w)
  <2>1. waits[w].deps # <<>> /\ waits[w].pc = "check" /\ atStart' = atStart
    BY <1>6 DEF Poll
  <2>2. CASE TimedOut(waits[w])
    <3>1. waits'[w] = [waits[w] EXCEPT !.deps = Tail(@)]
      BY <1>3, <1>6, <2>2 DEF Poll
    <3>2. /\ waits'[w].elapsed = waits[w].elapsed /\ waits'[w].found = waits[w].found
          /\ waits'[w].polled = waits[w].polled /\ waits'[w].pc = waits[w].pc
      BY <1>3, <3>1 DEF WaitType
    <3>3. QED
      BY <1>3, <1>3a, <2>1, <2>2, <3>2 DEF Awaited, TimedOut
  <2>3. CASE ~TimedOut(waits[w])
    <3>1. waits'[w] = [waits[w] EXCEPT !.pc = "get", !.polled = @ \union {Head(waits[w].deps)}]
      BY <1>3, <1>6, <2>3 DEF Poll
    <3>2. /\ waits'[w].deps = waits[w].deps /\ waits'[w].found = waits[w].found /\ waits'[w].pc = "get"
          /\ waits'[w].polled = waits[w].polled \union {Head(waits[w].deps)}
      BY <1>3, <3>1 DEF WaitType
    <3>3. QED
      BY <1>3, <1>3a, <1>3b, <2>1, <2>3, <3>2 DEF Awaited, TimedOut
  <2>4. QED
    BY <2>2, <2>3
<1>7. CASE NextDependency(w)
  <2>1. waits[w].deps # <<>> /\ waits[w].pc = "get" /\ atStart' = atStart
    BY <1>7 DEF NextDependency, WaitInv, ChainTypeOK
  <2>2. waits'[w] = [waits[w] EXCEPT !.pc = "check", !.deps = Tail(@), !.found = @ \union {Head(waits[w].deps)}]
    BY <1>3, <1>7 DEF NextDependency
  <2>3. /\ waits'[w].elapsed = waits[w].elapsed /\ waits'[w].deps = Tail(waits[w].deps)
        /\ waits'[w].found = waits[w].found \union {Head(waits[w].deps)}
        /\ waits'[w].polled = waits[w].polled /\ waits'[w].pc = "check"
    BY <1>3, <2>2 DEF WaitType
  <2>4. QED
    BY <1>3, <1>3a, <1>3b, <2>1, <2>3 DEF Awaited, TimedOut
<1>8. CASE Miss(w)
  <2>1. /\ waits[w].pc = "get" /\ atStart' = atStart /\ Head(waits[w].deps) \notin results
        /\ waits'[w] = [waits[w] EXCEPT !.pc = "sleep"]
    BY <1>3, <1>8 DEF Miss, AfterMiss
  <2>2. /\ waits'[w].elapsed = waits[w].elapsed /\ waits'[w].deps = waits[w].deps
        /\ waits'[w].found = waits[w].found /\ waits'[w].polled = waits[w].polled /\ waits'[w].pc = "sleep"
    BY <1>3, <2>1 DEF WaitType
  <2>3. QED
    BY <1>3, <1>3a, <2>1, <2>2 DEF Awaited, TimedOut
<1>9. CASE Slept(w) \/ SlowReply(w)
  <2>1. /\ waits'[w].deps = waits[w].deps /\ waits'[w].found = waits[w].found
        /\ waits'[w].polled = waits[w].polled
        /\ (waits[w].pc = "get" /\ waits'[w].pc = "get") \/ (waits[w].pc = "sleep" /\ waits'[w].pc = "check")
        /\ atStart' = atStart
    BY <1>3, <1>9 DEF Slept, SlowReply, WaitType
  <2>2. TimedOut(waits[w]) => TimedOut(waits'[w])
    <3>1. waits'[w].elapsed \in {waits[w].elapsed, waits[w].elapsed + 1}
      BY <1>3, <1>9 DEF Slept, SlowReply, WaitType
    <3>2. QED
      BY <1>3, <3>1 DEF TimedOut
  <2>3. QED
    BY <1>3, <1>3a, <2>1, <2>2 DEF Awaited
<1>10. CASE WaitReturns(w) \/ WaitThrows(w)
  BY <1>3, <1>10 DEF WaitReturns, WaitThrows, Awaited, IdleWait, Wait
<1>11. ASSUME NEW v \in Waiters, v # w,
              \/ Waiter(v) \/ SlowReply(v) \/ WaitThrows(v)
              \/ \E deps \in SetToSeqs(Parents) : WaitForDependencies(v, deps)
       PROVE  waits'[w] = waits[w] /\ atStart'[w] = atStart[w]
  BY <1>3, <1>11 DEF Waiter, SlowReply, WaitForDependencies, Poll, NextDependency, Miss, Slept, WaitThrows, WaitReturns
<1>12. CASE UNCHANGED waitVars \/ \E j \in Parents : JobFinishes(j)
  BY <1>4, <1>12 DEF waitVars, JobFinishes
<1>13. QED
  BY <1>4, <1>5, <1>6, <1>7, <1>8, <1>9, <1>10, <1>11, <1>12 DEF ChainNext, chainVars, FlowStep, WaitStep, Waiter

LEMMA WaitReturnsReady ==
    ASSUME WaitInv, ChainNext, NEW w \in Waiters, waits[w].pc = "check", waits'[w].pc = "idle"
    PROVE  /\ atStart[w] \subseteq waits[w].found \/ TimedOut(waits[w])
           /\ atStart[w] \cap waits[w].polled \subseteq waits[w].found
<1>1. waits \in [Waiters -> WaitType]
  BY DEF WaitInv, ChainTypeOK, WaitType
<1>2. WaitReturns(w)
  <2>1. ASSUME NEW v \in Waiters
        PROVE  ~Poll(v) /\ ~NextDependency(v) /\ ~Miss(v) /\ ~Slept(v) /\ ~SlowReply(v) /\ ~WaitThrows(v)
    <3>1. ~NextDependency(v) /\ ~Poll(v)
      BY <1>1 DEF NextDependency, Poll, WaitType
    <3>2. ~Miss(v)
      BY <1>1 DEF Miss, AfterMiss, WaitType
    <3>3. ~Slept(v)
      BY <1>1 DEF Slept, WaitType
    <3>4. ~SlowReply(v) /\ ~WaitThrows(v)
      BY <1>1 DEF SlowReply, WaitThrows, WaitType
    <3>5. QED
      BY <3>1, <3>2, <3>3, <3>4
  <2>2. \A v \in Waiters, deps \in SetToSeqs(Parents) : ~WaitForDependencies(v, deps)
    BY <1>1 DEF WaitForDependencies, Wait, WaitType
  <2>3. \A v \in Waiters : WaitReturns(v) => v = w
    BY <1>1 DEF WaitReturns
  <2>4. FlowStep \/ (\E j \in Parents : JobFinishes(j)) => waits' = waits
    BY DEF FlowStep, waitVars, JobFinishes
  <2>5. ~FlowStep /\ ~\E j \in Parents : JobFinishes(j)
    BY <2>4
  <2>6. PICK v \in Waiters : \/ \E deps \in SetToSeqs(Parents) : WaitForDependencies(v, deps)
                            \/ SlowReply(v) \/ WaitThrows(v) \/ Poll(v) \/ NextDependency(v) \/ Miss(v)
                            \/ Slept(v) \/ WaitReturns(v)
    BY <2>5 DEF ChainNext, WaitStep, Waiter
  <2>7. QED
    BY <2>1, <2>2, <2>3, <2>6
<1>3. waits[w].deps = <<>> /\ Awaited(w)
  BY <1>2 DEF WaitReturns, WaitInv
<1>4. QED
  BY <1>3 DEF Awaited, ToSet

\* A wait returns what was there when it began, or has used up its time, and whatever it asked
\* for in time, for any number of dependencies and waits at once, unless it throws
\* (job-chain.manager.ts:273-319).
THEOREM ReadyAreReturnedAlways == ASSUME JobChainAssumption PROVE ChainSpec => ReadyAreReturned
<1> DEFINE Returned(w) == waits[w].pc = "check" /\ waits'[w].pc = "idle" =>
                             /\ atStart[w] \subseteq waits[w].found \/ TimedOut(waits[w])
                             /\ atStart[w] \cap waits[w].polled \subseteq waits[w].found
<1>1. ChainInit => WaitInv
  BY ChainTypeInit DEF ChainInit, WaitInv, Awaited, IdleWait, Wait
<1>2. WaitInv /\ [ChainNext]_chainVars => WaitInv'
  BY WaitInvStep
<1>3. WaitInv /\ [ChainNext]_chainVars => [\A w \in Waiters : Returned(w)]_chainVars
  BY WaitReturnsReady
<1>4. QED
  BY <1>1, <1>2, <1>3, PTL DEF ChainSpec, ReadyAreReturned
-----------------------------------------------------------------------------
(***************************************************************************)
(* GlobalQueue: the best region takes over, and jobs reach the regions.    *)
(*                                                                         *)
(* What BestTakesOver rests on.                                            *)
(***************************************************************************)
\* The regions that answered all along can be reached, and were found healthy or are still
\* to answer.
ProbeInv ==
    \A r \in Regions : checks[r].pc = "probe" =>
       /\ \A q \in checks[r].steady : Reachable(q)
       /\ checks[r].steady \ checks[r].todo \subseteq checks[r].healthy

(***************************************************************************)
(* What Replicated rests on: CopyInv.  A call brings the other regions the *)
(* job it found in the primary under an id; that the id is of the same job *)
(* there needs the primary to have counted at least as far as any region,  *)
(* so that the ids it generates are free everywhere.                       *)
(***************************************************************************)
AdderType ==
    [pc : {"idle", "add", "find", "copy", "wait"}, id : JobIds \union {NotGiven},
     job : 0..MaxCalls, region : Regions \union {NotGiven}, asked : SUBSET Regions,
     todo : SUBSET Regions]

\* A call knows the number of the job it adds and the id of the job it copies.
KnowingAdder ==
    {x \in AdderType :
        /\ x.pc = "add" => x.job # 0 /\ x.id \in CustomIds \union {NotGiven}
        /\ x.pc = "find" => x.id \in JobIds
        /\ x.pc \in {"add", "find"} => x.region \in Regions
        /\ x.pc \in {"copy", "wait"} => x.id \in JobIds /\ x.job # 0}

CallsKnow == GlobalTypeOK /\ adds \in [Adders -> KnowingAdder]

Copying(a) == adds[a].pc \in {"copy", "wait"}

\* What a call that met neither a rejection nor a failover has done so far.
CleanSoFar(a) ==
    /\ adds[a].pc # "idle" => adds[a].region = primaryRegion
    /\ adds[a].pc = "find" => jobs[primaryRegion][adds[a].id] # 0
    /\ Copying(a) => \A r \in adds[a].asked \ adds[a].todo : jobs[r][adds[a].id] # 0

\* A call that will still bring a region the job of an id.
Bringing(a, r, id) ==
    /\ adds[a].id = id
    /\ (adds[a].pc = "find" /\ r \in adds[a].asked) \/ (Copying(a) /\ r \in adds[a].todo)

\* As long as no call met a rejection or a failover, the primary has counted at least as
\* far as any id in use; a region holds under an id what the primary holds, or nothing
\* while a call is bringing it; and what a call has copied is the primary's job.
FreshIds == \A id \in 1..MaxIds : id > counter[primaryRegion] => \A r \in Regions : jobs[r][id] = 0

SameJobs ==
    \A r \in Regions, id \in JobIds :
       jobs[r][id] # jobs[primaryRegion][id] => jobs[r][id] = 0 /\ \E a \in Adders : Bringing(a, r, id)

CallAgrees(a) ==
    /\ adds[a].pc # "idle" => adds[a].region = primaryRegion
    /\ adds[a].pc = "find" => jobs[primaryRegion][adds[a].id] # 0
    /\ adds[a].pc = "add" => adds[a].asked = Regions
    /\ Copying(a) => /\ jobs[primaryRegion][adds[a].id] = adds[a].job
                     /\ \A r \in adds[a].asked \ adds[a].todo : jobs[r][adds[a].id] = adds[a].job

Agreed == FreshIds /\ SameJobs /\ \A a \in Adders : CallAgrees(a)

CopyInv ==
    /\ CallsKnow
    /\ \A a \in clean : CleanSoFar(a)
    /\ lost \/ Agreed

CheckType ==
    [pc : {"idle", "ping", "probe"}, todo : SUBSET Regions, healthy : SUBSET Regions, steady : SUBSET Regions]

LEMMA GlobalTypes ==
    ASSUME GlobalAssumption, GlobalTypeOK
    PROVE  /\ adds \in [Adders -> AdderType] /\ checks \in [Regions -> CheckType]
           /\ MaxIds \in Nat /\ MaxCalls \in Nat /\ added \in 0..MaxCalls
           /\ \A q \in Regions : /\ counter[q] \in 0..MaxIds
                                 /\ \A i \in JobIds : jobs[q][i] \in 0..MaxCalls
  BY DEF GlobalAssumption, GlobalTypeOK, AdderType, CheckType

\* The regions that hold a job, as BullMQ's add leaves them.
At(r, id) == IF id = NotGiven THEN counter[r] + 1 ELSE id

LEMMA BullAdds ==
    ASSUME GlobalAssumption, GlobalTypeOK, NEW r \in Regions, NEW id \in JobIds \union {NotGiven},
           NEW job \in 0..MaxCalls, BullAdd(r, id, job)
    PROVE  /\ jobs' \in [Regions -> [JobIds -> 0..MaxCalls]] /\ counter' \in [Regions -> 0..MaxIds]
           /\ At(r, id) \in JobIds /\ (id = NotGiven => counter[r] + 1 \in 1..MaxIds)
           /\ counter'[r] = counter[r] + 1 /\ \A q \in Regions \ {r} : counter'[q] = counter[q]
           /\ \A q \in Regions, i \in JobIds :
                 jobs'[q][i] = IF q = r /\ i = At(r, id) /\ (id = NotGiven \/ jobs[r][i] = 0)
                               THEN job ELSE jobs[q][i]
<1>1. /\ jobs \in [Regions -> [JobIds -> 0..MaxCalls]] /\ counter \in [Regions -> 0..MaxIds]
      /\ MaxIds \in Nat /\ counter[r] \in 0..MaxIds /\ counter[r] < MaxIds
  BY DEF GlobalAssumption, GlobalTypeOK, BullAdd
<1>2. counter[r] + 1 \in 1..MaxIds
  BY <1>1
<1>3. At(r, id) \in JobIds
  BY <1>2 DEF At, JobIds
<1>4. counter' = [counter EXCEPT ![r] = counter[r] + 1]
  BY DEF BullAdd
<1>5. jobs' = [jobs EXCEPT ![r][At(r, id)] = IF id # NotGiven /\ @ # 0 THEN @ ELSE job]
  BY DEF BullAdd, At
<1>6. counter[r] + 1 \in 0..MaxIds
  BY <1>1
<1>7. counter' \in [Regions -> 0..MaxIds]
  BY <1>1, <1>4, <1>6
<1>8. counter'[r] = counter[r] + 1 /\ \A q \in Regions \ {r} : counter'[q] = counter[q]
  BY <1>1, <1>4
<1>9. \A q \in Regions, i \in JobIds :
         jobs'[q][i] = IF q = r /\ i = At(r, id) /\ (id = NotGiven \/ jobs[r][i] = 0)
                       THEN job ELSE jobs[q][i]
  BY <1>1, <1>3, <1>5
<1>10. jobs' \in [Regions -> [JobIds -> 0..MaxCalls]]
  <2>1. jobs[r][At(r, id)] \in 0..MaxCalls
    BY <1>1, <1>3
  <2>2. jobs' = [jobs EXCEPT ![r] = [jobs[r] EXCEPT ![At(r, id)] =
                    IF id # NotGiven /\ jobs[r][At(r, id)] # 0 THEN jobs[r][At(r, id)] ELSE job]]
    BY <1>1, <1>5
  <2>3. [jobs[r] EXCEPT ![At(r, id)] =
            IF id # NotGiven /\ jobs[r][At(r, id)] # 0 THEN jobs[r][At(r, id)] ELSE job] \in [JobIds -> 0..MaxCalls]
    BY <1>1, <2>1
  <2>4. QED
    BY <1>1, <2>2, <2>3
<1>11. QED
  BY <1>2, <1>3, <1>7, <1>8, <1>9, <1>10

LEMMA GlobalTypeInit == ASSUME GlobalAssumption PROVE GlobalInit => GlobalTypeOK
<1> SUFFICES ASSUME GlobalInit PROVE GlobalTypeOK
  OBVIOUS
<1>1. 0 \in 0..MaxCalls /\ 0 \in 0..MaxIds /\ 0 \in 0..MaxOutages /\ 0 \in 0..MaxFailovers
  BY DEF GlobalAssumption
<1>2. IdleAdd \in AdderType /\ IdleCheck \in CheckType
  BY <1>1 DEF IdleAdd, IdleCheck, AdderType, CheckType
<1>3. adds \in [Adders -> AdderType] /\ checks \in [Regions -> CheckType]
  BY <1>2 DEF GlobalInit
<1>4. jobs \in [Regions -> [JobIds -> 0..MaxCalls]] /\ counter \in [Regions -> 0..MaxIds]
  BY <1>1 DEF GlobalInit, InitializeRegions
<1>5. QED
  BY <1>1, <1>3, <1>4 DEF GlobalInit, InitializeRegions, GlobalTypeOK, AdderType, CheckType

\* The best of the regions that are healthy is one of them.
LEMMA Chosen ==
    ASSUME GlobalAssumption, NEW S \in SUBSET Regions, S # {}
    PROVE  LET q == CHOOSE q \in S : \A c \in S \ {q} : Best(q, c)
           IN  q \in S /\ \A c \in S \ {q} : Best(q, c)
<1>1. \E q \in S : \A c \in S \ {q} : Best(q, c)
  BY DEF GlobalAssumption
<1>2. QED
  BY <1>1

\* What the calls, and the closing, leave alone.
LEMMA CallQuiet ==
    ASSUME NEW a \in Adders, Call(a)
    PROVE  UNCHANGED <<up, settings, primaryRegion, openRegions, closing, checks, bounds>>
<1>1. CASE \/ \E id \in CustomIds \union {NotGiven} : AddJob(a, id)
           \/ \E id \in JobIds, targetRegions \in SUBSET Regions : ReplicateJob(a, id, targetRegions)
  BY <1>1 DEF AddJob, ReplicateJob
<1>2. CASE Added(a) \/ Found(a) \/ Waited(a) \/ AddReturns(a)
  BY <1>2 DEF Added, Found, Waited, AddReturns, globalHistory
<1>3. CASE \E r \in Regions : Copy(a, r) \/ \E executed \in BOOLEAN : CopyFails(a, r, executed)
  BY <1>3 DEF Copy, CopyFails, globalHistory
<1>4. CASE \E executed \in BOOLEAN : AddFails(a, executed)
  BY <1>4 DEF AddFails
<1>5. QED
  BY <1>1, <1>2, <1>3, <1>4 DEF Call, Adder

LEMMA CloseQuiet ==
    ASSUME CloseStep
    PROVE  UNCHANGED <<up, settings, primaryRegion, bounds>>
  BY DEF CloseStep, Close, QuitRegion, globalHistory

\* What a step changes of what the jobs see.
LEMMA GlobalSteps ==
    ASSUME GlobalAssumption, GlobalTypeOK, [GlobalNext]_globalVars
    PROVE  \/ \E a \in Adders : Call(a)
           \/ \E r \in Regions : SetPrimary(r) /\ UNCHANGED <<queues, settings, adds>>
           \/ UNCHANGED <<queues, settings, adds, primaryRegion, clean, lost>>
<1>1. CASE \E r \in Regions : HandleFailover(r)
  <2>1. PICK r \in Regions : HandleFailover(r)
    BY <1>1
  <2>2. Candidates(r) \subseteq Regions
    BY DEF Candidates, GlobalTypeOK
  <2>3. CASE Candidates(r) = {}
    BY <2>1, <2>3 DEF HandleFailover, globalHistory
  <2>4. CASE Candidates(r) # {}
    <3> DEFINE q == CHOOSE q \in Candidates(r) : \A c \in Candidates(r) \ {q} : Best(q, c)
    <3>1. q \in Regions
      BY <2>2, <2>4, Chosen
    <3>2. SetPrimary(q) /\ UNCHANGED <<queues, settings, adds>>
      BY <2>1, <2>4 DEF HandleFailover
    <3>3. QED
      BY <3>1, <3>2
  <2>5. QED
    BY <2>3, <2>4
<1>2. CASE \E r \in Regions : FailoverTo(r)
  BY <1>2 DEF FailoverTo
<1>3. CASE UNCHANGED globalVars
  BY <1>3 DEF globalVars, globalHistory
<1>4. CASE \E r \in Regions : \/ HealthCheckTick(r) \/ Pinged(r) \/ \E q \in Regions : Probed(r, q)
                              \/ QuitRegion(r) \/ Down(r) \/ Recover(r)
  BY <1>4 DEF HealthCheckTick, Pinged, Probed, QuitRegion, Down, Recover, globalHistory
<1>5. CASE Close
  BY <1>5 DEF Close, globalHistory
<1>6. QED
  BY <1>1, <1>2, <1>3, <1>4, <1>5 DEF GlobalNext, JobStep, HealthStep, Check, CloseStep, Outside

LEMMA CallsKnowInit == ASSUME GlobalAssumption PROVE GlobalInit => CallsKnow
<1>1. IdleAdd \in KnowingAdder
  BY DEF IdleAdd, KnowingAdder, AdderType, GlobalAssumption
<1>2. QED
  BY <1>1, GlobalTypeInit DEF GlobalInit, CallsKnow

\* The type of what the jobs see.
CopyTypeOK ==
    /\ jobs \in [Regions -> [JobIds -> 0..MaxCalls]] /\ counter \in [Regions -> 0..MaxIds]
    /\ added \in 0..MaxCalls /\ adds \in [Adders -> KnowingAdder]
    /\ clean \subseteq Adders /\ lost \in BOOLEAN

LEMMA CallTypes ==
    ASSUME GlobalAssumption, CallsKnow, NEW a \in Adders, Call(a)
    PROVE  CopyTypeOK'
<1> DEFINE x == adds[a]
<1>1. CopyTypeOK /\ GlobalTypeOK /\ primaryRegion \in Regions /\ IdleAdd \in KnowingAdder
  BY DEF GlobalAssumption, GlobalTypeOK, CallsKnow, CopyTypeOK, KnowingAdder, AdderType, IdleAdd
<1>2. /\ x \in KnowingAdder /\ x \in AdderType /\ x.id \in JobIds \union {NotGiven} /\ x.job \in 0..MaxCalls
      /\ x.todo \subseteq Regions /\ x.asked \subseteq Regions
  BY <1>1 DEF CopyTypeOK, KnowingAdder, AdderType
<1>3. /\ x.pc = "add" => x.job # 0 /\ x.id \in CustomIds \union {NotGiven}
      /\ x.pc = "find" => x.id \in JobIds
      /\ x.pc \in {"add", "find"} => x.region \in Regions
      /\ x.pc \in {"copy", "wait"} => x.id \in JobIds /\ x.job # 0
  BY <1>2 DEF KnowingAdder
<1>4. ASSUME NEW y \in KnowingAdder, adds' = [adds EXCEPT ![a] = y],
             jobs' \in [Regions -> [JobIds -> 0..MaxCalls]], counter' \in [Regions -> 0..MaxIds],
             added' \in 0..MaxCalls, clean' \subseteq Adders, lost' \in BOOLEAN
      PROVE  CopyTypeOK'
  BY <1>1, <1>4 DEF CopyTypeOK
<1>5. ASSUME NEW id \in CustomIds \union {NotGiven}, AddJob(a, id)
      PROVE  CopyTypeOK'
  <2>1. added + 1 \in 0..MaxCalls /\ added + 1 # 0
    BY <1>1, <1>5 DEF CopyTypeOK, AddJob, GlobalAssumption
  <2> DEFINE y == [IdleAdd EXCEPT !.pc = "add", !.id = id, !.job = added + 1, !.region = primaryRegion,
                             !.asked = Regions]
  <2>2. y \in KnowingAdder
    BY <1>1, <2>1 DEF IdleAdd, KnowingAdder, AdderType, JobIds
  <2>3. QED
    BY <1>1, <1>4, <1>5, <2>1, <2>2 DEF AddJob, CopyTypeOK
<1>6. ASSUME NEW id \in JobIds, NEW targetRegions \in SUBSET Regions, ReplicateJob(a, id, targetRegions)
      PROVE  CopyTypeOK'
  <2>1. added + 1 \in 0..MaxCalls
    BY <1>1, <1>6 DEF CopyTypeOK, ReplicateJob, GlobalAssumption
  <2> DEFINE y == [IdleAdd EXCEPT !.pc = "find", !.id = id, !.region = primaryRegion,
                             !.asked = targetRegions]
  <2>2. y \in KnowingAdder
    BY <1>1 DEF IdleAdd, KnowingAdder, AdderType
  <2>3. QED
    BY <1>1, <1>4, <1>6, <2>1, <2>2 DEF ReplicateJob, CopyTypeOK
<1>7. CASE Added(a)
  <2>1. x.region \in Regions
    BY <1>7 DEF Added, Reachable, GlobalTypeOK, CallsKnow
  <2>2. /\ jobs' \in [Regions -> [JobIds -> 0..MaxCalls]] /\ counter' \in [Regions -> 0..MaxIds]
        /\ At(x.region, x.id) \in JobIds
    BY <1>1, <1>2, <1>7, <2>1, BullAdds DEF Added
  <2> DEFINE y == [x EXCEPT !.pc = "find", !.region = primaryRegion,
                            !.id = IF x.id = NotGiven THEN counter[x.region] + 1 ELSE x.id]
  <2>3. y \in KnowingAdder
    <3>1. y = [x EXCEPT !.pc = "find", !.region = primaryRegion, !.id = At(x.region, x.id)]
      BY DEF At
    <3>2. y \in AdderType /\ y.pc = "find" /\ y.id \in JobIds /\ y.region \in Regions
      BY <1>1, <1>2, <2>2, <3>1 DEF AdderType
    <3> HIDE DEF y
    <3>3. QED
      BY <3>2 DEF KnowingAdder
  <2>4. adds' = [adds EXCEPT ![a] = y]
    BY <1>7 DEF Added
  <2>5. UNCHANGED <<added, clean, lost>>
    BY <1>7 DEF Added, globalHistory
  <2> HIDE DEF y
  <2>6. QED
    BY <1>1, <1>4, <2>2, <2>3, <2>4, <2>5 DEF CopyTypeOK
<1>8. CASE Found(a)
  <2>1. x.region \in Regions /\ x.id \in JobIds /\ UNCHANGED <<queues, clean, lost>>
    BY <1>3, <1>8 DEF Found, Reachable, GlobalTypeOK, CallsKnow, globalHistory
  <2> DEFINE y == [x EXCEPT !.pc = "copy", !.todo = Targets(x), !.job = jobs[x.region][x.id]]
  <2>2. CASE jobs[x.region][x.id] = 0
    <3>1. adds' = [adds EXCEPT ![a] = IdleAdd]
      BY <1>8, <2>2 DEF Found
    <3>2. QED
      BY <1>1, <1>4, <2>1, <3>1 DEF CopyTypeOK, queues
  <2>3. CASE jobs[x.region][x.id] # 0
    <3>1. adds' = [adds EXCEPT ![a] = y]
      BY <1>8, <2>3 DEF Found
    <3>2. jobs[x.region][x.id] \in 0..MaxCalls
      BY <1>1, <2>1 DEF CopyTypeOK
    <3>3. y \in KnowingAdder
      BY <1>1, <1>2, <2>1, <2>3, <3>2 DEF KnowingAdder, AdderType, Targets
    <3>4. QED
      BY <1>1, <1>4, <2>1, <3>1, <3>3 DEF CopyTypeOK, queues
  <2>4. QED
    BY <2>2, <2>3
<1>9. ASSUME x.pc = "copy", NEW r \in Regions,
             BullAdd(r, x.id, x.job) \/ UNCHANGED <<jobs, counter>>
      PROVE  jobs' \in [Regions -> [JobIds -> 0..MaxCalls]] /\ counter' \in [Regions -> 0..MaxIds]
  BY <1>1, <1>2, <1>9, BullAdds DEF CopyTypeOK
<1>10. ASSUME x.pc \in {"copy", "wait"}, NEW todo \in SUBSET Regions, NEW pc \in {"copy", "wait"}
       PROVE  [x EXCEPT !.todo = todo, !.pc = pc] \in KnowingAdder
  BY <1>2, <1>3, <1>10 DEF KnowingAdder, AdderType
<1>11. ASSUME NEW r \in Regions, Copy(a, r)
       PROVE  CopyTypeOK'
  <2>1. x.pc = "copy" /\ BullAdd(r, x.id, x.job) /\ UNCHANGED <<added, clean, lost>>
    BY <1>11 DEF Copy, globalHistory
  <2> DEFINE y == [x EXCEPT !.todo = x.todo \ {r}, !.pc = IF sync THEN "wait" ELSE "copy"]
  <2>2. y \in KnowingAdder
    BY <1>2, <1>10, <2>1
  <2>3. adds' = [adds EXCEPT ![a] = y]
    BY <1>1, <1>2, <1>11 DEF Copy, CopyTypeOK, AdderType
  <2> HIDE DEF y
  <2>4. QED
    BY <1>1, <1>4, <1>9, <2>1, <2>2, <2>3 DEF CopyTypeOK
<1>12. ASSUME NEW r \in Regions, NEW executed \in BOOLEAN, CopyFails(a, r, executed)
       PROVE  CopyTypeOK'
  <2>1. /\ x.pc = "copy" /\ (BullAdd(r, x.id, x.job) \/ UNCHANGED <<jobs, counter>>)
        /\ added' = added /\ clean' = clean \ {a} /\ lost'
    BY <1>12 DEF CopyFails
  <2> DEFINE y == [x EXCEPT !.todo = IF sync THEN {} ELSE x.todo \ {r}, !.pc = "copy"]
  <2>2. y \in KnowingAdder
    BY <1>2, <1>10, <2>1
  <2>3. adds' = [adds EXCEPT ![a] = y]
    BY <1>1, <1>2, <1>12 DEF CopyFails, CopyTypeOK, AdderType
  <2>4. lost' \in BOOLEAN
    BY Zenon, <1>12 DEF CopyFails
  <2> HIDE DEF y
  <2>5. QED
    BY <1>1, <1>4, <1>9, <2>1, <2>2, <2>3, <2>4 DEF CopyTypeOK
<1>13. ASSUME NEW executed \in BOOLEAN, AddFails(a, executed)
       PROVE  CopyTypeOK'
  <2>1. adds' = [adds EXCEPT ![a] = IdleAdd] /\ added' = added /\ clean' = clean \ {a}
    BY <1>13 DEF AddFails
  <2>2. lost' \in BOOLEAN
    BY Zenon, <1>13 DEF AddFails
  <2>3. jobs' \in [Regions -> [JobIds -> 0..MaxCalls]] /\ counter' \in [Regions -> 0..MaxIds]
    <3>1. CASE executed /\ x.pc = "add"
      <4>1. x.region \in Regions /\ BullAdd(x.region, x.id, x.job)
        BY <1>3, <1>13, <3>1 DEF AddFails
      <4>2. QED
        BY <1>1, <1>2, <4>1, BullAdds
    <3>2. CASE ~(executed /\ x.pc = "add")
      BY <1>1, <1>13, <3>2 DEF AddFails, CopyTypeOK
    <3>3. QED
      BY <3>1, <3>2
  <2>4. QED
    BY <1>1, <1>4, <2>1, <2>2, <2>3 DEF CopyTypeOK
<1>14. CASE Waited(a) \/ AddReturns(a)
  <2>1. UNCHANGED <<queues, clean, lost>>
    BY <1>14 DEF Waited, AddReturns, globalHistory
  <2>2. \E y \in KnowingAdder : adds' = [adds EXCEPT ![a] = y]
    <3>1. CASE Waited(a)
      <4>1. [x EXCEPT !.todo = x.todo, !.pc = "copy"] \in KnowingAdder
        BY <1>2, <1>10, <3>1 DEF Waited
      <4>2. adds' = [adds EXCEPT ![a] = [x EXCEPT !.todo = x.todo, !.pc = "copy"]]
        BY <1>1, <1>2, <3>1 DEF Waited, CopyTypeOK, AdderType
      <4>3. QED
        BY <4>1, <4>2
    <3>2. CASE AddReturns(a)
      BY <1>1, <3>2 DEF AddReturns
    <3>3. QED
      BY <1>14, <3>1, <3>2
  <2>3. QED
    BY <1>1, <1>4, <2>1, <2>2 DEF CopyTypeOK, queues
<1>15. QED
  BY <1>5, <1>6, <1>7, <1>8, <1>11, <1>12, <1>13, <1>14 DEF Call, Adder

\* A region that stops answering has answered no check all along; nothing else changes.
LEMMA LapseKeeps ==
    ASSUME checks \in [Regions -> CheckType], NEW q, Lapse(q)
    PROVE  /\ checks' \in [Regions -> CheckType]
           /\ \A r \in Regions :
                 /\ checks'[r].pc = checks[r].pc /\ checks'[r].todo = checks[r].todo
                 /\ checks'[r].healthy = checks[r].healthy
                 /\ checks'[r].steady = checks[r].steady \ {q}
<1>1. \A r \in Regions : [checks[r] EXCEPT !.steady = @ \ {q}] \in CheckType
  BY DEF CheckType
<1>2. \A r \in Regions : checks'[r] = [checks[r] EXCEPT !.steady = @ \ {q}]
  BY DEF Lapse
<1>3. checks' \in [Regions -> CheckType]
  BY <1>1 DEF Lapse
<1>4. QED
  BY <1>2, <1>3 DEF CheckType

LEMMA CallsKnowStep == ASSUME GlobalAssumption, CallsKnow, [GlobalNext]_globalVars PROVE CallsKnow'
<1> USE DEF CheckType
<1>1. /\ GlobalTypeOK /\ CopyTypeOK /\ checks \in [Regions -> CheckType] /\ primaryRegion \in Regions
      /\ up \subseteq Regions /\ openRegions \subseteq Regions
      /\ outages \in 0..MaxOutages /\ failovers \in 0..MaxFailovers
      /\ MaxOutages \in Nat /\ MaxFailovers \in Nat
  BY DEF GlobalAssumption, GlobalTypeOK, CallsKnow, CopyTypeOK
<1>2. CopyTypeOK'
  <2>1. ASSUME NEW r \in Regions, SetPrimary(r), UNCHANGED <<queues, settings, adds>>
        PROVE  CopyTypeOK'
    <3>1. lost' \in BOOLEAN
      BY Zenon, <2>1 DEF SetPrimary
    <3>2. QED
      BY <1>1, <2>1, <3>1 DEF CopyTypeOK, SetPrimary, queues
  <2>2. CASE UNCHANGED <<queues, settings, adds, primaryRegion, clean, lost>>
    BY <1>1, <2>2 DEF CopyTypeOK, queues
  <2>3. QED
    BY <1>1, <2>1, <2>2, CallTypes, GlobalSteps
<1>3. refuses' \in BOOLEAN /\ sync' \in BOOLEAN
  <2>1. UNCHANGED settings
    <3>1. CASE JobStep
      BY <3>1, CallQuiet DEF JobStep
    <3>2. CASE HealthStep
      BY <3>2 DEF HealthStep, HealthCheckTick, Check, Pinged, HandleFailover, Probed
    <3>3. CASE CloseStep
      BY <3>3, CloseQuiet
    <3>4. CASE Outside
      BY <3>4 DEF Outside, FailoverTo, Down, Recover
    <3>5. CASE UNCHANGED globalVars
      BY <3>5 DEF globalVars
    <3>6. QED
      BY <3>1, <3>2, <3>3, <3>4, <3>5 DEF GlobalNext
  <2>2. QED
    BY <1>1, <2>1 DEF GlobalTypeOK, settings
<1> DEFINE Rest == /\ up \subseteq Regions /\ openRegions \subseteq Regions /\ primaryRegion \in Regions
                   /\ closing \in {"no", "quitting", "ended"}
                   /\ checks \in [Regions -> CheckType]
                   /\ outages \in 0..MaxOutages /\ failovers \in 0..MaxFailovers
<1>4. Rest
  BY <1>1 DEF GlobalTypeOK
<1>5. CASE JobStep \/ UNCHANGED globalVars
  <2>1. UNCHANGED <<up, openRegions, primaryRegion, closing, checks, bounds>>
    BY <1>5, CallQuiet DEF JobStep, globalVars, globalHistory
  <2>2. Rest'
    BY <1>4, <2>1 DEF bounds
  <2>3. QED
    BY <1>2, <1>3, <2>2 DEF CopyTypeOK, CallsKnow, GlobalTypeOK, KnowingAdder, AdderType
<1>6. ASSUME NEW r \in Regions, SetPrimary(r)
      PROVE  primaryRegion' \in Regions
  BY <1>1, <1>6 DEF SetPrimary
<1>7. ASSUME NEW r \in Regions,
             HealthCheckTick(r) \/ Pinged(r) \/ HandleFailover(r) \/ \E q \in Regions : Probed(r, q)
      PROVE  Rest'
  <2>1. UNCHANGED <<up, openRegions, closing, bounds>>
    BY <1>7 DEF HealthCheckTick, Pinged, HandleFailover, Probed
  <2>2. checks' \in [Regions -> CheckType]
    <3>1. checks[r] \in CheckType
      BY <1>1
    <3>2. IdleCheck \in CheckType /\ [IdleCheck EXCEPT !.pc = "probe", !.todo = Regions,
                                                          !.steady = up \intersect openRegions] \in CheckType
      BY <1>1 DEF IdleCheck
    <3>3. [checks[r] EXCEPT !.pc = "ping"] \in CheckType
      BY <3>1
    <3>4. \A q \in Regions : \A healthy \in {checks[r].healthy, checks[r].healthy \union {q}} :
             [checks[r] EXCEPT !.todo = checks[r].todo \ {q}, !.healthy = healthy] \in CheckType
      BY <3>1
    <3>5. ASSUME NEW q \in Regions, Probed(r, q) PROVE checks' \in [Regions -> CheckType]
      <4> DEFINE healthy == IF Reachable(q) THEN checks[r].healthy \union {q} ELSE checks[r].healthy
      <4>1. healthy \in {checks[r].healthy, checks[r].healthy \union {q}}
        OBVIOUS
      <4>2. checks' = [checks EXCEPT ![r].todo = checks[r].todo \ {q}, ![r].healthy = healthy]
        BY <3>5 DEF Probed
      <4> HIDE DEF healthy
      <4>3. checks' = [checks EXCEPT ![r] = [checks[r] EXCEPT !.todo = checks[r].todo \ {q}, !.healthy = healthy]]
        BY <1>1, <3>1, <4>2
      <4>4. [checks[r] EXCEPT !.todo = checks[r].todo \ {q}, !.healthy = healthy] \in CheckType
        BY <3>4, <4>1
      <4> HIDE DEF CheckType
      <4>5. QED
        BY <1>1, <4>3, <4>4
    <3>6. CASE HealthCheckTick(r)
      BY <1>1, <3>3, <3>6 DEF HealthCheckTick
    <3>7. ASSUME Pinged(r) \/ HandleFailover(r) PROVE checks' \in [Regions -> CheckType]
      <4>1. \E y \in CheckType : checks' = [checks EXCEPT ![r] = y]
        BY <3>2, <3>7 DEF Pinged, HandleFailover
      <4> HIDE DEF CheckType
      <4>2. QED
        BY <1>1, <4>1
    <3>8. QED
      BY <1>7, <3>5, <3>6, <3>7
  <2>3. primaryRegion' \in Regions
    <3>1. CASE HandleFailover(r)
      <4>1. Candidates(r) \subseteq Regions
        BY <1>1 DEF Candidates
      <4>2. CASE Candidates(r) = {}
        BY <1>1, <3>1, <4>2 DEF HandleFailover, globalHistory
      <4>3. CASE Candidates(r) # {}
        BY <1>6, <3>1, <4>1, <4>3, Chosen DEF HandleFailover
      <4>4. QED
        BY <4>2, <4>3
    <3>2. QED
      BY <1>1, <1>7, <3>1 DEF HealthCheckTick, Pinged, Probed, globalHistory
  <2>4. QED
    BY <1>4, <2>1, <2>2, <2>3 DEF bounds
<1>8. ASSUME CloseStep PROVE Rest'
  <2>1. UNCHANGED <<up, primaryRegion, bounds>>
    BY <1>8, CloseQuiet
  <2>2. openRegions' \subseteq Regions /\ closing' \in {"no", "quitting", "ended"}
    BY <1>4, <1>8 DEF CloseStep, Close, QuitRegion
  <2>3. UNCHANGED <<outages, failovers>>
    BY <2>1 DEF bounds
  <2>4. checks' \in [Regions -> CheckType]
    BY <1>4, <1>8, LapseKeeps DEF CloseStep, Close, QuitRegion
  <2>5. QED
    BY <1>4, <2>1, <2>2, <2>3, <2>4
<1>9. ASSUME Outside PROVE Rest'
  <2>1. ASSUME NEW r \in Regions, FailoverTo(r) PROVE Rest'
    <3>1. failovers' \in 0..MaxFailovers
      BY <1>1, <2>1 DEF FailoverTo
    <3>2. primaryRegion' \in Regions
      BY <1>6, <2>1 DEF FailoverTo
    <3>3. QED
      BY <1>4, <2>1, <3>1, <3>2 DEF FailoverTo
  <2>2. ASSUME NEW r \in Regions, Down(r) \/ Recover(r) PROVE Rest'
    <3>1. outages' \in 0..MaxOutages /\ failovers' = failovers
      BY <1>1, <2>2 DEF Down, Recover, bounds
    <3>2. up' \subseteq Regions
      BY <1>1, <2>2 DEF Down, Recover
    <3>3. checks' \in [Regions -> CheckType]
      BY <1>4, <2>2, LapseKeeps DEF Down, Recover
    <3>4. QED
      BY <1>4, <2>2, <3>1, <3>2, <3>3 DEF Down, Recover
  <2> HIDE DEF Rest
  <2>3. QED
    BY <1>9, <2>1, <2>2 DEF Outside
<1>10. Rest' => CallsKnow'
  BY <1>2, <1>3 DEF CopyTypeOK, CallsKnow, GlobalTypeOK, KnowingAdder, AdderType
<1>11. QED
  BY <1>5, <1>7, <1>8, <1>9, <1>10 DEF GlobalNext, HealthStep, Check

\* The values the variables of the regions take (global-queue.manager.ts:36-498).
THEOREM GlobalTypeCorrect == ASSUME GlobalAssumption PROVE GlobalSpec => []GlobalTypeOK
<1>1. CallsKnow /\ [GlobalNext]_globalVars => CallsKnow'
  BY CallsKnowStep
<1>2. CallsKnow => GlobalTypeOK
  BY DEF CallsKnow
<1>3. QED
  BY <1>1, <1>2, CallsKnowInit, PTL DEF GlobalSpec

LEMMA ProbeStep ==
    ASSUME GlobalAssumption, CallsKnow, ProbeInv, [GlobalNext]_globalVars
    PROVE  ProbeInv'
<1>1. /\ checks \in [Regions -> CheckType] /\ up \subseteq Regions /\ openRegions \subseteq Regions
  BY DEF CallsKnow, GlobalTypeOK, CheckType
<1> SUFFICES ASSUME NEW r \in Regions, checks'[r].pc = "probe"
             PROVE  /\ \A q \in checks'[r].steady : Reachable(q)'
                    /\ checks'[r].steady \ checks'[r].todo \subseteq checks'[r].healthy
  BY DEF ProbeInv
<1> DEFINE Told == /\ \A q \in checks[r].steady : Reachable(q)
                   /\ checks[r].steady \ checks[r].todo \subseteq checks[r].healthy
<1>2. checks[r].pc = "probe" => Told
  BY DEF ProbeInv
<1>3. CASE JobStep \/ UNCHANGED globalVars
  <2>1. UNCHANGED <<up, openRegions, checks>>
    BY <1>3, CallQuiet DEF JobStep, globalVars
  <2>2. QED
    BY <1>2, <2>1 DEF Reachable
<1>4. ASSUME NEW q \in Regions, Lapse(q), up' \ {q} = up \ {q}, openRegions' \ {q} = openRegions \ {q}
      PROVE  Told'
  <2>1. /\ checks[r].pc = "probe" /\ checks'[r].todo = checks[r].todo
        /\ checks'[r].healthy = checks[r].healthy /\ checks'[r].steady = checks[r].steady \ {q}
    BY <1>1, <1>4, LapseKeeps
  <2>2. QED
    BY <1>2, <1>4, <2>1 DEF Reachable
<1>5. CASE CloseStep
  <2>1. ASSUME NEW q \in Regions, QuitRegion(q) PROVE Told'
    <3>1. CASE openRegions' = openRegions \ {q} /\ Lapse(q)
      BY <1>4, <2>1, <3>1 DEF QuitRegion
    <3>2. CASE UNCHANGED <<openRegions, checks>>
      BY <1>2, <2>1, <3>2 DEF QuitRegion, Reachable
    <3>3. QED
      BY <2>1, <3>1, <3>2 DEF QuitRegion
  <2>2. CASE Close
    BY <1>2, <2>2 DEF Close, Reachable
  <2>3. QED
    BY <1>5, <2>1, <2>2 DEF CloseStep
<1>6. ASSUME NEW q \in Regions, Down(q) PROVE Told'
  BY <1>4, <1>6 DEF Down
<1>7. ASSUME NEW q \in Regions, Recover(q) \/ FailoverTo(q) PROVE Told'
  BY <1>2, <1>7 DEF Recover, FailoverTo, Reachable
<1>8. ASSUME NEW q \in Regions, HealthCheckTick(q) PROVE Told'
  BY <1>1, <1>2, <1>8 DEF HealthCheckTick, CheckType, Reachable
<1>9. ASSUME NEW q \in Regions, Pinged(q) PROVE Told'
  BY <1>1, <1>2, <1>9 DEF Pinged, IdleCheck, Reachable
<1>10. ASSUME NEW q \in Regions, NEW p \in Regions, Probed(q, p) PROVE Told'
  <2>1. UNCHANGED <<up, openRegions>>
    BY <1>10 DEF Probed
  <2>2. CASE q = r
    <3>1. /\ checks[r].pc = "probe" /\ checks'[r].steady = checks[r].steady
          /\ checks'[r].todo = checks[r].todo \ {p}
          /\ checks'[r].healthy = IF Reachable(p) THEN checks[r].healthy \union {p} ELSE checks[r].healthy
      BY <1>1, <1>10, <2>2 DEF Probed, CheckType
    <3>2. QED
      BY <1>2, <2>1, <3>1 DEF Reachable
  <2>3. CASE q # r
    <3>1. checks'[r] = checks[r]
      BY <1>1, <1>10, <2>3 DEF Probed
    <3>2. QED
      BY <1>2, <2>1, <3>1 DEF Reachable
  <2>4. QED
    BY <2>2, <2>3
<1>11. ASSUME NEW q \in Regions, HandleFailover(q) PROVE Told'
  <2>1. checks'[r] = checks[r] /\ UNCHANGED <<up, openRegions>>
    BY <1>1, <1>11 DEF HandleFailover, IdleCheck
  <2>2. QED
    BY <1>2, <2>1 DEF Reachable
<1>12. QED
  BY <1>3, <1>5, <1>6, <1>7, <1>8, <1>9, <1>10, <1>11 DEF GlobalNext, HealthStep, Check, Outside

LEMMA FailoverToBest ==
    ASSUME GlobalAssumption, CallsKnow, ProbeInv, GlobalNext, NEW r \in Regions,
           checks[r].pc = "probe", checks'[r].pc = "idle", checks[r].steady \ {primaryRegion} # {}
    PROVE  /\ primaryRegion' # primaryRegion
           /\ \A q \in (checks[r].steady \ {primaryRegion}) \ {primaryRegion'} : Best(primaryRegion', q)
<1>1. checks \in [Regions -> CheckType]
  BY DEF CallsKnow, GlobalTypeOK, CheckType
<1>2. HandleFailover(r)
  <2>1. ~JobStep
    BY CallQuiet DEF JobStep
  <2>2. \A q \in Regions : ~Lapse(q)
    BY <1>1, LapseKeeps
  <2>3. ~Outside /\ ~CloseStep
    BY <2>2 DEF Outside, FailoverTo, Down, Recover, CloseStep, Close, QuitRegion
  <2>4. \A q \in Regions : ~HealthCheckTick(q) /\ ~Pinged(q) /\ \A p \in Regions : ~Probed(q, p)
    BY <1>1 DEF HealthCheckTick, Pinged, Probed, CheckType
  <2>5. \A q \in Regions : HandleFailover(q) => q = r
    BY <1>1 DEF HandleFailover
  <2>6. QED
    BY <2>1, <2>3, <2>4, <2>5 DEF GlobalNext, HealthStep, Check
<1>3. checks[r].steady \ {primaryRegion} \subseteq Candidates(r) /\ Candidates(r) \in SUBSET Regions
  BY <1>1, <1>2 DEF ProbeInv, HandleFailover, AllAnswered, Candidates, CheckType
<1>4. Candidates(r) # {}
  BY <1>3
<1>5. primaryRegion' = CHOOSE q \in Candidates(r) : \A c \in Candidates(r) \ {q} : Best(q, c)
  BY <1>2, <1>4 DEF HandleFailover, SetPrimary
<1>6. primaryRegion' \in Candidates(r) /\ \A c \in Candidates(r) \ {primaryRegion'} : Best(primaryRegion', c)
  BY <1>3, <1>4, <1>5, Chosen
<1>7. QED
  BY <1>3, <1>6 DEF Candidates

\* A health check that asked the regions moves the primary to the best of those that answered
\* all along, for any number of regions, health checks, outages and failovers at once
\* (global-queue.manager.ts:416-457).
THEOREM BestTakesOverAlways == ASSUME GlobalAssumption PROVE GlobalSpec => BestTakesOver
<1> DEFINE Takes(r) ==
              checks[r].pc = "probe" /\ checks'[r].pc = "idle" =>
                 LET able == checks[r].steady \ {primaryRegion}
                 IN  able # {} => /\ primaryRegion' # primaryRegion
                                  /\ \A q \in able \ {primaryRegion'} : Best(primaryRegion', q)
           Inv == CallsKnow /\ ProbeInv
<1>1. GlobalInit => Inv
  <2>1. GlobalInit => \A r \in Regions : checks[r].pc = "idle"
    BY DEF GlobalInit, IdleCheck
  <2>2. QED
    BY <2>1, CallsKnowInit DEF ProbeInv
<1>2. Inv /\ [GlobalNext]_globalVars => Inv'
  BY CallsKnowStep, ProbeStep
<1>3. Inv /\ [GlobalNext]_globalVars => [\A r \in Regions : Takes(r)]_globalVars
  BY FailoverToBest
<1>4. QED
  BY <1>1, <1>2, <1>3, PTL DEF GlobalSpec, BestTakesOver

LEMMA AdderTypes ==
    ASSUME CallsKnow, NEW a \in Adders
    PROVE  LET x == adds[a]
           IN  /\ x \in AdderType /\ x.id \in JobIds \union {NotGiven} /\ x.job \in 0..MaxCalls
               /\ x.todo \subseteq Regions /\ x.asked \subseteq Regions
               /\ x.pc = "add" => x.job # 0 /\ x.id \in CustomIds \union {NotGiven}
               /\ x.pc = "find" => x.id \in JobIds
               /\ x.pc \in {"add", "find"} => x.region \in Regions
               /\ x.pc \in {"copy", "wait"} => x.id \in JobIds /\ x.job # 0
  BY DEF CallsKnow, KnowingAdder, AdderType

\* A call of a does not touch the other calls, nor the primary.
LEMMA CallFrame ==
    ASSUME CallsKnow, NEW a \in Adders, Call(a)
    PROVE  /\ primaryRegion' = primaryRegion
           /\ \A b \in Adders \ {a} : adds'[b] = adds[b] /\ (b \in clean' => b \in clean)
           /\ lost => lost'
<1>1. adds \in [Adders -> KnowingAdder]
  BY DEF CallsKnow
<1>2. primaryRegion' = primaryRegion
  BY CallQuiet
<1>3. \A b \in Adders \ {a} : adds'[b] = adds[b]
  BY <1>1 DEF Call, AddJob, ReplicateJob, Adder, Added, Found, Waited, AddReturns, Copy, CopyFails, AddFails
<1>4. \A b \in Adders \ {a} : b \in clean' => b \in clean
  BY DEF Call, AddJob, ReplicateJob, Adder, Added, Found, Waited, AddReturns, Copy, CopyFails, AddFails,
         globalHistory
<1>5. lost => lost'
  BY DEF Call, AddJob, ReplicateJob, Adder, Added, Found, Waited, AddReturns, Copy, CopyFails, AddFails,
         globalHistory
<1>6. QED
  BY <1>2, <1>3, <1>4, <1>5

\* No step of a call takes a job away.
LEMMA JobsStay ==
    ASSUME GlobalAssumption, CallsKnow, NEW a \in Adders, Call(a), NEW q \in Regions, NEW i \in JobIds,
           jobs[q][i] # 0
    PROVE  jobs'[q][i] # 0
<1>1. ASSUME NEW r \in Regions, BullAdd(r, adds[a].id, adds[a].job), adds[a].job # 0
      PROVE  jobs'[q][i] # 0
  <2>1. /\ adds[a].id \in JobIds \union {NotGiven} /\ adds[a].job \in 0..MaxCalls /\ GlobalTypeOK
    BY AdderTypes DEF CallsKnow
  <2>2. jobs'[q][i] = IF q = r /\ i = At(r, adds[a].id) /\ (adds[a].id = NotGiven \/ jobs[r][i] = 0)
                      THEN adds[a].job ELSE jobs[q][i]
    BY <1>1, <2>1, BullAdds
  <2>3. QED
    BY <1>1, <2>2
<1>2. CASE Added(a)
  BY <1>1, <1>2, AdderTypes DEF Added
<1>3. ASSUME NEW r \in Regions, Copy(a, r) PROVE jobs'[q][i] # 0
  BY <1>1, <1>3, AdderTypes DEF Copy
<1>4. ASSUME NEW r \in Regions, NEW executed \in BOOLEAN, CopyFails(a, r, executed) PROVE jobs'[q][i] # 0
  BY <1>1, <1>4, AdderTypes DEF CopyFails
<1>5. ASSUME NEW executed \in BOOLEAN, AddFails(a, executed) PROVE jobs'[q][i] # 0
  BY <1>1, <1>5, AdderTypes DEF AddFails
<1>6. CASE UNCHANGED jobs
  BY <1>6
<1>7. CASE \/ \E id \in CustomIds \union {NotGiven} : AddJob(a, id)
           \/ \E id \in JobIds, targetRegions \in SUBSET Regions : ReplicateJob(a, id, targetRegions)
           \/ Found(a) \/ Waited(a) \/ AddReturns(a)
  BY <1>6, <1>7 DEF AddJob, ReplicateJob, Found, Waited, AddReturns, queues
<1>8. QED
  BY <1>2, <1>3, <1>4, <1>5, <1>7 DEF Call, Adder

LEMMA CleanStep ==
    ASSUME GlobalAssumption, CopyInv, NEW a \in Adders, Call(a)
    PROVE  \A b \in clean' : CleanSoFar(b)'
<1>1. /\ CallsKnow /\ clean \subseteq Adders /\ primaryRegion \in Regions /\ adds \in [Adders -> KnowingAdder]
      /\ \A b \in clean : CleanSoFar(b)
  BY DEF CopyInv, CallsKnow, GlobalTypeOK
<1>2. /\ primaryRegion' = primaryRegion /\ clean' \subseteq Adders
      /\ \A b \in Adders \ {a} : adds'[b] = adds[b] /\ (b \in clean' => b \in clean)
      /\ \A q \in Regions, i \in JobIds : jobs[q][i] # 0 => jobs'[q][i] # 0
  BY <1>1, CallFrame, JobsStay, CallTypes DEF CopyTypeOK
<1>3. ASSUME NEW b \in Adders \ {a}, b \in clean' PROVE CleanSoFar(b)'
  <2>1. CleanSoFar(b) /\ adds'[b] = adds[b]
    BY <1>1, <1>2, <1>3
  <2>2. /\ adds[b].pc = "find" \/ Copying(b) => adds[b].id \in JobIds
        /\ adds[b].asked \subseteq Regions
    BY <1>1, AdderTypes DEF Copying
  <2>3. QED
    BY <1>1, <1>2, <2>1, <2>2 DEF CleanSoFar, Copying
<1>4. ASSUME a \in clean' PROVE CleanSoFar(a)'
  <2> DEFINE x == adds[a]
  <2>1. ASSUME NEW id \in CustomIds \union {NotGiven}, AddJob(a, id) PROVE CleanSoFar(a)'
    <3>1. adds'[a].pc = "add" /\ adds'[a].region = primaryRegion
      BY <1>1, <2>1 DEF AddJob, IdleAdd
    <3>2. QED
      BY <1>2, <3>1 DEF CleanSoFar, Copying
  <2>2. ASSUME NEW id \in JobIds, NEW targetRegions \in SUBSET Regions, ReplicateJob(a, id, targetRegions)
        PROVE  CleanSoFar(a)'
    <3>1. /\ adds'[a].pc = "find" /\ adds'[a].region = primaryRegion /\ adds'[a].id = id
          /\ jobs[primaryRegion][id] # 0 /\ UNCHANGED jobs
      BY <1>1, <2>2 DEF ReplicateJob, IdleAdd
    <3>2. QED
      BY <1>2, <3>1 DEF CleanSoFar, Copying
  <2>3. ~\E r \in Regions, executed \in BOOLEAN : CopyFails(a, r, executed)
    BY <1>4 DEF CopyFails
  <2>4. ~\E executed \in BOOLEAN : AddFails(a, executed)
    BY <1>4 DEF AddFails
  <2>5. CASE Added(a)
    <3>1. CleanSoFar(a) /\ x.pc = "add" /\ BullAdd(x.region, x.id, x.job)
      BY <1>1, <1>4, <2>5 DEF Added, globalHistory
    <3>2. x.region = primaryRegion /\ x.job # 0 /\ x.id \in JobIds \union {NotGiven} /\ x.job \in 0..MaxCalls
      BY <1>1, <3>1, AdderTypes DEF CleanSoFar
    <3>3. adds'[a].pc = "find" /\ adds'[a].id = At(x.region, x.id) /\ adds'[a].region = primaryRegion
      BY <1>1, <2>5, AdderTypes DEF Added, At, AdderType
    <3>4. /\ At(primaryRegion, x.id) \in JobIds
          /\ jobs'[primaryRegion][At(primaryRegion, x.id)] # 0
      <4>1. GlobalTypeOK
        BY <1>1 DEF CallsKnow
      <4>2. QED
        BY <1>1, <3>1, <3>2, <4>1, BullAdds DEF At
    <3>5. QED
      BY <1>2, <3>2, <3>3, <3>4 DEF CleanSoFar, Copying
  <2>6. CASE Found(a)
    <3>1. CleanSoFar(a) /\ x.pc = "find" /\ UNCHANGED jobs
      BY <1>1, <1>4, <2>6 DEF Found, globalHistory, queues
    <3>2. x.region = primaryRegion /\ jobs[primaryRegion][x.id] # 0
      BY <3>1 DEF CleanSoFar
    <3>3. /\ adds'[a].pc = "copy" /\ adds'[a].todo = adds'[a].asked \ {primaryRegion}
          /\ adds'[a].id = x.id /\ adds'[a].region = x.region
      BY <1>1, <2>6, <3>2, AdderTypes DEF Found, Targets, AdderType
    <3>4. QED
      BY <1>2, <3>1, <3>2, <3>3 DEF CleanSoFar, Copying
  <2>7. ASSUME NEW r \in Regions, Copy(a, r) PROVE CleanSoFar(a)'
    <3>1. CleanSoFar(a) /\ x.pc = "copy" /\ BullAdd(r, x.id, x.job)
      BY <1>1, <1>4, <2>7 DEF Copy, globalHistory
    <3>2. /\ adds'[a].pc \in {"copy", "wait"} /\ adds'[a].todo = x.todo \ {r}
          /\ adds'[a].id = x.id /\ adds'[a].region = x.region /\ adds'[a].asked = x.asked
          /\ x.asked \subseteq Regions
      BY <1>1, <2>7, AdderTypes DEF Copy, AdderType
    <3>3. x.id \in JobIds /\ x.job # 0 /\ x.job \in 0..MaxCalls
      BY <1>1, <3>1, AdderTypes
    <3>4. GlobalTypeOK /\ x.id # NotGiven
      BY <1>1, <3>3 DEF CallsKnow, GlobalAssumption, JobIds
    <3>5. jobs'[r][x.id] # 0
      BY <3>1, <3>3, <3>4, BullAdds DEF At
    <3>6. \A q \in adds'[a].asked \ adds'[a].todo : jobs'[q][x.id] # 0
      BY <1>2, <3>1, <3>2, <3>3, <3>5 DEF CleanSoFar, Copying
    <3>7. QED
      BY <1>2, <3>1, <3>2, <3>6 DEF CleanSoFar, Copying
  <2>8. CASE Waited(a)
    <3>1. CleanSoFar(a) /\ x.pc = "wait" /\ UNCHANGED jobs
      BY <1>1, <1>4, <2>8 DEF Waited, globalHistory, queues
    <3>2. /\ adds'[a].pc = "copy" /\ adds'[a].todo = x.todo
          /\ adds'[a].id = x.id /\ adds'[a].region = x.region /\ adds'[a].asked = x.asked
          /\ x.asked \subseteq Regions /\ x.id \in JobIds
      BY <1>1, <2>8, AdderTypes DEF Waited, AdderType
    <3>3. QED
      BY <1>2, <3>1, <3>2 DEF CleanSoFar, Copying
  <2>9. CASE AddReturns(a)
    BY <1>1, <2>9 DEF AddReturns, IdleAdd, CleanSoFar, Copying
  <2>10. QED
    BY <2>1, <2>2, <2>3, <2>4, <2>5, <2>6, <2>7, <2>8, <2>9 DEF Call, Adder
<1>5. QED
  BY <1>2, <1>3, <1>4

LEMMA AgreedCall ==
    ASSUME GlobalAssumption, CallsKnow, Agreed, NEW a \in Adders, Call(a),
           \A q \in Regions, i \in JobIds : jobs[q][i] # 0 => jobs'[q][i] = jobs[q][i],
           FreshIds', SameJobs', CallAgrees(a)'
    PROVE  Agreed'
<1>1. ASSUME NEW b \in Adders \ {a} PROVE CallAgrees(b)'
  <2>1. adds'[b] = adds[b] /\ primaryRegion' = primaryRegion /\ primaryRegion \in Regions
    BY CallFrame DEF CallsKnow, GlobalTypeOK
  <2>2. CallAgrees(b)
    BY DEF Agreed
  <2>3. /\ adds[b].pc = "find" \/ Copying(b) => adds[b].id \in JobIds
        /\ Copying(b) => adds[b].job # 0
        /\ adds[b].asked \subseteq Regions
    BY AdderTypes DEF Copying
  <2>4. QED
    BY <2>1, <2>2, <2>3 DEF CallAgrees, Copying
<1>2. QED
  BY <1>1 DEF Agreed

\* A call that adds nothing.
LEMMA AgreedQuiet ==
    ASSUME GlobalAssumption, CallsKnow, Agreed, NEW a \in Adders, Call(a), UNCHANGED <<jobs, counter>>,
           \A r \in Regions \ {primaryRegion}, id \in JobIds : Bringing(a, r, id) => Bringing(a, r, id)',
           CallAgrees(a)'
    PROVE  Agreed'
<1>1. primaryRegion' = primaryRegion /\ \A b \in Adders \ {a} : adds'[b] = adds[b]
  BY CallFrame
<1>2. FreshIds'
  BY <1>1 DEF Agreed, FreshIds
<1>3. SameJobs'
  <2>1. \A b \in Adders \ {a}, r \in Regions, id \in JobIds : Bringing(b, r, id) => Bringing(b, r, id)'
    BY <1>1 DEF Bringing, Copying
  <2>2. QED
    BY <1>1, <2>1 DEF Agreed, SameJobs
<1>4. QED
  BY <1>2, <1>3, AgreedCall

LEMMA AgreedStep ==
    ASSUME GlobalAssumption, CopyInv, NEW a \in Adders, Call(a), ~lost'
    PROVE  Agreed'
<1> DEFINE x == adds[a]
           p == primaryRegion
<1>1. /\ CallsKnow /\ GlobalTypeOK /\ p \in Regions /\ p' = p /\ adds \in [Adders -> KnowingAdder]
      /\ NotGiven \notin JobIds /\ CustomIds \cap Nat = {}
  <2>1. CallsKnow
    BY DEF CopyInv
  <2>2. GlobalTypeOK /\ p \in Regions /\ adds \in [Adders -> KnowingAdder]
    BY <2>1 DEF CallsKnow, GlobalTypeOK
  <2>3. p' = p
    BY <2>1, CallFrame
  <2>4. NotGiven \notin JobIds /\ CustomIds \cap Nat = {}
    BY DEF GlobalAssumption, JobIds
  <2>5. QED
    BY <2>1, <2>2, <2>3, <2>4
<1>2. Agreed /\ CallAgrees(a) /\ \A b \in Adders \ {a} : adds'[b] = adds[b]
  BY <1>1, CallFrame DEF CopyInv, Agreed
<1>3. ASSUME NEW id \in CustomIds \union {NotGiven}, AddJob(a, id) PROVE Agreed'
  <2>1. /\ adds'[a].pc = "add" /\ adds'[a].region = p /\ UNCHANGED <<jobs, counter>> /\ x.pc = "idle"
        /\ adds'[a].asked = Regions
    BY <1>1, <1>3 DEF AddJob, IdleAdd
  <2>2. CallAgrees(a)'
    BY <1>1, <2>1 DEF CallAgrees, Copying
  <2>3. QED
    BY <1>1, <1>2, <2>1, <2>2, AgreedQuiet DEF Bringing, Copying
<1>4. ASSUME NEW id \in JobIds, NEW targetRegions \in SUBSET Regions, ReplicateJob(a, id, targetRegions)
      PROVE  Agreed'
  <2>1. /\ adds'[a].pc = "find" /\ adds'[a].region = p /\ adds'[a].id = id /\ UNCHANGED <<jobs, counter>>
        /\ x.pc = "idle" /\ jobs[p][id] # 0
    BY <1>1, <1>4 DEF ReplicateJob, IdleAdd
  <2>2. CallAgrees(a)'
    BY <1>1, <2>1 DEF CallAgrees, Copying
  <2>3. QED
    BY <1>1, <1>2, <2>1, <2>2, AgreedQuiet DEF Bringing, Copying
<1>5. CASE Added(a)
  <2> DEFINE at == At(p, x.id)
  <2>1. x.pc = "add" /\ x.region = p /\ BullAdd(p, x.id, x.job)
    BY <1>2, <1>5 DEF Added, CallAgrees
  <2>2. x.job # 0 /\ x.job \in 0..MaxCalls /\ x.id \in JobIds \union {NotGiven} /\ x.id \in CustomIds \union {NotGiven}
    BY <1>1, <2>1, AdderTypes
  <2>3. /\ adds'[a].pc = "find" /\ adds'[a].id = at /\ adds'[a].region = p
        /\ adds'[a].asked = Regions
    BY <1>1, <1>2, <1>5, <2>1, AdderTypes DEF Added, At, AdderType, CallAgrees
  <2>4. /\ at \in JobIds /\ (x.id = NotGiven => counter[p] + 1 \in 1..MaxIds) /\ counter'[p] = counter[p] + 1
        /\ counter[p] \in Nat
        /\ \A q \in Regions, i \in JobIds :
              jobs'[q][i] = IF q = p /\ i = at /\ (x.id = NotGiven \/ jobs[p][i] = 0) THEN x.job ELSE jobs[q][i]
    <3>1. counter[p] \in Nat
      BY <1>1 DEF GlobalTypeOK
    <3>2. QED
      BY <1>1, <2>1, <2>2, <3>1, BullAdds
  <2>5. x.id = NotGiven => at = counter[p] + 1 /\ \A r \in Regions : jobs[r][at] = 0
    <3>1. x.id = NotGiven => at = counter[p] + 1 /\ at \in 1..MaxIds /\ at > counter[p]
      BY <2>4 DEF At
    <3>2. QED
      BY <1>2, <3>1 DEF Agreed, FreshIds
  <2>6. x.id # NotGiven => at = x.id /\ at \notin Nat
    BY <1>1, <2>2 DEF At
  <2> HIDE DEF at
  <2>7. \A b \in Adders, r \in Regions, id \in JobIds : Bringing(b, r, id) => Bringing(b, r, id)'
    BY <1>2, <2>1 DEF Bringing, Copying
  <2>8. jobs[p][at] = 0 => \A r \in Regions \ {p} : jobs[r][at] = 0
    BY <1>1, <1>2, <2>4 DEF Agreed, SameJobs
  <2>9. \A q \in Regions, i \in JobIds : jobs[q][i] # 0 => jobs'[q][i] = jobs[q][i]
    BY <2>4, <2>5, <1>1
  <2>10. FreshIds'
    <3>1. SUFFICES ASSUME NEW id \in 1..MaxIds, id > counter'[p], NEW r \in Regions PROVE jobs'[r][id] = 0
      BY <1>1 DEF FreshIds
    <3>2. id > counter[p] /\ id \in Nat /\ id # counter[p] + 1 /\ id \in JobIds
      BY <2>4, <3>1 DEF JobIds
    <3>3. id # at
      BY <2>5, <2>6, <3>2
    <3>4. jobs[r][id] = 0
      BY <1>2, <3>2 DEF Agreed, FreshIds
    <3>5. QED
      BY <2>4, <3>2, <3>3, <3>4
  <2>11. SameJobs'
    <3>1. SUFFICES ASSUME NEW r \in Regions, NEW id \in JobIds, jobs'[r][id] # jobs'[p][id]
                   PROVE  jobs'[r][id] = 0 /\ \E b \in Adders : Bringing(b, r, id)'
      BY <1>1 DEF SameJobs
    <3>2. r # p
      BY <3>1
    <3>3. CASE id = at
      <4>1. Bringing(a, r, id)'
        BY <2>3, <3>3 DEF Bringing
      <4>2. CASE jobs[p][at] = 0
        BY <2>4, <2>8, <3>2, <3>3, <4>1, <4>2
      <4>3. CASE jobs[p][at] # 0
        <5>1. jobs[r][id] # jobs[p][id]
          BY <1>1, <2>4, <2>9, <3>1, <3>2, <3>3, <4>3
        <5>2. jobs[r][id] = 0
          BY <1>2, <5>1 DEF Agreed, SameJobs
        <5>3. QED
          BY <2>4, <3>2, <4>1, <5>2
      <4>4. QED
        BY <4>2, <4>3
    <3>4. CASE id # at
      <4>1. jobs'[r][id] = jobs[r][id] /\ jobs'[p][id] = jobs[p][id]
        BY <1>1, <2>4, <3>4
      <4>2. QED
        BY <1>2, <2>7, <3>1, <4>1 DEF Agreed, SameJobs
    <3>5. QED
      BY <3>3, <3>4
  <2>12. CallAgrees(a)'
    <3>1. jobs'[p][at] # 0
      BY <1>1, <2>2, <2>4
    <3>2. QED
      BY <1>1, <2>3, <3>1 DEF CallAgrees, Copying
  <2>13. QED
    BY <1>1, <1>2, <2>9, <2>10, <2>11, <2>12, AgreedCall
<1>6. CASE Found(a)
  <2>1. x.pc = "find" /\ x.region = p /\ jobs[p][x.id] # 0 /\ UNCHANGED <<jobs, counter>>
    BY <1>2, <1>6 DEF Found, CallAgrees, queues
  <2>2. /\ adds'[a].pc = "copy" /\ adds'[a].todo = x.asked \ {p} /\ adds'[a].job = jobs[p][x.id]
        /\ adds'[a].id = x.id /\ adds'[a].region = p /\ adds'[a].asked = x.asked
    BY <1>1, <1>6, <2>1, AdderTypes DEF Found, Targets, AdderType
  <2>3. CallAgrees(a)'
    BY <1>1, <2>1, <2>2 DEF CallAgrees, Copying
  <2>4. QED
    BY <1>1, <1>2, <2>1, <2>2, <2>3, AgreedQuiet DEF Bringing, Copying
<1>7. ASSUME NEW r \in Regions, Copy(a, r) PROVE Agreed'
  <2>1. x.pc = "copy" /\ r \in x.todo /\ BullAdd(r, x.id, x.job)
    BY <1>7 DEF Copy
  <2>2. x.id \in JobIds /\ x.id # NotGiven /\ x.job # 0 /\ x.job \in 0..MaxCalls
    BY <1>1, <2>1, AdderTypes
  <2>3. /\ adds'[a].pc \in {"copy", "wait"} /\ adds'[a].todo = x.todo \ {r}
        /\ adds'[a].id = x.id /\ adds'[a].region = x.region /\ adds'[a].job = x.job
        /\ adds'[a].asked = x.asked /\ x.asked \subseteq Regions
    BY <1>1, <1>7, AdderTypes DEF Copy, AdderType
  <2>4. \A q \in Regions, i \in JobIds :
           jobs'[q][i] = IF q = r /\ i = x.id /\ jobs[r][i] = 0 THEN x.job ELSE jobs[q][i]
    BY <1>1, <2>1, <2>2, BullAdds DEF At
  <2>5. counter[p] \in Nat /\ counter'[p] \in Nat /\ counter'[p] >= counter[p]
    <3>1. counter[p] \in Nat
      BY <1>1 DEF GlobalTypeOK
    <3>2. counter'[p] = counter[p] \/ counter'[p] = counter[p] + 1
      BY <1>1, <2>1, <2>2, BullAdds
    <3>3. QED
      BY <3>1, <3>2
  <2>6. /\ x.region = p /\ jobs[p][x.id] = x.job
        /\ \A q \in x.asked \ x.todo : jobs[q][x.id] = x.job
    BY <1>2, <2>1 DEF CallAgrees, Copying
  <2>7. \A q \in Regions, i \in JobIds : jobs[q][i] # 0 => jobs'[q][i] = jobs[q][i]
    BY <2>4
  <2>8. FreshIds'
    <3>1. SUFFICES ASSUME NEW id \in 1..MaxIds, id > counter'[p], NEW q \in Regions PROVE jobs'[q][id] = 0
      BY <1>1 DEF FreshIds
    <3>2. id > counter[p] /\ id \in JobIds
      BY <2>5, <3>1 DEF JobIds
    <3>3. jobs[q][id] = 0 /\ jobs[p][id] = 0
      BY <1>1, <1>2, <3>2 DEF Agreed, FreshIds
    <3>4. id # x.id
      BY <2>2, <2>6, <3>3
    <3>5. QED
      BY <2>4, <3>2, <3>3, <3>4
  <2>9. jobs'[p][x.id] = x.job /\ jobs'[r][x.id] = x.job
    <3>1. jobs[r][x.id] = 0 \/ jobs[r][x.id] = jobs[p][x.id]
      BY <1>2, <2>2 DEF Agreed, SameJobs
    <3>2. QED
      BY <1>1, <2>2, <2>4, <2>6, <3>1
  <2>10. SameJobs'
    <3>1. SUFFICES ASSUME NEW q \in Regions, NEW id \in JobIds, jobs'[q][id] # jobs'[p][id]
                   PROVE  jobs'[q][id] = 0 /\ \E b \in Adders : Bringing(b, q, id)'
      BY <1>1 DEF SameJobs
    <3>2. ~(q = r /\ id = x.id)
      BY <2>9, <3>1
    <3>3. jobs'[q][id] = jobs[q][id]
      BY <2>4, <3>2
    <3>4. jobs'[p][id] = jobs[p][id]
      <4>1. CASE id = x.id
        BY <2>6, <2>9, <4>1
      <4>2. CASE id # x.id
        BY <1>1, <2>4, <4>2
      <4>3. QED
        BY <4>1, <4>2
    <3>5. jobs[q][id] = 0 /\ \E b \in Adders : Bringing(b, q, id)
      BY <1>2, <3>1, <3>3, <3>4 DEF Agreed, SameJobs
    <3>6. PICK b \in Adders : Bringing(b, q, id)
      BY <3>5
    <3>7. Bringing(b, q, id)'
      <4>1. CASE b = a
        BY <2>1, <2>3, <3>2, <3>6, <4>1 DEF Bringing, Copying
      <4>2. CASE b # a
        BY <1>2, <3>6, <4>2 DEF Bringing, Copying
      <4>3. QED
        BY <4>1, <4>2
    <3>8. QED
      BY <3>3, <3>5, <3>7
  <2>11. CallAgrees(a)'
    <3>1. \A q \in adds'[a].asked \ adds'[a].todo : jobs'[q][x.id] = x.job
      BY <2>2, <2>3, <2>4, <2>6, <2>9
    <3>2. QED
      BY <1>1, <2>3, <2>6, <2>9, <3>1 DEF CallAgrees, Copying
  <2>12. QED
    BY <1>1, <1>2, <2>7, <2>8, <2>10, <2>11, AgreedCall
<1>8. CASE Waited(a)
  <2>1. x.pc = "wait" /\ UNCHANGED <<jobs, counter>>
    BY <1>8 DEF Waited, queues
  <2>2. /\ adds'[a].pc = "copy" /\ adds'[a].todo = x.todo /\ adds'[a].job = x.job
        /\ adds'[a].id = x.id /\ adds'[a].region = x.region /\ adds'[a].asked = x.asked
    BY <1>1, <1>8, AdderTypes DEF Waited, AdderType
  <2>3. CallAgrees(a)'
    BY <1>1, <1>2, <2>1, <2>2 DEF CallAgrees, Copying
  <2>4. QED
    BY <1>1, <1>2, <2>1, <2>2, <2>3, AgreedQuiet DEF Bringing, Copying
<1>9. CASE AddReturns(a)
  <2>1. /\ x.pc = "copy" /\ x.todo = {} /\ UNCHANGED <<jobs, counter>>
        /\ adds'[a].pc = "idle"
    BY <1>1, <1>9 DEF AddReturns, queues, IdleAdd
  <2>2. CallAgrees(a)'
    BY <2>1 DEF CallAgrees, Copying
  <2>3. QED
    BY <1>1, <1>2, <2>1, <2>2, AgreedQuiet DEF Bringing, Copying
<1>10. /\ ~\E r \in Regions, executed \in BOOLEAN : CopyFails(a, r, executed)
       /\ ~\E executed \in BOOLEAN : AddFails(a, executed)
  BY DEF CopyFails, AddFails
<1>11. QED
  BY <1>3, <1>4, <1>5, <1>6, <1>7, <1>8, <1>9, <1>10 DEF Call, Adder

\* A failover with no call under way, to a region that counted as far as any other.
LEMMA AgreedMove ==
    ASSUME GlobalAssumption, CopyInv, NEW r \in Regions, SetPrimary(r), UNCHANGED <<queues, adds>>, ~lost'
    PROVE  Agreed'
<1>1. /\ CallsKnow /\ Agreed /\ (\A a \in Adders : adds[a].pc = "idle")
      /\ \A q \in Regions : ~(counter[r] < counter[q])
  BY DEF CopyInv, SetPrimary
<1>2. primaryRegion \in Regions /\ counter[r] \in Nat /\ counter[primaryRegion] \in Nat /\ primaryRegion' = r
  BY <1>1 DEF CallsKnow, GlobalTypeOK, SetPrimary
<1>3. UNCHANGED <<jobs, counter, adds>>
  BY DEF queues
<1>4. \A q \in Regions, id \in JobIds : jobs[q][id] = jobs[primaryRegion][id]
  BY <1>1 DEF Agreed, SameJobs, Bringing, Copying
<1>5. FreshIds'
  <2>1. SUFFICES ASSUME NEW id \in 1..MaxIds, id > counter[r] PROVE \A q \in Regions : jobs[q][id] = 0
    BY <1>2, <1>3 DEF FreshIds
  <2>2. id > counter[primaryRegion]
    <3>1. MaxIds \in Nat /\ id \in Nat
      BY DEF GlobalAssumption
    <3>2. QED
      BY <1>1, <1>2, <2>1, <3>1
  <2>3. QED
    BY <1>1, <2>2 DEF Agreed, FreshIds
<1>6. SameJobs'
  BY <1>2, <1>3, <1>4 DEF SameJobs
<1>7. \A a \in Adders : CallAgrees(a)'
  BY <1>1, <1>3 DEF CallAgrees, Copying
<1>8. QED
  BY <1>5, <1>6, <1>7 DEF Agreed

LEMMA CopyInvStep == ASSUME GlobalAssumption, CopyInv, [GlobalNext]_globalVars PROVE CopyInv'
<1>1. CallsKnow /\ CallsKnow' /\ GlobalTypeOK
  BY CallsKnowStep DEF CopyInv, CallsKnow
<1>2. ASSUME NEW a \in Adders, Call(a) PROVE CopyInv'
  BY <1>1, <1>2, CleanStep, AgreedStep DEF CopyInv
<1>3. ASSUME NEW r \in Regions, SetPrimary(r), UNCHANGED <<queues, settings, adds>> PROVE CopyInv'
  <2>1. \A a \in clean' : CleanSoFar(a)'
    BY <1>3 DEF SetPrimary, CleanSoFar, Copying
  <2>2. lost' \/ Agreed'
    BY <1>3, AgreedMove
  <2>3. QED
    BY <1>1, <2>1, <2>2 DEF CopyInv
<1>4. CASE UNCHANGED <<queues, settings, adds, primaryRegion, clean, lost>>
  <2>1. UNCHANGED <<jobs, counter, adds, primaryRegion, clean, lost>>
    BY <1>4 DEF queues
  <2>2. Agreed => Agreed'
    BY <2>1 DEF Agreed, FreshIds, SameJobs, CallAgrees, Bringing, Copying
  <2>3. (\A a \in clean : CleanSoFar(a)) => \A a \in clean' : CleanSoFar(a)'
    BY <2>1 DEF CleanSoFar, Copying
  <2>4. QED
    BY <1>1, <2>1, <2>2, <2>3 DEF CopyInv
<1>5. QED
  BY <1>1, <1>2, <1>3, <1>4, GlobalSteps

LEMMA CopyInvInit == ASSUME GlobalAssumption PROVE GlobalInit => CopyInv
<1> SUFFICES ASSUME GlobalInit PROVE CopyInv
  OBVIOUS
<1>1. CallsKnow
  BY CallsKnowInit
<1>2. /\ \A a \in Adders : adds[a].pc = "idle"
      /\ clean = Adders /\ primaryRegion \in Regions
      /\ \A r \in Regions, id \in JobIds : jobs[r][id] = 0
  BY DEF GlobalInit, InitializeRegions, IdleAdd
<1>3. \A a \in clean : CleanSoFar(a)
  BY <1>2 DEF CleanSoFar, Copying
<1>4. Agreed
  BY <1>2 DEF Agreed, FreshIds, SameJobs, CallAgrees, Copying, JobIds
<1>5. QED
  BY <1>1, <1>3, <1>4 DEF CopyInv

LEMMA ReplicatedAtLast ==
    ASSUME GlobalAssumption, CopyInv, GlobalNext, NEW a \in Adders,
           adds[a].pc # "idle", adds'[a].pc = "idle", NEW r \in adds[a].asked
    PROVE  /\ a \in clean' => ReplicationStatus(adds[a].id)[r] = "replicated"
           /\ adds[a].pc = "copy" => lost \/ jobs[r][adds[a].id] = adds[a].job
<1>1. CallsKnow /\ GlobalTypeOK /\ adds \in [Adders -> KnowingAdder] /\ r \in Regions
  <2>1. CallsKnow /\ GlobalTypeOK /\ adds \in [Adders -> KnowingAdder]
    BY DEF CopyInv, CallsKnow
  <2>2. QED
    BY <2>1, AdderTypes
<1>2. Call(a)
  <2>1. adds' # adds
    OBVIOUS
  <2>2. \E b \in Adders : Call(b)
    BY <1>1, <2>1, GlobalSteps
  <2>3. \A b \in Adders : Call(b) => b = a
    BY <1>1, CallFrame
  <2>4. QED
    BY <2>2, <2>3
<1>3. /\ \A id : ~AddJob(a, id) /\ \A targetRegions : ~ReplicateJob(a, id, targetRegions)
      /\ ~Added(a) /\ ~Waited(a)
  BY <1>1, AdderTypes DEF AddJob, ReplicateJob, Added, Waited, AdderType
<1>4. \A q : ~Copy(a, q) /\ \A executed : ~CopyFails(a, q, executed)
  BY <1>1, AdderTypes DEF Copy, CopyFails, AdderType
<1>5. CASE \E executed \in BOOLEAN : AddFails(a, executed)
  BY <1>5 DEF AddFails
<1>6. CASE Found(a)
  <2>1. adds[a].pc = "find" /\ clean' = clean
    BY <1>6 DEF Found, globalHistory
  <2>2. jobs[adds[a].region][adds[a].id] = 0
    BY <1>1, <1>6, AdderTypes DEF Found, AdderType
  <2>3. a \notin clean
    BY <2>1, <2>2 DEF CopyInv, CleanSoFar
  <2>4. QED
    BY <2>1, <2>3
<1>7. CASE AddReturns(a)
  <2>1. adds[a].pc = "copy" /\ adds[a].todo = {} /\ clean' = clean /\ Copying(a)
    BY <1>7 DEF AddReturns, globalHistory, Copying
  <2>2. a \in clean => jobs[r][adds[a].id] # 0
    BY <2>1 DEF CopyInv, CleanSoFar
  <2>3. lost \/ jobs[r][adds[a].id] = adds[a].job
    BY <2>1 DEF CopyInv, Agreed, CallAgrees
  <2>4. QED
    BY <1>1, <2>1, <2>2, <2>3 DEF ReplicationStatus
<1>8. QED
  BY <1>2, <1>3, <1>4, <1>5, <1>6, <1>7 DEF Call, Adder

\* A call that met no rejection and no failover leaves its job in every region it was asked
\* for, for any number of regions and calls at once, and under the id of no other job as long
\* as no call met one and no primary was behind (global-queue.manager.ts:96-101, 249-268).
THEOREM ReplicatedAlways == ASSUME GlobalAssumption PROVE GlobalSpec => Replicated
<1> DEFINE Brought(a) ==
              adds[a].pc # "idle" /\ adds'[a].pc = "idle" =>
                 \A r \in adds[a].asked :
                    /\ a \in clean' => ReplicationStatus(adds[a].id)[r] = "replicated"
                    /\ adds[a].pc = "copy" => lost \/ jobs[r][adds[a].id] = adds[a].job
<1>1. CopyInv /\ [GlobalNext]_globalVars => CopyInv'
  BY CopyInvStep
<1>2. CopyInv /\ [GlobalNext]_globalVars => [\A a \in Adders : Brought(a)]_globalVars
  BY ReplicatedAtLast
<1>3. QED
  BY <1>1, <1>2, CopyInvInit, PTL DEF GlobalSpec, Replicated
=============================================================================
