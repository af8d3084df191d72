---------------------------- MODULE CachedStore ----------------------------
(***************************************************************************)
(* Configurations that a manager keeps in Redis behind a Map of its own:   *)
(* the shape of the tenants of access-control.manager.ts and of the        *)
(* webhooks of webhook.manager.ts.  A write goes to Redis, and to the      *)
(* cache once Redis has answered; a read fills the cache; an update reads, *)
(* merges and writes.                                                      *)
(*                                                                         *)
(* One process has one connection: Redis runs the commands in the order    *)
(* they were sent and their replies resume the callers in that order, so a *)
(* reply and what its caller does next are one step (Answer).              *)
(***************************************************************************)
EXTENDS Naturals, Sequences

CONSTANTS
    Ids,        \* tenants, or webhooks
    Fields,     \* fields of a configuration
    Values,     \* values of a field
    None,
    MaxPending, \* bound: commands sent and not answered
    MaxFaults   \* bound: commands that reject, and writes of other processes

Config == [Fields -> Values]

\* A Partial<...Config>: the fields an update names.
Patch == UNION {[S -> Values] : S \in (SUBSET Fields) \ {{}}}

\* Of the constants; the models that give them values assume it.
CachedStoreAssumption == None \notin Config /\ None \notin Patch

VARIABLES
    store,     \* what Redis holds
    cache,     \* the manager's Map
    wire,      \* commands sent, oldest first
    faults,
    unsure,    \* ids whose value changed in Redis without this process being told
    contended, \* ids with two writes in flight at once, or unsure ever
    wanted     \* every answered write, applied one after the other

vars == <<store, cache, wire, faults, unsure, contended, wanted>>

history == <<unsure, contended, wanted>>

Init ==
    /\ store = [i \in Ids |-> None] /\ cache = [i \in Ids |-> None]
    /\ wire = <<>> /\ faults = 0
    /\ unsure = {} /\ contended = {} /\ wanted = [i \in Ids |-> None]

\* What an update asks for.
Applied(patch, config) == [f \in Fields |-> IF f \in DOMAIN patch THEN patch[f] ELSE config[f]]

\* Mutants: the existing object is not spread; the two are spread in the other order.
Mutant_PatchOnly(existing, patch) == patch

Mutant_Spread(existing, patch) == existing

\* { ...existing, ...config }
Merge(existing, patch) == Applied(patch, existing)

\* A command for an id: its op, what SET writes, and the update it belongs to.
Command(op, i, config, patch) == [op |-> op, id |-> i, config |-> config, patch |-> patch]

Writes(c) == c.op \in {"set", "del"} \/ c.patch # None

Send(c) ==
    /\ Len(wire) < MaxPending
    /\ wire' = Append(wire, c)
    /\ contended' = IF Writes(c) /\ \E n \in DOMAIN wire : wire[n].id = c.id /\ Writes(wire[n])
                    THEN contended \union {c.id} ELSE contended
    /\ UNCHANGED <<store, faults, unsure, wanted>>

\* A mutant that caches before Redis has answered.
Mutant_PutEarly(i, config) ==
    Send(Command("set", i, config, None)) /\ cache' = [cache EXCEPT ![i] = config]

Put(i, config) == Send(Command("set", i, config, None)) /\ UNCHANGED cache

Delete(i) == Send(Command("del", i, None, None)) /\ UNCHANGED cache

\* A cached value answers at once.
Get(i) == cache[i] = None /\ Send(Command("get", i, None, None)) /\ UNCHANGED cache

Update(i, patch) ==
    /\ Send(IF cache[i] = None THEN Command("get", i, None, patch)
            ELSE Command("set", i, Merge(cache[i], patch), patch))
    /\ UNCHANGED cache

\* What a command leaves in Redis.
Stored(c) == IF c.op = "get" THEN store[c.id] ELSE c.config

\* The oldest command is answered: the value it wrote or read is cached, and an
\* update that read one writes it back merged.  What is not found throws.
Answer ==
    LET c == Head(wire)
        found == Stored(c)
    IN  /\ wire # <<>>
        /\ store' = [store EXCEPT ![c.id] = found]
        /\ cache' = [cache EXCEPT ![c.id] = IF c.op = "get" /\ found = None THEN @ ELSE found]
        /\ wire' = IF c.op = "get" /\ c.patch # None /\ found # None
                   THEN Append(Tail(wire), Command("set", c.id, Merge(found, c.patch), c.patch))
                   ELSE Tail(wire)
        /\ wanted' = IF c.op = "get" THEN wanted
                     ELSE [wanted EXCEPT ![c.id] =
                             IF c.patch = None \/ @ = None THEN c.config ELSE Applied(c.patch, @)]
        /\ unsure' = IF c.op = "get" THEN unsure ELSE unsure \ {c.id}
        /\ UNCHANGED <<faults, contended>>

Fault(i) ==
    /\ faults < MaxFaults /\ faults' = faults + 1
    /\ unsure' = unsure \union {i} /\ contended' = contended \union {i}

\* The oldest command rejects; its reply, or the command itself, was lost.
Reject(executed) ==
    LET c == Head(wire)
    IN  /\ wire # <<>> /\ Fault(c.id)
        /\ store' = IF executed THEN [store EXCEPT ![c.id] = Stored(c)] ELSE store
        /\ wire' = Tail(wire)
        /\ UNCHANGED <<cache, wanted>>

\* Another process writes, or the key expires.
Foreign(i, v) ==
    /\ Fault(i)
    /\ store' = [store EXCEPT ![i] = v]
    /\ UNCHANGED <<cache, wire, wanted>>

Next ==
    \/ \E i \in Ids :
          \/ \E config \in Config : Put(i, config)
          \/ \E patch \in Patch : Update(i, patch)
          \/ \E v \in Config \union {None} : Foreign(i, v)
          \/ Get(i) \/ Delete(i)
    \/ Answer
    \/ \E executed \in BOOLEAN : Reject(executed)

Spec == Init /\ [][Next]_vars

-----------------------------------------------------------------------------
Value == Config \union {None}

CommandType == [op : {"set", "del", "get"}, id : Ids, config : Value, patch : Patch \union {None}]

\* The values the variables take.
TypeOK ==
    /\ store \in [Ids -> Value] /\ cache \in [Ids -> Value] /\ wanted \in [Ids -> Value]
    /\ wire \in Seq(CommandType) /\ faults \in Nat
    /\ unsure \subseteq Ids /\ contended \subseteq Ids

\* A cached configuration is the stored one, whatever reads, writes and deletions
\* are in flight, as long as this process knows of every write (access-control
\* .manager.ts:55-150, webhook.manager.ts:83-158).
CacheAgrees == \A i \in Ids \ unsure : cache[i] # None => cache[i] = store[i]

\* No update is lost, unless another write of the same id was in flight with it
\* (access-control.manager.ts:57-62, webhook.manager.ts:85-90).
UpdatesKept == \A i \in Ids \ contended : store[i] = wanted[i]
=============================================================================
