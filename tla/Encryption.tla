----------------------------- MODULE Encryption -----------------------------
(***************************************************************************)
(* The class EncryptionManager of src/src/infrastructure/services/         *)
(* encryption.manager.ts: keys in Redis, the Map of the keys this process  *)
(* added, and the id of the key it encrypts with.                          *)
(*                                                                         *)
(* As in CachedStore, commands are answered in the order they were sent,   *)
(* and a reply and what its caller does next are one step.                 *)
(***************************************************************************)
EXTENDS Naturals, Sequences, FiniteSets

CONSTANTS
    KeyIds,
    Materials,  \* the secret and the algorithm of a key
    NoKey,
    MaxKeyPending, \* bound: commands sent and not answered
    MaxKeyFaults   \* bound: commands that reject, and restarts

\* An EncryptionKeyConfig.
Key == [material : Materials, active : BOOLEAN]

\* Of the constants; the models that give them values assume it.
EncryptionAssumption == NoKey \notin Key /\ NoKey \notin KeyIds /\ NoKey \notin KeyIds \X Materials

VARIABLES
    keys,        \* what Redis holds
    keysCache,
    activeKeyId,
    keyWire,     \* commands sent, oldest first
    keyFaults,
    phase,       \* how far the first call since the start, initialize, has come
    sealed,      \* what this process encrypted, of keys nobody removed or replaced since
    tidy         \* no key added as active, no two calls at once, no command lost, no restart

keyHistory == <<phase, sealed, tidy>>

keyVars == <<keys, keysCache, activeKeyId, keyWire, keyFaults, keyHistory>>

KeyInit ==
    /\ keys = [k \in KeyIds |-> NoKey] /\ keysCache = [k \in KeyIds |-> NoKey]
    /\ activeKeyId = NoKey
    /\ keyWire = <<>> /\ keyFaults = 0
    /\ phase = "started" /\ sealed = {} /\ tidy = TRUE

\* Commands: a write with the key a rotation goes on with, a removal, and how far
\* the load of initialize has come.
Set(k, key, new, activate) ==
    [op |-> "set", id |-> k, key |-> key, new |-> new, activate |-> activate]

Del(k) == [op |-> "del", id |-> k]

List == [op |-> "keys"]

ReadKey(k, todo, first) == [op |-> "get", id |-> k, todo |-> todo \ {k}, first |-> first]

SendKey(c) ==
    /\ Len(keyWire) < MaxKeyPending
    /\ keyWire' = Append(keyWire, c)
    /\ phase' = IF phase = "started" /\ c = List THEN "loading" ELSE "used"
    /\ UNCHANGED <<keys, activeKeyId, keyFaults>>

\* What the caller puts in the place of a key.
Replace(k) == sealed' = {s \in sealed : s[1] # k}

AddKey(k, key) ==
    /\ SendKey(Set(k, key, NoKey, FALSE)) /\ Replace(k)
    /\ tidy' = (tidy /\ keyWire = <<>> /\ ~key.active)
    /\ UNCHANGED keysCache

RemoveKey(k) ==
    /\ SendKey(Del(k)) /\ Replace(k)
    /\ tidy' = (tidy /\ keyWire = <<>>)
    /\ UNCHANGED keysCache

\* The cached object is changed before it is written.
Inactive(k) == [keysCache[k] EXCEPT !.active = FALSE]

Deactivate(k, new) ==
    /\ keysCache' = [keysCache EXCEPT ![k] = Inactive(k)]
    /\ SendKey(Set(k, Inactive(k), new, FALSE))

DeactivateKey(k) ==
    /\ keysCache[k] # NoKey
    /\ Deactivate(k, NoKey)
    /\ tidy' = (tidy /\ keyWire = <<>>)
    /\ UNCHANGED sealed

\* A mutant that finds no key to deactivate.
Mutant_NoOld == FALSE

\* The key in use, if this process knows it.
HasOld == activeKeyId # NoKey /\ keysCache[activeKeyId] # NoKey

\* The second write of a rotation, with the new key active.
Activation(k, m) == Set(k, [material |-> m, active |-> TRUE], NoKey, TRUE)

RotateKey(k, m) ==
    /\ IF HasOld THEN Deactivate(activeKeyId, <<k, m>>)
                 ELSE SendKey(Activation(k, m)) /\ UNCHANGED keysCache
    /\ Replace(k)
    /\ tidy' = (tidy /\ keyWire = <<>>)

\* A call under way that will remove or replace a key.
Replacing(k) ==
    \E n \in DOMAIN keyWire :
        LET c == keyWire[n]
        IN  \/ c.op = "del" /\ c.id = k
            \/ c.op = "set" /\ c.id = k /\ c.key.material # keysCache[k].material
            \/ c.op = "set" /\ c.new # NoKey /\ c.new[1] = k

\* A ciphertext carries the id of its key.
Seal(k) == <<k, keysCache[k].material>>

\* encrypt rejects without an active key that is cached; whether that key is still
\* marked active is not asked.
Encrypt ==
    /\ HasOld
    /\ sealed' = IF Replacing(activeKeyId) THEN sealed
                 ELSE sealed \union {Seal(activeKeyId)}
    /\ UNCHANGED <<keys, keysCache, activeKeyId, keyWire, keyFaults, phase, tidy>>

\* decrypt: with the cached key of that id, and then only with the same material.
CanDecrypt(s) == keysCache[s[1]] # NoKey /\ keysCache[s[1]].material = s[2]

Initialize ==
    /\ SendKey(List)
    /\ UNCHANGED <<keysCache, sealed, tidy>>

\* A mutant that caches what it wrote under the active key's id.
Mutant_WrongId(c) == [keysCache EXCEPT ![IF activeKeyId = NoKey THEN c.id ELSE activeKeyId] = c.key]

\* this.keysCache.set(config.keyId, config)
Cached(c) == [keysCache EXCEPT ![c.id] = c.key]

SetAnswered ==
    LET c == Head(keyWire)
    IN  /\ keyWire # <<>> /\ c.op = "set"
        /\ keys' = [keys EXCEPT ![c.id] = c.key]
        /\ keysCache' = Cached(c)
        /\ activeKeyId' = IF c.activate THEN c.id ELSE activeKeyId
        /\ keyWire' = IF c.new = NoKey THEN Tail(keyWire)
                      ELSE Append(Tail(keyWire), Activation(c.new[1], c.new[2]))
        /\ UNCHANGED <<keyFaults, keyHistory>>

DelAnswered ==
    LET c == Head(keyWire)
    IN  /\ keyWire # <<>> /\ c.op = "del"
        /\ keys' = [keys EXCEPT ![c.id] = NoKey]
        /\ keysCache' = [keysCache EXCEPT ![c.id] = NoKey]
        /\ keyWire' = Tail(keyWire)
        /\ UNCHANGED <<activeKeyId, keyFaults, keyHistory>>

\* The load goes on with one of the keys left, or ends with the first active one.
ContinueLoad(todo, first) ==
    \/ /\ todo = {}
       /\ keyWire' = Tail(keyWire)
       /\ activeKeyId' = IF first = NoKey THEN activeKeyId ELSE first
       /\ phase' = IF phase = "loading" THEN "loaded" ELSE phase
    \/ \E k \in todo :
       /\ keyWire' = Append(Tail(keyWire), ReadKey(k, todo, first))
       /\ UNCHANGED <<activeKeyId, phase>>

KeysAnswered ==
    LET c == Head(keyWire)
    IN  /\ keyWire # <<>>
        /\ \/ c.op = "keys" /\ ContinueLoad({k \in KeyIds : keys[k] # NoKey}, NoKey)
           \/ /\ c.op = "get"
              /\ ContinueLoad(c.todo, IF c.first = NoKey /\ keys[c.id] # NoKey /\ keys[c.id].active
                                  THEN c.id ELSE c.first)
        /\ UNCHANGED <<keys, keysCache, keyFaults, sealed, tidy>>

KeyFault == keyFaults < MaxKeyFaults /\ keyFaults' = keyFaults + 1 /\ tidy' = FALSE

\* A command rejects: its call ends there, and a load answers with no keys.
KeyRejected(executed) ==
    LET c == Head(keyWire)
    IN  /\ keyWire # <<>> /\ KeyFault
        /\ keys' = CASE executed /\ c.op = "set" -> [keys EXCEPT ![c.id] = c.key]
                     [] executed /\ c.op = "del" -> [keys EXCEPT ![c.id] = NoKey]
                     [] OTHER -> keys
        /\ keyWire' = Tail(keyWire)
        /\ UNCHANGED <<keysCache, activeKeyId, phase, sealed>>

\* The process starts again; commands that Redis ran before are KeyRejected(TRUE).
Restart ==
    /\ KeyFault
    /\ keysCache' = [k \in KeyIds |-> NoKey] /\ activeKeyId' = NoKey /\ keyWire' = <<>>
    /\ sealed' = {} /\ phase' = "started"
    /\ UNCHANGED keys

KeyNext ==
    \/ \E k \in KeyIds :
          \/ \E key \in Key : AddKey(k, key)
          \/ \E m \in Materials : RotateKey(k, m)
          \/ RemoveKey(k) \/ DeactivateKey(k)
    \/ Encrypt \/ Initialize
    \/ SetAnswered \/ DelAnswered \/ KeysAnswered
    \/ \E executed \in BOOLEAN : KeyRejected(executed)
    \/ Restart

KeySpec == KeyInit /\ [][KeyNext]_keyVars

-----------------------------------------------------------------------------
KeyCommandType ==
         [op : {"set"}, id : KeyIds, key : Key, new : (KeyIds \X Materials) \union {NoKey},
          activate : BOOLEAN]
  \union [op : {"del"}, id : KeyIds]
  \union [op : {"keys"}]
  \union [op : {"get"}, id : KeyIds, todo : SUBSET KeyIds, first : KeyIds \union {NoKey}]

\* The values the variables take.
KeyTypeOK ==
    /\ keys \in [KeyIds -> Key \union {NoKey}] /\ keysCache \in [KeyIds -> Key \union {NoKey}]
    /\ activeKeyId \in KeyIds \union {NoKey}
    /\ keyWire \in Seq(KeyCommandType) /\ keyFaults \in Nat
    /\ phase \in {"started", "loading", "loaded", "used"} /\ tidy \in BOOLEAN /\ sealed \subseteq KeyIds \X Materials

\* What this process encrypted it can decrypt (:114-162), however rotations and
\* deactivations (:199-219, :256-262) are interleaved, until a caller removes or
\* replaces the key.
ReadBack == \A s \in sealed : CanDecrypt(s)

\* Rotations leave one active key in Redis (:199-214), the second write following
\* the first, if they never overlap and nothing is lost between their two writes.
OneActive == tidy => Cardinality({k \in KeyIds : keys[k] # NoKey /\ keys[k].active}) <= 1

\* "Initialize encryption manager with keys from Redis" (:37): afterwards a process
\* with an active key in Redis can encrypt.
InitializeLoadsKeys ==
    phase = "loaded" /\ (\E k \in KeyIds : keys[k] # NoKey /\ keys[k].active) => HasOld
=============================================================================
