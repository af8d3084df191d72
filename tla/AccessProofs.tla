---------------------------- MODULE AccessProofs ----------------------------
(***************************************************************************)
(* What AccessControl and Encryption satisfy, for any number of            *)
(* principals, patterns, keys, materials, callers, commands in flight and  *)
(* faults, and that the managers keep what each of them promises when they *)
(* are composed (MCManagers).                                              *)
(***************************************************************************)
EXTENDS MCManagers, ManagerProofs, AlgorithmProofs

-----------------------------------------------------------------------------
(***************************************************************************)
(* AccessControl: a check follows the grants that were stored last.        *)
(***************************************************************************)
ReadType == [op : {"get"}, who : Principals, pattern : Patterns, todo : SUBSET Patterns, found : Entries]

\* The commands on the wire.
LEMMA AclCommands ==
    ASSUME NEW p \in Principals, NEW q \in Patterns
    PROVE  /\ \A grant \in Grants \union {Nothing} : Write(p, q, grant) \in AclCommandType
           /\ Keys(p) \in AclCommandType
           /\ \A todo \in SUBSET Patterns, found \in Entries :
                 Read(p, q, todo, found) \in ReadType /\ Read(p, q, todo, found) \in AclCommandType
  BY DEF Write, Keys, Read, AclCommandType, ReadType

LEMMA AclCommandFields ==
    ASSUME NEW c \in AclCommandType
    PROVE  /\ c.who \in Principals
           /\ c.op = "write" => c.pattern \in Patterns /\ c.grant \in Grants \union {Nothing}
           /\ c.op = "get" => c \in ReadType
  BY DEF AclCommandType, ReadType

LEMMA AclWires ==
    ASSUME NEW w \in Seq(AclCommandType)
    PROVE  /\ Len(w) \in Nat
           /\ \A c \in AclCommandType :
                 /\ Append(w, c) \in Seq(AclCommandType)
                 /\ Len(Append(w, c)) = Len(w) + 1
                 /\ \A n \in 1..Len(w) : Append(w, c)[n] = w[n]
                 /\ Append(w, c)[Len(w) + 1] = c
           /\ w # <<>> => /\ Len(w) >= 1 /\ Head(w) = w[1] /\ Head(w) \in AclCommandType
                          /\ Tail(w) \in Seq(AclCommandType)
                          /\ Len(Tail(w)) = Len(w) - 1
                          /\ \A n \in 1..Len(Tail(w)) : Tail(w)[n] = w[n + 1]
  OBVIOUS

\* What a load found so far is what is stored, but for the keys it still has to read.
Partly(c, entries) ==
    c.op = "get" => \A q \in Patterns \ (c.todo \union {c.pattern}) : c.found[q] = entries[q]

Loads == \A n \in 1..Len(aclWire) : aclWire[n].who \notin raced => Partly(aclWire[n], aces[aclWire[n].who])

AclInv == AclTypeOK /\ Loads /\ ChecksAreCurrent

LEMMA EntriesTyped == AclTypeOK => \A p \in Principals : aces[p] \in Entries
  BY DEF AclTypeOK

LEMMA SendStep ==
    ASSUME AclInv, NEW c \in AclCommandType, SendAcl(c), c.op # "get"
    PROVE  AclInv'
<1>1. AclTypeOK'
  BY AclWires DEF AclInv, AclTypeOK, SendAcl
<1>2. Loads'
  <2>1. /\ Len(aclWire') = Len(aclWire) + 1 /\ Len(aclWire) \in Nat
        /\ aclWire'[Len(aclWire) + 1] = c /\ \A n \in 1..Len(aclWire) : aclWire'[n] = aclWire[n]
    BY AclWires DEF AclInv, AclTypeOK, SendAcl
  <2>2. aces' = aces /\ raced' = raced
    BY DEF SendAcl
  <2>3. QED
    BY <2>1, <2>2 DEF AclInv, Loads, Partly
<1>3. ChecksAreCurrent'
  BY DEF AclInv, ChecksAreCurrent, SendAcl
<1>4. QED
  BY <1>1, <1>2, <1>3 DEF AclInv

\* A load goes on, or ends with a list that is complete.
LEMMA ContinueStep ==
    ASSUME AclInv, aclWire # <<>>, NEW p \in Principals, NEW todo \in SUBSET Patterns,
           NEW found \in Entries, Continue(p, todo, found), UNCHANGED <<aces, aclFaults, raced>>,
           p \notin raced => \A q \in Patterns \ todo : found[q] = aces[p][q]
    PROVE  AclInv'
<1>0. /\ aclWire \in Seq(AclCommandType) /\ Tail(aclWire) \in Seq(AclCommandType)
      /\ Len(aclWire) \in Nat /\ Len(Tail(aclWire)) = Len(aclWire) - 1 /\ Len(aclWire) >= 1
      /\ \A n \in 1..Len(Tail(aclWire)) : Tail(aclWire)[n] = aclWire[n + 1]
  BY AclWires DEF AclInv, AclTypeOK
<1>1. ASSUME NEW n \in 1..Len(Tail(aclWire)), Tail(aclWire)[n].who \notin raced
      PROVE  Partly(Tail(aclWire)[n], aces[Tail(aclWire)[n].who])
  BY <1>0, <1>1 DEF AclInv, Loads
<1>2. CASE todo = {} /\ aclWire' = Tail(aclWire) /\ aclCache' = [aclCache EXCEPT ![p] = found]
  <2>1. AclTypeOK'
    BY <1>0, <1>2 DEF AclInv, AclTypeOK
  <2>2. Loads'
    BY <1>1, <1>2 DEF Loads
  <2>3. p \notin raced => found = aces[p]
    BY <1>2, EntriesTyped DEF AclInv, Entries
  <2>4. ChecksAreCurrent'
    BY <1>2, <2>3 DEF AclInv, AclTypeOK, ChecksAreCurrent
  <2>5. QED
    BY <2>1, <2>2, <2>4 DEF AclInv
<1>3. ASSUME NEW q \in todo, aclWire' = Append(Tail(aclWire), Read(p, q, todo, found)), UNCHANGED aclCache
      PROVE  AclInv'
  <2> DEFINE c == Read(p, q, todo, found)
  <2>1. c \in AclCommandType
    BY AclCommands
  <2>2. p \notin raced => Partly(c, aces[p])
    BY DEF Read, Partly
  <2>3. c.who = p
    BY DEF Read
  <2> HIDE DEF c
  <2>4. /\ Len(aclWire') = Len(aclWire) /\ aclWire'[Len(aclWire)] = c
        /\ \A n \in 1..Len(Tail(aclWire)) : aclWire'[n] = Tail(aclWire)[n]
        /\ aclWire' \in Seq(AclCommandType)
    BY <1>0, <1>3, <2>1, AclWires DEF c
  <2>5. AclTypeOK'
    BY <1>3, <2>4 DEF AclInv, AclTypeOK
  <2>6. ASSUME NEW n \in 1..Len(aclWire'), aclWire'[n].who \notin raced
        PROVE  Partly(aclWire'[n], aces[aclWire'[n].who])
    <3>1. CASE n = Len(aclWire)
      BY <2>2, <2>3, <2>4, <2>6, <3>1
    <3>2. CASE n \in 1..Len(Tail(aclWire))
      BY <1>1, <2>4, <2>6, <3>2
    <3>3. n \in 1..Len(aclWire)
      BY <2>4
    <3>0. Len(aclWire) \in Nat
      BY <1>0
    <3>4. n = Len(aclWire) \/ n \in 1..(Len(aclWire) - 1)
      BY <3>0, <3>3
    <3>5. QED
      BY <1>0, <3>1, <3>2, <3>4
  <2>7. Loads' /\ ChecksAreCurrent'
    BY <1>3, <2>6 DEF AclInv, Loads, ChecksAreCurrent
  <2>8. QED
    BY <2>5, <2>7 DEF AclInv
<1>4. QED
  BY <1>2, <1>3 DEF Continue

LEMMA LoadStep == ASSUME AclInv, LoadAnswered PROVE AclInv'
<1> DEFINE c == Head(aclWire)
<1>1. aclWire # <<>> /\ c \in AclCommandType /\ c = aclWire[1] /\ 1 \in 1..Len(aclWire)
  BY AclWires DEF LoadAnswered, AclInv, AclTypeOK
<1>2. c.who \in Principals /\ aces[c.who] \in Entries
  BY <1>1, AclCommandFields, EntriesTyped DEF AclInv
<1>3. UNCHANGED <<aces, aclFaults, raced>>
  BY DEF LoadAnswered
<1>4. CASE c.op = "keys" /\ Continue(c.who, {q \in Patterns : aces[c.who][q] # Nothing}, NoEntries)
  <2>1. NoEntries \in Entries /\ \A q \in Patterns : NoEntries[q] = Nothing
    BY DEF NoEntries, Entries
  <2>2. QED
    BY <1>1, <1>2, <1>3, <1>4, <2>1, ContinueStep
<1>5. CASE c.op = "get" /\ Continue(c.who, c.todo, With(c.found, c.who, c.pattern))
  <2>1. c.pattern \in Patterns /\ c.todo \in SUBSET Patterns /\ c.found \in Entries
    BY <1>1, <1>5, AclCommandFields DEF ReadType
  <2>2. With(c.found, c.who, c.pattern) \in Entries
    BY <1>2, <2>1 DEF With, Entries
  <2>3. c.who \notin raced => \A q \in Patterns \ c.todo : With(c.found, c.who, c.pattern)[q] = aces[c.who][q]
    <3>1. c.who \notin raced => Partly(c, aces[c.who])
      BY <1>1 DEF AclInv, Loads
    <3>2. QED
      BY <1>5, <2>1, <3>1 DEF Partly, With, Entries
  <2>4. QED
    BY <1>1, <1>2, <1>3, <1>5, <2>1, <2>2, <2>3, ContinueStep
<1>6. QED
  BY <1>4, <1>5 DEF LoadAnswered

\* A write makes the list of its principal go, and the loads of it void.
LEMMA WriteStep ==
    ASSUME AclInv, NEW executed \in BOOLEAN, WriteAnswered \/ Rejected(executed)
    PROVE  AclInv'
<1> DEFINE c == Head(aclWire)
<1>0. /\ aclWire # <<>> /\ c \in AclCommandType /\ Tail(aclWire) \in Seq(AclCommandType)
      /\ Len(aclWire) \in Nat /\ Len(Tail(aclWire)) = Len(aclWire) - 1
      /\ \A n \in 1..Len(Tail(aclWire)) : Tail(aclWire)[n] = aclWire[n + 1] /\ n + 1 \in 1..Len(aclWire)
  BY AclWires DEF WriteAnswered, Rejected, AclInv, AclTypeOK
<1>1. /\ c.who \in Principals
      /\ c.op = "write" => c.pattern \in Patterns /\ c.grant \in Grants \union {Nothing}
  BY <1>0, AclCommandFields
<1>2. /\ aces' \in [Principals -> Entries] /\ aclCache' \in [Principals -> Entries \union {Nothing}]
      /\ \A p \in Principals \ {c.who} : aces'[p] = aces[p] /\ aclCache'[p] = aclCache[p]
                                         /\ (p \in raced' <=> p \in raced)
      /\ raced' \subseteq Principals /\ aclWire' = Tail(aclWire)
  <2>0. /\ aces \in [Principals -> Entries] /\ aclCache \in [Principals -> Entries \union {Nothing}]
        /\ raced \subseteq Principals
    BY DEF AclInv, AclTypeOK
  <2>1. CASE c.op = "write" /\ aces' = [aces EXCEPT ![c.who][c.pattern] = c.grant]
    <3>1. [aces[c.who] EXCEPT ![c.pattern] = c.grant] \in Entries
      BY <1>1, <2>0, <2>1 DEF Entries
    <3>2. aces' = [aces EXCEPT ![c.who] = [aces[c.who] EXCEPT ![c.pattern] = c.grant]]
      BY <1>1, <2>0, <2>1
    <3>3. QED
      BY <1>1, <2>0, <3>1, <3>2 DEF WriteAnswered, Rejected, Invalidate
  <2>2. CASE aces' = aces
    BY <1>1, <2>0, <2>2 DEF WriteAnswered, Rejected, Invalidate
  <2>3. QED
    BY <2>1, <2>2 DEF WriteAnswered, Rejected
<1>3. \/ c.who \in raced'
      \/ aces' = aces /\ aclCache' = aclCache /\ raced' = raced
      \/ aclCache'[c.who] = Nothing /\ ~Loading(c.who)
  BY <1>1 DEF WriteAnswered, Rejected, Invalidate, AclInv, AclTypeOK
<1>4. AclTypeOK'
  BY <1>0, <1>2 DEF WriteAnswered, Rejected, AclInv, AclTypeOK
<1>5. ASSUME NEW n \in 1..Len(aclWire'), aclWire'[n].who \notin raced'
      PROVE  Partly(aclWire'[n], aces'[aclWire'[n].who])
  <2> DEFINE d == aclWire[n + 1]
  <2>1. aclWire'[n] = d /\ n + 1 \in 1..Len(aclWire)
    BY <1>0, <1>2
  <2>2. d \in AclCommandType /\ d.who \in Principals
    BY <2>1, AclCommandFields DEF AclInv, AclTypeOK
  <2>3. d.who \notin raced => Partly(d, aces[d.who])
    BY <2>1 DEF AclInv, Loads
  <2>4. CASE d.who # c.who
    BY <1>2, <1>5, <2>1, <2>2, <2>3, <2>4
  <2>5. CASE d.who = c.who /\ aces' = aces /\ raced' = raced
    BY <1>5, <2>1, <2>3, <2>5
  <2>6. CASE d.who = c.who /\ ~Loading(c.who)
    BY <2>1, <2>6 DEF Loading, Partly, AclInv, AclTypeOK
  <2>7. QED
    BY <1>3, <1>5, <2>1, <2>4, <2>5, <2>6
<1>6. Loads'
  BY <1>5 DEF Loads
<1>7. ChecksAreCurrent'
  BY <1>1, <1>2, <1>3 DEF AclInv, ChecksAreCurrent
<1>8. QED
  BY <1>4, <1>6, <1>7 DEF AclInv

LEMMA AclInvInit == ASSUME AccessControlAssumption, AclInit PROVE AclInv
  BY DEF AclInit, AclInv, AclTypeOK, Loads, ChecksAreCurrent, NoEntries, Entries

LEMMA AclInvStep == ASSUME AclInv, [AclNext]_aclVars PROVE AclInv'
<1>1. ASSUME NEW p \in Principals, GetPrincipalAccess(p) PROVE AclInv'
  <2>1. Keys(p) \in AclCommandType /\ Keys(p).op # "get"
    BY DEF Keys, AclCommandType
  <2>2. QED
    BY <1>1, <2>1, SendStep DEF GetPrincipalAccess
<1>2. ASSUME NEW p \in Principals, NEW q \in Patterns, NEW grant \in Grants \union {Nothing},
             SendAcl(Write(p, q, grant))
      PROVE  AclInv'
  <2>1. Write(p, q, grant) \in AclCommandType /\ Write(p, q, grant).op # "get"
    BY DEF Write, AclCommandType
  <2>2. QED
    BY <1>2, <2>1, SendStep
<1>3. CASE UNCHANGED aclVars
  BY <1>3 DEF aclVars, AclInv, AclTypeOK, Loads, ChecksAreCurrent
<1>4. ASSUME NEW p \in Principals, NEW q \in Patterns,
             RevokeAccess(p, q) \/ \E grant \in Grants : GrantAccess(p, q, grant)
      PROVE  AclInv'
  BY <1>2, <1>4 DEF RevokeAccess, GrantAccess
<1>5. QED
  BY <1>1, <1>3, <1>4, LoadStep, WriteStep DEF AclNext

\* What checkAccess decides by is what is stored: no grant or revocation is missed
\* through the cache, whatever loads are in flight, unless a load of the principal was
\* under way when it was written or its reply was lost
\* (access-control.manager.ts:155-194, 243-271).
THEOREM ChecksAreCurrentAlways == ASSUME AccessControlAssumption PROVE AclSpec => []ChecksAreCurrent
<1>1. AclInit => AclInv
  BY AclInvInit
<1>2. AclInv /\ [AclNext]_aclVars => AclInv'
  BY AclInvStep
<1>3. AclInv => ChecksAreCurrent
  BY DEF AclInv
<1>4. QED
  BY <1>1, <1>2, <1>3, PTL DEF AclSpec

-----------------------------------------------------------------------------
(***************************************************************************)
(* Encryption: what was sealed can be read back; keys rotate in order.     *)
(*                                                                         *)
(* What a process encrypted stays readable because no command on the wire  *)
(* takes its key away: a rotation writes the material that is there, and   *)
(* the new key of a rotation has an id of its own.                         *)
(*                                                                         *)
(* At most one key is active because, as long as nothing overlaps, it is   *)
(* the one the process holds as active, and the second write of a rotation *)
(* is sent when the first one has left no key active.                      *)
(***************************************************************************)
\* A command after which a ciphertext can be read as before.
Spares(c, s) ==
    /\ c.op = "del" => c.id # s[1]
    /\ c.op = "set" => /\ c.id = s[1] => c.key.material = s[2]
                       /\ c.new # NoKey => c.new[1] # s[1]

SealedInv ==
    /\ KeyTypeOK
    /\ \A s \in sealed : CanDecrypt(s) /\ \A n \in DOMAIN keyWire : Spares(keyWire[n], s)

ActiveKey(k) == keys[k] # NoKey /\ keys[k].active

\* A write that was sent to an idle connection is the oldest command, and only loads that
\* have not begun wait behind it.  The second write of a rotation may have loads before
\* and behind it, that have found no active key.
Orderly(n) ==
    LET c == keyWire[n]
    IN  /\ c.op \in {"set", "del"} =>
              \A m \in DOMAIN keyWire \ {n} :
                 \/ keyWire[m].op = "keys"
                 \/ c.op = "set" /\ c.activate /\ keyWire[m].op = "get" /\ keyWire[m].first = NoKey
        /\ c.op = "set" /\ ~c.activate => n = 1 /\ ~c.key.active /\ (c.new # NoKey => c.id = activeKeyId)
        /\ c.op = "set" /\ c.activate => c.key.active /\ c.new = NoKey /\ \A k \in KeyIds : ~ActiveKey(k)
        /\ c.op = "del" => n = 1
        /\ c.op = "get" => c.first \in {NoKey, activeKeyId}

TidyInv ==
    /\ KeyTypeOK
    /\ tidy => /\ \A k \in KeyIds : ActiveKey(k) => k = activeKeyId /\ keysCache[k] # NoKey
               /\ \A n \in DOMAIN keyWire : Orderly(n)

SetType == [op : {"set"}, id : KeyIds, key : Key, new : (KeyIds \X Materials) \union {NoKey}, activate : BOOLEAN]

DelType == [op : {"del"}, id : KeyIds]

GetType == [op : {"get"}, id : KeyIds, todo : SUBSET KeyIds, first : KeyIds \union {NoKey}]

LEMMA KeyCommands ==
    /\ \A k \in KeyIds, key \in Key, new \in (KeyIds \X Materials) \union {NoKey}, activate \in BOOLEAN :
          Set(k, key, new, activate) \in KeyCommandType
    /\ \A k \in KeyIds : Del(k) \in KeyCommandType
    /\ List \in KeyCommandType
    /\ \A k \in KeyIds, todo \in SUBSET KeyIds, first \in KeyIds \union {NoKey} :
          ReadKey(k, todo, first) \in KeyCommandType
    /\ \A k \in KeyIds, m \in Materials : Activation(k, m) \in KeyCommandType
<1>1. \A k \in KeyIds, key \in Key, new \in (KeyIds \X Materials) \union {NoKey}, activate \in BOOLEAN :
          Set(k, key, new, activate) \in KeyCommandType
  BY DEF Set, KeyCommandType
<1>2. \A k \in KeyIds, m \in Materials : Activation(k, m) \in KeyCommandType
  BY <1>1 DEF Activation, Key
<1>3. QED
  BY <1>1, <1>2 DEF Del, List, ReadKey, KeyCommandType

LEMMA KeyCommandFields ==
    ASSUME NEW c \in KeyCommandType
    PROVE  \/ c \in SetType /\ c.op = "set"
           \/ c \in DelType /\ c.op = "del"
           \/ c = List /\ c.op = "keys"
           \/ c \in GetType /\ c.op = "get"
  BY DEF KeyCommandType, SetType, DelType, GetType, List

LEMMA KeyTypeInit == KeyInit => KeyTypeOK
  BY DEF KeyInit, KeyTypeOK

LEMMA InactiveKey ==
    ASSUME EncryptionAssumption, KeyTypeOK, NEW k \in KeyIds, keysCache[k] # NoKey
    PROVE  /\ Inactive(k) \in Key /\ ~Inactive(k).active
           /\ Inactive(k).material = keysCache[k].material /\ Inactive(k) # NoKey
  BY DEF EncryptionAssumption, KeyTypeOK, Inactive, Key

LEMMA SendKeyTypes ==
    ASSUME KeyTypeOK, NEW c \in KeyCommandType, SendKey(c)
    PROVE  /\ keys' \in [KeyIds -> Key \union {NoKey}] /\ activeKeyId' \in KeyIds \union {NoKey}
           /\ keyWire' \in Seq(KeyCommandType) /\ keyFaults' \in Nat
           /\ phase' \in {"started", "loading", "loaded", "used"}
  BY Sequence DEF KeyTypeOK, SendKey

LEMMA KeyCallTypes ==
    ASSUME EncryptionAssumption, KeyTypeOK,
           \/ \E k \in KeyIds :
                 \/ \E key \in Key : AddKey(k, key)
                 \/ \E m \in Materials : RotateKey(k, m)
                 \/ RemoveKey(k) \/ DeactivateKey(k)
           \/ Initialize
    PROVE  KeyTypeOK'
<1>1. ASSUME NEW c \in KeyCommandType, SendKey(c), keysCache' \in [KeyIds -> Key \union {NoKey}],
             tidy' \in BOOLEAN, sealed' \subseteq sealed
      PROVE  KeyTypeOK'
  BY <1>1, SendKeyTypes DEF KeyTypeOK
<1>2. tidy \in BOOLEAN /\ keysCache \in [KeyIds -> Key \union {NoKey}]
  BY DEF KeyTypeOK
<1>3. ASSUME NEW k \in KeyIds, NEW key \in Key, AddKey(k, key)
      PROVE  KeyTypeOK'
  BY <1>1, <1>2, <1>3, KeyCommands DEF AddKey, Replace
<1>4. ASSUME NEW k \in KeyIds, RemoveKey(k)
      PROVE  KeyTypeOK'
  BY <1>1, <1>2, <1>4, KeyCommands DEF RemoveKey, Replace
<1>5. ASSUME NEW k \in KeyIds, keysCache[k] # NoKey, NEW new \in (KeyIds \X Materials) \union {NoKey},
             Deactivate(k, new), tidy' \in BOOLEAN, sealed' \subseteq sealed
      PROVE  KeyTypeOK'
  <2>1. keysCache' \in [KeyIds -> Key \union {NoKey}]
    BY <1>2, <1>5, InactiveKey DEF Deactivate
  <2>2. Set(k, Inactive(k), new, FALSE) \in KeyCommandType
    BY <1>5, InactiveKey, KeyCommands
  <2>3. QED
    BY <1>1, <1>5, <2>1, <2>2 DEF Deactivate
<1>6. ASSUME NEW k \in KeyIds, DeactivateKey(k)
      PROVE  KeyTypeOK'
  BY <1>2, <1>5, <1>6 DEF DeactivateKey
<1>7. ASSUME NEW k \in KeyIds, NEW m \in Materials, RotateKey(k, m)
      PROVE  KeyTypeOK'
  <2>1. tidy' \in BOOLEAN /\ sealed' \subseteq sealed
    BY <1>2, <1>7 DEF RotateKey, Replace
  <2>2. CASE HasOld
    <3>1. activeKeyId \in KeyIds /\ keysCache[activeKeyId] # NoKey
      BY <2>2 DEF HasOld, KeyTypeOK
    <3>2. QED
      BY <1>5, <1>7, <2>1, <2>2, <3>1 DEF RotateKey
  <2>3. CASE ~HasOld
    BY <1>1, <1>2, <1>7, <2>1, <2>3, KeyCommands DEF RotateKey
  <2>4. QED
    BY <2>2, <2>3
<1>8. CASE Initialize
  BY <1>1, <1>2, <1>8, KeyCommands DEF Initialize
<1>9. QED
  BY <1>3, <1>4, <1>6, <1>7, <1>8

LEMMA AnswerLoads ==
    ASSUME KeyTypeOK, KeysAnswered, Head(keyWire) \in KeyCommandType
    PROVE  \E todo \in SUBSET KeyIds, first \in KeyIds \union {NoKey} : ContinueLoad(todo, first)
<1> DEFINE c == Head(keyWire)
<1>1. CASE c.op = "keys"
  BY <1>1 DEF KeysAnswered
<1>2. CASE c.op = "get"
  <2>1. c.todo \in SUBSET KeyIds /\ c.first \in KeyIds \union {NoKey} /\ c.id \in KeyIds
    BY <1>2, KeyCommandFields DEF GetType
  <2>2. QED
    BY <1>2, <2>1 DEF KeysAnswered
<1>3. QED
  BY <1>1, <1>2 DEF KeysAnswered

LEMMA KeyFaultTypes == KeyTypeOK /\ KeyFault => keyFaults' \in Nat /\ tidy' \in BOOLEAN
<1>1. KeyTypeOK /\ KeyFault => keyFaults' \in Nat
  BY DEF KeyTypeOK, KeyFault
<1>2. KeyFault => tidy' \in BOOLEAN
  BY Zenon DEF KeyFault
<1>3. QED
  BY <1>1, <1>2

LEMMA AnswerKeyTypes ==
    ASSUME EncryptionAssumption, KeyTypeOK,
           SetAnswered \/ DelAnswered \/ KeysAnswered \/ \E executed \in BOOLEAN : KeyRejected(executed)
    PROVE  KeyTypeOK'
<1> DEFINE c == Head(keyWire)
<1>1. /\ keyWire \in Seq(KeyCommandType) /\ keyWire # <<>>
      /\ c \in KeyCommandType /\ Tail(keyWire) \in Seq(KeyCommandType)
  BY Sequence DEF KeyTypeOK, SetAnswered, DelAnswered, KeysAnswered, KeyRejected
<1>2. CASE SetAnswered
  <2>1. c \in SetType
    BY <1>1, <1>2, KeyCommandFields DEF SetAnswered
  <2>2. c.id \in KeyIds /\ c.key \in Key /\ c.new \in (KeyIds \X Materials) \union {NoKey}
    BY <2>1 DEF SetType
  <2>3. keyWire' \in Seq(KeyCommandType)
    <3>1. c.new # NoKey => Activation(c.new[1], c.new[2]) \in KeyCommandType
      BY <2>2, KeyCommands
    <3>2. QED
      BY <1>1, <1>2, <3>1, Sequence DEF SetAnswered
  <2>4. QED
    BY <1>2, <2>2, <2>3 DEF SetAnswered, Cached, keyHistory, KeyTypeOK
<1>3. CASE DelAnswered
  <2>1. c.id \in KeyIds
    BY <1>1, <1>3, KeyCommandFields DEF DelAnswered, DelType
  <2>2. QED
    BY <1>1, <1>3, <2>1 DEF DelAnswered, keyHistory, KeyTypeOK
<1>4. CASE KeysAnswered
  <2>1. ASSUME NEW todo \in SUBSET KeyIds, NEW first \in KeyIds \union {NoKey}, ContinueLoad(todo, first)
        PROVE  /\ keyWire' \in Seq(KeyCommandType) /\ activeKeyId' \in KeyIds \union {NoKey}
               /\ phase' \in {"started", "loading", "loaded", "used"}
    <3>1. \A d \in KeyCommandType : Append(Tail(keyWire), d) \in Seq(KeyCommandType)
      BY <1>1, Sequence
    <3>2. \A k \in todo : ReadKey(k, todo, first) \in KeyCommandType
      BY KeyCommands
    <3>3. keyWire' \in Seq(KeyCommandType)
      BY <1>1, <2>1, <3>1, <3>2 DEF ContinueLoad
    <3>4. activeKeyId' \in KeyIds \union {NoKey} /\ phase' \in {"started", "loading", "loaded", "used"}
      BY <2>1 DEF ContinueLoad, KeyTypeOK
    <3>5. QED
      BY <3>3, <3>4
  <2>2. \E todo \in SUBSET KeyIds, first \in KeyIds \union {NoKey} : ContinueLoad(todo, first)
    BY <1>1, <1>4, AnswerLoads
  <2>3. QED
    BY <1>4, <2>1, <2>2 DEF KeysAnswered, KeyTypeOK
<1>5. ASSUME NEW executed \in BOOLEAN, KeyRejected(executed)
      PROVE  KeyTypeOK'
  <2>1. /\ c.op \in {"set", "del"} => c.id \in KeyIds
        /\ c.op = "set" => c.key \in Key
    BY <1>1, KeyCommandFields DEF SetType, DelType
  <2>2. keys' \in [KeyIds -> Key \union {NoKey}]
    BY <1>5, <2>1 DEF KeyRejected, KeyTypeOK
  <2>3. keyFaults' \in Nat /\ tidy' \in BOOLEAN
    BY <1>5, KeyFaultTypes DEF KeyRejected
  <2>4. QED
    BY <1>1, <1>5, <2>2, <2>3 DEF KeyRejected, KeyTypeOK
<1>6. QED
  BY <1>2, <1>3, <1>4, <1>5

LEMMA KeyTypeStep == ASSUME EncryptionAssumption, KeyTypeOK, [KeyNext]_keyVars PROVE KeyTypeOK'
<1>1. CASE Encrypt
  <2>1. Seal(activeKeyId) \in KeyIds \X Materials
    BY <1>1 DEF Encrypt, HasOld, Seal, KeyTypeOK, Key
  <2>2. QED
    BY <1>1, <2>1 DEF Encrypt, KeyTypeOK
<1>2. CASE Restart
  <2>1. keyFaults' \in Nat /\ tidy' \in BOOLEAN
    BY <1>2, KeyFaultTypes DEF Restart
  <2>2. keyWire' \in Seq(KeyCommandType) /\ keysCache' \in [KeyIds -> Key \union {NoKey}]
    BY <1>2 DEF Restart
  <2>3. QED
    BY <1>2, <2>1, <2>2 DEF Restart, KeyTypeOK
<1>3. CASE UNCHANGED keyVars
  BY <1>3 DEF keyVars, keyHistory, KeyTypeOK
<1>4. QED
  BY <1>1, <1>2, <1>3, KeyCallTypes, AnswerKeyTypes DEF KeyNext

\* The values the variables of the keys take (encryption.manager.ts:28-262).
THEOREM KeyTypeCorrect == ASSUME EncryptionAssumption PROVE KeySpec => []KeyTypeOK
<1>1. KeyTypeOK /\ [KeyNext]_keyVars => KeyTypeOK'
  BY KeyTypeStep
<1>2. QED
  BY <1>1, KeyTypeInit, PTL DEF KeySpec

LEMMA SealedInit == ASSUME EncryptionAssumption PROVE KeyInit => SealedInv
  BY KeyTypeInit DEF KeyInit, SealedInv

LEMMA SendSpares ==
    ASSUME SealedInv, NEW c \in KeyCommandType, SendKey(c), NEW s \in sealed, Spares(c, s)
    PROVE  \A n \in DOMAIN keyWire' : Spares(keyWire'[n], s)
<1>1. keyWire \in Seq(KeyCommandType) /\ keyWire' = Append(keyWire, c)
  BY DEF SealedInv, KeyTypeOK, SendKey
<1>2. /\ keyWire' \in Seq(KeyCommandType) /\ Len(keyWire') = Len(keyWire) + 1
      /\ Len(keyWire) \in Nat /\ DOMAIN keyWire = 1..Len(keyWire)
      /\ \A n \in 1..Len(keyWire) : keyWire'[n] = keyWire[n]
      /\ keyWire'[Len(keyWire) + 1] = c
  BY <1>1, Sequence
<1>3. DOMAIN keyWire' = 1..(Len(keyWire) + 1)
  BY <1>2, Sequence
<1>4. \A n \in DOMAIN keyWire' : n \in DOMAIN keyWire \/ n = Len(keyWire) + 1
  BY <1>2, <1>3
<1>5. QED
  BY <1>2, <1>4 DEF SealedInv

LEMMA CallSealed ==
    ASSUME EncryptionAssumption, SealedInv, NEW s \in sealed',
           \/ \E k \in KeyIds :
                 \/ \E key \in Key : AddKey(k, key)
                 \/ \E m \in Materials : RotateKey(k, m)
                 \/ RemoveKey(k) \/ DeactivateKey(k)
           \/ Initialize
    PROVE  CanDecrypt(s)' /\ \A n \in DOMAIN keyWire' : Spares(keyWire'[n], s)
<1> USE DEF Spares
<1>1. ASSUME NEW c \in KeyCommandType, SendKey(c), s \in sealed, Spares(c, s), UNCHANGED keysCache
      PROVE  CanDecrypt(s)' /\ \A n \in DOMAIN keyWire' : Spares(keyWire'[n], s)
  <2>1. \A n \in DOMAIN keyWire' : Spares(keyWire'[n], s)
    BY <1>1, SendSpares
  <2>2. QED
    BY <1>1, <2>1 DEF SealedInv, CanDecrypt
<1>2. ASSUME NEW k \in KeyIds, NEW key \in Key, AddKey(k, key)
      PROVE  CanDecrypt(s)' /\ \A n \in DOMAIN keyWire' : Spares(keyWire'[n], s)
  <2>1. s \in sealed /\ s[1] # k
    BY <1>2 DEF AddKey, Replace
  <2>2. Spares(Set(k, key, NoKey, FALSE), s)
    BY <2>1 DEF Set
  <2>3. QED
    BY <1>1, <1>2, <2>1, <2>2, KeyCommands DEF AddKey
<1>3. ASSUME NEW k \in KeyIds, RemoveKey(k)
      PROVE  CanDecrypt(s)' /\ \A n \in DOMAIN keyWire' : Spares(keyWire'[n], s)
  <2>1. s \in sealed /\ s[1] # k
    BY <1>3 DEF RemoveKey, Replace
  <2>2. Spares(Del(k), s)
    BY <2>1 DEF Del
  <2>3. QED
    BY <1>1, <1>3, <2>1, <2>2, KeyCommands DEF RemoveKey
<1>4. ASSUME NEW k \in KeyIds, keysCache[k] # NoKey, NEW new \in (KeyIds \X Materials) \union {NoKey},
             Deactivate(k, new), s \in sealed, new # NoKey => new[1] # s[1]
      PROVE  CanDecrypt(s)' /\ \A n \in DOMAIN keyWire' : Spares(keyWire'[n], s)
  <2>1. CanDecrypt(s)
    BY <1>4 DEF SealedInv
  <2>2. /\ Inactive(k) \in Key /\ Inactive(k).material = keysCache[k].material
        /\ Inactive(k) # NoKey
    BY <1>4, InactiveKey DEF SealedInv
  <2>3. Spares(Set(k, Inactive(k), new, FALSE), s)
    BY <1>4, <2>1, <2>2 DEF Set, CanDecrypt
  <2>4. \A n \in DOMAIN keyWire' : Spares(keyWire'[n], s)
    BY <1>4, <2>2, <2>3, KeyCommands, SendSpares DEF Deactivate
  <2>5. CanDecrypt(s)'
    BY <1>4, <2>1, <2>2 DEF Deactivate, CanDecrypt, SealedInv, KeyTypeOK
  <2>6. QED
    BY <2>4, <2>5
<1>5. ASSUME NEW k \in KeyIds, DeactivateKey(k)
      PROVE  CanDecrypt(s)' /\ \A n \in DOMAIN keyWire' : Spares(keyWire'[n], s)
  BY <1>4, <1>5 DEF DeactivateKey
<1>6. ASSUME NEW k \in KeyIds, NEW m \in Materials, RotateKey(k, m)
      PROVE  CanDecrypt(s)' /\ \A n \in DOMAIN keyWire' : Spares(keyWire'[n], s)
  <2>1. s \in sealed /\ s[1] # k
    BY <1>6 DEF RotateKey, Replace
  <2>2. CASE HasOld
    <3>1. activeKeyId \in KeyIds /\ keysCache[activeKeyId] # NoKey
      BY <2>2 DEF HasOld, SealedInv, KeyTypeOK
    <3>2. Deactivate(activeKeyId, <<k, m>>)
      BY <1>6, <2>2 DEF RotateKey
    <3>3. QED
      BY <1>4, <2>1, <3>1, <3>2
  <2>3. CASE ~HasOld
    <3>1. Spares(Activation(k, m), s)
      BY <2>1 DEF Activation, Set
    <3>2. QED
      BY <1>1, <1>6, <2>1, <2>3, <3>1, KeyCommands DEF RotateKey
  <2>4. QED
    BY <2>2, <2>3
<1>7. CASE Initialize
  <2>1. Spares(List, s)
    BY DEF List
  <2>2. QED
    BY <1>1, <1>7, <2>1, KeyCommands DEF Initialize
<1>8. QED
  BY <1>2, <1>3, <1>5, <1>6, <1>7

LEMMA AnswerSealed ==
    ASSUME EncryptionAssumption, SealedInv, NEW s \in sealed',
           SetAnswered \/ DelAnswered \/ KeysAnswered \/ \E executed \in BOOLEAN : KeyRejected(executed)
    PROVE  CanDecrypt(s)' /\ \A n \in DOMAIN keyWire' : Spares(keyWire'[n], s)
<1> DEFINE c == Head(keyWire)
<1>1. keyWire \in Seq(KeyCommandType) /\ keyWire # <<>>
  BY DEF SealedInv, KeyTypeOK, SetAnswered, DelAnswered, KeysAnswered, KeyRejected
<1>2. s \in sealed
  BY DEF SetAnswered, DelAnswered, KeysAnswered, KeyRejected, keyHistory
<1>3. CanDecrypt(s) /\ (\A n \in DOMAIN keyWire : Spares(keyWire[n], s)) /\ Spares(c, s)
  <2>1. 1 \in DOMAIN keyWire /\ Head(keyWire) = keyWire[1]
    BY <1>1, Shifted
  <2>2. QED
    BY <1>2, <2>1 DEF SealedInv
<1>4. \A n \in DOMAIN Tail(keyWire) : Spares(Tail(keyWire)[n], s)
  BY <1>1, <1>3, Shifted
<1>5. ASSUME NEW d \in KeyCommandType, Spares(d, s), keyWire' = Append(Tail(keyWire), d)
      PROVE  \A n \in DOMAIN keyWire' : Spares(keyWire'[n], s)
  BY <1>1, <1>3, <1>5, Shifted
<1>6. c \in KeyCommandType
  BY <1>1, Shifted
<1>7. CASE SetAnswered
  <2>1. c \in SetType
    BY <1>6, <1>7, KeyCommandFields DEF SetAnswered
  <2>2. c.id \in KeyIds /\ c.key \in Key /\ c.key # NoKey /\ c.new \in (KeyIds \X Materials) \union {NoKey}
    BY <2>1 DEF SetType, EncryptionAssumption
  <2>3. CanDecrypt(s)'
    BY <1>3, <1>7, <2>2 DEF SetAnswered, Cached, CanDecrypt, Spares, SealedInv, KeyTypeOK
  <2>4. CASE c.new = NoKey
    BY <1>4, <1>7, <2>3, <2>4 DEF SetAnswered
  <2>5. CASE c.new # NoKey
    <3>1. Activation(c.new[1], c.new[2]) \in KeyCommandType
      BY <2>2, <2>5, KeyCommands
    <3>2. Spares(Activation(c.new[1], c.new[2]), s)
      BY <1>3, <1>7, <2>5 DEF Spares, Activation, Set, SetAnswered
    <3>3. keyWire' = Append(Tail(keyWire), Activation(c.new[1], c.new[2]))
      BY <1>7, <2>5 DEF SetAnswered
    <3>4. QED
      BY <1>5, <2>3, <3>1, <3>2, <3>3
  <2>6. QED
    BY <2>4, <2>5
<1>8. CASE DelAnswered
  <2>1. c.id # s[1]
    BY <1>3, <1>8 DEF DelAnswered, Spares
  <2>2. CanDecrypt(s)'
    BY <1>3, <1>8, <2>1 DEF DelAnswered, CanDecrypt, SealedInv, KeyTypeOK
  <2>3. QED
    BY <1>4, <1>8, <2>2 DEF DelAnswered
<1>9. CASE KeysAnswered
  <2>1. CanDecrypt(s)'
    BY <1>3, <1>9 DEF KeysAnswered, CanDecrypt
  <2>2. ASSUME NEW todo, NEW first, NEW k \in todo, NEW d, d = ReadKey(k, todo, first) PROVE Spares(d, s)
    BY <2>2 DEF ReadKey, Spares
  <2>3. \/ keyWire' = Tail(keyWire)
        \/ \E d \in KeyCommandType : Spares(d, s) /\ keyWire' = Append(Tail(keyWire), d)
    <3>1. ASSUME NEW todo \in SUBSET KeyIds, NEW first \in KeyIds \union {NoKey}, ContinueLoad(todo, first)
          PROVE  \/ keyWire' = Tail(keyWire)
                 \/ \E d \in KeyCommandType : Spares(d, s) /\ keyWire' = Append(Tail(keyWire), d)
      BY <2>2, <3>1, KeyCommands DEF ContinueLoad
    <3>2. KeyTypeOK
      BY DEF SealedInv
    <3>3. QED
      BY <1>6, <1>9, <3>1, <3>2, AnswerLoads
  <2>4. QED
    BY <1>4, <1>5, <2>1, <2>3
<1>10. ASSUME NEW executed \in BOOLEAN, KeyRejected(executed)
       PROVE  CanDecrypt(s)' /\ \A n \in DOMAIN keyWire' : Spares(keyWire'[n], s)
  BY <1>3, <1>4, <1>10 DEF KeyRejected, CanDecrypt
<1>11. QED
  BY <1>7, <1>8, <1>9, <1>10

LEMMA SealedStep == ASSUME EncryptionAssumption, SealedInv, [KeyNext]_keyVars PROVE SealedInv'
<1>1. KeyTypeOK'
  BY KeyTypeStep DEF SealedInv
<1> SUFFICES ASSUME NEW s \in sealed'
             PROVE  CanDecrypt(s)' /\ \A n \in DOMAIN keyWire' : Spares(keyWire'[n], s)
  BY <1>1 DEF SealedInv
<1>2. CASE Encrypt
  <2>1. UNCHANGED <<keysCache, keyWire>>
    BY <1>2 DEF Encrypt
  <2>2. CASE s \in sealed
    BY <2>1, <2>2 DEF SealedInv, CanDecrypt
  <2>3. CASE s \notin sealed
    <3>1. s = Seal(activeKeyId) /\ HasOld /\ ~Replacing(activeKeyId)
      BY <1>2, <2>3 DEF Encrypt
    <3>2. s[1] = activeKeyId /\ s[2] = keysCache[activeKeyId].material
      BY <3>1 DEF Seal
    <3>3. CanDecrypt(s)'
      BY <2>1, <3>1, <3>2 DEF CanDecrypt, HasOld
    <3>4. \A n \in DOMAIN keyWire : Spares(keyWire[n], s)
      BY <3>1, <3>2 DEF Replacing, Spares
    <3>5. QED
      BY <2>1, <3>3, <3>4
  <2>4. QED
    BY <2>2, <2>3
<1>3. CASE Restart
  BY <1>3 DEF Restart
<1>4. CASE UNCHANGED keyVars
  BY <1>4 DEF keyVars, keyHistory, SealedInv, CanDecrypt
<1>5. QED
  BY <1>2, <1>3, <1>4, CallSealed, AnswerSealed DEF KeyNext

\* What was encrypted can be decrypted, for any number of keys, materials and commands in
\* flight, until a caller removes or replaces the key (encryption.manager.ts:114-162).
THEOREM ReadBackAlways == ASSUME EncryptionAssumption PROVE KeySpec => []ReadBack
<1>1. SealedInv /\ [KeyNext]_keyVars => SealedInv'
  BY SealedStep
<1>2. SealedInv => ReadBack
  BY DEF SealedInv, ReadBack
<1>3. QED
  BY <1>1, <1>2, SealedInit, PTL DEF KeySpec

\* What TidyInv says of a state, but for its type.
Tidy ==
    /\ \A k \in KeyIds : ActiveKey(k) => k = activeKeyId /\ keysCache[k] # NoKey
    /\ \A n \in DOMAIN keyWire : Orderly(n)

LEMMA TidyInit == ASSUME EncryptionAssumption PROVE KeyInit => TidyInv
  BY KeyTypeInit DEF KeyInit, TidyInv, ActiveKey

LEMMA FirstCommand ==
    ASSUME NEW c \in KeyCommandType, SendKey(c), keyWire = <<>>
    PROVE  /\ keyWire' = <<c>> /\ DOMAIN keyWire' = {1} /\ keyWire'[1] = c
           /\ UNCHANGED <<keys, activeKeyId>>
<1>1. keyWire' = <<c>> /\ UNCHANGED <<keys, activeKeyId>>
  BY DEF SendKey
<1>2. QED
  BY <1>1

LEMMA CallTidy ==
    ASSUME EncryptionAssumption, KeyTypeOK, Tidy, tidy',
           \E k \in KeyIds :
              \/ \E key \in Key : AddKey(k, key)
              \/ \E m \in Materials : RotateKey(k, m)
              \/ RemoveKey(k) \/ DeactivateKey(k)
    PROVE  Tidy'
<1> USE DEF Orderly
<1>1. ASSUME NEW c \in KeyCommandType, SendKey(c), keyWire = <<>>,
             \A k \in KeyIds : keysCache[k] # NoKey => keysCache'[k] # NoKey,
             \/ c.op = "set" /\ ~c.activate /\ ~c.key.active /\ (c.new # NoKey => c.id = activeKeyId)
             \/ c.op = "set" /\ c.activate /\ c.key.active /\ c.new = NoKey /\ \A k \in KeyIds : ~ActiveKey(k)
             \/ c.op = "del"
      PROVE  Tidy'
  <2>1. DOMAIN keyWire' = {1} /\ keyWire'[1] = c /\ UNCHANGED <<keys, activeKeyId>>
    BY <1>1, FirstCommand
  <2>2. \A k \in KeyIds : ActiveKey(k)' <=> ActiveKey(k)
    BY <2>1 DEF ActiveKey
  <2>3. QED
    BY <1>1, <2>1, <2>2 DEF Tidy
<1>2. ASSUME NEW k \in KeyIds, NEW key \in Key, AddKey(k, key)
      PROVE  Tidy'
  <2>1. keyWire = <<>> /\ ~key.active /\ SendKey(Set(k, key, NoKey, FALSE)) /\ UNCHANGED keysCache
    BY <1>2 DEF AddKey
  <2>2. Set(k, key, NoKey, FALSE) \in KeyCommandType
    BY KeyCommands
  <2>3. QED
    BY <1>1, <2>1, <2>2 DEF Set
<1>3. ASSUME NEW k \in KeyIds, RemoveKey(k)
      PROVE  Tidy'
  <2>1. keyWire = <<>> /\ SendKey(Del(k)) /\ UNCHANGED keysCache
    BY <1>3 DEF RemoveKey
  <2>2. QED
    BY <1>1, <2>1, KeyCommands DEF Del
<1>4. ASSUME NEW k \in KeyIds, keysCache[k] # NoKey, NEW new \in (KeyIds \X Materials) \union {NoKey},
             Deactivate(k, new), keyWire = <<>>, new # NoKey => k = activeKeyId
      PROVE  Tidy'
  <2>1. Inactive(k) \in Key /\ ~Inactive(k).active /\ Inactive(k) # NoKey
    BY <1>4, InactiveKey
  <2>2. Set(k, Inactive(k), new, FALSE) \in KeyCommandType
    BY <1>4, <2>1, KeyCommands
  <2>3. \A j \in KeyIds : keysCache[j] # NoKey => keysCache'[j] # NoKey
    BY <1>4, <2>1 DEF Deactivate, KeyTypeOK
  <2>4. QED
    BY <1>1, <1>4, <2>1, <2>2, <2>3 DEF Deactivate, Set
<1>5. ASSUME NEW k \in KeyIds, DeactivateKey(k)
      PROVE  Tidy'
  BY <1>4, <1>5 DEF DeactivateKey
<1>6. ASSUME NEW k \in KeyIds, NEW m \in Materials, RotateKey(k, m)
      PROVE  Tidy'
  <2>1. keyWire = <<>>
    BY <1>6 DEF RotateKey
  <2>2. CASE HasOld
    <3>1. activeKeyId \in KeyIds /\ keysCache[activeKeyId] # NoKey
      BY <2>2 DEF HasOld, KeyTypeOK
    <3>2. Deactivate(activeKeyId, <<k, m>>)
      BY <1>6, <2>2 DEF RotateKey
    <3>3. QED
      BY <1>4, <2>1, <3>1, <3>2
  <2>3. CASE ~HasOld
    <3>1. SendKey(Activation(k, m)) /\ UNCHANGED keysCache
      BY <1>6, <2>3 DEF RotateKey
    <3>2. \A j \in KeyIds : ~ActiveKey(j)
      BY <2>3 DEF HasOld, Tidy, EncryptionAssumption
    <3>3. Activation(k, m) \in KeyCommandType
      BY KeyCommands
    <3>4. QED
      BY <1>1, <2>1, <3>1, <3>2, <3>3 DEF Activation, Set
  <2>4. QED
    BY <2>2, <2>3
<1>7. QED
  BY <1>2, <1>3, <1>5, <1>6

LEMMA InitializeTidy == ASSUME KeyTypeOK, Tidy, Initialize PROVE Tidy'
<1>1. /\ keyWire \in Seq(KeyCommandType) /\ keyWire' = Append(keyWire, List)
      /\ UNCHANGED <<keys, keysCache, activeKeyId>>
  BY DEF KeyTypeOK, Initialize, SendKey
<1>2. /\ keyWire' \in Seq(KeyCommandType) /\ Len(keyWire') = Len(keyWire) + 1
      /\ Len(keyWire) \in Nat /\ DOMAIN keyWire = 1..Len(keyWire)
      /\ \A n \in 1..Len(keyWire) : keyWire'[n] = keyWire[n]
      /\ keyWire'[Len(keyWire) + 1] = List
  BY <1>1, Sequence, KeyCommands
<1>3. DOMAIN keyWire' = 1..(Len(keyWire) + 1)
  BY <1>2, Sequence
<1>4. \A n \in DOMAIN keyWire' : \/ n \in DOMAIN keyWire /\ keyWire'[n] = keyWire[n]
                                 \/ n = Len(keyWire) + 1 /\ keyWire'[n].op = "keys"
  BY <1>2, <1>3 DEF List
<1>5. \A k \in KeyIds : ActiveKey(k)' <=> ActiveKey(k)
  BY <1>1 DEF ActiveKey
<1>6. ASSUME NEW n \in DOMAIN keyWire' PROVE Orderly(n)'
  <2>1. CASE n \in DOMAIN keyWire /\ keyWire'[n] = keyWire[n]
    <3>1. Orderly(n)
      BY <2>1 DEF Tidy
    <3>2. QED
      BY <1>1, <1>4, <1>5, <2>1, <3>1 DEF Orderly
  <2>2. CASE keyWire'[n].op = "keys"
    BY <2>2 DEF Orderly
  <2>3. QED
    BY <1>4, <2>1, <2>2
<1>7. QED
  BY <1>1, <1>5, <1>6 DEF Tidy

LEMMA AnswerTidy ==
    ASSUME EncryptionAssumption, KeyTypeOK, Tidy, SetAnswered \/ DelAnswered \/ KeysAnswered
    PROVE  Tidy'
<1> DEFINE c == Head(keyWire)
<1>1. keyWire \in Seq(KeyCommandType) /\ keyWire # <<>>
  BY DEF KeyTypeOK, SetAnswered, DelAnswered, KeysAnswered
<1>2. 1 \in DOMAIN keyWire /\ c = keyWire[1] /\ c \in KeyCommandType
  BY <1>1, Shifted
<1>3. Orderly(1)
  BY <1>2 DEF Tidy
<1>4. ASSUME keyWire' = Tail(keyWire), NEW n \in DOMAIN keyWire'
      PROVE  n \in Nat /\ n + 1 \in DOMAIN keyWire \ {1} /\ keyWire'[n] = keyWire[n + 1]
  BY <1>1, <1>4, Shifted
<1>5. ASSUME NEW d \in KeyCommandType, keyWire' = Append(Tail(keyWire), d), NEW n \in DOMAIN keyWire'
      PROVE  /\ n \in Nat
             /\ \/ n + 1 \in DOMAIN keyWire \ {1} /\ keyWire'[n] = keyWire[n + 1]
                \/ n = Len(keyWire) /\ keyWire'[n] = d
  BY <1>1, <1>5, Shifted
<1>6. CASE SetAnswered
  <2>1. c \in SetType
    BY <1>2, <1>6, KeyCommandFields DEF SetAnswered
  <2>2. /\ c.id \in KeyIds /\ c.key \in Key /\ c.key # NoKey /\ c.new \in (KeyIds \X Materials) \union {NoKey}
        /\ c.op = "set" /\ c.activate \in BOOLEAN
    BY <2>1 DEF SetType, EncryptionAssumption
  <2>3. \A k \in KeyIds : /\ keysCache[k] # NoKey => keysCache'[k] # NoKey
                          /\ ActiveKey(k)' => (ActiveKey(k) /\ k # c.id) \/ (k = c.id /\ c.key.active)
    <3>1. keys' = [keys EXCEPT ![c.id] = c.key] /\ keysCache' = [keysCache EXCEPT ![c.id] = c.key]
      BY <1>6 DEF SetAnswered, Cached
    <3>2. \A k \in KeyIds : /\ keysCache'[k] = IF k = c.id THEN c.key ELSE keysCache[k]
                            /\ keys'[k] = IF k = c.id THEN c.key ELSE keys[k]
      BY <2>2, <3>1 DEF KeyTypeOK
    <3>3. ASSUME NEW k \in KeyIds, ActiveKey(k)' PROVE (ActiveKey(k) /\ k # c.id) \/ (k = c.id /\ c.key.active)
      <4>1. keys'[k].active
        BY <3>3 DEF ActiveKey
      <4>2. k = c.id => keys'[k] = c.key
        BY <3>2
      <4>3. k = c.id => c.key.active
        BY Zenon, <4>1, <4>2
      <4>4. k # c.id => ActiveKey(k)
        BY <3>2, <3>3 DEF ActiveKey
      <4>5. QED
        BY <4>3, <4>4
    <3>4. QED
      BY <2>2, <3>2, <3>3
  <2>7. keysCache'[c.id] # NoKey
    BY <1>6, <2>2 DEF SetAnswered, Cached, KeyTypeOK
  <2>4. CASE c.activate
    <3>1. c.key.active /\ c.new = NoKey /\ \A k \in KeyIds : ~ActiveKey(k)
      BY <1>2, <1>3, <2>2, <2>4 DEF Orderly
    <3>2. keyWire' = Tail(keyWire) /\ activeKeyId' = c.id
      BY <1>6, <2>4, <3>1 DEF SetAnswered
    <3>3. ASSUME NEW n \in DOMAIN keyWire' PROVE Orderly(n)'
      <4>1. \/ keyWire'[n].op = "keys"
            \/ keyWire'[n].op = "get" /\ keyWire'[n].first = NoKey
        BY <1>2, <1>3, <1>4, <2>2, <3>2 DEF Orderly
      <4>2. QED
        BY <4>1 DEF Orderly
    <3>4. QED
      BY <2>2, <2>3, <2>7, <3>1, <3>2, <3>3 DEF Tidy
  <2>5. CASE ~c.activate
    <3>1. ~c.key.active /\ (c.new # NoKey => c.id = activeKeyId)
      BY <1>2, <1>3, <2>2, <2>5 DEF Orderly
    <3>2. \A m \in DOMAIN keyWire \ {1} : keyWire[m].op = "keys"
      BY <1>2, <1>3, <2>2, <2>5 DEF Orderly
    <3>3. activeKeyId' = activeKeyId
      BY <1>6, <2>5 DEF SetAnswered
    <3>4. \A k \in KeyIds : ActiveKey(k)' => k = activeKeyId' /\ keysCache'[k] # NoKey
      BY <2>2, <2>3, <3>1, <3>3 DEF Tidy
    <3>5. CASE c.new = NoKey
      <4>1. keyWire' = Tail(keyWire)
        BY <1>6, <3>5 DEF SetAnswered
      <4>2. \A n \in DOMAIN keyWire' : keyWire'[n].op = "keys"
        BY <1>4, <3>2, <4>1
      <4>3. QED
        BY <3>4, <4>2 DEF Tidy, Orderly
    <3>6. CASE c.new # NoKey
      <4> DEFINE d == Activation(c.new[1], c.new[2])
      <4>1. d \in KeyCommandType /\ d.op = "set" /\ d.activate /\ d.key.active /\ d.new = NoKey
        BY <2>2, <3>6, KeyCommands DEF Activation, Set
      <4>2. keyWire' = Append(Tail(keyWire), d)
        BY <1>6, <3>6 DEF SetAnswered
      <4>3. \A k \in KeyIds : ~ActiveKey(k)'
        BY <2>2, <2>3, <3>1, <3>6 DEF Tidy
      <4> HIDE DEF d
      <4>4. \A n \in DOMAIN keyWire' : keyWire'[n].op = "keys" \/ (n = Len(keyWire) /\ keyWire'[n] = d)
        BY <1>5, <3>2, <4>1, <4>2
      <4>5. \A n \in DOMAIN keyWire' : Orderly(n)'
        BY <4>1, <4>3, <4>4 DEF Orderly
      <4>6. QED
        BY <3>4, <4>5 DEF Tidy
    <3>7. QED
      BY <3>5, <3>6
  <2>6. QED
    BY <2>4, <2>5
<1>7. CASE DelAnswered
  <2>1. c.op = "del" /\ keyWire' = Tail(keyWire) /\ activeKeyId' = activeKeyId
    BY <1>7 DEF DelAnswered
  <2>2. \A n \in DOMAIN keyWire' : keyWire'[n].op = "keys"
    BY <1>2, <1>3, <1>4, <2>1 DEF Orderly
  <2>3. \A k \in KeyIds : ActiveKey(k)' => ActiveKey(k) /\ keysCache'[k] = keysCache[k]
    BY <1>7 DEF DelAnswered, KeyTypeOK, ActiveKey
  <2>4. QED
    BY <2>1, <2>2, <2>3 DEF Tidy, Orderly
<1>8. CASE KeysAnswered
  <2>1. c.op \in {"keys", "get"} /\ UNCHANGED <<keys, keysCache>>
    BY <1>8 DEF KeysAnswered
  <2>2. \A k \in KeyIds : ActiveKey(k)' <=> ActiveKey(k)
    BY <2>1 DEF ActiveKey
  <2>3. PICK todo \in SUBSET KeyIds, first \in {NoKey, activeKeyId} :
           /\ ContinueLoad(todo, first)
           /\ \A m \in DOMAIN keyWire \ {1} : keyWire[m].op = "set" => first = NoKey
    <3>1. CASE c.op = "keys"
      BY <1>8, <3>1 DEF KeysAnswered
    <3>2. CASE c.op = "get"
      <4>1. c.todo \in SUBSET KeyIds /\ c.first \in {NoKey, activeKeyId} /\ c.id \in KeyIds
        BY <1>2, <1>3, <3>2, KeyCommandFields DEF GetType, Orderly
      <4> DEFINE first == IF c.first = NoKey /\ keys[c.id] # NoKey /\ keys[c.id].active THEN c.id ELSE c.first
      <4>2. first \in {NoKey, activeKeyId} /\ (first # NoKey => c.first # NoKey \/ ActiveKey(c.id))
        BY <4>1 DEF Tidy, ActiveKey
      <4>3. ContinueLoad(c.todo, first)
        BY <1>8, <3>2 DEF KeysAnswered
      <4> HIDE DEF first
      <4>4. ASSUME NEW m \in DOMAIN keyWire \ {1}, keyWire[m].op = "set" PROVE first = NoKey
        <5>1. Orderly(m) /\ m # 1 /\ 1 \in DOMAIN keyWire \ {m}
          BY <1>2, <4>4 DEF Tidy
        <5>2. keyWire[m].activate
          BY <4>4, <5>1 DEF Orderly
        <5>3. \A k \in KeyIds : ~ActiveKey(k)
          BY <4>4, <5>1, <5>2 DEF Orderly
        <5>4. c.first = NoKey
          BY <1>2, <3>2, <4>4, <5>1 DEF Orderly
        <5>5. QED
          BY <4>1, <4>2, <5>3, <5>4
      <4>5. QED
        BY <4>1, <4>2, <4>3, <4>4
    <3>3. QED
      BY <2>1, <3>1, <3>2
  <2>4. /\ activeKeyId' = activeKeyId
        /\ \/ keyWire' = Tail(keyWire)
           \/ \E k \in todo : keyWire' = Append(Tail(keyWire), ReadKey(k, todo, first))
    BY <2>3 DEF ContinueLoad
  <2>5. ASSUME NEW n \in DOMAIN keyWire'
        PROVE  \/ n \in Nat /\ n + 1 \in DOMAIN keyWire \ {1} /\ keyWire'[n] = keyWire[n + 1]
               \/ keyWire'[n].op = "get" /\ keyWire'[n].first = first
    <3>1. ASSUME NEW k \in todo, keyWire' = Append(Tail(keyWire), ReadKey(k, todo, first))
          PROVE  \/ n \in Nat /\ n + 1 \in DOMAIN keyWire \ {1} /\ keyWire'[n] = keyWire[n + 1]
                 \/ keyWire'[n].op = "get" /\ keyWire'[n].first = first
      <4>1. first \in KeyIds \union {NoKey}
        BY DEF KeyTypeOK
      <4>2. ReadKey(k, todo, first) \in KeyCommandType
        BY <4>1, KeyCommands
      <4>3. ReadKey(k, todo, first).op = "get" /\ ReadKey(k, todo, first).first = first
        BY DEF ReadKey
      <4>4. QED
        BY <1>5, <3>1, <4>2, <4>3
    <3>2. QED
      BY <1>4, <2>4, <3>1
  <2>6. ASSUME NEW n \in DOMAIN keyWire' PROVE Orderly(n)'
    <3>1. CASE n \in Nat /\ n + 1 \in DOMAIN keyWire \ {1} /\ keyWire'[n] = keyWire[n + 1]
      <4>1. Orderly(n + 1) /\ n + 1 # 1
        BY <3>1 DEF Tidy
      <4>2. keyWire[n + 1].op # "del" /\ (keyWire[n + 1].op = "set" => keyWire[n + 1].activate)
        BY <4>1 DEF Orderly
      <4>3. CASE keyWire[n + 1].op = "set"
        <5>1. first = NoKey
          BY <2>3, <3>1, <4>3
        <5>2. ASSUME NEW m \in DOMAIN keyWire' \ {n}
              PROVE  keyWire'[m].op = "keys" \/ (keyWire'[m].op = "get" /\ keyWire'[m].first = NoKey)
          <6>1. CASE m \in Nat /\ m + 1 \in DOMAIN keyWire \ {1} /\ keyWire'[m] = keyWire[m + 1]
            <7>1. m + 1 \in DOMAIN keyWire \ {n + 1}
              BY <3>1, <6>1
            <7>2. QED
              BY <4>1, <4>3, <6>1, <7>1 DEF Orderly
          <6>2. QED
            BY <2>5, <5>1, <6>1
        <5>3. keyWire'[n].op = "set" /\ keyWire'[n].activate
          BY <3>1, <4>2, <4>3
        <5>4. keyWire[n + 1].key.active /\ keyWire[n + 1].new = NoKey /\ \A k \in KeyIds : ~ActiveKey(k)
          BY <4>1, <4>2, <4>3 DEF Orderly
        <5>5. keyWire'[n].key.active /\ keyWire'[n].new = NoKey /\ \A k \in KeyIds : ~ActiveKey(k)'
          BY <2>2, <3>1, <5>4
        <5>6. QED
          BY <5>2, <5>3, <5>5 DEF Orderly
      <4>4. CASE keyWire[n + 1].op # "set"
        <5>1. keyWire'[n].op \notin {"set", "del"}
          BY <3>1, <4>2, <4>4
        <5>2. keyWire'[n].op = "get" => keyWire'[n].first \in {NoKey, activeKeyId'}
          BY <2>4, <3>1, <4>1 DEF Orderly
        <5>3. QED
          BY <5>1, <5>2 DEF Orderly
      <4>5. QED
        BY <4>3, <4>4
    <3>2. CASE keyWire'[n].op = "get" /\ keyWire'[n].first = first
      BY <2>4, <3>2 DEF Orderly
    <3>3. QED
      BY <2>5, <3>1, <3>2
  <2>7. QED
    BY <2>1, <2>2, <2>4, <2>6 DEF Tidy
<1>9. QED
  BY <1>6, <1>7, <1>8

LEMMA TidyStep == ASSUME EncryptionAssumption, TidyInv, [KeyNext]_keyVars PROVE TidyInv'
<1>1. KeyTypeOK /\ KeyTypeOK'
  BY KeyTypeStep DEF TidyInv
<1> SUFFICES ASSUME tidy' PROVE Tidy'
  BY <1>1 DEF TidyInv, Tidy
<1>2. tidy
  <2>1. ~Restart /\ \A executed \in BOOLEAN : ~KeyRejected(executed)
    BY DEF Restart, KeyRejected, KeyFault
  <2>2. QED
    BY <2>1 DEF KeyNext, AddKey, RotateKey, RemoveKey, DeactivateKey, Encrypt, Initialize,
                SetAnswered, DelAnswered, KeysAnswered, keyVars, keyHistory
<1>3. Tidy
  BY <1>2 DEF TidyInv, Tidy
<1>4. CASE Encrypt \/ UNCHANGED keyVars
  <2>1. UNCHANGED <<keys, keysCache, activeKeyId, keyWire>>
    BY <1>4 DEF Encrypt, keyVars
  <2>2. QED
    BY <1>3, <2>1 DEF Tidy, ActiveKey, Orderly
<1>5. ~Restart /\ \A executed \in BOOLEAN : ~KeyRejected(executed)
  BY DEF Restart, KeyRejected, KeyFault
<1>6. QED
  BY <1>1, <1>3, <1>4, <1>5, CallTidy, InitializeTidy, AnswerTidy DEF KeyNext

\* Rotations that do not overlap leave one active key, for any number of keys and whatever
\* loads go on meanwhile (encryption.manager.ts:199-214).
THEOREM OneActiveAlways == ASSUME EncryptionAssumption PROVE KeySpec => []OneActive
<1>1. TidyInv /\ [KeyNext]_keyVars => TidyInv'
  BY TidyStep
<1>2. ASSUME TidyInv PROVE OneActive
  <2> SUFFICES ASSUME tidy PROVE Cardinality({k \in KeyIds : ActiveKey(k)}) <= 1
    BY DEF OneActive, ActiveKey
  <2>1. CASE \A k \in KeyIds : ~ActiveKey(k)
    <3>1. {k \in KeyIds : ActiveKey(k)} = {}
      BY <2>1
    <3>2. QED
      BY <3>1, FS_EmptySet
  <2>2. CASE \E k \in KeyIds : ActiveKey(k)
    <3>1. {k \in KeyIds : ActiveKey(k)} = {activeKeyId}
      BY <1>2, <2>2 DEF TidyInv
    <3>2. QED
      BY <3>1, FS_Singleton
  <2>3. QED
    BY <2>1, <2>2
<1>3. QED
  BY <1>1, <1>2, TidyInit, PTL DEF KeySpec

-----------------------------------------------------------------------------
(***************************************************************************)
(* MCManagers: what a manager does never depends on the others.  A step of *)
(* the composition is, for each of them, a step of its own or none, so     *)
(* that each keeps all it promises beside the others.                      *)
(***************************************************************************)
Assumptions ==
    /\ CachedStoreAssumption /\ AccessControlAssumption /\ EncryptionAssumption
    /\ JobChainAssumption /\ GlobalAssumption /\ PatternsAssumption

LEMMA NoLetters == PatternsAssumption => << <<>>, <<>> >> \in QueueNames \X QueuePatterns
<1> SUFFICES ASSUME PatternsAssumption PROVE <<>> \in QueueNames /\ <<>> \in QueuePatterns
  OBVIOUS
<1>1. 0 \in 0..MaxLength
  BY DEF PatternsAssumption
<1>2. <<>> \in [1..0 -> Letters] /\ <<>> \in [1..0 -> Letters \union {Star}]
  OBVIOUS
<1>3. [1..0 -> Letters] \in {[1..n -> Letters] : n \in 0..MaxLength}
  BY <1>1
<1>4. [1..0 -> Letters \union {Star}] \in {[1..n -> Letters \union {Star}] : n \in 0..MaxLength}
  BY <1>1
<1>5. QED
  BY <1>2, <1>3, <1>4 DEF QueueNames, QueuePatterns

LEMMA ManagersBegin ==
    ASSUME Assumptions, ManagersInit
    PROVE  PatternsInit /\ Init /\ AclInit /\ KeyInit /\ ChainInit /\ GlobalInit
  BY NoLetters DEF Assumptions, ManagersInit, PatternsInit

LEMMA ManagersStep ==
    ASSUME [ManagersNext]_managerVars
    PROVE  /\ question' = question /\ [Next]_vars /\ [AclNext]_aclVars /\ [KeyNext]_keyVars
           /\ [ChainNext]_chainVars /\ [GlobalNext]_globalVars
<1>1. CASE Tenants
  BY <1>1 DEF Tenants
<1>2. CASE Access
  BY <1>2 DEF Access
<1>3. CASE KeyRing
  BY <1>3 DEF KeyRing
<1>4. CASE Workflows
  BY <1>4 DEF Workflows, ChainNext
<1>5. CASE Jobs
  <2>1. UNCHANGED <<question, vars, aclVars, keyVars, chainVars>>
    BY <1>5 DEF Jobs
  <2>2. (\E r \in Regions : FailoverTo(r)) => Outside
    BY DEF Outside
  <2>3. (\E a \in Adders : Call(a)) => JobStep
    BY DEF JobStep
  <2>4. JobStep \/ CloseStep \/ Outside
    BY <1>5, <2>2, <2>3 DEF Jobs
  <2>5. QED
    BY <2>1, <2>4 DEF GlobalNext
<1>6. CASE UNCHANGED managerVars
  BY <1>6 DEF managerVars
<1>7. QED
  BY <1>1, <1>2, <1>3, <1>4, <1>5, <1>6 DEF ManagersNext

\* Tenants, principals, keys, workflows, the regions' jobs and the access patterns, side by
\* side in one process and on one Redis: the values their variables take, and everything
\* each of them promises, hold in every behaviour of them all (access-control.manager.ts,
\* encryption.manager.ts, job-chain.manager.ts, global-queue.manager.ts).
THEOREM ManagersKeepTheirs ==
    ASSUME Assumptions
    PROVE  ManagersSpec =>
              /\ [](TypesOK /\ CacheAgrees /\ UpdatesKept /\ ChecksAreCurrent /\ PatternsMatch)
              /\ [](ReadBack /\ OneActive /\ LastCallStands)
              /\ Replicated
<1> DEFINE Brought(a) ==
              adds[a].pc # "idle" /\ adds'[a].pc = "idle" =>
                 \A r \in adds[a].asked :
                    /\ a \in clean' => ReplicationStatus(adds[a].id)[r] = "replicated"
                    /\ adds[a].pc = "copy" => lost \/ jobs[r][adds[a].id] = adds[a].job
<1> USE DEF Assumptions
<1>1. ManagersInit => /\ PatternsInit /\ Init /\ AclInit /\ KeyInit
                      /\ ChainTypeOK /\ FlowInv /\ CallsKnow /\ CopyInv /\ AclInv
  <2>1. ChainInit => FlowInv
    BY ChainTypeInit DEF ChainInit, FlowInv
  <2>2. QED
    BY <2>1, ManagersBegin, ChainTypeInit, CallsKnowInit, CopyInvInit, AclInvInit
<1>2. [ManagersNext]_managerVars => /\ [FALSE]_question /\ [Next]_vars /\ [AclNext]_aclVars /\ [KeyNext]_keyVars
                                    /\ [ChainNext]_chainVars /\ [GlobalNext]_globalVars
  BY ManagersStep
<1>3. FlowInv /\ [ChainNext]_chainVars => FlowInv'
  BY FlowInvStep
<1>4. CopyInv /\ [GlobalNext]_globalVars => CopyInv'
  BY CopyInvStep
<1>5. AclInv /\ [AclNext]_aclVars => AclInv'
  BY AclInvStep
<1>6. CopyInv /\ [GlobalNext]_globalVars => [\A a \in Adders : Brought(a)]_globalVars
  BY ReplicatedAtLast
<1>7. TypeOK /\ AclInv /\ KeyTypeOK /\ FlowInv /\ CopyInv => TypesOK /\ LastCallStands /\ ChecksAreCurrent
  BY DEF TypesOK, AclInv, FlowInv, LastCallStands, CopyInv, CallsKnow
<1>8. ManagersSpec => PatternsSpec /\ Spec /\ AclSpec /\ KeySpec
  BY <1>1, <1>2, PTL DEF ManagersSpec, PatternsSpec, Spec, AclSpec, KeySpec
<1>9. ManagersSpec => [](FlowInv /\ CopyInv /\ AclInv) /\ Replicated
  BY <1>1, <1>2, <1>3, <1>4, <1>5, <1>6, PTL DEF ManagersSpec, Replicated
<1>10. QED
  BY <1>7, <1>8, <1>9, TypeCorrect, CacheAgreesAlways, UpdatesKeptAlways, KeyTypeCorrect, ReadBackAlways,
     OneActiveAlways, PatternsAlwaysMatch, PTL
=============================================================================
