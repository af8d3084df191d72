--------------------------- MODULE AccessControl ---------------------------
(***************************************************************************)
(* The access control entries of the class AccessControlManager of         *)
(* src/src/infrastructure/services/access-control.manager.ts: one Redis    *)
(* key per principal and pattern, and a cached list per principal.  (Its   *)
(* tenants are CachedStore.)                                               *)
(*                                                                         *)
(* As in CachedStore, commands are answered in the order they were sent.   *)
(* A load is a KEYS and then one GET after the other, so that writes of    *)
(* the same process come in between.                                       *)
(***************************************************************************)
EXTENDS Naturals, Sequences

CONSTANTS
    Principals,
    Patterns,   \* queue patterns
    Grants,     \* permissions and conditions of an entry
    Nothing,
    MaxSent,    \* bound: commands sent and not answered
    MaxRejects  \* bound: commands that reject

\* Of the constants; the models that give them values assume it.
AccessControlAssumption == Nothing \notin Grants

\* The entries of a principal.
Entries == [Patterns -> Grants \union {Nothing}]

NoEntries == [q \in Patterns |-> Nothing]

VARIABLES
    aces,     \* what Redis holds
    aclCache, \* principal -> its cached list, or Nothing
    aclWire,  \* commands sent, oldest first
    aclFaults,
    raced     \* principals written to during a load, or without the reply getting here

aclVars == <<aces, aclCache, aclWire, aclFaults, raced>>

AclInit ==
    /\ aces = [p \in Principals |-> NoEntries]
    /\ aclCache = [p \in Principals |-> Nothing]
    /\ aclWire = <<>> /\ aclFaults = 0 /\ raced = {}

\* A command: what it writes, or how far the load it belongs to has come.
Write(p, q, grant) == [op |-> "write", who |-> p, pattern |-> q, grant |-> grant]

\* The glob acl:ace:<id>:* also finds the entries of an id that goes on behind a colon, and
\* an id with glob characters those of others: here no principal is called so.
Keys(p) == [op |-> "keys", who |-> p]

Read(p, q, todo, found) ==
    [op |-> "get", who |-> p, pattern |-> q, todo |-> todo \ {q}, found |-> found]

SendAcl(c) ==
    /\ Len(aclWire) < MaxSent
    /\ aclWire' = Append(aclWire, c)
    /\ UNCHANGED <<aces, aclCache, aclFaults, raced>>

GrantAccess(p, q, grant) == SendAcl(Write(p, q, grant))

RevokeAccess(p, q) == SendAcl(Write(p, q, Nothing))

\* getPrincipalAccess, and checkAccess which calls it: a cached list answers at once.
GetPrincipalAccess(p) == aclCache[p] = Nothing /\ SendAcl(Keys(p))

\* The list with what one GET answered; a key deleted since is left out.
With(found, p, q) == [found EXCEPT ![q] = aces[p][q]]

\* The load goes on with one of the keys left, or ends in the cache.
Continue(p, todo, found) ==
    \/ /\ todo = {}
       /\ aclWire' = Tail(aclWire)
       /\ aclCache' = [aclCache EXCEPT ![p] = found]
    \/ \E q \in todo :
       /\ aclWire' = Append(Tail(aclWire), Read(p, q, todo, found))
       /\ UNCHANGED aclCache

\* A mutant that keeps a list that was loaded before.
Mutant_Keep(p) == UNCHANGED aclCache

\* aclCache.delete(principalId)
Invalidate(p) == aclCache' = [aclCache EXCEPT ![p] = Nothing]

Loading(p) == \E n \in DOMAIN aclWire : aclWire[n].who = p /\ aclWire[n].op # "write"

\* A write is answered, and the cached list goes.
WriteAnswered ==
    LET c == Head(aclWire)
    IN  /\ aclWire # <<>> /\ c.op = "write"
        /\ aces' = [aces EXCEPT ![c.who][c.pattern] = c.grant]
        /\ Invalidate(c.who)
        /\ aclWire' = Tail(aclWire)
        /\ raced' = IF Loading(c.who) THEN raced \union {c.who} ELSE raced \ {c.who}
        /\ UNCHANGED aclFaults

LoadAnswered ==
    LET c == Head(aclWire)
    IN  /\ aclWire # <<>>
        /\ \/ c.op = "keys" /\ Continue(c.who, {q \in Patterns : aces[c.who][q] # Nothing}, NoEntries)
           \/ c.op = "get" /\ Continue(c.who, c.todo, With(c.found, c.who, c.pattern))
        /\ UNCHANGED <<aces, aclFaults, raced>>

\* A command rejects.  A write may have reached Redis; a load answers with an empty
\* list and caches nothing.
Rejected(executed) ==
    LET c == Head(aclWire)
    IN  /\ aclWire # <<>> /\ aclFaults < MaxRejects
        /\ aclFaults' = aclFaults + 1
        /\ aces' = IF executed /\ c.op = "write" THEN [aces EXCEPT ![c.who][c.pattern] = c.grant]
                   ELSE aces
        /\ aclWire' = Tail(aclWire)
        /\ raced' = IF c.op = "write" THEN raced \union {c.who} ELSE raced
        /\ UNCHANGED aclCache

AclNext ==
    \/ \E p \in Principals :
          \/ GetPrincipalAccess(p)
          \/ \E q \in Patterns : RevokeAccess(p, q) \/ \E grant \in Grants : GrantAccess(p, q, grant)
    \/ WriteAnswered \/ LoadAnswered
    \/ \E executed \in BOOLEAN : Rejected(executed)

AclSpec == AclInit /\ [][AclNext]_aclVars

-----------------------------------------------------------------------------
AclCommandType ==
         [op : {"write"}, who : Principals, pattern : Patterns, grant : Grants \union {Nothing}]
  \union [op : {"keys"}, who : Principals]
  \union [op : {"get"}, who : Principals, pattern : Patterns, todo : SUBSET Patterns, found : Entries]

\* The values the variables take.
AclTypeOK ==
    /\ aces \in [Principals -> Entries]
    /\ aclCache \in [Principals -> Entries \union {Nothing}]
    /\ aclWire \in Seq(AclCommandType) /\ aclFaults \in Nat /\ raced \subseteq Principals

\* What checkAccess decides by is what is stored: a grant or a revocation (:155-194)
\* takes effect with its reply, unless a load of the principal (:243-271) was under
\* way or the reply never came.
ChecksAreCurrent ==
    \A p \in Principals \ raced : aclCache[p] # Nothing => aclCache[p] = aces[p]
=============================================================================
