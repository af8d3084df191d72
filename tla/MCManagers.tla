----------------------------- MODULE MCManagers -----------------------------
(***************************************************************************)
(* The managers that keep their state in Redis, checked in one run.  They  *)
(* share no key, no variable and no call, so that what one of them does    *)
(* never depends on another: a behaviour is chosen to be one manager's     *)
(* (subject), and the others stay as they began.                           *)
(***************************************************************************)
EXTENDS Integers, FiniteSets, CachedStore, AccessControl, Encryption, JobChain, GlobalQueue,
        Patterns

VARIABLE subject

\* The priorities of the regions.
Better(r, q) == <<r, q>> \in {<<"east", "west">>, <<"east", "north">>, <<"west", "north">>}

ASSUME /\ CachedStoreAssumption /\ AccessControlAssumption
       /\ EncryptionAssumption /\ JobChainAssumption /\ GlobalAssumption
       /\ PatternsAssumption

managerVars == <<subject, question, vars, aclVars, keyVars, chainVars, globalVars>>

ManagersInit ==
    /\ subject \in {"patterns", "tenants", "access", "keys", "restart", "flows", "jobs", "outage", "close"}
    /\ IF subject = "patterns" THEN PatternsInit
                              ELSE question = << <<>>, <<>> >>
    /\ Init /\ AclInit /\ KeyInit /\ ChainInit /\ GlobalInit
    /\ subject \notin {"jobs", "outage", "close"} =>
          refuses = TRUE /\ sync = TRUE /\ primaryRegion = "east"

Tenants ==
    subject = "tenants" /\ Next /\ UNCHANGED <<subject, question, aclVars, keyVars, chainVars, globalVars>>

Access ==
    subject = "access" /\ AclNext /\ UNCHANGED <<subject, question, vars, keyVars, chainVars, globalVars>>

\* Two commands at a time, or one, a fault and restarts.
KeyRing ==
    /\ \/ subject = "keys" /\ KeyNext /\ keyFaults' = 0
       \/ subject = "restart" /\ KeyNext /\ Len(keyWire') <= 1
    /\ UNCHANGED <<subject, question, vars, aclVars, chainVars, globalVars>>

Workflows ==
    subject = "flows" /\ FlowStep /\ UNCHANGED <<subject, question, vars, aclVars, keyVars, globalVars>>

\* Two calls at a time and a failover; one at a time with an outage too; one, an
\* outage and close.
Jobs ==
    /\ \/ subject = "jobs" /\ (JobStep \/ \E r \in Regions : FailoverTo(r))
       \/ subject = "outage" /\ (Outside \/ \E a \in Adders : Call(a))
                             /\ Cardinality({a \in Adders : adds'[a].pc # "idle"}) <= 1
       \/ subject = "close" /\ (JobStep \/ CloseStep \/ Outside)
                            /\ added' <= 1 /\ failovers' = 0
    /\ UNCHANGED <<subject, question, vars, aclVars, keyVars, chainVars>>

ManagersNext == Tenants \/ Access \/ KeyRing \/ Workflows \/ Jobs

ManagersSpec == ManagersInit /\ [][ManagersNext]_managerVars

-----------------------------------------------------------------------------
\* The values the variables take.
TypesOK ==
    TypeOK /\ AclTypeOK /\ KeyTypeOK /\ ChainTypeOK /\ GlobalTypeOK
=============================================================================
