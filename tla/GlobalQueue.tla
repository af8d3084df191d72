---------------------------- MODULE GlobalQueue ----------------------------
(***************************************************************************)
(* The class GlobalQueueManager of src/src/infrastructure/services/        *)
(* global-queue.manager.ts: one BullMQ queue per region, a primary that    *)
(* jobs are added to, their replication to the other regions, and the      *)
(* health checks that fail over to another primary.                        *)
(*                                                                         *)
(* Replication and automatic failover are enabled.  A command to a region  *)
(* that is down rejects once ioredis gives up; it may have been executed.  *)
(***************************************************************************)
EXTENDS Naturals, FiniteSets

CONSTANTS
    Regions,
    Best(_, _),  \* Best(r, q): r is tried before q: lower priority, or as good and first
    Adders,      \* addJob and replicateJob calls at a time
    CustomIds,   \* options.jobId
    NotGiven,
    MaxIds,      \* bound: ids a region generates
    MaxCalls,    \* bound: jobs added
    MaxOutages,  \* bound: regions that go down, one after the other
    MaxFailovers \* bound: failoverTo called by the user

\* Ids: the caller's, and the numbers a region counts up to.
JobIds == CustomIds \union 1..MaxIds

\* Of the constants; the models that give them values assume it.  The ids callers give are
\* no integers, and of the regions that are healthy one is first.
GlobalAssumption ==
    /\ MaxIds \in Nat /\ MaxCalls \in Nat /\ MaxOutages \in Nat /\ MaxFailovers \in Nat
    /\ \A id \in CustomIds : id \notin Nat
    /\ NotGiven \notin CustomIds /\ NotGiven \notin Nat
    /\ \A S \in (SUBSET Regions) \ {{}} : \E q \in S : \A c \in S \ {q} : Best(q, c)

VARIABLES
    up,       \* regions whose Redis answers
    jobs,     \* region -> id -> the job it holds: its number, or 0
    counter,  \* region -> its last generated id
    refuses,  \* whether BullMQ refuses a number as the id of the caller
    sync,     \* replication.mode is sync
    primaryRegion,
    openRegions, \* regions whose connection is open
    closing,  \* how far close has come
    adds,     \* adder -> its call
    checks,   \* region -> the health check of its interval
    outages,
    failovers,
    added,    \* calls so far
    clean,    \* adders whose call met no rejection and no failover
    lost      \* whether any call met one, or the primary moved to a region that counted fewer ids

globalHistory == <<clean, lost>>

queues == <<jobs, counter, added>>

bounds == <<outages, failovers>>

settings == <<refuses, sync>>

globalVars == <<up, queues, settings, primaryRegion, openRegions, closing, adds, checks, bounds, globalHistory>>

IdleAdd == [pc |-> "idle", id |-> NotGiven, job |-> 0, region |-> NotGiven, asked |-> {}, todo |-> {}]

\* steady, history: the regions that have answered all along since the regions are asked.
IdleCheck == [pc |-> "idle", todo |-> {}, healthy |-> {}, steady |-> {}]

\* A connection and a queue for every region.
InitializeRegions ==
    /\ up = Regions /\ openRegions = Regions
    /\ jobs = [r \in Regions |-> [i \in JobIds |-> 0]] /\ counter = [r \in Regions |-> 0]

\* initialize has connected the regions and chosen the primary.
GlobalInit ==
    /\ InitializeRegions
    /\ closing = "no" /\ refuses \in BOOLEAN /\ sync \in BOOLEAN
    /\ primaryRegion \in Regions
    /\ adds = [a \in Adders |-> IdleAdd] /\ checks = [r \in Regions |-> IdleCheck]
    /\ outages = 0 /\ failovers = 0 /\ added = 0
    /\ clean = Adders /\ lost = FALSE

Reachable(r) == r \in up /\ r \in openRegions

\* BullMQ's add: a region counts every add, takes its count for an id that is not
\* given whether or not a job has it, and answers a given id in use with the job there.
BullAdd(r, id, job) ==
    LET at == IF id = NotGiven THEN counter[r] + 1 ELSE id
    IN  /\ counter[r] < MaxIds /\ counter' = [counter EXCEPT ![r] = @ + 1]
        /\ jobs' = [jobs EXCEPT ![r][at] = IF id # NotGiven /\ @ # 0 THEN @ ELSE job]

Refused(id) == refuses /\ id \notin CustomIds

\* addJob: the job goes to the region that is primary now, and is then replicated to all.
AddJob(a, id) ==
    /\ adds[a].pc = "idle" /\ added < MaxCalls
    /\ added' = added + 1
    /\ adds' = [adds EXCEPT ![a] = [IdleAdd EXCEPT !.pc = "add", !.id = id, !.job = added + 1,
                                                   !.region = primaryRegion, !.asked = Regions]]
    /\ clean' = clean \union {a}
    /\ UNCHANGED <<up, jobs, counter, settings, primaryRegion, openRegions, closing, checks, bounds, lost>>

\* replicateJob, called by the user for a job that was added before, with the targetRegions
\* of the caller's.  No regions, and regions that are not configured, are passed over.
ReplicateJob(a, id, targetRegions) ==
    /\ adds[a].pc = "idle" /\ jobs[primaryRegion][id] # 0 /\ targetRegions # {}
    /\ added < MaxCalls /\ added' = added + 1
    /\ adds' = [adds EXCEPT ![a] = [IdleAdd EXCEPT !.pc = "find", !.id = id, !.region = primaryRegion,
                                                   !.asked = targetRegions]]
    /\ clean' = clean \union {a}
    /\ UNCHANGED <<up, jobs, counter, settings, primaryRegion, openRegions, closing, checks, bounds, lost>>

\* Added; getPrimaryJob then asks the region that is primary by now.
Added(a) ==
    LET x == adds[a]
    IN  /\ x.pc = "add" /\ Reachable(x.region)
        /\ BullAdd(x.region, x.id, x.job)
        /\ adds' = [adds EXCEPT ![a] = [x EXCEPT !.pc = "find", !.region = primaryRegion,
                        !.id = IF x.id = NotGiven THEN counter[x.region] + 1 ELSE x.id]]
        /\ UNCHANGED <<up, added, settings, primaryRegion, openRegions, closing, checks, bounds, globalHistory>>

\* A mutant that leaves out the first region instead of the primary one.
Mutant_Targets(x) == x.asked \ {CHOOSE r \in Regions : TRUE}

\* targetRegions without the region that is primary by now.
Targets(x) == x.asked \ {primaryRegion}

\* Found, and sent to one target after the other; or not found, and done.
Found(a) ==
    LET x == adds[a]
    IN  /\ x.pc = "find" /\ Reachable(x.region)
        /\ adds' = [adds EXCEPT ![a] = IF jobs[x.region][x.id] = 0 THEN IdleAdd
                                       ELSE [x EXCEPT !.pc = "copy", !.todo = Targets(x),
                                                      !.job = jobs[x.region][x.id]]]
        /\ UNCHANGED <<up, queues, settings, primaryRegion, openRegions, closing, checks, bounds, globalHistory>>

\* One copy: added under the same id.  In sync mode the next one waits a while.
Copy(a, r) ==
    LET x == adds[a]
    IN  /\ x.pc = "copy" /\ r \in x.todo /\ Reachable(r) /\ ~Refused(x.id)
        /\ BullAdd(r, x.id, x.job)
        /\ adds' = [adds EXCEPT ![a].todo = @ \ {r}, ![a].pc = IF sync THEN "wait" ELSE "copy"]
        /\ UNCHANGED <<up, added, settings, primaryRegion, openRegions, closing, checks, bounds, globalHistory>>

Waited(a) ==
    /\ adds[a].pc = "wait"
    /\ adds' = [adds EXCEPT ![a].pc = "copy"]
    /\ UNCHANGED <<up, queues, settings, primaryRegion, openRegions, closing, checks, bounds, globalHistory>>

\* A copy that fails is skipped in async mode and ends the replication in sync mode.
CopyFails(a, r, executed) ==
    LET x == adds[a]
    IN  /\ x.pc = "copy" /\ r \in x.todo
        /\ ~Reachable(r) \/ (Refused(x.id) /\ ~executed)
        /\ IF executed THEN BullAdd(r, x.id, x.job) ELSE UNCHANGED <<jobs, counter>>
        /\ adds' = [adds EXCEPT ![a].todo = IF sync THEN {} ELSE @ \ {r}]
        /\ clean' = clean \ {a} /\ lost' = TRUE
        /\ UNCHANGED <<up, added, settings, primaryRegion, openRegions, closing, checks, bounds>>

\* The first add, or the search, fails: addJob throws, replicateJob gives up.
AddFails(a, executed) ==
    LET x == adds[a]
    IN  /\ x.pc \in {"add", "find"} /\ ~Reachable(x.region)
        /\ IF executed /\ x.pc = "add" THEN BullAdd(x.region, x.id, x.job)
                                       ELSE UNCHANGED <<jobs, counter>>
        /\ adds' = [adds EXCEPT ![a] = IdleAdd]
        /\ clean' = clean \ {a} /\ lost' = TRUE
        /\ UNCHANGED <<up, added, settings, primaryRegion, openRegions, closing, checks, bounds>>

AddReturns(a) ==
    /\ adds[a].pc = "copy" /\ adds[a].todo = {}
    /\ adds' = [adds EXCEPT ![a] = IdleAdd]
    /\ UNCHANGED <<up, queues, settings, primaryRegion, openRegions, closing, checks, bounds, globalHistory>>

Adder(a) ==
    \/ Added(a) \/ Found(a) \/ Waited(a) \/ AddReturns(a)
    \/ \E r \in Regions : Copy(a, r) \/ \E executed \in BOOLEAN : CopyFails(a, r, executed)
    \/ \E executed \in BOOLEAN : AddFails(a, executed)

-----------------------------------------------------------------------------
\* this.primaryRegion = region
SetPrimary(r) ==
    /\ primaryRegion' = r
    /\ clean' = {a \in clean : adds[a].pc = "idle"}
    /\ lost' = (\/ lost \/ \E a \in Adders : adds[a].pc # "idle"
                \/ \E q \in Regions : counter[r] < counter[q])

FailoverTo(r) ==
    /\ failovers < MaxFailovers /\ failovers' = failovers + 1
    /\ SetPrimary(r)
    /\ UNCHANGED <<up, queues, settings, openRegions, closing, adds, checks, outages>>

\* The interval of a region fires.  Bound: one check of a region at a time.
HealthCheckTick(r) ==
    /\ checks[r].pc = "idle" /\ closing = "no"
    /\ checks' = [checks EXCEPT ![r].pc = "ping"]
    /\ UNCHANGED <<up, queues, settings, primaryRegion, openRegions, closing, adds, bounds, globalHistory>>

\* Its ping is answered, or given up; a primary that is down has every region pinged.
Pinged(r) ==
    /\ checks[r].pc = "ping"
    /\ checks' = [checks EXCEPT ![r] = IF Reachable(r) \/ r # primaryRegion THEN IdleCheck
                                       ELSE [IdleCheck EXCEPT !.pc = "probe", !.todo = Regions,
                                                              !.steady = up \intersect openRegions]]
    /\ UNCHANGED <<up, queues, settings, primaryRegion, openRegions, closing, adds, bounds, globalHistory>>

Probed(r, q) ==
    /\ checks[r].pc = "probe" /\ q \in checks[r].todo
    /\ checks' = [checks EXCEPT ![r].todo = @ \ {q},
                                ![r].healthy = IF Reachable(q) THEN @ \union {q} ELSE @]
    /\ UNCHANGED <<up, queues, settings, primaryRegion, openRegions, closing, adds, bounds, globalHistory>>

\* A mutant in which there is never a candidate.
Mutant_NoCandidate(r) == {}

\* The regions a health check found healthy, without the primary.
Candidates(r) == checks[r].healthy \ {primaryRegion}

\* A mutant that takes the first region that answers.
Mutant_FirstAnswer(r) == checks[r].healthy # {} \/ checks[r].todo = {}

\* Promise.all has every answer.
AllAnswered(r) == checks[r].todo = {}

HandleFailover(r) ==
    /\ checks[r].pc = "probe" /\ AllAnswered(r)
    /\ IF Candidates(r) = {} THEN UNCHANGED <<primaryRegion, globalHistory>>
       ELSE SetPrimary(CHOOSE q \in Candidates(r) : \A c \in Candidates(r) \ {q} : Best(q, c))
    /\ checks' = [checks EXCEPT ![r] = IdleCheck]
    /\ UNCHANGED <<up, queues, settings, openRegions, closing, adds, bounds>>

Check(r) == Pinged(r) \/ HandleFailover(r) \/ \E q \in Regions : Probed(r, q)

\* A region that stops answering.
Lapse(q) == checks' = [r \in Regions |-> [checks[r] EXCEPT !.steady = @ \ {q}]]

\* close: the intervals stop, and then one connection after the other is closed.  The quit
\* of one that is down may reject, which ends the closing and leaves the others open.
Close ==
    /\ closing = "no" /\ closing' = "quitting"
    /\ UNCHANGED <<up, queues, settings, primaryRegion, openRegions, adds, checks, bounds, globalHistory>>

QuitRegion(r) ==
    /\ closing = "quitting" /\ r \in openRegions
    /\ \/ openRegions' = openRegions \ {r} /\ Lapse(r) /\ UNCHANGED closing
       \/ r \notin up /\ closing' = "ended" /\ UNCHANGED <<openRegions, checks>>
    /\ UNCHANGED <<up, queues, settings, primaryRegion, adds, bounds, globalHistory>>

\* A region goes down, and comes back.
Down(r) ==
    /\ outages < MaxOutages /\ outages' = outages + 1 /\ r \in up
    /\ up' = up \ {r} /\ Lapse(r)
    /\ UNCHANGED <<queues, settings, primaryRegion, openRegions, closing, adds, failovers, globalHistory>>

Recover(r) ==
    /\ up' = up \union {r}
    /\ UNCHANGED <<queues, settings, primaryRegion, openRegions, closing, adds, checks, bounds, globalHistory>>

Outside == \E r \in Regions : FailoverTo(r) \/ Down(r) \/ Recover(r)

\* What the jobs see, and what the health checks see.  A failover is the same to a job
\* whoever called for it, so that each part can be checked without the other.
Call(a) ==
    \/ \E id \in CustomIds \union {NotGiven} : AddJob(a, id)
    \/ \E id \in JobIds, targetRegions \in SUBSET Regions : ReplicateJob(a, id, targetRegions)
    \/ Adder(a)

JobStep == \E a \in Adders : Call(a)

HealthStep == \E r \in Regions : HealthCheckTick(r) \/ Check(r)

CloseStep == Close \/ \E r \in Regions : QuitRegion(r)

GlobalNext == JobStep \/ HealthStep \/ CloseStep \/ Outside

\* Commands are answered or rejected, and every interval fires again and again.
GlobalFairness ==
    \A r \in Regions : WF_globalVars(Check(r)) /\ WF_globalVars(HealthCheckTick(r))

GlobalSpec == GlobalInit /\ [][GlobalNext]_globalVars /\ GlobalFairness

-----------------------------------------------------------------------------
\* The values the variables take.
GlobalTypeOK ==
    /\ up \subseteq Regions /\ openRegions \subseteq Regions /\ primaryRegion \in Regions
    /\ refuses \in BOOLEAN /\ sync \in BOOLEAN /\ closing \in {"no", "quitting", "ended"} /\ lost \in BOOLEAN
    /\ jobs \in [Regions -> [JobIds -> 0..MaxCalls]] /\ counter \in [Regions -> 0..MaxIds]
    /\ adds \in [Adders -> [pc : {"idle", "add", "find", "copy", "wait"}, id : JobIds \union {NotGiven},
                            job : 0..MaxCalls, region : Regions \union {NotGiven}, asked : SUBSET Regions,
                            todo : SUBSET Regions]]
    /\ checks \in [Regions -> [pc : {"idle", "ping", "probe"}, todo : SUBSET Regions,
                               healthy : SUBSET Regions, steady : SUBSET Regions]]
    /\ outages \in 0..MaxOutages /\ failovers \in 0..MaxFailovers /\ added \in 0..MaxCalls
    /\ clean \subseteq Adders

\* getReplicationStatus
ReplicationStatus(id) ==
    [r \in Regions |-> IF jobs[r][id] = 0 THEN "pending" ELSE "replicated"]

\* An addJob leaves its job in every region, a replicateJob in every region it was asked for,
\* unless it met a rejection or a failover (:96-101, :249-268); and as long as no call met
\* one, and no primary was behind, the id is of the same job in all of them.
Replicated ==
    [][\A a \in Adders : adds[a].pc # "idle" /\ adds'[a].pc = "idle" =>
          \A r \in adds[a].asked :
             /\ a \in clean' => ReplicationStatus(adds[a].id)[r] = "replicated"
             /\ adds[a].pc = "copy" => lost \/ jobs[r][adds[a].id] = adds[a].job]_globalVars

\* A health check that asked the regions moves the primary if another region answered all
\* the while, and to none that comes after such a region, whatever went down, came back or
\* became the primary meanwhile (:416-457).
BestTakesOver ==
    [][\A r \in Regions : checks[r].pc = "probe" /\ checks'[r].pc = "idle" =>
          LET able == checks[r].steady \ {primaryRegion}
          IN  able # {} => /\ primaryRegion' # primaryRegion
                           /\ \A q \in able \ {primaryRegion'} : Best(primaryRegion', q)]_globalVars

\* A primary that stays down is replaced, if a region is up, while the manager is open.
PrimaryRecovers ==
    primaryRegion \notin up /\ up # {} ~> primaryRegion \in up \/ up = {} \/ closing # "no"
=============================================================================
