----------------------------- MODULE MCServices -----------------------------
(***************************************************************************)
(* The services of one process, and the managers that poll, checked in one *)
(* run, liveness included.  As in MCManagers they share nothing, and a     *)
(* behaviour is chosen to be one's (subject).                              *)
(***************************************************************************)
EXTENDS Integers, Sequences, FiniteSets, Webhook, Connection, JobChain, GlobalQueue, Pipeline,
        StatusQueries, RetryConfig

VARIABLE subject

\* A negative one, none, one below the default cap, and one above it.
SomeDelays == {-1, 0, 700, 90000}

\* The priorities of the regions.
Better(r, q) == <<r, q>> \in {<<"east", "west">>, <<"east", "north">>, <<"west", "north">>}

ASSUME CachedStoreAssumption /\ WebhookAssumption
ASSUME JobChainAssumption /\ GlobalAssumption /\ PipelineAssumption /\ QueryAssumption
ASSUME RetryAssumption

serviceVars == <<subject, retry, whVars, chainVars, globalVars, connVars, pipeVars, queryVars>>

ServicesInit ==
    /\ subject \in {"retries", "webhooks", "faults", "waits", "health", "close", "connection", "overlap",
                   "pipeline", "counts", "listing"}
    /\ RetryInit /\ WebhookInit /\ ChainInit /\ GlobalInit /\ ConnInit /\ PipeInit /\ QueryInit
    /\ refuses = TRUE /\ sync = TRUE /\ primaryRegion = "east"

\* Sending, and what a fault does to the configurations.
Webhooks ==
    /\ \/ subject = "webhooks" /\ WebhookNext /\ faults' = 0
       \/ subject = "faults" /\ WebhookNext /\ send' = send
    /\ UNCHANGED <<subject, retry, chainVars, globalVars, connVars, pipeVars, queryVars>>

Waits ==
    subject = "waits" /\ WaitStep
    /\ UNCHANGED <<subject, retry, whVars, globalVars, connVars, pipeVars, queryVars>>

\* Two outages or failovers; or one outage and close.
Health ==
    /\ \/ subject = "health" /\ (HealthStep \/ Outside) /\ outages' + failovers' <= 2
       \/ subject = "close" /\ (HealthStep \/ CloseStep \/ Outside)
                           /\ outages' <= 1 /\ failovers' = 0
    /\ UNCHANGED <<subject, retry, whVars, chainVars, connVars, pipeVars, queryVars>>

\* One caller and everything else that happens; or two callers.
Connecting ==
    /\ \/ subject = "connection" /\ ConnNext /\ call'["c2"] = call["c2"]
       \/ /\ subject = "overlap" /\ ConnNext /\ resolved' = resolved
          /\ made' <= 3 \/ made' = made \/ client' # client
    /\ UNCHANGED <<subject, retry, whVars, chainVars, globalVars, pipeVars, queryVars>>

\* Two handlers of the awaited event, or one of the other.
Processing ==
    /\ subject = "pipeline" /\ PipeNext
    /\ Len(handlers'["started"]) + 2 * Len(handlers'["progress"]) <= 2
    /\ UNCHANGED <<subject, retry, whVars, chainVars, globalVars, connVars, queryVars>>

\* One of the jobs: which one makes no difference.
Mover == CHOOSE j \in Jobs : TRUE

\* That job, which is not run again, and counts; or all, one of which moves, and a listing.
Querying ==
    /\ \/ /\ subject = "counts" /\ QueryNext /\ query'.kind \in {Absent, "counts", "stats"}
          /\ ~Rerun(Mover)' /\ \A j \in Jobs \ {Mover} : jobState'[j] = Absent
       \/ /\ subject = "listing" /\ QueryNext /\ query'.kind \in {Absent} \union Listings
          /\ shifted' \subseteq {Mover}
    /\ UNCHANGED <<subject, retry, whVars, chainVars, globalVars, connVars, pipeVars>>

Retries ==
    subject = "retries" /\ LoadConfiguration
    /\ UNCHANGED <<subject, whVars, chainVars, globalVars, connVars, pipeVars, queryVars>>

ServicesNext == Retries \/ Webhooks \/ Waits \/ Health \/ Connecting \/ Processing \/ Querying

\* The fairness of each module, for the behaviours that are its own.
ServicesFairness ==
    /\ \A s \in Senders : WF_whVars(subject = "webhooks" /\ Sender(s))
    /\ \A w \in Waiters : WF_chainVars(subject = "waits" /\ Waiter(w))
    /\ \A r \in Regions : /\ WF_globalVars(subject \in {"health", "close"} /\ Check(r))
                          /\ WF_globalVars(subject \in {"health", "close"} /\ HealthCheckTick(r))
    /\ \A c \in Callers : WF_connVars(subject \in {"connection", "overlap"} /\ Caller(c))
    /\ \A r \in Runs : WF_pipeVars(subject = "pipeline" /\ Runner(r))
    /\ \A e \in Emitters : WF_pipeVars(subject = "pipeline" /\ Emitter(e))

ServicesSpec == ServicesInit /\ [][ServicesNext]_serviceVars /\ ServicesFairness

-----------------------------------------------------------------------------
\* The values the variables take.
TypesOK ==
    WebhookTypeOK /\ ChainTypeOK /\ GlobalTypeOK /\ ConnTypeOK /\ PipeTypeOK /\ QueryTypeOK

\* A call of the subject has not returned.
InProgress(c) ==
    \/ Settling(c)
    \/ c = "c1" /\ \/ \E s \in Senders : Sending(s)
                   \/ \E w \in Waiters : WaitingFor(w)
                   \/ \E r \in Runs : Running(r)

\* Deliveries, waits for dependencies, connect and disconnect, and processJob return.
CallsReturn == \A c \in Callers : InProgress(c) ~> ~InProgress(c)
=============================================================================
