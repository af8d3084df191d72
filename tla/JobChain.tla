------------------------------ MODULE JobChain ------------------------------
(***************************************************************************)
(* The class JobChainManager of src/src/infrastructure/services/           *)
(* job-chain.manager.ts: workflows, chains (workflows that are never       *)
(* cancelled, under a key of their own), and the wait for the results of   *)
(* the jobs a job depends on.                                              *)
(*                                                                         *)
(* As in CachedStore, commands are answered in the order they were sent,   *)
(* and a reply and what its caller does next are one step.  Each waiter    *)
(* polls on its own.                                                       *)
(***************************************************************************)
EXTENDS Naturals, Sequences, SequencesExt

CONSTANTS
    Flows,      \* ids of workflows and chains
    Chains,     \* those of Flows that are chains
    Waiters,    \* waitForDependencies calls at a time
    Parents,    \* jobs that are depended on
    Timeout,    \* timeoutMs, in polls of 100 ms
    MaxRuns,    \* bound: executions
    NoFlow,
    MaxFlowPending, \* bound: commands sent and not answered
    MaxFlowFaults   \* bound: commands that reject, and keys that expire

\* Of the constants; the models that give them values assume it.
JobChainAssumption ==
    /\ NoFlow \notin [run : Nat, status : {"running", "cancelled"}]
    /\ IsFiniteSet(Parents) /\ Timeout \in Nat /\ MaxRuns \in Nat

VARIABLES
    flows,     \* workflow -> what Redis holds
    runs,      \* executions so far: each has a number, for its startedAt
    flowWire,  \* commands sent, oldest first
    flowFaults,
    newest,    \* workflow -> what the last answered call left it as
    crossed,   \* workflows executed or cancelled while a cancel was under way, or hit by a fault
    results,   \* jobs whose result is in Redis
    waits,     \* waiter -> its call
    atStart    \* waiter -> its dependencies whose result was there when it began

flowVars == <<flows, runs, flowWire, flowFaults, newest, crossed>>

waitVars == <<results, waits, atStart>>

chainVars == <<flowVars, waitVars>>

\* polled, history: the dependencies whose result was asked for.
Wait(pc, deps) == [pc |-> pc, deps |-> deps, elapsed |-> 0, found |-> {}, polled |-> {}]

IdleWait == Wait("idle", <<>>)

ChainInit ==
    /\ flows = [f \in Flows |-> NoFlow] /\ newest = [f \in Flows |-> NoFlow]
    /\ runs = 0 /\ flowWire = <<>> /\ flowFaults = 0 /\ crossed = {}
    /\ results = {}
    /\ waits = [w \in Waiters |-> IdleWait] /\ atStart = [w \in Waiters |-> {}]

\* serializeWorkflow and deserializeWorkflow keep the fields of a result.
Flow(run, status) == [run |-> run, status |-> status]

\* A SET, of a cancellation or not, or a GET, of a cancellation or for its status.
FlowCommand(op, f, flow, cancel) == [op |-> op, id |-> f, flow |-> flow, cancel |-> cancel]

Cancelling(f) == \E n \in DOMAIN flowWire : flowWire[n].id = f /\ flowWire[n].cancel

Busy(f) == \E n \in DOMAIN flowWire : flowWire[n].id = f

SendFlow(c) ==
    /\ Len(flowWire) < MaxFlowPending
    /\ flowWire' = Append(flowWire, c)
    /\ UNCHANGED <<flows, flowFaults, newest>>

\* createChain and executeWorkflow overwrite whatever the key holds.
Start(f) ==
    /\ runs < MaxRuns /\ runs' = runs + 1
    /\ SendFlow(FlowCommand("set", f, Flow(runs, "running"), FALSE))
    /\ crossed' = IF Cancelling(f) THEN crossed \union {f} ELSE crossed

CreateChain(f) == f \in Chains /\ Start(f)

ExecuteWorkflow(f) == f \notin Chains /\ Start(f)

\* What is not found throws.
Look(f) ==
    /\ SendFlow(FlowCommand("get", f, NoFlow, FALSE))
    /\ UNCHANGED <<runs, crossed>>

GetChainStatus(f) == f \in Chains /\ Look(f)

\* Makes up an id for the job, and stores nothing.
AddJobToChain(f) == f \in Chains /\ Look(f)

GetWorkflowStatus(f) == f \notin Chains /\ Look(f)

CancelWorkflow(f) ==
    /\ f \notin Chains
    /\ SendFlow(FlowCommand("get", f, NoFlow, TRUE))
    /\ crossed' = IF Busy(f) THEN crossed \union {f} ELSE crossed
    /\ UNCHANGED runs

\* A mutant that builds the cancelled result anew.
Mutant_Fresh(flow) == Flow(0, "cancelled")

Cancelled(flow) == [flow EXCEPT !.status = "cancelled"]

\* The oldest command is answered; a cancellation that found its workflow writes back
\* what it read.
FlowAnswered ==
    LET c == Head(flowWire)
        stored == flows[c.id]
    IN  /\ flowWire # <<>>
        /\ flows' = IF c.op = "set" THEN [flows EXCEPT ![c.id] = c.flow] ELSE flows
        /\ flowWire' = IF c.op = "get" /\ c.cancel /\ stored # NoFlow
                       THEN Append(Tail(flowWire), FlowCommand("set", c.id, Cancelled(stored), TRUE))
                       ELSE Tail(flowWire)
        /\ newest' = IF c.op = "get" THEN newest
                     ELSE [newest EXCEPT ![c.id] =
                             IF c.cancel /\ @ # NoFlow THEN [@ EXCEPT !.status = "cancelled"] ELSE c.flow]
        /\ UNCHANGED <<runs, flowFaults, crossed>>

FlowFault(f) == flowFaults < MaxFlowFaults /\ flowFaults' = flowFaults + 1 /\ crossed' = crossed \union {f}

FlowRejected(executed) ==
    LET c == Head(flowWire)
    IN  /\ flowWire # <<>> /\ FlowFault(c.id)
        /\ flows' = IF executed /\ c.op = "set" THEN [flows EXCEPT ![c.id] = c.flow] ELSE flows
        /\ flowWire' = Tail(flowWire)
        /\ UNCHANGED <<runs, newest>>

\* Seven days later.
Expire(f) ==
    /\ flows[f] # NoFlow /\ FlowFault(f)
    /\ flows' = [flows EXCEPT ![f] = NoFlow]
    /\ UNCHANGED <<runs, flowWire, newest>>

FlowStep ==
    /\ \/ \E f \in Flows :
             \/ CreateChain(f) \/ GetChainStatus(f) \/ AddJobToChain(f)
             \/ ExecuteWorkflow(f) \/ GetWorkflowStatus(f) \/ CancelWorkflow(f)
             \/ Expire(f)
       \/ FlowAnswered
       \/ \E executed \in BOOLEAN : FlowRejected(executed)
    /\ UNCHANGED waitVars

-----------------------------------------------------------------------------
\* Written by whoever runs the jobs: nothing in src/ writes the key.
JobFinishes(j) ==
    /\ results' = results \union {j}
    /\ UNCHANGED <<flowVars, waits, atStart>>

\* waitForDependencies, once getJobDependencies has answered: on an error, with none.
WaitForDependencies(w, deps) ==
    /\ waits[w].pc = "idle"
    /\ waits' = [waits EXCEPT ![w] = Wait("check", deps)]
    /\ atStart' = [atStart EXCEPT ![w] = ToSet(deps) \cap results]
    /\ UNCHANGED <<flowVars, results>>

TimedOut(x) == x.elapsed >= Timeout

\* waitForDependencyResult: a GET while there is time, or the next dependency, without a result.
Poll(w) ==
    LET x == waits[w]
    IN  /\ x.pc = "check" /\ x.deps # <<>>
        /\ waits' = [waits EXCEPT ![w] = IF TimedOut(x) THEN [x EXCEPT !.deps = Tail(@)]
                                         ELSE [x EXCEPT !.pc = "get", !.polled = @ \union {Head(x.deps)}]]
        /\ UNCHANGED <<flowVars, results, atStart>>

\* The result was there, however long the answer took: on to the next dependency.
NextDependency(w) ==
    LET x == waits[w]
    IN  /\ x.pc = "get" /\ Head(x.deps) \in results
        /\ waits' = [waits EXCEPT ![w] = [x EXCEPT !.pc = "check", !.deps = Tail(@),
                                                   !.found = @ \union {Head(x.deps)}]]
        /\ UNCHANGED <<flowVars, results, atStart>>

\* A mutant that gives up on what it waits for.
Mutant_GiveUp(x) == [x EXCEPT !.pc = "check", !.deps = <<>>]

\* Sleeps 100 ms and asks again.
AfterMiss(x) == [x EXCEPT !.pc = "sleep"]

Miss(w) ==
    LET x == waits[w]
    IN  /\ x.pc = "get" /\ Head(x.deps) \notin results
        /\ waits' = [waits EXCEPT ![w] = AfterMiss(x)]
        /\ UNCHANGED <<flowVars, results, atStart>>

Slept(w) ==
    /\ waits[w].pc = "sleep"
    /\ waits' = [waits EXCEPT ![w].pc = "check", ![w].elapsed = IF @ < Timeout THEN @ + 1 ELSE @]
    /\ UNCHANGED <<flowVars, results, atStart>>

\* A GET that takes as long as a poll.
SlowReply(w) ==
    /\ waits[w].pc = "get" /\ waits[w].elapsed < Timeout
    /\ waits' = [waits EXCEPT ![w].elapsed = @ + 1]
    /\ UNCHANGED <<flowVars, results, atStart>>

\* The GET rejects, or what it read does not parse: the whole wait throws, and the results
\* it had are lost to its caller.
WaitThrows(w) ==
    /\ waits[w].pc = "get"
    /\ waits' = [waits EXCEPT ![w] = IdleWait]
    /\ UNCHANGED <<flowVars, results, atStart>>

WaitReturns(w) ==
    /\ waits[w].pc = "check" /\ waits[w].deps = <<>>
    /\ waits' = [waits EXCEPT ![w] = IdleWait]
    /\ UNCHANGED <<flowVars, results, atStart>>

Waiter(w) == Poll(w) \/ NextDependency(w) \/ Miss(w) \/ Slept(w) \/ WaitReturns(w)

WaitStep ==
    \/ \E j \in Parents : JobFinishes(j)
    \/ \E w \in Waiters :
          \/ \E deps \in SetToSeqs(Parents) : WaitForDependencies(w, deps)
          \/ SlowReply(w) \/ WaitThrows(w) \/ Waiter(w)

ChainNext == FlowStep \/ WaitStep

\* Redis answers and timers fire.
ChainFairness == \A w \in Waiters : WF_chainVars(Waiter(w))

ChainSpec == ChainInit /\ [][ChainNext]_chainVars /\ ChainFairness

-----------------------------------------------------------------------------
FlowValue == [run : 0..MaxRuns, status : {"running", "cancelled"}] \union {NoFlow}

\* The values the variables take.
ChainTypeOK ==
    /\ flows \in [Flows -> FlowValue] /\ newest \in [Flows -> FlowValue]
    /\ runs \in 0..MaxRuns /\ flowFaults \in Nat /\ crossed \subseteq Flows
    /\ flowWire \in Seq([op : {"set", "get"}, id : Flows, flow : FlowValue, cancel : BOOLEAN])
    /\ results \subseteq Parents /\ atStart \in [Waiters -> SUBSET Parents]
    /\ waits \in [Waiters -> [pc : {"idle", "check", "get", "sleep"}, deps : Seq(Parents),
                              elapsed : 0..Timeout, found : SUBSET Parents, polled : SUBSET Parents]]
    /\ \A w \in Waiters : waits[w].pc \in {"get", "sleep"} => waits[w].deps # <<>>

\* A workflow is what its last execution or cancellation made it (:147-245), unless a
\* cancellation, which reads and then writes, was crossed by another call.
LastCallStands == \A f \in Flows \ crossed : flows[f] = newest[f]

\* waitForDependencies returns every result that was there when it was called, or it has used
\* up its whole time; what it asked for in time it returns all the same, however late the
\* answer (:273-319).  One whose GET fails, or reads what does not parse, throws instead and
\* returns none (:289-295, :306-308).
ReadyAreReturned ==
    [][\A w \in Waiters : LET x == waits[w] IN
          x.pc = "check" /\ waits'[w].pc = "idle" =>
             /\ atStart[w] \subseteq x.found \/ TimedOut(x)
             /\ atStart[w] \cap x.polled \subseteq x.found]_chainVars

WaitingFor(w) == waits[w].pc # "idle"

\* waitForDependencies returns, whether or not the results ever come (:298-319).
WaitsEnd == \A w \in Waiters : WaitingFor(w) ~> ~WaitingFor(w)
=============================================================================
