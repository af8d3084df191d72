----------------------------- MODULE Connection -----------------------------
(***************************************************************************)
(* The class QueueConnectionManager of src/src/core/services/connection    *)
(* with its RedisConnectionManager, the BullMQ client and workers it       *)
(* makes, and the services that src/src/application/di builds on the       *)
(* client.                                                                 *)
(*                                                                         *)
(* queueClient, adapter and isConnected are set in one step and cleared in *)
(* one step: client # 0 stands for the three.                              *)
(***************************************************************************)
EXTENDS Naturals

CONSTANTS
    Callers, \* connect and disconnect calls at a time
    MaxMade  \* bound: no call that makes something begins with as many made

Services == {"DLQManager", "JobStatusQueryService"}

VARIABLES
    client,     \* the queue client, or 0
    workers,    \* the workers registered with it
    connection, \* the RedisConnectionManager's connection, or 0
    connecting, \* connections that try to connect
    ready,      \* connections whose status is ready; the others have ended
    open,       \* clients, workers and sockets not closed
    sockets,    \* the connections of the adapters, which their clients and workers use
    made,       \* connections, sockets, clients and workers made so far, numbered from 1
    call,       \* caller -> its call
    resolved,   \* service -> the client its singleton was built on, or 0
    stale,      \* services resolved before a disconnect or a reset
    spoiled     \* "client", "redis": what overlapping calls, a reset or an error left behind

connVars == <<client, workers, connection, connecting, ready, open, sockets, made, call, resolved, stale, spoiled>>

NoCall == [pc |-> "idle", on |-> 0, todo |-> {}, live |-> FALSE]

ConnInit ==
    /\ client = 0 /\ workers = {} /\ connection = 0 /\ open = {} /\ sockets = {} /\ made = 0
    /\ connecting = {} /\ ready = {}
    /\ call = [c \in Callers |-> NoCall]
    /\ resolved = [s \in Services |-> 0] /\ stale = {} /\ spoiled = {}

New == made + 1

Make == made' = New

\* What a call spoils that begins while another is under way.
Overlap == IF \E c \in Callers : call[c].pc # "idle" THEN {"client", "redis"} ELSE {}

-----------------------------------------------------------------------------
\* A client there is makes connect return at once.  A connection that is not ready is
\* replaced, and goes on connecting.
Connect(c) ==
    /\ call[c].pc = "idle" /\ client = 0 /\ made < MaxMade
    /\ IF connection \in ready
       THEN /\ call' = [call EXCEPT ![c].pc = "install"]
            /\ spoiled' = spoiled \union Overlap
            /\ UNCHANGED <<connection, connecting, made>>
       ELSE /\ Make /\ connection' = New
            /\ connecting' = connecting \union {New}
            /\ call' = [call EXCEPT ![c] = [NoCall EXCEPT !.pc = "wait", !.on = New]]
            /\ spoiled' = spoiled \union Overlap
                             \union IF connection \in connecting THEN {"redis"} ELSE {}
    /\ UNCHANGED <<client, workers, ready, open, resolved, stale, sockets>>

Waiting(n) == {c \in Callers : call[c].pc = "wait" /\ call[c].on = n}

\* The connection is ready, for the first time or again.
Ready(n) ==
    /\ connecting' = connecting \ {n} /\ ready' = ready \union {n}
    /\ call' = [c \in Callers |-> IF c \in Waiting(n) THEN [NoCall EXCEPT !.pc = "install"] ELSE call[c]]
    /\ UNCHANGED <<client, workers, connection, open, made, resolved, stale, spoiled, sockets>>

\* The connection tries again, unless retryStrategy has had enough.
TriesAgain(n) == connecting' \in {connecting, connecting \ {n}}

\* Its error event: connect rejects.
Error(n) ==
    /\ TriesAgain(n)
    /\ call' = [c \in Callers |-> IF c \in Waiting(n) THEN NoCall ELSE call[c]]
    /\ UNCHANGED <<client, workers, connection, ready, open, made, resolved, stale, spoiled, sockets>>

Drop(n) ==
    /\ connecting' = connecting \union {n} /\ ready' = ready \ {n}
    /\ UNCHANGED <<client, workers, connection, open, made, call, resolved, stale, spoiled, sockets>>

\* A mutant without the timer.
Mutant_NoTimer(c) == FALSE

TimerSet(c) == call[c].pc = "wait"

\* waitForReady rejects after 10 seconds.
TimesOut(c) ==
    /\ TimerSet(c) /\ call' = [call EXCEPT ![c] = NoCall]
    /\ UNCHANGED <<client, workers, connection, connecting, ready, open, made, resolved, stale, spoiled, sockets>>

\* A new adapter, which connects to Redis as it makes the client.
Install(c) ==
    /\ call[c].pc = "install" /\ made' = New + 1
    /\ sockets' = sockets \union {New}
    /\ client' = made' /\ open' = open \union {New, made'}
    /\ call' = [call EXCEPT ![c] = NoCall]
    /\ UNCHANGED <<workers, connection, connecting, ready, resolved, stale, spoiled>>

\* A mutant whose disconnect closes the workers there were when it began.
Mutant_Snapshot(x, w) == x

\* disconnect iterates the array that registerWorker pushes to.
Pushed(x, w) == IF x.live THEN [x EXCEPT !.todo = @ \union {w}] ELSE x

\* registerWorker, and the process() that gives the worker its handler.  The worker uses
\* the adapter's connection.
RegisterWorker ==
    /\ client # 0 /\ made < MaxMade /\ Make
    /\ workers' = workers \union {New} /\ open' = open \union {New}
    /\ call' = [c \in Callers |-> Pushed(call[c], New)]
    /\ UNCHANGED <<client, connection, connecting, ready, resolved, stale, spoiled, sockets>>

-----------------------------------------------------------------------------
Disconnect(c) ==
    /\ call[c].pc = "idle"
    /\ call' = [call EXCEPT ![c] = [NoCall EXCEPT !.pc = "workers", !.todo = workers, !.live = TRUE]]
    /\ spoiled' = spoiled \union Overlap
    /\ UNCHANGED <<client, workers, connection, connecting, ready, open, made, resolved, stale, sockets>>

\* The array is replaced: the loops over it, which go on, no longer see what is pushed.
Detached == [c \in Callers |-> [call[c] EXCEPT !.live = FALSE]]

\* A worker or client has closed, or has thrown: that is logged.
Closes(n) ==
    \/ open' = open \ {n} /\ UNCHANGED spoiled
    \/ spoiled' = spoiled \union {"client"} /\ UNCHANGED open

CloseWorker(c, w) ==
    /\ call[c].pc = "workers" /\ w \in call[c].todo
    /\ call' = [call EXCEPT ![c].todo = @ \ {w}]
    /\ Closes(w)
    /\ UNCHANGED <<client, workers, connection, connecting, ready, made, resolved, stale, sockets>>

\* redisManager.disconnect() quits the connection there is when it is called.
Quitting == [NoCall EXCEPT !.pc = "quit", !.on = connection]

WorkersClosed(c) ==
    /\ call[c].pc = "workers" /\ call[c].todo = {}
    /\ workers' = {}
    /\ call' = [Detached EXCEPT ![c] = IF client = 0 THEN Quitting
                                       ELSE [NoCall EXCEPT !.pc = "client", !.on = client]]
    /\ UNCHANGED <<client, connection, connecting, ready, open, made, resolved, stale, spoiled, sockets>>

CloseClient(c) ==
    /\ call[c].pc = "client"
    /\ call' = [call EXCEPT ![c] = Quitting]
    /\ Closes(call[c].on)
    /\ UNCHANGED <<client, workers, connection, connecting, ready, made, resolved, stale, sockets>>

\* Mutant: the client is kept after it is closed.
Mutant_Kept == client

\* queueClient = null; adapter = null; isConnected = false
Cleared == 0

Quit(c) ==
    LET x == call[c]
    IN  /\ x.pc = "quit"
        /\ client' = Cleared /\ call' = [call EXCEPT ![c] = NoCall]
        /\ connection' = IF x.on = 0 THEN connection ELSE 0
        /\ \/ /\ connecting' = connecting \ {x.on} /\ ready' = ready \ {x.on}
              /\ UNCHANGED spoiled
           \/ /\ x.on # 0 /\ spoiled' = spoiled \union {"redis"}
              /\ UNCHANGED <<connecting, ready>>
        /\ stale' = {s \in Services : resolved[s] # 0}
        /\ UNCHANGED <<workers, open, made, resolved, sockets>>

\* reset() forgets everything and closes nothing.
Reset ==
    /\ client' = 0 /\ workers' = {} /\ connection' = 0
    /\ call' = Detached
    /\ stale' = {s \in Services : resolved[s] # 0}
    /\ spoiled' = {"client", "redis"}
    /\ UNCHANGED <<connecting, ready, open, made, resolved, sockets>>

-----------------------------------------------------------------------------
\* The services a factory builds: the status queries are built on the dead letter
\* queue.
Builds(s) == IF s = "DLQManager" THEN {s} ELSE Services

\* resolve caches every instance for good; without a client the factory throws, and
\* nothing is cached.
Resolve(s) ==
    /\ client # 0 /\ resolved[s] = 0
    /\ resolved' = [t \in Services |-> IF t \in Builds(s) /\ resolved[t] = 0 THEN client ELSE resolved[t]]
    /\ UNCHANGED <<client, workers, connection, connecting, ready, open, made, call, stale, spoiled, sockets>>

Caller(c) ==
    \/ Install(c) \/ TimesOut(c) \/ WorkersClosed(c) \/ CloseClient(c) \/ Quit(c)
    \/ \E w \in call[c].todo : CloseWorker(c, w)

ConnNext ==
    \/ \E c \in Callers : Connect(c) \/ Disconnect(c) \/ Caller(c)
    \/ \E n \in connecting : Ready(n) \/ Error(n)
    \/ \E n \in ready : Drop(n)
    \/ \E s \in Services : Resolve(s)
    \/ RegisterWorker \/ Reset

\* What is closed or quit answers, and timers fire; Redis need not.
ConnFairness == \A c \in Callers : WF_connVars(Caller(c))

ConnSpec == ConnInit /\ [][ConnNext]_connVars /\ ConnFairness

-----------------------------------------------------------------------------
\* The values the variables take.
ConnTypeOK ==
    /\ client \in Nat /\ connection \in Nat /\ made \in Nat
    /\ workers \subseteq 1..made /\ open \subseteq 1..made /\ sockets \subseteq 1..made
    /\ connecting \subseteq 1..made /\ ready \subseteq 1..made
    /\ call \in [Callers -> [pc : {"idle", "wait", "install", "workers", "client", "quit"},
                             on : Nat, todo : SUBSET (1..made), live : BOOLEAN]]
    /\ resolved \in [Services -> Nat] /\ stale \subseteq Services
    /\ spoiled \subseteq {"client", "redis"}

\* Clients and workers that are open the manager knows, and its next disconnect closes,
\* though workers are registered while another disconnect runs; nothing else stays open but
\* the connections of the adapters, one for every connect, which disconnect does not close
\* (bullmq.adapter.ts:62-74).  Except after overlapping connect and disconnect calls, a
\* reset, or a close that threw (queue-connection-manager.ts:41-64, 195-264,
\* redis-connection-manager.ts:34-140).
OnlySocketsLeft ==
    /\ "client" \notin spoiled => open \subseteq workers \union {client} \union sockets
    /\ "redis" \notin spoiled => connecting \union ready \subseteq {connection}

\* The client is open but while it is disconnected, and the services resolved since
\* then (bindings.ts:101-141) are built on it.
ClientsCurrent ==
    "client" \notin spoiled =>
        /\ client # 0 /\ (\A c \in Callers : call[c].pc # "quit") => client \in open
        /\ \A s \in Services \ stale : resolved[s] \in {0, client}

Settling(c) == call[c].pc # "idle"

\* connect and disconnect settle, whether or not Redis can be reached (:41-64, 229-264).
CallsSettle == \A c \in Callers : Settling(c) ~> ~Settling(c)
=============================================================================
