--------------------------- MODULE ServiceProofs ---------------------------
(***************************************************************************)
(* What the services of one process satisfy for any number of callers,     *)
(* jobs, attempts, processors and handlers, and any limit of a listing:    *)
(* Connection, Pipeline and StatusQueries, and the composition MCServices. *)
(***************************************************************************)
EXTENDS MCServices, ManagerProofs, AlgorithmProofs, SequenceTheorems, FunctionTheorems,
        FiniteSetTheorems, TLAPS

(***************************************************************************)
(* The inductive invariant.  Until something is spoiled there is one call  *)
(* at a time; what a disconnect has not closed yet is in its loop or is    *)
(* the client it is about to close.                                        *)
(***************************************************************************)
Alone == \A c, d \in Callers : call[c].pc # "idle" /\ call[d].pc # "idle" => c = d

\* A connect, and a disconnect at each of its points.
Before(x) == x.pc \in {"wait", "install"} => client = 0

Closing(x) == x.pc = "workers" => x.live /\ x.todo \subseteq workers /\ open \intersect workers \subseteq x.todo

Ending(x) ==
    /\ x.pc = "client" => x.on = client
    /\ x.pc = "quit" => client \notin open

ClientInv ==
    /\ open \subseteq workers \union {client} \union sockets /\ client \notin workers
    /\ \A c \in Callers : Before(call[c]) /\ Closing(call[c]) /\ Ending(call[c])
    /\ client # 0 /\ (\A c \in Callers : call[c].pc # "quit") => client \in open
    /\ \A s \in Services \ stale : resolved[s] \in {0, client}

RedisInv ==
    /\ connecting \union ready \subseteq {connection}
    /\ \A c \in Callers : call[c].pc = "quit" => call[c].on = connection

ConnInv ==
    /\ ConnTypeOK /\ client <= made /\ connection <= made
    /\ ({"client", "redis"} \subseteq spoiled) \/ Alone
    /\ "client" \notin spoiled => ClientInv
    /\ "redis" \notin spoiled => RedisInv

Numbered == ConnTypeOK /\ client <= made /\ connection <= made

Pcs == {"idle", "wait", "install", "workers", "client", "quit"}

CallType == [pc : Pcs, on : Nat, todo : SUBSET (1..made), live : BOOLEAN]

LEMMA CallTypesKept ==
    ConnTypeOK => /\ made \in Nat /\ client \in Nat /\ connection \in Nat
                  /\ call \in [Callers -> CallType] /\ \A c \in Callers : call[c] \in CallType
                  /\ NoCall \in CallType /\ New \in 1..New /\ New \notin 1..made /\ 1..made \subseteq 1..New
  BY DEF ConnTypeOK, CallType, NoCall, New, Pcs

LEMMA Literals == \A pc \in {"idle", "wait", "install", "workers", "client", "quit"} : pc \in Pcs
  BY DEF Pcs

\* The records of a call's next points.
LEMMA CallsMade ==
    ASSUME Numbered
    PROVE  /\ \A x \in CallType, pc \in Pcs : [x EXCEPT !.pc = pc] \in CallType
           /\ \A x \in CallType : \A w : [x EXCEPT !.todo = @ \ {w}] \in CallType
           /\ \A x \in CallType : [x EXCEPT !.live = FALSE] \in CallType
           /\ \A pc \in Pcs : [NoCall EXCEPT !.pc = pc] \in CallType
           /\ \A pc \in Pcs, on \in Nat : [NoCall EXCEPT !.pc = pc, !.on = on] \in CallType
           /\ [NoCall EXCEPT !.pc = "workers", !.todo = workers, !.live = TRUE] \in CallType
<1>1. NoCall \in CallType /\ "workers" \in Pcs /\ workers \subseteq 1..made
  BY CallTypesKept DEF Numbered, Pcs, ConnTypeOK
<1>2. \A x \in CallType, pc \in Pcs : [x EXCEPT !.pc = pc] \in CallType
  BY DEF CallType
<1>3. \A x \in CallType : \A w : [x EXCEPT !.todo = @ \ {w}] \in CallType
  BY DEF CallType
<1>4. \A x \in CallType : [x EXCEPT !.live = FALSE] \in CallType
  BY DEF CallType
<1>5. \A pc \in Pcs, on \in Nat : [NoCall EXCEPT !.pc = pc, !.on = on] \in CallType
  BY <1>1 DEF CallType
<1>6. [NoCall EXCEPT !.pc = "workers", !.todo = workers, !.live = TRUE] \in CallType
  BY <1>1 DEF CallType
<1>7. QED
  BY <1>1, <1>2, <1>3, <1>4, <1>5, <1>6

(***************************************************************************)
(* Types.                                                                  *)
(***************************************************************************)
LEMMA NumberedInit == ConnInit => Numbered
  BY DEF ConnInit, Numbered, ConnTypeOK, NoCall

LEMMA NumberedMade ==
    ASSUME Numbered, made' \in {made, New, New + 1},
           connecting' \subseteq 1..made', ready' \subseteq 1..made', open' \subseteq 1..made',
           sockets' \subseteq 1..made', workers' \subseteq 1..made',
           client' \in {client, 0, made'}, connection' \in {connection, 0, made'},
           call' \in [Callers -> [pc : Pcs, on : Nat, todo : SUBSET (1..made'), live : BOOLEAN]],
           resolved' \in [Services -> Nat], stale' \subseteq Services, spoiled' \subseteq {"client", "redis"}
    PROVE  Numbered'
<1>1. made' \in Nat /\ client' \in Nat /\ connection' \in Nat /\ client' <= made' /\ connection' <= made'
  BY DEF Numbered, ConnTypeOK, New
<1>2. QED
  BY <1>1 DEF Numbered, ConnTypeOK, Pcs

LEMMA Grown ==
    ASSUME Numbered, made' \in {made, New, New + 1}
    PROVE  \A x \in CallType : x \in [pc : Pcs, on : Nat, todo : SUBSET (1..made'), live : BOOLEAN]
<1>1. 1..made \subseteq 1..made'
  BY DEF Numbered, ConnTypeOK, New
<1>2. QED
  BY <1>1 DEF CallType

LEMMA NumberedStep == ASSUME Numbered, [ConnNext]_connVars PROVE Numbered'
<1> DEFINE Next1 == [pc : Pcs, on : Nat, todo : SUBSET (1..made'), live : BOOLEAN]
<1>0. /\ made \in Nat /\ client \in 0..made /\ connection \in 0..made
      /\ workers \subseteq 1..made /\ open \subseteq 1..made /\ connecting \subseteq 1..made
      /\ sockets \subseteq 1..made
      /\ ready \subseteq 1..made /\ resolved \in [Services -> Nat] /\ stale \subseteq Services
      /\ spoiled \subseteq {"client", "redis"}
      /\ call \in [Callers -> CallType] /\ NoCall \in CallType
      /\ New \in 1..New /\ 1..made \subseteq 1..New
  BY CallTypesKept DEF Numbered, ConnTypeOK
<1>1. ASSUME NEW c \in Callers, Connect(c) PROVE Numbered'
  <2>1. made' \in {made, New} /\ Overlap \subseteq {"client", "redis"}
    BY <1>1 DEF Connect, Make, Overlap
  <2>2. call' \in [Callers -> Next1]
    <3>1. [call[c] EXCEPT !.pc = "install"] \in CallType /\ [NoCall EXCEPT !.pc = "wait", !.on = New] \in CallType
      <4>1. call[c] \in CallType /\ New \in Nat
        BY <1>0 DEF New
      <4>2. QED
        BY <4>1, Literals, CallsMade
    <3>2. call' \in [Callers -> CallType]
      BY <1>0, <1>1, <3>1 DEF Connect
    <3>3. QED
      BY <2>1, <3>2, Grown
  <2>3. QED
    BY <1>0, <1>1, <2>1, <2>2, NumberedMade DEF Connect, Make
<1>2. ASSUME NEW c \in Callers, Disconnect(c) PROVE Numbered'
  <2>1. [NoCall EXCEPT !.pc = "workers", !.todo = workers, !.live = TRUE] \in CallType
    BY CallsMade
  <2>2. call' \in [Callers -> CallType]
    BY <1>0, <1>2, <2>1 DEF Disconnect
  <2>3. Overlap \subseteq {"client", "redis"}
    BY DEF Overlap
  <2>4. QED
    BY <1>0, <1>2, <2>2, <2>3, NumberedMade DEF Disconnect, CallType
<1>3. ASSUME NEW c \in Callers, Caller(c) PROVE Numbered'
  <2>1. /\ [call[c] EXCEPT !.pc = "install"] \in CallType /\ Quitting \in CallType
        /\ [NoCall EXCEPT !.pc = "client", !.on = client] \in CallType
        /\ \A w : [call[c] EXCEPT !.todo = @ \ {w}] \in CallType
        /\ \A d \in Callers : [call[d] EXCEPT !.live = FALSE] \in CallType
    <3>1. client \in Nat /\ connection \in Nat /\ \A d \in Callers : call[d] \in CallType
      BY <1>0
    <3>2. Quitting \in CallType
      BY <3>1, Literals, CallsMade DEF Quitting
    <3>3. QED
      BY <3>1, <3>2, Literals, CallsMade
  <2>2. CASE Install(c)
    <3>1. call' \in [Callers -> CallType] /\ made' = New + 1
      BY <1>0, <2>2 DEF Install
    <3>2. call' \in [Callers -> Next1]
      BY <3>1, Grown
    <3>3. /\ open' \subseteq 1..made' /\ sockets' \subseteq 1..made' /\ client' = made'
          /\ workers \subseteq 1..made' /\ connecting \subseteq 1..made' /\ ready \subseteq 1..made'
      BY <1>0, <2>2, <3>1 DEF Install, New
    <3>4. QED
      BY <1>0, <2>2, <3>1, <3>2, <3>3, NumberedMade DEF Install
  <2>3. CASE TimesOut(c)
    <3>1. call' \in [Callers -> CallType]
      BY <1>0, <2>3 DEF TimesOut
    <3>2. QED
      BY <1>0, <2>3, <3>1, NumberedMade DEF TimesOut, CallType
  <2>4. CASE WorkersClosed(c)
    <3>1. Detached \in [Callers -> CallType]
      BY <2>1 DEF Detached
    <3>2. call' \in [Callers -> CallType]
      BY <2>1, <2>4, <3>1 DEF WorkersClosed
    <3>3. QED
      BY <1>0, <2>4, <3>2, NumberedMade DEF WorkersClosed, CallType
  <2>5. CASE CloseClient(c)
    <3>1. call' \in [Callers -> CallType]
      BY <1>0, <2>1, <2>5 DEF CloseClient, Closes
    <3>2. QED
      BY <1>0, <2>5, <3>1, NumberedMade DEF CloseClient, Closes, CallType
  <2>6. CASE Quit(c)
    <3>1. call' \in [Callers -> CallType]
      BY <1>0, <2>6 DEF Quit
    <3>2. QED
      BY <1>0, <2>6, <3>1, NumberedMade DEF Quit, Cleared, CallType
  <2>7. ASSUME NEW w \in call[c].todo, CloseWorker(c, w) PROVE Numbered'
    <3>1. call' \in [Callers -> CallType]
      BY <1>0, <2>1, <2>7 DEF CloseWorker, Closes
    <3>2. QED
      BY <1>0, <2>7, <3>1, NumberedMade DEF CloseWorker, Closes, CallType
  <2>8. QED
    BY <1>3, <2>2, <2>3, <2>4, <2>5, <2>6, <2>7 DEF Caller
<1>4. ASSUME NEW n \in connecting, Ready(n) \/ Error(n) PROVE Numbered'
  <2>1. [NoCall EXCEPT !.pc = "install"] \in CallType
    BY Literals, CallsMade
  <2>2. call' \in [Callers -> CallType]
    BY <1>0, <1>4, <2>1 DEF Ready, Error, TriesAgain
  <2>3. QED
    BY <1>0, <1>4, <2>2, NumberedMade DEF Ready, Error, TriesAgain, CallType
<1>5. ASSUME NEW n \in ready, Drop(n) PROVE Numbered'
  BY <1>0, <1>5, NumberedMade DEF Drop, CallType
<1>6. ASSUME NEW t \in Services, Resolve(t) PROVE Numbered'
  BY <1>0, <1>6, NumberedMade DEF Resolve, CallType
<1>7. CASE RegisterWorker
  <2>1. \A c \in Callers : Pushed(call[c], New) \in [pc : Pcs, on : Nat, todo : SUBSET (1..New), live : BOOLEAN]
    BY <1>0 DEF Pushed, CallType
  <2>2. made' = New
    BY <1>7 DEF RegisterWorker, Make
  <2>3. call' \in [Callers -> Next1]
    BY <1>7, <2>1, <2>2 DEF RegisterWorker
  <2>4. QED
    BY <1>0, <1>7, <2>2, <2>3, NumberedMade DEF RegisterWorker
<1>8. CASE Reset
  <2>1. call' \in [Callers -> CallType]
    BY <1>0, <1>8 DEF Reset, Detached, CallType
  <2>2. QED
    BY <1>0, <1>8, <2>1, NumberedMade DEF Reset, CallType
<1>9. CASE UNCHANGED connVars
  BY <1>0, <1>9, NumberedMade DEF connVars, CallType
<1>10. QED
  BY <1>1, <1>2, <1>3, <1>4, <1>5, <1>6, <1>7, <1>8, <1>9 DEF ConnNext

(***************************************************************************)
(* One call at a time: a call that begins while another is under way       *)
(* spoils everything.                                                      *)
(***************************************************************************)
LEMMA CallBegins ==
    ASSUME Numbered, [ConnNext]_connVars
    PROVE  \/ \A c \in Callers : call'[c].pc # "idle" => call[c].pc # "idle"
           \/ \E c \in Callers : Connect(c) \/ Disconnect(c)
<1> DEFINE Older == \A c \in Callers : call'[c].pc # "idle" => call[c].pc # "idle"
<1>0. call \in [Callers -> CallType] /\ NoCall.pc = "idle" /\ \A x \in CallType : x.pc \in Pcs
  BY CallTypesKept DEF Numbered, NoCall, CallType
<1>1. ASSUME NEW c \in Callers, Caller(c) PROVE Older
  <2>1. CASE Install(c) \/ TimesOut(c)
    BY <1>0, <2>1 DEF Install, TimesOut
  <2>2. CASE WorkersClosed(c)
    BY <1>0, <2>2 DEF WorkersClosed, Detached, CallType
  <2>3. CASE CloseClient(c) \/ Quit(c)
    BY <1>0, <2>3 DEF CloseClient, Closes, Quit
  <2>4. ASSUME NEW w \in call[c].todo, CloseWorker(c, w) PROVE Older
    BY <1>0, <2>4 DEF CloseWorker, Closes, CallType
  <2>5. QED
    BY <1>1, <2>1, <2>2, <2>3, <2>4 DEF Caller
<1>2. ASSUME NEW n \in connecting, Ready(n) \/ Error(n) PROVE Older
  BY <1>0, <1>2 DEF Ready, Error, TriesAgain, Waiting
<1>3. ASSUME NEW n \in ready, Drop(n) PROVE Older
  BY <1>3 DEF Drop
<1>4. ASSUME NEW t \in Services, Resolve(t) PROVE Older
  BY <1>4 DEF Resolve
<1>5. CASE RegisterWorker
  BY <1>0, <1>5 DEF RegisterWorker, Pushed, CallType
<1>6. CASE Reset
  BY <1>0, <1>6 DEF Reset, Detached, CallType
<1>7. CASE UNCHANGED connVars
  BY <1>7 DEF connVars
<1>8. QED
  BY <1>1, <1>2, <1>3, <1>4, <1>5, <1>6, <1>7 DEF ConnNext

LEMMA SpoiledGrows ==
    ASSUME [ConnNext]_connVars, spoiled \subseteq {"client", "redis"}
    PROVE  spoiled \subseteq spoiled'
<1>1. ASSUME NEW c \in Callers, Caller(c) PROVE spoiled \subseteq spoiled'
  BY <1>1 DEF Caller, Install, TimesOut, WorkersClosed, CloseClient, Closes, Quit, CloseWorker
<1>2. ASSUME NEW c \in Callers, Connect(c) \/ Disconnect(c) PROVE spoiled \subseteq spoiled'
  BY <1>2 DEF Connect, Disconnect
<1>3. ASSUME NEW n, Ready(n) \/ Error(n) \/ Drop(n) PROVE spoiled \subseteq spoiled'
  BY <1>3 DEF Ready, Error, TriesAgain, Drop
<1>4. ASSUME NEW t \in Services, Resolve(t) PROVE spoiled \subseteq spoiled'
  BY <1>4 DEF Resolve
<1>5. CASE RegisterWorker \/ Reset
  BY <1>5 DEF RegisterWorker, Reset
<1>6. QED
  BY <1>1, <1>2, <1>3, <1>4, <1>5 DEF ConnNext, connVars

LEMMA BeginsAlone ==
    ASSUME NEW c \in Callers, Connect(c) \/ Disconnect(c), ~({"client", "redis"} \subseteq spoiled')
    PROVE  \A d \in Callers : call[d].pc = "idle"
  BY DEF Connect, Disconnect, Overlap

LEMMA AloneStep ==
    ASSUME Numbered, {"client", "redis"} \subseteq spoiled \/ Alone, [ConnNext]_connVars
    PROVE  ({"client", "redis"} \subseteq spoiled \/ Alone)'
<1>1. SUFFICES ASSUME ~({"client", "redis"} \subseteq spoiled') PROVE Alone'
  OBVIOUS
<1>2. Alone
  BY <1>1, SpoiledGrows DEF Numbered, ConnTypeOK
<1>3. ASSUME NEW c \in Callers, Connect(c) \/ Disconnect(c) PROVE Alone'
  <2>1. \A d \in Callers : call[d].pc = "idle"
    BY <1>1, <1>3, BeginsAlone
  <2>2. \A d \in Callers \ {c} : call'[d] = call[d]
    BY <1>3 DEF Connect, Disconnect, Numbered, ConnTypeOK
  <2>3. QED
    BY <2>1, <2>2 DEF Alone
<1>4. QED
  BY <1>2, <1>3, CallBegins DEF Alone

(***************************************************************************)
(* The client and the workers.                                             *)
(***************************************************************************)
\* What ClientInv says of the calls once the variables it speaks of have changed.
CallNext(x) ==
    /\ x.pc \in {"wait", "install"} => client' = 0
    /\ x.pc = "workers" => x.live /\ x.todo \subseteq workers' /\ open' \intersect workers' \subseteq x.todo
    /\ x.pc = "client" => x.on = client'
    /\ x.pc = "quit" => client' \notin open'

LEMMA ClientNext ==
    ASSUME open' \subseteq workers' \union {client'} \union sockets', client' \notin workers',
           \A c \in Callers : CallNext(call'[c]),
           client' # 0 /\ (\A c \in Callers : call'[c].pc # "quit") => client' \in open',
           \A s \in Services \ stale' : resolved'[s] \in {0, client'}
    PROVE  ClientInv'
  BY DEF ClientInv, Before, Closing, Ending, CallNext

LEMMA Idle == \A x : x.pc = "idle" => CallNext(x)
  BY DEF CallNext

LEMMA ClientBegins ==
    ASSUME Numbered, ClientInv, NEW c \in Callers, Connect(c) \/ Disconnect(c), "client" \notin spoiled'
    PROVE  ClientInv'
<1>1. \A d \in Callers : call[d].pc = "idle"
  BY BeginsAlone
<1>2. \A d \in Callers \ {c} : call'[d] = call[d]
  BY DEF Connect, Disconnect, Numbered, ConnTypeOK
<1>3. UNCHANGED <<client, workers, open, sockets, resolved, stale>>
  BY DEF Connect, Disconnect
<1>4. \/ client = 0 /\ call'[c].pc \in {"wait", "install"}
      \/ call'[c].pc = "workers" /\ call'[c].live /\ call'[c].todo = workers
  <2>0. call \in [Callers -> CallType]
    BY CallTypesKept DEF Numbered
  <2>1. CASE Disconnect(c)
    BY <2>0, <2>1 DEF Disconnect, NoCall
  <2>2. CASE Connect(c) /\ connection \in ready
    BY <2>0, <2>2 DEF Connect, CallType
  <2>3. CASE Connect(c) /\ connection \notin ready
    BY <2>0, <2>3 DEF Connect, NoCall
  <2>4. QED
    BY <2>1, <2>2, <2>3
<1>5. CallNext(call'[c])
  BY <1>3, <1>4 DEF CallNext
<1>6. \A d \in Callers : CallNext(call'[d])
  BY <1>1, <1>2, <1>5, Idle
<1>7. QED
  BY <1>1, <1>3, <1>6, ClientNext DEF ClientInv

LEMMA ClientCaller ==
    ASSUME Numbered, Alone, ClientInv, NEW c \in Callers, Caller(c), "client" \notin spoiled'
    PROVE  ClientInv'
<1> DEFINE x == call[c]
<1>0. /\ call \in [Callers -> CallType] /\ NoCall.pc = "idle" /\ x \in CallType
      /\ 0 \notin open /\ 0 \notin workers /\ New # 0 /\ New \notin workers /\ client # New
      /\ New + 1 # 0 /\ New + 1 \notin workers
  BY CallTypesKept DEF Numbered, NoCall, ConnTypeOK, New
<1>1. x.pc # "idle"
  BY DEF Caller, Install, TimesOut, WorkersClosed, CloseClient, Closes, Quit, CloseWorker, TimerSet
<1>2. \A d \in Callers \ {c} : call[d].pc = "idle"
  BY <1>1 DEF Alone
<1>3. Before(x) /\ Closing(x) /\ Ending(x) /\ client \notin workers
      /\ open \subseteq workers \union {client} \union sockets
  BY DEF ClientInv
<1>4. ASSUME CallNext(call'[c]), \A d \in Callers \ {c} : call'[d].pc = "idle"
      PROVE  \A d \in Callers : CallNext(call'[d])
  BY <1>4, Idle
<1>5. CASE Install(c)
  <2>1. client = 0 /\ open \subseteq workers \union sockets
    BY <1>0, <1>3, <1>5 DEF Install, Before
  <2>2. call' = [call EXCEPT ![c] = NoCall]
    BY <1>5 DEF Install
  <2>3. \A d \in Callers : CallNext(call'[d])
    BY <1>0, <1>2, <1>4, <2>2, Idle
  <2>4. \A s \in Services \ stale : resolved[s] = 0
    BY <2>1 DEF ClientInv
  <2>5. QED
    BY <1>0, <1>5, <2>1, <2>3, <2>4, ClientNext DEF Install
<1>6. CASE TimesOut(c)
  <2>1. client = 0
    BY <1>3, <1>6 DEF TimesOut, TimerSet, Before
  <2>2. \A d \in Callers : CallNext(call'[d])
    BY <1>0, <1>2, <1>4, <1>6, Idle DEF TimesOut
  <2>3. QED
    BY <1>3, <1>6, <2>1, <2>2, ClientNext DEF TimesOut, ClientInv
<1>7. CASE WorkersClosed(c)
  <2>1. open \subseteq {client} \union sockets
    BY <1>3, <1>7 DEF WorkersClosed, Closing
  <2>2. \A d \in Callers \ {c} : call'[d].pc = "idle"
    BY <1>0, <1>2, <1>7 DEF WorkersClosed, Detached, CallType
  <2>3. call'[c] = IF client = 0 THEN Quitting ELSE [NoCall EXCEPT !.pc = "client", !.on = client]
    BY <1>0, <1>7 DEF WorkersClosed, Detached
  <2>4. CASE client = 0
    <3>1. call'[c].pc = "quit"
      BY <2>3, <2>4 DEF Quitting, NoCall
    <3>2. CallNext(call'[c])
      BY <1>0, <1>7, <2>4, <3>1 DEF CallNext, WorkersClosed
    <3>3. QED
      BY <1>4, <1>7, <2>1, <2>2, <2>4, <3>2, ClientNext DEF WorkersClosed, ClientInv
  <2>5. CASE client # 0
    <3>1. call'[c].pc = "client" /\ call'[c].on = client
      BY <2>3, <2>5 DEF NoCall
    <3>2. CallNext(call'[c])
      BY <1>7, <3>1 DEF CallNext, WorkersClosed
    <3>3. \A d \in Callers : call[d].pc # "quit"
      BY <1>2, <1>7 DEF WorkersClosed
    <3>4. client \in open
      BY <2>5, <3>3 DEF ClientInv
    <3>5. QED
      BY <1>4, <1>7, <2>1, <2>2, <3>2, <3>4, ClientNext DEF WorkersClosed, ClientInv
  <2>6. QED
    BY <2>4, <2>5
<1>8. CASE CloseClient(c)
  <2>1. open' = open \ {client} /\ UNCHANGED <<client, workers, sockets, resolved, stale>>
    BY <1>3, <1>8 DEF CloseClient, Closes, Ending
  <2>2. call' = [call EXCEPT ![c] = Quitting] /\ Quitting.pc = "quit"
    BY <1>8 DEF CloseClient, Closes, Quitting, NoCall
  <2>3. call'[c].pc = "quit" /\ \A d \in Callers \ {c} : call'[d].pc = "idle"
    BY <1>0, <1>2, <2>2
  <2>4. \A d \in Callers : CallNext(call'[d])
    BY <1>4, <2>1, <2>3 DEF CallNext
  <2>5. QED
    BY <1>3, <2>1, <2>3, <2>4, ClientNext DEF ClientInv
<1>9. CASE Quit(c)
  <2>1. client' = 0 /\ UNCHANGED <<workers, open, sockets, resolved>> /\ client \notin open
    BY <1>3, <1>9 DEF Quit, Cleared, Ending
  <2>2. \A d \in Callers : CallNext(call'[d])
    BY <1>0, <1>2, <1>4, <1>9, Idle DEF Quit
  <2>3. \A s \in Services \ stale' : resolved'[s] = 0
    BY <1>9 DEF Quit
  <2>4. QED
    BY <1>0, <1>3, <2>1, <2>2, <2>3, ClientNext
<1>10. ASSUME NEW w \in x.todo, CloseWorker(c, w) PROVE ClientInv'
  <2>1. /\ open' = open \ {w} /\ UNCHANGED <<client, workers, sockets, resolved, stale>>
        /\ x.pc = "workers" /\ x.live /\ w \in workers /\ open \intersect workers \subseteq x.todo
    BY <1>3, <1>10 DEF CloseWorker, Closes, Closing
  <2>2. call'[c] = [x EXCEPT !.todo = @ \ {w}] /\ \A d \in Callers \ {c} : call'[d] = call[d]
    BY <1>0, <1>10 DEF CloseWorker, Closes
  <2>3. call'[c].pc = "workers" /\ call'[c].live /\ call'[c].todo = x.todo \ {w}
    BY <1>0, <2>1, <2>2 DEF CallType
  <2>4. CallNext(call'[c])
    BY <1>3, <2>1, <2>3 DEF CallNext, Closing
  <2>5. \A d \in Callers : call[d].pc # "quit"
    BY <1>2, <2>1
  <2>6. client # 0 => client \in open'
    BY <1>3, <2>1, <2>5 DEF ClientInv
  <2>7. QED
    BY <1>2, <1>3, <1>4, <2>1, <2>2, <2>4, <2>6, ClientNext DEF ClientInv
<1>11. QED
  BY <1>5, <1>6, <1>7, <1>8, <1>9, <1>10 DEF Caller

LEMMA ClientStep ==
    ASSUME Numbered, Alone, ClientInv, [ConnNext]_connVars, "client" \notin spoiled'
    PROVE  ClientInv'
<1>0. /\ call \in [Callers -> CallType] /\ NoCall.pc = "idle" /\ \A c \in Callers : call[c] \in CallType
      /\ New \notin workers /\ client # New /\ New # 0
      /\ \A c \in Callers : Before(call[c]) /\ Closing(call[c]) /\ Ending(call[c])
  BY CallTypesKept DEF Numbered, NoCall, ConnTypeOK, New, ClientInv
<1>1. ASSUME NEW n \in connecting, Ready(n) \/ Error(n) PROVE ClientInv'
  <2>1. UNCHANGED <<client, workers, open, sockets, resolved, stale>>
    BY <1>1 DEF Ready, Error, TriesAgain
  <2>2. ASSUME NEW c \in Callers, call[c].pc = "wait", call'[c].pc \in {"install", "idle"}
        PROVE  CallNext(call'[c]) /\ client = 0
    BY <1>0, <2>1, <2>2 DEF CallNext, Before
  <2>3. \A c \in Callers : \/ call'[c] = call[c]
                           \/ call[c].pc = "wait" /\ call'[c].pc \in {"install", "idle"}
    BY <1>0, <1>1 DEF Ready, Error, TriesAgain, Waiting, NoCall
  <2>4. \A c \in Callers : CallNext(call'[c])
    BY <1>0, <2>1, <2>2, <2>3 DEF CallNext, Before, Closing, Ending
  <2>5. (\A c \in Callers : call'[c].pc # "quit") => (\A c \in Callers : call[c].pc # "quit")
    BY <2>3
  <2>6. QED
    BY <2>1, <2>4, <2>5, ClientNext DEF ClientInv
<1>2. CASE UNCHANGED <<client, workers, open, sockets, call, stale>> /\ (\A s \in Services : resolved'[s] \in {resolved[s], client})
  <2>1. \A c \in Callers : CallNext(call'[c])
    BY <1>0, <1>2 DEF CallNext, Before, Closing, Ending
  <2>2. QED
    BY <1>2, <2>1, ClientNext DEF ClientInv
<1>3. ASSUME NEW n \in ready, Drop(n) PROVE ClientInv'
  BY <1>2, <1>3 DEF Drop
<1>4. ASSUME NEW s \in Services, Resolve(s) PROVE ClientInv'
  BY <1>2, <1>4 DEF Resolve
<1>5. CASE RegisterWorker
  <2>1. /\ client # 0 /\ workers' = workers \union {New} /\ open' = open \union {New}
        /\ UNCHANGED <<client, sockets, resolved, stale>>
    BY <1>5 DEF RegisterWorker
  <2>2. ASSUME NEW c \in Callers
        PROVE  /\ call'[c].pc = call[c].pc /\ call'[c].on = call[c].on /\ call'[c].live = call[c].live
               /\ call[c].live => call'[c].todo = call[c].todo \union {New}
    <3>1. call'[c] = Pushed(call[c], New)
      BY <1>0, <1>5 DEF RegisterWorker
    <3>2. QED
      BY <1>0, <3>1 DEF Pushed, CallType
  <2>3. ASSUME NEW c \in Callers PROVE CallNext(call'[c])
    BY <1>0, <2>1, <2>2 DEF CallNext, Before, Closing, Ending
  <2>4. QED
    BY <1>0, <2>1, <2>2, <2>3, ClientNext DEF ClientInv
<1>6. CASE Reset
  BY <1>6 DEF Reset
<1>7. CASE UNCHANGED connVars
  BY <1>2, <1>7 DEF connVars
<1>8. QED
  BY <1>1, <1>3, <1>4, <1>5, <1>6, <1>7, ClientBegins, ClientCaller DEF ConnNext

(***************************************************************************)
(* The connection.                                                         *)
(***************************************************************************)
LEMMA RedisStep ==
    ASSUME Numbered, Alone, RedisInv, [ConnNext]_connVars, "redis" \notin spoiled'
    PROVE  RedisInv'
<1> DEFINE Quits == \A c \in Callers : call'[c].pc = "quit" => call'[c].on = connection'
<1>0. /\ call \in [Callers -> CallType] /\ NoCall.pc = "idle" /\ \A c \in Callers : call[c] \in CallType
      /\ connecting \union ready \subseteq {connection} /\ 0 \notin connecting \union ready
      /\ \A c \in Callers : call[c].pc = "quit" => call[c].on = connection
  BY CallTypesKept DEF Numbered, NoCall, ConnTypeOK, RedisInv
<1>1. ASSUME NEW c \in Callers, Connect(c) \/ Disconnect(c) PROVE RedisInv'
  <2>1. \A d \in Callers : call[d].pc = "idle"
    BY <1>1, BeginsAlone
  <2>2. \A d \in Callers : call'[d].pc # "quit"
    <3>1. \A d \in Callers \ {c} : call'[d] = call[d]
      BY <1>0, <1>1 DEF Connect, Disconnect
    <3>2. CASE Disconnect(c)
      BY <1>0, <2>1, <3>1, <3>2 DEF Disconnect, NoCall
    <3>3. CASE Connect(c) /\ connection \in ready
      BY <1>0, <2>1, <3>1, <3>3 DEF Connect, CallType
    <3>4. CASE Connect(c) /\ connection \notin ready
      BY <1>0, <2>1, <3>1, <3>4 DEF Connect, NoCall
    <3>5. QED
      BY <1>1, <3>2, <3>3, <3>4
  <2>3. connecting' \union ready' \subseteq {connection'}
    BY <1>0, <1>1 DEF Connect, Disconnect
  <2>4. QED
    BY <2>2, <2>3 DEF RedisInv
<1>2. CASE UNCHANGED connection /\ connecting' \union ready' \subseteq connecting \union ready /\ Quits
  BY <1>0, <1>2 DEF RedisInv
<1>3. ASSUME NEW c \in Callers, Caller(c) PROVE RedisInv'
  <2>1. Quitting.pc = "quit" /\ Quitting.on = connection
    BY DEF Quitting, NoCall
  <2>2. CASE Install(c) \/ TimesOut(c)
    BY <1>0, <1>2, <2>2 DEF Install, TimesOut
  <2>3. CASE WorkersClosed(c)
    <3>1. \A d \in Callers \ {c} : call'[d].pc = call[d].pc /\ call'[d].on = call[d].on
      BY <1>0, <2>3 DEF WorkersClosed, Detached, CallType
    <3>2. call'[c] = Quitting \/ call'[c].pc = "client"
      BY <1>0, <2>3 DEF WorkersClosed, Detached, NoCall
    <3>3. UNCHANGED <<connection, connecting, ready>>
      BY <2>3 DEF WorkersClosed
    <3>4. QED
      BY <1>0, <1>2, <2>1, <3>1, <3>2, <3>3
  <2>4. CASE CloseClient(c)
    BY <1>0, <1>2, <2>1, <2>4 DEF CloseClient, Closes
  <2>5. CASE Quit(c)
    <3>1. call[c].pc = "quit" /\ call[c].on = connection
      BY <1>0, <2>5 DEF Quit
    <3>2. \A d \in Callers : call'[d].pc # "quit"
      BY <1>0, <2>5, <3>1 DEF Quit, Alone
    <3>3. connecting' = connecting \ {connection} /\ ready' = ready \ {connection}
      BY <2>5, <3>1 DEF Quit
    <3>4. QED
      BY <1>0, <3>2, <3>3 DEF RedisInv
  <2>6. ASSUME NEW w \in call[c].todo, CloseWorker(c, w) PROVE RedisInv'
    <3>1. \A d \in Callers : call'[d].pc = call[d].pc /\ call'[d].on = call[d].on
      BY <1>0, <2>6 DEF CloseWorker, Closes, CallType
    <3>2. QED
      BY <1>0, <1>2, <2>6, <3>1 DEF CloseWorker, Closes
  <2>7. QED
    BY <1>3, <2>2, <2>3, <2>4, <2>5, <2>6 DEF Caller
<1>4. ASSUME NEW n \in connecting, Ready(n) \/ Error(n) PROVE RedisInv'
  <2>1. \A c \in Callers : call'[c] = call[c] \/ call'[c].pc # "quit"
    BY <1>0, <1>4 DEF Ready, Error, TriesAgain, NoCall
  <2>2. QED
    BY <1>0, <1>2, <1>4, <2>1 DEF Ready, Error, TriesAgain
<1>5. ASSUME NEW n \in ready, Drop(n) PROVE RedisInv'
  BY <1>0, <1>2, <1>5 DEF Drop
<1>6. ASSUME NEW s \in Services, Resolve(s) PROVE RedisInv'
  BY <1>0, <1>2, <1>6 DEF Resolve
<1>7. CASE RegisterWorker
  <2>1. \A c \in Callers : call'[c].pc = call[c].pc /\ call'[c].on = call[c].on
    BY <1>0, <1>7 DEF RegisterWorker, Pushed, CallType
  <2>2. QED
    BY <1>0, <1>2, <1>7, <2>1 DEF RegisterWorker
<1>8. CASE Reset
  BY <1>8 DEF Reset
<1>9. CASE UNCHANGED connVars
  BY <1>0, <1>2, <1>9 DEF connVars
<1>10. QED
  BY <1>1, <1>3, <1>4, <1>5, <1>6, <1>7, <1>8, <1>9 DEF ConnNext

(***************************************************************************)
(* The theorems.                                                           *)
(***************************************************************************)
LEMMA ConnInvInit == ConnInit => ConnInv
<1>1. ConnInit => Numbered
  BY NumberedInit
<1>2. ConnInit => Alone /\ ClientInv /\ RedisInv
  BY DEF ConnInit, NoCall, Alone, ClientInv, RedisInv, Before, Closing, Ending
<1>3. QED
  BY <1>1, <1>2 DEF ConnInv, Numbered

LEMMA ConnInvStep == ConnInv /\ [ConnNext]_connVars => ConnInv'
<1>1. SUFFICES ASSUME ConnInv, [ConnNext]_connVars PROVE ConnInv'
  OBVIOUS
<1>2. Numbered /\ Numbered'
  BY <1>1, NumberedStep DEF ConnInv, Numbered
<1>3. ({"client", "redis"} \subseteq spoiled \/ Alone)'
  BY <1>1, <1>2, AloneStep DEF ConnInv
<1>4. spoiled \subseteq spoiled'
  BY <1>1, <1>2, SpoiledGrows DEF Numbered, ConnTypeOK
<1>5. ASSUME "client" \notin spoiled' PROVE ClientInv'
  BY <1>1, <1>2, <1>4, <1>5, ClientStep DEF ConnInv
<1>6. ASSUME "redis" \notin spoiled' PROVE RedisInv'
  BY <1>1, <1>2, <1>4, <1>6, RedisStep DEF ConnInv
<1>7. QED
  BY <1>2, <1>3, <1>5, <1>6 DEF ConnInv, Numbered

LEMMA ConnKeeps == ConnInv => OnlySocketsLeft /\ ClientsCurrent
  BY DEF ConnInv, OnlySocketsLeft, ClientsCurrent, ClientInv, RedisInv

\* What is open the manager knows, so that its next disconnect closes it, but for the
\* connections of the adapters: also a worker registered while a disconnect is closing the
\* others, and a connection made while an older one was in its place
\* (queue-connection-manager.ts:41-64, 195-264, bullmq.adapter.ts:35-74).
THEOREM OnlySocketsLeftAlways == ConnSpec => []OnlySocketsLeft
  BY ConnKeeps, ConnInvInit, ConnInvStep, PTL DEF ConnSpec

\* While it is connected the client the manager and the services resolved since work
\* with is an open one (queue-connection-manager.ts:49-64, 243-264, bindings.ts:101-140).
THEOREM ClientsCurrentAlways == ConnSpec => []ClientsCurrent
  BY ConnKeeps, ConnInvInit, ConnInvStep, PTL DEF ConnSpec

\* The values the variables take.
THEOREM ConnTypeCorrect == ConnSpec => []ConnTypeOK
<1>1. ConnInv => ConnTypeOK
  BY DEF ConnInv
<1>2. QED
  BY <1>1, ConnInvInit, ConnInvStep, PTL DEF ConnSpec

-----------------------------------------------------------------------------
RunType ==
    [pc : Events \union {"idle", "processing", "done"}, name : Names \union {Nothing},
     attempts : 0..MaxAttempts, span : {"live", "noop", Nothing},
     outcome : {"ok", "throws", "missing", Nothing}, answer : {"ok", "error", Nothing},
     announced : SUBSET Events, counted : SUBSET Events, broken : BOOLEAN]

EmissionType ==
    [event : Events \union {Nothing}, seen : SUBSET Handlers, hearing : Handlers \union {Nothing},
     due : SUBSET Handlers, heard : SUBSET Handlers]

\* What follows from an outcome: the event that announces it, and the answer.
Event(x) == IF x.outcome = "ok" THEN "completed" ELSE IF HandleFailure(x) THEN "retrying" ELSE "failed"

\* A run whose span has thrown no error has announced that it started and, once the processor
\* has settled, the one event of its outcome; and has counted no other.
RunOrderly(x) ==
    /\ x.pc = "started" => x.announced = {"started"} /\ x.counted = {}
    /\ x.pc = "processing" => x.announced = {"started"} /\ x.counted \subseteq {"started"}
    /\ x.pc \in Outcomes =>
         x.pc = Event(x) /\ x.announced = {"started", Event(x)} /\ x.counted \subseteq {"started"}
    /\ x.pc = "done" => /\ x.answer = IF x.outcome = "ok" THEN "ok" ELSE "error"
                        /\ x.announced = {"started", Event(x)} /\ x.counted \subseteq x.announced

\* A run whose span has thrown has been through the catch.
OrderlyRun ==
    {x \in RunType :
        /\ x.broken \/ RunOrderly(x)
        /\ x.broken => x.pc \in {"retrying", "failed", "done"}
        /\ x.pc \in {"started", "processing"} => ~x.broken}

\* The handlers that were registered for all of an emission so far are still registered,
\* and the iterator has passed none without calling it.
Heard(x) ==
    /\ x.event = Nothing => x.due = {}
    /\ x.event # Nothing => x.due \subseteq ToSet(handlers[x.event]) /\ x.seen \subseteq x.heard

PipeInv ==
    /\ processors \subseteq Names /\ handlers \in [Events -> Seq(Handlers)] /\ changes \in Nat
    /\ run \in [Runs -> OrderlyRun] /\ emission \in [Emitters -> EmissionType]
    /\ \A e \in Emitters : Heard(emission[e])

LEMMA PipeTypes == PipeInv => PipeTypeOK
<1> SUFFICES ASSUME PipeInv PROVE PipeTypeOK
  OBVIOUS
<1>1. run \in [Runs -> RunType]
  BY DEF PipeInv, OrderlyRun
<1>2. QED
  BY <1>1 DEF PipeInv, PipeTypeOK, RunType, EmissionType

LEMMA Quiet == ASSUME PipelineAssumption PROVE NoEmission \in EmissionType /\ Heard(NoEmission)
  BY DEF NoEmission, EmissionType, Heard

LEMMA Begins ==
    ASSUME PipelineAssumption, PipeInv, NEW event \in Events
    PROVE  Begin(event) \in EmissionType /\ Heard(Begin(event))
<1>1. handlers[event] \in Seq(Handlers)
  BY DEF PipeInv
<1>2. ToSet(handlers[event]) \subseteq Handlers
  BY <1>1 DEF ToSet
<1>3. QED
  BY <1>2 DEF Begin, NoEmission, EmissionType, Heard, PipelineAssumption

LEMMA PipeInvInit == ASSUME PipelineAssumption, PipeInit PROVE PipeInv
<1>1. <<>> \in Seq(Handlers)
  OBVIOUS
<1>2. handlers \in [Events -> Seq(Handlers)]
  BY <1>1 DEF PipeInit
<1>3. NoRun \in RunType
  BY DEF NoRun, RunType, Events, PipelineAssumption
<1>4. NoRun \in OrderlyRun
  BY <1>3 DEF NoRun, OrderlyRun, RunOrderly, Outcomes
<1>5. QED
  BY <1>2, <1>4, Quiet DEF PipeInit, PipeInv

(***************************************************************************)
(* The runs.                                                               *)
(***************************************************************************)
\* A step of a run: its record is one of these again, and so is its emission.
LEMMA RunSteps ==
    ASSUME PipelineAssumption, PipeInv, NEW r \in Runs, NEW y \in OrderlyRun, NEW f \in EmissionType,
           Heard(f), run' = [run EXCEPT ![r] = y], emission' = [emission EXCEPT ![<<r, "run">>] = f],
           UNCHANGED <<processors, handlers, changes>>
    PROVE  PipeInv'
<1>1. run' \in [Runs -> OrderlyRun] /\ emission' \in [Emitters -> EmissionType]
  BY DEF PipeInv
<1>2. \A e \in Emitters : Heard(emission[e])'
  <2>1. \A e \in Emitters : emission'[e] = f \/ emission'[e] = emission[e]
    BY DEF PipeInv
  <2>2. QED
    BY <2>1 DEF PipeInv, Heard
<1>3. QED
  BY <1>1, <1>2 DEF PipeInv

LEMMA Announcing ==
    ASSUME PipelineAssumption, PipeInv, NEW r \in Runs, NEW x \in RunType, NEW event \in Events,
           [x EXCEPT !.pc = event, !.announced = @ \union {event}] \in OrderlyRun,
           Announce(r, x, event), UNCHANGED <<processors, handlers, changes>>
    PROVE  PipeInv'
  BY Begins, RunSteps DEF Announce

LEMMA Finishing ==
    ASSUME PipelineAssumption, PipeInv, NEW r \in Runs, NEW x, NEW answer,
           [x EXCEPT !.pc = "done", !.answer = answer] \in OrderlyRun,
           Finish(r, x, answer), UNCHANGED <<processors, handlers, changes>>
    PROVE  PipeInv'
  BY Quiet, RunSteps DEF Finish

\* The catch: of a run that announced nothing but its start, or that is broken.
LEMMA Catching ==
    ASSUME PipelineAssumption, PipeInv, NEW r \in Runs, NEW x \in RunType,
           x.broken \/ (/\ x.outcome # "ok" /\ x.announced = {"started"} /\ x.counted \subseteq {"started"}),
           Catch(r, x), UNCHANGED <<processors, handlers, changes>>
    PROVE  PipeInv'
<1> DEFINE event == IF HandleFailure(x) THEN "retrying" ELSE "failed"
<1>1. event \in Events
  BY DEF Events, Outcomes
<1>2. CASE Announce(r, x, event)
  <2> DEFINE y == [x EXCEPT !.pc = event, !.announced = @ \union {event}]
  <2>1. y \in RunType
    BY <1>1 DEF RunType
  <2>2. /\ y.pc = event /\ y.broken = x.broken /\ y.outcome = x.outcome /\ y.counted = x.counted
        /\ y.announced = x.announced \union {event} /\ HandleFailure(y) = HandleFailure(x)
    BY DEF RunType, HandleFailure
  <2> HIDE DEF y
  <2>3. x.broken \/ RunOrderly(y)
    BY <2>2 DEF RunOrderly, Event, Outcomes
  <2>4. y \in OrderlyRun
    BY <2>1, <2>2, <2>3 DEF OrderlyRun
  <2>5. QED
    BY <1>1, <1>2, <2>4, Announcing DEF y
<1>3. CASE Finish(r, [x EXCEPT !.broken = TRUE], "error")
  <2> DEFINE y == [[x EXCEPT !.broken = TRUE] EXCEPT !.pc = "done", !.answer = "error"]
  <2>1. y \in RunType /\ y.broken /\ y.pc = "done"
    BY DEF RunType
  <2>2. y \in OrderlyRun
    BY <2>1 DEF OrderlyRun
  <2>3. QED
    BY <1>3, <2>2, Finishing
<1>4. QED
  BY <1>2, <1>3 DEF Catch

LEMMA RunOf ==
    ASSUME PipeInv, NEW r \in Runs
    PROVE  run[r] \in RunType /\ run[r] \in OrderlyRun /\ run[r].counted \subseteq Events
  BY DEF PipeInv, OrderlyRun, RunType

\* The metrics of an event change nothing but what is counted.
LEMMA Counts ==
    ASSUME NEW z \in RunType, z.pc \in Events, NEW x \in Counted(z)
    PROVE  /\ x \in RunType /\ x.pc = z.pc /\ x.outcome = z.outcome /\ x.announced = z.announced
           /\ x.broken = z.broken /\ HandleFailure(x) = HandleFailure(z)
           /\ x.counted \subseteq z.counted \union {z.pc}
<1>1. z.pc \in Events /\ z.counted \subseteq Events
  BY DEF RunType
<1>2. CASE x = z
  BY <1>2
<1>3. CASE x = [z EXCEPT !.counted = z.counted \union {z.pc}]
  BY <1>1, <1>3 DEF RunType, HandleFailure
<1>4. QED
  BY <1>2, <1>3 DEF Counted

LEMMA ProcessJobSafe ==
    ASSUME PipelineAssumption, PipeInv, NEW r \in Runs, NEW name \in Names, NEW attempts \in 0..MaxAttempts,
           ProcessJob(r, name, attempts)
    PROVE  PipeInv'
<1>1. PICK span \in {"live", "noop"} :
         Announce(r, [NoRun EXCEPT !.name = name, !.attempts = attempts, !.span = span], "started")
  BY DEF ProcessJob
<1> DEFINE x == [NoRun EXCEPT !.name = name, !.attempts = attempts, !.span = span]
           y == [x EXCEPT !.pc = "started", !.announced = @ \union {"started"}]
<1>2. /\ x \in RunType /\ x.announced = {} /\ x.counted = {} /\ x.broken = FALSE
      /\ "started" \in Events
  BY DEF NoRun, RunType, Events
<1> HIDE DEF x
<1>3. y \in RunType /\ y.pc = "started" /\ y.announced = {"started"} /\ y.counted = {} /\ y.broken = FALSE
  BY <1>2 DEF RunType
<1> HIDE DEF y
<1>4. y \in OrderlyRun
  BY <1>3 DEF OrderlyRun, RunOrderly, Outcomes
<1>5. QED
  BY <1>1, <1>2, <1>4, Announcing DEF x, y, ProcessJob

LEMMA StartedSafe ==
    ASSUME PipelineAssumption, PipeInv, NEW r \in Runs, Started(r)
    PROVE  PipeInv'
<1>1. /\ run[r].pc = "started" /\ run[r] \in RunType /\ run[r] \in OrderlyRun /\ "started" \in Events
      /\ UNCHANGED <<processors, handlers, changes>>
  BY RunOf DEF Started, Events
<1>2. run[r].announced = {"started"} /\ run[r].counted = {} /\ ~run[r].broken
  BY <1>1 DEF OrderlyRun, RunOrderly
<1>3. PICK x \in Counted(run[r]) :
         IF x.name \in processors
         THEN /\ run' = [run EXCEPT ![r] = [x EXCEPT !.pc = "processing"]]
              /\ emission' = [emission EXCEPT ![<<r, "run">>] = NoEmission]
         ELSE Catch(r, [x EXCEPT !.outcome = "missing"])
  BY DEF Started
<1>4. /\ x \in RunType /\ x.announced = {"started"} /\ ~x.broken /\ x.counted \subseteq {"started"}
  BY <1>1, <1>2, Counts
<1>5. CASE x.name \in processors
  <2> DEFINE y == [x EXCEPT !.pc = "processing"]
  <2>1. /\ y \in RunType /\ y.pc = "processing" /\ y.announced = x.announced /\ y.counted = x.counted
        /\ y.broken = x.broken
    BY <1>4 DEF RunType
  <2> HIDE DEF y
  <2>2. y \in OrderlyRun
    BY <1>4, <2>1 DEF OrderlyRun, RunOrderly, Outcomes
  <2>3. QED
    BY <1>1, <1>3, <1>5, <2>2, Quiet, RunSteps DEF y
<1>6. CASE x.name \notin processors
  <2> DEFINE y == [x EXCEPT !.outcome = "missing"]
  <2>1. /\ y \in RunType /\ y.outcome = "missing" /\ y.announced = x.announced /\ y.counted = x.counted
    BY <1>4 DEF RunType
  <2> HIDE DEF y
  <2>2. QED
    BY <1>1, <1>3, <1>4, <1>6, <2>1, Catching DEF y
<1>7. QED
  BY <1>5, <1>6

LEMMA ProcessedSafe ==
    ASSUME PipelineAssumption, PipeInv, NEW r \in Runs, NEW outcome \in {"ok", "throws"}, Processed(r, outcome)
    PROVE  PipeInv'
<1> DEFINE x == [run[r] EXCEPT !.outcome = outcome]
<1>1. /\ run[r].pc = "processing" /\ run[r] \in RunType /\ run[r] \in OrderlyRun /\ "completed" \in Events
      /\ UNCHANGED <<processors, handlers, changes>>
  BY RunOf DEF Processed, Events, Outcomes
<1>2. run[r].announced = {"started"} /\ run[r].counted \subseteq {"started"} /\ ~run[r].broken
  BY <1>1 DEF OrderlyRun, RunOrderly
<1>3. /\ x \in RunType /\ x.outcome = outcome /\ x.announced = {"started"} /\ x.counted \subseteq {"started"}
      /\ ~x.broken
  BY <1>1, <1>2 DEF RunType
<1>4. IF outcome = "ok" THEN Announce(r, x, "completed") ELSE Catch(r, x)
  BY DEF Processed
<1> HIDE DEF x
<1>5. CASE outcome = "ok"
  <2> DEFINE y == [x EXCEPT !.pc = "completed", !.announced = @ \union {"completed"}]
  <2>1. /\ y \in RunType /\ y.pc = "completed" /\ y.outcome = "ok" /\ y.announced = {"started", "completed"}
        /\ y.counted = x.counted /\ y.broken = x.broken
    BY <1>1, <1>3, <1>5 DEF RunType
  <2> HIDE DEF y
  <2>2. y \in OrderlyRun
    BY <1>3, <2>1 DEF OrderlyRun, RunOrderly, Event, Outcomes
  <2>3. QED
    BY <1>1, <1>3, <1>4, <1>5, <2>2, Announcing DEF y
<1>6. CASE outcome = "throws"
  BY <1>1, <1>3, <1>4, <1>6, Catching
<1>7. QED
  BY <1>5, <1>6

LEMMA AnnouncedSafe ==
    ASSUME PipelineAssumption, PipeInv, NEW r \in Runs, Announced(r)
    PROVE  PipeInv'
<1>1. /\ run[r].pc \in Outcomes /\ run[r].pc \in Events /\ run[r] \in RunType /\ run[r] \in OrderlyRun
      /\ UNCHANGED <<processors, handlers, changes>>
  BY RunOf DEF Announced, Events
<1>2. PICK x \in Counted(run[r]) : IF x.pc = "completed" THEN Complete(r, x) ELSE Finish(r, x, "error")
  BY DEF Announced
<1>3. /\ x \in RunType /\ x.pc = run[r].pc /\ x.outcome = run[r].outcome /\ x.announced = run[r].announced
      /\ x.broken = run[r].broken /\ HandleFailure(x) = HandleFailure(run[r])
      /\ x.counted \subseteq run[r].counted \union {run[r].pc}
  BY <1>1, Counts
<1>4. /\ x.broken => x.pc \in {"retrying", "failed"}
      /\ ~x.broken => /\ x.pc = Event(x) /\ x.announced = {"started", Event(x)}
                      /\ x.counted \subseteq x.announced
  <2>1. /\ run[r].broken => run[r].pc \in {"retrying", "failed"}
        /\ ~run[r].broken => /\ run[r].pc = Event(run[r]) /\ run[r].announced = {"started", Event(run[r])}
                             /\ run[r].counted \subseteq {"started"}
    BY <1>1 DEF OrderlyRun, RunOrderly, Outcomes
  <2>2. Event(x) = Event(run[r])
    BY <1>3 DEF Event
  <2>3. QED
    BY <1>3, <2>1, <2>2
<1>5. ASSUME NEW answer \in {"ok", "error"}, Finish(r, x, answer),
             x.broken \/ (answer = "ok" <=> x.outcome = "ok")
      PROVE  PipeInv'
  <2> DEFINE y == [x EXCEPT !.pc = "done", !.answer = answer]
  <2>1. /\ y \in RunType /\ y.pc = "done" /\ y.answer = answer /\ y.outcome = x.outcome
        /\ y.announced = x.announced /\ y.counted = x.counted /\ y.broken = x.broken
        /\ HandleFailure(y) = HandleFailure(x)
    BY <1>3 DEF RunType, HandleFailure
  <2> HIDE DEF y
  <2>2. Event(y) = Event(x)
    BY <2>1 DEF Event
  <2>3. y \in OrderlyRun
    BY <1>4, <1>5, <2>1, <2>2 DEF OrderlyRun, RunOrderly, Outcomes
  <2>4. QED
    BY <1>1, <1>5, <2>3, Finishing DEF y
<1>6. CASE x.pc = "completed"
  <2>1. x.outcome = "ok" /\ ~x.broken
    BY <1>4, <1>6 DEF Event
  <2>2. CASE Finish(r, x, "ok")
    BY <1>5, <2>1, <2>2
  <2>3. CASE x.span = "live" /\ Catch(r, [x EXCEPT !.broken = TRUE])
    <3> DEFINE y == [x EXCEPT !.broken = TRUE]
    <3>1. y \in RunType /\ y.broken
      BY <1>3 DEF RunType
    <3> HIDE DEF y
    <3>2. QED
      BY <1>1, <2>3, <3>1, Catching DEF y
  <2>4. QED
    BY <1>2, <1>6, <2>2, <2>3 DEF Complete
<1>7. CASE x.pc # "completed"
  <2>1. x.broken \/ x.outcome # "ok"
    BY <1>4, <1>7 DEF Event
  <2>2. QED
    BY <1>2, <1>5, <1>7, <2>1
<1>8. QED
  BY <1>6, <1>7

LEMMA ReturnSafe == ASSUME PipelineAssumption, PipeInv, NEW r \in Runs, Return(r) PROVE PipeInv'
<1>1. NoRun \in OrderlyRun
  <2>1. NoRun \in RunType
    BY DEF NoRun, RunType, Events, PipelineAssumption
  <2>2. QED
    BY <2>1 DEF NoRun, OrderlyRun, RunOrderly, Outcomes
<1>2. run' \in [Runs -> OrderlyRun]
  BY <1>1 DEF Return, PipeInv
<1>3. QED
  BY <1>2 DEF Return, PipeInv, Heard

(***************************************************************************)
(* The emissions, and the handlers that come and go.                       *)
(***************************************************************************)
\* A step of an emission.
LEMMA EmissionSteps ==
    ASSUME PipeInv, NEW e \in Emitters, NEW f \in EmissionType, Heard(f),
           emission' = [emission EXCEPT ![e] = f], UNCHANGED <<processors, handlers, changes, run>>
    PROVE  PipeInv'
<1>1. emission' \in [Emitters -> EmissionType] /\ \A d \in Emitters : emission'[d] \in {f, emission[d]}
  BY DEF PipeInv
<1>2. QED
  BY <1>1 DEF PipeInv, Heard

LEMMA EmitterSafe == ASSUME PipelineAssumption, PipeInv, NEW e \in Emitters, Emitter(e) PROVE PipeInv'
<1> DEFINE x == emission[e]
<1>1. x \in EmissionType /\ Heard(x)
  BY DEF PipeInv
<1>2. CASE Hear(e)
  <2>1. x.event \in Events /\ handlers[x.event] \in Seq(Handlers)
    BY <1>1, <1>2 DEF Hear, EmissionType, PipeInv
  <2>2. PICK n \in Rest(x) :
           emission' = [emission EXCEPT ![e] =
              [x EXCEPT !.seen = @ \union {handlers[x.event][n]}, !.hearing = handlers[x.event][n],
                        !.heard = @ \union {handlers[x.event][n]}]]
    BY <1>2 DEF Hear
  <2> DEFINE h == handlers[x.event][n]
             y == [x EXCEPT !.seen = @ \union {h}, !.hearing = h, !.heard = @ \union {h}]
  <2>3. h \in Handlers
    BY <2>1, <2>2 DEF Rest
  <2> HIDE DEF h
  <2>4. /\ y \in EmissionType /\ y.event = x.event /\ y.due = x.due /\ y.seen = x.seen \union {h}
        /\ y.heard = x.heard \union {h}
    BY <1>1, <2>3 DEF EmissionType
  <2>5. emission' = [emission EXCEPT ![e] = y] /\ UNCHANGED <<processors, handlers, changes, run>>
    BY <1>2, <2>2 DEF Hear, h
  <2> HIDE DEF y
  <2>6. Heard(y)
    BY <1>1, <2>4 DEF Heard
  <2>7. QED
    BY <2>4, <2>5, <2>6, EmissionSteps
<1>3. CASE Settle(e)
  <2> DEFINE y == [x EXCEPT !.hearing = Nothing]
  <2>1. /\ y \in EmissionType /\ y.event = x.event /\ y.due = x.due /\ y.seen = x.seen /\ y.heard = x.heard
    BY <1>1 DEF EmissionType
  <2>2. emission' = [emission EXCEPT ![e] = y] /\ UNCHANGED <<processors, handlers, changes, run>>
    BY <1>3 DEF Settle, PipeInv
  <2> HIDE DEF y
  <2>3. Heard(y)
    BY <1>1, <2>1 DEF Heard
  <2>4. QED
    BY <2>1, <2>2, <2>3, EmissionSteps
<1>4. QED
  BY <1>2, <1>3 DEF Emitter

LEMMA ProgressSafe ==
    ASSUME PipelineAssumption, PipeInv, NEW r \in Runs, Report(r) \/ ProgressHeard(r)
    PROVE  PipeInv'
<1>1. <<r, "progress">> \in Emitters /\ "progress" \in Events
  BY DEF Emitters, Events
<1>2. QED
  BY <1>1, Begins, Quiet, EmissionSteps DEF Report, ProgressHeard

\* A handler keeps its place when another one joins, or leaves.
LEMMA Joins ==
    ASSUME NEW s \in Seq(Handlers), NEW h \in Handlers
    PROVE  Append(s, h) \in Seq(Handlers) /\ ToSet(s) \subseteq ToSet(Append(s, h))
<1>1. /\ Append(s, h) \in Seq(Handlers) /\ Len(Append(s, h)) = Len(s) + 1
      /\ \A n \in 1..Len(s) : Append(s, h)[n] = s[n]
  OBVIOUS
<1>2. DOMAIN s = 1..Len(s) /\ DOMAIN Append(s, h) = 1..(Len(s) + 1) /\ Len(s) \in Nat
  BY <1>1
<1>3. \A n \in DOMAIN s : n \in DOMAIN Append(s, h)
  BY <1>2
<1>4. QED
  BY <1>1, <1>2, <1>3 DEF ToSet

LEMMA Leaves ==
    ASSUME NEW s \in Seq(Handlers), NEW n \in DOMAIN s
    PROVE  RemoveAt(s, n) \in Seq(Handlers) /\ ToSet(s) \ {s[n]} \subseteq ToSet(RemoveAt(s, n))
<1> DEFINE u == SubSeq(s, 1, n - 1)
           v == SubSeq(s, n + 1, Len(s))
<1>1. n \in 1..Len(s) /\ Len(s) \in Nat /\ DOMAIN s = 1..Len(s)
  OBVIOUS
<1>2. /\ u \in Seq(Handlers) /\ Len(u) = n - 1 /\ \A m \in 1..(n - 1) : u[m] = s[m]
  BY <1>1, SubSeqProperties
<1>3. /\ v \in Seq(Handlers) /\ Len(v) = Len(s) - n /\ \A m \in 1..(Len(s) - n) : v[m] = s[n + m]
  <2>1. \A i \in (n + 1)..Len(s) : s[i] \in Handlers
    BY <1>1
  <2>2. /\ v \in Seq(Handlers) /\ Len(v) = IF n + 1 <= Len(s) THEN Len(s) - (n + 1) + 1 ELSE 0
        /\ \A m \in 1..(Len(s) - (n + 1) + 1) : v[m] = s[(n + 1) + m - 1]
    BY <1>1, <2>1, SubSeqProperties
  <2>3. QED
    BY <1>1, <2>2
<1> HIDE DEF u, v
<1>4. /\ u \o v \in Seq(Handlers) /\ Len(u \o v) = Len(s) - 1
      /\ \A m \in 1..(Len(s) - 1) : (u \o v)[m] = IF m <= n - 1 THEN u[m] ELSE v[m - (n - 1)]
  <2>1. (n - 1) + (Len(s) - n) = Len(s) - 1
    BY <1>1
  <2>2. /\ u \o v \in Seq(Handlers) /\ Len(u \o v) = Len(u) + Len(v)
        /\ \A m \in 1..(Len(u) + Len(v)) : (u \o v)[m] = IF m <= Len(u) THEN u[m] ELSE v[m - Len(u)]
    BY <1>2, <1>3, ConcatProperties
  <2>3. Len(u) = n - 1 /\ Len(u) + Len(v) = Len(s) - 1
    BY <1>2, <1>3, <2>1
  <2>4. QED
    BY <2>2, <2>3
<1>5. ASSUME NEW m \in 1..Len(s), m # n PROVE \E k \in 1..(Len(s) - 1) : (u \o v)[k] = s[m]
  <2>1. CASE m < n
    <3>1. m \in 1..(n - 1) /\ m \in 1..(Len(s) - 1) /\ m <= n - 1
      BY <1>1, <2>1
    <3>2. QED
      BY <1>2, <1>4, <3>1
  <2>2. CASE m > n
    <3>1. /\ m - n \in 1..(Len(s) - n) /\ m - 1 \in 1..(Len(s) - 1) /\ ~(m - 1 <= n - 1)
          /\ (m - 1) - (n - 1) = m - n /\ n + (m - n) = m
      BY <1>1, <2>2
    <3>2. v[m - n] = s[m]
      BY <1>3, <3>1
    <3>3. (u \o v)[m - 1] = v[(m - 1) - (n - 1)]
      BY <1>4, <3>1
    <3>4. QED
      BY <3>1, <3>2, <3>3
  <2>3. m < n \/ m > n
    BY <1>1, <1>5
  <2>4. QED
    BY <2>1, <2>2, <2>3
<1>6. DOMAIN (u \o v) = 1..(Len(s) - 1)
  BY <1>4
<1>7. RemoveAt(s, n) = u \o v
  BY DEF RemoveAt, u, v
<1>8. ASSUME NEW h \in ToSet(s) \ {s[n]} PROVE h \in ToSet(u \o v)
  <2>1. PICK m \in 1..Len(s) : h = s[m] /\ m # n
    BY <1>1, <1>8 DEF ToSet
  <2>2. QED
    BY <1>5, <1>6, <2>1 DEF ToSet
<1>9. QED
  BY <1>4, <1>7, <1>8

LEMMA OnSafe ==
    ASSUME PipelineAssumption, PipeInv, NEW event \in Watched, NEW h \in Handlers, On(event, h)
    PROVE  PipeInv'
<1>1. event \in Events /\ handlers[event] \in Seq(Handlers)
  BY DEF PipelineAssumption, PipeInv
<1>2. PICK s \in {handlers[event], Append(handlers[event], h)} : handlers' = [handlers EXCEPT ![event] = s]
  BY DEF On
<1>3. s \in Seq(Handlers) /\ ToSet(handlers[event]) \subseteq ToSet(s)
  BY <1>1, Joins
<1>4. /\ handlers' \in [Events -> Seq(Handlers)]
      /\ \A d \in Events : ToSet(handlers[d]) \subseteq ToSet(handlers'[d])
  BY <1>1, <1>2, <1>3 DEF PipeInv
<1>5. /\ changes' \in Nat /\ UNCHANGED <<processors, run, emission>>
  BY DEF On, Change, PipeInv
<1>6. ASSUME NEW e \in Emitters PROVE Heard(emission[e])'
  <2>1. Heard(emission[e]) /\ emission[e].event \in Events \union {Nothing}
    BY DEF PipeInv, EmissionType
  <2>2. QED
    BY <1>4, <1>5, <2>1 DEF Heard
<1>7. QED
  BY <1>4, <1>5, <1>6 DEF PipeInv

LEMMA OffSafe ==
    ASSUME PipelineAssumption, PipeInv, NEW event \in Watched, NEW h \in Handlers, Off(event, h)
    PROVE  PipeInv'
<1>1. event \in Events /\ handlers[event] \in Seq(Handlers) /\ Nothing \notin Events
  BY DEF PipelineAssumption, PipeInv
<1>2. PICK n \in DOMAIN handlers[event] :
         handlers[event][n] = h /\ handlers' = [handlers EXCEPT ![event] = RemoveAt(handlers[event], n)]
  BY DEF Off
<1>3. /\ RemoveAt(handlers[event], n) \in Seq(Handlers)
      /\ ToSet(handlers[event]) \ {h} \subseteq ToSet(RemoveAt(handlers[event], n))
  BY <1>1, <1>2, Leaves
<1>4. /\ handlers' \in [Events -> Seq(Handlers)]
      /\ ToSet(handlers[event]) \ {h} \subseteq ToSet(handlers'[event])
      /\ \A d \in Events \ {event} : handlers'[d] = handlers[d]
  BY <1>1, <1>2, <1>3 DEF PipeInv
<1>5. /\ changes' \in Nat /\ UNCHANGED <<processors, run>>
      /\ \A e \in Emitters : emission'[e] =
            IF emission[e].event # event THEN emission[e]
            ELSE [emission[e] EXCEPT !.seen = @ \ {h}, !.due = @ \ {h}]
  <2>1. Change /\ UNCHANGED <<processors, run>>
    BY Zenon DEF Off
  <2>2. changes' \in Nat
    BY <2>1 DEF Change, PipeInv
  <2>3. QED
    BY Zenon, <2>1, <2>2 DEF Off
<1>6. ASSUME NEW e \in Emitters PROVE emission'[e] \in EmissionType /\ Heard(emission[e])'
  <2>1. Heard(emission[e]) /\ emission[e] \in EmissionType /\ emission[e].event \in Events \union {Nothing}
    BY DEF PipeInv, EmissionType
  <2>2. CASE emission[e].event # event
    BY <1>4, <1>5, <2>1, <2>2 DEF Heard
  <2>3. CASE emission[e].event = event
    <3> DEFINE y == [emission[e] EXCEPT !.seen = @ \ {h}, !.due = @ \ {h}]
    <3>1. /\ y \in EmissionType /\ y.event = event /\ y.seen = emission[e].seen \ {h}
          /\ y.due = emission[e].due \ {h} /\ y.heard = emission[e].heard
      BY <2>1, <2>3 DEF EmissionType
    <3>2. emission'[e] = y
      BY <1>5, <2>3
    <3> HIDE DEF y
    <3>3. QED
      BY <1>1, <1>4, <2>1, <2>3, <3>1, <3>2 DEF Heard
  <2>4. QED
    BY <2>2, <2>3
<1>7. emission' \in [Emitters -> EmissionType]
  <2>1. emission' = [e \in Emitters |-> emission'[e]]
    BY DEF Off
  <2>2. QED
    BY <1>6, <2>1
<1>8. QED
  BY <1>4, <1>5, <1>6, <1>7 DEF PipeInv

LEMMA PipeInvStep == ASSUME PipelineAssumption, PipeInv, [PipeNext]_pipeVars PROVE PipeInv'
<1>1. CASE UNCHANGED pipeVars
  BY <1>1 DEF pipeVars, PipeInv, Heard
<1>2. ASSUME NEW name \in Names, RegisterProcessor(name) \/ Unregister(name) PROVE PipeInv'
  BY <1>2 DEF RegisterProcessor, Unregister, PipeInv, Heard
<1>3. ASSUME NEW r \in Runs, Runner(r) PROVE PipeInv'
  BY <1>3, StartedSafe, AnnouncedSafe, ProcessedSafe DEF Runner
<1>4. QED
  BY <1>1, <1>2, <1>3, OnSafe, OffSafe, EmitterSafe, ProcessJobSafe, ProgressSafe, ReturnSafe DEF PipeNext

\* The values the variables of the pipeline take (job-processing-orchestrator.ts:24-175).
THEOREM PipeTypeCorrect == ASSUME PipelineAssumption PROVE PipeSpec => []PipeTypeOK
<1>1. PipeInit => PipeInv
  BY PipeInvInit
<1>2. PipeInv /\ [PipeNext]_pipeVars => PipeInv'
  BY PipeInvStep
<1>3. QED
  BY <1>1, <1>2, PipeTypes, PTL DEF PipeSpec

LEMMA PipeKeeps == ASSUME PipelineAssumption PROVE PipeInv => OutcomeStands /\ AllHear
<1>1. PipeInv => OutcomeStands
  <2> SUFFICES ASSUME PipeInv, NEW r \in Runs, run[r].pc = "done", ~run[r].broken
               PROVE  LET x == run[r]
                      IN  /\ x.answer = IF x.outcome = "ok" THEN "ok" ELSE "error"
                          /\ \E event \in Outcomes :
                                /\ x.announced \ {"started"} = {event}
                                /\ event = "completed" <=> x.outcome = "ok"
                                /\ event = "failed" => ~TriedAgain(x)
                                /\ event = "retrying" => TriedAgain(x) \/ x.attempts + 1 = MaxAttempts
                          /\ x.counted \subseteq x.announced
    BY DEF OutcomeStands
  <2> DEFINE x == run[r]
             event == Event(x)
  <2>1. RunOrderly(x)
    BY RunOf DEF OrderlyRun
  <2>2. x.attempts \in Nat /\ MaxAttempts \in Nat
    BY RunOf DEF OrderlyRun, RunType, PipelineAssumption
  <2>3. event \in Outcomes /\ event # "started" /\ (event = "completed" <=> x.outcome = "ok")
    BY DEF Event, Outcomes
  <2>4. event = "failed" => ~(x.attempts < MaxAttempts)
    BY DEF Event, HandleFailure
  <2>5. event = "retrying" => x.attempts < MaxAttempts
    BY DEF Event, HandleFailure
  <2>6. /\ event = "failed" => ~TriedAgain(x)
        /\ event = "retrying" => TriedAgain(x) \/ x.attempts + 1 = MaxAttempts
    BY <2>2, <2>4, <2>5 DEF TriedAgain
  <2> HIDE DEF event
  <2>7. QED
    BY <2>1, <2>3, <2>6 DEF RunOrderly, event
<1>2. PipeInv => AllHear
  <2> SUFFICES ASSUME PipeInv, NEW e \in Emitters, Over(emission[e])
               PROVE  emission[e].due \subseteq emission[e].heard
    BY DEF AllHear
  <2>1. Heard(emission[e])
    BY DEF PipeInv
  <2>2. CASE emission[e].event = Nothing
    BY <2>1, <2>2 DEF Heard
  <2>3. CASE emission[e].event # Nothing
    <3>1. ToSet(handlers[emission[e].event]) \subseteq emission[e].seen
      BY <2>3 DEF Over, Rest, ToSet
    <3>2. QED
      BY <2>1, <2>3, <3>1 DEF Heard
  <2>4. QED
    BY <2>2, <2>3
<1>3. QED
  BY <1>1, <1>2

\* processJob answers what the processor did and announces one outcome, the true one but
\* after the last attempt, for any number of jobs at once
\* (job-processing-orchestrator.ts:58-175, job-retry-coordinator.ts:34-62).
THEOREM OutcomeStandsAlways == ASSUME PipelineAssumption PROVE PipeSpec => []OutcomeStands
<1>1. PipeInit => PipeInv
  BY PipeInvInit
<1>2. PipeInv /\ [PipeNext]_pipeVars => PipeInv'
  BY PipeInvStep
<1>3. QED
  BY <1>1, <1>2, PipeKeeps, PTL DEF PipeSpec

\* A handler that is registered for the whole of an emission hears it, for any number of
\* handlers that come and go (event-coordinator.ts:151-178).
THEOREM AllHearAlways == ASSUME PipelineAssumption PROVE PipeSpec => []AllHear
<1>1. PipeInit => PipeInv
  BY PipeInvInit
<1>2. PipeInv /\ [PipeNext]_pipeVars => PipeInv'
  BY PipeInvStep
<1>3. QED
  BY <1>1, <1>2, PipeKeeps, PTL DEF PipeSpec

(***************************************************************************)
(* StatusQueries.                                                          *)
(***************************************************************************)
QueryType ==
    [kind : Listings \union {"counts", "stats", Absent}, todo : Seq(JobStatuses),
     asked : SUBSET JobStatuses, counted : SUBSET (Jobs \X JobStatuses), page : SUBSET Jobs,
     list : Seq(Jobs \X (JobStatuses \union {Absent})), failed : BOOLEAN]

Hash == {"delay", "processedOn", "finishedOn", "failedReason"}

LEMMA Meanings ==
    ASSUME QueryAssumption
    PROVE  /\ \A state \in States : /\ ToJobStatus(state) \in JobStatuses /\ state \in Meant(ToJobStatus(state))
                                   /\ \A status \in Told(state) : state \in Meant(status)
           /\ \A status \in JobStatuses : /\ MapStatusToStates(status) = Meant(status) \ {"prioritized"}
                                         /\ GetBullmqStatuses(status) = Meant(status)
                                         /\ Meant(status) \subseteq States
           /\ Absent \notin States /\ Absent \notin JobStatuses
           /\ \A state \in States \union {Absent} : Told(state) \subseteq JobStatuses
<1>1. /\ Absent \notin States /\ Absent \notin JobStatuses
  BY DEF QueryAssumption
<1>2. ASSUME NEW state \in States
      PROVE  /\ ToJobStatus(state) \in JobStatuses /\ state \in Meant(ToJobStatus(state))
             /\ \A status \in Told(state) : state \in Meant(status) /\ status \in JobStatuses
  BY <1>1 DEF States, WaitLists, JobStatuses, ToJobStatus, Meant, Told
<1>3. Told(Absent) \subseteq JobStatuses
  BY <1>1 DEF Told, ToJobStatus, JobStatuses, States, WaitLists
<1>4. ASSUME NEW status \in JobStatuses
      PROVE  /\ MapStatusToStates(status) = Meant(status) \ {"prioritized"}
             /\ GetBullmqStatuses(status) = Meant(status) /\ Meant(status) \subseteq States
  <2>1. MapStatusToStates(status) = Meant(status) \ {"prioritized"}
    BY DEF JobStatuses, MapStatusToStates, Meant, WaitLists
  <2>2. GetBullmqStatuses(status) = Meant(status)
    <3>1. CASE status \in {"PENDING", "WAITING"}
      BY <2>1, <3>1 DEF GetBullmqStatuses, Meant, WaitLists
    <3>2. CASE status \notin {"PENDING", "WAITING"}
      BY <2>1, <3>2 DEF GetBullmqStatuses, Meant, JobStatuses
    <3>3. QED
      BY <3>1, <3>2
  <2>3. Meant(status) \subseteq States
    BY DEF JobStatuses, Meant, States, WaitLists
  <2>4. QED
    BY <2>1, <2>2, <2>3
<1>5. QED
  BY <1>1, <1>2, <1>3, <1>4

LEMMA QueryTypes ==
    QueryTypeOK <=> /\ jobState \in [Jobs -> States \union {Absent}] /\ shifted \subseteq Jobs
                    /\ fields \in [Jobs -> SUBSET Hash] /\ query \in QueryType
  BY DEF QueryTypeOK, QueryType, Hash

\* A sequence, its head and its tail.
LEMMA TodoShifts ==
    ASSUME NEW T, NEW s \in Seq(T), s # <<>>
    PROVE  Head(s) \in T /\ Tail(s) \in Seq(T) /\ ToSet(s) = {Head(s)} \union ToSet(Tail(s))
<1>1. /\ Head(s) = s[1] /\ DOMAIN s = 1..Len(s) /\ Len(s) \in Nat /\ Len(s) >= 1
      /\ Tail(s) \in Seq(T) /\ Len(Tail(s)) = Len(s) - 1 /\ DOMAIN Tail(s) = 1..(Len(s) - 1)
      /\ \A n \in 1..(Len(s) - 1) : Tail(s)[n] = s[n + 1]
  OBVIOUS
<1>2. 1 \in DOMAIN s /\ \A n \in DOMAIN s : n = 1 \/ n - 1 \in DOMAIN Tail(s)
  BY <1>1
<1>3. \A n \in DOMAIN Tail(s) : n + 1 \in DOMAIN s
  BY <1>1
<1>4. \A n \in DOMAIN s : n = 1 \/ s[n] = Tail(s)[n - 1]
  BY <1>1, <1>2
<1>5. ToSet(s) \subseteq {Head(s)} \union ToSet(Tail(s))
  BY <1>1, <1>2, <1>4 DEF ToSet
<1>6. {Head(s)} \union ToSet(Tail(s)) \subseteq ToSet(s)
  BY <1>1, <1>2, <1>3 DEF ToSet
<1>7. QED
  BY <1>1, <1>5, <1>6

(***************************************************************************)
(* What each step does to the query.                                       *)
(***************************************************************************)
LEMMA NoQueryType == ASSUME QueryAssumption PROVE NoQuery \in QueryType
<1>1. <<>> \in Seq(JobStatuses) /\ <<>> \in Seq(Jobs \X (JobStatuses \union {Absent}))
  OBVIOUS
<1>2. QED
  BY <1>1 DEF NoQuery, QueryType

LEMMA StatusLists ==
    /\ Statuses \in Seq(JobStatuses) /\ Statuses \o <<"PAUSED", "DLQ">> \in Seq(JobStatuses)
    /\ Tail(Statuses) \in Seq(JobStatuses) /\ <<"DLQ">> \in Seq(JobStatuses) /\ <<"WAITING">> \in Seq(JobStatuses)
    /\ \A status \in JobStatuses : <<status>> \in Seq(JobStatuses) /\ ToSet(<<status>>) = {status}
    /\ \A s \in Seq(JobStatuses) : ToSet(s) \subseteq JobStatuses
<1>1. Statuses \in Seq(JobStatuses)
  BY DEF Statuses, JobStatuses
<1>2. \A s \in Seq(JobStatuses) : ToSet(s) \subseteq JobStatuses
  BY DEF ToSet
<1>3. Statuses # <<>>
  BY DEF Statuses
<1>4. Statuses \o <<"PAUSED", "DLQ">> \in Seq(JobStatuses) /\ Tail(Statuses) \in Seq(JobStatuses)
  <2>1. <<"PAUSED", "DLQ">> \in Seq(JobStatuses)
    BY DEF JobStatuses
  <2>2. QED
    BY <1>1, <1>3, <2>1
<1>5. ASSUME NEW status \in JobStatuses PROVE <<status>> \in Seq(JobStatuses) /\ ToSet(<<status>>) = {status}
  BY DEF ToSet
<1>6. "DLQ" \in JobStatuses /\ "WAITING" \in JobStatuses
  BY DEF JobStatuses
<1>7. QED
  BY <1>1, <1>2, <1>4, <1>5, <1>6

\* A new query about the jobs of statuses.
LEMMA AsksFor ==
    ASSUME QueryAssumption, NEW kind \in Listings \union {"counts", "stats"}, NEW statuses \in Seq(JobStatuses),
           AskFor(kind, statuses)
    PROVE  /\ query.kind = Absent /\ query' \in QueryType /\ shifted' = {} /\ UNCHANGED <<jobState, fields>>
           /\ query'.kind = kind /\ query'.todo = statuses /\ query'.asked = ToSet(statuses)
           /\ query'.counted = {} /\ query'.page = {} /\ query'.list = <<>>
<1> DEFINE q == [NoQuery EXCEPT !.kind = kind, !.todo = statuses, !.asked = ToSet(statuses)]
<1>1. ToSet(statuses) \subseteq JobStatuses
  BY StatusLists
<1>2. /\ q \in QueryType /\ q.kind = kind /\ q.todo = statuses /\ q.asked = ToSet(statuses)
      /\ q.counted = {} /\ q.page = {} /\ q.list = <<>>
  BY <1>1, NoQueryType DEF NoQuery, QueryType
<1> HIDE DEF q
<1>3. query.kind = Absent /\ query' = q /\ shifted' = {} /\ UNCHANGED <<jobState, fields>>
  BY DEF AskFor, Ask, q
<1>4. QED
  BY <1>2, <1>3

\* A new count.
LEMMA CountsBegin ==
    ASSUME QueryAssumption, GetStatusCounts \/ GetStats
    PROVE  /\ query.kind = Absent /\ query' \in QueryType /\ shifted' = {} /\ UNCHANGED <<jobState, fields>>
           /\ query'.kind \in {"counts", "stats"} /\ query'.asked = ToSet(query'.todo)
           /\ query'.counted = {} /\ query'.page = {} /\ query'.list = <<>>
<1>1. PICK kind \in {"counts", "stats"}, statuses \in Seq(JobStatuses) : AskFor(kind, statuses)
  BY StatusLists DEF GetStatusCounts, GetStats
<1>2. QED
  BY <1>1, AsksFor

BeginListing ==
    \/ GetAllJobs \/ GetDLQJobs \/ GetDeadLetters
    \/ \E kind \in {"inferred", "asked"} : GetJobsByStatus(kind) \/ \E j \in Jobs : GetJobStatus(kind, j)

\* A new listing: of the jobs of statuses, or of one job.
LEMMA ListingBegins ==
    ASSUME QueryAssumption, QueryTypeOK, BeginListing
    PROVE  /\ query.kind = Absent /\ query' \in QueryType /\ shifted' = {} /\ UNCHANGED <<jobState, fields>>
           /\ query'.kind \in Listings /\ query'.list = <<>>
           /\ query'.asked = ToSet(query'.todo)
           /\ query'.kind = "letters" => \E status \in JobStatuses : query'.asked = {status}
           /\ \/ query'.page = {}
              \/ query'.kind # "letters" /\ \E j \in Jobs : query'.page = {j}
<1>1. ASSUME NEW kind \in Listings, NEW statuses \in Seq(JobStatuses), AskFor(kind, statuses),
             kind = "letters" => \E status \in JobStatuses : ToSet(statuses) = {status}
      PROVE  /\ query.kind = Absent /\ query' \in QueryType /\ shifted' = {} /\ UNCHANGED <<jobState, fields>>
             /\ query'.kind = kind /\ query'.list = <<>>
             /\ query'.asked = ToSet(query'.todo) /\ query'.asked = ToSet(statuses) /\ query'.page = {}
  BY <1>1, AsksFor
<1>2. CASE GetAllJobs
  BY <1>1, <1>2, StatusLists DEF GetAllJobs, Listings
<1>3. CASE GetDLQJobs \/ GetDeadLetters
  <2>1. "DLQ" \in JobStatuses /\ "WAITING" \in JobStatuses /\ "letters" \in Listings
    BY DEF JobStatuses, Listings
  <2>2. QED
    BY <1>1, <1>3, <2>1, StatusLists DEF GetDLQJobs, GetDeadLetters
<1>4. ASSUME NEW kind \in {"inferred", "asked"}, GetJobsByStatus(kind)
      PROVE  \E k \in Listings \ {"letters"}, statuses \in Seq(JobStatuses) : AskFor(k, statuses)
  <2>1. PICK status \in JobStatuses \ {"DLQ"} : AskFor(kind, <<status>>)
    BY <1>4 DEF GetJobsByStatus
  <2>2. QED
    BY <2>1, StatusLists DEF Listings
<1>5. ASSUME NEW kind \in {"inferred", "asked"}, NEW j \in Jobs, GetJobStatus(kind, j)
      PROVE  /\ query.kind = Absent /\ query' \in QueryType /\ shifted' = {} /\ UNCHANGED <<jobState, fields>>
             /\ query'.kind = kind /\ query'.list = <<>>
             /\ query'.asked = {} /\ query'.todo = <<>> /\ query'.page = {j}
  <2> DEFINE q == [NoQuery EXCEPT !.kind = kind, !.page = {j}]
  <2>1. /\ q \in QueryType /\ q.kind = kind /\ q.todo = <<>> /\ q.asked = {}
        /\ q.page = {j} /\ q.list = <<>>
    BY NoQueryType DEF NoQuery, QueryType, Listings
  <2> HIDE DEF q
  <2>2. query.kind = Absent /\ query' = q /\ shifted' = {} /\ UNCHANGED <<jobState, fields>>
    BY <1>5 DEF GetJobStatus, Ask, q
  <2>3. QED
    BY <2>1, <2>2
<1>6. ToSet(<<>>) = {}
  BY DEF ToSet
<1>7. CASE \E kind \in {"inferred", "asked"} : GetJobsByStatus(kind)
  BY <1>1, <1>4, <1>7 DEF Listings
<1>8. CASE \E kind \in {"inferred", "asked"} : \E j \in Jobs : GetJobStatus(kind, j)
  BY <1>5, <1>6, <1>8 DEF Listings
<1>9. QED
  BY <1>2, <1>3, <1>7, <1>8 DEF BeginListing

\* The sequence of a set has its elements, each once.
LEMMA SetsInOrder ==
    ASSUME NEW S, IsFiniteSet(S)
    PROVE  /\ SetToSeq(S) \in Seq(S) /\ Len(SetToSeq(S)) = Cardinality(S) /\ Cardinality(S) \in Nat
           /\ ToSet(SetToSeq(S)) = S
<1> DEFINE N == Cardinality(S)
           f == SetToSeq(S)
<1>1. N \in Nat /\ ExistsBijection(1..N, S)
  BY FS_CardinalityType
<1>2. Bijection(1..N, S) # {}
  BY <1>1, Fun_ExistsBij
<1>3. \E g \in [1..N -> S] : IsInjective(g)
  BY <1>2, Fun_BijectionProperties DEF Injection
<1>4. f \in [1..N -> S] /\ IsInjective(f)
  BY <1>3 DEF SetToSeq
<1>5. f \in Injection(1..N, S)
  BY <1>4 DEF Injection
<1>6. IsFiniteSet(1..N) /\ Cardinality(1..N) = N
  BY <1>1, FS_Interval
<1>7. f \in Surjection(1..N, S)
  BY <1>5, <1>6, FS_Injection
<1> HIDE DEF f, N
<1>8. f \in Seq(S) /\ Len(f) = N /\ DOMAIN f = 1..N
  BY <1>1, <1>4
<1>9. ToSet(f) = S
  BY <1>7, <1>8 DEF Surjection, ToSet
<1>10. QED
  BY <1>1, <1>8, <1>9 DEF f, N

(***************************************************************************)
(* The inductive invariant, QueryInv: what a query has found so far, what  *)
(* it still has to read, and the jobs that moved meanwhile make up for     *)
(* what it has missed.                                                     *)
(***************************************************************************)
\* What the hash of a job says of its state.
Hashes ==
    \A j \in Jobs :
       /\ jobState[j] \in WaitLists => fields[j] \subseteq {"processedOn", "failedReason"}
       /\ jobState[j] = "delayed" => /\ "delay" \in fields[j]
                                     /\ fields[j] \subseteq {"delay", "processedOn", "failedReason"}
       /\ jobState[j] = "active" => /\ "processedOn" \in fields[j]
                                    /\ fields[j] \subseteq {"processedOn", "failedReason"}
       /\ jobState[j] = "completed" => "finishedOn" \in fields[j]
       /\ jobState[j] = "failed" => {"finishedOn", "failedReason"} \subseteq fields[j]

\* A count has nothing else of the jobs that did not move, and all that is not still to do.
CountSoFar ==
    query.kind \in {"counts", "stats"} =>
        /\ query.page = {} /\ query.list = <<>>
        /\ ~query.failed =>
              \A j \in Jobs \ shifted, status \in JobStatuses :
                 /\ <<j, status>> \in query.counted => jobState[j] \in MapStatusToStates(status)
                 /\ jobState[j] \in MapStatusToStates(status) /\ status \in query.asked =>
                       <<j, status>> \in query.counted \/ status \in ToSet(query.todo)

\* The states that are read for the statuses.
Wanted(statuses) == UNION {StatesRead(status) : status \in statuses}

InList(j) == \E n \in DOMAIN query.list : query.list[n][1] = j

Full == Len(query.list) + Cardinality(query.page) >= Limit

Bound == IF query.kind = "asked" THEN 2 * Limit ELSE Limit

Shown(j, status) ==
    /\ jobState[j] # Absent
    /\ \/ status = Absent \/ jobState[j] \in Meant(status)
       \/ query.kind = "inferred" /\ Rerun(j)

\* Only a listing reads pages, and dead letters are asked for by one status.
Asked ==
    /\ query.page # {} => query.kind \in Listings
    /\ query.kind = "letters" => \E status \in JobStatuses : query.asked = {status}

\* A job that has been where a listing looks for it has been found or is still to be found,
\* unless there is no room; what is listed of it is so; and dead letters are what they are
\* listed as.
ListSoFar ==
    query.kind \in Listings /\ ~query.failed =>
        /\ Len(query.list) + Cardinality(query.page) <= Bound
        /\ ToSet(query.todo) \subseteq query.asked
        /\ \A j \in Jobs \ shifted :
              /\ jobState[j] \in Wanted(query.asked) =>
                    Full \/ j \in query.page \/ InList(j) \/ jobState[j] \in Wanted(ToSet(query.todo))
              /\ \A n \in DOMAIN query.list : query.list[n][1] = j => Shown(j, query.list[n][2])
        /\ query.kind = "letters" =>
              \A j \in query.page \ shifted, status \in query.asked : jobState[j] \in Meant(status)

QueryInv == QueryTypeOK /\ Hashes /\ CountSoFar /\ Asked /\ ListSoFar

LEMMA QueryInvInit == ASSUME QueryAssumption, QueryInit PROVE QueryInv
<1>1. QueryTypeOK
  BY NoQueryType, QueryTypes DEF QueryInit
<1>2. Hashes
  BY DEF QueryInit, Hashes, QueryAssumption, States, WaitLists
<1>3. query.kind \notin Listings /\ query.kind \notin {"counts", "stats"}
  BY DEF QueryInit, NoQuery, QueryAssumption
<1>4. QED
  BY <1>1, <1>2, <1>3 DEF QueryInit, NoQuery, QueryInv, CountSoFar, Asked, ListSoFar, Listings

\* A job moves while the query goes on.
LEMMA MoveSafe ==
    ASSUME QueryAssumption, QueryInv, NEW j \in Jobs, MoveJob(j)
    PROVE  QueryInv'
<1>1. /\ jobState \in [Jobs -> States \union {Absent}] /\ shifted \subseteq Jobs
      /\ fields \in [Jobs -> SUBSET Hash] /\ query \in QueryType
  BY QueryTypes DEF QueryInv
<1>2. PICK from \in SUBSET (States \union {Absent}), to \in States \union {Absent}, hash \in SUBSET Hash :
         Moves(j, from, to, hash)
  <2>1. fields[j] \in SUBSET Hash
    BY <1>1
  <2>2. CASE \E list \in WaitLists :
               \/ Moves(j, {Absent}, list, {}) \/ Moves(j, {"delayed"}, list, fields[j] \ {"delay"})
               \/ Moves(j, {"active"}, list, fields[j] \union {"failedReason"})
               \/ Moves(j, {"active"}, list, fields[j]) \/ Moves(j, {"failed"}, list, {})
    BY <2>1, <2>2 DEF States, WaitLists, Hash
  <2>3. CASE \/ Moves(j, {Absent}, "delayed", {"delay"})
             \/ Moves(j, {"waiting"}, "paused", fields[j]) \/ Moves(j, {"paused"}, "waiting", fields[j])
             \/ Moves(j, {"waiting", "prioritized"}, "active", fields[j] \union {"processedOn"})
    BY <2>1, <2>3 DEF States, WaitLists, Hash
  <2>4. CASE \/ Moves(j, {"active"}, "completed", fields[j] \union {"finishedOn"})
             \/ Moves(j, {"active"}, "failed", fields[j] \union {"finishedOn", "failedReason"})
             \/ Moves(j, {"active"}, "delayed", fields[j] \union {"failedReason", "delay"})
             \/ Moves(j, {"completed", "failed"}, Absent, {})
    BY <2>1, <2>4 DEF States, Hash
  <2>5. QED
    BY <2>2, <2>3, <2>4 DEF MoveJob
<1>3. /\ jobState' = [jobState EXCEPT ![j] = to] /\ fields' = [fields EXCEPT ![j] = hash]
      /\ shifted' = (IF query.kind = Absent THEN shifted ELSE shifted \union {j}) /\ query' = query
  BY <1>2 DEF Moves
<1>4. QueryTypeOK'
  <2>1. /\ jobState' \in [Jobs -> States \union {Absent}] /\ fields' \in [Jobs -> SUBSET Hash]
        /\ shifted' \subseteq Jobs
    BY <1>1, <1>3
  <2>2. QED
    BY <1>1, <1>3, <2>1 DEF QueryTypeOK, QueryType, Hash
<1>5. Hashes'
  <2>1. \A i \in Jobs : i # j => jobState'[i] = jobState[i] /\ fields'[i] = fields[i]
    BY <1>1, <1>3
  <2>2. Absent \notin States /\ WaitLists = {"waiting", "paused", "prioritized"}
    BY DEF QueryAssumption, WaitLists
  <2> DEFINE Fits(state, left) ==
                /\ state \in WaitLists => left \subseteq {"processedOn", "failedReason"}
                /\ state = "delayed" => "delay" \in left /\ left \subseteq {"delay", "processedOn", "failedReason"}
                /\ state = "active" => "processedOn" \in left /\ left \subseteq {"processedOn", "failedReason"}
                /\ state = "completed" => "finishedOn" \in left
                /\ state = "failed" => {"finishedOn", "failedReason"} \subseteq left
  <2>3. Fits(jobState[j], fields[j])
    BY DEF QueryInv, Hashes
  <2>4. ASSUME NEW from2, NEW to2, NEW hash2, Moves(j, from2, to2, hash2)
        PROVE  jobState[j] \in from2 /\ jobState'[j] = to2 /\ fields'[j] = hash2
    BY <1>1, <2>4 DEF Moves
  <2>5. Fits(jobState'[j], fields'[j])
    <3>1. ASSUME NEW list \in WaitLists,
                 \/ Moves(j, {Absent}, list, {}) \/ Moves(j, {"failed"}, list, {})
                 \/ Moves(j, {"delayed"}, list, fields[j] \ {"delay"})
                 \/ Moves(j, {"active"}, list, fields[j] \union {"failedReason"})
                 \/ Moves(j, {"active"}, list, fields[j])
          PROVE  Fits(jobState'[j], fields'[j])
      BY <2>2, <2>3, <2>4, <3>1
    <3>2. CASE Moves(j, {Absent}, "delayed", {"delay"}) \/ Moves(j, {"completed", "failed"}, Absent, {})
      BY <2>2, <2>4, <3>2 DEF States
    <3>3. CASE \/ Moves(j, {"waiting"}, "paused", fields[j]) \/ Moves(j, {"paused"}, "waiting", fields[j])
               \/ Moves(j, {"waiting", "prioritized"}, "active", fields[j] \union {"processedOn"})
      BY <2>2, <2>3, <2>4, <3>3
    <3>4. CASE \/ Moves(j, {"active"}, "completed", fields[j] \union {"finishedOn"})
               \/ Moves(j, {"active"}, "failed", fields[j] \union {"finishedOn", "failedReason"})
               \/ Moves(j, {"active"}, "delayed", fields[j] \union {"failedReason", "delay"})
      BY <2>2, <2>3, <2>4, <3>4
    <3>5. QED
      BY <3>1, <3>2, <3>3, <3>4 DEF MoveJob
  <2>6. QED
    BY <2>1, <2>5 DEF QueryInv, Hashes
<1>6. ASSUME query.kind # Absent
      PROVE  /\ shifted' = shifted \union {j}
             /\ \A i \in Jobs \ shifted' : /\ i \in Jobs \ shifted
                                           /\ jobState'[i] = jobState[i] /\ fields'[i] = fields[i]
  BY <1>1, <1>3, <1>6
<1>7. CountSoFar'
  <2>1. SUFFICES ASSUME query.kind \in {"counts", "stats"} PROVE CountSoFar'
    BY <1>3 DEF CountSoFar
  <2>2. query.kind # Absent /\ CountSoFar
    BY <2>1 DEF QueryInv, QueryAssumption
  <2>3. \A i \in Jobs \ shifted' : i \in Jobs \ shifted /\ jobState'[i] = jobState[i]
    BY <1>6, <2>2
  <2>4. QED
    BY <1>3, <2>1, <2>2, <2>3 DEF CountSoFar
<1>8. ListSoFar'
  <2>1. SUFFICES ASSUME query.kind \in Listings, ~query.failed PROVE ListSoFar'
    BY <1>3 DEF ListSoFar
  <2>2. query.kind # Absent
    BY <2>1 DEF QueryAssumption
  <2>3. ListSoFar /\ Full' = Full /\ Bound' = Bound /\ \A i : InList(i)' = InList(i)
    BY <1>3 DEF QueryInv, Full, Bound, InList
  <2>4. \A i \in Jobs \ shifted' : \A status : Shown(i, status) => Shown(i, status)'
    BY <1>3, <1>6, <2>2 DEF Shown, Rerun
  <2>5. \A i \in Jobs \ shifted' :
           /\ jobState'[i] \in Wanted(query.asked) =>
                 Full \/ i \in query.page \/ InList(i) \/ jobState'[i] \in Wanted(ToSet(query.todo))
           /\ \A n \in DOMAIN query.list : query.list[n][1] = i => Shown(i, query.list[n][2])
    BY <1>6, <2>1, <2>2, <2>3 DEF ListSoFar
  <2>6. query.kind = "letters" =>
           \A i \in query.page \ shifted', status \in query.asked : jobState'[i] \in Meant(status)
    BY <1>1, <1>6, <2>1, <2>2, <2>3 DEF ListSoFar, QueryType
  <2>7. Wanted(query.asked)' = Wanted(query.asked) /\ Wanted(ToSet(query.todo))' = Wanted(ToSet(query.todo))
    BY <1>3 DEF Wanted, StatesRead
  <2>8. QED
    BY <1>3, <2>1, <2>3, <2>4, <2>5, <2>6, <2>7 DEF ListSoFar
<1>9. Asked'
  BY <1>3 DEF QueryInv, Asked
<1>10. QED
  BY <1>4, <1>5, <1>7, <1>8, <1>9 DEF QueryInv

\* The parts of the invariant in the state a step leaves.
LEMMA FromParts ==
    ASSUME QueryTypeOK', Hashes', CountSoFar', Asked', ListSoFar' PROVE QueryInv'
  BY DEF QueryInv

LEMMA SameHashes == ASSUME Hashes, UNCHANGED <<jobState, fields>> PROVE Hashes'
  BY DEF Hashes

LEMMA TypesStay ==
    ASSUME QueryTypeOK, query' \in QueryType, shifted' \subseteq Jobs, UNCHANGED <<jobState, fields>>
    PROVE  QueryTypeOK'
  BY DEF QueryTypeOK, QueryType

LEMMA NoneAsked == Wanted({}) = {} /\ ToSet(<<>>) = {}
  BY DEF Wanted, ToSet

\* A query begins.
LEMMA CountsBeginSafe ==
    ASSUME QueryAssumption, QueryInv, GetStatusCounts \/ GetStats PROVE QueryInv'
<1>1. QueryTypeOK /\ Hashes
  BY DEF QueryInv
<1>2. /\ query' \in QueryType /\ shifted' = {} /\ UNCHANGED <<jobState, fields>>
      /\ query'.kind \in {"counts", "stats"} /\ query'.asked = ToSet(query'.todo)
      /\ query'.counted = {} /\ query'.page = {} /\ query'.list = <<>>
  BY CountsBegin
<1>3. query'.kind \notin Listings
  BY <1>2 DEF Listings
<1>4. QED
  BY <1>1, <1>2, <1>3, FromParts, SameHashes, TypesStay DEF CountSoFar, Asked, ListSoFar, Listings

LEMMA ListingBeginsSafe ==
    ASSUME QueryAssumption, QueryInv, BeginListing PROVE QueryInv'
<1>1. QueryTypeOK /\ Hashes
  BY DEF QueryInv
<1>2. /\ query' \in QueryType /\ shifted' = {} /\ UNCHANGED <<jobState, fields>>
      /\ query'.kind \in Listings /\ query'.list = <<>> /\ query'.asked = ToSet(query'.todo)
      /\ query'.kind = "letters" => \E status \in JobStatuses : query'.asked = {status}
      /\ \/ query'.page = {}
         \/ query'.kind # "letters" /\ \E j \in Jobs : query'.page = {j}
  BY <1>1, ListingBegins
<1>3. Cardinality(query'.page) \in {0, 1}
  BY <1>2, FS_EmptySet, FS_Singleton
<1>4. Len(query'.list) + Cardinality(query'.page) <= Bound' /\ DOMAIN query'.list = {}
  BY <1>2, <1>3 DEF QueryAssumption, Bound
<1>5. Asked' /\ ListSoFar'
  BY <1>2, <1>4 DEF Asked, ListSoFar, Wanted
<1>6. CountSoFar'
  BY <1>2 DEF CountSoFar, Listings
<1>7. QED
  BY <1>1, <1>2, <1>5, <1>6, FromParts, SameHashes, TypesStay

\* A status is counted.
LEMMA CountSafe == ASSUME QueryAssumption, QueryInv, Count PROVE QueryInv'
<1> DEFINE head == Head(query.todo)
<1>1. QueryTypeOK /\ Hashes /\ query \in QueryType /\ shifted \subseteq Jobs
  BY QueryTypes DEF QueryInv
<1>2. /\ query.kind \in {"counts", "stats"} /\ query.todo # <<>> /\ query.todo \in Seq(JobStatuses)
      /\ UNCHANGED <<jobState, fields, shifted>>
  BY <1>1 DEF Count, QueryType
<1>3. /\ head \in JobStatuses /\ Tail(query.todo) \in Seq(JobStatuses)
      /\ ToSet(query.todo) = {head} \union ToSet(Tail(query.todo))
  BY <1>2, TodoShifts
<1> DEFINE counted == query.counted \union (GetCountByStatus(head) \X {head})
           q == [query EXCEPT !.todo = Tail(query.todo), !.counted = counted]
<1>4. query' = q
  BY DEF Count
<1>5. counted \in SUBSET (Jobs \X JobStatuses)
  BY <1>1, <1>3 DEF QueryType, GetCountByStatus, In
<1>6. \A j, status : <<j, status>> \in counted <=>
         <<j, status>> \in query.counted \/ (j \in In(MapStatusToStates(head)) /\ status = head)
  BY DEF GetCountByStatus
<1> HIDE DEF counted
<1>7. /\ q \in QueryType /\ q.todo = Tail(query.todo) /\ q.counted = counted /\ q.kind = query.kind
      /\ q.asked = query.asked /\ q.page = query.page /\ q.list = query.list /\ q.failed = query.failed
  BY <1>1, <1>3, <1>5 DEF QueryType
<1> HIDE DEF q, head
<1>8. Asked' /\ ListSoFar'
  BY <1>2, <1>4, <1>7 DEF QueryInv, Asked, ListSoFar, Listings
<1>9. CountSoFar'
  <2>1. SUFFICES ASSUME ~query.failed, NEW j \in Jobs \ shifted, NEW status \in JobStatuses
                 PROVE  /\ <<j, status>> \in counted => jobState[j] \in MapStatusToStates(status)
                        /\ jobState[j] \in MapStatusToStates(status) /\ status \in query.asked =>
                              <<j, status>> \in counted \/ status \in ToSet(Tail(query.todo))
    BY <1>2, <1>4, <1>7 DEF QueryInv, CountSoFar
  <2>2. /\ <<j, status>> \in query.counted => jobState[j] \in MapStatusToStates(status)
        /\ jobState[j] \in MapStatusToStates(status) /\ status \in query.asked =>
              <<j, status>> \in query.counted \/ status \in ToSet(query.todo)
    BY <1>2, <2>1 DEF QueryInv, CountSoFar
  <2>3. j \in In(MapStatusToStates(head)) <=> jobState[j] \in MapStatusToStates(head)
    BY DEF In
  <2>4. QED
    BY <1>3, <1>6, <2>2, <2>3
<1>10. QED
  BY <1>1, <1>2, <1>4, <1>7, <1>8, <1>9, FromParts, SameHashes, TypesStay

\* The ids of a state are read.
LEMMA GetIdsSafe == ASSUME QueryAssumption, QueryInv, GetIds PROVE QueryInv'
<1> DEFINE head == Head(query.todo)
           rest == Tail(query.todo)
           found == In(StatesRead(head))
<1>1. QueryTypeOK /\ Hashes /\ query \in QueryType /\ shifted \subseteq Jobs
  BY QueryTypes DEF QueryInv
<1>2. /\ query.kind \in Listings /\ query.todo # <<>> /\ query.todo \in Seq(JobStatuses) /\ query.page = {}
      /\ Len(query.list) < Limit /\ Len(query.list) \in Nat /\ Limit \in Nat
      /\ UNCHANGED <<jobState, fields, shifted>>
  BY <1>1 DEF GetIds, QueryType, QueryAssumption
<1>3. /\ head \in JobStatuses /\ rest \in Seq(JobStatuses) /\ ToSet(query.todo) = {head} \union ToSet(rest)
      /\ StatesRead(head) \subseteq Meant(head) /\ Meant(head) \subseteq States
      /\ query.kind # "asked" => "prioritized" \notin StatesRead(head)
  BY <1>2, TodoShifts, Meanings DEF StatesRead
<1>4. found \subseteq Jobs /\ IsFiniteSet(found)
  BY FS_Subset DEF In, QueryAssumption
<1>5. PICK page \in SUBSET found :
         /\ \A list \in Lists :
               LET size == Cardinality(found \intersect In(list))
               IN  Cardinality(page \intersect In(list)) = IF size < Room THEN size ELSE Room
         /\ query' = [query EXCEPT !.todo = rest, !.page = page]
  BY DEF GetIds
<1> HIDE DEF rest, head
<1> DEFINE q == [query EXCEPT !.todo = rest, !.page = page]
<1>6. page \subseteq Jobs /\ query' = q
  BY <1>4, <1>5
<1>7. /\ q \in QueryType /\ q.todo = rest /\ q.page = page /\ q.kind = query.kind /\ q.asked = query.asked
      /\ q.list = query.list /\ q.failed = query.failed
  BY <1>1, <1>3, <1>6 DEF QueryType
<1> HIDE DEF q
<1>8. query.kind \notin {"counts", "stats"}
  BY <1>2 DEF Listings
<1>9. CountSoFar'
  BY <1>6, <1>7, <1>8 DEF CountSoFar
<1>10. ListSoFar'
  <2>1. SUFFICES ASSUME ~query.failed PROVE ListSoFar'
    BY <1>6, <1>7 DEF ListSoFar
  <2>2. ListSoFar
    BY DEF QueryInv
  <2>3. /\ Len(query.list) + Cardinality(page) <= Bound /\ Cardinality(page) \in Nat
        /\ page # found => Len(query.list) + Cardinality(page) >= Limit
    <3> DEFINE urgent == In({"prioritized"})
               others == In(States \ {"prioritized"})
    <3>1. {"prioritized"} \in Lists /\ (States \ {"prioritized"}) \in Lists
      BY DEF Lists
    <3>2. found \subseteq urgent \union others /\ urgent \intersect others = {}
      BY <1>3 DEF In
    <3>3. Room \in Nat /\ Room + Len(query.list) = Limit /\ Room > 0
      BY <1>2 DEF Room
    <3>4. ASSUME NEW T \in {urgent, others}
          PROVE  /\ IsFiniteSet(page \intersect T) /\ Cardinality(page \intersect T) \in Nat
                 /\ Cardinality(page \intersect T) <= Room
                 /\ page \intersect T = found \intersect T \/ Cardinality(page \intersect T) = Room
      <4>1. /\ IsFiniteSet(found \intersect T) /\ page \intersect T \subseteq found \intersect T
            /\ Cardinality(found \intersect T) \in Nat
        BY <1>4, <1>5, FS_Subset, FS_CardinalityType
      <4>2. IsFiniteSet(page \intersect T) /\ Cardinality(page \intersect T) \in Nat
        BY <4>1, FS_Subset, FS_CardinalityType
      <4>3. Cardinality(page \intersect T) =
               IF Cardinality(found \intersect T) < Room THEN Cardinality(found \intersect T) ELSE Room
        BY <1>5, <3>1
      <4>4. Cardinality(page \intersect T) = Cardinality(found \intersect T) => page \intersect T = found \intersect T
        BY <4>1, FS_Subset
      <4>5. QED
        BY <3>3, <4>1, <4>2, <4>3, <4>4
    <3> HIDE DEF urgent, others
    <3>5. /\ page = (page \intersect urgent) \union (page \intersect others)
          /\ (page \intersect urgent) \intersect (page \intersect others) = {}
      BY <1>5, <3>2
    <3>6. Cardinality(page) = Cardinality(page \intersect urgent) + Cardinality(page \intersect others)
      <4>1. Cardinality(page) = Cardinality(page \intersect urgent) + Cardinality(page \intersect others) - Cardinality({})
        BY <3>4, <3>5, FS_Union
      <4>2. QED
        BY <3>4, <4>1, FS_EmptySet
    <3>7. query.kind # "asked" => Cardinality(page \intersect urgent) = 0
      <4>1. query.kind # "asked" => page \intersect urgent = {}
        BY <1>3, <1>5 DEF In, urgent
      <4>2. QED
        BY <4>1, FS_EmptySet
    <3>8. page # found => \/ page \intersect urgent # found \intersect urgent
                          \/ page \intersect others # found \intersect others
      BY <1>5, <3>2
    <3> DEFINE m == Cardinality(page \intersect urgent)
               n == Cardinality(page \intersect others)
    <3>9. /\ m \in Nat /\ m <= Room /\ n \in Nat /\ n <= Room
          /\ page # found => m = Room \/ n = Room
      BY <3>4, <3>8
    <3>10. Cardinality(page) = m + n /\ (query.kind # "asked" => m = 0)
      BY <3>6, <3>7
    <3> HIDE DEF m, n
    <3>11. QED
      BY <1>2, <3>3, <3>9, <3>10 DEF Bound
  <2>5. Wanted({head} \union ToSet(rest)) = StatesRead(head) \union Wanted(ToSet(rest))
    BY DEF Wanted
  <2>6. Full => FALSE
    BY <1>2, FS_EmptySet DEF Full
  <2>7. ASSUME NEW j \in Jobs \ shifted
        PROVE  /\ jobState[j] \in Wanted(query.asked) =>
                     \/ Len(query.list) + Cardinality(page) >= Limit
                     \/ j \in page \/ InList(j) \/ jobState[j] \in Wanted(ToSet(rest))
               /\ \A n \in DOMAIN query.list : query.list[n][1] = j => Shown(j, query.list[n][2])
    <3>1. jobState[j] \in Wanted(query.asked) =>
             InList(j) \/ jobState[j] \in StatesRead(head) \/ jobState[j] \in Wanted(ToSet(rest))
      BY <1>2, <1>3, <2>1, <2>2, <2>5, <2>6 DEF ListSoFar
    <3>2. jobState[j] \in StatesRead(head) => j \in found
      BY DEF In
    <3>3. \A n \in DOMAIN query.list : query.list[n][1] = j => Shown(j, query.list[n][2])
      BY <1>2, <2>1, <2>2 DEF ListSoFar
    <3>4. QED
      BY <2>3, <3>1, <3>2, <3>3
  <2>8. query.kind = "letters" => \A j \in page \ shifted, status \in query.asked : jobState[j] \in Meant(status)
    <3>1. query.kind = "letters" => \A status \in query.asked : status = head
      <4>1. head \in query.asked
        BY <1>2, <1>3, <2>1, <2>2 DEF ListSoFar
      <4>2. QED
        BY <4>1 DEF QueryInv, Asked
    <3>2. \A j \in page : jobState[j] \in Meant(head)
      BY <1>3, <1>5 DEF In
    <3>3. QED
      BY <3>1, <3>2
  <2>9. ToSet(rest) \subseteq query.asked
    BY <1>2, <1>3, <2>1, <2>2 DEF ListSoFar
  <2>10. \A j : InList(j)' = InList(j) /\ \A status : Shown(j, status)' = Shown(j, status)
    BY <1>2, <1>6, <1>7 DEF InList, Shown, Rerun
  <2>11. Full' = (Len(query.list) + Cardinality(page) >= Limit) /\ Bound' = Bound
    BY <1>6, <1>7 DEF Full, Bound
  <2>12. Wanted(query.asked)' = Wanted(query.asked) /\ Wanted(ToSet(query.todo))' = Wanted(ToSet(rest))
    BY <1>6, <1>7 DEF Wanted, StatesRead
  <2>13. /\ query'.kind = query.kind /\ query'.page = page /\ query'.list = query.list /\ query'.todo = rest
         /\ query'.asked = query.asked
    BY <1>6, <1>7
  <2>14. QED
    BY <1>2, <2>3, <2>7, <2>8, <2>9, <2>10, <2>11, <2>12, <2>13 DEF ListSoFar
<1>11. Asked'
  BY <1>2, <1>6, <1>7 DEF QueryInv, Asked
<1>12. QED
  BY <1>1, <1>2, <1>6, <1>7, <1>9, <1>10, <1>11, FromParts, SameHashes, TypesStay

\* A command rejects.
LEMMA ReadFailsSafe == ASSUME QueryAssumption, QueryInv, ReadFails PROVE QueryInv'
<1>1. QueryTypeOK /\ Hashes /\ query \in QueryType /\ UNCHANGED <<jobState, fields, shifted>>
      /\ shifted \subseteq Jobs
  BY QueryTypes DEF QueryInv, ReadFails
<1>2. CASE query.kind = "counts"
  <2> DEFINE head == Head(query.todo)
             q == [query EXCEPT !.todo = Tail(query.todo), !.asked = query.asked \ {head}]
  <2>1. query' = q
    BY <1>2 DEF ReadFails
  <2>2. CountSoFar /\ query.page = {} /\ query.list = <<>>
    BY <1>2 DEF QueryInv, CountSoFar
  <2>3. query.todo # <<>> /\ query.todo \in Seq(JobStatuses)
    BY <1>1, <2>2 DEF ReadFails, Unknown, QueryType
  <2>4. /\ Tail(query.todo) \in Seq(JobStatuses)
        /\ ToSet(query.todo) = {head} \union ToSet(Tail(query.todo))
    BY <2>3, TodoShifts
  <2>5. /\ q \in QueryType /\ q.kind = query.kind /\ q.todo = Tail(query.todo) /\ q.asked = query.asked \ {head}
        /\ q.counted = query.counted /\ q.page = query.page /\ q.list = query.list /\ q.failed = query.failed
    BY <1>1, <2>4 DEF QueryType
  <2> HIDE DEF q, head
  <2>6. CountSoFar'
    BY <1>1, <1>2, <2>1, <2>2, <2>4, <2>5 DEF CountSoFar
  <2>7. Asked' /\ ListSoFar'
    BY <1>2, <2>1, <2>2, <2>5 DEF Asked, ListSoFar, Listings
  <2>8. QED
    BY <1>1, <2>1, <2>5, <2>6, <2>7, FromParts, SameHashes, TypesStay
<1>3. CASE query.kind # "counts"
  <2> DEFINE q == [query EXCEPT !.todo = <<>>, !.page = {}, !.list = <<>>, !.failed = TRUE]
  <2>1. query' = q
    BY <1>3 DEF ReadFails
  <2>2. <<>> \in Seq(JobStatuses) /\ <<>> \in Seq(Jobs \X (JobStatuses \union {Absent}))
    OBVIOUS
  <2>3. /\ q \in QueryType /\ q.kind = query.kind /\ q.asked = query.asked /\ q.page = {}
        /\ q.list = <<>> /\ q.failed
    BY <1>1, <2>2 DEF QueryType
  <2> HIDE DEF q
  <2>4. CountSoFar' /\ Asked' /\ ListSoFar'
    BY <2>1, <2>3 DEF QueryInv, CountSoFar, Asked, ListSoFar
  <2>5. QED
    BY <1>1, <2>1, <2>3, <2>4, FromParts, SameHashes, TypesStay
<1>4. QED
  BY <1>2, <1>3

\* The query is answered.
LEMMA ReplySafe == ASSUME QueryAssumption, QueryInv, Reply PROVE QueryInv'
<1>1. QueryTypeOK /\ Hashes /\ query' = NoQuery /\ shifted' = {} /\ UNCHANGED <<jobState, fields>>
  BY DEF QueryInv, Reply
<1>2. /\ query'.page = {} /\ query'.kind \notin Listings
      /\ query'.kind \notin {"counts", "stats"}
  BY <1>1 DEF NoQuery, QueryAssumption
<1>3. CountSoFar' /\ Asked' /\ ListSoFar'
  BY <1>2 DEF CountSoFar, Asked, ListSoFar, Listings
<1>4. QED
  BY <1>1, <1>3, NoQueryType, FromParts, SameHashes, TypesStay

\* The hash of a job shows its state, unless it is run again.
LEMMA InferredAgrees ==
    ASSUME QueryAssumption, Hashes, NEW j \in Jobs, jobState[j] \in States, fields[j] \in SUBSET Hash, ~Rerun(j)
    PROVE  jobState[j] \in Meant(ToJobStatus(Inferred(j)))
<1>1. CASE jobState[j] \in WaitLists
  <2>1. fields[j] = {}
    BY <1>1 DEF Hashes, Rerun, WaitLists
  <2>2. Inferred(j) = "waiting"
    BY <2>1 DEF Inferred
  <2>3. Meant(ToJobStatus("waiting")) = WaitLists
    BY DEF ToJobStatus, Meant, QueryAssumption, States, WaitLists
  <2>4. QED
    BY <1>1, <2>2, <2>3
<1>2. CASE jobState[j] = "delayed"
  <2>1. fields[j] = {"delay"}
    BY <1>2 DEF Hashes, Rerun
  <2>2. Inferred(j) = "delayed"
    BY <2>1 DEF Inferred
  <2>3. QED
    BY <1>2, <2>2, Meanings
<1>3. CASE jobState[j] = "active" \/ jobState[j] = "completed" \/ jobState[j] = "failed"
  <2>1. Inferred(j) = jobState[j]
    BY <1>3 DEF Hashes, Rerun, Inferred
  <2>2. QED
    BY <2>1, Meanings
<1>4. QED
  BY <1>1, <1>2, <1>3 DEF States

LEMMA InferredStatus ==
    ASSUME QueryAssumption, NEW j PROVE ToJobStatus(Inferred(j)) \in JobStatuses
<1>1. Inferred(j) \in States
  BY DEF Inferred, States, WaitLists
<1>2. QED
  BY <1>1, Meanings

\* The jobs whose hashes were read, with their statuses, are as many as were asked for.
LEMMA ListedPage ==
    ASSUME QueryAssumption, query \in QueryType
    PROVE  LET pairs == {Listed(j) : j \in query.page}
           IN  IsFiniteSet(query.page) /\ IsFiniteSet(pairs) /\ Cardinality(pairs) = Cardinality(query.page)
<1> DEFINE page == query.page
           pairs == {Listed(j) : j \in page}
           f == [j \in page |-> Listed(j)]
<1>1. IsFiniteSet(page)
  BY FS_Subset DEF QueryType, QueryAssumption
<1>2. \A j : Listed(j)[1] = j
  BY DEF Listed
<1>3. f \in Bijection(page, pairs)
  <2>1. f \in [page -> pairs]
    OBVIOUS
  <2>2. f \in Injection(page, pairs)
    <3>1. \A a, b \in page : f[a] = f[b] => a = b
      BY <1>2
    <3>2. QED
      BY <2>1, <3>1, Fun_IsInj
  <2>3. f \in Surjection(page, pairs)
    BY <2>1, Fun_IsSurj
  <2>4. QED
    BY <2>2, <2>3 DEF Bijection
<1>4. QED
  BY <1>1, <1>3, FS_Bijection, FS_Surjection, Fun_BijectionProperties

\* The hashes of a page are read.
LEMMA GetHashesSafe == ASSUME QueryAssumption, QueryInv, GetHashes PROVE QueryInv'
<1> DEFINE page == query.page
           pairs == {Listed(j) : j \in page}
           more == SetToSeq(pairs)
           Pair == Jobs \X (JobStatuses \union {Absent})
<1>1. /\ QueryTypeOK /\ Hashes /\ query \in QueryType /\ UNCHANGED <<jobState, fields, shifted>>
      /\ shifted \subseteq Jobs /\ jobState \in [Jobs -> States \union {Absent}]
  BY QueryTypes DEF QueryInv, GetHashes
<1>2. query.page # {} /\ query.page \subseteq Jobs /\ query.list \in Seq(Pair) /\ query.todo \in Seq(JobStatuses)
  BY <1>1 DEF GetHashes, QueryType
<1>3. query.kind \notin {"counts", "stats"}
  BY <1>2 DEF QueryInv, CountSoFar
<1>4. CASE \E j \in page : jobState[j] = Absent
  <2> DEFINE q == [query EXCEPT !.page = {}, !.failed = TRUE, !.todo = <<>>, !.list = <<>>]
  <2>1. query' = q
    BY <1>4 DEF GetHashes
  <2>2. <<>> \in Seq(JobStatuses) /\ <<>> \in Seq(Pair)
    OBVIOUS
  <2>3. q \in QueryType
    BY <1>1, <2>2 DEF QueryType
  <2>4. /\ q.kind = query.kind /\ q.asked = query.asked /\ q.page = {}
        /\ q.failed
    BY <1>1 DEF QueryType
  <2> HIDE DEF q
  <2>5. CountSoFar' /\ Asked' /\ ListSoFar'
    BY <1>3, <2>1, <2>4 DEF QueryInv, CountSoFar, Asked, ListSoFar
  <2>6. QED
    BY <1>1, <2>1, <2>3, <2>5, FromParts, SameHashes, TypesStay
<1>5. CASE \A j \in page : jobState[j] # Absent
  <2> DEFINE q == [query EXCEPT !.page = {}, !.list = query.list \o more]
  <2>1. query' = q
    BY <1>5 DEF GetHashes
  <2>2. ASSUME NEW j \in page PROVE Listed(j) \in Pair /\ Listed(j)[1] = j
    <3>1. ASSUME query.kind = "letters" PROVE (CHOOSE status \in query.asked : TRUE) \in JobStatuses
      BY <3>1 DEF QueryInv, Asked
    <3>2. query.kind \in {"inferred", "asked", "letters"}
      BY <1>2 DEF QueryInv, Asked, Listings
    <3>3. Listed(j) = <<j, Listed(j)[2]>> /\ Listed(j)[1] = j
      <4> DEFINE status == CASE query.kind = "inferred" -> ToJobStatus(Inferred(j))
                             [] query.kind = "asked" -> Absent
                             [] query.kind = "letters" -> CHOOSE s \in query.asked : TRUE
      <4>1. Listed(j) = <<j, status>>
        BY Zenon DEF Listed
      <4> HIDE DEF status
      <4>2. QED
        BY <4>1
    <3>4. ASSUME query.kind = "inferred" PROVE Listed(j)[2] \in JobStatuses \union {Absent}
      BY <3>4, InferredStatus DEF Listed
    <3>5. ASSUME query.kind = "asked" PROVE Listed(j)[2] \in JobStatuses \union {Absent}
      BY <3>5 DEF Listed
    <3>6. ASSUME query.kind = "letters" PROVE Listed(j)[2] \in JobStatuses \union {Absent}
      BY <3>1, <3>6 DEF Listed
    <3>7. Listed(j)[2] \in JobStatuses \union {Absent}
      BY <3>2, <3>4, <3>5, <3>6
    <3>8. QED
      BY <1>2, <3>3, <3>7
  <2>3. /\ IsFiniteSet(pairs) /\ Cardinality(pairs) = Cardinality(page) /\ Cardinality(page) \in Nat
        /\ pairs \in SUBSET Pair
    BY <1>1, <2>2, ListedPage, FS_CardinalityType
  <2>4. more \in Seq(pairs) /\ Len(more) = Cardinality(page) /\ ToSet(more) = pairs
    BY <2>3, SetsInOrder
  <2>5. more \in Seq(Pair)
    BY <2>3, <2>4
  <2> HIDE DEF more, Pair
  <2> DEFINE list == query.list \o more
  <2>6. /\ list \in Seq(Pair) /\ Len(list) = Len(query.list) + Cardinality(page)
        /\ Len(query.list) \in Nat /\ DOMAIN query.list = 1..Len(query.list)
        /\ DOMAIN more = 1..Cardinality(page) /\ DOMAIN list = 1..(Len(query.list) + Cardinality(page))
        /\ \A n \in DOMAIN list :
              list[n] = IF n <= Len(query.list) THEN query.list[n] ELSE more[n - Len(query.list)]
    <3>1. query.list \in Seq(Pair)
      BY <1>2 DEF Pair
    <3>2. /\ list \in Seq(Pair) /\ Len(list) = Len(query.list) + Len(more)
          /\ \A n \in 1..(Len(query.list) + Len(more)) :
                list[n] = IF n <= Len(query.list) THEN query.list[n] ELSE more[n - Len(query.list)]
      BY <2>5, <3>1, ConcatProperties
    <3>3. /\ DOMAIN query.list = 1..Len(query.list) /\ DOMAIN more = 1..Len(more)
          /\ DOMAIN list = 1..Len(list) /\ Len(query.list) \in Nat
      BY <2>5, <3>1, <3>2
    <3>4. QED
      BY <2>4, <3>2, <3>3
  <2>7. \A n \in DOMAIN query.list : n \in DOMAIN list /\ list[n] = query.list[n]
    BY <2>3, <2>6
  <2>8. \A n \in DOMAIN more : Len(query.list) + n \in DOMAIN list /\ list[Len(query.list) + n] = more[n]
    BY <2>3, <2>6
  <2> HIDE DEF list
  <2>9. ASSUME NEW n \in DOMAIN list, n \notin DOMAIN query.list PROVE \E j \in page : list[n] = Listed(j)
    <3>1. n - Len(query.list) \in DOMAIN more /\ list[n] = more[n - Len(query.list)]
      BY <2>3, <2>6, <2>9
    <3>2. QED
      BY <2>4, <3>1 DEF ToSet
  <2>10. \A j \in page : \E n \in DOMAIN list : list[n] = Listed(j)
    BY <2>4, <2>8 DEF ToSet
  <2> HIDE DEF pairs
  <2> DEFINE r == [query EXCEPT !.page = {}, !.list = list]
  <2>11. /\ r \in QueryType /\ r.kind = query.kind /\ r.asked = query.asked
         /\ r.todo = query.todo /\ r.page = {} /\ r.list = list /\ r.failed = query.failed
    BY <1>1, <2>6 DEF QueryType, Pair
  <2>12. query' = r
    BY <2>1 DEF list
  <2> HIDE DEF r
  <2>13. CountSoFar' /\ Asked'
    BY <1>3, <2>11, <2>12 DEF QueryInv, CountSoFar, Asked
  <2>14. ListSoFar'
    <3>1. SUFFICES ASSUME query.kind \in Listings, ~query.failed PROVE ListSoFar'
      BY <2>11, <2>12 DEF ListSoFar
    <3>2. ListSoFar
      BY DEF QueryInv
    <3>3. Len(list) + Cardinality({}) = Len(query.list) + Cardinality(page)
      BY <2>3, <2>6, FS_EmptySet
    <3>4. ASSUME NEW j \in Jobs \ shifted
          PROVE  /\ jobState[j] \in Wanted(query.asked) =>
                       \/ Len(list) + Cardinality({}) >= Limit \/ \E n \in DOMAIN list : list[n][1] = j
                       \/ jobState[j] \in Wanted(ToSet(query.todo))
                 /\ \A n \in DOMAIN list : list[n][1] = j => Shown(j, list[n][2])
      <4>1. jobState[j] \in Wanted(query.asked) =>
               Full \/ j \in page \/ InList(j) \/ jobState[j] \in Wanted(ToSet(query.todo))
        BY <3>1, <3>2 DEF ListSoFar
      <4>2. j \in page \/ InList(j) => \E n \in DOMAIN list : list[n][1] = j
        BY <2>2, <2>7, <2>10 DEF InList
      <4>3. Full => Len(list) + Cardinality({}) >= Limit
        BY <3>3 DEF Full
      <4>4. ASSUME NEW n \in DOMAIN list, list[n][1] = j PROVE Shown(j, list[n][2])
        <5>1. CASE n \in DOMAIN query.list
          BY <2>7, <3>1, <3>2, <4>4, <5>1 DEF ListSoFar
        <5>2. CASE n \notin DOMAIN query.list
          <6>1. PICK i \in page : list[n] = Listed(i)
            BY <2>9, <5>2
          <6>2. i = j /\ list[n] = Listed(j) /\ j \in page
            BY <2>2, <4>4, <6>1
          <6>3. jobState[j] \in States /\ jobState[j] # Absent
            BY <1>1, <1>5, <6>2
          <6>4. CASE query.kind = "inferred"
            <7>1. Listed(j)[2] = ToJobStatus(Inferred(j))
              BY <6>4 DEF Listed
            <7>2. Rerun(j) \/ jobState[j] \in Meant(ToJobStatus(Inferred(j)))
              BY <1>1, <6>3, InferredAgrees, QueryTypes
            <7>3. QED
              BY <6>2, <6>3, <6>4, <7>1, <7>2 DEF Shown
          <6>5. CASE query.kind = "asked"
            <7>1. Listed(j)[2] = Absent
              BY <6>5 DEF Listed
            <7>2. QED
              BY <6>2, <6>3, <7>1 DEF Shown
          <6>6. CASE query.kind = "letters"
            <7>1. Listed(j)[2] = CHOOSE status \in query.asked : TRUE
              BY <6>6 DEF Listed
            <7>2. Listed(j)[2] \in query.asked
              BY <6>6, <7>1 DEF QueryInv, Asked
            <7>3. jobState[j] \in Meant(Listed(j)[2])
              BY <3>1, <3>2, <6>2, <6>6, <7>2 DEF ListSoFar
            <7>4. QED
              BY <6>2, <6>3, <7>3 DEF Shown
          <6>7. QED
            BY <3>1, <6>4, <6>5, <6>6 DEF Listings
        <5>3. QED
          BY <5>1, <5>2
      <4>5. QED
        BY <4>1, <4>2, <4>3, <4>4
    <3>5. Len(list) + Cardinality({}) <= Bound /\ ToSet(query.todo) \subseteq query.asked
      BY <3>1, <3>2, <3>3 DEF ListSoFar
    <3>6. /\ \A j, status : Shown(j, status)' = Shown(j, status)
          /\ \A j : InList(j)' = \E n \in DOMAIN list : list[n][1] = j
          /\ Full' = (Len(list) + Cardinality({}) >= Limit) /\ Bound' = Bound
          /\ Wanted(query.asked)' = Wanted(query.asked) /\ Wanted(ToSet(query.todo))' = Wanted(ToSet(query.todo))
      BY <1>1, <2>11, <2>12 DEF Shown, Rerun, InList, Full, Bound, Wanted, StatesRead
    <3>7. /\ query'.kind = query.kind /\ query'.asked = query.asked /\ query'.todo = query.todo
          /\ query'.page = {} /\ query'.list = list
      BY <2>11, <2>12
    <3>8. QED
      BY <1>1, <3>4, <3>5, <3>6, <3>7 DEF ListSoFar
  <2>15. QED
    BY <1>1, <2>11, <2>12, <2>13, <2>14, FromParts, SameHashes, TypesStay
<1>6. QED
  BY <1>4, <1>5

\* The state of a listed job is asked for.
LEMMA GetJobStateSafe == ASSUME QueryAssumption, QueryInv, GetJobState PROVE QueryInv'
<1> DEFINE Pair == Jobs \X (JobStatuses \union {Absent})
<1>1. /\ QueryTypeOK /\ Hashes /\ query \in QueryType /\ UNCHANGED <<jobState, fields, shifted>>
      /\ shifted \subseteq Jobs /\ jobState \in [Jobs -> States \union {Absent}] /\ query.page = {}
  BY QueryTypes DEF QueryInv, GetJobState
<1>2. PICK n \in Unknown : \E status \in Told(jobState[query.list[n][1]]) :
         query' = [query EXCEPT !.list[n][2] = status]
  BY DEF GetJobState
<1> PICK status \in Told(jobState[query.list[n][1]]) : query' = [query EXCEPT !.list[n][2] = status]
  BY <1>2
<1> DEFINE i == query.list[n][1]
           list == [query.list EXCEPT ![n] = <<i, status>>]
           q == [query EXCEPT !.list = list]
<1>3. /\ n \in DOMAIN query.list /\ query.list[n][2] = Absent /\ query.list \in Seq(Pair)
      /\ query.list[n] \in Pair /\ DOMAIN query.list = 1..Len(query.list) /\ i \in Jobs
  BY <1>1 DEF Unknown, QueryType
<1>4. status \in JobStatuses /\ (jobState[i] # Absent => jobState[i] \in Meant(status))
  BY <1>1, <1>3, Meanings
<1>5. /\ list \in Seq(Pair) /\ Len(list) = Len(query.list) /\ DOMAIN list = DOMAIN query.list
      /\ list[n] = <<i, status>> /\ \A m \in DOMAIN list : m # n => list[m] = query.list[m]
  BY <1>3, <1>4
<1>6. query' = q
  <2>1. [query.list[n] EXCEPT ![2] = status] = <<i, status>>
    BY <1>3, <1>4
  <2>2. QED
    BY <1>1, <1>2, <2>1
<1> HIDE DEF Pair, list
<1>7. /\ q \in QueryType /\ q.kind = query.kind /\ q.asked = query.asked
      /\ q.todo = query.todo /\ q.page = query.page /\ q.list = list /\ q.failed = query.failed
  BY <1>1, <1>5 DEF QueryType, Pair
<1> HIDE DEF q
<1>8. query.kind \notin {"counts", "stats"}
  BY <1>3 DEF QueryInv, CountSoFar
<1>9. CountSoFar' /\ Asked'
  BY <1>1, <1>6, <1>7, <1>8 DEF QueryInv, CountSoFar, Asked
<1>10. ListSoFar'
  <2>1. SUFFICES ASSUME query.kind \in Listings, ~query.failed PROVE ListSoFar'
    BY <1>6, <1>7 DEF ListSoFar
  <2>2. ListSoFar
    BY DEF QueryInv
  <2>3. list[n][1] = i /\ list[n][2] = status
    BY <1>5
  <2>4. \A m \in DOMAIN list : list[m][1] = query.list[m][1]
    BY <1>5, <2>3
  <2>5. ASSUME NEW j \in Jobs \ shifted, NEW m \in DOMAIN list, list[m][1] = j
        PROVE  Shown(j, list[m][2])
    <3>1. Shown(j, query.list[m][2])
      BY <1>5, <2>1, <2>2, <2>4, <2>5 DEF ListSoFar
    <3>2. CASE m = n
      BY <1>4, <2>3, <2>5, <3>1, <3>2 DEF Shown
    <3>3. CASE m # n
      BY <1>5, <2>5, <3>1, <3>3
    <3>4. QED
      BY <3>2, <3>3
  <2>6. /\ \A j, s : Shown(j, s)' = Shown(j, s)
        /\ \A j : InList(j)' <=> InList(j)
        /\ Full' = Full /\ Bound' = Bound
        /\ Wanted(query.asked)' = Wanted(query.asked) /\ Wanted(ToSet(query.todo))' = Wanted(ToSet(query.todo))
    <3>1. \A j : (\E m \in DOMAIN list : list[m][1] = j) <=> InList(j)
      BY <1>5, <2>4 DEF InList
    <3>2. \A j : InList(j)' <=> InList(j)
      BY <1>6, <1>7, <3>1 DEF InList
    <3>3. \A j, s : Shown(j, s)' = Shown(j, s)
      BY <1>1, <1>6, <1>7 DEF Shown, Rerun
    <3>4. Full' = Full /\ Bound' = Bound
      BY <1>5, <1>6, <1>7 DEF Full, Bound
    <3>5. Wanted(query.asked)' = Wanted(query.asked) /\ Wanted(ToSet(query.todo))' = Wanted(ToSet(query.todo))
      BY <1>6, <1>7 DEF Wanted, StatesRead
    <3>6. QED
      BY <3>2, <3>3, <3>4, <3>5
  <2>7. /\ query'.kind = query.kind /\ query'.asked = query.asked /\ query'.todo = query.todo
        /\ query'.page = query.page /\ query'.list = list
    BY <1>6, <1>7
  <2>8. QED
    BY <1>1, <1>5, <2>1, <2>2, <2>5, <2>6, <2>7 DEF ListSoFar
<1>11. QED
  BY <1>1, <1>6, <1>7, <1>9, <1>10, FromParts, SameHashes, TypesStay

LEMMA QueryInvStep ==
    ASSUME QueryAssumption, QueryInv, [QueryNext]_queryVars PROVE QueryInv'
<1>1. CASE \E j \in Jobs : MoveJob(j)
  BY <1>1, MoveSafe
<1>2. CASE GetStatusCounts \/ GetStats
  BY <1>2, CountsBeginSafe
<1>3. CASE BeginListing
  BY <1>3, ListingBeginsSafe
<1>4. CASE Count
  BY <1>4, CountSafe
<1>5. CASE GetIds
  BY <1>5, GetIdsSafe
<1>6. CASE GetHashes
  BY <1>6, GetHashesSafe
<1>7. CASE GetJobState
  BY <1>7, GetJobStateSafe
<1>8. CASE ReadFails
  BY <1>8, ReadFailsSafe
<1>9. CASE Reply
  BY <1>9, ReplySafe
<1>10. CASE UNCHANGED queryVars
  <2>1. jobState' = jobState /\ fields' = fields /\ query' = query /\ shifted' = shifted
    BY <1>10 DEF queryVars
  <2>2. QED
    BY <2>1 DEF QueryInv, QueryTypeOK, Hashes, Rerun, CountSoFar, Asked, ListSoFar, Full, Bound, InList,
                Shown, Wanted, StatesRead
<1>11. QED
  BY <1>1, <1>2, <1>3, <1>4, <1>5, <1>6, <1>7, <1>8, <1>9, <1>10 DEF QueryNext, BeginListing

LEMMA QueryInvAlways == ASSUME QueryAssumption PROVE QuerySpec => []QueryInv
<1>1. QueryInit => QueryInv
  BY QueryInvInit
<1>2. QueryInv /\ [QueryNext]_queryVars => QueryInv'
  BY QueryInvStep
<1>3. QED
  BY <1>1, <1>2, PTL DEF QuerySpec

\* The values the variables of the jobs and the query take (status service :59-192).
THEOREM QueryTypeCorrect == ASSUME QueryAssumption PROVE QuerySpec => []QueryTypeOK
<1>1. QueryInv => QueryTypeOK
  BY DEF QueryInv
<1>2. QED
  BY <1>1, QueryInvAlways, PTL

\* getStatusCounts and getStats count every job that did not move under the statuses asked
\* that are named for its state, once each and under no other, and a prioritized one under
\* none, for any number of jobs and whatever they do meanwhile (status service :160-192,
\* JobQueue.ts:715-742).
THEOREM CountsBoundedAlways == ASSUME QueryAssumption PROVE QuerySpec => []CountsBounded
<1>1. ASSUME QueryInv, Answered, query.kind \in {"counts", "stats"}, ~query.failed,
             NEW j \in Jobs \ shifted, NEW status \in query.asked
      PROVE  <<j, status>> \in query.counted <=> jobState[j] \in Meant(status) /\ jobState[j] # "prioritized"
  <2>1. status \in JobStatuses
    BY <1>1 DEF QueryInv, QueryTypeOK
  <2>2. ToSet(query.todo) = {}
    BY <1>1, NoneAsked DEF Answered, Listings
  <2>3. <<j, status>> \in query.counted <=> jobState[j] \in MapStatusToStates(status)
    BY <1>1, <2>1, <2>2 DEF QueryInv, CountSoFar
  <2>4. QED
    BY <2>1, <2>3, Meanings
<1>2. QueryInv => CountsBounded
  BY <1>1 DEF CountsBounded
<1>3. QED
  BY <1>2, QueryInvAlways, PTL

\* No listing has more jobs than its limit (JobQueue's twice that), misses a job that did not
\* move while there was room, but a prioritized one that only JobQueue asks for, or shows one
\* in a state it is not in, for any number of jobs and any limit but 0 (status service :59-95
\* and :131-158, JobQueue.ts:506-514).
THEOREM AllListedAlways == ASSUME QueryAssumption PROVE QuerySpec => []AllListed
<1>1. ASSUME QueryInv, Answered, query.kind \in Listings, ~query.failed
      PROVE  /\ Len(query.list) <= Bound
             /\ \A j \in Jobs \ shifted :
                   /\ (\E status \in query.asked : jobState[j] \in Meant(status)) =>
                         \/ Len(query.list) >= Limit \/ InList(j)
                         \/ jobState[j] = "prioritized" /\ query.kind # "asked"
                   /\ \A n \in DOMAIN query.list : query.list[n][1] = j =>
                         \/ jobState[j] \in Meant(query.list[n][2])
                         \/ query.kind = "inferred" /\ Rerun(j)
  <2>1. /\ Len(query.list) \in Nat /\ Limit \in Nat /\ Cardinality(query.page) = 0
        /\ query.asked \subseteq JobStatuses
    BY <1>1, FS_EmptySet DEF QueryInv, QueryTypeOK, Answered, QueryAssumption
  <2>2. Len(query.list) <= Bound /\ (Full => Len(query.list) >= Limit)
    BY <1>1, <2>1 DEF QueryInv, ListSoFar, Full, Bound
  <2>3. Len(query.list) >= Limit \/ Wanted(ToSet(query.todo)) = {}
    BY <1>1, NoneAsked DEF Answered
  <2>4. ASSUME NEW j \in Jobs \ shifted
        PROVE  /\ (\E status \in query.asked : jobState[j] \in Meant(status)) =>
                     \/ Len(query.list) >= Limit \/ InList(j)
                     \/ jobState[j] = "prioritized" /\ query.kind # "asked"
               /\ \A n \in DOMAIN query.list : query.list[n][1] = j =>
                     \/ jobState[j] \in Meant(query.list[n][2])
                     \/ query.kind = "inferred" /\ Rerun(j)
    <3>1. jobState[j] \in Wanted(query.asked) =>
             Full \/ j \in query.page \/ InList(j) \/ jobState[j] \in Wanted(ToSet(query.todo))
      BY <1>1 DEF QueryInv, ListSoFar
    <3>2. query.page = {}
      BY <1>1 DEF Answered
    <3>3. \A n \in DOMAIN query.list : query.list[n][1] = j => Shown(j, query.list[n][2])
      BY <1>1 DEF QueryInv, ListSoFar
    <3>4. \A n \in DOMAIN query.list : query.list[n][2] # Absent
      BY <1>1 DEF Answered, Unknown
    <3>5. (\E status \in query.asked : jobState[j] \in Meant(status)) =>
             \/ jobState[j] \in Wanted(query.asked)
             \/ jobState[j] = "prioritized" /\ query.kind # "asked"
      <4>1. ASSUME NEW status \in query.asked, jobState[j] \in Meant(status)
            PROVE  \/ jobState[j] \in StatesRead(status)
                   \/ jobState[j] = "prioritized" /\ query.kind # "asked"
        BY <2>1, <4>1, Meanings DEF StatesRead
      <4>2. QED
        BY <4>1 DEF Wanted
    <3>6. QED
      BY <2>2, <2>3, <3>1, <3>2, <3>3, <3>4, <3>5 DEF Shown
  <2>5. QED
    BY <2>2, <2>4
<1>2. QueryInv => AllListed
  BY <1>1 DEF AllListed, Bound, InList
<1>3. QED
  BY <1>2, QueryInvAlways, PTL

-----------------------------------------------------------------------------
(***************************************************************************)
(* MCServices: as in MCManagers, a step of the composition is for each     *)
(* service a step of its own or none.                                      *)
(***************************************************************************)
ServiceAssumptions ==
    /\ CachedStoreAssumption /\ WebhookAssumption /\ JobChainAssumption /\ GlobalAssumption
    /\ PipelineAssumption /\ QueryAssumption /\ RetryAssumption

LEMMA ServicesStep ==
    ASSUME [ServicesNext]_serviceVars
    PROVE  /\ [LoadConfiguration]_retry /\ [WebhookNext]_whVars /\ [ChainNext]_chainVars
           /\ [GlobalNext]_globalVars /\ [ConnNext]_connVars /\ [PipeNext]_pipeVars /\ [QueryNext]_queryVars
<1>1. CASE Retries
  BY <1>1 DEF Retries
<1>2. CASE Webhooks
  BY <1>2 DEF Webhooks
<1>3. CASE Waits
  BY <1>3 DEF Waits, ChainNext
<1>4. CASE Health
  <2>1. UNCHANGED <<retry, whVars, chainVars, connVars, pipeVars, queryVars>>
    BY <1>4 DEF Health
  <2>2. HealthStep \/ CloseStep \/ Outside
    BY <1>4 DEF Health
  <2>3. QED
    BY <2>1, <2>2 DEF GlobalNext
<1>5. CASE Connecting
  BY <1>5 DEF Connecting
<1>6. CASE Processing
  BY <1>6 DEF Processing
<1>7. CASE Querying
  BY <1>7 DEF Querying
<1>8. CASE UNCHANGED serviceVars
  BY <1>8 DEF serviceVars
<1>9. QED
  BY <1>1, <1>2, <1>3, <1>4, <1>5, <1>6, <1>7, <1>8 DEF ServicesNext

\* Webhooks, waits for dependencies, the regions' health, the connection, the pipeline, the
\* status queries and the retry settings, side by side in one process: the values their
\* variables take, and everything each of them promises, hold in every behaviour of them
\* all (webhook.manager.ts, job-chain.manager.ts, global-queue.manager.ts,
\* queue-connection-manager.ts, job-processing-orchestrator.ts, the status service).
THEOREM ServicesKeepTheirs ==
    ASSUME ServiceAssumptions
    PROVE  ServicesSpec =>
              /\ [](TypesOK /\ OnlySocketsLeft /\ ClientsCurrent /\ OutcomeStands /\ AllHear)
              /\ [](CountsBounded /\ AllListed /\ RetriesBackOff)
              /\ EveryHookTried /\ ReadyAreReturned /\ BestTakesOver
<1> DEFINE Ends ==
              \A s \in Senders : send[s].pc # "idle" /\ send'[s].pc = "idle" => due'[s] \subseteq told'[s]
           Returned(w) == waits[w].pc = "check" /\ waits'[w].pc = "idle" =>
                             /\ atStart[w] \subseteq waits[w].found \/ TimedOut(waits[w])
                             /\ atStart[w] \cap waits[w].polled \subseteq waits[w].found
           Takes(r) ==
              checks[r].pc = "probe" /\ checks'[r].pc = "idle" =>
                 LET able == checks[r].steady \ {primaryRegion}
                 IN  able # {} => /\ primaryRegion' # primaryRegion
                                  /\ \A q \in able \ {primaryRegion'} : Best(primaryRegion', q)
           Regional == CallsKnow /\ ProbeInv
<1> USE DEF ServiceAssumptions
<1>1. ServicesInit => RetryInit /\ WebhookInit /\ ChainInit /\ GlobalInit /\ ConnInit /\ PipeInit /\ QueryInit
  BY DEF ServicesInit
<1>2. [ServicesNext]_serviceVars =>
         /\ [LoadConfiguration]_retry /\ [WebhookNext]_whVars /\ [ChainNext]_chainVars
         /\ [GlobalNext]_globalVars /\ [ConnNext]_connVars /\ [PipeNext]_pipeVars /\ [QueryNext]_queryVars
  BY ServicesStep
<1>3. WebhookInit => WebhookInv
  BY WebhookInvInit
<1>4. WebhookInv /\ [WebhookNext]_whVars => WebhookInv' /\ [Ends]_whVars
  BY WebhookInvStep
<1>5. ChainInit => WaitInv
  BY ChainTypeInit DEF ChainInit, WaitInv, Awaited, IdleWait, Wait
<1>6. WaitInv /\ [ChainNext]_chainVars => WaitInv' /\ [\A w \in Waiters : Returned(w)]_chainVars
  BY WaitInvStep, WaitReturnsReady
<1>7. GlobalInit => Regional
  <2>1. GlobalInit => \A r \in Regions : checks[r].pc = "idle"
    BY DEF GlobalInit, IdleCheck
  <2>2. QED
    BY <2>1, CallsKnowInit DEF ProbeInv, CallsKnow
<1>8. Regional /\ [GlobalNext]_globalVars => Regional' /\ [\A r \in Regions : Takes(r)]_globalVars
  BY CallsKnowStep, ProbeStep, FailoverToBest
<1>9. PipeInit => PipeInv
  BY PipeInvInit
<1>10. PipeInv /\ [PipeNext]_pipeVars => PipeInv'
  BY PipeInvStep
<1>11. WebhookInv /\ WaitInv /\ Regional /\ ConnInv /\ PipeInv /\ QueryTypeOK => TypesOK
  BY PipeTypes DEF TypesOK, WebhookInv, WaitInv, CallsKnow, ConnInv
<1>12. (ConnInv => OnlySocketsLeft /\ ClientsCurrent) /\ (PipeInv => OutcomeStands /\ AllHear)
  BY ConnKeeps, PipeKeeps
<1>13. ServicesSpec => RetrySpec /\ QuerySpec
  BY <1>1, <1>2, PTL DEF ServicesSpec, RetrySpec, QuerySpec
<1>14. ServicesSpec => [](WebhookInv /\ WaitInv /\ Regional) /\ EveryHookTried /\ ReadyAreReturned /\ BestTakesOver
  BY <1>1, <1>2, <1>3, <1>4, <1>5, <1>6, <1>7, <1>8, PTL
     DEF ServicesSpec, EveryHookTried, ReadyAreReturned, BestTakesOver
<1>15. ServicesSpec => [](ConnInv /\ PipeInv)
  BY <1>1, <1>2, <1>9, <1>10, ConnInvInit, ConnInvStep, PTL DEF ServicesSpec
<1>16. QED
  BY <1>11, <1>12, <1>13, <1>14, <1>15, QueryTypeCorrect, CountsBoundedAlways, AllListedAlways,
     RetriesAlwaysBackOff, PTL
=============================================================================
