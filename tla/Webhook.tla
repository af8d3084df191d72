------------------------------ MODULE Webhook ------------------------------
(***************************************************************************)
(* The class WebhookManager of src/src/infrastructure/services/            *)
(* webhook.manager.ts: its configurations (CachedStore), sendEvent with    *)
(* the delivery loop, and retryDelivery.                                   *)
(*                                                                         *)
(* httpPost (:403) stands for a request "the actual implementation" would  *)
(* make and answers 200 today; Responses are the outcomes of that request. *)
(***************************************************************************)
EXTENDS CachedStore

CONSTANTS
    Reliable,  \* webhooks whose deliveryStrategy is not best-effort
    Senders,   \* sendEvent and retryDelivery calls at a time
    Responses, \* subset of {"ok", "status", "throws"}
    MaxRetries \* webhook.maxRetries ?? 3; with 0 of them nothing is ever sent

\* Of the constants; the models that give them values assume it.
WebhookAssumption ==
    /\ Fields = {"active"} /\ Values = BOOLEAN /\ Reliable \subseteq Ids
    /\ Responses \subseteq {"ok", "status", "throws"} /\ MaxRetries \in Nat \ {0}

VARIABLES
    send, \* sender -> its call
    due,  \* sender -> webhooks active, and not written to, since its call began
    told  \* sender -> webhooks its call delivered to, or gave up on

calls == <<send, due, told>>

whVars == <<vars, calls>>

IdleSend == [pc |-> "idle", todo |-> {}, found |-> {}, hook |-> None, attempt |-> 0]

WebhookInit ==
    /\ Init
    /\ send = [s \in Senders |-> IdleSend]
    /\ due = [s \in Senders |-> {}] /\ told = [s \in Senders |-> {}]

\* The configurations.  A webhook is registered under a new id.
RegisterWebhook(i, config) ==
    /\ store[i] = None /\ cache[i] = None /\ \A n \in DOMAIN wire : wire[n].id # i
    /\ Put(i, config)

UpdateWebhook(i, patch) == Update(i, patch)

DeleteWebhook(i) == Delete(i)

GetWebhook(i) == Get(i)

EnableWebhook(i) == Update(i, [f \in {"active"} |-> TRUE])

DisableWebhook(i) == Update(i, [f \in {"active"} |-> FALSE])

StoreStep ==
    /\ \/ \E i \in Ids :
             \/ \E config \in Config : RegisterWebhook(i, config)
             \/ \E patch \in Patch : UpdateWebhook(i, patch)
             \/ EnableWebhook(i) \/ DisableWebhook(i) \/ DeleteWebhook(i) \/ GetWebhook(i)
       \/ Answer
       \/ \E executed \in BOOLEAN : Reject(executed)
    /\ due' = [s \in Senders |-> {i \in due[s] : store'[i] = store[i]}]
    /\ UNCHANGED <<send, told>>

Active(i) == store[i] # None /\ store[i].active

\* sendEvent: listWebhooks asks for the keys ...
SendEvent(s) ==
    LET known == {i \in Ids : store[i] # None}
    IN  /\ send[s].pc = "idle" /\ known # {}
        /\ send' = [send EXCEPT ![s] = [IdleSend EXCEPT !.pc = "list", !.todo = known]]
        /\ due' = [due EXCEPT ![s] = {i \in known : Active(i)}]
        /\ told' = [told EXCEPT ![s] = {}]
        /\ UNCHANGED vars

\* ... and reads one after the other; one deleted since is left out.
ListOne(s, i) ==
    /\ send[s].pc = "list" /\ i \in send[s].todo
    /\ send' = [send EXCEPT ![s].todo = @ \ {i},
                            ![s].found = IF store[i] = None THEN @ ELSE @ \union {<<i, store[i]>>}]
    /\ UNCHANGED <<vars, due, told>>

\* A command of the listing rejects: it is empty, and nobody is told.
ListRejects(s) ==
    /\ send[s].pc = "list"
    /\ send' = [send EXCEPT ![s] = IdleSend]
    /\ due' = [due EXCEPT ![s] = {}]
    /\ UNCHANGED <<vars, told>>

\* The webhooks left to deliver to: an attempt record in the listed key space has
\* no active field and is skipped like an inactive webhook.
Pending(x) == {h \in x.found : h[2].active}

NextHook(s) ==
    /\ send[s].pc \in {"list", "next"} /\ send[s].todo = {}
    /\ IF Pending(send[s]) = {} THEN send' = [send EXCEPT ![s] = IdleSend]
       ELSE \E h \in Pending(send[s]) :
               send' = [send EXCEPT ![s] = [send[s] EXCEPT !.pc = "post", !.found = @ \ {h},
                                                           !.hook = h, !.attempt = 1]]
    /\ UNCHANGED <<vars, due, told>>

\* retryDelivery: one webhook, active or not; the attempts count from 1 again.
\* An uncached configuration is loaded first (GetWebhook).
RetryDelivery(s, i) ==
    /\ send[s].pc = "idle" /\ cache[i] # None
    /\ send' = [send EXCEPT ![s] = [IdleSend EXCEPT !.pc = "post", !.hook = <<i, cache[i]>>,
                                                    !.attempt = 1]]
    /\ due' = [due EXCEPT ![s] = {}] /\ told' = [told EXCEPT ![s] = {}]
    /\ UNCHANGED vars

\* testWebhook: one request, and its answer or its error is the caller's.
TestWebhook(s, i) ==
    /\ send[s].pc = "idle" /\ cache[i] # None
    /\ send' = [send EXCEPT ![s] = [IdleSend EXCEPT !.pc = "test"]]
    /\ due' = [due EXCEPT ![s] = {}] /\ told' = [told EXCEPT ![s] = {}]
    /\ UNCHANGED vars

Tested(s) ==
    /\ send[s].pc = "test"
    /\ send' = [send EXCEPT ![s] = IdleSend]
    /\ UNCHANGED <<vars, due, told>>

\* Mutants: one attempt too many; the last failure is thrown on.
Mutant_OneMore(x) ==
    IF x.attempt <= MaxRetries THEN [x EXCEPT !.pc = "wait", !.attempt = @ + 1]
                               ELSE [x EXCEPT !.pc = "next"]

Mutant_Throws(x) ==
    IF x.attempt < MaxRetries THEN [x EXCEPT !.pc = "wait", !.attempt = @ + 1] ELSE IdleSend

\* After a failed attempt at a reliable webhook.
Retry(x) ==
    IF x.attempt < MaxRetries THEN [x EXCEPT !.pc = "wait", !.attempt = @ + 1]
                              ELSE [x EXCEPT !.pc = "next"]

\* httpPost and the record of the attempt, whose own errors are swallowed.
TryDeliver(s, response) ==
    LET x == send[s]
        again == response # "ok" /\ x.hook[1] \in Reliable
    IN  /\ x.pc = "post"
        /\ send' = [send EXCEPT ![s] = IF again THEN Retry(x) ELSE [x EXCEPT !.pc = "next"]]
        /\ told' = [told EXCEPT ![s] = IF again /\ x.attempt < MaxRetries THEN @
                                       ELSE @ \union {x.hook[1]}]
        /\ UNCHANGED <<vars, due>>

WaitBeforeRetry(s) ==
    /\ send[s].pc = "wait"
    /\ send' = [send EXCEPT ![s].pc = "post"]
    /\ UNCHANGED <<vars, due, told>>

Sender(s) ==
    \/ \E i \in Ids : ListOne(s, i)
    \/ NextHook(s)
    \/ \E response \in Responses : TryDeliver(s, response)
    \/ WaitBeforeRetry(s) \/ Tested(s)

WebhookNext ==
    \/ StoreStep
    \/ \E s \in Senders : \/ SendEvent(s) \/ ListRejects(s) \/ Sender(s)
                          \/ \E i \in Ids : RetryDelivery(s, i) \/ TestWebhook(s, i)

\* Redis answers, requests settle and timers fire.
WebhookFairness == \A s \in Senders : WF_whVars(Sender(s))

WebhookSpec == WebhookInit /\ [][WebhookNext]_whVars /\ WebhookFairness

-----------------------------------------------------------------------------
SendType == [pc : {"idle", "list", "next", "post", "wait", "test"}, todo : SUBSET Ids,
             found : SUBSET (Ids \X Config), hook : (Ids \X Config) \union {None},
             attempt : 0..MaxRetries]

\* The values the variables take.
WebhookTypeOK ==
    /\ TypeOK /\ send \in [Senders -> SendType]
    /\ due \in [Senders -> SUBSET Ids] /\ told \in [Senders -> SUBSET Ids]

\* sendEvent leaves no webhook out (:190-208): unless its listing failed, one that
\* was active from the call to its end was delivered to, or all its attempts were
\* used up, however the webhooks before it answered.
EveryHookTried ==
    [][\A s \in Senders : send[s].pc # "idle" /\ send'[s].pc = "idle" => due'[s] \subseteq told'[s]]_whVars

Sending(s) == send[s].pc # "idle"

\* Every call ends (:330-343), whatever the receivers answer.
SendsEnd == \A s \in Senders : Sending(s) ~> ~Sending(s)
=============================================================================
