------------------------------- MODULE Webhooks --------------------------------
(***************************************************************************)
(* The outgoing webhooks of src/apps/api: WebhooksService.dispatch starts  *)
(* one delivery per subscribed webhook and waits for none of them.  Each   *)
(* stores an event, posts it to the subscriber, then settles the event and *)
(* counts the outcome in two statements; an error of any of these takes    *)
(* the way of a delivery that failed.                                      *)
(***************************************************************************)
EXTENDS Integers, FiniteSets

CONSTANTS Webhooks,    \* ids of table webhooks
          NoWebhook,
          Deliveries,  \* ids of table webhook_events; one send each
          Events,      \* names of events
          Star,        \* the subscription '*'
          MaxUpdates,  \* bound: changes of a webhook by its operator
          MaxCrashes,  \* bound: crashes of the API process
          MaxFaults    \* bound: failed statements and lost answers

WebhookAssumption ==
    /\ NoWebhook \notin Webhooks /\ Star \notin Events
    /\ IsFiniteSet(Deliveries) /\ IsFiniteSet(Webhooks)
    /\ MaxUpdates \in Nat /\ MaxCrashes \in Nat /\ MaxFaults \in Nat

VARIABLES
    webhook,  \* the rows of webhooks
    event,    \* status of the rows of webhook_events
    send,     \* each delivery: where it stands in send, and for which webhook
    received, \* what the subscriber did with the event
    updates, crashes, faults

vars == <<webhook, event, send, received, updates, crashes, faults>>

-----------------------------------------------------------------------------

Subscriptions == SUBSET (Events \cup {Star})

WebhookRow == [state : {"unborn", "live", "deleted"}, isActive : BOOLEAN,
               events : Subscriptions, successCount : Nat, failureCount : Nat]

Unborn == [state |-> "unborn", isActive |-> TRUE, events |-> {},
           successCount |-> 0, failureCount |-> 0]

EventStatus == {"absent", "pending", "success", "failed"}

Steps == {"insert", "post", "markSuccess", "countSuccess", "markFailed", "countFailure"}

SendRecord == [pc : {"idle", "done", "lost"} \cup Steps, to : Webhooks \cup {NoWebhook}]

TypeOK ==
    /\ webhook \in [Webhooks -> WebhookRow]
    /\ event \in [Deliveries -> EventStatus]
    /\ send \in [Deliveries -> SendRecord]
    /\ received \in [Deliveries -> {"nothing", "accepted", "refused"}]
    /\ updates \in 0..MaxUpdates /\ crashes \in 0..MaxCrashes /\ faults \in 0..MaxFaults

Init ==
    /\ webhook = [w \in Webhooks |-> Unborn]
    /\ event = [d \in Deliveries |-> "absent"]
    /\ send = [d \in Deliveries |-> [pc |-> "idle", to |-> NoWebhook]]
    /\ received = [d \in Deliveries |-> "nothing"]
    /\ updates = 0 /\ crashes = 0 /\ faults = 0

boundVars == <<updates, crashes, faults>>

Live(w) == webhook[w].state = "live"

At(d, pc) == send[d].pc = pc

Goes(d, pc) == send' = [send EXCEPT ![d].pc = pc]

-----------------------------------------------------------------------------
(* The operator's requests, one statement each.                            *)

Create(w) ==
    /\ webhook[w] = Unborn /\ w = CHOOSE v \in Webhooks : webhook[v] = Unborn
    /\ \E active \in BOOLEAN, events \in Subscriptions :
         webhook' = [webhook EXCEPT ![w].state = "live", ![w].isActive = active,
                                    ![w].events = events]
    /\ UNCHANGED <<event, send, received, boundVars>>

(* update writes the columns of the dto; the counters are none of them. *)
Update(w) ==
    /\ Live(w) /\ updates < MaxUpdates
    /\ updates' = updates + 1
    /\ \E active \in BOOLEAN, events \in Subscriptions :
         webhook' = [webhook EXCEPT ![w].isActive = active, ![w].events = events]
    /\ UNCHANGED <<event, send, received, crashes, faults>>

(* The foreign key of webhook_events deletes the webhook's events with it. *)
Remove(w) ==
    /\ Live(w)
    /\ webhook' = [webhook EXCEPT ![w].state = "deleted"]
    /\ event' = [d \in Deliveries |-> IF send[d].to = w THEN "absent" ELSE event[d]]
    /\ UNCHANGED <<send, received, boundVars>>

-----------------------------------------------------------------------------
(* dispatch and test start deliveries.                                     *)

Idle == {d \in Deliveries : At(d, "idle")}

Subscribed(e) == {w \in Webhooks : Live(w) /\ webhook[w].isActive
                                           /\ webhook[w].events \cap {e, Star} # {}}

(* A row of its own for each; which ids they get makes no difference. *)
Dispatch(e) ==
    LET chosen == CHOOSE f \in [Subscribed(e) -> Idle] :
                      \A v, w \in Subscribed(e) : f[v] = f[w] => v = w IN
    /\ Subscribed(e) # {} /\ Cardinality(Subscribed(e)) <= Cardinality(Idle)
    /\ send' = [d \in Deliveries |->
                  IF \E w \in Subscribed(e) : chosen[w] = d
                  THEN [pc |-> "insert", to |-> CHOOSE w \in Subscribed(e) : chosen[w] = d]
                  ELSE send[d]]
    /\ UNCHANGED <<webhook, event, received, boundVars>>

(* test looks up the webhook and sends, active or not. *)
Test(w) ==
    /\ Live(w)
    /\ Idle # {}
    /\ send' = [send EXCEPT ![CHOOSE d \in Idle : TRUE] = [pc |-> "insert", to |-> w]]
    /\ UNCHANGED <<webhook, event, received, boundVars>>

-----------------------------------------------------------------------------
(* send.                                                                   *)

(* The insert fails when the webhook is gone, and nothing is posted. *)
InsertEvent(d) ==
    /\ At(d, "insert")
    /\ IF Live(send[d].to)
       THEN event' = [event EXCEPT ![d] = "pending"] /\ Goes(d, "post")
       ELSE Goes(d, "done") /\ UNCHANGED event
    /\ UNCHANGED <<webhook, received, boundVars>>

(* Mutant: any answer of the subscriber counts as one of success. *)
AfterAnyPost(outcome) == "markSuccess"

(* Mutant: the error of a refused post is dropped. *)
AfterAcceptedPost(outcome) == IF outcome = "accepted" THEN "markSuccess" ELSE "done"

AfterPost(outcome) == IF outcome = "accepted" THEN "markSuccess" ELSE "markFailed"

Post(d) ==
    /\ At(d, "post")
    /\ \E outcome \in {"accepted", "refused"} :
         /\ received' = [received EXCEPT ![d] = outcome]
         /\ Goes(d, AfterPost(outcome))
    /\ UNCHANGED <<webhook, event, boundVars>>

(* The subscriber takes the event, and its answer comes too late. *)
PostTimesOut(d) ==
    /\ At(d, "post") /\ faults < MaxFaults
    /\ faults' = faults + 1
    /\ received' = [received EXCEPT ![d] = "accepted"]
    /\ Goes(d, "markFailed")
    /\ UNCHANGED <<webhook, event, updates, crashes>>

(* An update of a row that is gone does nothing. *)
Marked(d, status) == event' = [event EXCEPT ![d] = IF @ = "absent" THEN @ ELSE status]

MarkSuccess(d) ==
    /\ At(d, "markSuccess")
    /\ Marked(d, "success") /\ Goes(d, "countSuccess")
    /\ UNCHANGED <<webhook, received, boundVars>>

CountedSuccess(d) == webhook' = [webhook EXCEPT ![send[d].to].successCount = @ + 1]

CountSuccess(d) ==
    /\ At(d, "countSuccess")
    /\ CountedSuccess(d) /\ Goes(d, "done")
    /\ UNCHANGED <<event, received, boundVars>>

MarkFailed(d) ==
    /\ At(d, "markFailed")
    /\ Marked(d, "failed") /\ Goes(d, "countFailure")
    /\ UNCHANGED <<webhook, received, boundVars>>

CountedFailure(d) == webhook' = [webhook EXCEPT ![send[d].to].failureCount = @ + 1]

CountFailure(d) ==
    /\ At(d, "countFailure")
    /\ CountedFailure(d) /\ Goes(d, "done")
    /\ UNCHANGED <<event, received, boundVars>>

(* A statement fails, with or without its effect.  Before the post that    *)
(* ends the delivery, inside the try it leads to the catch, and inside the *)
(* catch it ends the delivery again; nobody hears of it.                   *)
StatementFails(d) ==
    /\ send[d].pc \in Steps \ {"post"} /\ faults < MaxFaults
    /\ faults' = faults + 1
    /\ \/ UNCHANGED <<webhook, event>>
       \/ At(d, "insert") /\ Live(send[d].to)
          /\ event' = [event EXCEPT ![d] = "pending"] /\ UNCHANGED webhook
       \/ At(d, "markSuccess") /\ Marked(d, "success") /\ UNCHANGED webhook
       \/ At(d, "countSuccess") /\ CountedSuccess(d) /\ UNCHANGED event
       \/ At(d, "markFailed") /\ Marked(d, "failed") /\ UNCHANGED webhook
       \/ At(d, "countFailure") /\ CountedFailure(d) /\ UNCHANGED event
    /\ Goes(d, IF send[d].pc \in {"markSuccess", "countSuccess"} THEN "markFailed" ELSE "lost")
    /\ UNCHANGED <<received, updates, crashes>>

Crash ==
    /\ crashes < MaxCrashes
    /\ crashes' = crashes + 1
    /\ send' = [d \in Deliveries |->
                  IF send[d].pc \in Steps THEN [send[d] EXCEPT !.pc = "lost"] ELSE send[d]]
    /\ \E reached \in SUBSET {d \in Deliveries : At(d, "post")} :
         received' = [d \in Deliveries |-> IF d \in reached THEN "accepted" ELSE received[d]]
    /\ UNCHANGED <<webhook, event, updates, faults>>

SendStep(d) ==
    \/ InsertEvent(d) \/ Post(d) \/ MarkSuccess(d) \/ CountSuccess(d)
    \/ MarkFailed(d) \/ CountFailure(d)

Next ==
    \/ \E w \in Webhooks : Create(w) \/ Update(w) \/ Remove(w) \/ Test(w)
    \/ \E e \in Events : Dispatch(e)
    \/ \E d \in Deliveries : SendStep(d) \/ PostTimesOut(d) \/ StatementFails(d)
    \/ Crash

Spec == Init /\ [][Next]_vars

(* The event loop runs a delivery on; the post has a timeout. *)
Fairness == \A d \in Deliveries : WF_vars(SendStep(d))

-----------------------------------------------------------------------------

EventsOf(w, status) == {d \in Deliveries : send[d].to = w /\ event[d] = status}

(* The log does not claim a delivery that did not happen, and calls one    *)
(* failed that did happen only where an answer or a statement was lost.    *)
LogIsTrue ==
    /\ \A d \in Deliveries : event[d] = "success" => received[d] = "accepted"
    /\ Cardinality({d \in Deliveries : event[d] = "failed" /\ received[d] = "accepted"})
         <= faults

(* The counters of a webhook add up to the events in its log, except for   *)
(* the deliveries under way and what crashes and failures have cost.       *)
CountersMatchLog ==
    \A w \in Webhooks : Live(w) =>
        LET success  == Cardinality(EventsOf(w, "success"))
            failed   == Cardinality(EventsOf(w, "failed"))
            counting == Cardinality({d \in Deliveries : send[d].to = w /\
                                       send[d].pc \in {"countSuccess", "markFailed",
                                                       "countFailure"}})
            trouble  == counting + faults + crashes * Cardinality(Deliveries) IN
        /\ webhook[w].successCount <= success + faults
        /\ webhook[w].failureCount <= failed + faults
        /\ success <= webhook[w].successCount + trouble
        /\ failed <= webhook[w].failureCount + trouble

(* Nothing is posted for a webhook that was removed before its event was   *)
(* stored, although the delivery was decided on from an earlier read.      *)
RemovedIsQuiet ==
    [][\A d \in Deliveries : At(d, "insert") /\ send'[d].pc = "post" => Live(send[d].to)]_vars

(* An event stays pending only while its delivery is under way: it is      *)
(* settled in the end, unless a crash or a failure came between, or it is  *)
(* deleted with its webhook.                                               *)
PendingSettles ==
    \A d \in Deliveries :
        event[d] = "pending" ~> event[d] # "pending" \/ crashes + faults > 0
=============================================================================
