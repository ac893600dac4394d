----------------------------- MODULE MCLiveness -----------------------------
(***************************************************************************)
(* What must happen in the end, in one instance for TLC: the requests of a *)
(* tab, the deliveries of a webhook, the messages a browser is told of and *)
(* the start of the API.  They share no variable; part says which of them  *)
(* a behaviour runs, and that part alone is treated fairly.                *)
(***************************************************************************)
EXTENDS Boot

CONSTANTS Parts, \* the parts to run
          NoWebhook, Star, None

VARIABLES part

VARIABLES pairs, current, expired, stored, tab, logins, expiries, rivals, lost, disturbed

Web == INSTANCE WebSession WITH
    Tabs <- {"t1"}, Requests <- {"r1", "r2"}, MaxLogins <- 2, MaxExpiries <- 1, MaxRivals <- 1,
    MaxFaults <- 1, TwoFactor <- FALSE, faults <- lost

(* The same tab with an account that has 2FA. *)
Code == INSTANCE WebSession WITH
    Tabs <- {"t1"}, Requests <- {"r1", "r2"}, MaxLogins <- 2, MaxExpiries <- 0, MaxRivals <- 1,
    MaxFaults <- 1, TwoFactor <- TRUE, faults <- lost

webVars == <<pairs, current, expired, stored, tab, logins, expiries, rivals, lost, disturbed>>

VARIABLES webhook, event, send, received, updates, crashes, failures

Outgoing == INSTANCE Webhooks WITH
    Webhooks <- {"w1"}, Deliveries <- {"d1", "d2"}, Events <- {"e1"},
    MaxUpdates <- 1, MaxCrashes <- 1, MaxFaults <- 1, faults <- failures

webhookVars == <<webhook, event, send, received, updates, crashes, failures>>

VARIABLES rows, events, query, numbers, selected, draft, texts, composeFrom, asked, suggestions,
          sends, due, fails

Messages == INSTANCE Inbox WITH
    Contacts <- {"a"}, Strangers <- {}, Numbers <- 1, MaxMessages <- 2, MaxTexts <- 0,
    MaxSends <- 0, MaxAsks <- 0, MaxFails <- 1

messageVars == <<rows, events, query, numbers, selected, draft, texts, composeFrom, asked,
                 suggestions, sends, due, fails>>

allVars == <<part, webVars, webhookVars, messageVars, vars>>

(* The modules of the API with the one token shared that a module lacks,   *)
(* and of them those that need each other.                                 *)
GatewayShared == {"ConfigService", "Reflector", "EventsGateway"}
Core == {"AppModule", "TwilioModule", "MessagesModule", "CallsModule", "WebhooksModule"}

ASSUME Web!WebAssumption /\ Outgoing!WebhookAssumption /\ Messages!InboxAssumption

-----------------------------------------------------------------------------

AllInit ==
    /\ part \in Parts
    /\ Web!Init /\ Outgoing!Init /\ Messages!Init /\ Init

AllNext ==
    /\ UNCHANGED part
    /\ CASE part = "web"  -> Web!Next
         [] part = "code" -> Code!Next
         [] OTHER -> UNCHANGED webVars
    /\ IF part = "webhooks" THEN Outgoing!Next ELSE UNCHANGED webhookVars
    /\ IF part = "inbox" THEN Messages!Next ELSE UNCHANGED messageVars
    /\ IF part = "start" THEN Next ELSE UNCHANGED vars

AllSpec == AllInit /\ [][AllNext]_allVars

FairSpec ==
    /\ AllSpec
    /\ \/ part = "web" /\ Web!Fairness
       \/ part = "code" /\ Code!Fairness
       \/ part = "webhooks" /\ Outgoing!Fairness
       \/ part = "inbox" /\ Messages!Fairness
       \/ part = "start" /\ Fairness

-----------------------------------------------------------------------------

(* Every request of a tab comes to an end (WebSession).                    *)
RequestsSettle ==
    /\ part = "web" => Web!RequestsSettle
    /\ part = "code" => Code!RequestsSettle

(* No event stays pending but by a crash or a failed statement (Webhooks). *)
PendingSettles == part = "webhooks" => Outgoing!PendingSettles

(* A message the browser is told of gets on its list (Inbox).              *)
ToldIsListed == part = "inbox" => Messages!ToldIsListed

(* The containers come up, whatever goes down for a time, and nobody is    *)
(* served before all of the API is there (Boot).                           *)
SystemComesUp == part = "start" => ComesUp /\ []ServedByAWholeApi
=============================================================================
