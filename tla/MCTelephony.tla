---------------------------- MODULE MCTelephony ----------------------------
(***************************************************************************)
(* Calls, outgoing webhooks and contacts in one instance for TLC.  They    *)
(* share no variable, so that none can disturb another; part says which of *)
(* them a behaviour runs.  Calls, the largest, is extended and not         *)
(* instantiated, which TLC evaluates faster.                               *)
(***************************************************************************)
EXTENDS Calls, Sequences

CONSTANTS Parts,   \* the parts to run
          Clients, \* requests under way at a time
          Webhooks, NoWebhook, Deliveries, Events, Star, MaxUpdates,
          Contacts, Messages, Phones, Details, None, Together, MaxRows

VARIABLES part

VARIABLES webhook, event, send, received, updates, sendCrashes, sendFaults

Outgoing == INSTANCE Webhooks WITH crashes <- sendCrashes, faults <- sendFaults

outgoingVars == <<webhook, event, send, received, updates, sendCrashes, sendFaults>>

VARIABLES contact, message, request, deleted

People == INSTANCE Contacts

peopleVars == <<contact, message, request, deleted>>

allVars == <<part, vars, outgoingVars, peopleVars>>

ASSUME TelephonyAssumption ==
    /\ Outgoing!WebhookAssumption /\ People!ContactAssumption
    /\ Parts \subseteq {"voice", "outgoing", "people"}

-----------------------------------------------------------------------------

AllInit == part \in Parts /\ Init /\ Outgoing!Init /\ People!Init

AllNext ==
    /\ UNCHANGED part
    /\ IF part = "voice" THEN Next ELSE UNCHANGED vars
    /\ IF part = "outgoing" THEN Outgoing!Next ELSE UNCHANGED outgoingVars
    /\ IF part = "people" THEN People!Next ELSE UNCHANGED peopleVars

AllSpec == AllInit /\ [][AllNext]_allVars

(* Bound: a second call, a crash or a failure joins the runs in which no   *)
(* notes are written and at most one callback is being handled.            *)
OneThingAtATime ==
    LET placed  == {s \in Sids : twilio[s] # NoCall}
        busy    == {h \in Hooks : hook[h] # IdleHook}
        noted   == \E i \in RowIds : calls[i].notes IN
    /\ crashes + faults > 0 => Cardinality(placed) <= 1 /\ busy = {} /\ ~noted
    /\ Cardinality(placed) > 1 => Cardinality(busy) <= 1 /\ ~noted
    /\ sendCrashes + sendFaults <= 1

-----------------------------------------------------------------------------

(* The variables of the part that runs keep their types. *)
AllTypeOK ==
    CASE part = "voice"    -> TypeOK
      [] part = "outgoing" -> Outgoing!TypeOK
      [] part = "people"   -> People!TypeOK

(* What the call history says is what Twilio said of that very call, and a *)
(* placed call is in it once (Calls: HistoryIsReported, PlacedCallsAreKept).*)
CallHistoryIsTrue == HistoryIsReported /\ PlacedCallsAreKept

(* The log of outgoing webhooks is true and its counters add up to it      *)
(* (Webhooks: LogIsTrue, CountersMatchLog).                                *)
WebhookLogIsTrue ==
    part = "outgoing" => Outgoing!LogIsTrue /\ Outgoing!CountersMatchLog

(* No row takes back what another one's callback, opt-out or removal wrote *)
(* (Calls: NotesAndTimesAreKept; Webhooks: RemovedIsQuiet; Contacts:       *)
(* KeptFromAllButStaleEdits, ImportsMerge).                                *)
NothingIsTakenBack ==
    /\ NotesAndTimesAreKept /\ Outgoing!RemovedIsQuiet
    /\ People!KeptFromAllButStaleEdits /\ People!ImportsMerge
=============================================================================
