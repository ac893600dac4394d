------------------------------ MODULE Messages -------------------------------
(***************************************************************************)
(* Outbound messages of src/apps/api: MessagesService.send inserts a row   *)
(* and enqueues a job on the `messages` queue; the worker of that queue    *)
(* runs sendImmediate, which hands the message to Twilio; Twilio reports   *)
(* its progress through status callbacks, each handled by updateStatus.    *)
(* Callbacks race with the worker and with each other: they may be lost,   *)
(* repeated, overtake one another, or arrive before the row has its sid.   *)
(***************************************************************************)
EXTENDS BullQueue

CONSTANTS Messages,   \* rows of table messages, one per call of send
          Sids,       \* message sids Twilio may assign
          NoSid,      \* twilioSid IS NULL
          Hooks,      \* status callbacks being handled at the same time
          MaxCrashes, \* bound: crashes of the API process
          MaxFaults,  \* bound: failed database or Redis statements
          MaxNet      \* bound: callbacks on their way at the same time

ASSUME MessageAssumption ==
    /\ Jobs = Messages          \* one job per message
    /\ IsFiniteSet(Sids)
    /\ NoSid \notin Sids
    /\ MaxCrashes \in Nat
    /\ MaxFaults \in Nat
    /\ MaxNet \in Nat

VARIABLES
    msg,       \* the rows
    spc,       \* control state of each send request
    wpc,       \* where the worker stands in sendImmediate
    wsid,      \* sent.sid, once Twilio has answered
    hook,      \* control state and locals of each callback handler
    owner,     \* Twilio: the message a sid was assigned for
    progress,  \* Twilio: the status a sid has reached
    net,       \* callbacks on their way
    crashes, faults

vars == <<msg, spc, wpc, wsid, hook, owner, progress, net, crashes, faults, queueVars>>

-----------------------------------------------------------------------------

Status  == {"queued", "scheduled", "sending", "sent", "delivered", "failed",
            "undelivered"}
Reports == {"accepted", "queued", "sending", "sent", "delivered", "undelivered",
            "failed"}

\* Twilio's own order of statuses
NextReports == [accepted |-> {"queued"},
                queued   |-> {"sending", "failed"},
                sending  |-> {"sent", "failed"},
                sent     |-> {"delivered", "undelivered"}]

MessageRow == [status : Status \cup {"absent"}, sid : Sids \cup {NoSid},
               deliveredAt : BOOLEAN]

NoRow == [status |-> "absent", sid |-> NoSid, deliveredAt |-> FALSE]

Callback == [sid : Sids, status : Reports]

\* target: the row updateStatus found; seen: its status then
HookRecord == [target : Messages \cup {NoJob}, seen : Status \cup {"absent"},
               report : Reports]

IdleHook == [target |-> NoJob, seen |-> "absent", report |-> "queued"]

WorkerPc == {"idle", "read", "client", "create", "markSent", "markFailed", "settle"}

TypeOK ==
    /\ QueueTypeOK
    /\ msg \in [Messages -> MessageRow]
    /\ spc \in [Messages -> {"idle", "add", "done", "lost"}]
    /\ wpc \in WorkerPc
    /\ wsid \in Sids \cup {NoSid}
    /\ hook \in [Hooks -> HookRecord]
    /\ owner \in [Sids -> Messages \cup {NoJob}]
    /\ progress \in [Sids -> Reports \cup {"unassigned"}]
    /\ net \in SUBSET Callback
    /\ crashes \in 0..MaxCrashes /\ faults \in 0..MaxFaults

Init ==
    /\ QueueInit
    /\ msg = [m \in Messages |-> NoRow]
    /\ spc = [m \in Messages |-> "idle"]
    /\ wpc = "idle" /\ wsid = NoSid
    /\ hook = [h \in Hooks |-> IdleHook]
    /\ owner = [s \in Sids |-> NoJob]
    /\ progress = [s \in Sids |-> "unassigned"]
    /\ net = {}
    /\ crashes = 0 /\ faults = 0

sendVars   == <<spc>>
workerVars == <<wpc, wsid>>
twilioVars == <<owner, progress, net>>
boundVars  == <<crashes, faults>>

-----------------------------------------------------------------------------
(* MessagesService.send: insert the row, then enqueue the job.             *)

SendSave(m) ==
    /\ spc[m] = "idle"
    /\ \E status \in {"queued", "scheduled"} :
         msg' = [msg EXCEPT ![m] = [NoRow EXCEPT !.status = status]]
    /\ spc' = [spc EXCEPT ![m] = "add"]
    /\ UNCHANGED <<workerVars, hook, twilioVars, boundVars, queueVars>>

(* A scheduledAt that has passed by now gives a delay of 0. *)
SendAdd(m) ==
    /\ spc[m] = "add"
    /\ \E delayed \in BOOLEAN :
         /\ delayed => msg[m].status = "scheduled"
         /\ Add(m, delayed)
    /\ spc' = [spc EXCEPT ![m] = "done"]
    /\ UNCHANGED <<msg, workerVars, hook, twilioVars, boundVars>>

SendAddFails(m) ==
    /\ spc[m] = "add"
    /\ faults < MaxFaults
    /\ faults' = faults + 1
    /\ spc' = [spc EXCEPT ![m] = "lost"]
    /\ UNCHANGED <<msg, workerVars, hook, twilioVars, crashes, queueVars>>

-----------------------------------------------------------------------------
(* sendImmediate, for the message `active`.  Nothing looks at its status.  *)

keptByWorker == <<sendVars, hook, boundVars>>

SendStart(m) ==
    /\ wpc = "idle"
    /\ Take(m)
    /\ wpc' = "read"
    /\ UNCHANGED <<msg, wsid, twilioVars, keptByWorker>>

SendRead ==
    /\ wpc = "read"
    /\ wpc' = IF msg[active].status = "absent" THEN "settle" ELSE "client"
    /\ UNCHANGED <<msg, wsid, twilioVars, keptByWorker, queueVars>>

SendClient ==
    /\ wpc = "client"
    /\ wpc' \in {"create", "markFailed"}
    /\ UNCHANGED <<msg, wsid, twilioVars, keptByWorker, queueVars>>

(* Twilio calls back with the status of a sid, or the call is lost. *)
Reported(s, status) ==
    \/ UNCHANGED net
    \/ /\ Cardinality(net) < MaxNet
       /\ net' = net \cup {[sid |-> s, status |-> status]}

(* Mutant: an error without an answer is taken for a success. *)
AssumeSent(answered) == "markSent"

AfterCreate(answered) == IF answered THEN "markSent" ELSE "markFailed"

(* Twilio takes the message on under a new sid, and may report on it at    *)
(* once.  The answer with the sid may get lost; the call then throws.      *)
CreateAccepted(s, answered) ==
    /\ wpc = "create"
    /\ owner[s] = NoJob
    /\ owner' = [owner EXCEPT ![s] = active]
    /\ \E first \in {"accepted", "queued"} :
         /\ progress' = [progress EXCEPT ![s] = first]
         /\ Reported(s, first)
    /\ wpc' = AfterCreate(answered)
    /\ wsid' = IF answered THEN s ELSE NoSid
    /\ UNCHANGED <<msg, keptByWorker, queueVars>>

CreateRefused ==
    /\ wpc = "create"
    /\ wpc' = "markFailed"
    /\ UNCHANGED <<msg, wsid, twilioVars, keptByWorker, queueVars>>

MarkSent ==
    /\ wpc = "markSent"
    /\ msg' = [msg EXCEPT ![active].status = "sent", ![active].sid = wsid]
    /\ wpc' = "settle" /\ wsid' = NoSid
    /\ UNCHANGED <<twilioVars, keptByWorker, queueVars>>

(* Mutant: the error is thrown on for the queue to retry. *)
MarkFailedAndThrow ==
    /\ wpc = "markFailed"
    /\ msg' = [msg EXCEPT ![active].status = "failed"]
    /\ Reject(active)
    /\ wpc' = "idle"
    /\ UNCHANGED <<wsid, twilioVars, keptByWorker>>

MarkFailed ==
    /\ wpc = "markFailed"
    /\ msg' = [msg EXCEPT ![active].status = "failed"]
    /\ wpc' = "settle"
    /\ UNCHANGED <<wsid, twilioVars, keptByWorker, queueVars>>

SendSettle ==
    /\ wpc = "settle"
    /\ Finish(active)
    /\ wpc' = "idle"
    /\ UNCHANGED <<msg, wsid, twilioVars, keptByWorker>>

(* The update to SENT fails: caught, and the message is marked failed.     *)
FaultCaught ==
    /\ wpc = "markSent"
    /\ faults < MaxFaults
    /\ faults' = faults + 1
    /\ wpc' = "markFailed" /\ wsid' = NoSid
    /\ UNCHANGED <<msg, spc, hook, twilioVars, crashes, queueVars>>

(* Mutant: a job that throws goes back to the queue without being counted. *)
ThrowsUncounted == /\ wpc' = "idle"
                   /\ active' = NoJob
                   /\ jobs' = [jobs EXCEPT ![active].state = "waiting"]

JobThrows == wpc' = "idle" /\ Reject(active)

(* findOne or the update to FAILED fails: the job throws and is retried.   *)
FaultThrown ==
    /\ wpc \in {"read", "markFailed"}
    /\ faults < MaxFaults
    /\ faults' = faults + 1
    /\ JobThrows
    /\ UNCHANGED <<msg, spc, wsid, hook, twilioVars, crashes>>

keptByQueue == <<msg, sendVars, workerVars, hook, twilioVars, boundVars>>

(* Mutant: only scheduled messages are promoted, a job in backoff is not. *)
JobPromotedOnce(m) == jobs[m].failures = 0 /\ Promote(m) /\ UNCHANGED keptByQueue

JobPromoted(m)  == Promote(m) /\ UNCHANGED keptByQueue
JobRecovered(m) == RecoverStalled(m) /\ UNCHANGED keptByQueue

-----------------------------------------------------------------------------
(* Twilio moves on with a message and, unless the callback gets lost,      *)
(* reports it.                                                             *)
TwilioAdvances(s) ==
    /\ progress[s] \in DOMAIN NextReports
    /\ \E next \in NextReports[progress[s]] :
         /\ progress' = [progress EXCEPT ![s] = next]
         /\ Reported(s, next)
    /\ UNCHANGED <<msg, sendVars, workerVars, hook, owner, boundVars, queueVars>>

RowsWith(sid) == {m \in Messages : msg[m].sid = sid}

(* updateStatus, first half: find the row by sid.  A callback for a sid no *)
(* row has yet is dropped; one that stays in net is delivered again.       *)
HookRead(h, cb) ==
    /\ hook[h] = IdleHook
    /\ cb \in net
    /\ net' \in {net, net \ {cb}}
    /\ \/ RowsWith(cb.sid) = {} /\ UNCHANGED hook
       \/ \E m \in RowsWith(cb.sid) :
            hook' = [hook EXCEPT ![h] = [target |-> m, seen |-> msg[m].status,
                                         report |-> cb.status]]
    /\ UNCHANGED <<msg, sendVars, workerVars, owner, progress, boundVars, queueVars>>

(* Mutants: statusMap calls sent delivered; it passes on what it lacks. *)
MappedEarly(report, seen) == IF report = "sent" THEN "delivered"
                             ELSE IF report \in Status THEN report ELSE seen
MappedRaw(report, seen) == report

(* statusMap[status] || message.status *)
Mapped(report, seen) == IF report \in Status THEN report ELSE seen

(* updateStatus, second half: write what was read and computed before.     *)
HookUpdate(h) ==
    /\ hook[h] # IdleHook
    /\ LET m == hook[h].target IN
       msg' = [msg EXCEPT ![m].status = Mapped(hook[h].report, hook[h].seen),
                          ![m].deliveredAt = @ \/ hook[h].report = "delivered"]
    /\ hook' = [hook EXCEPT ![h] = IdleHook]
    /\ UNCHANGED <<sendVars, workerVars, twilioVars, boundVars, queueVars>>

-----------------------------------------------------------------------------

Crash ==
    /\ crashes < MaxCrashes
    /\ crashes' = crashes + 1
    /\ spc' = [m \in Messages |-> IF spc[m] = "add" THEN "lost" ELSE spc[m]]
    /\ LoseWorker
    /\ wpc' = "idle" /\ wsid' = NoSid
    /\ hook' = [h \in Hooks |-> IdleHook]
    /\ UNCHANGED <<msg, twilioVars, faults>>

WorkerStep ==
    \/ SendRead \/ SendClient
    \/ \E s \in Sids, answered \in BOOLEAN : CreateAccepted(s, answered)
    \/ CreateRefused \/ MarkSent \/ MarkFailed \/ SendSettle

QueueStep ==
    \E m \in Messages : SendStart(m) \/ JobPromoted(m) \/ JobRecovered(m)

Next ==
    \/ \E m \in Messages : SendSave(m) \/ SendAdd(m) \/ SendAddFails(m)
    \/ WorkerStep
    \/ QueueStep
    \/ FaultCaught \/ FaultThrown
    \/ \E s \in Sids : TwilioAdvances(s)
    \/ \E h \in Hooks : HookUpdate(h) \/ \E cb \in net : HookRead(h, cb)
    \/ Crash

Spec == Init /\ [][Next]_vars

(* The event loop runs the handlers and the worker on, and Bull promotes,  *)
(* hands out and recovers jobs.  Nothing is assumed of Twilio or the net.  *)
Fairness ==
    /\ WF_vars(WorkerStep)
    /\ WF_vars(QueueStep)
    /\ \A m \in Messages : WF_vars(SendAdd(m))
    /\ \A h \in Hooks : WF_vars(HookUpdate(h))

FairSpec == Spec /\ Fairness

-----------------------------------------------------------------------------

SidsOf(m) == {s \in Sids : owner[s] = m}

(* What the inbox shows about delivery is what Twilio said of this message *)
(* and of no other, whatever is repeated, overtaken or written back late.  *)
OutcomeIsReported ==
    \A m \in Messages :
        /\ msg[m].status \in {"delivered", "undelivered"} =>
             \E s \in SidsOf(m) : progress[s] = msg[m].status
        /\ msg[m].deliveredAt => \E s \in SidsOf(m) : progress[s] = "delivered"

(* A message that says sent, sending or more was taken on by Twilio.       *)
SentIsAccepted ==
    \A m \in Messages :
        msg[m].status \in {"sending", "sent", "delivered", "undelivered"} =>
            SidsOf(m) # {} /\ msg[m].sid \in SidsOf(m)

(* A message goes out once unless something breaks: every copy beyond the  *)
(* first is paid for with a crash or a failed statement.                   *)
DuplicatesNeedTrouble ==
    \A m \in Messages : Cardinality(SidsOf(m)) <= 1 + crashes + faults

(* Every message accepted for sending reaches the end of its job, unless the send was  *)
(* cut off between the insert and queue.add.                               *)
SendsSettle ==
    \A m \in Messages :
        spc[m] = "add" ~> spc[m] = "lost" \/ jobs[m].state \in Settled

(* README.md: "Delivery status tracking (Delivered, Failed, Undelivered)". *)
(* Delivered is the end of a message; the row does not keep it.            *)
DeliveredIsKept ==
    [][\A m \in Messages : msg[m].status = "delivered"
                             => msg'[m].status = "delivered"]_vars
=============================================================================
