------------------------------ MODULE Campaigns ------------------------------
(***************************************************************************)
(* One campaign of src/apps/api: its database row, the HTTP handlers of    *)
(* CampaignsService that read and write it, the jobs of the `campaigns`    *)
(* queue, and the worker that runs CampaignsService.runCampaign.           *)
(*                                                                         *)
(* Every await of the source is a point where other handlers, the worker   *)
(* and crashes interleave, so a handler is split into one action per       *)
(* awaited statement.  Handlers and runs touch only the row whose id they  *)
(* were given, which is why one campaign is enough.                        *)
(***************************************************************************)
EXTENDS BullQueue

CONSTANTS Requests,   \* HTTP requests that write the row in several steps
          Contacts,   \* contacts of the organisation
          NoContact,  \* "no contact is being handled"
          MaxCrashes, \* bound: crashes of the API process
          MaxFaults   \* bound: failed database or Redis statements

ASSUME CampaignAssumption ==
    /\ Jobs = Requests        \* the job a launch request may enqueue
    /\ IsFiniteSet(Contacts)
    /\ NoContact \notin Contacts
    /\ MaxCrashes \in Nat
    /\ MaxFaults \in Nat

VARIABLES
    row,        \* the row of table campaigns
    req,        \* control state and locals of each request
    wpc,        \* where the worker stands in runCampaign
    todo,       \* contacts the loop of the run has not reached
    optedSnap,  \* those of them whose isOptedOut was true when they were read
    cur,        \* the contact being sent to
    optedOut,   \* contacts whose row says isOptedOut
    crashes, faults
VARIABLES       \* observers: what happened so far, never read by a guard
    stored,     \* campaign messages inserted in table messages
    handled,    \* loop iterations that reached a contact, over all runs
    sent,       \* messages Twilio accepted, per job and contact
    lateHalt,   \* messages accepted since the row was last paused or cancelled
    lateOut     \* messages accepted for a contact after it opted out

runVars     == <<wpc, todo, optedSnap, cur>>
boundVars   == <<crashes, faults>>
observers   == <<stored, handled, sent, lateHalt, lateOut>>
vars == <<row, req, runVars, optedOut, boundVars, observers, queueVars>>

-----------------------------------------------------------------------------

Absent   == {"unborn", "deleted"}
Editable == {"draft", "scheduled"}
Halted   == {"paused", "cancelled"}
Status   == {"draft", "scheduled", "running", "paused", "completed", "failed",
             "cancelled"}

RowRecord == [status : Status \cup Absent,
              sentCount : Nat, failedCount : Nat, optOutCount : Nat,
              totalContacts : Nat]

NewRow == [status |-> "unborn", sentCount |-> 0, failedCount |-> 0,
           optOutCount |-> 0, totalContacts |-> 0]

ReqPc == {"idle", "updateSave", "launchTargets", "launchUpdate", "launchAdd",
          "removeDelete", "done", "lost"}

\* snap: the entity an update loaded; matched: contacts.length of a launch
ReqRecord == [pc : ReqPc, snap : RowRecord, matched : Nat]

NewRequest == [pc |-> "idle", snap |-> NewRow, matched |-> 0]
Answered   == [NewRequest EXCEPT !.pc = "done"]

WorkerPc == {"idle", "read", "targets", "client", "check", "send", "save",
             "incSent", "incFailed", "incOptOut", "complete", "settle"}

TypeOK ==
    /\ QueueTypeOK
    /\ row \in RowRecord
    /\ req \in [Requests -> ReqRecord]
    /\ wpc \in WorkerPc
    /\ todo \in SUBSET Contacts
    /\ optedSnap \in SUBSET Contacts
    /\ cur \in Contacts \cup {NoContact}
    /\ optedOut \in SUBSET Contacts
    /\ crashes \in 0..MaxCrashes /\ faults \in 0..MaxFaults
    /\ stored \in Nat /\ handled \in Nat /\ lateHalt \in Nat
    /\ sent \in [Requests -> [Contacts -> Nat]]
    /\ lateOut \in [Contacts -> Nat]

Init ==
    /\ QueueInit
    /\ row = NewRow
    /\ req = [r \in Requests |-> NewRequest]
    /\ wpc = "idle" /\ todo = {} /\ optedSnap = {} /\ cur = NoContact
    /\ optedOut = {}
    /\ crashes = 0 /\ faults = 0
    /\ stored = 0 /\ handled = 0 /\ lateHalt = 0
    /\ sent = [r \in Requests |-> [c \in Contacts |-> 0]]
    /\ lateOut = [c \in Contacts |-> 0]

Exists == row.status \notin Absent

(* campaignRepo.update / increment: a missing row is silently not updated. *)
Write(newRow) ==
    /\ row' = IF Exists THEN newRow ELSE row
    /\ lateHalt' = IF row'.status \in Halted /\ row.status \in Halted
                   THEN lateHalt ELSE 0

(* campaignRepo.save(entity): the row becomes the entity, inserted again   *)
(* when it was deleted in the meantime.                                    *)
Save(entity) ==
    /\ row' = entity
    /\ lateHalt' = IF entity.status \in Halted /\ row.status \in Halted
                   THEN lateHalt ELSE 0

Goto(r, pc) == req' = [req EXCEPT ![r].pc = pc]
Answer(r)   == req' = [req EXCEPT ![r] = Answered]

keptByHandlers == <<runVars, optedOut, boundVars, stored, handled, sent, lateOut>>

-----------------------------------------------------------------------------
(* The HTTP handlers.  A handler that answers 404 or 400 changes nothing.  *)

Create ==
    /\ row.status = "unborn"
    /\ Save([NewRow EXCEPT !.status = "draft"])
    /\ UNCHANGED <<req, keptByHandlers, queueVars>>

(* Mutant: the status check of update() is forgotten. *)
MayEditAny == Exists

MayEdit == row.status \in Editable

UpdateRead(r) ==
    /\ req[r].pc = "idle"
    /\ MayEdit
    /\ req' = [req EXCEPT ![r] = [pc |-> "updateSave", snap |-> row, matched |-> 0]]
    /\ UNCHANGED <<row, lateHalt, keptByHandlers, queueVars>>

UpdateSave(r) ==
    /\ req[r].pc = "updateSave"
    /\ Save(req[r].snap)
    /\ Answer(r)
    /\ UNCHANGED <<keptByHandlers, queueVars>>

LaunchRead(r) ==
    /\ req[r].pc = "idle"
    /\ row.status \in Editable
    /\ Goto(r, "launchTargets")
    /\ UNCHANGED <<row, lateHalt, keptByHandlers, queueVars>>

(* Which contacts match is up to the contacts module: any subset may.      *)
LaunchTargets(r) ==
    /\ req[r].pc = "launchTargets"
    /\ \E matching \in SUBSET Contacts :
         IF matching = {}
         THEN Answer(r)
         ELSE req' = [req EXCEPT ![r].pc = "launchUpdate",
                                 ![r].matched = Cardinality(matching)]
    /\ UNCHANGED <<row, lateHalt, keptByHandlers, queueVars>>

LaunchUpdate(r) ==
    /\ req[r].pc = "launchUpdate"
    /\ Write([row EXCEPT !.status = "running", !.totalContacts = req[r].matched])
    /\ Goto(r, "launchAdd")
    /\ UNCHANGED <<keptByHandlers, queueVars>>

(* The job is delayed when the campaign has a scheduledAt in the future.   *)
LaunchAdd(r) ==
    /\ req[r].pc = "launchAdd"
    /\ \E scheduled \in BOOLEAN : Add(r, scheduled)
    /\ Answer(r)
    /\ UNCHANGED <<row, lateHalt, keptByHandlers>>

(* Redis refuses the job: the caller gets a 500, the row stays running.    *)
LaunchAddFails(r) ==
    /\ req[r].pc = "launchAdd"
    /\ faults < MaxFaults
    /\ faults' = faults + 1
    /\ req' = [req EXCEPT ![r] = [Answered EXCEPT !.pc = "lost"]]
    /\ UNCHANGED <<row, runVars, optedOut, crashes, observers, queueVars>>

Pause ==
    /\ Exists
    /\ Write([row EXCEPT !.status = "paused"])
    /\ UNCHANGED <<req, keptByHandlers, queueVars>>

Cancel ==
    /\ Exists
    /\ Write([row EXCEPT !.status = "cancelled"])
    /\ UNCHANGED <<req, keptByHandlers, queueVars>>

RemoveRead(r) ==
    /\ req[r].pc = "idle"
    /\ Exists
    /\ Goto(r, "removeDelete")
    /\ UNCHANGED <<row, lateHalt, keptByHandlers, queueVars>>

RemoveDelete(r) ==
    /\ req[r].pc = "removeDelete"
    /\ Write([NewRow EXCEPT !.status = "deleted"])
    /\ Answer(r)
    /\ UNCHANGED <<keptByHandlers, queueVars>>

(* ContactsService.optOut, while campaigns come and go. *)
OptOut(c) ==
    /\ optedOut' = optedOut \cup {c}
    /\ UNCHANGED <<row, req, runVars, boundVars, observers, queueVars>>

Handler(r) ==
    \/ UpdateRead(r) \/ UpdateSave(r)
    \/ LaunchRead(r) \/ LaunchTargets(r) \/ LaunchUpdate(r)
    \/ LaunchAdd(r)  \/ LaunchAddFails(r)
    \/ RemoveRead(r) \/ RemoveDelete(r)

-----------------------------------------------------------------------------
(* runCampaign, for the job `active` on the one worker of the queue.       *)

keptByRun == <<req, optedOut, boundVars>>
logs      == <<stored, handled, sent, lateOut>>   \* observers but lateHalt

RunEnds == /\ wpc' = "idle"
           /\ todo' = {} /\ optedSnap' = {} /\ cur' = NoContact

(* Mutant: a run that throws goes back to the queue without being counted. *)
RunThrowsUncounted == /\ RunEnds
                      /\ active' = NoJob
                      /\ jobs' = [jobs EXCEPT ![active].state = "waiting"]

(* The promise of the handler rejects: the rest is up to the queue. *)
RunThrows == RunEnds /\ Reject(active)

(* Mutant: only scheduled jobs are promoted, a job in backoff is forgotten. *)
JobPromotedOnce(j) == /\ jobs[j].failures = 0
                      /\ Promote(j)
                      /\ UNCHANGED <<row, keptByRun, runVars, observers>>

JobPromoted(j) == Promote(j) /\ UNCHANGED <<row, keptByRun, runVars, observers>>

RunStart(j) ==
    /\ wpc = "idle"
    /\ Take(j)
    /\ wpc' = "read"
    /\ UNCHANGED <<row, todo, optedSnap, cur, keptByRun, observers>>

RunRead ==
    /\ wpc = "read"
    /\ IF Exists
       THEN wpc' = "targets" /\ UNCHANGED <<todo, optedSnap, cur, queueVars>>
       ELSE RunThrows
    /\ UNCHANGED <<row, keptByRun, observers>>

(* Mutant: isOptedOut is not among the columns read. *)
NobodyOptedOut(matching) == {}

OptedOutAmong(matching) == matching \cap optedOut

(* The loop iterates over this snapshot, isOptedOut flags included. *)
RunTargets ==
    /\ wpc = "targets"
    /\ \E matching \in SUBSET Contacts :
         /\ todo' = matching
         /\ optedSnap' = OptedOutAmong(matching)
    /\ wpc' = "client"
    /\ UNCHANGED <<row, cur, keptByRun, observers, queueVars>>

(* TwilioService.getClient, which throws without usable credentials. *)
RunClient ==
    /\ wpc = "client"
    /\ \/ wpc' = "check" /\ UNCHANGED <<todo, optedSnap, cur, queueVars>>
       \/ RunThrows
    /\ UNCHANGED <<row, keptByRun, observers>>

LoopExhausted ==
    /\ wpc = "check"
    /\ todo = {}
    /\ wpc' = "complete"
    /\ UNCHANGED <<row, todo, optedSnap, cur, keptByRun, observers, queueVars>>

(* Mutant: the loop looks out for a pause only. *)
StopsWhenPaused(status) == status = "paused"

Stops(status) == status \in Halted

LoopBreaks ==
    /\ wpc = "check"
    /\ todo # {}
    /\ Stops(row.status)
    /\ wpc' = "complete"
    /\ UNCHANGED <<row, todo, optedSnap, cur, keptByRun, observers, queueVars>>

(* findOne gives null for a deleted row, and null has no status. *)
LoopRowGone ==
    /\ wpc = "check"
    /\ todo # {}
    /\ ~Exists
    /\ RunThrows
    /\ UNCHANGED <<row, keptByRun, observers>>

LoopNext(c) ==
    /\ wpc = "check"
    /\ c \in todo
    /\ Exists
    /\ ~Stops(row.status)
    /\ todo' = todo \ {c}
    /\ handled' = handled + 1
    /\ IF c \in optedSnap
       THEN wpc' = "incOptOut" /\ cur' = NoContact
       ELSE wpc' = "send" /\ cur' = c
    /\ UNCHANGED <<row, optedSnap, keptByRun, stored, sent, lateHalt, lateOut,
                   queueVars>>

(* Mutant: a call whose answer was lost is made again at once. *)
ResendUnanswered(answered) == IF answered THEN "save" ELSE "send"

AfterSend(answered) == IF answered THEN "save" ELSE "incFailed"

(* client.messages.create: accepted and answered, accepted with the answer *)
(* lost (the call throws all the same), or not accepted.                   *)
SendAccepted(answered) ==
    /\ wpc = "send"
    /\ sent' = [sent EXCEPT ![active][cur] = @ + 1]
    /\ lateHalt' = IF row.status \in Halted THEN lateHalt + 1 ELSE 0
    /\ lateOut' = IF cur \in optedOut THEN [lateOut EXCEPT ![cur] = @ + 1]
                                      ELSE lateOut
    /\ wpc' = AfterSend(answered)
    /\ UNCHANGED <<row, todo, optedSnap, cur, keptByRun, stored, handled, queueVars>>

SendRefused ==
    /\ wpc = "send"
    /\ wpc' = "incFailed"
    /\ UNCHANGED <<row, todo, optedSnap, cur, keptByRun, observers, queueVars>>

SaveMessage ==
    /\ wpc = "save"
    /\ stored' = stored + 1
    /\ wpc' = "incSent"
    /\ UNCHANGED <<row, todo, optedSnap, cur, keptByRun, handled, sent, lateHalt,
                   lateOut, queueVars>>

(* One increment ends the iteration; which counter depends on the branch.  *)
Increment(pc, counted) ==
    /\ wpc = pc
    /\ Write(counted)
    /\ wpc' = "check" /\ cur' = NoContact
    /\ UNCHANGED <<todo, optedSnap, keptByRun, logs, queueVars>>

(* Mutants: a success is also counted as a failure; the sign is wrong. *)
IncBoth     == Increment("incSent", [row EXCEPT !.sentCount = @ + 1,
                                                !.failedCount = @ + 1])
IncBackward == Increment("incSent", [row EXCEPT !.sentCount = @ - 1])

IncSent   == Increment("incSent",   [row EXCEPT !.sentCount = @ + 1])
IncFailed == Increment("incFailed", [row EXCEPT !.failedCount = @ + 1])
IncOptOut == Increment("incOptOut", [row EXCEPT !.optOutCount = @ + 1])

(* Mutant: completedAt is written, the status is not. *)
FinalStatusForgotten == row

FinalRow == [row EXCEPT !.status = "completed"]

(* The last statement, reached by the end of the loop and by break alike.  *)
RunComplete ==
    /\ wpc = "complete"
    /\ Write(FinalRow)
    /\ wpc' = "settle"
    /\ UNCHANGED <<todo, optedSnap, cur, keptByRun, logs, queueVars>>

RunSettle ==
    /\ wpc = "settle"
    /\ Finish(active)
    /\ RunEnds
    /\ UNCHANGED <<row, keptByRun, observers>>

(* Mutant: the insert of the message has a catch of its own. *)
CarryOn(pc) == IF pc = "save" THEN "incSent" ELSE "incFailed"

CaughtAt(pc) == "incFailed"

(* A database statement inside try fails: caught, counted as a failure. *)
FaultCaught ==
    /\ faults < MaxFaults
    /\ faults' = faults + 1
    /\ wpc \in {"save", "incSent"}
    /\ wpc' = CaughtAt(wpc)
    /\ UNCHANGED <<row, req, todo, optedSnap, cur, optedOut, crashes, observers,
                   queueVars>>

(* A database statement outside try fails: the run throws. *)
FaultThrown ==
    /\ faults < MaxFaults
    /\ faults' = faults + 1
    /\ \/ wpc \in {"read", "targets", "incOptOut", "incFailed", "complete"}
       \/ wpc = "check" /\ todo # {}
    /\ RunThrows
    /\ UNCHANGED <<row, req, optedOut, crashes, observers>>

JobRecovered(j) == RecoverStalled(j) /\ UNCHANGED <<row, keptByRun, runVars, observers>>

WorkerStep ==
    \/ RunRead \/ RunTargets \/ RunClient
    \/ LoopExhausted \/ LoopBreaks \/ LoopRowGone
    \/ \E c \in Contacts : LoopNext(c)
    \/ \E answered \in BOOLEAN : SendAccepted(answered)
    \/ SendRefused \/ SaveMessage
    \/ IncSent \/ IncFailed \/ IncOptOut
    \/ RunComplete \/ RunSettle

QueueStep ==
    \E j \in Requests : RunStart(j) \/ JobPromoted(j) \/ JobRecovered(j)

-----------------------------------------------------------------------------

(* The process dies with every handler and the run in it, and is restarted *)
(* (docker-compose: restart unless-stopped); PostgreSQL and Redis survive. *)
Crash ==
    /\ crashes < MaxCrashes
    /\ crashes' = crashes + 1
    /\ req' = [r \in Requests |->
                 CASE req[r].pc = "idle" -> req[r]
                   [] req[r].pc \in {"launchAdd", "lost"}
                        -> [Answered EXCEPT !.pc = "lost"]
                   [] OTHER -> Answered]
    /\ LoseWorker
    /\ RunEnds
    /\ UNCHANGED <<row, optedOut, faults, observers>>

Next ==
    \/ Create \/ Pause \/ Cancel
    \/ \E r \in Requests : Handler(r)
    \/ \E c \in Contacts : OptOut(c)
    \/ WorkerStep
    \/ QueueStep
    \/ FaultCaught \/ FaultThrown
    \/ Crash

Spec == Init /\ [][Next]_vars

(* Node's event loop runs every handler and the worker on; Bull promotes   *)
(* due jobs, hands out waiting ones and checks for stalled ones.           *)
Fairness ==
    /\ WF_vars(WorkerStep)
    /\ WF_vars(QueueStep)
    /\ \A r \in Requests : WF_vars(UpdateSave(r) \/ LaunchTargets(r) \/ LaunchUpdate(r)
                                   \/ LaunchAdd(r) \/ RemoveDelete(r))

FairSpec == Spec /\ Fairness
-----------------------------------------------------------------------------
(* What the component promises.                                            *)

(* Once an operator has paused or cancelled the campaign, at most one more *)
(* message leaves while it stays so: the one the run had already decided   *)
(* on when it last read the status, whatever retries, restarts, second     *)
(* launches or handlers are under way.                                     *)
HaltStopsSending == lateHalt <= 1

(* A contact is sent to at most once each time a launch's job is started,  *)
(* so that the duplicates retries and crashes cause are at most one each.  *)
OncePerStart == \A r \in Requests, c \in Contacts : sent[r][c] <= jobs[r].starts

(* With the queue's options this bounds the messages a contact receives    *)
(* because of one launch request.                                          *)
SendsPerLaunchBounded ==
    \A r \in Requests, c \in Contacts : sent[r][c] <= Attempts + MaxStalled

(* The snapshot a run iterates over may be older than an opt-out, but a    *)
(* contact that opted out gets at most one message more, however often     *)
(* the campaign is retried or launched afterwards.                         *)
OptOutStopsSending == \A c \in Contacts : lateOut[c] <= 1

(* sentCount never claims a message that has no row in table messages, not *)
(* even after an update saved back the counters it had loaded earlier.     *)
SentCountBacked == Exists => row.sentCount <= stored

(* No contact is counted twice by one pass of the loop: not as sent and    *)
(* failed when a statement of the try block fails after another succeeded. *)
CountedOnce ==
    Exists => row.sentCount + row.failedCount + row.optOutCount <= handled

(* A row that says running has somebody to end it: a launch about to       *)
(* enqueue, or a job that is not settled.  The ways to strand it are a     *)
(* launch cut off before queue.add and a job that ran out of attempts.     *)
RunningIsBacked ==
    row.status = "running" =>
        \E r \in Requests : \/ req[r].pc \in {"launchAdd", "lost"}
                            \/ jobs[r].state \in Live \cup {"failed"}

(* Every job comes to an end, through crashes, stalls and retries.         *)
JobsSettle ==
    \A r \in Requests : jobs[r].state \in Live ~> jobs[r].state \in Settled

(* A running campaign stops running unless its launch was cut off before   *)
(* the job was enqueued or a job exhausted its attempts.                   *)
LaunchConcludes ==
    row.status = "running" ~>
        \/ row.status # "running"
        \/ \E r \in Requests : req[r].pc = "lost" \/ jobs[r].state = "failed"

(* What README.md and the service's error messages say, and the code does  *)
(* not do.  "Pause and resume in-flight campaigns": a paused campaign with *)
(* contacts left is not over.                                              *)
PausedIsNotCompleted ==
    [][row.status = "paused" /\ todo # {} => row'.status # "completed"]_vars

(* "Campaign is already running or completed": one launch, one live job.   *)
LaunchedOnce == Cardinality({r \in Requests : jobs[r].state \in Live}) <= 1

(* "Can only edit draft or scheduled campaigns": no edit of a running one. *)
EditedBeforeLaunch ==
    [][row.status = "running" => row'.status \notin Editable]_vars
=============================================================================
