--------------------------- MODULE CampaignsProofs ---------------------------
(* The safety of a campaign for any contacts, requests, crashes and faults. *)
EXTENDS Campaigns, BullQueueProofs, FiniteSetTheorems

(* The worker is inside runCampaign exactly while the queue says it holds  *)
(* a job, and it sends to a contact.                                       *)
Pairing == /\ wpc = "idle" <=> active = NoJob
           /\ wpc = "send" => cur \in Contacts

TypeInv == TypeOK /\ QueueInv /\ Pairing

(* A pending "send" has not been preceded by another since the halt; and   *)
(* nothing counts as late while the row is not halted.                     *)
HaltInv == /\ HaltStopsSending
           /\ wpc = "send" => lateHalt = 0
           /\ row.status \notin Halted => lateHalt = 0

(* The run of job r may still send to c. *)
MaySend(r, c) == /\ active = r
                 /\ \/ wpc \in {"read", "targets", "client"}
                    \/ wpc = "check" /\ c \in todo
                    \/ wpc \in {"send", "save", "incSent", "incFailed", "incOptOut"}
                       /\ c \in todo
                    \/ wpc = "send" /\ c = cur

SendInv == /\ \A r \in Requests, c \in Contacts :
                sent[r][c] + (IF MaySend(r, c) THEN 1 ELSE 0) <= jobs[r].starts
           /\ wpc = "send" => cur \notin todo

(* The run under way may still send to c although c has opted out. *)
Overtaken(c) == c \in todo \ optedSnap \/ (wpc = "send" /\ c = cur)

OptOutInv ==
    /\ \A c \in Contacts : /\ lateOut[c] <= 1
                           /\ lateOut[c] > 0 => c \in optedOut /\ ~Overtaken(c)
    /\ wpc = "send" => cur \notin todo

Unsaved  == IF wpc = "incSent" THEN 1 ELSE 0
InFlight == IF wpc \in {"send", "save", "incSent", "incFailed", "incOptOut"}
            THEN 1 ELSE 0

Backed(entity) ==
    /\ entity.sentCount + Unsaved <= stored
    /\ entity.sentCount + entity.failedCount + entity.optOutCount + InFlight <= handled

(* What holds of the row holds of every entity a handler may save back.    *)
LedgerInv == Backed(row) /\ \A r \in Requests : Backed(req[r].snap)

(* Who will end the running campaign: not a job past its last write.       *)
Ender(r) == \/ req[r].pc \in {"launchAdd", "lost"}
            \/ jobs[r].state \in {"waiting", "delayed", "failed"}
            \/ jobs[r].state = "active" /\ (active = r => wpc # "settle")

BackedInv == /\ row.status = "running" => \E r \in Requests : Ender(r)
             /\ \A r \in Requests : req[r].snap.status # "running"

-----------------------------------------------------------------------------
(* Each step of the campaign is a step of the queue, or leaves it alone.   *)

LEMMA StepIsQueueStep == TypeInv /\ [Next]_vars => [QueueNext]_queueVars
<1> SUFFICES ASSUME TypeInv, [Next]_vars PROVE [QueueNext]_queueVars
  OBVIOUS
<1> USE CampaignAssumption, QueueAssumption
<1>a. ASSUME RunThrows, wpc # "idle" PROVE QueueNext
  BY <1>a DEF RunThrows, TypeInv, TypeOK, QueueTypeOK, Pairing, QueueNext
<1>1. ASSUME Create \/ Pause \/ Cancel PROVE UNCHANGED queueVars
  BY <1>1 DEF Create, Pause, Cancel
<1>2. ASSUME NEW r \in Requests, Handler(r) PROVE QueueNext \/ UNCHANGED queueVars
  BY <1>2 DEF Handler, UpdateRead, UpdateSave, LaunchRead, LaunchTargets,
      LaunchUpdate, LaunchAdd, LaunchAddFails, RemoveRead, RemoveDelete, QueueNext
<1>3. ASSUME NEW c \in Contacts, OptOut(c) PROVE UNCHANGED queueVars
  BY <1>3 DEF OptOut
<1>4. ASSUME WorkerStep PROVE QueueNext \/ UNCHANGED queueVars
  <2>1. CASE RunRead \/ RunClient \/ LoopRowGone
    BY <1>a, <2>1 DEF RunRead, RunClient, LoopRowGone
  <2>2. CASE RunTargets \/ LoopExhausted \/ LoopBreaks \/ SendRefused \/ SaveMessage
             \/ RunComplete
    BY <2>2 DEF RunTargets, LoopExhausted, LoopBreaks, SendRefused, SaveMessage,
        RunComplete, FinalRow
  <2>3. CASE IncSent \/ IncFailed \/ IncOptOut
    BY <2>3 DEF IncSent, IncFailed, IncOptOut, Increment
  <2>4. ASSUME NEW c \in Contacts, LoopNext(c) PROVE UNCHANGED queueVars
    BY <2>4 DEF LoopNext, Stops
  <2>5. ASSUME NEW answered \in BOOLEAN, SendAccepted(answered)
        PROVE  UNCHANGED queueVars
    BY <2>5 DEF SendAccepted, AfterSend
  <2>6. CASE RunSettle
    BY <2>6 DEF RunSettle, TypeInv, TypeOK, QueueTypeOK, Pairing, QueueNext
  <2>7. QED
    BY <1>4, <2>1, <2>2, <2>3, <2>4, <2>5, <2>6 DEF WorkerStep
<1>5. ASSUME QueueStep PROVE QueueNext
  BY <1>5 DEF QueueStep, RunStart, JobPromoted, JobRecovered, QueueNext
<1>6. ASSUME FaultCaught PROVE UNCHANGED queueVars
  BY <1>6 DEF FaultCaught, CaughtAt
<1>7. ASSUME FaultThrown PROVE QueueNext
  BY <1>7, <1>a DEF FaultThrown
<1>8. ASSUME Crash PROVE QueueNext
  BY <1>8 DEF Crash, QueueNext
<1>9. CASE UNCHANGED vars
  BY <1>9 DEF vars, queueVars
<1>10. QED
  BY <1>1, <1>2, <1>3, <1>4, <1>5, <1>6, <1>7, <1>8, <1>9 DEF Next

-----------------------------------------------------------------------------
(* Types.                                                                  *)

LEMMA CampaignTypeInit == Init => TypeInv
<1> SUFFICES ASSUME Init PROVE TypeInv
  OBVIOUS
<1>1. QueueInv
  BY QueueInvInit DEF Init
<1>2. QED
  BY <1>1, CampaignAssumption
  DEF Init, TypeInv, TypeOK, QueueInv, Pairing, QueueInit, RowRecord, NewRow, Absent,
      ReqRecord, ReqPc, NewRequest, WorkerPc, Status

LEMMA WriteType ==
  ASSUME row \in RowRecord, lateHalt \in Nat,
         NEW entity \in RowRecord, Write(entity) \/ Save(entity)
  PROVE  row' \in RowRecord /\ lateHalt' \in Nat
  BY DEF Write, Save

LEMMA RowEdits ==
  ASSUME row \in RowRecord
  PROVE  /\ \A s \in Status \cup Absent : [row EXCEPT !.status = s] \in RowRecord
         /\ \A n \in Nat : [row EXCEPT !.status = "running", !.totalContacts = n]
                             \in RowRecord
         /\ [row EXCEPT !.sentCount = @ + 1] \in RowRecord
         /\ [row EXCEPT !.failedCount = @ + 1] \in RowRecord
         /\ [row EXCEPT !.optOutCount = @ + 1] \in RowRecord
         /\ \A s \in Status \cup Absent : [NewRow EXCEPT !.status = s] \in RowRecord
<1>1. \A s \in Status \cup Absent : [row EXCEPT !.status = s] \in RowRecord
  BY DEF RowRecord
<1>2. \A n \in Nat : [row EXCEPT !.status = "running", !.totalContacts = n] \in RowRecord
  BY DEF RowRecord, Status
<1>3. [row EXCEPT !.sentCount = @ + 1] \in RowRecord
  BY DEF RowRecord
<1>4. [row EXCEPT !.failedCount = @ + 1] \in RowRecord
  BY DEF RowRecord
<1>5. [row EXCEPT !.optOutCount = @ + 1] \in RowRecord
  BY DEF RowRecord
<1>6. \A s \in Status \cup Absent : [NewRow EXCEPT !.status = s] \in RowRecord
  BY DEF RowRecord, NewRow
<1>7. QED
  BY <1>1, <1>2, <1>3, <1>4, <1>5, <1>6

LEMMA AnsweredType == Answered \in ReqRecord /\ [Answered EXCEPT !.pc = "lost"] \in ReqRecord
  BY DEF Answered, NewRequest, ReqRecord, ReqPc, NewRow, RowRecord, Absent

LEMMA RequestEdits ==
  ASSUME req \in [Requests -> ReqRecord], NEW r \in Requests
  PROVE  /\ Answer(r) => req' \in [Requests -> ReqRecord]
         /\ \A pc \in ReqPc : Goto(r, pc) => req' \in [Requests -> ReqRecord]
<1>1. Answer(r) => req' \in [Requests -> ReqRecord]
  BY AnsweredType DEF Answer
<1>2. ASSUME NEW pc \in ReqPc, Goto(r, pc) PROVE req' \in [Requests -> ReqRecord]
  <2>1. [req[r] EXCEPT !.pc = pc] \in ReqRecord
    BY DEF ReqRecord
  <2>2. QED
    BY <1>2, <2>1 DEF Goto
<1>3. QED
  BY <1>1, <1>2

LEMMA MatchedIsNat == \A m \in SUBSET Contacts : Cardinality(m) \in Nat
  BY CampaignAssumption, FS_Subset, FS_CardinalityType

LEMMA CampaignTypeStep == TypeInv /\ [Next]_vars => TypeInv'
<1> SUFFICES ASSUME TypeInv, [Next]_vars PROVE TypeInv'
  OBVIOUS
<1>q. QueueInv'
  BY StepIsQueueStep, QueueInvStep DEF TypeInv
<1>t. TypeOK /\ Pairing /\ QueueTypeOK /\ QueueTypeOK'
  BY <1>q DEF TypeInv, QueueInv
<1> DEFINE RowType == row' \in RowRecord /\ lateHalt' \in Nat
           ReqType == req' \in [Requests -> ReqRecord]
           RunType == /\ wpc' \in WorkerPc
                      /\ todo' \in SUBSET Contacts
                      /\ optedSnap' \in SUBSET Contacts
                      /\ cur' \in Contacts \cup {NoContact}
           LogType == /\ stored' \in Nat /\ handled' \in Nat
                      /\ sent' \in [Requests -> [Contacts -> Nat]]
                      /\ lateOut' \in [Contacts -> Nat]
           Rest    == /\ optedOut' \in SUBSET Contacts
                      /\ crashes' \in 0..MaxCrashes /\ faults' \in 0..MaxFaults
           Goal    == RowType /\ ReqType /\ RunType /\ LogType /\ Rest /\ Pairing'
<1> USE CampaignAssumption, QueueAssumption
<1>1. ASSUME Create \/ Pause \/ Cancel PROVE Goal
  <2>1. RowType
    BY <1>1, <1>t, RowEdits, WriteType DEF Create, Pause, Cancel, TypeOK, Status
  <2>2. QED
    BY <1>1, <2>1, <1>t DEF Create, Pause, Cancel, TypeOK, Pairing, keptByHandlers,
        runVars, boundVars, queueVars
<1>2. ASSUME NEW r \in Requests, Handler(r) PROVE Goal
  <2> USE <1>t DEF TypeOK
  <2>1. CASE UpdateRead(r) \/ LaunchRead(r) \/ LaunchTargets(r) \/ RemoveRead(r)
    <3>1. ReqType
      <4>1. CASE LaunchRead(r) \/ RemoveRead(r)
        BY <4>1, RequestEdits DEF LaunchRead, RemoveRead, ReqPc
      <4>2. CASE UpdateRead(r)
        BY <4>2 DEF UpdateRead, MayEdit, ReqRecord, ReqPc
      <4>3. CASE LaunchTargets(r)
        BY <4>3, RequestEdits, MatchedIsNat DEF LaunchTargets, ReqRecord, ReqPc
      <4>4. QED
        BY <2>1, <4>1, <4>2, <4>3
    <3>2. QED
      BY <2>1, <3>1 DEF UpdateRead, LaunchRead, LaunchTargets, RemoveRead, Pairing,
         keptByHandlers, runVars, boundVars, queueVars
  <2>2. CASE UpdateSave(r) \/ LaunchUpdate(r) \/ RemoveDelete(r)
    <3>1. req[r].snap \in RowRecord /\ req[r].matched \in Nat
      BY DEF ReqRecord
    <3>2. ReqType
      BY <2>2, RequestEdits DEF UpdateSave, LaunchUpdate, RemoveDelete, ReqPc
    <3>3. RowType
      BY <2>2, <3>1, RowEdits, WriteType
      DEF UpdateSave, LaunchUpdate, RemoveDelete, Absent
    <3>4. QED
      BY <2>2, <3>2, <3>3 DEF UpdateSave, LaunchUpdate, RemoveDelete, Pairing,
         keptByHandlers, runVars, boundVars, queueVars
  <2>3. CASE LaunchAdd(r)
    BY <2>3, RequestEdits DEF LaunchAdd, Add, Pairing, keptByHandlers, runVars, boundVars
  <2>4. CASE LaunchAddFails(r)
    <3>1. ReqType
      BY <2>4, AnsweredType DEF LaunchAddFails
    <3>2. QED
      BY <2>4, <3>1 DEF LaunchAddFails, Pairing, runVars, observers, queueVars
  <2>5. QED
    BY <1>2, <2>1, <2>2, <2>3, <2>4 DEF Handler
<1>3. ASSUME NEW c \in Contacts, OptOut(c) PROVE Goal
  BY <1>3, <1>t DEF OptOut, TypeOK, Pairing, runVars, boundVars, observers, queueVars
<1>4. ASSUME WorkerStep PROVE Goal
  <2> USE <1>t DEF TypeOK, Pairing, WorkerPc, keptByRun, boundVars
  <2>1. CASE RunRead \/ RunClient \/ LoopRowGone
    BY <2>1 DEF RunRead, RunClient, LoopRowGone, RunThrows, RunEnds, Reject, observers,
        queueVars
  <2>2. CASE RunTargets
    BY <2>2 DEF RunTargets, OptedOutAmong, observers, queueVars
  <2>3. CASE LoopExhausted \/ LoopBreaks \/ SendRefused
    BY <2>3 DEF LoopExhausted, LoopBreaks, SendRefused, observers, queueVars
  <2>4. ASSUME NEW c \in Contacts, LoopNext(c) PROVE Goal
    BY <2>4 DEF LoopNext, Stops, queueVars
  <2>5. ASSUME NEW answered \in BOOLEAN, SendAccepted(answered) PROVE Goal
    BY <2>5 DEF SendAccepted, AfterSend, queueVars, QueueTypeOK
  <2>6. CASE SaveMessage
    BY <2>6 DEF SaveMessage, queueVars
  <2>7. ASSUME IncSent \/ IncFailed \/ IncOptOut PROVE Goal
    <3>1. RowType
      BY <2>7, RowEdits, WriteType DEF IncSent, IncFailed, IncOptOut, Increment
    <3>2. QED
      BY <2>7, <3>1 DEF IncSent, IncFailed, IncOptOut, Increment, logs, queueVars
  <2>8. CASE RunComplete
    <3>1. RowType
      BY <2>8, RowEdits, WriteType DEF RunComplete, FinalRow, Status
    <3>2. QED
      BY <2>8, <3>1 DEF RunComplete, FinalRow, logs, queueVars
  <2>9. CASE RunSettle
    BY <2>9 DEF RunSettle, RunEnds, Finish, observers
  <2>10. QED
    BY <1>4, <2>1, <2>2, <2>3, <2>4, <2>5, <2>6, <2>7, <2>8, <2>9 DEF WorkerStep
<1>5. ASSUME QueueStep PROVE Goal
  <2> USE <1>t DEF TypeOK, Pairing, keptByRun, boundVars, observers
  <2>1. ASSUME NEW j \in Requests, RunStart(j) PROVE Goal
    BY <2>1 DEF RunStart, Take, WorkerPc
  <2>2. ASSUME NEW j \in Requests, JobPromoted(j) \/ JobRecovered(j) PROVE Goal
    BY <2>2 DEF JobPromoted, JobRecovered, Promote, RecoverStalled, runVars
  <2>3. QED
    BY <1>5, <2>1, <2>2 DEF QueueStep
<1>6. ASSUME FaultCaught PROVE Goal
  BY <1>6, <1>t DEF FaultCaught, CaughtAt, TypeOK, Pairing, WorkerPc, observers, queueVars
<1>7. ASSUME FaultThrown PROVE Goal
  BY <1>7, <1>t DEF FaultThrown, RunThrows, RunEnds, Reject, TypeOK, Pairing, WorkerPc,
      observers
<1>8. ASSUME Crash PROVE Goal
  <2>1. ReqType
    BY <1>8, <1>t, AnsweredType DEF Crash, TypeOK
  <2>2. RunType /\ Pairing'
    BY <1>8, <1>t DEF Crash, RunEnds, LoseWorker, Pairing, WorkerPc
  <2>3. RowType /\ LogType /\ Rest
    BY <1>8, <1>t DEF Crash, TypeOK, observers
  <2>4. QED
    BY <2>1, <2>2, <2>3
<1>9. ASSUME UNCHANGED vars PROVE Goal
  <2>1. UNCHANGED <<row, req, lateHalt, stored, handled, sent, lateOut>>
    BY <1>9 DEF vars, observers
  <2>2. UNCHANGED <<wpc, todo, optedSnap, cur, optedOut, crashes, faults, active>>
    BY <1>9 DEF vars, runVars, boundVars, queueVars
  <2>3. QED
    BY <2>1, <2>2, <1>t DEF TypeOK, Pairing
<1> HIDE DEF Goal
<1>10. Goal
  BY <1>1, <1>2, <1>3, <1>4, <1>5, <1>6, <1>7, <1>8, <1>9 DEF Next
<1>11. QED
  BY <1>q, <1>t, <1>10 DEF Goal, TypeInv, TypeOK

(* Every variable keeps its type, and the queue its books. *)
THEOREM CampaignTypes == Spec => []TypeInv
  BY CampaignTypeInit, CampaignTypeStep, PTL DEF Spec

THEOREM CampaignTypeOK == Spec => []TypeOK
<1>1. TypeInv => TypeOK
  BY DEF TypeInv
<1>2. QED
  BY CampaignTypes, <1>1, PTL

(* The campaign uses its queue as the queue allows. *)
THEOREM CampaignImplementsQueue == Spec => QueueSpec
<1>1. Init => QueueInit
  BY DEF Init
<1>2. QED
  BY <1>1, StepIsQueueStep, CampaignTypes, PTL DEF Spec, QueueSpec

-----------------------------------------------------------------------------
(* At most one message after a halt.                                       *)

LEMMA WriteHalt ==
  ASSUME row.status \notin Halted => lateHalt = 0,
         NEW entity, Write(entity) \/ Save(entity)
  PROVE  /\ lateHalt' = lateHalt \/ lateHalt' = 0
         /\ row'.status \notin Halted => lateHalt' = 0
  BY DEF Write, Save

LEMMA HaltStep == TypeInv /\ HaltInv /\ [Next]_vars => HaltInv'
<1> SUFFICES ASSUME TypeInv, HaltInv, [Next]_vars PROVE HaltInv'
  OBVIOUS
<1>t. lateHalt \in Nat /\ wpc \in WorkerPc /\ Pairing
  BY DEF TypeInv, TypeOK
<1> DEFINE Same == UNCHANGED <<row, lateHalt>> /\ (wpc' = wpc \/ wpc' # "send")
           Wrote == /\ lateHalt' = lateHalt \/ lateHalt' = 0
                    /\ row'.status \notin Halted => lateHalt' = 0
                    /\ wpc' = wpc \/ wpc' # "send"
<1>s. Same => HaltInv'
  BY DEF HaltInv, HaltStopsSending
<1>w. Wrote => HaltInv'
  BY <1>t DEF HaltInv, HaltStopsSending
<1> USE DEF keptByHandlers, keptByRun, runVars, observers
<1>1. ASSUME Create \/ Pause \/ Cancel PROVE HaltInv'
  BY <1>1, <1>w, WriteHalt DEF Create, Pause, Cancel, HaltInv
<1>2. ASSUME NEW r \in Requests, Handler(r) PROVE HaltInv'
  <2>1. CASE UpdateSave(r) \/ LaunchUpdate(r) \/ RemoveDelete(r)
    BY <2>1, <1>w, WriteHalt DEF UpdateSave, LaunchUpdate, RemoveDelete, HaltInv
  <2>2. CASE UpdateRead(r) \/ LaunchRead(r) \/ LaunchTargets(r) \/ LaunchAdd(r)
             \/ LaunchAddFails(r) \/ RemoveRead(r)
    BY <2>2, <1>s DEF UpdateRead, LaunchRead, LaunchTargets, LaunchAdd,
       LaunchAddFails, RemoveRead
  <2>3. QED
    BY <1>2, <2>1, <2>2 DEF Handler
<1>3. ASSUME NEW c \in Contacts, OptOut(c) PROVE HaltInv'
  BY <1>3, <1>s DEF OptOut
<1>4. ASSUME WorkerStep PROVE HaltInv'
  <2>1. CASE RunRead \/ RunTargets \/ RunClient \/ LoopExhausted \/ LoopBreaks
             \/ LoopRowGone \/ SendRefused \/ RunSettle
    BY <2>1, <1>s DEF RunRead, RunTargets, RunClient, LoopExhausted, LoopBreaks,
       LoopRowGone, SendRefused, RunSettle, RunThrows, RunEnds
  <2>2. ASSUME NEW c \in Contacts, LoopNext(c) PROVE HaltInv'
    BY <2>2 DEF LoopNext, Stops, HaltInv, HaltStopsSending
  <2>3. ASSUME NEW answered \in BOOLEAN, SendAccepted(answered) PROVE HaltInv'
    BY <2>3 DEF SendAccepted, AfterSend, HaltInv, HaltStopsSending
  <2>4. CASE SaveMessage
    BY <2>4, <1>s DEF SaveMessage
  <2>5. CASE IncSent \/ IncFailed \/ IncOptOut \/ RunComplete
    BY <2>5, <1>w, WriteHalt DEF IncSent, IncFailed, IncOptOut, Increment,
       RunComplete, FinalRow, HaltInv
  <2>6. QED
    BY <1>4, <2>1, <2>2, <2>3, <2>4, <2>5 DEF WorkerStep
<1>5. ASSUME QueueStep PROVE HaltInv'
  BY <1>5, <1>s DEF QueueStep, RunStart, JobPromoted, JobRecovered
<1>6. ASSUME FaultCaught \/ FaultThrown \/ Crash PROVE HaltInv'
  BY <1>6, <1>s DEF FaultCaught, CaughtAt, FaultThrown, Crash, RunThrows, RunEnds
<1>7. CASE UNCHANGED vars
  BY <1>7, <1>s DEF vars
<1>8. QED
  BY <1>1, <1>2, <1>3, <1>4, <1>5, <1>6, <1>7 DEF Next

(* After a pause or a cancellation at most one more message is sent.       *)
THEOREM HaltStops == Spec => []HaltStopsSending
<1>1. Init => HaltInv
  BY DEF Init, HaltInv, HaltStopsSending
<1>2. HaltInv => HaltStopsSending
  BY DEF HaltInv
<1>3. QED
  BY <1>1, <1>2, HaltStep, CampaignTypes, PTL DEF Spec

-----------------------------------------------------------------------------
(* At most one message per contact and start of a job.                     *)

LEMMA SendStep == TypeInv /\ SendInv /\ [Next]_vars => SendInv'
<1> SUFFICES ASSUME TypeInv, SendInv, [Next]_vars PROVE SendInv'
  OBVIOUS
<1> USE CampaignAssumption, QueueAssumption
<1>t. /\ sent \in [Requests -> [Contacts -> Nat]] /\ active \in Requests \cup {NoJob}
      /\ jobs \in [Requests -> JobRecord] /\ wpc \in WorkerPc /\ Pairing
  BY DEF TypeInv, TypeOK, QueueTypeOK
<1> DEFINE StartsKept == \A r \in Requests : jobs'[r].starts = jobs[r].starts
           Idles == /\ active' = NoJob /\ wpc' = "idle"
                    /\ StartsKept /\ UNCHANGED sent
           Waits == /\ UNCHANGED <<active, wpc, todo, cur, sent>>
                    /\ StartsKept
           Moves == /\ UNCHANGED <<active, jobs, sent>>
                    /\ \A r \in Requests, c \in Contacts :
                         MaySend(r, c)' => MaySend(r, c)
                    /\ wpc' = "send" => cur' \notin todo'
<1>i. Idles => SendInv'
  BY <1>t DEF SendInv, MaySend, JobRecord
<1>w. Waits => SendInv'
  BY <1>t DEF SendInv, MaySend
<1>m. Moves => SendInv'
  BY <1>t DEF SendInv, JobRecord
<1>r. ASSUME RunThrows, UNCHANGED sent PROVE SendInv'
  BY <1>r, <1>i, <1>t DEF RunThrows, RunEnds, Reject, JobRecord
<1> USE DEF keptByHandlers, keptByRun, runVars, observers, queueVars
<1>1. ASSUME Create \/ Pause \/ Cancel PROVE SendInv'
  BY <1>1, <1>w DEF Create, Pause, Cancel
<1>2. ASSUME NEW r \in Requests, Handler(r) PROVE SendInv'
  <2>1. CASE LaunchAdd(r)
    BY <2>1, <1>w, <1>t DEF LaunchAdd, Add, JobRecord
  <2>2. CASE ~LaunchAdd(r)
    BY <1>2, <2>2, <1>w DEF Handler, UpdateRead, UpdateSave, LaunchRead, LaunchTargets,
       LaunchUpdate, LaunchAddFails, RemoveRead, RemoveDelete
  <2>3. QED
    BY <2>1, <2>2
<1>3. ASSUME NEW c \in Contacts, OptOut(c) PROVE SendInv'
  BY <1>3, <1>w DEF OptOut
<1>4. ASSUME WorkerStep PROVE SendInv'
  <2>1. CASE RunRead \/ RunClient \/ LoopRowGone
    BY <2>1, <1>r, <1>m DEF RunRead, RunClient, LoopRowGone, MaySend
  <2>2. CASE RunTargets \/ LoopExhausted \/ LoopBreaks \/ SendRefused \/ SaveMessage
             \/ RunComplete
    BY <2>2, <1>m DEF RunTargets, LoopExhausted, LoopBreaks, SendRefused, SaveMessage,
       RunComplete, FinalRow, logs, MaySend
  <2>3. ASSUME NEW c \in Contacts, LoopNext(c) PROVE SendInv'
    BY <2>3, <1>m DEF LoopNext, Stops, MaySend
  <2>4. ASSUME NEW answered \in BOOLEAN, SendAccepted(answered) PROVE SendInv'
    <3>1. active \in Requests /\ cur \in Contacts /\ cur \notin todo /\ wpc = "send"
      BY <2>4, <1>t DEF SendAccepted, AfterSend, SendInv, Pairing
    <3>2. MaySend(active, cur) /\ ~MaySend(active, cur)'
      BY <2>4, <3>1 DEF MaySend, SendAccepted, AfterSend
    <3>3. ASSUME NEW r \in Requests, NEW c \in Contacts
          PROVE (sent[r][c] + (IF MaySend(r, c) THEN 1 ELSE 0) <= jobs[r].starts)'
      <4>1. CASE r = active /\ c = cur
        BY <4>1, <3>1, <3>2, <2>4, <1>t DEF SendAccepted, AfterSend, SendInv, JobRecord
      <4>2. CASE ~(r = active /\ c = cur)
        <5>1. sent'[r][c] = sent[r][c] /\ jobs'[r] = jobs[r]
          BY <4>2, <3>1, <2>4, <1>t DEF SendAccepted, AfterSend
        <5>2. MaySend(r, c)' => MaySend(r, c)
          BY <2>4 DEF SendAccepted, AfterSend, MaySend
        <5>3. QED
          BY <5>1, <5>2, <1>t DEF SendInv, JobRecord
      <4>3. QED
        BY <4>1, <4>2
    <3>4. QED
      BY <3>3, <2>4 DEF SendInv, SendAccepted, AfterSend
  <2>5. CASE IncSent \/ IncFailed \/ IncOptOut
    BY <2>5, <1>m DEF IncSent, IncFailed, IncOptOut, Increment, logs, MaySend
  <2>6. CASE RunSettle
    BY <2>6, <1>i, <1>t DEF RunSettle, RunEnds, Finish, JobRecord
  <2>7. QED
    BY <1>4, <2>1, <2>2, <2>3, <2>4, <2>5, <2>6 DEF WorkerStep
<1>5. ASSUME QueueStep PROVE SendInv'
  <2>1. ASSUME NEW j \in Requests, RunStart(j) PROVE SendInv'
    <3>1. \A r \in Requests, c \in Contacts : ~MaySend(r, c)
      BY <2>1 DEF RunStart, MaySend
    <3>2. \A r \in Requests : jobs'[r].starts = IF r = j THEN jobs[r].starts + 1
                                                         ELSE jobs[r].starts
      BY <2>1, <1>t DEF RunStart, Take, JobRecord
    <3>3. \A r \in Requests, c \in Contacts : MaySend(r, c)' => r = j
      BY <2>1 DEF RunStart, Take, MaySend
    <3>4. QED
      BY <2>1, <3>1, <3>2, <3>3, <1>t DEF RunStart, SendInv, JobRecord
  <2>2. ASSUME NEW j \in Requests, JobPromoted(j) \/ JobRecovered(j) PROVE SendInv'
    BY <2>2, <1>w, <1>t DEF JobPromoted, JobRecovered, Promote, RecoverStalled, JobRecord
  <2>3. QED
    BY <1>5, <2>1, <2>2 DEF QueueStep
<1>6. ASSUME FaultCaught PROVE SendInv'
  BY <1>6, <1>m DEF FaultCaught, CaughtAt, MaySend
<1>7. ASSUME FaultThrown \/ Crash PROVE SendInv'
  BY <1>7, <1>r, <1>i DEF FaultThrown, Crash, LoseWorker, RunEnds
<1>8. CASE UNCHANGED vars
  BY <1>8, <1>w DEF vars
<1>9. QED
  BY <1>1, <1>2, <1>3, <1>4, <1>5, <1>6, <1>7, <1>8 DEF Next

LEMMA SendInvInit == Init => SendInv
  BY CampaignAssumption, QueueAssumption
  DEF Init, QueueInit, AbsentJob, SendInv, MaySend

(* Each start of a launch's job sends to a contact at most once.           *)
THEOREM SentOncePerStart == Spec => []OncePerStart
<1>1. TypeInv /\ SendInv => OncePerStart
  BY CampaignAssumption DEF TypeInv, TypeOK, QueueTypeOK, JobRecord, SendInv, OncePerStart
<1>2. QED
  BY <1>1, SendInvInit, SendStep, CampaignTypes, PTL DEF Spec

(* So one launch sends a contact at most Attempts + MaxStalled messages.   *)
THEOREM SendsBounded == Spec => []SendsPerLaunchBounded
<1>1. TypeInv /\ OncePerStart => SendsPerLaunchBounded
  BY AccountsBoundStarts, CampaignAssumption, QueueAssumption
  DEF TypeInv, TypeOK, QueueTypeOK, JobRecord, OncePerStart, StartsBounded,
      SendsPerLaunchBounded
<1>2. QED
  BY <1>1, SentOncePerStart, CampaignTypes, PTL

-----------------------------------------------------------------------------
(* At most one message to a contact after its opt-out.                     *)

LEMMA OptOutStep == TypeInv /\ OptOutInv /\ [Next]_vars => OptOutInv'
<1> SUFFICES ASSUME TypeInv, OptOutInv, [Next]_vars PROVE OptOutInv'
  OBVIOUS
<1>t. lateOut \in [Contacts -> Nat] /\ optedOut \in SUBSET Contacts /\ Pairing
  BY DEF TypeInv, TypeOK
<1> DEFINE Narrows == /\ lateOut' = lateOut /\ optedOut \subseteq optedOut'
                      /\ \A c \in optedOut : Overtaken(c)' => Overtaken(c)
                      /\ wpc' = "send" => cur' \notin todo'
<1>n. Narrows => OptOutInv'
  BY <1>t DEF OptOutInv
<1>r. ASSUME RunEnds, UNCHANGED <<lateOut, optedOut>> PROVE OptOutInv'
  BY <1>r, <1>n DEF RunEnds, Overtaken
<1>k. ASSUME UNCHANGED <<lateOut, optedOut, todo, optedSnap, cur>>,
             wpc' = wpc \/ wpc' # "send"
      PROVE  OptOutInv'
  BY <1>k, <1>n DEF Overtaken, OptOutInv
<1> USE DEF keptByHandlers, keptByRun, runVars, observers, logs
<1>1. ASSUME Create \/ Pause \/ Cancel PROVE OptOutInv'
  BY <1>1, <1>k DEF Create, Pause, Cancel
<1>2. ASSUME NEW r \in Requests, Handler(r) PROVE OptOutInv'
  BY <1>2, <1>k DEF Handler, UpdateRead, MayEdit, UpdateSave, LaunchRead, LaunchTargets,
     LaunchUpdate, LaunchAdd, LaunchAddFails, RemoveRead, RemoveDelete
<1>3. ASSUME NEW c \in Contacts, OptOut(c) PROVE OptOutInv'
  BY <1>3, <1>t DEF OptOut, OptOutInv, Overtaken
<1>4. ASSUME WorkerStep PROVE OptOutInv'
  <2>1. CASE RunRead \/ RunClient \/ LoopRowGone \/ RunSettle
    BY <2>1, <1>r, <1>k DEF RunRead, RunClient, LoopRowGone, RunSettle, RunThrows
  <2>2. CASE RunTargets
    BY <2>2, <1>n DEF RunTargets, OptedOutAmong, Overtaken
  <2>3. CASE LoopExhausted \/ LoopBreaks \/ SendRefused \/ SaveMessage \/ RunComplete
    BY <2>3, <1>k DEF LoopExhausted, LoopBreaks, SendRefused, SaveMessage, RunComplete, FinalRow
  <2>4. ASSUME NEW c \in Contacts, LoopNext(c) PROVE OptOutInv'
    BY <2>4, <1>n DEF LoopNext, Stops, Overtaken
  <2>5. ASSUME NEW answered \in BOOLEAN, SendAccepted(answered) PROVE OptOutInv'
    BY <2>5, <1>t DEF SendAccepted, AfterSend, OptOutInv, Overtaken, Pairing
  <2>6. CASE IncSent \/ IncFailed \/ IncOptOut
    BY <2>6, <1>n DEF IncSent, IncFailed, IncOptOut, Increment, Overtaken
  <2>7. QED
    BY <1>4, <2>1, <2>2, <2>3, <2>4, <2>5, <2>6 DEF WorkerStep
<1>5. ASSUME QueueStep PROVE OptOutInv'
  BY <1>5, <1>k DEF QueueStep, RunStart, JobPromoted, JobRecovered
<1>6. ASSUME FaultCaught PROVE OptOutInv'
  BY <1>6, <1>k DEF FaultCaught, CaughtAt
<1>7. ASSUME FaultThrown \/ Crash PROVE OptOutInv'
  BY <1>7, <1>r DEF FaultThrown, Crash, RunThrows
<1>8. CASE UNCHANGED vars
  BY <1>8, <1>k DEF vars
<1>9. QED
  BY <1>1, <1>2, <1>3, <1>4, <1>5, <1>6, <1>7, <1>8 DEF Next

(* A contact that opted out receives at most one more message.             *)
THEOREM OptOutStops == Spec => []OptOutStopsSending
<1>1. Init => OptOutInv
  BY DEF Init, OptOutInv, Overtaken
<1>2. OptOutInv => OptOutStopsSending
  BY DEF OptOutInv, OptOutStopsSending
<1>3. QED
  BY <1>1, <1>2, OptOutStep, CampaignTypes, PTL DEF Spec

-----------------------------------------------------------------------------
(* The counters of the row against what was sent and stored.               *)

LEMMA NewRowType == NewRow \in RowRecord
  BY DEF NewRow, RowRecord, Absent

LEMMA BackedTypes ==
  TypeOK => /\ row \in RowRecord /\ stored \in Nat /\ handled \in Nat
            /\ \A r \in Requests : req[r].snap \in RowRecord
  BY DEF TypeOK, ReqRecord

LEMMA LedgerStep == TypeInv /\ LedgerInv /\ [Next]_vars => LedgerInv'
<1> SUFFICES ASSUME TypeInv, LedgerInv, [Next]_vars PROVE LedgerInv'
  OBVIOUS
<1>t. /\ row \in RowRecord /\ stored \in Nat /\ handled \in Nat
      /\ req \in [Requests -> ReqRecord]
      /\ \A r \in Requests : req[r].snap \in RowRecord
  BY BackedTypes DEF TypeInv, TypeOK
<1> DEFINE Books(entity) == /\ entity.sentCount + Unsaved' <= stored'
                            /\ entity.sentCount + entity.failedCount
                               + entity.optOutCount + InFlight' <= handled'
           BooksKept == /\ UNCHANGED <<stored, handled>>
                        /\ Unsaved' <= Unsaved /\ InFlight' <= InFlight
           Known == {row, NewRow} \cup {req[r].snap : r \in Requests}
<1>u. Unsaved \in 0..1 /\ InFlight \in 0..1 /\ Unsaved' \in 0..1 /\ InFlight' \in 0..1
  BY DEF Unsaved, InFlight
<1>b. ASSUME NEW entity \in Known, BooksKept PROVE Books(entity)
  <2>1. entity \in RowRecord
    BY <1>t, NewRowType
  <2>2. Backed(entity)
    BY <1>t, <1>u DEF LedgerInv, Backed, NewRow, RowRecord
  <2>3. QED
    BY <1>b, <2>1, <2>2, <1>t, <1>u DEF Backed, RowRecord
<1>k. ASSUME BooksKept,
             \E e \in Known : /\ row'.sentCount = e.sentCount
                              /\ row'.failedCount = e.failedCount
                              /\ row'.optOutCount = e.optOutCount,
             \A r \in Requests : req'[r].snap \in Known
      PROVE  LedgerInv'
  BY <1>k, <1>b DEF LedgerInv, Backed
<1>j. ASSUME UNCHANGED <<row, req, stored, handled>>,
             Unsaved' <= Unsaved, InFlight' <= InFlight
      PROVE  LedgerInv'
  BY <1>j, <1>k
<1>h. ASSUME UNCHANGED <<wpc, stored, handled>> PROVE BooksKept
  BY <1>h, <1>u DEF Unsaved, InFlight
<1>e. ASSUME wpc' = "idle", UNCHANGED <<row, req, stored, handled>> PROVE LedgerInv'
  BY <1>e, <1>j, <1>u DEF Unsaved, InFlight
<1> USE DEF keptByHandlers, keptByRun, runVars, observers, logs
<1>1. ASSUME Create \/ Pause \/ Cancel PROVE LedgerInv'
  <2>1. BooksKept /\ UNCHANGED req
    BY <1>1, <1>h DEF Create, Pause, Cancel
  <2>2. \/ row' = [NewRow EXCEPT !.status = "draft"]
        \/ row' \in {row, [row EXCEPT !.status = "paused"], [row EXCEPT !.status = "cancelled"]}
    BY <1>1 DEF Create, Pause, Cancel, Save, Write
  <2>3. QED
    BY <2>1, <2>2, <1>k, <1>t DEF NewRow, RowRecord
<1>2. ASSUME NEW r \in Requests, Handler(r) PROVE LedgerInv'
  <2>1. BooksKept
    BY <1>2, <1>h DEF Handler, UpdateRead, UpdateSave, LaunchRead, LaunchTargets,
       LaunchUpdate, LaunchAdd, LaunchAddFails, RemoveRead, RemoveDelete
  <2>2. \A q \in Requests : req'[q].snap \in Known
    <3>1. /\ Answered.snap = NewRow
          /\ [Answered EXCEPT !.pc = "lost"].snap = NewRow
      BY DEF Answered, NewRequest
    <3>2. CASE UpdateRead(r)
      BY <3>2, <1>t DEF UpdateRead, MayEdit
    <3>3. CASE UpdateSave(r) \/ LaunchAdd(r) \/ LaunchAddFails(r) \/ RemoveDelete(r)
      BY <3>1, <3>3, <1>t DEF UpdateSave, LaunchAdd, LaunchAddFails, RemoveDelete, Answer
    <3>4. CASE LaunchRead(r) \/ LaunchUpdate(r) \/ RemoveRead(r)
      BY <3>4, <1>t DEF LaunchRead, LaunchUpdate, RemoveRead, Goto, ReqRecord
    <3>5. CASE LaunchTargets(r)
      BY <3>1, <3>5, <1>t DEF LaunchTargets, Answer, ReqRecord
    <3>6. QED
      BY <1>2, <3>2, <3>3, <3>4, <3>5 DEF Handler
  <2>3. CASE UpdateSave(r)
    BY <2>1, <2>2, <2>3, <1>k DEF UpdateSave, Save
  <2>4. CASE LaunchUpdate(r)
    BY <2>1, <2>2, <2>4, <1>k, <1>t DEF LaunchUpdate, Write, RowRecord
  <2>5. CASE RemoveDelete(r)
    BY <2>1, <2>2, <2>5, <1>k DEF RemoveDelete, Write, NewRow
  <2>6. CASE UNCHANGED row
    BY <2>1, <2>2, <2>6, <1>k
  <2>7. QED
    BY <1>2, <2>3, <2>4, <2>5, <2>6 DEF Handler, UpdateRead, LaunchRead, LaunchTargets,
       LaunchAdd, LaunchAddFails, RemoveRead
<1>3. ASSUME NEW c \in Contacts, OptOut(c) PROVE LedgerInv'
  BY <1>3, <1>h, <1>k DEF OptOut
<1>4. ASSUME WorkerStep PROVE LedgerInv'
  <2>1. CASE RunRead \/ RunClient \/ LoopRowGone \/ RunSettle
    BY <2>1, <1>e, <1>j DEF RunRead, RunClient, LoopRowGone, RunSettle, RunThrows,
       RunEnds, Unsaved, InFlight
  <2>2. CASE RunTargets \/ LoopExhausted \/ LoopBreaks \/ SendRefused
    BY <2>2, <1>j DEF RunTargets, LoopExhausted, LoopBreaks, SendRefused, Unsaved, InFlight
  <2>3. ASSUME NEW c \in Contacts, LoopNext(c) PROVE LedgerInv'
    <3>1. Unsaved' = 0 /\ InFlight = 0 /\ InFlight' = 1
      BY <2>3 DEF LoopNext, Stops, Unsaved, InFlight
    <3>2. UNCHANGED <<row, req, stored>> /\ handled' = handled + 1
      BY <2>3 DEF LoopNext, Stops
    <3>3. QED
      BY <3>1, <3>2, <1>t, <1>u DEF LedgerInv, Backed, RowRecord
  <2>4. ASSUME NEW answered \in BOOLEAN, SendAccepted(answered) PROVE LedgerInv'
    BY <2>4, <1>j DEF SendAccepted, AfterSend, Unsaved, InFlight
  <2>5. CASE SaveMessage
    <3>1. Unsaved = 0 /\ Unsaved' = 1 /\ InFlight = 1 /\ InFlight' = 1
      BY <2>5 DEF SaveMessage, Unsaved, InFlight
    <3>2. UNCHANGED <<row, req, handled>> /\ stored' = stored + 1
      BY <2>5 DEF SaveMessage
    <3>3. QED
      BY <3>1, <3>2, <1>t DEF LedgerInv, Backed, RowRecord
  <2>6. CASE IncSent \/ IncFailed \/ IncOptOut
    <3>1. /\ UNCHANGED <<req, stored, handled>>
          /\ Unsaved' = 0 /\ InFlight = 1 /\ InFlight' = 0
      BY <2>6 DEF IncSent, IncFailed, IncOptOut, Increment, Unsaved, InFlight
    <3>2. Backed(row)'
      <4>1. CASE row' = row
        BY <3>1, <4>1, <1>t, <1>u DEF LedgerInv, Backed, RowRecord
      <4>2. CASE IncSent /\ row' = [row EXCEPT !.sentCount = @ + 1]
        BY <3>1, <4>2, <1>t DEF IncSent, Increment, Unsaved, LedgerInv, Backed, RowRecord
      <4>3. CASE row' \in {[row EXCEPT !.failedCount = @ + 1],
                           [row EXCEPT !.optOutCount = @ + 1]}
        BY <3>1, <4>3, <1>t, <1>u DEF LedgerInv, Backed, RowRecord
      <4>4. QED
        BY <2>6, <4>1, <4>2, <4>3 DEF IncSent, IncFailed, IncOptOut, Increment, Write
    <3>3. \A r \in Requests : Backed(req[r].snap)'
      BY <3>1, <1>t, <1>u DEF LedgerInv, Backed, RowRecord
    <3>4. QED
      BY <3>2, <3>3 DEF LedgerInv
  <2>7. CASE RunComplete
    <3>1. BooksKept /\ UNCHANGED req
      BY <2>7, <1>u DEF RunComplete, FinalRow, Unsaved, InFlight
    <3>2. row' \in {row, [row EXCEPT !.status = "completed"]}
      BY <2>7 DEF RunComplete, FinalRow, Write
    <3>3. QED
      BY <3>1, <3>2, <1>k, <1>t DEF RowRecord
  <2>8. QED
    BY <1>4, <2>1, <2>2, <2>3, <2>4, <2>5, <2>6, <2>7 DEF WorkerStep
<1>5. ASSUME QueueStep PROVE LedgerInv'
  BY <1>5, <1>j DEF QueueStep, RunStart, JobPromoted, JobRecovered, Unsaved, InFlight
<1>6. ASSUME FaultCaught PROVE LedgerInv'
  BY <1>6, <1>j DEF FaultCaught, CaughtAt, Unsaved, InFlight
<1>7. ASSUME FaultThrown PROVE LedgerInv'
  BY <1>7, <1>e DEF FaultThrown, RunThrows, RunEnds
<1>8. ASSUME Crash PROVE LedgerInv'
  <2>1. BooksKept /\ UNCHANGED row
    BY <1>8, <1>u DEF Crash, RunEnds, Unsaved, InFlight
  <2>2. \A r \in Requests : req'[r].snap \in Known
    BY <1>8, <1>t DEF Crash, Answered, NewRequest
  <2>3. QED
    BY <2>1, <2>2, <1>k
<1>9. CASE UNCHANGED vars
  BY <1>9, <1>j DEF vars, Unsaved, InFlight
<1>10. QED
  BY <1>1, <1>2, <1>3, <1>4, <1>5, <1>6, <1>7, <1>8, <1>9 DEF Next

LEMMA LedgerInit == Init => LedgerInv
  BY DEF Init, LedgerInv, Backed, NewRequest, NewRow, Unsaved, InFlight

(* sentCount is covered by stored messages, whatever is saved back.        *)
THEOREM SentCountIsBacked == Spec => []SentCountBacked
<1>1. TypeInv /\ LedgerInv => SentCountBacked
  BY BackedTypes DEF TypeInv, LedgerInv, Backed, Unsaved, RowRecord, SentCountBacked
<1>2. QED
  BY <1>1, LedgerInit, LedgerStep, CampaignTypes, PTL DEF Spec

(* Each iteration of the loop is counted under at most one heading.        *)
THEOREM IterationsCountedOnce == Spec => []CountedOnce
<1>1. TypeInv /\ LedgerInv => CountedOnce
  BY BackedTypes DEF TypeInv, LedgerInv, Backed, InFlight, RowRecord, CountedOnce
<1>2. QED
  BY <1>1, LedgerInit, LedgerStep, CampaignTypes, PTL DEF Spec

-----------------------------------------------------------------------------
(* A running campaign has somebody to end it.                              *)

LEMMA BackedStep == TypeInv /\ BackedInv /\ [Next]_vars => BackedInv'
<1> SUFFICES ASSUME TypeInv, BackedInv, [Next]_vars PROVE BackedInv'
  OBVIOUS
<1> USE CampaignAssumption, QueueAssumption
<1>t. /\ row \in RowRecord /\ req \in [Requests -> ReqRecord]
      /\ jobs \in [Requests -> JobRecord] /\ active \in Requests \cup {NoJob} /\ Pairing
  BY DEF TypeInv, TypeOK, QueueTypeOK
<1> DEFINE SnapsKept == \A r \in Requests : req'[r].snap.status # "running"
           EndersKept == /\ row'.status = "running" => row.status = "running"
                         /\ \A r \in Requests : Ender(r) => Ender(r)'
<1>k. ASSUME SnapsKept, EndersKept PROVE BackedInv'
  BY <1>k DEF BackedInv
<1>n. ASSUME SnapsKept, row'.status # "running" PROVE BackedInv'
  BY <1>n DEF BackedInv
<1>q. UNCHANGED req => SnapsKept
  BY DEF BackedInv
<1>j. ASSUME UNCHANGED <<row, req, jobs, active>>, wpc' # "settle" \/ wpc' = wpc
      PROVE  BackedInv'
  BY <1>j, <1>k, <1>q DEF Ender
<1>r. ASSUME RunThrows, UNCHANGED <<row, req>> PROVE BackedInv'
  <2>1. \A r \in Requests : Ender(r) => Ender(r)'
    BY <1>r, <1>t DEF RunThrows, RunEnds, Reject, Ender, JobRecord
  <2>2. QED
    BY <1>r, <2>1, <1>k, <1>q
<1> USE DEF keptByHandlers, keptByRun, runVars, observers, queueVars
<1>1. ASSUME Create \/ Pause \/ Cancel PROVE BackedInv'
  <2>1. row'.status \in Absent \cup {"draft", "paused", "cancelled"}
    BY <1>1, <1>t DEF Create, Pause, Cancel, Save, Write, Exists, NewRow, RowRecord
  <2>2. QED
    BY <1>1, <2>1, <1>n, <1>q DEF Create, Pause, Cancel, Absent
<1>2. ASSUME NEW r \in Requests, Handler(r) PROVE BackedInv'
  <2>1. SnapsKept
    <3>1. /\ Answered.snap = NewRow
          /\ [Answered EXCEPT !.pc = "lost"].snap = NewRow
          /\ NewRow.status # "running"
      BY DEF Answered, NewRequest, NewRow
    <3>2. CASE UpdateRead(r)
      BY <3>2, <1>t DEF UpdateRead, MayEdit, Editable, BackedInv
    <3>3. CASE UpdateSave(r) \/ LaunchAdd(r) \/ LaunchAddFails(r) \/ RemoveDelete(r)
      BY <3>1, <3>3, <1>t DEF UpdateSave, LaunchAdd, LaunchAddFails, RemoveDelete, Answer,
         BackedInv
    <3>4. CASE LaunchRead(r) \/ LaunchUpdate(r) \/ RemoveRead(r)
      BY <3>4, <1>t DEF LaunchRead, LaunchUpdate, RemoveRead, Goto, ReqRecord, BackedInv
    <3>5. CASE LaunchTargets(r)
      BY <3>1, <3>5, <1>t DEF LaunchTargets, Answer, ReqRecord, BackedInv
    <3>6. QED
      BY <1>2, <3>2, <3>3, <3>4, <3>5 DEF Handler
  <2>2. CASE UpdateSave(r)
    BY <2>1, <2>2, <1>n DEF UpdateSave, Save, BackedInv
  <2>3. CASE RemoveDelete(r)
    <3>1. row'.status \in Absent
      BY <2>3, <1>t DEF RemoveDelete, Write, Exists, NewRow, Absent
    <3>2. QED
      BY <2>1, <3>1, <1>n DEF Absent
  <2>4. CASE LaunchUpdate(r)
    BY <2>1, <2>4, <1>t DEF LaunchUpdate, Goto, BackedInv, Ender, ReqRecord
  <2>5. CASE UpdateRead(r) \/ LaunchRead(r) \/ RemoveRead(r) \/ LaunchTargets(r)
    <3>1. req[r].pc \notin {"launchAdd", "lost"}
      BY <2>5 DEF UpdateRead, LaunchRead, RemoveRead, LaunchTargets
    <3>2. \A q \in Requests : q # r => req'[q] = req[q]
      BY <2>5, <1>t DEF UpdateRead, LaunchRead, RemoveRead, LaunchTargets, Goto, Answer
    <3>3. UNCHANGED <<row, jobs, active, wpc>>
      BY <2>5 DEF UpdateRead, LaunchRead, RemoveRead, LaunchTargets
    <3>4. QED
      BY <2>1, <3>1, <3>2, <3>3, <1>k DEF Ender
  <2>6. CASE LaunchAdd(r)
    <3>1. Ender(r)'
      BY <2>6, <1>t DEF LaunchAdd, Add, Ender, JobRecord
    <3>2. \A q \in Requests : q # r => (Ender(q) => Ender(q)')
      BY <2>6, <1>t DEF LaunchAdd, Add, Ender, Answer
    <3>3. QED
      BY <2>1, <2>6, <3>1, <3>2, <1>k DEF LaunchAdd
  <2>7. CASE LaunchAddFails(r)
    <3>1. Ender(r)'
      BY <2>7, <1>t DEF LaunchAddFails, Ender, Answered, NewRequest
    <3>2. \A q \in Requests : q # r => (Ender(q) => Ender(q)')
      BY <2>7, <1>t DEF LaunchAddFails, Ender
    <3>3. QED
      BY <2>1, <2>7, <3>1, <3>2, <1>k DEF LaunchAddFails
  <2>8. QED
    BY <1>2, <2>2, <2>3, <2>4, <2>5, <2>6, <2>7 DEF Handler
<1>3. ASSUME NEW c \in Contacts, OptOut(c) PROVE BackedInv'
  BY <1>3, <1>j DEF OptOut
<1>4. ASSUME WorkerStep PROVE BackedInv'
  <2>1. CASE RunRead \/ RunClient \/ LoopRowGone
    BY <2>1, <1>j, <1>r DEF RunRead, RunClient, LoopRowGone
  <2>2. CASE RunTargets \/ LoopExhausted \/ LoopBreaks \/ SendRefused \/ SaveMessage
    BY <2>2, <1>j DEF RunTargets, LoopExhausted, LoopBreaks, SendRefused, SaveMessage
  <2>3. ASSUME NEW c \in Contacts, LoopNext(c) PROVE BackedInv'
    BY <2>3, <1>j DEF LoopNext, Stops
  <2>4. ASSUME NEW answered \in BOOLEAN, SendAccepted(answered) PROVE BackedInv'
    BY <2>4, <1>j DEF SendAccepted, AfterSend
  <2>5. CASE IncSent \/ IncFailed \/ IncOptOut
    <3>1. row'.status = row.status
      BY <2>5, <1>t DEF IncSent, IncFailed, IncOptOut, Increment, Write, RowRecord
    <3>2. UNCHANGED <<req, jobs, active>> /\ wpc' = "check"
      BY <2>5 DEF IncSent, IncFailed, IncOptOut, Increment
    <3>3. QED
      BY <3>1, <3>2, <1>k, <1>q DEF Ender
  <2>6. CASE RunComplete
    <3>1. row'.status \in Absent \cup {"completed"}
      BY <2>6, <1>t DEF RunComplete, FinalRow, Write, Exists, RowRecord
    <3>2. QED
      BY <2>6, <3>1, <1>n, <1>q DEF RunComplete, FinalRow, Absent
  <2>7. CASE RunSettle
    <3>1. ASSUME NEW r \in Requests, Ender(r) PROVE Ender(r)'
      <4>1. CASE r = active
        <5>1. jobs[r].state = "active" /\ wpc = "settle"
          BY <2>7, <4>1 DEF RunSettle, TypeInv, QueueInv, WorkerHoldsActive
        <5>2. req'[r] = req[r] /\ req[r].pc \in {"launchAdd", "lost"}
          BY <2>7, <3>1, <4>1, <5>1 DEF RunSettle, Ender
        <5>3. QED
          BY <5>2 DEF Ender
      <4>2. CASE r # active
        BY <2>7, <3>1, <4>2, <1>t DEF RunSettle, Finish, Ender
      <4>3. QED
        BY <4>1, <4>2
    <3>2. QED
      BY <2>7, <3>1, <1>k, <1>q DEF RunSettle
  <2>8. QED
    BY <1>4, <2>1, <2>2, <2>3, <2>4, <2>5, <2>6, <2>7 DEF WorkerStep
<1>5. ASSUME QueueStep PROVE BackedInv'
  <2>1. ASSUME NEW j \in Requests, RunStart(j) PROVE EndersKept
    BY <2>1, <1>t DEF RunStart, Take, Ender, JobRecord
  <2>2. ASSUME NEW j \in Requests, JobPromoted(j) PROVE EndersKept
    BY <2>2, <1>t DEF JobPromoted, Promote, Ender, JobRecord
  <2>3. ASSUME NEW j \in Requests, JobRecovered(j) PROVE EndersKept
    BY <2>3, <1>t DEF JobRecovered, RecoverStalled, Ender, JobRecord
  <2>4. UNCHANGED req
    BY <1>5 DEF QueueStep, RunStart, JobPromoted, JobRecovered
  <2>5. QED
    BY <1>5, <2>1, <2>2, <2>3, <2>4, <1>k, <1>q DEF QueueStep
<1>6. ASSUME FaultCaught PROVE BackedInv'
  BY <1>6, <1>j DEF FaultCaught, CaughtAt
<1>7. ASSUME FaultThrown PROVE BackedInv'
  BY <1>7, <1>r DEF FaultThrown
<1>8. ASSUME Crash PROVE BackedInv'
  <2>1. SnapsKept
    BY <1>8, <1>t DEF Crash, Answered, NewRequest, NewRow, BackedInv
  <2>2. \A r \in Requests : Ender(r) => Ender(r)'
    BY <1>8, <1>t DEF Crash, LoseWorker, Ender, Answered, NewRequest
  <2>3. QED
    BY <1>8, <2>1, <2>2, <1>k DEF Crash
<1>9. CASE UNCHANGED vars
  BY <1>9, <1>j DEF vars
<1>10. QED
  BY <1>1, <1>2, <1>3, <1>4, <1>5, <1>6, <1>7, <1>8, <1>9 DEF Next

(* A running campaign is backed by a launch, a live job, or a known loss.  *)
THEOREM RunningBacked == Spec => []RunningIsBacked
<1>1. Init => BackedInv
  BY DEF Init, BackedInv, NewRequest, NewRow
<1>2. BackedInv => RunningIsBacked
  BY DEF BackedInv, Ender, RunningIsBacked, Live
<1>3. QED
  BY <1>1, <1>2, BackedStep, CampaignTypes, PTL DEF Spec
=============================================================================
