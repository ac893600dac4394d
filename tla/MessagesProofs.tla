--------------------------- MODULE MessagesProofs ----------------------------
(* The safety of outbound messages for any number of messages, sids,       *)
(* callback handlers, crashes and faults.                                  *)
EXTENDS Messages, BullQueueProofs, FiniteSetTheorems

(* The worker is inside sendImmediate exactly while it holds a job, and    *)
(* has a sid to store once Twilio has answered; a busy callback handler    *)
(* has a row to update.                                                    *)
Pairing == /\ wpc = "idle" <=> active = NoJob
           /\ wpc = "markSent" => wsid \in Sids
           /\ \A h \in Hooks : hook[h] # IdleHook => hook[h].target \in Messages

TypeInv == TypeOK /\ QueueInv /\ Pairing

Final    == {"delivered", "undelivered"}
TakenOn  == {"sending", "sent", "delivered", "undelivered"}

Outcome(m, status) == \E s \in Sids : owner[s] = m /\ progress[s] = status

(* Before the insert there is neither a row nor a job. *)
UnsentInv == \A m \in Messages :
                spc[m] = "idle" => msg[m] = NoRow /\ jobs[m].state = "absent"

(* A sid belongs to one message from the moment Twilio assigns it: in the  *)
(* worker's hands, in the row, and on a callback's way.                    *)
SidInv ==
    /\ \A s \in Sids : owner[s] = NoJob => progress[s] = "unassigned"
    /\ wpc = "markSent" => owner[wsid] = active
    /\ \A m \in Messages : msg[m].sid # NoSid => owner[msg[m].sid] = m
    /\ \A cb \in net : /\ owner[cb.sid] # NoJob
                       /\ cb.status \in Final => progress[cb.sid] = cb.status

(* Outcomes in the rows, and those a callback handler is about to write.   *)
OutcomeInv ==
    /\ \A m \in Messages :
         /\ msg[m].status \in TakenOn => msg[m].sid # NoSid
         /\ msg[m].status \in Final => Outcome(m, msg[m].status)
         /\ msg[m].deliveredAt => Outcome(m, "delivered")
    /\ \A h \in Hooks : hook[h] # IdleHook =>
         /\ msg[hook[h].target].sid # NoSid
         /\ hook[h].report \in Final => Outcome(hook[h].target, hook[h].report)
         /\ hook[h].seen \in Final => Outcome(hook[h].target, hook[h].seen)

ReportInv == UnsentInv /\ SidInv /\ OutcomeInv

(* The run of m's job has not called Twilio yet. *)
MayCreate(m) == active = m /\ wpc \in {"read", "client", "create"}

(* m's job waits for the stalled check. *)
Orphaned(m) == jobs[m].state = "active" /\ active # m

(* A start pays for a copy; a fault pays for a rejection, a crash for a    *)
(* stall.                                                                  *)
TroubleInv == \A m \in Messages :
    /\ Cardinality(SidsOf(m)) + (IF MayCreate(m) THEN 1 ELSE 0) <= jobs[m].starts
    /\ jobs[m].failures <= faults
    /\ jobs[m].stalls + (IF Orphaned(m) THEN 1 ELSE 0) <= crashes

-----------------------------------------------------------------------------
(* Each step is a step of the queue, or leaves it alone.                   *)

LEMMA StepIsQueueStep == TypeInv /\ [Next]_vars => [QueueNext]_queueVars
<1> SUFFICES ASSUME TypeInv, [Next]_vars PROVE [QueueNext]_queueVars
  OBVIOUS
<1> USE MessageAssumption
<1>1. ASSUME NEW m \in Messages, SendSave(m) \/ SendAddFails(m) PROVE UNCHANGED queueVars
  BY <1>1 DEF SendSave, SendAddFails
<1>2. ASSUME NEW m \in Messages, SendAdd(m) PROVE QueueNext
  BY <1>2 DEF SendAdd, QueueNext
<1>3. ASSUME WorkerStep PROVE QueueNext \/ UNCHANGED queueVars
  <2>1. CASE SendRead \/ SendClient \/ CreateRefused \/ MarkSent \/ MarkFailed
    BY <2>1 DEF SendRead, SendClient, CreateRefused, MarkSent, MarkFailed
  <2>2. ASSUME NEW s \in Sids, NEW answered \in BOOLEAN, CreateAccepted(s, answered)
        PROVE  UNCHANGED queueVars
    BY <2>2 DEF CreateAccepted
  <2>3. CASE SendSettle
    BY <2>3 DEF SendSettle, TypeInv, TypeOK, QueueTypeOK, Pairing, QueueNext
  <2>4. QED
    BY <1>3, <2>1, <2>2, <2>3 DEF WorkerStep
<1>4. ASSUME QueueStep PROVE QueueNext
  BY <1>4 DEF QueueStep, SendStart, JobPromoted, JobRecovered, QueueNext
<1>5. ASSUME FaultCaught PROVE UNCHANGED queueVars
  BY <1>5 DEF FaultCaught
<1>6. ASSUME FaultThrown PROVE QueueNext
  BY <1>6 DEF FaultThrown, JobThrows, TypeInv, TypeOK, QueueTypeOK, Pairing, QueueNext
<1>7. ASSUME NEW s \in Sids, TwilioAdvances(s) PROVE UNCHANGED queueVars
  BY <1>7 DEF TwilioAdvances
<1>8. ASSUME NEW h \in Hooks, HookUpdate(h) PROVE UNCHANGED queueVars
  BY <1>8 DEF HookUpdate
<1>9. ASSUME NEW h \in Hooks, NEW cb \in net, HookRead(h, cb) PROVE UNCHANGED queueVars
  BY <1>9 DEF HookRead
<1>10. ASSUME Crash PROVE QueueNext
  BY <1>10 DEF Crash, QueueNext
<1>11. CASE UNCHANGED vars
  BY <1>11 DEF vars, queueVars
<1>12. QED
  BY <1>1, <1>2, <1>3, <1>4, <1>5, <1>6, <1>7, <1>8, <1>9, <1>10, <1>11 DEF Next

-----------------------------------------------------------------------------
(* Types.                                                                  *)

LEMMA MessageTypeInit == Init => TypeInv
<1> SUFFICES ASSUME Init PROVE TypeInv
  OBVIOUS
<1>1. QueueInv
  BY QueueInvInit DEF Init
<1>2. QED
  BY <1>1, MessageAssumption
  DEF Init, TypeInv, TypeOK, QueueInv, Pairing, QueueInit, MessageRow, NoRow,
      HookRecord, IdleHook, Status, Reports, WorkerPc, Callback

LEMMA RowEdits ==
  ASSUME msg \in [Messages -> MessageRow], NEW m \in Messages
  PROVE  /\ NoRow \in MessageRow
         /\ \A s \in Status : [NoRow EXCEPT !.status = s] \in MessageRow
         /\ \A s \in Status : [msg[m] EXCEPT !.status = s] \in MessageRow
         /\ \A s \in Status, sid \in Sids :
              [msg[m] EXCEPT !.status = s, !.sid = sid] \in MessageRow
         /\ \A s \in Status \cup {"absent"}, d \in BOOLEAN :
              [msg[m] EXCEPT !.status = s, !.deliveredAt = @ \/ d] \in MessageRow
  BY DEF MessageRow, NoRow

LEMMA ReportedType ==
  ASSUME net \in SUBSET Callback, NEW s \in Sids, NEW status \in Reports,
         Reported(s, status)
  PROVE  net' \in SUBSET Callback
  BY DEF Reported, Callback

LEMMA NextReportsType ==
  ASSUME NEW status \in DOMAIN NextReports, NEW next \in NextReports[status]
  PROVE  next \in Reports \ {"accepted"} /\ status \notin Final
  BY DEF NextReports, Reports, Final

LEMMA IdleHookType == IdleHook \in HookRecord
  BY DEF IdleHook, HookRecord, Reports

LEMMA MessageTypeStep == TypeInv /\ [Next]_vars => TypeInv'
<1> SUFFICES ASSUME TypeInv, [Next]_vars PROVE TypeInv'
  OBVIOUS
<1>q. QueueInv'
  BY StepIsQueueStep, QueueInvStep DEF TypeInv
<1>t. TypeOK /\ Pairing /\ QueueTypeOK /\ QueueTypeOK'
  BY <1>q DEF TypeInv, QueueInv
<1> DEFINE RowType == msg' \in [Messages -> MessageRow]
           SpcType == spc' \in [Messages -> {"idle", "add", "done", "lost"}]
           RunType == /\ wpc' \in WorkerPc
                      /\ wsid' \in Sids \cup {NoSid}
                      /\ wpc' = "idle" <=> active' = NoJob
                      /\ wpc' = "markSent" => wsid' \in Sids
           HookType == /\ hook' \in [Hooks -> HookRecord]
                       /\ \A h \in Hooks : hook'[h] # IdleHook => hook'[h].target \in Messages
           NetType == /\ owner' \in [Sids -> Messages \cup {NoJob}]
                      /\ progress' \in [Sids -> Reports \cup {"unassigned"}]
                      /\ net' \in SUBSET Callback
           Bounds == crashes' \in 0..MaxCrashes /\ faults' \in 0..MaxFaults
           Goal == RowType /\ SpcType /\ RunType /\ HookType /\ NetType /\ Bounds
<1> USE MessageAssumption, QueueAssumption, <1>t DEF TypeOK, Pairing
<1>1. ASSUME NEW m \in Messages, SendSave(m) PROVE Goal
  <2>1. RowType
    BY <1>1, RowEdits DEF SendSave, Status
  <2>2. QED
    BY <1>1, <2>1 DEF SendSave, workerVars, twilioVars, boundVars, queueVars
<1>2. ASSUME NEW m \in Messages, SendAdd(m) \/ SendAddFails(m) PROVE Goal
  BY <1>2 DEF SendAdd, Add, SendAddFails, workerVars, twilioVars, boundVars, queueVars
<1>3. ASSUME WorkerStep PROVE Goal
  <2> USE DEF keptByWorker, sendVars, boundVars, WorkerPc
  <2>1. CASE SendRead \/ SendClient \/ CreateRefused
    BY <2>1 DEF SendRead, SendClient, CreateRefused, twilioVars, queueVars
  <2>2. ASSUME NEW s \in Sids, NEW answered \in BOOLEAN, CreateAccepted(s, answered)
        PROVE  Goal
    <3>1. net' \in SUBSET Callback
      BY <2>2, ReportedType DEF CreateAccepted, Reports
    <3>2. NetType
      BY <2>2, <3>1 DEF CreateAccepted, QueueTypeOK, Reports
    <3>3. QED
      BY <2>2, <3>2 DEF CreateAccepted, AfterCreate, queueVars
  <2>3. CASE MarkSent
    <3>1. active \in Messages /\ wsid \in Sids
      BY <2>3 DEF MarkSent, QueueTypeOK
    <3>2. RowType
      BY <2>3, <3>1, RowEdits DEF MarkSent, Status
    <3>3. QED
      BY <2>3, <3>2 DEF MarkSent, twilioVars, queueVars
  <2>4. CASE MarkFailed
    <3>1. active \in Messages
      BY <2>4 DEF MarkFailed, QueueTypeOK
    <3>2. RowType
      BY <2>4, <3>1, RowEdits DEF MarkFailed, Status
    <3>3. QED
      BY <2>4, <3>2 DEF MarkFailed, twilioVars, queueVars
  <2>5. CASE SendSettle
    BY <2>5 DEF SendSettle, Finish, twilioVars
  <2>6. QED
    BY <1>3, <2>1, <2>2, <2>3, <2>4, <2>5 DEF WorkerStep
<1>4. ASSUME QueueStep PROVE Goal
  <2>1. ASSUME NEW m \in Messages, SendStart(m) PROVE Goal
    BY <2>1 DEF SendStart, Take, WorkerPc, twilioVars, keptByWorker, sendVars, boundVars
  <2>2. ASSUME NEW m \in Messages, JobPromoted(m) \/ JobRecovered(m) PROVE Goal
    BY <2>2 DEF JobPromoted, JobRecovered, Promote, RecoverStalled, keptByQueue,
        sendVars, workerVars, twilioVars, boundVars
  <2>3. QED
    BY <1>4, <2>1, <2>2 DEF QueueStep
<1>5. ASSUME FaultCaught PROVE Goal
  BY <1>5 DEF FaultCaught, WorkerPc, twilioVars, queueVars
<1>6. ASSUME FaultThrown PROVE Goal
  BY <1>6 DEF FaultThrown, JobThrows, Reject, WorkerPc, twilioVars
<1>7. ASSUME NEW s \in Sids, TwilioAdvances(s) PROVE Goal
  <2>1. PICK next \in NextReports[progress[s]] :
              /\ progress[s] \in DOMAIN NextReports
              /\ progress' = [progress EXCEPT ![s] = next]
              /\ Reported(s, next)
    BY <1>7 DEF TwilioAdvances
  <2>2. next \in Reports
    BY <2>1, NextReportsType
  <2>3. NetType
    BY <1>7, <2>1, <2>2, ReportedType DEF TwilioAdvances
  <2>4. QED
    BY <1>7, <2>3 DEF TwilioAdvances, sendVars, workerVars, boundVars, queueVars
<1>8. ASSUME NEW h \in Hooks, HookUpdate(h) PROVE Goal
  <2>1. hook[h].report \in Reports /\ hook[h].seen \in Status \cup {"absent"}
    BY DEF HookRecord
  <2>2. Mapped(hook[h].report, hook[h].seen) \in Status \cup {"absent"}
    BY <2>1 DEF Mapped
  <2>3. RowType
    BY <1>8, <2>2, RowEdits DEF HookUpdate
  <2>4. QED
    BY <1>8, <2>3, IdleHookType
    DEF HookUpdate, sendVars, workerVars, twilioVars, boundVars, queueVars
<1>9. ASSUME NEW h \in Hooks, NEW cb \in net, HookRead(h, cb) PROVE Goal
  <2>1. HookType
    <3>1. ASSUME NEW m \in RowsWith(cb.sid)
          PROVE  /\ m \in Messages
                 /\ [target |-> m, seen |-> msg[m].status, report |-> cb.status]
                      \in HookRecord
      BY <3>1 DEF RowsWith, HookRecord, MessageRow, Callback
    <3>2. CASE UNCHANGED hook
      BY <3>2
    <3>3. ASSUME NEW m \in RowsWith(cb.sid),
                 hook' = [hook EXCEPT ![h] = [target |-> m, seen |-> msg[m].status,
                                              report |-> cb.status]]
          PROVE  HookType
      BY <3>1, <3>3
    <3>4. QED
      BY <1>9, <3>2, <3>3 DEF HookRead
  <2>2. QED
    BY <1>9, <2>1 DEF HookRead, sendVars, workerVars, boundVars, queueVars
<1>10. ASSUME Crash PROVE Goal
  BY <1>10, IdleHookType DEF Crash, LoseWorker, WorkerPc, twilioVars
<1>11. ASSUME UNCHANGED vars PROVE Goal
  BY <1>11 DEF vars, queueVars
<1> HIDE DEF Goal
<1>12. Goal
  BY <1>1, <1>2, <1>3, <1>4, <1>5, <1>6, <1>7, <1>8, <1>9, <1>10, <1>11 DEF Next
<1>13. QED
  BY <1>q, <1>12 DEF Goal, TypeInv

(* Every variable keeps its type, and the queue its books. *)
THEOREM MessageTypes == Spec => []TypeInv
  BY MessageTypeInit, MessageTypeStep, PTL DEF Spec

(* Type correctness of rows, requests, the worker, the callback handlers   *)
(* and what is under way to them.                                          *)
THEOREM MessageTypeOK == Spec => []TypeOK
<1>1. TypeInv => TypeOK
  BY DEF TypeInv
<1>2. QED
  BY MessageTypes, <1>1, PTL

(* The messages' jobs live as the abstract queue allows. *)
THEOREM MessageImplementsQueue == Spec => QueueSpec
<1>1. Init => QueueInit
  BY DEF Init
<1>2. QED
  BY <1>1, StepIsQueueStep, MessageTypes, PTL DEF Spec, QueueSpec

-----------------------------------------------------------------------------
(* Where messages, sids and outcomes come from.                            *)

(* Only the creation of a message, its progress and the arrival of a       *)
(* callback touch what Twilio and the net hold.                            *)
LEMMA TwilioChanges ==
  ASSUME TypeInv, [Next]_vars
  PROVE  \/ UNCHANGED twilioVars
         \/ \E s \in Sids, answered \in BOOLEAN : CreateAccepted(s, answered)
         \/ \E s \in Sids : TwilioAdvances(s)
         \/ UNCHANGED <<owner, progress>> /\ net' \in SUBSET net
<1> USE DEF twilioVars
<1>1. ASSUME NEW m \in Messages, SendSave(m) \/ SendAdd(m) \/ SendAddFails(m)
      PROVE  UNCHANGED twilioVars
  BY <1>1 DEF SendSave, SendAdd, SendAddFails
<1>2. ASSUME SendRead \/ SendClient \/ CreateRefused \/ MarkSent \/ MarkFailed \/ SendSettle
      PROVE  UNCHANGED twilioVars
  BY <1>2 DEF SendRead, SendClient, CreateRefused, MarkSent, MarkFailed, SendSettle
<1>3. ASSUME QueueStep PROVE UNCHANGED twilioVars
  BY <1>3 DEF QueueStep, SendStart, JobPromoted, JobRecovered, keptByQueue
<1>4. ASSUME FaultCaught \/ FaultThrown \/ Crash PROVE UNCHANGED twilioVars
  BY <1>4 DEF FaultCaught, FaultThrown, Crash
<1>5. ASSUME NEW h \in Hooks, HookUpdate(h) PROVE UNCHANGED twilioVars
  BY <1>5 DEF HookUpdate
<1>6. ASSUME NEW h \in Hooks, NEW cb \in net, HookRead(h, cb)
      PROVE  UNCHANGED <<owner, progress>> /\ net' \in SUBSET net
  BY <1>6 DEF HookRead
<1>7. ASSUME UNCHANGED vars PROVE UNCHANGED twilioVars
  BY <1>7 DEF vars
<1>8. QED
  BY <1>1, <1>2, <1>3, <1>4, <1>5, <1>6, <1>7 DEF Next, WorkerStep

(* An assigned sid keeps its message, and a final status is final.         *)
LEMMA SidsStay ==
  ASSUME TypeInv, SidInv, [Next]_vars, NEW s \in Sids
  PROVE  /\ owner[s] # NoJob => owner'[s] = owner[s]
         /\ progress[s] \in Final => progress'[s] = progress[s]
<1> USE DEF TypeInv, TypeOK
<1>1. ASSUME NEW t \in Sids, NEW answered \in BOOLEAN, CreateAccepted(t, answered)
      PROVE  /\ owner[s] # NoJob => owner'[s] = owner[s]
             /\ progress[s] \in Final => progress'[s] = progress[s]
  BY <1>1 DEF CreateAccepted, SidInv, Final
<1>2. ASSUME NEW t \in Sids, TwilioAdvances(t)
      PROVE  owner' = owner /\ (progress[s] \in Final => progress'[s] = progress[s])
  BY <1>2, NextReportsType DEF TwilioAdvances
<1>3. QED
  BY <1>1, <1>2, TwilioChanges DEF twilioVars

LEMMA OutcomesStay ==
  ASSUME TypeInv, SidInv, [Next]_vars, NEW m \in Messages, NEW status \in Final,
         Outcome(m, status)
  PROVE  Outcome(m, status)'
<1>1. PICK s \in Sids : owner[s] = m /\ progress[s] = status
  BY DEF Outcome
<1>2. owner'[s] = m /\ progress'[s] = status
  BY <1>1, SidsStay, QueueAssumption, MessageAssumption
<1>3. QED
  BY <1>2 DEF Outcome

(* What a report adds to the net is the status its sid has just reached.   *)
LEMMA ReportedAdds ==
  ASSUME NEW s, NEW status, Reported(s, status), NEW cb \in net'
  PROVE  cb \in net \/ cb = [sid |-> s, status |-> status]
  BY DEF Reported

LEMMA UnsentStep == TypeInv /\ UnsentInv /\ OutcomeInv /\ [Next]_vars => UnsentInv'
<1> SUFFICES ASSUME TypeInv, UnsentInv, OutcomeInv, [Next]_vars,
                    NEW m \in Messages, spc'[m] = "idle"
             PROVE  msg'[m] = NoRow /\ jobs'[m].state = "absent"
  BY DEF UnsentInv
<1> USE MessageAssumption, QueueAssumption
    DEF TypeInv, TypeOK, QueueTypeOK, UnsentInv, QueueInv, WorkerHoldsActive
<1> DEFINE Goal == msg'[m] = NoRow /\ jobs'[m].state = "absent"
<1>1. ASSUME NEW n \in Messages, SendSave(n) \/ SendAdd(n) \/ SendAddFails(n) PROVE Goal
  BY <1>1 DEF SendSave, SendAdd, SendAddFails, Add, queueVars
<1>2. ASSUME WorkerStep PROVE Goal
  <2>1. ASSUME spc[m] = "idle" PROVE active # m
    BY <2>1
  <2>2. CASE SendRead \/ SendClient \/ CreateRefused
    BY <2>2 DEF SendRead, SendClient, CreateRefused, keptByWorker, sendVars, queueVars
  <2>3. ASSUME NEW s \in Sids, NEW answered \in BOOLEAN, CreateAccepted(s, answered)
        PROVE  Goal
    BY <2>3 DEF CreateAccepted, keptByWorker, sendVars, queueVars
  <2>4. CASE MarkSent \/ MarkFailed
    BY <2>1, <2>4 DEF MarkSent, MarkFailed, keptByWorker, sendVars, queueVars
  <2>5. CASE SendSettle
    BY <2>1, <2>5 DEF SendSettle, Finish, keptByWorker, sendVars
  <2>6. QED
    BY <1>2, <2>2, <2>3, <2>4, <2>5 DEF WorkerStep
<1>3. ASSUME QueueStep PROVE Goal
  <2>1. ASSUME NEW n \in Messages, SendStart(n) PROVE Goal
    BY <2>1 DEF SendStart, Take, keptByWorker, sendVars
  <2>2. ASSUME NEW n \in Messages, JobPromoted(n) \/ JobRecovered(n) PROVE Goal
    BY <2>2 DEF JobPromoted, JobRecovered, Promote, RecoverStalled, keptByQueue, sendVars
  <2>3. QED
    BY <1>3, <2>1, <2>2 DEF QueueStep
<1>4. ASSUME FaultCaught PROVE Goal
  BY <1>4 DEF FaultCaught, queueVars
<1>5. ASSUME FaultThrown PROVE Goal
  BY <1>5 DEF FaultThrown, JobThrows, Reject
<1>6. ASSUME NEW s \in Sids, TwilioAdvances(s) PROVE Goal
  BY <1>6 DEF TwilioAdvances, sendVars, queueVars
<1>7. ASSUME NEW h \in Hooks, HookUpdate(h) PROVE Goal
  <2>1. hook[h].target \in Messages /\ msg[hook[h].target].sid # NoSid
    BY <1>7 DEF HookUpdate, OutcomeInv, Pairing
  <2>2. UNCHANGED <<spc, jobs>>
    BY <1>7 DEF HookUpdate, sendVars, queueVars
  <2>3. msg[m].sid = NoSid
    BY <2>2 DEF NoRow
  <2>4. msg'[m] = msg[m]
    BY <1>7, <2>1, <2>3 DEF HookUpdate
  <2>5. QED
    BY <2>2, <2>4
<1>8. ASSUME NEW h \in Hooks, NEW cb \in net, HookRead(h, cb) PROVE Goal
  BY <1>8 DEF HookRead, sendVars, queueVars
<1>9. ASSUME Crash PROVE Goal
  BY <1>9 DEF Crash, LoseWorker
<1>10. ASSUME UNCHANGED vars PROVE Goal
  BY <1>10 DEF vars, queueVars
<1>11. QED
  BY <1>1, <1>2, <1>3, <1>4, <1>5, <1>6, <1>7, <1>8, <1>9, <1>10 DEF Next

LEMMA SidStep == TypeInv /\ ReportInv /\ [Next]_vars => SidInv'
<1> SUFFICES ASSUME TypeInv, ReportInv, [Next]_vars PROVE SidInv'
  OBVIOUS
<1> USE MessageAssumption, QueueAssumption
    DEF TypeInv, TypeOK, QueueTypeOK, Pairing, ReportInv, SidInv
<1> DEFINE NetOK == \A cb \in net' : /\ owner'[cb.sid] # NoJob
                                     /\ cb.status \in Final => progress'[cb.sid] = cb.status
           RowOK == \A m \in Messages : msg'[m].sid # NoSid => owner'[msg'[m].sid] = m
           RunOK == wpc' = "markSent" => owner'[wsid'] = active'
           NewOK == \A s \in Sids : owner'[s] = NoJob => progress'[s] = "unassigned"
           OldRows == \A m \in Messages : msg'[m].sid \in {NoSid, msg[m].sid}
           OldRun  == wpc' = "markSent" => UNCHANGED <<wpc, wsid, active>>
<1>c. \A cb \in net : cb.sid \in Sids
  BY DEF Callback
<1>s. \A m \in Messages : msg[m].sid \in Sids \cup {NoSid}
  BY DEF MessageRow
<1>r. ASSUME OldRows PROVE RowOK
  BY <1>r, <1>s, SidsStay
<1>w. ASSUME OldRun PROVE RunOK
  BY <1>w, SidsStay
<1>n. ASSUME UNCHANGED <<owner, progress>>, net' \in SUBSET net PROVE NetOK /\ NewOK
  BY <1>n
<1>u. ASSUME UNCHANGED twilioVars PROVE NetOK /\ NewOK
  BY <1>u, <1>n DEF twilioVars
<1>1. ASSUME NEW m \in Messages, SendSave(m) \/ SendAdd(m) \/ SendAddFails(m)
      PROVE  NetOK /\ NewOK /\ OldRows /\ OldRun
  BY <1>1, <1>u DEF SendSave, SendAdd, SendAddFails, Add, NoRow, workerVars, queueVars
<1>2. ASSUME SendRead \/ SendClient \/ CreateRefused \/ MarkFailed \/ SendSettle
      PROVE  NetOK /\ NewOK /\ OldRows /\ OldRun
  <2>1. OldRows
    <3>1. CASE MarkFailed
      BY <3>1 DEF MarkFailed, MessageRow
    <3>2. CASE SendRead \/ SendClient \/ CreateRefused \/ SendSettle
      BY <3>2 DEF SendRead, SendClient, CreateRefused, SendSettle
    <3>3. QED
      BY <1>2, <3>1, <3>2
  <2>2. QED
    BY <1>2, <1>u, <2>1 DEF SendRead, SendClient, CreateRefused, MarkFailed, SendSettle,
       queueVars
<1>3. ASSUME NEW s \in Sids, NEW answered \in BOOLEAN, CreateAccepted(s, answered)
      PROVE  NetOK /\ NewOK /\ OldRows /\ RunOK
  <2>1. PICK first \in {"accepted", "queued"} :
          progress' = [progress EXCEPT ![s] = first] /\ Reported(s, first)
    BY <1>3 DEF CreateAccepted
  <2>2. owner[s] = NoJob /\ owner' = [owner EXCEPT ![s] = active] /\ active \in Messages
    BY <1>3 DEF CreateAccepted
  <2>3. NetOK
    BY <1>c, <2>1, <2>2, ReportedAdds DEF Final
  <2>4. QED
    BY <1>3, <2>1, <2>2, <2>3 DEF CreateAccepted, AfterCreate, queueVars
<1>4. ASSUME MarkSent PROVE NetOK /\ NewOK /\ RowOK /\ OldRun
  <2>1. owner' = owner /\ wsid \in Sids /\ owner[wsid] = active /\ active \in Messages
    BY <1>4 DEF MarkSent, twilioVars
  <2>2. \A m \in Messages : msg'[m].sid = IF m = active THEN wsid ELSE msg[m].sid
    BY <1>4, <2>1 DEF MarkSent, MessageRow
  <2>3. QED
    BY <1>4, <1>u, <2>1, <2>2 DEF MarkSent
<1>5. ASSUME QueueStep PROVE NetOK /\ NewOK /\ OldRows /\ OldRun
  <2>1. ASSUME NEW m \in Messages, SendStart(m) PROVE NetOK /\ NewOK /\ OldRows /\ OldRun
    BY <2>1, <1>u DEF SendStart
  <2>2. ASSUME NEW m \in Messages, JobPromoted(m) \/ JobRecovered(m)
        PROVE  NetOK /\ NewOK /\ OldRows /\ OldRun
    BY <2>2, <1>u DEF JobPromoted, JobRecovered, Promote, RecoverStalled, keptByQueue,
       workerVars
  <2>3. QED
    BY <1>5, <2>1, <2>2 DEF QueueStep
<1>6. ASSUME FaultCaught \/ FaultThrown \/ Crash PROVE NetOK /\ NewOK /\ OldRows /\ OldRun
  BY <1>6, <1>u DEF FaultCaught, FaultThrown, JobThrows, Crash
<1>7. ASSUME NEW s \in Sids, TwilioAdvances(s) PROVE NetOK /\ NewOK /\ OldRows /\ OldRun
  <2>1. PICK next \in NextReports[progress[s]] :
              /\ progress[s] \in DOMAIN NextReports
              /\ progress' = [progress EXCEPT ![s] = next]
              /\ Reported(s, next)
    BY <1>7 DEF TwilioAdvances
  <2>2. owner' = owner /\ owner[s] # NoJob /\ progress[s] \notin Final
    BY <1>7, <2>1, NextReportsType DEF TwilioAdvances, NextReports
  <2>3. NetOK
    BY <1>c, <2>1, <2>2, ReportedAdds
  <2>4. QED
    BY <1>7, <2>1, <2>2, <2>3 DEF TwilioAdvances, workerVars, queueVars
<1>8. ASSUME NEW h \in Hooks, HookUpdate(h) PROVE NetOK /\ NewOK /\ OldRows /\ OldRun
  BY <1>8, <1>u DEF HookUpdate, workerVars, queueVars
<1>9. ASSUME NEW h \in Hooks, NEW cb \in net, HookRead(h, cb)
      PROVE  NetOK /\ NewOK /\ OldRows /\ OldRun
  BY <1>9, <1>n DEF HookRead, workerVars, queueVars
<1>10. ASSUME UNCHANGED vars PROVE NetOK /\ NewOK /\ OldRows /\ OldRun
  BY <1>10, <1>u DEF vars, twilioVars, queueVars
<1> HIDE DEF NetOK, NewOK, OldRows, OldRun, RowOK, RunOK
<1>11. NetOK /\ NewOK /\ RowOK /\ RunOK
  BY <1>r, <1>w, <1>1, <1>2, <1>3, <1>4, <1>5, <1>6, <1>7, <1>8, <1>9, <1>10
  DEF Next, WorkerStep
<1>12. QED
  BY <1>11 DEF NetOK, NewOK, RowOK, RunOK

LEMMA OutcomeStep == TypeInv /\ ReportInv /\ [Next]_vars => OutcomeInv'
<1> SUFFICES ASSUME TypeInv, ReportInv, [Next]_vars PROVE OutcomeInv'
  OBVIOUS
<1> USE MessageAssumption, QueueAssumption
    DEF TypeInv, TypeOK, QueueTypeOK, Pairing, ReportInv, OutcomeInv
<1> DEFINE Reached(m, status) == \E s \in Sids : owner'[s] = m /\ progress'[s] = status
           RowOK == \A m \in Messages :
                      /\ msg'[m].status \in TakenOn => msg'[m].sid # NoSid
                      /\ msg'[m].status \in Final => Reached(m, msg'[m].status)
                      /\ msg'[m].deliveredAt => Reached(m, "delivered")
           HookOK == \A h \in Hooks : hook'[h] # IdleHook =>
                      /\ msg'[hook'[h].target].sid # NoSid
                      /\ hook'[h].report \in Final
                           => Reached(hook'[h].target, hook'[h].report)
                      /\ hook'[h].seen \in Final => Reached(hook'[h].target, hook'[h].seen)
           Kept == \A m \in Messages : msg[m].sid # NoSid => msg'[m].sid # NoSid
           \* every row stands as it was, or for less
           Weaker == \A m \in Messages :
                      /\ msg'[m].status \in TakenOn => msg'[m].sid # NoSid
                      /\ msg'[m].status \in Final => msg'[m].status = msg[m].status
                      /\ msg'[m].deliveredAt => msg[m].deliveredAt
           Fewer  == \A h \in Hooks : hook'[h] = hook[h] \/ hook'[h] = IdleHook
<1>o. ASSUME NEW m \in Messages, NEW status \in Final, Outcome(m, status)
      PROVE  Reached(m, status)
  BY <1>o, OutcomesStay DEF Outcome
<1>d. "delivered" \in Final
  BY DEF Final
<1> HIDE DEF Reached
<1>r. ASSUME Weaker PROVE RowOK
  BY <1>r, <1>o, <1>d
<1>h. ASSUME Fewer, Kept PROVE HookOK
  BY <1>h, <1>o
<1>u. ASSUME UNCHANGED msg PROVE Weaker /\ Kept
  BY <1>u
<1>f. ASSUME UNCHANGED hook PROVE Fewer
  BY <1>f
<1>1. ASSUME NEW m \in Messages, SendSave(m) PROVE Weaker /\ Kept /\ Fewer
  <2>1. PICK status \in {"queued", "scheduled"} :
          msg' = [msg EXCEPT ![m] = [NoRow EXCEPT !.status = status]]
    BY <1>1 DEF SendSave
  <2>2. msg[m] = NoRow
    BY <1>1 DEF SendSave, UnsentInv
  <2>3. QED
    BY <1>1, <1>f, <2>1, <2>2 DEF SendSave, NoRow, TakenOn, Final
<1>2. ASSUME NEW m \in Messages, SendAdd(m) \/ SendAddFails(m)
      PROVE  UNCHANGED <<msg, hook>>
  BY <1>2 DEF SendAdd, SendAddFails
<1>3. ASSUME SendRead \/ SendClient \/ CreateRefused \/ SendSettle
      PROVE  UNCHANGED <<msg, hook>>
  BY <1>3 DEF SendRead, SendClient, CreateRefused, SendSettle, keptByWorker
<1>4. ASSUME NEW s \in Sids, NEW answered \in BOOLEAN, CreateAccepted(s, answered)
      PROVE  UNCHANGED <<msg, hook>>
  BY <1>4 DEF CreateAccepted, keptByWorker
<1>5. ASSUME MarkSent PROVE Weaker /\ Kept /\ Fewer
  <2>1. active \in Messages /\ wsid \in Sids
    BY <1>5 DEF MarkSent
  <2>2. \A m \in Messages : msg'[m] = IF m = active
                                      THEN [msg[m] EXCEPT !.status = "sent", !.sid = wsid]
                                      ELSE msg[m]
    BY <1>5, <2>1 DEF MarkSent
  <2>3. /\ msg'[active].status = "sent" /\ msg'[active].sid = wsid
        /\ msg'[active].deliveredAt = msg[active].deliveredAt
    <3>1. msg[active] \in MessageRow
      BY <2>1
    <3>2. msg'[active] = [msg[active] EXCEPT !.status = "sent", !.sid = wsid]
      BY <2>1, <2>2
    <3> HIDE <1>5 DEF TypeInv, TypeOK, OutcomeInv, ReportInv
    <3>3. QED
      BY <3>1, <3>2 DEF MessageRow
  <2>4. Weaker
    <3>1. ASSUME NEW m \in Messages, m # active PROVE msg'[m] = msg[m]
      BY <2>2, <3>1
    <3>2. QED
      BY <2>1, <2>3, <3>1 DEF Final
  <2>5. Kept
    BY <2>1, <2>2, <2>3
  <2>6. QED
    BY <1>5, <1>f, <2>4, <2>5 DEF MarkSent, keptByWorker
<1>6. ASSUME MarkFailed PROVE Weaker /\ Kept /\ Fewer
  <2>1. \A m \in Messages : msg'[m] = IF m = active
                                      THEN [msg[m] EXCEPT !.status = "failed"]
                                      ELSE msg[m]
    BY <1>6 DEF MarkFailed
  <2>2. QED
    BY <1>6, <1>f, <2>1 DEF MarkFailed, keptByWorker, MessageRow, TakenOn, Final
<1>7. ASSUME QueueStep PROVE UNCHANGED <<msg, hook>>
  BY <1>7 DEF QueueStep, SendStart, JobPromoted, JobRecovered, keptByWorker, keptByQueue
<1>8. ASSUME FaultCaught \/ FaultThrown PROVE UNCHANGED <<msg, hook>>
  BY <1>8 DEF FaultCaught, FaultThrown
<1>9. ASSUME NEW s \in Sids, TwilioAdvances(s) PROVE UNCHANGED <<msg, hook>>
  BY <1>9 DEF TwilioAdvances
<1>10. ASSUME NEW h \in Hooks, HookUpdate(h) PROVE RowOK /\ HookOK
  <2> DEFINE m == hook[h].target
             status == Mapped(hook[h].report, hook[h].seen)
  <2>1. /\ m \in Messages /\ msg[m].sid # NoSid
        /\ hook[h].report \in Final => Reached(m, hook[h].report)
        /\ hook[h].seen \in Final => Reached(m, hook[h].seen)
    BY <1>10, <1>o DEF HookUpdate
  <2>2. status \in Final => Reached(m, status)
    BY <2>1 DEF Mapped
  <2>3. msg' = [msg EXCEPT ![m].status = status,
                           ![m].deliveredAt = @ \/ hook[h].report = "delivered"]
    BY <1>10 DEF HookUpdate
  <2>4. /\ msg'[m].status = status /\ msg'[m].sid = msg[m].sid
        /\ msg'[m].deliveredAt => msg[m].deliveredAt \/ hook[h].report = "delivered"
    BY <2>1, <2>3 DEF MessageRow
  <2>5. \A n \in Messages \ {m} : msg'[n] = msg[n]
    BY <2>3
  <2>6. RowOK
    BY <2>1, <2>2, <2>4, <2>5, <1>o, <1>d
  <2>7. Kept
    BY <2>4, <2>5
  <2>8. Fewer
    BY <1>10 DEF HookUpdate
  <2>9. QED
    BY <2>6, <2>7, <2>8, <1>h
<1>11. ASSUME NEW h \in Hooks, NEW cb \in net, HookRead(h, cb) PROVE Weaker /\ HookOK
  <2>1. Weaker /\ Kept
    BY <1>11, <1>u DEF HookRead
  <2>2. CASE UNCHANGED hook
    BY <2>1, <2>2, <1>f, <1>h
  <2>3. ASSUME NEW m \in RowsWith(cb.sid),
               hook' = [hook EXCEPT ![h] = [target |-> m, seen |-> msg[m].status,
                                            report |-> cb.status]]
        PROVE  HookOK
    <3>1. m \in Messages /\ msg[m].sid = cb.sid /\ cb.sid \in Sids
      BY DEF RowsWith, Callback
    <3>2. owner[cb.sid] = m
      BY <3>1 DEF SidInv
    <3>3. cb.status \in Final => Reached(m, cb.status)
      BY <3>1, <3>2, <1>o DEF SidInv, Outcome
    <3>4. msg[m].status \in Final => Reached(m, msg[m].status)
      BY <3>1, <1>o
    <3>5. /\ msg' = msg
          /\ hook'[h] = [target |-> m, seen |-> msg[m].status, report |-> cb.status]
          /\ \A g \in Hooks \ {h} : hook'[g] = hook[g]
      BY <1>11, <2>3 DEF HookRead
    <3>6. QED
      BY <3>1, <3>3, <3>4, <3>5, <1>o
  <2>4. QED
    BY <1>11, <2>1, <2>2, <2>3 DEF HookRead
<1>12. ASSUME Crash PROVE Weaker /\ Kept /\ Fewer
  BY <1>12, <1>u DEF Crash
<1>13. ASSUME UNCHANGED vars PROVE UNCHANGED <<msg, hook>>
  BY <1>13 DEF vars
<1> HIDE DEF RowOK, HookOK, Weaker, Kept, Fewer
<1>14. RowOK /\ HookOK
  BY <1>r, <1>h, <1>u, <1>f, <1>1, <1>2, <1>3, <1>4, <1>5, <1>6, <1>7, <1>8, <1>9, <1>10,
     <1>11, <1>12, <1>13
  DEF Next, WorkerStep
<1>15. QED
  BY <1>14 DEF RowOK, HookOK, Reached, Outcome

LEMMA ReportInit == Init => ReportInv
<1> SUFFICES ASSUME Init PROVE ReportInv
  OBVIOUS
<1> USE MessageAssumption
<1>1. \A m \in Messages : msg[m] = NoRow /\ jobs[m].state = "absent"
  BY DEF Init, QueueInit, AbsentJob
<1>2. \A h \in Hooks : hook[h] = IdleHook
  BY DEF Init
<1>3. NoRow.status = "absent" /\ NoRow.sid = NoSid /\ ~NoRow.deliveredAt
  BY DEF NoRow
<1>4. UnsentInv
  BY <1>1 DEF UnsentInv
<1>5. SidInv
  BY <1>1, <1>3 DEF Init, SidInv
<1>6. OutcomeInv
  BY <1>1, <1>2, <1>3 DEF OutcomeInv, TakenOn, Final
<1>7. QED
  BY <1>4, <1>5, <1>6 DEF ReportInv

(* Rows, sids and callbacks agree on who a status belongs to. *)
THEOREM MessageReports == Spec => []ReportInv
<1>1. TypeInv /\ ReportInv /\ [Next]_vars => ReportInv'
  BY UnsentStep, SidStep, OutcomeStep DEF ReportInv
<1>2. QED
  BY <1>1, ReportInit, MessageTypes, PTL DEF Spec

(* An outcome in the inbox is Twilio's word on a sid of that very message, *)
(* however updateStatus and the worker overtake each other.                *)
THEOREM MessageOutcomeIsReported == Spec => []OutcomeIsReported
<1>1. TypeInv /\ ReportInv => OutcomeIsReported
  <2> SUFFICES ASSUME TypeInv, ReportInv, NEW m \in Messages
               PROVE  /\ msg[m].status \in Final =>
                           \E s \in SidsOf(m) : progress[s] = msg[m].status
                      /\ msg[m].deliveredAt =>
                           \E s \in SidsOf(m) : progress[s] = "delivered"
    BY DEF OutcomeIsReported, Final
  <2>1. QED
    BY DEF ReportInv, OutcomeInv, Outcome, SidsOf
<1>2. QED
  BY <1>1, MessageReports, MessageTypes, PTL

(* A message that says sent or more carries a sid Twilio assigned to it.   *)
THEOREM MessageSentIsAccepted == Spec => []SentIsAccepted
<1>1. TypeInv /\ ReportInv => SentIsAccepted
  <2> SUFFICES ASSUME TypeInv, ReportInv, NEW m \in Messages, msg[m].status \in TakenOn
               PROVE  SidsOf(m) # {} /\ msg[m].sid \in SidsOf(m)
    BY DEF SentIsAccepted, TakenOn
  <2>1. msg[m].sid \in Sids /\ owner[msg[m].sid] = m
    BY DEF TypeInv, TypeOK, MessageRow, ReportInv, OutcomeInv, SidInv
  <2>2. QED
    BY <2>1 DEF SidsOf
<1>2. QED
  BY <1>1, MessageReports, MessageTypes, PTL

-----------------------------------------------------------------------------
(* Every copy of a message is paid for.                                    *)

LEMMA SidsFinite == \A m \in Messages : IsFiniteSet(SidsOf(m))
  BY MessageAssumption, FS_Subset DEF SidsOf

LEMMA SidsCounted == \A m \in Messages : Cardinality(SidsOf(m)) \in Nat
  BY SidsFinite, FS_CardinalityType

LEMMA SidAdded ==
  ASSUME TypeInv, NEW s \in Sids, NEW answered \in BOOLEAN, CreateAccepted(s, answered)
  PROVE  \A m \in Messages :
           Cardinality(SidsOf(m)') = Cardinality(SidsOf(m)) + (IF m = active THEN 1 ELSE 0)
<1> SUFFICES ASSUME NEW m \in Messages
             PROVE  Cardinality(SidsOf(m)')
                      = Cardinality(SidsOf(m)) + (IF m = active THEN 1 ELSE 0)
  OBVIOUS
<1> USE MessageAssumption, QueueAssumption
<1>1. owner[s] = NoJob /\ owner' = [owner EXCEPT ![s] = active] /\ active \in Messages
  BY DEF CreateAccepted, TypeInv, TypeOK, QueueTypeOK, Pairing
<1>2. CASE m = active
  <2>1. SidsOf(m)' = SidsOf(m) \cup {s} /\ s \notin SidsOf(m)
    BY <1>1, <1>2 DEF SidsOf, TypeInv, TypeOK
  <2>2. QED
    BY <1>2, <2>1, SidsFinite, SidsCounted, FS_AddElement
<1>3. CASE m # active
  <2>1. SidsOf(m)' = SidsOf(m)
    BY <1>1, <1>3 DEF SidsOf, TypeInv, TypeOK
  <2>2. QED
    BY <1>3, <2>1, SidsCounted
<1>4. QED
  BY <1>2, <1>3

LEMMA SidsUnmoved ==
  ASSUME UNCHANGED owner
  PROVE  \A m \in Messages : Cardinality(SidsOf(m)') = Cardinality(SidsOf(m))
  BY DEF SidsOf

LEMMA TroubleStep == TypeInv /\ TroubleInv /\ [Next]_vars => TroubleInv'
<1> SUFFICES ASSUME TypeInv, TroubleInv, [Next]_vars, NEW m \in Messages
             PROVE  /\ Cardinality(SidsOf(m)') + (IF MayCreate(m)' THEN 1 ELSE 0)
                         <= jobs'[m].starts
                    /\ jobs'[m].failures <= faults'
                    /\ jobs'[m].stalls + (IF Orphaned(m)' THEN 1 ELSE 0) <= crashes'
  BY DEF TroubleInv
<1> DEFINE Copies == Cardinality(SidsOf(m))
           CopiesNext == Cardinality(SidsOf(m)')
           Goal == /\ CopiesNext + (IF MayCreate(m)' THEN 1 ELSE 0) <= jobs'[m].starts
                   /\ jobs'[m].failures <= faults'
                   /\ jobs'[m].stalls + (IF Orphaned(m)' THEN 1 ELSE 0) <= crashes'
<1>t. /\ Copies \in Nat /\ crashes \in Nat /\ faults \in Nat
      /\ jobs[m].starts \in Nat /\ jobs[m].failures \in Nat /\ jobs[m].stalls \in Nat
      /\ jobs \in [Messages -> JobRecord] /\ active \in Messages \cup {NoJob}
      /\ NoJob \notin Messages /\ WorkerHoldsActive
      /\ wpc = "idle" <=> active = NoJob
      /\ Copies + (IF MayCreate(m) THEN 1 ELSE 0) <= jobs[m].starts
      /\ jobs[m].failures <= faults
      /\ jobs[m].stalls + (IF Orphaned(m) THEN 1 ELSE 0) <= crashes
  BY SidsCounted, MessageAssumption, QueueAssumption
  DEF TypeInv, TypeOK, QueueTypeOK, QueueInv, Pairing, JobRecord, TroubleInv
<1>o. UNCHANGED owner => CopiesNext = Copies
  BY SidsUnmoved
<1> HIDE DEF Copies, CopiesNext
<1> USE <1>t, <1>o DEF MayCreate, Orphaned
<1>1. ASSUME UNCHANGED <<owner, jobs, active, wpc, crashes>>, faults' \in {faults, faults + 1}
      PROVE  Goal
  BY <1>1
<1>2. ASSUME NEW n \in Messages, SendSave(n) \/ SendAddFails(n) \/ SendAdd(n) PROVE Goal
  <2>1. CASE SendSave(n) \/ SendAddFails(n)
    BY <1>1, <2>1 DEF SendSave, SendAddFails, workerVars, twilioVars, boundVars, queueVars
  <2>2. CASE SendAdd(n)
    BY <2>2 DEF SendAdd, Add, JobRecord, workerVars, twilioVars, boundVars
  <2>3. QED
    BY <1>2, <2>1, <2>2
<1>3. ASSUME WorkerStep PROVE Goal
  <2> USE DEF keptByWorker, boundVars, twilioVars, queueVars
  <2>1. CASE SendRead \/ SendClient \/ CreateRefused \/ MarkSent \/ MarkFailed
    BY <2>1 DEF SendRead, SendClient, CreateRefused, MarkSent, MarkFailed
  <2>2. ASSUME NEW s \in Sids, NEW answered \in BOOLEAN, CreateAccepted(s, answered)
        PROVE  Goal
    <3>1. CopiesNext = Copies + (IF m = active THEN 1 ELSE 0)
      BY <2>2, SidAdded DEF Copies, CopiesNext
    <3>2. wpc = "create" /\ wpc' \in {"markSent", "markFailed"}
      BY <2>2 DEF CreateAccepted, AfterCreate
    <3>3. UNCHANGED <<jobs, active, crashes, faults>>
      BY <2>2 DEF CreateAccepted
    <3>4. QED
      BY <3>1, <3>2, <3>3
  <2>3. CASE SendSettle
    BY <2>3 DEF SendSettle, Finish, JobRecord
  <2>4. QED
    BY <1>3, <2>1, <2>2, <2>3 DEF WorkerStep
<1>4. ASSUME QueueStep PROVE Goal
  <2> USE DEF keptByWorker, keptByQueue, boundVars, twilioVars, workerVars
  <2>1. ASSUME NEW n \in Messages, SendStart(n) PROVE Goal
    BY <2>1 DEF SendStart, Take, JobRecord
  <2>2. ASSUME NEW n \in Messages, JobPromoted(n) PROVE Goal
    BY <2>2 DEF JobPromoted, Promote, JobRecord
  <2>3. ASSUME NEW n \in Messages, JobRecovered(n) PROVE Goal
    BY <2>3 DEF JobRecovered, RecoverStalled, JobRecord
  <2>4. QED
    BY <1>4, <2>1, <2>2, <2>3 DEF QueueStep
<1>5. ASSUME FaultCaught PROVE Goal
  BY <1>5 DEF FaultCaught, twilioVars, queueVars
<1>6. ASSUME FaultThrown PROVE Goal
  BY <1>6 DEF FaultThrown, JobThrows, Reject, JobRecord, twilioVars
<1>7. ASSUME NEW s \in Sids, TwilioAdvances(s) PROVE Goal
  BY <1>1, <1>7 DEF TwilioAdvances, workerVars, boundVars, queueVars
<1>8. ASSUME NEW h \in Hooks, HookUpdate(h) PROVE Goal
  BY <1>1, <1>8 DEF HookUpdate, workerVars, twilioVars, boundVars, queueVars
<1>9. ASSUME NEW h \in Hooks, NEW cb \in net, HookRead(h, cb) PROVE Goal
  BY <1>1, <1>9 DEF HookRead, workerVars, boundVars, queueVars
<1>10. ASSUME Crash PROVE Goal
  BY <1>10 DEF Crash, LoseWorker, twilioVars
<1>11. ASSUME UNCHANGED vars PROVE Goal
  BY <1>1, <1>11 DEF vars, boundVars, queueVars
<1> HIDE DEF Goal
<1>12. Goal
  BY <1>2, <1>3, <1>4, <1>5, <1>6, <1>7, <1>8, <1>9, <1>10, <1>11 DEF Next
<1>13. QED
  BY <1>12 DEF Goal, CopiesNext

LEMMA TroubleInit == Init => TroubleInv
<1> SUFFICES ASSUME Init, NEW m \in Messages
             PROVE  /\ Cardinality(SidsOf(m)) + (IF MayCreate(m) THEN 1 ELSE 0)
                         <= jobs[m].starts
                    /\ jobs[m].failures <= faults
                    /\ jobs[m].stalls + (IF Orphaned(m) THEN 1 ELSE 0) <= crashes
  BY DEF TroubleInv
<1> USE MessageAssumption, QueueAssumption
<1>1. SidsOf(m) = {}
  BY DEF Init, SidsOf
<1>2. Cardinality(SidsOf(m)) = 0
  BY <1>1, FS_EmptySet
<1>3. /\ jobs[m].state = "absent" /\ jobs[m].starts = 0
      /\ jobs[m].failures = 0 /\ jobs[m].stalls = 0
      /\ crashes = 0 /\ faults = 0 /\ wpc = "idle"
  BY DEF Init, QueueInit, AbsentJob
<1>4. QED
  BY <1>2, <1>3 DEF MayCreate, Orphaned

(* sendImmediate hands a message to Twilio once per start of its job, and  *)
(* only a failed statement or a crash makes the job start again.           *)
THEOREM MessageDuplicatesNeedTrouble == Spec => []DuplicatesNeedTrouble
<1>1. TypeInv /\ TroubleInv => DuplicatesNeedTrouble
  <2> SUFFICES ASSUME TypeInv, TroubleInv, NEW m \in Messages
               PROVE  Cardinality(SidsOf(m)) <= 1 + crashes + faults
    BY DEF DuplicatesNeedTrouble
  <2>1. /\ jobs[m].starts \in Nat /\ jobs[m].failures \in Nat /\ jobs[m].stalls \in Nat
        /\ Cardinality(SidsOf(m)) \in Nat /\ crashes \in Nat /\ faults \in Nat
    BY SidsCounted, MessageAssumption DEF TypeInv, TypeOK, QueueTypeOK, JobRecord
  <2>2. jobs[m].starts <= jobs[m].failures + jobs[m].stalls + 1
    BY <2>1, MessageAssumption DEF TypeInv, QueueInv, JobAccounts
  <2>3. /\ Cardinality(SidsOf(m)) <= jobs[m].starts
        /\ jobs[m].failures <= faults /\ jobs[m].stalls <= crashes
    BY <2>1 DEF TroubleInv
  <2>4. QED
    BY <2>1, <2>2, <2>3
<1>2. QED
  BY <1>1, TroubleInit, TroubleStep, MessageTypes, PTL DEF Spec
=============================================================================
