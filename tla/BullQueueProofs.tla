--------------------------- MODULE BullQueueProofs ---------------------------
(* What the queue's options guarantee, for any jobs and any bounds. *)
EXTENDS BullQueue, TLAPS

(* QueueInv is the inductive invariant of the queue: a job's starts are    *)
(* explained by its rejections, its stalls and the run under way, and the  *)
(* retry and stall limits close before another start.                      *)
LEMMA QueueInvInit == QueueInit => QueueInv
  BY QueueAssumption
  DEF QueueInit, QueueInv, QueueTypeOK, JobRecord, AbsentJob, Live, Settled,
      JobAccounts, Underway, WorkerHoldsActive

LEMMA QueueInvStep == QueueInv /\ [QueueNext]_queueVars => QueueInv'
<1> SUFFICES ASSUME QueueInv, [QueueNext]_queueVars PROVE QueueInv'
  OBVIOUS
<1> USE QueueAssumption
    DEF QueueInv, QueueTypeOK, JobRecord, Live, Settled, JobAccounts, Underway,
        WorkerHoldsActive
<1>1. ASSUME NEW j \in Jobs, NEW delayed \in BOOLEAN, Add(j, delayed)
      PROVE QueueInv'
  BY <1>1 DEF Add
<1>2. ASSUME NEW j \in Jobs, Promote(j) PROVE QueueInv'
  BY <1>2 DEF Promote
<1>3. ASSUME NEW j \in Jobs, Take(j) PROVE QueueInv'
  BY <1>3 DEF Take
<1>4. ASSUME NEW j \in Jobs, Finish(j) PROVE QueueInv'
  BY <1>4 DEF Finish
<1>5. ASSUME NEW j \in Jobs, Reject(j) PROVE QueueInv'
  BY <1>5 DEF Reject, AnotherAttempt
<1>6. ASSUME NEW j \in Jobs, RecoverStalled(j) PROVE QueueInv'
  BY <1>6 DEF RecoverStalled
<1>7. CASE LoseWorker
  BY <1>7 DEF LoseWorker
<1>8. CASE UNCHANGED queueVars
  BY <1>8 DEF queueVars
<1>9. QED
  BY <1>1, <1>2, <1>3, <1>4, <1>5, <1>6, <1>7, <1>8 DEF QueueNext

(* The queue keeps its books in every behaviour. *)
THEOREM QueueInvariant == QueueSpec => []QueueInv
  BY QueueInvInit, QueueInvStep, PTL DEF QueueSpec

LEMMA AccountsBoundStarts == QueueInv => StartsBounded
  BY QueueAssumption
  DEF QueueInv, QueueTypeOK, JobRecord, Live, Settled, JobAccounts, Underway,
      StartsBounded

(* A job's handler is entered at most Attempts + MaxStalled times. *)
THEOREM QueueStartsBounded == QueueSpec => []StartsBounded
  BY QueueInvariant, AccountsBoundStarts, PTL

(* A completed or failed job stays as it is: no step of the queue touches  *)
(* it again.                                                               *)
THEOREM QueueSettledIsFinal == QueueSpec => SettledIsFinal
<1> DEFINE Final == \A j \in Jobs : jobs[j].state \in Settled => jobs'[j] = jobs[j]
<1>1. ASSUME QueueInv, [QueueNext]_queueVars PROVE [Final]_queueVars
  <2> SUFFICES ASSUME NEW k \in Jobs, jobs[k].state \in Settled,
                      ~UNCHANGED queueVars
               PROVE  jobs'[k] = jobs[k]
    OBVIOUS
  <2> USE <1>1 DEF QueueInv, QueueTypeOK, Settled
  <2>1. ASSUME NEW j \in Jobs, NEW delayed \in BOOLEAN, Add(j, delayed)
        PROVE jobs'[k] = jobs[k]
    BY <2>1 DEF Add
  <2>2. ASSUME NEW j \in Jobs, Promote(j) PROVE jobs'[k] = jobs[k]
    BY <2>2 DEF Promote
  <2>3. ASSUME NEW j \in Jobs, Take(j) PROVE jobs'[k] = jobs[k]
    BY <2>3 DEF Take
  <2>4. ASSUME NEW j \in Jobs, Finish(j) \/ Reject(j) PROVE jobs'[k] = jobs[k]
    BY <2>4, QueueAssumption DEF Finish, Reject, WorkerHoldsActive
  <2>5. ASSUME NEW j \in Jobs, RecoverStalled(j) PROVE jobs'[k] = jobs[k]
    BY <2>5 DEF RecoverStalled
  <2>6. CASE LoseWorker
    BY <2>6 DEF LoseWorker
  <2>7. QED
    BY <2>1, <2>2, <2>3, <2>4, <2>5, <2>6 DEF QueueNext
<1>2. QED
  BY <1>1, QueueInvariant, PTL DEF QueueSpec, SettledIsFinal
=============================================================================
