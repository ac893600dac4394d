------------------------------ MODULE BullQueue ------------------------------
(***************************************************************************)
(* The life of a job on one of the API's Redis queues, as src/apps/api     *)
(* uses the `bull` package: BullModule.forRootAsync gives every job the    *)
(* options of app.module.ts (three attempts, exponential backoff) and each *)
(* queue has one @Process handler, so the process works on one job at a    *)
(* time.  Redis outlives the API process; the job being worked on does not *)
(* survive a crash, and Bull's stalled-job check hands it out again.       *)
(*                                                                         *)
(* The module is the abstract contract of a queue.  Modules of the         *)
(* components that own a queue EXTEND it, conjoin its operations to their  *)
(* own steps, and are checked to implement QueueSpec.                      *)
(***************************************************************************)
EXTENDS Naturals, FiniteSets

CONSTANTS Jobs,        \* identities a job can have
          Attempts,    \* defaultJobOptions.attempts
          MaxStalled,  \* Bull's settings.maxStalledCount (library default 1)
          NoJob        \* "the worker is idle"

ASSUME QueueAssumption ==
    /\ Attempts \in Nat \ {0}
    /\ MaxStalled \in Nat
    /\ NoJob \notin Jobs

VARIABLES jobs,    \* what Redis knows of every job
          active   \* the job this process is working on, or NoJob

queueVars == <<jobs, active>>

Live    == {"waiting", "delayed", "active"}
Settled == {"completed", "failed"}

JobRecord == [state    : {"absent"} \cup Live \cup Settled,
              failures : Nat,     \* handler promises that rejected
              stalls   : Nat,     \* times it was found without a worker
              starts   : Nat]     \* times a worker picked it up

QueueTypeOK ==
    /\ jobs \in [Jobs -> JobRecord]
    /\ active \in Jobs \cup {NoJob}

AbsentJob == [state |-> "absent", failures |-> 0, stalls |-> 0, starts |-> 0]

QueueInit ==
    /\ jobs = [j \in Jobs |-> AbsentJob]
    /\ active = NoJob

-----------------------------------------------------------------------------

(* queue.add(name, data, { delay }): with a positive delay the job is parked. *)
Add(j, delayed) ==
    /\ jobs[j].state = "absent"
    /\ jobs' = [jobs EXCEPT ![j].state = IF delayed THEN "delayed" ELSE "waiting"]
    /\ UNCHANGED active

(* Mutant: failed jobs are retried once more when the backoff has passed. *)
PromoteFailed(j) ==
    /\ jobs[j].state \in {"delayed", "failed"}
    /\ jobs' = [jobs EXCEPT ![j].state = "waiting"]
    /\ UNCHANGED active

(* The delay or the backoff of a parked job is over. *)
Promote(j) ==
    /\ jobs[j].state = "delayed"
    /\ jobs' = [jobs EXCEPT ![j].state = "waiting"]
    /\ UNCHANGED active

(* The worker is free and picks a waiting job. *)
Take(j) ==
    /\ active = NoJob
    /\ jobs[j].state = "waiting"
    /\ jobs' = [jobs EXCEPT ![j].state = "active", ![j].starts = @ + 1]
    /\ active' = j

(* The handler's promise resolved. *)
Finish(j) ==
    /\ active = j
    /\ jobs' = [jobs EXCEPT ![j].state = "completed"]
    /\ active' = NoJob

(* Mutant: `attempts` taken for the number of retries. *)
AnotherRetry(failures) == failures < Attempts

AnotherAttempt(failures) == failures + 1 < Attempts

(* The handler's promise rejected: retry after the backoff, or give up. *)
Reject(j) ==
    /\ active = j
    /\ jobs' = [jobs EXCEPT
                  ![j].failures = @ + 1,
                  ![j].state = IF AnotherAttempt(jobs[j].failures)
                               THEN "delayed" ELSE "failed"]
    /\ active' = NoJob

(* The API process dies and is started again; Redis keeps what it had. *)
LoseWorker ==
    /\ active' = NoJob
    /\ UNCHANGED jobs

(* The stalled check finds an active job whose lock nobody renews. *)
RecoverStalled(j) ==
    /\ jobs[j].state = "active"
    /\ active # j
    /\ jobs' = [jobs EXCEPT
                  ![j].stalls = @ + 1,
                  ![j].state = IF jobs[j].stalls + 1 > MaxStalled
                               THEN "failed" ELSE "waiting"]
    /\ UNCHANGED active

QueueNext ==
    \/ \E j \in Jobs :
         \/ \E delayed \in BOOLEAN : Add(j, delayed)
         \/ Promote(j)
         \/ Take(j)
         \/ Finish(j)
         \/ Reject(j)
         \/ RecoverStalled(j)
    \/ LoseWorker

QueueSpec == QueueInit /\ [][QueueNext]_queueVars

-----------------------------------------------------------------------------

(* A run of a job is under way or has gone through to the end. *)
Underway(j) == jobs[j].state \in {"active", "completed"}

(* Every start of a job is accounted for: by a rejection, by a stall or by *)
(* the run that is under way or went through; and retries stop in time.    *)
JobAccounts(j) ==
    /\ jobs[j].starts = jobs[j].failures + jobs[j].stalls
                        + (IF Underway(j) THEN 1 ELSE 0)
    /\ jobs[j].failures <= Attempts
    /\ jobs[j].stalls <= MaxStalled + 1
    /\ jobs[j].state # "failed" => /\ jobs[j].failures < Attempts
                                   /\ jobs[j].stalls <= MaxStalled
    /\ jobs[j].state = "failed" => jobs[j].failures + jobs[j].stalls
                                     <= Attempts + MaxStalled
    /\ jobs[j].state = "absent" => jobs[j].starts = 0

(* The worker only holds a job Redis calls active. *)
WorkerHoldsActive == active # NoJob => jobs[active].state = "active"

QueueInv == /\ QueueTypeOK
            /\ \A j \in Jobs : JobAccounts(j)
            /\ WorkerHoldsActive

(* The options of app.module.ts bound what a job can do: whatever the      *)
(* order of rejections, crashes and stalls, its handler is entered at most *)
(* Attempts + MaxStalled times.                                            *)
StartsBounded == \A j \in Jobs : jobs[j].starts <= Attempts + MaxStalled

(* A settled job never runs again: no retry follows completion or the last *)
(* failure, so a campaign or a message is not sent again by an old job.    *)
SettledIsFinal ==
    [][\A j \in Jobs : jobs[j].state \in Settled => jobs'[j] = jobs[j]]_queueVars
=============================================================================
