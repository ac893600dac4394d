------------------------------- MODULE Backups --------------------------------
(***************************************************************************)
(* BackupService: the files in /app/backups, the nightly schedule and the  *)
(* requests of the administrator.  The container `backup` of the compose   *)
(* file has neither a crontab nor the script it mounts, and does nothing.  *)
(***************************************************************************)
EXTENDS Integers, FiniteSets

CONSTANTS Files,      \* names of backups
          None,
          HasPgDump,  \* whether the image of the API has pg_dump
          MaxNights, MaxFails, MaxCrashes  \* bounds

BackupAssumption ==
    /\ None \notin Files /\ HasPgDump \in BOOLEAN
    /\ {MaxNights, MaxFails, MaxCrashes} \subseteq Nat

VARIABLES
    file,     \* what each file holds
    process,  \* of the API
    due,      \* the schedule's timer has gone off
    dump,     \* the file the process waits for, in execSync
    reported, \* history: files a log line or an answer said were created
    nights, fails, crashes

vars == <<file, process, due, dump, reported, nights, fails, crashes>>

TypeOK ==
    /\ file \in [Files -> {"absent", "partial", "whole"}]
    /\ process \in {"up", "down"} /\ due \in BOOLEAN
    /\ dump \in Files \cup {None} /\ (dump # None => process = "up")
    /\ reported \subseteq Files
    /\ nights \in 0..MaxNights /\ fails \in 0..MaxFails /\ crashes \in 0..MaxCrashes

Init ==
    /\ file = [f \in Files |-> "absent"]
    /\ process = "up" /\ due = FALSE /\ dump = None /\ reported = {}
    /\ nights = 0 /\ fails = 0 /\ crashes = 0

(* listBackups *)
Listed == {f \in Files : file[f] # "absent"}

-----------------------------------------------------------------------------

(* Two at night; a process that is down then misses it. *)
Night ==
    /\ nights < MaxNights
    /\ nights' = nights + 1
    /\ due' = (process = "up")
    /\ UNCHANGED <<file, process, dump, reported, fails, crashes>>

(* The shell opens the file first.  Nothing else runs in the process until it ends. *)
CreateBackup(f) ==
    /\ process = "up" /\ dump = None /\ f \notin Listed
    /\ dump' = f
    /\ file' = [file EXCEPT ![f] = "partial"]
    /\ UNCHANGED <<process, reported, nights, fails, crashes>>

ScheduledBackup(f) == due /\ due' = FALSE /\ CreateBackup(f)

RequestedBackup(f) == UNCHANGED due /\ CreateBackup(f)

(* Mutant: what the directory holds. *)
ReportListed == reported' = reported \cup Listed

Report == reported' = reported \cup {dump}

Dumped ==
    /\ dump # None /\ HasPgDump
    /\ file' = [file EXCEPT ![dump] = "whole"]
    /\ dump' = None /\ Report
    /\ UNCHANGED <<process, due, nights, fails, crashes>>

(* pg_dump is missing, or fails: the status of the pipe is that of gzip. *)
DumpFails ==
    /\ dump # None
    /\ IF HasPgDump THEN fails < MaxFails /\ fails' = fails + 1 ELSE UNCHANGED fails
    /\ dump' = None /\ Report
    /\ UNCHANGED <<file, process, due, nights, crashes>>

(* gzip cannot write: execSync throws, and the file stays. *)
WriteFails ==
    /\ dump # None /\ fails < MaxFails
    /\ fails' = fails + 1
    /\ dump' = None
    /\ UNCHANGED <<file, process, due, reported, nights, crashes>>

Crash ==
    /\ process = "up" /\ crashes < MaxCrashes
    /\ process' = "down" /\ crashes' = crashes + 1
    /\ due' = FALSE /\ dump' = None
    /\ UNCHANGED <<file, reported, nights, fails>>

Restart ==
    /\ process = "down"
    /\ process' = "up"
    /\ UNCHANGED <<file, due, dump, reported, nights, fails, crashes>>

DeleteBackup(f) ==
    /\ process = "up" /\ dump = None /\ f \in Listed
    /\ file' = [file EXCEPT ![f] = "absent"]
    /\ reported' = reported \ {f}
    /\ UNCHANGED <<process, due, dump, nights, fails, crashes>>

Next ==
    \/ Night \/ Dumped \/ DumpFails \/ WriteFails \/ Crash \/ Restart
    \/ \E f \in Files : ScheduledBackup(f) \/ RequestedBackup(f) \/ DeleteBackup(f)

Spec == Init /\ [][Next]_vars

-----------------------------------------------------------------------------
(* Properties.                                                             *)

(* Each file that was left unfinished is paid for by a crash or a failure. *)
BadNeedsTrouble ==
    Cardinality({f \in Files \ {dump} : file[f] = "partial"}) <= crashes + fails

(* A file of a process that was stopped in between is listed, but nobody   *)
(* was told that it was made: of those reported, only one whose dump failed *)
(* is not whole.                                                           *)
ReportedIsWhole == Cardinality({f \in reported : file[f] # "whole"}) <= fails
=============================================================================
