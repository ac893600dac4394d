-------------------------- MODULE MCAdministration --------------------------
(***************************************************************************)
(* Sessions, accounts, Twilio credentials, backups and the start of the    *)
(* API in one instance for TLC.  They share no variable; part says which   *)
(* of them a behaviour runs.  Boot is extended and not instantiated, which *)
(* lets TLC evaluate what the modules see of each other only once.         *)
(***************************************************************************)
EXTENDS Boot

CONSTANTS Parts,   \* the parts to run
          Clients, \* requests under way at a time
          AuthTogether, Passwords, NoToken, NoSecret, MaxSecond, MaxSecret,
          PortalTogether, Orgs, Users, Dealers, Slugs, Emails, None, MaxOrganizations,
          MaxPortalFaults,
          KeyTogether, Accounts, Numbers, Keys, MaxChanges,
          Files, HasPgDump, MaxNights, MaxFails, MaxCrashes

VARIABLES part

VARIABLES user, request, now, secrets, told

Auth == INSTANCE AuthSession WITH Together <- AuthTogether

authVars == <<user, request, now, secrets, told>>

VARIABLES org, account, completed, accountRequest, accountFaults

Portal == INSTANCE Accounts WITH
    Together <- PortalTogether, MaxFaults <- MaxPortalFaults,
    user <- account, request <- accountRequest, faults <- accountFaults

portalVars == <<org, account, completed, accountRequest, accountFaults>>

VARIABLES cred, client, key, keyRequest, revoked, owned, rows, accepted, changes

Credentials == INSTANCE TwilioClients WITH Together <- KeyTogether, request <- keyRequest

credentialVars == <<cred, client, key, keyRequest, revoked, owned, rows, accepted, changes>>

VARIABLES file, process, due, dump, reported, nights, fails, crashes

Disk == INSTANCE Backups

diskVars == <<file, process, due, dump, reported, nights, fails, crashes>>

(* The modules of the API as they are written: Nest and its ConfigModule   *)
(* share these with every module, and nothing else is shared.              *)
AsWritten  == {"ConfigService", "Reflector"}
Everything == DOMAIN Modules

allVars == <<part, authVars, portalVars, credentialVars, diskVars, vars>>

ASSUME AdministrationAssumption ==
    /\ Auth!AuthAssumption /\ Portal!AccountsAssumption /\ Credentials!TwilioAssumption
    /\ Disk!BackupAssumption
    /\ Parts \subseteq {"auth", "portal", "credentials", "disk", "start"}

-----------------------------------------------------------------------------

AllInit ==
    /\ part \in Parts
    /\ Auth!Init /\ Portal!Init /\ Credentials!Init /\ Disk!Init /\ Init
    /\ part = "credentials" \/ owned = {}
    /\ part = "auth" \/ user.password = CHOOSE p \in Passwords : TRUE

AllNext ==
    /\ UNCHANGED part
    /\ IF part = "auth" THEN Auth!Next ELSE UNCHANGED authVars
    /\ IF part = "portal" THEN Portal!Next ELSE UNCHANGED portalVars
    /\ IF part = "credentials" THEN Credentials!Next ELSE UNCHANGED credentialVars
    /\ IF part = "disk" THEN Disk!Next ELSE UNCHANGED diskVars
    /\ IF part = "start" THEN Next ELSE UNCHANGED vars

AllSpec == AllInit /\ [][AllNext]_allVars

-----------------------------------------------------------------------------

(* The variables of the part that runs keep their types. *)
AllTypeOK ==
    CASE part = "auth"        -> Auth!TypeOK
      [] part = "portal"      -> Portal!TypeOK
      [] part = "credentials" -> Credentials!TypeOK
      [] part = "disk"        -> Disk!TypeOK
      [] part = "start"       -> TypeOK

(* The requests about an account implement the session it is promised.     *)
SessionImplemented == Auth!SessionImplemented

(* Answers about an account are taken back by nothing but the profile that *)
(* was loaded before (AuthSession: OnlyStaleProfilesTakeBack).             *)
AnswersHold == Auth!OnlyStaleProfilesTakeBack

(* An address has one account, a setup that is complete is usable, a       *)
(* dealer's quota holds (Accounts), and a code can be made by whoever is   *)
(* asked for one (AuthSession: TwoFactorHasSecret).                        *)
AccountsAreUsable ==
    /\ part = "portal" => Portal!OneAccountPerEmail /\ Portal!CompletedIsUsable /\ Portal!QuotaHolds
    /\ part = "auth" => Auth!TwoFactorHasSecret

(* The cached client is the row's, verified credentials were accepted, and *)
(* no number is on file twice (TwilioClients).                             *)
ClientsAreCurrent ==
    part = "credentials" => /\ Credentials!CacheIsCurrent
                            /\ Credentials!VerifiedWasAccepted
                            /\ Credentials!OneRowPerNumber

(* A backup that was reported is whole, and one that is not was paid for   *)
(* by a crash or a failure (Backups: ReportedIsWhole, BadNeedsTrouble).    *)
BackupsAreWhole == part = "disk" => Disk!ReportedIsWhole /\ Disk!BadNeedsTrouble
=============================================================================
