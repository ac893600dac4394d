------------------------------- MODULE Accounts --------------------------------
(***************************************************************************)
(* Organisations and the accounts in them: the first-run setup, the        *)
(* portals of dealers and of the super admin, registration and             *)
(* invitation.  A request is cut at every await of the database or of      *)
(* Twilio; a statement may fail, and the API may restart, between any two. *)
(***************************************************************************)
EXTENDS Integers, FiniteSets

CONSTANTS Orgs,     \* ids of table organizations
          Users,    \* ids of table users
          Dealers,  \* rows of table dealers: no route adds one
          Slugs,
          Emails,   \* in lower case, as every handler writes them
          None,
          Clients,  \* requests under way at a time
          Together, \* bound: the kinds of request that run beside others
          MaxOrganizations,
          MaxFaults \* bound: statements that fail, and restarts

AllKinds == {"runSetup", "register", "invite", "createOrganization", "suspendOrganization",
             "toggleOrganization", "updateOrganization"}

AccountsAssumption ==
    /\ Together \subseteq AllKinds /\ MaxOrganizations \in Nat /\ MaxFaults \in Nat
    /\ None \notin Orgs \cup Dealers /\ IsFiniteSet(Orgs)

VARIABLES
    org,        \* the rows of organizations
    user,       \* the rows of users
    completed,  \* whether system_config has its setup_completed
    request,    \* each client's request
    faults

vars == <<org, user, completed, request, faults>>

-----------------------------------------------------------------------------

\* "agent" stands for manager too: nothing here tells them apart
Roles == {"super_admin", "org_owner", "agent"}

OrgRow == [state : {"absent", "live"}, slug : Slugs \cup {None}, dealer : Dealers \cup {None},
           owner : Users \cup {None}, active : BOOLEAN, suspended : BOOLEAN]

NoOrg == [state |-> "absent", slug |-> None, dealer |-> None, owner |-> None,
          active |-> FALSE, suspended |-> FALSE]

NewOrg(slug, dealer) ==
    [state |-> "live", slug |-> slug, dealer |-> dealer, owner |-> None,
     active |-> TRUE, suspended |-> FALSE]

UserRow == [state : {"absent", "live"}, email : Emails \cup {None}, role : Roles \cup {None},
            org : Orgs \cup {None}]

NoUser == [state |-> "absent", email |-> None, role |-> None, org |-> None]

NewUser(email, role, o) == [state |-> "live", email |-> email, role |-> role, org |-> o]

LiveOrgs == {o \in Orgs : org[o].state = "live"}

LiveUsers == {u \in Users : user[u].state = "live"}

Idle == [kind |-> "none", pc |-> "idle"]

Request ==
    {Idle} \cup [kind : AllKinds, pc : {"start"}]
    \cup [kind : {"runSetup"}, pc : {"org", "credentials", "mark"}]
    \cup [kind : {"runSetup"}, pc : {"admin"}, org : Orgs]
    \cup [kind : {"runSetup"}, pc : {"owner"}, org : Orgs, admin : Users]
    \cup [kind : {"register", "invite"}, pc : {"save"}, row : UserRow]
    \cup [kind : {"createOrganization"}, pc : {"count"}, dealer : Dealers \cup {None},
          max : Nat]
    \cup [kind : {"createOrganization"}, pc : {"save"}, dealer : Dealers \cup {None}]

TypeOK ==
    /\ org \in [Orgs -> OrgRow] /\ user \in [Users -> UserRow]
    /\ completed \in BOOLEAN
    /\ request \in [Clients -> Request]
    /\ faults \in 0..MaxFaults

Init ==
    /\ org = [o \in Orgs |-> NoOrg] /\ user = [u \in Users |-> NoUser]
    /\ completed = FALSE
    /\ request = [c \in Clients |-> Idle]
    /\ faults = 0

At(c, kind, pc) == request[c].kind = kind /\ request[c].pc = pc

Becomes(c, r) == request' = [request EXCEPT ![c] = r]

Ends(c) == Becomes(c, Idle)

(* INSERT INTO organizations: slug is UNIQUE. *)
InsertOrg(o, row) ==
    /\ org[o] = NoOrg /\ o = CHOOSE p \in Orgs : org[p] = NoOrg
    /\ \A p \in LiveOrgs : org[p].slug # row.slug
    /\ org' = [org EXCEPT ![o] = row]

(* Mutant: no index on the address. *)
InsertAnyUser(u, row) ==
    /\ user[u] = NoUser /\ u = CHOOSE v \in Users : user[v] = NoUser
    /\ user' = [user EXCEPT ![u] = row]

(* INSERT INTO users: email is UNIQUE. *)
InsertUser(u, row) ==
    /\ user[u] = NoUser /\ u = CHOOSE v \in Users : user[v] = NoUser
    /\ \A v \in LiveUsers : user[v].email # row.email
    /\ user' = [user EXCEPT ![u] = row]

Arrive(c) ==
    /\ request[c] = Idle /\ c = CHOOSE d \in Clients : request[d] = Idle
    /\ \E kind \in AllKinds :
         /\ \A d \in Clients \ {c} :
              request[d] # Idle => {kind, request[d].kind} \subseteq Together
         /\ Becomes(c, [kind |-> kind, pc |-> "start"])
    /\ UNCHANGED <<org, user, completed, faults>>

-----------------------------------------------------------------------------
(* runSetup, statement by statement.                                       *)

(* What was sent is chosen where it is first looked at. *)
CheckSetup(c) ==
    /\ At(c, "runSetup", "start")
    /\ IF completed THEN Ends(c) ELSE Becomes(c, [kind |-> "runSetup", pc |-> "org"])
    /\ UNCHANGED <<org, user, completed, faults>>

SaveSetupOrg(c) ==
    /\ At(c, "runSetup", "org")
    /\ \E o \in Orgs, slug \in Slugs :
         /\ InsertOrg(o, NewOrg(slug, None))
         /\ Becomes(c, [kind |-> "runSetup", pc |-> "admin", org |-> o])
    /\ UNCHANGED <<user, completed, faults>>

SaveAdmin(c) ==
    /\ At(c, "runSetup", "admin")
    /\ \E u \in Users, email \in Emails :
         /\ InsertUser(u, NewUser(email, "super_admin", request[c].org))
         /\ Becomes(c, [kind |-> "runSetup", pc |-> "owner", org |-> request[c].org,
                        admin |-> u])
    /\ UNCHANGED <<org, completed, faults>>

AfterOwner(twilio) == [kind |-> "runSetup", pc |-> IF twilio THEN "credentials" ELSE "mark"]

UpdateOwner(c) ==
    /\ At(c, "runSetup", "owner")
    /\ org' = [org EXCEPT ![request[c].org].owner = request[c].admin]
    /\ \E twilio \in BOOLEAN : Becomes(c, AfterOwner(twilio))
    /\ UNCHANGED <<user, completed, faults>>

(* The credentials are saved outside the try; the test of them, within it, *)
(* changes nothing here whatever it finds.                                 *)
SaveSetupCredentials(c) ==
    /\ At(c, "runSetup", "credentials")
    /\ Becomes(c, [request[c] EXCEPT !.pc = "mark"])
    /\ UNCHANGED <<org, user, completed, faults>>

(* saveCredentials throws: its row or its key of encryption does not do. *)
SetupCredentialsFail(c) ==
    /\ At(c, "runSetup", "credentials")
    /\ Ends(c)
    /\ UNCHANGED <<org, user, completed, faults>>

(* INSERT of a key that is UNIQUE. *)
MarkComplete(c) ==
    /\ At(c, "runSetup", "mark")
    /\ ~completed
    /\ completed' = TRUE
    /\ Ends(c)
    /\ UNCHANGED <<org, user, faults>>

-----------------------------------------------------------------------------
(* Accounts.                                                               *)

(* Registration asks for no organisation, and no route puts an account     *)
(* into one later; an invitation is into the inviter's.                    *)
FindEmail(c, kind) ==
    /\ At(c, kind, "start")
    /\ \E email \in Emails, role \in Roles, by \in LiveUsers \cup {None} :
         /\ IF kind = "register"
            THEN role = "org_owner" /\ by = None
            ELSE by # None /\ user[by].role \in {"org_owner", "super_admin"}
         /\ IF \E u \in LiveUsers : user[u].email = email
            THEN Ends(c)
            ELSE Becomes(c, [kind |-> kind, pc |-> "save",
                             row |-> NewUser(email, role, IF by = None THEN None ELSE user[by].org)])
    /\ UNCHANGED <<org, user, completed, faults>>

SaveUser(c) ==
    /\ request[c].kind \in {"register", "invite"} /\ request[c].pc = "save"
    /\ \E u \in Users : InsertUser(u, request[c].row)
    /\ Ends(c)
    /\ UNCHANGED <<org, completed, faults>>

-----------------------------------------------------------------------------
(* Organisations of a dealer, and of the super admin, who has no dealer: a *)
(* condition on a null column is no condition.                             *)

Matches(dealer, o) == dealer = None \/ org[o].dealer = dealer

FindDealer(c) ==
    /\ At(c, "createOrganization", "start")
    /\ IF Dealers = {} THEN Ends(c)
       ELSE \E dealer \in Dealers \cup {None} :
              Becomes(c, [kind |-> "createOrganization", pc |-> "count", dealer |-> dealer,
                          max |-> MaxOrganizations])
    /\ UNCHANGED <<org, user, completed, faults>>

CountOrganizations(c) ==
    /\ At(c, "createOrganization", "count")
    /\ IF Cardinality({o \in LiveOrgs : Matches(request[c].dealer, o)}) >= request[c].max
       THEN Ends(c)
       ELSE Becomes(c, [kind |-> "createOrganization", pc |-> "save", dealer |-> request[c].dealer])
    /\ UNCHANGED <<org, user, completed, faults>>

SaveOrganization(c) ==
    /\ At(c, "createOrganization", "save")
    /\ \E o \in Orgs, slug \in Slugs : InsertOrg(o, NewOrg(slug, request[c].dealer))
    /\ Ends(c)
    /\ UNCHANGED <<user, completed, faults>>

SuspendOrganization(c) ==
    /\ At(c, "suspendOrganization", "start")
    /\ \E o \in LiveOrgs, dealer \in Dealers \cup {None} :
         /\ Matches(dealer, o)
         /\ org' = [org EXCEPT ![o].suspended = TRUE]
    /\ Ends(c)
    /\ UNCHANGED <<user, completed, faults>>

(* The dealer's and the admin's switch are one statement. *)
ToggleOrganization(c) ==
    /\ At(c, "toggleOrganization", "start")
    /\ \E o \in LiveOrgs, dealer \in Dealers \cup {None}, isActive \in BOOLEAN :
         /\ Matches(dealer, o)
         /\ org' = [org EXCEPT ![o].active = isActive]
    /\ Ends(c)
    /\ UNCHANGED <<user, completed, faults>>

(* organizations.update takes any column of the row, for its members. *)
UpdateOrganization(c) ==
    /\ At(c, "updateOrganization", "start")
    /\ \E u \in LiveUsers, slug \in Slugs :
         /\ user[u].org # None /\ user[u].role \in {"org_owner", "super_admin"}
         /\ \A p \in LiveOrgs \ {user[u].org} : org[p].slug # slug
         /\ org' = [org EXCEPT ![user[u].org].slug = slug]
    /\ Ends(c)
    /\ UNCHANGED <<user, completed, faults>>

-----------------------------------------------------------------------------

(* A statement fails, as one that meets a UNIQUE index does, or the API    *)
(* restarts: nothing of what was written is undone.                        *)
Abandon(c) ==
    /\ request[c] # Idle
    /\ faults < MaxFaults
    /\ faults' = faults + 1
    /\ Ends(c)
    /\ UNCHANGED <<org, user, completed>>

(* The caller may not, or the row he names is none of his. *)
Refused(c) ==
    /\ request[c].kind # "runSetup" /\ request[c].pc = "start"
    /\ Ends(c)
    /\ UNCHANGED <<org, user, completed, faults>>

(* A UNIQUE index refuses the row: the request ends there. *)
Conflict(c) ==
    /\ \/ At(c, "runSetup", "org") /\ LiveOrgs # {}
       \/ At(c, "runSetup", "admin") /\ LiveUsers # {}
       \/ At(c, "runSetup", "mark") /\ completed
       \/ /\ request[c].kind \in {"register", "invite"} /\ request[c].pc = "save"
          /\ \E u \in LiveUsers : user[u].email = request[c].row.email
       \/ At(c, "createOrganization", "save") /\ LiveOrgs # {}
    /\ Ends(c)
    /\ UNCHANGED <<org, user, completed, faults>>

Next ==
    \E c \in Clients :
        \/ Arrive(c) \/ Abandon(c) \/ Refused(c) \/ Conflict(c)
        \/ CheckSetup(c) \/ SaveSetupOrg(c) \/ SaveAdmin(c) \/ UpdateOwner(c)
        \/ SaveSetupCredentials(c) \/ SetupCredentialsFail(c) \/ MarkComplete(c)
        \/ FindEmail(c, "register") \/ FindEmail(c, "invite") \/ SaveUser(c)
        \/ FindDealer(c) \/ CountOrganizations(c) \/ SaveOrganization(c)
        \/ SuspendOrganization(c) \/ ToggleOrganization(c) \/ UpdateOrganization(c)

Spec == Init /\ [][Next]_vars

-----------------------------------------------------------------------------

Admins == {u \in LiveUsers : user[u].role = "super_admin"}

(* Two registrations, invitations or setups at once never give one address *)
(* two accounts.                                                           *)
OneAccountPerEmail ==
    \A u, v \in LiveUsers : user[u].email = user[v].email => u = v

(* Once the setup has said so, there is an administrator in an             *)
(* organisation that is his.                                               *)
CompletedIsUsable ==
    completed => \E u \in Admins : user[u].org # None /\ org[user[u].org].owner = u

(* A dealer has at most the organisations he may have. *)
QuotaHolds ==
    \A d \in Dealers : Cardinality({o \in LiveOrgs : org[o].dealer = d}) <= MaxOrganizations
=============================================================================
