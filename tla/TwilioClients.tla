----------------------------- MODULE TwilioClients -----------------------------
(***************************************************************************)
(* The Twilio credentials of one organisation, the client TwilioService    *)
(* caches for them and the phone numbers it copies, with the requests that *)
(* touch them cut at every await.  Twilio is what accepts or refuses a     *)
(* client, and where the numbers are.                                      *)
(***************************************************************************)
EXTENDS Integers, FiniteSets

CONSTANTS Accounts,   \* accounts at Twilio
          Numbers,    \* phone numbers
          Keys,       \* values ENCRYPTION_KEY may have
          Clients,    \* requests under way at a time
          Together,   \* bound: the kinds of request that run beside others
          None,
          MaxChanges  \* bound: changes at Twilio and restarts

AllKinds == {"getClient", "saveCredentials", "testConnection", "syncPhoneNumbers"}

TwilioAssumption ==
    /\ Together \subseteq AllKinds /\ Keys # {} /\ None \notin Accounts \cup Numbers
    /\ MaxChanges \in Nat

VARIABLES
    cred,      \* the row of twilio_credentials
    client,    \* what the map "clients" holds for the organisation
    key,       \* ENCRYPTION_KEY
    request,   \* each client's request
    revoked,   \* credentials Twilio no longer takes
    owned,     \* numbers the account has at Twilio
    rows,      \* how many rows phone_numbers has of each number, up to 2
    accepted,  \* clients Twilio accepted in a testConnection
    changes

twilio == <<revoked, owned>>
history == <<accepted, changes>>
vars == <<cred, client, key, request, revoked, owned, rows, accepted, changes>>

-----------------------------------------------------------------------------

(* A value encrypted with a key; decrypting it needs the same key. *)
Sealed == [of : Accounts, with : Keys]

CredRow == [id : BOOLEAN, sid : Sealed \cup {None}, token : Sealed \cup {None},
            apiKey : Sealed \cup {None}, verified : BOOLEAN]

NoCred == [id |-> FALSE, sid |-> None, token |-> None, apiKey |-> None, verified |-> FALSE]

Method == {"token", "apiKey"}

ClientRecord == [sid : Accounts, of : Accounts, by : Method]

Idle == [kind |-> "none", pc |-> "idle"]

Dto == [of : Accounts, token : BOOLEAN, apiKey : BOOLEAN]

Request ==
    {Idle} \cup [kind : AllKinds, pc : {"start"}]
    \cup [kind : {"getClient"}, pc : {"build"}, seen : CredRow]
    \cup [kind : {"saveCredentials"}, pc : {"write"}, existing : BOOLEAN, dto : Dto]
    \cup [kind : {"testConnection"}, pc : {"build", "failed"}, seen : CredRow,
          use : ClientRecord \cup {None}]
    \cup [kind : {"testConnection"}, pc : {"fetch"}, seen : CredRow, use : ClientRecord]
    \cup [kind : {"testConnection"}, pc : {"verified"}]
    \cup [kind : {"syncPhoneNumbers"}, pc : {"find", "insert"}, left : SUBSET Numbers,
          num : Numbers \cup {None}]

TypeOK ==
    /\ cred \in CredRow
    /\ client \in ClientRecord \cup {None}
    /\ key \in Keys
    /\ request \in [Clients -> Request]
    /\ revoked \subseteq Method \X Accounts
    /\ owned \subseteq Numbers
    /\ rows \in [Numbers -> 0..2]
    /\ accepted \subseteq ClientRecord
    /\ changes \in 0..MaxChanges

Init ==
    /\ cred = NoCred /\ client = None /\ key = CHOOSE k \in Keys : TRUE
    /\ request = [c \in Clients |-> Idle]
    /\ revoked = {} /\ owned \in SUBSET Numbers
    /\ rows = [n \in Numbers |-> 0]
    /\ accepted = {} /\ changes = 0

At(c, kind, pc) == request[c].kind = kind /\ request[c].pc = pc

Becomes(c, r) == request' = [request EXCEPT ![c] = r]

Ends(c) == Becomes(c, Idle)

-----------------------------------------------------------------------------
(* The client a row makes: the API key before the auth token; None where   *)
(* decrypting or choosing a method throws.                                 *)

Opens(sealed) == sealed # None /\ sealed.with = key

AuthMethod(row) == IF row.apiKey # None THEN "apiKey" ELSE "token"

Built(row) ==
    LET secret == IF AuthMethod(row) = "apiKey" THEN row.apiKey ELSE row.token IN
    IF row.id /\ Opens(row.sid) /\ Opens(secret)
    THEN [sid |-> row.sid.of, of |-> secret.of, by |-> AuthMethod(row)]
    ELSE None

(* Twilio takes a secret of the account, unless it was revoked. *)
Takes(made) == made.sid = made.of /\ <<made.by, made.of>> \notin revoked

Arrive(c) ==
    /\ request[c] = Idle /\ c = CHOOSE d \in Clients : request[d] = Idle
    /\ \E kind \in AllKinds :
         /\ \A d \in Clients \ {c} :
              request[d] # Idle => {kind, request[d].kind} \subseteq Together
         /\ Becomes(c, [kind |-> kind, pc |-> "start"])
    /\ UNCHANGED <<cred, client, key, twilio, rows, history>>

-----------------------------------------------------------------------------
(* getClient, for whoever sends a message or makes a call.                 *)

FindCred(c) ==
    /\ At(c, "getClient", "start")
    /\ IF client # None \/ ~cred.id
       THEN Ends(c)
       ELSE Becomes(c, [kind |-> "getClient", pc |-> "build", seen |-> cred])
    /\ UNCHANGED <<cred, client, key, twilio, rows, history>>

CacheClient(c) ==
    /\ At(c, "getClient", "build")
    /\ client' = IF Built(request[c].seen) = None THEN client ELSE Built(request[c].seen)
    /\ Ends(c)
    /\ UNCHANGED <<cred, key, twilio, rows, history>>

-----------------------------------------------------------------------------
(* saveCredentials.                                                        *)

(* Mutant: the cached client is left in the map. *)
SaveForgetsCache(c) ==
    /\ At(c, "saveCredentials", "start")
    /\ \E dto \in Dto :
         /\ dto.token \/ dto.apiKey
         /\ Becomes(c, [kind |-> "saveCredentials", pc |-> "write",
                        existing |-> cred.id, dto |-> dto])
    /\ UNCHANGED <<cred, client, key, twilio, rows, history>>

SaveCredentials(c) ==
    /\ At(c, "saveCredentials", "start")
    /\ \E dto \in Dto :
         /\ dto.token \/ dto.apiKey
         /\ Becomes(c, [kind |-> "saveCredentials", pc |-> "write",
                        existing |-> cred.id, dto |-> dto])
    /\ client' = None
    /\ UNCHANGED <<cred, key, twilio, rows, history>>

(* Only the columns of what was sent are written; verified is FALSE then.  *)
(* A second row for the organisation is refused by its unique column.      *)
Data(row, dto) ==
    LET sealed == [of |-> dto.of, with |-> key] IN
    [id |-> TRUE, sid |-> sealed, verified |-> FALSE,
     token |-> IF dto.token THEN sealed ELSE row.token,
     apiKey |-> IF dto.apiKey THEN sealed ELSE row.apiKey]

StoreCredentials(c) ==
    /\ At(c, "saveCredentials", "write")
    /\ IF ~request[c].existing /\ cred.id
       THEN UNCHANGED cred
       ELSE cred' = Data(cred, request[c].dto)
    /\ Ends(c)
    /\ UNCHANGED <<client, key, twilio, rows, accepted, changes>>

-----------------------------------------------------------------------------
(* testConnection.                                                         *)

FindTested(c) ==
    /\ At(c, "testConnection", "start")
    /\ IF ~cred.id THEN Ends(c)
       ELSE Becomes(c, [kind |-> "testConnection", pc |-> IF client = None THEN "build" ELSE "fetch",
                        seen |-> cred, use |-> client])
    /\ UNCHANGED <<cred, client, key, twilio, rows, history>>

(* getClient reads the row again; what it cannot open ends in the catch. *)
BuildTested(c) ==
    /\ At(c, "testConnection", "build")
    /\ LET made == Built(cred) IN
       /\ Becomes(c, [request[c] EXCEPT !.pc = IF made = None THEN "failed" ELSE "fetch",
                                        !.use = made])
       /\ client' = IF made = None THEN client ELSE made
    /\ UNCHANGED <<cred, key, twilio, rows, history>>

(* The account of the row read first is fetched with the client. *)
FetchAccount(c) ==
    /\ At(c, "testConnection", "fetch")
    /\ LET use == request[c].use
           found == /\ Takes(use)
                    /\ Opens(request[c].seen.sid) /\ request[c].seen.sid.of = use.sid IN
       IF found
       THEN /\ Becomes(c, [kind |-> "testConnection", pc |-> "verified"])
            /\ accepted' = accepted \cup {use}
       ELSE /\ Becomes(c, [request[c] EXCEPT !.pc = "failed"])
            /\ UNCHANGED accepted
    /\ UNCHANGED <<cred, client, key, twilio, rows, changes>>

StoreVerified(c) ==
    /\ At(c, "testConnection", "verified")
    /\ cred' = [cred EXCEPT !.verified = TRUE]
    /\ Ends(c)
    /\ UNCHANGED <<client, key, twilio, rows, history>>

StoreFailed(c) ==
    /\ At(c, "testConnection", "failed")
    /\ client' = None
    /\ cred' = [cred EXCEPT !.verified = FALSE]
    /\ Ends(c)
    /\ UNCHANGED <<key, twilio, rows, history>>

-----------------------------------------------------------------------------
(* syncPhoneNumbers: find and then update or insert, number by number.     *)

Working(left) == [kind |-> "syncPhoneNumbers", pc |-> "find", left |-> left, num |-> None]

ListNumbers(c) ==
    /\ At(c, "syncPhoneNumbers", "start")
    /\ LET made == IF client # None THEN client ELSE Built(cred) IN
       /\ IF made # None /\ Takes(made) THEN Becomes(c, Working(owned)) ELSE Ends(c)
       /\ client' = made
    /\ UNCHANGED <<cred, key, twilio, rows, history>>

(* The update of a row that is there writes columns no property is about. *)
FindNumber(c) ==
    /\ At(c, "syncPhoneNumbers", "find")
    /\ \E n \in request[c].left :
         IF rows[n] > 0
         THEN Becomes(c, Working(request[c].left \ {n}))
         ELSE Becomes(c, [request[c] EXCEPT !.pc = "insert", !.num = n])
    /\ UNCHANGED <<cred, client, key, twilio, rows, history>>

InsertNumber(c) ==
    /\ At(c, "syncPhoneNumbers", "insert")
    /\ rows' = [rows EXCEPT ![request[c].num] = IF @ = 2 THEN 2 ELSE @ + 1]
    /\ Becomes(c, Working(request[c].left \ {request[c].num}))
    /\ UNCHANGED <<cred, client, key, twilio, history>>

EndSync(c) ==
    /\ At(c, "syncPhoneNumbers", "find") /\ request[c].left = {}
    /\ Ends(c)
    /\ UNCHANGED <<cred, client, key, twilio, rows, history>>

-----------------------------------------------------------------------------
(* The rest of the world.                                                  *)

Revoke ==
    /\ changes < MaxChanges /\ changes' = changes + 1
    /\ \E secret \in Method \X Accounts : revoked' = revoked \cup {secret}
    /\ UNCHANGED <<cred, client, key, request, owned, rows, accepted>>

NumbersChange ==
    /\ changes < MaxChanges /\ changes' = changes + 1
    /\ owned' \in (SUBSET Numbers) \ {owned}
    /\ UNCHANGED <<cred, client, key, request, revoked, rows, accepted>>

(* The API starts anew, perhaps with another ENCRYPTION_KEY. *)
Restart ==
    /\ changes < MaxChanges /\ changes' = changes + 1
    /\ client' = None /\ key' \in Keys
    /\ request' = [c \in Clients |-> Idle]
    /\ UNCHANGED <<cred, twilio, rows, accepted>>

(* A request ends in an error where it stands. *)
Abandon(c) ==
    /\ request[c] # Idle /\ changes < MaxChanges /\ changes' = changes + 1
    /\ Ends(c)
    /\ UNCHANGED <<cred, client, key, twilio, rows, accepted>>

Next ==
    \/ \E c \in Clients :
         \/ Arrive(c) \/ Abandon(c)
         \/ FindCred(c) \/ CacheClient(c) \/ SaveCredentials(c) \/ StoreCredentials(c)
         \/ FindTested(c) \/ BuildTested(c) \/ FetchAccount(c) \/ StoreVerified(c)
         \/ StoreFailed(c)
         \/ ListNumbers(c) \/ FindNumber(c) \/ InsertNumber(c) \/ EndSync(c)
    \/ Revoke \/ NumbersChange \/ Restart

Spec == Init /\ [][Next]_vars

-----------------------------------------------------------------------------

Quiet == \A c \in Clients : request[c] = Idle

(* While nothing is under way, the cached client is the one the row makes. *)
CacheIsCurrent == Quiet => client \in {None, Built(cred)}

(* Credentials are marked as verified when Twilio has accepted these very  *)
(* credentials, under this key.                                            *)
VerifiedWasAccepted == cred.verified /\ Built(cred) # None => Built(cred) \in accepted

(* No number has two rows, however often it is synchronised. *)
OneRowPerNumber == \A n \in Numbers : rows[n] <= 1
=============================================================================
