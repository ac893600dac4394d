------------------------------- MODULE Contacts --------------------------------
(***************************************************************************)
(* The contacts of one organisation and the messages that come in from     *)
(* their numbers: ContactsService, and MessagesService.handleIncoming with *)
(* the event it emits and the webhook event it dispatches.  A request is   *)
(* cut at every await.                                                     *)
(***************************************************************************)
EXTENDS Integers, FiniteSets, Sequences

CONSTANTS Contacts,  \* ids of table contacts
          Messages,  \* ids of table messages
          Phones,
          Details,   \* what the other columns of a contact may hold
          None,
          Clients,   \* requests under way at a time
          Together,  \* bound: the kinds of request that run beside others
          MaxRows    \* bound: rows of an imported file

AllKinds == {"create", "update", "remove", "bulkDelete", "importCsv", "optOut",
             "incoming", "markRead"}

ContactAssumption ==
    /\ Together \subseteq AllKinds /\ MaxRows \in Nat
    /\ None \notin Contacts

VARIABLES
    contact,  \* the rows of contacts
    message,  \* the rows of messages that came in
    request,  \* each client's request
    deleted   \* history: contacts an answer said were deleted

vars == <<contact, message, request, deleted>>

-----------------------------------------------------------------------------

ContactRow == [state : {"absent", "live"}, phone : Phones \cup {None},
               details : Details \cup {None}, optedOut : BOOLEAN]

NoContact == [state |-> "absent", phone |-> None, details |-> None, optedOut |-> FALSE]

MessageRow == [state : {"absent", "stored", "emitted", "dispatched"}, from : Phones \cup {None},
               contact : Contacts \cup {None}, isRead : BOOLEAN]

NoMessage == [state |-> "absent", from |-> None, contact |-> None, isRead |-> FALSE]

Idle == [kind |-> "none", pc |-> "idle"]

CsvRow == [phone : Phones, details : Details]

Csv == UNION {[1..n -> CsvRow] : n \in 0..MaxRows}

Request ==
    {Idle} \cup [kind : AllKinds, pc : {"start"}]
    \cup [kind : {"update"}, pc : {"save"}, id : Contacts, seen : ContactRow]
    \cup [kind : {"remove"}, pc : {"delete"}, id : Contacts]
    \cup [kind : {"optOut"}, pc : {"mark"}, id : Contacts, phone : Phones]
    \cup [kind : {"importCsv"}, pc : {"find"}, rows : Csv]
    \cup [kind : {"importCsv"}, pc : {"write"}, rows : Csv, id : Contacts \cup {None}]
    \cup [kind : {"incoming"}, pc : {"save"}, from : Phones, id : Contacts \cup {None}]
    \cup [kind : {"incoming"}, pc : {"dispatch"}, message : Messages]

TypeOK ==
    /\ contact \in [Contacts -> ContactRow]
    /\ message \in [Messages -> MessageRow]
    /\ request \in [Clients -> Request]
    /\ deleted \subseteq Contacts

Init ==
    /\ contact = [i \in Contacts |-> NoContact]
    /\ message = [m \in Messages |-> NoMessage]
    /\ request = [c \in Clients |-> Idle]
    /\ deleted = {}

At(c, kind, pc) == request[c].kind = kind /\ request[c].pc = pc

Becomes(c, r) == request' = [request EXCEPT ![c] = r]

Ends(c) == Becomes(c, Idle)

Live == {i \in Contacts : contact[i].state = "live"}

(* findOne({organizationId, phone}): any row of the phone, if there is one. *)
Found(phone) ==
    LET rows == {i \in Live : contact[i].phone = phone} IN IF rows = {} THEN {None} ELSE rows

Row(phone, details) ==
    [state |-> "live", phone |-> phone, details |-> details, optedOut |-> FALSE]

(* save of a new entity: an id that was never used. *)
Fresh == {i \in Contacts \ (Live \cup deleted) :
            \A c \in Clients : "id" \in DOMAIN request[c] => request[c].id # i}

Inserted(row) == Fresh # {} /\ contact' = [contact EXCEPT ![CHOOSE i \in Fresh : TRUE] = row]

Arrive(c) ==
    /\ request[c] = Idle /\ c = CHOOSE d \in Clients : request[d] = Idle
    /\ \E kind \in AllKinds :
         /\ \A d \in Clients \ {c} :
              request[d] # Idle => {kind, request[d].kind} \subseteq Together
         /\ Becomes(c, [kind |-> kind, pc |-> "start"])
    /\ UNCHANGED <<contact, message, deleted>>

-----------------------------------------------------------------------------
(* Requests of the operators.                                              *)

(* create looks for no other contact of the phone. *)
Create(c) ==
    /\ At(c, "create", "start")
    /\ \E phone \in Phones, details \in Details : Inserted(Row(phone, details))
    /\ Ends(c)
    /\ UNCHANGED <<message, deleted>>

FindOne(c, kind, pc) ==
    /\ At(c, kind, "start")
    /\ \/ \E i \in Live :
            Becomes(c, IF kind = "update"
                       THEN [kind |-> kind, pc |-> pc, id |-> i, seen |-> contact[i]]
                       ELSE [kind |-> kind, pc |-> pc, id |-> i])
       \/ Ends(c)
    /\ UNCHANGED <<contact, message, deleted>>

(* Mutant: the entity is created from the dto instead of loaded. *)
SaveCreated(c) ==
    /\ At(c, "update", "save")
    /\ \E phone \in Phones, details \in Details :
         contact' = [contact EXCEPT ![request[c].id] = Row(phone, details)]
    /\ Ends(c)
    /\ UNCHANGED <<message, deleted>>

(* save writes every column that differs from the row, or inserts the      *)
(* entity when the row is gone.                                            *)
SaveContact(c) ==
    /\ At(c, "update", "save")
    /\ \E phone \in Phones \cup {request[c].seen.phone}, details \in Details :
         contact' = [contact EXCEPT ![request[c].id] =
                       [request[c].seen EXCEPT !.phone = phone, !.details = details]]
    /\ Ends(c)
    /\ UNCHANGED <<message, deleted>>

Remove(c) ==
    /\ At(c, "remove", "delete")
    /\ contact' = [contact EXCEPT ![request[c].id] = NoContact]
    /\ deleted' = deleted \cup {request[c].id}
    /\ Ends(c)
    /\ UNCHANGED message

BulkDelete(c) ==
    /\ At(c, "bulkDelete", "start")
    /\ \E ids \in SUBSET Live :
         /\ contact' = [i \in Contacts |-> IF i \in ids THEN NoContact ELSE contact[i]]
         /\ deleted' = deleted \cup ids
    /\ Ends(c)
    /\ UNCHANGED message

-----------------------------------------------------------------------------
(* importCsv: row by row, find and then update or insert.                  *)

ReadCsv(c) ==
    /\ At(c, "importCsv", "start")
    /\ \E rows \in Csv : Becomes(c, [kind |-> "importCsv", pc |-> "find", rows |-> rows])
    /\ UNCHANGED <<contact, message, deleted>>

FindRow(c) ==
    /\ At(c, "importCsv", "find")
    /\ IF request[c].rows = << >>
       THEN Ends(c)
       ELSE \E id \in Found(Head(request[c].rows).phone) :
              Becomes(c, [kind |-> "importCsv", pc |-> "write", rows |-> request[c].rows, id |-> id])
    /\ UNCHANGED <<contact, message, deleted>>

(* The columns of the file alone; an update of a row that is gone does nothing. *)
UpdateRow(id, row) ==
    contact' = [contact EXCEPT ![id] =
                  IF id \in Live THEN [@ EXCEPT !.details = row.details, !.phone = row.phone]
                                 ELSE @]

WriteRow(c) ==
    /\ At(c, "importCsv", "write")
    /\ LET row == Head(request[c].rows) IN
       IF request[c].id = None THEN Inserted(Row(row.phone, row.details))
                               ELSE UpdateRow(request[c].id, row)
    /\ Becomes(c, [kind |-> "importCsv", pc |-> "find", rows |-> Tail(request[c].rows)])
    /\ UNCHANGED <<message, deleted>>

(* A row that fails is noted, and the import goes on. *)
RowFails(c) ==
    /\ request[c].kind = "importCsv" /\ request[c].pc # "start" /\ request[c].rows # << >>
    /\ Becomes(c, [kind |-> "importCsv", pc |-> "find", rows |-> Tail(request[c].rows)])
    /\ UNCHANGED <<contact, message, deleted>>

-----------------------------------------------------------------------------
(* optOut marks one contact of the phone; nothing in the program calls it. *)

FindOptOut(c) ==
    /\ At(c, "optOut", "start")
    /\ \E phone \in Phones, id \in Contacts \cup {None} :
         /\ id \in Found(phone)
         /\ IF id = None THEN Ends(c)
            ELSE Becomes(c, [kind |-> "optOut", pc |-> "mark", id |-> id, phone |-> phone])
    /\ UNCHANGED <<contact, message, deleted>>

MarkOptedOut(c) ==
    /\ At(c, "optOut", "mark")
    /\ contact' = [contact EXCEPT ![request[c].id].optedOut = @ \/ request[c].id \in Live]
    /\ Ends(c)
    /\ UNCHANGED <<message, deleted>>

-----------------------------------------------------------------------------
(* A message comes in.  Its text may be STOP: nothing reads it.            *)

FindSender(c) ==
    /\ At(c, "incoming", "start")
    /\ \E from \in Phones, id \in Contacts \cup {None} :
         /\ id \in Found(from)
         /\ Becomes(c, [kind |-> "incoming", pc |-> "save", from |-> from, id |-> id])
    /\ UNCHANGED <<contact, message, deleted>>

(* save, and then the event to the organisation's browsers at once. *)
SaveMessage(c) ==
    /\ At(c, "incoming", "save")
    /\ \E m \in Messages :
         /\ message[m] = NoMessage
         /\ message' = [message EXCEPT ![m] = [state |-> "emitted", from |-> request[c].from,
                                               contact |-> request[c].id, isRead |-> FALSE]]
         /\ Becomes(c, [kind |-> "incoming", pc |-> "dispatch", message |-> m])
    /\ UNCHANGED <<contact, deleted>>

DispatchReceived(c) ==
    /\ At(c, "incoming", "dispatch")
    /\ message' = [message EXCEPT ![request[c].message].state = "dispatched"]
    /\ Ends(c)
    /\ UNCHANGED <<contact, deleted>>

MarkRead(c) ==
    /\ At(c, "markRead", "start")
    /\ \E m \in Messages :
         message' = [message EXCEPT ![m].isRead = @ \/ message[m].state # "absent"]
    /\ Ends(c)
    /\ UNCHANGED <<contact, deleted>>

-----------------------------------------------------------------------------

(* A failed statement or a restart: the request ends where it stands. *)
Abandon(c) ==
    /\ request[c] # Idle
    /\ Ends(c)
    /\ UNCHANGED <<contact, message, deleted>>

Next ==
    \E c \in Clients :
        \/ Arrive(c) \/ Abandon(c)
        \/ Create(c) \/ FindOne(c, "update", "save") \/ SaveContact(c)
        \/ FindOne(c, "remove", "delete") \/ Remove(c) \/ BulkDelete(c)
        \/ ReadCsv(c) \/ FindRow(c) \/ WriteRow(c) \/ RowFails(c)
        \/ FindOptOut(c) \/ MarkOptedOut(c)
        \/ FindSender(c) \/ SaveMessage(c) \/ DispatchReceived(c) \/ MarkRead(c)

Spec == Init /\ [][Next]_vars

-----------------------------------------------------------------------------

(* c saves a contact that it loaded before somebody else changed it. *)
SavesStale(c, i) ==
    /\ At(c, "update", "save") /\ request'[c] # request[c]
    /\ request[c].id = i /\ request[c].seen # contact[i]

(* A contact that is opted out stays so, and a deleted one stays deleted,  *)
(* whatever is imported, edited or removed: what takes it back is only an  *)
(* edit that loaded the contact before, and saves the whole of it.         *)
KeptFromAllButStaleEdits ==
    [][\A i \in Contacts :
         \/ contact[i].optedOut /\ ~contact'[i].optedOut /\ contact'[i].state = "live"
         \/ i \in deleted \ Live /\ contact'[i].state = "live"
         => \E c \in Clients : SavesStale(c, i)]_vars

(* An import adds no second contact for a phone that has one. *)
ImportsMerge ==
    [][\A c \in Clients, i \in Contacts :
         /\ request[c].kind = "importCsv" /\ request'[c] # request[c]
         /\ i \notin Live /\ contact'[i].state = "live"
         => \A j \in Live : contact[j].phone # contact'[i].phone]_vars
=============================================================================
