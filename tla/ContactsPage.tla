----------------------------- MODULE ContactsPage -----------------------------
(***************************************************************************)
(* The page of contacts in one tab: its form, which serves to create and   *)
(* to edit through one mutation, the selection, and what the API does with *)
(* the requests.  react-query gives a mutation that is not settled the     *)
(* functions of the latest render, and holds one back while the browser    *)
(* is offline.                                                             *)
(***************************************************************************)
EXTENDS Integers, FiniteSets

CONSTANTS Contacts, Texts, None,
          MaxOffline, MaxLost  \* bounds

ContactsPageAssumption ==
    /\ None \notin Contacts \cup Texts
    /\ MaxOffline \in Nat /\ MaxLost \in Nat

VARIABLES
    row,       \* the text of each row of contacts, None where there is no row
    form,      \* showForm and the values of the form
    editing,
    mutation,  \* createMutation
    deleting,  \* contacts whose deletion is under way
    bulk,      \* selection a bulk deletion under way is of
    selected,
    online,
    offline, lost,   \* counted: times offline, answers lost
    overwritten      \* history: contacts overwritten with what was typed for a new one

vars == <<row, form, editing, mutation, deleting, bulk, selected, online, offline, lost, overwritten>>

network == <<online, offline, lost>>

-----------------------------------------------------------------------------

(* What handleSubmit passes on; "columns" if every column of a row is in it. *)
Values == [text : Texts \cup {None}, email : BOOLEAN, columns : BOOLEAN]

Empty == [text |-> None, email |-> FALSE, columns |-> FALSE]

Form == [open : BOOLEAN, values : Values]

(* "meant" is history: whom the form was for. *)
Mutation == [state : {"idle", "paused", "sent", "taken", "refused"}, values : Values,
             target : Contacts \cup {None}, meant : Contacts \cup {None}]

NoMutation == [state |-> "idle", values |-> Empty, target |-> None, meant |-> None]

Live == {c \in Contacts : row[c] # None}

TypeOK ==
    /\ row \in [Contacts -> Texts \cup {None}]
    /\ form \in Form /\ editing \in Contacts \cup {None} /\ mutation \in Mutation
    /\ deleting \subseteq Contacts /\ bulk \subseteq Contacts /\ selected \subseteq Contacts
    /\ online \in BOOLEAN /\ offline \in 0..MaxOffline /\ lost \in 0..MaxLost
    /\ overwritten \subseteq Contacts

Init ==
    /\ \E R \in SUBSET Contacts, t \in Texts :
        row = [c \in Contacts |-> IF c \in R THEN t ELSE None]
    /\ form = [open |-> FALSE, values |-> Empty] /\ editing = None
    /\ mutation = NoMutation /\ deleting = {} /\ bulk = {} /\ selected = {}
    /\ online = TRUE /\ offline = 0 /\ lost = 0
    /\ overwritten = {}

-----------------------------------------------------------------------------
(* The form.  Its overlay covers the buttons below it.                     *)

OpenCreate ==
    /\ ~form.open
    /\ editing' = None
    /\ form' = [open |-> TRUE, values |-> Empty]
    /\ UNCHANGED <<row, mutation, deleting, bulk, selected, network, overwritten>>

(* Every entry of the row becomes a value.  Rows are listed as they are: one    *)
(* that is listed no more as it was leads to requests that are refused.         *)
OpenEdit(c) ==
    /\ ~form.open /\ c \in Live
    /\ editing' = c
    /\ form' = [open |-> TRUE, values |-> [text |-> row[c], email |-> TRUE, columns |-> TRUE]]
    /\ UNCHANGED <<row, mutation, deleting, bulk, selected, network, overwritten>>

(* X and Cancel; what is edited stays. *)
Close ==
    /\ form.open
    /\ form' = [form EXCEPT !.open = FALSE]
    /\ UNCHANGED <<row, editing, mutation, deleting, bulk, selected, network, overwritten>>

(* The first name and the phone are required, the address is not. *)
Type(t, e) ==
    /\ form.open
    /\ form' = [form EXCEPT !.values.text = t, !.values.email = e]
    /\ UNCHANGED <<row, editing, mutation, deleting, bulk, selected, network, overwritten>>

Submitted(paused) ==
    /\ form.open /\ form.values.text # None /\ mutation.state = "idle"
    /\ mutation' = [state |-> IF paused THEN "paused" ELSE "sent", values |-> form.values,
                    target |-> IF paused THEN None ELSE editing, meant |-> editing]
    /\ UNCHANGED <<row, form, editing, deleting, bulk, selected, network, overwritten>>

(* Mutant: every request is put off. *)
SubmitPaused == Submitted(TRUE)

Submit == Submitted(~online)

(* The function is the one of the latest render. *)
Resume ==
    /\ mutation.state = "paused" /\ online
    /\ mutation' = [mutation EXCEPT !.state = "sent", !.target = editing]
    /\ UNCHANGED <<row, form, editing, deleting, bulk, selected, network, overwritten>>

-----------------------------------------------------------------------------
(* The API.                                                                *)

(* The pipe: no property of its own, and IsEmail of a blank one fails. *)
Fits(v) == ~v.columns /\ v.email

Create(c) ==
    /\ mutation.state = "sent" /\ mutation.target = None /\ Fits(mutation.values)
    /\ row[c] = None /\ c \notin selected \cup deleting \cup bulk \cup {editing}
    /\ row' = [row EXCEPT ![c] = mutation.values.text]
    /\ mutation' = [mutation EXCEPT !.state = "taken"]
    /\ UNCHANGED <<form, editing, deleting, bulk, selected, network, overwritten>>

Update ==
    /\ mutation.state = "sent" /\ mutation.target \in Live /\ Fits(mutation.values)
    /\ row' = [row EXCEPT ![mutation.target] = mutation.values.text]
    /\ overwritten' = IF mutation.meant = None THEN overwritten \cup {mutation.target}
                                               ELSE overwritten
    /\ mutation' = [mutation EXCEPT !.state = "taken"]
    /\ UNCHANGED <<form, editing, deleting, bulk, selected, network>>

(* 400 of the pipe, 404 of findOne. *)
Refuse ==
    /\ mutation.state = "sent"
    /\ ~Fits(mutation.values) \/ (mutation.target # None /\ mutation.target \notin Live)
    /\ mutation' = [mutation EXCEPT !.state = "refused"]
    /\ UNCHANGED <<row, form, editing, deleting, bulk, selected, network, overwritten>>

-----------------------------------------------------------------------------
(* The answers.                                                            *)

Succeeded ==
    /\ mutation.state = "taken" /\ online
    /\ form' = [form EXCEPT !.open = FALSE]
    /\ editing' = None
    /\ mutation' = NoMutation
    /\ UNCHANGED <<row, deleting, bulk, selected, network, overwritten>>

Failed ==
    /\ mutation.state = "refused" /\ online
    /\ mutation' = NoMutation
    /\ UNCHANGED <<row, form, editing, deleting, bulk, selected, network, overwritten>>

(* The request or its answer is lost: a time-out, which onError shows too. *)
Lose ==
    /\ mutation.state \in {"sent", "taken", "refused"} /\ lost < MaxLost
    /\ lost' = lost + 1
    /\ mutation' = NoMutation
    /\ UNCHANGED <<row, form, editing, deleting, bulk, selected, online, offline, overwritten>>

-----------------------------------------------------------------------------
(* Deletions.                                                              *)

Delete(c) ==
    /\ ~form.open /\ c \in Live
    /\ deleting' = deleting \cup {c}
    /\ UNCHANGED <<row, form, editing, mutation, bulk, selected, network, overwritten>>

(* A row that is gone is a 404, of which the page says nothing. *)
Deleted(c) ==
    /\ c \in deleting /\ online
    /\ row' = [row EXCEPT ![c] = None]
    /\ deleting' = deleting \ {c}
    /\ UNCHANGED <<form, editing, mutation, bulk, selected, network, overwritten>>

Select(c) ==
    /\ ~form.open /\ c \in Live
    /\ selected' = IF c \in selected THEN selected \ {c} ELSE selected \cup {c}
    /\ UNCHANGED <<row, form, editing, mutation, deleting, bulk, network, overwritten>>

SelectAll ==
    /\ ~form.open
    /\ selected' \in {Live, {}}
    /\ UNCHANGED <<row, form, editing, mutation, deleting, bulk, network, overwritten>>

BulkDelete ==
    /\ ~form.open /\ selected # {} /\ bulk = {}
    /\ bulk' = selected
    /\ UNCHANGED <<row, form, editing, mutation, deleting, selected, network, overwritten>>

(* A fetch of its own, without the token: 401, which does not reject. *)
BulkDeleted ==
    /\ bulk # {} /\ online
    /\ bulk' = {} /\ selected' = {}
    /\ UNCHANGED <<row, form, editing, mutation, deleting, network, overwritten>>

GoOffline ==
    /\ online /\ offline < MaxOffline
    /\ online' = FALSE /\ offline' = offline + 1
    /\ UNCHANGED <<row, form, editing, mutation, deleting, bulk, selected, lost, overwritten>>

GoOnline ==
    /\ ~online
    /\ online' = TRUE
    /\ UNCHANGED <<row, form, editing, mutation, deleting, bulk, selected, offline, lost, overwritten>>

-----------------------------------------------------------------------------

Next ==
    \/ OpenCreate \/ Close \/ Submit \/ Resume
    \/ Update \/ Refuse \/ Succeeded \/ Failed \/ Lose
    \/ SelectAll \/ BulkDelete \/ BulkDeleted \/ GoOffline \/ GoOnline
    \/ \E c \in Contacts :
        OpenEdit(c) \/ Create(c) \/ Delete(c) \/ Deleted(c) \/ Select(c)
    \/ \E t \in Texts, e \in BOOLEAN : Type(t, e)

Spec == Init /\ [][Next]_vars

-----------------------------------------------------------------------------
(* What was typed for a new contact overwrites another only if it was held *)
(* back offline: createMutation is bound to the form it is made with.      *)
HeldBackOnly == overwritten # {} => offline > 0
=============================================================================
