-------------------------------- MODULE Inbox ---------------------------------
(***************************************************************************)
(* The page of messages in one browser: the list, the conversation under   *)
(* it, the reply box with its suggestions and the form of a new message,   *)
(* over the cache of queries and the messages the API stores meanwhile.    *)
(***************************************************************************)
EXTENDS Integers, Sequences, FiniteSets

CONSTANTS Contacts,          \* correspondents with a row of their own
          Strangers,         \* correspondents known by number alone
          None,
          Numbers,           \* how many numbers the organisation has
          MaxMessages, MaxTexts, MaxSends, MaxAsks, MaxFails \* bounds

Correspondents == Contacts \cup Strangers

InboxAssumption ==
    /\ None \notin Correspondents /\ Contacts \cap Strangers = {}
    /\ Numbers \in Nat
    /\ MaxMessages \in Nat /\ MaxTexts \in Nat /\ MaxSends \in Nat /\ MaxAsks \in Nat /\ MaxFails \in Nat

VARIABLES
    rows,        \* messages of the organisation, in the order of created_at
    events,      \* rows whose message:new is on its way to this browser
    query,       \* the cache of queries, by key
    numbers,     \* phoneNumbers: whether the query has answered
    selected,    \* index of the selected message, 0 if none
    draft,       \* compose.body: which text it is, 0 for an empty one
    texts,       \* history: texts begun
    composeFrom, \* compose.from
    asked,       \* messages for which suggestions were asked
    suggestions, \* message whose suggestions are on the page, 0 if none
    sends,       \* the mutations of sendMutation, oldest first
    due,         \* history: rows the browser was told of while it had a list
    fails

vars == <<rows, events, query, numbers, selected, draft, texts, composeFrom, asked,
          suggestions, sends, due, fails>>

writing == <<draft, texts, composeFrom>>
history == <<due, fails>>

-----------------------------------------------------------------------------

List == "messages"

Keys == Contacts \cup {List}

Senders == {"own", "blank", "theirs"}

Row == [with : Correspondents, direction : {"inbound", "outbound"}, from : Senders]

Indices == 1..Len(rows)

(* What a query holds is what it read: a number of rows, -1 if nothing. *)
Query == [data : -1..MaxMessages, stale : BOOLEAN, fetch : {"idle", "asked", "read"},
          read : -1..MaxMessages]

NoQuery == [data |-> -1, stale |-> TRUE, fetch |-> "idle", read |-> -1]

Send == [to : Correspondents, text : 1..MaxTexts, from : Senders,
         view : 0..MaxMessages, pc : {"asked", "saved", "done"}, row : 0..MaxMessages]

TypeOK ==
    /\ rows \in Seq(Row) /\ Len(rows) <= MaxMessages
    /\ events \subseteq Indices /\ due \subseteq Indices
    /\ query \in [Keys -> Query]
    /\ numbers \in BOOLEAN
    /\ selected \in 0..Len(rows) /\ suggestions \in 0..Len(rows) /\ asked \subseteq Indices
    /\ draft \in 0..MaxTexts /\ texts \in 0..MaxTexts /\ composeFrom \in {"blank", "own"}
    /\ sends \in Seq(Send) /\ Len(sends) <= MaxSends
    /\ fails \in 0..MaxFails

Init ==
    /\ rows = <<>> /\ events = {}
    /\ query = [k \in Keys |-> IF k = List THEN [NoQuery EXCEPT !.fetch = "asked"] ELSE NoQuery]
    /\ numbers = FALSE
    /\ selected = 0 /\ draft = 0 /\ texts = 0 /\ composeFrom = "blank"
    /\ asked = {} /\ suggestions = 0 /\ sends = <<>>
    /\ due = {} /\ fails = 0

(* The correspondent of the selected message. *)
Shown == IF selected = 0 THEN None ELSE rows[selected].with

(* The queries some component of the page observes. *)
Active == {List} \cup ({Shown} \cap Contacts)

Fetching(q) == [q EXCEPT !.fetch = "asked", !.read = -1]

(* Mutant: a fetch under way is left to end with what it has read. *)
InvalidatedLazily(q, active) ==
    LET stale == [q EXCEPT !.stale = TRUE]
    IN  IF active /\ q.fetch = "idle" THEN Fetching(stale) ELSE stale

(* A fetch under way is started over, unless it is the first. *)
Invalidated(q, active) ==
    LET stale == [q EXCEPT !.stale = TRUE]
    IN  IF active /\ (q.fetch = "idle" \/ q.data # -1) THEN Fetching(stale) ELSE stale

Invalidate(ks) == query' = [k \in Keys |-> IF k \in ks THEN Invalidated(query[k], k \in Active)
                                           ELSE query[k]]

-----------------------------------------------------------------------------
(* The API.                                                                *)

AddRow(c, direction, from) ==
    /\ Len(rows) < MaxMessages
    /\ rows' = Append(rows, [with |-> c, direction |-> direction, from |-> from])

(* handleIncoming: the event follows the row. *)
Receive(c) ==
    /\ AddRow(c, "inbound", "theirs")
    /\ events' = events \cup {Len(rows')}
    /\ UNCHANGED <<query, numbers, selected, writing, asked, suggestions, sends, history>>

(* A colleague or a campaign sends: no event says so. *)
SendElsewhere(c) ==
    /\ AddRow(c, "outbound", "own")
    /\ UNCHANGED <<events, query, numbers, selected, writing, asked, suggestions, sends, history>>

(* findAll and getConversation read what the table has. *)
Read(k) ==
    /\ query[k].fetch = "asked"
    /\ query' = [query EXCEPT ![k].fetch = "read", ![k].read = Len(rows)]
    /\ UNCHANGED <<rows, events, numbers, selected, writing, asked, suggestions, sends, history>>

(* send saves the row as it is told to. *)
SaveSend(i) ==
    /\ sends[i].pc = "asked"
    /\ AddRow(sends[i].to, "outbound", sends[i].from)
    /\ sends' = [sends EXCEPT ![i].pc = "saved", ![i].row = Len(rows')]
    /\ UNCHANGED <<events, query, numbers, selected, writing, asked, suggestions, history>>

-----------------------------------------------------------------------------
(* Answers and events, in the browser.                                     *)

Answered(k) ==
    /\ query[k].fetch = "read"
    /\ query' = [query EXCEPT ![k] = [data |-> @.read, stale |-> FALSE, fetch |-> "idle", read |-> -1]]
    /\ UNCHANGED <<rows, events, numbers, selected, writing, asked, suggestions, sends, history>>

(* Both tries fail: what was there stays, and stays stale. *)
FetchFails(k) ==
    /\ query[k].fetch # "idle" /\ fails < MaxFails
    /\ query' = [query EXCEPT ![k].fetch = "idle", ![k].read = -1, ![k].stale = TRUE]
    /\ fails' = fails + 1
    /\ UNCHANGED <<rows, events, numbers, selected, writing, asked, suggestions, sends, due>>

(* staleTime has gone by. *)
Age(k) ==
    /\ query[k].data # -1 /\ ~query[k].stale
    /\ query' = [query EXCEPT ![k].stale = TRUE]
    /\ UNCHANGED <<rows, events, numbers, selected, writing, asked, suggestions, sends, history>>

(* The window has the focus again. *)
Focus ==
    /\ query' = [k \in Keys |-> IF k \in Active /\ query[k].stale /\ query[k].fetch = "idle"
                                THEN Fetching(query[k]) ELSE query[k]]
    /\ UNCHANGED <<rows, events, numbers, selected, writing, asked, suggestions, sends, history>>

Tell(ns) ==
    /\ due' = IF query[List].data = -1 THEN due ELSE due \cup ns
    /\ UNCHANGED fails

(* onMessage. *)
MessageNew(n) ==
    /\ n \in events
    /\ events' = events \ {n}
    /\ Invalidate({List})
    /\ Tell({n})
    /\ UNCHANGED <<rows, numbers, selected, writing, asked, suggestions, sends>>

NumbersAnswered ==
    /\ ~numbers
    /\ numbers' = TRUE
    /\ UNCHANGED <<rows, events, query, selected, writing, asked, suggestions, sends, history>>

(* onSuccess sees what is selected now if its mutation is the last, and    *)
(* what was selected when the next one began otherwise.                    *)
SendAnswered(i) ==
    /\ sends[i].pc = "saved"
    /\ sends' = [sends EXCEPT ![i].pc = "done"]
    /\ Invalidate({List} \cup (IF sends[i].view = 0 THEN {}
                               ELSE {rows[sends[i].view].with} \cap Contacts))
    /\ draft' = 0
    /\ Tell({sends[i].row})
    /\ UNCHANGED <<rows, events, numbers, selected, texts, composeFrom, asked, suggestions>>

(* onError says so, and changes nothing. *)
SendFails(i) ==
    /\ sends[i].pc # "done" /\ fails < MaxFails
    /\ sends' = [sends EXCEPT ![i].pc = "done"]
    /\ fails' = fails + 1
    /\ UNCHANGED <<rows, events, query, numbers, selected, writing, asked, suggestions, due>>

(* setAiSuggestions, whatever is selected by now. *)
Suggested(n) ==
    /\ n \in asked
    /\ asked' = asked \ {n}
    /\ suggestions' \in {0, n}
    /\ UNCHANGED <<rows, events, query, numbers, selected, writing, sends, history>>

-----------------------------------------------------------------------------
(* What the user does.                                                     *)

(* The list has one entry for a correspondent, with his last message. *)
Entries == {n \in 1..query[List].data :
              \A m \in n+1..query[List].data : rows[m].with # rows[n].with}

View(n) ==
    /\ selected' = n
    /\ sends' = IF sends = <<>> THEN sends ELSE [sends EXCEPT ![Len(sends)].view = n]

Select(n) ==
    /\ n \in Entries
    /\ View(n)
    /\ LET c == rows[n].with
       IN  query' = IF c \in Contacts /\ query[c].fetch = "idle" /\ query[c].stale
                    THEN [query EXCEPT ![c] = Fetching(@)] ELSE query
    /\ UNCHANGED <<rows, events, numbers, writing, asked, suggestions, history>>

Back ==
    /\ selected # 0
    /\ View(0)
    /\ UNCHANGED <<rows, events, query, numbers, writing, asked, suggestions, history>>

NewText == texts < MaxTexts /\ texts' = texts + 1 /\ draft' = texts'

(* Both boxes hold compose.body. *)
Type ==
    /\ NewText
    /\ UNCHANGED <<rows, events, query, numbers, selected, composeFrom, asked, suggestions,
                   sends, history>>

GetSuggestions ==
    /\ selected # 0 /\ Cardinality(asked) < MaxAsks
    /\ asked' = asked \cup {selected}
    /\ UNCHANGED <<rows, events, query, numbers, selected, writing, suggestions, sends, history>>

UseSuggestion ==
    /\ selected # 0 /\ suggestions # 0
    /\ NewText
    /\ suggestions' = 0
    /\ UNCHANGED <<rows, events, query, numbers, selected, composeFrom, asked, sends, history>>

(* isPending is of the last mutation. *)
Pending == sends # <<>> /\ sends[Len(sends)].pc # "done"

Mutate(to, from) ==
    /\ Len(sends) < MaxSends
    /\ sends' = Append(sends, [to |-> to, text |-> draft, from |-> from,
                               view |-> selected, pc |-> "asked", row |-> 0])
    /\ UNCHANGED <<rows, events, query, numbers, selected, writing, asked, suggestions, history>>

(* The number of the selected message's other end is the correspondent's   *)
(* own when the message went out.                                          *)
ReplyFrom == IF numbers /\ Numbers > 0 THEN "own"
             ELSE IF rows[selected].direction = "inbound" THEN "own" ELSE "theirs"

ReplyByButton ==
    /\ selected # 0 /\ draft # 0 /\ ~Pending
    /\ Mutate(Shown, ReplyFrom)

ReplyByEnter ==
    /\ selected # 0 /\ draft # 0
    /\ Mutate(Shown, ReplyFrom)

(* The form shows the first number, and holds it once another was chosen. *)
ChooseFrom ==
    /\ numbers /\ Numbers > 1
    /\ composeFrom' = "own"
    /\ UNCHANGED <<rows, events, query, numbers, selected, draft, texts, asked, suggestions,
                   sends, history>>

SendCompose(c) ==
    /\ draft # 0 /\ ~Pending
    /\ Mutate(c, composeFrom)

-----------------------------------------------------------------------------

Next ==
    \/ \E c \in Correspondents : Receive(c) \/ SendElsewhere(c) \/ SendCompose(c)
    \/ \E k \in Keys : Read(k) \/ Answered(k) \/ FetchFails(k) \/ Age(k)
    \/ \E i \in DOMAIN sends : SaveSend(i) \/ SendAnswered(i) \/ SendFails(i)
    \/ \E n \in Indices : MessageNew(n) \/ Suggested(n) \/ Select(n)
    \/ Focus \/ NumbersAnswered \/ Back \/ Type \/ GetSuggestions \/ UseSuggestion
    \/ ReplyByButton \/ ReplyByEnter \/ ChooseFrom

Spec == Init /\ [][Next]_vars

(* A message that comes in is announced, and what was asked is answered:   *)
(* the socket stays connected.                                             *)
Fairness ==
    /\ \A k \in Keys : WF_vars(Read(k)) /\ WF_vars(Answered(k))
    /\ \A n \in 1..MaxMessages : WF_vars(MessageNew(n))

-----------------------------------------------------------------------------

Settled(k) == query[k].fetch = "idle" /\ ~query[k].stale

(* No message the browser was told of once it had a list is missing from a *)
(* list that is at rest, whatever was being fetched when it came.          *)
ToldAreListed == Settled(List) => \A n \in due : n <= query[List].data

(* And it is on the list in the end, without the user doing anything. *)
ToldIsListed ==
    \A n \in 1..MaxMessages :
        (n \in events /\ query[List].data # -1) ~> (n <= query[List].data \/ fails > 0)
=============================================================================
