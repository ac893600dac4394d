--------------------------------- MODULE Calls ---------------------------------
(***************************************************************************)
(* Voice calls of src/apps/api.  CallsService.makeCall places a call with  *)
(* Twilio and only then inserts its row; Twilio asks the voice webhook     *)
(* what to do with a call that comes in or was answered, and reports       *)
(* statuses and recordings through callbacks that find their row by sid.   *)
(* Twilio is external: what it does is modelled from the options makeCall  *)
(* passes and from the payloads the webhooks read.                         *)
(***************************************************************************)
EXTENDS Naturals, FiniteSets

CONSTANTS Requests,   \* calls of makeCall
          Sids,       \* call sids Twilio may assign
          NoSid,
          RowIds,     \* ids of table calls
          NoId,
          Hooks,      \* status callbacks being handled at the same time
          MaxNet,     \* bound: status callbacks on their way at the same time
          MaxCrashes, \* bound: crashes of the API process
          MaxFaults   \* bound: failed inserts and lost answers of Twilio

ASSUME CallAssumption ==
    /\ NoSid \notin Sids /\ NoId \notin RowIds
    /\ IsFiniteSet(Requests) /\ IsFiniteSet(Sids) /\ IsFiniteSet(RowIds)
    /\ MaxNet \in Nat /\ MaxCrashes \in Nat /\ MaxFaults \in Nat

VARIABLES
    calls,    \* the rows
    req,      \* control state of each makeCall, and the sid it was given
    hook,     \* control state and locals of each updateStatus
    twilio,   \* Twilio's calls, by sid
    net,      \* status callbacks on their way
    crashes, faults

vars == <<calls, req, hook, twilio, net, crashes, faults>>

-----------------------------------------------------------------------------

\* "failed" stands for busy, no-answer and canceled too: nothing tells them apart
Final  == {"completed", "failed"}
Status == {"queued", "ringing", "in-progress"} \cup Final

\* CallStatus of a payload; `initiated' is the one statusMap lacks
Reports == Status \cup {"initiated"}

NextReports(status) ==
    CASE status = "queued"      -> {"initiated", "failed"}
      [] status = "initiated"   -> {"ringing", "failed"}
      [] status = "ringing"     -> {"in-progress", "failed"}
      [] status = "in-progress" -> {"completed"}

CallRow == [sid : Sids \cup {NoSid}, direction : {"inbound", "outbound", "absent"},
            status : Status, startedAt : BOOLEAN, endedAt : BOOLEAN,
            recording : BOOLEAN, notes : BOOLEAN]

NoRow == [sid |-> NoSid, direction |-> "absent", status |-> "queued",
          startedAt |-> FALSE, endedAt |-> FALSE, recording |-> FALSE, notes |-> FALSE]

\* kind: placed by makeCall, by a browser over the TwiML App, or by a caller;
\* past: the statuses it has been in; fetching: about to ask for TwiML
TwilioCall == [kind : {"none", "api", "browser", "caller"}, status : Reports,
               past : SUBSET Reports, fetching : BOOLEAN]

NoCall == [kind |-> "none", status |-> "queued", past |-> {}, fetching |-> FALSE]

Callback == [sid : Sids, status : Reports]

\* the row findOne returned, and its status then
HookRecord == [id : RowIds \cup {NoId}, seen : Status, report : Reports]

IdleHook == [id |-> NoId, seen |-> "queued", report |-> "queued"]

RequestRecord == [pc : {"idle", "save", "done", "lost"}, sid : Sids \cup {NoSid}]

TypeOK ==
    /\ calls \in [RowIds -> CallRow]
    /\ req \in [Requests -> RequestRecord]
    /\ hook \in [Hooks -> HookRecord]
    /\ twilio \in [Sids -> TwilioCall]
    /\ net \in SUBSET Callback
    /\ crashes \in 0..MaxCrashes /\ faults \in 0..MaxFaults

Init ==
    /\ calls = [i \in RowIds |-> NoRow]
    /\ req = [r \in Requests |-> [pc |-> "idle", sid |-> NoSid]]
    /\ hook = [h \in Hooks |-> IdleHook]
    /\ twilio = [s \in Sids |-> NoCall]
    /\ net = {}
    /\ crashes = 0 /\ faults = 0

Exists(i) == calls[i].direction # "absent"

(* An id no row has; which one makes no difference. *)
FreshId == CHOOSE i \in RowIds : ~Exists(i)

Insert(row) ==
    /\ \E i \in RowIds : ~Exists(i)
    /\ calls' = [calls EXCEPT ![FreshId] = row]

(* The sid Twilio gives a call: one it has given to none. *)
IsFreshSid(s) == twilio[s] = NoCall /\ s = CHOOSE t \in Sids : twilio[t] = NoCall

Moved(call, status) == [call EXCEPT !.status = status, !.past = @ \cup {status}]

(* Twilio calls back with a status, or the callback gets lost.  makeCall   *)
(* asks for the callbacks of its calls; nothing asks for those of others.  *)
Reported(s, status) ==
    \/ UNCHANGED net
    \/ /\ twilio'[s].kind = "api"
       /\ Cardinality(net) < MaxNet
       /\ net' = net \cup {[sid |-> s, status |-> status]}

-----------------------------------------------------------------------------
(* makeCall.  The client and the contact are looked up, the call is placed *)
(* and its row inserted.  A refusal leaves nothing behind and is left out. *)

PlaceCall(r, s, answered) ==
    /\ req[r].pc = "idle"
    /\ IsFreshSid(s)
    /\ twilio' = [twilio EXCEPT ![s] = Moved([NoCall EXCEPT !.kind = "api"], "queued")]
    /\ \/ /\ answered
          /\ req' = [req EXCEPT ![r] = [pc |-> "save", sid |-> s]]
          /\ UNCHANGED faults
       \/ /\ ~answered /\ faults < MaxFaults
          /\ faults' = faults + 1
          /\ req' = [req EXCEPT ![r].pc = "lost"]
    /\ UNCHANGED <<calls, hook, net, crashes>>

OutboundRow(s) == [NoRow EXCEPT !.sid = s, !.direction = "outbound"]

SaveCall(r) ==
    /\ req[r].pc = "save"
    /\ Insert(OutboundRow(req[r].sid))
    /\ req' = [req EXCEPT ![r] = [pc |-> "done", sid |-> NoSid]]
    /\ UNCHANGED <<hook, twilio, net, crashes, faults>>

(* Mutant: the handler fails without its sid being given up. *)
SaveCallUncounted(r) ==
    /\ req[r].pc = "save"
    /\ faults' = faults + 1
    /\ req' = [req EXCEPT ![r] = [pc |-> "failed", sid |-> NoSid]]
    /\ UNCHANGED <<calls, hook, twilio, net, crashes>>

SaveCallFails(r) ==
    /\ req[r].pc = "save"
    /\ faults < MaxFaults
    /\ faults' = faults + 1
    /\ req' = [req EXCEPT ![r] = [pc |-> "lost", sid |-> NoSid]]
    /\ UNCHANGED <<calls, hook, twilio, net, crashes>>

(* updateCall writes the notes and tags, and no other column. *)
UpdateCall(i) ==
    /\ Exists(i)
    /\ calls' = [calls EXCEPT ![i].notes = TRUE]
    /\ UNCHANGED <<req, hook, twilio, net, crashes, faults>>

Live(s) == twilio[s].status \in {"queued", "initiated", "ringing", "in-progress"}

(* hangup ends the call of the row with Twilio; a call that is over gives  *)
(* an error.  The row is left to the callback.                             *)
Hangup(i) ==
    /\ Exists(i)
    /\ LET s == calls[i].sid IN
       /\ twilio[s].kind # "none" /\ Live(s)
       /\ twilio' = [twilio EXCEPT ![s] = Moved(@, "completed")]
       /\ Reported(s, "completed")
    /\ UNCHANGED <<calls, req, hook, crashes, faults>>

-----------------------------------------------------------------------------
(* Twilio.                                                                 *)

(* A caller rings one of the numbers, or a browser connects over the TwiML *)
(* App; Twilio asks the voice webhook what to do.                          *)
CallArrives(s, kind) ==
    /\ IsFreshSid(s)
    /\ twilio' = [twilio EXCEPT ![s] =
                    Moved([NoCall EXCEPT !.kind = kind, !.fetching = TRUE], "ringing")]
    /\ UNCHANGED <<calls, req, hook, net, crashes, faults>>

(* A call placed by makeCall fetches its `url' when it is answered. *)
TwilioAdvances(s) ==
    /\ twilio[s].kind # "none" /\ Live(s)
    /\ \E next \in NextReports(twilio[s].status) :
         /\ twilio' = [twilio EXCEPT ![s] =
              [Moved(@, next) EXCEPT
                 !.fetching = @ \/ (next = "in-progress" /\ twilio[s].kind = "api")]]
         /\ Reported(s, next)
    /\ UNCHANGED <<calls, req, hook, crashes, faults>>

-----------------------------------------------------------------------------
(* The voice webhook.                                                      *)

InboundRow(s) == [NoRow EXCEPT !.sid = s, !.direction = "inbound", !.status = "ringing"]

(* handleIncomingVoice: handleIncoming inserts a row whatever the call is. *)
VoiceWebhook(s) ==
    /\ twilio[s].fetching
    /\ Insert(InboundRow(s))
    /\ twilio' = [twilio EXCEPT ![s].fetching = FALSE]
    /\ UNCHANGED <<req, hook, net, crashes, faults>>

VoiceWebhookFails(s) ==
    /\ twilio[s].fetching
    /\ faults < MaxFaults
    /\ faults' = faults + 1
    /\ twilio' = [twilio EXCEPT ![s] = IF Live(s) THEN Moved([@ EXCEPT !.fetching = FALSE],
                                                             "completed")
                                       ELSE [@ EXCEPT !.fetching = FALSE]]
    /\ UNCHANGED <<calls, req, hook, net, crashes>>

-----------------------------------------------------------------------------
(* Status and recording callbacks.                                         *)

(* Mutant: a lookup by a sid that is undefined, which matches any row. *)
AnyRow(s) == {i \in RowIds : Exists(i)}

RowsWith(s) == {i \in RowIds : Exists(i) /\ calls[i].sid = s}

(* updateStatus, first half: findOne returns any of the rows with the sid. *)
(* A callback that stays in net is delivered again.                        *)
StatusRead(h, cb) ==
    /\ hook[h] = IdleHook /\ h = CHOOSE g \in Hooks : hook[g] = IdleHook
    /\ cb \in net
    /\ net' \in {net, net \ {cb}}
    /\ \/ /\ RowsWith(cb.sid) = {}
          /\ UNCHANGED hook
       \/ \E i \in RowsWith(cb.sid) :
            hook' = [hook EXCEPT ![h] = [id |-> i, seen |-> calls[i].status, report |-> cb.status]]
    /\ UNCHANGED <<calls, req, twilio, crashes, faults>>

(* statusMap[status] || call.status *)
Mapped(report, seen) == IF report \in Status THEN report ELSE seen

(* The columns of `updates', over the row as it is now. *)
Written(row, seen, report) ==
    [row EXCEPT !.status = Mapped(report, seen),
                !.startedAt = @ \/ report = "in-progress",
                !.endedAt = @ \/ report = "completed"]

(* updateStatus, second half. *)
StatusUpdate(h) ==
    /\ hook[h] # IdleHook
    /\ LET i == hook[h].id IN
         calls' = [calls EXCEPT ![i] = Written(@, hook[h].seen, hook[h].report)]
    /\ hook' = [hook EXCEPT ![h] = IdleHook]
    /\ UNCHANGED <<req, twilio, net, crashes, faults>>

(* updateRecording writes to every row with the sid.  A recording is made  *)
(* of a call that was answered.                                            *)
RecordingCallback(s) ==
    /\ twilio[s].kind = "api" /\ twilio[s].status = "completed"
    /\ "in-progress" \in twilio[s].past
    /\ calls' = [i \in RowIds |-> IF i \in RowsWith(s) THEN [calls[i] EXCEPT !.recording = TRUE]
                                                       ELSE calls[i]]
    /\ UNCHANGED <<req, hook, twilio, net, crashes, faults>>

Crash ==
    /\ crashes < MaxCrashes
    /\ crashes' = crashes + 1
    /\ req' = [r \in Requests |-> IF req[r].pc = "save" THEN [pc |-> "lost", sid |-> NoSid]
                                                        ELSE req[r]]
    /\ hook' = [h \in Hooks |-> IdleHook]
    /\ UNCHANGED <<calls, twilio, net, faults>>

-----------------------------------------------------------------------------

Next ==
    \/ \E r \in Requests : \/ SaveCall(r) \/ SaveCallFails(r)
                           \/ \E s \in Sids, answered \in BOOLEAN : PlaceCall(r, s, answered)
    \/ \E i \in RowIds : UpdateCall(i) \/ Hangup(i)
    \/ \E s \in Sids : \/ \E kind \in {"browser", "caller"} : CallArrives(s, kind)
                       \/ TwilioAdvances(s)
                       \/ VoiceWebhook(s) \/ VoiceWebhookFails(s)
                       \/ RecordingCallback(s)
    \/ \E h \in Hooks : StatusUpdate(h) \/ \E cb \in net : StatusRead(h, cb)
    \/ Crash

Spec == Init /\ [][Next]_vars

-----------------------------------------------------------------------------

(* What the history says about a call is what Twilio said of this call and *)
(* of no other: how it stands and that it started, ended or was recorded,  *)
(* whatever is repeated, overtaken or written back late.                   *)
HistoryIsReported ==
    \A i \in RowIds : Exists(i) =>
        LET past == twilio[calls[i].sid].past IN
        /\ calls[i].status \in Final \cup {"in-progress"} => calls[i].status \in past
        /\ calls[i].startedAt => "in-progress" \in past
        /\ calls[i].endedAt \/ calls[i].recording => "completed" \in past

(* A call placed for a user is in the history, and once: it lacks its      *)
(* outbound row only while the handler is between Twilio and the insert,   *)
(* or after a crash or a failure, one per call.                            *)
PlacedCallsAreKept ==
    LET outbound(s) == {i \in RowsWith(s) : calls[i].direction = "outbound"}
        saving(s)   == \E r \in Requests : req[r].sid = s
        unkept      == {s \in Sids : twilio[s].kind = "api" /\ outbound(s) = {} /\ ~saving(s)} IN
    /\ \A s \in Sids : Cardinality(outbound(s)) <= 1
    /\ Cardinality(unkept) <= faults + crashes * Cardinality(Requests)

(* The notes an operator writes on a call survive every callback, and      *)
(* writing them takes nothing back that a callback wrote.                  *)
NotesAndTimesAreKept ==
    [][\A i \in RowIds :
         /\ calls[i].notes => calls'[i].notes
         /\ calls[i].endedAt => calls'[i].endedAt
         /\ calls[i].recording => calls'[i].recording]_vars
=============================================================================
