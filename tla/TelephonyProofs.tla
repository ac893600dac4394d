--------------------------- MODULE TelephonyProofs ---------------------------
(***************************************************************************)
(* Theorems about calls, outgoing webhooks and contacts, for every value   *)
(* of the constants, with their proofs. The parts share no variable, so    *)
(* that the invariant of each is proved by itself; a step of the suite is  *)
(* a step of one part or leaves it alone.                                  *)
(***************************************************************************)
EXTENDS MCTelephony, Counting, SequenceTheorems

(* Every status Twilio moves a call to is one a payload may report. *)
LEMMA NextReported ==
    \A s \in {"queued", "initiated", "ringing", "in-progress"} : NextReports(s) \subseteq Reports
BY DEF NextReports, Reports, Status, Final

(* A row of the history belongs to a call that Twilio knows; an id without *)
(* a row holds nothing.                                                    *)
RowsAreOfCalls ==
    \A i \in RowIds :
        IF Exists(i) THEN calls[i].sid \in Sids /\ twilio[calls[i].sid].kind # "none"
                     ELSE calls[i] = NoRow

(* The status of a call is among those it has been in. *)
CallsRememberTheirStatus ==
    \A s \in Sids : IF twilio[s].kind = "none" THEN twilio[s] = NoCall
                                               ELSE twilio[s].status \in twilio[s].past

(* A callback on its way reports a status its call was in. *)
CallbacksWereSo == \A cb \in net : cb.status \in twilio[cb.sid].past

(* An updateStatus under way writes to a row that is there, and what it    *)
(* read and what it was told were both true of that row's call. This is    *)
(* what a late write back relies on: it may be old, never invented.        *)
HooksReadWhatWasSo ==
    \A h \in Hooks : hook[h] # IdleHook =>
        /\ hook[h].id \in RowIds /\ Exists(hook[h].id)
        /\ hook[h].report \in twilio[calls[hook[h].id].sid].past
        /\ hook[h].seen \in Final \cup {"in-progress"}
             => hook[h].seen \in twilio[calls[hook[h].id].sid].past

(* A makeCall holds a sid exactly between Twilio's answer and the insert,  *)
(* and it is the sid of a call placed over the API.                        *)
OnlySavesHoldASid ==
    \A r \in Requests : /\ req[r].pc = "save" <=> req[r].sid # NoSid
                        /\ req[r].pc = "save" => twilio[req[r].sid].kind = "api"

(* What every step of the voice module keeps. *)
VoiceInv == /\ TypeOK /\ RowsAreOfCalls /\ CallsRememberTheirStatus /\ CallbacksWereSo
            /\ HooksReadWhatWasSo /\ OnlySavesHoldASid /\ HistoryIsReported

(* A call that moves on is still a call. *)
LEMMA MovedType ==
    ASSUME NEW call \in TwilioCall, NEW status \in Reports
    PROVE  Moved(call, status) \in TwilioCall
<1>1. call.past \cup {status} \in SUBSET Reports
  BY DEF TwilioCall
<1>. QED
  BY <1>1 DEF Moved, TwilioCall

(* The call that does not exist yet, and the statuses the actions name. *)
LEMMA NoCallType == NoCall \in TwilioCall /\ {"queued", "ringing", "completed"} \subseteq Reports
BY DEF NoCall, TwilioCall, Reports, Status, Final

(* A callback sent for a call is one of the callbacks there are. *)
LEMMA ReportedType ==
    ASSUME NEW s \in Sids, NEW status \in Reports, Reported(s, status), net \in SUBSET Callback
    PROVE  net' \in SUBSET Callback
BY DEF Reported, Callback

(* updateStatus leaves a row of the table. *)
LEMMA WrittenType ==
    ASSUME NEW row \in CallRow, NEW seen \in Status, NEW report \in Reports
    PROVE  Written(row, seen, report) \in CallRow
BY DEF Written, Mapped, CallRow

(* A step keeps the types of the voice variables. *)
LEMMA VoiceTypes == ASSUME TypeOK, [Next]_vars, RowsAreOfCalls, OnlySavesHoldASid PROVE TypeOK'
<1>. USE CallAssumption DEF TypeOK
<1>1. ASSUME NEW r \in Requests, SaveCall(r) PROVE TypeOK'
  BY <1>1 DEF SaveCall, Insert, FreshId, OutboundRow, NoRow, CallRow, RequestRecord, OnlySavesHoldASid,
     Exists, Status, Final
<1>2. ASSUME NEW r \in Requests, SaveCallFails(r) PROVE TypeOK'
  BY <1>2 DEF SaveCallFails, RequestRecord
<1>3. ASSUME NEW r \in Requests, NEW s \in Sids, NEW answered \in BOOLEAN, PlaceCall(r, s, answered)
      PROVE  TypeOK'
  <2>1. [NoCall EXCEPT !.kind = "api"] \in TwilioCall
    BY NoCallType DEF TwilioCall
  <2>. QED
    BY <1>3, <2>1, NoCallType, MovedType DEF PlaceCall, RequestRecord
<1>4. ASSUME NEW i \in RowIds, UpdateCall(i) PROVE TypeOK'
  BY <1>4 DEF UpdateCall, CallRow
<1>5. ASSUME NEW i \in RowIds, Hangup(i) PROVE TypeOK'
  BY <1>5, NoCallType, MovedType, ReportedType DEF Hangup, RowsAreOfCalls
<1>6. ASSUME NEW s \in Sids, NEW kind \in {"browser", "caller"}, CallArrives(s, kind) PROVE TypeOK'
  BY <1>6 DEF CallArrives, Moved, NoCall, TwilioCall, Reports, Status
<1>7. ASSUME NEW s \in Sids, TwilioAdvances(s) PROVE TypeOK'
  <2>1. PICK next \in NextReports(twilio[s].status) :
           /\ twilio' = [twilio EXCEPT ![s] =
                [Moved(@, next) EXCEPT
                   !.fetching = @ \/ (next = "in-progress" /\ twilio[s].kind = "api")]]
           /\ Reported(s, next)
    BY <1>7 DEF TwilioAdvances
  <2>2. next \in Reports
    BY <1>7, NextReported DEF TwilioAdvances, Live
  <2>3. Moved(twilio[s], next) \in TwilioCall
    BY <2>2, MovedType
  <2>4. twilio' \in [Sids -> TwilioCall]
    BY <2>1, <2>3 DEF TwilioCall
  <2>. QED
    BY <1>7, <2>1, <2>2, <2>4, ReportedType DEF TwilioAdvances
<1>8. ASSUME NEW s \in Sids, VoiceWebhook(s) PROVE TypeOK'
  BY <1>8 DEF VoiceWebhook, Insert, FreshId, Exists, InboundRow, NoRow, CallRow, TwilioCall, Status, Final
<1>9. ASSUME NEW s \in Sids, VoiceWebhookFails(s) PROVE TypeOK'
  <2>1. [twilio[s] EXCEPT !.fetching = FALSE] \in TwilioCall
    BY DEF TwilioCall
  <2>. QED
    BY <1>9, <2>1, NoCallType, MovedType DEF VoiceWebhookFails
<1>10. ASSUME NEW s \in Sids, RecordingCallback(s) PROVE TypeOK'
  BY <1>10 DEF RecordingCallback, CallRow
<1>11. ASSUME NEW h \in Hooks, StatusUpdate(h) PROVE TypeOK'
  <2>1. hook[h].seen \in Status /\ hook[h].report \in Reports /\ IdleHook \in HookRecord
    BY DEF HookRecord, IdleHook, Reports, Status
  <2>. QED
    BY <1>11, <2>1, WrittenType DEF StatusUpdate
<1>12. ASSUME NEW h \in Hooks, NEW cb \in net, StatusRead(h, cb) PROVE TypeOK'
  <2>1. ASSUME NEW i \in RowIds
        PROVE  [id |-> i, seen |-> calls[i].status, report |-> cb.status] \in HookRecord
    BY DEF HookRecord, Callback, CallRow
  <2>. QED
    BY <1>12, <2>1 DEF StatusRead, RowsWith
<1>13. CASE Crash
  BY <1>13 DEF Crash, HookRecord, IdleHook, RequestRecord, Reports, Status
<1>14. CASE UNCHANGED vars
  BY <1>14 DEF vars
<1>. QED
  BY <1>1, <1>2, <1>3, <1>4, <1>5, <1>6, <1>7, <1>8, <1>9, <1>10, <1>11, <1>12, <1>13, <1>14 DEF Next

(* Twilio forgets no status a call has been in, and no row is taken away.  *)
PastAndRowsKept ==
    /\ \A s \in Sids : /\ twilio[s].past \subseteq twilio'[s].past
                       /\ twilio[s].kind # "none" => twilio'[s].kind = twilio[s].kind
    /\ \A i \in RowIds : Exists(i) => /\ Exists(i)' /\ calls'[i].sid = calls[i].sid
                                      /\ calls'[i].direction = calls[i].direction

(* ... from which the facts about the past of a call survive every step. *)
LEMMA PastIsKept ==
    ASSUME TypeOK, RowsAreOfCalls, CallsRememberTheirStatus, OnlySavesHoldASid, [Next]_vars
    PROVE  PastAndRowsKept
<1>. DEFINE Kept == \A s \in Sids : /\ twilio[s].past \subseteq twilio'[s].past
                                    /\ twilio[s].kind # "none" => twilio'[s].kind = twilio[s].kind
            Stay == \A i \in RowIds : Exists(i) => /\ Exists(i)' /\ calls'[i].sid = calls[i].sid
                                                   /\ calls'[i].direction = calls[i].direction
<1>. USE CallAssumption DEF TypeOK, Exists
<1>i. ASSUME NEW row, row.direction # "absent", Insert(row) PROVE Stay
  BY <1>i DEF Insert, FreshId
<1>m. ASSUME NEW s \in Sids, NEW call \in TwilioCall, NEW status,
             twilio[s].past \subseteq call.past, twilio[s].kind = "none" \/ call.kind = twilio[s].kind,
             twilio' = [twilio EXCEPT ![s] = Moved(call, status)]
      PROVE  Kept
  BY <1>m DEF Moved, TwilioCall
<1>1. ASSUME NEW r \in Requests, SaveCall(r) PROVE Kept /\ Stay
  BY <1>1, <1>i DEF SaveCall, OutboundRow, NoRow
<1>2. ASSUME NEW r \in Requests, SaveCallFails(r) PROVE Kept /\ Stay
  BY <1>2 DEF SaveCallFails
<1>3. ASSUME NEW r \in Requests, NEW s \in Sids, NEW answered \in BOOLEAN, PlaceCall(r, s, answered)
      PROVE  Kept /\ Stay
  BY <1>3 DEF PlaceCall, IsFreshSid, NoCall, Moved
<1>4. ASSUME NEW i \in RowIds, UpdateCall(i) PROVE Kept /\ Stay
  BY <1>4 DEF UpdateCall, CallRow
<1>5. ASSUME NEW i \in RowIds, Hangup(i) PROVE Kept /\ Stay
  BY <1>5, <1>m DEF Hangup, RowsAreOfCalls
<1>6. ASSUME NEW s \in Sids, NEW kind \in {"browser", "caller"}, CallArrives(s, kind)
      PROVE  Kept /\ Stay
  BY <1>6 DEF CallArrives, IsFreshSid, NoCall, Moved
<1>7. ASSUME NEW s \in Sids, TwilioAdvances(s) PROVE Kept /\ Stay
  BY <1>7 DEF TwilioAdvances, Moved, TwilioCall
<1>8. ASSUME NEW s \in Sids, VoiceWebhook(s) PROVE Kept /\ Stay
  BY <1>8, <1>i DEF VoiceWebhook, InboundRow, NoRow, TwilioCall
<1>9. ASSUME NEW s \in Sids, VoiceWebhookFails(s) PROVE Kept /\ Stay
  BY <1>9 DEF VoiceWebhookFails, Moved, TwilioCall
<1>10. ASSUME NEW s \in Sids, RecordingCallback(s) PROVE Kept /\ Stay
  BY <1>10 DEF RecordingCallback, CallRow
<1>11. ASSUME NEW h \in Hooks, StatusUpdate(h) PROVE Kept /\ Stay
  BY <1>11 DEF StatusUpdate, Written, CallRow
<1>12. ASSUME NEW h \in Hooks, NEW cb \in net, StatusRead(h, cb) PROVE Kept /\ Stay
  BY <1>12 DEF StatusRead
<1>13. CASE Crash
  BY <1>13 DEF Crash, PastAndRowsKept
<1>14. CASE UNCHANGED vars
  BY <1>14 DEF vars, PastAndRowsKept
<1>. QED
  BY <1>1, <1>2, <1>3, <1>4, <1>5, <1>6, <1>7, <1>8, <1>9, <1>10, <1>11, <1>12, <1>13, <1>14 DEF Next,
     PastAndRowsKept

(* A step leaves every row with a call of its own. *)
LEMMA VoiceRows ==
    ASSUME TypeOK, RowsAreOfCalls, CallsRememberTheirStatus, OnlySavesHoldASid,
           HooksReadWhatWasSo, [Next]_vars
    PROVE  RowsAreOfCalls'
<1>p. PastAndRowsKept
  BY PastIsKept
<1>. USE <1>p, CallAssumption DEF TypeOK, RowsAreOfCalls, OnlySavesHoldASid, Exists, PastAndRowsKept
<1>1. ASSUME NEW r \in Requests, SaveCall(r) PROVE RowsAreOfCalls'
  BY <1>1 DEF SaveCall, RequestRecord, Insert, FreshId, OutboundRow, NoRow
<1>2. ASSUME NEW r \in Requests, SaveCallFails(r) PROVE RowsAreOfCalls'
  BY <1>2 DEF SaveCallFails
<1>3. ASSUME NEW r \in Requests, NEW s \in Sids, NEW answered \in BOOLEAN, PlaceCall(r, s, answered)
      PROVE  RowsAreOfCalls'
  BY <1>3 DEF PlaceCall
<1>4. ASSUME NEW i \in RowIds, UpdateCall(i) PROVE RowsAreOfCalls'
  BY <1>4 DEF UpdateCall, CallRow
<1>5. ASSUME NEW i \in RowIds, Hangup(i) PROVE RowsAreOfCalls'
  BY <1>5 DEF Hangup
<1>6. ASSUME NEW s \in Sids, NEW kind \in {"browser", "caller"}, CallArrives(s, kind) PROVE RowsAreOfCalls'
  BY <1>6 DEF CallArrives
<1>7. ASSUME NEW s \in Sids, TwilioAdvances(s) PROVE RowsAreOfCalls'
  BY <1>7 DEF TwilioAdvances
<1>8. ASSUME NEW s \in Sids, VoiceWebhook(s) PROVE RowsAreOfCalls'
  BY <1>8 DEF VoiceWebhook, Insert, FreshId, InboundRow, NoRow, NoCall, CallsRememberTheirStatus
<1>9. ASSUME NEW s \in Sids, VoiceWebhookFails(s) PROVE RowsAreOfCalls'
  <2>1. UNCHANGED calls
    BY <1>9 DEF VoiceWebhookFails
  <2>. QED
    BY <2>1
<1>10. ASSUME NEW s \in Sids, RecordingCallback(s) PROVE RowsAreOfCalls'
  BY <1>10 DEF RecordingCallback, RowsWith, CallRow
<1>11. ASSUME NEW h \in Hooks, StatusUpdate(h) PROVE RowsAreOfCalls'
  BY <1>11 DEF StatusUpdate, HooksReadWhatWasSo, Written, CallRow
<1>12. ASSUME NEW h \in Hooks, NEW cb \in net, StatusRead(h, cb) PROVE RowsAreOfCalls'
  BY <1>12 DEF StatusRead
<1>13. CASE Crash
  BY <1>13 DEF Crash
<1>14. CASE UNCHANGED vars
  BY <1>14 DEF vars
<1>. QED
  BY <1>1, <1>2, <1>3, <1>4, <1>5, <1>6, <1>7, <1>8, <1>9, <1>10, <1>11, <1>12, <1>13, <1>14 DEF Next

(* A step leaves every call with a status it has been in. *)
LEMMA VoiceStatuses ==
    ASSUME TypeOK, RowsAreOfCalls, CallsRememberTheirStatus, OnlySavesHoldASid, [Next]_vars
    PROVE  CallsRememberTheirStatus'
<1>. USE CallAssumption DEF TypeOK, CallsRememberTheirStatus
<1>1. ASSUME NEW r \in Requests, SaveCall(r) PROVE CallsRememberTheirStatus'
  BY <1>1 DEF SaveCall
<1>2. ASSUME NEW r \in Requests, SaveCallFails(r) PROVE CallsRememberTheirStatus'
  BY <1>2 DEF SaveCallFails
<1>3. ASSUME NEW r \in Requests, NEW s \in Sids, NEW answered \in BOOLEAN, PlaceCall(r, s, answered)
      PROVE  CallsRememberTheirStatus'
  BY <1>3 DEF PlaceCall, Moved, NoCall
<1>4. ASSUME NEW i \in RowIds, UpdateCall(i) PROVE CallsRememberTheirStatus'
  BY <1>4 DEF UpdateCall
<1>5. ASSUME NEW i \in RowIds, Hangup(i) PROVE CallsRememberTheirStatus'
  BY <1>5 DEF Hangup, Moved, TwilioCall, RowsAreOfCalls
<1>6. ASSUME NEW s \in Sids, NEW kind \in {"browser", "caller"}, CallArrives(s, kind)
      PROVE  CallsRememberTheirStatus'
  BY <1>6 DEF CallArrives, Moved, NoCall
<1>7. ASSUME NEW s \in Sids, TwilioAdvances(s) PROVE CallsRememberTheirStatus'
  BY <1>7 DEF TwilioAdvances, Moved, TwilioCall
<1>8. ASSUME NEW s \in Sids, VoiceWebhook(s) PROVE CallsRememberTheirStatus'
  <2>1. twilio[s].kind # "none"
    BY <1>8 DEF VoiceWebhook, NoCall
  <2>. QED
    BY <1>8, <2>1 DEF VoiceWebhook, TwilioCall
<1>9. ASSUME NEW s \in Sids, VoiceWebhookFails(s) PROVE CallsRememberTheirStatus'
  <2>1. twilio[s].kind # "none"
    BY <1>9 DEF VoiceWebhookFails, NoCall
  <2>. QED
    BY <1>9, <2>1 DEF VoiceWebhookFails, Moved, TwilioCall
<1>10. ASSUME NEW s \in Sids, RecordingCallback(s) PROVE CallsRememberTheirStatus'
  BY <1>10 DEF RecordingCallback
<1>11. ASSUME NEW h \in Hooks, StatusUpdate(h) PROVE CallsRememberTheirStatus'
  BY <1>11 DEF StatusUpdate
<1>12. ASSUME NEW h \in Hooks, NEW cb \in net, StatusRead(h, cb) PROVE CallsRememberTheirStatus'
  BY <1>12 DEF StatusRead
<1>13. CASE Crash
  BY <1>13 DEF Crash
<1>14. CASE UNCHANGED vars
  BY <1>14 DEF vars
<1>. QED
  BY <1>1, <1>2, <1>3, <1>4, <1>5, <1>6, <1>7, <1>8, <1>9, <1>10, <1>11, <1>12, <1>13, <1>14 DEF Next

(* Every callback a step sends is of a status the call was in. *)
LEMMA VoiceCallbacks ==
    ASSUME TypeOK, RowsAreOfCalls, CallsRememberTheirStatus, OnlySavesHoldASid, CallbacksWereSo, [Next]_vars
    PROVE  CallbacksWereSo'
<1>p. PastAndRowsKept
  BY PastIsKept
<1>. USE <1>p, CallAssumption DEF TypeOK, CallbacksWereSo, Callback, PastAndRowsKept
<1>1. ASSUME NEW r \in Requests, SaveCall(r) PROVE CallbacksWereSo'
  BY <1>1 DEF SaveCall
<1>2. ASSUME NEW r \in Requests, SaveCallFails(r) PROVE CallbacksWereSo'
  BY <1>2 DEF SaveCallFails
<1>3. ASSUME NEW r \in Requests, NEW s \in Sids, NEW answered \in BOOLEAN, PlaceCall(r, s, answered)
      PROVE  CallbacksWereSo'
  BY <1>3 DEF PlaceCall
<1>4. ASSUME NEW i \in RowIds, UpdateCall(i) PROVE CallbacksWereSo'
  BY <1>4 DEF UpdateCall
<1>5. ASSUME NEW i \in RowIds, Hangup(i) PROVE CallbacksWereSo'
  BY <1>5 DEF Hangup, Reported, Moved, TwilioCall, RowsAreOfCalls
<1>6. ASSUME NEW s \in Sids, NEW kind \in {"browser", "caller"}, CallArrives(s, kind) PROVE CallbacksWereSo'
  BY <1>6 DEF CallArrives
<1>7. ASSUME NEW s \in Sids, TwilioAdvances(s) PROVE CallbacksWereSo'
  BY <1>7 DEF TwilioAdvances, Reported, Moved, TwilioCall
<1>8. ASSUME NEW s \in Sids, VoiceWebhook(s) PROVE CallbacksWereSo'
  BY <1>8 DEF VoiceWebhook
<1>9. ASSUME NEW s \in Sids, VoiceWebhookFails(s) PROVE CallbacksWereSo'
  BY <1>9 DEF VoiceWebhookFails
<1>10. ASSUME NEW s \in Sids, RecordingCallback(s) PROVE CallbacksWereSo'
  BY <1>10 DEF RecordingCallback
<1>11. ASSUME NEW h \in Hooks, StatusUpdate(h) PROVE CallbacksWereSo'
  BY <1>11 DEF StatusUpdate
<1>12. ASSUME NEW h \in Hooks, NEW cb \in net, StatusRead(h, cb) PROVE CallbacksWereSo'
  BY <1>12 DEF StatusRead
<1>13. CASE Crash
  BY <1>13 DEF Crash
<1>14. CASE UNCHANGED vars
  BY <1>14 DEF vars
<1>. QED
  BY <1>1, <1>2, <1>3, <1>4, <1>5, <1>6, <1>7, <1>8, <1>9, <1>10, <1>11, <1>12, <1>13, <1>14 DEF Next

(* A sid is held only between Twilio's answer and the insert, after a step *)
(* too.                                                                    *)
LEMMA VoiceRequests ==
    ASSUME TypeOK, RowsAreOfCalls, CallsRememberTheirStatus, OnlySavesHoldASid, [Next]_vars
    PROVE  OnlySavesHoldASid'
<1>p. PastAndRowsKept
  BY PastIsKept
<1>. USE <1>p, CallAssumption DEF TypeOK, OnlySavesHoldASid, RequestRecord, PastAndRowsKept
<1>1. ASSUME NEW r \in Requests, SaveCall(r) PROVE OnlySavesHoldASid'
  BY <1>1 DEF SaveCall
<1>2. ASSUME NEW r \in Requests, SaveCallFails(r) PROVE OnlySavesHoldASid'
  BY <1>2 DEF SaveCallFails
<1>3. ASSUME NEW r \in Requests, NEW s \in Sids, NEW answered \in BOOLEAN, PlaceCall(r, s, answered)
      PROVE  OnlySavesHoldASid'
  BY <1>3 DEF PlaceCall, Moved, NoCall, IsFreshSid
<1>4. ASSUME NEW i \in RowIds, UpdateCall(i) PROVE OnlySavesHoldASid'
  BY <1>4 DEF UpdateCall
<1>5. ASSUME NEW i \in RowIds, Hangup(i) PROVE OnlySavesHoldASid'
  BY <1>5 DEF Hangup
<1>6. ASSUME NEW s \in Sids, NEW kind \in {"browser", "caller"}, CallArrives(s, kind) PROVE OnlySavesHoldASid'
  BY <1>6 DEF CallArrives
<1>7. ASSUME NEW s \in Sids, TwilioAdvances(s) PROVE OnlySavesHoldASid'
  BY <1>7 DEF TwilioAdvances
<1>8. ASSUME NEW s \in Sids, VoiceWebhook(s) PROVE OnlySavesHoldASid'
  BY <1>8 DEF VoiceWebhook
<1>9. ASSUME NEW s \in Sids, VoiceWebhookFails(s) PROVE OnlySavesHoldASid'
  BY <1>9 DEF VoiceWebhookFails
<1>10. ASSUME NEW s \in Sids, RecordingCallback(s) PROVE OnlySavesHoldASid'
  BY <1>10 DEF RecordingCallback
<1>11. ASSUME NEW h \in Hooks, StatusUpdate(h) PROVE OnlySavesHoldASid'
  BY <1>11 DEF StatusUpdate
<1>12. ASSUME NEW h \in Hooks, NEW cb \in net, StatusRead(h, cb) PROVE OnlySavesHoldASid'
  BY <1>12 DEF StatusRead
<1>13. CASE Crash
  BY <1>13 DEF Crash
<1>14. CASE UNCHANGED vars
  BY <1>14 DEF vars
<1>. QED
  BY <1>1, <1>2, <1>3, <1>4, <1>5, <1>6, <1>7, <1>8, <1>9, <1>10, <1>11, <1>12, <1>13, <1>14 DEF Next

(* What a step writes into the history was so. The step that matters is    *)
(* StatusUpdate, which writes back a status it read earlier when the       *)
(* report is one statusMap lacks.                                          *)
LEMMA VoiceHistory ==
    ASSUME VoiceInv, [Next]_vars
    PROVE  HistoryIsReported'
<1>p. PastAndRowsKept
  BY PastIsKept DEF VoiceInv
<1>. USE <1>p, CallAssumption DEF VoiceInv, TypeOK, HistoryIsReported, PastAndRowsKept, RowsAreOfCalls
<1>1. ASSUME NEW r \in Requests, SaveCall(r) PROVE HistoryIsReported'
  BY <1>1 DEF SaveCall, Insert, FreshId, OutboundRow, NoRow, Exists, Final
<1>4. ASSUME NEW i \in RowIds, UpdateCall(i) PROVE HistoryIsReported'
  BY <1>4 DEF UpdateCall, CallRow, Exists
<1>8. ASSUME NEW s \in Sids, VoiceWebhook(s) PROVE HistoryIsReported'
  BY <1>8 DEF VoiceWebhook, Insert, FreshId, InboundRow, NoRow, Exists, Final
<1>10. ASSUME NEW s \in Sids, RecordingCallback(s) PROVE HistoryIsReported'
  <2>1. "completed" \in twilio[s].past
    BY <1>10 DEF RecordingCallback, CallsRememberTheirStatus
  <2>. QED
    BY <1>10, <2>1 DEF RecordingCallback, RowsWith, CallRow, Exists
<1>11. ASSUME NEW h \in Hooks, StatusUpdate(h) PROVE HistoryIsReported'
  <2>. DEFINE i == hook[h].id
  <2>1. /\ i \in RowIds /\ Exists(i) /\ hook[h].report \in twilio[calls[i].sid].past
        /\ hook[h].seen \in Final \cup {"in-progress"} => hook[h].seen \in twilio[calls[i].sid].past
    BY <1>11 DEF StatusUpdate, HooksReadWhatWasSo
  <2>2. calls' = [calls EXCEPT ![i] = Written(calls[i], hook[h].seen, hook[h].report)]
    BY <1>11 DEF StatusUpdate
  <2>. QED
    BY <1>11, <2>1, <2>2 DEF StatusUpdate, Written, Mapped, CallRow, Exists
<1>2. CASE UNCHANGED calls
  BY <1>2 DEF Exists
<1>. QED
  BY <1>1, <1>2, <1>4, <1>8, <1>10, <1>11
  DEF Next, vars, SaveCallFails, PlaceCall, Hangup, CallArrives, TwilioAdvances,
      VoiceWebhookFails, StatusRead, Crash

(* What an updateStatus read and was told stays true until it writes. *)
LEMMA VoiceHooks ==
    ASSUME VoiceInv, [Next]_vars
    PROVE  HooksReadWhatWasSo'
<1>p. PastAndRowsKept
  BY PastIsKept DEF VoiceInv
<1>. USE <1>p, CallAssumption DEF VoiceInv, TypeOK, HooksReadWhatWasSo, PastAndRowsKept, RowsAreOfCalls
<1>11. ASSUME NEW h \in Hooks, StatusUpdate(h) PROVE HooksReadWhatWasSo'
  BY <1>11 DEF StatusUpdate
<1>12. ASSUME NEW h \in Hooks, NEW cb \in net, StatusRead(h, cb) PROVE HooksReadWhatWasSo'
  <2>1. CASE UNCHANGED hook
    BY <1>12, <2>1
  <2>2. ASSUME NEW i \in RowsWith(cb.sid),
               hook' = [hook EXCEPT ![h] = [id |-> i, seen |-> calls[i].status, report |-> cb.status]]
        PROVE  HooksReadWhatWasSo'
    <3>1. i \in RowIds /\ Exists(i) /\ calls[i].sid = cb.sid /\ cb.status \in twilio[cb.sid].past
      BY DEF RowsWith, CallbacksWereSo
    <3>2. calls[i].status \in Final \cup {"in-progress"} => calls[i].status \in twilio[cb.sid].past
      BY <3>1 DEF HistoryIsReported
    <3>. QED
      BY <2>2, <3>1, <3>2
  <2>. QED
    BY <1>12, <2>1, <2>2 DEF StatusRead
<1>13. CASE Crash
  BY <1>13 DEF Crash
<1>2. CASE UNCHANGED hook
  BY <1>2
<1>. QED
  BY <1>2, <1>11, <1>12, <1>13
  DEF Next, vars, SaveCall, SaveCallFails, PlaceCall, UpdateCall, Hangup, CallArrives, TwilioAdvances,
      VoiceWebhook, VoiceWebhookFails, RecordingCallback

(* No two outbound rows, no two requests, and no row and a request have    *)
(* the same sid: the sid of a placed call is either being saved or saved,  *)
(* once.                                                                   *)
OutboundAreSingle ==
    /\ \A i, j \in RowIds :
         calls[i].direction = "outbound" /\ calls[j].direction = "outbound"
         /\ calls[i].sid = calls[j].sid => i = j
    /\ \A r, q \in Requests : req[r].sid = req[q].sid /\ req[r].sid # NoSid => r = q
    /\ \A r \in Requests, i \in RowIds :
         calls[i].direction = "outbound" => req[r].sid # calls[i].sid

(* No step saves a call a second time. *)
LEMMA OutboundStep ==
    ASSUME VoiceInv, OutboundAreSingle, [Next]_vars
    PROVE  OutboundAreSingle'
<1>. USE CallAssumption DEF VoiceInv, TypeOK, OutboundAreSingle, RequestRecord
<1>1. ASSUME NEW r \in Requests, SaveCall(r) PROVE OutboundAreSingle'
  <2>1. PICK i \in RowIds : ~Exists(i) /\ calls' = [calls EXCEPT ![i] = OutboundRow(req[r].sid)]
    BY <1>1 DEF SaveCall, Insert, FreshId
  <2>2. req[r].sid # NoSid /\ req' = [req EXCEPT ![r] = [pc |-> "done", sid |-> NoSid]]
    BY <1>1 DEF SaveCall, OnlySavesHoldASid
  <2>3. \A j \in RowIds : j # i => calls'[j] = calls[j]
    BY <2>1
  <2>4. calls'[i].direction = "outbound" /\ calls'[i].sid = req[r].sid
    BY <2>1 DEF OutboundRow, NoRow
  <2>5. ASSUME NEW a \in RowIds, NEW b \in RowIds, calls'[a].direction = "outbound",
               calls'[b].direction = "outbound", calls'[a].sid = calls'[b].sid
        PROVE  a = b
    <3>1. CASE a = i \/ b = i
      BY <2>3, <2>4, <2>5, <3>1
    <3>2. CASE a # i /\ b # i
      BY <2>3, <2>5, <3>2
    <3>. QED
      BY <3>1, <3>2
  <2>6. \A q \in Requests : q # r => req'[q] = req[q]
    BY <2>2
  <2>7. req'[r].sid = NoSid
    BY <2>2
  <2>8. ASSUME NEW q \in Requests, NEW a \in RowIds, calls'[a].direction = "outbound"
        PROVE  req'[q].sid # calls'[a].sid
    <3>1. calls'[a].sid \in Sids
      BY <2>3, <2>4, <2>8, <2>2 DEF RowsAreOfCalls, Exists, NoRow
    <3>2. CASE q = r
      BY <2>7, <3>1, <3>2
    <3>3. CASE q # r /\ a = i
      BY <2>6, <2>4, <2>2, <3>3
    <3>4. CASE q # r /\ a # i
      BY <2>6, <2>3, <2>8, <3>4
    <3>. QED
      BY <3>2, <3>3, <3>4
  <2>. QED
    BY <2>5, <2>6, <2>7, <2>8
<1>2. ASSUME NEW r \in Requests, SaveCallFails(r) PROVE OutboundAreSingle'
  BY <1>2 DEF SaveCallFails, RowsAreOfCalls, NoRow, Exists
<1>3. ASSUME NEW r \in Requests, NEW s \in Sids, NEW answered \in BOOLEAN, PlaceCall(r, s, answered)
      PROVE  OutboundAreSingle'
  <2>1. \A i \in RowIds : calls[i].direction = "outbound" => calls[i].sid # s
    BY <1>3 DEF PlaceCall, IsFreshSid, NoCall, RowsAreOfCalls, Exists
  <2>2. \A q \in Requests : req[q].sid # s
    BY <1>3 DEF PlaceCall, IsFreshSid, NoCall, OnlySavesHoldASid
  <2>. QED
    BY <1>3, <2>1, <2>2 DEF PlaceCall
<1>4. ASSUME NEW i \in RowIds, UpdateCall(i) PROVE OutboundAreSingle'
  BY <1>4 DEF UpdateCall, CallRow
<1>8. ASSUME NEW s \in Sids, VoiceWebhook(s) PROVE OutboundAreSingle'
  BY <1>8 DEF VoiceWebhook, Insert, FreshId, InboundRow, NoRow
<1>10. ASSUME NEW s \in Sids, RecordingCallback(s) PROVE OutboundAreSingle'
  BY <1>10 DEF RecordingCallback, CallRow
<1>11. ASSUME NEW h \in Hooks, StatusUpdate(h) PROVE OutboundAreSingle'
  BY <1>11 DEF StatusUpdate, Written, CallRow
<1>13. CASE Crash
  BY <1>13 DEF Crash, RowsAreOfCalls, NoRow, Exists
<1>14. CASE UNCHANGED <<calls, req>>
  BY <1>14
<1>. HIDE DEF VoiceInv, TypeOK, OutboundAreSingle, RequestRecord
<1>. QED
  BY <1>1, <1>2, <1>3, <1>4, <1>8, <1>10, <1>11, <1>13, <1>14
  DEF Next, vars, Hangup, CallArrives, TwilioAdvances, VoiceWebhookFails, StatusRead

(* The rows makeCall inserted for a call. *)
Outbound(s) == {i \in RowsWith(s) : calls[i].direction = "outbound"}
(* A makeCall that still has the call to insert. *)
Saving(s)   == \E r \in Requests : req[r].sid = s
(* The calls placed for a user that are neither saved nor being saved. *)
Unkept      == {s \in Sids : twilio[s].kind = "api" /\ Outbound(s) = {} /\ ~Saving(s)}

(* Each of those is the price of a failure, or of a crash that ended a     *)
(* request.                                                                *)
UnkeptArePaidFor == Cardinality(Unkept) <= faults + crashes * Cardinality(Requests)

(* A step adds a call to those only when it fails, one call at most, or    *)
(* when it is a crash, which ends every request.                           *)
LEMMA UnkeptMoves ==
    ASSUME VoiceInv, OutboundAreSingle, [Next]_vars
    PROVE  \/ Unkept' \subseteq Unkept /\ faults' \in {faults, faults + 1} /\ UNCHANGED crashes
           \/ /\ \E s \in Sids : Unkept' \subseteq Unkept \cup {s}
              /\ faults' = faults + 1 /\ UNCHANGED crashes
           \/ /\ Unkept' \subseteq Unkept \cup {req[r].sid : r \in Requests}
              /\ crashes' = crashes + 1 /\ UNCHANGED faults
<1>. DEFINE Goal == \/ Unkept' \subseteq Unkept /\ faults' \in {faults, faults + 1} /\ UNCHANGED crashes
                    \/ /\ \E s \in Sids : Unkept' \subseteq Unkept \cup {s}
                       /\ faults' = faults + 1 /\ UNCHANGED crashes
                    \/ /\ Unkept' \subseteq Unkept \cup {req[r].sid : r \in Requests}
                       /\ crashes' = crashes + 1 /\ UNCHANGED faults
<1>p. PastAndRowsKept
  BY PastIsKept DEF VoiceInv
<1>o. \A s \in Sids : Outbound(s) # {} => Outbound(s)' # {}
  BY <1>p DEF PastAndRowsKept, Outbound, RowsWith
<1>. USE CallAssumption DEF VoiceInv, TypeOK, RequestRecord, Unkept, Saving
<1>1. ASSUME NEW r \in Requests, SaveCall(r) PROVE Goal
  <2>s. PICK s \in Sids : s = req[r].sid
    BY <1>1 DEF SaveCall, OnlySavesHoldASid
  <2>1. PICK i \in RowIds : calls' = [calls EXCEPT ![i] = OutboundRow(s)]
    BY <1>1, <2>s DEF SaveCall, Insert, FreshId
  <2>2. calls'[i].direction = "outbound" /\ calls'[i].sid = s
    BY <2>1 DEF OutboundRow, NoRow
  <2>3. Outbound(s)' # {}
    BY <2>2 DEF Outbound, RowsWith, Exists
  <2>4. UNCHANGED <<twilio, faults, crashes>> /\ \A q \in Requests : q # r => req'[q] = req[q]
    BY <1>1 DEF SaveCall
  <2>5. Unkept' \subseteq Unkept
    BY <2>3, <2>4, <2>s, <1>o
  <2>. QED
    BY <2>4, <2>5
<1>2. ASSUME NEW r \in Requests, SaveCallFails(r) PROVE Goal
  <2>1. req[r].sid \in Sids
    BY <1>2 DEF SaveCallFails, OnlySavesHoldASid
  <2>2. Unkept' \subseteq Unkept \cup {req[r].sid}
    BY <1>2, <1>o DEF SaveCallFails
  <2>. QED
    BY <1>2, <2>1, <2>2 DEF SaveCallFails
<1>3. ASSUME NEW r \in Requests, NEW s \in Sids, NEW answered \in BOOLEAN, PlaceCall(r, s, answered)
      PROVE  Goal
  <2>1. \A t \in Sids \ {s} : twilio'[t] = twilio[t]
    BY <1>3 DEF PlaceCall
  <2>2. req[r].sid = NoSid
    BY <1>3 DEF PlaceCall, OnlySavesHoldASid
  <2>3. \A t \in Sids \ {s} : Saving(t) => Saving(t)'
    BY <1>3, <2>2 DEF PlaceCall
  <2>4. Unkept' \subseteq Unkept \cup {s}
    BY <2>1, <2>3, <1>o
  <2>5. CASE answered
    <3>1. Saving(s)' /\ UNCHANGED <<faults, crashes>>
      BY <1>3, <2>5 DEF PlaceCall
    <3>. QED
      BY <3>1, <2>4
  <2>6. CASE ~answered
    BY <1>3, <2>4, <2>6 DEF PlaceCall
  <2>. QED
    BY <2>5, <2>6
<1>4. ASSUME Crash PROVE Goal
  BY <1>4, <1>o DEF Crash
<1>5. ASSUME UNCHANGED <<req, crashes>>, faults' \in {faults, faults + 1},
             \A s \in Sids : twilio'[s].kind = "api" => twilio[s].kind = "api"
      PROVE  Goal
  BY <1>5, <1>o
<1>6. ASSUME UNCHANGED <<req, twilio, faults, crashes>> PROVE Goal
  BY <1>5, <1>6
<1>7. ASSUME NEW i \in RowIds, Hangup(i) PROVE Goal
  <2>1. \A s \in Sids : twilio'[s].kind = twilio[s].kind
    BY <1>7 DEF Hangup, Moved, TwilioCall
  <2>. QED
    BY <1>5, <1>7, <2>1 DEF Hangup
<1>8. ASSUME NEW s \in Sids, NEW kind \in {"browser", "caller"}, CallArrives(s, kind) PROVE Goal
  BY <1>5, <1>8 DEF CallArrives, Moved, NoCall
<1>9. ASSUME NEW s \in Sids, TwilioAdvances(s) PROVE Goal
  <2>1. \A t \in Sids : twilio'[t].kind = twilio[t].kind
    BY <1>9 DEF TwilioAdvances, Moved, TwilioCall
  <2>. QED
    BY <1>5, <1>9, <2>1 DEF TwilioAdvances
<1>10. ASSUME NEW s \in Sids, VoiceWebhook(s) PROVE Goal
  BY <1>5, <1>10 DEF VoiceWebhook, TwilioCall
<1>11. ASSUME NEW s \in Sids, VoiceWebhookFails(s) PROVE Goal
  <2>1. \A t \in Sids : twilio'[t].kind = twilio[t].kind
    BY <1>11 DEF VoiceWebhookFails, Moved, TwilioCall
  <2>. QED
    BY <1>5, <1>11, <2>1 DEF VoiceWebhookFails
<1>. HIDE DEF VoiceInv, TypeOK, RequestRecord, Unkept, Saving
<1>12. Goal
  <2>. HIDE DEF Goal
  <2>1. ASSUME UNCHANGED vars PROVE Goal
    BY <2>1, <1>6 DEF vars
  <2>2. ASSUME NEW i \in RowIds, UpdateCall(i) PROVE Goal
    BY <2>2, <1>6 DEF UpdateCall
  <2>3. ASSUME NEW s \in Sids, RecordingCallback(s) PROVE Goal
    BY <2>3, <1>6 DEF RecordingCallback
  <2>4. ASSUME NEW h \in Hooks, StatusUpdate(h) \/ \E cb \in net : StatusRead(h, cb) PROVE Goal
    BY <2>4, <1>6 DEF StatusUpdate, StatusRead
  <2>. QED
    BY <1>1, <1>2, <1>3, <1>4, <1>7, <1>8, <1>9, <1>10, <1>11, <2>1, <2>2, <2>3, <2>4 DEF Next
<1>. QED
  BY <1>12

(* A step keeps the balance of lost calls, failures and crashes. *)
LEMMA UnkeptStep ==
    ASSUME VoiceInv, OutboundAreSingle, UnkeptArePaidFor, [Next]_vars
    PROVE  UnkeptArePaidFor'
<1>. DEFINE D == Cardinality(Requests)
<1>1. IsFiniteSet(Unkept) /\ Cardinality(Unkept) \in Nat /\ D \in Nat
      /\ faults \in Nat /\ crashes \in Nat
  BY CallAssumption, CountPart, FS_CardinalityType DEF Unkept, VoiceInv, TypeOK
<1>2. /\ IsFiniteSet(Unkept') /\ Cardinality(Unkept') \in Nat
  BY CallAssumption, CountPart DEF Unkept
<1>3. crashes * D \in Nat /\ (crashes + 1) * D = crashes * D + D
  BY <1>1, OneMoreTime
<1>4. Cardinality(Unkept) <= faults + crashes * D
  BY DEF UnkeptArePaidFor
<1>g. UnkeptArePaidFor' <=> Cardinality(Unkept') <= faults' + crashes' * D
  BY DEF UnkeptArePaidFor
<1>5. CASE Unkept' \subseteq Unkept /\ faults' \in {faults, faults + 1} /\ UNCHANGED crashes
  <2>1. Cardinality(Unkept') <= Cardinality(Unkept)
    BY <1>1, <1>5, CountPart
  <2>. QED
    BY <1>1, <1>2, <1>3, <1>4, <1>g, <1>5, <2>1
<1>6. ASSUME NEW s \in Sids, Unkept' \subseteq Unkept \cup {s}, faults' = faults + 1, UNCHANGED crashes
      PROVE  UnkeptArePaidFor'
  <2>1. Cardinality(Unkept') <= Cardinality(Unkept) + 1
    BY <1>1, <1>6, CountOneMore
  <2>. QED
    BY <1>1, <1>2, <1>3, <1>4, <1>g, <1>6, <2>1
<1>7. CASE /\ Unkept' \subseteq Unkept \cup {req[r].sid : r \in Requests}
           /\ crashes' = crashes + 1 /\ UNCHANGED faults
  <2>. DEFINE f == [r \in Requests |-> req[r].sid]
              T == {f[r] : r \in Requests}
  <2>1. IsFiniteSet(T) /\ Cardinality(T) <= D
    BY CallAssumption, CountImage
  <2>2. Unkept' \subseteq Unkept \cup T
    BY <1>7
  <2>. HIDE DEF T
  <2>3. Cardinality(Unkept') <= Cardinality(Unkept) + Cardinality(T)
    BY <1>1, <2>1, <2>2, CountTogether
  <2>4. Cardinality(T) \in Nat
    BY <2>1, FS_CardinalityType
  <2>. QED
    BY <1>1, <1>2, <1>3, <1>4, <1>g, <1>7, <2>1, <2>3, <2>4
<1>. QED
  BY <1>5, <1>6, <1>7, UnkeptMoves

(* The initial states satisfy the invariant. *)
LEMMA VoiceInit == Init => VoiceInv /\ OutboundAreSingle /\ UnkeptArePaidFor
<1>. SUFFICES ASSUME Init PROVE VoiceInv /\ OutboundAreSingle /\ UnkeptArePaidFor
  OBVIOUS
<1>. USE CallAssumption DEF Init
<1>1. TypeOK
  <2>1. NoRow \in CallRow /\ NoCall \in TwilioCall /\ IdleHook \in HookRecord
    BY DEF NoRow, CallRow, NoCall, TwilioCall, IdleHook, HookRecord, Status, Reports
  <2>. QED
    BY <2>1 DEF TypeOK, RequestRecord
<1>2. \A i \in RowIds : ~Exists(i)
  BY DEF Exists, NoRow
<1>3. \A s \in Sids : twilio[s].kind = "none"
  BY DEF NoCall
<1>4. VoiceInv
  BY <1>1, <1>2, <1>3 DEF VoiceInv, RowsAreOfCalls, CallsRememberTheirStatus, CallbacksWereSo,
     HooksReadWhatWasSo, OnlySavesHoldASid, HistoryIsReported
<1>5. OutboundAreSingle
  BY DEF OutboundAreSingle, NoRow
<1>6. Unkept = {}
  BY <1>3 DEF Unkept
<1>7. UnkeptArePaidFor
  BY <1>6, FS_EmptySet, FS_CardinalityType DEF UnkeptArePaidFor
<1>. QED
  BY <1>4, <1>5, <1>7

(* The inductive invariant of the voice module. *)
VoiceIInv == VoiceInv /\ OutboundAreSingle /\ UnkeptArePaidFor

(* It is inductive. *)
LEMMA VoiceStep == VoiceIInv /\ [Next]_vars => VoiceIInv'
BY VoiceTypes, VoiceRows, VoiceStatuses, VoiceCallbacks, VoiceRequests, VoiceHistory, VoiceHooks,
   OutboundStep, UnkeptStep DEF VoiceIInv, VoiceInv

(* It implies that the history is true and complete. *)
LEMMA VoiceKeeps == VoiceIInv => CallHistoryIsTrue
<1>. SUFFICES ASSUME VoiceIInv PROVE CallHistoryIsTrue
  OBVIOUS
<1>1. \A s \in Sids : Cardinality(Outbound(s)) <= 1
  <2>. SUFFICES ASSUME NEW s \in Sids PROVE Cardinality(Outbound(s)) <= 1
    OBVIOUS
  <2>1. \A i, j \in Outbound(s) : i = j
    BY DEF VoiceIInv, OutboundAreSingle, Outbound, RowsWith
  <2>. QED
    BY <2>1, CountAtMostOne
<1>. QED
  BY <1>1 DEF VoiceIInv, VoiceInv, CallHistoryIsTrue, PlacedCallsAreKept, UnkeptArePaidFor,
     Unkept, Outbound, Saving

(* A step of the suite is one of the voice module, or leaves it alone. *)
LEMMA AllMovesVoice == [AllNext]_allVars => [Next]_vars
BY DEF AllNext, allVars

(* The inductive invariant holds in every state. *)
LEMMA VoiceAlways == AllSpec => []VoiceIInv
<1>1. AllInit => VoiceIInv
  BY VoiceInit DEF AllInit, VoiceIInv
<1>2. VoiceIInv /\ [AllNext]_allVars => VoiceIInv'
  BY VoiceStep, AllMovesVoice
<1>. QED
  BY <1>1, <1>2, PTL DEF AllSpec

(* What the call history says of a call Twilio said of that call, and a    *)
(* call placed by makeCall is in it once unless a crash or a failure came  *)
(* between Twilio and the insert (CallsService.makeCall, updateStatus,     *)
(* updateRecording).                                                       *)
THEOREM CallHistoryAlwaysTrue == AllSpec => []CallHistoryIsTrue
BY VoiceAlways, VoiceKeeps, PTL

(* No step takes back notes, an end or a recording. *)
LEMMA NotesStep ==
    ASSUME VoiceIInv, [Next]_vars
    PROVE  \A i \in RowIds : /\ calls[i].notes => calls'[i].notes
                             /\ calls[i].endedAt => calls'[i].endedAt
                             /\ calls[i].recording => calls'[i].recording
<1>. DEFINE Kept == \A i \in RowIds : /\ calls[i].notes => calls'[i].notes
                                      /\ calls[i].endedAt => calls'[i].endedAt
                                      /\ calls[i].recording => calls'[i].recording
<1>. USE CallAssumption DEF VoiceIInv, VoiceInv, TypeOK
<1>i. ASSUME NEW row, Insert(row) PROVE Kept
  BY <1>i DEF Insert, FreshId, RowsAreOfCalls, Exists, NoRow
<1>1. ASSUME NEW r \in Requests, SaveCall(r) PROVE Kept
  BY <1>1, <1>i DEF SaveCall
<1>2. ASSUME NEW s \in Sids, VoiceWebhook(s) PROVE Kept
  BY <1>2, <1>i DEF VoiceWebhook
<1>3. ASSUME NEW i \in RowIds, UpdateCall(i) PROVE Kept
  BY <1>3 DEF UpdateCall, CallRow
<1>4. ASSUME NEW s \in Sids, RecordingCallback(s) PROVE Kept
  BY <1>4 DEF RecordingCallback, CallRow
<1>5. ASSUME NEW h \in Hooks, StatusUpdate(h) PROVE Kept
  BY <1>5 DEF StatusUpdate, Written, CallRow
<1>6. ASSUME UNCHANGED calls PROVE Kept
  BY <1>6
<1>. HIDE DEF VoiceIInv, VoiceInv, TypeOK
<1>. QED
  BY <1>1, <1>2, <1>3, <1>4, <1>5, <1>6
  DEF Next, vars, SaveCallFails, PlaceCall, Hangup, CallArrives, TwilioAdvances,
      VoiceWebhookFails, StatusRead, Crash

(* No callback takes back the notes an operator wrote, nor the notes what  *)
(* a callback wrote (CallsService.updateCall, updateStatus,                *)
(* updateRecording).                                                       *)
THEOREM NotesAreKept == AllSpec => NotesAndTimesAreKept
<1>1. VoiceIInv /\ [AllNext]_allVars
        => [\A i \in RowIds : /\ calls[i].notes => calls'[i].notes
                              /\ calls[i].endedAt => calls'[i].endedAt
                              /\ calls[i].recording => calls'[i].recording]_vars
  BY NotesStep, AllMovesVoice
<1>. QED
  BY <1>1, VoiceAlways, PTL DEF AllSpec, NotesAndTimesAreKept

-----------------------------------------------------------------------------

(* The id of a contact that is not there holds nothing. *)
NoLiveWithoutARow == \A i \in Contacts : contact[i].state = "absent" => contact[i] = People!NoContact

(* An update saves a contact it found, and so never one that is absent in  *)
(* its eyes.                                                               *)
UpdatesSawARow ==
    \A c \in Clients : People!At(c, "update", "save") => request[c].seen.state = "live"

(* An import writes a row of its file. *)
WritesHaveARow ==
    \A c \in Clients : People!At(c, "importCsv", "write") => request[c].rows # << >>

(* What every step of the contacts module keeps. *)
PeopleInv == People!TypeOK /\ NoLiveWithoutARow /\ UpdatesSawARow /\ WritesHaveARow

(* The rows of a file are taken one after the other. *)
LEMMA CsvRest ==
    ASSUME NEW rows \in People!Csv, rows # << >>
    PROVE  Head(rows) \in People!CsvRow /\ Tail(rows) \in People!Csv
<1>1. PICK n \in 0..MaxRows : rows \in [1..n -> People!CsvRow]
  BY DEF People!Csv
<1>2. MaxRows \in Nat
  BY TelephonyAssumption DEF People!ContactAssumption
<1>3. rows \in Seq(People!CsvRow)
  BY <1>1, <1>2
<1>4. DOMAIN rows = 1..n /\ DOMAIN rows = 1..Len(rows) /\ Len(rows) \in Nat
  BY <1>1, <1>3, LenProperties
<1>5. Len(rows) = n
  BY <1>2, <1>4
<1>6. n > 0
  BY <1>2, <1>3, <1>5, EmptySeq
<1>7. Head(rows) \in People!CsvRow /\ Tail(rows) \in Seq(People!CsvRow) /\ Len(Tail(rows)) = n - 1
  BY <1>3, <1>5, HeadTailProperties
<1>8. Tail(rows) \in [1..(n - 1) -> People!CsvRow]
  BY <1>7, LenProperties
<1>. QED
  BY <1>2, <1>6, <1>7, <1>8 DEF People!Csv

(* What the operators of the contacts module return. *)
LEMMA PeopleRows ==
    /\ People!NoContact \in People!ContactRow /\ People!NoMessage \in People!MessageRow
    /\ \A phone \in Phones, details \in Details : People!Row(phone, details) \in People!ContactRow
    /\ \A phone : People!Found(phone) \subseteq Contacts \cup {None}
    /\ People!Fresh \subseteq Contacts \ People!Live
BY DEF People!NoContact, People!NoMessage, People!ContactRow, People!MessageRow, People!Row,
   People!Found, People!Live, People!Fresh

(* A step keeps the invariant of the contacts module. *)
LEMMA PeopleStep == PeopleInv /\ [People!Next]_peopleVars => PeopleInv'
<1>. SUFFICES ASSUME PeopleInv, [People!Next]_peopleVars PROVE PeopleInv'
  OBVIOUS
<1>. USE DEF PeopleInv, People!TypeOK, NoLiveWithoutARow, UpdatesSawARow, WritesHaveARow, People!At,
    People!Becomes, People!Ends, People!Idle
<1>t. \A c \in Clients : request[c] \in People!Request
  OBVIOUS
<1>1. ASSUME NEW c \in Clients, People!Arrive(c) PROVE PeopleInv'
  BY <1>1 DEF People!Arrive, People!Request
<1>2. ASSUME NEW c \in Clients, People!Abandon(c) PROVE PeopleInv'
  BY <1>2 DEF People!Abandon, People!Request
<1>i. ASSUME NEW row \in People!ContactRow, row.state = "live", People!Inserted(row)
      PROVE  contact' \in [Contacts -> People!ContactRow] /\ NoLiveWithoutARow'
  BY <1>i, PeopleRows DEF People!Inserted
<1>3. ASSUME NEW c \in Clients, People!Create(c) PROVE PeopleInv'
  <2>1. contact' \in [Contacts -> People!ContactRow] /\ NoLiveWithoutARow'
    BY <1>3, <1>i, PeopleRows DEF People!Create, People!Row
  <2>. QED
    BY <1>3, <2>1 DEF People!Create, People!Request
<1>4. ASSUME NEW c \in Clients, People!FindOne(c, "update", "save") PROVE PeopleInv'
  BY <1>4 DEF People!FindOne, People!Request, People!Live
<1>5. ASSUME NEW c \in Clients, People!SaveContact(c) PROVE PeopleInv'
  <2>1. request[c].seen \in People!ContactRow /\ request[c].id \in Contacts /\ request[c].seen.state = "live"
    BY <1>5, <1>t DEF People!SaveContact, People!Request
  <2>2. PICK phone \in Phones \cup {request[c].seen.phone}, details \in Details :
           contact' = [contact EXCEPT ![request[c].id] =
                         [request[c].seen EXCEPT !.phone = phone, !.details = details]]
    BY <1>5 DEF People!SaveContact
  <2>3. ASSUME NEW row \in People!ContactRow, row.state = "live",
               NEW p \in Phones \cup {row.phone}, NEW d \in Details
        PROVE  /\ [row EXCEPT !.phone = p, !.details = d] \in People!ContactRow
               /\ [row EXCEPT !.phone = p, !.details = d].state = "live"
    BY <2>3 DEF People!ContactRow
  <2>4. contact' \in [Contacts -> People!ContactRow] /\ NoLiveWithoutARow'
    BY <2>1, <2>2, <2>3
  <2>. QED
    BY <1>5, <2>4 DEF People!SaveContact, People!Request
<1>6. ASSUME NEW c \in Clients, People!FindOne(c, "remove", "delete") PROVE PeopleInv'
  BY <1>6 DEF People!FindOne, People!Request, People!Live
<1>7. ASSUME NEW c \in Clients, People!Remove(c) PROVE PeopleInv'
  <2>1. request[c].id \in Contacts
    BY <1>7, <1>t DEF People!Remove, People!Request
  <2>. QED
    BY <1>7, <2>1, PeopleRows DEF People!Remove, People!Request
<1>8. ASSUME NEW c \in Clients, People!BulkDelete(c) PROVE PeopleInv'
  BY <1>8, PeopleRows DEF People!BulkDelete, People!Request, People!Live
<1>9. ASSUME NEW c \in Clients, People!ReadCsv(c) PROVE PeopleInv'
  BY <1>9 DEF People!ReadCsv, People!Request
<1>10. ASSUME NEW c \in Clients, People!FindRow(c) PROVE PeopleInv'
  <2>1. request[c].rows \in People!Csv
    BY <1>10, <1>t DEF People!FindRow, People!Request
  <2>. QED
    BY <1>10, <2>1, PeopleRows DEF People!FindRow, People!Request
<1>11. ASSUME NEW c \in Clients, People!WriteRow(c) PROVE PeopleInv'
  <2>1. request[c].rows \in People!Csv /\ request[c].id \in Contacts \cup {None}
    BY <1>11, <1>t DEF People!WriteRow, People!Request
  <2>2. Head(request[c].rows) \in People!CsvRow /\ Tail(request[c].rows) \in People!Csv
    BY <1>11, <2>1, CsvRest DEF People!WriteRow
  <2>3. contact' \in [Contacts -> People!ContactRow] /\ NoLiveWithoutARow'
    <3>1. CASE request[c].id = None
      BY <1>11, <1>i, <2>2, <3>1, PeopleRows DEF People!WriteRow, People!Row, People!CsvRow
    <3>2. CASE request[c].id # None
      <4>1. ASSUME NEW row \in People!ContactRow, NEW new \in People!CsvRow
            PROVE  /\ [row EXCEPT !.details = new.details, !.phone = new.phone] \in People!ContactRow
                   /\ [row EXCEPT !.details = new.details, !.phone = new.phone].state = row.state
        BY DEF People!ContactRow, People!CsvRow
      <4>2. People!UpdateRow(request[c].id, Head(request[c].rows))
        BY <1>11, <3>2 DEF People!WriteRow
      <4>. QED
        BY <2>1, <2>2, <3>2, <4>1, <4>2 DEF People!UpdateRow, People!Live
    <3>. QED
      BY <3>1, <3>2
  <2>. QED
    BY <1>11, <2>2, <2>3 DEF People!WriteRow, People!Request
<1>12. ASSUME NEW c \in Clients, People!RowFails(c) PROVE PeopleInv'
  <2>1. Tail(request[c].rows) \in People!Csv
    BY <1>12, <1>t, CsvRest DEF People!RowFails, People!Request
  <2>. QED
    BY <1>12, <2>1 DEF People!RowFails, People!Request
<1>13. ASSUME NEW c \in Clients, People!FindOptOut(c) PROVE PeopleInv'
  BY <1>13 DEF People!FindOptOut, People!Request
<1>14. ASSUME NEW c \in Clients, People!MarkOptedOut(c) PROVE PeopleInv'
  <2>1. request[c].id \in Contacts
    BY <1>14, <1>t DEF People!MarkOptedOut, People!Request
  <2>2. contact' = [contact EXCEPT ![request[c].id].optedOut = @ \/ request[c].id \in People!Live]
    BY <1>14 DEF People!MarkOptedOut
  <2>3. ASSUME NEW row \in People!ContactRow, NEW b \in BOOLEAN
        PROVE  /\ [row EXCEPT !.optedOut = row.optedOut \/ b] \in People!ContactRow
               /\ row = People!NoContact /\ ~b => [row EXCEPT !.optedOut = row.optedOut \/ b] = row
    BY DEF People!ContactRow, People!NoContact
  <2>4. contact' \in [Contacts -> People!ContactRow]
    BY <2>1, <2>2, <2>3
  <2>5. NoLiveWithoutARow'
    BY <2>1, <2>2, <2>3 DEF People!Live, People!ContactRow
  <2>. QED
    BY <1>14, <2>4, <2>5 DEF People!MarkOptedOut, People!Request
<1>15. ASSUME NEW c \in Clients, People!FindSender(c) PROVE PeopleInv'
  BY <1>15 DEF People!FindSender, People!Request
<1>16. ASSUME NEW c \in Clients, People!SaveMessage(c) PROVE PeopleInv'
  <2>1. request[c].from \in Phones /\ request[c].id \in Contacts \cup {None}
    BY <1>16, <1>t DEF People!SaveMessage, People!Request
  <2>. QED
    BY <1>16, <2>1 DEF People!SaveMessage, People!Request, People!MessageRow
<1>17. ASSUME NEW c \in Clients, People!DispatchReceived(c) PROVE PeopleInv'
  BY <1>17 DEF People!DispatchReceived, People!Request, People!MessageRow
<1>18. ASSUME NEW c \in Clients, People!MarkRead(c) PROVE PeopleInv'
  <2>1. PICK m \in Messages : message' = [message EXCEPT ![m].isRead = @ \/ message[m].state # "absent"]
    BY <1>18 DEF People!MarkRead
  <2>2. message[m] \in People!MessageRow /\ (message[m].isRead \/ message[m].state # "absent") \in BOOLEAN
    BY DEF People!MessageRow
  <2>3. message' \in [Messages -> People!MessageRow]
    BY <2>1, <2>2 DEF People!MessageRow
  <2>. QED
    BY <1>18, <2>3 DEF People!MarkRead, People!Request
<1>19. CASE UNCHANGED peopleVars
  BY <1>19 DEF peopleVars
<1>. HIDE DEF PeopleInv, People!TypeOK, NoLiveWithoutARow, UpdatesSawARow, WritesHaveARow,
           People!At, People!Becomes, People!Ends, People!Idle
<1>. QED
  BY <1>1, <1>2, <1>3, <1>4, <1>5, <1>6, <1>7, <1>8, <1>9, <1>10, <1>11, <1>12, <1>13, <1>14, <1>15, <1>16,
     <1>17, <1>18, <1>19
  DEF People!Next

(* The initial states satisfy it. *)
LEMMA PeopleInit == People!Init => PeopleInv
BY PeopleRows DEF People!Init, PeopleInv, People!TypeOK, NoLiveWithoutARow, UpdatesSawARow,
   WritesHaveARow, People!Idle, People!At, People!Request

(* A step of the suite is one of the contacts module, or leaves it alone. *)
LEMMA AllMovesPeople == [AllNext]_allVars => [People!Next]_peopleVars
BY DEF AllNext, allVars

(* It holds in every state. *)
LEMMA PeopleAlways == AllSpec => []PeopleInv
<1>1. AllInit => PeopleInv
  BY PeopleInit DEF AllInit
<1>2. PeopleInv /\ [AllNext]_allVars => PeopleInv'
  BY PeopleStep, AllMovesPeople
<1>. QED
  BY <1>1, <1>2, PTL DEF AllSpec

(* What a step may take back: only by the save of a contact that was       *)
(* loaded before somebody changed it.                                      *)
KeptStep ==
    \A i \in Contacts :
         \/ contact[i].optedOut /\ ~contact'[i].optedOut /\ contact'[i].state = "live"
         \/ i \in deleted \ People!Live /\ contact'[i].state = "live"
         => \E c \in Clients : People!SavesStale(c, i)

(* Every step of the contacts module is of this kind. The save of a        *)
(* contact that is as it was loaded takes nothing back, as it writes the   *)
(* opt-out it read.                                                        *)
LEMMA KeptHere == PeopleInv /\ [People!Next]_peopleVars => KeptStep
<1>. SUFFICES ASSUME PeopleInv, [People!Next]_peopleVars PROVE KeptStep
  OBVIOUS
<1>. USE DEF PeopleInv, People!TypeOK, KeptStep
<1>t. \A c \in Clients : request[c] \in People!Request
  OBVIOUS
<1>u. ASSUME UNCHANGED contact PROVE KeptStep
  BY <1>u DEF People!Live
<1>i. ASSUME NEW row, People!Inserted(row) PROVE KeptStep
  BY <1>i DEF People!Inserted, People!Fresh, People!Live, NoLiveWithoutARow, People!NoContact, People!ContactRow
<1>3. ASSUME NEW c \in Clients, People!Create(c) PROVE KeptStep
  BY <1>3, <1>i DEF People!Create
<1>5. ASSUME NEW c \in Clients, People!SaveContact(c) PROVE KeptStep
  <2>1. /\ request[c].seen \in People!ContactRow /\ request[c].id \in Contacts
        /\ request'[c] # request[c] /\ People!At(c, "update", "save")
    BY <1>5, <1>t DEF People!SaveContact, People!Request, People!At, People!Ends, People!Becomes, People!Idle
  <2>2. PICK phone \in Phones \cup {request[c].seen.phone}, details \in Details :
           contact' = [contact EXCEPT ![request[c].id] =
                         [request[c].seen EXCEPT !.phone = phone, !.details = details]]
    BY <1>5 DEF People!SaveContact
  <2>3. contact'[request[c].id].optedOut = request[c].seen.optedOut
    BY <2>1, <2>2 DEF People!ContactRow
  <2>4. CASE request[c].seen = contact[request[c].id]
    BY <2>1, <2>2, <2>3, <2>4 DEF People!Live, UpdatesSawARow
  <2>5. CASE request[c].seen # contact[request[c].id]
    <3>1. People!SavesStale(c, request[c].id)
      BY <2>1, <2>5 DEF People!SavesStale
    <3>. QED
      BY <2>1, <2>2, <3>1 DEF People!Live
  <2>. QED
    BY <2>4, <2>5
<1>7. ASSUME NEW c \in Clients, People!Remove(c) PROVE KeptStep
  BY <1>7 DEF People!Remove, People!NoContact, People!Live
<1>8. ASSUME NEW c \in Clients, People!BulkDelete(c) PROVE KeptStep
  BY <1>8 DEF People!BulkDelete, People!NoContact, People!Live
<1>11. ASSUME NEW c \in Clients, People!WriteRow(c) PROVE KeptStep
  <2>1. CASE request[c].id = None
    BY <1>11, <1>i, <2>1 DEF People!WriteRow
  <2>2. CASE request[c].id # None
    <3>1. People!UpdateRow(request[c].id, Head(request[c].rows))
      BY <1>11, <2>2 DEF People!WriteRow
    <3>2. ASSUME NEW row \in People!ContactRow, NEW a, NEW b
          PROVE  /\ [row EXCEPT !.details = a, !.phone = b].state = row.state
                 /\ [row EXCEPT !.details = a, !.phone = b].optedOut = row.optedOut
      BY DEF People!ContactRow
    <3>3. \A i \in Contacts : contact'[i].state = contact[i].state /\ contact'[i].optedOut = contact[i].optedOut
      BY <3>1, <3>2 DEF People!UpdateRow
    <3>. QED
      BY <3>3 DEF People!Live
  <2>. QED
    BY <2>1, <2>2
<1>14. ASSUME NEW c \in Clients, People!MarkOptedOut(c) PROVE KeptStep
  BY <1>14 DEF People!MarkOptedOut, People!ContactRow, People!Live
<1>. HIDE DEF PeopleInv, People!TypeOK, KeptStep
<1>. QED
  BY <1>u, <1>3, <1>5, <1>7, <1>8, <1>11, <1>14
  DEF People!Next, peopleVars, People!Arrive, People!Abandon, People!FindOne, People!ReadCsv, People!FindRow,
      People!RowFails, People!FindOptOut, People!FindSender, People!SaveMessage, People!DispatchReceived,
      People!MarkRead

(* An opt-out and a removal survive all but the save of a stale edit       *)
(* (ContactsService.update, which loads the entity and saves the whole of  *)
(* it).                                                                    *)
THEOREM ContactsAreKept == AllSpec => People!KeptFromAllButStaleEdits
<1>1. PeopleInv /\ [AllNext]_allVars => [KeptStep]_peopleVars
  BY KeptHere, AllMovesPeople
<1>. QED
  BY <1>1, PeopleAlways, PTL DEF AllSpec, People!KeptFromAllButStaleEdits, KeptStep, People!vars, peopleVars

(* Beside an import nothing else is under way. *)
ImportsAreAlone ==
    \A c, d \in Clients :
        c # d /\ request[c].kind = "importCsv" => request[d] = People!Idle

(* What an import will insert has a phone that no contact has. *)
WritesKnowThePhone ==
    \A c \in Clients : People!At(c, "importCsv", "write") /\ request[c].id = None =>
        \A j \in People!Live : contact[j].phone # Head(request[c].rows).phone

(* While imports run alone, a lookup that found nothing is still true when *)
(* the row is inserted.                                                    *)
LEMMA ImportsStep ==
    ASSUME "importCsv" \notin Together
    PROVE  PeopleInv /\ ImportsAreAlone /\ WritesKnowThePhone /\ [People!Next]_peopleVars
             => ImportsAreAlone' /\ WritesKnowThePhone'
<1>. SUFFICES ASSUME PeopleInv, ImportsAreAlone, WritesKnowThePhone, [People!Next]_peopleVars
              PROVE  ImportsAreAlone' /\ WritesKnowThePhone'
  OBVIOUS
<1>t. request \in [Clients -> People!Request] /\ contact \in [Contacts -> People!ContactRow]
  BY DEF PeopleInv, People!TypeOK
<1>1. CASE UNCHANGED peopleVars
  BY <1>1 DEF peopleVars, ImportsAreAlone, WritesKnowThePhone, People!At, People!Live
<1>2. ASSUME NEW c \in Clients, People!Arrive(c) PROVE ImportsAreAlone' /\ WritesKnowThePhone'
  <2>1. PICK kind \in People!AllKinds :
           /\ \A d \in Clients \ {c} : request[d] # People!Idle => {kind, request[d].kind} \subseteq Together
           /\ request' = [request EXCEPT ![c] = [kind |-> kind, pc |-> "start"]]
    BY <1>2 DEF People!Arrive, People!Becomes
  <2>2. UNCHANGED contact /\ request[c] = People!Idle
    BY <1>2 DEF People!Arrive
  <2>3. \A d \in Clients \ {c} : request[d].kind = "importCsv" => request[d] # People!Idle
    BY DEF People!Idle
  <2>. QED
    BY <1>t, <2>1, <2>2, <2>3 DEF ImportsAreAlone, WritesKnowThePhone, People!At, People!Live, People!Idle
<1>m. ASSUME NEW c \in Clients, NEW r, People!Becomes(c, r), r = People!Idle \/ r.kind = request[c].kind,
             request[c] # People!Idle
      PROVE  /\ ImportsAreAlone'
             /\ \A d \in Clients \ {c} : request'[d] = request[d]
             /\ request[c].kind = "importCsv" => \A d \in Clients \ {c} : request'[d].kind # "importCsv"
  BY <1>t, <1>m DEF People!Becomes, People!Idle, ImportsAreAlone
<1>3. ASSUME NEW c \in Clients, NEW r, People!Becomes(c, r), r = People!Idle \/ r.kind = request[c].kind,
             request[c] # People!Idle,
             ~(r.kind = "importCsv" /\ r.pc = "write"),
             request[c].kind = "importCsv" \/ UNCHANGED contact \/ \A d \in Clients \ {c} : request[d].kind # "importCsv"
      PROVE  ImportsAreAlone' /\ WritesKnowThePhone'
  <2>1. /\ ImportsAreAlone'
        /\ \A d \in Clients \ {c} : request'[d] = request[d]
        /\ request[c].kind = "importCsv" => \A d \in Clients \ {c} : request'[d].kind # "importCsv"
    BY <1>3, <1>m
  <2>2. request'[c] = r
    BY <1>t, <1>3 DEF People!Becomes
  <2>. QED
    BY <1>3, <2>1, <2>2 DEF WritesKnowThePhone, People!At, People!Live
<1>a. ASSUME NEW c \in Clients, request[c] # People!Idle
      PROVE  request[c].kind = "importCsv" \/ \A d \in Clients \ {c} : request[d].kind # "importCsv"
  BY <1>a DEF ImportsAreAlone
<1>4. ASSUME NEW c \in Clients, People!FindRow(c) PROVE ImportsAreAlone' /\ WritesKnowThePhone'
  <2>1. CASE request[c].rows = << >>
    BY <1>4, <1>3, <1>a, <2>1 DEF People!FindRow, People!Ends, People!At, People!Idle
  <2>2. CASE request[c].rows # << >>
    <3>1. PICK id \in People!Found(Head(request[c].rows).phone) :
            People!Becomes(c, [kind |-> "importCsv", pc |-> "write", rows |-> request[c].rows, id |-> id])
      BY <1>4, <2>2 DEF People!FindRow
    <3>2. request[c].kind = "importCsv" /\ UNCHANGED contact /\ request[c] # People!Idle
      BY <1>4 DEF People!FindRow, People!At, People!Idle
    <3>3. /\ ImportsAreAlone'
          /\ \A d \in Clients \ {c} : request'[d] = request[d] /\ request'[d].kind # "importCsv"
      BY <3>1, <3>2, <1>m
    <3>4. request'[c] = [kind |-> "importCsv", pc |-> "write", rows |-> request[c].rows, id |-> id]
      BY <1>t, <3>1 DEF People!Becomes
    <3>5. id = None => \A j \in People!Live : contact[j].phone # Head(request[c].rows).phone
      BY TelephonyAssumption DEF People!Found, People!ContactAssumption, People!Live
    <3>6. WritesKnowThePhone'
      BY <3>2, <3>3, <3>4, <3>5 DEF WritesKnowThePhone, People!At, People!Live
    <3>. QED
      BY <3>3, <3>6
  <2>. QED
    BY <2>1, <2>2
<1>e. ASSUME NEW c \in Clients, request[c] # People!Idle, People!Ends(c)
      PROVE  ImportsAreAlone' /\ WritesKnowThePhone'
  BY <1>e, <1>3, <1>a DEF People!Idle, People!Ends
<1>5. ASSUME NEW c \in Clients, NEW kind, NEW pc, kind # "none", People!At(c, kind, pc), People!Ends(c)
      PROVE  ImportsAreAlone' /\ WritesKnowThePhone'
  BY <1>5, <1>e DEF People!At, People!Idle
<1>6. ASSUME NEW c \in Clients, People!ReadCsv(c) PROVE ImportsAreAlone' /\ WritesKnowThePhone'
  BY <1>6, <1>3, <1>a DEF People!ReadCsv, People!At, People!Idle
<1>7. ASSUME NEW c \in Clients, People!RowFails(c) PROVE ImportsAreAlone' /\ WritesKnowThePhone'
  BY <1>7, <1>3, <1>a DEF People!RowFails, People!At, People!Idle
<1>8. ASSUME NEW c \in Clients, People!WriteRow(c) PROVE ImportsAreAlone' /\ WritesKnowThePhone'
  BY <1>8, <1>3, <1>a DEF People!WriteRow, People!At, People!Idle
<1>9. ASSUME NEW c \in Clients, NEW kind \in {"update", "remove"}, NEW pc, People!FindOne(c, kind, pc)
      PROVE  ImportsAreAlone' /\ WritesKnowThePhone'
  <2>1. People!At(c, kind, "start") /\ UNCHANGED contact /\ request[c] # People!Idle
    BY <1>9 DEF People!FindOne, People!At, People!Idle
  <2>2. ASSUME NEW r, r.kind = kind, People!Becomes(c, r) PROVE ImportsAreAlone' /\ WritesKnowThePhone'
    BY <2>1, <2>2, <1>3, <1>a DEF People!At
  <2>. QED
    BY <1>9, <2>1, <2>2, <1>e DEF People!FindOne
<1>10. ASSUME NEW c \in Clients, People!FindOptOut(c) PROVE ImportsAreAlone' /\ WritesKnowThePhone'
  BY <1>10, <1>3, <1>a DEF People!FindOptOut, People!At, People!Idle, People!Ends
<1>11. ASSUME NEW c \in Clients, People!FindSender(c) PROVE ImportsAreAlone' /\ WritesKnowThePhone'
  BY <1>11, <1>3, <1>a DEF People!FindSender, People!At, People!Idle, People!Ends
<1>12. ASSUME NEW c \in Clients, People!SaveMessage(c) PROVE ImportsAreAlone' /\ WritesKnowThePhone'
  BY <1>12, <1>3, <1>a DEF People!SaveMessage, People!At, People!Idle, People!Ends
<1>13. ASSUME NEW c \in Clients,
              \/ People!Create(c) \/ People!SaveContact(c) \/ People!Remove(c) \/ People!BulkDelete(c)
              \/ People!MarkOptedOut(c) \/ People!DispatchReceived(c) \/ People!MarkRead(c)
       PROVE  ImportsAreAlone' /\ WritesKnowThePhone'
  BY <1>13, <1>5 DEF People!Create, People!SaveContact, People!Remove, People!BulkDelete,
     People!MarkOptedOut, People!DispatchReceived, People!MarkRead
<1>14. ASSUME NEW c \in Clients, People!Abandon(c) PROVE ImportsAreAlone' /\ WritesKnowThePhone'
  BY <1>14, <1>e DEF People!Abandon
<1>. QED
  BY <1>1, <1>2, <1>4, <1>6, <1>7, <1>8, <1>9, <1>10, <1>11, <1>12, <1>13, <1>14 DEF People!Next

(* An import adds no contact for a phone that has one. *)
MergeStep ==
    \A c \in Clients, i \in Contacts :
         /\ request[c].kind = "importCsv" /\ request'[c] # request[c]
         /\ i \notin People!Live /\ contact'[i].state = "live"
         => \A j \in People!Live : contact[j].phone # contact'[i].phone

(* Every step of the contacts module is of this kind, as what is inserted  *)
(* was looked up.                                                          *)
LEMMA MergeHere == PeopleInv /\ WritesKnowThePhone /\ [People!Next]_peopleVars => MergeStep
<1>. SUFFICES ASSUME PeopleInv, WritesKnowThePhone, [People!Next]_peopleVars,
                     NEW c \in Clients, NEW i \in Contacts,
                     request[c].kind = "importCsv", request'[c] # request[c],
                     i \notin People!Live, contact'[i].state = "live"
              PROVE  \A j \in People!Live : contact[j].phone # contact'[i].phone
  BY DEF MergeStep
<1>t. request \in [Clients -> People!Request] /\ contact \in [Contacts -> People!ContactRow]
  BY DEF PeopleInv, People!TypeOK
<1>1. ~UNCHANGED contact /\ ~UNCHANGED peopleVars
  BY DEF People!Live, peopleVars
<1>2. ASSUME NEW d \in Clients, NEW kind, NEW pc, People!At(d, kind, pc), People!Ends(d), kind # "importCsv"
      PROVE  FALSE
  BY <1>t, <1>2 DEF People!At, People!Ends, People!Becomes
<1>3. ASSUME NEW d \in Clients, People!WriteRow(d)
      PROVE  \A j \in People!Live : contact[j].phone # contact'[i].phone
  <2>1. d = c
    BY <1>t, <1>3 DEF People!WriteRow, People!Becomes
  <2>2. CASE request[c].id # None
    <3>1. People!UpdateRow(request[c].id, Head(request[c].rows))
      BY <1>3, <2>1, <2>2 DEF People!WriteRow
    <3>2. contact'[i] = contact[i]
      BY <1>t, <3>1 DEF People!UpdateRow
    <3>. QED
      BY <3>2 DEF People!Live
  <2>3. CASE request[c].id = None
    <3>1. People!Inserted(People!Row(Head(request[c].rows).phone, Head(request[c].rows).details))
      BY <1>3, <2>1, <2>3 DEF People!WriteRow
    <3>2. contact'[i].phone = Head(request[c].rows).phone
      BY <1>t, <3>1 DEF People!Inserted, People!Row, People!Live
    <3>3. \A j \in People!Live : contact[j].phone # Head(request[c].rows).phone
      BY <1>3, <2>1, <2>3 DEF People!WriteRow, WritesKnowThePhone
    <3>. QED
      BY <3>2, <3>3
  <2>. QED
    BY <2>2, <2>3
<1>. QED
  BY <1>1, <1>2, <1>3
  DEF People!Next, People!Arrive, People!Abandon, People!FindOne, People!ReadCsv, People!FindRow,
      People!RowFails, People!FindOptOut, People!FindSender, People!SaveMessage, People!DispatchReceived,
      People!MarkRead, People!Create, People!SaveContact, People!Remove, People!BulkDelete, People!MarkOptedOut

(* An import run by itself adds no second contact for a phone that has one *)
(* (ContactsService.importCsv). Beside another request that adds contacts  *)
(* it can, for want of a unique index.                                     *)
THEOREM ImportsAlwaysMerge ==
    ASSUME "importCsv" \notin Together PROVE AllSpec => People!ImportsMerge
<1>1. AllInit => ImportsAreAlone /\ WritesKnowThePhone
  BY DEF AllInit, People!Init, ImportsAreAlone, WritesKnowThePhone, People!Idle, People!At
<1>2. PeopleInv /\ (ImportsAreAlone /\ WritesKnowThePhone) /\ [AllNext]_allVars
        => (ImportsAreAlone /\ WritesKnowThePhone)'
  BY ImportsStep, AllMovesPeople
<1>3. PeopleInv /\ WritesKnowThePhone /\ [AllNext]_allVars => [MergeStep]_peopleVars
  BY MergeHere, AllMovesPeople
<1>. QED
  BY <1>1, <1>2, <1>3, PeopleAlways, PTL DEF AllSpec, People!ImportsMerge, MergeStep, People!vars, peopleVars

-----------------------------------------------------------------------------

(* What the event of a delivery may say at each step of send. *)
StatusAt(pc) ==
    CASE pc \in {"idle", "insert"}      -> {"absent"}
      [] pc \in {"post", "markSuccess"} -> {"absent", "pending"}
      [] pc = "countSuccess"            -> {"absent", "success"}
      [] pc = "markFailed"              -> {"absent", "pending", "success"}
      [] pc = "countFailure"            -> {"absent", "failed"}
      [] OTHER                          -> Outgoing!EventStatus

(* The event and the subscriber agree with the step of the delivery. *)
SendsKeepStep ==
    \A d \in Deliveries :
        /\ event[d] \in StatusAt(send[d].pc)
        /\ send[d].pc \in {"idle", "insert", "post"} => received[d] = "nothing"
        /\ send[d].pc \in {"markSuccess", "countSuccess"} => received[d] = "accepted"
        /\ event[d] = "success" => received[d] = "accepted"

(* A delivery under way is for a webhook that was created, and the         *)
(* webhook's event is gone only if the webhook is.                         *)
SendsHaveAWebhook ==
    \A d \in Deliveries :
        /\ send[d].pc = "idle" <=> send[d].to = NoWebhook
        /\ send[d].pc # "idle" => webhook[send[d].to].state # "unborn"
        /\ send[d].pc \notin {"idle", "insert", "done", "lost"} /\ Outgoing!Live(send[d].to)
             => event[d] # "absent"

(* A webhook that was not created has counted nothing. *)
UnbornAreNew == \A w \in Webhooks : webhook[w].state = "unborn" => webhook[w] = Outgoing!Unborn

(* What every step of the webhooks module keeps. *)
SendInv == Outgoing!TypeOK /\ SendsKeepStep /\ SendsHaveAWebhook /\ UnbornAreNew

(* The rows dispatch takes for the webhooks that are subscribed. *)
Chosen(e) == CHOOSE f \in [Outgoing!Subscribed(e) -> Outgoing!Idle] :
                 \A v, w \in Outgoing!Subscribed(e) : f[v] = f[w] => v = w

(* There is one for each, as there are enough: dispatch disturbs no        *)
(* delivery under way.                                                     *)
LEMMA ChosenAreIdle ==
    ASSUME NEW e, Outgoing!Dispatch(e)
    PROVE  /\ Chosen(e) \in [Outgoing!Subscribed(e) -> Outgoing!Idle]
           /\ send' = [d \in Deliveries |->
                        IF \E w \in Outgoing!Subscribed(e) : Chosen(e)[w] = d
                        THEN [pc |-> "insert",
                              to |-> CHOOSE w \in Outgoing!Subscribed(e) : Chosen(e)[w] = d]
                        ELSE send[d]]
<1>1. IsFiniteSet(Webhooks) /\ IsFiniteSet(Deliveries)
  BY TelephonyAssumption, Zenon DEF Outgoing!WebhookAssumption, Outgoing!IsFiniteSet, IsFiniteSet
<1>2. Outgoing!Subscribed(e) \subseteq Webhooks /\ Outgoing!Idle \subseteq Deliveries
  BY DEF Outgoing!Subscribed, Outgoing!Idle
<1>3. IsFiniteSet(Outgoing!Subscribed(e)) /\ IsFiniteSet(Outgoing!Idle)
  BY <1>1, <1>2, CountPart
<1>4. Cardinality(Outgoing!Subscribed(e)) <= Cardinality(Outgoing!Idle)
  BY Zenon DEF Outgoing!Dispatch, Outgoing!Cardinality, Cardinality
<1>5. \E f \in [Outgoing!Subscribed(e) -> Outgoing!Idle] :
         \A v, w \in Outgoing!Subscribed(e) : f[v] = f[w] => v = w
  BY <1>3, <1>4, CountInto
<1>6. Chosen(e) \in [Outgoing!Subscribed(e) -> Outgoing!Idle]
  BY <1>5 DEF Chosen
<1>. QED
  BY <1>6 DEF Outgoing!Dispatch, Chosen

(* update leaves a row of the table. *)
LEMMA UpdatedRow ==
    ASSUME NEW row \in Outgoing!WebhookRow, NEW active \in BOOLEAN, NEW events \in Outgoing!Subscriptions
    PROVE  [row EXCEPT !.isActive = active, !.events = events] \in Outgoing!WebhookRow
BY DEF Outgoing!WebhookRow

(* A step keeps the invariant of the webhooks module. *)
LEMMA SendStep == SendInv /\ [Outgoing!Next]_outgoingVars => SendInv'
<1>. SUFFICES ASSUME SendInv, [Outgoing!Next]_outgoingVars PROVE SendInv'
  OBVIOUS
<1>a. /\ NoWebhook \notin Webhooks /\ MaxUpdates \in Nat /\ MaxCrashes \in Nat /\ MaxFaults \in Nat
  BY TelephonyAssumption DEF Outgoing!WebhookAssumption
<1>. USE <1>a DEF SendInv, SendsKeepStep, SendsHaveAWebhook, UnbornAreNew,
     Outgoing!TypeOK, Outgoing!WebhookRow, Outgoing!SendRecord,
     Outgoing!At, Outgoing!Goes, Outgoing!Live, Outgoing!boundVars, StatusAt, Outgoing!EventStatus,
     Outgoing!Steps
<1>1. ASSUME NEW w \in Webhooks, Outgoing!Create(w) PROVE SendInv'
  <2>1. PICK active \in BOOLEAN, events \in Outgoing!Subscriptions :
           webhook' = [webhook EXCEPT ![w].state = "live", ![w].isActive = active, ![w].events = events]
    BY <1>1 DEF Outgoing!Create
  <2>2. /\ webhook' \in [Webhooks -> Outgoing!WebhookRow] /\ webhook[w].state = "unborn"
        /\ webhook'[w].state = "live" /\ \A v \in Webhooks \ {w} : webhook'[v] = webhook[v]
    BY <1>1, <2>1 DEF Outgoing!Create, Outgoing!Unborn
  <2>. QED
    BY <1>1, <2>2 DEF Outgoing!Create
<1>2. ASSUME NEW w \in Webhooks, Outgoing!Update(w) PROVE SendInv'
  <2>1. PICK active \in BOOLEAN, events \in Outgoing!Subscriptions :
           webhook' = [webhook EXCEPT ![w].isActive = active, ![w].events = events]
    BY <1>2 DEF Outgoing!Update
  <2>2. /\ webhook' \in [Webhooks -> Outgoing!WebhookRow]
        /\ \A v \in Webhooks : webhook'[v].state = webhook[v].state /\ (v # w => webhook'[v] = webhook[v])
        /\ webhook[w].state = "live"
    <3>w. [webhook[w] EXCEPT !.isActive = active, !.events = events] \in Outgoing!WebhookRow
      BY <2>1, UpdatedRow
    <3>v. webhook' = [webhook EXCEPT ![w] = [webhook[w] EXCEPT !.isActive = active, !.events = events]]
      BY <2>1
    <3>1. webhook' \in [Webhooks -> Outgoing!WebhookRow]
      BY <3>w, <3>v
    <3>2. \A v \in Webhooks : v # w => webhook'[v] = webhook[v]
      BY <2>1
    <3>. QED
      BY <1>2, <2>1, <3>1, <3>2 DEF Outgoing!Update
  <2>. QED
    BY <1>2, <2>2 DEF Outgoing!Update
<1>3. ASSUME NEW w \in Webhooks, Outgoing!Remove(w) PROVE SendInv'
  BY <1>3 DEF Outgoing!Remove
<1>4. ASSUME NEW w \in Webhooks, Outgoing!Test(w) PROVE SendInv'
  BY <1>4 DEF Outgoing!Test, Outgoing!Idle
<1>5. ASSUME NEW e \in Events, Outgoing!Dispatch(e) PROVE SendInv'
  <2>1. Chosen(e) \in [Outgoing!Subscribed(e) -> Outgoing!Idle]
    BY <1>5, ChosenAreIdle
  <2>2. send' = [d \in Deliveries |->
                  IF \E w \in Outgoing!Subscribed(e) : Chosen(e)[w] = d
                  THEN [pc |-> "insert", to |-> CHOOSE w \in Outgoing!Subscribed(e) : Chosen(e)[w] = d]
                  ELSE send[d]]
    BY <1>5, ChosenAreIdle
  <2>3. \A d \in Deliveries :
          \/ send'[d] = send[d]
          \/ /\ send[d].pc = "idle" /\ send'[d].pc = "insert" /\ send'[d] = [pc |-> "insert", to |-> send'[d].to]
             /\ send'[d].to \in Webhooks /\ webhook[send'[d].to].state = "live"
    BY <2>1, <2>2 DEF Outgoing!Subscribed, Outgoing!Idle
  <2>4. send' \in [Deliveries -> Outgoing!SendRecord]
    BY <2>2, <2>3
  <2>5. UNCHANGED <<webhook, event, received, updates, sendCrashes, sendFaults>>
    BY <1>5 DEF Outgoing!Dispatch
  <2>6. SendsKeepStep'
    BY <2>3, <2>5
  <2>7. SendsHaveAWebhook'
    <3>. SUFFICES ASSUME NEW d \in Deliveries
                  PROVE  /\ send'[d].pc = "idle" <=> send'[d].to = NoWebhook
                         /\ send'[d].pc # "idle" => webhook[send'[d].to].state # "unborn"
                         /\ send'[d].pc \notin {"idle", "insert", "done", "lost"}
                              /\ webhook[send'[d].to].state = "live" => event[d] # "absent"
      BY <2>5
    <3>1. CASE send'[d] = send[d]
      BY <3>1
    <3>2. CASE /\ send'[d].pc = "insert" /\ send'[d].to \in Webhooks
               /\ webhook[send'[d].to].state = "live"
      BY <3>2
    <3>. QED
      BY <2>3, <3>1, <3>2
  <2>. QED
    BY <2>4, <2>5, <2>6, <2>7
<1>6. ASSUME NEW d \in Deliveries, Outgoing!InsertEvent(d) PROVE SendInv'
  <2>1. CASE Outgoing!Live(send[d].to)
    BY <1>6, <2>1 DEF Outgoing!InsertEvent
  <2>2. CASE ~Outgoing!Live(send[d].to)
    BY <1>6, <2>2 DEF Outgoing!InsertEvent
  <2>. QED
    BY <2>1, <2>2
<1>7. ASSUME NEW d \in Deliveries, Outgoing!Post(d) PROVE SendInv'
  BY <1>7 DEF Outgoing!Post, Outgoing!AfterPost
<1>8. ASSUME NEW d \in Deliveries, Outgoing!MarkSuccess(d) PROVE SendInv'
  BY <1>8 DEF Outgoing!MarkSuccess, Outgoing!Marked
<1>9. ASSUME NEW d \in Deliveries, Outgoing!CountSuccess(d) PROVE SendInv'
  BY <1>9 DEF Outgoing!CountSuccess, Outgoing!CountedSuccess
<1>10. ASSUME NEW d \in Deliveries, Outgoing!MarkFailed(d) PROVE SendInv'
  BY <1>10 DEF Outgoing!MarkFailed, Outgoing!Marked
<1>11. ASSUME NEW d \in Deliveries, Outgoing!CountFailure(d) PROVE SendInv'
  BY <1>11 DEF Outgoing!CountFailure, Outgoing!CountedFailure
<1>12. ASSUME NEW d \in Deliveries, Outgoing!PostTimesOut(d) PROVE SendInv'
  BY <1>12 DEF Outgoing!PostTimesOut
<1>13. ASSUME NEW d \in Deliveries, Outgoing!StatementFails(d) PROVE SendInv'
  <2>1. /\ send[d].pc \in Outgoing!Steps \ {"post"}
        /\ send' = [send EXCEPT ![d].pc = IF send[d].pc \in {"markSuccess", "countSuccess"}
                                         THEN "markFailed" ELSE "lost"]
        /\ sendFaults' \in 0..MaxFaults /\ UNCHANGED <<received, updates, sendCrashes>>
    BY <1>13 DEF Outgoing!StatementFails
  <2>2. CASE UNCHANGED <<webhook, event>>
    BY <2>1, <2>2
  <2>3. CASE /\ Outgoing!At(d, "insert") /\ Outgoing!Live(send[d].to)
             /\ event' = [event EXCEPT ![d] = "pending"] /\ UNCHANGED webhook
    BY <2>1, <2>3
  <2>4. CASE Outgoing!At(d, "markSuccess") /\ Outgoing!Marked(d, "success") /\ UNCHANGED webhook
    BY <2>1, <2>4 DEF Outgoing!Marked
  <2>5. CASE Outgoing!At(d, "countSuccess") /\ Outgoing!CountedSuccess(d) /\ UNCHANGED event
    BY <2>1, <2>5 DEF Outgoing!CountedSuccess
  <2>6. CASE Outgoing!At(d, "markFailed") /\ Outgoing!Marked(d, "failed") /\ UNCHANGED webhook
    BY <2>1, <2>6 DEF Outgoing!Marked
  <2>7. CASE Outgoing!At(d, "countFailure") /\ Outgoing!CountedFailure(d) /\ UNCHANGED event
    BY <2>1, <2>7 DEF Outgoing!CountedFailure
  <2>. QED
    BY <1>13, <2>2, <2>3, <2>4, <2>5, <2>6, <2>7 DEF Outgoing!StatementFails
<1>14. CASE Outgoing!Crash
  BY <1>14 DEF Outgoing!Crash
<1>15. CASE UNCHANGED outgoingVars
  BY <1>15 DEF outgoingVars
<1>. HIDE DEF SendInv
<1>. QED
  BY <1>1, <1>2, <1>3, <1>4, <1>5, <1>6, <1>7, <1>8, <1>9, <1>10, <1>11, <1>12, <1>13, <1>14, <1>15
  DEF Outgoing!Next, Outgoing!SendStep

(* The events of a webhook with a status, but for the deliveries at a step *)
(* where the counter is still to follow, or to be corrected.               *)
Counted(w, status, steps) ==
    {d \in Deliveries : send[d].to = w /\ event[d] = status /\ send[d].pc \notin steps}

(* The successes of a webhook that its counter should show. *)
Successes(w) == Counted(w, "success", {"countSuccess", "markFailed"})
(* The failures of a webhook that its counter should show. *)
Failures(w)  == Counted(w, "failed", {"countFailure"})

(* How a step may change a set of events S with count m, failures f and    *)
(* crashes c to T, n, g and k: it counts an event, fails, crashes, or      *)
(* leaves all as it is; and a webhook starts with nothing.                 *)
TallyMoves(S, T, m, n, f, g, c, k) ==
    \/ T = S /\ n = m /\ g \in {f, f + 1} /\ k = c
    \/ \E d \in Deliveries \ S : T = S \cup {d} /\ n = m + 1 /\ g = f /\ k = c
    \/ \E d \in Deliveries : T \in {S, S \cup {d}} /\ n \in {m, m + 1} /\ g = f + 1 /\ k = c
    \/ S \subseteq T /\ n = m /\ g = f /\ k = c + 1
    \/ T = {} /\ n = 0 /\ g = f /\ k = c

(* A count is off by the failures and by what the crashes have cost. *)
TallyHolds(S, n, f, c) ==
    n <= Cardinality(S) + f /\ Cardinality(S) <= n + f + c * Cardinality(Deliveries)

(* Moves of this kind keep a count this close. *)
LEMMA TallyKept ==
    ASSUME NEW S \in SUBSET Deliveries, NEW T \in SUBSET Deliveries, NEW m \in Nat, NEW n \in Nat,
           NEW f \in Nat, NEW g \in Nat, NEW c \in Nat, NEW k \in Nat,
           TallyMoves(S, T, m, n, f, g, c, k), TallyHolds(S, m, f, c) \/ (T = {} /\ n = 0)
    PROVE  TallyHolds(T, n, g, k)
<1>. DEFINE D == Cardinality(Deliveries)
<1>1. IsFiniteSet(Deliveries)
  BY TelephonyAssumption, Zenon DEF Outgoing!WebhookAssumption, Outgoing!IsFiniteSet, IsFiniteSet
<1>2. /\ IsFiniteSet(S) /\ IsFiniteSet(T) /\ D \in Nat
      /\ Cardinality(S) \in Nat /\ Cardinality(T) \in Nat /\ Cardinality(T) <= D
  BY <1>1, CountPart
<1>3. c * D \in Nat /\ k * D \in Nat
  BY <1>2, OneMoreTime
<1>4. CASE T = {} /\ n = 0
  BY <1>2, <1>3, <1>4, FS_EmptySet DEF TallyHolds
<1>. SUFFICES ASSUME TallyHolds(S, m, f, c), ~(T = {} /\ n = 0) PROVE TallyHolds(T, n, g, k)
  BY <1>4
<1>5. CASE T = S /\ n = m /\ g \in {f, f + 1} /\ k = c
  BY <1>2, <1>3, <1>5 DEF TallyHolds
<1>6. ASSUME NEW d \in Deliveries \ S, T = S \cup {d}, n = m + 1, g = f, k = c PROVE TallyHolds(T, n, g, k)
  <2>1. Cardinality(T) = Cardinality(S) + 1
    BY <1>2, <1>6, FS_AddElement
  <2>. QED
    BY <1>2, <1>3, <1>6, <2>1 DEF TallyHolds
<1>7. ASSUME NEW d \in Deliveries, T \in {S, S \cup {d}}, n \in {m, m + 1}, g = f + 1, k = c
      PROVE  TallyHolds(T, n, g, k)
  <2>1. Cardinality(S) <= Cardinality(T) /\ Cardinality(T) <= Cardinality(S) + 1
    BY <1>2, <1>7, FS_AddElement
  <2>. QED
    BY <1>2, <1>3, <1>7, <2>1 DEF TallyHolds
<1>8. CASE S \subseteq T /\ n = m /\ g = f /\ k = c + 1
  <2>1. Cardinality(S) <= Cardinality(T)
    BY <1>2, <1>8, CountPart
  <2>2. k * D = c * D + D
    BY <1>2, <1>8, OneMoreTime
  <2>. QED
    BY <1>2, <1>3, <1>8, <2>1, <2>2 DEF TallyHolds
<1>. QED
  BY <1>5, <1>6, <1>7, <1>8 DEF TallyMoves

(* The successes and their counter move so... *)
SuccessesMove(w) ==
    TallyMoves(Successes(w), Successes(w)', webhook[w].successCount, webhook'[w].successCount,
               sendFaults, sendFaults', sendCrashes, sendCrashes')
(* ... and so do the failures and theirs. *)
FailuresMove(w) ==
    TallyMoves(Failures(w), Failures(w)', webhook[w].failureCount, webhook'[w].failureCount,
               sendFaults, sendFaults', sendCrashes, sendCrashes')

(* For each webhook that is live after the step. *)
TalliesMove ==
    \A w \in Webhooks : Outgoing!Live(w)' =>
        /\ SuccessesMove(w) /\ FailuresMove(w)
        /\ \/ Outgoing!Live(w)
           \/ /\ Successes(w)' = {} /\ webhook'[w].successCount = 0
              /\ Failures(w)' = {} /\ webhook'[w].failureCount = 0

(* Every step of the webhooks module moves the counters so: where a        *)
(* delivery settles its event the event is not counted yet, and where it   *)
(* counts the event is settled.                                            *)
LEMMA TalliesStep == SendInv /\ [Outgoing!Next]_outgoingVars => TalliesMove
<1>. SUFFICES ASSUME SendInv, [Outgoing!Next]_outgoingVars PROVE TalliesMove
  OBVIOUS
<1>a. /\ NoWebhook \notin Webhooks /\ MaxUpdates \in Nat /\ MaxCrashes \in Nat /\ MaxFaults \in Nat
      /\ sendFaults \in Nat /\ sendCrashes \in Nat
      /\ \A w \in Webhooks : webhook[w].successCount \in Nat /\ webhook[w].failureCount \in Nat
      /\ webhook \in [Webhooks -> Outgoing!WebhookRow] /\ event \in [Deliveries -> Outgoing!EventStatus]
      /\ send \in [Deliveries -> Outgoing!SendRecord]
  BY TelephonyAssumption DEF Outgoing!WebhookAssumption, SendInv, Outgoing!TypeOK, Outgoing!WebhookRow
<1>w. \A w \in Webhooks : webhook[w] \in Outgoing!WebhookRow
  BY <1>a
<1>d. \A d \in Deliveries :
        /\ send[d] \in Outgoing!SendRecord
        /\ event[d] \in StatusAt(send[d].pc)
        /\ send[d].pc \notin {"idle", "insert", "done", "lost"} /\ webhook[send[d].to].state = "live"
             => event[d] # "absent"
        /\ send[d].pc # "idle" => send[d].to \in Webhooks
  BY <1>a DEF SendInv, SendsKeepStep, SendsHaveAWebhook, Outgoing!Live, Outgoing!SendRecord
<1>. DEFINE Goal(w) == SuccessesMove(w) /\ FailuresMove(w)
<1>0. ASSUME UNCHANGED sendCrashes, sendFaults' \in {sendFaults, sendFaults + 1},
             \A w \in Webhooks : /\ webhook'[w].successCount = webhook[w].successCount
                                 /\ webhook'[w].failureCount = webhook[w].failureCount
                                 /\ webhook'[w].state = "live" => webhook[w].state = "live",
             \A d \in Deliveries : \/ send'[d] = send[d] /\ event'[d] = event[d]
                                   \/ /\ event[d] \notin {"success", "failed"}
                                      /\ event'[d] \notin {"success", "failed"}
      PROVE  TalliesMove
  BY <1>0 DEF TalliesMove, SuccessesMove, FailuresMove, TallyMoves, Successes, Failures, Counted, Outgoing!Live
<1>e. \A d \in Deliveries : send[d].pc \in {"idle", "insert", "post", "markSuccess"}
                              => event[d] \notin {"success", "failed"}
  BY <1>d DEF StatusAt
<1>1. ASSUME NEW w \in Webhooks, Outgoing!Create(w) PROVE TalliesMove
  <2>1. PICK active \in BOOLEAN, events \in Outgoing!Subscriptions :
           webhook' = [webhook EXCEPT ![w].state = "live", ![w].isActive = active, ![w].events = events]
    BY <1>1 DEF Outgoing!Create
  <2>2. /\ webhook[w] = Outgoing!Unborn /\ webhook'[w].successCount = 0 /\ webhook'[w].failureCount = 0
        /\ \A v \in Webhooks \ {w} : webhook'[v] = webhook[v]
        /\ UNCHANGED <<event, send, sendFaults, sendCrashes>>
    BY <1>1, <1>a, <1>w, <2>1 DEF Outgoing!Create, Outgoing!Unborn, Outgoing!WebhookRow, Outgoing!boundVars
  <2>3. \A d \in Deliveries : send[d].to = w => event[d] = "absent"
    BY <2>2, <1>d DEF SendInv, SendsHaveAWebhook, Outgoing!Unborn, StatusAt
  <2>4. Successes(w)' = {} /\ Failures(w)' = {}
    BY <2>2, <2>3 DEF Successes, Failures, Counted
  <2>5. SuccessesMove(w) /\ FailuresMove(w)
    BY <2>2, <2>4 DEF SuccessesMove, FailuresMove, TallyMoves
  <2>6. ASSUME NEW v \in Webhooks \ {w}, Outgoing!Live(v)'
        PROVE  SuccessesMove(v) /\ FailuresMove(v) /\ Outgoing!Live(v)
    BY <2>2, <2>6 DEF SuccessesMove, FailuresMove, TallyMoves, Successes, Failures, Counted, Outgoing!Live
  <2>. QED
    BY <2>2, <2>4, <2>5, <2>6 DEF TalliesMove
<1>2. ASSUME NEW w \in Webhooks, Outgoing!Update(w) PROVE TalliesMove
  <2>1. PICK active \in BOOLEAN, events \in Outgoing!Subscriptions :
           webhook' = [webhook EXCEPT ![w].isActive = active, ![w].events = events]
    BY <1>2 DEF Outgoing!Update
  <2>2. \A v \in Webhooks : /\ webhook'[v].successCount = webhook[v].successCount
                            /\ webhook'[v].failureCount = webhook[v].failureCount
                            /\ webhook'[v].state = webhook[v].state
    BY <1>a, <1>w, <2>1 DEF Outgoing!WebhookRow
  <2>. QED
    BY <1>0, <1>2, <2>2 DEF Outgoing!Update
<1>3. ASSUME NEW w \in Webhooks, Outgoing!Remove(w) PROVE TalliesMove
  <2>1. /\ webhook' = [webhook EXCEPT ![w].state = "deleted"] /\ UNCHANGED <<send, sendFaults, sendCrashes>>
        /\ event' = [d \in Deliveries |-> IF send[d].to = w THEN "absent" ELSE event[d]]
    BY <1>3 DEF Outgoing!Remove, Outgoing!boundVars
  <2>2. ASSUME NEW v \in Webhooks, Outgoing!Live(v)'
        PROVE  /\ Outgoing!Live(v) /\ webhook'[v] = webhook[v]
               /\ Successes(v)' = Successes(v) /\ Failures(v)' = Failures(v)
    <3>1. v # w /\ webhook'[v] = webhook[v]
      BY <1>a, <1>w, <2>1, <2>2 DEF Outgoing!Live, Outgoing!WebhookRow
    <3>. QED
      BY <2>1, <2>2, <3>1 DEF Successes, Failures, Counted, Outgoing!Live
  <2>. QED
    BY <2>1, <2>2, <1>a DEF TalliesMove, SuccessesMove, FailuresMove, TallyMoves
<1>4. ASSUME NEW w \in Webhooks, Outgoing!Test(w) PROVE TalliesMove
  <2>1. \A d \in Deliveries : send'[d] = send[d] \/ send[d].pc = "idle"
    BY <1>4, <1>a DEF Outgoing!Test, Outgoing!Idle, Outgoing!At
  <2>. QED
    BY <1>0, <1>4, <1>e, <2>1 DEF Outgoing!Test, Outgoing!boundVars
<1>5. ASSUME NEW e \in Events, Outgoing!Dispatch(e) PROVE TalliesMove
  <2>1. Chosen(e) \in [Outgoing!Subscribed(e) -> Outgoing!Idle]
    BY <1>5, ChosenAreIdle
  <2>2. send' = [d \in Deliveries |->
                  IF \E w \in Outgoing!Subscribed(e) : Chosen(e)[w] = d
                  THEN [pc |-> "insert", to |-> CHOOSE w \in Outgoing!Subscribed(e) : Chosen(e)[w] = d]
                  ELSE send[d]]
    BY <1>5, ChosenAreIdle
  <2>3. \A d \in Deliveries : send'[d] = send[d] \/ send[d].pc = "idle"
    BY <2>1, <2>2 DEF Outgoing!Idle, Outgoing!At
  <2>4. UNCHANGED <<webhook, event, sendCrashes, sendFaults>>
    BY <1>5 DEF Outgoing!Dispatch, Outgoing!boundVars
  <2>. QED
    BY <1>0, <1>e, <2>3, <2>4
<1>6. ASSUME NEW d \in Deliveries, Outgoing!InsertEvent(d) PROVE TalliesMove
  <2>1. \A x \in Deliveries : x # d => send'[x] = send[x] /\ event'[x] = event[x]
    BY <1>6, <1>a DEF Outgoing!InsertEvent, Outgoing!Goes
  <2>2. send[d].pc = "insert" /\ event'[d] \in {event[d], "pending"}
        /\ UNCHANGED <<webhook, sendCrashes, sendFaults>>
    BY <1>6, <1>a DEF Outgoing!InsertEvent, Outgoing!At, Outgoing!boundVars
  <2>. QED
    BY <1>0, <1>e, <2>1, <2>2
<1>7. ASSUME NEW d \in Deliveries, Outgoing!Post(d) \/ Outgoing!PostTimesOut(d) PROVE TalliesMove
  <2>1. \A x \in Deliveries : x # d => send'[x] = send[x]
    BY <1>7, <1>a DEF Outgoing!Post, Outgoing!PostTimesOut, Outgoing!Goes
  <2>2. send[d].pc = "post" /\ UNCHANGED <<webhook, event, sendCrashes>> /\ sendFaults' \in {sendFaults, sendFaults + 1}
    BY <1>7, <1>a DEF Outgoing!Post, Outgoing!PostTimesOut, Outgoing!At, Outgoing!boundVars
  <2>. QED
    BY <1>0, <1>e, <2>1, <2>2
<1>l. ASSUME NEW d \in Deliveries, NEW pc, NEW status \in Outgoing!EventStatus, NEW f \in {sendFaults, sendFaults + 1},
             send' = [send EXCEPT ![d].pc = pc], event' = [event EXCEPT ![d] = status],
             UNCHANGED <<webhook, sendCrashes>>, sendFaults' = f,
             status = "success" /\ pc \notin {"countSuccess", "markFailed"} => f = sendFaults + 1,
             status = "failed" /\ pc # "countFailure" => f = sendFaults + 1,
             ~(event[d] = "success" /\ send[d].pc \notin {"countSuccess", "markFailed"}),
             ~(event[d] = "failed" /\ send[d].pc # "countFailure")
      PROVE  TalliesMove
  <2>1. /\ \A x \in Deliveries : x # d => send'[x] = send[x] /\ event'[x] = event[x]
        /\ send'[d].pc = pc /\ send'[d].to = send[d].to /\ event'[d] = status
    BY <1>l, <1>a DEF Outgoing!SendRecord
  <2>2. ASSUME NEW w \in Webhooks
        PROVE  /\ Successes(w)' = Successes(w) \/ (f = sendFaults + 1 /\ Successes(w)' = Successes(w) \cup {d})
               /\ Failures(w)' = Failures(w) \/ (f = sendFaults + 1 /\ Failures(w)' = Failures(w) \cup {d})
    <3>1. /\ d \notin Successes(w) /\ d \notin Failures(w)
          /\ d \in Successes(w)' \/ d \in Failures(w)' => f = sendFaults + 1
      BY <1>l, <2>1 DEF Successes, Failures, Counted
    <3>2. \A x \in Deliveries \ {d} : /\ x \in Successes(w)' <=> x \in Successes(w)
                                      /\ x \in Failures(w)' <=> x \in Failures(w)
      BY <2>1 DEF Successes, Failures, Counted
    <3>3. Successes(w) \subseteq Deliveries /\ Successes(w)' \subseteq Deliveries
          /\ Failures(w) \subseteq Deliveries /\ Failures(w)' \subseteq Deliveries
      BY DEF Successes, Failures, Counted
    <3>4. Successes(w)' = Successes(w) \/ (Successes(w)' = Successes(w) \cup {d} /\ d \in Successes(w)')
      BY <3>1, <3>2, <3>3
    <3>5. Failures(w)' = Failures(w) \/ (Failures(w)' = Failures(w) \cup {d} /\ d \in Failures(w)')
      BY <3>1, <3>2, <3>3
    <3>. QED
      BY <3>1, <3>4, <3>5
  <2>. QED
    BY <1>l, <2>2, <1>a DEF TalliesMove, SuccessesMove, FailuresMove, TallyMoves, Outgoing!Live
<1>8. ASSUME NEW d \in Deliveries, Outgoing!MarkSuccess(d) PROVE TalliesMove
  <2>1. /\ send[d].pc = "markSuccess" /\ send' = [send EXCEPT ![d].pc = "countSuccess"]
        /\ UNCHANGED <<webhook, sendFaults, sendCrashes>>
        /\ event' = [event EXCEPT ![d] = IF event[d] = "absent" THEN event[d] ELSE "success"]
    BY <1>8 DEF Outgoing!MarkSuccess, Outgoing!At, Outgoing!Goes, Outgoing!Marked, Outgoing!boundVars
  <2>. QED
    BY <2>1, <1>l, <1>e DEF Outgoing!EventStatus
<1>10. ASSUME NEW d \in Deliveries, Outgoing!MarkFailed(d) PROVE TalliesMove
  <2>1. /\ send[d].pc = "markFailed" /\ send' = [send EXCEPT ![d].pc = "countFailure"]
        /\ UNCHANGED <<webhook, sendFaults, sendCrashes>>
        /\ event' = [event EXCEPT ![d] = IF event[d] = "absent" THEN event[d] ELSE "failed"]
    BY <1>10 DEF Outgoing!MarkFailed, Outgoing!At, Outgoing!Goes, Outgoing!Marked, Outgoing!boundVars
  <2>2. event[d] # "failed"
    BY <2>1, <1>d DEF StatusAt
  <2>. QED
    BY <2>1, <2>2, <1>l DEF Outgoing!EventStatus
<1>9. ASSUME NEW d \in Deliveries, Outgoing!CountSuccess(d) PROVE TalliesMove
  <2>1. /\ send[d].pc = "countSuccess" /\ send' = [send EXCEPT ![d].pc = "done"]
        /\ UNCHANGED <<event, sendFaults, sendCrashes>>
        /\ webhook' = [webhook EXCEPT ![send[d].to].successCount = @ + 1]
    BY <1>9 DEF Outgoing!CountSuccess, Outgoing!At, Outgoing!Goes, Outgoing!CountedSuccess, Outgoing!boundVars
  <2>2. /\ \A x \in Deliveries : x # d => send'[x] = send[x]
        /\ send'[d].pc = "done" /\ send'[d].to = send[d].to /\ send[d].to \in Webhooks
    BY <2>1, <1>a, <1>d DEF Outgoing!SendRecord
  <2>3. \A w \in Webhooks : /\ webhook'[w].state = webhook[w].state /\ webhook'[w].failureCount = webhook[w].failureCount
                            /\ webhook'[w].successCount = webhook[w].successCount + (IF w = send[d].to THEN 1 ELSE 0)
    BY <2>1, <2>2, <1>a, <1>w DEF Outgoing!WebhookRow
  <2>4. webhook[send[d].to].state = "live" => event[d] = "success"
    BY <2>1, <1>d DEF StatusAt
  <2>5. \A w \in Webhooks : webhook[w].state = "live" =>
          /\ Failures(w)' = Failures(w)
          /\ w # send[d].to => Successes(w)' = Successes(w)
          /\ w = send[d].to => d \notin Successes(w) /\ Successes(w)' = Successes(w) \cup {d}
    BY <2>1, <2>2, <2>4, <1>d DEF Successes, Failures, Counted, StatusAt
  <2>. QED
    BY <2>1, <2>3, <2>5, <1>a DEF TalliesMove, SuccessesMove, FailuresMove, TallyMoves, Outgoing!Live
<1>11. ASSUME NEW d \in Deliveries, Outgoing!CountFailure(d) PROVE TalliesMove
  <2>1. /\ send[d].pc = "countFailure" /\ send' = [send EXCEPT ![d].pc = "done"]
        /\ UNCHANGED <<event, sendFaults, sendCrashes>>
        /\ webhook' = [webhook EXCEPT ![send[d].to].failureCount = @ + 1]
    BY <1>11 DEF Outgoing!CountFailure, Outgoing!At, Outgoing!Goes, Outgoing!CountedFailure, Outgoing!boundVars
  <2>2. /\ \A x \in Deliveries : x # d => send'[x] = send[x]
        /\ send'[d].pc = "done" /\ send'[d].to = send[d].to /\ send[d].to \in Webhooks
    BY <2>1, <1>a, <1>d DEF Outgoing!SendRecord
  <2>3. \A w \in Webhooks : /\ webhook'[w].state = webhook[w].state /\ webhook'[w].successCount = webhook[w].successCount
                            /\ webhook'[w].failureCount = webhook[w].failureCount + (IF w = send[d].to THEN 1 ELSE 0)
    BY <2>1, <2>2, <1>a, <1>w DEF Outgoing!WebhookRow
  <2>4. webhook[send[d].to].state = "live" => event[d] = "failed"
    BY <2>1, <1>d DEF StatusAt
  <2>5. \A w \in Webhooks : webhook[w].state = "live" =>
          /\ Successes(w)' = Successes(w)
          /\ w # send[d].to => Failures(w)' = Failures(w)
          /\ w = send[d].to => d \notin Failures(w) /\ Failures(w)' = Failures(w) \cup {d}
    BY <2>1, <2>2, <2>4, <1>d DEF Successes, Failures, Counted, StatusAt
  <2>. QED
    BY <2>1, <2>3, <2>5, <1>a DEF TalliesMove, SuccessesMove, FailuresMove, TallyMoves, Outgoing!Live
<1>13. ASSUME NEW d \in Deliveries, Outgoing!StatementFails(d) PROVE TalliesMove
  <2>1. /\ send[d].pc \in Outgoing!Steps \ {"post"}
        /\ send' = [send EXCEPT ![d].pc = IF send[d].pc \in {"markSuccess", "countSuccess"}
                                         THEN "markFailed" ELSE "lost"]
        /\ sendFaults' = sendFaults + 1 /\ UNCHANGED sendCrashes
    BY <1>13 DEF Outgoing!StatementFails, Outgoing!Goes
  <2>2. /\ \A x \in Deliveries : x # d => send'[x] = send[x]
        /\ send'[d].to = send[d].to /\ send[d].to \in Webhooks
        /\ send'[d].pc = IF send[d].pc \in {"markSuccess", "countSuccess"} THEN "markFailed" ELSE "lost"
    BY <2>1, <1>a, <1>d DEF Outgoing!SendRecord, Outgoing!Steps
  <2>3. /\ \A x \in Deliveries : x # d => event'[x] = event[x]
        /\ event'[d] \in {event[d], "pending", "success", "failed"}
    BY <1>13, <1>a DEF Outgoing!StatementFails, Outgoing!Marked
  <2>4. \A w \in Webhooks :
          /\ webhook'[w].state = webhook[w].state
          /\ webhook'[w].successCount \in {webhook[w].successCount, webhook[w].successCount + 1}
          /\ webhook'[w].failureCount \in {webhook[w].failureCount, webhook[w].failureCount + 1}
    <3>1. CASE UNCHANGED webhook
      BY <3>1
    <3>2. CASE Outgoing!CountedSuccess(d) \/ Outgoing!CountedFailure(d)
      BY <3>2, <2>2, <1>a, <1>w DEF Outgoing!CountedSuccess, Outgoing!CountedFailure, Outgoing!WebhookRow
    <3>. QED
      BY <1>13, <3>1, <3>2 DEF Outgoing!StatementFails
  <2>5. ~(event[d] = "success" /\ send[d].pc \notin {"countSuccess", "markFailed"})
        /\ ~(event[d] = "failed" /\ send[d].pc # "countFailure")
    BY <2>1, <1>d DEF StatusAt, Outgoing!Steps
  <2>6. \A w \in Webhooks : /\ Successes(w)' \in {Successes(w), Successes(w) \cup {d}}
                            /\ Failures(w)' \in {Failures(w), Failures(w) \cup {d}}
    <3>. SUFFICES ASSUME NEW w \in Webhooks
                  PROVE  /\ Successes(w)' \in {Successes(w), Successes(w) \cup {d}}
                         /\ Failures(w)' \in {Failures(w), Failures(w) \cup {d}}
      OBVIOUS
    <3>1. d \notin Successes(w) /\ d \notin Failures(w)
      BY <2>5 DEF Successes, Failures, Counted
    <3>2. \A x \in Deliveries \ {d} : /\ x \in Successes(w)' <=> x \in Successes(w)
                                      /\ x \in Failures(w)' <=> x \in Failures(w)
      BY <2>2, <2>3 DEF Successes, Failures, Counted
    <3>3. Successes(w) \subseteq Deliveries /\ Successes(w)' \subseteq Deliveries
          /\ Failures(w) \subseteq Deliveries /\ Failures(w)' \subseteq Deliveries
      BY DEF Successes, Failures, Counted
    <3>5. Successes(w)' \in {Successes(w), Successes(w) \cup {d}}
      BY <3>1, <3>2, <3>3
    <3>6. Failures(w)' \in {Failures(w), Failures(w) \cup {d}}
      BY <3>1, <3>2, <3>3
    <3>. QED
      BY <3>5, <3>6
  <2>. QED
    BY <2>1, <2>4, <2>6, <1>a DEF TalliesMove, SuccessesMove, FailuresMove, TallyMoves, Outgoing!Live
<1>14. CASE Outgoing!Crash
  <2>1. /\ UNCHANGED <<webhook, event, sendFaults>> /\ sendCrashes' = sendCrashes + 1
        /\ \A d \in Deliveries : send'[d] = send[d] \/ (send'[d].pc = "lost" /\ send'[d].to = send[d].to)
    BY <1>14, <1>a DEF Outgoing!Crash, Outgoing!SendRecord
  <2>2. \A w \in Webhooks : Successes(w) \subseteq Successes(w)' /\ Failures(w) \subseteq Failures(w)'
    BY <2>1 DEF Successes, Failures, Counted
  <2>. QED
    BY <2>1, <2>2, <1>a DEF TalliesMove, SuccessesMove, FailuresMove, TallyMoves, Outgoing!Live
<1>15. CASE UNCHANGED outgoingVars
  BY <1>0, <1>15 DEF outgoingVars
<1>. QED
  BY <1>1, <1>2, <1>3, <1>4, <1>5, <1>6, <1>7, <1>8, <1>9, <1>10, <1>11, <1>13, <1>14, <1>15
  DEF Outgoing!Next, Outgoing!SendStep

(* The deliveries called failed, or about to be, that the subscriber       *)
(* accepted.                                                               *)
Misjudged ==
    {d \in Deliveries : received[d] = "accepted" /\ (event[d] = "failed" \/ send[d].pc = "markFailed")}

(* Each of them is the price of a lost answer or statement. *)
MisjudgedArePaidFor == Cardinality(Misjudged) <= sendFaults

(* A step adds a delivery to those only when it fails. *)
LEMMA MisjudgedMove ==
    SendInv /\ [Outgoing!Next]_outgoingVars =>
        \/ Misjudged' \subseteq Misjudged /\ sendFaults' \in {sendFaults, sendFaults + 1}
        \/ \E d \in Deliveries : Misjudged' \subseteq Misjudged \cup {d} /\ sendFaults' = sendFaults + 1
<1>. DEFINE Goal == \/ Misjudged' \subseteq Misjudged /\ sendFaults' \in {sendFaults, sendFaults + 1}
                    \/ \E d \in Deliveries : Misjudged' \subseteq Misjudged \cup {d} /\ sendFaults' = sendFaults + 1
<1>. SUFFICES ASSUME SendInv, [Outgoing!Next]_outgoingVars PROVE Goal
  OBVIOUS
<1>a. /\ sendFaults \in Nat /\ event \in [Deliveries -> Outgoing!EventStatus]
      /\ send \in [Deliveries -> Outgoing!SendRecord]
      /\ received \in [Deliveries -> {"nothing", "accepted", "refused"}]
  BY TelephonyAssumption DEF Outgoing!WebhookAssumption, SendInv, Outgoing!TypeOK
<1>d. \A d \in Deliveries : event[d] \in StatusAt(send[d].pc) /\ send[d] \in Outgoing!SendRecord
  BY <1>a DEF SendInv, SendsKeepStep
<1>s. ASSUME sendFaults' \in {sendFaults, sendFaults + 1},
             \A d \in Deliveries : received'[d] = "accepted" /\ (event'[d] = "failed" \/ send'[d].pc = "markFailed")
                => received[d] = "accepted" /\ (event[d] = "failed" \/ send[d].pc = "markFailed")
      PROVE  Goal
  BY <1>s DEF Misjudged
<1>u. ASSUME UNCHANGED <<received, sendFaults>>,
             \A d \in Deliveries : /\ event'[d] = "failed" => event[d] = "failed"
                                   /\ send'[d].pc = "markFailed" => send[d].pc = "markFailed"
      PROVE  Goal
  BY <1>s, <1>u
<1>1. ASSUME NEW w \in Webhooks, Outgoing!Create(w) \/ Outgoing!Update(w) PROVE Goal
  BY <1>1, <1>u DEF Outgoing!Create, Outgoing!Update, Outgoing!boundVars
<1>2. ASSUME NEW w \in Webhooks, Outgoing!Remove(w) PROVE Goal
  BY <1>2, <1>u DEF Outgoing!Remove, Outgoing!boundVars
<1>3. ASSUME NEW w \in Webhooks, Outgoing!Test(w) PROVE Goal
  BY <1>3, <1>u, <1>a DEF Outgoing!Test, Outgoing!boundVars
<1>4. ASSUME NEW e \in Events, Outgoing!Dispatch(e) PROVE Goal
  <2>1. \A d \in Deliveries : send'[d] = send[d] \/ send'[d].pc = "insert"
    BY <1>4, ChosenAreIdle
  <2>. QED
    BY <1>4, <1>u, <2>1 DEF Outgoing!Dispatch, Outgoing!boundVars
<1>5. ASSUME NEW d \in Deliveries, Outgoing!InsertEvent(d) PROVE Goal
  BY <1>5, <1>u, <1>a DEF Outgoing!InsertEvent, Outgoing!boundVars, Outgoing!Goes, Outgoing!SendRecord
<1>6. ASSUME NEW d \in Deliveries, Outgoing!Post(d) PROVE Goal
  <2>1. PICK outcome \in {"accepted", "refused"} :
           /\ received' = [received EXCEPT ![d] = outcome]
           /\ send' = [send EXCEPT ![d].pc = Outgoing!AfterPost(outcome)]
    BY <1>6 DEF Outgoing!Post, Outgoing!Goes
  <2>2. /\ UNCHANGED <<event, sendFaults>> /\ event[d] # "failed"
        /\ \A x \in Deliveries : x # d => send'[x] = send[x] /\ received'[x] = received[x]
        /\ received'[d] = "accepted" => send'[d].pc # "markFailed"
    BY <1>6, <1>a, <1>d, <2>1 DEF Outgoing!Post, Outgoing!At, StatusAt, Outgoing!boundVars,
       Outgoing!AfterPost, Outgoing!SendRecord
  <2>. QED
    BY <1>s, <2>2
<1>7. ASSUME NEW d \in Deliveries, sendFaults' = sendFaults + 1,
             \A x \in Deliveries : x # d => send'[x] = send[x] /\ event'[x] = event[x] /\ received'[x] = received[x]
      PROVE  Goal
  BY <1>7 DEF Misjudged
<1>8. ASSUME NEW d \in Deliveries, Outgoing!PostTimesOut(d) PROVE Goal
  BY <1>8, <1>7, <1>a DEF Outgoing!PostTimesOut, Outgoing!Goes
<1>9. ASSUME NEW d \in Deliveries, Outgoing!StatementFails(d) PROVE Goal
  <2>1. \A x \in Deliveries : x # d => event'[x] = event[x]
    BY <1>9, <1>a DEF Outgoing!StatementFails, Outgoing!Marked
  <2>2. sendFaults' = sendFaults + 1 /\ UNCHANGED received /\ \A x \in Deliveries : x # d => send'[x] = send[x]
    BY <1>9, <1>a DEF Outgoing!StatementFails, Outgoing!Goes
  <2>. QED
    BY <1>7, <2>1, <2>2
<1>10. ASSUME NEW d \in Deliveries, Outgoing!MarkSuccess(d) PROVE Goal
  BY <1>10, <1>u, <1>a DEF Outgoing!MarkSuccess, Outgoing!Marked, Outgoing!Goes, Outgoing!SendRecord,
     Outgoing!boundVars
<1>11. ASSUME NEW d \in Deliveries, Outgoing!CountSuccess(d) \/ Outgoing!CountFailure(d) PROVE Goal
  BY <1>11, <1>u, <1>a DEF Outgoing!CountSuccess, Outgoing!CountFailure, Outgoing!Goes,
     Outgoing!SendRecord, Outgoing!boundVars
<1>12. ASSUME NEW d \in Deliveries, Outgoing!MarkFailed(d) PROVE Goal
  <2>1. /\ send[d].pc = "markFailed" /\ UNCHANGED <<received, sendFaults>>
        /\ \A x \in Deliveries : x # d => event'[x] = event[x] /\ send'[x] = send[x]
    BY <1>12, <1>a DEF Outgoing!MarkFailed, Outgoing!Marked, Outgoing!Goes, Outgoing!At, Outgoing!boundVars
  <2>. QED
    BY <1>s, <2>1
<1>13. CASE Outgoing!Crash
  <2>1. /\ UNCHANGED <<event, sendFaults>>
        /\ \A d \in Deliveries : send'[d].pc = "markFailed" => send[d].pc = "markFailed" /\ received'[d] = received[d]
        /\ \A d \in Deliveries : received'[d] = received[d] \/ (send[d].pc = "post" /\ send'[d].pc = "lost")
    BY <1>13, <1>a DEF Outgoing!Crash, Outgoing!SendRecord, Outgoing!At, Outgoing!Steps
  <2>2. \A d \in Deliveries : send[d].pc = "post" => event[d] # "failed"
    BY <1>d DEF StatusAt
  <2>. QED
    BY <1>s, <2>1, <2>2
<1>14. CASE UNCHANGED outgoingVars
  BY <1>u, <1>14 DEF outgoingVars
<1>15. Goal
  <2>. HIDE DEF Goal
  <2>. QED
    BY <1>1, <1>2, <1>3, <1>4, <1>5, <1>6, <1>8, <1>9, <1>10, <1>11, <1>12, <1>13, <1>14
    DEF Outgoing!Next, Outgoing!SendStep
<1>. QED
  BY <1>15

(* The counters of the live webhooks are as close as the failures and      *)
(* crashes allow.                                                          *)
TalliesHold ==
    \A w \in Webhooks : Outgoing!Live(w) =>
        /\ TallyHolds(Successes(w), webhook[w].successCount, sendFaults, sendCrashes)
        /\ TallyHolds(Failures(w), webhook[w].failureCount, sendFaults, sendCrashes)

(* The inductive invariant of the webhooks module. *)
SendIInv == SendInv /\ MisjudgedArePaidFor /\ TalliesHold

(* A step keeps the counters as close. *)
LEMMA TalliesKept ==
    ASSUME SendInv, SendInv', TalliesHold, TalliesMove PROVE TalliesHold'
<1>. SUFFICES ASSUME NEW w \in Webhooks, Outgoing!Live(w)'
              PROVE  /\ TallyHolds(Successes(w)', webhook'[w].successCount, sendFaults', sendCrashes')
                     /\ TallyHolds(Failures(w)', webhook'[w].failureCount, sendFaults', sendCrashes')
  BY DEF TalliesHold, TallyHolds
<1>1. /\ sendFaults \in Nat /\ sendCrashes \in Nat /\ webhook[w].successCount \in Nat /\ webhook[w].failureCount \in Nat
      /\ sendFaults' \in Nat /\ sendCrashes' \in Nat
      /\ webhook'[w].successCount \in Nat /\ webhook'[w].failureCount \in Nat
  BY TelephonyAssumption DEF Outgoing!WebhookAssumption, SendInv, Outgoing!TypeOK, Outgoing!WebhookRow
<1>2. /\ Successes(w) \in SUBSET Deliveries /\ Successes(w)' \in SUBSET Deliveries
      /\ Failures(w) \in SUBSET Deliveries /\ Failures(w)' \in SUBSET Deliveries
  BY DEF Successes, Failures, Counted
<1>3. SuccessesMove(w) /\ FailuresMove(w)
  BY DEF TalliesMove
<1>4. \/ /\ TallyHolds(Successes(w), webhook[w].successCount, sendFaults, sendCrashes)
         /\ TallyHolds(Failures(w), webhook[w].failureCount, sendFaults, sendCrashes)
      \/ /\ Successes(w)' = {} /\ webhook'[w].successCount = 0
         /\ Failures(w)' = {} /\ webhook'[w].failureCount = 0
  BY DEF TalliesMove, TalliesHold
<1>5. TallyHolds(Successes(w)', webhook'[w].successCount, sendFaults', sendCrashes')
  BY <1>1, <1>2, <1>3, <1>4, TallyKept DEF SuccessesMove
<1>6. TallyHolds(Failures(w)', webhook'[w].failureCount, sendFaults', sendCrashes')
  BY <1>1, <1>2, <1>3, <1>4, TallyKept DEF FailuresMove
<1>. QED
  BY <1>5, <1>6

(* A step keeps the balance of misjudged deliveries and failures. *)
LEMMA MisjudgedKept ==
    ASSUME SendInv, MisjudgedArePaidFor, [Outgoing!Next]_outgoingVars PROVE MisjudgedArePaidFor'
<1>1. /\ IsFiniteSet(Misjudged) /\ Cardinality(Misjudged) \in Nat
      /\ IsFiniteSet(Misjudged') /\ Cardinality(Misjudged') \in Nat /\ sendFaults \in Nat
  <2>1. IsFiniteSet(Deliveries)
    BY TelephonyAssumption, Zenon DEF Outgoing!WebhookAssumption, Outgoing!IsFiniteSet, IsFiniteSet
  <2>2. sendFaults \in Nat
    BY TelephonyAssumption DEF Outgoing!WebhookAssumption, SendInv, Outgoing!TypeOK
  <2>. QED
    BY <2>1, <2>2, CountPart DEF Misjudged
<1>2. CASE Misjudged' \subseteq Misjudged /\ sendFaults' \in {sendFaults, sendFaults + 1}
  <2>1. Cardinality(Misjudged') <= Cardinality(Misjudged)
    BY <1>1, <1>2, CountPart
  <2>. QED
    BY <1>1, <1>2, <2>1 DEF MisjudgedArePaidFor
<1>3. ASSUME NEW d \in Deliveries, Misjudged' \subseteq Misjudged \cup {d}, sendFaults' = sendFaults + 1
      PROVE  MisjudgedArePaidFor'
  <2>1. Cardinality(Misjudged') <= Cardinality(Misjudged) + 1
    BY <1>1, <1>3, CountOneMore
  <2>. QED
    BY <1>1, <1>3, <2>1 DEF MisjudgedArePaidFor
<1>. QED
  BY <1>2, <1>3, MisjudgedMove

(* The initial states satisfy the invariant. *)
LEMMA SendInit == Outgoing!Init => SendIInv
<1>. SUFFICES ASSUME Outgoing!Init PROVE SendIInv
  OBVIOUS
<1>1. SendInv
  BY TelephonyAssumption DEF Outgoing!Init, SendInv, SendsKeepStep, SendsHaveAWebhook, UnbornAreNew,
     Outgoing!TypeOK, Outgoing!Unborn, Outgoing!WebhookRow, Outgoing!Subscriptions, Outgoing!SendRecord,
     Outgoing!EventStatus, StatusAt, Outgoing!WebhookAssumption, Outgoing!Live
<1>2. Misjudged = {} /\ sendFaults = 0
  BY DEF Outgoing!Init, Misjudged
<1>3. \A w \in Webhooks : ~Outgoing!Live(w)
  BY DEF Outgoing!Init, Outgoing!Live, Outgoing!Unborn
<1>. QED
  BY <1>1, <1>2, <1>3, FS_EmptySet DEF SendIInv, MisjudgedArePaidFor, TalliesHold

(* A step of the suite is one of the webhooks module, or leaves it alone. *)
LEMMA AllMovesOutgoing == [AllNext]_allVars => [Outgoing!Next]_outgoingVars
BY DEF AllNext, allVars

(* It holds in every state. *)
LEMMA SendAlways == AllSpec => []SendIInv
<1>1. AllInit => SendIInv
  BY SendInit DEF AllInit
<1>2. SendIInv /\ [AllNext]_allVars => SendIInv'
  BY SendStep, TalliesStep, TalliesKept, MisjudgedKept, AllMovesOutgoing DEF SendIInv
<1>. QED
  BY <1>1, <1>2, PTL DEF AllSpec

(* It implies that the log is true and the counters match it. *)
LEMMA SendKeeps == SendIInv => WebhookLogIsTrue
<1>. SUFFICES ASSUME SendIInv PROVE Outgoing!LogIsTrue /\ Outgoing!CountersMatchLog
  BY DEF WebhookLogIsTrue
<1>1. IsFiniteSet(Deliveries)
  BY TelephonyAssumption, Zenon DEF Outgoing!WebhookAssumption, Outgoing!IsFiniteSet, IsFiniteSet
<1>2. sendFaults \in Nat /\ sendCrashes \in Nat /\ Cardinality(Deliveries) \in Nat
      /\ \A w \in Webhooks : webhook[w].successCount \in Nat /\ webhook[w].failureCount \in Nat
  BY <1>1, CountPart, TelephonyAssumption DEF Outgoing!WebhookAssumption, SendIInv, SendInv,
     Outgoing!TypeOK, Outgoing!WebhookRow
<1>s. \A S : Outgoing!Cardinality(S) = Cardinality(S)
  BY Zenon DEF Outgoing!Cardinality, Cardinality
<1>3. Outgoing!LogIsTrue
  <2>. DEFINE Wrong == {d \in Deliveries : event[d] = "failed" /\ received[d] = "accepted"}
  <2>1. Wrong \subseteq Misjudged /\ Misjudged \subseteq Deliveries
    BY DEF Misjudged
  <2>2. Cardinality(Wrong) <= sendFaults
    <3>1. IsFiniteSet(Misjudged)
      BY <1>1, <2>1, CountPart
    <3>2. Cardinality(Wrong) <= Cardinality(Misjudged) /\ Cardinality(Wrong) \in Nat /\ Cardinality(Misjudged) \in Nat
      BY <2>1, <3>1, CountPart
    <3>. QED
      BY <1>2, <3>2 DEF SendIInv, MisjudgedArePaidFor
  <2>. QED
    BY <1>s, <2>2 DEF Outgoing!LogIsTrue, SendIInv, SendInv, SendsKeepStep
<1>4. ASSUME NEW w \in Webhooks, Outgoing!Live(w)
      PROVE  LET success  == Outgoing!Cardinality(Outgoing!EventsOf(w, "success"))
                 failed   == Outgoing!Cardinality(Outgoing!EventsOf(w, "failed"))
                 counting == Outgoing!Cardinality({d \in Deliveries : send[d].to = w /\
                                       send[d].pc \in {"countSuccess", "markFailed", "countFailure"}})
                 trouble  == counting + sendFaults + sendCrashes * Outgoing!Cardinality(Deliveries) IN
             /\ webhook[w].successCount <= success + sendFaults
             /\ webhook[w].failureCount <= failed + sendFaults
             /\ success <= webhook[w].successCount + trouble
             /\ failed <= webhook[w].failureCount + trouble
  <2>. DEFINE S == Outgoing!EventsOf(w, "success")
              F == Outgoing!EventsOf(w, "failed")
              C == {d \in Deliveries : send[d].to = w /\
                                       send[d].pc \in {"countSuccess", "markFailed", "countFailure"}}
  <2>1. /\ Successes(w) \subseteq S /\ S \subseteq Successes(w) \cup C
        /\ Failures(w) \subseteq F /\ F \subseteq Failures(w) \cup C
        /\ S \subseteq Deliveries /\ F \subseteq Deliveries /\ C \subseteq Deliveries
    BY DEF Outgoing!EventsOf, Successes, Failures, Counted
  <2>. HIDE DEF S, F, C
  <2>2. IsFiniteSet(S) /\ IsFiniteSet(F) /\ IsFiniteSet(C)
        /\ Cardinality(S) \in Nat /\ Cardinality(F) \in Nat /\ Cardinality(C) \in Nat
    BY <1>1, <2>1, CountPart
  <2>3. /\ IsFiniteSet(Successes(w)) /\ Cardinality(Successes(w)) \in Nat /\ Cardinality(Successes(w)) <= Cardinality(S)
        /\ IsFiniteSet(Failures(w)) /\ Cardinality(Failures(w)) \in Nat /\ Cardinality(Failures(w)) <= Cardinality(F)
    BY <2>1, <2>2, CountPart
  <2>4. /\ Cardinality(S) <= Cardinality(Successes(w)) + Cardinality(C)
        /\ Cardinality(F) <= Cardinality(Failures(w)) + Cardinality(C)
    BY <2>1, <2>2, <2>3, CountTogether
  <2>5. sendCrashes * Cardinality(Deliveries) \in Nat
    BY <1>2, OneMoreTime
  <2>6. /\ TallyHolds(Successes(w), webhook[w].successCount, sendFaults, sendCrashes)
        /\ TallyHolds(Failures(w), webhook[w].failureCount, sendFaults, sendCrashes)
    BY <1>4 DEF SendIInv, TalliesHold
  <2>7. /\ webhook[w].successCount <= Cardinality(S) + sendFaults
        /\ webhook[w].failureCount <= Cardinality(F) + sendFaults
        /\ Cardinality(S) <= webhook[w].successCount
             + (Cardinality(C) + sendFaults + sendCrashes * Cardinality(Deliveries))
        /\ Cardinality(F) <= webhook[w].failureCount
             + (Cardinality(C) + sendFaults + sendCrashes * Cardinality(Deliveries))
    BY <1>2, <2>2, <2>3, <2>4, <2>5, <2>6 DEF TallyHolds
  <2>. QED
    BY <1>s, <2>7 DEF S, F, C
<1>. QED
  BY <1>3, <1>4 DEF Outgoing!CountersMatchLog

(* The log of outgoing webhooks claims no delivery that did not happen,    *)
(* and the counters of a webhook add up to its log but for what crashes    *)
(* and failures have cost (WebhooksService.send, whose event and counter   *)
(* are two statements).                                                    *)
THEOREM WebhookLogAlwaysTrue == AllSpec => []WebhookLogIsTrue
BY SendAlways, SendKeeps, PTL

(* What a step posts is for a webhook that is still there. *)
RemovedStep ==
    \A d \in Deliveries : Outgoing!At(d, "insert") /\ send'[d].pc = "post" => Outgoing!Live(send[d].to)

(* Every step of the webhooks module is of this kind. *)
LEMMA RemovedHere == SendInv /\ [Outgoing!Next]_outgoingVars => RemovedStep
<1>. SUFFICES ASSUME SendInv, [Outgoing!Next]_outgoingVars PROVE RemovedStep
  OBVIOUS
<1>a. send \in [Deliveries -> Outgoing!SendRecord]
  BY DEF SendInv, Outgoing!TypeOK
<1>u. ASSUME \A d \in Deliveries : send'[d] = send[d] \/ send'[d].pc # "post" PROVE RemovedStep
  BY <1>u DEF RemovedStep, Outgoing!At
<1>1. ASSUME NEW d \in Deliveries, Outgoing!InsertEvent(d) PROVE RemovedStep
  <2>1. CASE Outgoing!Live(send[d].to)
    BY <1>1, <1>a, <2>1 DEF Outgoing!InsertEvent, Outgoing!Goes, RemovedStep, Outgoing!At
  <2>2. CASE ~Outgoing!Live(send[d].to)
    BY <1>u, <1>1, <1>a, <2>2 DEF Outgoing!InsertEvent, Outgoing!Goes, Outgoing!SendRecord
  <2>. QED
    BY <2>1, <2>2
<1>2. ASSUME NEW e \in Events, Outgoing!Dispatch(e) PROVE RemovedStep
  <2>1. \A d \in Deliveries : send'[d] = send[d] \/ send'[d].pc = "insert"
    BY <1>2, ChosenAreIdle
  <2>. QED
    BY <1>u, <2>1
<1>3. ASSUME NEW w \in Webhooks, Outgoing!Test(w) PROVE RemovedStep
  BY <1>u, <1>3, <1>a DEF Outgoing!Test
<1>4. ASSUME NEW d \in Deliveries, NEW pc, Outgoing!Goes(d, pc), pc # "post" PROVE RemovedStep
  BY <1>u, <1>4, <1>a DEF Outgoing!Goes, Outgoing!SendRecord
<1>5. CASE Outgoing!Crash
  BY <1>u, <1>5, <1>a DEF Outgoing!Crash, Outgoing!SendRecord
<1>6. ASSUME NEW d \in Deliveries, Outgoing!Post(d) PROVE RemovedStep
  BY <1>4, <1>6 DEF Outgoing!Post, Outgoing!AfterPost
<1>7. CASE UNCHANGED send
  BY <1>u, <1>7
<1>8. ASSUME NEW d \in Deliveries, Outgoing!StatementFails(d) PROVE RemovedStep
  BY <1>4, <1>8 DEF Outgoing!StatementFails
<1>. QED
  BY <1>1, <1>2, <1>3, <1>4, <1>5, <1>6, <1>7, <1>8
  DEF Outgoing!Next, Outgoing!SendStep, outgoingVars, Outgoing!Create, Outgoing!Update,
      Outgoing!Remove, Outgoing!PostTimesOut, Outgoing!MarkSuccess, Outgoing!CountSuccess,
      Outgoing!MarkFailed, Outgoing!CountFailure

(* Nothing is posted for a webhook removed before its event was stored     *)
(* (WebhooksService.send: the insert fails on the foreign key).            *)
THEOREM RemovedAreQuiet == AllSpec => Outgoing!RemovedIsQuiet
<1>1. SendIInv /\ [AllNext]_allVars => [RemovedStep]_outgoingVars
  BY RemovedHere, AllMovesOutgoing DEF SendIInv
<1>. QED
  BY <1>1, SendAlways, PTL DEF AllSpec, Outgoing!RemovedIsQuiet, RemovedStep, Outgoing!vars, outgoingVars

-----------------------------------------------------------------------------

(* No row takes back what another one's callback, opt-out or removal       *)
(* wrote: the four together.                                               *)
THEOREM NothingIsEverTakenBack ==
    ASSUME "importCsv" \notin Together PROVE AllSpec => NothingIsTakenBack
BY NotesAreKept, RemovedAreQuiet, ContactsAreKept, ImportsAlwaysMerge DEF NothingIsTakenBack

(* The variables of each part keep their types in every state. *)
THEOREM TelephonyTypes == AllSpec => []AllTypeOK
<1>1. AllInit => part \in Parts
  BY DEF AllInit
<1>2. part \in Parts /\ [AllNext]_allVars => (part \in Parts)'
  BY DEF AllNext, allVars
<1>3. part \in Parts /\ VoiceIInv /\ SendIInv /\ PeopleInv => AllTypeOK
  BY TelephonyAssumption DEF VoiceIInv, VoiceInv, SendIInv, SendInv, PeopleInv, AllTypeOK
<1>. QED
  BY <1>1, <1>2, <1>3, VoiceAlways, SendAlways, PeopleAlways, PTL DEF AllSpec
=============================================================================
