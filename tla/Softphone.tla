------------------------------ MODULE Softphone -------------------------------
(***************************************************************************)
(* The softphone of one tab: the page of calls with its dialpad and its    *)
(* device, the banner of the active call that stays while pages change,    *)
(* and the calls at Twilio they are about.                                 *)
(***************************************************************************)
EXTENDS Integers, Sequences, FiniteSets

CONSTANTS Calls, Numbers, None,
          Identity,  \* whom the voice token names
          Dialled,   \* whom the TwiML of an inbound call dials
          Registered, \* whether a device made is one that rings
          MaxTexts, MaxDials, MaxFails  \* bounds

SoftphoneAssumption ==
    /\ None \notin Calls \cup Numbers
    /\ Registered \in BOOLEAN
    /\ MaxTexts \in Nat /\ MaxDials \in Nat /\ MaxFails \in Nat

VARIABLES
    call,     \* the calls at Twilio
    banner,   \* activeCall of the store
    hanging,  \* calls whose hangup is under way, with the banner it was for
    mounted,  \* whether the page of calls is
    device,   \* whether it has a device
    numbers,  \* phoneNumbers of the query
    chosen,   \* what the select of the dialpad shows
    dial,     \* dialNumber: which text it is, 0 for an empty one
    texts,    \* history: texts begun
    dials,    \* the mutations of makeCallMutation, oldest first
    ended,    \* history: calls the user was told had ended
    fails

vars == <<call, banner, hanging, mounted, device, numbers, chosen, dial, texts, dials, ended, fails>>

page == <<mounted, device, numbers, chosen>>
typing == <<dial, texts>>

-----------------------------------------------------------------------------

Call == [state : {"none", "inbound", "live", "over"}, from : Numbers \cup {None}]

NoCall == [state |-> "none", from |-> None]

(* activeCall; "call" is what its voice is of, "id" the row it knows. *)
Banner == [call : Calls, id : Calls \cup {None}, muted : BOOLEAN, held : BOOLEAN]

NoBanner == {}

Dial == [text : 0..MaxTexts, from : Numbers \cup {None}, pick : Numbers \cup {None},
         call : Calls \cup {None}, pc : {"asked", "placed", "done"}]

TypeOK ==
    /\ call \in [Calls -> Call]
    /\ banner \subseteq Banner /\ Cardinality(banner) <= 1
    /\ hanging \subseteq Calls
    /\ mounted \in BOOLEAN /\ device \in BOOLEAN
    /\ numbers \subseteq Numbers /\ chosen \in numbers \cup {None}
    /\ dial \in 0..MaxTexts /\ texts \in 0..MaxTexts
    /\ dials \in Seq(Dial) /\ Len(dials) <= MaxDials
    /\ ended \subseteq Calls /\ fails \in 0..MaxFails

Init ==
    /\ call = [c \in Calls |-> NoCall]
    /\ banner = NoBanner /\ hanging = {}
    /\ mounted = FALSE /\ device = FALSE /\ numbers = {} /\ chosen = None
    /\ dial = 0 /\ texts = 0 /\ dials = <<>>
    /\ ended = {} /\ fails = 0

ClearCall == banner' = NoBanner

(* Mutant: one banner beside the other. *)
SetActiveCallBeside(c, id) ==
    banner' = banner \cup {[call |-> c, id |-> id, muted |-> FALSE, held |-> FALSE]}

SetActiveCall(c, id) == banner' = {[call |-> c, id |-> id, muted |-> FALSE, held |-> FALSE]}

-----------------------------------------------------------------------------
(* The page of calls.                                                      *)

(* The number and the text are states of the page, the banner is not. *)
Open ==
    /\ ~mounted
    /\ mounted' = TRUE
    /\ UNCHANGED <<call, banner, hanging, device, numbers, chosen, typing, dials, ended, fails>>

Leave ==
    /\ mounted
    /\ mounted' = FALSE /\ device' = FALSE /\ dial' = 0 /\ chosen' = None
    /\ UNCHANGED <<call, banner, hanging, numbers, texts, dials, ended, fails>>

(* initDevice, if the credentials do for a voice token. *)
InitDevice ==
    /\ mounted /\ ~device
    /\ device' = TRUE
    /\ UNCHANGED <<call, banner, hanging, mounted, numbers, chosen, typing, dials, ended, fails>>

NumbersAnswered ==
    /\ mounted /\ numbers = {}
    /\ numbers' = Numbers
    /\ UNCHANGED <<call, banner, hanging, mounted, device, chosen, typing, dials, ended, fails>>

(* phoneNumbers?.[0] *)
First == IF numbers = {} THEN None ELSE CHOOSE n \in numbers : TRUE

(* The select has no onChange: what it shows is read by nobody. *)
ChooseNumber(n) ==
    /\ mounted /\ n \in numbers
    /\ chosen' = n
    /\ UNCHANGED <<call, banner, hanging, mounted, device, numbers, typing, dials, ended, fails>>

(* A digit more or less: another number. *)
PressKey ==
    /\ mounted /\ texts < MaxTexts
    /\ texts' = texts + 1
    /\ dial' \in {0, texts'}
    /\ UNCHANGED <<call, banner, hanging, page, dials, ended, fails>>

Pending == dials # <<>> /\ dials[Len(dials)].pc # "done"

Mutate(text) ==
    /\ Len(dials) < MaxDials
    /\ dials' = Append(dials, [text |-> text, from |-> First, pick |-> chosen, call |-> None,
                               pc |-> "asked"])
    /\ UNCHANGED <<call, banner, hanging, page, typing, ended, fails>>

PressCall ==
    /\ mounted /\ dial # 0 /\ ~Pending
    /\ Mutate(dial)

(* The button of a call in the history is never disabled. *)
Redial ==
    /\ mounted
    /\ \E c \in Calls : call[c].state = "over"
    /\ Mutate(0)

(* makeCall, at the API and at Twilio; without a number it is a bad request. *)
Place(i, c) ==
    /\ dials[i].pc = "asked" /\ dials[i].from # None
    /\ call[c] = NoCall
    /\ call' = [call EXCEPT ![c] = [state |-> "live", from |-> dials[i].from]]
    /\ dials' = [dials EXCEPT ![i].pc = "placed", ![i].call = c]
    /\ UNCHANGED <<banner, hanging, page, typing, ended, fails>>

(* Mutant: the number stays. *)
AnsweredKeeping(i) ==
    /\ dials[i].pc = "placed"
    /\ dials' = [dials EXCEPT ![i].pc = "done"]
    /\ SetActiveCall(dials[i].call, dials[i].call)
    /\ UNCHANGED <<call, hanging, page, typing, ended, fails>>

(* onSuccess, of the dialpad and of the history alike. *)
Answered(i) ==
    /\ dials[i].pc = "placed"
    /\ dials' = [dials EXCEPT ![i].pc = "done"]
    /\ SetActiveCall(dials[i].call, dials[i].call)
    /\ dial' = 0
    /\ UNCHANGED <<call, hanging, page, texts, ended, fails>>

(* onError. *)
CallFailed(i) ==
    /\ dials[i].pc = "asked" \/ (dials[i].pc = "placed" /\ fails < MaxFails)
    /\ dials[i].pc = "asked" => dials[i].from = None \/ fails < MaxFails
    /\ dials' = [dials EXCEPT ![i].pc = "done"]
    /\ fails' = IF dials[i].from = None THEN fails ELSE fails + 1
    /\ UNCHANGED <<call, banner, hanging, page, typing, ended>>

(* A caller is put through to the softphone, which answers by itself. *)
CallComesIn(c) ==
    /\ call[c] = NoCall
    /\ call' = [call EXCEPT ![c].state = "inbound"]
    /\ UNCHANGED <<banner, hanging, page, typing, dials, ended, fails>>

Incoming(c) ==
    /\ call[c].state = "inbound" /\ mounted /\ device /\ Registered /\ Identity = Dialled
    /\ call' = [call EXCEPT ![c].state = "live"]
    /\ SetActiveCall(c, None)
    /\ UNCHANGED <<hanging, page, typing, dials, ended, fails>>

(* The other end hangs up, or nobody answers.  call:status says so, and    *)
(* the layout passes the hook no handler for it; the device has no event   *)
(* for the calls of others.                                                *)
OtherEnds(c) ==
    /\ call[c].state \in {"inbound", "live"}
    /\ call' = [call EXCEPT ![c].state = "over"]
    /\ UNCHANGED <<banner, hanging, page, typing, dials, ended, fails>>

-----------------------------------------------------------------------------
(* The banner.                                                             *)

Toggle(b) == \/ banner' = {[b EXCEPT !.muted = ~@]} \/ banner' = {[b EXCEPT !.held = ~@]}

ToggleMuteOrHold ==
    /\ \E b \in banner : Toggle(b)
    /\ UNCHANGED <<call, hanging, page, typing, dials, ended, fails>>

(* handleHangup of a banner that knows its row. *)
Hangup ==
    /\ \E b \in banner : b.id # None /\ b.id \notin hanging /\ hanging' = hanging \cup {b.id}
    /\ UNCHANGED <<call, banner, page, typing, dials, ended, fails>>

(* One that does not has nothing to ask for. *)
HangupInbound ==
    /\ \E b \in banner : b.id = None /\ ended' = ended \cup {b.call}
    /\ ClearCall
    /\ UNCHANGED <<call, hanging, page, typing, dials, fails>>

(* Twilio ends the call; the banner of this moment is cleared. *)
HangupDone(c) ==
    /\ c \in hanging
    /\ hanging' = hanging \ {c}
    /\ call' = [call EXCEPT ![c].state = "over"]
    /\ ClearCall
    /\ ended' = ended \cup {c}
    /\ UNCHANGED <<page, typing, dials, fails>>

(* The error is swallowed. *)
HangupFailed(c) ==
    /\ c \in hanging /\ fails < MaxFails
    /\ hanging' = hanging \ {c}
    /\ fails' = fails + 1
    /\ ClearCall
    /\ ended' = ended \cup {c}
    /\ UNCHANGED <<call, page, typing, dials>>

-----------------------------------------------------------------------------

Next ==
    \/ Open \/ Leave \/ InitDevice \/ NumbersAnswered \/ PressKey \/ PressCall \/ Redial
    \/ ToggleMuteOrHold \/ Hangup \/ HangupInbound
    \/ \E n \in Numbers : ChooseNumber(n)
    \/ \E c \in Calls : \/ CallComesIn(c) \/ Incoming(c) \/ OtherEnds(c)
                        \/ HangupDone(c) \/ HangupFailed(c)
    \/ \E i \in DOMAIN dials : Answered(i) \/ CallFailed(i) \/ \E c \in Calls : Place(i, c)

Spec == Init /\ [][Next]_vars

-----------------------------------------------------------------------------

(* With no failure, a number typed once is called once, whatever else is   *)
(* called meanwhile.                                                       *)
DialledOnce ==
    \A i, j \in DOMAIN dials :
        (fails = 0 /\ i # j /\ dials[i].text = dials[j].text /\ dials[i].text # 0) =>
            ~(dials[i].call # None /\ dials[j].call # None)

(* With no failure, who was told that a call he had made is over has no    *)
(* such call.                                                              *)
HungUpIsOver ==
    \A c \in ended : (fails = 0 /\ \E i \in DOMAIN dials : dials[i].call = c) => call[c].state = "over"
=============================================================================
