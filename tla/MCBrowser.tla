----------------------------- MODULE MCBrowser ------------------------------
(***************************************************************************)
(* What the browser does, in one instance for TLC: the session of the      *)
(* tabs, the socket of events, the pages of messages, calls and contacts,  *)
(* and the other forms.  They share no variable; part says which of them a *)
(* behaviour runs.  WebSession is extended and not instantiated, which     *)
(* lets TLC evaluate what the modules see of each other only once.         *)
(***************************************************************************)
EXTENDS WebSession

CONSTANTS Parts, \* the parts to run
          None,
          Known, Strangers, Lines, MaxMessages, MaxTexts, MaxSends, MaxAsks, MaxFails,
          Users, Orgs, OrgOf, MaxTokens, MaxSockets, MaxEvents,
          Calls, Numbers, Identity, Dialled, Registered, MaxDials,
          Contacts, Texts, MaxOffline, MaxLost,
          Forms, MaxTyped

VARIABLES part

VARIABLES rows, events, query, numbers, selected, draft, texts, composeFrom, asked, suggestions,
          sends, due, fails

Messages == INSTANCE Inbox WITH Contacts <- Known, Numbers <- Lines

messageVars == <<rows, events, query, numbers, selected, draft, texts, composeFrom, asked,
                 suggestions, sends, due, fails>>

VARIABLES owner, socketExpired, socketStored, mounted, effect, socket, inactive, pushed, shown

Sockets == INSTANCE Live WITH expired <- socketExpired, stored <- socketStored

UserOrg == [u1 |-> "o1", u2 |-> "o2"]

socketVars ==
    <<owner, socketExpired, socketStored, mounted, effect, socket, inactive, pushed, shown>>

VARIABLES call, banner, hanging, phoneMounted, device, phoneNumbers, chosen, dial, dialTexts,
          dials, ended, phoneFails

Phone == INSTANCE Softphone WITH
    mounted <- phoneMounted, numbers <- phoneNumbers, texts <- dialTexts, fails <- phoneFails

phoneVars == <<call, banner, hanging, phoneMounted, device, phoneNumbers, chosen, dial, dialTexts,
               dials, ended, phoneFails>>

VARIABLES row, form, editing, mutation, deleting, bulk, ticked, online, offline, lost, overwritten

Cards == INSTANCE ContactsPage WITH selected <- ticked

cardVars == <<row, form, editing, mutation, deleting, bulk, ticked, online, offline, lost,
              overwritten>>

VARIABLES page, filled, submitted

Entry == INSTANCE Forms WITH MaxTexts <- MaxTyped, form <- filled, request <- submitted

entryVars == <<page, filled, submitted>>

allVars == <<part, socketVars, phoneVars, cardVars, entryVars, messageVars, vars>>

ASSUME BrowserAssumption ==
    /\ Messages!InboxAssumption /\ Sockets!LiveAssumption /\ Phone!SoftphoneAssumption
    /\ Cards!ContactsPageAssumption /\ Entry!FormAssumption
    /\ Parts \subseteq {"web", "sockets", "phone", "cards", "forms", "inbox"}

-----------------------------------------------------------------------------

AllInit ==
    /\ part \in Parts
    /\ Messages!Init /\ Sockets!Init /\ Phone!Init /\ Cards!Init /\ Entry!Init /\ Init
    /\ part = "cards" \/ \A c \in DOMAIN row : row[c] = None
    /\ part = "forms" \/ page = CHOOSE f \in Forms : TRUE

AllNext ==
    /\ UNCHANGED part
    /\ IF part = "sockets" THEN Sockets!Next ELSE UNCHANGED socketVars
    /\ IF part = "phone" THEN Phone!Next ELSE UNCHANGED phoneVars
    /\ IF part = "cards" THEN Cards!Next ELSE UNCHANGED cardVars
    /\ IF part = "forms" THEN Entry!Next ELSE UNCHANGED entryVars
    /\ IF part = "inbox" THEN Messages!Next ELSE UNCHANGED messageVars
    /\ IF part = "web" THEN Next ELSE UNCHANGED vars

AllSpec == AllInit /\ [][AllNext]_allVars

(* Two tabs with a login and an expiry; a login from elsewhere, a lost     *)
(* answer and a second of each, two of these at most, with one tab.        *)
OneTabInTrouble ==
    LET trouble == rivals + faults + (IF logins > 1 THEN 1 ELSE 0) + (IF expiries > 1 THEN 1 ELSE 0)
    IN  /\ trouble > 0 => Cardinality({t \in Tabs : tab[t] # Fresh(LoggedOut)}) <= 1
        /\ trouble <= 2

(* A correspondent without a row where the list is all the user looks at;  *)
(* suggestions are asked for where no request fails and nothing is sent.   *)
OneThingOnThePage ==
    /\ texts > 0 \/ asked # {} \/ suggestions # 0 \/ fails > 0 =>
           \A n \in DOMAIN rows : rows[n].with \in Known
    /\ asked # {} \/ suggestions # 0 => fails = 0 /\ sends = <<>> /\ numbers

-----------------------------------------------------------------------------

(* The variables of the part that runs keep their types. *)
AllTypeOK ==
    CASE part = "web"     -> TypeOK
      [] part = "sockets" -> Sockets!TypeOK
      [] part = "phone"   -> Phone!TypeOK
      [] part = "cards"   -> Cards!TypeOK
      [] part = "forms"   -> Entry!TypeOK
      [] part = "inbox"   -> Messages!TypeOK

(* No request waits for a refresh that is over, and no tab is sent to the  *)
(* login without a reason outside it (WebSession: WaitersAreServed,        *)
(* KickedOutForAReason).                                                   *)
TabsKeepTheirSession == part = "web" => WaitersAreServed /\ KickedOutForAReason

(* An event is shown once, and to another organisation only after a logout *)
(* in the same page load (Live: EachShownOnce, OwnEventsUntilLogout).      *)
EventsFindTheirUser == part = "sockets" => Sockets!EachShownOnce /\ Sockets!OwnEventsUntilLogout

(* No message the browser was told of is missing from a list at rest       *)
(* (Inbox: ToldAreListed).                                                 *)
ToldAreListed == part = "inbox" => Messages!ToldAreListed

(* A number is dialled once, and a call hung up is over (Softphone:        *)
(* DialledOnce, HungUpIsOver).                                             *)
CallsAreWhatTheBannerSays == part = "phone" => Phone!DialledOnce /\ Phone!HungUpIsOver

(* What is typed for a new contact overwrites another only if the request  *)
(* was held back offline (ContactsPage: HeldBackOnly).                     *)
HeldBackOnly == part = "cards" => Cards!HeldBackOnly

(* The forms and the DTOs agree, but for the five that are named (Forms:   *)
(* OnlyTheseDisagree).                                                     *)
OnlyTheseDisagree == part = "forms" => Entry!OnlyTheseDisagree
=============================================================================
