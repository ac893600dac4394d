-------------------------------- MODULE Forms ---------------------------------
(***************************************************************************)
(* The forms of the web pages and the ValidationPipe their requests meet:  *)
(* what each form sends, what its DTO takes, and the request under way     *)
(* while the form is shut, opened, retyped and left.  Forms do not meet: a *)
(* behaviour is of one.                                                    *)
(***************************************************************************)
EXTENDS Integers, FiniteSets

CONSTANTS Forms,    \* the forms a behaviour may be of
          MaxTexts  \* bound: times a form is typed into

VARIABLES
    page,       \* the form the behaviour is of
    form,       \* what it shows
    request     \* the request made with it

vars == <<page, form, request>>

-----------------------------------------------------------------------------
(* The pages.                                                              *)

(* Of each form: what its page insists on, what it sends besides, blank or *)
(* not, whether it is in a window that any success shuts, and whether a    *)
(* success clears it.                                                      *)

LoginPage == [needed |-> {"email", "password"}, optional |-> {"totpCode"},
              window |-> FALSE, clears |-> FALSE]

RegisterPage ==
    [needed |-> {"firstName", "lastName", "email", "password", "organizationName"}, optional |-> {},
     window |-> FALSE, clears |-> FALSE]

ForgotPasswordPage == [needed |-> {"email"}, optional |-> {}, window |-> FALSE, clears |-> FALSE]

SetupPage ==
    [needed |-> {"adminFirstName", "adminLastName", "adminEmail", "adminPassword", "orgName"},
     optional |-> {"twilioAccountSid", "twilioAuthToken", "twilioApiKey", "twilioApiSecret",
                   "twimlAppSid"},
     window |-> FALSE, clears |-> FALSE]

TeamPage == [needed |-> {"email", "role"}, optional |-> {"firstName", "lastName"},
             window |-> TRUE, clears |-> FALSE]

ProfilePage == [needed |-> {}, optional |-> {"firstName", "lastName"},
                window |-> FALSE, clears |-> FALSE]

PasswordForm == [needed |-> {"currentPassword", "newPassword"}, optional |-> {"confirm"},
                 window |-> FALSE, clears |-> TRUE]

WebhooksPage == [needed |-> {"name", "url", "events"}, optional |-> {},
                 window |-> TRUE, clears |-> TRUE]

ApiKeysPage == [needed |-> {"name"}, optional |-> {}, window |-> TRUE, clears |-> TRUE]

TwilioSettingsPage ==
    [needed |-> {"accountSid", "authToken"}, optional |-> {"apiKey", "apiSecret", "twimlAppSid"},
     window |-> FALSE, clears |-> FALSE]

DealerPage == [needed |-> {"name", "slug", "contactEmail"}, optional |-> {"contactPhone"},
               window |-> TRUE, clears |-> TRUE]

CampaignsPage ==
    [needed |-> {"name", "fromNumber", "message"},
     optional |-> {"aiProduct", "aiOffer", "aiTone", "scheduledAt"},
     window |-> TRUE, clears |-> FALSE]

Page == [login |-> LoginPage, register |-> RegisterPage, forgot |-> ForgotPasswordPage,
         setup |-> SetupPage, invite |-> TeamPage, profile |-> ProfilePage,
         password |-> PasswordForm, webhook |-> WebhooksPage, apiKey |-> ApiKeysPage,
         twilio |-> TwilioSettingsPage, organization |-> DealerPage, campaign |-> CampaignsPage]

FormAssumption == Forms \subseteq DOMAIN Page /\ MaxTexts \in Nat

Sends(f) == Page[f].needed \cup Page[f].optional

(* Case 2 of SaveCredentialsDto: a key in place of the token. *)
LeftBlank(f) == IF f = "twilio" THEN {"authToken", "twimlAppSid"} ELSE Page[f].optional

-----------------------------------------------------------------------------
(* The API.                                                                *)

(* The properties each DTO has. *)

LoginDto == {"email", "password", "totpCode"}

RegisterDto == {"email", "password", "firstName", "lastName"}

ForgotPasswordDto == {"email"}

ChangePasswordDto == {"currentPassword", "newPassword"}

SetupDto == {"orgName", "adminEmail", "adminPassword", "adminFirstName", "adminLastName",
             "twilioAccountSid", "twilioAuthToken", "twilioApiKey", "twilioApiSecret", "twimlAppSid"}

(* A class without a rule: whitelist knows none of its properties. *)
InviteUserDto == {}

UpdateUserDto == {}

CreateWebhookDto == {"name", "url", "events", "isActive"}

SaveCredentialsDto == {"accountSid", "authToken", "apiKey", "apiSecret", "twimlAppSid"}

CreateCampaignDto ==
    {"name", "description", "templateId", "message", "fromNumber", "targetType", "targetGroups",
     "targetContacts", "tagFilter", "scheduledAt", "ratePerSecond"}

(* A body whose type is no class is not looked at. *)
Takes == [login |-> LoginDto, register |-> RegisterDto, forgot |-> ForgotPasswordDto,
          setup |-> SetupDto, invite |-> InviteUserDto, profile |-> UpdateUserDto,
          password |-> ChangePasswordDto, webhook |-> CreateWebhookDto,
          apiKey |-> Sends("apiKey"), twilio |-> SaveCredentialsDto,
          organization |-> Sends("organization"), campaign |-> CreateCampaignDto]

(* Properties whose rule a blank fails: it is neither null nor undefined. *)
NotBlank(f) == IF f = "campaign" THEN {"scheduledAt"} ELSE {}

(* Mutant: the rule of an optional property meets blanks. *)
FitsUnlessBlank(f, blank) == Sends(f) \subseteq Takes[f] /\ blank = {}

(* whitelist and forbidNonWhitelisted *)
Fits(f, blank) == Sends(f) \subseteq Takes[f] /\ blank \cap NotBlank(f) = {}

-----------------------------------------------------------------------------

(* "text" tells what was typed from what is typed later. *)
Form == [open : BOOLEAN, text : 0..MaxTexts, last : 0..MaxTexts, 
         blank : SUBSET UNION {Sends(f) : f \in Forms}]

Fresh == [open |-> FALSE, text |-> 0, last |-> 0, blank |-> {}]

(* "watched" while the page that made it is there. *)
Request == [state : {"idle", "sent", "taken", "bad", "declined"}, text : 0..MaxTexts, watched : BOOLEAN]

NoRequest == [state |-> "idle", text |-> 0, watched |-> FALSE]

TypeOK ==
    /\ page \in Forms /\ form \in Form
    /\ request \in Request
    /\ request.state # "idle" => request.text # 0

Init ==
    /\ page \in Forms /\ form = Fresh
    /\ request = NoRequest

Open ==
    /\ ~form.open
    /\ form' = [form EXCEPT !.open = TRUE]
    /\ UNCHANGED <<page, request>>

(* X and Cancel of a window; what was typed stays. *)
Close ==
    /\ Page[page].window /\ form.open
    /\ form' = [form EXCEPT !.open = FALSE]
    /\ UNCHANGED <<page, request>>

(* Another page: the states of this one are gone, its request is not. *)
Leave ==
    /\ form.text # 0 \/ form.open
    /\ form' = [Fresh EXCEPT !.last = form.last]
    /\ request' = [request EXCEPT !.watched = FALSE]
    /\ UNCHANGED page

(* Everything, all that is needed, or case 2. *)
Type ==
    /\ form.open /\ form.last < MaxTexts
    /\ \E blank \in {{}, Page[page].optional, LeftBlank(page)} :
        form' = [form EXCEPT !.text = form.last + 1, !.last = @ + 1, !.blank = blank]
    /\ UNCHANGED <<page, request>>

(* required, disabled and the rules of a resolver *)
Ready == form.text # 0 /\ form.blank \cap Page[page].needed = {}

Submit ==
    /\ form.open /\ Ready /\ request.state = "idle"
    /\ request' = [state |-> IF Fits(page, form.blank) THEN "sent" ELSE "bad",
                   text |-> form.text, watched |-> TRUE]
    /\ UNCHANGED <<page, form>>

(* The service does what is asked. *)
Take ==
    /\ request.state = "sent"
    /\ request' = [request EXCEPT !.state = "taken"]
    /\ UNCHANGED <<page, form>>

(* The service, or the network, does not. *)
Decline ==
    /\ request.state = "sent"
    /\ request' = [request EXCEPT !.state = "declined"]
    /\ UNCHANGED <<page, form>>

(* onSuccess sets the states of the page, if they are still those it knows. *)
Succeeded ==
    /\ request.state = "taken"
    /\ request' = NoRequest
    /\ form' = IF request.watched
               THEN [form EXCEPT !.open = @ /\ ~Page[page].window,
                                 !.text = IF Page[page].clears THEN 0 ELSE @]
               ELSE form
    /\ UNCHANGED page

(* onError: a toast. *)
Failed ==
    /\ request.state \in {"bad", "declined"}
    /\ request' = NoRequest
    /\ UNCHANGED <<page, form>>

Next ==
    \/ Open \/ Close \/ Leave \/ Type \/ Submit
    \/ Take \/ Decline \/ Succeeded \/ Failed

Spec == Init /\ [][Next]_vars

-----------------------------------------------------------------------------
(* What a form sends when its page lets it be sent, the pipe takes: the    *)
(* fields of the page and the properties of the DTO agree, for all forms   *)
(* but these.                                                              *)
OnlyTheseDisagree ==
    request.state = "bad" => page \in {"register", "invite", "profile", "password", "campaign"}
=============================================================================
