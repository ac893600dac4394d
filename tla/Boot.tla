--------------------------------- MODULE Boot ---------------------------------
(***************************************************************************)
(* How the program comes up: docker compose starts the API once its stores *)
(* are healthy and again whenever it exits, Nest runs the migrations and   *)
(* makes the providers of every module from what that module can see, the  *)
(* API listens, and the web follows.                                       *)
(***************************************************************************)
EXTENDS Integers, FiniteSets

CONSTANTS Global,    \* tokens every module sees
          Scope,     \* bound: the modules whose providers are made
          MaxFaults  \* bound: times a store or the API goes down

VARIABLES
    healthy, \* the containers compose found healthy
    api,     \* the process of the API
    made,    \* the providers it has made
    tables,  \* whether the migrations have been run
    blamed,  \* history: tokens a provider could not be given
    served,  \* whether this process has served a request
    faults

vars == <<healthy, api, made, tables, blamed, served, faults>>

-----------------------------------------------------------------------------
(* The modules: what they import and export, the repositories of their     *)
(* forFeature and the queue they register, and what the constructors of    *)
(* their providers ask for.  A controller asks for the service of its own  *)
(* module and is left out.                                                 *)

Module(imports, own, needs, exports) ==
    [imports |-> imports, own |-> own, needs |-> needs, exports |-> exports]

AuthModule == Module({}, {"User", "AuditLog", "JwtService"},
    [AuthService |-> {"User", "AuditLog", "JwtService", "ConfigService"},
     JwtStrategy |-> {"ConfigService", "User"}], {"AuthService", "JwtService"})

UsersModule == Module({}, {"User", "AuditLog"}, [UsersService |-> {"User"}], {"UsersService"})

OrganizationsModule == Module({}, {"Organization"},
    [OrganizationsService |-> {"Organization"}], {"OrganizationsService"})

DealersModule == Module({}, {"Dealer", "Organization", "User"},
    [DealersService |-> {"Dealer", "Organization"}], {"DealersService"})

TwilioModule == Module({}, {"TwilioCredential", "PhoneNumber"},
    [TwilioService |-> {"TwilioCredential", "PhoneNumber", "ConfigService"}], {"TwilioService"})

MessagesModule == Module({"TwilioModule"}, {"Message", "Contact", "BullQueue_messages"},
    [MessagesService |-> {"Message", "Contact", "BullQueue_messages", "TwilioService", "EventsGateway"},
     MessagesProcessor |-> {"MessagesService"}], {"MessagesService"})

(* Mutant: an import is forgotten. *)
CallsModuleAlone == Module({}, {"Call", "Contact"},
    [CallsService |-> {"Call", "Contact", "TwilioService", "EventsGateway"}], {"CallsService"})

CallsModule == Module({"TwilioModule"}, {"Call", "Contact"},
    [CallsService |-> {"Call", "Contact", "TwilioService", "EventsGateway"}], {"CallsService"})

ContactsModule == Module({}, {"Contact"}, [ContactsService |-> {"Contact"}], {"ContactsService"})

CampaignsModule == Module({"TwilioModule"}, {"Campaign", "Contact", "Message", "BullQueue_campaigns"},
    [CampaignsService |-> {"Campaign", "Contact", "Message", "BullQueue_campaigns", "TwilioService"},
     CampaignsProcessor |-> {"CampaignsService"}], {"CampaignsService"})

WebhooksModule == Module({"MessagesModule", "CallsModule"}, {"Webhook", "WebhookEvent"},
    [WebhooksService |-> {"Webhook", "WebhookEvent", "MessagesService", "CallsService",
                          "EventsGateway"}], {"WebhooksService"})

NotificationsModule == Module({}, {"Notification"},
    [NotificationsService |-> {"Notification", "EventsGateway"}], {"NotificationsService"})

ApiKeysModule == Module({}, {"ApiKey"}, [ApiKeysService |-> {"ApiKey"}], {"ApiKeysService"})

FilesModule == Module({}, {}, [FilesService |-> {"ConfigService"}], {"FilesService"})

BackupModule == Module({}, {}, [BackupService |-> {"ConfigService"}], {})

AdminModule == Module({}, {"User", "Organization", "Dealer", "AuditLog", "Message", "Call"},
    [AdminService |-> {"User", "Organization", "Dealer", "AuditLog", "Message", "Call"}], {})

SetupModule == Module({"TwilioModule"}, {"User", "Organization", "SystemConfig"},
    [SetupService |-> {"User", "Organization", "SystemConfig", "TwilioService"}], {})

AiModule == Module({}, {}, [AiService |-> {"ConfigService"}], {"AiService"})

AnalyticsModule == Module({}, {"Message", "Call", "Contact", "Campaign"},
    [AnalyticsService |-> {"Message", "Call", "Contact", "Campaign"}], {})

Imported ==
    [AuthModule |-> AuthModule, UsersModule |-> UsersModule,
     OrganizationsModule |-> OrganizationsModule, DealersModule |-> DealersModule,
     TwilioModule |-> TwilioModule, MessagesModule |-> MessagesModule,
     CallsModule |-> CallsModule, ContactsModule |-> ContactsModule,
     CampaignsModule |-> CampaignsModule, WebhooksModule |-> WebhooksModule,
     NotificationsModule |-> NotificationsModule, ApiKeysModule |-> ApiKeysModule,
     FilesModule |-> FilesModule, BackupModule |-> BackupModule, AdminModule |-> AdminModule,
     SetupModule |-> SetupModule, AiModule |-> AiModule, AnalyticsModule |-> AnalyticsModule]

(* The root: what it provides is for itself, unless a module is global. *)
AppModule == Module(DOMAIN Imported, {}, [EventsGateway |-> {"JwtService", "ConfigService"}], {})

Modules == [m \in DOMAIN Imported \cup {"AppModule"} |->
              IF m = "AppModule" THEN AppModule ELSE Imported[m]]

ASSUME BootAssumption ==
    /\ Scope \subseteq DOMAIN Modules /\ MaxFaults \in Nat

ProvidersOf(m) == DOMAIN Modules[m].needs

Providers == UNION {ProvidersOf(m) : m \in Scope}

ModuleOf(p) == CHOOSE m \in Scope : p \in ProvidersOf(m)

Needs(p) == Modules[ModuleOf(p)].needs[p]

Visible(m) == Modules[m].own \cup ProvidersOf(m) \cup Global
                \cup UNION {Modules[n].exports : n \in Modules[m].imports}

Unseen(p) == Needs(p) \ Visible(ModuleOf(p))

-----------------------------------------------------------------------------

Stores == {"postgres", "redis"}

TypeOK ==
    /\ healthy \subseteq Stores \cup {"api", "web"}
    /\ api \in {"down", "starting", "listening"}
    /\ made \subseteq Providers
    /\ tables \in BOOLEAN
    /\ blamed \subseteq UNION {Needs(p) : p \in Providers}
    /\ served \in BOOLEAN /\ faults \in 0..MaxFaults

Init ==
    /\ healthy = {} /\ api = "down" /\ made = {} /\ tables = FALSE
    /\ blamed = {} /\ served = FALSE /\ faults = 0

StoreUp(s) ==
    /\ s \notin healthy
    /\ healthy' = healthy \cup {s}
    /\ UNCHANGED <<api, made, tables, blamed, served, faults>>

(* The first start waits for the stores; a restart comes at once. *)
ApiStarts ==
    /\ api = "down"
    /\ Stores \subseteq healthy \/ blamed # {} \/ faults > 0
    /\ api' = "starting"
    /\ made' = {} /\ served' = FALSE
    /\ UNCHANGED <<healthy, tables, blamed, faults>>

Exit == api' = "down" /\ made' = {} /\ served' = FALSE /\ healthy' = healthy \ {"api"}

(* The connection runs the migrations before it is given to anyone. *)
Migrate ==
    /\ api = "starting" /\ "postgres" \in healthy /\ ~tables
    /\ tables' = TRUE
    /\ UNCHANGED <<healthy, api, made, blamed, served, faults>>

ConnectFails ==
    /\ api = "starting" /\ "postgres" \notin healthy
    /\ Exit
    /\ UNCHANGED <<tables, blamed, faults>>

(* The providers p waits for. *)
Dependencies(p) == Needs(p) \cap Providers

(* Mutant: what is needed is looked for in what was made. *)
MakeInOrder(p) ==
    /\ api = "starting" /\ p \notin made
    /\ tables /\ "postgres" \in healthy
    /\ Unseen(p) = {} /\ Needs(p) \subseteq made
    /\ made' = made \cup {p}
    /\ UNCHANGED <<healthy, api, tables, blamed, served, faults>>

Make(p) ==
    /\ api = "starting" /\ p \notin made
    /\ tables /\ "postgres" \in healthy
    /\ Unseen(p) = {} /\ Dependencies(p) \subseteq made
    /\ made' = made \cup {p}
    /\ UNCHANGED <<healthy, api, tables, blamed, served, faults>>

(* UnknownDependenciesException ends the process. *)
Abort(p) ==
    /\ api = "starting" /\ p \notin made
    /\ tables /\ Unseen(p) # {}
    /\ blamed' = blamed \cup Unseen(p)
    /\ Exit
    /\ UNCHANGED <<tables, faults>>

Listen ==
    /\ api = "starting" /\ made = Providers /\ tables
    /\ api' = "listening"
    /\ UNCHANGED <<healthy, made, tables, blamed, served, faults>>

(* /health answers, and compose lets the web start. *)
ApiHealthy ==
    /\ api = "listening" /\ "api" \notin healthy
    /\ healthy' = healthy \cup {"api"}
    /\ UNCHANGED <<api, made, tables, blamed, served, faults>>

WebStarts ==
    /\ "api" \in healthy /\ "web" \notin healthy
    /\ healthy' = healthy \cup {"web"}
    /\ UNCHANGED <<api, made, tables, blamed, served, faults>>

Request ==
    /\ api = "listening"
    /\ served' = TRUE
    /\ UNCHANGED <<healthy, api, made, tables, blamed, faults>>

GoesDown(c) ==
    /\ faults < MaxFaults
    /\ faults' = faults + 1
    /\ IF c = "api" THEN api # "down" /\ Exit
       ELSE healthy' = healthy \ {c} /\ UNCHANGED <<api, made, served>>
    /\ UNCHANGED <<tables, blamed>>

Next ==
    \/ \E s \in Stores : StoreUp(s)
    \/ \E c \in Stores \cup {"api"} : GoesDown(c)
    \/ \E p \in Providers : Make(p) \/ Abort(p)
    \/ ApiStarts \/ Migrate \/ ConnectFails \/ Listen \/ ApiHealthy \/ WebStarts \/ Request

Spec == Init /\ [][Next]_vars

(* Containers start and processes go on; requests and faults need not come. *)
Fairness ==
    /\ \A s \in Stores : WF_vars(StoreUp(s))
    /\ \A p \in Providers : WF_vars(Make(p)) /\ WF_vars(Abort(p))
    /\ WF_vars(ApiStarts) /\ WF_vars(Migrate) /\ WF_vars(ConnectFails) /\ WF_vars(Listen)
    /\ WF_vars(ApiHealthy) /\ WF_vars(WebStarts)

-----------------------------------------------------------------------------

(* Of all a provider asks for only the gateway is not there for it. *)
OnlyTheGatewayIsMissing == blamed \subseteq {"EventsGateway"}

(* Nobody is served by an API without tables, or without all its parts:    *)
(* not after a restart either, of the API or of a store.                   *)
ServedByAWholeApi == served => tables /\ made = Providers

(* In the end the API listens and the web is there. *)
ComesUp == <>("web" \in healthy)
===============================================================================
