# A verification project for TwilioHub

TwilioHub is a multi-tenant front end to Twilio: a NestJS API
(`src/apps/api`), a Next.js web client (`src/apps/web`), PostgreSQL for its
rows and Redis for its Bull queues. This directory holds TLA+ modules that
model the parts of it where order, failure and concurrency matter, TLC
configurations that check them on small instances, and theorems about them
checked by TLAPS.

The program is a single API process, but nearly every statement of it that
matters is an `await`: requests of operators, the queue workers, Twilio's
callbacks and crashes interleave at each one, and rows are read, decided
upon and written in separate statements without transactions or locks. The
web client adds tabs that share localStorage, requests that wait for one
another's refresh, a socket that outlives the session, and react-query's cache
and mutations. That is what the models are about.

Contents: 1 parts, 2 modules, 3 runs, 4 proofs, 5 where the code and what
it says part, 6 assumptions, 7 not modelled, 8 plan.

## 1. The system and its parts

Paths of the API are below `src/apps/api/src`, those of the web client below
`src/apps/web/src`.

| Part | State | What is hard | What makes it correct | Module |
|---|---|---|---|---|
| Job queues (`app.module.ts`, the two processors) | Redis: state, attempts and stalls of a job; the worker's current job | crashes, stalls, retries | bounded starts, settled jobs stay so, every job settles | `BullQueue` |
| Campaigns (`modules/campaigns`) | row: status and counters; job per launch; locals of the run | read-then-write handlers, a long loop raced by operators, retries that start over | halting and opting out take effect, bounded duplicates, counters that claim no more than happened, no stranded campaign | `Campaigns` |
| Messages (`modules/messages`) | row: status, sid, `deliveredAt`; job per message | lost, repeated, overtaking callbacks; a retry after a lost answer | outcomes belong to the message, duplicates only after trouble, every send settles | `Messages` |
| Calls (`modules/calls`, voice webhooks) | row per call, found by CallSid | callbacks before the row exists, a second row from the voice webhook | the history says of a call what Twilio said of it; a placed call is in it once | `Calls` |
| Outgoing webhooks (`modules/webhooks`) | event rows, two counters | deliveries nobody waits for, failures between two statements | the log is true, the counters add up to it, nothing pends for ever | `Webhooks` |
| Contacts and messages that come in (`modules/contacts`, `handleIncoming`) | rows, `isOptedOut` | find-or-create, whole-entity saves | an import merges; only a stale edit takes anything back | `Contacts` |
| Twilio clients (`modules/twilio`) | cached client, credential row, numbers | a cache cleared before the row is written, a verdict written late | no stale client at rest, verified means accepted, a number is on file once | `TwilioClients` |
| Sessions (`modules/auth`, `users.service.ts`) | password, refresh token hash, 2FA, activation | one stored hash rotated by concurrent handlers | dead tokens stay dead; answers hold; who is asked for a code can make one | `Session`, `AuthSession` |
| Setup, dealers, users (`modules/setup`, `dealers`, `organizations`, `users`, `admin`) | organisations, accounts, the flag | check-then-act, failure half-way | one account per address, a finished setup is usable, quota | `Accounts` |
| Bootstrap (`*.module.ts`, `main.ts`, `docker-compose.yml`) | containers, providers made, tables | what a module sees, what goes down at any moment | only one token is missing; with it the system comes up; nobody is served by half an API | `Boot` |
| Backup (`modules/backup`) | files, schedule, the dump under way | a crash or a failing command in mid-pipe | a reported backup is whole; a bad one was paid for | `Backups` |
| Web session (`lib/api.ts`, `lib/store.ts`, login, header) | store, localStorage, `isRefreshing`, waiting requests | one refresh for many requests, several tabs, a refresh that fails | nobody waits for ever, nobody is thrown out without reason | `WebSession` |
| Live events (`gateways/events.gateway.ts`, `lib/hooks/useWebSocket.ts`) | sockets, rooms, listeners | token, session and socket change independently | an event is shown once and to its organisation | `Live` |
| Page of messages | cache of queries, selection, draft, mutations | refetches overtaken by events | what the browser was told of is on the list | `Inbox` |
| Softphone (calls page, `active-call-banner.tsx`) | banner, device, mutations | calls and hangups under way together | dialled once, hung up is over | `Softphone` |
| Page of contacts | form, one mutation for two requests, selection | mutations held back, rebound functions | what is typed for one contact is not written to another | `ContactsPage` |
| The other forms | form, request | page and DTO agreed nowhere; closing, leaving, retyping under way | what a page sends the API takes | `Forms` |

Interactions: controllers call services; `launch` and `send` enqueue jobs that
the processors turn into `runCampaign` and `sendImmediate`; those ask
TwilioService for a client, call Twilio and write rows; Twilio calls back into
the webhooks controller, which calls `updateStatus`; services emit to sockets
and dispatch outgoing webhooks. The web client calls the API through one axios
instance and listens on one socket. Shared state is the rows, the queues, in
the API process the cache of clients, and in the browser localStorage.

`PROJECT.json` lists these components with their status and, under `hazards`,
each place where this code is hard to test together with the properties that
would notice it going wrong.

## 2. The modules

One module per component, parameterised by constants whose assumptions are
named. A request or handler is cut at every `await`: what it read is kept in its
record and may be old when it writes. `save(entity)` of TypeORM writes every
column of the entity that was loaded (and inserts it again when the row is
gone), `update` and `increment` write the columns named and do nothing to a
missing row; the modules keep that difference. `Abandon` (or `Crash`, or a
failing statement with a name of its own) ends a handler where it stands: the
code has no transaction that would undo anything.

`Campaigns` and `Messages` EXTEND `BullQueue` and conjoin its operations to
their own steps, and are shown to implement its specification `QueueSpec`;
`AuthSession` is shown to implement `Session`. The other components meet only
through rows and calls whose effects each module takes as inputs.

### BullQueue

`bull` is a library outside the repository, so the module models what the
repository asks of it (`app.module.ts:50-65`, `@Process` without a concurrency,
hence one job at a time) and the library's documented life of a job:
`jobs[j]` has the state Redis keeps, the number of rejections, stalls and
starts; `active` is the job this process works on. `Reject` is the retry
rule `attempts: 3` with backoff (time is abstracted: a delayed job becomes due
at any moment), `LoseWorker` a restart of the API process, and
`RecoverStalled` Bull's check for active jobs whose lock nobody renews
(`maxStalledCount`, 1 by default). `removeOnComplete: 100` and
`removeOnFail: 500` only forget settled jobs and are not modelled.

### Campaigns

One campaign row, the requests that touch it, its jobs and the worker. Rows of
other campaigns are never touched by a handler of this one, so one row is
enough; an organisation's second campaign would only delay the worker. The row
has `unborn` and `deleted` besides the statuses of the code. Each request of
`Requests` performs one multi-statement handler (`update`, `launch` or
`remove`), split at every `await`:

| Code (`campaigns.service.ts`) | Actions |
|---|---|
| `create` 23-31, `pause` 80-83, `cancel` 85-88 | `Create`, `Pause`, `Cancel` (one statement each) |
| `update` 50-57 | `UpdateRead` (load and check), `UpdateSave` (save what was loaded) |
| `launch` 59-78 | `LaunchRead`, `LaunchTargets`, `LaunchUpdate`, `LaunchAdd` / `LaunchAddFails` |
| `remove` 139-143 | `RemoveRead`, `RemoveDelete` |
| `runCampaign` 90-129 | `RunStart`, `RunRead`, `RunTargets`, `RunClient`, the loop `LoopExhausted` / `LoopBreaks` / `LoopRowGone` / `LoopNext`, `SendAccepted` / `SendRefused`, `SaveMessage`, `IncSent` / `IncFailed` / `IncOptOut`, `RunComplete`, `RunSettle` |
| statements that fail | `FaultCaught` inside the `try` of 101-120, `FaultThrown` outside it |
| restart of the process | `Crash` |

`save` is one step here; in TypeORM it re-reads the row and writes the columns
that differ, so a write of another handler between those two statements may
survive in a column that did not differ. The fields an update changes besides
are left out, as no property depends on them.

A call of Twilio has three outcomes: accepted and answered, accepted with the
answer lost, refused. Which contacts match is any subset; the wait of
`ratePerSecond` is the freedom of every other action to happen between two
steps. `stored`, `handled`, `sent`, `lateHalt` and `lateOut` are observers: no
guard reads them. `lateHalt` counts the messages accepted since the row was
last written into `paused` or `cancelled` from another status, `lateOut` those
accepted for a contact after its opt-out.

`ContactsService.optOut` is the action `OptOut`. No caller of it exists in the
repository; the model supposes one, since the loop's check of `isOptedOut` is
otherwise idle.

### Messages

Rows of outbound messages, one job each. `SendSave` and `SendAdd` are the two
awaits of `send`; `SendRead` to `SendSettle` are `sendImmediate`; `MarkFailed`
is its `catch`, after which the job completes normally, so Bull's retries only
come from stalls or from a failing statement outside the `try`
(`FaultThrown`). Twilio is external: it assigns a fresh sid per accepted call,
moves each sid through its documented order of statuses and may send a
callback for each, which may be lost, stay in `net` and be delivered again,
or be overtaken. `HookRead` and `HookUpdate` are the two statements of
`updateStatus`, with the status read first and written back when the reported
one is not in `statusMap`. `Crash` loses the worker's and the callbacks'
locals.

### Calls

| Code (`calls.service.ts`, `webhooks.service.ts`) | Actions |
|---|---|
| `makeCall` | `PlaceCall` (Twilio takes the call; its answer may be lost), `SaveCall` / `SaveCallFails` |
| `updateCall`, `hangup` | `UpdateCall`, `Hangup` |
| the voice webhook, `handleIncoming` | `VoiceWebhook` / `VoiceWebhookFails` |
| `updateStatus` | `StatusRead`, `StatusUpdate` |
| `updateRecording` | `RecordingCallback` |
| restart of the process | `Crash` |

Twilio (external) takes calls of three kinds: placed by `makeCall`, by a
browser over the TwiML App, or by a caller (`CallArrives`); each moves along
`NextReports` (`TwilioAdvances`). `twilio[s].past` is every status it has been
in, which is what the history is held against. A callback is asked for by
`makeCall` alone and may be lost, repeated or overtaken. `failed` stands for
busy, no-answer and canceled too.

### Webhooks

`Create`, `Update`, `Remove`, `Test` are the operator's requests; `Dispatch`
starts a delivery per webhook that is active and subscribed. A delivery is
`InsertEvent`, `Post`, then `MarkSuccess` and `CountSuccess` or `MarkFailed`
and `CountFailure`, one statement each; `PostTimesOut` is an event the
subscriber takes while its answer comes too late, `StatementFails` any
statement that fails with or without its effect and takes the way the `try`
gives it. `received` is what the subscriber did, against which the log is held.

### Contacts

`ContactsService` (`create`, `update`, `remove`, `bulkDelete`, `importCsv`,
`optOut`) and `MessagesService.handleIncoming` and `markRead`. `FindOne` and
`SaveContact` are the two statements of `update`; an import alternates
`FindRow` and `WriteRow` over its rows, of which any may fail (`RowFails`) while
the import goes on. `Found` is any row of the phone: the schema does not make
it unique, and `create` does not look.

### TwilioClients

The credential row (encrypted values carry the key they were sealed with), the
client that `clients` caches, and the numbers. `FindCred` and `CacheClient` are
`getClient`; `SaveCredentials` clears the cache and looks the row up, and
`StoreCredentials` writes it; `FindTested`, `BuildTested`, `FetchAccount`,
`StoreVerified` / `StoreFailed` are `testConnection`; `ListNumbers`,
`FindNumber`, `InsertNumber`, `EndSync` are `syncPhoneNumbers`. The world may
revoke a secret, change the numbers, or restart the API with another
`ENCRYPTION_KEY`.

### Session and AuthSession

`Session` is what an account is promised: at most one refresh token is current,
tokens are signed, stored, dropped or the session is closed, and a token of an
earlier second that is neither current nor about to be stored stays dead
(`DeadStaysDead`). Two tokens signed for an account within a second are the same
string, so a token is known by its second. `AuthSession` has the requests that
make it so, at their awaits: `login`, `refresh` (`Login` / `Refresh`,
`SignTokens`, `StoreToken`), `logout`, the password requests, the 2FA
requests, and `UsersService.update`, `activate`, `deactivate`. The refinement
maps the current token to the row's hash and the tokens on their way to those
held by requests before their write. `told` is history: what the last answers
said of the account.

### Accounts

`runSetup` statement by statement (`CheckSetup`, `SaveSetupOrg`, `SaveAdmin`,
`UpdateOwner`, `SaveSetupCredentials` / `SetupCredentialsFail`,
`MarkComplete`), registration and invitation (`FindEmail`, `SaveUser`), a
dealer's organisations (`FindDealer`, `CountOrganizations`,
`SaveOrganization`, `SuspendOrganization`) and the switches and names of
organisations. `Conflict` is a UNIQUE index of the migration that refuses a
row, `Refused` a caller without the right, `Abandon` a statement that fails.

### Boot

A constant table gives of each Nest module what it imports, owns, exports and
what the constructors of its providers ask for, translated from the 18 module
files; `Unseen(p)` is what a provider asks for and its module cannot see.
The actions are those of compose and of the process: `StoreUp`, `ApiStarts`
(after healthy stores at first, at once when restarted), `Migrate`,
`ConnectFails`, `Make(p)` in any order the dependencies allow, `Abort(p)`,
`Listen`, `ApiHealthy`, `WebStarts`, `Request`, and `GoesDown` of a store or the
API. `Global` is what every module sees.

### Backups

`ScheduledBackup` and `RequestedBackup` start a dump, which blocks the process
(`execSync`) until `Dumped`, `DumpFails` (the pipe's status is that of gzip, so
the caller is told of success) or `WriteFails`; `Night` is the timer, `Crash` and
`Restart` the process, `DeleteBackup` the administrator.

### WebSession

Tabs over one server and one localStorage. A request is sent, answered
(`AnswerData`, `LoginAccepted`, `LoginRefused`, `AnswerLogout`,
`AnswerRefresh`), and handled by the interceptor: `Resolve`, `PassOn` for a
second 401, `Wait` while a refresh is under way, `StartRefresh` otherwise;
`FinishRefresh` sends everybody again or empties the store and leaves the page
(`Arrive`). `Reload`, lost answers (`LoseAnswer`, `LoseRefresh`), expiry and a login from
elsewhere (`Rival`) are the environment. `disturbed`, `asked` and `out` are
history: the reasons a tab may have to be sent to `/login`.

### Live, Inbox, Softphone, ContactsPage, Forms

`Live`: the access tokens a tab comes by, the effect of `useWebSocket` that runs
when the token changes (`RunEffect`, with the cleanup of the last one), the
sockets with the room of the token they connected with, and `EmitToOrg`.

`Inbox`: rows the API stores, each announced by `message:new`; the cache of
queries, each of which is asked, read and answered (`Read`, `Answered`) and
invalidated by events and answers; the selection, the reply box with its two
ways to send, suggestions, and the form of a new message.

`Softphone`: the dialpad and the redials over one mutation object (`Mutate`,
`Place`, `Answered`, `CallFailed`), the banner they set, the device, and hangups
that clear the banner of the moment they are answered.

`ContactsPage`: one mutation object that creates or updates according to
`editing` of the latest render, held back while offline and resumed; deletions
one by one and in bulk.

`Forms`: for each of twelve forms what its page insists on, what it sends
besides, and what its DTO takes under `whitelist` and `forbidNonWhitelisted`;
the request under way while the form is closed, left and retyped.

### The suites

The components below `Messages` share no variable with each other. Four
modules put such components side by side for TLC: `MCTelephony` (Calls,
Webhooks, Contacts), `MCAdministration` (AuthSession, Accounts, TwilioClients,
Backups, Boot), `MCBrowser` (the six of the web client) and `MCLiveness`
(WebSession, Webhooks, Inbox, Boot under fairness). The variable `part`, chosen at
the start and never changed, says which component a behaviour runs; the
variables of the others stay as they were. A behaviour of a suite is therefore
a behaviour of one component and nothing else, and its properties are
conjunctions of the components' own, named in a comment. One component is
EXTENDed and not instantiated, which TLC evaluates faster; the others are
INSTANCEs. The suites declare the constants of their parts, with assumptions
that conjoin the parts' own (`TelephonyAssumption`,
`AdministrationAssumption`, `BrowserAssumption`); the `.cfg` files give the
values, so that the theorems of section 4 are about the same modules for every
value. `MCCampaigns` and `MCMessages` hold the symmetry sets and bounds of
those two.

## 3. The runs

| Run | Question | Instance |
|---|---|---|
| `campaign_faults` | every safety property of a campaign and its jobs | 2 requests, 2 contacts, 2 attempts, 1 stall, 1 crash, 1 fault |
| `campaign_live` | jobs settle, campaigns conclude, jobs implement `QueueSpec` | 2 requests, 1 contact, 2 attempts, 1 stall, 1 crash |
| `message_resend` | messages sent again, and the callbacks of both copies | 2 messages, 2 sids, 1 hook, 1 crash, 1 fault, 2 callbacks under way |
| `message_live` | sends settle, jobs implement `QueueSpec` | 1 message, 1 sid, 1 crash, 1 fault |
| `telephony` | call history, ledger of webhooks, contacts | 2 calls, 2 hooks, 1 crash or fault; 2 webhooks, 2 deliveries; 2 contacts, files of 2 rows |
| `administration` | sessions, accounts, clients, backups, what Nest can make | 2 requests at once in each; 2 seconds, 2 passwords; 2 organisations and users; 2 Twilio accounts and keys; 3 files, 2 nights; all 18 modules |
| `browser` | session, events, list, calls and forms in the browser | 2 tabs with 2 requests, 2 logins, 2 expiries; 3 tokens, 2 sockets; 2 messages; 2 calls; 2 contacts; 12 forms |
| `liveness` | requests, deliveries, lists and the start come to an end | 1 tab with and without 2FA; 2 deliveries; 2 messages; 5 modules, 2 faults |
| `campaign_pause`, `campaign_double_launch`, `campaign_edit`, `message_delivered` | expected violations, section 5 | the smallest instance that shows each |

The properties, in the words of the code:

- `StartsBounded`, `SettledIsFinal`: the options of `app.module.ts` bound how
  often a handler is entered, and a job that is over stays over.
- `HaltStopsSending`: at most one message leaves while the campaign stays
  paused or cancelled, the one already decided on, even when a retried or
  second job takes over.
- `OptOutStopsSending`: at most one message reaches a contact after its
  opt-out, although every run iterates over a snapshot.
- `OncePerStart`: a contact gets at most one message each time a job is
  started; with `StartsBounded` a launch sends a contact at most
  `Attempts + MaxStalled` messages (`SendsPerLaunchBounded`).
- `SentCountBacked`: `sentCount` never exceeds the messages stored;
  `CountedOnce`: the counters never exceed the iterations made.
- `RunningIsBacked`: a running row has a launch about to enqueue, a launch cut
  off before `queue.add`, or a job that is live or has failed. The second and
  the last are exactly how the code strands a campaign.
- `JobsSettle`, `LaunchConcludes`, `SendsSettle`: jobs settle; a running
  campaign leaves that status unless stranded in one of those two ways.
- `OutcomeIsReported`: delivered, undelivered and `deliveredAt` were reported
  by Twilio for a sid of this very message.
- `SentIsAccepted`: a message that says sending, sent or more was taken on by
  Twilio and carries one of the sids given to it.
- `DuplicatesNeedTrouble`: each copy beyond the first is paid for with a crash
  or a failed statement.
- `CallHistoryIsTrue`: answered, ended, recorded and the statuses in the
  history are what Twilio said of that very call; a placed call has one
  outbound row, or its lack is paid for by a crash or a failure.
- `WebhookLogIsTrue`: success in the log was accepted by the subscriber, and
  failure of an accepted event cost a fault; the counters add up to the log but
  for deliveries under way, crashes and faults.
- `NothingIsTakenBack`: notes survive callbacks and callbacks survive notes;
  a webhook removed before its event was stored is not posted to; an opt-out or
  a removal is taken back by nothing but an edit that loaded the contact before;
  an import adds no second row for a phone.
- `SessionImplemented`: `AuthSession` implements `Session`. `AnswersHold`: "User
  deactivated" and "Password changed" are undone by nothing but the profile
  that was loaded before. `AccountsAreUsable`: one account per address, a
  completed setup has an administrator who owns his organisation, the quota
  holds for requests one at a time, and 2FA is on only with a secret.
- `ClientsAreCurrent`: with nothing under way the cached client is the one the
  row makes; verified credentials were accepted by Twilio; one row per number.
- `BackupsAreWhole`: of the backups reported, as many are not whole as dumps
  failed; each unfinished file was paid for by a crash or a failure.
- `OnlyTheGatewayIsMissing`, `SystemComesUp`: of everything the constructors
  ask for, only `EventsGateway` cannot be seen; were it exported to every
  module, the containers come up whatever goes down a bounded number of times,
  and no request is served before tables and all providers are there.
- `TabsKeepTheirSession`: nobody waits for a refresh that is over, and a tab is
  sent to `/login` only for a reason outside it. `RequestsSettle`: every request
  of a tab ends.
- `EventsFindTheirUser`: through every change of token, session and socket an
  event is shown once, and one of another organisation only after a logout in
  the same page load.
- `ToldAreListed`, `ToldIsListed`: a list at rest has every message the browser
  was told of, and each gets there without the user doing anything.
- `CallsAreWhatTheBannerSays`: with no failure a number typed once is called
  once, and a call made and hung up is over.
- `HeldBackOnly`, `OnlyTheseDisagree`: what is typed for a new contact reaches
  another row only when held back offline; of the twelve forms only five can
  send what their DTO refuses.
- `AllTypeOK`, `TypeOK`: the records have the shape the actions assume,
  counters within their bounds.

The properties with an exception in them (`NothingIsTakenBack`, `AnswersHold`,
`EventsFindTheirUser`, `OnlyTheGatewayIsMissing`, `HeldBackOnly`,
`OnlyTheseDisagree`) are the strongest that hold: each names the way the code
does break its promise, section 5, and shows that there is no other.

Bounds. `Attempts` is 2 where it is 3 in production: one retry after a
rejection is the case that matters, and the queue is proved for every value. Two
requests give every pair of racing handlers; a third would only repeat one. One
crash and one fault occur at every point; a second meets the same code.
Contacts do not interact except through the order of the loop, for which two
are enough. Two sids let one message be sent twice. `MaxNet` bounds callbacks
on their way, two of which can overtake each other. Where a product of
independent bounds would only repeat cases, a constraint keeps them apart and
says so: crashes and faults occur with one contact in play
(`TroubleWithOneContact`), one message (`TroubleWithOneMessage`), one call and no
notes (`OneThingAtATime`), one tab (`OneTabInTrouble`), one thing on the page
(`OneThingOnThePage`); each case still occurs at every point of a behaviour
that has the other things once. `Together` names the kinds of request that
overlap: it leaves out overlaps whose effect is a finding of section 5 (two
imports, a save of credentials across a `getClient`, two creations of
organisations, two synchronisations) and pairs that touch different columns. A
bound in a guard caps what could go on for ever (`MaxLogins`, `MaxExpiries`,
`MaxSecond`, `MaxTexts`, `MaxNights` and the like).

Requests, contacts, messages, sids and hooks are interchangeable, so the safety
runs of campaigns and messages use symmetry; the suites instead let a fresh id,
or an idle client, be the one that CHOOSE gives. The liveness runs use neither
symmetry nor constraints.

Fairness. The event loop runs a handler that can go on (weak fairness of the
handlers' continuations and of the worker), and Bull promotes due jobs, hands
out waiting ones and checks for stalled ones (weak fairness of the queue's
steps as a whole). In `Webhooks` the steps of a delivery are fair, as its post has
a timeout. In `WebSession` every request is answered in the end (axios has a
timeout of 30 s, the server answers or the connection breaks) and callbacks and
navigations that were started run; nothing is assumed of users, of expiry or
of rivals. In `Inbox` queries are answered and the socket delivers; in `Boot`
stores come up, the restart policy restarts, and Nest goes on. Crashes and
faults are bounded, hence not for ever. In a suite only the part that runs is
fair.

Deadlock is checked for the campaigns. Everything else may stop for good, when
every message was sent, every bound is used up or every container is up, so
those configurations switch the check off.

## 4. The proofs

Every invariant and every action property of the passing runs, and the three
refinements, are theorems. They hold for every value of the constants under the
named assumptions of the modules, which TLC evaluates on the instances:
`Attempts` is positive, bounds are naturals, sets that are counted are finite,
and markers such as `None` are no members of the sets they stand beside. A
theorem is about the specification without the constraints of the `.cfg`
files, so what a constraint keeps apart on the instance is together here.

`Counting` has the lemmas about finite sets the others share: how the size of a
set bounds that of a part, and what one element more or less makes of it.

### The queues, campaigns and messages

- `BullQueueProofs`. `QueueInv` adds to the types the accounts of each job:
  starts = failures + stalls + (1 if a run is under way or went through), and
  limits that depend on the state. Without the accounts `StartsBounded` is not
  inductive, as nothing would tie `starts` to the counters that `Reject` and
  `RecoverStalled` test.
- `CampaignsProofs`. `CampaignTypeOK`; `CampaignImplementsQueue` (each step is
  a step of `QueueNext` or leaves the queue alone), through which the
  queue's theorems hold of campaigns; `HaltStops` from `HaltInv` (a message
  after the halt leaves no run between its check and its call); `SentOncePerStart`
  from `SendInv` (a contact still in `todo` or being sent to has had fewer
  messages than starts); `OptOutStops` from `OptOutInv` (a late message leaves
  the contact marked in every later snapshot); `SentCountIsBacked` and
  `IterationsCountedOnce` from `LedgerInv` (the loop's position says which
  insert or iteration is not counted yet, and the entities held by updates
  are no later than the row's accounts); `RunningBacked` from `BackedInv`.
- `MessagesProofs`. `MessageTypeOK`; `MessageImplementsQueue`;
  `MessageOutcomeIsReported` and `MessageSentIsAccepted` from `ReportInv`:
  a sid belongs to one message in the worker's hands, in the row and on a
  callback's way (`SidInv`), neither row nor job exists before the insert
  (`UnsentInv`), and what a callback handler is about to write back is as good
  as what the row holds (`OutcomeInv`; without it a stale status written late
  would escape the induction). `MessageDuplicatesNeedTrouble` from `TroubleInv`:
  a copy is paid for by a start of the job, a rejection by a fault, a stall by a
  crash; the queue's accounts add them up.
- `SessionProofs`. `DeadForGood`: the abstract session never brings back a dead
  token.

### The suites

The parts of a suite share no variable. Each proof module has, for each part, a
lemma that a step of the suite is a step of the part or leaves it alone, the
invariant of the part with one step per action, and at the end the theorems
about the suite.

`TelephonyProofs`:

- `CallHistoryAlwaysTrue` from `VoiceIInv`: a status is followed from what
  Twilio has said of the call (`CallbacksWereSo`) through what a handler
  has read (`HooksReadWhatWasSo`) into the row, each in the past of the call; a
  placed call without a row (`Unkept`) is held by a request, or counted
  against a crash or a failure.
- `WebhookLogAlwaysTrue` from `SendIInv`: each delivery's event and receipt are
  as its position says (`SendsKeepStep`), an accepted event on its way to
  `failed` counts as judged already (`Misjudged`), and per webhook and verdict
  the counter is compared with a tally of the events together with the
  deliveries between event and counter (`TalliesHold`). The log alone is
  not inductive: a crash takes any number of deliveries at once.
- `NothingIsEverTakenBack` from these and `PeopleInv` (an update or an import in
  hand has a row to write to); its four parts are theorems of their own:
  `NotesAreKept`, `RemovedAreQuiet`, `ContactsAreKept`, `ImportsAlwaysMerge`.

`AdministrationProofs`:

- `RequestsKeepTheSession`: `AuthSession` implements `Session`, the tokens
  signed and not yet stored being those the requests hold. Every action is one of
  the moves of `SessionMove`, and each of these an abstract step.
  `DeadTokensStayDead` carries `DeadForGood` over to the requests.
- `AnswersAlwaysHold`: only the save of a profile loaded before takes an answer
  back.
- `AccountsAlwaysUsable` from `PortalInv` (what a finished setup promises is true
  from the write of the owner on, two statements before the flag),
  `QuotaInv` (what was counted is still so at the insert) and
  `SecretsAreKept` (enabling 2FA and saving a profile that has it
  rely on the secret staying).
- `ClientsAlwaysCurrent` from `CredInv` (what each request holds of the row and
  of the verdict still fits the row and Twilio; `CacheAlways`, needing the saves
  alone) and `NumberInv` (a number about to be inserted has no row;
  `NumbersAlways`, needing the synchronisations alone).
- `BackupsAlwaysWhole` from `DiskInv`: each unfinished file and each bad
  report is counted against a failure or a crash.
- `OnlyTheGatewayIsEverMissing`, a walk through the table of modules (`Sees`), and
  `AllOfTheApiServes`.

`BrowserProofs`:

- `TabsAlwaysKeepTheirSession` from `WebInv`. What sends a tab to the login is
  decided steps before, by the pair its refresh presented. `CleanTabsAreRight`
  therefore says of a tab nothing happened to either that nobody has logged in
  yet (`Before`), or that the session is its own (`After`): the pair a refresh
  has presented is current, or there is an excuse, and an answer not yet stored
  is the current pair. `IsAwaited` ties each waiting request to its refresh.
- `EventsAlwaysFindTheirUser` from `SocketInv`: one socket at most has a
  listener, and until a logout every socket is of the user whose token is
  stored.
- `ToldAreAlwaysListed` from `ToldAreRead`: a message told of is in what the fetch
  under way has read. This is what an invalidation that starts a fetch anew
  is for; were the old fetch kept, its answer would settle the list without it.
- `CallsAreAlwaysWhatTheBannerSays` from `DialInv` (the text of a pending dial
  stays in the field and the button disabled, so of two dials of a text the
  first had no number to call from) and `CallInv` (a banner's identifier is
  that of its call).
- `HeldBackAlwaysOnly` from `CardInv` (a request whose target is not what was
  meant was held back), `OnlyTheseEverDisagree` from the table of forms, shown
  form by form to fit its DTO whatever is left blank.

### Hypotheses

Six theorems assume more of the constants. The instances have the same
values; without them the code breaks the property, as findings and hazards in
`PROJECT.json` say:

| Theorem | Hypothesis | Otherwise |
|---|---|---|
| `ImportsAlwaysMerge`, `NothingIsEverTakenBack` | imports overlap with no other request | two writers look for a phone before either inserts it |
| `AccountsAlwaysUsable` | `disable2FA` and `createOrganization` run alone | a secret goes from under a profile that is being saved; two requests count before either inserts |
| `ClientsAlwaysCurrent` | `saveCredentials` and `syncPhoneNumbers` run alone | a client of the old row is cached after the cache was emptied; a number is inserted twice |
| `BackupsAlwaysWhole` | the image has `pg_dump` | the shell reports the empty archive as a success |
| `OnlyTheGatewayIsEverMissing` | `ConfigService` is visible everywhere, as `isGlobal` says | the modules whose providers ask for it do not import it |

What needs no hypothesis is proved without one: `NotesAreKept`,
`ContactsAreKept`, `RemovedAreQuiet`, and `PortalAlways` for addresses and
setup; what needs one of two, with that one: `QuotaAlways`, `SecretsAlways`,
`CacheAlways`, `NumbersAlways`.

### Only model-checked

Liveness (`JobsSettle`, `LaunchConcludes`, `SendsSettle`, `RequestsSettle`,
`PendingSettles`, `ToldIsListed`, `SystemComesUp`): ENABLED and fairness are out
of the prover's reach. The refinement theorems are about safety, `QueueSpec`
and `Session` having no fairness. The four expected violations are shown by TLC
alone. The strengthenings were checked by TLC on the instances before they were
proved, that of `WebSession` with two tabs and no constraint as well.

## 5. Where the code and its documentation part

Four runs show a violation:

- `campaign_pause`: `src/README.md:67` says "Pause and resume in-flight
  campaigns". A paused run leaves its loop and the statement after the loop
  (`campaigns.service.ts:128`) marks the campaign completed; nothing resumes
  it.
- `campaign_double_launch`: the check that says 'Campaign is already running or
  completed' (`campaigns.service.ts:61-62`) is two awaits away from the write
  it protects; two launches at once both enqueue.
- `campaign_edit`: 'Can only edit draft or scheduled campaigns'
  (`campaigns.service.ts:53`) is checked on the entity that `save` writes back
  after an await; a launch in between is undone in the row, not in the queue.
- `message_delivered`: "Delivery status tracking" (`src/README.md:43`) forgets
  delivered when a callback for an earlier status is handled later.

Others are what an exception in a checked property stands for: stale profile
saves (`AnswersHold`), stale contact saves (`NothingIsTakenBack`), the socket
that survives a logout (`EventsFindTheirUser`), the gateway no module sees
(`OnlyTheGatewayIsMissing`), the create that becomes an update
(`HeldBackOnly`), the five forms the API refuses (`OnlyTheseDisagree`).

The rest was met while modelling and is listed under `findings` in
`PROJECT.json` with the line of the code and the line it disagrees with; those
without a run are not checked by one. Among them: the second row the voice
webhook inserts for a placed call; STOP, which nothing reads; a login with 2FA
whose form is reloaded before the code can be typed; quota and setup under two
requests at once; a backup that is an empty archive for want of `pg_dump`; the
column `usageThisMonth`, which the migration does not create under that name.

## 6. Assumptions

- Twilio, Bull, PostgreSQL, Nest, axios, socket.io and react-query are external:
  modelled from how `src/` uses them and, where it relies on it, their
  documented contract.
- Statements of the database are atomic and in isolation of each other, one at
  a time; UNIQUE indexes and foreign keys of the migration hold.
- Three findings stop the program as it is. The models of everything
  behind them describe the code as if they were mended, since nothing would
  run otherwise: every model but `Boot` takes the API to have started (the
  gateway is visible), `TwilioClients` takes the column of
  `usageThisMonth` to exist, and the instance of `Backups` has a `pg_dump`.
- The `jsonwebtoken` library signs equal payloads of one second to equal
  tokens (it does, with one secret).
- Names, texts, numbers, urls and payloads are opaque except for equality and,
  in `Forms`, for being blank.

## 7. Not modelled

- Eviction of jobs by Redis: to the rows an evicted job is a launch cut off
  before `queue.add`, which is modelled.
- Role guard and pagination: one comparison in a constant table and one
  division, without state.
- Templates, notifications, API keys, files and the audit log: single
  statements on whose outcome nothing else decides; two of them have no callers.
- Analytics and AI: queries and a remote call that write nothing (what the page
  of messages does with suggestions is in `Inbox`).
- Lists, searches, exports and statistics, which only read; branding and
  settings of organisations, which no statement reads; dealers, whom no route
  creates.
- The TwiML of the voice webhook, the rate limiter, nginx, helmet; the rooms of
  conversations and `ping`, to which nothing emits.
- Web pages that only fetch and render, and formatting.
- `packages/types`, imported by neither application.

## 8. The plan for what is left

1. An abstract campaign (launched, sending, halted, over) and an abstract
   message (accepted, on its way, reported), with `Campaigns` and `Messages`
   shown to implement them.
2. Safety lemmas that the liveness properties rest on: no job, delivery,
   request or start is in a state from which no step leads on.
3. Runs for the findings that have none, where other runs make room for them.
