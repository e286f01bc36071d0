# Specifications of the ed-tech music platform

TLA+ modules, TLC configurations and TLAPS proofs about the program in this
repository: an API (`src/apps/api`, NestJS over Prisma and PostgreSQL), an
administration site (`src/apps/admin`, Next.js), a mobile application
(`src/apps/mobile`, Expo) and two packages (`src/packages/shared`,
`src/packages/music-tools`). The interesting behaviour is on the server: one
Node process serves many HTTP requests, and every `await` on the database, on
the payment gateway or on the mail service lets another request run. Almost
every operation reads rows, decides, and writes later, mostly outside a
transaction; what that breaks, and what constraints and order of writes save,
is what these specifications are about.

## 1. Inventory

| Component | State | Operations | Who it talks to |
|---|---|---|---|
| Subscriptions (`subscriptions/`) | `user_subscriptions`, `users.gateway_customer_id` | checkout, cancel, drain of simulated events | gateway, payments, plans |
| Payments (`payments/payments.service.ts`) | `payment_invoices`, `payment_webhook_events` | processWebhookEvent (from the controller and from the drain) | subscriptions' rows |
| Simulated gateway (`payments/fake-payment-gateway.service.ts`) | the in-memory queue `pending` | createCustomer, createSubscription, cancelSubscription, drainSimulatedEvents | called by subscriptions |
| Plans (`subscription-plans/`) | `subscription_plans` | create, update (publish, withdraw), remove | referenced by subscriptions |
| Access control (`access-control/`) | none | hasActiveEntitlement, requireEntitlement | reads subscriptions |
| Authentication (`auth/`) | `refresh_tokens`, `verification_tokens` | register, login, refresh, logout, logoutAll, changePassword, forgotPassword, resetPassword, confirmEmail | users, mail |
| Users (`users/`, `audit/`) | `users`, `user_roles`, `audit_logs` | createStudent, setRoles, setStatus, updatePasswordHash, markEmailVerified | called by authentication |
| Live sessions (`live-sessions/`, `live-provider/`) | `live_sessions`, the provider's in-memory queue | create, update, remove, goLive, endLive, cancel, recording webhook | live provider, catalog |
| Progress (`progress/`, `playback/`) | `student_progress` | upsertLessonProgress, completeLesson | access control, catalog |
| Catalog (`instruments/`, `courses/`, `course-modules/`, `lessons/`, `lesson-materials/`) | five tables with publication states | create, update, remove, visibility | everything that shows content |
| API clients (`services/api-client.ts` of both applications) | stored token pair | request, refresh on 401 and retry, sign-in state | authentication over HTTP |
| Lesson player (`features/player`) | A-B loop points, position | set points, seek, report progress | progress |
| Metronome (`music-tools/metronome`, two hooks) | tempo, next beat, timer | start, stop, updateState, tick | audio |
| Tuner (`music-tools/tuner`, two hooks) | smoothing window | detect, map, smooth, start, stop | microphone |
| Screens (`admin/src/app/dashboard`, mobile `assinatura`) | draft of a form, busy flag, the query cache | load, type, save, create, remove, refetch | the API over the clients |
| Seed (`prisma/seed.ts`) | every table | one upsert after another, run again | the database |
| Guards, filters, mail, video, health, schema | none of their own | | |

What makes each one hard, and what being correct means for it:

* **Subscriptions and payments.** Two checkouts of a student in flight; a queue
  shared by all requests, so that one request processes another's events; the
  provider's webhooks repeated, reordered and earlier than the row they are
  about; a restart between two writes. Correct: one active subscription and one
  customer per student, an event applied once, a status that comes from an
  event, and a log that tells the truth.
* **Authentication.** Check-then-write on tokens that are meant to be used
  once, and a revocation that covers only the tokens that exist at that moment.
  Correct: single use, rotation that keeps its lineage, sessions that stay
  ended, no session by an old password, an e-mail verified only by its mail.
* **Users.** Status and roles written from several places, roles by a delete and
  an insert in one transaction, the audit by reads outside it. Correct: a change
  replaces all the roles (two that overlap do not, `RolesOverlap`), and the log
  follows what changed.
* **Live sessions.** A state machine whose guard is read before an external call
  and whose write is unconditional; a recording that arrives later, by stream.
  Correct: only the allowed transitions, one recording, found by its session.
* **Progress.** Read, maximum, write: a lost update. Correct: watched time
  never decreases, a completion is never moved; both break when two requests
  overlap (`ProgressReduced` shows the first).
* **Catalog.** Publication is a conjunction over four levels; removal cascades
  or is restricted; every check is a read before the write or before a second
  read. Correct: no orphans, nothing shown below an unpublished ancestor, no
  visible lesson deleted, a course reassigned only by an administrator.
* **API clients.** Parallel requests that all meet a 401 refresh in parallel,
  against tokens that serve once, while users sign in and out. Correct: a valid
  session is not lost, and the storage holds what the screen says. Neither holds
  always: a 5xx at the renewal signs out of a session that is still valid, and a
  renewal in flight during a logout stores its pair after it. The properties of
  `Apps` say what it takes (`excused`).
* **Screens.** A draft copied from a cache that lags behind the row. Correct:
  what is saved is what was typed, once, and it is shown (but for a save while
  the first load is under way).
* **Metronome, player, tuner.** Sequential engines under asynchronous hooks.
  Correct: no tick late, lost or sounding after stop; a report that is at most
  an interval behind what was played; a tuner that listens exactly while its
  screen says so. The panel's hook leaves its microphone open when the page is
  left, which no property excludes (a hazard of `PROJECT.json`).
* **Seed.** Upserts without a transaction over data that others have changed.
  Correct: it may be interrupted and run again, and leaves edits alone.

The hazards, each with its line and the properties that watch it, are listed
in `PROJECT.json`.

## 2. Modules

| Module | Contents |
|---|---|
| `Subscriptions` | checkout, cancellation, the simulated gateway, webhooks, invoices, plans, entitlement |
| `ConfirmedSubscriptions` | what the webhook pipeline promises of a status, which `Subscriptions` implements |
| `SubscriptionsProofs` | the theorems about `Subscriptions` |
| `AuthSessions` | accounts, refresh tokens and mailed tokens |
| `AuthSessionsProofs` | the theorems about `AuthSessions` |
| `LiveSessions` | live classes, their transition table, the live provider and its recordings |
| `LiveSessionsProofs` | the theorems about `LiveSessions` |
| `LessonProgress` | reports and completions of lessons that may be edited and removed |
| `LessonProgressProofs` | the theorems about `LessonProgress` |
| `Catalog` | the five tables of the catalogue, who sees and who manages them, lists, playback |
| `CatalogProofs` | the theorems about `Catalog` |
| `UserRoles` | registration, roles, status and the audit log of one account |
| `Seed` | the seed run again over a database in use |
| `ApiClient` | the HTTP client, the token storage and the sign-in state of one app |
| `Panel` | a form of the panel, or the subscription screen, with the query cache |
| `Apps` | `ApiClient` and `Panel` in one run |
| `AppsProofs` | the theorems about `ApiClient` and `Panel` |
| `LessonPlayer` | the A-B loop and the player's reports |
| `Metronome` | the engine and the timer of both hooks |
| `Tuner` | the smoother, and the microphone of both hooks |
| `Parts` | `LessonProgress`, `UserRoles`, `Seed` and the three tools in one run |
| `PartsInvariants` | the inductive invariants of `Metronome`, `Tuner` and `Seed`, with the proofs that every step keeps them |
| `PartsProofs` | those of `UserRoles` and `LessonPlayer`, and the theorems about every part of `Parts` |
| `MCSubscriptions`, `MCAuthSessions`, `MCCatalog` | the symmetry sets of the TLC runs |

`Subscriptions` composes checkout, gateway, webhooks, plans and access control,
which share rows; `AuthSessions` composes authentication with the accounts,
`LiveSessions` the sessions with their provider, `Catalog` its services with
the entitlement that playback asks for. `Apps` and `Parts` put together parts
that share no state: the variable `part` says which one a behaviour follows, the
others keep their initial values, so that TLC explores the sum of their state
spaces and not the product. A composed run loses nothing, because no action of
one part reads a variable of another.

### How a request is modelled

`r \in Req` is a slot for one HTTP request in flight. `pc[r]` names the statement
it waits at, `arg[r]` holds the locals it read, and each action runs one
request from an `await` to the next one: what the code does in one run of the
event loop, with at most one statement of the database, is one action. A request
that is refused at its first check changes nothing and is left out; a refusal
later on is a disjunct of the action where it happens. Dates are abstracted to
what the code compares (a period that is current or over, a token that expired
or not), identifiers to positions in the order of creation. Reads for display,
listings, logging and the response bodies are left out.

### Subscriptions

`checkout` (`subscriptions.service.ts:30-73`) is `BeginCheckout`,
`CheckExisting`, `ReadUser`, `SaveCustomer`, `CreateSubscription`, `InsertRow`;
`cancel` (75-88) is `BeginCancel`, `CancelSubscription`; both end in
`Drain`, which takes the whole queue of the simulated gateway into `todo[r]` and
then runs `processWebhookEvent` (`payments.service.ts:24-79`) on each event:
`RecordEvent` (the insert that the unique constraint may refuse),
`ApplyStatus` or `FindSubscription`, `UpsertInvoice`, `SetPastDue`, then
`MarkProcessed`. The `try` block covers all of these: `ApplyFails` is what the
handler throws by itself (no row, no invoice in the event), `HandlerRejects` a
statement that rejects anywhere in it, the update to PROCESSED included, and
`MarkFailed` the catch block, which rethrows and so drops the rest of the drained
events. `RequestRejects` is a statement outside the block: the request ends
there, with whatever it has written. `Webhook` is the same handler
entered from the controller with any event that is delivered over HTTP. With
`Simulated` the gateway queues what it announces in memory; without it the
provider delivers over HTTP, and `ProviderEmits` adds what a provider decides by
itself: renewals, failed payments and their retries, cancellations. `UpdatePlan`,
`CreatePlan`, `BeginRemovePlan`, `DeletePlan` are the administration of plans, with the
foreign key that refuses a plan that stored rows name; a checkout in flight is not
protected, its `InsertRow` then fails. `Crash` empties everything that is not
in the database. `PeriodEnds` is time.

History variables: `nCustomer` (customers created at the gateway), `settled`
(events that have written a status), `billed` (events whose invoice is stored),
`rejected` (the statements of handlers that were rejected). `faults` counts restarts
and rejected statements.

### ConfirmedSubscriptions

The status of a subscription starts as `INCOMPLETE` and only changes by taking
the status of an event that was announced for it, an event at most once. The
refinement maps `announced` to `emitted` and `status` to the rows' status; all
the control of requests, the queue, the log and invoices stutter.

### AuthSessions

`register` is `BeginRegister`, `InsertUser`, `SaveMail`, `SendMail`,
`IssueRefreshToken`; `login` `BeginLogin`, `IssueRefreshToken`; `refresh`
`BeginRefresh`, `RevokeUsed`, `IssueRefreshToken`; `forgotPassword`
`BeginForgot`, `SaveMail`, `SendMail`; `resetPassword` `BeginConsume`,
`MarkUsed`, `UpdatePasswordHash`, `RevokeAll`; `confirmEmail` `BeginConsume`,
`MarkUsed`, `MarkEmailVerified`; `changePassword` `BeginChange`,
`UpdatePasswordHash`, `RevokeAll`; `logout`, `logoutAll` and `setStatus` are one
statement each. `Fail` is an awaited call that rejects, or a restart. A refresh
token records in history fields the token it was exchanged for, the session
(the first token of that chain) and the password of the login; `ended` is the
history of the sessions that a logout or a revocation covered. `UsedOnce` and
`RevocationHolds` excuse behaviours in which requests overlapped or failed;
`SpentStaysSpent` does not: what was used, revoked or had expired before any request
read it is not exchanged by a later one.

### LiveSessions

`goLive` (`live-sessions.service.ts:117-140`) is `BeginGoLive`,
`CreateLiveStream`, `SetLive`, then `Drain`; `endLive` (142-161) `BeginEndLive`,
`EndLiveStream`, `SetFinished`, `Drain`; `cancel` `BeginCancel`, `SetCanceled`;
`remove` `BeginRemove`, `Delete`; `create` one insert. `Begin...` reads the session
and asks the transition table (`AllowedTransitions`, `Valid`) or the condition
of the removal (`Removable`); the write that follows is an update by id
(`Update`), which rejects when the row is gone and does not look at the status
again. `Drain` takes the queue of the simulated provider and runs
`processRecordingWebhook` for each event: `FindSession` (by stream; without a
session the request fails with the events behind it) and `SaveRecording`.
`Webhook` is the same handler entered from the controller, for any recording
any number of times. `Init` chooses the provider (`simulated`). `Restart`
empties the queue and the requests; `Fail` rejects an awaited call.

### LessonProgress

`upsertLessonProgress` (`progress.service.ts:60-96`) is `BeginReport`,
`ReadExisting`, `Upsert`; `completeLesson` (98-113) `BeginComplete`,
`ReadExisting`, `Upsert`: the lesson is read first, then the row, then one
upsert, and the report decides (`Watched`, `ShouldComplete`) from the row it
read. The foreign key refuses a row of a lesson that is gone. `EditDuration` and
`RemoveLesson` are `LessonsService.update` and `remove`, with the cascade to the
progress. Watched time, durations and the threshold keep their numbers; dates
are values of a clock, because the date of a completion must be told from a
later one. The last position is only displayed.

### Catalog

Each `Begin...` reads a row with its ancestors, as one `findUnique` with `include`
does, and decides by the operators of `catalog-visibility.util.ts`
(`IsCoursePublished`, `IsLessonPublished`, `IsOwnerOrAdmin`) and by `RolesGuard`;
`Insert`, `Update`, `Delete` is the write by id that follows, with the foreign
key that refuses an insert without its parent (`ParentThere`) or an instrument
with courses, and the cascade (`Below`). `AnswerList` is the second read of a
list, `AssertEntitled` the entitlement that playback and materials ask for
after the lesson. The code tells `PUBLISHED` from the other statuses only, so
`HIDDEN` stands for draft and archived. The subscriptions are external here: any
subscriber may gain or lose access at any time (`SetEntitled`). `seen`, `paid` and
`raced` are histories of a request: what its reader could see, and had paid for,
at some moment of it, and whether something overlapped it.

### UserRoles

`createStudent` is `Register`, `Create`, `SendEmailVerification`, `Record`; `setRoles`
`SetRoles`, `DeleteMany`, `CreateMany`, `ReadAfter`, `Record`; `setStatus` `SetStatus`,
`UpdateStatus`, `ReadAfter`, `Record`. The transaction of `setRoles` runs at the
default isolation of the database, so that its `deleteMany` removes what was
committed before it began and its `createMany` fails on a row that is there.
`disputed` is the history of the actions whose requests overlapped, or stopped
before their record.

### Seed

`SeedUpsert` is one upsert of `main`, in its order; a row that is found is left as
it is (`update: {}`), but for the subscription. What is found by a slug may be
missing after `Rename`, what is found by an id keeps the parent it has. `StopSeed`
ends a run anywhere, also by a foreign key that a removal (`Delete`) broke.

### ApiClient

`apiRequest` is `Send`, `ReadRefresh` (or `ReadRefreshToken`, where the storage is
asynchronous), `Refresh`, the writes of the two keys (`SaveTokens`), and the
repetition; a 401 that is not renewed, be it that the API refuses the token or
that it answers with a server error, clears the storage and signs out. It
serves the queries of the screens (with the repetitions of the query client),
`loadProfile` and the profile of a login; `login`, `register` and `logout` have their
own chains. The mobile app stores its two keys by two asynchronous calls, the
panel at once (`mobile`). Of the API it has what `AuthSessions` says in detail:
`Issue`, `ExpireAccess`, `EndSession`. `ServerError`, `NetworkError`, `LoseAnswer`
and `Kill` are the faults, one kind in a behaviour. `excused` is the history of the
Excuses, listed above `SignedOutForReason`: two calls that used the stored tokens
at one time (a renewal and a logout among them), a renewal that was answered with
an error or whose answer was lost, an app killed meanwhile, a login or start
without a profile, and sessions that the API ended. `StorageMatches` and
`SignedOutForReason` hold up to the first of them. What the code does afterwards
is the question of the two violation runs.

### Panel

A form is described by four facts (`Component`): whether it creates or changes a
row, the fields it leaves out when empty, what its fields start with, and what
its removing button leaves behind; each component of the panel is such a record.
`Type`, `OnSave`, `OnCreate`, `OnCheckout`, `OnDelete` are its handlers, `AnswerChange` and
`ShowError` what follows their call, `Invalidate` the invalidation of its key.
`OthersChange` is another user. React Query is external: `FetchRead`,
`FetchAnswer`, `FetchFails`, `Focus`. An invalidation drops a fetch under way and
starts another only if the query has data; during the first load the fetch goes
on, and its answer, read before the save, passes for fresh (`LateLoad`). That is
how the library's version 5 behaves, whose source is not in the repository.

### LessonPlayer, Metronome, Tuner

`TimeUpdate` is an event of the player with the effects of its render: the seek of
the loop, then the report. `sent` holds the reports on their way. The API handles
each as `LessonProgress` says, in two steps: `ReadStored` takes the maximum with the
row it reads, `StoreReport` writes it later; any report may be read, stored or lost
next, also between the two steps of another (`atOnce`). The native player (`Play`) runs ahead of its events.

`Scheduler` is one call of the timer: it hands to the audio every tick that is due
within the lookahead (`Due`) and moves the engine on. `Sound` is a tick that is
heard. The clock waits for neither: a timer may be held up by `MaxIdle`. Times
are sixteenths of a second.

`PressStart` asks for the microphone, `Permit`, `StreamStarts` (phone) and `Capture`
(panel) are the answers, `Refused` the refusal. A buffer is `Heard` as a note and a
deviation, or is `Silence`. `TunerNext` covers both hooks, chosen by `panel`.

### Histories of overlap

Much of what this code promises holds only while no two requests work on the
same thing. `raced` records the sessions (the lessons) on which two requests
overlapped, from the read of one to the write of the other; `faulted` that some
request failed half-way; `edited` the lessons whose duration changed. A property
about `Live \ raced` is checked in every interleaving of the others, and says
which overlap is to blame: `KeepsLifecycle`, `RecordingKept`, `RecordingLinked`,
`NoReportLost` and `CompletedAtKept` are of this kind, and are false without
their exception; so are `UsedOnce` and `RevocationHolds` (`disturbed`), `RolesAndLog`
(`disputed`), `StorageMatches` and `SignedOutForReason` (`excused`) and the first half
of `TunerTruthful` (`overlapped`), and `LessonPlayed` (`atOnce`, `reordered`, `lost`). What
is left of a promise when requests do overlap is stated where there is something:
`WatchedNeverReduced`, `RolesWhole`, `OneUsePerToken` and `OneActivePerUser` have
no excuse, and are violated. `MediaOfSession`, `CompletionKept`,
`CompletedHasDate`, `EnoughCompletes`, `Lineage`, `VerifiedByMail`, `TreeIntact` and
`TeacherByAdmin` hold whatever overlaps.

## 3. Runs

| Run | Expect | Question |
|---|---|---|
| `SubsSimulated` | pass | Two concurrent requests of two students with the simulated gateway, plan administration, a restart or a rejected statement: cancellation, that every request is answered, and what checkout promises while nothing overlaps or fails |
| `SubsHttp` | pass | A provider over HTTP, any order, any number of deliveries, renewals, failed payments, a restart or a rejected statement: the truth of the log, access only after confirmation, the refinement |
| `SubsTwoActive` | violation | Two checkouts in flight: two active subscriptions |
| `SubsEarlyWebhook` | violation | A webhook before its row is FAILED, and its retries are duplicates |
| `AuthConcurrent` | pass | Two concurrent requests, each may fail half-way: lineage of rotation, verification only by mail, spent tokens stay spent; and while none overlapped or failed, single use and final revocation |
| `AuthTokenReuse` | violation | A refresh token meant to be used once is exchanged by two requests in flight |
| `LiveConcurrent` | pass | Two requests on two sessions, either provider, failures and restarts: the life cycle, streams and recordings |
| `Catalog` | pass | Two concurrent requests of an admin, a teacher and a student on one path of the catalogue: no orphans, no visible lesson deleted, nothing shown that may not be seen |
| `Apps` | pass | Two calls that renew, lose and give up a session, and every form against other users and a cache that lags behind |
| `Parts` | pass | Progress of a lesson, roles and audit, the seed, the player, the metronome and the tuner, each from its own initial state |
| `ProgressReduced` | violation | Two overlapping reports: watched time is reduced |
| `RolesOverlap` | violation | Two overlapping changes of roles: the user keeps the roles of both |

Every violation is a disagreement of the code with a sentence of the
repository; `PROJECT.json` quotes it under `findings`.

`SequentialService` of `SubsSimulated` and the run `SubsTwoActive` belong together:
the same property holds of the behaviours in which one request runs at a time and
fails with two, so that the interleaving, and not the logic of the handler, is what
breaks it. `RolesAndLog` of `Parts` and the run `RolesOverlap` are such a pair too.

Two sentences of the repository that the code does not keep have no run of their
own, because the runs keep to one question each and these two are seen in what the
properties of `Apps` and `Parts` leave out: ARCHITECTURE.md:323 (`completedAt` is
never overwritten; `completeLesson` writes a date it read before) and the comments
at api-client.ts:17 and 89-90 (signed out only when the session has really expired;
`ServerError` at `/auth/refresh` signs out of a valid one).

Several properties are conjunctions of named parts, one for each thing that the
same component promises: `OnePerUser`, `UsedOnce`, `RevocationHolds`, `CompletionFinal`,
`LessonPlayed`, `InTime`, `TunerTruthful`, `RolesAndLog`, `SeedRepeatable`,
`StorageMatches`, `SavedAsTyped`, `AppsEnd`. Their parts are stated, with their
comments, just before them.

### Bounds

Two request slots: every race in this code is between one read and one write,
so two requests show it, and the proofs cover any number. `Parts` gives
`LessonProgress` three, because there a third request can find what two have left. Two
students, or two live sessions, where a property relates them (`SubsSimulated`,
`LiveConcurrent`, `Apps`), one elsewhere.
`MaxEvents` counts events of the gateway: one checkout announces two of them
and a cancellation one, so the five of `SubsSimulated` are two checkouts and a
cancellation, and the three over HTTP, where the plan has a trial and a checkout
announces one event, leave two for the provider's own: failed payments, renewals,
a cancellation. Room is kept for what the
requests in flight have yet to add (`Capacity`, and the counts in the guards of
`LiveSessions`), so that the bound never stops a request half-way. One fault in
`Subscriptions`, a restart or a rejected statement: it may fall anywhere. `MaxRefresh`, `MaxMail` and `MaxPassword`
bound tokens and passwords in the same way; three refresh tokens are a login and
two exchanges of its token. Two streams and two recordings are one of each
session, or two of one that raced. A lesson of ten seconds meets reports below,
at and above ninety percent; a lesson of zero seconds is one whose duration is
unknown. The clock of `LessonProgress` grows only with a new date, at most once
per lesson and row, or with the overwriting that requests in flight allow.
In `AuthSessions` a password changes only while no two requests have overlapped,
and afterwards one request runs at a time (`MayChange`, `MayBegin`): the properties
about passwords say nothing of other behaviours.

`Catalog` has one row of each kind, one path from an instrument to a material:
rights and visibility are decided along one path, and a removed row may be
created again under the same id with other contents. Its three users are an
admin, a teacher and a student, the last of whom may subscribe.
`Apps` has two accounts, two calls and two pairs of tokens: a login and one
renewal, or the logins of two users; three versions of a row are one change by
the form and one by somebody else, before or after it. Liveness is asked up to
the bounds (`AtBound`, the last version), where the API model has nothing more
to answer.
`Parts`: a video of seven seconds, reports every three and events at most two
apart have a report before, inside and after a loop, and four reports and eleven
seconds allow a loop to be repeated. A tempo of 240 with one or four
subdivisions is four units a beat or one; a lookahead of two units and a timer
held up by three is one that is late; two runs of seven units show a
start on a clock that runs. The values 0 are emptied fields. Three presses of
start, two notes and two deviations fill a window of three and change it. Two
handlers and four requests on one account are two overlapping changes of roles
between others; three runs of the seed are one that stops, one that
repairs, one that repeats, among three acts of administrators.

Symmetry is used in runs of invariants and action properties only (and of the
refinement, which is one), never with liveness. A run says `CHECK_DEADLOCK FALSE`
where its bound is a real end: all events of the bound announced and processed,
the only lesson removed, the screen left, the last run of the seed over; no
request is in flight there (`RequestsEnd` checks it for `Subscriptions`, `AppsEnd`
for the clients).

### Fairness

`FairSpec` has weak fairness of `Step(r)` for each request: once the awaited
promise settles, the event loop resumes the handler. Beginning a request, the
administration, time, failures and restarts are not fair. `RetryingSpec` adds, for
each event, strong fairness of its delivery: providers redeliver until they get
an answer, and a slot is free again and again. In `Apps` the same weak fairness
is that of `fetch`, which answers or rejects: of the steps of each call of the
client, of the request of the form (`RequestStep`), and of the fetch of its data
(`FetchStep`). What a user does, the faults and the clock are not fair.

## 4. Proofs

Eight modules hold theorems. Every one of them is proved for all values of the
constants that satisfy the assumptions of its model, and all but two without a
further hypothesis.

| Module | Theorems, and the properties of the runs they state |
|---|---|
| `SubscriptionsProofs` | `TypeCorrect` (`TypeOK`), `OneHandlerPerEvent`, `Provenance`, `ConfirmedAccess` (`AccessConfirmed`), `Refinement` (`ConfirmedSpec`), `LogIsTrue` (`RecordTellsTruth`), `CanceledForGood` (`CanceledIsFinal`), `SequentialCheckouts` |
| `AuthSessionsProofs` | `TypeCorrect`, `LineageHolds` (`Lineage`), `MailVerifies` (`VerifiedByMail`), `TokensServeOnce` (`UsedOnce`), `SpentForGood` (`SpentStaysSpent`), `RevocationIsFinal` (`RevocationHolds`) |
| `LiveSessionsProofs` | `TypeCorrect`, `MediaCorrect` (`MediaOfSession`), `LifecycleKept` (`KeepsLifecycle`), `RecordingIsKept` (`RecordingKept`) |
| `LessonProgressProofs` | `TypeCorrect`, `ReportsKept` (`NoReportLost`), `Dated`, `Threshold` (`EnoughCompletes`), `CompletionStays`, `CompletionDateStays`, `CompletionFinality` (`CompletionFinal`) |
| `CatalogProofs` | `TypeCorrect`, `TreeStaysWhole` (`TreeIntact`), `AnswersHold` (`AnswersJustified`), `VisibleIsKept` (`VisibleNotDeleted`), `TeachersByAdmin` (`TeacherByAdmin`) |
| `PartsInvariants` | only lemmas, which `PartsProofs` draws on |
| `PartsProofs` | `RolesAndLogHold` (`RolesAndLog`), `LessonIsPlayed` (`LessonPlayed`), `InTimeHolds` (`InTime`), `GridHolds` (`GridKept`), `TunerIsTruthful` (`TunerTruthful`), `SeedRepeats` (`SeedRepeatable`), `ProgressOfParts`, `PartsTypesHold` (`PartsTypeOK`) |
| `AppsProofs` | `AppsTypeCorrect` (`AppsTypeOK`), `StorageIsShown` (`StorageMatches`), `SignOutsHaveReasons` (`SignedOutForReason`), `SavedShows` (`SavedIsShown`), `SavedOnceAsTyped` (`SavedAsTyped`) |

The argument has the same shape everywhere. The inductive invariant says of each
request, next to the property, what it may rely on at the statement it waits at
(`Known(r)`, `Informed(r)`, `HandlerOK(r)`); a step of one request is summarised
by what it leaves to the others (`Others(r)`, `Frame(r)`, `Grows`), one lemma
shows that such a step keeps everybody else's facts, and each action has to
establish its own only. Facts of a request that is alone (`KnownAlone`,
`Checked`, `AsRead`, `Alone`) are stated next to those that hold in every
interleaving, and are kept by an exclusion: two requests meet only where the
history of overlap says so. Each invariant was model-checked before its proof,
on the constants of its component's run and on larger ones.

### Subscriptions

The theorems of `SubscriptionsProofs` rest on `IInv`, under
`SubscriptionsAssumption` (`Req` is finite; `null` and the statuses are
different values). `AppliedByOne` is not
inductive: that two requests never apply the same event depends on the record
being `RECEIVED` while a request applies it (`RequestOK`), on a request only
beginning to apply an event without a record (`RecordEvent`), and on two
requests inserting different rows (`Apart`). `StatusFromEvents` needs the types
of events and their statuses (`EventsOK`), that a stored row was announced
(`StoredOK`), that an event which took effect has a record (`Recorded`), which
the refinement also needs to see that no event is taken twice. The step of a
request `r` is summarised by `Frame(r)`: what it may do to data that other
requests rely on. One lemma (`FrameOK`) shows that `Frame(r)` and the facts of `r`
keep everybody's facts.

The log, the cancellations and the checkouts have an invariant per question, which builds
on `IInv`.
`LogInv`: how far a handler is tells which rows of its event are written
(`HandlerOK`), so that `PROCESSED` is true when it is written, `FAILED` comes after a
write only if a later statement was rejected (`CutShort`), and both stay true because
no event is applied twice. `FinalInv`: a subscription is activated by its first event only,
and its cancellation is announced once that event has taken effect. `SeqInv`:
what the gateway has queued belongs to the one request at work (`Turn`), which
found no active subscription of its student; `PlanInv` that a checkout names a plan.

Two of the theorems have a hypothesis, because the property does not hold without it,
and both are what their runs assume. `CanceledForGood` asks for `~ProviderActs`:
a provider that revives a subscription by itself may do so. `SequentialCheckouts`
asks for one request at a time (`OneByOne`), the simulated gateway, a provider that
only answers, and no restart: `SubsTwoActive` is the counterexample with two requests.

### Authentication, live sessions

`AInv`: the account and the session of a token exist, a parent is revoked, a
verified address has a mail that was used (`Known(r)` between the statements);
and, unless requests overlapped or failed (`disturbed`), one request is at work
(`Serial`), which knows that the token or mail it is about to use is unused
(`KnownAlone`), no session has two live tokens (`OneTokenPerSession`), and no
session that was ended has one.

`LInv`: a session names a stream that was made for it, also in the locals of
the request that is about to write it; two operations meet only on a session
marked as raced (`Exclusive`), so that an operation that is alone still finds the
status it has checked (`Checked`); a session that was not raced has one recording
at most (`RecordedOnce`), which is why the provider's webhook never replaces it.

### Lesson progress

Under `ProgressAssumption`, `PInv` adds to the properties what a request knows.
`Informed(r)` holds whoever else writes: its lesson's duration unless that was
edited, and, if enough was watched, that it completes the lesson or found it
completed; this is why the threshold survives stale reads, since completions
are never taken back. `AsRead(r)` holds while the request is alone: the row is
still the one it read, so that its maximum is one and its date is the stored
one. `Exclusive` (two requests meet only on a lesson marked as raced) is what
keeps `AsRead(r)` when another request writes. `WrittenRow` says of both kinds
of request what they write; the invariant and both action properties use it.

### Catalog

`CInv` holds for any number of rows of each kind (`CatalogAssumption`: the kinds
are disjoint; `RowAssumption`: no row is `null`). `WriteOK` is what a write still
relies on when it comes: a row that is created fits its parent's kind (`Fits`) and
the foreign key sees that the parent is there; a row that is removed takes
everything below it, so that `TreeIntact` needs no exclusion of requests. For an
answer, `SeenOK`, `PaidOK` say that what was read had been visible, and paid for, at
some moment of the request, and `FreshOK` that nothing changed in between unless it
`raced`. The two action properties are decided by `Update` and `Delete`
alone, whose rights were checked before them.

### The parts and the applications

A step of `Parts` or `Apps` is a step of the part that is followed, or leaves it as
it is, so each part has its own invariant. `RInv`: the log of an action is a chain
from before to after, and its last entry, with the request in flight if there is
one, ends in what is stored. `PlayerInv`: `LoopKept` (the player is inside the loop
or its seek is on the way), `FurthestKnown`, `ReportKept` (the last report is
stored or on its way, and what a handler read is not more than was played).

`ClientInv` holds for any set of calls, under `ApiClientAssumption` (finitely many
calls): at most one call is in the section that renews or writes the tokens
(`AloneInSection`); outside it the storage holds the newest pair of the user the
screen shows (`Settled`), and inside it `SectionOK` says which of the two keys are
already written. All of it is conditional on `~excused`, as the property is.
`PanelInv`: every copy of the row is as old as its version says (`Snapshot`), which
makes a copy of the current version equal to the row, and a draft that was
copied from it differs only in the fields that were typed.

`MetronomeInv`: under unchanged settings the ticks of a run that wait, together
with the last one heard and the engine's next position, are a chain in which each
is one interval after another (`Gridded`); hearing the earliest one is therefore
hearing the follower of the last. What waits is within the lookahead of the
clock, or of the last stop (`Waits`), and a timer that came in time has left
nothing out up to there (`NothingLeftOut`). `Due` is computed by a recursion over
positions; `DueFacts` shows that it takes exactly those before the lookahead, by
induction in the one form the provers have: the least element of a set of
numbers, which `LeastNat` takes from the library's `WFMin`, and `NatSet`, a set
that holds 0 and every successor. `MetronomeAssumption` says that intervals are
whole units, and that the screen's first settings are offered by the screen.

`TunerInv`: what listens is the capture of the hook's `ref`; while the screen is shown
and presses did not overlap, one capture waits or listens (`MicInv`); the last readings of the window are of
the string that is held, and what is shown is the window's sum (`HeldOK`).
`SumOfSame` is the same induction, over a window of equal readings.

`SeedInv`: a row keeps the number its key had when it was made, so that, unless a
slug was changed, no other row of its kind exists (`KeysOK`); every row has its
parent (`SeedTypeOK`); and a run that nobody crossed has made all kinds before
its step (`SeededUpTo`). `FreeNumber` counts: fewer copies than numbers leave one
free. `ProgressOfParts` carries the theorems of `LessonProgressProofs` over to
`Parts`, and with that the types of all parts together (`PartsTypesHold`).

### What is only model-checked

Liveness under fairness (`RequestsEnd`, `SequentialService`, `RecordingLinked`,
`AppsEnd`), which the prover does not handle: nothing is proved about it, not
even the enabledness of the fair actions. Every invariant and action property
of a passing run is stated by a theorem, and so is the safety half of
`SequentialService` (`SequentialCheckouts`). The five violations are what TLC
finds, and no theorem is about them.

## 5. Not modelled

* **Guards, throttling, filters, interceptors, configuration, health, mail and
  video providers** keep no state of the program's own; `RolesGuard` is part of
  `Catalog`. The rate limits live in an external store. The signature of webhooks
  and of tokens is abstracted to genuineness.
* **Pitch detection and the mapping of a frequency to a note** are floating-point
  signal processing, out of TLC's reach; `Tuner` takes their results as inputs.
* **`LiveSessionsService.update`**, which edits title, date, instrument and teacher,
  touches neither the status nor the recording. That only an administrator
  reassigns a teacher is the same rule, and the same race, as in `Catalog`.
* **Screens that only list or draw**, the shared components and the layout. The
  contents of the query cache per user, and keys that a form does not
  invalidate, are not modelled either.
* **`getCourseProgress`** and the other reads for display: they change nothing.
* **Two failures that nothing repairs and no document speaks of**: a new password
  whose sessions were not revoked because the request stopped, and an
  account whose verification mail was never sent. The first is listed as a
  hazard without a property; so would be that a blocked account renews its
  session, and that the checkout and the access control read "active"
  differently (only the latter looks at the end of the period).
* **Types, the schema and migrations.** Constraints are cited where the models
  rely on them.

`PROJECT.json` lists every component with its status.

## 6. Plan

Done: every model above, with its runs, and the proofs of section 4, which cover
all safety and action properties of the runs.

Left:

1. A property of the password change that stops before it revokes the sessions
   (the hazard without one), once it is decided what the API should promise.
2. An abstract specification of the access that a lesson grants, over
   `Subscriptions` and `Catalog` together, and the refinement of it.
3. `LiveSessionsService.update` as an operation of `LiveSessions`.
