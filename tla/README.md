# Verification of the LoopBack 4 microservice catalog

This directory holds TLA+ models of parts of the catalog, the TLC
configurations that check them on small instances, and proofs, checked by
TLAPS, of what matters most for instances of every size. Every definition of
a module is translated from the source; `PROJECT.json` says, definition by
definition, from which lines (`map`), lists the components of the repository,
and lists, line by line, what is hard to test in them (`hazards`).

    cd tla
    tlc -config InMail_drafts.cfg MCInMail      # model-check one instance
    tlapm InMailProofs.tla                      # check the proofs of a module

## 1. The system

The repository is a monorepo of LoopBack 4 services that an application mounts
or runs on their own, plus a few libraries for their clients. Services do not
call each other; what they share is a database per service, Redis, and the
bearer tokens authentication-service issues and all the others verify. Inside
a service, requests run concurrently on one event loop: a handler runs
undisturbed from one `await` to the next, and between two of them any other
handler may run, the server may stop, and statements may fail.

| component | state it keeps | operations | what is hard | what makes it correct |
|---|---|---|---|---|
| in-mail-service | tables thread, message, group (what each party holds of a message), attachment, meta | compose, update, send, reply, forward, trash, delete, restore, mark, fetch, attachments | multi-statement handlers, few of them in a transaction; whole rows read, changed and written back later; row locks | rows agree with messages and threads; drafts are private; a sent mail reaches exactly its recipients, once; nothing deleted returns; requests end |
| bpmn-service | tables workflows and workflow_versions; the definitions of a workflow engine; the map of workers and which of them run | create, update, delete a workflow; delete a version; start; register a worker | two tables and a remote engine without a transaction; updates that finish in the other order; a poll that fails while workers start | what is listed can be executed; the latest version is not deleted alone; a worker runs once |
| user-onboarding tour | the saved step; the step on the screen; router subscriptions and timers that outlive their click | run, Next, Previous, cancel, resume | late handlers, duplicated clicks, navigation between click and answer, reload at any time | the tour resumes where the user is; no step is skipped; Next leads to the next step |
| payment-service | orders, transactions, subscriptions; the gateway's state | place, pay, charge, refund, subscribe, webhook | gateway and database out of step; repeated submissions; stale rows written back; hooks that overtake the charge | an order marked paid has its charge on the books; books and gateway agree; a subscription follows the gateway |
| authentication-service | refresh and revoked tokens in Redis; users, passwords, lastLogin | login, exchange of a code, refresh, logout, change and reset of the password | read-check-revoke-delete sequences over one token; tokens told apart by a second | one successor per refresh token; an ended session's token is refused; a reset link sets one password |
| video-conferencing-service | meetings, attendees, archives | link, join, edit and end a meeting; the provider's webhooks | the clock between check and write; hooks in any order | an ended meeting stays ended; the schedule is kept; the list shows who is connected |
| scheduler-service | calendars, working hours, subscriptions, events, attendees | create and replace calendars; invite, answer, cancel, delete; free-busy | chains of statements without a transaction | a repeated PUT heals a failed one; a deleted event has no attendees; whoever is engaged is busy, and just then |
| cache mixin | cached results with a ttl | find, findById, clearCache | a save that nobody waits for | nothing older than the ttl; what was settled is not undone; an answer is that of its own query |
| search-service | tables recent_search and search_query | search, list recent searches; the where clause of a search | deletions by what was read earlier; numbered placeholders against a list of values | the latest texts once each; the rows found are those the filter means |
| search library | box, category, suggestions, recent searches; a debounced text | type, pick, change the category | answers in any order | the box shows what it was asked last |
| feature-toggle-service | features, toggles, strategies | write them; check a request | levels read one after the other while they are written | a request passes only if every level was on |
| notification, chat, audit, reporting, ocr, ocr-s3 | single rows or objects | CRUD, pass-through | little beyond a single statement | - |
| cli, changelog tool, other Angular interfaces, sandbox | - | generators, views, examples | - | - |

`PROJECT.json` names the sources of every component and why one is not
modelled.

## 2. Modules

| module | what it is |
|---|---|
| `InMail` | the in-mail service, one step per awaited statement |
| `Mailbox` | what a party may expect of its copies of a message: the abstract specification `InMail` implements |
| `MCInMail` | the sets of calls of the runs of `InMail` |
| `InMailProofs`, `InMailDraftProofs` | theorems about `InMail`: of any clients, and of clients under stated restrictions |
| `Workflow`, `MCWorkflow`, `WorkflowProofs` | workflows, versions and the engine of the bpmn service; theorems |
| `Workers` | the external-task workers of the bpmn service |
| `Tour`, `MCTour` | the tour service of the onboarding library |
| `Payment` | orders and transactions of the payment service with the Stripe gateway |
| `Subscription` | subscriptions of the payment service with either gateway |
| `PaymentProofs` | theorems about both |
| `Session`, `MCSession`, `SessionProofs` | the sessions of the authentication service; theorems |
| `Meeting` | a meeting of the video conferencing service: link, tokens, schedule, end |
| `Attendance` | its list of attendees under the provider's webhooks |
| `Roster` | what that list promises: the abstract specification `Attendance` implements |
| `Cache`, `MCCache` | the cache mixin |
| `Calendar` | calendars of the scheduler service, their working hours and subscriptions |
| `Schedule` | an event of the scheduler service, its attendees, and the free-busy answer |
| `Search` | the search box and the recent searches the search service keeps |
| `QueryBuilder`, `MCQueryBuilder`, `QueryBuilderProofs` | the where clause of a search, the filters it is checked with; theorems |
| `Toggles` | feature toggles and the check of a request |
| `SchedulerProofs` | theorems about `Schedule` and `Calendar` |
| `ServicesProofs` | theorems about `Workers`, `Cache`, `Meeting`, `Toggles`, `Attendance`, `Search` and `Tour`, and about `MCServices` |
| `MCServices` | the run of all components that share no state |

### InMail

`count`, `message`, `rows` and `files` are the tables; `pc`, `call`, `work`,
`workFiles` and `seenCount` are the locals of the handlers in flight. Requests
are numbered in the order they start and run once, so a request's number also
names the thread and the message it creates. `Start` is a request arriving at
its handler (one disjunct per endpoint, its guard the conditions under which
the handler goes on); each further action is the next awaited statement of a
handler: `ComposeCount`, `ComposeMessage`, `ComposeRows` for `composeMail`,
`UpdateFiles` to `UpdateCommit` for `updateDraft` (whose patches take their
locks one after the other), `SendRows`, `SendStatus` and
the writes of `sendDraft`, `ReplyMessage` to `ReplyCommit`, and so on.
Transactions are modelled where the code has them: their rows appear at the
commit, and an UPDATE waits for the transaction that has changed the row
(`Locked`, `LockedFile`). `Fail` is a statement that fails, or the server
stopping, at any statement; `Leak` is `updateDraft`, which does not roll its
transaction back when a statement of it fails.

What is abstracted: subject, body and external ids are left out; a meta row
lives and dies as an attachment row, so only attachments are kept; cc and bcc
are handled as `to` is, and importance as visibility. `markMail` names
messages (the variant that names threads is left out). In `replyMail` the
commit of message and attachments and the SELECT of the parties are one step.
Clients name only messages and threads they have seen, and a call that the
handler refuses before it changes anything is a call that was not made.

Five handlers (`trashBulk`, `restore`, `sendDraft`, `addAttachment`,
`removeAttachment`) and `fetchById` assign the `filter` of the query over the
where clause they look rows up with (`Object.assign`, as in
originator.controller.ts:558-562). A filter that names a column the clause has
replaces its condition; any other column narrows the clause. `FilterColumns`
is the set of columns the clients of an instance name, `Overridden` those the
clause then leaves free: what `trashBulk` and `restore` find (`Filed`) is some
of the rows that match the rest, `sendDraft` may find a mail that is no draft,
or another one than the path names, and `fetchById` another one or none
(`missed`: the update that follows then names no message, and marks every row
of the user). What is not a matter of the where clause stays as in the code:
`trashBulk` compares the storage in the path with the action (568-590), and
`addAttachment` and `removeAttachment` look at the status of the message after
it has been found (459, 513), so that a filter for the status does not get
past them; only `removeAttachment` can be led past the check, by a filter for
the `id` of another draft, because it patches the message in the path.

`Mailbox` has one variable, the copies each party holds, and one action: a
request files some copies and creates others, along the moves a party may
expect. Where clients name the storage in a filter (`Choosy`) a copy can be
trashed, deleted and restored from any storage; that it is gone for good when
deleted, and comes back only to where its party has it, holds even so.
`InMail` implements `Mailbox` under the mapping `Held`.

### Workflow and Workers

`workflow` and `versions` are the tables, `engine` the definitions the engine
has and `deployed` how many it has numbered per process key; `def` and
`listed` are what the handlers have deployed, found or read. The engine is
external (the repository talks to it through a provider that the application
binds): it numbers the definitions of a process key 1, 2, 3, ..., never uses
a number twice, and refuses to delete what it does not have. A deletion of
several definitions, which the provider of the example issues side by side, is
one step. A client may ask for any version number to be deleted, listed or not:
`deleteVersionById` compares it with the row and looks for the version only
after that; `seen` records whether it was there when the request came.
Diagrams and schemas are left out, and so is what `startWorkflow` validates
and passes on.

`Workers` is the other half of `startWorkflow`. `bound` is the map that
`WORKER_MAP` is bound to (until somebody sets it, every get makes a new one),
`got` the map a registration works on; `InitWorkers` subscribes the workers of
a workflow that are not `running`, at a client of the execution's own, and
`PollError` unsubscribes all of a client's.

### Tour

Steps are numbered in the order of the tour, and their routes are those the
README of the library asks for. A button's handler is a *move*: direction,
step, and the step `first` at which its tour was resumed; the closures of the
code capture exactly that. `listeners` counts the subscriptions to the
router, which nothing ends, and `waiting` the timers of `waitForElement`, each
per move. `NavigationEnd` announces a page to every listener; `FoundElement`
and `TimedOut` end a wait; `Reload` forgets everything but the saved state.
The library distinguishes the steps the resumed tour started with from those
it removed and added again; `TargetStep`, `Url` and `Expected` are what the
six navigation methods make of that distinction. `reached` is not in the code:
it records how far the user has seen, for `NoStepSkipped`.

The store is the default one, localStorage, which saves at once; Shepherd and
the router are external. `filterFn`, `advanceOn`, custom buttons and custom
store commands are not modelled, and the application runs the tour again only
after a reload or after the start has failed.

### Payment and Subscription

`order` and `tx` are the tables, `charges` and `refunded` what the gateway has
done, `row` the transaction a handler has read and will write back whole.
`PlaceOrder`, `Pay`, `ChargeOrder` and `Refund` are the endpoints; `PayFind`
to `PayInsert`, `ChargeFind` to `ChargeStatus` and `RefundGateway` to
`RefundTransaction` are the awaited calls of `StripeProvider`. None of them
looks at the state of the order or of the transaction, so neither do their
guards. An order is placed with the status its client gives it
(transactions.controller.ts:238): `open` stands for any text but the one the
service itself writes. Which of an order's transactions comes first is left to
the database. The gateway is external: it charges whatever it is asked to, and
refunds a charge it has made, once. `Fail` is a declined charge, a failing
statement or the server stopping: nothing is undone.

`Subscription` has the tables subscriptions and transactions (`payment`) and
both gateways, chosen at the start. `PageFind` to `PageInsert` are
`subscriptionCreate`, `ChargeCard` and `ChargePage` to `ChargeSubscription`
the charges of Stripe and of Razorpay, `WebHook` and `HookWrite` the hook,
which reads a row and writes it back whole. The gateway (`ownerOf`, `said`,
`hooks`) makes subscriptions of its own, and sends a hook for each report
until it is answered without an error.

Amounts, currencies, plans and pages are left out, and so are orders with
Razorpay, whose `charge` tests `order[0].totalamount`, a name the model does
not have, and therefore never does anything (razorpay.provider.ts:246), and
the CRUD endpoints by which the application can write any row.

### Session

`store` and `until` are the refresh tokens in Redis, `revoked` the revoked
ones; `password`, `login` (lastLogin) and `firstTime` are columns of the
database. Requests are numbered, and a request's number names the code, the
link or the session it makes (`made`). An access token is the record of what a
JWT is signed from: two that agree are one token, which is what
`RefreshGivesNewToken` turns on. `Touch`, `Find`, `Store`, `Revoke`, `Delete`,
`Check` and `Patch` are the awaited calls; `Fail` is Redis, the database or the
service failing at any of them. A `steady` user waits for each answer, has one
device and meets no failures; the others do what they like.

Tokens of different users, clients or devices differ in their payload, so
the users of a run are enough and each has one client and one device. OTP,
sign-up and the external identity providers end in the same calls and are
left out, and so is passwordExpiryTime. `resetPassword` activates a user
`if (status && status < UserStatus.ACTIVE)` (login.controller.ts:415), which
is never true for REGISTERED, which is 0; nothing in the model depends on it.

### Meeting, Attendance and Roster

A request about a meeting reads it and decides with the clock of that moment
(`FindForToken`, `FindForEdit`, `FindForEnd`), and writes one column in a
second step (`UpdateMeeting`). `serial` meetings get one request after the
other. `planned` records the schedule last asked for.

`Attendance` has the provider's events as `hook`s that are handled in any
order, each by a find and a write: `FindAttendee` and then `CreateAttendee`,
`UpdateAttendee` or `IgnoreAttendee`. `joined` and `closing` are the provider's
connections; `orderly` hooks are handled before the next event. `Roster` has
one variable, who is present; `Attendance` implements it under orderly hooks,
with `Active` (`getAttendeesList`) for `present`.

### Cache

The database is the number of its last write; what is cached is the query and
the number it found. `SearchInCache`, `FindInDatabase` and `SaveInCache` are
the steps of a read, the last of them not awaited and therefore late or lost.
`Held` is Redis' expiry. `settled` records what the last save or clear left in
a key while no other save was on its way. `KeyOf` is what bcrypt makes of id
and filter: the first 72 bytes. The run `services` has one query, the run
`cache_key` four that share keys.

### Calendar and Schedule

`Calendar` takes PUT /calendars/{id} call by call: validate, find the hours to
delete, delete them one by one, replace, create (`FindToDelete`, `DeleteHour`,
`ReplaceHour`, `CreateHour`, `UpdateCalendar`), and the creation of a calendar
with its owner's subscription. What is asked for names each day once, which is
all that is validated: the ids may be of another calendar's working hours, or
one that of two days. An id of no working hour makes the request fail after it
has deleted hours, as any may (`EditFails`), so that no list has one
(`Listable`). `alone` records which requests nothing has overlapped.

`Schedule` has one event (events share nothing) and its attendees: rows that
are removed softly stay in the table. Deleting takes three calls, softly or
for good; the database refuses an attendee without its event and keeps an
event that has attendees. A client creates and updates the event with any
status; `completed` is not told from `tentative` by anything, and is left out.
`BusyDetails` is the free-busy answer over the view, as an operator of the
state, the event's time and the window: of events that are not cancelled, which
`confirmed` need not be. A window may be empty but not end before it starts;
the property is about events that last an hour or more (`Spans`).

### Search

`box`, `category`, `typed` (what the debounce holds back), `suggestions`,
`searching` and `recents` are the fields of `SearchComponent`; `owners` and
`queries` the tables. What a user does is an action each (`Key`, `Enter`,
`SetCategory`, `Populate`, ...), and each request it sends goes through the
awaited statements of `RecentSearchRepository.create` (`FindOwner` to
`CreateQuery`) or of the list. A `patient` user acts only when nothing is held
back or under way. A suggestion stands for the text and category it answers.
Writing the box by a form is left out.

### QueryBuilder

A pure algorithm: `Build` takes the filters of all models searched to one list
of statements with numbered placeholders and one list of values, in the order
in which the code takes numbers and collects values, and `Selects` is what
PostgreSQL makes of it. `Means` says what a filter means, on its own and
without numbers. A filter is a sequence of conditions; `Where(d)` is the set of
those whose clauses nest `d` deep at most. The recursion of the code, over a
list (`Chain`) and from a clause to the clauses in it (`HandleKeys`), is that of
functions, of the length of the list and of the depth. `BuilderSpec` asks for
every filter of `MCQueryBuilder` once. Text search, selected columns, order,
limit, MySQL's placeholders and the cast of ids are left out.

### Toggles

The tables are `features` (does a row have the key that is checked, or
another?) and `toggles`. Every endpoint is one statement; `FindFeature`,
`FindToggle` are the reads of a check, one level after the other. `wasOn` and
`wasOff` record which levels were on or off at some moment of the check, and
`undisturbed` whether no feature of the key has gone. A missing id drops out
of the where clause, as LoopBack's filters have it (`ToggleFound`). The table
of strategies and `defaultValue` are read by nothing, and left out.

### MCServices

The components without a run of their own share no state, so they are checked
in one run, `services`: `component` is chosen at the start, the steps are
those of the one chosen, and the others stay in one initial state. Its states
are therefore the sum of those of the components, and an invariant that speaks
of one of them is checked in all its states. States are told apart by the
variables of the component that runs (`VIEW Running`): what it is determines the
values of all others. `TypesOK` is the type invariant of the one that runs.

## 3. Runs

| run | instance | shows |
|---|---|---|
| `drafts` | two users, 4 requests, 2 in flight, faults, filters for party, message and status; 1.67 million states | `TypeOK`, `ThreadAgreement`, `StorageFitsType`, `DraftIsPrivate`: tables agree and drafts stay with their author, whatever interleaves or fails |
| `author` | two users who wait for each answer, 4 requests, faults, filters for the status; 1.33 million | `OneAuthorRow`, `SendDelivers`, `AttachmentsFrozen`: what an answered send has done, and what cannot change afterwards |
| `mailbox` | two users who wait for each answer, 4 requests, 2 in flight, no faults, filters for message and storage; 1.1 million | `MailboxSpec` (refinement), `AtMostOnce`, `ReadStaysRead` |
| `threads` | two users, 4 requests, 2 in flight, fair, filters for any column; 118 thousand | `CountNeverOverstates`, and `EveryRequestEnds` (liveness) under row locks |
| `update` | 2 requests | finding: `UpdateSends` is violated |
| `answer` | 4 requests, one after the other | finding: `ReplyArrivesOnce` is violated |
| `workflow_latest` | one key, 3 requests, 2 in flight, no faults | finding: `LatestKept` is violated |
| `tour_next` | three steps on three pages, 4 acts | finding: `NextOpensNextPage` is violated |
| `session_tokens` | one user, steady or not, 2 passwords, 4 requests, 2 in flight, two ticks of the clock, failures | `TypeOK`, `EndedTokenRevoked`, `OneSuccessor`, `HeldTokenWorks`, `LinkSetsOnce`, `LinkUsedUpByPatch`: what refresh tokens, access tokens and reset links promise |
| `session_refresh` | the same | finding: `RefreshGivesNewToken` is violated |
| `cache_key` | two readers, four queries | finding: `AnswersItsQuery` is violated |
| `services` | thirteen components, one in each behaviour; 0.94 million in all | the properties of the next table |

The run `services` is the sum of these:

| component | instance | states | properties |
|---|---|---|---|
| `Payment` | 5 requests, 2 in flight, failures | 83,259 | `PaidOrderOnTheBooks`, `BooksMatchGateway` |
| `Subscription` | either gateway; 4 calls, 2 at once, 2 reports, failures | 42,864 | `SubscriptionOnTheBooks`, `StatusFollowsHooks` |
| `Tour` | 4 steps over two pages and back, 6 acts of the user | 10,938 | `ScreenMatchesStore`, `NoStepSkipped` |
| `Workflow` | 2 process keys, 4 requests, 2 in flight, failures | 219,427 | `RowRuns`, `VersionsRun` |
| `Workers` | 3 workers of 2 names, 3 executions | 6,056 | `RunsOnce` |
| `Meeting` | 4 requests, 2 in flight, 3 minutes | 102,748 | `EndIsFinal`, `ScheduleKept` |
| `Attendance` | either provider; 2 attendees, 4 hooks, 2 connections | 87,662 | `ListIsConnected`, `ListKeepsRoster` (refinement of `Roster`) |
| `Cache` | 2 readers, 1 query, 2 writes, time to 3 | 12,620 | `StaleIsBounded`, `SettledStays` |
| `Calendar` | 2 days, 2 working hours, 3 requests, 2 at once, failures | 208,781 | `PutAloneTakesEffect` |
| `Schedule` | 2 persons, 3 hours, 3 requests, 2 at once, failures | 81,915 | `DeletedTakesAttendees`, `BusyWhenEngaged` |
| `Search` | 3 texts, 2 categories, 3 requests (2 of a user who does not wait), 2 recent searches | 48,426 | `ServesPatient` |
| `Toggles` | 2 features, 2 toggles, 3 writes, one check | 37,132 | `ChecksEveryLevel` |
| `QueryBuilder` | 2 columns, 3 values, 2,745 filters, at most 3 deep | 2,747 | `FindsWhatIsAsked` |

`TypesOK` is the type invariant of the component that runs.

### Bounds

The bounds are the constants whose names begin with `Max`, and the sets of
users, keys, pages, texts and so on. Each run of the in-mail service gets the
calls its properties are about (`MCInMail`), so that its few requests are
spent on them: four are enough to create a draft, edit it and send it while a
fourth interferes, or for a mail to be sent, thrown away, and restored or
deleted while it is answered. Two in flight make every pair of handlers
interleave at every statement. Three searches are one more than the recent
ones a user keeps. Five requests place an order, open its page, charge it
twice and refund it. Six acts walk two pages forward, reload, and walk back
through the removed steps. Four requests of a session log in, exchange the
code and refresh twice, or ask for a reset link and use it twice; two ticks
are enough for every lifetime to pass. Four calls subscribe, open the page,
charge and take a hook, and two reports are one more than a gateway needs for
its hooks to disagree. Two readers and two writes give a save that is
overtaken by a write, a clear and another save. Three requests are a PUT that
fails, its repetition, and one in between; an invitation during a deletion,
and an answer to it. The filters are every kind of condition on a column,
pairs of them, and those of two models the first of which has nested clauses:
every way by which numbered placeholders and values are brought together. The
properties proved in section 5 do not depend on the bounds at all.
`PROJECT.json` pairs every property of a passing run with a mutation of the
code it must detect.

Deadlock is checked in the runs of `InMail` and `Workflow`, where a step of
its own (`Rest`) stands for idling when no request is in flight, so that a
deadlock is a request in flight that cannot go on. It is not checked in the
others, which may stop: a user or a client who does nothing more, or a clock
that has reached its bound, leaves nothing to happen.

### What the properties do not say

In-mail service:

- `OneAuthorRow`, `SendDelivers` and `AttachmentsFrozen` hold for authors that
  wait for the answer of each request (`SerialUsers`). Without it two
  `updateDraft` of the same message in flight leave two author rows, and an
  attachment can be added after the check and the send.
- A filter that a client sends with a request can replace the conditions
  under which the handler looks its rows up, and some promises end there.
  Named in a filter, `storage` lets `trashBulk` and `restore` file drafts
  away (`DraftIsPrivate`, though not `StorageFitsType`), `status` lets
  `sendDraft` deliver a sent mail again (`AtMostOnce`, though not
  `SendDelivers`), `id` lets it write the rows of one mail for another, and
  `removeAttachment` pass the check with another draft
  (`AttachmentsFrozen`), `party` lets the rows of others be filed. Each run
  names the columns under which its properties hold. Naming the others in
  the instances of `drafts` and `author` gives the violations of
  `DraftIsPrivate`, `AtMostOnce` and `AttachmentsFrozen`; `TypeOK`,
  `ThreadAgreement` and `StorageFitsType` hold with all five.
- `MailboxSpec` is checked without faults. With them, a `sendDraft` whose
  first row write fails has answered while another is still under way; the
  late write puts back a copy the author has deleted since.
- `CountNeverOverstates` is one-sided: `incrementOrCreate` reads and writes in
  two statements, and two mails at once count as one.

Workflows and tours:

- `RowRuns` speaks of workflows all of whose diagrams have one process key
  (`OneKey`) and that nobody has asked to delete. An update with another key
  restarts the numbers, and then five requests suffice for a row that names a
  definition the engine no longer has: a deletion of the old version 1 has
  passed its check when the update makes 1 the number of the row. Nor does it
  speak of a version that a client asked to delete before it was listed
  (`Foreseen`): that request passes the check as well, and finds the version
  if an update lists it before the handler looks for it, which is the finding
  `workflow_latest`. For versions deleted after they were listed it holds,
  whatever interleaves.
- `VersionsRun` exempts versions whose deletion is under way or was cut short:
  the engine is emptied first. Definitions that are left over in the engine
  are not listed anywhere, and no property speaks of them.
- `RunsOnce` does not say that a registered worker runs. Two registrations
  that overlap before the map is bound work on a map each, and one is lost; a
  worker that a failed poll has unsubscribed is subscribed again only when
  somebody next starts a workflow of its name.
- `ScreenMatchesStore` and `NoStepSkipped` hold although old router listeners
  wake up at later navigations; but these do move the tour on their own, race
  with each other in a tour that returns to a page, and reopen a completed
  tour when the user comes back to the page of one of its steps.

Payments:

- An order that its client has placed with the status `paid` is paid without a
  charge; `PaidOrderOnTheBooks` is about orders that the service has marked.
- `PaidOrderOnTheBooks` and `BooksMatchGateway` speak of the charges that are
  on the books. A charge can be missing from them: nothing stops a customer
  from submitting the form twice, the gateway charges twice, and the second
  record overwrites the first; a refund that finishes after a second charge
  overwrites it too; and a charge whose record fails, or for which no
  transaction exists because nobody opened the payment page, is never
  recorded. Nor does a refund reopen an order: it stays paid.
- `StatusFollowsHooks` is about Stripe's hooks one at a time. Hooks that
  overlap or are repeated put an old status back, and a hook that writes back
  the row it has read makes it forget a charge made meanwhile. A Razorpay row
  names the subscription of whichever page was opened last, paid or not, and a
  late or repeated charge form sets an ended subscription active again.

Sessions:

- Two exchanges of one refresh token in flight both give a new pair, and an
  exchange in flight while the password is changed survives the change:
  `OneSuccessor` is about users with one request at a time.
- `EndedTokenRevoked` says that the token is in the store of revoked tokens.
  The verifier core has for services never looks there, and the one it has for
  facades lets a token pass when the store does not answer.
- `keycloakLogout` calls the identity provider and does not wait for it.

Meetings and calendars:

- `EndIsFinal` and `ScheduleKept` are about requests one after the other. A
  token request in flight lets somebody into a meeting that ends meanwhile,
  and two first participants overwrite each other's startTime. A meeting that
  was made unscheduled and scheduled later can start at any time: `editMeeting`
  never writes isScheduled.
- `ListIsConnected` and `ListKeepsRoster` are about hooks handled before the
  next event. Out of order they leave somebody on the list who has gone, or
  off it who is there. Twilio's hook of a recording looks the meeting up by
  the sid of the room, which is not its link, and fails, though the README
  says that hooks store archive information.
- `PutAloneTakesEffect` is about requests that nothing overlaps, and that name
  no working hour for two days (`OneDayEach`): the ids are not validated, the
  second day overwrites the first, and the calendar is left one day short. Two
  first calendars in flight are both made primary.
- `DeletedTakesAttendees` does not count somebody invited while the event is
  being deleted; a hard delete fails on that row after the others are gone.
- `BusyWhenEngaged` does not say that attendees who were removed are free:
  the view that is queried does not look at `attendees.deleted`, so they
  stay busy until the event is cancelled or deleted. The organizer is busy
  only while there are no attendees: an event loses its organizer with the
  first invitation, and a hard delete that stops half-way makes the
  organizer busy again. Tentative events count, and tentative is the default
  of the table (migration 20200630114107). That participants are free is not
  checked when an event is made, though the description of the endpoint says
  so (event.controller.ts:63).

Cache, search and toggles:

- `StaleIsBounded` counts a save that is late: it is as old as the delay.
- `ServesPatient` is about a user who waits. Otherwise an overtaken answer is
  shown over a newer one, a search held back by the debounce goes out after a
  suggestion was picked or the box erased, and saves that overlap save a text
  twice, make two rows of the user, or delete what was saved meanwhile.
  `saveInRecentsOnlyOnEnter` has no effect unless saveInRecents is given too;
  the list of a user who has none yet is nothing at all, on which the template
  fails; and one row more than `recentCount` is kept.
- `FindsWhatIsAsked` is about filters whose meaning the code tries to express.
  It exempts dates compared by value, each of which takes a number of a
  statement object among the values (query.builder.ts:294, 432), and `neq:
  null`, which becomes `!= NULL` (484). Bounds given in the other order are
  swapped, empty lists and clauses are dropped, only the first operator of a
  condition is used, and `eq`, which the types allow, is refused.
- `ChecksEveryLevel` is about requests of a user, and of features that stay. A
  check decides on a mixture of moments; an id that is missing drops out of
  the where clause, so that anybody's toggle decides; toggles of a deleted
  feature stay, and keys are not unique. `defaultValue` is never read.

## 4. Fairness

Only `threads` checks liveness. `FairSpec` adds weak fairness of `Continue(r)`
for every request `r`: the database answers every statement, so the event loop
resumes every handler whose statement can complete; a statement that waits
for a lock is not enabled until the lock is released. There are no faults in
that run: with them a transaction that `updateDraft` has left open keeps its
locks, and requests do wait for ever. The other components take no locks, and
each of their handlers ends after a fixed number of statements whatever the
others do; that it does so says nothing that their deadlock-free step
relations do not show.

## 5. Proofs

The proofs assume of the constants only what the modules state as named
assumptions: bounds are natural numbers, calls and audiences are of the
services' kinds, filters name columns of the where clauses, the route of each
step is a page, lifetimes are natural numbers, columns are strings but neither
`and` nor `or`, their values integers, and what stands for nothing
(`NoPassword`, `NoQuery`, `Undefined`, `Null`) is not something. The number of
users, keys, pages, steps, workers, readers, persons, columns, requests and
requests in flight is arbitrary, and so is the depth to which filters nest.

| theorem | establishes | argument |
|---|---|---|
| `InMailProofs!TypeCorrect` | `[]TypeOK` | invariant `TypeOK /\ ControlOK`; the latter ties each statement label to the operation and the message or thread it works on |
| `InMailProofs!ThreadsAgree` | `[]ThreadAgreement` | `RowsOK`: the same of the rows in the table and of the rows handlers hold and will write back later, without which the property is not inductive |
| `InMailProofs!StorageAgrees` | `[]StorageFitsType` | the same invariant |
| `InMailProofs!CountsNeverOverstate` | `[]CountNeverOverstates` | `CountsOK`: no count *and no count a handler has read and will write plus one* exceeds the requests that have put a message into the thread; that set only grows |
| `InMailProofs!HandlersAdvance` | every `Continue` step leads its handler nearer to its end, nobody else's step leads away from it | `FiniteOK`: finitely many rows to write; the measure is `StatementsLeft`, then the rows left of those written side by side |
| `InMailProofs!NobodyWaitsInVain` | without faults, while a handler is busy some busy handler is `Unblocked` | `FiniteOK`: a handler that writes has rows left, and only a fault leaves a transaction open; who holds locks asks for no more |
| `InMailDraftProofs!DraftsStayPrivate` | `[]DraftIsPrivate` | under `PrivateCalls`; `DraftsOK`: rows in the table and in hand, except those `sendDraft` writes once it has changed the status |
| `InMailDraftProofs!AuthorKeepsOneRow`, `SendReachesTheMarked`, `AttachmentsStayFrozen` | `[]OneAuthorRow`, `[]SendDelivers`, `AttachmentsFrozen` | under `SerialCalls`; see below |
| `InMailDraftProofs!ImplementsMailbox`, `ReadMailsStayRead` | `MailboxSpec`, `ReadStaysRead` | under `ReliableCalls`; see below |
| `InMailDraftProofs!MailsArriveOnce` | `[]AtMostOnce` | under `PlainCalls`; see below |
| `WorkflowProofs!WorkflowTypes` | `[]WorkflowTypeOK` | control facts as above |
| `WorkflowProofs!RowsRun` | `[]RowRuns` | see below |
| `WorkflowProofs!ListedVersionsRun` | `[]VersionsRun` | see below |
| `ServicesProofs!TourTypes`, `ScreenMatches`, `NoSkip` | `[]TourTypeOK`, `[]ScreenMatchesStore`, `NoStepSkipped` | every source a step can come from - the store, the start, a handler that listens or waits - names a step the user has seen |
| `PaymentProofs!PaymentTypes`, `PaidOnTheBooks`, `BooksMatch` | `[]TypeOK`, `[]PaidOrderOnTheBooks`, `[]BooksMatchGateway` | `PaymentInv`: every row in the table *and every copy a handler will write back* tells the truth about its charge (`TrueRow`), and a charge stands in the one transaction its request works on, so that recording a refund leaves no other row behind; `PaidOrders`: of an order marked paid that was not placed so |
| `PaymentProofs!SubscriptionTypes`, `SubscriptionsAreOnTheBooks` | `[]SubscriptionTypeOK`, `[]SubscriptionOnTheBooks` | `BooksInv`: what a subscription's row *or a copy a hook will write back* names, the gateway has made for it and, with Stripe, has a paid transaction (`Names`); each call works on rows that are there (`DealOK`) |
| `PaymentProofs!HooksAreFollowed` | `[]StatusFollowsHooks` | `FollowInv` adds that a row, *or a charge on its way to one*, has what was last said of it or a hook still to come, and that the call handling the one hook has not lost it |
| `SessionProofs!TypeCorrect`, `EndedIsRevoked`, `OneSucceeds`, `LinkOnce`, `LinkUsedUp` | `[]TypeOK`, `[]EndedTokenRevoked`, `[]OneSuccessor`, `[]LinkSetsOnce`, `[]LinkUsedUpByPatch` | see below |
| `SessionProofs!HeldTokensWork` | `[]HeldTokenWorks` | assumes `AccessTTL > 0`; see below |
| `ServicesProofs!WorkersTypes`, `WorkersRunOnce` | `[]WorkersTypeOK`, `[]RunsOnce` | `ListeningOK`: the same without cardinalities; a client not made yet listens to nobody |
| `ServicesProofs!CacheTypes`, `CacheIsFresh`, `SettledForGood` | `[]CacheTypeOK`, `[]StaleIsBounded`, `[]SettledStays` | `FoundOK`, of what reads have found and will save: it misses only writes made since, is saved within the delay, and is not older than what has settled in its key; `EntriesOK`, of what is in the cache, expired or not |
| `ServicesProofs!MeetingTypes`, `MeetingEnds`, `MeetingOnTime` | `[]MeetingTypeOK`, `EndIsFinal`, `ScheduleKept` | `DecidedOK`: in a serial meeting only one request is in flight, and what it has decided is still right when it writes |
| `ServicesProofs!TogglesTypes`, `ChecksAreHonest` | `[]TogglesTypeOK`, `[]ChecksEveryLevel` | `SeenOK`: `wasOn` and `wasOff` include what is on and off now; `CheckOK`: every level listed was on or is still to be read; for the types, that an id is free while there is room for a toggle (`FreeToggle`) |
| `ServicesProofs!AttendanceTypes`, `AttendanceIsConnected`, `AttendanceKeepsRoster`, `AttendanceImplementsRoster` | `[]AttendanceTypeOK`, `[]ListIsConnected`, `ListKeepsRoster`, `orderly` implies `Roster` | `OneHookOK`: an orderly hook that is being handled is of the last event, and what its handler has found is still so; `ListOK`: all others are on the list just when connected, with one row each |
| `ServicesProofs!SearchTypes`, `SearchServesPatient` | `[]SearchTypeOK`, `[]ServesPatient` | see below |
| `SchedulerProofs!ScheduleTypes`, `DeletionTakesAttendees`, `BusyJustWhenEngaged` | `[]ScheduleTypeOK`, `[]DeletedTakesAttendees`, `BusyWhenEngaged` | `DeletingOK`: before the event goes, whom the request met has gone; `RowsOnce`: nobody is met before being invited, and nobody is invited twice by a request. For who is busy: cutting an event to a window keeps just its hours there (`HoursCut`), and a row of somebody in the view is added by an invitation alone (`FoundByInvitation`), each action apart |
| `SchedulerProofs!CalendarTypes`, `CalendarPutTakesEffect` | `[]CalendarTypeOK`, `PutAloneTakesEffect` | `AlonePutOK`: of a PUT that no other request has overlapped, at every statement: what it has written is there, and each live hour it does not name is one it has still to delete or has created itself, one for each of its days; whatever earlier requests have left is among the former |
| `QueryBuilderProofs!BuilderTypes`, `FilterMeansWhatIsAsked` | `[]BuilderTypeOK`, `[]FindsWhatIsAsked` | see below |
| `ServicesProofs!ServicesTypes`, `ServicesKeepPromises` | `[]TypesOK`; all the run `services` checks | a step of one component leaves the variables of the others alone, so a behaviour of the run is one of every component (`EachRuns`), and what is proved of each holds |

`RowRuns` is about a row and the engine, but the engine loses a definition
only to a handler that looked it up several steps earlier. The inductive
invariant of `WorkflowProofs` therefore follows definitions from where they
are made to where they are deleted: `Numbered` (no two requests deploy the
same definition, and the engine numbers on), `Origins` (whatever a table or a
handler names, a request has deployed for that workflow and written),
`Guarded` (the check of `deleteVersionById` still holds when it reaches the
engine, if the version was listed when the request came and the workflow has
one key: what an update has still to write to the row, no version row lists
yet), `Pending` (a definition on its way to the tables is in the engine) and
`Backed` (`VersionsRun`, with a tighter account of the deletions). `RowRuns`
then follows step by step.

The session properties are proved from one invariant, `IInv`: `ControlOK` (at
each awaited call, which tokens the request has read and what it has made),
`RevokedOK` (a request that is about to delete a refresh token has revoked the
access token it found with it, and a link is revoked only after a patch),
`AloneOK` (the requests of a steady user do not overlap), `LinksOK` (a steady
user's link is not revoked while a reset goes on with it, and is once the
reset has set the password and moved on) and `SessionsOK` (a refresh token is
in the store while a steady user's request works on it and gone after, so that
no two requests get past it). `EndedTokenRevoked` and `LinkSetsOnce` are parts
of it; `OneSuccessor` and `LinkUsedUpByPatch` follow. `HeldTokenWorks` needs
more, `HeldInv`: that no two sessions of a user have the same access token.
Tokens are equal when their payload, the second and the user's `lastLogin` as
it was read, is; so it follows each session from the login or refresh that
makes it (`LogsIn`, `Refreshes`) and orders those there are (`PastOK`). It
needs `AccessTTL > 0`: where a token expires in the second it is signed, a
refresh in that second gives back the token it has revoked (`session_refresh`
finds the same of users who refresh before it has expired, as steady ones do
not).

The theorems of `InMailDraftProofs` restrict the clients, each for a reason in
the code. Every restriction but those on filters is met by the run that checks
the same property; the runs `author` and `mailbox` have clients whose filters
name the status, or the storage, and so go further than the theorems there.
None restricts the users, the audiences, the number of requests or how
requests of different users interleave. The theorems of `InMailProofs` hold of
clients whose filters name any column.

- `PrivateCalls`: no client sends by `updateDraft` (finding `update`), or
  answers or forwards as a draft. These calls do hand a draft to others. No
  filter names `storage`, which files drafts away, or `id`, which has
  `sendDraft` collect the rows of another message; `party`, `messageId` and
  `status` are free.
- `SerialCalls`: besides, each user waits for one answer before the next
  request (`SerialUsers`), and filters override at most `messageId`: filing
  other parties' rows is writing behind the back of users who wait. Two
  requests of one author in flight can both copy the author's row, or add an
  attachment after the send. Faults are allowed. The invariant `SerialInv`
  has four parts: rows are of the message their maker works on, and a
  draft's are its author's (`SerialOK`); what a handler holds is of its
  message and in the table, unless `sendDraft` is to create it (`AllHold`);
  the author's row is one, and `updateDraft` is about to delete it before it
  adds another (`CopiesOK`); and, once `sendDraft` has changed the status,
  the rows it has written and those it has still to write are together for
  just the parties marked (`SendsOK`).
- `ReliableCalls`: besides, no statement fails. After a failed write
  `sendDraft` has answered while its other writes go on, behind the back of
  the user's next request. Without that, `OwnsOK`: whatever row a handler will
  write back is, but for the folder it changes, the one in the table. So each
  write of `InMail` is a step of `Mailbox`, and none makes an opened mail new.
- `PlainCalls`: as `SerialCalls`, faults included, but nobody writes to
  himself and `updateDraft` is not called. `replyMail` collects rows without
  regard to `deleted`; `updateDraft` leaves a deleted row beside the new one,
  and a mail to oneself two rows of one party. Then an answer reaches a party
  twice, which is finding `answer`. `PlainsOK`: a party has one row of a
  message, deleted ones and those about to be written included.

`ServesPatient` is proved from `SearchInv`. Of a user who waits, `BoxOK` says
that at most the last search is under way and what the box shows before and
after its answer; `TableOK` what is in the table at each statement of the one
save there may be: outside of `old` and `save`, a list (`ListsLatest`) of the
latest saves of their texts, all of them or the `RecentCount` latest; at `old`
that list as it was found less the row of the text being saved; at `save` the
list of the other texts, with one row less. Lemmas about `Newest` and `Max`
(`NewestRows`, `ShowsLatest`, `NextOn`) then show that deleting by the list
found three statements earlier leaves no gap. The types of `Search` have an
invariant of their own: a row's place in time is bounded by the requests that
have stored one.

`FindsWhatIsAsked` compares a text whose numbers point into a list with a
filter that has neither, so it cannot be proved of the parts as it stands: the
values of one clause are somewhere in the middle of the list in the end. The
lemmas say of a part what it adds whatever the list turns out to be
(`Agrees`): a condition built with the numbers from `n` on fits its filter
when, in every list that has its values after the first `n`, all of its
placeholders have values and it holds for just the rows for which the filter
does. `PlaceholdersFit` shows so much of one comparison, dates and other
values numbered apart; `ChainFits` that parts built one after the other fit
together, since each counts on where the one before has ended (`Counted`);
`HandleKeysFit` of clauses in clauses; `BuildFits` of all models. The library's
theorems about recursive functions take operators, which the provers cannot
instantiate, so the equation of each of the three (`ConditionDefined`,
`HoldingDefined`, `HandleKeysDefined`) is proved from `Induction`: a set of
naturals that has 0 and every successor is all of them. `BuilderTypes` holds of
all filters, also those the property leaves out: whatever is asked, the builder
is defined, and its text has no empty clause.

Only model-checked: liveness (`EveryRequestEnds`), which is out of the
prover's reach. What it rests on is proved. By `HandlersAdvance` a handler takes
finitely many steps, and by `NobodyWaitsInVain` some handler can go on while any
is busy, so that with weak fairness of `Continue` all of them end; that an
`Unblocked` handler's `Continue` is enabled, TLC has confirmed on the instances
of `threads` and `drafts`. Neither follows from the shape of the model: in
`threads` handlers do wait for the locks of `updateDraft`, and with faults a
transaction that `updateDraft` leaves open keeps its locks, and the second
theorem is false.

## 6. Findings

- `update`: `updateDraft` takes a status of `send`, moves the rows, and
  leaves the message a draft, where the service's README says that it sends.
- `answer`: `replyMail` selects the parties to answer with a raw query that
  does not skip soft-deleted rows, so a reply reaches twice whoever had
  updated the draft before sending it.
- `workflow_latest`: `deleteVersionById` compares the number with the row, and
  looks for the version later. Asked for the version that an update is just
  deploying, it passes the check, finds the version that the update has listed
  meanwhile, and deletes the definition the row now names. Two updates that
  write the row in the other order than they deployed open the same way.
- `tour_next`: in a resumed tour over several pages, Next on the last of the
  removed steps opens the page of the step after the next and never moves.
- `session_refresh`: a token is told from another by its payload and the
  second it was issued in, so a refresh within the second of the login gives
  the very token that it has just revoked.
- `cache_key`: the key is a bcrypt hash of id and filter, and bcrypt reads 72
  bytes: filters that begin alike answer each other, and so do `find` and
  `findById(0)`.

## 7. Not modelled, and why

- notification-service (`create` publishes before it stores, bulk publishing
  is not awaited), chat-service and audit-service: endpoints of one statement
  each, or of two of which the second only reports.
- reporting-service: a pass-through to Metabase with one stored token. Its
  refresh writes the old modification date back, so that after 14 days every
  query logs in anew, and two first queries both do; nothing else depends on
  the token.
- ocr-service, ocr-s3-service and the archives of meetings: calls of providers
  whose answers are passed on. The Angular interface of the OCR parser keeps
  nothing but the form it shows.
- The OTP, sign-up and external login flows, the bearer verifiers and the
  sequences of core: the first end in the calls `Session` has; the others are
  pure checks, whose gaps are noted above.
- The endpoints of the scheduler and of the feature toggles that write single
  rows nothing else reads.
- cli and the changelog tool are generators; the sandbox are examples, and by
  far the largest part of the code outside the services.

## 8. Plan

What is left, in order:

1. Weaker restrictions for the proof of `MailsArriveOnce` (updates of drafts
   nobody answers).
2. `filterFn` and repeated runs of a tour in `Tour`; orders with Razorpay.
3. The Metabase token of the reporting service, and notification-service's
   access to a user's notifications.
4. OTP and sign-up in `Session`.
