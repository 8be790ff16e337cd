# TicketLens: a TLA+ verification project

TicketLens is a multi-tenant help desk. A Go backend (`src/backend`) keeps
tickets, departments and people in PostgreSQL, has a classifier predict priority
and category of every new ticket, and pushes domain events to browsers over
WebSockets. A Next.js front end (`src/frontend`) has a panel for customers (the
portal), for agents and for the owner; a Python model service (`src/backend/ml`)
predicts. This directory holds TLA+ models of the backend's concurrent core and of
the front end's state, the TLC runs that check them and TLAPS proofs about them.

Paths below are relative to `src/backend/internal`, or to `src/frontend/src` for the
web part, unless they start with `src/`.

## 1. Inventory

| Component | State it keeps | Operations | What is hard about it |
|---|---|---|---|
| Tickets, classification (`application/triage`, `infrastructure/postgres/triage`, `infrastructure/triage`) | tables `tickets`, `ai_analyses` | create, patch, assign, classify (automatic, re-run) | every use case is read, decide, write the whole row, with no transaction and no version column; the classifier call lies between read and write |
| Departments, roster | `departments`, `staff_departments` | create, update, delete, assign a member | check then write; delete is three statements; foreign keys and a unique index are the last line of defence |
| In-process bus (`shared/events/inprocess.go`) | a bounded channel, one dispatcher | publish, subscribe, close | full buffer, five second wait, handlers that publish on the bus they are run by, close against late publishers |
| Kafka bus (`infrastructure/kafka`) | offsets at the broker | publish, consume | commit after the handlers: redelivery after a crash, a second instance |
| HTTP classifier (`infrastructure/classifier`) | none | classify with retries and stub | retries under a context that may already be cancelled |
| WebSocket hub (`infrastructure/websocket`, `infrastructure/http/handler/realtime`) | clients, rooms, send channels | register, subscribe, broadcast, remove, close | three goroutines per connection, channels closed by several of them, a connection cap, tenant scoping |
| Invitations, accounts, roles (`application/iam`, `infrastructure/auth`) | `invitations`, `users`, `user_roles`, a Redis permission cache | invite, accept, revoke, assign role, log in | acceptances racing on a token, cache-aside reads against invalidation |
| Tenants (`application/tenant`) | `organizations`, `applications`, `api_keys` | create organization, workspace, app, key | provisioning in several statements, with and without a transaction |
| API management, gateway (`application/apimanagement`, `gateway`) | `endpoints`, policies, Redis counters | define, activate, retire; resolve and serve | a counter whose expiry is a second command |
| Customers and request scope (`application/triage/usecase/scope.go`) | `customers` | ensure customer, claim by email | two lookups, then a claim or an insert |
| Migrations, start and stop (`infrastructure/postgres/migrate.go`, `src/backend/cmd`) | `schema_migrations` | apply, bootstrap, shut down | crash between files; order of shutdown |
| Audit, statistics, mail, middleware, config, seed, model service | none that another part relies on | | see "Not modelled" |
| Web: session (`proxy.ts`, `app/api`, `lib/auth`, `lib/api/client.ts`, `lib/server`) | two cookies shared by all tabs, a development token, the tab's page and query memory | gate, log in, register, accept an invitation, log out, proxy a call, bounce on 401 | tabs sign in and out under each other's calls; redirects are gated again; cookies age and are dropped apart |
| Web: query cache (`lib/api/hooks.ts`, `lib/portal/hooks.ts`, `lib/admin/hooks.ts`) | the data of each query, its mark, its fetch | mount, fetch, retry, mutate, set, invalidate | answers older than a write land after it; a mutation is answered when its page is gone |
| Web: forms and dialogs | text, pending flag, error, request | type, send, close, reopen | late answers: the form is closed, typed into or open for somebody else by then |
| Web: batch of staff (`components/admin/departments/add-staff-dialog.tsx`) | selection, progress, message | place people one by one | one of several fails; a second batch runs beside the first |
| Web: filter bars | the URL, a debounced field | type, pick, clear, page, go back | the debounce and the links were built for an older URL |
| Web: owner's staff and department screens (`lib/admin`) | three answers, each with its own failure | read, retry, change the organization | parts refused or failed apart from each other, read at different moments, cut at a page |
| Web: agent's panel (`lib/staff`, `components/staff`) | the URL over fixtures | views, search, sort, page, links, bell | every badge, card and list is counted by code of its own; URLs are typed |

How they interact: HTTP handlers call use cases, use cases call repositories (one
SQL statement per call) and then `EventBus.Publish`. The bus runs two subscribers:
`TicketConsumer`, which calls `AnalyzeTicketUseCase` and so writes the same ticket
rows as the handlers and publishes again, and `EventBridge`, which calls the
WebSocket hub. Shared mutable state is the database rows, the bus channel, and the
hub's maps and send channels.

In the browser, pages call hooks, hooks call `lib/api/client.ts`, which goes through
`/api/proxy` on the Next.js server; that attaches the token cookie and calls the
backend. The cookies are the only state tabs share; the query memory, the forms and
the URL belong to one document. The front end does not use the WebSocket.

## 2. Modules

| Module | Models | Theorems |
|---|---|---|
| `Triage` | tickets, analyses, departments, roster of one organization; handlers and consumers that interleave statement by statement; either bus as far as delivery goes | `TriageProofs`, `TriageModeProofs` |
| `EventBus` | the in-process bus as requests, channel, dispatcher, triage consumer with classifier retries, shutdown | `EventBusProofs` |
| `WsHub` | the hub, the goroutines of each connection, the event bridge | `WsHubProofs` |
| `Session` | the cookies, the route gate, the routes of `/api/auth` and `/api/proxy`, the development session, one tab among others | `ClientProofs` |
| `QueryCache` | one query of React Query, the pages that mount it, every mutation of the three hook files | `ClientProofs` |
| `FreshReads` | abstract: what a client-side cache promises; `QueryCache` implements it | |
| `Forms` | ten forms and dialogs in four families, with requests that outlive them | `PageProofs` |
| `StaffBatch` | the dialog that places several people | `PageProofs` |
| `UrlFilters` | the four filter bars | `PageProofs` |
| `Workforce` | the three requests of the owner's screens and what the screens draw | `PanelProofs` |
| `Inbox` | the agent's views, sorting, pages, badges, cards and links | `PanelProofs` |
| `MCTriage`, `MCEventBus`, `MCWsHub` | constants of the TLC instances | |
| `MCWeb` | the composition of `Session` to `Inbox`: one part of the front end per behaviour, the one that `focus` names; with the constants of its instance | `WebProofs` |

`Triage` and `EventBus` look at the same use case from two sides: in `Triage` a
classification is a sequence of statements over rows that others change, in
`EventBus` it is what keeps the only dispatcher busy. The first leaves out why a
delivery fails, the second leaves out what is in the rows.

Operators named like a definition with a qualifier in front (`LateRoom`,
`UncheckedWriteRow`, ...) are faulty variants used to test the properties; no
specification uses them.

### Triage

* Every repository call is one SQL statement and one action. `proc[p]` holds the
  statement a goroutine executes next and the local copies it carries there:
  `row` is the ticket as it was read, `pred` the prediction or the latest analysis
  read, `patch` the request.
* `WriteRow` is `TicketRepo.Update`: all columns, no version check. The foreign
  key refuses a department that is gone.
* A classification is `Consume` (or `Rerun`), `Load`, `Classify`, `Store`,
  `Apply`. A patch is `StartPatch`, `ReadLatest`, `WritePatch`. A delete is
  `StartDeleteDepartment`, `ReassignTickets`, `DropDepartment`.
* Early returns before the first write are guards. Checks that a database
  constraint repeats at the write are merged with the write.
* Left out: ticket texts, all but the latest analysis, department names (same
  check, write and unique index as categories), audit entries and the events
  after `ticket.created` (best effort, nothing modelled reads them). A failure
  while the response is assembled, after the write, is `Respond`.
* `Faults` enables what may go wrong in one statement: `Abort`, a `HasAnalysis`
  query that fails and reads as "no analysis", a lost Kafka commit. `Crash` loses
  locals and, in process, the queued events. `Overlap = FALSE` runs use cases one
  after another.
* Tickets are never deleted (`TicketRepo.Delete` has no caller) and roles are
  never taken away, so `Staff` is constant. Seeded departments are those that
  exist before the behaviour starts.

### EventBus

* A request publishes one event and ends; its context is cancelled at `End`. The
  event carries that context, so `Cancelled(e)` is `phase[e.req] = "ended"`.
* `Publish` is two selects: `Put` at once, or wait and then `Put` or `GiveUp`.
  The timer may fire at any moment of the wait. On a closed channel the send
  panics: recovered in a request, fatal in the dispatcher.
* The dispatcher is `Take`, then `Pass` for most events, or `Load`, `Classify`
  with `Retry` and `Exhaust`, `Store`, `PublishCompleted`, then `Return`.
* `Stop` and `Close` are the end of `run()` in `src/backend/cmd/server/main.go`.
  `DrainTimeout` lets requests outlive the 30 seconds of `Shutdown`.
* `accepted`, `handled`, `dropped` are history variables.

### WsHub

* Every hub method holds `Hub.mu` for its body and is one step. `Register` and
  `Session.Start` follow each other in one goroutine and are one step.
* There are two client structs per connection with one send channel: the one
  `Register` made knows its rooms (`joined`), the one `Session.Start` made does
  not. `RemoveClient(c, {})` and `RemoveClient(c, joined[c])` are the two calls.
* Send channels are lengths; `got` and `lost` record what each client was sent or
  missed. The bus may deliver events in any order.
* `crashed` is a panic outside a request: the process is gone.
* `Unrouted` are the events `extractRoutes` discards: an endpoint event whose app
  is not found, and over Kafka every event, since the bridge is handed envelopes.

### Session

* `jar` is the browser's cookie jar (token and role, each with or without a
  `maxAge`), `live` whether the backend still accepts the token. `Gate` is
  `proxy.ts`: `LetsIn` its conditions in order, `GateFrom` the `?from=` it sets.
* A page load is `Load` and then `Follow` until the gate lets a page in. It empties
  the memory and drops calls and handlers; `SoftNavigate` passes the gate too and
  keeps them.
* `Ask`, `Answer` and `Unauthorized` are a call through `/api/proxy`;
  `DevLogin` and `DevExpire` are `lib/server/dev-session.ts`, where one login serves
  every call that waits.
* A sign-in or sign-out is sent, answered (`SignedIn`, `NoSession`, `Refused`,
  `SignedOut`, `SignOutFailed`), and then the page goes on (`Land`,
  `LandFromInvitation`). Cookies change with the answer, the document later.
* Other tabs, and pages left with a request under way, are `OtherSignsIn`,
  `OtherSignsOut`, `OtherAsks`: they touch the jar, the backend and the development
  session. `Expire`, `CookiesAge` and `Restart` are time and the browser. `moved`
  records how the account changed since the page load.

### QueryCache and FreshReads

* Versions stand for data. `server` rises with every write that affects the query,
  `data` is the version in the cache, `fetch` the fetch under way with the version
  at its start (`since`) and the one it read (`got`).
* `Hooks` has a record per mutation: the pages that offer it, what it affects, what
  `onSuccess` sets and marks, and what it changes without telling (`untold`); the
  last is what the code leaves to the `staleTime`.
* `AckWrite` is `onSuccess` as a whole: set, mark, refetch if mounted. `raced`
  names the situations in which an older answer can land over a newer one.
* `FreshReads` knows four things: the newest version, the version shown, the version
  at which the read under way began, and the versions in answers of writes. The
  refinement mapping is in `QueryCache` (`Register`).

### Forms, StaffBatch, UrlFilters

* `FormTable` gives each form its family (inline, held, keyed, local), whether it
  only confirms, and whether it locks its field. `sent` are its requests; `mine` is
  false once the form that sent one is gone. Texts are numbers.
* A batch is `SubmitBatch`, then `PlacePerson` and `NextPerson` in turn until
  `FinishBatch` or `FailBatch`. Closing the dialog resets its flag and not the batch.
* A filter bar pushes a URL (`going`) built over the query its closure holds
  (`url`, or `timer.base` for the debounce); `CommitPush` makes it current. `wish`
  is what all choices amount to in their order; `crossed` records that one was made
  while another was under way.

### Workforce and Inbox

* `Workforce` reads the roster, the departments and the open queue in three steps
  that changes of the organization fall between; each part is answered, refused or
  failed. The screens are operators over what came back, so that "what a screen
  says" can be compared with the organization.
* `Inbox` has the fixtures as a constant and the URL as its state. `ParseTicketQuery`,
  `ListTickets`, `CountFor`, `GetStatSummary` are the functions of `lib/staff`;
  `FollowLink` follows any link the page shows, `OpenAddress` is a typed URL. A sort
  puts each ticket at its rank, the number of tickets that come before it; the place in
  the fixtures is the last thing compared, because `Array.prototype.sort` is stable.

## 3. Runs

Passing:

| Run | Question | Distinct states |
|---|---|---|
| `triage_races` | Consumer, agents, re-runs and department administrators interleave on one ticket, with faults and a restart. Are departments never dangling, categories unique, `resolved_at` and status consistent, override flags backed by an analysis, tickets classified once? | 1.9 M |
| `triage_serial` | With use cases one after another, does an override survive, does a customer only reopen, does the prediction reach the ticket? | 87 k |
| `triage_kafka` | Over Kafka, with two consumers and a crash, is every event dealt with? | 302 k |
| `bus_queue` | Under full buffers, time-outs, cancelled requests and shutdown: order, single outcome, no request that hangs, a draining close | 80 k |
| `ws_hub` | Three clients of two organizations at a cap of two, up to two lost connections: no double close, no closed channel in the hub, cap and tenant isolation | 1.8 M |
| `ws_fanout` | With channels per topic and no lost connection, does every event reach its audience? | 107 k |
| `web` | Seven parts of the front end. In a tab among others behind the gate, do the cookies agree, does the tab stay in its panel and hold data of its own account only, do redirects end? Does a query on screen show the tab's own writes, and does the cache implement `FreshReads`? Does a late answer spare the text, is nothing sent twice unnoticed, does a batch count right? Does the URL come to what was chosen, and does the field follow it? Do the owner's screens agree with each other and with what came back, and the agent's badges, cards, pages and links with the lists? | 867 k |

Runs in which TLC refutes what the repository says of the program:

| Run | Claim | What happens |
|---|---|---|
| `bug_override_lost` | `analyze_ticket.go:134`: a re-run must never overwrite an overridden field | the decision is made on the row read before the classifier call; an override in between is lost |
| `bug_double_analysis` | `src/backend/cmd/server/main.go:469`: at-least-once delivery cannot double-analyze | `HasAnalysis` and the insert are far apart; a second instance passes the check too |
| `bug_bus_context` | `infrastructure/triage/consumer.go:66`: the attempt and any stub fallback has been exhausted | the creating request ends, its context is cancelled, and the classification stops after its first attempt |
| `bug_ws_disconnect` | `src/backend/docs/WEBSOCKET.md:5`: events are fanned out to connected clients | a client that disconnects stays in its rooms with a closed channel; the next broadcast panics and the process dies |
| `bug_department_missing` | `src/frontend/src/lib/admin/hooks.ts:39`: each failure travels with its call and the screens decide | the departments request fails alone, and `department-detail.tsx:179` says of a department that exists that there is no such department |

Met while modelling, without a run of its own:

* `Close` closes the channel the dispatcher's own handler publishes on; a
  classification under way at shutdown panics. `CloseDrains` names this as its
  only exception.
* Over Kafka the bridge discards every event (`event_bridge.go:189`), against
  `WEBSOCKET.md:5`; `Unrouted = Events` is that configuration.
* A stored analysis followed by a failing ticket update is counted as failed,
  against `consumer.go:64` ("simply stays unanalyzed").
* A customer's reopen writes back the row it read and can revert an agent's edit,
  against `update_ticket.go:27`; `CustomerOnlyReopens` holds only in
  `triage_serial`.
* The default department can be given a category, against
  `domain/triage/model/department.go:14`.
* After a re-run that agrees with the override the flag stays set, against
  `update_ticket.go:98`.
* Accepting an invitation while signed in keeps the previous account's query memory:
  `accept-invitation-form.tsx:111` refreshes and replaces the route, and its comment
  speaks of "a full navigation". `OwnAccountOnly` names this exception.
* A wrong current password is answered with a 401, and `client.ts:31` bounces every
  401 to `/login`; `change-password-card.tsx:119` never shows its message.
* A sign-out that never reaches the server leaves the cookies, and the menus of the
  owner and the customer go to `/login` all the same (`user-menu.tsx:36`).
* Redirects of a load can follow the sign-ins and sign-outs of other tabs for ever;
  `LoadsSettle` assumes that these end.
* Mutations that change what a query shows and do not announce it: update, assign
  and re-run for the workforce, a message for the ticket list, deleting a department
  for an open ticket, a reply for the portal's list. These are `untold`.
* `setQueryData` leaves a fetch under way alone, which can bring the older ticket
  back; two answers to one ticket may cross. These are `raced`.
* The debounce undoes a facet or a "Clear" picked within its 300 ms; the queue's
  search field ignores Back. These are `crossed`, and `Following`.
* The workspace's reply box and the password form clear text typed while a request is
  pending; a late answer of a keyed dialog closes the dialog open for somebody else.
  These are the exceptions of `TypedTextKept`.
* `add-staff-dialog.tsx`: after a failure the people already placed stay selected and
  are sent again, against lines 30-31; Escape lets a second batch run.
* `workloadUnavailable` (`lib/admin/hooks.ts:138`) is read by no screen, against the
  comment at line 100: without the queue everybody looks idle. With the roster
  refused, a card says "No members yet" beside a count that is not zero. A roster
  above 100 people is cut.
* `stat-grid.tsx:23` says that each card links to the view it summarises: "Resolved
  Today" counts the whole team's last 24 hours and links to the agent's own resolved
  tickets; the SLA and response cards link to all open ones.
* The bell's read marks do not reach the sidebar's count.

### Bounds, and why they are enough

* One ticket in `triage_races`: tickets interact only through departments, and
  the delete treats each ticket alike. Two handlers and a consumer give every
  pair of use cases and every third one in between; four requests let a ticket be
  created, patched, re-run and its department deleted. Three departments are the
  default one, one with a category, one to create or re-categorise. Handlers are
  interchangeable (symmetry).
* `MaxCrashes = 1`: after a crash the state is a database with idle goroutines,
  which is also an ordinary state.
* `BufferSize = 1`, three requests, two of them creating tickets: one event in
  hand, one queued, one waiting, and the dispatcher waiting behind a full buffer.
  `Attempts = 2` has a first and a last attempt.
* Three clients against a cap of two reach refusal and a place that becomes free;
  two of them share an organization and not an app, the third is a stranger.
  `Buffer = 1` makes the drop on a full channel reachable at once. `MaxDrops`
  bounds lost connections and thereby the one source of ghosts in rooms.
* `web`, the session: two accounts, one of a customer and one whose role names the panel
  does not know (the owner's panel); one of them not yet registered and invited.
  Sign-ins, page loads and calls are unbounded. A third account would only be another
  "other".
* `web`, the pages: `MaxWrites = 2` has two writes that cross, each of every mutation. `MaxTexts` and
  `MaxSends` of 3 allow a text, one typed meanwhile, and a repeated request. Two
  people and two batches overlap in every way. Terms with and without a blank make
  trimming visible. `pageSize` is 1, which cuts the roster, or 2, which does not; `MaxChanges = 1` lets the
  organization change between any two of the three answers. Pages of 2 (for 6) and
  short lists of 1 (for 5) divide five tickets into several pages, and an agent may have no
  ticket at all; addresses hold
  valid and unknown views and sorts, page 0 and a page beyond the last.
* In `web` one part runs per behaviour. They share nothing in the browser but the
  document, whose load empties all of them, so no interleaving between two of them is
  lost.

Deadlock is not checked: requests, events, connections and texts are finite in every
run, so an idle system is a normal end.

### Fairness

* `Triage`: weak fairness of each consumer. The dispatcher and the Kafka reader
  are goroutines that loop over their input; every call they make is bounded by a
  timeout. HTTP requests and faults have no fairness.
* `EventBus`: weak fairness of each request once begun (net/http runs handlers to
  the end, timers fire), of the dispatcher, and of `Close` once the server is
  stopping. A shutdown need not happen.
* `WsHub`: weak fairness of the bridge. Hub methods never block: sends are
  selects with a default. Connections have no fairness.
* `MCWeb`: weak fairness of `LoadGoesOn`, the `Follow` of `Session`: a browser goes on
  with a page load it has begun. People,
  answers and other tabs have none.

## 4. Proofs

Everything below is proved with TLAPS for all values of the constants that meet
the named assumptions (`TriageConstants`, `EventBusConstants`, `WsHubConstants`,
`SessionConstants`, `MaxWritesAssumption`, `FormsConstants`, `BatchConstants`,
`FilterConstants`, `WorkforceConstants`, `InboxConstants`). The last two say that
staff, departments and tickets are finite sets and that the organization at the start
is coherent (people and open tickets are on departments that exist, which foreign keys
ensure), and that the fixtures are lists of tickets. TLC evaluates every assumption on
the instances of the runs.

* **`TriageProofs`**. `SafetyInv` is inductive: `TypeOK`, `NoDanglingDepartment`,
  `RoutingDeterministic`, `ResolvedStampMatchesStatus`, `OverrideNeedsAnalysis`
  and `LocalsSound`. The last is the strengthening: the properties of a row
  survive a write of a stale row only because the stale copy satisfies them too,
  and because what they need of the rest of the database (there is an analysis)
  never becomes false again. `NoDanglingDepartment` needs that a department on its
  way out is not the default one. One lemma per action.
* **`TriageModeProofs`**. What holds of `Triage` in a mode, which is a hypothesis of the
  theorem.
  * Without Kafka, `AnalyzedOnce` follows from `OneCarrier`: the event of a ticket is
    with its creator, in the channel or with one consumer, and as long as it is, there
    is no automatic analysis.
  * With one use case after another (`~Overlap`; any faults and crashes), `SerialInv`:
    at most one goroutine is at work, and the row it carries is the row in the table.
    This is what the stale copies of the general case take away, and
    `HumanDecisionSurvives` and `CustomerOnlyReopens` follow from it, step by step.
  * If moreover nothing fails or crashes (`~Faults`, `MaxCrashes = 0`),
    `PredictionReachesTicket`. `ReachInv` says that the latest prediction is in the
    ticket, on its way (its classification is about to write it), or names a department
    that is about to go; and that what the goroutine at work has read and checked still
    holds. Without the two hypotheses it is false: a failure between the two statements
    of a classification leaves an analysis that no ticket shows.
* **`EventBusProofs`**. `QueueLaw` (accepted = handled, in hand, queued) with
  where the dispatcher is; `WaitingIsFull` gives `SelfPublishWaitsInVain`, since
  nobody but the waiting dispatcher takes events out; `FreshAttempts` and
  `TicketInHand` give `EarlyFailureIsCancelled`. `OneOutcome` needs three more facts
  (`OutcomeInv`): a request publishes its event at most once, so that an event in hand
  was not handled before; an outcome belongs to an event that was handled or is in hand
  at the place where its outcome is known; and when the dispatcher is about to return
  from a `ticket.created` event there is an outcome.
* **`WsHubProofs`**. `ClosedOnce` needs `ConnectedIsOpen` (a removal closes only
  the channel of a client still in the hub) and that a connection not yet
  registered is unknown to the hub. `ScopedDelivery` needs that every member of a
  room is of the room's scope, ghosts included.
* **`ClientProofs`**, session. `OwnAccountOnly` is not inductive: an answer may bring the
  data of whoever the call was made for. `OwnCallOnly` is the strengthening: in a tab
  whose account did not change, a call under way was made as that account or as
  nobody. It holds because a token appears in the jar only between an answer of
  `/api/auth` and the page load that follows, or elsewhere, and because a page load
  (`LoadIsClean`) leaves no call. `PanelMatchesRole` needs `CookiesAgree`: the gate
  decides by the role cookie, the property speaks of the account of the token.
* **`ClientProofs`**, query cache. `FetchIsFresh` (a fetch that no write overtook began
  after every answered write), `OldDataIsKnown` (data older than an answered write is
  marked, being fetched, failed or raced) and `MarkIsActedOn` (a mark on a mounted
  query is being fetched or has failed) give `ReadYourWrites`. They rest on
  `HooksAnnounce`, a fact about the ten hooks. The refinement is proved as well:
  `QueryInitRefines` and, action by action, `QueryStepRefines` give
  `QuerySpec => ShowsFreshReads`.
* **`PageProofs`**. For the filter bars, what is under way is the wish: the push if there
  is one, else what the debounce will push over the current URL; and the field shows the
  term of one of the two. For the forms, a request under way whose text is still in the
  field belongs to the mounted form and keeps it pending (`SentIsPending`), no two
  requests under way carry one text (`SentApart`), and a text that took effect and is
  still in the field has its answer under way or lost (`EffectsKnown`). For the
  batches, the count and the people placed agree stage by stage, and the people left
  are never among those placed.
* **`PanelProofs`**, owner's screens. Agreement is a fact about snapshots: `SnapshotInv`
  says that, unless the organization changed between them, the three answers on screen
  are rows of one coherent organization (`ReadFrom`), each of them all the rows or, cut
  at the page size, some of them with the true number. `ScreensAgree` then compares sums
  and sizes over that organization: the departments' head counts add up to the people
  who are on a team (`SumFunctionOnSet` is taken apart one department at a time), and a
  cut or missing part is recognised as such. `WorkforceTypeOK` contains the coherence of
  the organization through every change; deleting a department is the hard step.
* **`PanelProofs`**, agent's panel. A sort compares keys without ties, so the number of
  tickets before a ticket is a rank of its own from 0 up (an injection of a finite set
  into as many places is onto), and a sorted list has every ticket that matches once
  (`SortedLists`). Hence a badge, which counts the set, is the length of the list
  (`ViewTotals`). The page count is the quotient rounded up, so each page starts where the
  one before ends, the last ends with the list, and their concatenation is the list
  (`PagesAreTheList`), whatever page was asked for. `InboxInv` adds to the types that a
  ticket on screen is the agent's: it is inductive because every link shown `Leads` to a
  page that exists (`LinksLead`), the invariant of the links.
* **`WebProofs`**. A behaviour of `MCWeb` in which one part runs is a behaviour of that
  part's specification, so `WebTypeOK` and `AgentPanelAgrees`, the invariants of the
  composition, follow from the parts' theorems; the other invariants of `web` are the
  parts' own.

Induction over data. The library's induction theorems are stated for an operator and
cannot be cited; but a finite set of sets has a smallest member
(`FS_StrictSubsetOrderingWellFounded`), and so has a set of numbers. Sums over sets,
rounding and the concatenation of pages are proved with a smallest counterexample:
`SmallestSet` and `SmallestOf` are the form of induction used.

Only model-checked: everything temporal (`DeliveredIsHandled`, `PublishReturns`,
`AcceptedIsHandled`, `CloseDrains`, `FannedOut`, `LoadsSettle`), because liveness
and `ENABLED` are beyond TLAPS here. Every invariant and action property of the passing
runs is proved, those of `triage_serial` under the hypotheses of that mode.

## 5. Not modelled

* Backend. Statistics and list queries read only. Audit entries are written and never
  read by a use case. Mail, logging, telemetry and configuration are I/O. The HTTP
  layer decodes and encodes. `src/backend/cmd/seed` is a sequential loader. The model
  service is numerical; here its answer is arbitrary. `Hub.Close` has no caller in
  production code. Invitations, roles and the permission cache, tenants, the gateway
  and migrations have state of their own and are the plan below.
* Front end. Marketing pages, design primitives and formatting keep no state. The
  overview's charts and the rendering of a ticket draw one answer; the fetching behind
  them is in `QueryCache`. React, Next.js and React Query are taken by their documented
  rules. Validation and wording of forms are left out. The agent's panel shows
  fixtures; its composer changes the conversation on screen only (`Forms`).

## 6. Plan

1. `Iam`: invitations (create, revoke, expire, accept in one transaction with
   `MarkAccepted` as the guard), role assignment with its conflict target, and
   the permission cache composed with it: a cached list is never older than its
   TTL, a token makes at most one account, an acceptance after revocation fails.
   An abstract specification of a single-use token, refined by it, and composed with
   `Session`, which has one invitation today.
2. `Tenancy`: provisioning of organizations (no transaction) and workspaces (one
   transaction), `EnsureCustomer`, API keys, migrations with a crash between
   files. Properties: a usable organization has roles and a default department;
   a login is linked to one customer.
3. `Gateway`: endpoint life cycle, resolution, the fixed-window limit with a lost
   expiry.
4. `Delivery`: an abstract at-most-once (in process) and at-least-once (Kafka)
   delivery, which `EventBus` and `Triage` are shown to implement.
5. Theorems: the invariants of the modules above; what holds of `Triage` over Kafka
   with a single consumer and no crash (`AnalyzedOnce`, which `triage_kafka` does not
   claim because a second consumer breaks it).
