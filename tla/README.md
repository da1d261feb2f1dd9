# LineLess: formal models

LineLess is a virtual-queue service: customers join a queue from their phone,
staff call them one by one, boards and phones follow along live. This directory
holds TLA+ modules of its core, TLC configurations that check them on small
instances, and proofs checked by TLAPS. Paths below are relative to the
repository's `backend/src` unless they say otherwise.

Run `tlc -config X.cfg M` and `tlapm M.tla` in this directory; PROJECT.json lists
every run with its module, every mapped definition with its source lines, the
hazards the properties are aimed at, and the theorems.

## 1. The system

Every HTTP request is one Lambda invocation that talks to one DynamoDB table.
There is no lock and no shared memory: correctness rests on conditional writes
and on transactions. After its commit a handler publishes an event on
EventBridge; one rule feeds a broadcaster (WebSocket fan-out), another an SQS
queue whose worker sends e-mail and SMS. Pages refetch when a message arrives.

    page --HTTP--> api --> queue engine --> table
                               |  event (after the commit, best effort)
                               v
                          EventBridge --> broadcaster --> WebSocket --> page --> refetch
                               \--> SQS --> notification worker --> SES / SNS

| component | state | operations | talks to | hard because |
|---|---|---|---|---|
| queue engine (`services/queue-engine.js`) | `Q#id`: META, COUNTER, ENTRY#n, the guards CUST#E, CUST#P and CUST#token, IDEM# | join, leave, callNext, skip, recall, pause, resume, close, reopen | table; publishes events | every await is an interleaving point; reads are not consistent; a Lambda may stop between two calls; a client resends |
| numbering and keys (`shared/numbering.js`, `shared/keys.js`) | padWidth, prefix | format, pad, range reads | sort order of the table | numbers are ordered as strings |
| event publishing (`shared/events.js`) | none | publishEvent | EventBridge | after the commit, errors swallowed: an event may be lost |
| notifications (`services/notify.js`, `functions/notification-worker.js`) | `NTF#` records, message and receive counts in SQS | processNotification, notifyQueueClosed | SQS, table, SES, SNS | at-least-once delivery, the record is written before the send, errors caught at several levels |
| live updates (`services/connections.js`, `services/broadcast.js`, `functions/ws.js`, `functions/broadcaster.js`) | `CONN#` items and the GSI3 index over them | connect, subscribe, unsubscribe, disconnect, fan-out | table, WebSocket API | a lagging index, connections that are gone, events while a page is not subscribed |
| pages and sign-in (`frontend/assets/js/router.js`, `auth.js`, `api.js`, `ws.js`, `views/*.js`) | the page that is drawn, pages that were left with work under way, sockets, stored tokens | load, refresh, operate the queue, leave, join, sign in, navigate, reconnect | HTTP, WebSocket, Cognito | a handler goes on after its page was left; refreshes overlap; messages are missed while the socket is down; one silent refresh of the tokens |
| queue reads (`services/queue-reads.js`, `shared/waittime.js`) | none | public page, display, session, staff list | table | several reads make one answer; `Limit` counts items before the filter |
| organisations, branches, services (`services/orgs.js`) | META, QUEUE#, BR#, SVC#, DIR# items | create, list, publish | table | references between items that are written apart |
| staff, roles, authorization (`services/staff.js`, `shared/auth.js`, `functions/api.js`) | STAFF# items, the indexes by e-mail and by user | invite, sign up, link, change role, resolve a role | table, Cognito | check-then-put over lagging indexes; a move in one transaction per organisation; an update of an item that may be gone |
| validation, analytics, styling, deployment | none of their own | | | |

What makes each correct:

* **queue engine**: numbers are unique; nobody is in a queue twice; a resent
  join makes one entry; each customer is called once and no final state is
  overwritten; no number is issued while paused or closed; requests end; whoever
  can be seen is called.
* **numbering and keys**: the range reads return the waiting entries before a
  ticket and the first after the cursor.
* **notifications**: no message twice; every event ends handled or in the DLQ; a
  closure that was cut short is completed; nobody is passed over who was not notified
  (which does not hold, section 6).
* **live updates**: a message reaches only subscribers of its scope; gone
  connections disappear; a page that listens refetches (not while its customer is
  leaving, section 6).
* **queue reads**: one answer never contradicts itself, two pages agree on a
  customer's place, and the display lists who waits (up to its limit, section 6).
* **pages and sign-in**: buttons are dead only while something is under way; a page
  that was left is silent; what is confirmed has happened; the silent retry does
  nothing twice; every page that loads draws something in the end.
* **organisations, staff, roles**: memberships are granted and never appear;
  creators stay admins; whoever acts on an organisation is a member of it.

## 2. The modules

| module | what it is | extends / instantiates |
|---|---|---|
| `TicketKeys` | numbering and the string order of sort keys, the two range reads of the engine | |
| `TicketKeyOrder` | the reference for that order: keys as strings of digits; used by `BoardsProofs` | `TicketKeys` |
| `QueueEngine` | the engine: one action per store call of every handler | `TicketKeys`, instance of `QueuePromise` |
| `QueuePromise` | abstract specification: what the head comment of the engine promises, without requests and reads | |
| `QueueEngineProofs`, `QueueEngineSafety`, `QueueRefinement` | theorems about the engine | `QueueEngine` |
| `Boards` | the read models as sequences of reads, composed with the engine that writes in between | `QueueEngine` |
| `BoardsProofs` | theorems about them, the range reads and the order of keys | `Boards`, `QueueEngineSafety`, `TicketKeyOrder` |
| `Notifications`, `NotificationsProofs` | an event through EventBridge, SQS and the workers to the providers | instance of `NotificationPromise` |
| `NotificationPromise` | abstract specification: what the head comment of `notify.js` promises, without messages, workers and retries | |
| `LiveUpdates`, `LiveUpdatesProofs` | registry, broadcaster and the sockets of the pages | |
| `Tenants`, `TenantsProofs` | organisations, staff records, roles and what an organisation owns | |
| `Session` | a tab's requests and the sign-in they carry, with the one silent refresh | |
| `Pages` | router, views and their sockets, on top of those requests | `Session` |
| `PagesProofs` | theorems about calls, drawing and confirmation | `Pages` |
| `MC*` | instances for TLC: functions on the constants, symmetry, and bounds that are constraints | the module |

**How `QueueEngine` corresponds to the code.** A handler is a sequence of awaited store
calls; one call and the local code up to the next is one action, and `pc` names the next
call. `meta`, `counter`, `entry`, `guards` and `idem` are the items `META`, `COUNTER`,
`ENTRY#`, `CUST#E`/`CUST#P` and `IDEM#`; `CUST#token` is as unique as the token, so it never
refuses a join, and only `Boards` counts it. A transaction is one action whose guard is the
conjunction of its conditions (`MayCommit`, `MayCall`, `MayLeave`, `MayTransition`), with
the failure branch the code takes as the other disjunct. A join may fail between any two
calls (`JoinFail`: timeout, throttling, a killed Lambda), a staff request too (`StaffFail`).
A client that resends a join is a second element of `Joins` with the same `KeyOf`. With
`EventualReads` every `GetItem` or `Query` may answer from `replica`, an earlier version of
the items; `db.get` and `db.query` never ask for consistency.

| source | actions |
|---|---|
| `joinQueue`, `commitJoin` | `JoinReadIdem`, `JoinReadMeta`, `JoinReserve`, `JoinCommit`, `JoinRecheck`, `JoinReply` |
| `leaveQueue` | `LeaveFind`, `LeaveCommit` |
| `callNext`, `nextWaitingEntry` | `CallNextReadMeta`, `CallNextReadPrev`, `CallNextFind`, `CallNextCommit` |
| `completeCurrentOnly` | `CompleteEntry`, `CompleteMeta` |
| `skipCurrent`, `recallCurrent` | `CurrentReadMeta`, `CurrentReadEntry`, `SkipCommit`, `RecallCommit` |
| `setQueueState` | `SetStateRead`, `SetStateCommit` |

**`Notifications`.** `event` is what became of each event, `message` the copies of it in SQS
(two copies model EventBridge delivering twice), `place` whether a customer is waiting,
`log` the `NTF#` records, `refused` the notices whose put failed in a way the worker takes
for a duplicate, `sent` how often each provider was given each notice, `worker` the
invocations: a batch, what of it was handled, and the next await as `pc`. `Receive` takes a
batch; `Claim`, `Contact` and `Send` are `processNotification` and `deliver`; `List` and
`ClaimCustomer` are `notifyQueueClosed`; `Finish` is the batch response, `Crash` a Lambda
that stops. `Failing` names the awaits that may throw. A put has four ends: the record is
written; it was there; the transaction is cancelled for another cause (a conflict,
throttling), which both callers take for a duplicate (`Refused`); any other error, after
which the record may be there all the same and which `processNotification` throws and
`notifyQueueClosed` swallows. For `NotificationPromise` the `NTF#` records are what is
`claimed`, the providers what is `given`, a cancelled put is a `Refuse`, and an event is
`settled` when a message of it was deleted (`Remaining`, `Deleted`).

**`LiveUpdates`.** `item` is the `CONN#` item of a connection, `index` the GSI3 entry which
follows it (`Reindex`), `link` the gateway's view, `requests` the `$connect`, `$default` and
`$disconnect` invocations that have not run yet (they run in any order), `cast` the
broadcaster invocations, `page` the socket of a page, how many events were committed when it
last fetched, whether its customer is leaving and which messages came then (`missed`, a
variable of the model only). `Connect`, `Drop`, `Close`, `Ask` and `Load` are the frontend;
`Hears` is the guard of the message handler (`leftLocally`), and `Leave`, `LeaveFails`,
`LeaveDone` are the leave button, so that a page with a leave under way ignores what it is
sent; `Register`, `Subscribe` and `Disconnect` are `ws.js`; `Query`, `Get`, `Post` and
`GiveUp` are the broadcaster.

**`Boards`.** `reader` is the request that is being answered and what it has read so far;
`Ask`, `AskSession`, `ReadQueue`, `ReadList`, `ReadServing` are the reads of
`getPublicQueue`, `getDisplayState`, `getQueueState` and `getCustomerSession` in the order
of the code, and between any two of them the engine takes steps (`BoardNext`). A read writes
nothing (`ReadsAreSilent`), so one reader at a time shows what many could. `Reached` is the
`Limit` that counts items before the filter: the counter, the guards of contacts and of
tokens (`GuardItems`) and the entries in front; `PeopleAhead` and `ListPosition` are the two
ways the code counts a place.

**`Tenants`.** `rows` holds the `STAFF#` records by organisation and sub, `index` the same
records as the two indexes show them, and every lookup by e-mail or by user may be
served from either (`Views`). `request` is what a request under way has read.
`Authorize` is `resolveContext` and the role check before each handler; `InviteLookup`,
`InviteAccount`, `InvitePut` and `InvitePending` are `inviteStaff` with and without a
user pool, `OpenMe` and `Link` are `linkStaffOnSignup`, one transaction per invitation,
`RoleLookup` and `RoleUpdate` are `updateStaffRole`, and the rest are the handlers of
`orgs.js`. `RequestFails` stops a request between two calls.

**`Session`.** `session` is what `localStorage` has: tokens, whether the client still takes them
for valid, a refresh token. `calls` are the calls under way, each with the page that
made it; `Refuse`, `Serve` and `Fail` are the services as far as a page can tell
their answers apart, `BeginRefresh` and `Refresh` are `refreshSession` between a 401 and
the second attempt. `customer` is the one entry the status page is about.

**`Pages`.** Every page draws into one element: `screen` says which page drew last, what, and which
call its button waits for. `page` holds the pages in memory, since handlers, timers and sockets of a
page that was left go on. One action is one handler up to its next await:
`Navigates` is `navigate` and `render` of the router with the teardown of the page there
and the first fetch of the next; `Loaded`, `OverviewLoaded` and `BoardRefreshed` are the
continuations of the views' `load` and `refresh`; `ActClicked`, `ActAnswered`, `Reread` are
`mutate` of the console with its lock; `LeaveClicked`, `LeaveAnswered`, `StatusRefreshed`
the status page with `leftLocally`; `Opens`, `Drops`, `TimerFires`, `Message` the
handlers of `ws.js`; `JoinClicked` to `OnboardingAnswered` the forms.

## 3. The runs

| run | question | bounds |
|---|---|---|
| `engine` | the inductive invariant of the safety theorems, uniqueness, the mirror, one call per customer, nothing issued while paused or closed, the count of who waits before a ticket, and the refinement of `QueuePromise`, with reads that lag | two joins that share an address, one of them under a key; two consoles (symmetric) with next, pause, resume, close, reopen; one retry; two requests under way at a time (`TwoAtOnce`); tickets 1 and 2 |
| `one_console` | what holds with one console and consistent reads: order of calls, one customer called, requests end, everybody seen is called, the first key past the cursor is the smallest | two joins, next, skip and recall, tickets 9 and 10 at width 2 |
| `boards` | no answer names one customer twice, no turn is announced early, both places agree, the display is complete within its limit; nobody is in the queue twice and a resent join makes one entry | three joins (a click and its retry, a stranger sharing the phone), one console that presses next, consistent reads, tickets 9 and 10 at width 2, a limit of 22 |
| `notifications` | no notice twice, no message dropped too early, closures completed, every message handled or dead-lettered in the end, and the refinement of `NotificationPromise` | a call and a closure, two customers, two workers, batches of two, two receives before the DLQ, one copy of each event; every store call may fail but the put for a customer of the closure (the theorems have any number, and failures of it) |
| `live_updates` | private messages stay private, gone connections stay forgotten, listeners refetch, stale items go, and the inductive invariant | a board and a customer's page, two sockets, one event of either kind, two broadcasters |
| `tenants` | memberships are granted, creators stay admins, actors are members | two people, one of them an admin of the platform, one organisation beside the platform's, one pending invitation, two requests; once something is owned the staff stays as it is (`StaffFirst`) |
| `frontend` | lock, retry, teardown, confirmation and spinner | two pages in memory, two calls under way, six tours of the site |
| `two_called`, `served_locked_out`, `stranded`, `closure_skips`, `unheard_call` | the findings of section 6, one property each | the smallest instance with the actors concerned |

Why the bounds are enough. A race of the engine is between a request and the
commits of others, and the properties speak of at most two entries, two joins or
two consoles, so two of a kind meet every order of calls; the third join of `boards`
reserves a number past `LastTicket`, which is how the counter moves without an entry.
`TwoAtOnce` leaves out that three requests are between two of their calls at the same
time; whatever a third one wrote is there once it ended, a lagging replica shows
the state from before, and the theorems of section 4 have no such bound. `Retries` is
the code's 3 in `one_console`, where it matters whether the loop ends. Recalls are
bounded (`MaxRecalls`) because a recall only counts.

Tickets 9 and 10 follow eight that were served, so that a key range and a place meet the
change from one digit to two; at width 2 the numbers fit. In `boards` the counter, ten
entries with their ten token guards and two guards of contacts are 23 items, one more than
the limit of 22; with fewer contacts or after a leave they are within it, so that the limit
bites in some states. In `notifications` two receives are the least that show a redelivery
and the move to the DLQ (the deployment has five); two customers the least that lets a
closure stop half way. The put for a customer does not fail there, which keeps the run
within minutes; `closure_skips` and the theorems have it. In `live_updates` two sockets let
a page reconnect while its old connection is still indexed, or both pages be open; two
broadcasters let an event be fanned out twice at once, so that one finds what the other
posted to or forgot. In `tenants` the platform's admin is in every organisation and the
other person in none at first, so that both ways to a role are taken. In `frontend` two
pages are the one that was left and the one that is there, and two calls are the pairs that
overlap (a refresh and a leave, two refreshes of the tokens, an operation and a message).
The tours keep apart the pages that never meet within two visits; each view is in one of
them.

Every property of a passing run has a mutant in PROJECT.json: a variant of one
mapped definition, kept beside it in the module and described as a variant, under
which TLC finds the property violated.

**Deadlock** is checked for the engine and the boards, where a staff request or a
read can always start. The others may stop: the last event may be handled, every
id may have been drawn, and a tour ends where the next page is outside of it.

**Fairness.** `QueueEngine`: a request that was sent runs on to its answer or fails (WF on
each join and on the rest of a staff request), because a Lambda that was invoked runs; and
the staff of `one_console` keep pressing "call next" (SF per step, since a failure or
another operation comes in between again and again) — without somebody pressing, nobody is
called. Nobody has to pause, reopen, leave or retry. `Notifications`: SQS offers what it
has, visibility timeouts expire, an invocation runs on or ends; a crash stays possible until
the receive count sends the message to the DLQ. `LiveUpdates`: EventBridge hands over
accepted events, the broadcaster goes on, the index catches up, and a leave that was sent is
answered or fails; `$disconnect` is best effort and has no fairness. `Boards`, `Tenants` and
`Pages` state safety only: their progress is that of one request, and nothing obliges a
person to click.

## 4. What is proved

All theorems hold for every value of the constants under the named assumptions
of the modules (values that stand for different things are different and of the
right kind, the bounds are natural numbers, `padWidth` is in the range
`normalizeNumberingConfig` allows).

* **`TypeCorrect`** (`QueueEngineProofs`): one lemma per action.
* **`Invariant`** (`QueueEngineSafety`): `IInv` is inductive. `TicketsUnique`,
  `OneActivePerContact`, `IdempotentJoins` and `CalledAtMostOnce` are not inductive
  by themselves, because they say nothing of requests between two calls. The
  strengthening says what such a request and the items it left have to do with
  each other: a join that is about to commit has a number nobody else has and no
  entry (`NumbersInv`); a lagging replica never shows an owner or a stored result
  the table does not have (`ReplicaInv`); whoever has an entry and did not leave
  holds all guards of their contacts, alone (`GuardsInv`); a key's record names the
  one join under it that has an entry, so a replay answers with it (`KeysInv`);
  who waits was never called (`CallsInv`); the counter mirrors the queue
  (`CounterMirrorsMeta`: the condition on `status` is enough because `paused` and
  `open` are written together). `NumbersAreUnique`, `NoContactTwice`,
  `RetriesMakeOneEntry`, `CounterIsMirror` and `CalledOnce` follow; `IssuedWhileOpen` and
  `Forward` are the action properties it gives.
* **`OnlyServing`** (`QueueEngineSafety`): with one console and consistent reads only the
  customer on the board is in state CALLED. It assumes exactly what the finding
  `two_called` lacks. `SoloInv` adds to `IInv` what the console's own request has read:
  the customer it took from the board is still there, because nobody else calls.
* **`CallsAscend`** (`QueueEngineSafety`): under the same two assumptions, and numbers that
  fit the width, customers are called in ascending order. `AheadInv` says that nobody past
  the ticket after the cursor `lastServedTicket` has been called, that the board shows that
  ticket or nobody, and that what the console has read of the two still holds; and the
  cursor only rises. Whoever is stored behind it is never called (`stranded`), so nothing
  is called out of order.
* **`EngineImplementsPromise`** (`QueueRefinement`): initial states map to initial
  states and every step to a step of `QueuePromise` or to a stutter, with
  `open`, `issued` and `line` as in the `INSTANCE` of `QueueEngine`. `GuardsInv` and
  `KeysInv` are what makes a commit an `Enter`.
* **`Counted`, `Smallest`** (`BoardsProofs`): the two range reads return what is meant in
  every state of a queue whose numbers fit the width, by the order of two numbers of equal
  length.
* **`ReadsAreSilent`, `PlacesAlwaysAgree`, `ServedNeverNext`, `NextUpComplete`** (`BoardsProofs`):
  the queue with its readers does what the queue alone does, so the engine's
  theorems carry over. The places agree by `Counted`. An answer does not contradict itself
  because whoever was called before the queue was read never waits again
  (`CallsStay`, from `CallsInv`); the last two assume consistent reads. The display is complete
  because an entry within the limit has few enough items in front of it, guards of contacts
  and of tokens included (`FewerInFront`, by cardinalities).
* **`TurnNotEarly`** (`BoardsProofs`): with one console, consistent reads and fitting numbers.
  `TurnInv` says that whoever was read as CALLED is no further than the ticket after the
  cursor, and as the queue is read later and the cursor rises (`AheadInv`), the ticket it
  shows is theirs or a later one.
* The order of keys. `KeyBefore` compares two keys by arithmetic; the lemma `KeysAsStrings`
  (`BoardsProofs`) justifies this: it is the order of the strings of `TicketKeyOrder` for every
  width from 1 to 6 and all numbers of six digits, fitting or not. It says nothing of the
  queue and is therefore no theorem of the list. Both sides are reduced to the number of six
  digits that begins with the key (`Full`), where two numbers are compared place by place
  (`SixPlaces`).
* **`Invariant`, `NeverSentTwice`** (`NotificationsProofs`): a worker's step claims a
  notice nobody had claimed, goes on with its own, or does not send. The
  invariant says that whoever sends has claimed the notice, alone
  (`SendersInv`), and has not used the channels still to come (`SentInv`). The run
  checks its conjunct `SentAtMostOnce`; the rest is only proved.
* **`NothingDropped`, `ClosureReaches`** (`NotificationsProofs`): `HandledInv` adds what a
  message that an invocation counts as handled has seen to: the notice of a targeted event
  is accounted for, and of those a closure has to reach, each who still waits is accounted for
  or is still in the invocation's list. A notice is accounted for (`Accounted`) when it has a
  record or when its put was refused, as in `closure_skips` or by `notify.js:88`; no crash,
  redelivery or thrown error drops one.
* **`PipelineKeepsPromise`** (`NotificationsProofs`): a put is one `Claim`, one
  `Refuse` or neither, a message
  a provider accepts one `Give` (by `SendersInv` and `SentInv`), a batch response one
  `Settle` (by `HandledInv`), and an entry that moves at most one `Leave`.
* **`Invariant`, `Private`, `Forgotten`** (`LiveUpdatesProofs`): whatever is stored, on
  its way or about to be posted for the socket of a page is for the scope of that
  page (`ScopesInv`, `CastInv`), which needs that a socket belongs to one page
  (`SocketsInv`) and that an id not given out is known to nobody (`UnusedInv`).
* **`Invariant`, `CreatorsStay`, `OnlyMembersAct`, `MembershipGranted`**
  (`TenantsProofs`): a creator keeps the role because no request can aim at their record:
  it is in no index by e-mail (`CreatorsInv`), and a record is put for an account that
  the pool just made (`RequestsInv`). `IndexInv` says how an index that lags may
  differ from the records: it shows members late but never one who is none, and an
  invitation it still shows is pending or was taken up.
* **`Invariant`, `DoneOnce`, `ConfirmedGone`, `SpinnersLoad`** (`PagesProofs`): for any number of
  pages and calls. Whatever a handler, a click or a socket does, each call stays as it
  is, ends, or is made anew (`Tame`), and only the services change one that is under way. So a
  call is done at most once because a second attempt follows a refusal only (`CallOK`), a
  confirmation means that the entry is over (`LeaveInv`), and a spinner has its fetch
  because a page and its call end together (`SpinnersAreLoading` is inductive with the rest).
* **`LockHeld`, `LeftStaysSilent`** (`PagesProofs`): `TInv` describes each page in memory with
  the calls it has made: a number no page has is in no call (`Absent`), a page that is not
  live has no socket (`Plain`), a console's lock is held for exactly one operation or
  reread (`Locked`), a socket that was left is closed or its timer will find it stopped
  (`TornDown`). The last needs that a live page is loaded once before it connects
  (`LoadsOnce`) and that a session shown as lost is over for good (`KnowsSession`, `IndexInv`);
  otherwise a second answer of the first fetch could connect a page that was left.

Checked by TLC only: what needs fairness (`RequestsEnd`, `SeenCustomersAreCalled`,
`MessagesEnd`, `ListenersHear`, `StaleAreForgotten`), which is beyond TLAPS as installed.
Every invariant and every action property of the passing runs is a theorem.

## 5. What is not modelled

* **Daily counters** (`resetDaily`). The counter item gets a new key every day while
  `lastServedTicket` and the entries stay.
* **Several queues**: an engine request touches the items of one queue only, apart
  from GSI reads by token.
* **Analytics** (`services/analytics.js`): it aggregates stored items and has no state; its
  page is one of `Pages`.
* **The average service time** is a constant of `Boards`; the rolling average only scales
  an estimate.
* **The store** is modelled by its interface as the tests' in-memory table defines
  it: atomic calls, conditions, transactions. Transaction conflicts, throttling
  and timeouts are failures of the request, except in `Notifications`, where the worker
  takes a cancelled transaction for a duplicate and the model has that case. Pages of a query
  are one read. `transactWrite` (`shared/dynamo.js:48-50`) hands its items on as they are, and
  neither it nor any caller (`services/queue-engine.js`, `orgs.js`, `staff.js`, `notify.js`)
  sets the `TableName` that DynamoDB requires in each of them, where every other call of the
  adapter does. The tests replace the store and do not meet this. The models take every
  transaction as meant: it writes to the one table. On a real table it would be refused, and
  with it every join, call and creation.
* **Limits** of 500 items in the list of a closure, 200 in the staff list and among
  subscribers; the instances stay below. The display's limit is modelled.
* **Expiry** of `IDEM#`, `NTF#`, `CONN#` and entry items. A key or a record that
  expired is forgotten; the guarantees hold within its lifetime.
* **Listings** of organisations, branches, services, staff and the directory; validation
  of texts; token signatures, CORS and parsing.
* **Pages**: input checks of the forms, the directory's search, the resend button, the
  dashboard's invitation form (`Tenants` has its request), wording and layout, icons and styling.
* **Deployment**: configuration; its limits are constants where a module needs them.

## 6. Findings

1. `two_called`: two consoles that press "next" at once can leave two customers in
   state CALLED; the transaction conditions the entries and not the queue. The
   earlier one is off the board and no operation reaches it.
2. `served_locked_out`: guards are deleted on leave only, so a customer who was
   served or skipped cannot join again.
3. `stranded`: a join that commits after a later number was called waits behind
   the cursor.
4. `closure_skips`: any error of the record's put counts as "already notified".
5. `unheard_call`: the customer who is called hears nothing on the status page;
   the event goes to the boards.

Also seen while modelling, and not a run:

* `processNotification` takes every cancelled transaction for a duplicate
  (`services/notify.js:88`): after a conflict or throttling the message is deleted and nobody
  claimed its notification (`Refused`, which `DeletedWasClaimed` has to except);
* the status page ignores messages while a leave is under way (`status.js:33`, `:49`), and when
  the leave fails (`:167`) nothing refetches what it missed (`missed`, which `ListenersHear` has
  to except);
* numbers of more digits than `padWidth` sort before smaller ones
  (`services/queue-engine.js:332`): with the default width tickets 1000 to 9989 are never called
  once 999 was; the theorems about the order of calls require numbers that fit;
* the display's query reads 8 items before its filter (`services/queue-reads.js:74`), and the
  counter and the guards of three customers who gave an address and a number are more: nobody
  is listed. `NextUpIsComplete` says how far the list can be trusted;
* transactions carry no `TableName` (`shared/dynamo.js:48`, section 5);
* a staff member who was demoted still acts with the old role until the request ends and the
  index caught up (`shared/auth.js:127`);
* a join that has a number commits although the queue was paused since;
* a page that reconnects does not refetch, although
  `frontend/assets/js/views/status.js:2` says a refetch covers missed events;
* `ping` does not extend a connection's expiry (`functions/ws.js:3` says activity does);
* a refresh that was under way when the customer left is drawn over the confirmation,
  although `status.js:15` says that late refreshes are blocked; of two refreshes
  the older answer may be drawn last;
* a page that is left during its first fetch makes a socket afterwards, which nobody closes;
* the answers of a sign-in and of a join navigate wherever the tab is by then;
* a token the client takes for expired is not sent, so no 401 starts the silent
  refresh that `auth.js:69` speaks of (`api.js:29`); the dashboard then goes to the form,
  and the form back to the dashboard (`login.js:119`, `dashboard.js:59`);
* after one refresh no refresh token is stored any more (`auth.js:58`), and a refresh
  that ends after a sign-out stores a session again;
* each submit of the join form draws a new Idempotency-Key (`join.js:216`), so only a
  retry below it is recognised;
* the resend button of the code is never enabled again (`login.js:254`), and the text
  for a customer who is done is never shown (`status.js:102`).

## 7. What is left

1. `QueueEngine` with daily counters: the day as a variable, the counter by day;
   which of the invariants survive the change of day.
2. Composition of the engine's commits with `Notifications` and `LiveUpdates` (`Move`,
   `Publish` and `Commit` as the engine's commits).
3. The page of `LiveUpdates` refined by the sockets of `Pages`, with the order of answers.
4. Proofs: abstract specifications of `LiveUpdates` and `Tenants` with their refinements, in
   the manner of `QueuePromise` and `NotificationPromise`.
