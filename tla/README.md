# slimwhats in TLA+

A verification project for slimwhats: a Go service that runs one whatsmeow client per
"instance" (a linked WhatsApp device), exposes an admin UI and an API for them, and forwards
their events to webhooks. The modules model the concurrent core of the service, TLC checks
them on small instances, and TLAPS proves the safety of the webhook pipeline, the instance
manager, the audit bus, sessions and login, the send pipeline, the pairing by QR code and the
configuration of instances, and what the lock order of the manager can and cannot lead to, for
every value of their parameters.

`PROJECT.json` lists the runs, the mutants that show that each property can be broken, the
source lines of every definition (`map`), the hazards and the findings.

## The system

| component | state | operations | talks to |
|---|---|---|---|
| webhook dispatcher (`internal/webhook/dispatcher.go`) | job channel, per-instance semaphores, worker loops | RecordDelivery, Enqueue, deliver, Shutdown | delivery log, instance store, receivers |
| delivery log (`webhook_deliveries`) | one row per event | insert, update, cascade delete, listing | |
| instance manager (`internal/instance/manager.go`) | map of clients, global event callback, `expectedDisconnect` | StartAll, Start, Get, LookupByID, Disconnect, Reconnect, Remove, LogoutAndReset, SubscribeEvents, AddEventHandler | whatsmeow, instances table |
| event callback (`cmd/slimwhats/main.go`) | none | one reaction per kind of event | manager, instance store, QR state, dispatcher |
| lifecycle handlers (`internal/handlers/lifecycle.go`, forms in `api_key.go`, `admin_ui.go`) | none | create, connect, disconnect, reconnect, delete, page | manager, instance store, audit |
| QR state (`internal/instance/qr.go`) | last batch of codes, one-slot signal | Set, Get, WaitForNew | callback, QR handlers |
| audit log and bus (`internal/handlers/audit.go`, `audit_bus.go`) | rows, bounded channel per subscriber | Log, Publish, Subscribe, cancel | event stream |
| event stream (`internal/handlers/events.go`) | one handler per client, write mutex, watchdog | open, emit, close | manager, audit bus |
| sessions and login (`internal/auth`, `admin_auth.go`) | session rows, failure windows | Create, Validate, Delete; Check, RecordFailure, RecordSuccess | |
| instance store (`internal/instance/model.go`) | instances table | Create, SetStatus, SetIdentity, SetAPIKey, SetWebhook, Delete | |
| send pipeline (`internal/send`) | per-recipient limiter | SendText, SendButtons, Resolve | whatsmeow |
| main (`cmd/slimwhats/main.go`) | | boot order, shutdown order | all |

What makes it hard: every HTTP request, every whatsmeow event, every webhook worker and main
are goroutines of their own. They meet in the database (one connection, so single statements
are atomic but no handler uses a transaction), in the mutex of the manager, which is released
in the middle of Start, Disconnect, Remove and LogoutAndReset, and in channels. whatsmeow
dispatches events on goroutines whose order is not that of the events. The process may stop at
any point; only the database survives.

What makes each part correct:

- dispatcher: no delivery is worked on twice at a time, tokens match their holders, accepted
  jobs end with a final answer, rows never claim what did not happen, shutdown ends unless the
  lock of the manager is stuck, and does not cut off accepted jobs before its deadline;
- manager: one client per instance, no client without a row, no revoked client left in the
  map, exactly one path from a client to the callback, a status that follows the client;
- locks: a callback always gets to its end;
- audit bus: a slow stream neither blocks nor breaks it, streams read entries once, in order,
  and without gaps as long as their buffer lasts;
- QR pairing: nobody who waits fails because another took the token, a browser that was told of
  a batch gets this one or a later one, no success is empty;
- sessions: no request is served as authenticated whose session was not valid at some moment
  since it came (a page request without one is redirected, and its handler runs all the same), a
  row that was deleted does not return, the limiter lets no attempt pass that its rule forbids
  and locks nobody out without cause;
- send: one request makes at most one message, for the recipient it names, in an envelope that
  suits its buttons, and the answer tells what became of it; the limiter keeps its budget and
  its hint to the refused, cut off to seconds, lacks less than one;
- instance store: a webhook has both a url and a secret, the form that keeps the secret keeps a
  current one, answers tell what was stored, and a key that was replaced stays dead.

## Modules

| module | models |
|---|---|
| `DeliveryLog` | what the table of deliveries promises to a reader, with no queue or process in sight |
| `WebhookDispatcher` | the pipeline: callback, queue, workers, retries, deletion, shutdown, crash, restart |
| `MCWebhookDispatcher` | a small instance of it |
| `WebhookDispatcherProofs` | the theorems |
| `InstanceManager` | the manager with all handlers and callbacks that run against it, and whatsmeow around it |
| `MCInstanceManager` | a small instance of it |
| `InstanceManagerProofs` | the theorems about it |
| `ManagerLocks` | the two locks under an event stream |
| `ManagerLocksProofs` | the theorems about their deadlock |
| `AuditBus` | Log and Publish against event streams that subscribe, read and cancel |
| `MCAuditBus` | a small instance of it |
| `AuditBusProofs` | the theorems about it |
| `Sessions` | login, logout, the session middleware and the limiter of failed logins |
| `MCSessions` | a small instance of it, with its symmetries |
| `SessionsProofs` | the theorems about it |
| `SlidingWindow` | what a limiter of sends promises, with no memory in sight |
| `SendPipeline` | a request that sends: limiter, checks, recipient, envelope, retries |
| `MCSendPipeline` | a small instance of it |
| `SendPipelineProofs` | the theorems about it |
| `InstanceStore` | name, key and webhook of an instance, and the requests that read and write them |
| `MCInstanceStore` | a small instance of it |
| `InstanceStoreProofs` | the theorems about it |
| `Pairing` | how a QR code gets from whatsmeow to the page |
| `PairingProofs` | the theorems about it |

The components meet in few places: the pipeline is fed by the callback, the manager by requests
and callbacks, the store by everything. Each module has the part of its neighbours that it can
observe as environment: `Pairing` a load and an eviction as single steps of the manager,
`WebhookDispatcher` a deletion as one step of the store, `SendPipeline` nothing but the client
it is given.

### WebhookDispatcher

One event is one delivery. `course[d]` says how far it came: `recorded` after `RecordDelivery`
has inserted the row, `loaded` after `Enqueue` has read the webhook, then `queued`, or out of
the pipeline as `skipped`, `dropped`, `panicked` or `lost`. `queue` is the channel, `tokens` the
length of each semaphore channel, `wpc`, `job` and `try` are the local state of a worker. `Take`
is the receive in `worker`, `Acquire`/`GiveUp` the select in `deliver`, `Post`, `Update` and
`Wake` one round of the retry loop, `Release` the deferred receive. `GiveUp` and `Acquire` of
the model exclude each other: a worker that finds a free token takes it, since Go hands a slot
that becomes free directly to a sender that waits in a select, so no worker times out while a
slot is free. `main` walks through the shutdown of main.go; `expired` is the state of the one
context that bounds its first two steps. `StopAll` stands for `mgr.All()` and `mgr.StopAll()`,
which lock Manager.mu, and no deadline bounds that. `managerMu` is this lock as StopAll finds
it: when the HTTP server stopped in time no event stream is left (`quiet`); when it was cut off
by the deadline, `Jam` may make the lock `stuck`, the deadlock of `ManagerLocks`, and then only
a crash ends the process. `Crash` and `Exit` drop everything in memory, `Boot` starts over on
the same rows. `answers` is a history variable: what the receiver said to each attempt.

Every statement of the database may fail: the insert ends the callback, the load skips the
delivery, the update leaves the row as it was, exactly as the code ignores these errors. The
answer 0 stands for an attempt without an answer, and for one whose request could not be
built. DeleteInstance is the cascade; a delivery in flight goes on without its row.

`DeliveryLog` is the abstract specification: rows are created pending, a row is tried only
while it awaits an attempt, the number of its attempts only grows, the status follows from the
attempt and its answer, and rows vanish only with their instance. `LogSpec` states that
the pipeline implements it; the refinement mapping is the identity on the three columns.

### InstanceManager

A request or a callback is a thread whose remaining steps are a sequence, `todo[t]`: a step
ends where another goroutine may run (an unlock of the mutex, a statement, a call into
whatsmeow), a call puts the steps of its callee in front, an early return drops the rest. So
`<<"lookup", "get", "remove", "stop", "delete">>` is the delete handler, and a `get` that
finds no client becomes the four steps of Start and a second look. `held[t]` is the client a
thread has in a local variable, `read[t]` the jid that Start has loaded. Clients are objects
that a thread may hold after they left the map; `owner`, `hooks`, `dev` and `expected` are
their attributes.

whatsmeow is external and modelled as the code relies on it: Connect opens a websocket or
fails, the server keeps one websocket per device, a revoked device is deleted before LoggedOut
is dispatched, Disconnect emits nothing and ends auto-reconnect, events are dispatched in any
order on their own goroutines and dropped when the client has no handler. IsLoggedIn may lag
behind on a client that is down.

Left out: database errors other than a failing load in Start (a failing GetDevice or an
unparsable jid ends Start the same way), audit records, the pauses (steps may be delayed
anyway), the columns other than status and identity (`jid` stands for jid, lid and phone), and
shutdown.

### ManagerLocks

Streams run AddEventHandler and its cancel function: `Enter` takes `Manager.mu`, `Visit` takes
the handler list of one client after the other, `Leave` unlocks. Callbacks hold the list of
their client for reading and ask the manager. Critical sections that call nothing are a single
step that needs the lock to be free.

### AuditBus

One entry is one call of `AuditLoggerImpl.Log`, one stream one request to the event stream.
`Insert` is the INSERT, which may fail and is then only logged. `Publish` takes the read lock
and fixes the subscribers to visit (`left`); `Send` is one round of the loop, a send with a
default case; `Return` unlocks. Several calls may be in this loop at once. Subscribe and cancel
need the lock for writing and are single steps that wait for `Reading` to be empty; that Go lets
a waiting writer hold off new readers only removes behaviours. `Receive` is the round of the
loop in EventsHandler that writes an entry; a stream may stop reading or go at any point. `got`,
`since` and `past` are history variables: what a stream has read, what was published since it
subscribed, and which calls were over before another began to publish.

### Sessions

`expires` is the table admin_sessions, `failures` and `lockedUntil` are the two maps of
LoginLimiter. A login is `BeginLogin` (Check), `FailLogin` or `PassLogin` (RecordFailure,
RecordSuccess) and `Create`; a request behind SessionMiddleware is `Arrive`, `Select`,
`CheckExpiry`, `Expel` or `Refresh`, and its answer. Every statement and every critical section
of the limiter is a step, so logins of one address and requests with one cookie interleave, and
the clock may move, between any two of them. Statements may fail; the code ignores a DELETE or
UPDATE that does. `Restart` keeps the rows and loses the limiter. A page request without a valid
session is redirected, and its handler runs all the same, because Redirect does not abort the
chain: `Refuse` sends it on to `serving`. `genuine` and `tried` are history variables: the
requests whose session was valid at some moment since they came, and the failures of an address
since its last success.

### SendPipeline and SlidingWindow

A request starts with the client that InstanceAPIKeyAuth gave it. (That middleware goes through
`allInstances`, which fails as soon as there is an instance, see `findings`: the routes of
/api/v1 are modelled as they would run behind it.) `Reject`, `Limit` and `Take` are the top of
the handlers, in their order: a body that does not bind is refused before the limiter counts it,
one that does not fit afterwards. `Resolve` is the lookup of the number as it is spelled and
once more as CreateJID rewrites it, `SendMessage` one round of the retry loop. Numbers are
records of what the rewriting looks at; `long` is what CreateJID takes for the id of a group and
`none` what it makes the empty string of, neither of which the second lookup can find. The clock
has `Second` ticks in a second, because the limiter computes a wait to the tick and
`formatSeconds` cuts it off to whole seconds before the caller is told: `after` is the value of
the header. Who comes back exactly then may be refused again (a finding); HintIsEnough says by
how much the header is short. WhatsApp is external: a lookup fails as it likes, a send is
accepted with or without the client hearing of it, and a second copy under the same id is
dropped.

`SlidingWindow` is the abstract specification of the limiter: it remembers every admission and
admits a call when fewer than Max of its key lie in the last Window. `KeepsBudget` states that
the pipeline implements it; the mapping takes `now` for the clock and the history `admitted` for
the admissions, while the code prunes its buckets. The length of typing delays and pauses, the
JSON of a button, quotes and mentions are left out.

### InstanceStore

`past[i]` is every value the row of instance i has had, so that properties can speak of the row
while a request ran; its last element is the row. A request keeps the places in `past` where it
began and was answered. `Create`, `GetByID`, `PutKey`, `PutKeyForm`, `PutWebhook`,
`LoadWebhookSecret`, `SaveKept`, `SaveTyped`, `Render` and `Remove` are the statements of the
JSON API and of the forms; the rotation and the webhook form consist of two of them or more. Any
statement may fail. Nobody asks for an id before it is minted (`Known`), later its row may be
gone. Columns that other components own (status and identity) and the cascade into other tables
are left out.

### Pairing

One instance whose clients are numbered in the order they are loaded, each with a QRState:
`codes` and a `signal` of one token. `Emit` is a QR event, whose handlers run one after the
other: `FindState` (Manager.QRState), the two halves of `Set`, and `Announce` (the event stream
tells the browser). A request for the code is `Get`, `GetState`, `Look`, then `Wake` or `Expire`
and `LastLook`, which are the parts of WaitForNew. `Evict` may come between any two of these, so
`GetState` may find no QRState, and panics; a batch of an evicted client may land in the QRState
of its successor, with `of` telling whose it was. A load is one step, the steps of Start are in
`InstanceManager`.

## Runs

| run | checks | result |
|---|---|---|
| `dispatcher` | TypeOK, OneCarrier, TokensMatchHolders, RowTellsTheTruth, NoSilentLoss, GracefulDrain, NoPostAfterFinal, LogSpec, EveryJobEnds, ShutdownEnds | hold |
| `closed_channel` | NoSendOnClosedChannel | violated |
| `manager` | TypeOK, HeardOnce, NoZombie | hold |
| `one_client` | OneClient | violated |
| `no_client_without_row` | NoClientWithoutRow | violated |
| `status_follows_client` | StatusFollowsClient | violated |
| `manager_locks` | FlowUndisturbed | violated |
| `audit_bus` | TypeOK, NoSendOnClosed, InOrderOnce, BurstArrives, LogReturns | hold |
| `sessions` | TypeOK, Genuine, LockedWithCause, GuessesBounded, NoReturn, WithinLimit | hold |
| `send` | TypeOK, HintIsEnough, OneMessage, HonestAnswer, RightRecipient, EnvelopeFits, KeepsBudget | hold |
| `store` | TypeOK, PairedWebhook, SecretIsKept, HonestAnswer, OldKeyDies | hold |
| `pairing` | TypeOK, FailsOnlyWithoutCode, FreshAfterUpdate, CodeReachesPage | hold |

Bounds. `MCWebhookDispatcher` has two events of one instance, two workers, a queue of one job,
two attempts, one token and the answers 200, 404 and 429 (accepted, refused, worth a retry; a
silence, 0, is retried like 429). That is enough for the queue to be full, for two workers to
compete for the only token while its holder sleeps, for a retry and a last attempt, and for
every order of shutdown, crash and deletion against them. A process can crash
at any time, so the run never deadlocks; that jobs and shutdowns get to their end is EveryJobEnds
and ShutdownEnds. The proofs need none of these bounds.

`MCInstanceManager` has one instance (instances share nothing but the lock, and the devices
are disjoint), the two clients that can exist at a time, one device, two requests, one callback
goroutine and one incident (`MaxIncidents`: a pairing, a closed connection or a revoked device
that no request caused). Each request may ask for what the `Asks` of the run lists; the other
requests consist of the same steps. `BootStatuses` restricts the status column at boot, which
no guard depends on. The two clients are symmetric. CHECK_DEADLOCK is FALSE there: a finite
number of requests and incidents is served and then the system rests. The run that looks for
OneClient needs no callbacks, the one for StatusFollowsClient no incidents.

`ManagerLocks` has one stream, two clients and one callback. CHECK_DEADLOCK is FALSE so that
TLC states the liveness property that fails and not the deadlock that is its cause.

`MCAuditBus` has three entries, two streams and buffers of two, so that a burst may or may not
fit and two streams differ in what they miss. CHECK_DEADLOCK is FALSE: finitely many entries
are published and finitely many streams opened. The proofs need none of these bounds.

`MCSessions` has one session id, one address, two logins and two requests under way at a time, a
clock up to 4, sessions that last 2, and a limiter that locks for 3 after two failures in a
window of 2. So a session is refreshed and expires while another request reads it, two logins
pass the check before either fails, and a failure leaves the window before, during and after a
lockout. Ids never meet each other in the code and neither do addresses; logins and requests are
symmetric.

`MCSendPipeline` has three requests and room for two in a window of 3 ticks, two to a second,
with a clock up to 4: the third request may be refused with 2 or 3 ticks to wait, where 3 are
cut off to a second, and the window opens again before the clock stops. Each request has the
bodies that MCSendPipeline names: numbers that are rewritten rightly and wrongly, a group, texts
that are no number, two requests with the same message id, every list of up to three buttons and
one of four.

`MCInstanceStore` has an instance that exists or not, another id to mint, and three requests,
each of which may ask any of 14 things; three suffice for a request between the two steps of
another and one before or after. `MCPairing` has two requests for the code, two clients of the
instance and two batches: one token for two waiters, an eviction with a late batch, and a batch
that overtakes a reader. CHECK_DEADLOCK is FALSE in these three: finitely many requests are
served.

What the violated runs show, with the quoted comments, is in `findings`. In short: shutdown
closes the job channel while callbacks may still send on it; Start publishes a client without
looking whether another request has done so; a lazy load can slip into a delete; the status
written by a late Connected event is never corrected; event streams take two locks in the order
opposite to that of the callback, and a shutdown behind this deadlock hangs. The other findings
have no run: each is a disagreement that a line of a model shows as it stands, or one outside
the models, such as a panic on short keys and on a missing QRState, a redirect that does not
abort, answers 200 for instances that do not exist, and `allInstances`, which selects a column
less than it scans.

Fairness. `WebhookDispatcher`: weak fairness of every worker (the Go scheduler runs what can
run, attempts have a client timeout, backoffs and the token wait have timers), of callbacks
after their insert, of the steps of main, and of the passing of its deadline. HttpStopped is
fair only once the deadline has passed, because nothing makes a browser close its event stream,
and StopAll only while the lock it waits for is not stuck: ShutdownEnds therefore promises the
end of the shutdown or that lock, and nothing else in its way. Crashes, signals, events and
operators are not fair. `ManagerLocks`: weak fairness of every step that holds or can get what
it waits for; opening and closing streams and the events are up to the environment. `AuditBus`:
weak fairness of every call of Publish and none of the streams, whose readers may stop.
`Pairing`: weak fairness of the steps of every request, whose goroutine runs and whose deadline
passes; a token is owed to nobody in particular, and neither are batches. The other modules have
no fairness: they state safety only.

## Proofs

`WebhookDispatcherProofs` proves, from `DispatcherAssumption` alone (any finite non-empty set
of workers, any deliveries and instances, any positive queue size, number of attempts and
number of tokens):

- `InductiveInvariant`, `TypeCorrect`, `OneCarrierHolds`, `TokensMatchHoldersHolds`,
  `RowTellsTheTruthHolds`, `NoSilentLossHolds`, `GracefulDrainHolds`: the state invariants of
  the run `dispatcher`;
- `NoPostAfterFinalHolds`, an action property;
- `ImplementsDeliveryLog`: `Spec => LogSpec`;
- `RowsOnlyMoveOnHolds`: what a reader of the table sees never goes back;
- `AtMostMaxAttemptsHolds`, `DroppedUntouchedHolds`: no receiver is asked more often than
  MaxAttempts over all the lives of the process, and what was let go unsent was never POSTed;
- `JobsRunDownHolds`: the variant of the retry loop.

None of these is inductive alone. The inductive invariant `IInv` adds what ties the parts
together: a worker has a job exactly while its control point says so, its loop counter is the
number of answers its job has had (one less before the POST), a job that is queued or carried
has the course `queued` and, until its loop ends, no final answer; a row is behind the loop by
the updates that were lost; control points agree with the phase of main. Type correctness comes
first and is used by every later lemma; each part of `IInv` is preserved action by action;
cardinality facts about the set of token holders (one worker more, one less) are lemmas used by
Acquire and Release. The refinement maps Update to `Tried` or a stutter, RecordDelivery to
`Create`, DeleteInstance to `Purge` and everything else to a stutter.

`RowsOnlyMoveOn` is a property of `DeliveryLog`, so the proof is about the short specification
wherever it can be: its steps move rows on as long as they are typed, and `ImplementsDeliveryLog`
carries that over to the pipeline. AtMostMaxAttempts needs that the loop counter, the number of
answers and the control point agree, which `IInv` says, and the history of answers survives a
crash, so it bounds the POSTs of a delivery and not those of one process. `Remaining(w)` is the
number of steps that worker w has before it at most: a natural number never above
3 * MaxAttempts + 1 that every step on the job lowers. This is the part of EveryJobEnds that can
be proved; that a worker takes its next step is fairness.

`InstanceManagerProofs` proves, from `ManagerAssumption` alone (any instances, clients, devices,
handlers and callbacks), the three invariants of the run `manager`. HeardOnce speaks of clients
that are in the map or connected, and is not inductive: a step could publish, connect or
reconnect a client that has no handler. `HooksControl` therefore speaks of every client that is
in the map, has or waits for a connection, or is held by a thread that did not just build it:
it has one handler once main has subscribed and none before; a client that is being built has
none, and one builder. That needs `ThreadsControl`: the steps a thread has left come in the
order of Start, so nothing but a read of the device leads to a publication. `OwnersControl`
says that a client in the map reports for its instance and that no client is revoked before it
is published, from which NoZombie follows. Every step of a request or a callback that starts
nothing is "plain": it leaves handlers, owners and devices alone and continues with steps in
that order; one lemma treats all of these, and the steps of Start have their own.

`OwnClientHolds` and `OnePhoneHolds` are about several instances. `HandsControl` says that the
client in the hands of a thread reports for the instance the thread is at, and that the jid read
by a Start is dropped before the Start can do anything else. `OnePhone` is inductive with it: a
linked device passes from the row to the jid in the hands of Start, to a new client, and through
the identity written by Connected back to a row, always of one instance. A device that is newly
paired is one that no row, client or Start has, and those are the guards of `Pair`: that
whatsmeow, which mints a device for every pairing, never hands out one in use is the assumption
these two theorems make of it. The run `manager` has one instance, where they say nothing, so
they are not among its properties; with two instances, two clients, two devices and one handler
TLC found no violation in 309,558 states, and the theorems hold for any number.

`ManagerLocksProofs` says what the violated run `manager_locks` leaves open. `Cycle(s)` is the
deadlock: stream s holds the mutex of the manager in its loop, and each client it has yet to
visit is read-locked by a callback that asks the manager. `CycleIsForever`: no step of anyone
breaks it, and the callbacks in it never return. `UndisturbedOnlyWithoutCycle`: FlowUndisturbed
holds only of behaviours that never close such a cycle. `OnlyCycleBlocksHolds`: it is the only
way to get stuck; a callback that waits outside of a cycle waits for a free lock, a loop that
can go on, or a callback that can return. All follow from one invariant, that a stream is in a
loop exactly while it holds the mutex (`LocksInv`), and need that Nobody is not a stream.

`AuditBusProofs` proves, from `BusAssumption` alone (any entries and streams, any positive
buffer size), `TypeCorrect`, `NoSendOnClosedHolds`, `InOrderOnceHolds` and `BurstArrivesHolds`:
every safety property of the run `audit_bus`. The first needs nothing else. NoSendOnClosed
follows from `BusControl`: a Publish has only open streams left to visit, because cancel waits
for the readers of the lock. InOrderOnce is inductive together with `FeedControl`: what a stream
reads comes from calls that are done with it. BurstArrives is strengthened to `BurstPassed`,
which speaks of every entry that has passed the stream; the step that loses an entry is
harmless because a full buffer is an injection of BufferSize places into the other entries
published since the stream subscribed (`FullMeansMore`), so the burst was larger than the
buffer.

`SessionsProofs` proves, from `SessionAssumption` (any lifetimes, window and limit, a lockout no
shorter than the window), every property of the run `sessions`. Genuine is inductive with
`ReadIsGenuine`: a request whose session is valid when it reads the row, or whose copy of the
expiry has not passed, is one whose session was valid since it came. The limiter has two parts.
`LimiterControl` says that it keeps what was tried, short of failures that have left the window.
`LockLasts` looks ahead: at every later time at which MaxFailures failures still count, the
lockout is still in force. That is where the lockout must not be shorter than the window: an
address whose lockout ended first could be at its limit unlocked. WithinLimit speaks of the
moment of the check only; `GuessesBoundedHolds` bounds what comes after it, when logins that
passed the check together all fail: `RoomControl` counts the failures in the window and the
logins past the check together. A failure moves one login from the second to the first, and a
check adds to the second only when the first is below the limit. That the logins under way are
finitely many (`LoginsAssumption`) is all it needs beyond that: each has a goroutine.

`SendPipelineProofs` proves, from `SendAssumption` and `BodyAssumption`, every property of the
run `send`. `LimiterControl` says that a bucket holds what was admitted, short of what has left
the window, so that bucket and history agree on the window; the refinement `KeepsBudgetHolds`
needs no more. `AnySpanHolds` is a consequence of it that the code nowhere computes: no span as
long as the window, wherever it begins, contains more than Max admissions of a key. It is
inductive in `SlidingWindow`, which keeps every admission, and not in the pipeline, which
forgets them. `HintControl` remembers for a refused call the Max admissions that filled its
window and that the first of them leaves it less than a second after the seconds it was told;
`CutOff` is the arithmetic of the division that it rests on. `Requested` says that a request
that sends has a body that passed the checks, the id that its body determines and the right
recipient, and `MessageControl` that every accepted message is such a request's and has an id of
its own.

`PairingProofs` proves, from `PairingAssumption`, the three safety properties of the run
`pairing`, that no answer with status 200 is empty (`NoEmptyAnswerHolds`), and that batches keep
their order (`BatchesInOrderHolds`). `Kept` says that codes which are there stay, so that a
token, a request that was woken and one that is late can rely on them; `Fresh` that what was
announced of the client in the map is no newer than its codes, unless these are of another
client. `Ahead` says that a batch which is not stored yet is newer than every batch of its
client that is, in whichever QRState, so storing it never takes a QRState back.

`InstanceStoreProofs` proves, from `StoreAssumption`, every property of the run `store`. What a
request found in the history of the row while it ran stays there, which makes `AnswerControl`
inductive: an answered request has the value in its part of the history that its answer
promises. `RowsControl` says that the history of an id is that of one row, whose values have a
webhook or none, `LoadedControl` that the form which keeps the secret has one, and `KeyControl`
that a generated key is stored by its own request, once, and that later values of the row have
it from the one before.

Only model-checked: the liveness properties EveryJobEnds, ShutdownEnds, LogReturns and
CodeReachesPage. They follow from weak fairness, whose definition contains ENABLED, and the
installed provers cannot reason about that. JobsRunDown, OnlyCycleBlocks and Kept are what can be
proved about progress: a measure that runs down, a wait that is never for nobody, and codes that
stay until they are asked for. Of the runs that expect a violation ManagerLocks has theorems; the
others refute a sentence of a comment, and of that there is nothing to prove. No run has the
properties RowsOnlyMoveOn, AnySpan, AtMostMaxAttempts, DroppedUntouched, JobsRunDown, OwnClient,
OnePhone, NoEmptyAnswer, BatchesInOrder and OnlyCycleBlocks: each was model-checked on the
configuration of its component (OwnClient and OnePhone with two instances) before it was proved.

Left to prove: refinements of `AuditBus` (a feed that loses entries only to full buffers) and of
`InstanceStore` (a row that single requests read and write at once). Invariants of these modules
say the same of particular steps.

## Not modelled

- The watchdog of an event stream, which gives up on a write that is still running, and the
  handlers left behind on clients that were evicted: hazards and findings without a model. The
  outcome of two writers on one response is that of net/http and not of this code.
- Event normalisation (`internal/webhook/events.go`): a pure mapping to JSON, tested; the models
  only need whether an event is forwarded.
- Instance logs: append-only inserts and a listing.
- Database and migrations: goose runs them before anything else starts. That one connection
  makes single statements atomic is assumed everywhere.
- Configuration: its values are the CONSTANTS.
- Templates, browser code, the API description, the audit content, headers and response texts.

Partly modelled are the manager (StopAll is in the dispatcher's shutdown; reads such as All are
left out), the store and the delivery log (listings), and the pages (formatting).
