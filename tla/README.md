# Verification of the order execution engine

TLA+ models of the engine in `src/src` (Express API, BullMQ queue, worker,
mock DEX router, WebSocket notifications), model-checked with TLC and, where the
statement matters for every size of the system, proved with TLAPS. Line numbers
refer to the files of the repository; `worker.ts` is `src/src/queue/worker.ts`.

## 1. The system: inventory

A client posts an order; the API saves it and adds a job to the queue `orders`;
a worker process takes the job and runs `processOrder`, which quotes, "builds",
submits with up to three attempts and confirms or fails the order; every status
is saved, stored as the job's progress and published on a Redis channel; the
server forwards both to WebSocket clients.

| Component | State | Operations | Interacts through | Correct when |
|---|---|---|---|---|
| `processOrder` (`queue/worker.ts`) | the call's position, the `Order` object it mutates, `attempt`, the error | findOneBy/create, `updateOrderStatus` (save, progress, publish), quotes, attempt loop, two catch blocks | database row, job progress, channel `order:<id>`, DEX | one swap per run, verdict = row, saved before sent and before told, it ends |
| Quote routing (`worker.ts:97-123`, `services/mockDexRouter.ts`) | the answers | `getQuote` ×2 in parallel, filter, reduce | `Promise.all` | best received quote, gives up only without any |
| Queue (`queue/index.ts`, BullMQ 1.91) | lists wait/active, sets delayed/completed, locks, attemptsMade | add, moveToActive, moveToFinished, moveToDelayed, extendLock | Redis Lua scripts | each job in one place, run at most once, in one worker's hands |
| Worker run loop (BullMQ `worker.js`, started at `worker.ts:302-375`) | jobs fetched and running, closing flag | fetch, processJob, fetch-next on completion, close on SIGTERM/SIGINT | queue, `processOrder` | concurrency bound, no job started on close, serves every job |
| REST API (`routes/orders.ts`) | the request being handled | POST /execute, GET /status | database, `enqueueOrder` | accepted orders get a verdict, refused ones never execute |
| Database (`db.ts`, `models/order.entity.ts`) | table `orders` | save, findOneBy | shared (PostgreSQL) or one `:memory:` per process | rows tell the truth |
| Order events bridge (`queue/orderEvents.ts`) | singleton `QueueEvents` | on progress → `sendToOrder` | Redis stream → WebSocketManager | clients see the statuses in order |
| QueueEventsManager (`services/queue-events.ts`) | listeners, publisher | on completed/failed → publish; cleanup | channel `order:<id>` | nothing contradicts the verdict |
| WebSocketManager (`services/websocket-manager.ts`) | order → set of sockets | register, unregister, sendToOrder, broadcast, closeAll | socket events | registry = open subscriptions, no leak |
| WebSocket routes (`routes/ws.routes.ts`) | subscriptions per socket | subscribe, unsubscribe, close | WebSocketManager | subscriptions = registry |
| Path-based sessions and server lifecycle (`server.ts`) | a Redis subscriber per socket | upgrade, connect/subscribe, close, SIGTERM | Redis pub/sub, WebSocketManager | each subscriber ends with its socket; shutdown ends |
| `services/redisClient.ts` | in-memory pub/sub | createRedisClient with ping/timeout race | (imported nowhere) | one client is left |

Hard behaviours: every `await` of `processOrder` is an interleaving point and a
failure point; a save that rejects lands in one of two catch blocks whose own
saves may reject; Redis may add a job, or complete one, twice when the reply is
lost; processes die or are closed with jobs in their hands; locks expire; saves
of duplicate jobs overwrite each other; by default the server and each worker
have separate databases. On the way back, a status travels by the event stream
and by pub/sub, which are ordered each but not with respect to each other; both
can lose what is sent before a reader is there; a socket may close, fail or send
a message at any point of the set-up of its session or of a shutdown.
`PROJECT.json` lists every such hazard at its line, with the properties that
watch it.

## 2. Modules

| Module | Models | Extends / instantiates |
|---|---|---|
| `OrderProcessor` | `processOrder` of `worker.ts:36-300`, one action per await | Integers; `OrderLifecycle` as the specification it implements |
| `OrderLifecycle` | what an order is promised: abstract specification | |
| `QuoteRouting` | the choice of a quote, `worker.ts:97-123` | Integers, Sequences |
| `BullQueue` | the queue and the worker run loop | |
| `OrderEngine` | API + queue + workers + `processOrder` | INSTANCEs of `OrderProcessor` and `BullQueue` over its variables |
| `WebSocketManager` | the registry of clients: operators without a next-state relation of their own, since its methods run inside the handlers of others | |
| `NotificationServer` | start-up, shutdown and the sessions of both WebSocket endpoints | extends `WebSocketManager` |
| `OrderNotifications` | `processOrder` + event stream + channel + sessions, up to what a client takes for the verdict | INSTANCEs of `OrderProcessor` and `NotificationServer` over its variables |
| `MCOrderProcessor`, `MCOrderEngine`, `MCOrderNotifications` | instances for TLC, and statements of the documentation that the code does not keep | the modules above |
| `OrderProcessorProofs`, `OrderVerdictProofs`, `OrderLifecycleProofs` | theorems about `OrderProcessor` (section 4) | each extends the one before; TLAPS |
| `QuoteRoutingProofs`, `BullQueueProofs`, `NotificationServerProofs` | theorems about one component each | the component, TLAPS |
| `OrderEngineProofs`, `OrderNotificationsProofs` | theorems about the compositions | the composition; INSTANCEs of the proofs of its parts |

Operators named in a comment as a *mutant* are wrong versions of the definition
that follows them. No specification uses them; each shows that a property
notices the mistake (`PROJECT.json`, `mutants`).

### OrderProcessor

`pc[j]` is the await at which the call for job `j` is suspended, and an action
resolves that await and runs the code up to the next one, as Node does.
`updateOrderStatus` has three awaits (`part`: save, progress, publish) and eight
call sites (`Sites`), which `AfterUpdate` leads on from. `mem[j]` is the entity
object, `row[o]` the database row; `Enter` changes `mem` before the save, as the
code does, and a save writes what the object holds when it is called.
`SaveFails` lets a save reject with or without effect (a commit whose
acknowledgement is lost). Where a rejection goes follows the source: inside the
attempt's `try` to `InnerCatch`, outside it to `OuterCatch`, in the outer catch
itself out of `processOrder` (`threw`).

Abstractions: a transaction hash is the pair of the job and the number of the
swap; quotes are "some valid" or "none" (`QuoteRouting` has the amounts; the mock
`getQuote` never rejects, but `worker.ts:103` is written for one that does);
messages keep their type and attempt; sleeps have no length; a save is one
atomic step. The last one matters only for two jobs of one order, where TypeORM
(which reads the row, then writes the columns that differ) could mix columns;
`ConfirmedIsExecuted` therefore claims of duplicates only what mixing cannot
break, since a status `confirmed` and a hash are written only after their swap.
The code after the loop (`worker.ts:267-281`) is unreachable, as the last
attempt returns in its catch block, and has no action: `Backoff` requires
`attempt < MaxAttempts`, and TLC's deadlock check shows that this never blocks.

### BullQueue

One action per Lua script or run-loop decision: `Add`, `Fetch`, `NoJob` (an open
`getNextJob` of a closing worker returns without a job), `Begin`, `Drop`
(processJob of a closing worker), `Complete` (which fetches the next job),
`Delay`, `Forget` (the script answers -2), and the environment: `LoseLock`,
`Close`, `Exit`, `Crash`, `Restart`. `processing[w]` is the size of the run loop's
map of promises (`worker.js:130-149`): those that are neither in `hand` nor in
`runs` are calls of `getNextJob` that are open. A worker that closes asks for no
more, but what it asked goes on: `getNextJob` looks at `closing` only when it
starts (180), and after `close()` has broken off its BRPOPLPUSH (440-441, and
221-232) it runs `moveToActive` (186), which takes any waiting job, also one
added after SIGTERM. So `Fetch` and `Complete` hand jobs to a closing worker, too,
and `Drop` leaves them in the active list; `Close` itself may lose what BRPOPLPUSH
has answered. `Exit` waits for all promises (447). With the fault `reply`, the answer of a
script that took effect is lost and ioredis sends the script again
(`FetchLost`, `CompleteLost`): the job that the first execution made active is
then in the active list and in nobody's hands. BullMQ 1.91 needs a
`QueueScheduler` to promote delayed jobs and to return stalled ones; the
repository creates none, so no action does either. BRPOPLPUSH and the script
that follows it are one action: between them the job is in the active list
already, as after it. Removal of completed jobs by age is left out (nothing
reads them).

### OrderEngine

The variables of both component modules, and two of the API: `request[o]` and
the server's own table `apiRow`. `Begin` joins `BullQueue!Begin` with
`OrderProcessor!Call`, `Process` is a step of a call that runs in a live worker,
`Return` and `Throw` tell the queue, and a process that ends (`Gone`) takes its
calls, and a `:memory:` database, with it. `Faults` selects what may go wrong:
`crash`, `close` (SIGTERM), `lock` (expiry), `reply` (above), `resend` (ioredis
repeats an enqueue whose reply was lost, which adds a second job) and `refuse`
(the command fails, 503). `SharedDb` selects one database or one per process.

### NotificationServer and WebSocketManager

`connections` is the registry: a function whose domain is the set of keys of the
Map, because the code deletes the key of an order with its last client and
`/health` counts the keys. `ready[s]` is the socket's `readyState`, with
`CLOSING` split in two: a socket that closes itself still reads messages until
the other side has closed too, so a late `subscribe` registers it again.
`listeners[s]` are the orders whose `close` and `error` listeners hang on `s`;
`register` adds some on every call and `unregister` removes none. `sent[s]` is
what the handler that ran last has sent to `s`, so that action properties can
speak of messages. A handler is one action: `ConnectJson`, `Subscribe`,
`Unsubscribe`, `SocketError`, `Closed` (`ws.routes.ts`), `ConnectPath`,
`SubscriberConnects`, `SubscriberFails`, `SubscriberReplied`, `Relay`
(`server.ts:60-127`), `StartDatabase`, `StartPing`, `Shutdown`, `Drained`,
`Exit` (`server.ts:135-209`). Redis and ioredis are the environment:
`RedisStops`, `RedisReturns`, `RedisSubscribes`, `Resubscribes`, `LateReply` (the
answer to a subscribe reaches a session that has closed).

### OrderNotifications

A status leaves the worker twice. `Report` appends to `stream` what
`job.updateProgress` adds to the queue's event stream; `cursor` says whether
`QueueEvents`, which starts to read at `$`, will see it: an event that comes
between two blocking reads before any id is known is lost. `Publish` and
`PublishEnd` (the worker's completed and failed events) append to `channel[s]`
of every session whose subscriber Redis knows at that time; what arrives before
the message handler is installed is lost (`SubscriberReplied`), as is what is
published while Redis or the connection is away (`RedisStops`). `Forward` and
`Relay` deliver. The client concludes from the first `confirmed` or `failed` it
hears, as `example-client.js` does. Abstractions: one running server; the API's
part is done (the order's row exists, its job is in the queue).

## 3. Runs

Passing runs:

| Run | Instance | What it shows |
|---|---|---|
| `one_job` | `OrderProcessor`, 1 job, 3 attempts, database and Redis may fail | safety and action properties of a call, and that it ends, after a number of awaits that `AwaitsLeft` counts down |
| `one_job_reliable` | the same, database answers | `FailureIsHonest`; refinement of `OrderLifecycle` with its liveness |
| `quote_routing` | `QuoteRouting`, amounts 1..7 | best execution for every pair of answers in any order; an order is given up only if both requests failed |
| `queue_faults` | `BullQueue`, 3 jobs, 2 workers, concurrency 2; crash, close, lock, reply | one dispatch per job, lists and hands agree, concurrency, that a closing worker starts no job, is handed no more than it has calls open and ends with none in its hands; a worker that stays up serves every waiting job and frees every slot |
| `engine_faults` | `OrderEngine`, 1 order, 2 attempts, 2 workers, all faults but resend, database may fail | one swap per job end to end, and on record wherever the call ended; completed job ⇒ verdict in the row; 503/500 orders never execute; the status of an order moves forward only and a verdict stays |
| `engine_own_db` | 1 order with 2 jobs, 1 worker (concurrency 2) with its own `:memory:` database; crash, close, lock, resend, refuse | rows stay true when two calls overwrite each other's row and when the table is lost and the order created anew; while the worker lives, every accepted order gets its verdict |
| `sessions` | `NotificationServer`, 2 sockets, 2 orders, Redis stops and refuses, shutdown at any time | registry = sessions, nothing left behind, subscribers follow sockets, no foreign orders heard; path clients served or dropped, shutdown ends when clients let it |
| `notifications` | `OrderNotifications`, 1 order, 2 attempts, 1 client of either endpoint, database fails, Redis goes and comes | what a client is told is true, in order and never ahead of the row; neither stream nor channel loses a verdict before the client has it; a client that follows learns the verdict from the stream, one that listens in time from the channel |

Runs that find what the documentation says and the code does not do:

| Run | The statement | What happens |
|---|---|---|
| `confirmed_then_failed` | confirmed is final (README_PRODUCTION.md:260) | the save in `updateOrderStatus('confirmed')` rejects, the attempt's catch sets the executed order to failed |
| `order_lost` | no orders lost mid-execution (README_PRODUCTION.md:120); a restarted worker goes on with the queue | a crash leaves the job in the active list and the order without a verdict; so does a shutdown, when the closing worker is handed a job, even one added after SIGTERM (set `Faults = {"close"}` for that trace) |
| `idle_client` | graceful shutdown (README.md:112, `server.ts:190`) | a client of `/ws/orders` without a subscription is not closed, and `server.close` waits for it as long as it stays |
| `premature_failure` | `failed` is sent when all retries are exhausted (README_PRODUCTION.md:663-664) | the outer catch's save rejects, the job is delayed for another attempt, and QueueEventsManager publishes `failed` of an order whose row is unfinished |

More statements are contradicted by a line or two of the code and have no run:
README_PRODUCTION.md:98 ("picks lowest output amount"; `worker.ts:122` keeps the
larger one, see `BestExecution`), :112 (attempts per order; a resent enqueue adds
a job with attempts of its own), :271 and :628 (submitted is 75–90 %;
`worker.ts:157` reports 80, 90 and 100), :273 (failed means "all retries
exhausted"; `worker.ts:117` fails an order without quotes before the first
attempt), :481 (GET status shows the current status; the server's own `:memory:`
row stays pending), and `tests/websocket-routes.test.ts`, which expects
`subscribed` as the second message where `register` sends `connection` first.

Bounds. Three attempts are those of the code; the larger instances use one or
two because the loop body is the same for each and `GivesUp` distinguishes only
the last. Two jobs are enough for a conflict on a row, two workers for a
conflict on a job, and three jobs with concurrency 2 let a completion fetch a
job while another is held. Two sockets and two orders let the events of one
client or order reach another; a socket is used for one session, since the
server keeps nothing of a closed one, which `NothingLeftBehind` shows. In
`notifications` the sessions of different sockets do not interact (`sessions`
shows it), so one is enough, and all messages of one job fit in its `channel`
and `stream`, which need no bound. Counters (`swaps`, `made`) need none either:
the specification bounds them, which is what `SwapOnce` and `DispatchedOnce` say.
Crashes, restarts, closings and losses of Redis are not counted, as processes
keep no counter. No run uses symmetry.

Fairness. `OrderProcessor`: weak fairness per call, since Node resolves every
timer and every answered command; a database call answers or rejects and Redis
commands are retried until they succeed (`maxRetriesPerRequest: null`).
`BullQueue` and `OrderEngine`: weak fairness of the run loop of a live worker
(the answer to an open `getNextJob`, with a job or without; begin or drop;
complete, delay or forget) and, in `OrderEngine`, of the
API handler and of `Restart`, which an operator or supervisor performs; none of
faults or signals. `Served` assumes that some worker stays up in the end.
`AcceptedGetVerdict` is claimed only while workers neither crash nor close;
`order_lost` shows why. `NotificationServer`: the event loop runs what is due,
which is the answers of database and Redis, the reconnecting of ioredis, the end
of a shutdown while Redis is up, and `Closed` (`ws` destroys a socket 30 s after
it began to close). Clients owe nothing: they may stay for ever, and
`PathClientsAreServed` and `ShutdownEnds` say what holds nevertheless.
`OrderNotifications`: the worker's steps, and delivery of what has arrived while
Redis is up; nothing makes a client connect, a subscriber be in time, or Redis
return.

## 4. Proofs

For all values of the constants, from the named assumptions of the modules
(`OrderOf` maps jobs to orders, `MaxAttempts`, `Concurrency` and `Attempts` are
positive, amounts are positive, switches are Booleans). Every invariant and
action property of the passing runs is a theorem:

| Module | Theorem | States |
|---|---|---|
| `QuoteRoutingProofs` | `FilteredKeepsValid`, `ReducePicksLastBest`, `TypeCorrect`, `TakesBestQuote` | what filter and reduce return for a list of any length; `TypeOK`, `BestExecution` |
| `OrderProcessorProofs` | `TypeCorrect`, `AtMostOneSwapPerJob`, `RowsTellTheTruth` | `TypeOK`, `SwapOnce`, `ConfirmedIsExecuted` |
| `OrderVerdictProofs` | `VerdictTold`, `FailuresAreHonest`, `SwapIsWrittenAhead`, `RowsComeFirst`, `ReportsAreFinal`, `PercentGrows`, `CallsAreBounded` | `VerdictMatchesRow`, `FailureIsHonest`, `WriteAhead`, `ToldAfterSaved`, `ReportedVerdictIsFinal`, `ProgressGrows`, `EveryAwaitCounts` |
| `OrderLifecycleProofs` | `ImplementsLifecycleSteps` | the safety part of `ImplementsLifecycle` |
| `BullQueueProofs` | `TypeCorrect`, `AccountedFor`, `NeverTwice`, `KeepsWithinConcurrency`, `ShutdownDrains` | `TypeOK`, `Accounted`, `DispatchedOnce`, `WithinConcurrency`, `ClosingDrains` |
| `NotificationServerProofs` | `TypeCorrect`, `RegistryIsTrue`, `SubscribersFollow`, `NothingLeft`, `ClientsHearTheirOrders` | `TypeOK`, `RegistryMatchesSessions`, `SubscriberFollowsSocket`, `NothingLeftBehind`, `HearsOnlyItsOrders` |
| `OrderEngineProofs` | `TypeCorrect`, `ImplementsQueue`, `NoSecondSwap`, `RowsStayTrue`, `RefusedStaysOut`, `CompletedIsAnswered`, `SwapsAreOnRecord`, `StatusNeverReturns` | `TypeOK`; the engine's steps are steps of `BullQueue`; `OneSwapPerJob`, `RowsAreTrue`, `RefusedNeverExecutes`, `CompletedHasVerdict`, `SwapsLeaveTrace`, `StatusMovesForward` |
| | `ImplementsLifecycleSteps` | the engine implements `OrderLifecycle` (safety), if the database is shared and answers and orders have one job |
| `OrderNotificationsProofs` | `TypesStay`, `ImplementsParts` | `TypeOK`; its steps are steps of `OrderProcessor` and of `NotificationServer` |
| | `VerdictsAreTrue`, `NeverAhead`, `ShownComesInOrder` | for orders with one job `VerdictIsTrue`, `NeverAheadOfRow`, `ShownInOrder` |
| | `StreamIsReliable`, `ChannelIsReliable` | `StreamLosesNoVerdict`, `ChannelLosesNoVerdict` |

`TypeOK` of `QuoteRouting`, `OrderEngine` and `OrderNotifications` is proved and
in no run; TLC checks those of the components that the compositions consist of.

The arguments:

- **The choice of a quote** (`QuoteRoutingProofs`). `Filtered` and `Reduce` are
  recursive functions over the positions of a list. The library's induction
  theorems take an operator, so `NatSetInduction` derives from the
  well-foundedness of the naturals an induction over *sets*: the set of the
  lengths for which the claim holds has 0 and with `n` also `n + 1`. With it
  `FilteredKeepsValid` gives an increasing map from the positions that are kept
  to those of the list, and `ReducePicksLastBest` the last of the largest
  amounts; together they are `BestOfQuoteList`, which the one step that chooses
  needs. The answers no longer change by then (`Inv`).
- **A call** (`OrderProcessorProofs!IInv`). `SwapOnce` is not inductive, for it
  does not say where the call is after its swap: `SwapInv` says that a call that
  has swapped is *settled*, at a point from which it never comes back to the
  loop (the catch block may be entered after a swap, by a failed save, hence
  `~transient` in `Settled`). `AttemptsCounted`: before the loop `attempt` is 0,
  without which its head could count past `MaxAttempts`. `HashInv`: entities in
  memory are as true as rows, since a save copies one to the other.
- **Its row and what it tells** (`OrderVerdictProofs`). `VerdictInv` says per
  program point what the entity holds (`EntityAt`), how the row compares to it
  (`RowAt`), and that a reported verdict means that the call is about to end
  (`ReportAt`); `HonestAt` that without database failures a call that has
  swapped is on its way to success. Statements about a row need an order with
  one job (`SoleWriter`), as the properties do. `PercentBounded` bounds the
  reported percentage at every point, for every `MaxAttempts`.
- **Its end** (`CallsAreBounded`). Termination needs fairness, but its safety half
  does not: `AwaitsLeft`, the awaits that the longest path from a point has
  left, is a natural number that every step lowers (`StepAwaits`), through
  retries and both catch blocks. `AttemptsCounted` is what makes it work at the
  head of the loop.
- **The refinement** (`OrderLifecycleProofs`). `LifeInv` relates what the
  refinement mapping reads of the row to the point of the call; each action then
  is a lifecycle step or a stutter.
- **The queue** (`BullQueueProofs!IInv`). `TypeOK`; `Queued`: the wait list holds
  the waiting jobs, once each; `InOneHand`: a held job is active and held by one
  worker; `CountedOnce`: a job is counted when it leaves the wait list and not
  before, hence once; `Bounded`: a worker's fetched and running jobs are finitely
  many and no more than the promises of its run loop, which `TypeOK` keeps within
  the concurrency and of which a worker that is down has none. `ClosingDrains`
  follows step by step (`StepDrains`): `Room`, the promises that have no fetched job,
  loses one with every job that a closing worker is handed, and as the worker
  ends only when it has no promise, `Bounded` leaves it no job.
- **Sessions** (`NotificationServerProofs!IInv`). `RegistryMatchesSessions` is
  inductive only with `OnlyLiveClients` (no closed socket in the registry),
  `SubscriberFollowsSocket` and `SessionShape` (which route has which
  subscriptions and which subscriber).
- **The engine** (`OrderEngineProofs`). Its steps are steps of the queue and of
  the calls, so the component lemmas are reused through INSTANCE. What ties them
  together is in `CallsInv`: a job that no worker has begun (`NotBegun`) has an
  idle call and no swap, so that `BullQueue`'s single dispatch makes
  `OrderProcessor`'s single swap one of the whole system, through crashes that
  reset calls. `RequestInv` ties the API's answers to the queue, and
  `AnswersInv` carries `RowAt` over to a shared database. `FinalInv` says where a
  call can be once the row has a verdict, and that a job not begun finds none:
  a crash ends a call for good, so no later call comes upon an earlier verdict.
- **Its database** (`RecordInv` in `OrderEngineProofs`). A crash takes a call back
  to `idle` with its swap counted, where no statement about the point it is at
  helps: `TraceAt` (`OrderVerdictProofs`) ties row and entity to the swap
  itself. That the row has an attempt on record needs that the loop counts from
  one and that the row is submitted when the swap is sent (`RowAt`). The row
  moves forward because the entity that a call saves is never behind it
  (`RankAt`), which is claimed of *pending* jobs only, those not begun or
  running: of a call that crashed it need not hold, and nothing saves its entity.
  An order's row exists before its job is in the queue and is never removed
  (`RowsRemain`).
- **The engine as a lifecycle.** `EngineLife` asserts `LifeAt`, the invariant of
  the call's own refinement, of the pending jobs. A step of a call is then a
  lifecycle step by `StepImplements`, and everything else the engine does
  (API, queue, crashes, restarts, locks) leaves the order where it is.
- **Notifications** (`OrderNotificationsProofs`). `BaseInv` carries the
  invariants of calls and sessions over, with the types of what is on its way.
  `ToldInv` says that what the stream, a channel or a client has of a verdict was
  told by a call that is ending (`Confirmed`, `Failed`: from there a call only
  returns), and that what the stream holds and the clients were shown is behind
  the row: a later state of the same path, by `Rank`, along which no row goes back
  (`RowInv` in `OrderVerdictProofs`). `InOrder` orders the last event shown, the
  events that wait and the job's progress, pairwise, since each of them becomes
  the one before it when events move on. These need that no two jobs
  write one row (`SoleWriter`), as the instance that TLC checks has it.
- **Their reliability.** `StreamOwes` and `ChannelOwes` say where a verdict that the
  client lacks can be: on its way, or still to be told. The first becomes a
  conclusion with the delivery of that event (`ConclusionStays` keeps it), the
  second the first with the step that tells it. The proofs need no `SoleWriter`, and
  hold for any number of events under way. They are the safety half of
  `FollowersLearnVerdict` and `ListenersLearnVerdict`.

Inductive candidates were checked with TLC before they were proved, and the
engine's refinement with the instance of `EngineFaults.cfg`, `DbMayFail = FALSE`,
all faults and `P!Lifecycle!Init /\ [][P!Lifecycle!Next]_(P!Lifecycle!vars)` as the
property (5199 states).

Only model-checked, and why: the liveness properties (`CallsEnd`, `Served`,
`AcceptedGetVerdict`, `PathClientsAreServed`, `ShutdownEnds`,
`FollowersLearnVerdict`, `ListenersLearnVerdict`, the fairness of
`ImplementsLifecycle`), which need fairness and ENABLED, beyond the prover's
reach. What each of them rests on is proved where it is a safety property: the
bounded number of awaits, the place of every job in the queue, and that no
verdict is lost on its way. The four runs that find a violation have nothing to
prove.

## 5. Not modelled

- `services/redisClient.ts` (in-memory pub/sub, ping against timeout): no file
  imports it. Nor do the parts that are called nowhere have actions: `broadcast`,
  `createWebSocketUpgradeHandler`, `closeOrderQueueEvents`.
- A signal while the database connects: the handler then destroys a data source
  that may not be there, and rejects without anyone to catch it. A protocol error on a socket that was refused, more than one listener of a kind
  per socket and order (they do the same), restarts of the server in
  `OrderNotifications` (a client would connect anew).
- Clients that vanish without closing: no heartbeat looks for them
  (`ws.routes.ts:154`), and when TCP gives up is outside the code. The rejected
  `unsubscribe` at `server.ts:123`, an unhandled rejection whose effect depends
  on the Node version.
- A `moveToActive` with the id of a job that is sent again after its reply was
  lost: it counts `attemptsMade` twice, which no property depends on, since a job
  that was delayed is never promoted and so never tried again.
- A WebSocket upgrade on a kept-alive HTTP connection while the server drains: the
  session would be one more that holds the shutdown up (`idle_client`).
- A save split into TypeORM's read and write (section 2, OrderProcessor).
- The example client's 60 s timeout and its POST.
- Request validation (400/404), logging, prices and fees, delays as durations,
  TypeORM and BullMQ beyond what `src/src` uses, compiled `dist`, tests, scripts.

## 6. What is left

In the order in which it would add most: the engine and the notifications
composed, so that API, queue and a restarting server act in one model (its state
space is beyond TLC with the present granularity); a save of `OrderProcessor`
split in two for duplicate jobs; BRPOPLPUSH as a step of its own,
so that `Close` loses exactly the jobs that came by it.
