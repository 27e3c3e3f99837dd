# Verification of quick-whatsapp-gateway

TLA+ models of the parts of quick-whatsapp-gateway in which a mistake would lose,
duplicate or reorder what users see: TLC checks them on small instances, and TLAPS
proves the most important invariants for every value of the constants.

Paths below are relative to `src/backend/` unless they start with `src/`.

## 1. The system

An **API** (MySQL, Redis, REST, public gRPC, WebSocket, webhooks, OIDC) drives a set of
**gateways**, each of which runs WhatsApp sessions (whatsmeow), a keystore and a durable
SQLite journal. A gateway opens one mTLS gRPC *control stream* to the API; the API calls
the gateway's *engine* service back to execute commands.

| Part | State it keeps | Operations | Talks to |
|---|---|---|---|
| Event journal (`internal/gateway/journal`) | `journal_entries`, `acked_through` | `Append`, `ReadUnacked`, `Ack` | event sink, control adapter |
| Control adapter (`journal/control.go`) | the last desired-state snapshot | `NextEventBatch`, `SetDesiredAssignments`, `ResetDesiredAssignments` | supervisor, journal |
| Control supervisor (`controlsupervisor`) | the stream, the batch in flight, timers | connect, heartbeat, batch, apply, renew | API control server |
| Reconciler (`desiredstate`) | applied revision, assignments and leases | `Apply`, `Expire`, `AllowsMutation` | session runtime, sink |
| Control server (`internal/api/gateway/control.go`) | one handler per stream | hello, heartbeat, report, events | gateway repository, ingest |
| Gateway and assignment repositories (`internal/store`) | `gateways`, `gateway_session_assignments` | `AcceptConnection`, `DesiredStateForEpoch`, `Reassign`, `DeleteSession` ... | MySQL |
| Event ingest (`gateway_event_ingest.go`) | `gateway_ingested_events`, `event_log`, claims | `IngestBatch`, `ClaimCommittedEvents`, `CompleteCommittedEvent` | MySQL |
| Committed-event worker (`service/committed_events.go`) | a claimed batch | `RunOnce` | projections, Redis, webhooks |
| Outbound scheduler (`service/outbound_scheduler.go`, `store/outbox.go`) | `outbox` | claim, dispatch, acknowledge, project | engine client |
| Command execution (`internal/wa/command_execution.go`) | the command ledger, flights | `runDurableCommand` | whatsmeow |
| Webhooks (`internal/webhooks`, `store/webhook_delivery.go`) | `webhook_deliveries` | `Enqueue`, `DeliverDue`, marks | MySQL, endpoints |
| Retention (`store/retention.go`) | none of its own | `Prune` | deliveries, ledger, `event_log` |
| Session manager (`internal/wa/manager.go`) | `Manager.sessions`, each session's client, device and status | `StartAssigned`, `StopAssigned`, `EnsureDevice`, `StartQR`, `StartPairingCode`, `Logout`, `Forget`, callbacks | reconciler, engine RPCs, whatsmeow |
| Enrolment, renewal, administration (`service/enrollment.go`, `service/renewal.go`, `store/*_tx.go`, `pki/gatewayidentity`) | `gateways`, `gateway_enrollment_tokens`, `gateway_certificates`; the gateway's identity directory | redeem, renew, drain, disable, re-enrol, delete; `Prepare`, `Install` | MySQL, signer, gateway's disk |
| History sync (`gateway/historysync`, `journal/history.go`, `store/history.go`) | the inbox and run tables, the API's runs and counters | accept, import, publish, finish, discard; `ApplyBatch` | journal, media server, projection |
| Realtime access (`internal/authz`, `internal/stream`, `router/realtime.go`) | the key cache and its generation, tickets, connections | verify, evict, mint, redeem, replay, tail | Redis, MySQL |
| OIDC provider (`internal/oidp`, `store/oauth.go`, `service/oauth_app.go`) | pending logins in Redis, grants and refresh tokens in MySQL | authorize, claim, stop, cancel, finalize, token, revoke | Redis, MySQL, control bus |
| Media, poll recap, request surfaces | see `PROJECT.json` | | |

What is hard here: a gateway and the API agree on ownership only through snapshots that are
stale when they are used; streams break between a commit and its acknowledgement; an old
stream's handler runs on while a new connection is accepted; sessions are reassigned or
deleted while their events are being replayed; leases run out under slow workers; and every
durable step is separated from the next by a crash. The hazards, each at its line, are in
`PROJECT.json`, with the properties that watch them.

What makes each part correct:

* *Journal and delivery*: an event the journal accepted is ingested or its assignment is over
  (safety: never dropped before; liveness: eventually), it is published once, in order.
* *Committed-event dispatch*: every committed event is eventually handed to the consumers, and
  one session's events in order as far as the claims do not overlap.
* *Webhooks and retention*: every delivery ends, within its budget of attempts, and no event body
  is pruned while a delivery of it is owed.
* *Outbound*: a command is reported failed only if nothing was sent, a result that is not known
  is reported unknown, and a retry never sends twice while the ledger remembers.
* *Assignment*: a gateway that has lost a session may hold it for a while, but what it sends then is
  fenced.
* *Sessions on a gateway*: a client a session holds is served by its own reconnect loop and comes
  back after a drop; overlapping starts and stops leave no loop behind; a logged-out session has let go of
  its device.
* *Enrolment*: a one-time token yields one recorded certificate, what a gateway installs is recorded,
  a revocation is complete, and a gateway that keeps asking gets its credential.
* *History*: what is reported imported has been applied once, waits or could not be read; a verdict ends
  its run, and every notification reaches one.
* *Realtime access*: a revoked key stops working, a connection delivers all that it read or was sent.
* *Login*: one login yields at most one token set, a denied one none; a refresh token has one heir.

## 2. Modules

| Module | What it is |
|---|---|
| `Journal` | The journal's value and operations as operators |
| `EventDelivery` | Journal, sink, reconciler, control adapter, supervisor, control stream, stream handler, repositories and ingest, composed: how an event reaches `event_log` |
| `DeliveryContract` | What that path promises, without streams or snapshots; `EventDelivery` implements it |
| `Fanout` | What every API replica does with a committed event: the committed-event worker, the webhook dispatcher, retention |
| `OutboundCommand` | One outbound command from the outbox row to WhatsApp: scheduler, engine RPC, the gateway's flights and result ledger |
| `SessionManager` | One session of a gateway: calls, reconnect loops, QR pump and client callbacks |
| `Enrollment` | One gateway's tokens, certificates, administration and identity directory |
| `HistorySync` | One session's history: the gateway's inbox and worker, the API's projection |
| `Realtime` | One key and one client: key cache, revocation, ticket, replay and tail |
| `Login` | One application and one user: pending login, finalization, tokens, revocation |
| `MCEventDelivery`, `MCFanout`, `MCHistorySync` | Small instances for TLC |
| `EventDelivery_proofs` | Lemmas on the journal's operators, type correctness, `IngestNeverConflicts`, `OnePublicEvent`, `AckMatchesBatch`, `HoldersAreFenced`, `NoLoss`, the refinement `ImplementsContract`, `OrderedLog`; the contract's two promises |
| `Fanout_proofs` | `CompletedIsDelivered`, `RetentionKeepsOwedEvents`, `OrderedUnlessOvertaken`, `KeptStaysPrivate` |
| `OutboundCommand_proofs` | Type correctness, `FailedNeverSent`, `AckNeverErased`, `Settled`, `OneSendPerLoss` |
| `Enrollment_proofs` | `ConsumedIsIssued`, `DiskMatchesRecords`, `RevocationIsComplete` |
| `SessionManager_proofs` | `HeldIsServed`, `LoggedOutIsUnpaired` |
| `HistorySync_proofs` | `DoneIsJournaled`, `VerdictIsLast`, `ReportedIsAccounted` |
| `Realtime_proofs` | `NoGrantAfterRevocation`, `AllDueIsSent` |
| `Login_proofs` | `OneTokenSet`, `DeniedGetsNothing`, `OneHeir` |

### EventDelivery and the code

One variable per table or object: `assignment`, `revision`, `connEpoch`, `ledger`,
`eventLog`, `sentLog` and `claim` are MySQL; `journal` is the gateway's SQLite file;
`sink`, `recon`, `adapter` and `stream` are what a gateway process forgets when it dies; `up`,
`down` and `handler` are the frames on a stream and the control point of `Server.Connect`.
`accepted` is a history variable, `faults` counts faults against their bound.

* A transaction is one action, except where the code does not make it one: `IngestBatch`'s
  fence is a plain read and its writes follow (`IngestFence`, `IngestCommit`), and
  `DesiredStateForEpoch` is three statements without a transaction (`StartPush`,
  `ListAssignments`, `PushDesiredState`).
* Resolving an event's epoch and appending its row are two steps (`Label`, `AppendEvent`), as
  are the reconciler's publication of a snapshot and the adapter's (`BeginApply`,
  `FinishApply`): the code holds no lock across them.
* `HandleEventAck`, `SendHeartbeat` include the batch that the code sends at their end, and the
  retirement of unauthorised rows inside it.
* Leaving a stream loses the frames on their way to the gateway and, once its handler returns,
  those it had not taken; the handler keeps running until it notices (`HandlerReturns`), so an
  ingest may commit on a stream the gateway has left.
* `RetireUnowned` is the local acknowledgement of `ControlAdapter.batch`; `LedgerInserts` is
  `INSERT IGNORE` with its foreign key; `ClaimsMessage` is `claimOutgoingEvent`.

Abstractions: an event is an ID, with its session and the message it echoes; every event has
size one (the byte limits of a batch and of the journal become counts); times are left out, a
lease may run out whenever it is not refreshed; payload encoding is left out. So the two errors of
`ControlAdapter.batch` about a row, that it does not decode (`journal/control.go:86`) and that it alone
exceeds the batch's bytes (`ErrControlEventTooLarge`, line 101), have no counterpart: such a row at the
front of the journal fails every batch, and `EventuallyIngested` is about journals without one.

### Fanout and the code

`row` is the ledger in claim order; a row's `owner`, `live` and `claim` are `claimed_by`,
whether `lease_until` lies ahead, and the events leased by the same statement (they share a
deadline). `worker` is the progress of `RunOnce` on each replica: the rest of its batch (a set, taken
oldest first: the claim returns its rows in the ledger's order), the consumer that is next, the
sessions it holds back. `delivery` and `dispatcher` are the same for webhooks. `commands` says which
sessions have an active app whose command the login messages are of, `cached` is the interceptor's cache
of that on each replica. `overtaken`, `reached`, `intercepted` and `settled` are history variables.

* `ClaimCommittedEvents` is two steps. Its `SELECT ... FOR UPDATE SKIP LOCKED` reads the rows it
  takes as they are, but the `NOT EXISTS` over their predecessors has no locking clause and is
  answered from the transaction's snapshot. `BeginClaim` takes the snapshot (`seen`),
  `ClaimCommittedEvents` takes the rows. Every replica claims whenever it likes; `overtaken` records
  the pairs of events of which the later was claimed under a snapshot that did not have the lease of the
  earlier.
* Each consumer is a step (`Intercept`, `Project`, `Publish`, `Enqueue`), followed by
  `CompleteCommittedEvent`; an error of any of them ends with `FailSession`, which drops the
  session's later events from the batch. `EnqueueFails` may have written some delivery rows,
  `CompleteFails` may have taken effect. `claimed_by` is the host name, so a replica owns the rows
  it claimed before a crash.
* `HandleLogin` keeps what decides a retry: a login command is recognised by the commands of the
  session's apps, from the replica's cache or else the table (`SessionApps`), STOP only by the login it
  denies, which is gone the second time. `ChangeApp` is an app's update, deletion, enabling or disabling
  with its announcement, `InvalidateSession` the announcement's arrival, which may never come.
* `Mark` covers the three `Mark*` statements, none of which looks at the lease; the budget is
  compared with the attempts of the claimed row.
* `PruneDelivery`, `PruneLog` are `Prune`'s two deletions with their conditions. A delivery is
  pruned days after it settled, so not while a pass holds its event; an event may be old when it is
  ingested, so its body may be pruned at any time the conditions allow.

### OutboundCommand and the code

One command: every statement is keyed by its ID. `row` is its outbox row, `fresh` says that
`updated_at` is within the lease; `attempts` stands for the lease's stamp, since every claim
increments it. `dispatcher[w]` is one run of `dispatchClaimed` with what its claim read
(`possible`, `acked`; `was` is `wasPossible`, `check` is `checkLimit`). On the gateway, `flight` is
`inFlight` for this command, `ledger` its `command_results` row, `allows` the answer of
`AllowsMutation`; `sends` counts what reached WhatsApp.

* Every step of `dispatchClaimed` that writes the row is an action, with `Owns` as the fence of
  the write and the early return when it is lost. A step that fails in the database, or whose
  process dies, is `Abandon`.
* `Arrive` is `joinCommand`, `Land` the end of the flight for all who wait. `Lookup` has the order
  of `runDurableCommand`: replay, fence, deadline. `Dispatch`, `Reject`, `FlightFails`,
  `DispatchUnacked` are the outcomes of the send; `Save` precedes the answer.
* An RPC may fail while its flight goes on (`RpcFails`), arrive at a gateway that no longer has the
  session, or join the flight of another dispatcher.
* `Loss` counts what may rightly cost a second message: an acknowledgement WhatsApp did not return,
  a result not saved, a gateway crash, a reassignment.
* A command is one WhatsApp message. An album is several sends under one command, of which some may go
  out and some not; nothing is claimed about that.

### SessionManager and the code

`sessions` is `Manager.sessions` for one session, `capsule` the `ManagedSession` objects (a call may
hold one that `Forget` has dropped), `client` the WhatsApp clients, each with the context, the loop
and the pump it was built with and the callback it is in, `op` the calls in progress, `keystore` the
devices that have a JID, `deleted` those whose keys were deleted. Objects nothing refers to are collected
and used again; a device that is used again is a new one (`DeviceIsNew`).

* An action is one critical section of `ms.mu` or `m.mu` or one call of the client between two of
  them. `teardown` is two steps: the session lets go of its client under the lock (`Torn`,
  `Cancelled`), the client is disconnected after it (`Disconnected`, together with the caller's next
  section).
* `LoopTop`, `LoopCheck`, `LoopConnect` are the steps of `reconnectLoop` between which another call
  may run; `LoopWait` polls the session's client of the moment, as `waitForReconnectSignal` does.
* Calls come at any time: neither the reconciler's reasons nor the fence of an RPC restrict them.
* `Login`, `Scan`, `DropLink`, `AutoReconnect`, `LoggedOut`, `Fatal` are whatsmeow's, and external.

### Enrollment and the code

`gateway`, `token`, `cert` are the three tables, `request` the handlers of the redemption and renewal
RPCs, `disk` the identity directory, `node` the gateway process, `placement` the creation of a session
on this gateway. A transaction locks the gateway's row and is one action; a handler is the sequence
`Acquire`, `Sign`, `Finalize`, `Recover`, `Release` (or `PrepareRenewal`, `SignRenewal`,
`FinalizeRenewal`), with the failure of each, an ambiguous commit and the death of the process.
`Install` is its four file operations; `Boot` recovers from any of them. A CSR stands for its key; a
certificate's `serial` tells two signatures of one CSR apart. Every administrative transition of
`gateway_admin_tx.go` is an action.

### HistorySync and the code

`row`, `runs`, `inbox` are the gateway's SQLite tables, `worker` the state of one pass of the worker,
`dropping` the handler of a logout or removal, `log` what the journal has of this session in the order
of first append, `done`, `ledger` and `api` the API's side. A notification is a model value with
its account and its number of batches. What the worker needs of the journal (order, one delivery per
id) is what `EventDelivery` shows. From there on the order is only as good as `Fanout`'s: `Project` may
take an event before its predecessors (as far as `MaxAhead`), or again when its completion was lost, and
`ProjectLate` is a worker that outlived its lease and projects what another has completed. `Apply` skips
a payload that cannot be read (`Unreadable`), as `projectHistoryBatch` and `projectHistorySync` do.

### Realtime and the code

`cache` is `CachingKeyVerifier` (one entry, the eviction generation), `key` the row and the notice of
its deletion on the control bus, `conn` the client's ticket and then its connection, `log` the state
of each event: allocated, committed, published. `VerifyKey` is three steps because the mutex is not
held across the lookup. A connection sends SUBSCRIBE, reads the log and replays up to `ReplayLimit` rows
if it has a cursor, then tails. Nothing waits for Redis: the subscription takes effect in a step of its
own (`SubscriptionLands`), before, during or after the replay. `due` collects what the connection owes
its client: what the log held when it was read, and what was published since the subscription landed.

### Login and the code

A Redis script is one action (`Create`, `ClaimVerified`, `DenyRecentForSender`, `Transition`,
`FinalizeScript`, `RedeemAuthCode`), a SQL transaction is one (`Upsert`, `Rotate`, `RevokeByGrant`),
and the handlers around them interleave. `late` says that a request's deadline has passed, its key
goes later (`Evict`).

## 3. Runs

| Run | Instance | Checks |
|---|---|---|
| `replay` | 1 gateway, 2 events, 1 deletion or reconfiguration, 1 fault | `OrderedLog`, `AckMatchesBatch`, `IngestNeverConflicts` |
| `delivery_mixed` | 2 sessions whose 3 rows share batches, one deleted, rows to retire in front of live ones, an echo of a message the API logs too | `OnePublicEvent`, `ImplementsContract`, `EventuallyIngested` |
| `delivery_faults` | 2 gateways, 1 event, 1 deletion, reassignment or reconfiguration, 1 fault | `TypeOK`, `NoLoss`, `HoldersAreFenced`, `ImplementsContract`, `EventuallyIngested` |
| `fanout_order` | 2 replicas whose claims may overlap, with a cache each, 2 messages of any kind, 1 change of an app, 1 fault | `OrderedUnlessOvertaken`, `CompletedIsDelivered`, `KeptStaysPrivate` |
| `fanout_settle` | 2 replicas, 1 webhook, 1 event, 2 faults, retention at any time | `RetentionKeepsOwedEvents`, `EventuallySettled` |
| `fanout_overtaking` | 2 replicas, 2 events, no fault | `InOrder`: violated |
| `command` | 2 dispatchers, 2 gateways, 2 attempts, 1 fault, 1 loss | `FailedNeverSent`, `AckNeverErased`, `OneSendPerLoss`, `Settled`, `EventuallySettled` |
| `enrollment` | 2 handlers, 2 tokens, 2 keys, 2 attempts, 4 operator transitions, 1 fault | `ConsumedIsIssued`, `DiskMatchesRecords`, `RevocationIsComplete`, `EventuallyCredentialed` |
| `realtime` | 1 caller, 3 events around a replay of 2, 1 foreign notice, 1 fault | `AllDueIsSent`, `NoGrantAfterRevocation`, `RevokedEventually` |
| `history` | 2 accounts, 3 notifications, 1 unreadable batch, 1 logout or removal, 1 fault | `DoneIsJournaled`, `VerdictIsLast`, `ReportedIsAccounted`, `HistorySettles` |
| `login` | 1 request, 2 finalizing tabs, 2 token requests, 1 rotation, 1 administrator's operation | `OneTokenSet`, `DeniedGetsNothing`, `OneHeir`, `StreamsEnd` |
| `sessions` | the reconciler and one RPC, 2 calls after the first, 3 clients, 1 fault | `HeldIsServed`, `LoggedOutIsUnpaired`, `LoopsEnd`, `HeldConnects` |

Every module states its `TypeOK`. That of `EventDelivery` is checked by `delivery_faults` and proved, that of
`OutboundCommand` is proved; the others say what the variables hold, and the runs of their modules,
whose properties read the same fields, do not list them.

**Bounds.** Two events are enough for an order and for a batch with a skipped row; two gateways
for a hand-over. For the liveness runs the bound on connections is at least
`1 + 2*MaxFaults + (MaxRevision - 1)`: every fault costs at most two connections and every
revision can end one stream through its report. `replay` has two connections and one
fault, enough for a replay after a crash or a lost acknowledgement. The proof of a replacement
connection beside a busy incumbent (`supervisor.go:261`) needs a third and happens in `delivery_faults`
only; that `OrderedLog` and `AckMatchesBatch` hold through it, and that `NoLoss` holds when a
session comes back to the gateway it left, is what their theorems show. `Online` lets the second gateway
of a hand-over exist in the database without running its process, so two gateways never hold a session at
once in `delivery_faults`: for that, too, `HoldersAreFenced` rests on its theorem. `delivery_mixed` has no
fault, and its echoes are replayed because a report ends the stream.
In `Fanout`, a message that is committed after the claim of the first leaves a successor outside it, one
committed before shares its batch; one fault is a
failure, an overrun or a crash, after which leases run out by themselves. One change of an app separates
the passes before it from those after it, and two messages let the first fill a cache for the second. In `OutboundCommand`, two dispatchers let a fresh owner and a stale one
meet, on one flight or on two gateways; two attempts are enough for exhaustion after a retry. What is
proved of the command holds for every number of them.
In `Enrollment`, two handlers are a retry that overtakes its original, two tokens a re-enrolment, and
four operator transitions reach every state of the gateway's lifecycle and back. In `Realtime`, three
events leave one before, one in and one behind a replay of two. In `HistorySync`, two notifications of
one account and one of another let a run be closed, dropped and superseded, and the unreadable batch is in the middle of a run. A worker
that outlives its lease projects an event after its successors; an event first projected ahead of an open
predecessor (`MaxAhead`) makes the liveness run too large and is left to the theorem `NoBatchUnaccounted`. In `Login`, two tabs and two
token requests are the smallest race of each. In `SessionManager`, the initial states are a fresh
process, a prepared session and a started one, so two calls are three; the bounds on capsules, clients
and devices never bind (checked as an invariant while the model was built).

**Fairness.** Weak fairness of the supervisor's loop and of each stream handler: both are
goroutines that select over channels with timers, and Go's scheduler starves neither. Nothing
is assumed of publishers, of configuration changes or of faults; there are finitely many.
`EventuallyIngested` says what the code can promise under that: once faults end, the journal
drains. In `Fanout`, weak fairness of each replica's two loops, which a ticker drives, and of the
passing of deadlines; in `OutboundCommand`, of each scheduler loop, of the gateway's flights (the
handler runs on when its caller has gone) and of leases becoming stale. Faults are never fair.

In `Enrollment`, handlers run to their end, the client repeats its call (`Ensure` retries), leases run
out and the operator starts the gateway with the newest token (strongly fair, since a start may be
interrupted); no administrative step is fair. In `Realtime`, requests end, cache entries age and the
subscriber handles what it received. In `HistorySync`, the worker's tick, the handler, the projection,
reconnection and the lease's renewal; nothing makes the owner link a phone, which `HistorySettles`
states as its premise. In `Login`, only time and the stream's own handler. In `SessionManager`, each
reconnect loop on its own, and everything else only together: calls, callbacks and pumps take finitely
many steps, so that is weaker than what Go's scheduler gives.

**Deadlock** is not checked, except in `history`: with the bounds used up and every event ingested the
models may stop.

### Known disagreements

Places where the code does not do what a comment or a document says. The first is a run in which TLC
finds the documented property violated, and a finding of `PROJECT.json`. For the next three the module
states the documented property too, TLC refutes it on the instance named here, and the runs check what does
hold instead:

* *A later event may overtake a leased one* (`fanout_overtaking`). `docs/architecture/eventing.mdx:231`
  (marketing site): "A session's later events cannot overtake a currently leased predecessor." If one
  replica's claim takes its snapshot, another replica claims the first event, and the first replica then
  reads the second event, it leases the second while the first is under lease
  (`gateway_event_ingest.go:198`). It takes two claims at once and more open events than one batch holds;
  everything else keeps the order (`OrderedUnlessOvertaken`).
* *A retried login command may be taken for chat* (`LoginNeverFansOut`; one login command, one change of an app, one fault).
  `oidp/login_interceptor.go:104`:
  "so credentials and attempts are never fanned out as chat content". When the completion of a handled
  command is lost and its app is disabled or renamed before the retry, the retry projects and publishes
  it. While the apps stay as they are it does not (`KeptStaysPrivate`).
* *An event may fall between replay and tail* (`NoGap`; two events, no fault). `docs/architecture/stream.mdx:84`:
  "**Subscribe first** — open the Redis subscription *before* any replay". `pump.go:98` sends SUBSCRIBE and
  reads the log without waiting for the confirmation (`oidp/controlbus.go:80` does wait): what is published
  after the read and before Redis has the subscription is not delivered. What is read or sent is
  (`AllDueIsSent`).
* *A run may be shown as running after its verdict* (`VerdictIsFinal`; one notification, one fault). `docs/architecture/store.mdx:427`:
  "`status` mirrors the latest phase". It mirrors the phase of the event projected last
  (`store/history.go:767`), which after an overrun lease or overlapping claims need not be the latest. In
  the journal the verdict is the last word (`VerdictIsLast`).

No property of a run is about the others:

* *A retried STOP is taken for chat.* `oidp/login_interceptor.go:104`: "It returns handled=true whenever
  this interceptor owns the message". STOP is recognised through the login it denies; when the
  completion of the event is lost, the retry finds none and the message is projected and published.
* *A webhook row may pass its budget of attempts.* `webhooks/backoff.go:46`: "This is the total number
  of POST attempts; when attempts reaches this number with no success, the delivery is dead-lettered."
  An attempt that outlives its lease and its successor both count themselves as the same attempt, while
  the column counts both: a row at its budget is scheduled again. It settles all the same
  (`EventuallySettled`).
* *Re-enrolment does not always recover.* `plan-grpc-control-plane.md:449`: "**re-enroll** is the explicit
  recovery action after credential loss or expiry". A gateway whose pending CSR was recorded under an
  earlier token or as a renewal is refused at `enrollment_tx.go:232` until its pending key is removed;
  `EventuallyCredentialed` names the case `CsrWasIssued`.
* *A stopped session may leave a connected client.* `wa/manager.go:487`: "Stop disconnects a session and
  halts its reconnect loop". `reconnectLoop` and `StartQR` call `Connect` after a check without a lock;
  after a concurrent teardown's `Disconnect` the client is connected again and no session holds it. The
  loop itself ends (`LoopsEnd`). In the same way `setLoggedOut` may swap the device of a session for
  which another call has just built a client, and a start between the two halves of `Forget` runs a
  session the registry does not know.
* *A failed or logged-out session ends as "stopped".* `docs/openapi.yaml:5085` reserves "stopped" for
  sessions an operator stopped. The failed or logged-out status makes the row inactive, the next
  snapshot says STOP, and `StopAssigned` reports "stopped" (`reconciler.go:139`, `manager.go:231`).
* *Logout does not stop the history worker.* The worker goes on with a notification it has read, and may
  open a new run after the logout (`session-manager.mdx:215`: "logout and `Forget` discard everything
  pending").

## 4. Proofs

`TypeCorrect` (`Spec => []TypeOK`). `TypeOK` is not inductive: `LastSeq` of a batch is a number
only if the batch is nonempty and bounded, and a log position is a number only if the log is
finite. `Typed` adds that journals have unique keys below their counter (`WellFormed`), that
batches in frames and handlers are finite, distinct and below the counter of the journal they
come from, and that a stream that is applying a snapshot still has it at its head. The lemmas
are grouped by what a step may change: `HandlerMoves`, `GatewaySends`, `GatewayTakes`,
`SendBatchTyped`, then one lemma for each action. That a bounded set of naturals has a largest
element (`LastSeqIsNewest`) comes from the well-foundedness of the naturals.

`ReplayNeverConflicts` and `MessagePublishedOnce`. `OnceInv` adds to the types: the ledger knows
every logged event unless its session is deleted; the API's own event holds its message's
claim, and a published echo holds its message's claim, unless the session is deleted. With
these, a row that passes `LedgerInserts` cannot be in the log, and a row that passes
`ClaimsMessage` is the only one for its message, in the batch (`OneRowForEachMessage`) and in
the log. Deletion is final: no action gives a deleted session an owner again.

`OnlyTheOwnerIsCurrent` (`HoldersAreFenced`). The property is about what a gateway holds, and the next
snapshot decides that: `FenceInv` asks the same of every assignment set a handler has read and of every
snapshot in a stream. It is stable because an assignment's epoch only grows and a deletion is final
(`Follows`).

`AcknowledgementsMatch` (`AckMatchesBatch`). An acknowledgement is right only if it answers the batch
the gateway still waits for, so the invariant follows a batch along the stream: a gateway has at most one
batch under way, in a frame, in the handler or as an acknowledgement on its way back, and wherever it is,
its last sequence is the one the stream expects (`Flight`), whose row the journal still has (`KnownAt`). A stream that ends takes the frames with it, and a
handler that outlives its stream writes to nobody.

`NoEventIsLost` (`NoLoss`), the longest argument of the project: a row leaves a journal through an
acknowledgement or by local retirement, and either was decided elsewhere, earlier. The invariant is built
in four layers.
  * `FenceInv`, as above.
  * `EntriesInv`: every row in a journal, a frame or a handler was accepted by that gateway under that
    epoch (`Traced`), and an epoch in `accepted` was allocated before (`Acceptable`), so one that is over
    stays over.
  * `CoverInv`: a snapshot may be stale, but not so stale as to drop what its gateway owns. Every snapshot
    a gateway can still act on has, for each session the gateway owns and knows of, the current epoch
    (`Covers`). `DesiredStateForEpoch` makes it hard: its three reads are no transaction, and between them
    the assignment may move. `Reads` says what the first reads still guarantee and what the final
    comparison of the revision adds (`PushDesiredState`).
  * `SweepInv`: when a batch is sent, all rows of the journal through its last sequence are in it or are
    gone for good (`Sweeps`); when it has been ingested, all of them are in the ledger or fenced
    (`AckFrame`). So an acknowledgement deletes nothing that is owed, although it names only a position.
`Moves` states, once for all layers, what a step may do to a journal and to the frames of a stream.

`DeliveryImplementsContract` (`ImplementsContract`). The mapping reads the contract's pending entries off
the journals and its published counts off `event_log`. Each action is shown to be a step of the contract
or a stutter: assignment changes are its own, an append is its `Accept`, `IngestCommit` its commit (with
`OnceInv`, so that the count is right), an acknowledgement and a retirement drop only entries that
`SweepInv` and `CoverInv` show committed or over. Most steps are stutters because they move frames only.

`LogIsOrdered` (`OrderedLog`). Acknowledged rows are gone from the journal, so the order cannot be read
off it. The invariant speaks of the rows still on their way instead, in a journal, a frame or a handler: one
that is older than a row of its session that is committed or being committed can no longer enter the log,
because the ledger has it or its session is deleted (`Orderly`, `InOrder`). Two gateways number their rows
independently; the fence leaves one writer for a session and an epoch (`OneWriter`). With these a commit
puts every new row behind the older ones (`LogEnds`).

`PublishedAtMostOnce` and `AcceptedNeverLost` prove the contract's promises, with variables of the contract's
own (`Promise`). The strengthening: a published event is remembered or its session deleted, and an entry's epoch was allocated
before it was accepted (so an assignment that is over stays over).

`FailureIsDefinite`, `AcknowledgementStands`, `SettledStays` and `TypeCorrect` of
`OutboundCommand`. `FailedNeverSent` is far from inductive: that nothing went out yet says nothing
about a dispatcher, an RPC or a flight that still might. `IInv` adds
  * `Stamps`: the runs of `dispatchClaimed` have different stamps, none above the row's attempts, so
    at most one owns the row;
  * `Memory`: what a run remembers of `effect_possible` fits the step it is at;
  * `Untouched`: while the row says that nothing can have gone out, nothing has, no flight is in the
    air, and every run has yet to call;
  * `FirstAlone`: while the owner is the first run that could send (`wasPossible` is false), every
    other run is harmless, so its rejection, or its `NoDispatchError`, is the truth about the command;
  * `AckKept`: an acknowledged row is not failed or unknown, and its owner is on the way to complete
    it.

`SendsAreAccountedFor` (`OneSendPerLoss`) counts. A gateway that has been asked to send and has no saved
result is charged one send until its result is saved or a loss is recorded: sends made, plus the charge of
every gateway whose flight is still to send, never exceed one and the losses. The reassignment is the
interesting case: it opens the door to a second gateway, and counts as a loss.

`Moves`, `Takes` and `Lands` state what a dispatcher's step, a claim and the end of a flight may do
to the invariant; each has one lemma, and each action one lemma that shows it to be of that form.

`RevocationHolds` of `Realtime`. The property is about a step, and needs an invariant of the cache's
generation: a verification's snapshot is never ahead of the generation (`Snapshots`), so the eviction,
which raises it, leaves every verification under way behind; and after the eviction the entry is no
answer, the row is gone, and no verification stands before the store with the current generation
(`Closed`).

`StreamSendsAllDue` of `Realtime` (`AllDueIsSent`). What is due to a connection, because the log held it when
it was read or because it was published to the subscription, has been received, waits in the replay or waits
in the subscription (`Owed`), wherever between the two Redis takes the subscription. The tail skips one event,
the boundary, so that one has to be in the replay or received already (`BoundaryIsReplayed`); when nothing was
replayed the boundary is the cursor, an event the client has (`CursorIsSeen`). The theorem says nothing of an
event published between the log read and the subscription: that is a known disagreement (`NoGap`).

`TokenYieldsOneCertificate`, `DiskAndRecordsAgree` and `RevocationCompletes` of `Enrollment`. The records
need to know that only the newest token can be leased (`NewestIsLive`), that consumed tokens and enrolment
certificates correspond (`Issuance`), and that a gateway which may enrol has no usable certificate
(`Revocation`). The disk needs to know of every CSR a handler is at work on that its key is kept (`Kept`,
`Handlers`), of every recorded certificate the same (`Keys`), and of the answer the client waits for that it is about the pending key (`Client`).

`CompletionIsEarned` and `RetentionWaits` of `Fanout`. `Progress`: whatever consumer
a pass is at, those before it have had the event, so `completed_at` is earned by any worker that writes
it, the lease's owner or a stale one. `Owed`: a webhook that exists has a row for every event that was
queued, or had one that was settled, and the body of an open event is in the log; so the incomplete ledger
row guards the body until the deliveries exist, and the deliveries from then on.

`OnlyOverlapOvertakes` (`OrderedUnlessOvertaken`) holds for any number of overlapping claims. `Ordered`: before
an event of a pass come, of its session, only events of the same pass, events every consumer has had, and
events it is recorded as having overtaken. A claim passes over no leased or retrying predecessor that its
snapshot shows; a predecessor that another claim took at the same time is recorded in `overtaken` by the
claim itself, and a pass delivers its own events oldest first.

`SteadyAppsKeepLogins` (`KeptStaysPrivate`). `SameWay`: while a session's apps are what they were, no cache
disagrees with the table, so every pass over a login command, the first or a retry, on any replica, takes the
same branch of the interceptor. After a change the passes may differ: a known disagreement
(`LoginNeverFansOut`).

`HeldClientIsServed` and `LoggedOutHasNoKeys` of `SessionManager`. `ServedInv` adds that a context which is
not cancelled belongs to the client its session holds, that a loop connects no other client, and that a call
which has yet to spawn a loop is at work on the session of its client. `UnpairedInv` follows a device: the
one of a logged-out session is not `Spent` (it has no keys and had none deleted), its clients are at rest,
and no other session, registration or connecting call refers to it; so keys can only come after the
session's status has changed, and without keys there is nothing to delete. Most critical
sections end in a collection of clients nobody holds, so both invariants are predicates of a state, followed
up to the collection, which one lemma for each shows harmless.

`ImportedIsJournaled`, `VerdictEndsTheRun` and `NoBatchUnaccounted` of `HistorySync`. The worker's position is
lost in a crash and a drop ends runs behind its back, so the invariants speak of what is durable.
  * `JournalInv`: the batches before a row's cursor, and before the worker's position, are in the log.
  * `OrderInv`: a notification that has seeded a run or journaled a batch (`Begun`) and is still pending is
    the first of the inbox; so the worker takes it up again before it begins another or ends a run.
  * `VerdictInv`: a journaled verdict is the one of the run table; no pending row and no import under way
    belongs to a run that is over, and nothing of a run follows its verdict in the log.
  * `CountInv`: all the batches of a notification in work are of one run, the only running one of its account
    (`OneRun`); the run table's counter is covered by batches of notifications that are over (`Settled`), the
    counter of an event by the batches before it in the log (`Covered`); the API counts each batch of its
    ledger once, and a batch that was projected is in the ledger or was unreadable (`LedgerInv`). That the sets of log positions are finite and add up is all the counting
    there is.
`VerdictIsLast` exempts a drop whose first write failed and `ReportedIsAccounted` any drop under work, as the
properties themselves do: there the code's behaviour differs.

`LoginYieldsOnce`, `DenialYieldsNothing` and `FamilyHasOneHeir` of `Login`. `Once` adds, for each
request: its code, a token call that has taken the code, and the token set exclude each other, two calls
never hold the same code, and a request that is not finalized (or gone) has led to none of them; this is
what stops a second finalization or a late denial. `Heirs` adds that the family is empty until the token
set is issued, and that a revoked family, or one a rotation still looks at, is not empty: so the only
step that starts a family cannot revive a revoked one.

All rest on the assumptions on the constants (`ConstantsAssumption`, `OutboundAssumption`,
`EnrollmentAssumption`, `FanoutAssumption`, `RealtimeAssumption`, `LoginAssumption`, `ManagerAssumption`,
`HistoryAssumption`), which TLC evaluates in the runs, and on `ContractAssumption`, a hypothesis of the contract's theorems. They say that bounds are
natural numbers (some positive), that sets of processes are finite where a set is counted, and that model
values differ.

Every invariant and every action property of the passing runs is proved. Only model-checked are
the liveness properties (`EventuallyIngested`, both `EventuallySettled`, `EventuallyCredentialed`,
`RevokedEventually`, `HistorySettles`, `StreamsEnd`, `LoopsEnd`, `HeldConnects`): liveness under
fairness is out of the prover's reach.

## 5. Plan

Done: the paths of an event and of a command in both directions, their fan-out, the life of a gateway's
credential and of a session's client, history, realtime access and login. Next:

1. An abstract specification of an outbound command (accepted, sent or not, reported truthfully) that
   `OutboundCommand` implements.
2. The status loop of a session: row, snapshot, reconciler, manager, status events. Composed in full
   it outgrows TLC with a single fault, because terminal events and stale snapshots may alternate for
   ever; it needs an abstraction of the manager that `SessionManager` implements.
3. The media worker's claim loop and poll recaps, each a small module.

## 6. Not modelled, not claimed

Nothing is claimed about the order of assignment epochs in `event_log`: `IngestBatch` validates the
epoch with a read that takes no lock, so a batch of the old epoch may commit after `Reassign`. No
production code calls `Reassign` at this commit.

The conversion of WhatsApp messages to domain events and back, the request surfaces, media
transfer, backup import, configuration, generated code, the fake WhatsApp server and the web
applications: wide data with little control, or no state of their own. Cryptography and TLS are
taken for granted. The map covers about a ninth of the repository's Go
lines. Roughly a quarter of the rest is generated (`gen/`, `internal/store/storedb`), and most of the
remainder is conversion, request surfaces, queries and wiring without control of its own. Time is abstract: a lease may run out at any moment it is not held by a lock,
which covers every relation of durations but shows nothing about their values.
