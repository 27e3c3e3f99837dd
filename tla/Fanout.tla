------------------------------- MODULE Fanout -------------------------------
(***************************************************************************)
(* What the API does with an event after its ingest has committed.         *)
(*                                                                         *)
(* Every API replica runs two loops.  The committed-event worker leases a  *)
(* batch of ledger rows and takes each event through the login interceptor,*)
(* the projections, the realtime publisher and the webhook enqueuer, then  *)
(* completes its row.  The webhook dispatcher leases due delivery rows,    *)
(* posts each event and marks the row.  Retention prunes deliveries and    *)
(* event_log behind them.                                                  *)
(*                                                                         *)
(* Leases are wall-clock deadlines; the model has their expiry as a step.  *)
(* A claim reads the rows it takes under lock, as they are, and the leases *)
(* of their predecessors without one, from the transaction's snapshot: the *)
(* snapshot is a step of its own.                                          *)
(***************************************************************************)
EXTENDS Naturals, Sequences, SequencesExt, FiniteSets

CONSTANTS
    Session,      \* the WhatsApp sessions
    Replica,      \* API replicas; processOwner names each by its host
    NoOwner,      \* claimed_by IS NULL
    AppSession,   \* the sessions that have apps at one time or another
    Hook,         \* the webhooks subscribed to every event
    Kind,         \* bound: the kinds of message that arrive
    Batch,        \* committedEventBatch
    MaxAttempts,  \* the attempts of every hook's retry policy
    MaxEvents,    \* bound: events ingested
    MaxAppChanges, \* bound: changes of the apps of one session
    MaxFaults     \* bound: consumer and database errors, crashes, overruns

ASSUME FanoutAssumption ==
    /\ NoOwner \notin Replica /\ AppSession \subseteq Session
    /\ IsFiniteSet(Replica) /\ IsFiniteSet(Hook) /\ Kind \subseteq {"chat", "login", "stop"}
    /\ Batch \in Nat \ {0} /\ MaxAttempts \in Nat \ {0}
    /\ MaxEvents \in Nat /\ MaxAppChanges \in Nat /\ MaxFaults \in Nat

Event == 1..MaxEvents
Sink == {"projection", "realtime", "webhooks"}

VARIABLES
    row,         \* gateway_ingested_events, in (committed_at, event_log_id) order
    logged,      \* event_log: the events with a row
    sessions,    \* wa_sessions
    hooks,       \* webhooks
    commands,    \* oauth_clients: the sessions with an active app the command is of
    changes,     \* how often the apps of each session have changed
    notices,     \* ctrl:oidp.app.changed on its way to a replica
    cached,      \* LoginInterceptor.cache of every replica
    worker,      \* CommittedEventWorker.RunOnce of every replica
    overtaken,   \* history: the pairs of events whose claims overlapped
    reached,     \* history: the events each sink has accepted
    intercepted, \* history: the events the login interceptor has handled
    delivery,    \* webhook_deliveries
    dispatcher,  \* Dispatcher.DeliverDue of every replica
    settled,     \* history: the deliveries that were once delivered or dead
    faults       \* faults so far

appVars == <<commands, changes, notices>>

vars == <<row, logged, sessions, hooks, appVars, cached, worker, overtaken, reached,
          intercepted, delivery, dispatcher, settled, faults>>

workerVars == <<row, logged, sessions, hooks, appVars, overtaken, delivery, dispatcher, settled>>
dispatchVars == <<row, logged, sessions, hooks, appVars, cached, worker, overtaken,
                  reached, intercepted>>

Row == [session : Session, kind : Kind, state : {"open", "done", "deleted"},
        owner : Replica \union {NoOwner}, claim : SUBSET Event, live : BOOLEAN]

Delivery == [status : {"none", "pending", "failed", "delivered", "dead"},
             attempts : Nat, retry : {"null", "due", "leased", "backoff"}]

Attempt == [hook : Hook, event : Event, attempts : Nat]

Stage == {"idle", "claim", "intercept", "project", "publish", "enqueue", "complete"}

Retryable == {"pending", "failed"}
Terminal == {"delivered", "dead"}

IdleWorker == [todo |-> {}, stage |-> "idle", failed |-> {}, seen |-> {}]
IdleDispatcher == [todo |-> <<>>, stage |-> "idle", result |-> "none"]
NoDelivery == [status |-> "none", attempts |-> 0, retry |-> "null"]
NoIndex == [s \in AppSession |-> "none"]

Init ==
    /\ row = <<>> /\ logged = {} /\ sessions = Session /\ hooks = Hook
    /\ commands \in SUBSET AppSession /\ changes = [s \in AppSession |-> 0] /\ notices = {}
    /\ cached = [r \in Replica |-> NoIndex]
    /\ worker = [r \in Replica |-> IdleWorker] /\ overtaken = {}
    /\ reached = [k \in Sink |-> {}]
    /\ intercepted = {}
    /\ delivery = [d \in Hook \X Event |-> NoDelivery]
    /\ dispatcher = [r \in Replica |-> IdleDispatcher]
    /\ settled = {} /\ faults = 0

Fault == faults < MaxFaults /\ faults' = faults + 1

-----------------------------------------------------------------------------
(* The surroundings: ingest, administration, retention.                    *)

\* IngestBatch has committed one more event (EventDelivery models how).
Ingest(s, k) ==
    /\ s \in sessions /\ Len(row) < MaxEvents
    /\ row' = Append(row, [session |-> s, kind |-> k, state |-> "open",
                           owner |-> NoOwner, claim |-> {}, live |-> FALSE])
    /\ logged' = logged \union {Len(row) + 1}
    /\ UNCHANGED <<sessions, hooks, appVars, cached, worker, overtaken, reached,
                   intercepted, delivery, dispatcher, settled, faults>>

\* The session's ledger rows go; event_log, the deliveries and the apps stay.
DeleteSession(s) ==
    /\ s \in sessions /\ sessions' = sessions \ {s}
    /\ row' = [e \in DOMAIN row |->
                 IF row[e].session = s THEN [row[e] EXCEPT !.state = "deleted"]
                                       ELSE row[e]]
    /\ UNCHANGED <<logged, hooks, appVars, cached, worker, overtaken, reached,
                   intercepted, delivery, dispatcher, settled, faults>>

DeleteHook(h) ==
    /\ h \in hooks /\ hooks' = hooks \ {h}
    /\ UNCHANGED <<row, logged, sessions, appVars, cached, worker, overtaken, reached,
                   intercepted, delivery, dispatcher, settled, faults>>

\* An app is created, enabled, disabled or deleted, or its login command is
\* renamed: the command is recognised from now on, or no longer.  The change is
\* announced to every replica.
ChangeApp(s) ==
    /\ changes[s] < MaxAppChanges /\ changes' = [changes EXCEPT ![s] = @ + 1]
    /\ commands' = (commands \ {s}) \union ({s} \ commands)
    /\ notices' = notices \union (Replica \X {s})
    /\ UNCHANGED <<row, logged, sessions, hooks, cached, worker, overtaken, reached,
                   intercepted, delivery, dispatcher, settled, faults>>

\* InvalidateSession: the announcement has arrived.  Redis Pub/Sub may lose it,
\* and an index loaded before the change may be stored after it arrived, which
\* leaves the replica as if it had been lost.
InvalidateSession(r, s) ==
    /\ <<r, s>> \in notices /\ notices' = notices \ {<<r, s>>}
    /\ cached' = [cached EXCEPT ![r][s] = "none"]
    /\ UNCHANGED <<row, logged, sessions, hooks, commands, changes, worker, overtaken,
                   reached, intercepted, delivery, dispatcher, settled, faults>>

\* DeleteTerminalWebhookDeliveriesBefore.  The cutoff lies days back, further
\* than any worker or dispatcher pass reaches.
PruneDelivery(h, e) ==
    /\ delivery[<<h, e>>].status \in Terminal
    /\ \A r \in Replica :
         /\ e \notin worker[r].todo
         /\ \A i \in DOMAIN dispatcher[r].todo : dispatcher[r].todo[i].event # e
    /\ delivery' = [delivery EXCEPT ![<<h, e>>] = NoDelivery]
    /\ UNCHANGED <<row, logged, sessions, hooks, appVars, cached, worker, overtaken,
                   reached, intercepted, dispatcher, settled, faults>>

\* Mutant: only the deliveries guard the event body.
PruneLogIncomplete(e) ==
    /\ e \in logged
    /\ \A h \in Hook : delivery[<<h, e>>].status \notin Retryable
    /\ logged' = logged \ {e}
    /\ UNCHANGED <<row, sessions, hooks, appVars, cached, worker, overtaken, reached,
                   intercepted, delivery, dispatcher, settled, faults>>

\* DeleteUnreferencedEventLogBefore.  created_at is the time the gateway saw
\* the event, so an event that waited in a journal may be old on arrival.
PruneLog(e) ==
    /\ e \in logged /\ row[e].state # "open"
    /\ \A h \in Hook : delivery[<<h, e>>].status \notin Retryable
    /\ logged' = logged \ {e}
    /\ UNCHANGED <<row, sessions, hooks, appVars, cached, worker, overtaken, reached,
                   intercepted, delivery, dispatcher, settled, faults>>

-----------------------------------------------------------------------------
(* The committed-event worker.                                             *)

Open(e) == row[e].state = "open"
Leased(e) == Open(e) /\ row[e].live

\* The claim opens its transaction; seen is what its snapshot has under lease.
BeginClaim(r) ==
    /\ worker[r].stage = "idle"
    /\ worker' = [worker EXCEPT ![r].stage = "claim",
                                ![r].seen = {e \in DOMAIN row : Leased(e)}]
    /\ UNCHANGED <<workerVars, cached, reached, intercepted, faults>>

\* Mutant: a claim passes over the session's leased events.
ClaimableAnyway(r, e) == Open(e) /\ ~row[e].live

\* What ClaimCommittedEvents may return: not under a lease, and no earlier
\* row of the session under one when the snapshot was taken.
Claimable(r, e) ==
    /\ Open(e) /\ ~row[e].live
    /\ \A d \in 1..(e - 1) : row[d].session = row[e].session => d \notin worker[r].seen

\* ORDER BY committed_at, event_log_id LIMIT MaxItems: the oldest of them.
ClaimableBatch(r) ==
    LET all == {e \in DOMAIN row : Claimable(r, e)}
    IN  {e \in all : Cardinality({d \in all : d < e}) < Batch}

\* The predecessors of a claimed event that have come under a lease since the
\* claim's snapshot, by another claim that overlaps with this one.
Overtakes(r, q) ==
    {p \in Event \X q : /\ p[1] < p[2] /\ row[p[1]].session = row[p[2]].session
                        /\ Leased(p[1]) /\ p[1] \notin worker[r].seen}

ClaimCommittedEvents(r) ==
    LET q == ClaimableBatch(r)
    IN  /\ worker[r].stage = "claim"
        /\ row' = [e \in DOMAIN row |->
                     IF e \in q
                     THEN [row[e] EXCEPT !.owner = r, !.claim = q, !.live = TRUE]
                     ELSE row[e]]
        /\ worker' = [worker EXCEPT ![r] =
                        IF q = {} THEN IdleWorker
                        ELSE [IdleWorker EXCEPT !.todo = q, !.stage = "intercept"]]
        /\ overtaken' = overtaken \union Overtakes(r, q)
        /\ UNCHANGED <<logged, sessions, hooks, appVars, cached, reached, intercepted,
                       delivery, dispatcher, settled, faults>>

\* The batch is taken in the order it was committed in.
Current(r) == Min(worker[r].todo)

\* The next event of the batch; those of a failed session are passed over.
Advance(r, failed) ==
    LET todo == {e \in worker[r].todo \ {Current(r)} : row[e].session \notin failed}
    IN  worker' = [worker EXCEPT ![r] =
                     IF todo = {} THEN IdleWorker
                     ELSE [IdleWorker EXCEPT !.todo = todo, !.stage = "intercept",
                                             !.failed = failed]]

FailSession(r) ==
    Advance(r, worker[r].failed \union {row[Current(r)].session})

GoTo(r, stage) == worker' = [worker EXCEPT ![r].stage = stage]

\* sessionApps: the compiled commands of the session's active apps, from the
\* replica's cache or else from the table.  For a session that never has an app
\* the two are the same.
SessionApps(r, s) ==
    IF s \in AppSession /\ cached[r][s] # "none" THEN cached[r][s]
    ELSE IF s \in commands THEN "match" ELSE "nomatch"

\* Every message but a STOP leaves the session's commands in the cache.
Index(r, e) ==
    IF row[e].kind = "stop" \/ row[e].session \notin AppSession THEN cached
    ELSE [cached EXCEPT ![r][row[e].session] = SessionApps(r, row[e].session)]

\* Mutant: a login command is recognised while its code is unused.
HandleLoginOnce(r, e) == row[e].kind \in {"login", "stop"} /\ e \notin intercepted

\* A login command is recognised by the commands of the session's apps, whatever
\* became of its code.  STOP is recognised by the sender's verified login, which
\* the first pass denies and forgets.
HandleLogin(r, e) ==
    \/ row[e].kind = "login" /\ SessionApps(r, row[e].session) = "match"
    \/ row[e].kind = "stop" /\ e \notin intercepted

Intercept(r) ==
    /\ worker[r].stage = "intercept"
    /\ LET e == Current(r)
       IN  /\ IF HandleLogin(r, e)
              THEN intercepted' = intercepted \union {e} /\ GoTo(r, "complete")
              ELSE intercepted' = intercepted /\ GoTo(r, "project")
           /\ cached' = Index(r, e)
    /\ UNCHANGED <<workerVars, reached, faults>>

Reach(r, sink) ==
    reached' = [reached EXCEPT ![sink] = @ \union {Current(r)}]

Project(r) ==
    /\ worker[r].stage = "project"
    /\ Reach(r, "projection") /\ GoTo(r, "publish")
    /\ UNCHANGED <<workerVars, cached, intercepted, faults>>

\* Mutant: a published event is taken for finished.
PublishCompletes(r) ==
    /\ worker[r].stage = "publish"
    /\ Reach(r, "realtime") /\ GoTo(r, "complete")
    /\ UNCHANGED <<workerVars, cached, intercepted, faults>>

Publish(r) ==
    /\ worker[r].stage = "publish"
    /\ Reach(r, "realtime") /\ GoTo(r, "enqueue")
    /\ UNCHANGED <<workerVars, cached, intercepted, faults>>

\* Enqueuer.Enqueue for the hooks in hs: an existing row is left alone.
Enqueued(hs, e) ==
    [d \in Hook \X Event |->
       IF d[1] \in hs /\ d[2] = e /\ delivery[d].status = "none"
       THEN [status |-> "pending", attempts |-> 0, retry |-> "due"]
       ELSE delivery[d]]

Enqueue(r) ==
    /\ worker[r].stage = "enqueue"
    /\ delivery' = Enqueued(hooks, Current(r))
    /\ Reach(r, "webhooks") /\ GoTo(r, "complete")
    /\ UNCHANGED <<row, logged, sessions, hooks, appVars, cached, overtaken, intercepted,
                   dispatcher, settled, faults>>

\* Some hooks' rows are written, another's is not: the event is retried.
EnqueueFails(r) ==
    /\ worker[r].stage = "enqueue" /\ Fault
    /\ \E hs \in SUBSET hooks :
         delivery' = Enqueued(hs, Current(r))
    /\ FailSession(r)
    /\ UNCHANGED <<row, logged, sessions, hooks, appVars, cached, overtaken, reached,
                   intercepted, dispatcher, settled>>

\* Interceptor, projection or publisher returns an error; the interceptor's may
\* come before it has the session's commands or after.
ConsumeFails(r) ==
    /\ worker[r].stage \in {"intercept", "project", "publish"} /\ Fault
    /\ \/ cached' = cached
       \/ worker[r].stage = "intercept" /\ cached' = Index(r, Current(r))
    /\ FailSession(r)
    /\ UNCHANGED <<workerVars, reached, intercepted>>

\* CompleteCommittedEvent, fenced by claimed_by.
Owned(r, e) == row[e].owner = r /\ row[e].state # "deleted"

Done(e) == row' = [row EXCEPT ![e].state = "done"]

CompleteCommittedEvent(r) ==
    /\ worker[r].stage = "complete"
    /\ LET e == Current(r)
       IN  IF Owned(r, e)
           THEN Done(e) /\ Advance(r, worker[r].failed)
           ELSE row' = row /\ FailSession(r)
    /\ UNCHANGED <<logged, sessions, hooks, appVars, cached, overtaken, reached,
                   intercepted, delivery, dispatcher, settled, faults>>

\* The database reports an error, whether or not the update took effect.
CompleteFails(r) ==
    /\ worker[r].stage = "complete" /\ Fault
    /\ LET e == Current(r)
       IN  row' = row \/ (Owned(r, e) /\ Done(e))
    /\ FailSession(r)
    /\ UNCHANGED <<logged, sessions, hooks, appVars, cached, overtaken, reached,
                   intercepted, delivery, dispatcher, settled>>

\* lease_until of one claim passes.  With the worker still at it, that is an
\* overrun.
ExpireLease(r, c) ==
    LET held == {e \in c \cap DOMAIN row : row[e].owner = r /\ row[e].claim = c /\ Leased(e)}
    IN  /\ held # {}
        /\ IF held \cap worker[r].todo = {} THEN faults' = faults ELSE Fault
        /\ row' = [e \in DOMAIN row |->
                     IF e \in held THEN [row[e] EXCEPT !.live = FALSE] ELSE row[e]]
        /\ UNCHANGED <<logged, sessions, hooks, appVars, cached, worker, overtaken,
                       reached, intercepted, delivery, dispatcher, settled>>

-----------------------------------------------------------------------------
(* The webhook dispatcher.                                                 *)

\* Mutant: failed rows are not claimed again.
DuePending == {d \in Hook \X Event :
                 delivery[d].status = "pending" /\ delivery[d].retry = "due"}

Due == {d \in Hook \X Event :
          delivery[d].status \in Retryable /\ delivery[d].retry = "due"}

\* The claimed rows in the order of next_retry_at, which the model leaves open.
ClaimDue(r) ==
    /\ dispatcher[r].stage = "idle" /\ Due # {}
    /\ \E q \in SetToSeqs(Due) :
         dispatcher' = [dispatcher EXCEPT ![r] =
           [todo |-> [i \in DOMAIN q |-> [hook |-> q[i][1], event |-> q[i][2],
                                          attempts |-> delivery[q[i]].attempts]],
            stage |-> "load", result |-> "none"]]
    /\ delivery' = [d \in Hook \X Event |->
                      IF d \in Due THEN [delivery[d] EXCEPT !.retry = "leased"]
                                   ELSE delivery[d]]
    /\ UNCHANGED <<dispatchVars, settled, faults>>

\* Deliver loads the webhook and the event; what is gone is dead-lettered.
LoadDelivery(r) ==
    /\ dispatcher[r].stage = "load"
    /\ LET a == Head(dispatcher[r].todo)
       IN  dispatcher' = [dispatcher EXCEPT
             ![r].stage = IF a.hook \in hooks /\ a.event \in logged THEN "post" ELSE "mark",
             ![r].result = IF a.hook \in hooks /\ a.event \in logged THEN "none" ELSE "gone"]
    /\ UNCHANGED <<dispatchVars, delivery, settled, faults>>

\* The endpoint accepts the event, or the attempt fails on the way.
Post(r) ==
    /\ dispatcher[r].stage = "post"
    /\ \E x \in {"ok", "fail"} :
         dispatcher' = [dispatcher EXCEPT ![r].stage = "mark", ![r].result = x]
    /\ UNCHANGED <<dispatchVars, delivery, settled, faults>>

\* MarkDelivered, MarkFailed or MarkDead.  The budget is counted from the
\* attempts of the claimed row, the column from the row as it is now; no
\* lease is checked.
Outcome(a, result) ==
    CASE result = "ok" -> "delivered"
      [] result = "gone" -> "dead"
      [] result = "fail" -> IF a.attempts + 1 >= MaxAttempts THEN "dead" ELSE "failed"

Marked(a, status) ==
    IF delivery[<<a.hook, a.event>>].status = "none" THEN delivery
    ELSE [delivery EXCEPT ![<<a.hook, a.event>>] =
            [status |-> status, attempts |-> @.attempts + 1,
             retry |-> IF status = "failed" THEN "backoff" ELSE "null"]]

NextDelivery(r) ==
    LET rest == Tail(dispatcher[r].todo)
    IN  dispatcher' = [dispatcher EXCEPT ![r] =
          IF rest = <<>> THEN IdleDispatcher
          ELSE [todo |-> rest, stage |-> "load", result |-> "none"]]

Mark(r) ==
    /\ dispatcher[r].stage = "mark"
    /\ LET a == Head(dispatcher[r].todo)
           status == Outcome(a, dispatcher[r].result)
       IN  /\ delivery' = Marked(a, status)
           /\ settled' = settled \union
                (IF status \in Terminal THEN {<<a.hook, a.event>>} ELSE {})
    /\ NextDelivery(r)
    /\ UNCHANGED <<dispatchVars, faults>>

\* The bookkeeping write fails; the row stays leased.
MarkFails(r) ==
    /\ dispatcher[r].stage = "mark" /\ Fault
    /\ NextDelivery(r)
    /\ UNCHANGED <<dispatchVars, delivery, settled>>

Attempting(d) ==
    \E r \in Replica : \E i \in DOMAIN dispatcher[r].todo :
      <<dispatcher[r].todo[i].hook, dispatcher[r].todo[i].event>> = d

\* next_retry_at passes: the backoff, or the lease of an attempt.
BecomeDue(d) ==
    /\ delivery[d].status \in Retryable /\ delivery[d].retry \in {"leased", "backoff"}
    /\ IF delivery[d].retry = "leased" /\ Attempting(d) THEN Fault ELSE faults' = faults
    /\ delivery' = [delivery EXCEPT ![d].retry = "due"]
    /\ UNCHANGED <<dispatchVars, dispatcher, settled>>

\* A replica dies and comes back under its host name.
Crash(r) ==
    /\ worker[r].stage # "idle" \/ dispatcher[r].stage # "idle" \/ cached[r] # NoIndex
    /\ Fault
    /\ worker' = [worker EXCEPT ![r] = IdleWorker]
    /\ dispatcher' = [dispatcher EXCEPT ![r] = IdleDispatcher]
    /\ cached' = [cached EXCEPT ![r] = NoIndex]
    /\ UNCHANGED <<row, logged, sessions, hooks, appVars, overtaken, reached,
                   intercepted, delivery, settled>>

-----------------------------------------------------------------------------

WorkerStep(r) ==
    \/ BeginClaim(r) \/ ClaimCommittedEvents(r) \/ Intercept(r) \/ Project(r)
    \/ Publish(r) \/ Enqueue(r) \/ CompleteCommittedEvent(r)

WorkerFault(r) == EnqueueFails(r) \/ ConsumeFails(r) \/ CompleteFails(r)

DispatcherStep(r) == ClaimDue(r) \/ LoadDelivery(r) \/ Post(r) \/ Mark(r)

Surroundings ==
    \/ \E s \in Session : DeleteSession(s) \/ \E k \in Kind : Ingest(s, k)
    \/ \E s \in AppSession : ChangeApp(s) \/ \E r \in Replica : InvalidateSession(r, s)
    \/ \E h \in Hook : DeleteHook(h)
    \/ \E h \in Hook, e \in Event : PruneDelivery(h, e)
    \/ \E e \in DOMAIN row : PruneLog(e)

Next ==
    \/ Surroundings
    \/ \E r \in Replica : \/ WorkerStep(r) \/ WorkerFault(r)
                          \/ DispatcherStep(r) \/ MarkFails(r) \/ Crash(r)
                          \/ \E c \in SUBSET Event : ExpireLease(r, c)
    \/ \E d \in Hook \X Event : BecomeDue(d)

Spec == Init /\ [][Next]_vars

\* The tickers of both loops keep running, and wall-clock deadlines pass.
FairSpec ==
    /\ Spec
    /\ \A r \in Replica : WF_vars(WorkerStep(r)) /\ WF_vars(DispatcherStep(r))
    /\ \A r \in Replica, c \in SUBSET Event : WF_vars(ExpireLease(r, c))
    /\ \A d \in Hook \X Event : WF_vars(BecomeDue(d))

-----------------------------------------------------------------------------
(* Properties.                                                             *)

\* Every variable has its type: rows, leases, passes and deliveries.
TypeOK ==
    /\ row \in Seq(Row) /\ Len(row) <= MaxEvents
    /\ logged \subseteq DOMAIN row /\ sessions \subseteq Session /\ hooks \subseteq Hook
    /\ worker \in [Replica -> [todo : SUBSET Event, stage : Stage,
                               failed : SUBSET Session, seen : SUBSET Event]]
    /\ commands \subseteq AppSession /\ changes \in [AppSession -> 0..MaxAppChanges]
    /\ notices \subseteq Replica \X AppSession
    /\ cached \in [Replica -> [AppSession -> {"none", "match", "nomatch"}]]
    /\ overtaken \subseteq Event \X Event
    /\ reached \in [Sink -> SUBSET Event] /\ intercepted \subseteq Event
    /\ delivery \in [Hook \X Event -> Delivery]
    /\ dispatcher \in [Replica -> [todo : Seq(Attempt),
                                   stage : {"idle", "load", "post", "mark"},
                                   result : {"none", "ok", "fail", "gone"}]]
    /\ settled \subseteq Hook \X Event
    /\ faults \in 0..MaxFaults

\* A session's events first reach the projections, the subscribers and the
\* webhook queue in the order they were committed, unless their claims overlapped:
\* RunOnce holds a session back after a failure, and ClaimCommittedEvents does not
\* pass over a predecessor that its snapshot has under lease, even when a slow
\* worker and its successor process the same events.
OrderedUnlessOvertaken ==
    \A k \in Sink : \A e \in reached[k] : \A d \in 1..(e - 1) :
      (row[d].session = row[e].session /\ row[d].kind = "chat") =>
        d \in reached[k] \/ <<d, e>> \in overtaken

\* A session's later events cannot overtake a currently leased predecessor on the
\* way to the projections, the subscribers and the webhook queue, as eventing.mdx
\* says.  Not so when two replicas claim at once: neither snapshot has the other's
\* lease, and SKIP LOCKED passes over the predecessor.
InOrder ==
    \A k \in Sink : \A e \in reached[k] : \A d \in 1..(e - 1) :
      (row[d].session = row[e].session /\ row[d].kind = "chat") => d \in reached[k]

\* An event is completed only when every consumer has accepted it or the
\* interceptor has kept it, whichever worker wrote completed_at.
CompletedIsDelivered ==
    \A e \in DOMAIN row : row[e].state = "done" =>
      e \in intercepted \/ \A k \in Sink : e \in reached[k]

\* Prune never takes the body of an event that a webhook still has to
\* receive: the incomplete ledger row guards it until the deliveries exist,
\* the deliveries guard it from then on.
RetentionKeepsOwedEvents ==
    \A e \in DOMAIN row \ logged : \A h \in hooks :
      (row[e].state = "done" /\ row[e].kind = "chat") =>
        <<h, e>> \in settled

\* While the apps of its session stay as they are, every pass takes a login command
\* the same way: what the interceptor has kept no consumer ever gets, on a retry of
\* another replica with another cache either, although its code is used up.
KeptStaysPrivate ==
    \A k \in Sink : \A e \in intercepted \cap reached[k] :
      row[e].kind = "login" =>
        row[e].session \in AppSession /\ changes[row[e].session] > 0

\* A login command that the interceptor has handled is never projected, published
\* or queued for webhooks, as the comment of HandleLogin says.  Not so when the app
\* is disabled or its command renamed between two passes over the event.
LoginNeverFansOut ==
    \A k \in Sink : \A e \in intercepted \cap reached[k] : row[e].kind # "login"

\* Every ingested event of a session that stays is completed, and every delivery
\* is delivered or dead-lettered, across crashes and expired leases.
EventuallySettled ==
    /\ \A e \in Event :
          (e \in DOMAIN row /\ Open(e)) ~> ~(e \in DOMAIN row /\ Open(e))
    /\ \A d \in Hook \X Event :
          (delivery[d].status \in Retryable) ~> (delivery[d].status \notin Retryable)

=============================================================================
