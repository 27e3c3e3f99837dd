--------------------------- MODULE EventDelivery ---------------------------
(***************************************************************************)
(* How a WhatsApp event accepted by a gateway reaches the API's event log. *)
(*                                                                         *)
(* Gateway: an event is labelled with the session's assignment epoch and   *)
(* appended to the durable journal.  The control supervisor replays the    *)
(* journal over its stream, one batch in flight, but only the rows the     *)
(* last applied desired-state snapshot authorises; rows it does not        *)
(* authorise are retired.                                                  *)
(*                                                                         *)
(* API: one handler per accepted stream, fenced by a connection epoch that *)
(* MySQL allocates.  A handler pushes desired-state snapshots (three       *)
(* separate reads) and ingests batches (a fence read, then the commit).    *)
(*                                                                         *)
(* Environment: streams break, handlers die, gateways crash, leases        *)
(* expire, sessions are reassigned or deleted, certificates are renewed    *)
(* over an overlapping stream, events are redelivered under their ID.      *)
(*                                                                         *)
(* Rows have size one and always decode: the byte limit of a batch, and    *)
(* the errors of a front row that does not fit it or does not decode, are  *)
(* left out.                                                               *)
(***************************************************************************)
EXTENDS Journal, Sequences

CONSTANTS
    Gateway,          \* the enrolled gateways
    Online,           \* bound: the gateways whose process runs
    NoGateway,        \* the owner of a deleted session
    Session,          \* the WhatsApp sessions
    EventId,          \* event IDs (history sync derives them from the message)
    NoEvent,          \* no event ID
    SessionOf,        \* [EventId -> Session]
    Message,          \* outgoing WhatsApp messages that may be echoed
    NoMessage,        \* the message of an event that is no echo
    EchoOf,           \* [EventId -> Message \cup {NoMessage}]
    SentIn,           \* [Message -> Session]
    BatchEntries,     \* DefaultBatchEntries
    JournalCapacity,  \* Config.MaxBytes, every event having size one
    MaxAppends,       \* bound: events a gateway labels in all
    MaxConnections,   \* bound: connection epochs per gateway
    MaxRevision,      \* bound: desired revisions per gateway
    MaxFaults         \* bound: breaks, crashes, failures, overlapping proofs

ConnEpoch == 1..MaxConnections

ASSUME ConstantsAssumption ==
    /\ Online \subseteq Gateway /\ NoGateway \notin Gateway
    /\ NoEvent \notin EventId
    /\ NoMessage \notin Message
    /\ SessionOf \in [EventId -> Session]
    /\ EchoOf \in [EventId -> Message \union {NoMessage}]
    /\ SentIn \in [Message -> Session]
    /\ \A i \in EventId : EchoOf[i] # NoMessage => SentIn[EchoOf[i]] = SessionOf[i]
    /\ BatchEntries \in Nat \ {0} /\ JournalCapacity \in Nat
    /\ MaxAppends \in Nat /\ MaxConnections \in Nat
    /\ MaxRevision \in Nat /\ MaxFaults \in Nat

VARIABLES
    \* MySQL
    assignment,  \* gateway_session_assignments: session -> [gw, epoch]
    revision,    \* gateways.desired_revision
    connEpoch,   \* gateways.connection_epoch
    ledger,      \* gateway_ingested_events: the event IDs with a row
    eventLog,    \* event_log: rows written by ingest, with their cursor pos
    sentLog,     \* event_log: rows written for the API's own sends, by message
    claim,       \* outgoing_message_event_claims: message -> [owner, id]
    \* gateway processes
    journal,     \* the durable journal of each gateway
    sink,        \* events whose epoch is resolved but which are not appended
    recon,       \* desiredstate.Reconciler: [rev, epochs]
    adapter,     \* journal.ControlAdapter: [live, rev, epochs]
    stream,      \* controlStream: [epoch, armed, expected, applying]
    \* streams and their handlers
    up,          \* frames sent by a gateway, not yet taken by the handler
    down,        \* frames sent to the gateway over its current stream
    handler,     \* Server.Connect: [pc, rev, epochs, batch]
    \* bookkeeping
    accepted,    \* history: every row the journals took
    faults       \* faults so far

mysql == <<assignment, revision, connEpoch, ledger, eventLog, sentLog, claim>>
process == <<sink, recon, adapter, stream>>
network == <<up, down, handler>>
books == <<accepted, faults>>
vars == <<mysql, journal, process, network, books>>

\* Assignment maps: the epoch of every assigned session, 0 for the others.
Epochs == [Session -> Nat]
NoEpochs == [s \in Session |-> 0]

\* GatewayFrame: a heartbeat, a desired-state report or an event batch.
Heartbeat == [type |-> "heartbeat", rev |-> 0, batch |-> {}]
Report(rev) == [type |-> "report", rev |-> rev, batch |-> {}]
EventBatch(rows) == [type |-> "events", rev |-> 0, batch |-> rows]

\* ControlFrame: Welcome or a heartbeat acknowledgement (both arm the heartbeat
\* timer), an event acknowledgement, or a desired-state snapshot.
Armed == [type |-> "armed", seq |-> 0, rev |-> 0, epochs |-> NoEpochs]
EventAck(seq) == [type |-> "ack", seq |-> seq, rev |-> 0, epochs |-> NoEpochs]
Snapshot(rev, epochs) ==
    [type |-> "snapshot", seq |-> 0, rev |-> rev, epochs |-> epochs]

NoStream == [epoch |-> 0, armed |-> FALSE, expected |-> 0, applying |-> FALSE]
NoRecon == [rev |-> 0, epochs |-> NoEpochs]
NoAdapter == [live |-> FALSE, rev |-> 0, epochs |-> NoEpochs]

Unclaimed == [owner |-> "none", id |-> NoEvent]

\* A handler at control point pc that holds nothing.
HandlerAt(pc) == [pc |-> pc, rev |-> 0, epochs |-> NoEpochs, batch |-> {}]

-----------------------------------------------------------------------------
(***************************************************************************)
(* Shared vocabulary.                                                      *)
(***************************************************************************)
Owns(g, s, e) == assignment[s] = [gw |-> g, epoch |-> e]
Deleted(s) == assignment[s].gw = NoGateway

\* Mutant: the sessions of other gateways are read too.
AssignedAll(g) ==
    [s \in Session |-> IF Deleted(s) THEN 0 ELSE assignment[s].epoch]

\* The complete assignment set of a gateway.
Assigned(g) ==
    [s \in Session |-> IF assignment[s].gw = g THEN assignment[s].epoch ELSE 0]

Open(g, c) == handler[g][c].pc \notin {"absent", "closed"}

\* The handler returns: what the gateway sent and it did not take is lost.
Close(g, c) ==
    /\ handler' = [handler EXCEPT ![g][c] = HandlerAt("closed")]
    /\ up' = [up EXCEPT ![g][c] = <<>>]
    /\ UNCHANGED down

\* stream.Send of a handler: frames reach the gateway on its current stream.
Deliver(g, c, frame) ==
    down' = [down EXCEPT ![g] =
                IF stream[g].epoch = c THEN Append(@, frame) ELSE @]

Init ==
    /\ assignment \in [Session -> [gw: Gateway, epoch: {1}]]
    /\ revision = [g \in Gateway |-> 1]
    /\ connEpoch = [g \in Gateway |-> 0]
    /\ ledger = {} /\ eventLog = {} /\ sentLog = {}
    /\ claim = [m \in Message |-> Unclaimed]
    /\ journal = [g \in Gateway |-> EmptyJournal]
    /\ sink = [g \in Gateway |-> {}]
    /\ recon = [g \in Gateway |-> NoRecon]
    /\ adapter = [g \in Gateway |-> NoAdapter]
    /\ stream = [g \in Gateway |-> NoStream]
    /\ up = [g \in Gateway |-> [c \in ConnEpoch |-> <<>>]]
    /\ down = [g \in Gateway |-> <<>>]
    /\ handler = [g \in Gateway |-> [c \in ConnEpoch |-> HandlerAt("absent")]]
    /\ accepted = {} /\ faults = 0

-----------------------------------------------------------------------------
(***************************************************************************)
(* The API's assignment repository.  Each operation is one transaction     *)
(* that locks the assignment row.                                          *)
(***************************************************************************)
Reassign(s, g) ==
    LET old == assignment[s].gw IN
    /\ old \notin {NoGateway, g}
    /\ revision[old] < MaxRevision /\ revision[g] < MaxRevision
    /\ assignment' = [assignment EXCEPT ![s] = [gw |-> g, epoch |-> @.epoch + 1]]
    /\ revision' = [revision EXCEPT ![old] = @ + 1, ![g] = @ + 1]
    /\ UNCHANGED <<connEpoch, ledger, eventLog, sentLog, claim>>
    /\ UNCHANGED <<journal, process, network, books>>

\* UpdateConfig, UpdateHistorySyncDays and SetSessionDesired: the assignment
\* stays, the owner's desired revision advances.
UpdateConfig(s) ==
    LET g == assignment[s].gw IN
    /\ g # NoGateway /\ revision[g] < MaxRevision
    /\ revision' = [revision EXCEPT ![g] = @ + 1]
    /\ UNCHANGED <<assignment, connEpoch, ledger, eventLog, sentLog, claim>>
    /\ UNCHANGED <<journal, process, network, books>>

\* DeleteSession removes the session's ingest ledger, the session and (by
\* cascade) its assignment and claims; the event log stays.
DeleteSession(s) ==
    LET g == assignment[s].gw IN
    /\ g # NoGateway /\ revision[g] < MaxRevision
    /\ assignment' = [assignment EXCEPT ![s].gw = NoGateway]
    /\ revision' = [revision EXCEPT ![g] = @ + 1]
    /\ ledger' = {i \in ledger : SessionOf[i] # s}
    /\ claim' = [m \in Message |-> IF SentIn[m] = s THEN Unclaimed ELSE claim[m]]
    /\ UNCHANGED <<connEpoch, eventLog, sentLog>>
    /\ UNCHANGED <<journal, process, network, books>>

\* EventLogRepo.AppendOwnSentOnce: the API's own event for a message it sent
\* competes with the gateway's echo for the message's claim; without its session
\* the claim cannot be inserted.
AppendOwnSentOnce(m) ==
    /\ claim[m] = Unclaimed /\ ~Deleted(SentIn[m])
    /\ claim' = [claim EXCEPT ![m] = [owner |-> "api", id |-> NoEvent]]
    /\ sentLog' = sentLog \union {m}
    /\ UNCHANGED <<assignment, revision, connEpoch, ledger, eventLog>>
    /\ UNCHANGED <<journal, process, network, books>>

-----------------------------------------------------------------------------
(***************************************************************************)
(* The gateway's event sink.  The epoch is resolved from the reconciler    *)
(* and the row appended in a second step: a snapshot may be applied, a     *)
(* lease may expire and a batch may be sent between the two.               *)
(***************************************************************************)

\* Mutant of Label: an unassigned session labels its events with epoch 0.
LabelUnassigned(g, id) ==
    /\ journal[g].next + Cardinality(sink[g]) <= MaxAppends
    /\ sink' = [sink EXCEPT ![g] = @ \union
                  {[id |-> id, epoch |-> recon[g].epochs[SessionOf[id]]]}]
    /\ UNCHANGED <<mysql, journal, recon, adapter, stream, network, books>>

\* An event is observed, or (history sync) published once more under its ID.
Label(g, id) ==
    LET epoch == recon[g].epochs[SessionOf[id]] IN
    /\ epoch # 0
    /\ journal[g].next + Cardinality(sink[g]) <= MaxAppends
    /\ sink' = [sink EXCEPT ![g] = @ \union {[id |-> id, epoch |-> epoch]}]
    /\ UNCHANGED <<mysql, journal, recon, adapter, stream, network, books>>

\* AppendDomainEvent: a row that is still there makes it a no-op; a full
\* journal refuses the event (ErrCapacity).
AppendEvent(g, e) ==
    LET taken == /\ ~Journaled(journal[g], e.id)
                 /\ Cardinality(journal[g].entries) < JournalCapacity
    IN
    /\ sink' = [sink EXCEPT ![g] = @ \ {e}]
    /\ journal' = IF taken
                  THEN [journal EXCEPT ![g] = AppendRow(@, e.id, e.epoch)]
                  ELSE journal
    /\ accepted' = IF taken
                   THEN accepted \union {[id |-> e.id, gw |-> g, epoch |-> e.epoch]}
                   ELSE accepted
    /\ UNCHANGED <<mysql, recon, adapter, stream, network, faults>>

\* Reconciler.Expire, excluded by applyMu while a snapshot is applied.  The
\* leases of a gateway all come from its last snapshot and elapse together.
Expire(g) ==
    /\ recon[g].epochs # NoEpochs /\ ~stream[g].applying
    /\ recon' = [recon EXCEPT ![g].epochs = NoEpochs]
    /\ UNCHANGED <<mysql, journal, sink, adapter, stream, network, books>>

-----------------------------------------------------------------------------
(***************************************************************************)
(* The gateway's control supervisor: one goroutine per stream.             *)
(***************************************************************************)

\* GatewayRepo.AcceptConnection allocates the next connection epoch, which
\* fences every earlier connection, to a handler at control point pc.
AcceptConnection(g, pc) ==
    LET c == connEpoch[g] + 1 IN
    /\ connEpoch' = [connEpoch EXCEPT ![g] = c]
    /\ handler' = [handler EXCEPT ![g][c] = HandlerAt(pc)]
    /\ UNCHANGED <<assignment, revision, ledger, eventLog, sentLog, claim>>

\* runStream/openSession: replay is paused until this connection delivers a
\* snapshot (ResetDesiredAssignments).
Connect(g) ==
    /\ g \in Online /\ stream[g].epoch = 0
    /\ connEpoch[g] < MaxConnections
    /\ AcceptConnection(g, "accepted")
    /\ adapter' = [adapter EXCEPT ![g].live = FALSE]
    /\ stream' = [stream EXCEPT ![g].epoch = connEpoch[g] + 1]
    /\ UNCHANGED <<journal, sink, recon, up, down, books>>

\* ProveCurrentConnection: certificate renewal proves a replacement stream,
\* which fences the incumbent, and closes it again.
ProveCurrentConnection(g) ==
    /\ stream[g].epoch # 0
    /\ connEpoch[g] + 1 < MaxConnections
    /\ faults < MaxFaults /\ faults' = faults + 1
    /\ AcceptConnection(g, "closed")
    /\ UNCHANGED <<journal, process, up, down, accepted>>

\* The goroutine is at its select: connected and not inside an apply.
Ready(g) == stream[g].epoch # 0 /\ ~stream[g].applying

\* The next control frame is of the given type.
Received(g, type) == Ready(g) /\ down[g] # <<>> /\ Head(down[g]).type = type

\* The frames a gateway appends to its stream; a closed handler takes none.
Sent(g, frames) ==
    LET c == stream[g].epoch IN
    up' = [up EXCEPT ![g][c] = IF Open(g, c) THEN @ \o frames ELSE @]

\* The rows ControlAdapter.batch would send, and the journal it leaves: when
\* the snapshot authorises none of the rows read, they are retired locally.
NextEventBatch(g, j) ==
    {r \in ReadUnacked(j, BatchEntries) :
        adapter[g].live /\ adapter[g].epochs[SessionOf[r.id]] = r.epoch}

\* Mutants of RetireUnowned: rows are retired as soon as one of them is not
\* authorised; rows are never retired.
RetireOnFirstUnowned(g, j) ==
    LET read == ReadUnacked(j, BatchEntries) IN
    IF adapter[g].live /\ read # NextEventBatch(g, j)
    THEN AckThrough(j, LastSeq(read))
    ELSE j

RetireNothing(g, j) == j

RetireUnowned(g, j) ==
    LET read == ReadUnacked(j, BatchEntries) IN
    IF adapter[g].live /\ read # {} /\ NextEventBatch(g, j) = {}
    THEN AckThrough(j, LastSeq(read))
    ELSE j

\* sendEventBatch on journal j with nothing in flight, after the frames sent
\* before it.
SendBatch(g, j, armed, before) ==
    LET batch == NextEventBatch(g, j) IN
    /\ journal' = [journal EXCEPT ![g] = RetireUnowned(g, j)]
    /\ stream' = [stream EXCEPT ![g].armed = armed,
                                ![g].expected = IF batch = {} THEN 0 ELSE LastSeq(batch)]
    /\ Sent(g, IF batch = {} THEN before ELSE Append(before, EventBatch(batch)))

\* Mutant of SendHeartbeat: a second batch is sent while one is in flight.
SendHeartbeatAlwaysBatch(g) ==
    /\ Ready(g) /\ stream[g].armed
    /\ SendBatch(g, journal[g], FALSE, <<Heartbeat>>)
    /\ UNCHANGED <<mysql, sink, recon, adapter, down, handler, books>>

\* sendHeartbeat, and sendEventBatch unless a batch is in flight.
SendHeartbeat(g) ==
    /\ Ready(g) /\ stream[g].armed
    /\ IF stream[g].expected = 0
       THEN SendBatch(g, journal[g], FALSE, <<Heartbeat>>)
       ELSE /\ stream' = [stream EXCEPT ![g].armed = FALSE]
            /\ Sent(g, <<Heartbeat>>)
            /\ UNCHANGED journal
    /\ UNCHANGED <<mysql, sink, recon, adapter, down, handler, books>>

\* Welcome, or acknowledgeHeartbeat.
ArmHeartbeat(g) ==
    /\ Received(g, "armed")
    /\ stream' = [stream EXCEPT ![g].armed = TRUE]
    /\ down' = [down EXCEPT ![g] = Tail(@)]
    /\ UNCHANGED <<mysql, journal, sink, recon, adapter, up, handler, books>>

\* handleEventAck: only the acknowledgement of the batch in flight is taken;
\* any other is ErrProtocol, after which the supervisor never reconnects.
HandleEventAck(g) ==
    LET seq == Head(down[g]).seq IN
    /\ Received(g, "ack")
    /\ seq = stream[g].expected /\ AckKnown(journal[g], seq)
    /\ down' = [down EXCEPT ![g] = Tail(@)]
    /\ SendBatch(g, AckThrough(journal[g], seq), stream[g].armed, <<>>)
    /\ UNCHANGED <<mysql, sink, recon, adapter, handler, books>>

\* applyDesiredState, first half: Reconciler.Apply publishes the candidate
\* assignments and calls the runtime back.  A delayed revision is a no-op.
BeginApply(g) ==
    LET snap == Head(down[g]) IN
    /\ Received(g, "snapshot")
    /\ recon' = [recon EXCEPT ![g].epochs =
                   IF snap.rev < recon[g].rev THEN @ ELSE snap.epochs]
    /\ stream' = [stream EXCEPT ![g].applying = TRUE]
    /\ UNCHANGED <<mysql, journal, sink, adapter, network, books>>

\* SetDesiredAssignments ignores a delayed snapshot.
SetDesiredAssignments(a, snap) ==
    IF snap.rev < a.rev
    THEN a
    ELSE [live |-> TRUE, rev |-> snap.rev, epochs |-> snap.epochs]

\* Second half: the callbacks succeeded, the revision is recorded, the journal
\* adapter takes the snapshot over and the report is sent.
FinishApply(g) ==
    LET snap == Head(down[g]) IN
    /\ stream[g].applying
    /\ recon' = [recon EXCEPT ![g].rev = IF snap.rev < @ THEN @ ELSE snap.rev]
    /\ adapter' = [adapter EXCEPT ![g] = SetDesiredAssignments(@, snap)]
    /\ stream' = [stream EXCEPT ![g].applying = FALSE]
    /\ down' = [down EXCEPT ![g] = Tail(@)]
    /\ Sent(g, <<Report(snap.rev)>>)
    /\ UNCHANGED <<mysql, journal, sink, handler, books>>

\* Mutant of LeaveStream: the batch in flight survives the stream.
LeaveStreamInFlight(g) ==
    /\ stream' = [stream EXCEPT ![g] = [NoStream EXCEPT !.expected = stream[g].expected]]
    /\ down' = [down EXCEPT ![g] = <<>>]

\* The gateway leaves its stream, whose state goes with it: Run reconnects later.
LeaveStream(g) ==
    /\ stream' = [stream EXCEPT ![g] = NoStream]
    /\ down' = [down EXCEPT ![g] = <<>>]

\* A runtime callback failed: rollback clears the assignments (failClosed).
FailApply(g) ==
    /\ stream[g].applying
    /\ faults < MaxFaults /\ faults' = faults + 1
    /\ recon' = [recon EXCEPT ![g].epochs = NoEpochs]
    /\ LeaveStream(g)
    /\ UNCHANGED <<mysql, journal, sink, adapter, up, handler, accepted>>

\* The server ended the stream and every frame it sent has been handled.
StreamClosed(g) ==
    /\ Ready(g) /\ down[g] = <<>> /\ ~Open(g, stream[g].epoch)
    /\ LeaveStream(g)
    /\ UNCHANGED <<mysql, journal, sink, recon, adapter, up, handler, books>>

\* The transport breaks or the control lease runs out: frames on their way to
\* the gateway are lost.
StreamBreak(g) ==
    /\ Ready(g)
    /\ faults < MaxFaults /\ faults' = faults + 1
    /\ LeaveStream(g)
    /\ UNCHANGED <<mysql, journal, sink, recon, adapter, up, handler, accepted>>

\* The process dies and restarts with its journal and nothing else.
Crash(g) ==
    /\ g \in Online
    /\ faults < MaxFaults /\ faults' = faults + 1
    /\ LeaveStream(g)
    /\ sink' = [sink EXCEPT ![g] = {}]
    /\ recon' = [recon EXCEPT ![g] = NoRecon]
    /\ adapter' = [adapter EXCEPT ![g] = NoAdapter]
    /\ UNCHANGED <<mysql, journal, up, handler, accepted>>

-----------------------------------------------------------------------------
(***************************************************************************)
(* The API's stream handler (Server.Connect), one per accepted connection. *)
(***************************************************************************)

\* The next gateway frame of an idle handler is of the given type.
Taken(g, c, type) ==
    /\ handler[g][c].pc = "idle"
    /\ up[g][c] # <<>> /\ Head(up[g][c]).type = type

\* A fenced read of the desired revision, the frame that answers, and the
\* start of a desired-state push; a newer connection makes it a stale epoch.
StartPush(g, c, rest) ==
    IF connEpoch[g] = c
    THEN /\ handler' = [handler EXCEPT ![g][c] =
                          [HandlerAt("list") EXCEPT !.rev = revision[g]]]
         /\ up' = [up EXCEPT ![g][c] = rest]
         /\ Deliver(g, c, Armed)
    ELSE Close(g, c)

\* AcceptConnection's read of the accepted row, and Welcome.
HandleHello(g, c) ==
    /\ handler[g][c].pc = "accepted"
    /\ StartPush(g, c, up[g][c])
    /\ UNCHANGED <<mysql, journal, process, books>>

HandleHeartbeat(g, c) ==
    /\ Taken(g, c, "heartbeat")
    /\ StartPush(g, c, Tail(up[g][c]))
    /\ UNCHANGED <<mysql, journal, process, books>>

\* DesiredStateForEpoch, ListGatewayDesiredStateAssignments: a join that has no
\* row at all once the revision or the connection epoch has moved on.
ListAssignments(g, c) ==
    LET current == revision[g] = handler[g][c].rev /\ connEpoch[g] = c IN
    /\ handler[g][c].pc = "list"
    /\ handler' = [handler EXCEPT ![g][c] =
                     [@ EXCEPT !.pc = "recheck",
                               !.epochs = IF current THEN Assigned(g) ELSE NoEpochs]]
    /\ UNCHANGED <<mysql, journal, process, up, down, books>>

\* Mutant of PushDesiredState: the snapshot is pushed without the recheck.
PushUnchecked(g, c) ==
    LET h == handler[g][c] IN
    /\ h.pc = "recheck"
    /\ Deliver(g, c, Snapshot(h.rev, h.epochs))
    /\ handler' = [handler EXCEPT ![g][c] = HandlerAt("idle")]
    /\ UNCHANGED <<mysql, journal, process, up, books>>

\* The recheck of revision and epoch, and the push of the snapshot.
PushDesiredState(g, c) ==
    LET h == handler[g][c] IN
    /\ h.pc = "recheck"
    /\ IF revision[g] = h.rev /\ connEpoch[g] = c
       THEN /\ Deliver(g, c, Snapshot(h.rev, h.epochs))
            /\ handler' = [handler EXCEPT ![g][c] = HandlerAt("idle")]
            /\ UNCHANGED up
       ELSE Close(g, c)
    /\ UNCHANGED <<mysql, journal, process, books>>

\* GatewayReconciliationRepo.Persist accepts a report of the current revision
\* over the current connection; any other ends the stream.
PersistReport(g, c) ==
    /\ Taken(g, c, "report")
    /\ IF revision[g] = Head(up[g][c]).rev /\ connEpoch[g] = c
       THEN /\ up' = [up EXCEPT ![g][c] = Tail(@)]
            /\ UNCHANGED <<handler, down>>
       ELSE Close(g, c)
    /\ UNCHANGED <<mysql, journal, process, books>>

\* IngestBatch, its reads: every row must carry the current assignment and
\* the current connection, else the batch is stale and the stream ends.  The
\* reads see the snapshot taken by the first one and take no lock.
IngestFence(g, c) ==
    LET batch == Head(up[g][c]).batch IN
    /\ Taken(g, c, "events")
    /\ IF connEpoch[g] = c /\ \A r \in batch : Owns(g, SessionOf[r.id], r.epoch)
       THEN /\ handler' = [handler EXCEPT ![g][c] =
                             [HandlerAt("ingest") EXCEPT !.batch = batch]]
            /\ up' = [up EXCEPT ![g][c] = Tail(@)]
            /\ UNCHANGED down
       ELSE Close(g, c)
    /\ UNCHANGED <<mysql, journal, process, books>>

\* Mutant of LedgerInserts: the ledger has no foreign key to the session.
LedgerInsertsUnchecked(batch) == {r \in batch : r.id \notin ledger}

\* INSERT IGNORE adds a ledger row for an ID without one; a session deleted in
\* the meantime fails the foreign key and is ignored as well.
LedgerInserts(batch) ==
    {r \in batch : r.id \notin ledger /\ ~Deleted(SessionOf[r.id])}

\* Mutant of ClaimsMessage: the owner of an existing claim is not compared.
ClaimsAnyMessage(r, rows) ==
    \A q \in rows : EchoOf[q.id] = EchoOf[r.id] => r.seq <= q.seq

\* claimOutgoingEvent: the echo that takes its message's claim, the first of
\* the batch, or that holds it from before.
ClaimsMessage(r, rows) ==
    LET m == EchoOf[r.id] IN
    \/ claim[m] = [owner |-> "gateway", id |-> r.id]
    \/ /\ claim[m] = Unclaimed
       /\ \A q \in rows : EchoOf[q.id] = m => r.seq <= q.seq

\* Among newly inserted rows, those that own their public event.
PublicRows(rows) ==
    {r \in rows : EchoOf[r.id] = NoMessage \/ ClaimsMessage(r, rows)}

\* Mutant of LogRows: the batch is inserted newest first.
LogRowsNewestFirst(g, rows) ==
    {[pos |-> Cardinality(eventLog) + 1 + Cardinality({q \in rows : q.seq > r.seq}),
      id |-> r.id, gw |-> g, epoch |-> r.epoch, seq |-> r.seq] : r \in rows}

\* event_log rows in batch order, at the next AUTO_INCREMENT cursors.
LogRows(g, rows) ==
    {[pos |-> Cardinality(eventLog) + 1 + Cardinality({q \in rows : q.seq < r.seq}),
      id |-> r.id, gw |-> g, epoch |-> r.epoch, seq |-> r.seq] : r \in rows}

\* A second event_log row for an ID violates uq_event_id.
Conflicts(rows) == \E r \in rows, l \in eventLog : l.id = r.id

\* The claims after the rows took theirs.
Claimed(rows) ==
    [m \in Message |->
        IF \E r \in rows : EchoOf[r.id] = m
        THEN [owner |-> "gateway", id |-> (CHOOSE r \in rows : EchoOf[r.id] = m).id]
        ELSE claim[m]]

\* IngestBatch, its writes and commit, and the acknowledgement of the batch's
\* last sequence.  A conflict rolls the batch back and ends the stream.
IngestCommit(g, c) ==
    LET batch == handler[g][c].batch
        new == LedgerInserts(batch)
        public == PublicRows(new)
    IN
    /\ handler[g][c].pc = "ingest"
    /\ IF Conflicts(public)
       THEN Close(g, c) /\ UNCHANGED <<ledger, eventLog, claim>>
       ELSE /\ ledger' = ledger \union {r.id : r \in new}
            /\ eventLog' = eventLog \union LogRows(g, public)
            /\ claim' = Claimed(public)
            /\ Deliver(g, c, EventAck(LastSeq(batch)))
            /\ handler' = [handler EXCEPT ![g][c] = HandlerAt("idle")]
            /\ UNCHANGED up
    /\ UNCHANGED <<assignment, revision, connEpoch, sentLog, journal, process, books>>

\* The stream context is done: the gateway has left, and the handler returns
\* at whatever step it is (an open transaction rolls back).
HandlerReturns(g, c) ==
    /\ Open(g, c) /\ stream[g].epoch # c
    /\ Close(g, c)
    /\ UNCHANGED <<mysql, journal, process, books>>

\* The API process dies, a statement fails or the heartbeat lease runs out.
HandlerFails(g, c) ==
    /\ Open(g, c)
    /\ faults < MaxFaults /\ faults' = faults + 1
    /\ Close(g, c)
    /\ UNCHANGED <<mysql, journal, process, accepted>>

-----------------------------------------------------------------------------
\* The publishing goroutines, and the supervisor's.
SinkStep(g) == \E e \in sink[g] : AppendEvent(g, e)

SupervisorStep(g) ==
    \/ Connect(g) \/ SendHeartbeat(g) \/ ArmHeartbeat(g) \/ HandleEventAck(g)
    \/ BeginApply(g) \/ FinishApply(g) \/ StreamClosed(g)

HandlerStep(g, c) ==
    \/ HandleHello(g, c) \/ HandleHeartbeat(g, c) \/ ListAssignments(g, c)
    \/ PushDesiredState(g, c) \/ PersistReport(g, c) \/ IngestFence(g, c)
    \/ IngestCommit(g, c) \/ HandlerReturns(g, c)

Next ==
    \/ \E s \in Session : UpdateConfig(s) \/ DeleteSession(s)
    \/ \E s \in Session, g \in Gateway : Reassign(s, g)
    \/ \E m \in Message : AppendOwnSentOnce(m)
    \/ \E g \in Gateway, id \in EventId : Label(g, id)
    \/ \E g \in Gateway : \/ SinkStep(g) \/ SupervisorStep(g)
                          \/ Expire(g) \/ ProveCurrentConnection(g)
                          \/ FailApply(g) \/ StreamBreak(g) \/ Crash(g)
    \/ \E g \in Gateway, c \in ConnEpoch : HandlerStep(g, c) \/ HandlerFails(g, c)

Spec == Init /\ [][Next]_vars

\* No goroutine is starved: the supervisor's loop, and the handler of every
\* accepted stream.  Nothing is assumed of events, configuration or failures,
\* of which there are finitely many.
Fairness ==
    /\ \A g \in Gateway : WF_vars(SupervisorStep(g))
    /\ \A g \in Gateway, c \in ConnEpoch : WF_vars(HandlerStep(g, c))

FairSpec == Spec /\ Fairness

-----------------------------------------------------------------------------
(***************************************************************************)
(* Properties.                                                             *)
(***************************************************************************)
\* A row is never labelled with epoch 0: decodeJournalEvent would refuse it on
\* every replay, and the journal with it.
Row == [seq: Nat, id: EventId, epoch: Nat \ {0}]

Journals == [entries: SUBSET Row, next: Nat, acked: Nat]

UpFrame == [type: {"heartbeat", "report", "events"}, rev: Nat, batch: SUBSET Row]

DownFrame == [type: {"armed", "ack", "snapshot"}, seq: Nat, rev: Nat, epochs: Epochs]

Handlers ==
    [pc: {"absent", "accepted", "list", "recheck", "idle", "ingest", "closed"},
     rev: Nat, epochs: Epochs, batch: SUBSET Row]

MySQLTypeOK ==
    /\ assignment \in [Session -> [gw: Gateway \union {NoGateway}, epoch: Nat]]
    /\ revision \in [Gateway -> Nat]
    /\ connEpoch \in [Gateway -> 0..MaxConnections]
    /\ ledger \subseteq EventId
    /\ eventLog \subseteq [pos: Nat, id: EventId, gw: Gateway, epoch: Nat, seq: Nat]
    /\ sentLog \subseteq Message
    /\ claim \in [Message -> [owner: {"none", "api", "gateway"},
                              id: EventId \union {NoEvent}]]

GatewayTypeOK ==
    /\ journal \in [Gateway -> Journals]
    /\ sink \in [Gateway -> SUBSET [id: EventId, epoch: Nat \ {0}]]
    /\ recon \in [Gateway -> [rev: Nat, epochs: Epochs]]
    /\ adapter \in [Gateway -> [live: BOOLEAN, rev: Nat, epochs: Epochs]]
    /\ stream \in [Gateway -> [epoch: 0..MaxConnections, armed: BOOLEAN,
                               expected: Nat, applying: BOOLEAN]]

NetworkTypeOK ==
    /\ up \in [Gateway -> [ConnEpoch -> Seq(UpFrame)]]
    /\ down \in [Gateway -> Seq(DownFrame)]
    /\ handler \in [Gateway -> [ConnEpoch -> Handlers]]

\* Type correctness of the tables, the gateway processes, the frames and the
\* handlers.
TypeOK ==
    /\ MySQLTypeOK /\ GatewayTypeOK /\ NetworkTypeOK
    /\ accepted \subseteq [id: EventId, gw: Gateway, epoch: Nat]
    /\ faults \in Nat

\* What the API holds of an accepted event, or why it need not hold it: the
\* (gateway, epoch) that accepted it no longer owns the session.
Settled(x) == x.id \in ledger \/ ~Owns(x.gw, SessionOf[x.id], x.epoch)

\* No event the journal took is lost while its assignment stands: its row stays
\* until the API has committed it, whatever snapshot, acknowledgement, crash or
\* reconnect comes between (ControlAdapter.batch retires rows on the authority
\* of the last snapshot, Journal.Ack deletes everything through a position).
NoLoss ==
    \A x \in accepted :
        \/ Settled(x)
        \/ \E r \in journal[x.gw].entries : r.id = x.id /\ r.epoch = x.epoch

\* Reassign does not wait for the old owner, whose lease may outlive the
\* assignment: two gateways may hold a session at a time, but only its owner
\* holds it under the current epoch, which is what the ingest fence compares.
HoldersAreFenced ==
    \A g \in Gateway, s \in Session :
        recon[g].epochs[s] # 0 =>
            \/ recon[g].epochs[s] < assignment[s].epoch
            \/ Deleted(s)
            \/ Owns(g, s, recon[g].epochs[s])

\* A replayed batch never reaches event_log with an ID that is already there:
\* the unique key would roll back the batch, and every later replay of it, for
\* good (IngestBatch: the ledger decides, not event_log).
IngestNeverConflicts ==
    \A g \in Gateway, c \in ConnEpoch :
        handler[g][c].pc = "ingest" =>
            ~Conflicts(PublicRows(LedgerInserts(handler[g][c].batch)))

\* A sent message has one public event, from the API's send or from a gateway's
\* echo, however often each is retried or replayed (claimOutgoingEvent).
OnePublicEvent ==
    /\ \A l \in eventLog : EchoOf[l.id] \notin sentLog
    /\ \A l, k \in eventLog :
          \/ l = k
          \/ /\ l.id # k.id
             /\ EchoOf[l.id] = EchoOf[k.id] => EchoOf[l.id] = NoMessage

\* Events of one session under one assignment enter the log in the order the
\* gateway's journal took them, across lost acknowledgements and reconnects.
OrderedLog ==
    \A l, k \in eventLog :
        (SessionOf[l.id] = SessionOf[k.id] /\ l.epoch = k.epoch /\ l.seq < k.seq)
            => l.pos < k.pos

\* An acknowledgement on the stream is that of the batch in flight and is known
\* to the journal.  Any other is a protocol error that stops the supervisor
\* for good (handleEventAck, terminal; ErrUnknownAck of Journal.Ack).
AckMatchesBatch ==
    \A g \in Gateway : \A i \in DOMAIN down[g] :
        down[g][i].type = "ack" =>
            /\ down[g][i].seq = stream[g].expected
            /\ AckKnown(journal[g], down[g][i].seq)

\* An accepted event is committed by the API, unless its assignment ends: no
\* lost frame, failed apply or superseded row in front of it blocks it for ever.
EventuallyIngested == <>[](\A x \in accepted : Settled(x))

-----------------------------------------------------------------------------
\* The refinement: journal rows are the pending entries, the ledger is what is
\* committed, event_log is what is published.
Contract == INSTANCE DeliveryContract WITH
    Epoch <- Nat,
    owner <- assignment,
    pending <- {x \in accepted : \E r \in journal[x.gw].entries :
                                     r.id = x.id /\ r.epoch = x.epoch},
    committed <- ledger,
    published <- [i \in EventId |-> Cardinality({l \in eventLog : l.id = i})]

\* Every step of the gateways, the streams and the API is a step the contract
\* allows, or changes nothing it speaks of: batching, replay, retirement and
\* ingest implement exactly-once hand-over.
ImplementsContract == Contract!Spec

=============================================================================
