------------------------------ MODULE HistorySync ------------------------------
(***************************************************************************)
(* Import of chat history on (re)link: the gateway's durable inbox and run *)
(* table (internal/gateway/journal/history.go), the worker that drains it  *)
(* (internal/gateway/historysync/worker.go), the manager callbacks that    *)
(* feed and drop it (internal/wa/history.go, manager.go) and the API's     *)
(* projection of what it journals (internal/store/history.go).             *)
(*                                                                         *)
(* One session on one gateway.  A notification is a model value with the   *)
(* account it was sent by, the number of batches its blob converts to and  *)
(* whether it tells the worker that the phone has sent everything.  Times  *)
(* (back-off, pacing, the idle and give-up windows) are nondeterminism;    *)
(* the hourly prune of rows finished a week ago is left out.               *)
(*                                                                         *)
(* Between the worker and the API stands the event journal.  The worker    *)
(* relies on it for what EventDelivery shows: events reach the API in the  *)
(* order of their first append, and one id is delivered as one event.  The *)
(* API's workers take them from there as Fanout shows: mostly in order,    *)
(* but overlapping claims and overrun leases project an event after its    *)
(* successors.                                                             *)
(***************************************************************************)
EXTENDS Naturals, Sequences, FiniteSets, SequencesExt

CONSTANTS
    Account,        \* phone accounts the session may be linked to
    NoAccount,      \* the device is not linked
    Notification,   \* history-sync notifications, by stanza id
    NoNotification,
    AccountOf,      \* the account that sent each of them
    PartsOf,        \* batches historysync.Convert makes of its blob
    Imported,       \* those that arrive while historySyncDays > 0
    Closing,        \* those that report 100% of the wanted sync type
    Unreadable,     \* ids of the events the API cannot decode or finds invalid
    MaxLinks,       \* bound on logouts and removals
    MaxAhead,       \* bound on the events projected before one in front of them
    MaxFaults       \* bound on crashes, failed writes, downloads and leases

ASSUME HistoryAssumption ==
    /\ NoAccount \notin Account
    /\ NoNotification \notin Notification
    /\ AccountOf \in [Notification -> Account]
    /\ PartsOf \in [Notification -> Nat]
    /\ Imported \subseteq Notification
    /\ Closing \subseteq Notification
    /\ MaxLinks \in Nat
    /\ MaxAhead \in Nat
    /\ MaxFaults \in Nat

VARIABLES
    device,     \* account of the linked device, NoAccount after a logout
    link,       \* "absent" from the manager, "offline" or "online"
    owned,      \* the reconciler holds a live assignment of the session
    phone,      \* what the phone knows of each notification
    accepting,  \* the notification whose Accept has stored it, not yet receipted
    dropping,   \* the writes of worker.drop still to come
    inbox,      \* history_inbox: arrival order
    row,        \* history_inbox: status and batches_done of each row
    runs,       \* history_runs, by the notification that seeds the run id
    worker,     \* the worker's step and its local variables
    log,        \* events in the order the API commits them
    done,       \* those whose projection is completed, by position
    ledger,     \* history_sync_batches
    api,        \* history_sync_runs
    links, faults,
    torn        \* how a drop has ended runs under work that went on (history)

vars == <<device, link, owned, phone, accepting, dropping, inbox, row, runs,
          worker, log, done, ledger, api, links, faults, torn>>

session == <<device, link, owned>>
store   == <<inbox, row, runs>>
apiVars == <<done, ledger, api>>
budget  == <<links, faults, torn>>

-----------------------------------------------------------------------------
NoRow == [status |-> "none", cursor |-> 0]
NoRun == [status |-> "none", chunks |-> 0, batches |-> 0, emitted |-> FALSE]
Idle  == [pc |-> "tick", note |-> NoNotification, run |-> NoNotification,
          next |-> 0, todo |-> {}]

Init ==
    /\ device = NoAccount /\ link = "offline" /\ owned = TRUE
    /\ phone = [n \in Notification |-> "unsent"]
    /\ accepting = NoNotification
    /\ dropping = [step |-> "none", keep |-> NoAccount]
    /\ inbox = <<>>
    /\ row  = [n \in Notification |-> NoRow]
    /\ runs = [n \in Notification |-> NoRun]
    /\ worker = Idle
    /\ log = <<>> /\ done = {} /\ ledger = {}
    /\ api = [n \in Notification |-> [status |-> "none", reported |-> 0, applied |-> 0]]
    /\ links = 0 /\ faults = 0 /\ torn = {}

Fault == faults < MaxFaults /\ faults' = faults + 1

Pending(n) == row[n].status = "pending"
HasPendingHistory == \E n \in Notification : Pending(n)

-----------------------------------------------------------------------------
(* The device.                                                             *)

\* PairSuccess: whatsmeow sets the device's JID, then the handler calls
\* worker.Paired, which keeps what belongs to the new account.
Link(a) ==
    /\ device = NoAccount /\ link # "absent" /\ dropping.step = "none"
    /\ device' = a /\ link' = "online"
    /\ dropping' = [step |-> "discard", keep |-> a]
    /\ UNCHANGED <<owned, phone, accepting, store, worker, log, apiVars, budget>>

\* setLoggedOut after teardown: a fresh device, then worker.Discard.
Logout ==
    /\ device # NoAccount /\ link # "absent" /\ dropping.step = "none"
    /\ accepting = NoNotification
    /\ links < MaxLinks /\ links' = links + 1
    /\ device' = NoAccount /\ link' = "offline"
    /\ dropping' = [step |-> "discard", keep |-> NoAccount]
    /\ UNCHANGED <<owned, phone, accepting, store, worker, log, apiVars, faults, torn>>

\* Manager.Forget: the keystore's device stays.
Forget ==
    /\ link # "absent" /\ dropping.step = "none" /\ accepting = NoNotification
    /\ links < MaxLinks /\ links' = links + 1
    /\ link' = "absent"
    /\ dropping' = [step |-> "discard", keep |-> NoAccount]
    /\ UNCHANGED <<device, owned, phone, accepting, store, worker, log, apiVars,
                   faults, torn>>

\* The assignment is (re)applied: the manager knows the session again.
Resume ==
    /\ link = "absent" /\ dropping.step = "none"
    /\ link' = "offline"
    /\ UNCHANGED <<device, owned, phone, accepting, dropping, store, worker, log, apiVars, budget>>

Reconnect ==
    /\ link = "offline" /\ device # NoAccount
    /\ link' = "online"
    /\ UNCHANGED <<device, owned, phone, accepting, dropping, store, worker, log, apiVars, budget>>

Disconnect ==
    /\ link = "online" /\ Fault
    /\ link' = "offline"
    /\ UNCHANGED <<device, owned, phone, accepting, dropping, store, worker, log,
                   apiVars, links, torn>>

LeaseLost ==
    /\ owned /\ Fault
    /\ owned' = FALSE
    /\ UNCHANGED <<device, link, phone, accepting, dropping, store, worker, log,
                   apiVars, links, torn>>

LeaseBack ==
    /\ ~owned /\ owned' = TRUE
    /\ UNCHANGED <<device, link, phone, accepting, dropping, store, worker, log, apiVars, budget>>

-----------------------------------------------------------------------------
(* Accept, Paired and Discard: called from the client's event handler.     *)

\* EnqueueHistory: INSERT OR IGNORE on (session, notification).
EnqueueHistory(n) ==
    /\ inbox' = IF row[n].status = "none" THEN Append(inbox, n) ELSE inbox
    /\ row' = IF row[n].status = "none"
              THEN [row EXCEPT ![n] = [status |-> "pending", cursor |-> 0]] ELSE row

\* Accept's first half.  A failed write changes nothing: the phone, without a
\* receipt, sends the notification again.  The handler runs one event of a
\* client at a time, after Paired has returned.
Accept(n) ==
    /\ phone[n] # "receipted" /\ link = "online" /\ device = AccountOf[n]
    /\ accepting = NoNotification /\ dropping.step = "none"
    /\ EnqueueHistory(n)
    /\ phone' = [phone EXCEPT ![n] = "sent"]
    /\ accepting' = n
    /\ UNCHANGED <<session, dropping, runs, worker, log, apiVars, budget>>

\* Accept's second half; a lost receipt is only logged.
SendReceipt ==
    /\ accepting # NoNotification
    /\ accepting' = NoNotification
    /\ \/ /\ phone' = [phone EXCEPT ![accepting] = "receipted"] /\ UNCHANGED faults
       \/ Fault /\ UNCHANGED phone
    /\ UNCHANGED <<session, dropping, store, worker, log, apiVars, links, torn>>

Drops(n) == dropping.keep = NoAccount \/ AccountOf[n] # dropping.keep

\* worker.drop, first write.  Its failure is logged and the second follows.
DiscardHistory ==
    /\ dropping.step = "discard"
    /\ dropping' = [dropping EXCEPT !.step = "end"]
    /\ \/ /\ row' = [n \in Notification |->
                       IF Pending(n) /\ Drops(n) THEN [row[n] EXCEPT !.status = "discarded"]
                                                 ELSE row[n]]
          /\ UNCHANGED faults
       \/ Fault /\ UNCHANGED row
    /\ UNCHANGED <<session, phone, accepting, inbox, runs, worker, log, apiVars, links, torn>>

\* worker.drop, second write.  It may end a run under the notification the
\* worker is importing ("raced"), or, when the first write failed, under rows
\* that stay pending ("kept").
EndHistoryRuns ==
    /\ dropping.step = "end"
    /\ dropping' = [step |-> "none", keep |-> NoAccount]
    /\ \/ /\ runs' = [n \in Notification |->
                        IF runs[n].status = "running" /\ Drops(n)
                        THEN [runs[n] EXCEPT !.status = "failed"] ELSE runs[n]]
          /\ torn' = torn
               \cup (IF \E n \in Notification : Pending(n) /\ Drops(n) THEN {"kept"} ELSE {})
               \cup (IF worker.note # NoNotification THEN {"raced"} ELSE {})
          /\ UNCHANGED faults
       \/ Fault /\ UNCHANGED <<runs, torn>>
    /\ UNCHANGED <<session, phone, accepting, inbox, row, worker, log, apiVars, links>>

-----------------------------------------------------------------------------
(* What the worker journals.                                               *)

Started(r)      == [id |-> <<"started", r>>, run |-> r, batches |-> 0]
Batch(r, n, i)  == [id |-> <<"batch", n, i>>, run |-> r, batches |-> 0]
Progress(r, n)  == [id |-> <<"progress", n>>, run |-> r,
                    batches |-> runs[r].batches + PartsOf[n]]
Final(r)        == [id |-> <<runs[r].status, r>>, run |-> r, batches |-> runs[r].batches]

Finals(r) == {<<"completed", r>>, <<"failed", r>>}
IsLogged(id) == \E k \in DOMAIN log : log[k].id = id

\* The journal and the API's event log keep the first event of an id.
Journal(e) == log' = IF IsLogged(e.id) THEN log ELSE Append(log, e)

\* The sink refuses an event of a session that is not owned; a full journal
\* refuses any.
Publish(e) == owned /\ Journal(e)
PublishRefused == (~owned /\ UNCHANGED faults) \/ (owned /\ Fault)

GoTo(pc) == worker' = [worker EXCEPT !.pc = pc]

-----------------------------------------------------------------------------
(* tick                                                                    *)

\* Mutant: only the completed runs are read.
EmitCompleted ==
    /\ worker.pc = "tick"
    /\ worker' = [worker EXCEPT !.pc = "finals",
                    !.todo = {r \in Notification : runs[r].status = "completed" /\ ~runs[r].emitted}]
    /\ UNCHANGED <<session, phone, accepting, dropping, store, log, apiVars, budget>>

\* emitFinals reads the ended runs whose last event is not journaled.
EmitFinals ==
    /\ worker.pc = "tick"
    /\ worker' = [worker EXCEPT !.pc = "finals",
                    !.todo = {r \in Notification : /\ runs[r].status \in {"completed", "failed"}
                                                   /\ ~runs[r].emitted}]
    /\ UNCHANGED <<session, phone, accepting, dropping, store, log, apiVars, budget>>

\* One of them: journaled, or skipped because the session is gone from this
\* gateway.  A refused one waits for a later tick, at most emitGiveUp.
EmitFinal(r) ==
    /\ worker.pc = "finals" /\ r \in worker.todo
    /\ \/ /\ link # "absent" /\ Publish(Final(r)) /\ UNCHANGED faults
          /\ worker' = [worker EXCEPT !.pc = "mark", !.run = r]
       \/ /\ link = "absent" /\ UNCHANGED <<log, faults>>
          /\ worker' = [worker EXCEPT !.pc = "mark", !.run = r]
       \/ /\ link # "absent" /\ PublishRefused /\ UNCHANGED log
          /\ \/ worker' = [worker EXCEPT !.todo = @ \ {r}]
             \/ worker' = [worker EXCEPT !.pc = "mark", !.run = r]
    /\ UNCHANGED <<session, phone, accepting, dropping, store, apiVars, links, torn>>

MarkHistoryRunEmitted ==
    /\ worker.pc = "mark"
    /\ runs' = [runs EXCEPT ![worker.run].emitted = TRUE]
    /\ worker' = [worker EXCEPT !.pc = "finals", !.todo = @ \ {worker.run},
                                !.run = NoNotification]
    /\ UNCHANGED <<session, phone, accepting, dropping, inbox, row, log, apiVars, budget>>

IdleHistoryRuns == {r \in Notification : runs[r].status = "running" /\ ~HasPendingHistory}

\* completeIdle: some run has been quiet for IdleComplete.
ReadIdle ==
    /\ worker.pc = "finals" /\ worker.todo = {}
    /\ IdleHistoryRuns # {}
    /\ worker' = [worker EXCEPT !.pc = "idle", !.todo = IdleHistoryRuns]
    /\ UNCHANGED <<session, phone, accepting, dropping, store, log, apiVars, budget>>

\* EndHistoryRun: only a running run ends.
EndHistoryRun(r, status) ==
    runs' = IF runs[r].status = "running" THEN [runs EXCEPT ![r].status = status] ELSE runs

\* Each idle run is completed, then emitFinals runs once more.
CompleteIdle(r) ==
    /\ worker.pc = "idle" /\ r \in worker.todo
    /\ EndHistoryRun(r, "completed")
    /\ worker' = [worker EXCEPT !.todo = @ \ {r},
                                !.pc = IF worker.todo = {r} THEN "tick" ELSE "idle"]
    /\ UNCHANGED <<session, phone, accepting, dropping, inbox, row, log, apiVars, budget>>

\* PendingHistory, the first row of the session only; nothing pending ends
\* the tick.
First(n) == /\ Pending(n)
            /\ \A m \in Notification : Pending(m) => m = n \/ 
                 \E i, j \in DOMAIN inbox : i < j /\ inbox[i] = n /\ inbox[j] = m

\* process, up to the download: HistoryClient and the account decide.
Process(n) ==
    /\ worker.pc = "finals" /\ worker.todo = {}
    /\ First(n)
    /\ \/ /\ \/ link = "absent"
             \/ device # NoAccount /\ device # AccountOf[n]
          /\ row' = [row EXCEPT ![n].status = "discarded"]
          /\ worker' = Idle
       \/ /\ link = "online" /\ owned /\ device = AccountOf[n]
          /\ worker' = [Idle EXCEPT !.pc = "download", !.note = n, !.next = row[n].cursor]
          /\ UNCHANGED row
    /\ UNCHANGED <<session, phone, accepting, dropping, inbox, runs, log, apiVars, budget>>

\* Nothing to do now: no row, or the session is offline or not owned and the
\* row is postponed.
Wait ==
    /\ worker.pc = "finals" /\ worker.todo = {}
    /\ \/ ~HasPendingHistory
       \/ /\ link # "absent" /\ ~(link = "online" /\ owned)
          /\ \E n \in Notification : First(n) /\ device \in {NoAccount, AccountOf[n]}
    /\ worker' = Idle
    /\ UNCHANGED <<session, phone, accepting, dropping, store, log, apiVars, budget>>

-----------------------------------------------------------------------------
(* process, after the download was asked for.                              *)

\* FinishHistory: the row ends only while pending; the run's counters are
\* added in the same transaction, whatever the row's status.
FinishHistory(n, status) ==
    row' = IF Pending(n) THEN [row EXCEPT ![n].status = status] ELSE row

\* With the import off the blob is downloaded and nothing is journaled.
Download ==
    /\ worker.pc = "download"
    /\ IF worker.note \in Imported
       THEN GoTo("ensure") /\ UNCHANGED row
       ELSE FinishHistory(worker.note, "done") /\ worker' = Idle
    /\ UNCHANGED <<session, phone, accepting, dropping, inbox, runs, log, apiVars, budget>>

\* downloadFailed: retried later; or the blob has expired or is unusable and
\* only this row fails; or the retries are over and the run ends next.
DownloadFailed ==
    /\ worker.pc = "download" /\ Fault
    /\ \/ worker' = Idle /\ UNCHANGED row
       \/ FinishHistory(worker.note, "failed") /\ worker' = Idle
       \/ FinishHistory(worker.note, "failed") /\ GoTo("giveup")
    /\ UNCHANGED <<session, phone, accepting, dropping, inbox, runs, log, apiVars,
                   links, torn>>

\* Mutant: ActiveHistoryRun without its status filter.
AnyRuns(n) ==
    {r \in Notification : runs[r].status # "none" /\ AccountOf[r] = AccountOf[n]}

ActiveRuns(n) ==
    {r \in Notification : runs[r].status = "running" /\ AccountOf[r] = AccountOf[n]}

GiveUp ==
    /\ worker.pc = "giveup"
    /\ IF ActiveRuns(worker.note) = {} THEN UNCHANGED runs
       ELSE \E r \in ActiveRuns(worker.note) : EndHistoryRun(r, "failed")
    /\ worker' = Idle
    /\ UNCHANGED <<session, phone, accepting, dropping, inbox, row, log, apiVars, budget>>

\* The account's running run, or one with the id the notification seeds; an
\* existing run of that id is kept as it is.
EnsureRun ==
    /\ worker.pc = "ensure"
    /\ LET n == worker.note
           r == IF ActiveRuns(n) = {} THEN n ELSE CHOOSE x \in ActiveRuns(n) : TRUE
           new == runs[r].status = "none"
       IN /\ runs' = IF new THEN [runs EXCEPT ![r].status = "running"] ELSE runs
          /\ worker' = [worker EXCEPT !.run = r,
                          !.pc = IF runs[r].chunks = 0 THEN "start" ELSE "batch"]
    /\ UNCHANGED <<session, phone, accepting, dropping, inbox, row, log, apiVars, budget>>

PublishStarted ==
    /\ worker.pc = "start" /\ Publish(Started(worker.run))
    /\ GoTo("batch")
    /\ UNCHANGED <<session, phone, accepting, dropping, store, apiVars, budget>>

\* Batches from the cursor of the row that was read; each is journaled before
\* the cursor moves past it.
PublishBatch ==
    /\ worker.pc = "batch" /\ worker.next < PartsOf[worker.note]
    /\ Publish(Batch(worker.run, worker.note, worker.next))
    /\ GoTo("cursor")
    /\ UNCHANGED <<session, phone, accepting, dropping, store, apiVars, budget>>

\* Mutant: the cursor also counts the batch that comes next.
SetCursorAhead ==
    /\ worker.pc = "cursor"
    /\ worker' = [worker EXCEPT !.pc = "batch", !.next = @ + 1]
    /\ row' = [row EXCEPT ![worker.note].cursor = worker.next + 2]
    /\ UNCHANGED <<session, phone, accepting, dropping, inbox, runs, log, apiVars, budget>>

\* A failed cursor write is only logged.
SetHistoryCursor ==
    /\ worker.pc = "cursor"
    /\ worker' = [worker EXCEPT !.pc = "batch", !.next = @ + 1]
    /\ \/ /\ row' = [row EXCEPT ![worker.note].cursor = worker.next + 1]
          /\ UNCHANGED faults
       \/ Fault /\ UNCHANGED row
    /\ UNCHANGED <<session, phone, accepting, dropping, inbox, runs, log, apiVars,
                   links, torn>>

PublishProgress ==
    /\ worker.pc = "batch" /\ worker.next = PartsOf[worker.note]
    /\ Publish(Progress(worker.run, worker.note))
    /\ GoTo("finish")
    /\ UNCHANGED <<session, phone, accepting, dropping, store, apiVars, budget>>

\* Any publish of process may fail: the row is postponed, as read.
PublishFails ==
    /\ worker.pc \in {"start", "batch"}
    /\ PublishRefused
    /\ worker' = Idle
    /\ UNCHANGED <<session, phone, accepting, dropping, store, log, apiVars, links, torn>>

\* The last transaction of an imported notification.  When it fails the row
\* stays pending and is processed again from its cursor.
Finish ==
    /\ worker.pc = "finish"
    /\ \/ /\ FinishHistory(worker.note, "done")
          /\ runs' = [runs EXCEPT ![worker.run].chunks = @ + 1,
                                  ![worker.run].batches = @ + PartsOf[worker.note]]
          /\ IF worker.note \in Closing THEN GoTo("settle") ELSE worker' = Idle
          /\ UNCHANGED faults
       \/ Fault /\ worker' = Idle /\ UNCHANGED <<row, runs>>
    /\ UNCHANGED <<session, phone, accepting, dropping, inbox, log, apiVars, links, torn>>

\* completes(res): with nothing else pending the run is completed.
Settle ==
    /\ worker.pc = "settle"
    /\ IF HasPendingHistory THEN worker' = Idle ELSE GoTo("complete")
    /\ UNCHANGED <<session, phone, accepting, dropping, store, log, apiVars, budget>>

Complete ==
    /\ worker.pc = "complete"
    /\ EndHistoryRun(worker.run, "completed")
    /\ worker' = Idle
    /\ UNCHANGED <<session, phone, accepting, dropping, inbox, row, log, apiVars, budget>>

\* The gateway process restarts.  The SQLite file, the keystore and the phone
\* keep their state; the handler's and the worker's work is lost.
Crash ==
    /\ Fault
    /\ worker' = Idle
    /\ accepting' = NoNotification
    /\ dropping' = [step |-> "none", keep |-> NoAccount]
    /\ link' = IF link = "absent" THEN link ELSE "offline"
    /\ UNCHANGED <<device, owned, phone, store, log, apiVars, links, torn>>

-----------------------------------------------------------------------------
(* The API's projection of one committed event.                            *)

Phase(e) == CASE e.id[1] \in {"completed", "failed"} -> e.id[1]
              [] OTHER -> "running"

\* Mutant: no ledger check before the batch is applied.
ApplyBatchAgain(e) ==
    /\ ledger' = ledger \cup {e.id}
    /\ api' = [api EXCEPT ![e.run].applied = @ + 1,
                          ![e.run].status = IF @ = "none" THEN "running" ELSE @]

\* HistoryRepo.ApplyBatch: the ledger makes a redelivered batch a no-op.
ApplyBatch(e) ==
    IF e.id \in ledger THEN UNCHANGED <<ledger, api>>
    ELSE /\ ledger' = ledger \cup {e.id}
         /\ api' = [api EXCEPT ![e.run].applied = @ + 1,
                               ![e.run].status = IF @ = "none" THEN "running" ELSE @]

\* HistoryRepo.ApplySync: the status mirrors the phase, the counters only grow.
ApplySync(e) ==
    /\ api' = [api EXCEPT ![e.run].status = Phase(e),
                          ![e.run].reported = IF @ < e.batches THEN e.batches ELSE @]
    /\ UNCHANGED ledger

\* projectHistoryBatch and projectHistorySync: a payload that cannot be read is
\* logged and skipped.
Apply(e) ==
    IF e.id \in Unreadable THEN UNCHANGED <<ledger, api>>
    ELSE IF e.id[1] = "batch" THEN ApplyBatch(e) ELSE ApplySync(e)

\* The events projected in front of an open predecessor.
Ahead(S) == {k \in S : \E j \in DOMAIN log \ S : j < k}

\* A committed-event worker projects the event it has claimed.  The event is
\* projected again when its completion was lost.
Project(k) ==
    /\ k \notin done /\ Cardinality(Ahead(done \cup {k})) <= MaxAhead
    /\ Apply(log[k])
    /\ \/ done' = done \cup {k} /\ UNCHANGED faults
       \/ Fault /\ UNCHANGED done
    /\ UNCHANGED <<session, phone, accepting, dropping, store, worker, log, links, torn>>

\* A worker that outlived its lease projects its event after another worker did
\* and completed it.
ProjectLate(k) ==
    /\ k \in done /\ Fault
    /\ Apply(log[k])
    /\ UNCHANGED <<session, phone, accepting, dropping, store, worker, log, done, links, torn>>

Projection == \E k \in DOMAIN log : Project(k)

-----------------------------------------------------------------------------
Tick == \/ EmitFinals \/ MarkHistoryRunEmitted \/ ReadIdle \/ Wait
        \/ \E n \in Notification : EmitFinal(n) \/ CompleteIdle(n) \/ Process(n)

Import == \/ Download \/ GiveUp \/ EnsureRun \/ PublishStarted \/ PublishBatch
          \/ SetHistoryCursor \/ PublishProgress \/ PublishFails \/ Finish
          \/ Settle \/ Complete

Handler == \/ SendReceipt \/ DiscardHistory \/ EndHistoryRuns
           \/ \E n \in Notification : Accept(n)

Environment == \/ Logout \/ Forget \/ Resume \/ Reconnect \/ Disconnect
               \/ LeaseLost \/ LeaseBack \/ DownloadFailed \/ Crash
               \/ \E a \in Account : Link(a)

Next == \/ Tick \/ Import \/ Handler \/ Environment \/ Projection
        \/ \E k \in DOMAIN log : ProjectLate(k)

Spec == Init /\ [][Next]_vars

\* The worker's loop and the handler keep running, a quiet run is noticed
\* (its window only grows), the manager reconnects and the lease is renewed,
\* the projection is retried.  Nothing makes the owner link a phone.
FairSpec ==
    /\ Spec
    /\ WF_vars(Tick \/ Import) /\ SF_vars(ReadIdle)
    /\ WF_vars(Handler) /\ WF_vars(Projection)
    /\ WF_vars(Reconnect) /\ WF_vars(Resume) /\ WF_vars(LeaseBack)

-----------------------------------------------------------------------------
TypeOK ==
    /\ device \in Account \cup {NoAccount}
    /\ link \in {"absent", "offline", "online"}
    /\ owned \in BOOLEAN
    /\ phone \in [Notification -> {"unsent", "sent", "receipted"}]
    /\ accepting \in Notification \cup {NoNotification}
    /\ dropping \in [step : {"none", "discard", "end"}, keep : Account \cup {NoAccount}]
    /\ IsInjective(inbox) /\ ToSet(inbox) = {n \in Notification : row[n].status # "none"}
    /\ row \in [Notification -> [status : {"none", "pending", "done", "failed", "discarded"},
                                 cursor : Nat]]
    /\ runs \in [Notification -> [status : {"none", "running", "completed", "failed"},
                                  chunks : Nat, batches : Nat, emitted : BOOLEAN]]
    /\ worker.note \in Notification \cup {NoNotification}
    /\ worker.run \in Notification \cup {NoNotification}
    /\ worker.todo \subseteq Notification
    /\ done \subseteq DOMAIN log
    /\ torn \subseteq {"kept", "raced"}

\* A receipted notification is stored, and one that ended "done" with the
\* import on has every batch and its progress event in the journal: neither a
\* crash between a publish, the cursor and the last transaction, nor a lost
\* write of either, drops a part.
DoneIsJournaled ==
    \A n \in Notification :
        /\ phone[n] = "receipted" => row[n].status # "none"
        /\ row[n].status = "done" /\ n \in Imported =>
             /\ \A i \in 0 .. PartsOf[n] - 1 : IsLogged(<<"batch", n, i>>)
             /\ IsLogged(<<"progress", n>>)

\* The batches of a run that the API has not applied.
Missing(r) == {k \in DOMAIN log : /\ log[k].id[1] = "batch" /\ log[k].run = r
                                  /\ log[k].id \notin ledger}

\* The counters the API shows for a run can be accounted for: every batch that
\* progress and final events report has been applied, once, or is in the event log
\* and waits for its projection or could not be read, in whatever order the workers
\* project the events and whatever was retried, republished or redelivered.  Only a
\* drop that ends a run in the middle of a notification splits its batches over two
\* runs.
ReportedIsAccounted ==
    torn = {} => \A r \in Notification :
        /\ api[r].reported <= api[r].applied + Cardinality(Missing(r))
        /\ api[r].applied = Cardinality({id \in ledger :
               \E k \in DOMAIN log : log[k].id = id /\ log[k].run = r})
        /\ \A k \in Missing(r) : k \notin done \/ log[k].id \in Unreadable

\* A run's verdict is the last the journal says of it: nothing of a run follows
\* its completed or failed event, not even when a logout races the import; only
\* rows kept by a failed discard can reopen the run.
VerdictIsLast ==
    "kept" \notin torn =>
        \A j, k \in DOMAIN log : log[j].id \in Finals(log[k].run) => k <= j

\* What the API shows of a run mirrors its latest phase, and projecting an event
\* once more writes the same values: a run shown as completed or failed is never
\* shown as running again or with the other verdict.  Not so when an event is
\* projected after one of its successors.
VerdictIsFinal ==
    []["kept" \notin torn' => \A r \in Notification :
         api[r].status \in {"completed", "failed"} => api'[r].status = api[r].status]_vars

\* As long as the owner keeps the session linked, every stored notification
\* ends up imported, failed or discarded, every run reaches a verdict that is
\* journaled or given up, and the API has projected all that was journaled.
HistorySettles ==
    []<>(device # NoAccount) =>
        <>[](\A n \in Notification :
               /\ phone[n] = "receipted" => ~Pending(n)
               /\ runs[n].status # "none" => runs[n].emitted
               /\ done = DOMAIN log)
=============================================================================
