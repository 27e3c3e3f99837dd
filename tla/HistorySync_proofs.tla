------------------------- MODULE HistorySync_proofs -------------------------
(***************************************************************************)
(* What the API shows of a history import is what the gateway journaled,   *)
(* for any number of accounts, notifications, batches, logouts and faults: *)
(* nothing of an imported notification is missing from the journal, a      *)
(* run's verdict is its last event, and every batch reported for a run is  *)
(* accounted for.                                                          *)
(*                                                                         *)
(* The worker's position is lost in a crash and the drop of a logout ends  *)
(* runs behind its back, so the invariants speak of what is durable: the   *)
(* rows, the runs and the order of the journal.                            *)
(***************************************************************************)
EXTENDS HistorySync, FiniteSetTheorems, FunctionTheorems, TLAPS

-----------------------------------------------------------------------------
(* Types.                                                                  *)

\* The steps of process while the notification's outcome is open, those with
\* a run, and all that hold a notification.
Processing == {"download", "ensure", "start", "batch", "cursor", "finish"}
Importing  == {"start", "batch", "cursor", "finish"}
Busy       == Processing \union {"giveup", "settle", "complete"}

Ended == {"completed", "failed"}

BatchIds == {<<"batch", n, i>> : n \in Notification, i \in Nat}
OtherIds == {<<s, r>> : s \in {"started", "progress", "completed", "failed"},
                        r \in Notification}
Event == [id : BatchIds \union OtherIds, run : Notification, batches : Nat]

Row == [status : {"none", "pending", "done", "failed", "discarded"}, cursor : Nat]
Run == [status : {"none", "running", "completed", "failed"},
        chunks : Nat, batches : Nat, emitted : BOOLEAN]
Worker == [pc : {"tick", "finals", "mark", "idle"} \union Busy,
           note : Notification \union {NoNotification},
           run : Notification \union {NoNotification},
           next : Nat, todo : SUBSET Notification]

\* The inbox holds each stored row once.
InboxOK ==
    /\ inbox \in Seq(Notification)
    /\ \A j, k \in DOMAIN inbox : inbox[j] = inbox[k] => j = k
    /\ \A k \in DOMAIN inbox : row[inbox[k]].status # "none"
    /\ \A n \in Notification : row[n].status # "none" => \E k \in DOMAIN inbox : inbox[k] = n

\* What the worker holds at each of its steps.
WorkerOK ==
    /\ worker \in Worker
    /\ worker.pc \in Busy => /\ worker.note \in Notification
                             /\ row[worker.note].status # "none"
    /\ worker.pc \in Importing \union {"settle", "complete"} =>
         worker.run \in Notification /\ runs[worker.run].status # "none"
    /\ worker.pc \notin Busy => worker.note = NoNotification
    /\ worker.pc \in {"giveup", "settle", "complete"} => ~Pending(worker.note)
    /\ worker.pc = "mark" => worker.run \in Notification
    /\ worker.pc \in {"finals", "mark"} => \A r \in worker.todo : runs[r].status \in Ended
    /\ worker.pc = "idle" => \A r \in worker.todo : runs[r].status # "none"

\* One id is one event of the log.
LogOK ==
    /\ log \in Seq(Event)
    /\ \A j, k \in DOMAIN log : log[j].id = log[k].id => j = k

Typed ==
    /\ phone \in [Notification -> {"unsent", "sent", "receipted"}]
    /\ accepting \in Notification \union {NoNotification}
    /\ row \in [Notification -> Row]
    /\ runs \in [Notification -> Run]
    /\ InboxOK
    /\ WorkerOK
    /\ LogOK

-----------------------------------------------------------------------------
(* The log.                                                                *)

\* Log l has an event of this id.
Has(l, id) == \E k \in DOMAIN l : l[k].id = id

\* The event of an id stays where it is, and the journal adds one at most.
LEMMA JournalGrows ==
    ASSUME LogOK, NEW e \in Event, Journal(e)
    PROVE  /\ LogOK'
           /\ Has(log', e.id)
           /\ \A k \in DOMAIN log : k \in DOMAIN log' /\ log'[k] = log[k]
           /\ \A k \in DOMAIN log' :
                k \in DOMAIN log \/ (k = Len(log) + 1 /\ log'[k] = e /\ ~Has(log, e.id))
           /\ Len(log) \in Nat /\ DOMAIN log = 1 .. Len(log)
<1>0. Len(log) \in Nat /\ DOMAIN log = 1 .. Len(log) /\ \A k \in DOMAIN log : log[k] \in Event
  BY DEF LogOK
<1>1. CASE IsLogged(e.id)
  <2>1. log' = log
    BY <1>1 DEF Journal
  <2> QED BY <1>0, <1>1, <2>1 DEF LogOK, IsLogged, Has
<1>2. CASE ~IsLogged(e.id)
  <2>1. log' = Append(log, e)
    BY <1>2 DEF Journal
  <2>2. /\ log' \in Seq(Event) /\ Len(log') = Len(log) + 1
        /\ DOMAIN log' = 1 .. Len(log) + 1
        /\ log'[Len(log) + 1] = e
        /\ \A k \in 1 .. Len(log) : log'[k] = log[k]
    BY <1>0, <2>1 DEF LogOK
  <2>3. \A k \in 1 .. Len(log) : log[k].id # e.id
    BY <1>0, <1>2 DEF IsLogged
  <2>4. ASSUME NEW j \in DOMAIN log', NEW k \in DOMAIN log', log'[j].id = log'[k].id
        PROVE  j = k
    <3>1. j \in 1 .. Len(log) \/ j = Len(log) + 1
      BY <1>0, <2>2
    <3>2. k \in 1 .. Len(log) \/ k = Len(log) + 1
      BY <1>0, <2>2
    <3> QED BY <1>0, <2>2, <2>3, <2>4, <3>1, <3>2 DEF LogOK
  <2>5. LogOK'
    BY <2>2, <2>4 DEF LogOK
  <2>6. Has(log', e.id)
    BY <1>0, <2>2 DEF Has
  <2> QED BY <1>0, <1>2, <2>2, <2>5, <2>6 DEF IsLogged, Has
<1> QED BY <1>1, <1>2

\* The events of the worker are events.
LEMMA EventTypes ==
    ASSUME Typed, NEW r \in Notification
    PROVE  /\ Started(r) \in Event
           /\ runs[r].status \in Ended => Final(r) \in Event
           /\ \A n \in Notification : Progress(r, n) \in Event
           /\ \A n \in Notification, i \in Nat : Batch(r, n, i) \in Event
<1>1. runs[r].batches \in Nat
  BY DEF Typed, Run
<1>2. Started(r) \in Event
  BY DEF Started, Event, OtherIds
<1>3. ASSUME runs[r].status \in Ended PROVE Final(r) \in Event
  BY <1>1, <1>3 DEF Final, Event, OtherIds, Ended
<1>4. ASSUME NEW n \in Notification PROVE Progress(r, n) \in Event
  BY <1>1, HistoryAssumption DEF Progress, Event, OtherIds
<1>5. ASSUME NEW n \in Notification, NEW i \in Nat PROVE Batch(r, n, i) \in Event
  BY DEF Batch, Event, BatchIds
<1> QED BY <1>2, <1>3, <1>4, <1>5

-----------------------------------------------------------------------------
(* Every step keeps the types.                                             *)

core == <<inbox, row, runs, worker, log, torn>>

\* The steps of the device, the lease and the handler that touch neither the
\* store nor the worker.
Quiet == \/ Logout \/ Forget \/ Resume \/ Reconnect \/ Disconnect \/ LeaseLost \/ LeaseBack
         \/ \E a \in Account : Link(a)

\* A worker of the API projects an event.
Projects == Projection \/ \E k \in DOMAIN log : ProjectLate(k)

\* The projection changes nothing at the gateway.
LEMMA ProjectsKeep == Projects => UNCHANGED <<core, phone, accepting>>
BY DEF Projects, Projection, Project, ProjectLate, core, store

\* They change nothing the invariants speak of.
LEMMA QuietKeeps == Quiet => UNCHANGED <<core, phone, accepting, apiVars>>
BY DEF Quiet, Logout, Forget, Resume, Reconnect, Disconnect, LeaseLost, LeaseBack, Link,
    core, store, apiVars, budget

\* The initial state is typed.
LEMMA TypedInit == Init => Typed
<1> SUFFICES ASSUME Init PROVE Typed
  OBVIOUS
<1>1. phone \in [Notification -> {"unsent", "sent", "receipted"}] /\ accepting = NoNotification
  BY DEF Init
<1>2. row \in [Notification -> Row] /\ \A n \in Notification : row[n].status = "none"
  BY DEF Init, NoRow, Row
<1>3. runs \in [Notification -> Run]
  BY DEF Init, NoRun, Run
<1>4. InboxOK
  BY <1>2 DEF Init, InboxOK
<1>5. WorkerOK
  BY DEF Init, WorkerOK, Idle, Worker, Busy, Processing, Importing
<1>6. LogOK
  BY DEF Init, LogOK
<1> QED BY <1>1, <1>2, <1>3, <1>4, <1>5, <1>6 DEF Typed

\* A worker that starts over holds nothing.
LEMMA IdleOK ==
    ASSUME worker' = Idle PROVE WorkerOK'
BY DEF WorkerOK, Idle, Worker, Busy, Processing, Importing

\* A worker that stays where it is remains in order as long as no row and no
\* run goes back: a row is not forgotten or pending again, a run is not
\* forgotten or running again.
LEMMA StillOK ==
    ASSUME Typed, UNCHANGED worker,
           \A n \in Notification : /\ row[n].status # "none" => row'[n].status # "none"
                                   /\ row[n].status \notin {"none", "pending"} =>
                                        row'[n].status # "pending"
                                   /\ runs[n].status # "none" => runs'[n].status # "none"
                                   /\ runs[n].status \in Ended => runs'[n].status \in Ended
    PROVE  WorkerOK'
<1> USE DEF Typed, WorkerOK, Worker, Pending
<1>1. worker.note \in Notification => row[worker.note].status \in {"none", "pending", "done", "failed", "discarded"}
  BY DEF Row
<1>2. worker.todo \subseteq Notification
  OBVIOUS
<1> QED BY <1>1, <1>2

\* A step of the worker to pc, with what is asked of that step.
LEMMA MovedOK ==
    ASSUME Typed, NEW pc \in {"tick", "finals", "mark", "idle"} \union Busy,
           NEW r \in Notification \union {NoNotification}, NEW t \in SUBSET Notification,
           NEW i \in Nat,
           worker' = [pc |-> pc, note |-> worker.note, run |-> r, next |-> i, todo |-> t],
           pc \in Busy <=> worker.pc \in Busy,
           \A n \in Notification : row[n].status # "none" => row'[n].status # "none",
           pc \in Importing \union {"settle", "complete"} =>
             r \in Notification /\ runs'[r].status # "none",
           pc \in {"giveup", "settle", "complete"} => row'[worker.note].status # "pending",
           pc = "mark" => r \in Notification,
           pc \in {"finals", "mark"} => \A x \in t : runs'[x].status \in Ended,
           pc = "idle" => \A x \in t : runs'[x].status # "none"
    PROVE  WorkerOK'
<1>1. worker' \in Worker
  BY DEF Typed, WorkerOK, Worker
<1>2. worker'.pc = pc /\ worker'.run = r /\ worker'.todo = t /\ worker'.note = worker.note
  OBVIOUS
<1>3. worker'.pc \in Busy => worker'.note \in Notification /\ row'[worker'.note].status # "none"
  BY <1>2 DEF Typed, WorkerOK
<1>4. worker'.pc \notin Busy => worker'.note = NoNotification
  BY <1>2 DEF Typed, WorkerOK
<1>5. worker'.pc \in {"giveup", "settle", "complete"} => row'[worker'.note].status # "pending"
  BY <1>2
<1> QED BY <1>1, <1>2, <1>3, <1>4, <1>5 DEF WorkerOK, Pending

\* Rows and runs keep their types under the writes of the store.
LEMMA RowUpdate ==
    ASSUME Typed, NEW n \in Notification, NEW s \in {"pending", "done", "failed", "discarded"},
           row' = [row EXCEPT ![n].status = s]
    PROVE  /\ row' \in [Notification -> Row]
           /\ row'[n].status = s /\ row'[n].cursor = row[n].cursor
           /\ \A m \in Notification : m # n => row'[m] = row[m]
BY DEF Typed, Row

\* Only the status of the run changes.
LEMMA RunUpdate ==
    ASSUME Typed, NEW r \in Notification, NEW s \in {"running", "completed", "failed"},
           runs' = [runs EXCEPT ![r].status = s]
    PROVE  /\ runs' \in [Notification -> Run]
           /\ runs'[r].status = s /\ runs'[r].batches = runs[r].batches
           /\ \A m \in Notification : m # r => runs'[m] = runs[m]
BY DEF Typed, Run

\* FinishHistory ends a pending row and nothing else.
LEMMA RowFinish ==
    ASSUME Typed, NEW n \in Notification, NEW s \in {"done", "failed"}, FinishHistory(n, s)
    PROVE  /\ row' \in [Notification -> Row]
           /\ row[n].status = "pending" => row'[n].status = s
           /\ row[n].status # "pending" => row'[n] = row[n]
           /\ row'[n].cursor = row[n].cursor
           /\ \A m \in Notification : m # n => row'[m] = row[m]
<1>1. CASE Pending(n)
  BY <1>1, RowUpdate DEF FinishHistory, Pending
<1>2. CASE ~Pending(n)
  BY <1>2 DEF FinishHistory, Pending, Typed
<1> QED BY <1>1, <1>2

\* EndHistoryRun ends a running run and nothing else.
LEMMA RunEnd ==
    ASSUME Typed, NEW r \in Notification, NEW s \in Ended, EndHistoryRun(r, s)
    PROVE  /\ runs' \in [Notification -> Run]
           /\ runs[r].status = "running" => runs'[r].status = s
           /\ runs[r].status # "running" => runs'[r] = runs[r]
           /\ runs'[r].batches = runs[r].batches
           /\ \A m \in Notification : m # r => runs'[m] = runs[m]
<1>1. CASE runs[r].status = "running"
  BY <1>1, RunUpdate DEF EndHistoryRun, Ended
<1>2. CASE runs[r].status # "running"
  BY <1>2 DEF EndHistoryRun, Typed
<1> QED BY <1>1, <1>2

\* As long as no row is added or forgotten the inbox stays in order.
LEMMA InboxStays ==
    ASSUME Typed, UNCHANGED inbox,
           \A n \in Notification : row'[n].status # "none" <=> row[n].status # "none"
    PROVE  InboxOK'
<1>1. \A k \in DOMAIN inbox : inbox[k] \in Notification
  BY DEF Typed, InboxOK
<1> QED BY <1>1 DEF Typed, InboxOK

\* EnqueueHistory appends a row it has not stored yet.
LEMMA InboxAppends ==
    ASSUME Typed, NEW n \in Notification, EnqueueHistory(n)
    PROVE  /\ InboxOK' /\ row' \in [Notification -> Row] /\ row'[n].status # "none"
           /\ \A m \in Notification : m # n => row'[m] = row[m]
           /\ row[n].status = "none" => row'[n].status = "pending" /\ row'[n].cursor = 0
           /\ row[n].status # "none" => row'[n] = row[n]
           /\ Len(inbox) \in Nat /\ DOMAIN inbox = 1 .. Len(inbox)
           /\ \A k \in DOMAIN inbox : k \in DOMAIN inbox' /\ inbox'[k] = inbox[k]
           /\ row[n].status = "none" =>
                Len(inbox) + 1 \in DOMAIN inbox' /\ inbox'[Len(inbox) + 1] = n
<1>0. Len(inbox) \in Nat /\ DOMAIN inbox = 1 .. Len(inbox) /\ inbox \in Seq(Notification)
  BY DEF Typed, InboxOK
<1>1. CASE row[n].status = "none"
  <2>1. inbox' = Append(inbox, n) /\ row' = [row EXCEPT ![n] = [status |-> "pending", cursor |-> 0]]
    BY <1>1 DEF EnqueueHistory
  <2>2. /\ inbox' \in Seq(Notification) /\ DOMAIN inbox' = 1 .. Len(inbox) + 1
        /\ inbox'[Len(inbox) + 1] = n /\ \A k \in 1 .. Len(inbox) : inbox'[k] = inbox[k]
    BY <1>0, <2>1
  <2>3. row' \in [Notification -> Row] /\ row'[n] = [status |-> "pending", cursor |-> 0]
        /\ \A m \in Notification : m # n => row'[m] = row[m]
    BY <2>1 DEF Typed, Row
  <2>4. \A k \in 1 .. Len(inbox) : inbox[k] # n
    BY <1>0, <1>1 DEF Typed, InboxOK
  <2>5. \A j, k \in DOMAIN inbox' : inbox'[j] = inbox'[k] => j = k
    BY <1>0, <2>2, <2>4 DEF Typed, InboxOK
  <2>6. \A k \in DOMAIN inbox' : row'[inbox'[k]].status # "none"
    <3> SUFFICES ASSUME NEW k \in DOMAIN inbox' PROVE row'[inbox'[k]].status # "none"
      OBVIOUS
    <3>1. CASE k = Len(inbox) + 1
      BY <2>2, <2>3, <3>1
    <3>2. CASE k # Len(inbox) + 1
      <4>1. k \in 1 .. Len(inbox) /\ inbox'[k] = inbox[k] /\ inbox[k] \in Notification
        BY <1>0, <2>2, <3>2
      <4> QED BY <1>0, <2>3, <2>4, <4>1 DEF Typed, InboxOK
    <3> QED BY <3>1, <3>2
  <2>7. \A m \in Notification : row'[m].status # "none" => \E k \in DOMAIN inbox' : inbox'[k] = m
    <3> SUFFICES ASSUME NEW m \in Notification, row'[m].status # "none"
                 PROVE  \E k \in DOMAIN inbox' : inbox'[k] = m
      OBVIOUS
    <3>1. CASE m = n
      BY <1>0, <2>2, <3>1
    <3>2. CASE m # n
      <4>1. PICK k \in DOMAIN inbox : inbox[k] = m
        BY <2>3, <3>2 DEF Typed, InboxOK
      <4> QED BY <1>0, <2>2, <4>1
    <3> QED BY <3>1, <3>2
  <2>8. InboxOK'
    BY <2>2, <2>5, <2>6, <2>7 DEF InboxOK
  <2> QED BY <1>0, <1>1, <2>2, <2>3, <2>8
<1>2. CASE row[n].status # "none"
  <2>1. inbox' = inbox /\ row' = row
    BY <1>2 DEF EnqueueHistory
  <2> QED BY <1>0, <1>2, <2>1 DEF Typed, InboxOK
<1> QED BY <1>1, <1>2

\* What the worker holds, field by field.
LEMMA WorkerFields ==
    ASSUME Typed
    PROVE  /\ worker = [pc |-> worker.pc, note |-> worker.note, run |-> worker.run,
                        next |-> worker.next, todo |-> worker.todo]
           /\ worker.pc \in {"tick", "finals", "mark", "idle"} \union Busy
           /\ worker.note \in Notification \union {NoNotification}
           /\ worker.run \in Notification \union {NoNotification}
           /\ worker.next \in Nat /\ worker.todo \subseteq Notification
BY DEF Typed, WorkerOK, Worker

\* The steps of tick keep the types.
LEMMA TypedTick == Typed /\ Tick => Typed'
<1> SUFFICES ASSUME Typed, Tick PROVE Typed'
  OBVIOUS
<1>0. /\ worker = [pc |-> worker.pc, note |-> worker.note, run |-> worker.run,
                   next |-> worker.next, todo |-> worker.todo]
      /\ worker.run \in Notification \union {NoNotification}
      /\ worker.next \in Nat /\ worker.todo \subseteq Notification
  BY WorkerFields
<1>b. \A pc \in {"tick", "finals", "mark", "idle"} :
        pc \notin Busy /\ pc \notin Importing \union {"settle", "complete"}
                       /\ pc \notin {"giveup", "settle", "complete"}
  BY DEF Busy, Processing, Importing
<1>1. CASE EmitFinals
  <2> DEFINE t == {r \in Notification : runs[r].status \in {"completed", "failed"} /\ ~runs[r].emitted}
  <2>1. /\ worker' = [pc |-> "finals", note |-> worker.note, run |-> worker.run,
                      next |-> worker.next, todo |-> t]
        /\ worker.pc = "tick" /\ UNCHANGED <<phone, accepting, inbox, row, runs, log>>
    BY <1>0, <1>1 DEF EmitFinals, store
  <2>2. t \in SUBSET Notification /\ \A r \in t : runs'[r].status \in Ended
    BY <2>1 DEF Ended
  <2> HIDE DEF t
  <2>3. WorkerOK'
    BY <1>0, <1>b, <2>1, <2>2, MovedOK
  <2> QED BY <2>1, <2>3, InboxStays DEF Typed, LogOK
<1>2. CASE MarkHistoryRunEmitted
  <2>1. worker.pc = "mark" /\ worker.run \in Notification
        /\ \A r \in worker.todo : runs[r].status \in Ended
    BY <1>2 DEF MarkHistoryRunEmitted, Typed, WorkerOK
  <2> DEFINE t == worker.todo \ {worker.run}
  <2>2. /\ worker' = [pc |-> "finals", note |-> worker.note, run |-> NoNotification,
                      next |-> worker.next, todo |-> t]
        /\ UNCHANGED <<phone, accepting, inbox, row, log>>
        /\ runs' = [runs EXCEPT ![worker.run].emitted = TRUE]
    BY <1>0, <1>2 DEF MarkHistoryRunEmitted
  <2>3. runs' \in [Notification -> Run] /\ \A r \in Notification : runs'[r].status = runs[r].status
    BY <2>1, <2>2 DEF Typed, Run
  <2>4. t \in SUBSET Notification /\ \A r \in t : runs'[r].status \in Ended
    BY <1>0, <2>1, <2>3
  <2> HIDE DEF t
  <2>5. WorkerOK'
    BY <1>0, <1>b, <2>1, <2>2, <2>4, MovedOK
  <2> QED BY <2>2, <2>3, <2>5, InboxStays DEF Typed, LogOK
<1>3. CASE ReadIdle
  <2> DEFINE t == IdleHistoryRuns
  <2>1. /\ worker' = [pc |-> "idle", note |-> worker.note, run |-> worker.run,
                      next |-> worker.next, todo |-> t]
        /\ worker.pc = "finals" /\ UNCHANGED <<phone, accepting, inbox, row, runs, log>>
    BY <1>0, <1>3 DEF ReadIdle, store
  <2>2. t \in SUBSET Notification /\ \A r \in t : runs'[r].status # "none"
    BY <2>1 DEF IdleHistoryRuns
  <2> HIDE DEF t
  <2>3. WorkerOK'
    BY <1>0, <1>b, <2>1, <2>2, MovedOK
  <2> QED BY <2>1, <2>3, InboxStays DEF Typed, LogOK
<1>4. CASE Wait
  BY <1>4, IdleOK, InboxStays DEF Wait, store, Typed, LogOK
<1>5. ASSUME NEW r \in Notification, EmitFinal(r) PROVE Typed'
  <2>1. /\ worker.pc = "finals" /\ r \in worker.todo /\ runs[r].status \in Ended
        /\ UNCHANGED <<phone, accepting, inbox, row, runs>>
        /\ \A x \in worker.todo : runs'[x].status \in Ended
    BY <1>5 DEF EmitFinal, store, Typed, WorkerOK
  <2>2. LogOK'
    <3>1. CASE UNCHANGED log
      BY <3>1 DEF Typed, LogOK
    <3>2. CASE Publish(Final(r))
      BY <2>1, <3>2, EventTypes, JournalGrows DEF Publish, Typed
    <3> QED BY <1>5, <3>1, <3>2 DEF EmitFinal
  <2>3. \/ worker' = [pc |-> "mark", note |-> worker.note, run |-> r,
                      next |-> worker.next, todo |-> worker.todo]
        \/ worker' = [pc |-> "finals", note |-> worker.note, run |-> worker.run,
                      next |-> worker.next, todo |-> worker.todo \ {r}]
    BY <1>0, <1>5 DEF EmitFinal
  <2>4. worker.todo \ {r} \in SUBSET Notification
        /\ \A x \in worker.todo \ {r} : runs'[x].status \in Ended
    BY <1>0, <2>1
  <2>5. CASE worker' = [pc |-> "mark", note |-> worker.note, run |-> r,
                        next |-> worker.next, todo |-> worker.todo]
    <3>1. WorkerOK'
      BY <1>0, <1>b, <2>1, <2>5, MovedOK
    <3> QED BY <2>1, <2>2, <3>1, InboxStays DEF Typed
  <2>6. CASE worker' = [pc |-> "finals", note |-> worker.note, run |-> worker.run,
                        next |-> worker.next, todo |-> worker.todo \ {r}]
    <3>1. WorkerOK'
      BY <1>0, <1>b, <2>1, <2>4, <2>6, MovedOK
    <3> QED BY <2>1, <2>2, <3>1, InboxStays DEF Typed
  <2> QED BY <2>3, <2>5, <2>6
<1>6. ASSUME NEW r \in Notification, CompleteIdle(r) PROVE Typed'
  <2> DEFINE t == worker.todo \ {r}
             pc == IF worker.todo = {r} THEN "tick" ELSE "idle"
  <2>1. /\ worker' = [pc |-> pc, note |-> worker.note, run |-> worker.run,
                      next |-> worker.next, todo |-> t]
        /\ worker.pc = "idle" /\ UNCHANGED <<phone, accepting, inbox, row, log>>
    BY <1>0, <1>6 DEF CompleteIdle
  <2>2. /\ runs' \in [Notification -> Run]
        /\ \A x \in Notification : runs[x].status # "none" => runs'[x].status # "none"
    BY <1>6, RunEnd DEF CompleteIdle, Ended
  <2>3. t \in SUBSET Notification /\ \A x \in t : runs'[x].status # "none"
    BY <1>0, <2>1, <2>2 DEF Typed, WorkerOK
  <2>4. pc \in {"tick", "idle"}
    OBVIOUS
  <2> HIDE DEF t, pc
  <2>5. WorkerOK'
    BY <1>0, <1>b, <2>1, <2>3, <2>4, MovedOK
  <2> QED BY <2>1, <2>2, <2>5, InboxStays DEF Typed, LogOK
<1>7. ASSUME NEW n \in Notification, Process(n) PROVE Typed'
  <2>1. UNCHANGED <<phone, accepting, inbox, runs, log>> /\ row[n].status = "pending"
    BY <1>7 DEF Process, First, Pending
  <2>2. CASE row' = [row EXCEPT ![n].status = "discarded"] /\ worker' = Idle
    <3>1. row' \in [Notification -> Row] /\ InboxOK'
      BY <2>1, <2>2, RowUpdate, InboxStays
    <3> QED BY <2>1, <2>2, <3>1, IdleOK DEF Typed, LogOK
  <2>3. CASE worker' = [Idle EXCEPT !.pc = "download", !.note = n, !.next = row[n].cursor] /\ UNCHANGED row
    <3>1. row[n].cursor \in Nat
      BY DEF Typed, Row
    <3>2. worker' = [pc |-> "download", note |-> n, run |-> NoNotification,
                     next |-> row[n].cursor, todo |-> {}]
      BY <2>3 DEF Idle
    <3>3. WorkerOK'
      <4>1. worker' \in Worker
        BY <3>1, <3>2 DEF Worker, Busy, Processing
      <4>2. worker'.pc = "download" /\ worker'.note = n
        BY <3>2
      <4> QED BY <2>1, <2>3, <4>1, <4>2 DEF WorkerOK, Busy, Processing, Importing
    <3> QED BY <2>1, <2>3, <3>3, InboxStays DEF Typed, LogOK
  <2> QED BY <1>7, <2>2, <2>3 DEF Process
<1> QED BY <1>1, <1>2, <1>3, <1>4, <1>5, <1>6, <1>7 DEF Tick

\* A step from one place of process to another.
LEMMA GoToOK ==
    ASSUME Typed, worker.pc \in Busy, NEW pc \in Busy, GoTo(pc),
           \A n \in Notification : row[n].status # "none" => row'[n].status # "none",
           pc \in Importing \union {"settle", "complete"} =>
             worker.run \in Notification /\ runs'[worker.run].status # "none",
           pc \in {"giveup", "settle", "complete"} => row'[worker.note].status # "pending"
    PROVE  /\ WorkerOK'
           /\ worker'.pc = pc /\ worker'.note = worker.note /\ worker'.run = worker.run
           /\ worker'.next = worker.next
<1>1. /\ worker = [pc |-> worker.pc, note |-> worker.note, run |-> worker.run,
                   next |-> worker.next, todo |-> worker.todo]
      /\ worker.run \in Notification \union {NoNotification}
      /\ worker.next \in Nat /\ worker.todo \subseteq Notification
  BY WorkerFields
<1>2. worker' = [pc |-> pc, note |-> worker.note, run |-> worker.run,
                 next |-> worker.next, todo |-> worker.todo]
  BY <1>1 DEF GoTo
<1>3. pc \notin {"mark", "finals", "idle"}
  BY DEF Busy, Processing
<1>4. WorkerOK'
  BY <1>1, <1>2, <1>3, MovedOK
<1> QED BY <1>2, <1>4

\* The notification under work, and the run where there is one.
LEMMA UnderWork ==
    ASSUME Typed
    PROVE  /\ worker.pc \in Busy => worker.note \in Notification /\ row[worker.note].status # "none"
           /\ worker.pc \in Importing \union {"settle", "complete"} =>
                worker.run \in Notification /\ runs[worker.run].status # "none"
           /\ Importing \subseteq Processing /\ Processing \subseteq Busy
BY DEF Typed, WorkerOK, Importing, Processing, Busy

\* The steps that publish an event of the run under work.
LEMMA TypedPublish ==
    ASSUME Typed, NEW e \in Event, Publish(e), NEW pc \in Importing, GoTo(pc),
           worker.pc \in Importing, UNCHANGED <<phone, accepting, inbox, row, runs>>
    PROVE  Typed'
<1>1. LogOK'
  BY JournalGrows DEF Publish, Typed
<1>2. pc \in Busy /\ worker.pc \in Busy /\ pc \notin {"giveup", "settle", "complete"}
  BY DEF Importing, Busy, Processing
<1>3. WorkerOK'
  BY <1>2, UnderWork, GoToOK
<1> QED BY <1>1, <1>3, InboxStays DEF Typed

\* The steps of process keep the types.
LEMMA TypedImport == Typed /\ Import => Typed'
<1> SUFFICES ASSUME Typed, Import PROVE Typed'
  OBVIOUS
<1>0. /\ worker.pc \in Busy => worker.note \in Notification /\ row[worker.note].status # "none"
      /\ worker.pc \in Importing \union {"settle", "complete"} =>
           worker.run \in Notification /\ runs[worker.run].status # "none"
      /\ Importing \subseteq Processing /\ Processing \subseteq Busy
  BY UnderWork
<1>1. CASE Download
  <2>1. worker.pc = "download" /\ UNCHANGED <<phone, accepting, inbox, runs, log>>
        /\ worker.pc \in Busy
    BY <1>1 DEF Download, Busy, Processing
  <2>2. CASE worker.note \in Imported
    <3>1. GoTo("ensure") /\ UNCHANGED row
      BY <1>1, <2>2 DEF Download
    <3>2. "ensure" \in Busy /\ "ensure" \notin Importing
      BY DEF Busy, Processing, Importing
    <3>3. WorkerOK'
      BY <2>1, <3>1, <3>2, GoToOK
    <3> QED BY <2>1, <3>1, <3>3, InboxStays DEF Typed, LogOK
  <2>3. CASE worker.note \notin Imported
    <3>1. FinishHistory(worker.note, "done") /\ worker' = Idle
      BY <1>1, <2>3 DEF Download
    <3>2. row' \in [Notification -> Row] /\ InboxOK'
      BY <1>0, <2>1, <3>1, RowFinish, InboxStays
    <3> QED BY <2>1, <3>1, <3>2, IdleOK DEF Typed, LogOK
  <2> QED BY <2>2, <2>3
<1>2. CASE GiveUp
  <2>1. /\ worker' = Idle /\ UNCHANGED <<phone, accepting, inbox, row, log>>
        /\ UNCHANGED runs \/ \E r \in Notification : EndHistoryRun(r, "failed")
    BY <1>2 DEF GiveUp, ActiveRuns
  <2>2. runs' \in [Notification -> Run]
    BY <2>1, RunEnd DEF Typed, Ended
  <2> QED BY <2>1, <2>2, IdleOK, InboxStays DEF Typed, LogOK
<1>3. CASE EnsureRun
  <2> DEFINE n == worker.note
             r == IF ActiveRuns(n) = {} THEN n ELSE CHOOSE x \in ActiveRuns(n) : TRUE
             pc == IF runs[r].chunks = 0 THEN "start" ELSE "batch"
  <2>1. worker.pc = "ensure" /\ UNCHANGED <<phone, accepting, inbox, row, log>>
        /\ n \in Notification /\ worker.pc \in Busy
    BY <1>0, <1>3 DEF EnsureRun, Busy, Processing
  <2>2. /\ runs' = IF runs[r].status = "none" THEN [runs EXCEPT ![r].status = "running"] ELSE runs
        /\ worker' = [worker EXCEPT !.run = r, !.pc = pc]
    BY <1>3 DEF EnsureRun
  <2>3. r \in Notification
    BY <2>1 DEF ActiveRuns
  <2>4. pc \in {"start", "batch"}
    OBVIOUS
  <2> HIDE DEF n, r, pc
  <2>5. runs' \in [Notification -> Run] /\ runs'[r].status # "none"
    <3>1. CASE runs[r].status = "none"
      BY <2>2, <2>3, <3>1, RunUpdate
    <3>2. CASE runs[r].status # "none"
      BY <2>2, <3>2 DEF Typed
    <3> QED BY <3>1, <3>2
  <2>6. worker' = [pc |-> pc, note |-> worker.note, run |-> r,
                   next |-> worker.next, todo |-> worker.todo]
    BY <2>2, WorkerFields
  <2>7. pc \in Busy /\ pc \notin {"giveup", "settle", "complete", "mark", "finals", "idle"}
    BY <2>4 DEF Busy, Processing
  <2>8. WorkerOK'
    BY <2>1, <2>3, <2>5, <2>6, <2>7, WorkerFields, MovedOK
  <2> QED BY <2>1, <2>5, <2>8, InboxStays DEF Typed, LogOK
<1>4. CASE PublishStarted
  <2>1. worker.pc \in Importing /\ "batch" \in Importing
    BY <1>4 DEF PublishStarted, Importing
  <2> QED BY <1>0, <1>4, <2>1, EventTypes, TypedPublish DEF PublishStarted, store
<1>5. CASE PublishBatch
  <2>1. worker.pc \in Importing /\ "cursor" \in Importing /\ worker.next \in Nat
    BY <1>5, WorkerFields DEF PublishBatch, Importing
  <2>2. Batch(worker.run, worker.note, worker.next) \in Event
    BY <1>0, <2>1, EventTypes
  <2> QED BY <1>5, <2>1, <2>2, TypedPublish DEF PublishBatch, store
<1>6. CASE SetHistoryCursor
  <2> DEFINE i == worker.next + 1
  <2>1. worker.pc = "cursor" /\ UNCHANGED <<phone, accepting, inbox, runs, log>>
        /\ worker.pc \in Importing /\ worker.pc \in Busy /\ worker.note \in Notification
    BY <1>0, <1>6 DEF SetHistoryCursor, Importing
  <2>2. i \in Nat
    BY WorkerFields
  <2>3. worker' = [pc |-> "batch", note |-> worker.note, run |-> worker.run,
                   next |-> i, todo |-> worker.todo]
    BY <1>6, WorkerFields DEF SetHistoryCursor
  <2>4. row' = row \/ row' = [row EXCEPT ![worker.note].cursor = i]
    BY <1>6 DEF SetHistoryCursor
  <2> HIDE DEF i
  <2>5. row' \in [Notification -> Row] /\ \A m \in Notification : row'[m].status = row[m].status
    <3>1. row \in [Notification -> Row]
      BY DEF Typed
    <3>2. CASE row' = row
      BY <3>1, <3>2
    <3>3. CASE row' = [row EXCEPT ![worker.note].cursor = i]
      BY <2>1, <2>2, <3>1, <3>3 DEF Row
    <3> QED BY <2>4, <3>2, <3>3
  <2>6. "batch" \in Busy
    BY DEF Busy, Processing
  <2>7. WorkerOK'
    BY <1>0, <2>1, <2>2, <2>3, <2>5, <2>6, WorkerFields, MovedOK
  <2> QED BY <2>1, <2>5, <2>7, InboxStays DEF Typed, LogOK
<1>7. CASE PublishProgress
  <2>1. worker.pc \in Importing /\ "finish" \in Importing
    BY <1>7 DEF PublishProgress, Importing
  <2>2. Progress(worker.run, worker.note) \in Event
    BY <1>0, <2>1, EventTypes
  <2> QED BY <1>7, <2>1, <2>2, TypedPublish DEF PublishProgress, store
<1>8. CASE PublishFails
  BY <1>8, IdleOK, InboxStays DEF PublishFails, store, Typed, LogOK
<1>9. CASE Finish
  <2>1. worker.pc = "finish" /\ UNCHANGED <<phone, accepting, inbox, log>>
        /\ worker.pc \in Importing /\ worker.pc \in Busy
        /\ worker.note \in Notification /\ worker.run \in Notification
    BY <1>0, <1>9 DEF Finish, Importing
  <2>2. CASE worker' = Idle /\ UNCHANGED <<row, runs>>
    BY <2>1, <2>2, IdleOK, InboxStays DEF Typed, LogOK
  <2>3. CASE /\ FinishHistory(worker.note, "done")
             /\ runs' = [runs EXCEPT ![worker.run].chunks = @ + 1,
                                     ![worker.run].batches = @ + PartsOf[worker.note]]
             /\ IF worker.note \in Closing THEN GoTo("settle") ELSE worker' = Idle
    <3>1. row' \in [Notification -> Row] /\ InboxOK' /\ row'[worker.note].status # "pending"
          /\ \A m \in Notification : row[m].status # "none" => row'[m].status # "none"
      BY <2>1, <2>3, RowFinish, InboxStays
    <3>2. PartsOf[worker.note] \in Nat
      BY <2>1, HistoryAssumption
    <3>3. runs' \in [Notification -> Run] /\ \A m \in Notification : runs'[m].status = runs[m].status
      <4> DEFINE one == [runs EXCEPT ![worker.run].chunks = @ + 1]
      <4>1. /\ one \in [Notification -> Run]
            /\ \A m \in Notification : /\ one[m].status = runs[m].status
                                       /\ one[m].batches = runs[m].batches
        BY <2>1 DEF Typed, Run
      <4>2. runs' = [one EXCEPT ![worker.run].batches = @ + PartsOf[worker.note]]
        BY <2>1, <2>3 DEF Typed
      <4> HIDE DEF one
      <4> QED BY <2>1, <3>2, <4>1, <4>2 DEF Run
    <3>4. CASE worker.note \in Closing
      <4>1. "settle" \in Busy
        BY DEF Busy
      <4>2. WorkerOK'
        BY <1>0, <2>1, <2>3, <3>1, <3>3, <3>4, <4>1, GoToOK
      <4> QED BY <2>1, <3>1, <3>3, <4>2 DEF Typed, LogOK
    <3>5. CASE worker.note \notin Closing
      BY <2>1, <2>3, <3>1, <3>3, <3>5, IdleOK DEF Typed, LogOK
    <3> QED BY <3>4, <3>5
  <2> QED BY <1>9, <2>2, <2>3 DEF Finish
<1>10. CASE Settle
  <2>1. worker.pc = "settle" /\ UNCHANGED <<phone, accepting, inbox, row, runs, log>>
        /\ (worker' = Idle \/ GoTo("complete"))
    BY <1>10 DEF Settle, store
  <2>2. CASE worker' = Idle
    BY <2>1, <2>2, IdleOK, InboxStays DEF Typed, LogOK
  <2>3. CASE GoTo("complete")
    <3>1. worker.pc \in Busy /\ "complete" \in Busy
      BY <2>1 DEF Busy
    <3>2. row'[worker.note].status # "pending"
      BY <2>1 DEF Typed, WorkerOK, Pending
    <3>3. WorkerOK'
      BY <1>0, <2>1, <2>3, <3>1, <3>2, GoToOK
    <3> QED BY <2>1, <3>3, InboxStays DEF Typed, LogOK
  <2> QED BY <2>1, <2>2, <2>3
<1>11. CASE Complete
  <2>1. /\ worker' = Idle /\ UNCHANGED <<phone, accepting, inbox, row, log>>
        /\ EndHistoryRun(worker.run, "completed") /\ worker.run \in Notification
    BY <1>0, <1>11 DEF Complete
  <2>2. runs' \in [Notification -> Run]
    BY <2>1, RunEnd DEF Ended
  <2> QED BY <2>1, <2>2, IdleOK, InboxStays DEF Typed, LogOK
<1> QED BY <1>1, <1>2, <1>3, <1>4, <1>5, <1>6, <1>7, <1>8, <1>9, <1>10, <1>11 DEF Import

\* The other steps keep the types.
LEMMA TypedOthers == Typed /\ (Handler \/ Environment \/ Projects) => Typed'
<1> SUFFICES ASSUME Typed, Handler \/ Environment \/ Projects PROVE Typed'
  OBVIOUS
<1>1. CASE Quiet
  BY <1>1, QuietKeeps, StillOK, InboxStays DEF Typed, LogOK, core
<1>2. CASE SendReceipt
  <2>1. UNCHANGED <<inbox, row, runs, worker, log>> /\ accepting' = NoNotification
        /\ accepting \in Notification
        /\ (phone' = phone \/ phone' = [phone EXCEPT ![accepting] = "receipted"])
    BY <1>2 DEF SendReceipt, store, Typed
  <2>2. phone' \in [Notification -> {"unsent", "sent", "receipted"}]
    BY <2>1 DEF Typed
  <2> QED BY <2>1, <2>2, StillOK, InboxStays DEF Typed, LogOK
<1>3. CASE DiscardHistory
  <2>1. UNCHANGED <<phone, accepting, inbox, runs, worker, log>>
    BY <1>3 DEF DiscardHistory
  <2>2. /\ row' \in [Notification -> Row]
        /\ \A n \in Notification : \/ row'[n].status = row[n].status
                                   \/ row[n].status = "pending" /\ row'[n].status = "discarded"
    BY <1>3 DEF DiscardHistory, Typed, Row, Pending
  <2> QED BY <2>1, <2>2, StillOK, InboxStays DEF Typed, LogOK
<1>4. CASE EndHistoryRuns
  <2>1. UNCHANGED <<phone, accepting, inbox, row, worker, log>>
    BY <1>4 DEF EndHistoryRuns
  <2>2. /\ runs' \in [Notification -> Run]
        /\ \A n \in Notification : \/ runs'[n].status = runs[n].status
                                   \/ runs[n].status = "running" /\ runs'[n].status = "failed"
    BY <1>4 DEF EndHistoryRuns, Typed, Run
  <2> QED BY <2>1, <2>2, StillOK, InboxStays DEF Typed, LogOK, Ended
<1>5. ASSUME NEW n \in Notification, Accept(n) PROVE Typed'
  <2>1. UNCHANGED <<runs, worker, log>> /\ accepting' = n /\ EnqueueHistory(n)
        /\ phone' = [phone EXCEPT ![n] = "sent"]
    BY <1>5 DEF Accept
  <2>2. phone' \in [Notification -> {"unsent", "sent", "receipted"}]
    BY <2>1 DEF Typed
  <2>3. InboxOK' /\ row' \in [Notification -> Row]
        /\ \A m \in Notification : \/ row'[m] = row[m]
                                   \/ row[m].status = "none" /\ row'[m].status = "pending"
    BY <2>1, InboxAppends
  <2>4. WorkerOK'
    BY <2>1, <2>3, StillOK
  <2> QED BY <2>1, <2>2, <2>3, <2>4 DEF Typed, LogOK
<1>6. CASE DownloadFailed
  <2>1. worker.pc = "download" /\ UNCHANGED <<phone, accepting, inbox, runs, log>>
        /\ worker.pc \in Busy
    BY <1>6 DEF DownloadFailed, Busy, Processing
  <2>2. CASE worker' = Idle /\ UNCHANGED row
    BY <2>1, <2>2, IdleOK, InboxStays DEF Typed, LogOK
  <2>3. CASE FinishHistory(worker.note, "failed") /\ (worker' = Idle \/ GoTo("giveup"))
    <3>1. row' \in [Notification -> Row] /\ InboxOK' /\ row'[worker.note].status # "pending"
          /\ \A m \in Notification : row[m].status # "none" => row'[m].status # "none"
      BY <2>1, <2>3, UnderWork, RowFinish, InboxStays
    <3>2. "giveup" \in Busy /\ "giveup" \notin Importing
      BY DEF Busy, Importing
    <3>3. WorkerOK'
      BY <2>1, <2>3, <3>1, <3>2, IdleOK, GoToOK
    <3> QED BY <2>1, <3>1, <3>3 DEF Typed, LogOK
  <2> QED BY <1>6, <2>2, <2>3 DEF DownloadFailed
<1>7. CASE Crash
  BY <1>7, IdleOK, InboxStays DEF Crash, store, Typed, LogOK
<1>8. CASE Projects
  BY <1>8, ProjectsKeep, StillOK, InboxStays DEF core, Typed, LogOK
<1> QED BY <1>1, <1>2, <1>3, <1>4, <1>5, <1>6, <1>7, <1>8 DEF Handler, Environment, Quiet

\* Every step keeps the types.
LEMMA TypedStep == Typed /\ [Next]_vars => Typed'
<1> SUFFICES ASSUME Typed, [Next]_vars PROVE Typed'
  OBVIOUS
<1>1. CASE Next
  BY <1>1, TypedTick, TypedImport, TypedOthers DEF Next, Projects
<1>2. CASE UNCHANGED vars
  BY <1>2, StillOK, InboxStays DEF vars, Typed, LogOK
<1> QED BY <1>1, <1>2

-----------------------------------------------------------------------------
(***************************************************************************)
(* An imported notification is in the journal before its row says so.      *)
(*                                                                         *)
(* The cursor of a row and the worker's position in it never pass a batch  *)
(* that is not journaled, and the log only grows; so whatever the worker   *)
(* starts again from, the batches before it are there.                     *)
(***************************************************************************)

\* Log l has the first k batches of notification n.
Journaled(l, n, k) == \A i \in Nat : i < k => Has(l, <<"batch", n, i>>)

\* The batches before the row's cursor, and before the worker's position.
CursorOK == \A n \in Notification : Journaled(log, n, row[n].cursor)

PositionOK ==
    /\ worker.pc \in {"download", "ensure", "start", "batch"} =>
         Journaled(log, worker.note, worker.next)
    /\ worker.pc = "cursor" => Journaled(log, worker.note, worker.next + 1)
    /\ worker.pc = "finish" => /\ Journaled(log, worker.note, PartsOf[worker.note])
                               /\ Has(log, <<"progress", worker.note>>)

\* A notification is stored before its receipt is sent.
ReceiptOK ==
    /\ accepting # NoNotification => row[accepting].status # "none"
    /\ \A n \in Notification : phone[n] = "receipted" => row[n].status # "none"

DoneOK ==
    \A n \in Notification : row[n].status = "done" /\ n \in Imported =>
        Journaled(log, n, PartsOf[n]) /\ Has(log, <<"progress", n>>)

JournalInv == Typed /\ CursorOK /\ PositionOK /\ ReceiptOK /\ DoneOK

\* The steps that do not publish leave the log alone.
LEMMA LogUnchanged ==
    ASSUME Typed, [Next]_vars
    PROVE  \/ UNCHANGED log
           \/ \E r \in Notification : EmitFinal(r) /\ Publish(Final(r))
           \/ PublishStarted \/ PublishBatch \/ PublishProgress
<1>1. CASE Quiet
  BY <1>1, QuietKeeps DEF core
<1>2. CASE Tick
  BY <1>2 DEF Tick, EmitFinals, MarkHistoryRunEmitted, ReadIdle, Wait, EmitFinal, CompleteIdle, Process
<1>3. CASE Import
  BY <1>3 DEF Import, Download, GiveUp, EnsureRun, SetHistoryCursor, PublishFails, Finish,
              Settle, Complete
<1>4. CASE Handler
  BY <1>4 DEF Handler, SendReceipt, DiscardHistory, EndHistoryRuns, Accept
<1>5. CASE DownloadFailed \/ Crash \/ Projects
  BY <1>5, ProjectsKeep DEF DownloadFailed, Crash, core
<1>6. CASE UNCHANGED vars
  BY <1>6 DEF vars
<1> QED BY <1>1, <1>2, <1>3, <1>4, <1>5, <1>6 DEF Next, Projects, Environment, Quiet

\* What is in the log stays where it is.
LEMMA LogGrows ==
    ASSUME Typed, [Next]_vars
    PROVE  /\ \A k \in DOMAIN log : k \in DOMAIN log' /\ log'[k] = log[k]
           /\ \A id : Has(log, id) => Has(log', id)
           /\ \A n, k : Journaled(log, n, k) => Journaled(log', n, k)
<1>1. \A k \in DOMAIN log : k \in DOMAIN log' /\ log'[k] = log[k]
  <2>1. CASE UNCHANGED log
    BY <2>1
  <2>2. ASSUME NEW r \in Notification, EmitFinal(r), Publish(Final(r))
        PROVE  \A k \in DOMAIN log : k \in DOMAIN log' /\ log'[k] = log[k]
    <3>1. Final(r) \in Event
      BY <2>2, EventTypes DEF EmitFinal, Typed, WorkerOK
    <3> QED BY <2>2, <3>1, JournalGrows DEF Publish, Typed
  <2>3. CASE PublishStarted
    <3>1. Started(worker.run) \in Event
      BY <2>3, UnderWork, EventTypes DEF PublishStarted, Importing
    <3> QED BY <2>3, <3>1, JournalGrows DEF PublishStarted, Publish, Typed
  <2>4. CASE PublishBatch
    <3>1. worker.run \in Notification /\ worker.note \in Notification /\ worker.next \in Nat
      BY <2>4, UnderWork, WorkerFields DEF PublishBatch, Importing
    <3>2. Batch(worker.run, worker.note, worker.next) \in Event
      BY <3>1, EventTypes
    <3> QED BY <2>4, <3>2, JournalGrows DEF PublishBatch, Publish, Typed
  <2>5. CASE PublishProgress
    <3>1. worker.run \in Notification /\ worker.note \in Notification
      BY <2>5, UnderWork, WorkerFields DEF PublishProgress, Importing
    <3>2. Progress(worker.run, worker.note) \in Event
      BY <3>1, EventTypes
    <3> QED BY <2>5, <3>2, JournalGrows DEF PublishProgress, Publish, Typed
  <2> QED BY <2>1, <2>2, <2>3, <2>4, <2>5, LogUnchanged
<1>2. \A id : Has(log, id) => Has(log', id)
  BY <1>1 DEF Has
<1>3. \A n, k : Journaled(log, n, k) => Journaled(log', n, k)
  BY <1>2 DEF Journaled
<1> QED BY <1>1, <1>2, <1>3

\* The steps of tick that start no row leave the worker between rows.
LEMMA BetweenRows ==
    ASSUME Typed, \/ EmitFinals \/ MarkHistoryRunEmitted \/ ReadIdle \/ Wait
                  \/ \E n \in Notification : EmitFinal(n) \/ CompleteIdle(n)
    PROVE  worker'.pc \in {"tick", "finals", "mark", "idle"}
<1>1. worker = [pc |-> worker.pc, note |-> worker.note, run |-> worker.run,
                next |-> worker.next, todo |-> worker.todo]
  BY WorkerFields
<1>2. EmitFinals => worker'.pc = "finals"
  BY <1>1 DEF EmitFinals
<1>3. ASSUME MarkHistoryRunEmitted PROVE worker'.pc = "finals"
  <2>1. worker' = [pc |-> "finals", note |-> worker.note, run |-> NoNotification,
                   next |-> worker.next, todo |-> worker.todo \ {worker.run}]
    BY <1>1, <1>3 DEF MarkHistoryRunEmitted
  <2> QED BY <2>1
<1>4. ReadIdle => worker'.pc = "idle"
  BY <1>1 DEF ReadIdle
<1>5. Wait => worker'.pc = "tick"
  BY DEF Wait, Idle
<1>6. ASSUME NEW n \in Notification, EmitFinal(n) PROVE worker'.pc \in {"mark", "finals"}
  BY <1>1, <1>6 DEF EmitFinal
<1>7. ASSUME NEW n \in Notification, CompleteIdle(n) PROVE worker'.pc \in {"tick", "idle"}
  BY <1>1, <1>7 DEF CompleteIdle
<1> QED BY <1>2, <1>3, <1>4, <1>5, <1>6, <1>7

\* What a step leaves of the invariant when it does not advance a cursor, ...
LEMMA CursorsStay ==
    ASSUME JournalInv, [Next]_vars, \A n \in Notification : row'[n].cursor = row[n].cursor
    PROVE  CursorOK'
<1> SUFFICES ASSUME NEW n \in Notification PROVE Journaled(log', n, row'[n].cursor)
  BY DEF CursorOK
<1>1. Journaled(log, n, row[n].cursor)
  BY DEF JournalInv, CursorOK
<1> QED BY <1>1, LogGrows DEF JournalInv

\* does not finish a row, ...
LEMMA DoneStays ==
    ASSUME JournalInv, [Next]_vars,
           \A n \in Notification : row'[n].status = "done" => row[n].status = "done"
    PROVE  DoneOK'
BY LogGrows DEF JournalInv, DoneOK

\* sends no receipt and forgets no row, ...
LEMMA ReceiptsStay ==
    ASSUME JournalInv, UNCHANGED <<phone, accepting>>,
           \A n \in Notification : row[n].status # "none" => row'[n].status # "none"
    PROVE  ReceiptOK'
BY DEF JournalInv, ReceiptOK, Typed

\* or leaves the worker where it is or outside process.
LEMMA PositionStays ==
    ASSUME JournalInv, [Next]_vars, UNCHANGED worker \/ worker'.pc \notin Processing
    PROVE  PositionOK'
<1>1. CASE UNCHANGED worker
  BY <1>1, LogGrows DEF JournalInv, PositionOK
<1>2. CASE worker'.pc \notin Processing
  BY <1>2 DEF Processing, PositionOK
<1> QED BY <1>1, <1>2

\* Before its first batch the worker goes on with the position it has read.
LEMMA PositionMoves ==
    ASSUME JournalInv, [Next]_vars, worker.pc \in {"download", "ensure", "start"},
           worker'.pc \in {"ensure", "start", "batch"},
           worker'.note = worker.note, worker'.next = worker.next
    PROVE  PositionOK'
<1>1. Journaled(log, worker.note, worker.next)
  BY DEF JournalInv, PositionOK
<1>2. Journaled(log', worker'.note, worker'.next)
  BY <1>1, LogGrows DEF JournalInv
<1> QED BY <1>2 DEF PositionOK

\* Every step keeps the invariant.
LEMMA JournalStep == JournalInv /\ [Next]_vars => JournalInv'
<1> SUFFICES ASSUME JournalInv, [Next]_vars PROVE JournalInv'
  OBVIOUS
<1>t. Typed /\ Typed'
  BY TypedStep DEF JournalInv
<1>0. /\ worker.pc \in Busy => worker.note \in Notification /\ row[worker.note].status # "none"
      /\ worker.pc \in Importing \union {"settle", "complete"} =>
           worker.run \in Notification /\ runs[worker.run].status # "none"
      /\ Importing \subseteq Processing /\ Processing \subseteq Busy
      /\ worker.next \in Nat
  BY <1>t, UnderWork, WorkerFields
<1>i. worker' = Idle => worker'.pc \notin Processing
  BY DEF Idle, Processing
<1>r. ASSUME UNCHANGED row, UNCHANGED <<phone, accepting>>
      PROVE  CursorOK' /\ DoneOK' /\ ReceiptOK'
  BY <1>r, CursorsStay, DoneStays, ReceiptsStay
<1>1. CASE Quiet \/ EndHistoryRuns \/ Projects \/ UNCHANGED vars
  <2>1. UNCHANGED <<row, phone, accepting, worker>>
    BY <1>1, QuietKeeps, ProjectsKeep DEF core, EndHistoryRuns, store, vars
  <2> QED BY <1>t, <1>r, <2>1, PositionStays DEF JournalInv
<1>2. CASE EmitFinals \/ MarkHistoryRunEmitted \/ ReadIdle \/ Wait
           \/ \E n \in Notification : EmitFinal(n) \/ CompleteIdle(n)
  <2>1. UNCHANGED <<row, phone, accepting>>
    BY <1>2 DEF EmitFinals, MarkHistoryRunEmitted, ReadIdle, Wait, EmitFinal, CompleteIdle, store
  <2>2. worker'.pc \in {"tick", "finals", "mark", "idle"}
    BY <1>2, <1>t, BetweenRows
  <2>3. worker'.pc \notin Processing
    BY <2>2 DEF Processing
  <2> QED BY <1>t, <1>r, <2>1, <2>3, PositionStays DEF JournalInv
<1>3. CASE PublishFails \/ GiveUp \/ Complete
  <2>1. UNCHANGED <<row, phone, accepting>> /\ worker' = Idle
    BY <1>3 DEF PublishFails, GiveUp, Complete, store
  <2> QED BY <1>t, <1>r, <1>i, <2>1, PositionStays DEF JournalInv
<1>4. CASE Settle
  <2>1. UNCHANGED <<row, phone, accepting>> /\ (worker' = Idle \/ worker'.pc = "complete")
    BY <1>4, <1>t, WorkerFields DEF Settle, GoTo, store
  <2>2. worker'.pc \notin Processing
    BY <1>i, <2>1 DEF Processing
  <2> QED BY <1>t, <1>r, <2>1, <2>2, PositionStays DEF JournalInv
<1>5. CASE Crash
  <2>1. UNCHANGED <<row, phone>> /\ worker' = Idle /\ accepting' = NoNotification
    BY <1>5 DEF Crash, store
  <2>2. ReceiptOK'
    BY <2>1 DEF JournalInv, ReceiptOK
  <2> QED BY <1>t, <1>i, <2>1, <2>2, CursorsStay, DoneStays, PositionStays DEF JournalInv
<1>6. CASE SendReceipt
  <2>1. UNCHANGED <<row, worker>> /\ accepting' = NoNotification /\ accepting \in Notification
        /\ (phone' = phone \/ phone' = [phone EXCEPT ![accepting] = "receipted"])
    BY <1>6, <1>t DEF SendReceipt, store, Typed
  <2>2. ReceiptOK'
    <3>1. \A n \in Notification : phone'[n] = "receipted" => phone[n] = "receipted" \/ n = accepting
      BY <1>t, <2>1 DEF Typed
    <3>2. row[accepting].status # "none"
      BY <2>1, HistoryAssumption DEF JournalInv, ReceiptOK
    <3> QED BY <2>1, <3>1, <3>2 DEF JournalInv, ReceiptOK
  <2> QED BY <1>t, <2>1, <2>2, CursorsStay, DoneStays, PositionStays DEF JournalInv
<1>7. CASE DiscardHistory
  <2>1. UNCHANGED <<phone, accepting, worker>>
    BY <1>7 DEF DiscardHistory
  <2>2. \A n \in Notification : /\ row'[n].cursor = row[n].cursor
                                /\ row'[n].status \in {row[n].status, "discarded"}
    BY <1>7, <1>t DEF DiscardHistory, Typed, Row
  <2> QED BY <1>t, <2>1, <2>2, CursorsStay, DoneStays, ReceiptsStay, PositionStays DEF JournalInv
<1>8. ASSUME NEW n \in Notification, Accept(n) PROVE JournalInv'
  <2>1. UNCHANGED worker /\ accepting' = n /\ EnqueueHistory(n)
        /\ phone' = [phone EXCEPT ![n] = "sent"]
    BY <1>8 DEF Accept
  <2>2. /\ row'[n].status # "none"
        /\ \A m \in Notification : \/ row'[m] = row[m]
                                   \/ row'[m].status = "pending" /\ row'[m].cursor = 0
    BY <1>t, <2>1, InboxAppends
  <2>3. ReceiptOK'
    BY <1>t, <2>1, <2>2 DEF JournalInv, ReceiptOK, Typed
  <2>4. CursorOK'
    <3> SUFFICES ASSUME NEW m \in Notification PROVE Journaled(log', m, row'[m].cursor)
      BY DEF CursorOK
    <3>1. CASE row'[m] = row[m]
      <4>1. Journaled(log, m, row[m].cursor)
        BY DEF JournalInv, CursorOK
      <4> QED BY <1>t, <3>1, <4>1, LogGrows
    <3>2. CASE row'[m].cursor = 0
      BY <3>2 DEF Journaled
    <3> QED BY <2>2, <3>1, <3>2
  <2>5. DoneOK'
    BY <2>2, DoneStays
  <2> QED BY <1>t, <2>1, <2>3, <2>4, <2>5, PositionStays DEF JournalInv
<1>9. ASSUME NEW n \in Notification, Process(n) PROVE JournalInv'
  <2>1. UNCHANGED <<phone, accepting>>
    BY <1>9 DEF Process
  <2>2. CASE row' = [row EXCEPT ![n].status = "discarded"] /\ worker' = Idle
    <3>1. \A m \in Notification : /\ row'[m].cursor = row[m].cursor
                                  /\ row'[m].status \in {row[m].status, "discarded"}
      BY <1>t, <2>2, RowUpdate
    <3> QED BY <1>t, <1>i, <2>1, <2>2, <3>1, CursorsStay, DoneStays, ReceiptsStay, PositionStays DEF JournalInv
  <2>3. CASE worker' = [Idle EXCEPT !.pc = "download", !.note = n, !.next = row[n].cursor] /\ UNCHANGED row
    <3>1. worker'.pc = "download" /\ worker'.note = n /\ worker'.next = row[n].cursor
      BY <2>3 DEF Idle
    <3>2. Journaled(log, n, row[n].cursor)
      BY DEF JournalInv, CursorOK
    <3>3. Journaled(log', worker'.note, worker'.next)
      BY <1>t, <3>1, <3>2, LogGrows
    <3>4. PositionOK'
      BY <3>1, <3>3 DEF PositionOK
    <3> QED BY <1>t, <1>r, <2>1, <2>3, <3>4 DEF JournalInv
  <2> QED BY <1>9, <2>2, <2>3 DEF Process
<1>10. CASE Download
  <2>1. worker.pc = "download" /\ UNCHANGED <<phone, accepting>> /\ worker.note \in Notification
    BY <1>0, <1>10 DEF Download, Processing
  <2>2. CASE worker.note \in Imported
    <3>1. GoTo("ensure") /\ UNCHANGED row
      BY <1>10, <2>2 DEF Download
    <3>2. worker'.pc = "ensure" /\ worker'.note = worker.note /\ worker'.next = worker.next
      BY <1>t, <3>1, WorkerFields DEF GoTo
    <3> QED BY <1>t, <1>r, <2>1, <3>1, <3>2, PositionMoves DEF JournalInv
  <2>3. CASE worker.note \notin Imported
    <3>1. FinishHistory(worker.note, "done") /\ worker' = Idle
      BY <1>10, <2>3 DEF Download
    <3>2. /\ \A m \in Notification : /\ row'[m].cursor = row[m].cursor
                                     /\ row[m].status # "none" => row'[m].status # "none"
                                     /\ m # worker.note => row'[m] = row[m]
      BY <1>t, <2>1, <3>1, RowFinish
    <3>3. DoneOK'
      BY <1>t, <2>3, <3>2, LogGrows DEF JournalInv, DoneOK
    <3> QED BY <1>t, <1>i, <2>1, <3>1, <3>2, <3>3, CursorsStay, ReceiptsStay, PositionStays DEF JournalInv
  <2> QED BY <2>2, <2>3
<1>11. CASE DownloadFailed
  <2>1. UNCHANGED <<phone, accepting>> /\ worker.note \in Notification
    BY <1>0, <1>11 DEF DownloadFailed, Processing
  <2>2. worker' = Idle \/ worker'.pc = "giveup"
    BY <1>11, <1>t, WorkerFields DEF DownloadFailed, GoTo
  <2>3. worker'.pc \notin Processing
    BY <1>i, <2>2 DEF Processing
  <2>4. UNCHANGED row \/ FinishHistory(worker.note, "failed")
    BY <1>11 DEF DownloadFailed
  <2>5. \A m \in Notification : /\ row'[m].cursor = row[m].cursor
                                /\ row'[m].status \in {row[m].status, "failed"}
    BY <1>t, <2>1, <2>4, RowFinish
  <2> QED BY <1>t, <2>1, <2>3, <2>5, CursorsStay, DoneStays, ReceiptsStay, PositionStays DEF JournalInv
<1>12. CASE EnsureRun
  <2>1. worker.pc = "ensure" /\ UNCHANGED <<phone, accepting, row>>
    BY <1>12 DEF EnsureRun
  <2>2. worker'.pc \in {"start", "batch"} /\ worker'.note = worker.note /\ worker'.next = worker.next
    BY <1>12, <1>t, WorkerFields DEF EnsureRun
  <2> QED BY <1>t, <1>r, <2>1, <2>2, PositionMoves DEF JournalInv
<1>13. CASE PublishStarted
  <2>1. worker.pc = "start" /\ UNCHANGED <<phone, accepting, row>>
    BY <1>13 DEF PublishStarted, store
  <2>2. worker'.pc = "batch" /\ worker'.note = worker.note /\ worker'.next = worker.next
    BY <1>13, <1>t, WorkerFields DEF PublishStarted, GoTo
  <2> QED BY <1>t, <1>r, <2>1, <2>2, PositionMoves DEF JournalInv
<1>14. CASE PublishBatch
  <2>1. worker.pc = "batch" /\ UNCHANGED <<phone, accepting, row>>
    BY <1>14 DEF PublishBatch, store
  <2>2. worker'.pc = "cursor" /\ worker'.note = worker.note /\ worker'.next = worker.next
    BY <1>14, <1>t, WorkerFields DEF PublishBatch, GoTo
  <2>3. worker.run \in Notification /\ worker.note \in Notification
    BY <1>0, <2>1 DEF Importing
  <2>4. Batch(worker.run, worker.note, worker.next) \in Event
    BY <1>0, <1>t, <2>3, EventTypes
  <2>5. Batch(worker.run, worker.note, worker.next).id = <<"batch", worker.note, worker.next>>
    BY DEF Batch
  <2> DEFINE id == <<"batch", worker.note, worker.next>>
             e == Batch(worker.run, worker.note, worker.next)
  <2>6. Has(log', id)
    <3>1. Journal(e) /\ e \in Event /\ e.id = id
      BY <1>14, <2>4, <2>5 DEF PublishBatch, Publish
    <3> HIDE DEF id, e
    <3> QED BY <1>t, <3>1, JournalGrows DEF Typed
  <2>7. Journaled(log, worker.note, worker.next)
    BY <2>1 DEF JournalInv, PositionOK
  <2> DEFINE n == worker.note
             j == worker.next
  <2>8. \A i \in Nat : i < j + 1 => Has(log', <<"batch", n, i>>)
    <3> SUFFICES ASSUME NEW i \in Nat, i < j + 1
                 PROVE  Has(log', <<"batch", n, i>>)
      OBVIOUS
    <3>1. CASE i = j
      BY <2>6, <3>1
    <3>2. CASE i # j
      <4>1. i < j
        BY <1>0, <3>2
      <4>2. Has(log, <<"batch", n, i>>)
        BY <2>7, <4>1 DEF Journaled
      <4> QED BY <1>t, <4>2, LogGrows
    <3> QED BY <3>1, <3>2
  <2>9. Journaled(log', worker'.note, worker.next + 1)
    BY <2>2, <2>8 DEF Journaled
  <2>10. PositionOK'
    BY <2>2, <2>9 DEF PositionOK
  <2> QED BY <1>t, <1>r, <2>1, <2>10 DEF JournalInv
<1>15. CASE SetHistoryCursor
  <2>1. worker.pc = "cursor" /\ UNCHANGED <<phone, accepting, log>> /\ worker.note \in Notification
    BY <1>0, <1>15 DEF SetHistoryCursor, Importing
  <2>2. worker'.pc = "batch" /\ worker'.note = worker.note /\ worker'.next = worker.next + 1
    BY <1>15, <1>t, WorkerFields DEF SetHistoryCursor
  <2>3. Journaled(log, worker.note, worker.next + 1)
    BY <2>1 DEF JournalInv, PositionOK
  <2>4. PositionOK'
    <3>1. Journaled(log', worker'.note, worker'.next)
      BY <1>t, <2>2, <2>3, LogGrows
    <3> QED BY <2>2, <3>1 DEF PositionOK
  <2>5. \A m \in Notification : /\ row'[m].status = row[m].status
                                /\ \/ row'[m].cursor = row[m].cursor
                                   \/ m = worker.note /\ row'[m].cursor = worker.next + 1
    BY <1>15, <1>t, <2>1 DEF SetHistoryCursor, Typed, Row
  <2>6. CursorOK'
    <3> SUFFICES ASSUME NEW m \in Notification PROVE Journaled(log', m, row'[m].cursor)
      BY DEF CursorOK
    <3>1. Journaled(log, m, row'[m].cursor)
      BY <2>3, <2>5 DEF JournalInv, CursorOK
    <3> QED BY <1>t, <3>1, LogGrows
  <2> QED BY <1>t, <2>1, <2>4, <2>5, <2>6, DoneStays, ReceiptsStay DEF JournalInv
<1>16. CASE PublishProgress
  <2>1. worker.pc = "batch" /\ UNCHANGED <<phone, accepting, row>>
        /\ worker.next = PartsOf[worker.note]
    BY <1>16 DEF PublishProgress, store
  <2>2. worker'.pc = "finish" /\ worker'.note = worker.note
    BY <1>16, <1>t, WorkerFields DEF PublishProgress, GoTo
  <2>3. worker.run \in Notification /\ worker.note \in Notification
    BY <1>0, <2>1 DEF Importing
  <2> DEFINE e == Progress(worker.run, worker.note)
             id == <<"progress", worker.note>>
  <2>4. e \in Event /\ e.id = id /\ Journal(e)
    BY <1>16, <1>t, <2>3, EventTypes DEF Progress, PublishProgress, Publish
  <2>5. Has(log', id)
    <3> HIDE DEF id, e
    <3> QED BY <1>t, <2>4, JournalGrows DEF Typed
  <2>6. Has(log', <<"progress", worker.note>>)
    BY <2>2, <2>5
  <2>7. Journaled(log, worker.note, PartsOf[worker.note])
    BY <2>1 DEF JournalInv, PositionOK
  <2>8. Journaled(log', worker'.note, PartsOf[worker.note])
    BY <1>t, <2>2, <2>7, LogGrows
  <2>9. PositionOK'
    BY <2>2, <2>6, <2>8 DEF PositionOK
  <2> QED BY <1>t, <1>r, <2>1, <2>9 DEF JournalInv
<1>17. CASE Finish
  <2>1. worker.pc = "finish" /\ UNCHANGED <<phone, accepting>> /\ worker.note \in Notification
    BY <1>0, <1>17 DEF Finish, Importing
  <2>2. worker' = Idle \/ worker'.pc = "settle"
    BY <1>17, <1>t, WorkerFields DEF Finish, GoTo
  <2>3. worker'.pc \notin Processing
    BY <1>i, <2>2 DEF Processing
  <2>4. UNCHANGED row \/ FinishHistory(worker.note, "done")
    BY <1>17 DEF Finish
  <2>5. \A m \in Notification : /\ row'[m].cursor = row[m].cursor
                                /\ row[m].status # "none" => row'[m].status # "none"
                                /\ m # worker.note => row'[m] = row[m]
    BY <1>t, <2>1, <2>4, RowFinish
  <2>6. Journaled(log, worker.note, PartsOf[worker.note]) /\ Has(log, <<"progress", worker.note>>)
    BY <2>1 DEF JournalInv, PositionOK
  <2>7. DoneOK'
    <3> SUFFICES ASSUME NEW m \in Notification, row'[m].status = "done", m \in Imported
                 PROVE  Journaled(log', m, PartsOf[m]) /\ Has(log', <<"progress", m>>)
      BY DEF DoneOK
    <3>1. Journaled(log, m, PartsOf[m]) /\ Has(log, <<"progress", m>>)
      BY <2>5, <2>6 DEF JournalInv, DoneOK
    <3> QED BY <1>t, <3>1, LogGrows
  <2> QED BY <1>t, <2>1, <2>3, <2>5, <2>7, CursorsStay, ReceiptsStay, PositionStays DEF JournalInv
<1>18. CASE Next
  BY <1>1, <1>2, <1>3, <1>4, <1>5, <1>6, <1>7, <1>8, <1>9, <1>10, <1>11, <1>12, <1>13, <1>14,
     <1>15, <1>16, <1>17, <1>18 DEF Next, Projects, Tick, Import, Handler, Environment, Quiet
<1> QED BY <1>1, <1>18

\* The initial state satisfies the invariant.
LEMMA JournalInit == Init => JournalInv
<1> SUFFICES ASSUME Init PROVE JournalInv
  OBVIOUS
<1>1. CursorOK
  BY DEF Init, NoRow, CursorOK, Journaled
<1>2. PositionOK /\ ReceiptOK /\ DoneOK
  BY DEF Init, Idle, NoRow, PositionOK, ReceiptOK, DoneOK
<1> QED BY <1>1, <1>2, TypedInit DEF JournalInv

\* A receipted notification is stored, and one that ended "done" with the
\* import on is in the journal whole, whatever crash or lost write came between
\* a publish, the cursor and the last transaction (process, SetHistoryCursor
\* and FinishHistory).
THEOREM ImportedIsJournaled == Spec => []DoneIsJournaled
<1>1. JournalInv => DoneIsJournaled
  <2> SUFFICES ASSUME JournalInv, NEW n \in Notification
               PROVE  /\ phone[n] = "receipted" => row[n].status # "none"
                      /\ row[n].status = "done" /\ n \in Imported =>
                           /\ \A i \in 0 .. PartsOf[n] - 1 : IsLogged(<<"batch", n, i>>)
                           /\ IsLogged(<<"progress", n>>)
    BY DEF DoneIsJournaled
  <2>1. PartsOf[n] \in Nat
    BY HistoryAssumption
  <2>2. phone[n] = "receipted" => row[n].status # "none"
    BY DEF JournalInv, ReceiptOK
  <2>3. ASSUME row[n].status = "done", n \in Imported
        PROVE  Journaled(log, n, PartsOf[n]) /\ Has(log, <<"progress", n>>)
    BY <2>3 DEF JournalInv, DoneOK
  <2>4. \A i \in 0 .. PartsOf[n] - 1 : i \in Nat /\ i < PartsOf[n]
    BY <2>1
  <2>5. \A id : Has(log, id) <=> IsLogged(id)
    BY DEF Has, IsLogged
  <2> QED BY <2>2, <2>3, <2>4, <2>5 DEF Journaled
<1> QED BY <1>1, JournalInit, JournalStep, PTL DEF Spec

-----------------------------------------------------------------------------
(* What a step may do to the rows, the runs, the log and the worker.       *)

\* A row is stored by Accept and leaves "pending" for good.
LEMMA RowsMove ==
    ASSUME Typed, [Next]_vars, NEW n \in Notification
    PROVE  \/ row'[n].status = row[n].status
           \/ row[n].status = "none" /\ row'[n].status = "pending" /\ Accept(n)
           \/ row[n].status = "pending" /\ row'[n].status \in {"done", "failed", "discarded"}
<1>1. CASE UNCHANGED row
  BY <1>1
<1>2. CASE DiscardHistory
  BY <1>2 DEF DiscardHistory, Typed, Row, Pending
<1>3. ASSUME NEW m \in Notification, Accept(m)
      PROVE  \/ row'[n].status = row[n].status
             \/ row[n].status = "none" /\ row'[n].status = "pending" /\ Accept(n)
  <2>1. EnqueueHistory(m)
    BY <1>3 DEF Accept
  <2>2. /\ m # n => row'[n] = row[n]
        /\ row[m].status = "none" => row'[m].status = "pending"
        /\ row[m].status # "none" => row'[m] = row[m]
    BY <2>1, InboxAppends
  <2> QED BY <1>3, <2>2
<1>4. ASSUME NEW m \in Notification, Process(m)
      PROVE  \/ row'[n].status = row[n].status
             \/ row[n].status = "pending" /\ row'[n].status = "discarded"
  <2>1. row[m].status = "pending"
    BY <1>4 DEF Process, First, Pending
  <2>2. CASE row' = [row EXCEPT ![m].status = "discarded"]
    BY <2>1, <2>2, RowUpdate
  <2> QED BY <1>4, <2>2 DEF Process
<1>5. CASE SetHistoryCursor
  <2>1. worker.note \in Notification
    BY <1>5, UnderWork DEF SetHistoryCursor, Importing
  <2> QED BY <1>5, <2>1 DEF SetHistoryCursor, Typed, Row
<1>6. CASE Download \/ DownloadFailed \/ Finish
  <2>1. worker.note \in Notification
    BY <1>6, UnderWork DEF Download, DownloadFailed, Finish, Processing, Importing
  <2>2. UNCHANGED row \/ FinishHistory(worker.note, "done") \/ FinishHistory(worker.note, "failed")
    BY <1>6 DEF Download, DownloadFailed, Finish
  <2> QED BY <2>1, <2>2, RowFinish
<1>7. CASE Quiet
  BY <1>7, QuietKeeps DEF core
<1>8. UNCHANGED vars => UNCHANGED row
  BY DEF vars
<1>9. CASE Tick
  <2>1. UNCHANGED row \/ \E m \in Notification : Process(m)
    BY <1>9 DEF Tick, EmitFinals, MarkHistoryRunEmitted, ReadIdle, Wait, EmitFinal, CompleteIdle, store
  <2> QED BY <1>4, <2>1
<1>10. CASE Import
  <2>1. UNCHANGED row \/ Download \/ SetHistoryCursor \/ Finish
    BY <1>10 DEF Import, GiveUp, EnsureRun, PublishStarted, PublishBatch, PublishProgress,
                 PublishFails, Settle, Complete, store
  <2> QED BY <1>5, <1>6, <2>1
<1>11. CASE Handler
  <2>1. UNCHANGED row \/ DiscardHistory \/ \E m \in Notification : Accept(m)
    BY <1>11 DEF Handler, SendReceipt, EndHistoryRuns, store
  <2> QED BY <1>2, <1>3, <2>1
<1>12. CASE Crash \/ Projects
  BY <1>12, ProjectsKeep DEF Crash, core, store
<1> QED BY <1>6, <1>7, <1>8, <1>9, <1>10, <1>11, <1>12 DEF Next, Projects, Environment, Quiet

\* Stored rows stay stored, and a row pending after a step was pending before
\* it or is new.
LEMMA RowsStay ==
    ASSUME Typed, [Next]_vars
    PROVE  /\ \A n \in Notification : row[n].status # "none" => row'[n].status # "none"
           /\ \A n \in Notification : row'[n].status = "pending" =>
                row[n].status = "pending" \/ (row[n].status = "none" /\ Accept(n))
BY RowsMove

\* A run starts in EnsureRun, and ends once: by the worker, between two rows or
\* after the last one, or by a drop.
LEMMA RunsMove ==
    ASSUME Typed, [Next]_vars, NEW r \in Notification
    PROVE  \/ runs'[r].status = runs[r].status
           \/ /\ EnsureRun /\ r = worker.note /\ ActiveRuns(r) = {}
              /\ runs[r].status = "none" /\ runs'[r].status = "running"
           \/ /\ worker.pc \in {"idle", "giveup", "complete"} \/ (EndHistoryRuns /\ Drops(r))
              /\ runs[r].status = "running" /\ runs'[r].status \in Ended
<1>1. CASE Quiet
  BY <1>1, QuietKeeps DEF core
<1>2. CASE MarkHistoryRunEmitted
  <2>1. worker.run \in Notification
    BY <1>2 DEF MarkHistoryRunEmitted, Typed, WorkerOK
  <2> QED BY <1>2, <2>1 DEF MarkHistoryRunEmitted, Typed, Run
<1>3. ASSUME NEW x \in Notification, CompleteIdle(x)
      PROVE  \/ runs'[r].status = runs[r].status
             \/ /\ worker.pc = "idle"
                /\ runs[r].status = "running" /\ runs'[r].status \in Ended
  BY <1>3, RunEnd DEF CompleteIdle, Ended
<1>4. CASE GiveUp
  <2>1. UNCHANGED runs \/ \E x \in Notification : EndHistoryRun(x, "failed")
    BY <1>4 DEF GiveUp, ActiveRuns
  <2>2. worker.pc = "giveup" /\ "failed" \in Ended
    BY <1>4 DEF GiveUp, Ended
  <2> QED BY <2>1, <2>2, RunEnd
<1>5. CASE EnsureRun
  <2> DEFINE n == worker.note
             x == IF ActiveRuns(n) = {} THEN n ELSE CHOOSE y \in ActiveRuns(n) : TRUE
  <2>1. runs' = IF runs[x].status = "none" THEN [runs EXCEPT ![x].status = "running"] ELSE runs
    BY <1>5 DEF EnsureRun
  <2>2. n \in Notification
    BY <1>5, UnderWork DEF EnsureRun, Processing
  <2>3. x \in Notification /\ (runs[x].status = "none" => ActiveRuns(n) = {} /\ x = n)
    BY <2>2 DEF ActiveRuns
  <2> HIDE DEF n, x
  <2>4. CASE runs[x].status = "none"
    <3>1. runs'[x].status = "running" /\ \A m \in Notification : m # x => runs'[m] = runs[m]
      BY <2>1, <2>3, <2>4, RunUpdate
    <3> QED BY <1>5, <2>3, <2>4, <3>1 DEF n
  <2> QED BY <2>1, <2>4
<1>6. CASE Finish
  <2>1. worker.run \in Notification
    BY <1>6, UnderWork DEF Finish, Importing
  <2>2. UNCHANGED runs \/ runs' = [runs EXCEPT ![worker.run].chunks = @ + 1,
                                               ![worker.run].batches = @ + PartsOf[worker.note]]
    BY <1>6 DEF Finish
  <2> QED BY <2>1, <2>2 DEF Typed, Run
<1>7. CASE Complete
  <2>1. worker.pc = "complete" /\ "completed" \in Ended /\ EndHistoryRun(worker.run, "completed")
        /\ worker.run \in Notification
    BY <1>7, UnderWork DEF Complete, Ended
  <2> QED BY <2>1, RunEnd
<1>8. CASE EndHistoryRuns
  BY <1>8 DEF EndHistoryRuns, Typed, Run, Ended
<1>9. UNCHANGED vars => UNCHANGED runs
  BY DEF vars
<1>10. CASE Tick
  <2>1. UNCHANGED runs \/ MarkHistoryRunEmitted \/ \E m \in Notification : CompleteIdle(m)
    BY <1>10 DEF Tick, EmitFinals, ReadIdle, Wait, EmitFinal, Process, store
  <2> QED BY <1>2, <1>3, <2>1
<1>11. CASE Import
  <2>1. UNCHANGED runs \/ GiveUp \/ EnsureRun \/ Finish \/ Complete
    BY <1>11 DEF Import, Download, PublishStarted, PublishBatch, PublishProgress, SetHistoryCursor,
                 PublishFails, Settle, store
  <2> QED BY <1>4, <1>5, <1>6, <1>7, <2>1
<1>12. CASE Handler
  <2>1. UNCHANGED runs \/ EndHistoryRuns
    BY <1>12 DEF Handler, SendReceipt, DiscardHistory, Accept, store
  <2> QED BY <1>8, <2>1
<1>13. CASE Crash \/ DownloadFailed \/ Projects
  BY <1>13, ProjectsKeep DEF Crash, DownloadFailed, core, store
<1> QED BY <1>1, <1>9, <1>10, <1>11, <1>12, <1>13 DEF Next, Projects, Environment, Quiet

\* An event that a step adds to the log: a verdict between two rows, or an
\* event of the run under work.
Added(e) ==
    /\ e \in Event /\ ~Has(log, e.id)
    /\ UNCHANGED <<inbox, row, runs, torn>>
    /\ \/ worker.pc = "finals" /\ \E r \in Notification : runs[r].status \in Ended /\ e = Final(r)
       \/ worker.pc = "start" /\ e = Started(worker.run)
       \/ /\ worker.pc = "batch" /\ worker.next < PartsOf[worker.note]
          /\ e = Batch(worker.run, worker.note, worker.next)
       \/ /\ worker.pc = "batch" /\ worker.next = PartsOf[worker.note]
          /\ e = Progress(worker.run, worker.note)

\* The log keeps what it has, and one event is added at its end.
LEMMA LogMoves ==
    ASSUME Typed, [Next]_vars, NEW k \in DOMAIN log'
    PROVE  \/ k \in DOMAIN log /\ log'[k] = log[k]
           \/ k = Len(log) + 1 /\ Added(log'[k])
<1>1. CASE UNCHANGED log
  BY <1>1
<1>2. ASSUME NEW e \in Event, Journal(e), ~Has(log, e.id) => Added(e)
      PROVE  \/ k \in DOMAIN log /\ log'[k] = log[k]
             \/ k = Len(log) + 1 /\ Added(log'[k])
  BY <1>2, JournalGrows DEF Typed
<1>3. ASSUME NEW r \in Notification, EmitFinal(r), Publish(Final(r))
      PROVE  \/ k \in DOMAIN log /\ log'[k] = log[k]
             \/ k = Len(log) + 1 /\ Added(log'[k])
  <2>1. Final(r) \in Event /\ runs[r].status \in Ended /\ worker.pc = "finals"
        /\ UNCHANGED <<inbox, row, runs, torn>>
    BY <1>3, EventTypes DEF EmitFinal, Typed, WorkerOK, store
  <2>2. ~Has(log, Final(r).id) => Added(Final(r))
    BY <2>1 DEF Added
  <2> QED BY <1>2, <1>3, <2>1, <2>2 DEF Publish
<1>4. CASE PublishStarted
  <2>1. Started(worker.run) \in Event /\ worker.pc = "start" /\ UNCHANGED <<inbox, row, runs, torn>>
    BY <1>4, UnderWork, EventTypes DEF PublishStarted, Importing, store, budget
  <2>2. ~Has(log, Started(worker.run).id) => Added(Started(worker.run))
    BY <2>1 DEF Added
  <2> QED BY <1>2, <1>4, <2>1, <2>2 DEF PublishStarted, Publish
<1>5. CASE PublishBatch
  <2> DEFINE e == Batch(worker.run, worker.note, worker.next)
  <2>1. worker.run \in Notification /\ worker.note \in Notification /\ worker.next \in Nat
    BY <1>5, UnderWork, WorkerFields DEF PublishBatch, Importing
  <2>2. e \in Event /\ worker.pc = "batch" /\ worker.next < PartsOf[worker.note]
        /\ UNCHANGED <<inbox, row, runs, torn>> /\ Journal(e)
    BY <1>5, <2>1, EventTypes DEF PublishBatch, Publish, store, budget
  <2>3. ~Has(log, e.id) => Added(e)
    BY <2>2 DEF Added
  <2> HIDE DEF e
  <2> QED BY <1>2, <2>2, <2>3
<1>6. CASE PublishProgress
  <2> DEFINE e == Progress(worker.run, worker.note)
  <2>1. worker.run \in Notification /\ worker.note \in Notification
    BY <1>6, UnderWork DEF PublishProgress, Importing
  <2>2. e \in Event /\ worker.pc = "batch" /\ worker.next = PartsOf[worker.note]
        /\ UNCHANGED <<inbox, row, runs, torn>> /\ Journal(e)
    BY <1>6, <2>1, EventTypes DEF PublishProgress, Publish, store, budget
  <2>3. ~Has(log, e.id) => Added(e)
    BY <2>2 DEF Added
  <2> HIDE DEF e
  <2> QED BY <1>2, <2>2, <2>3
<1> QED BY <1>1, <1>3, <1>4, <1>5, <1>6, LogUnchanged

\* The worker takes up the first pending row, and works on it until it lets go.
Takes(n) ==
    /\ First(n) /\ worker.pc = "finals"
    /\ worker'.pc = "download" /\ worker'.note = n
    /\ UNCHANGED <<inbox, row, runs, log, torn>>

Proceeds ==
    /\ worker.pc \in Busy /\ worker'.note = worker.note
    /\ worker'.pc \in Processing => worker.pc \in Processing
    /\ worker'.pc \in {"download", "ensure"} => worker.pc \in {"download", "ensure"}
    /\ worker'.pc \in Importing =>
         \/ worker.pc \in Importing /\ worker'.run = worker.run
         \/ worker.pc = "ensure" /\ EnsureRun

\* A busy worker has taken up a row or proceeds with it, and idle runs are read
\* while nothing is pending.
LEMMA WorkerMoves ==
    ASSUME Typed, [Next]_vars
    PROVE  /\ worker'.pc \in Busy => Proceeds \/ \E n \in Notification : Takes(n)
           /\ worker'.pc = "idle" => worker.pc = "idle" \/ (~HasPendingHistory /\ UNCHANGED row)
<1> DEFINE Goal == /\ worker'.pc \in Busy => Proceeds \/ \E n \in Notification : Takes(n)
                   /\ worker'.pc = "idle" =>
                        worker.pc = "idle" \/ (~HasPendingHistory /\ UNCHANGED row)
<1> SUFFICES Goal
  OBVIOUS
<1>0. worker = [pc |-> worker.pc, note |-> worker.note, run |-> worker.run,
                next |-> worker.next, todo |-> worker.todo]
  BY WorkerFields
<1>b. \A pc \in {"tick", "finals", "mark", "idle"} : pc \notin Busy
  BY DEF Busy, Processing
<1>c. "idle" \notin Busy
  BY DEF Busy, Processing
<1>1. CASE UNCHANGED worker
  <2>1. worker'.pc \in Busy => Proceeds
    BY <1>1 DEF Proceeds
  <2> QED BY <1>1, <2>1
<1>2. CASE worker' = Idle
  <2>1. worker'.pc = "tick"
    BY <1>2 DEF Idle
  <2> QED BY <1>b, <2>1
<1>3. CASE \/ EmitFinals \/ MarkHistoryRunEmitted \/ ReadIdle \/ Wait
           \/ \E n \in Notification : EmitFinal(n) \/ CompleteIdle(n)
  <2>1. worker'.pc \notin Busy
    BY <1>3, <1>b, BetweenRows
  <2>2. ASSUME worker'.pc = "idle" PROVE worker.pc = "idle" \/ ReadIdle
    <3>1. EmitFinals => worker'.pc = "finals"
      BY <1>0 DEF EmitFinals
    <3>2. MarkHistoryRunEmitted => worker'.pc = "finals"
      <4>1. MarkHistoryRunEmitted =>
              worker' = [pc |-> "finals", note |-> worker.note, run |-> NoNotification,
                         next |-> worker.next, todo |-> worker.todo \ {worker.run}]
        BY <1>0 DEF MarkHistoryRunEmitted
      <4> QED BY <4>1
    <3>3. Wait => worker'.pc = "tick"
      BY DEF Wait, Idle
    <3>4. \A n \in Notification : EmitFinal(n) => worker'.pc \in {"mark", "finals"}
      BY <1>0 DEF EmitFinal
    <3>5. \A n \in Notification : CompleteIdle(n) => worker.pc = "idle"
      BY DEF CompleteIdle
    <3> QED BY <1>3, <2>2, <3>1, <3>2, <3>3, <3>4, <3>5
  <2>3. ReadIdle => ~HasPendingHistory /\ UNCHANGED row
    BY DEF ReadIdle, IdleHistoryRuns, store
  <2> QED BY <2>1, <2>2, <2>3
<1>4. ASSUME NEW n \in Notification, Process(n) PROVE Goal
  <2>1. CASE worker' = [Idle EXCEPT !.pc = "download", !.note = n, !.next = row[n].cursor] /\ UNCHANGED row
    <3>1. worker'.pc = "download" /\ worker'.note = n
      BY <2>1 DEF Idle
    <3>2. Takes(n)
      BY <1>4, <2>1, <3>1 DEF Takes, Process, budget
    <3> QED BY <3>1, <3>2
  <2> QED BY <1>2, <1>4, <2>1 DEF Process
<1>5. ASSUME NEW pc \in Busy, GoTo(pc), worker.pc \in Busy,
             pc \in Processing => worker.pc \in Processing,
             pc \notin {"download"}, pc = "ensure" => worker.pc = "download",
             pc \in Importing => worker.pc \in Importing
      PROVE  Goal
  <2>1. worker'.pc = pc /\ worker'.note = worker.note /\ worker'.run = worker.run
    BY <1>0, <1>5 DEF GoTo
  <2>2. Proceeds
    BY <1>5, <2>1 DEF Proceeds
  <2> QED BY <1>c, <1>5, <2>1, <2>2
<1>6. CASE Download \/ PublishStarted \/ PublishBatch \/ PublishProgress
  <2>1. "ensure" \in Busy /\ "batch" \in Busy /\ "cursor" \in Busy /\ "finish" \in Busy
        /\ "ensure" \notin Importing
    BY DEF Busy, Processing, Importing
  <2>2. CASE Download
    <3>1. worker.pc = "download" /\ worker.pc \in Busy /\ worker.pc \in Processing
      BY <2>2 DEF Download, Busy, Processing
    <3> QED BY <1>2, <1>5, <2>1, <2>2, <3>1 DEF Download
  <2>3. CASE PublishStarted \/ PublishBatch \/ PublishProgress
    <3>1. worker.pc \in Busy /\ worker.pc \in Processing /\ worker.pc \in Importing
      BY <2>3 DEF PublishStarted, PublishBatch, PublishProgress, Busy, Processing, Importing
    <3> QED BY <1>5, <2>1, <2>3, <3>1 DEF PublishStarted, PublishBatch, PublishProgress
  <2> QED BY <1>6, <2>2, <2>3
<1>7. CASE Finish \/ Settle \/ DownloadFailed
  <2>1. /\ "settle" \in Busy /\ "complete" \in Busy /\ "giveup" \in Busy
        /\ \A pc \in {"settle", "complete", "giveup"} : pc \notin Processing /\ pc \notin Importing
    BY DEF Busy, Processing, Importing
  <2>2. worker.pc \in Busy
    BY <1>7 DEF Finish, Settle, DownloadFailed, Busy, Processing
  <2>3. worker' = Idle \/ GoTo("settle") \/ GoTo("complete") \/ GoTo("giveup")
    BY <1>7 DEF Finish, Settle, DownloadFailed
  <2> QED BY <1>2, <1>5, <2>1, <2>2, <2>3
<1>8. CASE SetHistoryCursor
  <2>1. worker' = [pc |-> "batch", note |-> worker.note, run |-> worker.run,
                   next |-> worker.next + 1, todo |-> worker.todo]
    BY <1>0, <1>8 DEF SetHistoryCursor
  <2>2. worker'.pc = "batch" /\ worker'.note = worker.note /\ worker'.run = worker.run
    BY <2>1
  <2>3. worker.pc \in Busy /\ worker.pc \in Processing /\ worker.pc \in Importing
    BY <1>8 DEF SetHistoryCursor, Busy, Processing, Importing
  <2>4. Proceeds
    BY <2>2, <2>3 DEF Proceeds
  <2> QED BY <2>2, <2>4
<1>9. CASE EnsureRun
  <2>1. worker'.pc \in {"start", "batch"} /\ worker'.note = worker.note
    BY <1>0, <1>9 DEF EnsureRun
  <2>2. worker.pc = "ensure" /\ worker.pc \in Busy /\ worker.pc \in Processing
    BY <1>9 DEF EnsureRun, Busy, Processing
  <2>3. Proceeds
    BY <1>9, <2>1, <2>2 DEF Proceeds
  <2> QED BY <2>1, <2>3
<1>10. CASE GiveUp \/ Complete \/ PublishFails \/ Crash
  BY <1>2, <1>10 DEF GiveUp, Complete, PublishFails, Crash
<1>11. CASE Handler \/ Projects \/ Quiet \/ UNCHANGED vars
  <2>1. UNCHANGED worker
    BY <1>11, QuietKeeps, ProjectsKeep
       DEF core, Handler, SendReceipt, DiscardHistory, EndHistoryRuns, Accept, vars
  <2> QED BY <1>1, <2>1
<1> HIDE DEF Goal
<1>12. CASE Next
  BY <1>3, <1>4, <1>6, <1>7, <1>8, <1>9, <1>10, <1>11, <1>12 DEF Next, Projects, Tick, Import, Environment, Quiet
<1> QED BY <1>11, <1>12

-----------------------------------------------------------------------------
(***************************************************************************)
(* Notifications are begun one at a time, in arrival order.                *)
(*                                                                         *)
(* A notification is begun once it has seeded a run or journaled a batch.  *)
(* One that is begun and still pending is the first of the inbox, so the   *)
(* worker, whatever interrupted it, takes up that one again before it      *)
(* ends a run or begins another.                                           *)
(***************************************************************************)

Begun(n) == runs[n].status # "none" \/ \E i \in Nat : Has(log, <<"batch", n, i>>)

OrderInv ==
    /\ Typed
    /\ \A n \in Notification : Begun(n) => row[n].status # "none"
    /\ \A n \in Notification : Begun(n) /\ Pending(n) => First(n)
    /\ worker.pc \in Processing /\ Pending(worker.note) => First(worker.note)
    /\ worker.pc \in Busy => \A n \in Notification : Begun(n) /\ Pending(n) => n = worker.note
    /\ worker.pc = "idle" => \A n \in Notification : Pending(n) => ~Begun(n)

\* One pending row comes first.
LEMMA FirstIsOne ==
    ASSUME Typed, NEW m \in Notification, NEW n \in Notification, First(m), First(n)
    PROVE  m = n
<1> SUFFICES ASSUME m # n PROVE FALSE
  OBVIOUS
<1>0. DOMAIN inbox \subseteq Nat
  BY DEF Typed, InboxOK
<1>1. PICK i \in DOMAIN inbox, j \in DOMAIN inbox : i < j /\ inbox[i] = n /\ inbox[j] = m
  BY DEF First
<1>2. PICK k \in DOMAIN inbox, l \in DOMAIN inbox : k < l /\ inbox[k] = m /\ inbox[l] = n
  BY DEF First
<1>3. i = l /\ j = k
  BY <1>1, <1>2 DEF Typed, InboxOK
<1> QED BY <1>0, <1>1, <1>2, <1>3

\* The inbox only grows at its end.
LEMMA InboxMoves ==
    ASSUME Typed, [Next]_vars
    PROVE  /\ \A k \in DOMAIN inbox : k \in DOMAIN inbox' /\ inbox'[k] = inbox[k]
           /\ \A n \in Notification : row[n].status = "none" /\ Accept(n) =>
                /\ Len(inbox) + 1 \in DOMAIN inbox' /\ inbox'[Len(inbox) + 1] = n
                /\ \A k \in DOMAIN inbox : k < Len(inbox) + 1
<1>1. \A n \in Notification : Accept(n) => EnqueueHistory(n)
  BY DEF Accept
<1>2. DOMAIN inbox = 1 .. Len(inbox) /\ Len(inbox) \in Nat
  BY DEF Typed, InboxOK
<1>3. UNCHANGED inbox \/ \E n \in Notification : Accept(n)
  <2>1. Quiet \/ UNCHANGED vars => UNCHANGED inbox
    BY QuietKeeps DEF core, vars
  <2>2. Tick => UNCHANGED inbox
    BY DEF Tick, EmitFinals, MarkHistoryRunEmitted, ReadIdle, Wait, EmitFinal, CompleteIdle, Process, store
  <2>3. Import => UNCHANGED inbox
    BY DEF Import, Download, GiveUp, EnsureRun, PublishStarted, PublishBatch, SetHistoryCursor,
           PublishProgress, PublishFails, Finish, Settle, Complete, store
  <2>4. SendReceipt \/ DiscardHistory \/ EndHistoryRuns \/ DownloadFailed \/ Crash \/ Projects
          => UNCHANGED inbox
    BY ProjectsKeep DEF SendReceipt, DiscardHistory, EndHistoryRuns, DownloadFailed, Crash, core, store
  <2> QED BY <2>1, <2>2, <2>3, <2>4 DEF Next, Projects, Handler, Environment, Quiet
<1>4. \A k \in DOMAIN inbox : k \in DOMAIN inbox' /\ inbox'[k] = inbox[k]
  BY <1>1, <1>3, InboxAppends
<1>5. ASSUME NEW n \in Notification, row[n].status = "none", Accept(n)
      PROVE  Len(inbox) + 1 \in DOMAIN inbox' /\ inbox'[Len(inbox) + 1] = n
  BY <1>1, <1>5, InboxAppends
<1> QED BY <1>2, <1>4, <1>5

\* A row that comes first does so until it is no longer pending.
LEMMA FirstStays ==
    ASSUME Typed, [Next]_vars, NEW n \in Notification, First(n), row'[n].status = "pending"
    PROVE  First(n)'
<1> SUFFICES ASSUME NEW m \in Notification, row'[m].status = "pending", m # n
             PROVE  \E i, j \in DOMAIN inbox' : i < j /\ inbox'[i] = n /\ inbox'[j] = m
  BY DEF First, Pending
<1>1. CASE row[m].status = "pending"
  <2>1. PICK i \in DOMAIN inbox, j \in DOMAIN inbox : i < j /\ inbox[i] = n /\ inbox[j] = m
    BY <1>1 DEF First, Pending
  <2> QED BY <2>1, InboxMoves
<1>2. CASE row[m].status = "none" /\ Accept(m)
  <2>1. row[n].status # "none"
    BY DEF First, Pending
  <2>2. PICK i \in DOMAIN inbox : inbox[i] = n
    BY <2>1 DEF Typed, InboxOK
  <2>3. i \in DOMAIN inbox' /\ inbox'[i] = n
    BY <2>2, InboxMoves
  <2>4. Len(inbox) + 1 \in DOMAIN inbox' /\ inbox'[Len(inbox) + 1] = m /\ i < Len(inbox) + 1
    BY <1>2, InboxMoves
  <2> QED BY <2>3, <2>4
<1> QED BY <1>1, <1>2, RowsStay

\* A step begins no notification but the one under work.
LEMMA BegunMoves ==
    ASSUME Typed, [Next]_vars, NEW n \in Notification, Begun(n)'
    PROVE  Begun(n) \/ (worker.pc \in Processing /\ n = worker.note)
<1>1. CASE runs'[n].status # "none"
  <2>1. EnsureRun => worker.pc \in Processing
    BY DEF EnsureRun, Processing
  <2> QED BY <1>1, <2>1, RunsMove DEF Begun
<1>2. ASSUME NEW i \in Nat, Has(log', <<"batch", n, i>>)
      PROVE  Begun(n) \/ (worker.pc \in Processing /\ n = worker.note)
  <2>1. PICK k \in DOMAIN log' : log'[k].id = <<"batch", n, i>>
    BY <1>2 DEF Has
  <2>2. CASE k \in DOMAIN log /\ log'[k] = log[k]
    <3>1. Has(log, <<"batch", n, i>>)
      BY <2>1, <2>2 DEF Has
    <3> QED BY <3>1 DEF Begun
  <2>3. CASE Added(log'[k])
    <3> DEFINE e == log'[k]
    <3>0. e.id = <<"batch", n, i>> /\ e.id[1] = "batch"
      BY <2>1
    <3> HIDE DEF e
    <3>1. ASSUME NEW r \in Notification, runs[r].status \in Ended, e = Final(r) PROVE FALSE
      <4>1. e.id[1] \in Ended
        BY <3>1 DEF Final
      <4> QED BY <3>0, <4>1 DEF Ended
    <3>2. e # Started(worker.run)
      <4>1. Started(worker.run).id[1] = "started"
        BY DEF Started
      <4> QED BY <3>0, <4>1
    <3>3. e # Progress(worker.run, worker.note)
      <4>1. Progress(worker.run, worker.note).id[1] = "progress"
        BY DEF Progress
      <4> QED BY <3>0, <4>1
    <3>4. worker.pc = "batch" /\ e = Batch(worker.run, worker.note, worker.next)
      BY <2>3, <3>1, <3>2, <3>3 DEF Added, e
    <3>5. n = worker.note
      <4>1. e.id[2] = worker.note
        BY <3>4 DEF Batch
      <4>2. e.id[2] = n
        BY <3>0
      <4> QED BY <4>1, <4>2
    <3> QED BY <3>4, <3>5 DEF Processing
  <2> QED BY <2>2, <2>3, LogMoves
<1> QED BY <1>1, <1>2 DEF Begun

\* Every step keeps the order.
LEMMA OrderStep == OrderInv /\ [Next]_vars => OrderInv'
<1> SUFFICES ASSUME OrderInv, [Next]_vars PROVE OrderInv'
  OBVIOUS
<1>t. Typed /\ Typed'
  BY TypedStep DEF OrderInv
<1>0. /\ worker.pc \in Busy => worker.note \in Notification /\ row[worker.note].status # "none"
      /\ Processing \subseteq Busy
  BY <1>t, UnderWork
<1>r. /\ \A n \in Notification : row[n].status # "none" => row'[n].status # "none"
      /\ \A n \in Notification : row'[n].status = "pending" =>
           row[n].status = "pending" \/ row[n].status = "none"
  BY <1>t, RowsStay
<1>b. \A n \in Notification : Begun(n)' => Begun(n) \/ (worker.pc \in Processing /\ n = worker.note)
  BY <1>t, BegunMoves
<1>f. \A n \in Notification : First(n) /\ row'[n].status = "pending" => First(n)'
  BY <1>t, FirstStays
<1>s. \A n \in Notification : Begun(n) => row[n].status # "none"
  BY DEF OrderInv
<1>1. \A n \in Notification : Begun(n)' => row'[n].status # "none"
  BY <1>0, <1>r, <1>b, <1>s
<1>2. ASSUME NEW n \in Notification, Begun(n)', row'[n].status = "pending" PROVE First(n)'
  <2>1. row[n].status = "pending"
    BY <1>0, <1>r, <1>b, <1>s, <1>2
  <2>2. First(n)
    BY <1>b, <1>2, <2>1 DEF OrderInv, Pending
  <2> QED BY <1>2, <1>f, <2>2
<1>3. ASSUME worker'.pc \in Processing, row'[worker'.note].status = "pending" PROVE First(worker.note)'
  <2>1. CASE Proceeds
    <3>1. worker.pc \in Processing /\ worker'.note = worker.note
      BY <1>3, <2>1 DEF Proceeds
    <3>2. worker.note \in Notification /\ row[worker.note].status = "pending"
      BY <1>0, <1>r, <1>3, <3>1
    <3>3. First(worker.note)
      BY <3>1, <3>2 DEF OrderInv, Pending
    <3> DEFINE n == worker.note
    <3>4. First(n) /\ n \in Notification /\ row'[n].status = "pending" /\ n = worker'.note
      BY <1>3, <3>1, <3>2, <3>3
    <3> HIDE DEF n
    <3>5. \A m \in Notification : m = n => First(m)'
      BY <1>f, <3>4
    <3> QED BY <3>4, <3>5
  <2>2. ASSUME NEW n \in Notification, Takes(n) PROVE First(worker.note)'
    <3>1. First(n)' /\ worker'.note = n
      BY <1>3, <1>f, <2>2 DEF Takes
    <3> QED BY <3>1
  <2> QED BY <1>0, <1>t, <1>3, <2>1, <2>2, WorkerMoves
<1>4. ASSUME worker'.pc \in Busy, NEW n \in Notification, Begun(n)', row'[n].status = "pending"
      PROVE  n = worker'.note
  <2>1. row[n].status = "pending"
    BY <1>0, <1>r, <1>b, <1>s, <1>4
  <2>2. CASE Proceeds
    BY <1>b, <1>4, <2>1, <2>2 DEF Proceeds, OrderInv, Pending
  <2>3. ASSUME NEW m \in Notification, Takes(m) PROVE n = worker'.note
    <3>1. worker.pc \notin Processing /\ First(m) /\ worker'.note = m
      BY <2>3 DEF Takes, Processing
    <3>2. First(n)
      BY <1>b, <1>4, <2>1, <3>1 DEF OrderInv, Pending
    <3> QED BY <1>t, <3>1, <3>2, FirstIsOne
  <2> QED BY <1>t, <1>4, <2>2, <2>3, WorkerMoves
<1>5. ASSUME worker'.pc = "idle", NEW n \in Notification, row'[n].status = "pending"
      PROVE  ~Begun(n)'
  <2>1. CASE worker.pc = "idle"
    <3>1. worker.pc \notin Processing
      BY <2>1 DEF Processing
    <3> QED BY <1>r, <1>b, <1>s, <1>5, <2>1, <3>1 DEF OrderInv, Pending
  <2>2. CASE ~HasPendingHistory /\ UNCHANGED row
    BY <1>5, <2>2 DEF HasPendingHistory, Pending
  <2> QED BY <1>t, <1>5, <2>1, <2>2, WorkerMoves
<1> QED BY <1>t, <1>1, <1>2, <1>3, <1>4, <1>5 DEF OrderInv, Pending

\* It holds at first, when nothing is begun.
LEMMA OrderInit == Init => OrderInv
<1> SUFFICES ASSUME Init PROVE OrderInv
  OBVIOUS
<1>1. \A n \in Notification : ~Begun(n)
  BY DEF Init, NoRun, Begun, Has
<1>2. worker.pc = "tick" /\ "tick" \notin Busy /\ "tick" \notin Processing
  BY DEF Init, Idle, Busy, Processing
<1> QED BY <1>1, <1>2, TypedInit DEF OrderInv

-----------------------------------------------------------------------------
(***************************************************************************)
(* A run's verdict is its last event.                                      *)
(*                                                                         *)
(* While no drop has kept rows of the runs it ended, a pending row has not *)
(* seeded a run that is over, so the worker never imports into a run whose *)
(* verdict is journaled, and nothing of a run follows its verdict.         *)
(***************************************************************************)

ApiRow == [status : {"none", "running", "completed", "failed"}, reported : Nat, applied : Nat]

ApiOK ==
    /\ done \subseteq DOMAIN log
    /\ api \in [Notification -> ApiRow]

\* Log l has a verdict of run r.
Judged(l, r) == \E s \in Ended : Has(l, <<s, r>>)

\* A journaled verdict is the one in the run table, and is about its own run.
VerdictOK ==
    /\ \A r \in Notification, s \in Ended : Has(log, <<s, r>>) => runs[r].status = s
    /\ \A k \in DOMAIN log, r \in Notification, s \in Ended :
          log[k].id = <<s, r>> => log[k].run = r

\* No row still to be imported, and no import under way, belongs to a run that
\* is over; nothing of a run follows its verdict.
VerdictLast ==
    /\ \A n \in Notification : Pending(n) => runs[n].status \in {"none", "running"}
    /\ worker.pc \in {"download", "ensure"} => ~Judged(log, worker.note)
    /\ worker.pc \in Importing => ~Judged(log, worker.run)
    /\ \A p, q \in DOMAIN log : \A r \in Notification, s \in Ended :
          p < q /\ log[p].id = <<s, r>> => log[q].run # r

VerdictInv == OrderInv /\ VerdictOK /\ ("kept" \notin torn => VerdictLast)

\* An added event with the id of a verdict is one, and any other is of the run
\* under work.
LEMMA AddedVerdict ==
    ASSUME NEW e, Added(e), NEW s \in Ended, NEW r \in Notification, e.id = <<s, r>>
    PROVE  worker.pc = "finals" /\ runs[r].status = s /\ e.run = r
<1>0. e.id[1] = s /\ e.id[2] = r
  OBVIOUS
<1>1. e # Started(worker.run)
  <2>1. Started(worker.run).id[1] = "started"
    BY DEF Started
  <2> QED BY <1>0, <2>1 DEF Ended
<1>2. e # Batch(worker.run, worker.note, worker.next)
  <2>1. Batch(worker.run, worker.note, worker.next).id[1] = "batch"
    BY DEF Batch
  <2> QED BY <1>0, <2>1 DEF Ended
<1>3. e # Progress(worker.run, worker.note)
  <2>1. Progress(worker.run, worker.note).id[1] = "progress"
    BY DEF Progress
  <2> QED BY <1>0, <2>1 DEF Ended
<1>4. PICK x \in Notification : e = Final(x) /\ worker.pc = "finals"
  BY <1>1, <1>2, <1>3 DEF Added
<1>5. e.id[1] = runs[x].status /\ e.id[2] = x /\ e.run = x
  BY <1>4 DEF Final
<1> QED BY <1>0, <1>4, <1>5

\* The run of an added event is one that is over or the one under work.
LEMMA AddedRun ==
    ASSUME NEW e, Added(e)
    PROVE  \/ /\ worker.pc = "finals"
              /\ \E r \in Notification : /\ runs[r].status \in Ended
                                         /\ e.run = r /\ e.id = <<runs[r].status, r>>
           \/ worker.pc \in Importing /\ e.run = worker.run
<1>1. ASSUME NEW r \in Notification, runs[r].status \in Ended, e = Final(r)
      PROVE  e.run = r /\ e.id = <<runs[r].status, r>>
  BY <1>1 DEF Final
<1>2. Started(worker.run).run = worker.run
  BY DEF Started
<1>3. Batch(worker.run, worker.note, worker.next).run = worker.run
  BY DEF Batch
<1>4. Progress(worker.run, worker.note).run = worker.run
  BY DEF Progress
<1> QED BY <1>1, <1>2, <1>3, <1>4 DEF Added, Importing

\* A run is judged between two rows only.
LEMMA JudgedMoves ==
    ASSUME Typed, [Next]_vars, NEW r \in Notification, NEW s \in Ended, Has(log', <<s, r>>)
    PROVE  Has(log, <<s, r>>) \/ (worker.pc = "finals" /\ runs[r].status = s /\ UNCHANGED runs)
<1>1. PICK k \in DOMAIN log' : log'[k].id = <<s, r>>
  BY DEF Has
<1>2. CASE k \in DOMAIN log /\ log'[k] = log[k]
  BY <1>1, <1>2 DEF Has
<1>3. CASE Added(log'[k])
  <2>1. worker.pc = "finals" /\ runs[r].status = s
    BY <1>1, <1>3, AddedVerdict
  <2> QED BY <1>3, <2>1 DEF Added
<1> QED BY <1>2, <1>3, LogMoves

\* A drop that leaves rows of a run it ends is remembered, and nothing is
\* forgotten of it.
LEMMA TornMoves ==
    ASSUME Typed, [Next]_vars
    PROVE  /\ torn \subseteq torn'
           /\ EndHistoryRuns => UNCHANGED row /\
                (UNCHANGED runs \/
                 (/\ (\E n \in Notification : Pending(n) /\ Drops(n)) => "kept" \in torn'
                  /\ worker.note # NoNotification => "raced" \in torn'))
<1>1. EndHistoryRuns => torn \subseteq torn' /\ UNCHANGED row /\
                (UNCHANGED runs \/
                 (/\ (\E n \in Notification : Pending(n) /\ Drops(n)) => "kept" \in torn'
                  /\ worker.note # NoNotification => "raced" \in torn'))
  BY DEF EndHistoryRuns
<1>2. Quiet \/ UNCHANGED vars => UNCHANGED torn
  BY QuietKeeps DEF core, vars
<1>3. Tick => UNCHANGED torn
  BY DEF Tick, EmitFinals, MarkHistoryRunEmitted, ReadIdle, Wait, EmitFinal, CompleteIdle, Process, budget
<1>4. Import => UNCHANGED torn
  BY DEF Import, Download, GiveUp, EnsureRun, PublishStarted, PublishBatch, SetHistoryCursor,
         PublishProgress, PublishFails, Finish, Settle, Complete, budget
<1>5. SendReceipt \/ DiscardHistory \/ DownloadFailed \/ Crash \/ Projects => UNCHANGED torn
  BY ProjectsKeep DEF SendReceipt, DiscardHistory, DownloadFailed, Crash, core
<1>6. \A n \in Notification : Accept(n) => UNCHANGED torn
  BY DEF Accept, budget
<1> QED BY <1>1, <1>2, <1>3, <1>4, <1>5, <1>6 DEF Next, Projects, Handler, Environment, Quiet

\* The kinds of id.
LEMMA IdKinds ==
    ASSUME NEW id \in BatchIds \union OtherIds
    PROVE  /\ id \in BatchIds <=> id[1] = "batch"
           /\ id[1] \in Ended => \E r \in Notification : id = <<id[1], r>>
<1>1. CASE id \in BatchIds
  <2>1. PICK n \in Notification, i \in Nat : id = <<"batch", n, i>>
    BY <1>1 DEF BatchIds
  <2> QED BY <1>1, <2>1 DEF Ended
<1>2. CASE id \in OtherIds
  <2>1. PICK s \in {"started", "progress", "completed", "failed"}, r \in Notification : id = <<s, r>>
    BY <1>2 DEF OtherIds
  <2>2. id[1] = s /\ id[1] # "batch"
    BY <2>1
  <2>3. id \notin BatchIds
    <3> SUFFICES ASSUME id \in BatchIds PROVE FALSE
      OBVIOUS
    <3>1. PICK n \in Notification, i \in Nat : id = <<"batch", n, i>>
      BY DEF BatchIds
    <3> QED BY <2>2, <3>1
  <2> QED BY <2>1, <2>2, <2>3
<1> QED BY <1>1, <1>2

\* One event of the log is projected: a batch is counted unless the ledger has
\* it, another event sets the status and the counter reported.
Counts(e) ==
    /\ e.id \in BatchIds /\ e.id \notin ledger /\ ledger' = ledger \union {e.id}
    /\ \A r \in Notification : r # e.run => api'[r] = api[r]
    /\ api'[e.run].applied = api[e.run].applied + 1
    /\ api'[e.run].reported = api[e.run].reported
    /\ \/ api'[e.run].status = api[e.run].status
       \/ api[e.run].status = "none" /\ api'[e.run].status = "running"

Mirrors(e) ==
    /\ e.id \notin BatchIds /\ UNCHANGED ledger
    /\ \A r \in Notification : r # e.run => api'[r] = api[r]
    /\ api'[e.run].applied = api[e.run].applied
    /\ api'[e.run].reported \in {api[e.run].reported, e.batches}
    /\ IF e.id[1] \in Ended THEN api'[e.run].status = e.id[1] ELSE api'[e.run].status = "running"

\* Projecting an event counts it, mirrors it, or leaves the API as it is: the batch
\* is counted already, or the event cannot be read.
Leaves(e) ==
    /\ e.id \in BatchIds => e.id \in ledger \/ e.id \in Unreadable
    /\ UNCHANGED <<ledger, api>>

\* What the projection of event e does.
LEMMA ApplyMoves ==
    ASSUME ApiOK, NEW e \in Event, Apply(e)
    PROVE  /\ api' \in [Notification -> ApiRow]
           /\ Counts(e) \/ Mirrors(e) \/ Leaves(e)
<1>0. CASE e.id \in Unreadable
  BY <1>0 DEF Apply, Leaves, ApiOK
<1> SUFFICES ASSUME e.id \notin Unreadable
             PROVE  /\ api' \in [Notification -> ApiRow]
                    /\ Counts(e) \/ Mirrors(e) \/ Leaves(e)
  BY <1>0
<1>1. IF e.id[1] = "batch" THEN ApplyBatch(e) ELSE ApplySync(e)
  BY DEF Apply
<1>3. e.run \in Notification /\ e.batches \in Nat /\ e.id \in BatchIds \union OtherIds
  BY DEF Event
<1>4. (e.id \in BatchIds <=> e.id[1] = "batch")
  BY <1>3, IdKinds
<1>t. api \in [Notification -> ApiRow] /\ api[e.run] \in ApiRow
  BY <1>3 DEF ApiOK
<1>5. CASE e.id[1] = "batch" /\ e.id \in ledger
  <2>1. UNCHANGED <<ledger, api>>
    BY <1>1, <1>5 DEF ApplyBatch
  <2> QED BY <1>4, <1>5, <1>t, <2>1 DEF Leaves
<1>6. CASE e.id[1] = "batch" /\ e.id \notin ledger
  <2> DEFINE st == IF api[e.run].status = "none" THEN "running" ELSE api[e.run].status
             rec == [status |-> st, reported |-> api[e.run].reported,
                     applied |-> api[e.run].applied + 1]
  <2>1. ledger' = ledger \union {e.id}
        /\ api' = [api EXCEPT ![e.run].applied = @ + 1,
                              ![e.run].status = IF @ = "none" THEN "running" ELSE @]
    BY <1>1, <1>6 DEF ApplyBatch
  <2>2. api' = [api EXCEPT ![e.run] = rec]
    <3> DEFINE h == e.run
               old == api[h]
               one == [old EXCEPT !.applied = @ + 1]
               two == [one EXCEPT !.status = IF @ = "none" THEN "running" ELSE @]
    <3>1. one = [status |-> old.status, reported |-> old.reported, applied |-> old.applied + 1]
      BY <1>t DEF ApiRow
    <3>2. api' = [api EXCEPT ![h] = two]
      <4> HIDE DEF h
      <4> QED BY <1>3, <1>t, <2>1 DEF h
    <3>3. two = rec
      <4> HIDE DEF one
      <4> QED BY <3>1
    <3> QED BY <3>2, <3>3
  <2>3. rec \in ApiRow /\ rec.applied = api[e.run].applied + 1 /\ rec.reported = api[e.run].reported
        /\ rec.status = st
    BY <1>t DEF ApiRow
  <2>4. st = api[e.run].status \/ (api[e.run].status = "none" /\ st = "running")
    OBVIOUS
  <2> HIDE DEF rec, st
  <2>5. api' \in [Notification -> ApiRow] /\ api'[e.run] = rec
        /\ \A r \in Notification : r # e.run => api'[r] = api[r]
    BY <1>3, <1>t, <2>2, <2>3
  <2>6. Counts(e)
    BY <1>4, <1>6, <2>1, <2>3, <2>4, <2>5 DEF Counts
  <2> QED BY <2>5, <2>6
<1>7. CASE e.id[1] # "batch"
  <2> DEFINE st == Phase(e)
             rp == IF api[e.run].reported < e.batches THEN e.batches ELSE api[e.run].reported
             rec == [status |-> st, reported |-> rp, applied |-> api[e.run].applied]
  <2>1. UNCHANGED ledger
        /\ api' = [api EXCEPT ![e.run].status = st,
                              ![e.run].reported = IF @ < e.batches THEN e.batches ELSE @]
    BY <1>1, <1>7 DEF ApplySync
  <2>2. st \in {"running", "completed", "failed"}
        /\ IF e.id[1] \in Ended THEN st = e.id[1] ELSE st = "running"
    BY DEF Phase, Ended
  <2>3. rp \in Nat /\ rp \in {api[e.run].reported, e.batches}
    BY <1>3, <1>t DEF ApiRow
  <2> HIDE DEF st
  <2>4. api' = [api EXCEPT ![e.run] = rec]
    <3> DEFINE h == e.run
               old == api[h]
               one == [old EXCEPT !.status = st]
               two == [one EXCEPT !.reported = IF @ < e.batches THEN e.batches ELSE @]
    <3>1. one = [status |-> st, reported |-> old.reported, applied |-> old.applied]
      BY <1>t DEF ApiRow
    <3>2. api' = [api EXCEPT ![h] = two]
      <4> HIDE DEF h
      <4> QED BY <1>3, <1>t, <2>1 DEF h
    <3>3. two = rec
      <4> HIDE DEF one
      <4> QED BY <3>1
    <3> QED BY <3>2, <3>3
  <2> HIDE DEF rp
  <2>5. rec \in ApiRow /\ rec.applied = api[e.run].applied /\ rec.reported = rp /\ rec.status = st
    BY <1>t, <2>2, <2>3 DEF ApiRow
  <2> HIDE DEF rec
  <2>6. api' \in [Notification -> ApiRow] /\ api'[e.run] = rec
        /\ \A r \in Notification : r # e.run => api'[r] = api[r]
    BY <1>3, <1>t, <2>4, <2>5
  <2>7. Mirrors(e)
    BY <1>4, <1>7, <2>1, <2>2, <2>3, <2>5, <2>6 DEF Mirrors
  <2> QED BY <2>6, <2>7
<1> QED BY <1>5, <1>6, <1>7

\* The projection of one event of the log.
LEMMA ProjectMoves ==
    ASSUME Typed, ApiOK, Projects
    PROVE  /\ ApiOK'
           /\ \E k \in DOMAIN log :
                /\ log[k] \in Event /\ done' \in {done, done \union {k}}
                /\ Counts(log[k]) \/ Mirrors(log[k]) \/ Leaves(log[k])
<1>1. PICK k \in DOMAIN log : Apply(log[k]) /\ done' \in {done, done \union {k}} /\ UNCHANGED log
  BY DEF Projects, Projection, Project, ProjectLate
<1>2. log[k] \in Event
  BY DEF Typed, LogOK
<1>3. /\ api' \in [Notification -> ApiRow]
      /\ Counts(log[k]) \/ Mirrors(log[k]) \/ Leaves(log[k])
  BY <1>1, <1>2, ApplyMoves
<1>4. ApiOK'
  BY <1>1, <1>3 DEF ApiOK
<1> QED BY <1>1, <1>2, <1>3, <1>4

\* The other steps leave the API alone.
LEMMA ApiUnchanged ==
    ASSUME [Next]_vars
    PROVE  Projects \/ UNCHANGED <<done, ledger, api>>
<1>1. Quiet \/ UNCHANGED vars => UNCHANGED <<done, ledger, api>>
  BY QuietKeeps DEF vars, apiVars
<1>2. Tick => UNCHANGED <<done, ledger, api>>
  BY DEF Tick, EmitFinals, MarkHistoryRunEmitted, ReadIdle, Wait, EmitFinal, CompleteIdle, Process, apiVars
<1>3. Import => UNCHANGED <<done, ledger, api>>
  BY DEF Import, Download, GiveUp, EnsureRun, PublishStarted, PublishBatch, SetHistoryCursor,
         PublishProgress, PublishFails, Finish, Settle, Complete, apiVars
<1>4. SendReceipt \/ DiscardHistory \/ EndHistoryRuns \/ DownloadFailed \/ Crash
        => UNCHANGED <<done, ledger, api>>
  BY DEF SendReceipt, DiscardHistory, EndHistoryRuns, DownloadFailed, Crash, apiVars
<1>5. \A n \in Notification : Accept(n) => UNCHANGED <<done, ledger, api>>
  BY DEF Accept, apiVars
<1> QED BY <1>1, <1>2, <1>3, <1>4, <1>5 DEF Next, Projects, Handler, Environment, Quiet

\* Journaled verdicts stay those of the run table.
LEMMA VerdictKept ==
    ASSUME Typed, VerdictOK, [Next]_vars PROVE VerdictOK'
<1>1. ASSUME NEW r \in Notification, NEW s \in Ended, Has(log', <<s, r>>)
      PROVE  runs'[r].status = s
  <2>1. runs[r].status = s
    BY <1>1, JudgedMoves DEF VerdictOK
  <2> QED BY <2>1, RunsMove DEF Ended
<1>2. ASSUME NEW k \in DOMAIN log', NEW r \in Notification, NEW s \in Ended, log'[k].id = <<s, r>>
      PROVE  log'[k].run = r
  <2>1. CASE k \in DOMAIN log /\ log'[k] = log[k]
    BY <1>2, <2>1 DEF VerdictOK
  <2>2. CASE Added(log'[k])
    BY <1>2, <2>2, AddedVerdict
  <2> QED BY <2>1, <2>2, LogMoves
<1> QED BY <1>1, <1>2 DEF VerdictOK

\* A run that is not over is not judged.
LEMMA OpenRuns ==
    ASSUME VerdictOK, NEW r \in Notification, runs[r].status \in {"none", "running"}
    PROVE  ~Judged(log, r)
BY DEF VerdictOK, Judged, Ended

\* Away from tick no run is judged.
LEMMA JudgedStays ==
    ASSUME Typed, [Next]_vars, worker.pc # "finals", NEW r \in Notification, ~Judged(log, r)
    PROVE  ~Judged(log', r)
BY JudgedMoves DEF Judged

\* A pending row stays with a run that is not over: the worker ends no run
\* while a row of it is pending.
LEMMA PendingRunsStay ==
    ASSUME OrderInv, VerdictLast, [Next]_vars, "kept" \notin torn', NEW n \in Notification,
           row'[n].status = "pending"
    PROVE  runs'[n].status \in {"none", "running"}
<1>t. Typed
  BY DEF OrderInv
<1>1. CASE row[n].status = "none"
  <2>1. ~Begun(n)
    BY <1>1 DEF OrderInv
  <2>2. runs[n].status = "none"
    BY <2>1 DEF Begun
  <2> QED BY <1>t, <2>2, RunsMove
<1>2. CASE row[n].status = "pending"
  <2>1. runs[n].status \in {"none", "running"}
    BY <1>2 DEF VerdictLast, Pending
  <2>2. ASSUME worker.pc \in {"idle", "giveup", "complete"} PROVE runs[n].status # "running"
    <3> SUFFICES ASSUME runs[n].status = "running" PROVE FALSE
      OBVIOUS
    <3>1. Begun(n)
      BY DEF Begun
    <3>2. worker.pc \in Busy => n = worker.note
      BY <1>2, <3>1 DEF OrderInv, Pending
    <3>3. worker.pc \in {"giveup", "complete"} => ~Pending(worker.note)
      BY <1>t DEF Typed, WorkerOK
    <3>4. worker.pc = "idle" => ~Begun(n)
      BY <1>2 DEF OrderInv, Pending
    <3> QED BY <1>2, <2>2, <3>1, <3>2, <3>3, <3>4 DEF Busy, Pending
  <2>3. ASSUME EndHistoryRuns, Drops(n) PROVE runs'[n].status = runs[n].status
    <3>1. UNCHANGED runs \/ "kept" \in torn'
      BY <1>t, <1>2, <2>3, TornMoves DEF Pending
    <3> QED BY <3>1
  <2> QED BY <1>t, <2>1, <2>2, <2>3, RunsMove
<1> QED BY <1>t, <1>1, <1>2, RowsStay

\* Nothing of a run follows its verdict.
LEMMA VerdictStaysLast ==
    ASSUME OrderInv, VerdictOK, "kept" \notin torn => VerdictLast, [Next]_vars, "kept" \notin torn'
    PROVE  VerdictLast'
<1>t. Typed /\ Typed' /\ VerdictLast
  BY TypedStep, TornMoves DEF OrderInv
<1>0. /\ worker.pc \in Busy => worker.note \in Notification
      /\ worker.pc \in Importing => worker.run \in Notification
      /\ Importing \subseteq Processing /\ Processing \subseteq Busy
  BY <1>t, UnderWork
<1>v. VerdictOK'
  BY <1>t, VerdictKept
<1>1. \A n \in Notification : row'[n].status = "pending" => runs'[n].status \in {"none", "running"}
  BY <1>t, PendingRunsStay
<1>2. ASSUME worker'.pc \in {"download", "ensure"} PROVE ~Judged(log', worker'.note)
  <2>0. worker'.pc \in Busy
    BY <1>2 DEF Busy, Processing
  <2>1. CASE Proceeds
    <3>1. worker.pc \in {"download", "ensure"} /\ worker'.note = worker.note
      BY <1>2, <2>1 DEF Proceeds
    <3>2. ~Judged(log, worker.note) /\ worker.note \in Notification
      BY <1>0, <1>t, <3>1 DEF VerdictLast, Busy, Processing
    <3> QED BY <1>t, <3>1, <3>2, JudgedStays
  <2>2. ASSUME NEW n \in Notification, Takes(n) PROVE ~Judged(log', worker'.note)
    <3>1. worker'.note = n /\ runs[n].status \in {"none", "running"} /\ UNCHANGED log
      BY <1>t, <2>2 DEF Takes, First, VerdictLast
    <3> QED BY <3>1, OpenRuns
  <2> QED BY <1>t, <2>0, <2>1, <2>2, WorkerMoves
<1>3. ASSUME worker'.pc \in Importing PROVE ~Judged(log', worker'.run)
  <2>0. worker'.pc \in Busy /\ worker'.pc # "download"
    BY <1>3 DEF Busy, Processing, Importing
  <2>1. Proceeds
    BY <1>t, <2>0, WorkerMoves DEF Takes
  <2>2. CASE worker.pc \in Importing /\ worker'.run = worker.run
    <3>1. ~Judged(log, worker.run) /\ worker.run \in Notification /\ worker.pc # "finals"
      BY <1>0, <1>t, <2>2 DEF VerdictLast, Importing
    <3> QED BY <1>t, <2>2, <3>1, JudgedStays
  <2>3. CASE worker.pc = "ensure" /\ EnsureRun
    <3> DEFINE n == worker.note
               r == IF ActiveRuns(n) = {} THEN n ELSE CHOOSE y \in ActiveRuns(n) : TRUE
    <3>1. worker'.run = r /\ UNCHANGED log
      BY <1>t, <2>3, WorkerFields DEF EnsureRun
    <3>2. n \in Notification /\ ~Judged(log, n)
      BY <1>0, <1>t, <2>3 DEF VerdictLast, Busy, Processing
    <3>3. ActiveRuns(n) # {} => r \in Notification /\ runs[r].status = "running"
      BY DEF ActiveRuns
    <3>4. ActiveRuns(n) = {} => r = n
      OBVIOUS
    <3> HIDE DEF r, n
    <3>5. ~Judged(log, r)
      BY <3>2, <3>3, <3>4, OpenRuns
    <3> QED BY <3>1, <3>5
  <2> QED BY <1>3, <2>1, <2>2, <2>3 DEF Proceeds
<1>4. ASSUME NEW p \in DOMAIN log', NEW q \in DOMAIN log', NEW r \in Notification, NEW s \in Ended,
             p < q, log'[p].id = <<s, r>>
      PROVE  log'[q].run # r
  <2>0. Len(log) \in Nat /\ DOMAIN log = 1 .. Len(log) /\ DOMAIN log' \subseteq Nat
    BY <1>t DEF Typed, LogOK
  <2>1. CASE q \in DOMAIN log /\ log'[q] = log[q]
    <3>1. p \in DOMAIN log /\ log'[p] = log[p]
      BY <1>t, <1>4, <2>0, <2>1, LogMoves
    <3> QED BY <1>t, <1>4, <2>1, <3>1 DEF VerdictLast
  <2>2. CASE q = Len(log) + 1 /\ Added(log'[q])
    <3>1. p \in DOMAIN log /\ log'[p] = log[p]
      BY <1>t, <1>4, <2>0, <2>2, LogMoves
    <3>2. Has(log, <<s, r>>) /\ Judged(log, r) /\ runs[r].status = s
      BY <1>4, <3>1 DEF Has, Judged, VerdictOK
    <3>3. CASE worker.pc \in Importing /\ log'[q].run = worker.run
      BY <1>t, <3>2, <3>3 DEF VerdictLast
    <3>4. ASSUME NEW x \in Notification, log'[q].run = x, log'[q].id = <<runs[x].status, x>>
          PROVE  log'[q].run # r
      BY <2>2, <3>2, <3>4 DEF Added
    <3> QED BY <2>2, <3>3, <3>4, AddedRun
  <2> QED BY <1>t, <2>1, <2>2, LogMoves
<1> QED BY <1>1, <1>2, <1>3, <1>4 DEF VerdictLast, Pending

\* Every step keeps the invariant, and it holds at first.
LEMMA VerdictStep == VerdictInv /\ [Next]_vars => VerdictInv'
<1> SUFFICES ASSUME VerdictInv, [Next]_vars PROVE VerdictInv'
  OBVIOUS
<1>1. Typed
  BY DEF VerdictInv, OrderInv
<1>2. OrderInv' /\ VerdictOK'
  BY <1>1, OrderStep, VerdictKept DEF VerdictInv
<1>3. "kept" \notin torn' => VerdictLast'
  BY VerdictStaysLast DEF VerdictInv
<1> QED BY <1>2, <1>3 DEF VerdictInv

\* Initially no run has a verdict.
LEMMA VerdictInit == Init => VerdictInv
<1> SUFFICES ASSUME Init PROVE VerdictInv
  OBVIOUS
<1>1. log = <<>> /\ DOMAIN log = {} /\ Len(log) = 0
  BY DEF Init
<1>3. VerdictOK
  BY <1>1 DEF VerdictOK, Has
<1>4. VerdictLast
  <2>1. worker.pc = "tick" /\ \A n \in Notification : row[n].status = "none"
    BY DEF Init, Idle, NoRow
  <2> QED BY <1>1, <2>1 DEF VerdictLast, Pending, Importing
<1> QED BY <1>3, <1>4, OrderInit DEF VerdictInv

\* Nothing of a run follows its verdict in the journal, although a logout may end
\* runs while the worker imports into them (worker.drop, EndHistoryRun), unless a
\* discard that failed has kept rows of a run that the same drop ended.
THEOREM VerdictEndsTheRun == Spec => []VerdictIsLast
<1>1. VerdictInv => VerdictIsLast
  <2> SUFFICES ASSUME VerdictInv, "kept" \notin torn, NEW j \in DOMAIN log, NEW k \in DOMAIN log,
                      log[j].id \in Finals(log[k].run)
               PROVE  k <= j
    BY DEF VerdictIsLast
  <2>0. log \in Seq(Event)
    BY DEF VerdictInv, OrderInv, Typed, LogOK
  <2>a. log[k] \in Event /\ j \in Nat /\ k \in Nat
    BY <2>0
  <2>1. j \in Nat /\ k \in Nat /\ log[k].run \in Notification
    BY <2>a DEF Event
  <2>2. PICK s \in Ended : log[j].id = <<s, log[k].run>>
    BY DEF Finals, Ended
  <2>3. ~(j < k)
    BY <2>1, <2>2 DEF VerdictInv, VerdictLast
  <2> QED BY <2>1, <2>3
<1> QED BY <1>1, VerdictInit, VerdictStep, PTL DEF Spec

-----------------------------------------------------------------------------
(***************************************************************************)
(* The counters reported for a run are covered by the batches in the log,  *)
(* each applied once, waiting or unreadable.                               *)
(*                                                                         *)
(* The API counts each batch of its ledger once, for the run of the one    *)
(* event with that id.  As long as no drop has torn a run from its work,   *)
(* all the batches of a notification in work are of one running run, the   *)
(* only one of its account; the counter of the run table is therefore      *)
(* covered by the batches of notifications that are over, and the one of   *)
(* an event by the batches that come before it in the log.                 *)
(***************************************************************************)

\* The batches the API has applied to run r.
AppliedTo(r) == {id \in ledger : \E k \in DOMAIN log : log[k].id = id /\ log[k].run = r}

LedgerInv ==
    /\ ApiOK /\ Typed
    /\ IsFiniteSet(ledger) /\ ledger \subseteq BatchIds
    /\ \A id \in ledger : Has(log, id)
    /\ \A k \in done : log[k].id \in BatchIds => log[k].id \in ledger \/ log[k].id \in Unreadable
    /\ \A r \in Notification : api[r].applied = Cardinality(AppliedTo(r))

\* Position k of log l holds a batch of run r; the positions of r before p.
BatchAt(l, k, r) == l[k].id \in BatchIds /\ l[k].run = r
Before(l, p, r)  == {k \in DOMAIN l : k < p /\ BatchAt(l, k, r)}
Logged(l, r)     == {k \in DOMAIN l : BatchAt(l, k, r)}

\* The first j batches of notification n.
BatchesOf(l, n, j) == {k \in DOMAIN l : \E i \in Nat : i < j /\ l[k].id = <<"batch", n, i>>}

\* The notification may still get batches, and the batches of run r that belong
\* to one that gets no more.
InWork(n) == Pending(n) \/ (worker.pc \in Processing /\ worker.note = n)
Settled(r) == {k \in DOMAIN log : BatchAt(log, k, r) /\ ~InWork(log[k].id[2])}

\* What holds while no run is torn from its work.
OneRun ==
    /\ \A k \in DOMAIN log : log[k].id \in BatchIds /\ InWork(log[k].id[2]) =>
         /\ runs[log[k].run].status = "running"
         /\ AccountOf[log[k].run] = AccountOf[log[k].id[2]]
    /\ \A r, s \in Notification :
         runs[r].status = "running" /\ runs[s].status = "running" /\ AccountOf[r] = AccountOf[s]
           => r = s
    /\ worker.pc \in Importing => /\ runs[worker.run].status = "running"
                                  /\ AccountOf[worker.run] = AccountOf[worker.note]
    /\ worker.pc \in {"download", "ensure"} => runs[worker.note].status \in {"none", "running"}

Covered ==
    /\ \A p \in DOMAIN log : log[p].id \notin BatchIds =>
         log[p].batches <= Cardinality(Before(log, p, log[p].run))
    /\ \A r \in Notification : runs[r].batches <= Cardinality(Settled(r))
    /\ \A r \in Notification : api[r].reported <= Cardinality(Logged(log, r))

CountInv ==
    /\ JournalInv /\ VerdictInv /\ LedgerInv
    /\ torn = {} => OneRun /\ Covered

-----------------------------------------------------------------------------
\* Sets of positions are finite, and a larger one has more of them.
LEMMA PositionsFinite ==
    ASSUME NEW l \in Seq(Event), NEW T \in SUBSET (DOMAIN l), NEW S \in SUBSET T
    PROVE  /\ IsFiniteSet(S) /\ IsFiniteSet(T)
           /\ Cardinality(S) \in Nat /\ Cardinality(T) \in Nat /\ Cardinality(S) <= Cardinality(T)
<1>1. Len(l) \in Nat /\ DOMAIN l = 1 .. Len(l)
  OBVIOUS
<1>2. IsFiniteSet(1 .. Len(l))
  BY <1>1, FS_Interval
<1>3. IsFiniteSet(T)
  BY <1>1, <1>2, FS_Subset
<1>4. IsFiniteSet(S) /\ Cardinality(S) <= Cardinality(T)
  BY <1>3, FS_Subset
<1> QED BY <1>3, <1>4, FS_CardinalityType

\* A log with the first j batches of a notification has j positions of them.
LEMMA BatchesCounted ==
    ASSUME NEW l \in Seq(Event), NEW n \in Notification, NEW j \in Nat, Journaled(l, n, j)
    PROVE  j <= Cardinality(BatchesOf(l, n, j))
<1> DEFINE S == BatchesOf(l, n, j)
           f == [k \in S |-> l[k].id[3]]
<1>1. IsFiniteSet(S) /\ Cardinality(S) \in Nat
  <2>1. S \in SUBSET (DOMAIN l)
    BY DEF BatchesOf
  <2> QED BY <2>1, PositionsFinite
<1>2. \A k \in S : l[k].id[3] \in 0 .. j - 1
  <2> SUFFICES ASSUME NEW k \in S PROVE l[k].id[3] \in 0 .. j - 1
    OBVIOUS
  <2>1. PICK i \in Nat : i < j /\ l[k].id = <<"batch", n, i>>
    BY DEF BatchesOf
  <2>2. l[k].id[3] = i
    BY <2>1
  <2> QED BY <2>1, <2>2
<1>3. ASSUME NEW i \in 0 .. j - 1 PROVE \E k \in S : l[k].id[3] = i
  <2>1. i \in Nat /\ i < j
    BY <1>3
  <2>2. PICK k \in DOMAIN l : l[k].id = <<"batch", n, i>>
    BY <2>1 DEF Journaled, Has
  <2>3. k \in S
    BY <2>1, <2>2 DEF BatchesOf
  <2>4. l[k].id[3] = i
    BY <2>2
  <2> QED BY <2>3, <2>4
<1> HIDE DEF S
<1>4. f \in [S -> 0 .. j - 1]
  BY <1>2
<1>5. \A i \in 0 .. j - 1 : \E k \in S : f[k] = i
  BY <1>3
<1>6. f \in Surjection(S, 0 .. j - 1)
  BY <1>4, <1>5 DEF Surjection
<1> HIDE DEF f
<1>7. Cardinality(0 .. j - 1) <= Cardinality(S)
  BY <1>1, <1>6, FS_Surjection
<1>8. Cardinality(0 .. j - 1) = j
  <2>1. 0 \in Int /\ j - 1 \in Int
    OBVIOUS
  <2>2. Cardinality(0 .. j - 1) = IF 0 > j - 1 THEN 0 ELSE (j - 1) - 0 + 1
    BY <2>1, FS_Interval
  <2> QED BY <2>2
<1> QED BY <1>7, <1>8 DEF S

\* Disjoint sets of positions add up.
LEMMA PositionsAdd ==
    ASSUME NEW l \in Seq(Event), NEW S \in SUBSET (DOMAIN l), NEW T \in SUBSET (DOMAIN l),
           NEW U \in SUBSET (DOMAIN l), S \subseteq U, T \subseteq U, S \cap T = {}
    PROVE  Cardinality(S) + Cardinality(T) <= Cardinality(U)
<1>1. IsFiniteSet(S) /\ IsFiniteSet(T) /\ Cardinality(S) \in Nat /\ Cardinality(T) \in Nat
      /\ Cardinality(U) \in Nat
  BY PositionsFinite
<1>2. Cardinality(S \union T) = Cardinality(S) + Cardinality(T) - Cardinality(S \cap T)
  BY <1>1, FS_Union
<1>3. Cardinality(S \cap T) = 0
  BY FS_EmptySet
<1>4. Cardinality(S \union T) <= Cardinality(U)
  BY PositionsFinite
<1> QED BY <1>1, <1>2, <1>3, <1>4

\* The API counts each batch it applies once, for the run of its event.
LEMMA LedgerStep ==
    ASSUME LedgerInv, [Next]_vars
    PROVE  LedgerInv'
<1>t. Typed /\ Typed'
  BY TypedStep DEF LedgerInv
<1>u. /\ \A j, k \in DOMAIN log : log[j].id = log[k].id => j = k
      /\ \A j, k \in DOMAIN log' : log'[j].id = log'[k].id => j = k
      /\ DOMAIN log \subseteq Nat
  BY <1>t DEF Typed, LogOK
<1>g. /\ \A k \in DOMAIN log : k \in DOMAIN log' /\ log'[k] = log[k]
      /\ \A id : Has(log, id) => Has(log', id)
  BY <1>t, LogGrows
<1>1. CASE UNCHANGED <<done, ledger, api>>
  <2>1. \A r \in Notification : AppliedTo(r)' = AppliedTo(r)
    <3> SUFFICES ASSUME NEW r \in Notification, NEW id \in ledger
                 PROVE  (\E k \in DOMAIN log' : log'[k].id = id /\ log'[k].run = r)
                          <=> (\E k \in DOMAIN log : log[k].id = id /\ log[k].run = r)
      BY <1>1 DEF AppliedTo
    <3>1. PICK j \in DOMAIN log : log[j].id = id
      BY DEF LedgerInv, Has
    <3>2. \A k \in DOMAIN log' : log'[k].id = id => k = j
      BY <1>u, <1>g, <3>1
    <3> QED BY <1>g, <3>1, <3>2
  <2>2. ApiOK'
    BY <1>1, <1>g DEF LedgerInv, ApiOK
  <2>3. \A k \in done' : log'[k] = log[k]
    BY <1>1, <1>g DEF LedgerInv, ApiOK
  <2> QED BY <1>1, <1>t, <1>g, <2>1, <2>2, <2>3 DEF LedgerInv
<1>2. CASE Projects
  <2>0. ApiOK' /\ UNCHANGED log
    BY <1>2, <1>t, ProjectMoves, ProjectsKeep DEF LedgerInv, core
  <2>1. PICK p \in DOMAIN log :
          /\ log[p] \in Event /\ done' \in {done, done \union {p}}
          /\ Counts(log[p]) \/ Mirrors(log[p]) \/ Leaves(log[p])
    BY <1>2, <1>t, ProjectMoves DEF LedgerInv
  <2> DEFINE e == log[p]
  <2>a. /\ IsFiniteSet(ledger) /\ ledger \subseteq BatchIds
        /\ \A id \in ledger : Has(log, id)
        /\ \A k \in done : log[k].id \in BatchIds => log[k].id \in ledger \/ log[k].id \in Unreadable
        /\ \A r \in Notification : api[r].applied = Cardinality(AppliedTo(r))
    BY DEF LedgerInv
  <2>r. e.run \in Notification
    BY <2>1 DEF Event
  <2>2. CASE Counts(e)
    <3>1. ledger' = ledger \union {e.id} /\ e.id \in BatchIds /\ e.id \notin ledger
      BY <2>2 DEF Counts
    <3>2. IsFiniteSet(ledger') /\ ledger' \subseteq BatchIds
      BY <2>a, <3>1, FS_AddElement
    <3>3. \A id \in ledger' : Has(log', id)
      BY <2>0, <2>a, <3>1 DEF Has
    <3>4. \A k \in done' : log'[k].id \in BatchIds => log'[k].id \in ledger' \/ log'[k].id \in Unreadable
      BY <2>0, <2>1, <2>a, <3>1
    <3>5. ASSUME NEW r \in Notification PROVE api'[r].applied = Cardinality(AppliedTo(r)')
      <4>1. CASE r = e.run
        <5>1. AppliedTo(r)' = AppliedTo(r) \union {e.id} /\ e.id \notin AppliedTo(r)
          BY <2>0, <2>1, <3>1, <4>1 DEF AppliedTo
        <5>2. IsFiniteSet(AppliedTo(r))
          BY <2>a, FS_Subset DEF AppliedTo
        <5>3. Cardinality(AppliedTo(r) \union {e.id}) = Cardinality(AppliedTo(r)) + 1
          BY <5>1, <5>2, FS_AddElement
        <5>4. api'[r].applied = api[r].applied + 1
          BY <2>2, <4>1 DEF Counts
        <5> QED BY <2>a, <5>1, <5>3, <5>4
      <4>2. CASE r # e.run
        <5>1. \A k \in DOMAIN log : log[k].id = e.id => log[k].run # r
          BY <1>u, <2>1, <4>2
        <5>2. AppliedTo(r)' = AppliedTo(r)
          BY <2>0, <3>1, <5>1 DEF AppliedTo
        <5>3. api'[r] = api[r]
          BY <2>2, <4>2 DEF Counts
        <5> QED BY <2>a, <5>2, <5>3
      <4> QED BY <4>1, <4>2
    <3> QED BY <1>t, <2>0, <3>2, <3>3, <3>4, <3>5 DEF LedgerInv
  <2>3. CASE Mirrors(e) \/ Leaves(e)
    <3>1. UNCHANGED ledger /\ (e.id \in BatchIds => e.id \in ledger \/ e.id \in Unreadable)
      BY <2>3 DEF Mirrors, Leaves
    <3>2. \A r \in Notification : api'[r].applied = api[r].applied
      BY <2>3, <2>r DEF Mirrors, Leaves
    <3>3. \A k \in done' : log'[k].id \in BatchIds => log'[k].id \in ledger' \/ log'[k].id \in Unreadable
      BY <2>0, <2>1, <2>a, <3>1
    <3>4. \A r \in Notification : AppliedTo(r)' = AppliedTo(r)
      BY <2>0, <3>1 DEF AppliedTo
    <3> QED BY <1>t, <2>0, <2>a, <3>1, <3>2, <3>3, <3>4 DEF LedgerInv, Has
  <2> QED BY <2>1, <2>2, <2>3
<1> QED BY <1>1, <1>2, ApiUnchanged

\* The batches of a run that are in the log are missing, or applied.
LEMMA LoggedIsAccounted ==
    ASSUME LedgerInv, NEW r \in Notification
    PROVE  /\ Cardinality(Logged(log, r)) <= api[r].applied + Cardinality(Missing(r))
           /\ \A k \in Missing(r) : k \notin done \/ log[k].id \in Unreadable
<1> DEFINE M == Missing(r)
           S == Logged(log, r) \ M
           T == AppliedTo(r)
           f == [k \in S |-> log[k].id]
<1>0. /\ api[r].applied = Cardinality(T) /\ IsFiniteSet(T) /\ log \in Seq(Event)
  BY FS_Subset DEF LedgerInv, AppliedTo, Typed, LogOK
<1>b. \A k \in DOMAIN log : log[k].id \in BatchIds \union OtherIds
  <2>1. \A k \in DOMAIN log : log[k] \in Event
    BY <1>0
  <2> QED BY <2>1 DEF Event
<1>1. \A k \in DOMAIN log : log[k].id \in BatchIds <=> log[k].id[1] = "batch"
  BY <1>b, IdKinds
<1>2. M \subseteq Logged(log, r) /\ \A k \in M : log[k].id \notin ledger /\ log[k].id \in BatchIds
  BY <1>1 DEF Missing, Logged, BatchAt
<1>3. \A k \in S : k \in DOMAIN log /\ log[k].id \in T
  BY <1>1 DEF Missing, Logged, BatchAt, AppliedTo
<1>4. \A j, k \in S : log[j].id = log[k].id => j = k
  BY <1>3 DEF LedgerInv, Typed, LogOK
<1>5. \A k \in M : k \notin done \/ log[k].id \in Unreadable
  BY <1>2 DEF LedgerInv
<1>6. /\ S \in SUBSET (DOMAIN log) /\ M \in SUBSET (DOMAIN log)
      /\ Logged(log, r) \in SUBSET (DOMAIN log) /\ S \union M = Logged(log, r) /\ S \cap M = {}
  BY <1>2 DEF Logged
<1> HIDE DEF S, T, M
<1>7. f \in [S -> T] /\ \A j, k \in S : f[j] = f[k] => j = k
  BY <1>3, <1>4
<1>8. f \in Injection(S, T)
  BY <1>7, Fun_IsInj
<1>9. Cardinality(S) <= Cardinality(T)
  <2> HIDE DEF f
  <2> QED BY <1>0, <1>8, FS_Injection
<1>10. /\ IsFiniteSet(S) /\ IsFiniteSet(M) /\ Cardinality(S) \in Nat /\ Cardinality(M) \in Nat
       /\ Cardinality(T) \in Nat
  BY <1>0, <1>6, PositionsFinite, FS_CardinalityType
<1>11. Cardinality(Logged(log, r)) = Cardinality(S) + Cardinality(M)
  <2>1. Cardinality(S \union M) = Cardinality(S) + Cardinality(M) - Cardinality(S \cap M)
    BY <1>10, FS_Union
  <2>2. Cardinality(S \cap M) = 0
    BY <1>6, FS_EmptySet
  <2> HIDE DEF f
  <2>3. Cardinality(S \union M) = Cardinality(S) + Cardinality(M)
    BY <1>10, <2>1, <2>2
  <2> QED BY <1>6, <2>3
<1>12. Cardinality(Logged(log, r)) <= api[r].applied + Cardinality(M)
  BY <1>0, <1>9, <1>10, <1>11
<1> QED BY <1>5, <1>12 DEF M

\* A notification in work after a step was so before, or is new.
LEMMA InWorkMoves ==
    ASSUME OrderInv, [Next]_vars, NEW n \in Notification, InWork(n)'
    PROVE  InWork(n) \/ ~Begun(n)
<1>t. Typed
  BY DEF OrderInv
<1>1. CASE row'[n].status = "pending"
  <2>1. row[n].status = "pending" \/ row[n].status = "none"
    BY <1>t, <1>1, RowsStay
  <2> QED BY <2>1 DEF InWork, Pending, OrderInv
<1>2. CASE worker'.pc \in Processing /\ worker'.note = n
  <2>1. worker'.pc \in Busy
    BY <1>2 DEF Busy
  <2>2. CASE Proceeds
    BY <1>2, <2>2 DEF Proceeds, InWork
  <2>3. ASSUME NEW m \in Notification, Takes(m) PROVE InWork(n)
    BY <1>2, <2>3 DEF Takes, First, InWork
  <2> QED BY <1>t, <2>1, <2>2, <2>3, WorkerMoves
<1> QED BY <1>1, <1>2 DEF InWork, Pending

\* A notification with a batch in the log is begun.
LEMMA BatchIsBegun ==
    ASSUME Typed, NEW k \in DOMAIN log, log[k].id \in BatchIds
    PROVE  log[k].id[2] \in Notification /\ Begun(log[k].id[2])
<1>1. PICK n \in Notification, i \in Nat : log[k].id = <<"batch", n, i>>
  BY DEF BatchIds
<1>2. log[k].id[2] = n
  BY <1>1
<1>3. Has(log, <<"batch", n, i>>)
  BY <1>1 DEF Has
<1> QED BY <1>2, <1>3 DEF Begun

\* A run that ends in a step which tears nothing has no notification in work.
LEMMA RunningStays ==
    ASSUME OrderInv, [Next]_vars, torn' = {},
           NEW r \in Notification, runs[r].status = "running",
           NEW n \in Notification, Begun(n), InWork(n), AccountOf[r] = AccountOf[n]
    PROVE  runs'[r].status = "running"
<1>t. Typed
  BY DEF OrderInv
<1>1. worker.pc \notin {"idle", "giveup", "complete"}
  <2> SUFFICES ASSUME worker.pc \in {"idle", "giveup", "complete"} PROVE FALSE
    OBVIOUS
  <2>1. Pending(n)
    BY DEF InWork, Processing
  <2>2. worker.pc \in {"giveup", "complete"} => n = worker.note /\ ~Pending(worker.note)
    BY <1>t, <2>1 DEF OrderInv, Typed, WorkerOK, Busy
  <2>3. worker.pc = "idle" => ~Begun(n)
    BY <2>1 DEF OrderInv
  <2> QED BY <2>1, <2>2, <2>3
<1>2. EndHistoryRuns /\ Drops(r) => UNCHANGED runs
  <2> SUFFICES ASSUME EndHistoryRuns, Drops(r), ~(UNCHANGED runs) PROVE FALSE
    OBVIOUS
  <2>1. worker.note = NoNotification /\ ~(Pending(n) /\ Drops(n))
    BY <1>t, TornMoves
  <2>2. worker.pc \notin Processing
    BY <1>t, <2>1, UnderWork, HistoryAssumption
  <2>3. Pending(n)
    BY <2>2 DEF InWork
  <2>4. Drops(n)
    BY DEF Drops
  <2> QED BY <2>1, <2>3, <2>4
<1> QED BY <1>t, <1>1, <1>2, RunsMove DEF Ended

\* The same for the run of the notification under work.
LEMMA WorkersRunStays ==
    ASSUME Typed, [Next]_vars, torn' = {}, worker.pc \in Processing,
           NEW r \in Notification, runs[r].status = "running"
    PROVE  runs'[r].status = "running"
<1>1. worker.pc \notin {"idle", "giveup", "complete"}
  BY DEF Processing
<1>2. worker.note \in Notification
  BY UnderWork
<1>3. EndHistoryRuns => UNCHANGED runs
  BY <1>2, TornMoves, HistoryAssumption
<1> QED BY <1>1, <1>3, RunsMove DEF Ended

\* All the batches of a notification in work stay with one running run.
LEMMA OneRunStep ==
    ASSUME VerdictInv, OneRun, [Next]_vars, torn = {}, torn' = {}
    PROVE  OneRun'
<1>t. OrderInv /\ Typed /\ Typed' /\ VerdictLast
  BY TypedStep DEF VerdictInv, OrderInv
<1>0. /\ worker.pc \in Busy => worker.note \in Notification
      /\ worker.pc \in Importing => worker.run \in Notification
      /\ Importing \subseteq Processing /\ Processing \subseteq Busy
  BY <1>t, UnderWork
<1>1. ASSUME NEW k \in DOMAIN log', log'[k].id \in BatchIds, InWork(log[k].id[2])'
      PROVE  /\ runs'[log'[k].run].status = "running"
             /\ AccountOf[log'[k].run] = AccountOf[log'[k].id[2]]
  <2>1. CASE k \in DOMAIN log /\ log'[k] = log[k]
    <3> DEFINE n == log[k].id[2]
               r == log[k].run
    <3>0. log[k].id \in BatchIds /\ r \in Notification
      <4>1. log[k] \in Event
        BY <1>t, <2>1 DEF Typed, LogOK
      <4> QED BY <1>1, <2>1, <4>1 DEF Event
    <3>1. n \in Notification /\ Begun(n) /\ r \in Notification
      BY <1>t, <2>1, <3>0, BatchIsBegun
    <3>2. log'[k].id[2] = n /\ log'[k].run = r /\ log[k].id \in BatchIds
      BY <1>1, <2>1
    <3>3. \A m \in Notification : m = n => InWork(m)'
      BY <1>1, <3>2
    <3>4. InWork(n) => runs[r].status = "running" /\ AccountOf[r] = AccountOf[n]
      BY <2>1, <3>2 DEF OneRun
    <3> HIDE DEF n, r
    <3>5. InWork(n)
      BY <1>t, <3>1, <3>3, InWorkMoves
    <3>6. runs'[r].status = "running"
      BY <1>t, <3>1, <3>4, <3>5, RunningStays
    <3> QED BY <3>2, <3>4, <3>5, <3>6
  <2>2. CASE Added(log'[k])
    <3>1. log'[k].id[1] = "batch"
      <4>1. log'[k].id \in BatchIds \union OtherIds
        BY <1>1
      <4> QED BY <1>1, <4>1, IdKinds
    <3>2. worker.pc = "batch" /\ log'[k] = Batch(worker.run, worker.note, worker.next)
      <4>1. \A r \in Notification : runs[r].status \in Ended => log'[k] # Final(r)
        <5> SUFFICES ASSUME NEW r \in Notification, runs[r].status \in Ended, log'[k] = Final(r)
                     PROVE  FALSE
          OBVIOUS
        <5>1. Final(r).id[1] = runs[r].status
          BY DEF Final
        <5> QED BY <3>1, <5>1 DEF Ended
      <4>2. Started(worker.run).id[1] = "started"
        BY DEF Started
      <4>3. Progress(worker.run, worker.note).id[1] = "progress"
        BY DEF Progress
      <4> QED BY <2>2, <3>1, <4>1, <4>2, <4>3 DEF Added
    <3>3. log'[k].run = worker.run /\ log'[k].id[2] = worker.note
      BY <3>2 DEF Batch
    <3>4. UNCHANGED runs
      BY <2>2 DEF Added
    <3> QED BY <3>2, <3>3, <3>4 DEF OneRun, Importing
  <2> QED BY <1>t, <2>1, <2>2, LogMoves
<1>2. ASSUME NEW r \in Notification, NEW s \in Notification, runs'[r].status = "running",
             runs'[s].status = "running", AccountOf[r] = AccountOf[s]
      PROVE  r = s
  <2>1. runs[r].status = "running" \/ (r = worker.note /\ ActiveRuns(r) = {})
    BY <1>t, <1>2, RunsMove DEF Ended
  <2>2. runs[s].status = "running" \/ (s = worker.note /\ ActiveRuns(s) = {})
    BY <1>t, <1>2, RunsMove DEF Ended
  <2> QED BY <1>2, <2>1, <2>2 DEF OneRun, ActiveRuns
<1>3. ASSUME worker'.pc \in Importing
      PROVE  /\ runs'[worker'.run].status = "running"
             /\ AccountOf[worker'.run] = AccountOf[worker'.note]
  <2>0. worker'.pc \in Busy /\ worker'.pc # "download"
    BY <1>3 DEF Busy, Processing, Importing
  <2>1. Proceeds
    BY <1>t, <2>0, WorkerMoves DEF Takes
  <2>2. CASE worker.pc \in Importing /\ worker'.run = worker.run
    <3>1. worker.run \in Notification /\ worker.pc \in Processing /\ worker'.note = worker.note
      BY <1>0, <2>1, <2>2 DEF Proceeds
    <3>2. runs[worker.run].status = "running" /\ AccountOf[worker.run] = AccountOf[worker.note]
      BY <2>2 DEF OneRun
    <3>3. runs'[worker.run].status = "running"
      BY <1>t, <3>1, <3>2, WorkersRunStays
    <3> QED BY <2>2, <3>1, <3>2, <3>3
  <2>3. CASE worker.pc = "ensure" /\ EnsureRun
    <3> DEFINE n == worker.note
               r == IF ActiveRuns(n) = {} THEN n ELSE CHOOSE y \in ActiveRuns(n) : TRUE
    <3>1. /\ worker'.run = r /\ worker'.note = n
          /\ runs' = IF runs[r].status = "none" THEN [runs EXCEPT ![r].status = "running"] ELSE runs
      BY <1>t, <2>3, WorkerFields DEF EnsureRun
    <3>2. n \in Notification /\ runs[n].status \in {"none", "running"}
      BY <1>0, <2>3 DEF OneRun, Busy, Processing
    <3>3. ActiveRuns(n) # {} => r \in Notification /\ runs[r].status = "running"
                                /\ AccountOf[r] = AccountOf[n]
      BY DEF ActiveRuns
    <3>4. ActiveRuns(n) = {} => r = n /\ runs[n].status = "none"
      BY <3>2 DEF ActiveRuns
    <3> HIDE DEF r, n
    <3>5. CASE ActiveRuns(n) # {}
      BY <3>1, <3>3, <3>5
    <3>6. CASE ActiveRuns(n) = {}
      <4>1. runs'[r].status = "running"
        BY <1>t, <3>1, <3>2, <3>4, <3>6, RunUpdate
      <4> QED BY <3>1, <3>4, <3>6, <4>1
    <3> QED BY <3>5, <3>6
  <2> QED BY <1>3, <2>1, <2>2, <2>3 DEF Proceeds
<1>4. ASSUME worker'.pc \in {"download", "ensure"}
      PROVE  runs'[worker'.note].status \in {"none", "running"}
  <2>0. worker'.pc \in Busy
    BY <1>4 DEF Busy, Processing
  <2>1. CASE Proceeds
    <3>1. worker.pc \in {"download", "ensure"} /\ worker'.note = worker.note
      BY <1>4, <2>1 DEF Proceeds
    <3>2. worker.pc \in Processing /\ worker.note \in Notification
      BY <1>0, <3>1 DEF Processing
    <3>3. runs[worker.note].status \in {"none", "running"}
      BY <3>1 DEF OneRun
    <3>4. runs[worker.note].status = "none" => runs'[worker.note].status \in {"none", "running"}
      BY <1>t, <3>2, RunsMove
    <3>5. runs[worker.note].status = "running" => runs'[worker.note].status = "running"
      BY <1>t, <3>2, WorkersRunStays
    <3> QED BY <3>1, <3>3, <3>4, <3>5
  <2>2. ASSUME NEW n \in Notification, Takes(n) PROVE runs'[worker'.note].status \in {"none", "running"}
    BY <1>t, <2>2 DEF Takes, First, VerdictLast
  <2> QED BY <1>t, <2>0, <2>1, <2>2, WorkerMoves
<1> QED BY <1>1, <1>2, <1>3, <1>4 DEF OneRun

\* The counter of a run moves only when the notification under work is over.
LEMMA BatchesMove ==
    ASSUME Typed, [Next]_vars, NEW r \in Notification
    PROVE  \/ runs'[r].batches = runs[r].batches
           \/ /\ worker.pc = "finish" /\ r = worker.run /\ UNCHANGED log
              /\ row'[worker.note].status # "pending" /\ worker'.pc \notin Processing
              /\ runs'[r].batches = runs[r].batches + PartsOf[worker.note]
<1>1. CASE Quiet
  BY <1>1, QuietKeeps DEF core
<1>2. CASE MarkHistoryRunEmitted
  <2>1. worker.run \in Notification
    BY <1>2 DEF MarkHistoryRunEmitted, Typed, WorkerOK
  <2> QED BY <1>2, <2>1 DEF MarkHistoryRunEmitted, Typed, Run
<1>3. ASSUME NEW x \in Notification, NEW s \in Ended, EndHistoryRun(x, s)
      PROVE  runs'[r].batches = runs[r].batches
  BY <1>3, RunEnd
<1>4. "completed" \in Ended /\ "failed" \in Ended
  BY DEF Ended
<1>5. CASE EnsureRun
  <2> DEFINE n == worker.note
             x == IF ActiveRuns(n) = {} THEN n ELSE CHOOSE y \in ActiveRuns(n) : TRUE
  <2>1. runs' = IF runs[x].status = "none" THEN [runs EXCEPT ![x].status = "running"] ELSE runs
    BY <1>5 DEF EnsureRun
  <2>2. n \in Notification
    BY <1>5, UnderWork DEF EnsureRun, Processing
  <2>3. x \in Notification
    BY <2>2 DEF ActiveRuns
  <2> HIDE DEF n, x
  <2>4. CASE runs[x].status = "none"
    BY <2>1, <2>3, <2>4, RunUpdate
  <2> QED BY <2>1, <2>4
<1>6. CASE Finish
  <2>1. worker.run \in Notification /\ worker.note \in Notification /\ worker.pc = "finish"
    BY <1>6, UnderWork DEF Finish, Importing, Processing, Busy
  <2>2. UNCHANGED log
    BY <1>6 DEF Finish
  <2>3. CASE UNCHANGED runs
    BY <2>3
  <2>4. CASE /\ FinishHistory(worker.note, "done")
             /\ runs' = [runs EXCEPT ![worker.run].chunks = @ + 1,
                                     ![worker.run].batches = @ + PartsOf[worker.note]]
             /\ GoTo("settle") \/ worker' = Idle
    <3>1. row'[worker.note].status # "pending"
      BY <2>1, <2>4, RowFinish
    <3>2. worker'.pc \notin Processing
      <4>1. CASE worker' = Idle
        BY <4>1 DEF Idle, Processing
      <4>2. CASE GoTo("settle")
        <5>1. worker'.pc = "settle"
          BY <4>2, WorkerFields DEF GoTo
        <5> QED BY <5>1 DEF Processing
      <4> QED BY <2>4, <4>1, <4>2
    <3>3. /\ r = worker.run => runs'[r].batches = runs[r].batches + PartsOf[worker.note]
          /\ r # worker.run => runs'[r] = runs[r]
      BY <2>1, <2>4 DEF Typed, Run
    <3> QED BY <2>1, <2>2, <3>1, <3>2, <3>3
  <2> QED BY <1>6, <2>3, <2>4 DEF Finish
<1>7. CASE EndHistoryRuns
  BY <1>7 DEF EndHistoryRuns, Typed, Run
<1>8. UNCHANGED vars => UNCHANGED runs
  BY DEF vars
<1>9. CASE Tick
  <2>1. UNCHANGED runs \/ MarkHistoryRunEmitted
        \/ \E m \in Notification : EndHistoryRun(m, "completed")
    BY <1>9 DEF Tick, EmitFinals, ReadIdle, Wait, EmitFinal, Process, CompleteIdle, store
  <2> QED BY <1>2, <1>3, <1>4, <2>1
<1>10. CASE Import
  <2>1. UNCHANGED runs \/ GiveUp \/ EnsureRun \/ Finish \/ Complete
    BY <1>10 DEF Import, Download, PublishStarted, PublishBatch, PublishProgress, SetHistoryCursor,
                 PublishFails, Settle, store
  <2>2. GiveUp => UNCHANGED runs \/ \E x \in Notification : EndHistoryRun(x, "failed")
    BY DEF GiveUp, ActiveRuns
  <2>3. Complete => \E x \in Notification : EndHistoryRun(x, "completed")
    BY UnderWork DEF Complete
  <2> QED BY <1>3, <1>4, <1>5, <1>6, <2>1, <2>2, <2>3
<1>11. CASE Handler
  <2>1. UNCHANGED runs \/ EndHistoryRuns
    BY <1>11 DEF Handler, SendReceipt, DiscardHistory, Accept, store
  <2> QED BY <1>7, <2>1
<1>12. CASE Crash \/ DownloadFailed \/ Projects
  BY <1>12, ProjectsKeep DEF Crash, DownloadFailed, core, store
<1> QED BY <1>1, <1>8, <1>9, <1>10, <1>11, <1>12 DEF Next, Projects, Environment, Quiet

\* When all the batches of the notification under work are journaled, the
\* counter of its run has room for them: they are not settled yet.
LEMMA RoomForBatches ==
    ASSUME JournalInv, OneRun, Covered, worker.pc \in {"batch", "finish"},
           worker.pc = "batch" => worker.next = PartsOf[worker.note],
           NEW l \in Seq(Event), NEW U \in SUBSET (DOMAIN l), DOMAIN log \subseteq DOMAIN l,
           \A k \in DOMAIN log : BatchAt(log, k, worker.run) => k \in U
    PROVE  runs[worker.run].batches + PartsOf[worker.note] <= Cardinality(U)
<1> DEFINE n == worker.note
           r == worker.run
           N == BatchesOf(log, n, PartsOf[n])
           S == Settled(r)
<1>t. Typed /\ log \in Seq(Event) /\ DOMAIN log \subseteq Nat
  BY DEF JournalInv, Typed, LogOK
<1>0. n \in Notification /\ r \in Notification /\ worker.pc \in Importing /\ worker.pc \in Processing
  BY <1>t, UnderWork DEF Importing, Processing, Busy
<1>1. PartsOf[n] \in Nat /\ runs[r].batches \in Nat
  BY <1>t, <1>0, HistoryAssumption DEF Typed, Run
<1>2. Journaled(log, n, PartsOf[n])
  BY DEF JournalInv, PositionOK
<1>3. ASSUME NEW k \in N
      PROVE  /\ k \in DOMAIN log /\ log[k].id \in BatchIds /\ log[k].id[2] = n
             /\ log[k].run \in Notification
  <2>1. PICK i \in Nat : k \in DOMAIN log /\ log[k].id = <<"batch", n, i>>
    BY DEF BatchesOf
  <2>2. log[k] \in Event
    BY <1>t, <2>1
  <2>3. log[k].id \in BatchIds
    BY <1>0, <2>1 DEF BatchIds
  <2>4. log[k].id[2] = n
    BY <2>1
  <2> QED BY <2>1, <2>2, <2>3, <2>4 DEF Event
<1>4. InWork(n)
  BY <1>0 DEF InWork
<1>5. ASSUME NEW k \in N PROVE BatchAt(log, k, r) /\ k \notin S
  <2>1. runs[log[k].run].status = "running" /\ AccountOf[log[k].run] = AccountOf[n]
    BY <1>3, <1>4 DEF OneRun
  <2>2. runs[r].status = "running" /\ AccountOf[r] = AccountOf[n]
    BY <1>0 DEF OneRun
  <2>3. log[k].run = r
    BY <1>0, <1>3, <2>1, <2>2 DEF OneRun
  <2>4. k \notin S
    BY <1>3, <1>4 DEF Settled
  <2> QED BY <1>3, <2>3, <2>4 DEF BatchAt
<1>6. PartsOf[n] <= Cardinality(N)
  BY <1>t, <1>0, <1>1, <1>2, BatchesCounted
<1>7. runs[r].batches <= Cardinality(S)
  BY <1>0 DEF Covered
<1>8. N \in SUBSET (DOMAIN log) /\ S \in SUBSET (DOMAIN log)
  BY DEF BatchesOf, Settled
<1>9. \A k \in S : BatchAt(log, k, r)
  BY DEF Settled
<1> HIDE DEF N, S
<1>10. N \subseteq U /\ S \subseteq U /\ S \cap N = {} /\ N \in SUBSET (DOMAIN l)
       /\ S \in SUBSET (DOMAIN l)
  BY <1>5, <1>8, <1>9
<1>11. Cardinality(S) + Cardinality(N) <= Cardinality(U)
  BY <1>10, PositionsAdd
<1>12. Cardinality(S) \in Nat /\ Cardinality(N) \in Nat /\ Cardinality(U) \in Nat
  BY <1>10, PositionsFinite
<1> QED BY <1>1, <1>6, <1>7, <1>11, <1>12

\* What is settled stays settled.
LEMMA SettledGrows ==
    ASSUME OrderInv, [Next]_vars, NEW r \in Notification
    PROVE  Settled(r) \subseteq Settled(r)'
<1> SUFFICES ASSUME NEW k \in Settled(r) PROVE k \in Settled(r)'
  OBVIOUS
<1> DEFINE n == log[k].id[2]
<1>t. Typed
  BY DEF OrderInv
<1>1. k \in DOMAIN log /\ BatchAt(log, k, r) /\ ~InWork(n)
  BY DEF Settled
<1>2. n \in Notification /\ Begun(n)
  BY <1>t, <1>1, BatchIsBegun DEF BatchAt
<1>3. k \in DOMAIN log' /\ log'[k] = log[k]
  BY <1>t, <1>1, LogGrows
<1>4. \A m \in Notification : m = n => ~InWork(m)'
  BY <1>1, <1>2, InWorkMoves
<1>5. \A m \in Notification : m = n =>
         ~(row'[m].status = "pending" \/ (worker'.pc \in Processing /\ worker'.note = m))
  BY <1>4 DEF InWork, Pending
<1>6. /\ BatchAt(log', k, r)
      /\ ~(row'[log'[k].id[2]].status = "pending"
           \/ (worker'.pc \in Processing /\ worker'.note = log'[k].id[2]))
  BY <1>1, <1>2, <1>3, <1>5 DEF BatchAt
<1> QED BY <1>3, <1>6 DEF Settled, InWork, Pending

\* The counter of an event is covered by the batches before it in the log: the
\* event of a run that is over counts what is settled, and the progress of a
\* notification its own batches too.
LEMMA EventsCovered ==
    ASSUME JournalInv, OneRun, Covered, [Next]_vars,
           NEW p \in DOMAIN log', log'[p].id \notin BatchIds
    PROVE  log'[p].batches <= Cardinality(Before(log', p, log'[p].run))
<1>t. Typed /\ Typed' /\ log \in Seq(Event) /\ log' \in Seq(Event)
  BY TypedStep DEF JournalInv, Typed, LogOK
<1>l. Len(log) \in Nat /\ DOMAIN log = 1 .. Len(log) /\ DOMAIN log' \subseteq Nat
  BY <1>t
<1>g. \A k \in DOMAIN log : k \in DOMAIN log' /\ log'[k] = log[k]
  BY <1>t, LogGrows
<1>1. CASE p \in DOMAIN log /\ log'[p] = log[p]
  <2>1. Before(log', p, log[p].run) = Before(log, p, log[p].run)
    <3>1. \A k \in DOMAIN log' : k < p => k \in DOMAIN log
      <4>1. DOMAIN log' = 1 .. Len(log') /\ Len(log') \in Nat
        BY <1>t
      <4> QED BY <1>l, <1>1, <4>1
    <3> QED BY <1>g, <3>1 DEF Before, BatchAt
  <2> QED BY <1>1, <2>1 DEF Covered
<1>2. CASE p = Len(log) + 1 /\ Added(log'[p])
  <2> DEFINE e == log'[p]
  <2>1. ASSUME NEW r \in Notification, NEW k \in DOMAIN log, BatchAt(log, k, r)
        PROVE  k \in Before(log', p, r)
    <3>1. k < p
      BY <1>l, <1>2
    <3> QED BY <1>g, <2>1, <3>1 DEF Before, BatchAt
  <2>2. \A r \in Notification : Before(log', p, r) \in SUBSET (DOMAIN log')
    BY DEF Before
  <2>3. \A r \in Notification : Cardinality(Before(log', p, r)) \in Nat
    BY <1>t, <2>2, PositionsFinite
  <2>4. ASSUME NEW r \in Notification, e = Final(r)
        PROVE  e.batches <= Cardinality(Before(log', p, e.run))
    <3>1. e.run = r /\ e.batches = runs[r].batches
      BY <2>4 DEF Final
    <3>2. Settled(r) \subseteq Before(log', p, r)
      BY <2>1 DEF Settled
    <3>3. Cardinality(Settled(r)) <= Cardinality(Before(log', p, r))
          /\ Cardinality(Settled(r)) \in Nat
      BY <1>t, <2>2, <3>2, PositionsFinite
    <3>4. runs[r].batches <= Cardinality(Settled(r)) /\ runs[r].batches \in Nat
      BY <1>t DEF Covered, Typed, Run
    <3> QED BY <2>3, <3>1, <3>3, <3>4
  <2>5. CASE worker.pc = "start" /\ e = Started(worker.run)
    <3>1. worker.run \in Notification
      BY <1>t, <2>5, UnderWork DEF Importing
    <3>2. e.run = worker.run /\ e.batches = 0
      BY <2>5 DEF Started
    <3> QED BY <2>3, <3>1, <3>2
  <2>6. CASE /\ worker.pc = "batch" /\ worker.next = PartsOf[worker.note]
             /\ e = Progress(worker.run, worker.note)
    <3>1. worker.run \in Notification
      BY <1>t, <2>6, UnderWork DEF Importing
    <3>2. e.run = worker.run /\ e.batches = runs[worker.run].batches + PartsOf[worker.note]
      BY <2>6 DEF Progress
    <3>3. runs[worker.run].batches + PartsOf[worker.note]
            <= Cardinality(Before(log', p, worker.run))
      BY <1>t, <1>g, <2>1, <2>2, <2>6, <3>1, RoomForBatches
    <3> QED BY <3>2, <3>3
  <2>7. CASE worker.pc = "batch" /\ e = Batch(worker.run, worker.note, worker.next)
    <3>1. worker.note \in Notification /\ worker.next \in Nat
      BY <1>t, <2>7, UnderWork, WorkerFields DEF Busy, Processing
    <3>2. e.id \in BatchIds
      BY <2>7, <3>1 DEF Batch, BatchIds
    <3> QED BY <3>2
  <2> QED BY <1>2, <2>4, <2>5, <2>6, <2>7 DEF Added
<1> QED BY <1>t, <1>1, <1>2, LogMoves

\* The counter of the run table is covered by the settled batches of the run.
LEMMA RunsCovered ==
    ASSUME JournalInv, OrderInv, OneRun, Covered, [Next]_vars, NEW r \in Notification
    PROVE  runs'[r].batches <= Cardinality(Settled(r)')
<1>t. Typed /\ Typed' /\ log' \in Seq(Event)
  BY TypedStep DEF JournalInv, Typed, LogOK
<1> DEFINE S == Settled(r)
           T == Settled(r)'
<1>1. T \in SUBSET (DOMAIN log') /\ S \subseteq T
  BY SettledGrows DEF Settled
<1>2. runs[r].batches <= Cardinality(S) /\ runs[r].batches \in Nat
  BY <1>t DEF Covered, Typed, Run
<1>3. CASE runs'[r].batches = runs[r].batches
  <2> HIDE DEF S, T
  <2>1. Cardinality(S) \in Nat /\ Cardinality(T) \in Nat /\ Cardinality(S) <= Cardinality(T)
    BY <1>t, <1>1, PositionsFinite
  <2>2. runs'[r].batches <= Cardinality(T)
    BY <1>2, <1>3, <2>1
  <2> QED BY <2>2 DEF T
<1>4. CASE /\ worker.pc = "finish" /\ r = worker.run /\ UNCHANGED log
           /\ row'[worker.note].status # "pending" /\ worker'.pc \notin Processing
           /\ runs'[r].batches = runs[r].batches + PartsOf[worker.note]
  <2> DEFINE n == worker.note
  <2>1. n \in Notification /\ worker.pc \in Processing
    BY <1>t, <1>4, UnderWork DEF Importing, Processing, Busy
  <2>2. ASSUME NEW k \in DOMAIN log, BatchAt(log, k, r) PROVE k \in T
    <3> DEFINE m == log[k].id[2]
    <3>1. m \in Notification
      BY <1>t, <2>2, BatchIsBegun DEF BatchAt
    <3>2. CASE m = n
      <4>1. log'[k].id[2] = worker.note /\ BatchAt(log', k, r)
        BY <1>4, <2>2, <3>2 DEF BatchAt
      <4> QED BY <1>4, <2>2, <4>1 DEF Settled, InWork, Pending
    <3>3. CASE m # n
      <4>1. CASE ~Pending(m)
        <5>1. ~InWork(m)
          BY <3>3, <4>1 DEF InWork
        <5>2. k \in S
          BY <2>2, <5>1 DEF Settled
        <5> QED BY <1>1, <5>2
      <4>2. CASE Pending(m)
        <5>1. Begun(m)
          BY <1>t, <2>2, BatchIsBegun DEF BatchAt
        <5>2. m = n
          BY <1>4, <2>1, <3>1, <4>2, <5>1 DEF OrderInv, Busy
        <5> QED BY <3>3, <5>2
      <4> QED BY <4>1, <4>2
    <3> QED BY <3>2, <3>3
  <2> HIDE DEF T
  <2>3. runs[worker.run].batches + PartsOf[worker.note] <= Cardinality(T)
    BY <1>t, <1>1, <1>4, <2>2, RoomForBatches
  <2>4. runs'[r].batches <= Cardinality(T)
    BY <1>4, <2>3
  <2> QED BY <2>4 DEF T
<1> QED BY <1>t, <1>3, <1>4, BatchesMove

\* What the API reports of a run is the counter of an event it has projected, whose
\* batches come before it in the log.
LEMMA ReportCovered ==
    ASSUME LedgerInv, Covered, [Next]_vars, NEW r \in Notification
    PROVE  api'[r].reported <= Cardinality(Logged(log', r))
<1> DEFINE L == Logged(log, r)
           M == Logged(log', r)
<1>0. /\ Typed /\ ApiOK /\ api[r].reported <= Cardinality(L)
      /\ api[r].reported \in Nat /\ log \in Seq(Event)
  BY DEF LedgerInv, Covered, ApiOK, ApiRow, Typed, LogOK
<1>g. /\ \A k \in DOMAIN log : k \in DOMAIN log' /\ log'[k] = log[k]
      /\ log' \in Seq(Event)
  BY <1>0, LogGrows, TypedStep DEF Typed, LogOK
<1>m. /\ Cardinality(L) <= Cardinality(M) /\ Cardinality(L) \in Nat /\ Cardinality(M) \in Nat
  <2>1. L \in SUBSET M /\ M \in SUBSET (DOMAIN log')
    BY <1>g DEF Logged, BatchAt
  <2> HIDE DEF L, M
  <2> QED BY <1>g, <2>1, PositionsFinite
<1>1. CASE UNCHANGED <<done, ledger, api>>
  <2> HIDE DEF L, M
  <2>1. api'[r].reported <= Cardinality(M)
    BY <1>0, <1>1, <1>m
  <2> QED BY <2>1 DEF M
<1>2. CASE Projects
  <2>1. PICK p \in DOMAIN log : /\ log[p] \in Event
                                /\ Counts(log[p]) \/ Mirrors(log[p]) \/ Leaves(log[p])
    BY <1>0, <1>2, ProjectMoves
  <2> DEFINE e == log[p]
  <2>2. e.run \in Notification /\ e.batches \in Nat
    BY <2>1 DEF Event
  <2>3. api'[r].reported = api[r].reported
          \/ (r = e.run /\ e.id \notin BatchIds /\ api'[r].reported = e.batches)
    <3>1. CASE Counts(e)
      BY <2>2, <3>1 DEF Counts
    <3>2. CASE Mirrors(e)
      BY <2>2, <3>2 DEF Mirrors
    <3>3. CASE Leaves(e)
      BY <3>3 DEF Leaves
    <3> QED BY <2>1, <3>1, <3>2, <3>3
  <2>4. ASSUME r = e.run, e.id \notin BatchIds PROVE e.batches <= Cardinality(L)
    <3>1. e.batches <= Cardinality(Before(log, p, r))
      BY <2>4 DEF Covered
    <3>2. Before(log, p, r) \in SUBSET L /\ L \in SUBSET (DOMAIN log)
      BY DEF Before, Logged
    <3> HIDE DEF L
    <3>3. Cardinality(Before(log, p, r)) <= Cardinality(L) /\ Cardinality(Before(log, p, r)) \in Nat
      BY <1>0, <3>2, PositionsFinite
    <3> QED BY <1>m, <2>2, <3>1, <3>3
  <2> HIDE DEF L, M, e
  <2>5. api'[r].reported <= Cardinality(L) /\ api'[r].reported \in Nat
    BY <1>0, <2>2, <2>3, <2>4
  <2>6. api'[r].reported <= Cardinality(M)
    BY <1>m, <2>5
  <2> QED BY <2>6 DEF M
<1> QED BY <1>1, <1>2, ApiUnchanged

\* Initially nothing is journaled, counted or reported.
LEMMA CountInit == Init => CountInv
<1> SUFFICES ASSUME Init PROVE CountInv
  OBVIOUS
<1>1. JournalInv /\ VerdictInv /\ Typed
  BY JournalInit, VerdictInit, TypedInit
<1>a. ApiOK
  <2>1. api = [n \in Notification |-> [status |-> "none", reported |-> 0, applied |-> 0]]
        /\ done = {}
    BY DEF Init
  <2>2. [status |-> "none", reported |-> 0, applied |-> 0] \in ApiRow
    BY DEF ApiRow
  <2> QED BY <2>1, <2>2 DEF ApiOK
<1>2. /\ log = <<>> /\ DOMAIN log = {} /\ ledger = {} /\ done = {} /\ worker.pc = "tick"
      /\ \A r \in Notification : /\ runs[r].status = "none" /\ runs[r].batches = 0
                                 /\ api[r].reported = 0 /\ api[r].applied = 0
  BY DEF Init, Idle, NoRun
<1>3. Cardinality({}) = 0 /\ IsFiniteSet({})
  BY FS_EmptySet
<1>4. \A r \in Notification : AppliedTo(r) = {} /\ Settled(r) = {} /\ Logged(log, r) = {}
  BY <1>2 DEF AppliedTo, Settled, Logged
<1>5. LedgerInv
  BY <1>1, <1>a, <1>2, <1>3, <1>4 DEF LedgerInv
<1>6. OneRun
  BY <1>2 DEF OneRun, Importing
<1>7. Covered
  <2>1. \A p \in DOMAIN log : log[p].id \notin BatchIds =>
          log[p].batches <= Cardinality(Before(log, p, log[p].run))
    BY <1>2
  <2>2. \A r \in Notification : runs[r].batches <= Cardinality(Settled(r))
    <3> SUFFICES ASSUME NEW r \in Notification PROVE runs[r].batches <= Cardinality(Settled(r))
      OBVIOUS
    <3>1. runs[r].batches = 0 /\ Cardinality(Settled(r)) = 0
      BY <1>2, <1>3, <1>4
    <3> QED BY <3>1
  <2>3. \A r \in Notification : api[r].reported <= Cardinality(Logged(log, r))
    <3> SUFFICES ASSUME NEW r \in Notification PROVE api[r].reported <= Cardinality(Logged(log, r))
      OBVIOUS
    <3>1. api[r].reported = 0 /\ Cardinality(Logged(log, r)) = 0
      BY <1>2, <1>3, <1>4
    <3> QED BY <3>1
  <2> QED BY <2>1, <2>2, <2>3 DEF Covered
<1> QED BY <1>1, <1>5, <1>6, <1>7 DEF CountInv

\* Every step keeps the counters covered, or tears a run from its work.
LEMMA CountStep == CountInv /\ [Next]_vars => CountInv'
<1> SUFFICES ASSUME CountInv, [Next]_vars PROVE CountInv'
  OBVIOUS
<1>1. JournalInv /\ VerdictInv /\ LedgerInv /\ OrderInv /\ Typed
  BY DEF CountInv, VerdictInv, OrderInv
<1>2. JournalInv' /\ VerdictInv'
  BY <1>1, JournalStep, VerdictStep
<1>3. LedgerInv'
  BY <1>1, LedgerStep
<1>4. ASSUME torn' = {} PROVE OneRun' /\ Covered'
  <2>1. torn = {} /\ OneRun /\ Covered
    BY <1>1, <1>4, TornMoves DEF CountInv
  <2>2. OneRun'
    BY <1>1, <1>4, <2>1, OneRunStep
  <2>3. \A p \in DOMAIN log' : log'[p].id \notin BatchIds =>
          log'[p].batches <= Cardinality(Before(log', p, log'[p].run))
    BY <1>1, <2>1, EventsCovered
  <2>4. \A r \in Notification : runs'[r].batches <= Cardinality(Settled(r)')
    BY <1>1, <2>1, RunsCovered
  <2>5. \A r \in Notification : api'[r].reported <= Cardinality(Logged(log', r))
    BY <1>1, <2>1, ReportCovered
  <2> QED BY <2>2, <2>3, <2>4, <2>5 DEF Covered
<1> QED BY <1>2, <1>3, <1>4 DEF CountInv

\* Every batch the API reports for a run has been applied to it, once, or is in the
\* event log and waits for its projection or cannot be read (projectHistoryBatch,
\* HistoryRepo.ApplyBatch and ApplySync, the worker's last transaction): in whatever
\* order events are projected, whatever is retried, journaled again or projected
\* again, as long as no drop ends a run in the middle of its work.
THEOREM NoBatchUnaccounted == Spec => []ReportedIsAccounted
<1>1. CountInv => ReportedIsAccounted
  <2> SUFFICES ASSUME CountInv, torn = {}, NEW r \in Notification
               PROVE  /\ api[r].reported <= api[r].applied + Cardinality(Missing(r))
                      /\ api[r].applied = Cardinality(AppliedTo(r))
                      /\ \A k \in Missing(r) : k \notin done \/ log[k].id \in Unreadable
    BY DEF ReportedIsAccounted, AppliedTo
  <2>1. LedgerInv /\ api[r].reported <= Cardinality(Logged(log, r))
    BY DEF CountInv, Covered
  <2>2. /\ Cardinality(Logged(log, r)) <= api[r].applied + Cardinality(Missing(r))
        /\ \A k \in Missing(r) : k \notin done \/ log[k].id \in Unreadable
    BY <2>1, LoggedIsAccounted
  <2>3. /\ Logged(log, r) \in SUBSET (DOMAIN log) /\ Missing(r) \in SUBSET (DOMAIN log)
        /\ log \in Seq(Event) /\ api[r] \in ApiRow
    BY <2>1 DEF Logged, Missing, LedgerInv, Typed, LogOK, ApiOK
  <2>4. /\ Cardinality(Logged(log, r)) \in Nat /\ Cardinality(Missing(r)) \in Nat
        /\ api[r].reported \in Nat /\ api[r].applied \in Nat
    BY <2>3, PositionsFinite DEF ApiRow
  <2> QED BY <2>1, <2>2, <2>4 DEF LedgerInv
<1> QED BY <1>1, CountInit, CountStep, PTL DEF Spec

=============================================================================
