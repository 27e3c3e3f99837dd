---------------------------- MODULE Fanout_proofs ---------------------------
(***************************************************************************)
(* What the API does with a committed event, for any number of replicas,   *)
(* sessions, events, webhooks and faults: it is completed only when every  *)
(* consumer has it, retention keeps what a webhook is owed, a login        *)
(* command that was kept reaches no consumer while its apps stay as they   *)
(* are, and a session's events reach every consumer in the order they were *)
(* committed in, unless the claims of two of them overlapped.              *)
(*                                                                         *)
(* What has reached a consumer says nothing of the worker that is on the   *)
(* way to the next: the invariant says of each pass which consumers have   *)
(* its current event (Progress), and of each event of a pass that its      *)
(* predecessors are in the pass, too, have been everywhere, or were leased *)
(* by a claim that overlapped (Ordered).                                   *)
(***************************************************************************)
EXTENDS Fanout, FiniteSetTheorems, WellFoundedInduction, TLAPS

Pass == [todo : SUBSET Event, stage : Stage, failed : SUBSET Session, seen : SUBSET Event]
Tour == [todo : Seq(Attempt), stage : {"idle", "load", "post", "mark"},
         result : {"none", "ok", "fail", "gone"}]

\* The stages of a pass that has events to process.
Busy == Stage \ {"idle", "claim"}

-----------------------------------------------------------------------------
(***************************************************************************)
(* The invariant.                                                          *)
(***************************************************************************)
\* The table, and that a deletion takes all rows of a session.
Table ==
    /\ row \in Seq(Row) /\ Len(row) <= MaxEvents
    /\ logged \subseteq DOMAIN row /\ sessions \subseteq Session
    /\ \A e \in DOMAIN row : row[e].state = "deleted" <=> row[e].session \notin sessions

Passes ==
    /\ worker \in [Replica -> Pass]
    /\ \A r \in Replica : /\ worker[r].todo \subseteq DOMAIN row
                          /\ worker[r].todo = {} <=> worker[r].stage \notin Busy

Queue ==
    /\ hooks \subseteq Hook /\ delivery \in [Hook \X Event -> Delivery]
    /\ dispatcher \in [Replica -> Tour] /\ settled \subseteq Hook \X Event
    /\ \A r \in Replica :
          /\ dispatcher[r].stage # "idle" => dispatcher[r].todo # <<>>
          /\ dispatcher[r].stage = "mark" => dispatcher[r].result # "none"

\* Where an event has been.
Everywhere(e) == \A k \in Sink : e \in reached[k]

Histories ==
    /\ reached \in [Sink -> SUBSET Event]
    /\ \A k \in Sink : reached[k] \subseteq DOMAIN row
    /\ intercepted \subseteq DOMAIN row
    /\ \A e \in intercepted : row[e].kind # "chat"

\* The current event of a pass has been where the stage says.
ProgressOf(stage, e) ==
    /\ stage \in {"publish", "enqueue"} => e \in reached["projection"]
    /\ stage = "enqueue" => e \in reached["realtime"]
    /\ stage = "complete" => e \in intercepted \/ Everywhere(e)

Progress == \A r \in Replica : ProgressOf(worker[r].stage, Current(r))

\* A webhook that is there has a row for every event that was queued, or had
\* one that was settled.
Owed ==
    /\ \A d \in Hook \X Event : delivery[d].status \in Terminal => d \in settled
    /\ \A h \in hooks : \A e \in reached["webhooks"] :
          delivery[<<h, e>>].status # "none" \/ <<h, e>> \in settled
    /\ \A e \in DOMAIN row \ logged : row[e].state # "open"

Inv ==
    /\ Table /\ Passes /\ Queue /\ Histories /\ Progress /\ Owed
    /\ faults \in 0..MaxFaults
    /\ CompletedIsDelivered /\ RetentionKeepsOwedEvents

-----------------------------------------------------------------------------
(***************************************************************************)
(* Order, and the commands of the apps.                                    *)
(***************************************************************************)
\* Before an event of a pass come, of its session, only events of the same pass,
\* events every consumer has had, and events another claim took at the same time.
Ordered ==
    \A r \in Replica : \A e \in worker[r].todo : \A d \in 1..(e - 1) :
      (row[d].session = row[e].session /\ row[d].kind = "chat") =>
        d \in worker[r].todo \/ Everywhere(d) \/ <<d, e>> \in overtaken

\* The apps of the session are what they were at the start.
Steady(s) == s \in AppSession => changes[s] = 0

\* The caches have what the table has, and so every login command went one way.
SameWay ==
    /\ commands \subseteq AppSession /\ changes \in [AppSession -> Nat]
    /\ cached \in [Replica -> [AppSession -> {"none", "match", "nomatch"}]]
    /\ \A r \in Replica, s \in AppSession : Steady(s) =>
          /\ cached[r][s] = "match" => s \in commands
          /\ cached[r][s] = "nomatch" => s \notin commands
    /\ \A e \in DOMAIN row : (row[e].kind = "login" /\ Steady(row[e].session)) =>
          /\ e \in intercepted => row[e].session \in commands
          /\ \A k \in Sink : e \in reached[k] => row[e].session \notin commands
    /\ \A r \in Replica :
          (/\ worker[r].stage \in {"project", "publish", "enqueue"}
           /\ row[Current(r)].kind = "login" /\ Steady(row[Current(r)].session)) =>
             row[Current(r)].session \notin commands

-----------------------------------------------------------------------------
(***************************************************************************)
(* Facts about the model's operators.                                      *)
(***************************************************************************)
\* A pass takes its oldest event first.
LEMMA MinIsOldest ==
    ASSUME NEW S \in SUBSET Nat, S # {}
    PROVE  Min(S) \in S /\ \A y \in S : Min(S) <= y
<1> DEFINE R == OpToRel(<, Nat)
<1>1. IsWellFoundedOn(R, Nat)
  BY NatLessThanWellFounded
<1> HIDE DEF R
<1>2. PICK n \in S : \A k \in S : ~(<<k, n>> \in R)
  BY <1>1, WFMin
<1>3. \A k \in S : k < n => <<k, n>> \in R
  BY <1>2 DEF R, OpToRel
<1>4. \A k \in S : ~(k < n)
  BY <1>2, <1>3, Zenon
<1>5. \A k \in S : n <= k
  BY <1>2, <1>4, SMT
<1>6. \E x \in S : \A y \in S : x <= y
  BY <1>5
<1> QED BY <1>6 DEF Min

\* The events on record.
LEMMA OnRecord ==
    ASSUME Table
    PROVE  /\ Len(row) \in Nat /\ DOMAIN row = 1..Len(row)
           /\ DOMAIN row \subseteq Event /\ DOMAIN row \subseteq Nat
           /\ row \in [1..Len(row) -> Row]
           /\ \A e \in DOMAIN row : row[e] \in Row
BY FanoutAssumption DEF Table, Event

\* The current event of a pass.
LEMMA CurrentEvent ==
    ASSUME Inv, NEW r \in Replica, worker[r].stage \in Busy
    PROVE  /\ worker[r].todo # {}
           /\ Current(r) \in worker[r].todo /\ Current(r) \in DOMAIN row
           /\ \A e \in worker[r].todo : Current(r) <= e
<1>1. worker[r].todo # {} /\ worker[r].todo \subseteq DOMAIN row
  BY DEF Inv, Passes
<1>2. worker[r].todo \in SUBSET Nat
  BY <1>1, OnRecord DEF Inv
<1> QED BY <1>1, <1>2, MinIsOldest DEF Current

-----------------------------------------------------------------------------
(***************************************************************************)
(* Frames.                                                                 *)
(***************************************************************************)
\* Rows keep their session and kind, and no event is forgotten.
RowsStay ==
    /\ DOMAIN row \subseteq DOMAIN row'
    /\ \A e \in DOMAIN row :
          row'[e].session = row[e].session /\ row'[e].kind = row[e].kind

Grows ==
    /\ intercepted \subseteq intercepted'
    /\ \A k \in Sink : reached[k] \subseteq reached'[k]

\* What the current event of a pass has behind it stays behind it.
LEMMA ProgressStays ==
    ASSUME NEW stage, NEW e \in DOMAIN row, ProgressOf(stage, e), RowsStay, Grows
    PROVE  ProgressOf(stage, e)'
BY DEF ProgressOf, RowsStay, Grows, Everywhere, Sink

\* The workers do nothing.
LEMMA WorkersStay ==
    ASSUME Inv, RowsStay, UNCHANGED <<worker, reached, intercepted>>
    PROVE  Passes' /\ Histories' /\ Progress'
<1>1. Passes'
  BY DEF Inv, Passes, RowsStay
<1>2. Histories'
  BY DEF Inv, Histories, RowsStay
<1>3. ASSUME NEW r \in Replica PROVE ProgressOf(worker[r].stage, Current(r))'
  <2>1. PICK stage, e : stage = worker[r].stage /\ e = Current(r)
    OBVIOUS
  <2>2. worker'[r].stage = stage /\ Current(r)' = e
    BY <2>1 DEF Current
  <2>3. CASE stage \in Busy
    <3>1. e \in DOMAIN row /\ ProgressOf(stage, e)
      BY <2>1, <2>3, CurrentEvent DEF Inv, Progress
    <3>2. Grows
      BY DEF Grows
    <3>3. ProgressOf(stage, e)'
      BY <3>1, <3>2, ProgressStays
    <3> QED BY <2>2, <3>3 DEF ProgressOf
  <2>4. CASE stage \notin Busy
    <3>1. stage \notin {"project", "publish", "enqueue", "complete"}
      BY <2>4 DEF Busy, Stage
    <3> QED BY <2>2, <3>1 DEF ProgressOf
  <2> QED BY <2>3, <2>4
<1> QED BY <1>1, <1>2, <1>3 DEF Progress

\* No event is completed.
LEMMA CompletedStays ==
    ASSUME Inv, Grows,
           \A e \in DOMAIN row' : row'[e].state = "done" =>
              e \in DOMAIN row /\ row[e].state = "done"
    PROVE  CompletedIsDelivered'
BY DEF Inv, CompletedIsDelivered, Grows

\* What the webhooks are owed, whatever becomes of their rows.
LEMMA OwedStays ==
    ASSUME Inv, hooks' \subseteq hooks, settled \subseteq settled',
           \A d \in Hook \X Event : delivery'[d].status \in Terminal => d \in settled',
           \A d \in Hook \X Event :
              delivery[d].status # "none" => delivery'[d].status # "none" \/ d \in settled',
           reached' = reached,
           \A e \in DOMAIN row' \ logged' : row'[e].state # "open"
    PROVE  Owed'
<1>1. ASSUME NEW h \in hooks', NEW e \in reached'["webhooks"]
      PROVE  delivery'[<<h, e>>].status # "none" \/ <<h, e>> \in settled'
  <2>1. h \in hooks /\ h \in Hook /\ e \in reached["webhooks"] /\ e \in Event
    BY DEF Inv, Queue, Histories, Sink
  <2>2. <<h, e>> \in Hook \X Event
    BY <2>1
  <2>3. delivery[<<h, e>>].status # "none" \/ <<h, e>> \in settled
    BY <2>1 DEF Inv, Owed
  <2> QED BY <2>2, <2>3
<1> QED BY <1>1 DEF Owed

\* What retention has taken stays what it was.
LEMMA RetentionStays ==
    ASSUME Inv, hooks' \subseteq hooks, settled \subseteq settled',
           \A e \in DOMAIN row' \ logged' :
              /\ e \in DOMAIN row \ logged /\ row'[e].kind = row[e].kind
              /\ row'[e].state = "done" => row[e].state = "done"
    PROVE  RetentionKeepsOwedEvents'
BY DEF Inv, RetentionKeepsOwedEvents

-----------------------------------------------------------------------------
(***************************************************************************)
(* Initial states, and the steps around the workers.                       *)
(***************************************************************************)
\* Nothing has arrived.
LEMMA InitInv == Init => Inv
<1> SUFFICES ASSUME Init PROVE Inv
  OBVIOUS
<1>1. Table
  BY FanoutAssumption DEF Init, Table
<1>2. IdleWorker \in Pass /\ IdleWorker.todo = {} /\ IdleWorker.stage = "idle"
  BY DEF IdleWorker, Pass, Stage
<1>3. Passes
  BY <1>2 DEF Init, Passes, Busy
<1>4. IdleDispatcher \in Tour /\ IdleDispatcher.stage = "idle"
  BY DEF IdleDispatcher, Tour
<1>5. NoDelivery \in Delivery /\ NoDelivery.status = "none"
  BY DEF NoDelivery, Delivery
<1>6. Queue
  BY <1>4, <1>5 DEF Init, Queue
<1>7. Histories
  BY DEF Init, Histories
<1>8. Progress
  BY <1>2 DEF Init, Progress, ProgressOf
<1>9. Owed
  BY <1>5 DEF Init, Owed, Terminal, Sink
<1>10. CompletedIsDelivered /\ RetentionKeepsOwedEvents
  BY DEF Init, CompletedIsDelivered, RetentionKeepsOwedEvents
<1> QED BY <1>1, <1>3, <1>6, <1>7, <1>8, <1>9, <1>10, FanoutAssumption DEF Inv, Init

\* The bound on faults.
LEMMA FaultsTyped ==
    ASSUME faults \in 0..MaxFaults, Fault \/ faults' = faults PROVE faults' \in 0..MaxFaults
BY FanoutAssumption DEF Fault

\* A step of the table alone.
LEMMA TableStep ==
    ASSUME Inv, Table', RowsStay,
           UNCHANGED <<hooks, worker, reached, intercepted, delivery, dispatcher, settled>>,
           Fault \/ faults' = faults,
           \A e \in DOMAIN row' : row'[e].state = "done" =>
              e \in DOMAIN row /\ row[e].state = "done",
           \A e \in DOMAIN row' \ logged' : e \in DOMAIN row \ logged,
           \A e \in DOMAIN row : row'[e].state = "open" => row[e].state = "open"
    PROVE  Inv'
<1>1. Passes' /\ Histories' /\ Progress'
  BY WorkersStay
<1>2. Queue'
  BY DEF Inv, Queue
<1>3. Grows
  BY DEF Grows
<1>4. CompletedIsDelivered'
  BY <1>3, CompletedStays
<1>5. Owed'
  BY OwedStays DEF Inv, Owed
<1>6. RetentionKeepsOwedEvents'
  BY RetentionStays DEF RowsStay
<1>7. faults' \in 0..MaxFaults
  BY FaultsTyped DEF Inv
<1> QED BY <1>1, <1>2, <1>4, <1>5, <1>6, <1>7 DEF Inv

\* One more event.
LEMMA IngestStep == ASSUME Inv, NEW s \in Session, NEW k \in Kind, Ingest(s, k) PROVE Inv'
<1> DEFINE new == [session |-> s, kind |-> k, state |-> "open",
                   owner |-> NoOwner, claim |-> {}, live |-> FALSE]
<1>1. new \in Row /\ new.state = "open" /\ new.session = s
  BY DEF Row
<1>2. /\ Table /\ Len(row) \in Nat /\ DOMAIN row = 1..Len(row) /\ row \in Seq(Row)
      /\ Len(row) < MaxEvents /\ row' = Append(row, new)
  BY OnRecord DEF Inv, Table, Ingest
<1> HIDE DEF new
<1>3. /\ row' \in Seq(Row) /\ Len(row') = Len(row) + 1 /\ DOMAIN row' = 1..(Len(row) + 1)
      /\ \A e \in 1..Len(row) : row'[e] = row[e]
      /\ row'[Len(row) + 1] = new
  BY <1>1, <1>2
<1>4. \A e \in DOMAIN row' : e \in DOMAIN row \/ e = Len(row) + 1
  BY <1>2, <1>3
<1>5. Len(row) + 1 \in DOMAIN row' /\ DOMAIN row \subseteq DOMAIN row'
  BY <1>2, <1>3
<1>6. logged' = logged \union {Len(row) + 1} /\ sessions' = sessions /\ s \in sessions
  BY DEF Ingest
<1>7. Table'
  <2>1. Len(row') <= MaxEvents
    BY <1>2, <1>3, FanoutAssumption
  <2>2. logged' \subseteq DOMAIN row'
    BY <1>2, <1>5, <1>6 DEF Table
  <2>3. \A e \in DOMAIN row' : row'[e].state = "deleted" <=> row'[e].session \notin sessions'
    BY <1>1, <1>2, <1>3, <1>4, <1>6 DEF Table
  <2> QED BY <1>2, <1>3, <1>6, <2>1, <2>2, <2>3 DEF Table
<1>8. RowsStay
  BY <1>2, <1>3, <1>5 DEF RowsStay
<1>9. \A e \in DOMAIN row' : row'[e].state = "done" => e \in DOMAIN row /\ row[e].state = "done"
  BY <1>1, <1>2, <1>3, <1>4
<1>10. \A e \in DOMAIN row' \ logged' : e \in DOMAIN row \ logged
  BY <1>4, <1>6
<1>11. \A e \in DOMAIN row : row'[e].state = "open" => row[e].state = "open"
  BY <1>2, <1>3
<1> QED BY <1>7, <1>8, <1>9, <1>10, <1>11, TableStep DEF Ingest

\* Rows take new values, each of which is a row.
LEMMA RowsTyped ==
    ASSUME Table, row' \in [DOMAIN row -> Row]
    PROVE  row' \in Seq(Row) /\ Len(row') = Len(row) /\ DOMAIN row' = DOMAIN row
<1>1. Len(row) \in Nat /\ DOMAIN row = 1..Len(row)
  BY OnRecord
<1>2. PICK n \in Nat : n = Len(row)
  BY <1>1
<1>3. PICK f \in [1..n -> Row] : f = row'
  BY <1>1, <1>2
<1>4. f \in Seq(Row) /\ Len(f) = n /\ DOMAIN f = 1..n
  OBVIOUS
<1> QED BY <1>1, <1>2, <1>3, <1>4

\* A session goes with its rows.
LEMMA DeleteSessionStep == ASSUME Inv, NEW s \in Session, DeleteSession(s) PROVE Inv'
<1>1. Table /\ \A e \in DOMAIN row : row[e] \in Row
  BY OnRecord DEF Inv
<1>2. row' = [e \in DOMAIN row |-> IF row[e].session = s THEN [row[e] EXCEPT !.state = "deleted"]
                                                         ELSE row[e]]
  BY DEF DeleteSession
<1>3. \A e \in DOMAIN row :
         /\ row'[e] \in Row /\ row'[e].session = row[e].session /\ row'[e].kind = row[e].kind
         /\ row'[e].state = IF row[e].session = s THEN "deleted" ELSE row[e].state
  BY <1>1, <1>2 DEF Row
<1>4. row' \in [DOMAIN row -> Row]
  BY <1>2, <1>3
<1>5. row' \in Seq(Row) /\ Len(row') = Len(row) /\ DOMAIN row' = DOMAIN row
  BY <1>1, <1>4, RowsTyped
<1>6. Table'
  BY <1>1, <1>3, <1>5 DEF Table, DeleteSession
<1>7. RowsStay
  BY <1>3, <1>5 DEF RowsStay
<1> QED BY <1>3, <1>5, <1>6, <1>7, TableStep DEF DeleteSession

\* A lease runs out.
LEMMA ExpireLeaseStep ==
    ASSUME Inv, NEW r \in Replica, NEW c \in SUBSET Event, ExpireLease(r, c) PROVE Inv'
<1> DEFINE held == {e \in c \cap DOMAIN row : row[e].owner = r /\ row[e].claim = c /\ Leased(e)}
<1>1. Table /\ \A e \in DOMAIN row : row[e] \in Row
  BY OnRecord DEF Inv
<1>2. /\ row' = [e \in DOMAIN row |-> IF e \in held THEN [row[e] EXCEPT !.live = FALSE] ELSE row[e]]
      /\ Fault \/ faults' = faults
  BY DEF ExpireLease
<1> HIDE DEF held
<1>3. \A e \in DOMAIN row :
         /\ row'[e] \in Row /\ row'[e].session = row[e].session /\ row'[e].kind = row[e].kind
         /\ row'[e].state = row[e].state
  BY <1>1, <1>2 DEF Row
<1>4. row' \in [DOMAIN row -> Row]
  BY <1>2, <1>3
<1>5. row' \in Seq(Row) /\ Len(row') = Len(row) /\ DOMAIN row' = DOMAIN row
  BY <1>1, <1>4, RowsTyped
<1>6. Table'
  BY <1>1, <1>3, <1>5 DEF Table, ExpireLease
<1>7. RowsStay
  BY <1>3, <1>5 DEF RowsStay
<1> QED BY <1>2, <1>3, <1>5, <1>6, <1>7, TableStep DEF ExpireLease

\* A step of the deliveries alone.
LEMMA QueueStep ==
    ASSUME Inv, Queue', UNCHANGED <<row, logged, sessions, worker, reached, intercepted>>,
           Fault \/ faults' = faults, hooks' \subseteq hooks, settled \subseteq settled',
           \A d \in Hook \X Event : delivery'[d].status \in Terminal => d \in settled',
           \A d \in Hook \X Event :
              delivery[d].status # "none" => delivery'[d].status # "none" \/ d \in settled'
    PROVE  Inv'
<1>1. RowsStay /\ Grows
  BY DEF RowsStay, Grows
<1>2. Passes' /\ Histories' /\ Progress'
  BY <1>1, WorkersStay
<1>3. Table'
  BY DEF Inv, Table
<1>4. CompletedIsDelivered'
  BY <1>1, CompletedStays
<1>5. Owed'
  BY OwedStays DEF Inv, Owed
<1>6. RetentionKeepsOwedEvents'
  BY RetentionStays
<1>7. faults' \in 0..MaxFaults
  BY FaultsTyped DEF Inv
<1> QED BY <1>2, <1>3, <1>4, <1>5, <1>6, <1>7 DEF Inv

\* A webhook is deleted.
LEMMA DeleteHookStep == ASSUME Inv, NEW h \in Hook, DeleteHook(h) PROVE Inv'
<1>1. hooks' \subseteq hooks
  BY DEF DeleteHook
<1>2. Queue'
  BY <1>1 DEF Inv, Queue, DeleteHook
<1> QED BY <1>1, <1>2, QueueStep DEF Inv, Owed, DeleteHook

\* A delivery row takes a new value.
LEMMA DeliveryTyped ==
    ASSUME Queue, NEW d \in Hook \X Event, NEW v \in Delivery,
           delivery' = [delivery EXCEPT ![d] = v]
    PROVE  /\ delivery' \in [Hook \X Event -> Delivery]
           /\ \A x \in Hook \X Event : delivery'[x] = IF x = d THEN v ELSE delivery[x]
BY DEF Queue

\* A settled delivery row is pruned.
LEMMA PruneDeliveryStep ==
    ASSUME Inv, NEW h \in Hook, NEW e \in Event, PruneDelivery(h, e) PROVE Inv'
<1>1. <<h, e>> \in Hook \X Event /\ NoDelivery \in Delivery /\ NoDelivery.status = "none"
  BY DEF NoDelivery, Delivery
<1>2. delivery' = [delivery EXCEPT ![<<h, e>>] = NoDelivery] /\ delivery[<<h, e>>].status \in Terminal
  BY DEF PruneDelivery
<1>3. /\ delivery' \in [Hook \X Event -> Delivery]
      /\ \A x \in Hook \X Event :
            delivery'[x] = IF x = <<h, e>> THEN NoDelivery ELSE delivery[x]
  BY <1>1, <1>2, DeliveryTyped DEF Inv
<1>4. <<h, e>> \in settled
  BY <1>1, <1>2 DEF Inv, Owed
<1>5. Queue'
  BY <1>3 DEF Inv, Queue, PruneDelivery
<1>6. \A x \in Hook \X Event : delivery'[x].status \in Terminal => x \in settled
  BY <1>1, <1>3, <1>4 DEF Inv, Owed
<1>7. \A x \in Hook \X Event :
         delivery[x].status # "none" => delivery'[x].status # "none" \/ x \in settled
  BY <1>3, <1>4
<1> QED BY <1>5, <1>6, <1>7, QueueStep DEF PruneDelivery

\* Retention takes an event that is completed or whose session is gone, and that
\* no delivery waits for: every webhook has settled it.
LEMMA PruneLogStep == ASSUME Inv, NEW e \in DOMAIN row, PruneLog(e) PROVE Inv'
<1>1. /\ logged' = logged \ {e} /\ row[e].state # "open"
      /\ \A h \in Hook : delivery[<<h, e>>].status \notin Retryable
      /\ UNCHANGED <<row, sessions, hooks, worker, reached, intercepted,
                     delivery, dispatcher, settled, faults>>
  BY DEF PruneLog
<1>2. RowsStay /\ Grows
  BY <1>1 DEF RowsStay, Grows
<1>3. Passes' /\ Histories' /\ Progress'
  BY <1>1, <1>2, WorkersStay
<1>4. Table' /\ Queue'
  BY <1>1 DEF Inv, Table, Queue
<1>5. CompletedIsDelivered'
  BY <1>1, <1>2, CompletedStays
<1>6. \A d \in DOMAIN row' \ logged' : row'[d].state # "open"
  BY <1>1 DEF Inv, Owed
<1>7. Owed'
  BY <1>1, <1>6, OwedStays DEF Inv, Owed
<1>8. ASSUME NEW h \in hooks, row[e].state = "done", row[e].kind = "chat" PROVE <<h, e>> \in settled
  <2>1. e \notin intercepted /\ e \in Event /\ h \in Hook
    BY <1>8, OnRecord DEF Inv, Histories, Queue
  <2>2. e \in reached["webhooks"]
    BY <1>8, <2>1 DEF Inv, CompletedIsDelivered, Sink
  <2>3. delivery[<<h, e>>].status # "none" \/ <<h, e>> \in settled
    BY <2>2 DEF Inv, Owed
  <2>4. <<h, e>> \in Hook \X Event
    BY <2>1
  <2>5. delivery[<<h, e>>] \in Delivery /\ delivery[<<h, e>>].status \notin Retryable
    BY <1>1, <2>1, <2>4 DEF Inv, Queue
  <2>6. delivery[<<h, e>>].status # "none" => delivery[<<h, e>>].status \in Terminal
    BY <2>5 DEF Delivery, Retryable, Terminal
  <2> QED BY <2>3, <2>4, <2>6 DEF Inv, Owed
<1>9. RetentionKeepsOwedEvents'
  BY <1>1, <1>8 DEF Inv, RetentionKeepsOwedEvents
<1> QED BY <1>1, <1>3, <1>4, <1>5, <1>7, <1>9 DEF Inv

-----------------------------------------------------------------------------
(***************************************************************************)
(* The webhook dispatcher.                                                 *)
(***************************************************************************)
\* A dispatcher's tour goes on.
TourMoves(r, t) ==
    /\ t \in Tour /\ dispatcher' = [dispatcher EXCEPT ![r] = t]
    /\ t.stage # "idle" => t.todo # <<>>
    /\ t.stage = "mark" => t.result # "none"

\* Claims, posts and marks leave the tables of the workers alone.
LEMMA DispatcherStep1 ==
    ASSUME Inv, NEW r \in Replica, NEW t, TourMoves(r, t),
           UNCHANGED dispatchVars, Fault \/ faults' = faults,
           settled \subseteq settled', settled' \subseteq Hook \X Event,
           delivery' \in [Hook \X Event -> Delivery],
           \A d \in Hook \X Event : delivery'[d].status \in Terminal => d \in settled',
           \A d \in Hook \X Event : delivery[d].status # "none" => delivery'[d].status # "none"
    PROVE  Inv'
<1>1. Queue'
  BY DEF Inv, Queue, TourMoves, dispatchVars
<1> QED BY <1>1, QueueStep DEF dispatchVars

\* The first attempt of a tour.
LEMMA HeadAttempt ==
    ASSUME Inv, NEW r \in Replica, dispatcher[r].stage # "idle"
    PROVE  /\ dispatcher[r] \in Tour
           /\ Head(dispatcher[r].todo) \in Attempt /\ Tail(dispatcher[r].todo) \in Seq(Attempt)
<1>1. dispatcher[r] \in Tour /\ dispatcher[r].todo # <<>>
  BY DEF Inv, Queue
<1>2. dispatcher[r].todo \in Seq(Attempt)
  BY <1>1 DEF Tour
<1> QED BY <1>1, <1>2

\* The next attempt.
LEMMA NextDeliveryMoves ==
    ASSUME Inv, NEW r \in Replica, dispatcher[r].stage # "idle", NextDelivery(r)
    PROVE  \E t : TourMoves(r, t)
<1> DEFINE rest == Tail(dispatcher[r].todo)
           t == IF rest = <<>> THEN IdleDispatcher
                ELSE [todo |-> rest, stage |-> "load", result |-> "none"]
<1>1. rest \in Seq(Attempt)
  BY HeadAttempt
<1>2. dispatcher' = [dispatcher EXCEPT ![r] = t]
  BY DEF NextDelivery
<1> HIDE DEF rest
<1>3. t \in Tour /\ (t.stage # "idle" => t.todo # <<>>) /\ t.stage # "mark"
  BY <1>1 DEF IdleDispatcher, Tour
<1> HIDE DEF t
<1> QED BY <1>2, <1>3 DEF TourMoves

\* The tour's stage changes.
LEMMA StageMoves ==
    ASSUME Inv, NEW r \in Replica, dispatcher[r].stage # "idle",
           NEW stage \in {"post", "mark"}, NEW result \in {"none", "ok", "fail", "gone"},
           stage = "mark" => result # "none",
           dispatcher' = [dispatcher EXCEPT ![r].stage = stage, ![r].result = result]
    PROVE  \E t : TourMoves(r, t)
<1> DEFINE t == [dispatcher[r] EXCEPT !.stage = stage, !.result = result]
<1>1. dispatcher \in [Replica -> Tour] /\ dispatcher[r].todo # <<>>
  BY DEF Inv, Queue
<1>2. t \in Tour /\ t.todo = dispatcher[r].todo /\ t.stage = stage /\ t.result = result
  BY <1>1 DEF Tour
<1>3. dispatcher' = [dispatcher EXCEPT ![r] = t]
  BY <1>1 DEF Tour
<1> HIDE DEF t
<1> QED BY <1>1, <1>2, <1>3 DEF TourMoves

\* ClaimDue: rows are leased, their status stays.
LEMMA ClaimDueStep == ASSUME Inv, NEW r \in Replica, ClaimDue(r) PROVE Inv'
<1>1. delivery \in [Hook \X Event -> Delivery] /\ dispatcher \in [Replica -> Tour]
  BY DEF Inv, Queue
<1>2. PICK q \in SetToSeqs(Due) :
        dispatcher' = [dispatcher EXCEPT ![r] =
           [todo |-> [i \in DOMAIN q |-> [hook |-> q[i][1], event |-> q[i][2],
                                          attempts |-> delivery[q[i]].attempts]],
            stage |-> "load", result |-> "none"]]
  BY DEF ClaimDue
<1>3. IsFiniteSet(Due) /\ Due \subseteq Hook \X Event /\ Due # {}
  <2>1. IsFiniteSet(Event)
    BY FanoutAssumption, FS_Interval DEF Event
  <2>2. IsFiniteSet(Hook \X Event)
    BY <2>1, FanoutAssumption, FS_Product
  <2>3. Due \subseteq Hook \X Event
    BY DEF Due
  <2> QED BY <2>2, <2>3, FS_Subset DEF ClaimDue
<1>4. Cardinality(Due) \in Nat /\ Cardinality(Due) # 0
  BY <1>3, FS_CardinalityType, FS_EmptySet
<1>5. PICK n \in Nat : n = Cardinality(Due)
  BY <1>4
<1>6. q \in [1..n -> Due] /\ n # 0
  BY <1>4, <1>5 DEF SetToSeqs
<1> DEFINE todo == [i \in 1..n |-> [hook |-> q[i][1], event |-> q[i][2],
                                    attempts |-> delivery[q[i]].attempts]]
           t == [todo |-> todo, stage |-> "load", result |-> "none"]
<1>7. \A i \in 1..n : [hook |-> q[i][1], event |-> q[i][2],
                       attempts |-> delivery[q[i]].attempts] \in Attempt
  BY <1>1, <1>3, <1>6 DEF Attempt, Delivery
<1>8. todo \in Seq(Attempt) /\ todo # <<>>
  BY <1>6, <1>7
<1>9. dispatcher' = [dispatcher EXCEPT ![r] = t]
  BY <1>2, <1>6
<1> HIDE DEF todo
<1>10. TourMoves(r, t)
  BY <1>8, <1>9 DEF TourMoves, Tour
<1> HIDE DEF t
<1>11. delivery' = [d \in Hook \X Event |-> IF d \in Due THEN [delivery[d] EXCEPT !.retry = "leased"]
                                                         ELSE delivery[d]]
  BY DEF ClaimDue
<1>12. \A d \in Hook \X Event : delivery'[d] \in Delivery /\ delivery'[d].status = delivery[d].status
  BY <1>1, <1>11 DEF Delivery
<1>13. delivery' \in [Hook \X Event -> Delivery]
  BY <1>11, <1>12
<1>14. UNCHANGED <<dispatchVars, settled, faults>>
  BY DEF ClaimDue
<1> QED BY <1>10, <1>12, <1>13, <1>14, DispatcherStep1 DEF Inv, Owed, Queue

\* Load and post change the tour alone.
LEMMA TourStep ==
    ASSUME Inv, NEW r \in Replica, LoadDelivery(r) \/ Post(r) \/ MarkFails(r) PROVE Inv'
<1>1. UNCHANGED <<dispatchVars, delivery, settled>> /\ (Fault \/ faults' = faults)
  BY DEF LoadDelivery, Post, MarkFails
<1>2. \E t : TourMoves(r, t)
  <2>1. CASE LoadDelivery(r)
    <3>1. PICK a : a = Head(dispatcher[r].todo)
      OBVIOUS
    <3>2. dispatcher' = [dispatcher EXCEPT
             ![r].stage = IF a.hook \in hooks /\ a.event \in logged THEN "post" ELSE "mark",
             ![r].result = IF a.hook \in hooks /\ a.event \in logged THEN "none" ELSE "gone"]
      BY <2>1, <3>1 DEF LoadDelivery
    <3>3. dispatcher[r].stage # "idle"
      BY <2>1 DEF LoadDelivery
    <3>4. CASE a.hook \in hooks /\ a.event \in logged
      <4>1. dispatcher' = [dispatcher EXCEPT ![r].stage = "post", ![r].result = "none"]
        BY <3>2, <3>4
      <4> QED BY <3>3, <4>1, StageMoves
    <3>5. CASE ~(a.hook \in hooks /\ a.event \in logged)
      <4>1. dispatcher' = [dispatcher EXCEPT ![r].stage = "mark", ![r].result = "gone"]
        BY <3>2, <3>5
      <4> QED BY <3>3, <4>1, StageMoves
    <3> QED BY <3>4, <3>5
  <2>2. CASE Post(r)
    <3>1. PICK x \in {"ok", "fail"} :
             dispatcher' = [dispatcher EXCEPT ![r].stage = "mark", ![r].result = x]
      BY <2>2 DEF Post
    <3>2. x \in {"none", "ok", "fail", "gone"} /\ x # "none" /\ dispatcher[r].stage # "idle"
      BY <2>2 DEF Post
    <3> QED BY <3>1, <3>2, StageMoves
  <2>3. CASE MarkFails(r)
    <3>1. dispatcher[r].stage # "idle" /\ NextDelivery(r)
      BY <2>3 DEF MarkFails
    <3> QED BY <3>1, NextDeliveryMoves
  <2> QED BY <2>1, <2>2, <2>3
<1> QED BY <1>1, <1>2, DispatcherStep1 DEF Inv, Owed, Queue

\* Mark: a row that becomes terminal is settled.
LEMMA MarkStep == ASSUME Inv, NEW r \in Replica, Mark(r) PROVE Inv'
<1>1. dispatcher[r].stage = "mark" /\ NextDelivery(r) /\ UNCHANGED <<dispatchVars, faults>>
  BY DEF Mark
<1>2. PICK t : TourMoves(r, t)
  BY <1>1, NextDeliveryMoves
<1>3. PICK a : a = Head(dispatcher[r].todo)
  OBVIOUS
<1>4. a \in Attempt /\ dispatcher[r].result \in {"ok", "fail", "gone"}
  BY <1>1, <1>3, HeadAttempt DEF Inv, Queue, Tour
<1>5. PICK status : status = Outcome(a, dispatcher[r].result)
  OBVIOUS
<1>6. status \in {"delivered", "dead", "failed"}
  BY <1>4, <1>5 DEF Outcome
<1>7. PICK d \in Hook \X Event : d = <<a.hook, a.event>>
  BY <1>4 DEF Attempt
<1>8. /\ delivery' = Marked(a, status)
      /\ settled' = settled \union (IF status \in Terminal THEN {d} ELSE {})
  BY <1>3, <1>5, <1>7 DEF Mark
<1> DEFINE v == [status |-> status, attempts |-> delivery[d].attempts + 1,
                 retry |-> IF status = "failed" THEN "backoff" ELSE "null"]
<1>9. delivery \in [Hook \X Event -> Delivery] /\ v \in Delivery /\ v.status = status
  BY <1>6 DEF Inv, Queue, Delivery
<1>10. delivery' = delivery \/ delivery' = [delivery EXCEPT ![d] = v]
  BY <1>7, <1>8, <1>9 DEF Marked
<1> HIDE DEF v
<1>11. /\ delivery' \in [Hook \X Event -> Delivery]
       /\ \A x \in Hook \X Event : delivery'[x] = delivery[x] \/ (x = d /\ delivery'[x] = v)
  BY <1>9, <1>10
<1>12. \A x \in Hook \X Event : delivery'[x].status \in Terminal => x \in settled'
  BY <1>8, <1>9, <1>11 DEF Inv, Owed
<1>13. \A x \in Hook \X Event : delivery[x].status # "none" => delivery'[x].status # "none"
  BY <1>6, <1>9, <1>11
<1>14. settled \subseteq settled' /\ settled' \subseteq Hook \X Event
  BY <1>8 DEF Inv, Queue
<1> QED BY <1>1, <1>2, <1>11, <1>12, <1>13, <1>14, DispatcherStep1

\* A backoff or the lease of an attempt ends.
LEMMA BecomeDueStep == ASSUME Inv, NEW d \in Hook \X Event, BecomeDue(d) PROVE Inv'
<1>1. delivery \in [Hook \X Event -> Delivery]
  BY DEF Inv, Queue
<1>2. /\ delivery' \in [Hook \X Event -> Delivery]
      /\ \A x \in Hook \X Event : delivery'[x].status = delivery[x].status
  BY <1>1 DEF BecomeDue, Delivery
<1>3. UNCHANGED <<dispatchVars, dispatcher, settled>> /\ (Fault \/ faults' = faults)
  BY DEF BecomeDue
<1>4. Queue'
  BY <1>2, <1>3 DEF Inv, Queue, dispatchVars
<1> QED BY <1>2, <1>3, <1>4, QueueStep DEF Inv, Owed, dispatchVars

-----------------------------------------------------------------------------
(***************************************************************************)
(* The committed-event worker.                                             *)
(***************************************************************************)
\* Replica r's pass becomes w.
PassMoves(r, w) ==
    /\ w \in Pass /\ worker' = [worker EXCEPT ![r] = w]
    /\ w.todo \subseteq DOMAIN row
    /\ w.todo = {} <=> w.stage \notin Busy

\* A pass that moves keeps its shape, and its stage stays earned.
LEMMA PassStep ==
    ASSUME Inv, NEW r \in Replica, NEW w, PassMoves(r, w), RowsStay, Grows,
           ProgressOf(w.stage, Min(w.todo))'
    PROVE  Passes' /\ Progress'
<1>1. worker \in [Replica -> Pass] /\ worker' \in [Replica -> Pass]
  BY DEF Inv, Passes, PassMoves
<1>2. \A q \in Replica : worker'[q] = IF q = r THEN w ELSE worker[q]
  BY <1>1 DEF PassMoves
<1>3. Passes'
  BY <1>1, <1>2 DEF Inv, Passes, PassMoves, RowsStay
<1>4. ASSUME NEW q \in Replica PROVE ProgressOf(worker[q].stage, Current(q))'
  <2>1. CASE q = r
    BY <1>2, <2>1 DEF Current, ProgressOf
  <2>2. CASE q # r
    <3>1. PICK stage, e : stage = worker[q].stage /\ e = Current(q)
      OBVIOUS
    <3>2. worker'[q].stage = stage /\ Current(q)' = e
      BY <1>2, <2>2, <3>1 DEF Current
    <3>3. CASE stage \in Busy
      <4>1. e \in DOMAIN row /\ ProgressOf(stage, e)
        BY <3>1, <3>3, CurrentEvent DEF Inv, Progress
      <4>2. ProgressOf(stage, e)'
        BY <4>1, ProgressStays
      <4> QED BY <3>2, <4>2 DEF ProgressOf
    <3>4. CASE stage \notin Busy
      <4>1. stage \notin {"project", "publish", "enqueue", "complete"}
        BY <3>4 DEF Busy, Stage
      <4> QED BY <3>2, <4>1 DEF ProgressOf
    <3> QED BY <3>3, <3>4
  <2> QED BY <2>1, <2>2
<1> QED BY <1>3, <1>4 DEF Progress

\* The pass goes to another stage.
LEMMA GoToMoves ==
    ASSUME Inv, NEW r \in Replica, worker[r].stage \in Busy, NEW stage \in Busy, GoTo(r, stage)
    PROVE  \E w : PassMoves(r, w) /\ w.todo = worker[r].todo /\ w.stage = stage
<1> DEFINE w == [worker[r] EXCEPT !.stage = stage]
<1>1. worker \in [Replica -> Pass] /\ stage \in Stage
  BY DEF Inv, Passes, Busy
<1>2. w \in Pass /\ w.todo = worker[r].todo /\ w.stage = stage
  BY <1>1 DEF Pass
<1>3. worker' = [worker EXCEPT ![r] = w]
  BY <1>1 DEF GoTo, Pass
<1>4. w.todo \subseteq DOMAIN row /\ w.todo # {}
  BY <1>2 DEF Inv, Passes
<1> HIDE DEF w
<1> QED BY <1>2, <1>3, <1>4 DEF PassMoves

\* The pass goes to its next event, without those of failed sessions.
Rest(r, failed) == {e \in worker[r].todo \ {Current(r)} : row[e].session \notin failed}

\* Advance is such a move, to Rest and the first consumer or to idle.
LEMMA AdvanceMoves ==
    ASSUME Inv, NEW r \in Replica, NEW failed \in SUBSET Session, Advance(r, failed)
    PROVE  \E w : /\ PassMoves(r, w) /\ w.todo = Rest(r, failed)
                  /\ w.stage \in {"idle", "intercept"}
<1> DEFINE w == IF Rest(r, failed) = {} THEN IdleWorker
                ELSE [IdleWorker EXCEPT !.todo = Rest(r, failed), !.stage = "intercept",
                                        !.failed = failed]
<1>1. worker[r] \in Pass /\ worker[r].todo \subseteq DOMAIN row
  BY DEF Inv, Passes
<1>2. Rest(r, failed) \subseteq DOMAIN row /\ Rest(r, failed) \subseteq Event
  BY <1>1 DEF Rest, Pass
<1>3. worker' = [worker EXCEPT ![r] = w]
  BY DEF Advance, Rest
<1>4. /\ w \in Pass /\ w.todo = Rest(r, failed)
      /\ w.stage = IF Rest(r, failed) = {} THEN "idle" ELSE "intercept"
  BY <1>2 DEF Pass, IdleWorker, Stage
<1> HIDE DEF w
<1> QED BY <1>2, <1>3, <1>4 DEF PassMoves, Busy, Stage

\* A pass at its start has nothing behind it.
LEMMA FreshProgress ==
    ASSUME NEW w, w.stage \in {"idle", "claim", "intercept"}
    PROVE  ProgressOf(w.stage, Min(w.todo))'
BY DEF ProgressOf

\* A step of a worker that leaves the database alone.
LEMMA QuietStep ==
    ASSUME Inv, NEW r \in Replica, NEW w, PassMoves(r, w), Grows,
           UNCHANGED workerVars, Histories', reached'["webhooks"] = reached["webhooks"],
           ProgressOf(w.stage, Min(w.todo))', Fault \/ faults' = faults
    PROVE  Inv'
<1>1. RowsStay
  BY DEF RowsStay, workerVars
<1>2. Passes' /\ Progress'
  BY <1>1, PassStep
<1>3. Table' /\ Queue'
  BY DEF Inv, Table, Queue, workerVars
<1>4. CompletedIsDelivered'
  BY CompletedStays DEF workerVars
<1>5. Owed' /\ RetentionKeepsOwedEvents'
  BY DEF Inv, Owed, RetentionKeepsOwedEvents, workerVars
<1>6. faults' \in 0..MaxFaults
  BY FaultsTyped DEF Inv
<1> QED BY <1>2, <1>3, <1>4, <1>5, <1>6 DEF Inv

\* Reach adds the current event to one sink.
LEMMA ReachAdds ==
    ASSUME Inv, NEW r \in Replica, NEW sink \in Sink, worker[r].stage \in Busy, Reach(r, sink),
           intercepted' = intercepted, row' = row
    PROVE  /\ Grows /\ Histories'
           /\ \A k \in Sink : reached'[k] = IF k = sink THEN reached[k] \union {Current(r)}
                                            ELSE reached[k]
<1>1. Current(r) \in DOMAIN row /\ Current(r) \in Event
  BY CurrentEvent, OnRecord DEF Inv
<1>2. PICK e : e = Current(r)
  OBVIOUS
<1>3. /\ reached \in [Sink -> SUBSET Event]
      /\ reached' = [reached EXCEPT ![sink] = reached[sink] \union {e}]
  BY <1>2 DEF Inv, Histories, Reach
<1>4. \A k \in Sink : reached'[k] = IF k = sink THEN reached[k] \union {e} ELSE reached[k]
  BY <1>3
<1>5. reached' \in [Sink -> SUBSET Event]
  BY <1>1, <1>2, <1>3
<1>6. Histories'
  BY <1>1, <1>2, <1>4, <1>5 DEF Inv, Histories
<1> QED BY <1>2, <1>4, <1>6 DEF Grows

\* Claims begin, and passes give a session up.
LEMMA BeginClaimStep == ASSUME Inv, NEW r \in Replica, BeginClaim(r) PROVE Inv'
<1> DEFINE w == [worker[r] EXCEPT !.stage = "claim", !.seen = {e \in DOMAIN row : Leased(e)}]
<1>1. worker \in [Replica -> Pass] /\ worker[r].stage = "idle" /\ worker[r].todo = {}
  BY DEF Inv, Passes, BeginClaim, Busy
<1>2. DOMAIN row \subseteq Event
  BY OnRecord DEF Inv
<1>3. {e \in DOMAIN row : Leased(e)} \in SUBSET Event
  BY <1>2
<1>4. w \in Pass /\ w.todo = {} /\ w.stage = "claim"
  BY <1>1, <1>3 DEF Pass, Stage
<1>5. worker' = [worker EXCEPT ![r] = w]
  BY <1>1 DEF BeginClaim, Pass
<1> HIDE DEF w
<1>6. PassMoves(r, w)
  BY <1>4, <1>5 DEF PassMoves, Busy
<1>7. UNCHANGED <<workerVars, reached, intercepted, faults>>
  BY DEF BeginClaim
<1>8. Grows /\ Histories'
  BY <1>7 DEF Grows, Inv, Histories, workerVars
<1> QED BY <1>4, <1>6, <1>7, <1>8, FreshProgress, QuietStep

\* The sessions a pass has given up.
LEMMA FailedTyped ==
    ASSUME Inv, NEW r \in Replica, worker[r].stage \in Busy
    PROVE  /\ worker[r].failed \in SUBSET Session
           /\ worker[r].failed \union {row[Current(r)].session} \in SUBSET Session
<1>1. worker[r] \in Pass /\ row[Current(r)] \in Row
  BY CurrentEvent, OnRecord DEF Inv, Passes
<1> QED BY <1>1 DEF Pass, Row

\* A consumer's error holds the session back and records nothing.
LEMMA ConsumeFailsStep == ASSUME Inv, NEW r \in Replica, ConsumeFails(r) PROVE Inv'
<1>1. worker[r].stage \in Busy
  BY DEF ConsumeFails, Busy, Stage
<1>2. PICK failed \in SUBSET Session : Advance(r, failed)
  BY <1>1, FailedTyped DEF ConsumeFails, FailSession
<1>3. PICK w : PassMoves(r, w) /\ w.stage \in {"idle", "intercept"}
  BY <1>2, AdvanceMoves
<1>4. UNCHANGED <<workerVars, reached, intercepted>> /\ Fault
  BY DEF ConsumeFails
<1>5. Grows /\ Histories'
  BY <1>4 DEF Grows, Inv, Histories, workerVars
<1> QED BY <1>3, <1>4, <1>5, FreshProgress, QuietStep

\* The login interceptor.
LEMMA InterceptStep == ASSUME Inv, NEW r \in Replica, Intercept(r) PROVE Inv'
<1>1. worker[r].stage \in Busy /\ "complete" \in Busy /\ "project" \in Busy
  BY DEF Intercept, Busy, Stage
<1>2. PICK e : e = Current(r)
  OBVIOUS
<1>3. e \in DOMAIN row /\ UNCHANGED <<workerVars, reached, faults>>
  BY <1>1, <1>2, CurrentEvent DEF Intercept
<1>4. CASE HandleLogin(r, e)
  <2>1. intercepted' = intercepted \union {e} /\ GoTo(r, "complete")
    BY <1>2, <1>4 DEF Intercept
  <2>2. PICK w : PassMoves(r, w) /\ w.todo = worker[r].todo /\ w.stage = "complete"
    BY <1>1, <2>1, GoToMoves
  <2>3. Min(w.todo) = e
    BY <1>2, <2>2 DEF Current
  <2>4. ProgressOf(w.stage, Min(w.todo))'
    BY <2>1, <2>2, <2>3 DEF ProgressOf
  <2>5. row[e].kind # "chat"
    BY <1>4 DEF HandleLogin
  <2>6. Grows /\ Histories'
    BY <1>3, <2>1, <2>5 DEF Grows, Inv, Histories, workerVars
  <2> QED BY <1>3, <2>2, <2>4, <2>6, QuietStep
<1>5. CASE ~HandleLogin(r, e)
  <2>1. intercepted' = intercepted /\ GoTo(r, "project")
    BY <1>2, <1>5 DEF Intercept
  <2>2. PICK w : PassMoves(r, w) /\ w.todo = worker[r].todo /\ w.stage = "project"
    BY <1>1, <2>1, GoToMoves
  <2>3. Min(w.todo) = e
    BY <1>2, <2>2 DEF Current
  <2>5. ProgressOf(w.stage, Min(w.todo))'
    BY <2>2, <2>3 DEF ProgressOf
  <2>6. Grows /\ Histories'
    BY <1>3, <2>1 DEF Grows, Inv, Histories, workerVars
  <2> QED BY <1>3, <2>2, <2>5, <2>6, QuietStep
<1> QED BY <1>4, <1>5

\* The projections and the realtime publisher.
LEMMA ReachStep == ASSUME Inv, NEW r \in Replica, Project(r) \/ Publish(r) PROVE Inv'
<1>1. worker[r].stage \in Busy /\ "publish" \in Busy /\ "enqueue" \in Busy
  BY DEF Project, Publish, Busy, Stage
<1>2. PICK e : e = Current(r)
  OBVIOUS
<1>3. e \in DOMAIN row /\ UNCHANGED <<workerVars, intercepted, faults>> /\ row' = row
  BY <1>1, <1>2, CurrentEvent DEF Project, Publish, workerVars
<1>4. ProgressOf(worker[r].stage, e)
  BY <1>2 DEF Inv, Progress
<1>5. "projection" \in Sink /\ "realtime" \in Sink /\ "webhooks" \in Sink
  BY DEF Sink
<1>6. CASE Project(r)
  <2>1. Reach(r, "projection") /\ GoTo(r, "publish")
    BY <1>6 DEF Project
  <2>2. /\ Grows /\ Histories' /\ e \in reached'["projection"]
        /\ reached'["webhooks"] = reached["webhooks"]
    <3>1. intercepted' = intercepted
      BY <1>3
    <3>2. /\ Grows /\ Histories'
          /\ \A k \in Sink : reached'[k] = IF k = "projection" THEN reached[k] \union {Current(r)}
                                           ELSE reached[k]
      BY <1>1, <1>3, <1>5, <2>1, <3>1, ReachAdds
    <3> QED BY <1>2, <1>5, <3>2
  <2>3. PICK w : PassMoves(r, w) /\ w.todo = worker[r].todo /\ w.stage = "publish"
    BY <1>1, <2>1, GoToMoves
  <2>4. Min(w.todo) = e
    BY <1>2, <2>3 DEF Current
  <2>5. ProgressOf(w.stage, Min(w.todo))'
    BY <1>3, <2>1, <2>2, <2>3, <2>4 DEF ProgressOf
  <2> QED BY <1>3, <2>2, <2>3, <2>5, QuietStep
<1>7. CASE Publish(r)
  <2>1. /\ Reach(r, "realtime") /\ GoTo(r, "enqueue")
        /\ e \in reached["projection"]
    BY <1>4, <1>7 DEF Publish, ProgressOf
  <2>2. /\ Grows /\ Histories' /\ e \in reached'["realtime"]
        /\ reached'["webhooks"] = reached["webhooks"]
    <3>1. intercepted' = intercepted
      BY <1>3
    <3>2. /\ Grows /\ Histories'
          /\ \A k \in Sink : reached'[k] = IF k = "realtime" THEN reached[k] \union {Current(r)}
                                           ELSE reached[k]
      BY <1>1, <1>3, <1>5, <2>1, <3>1, ReachAdds
    <3> QED BY <1>2, <1>5, <3>2
  <2>3. PICK w : PassMoves(r, w) /\ w.todo = worker[r].todo /\ w.stage = "enqueue"
    BY <1>1, <2>1, GoToMoves
  <2>4. Min(w.todo) = e
    BY <1>2, <2>3 DEF Current
  <2>5. ProgressOf(w.stage, Min(w.todo))'
    BY <1>3, <1>5, <2>1, <2>2, <2>3, <2>4 DEF ProgressOf, Grows
  <2> QED BY <1>3, <2>2, <2>3, <2>5, QuietStep
<1> QED BY <1>6, <1>7

\* The webhook enqueuer leaves existing rows alone.
LEMMA EnqueuedTyped ==
    ASSUME Inv, NEW hs, NEW e, delivery' = Enqueued(hs, e)
    PROVE  /\ delivery' \in [Hook \X Event -> Delivery]
           /\ \A d \in Hook \X Event :
                 /\ delivery[d].status # "none" => delivery'[d] = delivery[d]
                 /\ delivery'[d].status \in Terminal => delivery[d].status \in Terminal
                 /\ d[1] \in hs /\ d[2] = e => delivery'[d].status # "none"
<1> DEFINE new == [status |-> "pending", attempts |-> 0, retry |-> "due"]
<1>1. delivery \in [Hook \X Event -> Delivery]
  BY DEF Inv, Queue
<1>2. new \in Delivery /\ new.status = "pending"
  BY DEF Delivery
<1> HIDE DEF new
<1>3. \A d \in Hook \X Event :
         delivery'[d] = IF d[1] \in hs /\ d[2] = e /\ delivery[d].status = "none"
                        THEN new ELSE delivery[d]
  BY DEF Enqueued, new
<1>4. delivery' = [d \in Hook \X Event |->
         IF d[1] \in hs /\ d[2] = e /\ delivery[d].status = "none" THEN new ELSE delivery[d]]
  BY DEF Enqueued, new
<1>5. delivery' \in [Hook \X Event -> Delivery]
  BY <1>1, <1>2, <1>4
<1> QED BY <1>2, <1>3, <1>5 DEF Terminal

\* With the deliveries queued, every hook of the event is owed or served.
LEMMA EnqueueStep == ASSUME Inv, NEW r \in Replica, Enqueue(r) PROVE Inv'
<1>1. worker[r].stage = "enqueue" /\ worker[r].stage \in Busy /\ "complete" \in Busy
  BY DEF Enqueue, Busy, Stage
<1>2. PICK e : e = Current(r)
  OBVIOUS
<1>3. /\ e \in DOMAIN row /\ e \in Event
      /\ UNCHANGED <<row, logged, sessions, hooks, intercepted, dispatcher, settled, faults>>
  BY <1>1, <1>2, CurrentEvent, OnRecord DEF Enqueue, Inv
<1>4. ProgressOf("enqueue", e)
  BY <1>1, <1>2 DEF Inv, Progress
<1>5. Sink = {"projection", "realtime", "webhooks"}
  BY DEF Sink
<1>6. /\ Reach(r, "webhooks") /\ GoTo(r, "complete")
      /\ e \in reached["projection"] /\ e \in reached["realtime"]
      /\ delivery' = Enqueued(hooks, e)
  BY <1>2, <1>4 DEF Enqueue, ProgressOf
<1>7. /\ Grows /\ Histories'
      /\ \A k \in Sink : reached'[k] = IF k = "webhooks" THEN reached[k] \union {e} ELSE reached[k]
  BY <1>1, <1>2, <1>3, <1>5, <1>6, ReachAdds
<1>8. PICK w : PassMoves(r, w) /\ w.todo = worker[r].todo /\ w.stage = "complete"
  BY <1>1, <1>6, GoToMoves
<1>9. Min(w.todo) = e
  BY <1>2, <1>8 DEF Current
<1>10. ProgressOf(w.stage, Min(w.todo))'
  BY <1>5, <1>6, <1>7, <1>8, <1>9 DEF ProgressOf, Everywhere
<1>11. RowsStay
  BY <1>3 DEF RowsStay
<1>12. Passes' /\ Progress'
  BY <1>7, <1>8, <1>10, <1>11, PassStep
<1>13. /\ delivery' \in [Hook \X Event -> Delivery]
       /\ \A d \in Hook \X Event :
             /\ delivery[d].status # "none" => delivery'[d] = delivery[d]
             /\ delivery'[d].status \in Terminal => delivery[d].status \in Terminal
             /\ d[1] \in hooks /\ d[2] = e => delivery'[d].status # "none"
  <2>1. delivery' = Enqueued(hooks, e)
    BY <1>6
  <2> QED BY <2>1, EnqueuedTyped
<1>14. Table' /\ Queue'
  BY <1>3, <1>13 DEF Inv, Table, Queue
<1>15. CompletedIsDelivered'
  BY <1>3, <1>7, CompletedStays
<1>16. RetentionKeepsOwedEvents'
  BY <1>3, RetentionStays
<1>17. Owed'
  <2>1. \A d \in Hook \X Event : delivery'[d].status \in Terminal => d \in settled'
    BY <1>3, <1>13 DEF Inv, Owed
  <2>2. ASSUME NEW h \in hooks', NEW x \in reached'["webhooks"]
        PROVE  delivery'[<<h, x>>].status # "none" \/ <<h, x>> \in settled'
    <3>1. h \in hooks /\ h \in Hook /\ (x \in reached["webhooks"] \/ x = e)
      BY <1>3, <1>5, <1>7 DEF Inv, Queue
    <3>2. x \in Event
      BY <1>3, <1>5, <3>1 DEF Inv, Histories
    <3>3. <<h, x>> \in Hook \X Event /\ <<h, x>>[1] = h /\ <<h, x>>[2] = x
      BY <3>1, <3>2
    <3>6. PICK d \in Hook \X Event : d = <<h, x>>
      BY <3>3
    <3>7. d[1] = h /\ d[2] = x
      BY <3>3, <3>6
    <3>4. CASE x = e
      BY <1>13, <3>1, <3>6, <3>7, <3>4
    <3>5. CASE x \in reached["webhooks"]
      <4>1. delivery[d].status # "none" \/ d \in settled
        BY <3>1, <3>6, <3>7, <3>5 DEF Inv, Owed
      <4> QED BY <1>3, <1>13, <3>6, <3>7, <4>1
    <3> QED BY <3>1, <3>4, <3>5
  <2> QED BY <1>3, <2>1, <2>2 DEF Inv, Owed
<1> QED BY <1>3, <1>7, <1>12, <1>14, <1>15, <1>16, <1>17 DEF Inv

\* Some of the deliveries may be queued before the error.
LEMMA EnqueueFailsStep == ASSUME Inv, NEW r \in Replica, EnqueueFails(r) PROVE Inv'
<1>1. worker[r].stage \in Busy
  BY DEF EnqueueFails, Busy, Stage
<1>2. PICK failed \in SUBSET Session : Advance(r, failed)
  BY <1>1, FailedTyped DEF EnqueueFails, FailSession
<1>3. PICK w : PassMoves(r, w) /\ w.stage \in {"idle", "intercept"}
  BY <1>2, AdvanceMoves
<1>4. /\ UNCHANGED <<row, logged, sessions, hooks, reached, intercepted, dispatcher, settled>>
      /\ Fault
  BY DEF EnqueueFails
<1>5. PICK hs \in SUBSET hooks : delivery' = Enqueued(hs, Current(r))
  BY DEF EnqueueFails
<1>6. /\ delivery' \in [Hook \X Event -> Delivery]
      /\ \A d \in Hook \X Event :
            /\ delivery[d].status # "none" => delivery'[d] = delivery[d]
            /\ delivery'[d].status \in Terminal => delivery[d].status \in Terminal
  BY <1>5, EnqueuedTyped
<1>7. RowsStay /\ Grows
  BY <1>4 DEF RowsStay, Grows
<1>8. Passes' /\ Progress'
  BY <1>3, <1>7, FreshProgress, PassStep
<1>9. Table' /\ Queue' /\ Histories'
  BY <1>4, <1>6 DEF Inv, Table, Queue, Histories
<1>10. CompletedIsDelivered' /\ RetentionKeepsOwedEvents'
  BY <1>4, <1>7, CompletedStays, RetentionStays
<1>11. Owed'
  <2>1. \A d \in Hook \X Event : delivery'[d].status \in Terminal => d \in settled'
    BY <1>4, <1>6 DEF Inv, Owed
  <2>2. \A e \in DOMAIN row' \ logged' : row'[e].state # "open"
    BY <1>4 DEF Inv, Owed
  <2>3. \A d \in Hook \X Event :
           delivery[d].status # "none" => delivery'[d].status # "none" \/ d \in settled'
    BY <1>6
  <2> QED BY <1>4, <2>1, <2>2, <2>3, OwedStays
<1>12. faults' \in 0..MaxFaults
  BY <1>4, FaultsTyped DEF Inv
<1> QED BY <1>8, <1>9, <1>10, <1>11, <1>12 DEF Inv

\* A step of a worker on the ledger rows.
LEMMA LedgerStep ==
    ASSUME Inv, NEW r \in Replica, NEW w, PassMoves(r, w), w.stage \in {"idle", "intercept"},
           row' \in [DOMAIN row -> Row],
           \A e \in DOMAIN row :
              /\ row'[e].session = row[e].session /\ row'[e].kind = row[e].kind
              /\ row'[e].state # row[e].state =>
                    /\ row'[e].state = "done" /\ row[e].state = "open"
                    /\ e \in intercepted \/ Everywhere(e),
           UNCHANGED <<logged, sessions, hooks, reached, intercepted, delivery,
                       dispatcher, settled>>,
           Fault \/ faults' = faults
    PROVE  Inv'
<1>1. row' \in Seq(Row) /\ Len(row') = Len(row) /\ DOMAIN row' = DOMAIN row
  BY RowsTyped DEF Inv
<1>2. RowsStay /\ Grows
  BY <1>1 DEF RowsStay, Grows
<1>3. Passes' /\ Progress'
  BY <1>2, FreshProgress, PassStep
<1>4. Table'
  BY <1>1 DEF Inv, Table
<1>5. Queue'
  BY DEF Inv, Queue
<1>6. Histories'
  BY <1>1, <1>2 DEF Inv, Histories, RowsStay
<1>7. CompletedIsDelivered'
  BY <1>1 DEF Inv, CompletedIsDelivered, Everywhere
<1>8. \A e \in DOMAIN row' \ logged' : e \in DOMAIN row \ logged /\ row'[e].state = row[e].state
  BY <1>1 DEF Inv, Owed
<1>9. Owed'
  BY <1>8, OwedStays DEF Inv, Owed
<1>10. RetentionKeepsOwedEvents'
  BY <1>1, <1>8, RetentionStays
<1>11. faults' \in 0..MaxFaults
  BY FaultsTyped DEF Inv
<1> QED BY <1>3, <1>4, <1>5, <1>6, <1>7, <1>9, <1>10, <1>11 DEF Inv

\* What a claim does.
LEMMA ClaimMoves ==
    ASSUME Inv, NEW r \in Replica, ClaimCommittedEvents(r)
    PROVE  /\ \E w : /\ PassMoves(r, w) /\ w.stage \in {"idle", "intercept"}
                     /\ w.todo = ClaimableBatch(r)
           /\ row' \in [DOMAIN row -> Row]
           /\ \A e \in DOMAIN row :
                 /\ row'[e].session = row[e].session /\ row'[e].kind = row[e].kind
                 /\ row'[e].state = row[e].state
<1> DEFINE q == ClaimableBatch(r)
           w == IF q = {} THEN IdleWorker
                ELSE [IdleWorker EXCEPT !.todo = q, !.stage = "intercept"]
<1>1. q \subseteq DOMAIN row /\ DOMAIN row \subseteq Event /\ \A e \in DOMAIN row : row[e] \in Row
  BY OnRecord DEF Inv, ClaimableBatch
<1>2. /\ worker' = [worker EXCEPT ![r] = w]
      /\ row' = [e \in DOMAIN row |->
                   IF e \in q THEN [row[e] EXCEPT !.owner = r, !.claim = q, !.live = TRUE]
                   ELSE row[e]]
  BY DEF ClaimCommittedEvents
<1> HIDE DEF q
<1>3. /\ w \in Pass /\ w.todo = q /\ w.stage = IF q = {} THEN "idle" ELSE "intercept"
  BY <1>1 DEF Pass, IdleWorker, Stage
<1> HIDE DEF w
<1>4. PassMoves(r, w)
  BY <1>1, <1>2, <1>3 DEF PassMoves, Busy, Stage
<1>5. q \in SUBSET Event
  BY <1>1
<1>6. \A e \in DOMAIN row :
         /\ row'[e] \in Row
         /\ row'[e].session = row[e].session /\ row'[e].kind = row[e].kind
         /\ row'[e].state = row[e].state
  BY <1>1, <1>2, <1>5 DEF Row
<1>7. row' \in [DOMAIN row -> Row]
  BY <1>2, <1>6
<1> QED BY <1>3, <1>4, <1>6, <1>7 DEF q

\* A claim leases open rows and starts a pass over them.
LEMMA ClaimStep == ASSUME Inv, NEW r \in Replica, ClaimCommittedEvents(r) PROVE Inv'
<1>1. PICK w : PassMoves(r, w) /\ w.stage \in {"idle", "intercept"}
  BY ClaimMoves
<1>2. UNCHANGED <<logged, sessions, hooks, reached, intercepted, delivery, dispatcher,
                  settled, faults>>
  BY DEF ClaimCommittedEvents
<1> QED BY <1>1, <1>2, ClaimMoves, LedgerStep

\* What a completion does to the rows, whoever reports what about it.
LEMMA CompleteRows ==
    ASSUME Inv, NEW r \in Replica, worker[r].stage = "complete",
           row' = row \/ (Owned(r, Current(r)) /\ Done(Current(r)))
    PROVE  /\ row' \in [DOMAIN row -> Row]
           /\ \A e \in DOMAIN row :
                 /\ row'[e].session = row[e].session /\ row'[e].kind = row[e].kind
                 /\ row'[e].live = row[e].live
                 /\ row'[e].state # row[e].state =>
                       /\ row'[e].state = "done" /\ row[e].state = "open"
                       /\ e \in intercepted \/ Everywhere(e)
<1>1. /\ DOMAIN row = 1..Len(row) /\ row \in [1..Len(row) -> Row]
      /\ \A e \in DOMAIN row : row[e] \in Row
  BY OnRecord DEF Inv
<1>2. CASE row' = row
  BY <1>1, <1>2
<1>3. CASE Owned(r, Current(r)) /\ Done(Current(r))
  <2>1. worker[r].stage \in Busy
    BY DEF Busy, Stage
  <2>2. PICK e \in DOMAIN row : e = Current(r)
    BY <2>1, CurrentEvent
  <2>3. e \in intercepted \/ Everywhere(e)
    BY <2>2 DEF Inv, Progress, ProgressOf
  <2>4. row[e].state # "deleted" /\ row' = [row EXCEPT ![e] = [row[e] EXCEPT !.state = "done"]]
    BY <1>1, <1>3, <2>2 DEF Owned, Done
  <2>5. [row[e] EXCEPT !.state = "done"] \in Row
    BY <1>1 DEF Row
  <2>6. row' \in [DOMAIN row -> Row]
    BY <1>1, <2>4, <2>5
  <2>7. \A d \in DOMAIN row : d # e => row'[d] = row[d]
    BY <1>1, <2>4
  <2>8. row'[e] = [row[e] EXCEPT !.state = "done"]
    BY <1>1, <2>4
  <2>9. /\ row'[e].session = row[e].session /\ row'[e].kind = row[e].kind
        /\ row'[e].live = row[e].live /\ row'[e].state = "done"
        /\ row[e].state \in {"open", "done"}
    BY <1>1, <2>4, <2>8 DEF Row
  <2> QED BY <2>3, <2>6, <2>7, <2>9
<1> QED BY <1>2, <1>3

\* How a pass goes on after its event was completed, or was not: either the
\* event is completed, or its session is given up.
LEMMA CompleteMoves ==
    ASSUME Inv, NEW r \in Replica, CompleteCommittedEvent(r) \/ CompleteFails(r)
    PROVE  /\ worker[r].stage = "complete" /\ worker[r].stage \in Busy
           /\ row' = row \/ (Owned(r, Current(r)) /\ Done(Current(r)))
           /\ \E failed \in SUBSET Session : Advance(r, failed)
<1>1. worker[r].stage = "complete" /\ worker[r].stage \in Busy
  BY DEF CompleteCommittedEvent, CompleteFails, Busy, Stage
<1>2. \/ row' = row /\ FailSession(r)
      \/ /\ Owned(r, Current(r)) /\ Done(Current(r))
         /\ Advance(r, worker[r].failed) \/ FailSession(r)
  BY DEF CompleteCommittedEvent, CompleteFails
<1>3. \E failed \in SUBSET Session : Advance(r, failed)
  BY <1>1, <1>2, FailedTyped DEF FailSession
<1> QED BY <1>1, <1>2, <1>3

\* completed_at is written, if at all, at the end of a pass that earned it.
LEMMA CompleteStep ==
    ASSUME Inv, NEW r \in Replica, CompleteCommittedEvent(r) \/ CompleteFails(r) PROVE Inv'
<1>1. /\ worker[r].stage = "complete"
      /\ row' = row \/ (Owned(r, Current(r)) /\ Done(Current(r)))
  BY CompleteMoves
<1>2. PICK failed \in SUBSET Session : Advance(r, failed)
  BY CompleteMoves
<1>3. PICK w : PassMoves(r, w) /\ w.stage \in {"idle", "intercept"}
  BY <1>2, AdvanceMoves
<1>4. /\ UNCHANGED <<logged, sessions, hooks, reached, intercepted, delivery, dispatcher, settled>>
      /\ Fault \/ faults' = faults
  BY DEF CompleteCommittedEvent, CompleteFails
<1> QED BY <1>1, <1>3, <1>4, CompleteRows, LedgerStep

\* A replica dies.
LEMMA CrashStep == ASSUME Inv, NEW r \in Replica, Crash(r) PROVE Inv'
<1>1. /\ UNCHANGED <<row, logged, sessions, hooks, reached, intercepted, delivery, settled>>
      /\ Fault /\ worker' = [worker EXCEPT ![r] = IdleWorker]
      /\ dispatcher' = [dispatcher EXCEPT ![r] = IdleDispatcher]
  BY DEF Crash
<1>2. PassMoves(r, IdleWorker) /\ IdleWorker.stage = "idle"
  BY <1>1 DEF PassMoves, IdleWorker, Pass, Stage, Busy
<1>3. RowsStay /\ Grows
  BY <1>1 DEF RowsStay, Grows
<1>4. Passes' /\ Progress'
  BY <1>2, <1>3, FreshProgress, PassStep
<1>5. IdleDispatcher \in Tour /\ IdleDispatcher.stage = "idle"
  BY DEF IdleDispatcher, Tour
<1>6. Table' /\ Queue' /\ Histories'
  BY <1>1, <1>5 DEF Inv, Table, Queue, Histories
<1>7. CompletedIsDelivered' /\ RetentionKeepsOwedEvents'
  BY <1>1, <1>3, CompletedStays, RetentionStays
<1>8. Owed'
  BY <1>1 DEF Inv, Owed
<1>9. faults' \in 0..MaxFaults
  BY <1>1, FaultsTyped DEF Inv
<1> QED BY <1>4, <1>6, <1>7, <1>8, <1>9 DEF Inv

\* The apps change, or a cache does.
LEMMA AppsStep ==
    ASSUME Inv, UNCHANGED <<row, logged, sessions, hooks, worker, reached, intercepted,
                            delivery, dispatcher, settled, faults>>
    PROVE  Inv'
BY DEF Inv, Table, Passes, Queue, Histories, Progress, ProgressOf, Current, Everywhere, Owed,
       CompletedIsDelivered, RetentionKeepsOwedEvents

\* Every step keeps the invariant.
LEMMA NextInv == Inv /\ [Next]_vars => Inv'
<1> SUFFICES ASSUME Inv, [Next]_vars PROVE Inv'
  OBVIOUS
<1>1. CASE Surroundings
  BY <1>1, IngestStep, DeleteSessionStep, DeleteHookStep, PruneDeliveryStep, PruneLogStep,
     AppsStep DEF Surroundings, ChangeApp, InvalidateSession
<1>2. ASSUME NEW r \in Replica, WorkerStep(r) \/ WorkerFault(r) PROVE Inv'
  BY <1>2, BeginClaimStep, ClaimStep, InterceptStep, ReachStep, EnqueueStep, CompleteStep,
     EnqueueFailsStep, ConsumeFailsStep DEF WorkerStep, WorkerFault
<1>3. ASSUME NEW r \in Replica, DispatcherStep(r) \/ MarkFails(r) \/ Crash(r) PROVE Inv'
  BY <1>3, ClaimDueStep, TourStep, MarkStep, CrashStep DEF DispatcherStep
<1>4. ASSUME NEW r \in Replica, NEW c \in SUBSET Event, ExpireLease(r, c) PROVE Inv'
  BY <1>4, ExpireLeaseStep
<1>5. ASSUME NEW d \in Hook \X Event, BecomeDue(d) PROVE Inv'
  BY <1>5, BecomeDueStep
<1>6. CASE UNCHANGED vars
  BY <1>6, AppsStep DEF vars
<1> QED BY <1>1, <1>2, <1>3, <1>4, <1>5, <1>6 DEF Next

\* The invariant holds throughout.
LEMMA SpecInv == Spec => []Inv
BY InitInv, NextInv, PTL DEF Spec

\* An event is completed only when every consumer has accepted it or the login
\* interceptor has kept it, whichever of the workers that overlapped on it wrote
\* completed_at.
THEOREM CompletionIsEarned == Spec => []CompletedIsDelivered
<1>1. Inv => CompletedIsDelivered
  BY DEF Inv
<1> QED BY <1>1, SpecInv, PTL

\* Prune never takes the body of an event that a webhook still has to receive.
THEOREM RetentionWaits == Spec => []RetentionKeepsOwedEvents
<1>1. Inv => RetentionKeepsOwedEvents
  BY DEF Inv
<1> QED BY <1>1, SpecInv, PTL

-----------------------------------------------------------------------------
(***************************************************************************)
(* The order of a session's events.                                        *)
(***************************************************************************)
Order == OrderedUnlessOvertaken /\ Ordered

\* The events before an event on record are on record.
LEMMA Predecessors ==
    ASSUME Table, NEW e \in DOMAIN row, NEW d \in 1..(e - 1)
    PROVE  d \in DOMAIN row /\ d \in Nat /\ e \in Nat /\ d < e
<1>1. DOMAIN row = 1..Len(row) /\ Len(row) \in Nat
  BY OnRecord
<1> QED BY <1>1

\* Nothing new reaches a sink.
LEMMA InOrderStays ==
    ASSUME Inv, OrderedUnlessOvertaken, RowsStay, reached' = reached, overtaken \subseteq overtaken'
    PROVE  OrderedUnlessOvertaken'
<1> SUFFICES ASSUME NEW k \in Sink, NEW e \in reached[k], NEW d \in 1..(e - 1),
                    row'[d].session = row'[e].session, row'[d].kind = "chat"
             PROVE  d \in reached[k] \/ <<d, e>> \in overtaken'
  BY DEF OrderedUnlessOvertaken
<1>1. e \in DOMAIN row /\ d \in DOMAIN row
  BY Predecessors DEF Inv, Histories
<1>2. d \in reached[k] \/ <<d, e>> \in overtaken
  BY <1>1 DEF OrderedUnlessOvertaken, RowsStay
<1> QED BY <1>2

\* A pass moves, and what it keeps has its predecessors.
LEMMA OrderedStep ==
    ASSUME Inv, Ordered, NEW r \in Replica, NEW w, PassMoves(r, w), RowsStay, Grows,
           overtaken \subseteq overtaken',
           \A e \in w.todo : \A d \in 1..(e - 1) :
              (row[d].session = row[e].session /\ row[d].kind = "chat") =>
                d \in w.todo \/ Everywhere(d)' \/ <<d, e>> \in overtaken'
    PROVE  Ordered'
<1>1. \A q \in Replica : worker'[q] = IF q = r THEN w ELSE worker[q]
  BY DEF Inv, Passes, PassMoves
<1>2. \A d : Everywhere(d) => Everywhere(d)'
  BY DEF Everywhere, Grows
<1>3. ASSUME NEW q \in Replica, NEW e \in worker'[q].todo, NEW d \in 1..(e - 1),
             row'[d].session = row'[e].session, row'[d].kind = "chat"
      PROVE  d \in worker'[q].todo \/ Everywhere(d)' \/ <<d, e>> \in overtaken'
  <2>1. e \in DOMAIN row /\ (q = r \/ e \in worker[q].todo) /\ (q = r => e \in w.todo)
    BY <1>1 DEF Inv, Passes, PassMoves
  <2>2. d \in DOMAIN row
    BY <2>1, Predecessors DEF Inv
  <2>3. row[d].session = row[e].session /\ row[d].kind = "chat"
    BY <1>3, <2>1, <2>2 DEF RowsStay
  <2>4. CASE q = r
    BY <1>1, <2>1, <2>3, <2>4
  <2>5. CASE q # r
    BY <1>1, <1>2, <2>1, <2>3, <2>5 DEF Ordered
  <2> QED BY <2>4, <2>5
<1> QED BY <1>3 DEF Ordered

\* No pass moves.
LEMMA OrderStays ==
    ASSUME Inv, Order, RowsStay, UNCHANGED <<worker, reached, overtaken>> PROVE Order'
<1>1. OrderedUnlessOvertaken'
  BY InOrderStays DEF Order
<1>2. ASSUME NEW r \in Replica, NEW e \in worker[r].todo, NEW d \in 1..(e - 1),
             row'[d].session = row'[e].session, row'[d].kind = "chat"
      PROVE  d \in worker[r].todo \/ Everywhere(d)' \/ <<d, e>> \in overtaken
  <2>1. e \in DOMAIN row
    BY DEF Inv, Passes
  <2>2. d \in DOMAIN row
    BY <2>1, Predecessors DEF Inv
  <2>3. row[d].session = row[e].session /\ row[d].kind = "chat"
    BY <1>2, <2>1, <2>2 DEF RowsStay
  <2>4. d \in worker[r].todo \/ Everywhere(d) \/ <<d, e>> \in overtaken
    BY <2>3 DEF Order, Ordered
  <2> QED BY <2>4 DEF Everywhere
<1>3. Ordered'
  BY <1>2 DEF Ordered
<1> QED BY <1>1, <1>3 DEF Order

\* A pass that stays at its events.
LEMMA SameTodo ==
    ASSUME Inv, Order, NEW r \in Replica, NEW w, PassMoves(r, w), w.todo = worker[r].todo,
           row' = row, overtaken' = overtaken, Grows
    PROVE  Ordered'
<1>1. RowsStay
  BY DEF RowsStay
<1>2. \A d : Everywhere(d) => Everywhere(d)'
  BY DEF Everywhere, Grows
<1>3. \A e \in w.todo : \A d \in 1..(e - 1) :
         (row[d].session = row[e].session /\ row[d].kind = "chat") =>
            d \in w.todo \/ Everywhere(d)' \/ <<d, e>> \in overtaken'
  BY <1>2 DEF Order, Ordered
<1> QED BY <1>1, <1>3, OrderedStep DEF Order

\* A pass that goes to its next event: the one it leaves has been everywhere, or
\* its session is given up.
LEMMA NextTodo ==
    ASSUME Inv, Order, NEW r \in Replica, worker[r].stage \in Busy,
           NEW failed \in SUBSET Session, NEW w, PassMoves(r, w), w.todo = Rest(r, failed),
           RowsStay, reached' = reached, intercepted' = intercepted, overtaken' = overtaken,
           \/ row[Current(r)].session \in failed
           \/ row[Current(r)].kind # "chat" \/ Everywhere(Current(r))
    PROVE  Order'
<1>1. Grows
  BY DEF Grows
<1>2. ASSUME NEW e \in w.todo, NEW d \in 1..(e - 1),
             row[d].session = row[e].session, row[d].kind = "chat"
      PROVE  d \in w.todo \/ Everywhere(d)' \/ <<d, e>> \in overtaken'
  <2>1. e \in worker[r].todo /\ row[e].session \notin failed
    BY DEF Rest
  <2>2. d \in worker[r].todo \/ Everywhere(d) \/ <<d, e>> \in overtaken
    BY <1>2, <2>1 DEF Order, Ordered
  <2>3. Everywhere(d) => Everywhere(d)'
    BY DEF Everywhere
  <2>4. d = Current(r) => Everywhere(d)
    BY <1>2, <2>1
  <2>5. d \in worker[r].todo /\ d # Current(r) => d \in w.todo
    BY <1>2, <2>1 DEF Rest
  <2> QED BY <2>2, <2>3, <2>4, <2>5
<1>3. Ordered'
  BY <1>1, <1>2, OrderedStep DEF Order
<1>4. OrderedUnlessOvertaken'
  BY InOrderStays DEF Order
<1> QED BY <1>3, <1>4 DEF Order

\* An event that reaches a sink comes after its predecessors.
LEMMA ReachInOrder ==
    ASSUME Inv, Order, NEW r \in Replica, NEW sink \in Sink, worker[r].stage \in Busy, row' = row,
           overtaken' = overtaken,
           \A k \in Sink : reached'[k] = IF k = sink THEN reached[k] \union {Current(r)}
                                         ELSE reached[k]
    PROVE  OrderedUnlessOvertaken'
<1> SUFFICES ASSUME NEW k \in Sink, NEW e \in reached'[k], NEW d \in 1..(e - 1),
                    row[d].session = row[e].session, row[d].kind = "chat"
             PROVE  d \in reached'[k] \/ <<d, e>> \in overtaken
  BY DEF OrderedUnlessOvertaken
<1>1. CASE e \in reached[k]
  <2>1. d \in reached[k] \/ <<d, e>> \in overtaken
    BY <1>1 DEF Order, OrderedUnlessOvertaken
  <2> QED BY <2>1
<1>2. CASE e \notin reached[k]
  <2>1. e = Current(r) /\ k = sink
    BY <1>2
  <2>2. /\ e \in worker[r].todo /\ e \in DOMAIN row
        /\ \A x \in worker[r].todo : e <= x
    BY <2>1, CurrentEvent
  <2>3. d < e /\ d \in Nat /\ e \in Nat
    BY <2>2, Predecessors DEF Inv
  <2>4. d \notin worker[r].todo
    BY <2>2, <2>3
  <2>5. Everywhere(d) \/ <<d, e>> \in overtaken
    BY <2>2, <2>4 DEF Order, Ordered
  <2> QED BY <2>5 DEF Everywhere
<1> QED BY <1>1, <1>2

-----------------------------------------------------------------------------
\* The surroundings, the dispatcher and time move no pass.
LEMMA OrderSurroundings ==
    ASSUME Inv, Order,
           \/ Surroundings
           \/ \E r \in Replica : DispatcherStep(r) \/ MarkFails(r)
           \/ \E r \in Replica, c \in SUBSET Event : ExpireLease(r, c)
           \/ \E d \in Hook \X Event : BecomeDue(d)
           \/ UNCHANGED vars
    PROVE  Order'
<1>0. /\ Len(row) \in Nat /\ DOMAIN row = 1..Len(row) /\ row \in Seq(Row)
      /\ \A e \in DOMAIN row : row[e] \in Row
  BY OnRecord DEF Inv, Table
<1>1. CASE UNCHANGED <<row, worker, reached, overtaken>>
  <2>1. RowsStay
    BY <1>1 DEF RowsStay
  <2> QED BY <1>1, <2>1, OrderStays
<1>2. ASSUME NEW s \in Session, NEW k \in Kind, Ingest(s, k) PROVE Order'
  <2> DEFINE new == [session |-> s, kind |-> k, state |-> "open",
                     owner |-> NoOwner, claim |-> {}, live |-> FALSE]
  <2>1. new \in Row /\ row' = Append(row, new) /\ UNCHANGED <<worker, reached, overtaken>>
    BY <1>2 DEF Row, Ingest
  <2> HIDE DEF new
  <2>2. /\ DOMAIN row' = 1..(Len(row) + 1) /\ row'[Len(row) + 1] = new
        /\ \A e \in 1..Len(row) : row'[e] = row[e]
    BY <1>0, <2>1
  <2>3. RowsStay
    BY <1>0, <2>2 DEF RowsStay
  <2> QED BY <2>1, <2>3, OrderStays
<1>3. ASSUME NEW s \in Session, DeleteSession(s) PROVE Order'
  <2>1. /\ UNCHANGED <<worker, reached, overtaken>>
        /\ row' = [e \in DOMAIN row |-> IF row[e].session = s
                                        THEN [row[e] EXCEPT !.state = "deleted"] ELSE row[e]]
    BY <1>3 DEF DeleteSession
  <2>2. DOMAIN row' = DOMAIN row
    BY <2>1
  <2>3. \A e \in DOMAIN row :
           row'[e].session = row[e].session /\ row'[e].kind = row[e].kind
    BY <1>0, <2>1 DEF Row
  <2>4. RowsStay
    BY <2>2, <2>3 DEF RowsStay
  <2> QED BY <2>1, <2>4, OrderStays
<1>4. ASSUME NEW r \in Replica, NEW c \in SUBSET Event, ExpireLease(r, c) PROVE Order'
  <2> DEFINE held == {e \in c \cap DOMAIN row : row[e].owner = r /\ row[e].claim = c /\ Leased(e)}
  <2>1. /\ UNCHANGED <<worker, reached, overtaken>>
        /\ row' = [e \in DOMAIN row |->
                      IF e \in held THEN [row[e] EXCEPT !.live = FALSE] ELSE row[e]]
    BY <1>4 DEF ExpireLease
  <2> HIDE DEF held
  <2>2. DOMAIN row' = DOMAIN row
    BY <2>1
  <2>3. \A e \in DOMAIN row :
           row'[e].session = row[e].session /\ row'[e].kind = row[e].kind
    BY <1>0, <2>1 DEF Row
  <2>4. RowsStay
    BY <2>2, <2>3 DEF RowsStay
  <2> QED BY <2>1, <2>4, OrderStays
<1>5. \/ UNCHANGED <<row, worker, reached, overtaken>>
      \/ \E s \in Session : DeleteSession(s) \/ \E k \in Kind : Ingest(s, k)
      \/ \E r \in Replica, c \in SUBSET Event : ExpireLease(r, c)
  BY DEF Surroundings, ChangeApp, InvalidateSession, DeleteHook, PruneDelivery, PruneLog, DispatcherStep, ClaimDue, LoadDelivery,
         Post, Mark, MarkFails, BecomeDue, dispatchVars, vars
<1> QED BY <1>1, <1>2, <1>3, <1>4, <1>5

\* A claim begins: the pass has no events yet.
LEMMA OrderBeginClaim == ASSUME Inv, Order, NEW r \in Replica, BeginClaim(r) PROVE Order'
<1> DEFINE w == [worker[r] EXCEPT !.stage = "claim", !.seen = {e \in DOMAIN row : Leased(e)}]
<1>1. worker \in [Replica -> Pass] /\ worker[r].stage = "idle" /\ worker[r].todo = {}
  BY DEF Inv, Passes, BeginClaim, Busy
<1>2. /\ UNCHANGED <<row, reached, intercepted, overtaken>>
      /\ worker' = [worker EXCEPT ![r] = w]
  BY <1>1 DEF BeginClaim, Pass, workerVars
<1>3. w.todo = {}
  BY <1>1 DEF Pass
<1> HIDE DEF w
<1>4. \A q \in Replica : worker'[q] = IF q = r THEN w ELSE worker[q]
  BY <1>1, <1>2
<1>5. OrderedUnlessOvertaken'
  BY <1>2 DEF Order, OrderedUnlessOvertaken
<1>6. Ordered'
  BY <1>2, <1>3, <1>4 DEF Order, Ordered, Everywhere
<1> QED BY <1>5, <1>6 DEF Order

\* A claim takes an event with all its predecessors that are still open, but those
\* that have come under a lease since its snapshot: these it overtakes.
LEMMA OrderClaim ==
    ASSUME Inv, Order, NEW r \in Replica, ClaimCommittedEvents(r) PROVE Order'
<1> DEFINE all == {e \in DOMAIN row : Claimable(r, e)}
<1>0. /\ worker[r].stage = "claim" /\ reached' = reached /\ intercepted' = intercepted
  BY DEF ClaimCommittedEvents
<1>1. PICK w : /\ PassMoves(r, w) /\ w.stage \in {"idle", "intercept"}
               /\ w.todo = ClaimableBatch(r)
  BY ClaimMoves
<1>2. DOMAIN row' = DOMAIN row /\ RowsStay /\ Grows
  BY <1>0, ClaimMoves DEF RowsStay, Grows
<1>3. DOMAIN row = 1..Len(row) /\ Len(row) \in Nat /\ \A e \in DOMAIN row : row[e] \in Row
  BY OnRecord DEF Inv
<1>4. ASSUME NEW e \in w.todo, NEW d \in 1..(e - 1),
             row[d].session = row[e].session, row[d].kind = "chat"
      PROVE  d \in w.todo \/ Everywhere(d)' \/ <<d, e>> \in overtaken'
  <2>1. e \in all /\ Cardinality({x \in all : x < e}) < Batch
    BY <1>1 DEF ClaimableBatch
  <2>2. e \in DOMAIN row /\ Claimable(r, e)
    BY <2>1
  <2>3. d \in DOMAIN row /\ d \in Nat /\ e \in Nat /\ d < e
    BY <2>2, Predecessors DEF Inv
  <2>4. CASE row[d].state = "done"
    <3>1. d \in intercepted \/ Everywhere(d)
      BY <2>3, <2>4 DEF Inv, CompletedIsDelivered, Everywhere
    <3>2. d \notin intercepted
      BY <1>4 DEF Inv, Histories
    <3> QED BY <1>0, <3>1, <3>2 DEF Everywhere
  <2>5. CASE row[d].state = "deleted"
    <3>1. row[d].session \notin sessions
      BY <2>3, <2>5 DEF Inv, Table
    <3>2. row[e].state = "deleted"
      BY <1>4, <2>2, <3>1 DEF Inv, Table
    <3> QED BY <2>2, <3>2 DEF Claimable, Open
  <2>7. CASE row[d].state = "open" /\ row[d].live
    <3>1. d \notin worker[r].seen
      BY <1>4, <2>2 DEF Claimable
    <3>2. Leased(d) /\ e \in ClaimableBatch(r) /\ d \in Event
      BY <1>1, <2>3, <2>7, OnRecord DEF Leased, Open, Inv
    <3>6. <<d, e>> \in Event \X ClaimableBatch(r) /\ <<d, e>>[1] = d /\ <<d, e>>[2] = e
      BY <3>2
    <3>3. PICK p : p = <<d, e>>
      OBVIOUS
    <3>4. p \in Overtakes(r, ClaimableBatch(r))
      BY <1>4, <2>3, <3>1, <3>2, <3>3, <3>6 DEF Overtakes
    <3>5. Overtakes(r, ClaimableBatch(r)) \subseteq overtaken'
      BY DEF ClaimCommittedEvents
    <3> QED BY <3>3, <3>4, <3>5
  <2>6. CASE row[d].state = "open" /\ ~row[d].live
    <3>2. ~row[d].live
      BY <2>6
    <3>3. \A x \in 1..(d - 1) : x \in 1..(e - 1)
      BY <2>3
    <3>4. \A x \in 1..(d - 1) : row[x].session = row[d].session => x \notin worker[r].seen
      BY <1>4, <2>2, <3>3 DEF Claimable
    <3>5. d \in all
      BY <2>3, <2>6, <3>2, <3>4 DEF Claimable, Open
    <3>6. all \subseteq 1..Len(row)
      BY <1>3
    <3> HIDE DEF all
    <3>7. {x \in all : x < d} \subseteq {x \in all : x < e}
      <4>1. \A x \in all : x \in Nat /\ (x < d => x < e)
        BY <1>3, <2>3, <3>6
      <4> QED BY <4>1
    <3>8. IsFiniteSet(1..Len(row))
      BY <1>3, FS_Interval
    <3>9. IsFiniteSet({x \in all : x < e})
      BY <3>6, <3>8, FS_Subset
    <3>10. /\ Cardinality({x \in all : x < d}) <= Cardinality({x \in all : x < e})
           /\ Cardinality({x \in all : x < e}) \in Nat
      BY <3>7, <3>9, FS_Subset, FS_CardinalityType
    <3>11. Cardinality({x \in all : x < d}) \in Nat
      BY <3>7, <3>9, FS_Subset, FS_CardinalityType
    <3>12. Cardinality({x \in all : x < d}) < Batch
      BY <2>1, <3>10, <3>11, FanoutAssumption
    <3>13. d \in ClaimableBatch(r)
      BY <3>5, <3>12 DEF ClaimableBatch, all
    <3> QED BY <1>1, <3>13
  <2> QED BY <1>3, <2>3, <2>4, <2>5, <2>6, <2>7 DEF Row
<1>5. overtaken \subseteq overtaken'
  BY DEF ClaimCommittedEvents
<1>6. Ordered'
  BY <1>1, <1>2, <1>4, <1>5, OrderedStep DEF Order
<1>7. OrderedUnlessOvertaken'
  BY <1>0, <1>2, <1>5, InOrderStays DEF Order
<1> QED BY <1>6, <1>7 DEF Order

\* The sinks of the worker, and a replica that dies.
LEMMA OrderWorker ==
    ASSUME Inv, Order, NEW r \in Replica,
           \/ Intercept(r) \/ Project(r) \/ Publish(r) \/ Enqueue(r) \/ Crash(r)
           \/ CompleteCommittedEvent(r) \/ WorkerFault(r)
    PROVE  Order'
<1>1. CASE Intercept(r)
  <2>1. worker[r].stage \in Busy /\ "complete" \in Busy /\ "project" \in Busy
    BY <1>1 DEF Intercept, Busy, Stage
  <2>2. PICK stage \in {"complete", "project"} : GoTo(r, stage)
    BY <1>1 DEF Intercept
  <2>3. PICK w : PassMoves(r, w) /\ w.todo = worker[r].todo /\ w.stage = stage
    BY <2>1, <2>2, GoToMoves
  <2>4. /\ row' = row /\ reached' = reached /\ intercepted \subseteq intercepted'
        /\ overtaken' = overtaken
    BY <1>1 DEF Intercept, workerVars
  <2>5. Ordered'
    BY <2>3, <2>4, SameTodo DEF Grows
  <2>6. OrderedUnlessOvertaken'
    BY <2>4 DEF Order, OrderedUnlessOvertaken
  <2> QED BY <2>5, <2>6 DEF Order
<1>2. CASE Project(r) \/ Publish(r) \/ Enqueue(r)
  <2>1. /\ worker[r].stage \in {"project", "publish", "enqueue"} /\ worker[r].stage \in Busy
        /\ {"publish", "enqueue", "complete"} \subseteq Busy
        /\ {"projection", "realtime", "webhooks"} = Sink
    BY <1>2 DEF Project, Publish, Enqueue, Busy, Stage, Sink
  <2>2. PICK stage \in {"publish", "enqueue", "complete"}, sink \in Sink :
           GoTo(r, stage) /\ Reach(r, sink)
    BY <1>2, <2>1 DEF Project, Publish, Enqueue
  <2>3. PICK w : PassMoves(r, w) /\ w.todo = worker[r].todo /\ w.stage = stage
    BY <2>1, <2>2, GoToMoves
  <2>4. row' = row /\ intercepted' = intercepted /\ overtaken' = overtaken
    BY <1>2 DEF Project, Publish, Enqueue, workerVars
  <2>6. /\ Grows
        /\ \A k \in Sink : reached'[k] = IF k = sink THEN reached[k] \union {Current(r)}
                                         ELSE reached[k]
    BY <2>1, <2>2, <2>4, ReachAdds
  <2>7. Ordered'
    BY <2>3, <2>4, <2>6, SameTodo
  <2>8. OrderedUnlessOvertaken'
    BY <2>1, <2>4, <2>6, ReachInOrder
  <2> QED BY <2>7, <2>8 DEF Order
<1>3. CASE CompleteCommittedEvent(r) \/ CompleteFails(r)
  <2>1. worker[r].stage = "complete" /\ worker[r].stage \in Busy
    BY <1>3, CompleteMoves
  <2>2. /\ row' \in [DOMAIN row -> Row]
        /\ \A e \in DOMAIN row :
              /\ row'[e].session = row[e].session /\ row'[e].kind = row[e].kind
              /\ row'[e].live = row[e].live
              /\ row'[e].state = "open" => row[e].state = "open"
    BY <1>3, <2>1, CompleteMoves, CompleteRows
  <2>3. DOMAIN row' = DOMAIN row
    BY <2>2
  <2>4. RowsStay
    BY <2>2, <2>3 DEF RowsStay
  <2>6. Current(r) \in intercepted \/ Everywhere(Current(r))
    BY <2>1 DEF Inv, Progress, ProgressOf
  <2>7. row[Current(r)].kind # "chat" \/ Everywhere(Current(r))
    BY <2>6 DEF Inv, Histories
  <2>8. PICK failed \in SUBSET Session : Advance(r, failed)
    BY <1>3, CompleteMoves
  <2>9. PICK w : PassMoves(r, w) /\ w.todo = Rest(r, failed) /\ w.stage \in {"idle", "intercept"}
    BY <2>8, AdvanceMoves
  <2>10. UNCHANGED <<reached, intercepted, overtaken>>
    BY <1>3 DEF CompleteCommittedEvent, CompleteFails
  <2> QED BY <2>1, <2>4, <2>7, <2>9, <2>10, NextTodo
<1>4. CASE EnqueueFails(r) \/ ConsumeFails(r)
  <2>1. worker[r].stage \in Busy
    BY <1>4 DEF EnqueueFails, ConsumeFails, Busy, Stage
  <2>2. PICK failed \in SUBSET Session :
           Advance(r, failed) /\ row[Current(r)].session \in failed
    BY <1>4, <2>1, FailedTyped DEF EnqueueFails, ConsumeFails, FailSession
  <2>3. PICK w : PassMoves(r, w) /\ w.todo = Rest(r, failed) /\ w.stage \in {"idle", "intercept"}
    BY <2>2, AdvanceMoves
  <2>4. UNCHANGED <<row, reached, intercepted, overtaken>>
    BY <1>4 DEF EnqueueFails, ConsumeFails, workerVars
  <2>5. RowsStay
    BY <2>4 DEF RowsStay
  <2> QED BY <2>1, <2>2, <2>3, <2>4, <2>5, NextTodo
<1>5. CASE Crash(r)
  <2>1. UNCHANGED <<row, reached, intercepted, overtaken>>
    BY <1>5 DEF Crash
  <2>2. PassMoves(r, IdleWorker) /\ IdleWorker.todo = {}
    BY <1>5 DEF Crash, PassMoves, IdleWorker, Pass, Stage, Busy
  <2>3. RowsStay /\ Grows
    BY <2>1 DEF RowsStay, Grows
  <2>4. Ordered'
    BY <2>1, <2>2, <2>3, OrderedStep DEF Order
  <2>5. OrderedUnlessOvertaken'
    BY <2>1 DEF Order, OrderedUnlessOvertaken
  <2> QED BY <2>4, <2>5 DEF Order
<1> QED BY <1>1, <1>2, <1>3, <1>4, <1>5 DEF WorkerFault

\* Whatever fails, crashes or overruns its lease, a session's events first reach every
\* sink in the order they were committed in, unless two claims overlapped: a failure
\* holds the session back (RunOnce), and a claim does not pass over a predecessor its
\* snapshot has under lease (ClaimCommittedEvents).
THEOREM OnlyOverlapOvertakes == Spec => []OrderedUnlessOvertaken
<1>1. Init => Order
  <2>1. Init => OrderedUnlessOvertaken
    BY DEF Init, OrderedUnlessOvertaken
  <2>2. Init => Ordered
    BY DEF Init, Ordered, IdleWorker
  <2> QED BY <2>1, <2>2 DEF Order
<1>2. Inv /\ Order /\ [Next]_vars => Order'
  BY OrderSurroundings, OrderBeginClaim, OrderClaim, OrderWorker
     DEF Next, WorkerStep, WorkerFault
<1>3. Order => OrderedUnlessOvertaken
  BY DEF Order
<1> QED BY <1>1, <1>2, <1>3, SpecInv, PTL DEF Spec

-----------------------------------------------------------------------------
(***************************************************************************)
(* Login commands.                                                         *)
(***************************************************************************)
\* With steady apps, cache and table say the same of a session.
LEMMA SteadyVerdict ==
    ASSUME SameWay, NEW r \in Replica, NEW s, Steady(s)
    PROVE  SessionApps(r, s) = (IF s \in commands THEN "match" ELSE "nomatch")
<1>1. CASE s \in AppSession /\ cached[r][s] # "none"
  <2>1. cached[r][s] \in {"match", "nomatch"}
    BY <1>1 DEF SameWay
  <2> QED BY <1>1, <2>1 DEF SameWay, SessionApps
<1>2. CASE ~(s \in AppSession /\ cached[r][s] # "none")
  BY <1>2 DEF SessionApps
<1> QED BY <1>1, <1>2

\* The tables of the apps, their types and the caches.
Caches(cm, ch, ca) ==
    /\ cm \subseteq AppSession /\ ch \in [AppSession -> Nat]
    /\ ca \in [Replica -> [AppSession -> {"none", "match", "nomatch"}]]
    /\ \A r \in Replica, s \in AppSession : ch[s] = 0 =>
          /\ ca[r][s] = "match" => s \in cm
          /\ ca[r][s] = "nomatch" => s \notin cm

\* The interceptor leaves in the cache what it used.
LEMMA IndexKeepsCaches ==
    ASSUME Inv, SameWay, NEW r \in Replica, worker[r].stage \in Busy
    PROVE  Caches(commands, changes, Index(r, Current(r)))
<1>1. PICK e \in DOMAIN row : e = Current(r)
  BY CurrentEvent
<1>2. Caches(commands, changes, cached)
  BY DEF SameWay, Caches, Steady
<1>3. CASE row[e].kind = "stop" \/ row[e].session \notin AppSession
  BY <1>1, <1>2, <1>3 DEF Index
<1>4. CASE ~(row[e].kind = "stop" \/ row[e].session \notin AppSession)
  <2>1. PICK s \in AppSession : s = row[e].session
    BY <1>4
  <2>2. PICK v : v = SessionApps(r, s)
    OBVIOUS
  <2>3. v \in {"match", "nomatch"}
    BY <1>2, <2>2 DEF SessionApps, Caches
  <2>4. changes[s] = 0 => v = (IF s \in commands THEN "match" ELSE "nomatch")
    BY <2>2, SteadyVerdict DEF Steady
  <2>5. Index(r, Current(r)) = [cached EXCEPT ![r] = [cached[r] EXCEPT ![s] = v]]
    BY <1>1, <1>2, <1>4, <2>1, <2>2 DEF Index, Caches
  <2>6. cached[r] \in [AppSession -> {"none", "match", "nomatch"}]
    BY <1>2 DEF Caches
  <2> DEFINE f == [cached[r] EXCEPT ![s] = v]
  <2>7. /\ f \in [AppSession -> {"none", "match", "nomatch"}]
        /\ \A x \in AppSession : f[x] = IF x = s THEN v ELSE cached[r][x]
    BY <2>3, <2>6
  <2> HIDE DEF f
  <2> DEFINE g == [cached EXCEPT ![r] = f]
  <2>8. /\ g \in [Replica -> [AppSession -> {"none", "match", "nomatch"}]]
        /\ \A q \in Replica : g[q] = IF q = r THEN f ELSE cached[q]
    BY <1>2, <2>7 DEF Caches
  <2>9. Index(r, Current(r)) = g
    BY <2>5 DEF f
  <2> HIDE DEF g
  <2>10. Caches(commands, changes, g)
    BY <1>2, <2>4, <2>7, <2>8 DEF Caches
  <2> QED BY <2>9, <2>10
<1> QED BY <1>3, <1>4

\* The way an event goes, with the state it depends on as arguments.
WentOneWay(ic, re, cm, ch, s, e) ==
    (s \in AppSession => ch[s] = 0) =>
       /\ e \in ic => s \in cm
       /\ \A k \in Sink : e \in re[k] => s \notin cm

\* The current event of a pass beyond the interceptor.
GoesOut(stage, kind, cm, ch, s) ==
    (/\ stage \in {"project", "publish", "enqueue"} /\ kind = "login"
     /\ s \in AppSession => ch[s] = 0) => s \notin cm

\* SameWay, by parts.
LEMMA SameWayParts ==
    SameWay <=>
      /\ Caches(commands, changes, cached)
      /\ \A e \in DOMAIN row : row[e].kind = "login" =>
            WentOneWay(intercepted, reached, commands, changes, row[e].session, e)
      /\ \A r \in Replica : GoesOut(worker[r].stage, row[Current(r)].kind, commands, changes,
                                    row[Current(r)].session)
BY DEF SameWay, Caches, Steady, WentOneWay, GoesOut

\* SameWay in the next state, by parts.
LEMMA SameWayPartsNext ==
    ASSUME Caches(commands', changes', cached'),
           \A e \in DOMAIN row' : row'[e].kind = "login" =>
              WentOneWay(intercepted', reached', commands', changes', row'[e].session, e),
           \A r \in Replica : GoesOut(worker'[r].stage, row'[Min(worker'[r].todo)].kind,
                                      commands', changes', row'[Min(worker'[r].todo)].session)
    PROVE  SameWay'
BY DEF SameWay, Caches, Steady, WentOneWay, GoesOut, Current

\* No event goes anywhere, no pass goes past the interceptor, and the apps stay.
LEMMA SameWayStays ==
    ASSUME Inv, SameWay, RowsStay, UNCHANGED <<reached, intercepted, commands, changes>>,
           \A e \in DOMAIN row' : e \notin DOMAIN row => e \notin intercepted /\ \A k \in Sink : e \notin reached[k],
           Caches(commands, changes, cached'),
           \A r \in Replica : \/ worker'[r].stage \notin {"project", "publish", "enqueue"}
                              \/ worker'[r] = worker[r]
    PROVE  SameWay'
<1>1. ASSUME NEW e \in DOMAIN row', row'[e].kind = "login"
      PROVE  WentOneWay(intercepted', reached', commands', changes', row'[e].session, e)
  <2>1. CASE e \in DOMAIN row
    BY <1>1, <2>1, SameWayParts DEF RowsStay, WentOneWay
  <2>2. CASE e \notin DOMAIN row
    BY <2>2 DEF WentOneWay
  <2> QED BY <2>1, <2>2
<1>2. ASSUME NEW r \in Replica
      PROVE  GoesOut(worker'[r].stage, row'[Min(worker'[r].todo)].kind,
                     commands', changes', row'[Min(worker'[r].todo)].session)
  <2>1. CASE worker'[r].stage \notin {"project", "publish", "enqueue"}
    BY <2>1 DEF GoesOut
  <2>2. CASE worker'[r] = worker[r] /\ worker[r].stage \in {"project", "publish", "enqueue"}
    <3>1. worker[r].stage \in Busy
      BY <2>2 DEF Busy, Stage
    <3>2. PICK e \in DOMAIN row : e = Current(r) /\ e = Min(worker'[r].todo)
      BY <2>2, <3>1, CurrentEvent DEF Current
    <3>3. GoesOut(worker[r].stage, row[e].kind, commands, changes, row[e].session)
      BY <3>2, SameWayParts
    <3> QED BY <2>2, <3>2, <3>3 DEF RowsStay
  <2> QED BY <2>1, <2>2
<1> QED BY <1>1, <1>2, SameWayPartsNext

\* An event on record is where it is; one that arrives has been nowhere.
LEMMA NowhereYet ==
    ASSUME Inv PROVE \A e : e \notin DOMAIN row => e \notin intercepted /\ \A k \in Sink : e \notin reached[k]
BY DEF Inv, Histories

\* A change of the apps makes the session unsteady, and leaves the others alone.
LEMMA SameWayChange ==
    ASSUME Inv, SameWay, NEW s \in AppSession, ChangeApp(s) PROVE SameWay'
<1>1. /\ changes' = [changes EXCEPT ![s] = @ + 1]
      /\ commands' = (commands \ {s}) \union ({s} \ commands)
      /\ UNCHANGED <<row, cached, worker, reached, intercepted>>
  BY DEF ChangeApp
<1>2. Caches(commands, changes, cached)
  BY SameWayParts
<1>3. /\ changes' \in [AppSession -> Nat] /\ changes'[s] # 0
      /\ \A x \in AppSession : x # s => changes'[x] = changes[x]
  BY <1>1, <1>2 DEF Caches
<1>4. commands' \subseteq AppSession /\ \A x : x # s => (x \in commands' <=> x \in commands)
  BY <1>1, <1>2 DEF Caches
<1>5. Caches(commands', changes', cached')
  BY <1>1, <1>2, <1>3, <1>4 DEF Caches
<1>6. ASSUME NEW e \in DOMAIN row, row[e].kind = "login"
      PROVE  WentOneWay(intercepted, reached, commands', changes', row[e].session, e)
  <2>1. WentOneWay(intercepted, reached, commands, changes, row[e].session, e)
    BY <1>6, SameWayParts
  <2> QED BY <1>3, <1>4, <2>1 DEF WentOneWay
<1>7. ASSUME NEW r \in Replica
      PROVE  GoesOut(worker[r].stage, row[Current(r)].kind, commands', changes', row[Current(r)].session)
  <2>1. GoesOut(worker[r].stage, row[Current(r)].kind, commands, changes, row[Current(r)].session)
    BY SameWayParts
  <2> QED BY <1>3, <1>4, <2>1 DEF GoesOut
<1> QED BY <1>1, <1>5, <1>6, <1>7, SameWayPartsNext DEF Current

\* An eviction.
LEMMA SameWayEvict ==
    ASSUME Inv, SameWay, NEW r \in Replica, NEW s \in AppSession, InvalidateSession(r, s)
    PROVE  SameWay'
<1>1. /\ cached' = [cached EXCEPT ![r][s] = "none"]
      /\ UNCHANGED <<row, commands, changes, worker, reached, intercepted>>
  BY DEF InvalidateSession
<1>2. Caches(commands, changes, cached)
  BY SameWayParts
<1>3. cached[r] \in [AppSession -> {"none", "match", "nomatch"}]
  BY <1>2 DEF Caches
<1> DEFINE f == [cached[r] EXCEPT ![s] = "none"]
<1>4. /\ f \in [AppSession -> {"none", "match", "nomatch"}]
      /\ \A x \in AppSession : f[x] = IF x = s THEN "none" ELSE cached[r][x]
  BY <1>3
<1>5. cached' = [cached EXCEPT ![r] = f]
  BY <1>1, <1>2 DEF Caches
<1> HIDE DEF f
<1>6. /\ cached' \in [Replica -> [AppSession -> {"none", "match", "nomatch"}]]
      /\ \A q \in Replica : cached'[q] = IF q = r THEN f ELSE cached[q]
  BY <1>2, <1>4, <1>5 DEF Caches
<1>7. Caches(commands, changes, cached')
  BY <1>2, <1>4, <1>6 DEF Caches
<1>8. RowsStay
  BY <1>1 DEF RowsStay
<1> QED BY <1>1, <1>7, <1>8, SameWayStays

\* The interceptor: with steady apps, every pass decides alike.
LEMMA SameWayIntercept ==
    ASSUME Inv, SameWay, NEW r \in Replica, Intercept(r) PROVE SameWay'
<1>1. /\ worker[r].stage = "intercept" /\ worker[r].stage \in Busy
      /\ "complete" \in Busy /\ "project" \in Busy
  BY DEF Intercept, Busy, Stage
<1>2. PICK e \in DOMAIN row : e = Current(r) /\ e = Min(worker[r].todo)
  BY <1>1, CurrentEvent DEF Current
<1>3. /\ UNCHANGED <<row, reached, commands, changes>> /\ cached' = Index(r, e)
      /\ IF HandleLogin(r, e)
         THEN intercepted' = intercepted \union {e} /\ GoTo(r, "complete")
         ELSE intercepted' = intercepted /\ GoTo(r, "project")
  BY <1>2 DEF Intercept, workerVars, appVars
<1>4. Caches(commands, changes, cached')
  BY <1>1, <1>2, <1>3, IndexKeepsCaches
<1>5. PICK s : s = row[e].session
  OBVIOUS
<1>6. (row[e].kind = "login" /\ Steady(s)) => (HandleLogin(r, e) <=> s \in commands)
  BY <1>5, SteadyVerdict DEF HandleLogin
<1>7. PICK stage \in {"complete", "project"} :
         /\ GoTo(r, stage) /\ (stage = "project" => ~HandleLogin(r, e))
  BY <1>3
<1>8. PICK w : PassMoves(r, w) /\ w.todo = worker[r].todo /\ w.stage = stage
  BY <1>1, <1>7, GoToMoves
<1>9. \A q \in Replica : worker'[q] = IF q = r THEN w ELSE worker[q]
  BY <1>8 DEF PassMoves, Inv, Passes
<1>10. ASSUME NEW x \in DOMAIN row, row[x].kind = "login"
       PROVE  WentOneWay(intercepted', reached, commands, changes, row[x].session, x)
  <2>1. WentOneWay(intercepted, reached, commands, changes, row[x].session, x)
    BY <1>10, SameWayParts
  <2>2. CASE x \notin intercepted' \/ x \in intercepted
    BY <2>1, <2>2 DEF WentOneWay
  <2>3. CASE x \in intercepted' /\ x \notin intercepted
    <3>1. x = e /\ HandleLogin(r, e)
      BY <1>3, <2>3
    <3>2. Steady(s) => s \in commands
      BY <1>6, <1>10, <3>1
    <3> QED BY <1>5, <2>1, <3>1, <3>2 DEF WentOneWay, Steady
  <2> QED BY <2>2, <2>3
<1>11. ASSUME NEW q \in Replica
       PROVE  GoesOut(worker'[q].stage, row[Min(worker'[q].todo)].kind, commands, changes,
                      row[Min(worker'[q].todo)].session)
  <2>1. CASE q = r
    <3>1. worker'[q].stage = stage /\ Min(worker'[q].todo) = e
      BY <1>2, <1>8, <1>9, <2>1
    <3> QED BY <1>5, <1>6, <1>7, <3>1 DEF GoesOut, Steady
  <2>2. CASE q # r
    BY <1>9, <2>2, SameWayParts DEF Current
  <2> QED BY <2>1, <2>2
<1> QED BY <1>3, <1>4, <1>10, <1>11, SameWayPartsNext

\* A consumer accepts the current event, which goes out already.
LEMMA SameWayReach ==
    ASSUME Inv, SameWay, NEW r \in Replica, Project(r) \/ Publish(r) \/ Enqueue(r) PROVE SameWay'
<1>1. /\ worker[r].stage \in {"project", "publish", "enqueue"} /\ worker[r].stage \in Busy
      /\ {"publish", "enqueue", "complete"} \subseteq Busy
      /\ {"projection", "realtime", "webhooks"} = Sink
  BY DEF Project, Publish, Enqueue, Busy, Stage, Sink
<1>2. PICK stage \in {"publish", "enqueue", "complete"}, sink \in Sink :
         GoTo(r, stage) /\ Reach(r, sink)
  BY <1>1 DEF Project, Publish, Enqueue
<1>3. UNCHANGED <<row, intercepted, commands, changes, cached>>
  BY DEF Project, Publish, Enqueue, workerVars, appVars
<1>4. PICK e \in DOMAIN row : e = Current(r) /\ e = Min(worker[r].todo)
  BY <1>1, CurrentEvent DEF Current
<1>5. \A k \in Sink : reached'[k] = IF k = sink THEN reached[k] \union {e} ELSE reached[k]
  BY <1>1, <1>2, <1>3, <1>4, ReachAdds
<1>6. PICK w : PassMoves(r, w) /\ w.todo = worker[r].todo /\ w.stage = stage
  BY <1>1, <1>2, GoToMoves
<1>7. \A q \in Replica : worker'[q] = IF q = r THEN w ELSE worker[q]
  BY <1>6 DEF PassMoves, Inv, Passes
<1>8. GoesOut(worker[r].stage, row[e].kind, commands, changes, row[e].session)
  BY <1>4, SameWayParts
<1>9. ASSUME NEW x \in DOMAIN row, row[x].kind = "login"
      PROVE  WentOneWay(intercepted, reached', commands, changes, row[x].session, x)
  <2>1. WentOneWay(intercepted, reached, commands, changes, row[x].session, x)
    BY <1>9, SameWayParts
  <2>2. CASE x = e
    BY <1>1, <1>8, <1>9, <2>1, <2>2 DEF GoesOut, WentOneWay
  <2>3. CASE x # e
    BY <1>5, <2>1, <2>3 DEF WentOneWay
  <2> QED BY <2>2, <2>3
<1>10. ASSUME NEW q \in Replica
       PROVE  GoesOut(worker'[q].stage, row[Min(worker'[q].todo)].kind, commands, changes,
                      row[Min(worker'[q].todo)].session)
  <2>1. CASE q = r
    <3>1. Min(worker'[q].todo) = e
      BY <1>4, <1>6, <1>7, <2>1
    <3> QED BY <1>1, <1>8, <3>1 DEF GoesOut
  <2>2. CASE q # r
    BY <1>7, <2>2, SameWayParts DEF Current
  <2> QED BY <2>1, <2>2
<1>11. Caches(commands, changes, cached)
  BY SameWayParts
<1> QED BY <1>3, <1>9, <1>10, <1>11, SameWayPartsNext

\* A pass that begins, ends or goes to its next event is at the interceptor or
\* before it.
LEMMA SameWayPass ==
    ASSUME Inv, SameWay, NEW r \in Replica, NEW w, PassMoves(r, w),
           w.stage \in {"idle", "claim", "intercept"}, RowsStay, DOMAIN row' = DOMAIN row,
           UNCHANGED <<reached, intercepted, commands, changes>>,
           Caches(commands, changes, cached')
    PROVE  SameWay'
<1>1. \A q \in Replica : worker'[q] = IF q = r THEN w ELSE worker[q]
  BY DEF PassMoves, Inv, Passes
<1> QED BY <1>1, SameWayStays

\* The other steps of a worker.
LEMMA SameWayWorker ==
    ASSUME Inv, SameWay, NEW r \in Replica,
           \/ BeginClaim(r) \/ ClaimCommittedEvents(r) \/ CompleteCommittedEvent(r)
           \/ WorkerFault(r) \/ Crash(r)
    PROVE  SameWay'
<1>0. Caches(commands, changes, cached)
  BY SameWayParts
<1>1. CASE BeginClaim(r)
  <2>1. /\ worker \in [Replica -> Pass] /\ worker[r].stage = "idle"
        /\ UNCHANGED <<row, reached, intercepted, commands, changes, cached>>
    BY <1>1 DEF Inv, Passes, BeginClaim, workerVars, appVars
  <2>2. RowsStay
    BY <2>1 DEF RowsStay
  <2>3. \A q \in Replica : worker'[q].stage = "claim" \/ worker'[q] = worker[q]
    BY <1>1, <2>1 DEF BeginClaim, Pass
  <2> QED BY <1>0, <2>1, <2>2, <2>3, SameWayStays
<1>2. CASE ClaimCommittedEvents(r)
  <2>1. PICK w : PassMoves(r, w) /\ w.stage \in {"idle", "intercept"}
    BY <1>2, ClaimMoves
  <2>2. DOMAIN row' = DOMAIN row /\ RowsStay
    BY <1>2, ClaimMoves DEF RowsStay
  <2>3. UNCHANGED <<reached, intercepted, commands, changes, cached>>
    BY <1>2 DEF ClaimCommittedEvents, appVars
  <2> QED BY <1>0, <2>1, <2>2, <2>3, SameWayPass
<1>3. CASE CompleteCommittedEvent(r) \/ CompleteFails(r)
  <2>1. worker[r].stage = "complete" /\ row' \in [DOMAIN row -> Row]
    BY <1>3, CompleteMoves, CompleteRows
  <2>2. \A e \in DOMAIN row : row'[e].session = row[e].session /\ row'[e].kind = row[e].kind
    BY <1>3, <2>1, CompleteMoves, CompleteRows
  <2>3. DOMAIN row' = DOMAIN row /\ RowsStay
    BY <2>1, <2>2 DEF RowsStay
  <2>4. PICK failed \in SUBSET Session : Advance(r, failed)
    BY <1>3, CompleteMoves
  <2>5. PICK w : PassMoves(r, w) /\ w.stage \in {"idle", "intercept"}
    BY <2>4, AdvanceMoves
  <2>6. UNCHANGED <<reached, intercepted, commands, changes, cached>>
    BY <1>3 DEF CompleteCommittedEvent, CompleteFails, appVars
  <2> QED BY <1>0, <2>3, <2>5, <2>6, SameWayPass
<1>4. CASE EnqueueFails(r) \/ ConsumeFails(r)
  <2>1. worker[r].stage \in Busy
    BY <1>4 DEF EnqueueFails, ConsumeFails, Busy, Stage
  <2>2. PICK failed \in SUBSET Session : Advance(r, failed)
    BY <1>4, <2>1, FailedTyped DEF EnqueueFails, ConsumeFails, FailSession
  <2>3. PICK w : PassMoves(r, w) /\ w.stage \in {"idle", "intercept"}
    BY <2>2, AdvanceMoves
  <2>4. /\ UNCHANGED <<row, reached, intercepted, commands, changes>>
        /\ cached' = cached \/ cached' = Index(r, Current(r))
    BY <1>4 DEF EnqueueFails, ConsumeFails, workerVars, appVars
  <2>5. Caches(commands, changes, cached')
    BY <1>0, <2>1, <2>4, IndexKeepsCaches
  <2>6. DOMAIN row' = DOMAIN row /\ RowsStay
    BY <2>4 DEF RowsStay
  <2> QED BY <2>3, <2>4, <2>5, <2>6, SameWayPass
<1>5. CASE Crash(r)
  <2>1. /\ UNCHANGED <<row, reached, intercepted, commands, changes>>
        /\ cached' = [cached EXCEPT ![r] = NoIndex]
    BY <1>5 DEF Crash, appVars
  <2>2. PassMoves(r, IdleWorker) /\ IdleWorker.stage = "idle"
    BY <1>5 DEF Crash, PassMoves, IdleWorker, Pass, Stage, Busy
  <2>3. /\ NoIndex \in [AppSession -> {"none", "match", "nomatch"}]
        /\ \A s \in AppSession : NoIndex[s] = "none"
    BY DEF NoIndex
  <2>4. Caches(commands, changes, cached')
    BY <1>0, <2>1, <2>3 DEF Caches
  <2>5. DOMAIN row' = DOMAIN row /\ RowsStay
    BY <2>1 DEF RowsStay
  <2> QED BY <2>1, <2>2, <2>4, <2>5, SameWayPass
<1> QED BY <1>1, <1>2, <1>3, <1>4, <1>5 DEF WorkerFault

\* A new event leaves the others alone.
LEMMA IngestRows ==
    ASSUME Inv, NEW s \in Session, NEW k \in Kind, Ingest(s, k) PROVE RowsStay
<1> DEFINE new == [session |-> s, kind |-> k, state |-> "open",
                   owner |-> NoOwner, claim |-> {}, live |-> FALSE]
<1>1. new \in Row /\ row' = Append(row, new)
  BY DEF Row, Ingest
<1>2. Len(row) \in Nat /\ DOMAIN row = 1..Len(row) /\ row \in Seq(Row)
  BY OnRecord DEF Inv, Table
<1> HIDE DEF new
<1>3. DOMAIN row' = 1..(Len(row) + 1) /\ \A e \in 1..Len(row) : row'[e] = row[e]
  BY <1>1, <1>2
<1> QED BY <1>2, <1>3 DEF RowsStay

\* Rows come, go and lose their leases.
LEMMA SameWayRows ==
    ASSUME Inv, SameWay, UNCHANGED <<commands, changes, cached, worker, reached, intercepted>>,
           \/ row' = row
           \/ \E s \in Session : DeleteSession(s) \/ \E k \in Kind : Ingest(s, k)
           \/ \E r \in Replica, c \in SUBSET Event : ExpireLease(r, c)
    PROVE  SameWay'
<1>0. /\ Len(row) \in Nat /\ DOMAIN row = 1..Len(row) /\ row \in Seq(Row)
      /\ \A e \in DOMAIN row : row[e] \in Row
  BY OnRecord DEF Inv, Table
<1>1. RowsStay
  <2>1. CASE row' = row
    BY <2>1 DEF RowsStay
  <2>2. ASSUME NEW s \in Session, NEW k \in Kind, Ingest(s, k) PROVE RowsStay
    BY <2>2, IngestRows
  <2>3. ASSUME NEW s \in Session, DeleteSession(s) PROVE RowsStay
    <3>1. row' = [e \in DOMAIN row |-> IF row[e].session = s
                                       THEN [row[e] EXCEPT !.state = "deleted"] ELSE row[e]]
      BY <2>3 DEF DeleteSession
    <3> QED BY <1>0, <3>1 DEF Row, RowsStay
  <2>4. ASSUME NEW r \in Replica, NEW c \in SUBSET Event, ExpireLease(r, c) PROVE RowsStay
    <3> DEFINE held == {e \in c \cap DOMAIN row : row[e].owner = r /\ row[e].claim = c /\ Leased(e)}
    <3>1. row' = [e \in DOMAIN row |->
                    IF e \in held THEN [row[e] EXCEPT !.live = FALSE] ELSE row[e]]
      BY <2>4 DEF ExpireLease
    <3> HIDE DEF held
    <3> QED BY <1>0, <3>1 DEF Row, RowsStay
  <2> QED BY <2>1, <2>2, <2>3, <2>4
<1>2. Caches(commands, changes, cached)
  BY SameWayParts
<1> QED BY <1>1, <1>2, SameWayStays, NowhereYet

\* While the apps of its session stay as they are, a login command that one pass has
\* kept reaches no consumer on any other, for any number of replicas, caches, retries
\* and faults.
THEOREM SteadyAppsKeepLogins == Spec => []KeptStaysPrivate
<1>1. Init => SameWay
  <2> SUFFICES ASSUME Init PROVE SameWay
    OBVIOUS
  <2>1. NoIndex \in [AppSession -> {"none", "match", "nomatch"}]
    BY DEF NoIndex
  <2>2. \A s \in AppSession : NoIndex[s] = "none"
    BY DEF NoIndex
  <2>3. IdleWorker.stage = "idle"
    BY DEF IdleWorker
  <2>4. /\ commands \subseteq AppSession /\ changes \in [AppSession -> Nat]
        /\ cached \in [Replica -> [AppSession -> {"none", "match", "nomatch"}]]
    BY <2>1 DEF Init
  <2>5. \A r \in Replica, s \in AppSession : cached[r][s] = "none"
    BY <2>2 DEF Init
  <2>6. DOMAIN row = {} /\ \A r \in Replica : worker[r].stage = "idle"
    BY <2>3 DEF Init
  <2> QED BY <2>4, <2>5, <2>6 DEF SameWay
<1>2. Inv /\ SameWay /\ [Next]_vars => SameWay'
  <2> SUFFICES ASSUME Inv, SameWay, [Next]_vars PROVE SameWay'
    OBVIOUS
  <2>1. ASSUME NEW r \in Replica, WorkerStep(r) \/ WorkerFault(r) \/ Crash(r) PROVE SameWay'
    BY <2>1, SameWayIntercept, SameWayReach, SameWayWorker DEF WorkerStep
  <2>2. ASSUME NEW s \in AppSession,
               ChangeApp(s) \/ \E r \in Replica : InvalidateSession(r, s)
        PROVE  SameWay'
    BY <2>2, SameWayChange, SameWayEvict
  <2>3. CASE \E s \in Session : DeleteSession(s) \/ \E k \in Kind : Ingest(s, k)
    <3>1. UNCHANGED <<commands, changes, cached, worker, reached, intercepted>>
      BY <2>3 DEF DeleteSession, Ingest, appVars
    <3> QED BY <2>3, <3>1, SameWayRows
  <2>4. CASE \E r \in Replica, c \in SUBSET Event : ExpireLease(r, c)
    <3>1. UNCHANGED <<commands, changes, cached, worker, reached, intercepted>>
      BY <2>4 DEF ExpireLease, appVars
    <3> QED BY <2>4, <3>1, SameWayRows
  <2>5. CASE UNCHANGED <<row, commands, changes, cached, worker, reached, intercepted>>
    BY <2>5, SameWayRows
  <2>6. ASSUME \/ \E h \in Hook : DeleteHook(h)
               \/ \E h \in Hook, e \in Event : PruneDelivery(h, e)
               \/ \E e \in DOMAIN row : PruneLog(e)
               \/ \E r \in Replica : DispatcherStep(r) \/ MarkFails(r)
               \/ \E d \in Hook \X Event : BecomeDue(d)
               \/ UNCHANGED vars
        PROVE  UNCHANGED <<row, commands, changes, cached, worker, reached, intercepted>>
    BY <2>6 DEF DeleteHook, PruneDelivery, PruneLog, DispatcherStep, ClaimDue, LoadDelivery,
                Post, Mark, MarkFails, BecomeDue, dispatchVars, appVars, vars
  <2> QED BY <2>1, <2>2, <2>3, <2>4, <2>5, <2>6 DEF Next, Surroundings
<1>3. Inv /\ SameWay => KeptStaysPrivate
  <2> SUFFICES ASSUME Inv, SameWay, NEW k \in Sink, NEW e \in intercepted \cap reached[k],
                      row[e].kind = "login"
               PROVE  row[e].session \in AppSession /\ changes[row[e].session] > 0
    BY DEF KeptStaysPrivate
  <2>1. e \in DOMAIN row
    BY DEF Inv, Histories
  <2>2. ~Steady(row[e].session)
    BY <2>1 DEF SameWay
  <2>3. row[e].session \in AppSession /\ changes[row[e].session] # 0
    BY <2>2 DEF Steady
  <2>4. changes[row[e].session] \in Nat
    BY <2>3 DEF SameWay
  <2> QED BY <2>3, <2>4
<1> QED BY <1>1, <1>2, <1>3, SpecInv, PTL DEF Spec

=============================================================================
