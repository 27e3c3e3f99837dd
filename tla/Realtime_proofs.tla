-------------------------- MODULE Realtime_proofs ---------------------------
(***************************************************************************)
(* Once a process has handled the revocation of a key, none of its         *)
(* requests is granted with that key, for any number of requests, foreign  *)
(* notices and restarts.                                                   *)
(*                                                                         *)
(* The property is about a step; what carries it is an invariant of the    *)
(* cache's generation.  A snapshot is never ahead of the generation        *)
(* (Snapshots), so the eviction puts every verification under way behind   *)
(* it; and while the row is gone no verification reaches the point where   *)
(* it would store under the new one (Closed).                              *)
(***************************************************************************)
EXTENDS Realtime, FiniteSetTheorems, TLAPS

Row == [row: BOOLEAN, notice: {"none", "sent", "evicted", "handled", "lost"}]
Cached == [entry: {"none", "fresh", "stale"}, generation: Nat]
Request == [pc: {"idle", "miss", "verify", "store", "granted"}, generation: Nat]

AccessType ==
    /\ key \in Row
    /\ cache \in Cached
    /\ caller \in [Caller -> Request]

\* A snapshot of the generation is not ahead of it.
Snapshots == \A c \in Caller : caller[c].generation <= cache.generation

Evicted == key.notice \in {"evicted", "handled"}

\* A notice follows the deletion of the row; after the eviction the entry is not
\* an answer and nobody can store one.
Closed ==
    /\ key.notice # "none" => ~key.row
    /\ Evicted => /\ cache.entry # "fresh"
                  /\ \A c \in Caller :
                        At(c, "store") => caller[c].generation # cache.generation

Inv == AccessType /\ Snapshots /\ Closed

-----------------------------------------------------------------------------
\* The initial state: no notice, an empty cache, no request under way.
LEMMA InitInv == Init => Inv
BY DEF Init, Inv, AccessType, Row, Cached, Request, Snapshots, Closed, Evicted, At, NoCall

\* What a step of one request's verification may do to the invariant: the
\* generation and the row stay, and the request's new record is one that the
\* invariant allows.
LEMMA CallerStep ==
    ASSUME Inv, NEW c \in Caller, NEW r \in Request,
           caller' = [caller EXCEPT ![c] = r], key' = key, cache' \in Cached,
           cache'.generation = cache.generation,
           r.generation <= cache.generation,
           Evicted => cache'.entry # "fresh",
           Evicted /\ r.pc = "store" => r.generation # cache.generation
    PROVE  Inv'
<1>1. AccessType'
  BY DEF Inv, AccessType
<1>2. \A d \in Caller : caller'[d] = IF d = c THEN r ELSE caller[d]
  BY DEF Inv, AccessType
<1>3. Snapshots'
  BY <1>2 DEF Inv, Snapshots
<1>4. Closed'
  BY <1>2 DEF Inv, Closed, Evicted, At
<1> QED BY <1>1, <1>3, <1>4 DEF Inv

\* lookup answers from a fresh entry only, and deletes an expired one.
LEMMA LookupInv == ASSUME Inv, NEW c \in Caller, Lookup(c) PROVE Inv'
<1> DEFINE r == [caller[c] EXCEPT !.pc = IF cache.entry = "fresh" THEN "granted" ELSE "miss"]
<1>1. /\ r \in Request /\ r.generation = caller[c].generation
      /\ r.pc \in {"granted", "miss"}
  BY DEF Inv, AccessType, Request
<1>2. caller' = [caller EXCEPT ![c] = r] /\ key' = key
  BY DEF Lookup, Goes
<1>3. /\ cache' \in Cached /\ cache'.generation = cache.generation
      /\ cache'.entry = "fresh" => cache.entry = "fresh"
  BY DEF Lookup, Inv, AccessType, Cached
<1>4. r.generation <= cache.generation
  BY <1>1 DEF Inv, Snapshots
<1>5. Evicted => cache'.entry # "fresh"
  BY <1>3 DEF Inv, Closed
<1> HIDE DEF r
<1> QED BY <1>1, <1>2, <1>3, <1>4, <1>5, CallerStep

\* CurrentGeneration takes the snapshot before the row is read.
LEMMA CurrentGenerationInv == ASSUME Inv, NEW c \in Caller, CurrentGeneration(c) PROVE Inv'
<1> DEFINE r == [pc |-> "verify", generation |-> cache.generation]
<1>1. r \in Request /\ r.generation = cache.generation /\ r.pc = "verify"
  BY DEF Inv, AccessType, Cached, Request
<1>2. caller' = [caller EXCEPT ![c] = r] /\ key' = key /\ cache' = cache
  BY DEF CurrentGeneration
<1>3. cache' \in Cached /\ cache.generation \in Nat /\ (Evicted => cache'.entry # "fresh")
  BY <1>2 DEF Inv, AccessType, Cached, Closed
<1>4. r.generation <= cache.generation /\ cache'.generation = cache.generation
  BY <1>1, <1>2, <1>3
<1> HIDE DEF r
<1> QED BY <1>1, <1>2, <1>3, <1>4, CallerStep

\* VerifyKey reaches the store only while the row is there, hence before the
\* notice.
LEMMA VerifyKeyInv == ASSUME Inv, NEW c \in Caller, VerifyKey(c) PROVE Inv'
<1> DEFINE r == IF key.row THEN [caller[c] EXCEPT !.pc = "store"] ELSE NoCall
<1>1. /\ r \in Request
      /\ r.generation \in {caller[c].generation, 0}
      /\ r.pc = "store" => key.row
  BY DEF Inv, AccessType, Request, NoCall
<1>2. caller' = [caller EXCEPT ![c] = r] /\ key' = key /\ cache' = cache
  BY DEF VerifyKey
<1>3. cache' \in Cached /\ (Evicted => cache'.entry # "fresh")
  BY <1>2 DEF Inv, AccessType, Closed
<1>4. r.generation <= cache.generation
  BY <1>1 DEF Inv, Snapshots, AccessType, Cached
<1>5. Evicted => ~key.row
  BY DEF Inv, Closed, Evicted
<1> HIDE DEF r
<1> QED BY <1>1, <1>2, <1>3, <1>4, <1>5, CallerStep

\* storeIfGeneration fills the cache only under the generation of the snapshot,
\* which after the eviction no request has.
LEMMA StoreInv == ASSUME Inv, NEW c \in Caller, StoreIfGeneration(c) PROVE Inv'
<1> DEFINE hit == caller[c].generation = cache.generation
           r == [caller[c] EXCEPT !.pc = IF hit THEN "granted" ELSE "miss"]
<1>1. /\ r \in Request /\ r.generation = caller[c].generation
      /\ r.pc \in {"granted", "miss"}
  BY DEF Inv, AccessType, Request
<1>2. caller' = [caller EXCEPT ![c] = r] /\ key' = key
  BY DEF StoreIfGeneration, Goes
<1>3. cache' \in Cached /\ cache'.generation = cache.generation
  BY DEF StoreIfGeneration, Inv, AccessType, Cached
<1>4. r.generation <= cache.generation
  BY <1>1 DEF Inv, Snapshots
<1>5. Evicted => ~hit
  BY DEF StoreIfGeneration, Inv, Closed
<1>6. ~hit => cache' = cache
  BY DEF StoreIfGeneration
<1>7. Evicted => cache'.entry # "fresh"
  BY <1>5, <1>6 DEF Inv, Closed
<1> HIDE DEF r, hit
<1> QED BY <1>1, <1>2, <1>3, <1>4, <1>7, CallerStep

\* A request that leaves, or mints a ticket, is forgotten.
LEMMA LeaveInv ==
    ASSUME Inv, NEW c \in Caller, caller' = [caller EXCEPT ![c] = NoCall],
           key' = key, cache' = cache
    PROVE  Inv'
<1>1. NoCall \in Request /\ NoCall.generation = 0 /\ NoCall.pc = "idle"
  BY DEF NoCall, Request
<1>2. cache' \in Cached /\ 0 <= cache.generation /\ (Evicted => cache'.entry # "fresh")
  BY DEF Inv, AccessType, Cached, Closed
<1> QED BY <1>1, <1>2, CallerStep

-----------------------------------------------------------------------------
\* Evictions advance the generation past every snapshot.
LEMMA EvictInv ==
    ASSUME Inv, NEW matches \in BOOLEAN, EvictBy(matches), caller' = caller, key' \in Row,
           key'.notice # "none" => ~key'.row,
           Evicted' => matches \/ Evicted
    PROVE  Inv'
<1>1. /\ cache' \in Cached
      /\ cache'.generation = cache.generation + 1
      /\ cache'.entry = IF matches THEN "none" ELSE cache.entry
  BY DEF EvictBy, Inv, AccessType, Cached
<1>2. AccessType'
  BY <1>1 DEF Inv, AccessType
<1>3. \A c \in Caller : /\ caller[c].generation \in Nat
                        /\ caller[c].generation <= cache.generation
  BY DEF Inv, AccessType, Request, Snapshots
<1>4. cache.generation \in Nat
  BY DEF Inv, AccessType, Cached
<1>5. \A c \in Caller : /\ caller'[c].generation <= cache'.generation
                        /\ caller'[c].generation # cache'.generation
  BY <1>1, <1>3, <1>4
<1>6. Evicted' => cache'.entry # "fresh"
  BY <1>1 DEF Inv, Closed
<1> QED BY <1>2, <1>5, <1>6 DEF Inv, Snapshots, Closed

\* The subscriber evicts the key.
LEMMA HandleRevokedInv == ASSUME Inv, HandleRevoked PROVE Inv'
<1>1. key' \in Row /\ ~key'.row /\ caller' = caller /\ EvictBy(TRUE)
  BY DEF HandleRevoked, Inv, AccessType, Row, Closed
<1> QED BY <1>1, EvictInv

\* A notice about another principal advances the generation and keeps the entry.
LEMMA HandleOtherInv == ASSUME Inv, HandleOther PROVE Inv'
<1>1. /\ key' = key /\ key \in Row /\ caller' = caller /\ EvictBy(FALSE)
      /\ key.notice # "none" => ~key.row
  BY DEF HandleOther, Inv, AccessType, Closed
<1>2. Evicted' => Evicted
  BY <1>1 DEF Evicted
<1> QED BY <1>1, <1>2, EvictInv

\* Steps on the row and its notice that do not evict.
LEMMA NoticeInv ==
    ASSUME Inv, key' \in Row, cache' = cache, caller' = caller,
           key'.notice # "none" => ~key'.row,
           Evicted' => Evicted
    PROVE  Inv'
BY DEF Inv, AccessType, Snapshots, Closed, At

\* The deletion of the row, the loss of its notice, and the drop that follows the
\* eviction.
LEMMA KeySteps == ASSUME Inv, DeleteKey \/ NoticeLost \/ DropByKey PROVE Inv'
<1>1. CASE DeleteKey
  <2>1. key' \in Row /\ key'.notice = "sent" /\ ~key'.row /\ cache' = cache /\ caller' = caller
    BY <1>1 DEF DeleteKey, Row
  <2> QED BY <2>1, NoticeInv DEF Evicted
<1>2. CASE NoticeLost
  <2>1. key' \in Row /\ key'.notice = "lost" /\ ~key'.row /\ cache' = cache /\ caller' = caller
    BY <1>2 DEF NoticeLost, Inv, AccessType, Row, Closed
  <2> QED BY <2>1, NoticeInv DEF Evicted
<1>3. CASE DropByKey
  <2>1. key' \in Row /\ ~key'.row /\ cache' = cache /\ caller' = caller /\ Evicted
    BY <1>3 DEF DropByKey, Inv, AccessType, Row, Closed, Evicted
  <2> QED BY <2>1, NoticeInv
<1> QED BY <1>1, <1>2, <1>3

\* An entry that ages is no longer an answer.
LEMMA EntryAgesInv == ASSUME Inv, EntryAges PROVE Inv'
<1>1. /\ cache' \in Cached /\ cache'.generation = cache.generation
      /\ cache'.entry # "fresh" /\ key' = key /\ caller' = caller
  BY DEF EntryAges, Inv, AccessType, Cached
<1> QED BY <1>1 DEF Inv, AccessType, Snapshots, Closed, Evicted, At

\* A new process has neither entries nor requests.
LEMMA RestartInv == ASSUME Inv, Restart PROVE Inv'
<1>1. key' \in Row /\ (key'.notice # "none" => ~key'.row)
  BY DEF Restart, Inv, AccessType, Row, Closed
<1>2. /\ cache' = [entry |-> "none", generation |-> 0]
      /\ caller' = [c \in Caller |-> NoCall]
  BY DEF Restart
<1>3. AccessType'
  BY <1>1, <1>2 DEF AccessType, Cached, Request, NoCall
<1>4. Snapshots' /\ (\A c \in Caller : ~At(c, "store")') /\ cache'.entry # "fresh"
  BY <1>2 DEF Snapshots, At, NoCall
<1> QED BY <1>1, <1>3, <1>4 DEF Inv, Closed

-----------------------------------------------------------------------------
\* The tickets, the pump and the event log touch neither key nor cache.
LEMMA FrameInv == ASSUME Inv, UNCHANGED access PROVE Inv'
BY DEF access, Inv, AccessType, Snapshots, Closed, Evicted, At

\* Every step keeps the invariant.
LEMMA NextInv == Inv /\ [Next]_vars => Inv'
<1> SUFFICES ASSUME Inv, [Next]_vars PROVE Inv'
  OBVIOUS
<1>1. ASSUME NEW c \in Caller, Lookup(c) \/ Call(c) \/ MintTicket(c) PROVE Inv'
  <2>1. CASE Lookup(c)
    BY <2>1, LookupInv
  <2>2. CASE CurrentGeneration(c)
    BY <2>2, CurrentGenerationInv
  <2>3. CASE VerifyKey(c)
    BY <2>3, VerifyKeyInv
  <2>4. CASE StoreIfGeneration(c)
    BY <2>4, StoreInv
  <2>5. CASE Leave(c) \/ MintTicket(c)
    BY <2>5, LeaveInv DEF Leave, MintTicket
  <2> QED BY <1>1, <2>1, <2>2, <2>3, <2>4, <2>5 DEF Call
<1>2. CASE EntryAges
  BY <1>2, EntryAgesInv
<1>3. CASE DeleteKey \/ NoticeLost \/ DropByKey
  BY <1>3, KeySteps
<1>4. CASE HandleRevoked
  BY <1>4, HandleRevokedInv
<1>5. CASE HandleOther
  BY <1>5, HandleOtherInv
<1>6. CASE Restart
  BY <1>6, RestartInv
<1>7. CASE RedeemTicket \/ Pump \/ CloseConn \/ SubscriptionBreaks
  <2>1. UNCHANGED access
    BY <1>7 DEF RedeemTicket, Pump, Register, Subscribe, SubscriptionLands,
                ReadLog, SendReplay, TailEvent,
                CloseConn, SubscriptionBreaks
  <2> QED BY <2>1, FrameInv
<1>8. ASSUME NEW e \in Event, Insert(e) \/ Commit(e) \/ Publish(e) PROVE Inv'
  <2>1. UNCHANGED access
    BY <1>8 DEF Insert, Commit, Publish
  <2> QED BY <2>1, FrameInv
<1>9. CASE UNCHANGED vars
  BY <1>9, FrameInv DEF vars
<1> QED BY <1>1, <1>2, <1>3, <1>4, <1>5, <1>6, <1>7, <1>8, <1>9 DEF Next

\* A step of a process that has evicted the key grants nothing: the cache has no
\* answer, and no verification under way may store one.
LEMMA StepGrantsNothing ==
    Inv /\ [Next]_vars =>
      (Evicted => \A c \in Caller : caller[c].pc # "granted" => caller'[c].pc # "granted")
<1> SUFFICES ASSUME Inv, [Next]_vars, Evicted, NEW c \in Caller, caller[c].pc # "granted"
             PROVE  caller'[c].pc # "granted"
  OBVIOUS
<1>0. caller \in [Caller -> Request]
  BY DEF Inv, AccessType
<1>1. ASSUME NEW d \in Caller, Lookup(d) \/ Call(d) \/ MintTicket(d)
      PROVE  caller'[c].pc # "granted"
  <2>1. CASE Lookup(d)
    BY <2>1, <1>0 DEF Lookup, Goes, Inv, Closed, Request
  <2>2. CASE StoreIfGeneration(d)
    BY <2>2, <1>0 DEF StoreIfGeneration, Goes, Inv, Closed, Request
  <2>3. CASE CurrentGeneration(d) \/ VerifyKey(d) \/ Leave(d) \/ MintTicket(d)
    BY <2>3, <1>0 DEF CurrentGeneration, VerifyKey, Leave, MintTicket, NoCall, Request
  <2> QED BY <1>1, <2>1, <2>2, <2>3 DEF Call
<1>2. CASE Restart
  BY <1>2 DEF Restart, NoCall
<1>3. CASE \/ EntryAges \/ DeleteKey \/ NoticeLost \/ HandleRevoked \/ DropByKey \/ HandleOther
           \/ RedeemTicket \/ Pump \/ CloseConn \/ SubscriptionBreaks
  <2>1. caller' = caller
    BY <1>3 DEF EntryAges, DeleteKey, NoticeLost, HandleRevoked, DropByKey, HandleOther,
                RedeemTicket, Pump, Register, Subscribe, SubscriptionLands,
                ReadLog, SendReplay, TailEvent,
                CloseConn, SubscriptionBreaks, access
  <2> QED BY <2>1
<1>4. ASSUME NEW e \in Event, Insert(e) \/ Commit(e) \/ Publish(e)
      PROVE  caller'[c].pc # "granted"
  BY <1>4 DEF Insert, Commit, Publish, access
<1>5. CASE UNCHANGED vars
  BY <1>5 DEF vars, access
<1> QED BY <1>1, <1>2, <1>3, <1>4, <1>5 DEF Next

\* Once a process has evicted a revoked key, no request is granted with it, whatever
\* verifications were under way, whatever other notices arrive and however often
\* the process restarts.
THEOREM RevocationHolds == Spec => NoGrantAfterRevocation
<1>1. Init => Inv
  BY InitInv
<1>2. Inv /\ [Next]_vars => Inv'
  BY NextInv
<1>3. Inv /\ [Next]_vars =>
        [key.notice \in {"evicted", "handled"} =>
           \A c \in Caller : caller[c].pc # "granted" => caller'[c].pc # "granted"]_vars
  BY StepGrantsNothing DEF Evicted
<1> QED BY <1>1, <1>2, <1>3, PTL DEF Spec, NoGrantAfterRevocation

-----------------------------------------------------------------------------
(***************************************************************************)
(* The pump.  What a connection has to send, because the log held it when  *)
(* it was read or because it was published to the subscription, has been   *)
(* delivered, is in the replay or waits in the subscription, wherever      *)
(* between the two the subscription lands.  What the tail skips as the     *)
(* boundary was in the replay, or is the cursor: an event that the client  *)
(* had received before.                                                    *)
(***************************************************************************)
Cursor == 0..MaxEvents
Phase == {"none", "ticket", "redeemed", "subscribe", "read", "replay", "tail"}
Conn == [pc: Phase, registered: BOOLEAN, from: Cursor, landed: BOOLEAN, boundary: Cursor,
         replay: Seq(Event), queue: Seq(Event), cut: BOOLEAN, due: SUBSET Event]

PumpType ==
    /\ log \in [Event -> {"none", "open", "committed", "published"}]
    /\ conn \in Conn
    /\ client \in [seen: SUBSET Event, last: Cursor]

Waiting(q, e) == \E i \in 1..Len(q) : q[i] = e

\* Entries wait to be replayed only between the read of the log and the tail.
ReplayEnds == conn.pc # "replay" => conn.replay = <<>>

\* What is due and not received yet waits in the replay or in the subscription.
Owed ==
    ~conn.cut =>
      \A e \in conn.due :
         e \in client.seen \/ Waiting(conn.replay, e) \/ Waiting(conn.queue, e)

\* A cursor is an event the client received.
CursorIsSeen ==
    /\ client.last # NoEvent => client.last \in client.seen
    /\ conn.from # NoEvent => conn.from \in client.seen

\* The event that the tail will skip was received, or waits to be replayed.
BoundaryIsReplayed ==
    conn.boundary # NoEvent =>
      conn.boundary \in client.seen \/ Waiting(conn.replay, conn.boundary)

PumpInv == PumpType /\ ReplayEnds /\ Owed /\ CursorIsSeen /\ BoundaryIsReplayed

\* What waits in a queue after its head is taken, or a new entry is added.
LEMMA WaitingMoves ==
    ASSUME NEW q \in Seq(Event), NEW e \in Event
    PROVE  /\ ~Waiting(<<>>, e)
           /\ q # <<>> => /\ Head(q) \in Event /\ Tail(q) \in Seq(Event)
                          /\ Waiting(q, e) <=> e = Head(q) \/ Waiting(Tail(q), e)
           /\ \A d \in Event : /\ Append(q, d) \in Seq(Event)
                               /\ Waiting(q, e) \/ e = d => Waiting(Append(q, d), e)
<1>1. ~Waiting(<<>>, e)
  BY DEF Waiting
<1>2. ASSUME q # <<>>
      PROVE  /\ Head(q) \in Event /\ Tail(q) \in Seq(Event)
             /\ Waiting(q, e) <=> e = Head(q) \/ Waiting(Tail(q), e)
  <2>1. /\ Head(q) = q[1] /\ Head(q) \in Event /\ Tail(q) \in Seq(Event)
        /\ Len(q) \in Nat \ {0} /\ Len(Tail(q)) = Len(q) - 1
        /\ \A i \in 1..Len(Tail(q)) : Tail(q)[i] = q[i + 1]
    BY <1>2
  <2>2. ASSUME Waiting(q, e) PROVE e = Head(q) \/ Waiting(Tail(q), e)
    <3>1. PICK i \in 1..Len(q) : q[i] = e
      BY <2>2 DEF Waiting
    <3>2. CASE i = 1
      BY <2>1, <3>1, <3>2
    <3>3. CASE i # 1
      <4>1. i - 1 \in 1..Len(Tail(q)) /\ Tail(q)[i - 1] = q[(i - 1) + 1] /\ (i - 1) + 1 = i
        BY <2>1, <3>1, <3>3
      <4> QED BY <3>1, <4>1 DEF Waiting
    <3> QED BY <3>2, <3>3
  <2>3. ASSUME Waiting(Tail(q), e) PROVE Waiting(q, e)
    <3>1. PICK i \in 1..Len(Tail(q)) : Tail(q)[i] = e
      BY <2>3 DEF Waiting
    <3>2. i + 1 \in 1..Len(q) /\ q[i + 1] = e
      BY <2>1, <3>1
    <3> QED BY <3>2 DEF Waiting
  <2>4. ASSUME e = Head(q) PROVE Waiting(q, e)
    BY <2>1, <2>4 DEF Waiting
  <2> QED BY <2>1, <2>2, <2>3, <2>4
<1>3. ASSUME NEW d \in Event
      PROVE  /\ Append(q, d) \in Seq(Event)
             /\ Waiting(q, e) \/ e = d => Waiting(Append(q, d), e)
  <2>1. /\ Append(q, d) \in Seq(Event) /\ Len(q) \in Nat /\ Len(Append(q, d)) = Len(q) + 1
        /\ Append(q, d)[Len(q) + 1] = d
        /\ \A i \in 1..Len(q) : Append(q, d)[i] = q[i]
    OBVIOUS
  <2> HIDE DEF Waiting
  <2>2. ASSUME Waiting(q, e) PROVE Waiting(Append(q, d), e)
    <3>1. PICK i \in 1..Len(q) : q[i] = e
      BY <2>2 DEF Waiting
    <3>2. i \in 1..Len(Append(q, d)) /\ Append(q, d)[i] = e
      BY <2>1, <3>1
    <3> QED BY <3>2 DEF Waiting
  <2>3. ASSUME e = d PROVE Waiting(Append(q, d), e)
    <3>1. Len(q) + 1 \in 1..Len(Append(q, d)) /\ Append(q, d)[Len(q) + 1] = e
      BY <2>1, <2>3
    <3> QED BY <3>1 DEF Waiting
  <2> QED BY <2>1, <2>2, <2>3
<1> QED BY <1>1, <1>2, <1>3

\* The rank of an event in a set of events.
Below(S, e) == {d \in S : d < e}

\* Ranks count from zero, tell events apart and leave none out.
LEMMA Ranks ==
    ASSUME NEW S \in SUBSET Event
    PROVE  /\ IsFiniteSet(S) /\ Cardinality(S) \in Nat
           /\ \A e \in S : Cardinality(Below(S, e)) \in 0..(Cardinality(S) - 1)
           /\ \A d, e \in S : Cardinality(Below(S, d)) = Cardinality(Below(S, e)) => d = e
           /\ \A n \in 0..(Cardinality(S) - 1) : \E e \in S : Cardinality(Below(S, e)) = n
<1>1. IsFiniteSet(Event)
  BY FS_Interval, RealtimeAssumption DEF Event
<1>2. IsFiniteSet(S) /\ Cardinality(S) \in Nat
  BY <1>1, FS_Subset, FS_CardinalityType
<1>3. \A e \in S : e \in Nat
  BY DEF Event
<1>4. ASSUME NEW e \in S
      PROVE  IsFiniteSet(Below(S, e)) /\ Cardinality(Below(S, e)) \in 0..(Cardinality(S) - 1)
  <2>1. Below(S, e) \in SUBSET S /\ Below(S, e) # S
    BY <1>3 DEF Below
  <2>2. /\ IsFiniteSet(Below(S, e)) /\ Cardinality(Below(S, e)) <= Cardinality(S)
        /\ Cardinality(S) = Cardinality(Below(S, e)) => S = Below(S, e)
    BY <1>2, <2>1, FS_Subset
  <2>3. Cardinality(Below(S, e)) \in Nat
    BY <2>2, FS_CardinalityType
  <2> QED BY <1>2, <2>1, <2>2, <2>3
<1>5. ASSUME NEW d \in S, NEW e \in S, d < e
      PROVE  Cardinality(Below(S, d)) # Cardinality(Below(S, e))
  <2>1. Below(S, d) \in SUBSET Below(S, e) /\ d \in Below(S, e) /\ d \notin Below(S, d)
    BY <1>3, <1>5 DEF Below
  <2>2. Cardinality(Below(S, e)) = Cardinality(Below(S, d)) => Below(S, e) = Below(S, d)
    BY <1>4, <2>1, FS_Subset
  <2> QED BY <2>1, <2>2
<1>6. \A d, e \in S : Cardinality(Below(S, d)) = Cardinality(Below(S, e)) => d = e
  BY <1>3, <1>5
<1>7. \A n \in 0..(Cardinality(S) - 1) : \E e \in S : Cardinality(Below(S, e)) = n
  <2> DEFINE n == Cardinality(S)
             T == 0..(n - 1)
             f == [e \in S |-> Cardinality(Below(S, e))]
  <2>1. IsFiniteSet(T) /\ Cardinality(T) = n
    BY <1>2, FS_Interval
  <2>2. f \in Injection(S, T)
    BY <1>4, <1>6 DEF Injection, IsInjective
  <2>3. f \in Surjection(S, T)
    BY <2>1, <2>2, FS_Injection
  <2> QED BY <2>3 DEF Surjection
<1> QED BY <1>2, <1>4, <1>6, <1>7

\* ListSince returns entries of the log, and all of them up to its limit.
LEMMA OldestEntries ==
    ASSUME NEW S \in SUBSET Event
    PROVE  /\ Oldest(S, ReplayLimit) \in Seq(S)
           /\ Cardinality(S) <= ReplayLimit => \A e \in S : Waiting(Oldest(S, ReplayLimit), e)
<1> DEFINE n == IF Cardinality(S) < ReplayLimit THEN Cardinality(S) ELSE ReplayLimit
           rank(e) == Cardinality({d \in S : d < e})
           q == [i \in 1..n |-> CHOOSE e \in S : rank(e) = i - 1]
<1>1. Oldest(S, ReplayLimit) = q
  BY DEF Oldest
<1>2. /\ Cardinality(S) \in Nat
      /\ \A e \in S : rank(e) \in 0..(Cardinality(S) - 1)
      /\ \A d, e \in S : rank(d) = rank(e) => d = e
      /\ \A k \in 0..(Cardinality(S) - 1) : \E e \in S : rank(e) = k
  BY Ranks DEF Below
<1>3. ReplayLimit \in Nat
  BY RealtimeAssumption
<1>4. n \in Nat /\ n <= Cardinality(S)
  BY <1>2, <1>3
<1> HIDE DEF rank
<1>5. \A i \in 1..n : q[i] \in S /\ rank(q[i]) = i - 1
  <2> TAKE i \in 1..n
  <2>1. i - 1 \in 0..(Cardinality(S) - 1)
    BY <1>2, <1>4
  <2>2. PICK e \in S : rank(e) = i - 1
    BY <1>2, <2>1
  <2>3. q[i] = CHOOSE d \in S : rank(d) = i - 1
    OBVIOUS
  <2> HIDE DEF q, n
  <2> QED BY <2>2, <2>3
<1>6. q \in Seq(S) /\ Len(q) = n
  <2>1. q \in [1..n -> S] /\ DOMAIN q = 1..n
    BY <1>5
  <2> HIDE DEF q, n
  <2>2. q \in Seq(S)
    BY <1>4, <2>1
  <2> QED BY <1>4, <2>1, <2>2
<1>7. ASSUME Cardinality(S) <= ReplayLimit, NEW e \in S PROVE Waiting(q, e)
  <2>1. n = Cardinality(S)
    BY <1>2, <1>3, <1>7
  <2> HIDE DEF n, q
  <2>2. rank(e) + 1 \in 1..n
    BY <1>2, <2>1
  <2>3. q[rank(e) + 1] \in S /\ rank(q[rank(e) + 1]) = (rank(e) + 1) - 1
    BY <1>5, <2>2
  <2>4. rank(e) \in Nat /\ (rank(e) + 1) - 1 = rank(e)
    BY <1>2
  <2>5. q[rank(e) + 1] = e
    BY <1>2, <2>3, <2>4
  <2> QED BY <1>6, <2>2, <2>5 DEF Waiting
<1> QED BY <1>1, <1>6, <1>7

\* The empty connection.
LEMMA NoConnType ==
    /\ NoConn \in Conn /\ NoConn.pc = "none" /\ NoConn.replay = <<>> /\ NoConn.due = {}
    /\ NoConn.boundary = NoEvent /\ NoConn.from = NoEvent
<1>1. 0 \in Cursor /\ NoEvent \in Cursor
  BY RealtimeAssumption DEF Cursor, NoEvent
<1>2. <<>> \in Seq(Event)
  OBVIOUS
<1> QED BY <1>1, <1>2 DEF NoConn, Conn, Phase

\* No connection, nothing owed.
LEMMA PumpInit == Init => PumpInv
<1> SUFFICES ASSUME Init PROVE PumpInv
  OBVIOUS
<1>1. PumpType
  BY NoConnType, RealtimeAssumption DEF Init, PumpType, Cursor, NoEvent
<1> QED
  BY <1>1, NoConnType DEF Init, PumpInv, ReplayEnds, Owed, CursorIsSeen, BoundaryIsReplayed

\* A new connection, with the client's cursor or without one, owes nothing yet.
LEMMA FreshPump ==
    ASSUME PumpInv, conn' \in Conn, UNCHANGED <<log, client>>,
           conn'.from \in {client.last, NoEvent}, conn'.boundary = NoEvent,
           conn'.replay = <<>>, conn'.due = {}
    PROVE  PumpInv'
BY DEF PumpInv, PumpType, ReplayEnds, Owed, CursorIsSeen, BoundaryIsReplayed

\* Nothing the pump looks at changes.
LEMMA PumpFrame ==
    ASSUME PumpInv, UNCHANGED client, conn' \in Conn,
           log' \in [Event -> {"none", "open", "committed", "published"}],
           conn'.pc # "replay" => conn.pc # "replay", conn'.from = conn.from,
           conn'.boundary = conn.boundary, conn'.replay = conn.replay,
           conn'.queue = conn.queue, conn'.due = conn.due, conn.cut => conn'.cut
    PROVE  PumpInv'
BY DEF PumpInv, PumpType, ReplayEnds, Owed, CursorIsSeen, BoundaryIsReplayed

\* The pump and the log stand still.
LEMMA PumpStill == ASSUME PumpInv, UNCHANGED <<log, conn, client>> PROVE PumpInv'
BY PumpFrame DEF PumpInv, PumpType

\* The read replays every entry that is committed already, unless the limit cuts it
\* short.  Its boundary is one of them, or the client's cursor.
LEMMA ReadLogPump == ASSUME PumpInv, ReadLog PROVE PumpInv'
<1> DEFINE S == After(conn.from)
           q == Oldest(S, ReplayLimit)
           b == IF q # <<>> THEN q[Len(q)] ELSE conn.from
<1>1. /\ conn \in Conn /\ conn.pc = "read" /\ conn.replay = <<>>
      /\ client' = client /\ log' = log
      /\ conn' = [conn EXCEPT !.pc = "replay", !.replay = q, !.boundary = b,
                              !.cut = @ \/ Cardinality(S) > ReplayLimit,
                              !.due = @ \union S]
  BY DEF PumpInv, PumpType, ReplayEnds, ReadLog
<1>2. S \in SUBSET Event
  BY DEF After
<1>3. /\ Cardinality(S) \in Nat /\ ReplayLimit \in Nat
      /\ q \in Seq(S) /\ (Cardinality(S) <= ReplayLimit => \A e \in S : Waiting(q, e))
  BY <1>2, Ranks, OldestEntries, RealtimeAssumption
<1> HIDE DEF S, q
<1>4. q \in Seq(Event)
  BY <1>2, <1>3
<1>5. b \in Cursor /\ (b # conn.from => Waiting(q, b))
  <2>1. CASE q = <<>>
    BY <1>1, <2>1 DEF Conn
  <2>2. CASE q # <<>>
    <3>1. Len(q) \in 1..Len(q) /\ q[Len(q)] \in Event
      BY <1>4, <2>2
    <3>2. Waiting(q, q[Len(q)])
      BY <3>1 DEF Waiting
    <3> QED BY <2>2, <3>1, <3>2 DEF Event, Cursor
  <2> QED BY <2>1, <2>2
<1> HIDE DEF b
<1>6. /\ conn' \in Conn /\ conn'.pc = "replay" /\ conn'.replay = q /\ conn'.boundary = b
      /\ conn'.from = conn.from /\ conn'.queue = conn.queue /\ conn'.due = conn.due \union S
      /\ ~conn'.cut => ~conn.cut /\ ~(Cardinality(S) > ReplayLimit)
  BY <1>1, <1>2, <1>4, <1>5 DEF Conn, Phase
<1>7. \A e \in Event : ~Waiting(conn.replay, e)
  BY <1>1 DEF Waiting
<1>8. ASSUME ~conn'.cut, NEW e \in conn'.due
      PROVE  e \in client.seen \/ Waiting(q, e) \/ Waiting(conn.queue, e)
  <2>1. CASE e \in S
    BY <1>3, <1>6, <1>8, <2>1
  <2>2. CASE e \in conn.due
    <3>1. e \in Event
      BY <1>1, <2>2 DEF Conn
    <3> QED BY <1>6, <1>7, <1>8, <2>2, <3>1 DEF PumpInv, Owed
  <2> QED BY <1>6, <1>8, <2>1, <2>2
<1>9. PumpType' /\ ReplayEnds' /\ CursorIsSeen'
  BY <1>1, <1>6 DEF PumpInv, PumpType, ReplayEnds, CursorIsSeen
<1>10. Owed'
  BY <1>1, <1>6, <1>8 DEF Owed
<1>11. BoundaryIsReplayed'
  BY <1>1, <1>5, <1>6 DEF PumpInv, CursorIsSeen, BoundaryIsReplayed
<1> QED BY <1>9, <1>10, <1>11 DEF PumpInv

\* What the client receives is off the replay, and what is left is followed.
LEMMA SendReplayPump == ASSUME PumpInv, SendReplay PROVE PumpInv'
<1>1. /\ conn \in Conn /\ conn.pc = "replay" /\ log' = log /\ Owed /\ CursorIsSeen
      /\ client \in [seen: SUBSET Event, last: Cursor] /\ BoundaryIsReplayed
      /\ conn.replay \in Seq(Event) /\ conn.due \in SUBSET Event
  BY DEF PumpInv, PumpType, SendReplay, Conn
<1>2. CASE conn.replay # <<>> /\ Receives(Head(conn.replay)) /\ conn' = [conn EXCEPT !.replay = Tail(@)]
  <2>1. /\ Head(conn.replay) \in Event /\ Tail(conn.replay) \in Seq(Event)
        /\ \A e \in Event : Waiting(conn.replay, e) =>
                              e = Head(conn.replay) \/ Waiting(Tail(conn.replay), e)
    BY <1>1, <1>2, WaitingMoves
  <2>2. /\ conn' \in Conn /\ conn'.replay = Tail(conn.replay) /\ conn'.due = conn.due
        /\ conn'.pc = "replay" /\ conn'.from = conn.from
        /\ conn'.queue = conn.queue /\ conn'.boundary = conn.boundary /\ conn'.cut = conn.cut
    BY <1>1, <1>2, <2>1 DEF Conn
  <2>3. /\ client' \in [seen: SUBSET Event, last: Cursor]
        /\ client'.seen = client.seen \union {Head(conn.replay)}
        /\ client'.last = Head(conn.replay)
    BY <1>1, <1>2, <2>1 DEF Receives, Event, Cursor
  <2>4. PumpType' /\ ReplayEnds' /\ CursorIsSeen'
    BY <1>1, <2>2, <2>3 DEF PumpInv, PumpType, ReplayEnds, CursorIsSeen
  <2>5. Owed'
    BY <1>1, <2>1, <2>2, <2>3 DEF Owed
  <2>6. BoundaryIsReplayed'
    <3> SUFFICES ASSUME conn.boundary # NoEvent
                 PROVE  conn.boundary \in client'.seen \/ Waiting(conn'.replay, conn.boundary)
      BY <2>2 DEF BoundaryIsReplayed
    <3>1. conn.boundary \in client.seen \/ Waiting(conn.replay, conn.boundary)
      BY <1>1 DEF BoundaryIsReplayed
    <3>2. conn.boundary \in Event
      BY <1>1, RealtimeAssumption DEF Conn, Cursor, Event, NoEvent
    <3> QED BY <2>1, <2>2, <2>3, <3>1, <3>2
  <2> QED BY <2>4, <2>5, <2>6 DEF PumpInv
<1>3. CASE conn.replay = <<>> /\ conn' = [conn EXCEPT !.pc = "tail"] /\ client' = client
  <2>1. /\ conn' \in Conn /\ conn'.replay = conn.replay /\ conn'.due = conn.due
        /\ conn'.pc = "tail" /\ conn'.from = conn.from
        /\ conn'.queue = conn.queue /\ conn'.boundary = conn.boundary /\ conn'.cut = conn.cut
    BY <1>1, <1>3 DEF Conn, Phase
  <2> QED BY <1>1, <1>3, <2>1
          DEF PumpInv, PumpType, ReplayEnds, Owed, CursorIsSeen, BoundaryIsReplayed
<1> QED BY <1>2, <1>3 DEF SendReplay

\* The boundary that the pump skips is an event the replay has delivered, or the
\* client's own cursor.
LEMMA TailEventPump == ASSUME PumpInv, TailEvent PROVE PumpInv'
<1> DEFINE d == Head(conn.queue)
<1>1. /\ conn \in Conn /\ conn.pc = "tail" /\ conn.replay = <<>> /\ log' = log
      /\ client \in [seen: SUBSET Event, last: Cursor] /\ BoundaryIsReplayed /\ Owed
      /\ conn.queue \in Seq(Event) /\ conn.queue # <<>> /\ conn.due \in SUBSET Event
      /\ CursorIsSeen
  BY DEF PumpInv, PumpType, ReplayEnds, TailEvent, Conn
<1>2. /\ d \in Event /\ Tail(conn.queue) \in Seq(Event)
      /\ \A e \in Event : Waiting(conn.queue, e) => e = d \/ Waiting(Tail(conn.queue), e)
      /\ \A e \in Event : ~Waiting(conn.replay, e)
  BY <1>1, WaitingMoves
<1>3. /\ conn' \in Conn /\ conn'.replay = conn.replay /\ conn'.queue = Tail(conn.queue)
      /\ conn'.pc = "tail" /\ conn'.from = conn.from /\ conn'.due = conn.due
      /\ conn'.cut = conn.cut
      /\ \/ conn.boundary = d /\ client' = client /\ conn'.boundary = NoEvent
         \/ Receives(d) /\ conn'.boundary = conn.boundary
  <2>1. NoEvent \in Cursor
    BY RealtimeAssumption DEF NoEvent, Cursor
  <2> HIDE DEF d
  <2>2. CASE IsBoundary(d) /\ client' = client
             /\ conn' = [conn EXCEPT !.queue = Tail(@), !.boundary = NoEvent]
    BY <1>1, <1>2, <2>1, <2>2 DEF Conn, IsBoundary
  <2>3. CASE Receives(d) /\ conn' = [conn EXCEPT !.queue = Tail(@)]
    BY <1>1, <1>2, <2>3 DEF Conn
  <2> QED BY <2>2, <2>3 DEF TailEvent, d
<1> HIDE DEF d
<1>4. conn.boundary # NoEvent => conn.boundary \in client.seen
  <2>1. conn.boundary # NoEvent => conn.boundary \in Event
    BY <1>1, RealtimeAssumption DEF Conn, Cursor, Event, NoEvent
  <2> QED BY <1>1, <1>2, <2>1 DEF BoundaryIsReplayed
<1>5. /\ client' \in [seen: SUBSET Event, last: Cursor] /\ client.seen \subseteq client'.seen
      /\ d \in client'.seen /\ client'.last \in {client.last, d}
  <2>1. CASE conn.boundary = d /\ client' = client
    <3>1. d # NoEvent
      BY <1>2 DEF Event, NoEvent
    <3> QED BY <1>1, <1>4, <2>1, <3>1
  <2>2. CASE Receives(d)
    BY <1>1, <1>2, <2>2 DEF Receives, Event, Cursor
  <2> QED BY <1>3, <2>1, <2>2
<1>6. PumpType' /\ ReplayEnds' /\ CursorIsSeen'
  BY <1>1, <1>3, <1>5 DEF PumpInv, PumpType, ReplayEnds, CursorIsSeen
<1>7. Owed'
  BY <1>1, <1>2, <1>3, <1>5 DEF Owed
<1>8. BoundaryIsReplayed'
  BY <1>3, <1>4, <1>5 DEF BoundaryIsReplayed
<1> QED BY <1>6, <1>7, <1>8 DEF PumpInv

\* A published event waits in a subscription that has landed.
LEMMA PublishPump == ASSUME PumpInv, NEW d \in Event, Publish(d) PROVE PumpInv'
<1>1. /\ conn \in Conn /\ client' = client /\ conn.queue \in Seq(Event)
      /\ conn.due \in SUBSET Event
      /\ log \in [Event -> {"none", "open", "committed", "published"}]
      /\ log' = [log EXCEPT ![d] = "published"]
  BY DEF PumpInv, PumpType, Publish, Conn
<1>2. /\ Append(conn.queue, d) \in Seq(Event)
      /\ \A e \in Event : Waiting(conn.queue, e) \/ e = d => Waiting(Append(conn.queue, d), e)
  BY <1>1, WaitingMoves
<1>3. /\ conn' \in Conn /\ conn'.replay = conn.replay
      /\ conn'.queue = IF conn.landed THEN Append(conn.queue, d) ELSE conn.queue
      /\ conn'.due = IF conn.landed THEN conn.due \union {d} ELSE conn.due
      /\ conn'.pc = conn.pc /\ conn'.from = conn.from
      /\ conn'.cut = conn.cut /\ conn'.boundary = conn.boundary
  BY <1>1, <1>2 DEF Publish, Conn
<1>4. PumpType' /\ ReplayEnds' /\ CursorIsSeen' /\ BoundaryIsReplayed'
  BY <1>1, <1>3 DEF PumpInv, PumpType, ReplayEnds, CursorIsSeen, BoundaryIsReplayed
<1>5. Owed'
  BY <1>1, <1>2, <1>3 DEF PumpInv, Owed
<1> QED BY <1>4, <1>5 DEF PumpInv

\* A transaction that is not published yet owes nothing to anybody; a broken
\* subscription is known to be cut.
LEMMA LogPump ==
    ASSUME PumpInv, NEW d \in Event, Insert(d) \/ Commit(d) \/ SubscriptionBreaks
    PROVE  PumpInv'
<1>1. conn \in Conn /\ log \in [Event -> {"none", "open", "committed", "published"}]
  BY DEF PumpInv, PumpType
<1>2. CASE Insert(d) \/ Commit(d)
  <2>1. /\ log' \in [Event -> {"none", "open", "committed", "published"}]
        /\ conn' = conn /\ client' = client
    BY <1>1, <1>2 DEF Insert, Commit
  <2> QED BY <1>1, <2>1, PumpFrame
<1>3. CASE SubscriptionBreaks
  <2>1. /\ conn' \in Conn /\ conn'.pc = conn.pc /\ conn'.queue = conn.queue
        /\ conn'.cut /\ conn'.replay = conn.replay /\ conn'.boundary = conn.boundary
        /\ conn'.from = conn.from /\ conn'.due = conn.due /\ client' = client
    BY <1>1, <1>3 DEF SubscriptionBreaks, Conn
  <2>2. log' \in [Event -> {"none", "open", "committed", "published"}]
    BY <1>1, <1>3 DEF SubscriptionBreaks
  <2> QED BY <2>1, <2>2, PumpFrame
<1> QED BY <1>2, <1>3

\* A connection starts, ends, or waits for its subscription.
LEMMA ConnPump ==
    ASSUME PumpInv,
           \/ \E c \in Caller : MintTicket(c)
           \/ RedeemTicket \/ Register \/ Subscribe \/ SubscriptionLands
           \/ CloseConn \/ DropByKey \/ Restart
    PROVE  PumpInv'
<1>1. /\ conn \in Conn /\ client \in [seen: SUBSET Event, last: Cursor]
      /\ log \in [Event -> {"none", "open", "committed", "published"}]
  BY DEF PumpInv, PumpType
<1>2. CASE \E c \in Caller : MintTicket(c)
  <2>1. PICK since \in {client.last, NoEvent} :
          UNCHANGED <<log, client>> /\ conn' = [NoConn EXCEPT !.pc = "ticket", !.from = since]
    BY <1>2 DEF MintTicket
  <2>2. since \in Cursor
    BY <1>1, RealtimeAssumption DEF NoEvent, Cursor
  <2>3. /\ conn' \in Conn /\ conn'.from = since /\ conn'.boundary = NoEvent
        /\ conn'.replay = <<>> /\ conn'.due = {}
    BY <2>1, <2>2, NoConnType DEF Conn, Phase
  <2> QED BY <2>1, <2>3, FreshPump
<1>3. ASSUME RedeemTicket \/ Register \/ Subscribe \/ SubscriptionLands PROVE PumpInv'
  <2>1. /\ UNCHANGED <<log, client>> /\ conn' \in Conn
        /\ conn'.pc # "replay" => conn.pc # "replay"
        /\ conn'.from = conn.from /\ conn'.boundary = conn.boundary
        /\ conn'.replay = conn.replay /\ conn'.queue = conn.queue
        /\ conn'.due = conn.due /\ conn'.cut = conn.cut
    <3>1. CASE RedeemTicket
      BY <1>1, <3>1 DEF RedeemTicket, Conn, Phase
    <3>2. CASE Register
      BY <1>1, <3>2 DEF Register, Conn, Phase
    <3>3. CASE Subscribe
      BY <1>1, <3>3 DEF Subscribe, Conn, Phase
    <3>4. CASE SubscriptionLands
      BY <1>1, <3>4 DEF SubscriptionLands, Conn, Phase
    <3> QED BY <1>3, <3>1, <3>2, <3>3, <3>4
  <2> QED BY <1>1, <2>1, PumpFrame
<1>4. CASE CloseConn \/ DropByKey \/ Restart
  <2>1. UNCHANGED <<log, client>> /\ conn' \in {conn, NoConn}
    BY <1>4 DEF CloseConn, DropByKey, Restart
  <2>2. CASE conn' = conn
    BY <2>1, <2>2, PumpStill
  <2>3. CASE conn' = NoConn
    BY <2>1, <2>3, NoConnType, FreshPump
  <2> QED BY <2>1, <2>2, <2>3
<1> QED BY <1>2, <1>3, <1>4

\* Every step keeps what the pump owes.
LEMMA PumpStep == PumpInv /\ [Next]_vars => PumpInv'
<1> SUFFICES ASSUME PumpInv, [Next]_vars PROVE PumpInv'
  OBVIOUS
<1>1. ASSUME NEW c \in Caller, Lookup(c) \/ Call(c) PROVE PumpInv'
  BY <1>1, PumpStill DEF Lookup, Call, CurrentGeneration, VerifyKey, StoreIfGeneration, Leave
<1>2. CASE EntryAges \/ DeleteKey \/ NoticeLost \/ HandleRevoked \/ HandleOther
  BY <1>2, PumpStill DEF EntryAges, DeleteKey, NoticeLost, HandleRevoked, HandleOther
<1>3. CASE \/ \E c \in Caller : MintTicket(c)
           \/ RedeemTicket \/ Register \/ Subscribe \/ SubscriptionLands
           \/ CloseConn \/ DropByKey \/ Restart
  BY <1>3, ConnPump
<1>4. CASE ReadLog \/ SendReplay \/ TailEvent
  BY <1>4, ReadLogPump, SendReplayPump, TailEventPump
<1>5. ASSUME NEW e \in Event, Insert(e) \/ Commit(e) \/ Publish(e) PROVE PumpInv'
  BY <1>5, LogPump, PublishPump
<1>6. CASE SubscriptionBreaks
  <2>1. PICK e \in Event : log[e] = "committed"
    BY <1>6 DEF SubscriptionBreaks
  <2> QED BY <1>6, <2>1, LogPump
<1>7. CASE UNCHANGED vars
  BY <1>7, PumpStill DEF vars
<1> QED BY <1>1, <1>2, <1>3, <1>4, <1>5, <1>6, <1>7 DEF Next, Pump

\* A client that has drained its subscription has received all that was committed
\* after its cursor when the log was read, and all that was published since Redis
\* took the subscription, in whatever order transactions commit and publish and
\* whenever the subscription lands, for any limit of the replay.  What the limit cuts
\* off, and what a broken subscription lost, is the exception.
THEOREM StreamSendsAllDue == Spec => []AllDueIsSent
<1>1. PumpInv => AllDueIsSent
  <2> SUFFICES ASSUME PumpInv, conn.pc = "tail", conn.queue = <<>>, ~conn.cut,
                      NEW e \in conn.due
               PROVE  e \in client.seen
    BY DEF AllDueIsSent
  <2>1. ~Waiting(<<>>, e)
    BY DEF Waiting
  <2> QED BY <2>1 DEF PumpInv, ReplayEnds, Owed
<1> QED BY <1>1, PumpInit, PumpStep, PTL DEF Spec

=============================================================================
