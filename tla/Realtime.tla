------------------------------ MODULE Realtime ------------------------------
(***************************************************************************)
(* Access to live events: the API-key cache, its revocation over the       *)
(* control bus, realtime tickets, and the pump that replays the event log  *)
(* and then tails the published events.                                    *)
(*                                                                         *)
(* The module is about one API process, one key and the client that uses   *)
(* it.  Other clients of the key are callers that fill the cache; notices  *)
(* about other principals only advance the cache's generation.  An event   *)
(* is its event_log id: ids are allocated by transactions that commit, and *)
(* are published, in any order.  The client resumes from the last event it *)
(* received; without a cursor it only follows what is published.           *)
(***************************************************************************)
EXTENDS Naturals, Sequences, FiniteSets

CONSTANTS
    Caller,       \* requests that present the key
    MaxEvents,    \* bound: events of the client's scope
    ReplayLimit,  \* entries one replay reads (store.maxLimit)
    MaxNotices,   \* bound: notices about other principals
    MaxFaults     \* bound: lost notices, restarts, broken subscriptions

ASSUME RealtimeAssumption ==
    /\ MaxEvents \in Nat /\ ReplayLimit \in Nat \ {0}
    /\ MaxNotices \in Nat /\ MaxFaults \in Nat

VARIABLES
    key,      \* [row, notice]: the apikey row and the notice of its deletion
    cache,    \* CachingKeyVerifier: [entry, generation]
    caller,   \* the requests: [pc, generation]
    log,      \* event_log and its publication, by id
    conn,     \* the client's ticket, then its connection
    client,   \* what the client received: [seen, last]
    notices,  \* notices about other principals so far
    faults    \* faults so far

access == <<key, cache, caller>>
vars == <<access, log, conn, client, notices, faults>>

Event == 1..MaxEvents
NoEvent == 0

NoConn == [pc |-> "none", registered |-> FALSE, from |-> NoEvent, landed |-> FALSE,
           boundary |-> NoEvent, replay |-> <<>>, queue |-> <<>>, cut |-> FALSE, due |-> {}]

NoCall == [pc |-> "idle", generation |-> 0]

Fault == faults < MaxFaults /\ faults' = faults + 1

Init ==
    /\ key = [row |-> TRUE, notice |-> "none"]
    /\ cache = [entry |-> "none", generation |-> 0]
    /\ caller = [c \in Caller |-> NoCall]
    /\ log = [e \in Event |-> "none"]
    /\ conn = NoConn /\ client = [seen |-> {}, last |-> NoEvent]
    /\ notices = 0 /\ faults = 0

-----------------------------------------------------------------------------
(***************************************************************************)
(* CachingKeyVerifier.VerifyKey.  The mutex is not held across the lookup. *)
(***************************************************************************)
At(c, pc) == caller[c].pc = pc
Goes(c, pc) == caller' = [caller EXCEPT ![c].pc = pc]

\* Mutant: an expired entry is still an answer.
LookupExpired(c) ==
    /\ At(c, "idle")
    /\ Goes(c, IF cache.entry # "none" THEN "granted" ELSE "miss")
    /\ UNCHANGED <<key, cache, log, conn, client, notices, faults>>

\* lookup: a hit is the answer, an expired entry is deleted.
Lookup(c) ==
    /\ At(c, "idle")
    /\ Goes(c, IF cache.entry = "fresh" THEN "granted" ELSE "miss")
    /\ cache' = [cache EXCEPT !.entry = IF @ = "stale" THEN "none" ELSE @]
    /\ UNCHANGED <<key, log, conn, client, notices, faults>>

CurrentGeneration(c) ==
    /\ At(c, "miss")
    /\ caller' = [caller EXCEPT ![c] = [pc |-> "verify", generation |-> cache.generation]]
    /\ UNCHANGED <<key, cache, log, conn, client, notices, faults>>

\* APIKeyVerifier.VerifyKey: the row must be there, enabled and unexpired.
VerifyKey(c) ==
    /\ At(c, "verify")
    /\ caller' = [caller EXCEPT ![c] = IF key.row THEN [@ EXCEPT !.pc = "store"] ELSE NoCall]
    /\ UNCHANGED <<key, cache, log, conn, client, notices, faults>>

\* Mutant: the generation is not compared.
StoreAlways(c) ==
    /\ At(c, "store")
    /\ Goes(c, "granted")
    /\ cache' = [cache EXCEPT !.entry = "fresh"]
    /\ UNCHANGED <<key, log, conn, client, notices, faults>>

\* storeIfGeneration: an eviction since the snapshot repeats the verification.
StoreIfGeneration(c) ==
    /\ At(c, "store")
    /\ \/ /\ caller[c].generation = cache.generation
          /\ Goes(c, "granted")
          /\ cache' = [cache EXCEPT !.entry = "fresh"]
       \/ /\ caller[c].generation # cache.generation
          /\ Goes(c, "miss") /\ UNCHANGED cache
    /\ UNCHANGED <<key, log, conn, client, notices, faults>>

\* The request is cancelled, or is done.
Leave(c) ==
    /\ ~At(c, "idle")
    /\ caller' = [caller EXCEPT ![c] = NoCall]
    /\ UNCHANGED <<key, cache, log, conn, client, notices, faults>>

\* The entry's TTL passes.
EntryAges ==
    /\ cache.entry = "fresh"
    /\ cache' = [cache EXCEPT !.entry = "stale"]
    /\ UNCHANGED <<key, caller, log, conn, client, notices, faults>>

-----------------------------------------------------------------------------
(***************************************************************************)
(* Revocation: the console deletes the row, then publishes; the subscriber *)
(* evicts, then drops connections.                                         *)
(***************************************************************************)
DeleteKey ==
    /\ key.row
    /\ key' = [row |-> FALSE, notice |-> "sent"]
    /\ UNCHANGED <<cache, caller, log, conn, client, notices, faults>>

\* The publish fails, or the process was not subscribed.
NoticeLost ==
    /\ key.notice = "sent" /\ Fault
    /\ key' = [key EXCEPT !.notice = "lost"]
    /\ UNCHANGED <<cache, caller, log, conn, client, notices>>

\* evictBy: the generation advances whether or not an entry matches.
EvictBy(matches) ==
    cache' = [generation |-> cache.generation + 1,
              entry |-> IF matches THEN "none" ELSE cache.entry]

HandleRevoked ==
    /\ key.notice = "sent"
    /\ key' = [key EXCEPT !.notice = "evicted"]
    /\ EvictBy(TRUE)
    /\ UNCHANGED <<caller, log, conn, client, notices, faults>>

\* DropByKey cancels the registered connections.
DropByKey ==
    /\ key.notice = "evicted"
    /\ key' = [key EXCEPT !.notice = "handled"]
    /\ conn' = IF conn.registered THEN NoConn ELSE conn
    /\ UNCHANGED <<cache, caller, log, client, notices, faults>>

\* user.banned and member.removed: API-key principals carry no user.
HandleOther ==
    /\ notices < MaxNotices /\ notices' = notices + 1
    /\ key.notice # "evicted"
    /\ EvictBy(FALSE)
    /\ UNCHANGED <<key, caller, log, conn, client, faults>>

\* A new process starts with an empty cache and an empty registry.
Restart ==
    /\ Fault
    /\ key' = [key EXCEPT !.notice = IF @ \in {"sent", "evicted"} THEN "lost" ELSE @]
    /\ cache' = [entry |-> "none", generation |-> 0]
    /\ caller' = [c \in Caller |-> NoCall]
    /\ conn' = IF conn.pc = "ticket" THEN conn ELSE NoConn
    /\ UNCHANGED <<log, client, notices>>

-----------------------------------------------------------------------------
(***************************************************************************)
(* Tickets, the registry and Pump.Run.                                     *)
(***************************************************************************)
\* handleTicketMint: the ticket carries the client's cursor, if it has and sends
\* one.
MintTicket(c) ==
    /\ At(c, "granted") /\ conn.pc = "none"
    /\ \E since \in {client.last, NoEvent} :
          conn' = [NoConn EXCEPT !.pc = "ticket", !.from = since]
    /\ caller' = [caller EXCEPT ![c] = NoCall]
    /\ UNCHANGED <<key, cache, log, client, notices, faults>>

\* handleRealtimeWS redeems by GETDEL, without another look at the key.
RedeemTicket ==
    /\ conn.pc = "ticket"
    /\ conn' = [conn EXCEPT !.pc = "redeemed"]
    /\ UNCHANGED <<access, log, client, notices, faults>>

Register ==
    /\ conn.pc = "redeemed"
    /\ conn' = [conn EXCEPT !.pc = "subscribe", !.registered = TRUE]
    /\ UNCHANGED <<access, log, client, notices, faults>>

\* SUBSCRIBE is sent and not waited for.  The log is read only for a cursor.
Subscribe ==
    /\ conn.pc = "subscribe"
    /\ conn' = [conn EXCEPT !.pc = IF conn.from # NoEvent THEN "read" ELSE "tail"]
    /\ UNCHANGED <<access, log, client, notices, faults>>

\* Redis has taken the subscription; from now on it sends what is published.
SubscriptionLands ==
    /\ conn.pc \in {"read", "replay", "tail"} /\ ~conn.landed
    /\ conn' = [conn EXCEPT !.landed = TRUE]
    /\ UNCHANGED <<access, log, client, notices, faults>>

\* ListSince: the committed entries after the cursor, oldest first.
After(n) == {e \in Event : e > n /\ log[e] \in {"committed", "published"}}

Oldest(S, limit) ==
    [i \in 1..(IF Cardinality(S) < limit THEN Cardinality(S) ELSE limit) |->
        CHOOSE e \in S : Cardinality({d \in S : d < e}) = i - 1]

ReadLog ==
    LET entries == Oldest(After(conn.from), ReplayLimit) IN
    /\ conn.pc = "read"
    /\ conn' = [conn EXCEPT
          !.pc = "replay", !.replay = entries,
          !.boundary = IF entries # <<>> THEN entries[Len(entries)] ELSE conn.from,
          !.cut = @ \/ Cardinality(After(conn.from)) > ReplayLimit,
          !.due = @ \union After(conn.from)]
    /\ UNCHANGED <<access, log, client, notices, faults>>

Receives(e) == client' = [seen |-> client.seen \union {e}, last |-> e]

SendReplay ==
    /\ conn.pc = "replay"
    /\ \/ /\ conn.replay # <<>>
          /\ Receives(Head(conn.replay))
          /\ conn' = [conn EXCEPT !.replay = Tail(@)]
       \/ /\ conn.replay = <<>>
          /\ conn' = [conn EXCEPT !.pc = "tail"] /\ UNCHANGED client
    /\ UNCHANGED <<access, log, notices, faults>>

\* Mutant: everything up to the boundary is taken for a duplicate.
Duplicate(e) == e <= conn.boundary

\* The message whose id is the boundary is skipped once.
IsBoundary(e) == e = conn.boundary

TailEvent ==
    LET e == Head(conn.queue) IN
    /\ conn.pc = "tail" /\ conn.queue # <<>>
    /\ \/ /\ IsBoundary(e)
          /\ conn' = [conn EXCEPT !.queue = Tail(@), !.boundary = NoEvent]
          /\ UNCHANGED client
       \/ /\ ~IsBoundary(e)
          /\ Receives(e)
          /\ conn' = [conn EXCEPT !.queue = Tail(@)]
    /\ UNCHANGED <<access, log, notices, faults>>

\* The ticket expires, the socket breaks, or the replay fails.
CloseConn ==
    /\ conn.pc # "none"
    /\ conn' = NoConn
    /\ UNCHANGED <<access, log, client, notices, faults>>

\* Redis drops the subscription and go-redis renews it; what is published in
\* between is gone.
SubscriptionBreaks ==
    /\ conn.landed /\ ~conn.cut /\ Fault
    /\ conn' = [conn EXCEPT !.cut = TRUE]
    /\ \E e \in Event : /\ log[e] = "committed"
                        /\ log' = [log EXCEPT ![e] = "published"]
    /\ UNCHANGED <<access, client, notices>>

-----------------------------------------------------------------------------
(***************************************************************************)
(* event_log and Publisher.Publish.                                        *)
(***************************************************************************)
\* AUTO_INCREMENT hands out ids in order.
Insert(e) ==
    /\ log[e] = "none" /\ \A d \in Event : d < e => log[d] # "none"
    /\ log' = [log EXCEPT ![e] = "open"]
    /\ UNCHANGED <<access, conn, client, notices, faults>>

Commit(e) ==
    /\ log[e] = "open"
    /\ log' = [log EXCEPT ![e] = "committed"]
    /\ UNCHANGED <<access, conn, client, notices, faults>>

Publish(e) ==
    /\ log[e] = "committed"
    /\ log' = [log EXCEPT ![e] = "published"]
    /\ conn' = [conn EXCEPT !.queue = IF conn.landed THEN Append(@, e) ELSE @,
                            !.due = IF conn.landed THEN @ \union {e} ELSE @]
    /\ UNCHANGED <<access, client, notices, faults>>

-----------------------------------------------------------------------------
Call(c) == CurrentGeneration(c) \/ VerifyKey(c) \/ StoreIfGeneration(c) \/ Leave(c)

Pump == Register \/ Subscribe \/ SubscriptionLands \/ ReadLog \/ SendReplay \/ TailEvent

Next ==
    \/ \E c \in Caller : Lookup(c) \/ Call(c) \/ MintTicket(c)
    \/ EntryAges \/ DeleteKey \/ NoticeLost \/ HandleRevoked \/ DropByKey \/ HandleOther
    \/ Restart \/ RedeemTicket \/ Pump \/ CloseConn \/ SubscriptionBreaks
    \/ \E e \in Event : Insert(e) \/ Commit(e) \/ Publish(e)

Spec == Init /\ [][Next]_vars

\* Requests end, time passes, and the subscriber handles what it received.
Fairness ==
    /\ \A c \in Caller : WF_vars(Call(c))
    /\ WF_vars(EntryAges) /\ WF_vars(HandleRevoked \/ DropByKey)

FairSpec == Spec /\ Fairness

-----------------------------------------------------------------------------
(***************************************************************************)
(* Properties.                                                             *)
(***************************************************************************)
TypeOK ==
    /\ key \in [row: BOOLEAN, notice: {"none", "sent", "evicted", "handled", "lost"}]
    /\ cache \in [entry: {"none", "fresh", "stale"}, generation: 0..(MaxNotices + 1)]
    /\ caller \in [Caller -> [pc: {"idle", "miss", "verify", "store", "granted"},
                              generation: 0..(MaxNotices + 1)]]
    /\ log \in [Event -> {"none", "open", "committed", "published"}]
    /\ conn.pc \in {"none", "ticket", "redeemed", "subscribe", "read", "replay", "tail"}
    /\ conn.from \in 0..MaxEvents /\ conn.boundary \in 0..MaxEvents
    /\ \A i \in DOMAIN conn.replay : conn.replay[i] \in Event
    /\ \A i \in DOMAIN conn.queue : conn.queue[i] \in Event
    /\ conn.due \subseteq Event
    /\ client.seen \subseteq Event /\ client.last \in 0..MaxEvents
    /\ notices \in 0..MaxNotices /\ faults \in 0..MaxFaults

\* Once the process has handled a revocation, no request with the key is granted:
\* a verification that read the row before it was deleted must not answer, or fill
\* the cache, after the eviction.
NoGrantAfterRevocation ==
    [][key.notice \in {"evicted", "handled"} =>
          \A c \in Caller : caller[c].pc # "granted" => caller'[c].pc # "granted"]_vars

\* Whether or not the notice arrives, a deleted key stops working for good once
\* the cached entry has aged.
RevokedEventually ==
    <>[](key.row \/ \A c \in Caller : caller[c].pc # "granted")

\* A connection that has drained its subscription has delivered all it had to: what
\* the log held after its cursor when it was read, and what was published since the
\* subscription landed, although transactions commit and publish out of order, and
\* tail skips what it takes for the end of the replay.
AllDueIsSent ==
    conn.pc = "tail" /\ conn.queue = <<>> /\ ~conn.cut => conn.due \subseteq client.seen

\* A connection that resumes from a cursor and has drained its subscription has
\* delivered every published event after the cursor, as stream.mdx says: no event is
\* lost between the replay and the tail.  Not so when Redis takes the subscription
\* after the log has been read.
NoGap ==
    (/\ conn.pc = "tail" /\ conn.landed /\ conn.queue = <<>> /\ ~conn.cut
     /\ conn.from # NoEvent) =>
        \A e \in Event : e > conn.from /\ log[e] = "published" => e \in client.seen
=============================================================================
