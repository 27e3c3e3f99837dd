------------------------- MODULE DeliveryContract --------------------------
(***************************************************************************)
(* What the gateway and the API promise of events, without streams,        *)
(* snapshots or acknowledgements.                                          *)
(*                                                                         *)
(* A gateway accepts an event under the assignment it believes in; the     *)
(* event is then pending until it is committed.  The API commits an event  *)
(* at most once, and publishes at most one row for it when it does.  A     *)
(* pending event may be dropped only when it is committed or when its      *)
(* assignment is over.                                                     *)
(***************************************************************************)
EXTENDS Naturals

CONSTANTS
    Gateway, NoGateway, Session, EventId,
    SessionOf,  \* [EventId -> Session]
    Epoch       \* the assignment epochs that may be allocated

VARIABLES
    owner,      \* session -> [gw, epoch]; gw is NoGateway once it is deleted
    accepted,   \* entries [id, gw, epoch] ever accepted
    pending,    \* entries not yet dropped
    committed,  \* event IDs the API has taken
    published   \* event ID -> rows published for it

\* What is assumed of the constants.
ContractAssumption ==
    /\ NoGateway \notin Gateway
    /\ SessionOf \in [EventId -> Session]
    /\ Epoch \subseteq Nat

vars == <<owner, accepted, pending, committed, published>>

Over(x) == owner[SessionOf[x.id]] # [gw |-> x.gw, epoch |-> x.epoch]

Init ==
    /\ owner \in [Session -> [gw: Gateway, epoch: {1}]]
    /\ accepted = {} /\ pending = {} /\ committed = {}
    /\ published = [i \in EventId |-> 0]

\* The session moves to another gateway under the next epoch.
Move(s, g) ==
    /\ owner[s].gw \notin {NoGateway, g}
    /\ owner[s].epoch + 1 \in Epoch
    /\ owner' = [owner EXCEPT ![s] = [gw |-> g, epoch |-> @.epoch + 1]]
    /\ UNCHANGED <<accepted, pending, committed, published>>

\* The session is deleted, and with it the memory of what was committed for it.
Delete(s) ==
    /\ owner[s].gw # NoGateway
    /\ owner' = [owner EXCEPT ![s].gw = NoGateway]
    /\ committed' = {i \in committed : SessionOf[i] # s}
    /\ UNCHANGED <<accepted, pending, published>>

\* A gateway accepts an event under an epoch allocated to the session so far.
Accept(x) ==
    /\ accepted' = accepted \union {x}
    /\ pending' = pending \union {x}
    /\ UNCHANGED <<owner, committed, published>>

\* The events in ids, none of them committed before, are committed together;
\* those in rows are published.
Commit(ids, rows) ==
    /\ \A i \in ids : /\ i \notin committed
                      /\ owner[SessionOf[i]].gw # NoGateway
                      /\ \E x \in accepted : x.id = i
    /\ committed' = committed \union ids
    /\ published' = [i \in EventId |->
                        IF i \in rows THEN published[i] + 1 ELSE published[i]]
    /\ UNCHANGED <<owner, accepted, pending>>

\* Pending entries are dropped once they are committed or over.
Drop(xs) ==
    /\ \A x \in xs : x.id \in committed \/ Over(x)
    /\ pending' = pending \ xs
    /\ UNCHANGED <<owner, accepted, committed, published>>

Next ==
    \/ \E s \in Session : Delete(s) \/ \E g \in Gateway : Move(s, g)
    \/ \E i \in EventId, g \in Gateway : \E e \in 1..owner[SessionOf[i]].epoch :
          Accept([id |-> i, gw |-> g, epoch |-> e])
    \/ \E ids \in SUBSET EventId : \E rows \in SUBSET ids : Commit(ids, rows)
    \/ \E xs \in SUBSET pending : Drop(xs)

Spec == Init /\ [][Next]_vars

-----------------------------------------------------------------------------
\* No event is published twice, even when the session's deletion erases the
\* memory of what was committed for it while its events are still replayed.
AtMostOnce == \A i \in EventId : published[i] <= 1

\* An accepted event is pending, committed or over.
NothingLost == \A x \in accepted : x \in pending \/ x.id \in committed \/ Over(x)

=============================================================================
