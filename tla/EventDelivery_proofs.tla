------------------------ MODULE EventDelivery_proofs ------------------------
(***************************************************************************)
(* Invariants of EventDelivery, for every number of gateways, sessions,    *)
(* events and messages, and for every value of its bounds.                 *)
(*                                                                         *)
(* First the types, the ledger, the public events and the acknowledgements *)
(* of the streams.  Then that no accepted event is lost and the delivery   *)
(* contract is kept, in four steps: what a gateway holds is fenced, every  *)
(* row on its way is traced to a journal, what a gateway may retire is     *)
(* covered by the table, and what an acknowledgement sweeps away is in the *)
(* ledger.  On these rests that the log of a session is in order.  Last,   *)
(* what the contract itself promises.                                      *)
(***************************************************************************)
EXTENDS EventDelivery, FiniteSetTheorems, WellFoundedInduction, TLAPS

-----------------------------------------------------------------------------
(***************************************************************************)
(* Facts about the journal's operators.  They need no bound on the number  *)
(* of rows, only that sequence numbers come from the AUTOINCREMENT counter *)
(* and so lie below it.                                                    *)
(***************************************************************************)
\* A nonempty set of naturals has a least element.
LEMMA LeastNat ==
    ASSUME NEW T \in SUBSET Nat, T # {}
    PROVE  \E n \in T : \A k \in T : n <= k
<1> DEFINE R == OpToRel(<, Nat)
<1>1. IsWellFoundedOn(R, Nat)
  BY NatLessThanWellFounded
<1> HIDE DEF R
<1>2. PICK n \in T : \A k \in T : ~(<<k, n>> \in R)
  BY <1>1, WFMin
<1>3. \A k \in T : k < n => <<k, n>> \in R
  BY <1>2 DEF R, OpToRel
<1>4. \A k \in T : ~(k < n)
  BY <1>2, <1>3, Zenon
<1>5. n \in Nat /\ \A k \in T : k \in Nat
  OBVIOUS
<1>6. \A k \in T : n <= k
  BY <1>4, <1>5, SMT
<1> QED BY <1>6, Zenon

\* Rows below a bound have a newest one, so LastSeq names the sequence number
\* of a row and no row of the set is newer.
LEMMA LastSeqIsNewest ==
    ASSUME NEW rows, rows # {}, NEW b \in Nat,
           \A r \in rows : r.seq \in Nat /\ r.seq < b
    PROVE  /\ LastSeq(rows) \in Nat /\ LastSeq(rows) < b
           /\ \E r \in rows : r.seq = LastSeq(rows)
           /\ \A r \in rows : r.seq <= LastSeq(rows)
<1> DEFINE U == {n \in Nat : \A r \in rows : r.seq <= n}
<1>1. b \in U
  OBVIOUS
<1>2. PICK n \in U : \A k \in U : n <= k
  BY <1>1, LeastNat
<1>3. \E r \in rows : r.seq = n
  <2> SUFFICES ASSUME \A r \in rows : r.seq # n PROVE FALSE
      OBVIOUS
  <2>1. n # 0 /\ n - 1 \in Nat
      BY <1>2
  <2>2. n - 1 \in U
      BY <1>2, <2>1
  <2> QED BY <1>2, <2>1, <2>2
<1>4. n \in {r.seq : r \in rows} /\ \A r \in rows : r.seq <= n
  BY <1>2, <1>3
<1>5. /\ LastSeq(rows) \in {r.seq : r \in rows}
      /\ \A r \in rows : r.seq <= LastSeq(rows)
  BY <1>4 DEF LastSeq
<1> QED BY <1>5

-----------------------------------------------------------------------------
\* The journals whose event IDs are in Id and whose epochs are in Ep.
JournalOf(Id, Ep) ==
    [entries: SUBSET [seq: Nat, id: Id, epoch: Ep], next: Nat, acked: Nat]

\* No two rows share their event ID or their sequence number.
Distinct(rows) == \A r, q \in rows : r.id = q.id \/ r.seq = q.seq => r = q

\* What the journal's keys (event_id UNIQUE, seq AUTOINCREMENT) guarantee.
WellFormed(j) ==
    /\ IsFiniteSet(j.entries)
    /\ Distinct(j.entries)
    /\ \A r \in j.entries : r.seq < j.next

\* Journal.Append keeps the keys unique when the event ID has no row yet.
LEMMA AppendWellFormed ==
    ASSUME NEW Id, NEW Ep, NEW j,
           j \in JournalOf(Id, Ep),
           WellFormed(j), NEW id \in Id, NEW e \in Ep, ~Journaled(j, id)
    PROVE  /\ AppendRow(j, id, e) \in JournalOf(Id, Ep)
           /\ WellFormed(AppendRow(j, id, e))
           /\ AppendRow(j, id, e).next = j.next + 1
<1> DEFINE row == [seq |-> j.next, id |-> id, epoch |-> e]
           new == AppendRow(j, id, e)
<1> USE DEF JournalOf
<1>0. new = [entries |-> j.entries \union {row}, next |-> j.next + 1,
             acked |-> j.acked]
  BY DEF AppendRow
<1> HIDE DEF row, new
<1>1. /\ new.entries = j.entries \union {row}
      /\ new.next = j.next + 1 /\ new.acked = j.acked
  BY <1>0
<1>2. IsFiniteSet(new.entries)
  <2>1. IsFiniteSet(j.entries)
    BY DEF WellFormed
  <2>2. IsFiniteSet(j.entries \union {row})
    BY <2>1, FS_AddElement
  <2> QED BY <1>1, <2>2
<1>3. \A r \in j.entries : r.id # id /\ r.seq # j.next /\ r.seq < j.next + 1
  BY DEF Journaled, WellFormed
<1>4. Distinct(new.entries)
  BY <1>1, <1>3 DEF WellFormed, Distinct, row
<1>5. \A r \in new.entries : r.seq < new.next
  BY <1>1, <1>3 DEF row
<1>6. new \in JournalOf(Id, Ep)
  BY <1>0 DEF row
<1> QED BY <1>1, <1>2, <1>4, <1>5, <1>6 DEF WellFormed, new

\* Journal.Ack only removes rows: the counter and the keys stay.
LEMMA AckWellFormed ==
    ASSUME NEW Id, NEW Ep, NEW j,
           j \in JournalOf(Id, Ep),
           WellFormed(j), NEW n \in Nat
    PROVE  /\ AckThrough(j, n) \in JournalOf(Id, Ep)
           /\ WellFormed(AckThrough(j, n))
           /\ AckThrough(j, n).next = j.next
           /\ AckThrough(j, n).entries \subseteq j.entries
<1> DEFINE new == AckThrough(j, n)
<1> USE DEF JournalOf
<1>1. CASE n <= j.acked
  BY <1>1 DEF AckThrough
<1>2. CASE ~(n <= j.acked)
  <2>1. /\ new.entries = {r \in j.entries : r.seq > n}
        /\ new.next = j.next /\ new.acked = n
        /\ new = [entries |-> new.entries, next |-> new.next, acked |-> new.acked]
    BY <1>2 DEF AckThrough
  <2>2. IsFiniteSet(new.entries)
    BY <2>1, FS_Subset DEF WellFormed
  <2>3. Distinct(new.entries) /\ \A r \in new.entries : r.seq < new.next
    BY <2>1 DEF WellFormed, Distinct
  <2>4. new \in JournalOf(Id, Ep)
    BY <2>1
  <2> QED BY <2>1, <2>2, <2>3, <2>4 DEF WellFormed
<1> QED BY <1>1, <1>2

-----------------------------------------------------------------------------
(***************************************************************************)
(* Type correctness.                                                       *)
(***************************************************************************)
\* A batch of gateway g: rows its journal handed out at some time.
Batches(g) ==
    {b \in SUBSET Row : /\ IsFiniteSet(b) /\ Distinct(b)
                        /\ \A r \in b : r.seq < journal[g].next}

\* The frames a gateway has sent; an event batch is never empty.
Frames(g) ==
    {f \in UpFrame : f.batch \in Batches(g) /\ (f.type = "events" => f.batch # {})}

JournalShape == \A g \in Gateway : WellFormed(journal[g])

StreamShape ==
    \A g \in Gateway : stream[g].applying => stream[g].epoch # 0 /\ down[g] # <<>>

FrameShape == \A g \in Gateway, c \in ConnEpoch : up[g][c] \in Seq(Frames(g))

HandlerShape ==
    \A g \in Gateway, c \in ConnEpoch :
        /\ handler[g][c].batch \in Batches(g)
        /\ handler[g][c].pc = "ingest" => handler[g][c].batch # {}

\* The types of each group of variables, with what makes them inductive:
\* sequence numbers below the journal's counter (so that a batch has a last
\* one), nonempty batches, and a frame at the head of the stream while it is
\* being applied.
MySQLOK == MySQLTypeOK /\ IsFiniteSet(eventLog)
GatewayOK == GatewayTypeOK /\ JournalShape
NetworkOK == NetworkTypeOK /\ FrameShape /\ HandlerShape
BooksOK == accepted \subseteq [id: EventId, gw: Gateway, epoch: Nat] /\ faults \in Nat

Typed == MySQLOK /\ GatewayOK /\ NetworkOK /\ BooksOK /\ StreamShape

\* The initial states are typed.
LEMMA TypedInit == Init => Typed
<1> SUFFICES ASSUME Init PROVE Typed
    OBVIOUS
<1> USE ConstantsAssumption
<1>1. IsFiniteSet({})
  BY FS_EmptySet
<1>2. MySQLOK
  BY <1>1 DEF Init, MySQLOK, MySQLTypeOK, Unclaimed
<1>3. GatewayOK
  <2>1. GatewayTypeOK
    BY DEF Init, GatewayTypeOK, EmptyJournal, Journals, NoRecon, NoAdapter,
           NoStream, NoEpochs, Epochs
  <2>2. JournalShape
    BY <1>1 DEF Init, JournalShape, WellFormed, Distinct, EmptyJournal
  <2> QED BY <2>1, <2>2 DEF GatewayOK
<1>4. NetworkOK
  <2>1. NetworkTypeOK
    BY DEF Init, NetworkTypeOK, HandlerAt, Handlers, NoEpochs, Epochs
  <2>2. FrameShape
    BY DEF Init, FrameShape
  <2>3. HandlerShape
    BY <1>1 DEF Init, HandlerShape, HandlerAt, Batches, Distinct
  <2> QED BY <2>1, <2>2, <2>3 DEF NetworkOK
<1>5. BooksOK /\ StreamShape
  BY DEF Init, BooksOK, StreamShape, NoStream
<1> QED BY <1>2, <1>3, <1>4, <1>5 DEF Typed

-----------------------------------------------------------------------------
(***************************************************************************)
(* What is left alone keeps its type.                                      *)
(***************************************************************************)
LEMMA JournalsAreJournals == Journals = JournalOf(EventId, Nat \ {0})
BY DEF Journals, JournalOf, Row

\* AckThrough keeps a journal well formed and invents no row.
LEMMA AckKeepsJournal ==
    ASSUME NEW j \in Journals, WellFormed(j), NEW n \in Nat
    PROVE  /\ AckThrough(j, n) \in Journals /\ WellFormed(AckThrough(j, n))
           /\ AckThrough(j, n).next = j.next
           /\ AckThrough(j, n).entries \subseteq j.entries
<1> DEFINE Ep == Nat \ {0}
<1>1. Journals = JournalOf(EventId, Ep)
  BY JournalsAreJournals
<1> HIDE DEF Ep
<1> QED BY <1>1, AckWellFormed

\* Each part of the type invariant holds of what a step leaves alone: the tables,
LEMMA MySQLUnchanged == MySQLOK /\ UNCHANGED mysql => MySQLOK'
BY DEF MySQLOK, MySQLTypeOK, mysql

\* the history variables,
LEMMA BooksUnchanged == BooksOK /\ UNCHANGED books => BooksOK'
BY DEF BooksOK, books

\* and the gateway processes.
LEMMA GatewayUnchanged == GatewayOK /\ UNCHANGED <<journal, process>> => GatewayOK'
BY DEF GatewayOK, GatewayTypeOK, JournalShape, process

\* The journal's counter never goes back, so what was a batch of a gateway
\* stays one.
LEMMA FramesGrow ==
    ASSUME GatewayTypeOK, GatewayTypeOK', NEW g \in Gateway,
           journal[g].next <= journal'[g].next
    PROVE  /\ Batches(g) \subseteq Batches(g)'
           /\ Seq(Frames(g)) \subseteq Seq(Frames(g)')
<1>1. \A b \in Batches(g) : b \in Batches(g)'
  BY DEF GatewayTypeOK, Journals, Batches, Row
<1>2. Frames(g) \subseteq Frames(g)'
  BY <1>1 DEF Frames
<1> QED BY <1>1, <1>2

\* The streams stay typed as long as no journal counter falls.
LEMMA NetworkUnchanged ==
    ASSUME NetworkOK, GatewayTypeOK, GatewayTypeOK', UNCHANGED network,
           \A g \in Gateway : journal[g].next <= journal'[g].next
    PROVE  NetworkOK'
<1>1. \A g \in Gateway : /\ Batches(g) \subseteq Batches(g)'
                         /\ Seq(Frames(g)) \subseteq Seq(Frames(g)')
  BY FramesGrow
<1>2. NetworkTypeOK'
  BY DEF NetworkOK, NetworkTypeOK, network
<1>3. FrameShape'
  BY <1>1 DEF NetworkOK, FrameShape, network
<1>4. HandlerShape'
  BY <1>1 DEF NetworkOK, HandlerShape, network
<1> QED BY <1>2, <1>3, <1>4 DEF NetworkOK

-----------------------------------------------------------------------------
(***************************************************************************)
(* How a step may change the network.                                      *)
(***************************************************************************)

\* One cell of a two-dimensional table is replaced.
LEMMA CellReplaced ==
    ASSUME NEW A, NEW B, NEW V, NEW f \in [A -> [B -> V]],
           NEW a \in A, NEW b \in B, NEW v \in V, NEW new, new = [f EXCEPT ![a][b] = v]
    PROVE  /\ new \in [A -> [B -> V]]
           /\ \A x \in A, y \in B : new[x][y] = IF x = a /\ y = b THEN v ELSE f[x][y]
OBVIOUS

\* A handler moves to a well-formed state h, takes frames or not, and sends a
\* well-formed control frame or none.
LEMMA HandlerMoves ==
    ASSUME NetworkOK, UNCHANGED journal, NEW g \in Gateway, NEW c \in ConnEpoch,
           NEW h \in Handlers, h.batch \in Batches(g), h.pc = "ingest" => h.batch # {},
           handler' = [handler EXCEPT ![g][c] = h],
           NEW u \in Seq(Frames(g)), up' = up \/ up' = [up EXCEPT ![g][c] = u],
           NEW d \in Seq(DownFrame), down' = down \/ down' = [down EXCEPT ![g] = d]
    PROVE  NetworkOK'
<1>1. \A g1 \in Gateway : Batches(g1)' = Batches(g1) /\ Frames(g1)' = Frames(g1)
  BY DEF Batches, Frames
<1>2. u \in Seq(UpFrame)
  BY DEF Frames
<1> DEFINE HandlerAfter == [handler EXCEPT ![g][c] = h]
           UpAfter == [up EXCEPT ![g][c] = u]
<1>a. /\ up \in [Gateway -> [ConnEpoch -> Seq(UpFrame)]]
      /\ handler \in [Gateway -> [ConnEpoch -> Handlers]]
  BY DEF NetworkOK, NetworkTypeOK
<1>b. /\ UpAfter \in [Gateway -> [ConnEpoch -> Seq(UpFrame)]]
      /\ \A x \in Gateway, y \in ConnEpoch :
            UpAfter[x][y] = IF x = g /\ y = c THEN u ELSE up[x][y]
  BY <1>a, <1>2, CellReplaced
<1>c. /\ HandlerAfter \in [Gateway -> [ConnEpoch -> Handlers]]
      /\ \A x \in Gateway, y \in ConnEpoch :
            HandlerAfter[x][y] = IF x = g /\ y = c THEN h ELSE handler[x][y]
  BY <1>a, CellReplaced
<1>d. handler' = HandlerAfter /\ (up' = up \/ up' = UpAfter)
  OBVIOUS
<1> HIDE DEF HandlerAfter, UpAfter
<1>3. handler' \in [Gateway -> [ConnEpoch -> Handlers]]
  BY <1>c, <1>d
<1>4. up' \in [Gateway -> [ConnEpoch -> Seq(UpFrame)]]
  BY <1>a, <1>b, <1>d
<1>5. down' \in [Gateway -> Seq(DownFrame)]
  BY DEF NetworkOK, NetworkTypeOK
<1>6. FrameShape'
  <2> SUFFICES ASSUME NEW g1 \in Gateway, NEW c1 \in ConnEpoch
               PROVE  up'[g1][c1] \in Seq(Frames(g1))
      BY <1>1 DEF FrameShape
  <2>1. up'[g1][c1] = up[g1][c1] \/ (g1 = g /\ c1 = c /\ up'[g1][c1] = u)
      BY <1>b, <1>d
  <2> QED BY <2>1 DEF NetworkOK, FrameShape
<1>7. HandlerShape'
  <2> SUFFICES ASSUME NEW g1 \in Gateway, NEW c1 \in ConnEpoch
               PROVE  /\ handler'[g1][c1].batch \in Batches(g1)
                      /\ handler'[g1][c1].pc = "ingest" => handler'[g1][c1].batch # {}
      BY <1>1 DEF HandlerShape
  <2>1. handler'[g1][c1] = handler[g1][c1] \/ (g1 = g /\ c1 = c /\ handler'[g1][c1] = h)
      BY <1>c, <1>d
  <2> QED BY <2>1 DEF NetworkOK, HandlerShape
<1> QED BY <1>3, <1>4, <1>5, <1>6, <1>7 DEF NetworkOK, NetworkTypeOK

\* The handler returns.
LEMMA HandlerCloses ==
    ASSUME NetworkOK, UNCHANGED journal, NEW g \in Gateway, NEW c \in ConnEpoch,
           Close(g, c)
    PROVE  NetworkOK'
<1> DEFINE h == HandlerAt("closed")
<1>1. h \in Handlers /\ h.batch = {} /\ h.pc = "closed"
  BY DEF HandlerAt, Handlers, NoEpochs, Epochs
<1>2. {} \in Batches(g)
  BY FS_EmptySet DEF Batches, Distinct
<1>3. <<>> \in Seq(Frames(g)) /\ down[g] \in Seq(DownFrame)
  BY DEF NetworkOK, NetworkTypeOK
<1>4. /\ handler' = [handler EXCEPT ![g][c] = h]
      /\ up' = [up EXCEPT ![g][c] = <<>>] /\ down' = down
  BY DEF Close
<1> HIDE DEF h
<1> QED BY <1>1, <1>2, <1>3, <1>4, HandlerMoves

\* The gateway leaves its stream or takes a control frame: only down changes.
LEMMA GatewayTakes ==
    ASSUME NetworkOK, UNCHANGED <<journal, up, handler>>, NEW g \in Gateway,
           NEW d \in Seq(DownFrame), down' = [down EXCEPT ![g] = d]
    PROVE  NetworkOK'
<1>1. \A g1 \in Gateway : Batches(g1)' = Batches(g1) /\ Frames(g1)' = Frames(g1)
  BY DEF Batches, Frames
<1>2. NetworkTypeOK'
  BY DEF NetworkOK, NetworkTypeOK
<1> QED BY <1>1, <1>2 DEF NetworkOK, FrameShape, HandlerShape

\* The gateway sends well-formed frames, having changed its journal or not.
LEMMA GatewaySends ==
    ASSUME NetworkOK, GatewayTypeOK, GatewayTypeOK', UNCHANGED handler,
           \A g \in Gateway : journal[g].next <= journal'[g].next,
           NEW g \in Gateway, stream[g].epoch \in ConnEpoch,
           NEW frames \in Seq(Frames(g)'), Sent(g, frames),
           NEW d \in Seq(DownFrame), down' = down \/ down' = [down EXCEPT ![g] = d]
    PROVE  NetworkOK'
<1> DEFINE c == stream[g].epoch
           u == IF Open(g, c) THEN up[g][c] \o frames ELSE up[g][c]
<1>1. \A g1 \in Gateway : /\ Batches(g1) \subseteq Batches(g1)'
                          /\ Seq(Frames(g1)) \subseteq Seq(Frames(g1)')
  BY FramesGrow
<1>2. up[g][c] \in Seq(Frames(g)')
  BY <1>1 DEF NetworkOK, FrameShape
<1>3. u \in Seq(Frames(g)')
  BY <1>2
<1>4. up' = [up EXCEPT ![g][c] = u]
  BY DEF Sent
<1> HIDE DEF u
<1>5. u \in Seq(UpFrame)
  BY <1>3 DEF Frames
<1>6. NetworkTypeOK'
  BY <1>4, <1>5 DEF NetworkOK, NetworkTypeOK
<1>7. FrameShape'
  <2> SUFFICES ASSUME NEW g1 \in Gateway, NEW c1 \in ConnEpoch
               PROVE  up'[g1][c1] \in Seq(Frames(g1)')
      BY DEF FrameShape
  <2>0. up \in [Gateway -> [ConnEpoch -> Seq(UpFrame)]]
      BY DEF NetworkOK, NetworkTypeOK
  <2>1. up'[g1][c1] = up[g1][c1] \/ (g1 = g /\ up'[g1][c1] = u)
      BY <1>4, <1>5, <2>0, CellReplaced
  <2> QED BY <1>1, <1>3, <2>1 DEF NetworkOK, FrameShape
<1>8. HandlerShape'
  BY <1>1 DEF NetworkOK, HandlerShape
<1> QED BY <1>6, <1>7, <1>8 DEF NetworkOK

-----------------------------------------------------------------------------
(***************************************************************************)
(* Every action keeps the types: the API's transactions and the sink.      *)
(***************************************************************************)
LEMMA TypedDatabase ==
    ASSUME Typed, MySQLOK', UNCHANGED <<journal, process, network, books>>
    PROVE  Typed'
<1>1. \A g \in Gateway : journal[g].next \in Nat
  BY DEF Typed, GatewayOK, GatewayTypeOK, Journals
<1>2. GatewayOK'
  BY GatewayUnchanged DEF Typed
<1>3. NetworkOK'
  BY <1>1, <1>2, NetworkUnchanged DEF Typed, GatewayOK
<1>4. BooksOK'
  BY BooksUnchanged DEF Typed
<1>5. StreamShape'
  BY DEF Typed, StreamShape, process, network
<1> QED BY <1>2, <1>3, <1>4, <1>5 DEF Typed

\* Reassign keeps the types.
LEMMA TypedReassign ==
    ASSUME Typed, NEW s \in Session, NEW g \in Gateway, Reassign(s, g)
    PROVE  Typed'
<1>1. assignment' \in [Session -> [gw: Gateway \union {NoGateway}, epoch: Nat]]
  BY DEF Typed, MySQLOK, MySQLTypeOK, Reassign
<1>2. revision \in [Gateway -> Nat] /\ assignment[s].gw \in Gateway
  BY DEF Typed, MySQLOK, MySQLTypeOK, Reassign
<1>3. revision' \in [Gateway -> Nat]
  BY <1>2 DEF Reassign
<1>4. MySQLOK'
  BY <1>1, <1>3 DEF Typed, MySQLOK, MySQLTypeOK, Reassign
<1> QED BY <1>4, TypedDatabase DEF Reassign

\* UpdateConfig keeps the types.
LEMMA TypedUpdateConfig ==
    ASSUME Typed, NEW s \in Session, UpdateConfig(s) PROVE Typed'
<1>1. revision' \in [Gateway -> Nat]
  BY DEF Typed, MySQLOK, MySQLTypeOK, UpdateConfig
<1>2. MySQLOK'
  BY <1>1 DEF Typed, MySQLOK, MySQLTypeOK, UpdateConfig
<1> QED BY <1>2, TypedDatabase DEF UpdateConfig

\* DeleteSession keeps the types.
LEMMA TypedDeleteSession ==
    ASSUME Typed, NEW s \in Session, DeleteSession(s) PROVE Typed'
<1>1. assignment' \in [Session -> [gw: Gateway \union {NoGateway}, epoch: Nat]]
  BY DEF Typed, MySQLOK, MySQLTypeOK, DeleteSession
<1>2. revision' \in [Gateway -> Nat]
  BY DEF Typed, MySQLOK, MySQLTypeOK, DeleteSession
<1>3. ledger' \subseteq EventId
  BY DEF Typed, MySQLOK, MySQLTypeOK, DeleteSession
<1>4. claim' \in [Message -> [owner: {"none", "api", "gateway"},
                              id: EventId \union {NoEvent}]]
  BY DEF Typed, MySQLOK, MySQLTypeOK, DeleteSession, Unclaimed
<1>5. MySQLOK'
  BY <1>1, <1>2, <1>3, <1>4 DEF Typed, MySQLOK, MySQLTypeOK, DeleteSession
<1> QED BY <1>5, TypedDatabase DEF DeleteSession

\* AppendOwnSentOnce keeps the types.
LEMMA TypedAppendOwnSentOnce ==
    ASSUME Typed, NEW m \in Message, AppendOwnSentOnce(m) PROVE Typed'
<1>1. claim' \in [Message -> [owner: {"none", "api", "gateway"},
                              id: EventId \union {NoEvent}]]
  BY DEF Typed, MySQLOK, MySQLTypeOK, AppendOwnSentOnce
<1>2. MySQLOK'
  BY <1>1 DEF Typed, MySQLOK, MySQLTypeOK, AppendOwnSentOnce
<1> QED BY <1>2, TypedDatabase DEF AppendOwnSentOnce

\* A step inside a gateway that leaves the database and the network alone.
LEMMA TypedGatewayStep ==
    ASSUME Typed, GatewayOK', BooksOK', UNCHANGED <<mysql, network>>,
           \A g \in Gateway : journal[g].next <= journal'[g].next,
           \A g \in Gateway : ~stream[g].applying => ~stream'[g].applying,
           \A g \in Gateway : stream'[g].epoch = stream[g].epoch
    PROVE  Typed'
<1>1. MySQLOK'
  BY MySQLUnchanged DEF Typed
<1>2. NetworkOK'
  BY NetworkUnchanged DEF Typed, GatewayOK
<1>3. StreamShape'
  BY DEF Typed, StreamShape, network
<1> QED BY <1>1, <1>2, <1>3 DEF Typed

\* Label keeps the types.
LEMMA TypedLabel ==
    ASSUME Typed, NEW g \in Gateway, NEW id \in EventId, Label(g, id) PROVE Typed'
<1>1. recon[g].epochs[SessionOf[id]] \in Nat
  BY ConstantsAssumption DEF Typed, GatewayOK, GatewayTypeOK, Epochs
<1>2. sink' \in [Gateway -> SUBSET [id: EventId, epoch: Nat \ {0}]]
  BY <1>1 DEF Typed, GatewayOK, GatewayTypeOK, Label
<1>3. GatewayOK'
  BY <1>2 DEF Typed, GatewayOK, GatewayTypeOK, JournalShape, Label
<1>4. \A h \in Gateway : journal[h].next <= journal'[h].next
  BY DEF Typed, GatewayOK, GatewayTypeOK, Journals, Label
<1>5. BooksOK'
  BY BooksUnchanged DEF Typed, Label
<1> QED BY <1>3, <1>4, <1>5, TypedGatewayStep DEF Label

\* AppendEvent keeps the types.
LEMMA TypedAppendEvent ==
    ASSUME Typed, NEW g \in Gateway, NEW e \in sink[g], AppendEvent(g, e)
    PROVE  Typed'
<1>1. e.id \in EventId /\ e.epoch \in Nat \ {0}
  BY DEF Typed, GatewayOK, GatewayTypeOK
<1>2. sink' \in [Gateway -> SUBSET [id: EventId, epoch: Nat \ {0}]]
  BY DEF Typed, GatewayOK, GatewayTypeOK, AppendEvent
<1>3. BooksOK'
  BY <1>1 DEF Typed, BooksOK, AppendEvent
<1>4. journal \in [Gateway -> Journals] /\ WellFormed(journal[g])
  BY DEF Typed, GatewayOK, GatewayTypeOK, JournalShape
<1>5. /\ journal' \in [Gateway -> Journals]
      /\ WellFormed(journal'[g])
      /\ journal[g].next <= journal'[g].next
      /\ \A h \in Gateway \ {g} : journal'[h] = journal[h]
  <2>1. CASE journal' = journal
    BY <1>4, <2>1 DEF Journals
  <2>2. CASE /\ ~Journaled(journal[g], e.id)
             /\ journal' = [journal EXCEPT ![g] = AppendRow(@, e.id, e.epoch)]
    <3>1. /\ AppendRow(journal[g], e.id, e.epoch) \in Journals
          /\ WellFormed(AppendRow(journal[g], e.id, e.epoch))
          /\ AppendRow(journal[g], e.id, e.epoch).next = journal[g].next + 1
      BY <1>1, <1>4, <2>2, JournalsAreJournals, AppendWellFormed
    <3> QED BY <1>4, <2>2, <3>1 DEF Journals
  <2> QED BY <2>1, <2>2 DEF AppendEvent
<1>6. GatewayOK'
  BY <1>2, <1>5 DEF Typed, GatewayOK, GatewayTypeOK, JournalShape, AppendEvent
<1>7. \A h \in Gateway : journal[h].next <= journal'[h].next
  BY <1>4, <1>5 DEF Journals
<1> QED BY <1>3, <1>6, <1>7, TypedGatewayStep DEF AppendEvent, network

\* Expire keeps the types.
LEMMA TypedExpire ==
    ASSUME Typed, NEW g \in Gateway, Expire(g) PROVE Typed'
<1>1. recon' \in [Gateway -> [rev: Nat, epochs: Epochs]]
  BY DEF Typed, GatewayOK, GatewayTypeOK, Epochs, NoEpochs, Expire
<1>2. GatewayOK'
  BY <1>1 DEF Typed, GatewayOK, GatewayTypeOK, JournalShape, Expire
<1>3. \A h \in Gateway : journal[h].next <= journal'[h].next
  BY DEF Typed, GatewayOK, GatewayTypeOK, Journals, Expire
<1>4. BooksOK'
  BY BooksUnchanged DEF Typed, Expire
<1> QED BY <1>2, <1>3, <1>4, TypedGatewayStep DEF Expire

-----------------------------------------------------------------------------
(***************************************************************************)
(* Every action keeps the types: the supervisor.                           *)
(***************************************************************************)
Streams == [epoch: 0..MaxConnections, armed: BOOLEAN, expected: Nat, applying: BOOLEAN]

\* The rows of a batch are rows of the journal, and have a last sequence.
LEMMA BatchIsFromJournal ==
    ASSUME NEW g \in Gateway, NEW j \in Journals, WellFormed(j)
    PROVE  LET read == ReadUnacked(j, BatchEntries)
               batch == NextEventBatch(g, j)
           IN  /\ batch \subseteq read /\ read \subseteq j.entries
               /\ batch \in SUBSET Row /\ IsFiniteSet(batch) /\ Distinct(batch)
               /\ \A r \in batch : r.seq < j.next
               /\ batch # {} => LastSeq(batch) \in Nat
               /\ read # {} => LastSeq(read) \in Nat
<1> DEFINE read == ReadUnacked(j, BatchEntries)
           batch == NextEventBatch(g, j)
<1>1. batch \subseteq read /\ read \subseteq j.entries
  BY DEF NextEventBatch, ReadUnacked
<1> HIDE DEF read, batch
<1>2. j.entries \subseteq Row /\ j.next \in Nat
  BY DEF Journals
<1>3. IsFiniteSet(j.entries) /\ batch \in SUBSET j.entries
  BY <1>1 DEF WellFormed
<1>4. IsFiniteSet(batch)
  BY <1>3, FS_Subset
<1>5. Distinct(batch)
  BY <1>3 DEF WellFormed, Distinct
<1>6. \A r \in j.entries : r.seq \in Nat /\ r.seq < j.next
  BY <1>2 DEF WellFormed, Row
<1>7. batch # {} => LastSeq(batch) \in Nat
  BY <1>2, <1>3, <1>6, LastSeqIsNewest
<1>8. read # {} => LastSeq(read) \in Nat
  BY <1>1, <1>2, <1>6, LastSeqIsNewest
<1> QED BY <1>1, <1>2, <1>3, <1>4, <1>5, <1>6, <1>7, <1>8 DEF read, batch

\* sendEventBatch leaves a well-formed journal and sends well-formed frames.
LEMMA SendBatchTyped ==
    ASSUME Typed, NEW g \in Gateway, stream[g].epoch # 0,
           NEW j \in Journals, WellFormed(j), j.next = journal[g].next,
           NEW armed \in BOOLEAN, NEW before \in Seq(Frames(g)),
           SendBatch(g, j, armed, before), UNCHANGED <<sink, recon, adapter, handler>>,
           NEW d \in Seq(DownFrame), down' = down \/ down' = [down EXCEPT ![g] = d]
    PROVE  /\ GatewayOK' /\ NetworkOK'
           /\ \A h \in Gateway : /\ stream'[h].applying = stream[h].applying
                                 /\ stream'[h].epoch = stream[h].epoch
<1> DEFINE read == ReadUnacked(j, BatchEntries)
           batch == NextEventBatch(g, j)
           after == RetireUnowned(g, j)
           frames == IF batch = {} THEN before ELSE Append(before, EventBatch(batch))
<1>1. /\ journal \in [Gateway -> Journals] /\ stream \in [Gateway -> Streams]
      /\ \A h \in Gateway : WellFormed(journal[h])
  BY DEF Typed, GatewayOK, GatewayTypeOK, JournalShape, Streams
<1>2. /\ batch \in SUBSET Row /\ IsFiniteSet(batch) /\ Distinct(batch)
      /\ \A r \in batch : r.seq < j.next
      /\ batch # {} => LastSeq(batch) \in Nat
      /\ read # {} => LastSeq(read) \in Nat
  BY BatchIsFromJournal
<1>3. after \in Journals /\ WellFormed(after) /\ after.next = j.next
  <2>0. after = j \/ (read # {} /\ after = AckThrough(j, LastSeq(read)))
    BY DEF RetireUnowned
  <2> HIDE DEF after, read
  <2>1. CASE after = j
    BY <2>1
  <2>2. CASE read # {} /\ after = AckThrough(j, LastSeq(read))
    BY <1>2, <2>2, AckKeepsJournal
  <2> QED BY <2>0, <2>1, <2>2
<1>4. /\ journal' = [journal EXCEPT ![g] = after]
      /\ stream' = [stream EXCEPT ![g].armed = armed,
                      ![g].expected = IF batch = {} THEN 0 ELSE LastSeq(batch)]
      /\ Sent(g, frames)
  BY DEF SendBatch
<1>5. batch # {} => EventBatch(batch) \in UpFrame
  BY <1>2 DEF EventBatch, UpFrame
<1> HIDE DEF read, batch, after
<1>6. /\ journal' \in [Gateway -> Journals]
      /\ \A h \in Gateway : WellFormed(journal'[h]) /\ journal'[h].next = journal[h].next
  BY <1>1, <1>3, <1>4
<1>7. /\ stream' \in [Gateway -> Streams]
      /\ \A h \in Gateway : /\ stream'[h].applying = stream[h].applying
                            /\ stream'[h].epoch = stream[h].epoch
  <2>1. (IF batch = {} THEN 0 ELSE LastSeq(batch)) \in Nat
    BY <1>2
  <2>2. PICK n \in Nat : n = IF batch = {} THEN 0 ELSE LastSeq(batch)
    BY <2>1
  <2>3. stream' = [stream EXCEPT ![g].armed = armed, ![g].expected = n]
    BY <1>4, <2>2
  <2>4. \A h \in Gateway :
           stream'[h] = IF h = g THEN [stream[g] EXCEPT !.armed = armed, !.expected = n]
                        ELSE stream[h]
    BY <1>1, <2>3
  <2>5. stream[g] \in Streams
    BY <1>1
  <2>6. /\ [stream[g] EXCEPT !.armed = armed, !.expected = n] \in Streams
        /\ [stream[g] EXCEPT !.armed = armed, !.expected = n].applying = stream[g].applying
        /\ [stream[g] EXCEPT !.armed = armed, !.expected = n].epoch = stream[g].epoch
    BY <1>1, <2>2, <2>5 DEF Streams
  <2> QED BY <1>1, <2>3, <2>4, <2>6
<1>8. GatewayOK'
  BY <1>6, <1>7 DEF Typed, GatewayOK, GatewayTypeOK, JournalShape, Streams
<1>9. \A h \in Gateway : journal[h].next <= journal'[h].next
  BY <1>1, <1>6 DEF Journals
<1>10. frames \in Seq(Frames(g)')
  <2>1. before \in Seq(Frames(g)')
    BY <1>8, <1>9, FramesGrow DEF Typed, GatewayOK
  <2>2. batch # {} => EventBatch(batch) \in Frames(g)'
    BY <1>2, <1>5, <1>6 DEF Frames, Batches, EventBatch
  <2> QED BY <2>1, <2>2
<1>11. stream[g].epoch \in ConnEpoch
  BY <1>1, ConstantsAssumption DEF Streams, ConnEpoch
<1> HIDE DEF frames
<1>12. NetworkOK'
  BY <1>4, <1>8, <1>9, <1>10, <1>11, GatewaySends DEF Typed, GatewayOK
<1> QED BY <1>7, <1>8, <1>12

\* SendHeartbeat keeps the types.
LEMMA TypedSendHeartbeat ==
    ASSUME Typed, NEW g \in Gateway, SendHeartbeat(g) PROVE Typed'
<1>1. MySQLOK' /\ BooksOK'
  BY MySQLUnchanged, BooksUnchanged DEF Typed, SendHeartbeat
<1>2. Heartbeat \in Frames(g)
  BY FS_EmptySet DEF Heartbeat, Frames, UpFrame, Batches, Distinct
<1>3. <<Heartbeat>> \in Seq(Frames(g))
  BY <1>2
<1>4. /\ journal \in [Gateway -> Journals] /\ stream \in [Gateway -> Streams]
      /\ \A h \in Gateway : WellFormed(journal[h])
      /\ down[g] \in Seq(DownFrame)
  BY DEF Typed, GatewayOK, GatewayTypeOK, JournalShape, Streams, NetworkOK, NetworkTypeOK
<1>5. /\ GatewayOK' /\ NetworkOK'
      /\ \A h \in Gateway : /\ stream'[h].applying = stream[h].applying
                            /\ stream'[h].epoch = stream[h].epoch
  <2>1. CASE SendBatch(g, journal[g], FALSE, <<Heartbeat>>)
    BY <1>3, <1>4, <2>1, SendBatchTyped DEF SendHeartbeat, Ready
  <2>2. CASE /\ stream' = [stream EXCEPT ![g].armed = FALSE]
             /\ Sent(g, <<Heartbeat>>)
             /\ UNCHANGED journal
    <3>1. /\ stream' \in [Gateway -> Streams]
          /\ \A h \in Gateway : /\ stream'[h].applying = stream[h].applying
                                /\ stream'[h].epoch = stream[h].epoch
      BY <1>4, <2>2 DEF Streams
    <3>2. GatewayOK'
      BY <2>2, <3>1 DEF Typed, GatewayOK, GatewayTypeOK, JournalShape, Streams, SendHeartbeat
    <3>3. \A h \in Gateway : journal[h].next <= journal'[h].next
      BY <1>4, <2>2 DEF Journals
    <3>4. stream[g].epoch \in ConnEpoch
      BY <1>4, ConstantsAssumption DEF Streams, ConnEpoch, SendHeartbeat, Ready
    <3>5. <<Heartbeat>> \in Seq(Frames(g)')
      BY <1>3, <3>2, <3>3, FramesGrow DEF Typed, GatewayOK
    <3>6. NetworkOK'
      BY <1>4, <2>2, <3>2, <3>3, <3>4, <3>5, GatewaySends DEF Typed, GatewayOK, SendHeartbeat
    <3> QED BY <3>1, <3>2, <3>6
  <2> QED BY <2>1, <2>2 DEF SendHeartbeat
<1>6. StreamShape'
  BY <1>5 DEF Typed, StreamShape, SendHeartbeat
<1> QED BY <1>1, <1>5, <1>6 DEF Typed

\* Steps of the supervisor that take a control frame or leave the stream: the
\* journal, the database and the frames sent stay as they are.
LEMMA TypedTakes ==
    ASSUME Typed, NEW g \in Gateway, UNCHANGED <<mysql, journal, up, handler, accepted>>,
           sink' \in [Gateway -> SUBSET [id: EventId, epoch: Nat \ {0}]],
           recon' \in [Gateway -> [rev: Nat, epochs: Epochs]],
           adapter' \in [Gateway -> [live: BOOLEAN, rev: Nat, epochs: Epochs]],
           faults' \in Nat,
           NEW st \in Streams, stream' = [stream EXCEPT ![g] = st], ~st.applying,
           NEW d \in Seq(DownFrame), down' = [down EXCEPT ![g] = d]
    PROVE  Typed'
<1>1. MySQLOK'
  BY MySQLUnchanged DEF Typed
<1>2. stream' \in [Gateway -> Streams]
  BY DEF Typed, GatewayOK, GatewayTypeOK, Streams
<1>3. GatewayOK'
  BY <1>2 DEF Typed, GatewayOK, GatewayTypeOK, JournalShape, Streams
<1>4. NetworkOK'
  BY GatewayTakes DEF Typed
<1>5. StreamShape'
  BY DEF Typed, StreamShape, GatewayOK, GatewayTypeOK, NetworkOK, NetworkTypeOK
<1>6. BooksOK'
  BY DEF Typed, BooksOK
<1> QED BY <1>1, <1>3, <1>4, <1>5, <1>6 DEF Typed

\* The record of a gateway without a stream.
LEMMA NoStreamTyped == NoStream \in Streams /\ ~NoStream.applying
BY ConstantsAssumption DEF NoStream, Streams

\* ArmHeartbeat keeps the types.
LEMMA TypedArmHeartbeat ==
    ASSUME Typed, NEW g \in Gateway, ArmHeartbeat(g) PROVE Typed'
<1> DEFINE st == [stream[g] EXCEPT !.armed = TRUE]
<1>1. /\ stream \in [Gateway -> Streams] /\ down \in [Gateway -> Seq(DownFrame)]
      /\ sink \in [Gateway -> SUBSET [id: EventId, epoch: Nat \ {0}]]
      /\ recon \in [Gateway -> [rev: Nat, epochs: Epochs]]
      /\ adapter \in [Gateway -> [live: BOOLEAN, rev: Nat, epochs: Epochs]]
      /\ faults \in Nat
  BY DEF Typed, GatewayOK, GatewayTypeOK, Streams, NetworkOK, NetworkTypeOK, BooksOK
<1>2. st \in Streams /\ ~st.applying /\ stream' = [stream EXCEPT ![g] = st]
  BY <1>1 DEF ArmHeartbeat, Received, Ready, Streams
<1>3. Tail(down[g]) \in Seq(DownFrame)
  BY <1>1 DEF ArmHeartbeat, Received
<1> HIDE DEF st
<1> QED BY <1>1, <1>2, <1>3, TypedTakes DEF ArmHeartbeat, books

\* HandleEventAck keeps the types.
LEMMA TypedHandleEventAck ==
    ASSUME Typed, NEW g \in Gateway, HandleEventAck(g) PROVE Typed'
<1> DEFINE seq == Head(down[g]).seq
           j == AckThrough(journal[g], seq)
<1>1. MySQLOK' /\ BooksOK'
  BY MySQLUnchanged, BooksUnchanged DEF Typed, HandleEventAck
<1>2. /\ journal[g] \in Journals /\ stream \in [Gateway -> Streams]
      /\ WellFormed(journal[g])
      /\ down \in [Gateway -> Seq(DownFrame)]
  BY DEF Typed, GatewayOK, GatewayTypeOK, JournalShape, Streams, NetworkOK, NetworkTypeOK
<1>3. seq \in Nat /\ Tail(down[g]) \in Seq(DownFrame)
  <2>1. down[g] \in Seq(DownFrame) /\ down[g] # <<>>
    BY <1>2 DEF HandleEventAck, Received
  <2>2. Head(down[g]) \in DownFrame /\ Tail(down[g]) \in Seq(DownFrame)
    BY <2>1
  <2> QED BY <2>2 DEF DownFrame
<1>4. j \in Journals /\ WellFormed(j) /\ j.next = journal[g].next
  BY <1>2, <1>3, AckKeepsJournal
<1>5. /\ SendBatch(g, j, stream[g].armed, <<>>) /\ stream[g].armed \in BOOLEAN
      /\ stream[g].epoch # 0 /\ ~stream[g].applying
      /\ <<>> \in Seq(Frames(g))
      /\ UNCHANGED <<sink, recon, adapter, handler>>
      /\ down' = [down EXCEPT ![g] = Tail(down[g])]
  BY <1>2 DEF HandleEventAck, Received, Ready, Streams
<1> HIDE DEF j
<1> HIDE DEF seq
<1>6. /\ GatewayOK' /\ NetworkOK'
      /\ \A h \in Gateway : /\ stream'[h].applying = stream[h].applying
                            /\ stream'[h].epoch = stream[h].epoch
  BY <1>3, <1>4, <1>5, SendBatchTyped
<1>7. StreamShape'
  BY <1>2, <1>5, <1>6 DEF Typed, StreamShape
<1> QED BY <1>1, <1>6, <1>7 DEF Typed

\* The control frame the supervisor handles is well-formed.
LEMMA HeadTyped ==
    ASSUME Typed, NEW g \in Gateway, down[g] # <<>>
    PROVE  /\ Head(down[g]) \in DownFrame /\ Tail(down[g]) \in Seq(DownFrame)
           /\ Head(down[g]).rev \in Nat /\ Head(down[g]).epochs \in Epochs
<1>1. down[g] \in Seq(DownFrame)
  BY DEF Typed, NetworkOK, NetworkTypeOK
<1>2. Head(down[g]) \in DownFrame /\ Tail(down[g]) \in Seq(DownFrame)
  BY <1>1
<1> QED BY <1>2 DEF DownFrame

\* BeginApply keeps the types.
LEMMA TypedBeginApply ==
    ASSUME Typed, NEW g \in Gateway, BeginApply(g) PROVE Typed'
<1>1. stream[g].epoch # 0 /\ down[g] # <<>>
  BY DEF BeginApply, Received, Ready
<1>2. Head(down[g]).rev \in Nat /\ Head(down[g]).epochs \in Epochs
  BY <1>1, HeadTyped
<1>3. recon' \in [Gateway -> [rev: Nat, epochs: Epochs]]
  BY <1>2 DEF Typed, GatewayOK, GatewayTypeOK, BeginApply
<1>4. stream \in [Gateway -> Streams]
  BY DEF Typed, GatewayOK, GatewayTypeOK, Streams
<1>5. /\ stream' \in [Gateway -> Streams]
      /\ \A h \in Gateway : /\ stream'[h].epoch = stream[h].epoch
                            /\ h # g => stream'[h] = stream[h]
  BY <1>4 DEF Streams, BeginApply
<1>6. GatewayOK'
  BY <1>3, <1>5 DEF Typed, GatewayOK, GatewayTypeOK, JournalShape, Streams, BeginApply
<1>7. \A h \in Gateway : journal[h].next <= journal'[h].next
  BY DEF Typed, GatewayOK, GatewayTypeOK, Journals, BeginApply
<1>8. MySQLOK' /\ BooksOK'
  BY MySQLUnchanged, BooksUnchanged DEF Typed, BeginApply
<1>9. NetworkOK'
  BY <1>6, <1>7, NetworkUnchanged DEF Typed, GatewayOK, BeginApply
<1>10. StreamShape'
  BY <1>1, <1>5 DEF Typed, StreamShape, BeginApply, network
<1> QED BY <1>6, <1>8, <1>9, <1>10 DEF Typed

\* FinishApply keeps the types.
LEMMA TypedFinishApply ==
    ASSUME Typed, NEW g \in Gateway, FinishApply(g) PROVE Typed'
<1> DEFINE snap == Head(down[g])
<1>1. stream[g].epoch # 0 /\ down[g] # <<>>
  BY DEF Typed, StreamShape, FinishApply
<1>2. snap.rev \in Nat /\ snap.epochs \in Epochs /\ Tail(down[g]) \in Seq(DownFrame)
  BY <1>1, HeadTyped
<1>3. recon' \in [Gateway -> [rev: Nat, epochs: Epochs]]
  <2>1. recon \in [Gateway -> [rev: Nat, epochs: Epochs]]
    BY DEF Typed, GatewayOK, GatewayTypeOK
  <2>2. PICK n \in Nat : n = snap.rev
    BY <1>2
  <2>3. recon' = [recon EXCEPT ![g].rev = IF n < recon[g].rev THEN recon[g].rev ELSE n]
    BY <2>2 DEF FinishApply
  <2> QED BY <2>1, <2>3
<1>4. adapter' \in [Gateway -> [live: BOOLEAN, rev: Nat, epochs: Epochs]]
  <2>1. adapter \in [Gateway -> [live: BOOLEAN, rev: Nat, epochs: Epochs]]
    BY DEF Typed, GatewayOK, GatewayTypeOK
  <2>2. SetDesiredAssignments(adapter[g], snap) \in [live: BOOLEAN, rev: Nat, epochs: Epochs]
    BY <1>2, <2>1 DEF SetDesiredAssignments
  <2> QED BY <2>1, <2>2 DEF FinishApply
<1>5. stream \in [Gateway -> Streams]
  BY DEF Typed, GatewayOK, GatewayTypeOK, Streams
<1>6. /\ stream' \in [Gateway -> Streams] /\ ~stream'[g].applying
      /\ \A h \in Gateway : h # g => stream'[h] = stream[h]
  BY <1>5 DEF Streams, FinishApply
<1>7. GatewayOK'
  BY <1>3, <1>4, <1>6 DEF Typed, GatewayOK, GatewayTypeOK, JournalShape, Streams, FinishApply
<1>8. \A h \in Gateway : journal[h].next <= journal'[h].next
  BY DEF Typed, GatewayOK, GatewayTypeOK, Journals, FinishApply
<1>9. <<Report(snap.rev)>> \in Seq(Frames(g)')
  <2>1. Report(snap.rev) \in Frames(g)'
    BY <1>2, FS_EmptySet DEF Report, Frames, UpFrame, Batches, Distinct
  <2> QED BY <2>1
<1>10. stream[g].epoch \in ConnEpoch
  BY <1>1, <1>5, ConstantsAssumption DEF Streams, ConnEpoch
<1>11. /\ Sent(g, <<Report(snap.rev)>>)
       /\ down' = [down EXCEPT ![g] = Tail(down[g])] /\ UNCHANGED handler
  BY DEF FinishApply
<1>12. NetworkOK'
  BY <1>2, <1>7, <1>8, <1>9, <1>10, <1>11, GatewaySends DEF Typed, GatewayOK
<1>13. MySQLOK' /\ BooksOK'
  BY MySQLUnchanged, BooksUnchanged DEF Typed, FinishApply
<1>14. StreamShape'
  BY <1>6, <1>11 DEF Typed, StreamShape, NetworkOK, NetworkTypeOK
<1> QED BY <1>7, <1>12, <1>13, <1>14 DEF Typed

\* The gateway leaves its stream, with whatever else of its state it loses.
LEMMA TypedLeaves ==
    ASSUME Typed, NEW g \in Gateway, LeaveStream(g),
           UNCHANGED <<mysql, journal, up, handler, accepted>>,
           sink' \in [Gateway -> SUBSET [id: EventId, epoch: Nat \ {0}]],
           recon' \in [Gateway -> [rev: Nat, epochs: Epochs]],
           adapter' \in [Gateway -> [live: BOOLEAN, rev: Nat, epochs: Epochs]],
           faults' \in Nat
    PROVE  Typed'
<1>1. <<>> \in Seq(DownFrame)
  OBVIOUS
<1>2. stream' = [stream EXCEPT ![g] = NoStream] /\ down' = [down EXCEPT ![g] = <<>>]
  BY DEF LeaveStream
<1> QED BY <1>1, <1>2, NoStreamTyped, TypedTakes

\* What a gateway process holds.
LEMMA ProcessTypes ==
    ASSUME Typed
    PROVE  /\ sink \in [Gateway -> SUBSET [id: EventId, epoch: Nat \ {0}]]
           /\ recon \in [Gateway -> [rev: Nat, epochs: Epochs]]
           /\ adapter \in [Gateway -> [live: BOOLEAN, rev: Nat, epochs: Epochs]]
           /\ stream \in [Gateway -> Streams]
           /\ faults \in Nat
           /\ NoEpochs \in Epochs
BY DEF Typed, GatewayOK, GatewayTypeOK, BooksOK, Streams, NoEpochs, Epochs

\* FailApply keeps the types.
LEMMA TypedFailApply ==
    ASSUME Typed, NEW g \in Gateway, FailApply(g) PROVE Typed'
<1>1. recon' \in [Gateway -> [rev: Nat, epochs: Epochs]] /\ faults' \in Nat
  BY ProcessTypes DEF FailApply
<1> QED BY <1>1, ProcessTypes, TypedLeaves DEF FailApply

\* StreamClosed keeps the types.
LEMMA TypedStreamClosed ==
    ASSUME Typed, NEW g \in Gateway, StreamClosed(g) PROVE Typed'
BY ProcessTypes, TypedLeaves DEF StreamClosed, books

\* StreamBreak keeps the types.
LEMMA TypedStreamBreak ==
    ASSUME Typed, NEW g \in Gateway, StreamBreak(g) PROVE Typed'
<1>1. faults' \in Nat
  BY ProcessTypes DEF StreamBreak
<1> QED BY <1>1, ProcessTypes, TypedLeaves DEF StreamBreak

\* Crash keeps the types.
LEMMA TypedCrash ==
    ASSUME Typed, NEW g \in Gateway, Crash(g) PROVE Typed'
<1>1. faults' \in Nat /\ sink' \in [Gateway -> SUBSET [id: EventId, epoch: Nat \ {0}]]
  BY ProcessTypes DEF Crash
<1>2. recon' \in [Gateway -> [rev: Nat, epochs: Epochs]]
  BY ProcessTypes DEF Crash, NoRecon
<1>3. adapter' \in [Gateway -> [live: BOOLEAN, rev: Nat, epochs: Epochs]]
  BY ProcessTypes DEF Crash, NoAdapter
<1> QED BY <1>1, <1>2, <1>3, TypedLeaves DEF Crash

-----------------------------------------------------------------------------
(***************************************************************************)
(* Every action keeps the types: connections and handlers.                 *)
(***************************************************************************)

\* A new connection epoch and its handler.
LEMMA AcceptTyped ==
    ASSUME Typed, NEW g \in Gateway, connEpoch[g] < MaxConnections,
           NEW pc \in {"accepted", "closed"}, AcceptConnection(g, pc),
           UNCHANGED <<journal, up, down>>
    PROVE  MySQLOK' /\ NetworkOK' /\ connEpoch[g] + 1 \in ConnEpoch
<1> DEFINE c == connEpoch[g] + 1
           h == HandlerAt(pc)
<1>1. connEpoch \in [Gateway -> 0..MaxConnections] /\ MaxConnections \in Nat
  BY ConstantsAssumption DEF Typed, MySQLOK, MySQLTypeOK
<1>2. c \in ConnEpoch /\ c \in 0..MaxConnections
  BY <1>1 DEF ConnEpoch
<1>3. connEpoch' \in [Gateway -> 0..MaxConnections]
  BY <1>1, <1>2 DEF AcceptConnection
<1>4. MySQLOK'
  BY <1>3 DEF Typed, MySQLOK, MySQLTypeOK, AcceptConnection
<1>5. h \in Handlers /\ h.batch = {} /\ h.pc # "ingest"
  BY DEF HandlerAt, Handlers, NoEpochs, Epochs
<1>6. {} \in Batches(g)
  BY FS_EmptySet DEF Batches, Distinct
<1>7. up[g][c] \in Seq(Frames(g)) /\ down[g] \in Seq(DownFrame)
  BY <1>2 DEF Typed, NetworkOK, NetworkTypeOK, FrameShape
<1>8. handler' = [handler EXCEPT ![g][c] = h] /\ up' = up /\ down' = down
  BY DEF AcceptConnection
<1> HIDE DEF c, h
<1>9. NetworkOK'
  BY <1>2, <1>5, <1>6, <1>7, <1>8, HandlerMoves DEF Typed
<1> QED BY <1>2, <1>4, <1>9 DEF c

\* Connect keeps the types.
LEMMA TypedConnect ==
    ASSUME Typed, NEW g \in Gateway, Connect(g) PROVE Typed'
<1>1. MySQLOK' /\ NetworkOK' /\ connEpoch[g] + 1 \in ConnEpoch
  BY AcceptTyped DEF Connect
<1>2. adapter' \in [Gateway -> [live: BOOLEAN, rev: Nat, epochs: Epochs]]
  BY ProcessTypes DEF Connect
<1>3. /\ stream' \in [Gateway -> Streams] /\ stream'[g].epoch # 0
      /\ \A h \in Gateway : /\ stream'[h].applying = stream[h].applying
                            /\ h # g => stream'[h].epoch = stream[h].epoch
  <2>1. stream \in [Gateway -> Streams] /\ connEpoch[g] + 1 \in 0..MaxConnections
    BY <1>1, ProcessTypes, ConstantsAssumption DEF ConnEpoch
  <2>2. connEpoch[g] + 1 # 0
    BY <1>1 DEF ConnEpoch
  <2> QED BY <2>1, <2>2 DEF Connect, Streams
<1>4. GatewayOK'
  BY <1>2, <1>3 DEF Typed, GatewayOK, GatewayTypeOK, JournalShape, Streams, Connect
<1>5. BooksOK'
  BY BooksUnchanged DEF Typed, Connect
<1>6. StreamShape'
  BY <1>3 DEF Typed, StreamShape, Connect
<1> QED BY <1>1, <1>4, <1>5, <1>6 DEF Typed

\* ProveCurrentConnection keeps the types.
LEMMA TypedProveCurrentConnection ==
    ASSUME Typed, NEW g \in Gateway, ProveCurrentConnection(g) PROVE Typed'
<1>1. connEpoch[g] < MaxConnections
  BY ConstantsAssumption DEF Typed, MySQLOK, MySQLTypeOK, ProveCurrentConnection
<1>2. MySQLOK' /\ NetworkOK'
  BY <1>1, AcceptTyped DEF ProveCurrentConnection
<1>3. GatewayOK'
  BY GatewayUnchanged DEF Typed, ProveCurrentConnection
<1>4. BooksOK'
  BY DEF Typed, BooksOK, ProveCurrentConnection
<1>5. StreamShape'
  BY DEF Typed, StreamShape, ProveCurrentConnection, process
<1> QED BY <1>2, <1>3, <1>4, <1>5 DEF Typed

\* A handler's step leaves the gateway's own state alone and takes no control
\* frame away.
LEMMA TypedHandlerStep ==
    ASSUME Typed, MySQLOK', NetworkOK', UNCHANGED <<journal, process, accepted>>,
           faults' \in Nat, \A g \in Gateway : down[g] # <<>> => down'[g] # <<>>
    PROVE  Typed'
<1>1. GatewayOK'
  BY GatewayUnchanged DEF Typed
<1>2. BooksOK'
  BY DEF Typed, BooksOK
<1>3. StreamShape'
  BY DEF Typed, StreamShape, process
<1> QED BY <1>1, <1>2, <1>3 DEF Typed

\* Sending a well-formed control frame.
LEMMA DeliverTyped ==
    ASSUME Typed, NEW g \in Gateway, NEW c, NEW frame \in DownFrame, Deliver(g, c, frame)
    PROVE  /\ \E d \in Seq(DownFrame) : down' = [down EXCEPT ![g] = d]
           /\ \A h \in Gateway : down[h] # <<>> => down'[h] # <<>>
<1>1. down \in [Gateway -> Seq(DownFrame)]
  BY DEF Typed, NetworkOK, NetworkTypeOK
<1> DEFINE d == IF stream[g].epoch = c THEN Append(down[g], frame) ELSE down[g]
<1>2. d \in Seq(DownFrame) /\ (down[g] # <<>> => d # <<>>)
  BY <1>1
<1>3. down' = [down EXCEPT ![g] = d]
  BY DEF Deliver
<1> HIDE DEF d
<1> QED BY <1>1, <1>2, <1>3

\* A handler that closes its stream keeps the types.
LEMMA TypedCloses ==
    ASSUME Typed, NEW g \in Gateway, NEW c \in ConnEpoch, Close(g, c),
           UNCHANGED <<mysql, journal, process, accepted>>, faults' \in Nat
    PROVE  Typed'
<1>1. NetworkOK' /\ MySQLOK'
  BY HandlerCloses, MySQLUnchanged DEF Typed
<1>2. \A h \in Gateway : down[h] # <<>> => down'[h] # <<>>
  BY DEF Close
<1> QED BY <1>1, <1>2, TypedHandlerStep

\* HandlerReturns keeps the types.
LEMMA TypedHandlerReturns ==
    ASSUME Typed, NEW g \in Gateway, NEW c \in ConnEpoch, HandlerReturns(g, c)
    PROVE  Typed'
BY ProcessTypes, TypedCloses DEF HandlerReturns, books

\* HandlerFails keeps the types.
LEMMA TypedHandlerFails ==
    ASSUME Typed, NEW g \in Gateway, NEW c \in ConnEpoch, HandlerFails(g, c)
    PROVE  Typed'
<1>1. faults' \in Nat
  BY ProcessTypes DEF HandlerFails
<1> QED BY <1>1, TypedCloses DEF HandlerFails

\* A handler moves to state h with frames u left to take, and sends a control
\* frame or none.
LEMMA TypedHandlerMoves ==
    ASSUME Typed, NEW g \in Gateway, NEW c \in ConnEpoch, NEW h \in Handlers,
           h.batch \in Batches(g), h.pc = "ingest" => h.batch # {},
           handler' = [handler EXCEPT ![g][c] = h],
           NEW u \in Seq(Frames(g)), up' = up \/ up' = [up EXCEPT ![g][c] = u],
           NEW frame \in DownFrame, down' = down \/ Deliver(g, c, frame),
           MySQLOK', UNCHANGED <<journal, process, accepted, faults>>
    PROVE  Typed'
<1>1. faults' \in Nat /\ down[g] \in Seq(DownFrame)
  BY ProcessTypes DEF Typed, NetworkOK, NetworkTypeOK
<1>2. CASE down' = down
  <2>1. NetworkOK'
    BY <1>1, <1>2, HandlerMoves DEF Typed
  <2> QED BY <1>1, <1>2, <2>1, TypedHandlerStep
<1>3. CASE Deliver(g, c, frame)
  <2>1. PICK d \in Seq(DownFrame) : down' = [down EXCEPT ![g] = d]
    BY <1>3, DeliverTyped
  <2>2. NetworkOK'
    BY <2>1, HandlerMoves DEF Typed
  <2>3. \A g1 \in Gateway : down[g1] # <<>> => down'[g1] # <<>>
    BY <1>3, DeliverTyped
  <2> QED BY <1>1, <2>2, <2>3, TypedHandlerStep
<1> QED BY <1>2, <1>3

\* What a handler finds: its own state, and the frames not yet taken.
LEMMA HandlerTypes ==
    ASSUME Typed, NEW g \in Gateway, NEW c \in ConnEpoch
    PROVE  /\ handler[g][c] \in Handlers /\ handler[g][c].batch \in Batches(g)
           /\ up[g][c] \in Seq(Frames(g))
           /\ up[g][c] # <<>> => /\ Head(up[g][c]) \in Frames(g)
                                 /\ Tail(up[g][c]) \in Seq(Frames(g))
           /\ {} \in Batches(g) /\ Armed \in DownFrame
           /\ \A pc \in {"list", "idle", "ingest"} : HandlerAt(pc) \in Handlers
<1>1. /\ handler[g][c] \in Handlers /\ handler[g][c].batch \in Batches(g)
      /\ up[g][c] \in Seq(Frames(g))
  BY DEF Typed, NetworkOK, NetworkTypeOK, HandlerShape, FrameShape
<1>2. up[g][c] # <<>> => /\ Head(up[g][c]) \in Frames(g)
                         /\ Tail(up[g][c]) \in Seq(Frames(g))
  BY <1>1
<1>3. {} \in Batches(g)
  BY FS_EmptySet DEF Batches, Distinct
<1>4. Armed \in DownFrame
  BY DEF Armed, DownFrame, NoEpochs, Epochs
<1>5. \A pc \in {"list", "idle", "ingest"} : HandlerAt(pc) \in Handlers
  BY DEF HandlerAt, Handlers, NoEpochs, Epochs
<1> QED BY <1>1, <1>2, <1>3, <1>4, <1>5

\* StartPush keeps the types.
LEMMA TypedStartPush ==
    ASSUME Typed, NEW g \in Gateway, NEW c \in ConnEpoch, NEW rest \in Seq(Frames(g)),
           StartPush(g, c, rest), UNCHANGED <<mysql, journal, process, books>>
    PROVE  Typed'
<1>1. MySQLOK' /\ UNCHANGED <<accepted, faults>> /\ faults' \in Nat
  BY MySQLUnchanged, ProcessTypes DEF Typed, books
<1>2. CASE connEpoch[g] = c
  <2> DEFINE h == [HandlerAt("list") EXCEPT !.rev = revision[g]]
  <2>1. revision[g] \in Nat
    BY DEF Typed, MySQLOK, MySQLTypeOK
  <2>2. h \in Handlers /\ h.batch = {} /\ h.pc = "list"
    BY <2>1 DEF HandlerAt, Handlers, NoEpochs, Epochs
  <2>3. /\ handler' = [handler EXCEPT ![g][c] = h]
        /\ up' = [up EXCEPT ![g][c] = rest] /\ Deliver(g, c, Armed)
    BY <1>2 DEF StartPush
  <2>4. {} \in Batches(g) /\ Armed \in DownFrame
    BY HandlerTypes
  <2> HIDE DEF h
  <2> QED BY <1>1, <2>2, <2>3, <2>4, TypedHandlerMoves
<1>3. CASE connEpoch[g] # c
  BY <1>1, <1>3, TypedCloses DEF StartPush
<1> QED BY <1>2, <1>3

\* HandleHello keeps the types.
LEMMA TypedHandleHello ==
    ASSUME Typed, NEW g \in Gateway, NEW c \in ConnEpoch, HandleHello(g, c) PROVE Typed'
BY HandlerTypes, TypedStartPush DEF HandleHello

\* HandleHeartbeat keeps the types.
LEMMA TypedHandleHeartbeat ==
    ASSUME Typed, NEW g \in Gateway, NEW c \in ConnEpoch, HandleHeartbeat(g, c)
    PROVE  Typed'
BY HandlerTypes, TypedStartPush DEF HandleHeartbeat, Taken

\* ListAssignments keeps the types.
LEMMA TypedListAssignments ==
    ASSUME Typed, NEW g \in Gateway, NEW c \in ConnEpoch, ListAssignments(g, c)
    PROVE  Typed'
<1> DEFINE current == revision[g] = handler[g][c].rev /\ connEpoch[g] = c
           epochs == IF current THEN Assigned(g) ELSE NoEpochs
           h == [handler[g][c] EXCEPT !.pc = "recheck", !.epochs = epochs]
<1>1. epochs \in Epochs
  BY DEF Typed, MySQLOK, MySQLTypeOK, Assigned, Epochs, NoEpochs
<1>2. handler[g][c] \in Handlers
  BY HandlerTypes
<1>3. handler' = [handler EXCEPT ![g][c] = h]
  BY DEF ListAssignments
<1> HIDE DEF epochs
<1>4. h \in Handlers /\ h.batch = handler[g][c].batch /\ h.pc = "recheck"
  BY <1>1, <1>2 DEF Handlers
<1>6. MySQLOK' /\ UNCHANGED <<journal, process, accepted, faults, up, down>>
  BY MySQLUnchanged DEF Typed, ListAssignments, books
<1> HIDE DEF h
<1> QED BY <1>3, <1>4, <1>6, HandlerTypes, TypedHandlerMoves

\* PushDesiredState keeps the types.
LEMMA TypedPushDesiredState ==
    ASSUME Typed, NEW g \in Gateway, NEW c \in ConnEpoch, PushDesiredState(g, c)
    PROVE  Typed'
<1> DEFINE h == handler[g][c]
<1>1. MySQLOK' /\ UNCHANGED <<journal, process, accepted, faults>> /\ faults' \in Nat
  BY MySQLUnchanged, ProcessTypes DEF Typed, PushDesiredState, books
<1>2. CASE Close(g, c)
  BY <1>1, <1>2, TypedCloses DEF PushDesiredState
<1>3. CASE /\ Deliver(g, c, Snapshot(h.rev, h.epochs))
           /\ handler' = [handler EXCEPT ![g][c] = HandlerAt("idle")]
           /\ UNCHANGED up
  <2>1. Snapshot(h.rev, h.epochs) \in DownFrame
    BY HandlerTypes DEF Snapshot, DownFrame, Handlers
  <2>2. /\ HandlerAt("idle") \in Handlers /\ HandlerAt("idle").batch = {}
        /\ HandlerAt("idle").pc = "idle"
    BY HandlerTypes DEF HandlerAt
  <2> QED BY <1>1, <1>3, <2>1, <2>2, HandlerTypes, TypedHandlerMoves
<1> QED BY <1>2, <1>3 DEF PushDesiredState

\* PersistReport keeps the types.
LEMMA TypedPersistReport ==
    ASSUME Typed, NEW g \in Gateway, NEW c \in ConnEpoch, PersistReport(g, c)
    PROVE  Typed'
<1>1. MySQLOK' /\ UNCHANGED <<journal, process, accepted, faults>> /\ faults' \in Nat
  BY MySQLUnchanged, ProcessTypes DEF Typed, PersistReport, books
<1>2. CASE Close(g, c)
  BY <1>1, <1>2, TypedCloses DEF PersistReport
<1>3. CASE up' = [up EXCEPT ![g][c] = Tail(@)] /\ UNCHANGED <<handler, down>>
  <2>1. handler \in [Gateway -> [ConnEpoch -> Handlers]]
    BY DEF Typed, NetworkOK, NetworkTypeOK
  <2>2. handler' = [handler EXCEPT ![g][c] = handler[g][c]]
    BY <1>3, <2>1
  <2>3. handler[g][c].pc # "ingest" /\ Tail(up[g][c]) \in Seq(Frames(g))
    BY HandlerTypes DEF PersistReport, Taken
  <2> QED BY <1>1, <1>3, <2>2, <2>3, HandlerTypes, TypedHandlerMoves
<1> QED BY <1>2, <1>3 DEF PersistReport

\* IngestFence keeps the types.
LEMMA TypedIngestFence ==
    ASSUME Typed, NEW g \in Gateway, NEW c \in ConnEpoch, IngestFence(g, c)
    PROVE  Typed'
<1> DEFINE batch == Head(up[g][c]).batch
           h == [HandlerAt("ingest") EXCEPT !.batch = batch]
<1>1. MySQLOK' /\ UNCHANGED <<journal, process, accepted, faults>> /\ faults' \in Nat
  BY MySQLUnchanged, ProcessTypes DEF Typed, IngestFence, books
<1>2. CASE Close(g, c)
  BY <1>1, <1>2, TypedCloses DEF IngestFence
<1>3. CASE /\ handler' = [handler EXCEPT ![g][c] = h]
           /\ up' = [up EXCEPT ![g][c] = Tail(@)] /\ UNCHANGED down
  <2>1. /\ batch \in Batches(g) /\ batch # {} /\ batch \in SUBSET Row
        /\ Tail(up[g][c]) \in Seq(Frames(g))
    BY HandlerTypes DEF IngestFence, Taken, Frames, Batches
  <2>2. h \in Handlers /\ h.batch = batch
    BY <2>1 DEF HandlerAt, Handlers, NoEpochs, Epochs
  <2> HIDE DEF h
  <2> QED BY <1>1, <1>3, <2>1, <2>2, HandlerTypes, TypedHandlerMoves
<1> QED BY <1>2, <1>3 DEF IngestFence

LogRow == [pos: Nat, id: EventId, gw: Gateway, epoch: Nat, seq: Nat]

\* The rows a batch adds to the event log, each at a cursor of its own.
LEMMA LogRowsTyped ==
    ASSUME IsFiniteSet(eventLog), NEW g \in Gateway, NEW rows \in SUBSET Row,
           IsFiniteSet(rows)
    PROVE  LogRows(g, rows) \subseteq LogRow /\ IsFiniteSet(LogRows(g, rows))
<1> DEFINE older(r) == {q \in rows : q.seq < r.seq}
           pos(r) == Cardinality(eventLog) + 1 + Cardinality(older(r))
           log(r) == [pos |-> pos(r), id |-> r.id, gw |-> g, epoch |-> r.epoch, seq |-> r.seq]
<1>1. \A r \in rows : pos(r) \in Nat
  <2> TAKE r \in rows
  <2>1. IsFiniteSet(older(r))
    BY FS_Subset
  <2>2. Cardinality(older(r)) \in Nat /\ Cardinality(eventLog) \in Nat
    BY <2>1, FS_CardinalityType
  <2> HIDE DEF older
  <2> QED BY <2>2
<1>2. LogRows(g, rows) = {log(r) : r \in rows}
  BY DEF LogRows
<1> HIDE DEF pos
<1>3. \A r \in rows : log(r) \in LogRow
  BY <1>1 DEF Row, LogRow
<1> HIDE DEF log
<1>4. IsFiniteSet({log(r) : r \in rows})
  <2> DEFINE f == [r \in rows |-> log(r)]
             T == {log(r) : r \in rows}
  <2>1. f \in Surjection(rows, T)
    BY DEF Surjection
  <2> HIDE DEF T, f
  <2>2. IsFiniteSet(T)
    BY <2>1, FS_Surjection
  <2> QED BY <2>2 DEF T
<1> QED BY <1>2, <1>3, <1>4

\* The rows IngestBatch publishes are new rows of the batch.
LEMMA PublicRowsOfBatch ==
    ASSUME NEW batch
    PROVE  /\ LedgerInserts(batch) \subseteq batch
           /\ PublicRows(LedgerInserts(batch)) \subseteq LedgerInserts(batch)
BY DEF LedgerInserts, PublicRows

\* IngestCommit keeps the types.
LEMMA TypedIngestCommit ==
    ASSUME Typed, NEW g \in Gateway, NEW c \in ConnEpoch, IngestCommit(g, c)
    PROVE  Typed'
<1> DEFINE batch == handler[g][c].batch
           new == LedgerInserts(batch)
           public == PublicRows(new)
<1>1. /\ UNCHANGED <<assignment, revision, connEpoch, sentLog, journal, process>>
      /\ UNCHANGED <<accepted, faults>> /\ faults' \in Nat
  BY ProcessTypes DEF IngestCommit, books
<1>2. CASE Close(g, c) /\ UNCHANGED <<ledger, eventLog, claim>>
  BY <1>1, <1>2, TypedCloses DEF mysql
<1>3. CASE /\ ledger' = ledger \union {r.id : r \in new}
           /\ eventLog' = eventLog \union LogRows(g, public)
           /\ claim' = Claimed(public)
           /\ Deliver(g, c, EventAck(LastSeq(batch)))
           /\ handler' = [handler EXCEPT ![g][c] = HandlerAt("idle")]
           /\ UNCHANGED up
  <2>1. /\ batch \in SUBSET Row /\ IsFiniteSet(batch) /\ batch # {}
        /\ \A r \in batch : r.seq < journal[g].next
    BY DEF Typed, NetworkOK, HandlerShape, Batches, IngestCommit
  <2>2. journal[g].next \in Nat
    BY DEF Typed, GatewayOK, GatewayTypeOK, Journals
  <2>3. \A r \in batch : r.seq \in Nat /\ r.id \in EventId
    BY <2>1 DEF Row
  <2>4. LastSeq(batch) \in Nat
    BY <2>1, <2>2, <2>3, LastSeqIsNewest
  <2>5. new \subseteq batch /\ public \subseteq new
    BY PublicRowsOfBatch
  <2> HIDE DEF batch, new, public
  <2>6. EventAck(LastSeq(batch)) \in DownFrame
    BY <2>4 DEF EventAck, DownFrame, NoEpochs, Epochs
  <2>7. ledger' \subseteq EventId
    BY <1>3, <2>3, <2>5 DEF Typed, MySQLOK, MySQLTypeOK
  <2>8. eventLog' \subseteq LogRow /\ IsFiniteSet(eventLog')
    <3>1. eventLog \subseteq LogRow /\ IsFiniteSet(eventLog)
      BY DEF Typed, MySQLOK, MySQLTypeOK, LogRow
    <3>2. public \in SUBSET Row /\ IsFiniteSet(public)
      BY <2>1, <2>5, FS_Subset
    <3>3. LogRows(g, public) \subseteq LogRow /\ IsFiniteSet(LogRows(g, public))
      BY <3>1, <3>2, LogRowsTyped
    <3> QED BY <1>3, <3>1, <3>3, FS_Union
  <2>9. claim' \in [Message -> [owner: {"none", "api", "gateway"},
                                id: EventId \union {NoEvent}]]
    <3>1. \A m \in Message : (\E r \in public : EchoOf[r.id] = m) =>
              (CHOOSE r \in public : EchoOf[r.id] = m).id \in EventId
      BY <2>3, <2>5
    <3> QED BY <1>3, <3>1 DEF Typed, MySQLOK, MySQLTypeOK, Claimed
  <2>10. MySQLOK'
    BY <1>1, <2>7, <2>8, <2>9 DEF Typed, MySQLOK, MySQLTypeOK, LogRow
  <2>11. /\ HandlerAt("idle") \in Handlers /\ HandlerAt("idle").batch = {}
         /\ HandlerAt("idle").pc = "idle"
    BY HandlerTypes DEF HandlerAt
  <2> QED BY <1>1, <1>3, <2>6, <2>10, <2>11, HandlerTypes, TypedHandlerMoves
<1> QED BY <1>2, <1>3 DEF IngestCommit

-----------------------------------------------------------------------------
\* Every step keeps the types.
LEMMA TypedStep == Typed /\ [Next]_vars => Typed'
<1> SUFFICES ASSUME Typed, [Next]_vars PROVE Typed'
    OBVIOUS
<1>1. CASE UNCHANGED vars
  BY <1>1, TypedDatabase, MySQLUnchanged DEF Typed, vars
<1>2. ASSUME NEW g \in Gateway, SupervisorStep(g) PROVE Typed'
  BY <1>2, TypedConnect, TypedSendHeartbeat, TypedArmHeartbeat, TypedHandleEventAck,
     TypedBeginApply, TypedFinishApply, TypedStreamClosed DEF SupervisorStep
<1>3. ASSUME NEW g \in Gateway, NEW c \in ConnEpoch, HandlerStep(g, c) PROVE Typed'
  BY <1>3, TypedHandleHello, TypedHandleHeartbeat, TypedListAssignments,
     TypedPushDesiredState, TypedPersistReport, TypedIngestFence, TypedIngestCommit,
     TypedHandlerReturns DEF HandlerStep
<1>4. ASSUME NEW g \in Gateway, SinkStep(g) PROVE Typed'
  BY <1>4, TypedAppendEvent DEF SinkStep
<1> QED BY <1>1, <1>2, <1>3, <1>4, TypedReassign, TypedUpdateConfig,
           TypedDeleteSession, TypedAppendOwnSentOnce, TypedLabel, TypedExpire,
           TypedProveCurrentConnection, TypedFailApply, TypedStreamBreak, TypedCrash,
           TypedHandlerFails DEF Next

\* Type correctness for every set of gateways, sessions and events: in particular
\* no row is ever labelled with epoch 0, which no replay could deliver.
THEOREM TypeCorrect == Spec => []TypeOK
<1>1. Typed => TypeOK
  BY DEF Typed, TypeOK, MySQLOK, GatewayOK, NetworkOK, BooksOK
<1> QED BY <1>1, TypedInit, TypedStep, PTL DEF Spec

-----------------------------------------------------------------------------
(***************************************************************************)
(* An event is published once: a replayed batch never meets the unique key *)
(* of event_log, and a sent message has one public event, whichever of the *)
(* API's send and the gateways' echoes comes first.                        *)
(***************************************************************************)

\* The ledger knows every event in the log, unless its session was deleted.
LedgerCoversLog == \A l \in eventLog : l.id \in ledger \/ Deleted(SessionOf[l.id])

\* The API's own event holds its message's claim, unless ...
SendsClaimed == \A m \in sentLog : claim[m].owner = "api" \/ Deleted(SentIn[m])

\* A published echo holds its message's claim, unless ...
EchoesClaimed ==
    \A l \in eventLog :
        \/ EchoOf[l.id] = NoMessage
        \/ claim[EchoOf[l.id]] = [owner |-> "gateway", id |-> l.id]
        \/ Deleted(SessionOf[l.id])

Claims == LedgerCoversLog /\ SendsClaimed /\ EchoesClaimed /\ OnePublicEvent

OnceInv == Typed /\ Claims

\* Nothing is published at first.
LEMMA OnceInit == Init => OnceInv
<1>1. Init => Claims
  BY DEF Init, Claims, LedgerCoversLog, SendsClaimed, EchoesClaimed, OnePublicEvent
<1> QED BY <1>1, TypedInit DEF OnceInv

\* Steps that touch neither the ledger, the log nor the claims, and delete no
\* session.
LEMMA ClaimsKept ==
    ASSUME Claims, UNCHANGED <<ledger, eventLog, sentLog, claim>>,
           \A s \in Session : Deleted(s)' = Deleted(s),
           eventLog \subseteq LogRow, sentLog \subseteq Message
    PROVE  Claims'
<1>1. \A l \in eventLog : SessionOf[l.id] \in Session
  BY ConstantsAssumption DEF LogRow
<1>2. \A m \in sentLog : SentIn[m] \in Session
  BY ConstantsAssumption
<1>3. LedgerCoversLog'
  BY <1>1 DEF Claims, LedgerCoversLog
<1>4. SendsClaimed'
  BY <1>2 DEF Claims, SendsClaimed
<1>5. EchoesClaimed'
  BY <1>1 DEF Claims, EchoesClaimed
<1>6. OnePublicEvent'
  BY DEF Claims, OnePublicEvent
<1> QED BY <1>3, <1>4, <1>5, <1>6 DEF Claims

\* The members of the log and of its keys.
LEMMA LogTypes ==
    ASSUME Typed
    PROVE  /\ eventLog \subseteq LogRow /\ sentLog \subseteq Message
           /\ ledger \subseteq EventId
           /\ assignment \in [Session -> [gw: Gateway \union {NoGateway}, epoch: Nat]]
           /\ claim \in [Message -> [owner: {"none", "api", "gateway"},
                                     id: EventId \union {NoEvent}]]
BY DEF Typed, MySQLOK, MySQLTypeOK, LogRow

\* A reassignment publishes nothing.
LEMMA OnceReassign ==
    ASSUME OnceInv, NEW s \in Session, NEW g \in Gateway, Reassign(s, g) PROVE Claims'
<1>1. assignment \in [Session -> [gw: Gateway \union {NoGateway}, epoch: Nat]]
  BY LogTypes DEF OnceInv
<1>2. g # NoGateway /\ assignment[s].gw # NoGateway
  BY ConstantsAssumption DEF Reassign
<1>3. \A t \in Session : Deleted(t)' = Deleted(t)
  BY <1>1, <1>2 DEF Reassign, Deleted
<1> QED BY <1>3, LogTypes, ClaimsKept DEF OnceInv, Reassign

\* A deletion excuses what it removes.
LEMMA OnceDeleteSession ==
    ASSUME OnceInv, NEW s \in Session, DeleteSession(s) PROVE Claims'
<1>1. /\ eventLog \subseteq LogRow /\ sentLog \subseteq Message
      /\ assignment \in [Session -> [gw: Gateway \union {NoGateway}, epoch: Nat]]
  BY LogTypes DEF OnceInv
<1>2. \A t \in Session : Deleted(t)' <=> (t = s \/ Deleted(t))
  BY <1>1 DEF DeleteSession, Deleted
<1>3. \A l \in eventLog : l.id \in EventId /\ SessionOf[l.id] \in Session
  BY <1>1, ConstantsAssumption DEF LogRow
<1>4. \A m \in sentLog : m \in Message /\ SentIn[m] \in Session
  BY <1>1, ConstantsAssumption
<1>5. LedgerCoversLog'
  BY <1>2, <1>3 DEF OnceInv, Claims, LedgerCoversLog, DeleteSession
<1>6. SendsClaimed'
  BY <1>2, <1>4 DEF OnceInv, Claims, SendsClaimed, DeleteSession
<1>7. EchoesClaimed'
  <2> SUFFICES ASSUME NEW l \in eventLog, EchoOf[l.id] # NoMessage,
                      SessionOf[l.id] # s, ~Deleted(SessionOf[l.id])
               PROVE  claim'[EchoOf[l.id]] = [owner |-> "gateway", id |-> l.id]
      BY <1>2, <1>3 DEF EchoesClaimed, DeleteSession
  <2>1. EchoOf[l.id] \in Message /\ SentIn[EchoOf[l.id]] = SessionOf[l.id]
      BY <1>3, ConstantsAssumption
  <2>2. claim[EchoOf[l.id]] = [owner |-> "gateway", id |-> l.id]
      BY DEF OnceInv, Claims, EchoesClaimed
  <2> QED BY <2>1, <2>2 DEF DeleteSession
<1>8. OnePublicEvent'
  BY DEF OnceInv, Claims, OnePublicEvent, DeleteSession
<1> QED BY <1>5, <1>6, <1>7, <1>8 DEF Claims

\* The API publishes its own send only when it takes the claim.
LEMMA OnceAppendOwnSentOnce ==
    ASSUME OnceInv, NEW m \in Message, AppendOwnSentOnce(m) PROVE Claims'
<1>1. /\ eventLog \subseteq LogRow /\ sentLog \subseteq Message
      /\ claim \in [Message -> [owner: {"none", "api", "gateway"},
                                id: EventId \union {NoEvent}]]
  BY LogTypes DEF OnceInv
<1>2. \A l \in eventLog : l.id \in EventId
  BY <1>1 DEF LogRow
<1>3. \A l \in eventLog : EchoOf[l.id] # m
  <2> SUFFICES ASSUME NEW l \in eventLog, EchoOf[l.id] = m PROVE FALSE
      OBVIOUS
  <2>1. EchoOf[l.id] # NoMessage /\ SentIn[m] = SessionOf[l.id]
      BY <1>2, ConstantsAssumption
  <2>2. claim[m] = [owner |-> "gateway", id |-> l.id] \/ Deleted(SentIn[m])
      BY <2>1 DEF OnceInv, Claims, EchoesClaimed
  <2> QED BY <2>2 DEF AppendOwnSentOnce, Unclaimed
<1>4. LedgerCoversLog'
  BY DEF OnceInv, Claims, LedgerCoversLog, Deleted, AppendOwnSentOnce
<1>5. SendsClaimed'
  BY <1>1 DEF OnceInv, Claims, SendsClaimed, Deleted, AppendOwnSentOnce
<1>6. EchoesClaimed'
  <2> SUFFICES ASSUME NEW l \in eventLog, EchoOf[l.id] # NoMessage
               PROVE  \/ claim'[EchoOf[l.id]] = [owner |-> "gateway", id |-> l.id]
                      \/ Deleted(SessionOf[l.id])
      BY DEF EchoesClaimed, Deleted, AppendOwnSentOnce
  <2>1. EchoOf[l.id] \in Message /\ EchoOf[l.id] # m
      BY <1>2, <1>3, ConstantsAssumption
  <2>2. claim'[EchoOf[l.id]] = claim[EchoOf[l.id]]
      BY <1>1, <2>1 DEF AppendOwnSentOnce
  <2> QED BY <2>2 DEF OnceInv, Claims, EchoesClaimed
<1>7. OnePublicEvent'
  BY <1>3 DEF OnceInv, Claims, OnePublicEvent, AppendOwnSentOnce
<1> QED BY <1>4, <1>5, <1>6, <1>7 DEF Claims

\* A row the ledger does not know, of a session that exists, is not in the log.
LEMMA NewRowsAreNew ==
    ASSUME OnceInv, NEW batch, NEW r \in LedgerInserts(batch), NEW l \in eventLog
    PROVE  l.id # r.id
BY DEF OnceInv, Claims, LedgerCoversLog, LedgerInserts

\* The public rows of a batch: at most one for each message, and none for a
\* message that has its public event.
LEMMA OneRowForEachMessage ==
    ASSUME OnceInv, NEW batch \in SUBSET Row, Distinct(batch),
           NEW r \in PublicRows(LedgerInserts(batch)), EchoOf[r.id] # NoMessage
    PROVE  /\ EchoOf[r.id] \in Message /\ EchoOf[r.id] \notin sentLog
           /\ \A l \in eventLog : EchoOf[l.id] # EchoOf[r.id]
           /\ \A q \in PublicRows(LedgerInserts(batch)) :
                 EchoOf[q.id] = EchoOf[r.id] => q = r
<1> DEFINE new == LedgerInserts(batch)
           m == EchoOf[r.id]
<1>1. /\ r \in new /\ r \in batch /\ r \in Row
      /\ r.id \in EventId /\ ~Deleted(SessionOf[r.id])
  BY DEF PublicRows, LedgerInserts, Row
<1>2. m \in Message /\ SentIn[m] = SessionOf[r.id]
  BY <1>1, ConstantsAssumption
<1>3. claim[m] = [owner |-> "gateway", id |-> r.id] \/ claim[m] = Unclaimed
  BY DEF PublicRows, ClaimsMessage
<1>4. m \notin sentLog
  BY <1>1, <1>2, <1>3 DEF OnceInv, Claims, SendsClaimed, Unclaimed
<1>5. \A l \in eventLog : EchoOf[l.id] # m
  <2> SUFFICES ASSUME NEW l \in eventLog, EchoOf[l.id] = m PROVE FALSE
      OBVIOUS
  <2>1. l.id \in EventId
      BY LogTypes DEF OnceInv, LogRow
  <2>2. SessionOf[l.id] = SessionOf[r.id]
      BY <1>2, <2>1, ConstantsAssumption
  <2>3. claim[m] = [owner |-> "gateway", id |-> l.id]
      BY <1>1, <2>2 DEF OnceInv, Claims, EchoesClaimed
  <2>4. l.id = r.id
      BY <1>3, <2>3 DEF Unclaimed
  <2> QED BY <1>1, <2>4, NewRowsAreNew
<1>6. ASSUME NEW q \in PublicRows(new), EchoOf[q.id] = m PROVE q = r
  <2>1. q \in new /\ q \in batch /\ q \in Row /\ r.seq \in Nat /\ q.seq \in Nat
      BY <1>1 DEF PublicRows, LedgerInserts, Row
  <2>2. \/ claim[m] = [owner |-> "gateway", id |-> q.id]
        \/ claim[m] = Unclaimed /\ \A p \in new : EchoOf[p.id] = m => q.seq <= p.seq
      BY <1>6 DEF PublicRows, ClaimsMessage
  <2>3. \/ claim[m] = [owner |-> "gateway", id |-> r.id]
        \/ claim[m] = Unclaimed /\ \A p \in new : EchoOf[p.id] = m => r.seq <= p.seq
      BY DEF PublicRows, ClaimsMessage
  <2>4. CASE claim[m] = Unclaimed
    <3>1. q.seq <= r.seq /\ r.seq <= q.seq
      BY <1>1, <1>6, <2>1, <2>2, <2>3, <2>4 DEF Unclaimed
    <3> QED BY <1>1, <2>1, <3>1 DEF Distinct
  <2>5. CASE claim[m] # Unclaimed
    <3>1. q.id = r.id
      BY <2>2, <2>3, <2>5
    <3> QED BY <1>1, <2>1, <3>1 DEF Distinct
  <2> QED BY <2>4, <2>5
<1> QED BY <1>2, <1>4, <1>5, <1>6

\* The commit publishes what the ledger and the claims let through.
LEMMA OnceIngestCommit ==
    ASSUME OnceInv, NEW g \in Gateway, NEW c \in ConnEpoch, IngestCommit(g, c)
    PROVE  Claims'
<1> DEFINE batch == handler[g][c].batch
           new == LedgerInserts(batch)
           public == PublicRows(new)
<1>1. /\ eventLog \subseteq LogRow /\ sentLog \subseteq Message
      /\ claim \in [Message -> [owner: {"none", "api", "gateway"},
                                id: EventId \union {NoEvent}]]
  BY LogTypes DEF OnceInv
<1>2. CASE UNCHANGED <<ledger, eventLog, claim>>
  BY <1>1, <1>2, ClaimsKept DEF OnceInv, IngestCommit, Deleted
<1>3. CASE /\ ledger' = ledger \union {r.id : r \in new}
           /\ eventLog' = eventLog \union LogRows(g, public)
           /\ claim' = Claimed(public)
  <2>1. batch \in SUBSET Row /\ Distinct(batch)
    BY DEF OnceInv, Typed, NetworkOK, HandlerShape, Batches
  <2>2. new \subseteq batch /\ public \subseteq new
    BY PublicRowsOfBatch
  <2>3. \A r \in new : r.id \in EventId /\ ~Deleted(SessionOf[r.id])
    BY <2>1 DEF LedgerInserts, Row
  <2>4. \A r \in new, l \in eventLog : l.id # r.id
    BY NewRowsAreNew
  <2>5. \A r \in public : EchoOf[r.id] # NoMessage =>
            /\ EchoOf[r.id] \in Message /\ EchoOf[r.id] \notin sentLog
            /\ \A l \in eventLog : EchoOf[l.id] # EchoOf[r.id]
            /\ \A q \in public : EchoOf[q.id] = EchoOf[r.id] => q = r
    BY <2>1, OneRowForEachMessage
  <2> HIDE DEF batch, new, public
  <2> DEFINE log(r) == [pos |-> Cardinality(eventLog) + 1
                                  + Cardinality({q \in public : q.seq < r.seq}),
                        id |-> r.id, gw |-> g, epoch |-> r.epoch, seq |-> r.seq]
  <2>6. \A l \in eventLog' : l \in eventLog \/ \E r \in public : l.id = r.id
    <3>1. \A l \in LogRows(g, public) : \E r \in public : l.id = r.id
      <4> TAKE l \in LogRows(g, public)
      <4>1. PICK r \in public : l = log(r)
        BY DEF LogRows
      <4>2. l.id = r.id
        BY <4>1
      <4> QED BY <4>2
    <3> QED BY <1>3, <3>1
  <2>7. \A l, k \in eventLog' :
            l.id = k.id => l = k \/ (l \in eventLog /\ k \in eventLog)
    <3> SUFFICES ASSUME NEW l \in eventLog', NEW k \in eventLog', l.id = k.id,
                        l \notin eventLog \/ k \notin eventLog
                 PROVE  l = k
        OBVIOUS
    <3>1. l \notin eventLog /\ k \notin eventLog
        BY <2>2, <2>4, <2>6
    <3>2. l \in LogRows(g, public) /\ k \in LogRows(g, public)
        BY <1>3, <3>1
    <3>3. \A r, q \in public : r.id = q.id => r = q
        BY <2>1, <2>2 DEF Distinct
    <3>4. PICK r \in public, q \in public : l = log(r) /\ k = log(q)
        BY <3>2 DEF LogRows
    <3>5. l.id = r.id /\ k.id = q.id
        BY <3>4
    <3>6. r = q
        BY <3>3, <3>5
    <3> QED BY <3>4, <3>6
  <2>8. /\ \A r \in public : EchoOf[r.id] # NoMessage =>
               claim'[EchoOf[r.id]] = [owner |-> "gateway", id |-> r.id]
        /\ \A m \in Message :
               (\A r \in public : EchoOf[r.id] # m) => claim'[m] = claim[m]
    <3>1. ASSUME NEW r \in public, EchoOf[r.id] # NoMessage
          PROVE  claim'[EchoOf[r.id]] = [owner |-> "gateway", id |-> r.id]
      <4>1. EchoOf[r.id] \in Message
        BY <2>5, <3>1
      <4>2. (CHOOSE q \in public : EchoOf[q.id] = EchoOf[r.id]) = r
        BY <2>5, <3>1
      <4> QED BY <1>3, <4>1, <4>2 DEF Claimed
    <3>2. \A m \in Message :
              (\A r \in public : EchoOf[r.id] # m) => claim'[m] = claim[m]
      BY <1>3 DEF Claimed
    <3> QED BY <3>1, <3>2
  <2>9. /\ \A s \in Session : Deleted(s)' = Deleted(s)
        /\ sentLog' = sentLog
    BY DEF IngestCommit, Deleted
  <2>10. \A l \in eventLog' : l.id \in EventId /\ SessionOf[l.id] \in Session
    BY <1>1, <2>2, <2>3, <2>6, ConstantsAssumption DEF LogRow
  <2>11. NoMessage \notin Message /\ \A m \in Message : SentIn[m] \in Session
    BY ConstantsAssumption
  <2>12. LedgerCoversLog'
    BY <1>3, <2>2, <2>6, <2>9, <2>10 DEF OnceInv, Claims, LedgerCoversLog
  <2>13. SendsClaimed'
    <3> SUFFICES ASSUME NEW m \in sentLog PROVE claim'[m].owner = "api" \/ Deleted(SentIn[m])
        BY <1>1, <2>9, <2>11 DEF SendsClaimed
    <3>1. \A r \in public : EchoOf[r.id] # m
        BY <1>1, <2>5, <2>11
    <3>2. claim'[m] = claim[m]
        BY <1>1, <2>8, <3>1
    <3> QED BY <3>2 DEF OnceInv, Claims, SendsClaimed
  <2>14. EchoesClaimed'
    <3> SUFFICES ASSUME NEW l \in eventLog', EchoOf[l.id] # NoMessage,
                        ~Deleted(SessionOf[l.id])
                 PROVE  claim'[EchoOf[l.id]] = [owner |-> "gateway", id |-> l.id]
        BY <2>9, <2>10 DEF EchoesClaimed
    <3>1. EchoOf[l.id] \in Message
        BY <2>10, ConstantsAssumption
    <3>2. CASE l \in eventLog
      <4>1. claim[EchoOf[l.id]] = [owner |-> "gateway", id |-> l.id]
        BY <3>2 DEF OnceInv, Claims, EchoesClaimed
      <4>2. \A r \in public : EchoOf[r.id] # EchoOf[l.id]
        BY <2>5, <3>2
      <4> QED BY <2>8, <3>1, <4>1, <4>2
    <3>3. CASE \E r \in public : l.id = r.id
      <4>1. PICK r \in public : l.id = r.id
        BY <3>3
      <4> QED BY <2>8, <4>1
    <3> QED BY <2>6, <3>2, <3>3
  <2>15. OnePublicEvent'
    <3>1. \A l \in eventLog' : EchoOf[l.id] \notin sentLog'
      BY <1>1, <2>5, <2>6, <2>9, <2>11 DEF OnceInv, Claims, OnePublicEvent
    <3>2. ASSUME NEW l \in eventLog', NEW k \in eventLog', l # k
          PROVE  /\ l.id # k.id
                 /\ EchoOf[l.id] = EchoOf[k.id] => EchoOf[l.id] = NoMessage
      <4>1. CASE l \in eventLog /\ k \in eventLog
        BY <3>2, <4>1 DEF OnceInv, Claims, OnePublicEvent
      <4>2. CASE ~(l \in eventLog /\ k \in eventLog)
        <5>1. l.id # k.id
          BY <2>7, <3>2, <4>2
        <5>2. EchoOf[l.id] = EchoOf[k.id] => EchoOf[l.id] = NoMessage
          BY <2>5, <2>6, <4>2, <5>1
        <5> QED BY <5>1, <5>2
      <4> QED BY <4>1, <4>2
    <3> QED BY <3>1, <3>2 DEF OnePublicEvent
  <2> QED BY <2>12, <2>13, <2>14, <2>15 DEF Claims
<1> QED BY <1>2, <1>3 DEF IngestCommit

\* The other steps leave the log and what guards it alone.
LEMMA OnceOthers ==
    ASSUME OnceInv, UNCHANGED <<assignment, ledger, eventLog, sentLog, claim>>
    PROVE  Claims'
BY LogTypes, ClaimsKept DEF OnceInv, Deleted

\* Every step keeps the claims.
LEMMA OnceStep == OnceInv /\ [Next]_vars => OnceInv'
<1> SUFFICES ASSUME OnceInv, [Next]_vars PROVE OnceInv'
    OBVIOUS
<1> DEFINE kept == UNCHANGED <<assignment, ledger, eventLog, sentLog, claim>>
<1>1. ASSUME NEW g \in Gateway, SupervisorStep(g) PROVE kept
  BY <1>1 DEF SupervisorStep, Connect, AcceptConnection, SendHeartbeat, ArmHeartbeat,
              HandleEventAck, BeginApply, FinishApply, StreamClosed, mysql
<1>2. ASSUME NEW g \in Gateway, NEW c \in ConnEpoch, HandlerStep(g, c)
      PROVE  kept \/ IngestCommit(g, c)
  BY <1>2 DEF HandlerStep, HandleHello, HandleHeartbeat, ListAssignments,
              PushDesiredState, PersistReport, IngestFence, HandlerReturns, mysql
<1>3. ASSUME NEW g \in Gateway,
             \/ SinkStep(g) \/ Expire(g) \/ ProveCurrentConnection(g)
             \/ FailApply(g) \/ StreamBreak(g) \/ Crash(g)
      PROVE  kept
  BY <1>3 DEF SinkStep, AppendEvent, Expire, ProveCurrentConnection, AcceptConnection,
              FailApply, StreamBreak, Crash, mysql
<1>4. ASSUME NEW g \in Gateway, NEW id \in EventId, Label(g, id) PROVE kept
  BY <1>4 DEF Label, mysql
<1>5. ASSUME NEW g \in Gateway, NEW c \in ConnEpoch, HandlerFails(g, c) PROVE kept
  BY <1>5 DEF HandlerFails, mysql
<1>6. ASSUME NEW s \in Session, UpdateConfig(s) PROVE kept
  BY <1>6 DEF UpdateConfig
<1>7. CASE UNCHANGED vars
  BY <1>7, OnceOthers, TypedStep DEF OnceInv, vars, mysql
<1>8. CASE kept
  BY <1>8, OnceOthers, TypedStep DEF OnceInv
<1> HIDE DEF kept
<1> QED BY <1>1, <1>2, <1>3, <1>4, <1>5, <1>6, <1>7, <1>8, TypedStep, OnceReassign,
           OnceDeleteSession, OnceAppendOwnSentOnce, OnceIngestCommit
        DEF Next, OnceInv

-----------------------------------------------------------------------------
\* However often a batch is replayed, and even when the session was deleted
\* between, the insert into event_log never meets an ID that is there
\* (IngestBatch), so a batch is never rolled back for good.
THEOREM ReplayNeverConflicts == Spec => []IngestNeverConflicts
<1>1. OnceInv => IngestNeverConflicts
  BY NewRowsAreNew, PublicRowsOfBatch DEF IngestNeverConflicts, Conflicts
<1> QED BY <1>1, OnceInit, OnceStep, PTL DEF Spec

\* The claim of a message (claimOutgoingEvent, AppendOwnSentOnce) gives it one
\* public event in all, for any number of gateways, echoes and retries.
THEOREM MessagePublishedOnce == Spec => []OnePublicEvent
<1>1. OnceInv => OnePublicEvent
  BY DEF OnceInv, Claims
<1> QED BY <1>1, OnceInit, OnceStep, PTL DEF Spec

-----------------------------------------------------------------------------
(***************************************************************************)
(* One batch in flight.  On the stream a gateway is on there is at most    *)
(* one of: a batch on its way up, a batch being ingested, and an           *)
(* acknowledgement on its way down; each is of the last sequence of the    *)
(* batch the supervisor expects to be acknowledged, whose row the journal  *)
(* still has.                                                              *)
(***************************************************************************)
None(u, type) == \A i \in 1..Len(u) : u[i].type # type
Sole(u, type) == \A i, k \in 1..Len(u) : (u[i].type = type /\ u[k].type = type) => i = k

\* Frames that carry the batch up to n, or none, and that acknowledge n, or
\* nothing.
Carrying(n) == {f \in UpFrame : f.type = "events" => LastSeq(f.batch) = n}
Acking(n) == {f \in DownFrame : f.type = "ack" => f.seq = n}

\* Frames u on their way to handler h and frames d on their way back hold the
\* batch up to n, once at most; n is 0 when there is none.
Flight(n, u, h, d) ==
    /\ u \in Seq(Carrying(n)) /\ d \in Seq(Acking(n))
    /\ Sole(u, "events") /\ Sole(d, "ack")
    /\ h.pc = "ingest" => LastSeq(h.batch) = n
    /\ None(u, "events") \/ (h.pc # "ingest" /\ None(d, "ack"))
    /\ h.pc # "ingest" \/ None(d, "ack")
    /\ n = 0 => None(u, "events") /\ h.pc # "ingest" /\ None(d, "ack")

FlightAt(g) ==
    IF stream[g].epoch = 0
    THEN stream[g].expected = 0 /\ down[g] = <<>>
    ELSE Flight(stream[g].expected, up[g][stream[g].epoch],
                handler[g][stream[g].epoch], down[g])

\* Nothing was sent over a connection that is still to be accepted.
FreshAt(g) ==
    /\ stream[g].epoch <= connEpoch[g]
    /\ \A c \in ConnEpoch : c > connEpoch[g] => up[g][c] = <<>>

\* The journal has the row that is expected to be acknowledged.
KnownAt(g) ==
    /\ journal[g].next # 0
    /\ \A r \in journal[g].entries : r.seq # 0
    /\ stream[g].expected # 0 =>
          \E r \in journal[g].entries : r.seq = stream[g].expected

AckInv == Typed /\ \A g \in Gateway : FlightAt(g) /\ FreshAt(g) /\ KnownAt(g)

\* Frames of a type in a sequence that grows and shrinks.
LEMMA SoleSeq ==
    ASSUME NEW F, NEW u \in Seq(F), NEW t
    PROVE  /\ None(<<>>, t) /\ Sole(<<>>, t)
           /\ None(u, t) => Sole(u, t)
           /\ u # <<>> => /\ None(u, t) => None(Tail(u), t)
                          /\ Sole(u, t) => Sole(Tail(u), t)
                          /\ (Sole(u, t) /\ Head(u).type = t) => None(Tail(u), t)
           /\ \A f \in F : f.type # t => /\ None(u, t) => None(Append(u, f), t)
                                         /\ Sole(u, t) => Sole(Append(u, f), t)
           /\ \A f \in F : None(u, t) => Sole(Append(u, f), t)
<1>1. None(<<>>, t) /\ Sole(<<>>, t) /\ (None(u, t) => Sole(u, t))
  BY DEF None, Sole
<1>2. ASSUME u # <<>> PROVE Len(u) \in Nat /\ Len(u) # 0 /\ Len(Tail(u)) = Len(u) - 1
                            /\ Head(u) = u[1]
                            /\ \A i \in 1..Len(Tail(u)) : Tail(u)[i] = u[i + 1] /\ i + 1 \in 1..Len(u)
  BY <1>2
<1>3. ASSUME u # <<>>
      PROVE  /\ None(u, t) => None(Tail(u), t)
             /\ Sole(u, t) => Sole(Tail(u), t)
             /\ (Sole(u, t) /\ Head(u).type = t) => None(Tail(u), t)
  <2>1. None(u, t) => None(Tail(u), t)
    BY <1>2, <1>3 DEF None
  <2>2. Sole(u, t) => Sole(Tail(u), t)
    BY <1>2, <1>3 DEF Sole
  <2>3. (Sole(u, t) /\ Head(u).type = t) => None(Tail(u), t)
    <3> SUFFICES ASSUME Sole(u, t), Head(u).type = t, NEW i \in 1..Len(Tail(u)),
                        Tail(u)[i].type = t
                 PROVE  FALSE
        BY DEF None
    <3>1. 1 \in 1..Len(u) /\ i + 1 \in 1..Len(u) /\ u[i + 1].type = t /\ u[1].type = t
        BY <1>2, <1>3
    <3>2. i + 1 = 1
        BY <3>1 DEF Sole
    <3> QED BY <1>2, <1>3, <3>2
  <2> QED BY <2>1, <2>2, <2>3
<1>4. ASSUME NEW f \in F
      PROVE  /\ Len(u) \in Nat /\ Len(Append(u, f)) = Len(u) + 1
             /\ \A i \in 1..Len(u) : Append(u, f)[i] = u[i]
             /\ Append(u, f)[Len(u) + 1] = f
             /\ \A i \in 1..(Len(u) + 1) : i \in 1..Len(u) \/ i = Len(u) + 1
  OBVIOUS
<1>5. ASSUME NEW f \in F, f.type # t
      PROVE  /\ None(u, t) => None(Append(u, f), t)
             /\ Sole(u, t) => Sole(Append(u, f), t)
  <2>1. None(u, t) => None(Append(u, f), t)
    BY <1>4, <1>5 DEF None
  <2>2. Sole(u, t) => Sole(Append(u, f), t)
    <3> SUFFICES ASSUME Sole(u, t), NEW i \in 1..(Len(u) + 1), NEW k \in 1..(Len(u) + 1),
                        Append(u, f)[i].type = t, Append(u, f)[k].type = t
                 PROVE  i = k
        BY <1>4 DEF Sole
    <3>1. i \in 1..Len(u) /\ k \in 1..Len(u)
        BY <1>4, <1>5
    <3> QED BY <1>4, <3>1 DEF Sole
  <2> QED BY <2>1, <2>2
<1>6. ASSUME NEW f \in F, None(u, t) PROVE Sole(Append(u, f), t)
  <2> SUFFICES ASSUME NEW i \in 1..(Len(u) + 1), NEW k \in 1..(Len(u) + 1),
                      Append(u, f)[i].type = t, Append(u, f)[k].type = t
               PROVE  i = k
      BY <1>4 DEF Sole
  <2>1. i = Len(u) + 1 /\ k = Len(u) + 1
      BY <1>4, <1>6 DEF None
  <2> QED BY <2>1
<1> QED BY <1>1, <1>3, <1>5, <1>6

\* Without a batch among them, frames carry any batch.
LEMMA NoneCarries ==
    ASSUME NEW n
    PROVE  /\ \A u \in Seq(UpFrame) : None(u, "events") => u \in Seq(Carrying(n))
           /\ \A d \in Seq(DownFrame) : None(d, "ack") => d \in Seq(Acking(n))
<1>1. ASSUME NEW u \in Seq(UpFrame), None(u, "events") PROVE u \in Seq(Carrying(n))
  <2>1. \A i \in 1..Len(u) : u[i] \in Carrying(n)
    BY <1>1 DEF None, Carrying
  <2> QED BY <2>1
<1>2. ASSUME NEW d \in Seq(DownFrame), None(d, "ack") PROVE d \in Seq(Acking(n))
  <2>1. \A i \in 1..Len(d) : d[i] \in Acking(n)
    BY <1>2 DEF None, Acking
  <2> QED BY <2>1
<1> QED BY <1>1, <1>2

\* The frames of a flight are frames.
LEMMA FlightTypes ==
    ASSUME NEW n, NEW u, NEW h, NEW d, Flight(n, u, h, d)
    PROVE  u \in Seq(UpFrame) /\ d \in Seq(DownFrame)
<1>1. Carrying(n) \subseteq UpFrame /\ Acking(n) \subseteq DownFrame
  BY DEF Carrying, Acking
<1> QED BY <1>1 DEF Flight

-----------------------------------------------------------------------------
(* How a flight goes on.                                                   *)

\* The handler leaves off what it was ingesting; frames go by or get lost.
LEMMA FlightShrinks ==
    ASSUME NEW n, NEW u, NEW h, NEW d, Flight(n, u, h, d),
           NEW k, k.pc = "ingest" => k = h,
           NEW v, v \in {u, <<>>} \/ (u # <<>> /\ v = Tail(u)),
           NEW e, e \in {d, <<>>} \/ (d # <<>> /\ e = Tail(d))
    PROVE  Flight(n, v, k, e)
<1>1. u \in Seq(Carrying(n)) /\ d \in Seq(Acking(n))
  BY DEF Flight
<1>2. /\ v \in Seq(Carrying(n)) /\ (Sole(u, "events") => Sole(v, "events"))
      /\ (None(u, "events") => None(v, "events"))
  <2>1. CASE v = u
    BY <1>1, <2>1
  <2>2. CASE v = <<>>
    BY <1>1, <2>2, SoleSeq
  <2>3. CASE u # <<>> /\ v = Tail(u)
    BY <1>1, <2>3, SoleSeq
  <2> QED BY <2>1, <2>2, <2>3
<1>3. /\ e \in Seq(Acking(n)) /\ (Sole(d, "ack") => Sole(e, "ack"))
      /\ (None(d, "ack") => None(e, "ack"))
  <2>1. CASE e = d
    BY <1>1, <2>1
  <2>2. CASE e = <<>>
    BY <1>1, <2>2, SoleSeq
  <2>3. CASE d # <<>> /\ e = Tail(d)
    BY <1>1, <2>3, SoleSeq
  <2> QED BY <2>1, <2>2, <2>3
<1>4. CASE k.pc # "ingest"
  BY <1>2, <1>3, <1>4 DEF Flight
<1>5. CASE k = h
  BY <1>2, <1>3, <1>5 DEF Flight
<1> QED BY <1>4, <1>5

\* A frame that is no batch, and one that is no acknowledgement, are sent.
LEMMA FlightPlain ==
    ASSUME NEW n, NEW u, NEW h, NEW d, Flight(n, u, h, d)
    PROVE  /\ \A f \in UpFrame : f.type # "events" => Flight(n, Append(u, f), h, d)
           /\ \A f \in DownFrame : f.type # "ack" => Flight(n, u, h, Append(d, f))
<1>1. u \in Seq(Carrying(n)) /\ d \in Seq(Acking(n))
  BY DEF Flight
<1>2. ASSUME NEW f \in UpFrame, f.type # "events" PROVE Flight(n, Append(u, f), h, d)
  <2>1. f \in Carrying(n)
    BY <1>2 DEF Carrying
  <2>2. /\ Append(u, f) \in Seq(Carrying(n))
        /\ (None(u, "events") => None(Append(u, f), "events"))
        /\ (Sole(u, "events") => Sole(Append(u, f), "events"))
    BY <1>1, <1>2, <2>1, SoleSeq
  <2> QED BY <2>2 DEF Flight
<1>3. ASSUME NEW f \in DownFrame, f.type # "ack" PROVE Flight(n, u, h, Append(d, f))
  <2>1. f \in Acking(n)
    BY <1>3 DEF Acking
  <2>2. /\ Append(d, f) \in Seq(Acking(n))
        /\ (None(d, "ack") => None(Append(d, f), "ack"))
        /\ (Sole(d, "ack") => Sole(Append(d, f), "ack"))
    BY <1>1, <1>3, <2>1, SoleSeq
  <2> QED BY <2>2 DEF Flight
<1> QED BY <1>2, <1>3

\* The handler takes the batch.
LEMMA FlightIngests ==
    ASSUME NEW n, NEW u, NEW h, NEW d, Flight(n, u, h, d),
           u # <<>>, Head(u).type = "events",
           NEW k, k.batch = Head(u).batch
    PROVE  Flight(n, Tail(u), k, d)
<1>1. u \in Seq(Carrying(n)) /\ Head(u) \in Carrying(n) /\ Tail(u) \in Seq(Carrying(n))
  BY DEF Flight
<1>2. LastSeq(k.batch) = n
  BY <1>1 DEF Carrying
<1>3. ~None(u, "events")
  <2>1. 1 \in 1..Len(u) /\ u[1] = Head(u)
    BY <1>1
  <2> QED BY <2>1 DEF None
<1>4. None(Tail(u), "events") /\ Sole(Tail(u), "events")
  BY <1>1, SoleSeq DEF Flight
<1> QED BY <1>1, <1>2, <1>3, <1>4 DEF Flight

\* The handler acknowledges the batch.
LEMMA FlightAcks ==
    ASSUME NEW n, NEW u, NEW h, NEW d, Flight(n, u, h, d), h.pc = "ingest",
           NEW k, k.pc # "ingest",
           NEW f \in DownFrame, f.type = "ack", f.seq = LastSeq(h.batch)
    PROVE  Flight(n, u, k, Append(d, f))
<1>1. n # 0 /\ None(u, "events") /\ None(d, "ack") /\ f.seq = n
  BY DEF Flight
<1>2. f \in Acking(n) /\ d \in Seq(Acking(n))
  BY <1>1 DEF Acking, Flight
<1>3. Append(d, f) \in Seq(Acking(n)) /\ Sole(Append(d, f), "ack")
  BY <1>1, <1>2, SoleSeq
<1> QED BY <1>1, <1>3 DEF Flight

\* Nothing is in flight: a batch may be sent, or is lost at once.
LEMMA FlightSends ==
    ASSUME NEW u \in Seq(UpFrame), NEW d \in Seq(DownFrame), NEW h,
           None(u, "events"), None(d, "ack"), h.pc # "ingest"
    PROVE  /\ \A n : Flight(n, u, h, d)
           /\ \A f \in UpFrame :
                 (f.type = "events" /\ LastSeq(f.batch) # 0) =>
                    Flight(LastSeq(f.batch), Append(u, f), h, d)
<1>1. Sole(u, "events") /\ Sole(d, "ack")
  BY SoleSeq
<1>2. \A n : Flight(n, u, h, d)
  BY <1>1, NoneCarries DEF Flight
<1>3. ASSUME NEW f \in UpFrame, f.type = "events", LastSeq(f.batch) # 0
      PROVE  Flight(LastSeq(f.batch), Append(u, f), h, d)
  <2> DEFINE n == LastSeq(f.batch)
  <2>1. f \in Carrying(n) /\ u \in Seq(Carrying(n)) /\ d \in Seq(Acking(n))
    BY NoneCarries DEF Carrying
  <2>2. Append(u, f) \in Seq(Carrying(n)) /\ Sole(Append(u, f), "events")
    BY <2>1, SoleSeq
  <2> HIDE DEF n
  <2>3. n # 0
    BY <1>3 DEF n
  <2>4. Flight(n, Append(u, f), h, d)
    BY <1>1, <2>1, <2>2, <2>3 DEF Flight
  <2> QED BY <2>4 DEF n
<1> QED BY <1>2, <1>3

-----------------------------------------------------------------------------
(* The steps.                                                              *)

\* What the proofs need of the types.
LEMMA AckTypes ==
    ASSUME Typed
    PROVE  /\ connEpoch \in [Gateway -> 0..MaxConnections]
           /\ journal \in [Gateway -> Journals] /\ \A g \in Gateway : WellFormed(journal[g])
           /\ stream \in [Gateway -> Streams]
           /\ \A g \in Gateway : stream[g].epoch # 0 => stream[g].epoch \in ConnEpoch
           /\ up \in [Gateway -> [ConnEpoch -> Seq(UpFrame)]]
           /\ down \in [Gateway -> Seq(DownFrame)]
           /\ handler \in [Gateway -> [ConnEpoch -> Handlers]]
<1>1. stream \in [Gateway -> Streams]
  BY ProcessTypes
<1>2. \A g \in Gateway : stream[g].epoch # 0 => stream[g].epoch \in ConnEpoch
  BY <1>1, ConstantsAssumption DEF Streams, ConnEpoch
<1> QED BY <1>1, <1>2 DEF Typed, MySQLOK, MySQLTypeOK, GatewayOK, GatewayTypeOK, JournalShape,
                          NetworkOK, NetworkTypeOK

\* Nothing is in flight before the gateways connect.
LEMMA AckInit == Init => AckInv
<1> SUFFICES ASSUME Init PROVE AckInv
    OBVIOUS
<1>1. Typed
  BY TypedInit
<1>2. ASSUME NEW g \in Gateway PROVE FlightAt(g) /\ FreshAt(g) /\ KnownAt(g)
  <2>1. /\ stream[g] = NoStream /\ down[g] = <<>> /\ journal[g] = EmptyJournal
        /\ connEpoch[g] = 0 /\ \A c \in ConnEpoch : up[g][c] = <<>>
    BY DEF Init
  <2>2. NoStream.epoch = 0 /\ NoStream.expected = 0
    BY DEF NoStream
  <2>3. EmptyJournal.next = 1 /\ EmptyJournal.entries = {}
    BY DEF EmptyJournal
  <2> QED BY <2>1, <2>2, <2>3 DEF FlightAt, FreshAt, KnownAt
<1> QED BY <1>1, <1>2 DEF AckInv

\* A gateway none of whose streams change, and whose journal keeps its rows.
LEMMA AckElsewhere ==
    ASSUME AckInv, NEW g \in Gateway,
           stream'[g].epoch = stream[g].epoch, stream'[g].expected = stream[g].expected,
           down'[g] = down[g], connEpoch'[g] = connEpoch[g],
           \A c \in ConnEpoch : up'[g][c] = up[g][c] /\ handler'[g][c] = handler[g][c],
           journal'[g] = journal[g]
    PROVE  FlightAt(g)' /\ FreshAt(g)' /\ KnownAt(g)'
<1>1. FlightAt(g) /\ FreshAt(g) /\ KnownAt(g)
  BY DEF AckInv
<1>2. stream[g].epoch # 0 => stream[g].epoch \in ConnEpoch
  BY AckTypes DEF AckInv
<1>3. FlightAt(g)'
  BY <1>1, <1>2 DEF FlightAt
<1>4. FreshAt(g)'
  BY <1>1 DEF FreshAt
<1>5. KnownAt(g)'
  BY <1>1 DEF KnownAt
<1> QED BY <1>3, <1>4, <1>5

\* Steps of the tables and of the reconciler.
LEMMA AckKept ==
    ASSUME AckInv, Typed', UNCHANGED <<connEpoch, journal, up, down, handler>>,
           \A g \in Gateway : /\ stream'[g].epoch = stream[g].epoch
                              /\ stream'[g].expected = stream[g].expected
    PROVE  AckInv'
BY AckElsewhere DEF AckInv

\* A step of gateway g.
LEMMA AckGateway ==
    ASSUME AckInv, Typed', UNCHANGED handler, NEW g \in Gateway,
           FlightAt(g)', FreshAt(g)', KnownAt(g)',
           \A h \in Gateway : h # g =>
              /\ stream'[h] = stream[h] /\ down'[h] = down[h] /\ up'[h] = up[h]
              /\ journal'[h] = journal[h] /\ connEpoch'[h] = connEpoch[h]
    PROVE  AckInv'
<1>1. \A h \in Gateway : h # g => FlightAt(h)' /\ FreshAt(h)' /\ KnownAt(h)'
  BY AckElsewhere
<1> QED BY <1>1 DEF AckInv

\* A step of a handler.
LEMMA AckHandler ==
    ASSUME AckInv, Typed', NEW g \in Gateway, NEW c \in ConnEpoch,
           UNCHANGED <<connEpoch, journal, stream>>,
           NEW k \in Handlers,
           handler' = [handler EXCEPT ![g][c] = k] \/ (handler' = handler /\ k = handler[g][c]),
           NEW v \in Seq(UpFrame),
           up' = [up EXCEPT ![g][c] = v] \/ (up' = up /\ v = up[g][c]),
           up[g][c] = <<>> => v = <<>>,
           \A h \in Gateway : h # g \/ stream[g].epoch # c => down'[h] = down[h],
           stream[g].epoch = c => Flight(stream[g].expected, v, k, down'[g])
    PROVE  AckInv'
<1> DEFINE n == stream[g].expected
<1>1. /\ \A x \in Gateway, y \in ConnEpoch :
            handler'[x][y] = IF x = g /\ y = c THEN k ELSE handler[x][y]
      /\ \A x \in Gateway, y \in ConnEpoch :
            up'[x][y] = IF x = g /\ y = c THEN v ELSE up[x][y]
  <2>1. /\ handler \in [Gateway -> [ConnEpoch -> Handlers]]
        /\ up \in [Gateway -> [ConnEpoch -> Seq(UpFrame)]]
    BY AckTypes DEF AckInv
  <2>2. \A x \in Gateway, y \in ConnEpoch :
           handler'[x][y] = IF x = g /\ y = c THEN k ELSE handler[x][y]
    <3>1. CASE handler' = [handler EXCEPT ![g][c] = k]
      BY <2>1, <3>1, CellReplaced
    <3> QED BY <3>1
  <2>3. \A x \in Gateway, y \in ConnEpoch :
           up'[x][y] = IF x = g /\ y = c THEN v ELSE up[x][y]
    <3>1. CASE up' = [up EXCEPT ![g][c] = v]
      BY <2>1, <3>1, CellReplaced
    <3> QED BY <3>1
  <2> QED BY <2>2, <2>3
<1>2. ASSUME NEW h \in Gateway PROVE FlightAt(h)' /\ FreshAt(h)' /\ KnownAt(h)'
  <2>1. CASE h # g
    BY <1>1, <2>1, AckElsewhere
  <2>2. CASE h = g
    <3>1. FlightAt(g) /\ FreshAt(g) /\ KnownAt(g)
      BY DEF AckInv
    <3>2. stream[g].epoch # 0 => stream[g].epoch \in ConnEpoch
      BY AckTypes DEF AckInv
    <3>3. c # 0
      BY DEF ConnEpoch
    <3>4. ASSUME stream[g].epoch = c PROVE FlightAt(g)'
      BY <1>1, <3>3, <3>4 DEF FlightAt
    <3>5. ASSUME stream[g].epoch # c PROVE FlightAt(g)'
      BY <1>1, <3>1, <3>2, <3>5 DEF FlightAt
    <3>6. FreshAt(g)'
      BY <1>1, <3>1 DEF FreshAt
    <3>7. KnownAt(g)'
      BY <3>1 DEF KnownAt
    <3> QED BY <2>2, <3>4, <3>5, <3>6, <3>7
  <2> QED BY <2>1, <2>2
<1> QED BY <1>2 DEF AckInv

\* The flight a handler serves, if the gateway is on its stream.
LEMMA FlightOf ==
    ASSUME AckInv, NEW g \in Gateway, NEW c \in ConnEpoch, stream[g].epoch = c
    PROVE  Flight(stream[g].expected, up[g][c], handler[g][c], down[g])
<1>1. c # 0
  BY DEF ConnEpoch
<1> QED BY <1>1 DEF AckInv, FlightAt

\* stream.Send.
LEMMA AckDelivers ==
    ASSUME AckInv, NEW g \in Gateway, NEW c \in ConnEpoch, NEW f \in DownFrame,
           Deliver(g, c, f)
    PROVE  /\ \A h \in Gateway : h # g \/ stream[g].epoch # c => down'[h] = down[h]
           /\ stream[g].epoch = c => down'[g] = Append(down[g], f)
<1>1. down \in [Gateway -> Seq(DownFrame)]
  BY AckTypes DEF AckInv
<1> QED BY <1>1 DEF Deliver

\* A stream that is cut has nothing in flight.
LEMMA AckCloses ==
    ASSUME AckInv, Typed', NEW g \in Gateway, NEW c \in ConnEpoch, Close(g, c),
           UNCHANGED <<connEpoch, journal, stream>>
    PROVE  AckInv'
<1> DEFINE k == HandlerAt("closed")
<1>1. k \in Handlers /\ k.pc = "closed"
  BY ProcessTypes DEF AckInv, HandlerAt, Handlers
<1>2. /\ handler' = [handler EXCEPT ![g][c] = k] /\ UNCHANGED down
      /\ up' = [up EXCEPT ![g][c] = <<>>]
  BY DEF Close
<1> HIDE DEF k
<1>3. stream[g].epoch = c => Flight(stream[g].expected, <<>>, k, down[g])
  BY <1>1, FlightOf, FlightShrinks
<1>4. <<>> \in Seq(UpFrame)
  OBVIOUS
<1> QED BY <1>1, <1>2, <1>3, <1>4, AckHandler

\* Between two control points a handler takes a frame that is no batch, or
\* none, and sends one that is no acknowledgement, or none.
LEMMA AckServes ==
    ASSUME AckInv, Typed', NEW g \in Gateway, NEW c \in ConnEpoch,
           UNCHANGED <<connEpoch, journal, stream>>,
           NEW k \in Handlers, k.pc # "ingest" \/ k = handler[g][c],
           handler' = [handler EXCEPT ![g][c] = k] \/ (handler' = handler /\ k = handler[g][c]),
           NEW v, v = up[g][c] \/ (up[g][c] # <<>> /\ v = Tail(up[g][c])),
           up' = [up EXCEPT ![g][c] = v] \/ (up' = up /\ v = up[g][c]),
           NEW f \in DownFrame, f.type # "ack", UNCHANGED down \/ Deliver(g, c, f)
    PROVE  AckInv'
<1>1. up[g][c] \in Seq(UpFrame)
  BY AckTypes DEF AckInv
<1>2. v \in Seq(UpFrame) /\ (up[g][c] = <<>> => v = <<>>)
  <2>1. up[g][c] # <<>> => Tail(up[g][c]) \in Seq(UpFrame)
    BY <1>1
  <2> QED BY <1>1, <2>1
<1>3. /\ \A h \in Gateway : h # g \/ stream[g].epoch # c => down'[h] = down[h]
      /\ stream[g].epoch = c => down'[g] \in {down[g], Append(down[g], f)}
  BY AckDelivers
<1>4. ASSUME stream[g].epoch = c PROVE Flight(stream[g].expected, v, k, down'[g])
  <2>1. Flight(stream[g].expected, up[g][c], handler[g][c], down[g])
    BY <1>4, FlightOf
  <2>2. Flight(stream[g].expected, v, k, down[g])
    BY <2>1, FlightShrinks
  <2>3. Flight(stream[g].expected, v, k, Append(down[g], f))
    BY <2>2, FlightPlain
  <2>4. down'[g] = down[g] \/ down'[g] = Append(down[g], f)
    BY <1>3, <1>4
  <2> QED BY <2>2, <2>3, <2>4, Zenon
<1>5. stream[g].epoch = c => Flight(stream[g].expected, v, k, down'[g])
  BY <1>4
<1>6. \A h \in Gateway : h # g \/ stream[g].epoch # c => down'[h] = down[h]
  BY <1>3
<1> QED BY <1>2, <1>5, <1>6, AckHandler, Zenon

\* Reading desired state moves no batch.
LEMMA AckStartPush ==
    ASSUME AckInv, Typed', NEW g \in Gateway, NEW c \in ConnEpoch, NEW rest,
           StartPush(g, c, rest), UNCHANGED <<connEpoch, journal, stream>>,
           rest = up[g][c] \/ (up[g][c] # <<>> /\ rest = Tail(up[g][c]))
    PROVE  AckInv'
<1> DEFINE k == [HandlerAt("list") EXCEPT !.rev = revision[g]]
<1>1. CASE ~(connEpoch[g] = c)
  BY <1>1, AckCloses DEF StartPush
<1>2. CASE connEpoch[g] = c
  <2>1. revision[g] \in Nat /\ NoEpochs \in Epochs
    BY ProcessTypes DEF AckInv, Typed, MySQLOK, MySQLTypeOK
  <2>2. k \in Handlers /\ k.pc = "list"
    BY <2>1 DEF HandlerAt, Handlers
  <2>3. Armed \in DownFrame /\ Armed.type # "ack"
    BY <2>1 DEF Armed, DownFrame
  <2>4. /\ handler' = [handler EXCEPT ![g][c] = k] /\ Deliver(g, c, Armed)
        /\ up' = [up EXCEPT ![g][c] = rest]
    BY <1>2 DEF StartPush
  <2> HIDE DEF k
  <2> QED BY <2>2, <2>3, <2>4, AckServes
<1> QED BY <1>1, <1>2

\* Reading the assignment table moves no batch.
LEMMA AckListAssignments ==
    ASSUME AckInv, Typed', NEW g \in Gateway, NEW c \in ConnEpoch, ListAssignments(g, c)
    PROVE  AckInv'
<1> DEFINE E == IF revision[g] = handler[g][c].rev /\ connEpoch[g] = c
                THEN Assigned(g) ELSE NoEpochs
           k == [handler[g][c] EXCEPT !.pc = "recheck", !.epochs = E]
<1>1. E \in Epochs
  BY ProcessTypes DEF AckInv, Typed, MySQLOK, MySQLTypeOK, Assigned, Epochs
<1>2. /\ handler' = [handler EXCEPT ![g][c] = k] /\ UNCHANGED <<up, down>>
      /\ UNCHANGED <<connEpoch, journal, stream>>
  BY DEF ListAssignments, mysql, process
<1> HIDE DEF E
<1>3. handler[g][c] \in Handlers
  BY AckTypes DEF AckInv
<1>4. k \in Handlers /\ k.pc = "recheck"
  BY <1>1, <1>3 DEF Handlers
<1>5. Armed \in DownFrame /\ Armed.type # "ack"
  BY ProcessTypes DEF AckInv, Armed, DownFrame
<1> HIDE DEF k
<1> QED BY <1>2, <1>4, <1>5, AckServes

\* A snapshot is no acknowledgement.
LEMMA AckPushDesiredState ==
    ASSUME AckInv, Typed', NEW g \in Gateway, NEW c \in ConnEpoch, PushDesiredState(g, c)
    PROVE  AckInv'
<1> DEFINE h == handler[g][c]
           f == Snapshot(h.rev, h.epochs)
           k == HandlerAt("idle")
<1>1. UNCHANGED <<connEpoch, journal, stream>>
  BY DEF PushDesiredState, mysql, process
<1>2. CASE Close(g, c)
  BY <1>1, <1>2, AckCloses
<1>3. CASE /\ Deliver(g, c, f) /\ handler' = [handler EXCEPT ![g][c] = k] /\ UNCHANGED up
  <2>1. h \in Handlers
    BY AckTypes DEF AckInv
  <2>2. f \in DownFrame /\ f.type # "ack"
    BY <2>1 DEF Snapshot, DownFrame, Handlers
  <2>3. k \in Handlers /\ k.pc # "ingest"
    BY ProcessTypes DEF AckInv, HandlerAt, Handlers
  <2> HIDE DEF f, k
  <2> QED BY <1>1, <1>3, <2>2, <2>3, AckServes
<1> QED BY <1>2, <1>3 DEF PushDesiredState

\* Persisting a report moves no batch.
LEMMA AckPersistReport ==
    ASSUME AckInv, Typed', NEW g \in Gateway, NEW c \in ConnEpoch, PersistReport(g, c)
    PROVE  AckInv'
<1>1. UNCHANGED <<connEpoch, journal, stream>> /\ up[g][c] # <<>>
  BY DEF PersistReport, Taken, mysql, process
<1>2. CASE Close(g, c)
  BY <1>1, <1>2, AckCloses
<1>3. CASE up' = [up EXCEPT ![g][c] = Tail(@)] /\ UNCHANGED <<handler, down>>
  <2>1. handler[g][c] \in Handlers
    BY AckTypes DEF AckInv
  <2>2. Armed \in DownFrame /\ Armed.type # "ack"
    BY ProcessTypes DEF AckInv, Armed, DownFrame
  <2>3. PICK v : v = Tail(up[g][c]) /\ up' = [up EXCEPT ![g][c] = v]
    BY <1>3
  <2> QED BY <1>1, <1>3, <2>1, <2>2, <2>3, AckServes
<1> QED BY <1>2, <1>3 DEF PersistReport

\* The handler takes the batch off the stream: it is in one place still.
LEMMA AckIngestFence ==
    ASSUME AckInv, Typed', NEW g \in Gateway, NEW c \in ConnEpoch, IngestFence(g, c)
    PROVE  AckInv'
<1> DEFINE batch == Head(up[g][c]).batch
           k == [HandlerAt("ingest") EXCEPT !.batch = batch]
<1>1. /\ UNCHANGED <<connEpoch, journal, stream>>
      /\ up[g][c] # <<>> /\ Head(up[g][c]).type = "events"
  BY DEF IngestFence, Taken, mysql, process
<1>2. CASE Close(g, c)
  BY <1>1, <1>2, AckCloses
<1>3. CASE /\ handler' = [handler EXCEPT ![g][c] = k] /\ UNCHANGED down
           /\ up' = [up EXCEPT ![g][c] = Tail(@)]
  <2>1. up[g][c] \in Seq(UpFrame)
    BY AckTypes DEF AckInv
  <2>2. Head(up[g][c]) \in UpFrame /\ Tail(up[g][c]) \in Seq(UpFrame)
    BY <1>1, <2>1
  <2>3. batch \in SUBSET Row
    BY <2>2 DEF UpFrame
  <2>4. k \in Handlers /\ k.batch = batch
    BY <2>3, ProcessTypes DEF AckInv, HandlerAt, Handlers
  <2> HIDE DEF k
  <2>5. PICK v : v = Tail(up[g][c]) /\ up' = [up EXCEPT ![g][c] = v]
    BY <1>3
  <2>6. stream[g].epoch = c => Flight(stream[g].expected, v, k, down[g])
    BY <1>1, <2>4, <2>5, FlightOf, FlightIngests
  <2> QED BY <1>1, <1>3, <2>2, <2>4, <2>5, <2>6, AckHandler
<1> QED BY <1>2, <1>3 DEF IngestFence

\* The commit turns the batch into its acknowledgement.
LEMMA AckIngestCommit ==
    ASSUME AckInv, Typed', NEW g \in Gateway, NEW c \in ConnEpoch, IngestCommit(g, c)
    PROVE  AckInv'
<1> DEFINE f == EventAck(LastSeq(handler[g][c].batch))
           k == HandlerAt("idle")
<1>1. UNCHANGED <<connEpoch, journal, stream>> /\ handler[g][c].pc = "ingest"
  BY DEF IngestCommit, process
<1>2. CASE Close(g, c)
  BY <1>1, <1>2, AckCloses
<1>3. CASE /\ Deliver(g, c, f) /\ handler' = [handler EXCEPT ![g][c] = k] /\ UNCHANGED up
  <2> DEFINE batch == handler[g][c].batch
  <2>1. /\ batch \in SUBSET Row /\ batch # {} /\ \A r \in batch : r.seq < journal[g].next
        /\ journal[g].next \in Nat
    BY <1>1, AckTypes DEF AckInv, Typed, NetworkOK, HandlerShape, Batches, Journals
  <2>2. LastSeq(batch) \in Nat
    <3> HIDE DEF batch
    <3> QED BY <2>1, LastSeqIsNewest DEF Row
  <2>3. f \in DownFrame /\ f.type = "ack" /\ f.seq = LastSeq(handler[g][c].batch)
    BY <2>2, ProcessTypes DEF AckInv, EventAck, DownFrame
  <2>4. k \in Handlers /\ k.pc # "ingest"
    BY ProcessTypes DEF AckInv, HandlerAt, Handlers
  <2>5. up[g][c] \in Seq(UpFrame)
    BY AckTypes DEF AckInv
  <2> HIDE DEF f, k
  <2>6. /\ \A h \in Gateway : h # g \/ stream[g].epoch # c => down'[h] = down[h]
        /\ stream[g].epoch = c => down'[g] = Append(down[g], f)
    BY <1>3, <2>3, AckDelivers
  <2>7. stream[g].epoch = c => Flight(stream[g].expected, up[g][c], k, Append(down[g], f))
    BY <1>1, <2>3, <2>4, FlightOf, FlightAcks
  <2>8. stream[g].epoch = c => Flight(stream[g].expected, up[g][c], k, down'[g])
    BY <2>6, <2>7
  <2>9. /\ handler' = [handler EXCEPT ![g][c] = k] /\ up' = up
        /\ \A h \in Gateway : h # g \/ stream[g].epoch # c => down'[h] = down[h]
    BY <1>3, <2>6
  <2> QED BY <1>1, <2>4, <2>5, <2>8, <2>9, AckHandler
<1> QED BY <1>2, <1>3 DEF IngestCommit

\* The frames sent over the stream a gateway is on.
LEMMA AckSent ==
    ASSUME Typed, NEW g \in Gateway, stream[g].epoch # 0, NEW frames \in Seq(UpFrame),
           Sent(g, frames)
    PROVE  /\ up'[g][stream[g].epoch] \in
                 {up[g][stream[g].epoch], up[g][stream[g].epoch] \o frames}
           /\ \A c \in ConnEpoch : c # stream[g].epoch => up'[g][c] = up[g][c]
           /\ \A h \in Gateway : h # g => up'[h] = up[h]
<1> DEFINE c == stream[g].epoch
           u == IF Open(g, c) THEN up[g][c] \o frames ELSE up[g][c]
<1>1. up \in [Gateway -> [ConnEpoch -> Seq(UpFrame)]] /\ c \in ConnEpoch
  BY AckTypes
<1>2. u \in {up[g][c], up[g][c] \o frames} /\ up' = [up EXCEPT ![g][c] = u]
  BY DEF Sent
<1> HIDE DEF u, c
<1>3. /\ up'[g][c] = u /\ \A d \in ConnEpoch : d # c => up'[g][d] = up[g][d]
      /\ \A h \in Gateway : h # g => up'[h] = up[h]
  BY <1>1, <1>2
<1> QED BY <1>2, <1>3 DEF c

\* FreshAt of a gateway that stays on its stream.
LEMMA FreshStays ==
    ASSUME AckInv, NEW g \in Gateway, stream[g].epoch # 0,
           stream'[g].epoch = stream[g].epoch, connEpoch'[g] = connEpoch[g],
           \A c \in ConnEpoch : c # stream[g].epoch => up'[g][c] = up[g][c]
    PROVE  FreshAt(g)'
<1>1. FreshAt(g) /\ stream[g].epoch \in Nat /\ connEpoch[g] \in Nat
  BY AckTypes DEF AckInv, Streams
<1> QED BY <1>1 DEF FreshAt, ConnEpoch

\* sendEventBatch when nothing is in flight.
LEMMA AckSendBatch ==
    ASSUME AckInv, Typed', NEW g \in Gateway, stream[g].epoch # 0,
           NEW j \in Journals, WellFormed(j),
           j.entries \subseteq journal[g].entries, j.next = journal[g].next,
           NEW armed, NEW before \in {<<>>, <<Heartbeat>>}, SendBatch(g, j, armed, before),
           UNCHANGED <<handler, connEpoch>>,
           None(up[g][stream[g].epoch], "events"), None(down'[g], "ack"),
           handler[g][stream[g].epoch].pc # "ingest",
           \A h \in Gateway : h # g => down'[h] = down[h]
    PROVE  AckInv'
<1> DEFINE c == stream[g].epoch
           batch == NextEventBatch(g, j)
           ev == EventBatch(batch)
           frames == IF batch = {} THEN before ELSE Append(before, ev)
           n == IF batch = {} THEN 0 ELSE LastSeq(batch)
           u == up[g][c]
<1>t. /\ stream \in [Gateway -> Streams] /\ journal \in [Gateway -> Journals]
      /\ u \in Seq(UpFrame) /\ c \in ConnEpoch
  BY AckTypes DEF AckInv
<1>d. down' \in [Gateway -> Seq(DownFrame)]
  BY DEF Typed, NetworkOK, NetworkTypeOK
<1>1. /\ batch \subseteq j.entries /\ batch \in SUBSET Row
      /\ \A r \in batch : r.seq < j.next
  BY BatchIsFromJournal
<1>2. j.next \in Nat /\ \A r \in batch : r.seq \in Nat /\ r.seq # 0
  BY <1>1 DEF AckInv, KnownAt, Journals, Row
<1>3. batch # {} => /\ LastSeq(batch) \in Nat \ {0}
                    /\ \E r \in j.entries : r.seq = LastSeq(batch)
  <2> HIDE DEF batch
  <2>1. ASSUME batch # {} PROVE LastSeq(batch) \in Nat /\ \E r \in batch : r.seq = LastSeq(batch)
    BY <1>1, <1>2, <2>1, LastSeqIsNewest
  <2> QED BY <1>1, <1>2, <2>1
<1>4. ev \in UpFrame /\ ev.type = "events" /\ ev.batch = batch
  BY <1>1 DEF EventBatch, UpFrame
<1>5. Heartbeat \in UpFrame /\ Heartbeat.type # "events"
  BY DEF Heartbeat, UpFrame
<1>6. /\ journal' = [journal EXCEPT ![g] = RetireUnowned(g, j)]
      /\ stream' = [stream EXCEPT ![g].armed = armed, ![g].expected = n]
      /\ Sent(g, frames)
  BY DEF SendBatch
<1>7. RetireUnowned(g, j) = j \/ batch = {}
  BY DEF RetireUnowned
<1>8. /\ RetireUnowned(g, j) \in Journals /\ RetireUnowned(g, j).next = j.next
      /\ RetireUnowned(g, j).entries \subseteq j.entries
  <2> DEFINE read == ReadUnacked(j, BatchEntries)
  <2>1. RetireUnowned(g, j) = j \/ (read # {} /\ RetireUnowned(g, j) = AckThrough(j, LastSeq(read)))
    BY DEF RetireUnowned
  <2>2. read # {} => LastSeq(read) \in Nat
    BY BatchIsFromJournal
  <2> HIDE DEF read
  <2>3. read # {} => /\ AckThrough(j, LastSeq(read)) \in Journals
                     /\ AckThrough(j, LastSeq(read)).next = j.next
                     /\ AckThrough(j, LastSeq(read)).entries \subseteq j.entries
    BY <2>2, AckKeepsJournal, AckWellFormed, JournalsAreJournals
  <2> QED BY <2>1, <2>3
<1> HIDE DEF batch, ev
<1>9. /\ stream'[g].epoch = c /\ stream'[g].expected = n
      /\ journal'[g] = RetireUnowned(g, j)
      /\ \A h \in Gateway : h # g => stream'[h] = stream[h] /\ journal'[h] = journal[h]
  BY <1>t, <1>6 DEF Streams
<1>10. KnownAt(g)'
  <2>1. journal[g].next # 0 /\ \A r \in journal[g].entries : r.seq # 0
    BY DEF AckInv, KnownAt
  <2>2. n # 0 => \E r \in journal'[g].entries : r.seq = n
    BY <1>3, <1>7, <1>9
  <2> QED BY <1>8, <1>9, <2>1, <2>2 DEF KnownAt
<1>11. before \in Seq(UpFrame) /\ frames \in Seq(UpFrame)
  <2>1. <<Heartbeat>> \in Seq(UpFrame) /\ <<>> \in Seq(UpFrame)
    BY <1>5
  <2>2. before \in Seq(UpFrame)
    BY <2>1
  <2>3. Append(before, ev) \in Seq(UpFrame)
    BY <1>4, <2>2
  <2> QED BY <2>2, <2>3
<1>12. /\ up'[g][c] \in {u, u \o frames}
       /\ \A d \in ConnEpoch : d # c => up'[g][d] = up[g][d]
       /\ \A h \in Gateway : h # g => up'[h] = up[h]
  BY <1>6, <1>11, AckSent DEF AckInv
<1>13. Flight(n, up'[g][c], handler[g][c], down'[g])
  <2> DEFINE h == handler[g][c]
             d == down'[g]
             v == u \o before
  <2>1. d \in Seq(DownFrame) /\ None(d, "ack") /\ None(u, "events") /\ h.pc # "ingest"
    BY <1>d
  <2>2. v \in Seq(UpFrame) /\ None(v, "events")
    <3>1. CASE before = <<>>
      BY <1>t, <2>1, <3>1
    <3>2. CASE before = <<Heartbeat>>
      <4>1. v = Append(u, Heartbeat) /\ v \in Seq(UpFrame)
        BY <1>t, <1>5, <3>2
      <4>2. None(Append(u, Heartbeat), "events")
        BY <1>t, <1>5, <2>1, SoleSeq
      <4> QED BY <4>1, <4>2
    <3> QED BY <3>1, <3>2
  <2>3. u \o frames = IF batch = {} THEN v ELSE Append(v, ev)
    <3>1. u \o Append(before, ev) = Append(u \o before, ev)
      <4>1. u \in Seq(UpFrame) /\ before \in Seq(UpFrame)
        BY <1>t, <1>11
      <4> HIDE DEF u
      <4> QED BY <1>4, <4>1
    <3> QED BY <3>1
  <2> HIDE DEF h, d, v, u
  <2>4. Flight(n, u, h, d) /\ Flight(n, v, h, d)
    BY <1>t, <2>1, <2>2, FlightSends
  <2>5. batch # {} => Flight(n, Append(v, ev), h, d)
    BY <1>3, <1>4, <2>1, <2>2, FlightSends
  <2>6. up'[g][c] \in {u, v, Append(v, ev)} /\ (up'[g][c] = Append(v, ev) => up'[g][c] \in {u, v} \/ batch # {})
    BY <1>12, <2>3
  <2>7. PICK w : w = up'[g][c]
    OBVIOUS
  <2>8. Flight(n, w, h, d)
    BY <2>4, <2>5, <2>6, <2>7
  <2> QED BY <2>7, <2>8, Zenon DEF h, d
<1>14. FlightAt(g)'
  BY <1>9, <1>13 DEF FlightAt
<1>15. FreshAt(g)'
  BY <1>9, <1>12, FreshStays
<1> QED BY <1>9, <1>10, <1>12, <1>14, <1>15, AckGateway

\* Only a supervisor that expects nothing replays, and then nothing is in
\* flight.
LEMMA AckSendHeartbeat ==
    ASSUME AckInv, Typed', NEW g \in Gateway, SendHeartbeat(g) PROVE AckInv'
<1> DEFINE c == stream[g].epoch
<1>1. c # 0 /\ c \in ConnEpoch /\ UNCHANGED <<handler, connEpoch, down>>
  BY AckTypes DEF SendHeartbeat, Ready, AckInv, mysql
<1>2. Flight(stream[g].expected, up[g][c], handler[g][c], down[g])
  BY <1>1, FlightOf
<1>3. CASE stream[g].expected = 0 /\ SendBatch(g, journal[g], FALSE, <<Heartbeat>>)
  <2>1. /\ None(up[g][c], "events") /\ None(down[g], "ack") /\ handler[g][c].pc # "ingest"
    BY <1>2, <1>3 DEF Flight
  <2>2. journal[g] \in Journals /\ WellFormed(journal[g])
    BY AckTypes DEF AckInv
  <2> QED BY <1>1, <1>3, <2>1, <2>2, AckSendBatch
<1>4. CASE /\ stream' = [stream EXCEPT ![g].armed = FALSE]
           /\ Sent(g, <<Heartbeat>>) /\ UNCHANGED journal
  <2>1. Heartbeat \in UpFrame /\ Heartbeat.type # "events" /\ <<Heartbeat>> \in Seq(UpFrame)
    BY DEF Heartbeat, UpFrame
  <2>2. /\ up'[g][c] \in {up[g][c], up[g][c] \o <<Heartbeat>>}
        /\ \A d \in ConnEpoch : d # c => up'[g][d] = up[g][d]
        /\ \A h \in Gateway : h # g => up'[h] = up[h]
    BY <1>1, <1>4, <2>1, AckSent DEF AckInv
  <2>3. /\ stream'[g].epoch = c /\ stream'[g].expected = stream[g].expected
        /\ \A h \in Gateway : h # g => stream'[h] = stream[h]
    BY <1>4, AckTypes DEF AckInv, Streams
  <2>4. up[g][c] \o <<Heartbeat>> = Append(up[g][c], Heartbeat)
    BY <1>1, <2>1, AckTypes DEF AckInv
  <2>5. Flight(stream[g].expected, Append(up[g][c], Heartbeat), handler[g][c], down[g])
    BY <1>2, <2>1, FlightPlain
  <2>6. PICK w : w = up'[g][c]
    OBVIOUS
  <2>7. Flight(stream[g].expected, w, handler[g][c], down[g])
    BY <1>2, <2>2, <2>4, <2>5, <2>6
  <2>8. FlightAt(g)'
    BY <1>1, <2>3, <2>6, <2>7 DEF FlightAt
  <2>9. FreshAt(g)' /\ KnownAt(g)'
    BY <1>1, <1>4, <2>2, <2>3, FreshStays DEF AckInv, KnownAt
  <2> QED BY <1>1, <1>4, <2>2, <2>3, <2>8, <2>9, AckGateway
<1> QED BY <1>3, <1>4 DEF SendHeartbeat

\* The acknowledgement is taken, and the next batch may go out.
LEMMA AckHandleEventAck ==
    ASSUME AckInv, Typed', NEW g \in Gateway, HandleEventAck(g) PROVE AckInv'
<1> DEFINE c == stream[g].epoch
           j == AckThrough(journal[g], Head(down[g]).seq)
<1>1. /\ c # 0 /\ c \in ConnEpoch /\ UNCHANGED <<handler, connEpoch>>
      /\ down[g] # <<>> /\ Head(down[g]).type = "ack"
      /\ down' = [down EXCEPT ![g] = Tail(@)]
      /\ SendBatch(g, j, stream[g].armed, <<>>)
  BY AckTypes DEF HandleEventAck, Received, Ready, AckInv, mysql
<1>2. Flight(stream[g].expected, up[g][c], handler[g][c], down[g])
  BY <1>1, FlightOf
<1>3. down \in [Gateway -> Seq(DownFrame)] /\ journal[g] \in Journals /\ WellFormed(journal[g])
  BY AckTypes DEF AckInv
<1>4. down'[g] = Tail(down[g]) /\ \A h \in Gateway : h # g => down'[h] = down[h]
  BY <1>1, <1>3
<1>5. ~None(down[g], "ack")
  <2>1. 1 \in 1..Len(down[g]) /\ down[g][1] = Head(down[g])
    BY <1>1, <1>3
  <2> QED BY <1>1, <2>1 DEF None
<1>6. /\ None(up[g][c], "events") /\ handler[g][c].pc # "ingest"
      /\ None(Tail(down[g]), "ack")
  BY <1>1, <1>2, <1>3, <1>5, SoleSeq DEF Flight
<1>7. Head(down[g]).seq \in Nat
  BY <1>1, HeadTyped DEF AckInv, DownFrame
<1>8. /\ j \in Journals /\ WellFormed(j) /\ j.entries \subseteq journal[g].entries
      /\ j.next = journal[g].next
  BY <1>3, <1>7, AckKeepsJournal, AckWellFormed, JournalsAreJournals
<1> HIDE DEF j
<1> QED BY <1>1, <1>4, <1>6, <1>8, AckSendBatch

\* A frame without effect on the batch in flight is taken.
LEMMA AckArmHeartbeat ==
    ASSUME AckInv, Typed', NEW g \in Gateway, ArmHeartbeat(g) PROVE AckInv'
<1> DEFINE c == stream[g].epoch
<1>1. /\ c # 0 /\ c \in ConnEpoch /\ UNCHANGED <<handler, connEpoch, journal, up>>
      /\ down[g] # <<>>
      /\ down' = [down EXCEPT ![g] = Tail(@)]
      /\ stream' = [stream EXCEPT ![g].armed = TRUE]
  BY AckTypes DEF ArmHeartbeat, Received, Ready, AckInv, mysql
<1>2. down'[g] = Tail(down[g]) /\ \A h \in Gateway : h # g => down'[h] = down[h]
  BY <1>1, AckTypes DEF AckInv
<1>3. /\ stream'[g].epoch = c /\ stream'[g].expected = stream[g].expected
      /\ \A h \in Gateway : h # g => stream'[h] = stream[h]
  BY <1>1, AckTypes DEF AckInv, Streams
<1>4. Flight(stream[g].expected, up[g][c], handler[g][c], Tail(down[g]))
  BY <1>1, FlightOf, FlightShrinks
<1>5. FlightAt(g)'
  BY <1>1, <1>2, <1>3, <1>4 DEF FlightAt
<1>6. FreshAt(g)' /\ KnownAt(g)'
  BY <1>1, <1>3, FreshStays DEF AckInv, KnownAt
<1> QED BY <1>1, <1>2, <1>3, <1>5, <1>6, AckGateway

\* Applying a snapshot keeps the flight.
LEMMA AckFinishApply ==
    ASSUME AckInv, Typed', NEW g \in Gateway, FinishApply(g) PROVE AckInv'
<1> DEFINE c == stream[g].epoch
           f == Report(Head(down[g]).rev)
<1>1. /\ c # 0 /\ c \in ConnEpoch /\ UNCHANGED <<handler, connEpoch, journal>>
      /\ down[g] # <<>>
      /\ down' = [down EXCEPT ![g] = Tail(@)]
      /\ stream' = [stream EXCEPT ![g].applying = FALSE]
      /\ Sent(g, <<f>>)
  BY AckTypes DEF FinishApply, AckInv, mysql, Typed, StreamShape
<1>2. down'[g] = Tail(down[g]) /\ \A h \in Gateway : h # g => down'[h] = down[h]
  BY <1>1, AckTypes DEF AckInv
<1>3. /\ stream'[g].epoch = c /\ stream'[g].expected = stream[g].expected
      /\ \A h \in Gateway : h # g => stream'[h] = stream[h]
  BY <1>1, AckTypes DEF AckInv, Streams
<1>4. f \in UpFrame /\ f.type # "events"
  BY <1>1, HeadTyped DEF AckInv, Report, UpFrame
<1> HIDE DEF f
<1>5. <<f>> \in Seq(UpFrame) /\ up[g][c] \o <<f>> = Append(up[g][c], f)
  BY <1>1, <1>4, AckTypes DEF AckInv
<1>6. /\ up'[g][c] \in {up[g][c], up[g][c] \o <<f>>}
      /\ \A d \in ConnEpoch : d # c => up'[g][d] = up[g][d]
      /\ \A h \in Gateway : h # g => up'[h] = up[h]
  BY <1>1, <1>5, AckSent DEF AckInv
<1>7. /\ Flight(stream[g].expected, up[g][c], handler[g][c], Tail(down[g]))
      /\ Flight(stream[g].expected, Append(up[g][c], f), handler[g][c], Tail(down[g]))
  BY <1>1, <1>4, FlightOf, FlightShrinks, FlightPlain
<1>8. PICK w : w = up'[g][c]
  OBVIOUS
<1>9. Flight(stream[g].expected, w, handler[g][c], Tail(down[g]))
  BY <1>5, <1>6, <1>7, <1>8
<1>10. FlightAt(g)'
  BY <1>1, <1>2, <1>3, <1>8, <1>9 DEF FlightAt
<1>11. FreshAt(g)' /\ KnownAt(g)'
  BY <1>1, <1>3, <1>6, FreshStays DEF AckInv, KnownAt
<1> QED BY <1>1, <1>2, <1>3, <1>6, <1>10, <1>11, AckGateway

\* A gateway that leaves its stream leaves the flight behind.
LEMMA AckLeaves ==
    ASSUME AckInv, Typed', NEW g \in Gateway,
           FailApply(g) \/ StreamClosed(g) \/ StreamBreak(g) \/ Crash(g)
    PROVE  AckInv'
<1>1. UNCHANGED <<handler, connEpoch, journal, up>> /\ LeaveStream(g)
  BY DEF FailApply, StreamClosed, StreamBreak, Crash, mysql
<1>2. /\ stream'[g] = NoStream /\ down'[g] = <<>>
      /\ \A h \in Gateway : h # g => stream'[h] = stream[h] /\ down'[h] = down[h]
  BY <1>1, AckTypes DEF AckInv, LeaveStream
<1>3. NoStream.epoch = 0 /\ NoStream.expected = 0
  BY DEF NoStream
<1>4. FlightAt(g)' /\ KnownAt(g)'
  BY <1>1, <1>2, <1>3 DEF FlightAt, KnownAt, AckInv
<1>5. FreshAt(g)'
  BY <1>1, <1>2, <1>3, AckTypes DEF FreshAt, AckInv
<1> QED BY <1>1, <1>2, <1>4, <1>5, AckGateway

\* A new connection starts with nothing sent.
LEMMA AckAccept ==
    ASSUME AckInv, Typed', NEW g \in Gateway, Connect(g) \/ ProveCurrentConnection(g)
    PROVE  AckInv'
<1> DEFINE c == connEpoch[g] + 1
<1>1. /\ UNCHANGED <<journal, up, down>> /\ connEpoch' = [connEpoch EXCEPT ![g] = c]
      /\ \E pc \in {"accepted", "closed"} : handler' = [handler EXCEPT ![g][c] = HandlerAt(pc)]
  BY DEF Connect, ProveCurrentConnection, AcceptConnection
<1>2. connEpoch[g] \in Nat /\ c \in ConnEpoch /\ connEpoch \in [Gateway -> 0..MaxConnections]
  BY AckTypes, ConstantsAssumption DEF AckInv, Connect, ProveCurrentConnection, ConnEpoch
<1>3. PICK pc \in {"accepted", "closed"} : handler' = [handler EXCEPT ![g][c] = HandlerAt(pc)]
  BY <1>1
<1>4. HandlerAt(pc) \in Handlers /\ HandlerAt(pc).pc # "ingest"
  BY ProcessTypes DEF AckInv, HandlerAt, Handlers
<1>5. \A x \in Gateway, y \in ConnEpoch :
         handler'[x][y] = IF x = g /\ y = c THEN HandlerAt(pc) ELSE handler[x][y]
  BY <1>2, <1>3, <1>4, AckTypes, CellReplaced DEF AckInv
<1>6. connEpoch'[g] = c /\ \A h \in Gateway : h # g => connEpoch'[h] = connEpoch[h]
  BY <1>1, <1>2
<1>7. /\ stream'[g].epoch \in {stream[g].epoch, c} /\ stream'[g].expected = stream[g].expected
      /\ stream'[g].epoch = c => stream[g].epoch = 0
      /\ \A h \in Gateway : h # g => stream'[h] = stream[h]
  <2>1. stream[g].epoch <= connEpoch[g] /\ stream \in [Gateway -> Streams]
    BY AckTypes DEF AckInv, FreshAt
  <2>2. CASE Connect(g)
    BY <2>1, <2>2 DEF Connect, Streams
  <2>3. CASE ProveCurrentConnection(g)
    BY <1>2, <2>1, <2>3 DEF ProveCurrentConnection, process, Streams
  <2> QED BY <2>2, <2>3
<1>8. /\ FlightAt(g) /\ FreshAt(g) /\ KnownAt(g) /\ stream[g].epoch \in Nat
  BY AckTypes DEF AckInv, Streams
<1>9. FreshAt(g)'
  BY <1>1, <1>2, <1>6, <1>7, <1>8 DEF FreshAt, ConnEpoch
<1>10. KnownAt(g)'
  BY <1>1, <1>7, <1>8 DEF KnownAt
<1>11. FlightAt(g)'
  <2>1. CASE stream'[g].epoch = c
    <3>1. stream[g].epoch = 0 /\ stream[g].expected = 0 /\ down[g] = <<>> /\ up[g][c] = <<>>
      BY <1>2, <1>7, <1>8, <2>1 DEF FlightAt, FreshAt
    <3>2. Flight(0, <<>>, HandlerAt(pc), <<>>)
      <4>1. <<>> \in Seq(Carrying(0)) /\ <<>> \in Seq(Acking(0))
        OBVIOUS
      <4>2. \A t : None(<<>>, t) /\ Sole(<<>>, t)
        BY DEF None, Sole
      <4> QED BY <1>4, <4>1, <4>2 DEF Flight
    <3> QED BY <1>1, <1>2, <1>5, <1>7, <2>1, <3>1, <3>2 DEF FlightAt
  <2>2. CASE stream'[g].epoch = stream[g].epoch /\ stream'[g].epoch # c
    <3>1. stream[g].epoch # 0 => stream[g].epoch \in ConnEpoch
      BY AckTypes DEF AckInv
    <3> QED BY <1>1, <1>5, <1>7, <1>8, <2>2, <3>1 DEF FlightAt
  <2> QED BY <1>7, <2>1, <2>2
<1>12. \A h \in Gateway : h # g => FlightAt(h)' /\ FreshAt(h)' /\ KnownAt(h)'
  BY <1>1, <1>5, <1>6, <1>7, AckElsewhere
<1> QED BY <1>9, <1>10, <1>11, <1>12 DEF AckInv

\* An append is newer than any batch in flight.
LEMMA AckAppendEvent ==
    ASSUME AckInv, Typed', NEW g \in Gateway, NEW e \in sink[g], AppendEvent(g, e)
    PROVE  AckInv'
<1>1. UNCHANGED <<handler, connEpoch, stream, up, down>>
  BY DEF AppendEvent, mysql, network
<1>2. CASE UNCHANGED journal
  BY <1>1, <1>2, AckKept
<1>3. CASE journal' = [journal EXCEPT ![g] = AppendRow(@, e.id, e.epoch)]
  <2>1. journal \in [Gateway -> Journals] /\ FlightAt(g) /\ FreshAt(g) /\ KnownAt(g)
    BY AckTypes DEF AckInv
  <2>2. /\ journal'[g].next = journal[g].next + 1 /\ journal[g].next \in Nat
        /\ journal'[g].entries = journal[g].entries \union
              {[seq |-> journal[g].next, id |-> e.id, epoch |-> e.epoch]}
        /\ \A h \in Gateway : h # g => journal'[h] = journal[h]
    BY <1>3, <2>1 DEF AppendRow, Journals
  <2>3. KnownAt(g)'
    BY <1>1, <2>1, <2>2 DEF KnownAt
  <2>4. FlightAt(g)' /\ FreshAt(g)'
    BY <1>1, <2>1 DEF FlightAt, FreshAt
  <2> QED BY <1>1, <2>2, <2>3, <2>4, AckGateway
<1> QED BY <1>2, <1>3 DEF AppendEvent

\* Every step keeps at most one batch in flight.
LEMMA AckStep == AckInv /\ [Next]_vars => AckInv'
<1> SUFFICES ASSUME AckInv, [Next]_vars PROVE AckInv'
    OBVIOUS
<1> USE DEF mysql, process, network
<1>t. Typed'
  BY TypedStep DEF AckInv
<1> DEFINE kept == UNCHANGED <<connEpoch, journal, stream, up, down, handler>>
<1>k. ASSUME kept PROVE AckInv'
  BY <1>t, <1>k, AckKept
<1>1. ASSUME NEW g \in Gateway, SupervisorStep(g) PROVE AckInv'
  <2>1. CASE BeginApply(g)
    <3>1. /\ UNCHANGED <<connEpoch, journal, up, down, handler>>
          /\ stream' = [stream EXCEPT ![g].applying = TRUE]
      BY <2>1 DEF BeginApply
    <3>2. \A h \in Gateway : /\ stream'[h].epoch = stream[h].epoch
                             /\ stream'[h].expected = stream[h].expected
      BY <3>1, AckTypes DEF AckInv, Streams
    <3> QED BY <1>t, <3>1, <3>2, AckKept
  <2> QED BY <1>t, <1>1, <2>1, AckAccept, AckSendHeartbeat, AckArmHeartbeat,
             AckHandleEventAck, AckFinishApply, AckLeaves DEF SupervisorStep
<1>2. ASSUME NEW g \in Gateway, NEW c \in ConnEpoch, HandlerStep(g, c) PROVE AckInv'
  <2>1. CASE HandleHello(g, c)
    BY <1>t, <2>1, AckStartPush DEF HandleHello
  <2>2. CASE HandleHeartbeat(g, c)
    <3>1. /\ up[g][c] # <<>> /\ UNCHANGED <<connEpoch, journal, stream>>
          /\ StartPush(g, c, Tail(up[g][c]))
      BY <2>2 DEF HandleHeartbeat, Taken
    <3> QED BY <1>t, <3>1, AckStartPush
  <2>3. CASE HandlerReturns(g, c)
    BY <1>t, <2>3, AckCloses DEF HandlerReturns
  <2> QED BY <1>t, <1>2, <2>1, <2>2, <2>3, AckListAssignments, AckPushDesiredState,
             AckPersistReport, AckIngestFence, AckIngestCommit DEF HandlerStep
<1>3. ASSUME NEW g \in Gateway, NEW c \in ConnEpoch, HandlerFails(g, c) PROVE AckInv'
  BY <1>t, <1>3, AckCloses DEF HandlerFails
<1>4. ASSUME NEW g \in Gateway, SinkStep(g) PROVE AckInv'
  BY <1>t, <1>4, AckAppendEvent DEF SinkStep
<1>5. ASSUME NEW g \in Gateway, NEW id \in EventId, Label(g, id) PROVE kept
  BY <1>5 DEF Label
<1>6. ASSUME NEW s \in Session, UpdateConfig(s) PROVE kept
  BY <1>6 DEF UpdateConfig
<1>7. ASSUME NEW m \in Message, AppendOwnSentOnce(m) PROVE kept
  BY <1>7 DEF AppendOwnSentOnce
<1>8. ASSUME NEW g \in Gateway, Expire(g) PROVE kept
  BY <1>8 DEF Expire
<1>9. ASSUME NEW s \in Session, DeleteSession(s) PROVE kept
  BY <1>9 DEF DeleteSession
<1>10. ASSUME NEW s \in Session, NEW g \in Gateway, Reassign(s, g) PROVE kept
  BY <1>10 DEF Reassign
<1>11. ASSUME NEW g \in Gateway,
              ProveCurrentConnection(g) \/ FailApply(g) \/ StreamBreak(g) \/ Crash(g)
       PROVE  AckInv'
  BY <1>t, <1>11, AckAccept, AckLeaves
<1>12. CASE UNCHANGED vars
  BY <1>t, <1>12, AckKept DEF vars
<1> HIDE DEF kept
<1>13. CASE Next
  BY <1>13, <1>k, <1>1, <1>2, <1>3, <1>4, <1>5, <1>6, <1>7, <1>8, <1>9, <1>10, <1>11 DEF Next
<1> QED BY <1>12, <1>13

\* An acknowledgement on the stream is that of the batch in flight and names a
\* row the journal has, so handleEventAck never meets ErrProtocol or
\* ErrUnknownAck, whatever is lost, replayed or replaced.
THEOREM AcknowledgementsMatch == Spec => []AckMatchesBatch
<1>1. AckInv => AckMatchesBatch
  <2> SUFFICES ASSUME AckInv, NEW g \in Gateway, NEW i \in DOMAIN down[g],
                      down[g][i].type = "ack"
               PROVE  /\ down[g][i].seq = stream[g].expected
                      /\ AckKnown(journal[g], down[g][i].seq)
      BY DEF AckMatchesBatch
  <2>1. down[g] \in Seq(DownFrame) /\ i \in 1..Len(down[g]) /\ down[g] # <<>>
      BY AckTypes DEF AckInv
  <2>2. stream[g].epoch # 0 /\ stream[g].epoch \in ConnEpoch
      BY <2>1, AckTypes DEF AckInv, FlightAt
  <2>3. Flight(stream[g].expected, up[g][stream[g].epoch], handler[g][stream[g].epoch], down[g])
      BY <2>2, FlightOf
  <2>4. down[g][i].seq = stream[g].expected /\ stream[g].expected # 0
    <3>1. down[g] \in Seq(Acking(stream[g].expected)) /\ ~None(down[g], "ack")
      BY <2>1, <2>3 DEF Flight, None
    <3>2. down[g][i] \in Acking(stream[g].expected)
      BY <2>1, <3>1
    <3> QED BY <2>3, <3>1, <3>2 DEF Acking, Flight
  <2>5. PICK r \in journal[g].entries : r.seq = stream[g].expected
      BY <2>4 DEF AckInv, KnownAt
  <2>6. r.seq \in Nat
      BY AckTypes DEF AckInv, Journals, Row
  <2> QED BY <2>4, <2>5, <2>6 DEF AckKnown
<1> QED BY <1>1, AckInit, AckStep, PTL DEF Spec

-----------------------------------------------------------------------------
(***************************************************************************)
(* A gateway that still holds a session after a reassignment holds it      *)
(* under an epoch the API has replaced, for any number of gateways,        *)
(* sessions, connections and faults.                                       *)
(*                                                                         *)
(* HoldersAreFenced says nothing of the assignment sets that are still on  *)
(* their way: read by a handler, or in a snapshot of the stream.  The      *)
(* invariant asks the same of them.  It is stable because the epoch of an  *)
(* assignment only grows and a deletion is final.                          *)
(***************************************************************************)

\* Gateway g may hold session s under epoch e while MySQL has table A: the
\* epoch has been replaced, or it is the current one of g or of nobody.
FencedAt(A, g, s, e) ==
    e < A[s].epoch \/ (e = A[s].epoch /\ A[s].gw \in {g, NoGateway})

\* The assignment sets that gateway g may hold while MySQL has table A.
Fenced(A, g) ==
    {E \in Epochs : \A s \in Session : E[s] # 0 => FencedAt(A, g, s, E[s])}

FencedFrame(A, g) == {f \in DownFrame : f.epochs \in Fenced(A, g)}

\* B is the table after a transaction on A.
Follows(A, B) ==
    \A s \in Session :
        \/ B[s] = A[s]
        \/ B[s].gw = NoGateway /\ B[s].epoch = A[s].epoch
        \/ A[s].gw # NoGateway /\ A[s].epoch < B[s].epoch

Tables == [Session -> [gw: Gateway \union {NoGateway}, epoch: Nat]]

FenceInv ==
    /\ Typed
    /\ \A g \in Gateway : /\ recon[g].epochs \in Fenced(assignment, g)
                          /\ down[g] \in Seq(FencedFrame(assignment, g))
    /\ \A g \in Gateway, c \in ConnEpoch : handler[g][c].epochs \in Fenced(assignment, g)

-----------------------------------------------------------------------------
\* What is fenced stays fenced: the epoch of one session,
LEMMA FenceOfOneIsStable ==
    ASSUME NEW A \in Tables, NEW B \in Tables, Follows(A, B),
           NEW g \in Gateway, NEW s \in Session, NEW e \in Nat, FencedAt(A, g, s, e)
    PROVE  FencedAt(B, g, s, e)
<1>1. A[s].epoch \in Nat /\ B[s].epoch \in Nat
  BY DEF Tables
<1> QED BY <1>1 DEF FencedAt, Follows

\* an assignment set, and the snapshots of a stream.
LEMMA FenceIsStable ==
    ASSUME NEW A \in Tables, NEW B \in Tables, Follows(A, B), NEW g \in Gateway
    PROVE  /\ Fenced(A, g) \subseteq Fenced(B, g)
           /\ Seq(FencedFrame(A, g)) \subseteq Seq(FencedFrame(B, g))
<1>1. ASSUME NEW E \in Fenced(A, g) PROVE E \in Fenced(B, g)
  <2>1. E \in Epochs
    BY <1>1 DEF Fenced
  <2>2. ASSUME NEW s \in Session, E[s] # 0 PROVE FencedAt(B, g, s, E[s])
    <3>1. E[s] \in Nat /\ FencedAt(A, g, s, E[s])
      BY <1>1, <2>1, <2>2 DEF Epochs, Fenced
    <3> QED BY <3>1, FenceOfOneIsStable
  <2> QED BY <2>1, <2>2 DEF Fenced
<1>2. FencedFrame(A, g) \subseteq FencedFrame(B, g)
  BY <1>1 DEF FencedFrame
<1> HIDE DEF Fenced
<1> QED BY <1>1, <1>2

\* The empty set is fenced, and so is what MySQL answers.
LEMMA ReadsAreFenced ==
    ASSUME Typed, NEW g \in Gateway
    PROVE  /\ assignment \in Tables
           /\ NoEpochs \in Fenced(assignment, g)
           /\ Assigned(g) \in Fenced(assignment, g)
           /\ NoEpochs \in Epochs /\ Assigned(g) \in Epochs
<1>1. assignment \in Tables
  BY DEF Typed, MySQLOK, MySQLTypeOK, Tables
<1>2. NoEpochs \in Fenced(assignment, g)
  BY DEF NoEpochs, Epochs, Fenced
<1>3. Assigned(g) \in Epochs
  BY <1>1 DEF Assigned, Epochs, Tables
<1>4. ASSUME NEW s \in Session, Assigned(g)[s] # 0
      PROVE  FencedAt(assignment, g, s, Assigned(g)[s])
  BY <1>1, <1>4 DEF Assigned, Tables, FencedAt
<1>5. Assigned(g) \in Fenced(assignment, g)
  BY <1>3, <1>4 DEF Fenced
<1> QED BY <1>1, <1>2, <1>3, <1>5 DEF Fenced

\* Initially nothing is held, read or on its way.
LEMMA FenceInit == Init => FenceInv
<1> SUFFICES ASSUME Init PROVE FenceInv
    OBVIOUS
<1>1. Typed
  BY TypedInit
<1>2. ASSUME NEW g \in Gateway
      PROVE  /\ recon[g].epochs \in Fenced(assignment, g)
             /\ down[g] \in Seq(FencedFrame(assignment, g))
  <2>1. recon[g].epochs = NoEpochs /\ down[g] = <<>>
    BY DEF Init, NoRecon
  <2> QED BY <1>1, <2>1, ReadsAreFenced
<1>3. ASSUME NEW g \in Gateway, NEW c \in ConnEpoch
      PROVE  handler[g][c].epochs \in Fenced(assignment, g)
  <2>1. handler[g][c].epochs = NoEpochs
    BY DEF Init, HandlerAt
  <2> QED BY <1>1, <2>1, ReadsAreFenced
<1> QED BY <1>1, <1>2, <1>3 DEF FenceInv

-----------------------------------------------------------------------------
(* What the steps may do to the invariant.                                 *)

\* A transaction: the table moves on, and nothing that was read changes.
LEMMA FenceTransaction ==
    ASSUME FenceInv, Typed', Follows(assignment, assignment'),
           UNCHANGED <<recon, down, handler>>
    PROVE  FenceInv'
<1>1. assignment \in Tables /\ assignment' \in Tables
  BY DEF FenceInv, Typed, MySQLOK, MySQLTypeOK, Tables
<1>2. \A g \in Gateway :
         /\ Fenced(assignment, g) \subseteq Fenced(assignment', g)
         /\ Seq(FencedFrame(assignment, g)) \subseteq Seq(FencedFrame(assignment', g))
  BY <1>1, FenceIsStable
<1> QED BY <1>2 DEF FenceInv

\* A gateway's step: it takes a fenced assignment set over, or drops frames.
LEMMA FenceGateway ==
    ASSUME FenceInv, Typed', UNCHANGED <<assignment, handler>>, NEW g \in Gateway,
           \A h \in Gateway : h # g => recon'[h] = recon[h] /\ down'[h] = down[h],
           recon'[g].epochs \in Fenced(assignment, g),
           down'[g] \in Seq(FencedFrame(assignment, g))
    PROVE  FenceInv'
BY DEF FenceInv

\* A handler's step: it holds a fenced assignment set and sends it, or none.
LEMMA FenceHandler ==
    ASSUME FenceInv, Typed', UNCHANGED <<assignment, recon>>,
           NEW g \in Gateway, NEW c \in ConnEpoch,
           NEW h \in Handlers, handler' = [handler EXCEPT ![g][c] = h],
           h.epochs \in Fenced(assignment, g),
           \A k \in Gateway : k # g => down'[k] = down[k],
           down'[g] \in Seq(FencedFrame(assignment, g))
    PROVE  FenceInv'
<1>1. handler \in [Gateway -> [ConnEpoch -> Handlers]]
  BY DEF FenceInv, Typed, NetworkOK, NetworkTypeOK
<1>2. \A x \in Gateway, y \in ConnEpoch :
         handler'[x][y] = IF x = g /\ y = c THEN h ELSE handler[x][y]
  BY <1>1, CellReplaced
<1> QED BY <1>2 DEF FenceInv

\* The frames of a stream, and what is left of them.
LEMMA FramesAreFenced ==
    ASSUME FenceInv, NEW g \in Gateway
    PROVE  /\ down \in [Gateway -> Seq(DownFrame)]
           /\ recon \in [Gateway -> [rev: Nat, epochs: Epochs]]
           /\ down[g] \in Seq(FencedFrame(assignment, g))
           /\ <<>> \in Seq(FencedFrame(assignment, g))
           /\ down[g] # <<>> =>
                 /\ Head(down[g]).epochs \in Fenced(assignment, g)
                 /\ Tail(down[g]) \in Seq(FencedFrame(assignment, g))
<1>1. down[g] \in Seq(FencedFrame(assignment, g))
  BY DEF FenceInv
<1>2. down[g] # <<>> => /\ Head(down[g]) \in FencedFrame(assignment, g)
                        /\ Tail(down[g]) \in Seq(FencedFrame(assignment, g))
  BY <1>1
<1>3. /\ down \in [Gateway -> Seq(DownFrame)]
      /\ recon \in [Gateway -> [rev: Nat, epochs: Epochs]]
  BY DEF FenceInv, Typed, NetworkOK, NetworkTypeOK, GatewayOK, GatewayTypeOK
<1> QED BY <1>1, <1>2, <1>3 DEF FencedFrame

-----------------------------------------------------------------------------
(* Transactions.                                                           *)

\* A reassignment raises the epoch.
LEMMA FenceReassign ==
    ASSUME FenceInv, NEW s \in Session, NEW g \in Gateway, Reassign(s, g) PROVE FenceInv'
<1>1. Typed'
  BY TypedReassign DEF FenceInv
<1>2. assignment \in Tables
  BY DEF FenceInv, Typed, MySQLOK, MySQLTypeOK, Tables
<1>3. Follows(assignment, assignment')
  BY <1>2 DEF Follows, Reassign, Tables
<1> QED BY <1>1, <1>3, FenceTransaction DEF Reassign, process, network

\* A deletion leaves no owner.
LEMMA FenceDeleteSession ==
    ASSUME FenceInv, NEW s \in Session, DeleteSession(s) PROVE FenceInv'
<1>1. Typed'
  BY TypedDeleteSession DEF FenceInv
<1>2. assignment \in Tables
  BY DEF FenceInv, Typed, MySQLOK, MySQLTypeOK, Tables
<1>3. Follows(assignment, assignment')
  BY <1>2 DEF Follows, DeleteSession, Tables
<1> QED BY <1>1, <1>3, FenceTransaction DEF DeleteSession, process, network

\* Every other transaction, and every step that touches none of these.
LEMMA FenceOthers ==
    ASSUME FenceInv, Typed', UNCHANGED <<assignment, recon, down, handler>>
    PROVE  FenceInv'
BY FenceTransaction DEF Follows

-----------------------------------------------------------------------------
(* The gateway.                                                            *)

\* The leases run out: nothing is held.
LEMMA FenceExpire ==
    ASSUME FenceInv, NEW g \in Gateway, Expire(g) PROVE FenceInv'
<1>1. Typed'
  BY TypedExpire DEF FenceInv
<1>2. UNCHANGED <<assignment, handler, down>>
  BY DEF Expire, mysql, network
<1>3. recon'[g].epochs = NoEpochs /\ \A h \in Gateway : h # g => recon'[h] = recon[h]
  BY FramesAreFenced DEF Expire
<1> QED BY <1>1, <1>2, <1>3, FenceGateway, FramesAreFenced, ReadsAreFenced DEF FenceInv

\* A frame without effect on the assignments is taken.
LEMMA FenceTakesFrame ==
    ASSUME FenceInv, NEW g \in Gateway, ArmHeartbeat(g) \/ HandleEventAck(g)
    PROVE  FenceInv'
<1>1. Typed'
  BY TypedArmHeartbeat, TypedHandleEventAck DEF FenceInv
<1>2. /\ UNCHANGED <<assignment, handler, recon>> /\ down[g] # <<>>
      /\ down' = [down EXCEPT ![g] = Tail(@)]
  BY DEF ArmHeartbeat, HandleEventAck, Received, mysql
<1>3. down'[g] = Tail(down[g]) /\ \A h \in Gateway : h # g => down'[h] = down[h]
  BY <1>2, FramesAreFenced
<1> QED BY <1>1, <1>2, <1>3, FenceGateway, FramesAreFenced DEF FenceInv

\* The snapshot at the head of the stream is published.
LEMMA FenceBeginApply ==
    ASSUME FenceInv, NEW g \in Gateway, BeginApply(g) PROVE FenceInv'
<1>1. Typed'
  BY TypedBeginApply DEF FenceInv
<1>2. UNCHANGED <<assignment, handler, down>> /\ down[g] # <<>>
  BY DEF BeginApply, Received, mysql, network
<1>3. /\ recon'[g].epochs \in {recon[g].epochs, Head(down[g]).epochs}
      /\ \A h \in Gateway : h # g => recon'[h] = recon[h]
  BY FramesAreFenced DEF BeginApply
<1> QED BY <1>1, <1>2, <1>3, FenceGateway, FramesAreFenced DEF FenceInv

\* The snapshot is taken from the stream.
LEMMA FenceFinishApply ==
    ASSUME FenceInv, NEW g \in Gateway, FinishApply(g) PROVE FenceInv'
<1>1. Typed' /\ down[g] # <<>>
  BY TypedFinishApply DEF FenceInv, Typed, StreamShape, FinishApply
<1>2. UNCHANGED <<assignment, handler>> /\ down' = [down EXCEPT ![g] = Tail(@)]
  BY DEF FinishApply, mysql
<1>3. down'[g] = Tail(down[g]) /\ \A h \in Gateway : h # g => down'[h] = down[h]
  BY <1>2, FramesAreFenced
<1>4. /\ recon'[g].epochs = recon[g].epochs
      /\ \A h \in Gateway : h # g => recon'[h] = recon[h]
  BY FramesAreFenced DEF FinishApply
<1> QED BY <1>1, <1>2, <1>3, <1>4, FenceGateway, FramesAreFenced DEF FenceInv

\* The gateway leaves its stream and keeps its assignments or loses them.
LEMMA FenceLeaves ==
    ASSUME FenceInv, NEW g \in Gateway,
           FailApply(g) \/ StreamClosed(g) \/ StreamBreak(g) \/ Crash(g)
    PROVE  FenceInv'
<1>1. Typed'
  BY TypedFailApply, TypedStreamClosed, TypedStreamBreak, TypedCrash DEF FenceInv
<1>2. UNCHANGED <<assignment, handler>> /\ down' = [down EXCEPT ![g] = <<>>]
  BY DEF FailApply, StreamClosed, StreamBreak, Crash, LeaveStream, mysql
<1>3. down'[g] = <<>> /\ \A h \in Gateway : h # g => down'[h] = down[h]
  BY <1>2, FramesAreFenced
<1>4. /\ recon'[g].epochs \in {recon[g].epochs, NoEpochs}
      /\ \A h \in Gateway : h # g => recon'[h] = recon[h]
  BY FramesAreFenced DEF FailApply, StreamClosed, StreamBreak, Crash, NoRecon
<1> QED BY <1>1, <1>2, <1>3, <1>4, FenceGateway, FramesAreFenced, ReadsAreFenced
        DEF FenceInv

-----------------------------------------------------------------------------
(* The handlers.                                                           *)

\* A handler at a control point holds no assignments.
LEMMA FenceHandlerAt ==
    ASSUME FenceInv, NEW g \in Gateway, NEW c \in ConnEpoch, Typed',
           NEW h \in Handlers, h.epochs = NoEpochs,
           handler' = [handler EXCEPT ![g][c] = h],
           UNCHANGED <<assignment, recon>>,
           \A k \in Gateway : k # g => down'[k] = down[k],
           down'[g] \in Seq(FencedFrame(assignment, g))
    PROVE  FenceInv'
<1>1. h.epochs \in Fenced(assignment, g)
  BY ReadsAreFenced DEF FenceInv
<1> QED BY <1>1, FenceHandler

\* stream.Send of a fenced frame.
LEMMA FenceDeliver ==
    ASSUME FenceInv, NEW g \in Gateway, NEW c,
           NEW frame \in FencedFrame(assignment, g), Deliver(g, c, frame)
    PROVE  /\ \A k \in Gateway : k # g => down'[k] = down[k]
           /\ down'[g] \in Seq(FencedFrame(assignment, g))
<1>1. down'[g] \in {down[g], Append(down[g], frame)}
  BY FramesAreFenced DEF Deliver
<1>2. Append(down[g], frame) \in Seq(FencedFrame(assignment, g))
  BY FramesAreFenced
<1>3. \A k \in Gateway : k # g => down'[k] = down[k]
  BY FramesAreFenced DEF Deliver
<1> QED BY <1>1, <1>2, <1>3, FramesAreFenced

\* A handler that returns holds nothing.
LEMMA FenceCloses ==
    ASSUME FenceInv, NEW g \in Gateway, NEW c \in ConnEpoch, Typed', Close(g, c),
           UNCHANGED <<assignment, recon>>
    PROVE  FenceInv'
<1>1. HandlerAt("closed") \in Handlers /\ HandlerAt("closed").epochs = NoEpochs
  BY ReadsAreFenced DEF HandlerAt, Handlers, FenceInv
<1> QED BY <1>1, FenceHandlerAt, FramesAreFenced DEF Close

\* So does the handler of a new connection.
LEMMA FenceAccept ==
    ASSUME FenceInv, NEW g \in Gateway, Connect(g) \/ ProveCurrentConnection(g)
    PROVE  FenceInv'
<1>1. Typed'
  BY TypedConnect, TypedProveCurrentConnection DEF FenceInv
<1>2. connEpoch[g] + 1 \in ConnEpoch
  BY ConstantsAssumption
     DEF Connect, ProveCurrentConnection, FenceInv, Typed, MySQLOK, MySQLTypeOK, ConnEpoch
<1>3. PICK pc \in {"accepted", "closed"} : AcceptConnection(g, pc)
  BY DEF Connect, ProveCurrentConnection
<1>4. HandlerAt(pc) \in Handlers /\ HandlerAt(pc).epochs = NoEpochs
  BY ReadsAreFenced DEF HandlerAt, Handlers, FenceInv
<1>5. UNCHANGED <<recon, down>>
  BY DEF Connect, ProveCurrentConnection, process
<1>6. /\ UNCHANGED assignment
      /\ handler' = [handler EXCEPT ![g][connEpoch[g] + 1] = HandlerAt(pc)]
  BY <1>3 DEF AcceptConnection
<1> QED BY <1>1, <1>2, <1>4, <1>5, <1>6, FenceHandlerAt, FramesAreFenced

\* A push starts with a revision and no assignments.
LEMMA FenceStartPush ==
    ASSUME FenceInv, NEW g \in Gateway, NEW c \in ConnEpoch, Typed', NEW rest,
           StartPush(g, c, rest), UNCHANGED <<assignment, recon>>
    PROVE  FenceInv'
<1> DEFINE h == [HandlerAt("list") EXCEPT !.rev = revision[g]]
<1>1. CASE ~(connEpoch[g] = c)
  BY <1>1, FenceCloses DEF StartPush
<1>2. CASE connEpoch[g] = c
  <2>1. revision[g] \in Nat
    BY DEF FenceInv, Typed, MySQLOK, MySQLTypeOK
  <2>2. h \in Handlers /\ h.epochs = NoEpochs
    BY <2>1, ReadsAreFenced DEF HandlerAt, Handlers, FenceInv
  <2>3. Armed \in FencedFrame(assignment, g)
    BY ReadsAreFenced DEF Armed, FencedFrame, DownFrame, FenceInv
  <2>4. handler' = [handler EXCEPT ![g][c] = h] /\ Deliver(g, c, Armed)
    BY <1>2 DEF StartPush
  <2> HIDE DEF h
  <2> QED BY <2>2, <2>3, <2>4, FenceDeliver, FenceHandlerAt
<1> QED BY <1>1, <1>2

\* The handler reads the gateway's assignments, which are current.
LEMMA FenceListAssignments ==
    ASSUME FenceInv, NEW g \in Gateway, NEW c \in ConnEpoch, ListAssignments(g, c)
    PROVE  FenceInv'
<1> DEFINE E == IF revision[g] = handler[g][c].rev /\ connEpoch[g] = c
                THEN Assigned(g) ELSE NoEpochs
           h == [handler[g][c] EXCEPT !.pc = "recheck", !.epochs = E]
<1>1. Typed'
  BY TypedListAssignments DEF FenceInv
<1>2. E \in Fenced(assignment, g) /\ E \in Epochs
  BY ReadsAreFenced DEF FenceInv
<1>3. handler' = [handler EXCEPT ![g][c] = h] /\ UNCHANGED <<assignment, recon, down>>
  BY DEF ListAssignments, mysql, process
<1> HIDE DEF E
<1>4. handler[g][c] \in Handlers
  BY DEF FenceInv, Typed, NetworkOK, NetworkTypeOK
<1>5. h \in Handlers /\ h.epochs = E
  BY <1>2, <1>4 DEF Handlers
<1> HIDE DEF h
<1> QED BY <1>1, <1>2, <1>3, <1>5, FenceHandler, FramesAreFenced

\* What it read goes out, fenced if no longer current.
LEMMA FencePushDesiredState ==
    ASSUME FenceInv, NEW g \in Gateway, NEW c \in ConnEpoch, PushDesiredState(g, c)
    PROVE  FenceInv'
<1> DEFINE h == handler[g][c]
           frame == Snapshot(h.rev, h.epochs)
<1>1. Typed' /\ UNCHANGED <<assignment, recon>>
  BY TypedPushDesiredState DEF FenceInv, PushDesiredState, mysql, process
<1>2. CASE Close(g, c)
  BY <1>1, <1>2, FenceCloses
<1>3. CASE Deliver(g, c, frame) /\ handler' = [handler EXCEPT ![g][c] = HandlerAt("idle")]
  <2>1. h.rev \in Nat /\ h.epochs \in Epochs /\ h.epochs \in Fenced(assignment, g)
    BY DEF FenceInv, Typed, NetworkOK, NetworkTypeOK, Handlers
  <2>2. frame \in FencedFrame(assignment, g)
    BY <2>1 DEF Snapshot, FencedFrame, DownFrame
  <2>3. HandlerAt("idle") \in Handlers /\ HandlerAt("idle").epochs = NoEpochs
    BY ReadsAreFenced DEF HandlerAt, Handlers, FenceInv
  <2> HIDE DEF frame
  <2> QED BY <1>1, <1>3, <2>2, <2>3, FenceDeliver, FenceHandlerAt
<1> QED BY <1>2, <1>3 DEF PushDesiredState

\* A batch is taken.
LEMMA FenceIngestFence ==
    ASSUME FenceInv, NEW g \in Gateway, NEW c \in ConnEpoch, IngestFence(g, c)
    PROVE  FenceInv'
<1> DEFINE batch == Head(up[g][c]).batch
           h == [HandlerAt("ingest") EXCEPT !.batch = batch]
<1>1. Typed' /\ UNCHANGED <<assignment, recon>>
  BY TypedIngestFence DEF FenceInv, IngestFence, mysql, process
<1>2. CASE Close(g, c)
  BY <1>1, <1>2, FenceCloses
<1>3. CASE handler' = [handler EXCEPT ![g][c] = h] /\ UNCHANGED down
  <2>1. up[g][c] \in Seq(UpFrame) /\ up[g][c] # <<>>
    BY DEF FenceInv, Typed, NetworkOK, NetworkTypeOK, IngestFence, Taken
  <2>2. Head(up[g][c]) \in UpFrame
    BY <2>1
  <2>3. batch \in SUBSET Row
    BY <2>2 DEF UpFrame
  <2>4. h \in Handlers /\ h.epochs = NoEpochs
    BY <2>3, ReadsAreFenced DEF HandlerAt, Handlers, FenceInv
  <2> HIDE DEF h
  <2> QED BY <1>1, <1>3, <2>4, FenceHandlerAt, FramesAreFenced
<1> QED BY <1>2, <1>3 DEF IngestFence

\* A batch is acknowledged.
LEMMA FenceIngestCommit ==
    ASSUME FenceInv, NEW g \in Gateway, NEW c \in ConnEpoch, IngestCommit(g, c)
    PROVE  FenceInv'
<1> DEFINE frame == EventAck(LastSeq(handler[g][c].batch))
<1>1. Typed' /\ UNCHANGED <<assignment, recon>>
  BY TypedIngestCommit DEF FenceInv, IngestCommit, process
<1>2. CASE Close(g, c)
  BY <1>1, <1>2, FenceCloses
<1>3. CASE Deliver(g, c, frame) /\ handler' = [handler EXCEPT ![g][c] = HandlerAt("idle")]
  <2>1. LastSeq(handler[g][c].batch) \in Nat
    <3> DEFINE batch == handler[g][c].batch
    <3>1. /\ batch \in SUBSET Row /\ IsFiniteSet(batch) /\ batch # {}
          /\ \A r \in batch : r.seq < journal[g].next
      BY DEF FenceInv, Typed, NetworkOK, HandlerShape, Batches, IngestCommit
    <3>2. journal[g].next \in Nat
      BY DEF FenceInv, Typed, GatewayOK, GatewayTypeOK, Journals
    <3>3. \A r \in batch : r.seq \in Nat
      BY <3>1 DEF Row
    <3> HIDE DEF batch
    <3>4. LastSeq(batch) \in Nat
      BY <3>1, <3>2, <3>3, LastSeqIsNewest
    <3> QED BY <3>4 DEF batch
  <2>2. frame \in FencedFrame(assignment, g)
    BY <2>1, ReadsAreFenced DEF EventAck, FencedFrame, DownFrame, FenceInv
  <2>3. HandlerAt("idle") \in Handlers /\ HandlerAt("idle").epochs = NoEpochs
    BY ReadsAreFenced DEF HandlerAt, Handlers, FenceInv
  <2> HIDE DEF frame
  <2> QED BY <1>1, <1>3, <2>2, <2>3, FenceDeliver, FenceHandlerAt
<1> QED BY <1>2, <1>3 DEF IngestCommit

-----------------------------------------------------------------------------
\* Every step keeps what is held, read and on its way fenced.
LEMMA FenceStep == FenceInv /\ [Next]_vars => FenceInv'
<1> SUFFICES ASSUME FenceInv, [Next]_vars PROVE FenceInv'
    OBVIOUS
<1>t. Typed'
  BY TypedStep DEF FenceInv
<1> DEFINE kept == UNCHANGED <<assignment, recon, down, handler>>
<1>1. ASSUME NEW g \in Gateway, SupervisorStep(g) PROVE FenceInv'
  <2>1. CASE SendHeartbeat(g)
    BY <1>t, <2>1, FenceOthers DEF SendHeartbeat, mysql
  <2> QED BY <1>1, <2>1, FenceAccept, FenceTakesFrame, FenceBeginApply, FenceFinishApply,
             FenceLeaves DEF SupervisorStep
<1>2. ASSUME NEW g \in Gateway, NEW c \in ConnEpoch, HandlerStep(g, c) PROVE FenceInv'
  <2>1. CASE HandleHello(g, c)
    BY <1>t, <2>1, FenceStartPush DEF HandleHello, mysql, process
  <2>2. CASE HandleHeartbeat(g, c)
    BY <1>t, <2>2, FenceStartPush DEF HandleHeartbeat, mysql, process
  <2>3. CASE PersistReport(g, c)
    BY <1>t, <2>3, FenceCloses, FenceOthers DEF PersistReport, mysql, process
  <2>4. CASE HandlerReturns(g, c)
    BY <1>t, <2>4, FenceCloses DEF HandlerReturns, mysql, process
  <2> QED BY <1>2, <2>1, <2>2, <2>3, <2>4, FenceListAssignments, FencePushDesiredState,
             FenceIngestFence, FenceIngestCommit DEF HandlerStep
<1>3. ASSUME NEW g \in Gateway, NEW c \in ConnEpoch, HandlerFails(g, c) PROVE FenceInv'
  BY <1>t, <1>3, FenceCloses DEF HandlerFails, mysql, process
<1>4. ASSUME NEW g \in Gateway, SinkStep(g) PROVE kept
  BY <1>4 DEF SinkStep, AppendEvent, mysql, network
<1>5. ASSUME NEW g \in Gateway, NEW id \in EventId, Label(g, id) PROVE kept
  BY <1>5 DEF Label, mysql, network
<1>6. ASSUME NEW s \in Session, UpdateConfig(s) PROVE kept
  BY <1>6 DEF UpdateConfig, process, network
<1>7. ASSUME NEW m \in Message, AppendOwnSentOnce(m) PROVE kept
  BY <1>7 DEF AppendOwnSentOnce, process, network
<1>8. CASE UNCHANGED vars
  BY <1>t, <1>8, FenceOthers DEF vars, mysql, process, network
<1>9. CASE kept
  BY <1>t, <1>9, FenceOthers
<1> HIDE DEF kept
<1> QED BY <1>1, <1>2, <1>3, <1>4, <1>5, <1>6, <1>7, <1>8, <1>9, FenceReassign,
           FenceDeleteSession, FenceExpire, FenceAccept, FenceLeaves DEF Next

\* A gateway that holds a session under the epoch MySQL has for it is its owner,
\* however late its snapshots are and however long its leases (Reassign waits
\* for neither), so the ingest fence refuses every other holder.
THEOREM OnlyTheOwnerIsCurrent == Spec => []HoldersAreFenced
<1>1. FenceInv => HoldersAreFenced
  <2> SUFFICES ASSUME FenceInv, NEW g \in Gateway, NEW s \in Session,
                      recon[g].epochs[s] # 0
               PROVE  \/ recon[g].epochs[s] < assignment[s].epoch
                      \/ Deleted(s) \/ Owns(g, s, recon[g].epochs[s])
      BY DEF HoldersAreFenced
  <2>1. FencedAt(assignment, g, s, recon[g].epochs[s])
      BY DEF FenceInv, Fenced
  <2>2. assignment[s] = [gw |-> assignment[s].gw, epoch |-> assignment[s].epoch]
      BY DEF FenceInv, Typed, MySQLOK, MySQLTypeOK
  <2> QED BY <2>1, <2>2 DEF FencedAt, Deleted, Owns
<1> QED BY <1>1, FenceInit, FenceStep, PTL DEF Spec

-----------------------------------------------------------------------------
(***************************************************************************)
(* How a step may change the journal, the frames of a stream and the batch *)
(* a handler holds.  The proofs below go by these moves instead of the     *)
(* actions where an action's other effects do not matter.                  *)
(***************************************************************************)

\* Frames without rows.
Plain == {f \in UpFrame : f.batch = {}}

\* The gateway replays journal j, which an acknowledgement may have shortened,
\* and retires what it finds superseded.
Replays(g, j) ==
    /\ Ready(g) /\ journal'[g] = RetireUnowned(g, j)
    /\ \/ j = journal[g] /\ SendHeartbeat(g)
       \/ j = AckThrough(journal[g], Head(down[g]).seq) /\ HandleEventAck(g)

JournalMoves(g) ==
    \/ journal'[g] = journal[g]
    \/ \E e \in sink[g] : AppendEvent(g, e)
    \/ \E j \in Journals : Replays(g, j)

DownMoves(g) ==
    \/ down'[g] \in {down[g], <<>>, Append(down[g], Armed)}
    \/ down[g] # <<>> /\ down'[g] = Tail(down[g])
    \/ \E c \in ConnEpoch :
          \/ /\ IngestCommit(g, c)
             /\ ledger' = ledger \union {r.id : r \in LedgerInserts(handler[g][c].batch)}
             /\ down'[g] = Append(down[g], EventAck(LastSeq(handler[g][c].batch)))
          \/ /\ PushDesiredState(g, c)
             /\ revision[g] = handler[g][c].rev /\ connEpoch[g] = c
             /\ down'[g] = Append(down[g], Snapshot(handler[g][c].rev, handler[g][c].epochs))

UpMoves(g, c) ==
    \/ up'[g][c] \in {up[g][c], <<>>}
    \/ up[g][c] # <<>> /\ up'[g][c] = Tail(up[g][c])
    \/ \E frames \in Seq(Plain) : up'[g][c] = up[g][c] \o frames
    \/ \E j \in Journals, before \in Seq(Plain) :
          /\ Replays(g, j)
          /\ up'[g][c] = up[g][c] \o Append(before, EventBatch(NextEventBatch(g, j)))

BatchMoves(g, c) ==
    \/ handler'[g][c].batch \in {handler[g][c].batch, {}}
    \/ /\ up[g][c] # <<>> /\ handler'[g][c].batch = Head(up[g][c]).batch
       /\ \A r \in Head(up[g][c]).batch : Owns(g, SessionOf[r.id], r.epoch)

Moves ==
    \A g \in Gateway : /\ JournalMoves(g) /\ DownMoves(g)
                       /\ \A c \in ConnEpoch : UpMoves(g, c) /\ BatchMoves(g, c)

\* Steps that touch none of these.
LEMMA MovesNot == UNCHANGED <<journal, network>> => Moves
BY DEF Moves, JournalMoves, DownMoves, UpMoves, BatchMoves, network

\* The frames sent over a stream.
LEMMA MovesSent ==
    ASSUME Typed, NEW g \in Gateway, stream[g].epoch # 0, NEW frames \in Seq(UpFrame),
           Sent(g, frames)
    PROVE  \A x \in Gateway, y \in ConnEpoch :
              \/ up'[x][y] = up[x][y]
              \/ x = g /\ up'[x][y] = up[x][y] \o frames
<1> DEFINE c == stream[g].epoch
           u == IF Open(g, c) THEN up[g][c] \o frames ELSE up[g][c]
<1>1. up \in [Gateway -> [ConnEpoch -> Seq(UpFrame)]]
  BY DEF Typed, NetworkOK, NetworkTypeOK
<1>2. c \in ConnEpoch
  BY ProcessTypes, ConstantsAssumption DEF Streams, ConnEpoch
<1>3. u \in Seq(UpFrame) /\ u \in {up[g][c], up[g][c] \o frames}
  BY <1>1, <1>2
<1>4. up' = [up EXCEPT ![g][c] = u]
  BY DEF Sent
<1> HIDE DEF u, c
<1>5. \A x \in Gateway, y \in ConnEpoch :
         up'[x][y] = IF x = g /\ y = c THEN u ELSE up[x][y]
  BY <1>1, <1>2, <1>3, <1>4, CellReplaced
<1> QED BY <1>3, <1>5

\* Frames without rows, or none.
LEMMA MovesPlain ==
    ASSUME NEW g, NEW c, NEW frames \in Seq(Plain),
           up'[g][c] = up[g][c] \/ up'[g][c] = up[g][c] \o frames
    PROVE  UpMoves(g, c)
BY Zenon DEF UpMoves

\* Replay: sendEventBatch on journal j.
LEMMA MovesReplay ==
    ASSUME Typed, NEW g \in Gateway, NEW j \in Journals, WellFormed(j),
           Replays(g, j), UNCHANGED handler,
           NEW armed, NEW before \in Seq(Plain), SendBatch(g, j, armed, before),
           \A h \in Gateway : DownMoves(h)
    PROVE  Moves
<1> DEFINE batch == NextEventBatch(g, j)
           frames == IF batch = {} THEN before ELSE Append(before, EventBatch(batch))
<1>1. batch \in SUBSET Row
  BY BatchIsFromJournal
<1>2. EventBatch(batch) \in UpFrame /\ before \in Seq(UpFrame)
  <2> HIDE DEF batch
  <2>1. EventBatch(batch) \in UpFrame
    BY <1>1 DEF EventBatch, UpFrame
  <2>2. Plain \subseteq UpFrame
    BY DEF Plain
  <2> QED BY <2>1, <2>2
<1>3. Append(before, EventBatch(batch)) \in Seq(UpFrame) /\ before \in Seq(UpFrame)
  BY <1>2
<1>4. Sent(g, frames) /\ stream[g].epoch # 0
  BY DEF SendBatch, Replays, Ready
<1>5. frames \in {before, Append(before, EventBatch(batch))}
  OBVIOUS
<1> HIDE DEF frames
<1>a. \A x \in Gateway, y \in ConnEpoch :
         \/ up'[x][y] = up[x][y]
         \/ x = g /\ up'[x][y] = up[x][y] \o frames
  BY <1>3, <1>4, <1>5, MovesSent
<1>6. \A x \in Gateway, y \in ConnEpoch : UpMoves(x, y)
  BY <1>a, <1>5 DEF UpMoves
<1>7. \A h \in Gateway : JournalMoves(h)
  <2>1. \A h \in Gateway : h # g => journal'[h] = journal[h]
    BY DEF Typed, GatewayOK, GatewayTypeOK, SendBatch
  <2>2. JournalMoves(g)
    BY DEF JournalMoves
  <2> QED BY <2>1, <2>2 DEF JournalMoves
<1> QED BY <1>6, <1>7 DEF Moves, BatchMoves

\* SendHeartbeat replays the journal as it is.
LEMMA MovesSendHeartbeat ==
    ASSUME Typed, NEW g \in Gateway, SendHeartbeat(g) PROVE Moves
<1>1. /\ journal \in [Gateway -> Journals] /\ WellFormed(journal[g])
  BY DEF Typed, GatewayOK, GatewayTypeOK, JournalShape
<1>2. UNCHANGED <<down, handler>> /\ \A h \in Gateway : DownMoves(h)
  BY DEF SendHeartbeat, DownMoves
<1>3. Heartbeat \in Plain /\ <<Heartbeat>> \in Seq(Plain) /\ <<Heartbeat>> \in Seq(UpFrame)
  BY DEF Heartbeat, Plain, UpFrame
<1>4. CASE SendBatch(g, journal[g], FALSE, <<Heartbeat>>)
  <2>1. Replays(g, journal[g])
    BY <1>1, <1>4 DEF Replays, SendHeartbeat, SendBatch
  <2> QED BY <1>1, <1>2, <1>3, <1>4, <2>1, MovesReplay
<1>5. CASE Sent(g, <<Heartbeat>>) /\ UNCHANGED journal
  <2> DEFINE frames == <<Heartbeat>>
  <2>0. stream[g].epoch # 0 /\ Sent(g, frames) /\ frames \in Seq(UpFrame) /\ frames \in Seq(Plain)
    BY <1>3, <1>5 DEF SendHeartbeat, Ready
  <2> HIDE DEF frames
  <2>1. \A x \in Gateway, y \in ConnEpoch : UpMoves(x, y)
    BY <2>0, MovesSent, MovesPlain
  <2> QED BY <1>2, <1>5, <2>1 DEF Moves, JournalMoves, BatchMoves
<1> QED BY <1>4, <1>5 DEF SendHeartbeat

\* HandleEventAck replays what it left.
LEMMA MovesHandleEventAck ==
    ASSUME Typed, NEW g \in Gateway, HandleEventAck(g) PROVE Moves
<1> DEFINE j == AckThrough(journal[g], Head(down[g]).seq)
<1>1. /\ journal \in [Gateway -> Journals] /\ WellFormed(journal[g])
      /\ down \in [Gateway -> Seq(DownFrame)]
  BY DEF Typed, GatewayOK, GatewayTypeOK, JournalShape, NetworkOK, NetworkTypeOK
<1>2. Ready(g) /\ down[g] # <<>> /\ UNCHANGED handler
  BY DEF HandleEventAck, Received
<1>3. Head(down[g]).seq \in Nat
  BY <1>2, HeadTyped DEF DownFrame
<1>4. j \in Journals /\ WellFormed(j)
  BY <1>1, <1>3, AckKeepsJournal
<1>5. SendBatch(g, j, stream[g].armed, <<>>) /\ down' = [down EXCEPT ![g] = Tail(@)]
  BY DEF HandleEventAck
<1>6. Replays(g, j)
  BY <1>1, <1>2, <1>5 DEF Replays, SendBatch
<1>7. \A h \in Gateway : DownMoves(h)
  BY <1>1, <1>2, <1>5 DEF DownMoves
<1> HIDE DEF j
<1>8. <<>> \in Seq(Plain)
  OBVIOUS
<1> QED BY <1>2, <1>4, <1>5, <1>6, <1>7, <1>8, MovesReplay

\* FinishApply only takes the snapshot off the stream.
LEMMA MovesFinishApply ==
    ASSUME Typed, NEW g \in Gateway, FinishApply(g) PROVE Moves
<1>1. stream[g].epoch # 0 /\ down[g] # <<>> /\ down \in [Gateway -> Seq(DownFrame)]
  BY DEF Typed, StreamShape, FinishApply, NetworkOK, NetworkTypeOK
<1>2. Head(down[g]).rev \in Nat
  BY <1>1, HeadTyped
<1>3. Report(Head(down[g]).rev) \in Plain
  BY <1>2 DEF Report, Plain, UpFrame
<1>4. <<Report(Head(down[g]).rev)>> \in Seq(Plain) /\ <<Report(Head(down[g]).rev)>> \in Seq(UpFrame)
  BY <1>3 DEF Plain
<1>5. /\ Sent(g, <<Report(Head(down[g]).rev)>>) /\ UNCHANGED <<journal, handler>>
      /\ down' = [down EXCEPT ![g] = Tail(@)]
  BY DEF FinishApply
<1> DEFINE frames == <<Report(Head(down[g]).rev)>>
<1>f. Sent(g, frames) /\ frames \in Seq(UpFrame) /\ frames \in Seq(Plain)
  BY <1>4, <1>5
<1> HIDE DEF frames
<1>6. \A x \in Gateway, y \in ConnEpoch : UpMoves(x, y)
  BY <1>1, <1>f, MovesSent, MovesPlain
<1>7. \A h \in Gateway : DownMoves(h)
  BY <1>1, <1>5 DEF DownMoves
<1> QED BY <1>5, <1>6, <1>7 DEF Moves, JournalMoves, BatchMoves

\* The gateway takes a frame or leaves its stream.
LEMMA MovesTakes ==
    ASSUME Typed, NEW g \in Gateway,
           \/ ArmHeartbeat(g) \/ FailApply(g) \/ StreamClosed(g)
           \/ StreamBreak(g) \/ Crash(g)
    PROVE  Moves
<1>1. UNCHANGED <<journal, up, handler>>
  BY DEF ArmHeartbeat, FailApply, StreamClosed, StreamBreak, Crash
<1>2. \/ down[g] # <<>> /\ down' = [down EXCEPT ![g] = Tail(@)]
      \/ down' = [down EXCEPT ![g] = <<>>]
  BY DEF ArmHeartbeat, FailApply, StreamClosed, StreamBreak, Crash, Received, LeaveStream
<1>3. down \in [Gateway -> Seq(DownFrame)]
  BY DEF Typed, NetworkOK, NetworkTypeOK
<1>4. \A h \in Gateway : DownMoves(h)
  BY <1>2, <1>3 DEF DownMoves
<1> QED BY <1>1, <1>4 DEF Moves, JournalMoves, UpMoves, BatchMoves

\* A handler's step.
LEMMA MovesHandler ==
    ASSUME Typed, UNCHANGED journal, NEW g \in Gateway, NEW c \in ConnEpoch,
           NEW h \in Handlers, handler' = [handler EXCEPT ![g][c] = h],
           \/ h.batch \in {handler[g][c].batch, {}}
           \/ /\ up[g][c] # <<>> /\ h.batch = Head(up[g][c]).batch
              /\ \A r \in Head(up[g][c]).batch : Owns(g, SessionOf[r.id], r.epoch),
           \/ UNCHANGED up
           \/ up' = [up EXCEPT ![g][c] = <<>>]
           \/ up[g][c] # <<>> /\ up' = [up EXCEPT ![g][c] = Tail(@)],
           \A k \in Gateway : DownMoves(k)
    PROVE  Moves
<1>1. /\ handler \in [Gateway -> [ConnEpoch -> Handlers]]
      /\ up \in [Gateway -> [ConnEpoch -> Seq(UpFrame)]]
  BY DEF Typed, NetworkOK, NetworkTypeOK
<1>2. \A x \in Gateway, y \in ConnEpoch :
         handler'[x][y] = IF x = g /\ y = c THEN h ELSE handler[x][y]
  BY <1>1, CellReplaced
<1>3. \A x \in Gateway, y \in ConnEpoch : BatchMoves(x, y)
  BY <1>2 DEF BatchMoves
<1>4. \A x \in Gateway, y \in ConnEpoch : UpMoves(x, y)
  <2> SUFFICES ASSUME NEW x \in Gateway, NEW y \in ConnEpoch
               PROVE  \/ up'[x][y] \in {up[x][y], <<>>}
                      \/ up[x][y] # <<>> /\ up'[x][y] = Tail(up[x][y])
      BY DEF UpMoves
  <2>1. CASE UNCHANGED up
    BY <2>1
  <2>2. CASE up' = [up EXCEPT ![g][c] = <<>>]
    <3>1. <<>> \in Seq(UpFrame)
      OBVIOUS
    <3>2. up'[x][y] = IF x = g /\ y = c THEN <<>> ELSE up[x][y]
      BY <1>1, <2>2, <3>1, CellReplaced
    <3> QED BY <3>2
  <2>3. CASE up[g][c] # <<>> /\ up' = [up EXCEPT ![g][c] = Tail(@)]
    <3> DEFINE rest == Tail(up[g][c])
    <3>1. rest \in Seq(UpFrame)
      BY <1>1, <2>3
    <3>2. up' = [up EXCEPT ![g][c] = rest]
      BY <2>3
    <3> HIDE DEF rest
    <3>3. up'[x][y] = IF x = g /\ y = c THEN rest ELSE up[x][y]
      BY <1>1, <3>1, <3>2, CellReplaced
    <3> QED BY <2>3, <3>3 DEF rest
  <2> QED BY <2>1, <2>2, <2>3
<1> QED BY <1>3, <1>4 DEF Moves, JournalMoves

\* A handler sends nothing.
LEMMA MovesSilent == UNCHANGED down => \A k \in Gateway : DownMoves(k)
BY DEF DownMoves

\* A cut drops the frames of a stream.
LEMMA MovesCloses ==
    ASSUME Typed, UNCHANGED journal, NEW g \in Gateway, NEW c \in ConnEpoch, Close(g, c)
    PROVE  Moves
<1>1. HandlerAt("closed") \in Handlers /\ HandlerAt("closed").batch = {}
  BY ProcessTypes DEF HandlerAt, Handlers
<1> QED BY <1>1, MovesHandler, MovesSilent DEF Close

\* stream.Send of a frame.
LEMMA MovesDeliver ==
    ASSUME Typed, NEW g \in Gateway, NEW c, NEW frame, Deliver(g, c, frame)
    PROVE  \A k \in Gateway : \/ down'[k] = down[k]
                              \/ k = g /\ down'[k] = Append(down[k], frame)
<1>1. down \in [Gateway -> Seq(DownFrame)]
  BY DEF Typed, NetworkOK, NetworkTypeOK
<1> QED BY <1>1 DEF Deliver

\* StartPush takes a frame without rows.
LEMMA MovesStartPush ==
    ASSUME Typed, UNCHANGED journal, NEW g \in Gateway, NEW c \in ConnEpoch, NEW rest,
           StartPush(g, c, rest),
           rest = up[g][c] \/ (up[g][c] # <<>> /\ rest = Tail(up[g][c]))
    PROVE  Moves
<1> DEFINE h == [HandlerAt("list") EXCEPT !.rev = revision[g]]
<1>1. CASE ~(connEpoch[g] = c)
  BY <1>1, MovesCloses DEF StartPush
<1>2. CASE connEpoch[g] = c
  <2>1. revision[g] \in Nat
    BY DEF Typed, MySQLOK, MySQLTypeOK
  <2>2. h \in Handlers /\ h.batch = {}
    BY <2>1, ProcessTypes DEF HandlerAt, Handlers
  <2>3. /\ handler' = [handler EXCEPT ![g][c] = h] /\ Deliver(g, c, Armed)
        /\ up' = [up EXCEPT ![g][c] = rest]
    BY <1>2 DEF StartPush
  <2>4. \A k \in Gateway : DownMoves(k)
    BY <2>3, MovesDeliver DEF DownMoves
  <2>5. \/ UNCHANGED up
        \/ up[g][c] # <<>> /\ up' = [up EXCEPT ![g][c] = Tail(@)]
    BY <2>3 DEF Typed, NetworkOK, NetworkTypeOK
  <2> HIDE DEF h
  <2> QED BY <2>2, <2>3, <2>4, <2>5, MovesHandler
<1> QED BY <1>1, <1>2

\* A new connection starts with empty frames.
LEMMA MovesAccept ==
    ASSUME Typed, NEW g \in Gateway, Connect(g) \/ ProveCurrentConnection(g)
    PROVE  Moves
<1>2. connEpoch[g] + 1 \in ConnEpoch
  BY ConstantsAssumption
     DEF Connect, ProveCurrentConnection, Typed, MySQLOK, MySQLTypeOK, ConnEpoch
<1>3. PICK pc \in {"accepted", "closed"} : AcceptConnection(g, pc)
  BY DEF Connect, ProveCurrentConnection
<1>4. HandlerAt(pc) \in Handlers /\ HandlerAt(pc).batch = {}
  BY ProcessTypes DEF HandlerAt, Handlers
<1>5. UNCHANGED <<journal, up, down>>
  BY DEF Connect, ProveCurrentConnection
<1>6. handler' = [handler EXCEPT ![g][connEpoch[g] + 1] = HandlerAt(pc)]
  BY <1>3 DEF AcceptConnection
<1> QED BY <1>2, <1>4, <1>5, <1>6, MovesHandler, MovesSilent

\* ListAssignments moves no frame.
LEMMA MovesListAssignments ==
    ASSUME Typed, NEW g \in Gateway, NEW c \in ConnEpoch, ListAssignments(g, c)
    PROVE  Moves
<1> DEFINE E == IF revision[g] = handler[g][c].rev /\ connEpoch[g] = c
                THEN Assigned(g) ELSE NoEpochs
           h == [handler[g][c] EXCEPT !.pc = "recheck", !.epochs = E]
<1>1. E \in Epochs
  BY ReadsAreFenced
<1>2. handler' = [handler EXCEPT ![g][c] = h] /\ UNCHANGED <<journal, up, down>>
  BY DEF ListAssignments
<1> HIDE DEF E
<1>3. handler[g][c] \in Handlers
  BY DEF Typed, NetworkOK, NetworkTypeOK
<1>4. h \in Handlers /\ h.batch = handler[g][c].batch
  BY <1>1, <1>3 DEF Handlers
<1> HIDE DEF h
<1> QED BY <1>2, <1>4, MovesHandler, MovesSilent

\* PushDesiredState adds a snapshot.
LEMMA MovesPushDesiredState ==
    ASSUME Typed, NEW g \in Gateway, NEW c \in ConnEpoch, PushDesiredState(g, c)
    PROVE  Moves
<1> DEFINE h == handler[g][c]
           frame == Snapshot(h.rev, h.epochs)
<1>1. UNCHANGED journal
  BY DEF PushDesiredState
<1>2. CASE Close(g, c)
  BY <1>1, <1>2, MovesCloses
<1>3. CASE /\ revision[g] = h.rev /\ connEpoch[g] = c
           /\ Deliver(g, c, frame) /\ handler' = [handler EXCEPT ![g][c] = HandlerAt("idle")]
           /\ UNCHANGED up
  <2>1. HandlerAt("idle") \in Handlers /\ HandlerAt("idle").batch = {}
    BY ProcessTypes DEF HandlerAt, Handlers
  <2>2. \A k \in Gateway : DownMoves(k)
    BY <1>3, MovesDeliver DEF DownMoves
  <2> QED BY <1>1, <1>3, <2>1, <2>2, MovesHandler
<1> QED BY <1>2, <1>3 DEF PushDesiredState

\* IngestFence takes a batch off the stream.
LEMMA MovesIngestFence ==
    ASSUME Typed, NEW g \in Gateway, NEW c \in ConnEpoch, IngestFence(g, c)
    PROVE  Moves
<1> DEFINE batch == Head(up[g][c]).batch
           h == [HandlerAt("ingest") EXCEPT !.batch = batch]
<1>1. UNCHANGED journal /\ up[g][c] # <<>>
  BY DEF IngestFence, Taken
<1>2. CASE Close(g, c)
  BY <1>1, <1>2, MovesCloses
<1>3. CASE /\ handler' = [handler EXCEPT ![g][c] = h] /\ UNCHANGED down
           /\ up' = [up EXCEPT ![g][c] = Tail(@)]
           /\ \A r \in batch : Owns(g, SessionOf[r.id], r.epoch)
  <2>1. batch \in SUBSET Row
    BY <1>1, HandlerTypes DEF Frames, UpFrame
  <2>2. h \in Handlers /\ h.batch = batch
    BY <2>1, ProcessTypes DEF HandlerAt, Handlers
  <2> HIDE DEF h
  <2> QED BY <1>1, <1>3, <2>2, MovesHandler, MovesSilent
<1> QED BY <1>2, <1>3 DEF IngestFence

\* IngestCommit answers a batch with its acknowledgement.
LEMMA MovesIngestCommit ==
    ASSUME Typed, NEW g \in Gateway, NEW c \in ConnEpoch, IngestCommit(g, c)
    PROVE  Moves
<1> DEFINE batch == handler[g][c].batch
<1>1. UNCHANGED journal
  BY DEF IngestCommit
<1>2. CASE Close(g, c)
  BY <1>1, <1>2, MovesCloses
<1>3. CASE /\ ledger' = ledger \union {r.id : r \in LedgerInserts(batch)}
           /\ Deliver(g, c, EventAck(LastSeq(batch)))
           /\ handler' = [handler EXCEPT ![g][c] = HandlerAt("idle")]
           /\ UNCHANGED up
  <2>1. HandlerAt("idle") \in Handlers /\ HandlerAt("idle").batch = {}
    BY ProcessTypes DEF HandlerAt, Handlers
  <2>2. \A k \in Gateway : DownMoves(k)
    BY <1>3, MovesDeliver DEF DownMoves
  <2> QED BY <1>1, <1>3, <2>1, <2>2, MovesHandler
<1> QED BY <1>2, <1>3 DEF IngestCommit

\* PersistReport takes a frame without rows.
LEMMA MovesPersistReport ==
    ASSUME Typed, NEW g \in Gateway, NEW c \in ConnEpoch, PersistReport(g, c)
    PROVE  Moves
<1>1. UNCHANGED journal /\ up[g][c] # <<>>
  BY DEF PersistReport, Taken
<1>2. CASE Close(g, c)
  BY <1>1, <1>2, MovesCloses
<1>3. CASE up' = [up EXCEPT ![g][c] = Tail(@)] /\ UNCHANGED <<handler, down>>
  <2>1. up \in [Gateway -> [ConnEpoch -> Seq(UpFrame)]]
    BY DEF Typed, NetworkOK, NetworkTypeOK
  <2>2. \A x \in Gateway, y \in ConnEpoch : UpMoves(x, y)
    BY <1>1, <1>3, <2>1 DEF UpMoves
  <2> QED BY <1>1, <1>3, <2>2, MovesSilent DEF Moves, JournalMoves, BatchMoves
<1> QED BY <1>2, <1>3 DEF PersistReport

\* Every step is made of these moves.
LEMMA MovesStep == Typed /\ [Next]_vars => Moves
<1> SUFFICES ASSUME Typed, [Next]_vars PROVE Moves
    OBVIOUS
<1> DEFINE kept == UNCHANGED <<journal, network>>
<1>1. ASSUME NEW g \in Gateway, SupervisorStep(g) PROVE Moves
  <2>1. CASE BeginApply(g)
    BY <2>1, MovesNot DEF BeginApply
  <2> QED BY <1>1, <2>1, MovesAccept, MovesSendHeartbeat, MovesTakes, MovesHandleEventAck,
             MovesFinishApply DEF SupervisorStep
<1>2. ASSUME NEW g \in Gateway, NEW c \in ConnEpoch, HandlerStep(g, c) PROVE Moves
  <2>1. CASE HandleHello(g, c)
    BY <2>1, MovesStartPush DEF HandleHello
  <2>2. CASE HandleHeartbeat(g, c)
    BY <2>2, MovesStartPush DEF HandleHeartbeat, Taken
  <2>3. CASE HandlerReturns(g, c)
    BY <2>3, MovesCloses DEF HandlerReturns
  <2> QED BY <1>2, <2>1, <2>2, <2>3, MovesPersistReport, MovesListAssignments,
             MovesPushDesiredState, MovesIngestFence, MovesIngestCommit DEF HandlerStep
<1>3. ASSUME NEW g \in Gateway, NEW c \in ConnEpoch, HandlerFails(g, c) PROVE Moves
  BY <1>3, MovesCloses DEF HandlerFails
<1>4. ASSUME NEW g \in Gateway, SinkStep(g) PROVE Moves
  <2>1. PICK e \in sink[g] : AppendEvent(g, e)
    BY <1>4 DEF SinkStep
  <2>2. UNCHANGED network /\ \A h \in Gateway : h # g => journal'[h] = journal[h]
    BY <2>1 DEF AppendEvent, Typed, GatewayOK, GatewayTypeOK
  <2>3. \A h \in Gateway : JournalMoves(h)
    BY <2>1, <2>2 DEF JournalMoves
  <2> QED BY <2>2, <2>3 DEF Moves, DownMoves, UpMoves, BatchMoves, network
<1>5. ASSUME NEW g \in Gateway, NEW id \in EventId, Label(g, id) PROVE kept
  BY <1>5 DEF Label
<1>6. ASSUME NEW s \in Session, UpdateConfig(s) \/ DeleteSession(s) PROVE kept
  BY <1>6 DEF UpdateConfig, DeleteSession
<1>7. ASSUME NEW m \in Message, AppendOwnSentOnce(m) PROVE kept
  BY <1>7 DEF AppendOwnSentOnce
<1>8. ASSUME NEW s \in Session, NEW g \in Gateway, Reassign(s, g) PROVE kept
  BY <1>8 DEF Reassign
<1>9. ASSUME NEW g \in Gateway, Expire(g) PROVE kept
  BY <1>9 DEF Expire
<1>10. CASE UNCHANGED vars
  BY <1>10, MovesNot DEF vars
<1>11. CASE kept
  BY <1>11, MovesNot
<1> HIDE DEF kept
<1> QED BY <1>1, <1>2, <1>3, <1>4, <1>5, <1>6, <1>7, <1>8, <1>9, <1>10, <1>11,
           MovesAccept, MovesTakes DEF Next

\* The journals a replay goes over, and what retirement leaves of them.
LEMMA ReplayJournal ==
    ASSUME Typed, NEW g \in Gateway, NEW j, Replays(g, j)
    PROVE  /\ j \in Journals /\ WellFormed(j) /\ j.next = journal[g].next
           /\ j.entries \subseteq journal[g].entries
           /\ journal'[g].entries \subseteq j.entries
           /\ journal'[g].next = j.next
<1>1. journal[g] \in Journals /\ WellFormed(journal[g])
  BY DEF Typed, GatewayOK, GatewayTypeOK, JournalShape
<1>2. /\ j \in Journals /\ WellFormed(j) /\ j.next = journal[g].next
      /\ j.entries \subseteq journal[g].entries
  <2>1. CASE j = journal[g]
    BY <1>1, <2>1
  <2>2. CASE j = AckThrough(journal[g], Head(down[g]).seq) /\ HandleEventAck(g)
    <3>1. Head(down[g]).seq \in Nat
      BY <2>2, HeadTyped DEF HandleEventAck, Received, DownFrame
    <3> QED BY <1>1, <2>2, <3>1, AckKeepsJournal
  <2> QED BY <2>1, <2>2 DEF Replays
<1>3. journal'[g] = RetireUnowned(g, j)
  BY DEF Replays
<1>4. RetireUnowned(g, j).entries \subseteq j.entries /\ RetireUnowned(g, j).next = j.next
  <2> DEFINE read == ReadUnacked(j, BatchEntries)
  <2>1. read # {} => LastSeq(read) \in Nat
    BY <1>2, BatchIsFromJournal
  <2>2. CASE RetireUnowned(g, j) = j
    BY <2>2
  <2>3. CASE read # {} /\ RetireUnowned(g, j) = AckThrough(j, LastSeq(read))
    <3> HIDE DEF read
    <3> QED BY <1>2, <2>1, <2>3, AckKeepsJournal
  <2> QED BY <2>2, <2>3 DEF RetireUnowned
<1> QED BY <1>2, <1>3, <1>4

-----------------------------------------------------------------------------
(***************************************************************************)
(* Where entries come from.  Every event in a sink, every accepted entry   *)
(* carries an epoch that is fenced; every row in a journal, in a frame or  *)
(* in a handler's hands is an accepted entry.                              *)
(***************************************************************************)
Entry(g, r) == [id |-> r.id, gw |-> g, epoch |-> r.epoch]

Labelled(A, g) ==
    {x \in [id: EventId, epoch: Nat \ {0}] : FencedAt(A, g, SessionOf[x.id], x.epoch)}

Acceptable(A) ==
    {x \in [id: EventId, gw: Gateway, epoch: Nat] :
        FencedAt(A, x.gw, SessionOf[x.id], x.epoch)}

\* The rows the journal of g took.
Took(g) == {r \in Row : Entry(g, r) \in accepted}

TookFrame(g) == {f \in UpFrame : f.batch \subseteq Took(g)}

Traced ==
    \A g \in Gateway :
        /\ journal[g].entries \subseteq Took(g)
        /\ \A c \in ConnEpoch : /\ up[g][c] \in Seq(TookFrame(g))
                                /\ handler[g][c].batch \subseteq Took(g)

EntriesInv ==
    /\ FenceInv
    /\ \A g \in Gateway : sink[g] \subseteq Labelled(assignment, g)
    /\ accepted \subseteq Acceptable(assignment)
    /\ Traced

\* No row is journaled at first.
LEMMA EntriesInit == Init => EntriesInv
<1> SUFFICES ASSUME Init PROVE EntriesInv
    OBVIOUS
<1>1. FenceInv
  BY FenceInit
<1>2. Traced
  BY DEF Init, Traced, EmptyJournal, HandlerAt
<1> QED BY <1>1, <1>2 DEF EntriesInv, Init

\* How a step may change the table, the sinks and the accepted entries.
LEMMA EntriesMove ==
    ASSUME Typed, [Next]_vars
    PROVE  /\ Follows(assignment, assignment')
           /\ \A g \in Gateway : \/ sink'[g] \subseteq sink[g]
                                 \/ \E id \in EventId : Label(g, id)
           /\ \/ accepted' = accepted
              \/ \E g \in Gateway : \E e \in sink[g] : AppendEvent(g, e)
<1> DEFINE Goal == /\ Follows(assignment, assignment')
                   /\ \A g \in Gateway : \/ sink'[g] \subseteq sink[g]
                                         \/ \E id \in EventId : Label(g, id)
                   /\ \/ accepted' = accepted
                      \/ \E g \in Gateway : \E e \in sink[g] : AppendEvent(g, e)
           quiet == UNCHANGED <<assignment, sink, accepted>>
<1> USE DEF mysql, process, books
<1>q. ASSUME quiet PROVE Goal
  BY <1>q DEF Follows
<1>t. assignment \in Tables /\ sink \in [Gateway -> SUBSET [id: EventId, epoch: Nat \ {0}]]
  BY DEF Typed, MySQLOK, MySQLTypeOK, Tables, GatewayOK, GatewayTypeOK
<1>1. ASSUME NEW g \in Gateway, SupervisorStep(g) PROVE quiet
  <2>1. CASE Connect(g)
    BY <2>1 DEF Connect, AcceptConnection
  <2>2. CASE SendHeartbeat(g) \/ ArmHeartbeat(g) \/ HandleEventAck(g)
    BY <2>2 DEF SendHeartbeat, ArmHeartbeat, HandleEventAck
  <2>3. CASE BeginApply(g) \/ FinishApply(g) \/ StreamClosed(g)
    BY <2>3 DEF BeginApply, FinishApply, StreamClosed
  <2> QED BY <1>1, <2>1, <2>2, <2>3 DEF SupervisorStep
<1>2. ASSUME NEW g \in Gateway, NEW c \in ConnEpoch, HandlerStep(g, c) \/ HandlerFails(g, c)
      PROVE  quiet
  <2>1. CASE IngestCommit(g, c)
    BY <2>1 DEF IngestCommit
  <2>2. CASE HandleHello(g, c) \/ HandleHeartbeat(g, c) \/ ListAssignments(g, c)
    BY <2>2 DEF HandleHello, HandleHeartbeat, ListAssignments
  <2>3. CASE PushDesiredState(g, c) \/ PersistReport(g, c) \/ IngestFence(g, c)
    BY <2>3 DEF PushDesiredState, PersistReport, IngestFence
  <2>4. CASE HandlerReturns(g, c) \/ HandlerFails(g, c)
    BY <2>4 DEF HandlerReturns, HandlerFails
  <2> QED BY <1>2, <2>1, <2>2, <2>3, <2>4 DEF HandlerStep
<1>3. ASSUME NEW g \in Gateway, SinkStep(g) PROVE Goal
  <2>1. PICK e \in sink[g] : AppendEvent(g, e)
    BY <1>3 DEF SinkStep
  <2>2. UNCHANGED assignment /\ \A h \in Gateway : sink'[h] \subseteq sink[h]
    BY <1>t, <2>1 DEF AppendEvent
  <2> QED BY <2>1, <2>2 DEF Follows
<1>4. ASSUME NEW g \in Gateway, NEW id \in EventId, Label(g, id) PROVE Goal
  <2>1. UNCHANGED <<assignment, accepted>> /\ \A h \in Gateway : h # g => sink'[h] = sink[h]
    BY <1>t, <1>4 DEF Label
  <2> QED BY <1>4, <2>1 DEF Follows
<1>5. ASSUME NEW g \in Gateway, Crash(g) PROVE Goal
  BY <1>t, <1>5 DEF Crash, Follows
<1>6. ASSUME NEW s \in Session, NEW g \in Gateway, Reassign(s, g) PROVE Goal
  BY <1>t, <1>6 DEF Reassign, Follows, Tables
<1>7. ASSUME NEW s \in Session, DeleteSession(s) PROVE Goal
  BY <1>t, <1>7 DEF DeleteSession, Follows, Tables
<1>8. ASSUME NEW s \in Session, UpdateConfig(s) PROVE quiet
  BY <1>8 DEF UpdateConfig
<1>9. ASSUME NEW m \in Message, AppendOwnSentOnce(m) PROVE quiet
  BY <1>9 DEF AppendOwnSentOnce
<1>10. ASSUME NEW g \in Gateway, Expire(g) \/ ProveCurrentConnection(g) \/ FailApply(g)
                                 \/ StreamBreak(g)
       PROVE  quiet
  BY <1>10 DEF Expire, ProveCurrentConnection, AcceptConnection, FailApply, StreamBreak
<1>11. ASSUME UNCHANGED vars PROVE Goal
  BY <1>11, <1>q DEF vars
<1> HIDE DEF quiet, Goal
<1>12. Goal
  BY <1>q, <1>1, <1>2, <1>3, <1>4, <1>5, <1>6, <1>7, <1>8, <1>9, <1>10, <1>11 DEF Next
<1> QED BY <1>12 DEF Goal

\* The rows a journal took stay accepted.
LEMMA TookGrows ==
    ASSUME accepted \subseteq accepted', NEW g \in Gateway
    PROVE  /\ Took(g) \subseteq Took(g)'
           /\ Seq(TookFrame(g)) \subseteq Seq(TookFrame(g)')
<1>1. Took(g) \subseteq Took(g)'
  BY DEF Took
<1>2. TookFrame(g) \subseteq TookFrame(g)'
  BY <1>1 DEF TookFrame
<1> QED BY <1>1, <1>2

\* A step keeps every row on the stream and in a handler traced to its journal.
LEMMA TracedStep ==
    ASSUME EntriesInv, [Next]_vars PROVE Traced'
<1> USE DEF EntriesInv
<1>1. Typed /\ Typed' /\ Moves
  BY TypedStep, MovesStep DEF FenceInv
<1>2. accepted \subseteq accepted'
  <2>1. ASSUME NEW g \in Gateway, NEW e \in sink[g], AppendEvent(g, e)
        PROVE  accepted \subseteq accepted'
    BY <2>1 DEF AppendEvent
  <2> QED BY <1>1, <2>1, EntriesMove
<1>3. ASSUME NEW g \in Gateway PROVE journal'[g].entries \subseteq Took(g)'
  <2>1. Took(g) \subseteq Took(g)' /\ journal[g].entries \subseteq Took(g)
    BY <1>2, TookGrows DEF Traced
  <2>2. CASE journal'[g] = journal[g]
    BY <2>1, <2>2
  <2>3. ASSUME NEW e \in sink[g], AppendEvent(g, e)
        PROVE  journal'[g].entries \subseteq Took(g)'
    <3> DEFINE row == [seq |-> journal[g].next, id |-> e.id, epoch |-> e.epoch]
    <3>1. CASE UNCHANGED journal
      BY <2>1, <3>1
    <3>2. CASE /\ journal' = [journal EXCEPT ![g] = AppendRow(@, e.id, e.epoch)]
               /\ accepted' = accepted \union {[id |-> e.id, gw |-> g, epoch |-> e.epoch]}
      <4>1. journal'[g].entries = journal[g].entries \union {row}
        BY <1>1, <3>2 DEF Typed, GatewayOK, GatewayTypeOK, AppendRow
      <4>2. journal'[g].entries \subseteq Row
        BY <1>1 DEF Typed, GatewayOK, GatewayTypeOK, Journals
      <4>3. Entry(g, row) \in accepted'
        BY <3>2 DEF Entry
      <4> HIDE DEF row
      <4> QED BY <2>1, <4>1, <4>2, <4>3 DEF Took
    <3> QED BY <2>3, <3>1, <3>2 DEF AppendEvent
  <2>4. ASSUME NEW j \in Journals, Replays(g, j)
        PROVE  journal'[g].entries \subseteq Took(g)'
    BY <1>1, <2>1, <2>4, ReplayJournal
  <2> QED BY <1>1, <2>2, <2>3, <2>4 DEF Moves, JournalMoves
<1>4. ASSUME NEW g \in Gateway, NEW c \in ConnEpoch
      PROVE  up'[g][c] \in Seq(TookFrame(g)') /\ handler'[g][c].batch \subseteq Took(g)'
  <2>1. /\ Took(g) \subseteq Took(g)' /\ Seq(TookFrame(g)) \subseteq Seq(TookFrame(g)')
        /\ up[g][c] \in Seq(TookFrame(g)) /\ handler[g][c].batch \subseteq Took(g)
        /\ journal[g].entries \subseteq Took(g)
    BY <1>2, TookGrows DEF Traced
  <2>2. up[g][c] # <<>> => /\ Head(up[g][c]) \in TookFrame(g)
                           /\ Tail(up[g][c]) \in Seq(TookFrame(g))
    BY <2>1
  <2>3. handler'[g][c].batch \subseteq Took(g)'
    BY <1>1, <2>1, <2>2 DEF Moves, BatchMoves, TookFrame
  <2>4. Plain \subseteq TookFrame(g)
    BY DEF Plain, TookFrame
  <2>5. ASSUME NEW frames \in Seq(Plain), up'[g][c] = up[g][c] \o frames
        PROVE  up'[g][c] \in Seq(TookFrame(g))
    BY <2>1, <2>4, <2>5
  <2>6. ASSUME NEW j \in Journals, NEW before \in Seq(Plain), Replays(g, j),
               up'[g][c] = up[g][c] \o Append(before, EventBatch(NextEventBatch(g, j)))
        PROVE  up'[g][c] \in Seq(TookFrame(g))
    <3> DEFINE frame == EventBatch(NextEventBatch(g, j))
    <3>1. /\ NextEventBatch(g, j) \in SUBSET Row /\ NextEventBatch(g, j) \subseteq j.entries
          /\ j.entries \subseteq journal[g].entries
      BY <1>1, <2>6, BatchIsFromJournal, ReplayJournal
    <3>2. frame \in TookFrame(g)
      BY <2>1, <3>1 DEF EventBatch, TookFrame, UpFrame
    <3> HIDE DEF frame
    <3>3. Append(before, frame) \in Seq(TookFrame(g))
      BY <2>4, <3>2
    <3> QED BY <2>1, <2>6, <3>3 DEF frame
  <2>7. up'[g][c] \in Seq(TookFrame(g))
    <3>1. CASE up'[g][c] = up[g][c]
      BY <2>1, <3>1
    <3>2. CASE up'[g][c] = <<>>
      BY <3>2
    <3>3. CASE up[g][c] # <<>> /\ up'[g][c] = Tail(up[g][c])
      BY <2>2, <3>3
    <3>4. UpMoves(g, c)
      BY <1>1 DEF Moves
    <3> QED BY <3>1, <3>2, <3>3, <3>4, <2>5, <2>6, Zenon DEF UpMoves
  <2> QED BY <2>1, <2>3, <2>7
<1> QED BY <1>3, <1>4 DEF Traced

\* Every step keeps the rows traced.
LEMMA EntriesStep == EntriesInv /\ [Next]_vars => EntriesInv'
<1> SUFFICES ASSUME EntriesInv, [Next]_vars PROVE EntriesInv'
    OBVIOUS
<1>1. FenceInv /\ FenceInv' /\ Typed /\ Typed'
  BY FenceStep DEF EntriesInv, FenceInv
<1>2. assignment \in Tables /\ assignment' \in Tables
  BY <1>1 DEF Typed, MySQLOK, MySQLTypeOK, Tables
<1>3. Follows(assignment, assignment')
  BY <1>1, EntriesMove
<1>s. \A i \in EventId : SessionOf[i] \in Session
  BY ConstantsAssumption
<1>4. ASSUME NEW g \in Gateway PROVE sink'[g] \subseteq Labelled(assignment', g)
  <2>1. ASSUME NEW x \in Labelled(assignment, g) PROVE x \in Labelled(assignment', g)
    BY <1>2, <1>3, <1>s, FenceOfOneIsStable DEF Labelled
  <2>2. ASSUME NEW id \in EventId, Label(g, id)
        PROVE  sink'[g] \subseteq Labelled(assignment', g)
    <3> DEFINE epoch == recon[g].epochs[SessionOf[id]]
    <3>1. recon[g].epochs \in Fenced(assignment, g) /\ epoch # 0
      BY <1>1, <2>2 DEF FenceInv, Label
    <3>2. epoch \in Nat /\ FencedAt(assignment, g, SessionOf[id], epoch)
      BY <1>s, <3>1 DEF Fenced, Epochs
    <3>3. [id |-> id, epoch |-> epoch] \in Labelled(assignment, g)
      BY <3>1, <3>2 DEF Labelled
    <3>4. sink'[g] = sink[g] \union {[id |-> id, epoch |-> epoch]}
      BY <1>1, <2>2 DEF Label, Typed, GatewayOK, GatewayTypeOK
    <3> QED BY <2>1, <3>3, <3>4 DEF EntriesInv
  <2> QED BY <1>1, <2>1, <2>2, EntriesMove DEF EntriesInv
<1>5. accepted' \subseteq Acceptable(assignment')
  <2>1. ASSUME NEW x \in Acceptable(assignment) PROVE x \in Acceptable(assignment')
    BY <1>2, <1>3, <1>s, FenceOfOneIsStable DEF Acceptable
  <2>2. ASSUME NEW g \in Gateway, NEW e \in sink[g], AppendEvent(g, e)
        PROVE  accepted' \subseteq Acceptable(assignment')
    <3> DEFINE x == [id |-> e.id, gw |-> g, epoch |-> e.epoch]
    <3>1. e \in Labelled(assignment, g)
      BY DEF EntriesInv
    <3>2. x \in Acceptable(assignment)
      BY <3>1 DEF Labelled, Acceptable
    <3>3. accepted' \subseteq accepted \union {x}
      BY <2>2 DEF AppendEvent
    <3> QED BY <2>1, <3>2, <3>3 DEF EntriesInv
  <2> QED BY <1>1, <2>1, <2>2, EntriesMove DEF EntriesInv
<1> QED BY <1>1, <1>4, <1>5, TracedStep DEF EntriesInv

-----------------------------------------------------------------------------
(***************************************************************************)
(* The authority of a snapshot.  A session that a gateway owns and knows   *)
(* of under its current epoch is in every snapshot on the way to it and in *)
(* the one its journal adapter goes by, so that no row of the session is   *)
(* retired.  The argument rests on the recheck of PushDesiredState: what   *)
(* goes out was the complete assignment set when it went out.              *)
(***************************************************************************)
Mine(g, s) == assignment[s].gw = g

\* Gateway g holds session s, or an event of it, under its current epoch.
Knows(g, s) ==
    \/ recon[g].epochs[s] = assignment[s].epoch
    \/ \E x \in sink[g] : SessionOf[x.id] = s /\ x.epoch = assignment[s].epoch
    \/ \E r \in journal[g].entries : SessionOf[r.id] = s /\ r.epoch = assignment[s].epoch

Covers(g, E) == \A s \in Session : Mine(g, s) /\ Knows(g, s) => E[s] = assignment[s].epoch

CoverFrame(g) == {f \in DownFrame : f.type = "snapshot" => Covers(g, f.epochs)}

\* A session that is current in a snapshot is so in the ones sent after it.
Newer(A, g, d) ==
    \A i, j \in 1..Len(d) :
        (i < j /\ d[i].type = "snapshot" /\ d[j].type = "snapshot") =>
            \A s \in Session :
                (A[s].gw = g /\ d[i].epochs[s] = A[s].epoch) => d[j].epochs[s] = A[s].epoch

\* The adapter may lag only behind the snapshot that is being applied.
Authority(g) ==
    (adapter[g].live /\ stream[g].epoch # 0) =>
        \/ Covers(g, adapter[g].epochs)
        \/ stream[g].applying /\ adapter[g].rev <= Head(down[g]).rev

CoverAt(g) ==
    /\ down[g] \in Seq(CoverFrame(g))
    /\ Newer(assignment, g, down[g])
    /\ Authority(g)
    /\ stream[g].applying => Head(down[g]).type = "snapshot"

\* The revisions and reads the recheck compares.
ReadsAt(g, c) ==
    /\ handler[g][c].rev <= revision[g]
    /\ handler[g][c].pc \in {"list", "recheck"} => c <= connEpoch[g]
    /\ (/\ handler[g][c].pc = "recheck"
        /\ handler[g][c].rev = revision[g] /\ connEpoch[g] = c)
          => handler[g][c].epochs = Assigned(g)

Reads ==
    /\ \A s \in Session : assignment[s].epoch # 0
    /\ \A g \in Gateway : adapter[g].rev = recon[g].rev
    /\ \A g \in Gateway, c \in ConnEpoch : ReadsAt(g, c)

CoverInv == EntriesInv /\ Reads /\ \A g \in Gateway : CoverAt(g)

\* No gateway holds anything at first.
LEMMA CoverInit == Init => CoverInv
<1> SUFFICES ASSUME Init PROVE CoverInv
    OBVIOUS
<1>1. EntriesInv
  BY EntriesInit
<1>2. Reads
  <2>1. \A s \in Session : assignment[s].epoch # 0
    BY DEF Init
  <2>2. \A g \in Gateway : adapter[g].rev = recon[g].rev
    BY DEF Init, NoAdapter, NoRecon
  <2>3. ASSUME NEW g \in Gateway, NEW c \in ConnEpoch PROVE ReadsAt(g, c)
    <3>1. handler[g][c].pc = "absent" /\ handler[g][c].rev = 0 /\ revision[g] = 1
      BY DEF Init, HandlerAt
    <3> QED BY <3>1 DEF ReadsAt
  <2> QED BY <2>1, <2>2, <2>3 DEF Reads
<1>3. ASSUME NEW g \in Gateway PROVE CoverAt(g)
  <2>1. down[g] = <<>> /\ ~adapter[g].live /\ ~stream[g].applying
    BY DEF Init, NoAdapter, NoStream
  <2> QED BY <2>1 DEF CoverAt, Newer, Authority
<1> QED BY <1>1, <1>2, <1>3 DEF CoverInv

\* Frames taken from or added to a stream keep the order of the snapshots.
LEMMA NewerSeq ==
    ASSUME NEW A, NEW g, NEW d \in Seq(DownFrame), Newer(A, g, d)
    PROVE  /\ Newer(A, g, <<>>)
           /\ d # <<>> => Newer(A, g, Tail(d))
           /\ \A f \in DownFrame :
                 (f.type = "snapshot" =>
                    \A s \in Session : A[s].gw = g => f.epochs[s] = A[s].epoch)
                 => Newer(A, g, Append(d, f))
<1>1. Newer(A, g, <<>>)
  BY DEF Newer
<1>2. ASSUME d # <<>> PROVE Newer(A, g, Tail(d))
  <2>1. Len(Tail(d)) = Len(d) - 1 /\ Len(d) \in Nat
    BY <1>2
  <2>2. \A i \in 1..Len(Tail(d)) : Tail(d)[i] = d[i + 1] /\ i + 1 \in 1..Len(d)
    BY <1>2
  <2> QED BY <2>1, <2>2 DEF Newer
<1>3. ASSUME NEW f \in DownFrame,
             f.type = "snapshot" => \A s \in Session : A[s].gw = g => f.epochs[s] = A[s].epoch
      PROVE  Newer(A, g, Append(d, f))
  <2>1. Len(Append(d, f)) = Len(d) + 1 /\ Len(d) \in Nat
    OBVIOUS
  <2>2. \A i \in 1..Len(d) : Append(d, f)[i] = d[i]
    OBVIOUS
  <2>3. Append(d, f)[Len(d) + 1] = f
    OBVIOUS
  <2>4. ASSUME NEW i \in 1..Len(d) + 1, NEW j \in 1..Len(d) + 1, i < j,
               Append(d, f)[i].type = "snapshot", Append(d, f)[j].type = "snapshot",
               NEW s \in Session, A[s].gw = g, Append(d, f)[i].epochs[s] = A[s].epoch
        PROVE  Append(d, f)[j].epochs[s] = A[s].epoch
    <3>1. CASE j = Len(d) + 1
      BY <1>3, <2>3, <2>4, <3>1
    <3>2. CASE j \in 1..Len(d)
      <4>1. i \in 1..Len(d)
        BY <2>1, <2>4, <3>2
      <4> QED BY <2>2, <2>4, <3>2, <4>1 DEF Newer
    <3> QED BY <2>1, <3>1, <3>2
  <2> QED BY <2>1, <2>4 DEF Newer
<1> QED BY <1>1, <1>2, <1>3

\* What a gateway knows less of, and whose table stays, keeps its cover.
LEMMA CoverShrinks ==
    ASSUME NEW g \in Gateway, UNCHANGED assignment,
           \A s \in Session : Knows(g, s)' => Knows(g, s)
    PROVE  /\ CoverFrame(g) \subseteq CoverFrame(g)'
           /\ Seq(CoverFrame(g)) \subseteq Seq(CoverFrame(g)')
           /\ \A E \in Epochs : Covers(g, E) => Covers(g, E)'
<1>1. \A E \in Epochs : Covers(g, E) => Covers(g, E)'
  BY DEF Covers, Mine
<1>2. CoverFrame(g) \subseteq CoverFrame(g)'
  BY <1>1 DEF CoverFrame, DownFrame
<1> QED BY <1>1, <1>2

\* A gateway none of whose state changes.
LEMMA CoverElsewhere ==
    ASSUME NEW g \in Gateway, CoverAt(g), UNCHANGED assignment,
           journal'[g] = journal[g], sink'[g] = sink[g], recon'[g] = recon[g],
           adapter'[g] = adapter[g], stream'[g] = stream[g], down'[g] = down[g]
    PROVE  CoverAt(g)'
<1>1. \A s \in Session : Knows(g, s)' = Knows(g, s)
  BY DEF Knows
<1>2. \A E : Covers(g, E)' = Covers(g, E)
  BY <1>1 DEF Covers, Mine
<1>3. CoverFrame(g)' = CoverFrame(g)
  BY <1>2 DEF CoverFrame
<1>4. Authority(g)'
  BY <1>2 DEF CoverAt, Authority
<1> QED BY <1>3, <1>4 DEF CoverAt

\* The types the proofs below need.
LEMMA CoverTypes ==
    ASSUME CoverInv
    PROVE  /\ Typed /\ assignment \in Tables
           /\ revision \in [Gateway -> Nat] /\ connEpoch \in [Gateway -> 0..MaxConnections]
           /\ journal \in [Gateway -> Journals]
           /\ sink \in [Gateway -> SUBSET [id: EventId, epoch: Nat \ {0}]]
           /\ recon \in [Gateway -> [rev: Nat, epochs: Epochs]]
           /\ adapter \in [Gateway -> [live: BOOLEAN, rev: Nat, epochs: Epochs]]
           /\ stream \in [Gateway -> Streams]
           /\ down \in [Gateway -> Seq(DownFrame)]
           /\ handler \in [Gateway -> [ConnEpoch -> Handlers]]
<1>1. Typed
  BY DEF CoverInv, EntriesInv, FenceInv
<1> QED BY <1>1, ProcessTypes DEF Typed, MySQLOK, MySQLTypeOK, Tables, GatewayOK, GatewayTypeOK,
           NetworkOK, NetworkTypeOK

\* A step of gateway g: its streams may change, the others' do not.
LEMMA CoverGateway ==
    ASSUME CoverInv, EntriesInv', UNCHANGED <<assignment, revision>>, Reads',
           NEW g \in Gateway, CoverAt(g)',
           \A h \in Gateway : h # g =>
              /\ journal'[h] = journal[h] /\ sink'[h] = sink[h] /\ recon'[h] = recon[h]
              /\ adapter'[h] = adapter[h] /\ stream'[h] = stream[h] /\ down'[h] = down[h]
    PROVE  CoverInv'
<1>1. ASSUME NEW h \in Gateway, h # g PROVE CoverAt(h)'
  BY <1>1, CoverElsewhere DEF CoverInv
<1> QED BY <1>1 DEF CoverInv

\* The gateway stays on its stream with the snapshot it goes by; what it knows
\* of shrinks, and the frames move on.
LEMMA CoverStays ==
    ASSUME CoverInv, NEW g \in Gateway, UNCHANGED assignment,
           \A s \in Session : Knows(g, s)' => Knows(g, s),
           adapter'[g] = adapter[g],
           stream'[g].epoch = stream[g].epoch, stream'[g].applying = stream[g].applying,
           \/ down'[g] = down[g]
           \/ ~stream[g].applying /\ down[g] # <<>> /\ down'[g] = Tail(down[g])
    PROVE  CoverAt(g)'
<1>1. /\ Seq(CoverFrame(g)) \subseteq Seq(CoverFrame(g)')
      /\ \A E \in Epochs : Covers(g, E) => Covers(g, E)'
  BY CoverShrinks
<1>2. CoverAt(g) /\ down[g] \in Seq(DownFrame) /\ adapter[g].epochs \in Epochs
  BY CoverTypes DEF CoverInv
<1>3. down'[g] \in Seq(CoverFrame(g)') /\ Newer(assignment, g, down'[g])
  <2>1. down[g] \in Seq(CoverFrame(g)) /\ Newer(assignment, g, down[g])
    BY <1>2 DEF CoverAt
  <2>2. CASE down'[g] = down[g]
    BY <1>1, <2>1, <2>2
  <2>3. CASE down[g] # <<>> /\ down'[g] = Tail(down[g])
    <3>1. Tail(down[g]) \in Seq(CoverFrame(g)) /\ Newer(assignment, g, Tail(down[g]))
      BY <1>2, <2>1, <2>3, NewerSeq
    <3> QED BY <1>1, <2>3, <3>1
  <2> QED BY <2>2, <2>3
<1>4. Authority(g)'
  BY <1>1, <1>2 DEF CoverAt, Authority
<1> QED BY <1>2, <1>3, <1>4 DEF CoverAt

\* The gateway is on no stream, or its adapter waits for a snapshot.
LEMMA CoverLeaves ==
    ASSUME NEW g \in Gateway, down'[g] = <<>>, stream'[g] = NoStream
    PROVE  CoverAt(g)'
<1>1. ~stream'[g].applying /\ stream'[g].epoch = 0
  BY DEF NoStream
<1> QED BY <1>1 DEF CoverAt, Newer, Authority

\* The reads of the handlers are not concerned.
LEMMA ReadsKept ==
    ASSUME Reads, UNCHANGED <<assignment, revision, connEpoch, handler>>,
           \A g \in Gateway : adapter'[g].rev = recon'[g].rev
    PROVE  Reads'
<1>1. \A g \in Gateway : Assigned(g)' = Assigned(g)
  BY DEF Assigned
<1> QED BY <1>1 DEF Reads, ReadsAt

-----------------------------------------------------------------------------
(* The gateway's steps.                                                    *)

\* Labelling an event keeps the cover.
LEMMA CoverLabel ==
    ASSUME CoverInv, EntriesInv', NEW g \in Gateway, NEW id \in EventId, Label(g, id)
    PROVE  CoverInv'
<1> USE DEF mysql, network
<1>1. /\ UNCHANGED <<assignment, revision, connEpoch, handler>>
      /\ UNCHANGED <<journal, recon, adapter, stream, down>>
  BY DEF Label
<1>2. Reads'
  BY <1>1, ReadsKept DEF CoverInv, Reads
<1> DEFINE x == [id |-> id, epoch |-> recon[g].epochs[SessionOf[id]]]
<1>3. sink'[g] = sink[g] \union {x} /\ \A h \in Gateway : h # g => sink'[h] = sink[h]
  BY CoverTypes DEF Label
<1>4. x.id = id /\ x.epoch = recon[g].epochs[SessionOf[id]]
  OBVIOUS
<1> HIDE DEF x
<1>5. \A s \in Session : Knows(g, s)' => Knows(g, s)
  BY <1>1, <1>3, <1>4 DEF Knows
<1>6. CoverAt(g)'
  BY <1>1, <1>5, CoverStays
<1> QED BY <1>1, <1>2, <1>3, <1>6, CoverGateway

\* An append is made under an epoch the gateway holds.
LEMMA CoverAppendEvent ==
    ASSUME CoverInv, EntriesInv', NEW g \in Gateway, NEW e \in sink[g], AppendEvent(g, e)
    PROVE  CoverInv'
<1> USE DEF mysql, network
<1>1. /\ UNCHANGED <<assignment, revision, connEpoch, handler>>
      /\ UNCHANGED <<recon, adapter, stream, down>>
  BY DEF AppendEvent
<1>2. Reads'
  BY <1>1, ReadsKept DEF CoverInv, Reads
<1> DEFINE row == [seq |-> journal[g].next, id |-> e.id, epoch |-> e.epoch]
<1>3. /\ sink'[g] \subseteq sink[g]
      /\ \A h \in Gateway : h # g => sink'[h] = sink[h] /\ journal'[h] = journal[h]
  BY CoverTypes DEF AppendEvent
<1>4. journal'[g].entries \subseteq journal[g].entries \union {row}
  <2>1. CASE UNCHANGED journal
    BY <2>1
  <2>2. CASE journal' = [journal EXCEPT ![g] = AppendRow(@, e.id, e.epoch)]
    BY <2>2, CoverTypes DEF AppendRow
  <2> QED BY <2>1, <2>2 DEF AppendEvent
<1>5. row.id = e.id /\ row.epoch = e.epoch
  OBVIOUS
<1> HIDE DEF row
<1>6. \A s \in Session : Knows(g, s)' => Knows(g, s)
  BY <1>1, <1>3, <1>4, <1>5 DEF Knows
<1>7. CoverAt(g)'
  BY <1>1, <1>6, CoverStays
<1> QED BY <1>1, <1>2, <1>3, <1>7, CoverGateway

\* A label that expires keeps the cover.
LEMMA CoverExpire ==
    ASSUME CoverInv, EntriesInv', NEW g \in Gateway, Expire(g) PROVE CoverInv'
<1> USE DEF mysql, network
<1>1. /\ UNCHANGED <<assignment, revision, connEpoch, handler>>
      /\ UNCHANGED <<journal, sink, adapter, stream, down>>
  BY DEF Expire
<1>2. /\ recon'[g].epochs = NoEpochs /\ recon'[g].rev = recon[g].rev
      /\ \A h \in Gateway : h # g => recon'[h] = recon[h]
  BY CoverTypes DEF Expire
<1>3. Reads'
  BY <1>1, <1>2, ReadsKept DEF CoverInv, Reads
<1>4. \A s \in Session : NoEpochs[s] # assignment[s].epoch
  BY DEF NoEpochs, CoverInv, Reads
<1>5. \A s \in Session : Knows(g, s)' => Knows(g, s)
  BY <1>1, <1>2, <1>4 DEF Knows
<1>6. CoverAt(g)'
  BY <1>1, <1>5, CoverStays
<1> QED BY <1>1, <1>2, <1>3, <1>6, CoverGateway

\* The journal is replayed, or a frame without effect is taken.
LEMMA CoverReplays ==
    ASSUME CoverInv, EntriesInv', NEW g \in Gateway,
           SendHeartbeat(g) \/ ArmHeartbeat(g) \/ HandleEventAck(g)
    PROVE  CoverInv'
<1> USE DEF mysql
<1>1. UNCHANGED <<assignment, revision, connEpoch, handler, sink, recon, adapter>>
  BY DEF SendHeartbeat, ArmHeartbeat, HandleEventAck
<1>2. Reads'
  BY <1>1, ReadsKept DEF CoverInv, Reads
<1>3. journal'[g].entries \subseteq journal[g].entries
  <2>1. CASE ArmHeartbeat(g)
    BY <2>1 DEF ArmHeartbeat
  <2>2. CASE SendHeartbeat(g)
    <3>1. CASE SendBatch(g, journal[g], FALSE, <<Heartbeat>>)
      <4>1. Replays(g, journal[g])
        BY <2>2, <3>1, CoverTypes DEF Replays, SendHeartbeat, SendBatch
      <4> QED BY <4>1, CoverTypes, ReplayJournal
    <3> QED BY <2>2, <3>1 DEF SendHeartbeat
  <2>3. CASE HandleEventAck(g)
    <3> DEFINE j == AckThrough(journal[g], Head(down[g]).seq)
    <3>1. Replays(g, j)
      BY <2>3, CoverTypes DEF Replays, HandleEventAck, SendBatch, Received
    <3> QED BY <3>1, CoverTypes, ReplayJournal
  <2> QED BY <2>1, <2>2, <2>3
<1>4. \A s \in Session : Knows(g, s)' => Knows(g, s)
  BY <1>1, <1>3 DEF Knows
<1>5. /\ stream'[g].epoch = stream[g].epoch /\ stream'[g].applying = stream[g].applying
      /\ \A h \in Gateway : h # g => journal'[h] = journal[h] /\ stream'[h] = stream[h]
  BY CoverTypes DEF Streams, SendHeartbeat, ArmHeartbeat, HandleEventAck, SendBatch
<1>6. /\ \A h \in Gateway : h # g => down'[h] = down[h]
      /\ \/ down'[g] = down[g]
         \/ ~stream[g].applying /\ down[g] # <<>> /\ down'[g] = Tail(down[g])
  BY CoverTypes DEF SendHeartbeat, ArmHeartbeat, HandleEventAck, Received, Ready
<1>7. CoverAt(g)'
  BY <1>1, <1>4, <1>5, <1>6, CoverStays
<1> QED BY <1>1, <1>2, <1>5, <1>6, <1>7, CoverGateway

\* A gateway that leaves its stream loses its snapshots with it.
LEMMA CoverLeavesStream ==
    ASSUME CoverInv, EntriesInv', NEW g \in Gateway,
           FailApply(g) \/ StreamClosed(g) \/ StreamBreak(g) \/ Crash(g)
    PROVE  CoverInv'
<1> USE DEF mysql
<1>1. /\ UNCHANGED <<assignment, revision, connEpoch, handler, journal>>
      /\ LeaveStream(g)
  BY DEF FailApply, StreamClosed, StreamBreak, Crash
<1>2. \A h \in Gateway : h # g =>
         sink'[h] = sink[h] /\ recon'[h] = recon[h] /\ adapter'[h] = adapter[h]
  BY CoverTypes DEF FailApply, StreamClosed, StreamBreak, Crash
<1>3. adapter'[g].rev = recon'[g].rev
  <2>1. adapter[g].rev = recon[g].rev
    BY DEF CoverInv, Reads
  <2>2. CASE FailApply(g)
    BY <2>1, <2>2, CoverTypes DEF FailApply
  <2>3. CASE StreamClosed(g) \/ StreamBreak(g)
    BY <2>1, <2>3 DEF StreamClosed, StreamBreak
  <2>4. CASE Crash(g)
    BY <2>4, CoverTypes DEF Crash, NoAdapter, NoRecon
  <2> QED BY <2>2, <2>3, <2>4
<1>4. Reads'
  BY <1>1, <1>2, <1>3, ReadsKept DEF CoverInv, Reads
<1>5. /\ stream'[g] = NoStream /\ down'[g] = <<>>
      /\ \A h \in Gateway : h # g => stream'[h] = stream[h] /\ down'[h] = down[h]
  BY <1>1, CoverTypes DEF LeaveStream
<1>6. CoverAt(g)'
  BY <1>5, CoverLeaves
<1> QED BY <1>1, <1>2, <1>4, <1>5, <1>6, CoverGateway

\* The candidate assignments are published before the adapter goes by them.
LEMMA CoverBeginApply ==
    ASSUME CoverInv, EntriesInv', NEW g \in Gateway, BeginApply(g) PROVE CoverInv'
<1> USE DEF mysql, network
<1> DEFINE snap == Head(down[g])
<1>1. /\ UNCHANGED <<assignment, revision, connEpoch, handler>>
      /\ UNCHANGED <<journal, sink, adapter, down>>
      /\ down[g] # <<>> /\ snap.type = "snapshot" /\ ~stream[g].applying
  BY DEF BeginApply, Received, Ready
<1>2. /\ recon'[g].rev = recon[g].rev
      /\ recon'[g].epochs = IF snap.rev < recon[g].rev THEN recon[g].epochs ELSE snap.epochs
      /\ stream'[g].applying /\ stream'[g].epoch = stream[g].epoch
      /\ \A h \in Gateway : h # g => recon'[h] = recon[h] /\ stream'[h] = stream[h]
  BY CoverTypes DEF BeginApply, Streams
<1>3. Reads'
  BY <1>1, <1>2, ReadsKept DEF CoverInv, Reads
<1>4. /\ snap.rev \in Nat /\ snap.epochs \in Epochs
      /\ adapter[g].rev \in Nat /\ adapter[g].rev = recon[g].rev /\ adapter[g].epochs \in Epochs
      /\ down[g] \in Seq(DownFrame)
  BY <1>1, CoverTypes, HeadTyped DEF CoverInv, Reads
<1>5. CoverAt(g)
  BY DEF CoverInv
<1>6. CASE snap.rev < recon[g].rev
  <2>1. \A s \in Session : Knows(g, s)' => Knows(g, s)
    BY <1>1, <1>2, <1>6 DEF Knows
  <2>2. /\ Seq(CoverFrame(g)) \subseteq Seq(CoverFrame(g)')
        /\ Covers(g, adapter[g].epochs) => Covers(g, adapter[g].epochs)'
    BY <1>1, <1>4, <2>1, CoverShrinks
  <2>3. Authority(g)'
    BY <1>1, <1>2, <1>5, <2>2 DEF CoverAt, Authority, Covers
  <2>4. CoverAt(g)'
    BY <1>1, <1>5, <2>2, <2>3 DEF CoverAt
  <2> QED BY <1>1, <1>2, <1>3, <2>4, CoverGateway
<1>7. CASE ~(snap.rev < recon[g].rev)
  <2>1. \A s \in Session : Knows(g, s)' => Knows(g, s) \/ snap.epochs[s] = assignment[s].epoch
    BY <1>1, <1>2, <1>7 DEF Knows
  <2>2. Authority(g)'
    BY <1>1, <1>2, <1>4, <1>7 DEF Authority
  <2>3. ASSUME NEW i \in 1..Len(down[g]) PROVE down[g][i] \in CoverFrame(g)'
    <3>1. down[g][i] \in CoverFrame(g) /\ down[g][i] \in DownFrame
      BY <1>4, <1>5 DEF CoverAt
    <3>2. down[g][1] = snap
      BY <1>1, <1>4
    <3>3. ASSUME down[g][i].type = "snapshot", NEW s \in Session, Mine(g, s), Knows(g, s)'
          PROVE  down[g][i].epochs[s] = assignment[s].epoch
      <4>1. CASE Knows(g, s)
        BY <3>1, <3>3, <4>1 DEF CoverFrame, Covers
      <4>2. CASE snap.epochs[s] = assignment[s].epoch /\ i = 1
        BY <3>2, <4>2
      <4>3. CASE snap.epochs[s] = assignment[s].epoch /\ 1 < i
        <5>1. 1 \in 1..Len(down[g])
          BY <1>1, <1>4
        <5>2. Newer(assignment, g, down[g])
          BY <1>5 DEF CoverAt
        <5> QED BY <1>1, <3>2, <3>3, <4>3, <5>1, <5>2 DEF Newer, Mine
      <4> QED BY <2>1, <3>3, <4>1, <4>2, <4>3
    <3> QED BY <1>1, <3>1, <3>3 DEF CoverFrame, Covers, Mine
  <2>4. down[g] \in Seq(CoverFrame(g)')
    BY <1>4, <2>3
  <2>5. CoverAt(g)'
    BY <1>1, <1>5, <2>2, <2>4 DEF CoverAt
  <2> QED BY <1>1, <1>2, <1>3, <2>5, CoverGateway
<1> QED BY <1>6, <1>7

\* The adapter goes by the snapshot that was at the head of the stream.
LEMMA CoverFinishApply ==
    ASSUME CoverInv, EntriesInv', NEW g \in Gateway, FinishApply(g) PROVE CoverInv'
<1> USE DEF mysql
<1> DEFINE snap == Head(down[g])
<1>1. /\ UNCHANGED <<assignment, revision, connEpoch, handler>>
      /\ UNCHANGED <<journal, sink>>
      /\ down[g] # <<>> /\ stream[g].applying /\ stream[g].epoch # 0
  BY CoverTypes DEF FinishApply, Typed, StreamShape
<1>2. /\ recon'[g].epochs = recon[g].epochs
      /\ recon'[g].rev = IF snap.rev < recon[g].rev THEN recon[g].rev ELSE snap.rev
      /\ adapter'[g] = SetDesiredAssignments(adapter[g], snap)
      /\ ~stream'[g].applying /\ down'[g] = Tail(down[g])
      /\ \A h \in Gateway : h # g => /\ recon'[h] = recon[h] /\ stream'[h] = stream[h]
                                     /\ adapter'[h] = adapter[h] /\ down'[h] = down[h]
  BY CoverTypes DEF FinishApply, Streams
<1>3. adapter'[g].rev = recon'[g].rev
  BY <1>2 DEF SetDesiredAssignments, CoverInv, Reads
<1>4. Reads'
  BY <1>1, <1>2, <1>3, ReadsKept DEF CoverInv, Reads
<1>5. /\ snap.rev \in Nat /\ snap.epochs \in Epochs
      /\ adapter[g].rev \in Nat /\ adapter[g].epochs \in Epochs
      /\ down[g] \in Seq(DownFrame)
  BY <1>1, CoverTypes, HeadTyped
<1>6. CoverAt(g)
  BY DEF CoverInv
<1>7. \A s \in Session : Knows(g, s)' => Knows(g, s)
  BY <1>1, <1>2 DEF Knows
<1>8. /\ Seq(CoverFrame(g)) \subseteq Seq(CoverFrame(g)')
      /\ \A E \in Epochs : Covers(g, E) => Covers(g, E)'
  BY <1>1, <1>7, CoverShrinks
<1>9. Covers(g, snap.epochs)
  <2>1. snap \in CoverFrame(g) /\ snap.type = "snapshot"
    BY <1>1, <1>6 DEF CoverAt
  <2> QED BY <2>1 DEF CoverFrame
<1>10. Authority(g)'
  <2>1. CASE snap.rev < adapter[g].rev
    <3>1. adapter'[g] = adapter[g]
      BY <1>2, <2>1 DEF SetDesiredAssignments
    <3>2. adapter[g].live => Covers(g, adapter[g].epochs)
      BY <1>1, <1>5, <1>6, <2>1 DEF CoverAt, Authority
    <3>3. adapter[g].live =>
             \A s \in Session : (Mine(g, s) /\ Knows(g, s)') =>
                adapter[g].epochs[s] = assignment[s].epoch
      BY <1>7, <3>2 DEF Covers
    <3> QED BY <1>1, <3>1, <3>3 DEF Authority, Covers, Mine
  <2>2. CASE ~(snap.rev < adapter[g].rev)
    <3>1. adapter'[g].epochs = snap.epochs
      BY <1>2, <2>2 DEF SetDesiredAssignments
    <3>2. \A s \in Session : (Mine(g, s) /\ Knows(g, s)') => snap.epochs[s] = assignment[s].epoch
      BY <1>7, <1>9 DEF Covers
    <3> QED BY <1>1, <3>1, <3>2 DEF Authority, Covers, Mine
  <2> QED BY <2>1, <2>2
<1>11. Tail(down[g]) \in Seq(CoverFrame(g)) /\ Newer(assignment, g, Tail(down[g]))
  BY <1>1, <1>5, <1>6, NewerSeq DEF CoverAt
<1>12. CoverAt(g)'
  BY <1>1, <1>2, <1>8, <1>10, <1>11 DEF CoverAt
<1> QED BY <1>1, <1>2, <1>4, <1>12, CoverGateway

-----------------------------------------------------------------------------
(* Transactions.                                                           *)

\* Nothing a gateway holds, read or is sent is ahead of the table.
LEMMA NothingIsAhead ==
    ASSUME CoverInv, NEW g \in Gateway, NEW s \in Session
    PROVE  /\ recon[g].epochs[s] <= assignment[s].epoch
           /\ \A x \in sink[g] : SessionOf[x.id] = s => x.epoch <= assignment[s].epoch
           /\ \A r \in journal[g].entries :
                 SessionOf[r.id] = s => r.epoch <= assignment[s].epoch
           /\ \A i \in 1..Len(down[g]) : down[g][i].epochs[s] <= assignment[s].epoch
<1>1. assignment[s].epoch \in Nat
  BY CoverTypes DEF Tables
<1>2. ASSUME NEW E \in Fenced(assignment, g) PROVE E[s] <= assignment[s].epoch
  BY <1>1 DEF Fenced, FencedAt, Epochs
<1>3. recon[g].epochs[s] <= assignment[s].epoch
  BY <1>2 DEF CoverInv, EntriesInv, FenceInv
<1>4. ASSUME NEW i \in 1..Len(down[g]) PROVE down[g][i].epochs[s] <= assignment[s].epoch
  <2>1. down[g] \in Seq(FencedFrame(assignment, g))
    BY DEF CoverInv, EntriesInv, FenceInv
  <2>2. down[g][i] \in FencedFrame(assignment, g)
    BY <2>1
  <2> QED BY <1>2, <2>2 DEF FencedFrame
<1>5. ASSUME NEW x \in sink[g], SessionOf[x.id] = s PROVE x.epoch <= assignment[s].epoch
  <2>1. x \in Labelled(assignment, g)
    BY DEF CoverInv, EntriesInv
  <2> QED BY <1>1, <1>5, <2>1 DEF Labelled, FencedAt
<1>6. ASSUME NEW r \in journal[g].entries, SessionOf[r.id] = s
      PROVE  r.epoch <= assignment[s].epoch
  <2>1. Entry(g, r) \in Acceptable(assignment) /\ r.epoch \in Nat
    BY DEF CoverInv, EntriesInv, Traced, Took, Row
  <2>2. Entry(g, r).gw = g /\ Entry(g, r).id = r.id /\ Entry(g, r).epoch = r.epoch
    BY DEF Entry
  <2> QED BY <1>1, <1>6, <2>1, <2>2 DEF Acceptable, FencedAt
<1> QED BY <1>3, <1>4, <1>5, <1>6

\* A transaction: whoever owns a session now either owned it before under this
\* epoch, or has heard nothing of it under this epoch.
LEMMA CoverTransaction ==
    ASSUME CoverInv, EntriesInv', Reads', UNCHANGED <<journal, process, down>>,
           \A g \in Gateway, s \in Session : Mine(g, s)' =>
              \/ Mine(g, s) /\ assignment'[s].epoch = assignment[s].epoch
              \/ assignment[s].epoch < assignment'[s].epoch
    PROVE  CoverInv'
<1> USE DEF process
<1> SUFFICES ASSUME NEW g \in Gateway PROVE CoverAt(g)'
    BY DEF CoverInv
<1>1. CoverAt(g) /\ down[g] \in Seq(DownFrame)
  BY CoverTypes DEF CoverInv
<1>2. assignment \in Tables /\ assignment' \in Tables
  BY CoverTypes DEF EntriesInv, FenceInv, Typed, MySQLOK, MySQLTypeOK, Tables
<1>3. ASSUME NEW s \in Session, Mine(g, s)', Knows(g, s)'
      PROVE  Mine(g, s) /\ Knows(g, s) /\ assignment'[s].epoch = assignment[s].epoch
  <2>1. ~(assignment[s].epoch < assignment'[s].epoch)
    <3> SUFFICES ASSUME assignment[s].epoch < assignment'[s].epoch PROVE FALSE
        OBVIOUS
    <3>1. assignment[s].epoch \in Nat /\ assignment'[s].epoch \in Nat
      BY <1>2 DEF Tables
    <3>2. /\ recon[g].epochs[s] \in Nat
          /\ \A x \in sink[g] : x.epoch \in Nat
          /\ \A r \in journal[g].entries : r.epoch \in Nat
      BY CoverTypes DEF Epochs, Journals, Row
    <3> QED BY <1>3, <3>1, <3>2, NothingIsAhead DEF Knows
  <2> QED BY <1>3, <2>1 DEF Knows
<1>4. \A E \in Epochs : Covers(g, E) => Covers(g, E)'
  BY <1>3 DEF Covers
<1>5. CoverFrame(g) \subseteq CoverFrame(g)'
  BY <1>4 DEF CoverFrame, DownFrame
<1>6. down[g] \in Seq(CoverFrame(g)')
  BY <1>1, <1>5 DEF CoverAt
<1>7. Authority(g)'
  BY <1>1, <1>4, CoverTypes DEF CoverAt, Authority
<1>8. Newer(assignment', g, down[g])
  <2> SUFFICES ASSUME NEW i \in 1..Len(down[g]), NEW j \in 1..Len(down[g]), i < j,
                      down[g][i].type = "snapshot", down[g][j].type = "snapshot",
                      NEW s \in Session, assignment'[s].gw = g,
                      down[g][i].epochs[s] = assignment'[s].epoch
               PROVE  down[g][j].epochs[s] = assignment'[s].epoch
      BY DEF Newer
  <2>1. down[g][i].epochs[s] <= assignment[s].epoch
    BY NothingIsAhead
  <2>2. assignment[s].epoch \in Nat /\ assignment'[s].epoch \in Nat
    BY <1>2 DEF Tables
  <2>3. Mine(g, s) /\ assignment'[s].epoch = assignment[s].epoch
    BY <2>1, <2>2 DEF Mine
  <2> QED BY <1>1, <2>3 DEF CoverAt, Newer, Mine
<1> QED BY <1>1, <1>6, <1>7, <1>8 DEF CoverAt

\* The reads a handler holds are outdated where the assignments change.
LEMMA ReadsTransaction ==
    ASSUME CoverInv, EntriesInv', UNCHANGED <<connEpoch, handler, process>>,
           \A s \in Session : assignment'[s].epoch # 0,
           \A g \in Gateway : \/ Assigned(g)' = Assigned(g) /\ revision[g] <= revision'[g]
                              \/ revision[g] < revision'[g]
    PROVE  Reads'
<1> USE DEF process
<1>1. ASSUME NEW g \in Gateway, NEW c \in ConnEpoch PROVE ReadsAt(g, c)'
  <2>1. revision[g] \in Nat /\ revision'[g] \in Nat /\ handler[g][c].rev \in Nat
    BY CoverTypes DEF EntriesInv, FenceInv, Typed, MySQLOK, MySQLTypeOK, Handlers
  <2>2. ReadsAt(g, c)
    BY DEF CoverInv, Reads
  <2> QED BY <2>1, <2>2 DEF ReadsAt
<1> QED BY <1>1 DEF CoverInv, Reads

\* A reassignment makes every epoch held elsewhere an old one.
LEMMA CoverReassign ==
    ASSUME CoverInv, EntriesInv', NEW s \in Session, NEW g \in Gateway, Reassign(s, g)
    PROVE  CoverInv'
<1> DEFINE old == assignment[s].gw
<1>1. UNCHANGED <<connEpoch, handler, process, journal, down>>
  BY DEF Reassign, network
<1>2. /\ assignment'[s].gw = g /\ assignment'[s].epoch = assignment[s].epoch + 1
      /\ \A t \in Session : t # s => assignment'[t] = assignment[t]
      /\ assignment[s].epoch \in Nat
  BY CoverTypes DEF Reassign, Tables
<1>3. old \in Gateway /\ old # g
  BY CoverTypes DEF Reassign, Tables
<1>4. /\ \A h \in Gateway : revision[h] \in Nat /\ revision[h] <= revision'[h]
      /\ revision[g] < revision'[g] /\ revision[old] < revision'[old]
  <2>1. revision \in [Gateway -> Nat]
    BY CoverTypes
  <2>2. revision' = [revision EXCEPT ![old] = @ + 1, ![g] = @ + 1]
    BY DEF Reassign
  <2> HIDE DEF old
  <2> QED BY <1>3, <2>1, <2>2
<1>5. ASSUME NEW h \in Gateway, h # g, h # old PROVE Assigned(h)' = Assigned(h)
  BY <1>2, <1>5 DEF Assigned
<1>6. Reads'
  BY <1>1, <1>2, <1>4, <1>5, ReadsTransaction DEF CoverInv, Reads
<1>7. \A h \in Gateway, t \in Session : Mine(h, t)' =>
         \/ Mine(h, t) /\ assignment'[t].epoch = assignment[t].epoch
         \/ assignment[t].epoch < assignment'[t].epoch
  BY <1>2 DEF Mine
<1> QED BY <1>1, <1>6, <1>7, CoverTransaction

\* A deletion is final.
LEMMA CoverDeleteSession ==
    ASSUME CoverInv, EntriesInv', NEW s \in Session, DeleteSession(s)
    PROVE  CoverInv'
<1> DEFINE old == assignment[s].gw
<1>1. UNCHANGED <<connEpoch, handler, process, journal, down>>
  BY DEF DeleteSession, network
<1>2. /\ assignment'[s].gw = NoGateway /\ assignment'[s].epoch = assignment[s].epoch
      /\ \A t \in Session : t # s => assignment'[t] = assignment[t]
  BY CoverTypes DEF DeleteSession, Tables
<1>3. old \in Gateway /\ NoGateway \notin Gateway
  BY CoverTypes, ConstantsAssumption DEF DeleteSession, Tables
<1>4. /\ \A h \in Gateway : revision[h] \in Nat /\ revision[h] <= revision'[h]
      /\ revision[old] < revision'[old]
  BY <1>3, CoverTypes DEF DeleteSession
<1>5. ASSUME NEW h \in Gateway, h # old PROVE Assigned(h)' = Assigned(h)
  BY <1>2, <1>3, <1>5 DEF Assigned
<1>6. Reads'
  BY <1>1, <1>2, <1>4, <1>5, ReadsTransaction DEF CoverInv, Reads
<1>7. \A h \in Gateway, t \in Session : Mine(h, t)' =>
         Mine(h, t) /\ assignment'[t].epoch = assignment[t].epoch
  BY <1>2, <1>3 DEF Mine
<1> QED BY <1>1, <1>6, <1>7, CoverTransaction

\* A configuration change moves no assignment.
LEMMA CoverUpdateConfig ==
    ASSUME CoverInv, EntriesInv', NEW s \in Session, UpdateConfig(s)
    PROVE  CoverInv'
<1>1. UNCHANGED <<assignment, connEpoch, handler, process, journal, down>>
  BY DEF UpdateConfig, network
<1>2. \A h \in Gateway : Assigned(h)' = Assigned(h) /\ revision[h] <= revision'[h]
  BY <1>1, CoverTypes DEF Assigned, UpdateConfig
<1>3. Reads'
  BY <1>1, <1>2, ReadsTransaction DEF CoverInv, Reads
<1> QED BY <1>1, <1>3, CoverTransaction DEF Mine

\* Steps that touch nothing of this.
LEMMA CoverOthers ==
    ASSUME CoverInv, EntriesInv',
           UNCHANGED <<assignment, revision, connEpoch, journal, process, down, handler>>
    PROVE  CoverInv'
<1>1. Reads'
  BY ReadsKept DEF CoverInv, Reads, process
<1> QED BY <1>1, CoverTransaction DEF Mine

-----------------------------------------------------------------------------
(* The handlers.                                                           *)

\* A handler moves to state h and sends a frame or none; a snapshot it sends
\* names every session of the gateway under its current epoch.
LEMMA CoverHandler ==
    ASSUME CoverInv, EntriesInv', UNCHANGED <<assignment, revision, connEpoch, journal, process>>,
           NEW g \in Gateway, NEW c \in ConnEpoch, NEW h \in Handlers,
           handler' = [handler EXCEPT ![g][c] = h],
           h.rev <= revision[g],
           h.pc \in {"list", "recheck"} => c <= connEpoch[g],
           (h.pc = "recheck" /\ h.rev = revision[g] /\ connEpoch[g] = c)
              => h.epochs = Assigned(g),
           NEW f \in DownFrame,
           f.type = "snapshot" => \A s \in Session : Mine(g, s) => f.epochs[s] = assignment[s].epoch,
           \A k \in Gateway : down'[k] = down[k] \/ (k = g /\ down'[k] = Append(down[k], f))
    PROVE  CoverInv'
<1> USE DEF process
<1>1. Reads'
  <2>1. \A x \in Gateway, y \in ConnEpoch :
           handler'[x][y] = IF x = g /\ y = c THEN h ELSE handler[x][y]
    BY CoverTypes, CellReplaced
  <2>2. \A x \in Gateway : Assigned(x)' = Assigned(x)
    BY DEF Assigned
  <2>3. ASSUME NEW x \in Gateway, NEW y \in ConnEpoch PROVE ReadsAt(x, y)'
    <3>1. ReadsAt(x, y)
      BY DEF CoverInv, Reads
    <3> QED BY <2>1, <2>2, <3>1 DEF ReadsAt
  <2> QED BY <2>3 DEF CoverInv, Reads
<1>2. CoverAt(g)'
  <2>1. CoverAt(g) /\ down[g] \in Seq(DownFrame)
    BY CoverTypes DEF CoverInv
  <2>2. CASE down'[g] = down[g]
    BY <2>1, <2>2, CoverElsewhere
  <2>3. CASE down'[g] = Append(down[g], f)
    <3>1. \A s \in Session : Knows(g, s)' => Knows(g, s)
      BY DEF Knows
    <3>2. /\ CoverFrame(g) \subseteq CoverFrame(g)'
          /\ Seq(CoverFrame(g)) \subseteq Seq(CoverFrame(g)')
          /\ \A E \in Epochs : Covers(g, E) => Covers(g, E)'
      BY <3>1, CoverShrinks
    <3>3. f \in CoverFrame(g)
      BY DEF CoverFrame, Covers
    <3>4. Append(down[g], f) \in Seq(CoverFrame(g)')
      BY <2>1, <3>2, <3>3 DEF CoverAt
    <3>5. Newer(assignment, g, Append(down[g], f))
      BY <2>1, NewerSeq DEF CoverAt, Mine
    <3>6. stream[g].applying => down[g] # <<>>
      BY CoverTypes DEF Typed, StreamShape
    <3>7. stream[g].applying => Head(Append(down[g], f)) = Head(down[g])
      BY <2>1, <3>6
    <3>8. Authority(g)'
      BY <2>1, <2>3, <3>2, <3>7, CoverTypes DEF CoverAt, Authority
    <3> QED BY <2>1, <2>3, <3>4, <3>5, <3>7, <3>8 DEF CoverAt
  <2> QED BY <2>2, <2>3
<1> QED BY <1>1, <1>2, CoverGateway

\* A frame that is no snapshot, and a handler that reads nothing.
LEMMA CoverHandlerAt ==
    ASSUME CoverInv, EntriesInv', UNCHANGED <<assignment, revision, connEpoch, journal, process>>,
           NEW g \in Gateway, NEW c \in ConnEpoch, NEW h \in Handlers,
           handler' = [handler EXCEPT ![g][c] = h],
           h.rev = 0, h.pc \notin {"list", "recheck"},
           UNCHANGED down
    PROVE  CoverInv'
<1>1. Armed \in DownFrame /\ Armed.type # "snapshot"
  BY CoverTypes, ProcessTypes DEF Armed, DownFrame
<1>2. h.rev <= revision[g]
  BY CoverTypes
<1>3. \A k \in Gateway : down'[k] = down[k] \/ (k = g /\ down'[k] = Append(down[k], Armed))
  OBVIOUS
<1>4. h.pc \in {"list", "recheck"} => c <= connEpoch[g]
  OBVIOUS
<1>5. (h.pc = "recheck" /\ h.rev = revision[g] /\ connEpoch[g] = c) => h.epochs = Assigned(g)
  OBVIOUS
<1>6. Armed.type = "snapshot" =>
         \A s \in Session : Mine(g, s) => Armed.epochs[s] = assignment[s].epoch
  BY <1>1
<1> QED BY <1>1, <1>2, <1>3, <1>4, <1>5, <1>6, CoverHandler, Zenon

\* A cut keeps the cover.
LEMMA CoverCloses ==
    ASSUME CoverInv, EntriesInv', UNCHANGED <<assignment, revision, connEpoch, journal, process>>,
           NEW g \in Gateway, NEW c \in ConnEpoch, Close(g, c)
    PROVE  CoverInv'
<1>1. /\ HandlerAt("closed") \in Handlers /\ HandlerAt("closed").rev = 0
      /\ HandlerAt("closed").pc \notin {"list", "recheck"}
  BY CoverTypes, ProcessTypes DEF HandlerAt, Handlers
<1> QED BY <1>1, CoverHandlerAt DEF Close

\* A handler that starts to read has read nothing.
LEMMA CoverStartPush ==
    ASSUME CoverInv, EntriesInv', UNCHANGED <<assignment, revision, connEpoch, journal, process>>,
           NEW g \in Gateway, NEW c \in ConnEpoch, NEW rest, StartPush(g, c, rest)
    PROVE  CoverInv'
<1> DEFINE h == [HandlerAt("list") EXCEPT !.rev = revision[g]]
<1>1. CASE ~(connEpoch[g] = c)
  BY <1>1, CoverCloses DEF StartPush
<1>2. CASE connEpoch[g] = c
  <2>1. revision[g] \in Nat /\ c \in Nat
    BY CoverTypes DEF ConnEpoch
  <2>2. h \in Handlers /\ h.rev = revision[g] /\ h.pc = "list"
    BY <2>1, CoverTypes, ProcessTypes DEF HandlerAt, Handlers
  <2>3. handler' = [handler EXCEPT ![g][c] = h] /\ Deliver(g, c, Armed)
    BY <1>2 DEF StartPush
  <2>4. Armed \in DownFrame /\ Armed.type # "snapshot"
    BY CoverTypes, ProcessTypes DEF Armed, DownFrame
  <2>5. \A k \in Gateway : down'[k] = down[k] \/ (k = g /\ down'[k] = Append(down[k], Armed))
    BY <2>3, CoverTypes, MovesDeliver
  <2> HIDE DEF h
  <2>6. /\ h.rev <= revision[g] /\ c <= connEpoch[g] /\ h.pc # "recheck"
    BY <1>2, <2>1, <2>2
  <2> QED BY <2>2, <2>3, <2>4, <2>5, <2>6, CoverHandler, Zenon
<1> QED BY <1>1, <1>2

\* The assignments just read are those of the table.
LEMMA CoverListAssignments ==
    ASSUME CoverInv, EntriesInv', NEW g \in Gateway, NEW c \in ConnEpoch, ListAssignments(g, c)
    PROVE  CoverInv'
<1> DEFINE E == IF revision[g] = handler[g][c].rev /\ connEpoch[g] = c
                THEN Assigned(g) ELSE NoEpochs
           h == [handler[g][c] EXCEPT !.pc = "recheck", !.epochs = E]
<1>1. /\ handler' = [handler EXCEPT ![g][c] = h] /\ UNCHANGED down
      /\ UNCHANGED <<assignment, revision, connEpoch, journal, process>>
  BY DEF ListAssignments, mysql
<1>2. E \in Epochs
  BY CoverTypes, ReadsAreFenced
<1>3. (handler[g][c].rev = revision[g] /\ connEpoch[g] = c) => E = Assigned(g)
  OBVIOUS
<1> HIDE DEF E
<1>4. handler[g][c] \in Handlers /\ handler[g][c].pc = "list" /\ ReadsAt(g, c)
  BY CoverTypes DEF ListAssignments, CoverInv, Reads
<1>5. h \in Handlers /\ h.pc = "recheck" /\ h.rev = handler[g][c].rev /\ h.epochs = E
  BY <1>2, <1>4 DEF Handlers
<1>6. Armed \in DownFrame /\ Armed.type # "snapshot"
  BY CoverTypes, ProcessTypes DEF Armed, DownFrame
<1> HIDE DEF h
<1>7. h.rev <= revision[g] /\ c <= connEpoch[g]
  BY <1>4, <1>5 DEF ReadsAt
<1> QED BY <1>1, <1>3, <1>5, <1>6, <1>7, CoverHandler

\* The recheck: what is pushed is the complete assignment set of this moment.
LEMMA CoverPushDesiredState ==
    ASSUME CoverInv, EntriesInv', NEW g \in Gateway, NEW c \in ConnEpoch, PushDesiredState(g, c)
    PROVE  CoverInv'
<1> DEFINE h == handler[g][c]
           frame == Snapshot(h.rev, h.epochs)
<1>1. UNCHANGED <<assignment, revision, connEpoch, journal, process>>
  BY DEF PushDesiredState, mysql
<1>2. CASE Close(g, c)
  BY <1>1, <1>2, CoverCloses
<1>3. CASE /\ revision[g] = h.rev /\ connEpoch[g] = c
           /\ Deliver(g, c, frame) /\ handler' = [handler EXCEPT ![g][c] = HandlerAt("idle")]
  <2>1. h \in Handlers /\ h.epochs = Assigned(g)
    BY <1>3, CoverTypes DEF PushDesiredState, CoverInv, Reads, ReadsAt
  <2>2. frame \in DownFrame /\ frame.epochs = Assigned(g)
    BY <2>1 DEF Snapshot, DownFrame, Handlers
  <2>3. \A s \in Session : Mine(g, s) => frame.epochs[s] = assignment[s].epoch
    BY <2>2 DEF Assigned, Mine
  <2>4. /\ HandlerAt("idle") \in Handlers /\ HandlerAt("idle").rev = 0
        /\ HandlerAt("idle").pc \notin {"list", "recheck"}
    BY CoverTypes, ProcessTypes DEF HandlerAt, Handlers
  <2> HIDE DEF frame
  <2>5. \A k \in Gateway : down'[k] = down[k] \/ (k = g /\ down'[k] = Append(down[k], frame))
    BY <1>3, CoverTypes, MovesDeliver
  <2>6. HandlerAt("idle").rev <= revision[g] /\ HandlerAt("idle").pc # "recheck"
    BY <2>4, CoverTypes
  <2> QED BY <1>1, <1>3, <2>2, <2>3, <2>4, <2>5, <2>6, CoverHandler, Zenon
<1> QED BY <1>2, <1>3 DEF PushDesiredState

\* The fence reads no assignment into the snapshot.
LEMMA CoverIngestFence ==
    ASSUME CoverInv, EntriesInv', NEW g \in Gateway, NEW c \in ConnEpoch, IngestFence(g, c)
    PROVE  CoverInv'
<1> DEFINE batch == Head(up[g][c]).batch
           h == [HandlerAt("ingest") EXCEPT !.batch = batch]
<1>1. /\ UNCHANGED <<assignment, revision, connEpoch, journal, process>>
      /\ up[g][c] # <<>>
  BY DEF IngestFence, Taken, mysql
<1>2. CASE Close(g, c)
  BY <1>1, <1>2, CoverCloses
<1>3. CASE handler' = [handler EXCEPT ![g][c] = h] /\ UNCHANGED down
  <2>1. batch \in SUBSET Row
    BY <1>1, CoverTypes, HandlerTypes DEF Frames, UpFrame
  <2>2. h \in Handlers /\ h.rev = 0 /\ h.pc \notin {"list", "recheck"}
    BY <2>1, CoverTypes, ProcessTypes DEF HandlerAt, Handlers
  <2> HIDE DEF h
  <2> QED BY <1>1, <1>3, <2>2, CoverHandlerAt
<1> QED BY <1>2, <1>3 DEF IngestFence

\* A commit adds to the ledger, which only helps.
LEMMA CoverIngestCommit ==
    ASSUME CoverInv, EntriesInv', NEW g \in Gateway, NEW c \in ConnEpoch, IngestCommit(g, c)
    PROVE  CoverInv'
<1> DEFINE batch == handler[g][c].batch
           frame == EventAck(LastSeq(batch))
<1>1. UNCHANGED <<assignment, revision, connEpoch, journal, process>>
  BY DEF IngestCommit
<1>2. CASE Close(g, c)
  BY <1>1, <1>2, CoverCloses
<1>3. CASE Deliver(g, c, frame) /\ handler' = [handler EXCEPT ![g][c] = HandlerAt("idle")]
  <2>1. batch \in Batches(g) /\ batch # {} /\ journal[g].next \in Nat
    BY CoverTypes DEF IngestCommit, Typed, NetworkOK, HandlerShape, Journals
  <2>2. LastSeq(batch) \in Nat
    <3> HIDE DEF batch
    <3>1. \A r \in batch : r.seq \in Nat /\ r.seq < journal[g].next
      BY <2>1 DEF Batches, Row
    <3> QED BY <2>1, <3>1, LastSeqIsNewest
  <2>3. frame \in DownFrame /\ frame.type # "snapshot"
    BY <2>2, CoverTypes, ProcessTypes DEF EventAck, DownFrame
  <2>4. /\ HandlerAt("idle") \in Handlers /\ HandlerAt("idle").rev = 0
        /\ HandlerAt("idle").pc \notin {"list", "recheck"}
    BY CoverTypes, ProcessTypes DEF HandlerAt, Handlers
  <2> HIDE DEF frame
  <2>5. \A k \in Gateway : down'[k] = down[k] \/ (k = g /\ down'[k] = Append(down[k], frame))
    BY <1>3, CoverTypes, MovesDeliver
  <2>6. HandlerAt("idle").rev <= revision[g] /\ HandlerAt("idle").pc # "recheck"
    BY <2>4, CoverTypes
  <2> QED BY <1>1, <1>3, <2>3, <2>4, <2>5, <2>6, CoverHandler, Zenon
<1> QED BY <1>2, <1>3 DEF IngestCommit

\* A new connection: what the handler before it read is outdated, its own has
\* read nothing.
LEMMA CoverAccept ==
    ASSUME CoverInv, EntriesInv', NEW g \in Gateway, Connect(g) \/ ProveCurrentConnection(g)
    PROVE  CoverInv'
<1> DEFINE c == connEpoch[g] + 1
<1>1. c \in ConnEpoch /\ connEpoch[g] \in Nat
  BY ConstantsAssumption, CoverTypes DEF Connect, ProveCurrentConnection, ConnEpoch
<1>2. PICK pc \in {"accepted", "closed"} : AcceptConnection(g, pc)
  BY DEF Connect, ProveCurrentConnection
<1>3. /\ UNCHANGED <<assignment, revision, journal, sink, recon, down>>
      /\ handler' = [handler EXCEPT ![g][c] = HandlerAt(pc)]
      /\ connEpoch' = [connEpoch EXCEPT ![g] = c]
  BY <1>2 DEF Connect, ProveCurrentConnection, AcceptConnection, process
<1>4. /\ HandlerAt(pc) \in Handlers /\ HandlerAt(pc).rev = 0
      /\ HandlerAt(pc).pc \notin {"list", "recheck"}
  BY CoverTypes, ProcessTypes DEF HandlerAt, Handlers
<1>5. \A x \in Gateway, y \in ConnEpoch :
         handler'[x][y] = IF x = g /\ y = c THEN HandlerAt(pc) ELSE handler[x][y]
  <2> HIDE DEF c
  <2> QED BY <1>1, <1>3, <1>4, CoverTypes, CellReplaced
<1>6. ASSUME NEW x \in Gateway, NEW y \in ConnEpoch PROVE ReadsAt(x, y)'
  <2>1. ReadsAt(x, y) /\ revision[x] \in Nat /\ connEpoch[x] \in Nat /\ y \in Nat
    BY CoverTypes DEF CoverInv, Reads, ConnEpoch
  <2>2. /\ x # g => connEpoch'[x] = connEpoch[x]
        /\ connEpoch'[g] = connEpoch[g] + 1
    BY <1>3, CoverTypes
  <2>3. Assigned(x)' = Assigned(x)
    BY <1>3 DEF Assigned
  <2>4. CASE x = g /\ y = c
    BY <1>3, <1>4, <1>5, <2>1, <2>4 DEF ReadsAt
  <2>5. CASE x = g /\ y # c
    BY <1>1, <1>3, <1>5, <2>1, <2>2, <2>5 DEF ReadsAt
  <2>6. CASE x # g
    BY <1>3, <1>5, <2>1, <2>2, <2>3, <2>6 DEF ReadsAt
  <2> QED BY <2>4, <2>5, <2>6
<1>7. /\ adapter'[g].rev = adapter[g].rev /\ ~stream'[g].applying = ~stream[g].applying
      /\ \A h \in Gateway : h # g => adapter'[h] = adapter[h] /\ stream'[h] = stream[h]
      /\ (adapter'[g] = adapter[g] /\ stream'[g] = stream[g]) \/ ~adapter'[g].live
  BY CoverTypes DEF Connect, ProveCurrentConnection, process, Streams
<1>8. Reads'
  BY <1>3, <1>6, <1>7 DEF CoverInv, Reads
<1>9. CoverAt(g)'
  <2>1. CoverAt(g)
    BY DEF CoverInv
  <2>2. CASE adapter'[g] = adapter[g] /\ stream'[g] = stream[g]
    BY <1>3, <2>1, <2>2, CoverElsewhere
  <2>3. CASE ~adapter'[g].live
    <3>1. \A s \in Session : Knows(g, s)' => Knows(g, s)
      BY <1>3 DEF Knows
    <3>2. Seq(CoverFrame(g)) \subseteq Seq(CoverFrame(g)')
      BY <1>3, <3>1, CoverShrinks
    <3> QED BY <1>3, <1>7, <2>1, <2>3, <3>2 DEF CoverAt, Authority
  <2> QED BY <1>7, <2>2, <2>3
<1> QED BY <1>3, <1>7, <1>8, <1>9, CoverGateway

\* Every step keeps the cover.
LEMMA CoverStep == CoverInv /\ [Next]_vars => CoverInv'
<1> SUFFICES ASSUME CoverInv, [Next]_vars PROVE CoverInv'
    OBVIOUS
<1>e. EntriesInv'
  BY EntriesStep DEF CoverInv
<1> DEFINE still == UNCHANGED <<assignment, revision, connEpoch, journal, process>>
           kept == still /\ UNCHANGED <<down, handler>>
<1>1. ASSUME NEW g \in Gateway, SupervisorStep(g) PROVE CoverInv'
  BY <1>e, <1>1, CoverAccept, CoverReplays, CoverBeginApply, CoverFinishApply,
     CoverLeavesStream DEF SupervisorStep
<1>2. ASSUME NEW g \in Gateway, NEW c \in ConnEpoch, HandlerStep(g, c) PROVE CoverInv'
  <2>1. CASE HandleHello(g, c)
    BY <1>e, <2>1, CoverStartPush DEF HandleHello, mysql
  <2>2. CASE HandleHeartbeat(g, c)
    BY <1>e, <2>2, CoverStartPush DEF HandleHeartbeat, mysql
  <2>3. CASE PersistReport(g, c)
    BY <1>e, <2>3, CoverCloses, CoverOthers DEF PersistReport, mysql
  <2>4. CASE HandlerReturns(g, c)
    BY <1>e, <2>4, CoverCloses DEF HandlerReturns, mysql
  <2> QED BY <1>e, <1>2, <2>1, <2>2, <2>3, <2>4, CoverListAssignments, CoverPushDesiredState,
             CoverIngestFence, CoverIngestCommit DEF HandlerStep
<1>3. ASSUME NEW g \in Gateway, NEW c \in ConnEpoch, HandlerFails(g, c) PROVE CoverInv'
  BY <1>e, <1>3, CoverCloses DEF HandlerFails, mysql
<1>4. ASSUME NEW g \in Gateway, SinkStep(g) PROVE CoverInv'
  BY <1>e, <1>4, CoverAppendEvent DEF SinkStep
<1>5. ASSUME NEW m \in Message, AppendOwnSentOnce(m) PROVE CoverInv'
  BY <1>e, <1>5, CoverOthers DEF AppendOwnSentOnce, network
<1>6. CASE UNCHANGED vars
  BY <1>e, <1>6, CoverOthers DEF vars, mysql, network
<1> QED BY <1>e, <1>1, <1>2, <1>3, <1>4, <1>5, <1>6, CoverLabel, CoverExpire, CoverAccept,
           CoverLeavesStream, CoverReassign, CoverDeleteSession, CoverUpdateConfig DEF Next

-----------------------------------------------------------------------------
(***************************************************************************)
(* No loss.  A row is gone once the API has it or its assignment is over,  *)
(* and stays gone.  A batch sweeps its gateway's journal: every row up to  *)
(* its newest one is in it or gone.  An acknowledgement on its way covers  *)
(* only rows that are gone.                                                *)
(***************************************************************************)
Gone(g, r) == r.id \in ledger \/ ~Owns(g, SessionOf[r.id], r.epoch)

Sweeps(g) ==
    {b \in Batches(g) : \A q \in b, r \in journal[g].entries :
        r.seq <= q.seq => r \in b \/ Gone(g, r)}

SweepFrame(g) == {f \in UpFrame : f.batch \in Sweeps(g)}

AckFrame(g) ==
    {f \in DownFrame : f.type = "ack" =>
        /\ f.seq < journal[g].next
        /\ \A r \in journal[g].entries : r.seq <= f.seq => Gone(g, r)}

SweepInv ==
    /\ CoverInv
    /\ \A g \in Gateway : down[g] \in Seq(AckFrame(g))
    /\ \A g \in Gateway, c \in ConnEpoch : /\ up[g][c] \in Seq(SweepFrame(g))
                                           /\ handler[g][c].batch \in Sweeps(g)
    /\ NoLoss

\* Nothing was accepted at first.
LEMMA SweepInit == Init => SweepInv
<1> SUFFICES ASSUME Init PROVE SweepInv
    OBVIOUS
<1>1. CoverInv /\ Typed
  BY CoverInit, TypedInit
<1>2. ASSUME NEW g \in Gateway PROVE down[g] \in Seq(AckFrame(g))
  BY DEF Init
<1>3. ASSUME NEW g \in Gateway, NEW c \in ConnEpoch
      PROVE  up[g][c] \in Seq(SweepFrame(g)) /\ handler[g][c].batch \in Sweeps(g)
  <2>1. up[g][c] = <<>> /\ handler[g][c].batch = {}
    BY DEF Init, HandlerAt
  <2>2. {} \in Sweeps(g)
    BY FS_EmptySet DEF Sweeps, Batches, Distinct
  <2> QED BY <2>1, <2>2
<1>4. NoLoss
  BY DEF Init, NoLoss
<1> QED BY <1>1, <1>2, <1>3, <1>4 DEF SweepInv

\* The ledger forgets only what belongs to a deleted session.
LEMMA LedgerMoves ==
    ASSUME Typed, [Next]_vars
    PROVE  ledger \subseteq ledger' \/ \E s \in Session : DeleteSession(s)
<1> USE DEF mysql
<1>1. ASSUME NEW g \in Gateway, SupervisorStep(g) PROVE ledger \subseteq ledger'
  <2>1. CASE Connect(g)
    BY <2>1 DEF Connect, AcceptConnection
  <2>2. CASE SendHeartbeat(g) \/ ArmHeartbeat(g) \/ HandleEventAck(g)
    BY <2>2 DEF SendHeartbeat, ArmHeartbeat, HandleEventAck
  <2>3. CASE BeginApply(g) \/ FinishApply(g) \/ StreamClosed(g)
    BY <2>3 DEF BeginApply, FinishApply, StreamClosed
  <2> QED BY <1>1, <2>1, <2>2, <2>3 DEF SupervisorStep
<1>2. ASSUME NEW g \in Gateway, NEW c \in ConnEpoch, HandlerStep(g, c) \/ HandlerFails(g, c)
      PROVE  ledger \subseteq ledger'
  <2>1. CASE IngestCommit(g, c)
    BY <2>1 DEF IngestCommit
  <2>2. CASE HandleHello(g, c) \/ HandleHeartbeat(g, c) \/ ListAssignments(g, c)
    BY <2>2 DEF HandleHello, HandleHeartbeat, ListAssignments
  <2>3. CASE PushDesiredState(g, c) \/ PersistReport(g, c) \/ IngestFence(g, c)
    BY <2>3 DEF PushDesiredState, PersistReport, IngestFence
  <2>4. CASE HandlerReturns(g, c) \/ HandlerFails(g, c)
    BY <2>4 DEF HandlerReturns, HandlerFails
  <2> QED BY <1>2, <2>1, <2>2, <2>3, <2>4 DEF HandlerStep
<1>3. ASSUME NEW g \in Gateway, SinkStep(g) PROVE ledger \subseteq ledger'
  BY <1>3 DEF SinkStep, AppendEvent
<1>4. ASSUME NEW g \in Gateway, NEW id \in EventId, Label(g, id) PROVE ledger \subseteq ledger'
  BY <1>4 DEF Label
<1>5. ASSUME NEW g \in Gateway, Expire(g) \/ ProveCurrentConnection(g) \/ FailApply(g)
                                \/ StreamBreak(g) \/ Crash(g)
       PROVE  ledger \subseteq ledger'
  BY <1>5 DEF Expire, ProveCurrentConnection, AcceptConnection, FailApply, StreamBreak, Crash
<1>6. ASSUME NEW s \in Session, NEW g \in Gateway, Reassign(s, g) PROVE ledger \subseteq ledger'
  BY <1>6 DEF Reassign
<1>7. ASSUME NEW s \in Session, UpdateConfig(s) PROVE ledger \subseteq ledger'
  BY <1>7 DEF UpdateConfig
<1>8. ASSUME NEW m \in Message, AppendOwnSentOnce(m) PROVE ledger \subseteq ledger'
  BY <1>8 DEF AppendOwnSentOnce
<1>9. CASE UNCHANGED vars
  BY <1>9 DEF vars
<1> QED BY <1>1, <1>2, <1>3, <1>4, <1>5, <1>6, <1>7, <1>8, <1>9 DEF Next

\* What is settled stays settled: an assignment that is over does not return,
\* and the ledger forgets an event only with its session.
LEMMA SettledIsStable ==
    ASSUME EntriesInv, [Next]_vars, NEW x \in accepted, Settled(x)
    PROVE  Settled(x)'
<1> DEFINE s == SessionOf[x.id]
<1>1. Typed /\ Typed'
  BY TypedStep DEF EntriesInv, FenceInv
<1>2. x \in Acceptable(assignment)
  BY DEF EntriesInv
<1>3. /\ s \in Session /\ x.gw \in Gateway /\ x.gw # NoGateway /\ x.epoch \in Nat
      /\ x.id \in EventId /\ FencedAt(assignment, x.gw, s, x.epoch)
  BY <1>2, ConstantsAssumption DEF Acceptable
<1>4. assignment \in Tables /\ assignment' \in Tables
  BY <1>1 DEF Typed, MySQLOK, MySQLTypeOK, Tables
<1>5. assignment[s].epoch \in Nat /\ assignment'[s].epoch \in Nat
  BY <1>3, <1>4 DEF Tables
<1> HIDE DEF s
<1>6. Owns(x.gw, s, x.epoch) <=> (assignment[s].gw = x.gw /\ assignment[s].epoch = x.epoch)
  BY <1>3, <1>4 DEF Owns, Tables
<1>7. Owns(x.gw, s, x.epoch)' <=> (assignment'[s].gw = x.gw /\ assignment'[s].epoch = x.epoch)
  BY <1>3, <1>4 DEF Owns, Tables
<1>8. CASE ~Owns(x.gw, s, x.epoch)
  <2>1. ~Owns(x.gw, s, x.epoch)'
    BY <1>1, <1>3, <1>5, <1>6, <1>7, <1>8, EntriesMove DEF Follows, FencedAt
  <2> QED BY <2>1 DEF Settled, s
<1>9. CASE x.id \in ledger
  <2>1. CASE ledger \subseteq ledger'
    BY <1>9, <2>1 DEF Settled
  <2>2. ASSUME NEW t \in Session, DeleteSession(t) PROVE Settled(x)'
    <3>1. CASE s = t
      <4>1. assignment'[s].gw = NoGateway
        BY <1>4, <2>2, <3>1 DEF DeleteSession, Tables
      <4> QED BY <1>3, <1>7, <4>1 DEF Settled, s
    <3>2. CASE s # t
      BY <1>9, <2>2, <3>2 DEF Settled, DeleteSession, s
    <3> QED BY <3>1, <3>2
  <2> QED BY <1>1, <2>1, <2>2, LedgerMoves
<1> QED BY <1>8, <1>9 DEF Settled, s

\* What the ledger holds, or a deletion excuses, stays so.
LEMMA GoneIsStable ==
    ASSUME EntriesInv, [Next]_vars, NEW g \in Gateway, NEW r \in Took(g), Gone(g, r)
    PROVE  Gone(g, r)'
<1>1. Entry(g, r) \in accepted
  BY DEF Took
<1>2. Entry(g, r).id = r.id /\ Entry(g, r).gw = g /\ Entry(g, r).epoch = r.epoch
  BY DEF Entry
<1>3. Settled(Entry(g, r)) = Gone(g, r)
  BY <1>2 DEF Settled, Gone
<1> DEFINE x == Entry(g, r)
<1>4. PICK y \in accepted : y = x
  BY <1>1
<1>5. Settled(y)'
  BY <1>3, <1>4, SettledIsStable
<1>6. y.id = r.id /\ y.gw = g /\ y.epoch = r.epoch
  BY <1>2, <1>4
<1> HIDE DEF x
<1> QED BY <1>5, <1>6 DEF Settled, Gone, Owns

-----------------------------------------------------------------------------
\* ReadUnacked hands out the oldest rows.
LEMMA ReadIsPrefix ==
    ASSUME NEW j \in Journals, WellFormed(j), NEW n \in Nat,
           NEW q \in ReadUnacked(j, n), NEW r \in j.entries, r.seq <= q.seq
    PROVE  r \in ReadUnacked(j, n)
<1> DEFINE Older(p) == {o \in j.entries : o.seq < p.seq}
<1>1. q \in j.entries /\ Cardinality(Older(q)) < n
  BY DEF ReadUnacked
<1>2. r.seq \in Nat /\ q.seq \in Nat /\ \A o \in j.entries : o.seq \in Nat
  BY <1>1 DEF Journals, Row
<1>3. Older(r) \subseteq Older(q)
  BY <1>2
<1>4. IsFiniteSet(Older(q))
  BY FS_Subset DEF WellFormed
<1> HIDE DEF Older
<1>5. /\ Cardinality(Older(r)) <= Cardinality(Older(q)) /\ IsFiniteSet(Older(r))
  BY <1>3, <1>4, FS_Subset
<1>6. Cardinality(Older(r)) \in Nat /\ Cardinality(Older(q)) \in Nat
  BY <1>4, <1>5, FS_CardinalityType
<1>7. Cardinality(Older(r)) < n
  BY <1>1, <1>5, <1>6
<1> QED BY <1>7 DEF ReadUnacked, Older

\* A row that the adapter's snapshot does not authorise is over.
LEMMA UnauthorisedIsOver ==
    ASSUME CoverInv, NEW g \in Gateway, Ready(g), adapter[g].live,
           NEW r \in journal[g].entries, adapter[g].epochs[SessionOf[r.id]] # r.epoch
    PROVE  ~Owns(g, SessionOf[r.id], r.epoch)
<1> DEFINE s == SessionOf[r.id]
<1>1. r.id \in EventId /\ s \in Session
  BY CoverTypes, ConstantsAssumption DEF Journals, Row
<1>2. Covers(g, adapter[g].epochs)
  BY DEF CoverInv, CoverAt, Authority, Ready
<1> SUFFICES ASSUME Owns(g, s, r.epoch) PROVE FALSE
    OBVIOUS
<1>3. Mine(g, s) /\ r.epoch = assignment[s].epoch
  BY DEF Owns, Mine
<1>4. Knows(g, s)
  BY <1>3 DEF Knows
<1> QED BY <1>1, <1>2, <1>3, <1>4 DEF Covers

\* Rows leave the journal only when they are gone.
LEMMA RemovedIsGone ==
    ASSUME SweepInv, [Next]_vars, NEW g \in Gateway,
           NEW r \in journal[g].entries, r \notin journal'[g].entries
    PROVE  Gone(g, r)
<1>1. CoverInv /\ Typed /\ Moves
  BY CoverTypes, MovesStep DEF SweepInv
<1>2. journal[g] \in Journals /\ journal \in [Gateway -> Journals]
  BY <1>1, CoverTypes
<1>3. ASSUME NEW e \in sink[g], AppendEvent(g, e) PROVE FALSE
  <2>1. CASE UNCHANGED journal
    BY <2>1
  <2>2. CASE journal' = [journal EXCEPT ![g] = AppendRow(@, e.id, e.epoch)]
    BY <1>2, <2>2 DEF AppendRow
  <2> QED BY <1>3, <2>1, <2>2 DEF AppendEvent
<1>4. PICK j \in Journals : Replays(g, j)
  BY <1>1, <1>3 DEF Moves, JournalMoves
<1>5. WellFormed(j) /\ j.entries \subseteq journal[g].entries
  BY <1>1, <1>4, ReplayJournal
<1>6. CASE r \notin j.entries
  <2>1. HandleEventAck(g) /\ j = AckThrough(journal[g], Head(down[g]).seq)
    BY <1>4, <1>6 DEF Replays
  <2>2. down[g] # <<>> /\ Head(down[g]).type = "ack"
    BY <2>1 DEF HandleEventAck, Received
  <2>3. down[g] \in Seq(AckFrame(g))
    BY DEF SweepInv
  <2>4. Head(down[g]) \in AckFrame(g)
    BY <2>2, <2>3
  <2>5. Head(down[g]).seq \in Nat /\ r.seq \in Nat
    BY <1>1, <1>2, <2>2, HeadTyped DEF DownFrame, Journals, Row
  <2>6. r.seq <= Head(down[g]).seq
    <3> DEFINE a == journal[g]
               q == Head(down[g]).seq
    <3>1. a \in Journals /\ q \in Nat /\ r \in a.entries /\ r \notin AckThrough(a, q).entries
      BY <1>2, <1>6, <2>1, <2>5
    <3> HIDE DEF a, q
    <3>2. AckThrough(a, q).entries \in {a.entries, {x \in a.entries : x.seq > q}}
      BY <3>1 DEF AckThrough, Journals
    <3>3. ~(r.seq > q)
      BY <3>1, <3>2
    <3>4. q = Head(down[g]).seq
      BY DEF q
    <3> QED BY <2>5, <3>3, <3>4
  <2> QED BY <2>2, <2>4, <2>6 DEF AckFrame
<1>7. CASE r \in j.entries
  <2> DEFINE read == ReadUnacked(j, BatchEntries)
  <2>1. journal'[g] = RetireUnowned(g, j) /\ Ready(g)
    BY <1>4 DEF Replays
  <2>2. /\ adapter[g].live /\ read # {} /\ NextEventBatch(g, j) = {}
        /\ journal'[g] = AckThrough(j, LastSeq(read))
    BY <1>7, <2>1 DEF RetireUnowned
  <2>3. read \subseteq j.entries /\ j.next \in Nat
    BY DEF ReadUnacked, Journals
  <2>4. \A q \in j.entries : q.seq \in Nat /\ q.seq < j.next
    BY <1>5 DEF Journals, Row, WellFormed
  <2>5. PICK q \in read : q.seq = LastSeq(read)
    <3> HIDE DEF read
    <3> QED BY <2>2, <2>3, <2>4, LastSeqIsNewest
  <2>6. r.seq <= LastSeq(read)
    <3> HIDE DEF read
    <3>1. LastSeq(read) \in Nat /\ r.seq \in Nat
      BY <1>7, <2>3, <2>4, <2>5
    <3> QED BY <1>7, <2>2, <3>1 DEF AckThrough, Journals
  <2>7. r \in read
    <3>1. BatchEntries \in Nat
      BY ConstantsAssumption
    <3>2. q \in ReadUnacked(j, BatchEntries) /\ r.seq <= q.seq
      BY <2>5, <2>6
    <3> QED BY <1>5, <1>7, <3>1, <3>2, ReadIsPrefix
  <2>8. adapter[g].epochs[SessionOf[r.id]] # r.epoch
    BY <2>2, <2>7 DEF NextEventBatch
  <2> QED BY <1>1, <2>1, <2>2, <2>8, UnauthorisedIsOver DEF Gone
<1> QED BY <1>6, <1>7

\* What a batch or an acknowledgement covers, it covers after any step.
LEMMA SweepsGrow ==
    ASSUME SweepInv, [Next]_vars, NEW g \in Gateway
    PROVE  /\ journal[g].next <= journal'[g].next
           /\ \A r \in journal'[g].entries :
                 r \in journal[g].entries \/ r.seq = journal[g].next
           /\ Sweeps(g) \subseteq Sweeps(g)'
           /\ SweepFrame(g) \subseteq SweepFrame(g)'
           /\ Seq(SweepFrame(g)) \subseteq Seq(SweepFrame(g)')
           /\ AckFrame(g) \subseteq AckFrame(g)'
           /\ Seq(AckFrame(g)) \subseteq Seq(AckFrame(g)')
<1>1. EntriesInv /\ Typed /\ Typed' /\ Moves
  BY TypedStep, MovesStep DEF SweepInv, CoverInv, EntriesInv, FenceInv
<1>2. journal \in [Gateway -> Journals] /\ journal' \in [Gateway -> Journals]
  BY <1>1 DEF Typed, GatewayOK, GatewayTypeOK
<1>3. /\ journal[g].next <= journal'[g].next
      /\ \A r \in journal'[g].entries :
            r \in journal[g].entries \/ r.seq = journal[g].next
  <2>1. CASE journal'[g] = journal[g]
    BY <1>2, <2>1 DEF Journals
  <2>2. ASSUME NEW e \in sink[g], AppendEvent(g, e)
        PROVE  /\ journal[g].next <= journal'[g].next
               /\ \A r \in journal'[g].entries :
                     r \in journal[g].entries \/ r.seq = journal[g].next
    <3>1. CASE journal' = [journal EXCEPT ![g] = AppendRow(@, e.id, e.epoch)]
      BY <1>2, <3>1 DEF AppendRow, Journals
    <3>2. CASE journal' = journal
      BY <2>1, <3>2
    <3> QED BY <2>2, <3>1, <3>2 DEF AppendEvent
  <2>3. ASSUME NEW j \in Journals, Replays(g, j)
        PROVE  /\ journal[g].next <= journal'[g].next
               /\ \A r \in journal'[g].entries :
                     r \in journal[g].entries \/ r.seq = journal[g].next
    <3>1. journal'[g].next = journal[g].next /\ journal'[g].entries \subseteq journal[g].entries
      BY <1>1, <2>3, ReplayJournal
    <3> QED BY <1>2, <3>1 DEF Journals
  <2> QED BY <1>1, <2>1, <2>2, <2>3 DEF Moves, JournalMoves
<1>4. \A r \in journal[g].entries : Gone(g, r) => Gone(g, r)'
  BY <1>1, GoneIsStable DEF EntriesInv, Traced
<1>5. journal[g].next \in Nat /\ journal'[g].next \in Nat
  BY <1>2 DEF Journals
<1>6. ASSUME NEW b \in Sweeps(g) PROVE b \in Sweeps(g)'
  <2>1. b \in Batches(g)'
    BY <1>1, <1>3, FramesGrow DEF Sweeps, Typed, GatewayOK
  <2>2. \A q \in b : q.seq \in Nat /\ q.seq < journal[g].next
    BY DEF Sweeps, Batches, Row
  <2>3. ASSUME NEW q \in b, NEW r \in journal'[g].entries, r.seq <= q.seq
        PROVE  r \in b \/ Gone(g, r)'
    <3>1. r \in journal[g].entries
      BY <1>3, <1>5, <2>2, <2>3
    <3> QED BY <1>4, <2>3, <3>1 DEF Sweeps
  <2> QED BY <2>1, <2>3 DEF Sweeps
<1>7. ASSUME NEW f \in AckFrame(g) PROVE f \in AckFrame(g)'
  <2>1. f \in DownFrame /\ f.seq \in Nat
    BY DEF AckFrame, DownFrame
  <2>2. ASSUME f.type = "ack"
        PROVE  /\ f.seq < journal'[g].next
               /\ \A r \in journal'[g].entries : r.seq <= f.seq => Gone(g, r)'
    <3>1. f.seq < journal[g].next /\ \A r \in journal[g].entries : r.seq <= f.seq => Gone(g, r)
      BY <2>2 DEF AckFrame
    <3>2. f.seq < journal'[g].next
      BY <1>3, <1>5, <2>1, <3>1
    <3>3. ASSUME NEW r \in journal'[g].entries, r.seq <= f.seq PROVE Gone(g, r)'
      <4>1. r \in journal[g].entries
        BY <1>3, <1>5, <2>1, <3>1, <3>3
      <4> QED BY <1>4, <3>1, <3>3, <4>1
    <3> QED BY <3>2, <3>3
  <2> QED BY <2>1, <2>2 DEF AckFrame
<1>8. SweepFrame(g) \subseteq SweepFrame(g)'
  BY <1>6 DEF SweepFrame
<1>9. Sweeps(g) \subseteq Sweeps(g)' /\ AckFrame(g) \subseteq AckFrame(g)'
  BY <1>6, <1>7
<1> QED BY <1>3, <1>8, <1>9

\* The batch of a replay sweeps the journal.
LEMMA ReplaySweeps ==
    ASSUME SweepInv, [Next]_vars, NEW g \in Gateway, NEW j \in Journals, Replays(g, j)
    PROVE  NextEventBatch(g, j) \in Sweeps(g)'
<1> DEFINE b == NextEventBatch(g, j)
           read == ReadUnacked(j, BatchEntries)
<1>1. CoverInv /\ Typed /\ Ready(g)
  BY CoverTypes DEF SweepInv, Replays
<1>2. /\ WellFormed(j) /\ j.entries \subseteq journal[g].entries
      /\ journal'[g].entries \subseteq j.entries
      /\ journal'[g].next = j.next
  BY <1>1, ReplayJournal
<1>3. /\ b \subseteq read /\ read \subseteq j.entries
      /\ b \in SUBSET Row /\ IsFiniteSet(b) /\ Distinct(b) /\ \A r \in b : r.seq < j.next
  BY <1>2, BatchIsFromJournal
<1>4. UNCHANGED <<assignment, ledger>>
  BY DEF Replays, SendHeartbeat, HandleEventAck, mysql
<1>5. ASSUME NEW q \in b, NEW r \in journal'[g].entries, r.seq <= q.seq
      PROVE  r \in b \/ Gone(g, r)'
  <2>1. r \in j.entries /\ r \in journal[g].entries
    BY <1>2
  <2>2. BatchEntries \in Nat
    BY ConstantsAssumption
  <2>3. r \in read /\ adapter[g].live
    BY <1>2, <1>3, <1>5, <2>1, <2>2, ReadIsPrefix DEF NextEventBatch
  <2>4. r \notin b => adapter[g].epochs[SessionOf[r.id]] # r.epoch
    BY <2>3 DEF NextEventBatch
  <2>5. r \notin b => ~Owns(g, SessionOf[r.id], r.epoch)
    BY <1>1, <2>1, <2>3, <2>4, UnauthorisedIsOver
  <2> QED BY <1>4, <2>5 DEF Gone, Owns
<1> HIDE DEF b
<1>6. b \in Batches(g)'
  BY <1>2, <1>3 DEF Batches
<1>7. b \in Sweeps(g)'
  BY <1>5, <1>6 DEF Sweeps
<1> QED BY <1>7 DEF b

\* The acknowledgement of a committed batch covers what is committed or over.
LEMMA CommitSweeps ==
    ASSUME SweepInv, [Next]_vars, NEW g \in Gateway, NEW c \in ConnEpoch, IngestCommit(g, c),
           ledger' = ledger \union {r.id : r \in LedgerInserts(handler[g][c].batch)}
    PROVE  EventAck(LastSeq(handler[g][c].batch)) \in AckFrame(g)'
<1> DEFINE b == handler[g][c].batch
           frame == EventAck(LastSeq(b))
<1>1. EntriesInv /\ Typed
  BY DEF SweepInv, CoverInv, EntriesInv, FenceInv
<1>2. b \in Sweeps(g) /\ b # {} /\ UNCHANGED <<journal, assignment>>
  BY <1>1 DEF SweepInv, IngestCommit, Typed, NetworkOK, HandlerShape
<1>3. journal[g].next \in Nat /\ \A r \in b : r.seq \in Nat /\ r.seq < journal[g].next
  BY <1>1, <1>2 DEF Sweeps, Batches, Row, Typed, GatewayOK, GatewayTypeOK, Journals
<1>4. ASSUME NEW r \in b, r \in journal[g].entries PROVE Gone(g, r)'
  <2>1. r.id \in ledger' \/ Deleted(SessionOf[r.id])
    BY DEF LedgerInserts
  <2>2. Deleted(SessionOf[r.id]) => ~Owns(g, SessionOf[r.id], r.epoch)'
    BY <1>2, ConstantsAssumption DEF Deleted, Owns
  <2> QED BY <2>1, <2>2 DEF Gone
<1> HIDE DEF b
<1>5. PICK q \in b : q.seq = LastSeq(b)
  BY <1>2, <1>3, LastSeqIsNewest
<1>6. LastSeq(b) \in Nat /\ LastSeq(b) < journal'[g].next
  BY <1>2, <1>3, <1>5
<1>7. ASSUME NEW r \in journal'[g].entries, r.seq <= LastSeq(b) PROVE Gone(g, r)'
  <2>1. r \in b \/ Gone(g, r)
    BY <1>2, <1>5, <1>7 DEF Sweeps
  <2>2. Gone(g, r) => Gone(g, r)'
    BY <1>1, <1>2, GoneIsStable DEF EntriesInv, Traced
  <2> QED BY <1>2, <1>4, <2>1, <2>2
<1>8. /\ frame \in DownFrame /\ frame.seq = LastSeq(b)
  BY <1>1, <1>6, ProcessTypes DEF EventAck, DownFrame
<1> HIDE DEF frame
<1>9. frame \in AckFrame(g)'
  BY <1>6, <1>7, <1>8 DEF AckFrame
<1> QED BY <1>9 DEF frame, b

\* Every step keeps the accepted events accounted for.
LEMMA SweepStep == SweepInv /\ [Next]_vars => SweepInv'
<1> SUFFICES ASSUME SweepInv, [Next]_vars PROVE SweepInv'
    OBVIOUS
<1>1. CoverInv' /\ Typed /\ Typed' /\ Moves /\ EntriesInv
  BY CoverStep, TypedStep, MovesStep DEF SweepInv, CoverInv, EntriesInv, FenceInv
<1>2. ASSUME NEW g \in Gateway PROVE down'[g] \in Seq(AckFrame(g)')
  <2>1. down[g] \in Seq(AckFrame(g)) /\ down[g] \in Seq(AckFrame(g)')
    BY SweepsGrow DEF SweepInv
  <2>2. CASE down'[g] \in {down[g], <<>>}
    <3>1. CASE down'[g] = down[g]
      BY <2>1, <3>1
    <3>2. CASE down'[g] = <<>>
      BY <3>2
    <3> QED BY <2>2, <3>1, <3>2
  <2>3. CASE down'[g] = Append(down[g], Armed)
    <3>1. Armed \in AckFrame(g)'
      BY <1>1, ProcessTypes DEF Armed, AckFrame, DownFrame
    <3> QED BY <2>1, <2>3, <3>1
  <2>4. CASE down[g] # <<>> /\ down'[g] = Tail(down[g])
    BY <2>1, <2>4
  <2>5. ASSUME NEW c \in ConnEpoch, IngestCommit(g, c),
               ledger' = ledger \union {r.id : r \in LedgerInserts(handler[g][c].batch)},
               down'[g] = Append(down[g], EventAck(LastSeq(handler[g][c].batch)))
        PROVE  down'[g] \in Seq(AckFrame(g)')
    <3>1. EventAck(LastSeq(handler[g][c].batch)) \in AckFrame(g)'
      BY <2>5, CommitSweeps
    <3> QED BY <2>1, <2>5, <3>1
  <2>6. ASSUME NEW c \in ConnEpoch,
               down'[g] = Append(down[g], Snapshot(handler[g][c].rev, handler[g][c].epochs))
        PROVE  down'[g] \in Seq(AckFrame(g)')
    <3> DEFINE frame == Snapshot(handler[g][c].rev, handler[g][c].epochs)
    <3>1. frame \in DownFrame /\ frame.type = "snapshot"
      BY <1>1 DEF Snapshot, DownFrame, Typed, NetworkOK, NetworkTypeOK, Handlers
    <3> HIDE DEF frame
    <3>2. frame \in AckFrame(g)'
      BY <3>1 DEF AckFrame
    <3> QED BY <2>1, <2>6, <3>2 DEF frame
  <2>7. DownMoves(g)
    BY <1>1 DEF Moves
  <2> QED BY <2>2, <2>3, <2>4, <2>5, <2>6, <2>7 DEF DownMoves
<1>3. ASSUME NEW g \in Gateway, NEW c \in ConnEpoch
      PROVE  up'[g][c] \in Seq(SweepFrame(g)') /\ handler'[g][c].batch \in Sweeps(g)'
  <2>1. /\ up[g][c] \in Seq(SweepFrame(g)) /\ handler[g][c].batch \in Sweeps(g)
        /\ up[g][c] \in Seq(SweepFrame(g)') /\ handler[g][c].batch \in Sweeps(g)'
        /\ Sweeps(g) \subseteq Sweeps(g)'
    BY SweepsGrow DEF SweepInv
  <2>2. up[g][c] # <<>> => /\ Head(up[g][c]) \in SweepFrame(g)
                           /\ Tail(up[g][c]) \in Seq(SweepFrame(g)')
    BY <2>1
  <2>3. {} \in Sweeps(g)'
    BY FS_EmptySet DEF Sweeps, Batches, Distinct
  <2>4. handler'[g][c].batch \in Sweeps(g)'
    BY <1>1, <2>1, <2>2, <2>3 DEF Moves, BatchMoves, SweepFrame
  <2>5. Plain \subseteq SweepFrame(g)'
    BY <2>3 DEF Plain, SweepFrame
  <2>6. ASSUME NEW frames \in Seq(Plain), up'[g][c] = up[g][c] \o frames
        PROVE  up'[g][c] \in Seq(SweepFrame(g)')
    BY <2>1, <2>5, <2>6
  <2>7. ASSUME NEW j \in Journals, NEW before \in Seq(Plain), Replays(g, j),
               up'[g][c] = up[g][c] \o Append(before, EventBatch(NextEventBatch(g, j)))
        PROVE  up'[g][c] \in Seq(SweepFrame(g)')
    <3> DEFINE frame == EventBatch(NextEventBatch(g, j))
    <3>1. NextEventBatch(g, j) \in Sweeps(g)'
      BY <2>7, ReplaySweeps
    <3>2. frame \in SweepFrame(g)'
      BY <3>1 DEF EventBatch, SweepFrame, UpFrame, Sweeps, Batches
    <3> HIDE DEF frame
    <3>3. Append(before, frame) \in Seq(SweepFrame(g)')
      BY <2>5, <3>2
    <3> QED BY <2>1, <2>7, <3>3 DEF frame
  <2>8. up'[g][c] \in Seq(SweepFrame(g)')
    <3>1. CASE up'[g][c] = up[g][c]
      BY <2>1, <3>1
    <3>2. CASE up'[g][c] = <<>>
      BY <3>2
    <3>3. CASE up[g][c] # <<>> /\ up'[g][c] = Tail(up[g][c])
      BY <2>2, <3>3
    <3>4. UpMoves(g, c)
      BY <1>1 DEF Moves
    <3> QED BY <3>1, <3>2, <3>3, <3>4, <2>6, <2>7, Zenon DEF UpMoves
  <2> QED BY <2>4, <2>8
<1>4. NoLoss'
  <2> SUFFICES ASSUME NEW x \in accepted'
               PROVE  \/ Settled(x)'
                      \/ \E r \in journal'[x.gw].entries : r.id = x.id /\ r.epoch = x.epoch
      BY DEF NoLoss
  <2>1. CASE x \in accepted
    <3>1. CASE Settled(x)
      BY <1>1, <2>1, <3>1, SettledIsStable
    <3>2. ASSUME NEW r \in journal[x.gw].entries, r.id = x.id, r.epoch = x.epoch,
                 r \notin journal'[x.gw].entries
          PROVE  Settled(x)
      <4>1. x.gw \in Gateway
        BY <1>1, <2>1 DEF Typed, BooksOK
      <4>2. Gone(x.gw, r)
        BY <3>2, <4>1, RemovedIsGone
      <4> QED BY <3>2, <4>2 DEF Gone, Settled
    <3> QED BY <1>1, <2>1, <3>1, <3>2, SettledIsStable DEF SweepInv, NoLoss
  <2>2. CASE x \notin accepted
    <3>1. PICK g \in Gateway : \E e \in sink[g] : AppendEvent(g, e)
      BY <1>1, <2>2, EntriesMove
    <3>2. PICK e \in sink[g] : AppendEvent(g, e)
      BY <3>1
    <3>3. /\ x = [id |-> e.id, gw |-> g, epoch |-> e.epoch]
          /\ journal' = [journal EXCEPT ![g] = AppendRow(@, e.id, e.epoch)]
      BY <2>2, <3>2 DEF AppendEvent
    <3>4. [seq |-> journal[g].next, id |-> e.id, epoch |-> e.epoch] \in journal'[g].entries
      BY <1>1, <3>3 DEF AppendRow, Typed, GatewayOK, GatewayTypeOK
    <3> QED BY <3>3, <3>4
  <2> QED BY <2>1, <2>2
<1> QED BY <1>1, <1>2, <1>3, <1>4 DEF SweepInv

\* No accepted event is lost: its row is in the journal of the gateway that took
\* it until the API has committed it or the assignment is over.
THEOREM NoEventIsLost == Spec => []NoLoss
<1>1. SweepInv => NoLoss
  BY DEF SweepInv
<1> QED BY <1>1, SweepInit, SweepStep, PTL DEF Spec

-----------------------------------------------------------------------------
(***************************************************************************)
(* The delivery contract.  Under the refinement mapping a transaction on   *)
(* the table is Move or Delete, an append that the journal takes is        *)
(* Accept, the commit of a batch is Commit, and an acknowledgement or a    *)
(* retirement that shortens the journal is Drop.                           *)
(***************************************************************************)
Pending ==
    {x \in accepted : \E r \in journal[x.gw].entries : r.id = x.id /\ r.epoch = x.epoch}

Published == [i \in EventId |-> Cardinality({l \in eventLog : l.id = i})]

Implements == SweepInv /\ OnceInv

\* The initial states are initial states of the contract.
LEMMA ContractStarts == Init => Contract!Init
<1> SUFFICES ASSUME Init PROVE Contract!Init
    OBVIOUS
<1>1. \A i \in EventId : {l \in eventLog : l.id = i} = {}
  BY DEF Init
<1>2. Published = [i \in EventId |-> 0]
  BY <1>1, FS_EmptySet DEF Published
<1> QED BY <1>2 DEF Init, Contract!Init, Published

\* What the contract does not speak of.
LEMMA ContractStutters ==
    ASSUME UNCHANGED <<assignment, journal, ledger, eventLog, accepted>>
    PROVE  UNCHANGED Contract!vars
<1>1. Published' = Published
  BY DEF Published
<1>2. Pending' = Pending
  BY DEF Pending
<1> QED BY <1>1, <1>2 DEF Contract!vars, Published, Pending

\* A reassignment moves the session.
LEMMA ContractReassign ==
    ASSUME Implements, NEW s \in Session, NEW g \in Gateway, Reassign(s, g)
    PROVE  Contract!Next
<1>1. UNCHANGED <<journal, ledger, eventLog, accepted>>
  BY DEF Reassign, books
<1>2. Published' = Published
  BY <1>1 DEF Published
<1>3. Pending' = Pending
  BY <1>1 DEF Pending
<1>4. assignment[s].epoch + 1 \in Nat
  BY LogTypes DEF Implements, OnceInv
<1>5. Contract!Move(s, g)
  BY <1>1, <1>2, <1>3, <1>4 DEF Reassign, Contract!Move, Published, Pending
<1> QED BY <1>5 DEF Contract!Next

\* A deletion forgets what was committed for the session.
LEMMA ContractDeleteSession ==
    ASSUME Implements, NEW s \in Session, DeleteSession(s)
    PROVE  Contract!Next
<1>1. UNCHANGED <<journal, eventLog, accepted>>
  BY DEF DeleteSession, books
<1>2. Published' = Published
  BY <1>1 DEF Published
<1>3. Pending' = Pending
  BY <1>1 DEF Pending
<1>4. Contract!Delete(s)
  BY <1>1, <1>2, <1>3 DEF DeleteSession, Contract!Delete, Published, Pending
<1> QED BY <1>4 DEF Contract!Next

\* The journal takes an event under an epoch that was allocated.
LEMMA ContractAppendEvent ==
    ASSUME Implements, NEW g \in Gateway, NEW e \in sink[g], AppendEvent(g, e)
    PROVE  Contract!Next \/ UNCHANGED Contract!vars
<1> DEFINE x == [id |-> e.id, gw |-> g, epoch |-> e.epoch]
           row == [seq |-> journal[g].next, id |-> e.id, epoch |-> e.epoch]
<1>1. UNCHANGED <<assignment, ledger, eventLog>>
  BY DEF AppendEvent, mysql
<1>2. CASE UNCHANGED <<journal, accepted>>
  BY <1>1, <1>2, ContractStutters
<1>3. CASE /\ journal' = [journal EXCEPT ![g] = AppendRow(@, e.id, e.epoch)]
           /\ accepted' = accepted \union {x}
  <2>1. /\ e \in Labelled(assignment, g) /\ journal \in [Gateway -> Journals]
        /\ assignment \in Tables /\ accepted \subseteq Acceptable(assignment)
    BY CoverTypes DEF Implements, SweepInv, CoverInv, EntriesInv
  <2>2. /\ e.id \in EventId /\ SessionOf[e.id] \in Session
        /\ e.epoch \in 1..assignment[SessionOf[e.id]].epoch
    BY <2>1, ConstantsAssumption DEF Labelled, FencedAt, Tables
  <2>3. /\ journal'[g].entries = journal[g].entries \union {row}
        /\ \A h \in Gateway : h # g => journal'[h] = journal[h]
    BY <1>3, <2>1 DEF AppendRow, Journals
  <2>4. /\ row.id = e.id /\ row.epoch = e.epoch
        /\ x.id = e.id /\ x.gw = g /\ x.epoch = e.epoch
    OBVIOUS
  <2>5. \A y \in accepted : y.gw \in Gateway /\ y = [id |-> y.id, gw |-> y.gw, epoch |-> y.epoch]
    BY <2>1 DEF Acceptable
  <2>6. \A y \in accepted : (y.gw = g /\ y.id = e.id /\ y.epoch = e.epoch) => y = x
    BY <2>5
  <2> HIDE DEF x, row
  <2>7. ASSUME NEW y \in accepted, y # x
        PROVE  (\E r \in journal'[y.gw].entries : r.id = y.id /\ r.epoch = y.epoch)
               <=> (\E r \in journal[y.gw].entries : r.id = y.id /\ r.epoch = y.epoch)
    <3>1. CASE y.gw # g
      BY <2>3, <2>5, <3>1
    <3>2. CASE y.gw = g
      BY <2>3, <2>4, <2>6, <2>7, <3>2
    <3> QED BY <3>1, <3>2
  <2>8. \E r \in journal'[x.gw].entries : r.id = x.id /\ r.epoch = x.epoch
    BY <2>3, <2>4
  <2>9. Pending' = Pending \union {x}
    BY <1>3, <2>7, <2>8 DEF Pending
  <2>10. Published' = Published
    BY <1>1 DEF Published
  <2>11. Contract!Accept(x)
    BY <1>1, <1>3, <2>9, <2>10 DEF Contract!Accept, Pending, Published
  <2>12. \E i \in EventId, h \in Gateway : \E n \in 1..assignment[SessionOf[i]].epoch :
            Contract!Accept([id |-> i, gw |-> h, epoch |-> n])
    BY <2>2, <2>11 DEF x
  <2> QED BY <2>12 DEF Contract!Next
<1> QED BY <1>2, <1>3 DEF AppendEvent

\* A replay drops what it removes from the journal, which is gone.
LEMMA ContractReplay ==
    ASSUME Implements, [Next]_vars, NEW g \in Gateway, SendHeartbeat(g) \/ HandleEventAck(g)
    PROVE  Contract!Next
<1>x. PICK xs : xs = Pending \ Pending'
  OBVIOUS
<1>1. UNCHANGED <<assignment, ledger, eventLog, accepted>>
  BY DEF SendHeartbeat, HandleEventAck, SendBatch, mysql, books
<1>2. /\ \A h \in Gateway : journal'[h].entries \subseteq journal[h].entries
      /\ accepted \subseteq Acceptable(assignment)
  <2>1. CoverInv /\ Typed /\ Moves /\ accepted \subseteq Acceptable(assignment)
    BY CoverTypes, MovesStep DEF Implements, SweepInv, CoverInv, EntriesInv
  <2>2. ASSUME NEW h \in Gateway, NEW e \in sink[h], AppendEvent(h, e) 
        PROVE  journal'[h].entries \subseteq journal[h].entries
    <3>1. sink'[h] = sink[h]
      BY DEF SendHeartbeat, HandleEventAck
    <3>2. sink'[h] = sink[h] \ {e}
      BY <2>1, <2>2, CoverTypes DEF AppendEvent
    <3> QED BY <3>1, <3>2
  <2>3. \A h \in Gateway : journal'[h].entries \subseteq journal[h].entries
    BY <2>1, <2>2, ReplayJournal DEF Moves, JournalMoves
  <2> QED BY <2>1, <2>3
<1>3. Pending' \subseteq Pending
  BY <1>1, <1>2 DEF Pending, Acceptable
<1>4. ASSUME NEW x \in xs PROVE x.id \in ledger \/ ~Owns(x.gw, SessionOf[x.id], x.epoch)
  <2>1. x \in accepted /\ x.gw \in Gateway
    BY <1>2, <1>x DEF Pending, Acceptable
  <2>2. PICK r \in journal[x.gw].entries : r.id = x.id /\ r.epoch = x.epoch
    BY <1>x DEF Pending
  <2>3. r \notin journal'[x.gw].entries
    BY <1>1, <1>x, <2>1, <2>2 DEF Pending
  <2>4. Gone(x.gw, r)
    BY <2>1, <2>3, RemovedIsGone DEF Implements
  <2> QED BY <2>2, <2>4 DEF Gone
<1>5. xs \subseteq Pending /\ Pending' = Pending \ xs
  BY <1>3, <1>x
<1>6. Published' = Published
  BY <1>1 DEF Published
<1>7. Contract!Drop(xs)
  BY <1>1, <1>4, <1>5, <1>6
     DEF Contract!Drop, Contract!Over, Owns, Pending, Published
<1>8. \E ys \in SUBSET Pending : Contract!Drop(ys)
  BY <1>5, <1>7
<1> QED BY <1>8 DEF Contract!Next, Pending

\* The rows a commit adds: one for each public event, none of which had one.
LEMMA CommitPublishes ==
    ASSUME Implements, NEW g \in Gateway, NEW c \in ConnEpoch,
           NEW new, new = LedgerInserts(handler[g][c].batch),
           NEW public, public = PublicRows(new),
           eventLog' = eventLog \union LogRows(g, public)
    PROVE  Published' = [i \in EventId |-> IF i \in {r.id : r \in public}
                                           THEN Published[i] + 1 ELSE Published[i]]
<1> DEFINE log(r) == [pos |-> Cardinality(eventLog) + 1
                                + Cardinality({q \in public : q.seq < r.seq}),
                      id |-> r.id, gw |-> g, epoch |-> r.epoch, seq |-> r.seq]
           rows(i) == {l \in eventLog : l.id = i}
<1>1. /\ \A r, q \in public : r.id = q.id => r = q
      /\ \A r \in public, l \in eventLog : l.id # r.id
  <2>1. Distinct(handler[g][c].batch)
    BY DEF Implements, OnceInv, Typed, NetworkOK, HandlerShape, Batches
  <2>2. new \subseteq handler[g][c].batch /\ public \subseteq new
    BY PublicRowsOfBatch
  <2> QED BY <2>1, <2>2, NewRowsAreNew DEF Implements, Distinct
<1>2. LogRows(g, public) = {log(r) : r \in public} /\ \A r \in public : log(r).id = r.id
  BY DEF LogRows
<1> HIDE DEF log
<1>3. ASSUME NEW i \in EventId PROVE Published'[i] = IF i \in {r.id : r \in public}
                                                     THEN Published[i] + 1 ELSE Published[i]
  <2>1. Published[i] = Cardinality(rows(i)) /\ Published'[i] = Cardinality(rows(i)')
    BY DEF Published
  <2>2. CASE i \in {r.id : r \in public}
    <3>1. PICK r \in public : r.id = i
      BY <2>2
    <3>2. rows(i) = {}
      BY <1>1, <3>1
    <3>3. rows(i)' = {log(r)}
      BY <1>1, <1>2, <3>1
    <3>4. Cardinality(rows(i)) = 0 /\ Cardinality(rows(i)') = 1
      BY <3>2, <3>3, FS_EmptySet, FS_Singleton
    <3> QED BY <2>1, <2>2, <3>4
  <2>3. CASE i \notin {r.id : r \in public}
    <3>1. rows(i)' = rows(i)
      BY <1>2, <2>3
    <3> QED BY <2>1, <2>3, <3>1
  <2> QED BY <2>2, <2>3
<1> QED BY <1>3 DEF Published

\* The commit of a batch, or nothing.
LEMMA ContractIngestCommit ==
    ASSUME Implements, NEW g \in Gateway, NEW c \in ConnEpoch, IngestCommit(g, c)
    PROVE  Contract!Next \/ UNCHANGED Contract!vars
<1> DEFINE batch == handler[g][c].batch
           new == LedgerInserts(batch)
           public == PublicRows(new)
           ids == {r.id : r \in new}
           rows == {r.id : r \in public}
<1>1. UNCHANGED <<assignment, journal, accepted>>
  BY DEF IngestCommit, books
<1>2. CASE UNCHANGED <<ledger, eventLog>>
  BY <1>1, <1>2, ContractStutters
<1>3. CASE ledger' = ledger \union ids /\ eventLog' = eventLog \union LogRows(g, public)
  <2>1. batch \subseteq Took(g) /\ new \subseteq batch /\ public \subseteq new
    BY PublicRowsOfBatch DEF Implements, SweepInv, CoverInv, EntriesInv, Traced
  <2>2. Pending' = Pending
    BY <1>1 DEF Pending
  <2>3. Published' = [i \in EventId |-> IF i \in rows THEN Published[i] + 1 ELSE Published[i]]
    BY <1>3, CommitPublishes
  <2>4. ASSUME NEW i \in ids
        PROVE  /\ i \in EventId /\ i \notin ledger /\ assignment[SessionOf[i]].gw # NoGateway
               /\ \E x \in accepted : x.id = i
    <3>1. PICK r \in new : r.id = i
      OBVIOUS
    <3>2. i \notin ledger /\ assignment[SessionOf[i]].gw # NoGateway
      BY <3>1 DEF LedgerInserts, Deleted
    <3>3. r \in Row /\ Entry(g, r) \in accepted /\ Entry(g, r).id = i
      BY <2>1, <3>1 DEF Took, Entry
    <3> QED BY <3>1, <3>2, <3>3 DEF Row
  <2>5. ids \subseteq EventId /\ rows \subseteq ids
    BY <2>1, <2>4
  <2> HIDE DEF ids, rows
  <2>6. Contract!Commit(ids, rows)
    BY <1>1, <1>3, <2>2, <2>3, <2>4, <2>5 DEF Contract!Commit, Pending, Published
  <2> QED BY <2>5, <2>6 DEF Contract!Next
<1> QED BY <1>2, <1>3 DEF IngestCommit

\* Every step is a step of the contract or leaves what it speaks of alone.
LEMMA ContractSteps ==
    Implements /\ [Next]_vars => [Contract!Next]_Contract!vars
<1> SUFFICES ASSUME Implements, [Next]_vars
             PROVE  Contract!Next \/ UNCHANGED Contract!vars
    OBVIOUS
<1> DEFINE kept == UNCHANGED <<assignment, journal, ledger, eventLog, accepted>>
           Goal == Contract!Next \/ UNCHANGED Contract!vars
<1> USE DEF mysql, books
<1>k. ASSUME kept PROVE Goal
  BY <1>k, ContractStutters
<1>1. ASSUME NEW g \in Gateway, SupervisorStep(g) PROVE Goal
  <2>1. SendHeartbeat(g) \/ HandleEventAck(g) \/ kept
    BY <1>1 DEF SupervisorStep, Connect, AcceptConnection, ArmHeartbeat, BeginApply,
                FinishApply, StreamClosed
  <2> QED BY <1>k, <2>1, ContractReplay
<1>2. ASSUME NEW g \in Gateway, NEW c \in ConnEpoch, HandlerStep(g, c) PROVE Goal
  <2>1. kept \/ IngestCommit(g, c)
    BY <1>2 DEF HandlerStep, HandleHello, HandleHeartbeat, ListAssignments,
                PushDesiredState, PersistReport, IngestFence, HandlerReturns
  <2> QED BY <1>k, <2>1, ContractIngestCommit
<1>3. ASSUME NEW g \in Gateway, NEW c \in ConnEpoch, HandlerFails(g, c) PROVE kept
  BY <1>3 DEF HandlerFails
<1>4. ASSUME NEW g \in Gateway, SinkStep(g) PROVE Goal
  BY <1>4, ContractAppendEvent DEF SinkStep
<1>5. ASSUME NEW g \in Gateway, NEW id \in EventId, Label(g, id) PROVE kept
  BY <1>5 DEF Label
<1>6. ASSUME NEW s \in Session, UpdateConfig(s) PROVE kept
  BY <1>6 DEF UpdateConfig
<1>7. ASSUME NEW m \in Message, AppendOwnSentOnce(m) PROVE kept
  BY <1>7 DEF AppendOwnSentOnce
<1>8. ASSUME NEW g \in Gateway,
             \/ Expire(g) \/ ProveCurrentConnection(g) \/ FailApply(g)
             \/ StreamBreak(g) \/ Crash(g)
      PROVE  kept
  BY <1>8 DEF Expire, ProveCurrentConnection, AcceptConnection, FailApply, StreamBreak, Crash
<1>9. CASE UNCHANGED vars
  BY <1>9, ContractStutters DEF vars
<1> HIDE DEF kept
<1>10. ASSUME NEW s \in Session, NEW g \in Gateway, Reassign(s, g) PROVE Goal
  BY <1>10, ContractReassign
<1>11. ASSUME NEW s \in Session, DeleteSession(s) PROVE Goal
  BY <1>11, ContractDeleteSession
<1> HIDE DEF Goal
<1>12. ASSUME Next PROVE Goal
  BY <1>12, <1>k, <1>1, <1>2, <1>3, <1>4, <1>5, <1>6, <1>7, <1>8, <1>10, <1>11 DEF Next
<1> QED BY <1>9, <1>12 DEF Goal

\* The gateways, the streams and the API implement the delivery contract: what
\* replay, retirement, the ingest fence and the ledger do is a step the contract
\* allows, for any number of gateways, connections and failures.
THEOREM DeliveryImplementsContract == Spec => ImplementsContract
<1>1. Init => Implements
  BY SweepInit, OnceInit DEF Implements
<1>2. Implements /\ [Next]_vars => Implements'
  BY SweepStep, OnceStep DEF Implements
<1> QED BY <1>1, <1>2, ContractStarts, ContractSteps, PTL
        DEF Spec, ImplementsContract, Contract!Spec

-----------------------------------------------------------------------------
(***************************************************************************)
(* The order of the log.  A row that is still on its way (in the journal,  *)
(* in a frame or in a handler) and older than a row of its session that is *)
(* being committed or is committed can no longer enter the log: the API    *)
(* has it, or its session is deleted.  So the log only grows at its end,   *)
(* in the order of the journal.  Sequence numbers of two gateways are not  *)
(* comparable; one gateway writes a session under one epoch.               *)
(***************************************************************************)
Final(r) == r.id \in ledger \/ Deleted(SessionOf[r.id])

\* Row r comes before row q of the same session and assignment.
Before(r, q) ==
    SessionOf[r.id] = SessionOf[q.id] /\ r.epoch = q.epoch /\ r.seq < q.seq

\* The rows of g that no row of g overtakes.
Orderly(g) ==
    {r \in Took(g) :
        /\ r \in journal[g].entries \/ Gone(g, r)
        /\ \A c \in ConnEpoch : \A q \in handler[g][c].batch :
              Before(r, q) => r \in handler[g][c].batch \/ Final(r)
        /\ \A k \in eventLog : k.gw = g /\ Before(r, k) => Final(r)}

OrderlyFrame(g) == {f \in UpFrame : f.batch \subseteq Orderly(g)}

\* A handler of g commits rows of session s under epoch e, or has done so.
Writes(g, s, e) ==
    \/ \E c \in ConnEpoch : \E r \in handler[g][c].batch : SessionOf[r.id] = s /\ r.epoch = e
    \/ \E l \in eventLog : l.gw = g /\ SessionOf[l.id] = s /\ l.epoch = e

OneWriter ==
    \A g \in Gateway, s \in Session, e \in Nat : Writes(g, s, e) =>
        /\ FencedAt(assignment, g, s, e)
        /\ \A h \in Gateway : Writes(h, s, e) => h = g

LogEnds ==
    \A l \in eventLog : l.pos <= Cardinality(eventLog) /\ l.seq < journal[l.gw].next

InOrder ==
    \A g \in Gateway :
        /\ journal[g].entries \subseteq Orderly(g)
        /\ \A c \in ConnEpoch : /\ up[g][c] \in Seq(OrderlyFrame(g))
                                /\ handler[g][c].batch \subseteq Orderly(g)

OrderInv == Implements /\ InOrder /\ OneWriter /\ LogEnds /\ OrderedLog

\* Nothing is on its way at first.
LEMMA OrderInit == Init => OrderInv
<1> SUFFICES ASSUME Init PROVE OrderInv
    OBVIOUS
<1>1. Implements
  BY SweepInit, OnceInit DEF Implements
<1>2. InOrder
  BY DEF Init, InOrder, EmptyJournal, HandlerAt
<1>3. OneWriter /\ LogEnds /\ OrderedLog
  BY DEF Init, OneWriter, Writes, LogEnds, OrderedLog, HandlerAt
<1> QED BY <1>1, <1>2, <1>3 DEF OrderInv

\* The rows that the commit of a batch adds to the log.
Commits(g, c) ==
    LET new == LedgerInserts(handler[g][c].batch) IN
    /\ IngestCommit(g, c)
    /\ ledger' = ledger \union {r.id : r \in new}
    /\ eventLog' = eventLog \union LogRows(g, PublicRows(new))

\* Only a commit writes to the log.
LEMMA LogMoves ==
    ASSUME [Next]_vars
    PROVE  eventLog' = eventLog \/ \E g \in Gateway, c \in ConnEpoch : Commits(g, c)
<1> DEFINE kept == eventLog' = eventLog
<1> USE DEF mysql
<1>1. ASSUME NEW g \in Gateway, SupervisorStep(g) PROVE kept
  <2>1. CASE Connect(g)
    BY <2>1 DEF Connect, AcceptConnection
  <2>2. CASE SendHeartbeat(g) \/ ArmHeartbeat(g) \/ HandleEventAck(g)
    BY <2>2 DEF SendHeartbeat, ArmHeartbeat, HandleEventAck
  <2>3. CASE BeginApply(g) \/ FinishApply(g) \/ StreamClosed(g)
    BY <2>3 DEF BeginApply, FinishApply, StreamClosed
  <2> QED BY <1>1, <2>1, <2>2, <2>3 DEF SupervisorStep
<1>2. ASSUME NEW g \in Gateway, NEW c \in ConnEpoch, HandlerStep(g, c) \/ HandlerFails(g, c)
      PROVE  kept \/ Commits(g, c)
  <2>1. CASE IngestCommit(g, c)
    BY <2>1 DEF IngestCommit, Commits
  <2>2. CASE HandleHello(g, c) \/ HandleHeartbeat(g, c) \/ ListAssignments(g, c)
    BY <2>2 DEF HandleHello, HandleHeartbeat, ListAssignments
  <2>3. CASE PushDesiredState(g, c) \/ PersistReport(g, c) \/ IngestFence(g, c)
    BY <2>3 DEF PushDesiredState, PersistReport, IngestFence
  <2>4. CASE HandlerReturns(g, c) \/ HandlerFails(g, c)
    BY <2>4 DEF HandlerReturns, HandlerFails
  <2> QED BY <1>2, <2>1, <2>2, <2>3, <2>4 DEF HandlerStep
<1>3. ASSUME NEW g \in Gateway, SinkStep(g) PROVE kept
  BY <1>3 DEF SinkStep, AppendEvent
<1>4. ASSUME NEW g \in Gateway, NEW id \in EventId, Label(g, id) PROVE kept
  BY <1>4 DEF Label
<1>5. ASSUME NEW g \in Gateway, Expire(g) \/ ProveCurrentConnection(g) \/ FailApply(g)
                                \/ StreamBreak(g) \/ Crash(g)
      PROVE  kept
  BY <1>5 DEF Expire, ProveCurrentConnection, AcceptConnection, FailApply, StreamBreak, Crash
<1>6. ASSUME NEW s \in Session, NEW g \in Gateway, Reassign(s, g) PROVE kept
  BY <1>6 DEF Reassign
<1>7. ASSUME NEW s \in Session, UpdateConfig(s) \/ DeleteSession(s) PROVE kept
  BY <1>7 DEF UpdateConfig, DeleteSession
<1>8. ASSUME NEW m \in Message, AppendOwnSentOnce(m) PROVE kept
  BY <1>8 DEF AppendOwnSentOnce
<1>9. CASE UNCHANGED vars
  BY <1>9 DEF vars
<1> HIDE DEF kept
<1>10. ASSUME Next PROVE kept \/ \E g \in Gateway, c \in ConnEpoch : Commits(g, c)
  BY <1>10, <1>1, <1>2, <1>3, <1>4, <1>5, <1>6, <1>7, <1>8 DEF Next
<1> QED BY <1>9, <1>10 DEF kept

\* A row that can no longer enter the log never can.
LEMMA FinalIsStable ==
    ASSUME Typed, [Next]_vars, NEW r, r.id \in EventId, Final(r)
    PROVE  Final(r)'
<1> DEFINE s == SessionOf[r.id]
<1>1. s \in Session /\ assignment \in Tables
  BY ConstantsAssumption DEF Typed, MySQLOK, MySQLTypeOK, Tables
<1>2. CASE Deleted(s)
  <2>1. Deleted(s)'
    BY <1>1, <1>2, EntriesMove DEF Follows, Deleted
  <2> QED BY <2>1 DEF Final
<1>3. CASE r.id \in ledger
  <2>1. ASSUME NEW t \in Session, DeleteSession(t) PROVE Final(r)'
    <3>1. CASE s = t
      BY <1>1, <2>1, <3>1 DEF DeleteSession, Tables, Final, Deleted
    <3>2. CASE s # t
      BY <1>3, <2>1, <3>2 DEF DeleteSession, Final
    <3> QED BY <3>1, <3>2
  <2> QED BY <1>3, <2>1, LedgerMoves DEF Final
<1> QED BY <1>2, <1>3 DEF Final

\* The rows of a commit: those of its batch.
LEMMA CommitRows ==
    ASSUME NEW g, NEW c, Commits(g, c), NEW k \in eventLog', k \notin eventLog
    PROVE  \E q \in LedgerInserts(handler[g][c].batch) :
              k.id = q.id /\ k.gw = g /\ k.epoch = q.epoch /\ k.seq = q.seq
<1> DEFINE public == PublicRows(LedgerInserts(handler[g][c].batch))
<1>1. public \subseteq LedgerInserts(handler[g][c].batch)
  BY PublicRowsOfBatch
<1>2. k \in LogRows(g, public)
  BY DEF Commits
<1> HIDE DEF public
<1>3. PICK q \in public :
         k = [pos |-> Cardinality(eventLog) + 1 + Cardinality({p \in public : p.seq < q.seq}),
              id |-> q.id, gw |-> g, epoch |-> q.epoch, seq |-> q.seq]
  BY <1>2 DEF LogRows
<1>4. k.id = q.id /\ k.gw = g /\ k.epoch = q.epoch /\ k.seq = q.seq
  BY <1>3
<1> QED BY <1>1, <1>4

\* An orderly row stays orderly: what a batch takes over is fenced.
LEMMA OrderlyIsStable ==
    ASSUME OrderInv, [Next]_vars, NEW g \in Gateway, NEW r \in Orderly(g)
    PROVE  r \in Orderly(g)'
<1>1. SweepInv /\ EntriesInv /\ Typed /\ Moves
  BY MovesStep DEF OrderInv, Implements, SweepInv, CoverInv, EntriesInv, FenceInv
<1>2. r \in Took(g) /\ r \in Row /\ r.id \in EventId
  BY DEF Orderly, Took, Row
<1>3. Final(r) => Final(r)'
  BY <1>1, <1>2, FinalIsStable
<1>4. r \in Took(g)'
  <2>1. ASSUME NEW h \in Gateway, NEW e \in sink[h], AppendEvent(h, e)
        PROVE  accepted \subseteq accepted'
    BY <2>1 DEF AppendEvent
  <2>2. accepted \subseteq accepted'
    BY <1>1, <2>1, EntriesMove
  <2> QED BY <1>2, <2>2 DEF Took
<1>5. r \in journal'[g].entries \/ Gone(g, r)'
  <2>1. r \in journal[g].entries \/ Gone(g, r)
    BY DEF Orderly
  <2> QED BY <1>1, <1>2, <2>1, RemovedIsGone, GoneIsStable
<1>6. ASSUME NEW c \in ConnEpoch, NEW q \in handler'[g][c].batch, Before(r, q)
      PROVE  r \in handler'[g][c].batch \/ Final(r)'
  <2>1. CASE handler'[g][c].batch = handler[g][c].batch
    BY <1>3, <1>6, <2>1 DEF Orderly
  <2>2. CASE /\ up[g][c] # <<>> /\ handler'[g][c].batch = Head(up[g][c]).batch
             /\ \A p \in Head(up[g][c]).batch : Owns(g, SessionOf[p.id], p.epoch)
    <3> DEFINE b == Head(up[g][c]).batch
    <3>0. up[g][c] \in Seq(SweepFrame(g))
      BY <1>1 DEF SweepInv
    <3>1. b \in Sweeps(g)
      <4>1. Head(up[g][c]) \in SweepFrame(g)
        BY <2>2, <3>0
      <4> QED BY <4>1 DEF SweepFrame
    <3>2. q \in b /\ Owns(g, SessionOf[r.id], r.epoch)
      BY <1>6, <2>2 DEF Before
    <3>3. q.seq \in Nat /\ r.seq \in Nat /\ r.seq <= q.seq
      BY <1>2, <1>6, <3>1, <3>2 DEF Sweeps, Batches, Row, Before
    <3>4. r \in b \/ Gone(g, r)
      BY <3>1, <3>2, <3>3 DEF Sweeps, Orderly
    <3>5. Gone(g, r) => Final(r)
      BY <3>2 DEF Gone, Final
    <3> QED BY <1>3, <2>2, <3>4, <3>5
  <2> QED BY <1>1, <1>6, <2>1, <2>2 DEF Moves, BatchMoves
<1>7. ASSUME NEW k \in eventLog', k.gw = g, Before(r, k) PROVE Final(r)'
  <2>1. CASE k \in eventLog
    BY <1>3, <1>7, <2>1 DEF Orderly
  <2>2. CASE k \notin eventLog
    <3>1. PICK h \in Gateway, c \in ConnEpoch : Commits(h, c)
      BY <2>2, LogMoves
    <3>2. PICK q \in handler[h][c].batch :
             k.id = q.id /\ k.gw = h /\ k.epoch = q.epoch /\ k.seq = q.seq
      BY <2>2, <3>1, CommitRows, PublicRowsOfBatch
    <3>3. h = g /\ Before(r, q)
      BY <1>7, <3>2 DEF Before
    <3>4. r \in handler[g][c].batch \/ Final(r)
      BY <3>2, <3>3 DEF Orderly
    <3>5. r \in handler[g][c].batch => r.id \in ledger' \/ Deleted(SessionOf[r.id])
      BY <3>1, <3>3 DEF Commits, LedgerInserts
    <3>6. UNCHANGED assignment
      BY <3>1 DEF Commits, IngestCommit
    <3> QED BY <1>3, <3>4, <3>5, <3>6 DEF Final, Deleted
  <2> QED BY <2>1, <2>2
<1>8. \A c \in ConnEpoch : \A q \in handler'[g][c].batch :
          Before(r, q) => r \in handler'[g][c].batch \/ Final(r)'
  BY <1>6
<1>9. \A k \in eventLog' : k.gw = g /\ Before(r, k) => Final(r)'
  BY <1>7
<1> QED BY <1>4, <1>5, <1>8, <1>9 DEF Orderly, Before

\* Every step keeps the rows on their way orderly; a new row comes last.
LEMMA InOrderStep ==
    ASSUME OrderInv, [Next]_vars PROVE InOrder'
<1>1. SweepInv /\ EntriesInv /\ Typed /\ Typed' /\ Moves /\ Traced'
  BY MovesStep, TypedStep, TracedStep
     DEF OrderInv, Implements, SweepInv, CoverInv, EntriesInv, FenceInv
<1>2. ASSUME NEW g \in Gateway
      PROVE  /\ Orderly(g) \subseteq Orderly(g)'
             /\ Seq(OrderlyFrame(g)) \subseteq Seq(OrderlyFrame(g)')
  <2>1. Orderly(g) \subseteq Orderly(g)'
    BY OrderlyIsStable
  <2>2. OrderlyFrame(g) \subseteq OrderlyFrame(g)'
    BY <2>1 DEF OrderlyFrame
  <2> QED BY <2>1, <2>2
<1>3. ASSUME NEW g \in Gateway PROVE journal'[g].entries \subseteq Orderly(g)'
  <2> SUFFICES ASSUME NEW r \in journal'[g].entries PROVE r \in Orderly(g)'
      OBVIOUS
  <2>1. CASE r \in journal[g].entries
    BY <1>2, <2>1 DEF OrderInv, InOrder
  <2>2. CASE r \notin journal[g].entries
    <3>1. r.seq = journal[g].next /\ r \in Took(g)'
      BY <1>1, <2>2, SweepsGrow DEF Traced
    <3>2. PICK e \in sink[g] : AppendEvent(g, e)
      BY <1>1, <2>2, ReplayJournal DEF Moves, JournalMoves
    <3>3. UNCHANGED <<handler, eventLog>>
      BY <3>2 DEF AppendEvent, mysql, network
    <3>4. journal[g].next \in Nat
      BY <1>1 DEF Typed, GatewayOK, GatewayTypeOK, Journals
    <3>5. \A c \in ConnEpoch : \A q \in handler[g][c].batch : ~Before(r, q)
      BY <1>1, <3>1, <3>4, HandlerTypes DEF Batches, Before, Row
    <3>6. \A k \in eventLog : k.gw = g => ~Before(r, k)
      BY <1>1, <3>1, <3>4 DEF OrderInv, LogEnds, Before, Typed, MySQLOK, MySQLTypeOK
    <3> QED BY <3>1, <3>3, <3>5, <3>6 DEF Orderly, Before
  <2> QED BY <2>1, <2>2
<1>4. ASSUME NEW g \in Gateway, NEW c \in ConnEpoch
      PROVE  up'[g][c] \in Seq(OrderlyFrame(g)') /\ handler'[g][c].batch \subseteq Orderly(g)'
  <2>1. /\ up[g][c] \in Seq(OrderlyFrame(g)) /\ up[g][c] \in Seq(OrderlyFrame(g)')
        /\ handler[g][c].batch \subseteq Orderly(g) /\ Orderly(g) \subseteq Orderly(g)'
        /\ journal[g].entries \subseteq Orderly(g)
    BY <1>2 DEF OrderInv, InOrder
  <2>2. up[g][c] # <<>> => /\ Head(up[g][c]) \in OrderlyFrame(g)
                           /\ Tail(up[g][c]) \in Seq(OrderlyFrame(g)')
    BY <2>1
  <2>3. handler'[g][c].batch \subseteq Orderly(g)'
    BY <1>1, <2>1, <2>2 DEF Moves, BatchMoves, OrderlyFrame
  <2>4. Plain \subseteq OrderlyFrame(g)'
    BY DEF Plain, OrderlyFrame
  <2>5. ASSUME NEW frames \in Seq(Plain), up'[g][c] = up[g][c] \o frames
        PROVE  up'[g][c] \in Seq(OrderlyFrame(g)')
    BY <2>1, <2>4, <2>5
  <2>6. ASSUME NEW j \in Journals, NEW before \in Seq(Plain), Replays(g, j),
               up'[g][c] = up[g][c] \o Append(before, EventBatch(NextEventBatch(g, j)))
        PROVE  up'[g][c] \in Seq(OrderlyFrame(g)')
    <3> DEFINE frame == EventBatch(NextEventBatch(g, j))
    <3>1. /\ NextEventBatch(g, j) \in SUBSET Row /\ NextEventBatch(g, j) \subseteq j.entries
          /\ j.entries \subseteq journal[g].entries
      BY <1>1, <2>6, BatchIsFromJournal, ReplayJournal
    <3>2. frame \in OrderlyFrame(g)'
      BY <2>1, <3>1 DEF EventBatch, OrderlyFrame, UpFrame
    <3> HIDE DEF frame
    <3>3. Append(before, frame) \in Seq(OrderlyFrame(g)')
      BY <2>4, <3>2
    <3> QED BY <2>1, <2>6, <3>3 DEF frame
  <2>7. up'[g][c] \in Seq(OrderlyFrame(g)')
    <3>1. CASE up'[g][c] = up[g][c]
      BY <2>1, <3>1
    <3>2. CASE up'[g][c] = <<>>
      BY <3>2
    <3>3. CASE up[g][c] # <<>> /\ up'[g][c] = Tail(up[g][c])
      BY <2>2, <3>3
    <3>4. UpMoves(g, c)
      BY <1>1 DEF Moves
    <3> QED BY <3>1, <3>2, <3>3, <3>4, <2>5, <2>6, Zenon DEF UpMoves
  <2> QED BY <2>3, <2>7
<1> QED BY <1>3, <1>4 DEF InOrder

\* A gateway starts to write a session only as its owner.
LEMMA WriterOwns ==
    ASSUME Typed, [Next]_vars, NEW g \in Gateway, NEW s, NEW e, Writes(g, s, e)'
    PROVE  Writes(g, s, e) \/ Owns(g, s, e)
<1>1. CASE \E c \in ConnEpoch : \E r \in handler'[g][c].batch :
              SessionOf[r.id] = s /\ r.epoch = e
  <2>1. PICK c \in ConnEpoch :
           \E r \in handler'[g][c].batch : SessionOf[r.id] = s /\ r.epoch = e
    BY <1>1
  <2>2. BatchMoves(g, c)
    BY MovesStep DEF Moves
  <2> QED BY <2>1, <2>2 DEF BatchMoves, Writes
<1>2. CASE \E l \in eventLog' : l.gw = g /\ SessionOf[l.id] = s /\ l.epoch = e
  <2>1. PICK l \in eventLog' : l.gw = g /\ SessionOf[l.id] = s /\ l.epoch = e
    BY <1>2
  <2>2. CASE l \in eventLog
    BY <2>1, <2>2 DEF Writes
  <2>3. CASE l \notin eventLog
    <3>1. PICK h \in Gateway, c \in ConnEpoch : Commits(h, c)
      BY <2>3, LogMoves
    <3>2. PICK q \in handler[h][c].batch :
             l.id = q.id /\ l.gw = h /\ l.epoch = q.epoch /\ l.seq = q.seq
      BY <2>3, <3>1, CommitRows, PublicRowsOfBatch
    <3> QED BY <2>1, <3>2 DEF Writes
  <2> QED BY <2>2, <2>3
<1> QED BY <1>1, <1>2 DEF Writes

\* One gateway writes a session under one epoch: the fence compares both.
LEMMA OneWriterStep ==
    ASSUME OrderInv, [Next]_vars PROVE OneWriter'
<1>1. Typed /\ Typed' /\ Follows(assignment, assignment')
  BY TypedStep, EntriesMove
     DEF OrderInv, Implements, SweepInv, CoverInv, EntriesInv, FenceInv
<1>2. assignment \in Tables /\ assignment' \in Tables
  BY <1>1 DEF Typed, MySQLOK, MySQLTypeOK, Tables
<1>3. ASSUME NEW g \in Gateway, NEW s \in Session, NEW e \in Nat, Writes(g, s, e)'
      PROVE  FencedAt(assignment, g, s, e)
  <2>1. CASE Writes(g, s, e)
    BY <2>1 DEF OrderInv, OneWriter
  <2>2. CASE Owns(g, s, e)
    BY <2>2 DEF Owns, FencedAt
  <2> QED BY <1>1, <1>3, <2>1, <2>2, WriterOwns
<1>4. ASSUME NEW g \in Gateway, NEW h \in Gateway, NEW s \in Session, NEW e \in Nat,
             Owns(g, s, e), FencedAt(assignment, h, s, e)
      PROVE  h = g
  BY <1>2, <1>4, ConstantsAssumption DEF Owns, FencedAt, Tables
<1>5. ASSUME NEW g \in Gateway, NEW h \in Gateway, NEW s \in Session, NEW e \in Nat,
             Writes(g, s, e)', Writes(h, s, e)'
      PROVE  h = g
  <2>1. FencedAt(assignment, g, s, e) /\ FencedAt(assignment, h, s, e)
    BY <1>3, <1>5
  <2>2. Writes(g, s, e) \/ Owns(g, s, e)
    BY <1>1, <1>5, WriterOwns
  <2>3. Writes(h, s, e) \/ Owns(h, s, e)
    BY <1>1, <1>5, WriterOwns
  <2>4. CASE Owns(g, s, e)
    BY <1>4, <2>1, <2>4
  <2>5. CASE Owns(h, s, e)
    BY <1>4, <2>1, <2>5
  <2>6. CASE Writes(g, s, e) /\ Writes(h, s, e)
    BY <2>6 DEF OrderInv, OneWriter
  <2> QED BY <2>2, <2>3, <2>4, <2>5, <2>6
<1>6. ASSUME NEW g \in Gateway, NEW s \in Session, NEW e \in Nat, Writes(g, s, e)'
      PROVE  FencedAt(assignment', g, s, e)
  BY <1>1, <1>2, <1>3, <1>6, FenceOfOneIsStable
<1>7. ASSUME NEW g \in Gateway, NEW s \in Session, NEW e \in Nat, Writes(g, s, e)'
      PROVE  FencedAt(assignment', g, s, e) /\ \A h \in Gateway : Writes(h, s, e)' => h = g
  BY <1>5, <1>6, <1>7
<1> HIDE DEF Writes, FencedAt
<1> QED BY <1>7 DEF OneWriter

\* A set that misses an element has fewer.
LEMMA FewerWithout ==
    ASSUME NEW S, IsFiniteSet(S), NEW T \in SUBSET S, NEW x \in S, x \notin T
    PROVE  /\ Cardinality(S) \in Nat /\ Cardinality(T) \in Nat
           /\ Cardinality(T) < Cardinality(S)
<1>1. IsFiniteSet(T) /\ Cardinality(T) <= Cardinality(S) /\ Cardinality(S) # Cardinality(T)
  BY FS_Subset
<1>2. Cardinality(S) \in Nat /\ Cardinality(T) \in Nat
  BY <1>1, FS_CardinalityType
<1> QED BY <1>1, <1>2

\* A commit adds its rows at the end of the log, in the order of the journal.
LEMMA CommitAppends ==
    ASSUME OrderInv, NEW g \in Gateway, NEW c \in ConnEpoch, Commits(g, c)
    PROVE  /\ \A k \in eventLog' \ eventLog :
                 /\ Cardinality(eventLog) < k.pos /\ k.pos <= Cardinality(eventLog')
                 /\ \A l \in eventLog' \ eventLog : l.seq < k.seq => l.pos < k.pos
           /\ Cardinality(eventLog) <= Cardinality(eventLog')
<1> DEFINE batch == handler[g][c].batch
           public == PublicRows(LedgerInserts(batch))
           n == Cardinality(eventLog)
           older(r) == {q \in public : q.seq < r.seq}
           log(r) == [pos |-> n + 1 + Cardinality(older(r)),
                      id |-> r.id, gw |-> g, epoch |-> r.epoch, seq |-> r.seq]
           f == [r \in public |-> log(r)]
<1>1. Typed /\ OnceInv
  BY DEF OrderInv, Implements, OnceInv
<1>2. /\ public \subseteq batch /\ batch \in SUBSET Row
      /\ IsFiniteSet(batch) /\ Distinct(batch)
  BY <1>1, HandlerTypes, PublicRowsOfBatch DEF Batches
<1>3. \A r \in public, l \in eventLog : l.id # r.id
  BY <1>1, NewRowsAreNew, PublicRowsOfBatch
<1>4. eventLog' = eventLog \union LogRows(g, public)
  BY DEF Commits
<1> HIDE DEF batch, public
<1>5. IsFiniteSet(public) /\ IsFiniteSet(eventLog) /\ n \in Nat
  BY <1>1, <1>2, FS_Subset, FS_CardinalityType DEF Typed, MySQLOK
<1>6. \A r \in public : r.seq \in Nat
  BY <1>2 DEF Row
<1> HIDE DEF n
<1>7. LogRows(g, public) = {log(r) : r \in public}
  BY DEF LogRows, n
<1>8. \A r \in public : /\ log(r).pos = n + 1 + Cardinality(older(r))
                        /\ log(r).id = r.id /\ log(r).seq = r.seq
  OBVIOUS
<1>9. ASSUME NEW r \in public
      PROVE  /\ Cardinality(older(r)) \in Nat /\ Cardinality(public) \in Nat
             /\ Cardinality(older(r)) < Cardinality(public)
  <2>1. older(r) \in SUBSET public /\ r \notin older(r)
    BY <1>6
  <2> HIDE DEF older
  <2> QED BY <1>5, <2>1, FewerWithout
<1>10. ASSUME NEW r \in public, NEW q \in public, q.seq < r.seq
       PROVE  Cardinality(older(q)) < Cardinality(older(r))
  <2>1. older(q) \in SUBSET older(r) /\ q \in older(r) /\ q \notin older(q)
    BY <1>6, <1>10
  <2>2. older(r) \in SUBSET public
    OBVIOUS
  <2> HIDE DEF older
  <2>3. IsFiniteSet(older(r))
    BY <1>5, <2>2, FS_Subset
  <2> QED BY <2>1, <2>3, FewerWithout
<1> HIDE DEF log, older
<1>11. /\ IsFiniteSet(LogRows(g, public))
       /\ Cardinality(LogRows(g, public)) = Cardinality(public)
  <2>1. f \in [public -> LogRows(g, public)]
    BY <1>7
  <2>2. f \in Surjection(public, LogRows(g, public))
    BY <1>7, <2>1 DEF Surjection
  <2>3. \A r, q \in public : f[r] = f[q] => r = q
    BY <1>2, <1>8 DEF Distinct
  <2>4. f \in Injection(public, LogRows(g, public))
    BY <2>1, <2>3 DEF Injection, IsInjective
  <2> HIDE DEF f
  <2> QED BY <1>5, <2>2, <2>4, FS_Surjection
<1>12. eventLog \intersect LogRows(g, public) = {}
  BY <1>3, <1>7, <1>8
<1>13. Cardinality(eventLog') = n + Cardinality(public) /\ Cardinality(public) \in Nat
  <2>1. Cardinality(public) \in Nat /\ Cardinality({}) = 0
    BY <1>5, FS_CardinalityType, FS_EmptySet
  <2>2. Cardinality(eventLog') = n + Cardinality(public) - Cardinality({})
    BY <1>4, <1>5, <1>11, <1>12, FS_Union DEF n
  <2> QED BY <1>5, <2>1, <2>2
<1>14. ASSUME NEW k \in eventLog' \ eventLog
       PROVE  \E r \in public : k = log(r)
  BY <1>4, <1>7
<1>15. ASSUME NEW k \in eventLog' \ eventLog
       PROVE  n < k.pos /\ k.pos <= Cardinality(eventLog')
  <2>1. PICK r \in public : k = log(r)
    BY <1>14
  <2>2. k.pos = n + 1 + Cardinality(older(r))
    BY <1>8, <2>1
  <2> QED BY <1>5, <1>9, <1>13, <2>2
<1>16. ASSUME NEW k \in eventLog' \ eventLog, NEW l \in eventLog' \ eventLog, l.seq < k.seq
       PROVE  l.pos < k.pos
  <2>1. PICK r \in public : k = log(r)
    BY <1>14
  <2>2. PICK q \in public : l = log(q)
    BY <1>14
  <2>3. /\ k.pos = n + 1 + Cardinality(older(r)) /\ l.pos = n + 1 + Cardinality(older(q))
        /\ q.seq < r.seq
    BY <1>8, <1>16, <2>1, <2>2
  <2>4. Cardinality(older(q)) < Cardinality(older(r))
    BY <1>10, <2>3
  <2>5. Cardinality(older(q)) \in Nat /\ Cardinality(older(r)) \in Nat
    BY <1>9
  <2> QED BY <1>5, <2>3, <2>4, <2>5
<1>17. n <= Cardinality(eventLog')
  BY <1>5, <1>13
<1> QED BY <1>15, <1>16, <1>17 DEF n

\* A row that is being committed comes after every logged row of its session.
LEMMA NothingOvertakes ==
    ASSUME OrderInv, NEW g \in Gateway, NEW c \in ConnEpoch,
           NEW r \in LedgerInserts(handler[g][c].batch), NEW k \in eventLog
    PROVE  ~Before(r, k)
<1> SUFFICES ASSUME Before(r, k) PROVE FALSE
    OBVIOUS
<1>1. Typed /\ r \in handler[g][c].batch /\ r \in Row
  BY HandlerTypes, PublicRowsOfBatch DEF OrderInv, Implements, OnceInv, Batches
<1>2. /\ SessionOf[r.id] \in Session /\ r.epoch \in Nat /\ k.gw \in Gateway
  BY <1>1, ConstantsAssumption DEF Row, Typed, MySQLOK, MySQLTypeOK
<1>3. Writes(g, SessionOf[r.id], r.epoch) /\ Writes(k.gw, SessionOf[r.id], r.epoch)
  BY <1>1 DEF Writes, Before
<1>4. k.gw = g
  BY <1>2, <1>3 DEF OrderInv, OneWriter
<1>5. Final(r)
  BY <1>1, <1>4 DEF OrderInv, InOrder, Orderly
<1> QED BY <1>5 DEF Final, LedgerInserts

\* Every step keeps the log in order.
LEMMA OrderStep == OrderInv /\ [Next]_vars => OrderInv'
<1> SUFFICES ASSUME OrderInv, [Next]_vars PROVE OrderInv'
    OBVIOUS
<1>1. SweepInv /\ Typed /\ Typed' /\ Implements'
  BY SweepStep, OnceStep, TypedStep DEF OrderInv, Implements, OnceInv
<1>2. InOrder' /\ OneWriter'
  BY InOrderStep, OneWriterStep
<1>3. /\ eventLog \subseteq [pos: Nat, id: EventId, gw: Gateway, epoch: Nat, seq: Nat]
      /\ eventLog' \subseteq [pos: Nat, id: EventId, gw: Gateway, epoch: Nat, seq: Nat]
      /\ Cardinality(eventLog) \in Nat /\ Cardinality(eventLog') \in Nat
  BY <1>1, FS_CardinalityType DEF Typed, MySQLOK, MySQLTypeOK
<1>4. ASSUME NEW g \in Gateway
      PROVE  /\ journal[g].next \in Nat /\ journal'[g].next \in Nat
             /\ journal[g].next <= journal'[g].next
  BY <1>1, SweepsGrow DEF Typed, GatewayOK, GatewayTypeOK, Journals
<1>5. CASE eventLog' = eventLog
  <2>1. LogEnds'
    BY <1>3, <1>4, <1>5 DEF OrderInv, LogEnds
  <2> QED BY <1>1, <1>2, <1>5, <2>1 DEF OrderInv, OrderedLog
<1>6. ASSUME NEW g \in Gateway, NEW c \in ConnEpoch, Commits(g, c) PROVE OrderInv'
  <2> DEFINE n == Cardinality(eventLog)
  <2>1. UNCHANGED journal
    BY <1>6 DEF Commits, IngestCommit
  <2>2. LogEnds'
    <3> SUFFICES ASSUME NEW l \in eventLog'
                 PROVE  l.pos <= Cardinality(eventLog') /\ l.seq < journal'[l.gw].next
        BY DEF LogEnds
    <3>1. CASE l \in eventLog
      <4>1. l.pos <= n /\ l.seq < journal[l.gw].next
        BY <3>1 DEF OrderInv, LogEnds
      <4>2. n <= Cardinality(eventLog') /\ l.pos \in Nat
        BY <1>3, <1>6, <3>1, CommitAppends
      <4> QED BY <1>3, <2>1, <4>1, <4>2
    <3>2. CASE l \notin eventLog
      <4>1. PICK q \in handler[g][c].batch :
               l.id = q.id /\ l.gw = g /\ l.epoch = q.epoch /\ l.seq = q.seq
        BY <1>6, <3>2, CommitRows, PublicRowsOfBatch
      <4>2. q.seq < journal[g].next
        BY <1>1, HandlerTypes DEF Batches
      <4>3. l.pos <= Cardinality(eventLog')
        BY <1>6, <3>2, CommitAppends
      <4> QED BY <2>1, <4>1, <4>2, <4>3
    <3> QED BY <3>1, <3>2
  <2>3. OrderedLog'
    <3> SUFFICES ASSUME NEW l \in eventLog', NEW k \in eventLog', Before(l, k)
                 PROVE  l.pos < k.pos
        BY DEF OrderedLog, Before
    <3>0. l.pos \in Nat /\ k.pos \in Nat /\ l.seq < k.seq
      BY <1>3 DEF Before
    <3>1. CASE l \in eventLog /\ k \in eventLog
      BY <3>1 DEF OrderInv, OrderedLog, Before
    <3>2. CASE l \in eventLog /\ k \notin eventLog
      <4>1. l.pos <= n /\ n < k.pos
        BY <1>6, <3>2, CommitAppends DEF OrderInv, LogEnds
      <4> QED BY <1>3, <3>0, <4>1
    <3>3. CASE l \notin eventLog /\ k \in eventLog
      <4>1. PICK q \in LedgerInserts(handler[g][c].batch) :
               l.id = q.id /\ l.gw = g /\ l.epoch = q.epoch /\ l.seq = q.seq
        BY <1>6, <3>3, CommitRows
      <4>2. Before(q, k)
        BY <4>1 DEF Before
      <4> QED BY <3>3, <4>2, NothingOvertakes
    <3>4. CASE l \notin eventLog /\ k \notin eventLog
      BY <1>6, <3>0, <3>4, CommitAppends
    <3> QED BY <3>1, <3>2, <3>3, <3>4
  <2> QED BY <1>1, <1>2, <2>2, <2>3 DEF OrderInv
<1> QED BY <1>5, <1>6, LogMoves

\* Events of one session under one assignment are in the log in the order of
\* the journal that took them, whatever is lost, replayed or reassigned on the
\* way, for any number of gateways, streams and failures.
THEOREM LogIsOrdered == Spec => []OrderedLog
<1>1. OrderInv => OrderedLog
  BY DEF OrderInv
<1> QED BY <1>1, OrderInit, OrderStep, PTL DEF Spec

-----------------------------------------------------------------------------
(***************************************************************************)
(* What DeliveryImplementsContract gives: the contract's two promises hold *)
(* for every set of gateways, sessions, events and epochs.  The contract   *)
(* is instantiated with variables of its own, of which nothing is known    *)
(* but its specification.                                                  *)
(***************************************************************************)
CONSTANT PromiseEpoch
VARIABLES pOwner, pAccepted, pPending, pCommitted, pPublished

Promise == INSTANCE DeliveryContract WITH
    Epoch <- PromiseEpoch,
    owner <- pOwner, accepted <- pAccepted, pending <- pPending,
    committed <- pCommitted, published <- pPublished

\* What the proofs need of the types.
ContractTypeOK ==
    /\ pOwner \in [Session -> [gw: Gateway \union {NoGateway}, epoch: Nat]]
    /\ pAccepted \subseteq [id: EventId, gw: Gateway, epoch: Nat]
    /\ pPending \subseteq pAccepted
    /\ pCommitted \subseteq EventId
    /\ pPublished \in [EventId -> Nat]

\* A published event is published once, and either the ledger still knows it or
\* its session is deleted: AtMostOnce alone does not exclude a second commit.
PublishedIsRemembered ==
    \A i \in EventId :
        \/ pPublished[i] = 0
        \/ pPublished[i] = 1 /\ (i \in pCommitted \/ pOwner[SessionOf[i]].gw = NoGateway)

\* An entry's epoch was allocated before the entry was accepted, so an
\* assignment that is over never comes back.
AcceptedUnderAllocatedEpoch ==
    \A x \in pAccepted : x.epoch <= pOwner[SessionOf[x.id]].epoch

ContractInv ==
    /\ ContractTypeOK
    /\ PublishedIsRemembered
    /\ AcceptedUnderAllocatedEpoch
    /\ Promise!NothingLost

\* The initial states satisfy the invariant.
LEMMA ContractInit == Promise!ContractAssumption /\ Promise!Init => ContractInv
BY DEF Promise!ContractAssumption, Promise!Init, ContractInv, ContractTypeOK, PublishedIsRemembered,
    AcceptedUnderAllocatedEpoch, Promise!NothingLost

\* Every step of the contract preserves the invariant.
LEMMA ContractStep ==
    Promise!ContractAssumption /\ ContractInv /\ [Promise!Next]_Promise!vars => ContractInv'
<1> SUFFICES ASSUME Promise!ContractAssumption, ContractInv, [Promise!Next]_Promise!vars
             PROVE  ContractInv'
    OBVIOUS
<1> USE DEF Promise!ContractAssumption
<1>1. ASSUME NEW s \in Session, Promise!Delete(s) PROVE ContractInv'
  <2>1. ContractTypeOK'
    BY <1>1 DEF ContractInv, ContractTypeOK, Promise!Delete
  <2>2. PublishedIsRemembered'
    BY <1>1 DEF ContractInv, ContractTypeOK, PublishedIsRemembered, Promise!Delete
  <2>3. AcceptedUnderAllocatedEpoch'
    BY <1>1 DEF ContractInv, ContractTypeOK, AcceptedUnderAllocatedEpoch, Promise!Delete
  <2>4. Promise!NothingLost'
    <3> SUFFICES ASSUME NEW x \in pAccepted
                 PROVE  x \in pPending \/ x.id \in pCommitted' \/ Promise!Over(x)'
        BY <1>1 DEF Promise!NothingLost, Promise!Delete
    <3>1. x.id \in EventId /\ x.gw # NoGateway /\ SessionOf[x.id] \in Session
        BY DEF ContractInv, ContractTypeOK
    <3>2. x \in pPending \/ x.id \in pCommitted \/ Promise!Over(x)
        BY DEF ContractInv, Promise!NothingLost
    <3>3. CASE SessionOf[x.id] = s
        BY <1>1, <3>1, <3>3 DEF ContractInv, ContractTypeOK, Promise!Over, Promise!Delete
    <3>4. CASE SessionOf[x.id] # s
        BY <1>1, <3>1, <3>2, <3>4 DEF ContractInv, ContractTypeOK, Promise!Over, Promise!Delete
    <3> QED BY <3>3, <3>4
  <2> QED BY <2>1, <2>2, <2>3, <2>4 DEF ContractInv
<1>2. ASSUME NEW s \in Session, NEW g \in Gateway, Promise!Move(s, g) PROVE ContractInv'
  <2>1. ContractTypeOK'
    BY <1>2 DEF ContractInv, ContractTypeOK, Promise!Move
  <2>2. PublishedIsRemembered'
    BY <1>2 DEF ContractInv, ContractTypeOK, PublishedIsRemembered, Promise!Move
  <2>3. AcceptedUnderAllocatedEpoch'
    BY <1>2 DEF ContractInv, ContractTypeOK, AcceptedUnderAllocatedEpoch, Promise!Move
  <2>4. Promise!NothingLost'
    <3> SUFFICES ASSUME NEW x \in pAccepted
                 PROVE  x \in pPending \/ x.id \in pCommitted \/ Promise!Over(x)'
        BY <1>2 DEF Promise!NothingLost, Promise!Move
    <3>1. x.epoch \in Nat /\ SessionOf[x.id] \in Session
        BY DEF ContractInv, ContractTypeOK
    <3>2. x \in pPending \/ x.id \in pCommitted \/ Promise!Over(x)
        BY DEF ContractInv, Promise!NothingLost
    <3>3. CASE SessionOf[x.id] = s
      <4>1. x.epoch <= pOwner[s].epoch /\ pOwner[s].epoch \in Nat
        BY <3>3 DEF ContractInv, ContractTypeOK, AcceptedUnderAllocatedEpoch
      <4>2. pOwner'[s] = [gw |-> g, epoch |-> pOwner[s].epoch + 1]
        BY <1>2 DEF ContractInv, ContractTypeOK, Promise!Move
      <4> QED BY <3>1, <3>3, <4>1, <4>2 DEF Promise!Over
    <3>4. CASE SessionOf[x.id] # s
        BY <1>2, <3>1, <3>2, <3>4 DEF ContractInv, ContractTypeOK, Promise!Over, Promise!Move
    <3> QED BY <3>3, <3>4
  <2> QED BY <2>1, <2>2, <2>3, <2>4 DEF ContractInv
<1>3. ASSUME NEW i \in EventId, NEW g \in Gateway,
             NEW e \in 1..pOwner[SessionOf[i]].epoch,
             Promise!Accept([id |-> i, gw |-> g, epoch |-> e])
      PROVE  ContractInv'
  <2>1. ContractTypeOK'
    BY <1>3 DEF ContractInv, ContractTypeOK, Promise!Accept
  <2>2. PublishedIsRemembered'
    BY <1>3 DEF ContractInv, PublishedIsRemembered, Promise!Accept
  <2>3. AcceptedUnderAllocatedEpoch'
    BY <1>3 DEF ContractInv, ContractTypeOK, AcceptedUnderAllocatedEpoch, Promise!Accept
  <2>4. Promise!NothingLost'
    BY <1>3 DEF ContractInv, Promise!NothingLost, Promise!Over, Promise!Accept
  <2> QED BY <2>1, <2>2, <2>3, <2>4 DEF ContractInv
<1>4. ASSUME NEW ids \in SUBSET EventId, NEW rows \in SUBSET ids, Promise!Commit(ids, rows)
      PROVE  ContractInv'
  <2>1. ContractTypeOK'
    BY <1>4 DEF ContractInv, ContractTypeOK, Promise!Commit
  <2>2. PublishedIsRemembered'
    BY <1>4 DEF ContractInv, ContractTypeOK, PublishedIsRemembered, Promise!Commit
  <2>3. AcceptedUnderAllocatedEpoch'
    BY <1>4 DEF ContractInv, ContractTypeOK, AcceptedUnderAllocatedEpoch, Promise!Commit
  <2>4. Promise!NothingLost'
    BY <1>4 DEF ContractInv, Promise!NothingLost, Promise!Over, Promise!Commit
  <2> QED BY <2>1, <2>2, <2>3, <2>4 DEF ContractInv
<1>5. ASSUME NEW xs \in SUBSET pPending, Promise!Drop(xs) PROVE ContractInv'
  <2>1. ContractTypeOK'
    BY <1>5 DEF ContractInv, ContractTypeOK, Promise!Drop
  <2>2. PublishedIsRemembered'
    BY <1>5 DEF ContractInv, PublishedIsRemembered, Promise!Drop
  <2>3. AcceptedUnderAllocatedEpoch'
    BY <1>5 DEF ContractInv, ContractTypeOK, AcceptedUnderAllocatedEpoch, Promise!Drop
  <2>4. Promise!NothingLost'
    BY <1>5 DEF ContractInv, ContractTypeOK, Promise!NothingLost, Promise!Over, Promise!Drop
  <2> QED BY <2>1, <2>2, <2>3, <2>4 DEF ContractInv
<1>6. CASE UNCHANGED Promise!vars
  BY <1>6 DEF ContractInv, ContractTypeOK, PublishedIsRemembered,
         AcceptedUnderAllocatedEpoch, Promise!NothingLost, Promise!Over, Promise!vars
<1> QED BY <1>1, <1>2, <1>3, <1>4, <1>5, <1>6 DEF Promise!Next

\* No event is published twice, even though deleting a session forgets what was
\* committed for it (DeleteSession clears gateway_ingested_events).
THEOREM PublishedAtMostOnce ==
    ASSUME Promise!ContractAssumption PROVE Promise!Spec => []Promise!AtMostOnce
<1>1. ContractInv => Promise!AtMostOnce
  BY DEF ContractInv, ContractTypeOK, PublishedIsRemembered, Promise!AtMostOnce
<1> QED BY <1>1, ContractInit, ContractStep, PTL DEF Promise!Spec

\* An accepted event stays pending until it is committed or its assignment over.
THEOREM AcceptedNeverLost ==
    ASSUME Promise!ContractAssumption PROVE Promise!Spec => []Promise!NothingLost
<1>1. ContractInv => Promise!NothingLost
  BY DEF ContractInv
<1> QED BY <1>1, ContractInit, ContractStep, PTL DEF Promise!Spec

=============================================================================
