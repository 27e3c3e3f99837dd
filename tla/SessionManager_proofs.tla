------------------------ MODULE SessionManager_proofs ------------------------
(***************************************************************************)
(* A session that holds a client is served, and a session reported as      *)
(* logged out holds a device that has no keys and had none deleted, for    *)
(* any number of engine calls, capsules, clients, devices and faults.      *)
(*                                                                         *)
(* Most critical sections end in Update, which also collects the clients   *)
(* nobody holds.  The invariants are therefore predicates of a state given *)
(* as arguments: a section is followed up to its Update, and one lemma     *)
(* says that the collection afterwards disturbs none of them.              *)
(***************************************************************************)
EXTENDS SessionManager, WellFoundedInduction, TLAPS

\* The pair of the keystore and the deleted devices, and the name of a new one.
USE DEF devices, NewDevice

-----------------------------------------------------------------------------
(* Types.                                                                  *)

\* The steps of a call that has not looked the session up yet.
Unbound == {"idle", "register", "get"}

\* The steps of a call that has built a client and has not let go of it.
Building == {"spawn", "channel", "connect", "pair", "fail"}

Step == Unbound \union Building \union
        {"manage", "stop", "qr", "code", "logout", "forget", "quit", "unlink",
         "stopped", "failed", "drop", "out"}

Capsules == [Capsule -> [status: Status, device: Device \union {0},
                         client: Client \union {0}, reconnect: BOOLEAN]]
ClientRecord ==
    [of: Capsule \union {0}, device: Device \union {0},
     link: {"down", "dropped", "open", "ready"}, flow: {"none", "managed", "qr", "code"},
     pump: {"off", "on", "quit", "disconnect"},
     event: {"none", "connected", "paired", "logged_out", "fatal", "failed", "out"},
     torn: Client \union {0}, loop: {"none", "done"} \union Looping,
     seen: Client \union {0}, cancelled: BOOLEAN]
Clients == [Client -> ClientRecord]
OpRecord == [pc: Step, k: Capsule \union {0}, c: Client \union {0}, d: Device \union {0}]
Ops == [Handler -> OpRecord]

-----------------------------------------------------------------------------
(***************************************************************************)
(* HeldIsServed is not inductive: it needs that a context is cancelled as  *)
(* soon as the session lets go of the client it belongs to, and that a     *)
(* call that has yet to spawn a loop is at work on the client's session.   *)
(***************************************************************************)

\* A client nobody built is blank; one whose context lives is its session's
\* client, and its loop connects no other client.
ClientOK(cs, cl, c) ==
    /\ cl[c].of = 0 => cl[c] = NoClient
    /\ ~cl[c].cancelled => cl[c].of \in Capsule /\ cs[cl[c].of].client = c
    /\ cl[c].loop = "connect" \/ (cl[c].loop = "check" /\ ~cl[c].cancelled)
         => cl[c].seen = c

\* A call works on a capsule; the client it has built is that capsule's.
OpOK(cl, p) ==
    /\ p.pc \notin Unbound => p.k \in Capsule
    /\ p.pc \in Building => p.c \in Client /\ cl[p.c].of = p.k

\* A call in o has yet to spawn the loop of client c.
StartingIn(o, c) == \E h \in Handler : o[h].c = c /\ o[h].pc \in Building

\* HeldIsServed, for capsule k.
CapsuleOK(cs, cl, o, k) ==
    cs[k].client # 0 =>
        /\ cs[k].reconnect /\ ~cl[cs[k].client].cancelled /\ cl[cs[k].client].of = k
        /\ cl[cs[k].client].loop \in Looping \/ StartingIn(o, cs[k].client)

Served(cs, cl, o) ==
    /\ cs \in Capsules /\ cl \in Clients /\ o \in Ops
    /\ \A c \in Client : ClientOK(cs, cl, c)
    /\ \A h \in Handler : OpOK(cl, o[h])
    /\ \A k \in Capsule : CapsuleOK(cs, cl, o, k)

ServedInv ==
    /\ keystore \subseteq Device \union {0}
    /\ sessions \in Capsule \union {0}
    /\ Served(capsule, client, op)

\* Names are positive numbers: 0 stands for none.
LEMMA NamesArePositive == 0 \notin Capsule /\ 0 \notin Client /\ 0 \notin Device
BY ManagerAssumption DEF Capsule, Client, Device

\* The blank client is a client.
LEMMA BlankClient ==
    /\ NoClient.of = 0 /\ NoClient.device = 0 /\ NoClient.link = "down" /\ NoClient.cancelled
    /\ NoClient.loop = "none" /\ NoClient.seen = 0 /\ NoClient.event = "none"
    /\ NoClient.pump = "off" /\ NoClient.torn = 0
BY DEF NoClient

\* What the collection leaves of a client: the client, or a blank one if no
\* capsule and no call holds it.
LEMMA CollectedIs ==
    ASSUME NEW cs, NEW cl, NEW o, NEW c \in Client
    PROVE  /\ Collected(cl, cs, o)[c] \in {cl[c], NoClient}
           /\ (\E k \in Capsule : cs[k].client = c) => Collected(cl, cs, o)[c] = cl[c]
           /\ (\E h \in Handler : o[h].c = c) => Collected(cl, cs, o)[c] = cl[c]
BY Zenon DEF Collected

\* The collection of clients nobody holds keeps the invariant.
LEMMA CollectedServed ==
    ASSUME NEW cs, NEW cl, NEW o, Served(cs, cl, o)
    PROVE  Served(cs, Collected(cl, cs, o), o)
<1> DEFINE C == Collected(cl, cs, o)
<1>1. \A c \in Client : C[c] \in {cl[c], NoClient}
  BY CollectedIs
<1>2. \A c \in Client : (\E k \in Capsule : cs[k].client = c) => C[c] = cl[c]
  BY CollectedIs
<1>3. \A c \in Client : (\E h \in Handler : o[h].c = c) => C[c] = cl[c]
  BY CollectedIs
<1>4. C \in [Client -> {NoClient} \union {cl[c] : c \in Client}]
  <2>1. C = [c \in Client |-> C[c]]
    BY DEF Collected
  <2> QED BY <1>1, <2>1
<1> HIDE DEF C
<1>5. C \in Clients
  <2>1. cl \in Clients /\ NoClient \in ClientRecord
    BY DEF Served, ClientRecord, NoClient
  <2>2. \A c \in Client : C[c] \in ClientRecord
    BY <1>1, <2>1 DEF Clients
  <2> QED BY <1>4, <2>2 DEF Clients
<1>6. ASSUME NEW c \in Client PROVE ClientOK(cs, C, c)
  BY <1>1, BlankClient DEF Served, ClientOK
<1>7. ASSUME NEW h \in Handler PROVE OpOK(C, o[h])
  BY <1>3 DEF Served, OpOK
<1>8. ASSUME NEW k \in Capsule PROVE CapsuleOK(cs, C, o, k)
  <2>1. cs[k].client \in Client \/ cs[k].client = 0
    BY DEF Served, Capsules
  <2> QED BY <1>2, <2>1 DEF Served, CapsuleOK
<1> QED BY <1>5, <1>6, <1>7, <1>8 DEF Served, C

\* An Update keeps the invariant of what it is given.
LEMMA UpdateServed ==
    ASSUME NEW cs, NEW cl, NEW o, Served(cs, cl, o), Update(cs, cl, o)
    PROVE  Served(capsule', client', op')
BY CollectedServed DEF Update

\* A call moves on, from a step where it does not owe a loop, or with the client
\* it owes one, or after the loop is there.
LEMMA OpMoves ==
    ASSUME NEW cs, NEW cl, NEW o, Served(cs, cl, o),
           NEW h \in Handler, NEW p \in OpRecord, OpOK(cl, p),
           \/ o[h].pc \notin Building
           \/ p.pc \in Building /\ p.c = o[h].c
           \/ cl[o[h].c].loop \in Looping
           \/ cs[o[h].k].client # o[h].c
    PROVE  Served(cs, cl, [o EXCEPT ![h] = p])
<1> DEFINE q == [o EXCEPT ![h] = p]
<1>1. q \in Ops /\ q[h] = p /\ \A g \in Handler : g # h => q[g] = o[g]
  BY DEF Served, Ops
<1> HIDE DEF q
<1>2. \A g \in Handler : OpOK(cl, q[g])
  BY <1>1 DEF Served
<1>3. ASSUME NEW k \in Capsule PROVE CapsuleOK(cs, cl, q, k)
  <2> SUFFICES ASSUME cs[k].client # 0, cl[cs[k].client].loop \notin Looping
               PROVE  StartingIn(q, cs[k].client)
      BY DEF Served, CapsuleOK
  <2>1. PICK g \in Handler : o[g].c = cs[k].client /\ o[g].pc \in Building
    BY DEF Served, CapsuleOK, StartingIn
  <2>2. CASE g # h
    BY <1>1, <2>1, <2>2 DEF StartingIn
  <2>3. CASE g = h
    <3>1. cs[o[h].k].client = o[h].c
      BY <2>1, <2>3 DEF Served, OpOK, CapsuleOK
    <3>2. p.pc \in Building /\ p.c = cs[k].client
      BY <2>1, <2>3, <3>1
    <3> QED BY <1>1, <3>2 DEF StartingIn
  <2> QED BY <2>2, <2>3
<1> QED BY <1>1, <1>2, <1>3 DEF Served, q

\* What a client's goroutines may do to its loop: nothing, start or wait, end
\* once the context is cancelled or the session no longer reconnects, read the
\* session's client, or go on with the client read.
LoopStep(cs, x, r) ==
    \/ r.loop = x.loop /\ r.seen = x.seen
    \/ r.loop \in {"top", "wait"}
    \/ r.loop = "done" /\ (x.cancelled \/ ~cs[x.of].reconnect)
    \/ r.loop = "check" /\ r.seen = cs[x.of].client
    \/ r.loop = "connect" /\ x.loop = "check" /\ r.seen = x.seen /\ ~x.cancelled

\* Clients that keep their session and their context keep the invariant.
LEMMA ClientsMove ==
    ASSUME NEW cs, NEW cl, NEW o, Served(cs, cl, o), NEW cm \in Clients,
           \A c \in Client :
               \/ cm[c] = cl[c]
               \/ /\ cl[c].of # 0
                  /\ cm[c].of = cl[c].of /\ cm[c].cancelled = cl[c].cancelled
                  /\ LoopStep(cs, cl[c], cm[c])
    PROVE  Served(cs, cm, o)
<1>1. \A c \in Client : cm[c].of = cl[c].of /\ cm[c].cancelled = cl[c].cancelled
  OBVIOUS
<1>2. ASSUME NEW c \in Client PROVE ClientOK(cs, cm, c)
  BY DEF Served, ClientOK, LoopStep
<1>3. ASSUME NEW h \in Handler PROVE OpOK(cm, o[h])
  BY <1>1 DEF Served, OpOK
<1>4. ASSUME NEW k \in Capsule PROVE CapsuleOK(cs, cm, o, k)
  <2> SUFFICES ASSUME cs[k].client # 0 PROVE CapsuleOK(cs, cm, o, k)
      BY DEF CapsuleOK
  <2>1. cs[k].client \in Client
    BY DEF Served, Capsules
  <2>2. CapsuleOK(cs, cl, o, k)
    BY DEF Served
  <2> DEFINE c == cs[k].client
  <2>3. ~cl[c].cancelled /\ cl[c].of = k /\ cs[k].reconnect
    BY <2>2 DEF CapsuleOK
  <2>4. cm[c].loop = cl[c].loop \/ cm[c].loop \in Looping
    BY <2>1, <2>3 DEF LoopStep, Looping
  <2> QED BY <1>1, <2>1, <2>2, <2>4 DEF CapsuleOK
<1> QED BY <1>2, <1>3, <1>4 DEF Served

\* A status or a device says nothing of who is served.
LEMMA CapsulesMove ==
    ASSUME NEW cs, NEW cl, NEW o, Served(cs, cl, o), NEW cq \in Capsules,
           \A k \in Capsule : cq[k].client = cs[k].client /\ cq[k].reconnect = cs[k].reconnect
    PROVE  Served(cq, cl, o)
<1>1. ASSUME NEW c \in Client PROVE ClientOK(cq, cl, c)
  BY DEF Served, ClientOK
<1>2. ASSUME NEW k \in Capsule PROVE CapsuleOK(cq, cl, o, k)
  BY DEF Served, CapsuleOK
<1> QED BY <1>1, <1>2 DEF Served

\* A nonempty set of naturals has a least element.
LEMMA LeastNat ==
    ASSUME NEW T \in SUBSET Nat, T # {}
    PROVE  \E n \in T : \A k \in T : n <= k
<1> DEFINE R == OpToRel(<, Nat)
<1>1. IsWellFoundedOn(R, Nat)
  BY NatLessThanWellFounded
<1> HIDE DEF R
<1>2. PICK n \in T : \A k \in T : ~(<<k, n>> \in R)
  BY <1>1, WFMin
<1>3. \A k \in T : k < n => <<k, n>> \in R
  BY <1>2 DEF R, OpToRel
<1>4. \A k \in T : ~(k < n)
  BY <1>2, <1>3, Zenon
<1>5. n \in Nat /\ \A k \in T : k \in Nat
  OBVIOUS
<1>6. \A k \in T : n <= k
  BY <1>4, <1>5, SMT
<1> QED BY <1>6, Zenon

\* The least of a nonempty set of names is one of them.
LEMMA LeastIsMember ==
    ASSUME NEW S \in SUBSET Nat, S # {}
    PROVE  Least(S) \in S
BY LeastNat DEF Least

\* The names that may be used again are names.
LEMMA FreeNames ==
    /\ FreeCapsules # {} => Least(FreeCapsules) \in FreeCapsules
    /\ FreeClients # {} => Least(FreeClients) \in FreeClients
    /\ FreeDevices # {} => Least(FreeDevices) \in FreeDevices
<1>1. FreeCapsules \subseteq Nat /\ FreeClients \subseteq Nat /\ FreeDevices \subseteq Nat
  BY ManagerAssumption DEF FreeCapsules, FreeClients, FreeDevices, Capsule, Client, Device
<1> QED BY <1>1, LeastIsMember

\* A teardown cancels the context of the client the session lets go of.
LEMMA TornServed ==
    ASSUME ServedInv, NEW k \in Capsule
    PROVE  Served(Torn(k), Cancelled(k), op)
<1> DEFINE T == Torn(k)
           C == Cancelled(k)
<1>1. T \in Capsules
  BY DEF ServedInv, Served, Capsules, Torn
<1>2. /\ T[k].client = 0
      /\ \A j \in Capsule : j # k => T[j] = capsule[j]
  BY DEF ServedInv, Served, Capsules, Torn
<1>3. C \in Clients
  <2>1. \A c \in Client : client[c] \in ClientRecord
    BY DEF ServedInv, Served, Clients
  <2>2. ASSUME NEW x \in ClientRecord PROVE [x EXCEPT !.cancelled = TRUE] \in ClientRecord
    BY DEF ClientRecord
  <2> QED BY <2>1, <2>2 DEF Clients, Cancelled
<1>4. \A c \in Client : C[c].of = client[c].of /\ C[c].loop = client[c].loop
                        /\ C[c].seen = client[c].seen
  BY DEF ServedInv, Served, Clients, ClientRecord, Cancelled
<1>5. \A c \in Client : c # capsule[k].client => C[c] = client[c]
  BY DEF Cancelled
<1>6. capsule[k].client \in Client => C[capsule[k].client].cancelled
  BY DEF ServedInv, Served, Clients, ClientRecord, Cancelled
<1> HIDE DEF T, C
<1>7. ASSUME NEW c \in Client PROVE ClientOK(T, C, c)
  <2>1. ClientOK(capsule, client, c)
    BY DEF ServedInv, Served
  <2>2. CASE c = capsule[k].client
    <3>1. client[c].of = k
      BY <2>2, NamesArePositive DEF ServedInv, Served, CapsuleOK
    <3> QED BY <1>4, <1>6, <2>1, <2>2, <3>1, NamesArePositive DEF ClientOK
  <2>3. CASE c # capsule[k].client
    BY <1>2, <1>5, <2>1, <2>3 DEF ClientOK
  <2> QED BY <2>2, <2>3
<1>8. ASSUME NEW h \in Handler PROVE OpOK(C, op[h])
  BY <1>4 DEF ServedInv, Served, OpOK
<1>9. ASSUME NEW j \in Capsule PROVE CapsuleOK(T, C, op, j)
  <2>1. CASE j = k
    BY <1>2, <2>1 DEF CapsuleOK
  <2>2. CASE j # k
    <3>1. CapsuleOK(capsule, client, op, j) /\ CapsuleOK(capsule, client, op, k)
      BY DEF ServedInv, Served
    <3>2. capsule[j].client \in Client \union {0}
      BY DEF ServedInv, Served, Capsules
    <3>3. capsule[j].client # 0 => capsule[j].client # capsule[k].client
      BY <2>2, <3>1 DEF CapsuleOK
    <3> QED BY <1>2, <1>5, <2>2, <3>1, <3>2, <3>3 DEF CapsuleOK
  <2> QED BY <2>1, <2>2
<1> QED BY <1>1, <1>3, <1>7, <1>8, <1>9 DEF ServedInv, Served, T, C

\* A call builds a client for a session that has none.
LEMMA BuiltServed ==
    ASSUME ServedInv, NEW h \in Handler, op[h].k \in Capsule, op[h].pc \notin Building,
           capsule[op[h].k].client = 0, NEW c \in FreeClients,
           NEW flow \in {"managed", "qr", "code"}, NEW pc \in Building
    PROVE  Served(Built(op[h].k, c), NewClient(op[h].k, c, flow),
                  [op EXCEPT ![h].pc = pc, ![h].c = c])
<1> DEFINE k == op[h].k
           B == Built(k, c)
           N == NewClient(k, c, flow)
           o == [op EXCEPT ![h].pc = pc, ![h].c = c]
<1>1. c \in Client /\ client[c].of = 0 /\ c # 0
  BY NamesArePositive DEF FreeClients
<1>2. B \in Capsules
  <2> DEFINE Record == [status: Status, device: Device \union {0},
                        client: Client \union {0}, reconnect: BOOLEAN]
             y == [capsule[k] EXCEPT !.client = c]
             z == [y EXCEPT !.reconnect = TRUE]
  <2>1. capsule \in [Capsule -> Record] /\ k \in Capsule
    BY DEF ServedInv, Served, Capsules
  <2>2. capsule[k] \in Record
    BY <2>1
  <2>3. y \in Record
    BY <1>1, <2>2
  <2>4. z \in Record
    <3> HIDE DEF y
    <3> QED BY <2>3
  <2>5. B = [capsule EXCEPT ![k] = z]
    BY <2>1, <2>2 DEF Built
  <2> HIDE DEF Record, z
  <2>6. [capsule EXCEPT ![k] = z] \in [Capsule -> Record]
    BY <2>1, <2>4
  <2> QED BY <2>5, <2>6 DEF Capsules, Record
<1>3. B[k].client = c /\ B[k].reconnect /\ \A j \in Capsule : j # k => B[j] = capsule[j]
  BY DEF ServedInv, Served, Capsules, Built
<1>4. N \in Clients
  BY <1>1 DEF ServedInv, Served, Clients, ClientRecord, Capsules, NewClient, NoClient, Looping
<1>5. /\ N[c].of = k /\ ~N[c].cancelled /\ N[c].loop = "none"
      /\ \A b \in Client : b # c => N[b] = client[b]
  BY <1>1 DEF ServedInv, Served, Clients, NewClient, NoClient
<1>6. o \in Ops
  <2>1. op[h] \in OpRecord /\ op \in Ops /\ pc \in Step
    BY DEF ServedInv, Served, Ops, Step
  <2>2. [op[h] EXCEPT !.pc = pc, !.c = c] \in OpRecord
    BY <1>1, <2>1 DEF OpRecord
  <2>3. o = [op EXCEPT ![h] = [op[h] EXCEPT !.pc = pc, !.c = c]]
    BY <2>1 DEF Ops
  <2> QED BY <2>1, <2>2, <2>3 DEF Ops
<1>7. /\ o[h].pc = pc /\ o[h].c = c /\ o[h].k = k
      /\ \A g \in Handler : g # h => o[g] = op[g]
  BY DEF ServedInv, Served, Ops
<1> HIDE DEF B, N, o
<1>8. ASSUME NEW b \in Client PROVE ClientOK(B, N, b)
  <2>1. CASE b = c
    BY <1>3, <1>5, <2>1, NamesArePositive DEF ClientOK
  <2>2. CASE b # c
    <3>1. ClientOK(capsule, client, b)
      BY DEF ServedInv, Served
    <3>2. ~client[b].cancelled => client[b].of # k
      BY <2>2, <3>1, NamesArePositive DEF ClientOK
    <3> QED BY <1>3, <1>5, <2>2, <3>1, <3>2 DEF ClientOK
  <2> QED BY <2>1, <2>2
<1>9. ASSUME NEW g \in Handler PROVE OpOK(N, o[g])
  <2>1. CASE g = h
    BY <1>1, <1>5, <1>7, <2>1 DEF OpOK
  <2>2. CASE g # h
    <3>1. OpOK(client, op[g])
      BY DEF ServedInv, Served
    <3>2. op[g].pc \in Building => op[g].c # c
      BY <1>1, <3>1, NamesArePositive DEF OpOK, Building, Unbound
    <3> QED BY <1>5, <1>7, <2>2, <3>1, <3>2 DEF OpOK
  <2> QED BY <2>1, <2>2
<1>10. ASSUME NEW j \in Capsule PROVE CapsuleOK(B, N, o, j)
  <2>1. CASE j = k
    BY <1>3, <1>5, <1>7, <2>1 DEF CapsuleOK, StartingIn
  <2>2. CASE j # k
    <3>1. CapsuleOK(capsule, client, op, j) /\ capsule[j].client \in Client \union {0}
      BY DEF ServedInv, Served, Capsules
    <3>2. capsule[j].client # 0 => capsule[j].client # c
      BY <1>1, <3>1, NamesArePositive DEF CapsuleOK
    <3>3. StartingIn(op, capsule[j].client) => StartingIn(o, capsule[j].client)
      BY <1>7 DEF StartingIn
    <3> QED BY <1>3, <1>5, <2>2, <3>1, <3>2, <3>3 DEF CapsuleOK
  <2> QED BY <2>1, <2>2
<1> QED BY <1>2, <1>4, <1>6, <1>8, <1>9, <1>10 DEF Served, B, N, o

\* A capsule that nothing refers to is used for a session registered anew.
LEMMA RegisteredServed ==
    ASSUME ServedInv, NEW k \in FreeCapsules, NEW d \in Device \union {0}
    PROVE  Served([capsule EXCEPT ![k] = [NoCapsule EXCEPT !.device = d]], client, op)
<1> DEFINE R == [capsule EXCEPT ![k] = [NoCapsule EXCEPT !.device = d]]
<1>1. k \in Capsule /\ \A c \in Client : client[c].of # k
  BY DEF FreeCapsules, CapsuleInUse
<1>2. R \in Capsules
  BY <1>1 DEF ServedInv, Served, Capsules, NoCapsule, Status
<1>3. R[k].client = 0 /\ \A j \in Capsule : j # k => R[j] = capsule[j]
  BY <1>1 DEF ServedInv, Served, Capsules, NoCapsule
<1> HIDE DEF R
<1>4. ASSUME NEW c \in Client PROVE ClientOK(R, client, c)
  BY <1>1, <1>3 DEF ServedInv, Served, ClientOK
<1>5. ASSUME NEW j \in Capsule PROVE CapsuleOK(R, client, op, j)
  BY <1>3 DEF ServedInv, Served, CapsuleOK
<1> QED BY <1>2, <1>4, <1>5 DEF ServedInv, Served, R

-----------------------------------------------------------------------------
(* One step of a call.                                                     *)

\* What the invariant says of the types.
LEMMA ServedTypes ==
    ASSUME ServedInv
    PROVE  /\ capsule \in Capsules /\ client \in Clients /\ op \in Ops
           /\ Served(capsule, client, op)
           /\ \A k \in Capsule : capsule[k].client \in Client \union {0}
                                 /\ capsule[k].device \in Device \union {0}
           /\ \A c \in Client : client[c] \in ClientRecord
           /\ \A h \in Handler : op[h] \in OpRecord /\ OpOK(client, op[h])
BY DEF ServedInv, Served, Capsules, Clients, Ops

\* A call that has come to its end is idle.
LEMMA IdleOp == NoOp \in OpRecord /\ \A cl : OpOK(cl, NoOp)
BY DEF NoOp, OpRecord, Step, Unbound, Building, OpOK

\* A call that owes no loop, or has spawned it, ends.
LEMMA DoneServed ==
    ASSUME NEW cs, NEW cl, Served(cs, cl, op), NEW h \in Handler,
           \/ op[h].pc \notin Building
           \/ cl[op[h].c].loop \in Looping
           \/ cs[op[h].k].client # op[h].c
    PROVE  Served(cs, cl, Done(h))
BY IdleOp, OpMoves DEF Done

\* A new status does not disturb the invariant.
LEMMA StatusServed ==
    ASSUME NEW k \in Capsule, NEW s \in Status, NEW cl, NEW o, Served(capsule, cl, o)
    PROVE  Served(WithStatus(k, s), cl, o)
<1> DEFINE W == WithStatus(k, s)
<1>1. /\ W \in Capsules
      /\ \A j \in Capsule : W[j].client = capsule[j].client
                            /\ W[j].reconnect = capsule[j].reconnect
  BY DEF Served, Capsules, WithStatus
<1> HIDE DEF W
<1>2. Served(W, cl, o)
  BY <1>1, CapsulesMove
<1> QED BY <1>2 DEF W

\* Nor does a disconnect.
LEMMA DisconnectedServed ==
    ASSUME NEW cs, NEW cl, NEW o, Served(cs, cl, o), NEW c \in Client \union {0}
    PROVE  Served(cs, Disconnected(cl, c), o)
<1> DEFINE D == Disconnected(cl, c)
<1>1. ASSUME NEW b \in Client
      PROVE  /\ D[b] \in ClientRecord
             /\ \/ D[b] = cl[b]
                \/ /\ D[b].of = cl[b].of /\ D[b].cancelled = cl[b].cancelled
                   /\ cl[b].of # 0 /\ D[b].loop = cl[b].loop /\ D[b].seen = cl[b].seen
  <2>1. cl[b] \in ClientRecord /\ ClientOK(cs, cl, b)
    BY DEF Served, Clients
  <2>2. CASE b = c /\ cl[b].of = 0
    <3>1. cl[b] = NoClient
      BY <2>1, <2>2 DEF ClientOK
    <3>2. D[b] = [cl[b] EXCEPT !.link = "down"]
      BY <2>2 DEF Disconnected
    <3>3. D[b] = cl[b]
      BY <3>1, <3>2 DEF NoClient
    <3> QED BY <2>1, <3>3
  <2>3. CASE b = c /\ cl[b].of # 0
    <3>1. D[b] = [cl[b] EXCEPT !.link = "down"]
      BY <2>3 DEF Disconnected
    <3> HIDE DEF D
    <3> QED BY <2>1, <2>3, <3>1 DEF ClientRecord
  <2>4. CASE b # c
    BY <2>1, <2>4 DEF Disconnected
  <2> QED BY <2>2, <2>3, <2>4
<1>2. D = [b \in Client |-> D[b]]
  BY DEF Disconnected
<1> HIDE DEF D
<1>3. D \in Clients
  BY <1>1, <1>2 DEF Clients
<1>4. \A b \in Client : \/ D[b] = cl[b]
                        \/ /\ cl[b].of # 0 /\ D[b].of = cl[b].of
                           /\ D[b].cancelled = cl[b].cancelled /\ LoopStep(cs, cl[b], D[b])
  BY <1>1 DEF LoopStep
<1>5. Served(cs, D, o)
  BY <1>3, <1>4, ClientsMove
<1> QED BY <1>5 DEF D

\* One client moves.
LEMMA ClientMoves ==
    ASSUME NEW cs, NEW cl, NEW o, Served(cs, cl, o), NEW c \in Client, cl[c].of # 0,
           NEW r \in ClientRecord, r.of = cl[c].of, r.cancelled = cl[c].cancelled,
           LoopStep(cs, cl[c], r)
    PROVE  Served(cs, [cl EXCEPT ![c] = r], o)
<1> DEFINE M == [cl EXCEPT ![c] = r]
<1>1. M \in Clients /\ M[c] = r /\ \A b \in Client : b # c => M[b] = cl[b]
  BY DEF Served, Clients
<1> HIDE DEF M
<1>2. \A b \in Client : \/ M[b] = cl[b]
                        \/ /\ cl[b].of # 0 /\ M[b].of = cl[b].of
                           /\ M[b].cancelled = cl[b].cancelled /\ LoopStep(cs, cl[b], M[b])
  BY <1>1
<1>3. Served(cs, M, o)
  BY <1>1, <1>2, ClientsMove
<1> QED BY <1>3 DEF M

\* Every step of a call keeps the invariant: starting, ...
LEMMA StartKeepsServed ==
    ASSUME ServedInv, NEW h \in Handler,
           Register(h) \/ Get(h) \/ Manage(h) \/ Spawn(h)
    PROVE  ServedInv'
<1>1. Served(capsule, client, op) /\ op[h] \in OpRecord /\ OpOK(client, op[h]) /\ op \in Ops
  BY ServedTypes
<1>2. CASE Register(h)
  <2> DEFINE p == [NoOp EXCEPT !.pc = "get"]
  <2>1. p \in OpRecord /\ \A cl : OpOK(cl, p)
    BY DEF NoOp, OpRecord, Step, Unbound, Building, OpOK
  <2>2. op[h].pc \notin Building /\ op' = [op EXCEPT ![h] = p] /\ client' = client
    BY <1>2 DEF Register, At, Building
  <2>3. op[h].d \in Device \union {0}
    BY <1>1 DEF OpRecord
  <2> HIDE DEF p
  <2>4. Served(capsule', client, op) /\ sessions' \in Capsule \union {0}
    <3>1. CASE sessions # 0
      BY <1>1, <1>2, <3>1 DEF Register, ServedInv
    <3>2. CASE sessions = 0
      <4>1. sessions' \in FreeCapsules
        BY <1>2, <3>2, FreeNames DEF Register
      <4>2. capsule' = [capsule EXCEPT ![sessions'] = [NoCapsule EXCEPT !.device = op[h].d]]
        BY <1>2, <3>2 DEF Register
      <4>3. Served(capsule', client, op)
        BY <2>3, <4>1, <4>2, RegisteredServed
      <4> QED BY <4>1, <4>3 DEF FreeCapsules
    <3> QED BY <3>1, <3>2
  <2>5. Served(capsule', client, op')
    BY <2>1, <2>2, <2>4, OpMoves
  <2> QED BY <1>2, <2>2, <2>4, <2>5 DEF Register, ServedInv
<1>3. CASE Get(h)
  <2>1. op[h].pc \notin Building
    BY <1>3 DEF Get, At, Building
  <2>2. Served(capsule, client, op')
    <3>1. CASE sessions = 0
      BY <1>1, <1>3, <2>1, <3>1, DoneServed DEF Get
    <3>2. CASE sessions # 0
      <4> DEFINE p == [op[h] EXCEPT !.pc = "manage", !.k = sessions]
      <4>1. p \in OpRecord /\ p.pc = "manage" /\ p.k = sessions
        BY <1>1 DEF OpRecord, Step, ServedInv
      <4>2. op' = [op EXCEPT ![h] = p]
        BY <1>1, <1>3, <3>2 DEF Get, Ops
      <4> HIDE DEF p
      <4>3. OpOK(client, p)
        BY <3>2, <4>1 DEF OpOK, Building, ServedInv
      <4> QED BY <1>1, <2>1, <4>1, <4>2, <4>3, OpMoves
    <3> QED BY <3>1, <3>2
  <2> QED BY <1>3, <2>2 DEF Get, ServedInv
<1>4. CASE Manage(h)
  <2>1. op[h].pc \notin Building /\ op[h].pc \notin Unbound
    BY <1>4 DEF Manage, At, Building, Unbound
  <2>2. op[h].k \in Capsule
    BY <1>1, <2>1 DEF OpOK
  <2>3. Served(capsule', client', op')
    <3>1. CASE capsule[op[h].k].client # 0
      <4>1. Update(capsule, client, Done(h))
        BY <1>4, <3>1 DEF Manage
      <4>2. Served(capsule, client, Done(h))
        BY <1>1, <2>1, DoneServed
      <4> QED BY <4>1, <4>2, UpdateServed
    <3>2. CASE capsule[op[h].k].client = 0
      <4> DEFINE c == Least(FreeClients)
      <4>1. c \in FreeClients
        BY <1>4, <3>2, FreeNames DEF Manage
      <4>2. Update(Built(op[h].k, c), NewClient(op[h].k, c, "managed"),
                   [op EXCEPT ![h].pc = "spawn", ![h].c = c])
        BY <1>4, <3>2 DEF Manage
      <4> HIDE DEF c
      <4>3. Served(Built(op[h].k, c), NewClient(op[h].k, c, "managed"),
                   [op EXCEPT ![h].pc = "spawn", ![h].c = c])
        BY <2>1, <2>2, <3>2, <4>1, BuiltServed DEF Building
      <4> QED BY <4>2, <4>3, UpdateServed
    <3> QED BY <3>1, <3>2
  <2> QED BY <1>4, <2>3 DEF Manage, ServedInv
<1>5. CASE Spawn(h)
  <2> DEFINE c == op[h].c
             r == [client[c] EXCEPT !.loop = "top"]
             L == [client EXCEPT ![c].loop = "top"]
             W == WithStatus(op[h].k, "starting")
  <2>1. op[h].k \in Capsule /\ c \in Client /\ client[c].of # 0
    BY <1>1, <1>5, NamesArePositive DEF Spawn, At, OpOK, Building, Unbound
  <2>2. /\ r \in ClientRecord /\ r.of = client[c].of /\ r.cancelled = client[c].cancelled
        /\ r.loop = "top"
    BY <2>1, ServedTypes DEF ClientRecord, Looping
  <2>3. L = [client EXCEPT ![c] = r] /\ L[c].loop = "top"
    BY <2>1, ServedTypes DEF Clients, ClientRecord
  <2>4. Served(capsule, L, op)
    <3> HIDE DEF r, L
    <3>1. LoopStep(capsule, client[c], r)
      BY <2>2 DEF LoopStep
    <3> QED BY <1>1, <2>1, <2>2, <2>3, <3>1, ClientMoves
  <2>5. Update(W, L, Done(h))
    BY <1>5 DEF Spawn
  <2> HIDE DEF L, W
  <2>6. Served(W, L, op)
    BY <2>1, <2>4, StatusServed DEF W, Status
  <2>7. Served(W, L, Done(h))
    BY <2>3, <2>6, DoneServed DEF Looping
  <2>8. Served(capsule', client', op')
    BY <2>5, <2>7, UpdateServed
  <2> QED BY <1>5, <2>8 DEF Spawn, ServedInv
<1> QED BY <1>2, <1>3, <1>4, <1>5

\* ... pairing, ...
LEMMA PairingKeepsServed ==
    ASSUME ServedInv, NEW h \in Handler,
           \/ PairingRuns(h) \/ StartPairing(h) \/ OpenChannel(h) \/ ConnectPairing(h)
           \/ PairPhone(h) \/ PairingFails(h)
    PROVE  ServedInv'
<1>1. Served(capsule, client, op) /\ op[h] \in OpRecord /\ OpOK(client, op[h]) /\ op \in Ops
  BY ServedTypes
<1>2. CASE PairingRuns(h)
  <2>1. op[h].pc \notin Building /\ Update(capsule, client, Done(h))
    BY <1>2 DEF PairingRuns, At, Building
  <2>2. Served(capsule, client, Done(h))
    BY <1>1, <2>1, DoneServed
  <2>3. Served(capsule', client', op')
    BY <2>1, <2>2, UpdateServed
  <2> QED BY <1>2, <2>3 DEF PairingRuns, ServedInv
<1>3. CASE StartPairing(h)
  <2> DEFINE c == Least(FreeClients)
  <2>1. c \in FreeClients /\ op[h].pc \in {"qr", "code"} /\ capsule[op[h].k].client = 0
    BY <1>3, FreeNames DEF StartPairing, At
  <2>2. Update(Built(op[h].k, c), NewClient(op[h].k, c, op[h].pc),
               [op EXCEPT ![h].pc = "channel", ![h].c = c])
    BY <1>3 DEF StartPairing
  <2> HIDE DEF c
  <2>3. op[h].k \in Capsule /\ op[h].pc \notin Building
    BY <1>1, <2>1 DEF OpOK, Unbound, Building
  <2>4. Served(Built(op[h].k, c), NewClient(op[h].k, c, op[h].pc),
               [op EXCEPT ![h].pc = "channel", ![h].c = c])
    BY <2>1, <2>3, BuiltServed DEF Building
  <2>5. Served(capsule', client', op')
    BY <2>2, <2>4, UpdateServed
  <2> QED BY <1>3, <2>5 DEF StartPairing, ServedInv
<1>4. ASSUME NEW pc \in Building, op[h].pc \in Building, NEW cl,
             OpOK(cl, op[h]), Served(capsule, cl, op)
      PROVE  Served(capsule, cl, Moved(h, pc))
  <2> DEFINE p == [op[h] EXCEPT !.pc = pc]
  <2>1. p \in OpRecord /\ p.pc = pc /\ p.k = op[h].k /\ p.c = op[h].c
    BY <1>1 DEF OpRecord, Step
  <2>2. Moved(h, pc) = [op EXCEPT ![h] = p]
    BY <1>1 DEF Moved, Ops
  <2> HIDE DEF p
  <2>3. OpOK(cl, p)
    BY <1>4, <2>1 DEF OpOK, Building, Unbound
  <2>4. p.pc \in Building /\ p.c = op[h].c
    BY <1>4, <2>1
  <2>5. Served(capsule, cl, [op EXCEPT ![h] = p])
    BY <1>4, <2>1, <2>3, <2>4, OpMoves
  <2> QED BY <2>2, <2>5
<1>5. CASE OpenChannel(h)
  <2>1. op[h].pc \in Building /\ op[h].k \in Capsule
    BY <1>1, <1>5 DEF OpenChannel, At, OpOK, Unbound, Building
  <2>2. Served(capsule, client, Moved(h, "fail")) /\ Served(capsule, client, Moved(h, "connect"))
    BY <1>1, <1>4, <2>1 DEF Building
  <2>3. Served(WithStatus(op[h].k, "scan"), client, Moved(h, "connect"))
    BY <2>1, <2>2, StatusServed DEF Status
  <2> QED BY <1>5, <2>2, <2>3 DEF OpenChannel, ServedInv
<1>6. CASE ConnectPairing(h)
  <2> DEFINE c == op[h].c
             O == [client EXCEPT ![c].link = "open"]
             P == [O EXCEPT ![c].pump = "on", ![c].loop = "wait"]
             r == [client[c] EXCEPT !.link = "open"]
             q == [client[c] EXCEPT !.link = "open", !.pump = "on", !.loop = "wait"]
  <2>1. op[h].pc \in Building /\ c \in Client /\ client[c].of # 0
    BY <1>1, <1>6, NamesArePositive DEF ConnectPairing, At, OpOK, Building, Unbound
  <2>2. client[c] \in ClientRecord /\ client \in [Client -> ClientRecord]
    BY <2>1, ServedTypes DEF Clients
  <2>3. /\ r \in ClientRecord /\ r.of = client[c].of /\ r.cancelled = client[c].cancelled
        /\ r.loop = client[c].loop /\ r.seen = client[c].seen
    BY <2>2 DEF ClientRecord
  <2>4. /\ q \in ClientRecord /\ q.of = client[c].of /\ q.cancelled = client[c].cancelled
        /\ q.loop = "wait"
    <3>1. [r EXCEPT !.pump = "on"] \in ClientRecord
      BY <2>3 DEF ClientRecord
    <3>2. q = [[r EXCEPT !.pump = "on"] EXCEPT !.loop = "wait"]
      BY <2>2 DEF ClientRecord
    <3>3. "wait" \in {"none", "done"} \union Looping
      BY DEF Looping
    <3>4. q \in ClientRecord
      BY <3>1, <3>2, <3>3 DEF ClientRecord
    <3>5. q.of = client[c].of /\ q.cancelled = client[c].cancelled /\ q.loop = "wait"
      BY <2>2 DEF ClientRecord
    <3> QED BY <3>4, <3>5
  <2>5. O = [client EXCEPT ![c] = r]
    BY <2>1, <2>2
  <2>6. P = [client EXCEPT ![c] = q] /\ P[c].loop = "wait"
    BY <2>1, <2>2 DEF ClientRecord
  <2>7. \/ Update(capsule, O, Moved(h, "pair"))
        \/ Update(capsule, P, Done(h))
    BY <1>6 DEF ConnectPairing
  <2> HIDE DEF O, P, r, q
  <2>8. Served(capsule, O, op)
    <3>1. LoopStep(capsule, client[c], r)
      BY <2>3 DEF LoopStep
    <3> QED BY <1>1, <2>1, <2>3, <2>5, <3>1, ClientMoves
  <2>9. Served(capsule, P, op)
    <3>1. LoopStep(capsule, client[c], q)
      BY <2>4 DEF LoopStep
    <3> QED BY <1>1, <2>1, <2>4, <2>6, <3>1, ClientMoves
  <2>10. Served(capsule, O, Moved(h, "pair"))
    BY <1>4, <2>1, <2>8 DEF Building, Served
  <2>11. Served(capsule, P, Done(h))
    BY <2>6, <2>9, DoneServed DEF Looping
  <2>12. Served(capsule', client', op')
    BY <2>7, <2>10, <2>11, UpdateServed
  <2> QED BY <1>6, <2>12 DEF ConnectPairing, ServedInv
<1>7. CASE PairPhone(h)
  <2> DEFINE c == op[h].c
             P == [client EXCEPT ![c].loop = "wait"]
             q == [client[c] EXCEPT !.loop = "wait"]
  <2>1. op[h].pc \in Building /\ c \in Client /\ client[c].of # 0
    BY <1>1, <1>7, NamesArePositive DEF PairPhone, At, OpOK, Building, Unbound
  <2>2. client[c] \in ClientRecord /\ client \in [Client -> ClientRecord]
    BY <2>1, ServedTypes DEF Clients
  <2>3. /\ q \in ClientRecord /\ q.of = client[c].of /\ q.cancelled = client[c].cancelled
        /\ q.loop = "wait"
    BY <2>2 DEF ClientRecord, Looping
  <2>4. P = [client EXCEPT ![c] = q] /\ P[c].loop = "wait"
    BY <2>1, <2>2 DEF ClientRecord
  <2>5. Update(capsule, P, Done(h))
    BY <1>7 DEF PairPhone
  <2> HIDE DEF P, q
  <2>6. LoopStep(capsule, client[c], q)
    BY <2>3 DEF LoopStep
  <2>7. Served(capsule, P, op)
    BY <1>1, <2>1, <2>3, <2>4, <2>6, ClientMoves
  <2>8. Served(capsule, P, Done(h))
    BY <2>4, <2>7, DoneServed DEF Looping
  <2>9. Served(capsule', client', op')
    BY <2>5, <2>8, UpdateServed
  <2> QED BY <1>7, <2>9 DEF PairPhone, ServedInv
<1>8. CASE PairingFails(h)
  <2>1. op[h].pc \in Building
    BY <1>8 DEF PairingFails, At, Building
  <2>2. Served(capsule, client, Moved(h, "fail"))
    BY <1>1, <1>4, <2>1 DEF Building
  <2> QED BY <1>8, <2>2 DEF PairingFails, ServedInv
<1> QED BY <1>2, <1>3, <1>5, <1>6, <1>7, <1>8

\* ... ending, ...
LEMMA EndKeepsServed ==
    ASSUME ServedInv, NEW h \in Handler,
           \/ Teardown(h) \/ Report(h) \/ Drop(h)
           \/ Logout(h) \/ Unlink(h) \/ UnlinkFails(h) \/ LogoutDone(h)
    PROVE  ServedInv'
<1>1. Served(capsule, client, op) /\ op[h] \in OpRecord /\ OpOK(client, op[h]) /\ op \in Ops
  BY ServedTypes
<1>2. op[h].pc \notin Unbound /\ op[h].k \in Capsule /\ op[h].c \in Client \union {0}
  BY <1>1 DEF Teardown, Report, Drop, Logout, Unlink, UnlinkFails, LogoutDone, At, OpOK,
       Unbound, OpRecord
<1>3. capsule[op[h].k].client \in Client \union {0}
      /\ capsule[op[h].k].device \in Device \union {0}
  BY <1>2, ServedTypes
<1>4. CASE Teardown(h)
  <2> DEFINE k == op[h].k
  <2>1. PICK next \in {"stopped", "drop", "out", "failed"} :
           Update(Torn(k), Cancelled(k), [op EXCEPT ![h].pc = next, ![h].c = capsule[k].client])
    BY <1>4 DEF Teardown
  <2> DEFINE p == [op[h] EXCEPT !.pc = next, !.c = capsule[k].client]
  <2>2. p \in OpRecord /\ p.pc = next /\ p.k = k
    BY <1>1, <1>3 DEF OpRecord, Step
  <2>3. [op EXCEPT ![h].pc = next, ![h].c = capsule[k].client] = [op EXCEPT ![h] = p]
    BY <1>1 DEF Ops
  <2>4. Served(Torn(k), Cancelled(k), op)
    BY <1>2, TornServed
  <2>5. Torn(k)[k].client = 0
    BY <1>2, ServedTypes DEF Torn, Capsules
  <2>6. op[h].pc \in Building => op[h].c \in Client
    BY <1>1 DEF OpOK
  <2> HIDE DEF p
  <2>7. OpOK(Cancelled(k), p)
    BY <1>2, <2>2 DEF OpOK, Building
  <2>8. Served(Torn(k), Cancelled(k), [op EXCEPT ![h] = p])
    BY <2>2, <2>4, <2>5, <2>6, <2>7, NamesArePositive, OpMoves
  <2>9. Served(capsule', client', op')
    BY <2>1, <2>3, <2>8, UpdateServed
  <2> QED BY <1>4, <2>9 DEF Teardown, ServedInv
<1>5. CASE Report(h) \/ Drop(h) \/ LogoutDone(h)
  <2>1. op[h].pc \notin Building
    BY <1>5 DEF Report, Drop, LogoutDone, At, Building
  <2>2. \E cs : /\ Served(cs, client, op)
                /\ Update(cs, Disconnected(client, op[h].c), Done(h))
    <3>1. CASE Report(h)
      <4>1. op[h].pc \in Status
        BY <3>1 DEF Report, Status
      <4>2. Served(WithStatus(op[h].k, op[h].pc), client, op)
        BY <1>1, <1>2, <4>1, StatusServed
      <4> QED BY <3>1, <4>2 DEF Report
    <3>2. CASE Drop(h)
      BY <1>1, <3>2 DEF Drop
    <3>3. CASE LogoutDone(h)
      <4> DEFINE L == LoggedOutCapsule(op[h].k)
      <4>1. Least(FreeDevices) \in Device
        BY <3>3, FreeNames DEF LogoutDone, FreeDevices
      <4>2. /\ L \in Capsules
            /\ \A j \in Capsule : L[j].client = capsule[j].client
                                  /\ L[j].reconnect = capsule[j].reconnect
        BY <1>2, <4>1, ServedTypes DEF Capsules, LoggedOutCapsule, Status
      <4>3. Update(L, Disconnected(client, op[h].c), Done(h))
        BY <3>3 DEF LogoutDone
      <4> HIDE DEF L
      <4>4. Served(L, client, op)
        BY <1>1, <4>2, CapsulesMove
      <4> QED BY <4>3, <4>4
    <3> QED BY <1>5, <3>1, <3>2, <3>3
  <2>3. PICK cs : /\ Served(cs, client, op)
                  /\ Update(cs, Disconnected(client, op[h].c), Done(h))
    BY <2>2
  <2>4. Served(cs, client, Done(h))
    BY <2>1, <2>3, DoneServed
  <2>5. Served(cs, Disconnected(client, op[h].c), Done(h))
    BY <1>2, <2>4, DisconnectedServed
  <2>6. Served(capsule', client', op')
    BY <2>3, <2>5, UpdateServed
  <2> QED BY <1>5, <2>6 DEF Report, Drop, LogoutDone, ServedInv
<1>6. CASE Logout(h)
  <2> DEFINE k == op[h].k
             p == [op[h] EXCEPT !.pc = "unlink", !.c = capsule[k].client,
                                !.d = capsule[k].device]
  <2>1. p \in OpRecord /\ p.pc = "unlink" /\ p.k = k
    BY <1>1, <1>3 DEF OpRecord, Step
  <2>2. op' = [op EXCEPT ![h] = p]
    BY <1>1, <1>6 DEF Logout, Ops
  <2>3. op[h].pc \notin Building
    BY <1>6 DEF Logout, At, Building
  <2> HIDE DEF p
  <2>4. OpOK(client, p)
    BY <1>2, <2>1 DEF OpOK, Building
  <2>5. Served(capsule, client, op')
    BY <1>1, <2>1, <2>2, <2>3, <2>4, OpMoves
  <2> QED BY <1>6, <2>5 DEF Logout, ServedInv
<1>7. CASE Unlink(h) \/ UnlinkFails(h)
  <2> DEFINE p == [op[h] EXCEPT !.pc = "quit", !.c = 0, !.d = 0]
             D == Disconnected(client, op[h].c)
  <2>1. p \in OpRecord /\ p.pc = "quit" /\ p.k = op[h].k
    BY <1>1 DEF OpRecord, Step
  <2>2. [op EXCEPT ![h].pc = "quit", ![h].c = 0, ![h].d = 0] = [op EXCEPT ![h] = p]
    BY <1>1 DEF Ops
  <2>3. op[h].pc \notin Building
    BY <1>7 DEF Unlink, UnlinkFails, At, Building
  <2> HIDE DEF p, D
  <2>4. Served(capsule, D, op)
    BY <1>1, <1>2, DisconnectedServed DEF D
  <2>5. OpOK(client, p) /\ OpOK(D, p)
    BY <1>2, <2>1 DEF OpOK, Building
  <2>6. /\ Served(capsule, client, [op EXCEPT ![h] = p])
        /\ Served(capsule, D, [op EXCEPT ![h] = p])
    BY <1>1, <2>1, <2>3, <2>4, <2>5, OpMoves
  <2>7. CASE Unlink(h)
    <3>1. Served(capsule', client', op')
      BY <2>2, <2>6, <2>7, UpdateServed DEF Unlink, D
    <3> QED BY <2>7, <3>1 DEF Unlink, ServedInv, DeleteDevice
  <2>8. CASE UnlinkFails(h)
    BY <2>2, <2>6, <2>8 DEF UnlinkFails, ServedInv
  <2> QED BY <1>7, <2>7, <2>8
<1> QED BY <1>4, <1>5, <1>6, <1>7

\* ... or beginning.
LEMMA BeginKeepsServed ==
    ASSUME ServedInv, NEW h \in Handler,
           \/ EnsureDevice(h)
           \/ \E job \in {"stop", "qr", "code", "logout", "forget"} : Call(h, job)
           \/ h = Recon /\ \E d \in Device : StartAssigned(d)
    PROVE  ServedInv'
<1>1. Served(capsule, client, op) /\ op[h] \in OpRecord /\ op \in Ops
  BY ServedTypes
<1>2. CASE EnsureDevice(h)
  <2>1. sessions' \in FreeCapsules /\ Least(FreeDevices) \in Device
    BY <1>2, FreeNames DEF EnsureDevice, FreeDevices
  <2>2. capsule' = [capsule EXCEPT ![sessions'] =
                       [NoCapsule EXCEPT !.device = Least(FreeDevices)]]
    BY <1>2 DEF EnsureDevice
  <2>3. Served(capsule', client, op)
    BY <2>1, <2>2, RegisteredServed
  <2> QED BY <1>2, <2>1, <2>3 DEF EnsureDevice, FreeCapsules, ServedInv
<1>3. ASSUME NEW p \in OpRecord, op' = [op EXCEPT ![h] = p], OpOK(client, p),
             op[h].pc = "idle", UNCHANGED <<keystore, sessions, capsule, client>>
      PROVE  ServedInv'
  <2>1. op[h].pc \notin Building
    BY <1>3 DEF Building
  <2>2. Served(capsule, client, op')
    BY <1>1, <1>3, <2>1, OpMoves
  <2> QED BY <1>3, <2>2 DEF ServedInv
<1>4. ASSUME NEW job \in {"stop", "qr", "code", "logout", "forget"}, Call(h, job)
      PROVE  ServedInv'
  <2> DEFINE p == [NoOp EXCEPT !.pc = job, !.k = sessions]
  <2>1. sessions \in Capsule
    BY <1>4 DEF Call, ServedInv
  <2>2. p \in OpRecord
    BY <2>1 DEF NoOp, OpRecord, Step
  <2>3. OpOK(client, p)
    BY <2>1 DEF NoOp, OpOK, Building
  <2>4. op' = [op EXCEPT ![h] = p] /\ op[h].pc = "idle"
        /\ UNCHANGED <<keystore, sessions, capsule, client>>
    BY <1>4 DEF Call, Begins
  <2> QED BY <1>3, <2>2, <2>3, <2>4
<1>5. ASSUME NEW d \in Device, h = Recon, StartAssigned(d) PROVE ServedInv'
  <2> DEFINE p == [NoOp EXCEPT !.pc = "register", !.d = d]
  <2>1. p \in OpRecord
    BY DEF NoOp, OpRecord, Step, Unbound
  <2>2. OpOK(client, p)
    BY DEF NoOp, OpOK, Building, Unbound
  <2>3. op' = [op EXCEPT ![h] = p] /\ op[h].pc = "idle"
        /\ UNCHANGED <<keystore, sessions, capsule, client>>
    BY <1>5 DEF StartAssigned, Begins
  <2> QED BY <1>3, <2>1, <2>2, <2>3
<1> QED BY <1>2, <1>4, <1>5

-----------------------------------------------------------------------------
(* One step of a client's goroutines, or of WhatsApp.                      *)

\* A client with a life of its own was built for a session.
LEMMA LiveClient ==
    ASSUME ServedInv, NEW c \in Client,
           \/ client[c].link # "down" \/ client[c].event # "none" \/ client[c].pump # "off"
           \/ client[c].loop # "none"
    PROVE  client[c].of \in Capsule
<1>1. ClientOK(capsule, client, c) /\ client[c] \in ClientRecord
  BY ServedTypes DEF Served
<1>2. client[c] # NoClient
  BY BlankClient
<1> QED BY <1>1, <1>2 DEF ClientOK, ClientRecord

\* The fields a loop changes keep their types.
LEMMA RecordMoves ==
    ASSUME NEW x \in ClientRecord, NEW b \in Client \union {0}
    PROVE  /\ [x EXCEPT !.loop = "check", !.seen = b] \in ClientRecord
           /\ [x EXCEPT !.loop = "wait", !.link = "open"] \in ClientRecord
<1> DEFINE y == [x EXCEPT !.loop = "check"]
           z == [x EXCEPT !.loop = "wait"]
<1>1. y \in ClientRecord /\ z \in ClientRecord
  BY DEF ClientRecord, Looping
<1>2. [x EXCEPT !.loop = "check", !.seen = b] = [y EXCEPT !.seen = b]
  BY DEF ClientRecord
<1>3. [x EXCEPT !.loop = "wait", !.link = "open"] = [z EXCEPT !.link = "open"]
  BY DEF ClientRecord
<1> HIDE DEF y, z
<1>4. [y EXCEPT !.seen = b] \in ClientRecord
  BY <1>1 DEF ClientRecord
<1>5. [z EXCEPT !.link = "open"] \in ClientRecord
  BY <1>1 DEF ClientRecord
<1> QED BY <1>2, <1>3, <1>4, <1>5

\* The reconnect loop.
LEMMA LoopKeepsServed ==
    ASSUME ServedInv, NEW c \in Client, LoopSteps(c) \/ LoopConnectFails(c)
    PROVE  ServedInv'
<1>1. Served(capsule, client, op) /\ client \in Clients /\ client[c] \in ClientRecord
      /\ ClientOK(capsule, client, c)
  BY ServedTypes DEF Served
<1>2. client[c].loop \in Looping
  BY DEF LoopSteps, LoopTop, LoopCheck, LoopConnect, LoopWait, LoopConnectFails, Looping
<1>3. client[c].of \in Capsule /\ client[c].of # 0
  BY <1>2, LiveClient, NamesArePositive DEF Looping
<1>4. ASSUME NEW l \in {"done", "top", "wait", "connect"},
             l = "done" => client[c].cancelled \/ ~capsule[client[c].of].reconnect,
             l = "connect" => client[c].loop = "check" /\ ~client[c].cancelled
      PROVE  Served(capsule, Loops(c, l), op)
  <2> DEFINE r == [client[c] EXCEPT !.loop = l]
  <2>1. /\ r \in ClientRecord /\ r.of = client[c].of /\ r.cancelled = client[c].cancelled
        /\ r.loop = l /\ r.seen = client[c].seen
    BY <1>1 DEF ClientRecord, Looping
  <2>2. Loops(c, l) = [client EXCEPT ![c] = r]
    BY <1>1 DEF Clients, Loops
  <2> HIDE DEF r
  <2>3. LoopStep(capsule, client[c], r)
    BY <1>4, <2>1 DEF LoopStep
  <2>4. Served(capsule, [client EXCEPT ![c] = r], op)
    BY <1>1, <1>3, <2>1, <2>3, ClientMoves
  <2> QED BY <2>2, <2>4
<1>5. Served(capsule, Again(c), op)
  <2>1. CASE capsule[client[c].of].reconnect
    BY <1>4, <2>1 DEF Again
  <2>2. CASE ~capsule[client[c].of].reconnect
    BY <1>4, <2>2 DEF Again
  <2> QED BY <2>1, <2>2
<1>6. CASE LoopTop(c)
  <2> DEFINE k == client[c].of
             r == [client[c] EXCEPT !.loop = "check", !.seen = capsule[k].client]
             R == [Loops(c, "check") EXCEPT ![c].seen = capsule[k].client]
  <2>1. capsule[k].client \in Client \union {0}
    BY <1>3, ServedTypes
  <2>2. /\ r \in ClientRecord /\ r.of = k /\ r.cancelled = client[c].cancelled
        /\ r.loop = "check" /\ r.seen = capsule[k].client
    <3>1. r \in ClientRecord
      BY <1>1, <2>1, RecordMoves
    <3> QED BY <1>1, <3>1 DEF ClientRecord
  <2>3. R = [client EXCEPT ![c] = r]
    BY <1>1 DEF Clients, Loops
  <2>4. \/ Update(capsule, R, op)
        \/ ~capsule[k].reconnect /\ Update(capsule, Loops(c, "done"), op)
    BY <1>6 DEF LoopTop
  <2> HIDE DEF r, R
  <2>5. LoopStep(capsule, client[c], r)
    BY <2>2 DEF LoopStep
  <2>6. Served(capsule, R, op)
    BY <1>1, <1>3, <2>2, <2>3, <2>5, ClientMoves
  <2>7. ~capsule[k].reconnect => Served(capsule, Loops(c, "done"), op)
    BY <1>4
  <2>8. Served(capsule', client', op')
    BY <2>4, <2>6, <2>7, UpdateServed
  <2> QED BY <1>6, <2>8 DEF LoopTop, ServedInv
<1>7. CASE LoopCheck(c)
  <2>1. \/ client[c].cancelled /\ Update(capsule, Loops(c, "done"), op)
        \/ ~client[c].cancelled /\ Update(capsule, Loops(c, "connect"), op)
    BY <1>7 DEF LoopCheck
  <2>2. client[c].loop = "check"
    BY <1>7 DEF LoopCheck
  <2>3. /\ client[c].cancelled => Served(capsule, Loops(c, "done"), op)
        /\ ~client[c].cancelled => Served(capsule, Loops(c, "connect"), op)
    BY <1>4, <2>2
  <2>4. Served(capsule', client', op')
    BY <2>1, <2>3, UpdateServed
  <2> QED BY <1>7, <2>4 DEF LoopCheck, ServedInv
<1>8. CASE LoopConnect(c)
  <2> DEFINE r == [client[c] EXCEPT !.loop = "wait", !.link = "open"]
             R == [Loops(c, "wait") EXCEPT ![client[c].seen].link = "open"]
  <2>1. client[c].seen = c
    BY <1>1, <1>8 DEF LoopConnect, ClientOK
  <2>2. /\ r \in ClientRecord /\ r.of = client[c].of /\ r.cancelled = client[c].cancelled
        /\ r.loop = "wait"
    <3>1. r \in ClientRecord
      BY <1>1, RecordMoves
    <3> QED BY <1>1, <3>1 DEF ClientRecord
  <2>3. R = [client EXCEPT ![c] = r]
    BY <1>1, <2>1 DEF Clients, Loops
  <2>4. \/ client[c].cancelled /\ Update(capsule, Loops(c, "done"), op)
        \/ Update(capsule, Again(c), op)
        \/ Update(capsule, R, op)
    BY <1>8 DEF LoopConnect
  <2> HIDE DEF r, R
  <2>5. LoopStep(capsule, client[c], r)
    BY <2>2 DEF LoopStep
  <2>6. Served(capsule, R, op)
    BY <1>1, <1>3, <2>2, <2>3, <2>5, ClientMoves
  <2>7. client[c].cancelled => Served(capsule, Loops(c, "done"), op)
    BY <1>4
  <2>8. Served(capsule', client', op')
    BY <1>5, <2>4, <2>6, <2>7, UpdateServed
  <2> QED BY <1>8, <2>8 DEF LoopConnect, ServedInv
<1>9. CASE LoopConnectFails(c)
  <2>1. Served(capsule', client', op')
    BY <1>5, <1>9, UpdateServed DEF LoopConnectFails
  <2> QED BY <1>9, <2>1 DEF LoopConnectFails, ServedInv
<1>10. CASE LoopWait(c)
  <2>1. \/ /\ client[c].cancelled \/ ~capsule[client[c].of].reconnect
           /\ Update(capsule, Loops(c, "done"), op)
        \/ Update(capsule, Loops(c, "top"), op)
    BY <1>10 DEF LoopWait
  <2>2. /\ client[c].cancelled \/ ~capsule[client[c].of].reconnect
             => Served(capsule, Loops(c, "done"), op)
        /\ Served(capsule, Loops(c, "top"), op)
    BY <1>4
  <2>3. Served(capsule', client', op')
    BY <2>1, <2>2, UpdateServed
  <2> QED BY <1>10, <2>3 DEF LoopWait, ServedInv
<1> QED BY <1>6, <1>7, <1>8, <1>9, <1>10 DEF LoopSteps

\* x with another link, callback, pump or torn-down client.
QuietlyMoves(x, r) ==
    /\ r \in ClientRecord
    /\ r.of = x.of /\ r.cancelled = x.cancelled /\ r.loop = x.loop /\ r.seen = x.seen
    /\ r.device = x.device

\* An event of WhatsApp changes none of the loop's fields.
LEMMA EventFields ==
    ASSUME NEW x \in ClientRecord,
           NEW e \in {"none", "connected", "paired", "logged_out", "fatal", "failed", "out"},
           NEW l \in {"down", "dropped", "open", "ready"}
    PROVE  QuietlyMoves(x, [x EXCEPT !.event = e, !.link = l])
<1> DEFINE y == [x EXCEPT !.event = e]
<1>1. QuietlyMoves(x, y) /\ y \in ClientRecord
  BY DEF QuietlyMoves, ClientRecord
<1>2. [x EXCEPT !.event = e, !.link = l] = [y EXCEPT !.link = l]
  BY DEF ClientRecord
<1> HIDE DEF y
<1>3. QuietlyMoves(y, [y EXCEPT !.link = l])
  BY <1>1 DEF QuietlyMoves, ClientRecord
<1> QED BY <1>1, <1>2, <1>3 DEF QuietlyMoves

\* The fields that callbacks, pumps and WhatsApp change are none of the loop's.
LEMMA QuietFields ==
    ASSUME NEW x \in ClientRecord,
           NEW e \in {"none", "connected", "paired", "logged_out", "fatal", "failed", "out"},
           NEW l \in {"down", "dropped", "open", "ready"},
           NEW p \in {"off", "on", "quit", "disconnect"}, NEW t \in Client \union {0}
    PROVE  /\ QuietlyMoves(x, [x EXCEPT !.event = e, !.torn = t])
           /\ QuietlyMoves(x, [x EXCEPT !.pump = p, !.torn = t])
           /\ QuietlyMoves(x, [x EXCEPT !.event = e, !.link = l])
           /\ QuietlyMoves(x, [x EXCEPT !.pump = p])
           /\ QuietlyMoves(x, [x EXCEPT !.link = l])
<1> DEFINE y == [x EXCEPT !.event = e]
           z == [x EXCEPT !.pump = p]
<1>1. QuietlyMoves(x, y) /\ QuietlyMoves(x, z) /\ QuietlyMoves(x, [x EXCEPT !.link = l])
  BY DEF QuietlyMoves, ClientRecord
<1>2. /\ [x EXCEPT !.event = e, !.torn = t] = [y EXCEPT !.torn = t]
      /\ [x EXCEPT !.pump = p, !.torn = t] = [z EXCEPT !.torn = t]
      /\ [x EXCEPT !.event = e, !.link = l] = [y EXCEPT !.link = l]
  BY DEF ClientRecord
<1>3. ASSUME NEW w \in ClientRecord
      PROVE  QuietlyMoves(w, [w EXCEPT !.torn = t]) /\ QuietlyMoves(w, [w EXCEPT !.link = l])
  BY DEF QuietlyMoves, ClientRecord
<1>4. y \in ClientRecord /\ z \in ClientRecord
  BY <1>1 DEF QuietlyMoves
<1>5. [x EXCEPT !.pump = p] = z
  OBVIOUS
<1> HIDE DEF y, z
<1>6. /\ QuietlyMoves(y, [y EXCEPT !.torn = t]) /\ QuietlyMoves(z, [z EXCEPT !.torn = t])
      /\ QuietlyMoves(y, [y EXCEPT !.link = l])
  BY <1>3, <1>4
<1>7. \A w : QuietlyMoves(y, w) => QuietlyMoves(x, w)
  BY <1>1 DEF QuietlyMoves
<1>8. \A w : QuietlyMoves(z, w) => QuietlyMoves(x, w)
  BY <1>1 DEF QuietlyMoves
<1> QED BY <1>1, <1>2, <1>5, <1>6, <1>7, <1>8

\* So they do not disturb who is served.
LEMMA QuietServed ==
    ASSUME NEW cs, NEW cl, NEW o, Served(cs, cl, o), NEW c \in Client, cl[c].of # 0,
           NEW r, QuietlyMoves(cl[c], r)
    PROVE  Served(cs, [cl EXCEPT ![c] = r], o)
<1>1. LoopStep(cs, cl[c], r)
  BY DEF LoopStep, QuietlyMoves
<1> QED BY <1>1, ClientMoves DEF QuietlyMoves

\* The callbacks of a client.
LEMMA CallbackKeepsServed ==
    ASSUME ServedInv, NEW c \in Client, CallbackSteps(c)
    PROVE  ServedInv'
<1>1. Served(capsule, client, op) /\ client \in Clients /\ client[c] \in ClientRecord
  BY ServedTypes
<1>2. client[c].event # "none"
  BY DEF CallbackSteps, CallbackTeardown, CallbackStatus, CallbackLoggedOut
<1>3. client[c].of \in Capsule /\ client[c].of # 0
  BY <1>2, LiveClient, NamesArePositive
<1>4. client[c].torn \in Client \union {0}
  BY <1>1 DEF ClientRecord
<1>5. Served(capsule, Returned(c), op)
  <2> DEFINE r == [client[c] EXCEPT !.event = "none", !.torn = 0]
             E == [client EXCEPT ![c].event = "none", ![c].torn = 0]
  <2>1. QuietlyMoves(client[c], r)
    BY <1>1, QuietFields
  <2>2. E = [client EXCEPT ![c] = r]
    BY <1>1 DEF Clients
  <2>3. Returned(c) = Disconnected(E, client[c].torn)
    BY DEF Returned
  <2> HIDE DEF r, E
  <2>4. Served(capsule, E, op)
    BY <1>1, <1>3, <2>1, <2>2, QuietServed
  <2> QED BY <1>4, <2>3, <2>4, DisconnectedServed
<1>6. CASE CallbackTeardown(c)
  <2> DEFINE k == client[c].of
             C == Cancelled(k)
  <2>1. PICK next \in {"failed", "out"} :
           Update(Torn(k), [C EXCEPT ![c].event = next, ![c].torn = capsule[k].client], op)
    BY <1>6 DEF CallbackTeardown
  <2> DEFINE r == [C[c] EXCEPT !.event = next, !.torn = capsule[k].client]
  <2>2. Served(Torn(k), C, op)
    BY <1>3, TornServed
  <2>3. C \in Clients /\ C[c] \in ClientRecord
    BY <2>2 DEF Served, Clients
  <2>4. C[c].of # 0
    BY <1>1, <1>3 DEF Cancelled, ClientRecord
  <2>5. capsule[k].client \in Client \union {0}
    BY <1>3, ServedTypes
  <2> HIDE DEF C
  <2>6. QuietlyMoves(C[c], r)
    BY <2>3, <2>5, QuietFields
  <2>7. [C EXCEPT ![c].event = next, ![c].torn = capsule[k].client] = [C EXCEPT ![c] = r]
    BY <2>3 DEF Clients
  <2> HIDE DEF r
  <2>8. Served(Torn(k), [C EXCEPT ![c] = r], op)
    BY <2>2, <2>4, <2>6, QuietServed
  <2>9. Served(capsule', client', op')
    BY <2>1, <2>7, <2>8, UpdateServed
  <2> QED BY <1>6, <2>9 DEF CallbackTeardown, ServedInv
<1>7. CASE CallbackStatus(c)
  <2> DEFINE s == EventStatus(client[c].event)
  <2>1. s \in Status
    BY <1>7 DEF CallbackStatus, EventStatus, Status
  <2>2. Update(WithStatus(client[c].of, s), Returned(c), op)
    BY <1>7 DEF CallbackStatus
  <2> HIDE DEF s
  <2>3. Served(WithStatus(client[c].of, s), Returned(c), op)
    BY <1>3, <1>5, <2>1, StatusServed
  <2>4. Served(capsule', client', op')
    BY <2>2, <2>3, UpdateServed
  <2> QED BY <1>7, <2>4 DEF CallbackStatus, ServedInv
<1>8. CASE CallbackLoggedOut(c)
  <2> DEFINE L == LoggedOutCapsule(client[c].of)
  <2>1. Least(FreeDevices) \in Device
    BY <1>8, FreeNames DEF CallbackLoggedOut, FreeDevices
  <2>2. /\ L \in Capsules
        /\ \A j \in Capsule : L[j].client = capsule[j].client
                              /\ L[j].reconnect = capsule[j].reconnect
    BY <1>3, <2>1, ServedTypes DEF Capsules, LoggedOutCapsule, Status
  <2>3. Update(L, Returned(c), op)
    BY <1>8 DEF CallbackLoggedOut
  <2> HIDE DEF L
  <2>4. Served(L, Returned(c), op)
    BY <1>5, <2>2, CapsulesMove
  <2>5. Served(capsule', client', op')
    BY <2>3, <2>4, UpdateServed
  <2> QED BY <1>8, <2>5 DEF CallbackLoggedOut, ServedInv
<1> QED BY <1>6, <1>7, <1>8 DEF CallbackSteps

\* The QR pump.
LEMMA PumpKeepsServed ==
    ASSUME ServedInv, NEW c \in Client, PumpSteps(c)
    PROVE  ServedInv'
<1>1. Served(capsule, client, op) /\ client \in Clients /\ client[c] \in ClientRecord
  BY ServedTypes
<1>2. client[c].pump # "off"
  BY DEF PumpSteps, PumpEnd, PumpTimeout, PumpTeardown
<1>3. client[c].of \in Capsule /\ client[c].of # 0
  BY <1>2, LiveClient, NamesArePositive
<1>4. client[c].torn \in Client \union {0}
  BY <1>1 DEF ClientRecord
<1>5. ASSUME NEW p \in {"off", "on", "quit", "disconnect"}
      PROVE  Served(capsule, [client EXCEPT ![c].pump = p], op)
  <2> DEFINE r == [client[c] EXCEPT !.pump = p]
  <2>1. QuietlyMoves(client[c], r)
    BY <1>1, QuietFields
  <2>2. [client EXCEPT ![c].pump = p] = [client EXCEPT ![c] = r]
    BY <1>1 DEF Clients
  <2> HIDE DEF r
  <2> QED BY <1>1, <1>3, <2>1, <2>2, QuietServed
<1>6. CASE PumpEnd(c)
  <2>1. Served(capsule', client', op')
    BY <1>5, <1>6, UpdateServed DEF PumpEnd
  <2> QED BY <1>6, <2>1 DEF PumpEnd, ServedInv
<1>7. CASE PumpTimeout(c)
  <2>1. Served(capsule, [client EXCEPT ![c].pump = "quit"], op)
    BY <1>5
  <2>2. Served(WithStatus(client[c].of, "failed"), [client EXCEPT ![c].pump = "quit"], op)
    BY <1>3, <2>1, StatusServed DEF Status
  <2>3. Served(capsule', client', op')
    BY <1>7, <2>2, UpdateServed DEF PumpTimeout
  <2> QED BY <1>7, <2>3 DEF PumpTimeout, ServedInv
<1>8. CASE PumpTeardown(c)
  <2> DEFINE k == client[c].of
             C == Cancelled(k)
             r == [C[c] EXCEPT !.pump = "disconnect", !.torn = capsule[k].client]
             R == [C EXCEPT ![c].pump = "disconnect", ![c].torn = capsule[k].client]
             q == [client[c] EXCEPT !.pump = "off", !.torn = 0]
             Q == [client EXCEPT ![c].pump = "off", ![c].torn = 0]
  <2>1. \/ Update(Torn(k), R, op)
        \/ Update(capsule, Disconnected(Q, client[c].torn), op)
    BY <1>8 DEF PumpTeardown
  <2>2. Served(Torn(k), C, op)
    BY <1>3, TornServed
  <2>3. C \in Clients /\ C[c] \in ClientRecord
    BY <2>2 DEF Served, Clients
  <2>4. C[c].of # 0
    BY <1>1, <1>3 DEF Cancelled, ClientRecord
  <2>5. capsule[k].client \in Client \union {0}
    BY <1>3, ServedTypes
  <2> HIDE DEF C
  <2>6. QuietlyMoves(C[c], r) /\ QuietlyMoves(client[c], q)
    BY <1>1, <2>3, <2>5, QuietFields
  <2>7. R = [C EXCEPT ![c] = r] /\ Q = [client EXCEPT ![c] = q]
    BY <1>1, <2>3 DEF Clients
  <2> HIDE DEF r, R, q, Q
  <2>8. Served(Torn(k), R, op) /\ Served(capsule, Q, op)
    BY <1>1, <1>3, <2>2, <2>4, <2>6, <2>7, QuietServed
  <2>9. Served(capsule, Disconnected(Q, client[c].torn), op)
    BY <1>4, <2>8, DisconnectedServed
  <2>10. Served(capsule', client', op')
    BY <2>1, <2>8, <2>9, UpdateServed
  <2> QED BY <1>8, <2>10 DEF PumpTeardown, ServedInv
<1> QED BY <1>6, <1>7, <1>8 DEF PumpSteps

\* WhatsApp.
LEMMA WhatsAppKeepsServed ==
    ASSUME ServedInv, NEW c \in Client,
           Login(c) \/ Scan(c) \/ DropLink(c) \/ AutoReconnect(c) \/ LoggedOut(c) \/ Fatal(c)
    PROVE  ServedInv'
<1>1. Served(capsule, client, op) /\ client \in Clients /\ client[c] \in ClientRecord
  BY ServedTypes
<1>2. client[c].link # "down"
  BY DEF Login, Scan, DropLink, AutoReconnect, LoggedOut, Fatal
<1>3. client[c].of # 0
  BY <1>2, LiveClient, NamesArePositive
<1>4. capsule' = capsule /\ op' = op /\ sessions' = sessions
  BY DEF Login, Scan, DropLink, AutoReconnect, LoggedOut, Fatal
<1>5. keystore' \subseteq keystore \union {client[c].device}
  BY DEF Login, Scan, DropLink, AutoReconnect, LoggedOut, Fatal, DeleteDevice
<1>6. \E r : QuietlyMoves(client[c], r) /\ client' = [client EXCEPT ![c] = r]
  <2>1. CASE DropLink(c) \/ AutoReconnect(c)
    <3>1. PICK l \in {"dropped", "open"} : client' = [client EXCEPT ![c].link = l]
      BY <2>1 DEF DropLink, AutoReconnect
    <3>2. QuietlyMoves(client[c], [client[c] EXCEPT !.link = l])
      BY <1>1, QuietFields
    <3>3. client' = [client EXCEPT ![c] = [client[c] EXCEPT !.link = l]]
      BY <1>1, <3>1 DEF Clients
    <3> QED BY <3>2, <3>3
  <2>2. CASE Login(c) \/ Scan(c) \/ LoggedOut(c) \/ Fatal(c)
    <3>1. PICK e, l : /\ Event(c, e, l)
                      /\ e \in {"connected", "paired", "logged_out", "fatal"}
                      /\ l \in {"ready", "open", "down"}
      <4>1. \/ Event(c, "connected", "ready") \/ Event(c, "paired", "open")
            \/ Event(c, "logged_out", "down") \/ Event(c, "fatal", "down")
        BY <2>2 DEF Login, Scan, LoggedOut, Fatal
      <4> DEFINE P(e, l) == /\ Event(c, e, l)
                            /\ e \in {"connected", "paired", "logged_out", "fatal"}
                            /\ l \in {"ready", "open", "down"}
      <4>2. \/ P("connected", "ready") \/ P("paired", "open")
            \/ P("logged_out", "down") \/ P("fatal", "down")
        BY <4>1
      <4>3. \E e, l : P(e, l)
        <5> HIDE DEF P
        <5> QED BY <4>2, Zenon
      <4> QED BY <4>3
    <3>2. QuietlyMoves(client[c], [client[c] EXCEPT !.event = e, !.link = l])
      <4>1. /\ e \in {"none", "connected", "paired", "logged_out", "fatal", "failed", "out"}
            /\ l \in {"down", "dropped", "open", "ready"}
        BY <3>1
      <4> QED BY <1>1, <4>1, EventFields
    <3>3. client' = [client EXCEPT ![c] = [client[c] EXCEPT !.event = e, !.link = l]]
      BY <1>1, <3>1 DEF Clients, Event
    <3> QED BY <3>2, <3>3
  <2> QED BY <2>1, <2>2
<1>7. Served(capsule, client', op)
  <2>1. PICK r : QuietlyMoves(client[c], r) /\ client' = [client EXCEPT ![c] = r]
    BY <1>6
  <2>2. Served(capsule, [client EXCEPT ![c] = r], op)
    BY <1>1, <1>3, <2>1, QuietServed
  <2> QED BY <2>1, <2>2
<1>8. client[c].device \in Device \union {0}
  BY <1>1 DEF ClientRecord
<1> QED BY <1>4, <1>5, <1>7, <1>8 DEF ServedInv

\* Every step keeps the invariant.
LEMMA ServedStep == ServedInv /\ [Next]_vars => ServedInv'
<1> SUFFICES ASSUME ServedInv, [Next]_vars PROVE ServedInv'
    OBVIOUS
<1>1. CASE Next
  <2>1. ASSUME NEW h \in Handler, HandlerSteps(h) PROVE ServedInv'
    BY <2>1, StartKeepsServed, PairingKeepsServed, EndKeepsServed DEF HandlerSteps
  <2>2. ASSUME NEW h \in Handler,
               EnsureDevice(h) \/ \E job \in {"stop", "qr", "code", "logout", "forget"} : Call(h, job)
        PROVE  ServedInv'
    BY <2>2, BeginKeepsServed
  <2>3. ASSUME NEW h \in Handler, PairingFails(h) \/ UnlinkFails(h) PROVE ServedInv'
    BY <2>3, PairingKeepsServed, EndKeepsServed
  <2>4. ASSUME NEW d \in Device, StartAssigned(d) PROVE ServedInv'
    <3>1. Recon \in Handler
      BY DEF Handler
    <3> QED BY <2>4, <3>1, BeginKeepsServed
  <2>5. ASSUME NEW c \in Client, LoopSteps(c) \/ LoopConnectFails(c) PROVE ServedInv'
    BY <2>5, LoopKeepsServed
  <2>6. ASSUME NEW c \in Client, CallbackSteps(c) \/ PumpSteps(c) PROVE ServedInv'
    BY <2>6, CallbackKeepsServed, PumpKeepsServed
  <2>7. ASSUME NEW c \in Client,
               \/ Login(c) \/ Scan(c) \/ DropLink(c) \/ AutoReconnect(c)
               \/ LoggedOut(c) \/ Fatal(c)
        PROVE  ServedInv'
    BY <2>7, WhatsAppKeepsServed
  <2> QED BY <1>1, <2>1, <2>2, <2>3, <2>4, <2>5, <2>6, <2>7 DEF Next
<1>2. CASE UNCHANGED vars
  BY <1>2 DEF vars, ServedInv
<1> QED BY <1>1, <1>2

\* The initial states satisfy the invariant.
LEMMA ServedAtStart == Init => ServedInv
<1> SUFFICES ASSUME Init PROVE ServedInv
    OBVIOUS
<1>1. 1 \in Capsule /\ 1 \in Client /\ 1 \in Device
  BY ManagerAssumption DEF Capsule, Client, Device
<1>2. keystore \subseteq Device \union {0} /\ sessions \in Capsule \union {0}
  BY <1>1 DEF Init
<1>3. op \in Ops /\ \A h \in Handler : op[h] = NoOp
  BY IdleOp DEF Init, Ops
<1>4. \A h \in Handler : OpOK(client, op[h])
  BY <1>3, IdleOp
<1>5. NoClient \in ClientRecord
  BY DEF ClientRecord, NoClient
<1>6. CASE /\ client = [c \in Client |-> NoClient]
           /\ \A k \in Capsule : capsule[k].client = 0
           /\ capsule \in Capsules
  <2>1. client \in Clients /\ \A c \in Client : client[c] = NoClient
    BY <1>5, <1>6 DEF Clients
  <2>2. \A c \in Client : ClientOK(capsule, client, c)
    BY <2>1, BlankClient DEF ClientOK
  <2>3. \A k \in Capsule : CapsuleOK(capsule, client, op, k)
    BY <1>6 DEF CapsuleOK
  <2> QED BY <1>2, <1>3, <1>4, <1>6, <2>1, <2>2, <2>3 DEF ServedInv, Served
<1>7. CASE /\ client = [c \in Client |-> IF c # 1 THEN NoClient
                ELSE [NoClient EXCEPT !.of = 1, !.device = 1, !.flow = "managed",
                                      !.loop = "top", !.cancelled = FALSE]]
           /\ capsule = [k \in Capsule |-> IF k # 1 THEN NoCapsule
                ELSE [status |-> "starting", device |-> 1, client |-> 1, reconnect |-> TRUE]]
  <2> DEFINE x == [NoClient EXCEPT !.of = 1, !.device = 1, !.flow = "managed",
                                   !.loop = "top", !.cancelled = FALSE]
  <2>1. x \in ClientRecord /\ x.of = 1 /\ ~x.cancelled /\ x.loop = "top"
    BY <1>1 DEF ClientRecord, NoClient, Looping
  <2>2. client[1] = x /\ \A c \in Client : c # 1 => client[c] = NoClient
    BY <1>1, <1>7
  <2>3. client \in Clients
    BY <1>5, <1>7, <2>1 DEF Clients
  <2>4. /\ capsule \in Capsules
        /\ capsule[1].client = 1 /\ capsule[1].reconnect
        /\ \A k \in Capsule : k # 1 => capsule[k].client = 0
    BY <1>1, <1>7 DEF Capsules, NoCapsule, Status
  <2> HIDE DEF x
  <2>5. \A c \in Client : ClientOK(capsule, client, c)
    BY <1>1, <2>1, <2>2, <2>4, BlankClient DEF ClientOK
  <2>6. \A k \in Capsule : CapsuleOK(capsule, client, op, k)
    BY <1>1, <2>1, <2>2, <2>4 DEF CapsuleOK, Looping
  <2> QED BY <1>2, <1>3, <1>4, <2>3, <2>4, <2>5, <2>6 DEF ServedInv, Served
<1>8. /\ \A k \in Capsule : NoCapsule.client = 0
      /\ NoCapsule \in [status: Status, device: Device \union {0},
                        client: Client \union {0}, reconnect: BOOLEAN]
      /\ [NoCapsule EXCEPT !.device = 1] \in
             [status: Status, device: Device \union {0},
              client: Client \union {0}, reconnect: BOOLEAN]
      /\ [NoCapsule EXCEPT !.device = 1].client = 0
  BY <1>1 DEF NoCapsule, Status
<1>9. CASE /\ capsule = [k \in Capsule |-> NoCapsule]
           /\ client = [c \in Client |-> NoClient]
  BY <1>6, <1>8, <1>9 DEF Capsules
<1>10. CASE /\ capsule = [k \in Capsule |->
                  IF k # 1 THEN NoCapsule ELSE [NoCapsule EXCEPT !.device = 1]]
            /\ client = [c \in Client |-> NoClient]
  BY <1>6, <1>8, <1>10 DEF Capsules
<1> QED BY <1>7, <1>9, <1>10 DEF Init

\* However teardowns, starts, callbacks and pumps overlap, a session that holds
\* a client has a live context and a reconnect loop for it, or the call that
\* built the client is about to spawn it (startManaged, StartQR, teardown).
THEOREM HeldClientIsServed == Spec => []HeldIsServed
<1>1. ServedInv => HeldIsServed
  BY DEF ServedInv, Served, CapsuleOK, HeldIsServed, StartingIn, Starting, Building
<1> QED BY <1>1, ServedAtStart, ServedStep, PTL DEF Spec

-----------------------------------------------------------------------------
(***************************************************************************)
(* The device of a session that was reported as logged out was free when   *)
(* the session took it.  It can get keys only from a client that pairs     *)
(* with it, and before any client connects with it the session's status    *)
(* changes: so the invariant also says who else may refer to the device.   *)
(***************************************************************************)

\* CapsuleInUse, of a state given as arguments.
InUse(se, cl, o, k) ==
    \/ se = k
    \/ \E h \in Handler : o[h].k = k
    \/ \E c \in Client : cl[c].of = k

\* A client that has not connected and is not about to.
AtRest(x) == x.link = "down" /\ x.loop \in {"none", "done"}

\* No keys for device d, and nobody but session k is concerned with it: its
\* clients are at rest, no other session and no registration has the device.
NoKeys(ks, se, cs, cl, o, k, d) ==
    /\ d \in Device /\ d \notin ks
    /\ \A c \in Client : cl[c].device = d => cl[c].of = k /\ AtRest(cl[c])
    /\ \A j \in Capsule : InUse(se, cl, o, j) /\ cs[j].device = d => j = k
    /\ \A h \in Handler : o[h].pc = "register" => o[h].d # d
    /\ \A h \in Handler : o[h].pc \in {"connect", "pair"} => cl[o[h].c].device # d

Unpaired(ks, se, cs, cl, o) ==
    /\ \A h \in Handler : o[h].pc \in {"connect", "pair"} => o[h].c \in Client
    /\ \A k \in Capsule :
          InUse(se, cl, o, k) /\ cs[k].status = "logged_out"
             => NoKeys(ks, se, cs, cl, o, k, cs[k].device)

\* The devices that have keys or had them deleted.
Spent == keystore \union deleted

UnpairedInv == ServedInv /\ Unpaired(Spent, sessions, capsule, client, op)

\* The collection disturbs it as little.
LEMMA CollectedUnpaired ==
    ASSUME NEW ks, NEW se, NEW cs, NEW cl, NEW o, Unpaired(ks, se, cs, cl, o)
    PROVE  Unpaired(ks, se, cs, Collected(cl, cs, o), o)
<1> DEFINE C == Collected(cl, cs, o)
<1>1. \A c \in Client : C[c] \in {cl[c], NoClient}
  BY CollectedIs
<1>2. \A c \in Client : (\E h \in Handler : o[h].c = c) => C[c] = cl[c]
  BY CollectedIs
<1> HIDE DEF C
<1>3. ASSUME NEW j \in Capsule, InUse(se, C, o, j) PROVE InUse(se, cl, o, j)
  BY <1>1, <1>3, BlankClient, NamesArePositive DEF InUse
<1>4. \A h \in Handler : o[h].pc \in {"connect", "pair"} => o[h].c \in Client
  BY DEF Unpaired
<1>5. ASSUME NEW k \in Capsule, InUse(se, C, o, k), cs[k].status = "logged_out"
      PROVE  NoKeys(ks, se, cs, C, o, k, cs[k].device)
  <2> DEFINE d == cs[k].device
  <2>1. NoKeys(ks, se, cs, cl, o, k, d)
    BY <1>3, <1>5 DEF Unpaired
  <2> HIDE DEF d
  <2>2. d # 0
    BY <2>1, NamesArePositive DEF NoKeys
  <2>3. \A c \in Client : C[c].device = d => C[c].of = k /\ AtRest(C[c])
    BY <1>1, <2>1, <2>2, BlankClient DEF NoKeys
  <2>4. \A j \in Capsule : InUse(se, C, o, j) /\ cs[j].device = d => j = k
    BY <1>3, <2>1 DEF NoKeys
  <2>5. \A h \in Handler : o[h].pc \in {"connect", "pair"} => C[o[h].c].device # d
    BY <1>2, <1>4, <2>1 DEF NoKeys
  <2>6. NoKeys(ks, se, cs, C, o, k, d)
    BY <2>1, <2>3, <2>4, <2>5 DEF NoKeys
  <2> QED BY <2>6 DEF d
<1> QED BY <1>4, <1>5 DEF Unpaired, C

\* An Update keeps the invariant of what it is given.
LEMMA UpdateUnpaired ==
    ASSUME NEW ks, NEW se, NEW cs, NEW cl, NEW o, Unpaired(ks, se, cs, cl, o), Update(cs, cl, o)
    PROVE  Unpaired(ks, se, capsule', client', op')
BY CollectedUnpaired DEF Update

\* Capsules keep their devices and none becomes logged out.
CapsulesCalm(cs, cq) ==
    \A j \in Capsule :
        /\ cq[j].device = cs[j].device
        /\ cq[j].status = "logged_out" => cs[j].status = "logged_out"

\* Clients keep their session and device.  One at rest stays at rest, unless
\* its session is not logged out or a pairing call has reached its Connect.
ClientsCalm(cq, o, cl, cm) ==
    \A c \in Client :
        /\ cm[c].of = cl[c].of /\ cm[c].device = cl[c].device
        /\ \/ AtRest(cl[c]) => AtRest(cm[c])
           \/ cl[c].of \in Capsule /\ cq[cl[c].of].status # "logged_out"
           \/ \E h \in Handler : o[h].c = c /\ o[h].pc \in {"connect", "pair"}

\* A call p goes on as q: it takes up no session but the registered one, no
\* device, and reaches Connect only for a session that is not logged out.
OpCalm(cq, cl, se, p, q) ==
    /\ q.k \in {p.k, 0, se}
    /\ q.pc = "register" => p.pc = "register" /\ q.d = p.d
    /\ q.pc \in {"connect", "pair"} =>
          /\ q.c \in Client
          /\ \/ p.pc \in {"connect", "pair"} /\ q.c = p.c
             \/ cl[q.c].of \in Capsule /\ cq[cl[q.c].of].status # "logged_out"

\* Steps of this kind keep the invariant.
LEMMA CalmUnpaired ==
    ASSUME NEW ks, NEW se, NEW cs, NEW cl, NEW o, Unpaired(ks, se, cs, cl, o),
           NEW kq \in SUBSET ks, NEW sq \in {se, 0}, NEW cq, NEW cm, NEW oq,
           CapsulesCalm(cs, cq), ClientsCalm(cq, o, cl, cm),
           \A h \in Handler : OpCalm(cq, cl, se, o[h], oq[h])
    PROVE  Unpaired(kq, sq, cq, cm, oq)
<1>1. ASSUME NEW j \in Capsule, InUse(sq, cm, oq, j) PROVE InUse(se, cl, o, j)
  <2>1. j # 0
    BY NamesArePositive
  <2>2. ASSUME NEW h \in Handler, oq[h].k = j PROVE InUse(se, cl, o, j)
    BY <2>1, <2>2 DEF InUse, OpCalm
  <2>3. ASSUME NEW c \in Client, cm[c].of = j PROVE InUse(se, cl, o, j)
    BY <2>3 DEF InUse, ClientsCalm
  <2>4. sq = j => InUse(se, cl, o, j)
    BY <2>1 DEF InUse
  <2> QED BY <1>1, <2>2, <2>3, <2>4 DEF InUse
<1>2. ASSUME NEW k \in Capsule, InUse(sq, cm, oq, k), cq[k].status = "logged_out"
      PROVE  NoKeys(kq, sq, cq, cm, oq, k, cq[k].device)
  <2> DEFINE d == cs[k].device
  <2>1. cq[k].device = d
    BY DEF CapsulesCalm
  <2>2. NoKeys(ks, se, cs, cl, o, k, d)
    BY <1>1, <1>2 DEF Unpaired, CapsulesCalm
  <2> HIDE DEF d
  <2>3. d \in Device /\ d \notin kq
    BY <2>2 DEF NoKeys
  <2>4. ASSUME NEW c \in Client, cm[c].device = d PROVE cm[c].of = k /\ AtRest(cm[c])
    <3>1. cl[c].device = d /\ cl[c].of = k /\ AtRest(cl[c])
      BY <2>2, <2>4 DEF NoKeys, ClientsCalm
    <3>2. ~ \E h \in Handler : o[h].c = c /\ o[h].pc \in {"connect", "pair"}
      BY <2>2, <3>1 DEF NoKeys
    <3> QED BY <1>2, <3>1, <3>2 DEF ClientsCalm
  <2>5. ASSUME NEW j \in Capsule, InUse(sq, cm, oq, j), cq[j].device = d PROVE j = k
    BY <1>1, <2>2, <2>5 DEF NoKeys, CapsulesCalm
  <2>6. ASSUME NEW h \in Handler, oq[h].pc = "register" PROVE oq[h].d # d
    BY <2>2, <2>6 DEF NoKeys, OpCalm
  <2>7. ASSUME NEW h \in Handler, oq[h].pc \in {"connect", "pair"} PROVE cm[oq[h].c].device # d
    <3>1. oq[h].c \in Client /\ cm[oq[h].c].device = cl[oq[h].c].device
      BY <2>7 DEF OpCalm, ClientsCalm
    <3>2. CASE o[h].pc \in {"connect", "pair"} /\ oq[h].c = o[h].c
      BY <2>2, <3>1, <3>2 DEF NoKeys
    <3>3. CASE cl[oq[h].c].of \in Capsule /\ cq[cl[oq[h].c].of].status # "logged_out"
      BY <1>2, <2>2, <3>1, <3>3 DEF NoKeys
    <3> QED BY <2>7, <3>2, <3>3 DEF OpCalm
  <2>8. NoKeys(kq, sq, cq, cm, oq, k, d)
    BY <2>3, <2>4, <2>5, <2>6, <2>7 DEF NoKeys
  <2> QED BY <2>1, <2>8
<1>3. \A h \in Handler : oq[h].pc \in {"connect", "pair"} => oq[h].c \in Client
  BY DEF OpCalm
<1> QED BY <1>2, <1>3 DEF Unpaired

\* A session that is logged out takes a device that nothing refers to.
LEMMA FreshUnpaired ==
    ASSUME UnpairedInv, NEW k \in Capsule, FreeDevices # {}, NEW cm, NEW oq,
           ClientsCalm(capsule, op, client, cm),
           \A h \in Handler : OpCalm(capsule, client, sessions, op[h], oq[h])
    PROVE  Unpaired(keystore \union (deleted \ {NewDevice}), sessions,
                    LoggedOutCapsule(k), cm, oq)
<1> DEFINE f == Least(FreeDevices)
           L == LoggedOutCapsule(k)
           ks == keystore \union (deleted \ {f})
<1>1. f \in Device /\ ~DeviceInUse(f)
  BY FreeNames DEF FreeDevices
<1>2. L[k].device = f /\ \A j \in Capsule : j # k => L[j] = capsule[j]
  BY ServedTypes DEF UnpairedInv, Capsules, LoggedOutCapsule
<1>9. f \notin ks /\ ks \subseteq Spent
  BY <1>1 DEF DeviceInUse, Spent
<1> HIDE DEF f, L, ks
<1>3. CapsulesCalm(capsule, capsule)
  BY DEF CapsulesCalm
<1>4. Unpaired(ks, sessions, capsule, cm, oq)
  BY <1>3, <1>9, CalmUnpaired DEF UnpairedInv
<1>5. ASSUME NEW j \in Capsule, InUse(sessions, cm, oq, j)
      PROVE  InUse(sessions, client, op, j)
  <2>1. j # 0
    BY NamesArePositive
  <2>2. \A h \in Handler : oq[h].k = j => InUse(sessions, client, op, j)
    BY <2>1 DEF InUse, OpCalm
  <2>3. \A c \in Client : cm[c].of = j => InUse(sessions, client, op, j)
    BY DEF InUse, ClientsCalm
  <2> QED BY <1>5, <2>2, <2>3 DEF InUse
<1>6. ASSUME NEW j \in Capsule, InUse(sessions, cm, oq, j) PROVE capsule[j].device # f
  BY <1>1, <1>5, <1>6 DEF DeviceInUse, CapsuleInUse, InUse
<1>7. \A c \in Client : cm[c].device # f
  BY <1>1 DEF DeviceInUse, ClientsCalm
<1>8. ASSUME NEW j \in Capsule, InUse(sessions, cm, oq, j), L[j].status = "logged_out"
      PROVE  NoKeys(ks, sessions, L, cm, oq, j, L[j].device)
  <2>1. CASE j = k
    <3>1. f \in Device /\ f \notin ks
      BY <1>1, <1>9
    <3>2. \A i \in Capsule : InUse(sessions, cm, oq, i) /\ L[i].device = f => i = k
      BY <1>2, <1>6
    <3>3. \A h \in Handler : oq[h].pc = "register" => oq[h].d # f
      BY <1>1 DEF DeviceInUse, OpCalm
    <3>4. \A h \in Handler : oq[h].pc \in {"connect", "pair"} => cm[oq[h].c].device # f
      BY <1>7 DEF OpCalm
    <3>5. NoKeys(ks, sessions, L, cm, oq, k, f)
      BY <1>7, <3>1, <3>2, <3>3, <3>4 DEF NoKeys
    <3> QED BY <1>2, <2>1, <3>5
  <2>2. CASE j # k
    <3> DEFINE d == capsule[j].device
    <3>1. L[j] = capsule[j] /\ d # f
      BY <1>2, <1>6, <1>8, <2>2
    <3>2. NoKeys(ks, sessions, capsule, cm, oq, j, d)
      BY <1>4, <1>8, <3>1 DEF Unpaired
    <3>3. L[j].device = d
      BY <3>1
    <3> HIDE DEF d
    <3>4. \A i \in Capsule : InUse(sessions, cm, oq, i) /\ L[i].device = d => i = j
      BY <1>2, <3>1, <3>2 DEF NoKeys
    <3>5. NoKeys(ks, sessions, L, cm, oq, j, d)
      BY <3>2, <3>4 DEF NoKeys
    <3> QED BY <3>3, <3>5
  <2> QED BY <2>1, <2>2
<1> QED BY <1>4, <1>8 DEF Unpaired, L, ks, f

\* A session is registered anew, with a device no logged-out session has.
LEMMA RegisteredUnpaired ==
    ASSUME UnpairedInv, NEW k \in FreeCapsules, NEW d, NEW oq,
           \A j \in Capsule : /\ InUse(sessions, client, op, j)
                              /\ capsule[j].status = "logged_out"
                              => capsule[j].device # d,
           \A h \in Handler : OpCalm(capsule, client, sessions, op[h], oq[h])
    PROVE  Unpaired(Spent, k, [capsule EXCEPT ![k] = [NoCapsule EXCEPT !.device = d]],
                    client, oq)
<1> DEFINE R == [capsule EXCEPT ![k] = [NoCapsule EXCEPT !.device = d]]
<1>1. k \in Capsule
  BY DEF FreeCapsules
<1>2. /\ R[k].status = "stopped" /\ R[k].device = d
      /\ \A j \in Capsule : j # k => R[j] = capsule[j]
  BY <1>1, ServedTypes DEF UnpairedInv, Capsules, NoCapsule
<1> HIDE DEF R
<1>3. Unpaired(Spent, sessions, capsule, client, oq)
  <2>1. CapsulesCalm(capsule, capsule) /\ ClientsCalm(capsule, op, client, client)
    BY DEF CapsulesCalm, ClientsCalm
  <2> QED BY <2>1, CalmUnpaired DEF UnpairedInv
<1>4. ASSUME NEW j \in Capsule, InUse(k, client, oq, j), j # k
      PROVE  InUse(sessions, client, oq, j)
  BY <1>4 DEF InUse
<1>5. ASSUME NEW j \in Capsule, InUse(sessions, client, oq, j)
      PROVE  InUse(sessions, client, op, j)
  <2>1. j # 0
    BY NamesArePositive
  <2>2. \A h \in Handler : oq[h].k = j => InUse(sessions, client, op, j)
    BY <2>1 DEF InUse, OpCalm
  <2> QED BY <1>5, <2>2 DEF InUse
<1>6. ASSUME NEW j \in Capsule, InUse(k, client, oq, j), R[j].status = "logged_out"
      PROVE  NoKeys(Spent, k, R, client, oq, j, R[j].device)
  <2> DEFINE e == capsule[j].device
  <2>1. j # k /\ R[j] = capsule[j]
    BY <1>2, <1>6
  <2>2. InUse(sessions, client, oq, j)
    BY <1>4, <1>6, <2>1
  <2>3. NoKeys(Spent, sessions, capsule, client, oq, j, e)
    BY <1>3, <1>6, <2>1, <2>2 DEF Unpaired
  <2>4. e # d
    BY <1>5, <1>6, <2>1, <2>2
  <2>5. R[j].device = e
    BY <2>1
  <2> HIDE DEF e
  <2>6. \A i \in Capsule : InUse(k, client, oq, i) /\ R[i].device = e => i = j
    BY <1>2, <1>4, <2>3, <2>4 DEF NoKeys
  <2>7. NoKeys(Spent, k, R, client, oq, j, e)
    BY <2>3, <2>6 DEF NoKeys
  <2> QED BY <2>5, <2>7
<1> QED BY <1>3, <1>6 DEF Unpaired, R

\* A client is built for a session, with the device the session has.
LEMMA BuiltUnpaired ==
    ASSUME UnpairedInv, NEW h \in Handler, op[h].k \in Capsule,
           NEW c \in FreeClients, NEW flow, NEW pc \in {"spawn", "channel"}
    PROVE  Unpaired(Spent, sessions, Built(op[h].k, c), NewClient(op[h].k, c, flow),
                    [op EXCEPT ![h].pc = pc, ![h].c = c])
<1> DEFINE k == op[h].k
           B == Built(k, c)
           N == NewClient(k, c, flow)
           o == [op EXCEPT ![h].pc = pc, ![h].c = c]
<1>1. c \in Client /\ client[c].of = 0
  BY DEF FreeClients
<1>2. \A j \in Capsule : B[j].device = capsule[j].device /\ B[j].status = capsule[j].status
  BY ServedTypes DEF UnpairedInv, Capsules, Built
<1>3. /\ N[c].of = k /\ N[c].device = capsule[k].device /\ AtRest(N[c])
      /\ \A b \in Client : b # c => N[b] = client[b]
  BY <1>1, ServedTypes DEF UnpairedInv, Clients, NewClient, NoClient, AtRest
<1>4. /\ o[h].pc = pc /\ o[h].k = k
      /\ \A g \in Handler : g # h => o[g] = op[g]
  BY ServedTypes DEF UnpairedInv, Ops
<1> HIDE DEF B, N, o
<1>5. ASSUME NEW j \in Capsule, InUse(sessions, N, o, j) PROVE InUse(sessions, client, op, j)
  <2>1. \A g \in Handler : o[g].k = op[g].k
    BY <1>4
  <2>2. \A b \in Client : N[b].of = j => client[b].of = j \/ j = op[h].k
    BY <1>3
  <2> QED BY <1>5, <2>1, <2>2 DEF InUse
<1>6. ASSUME NEW g \in Handler, o[g].pc \in {"connect", "pair"}
      PROVE  /\ o[g] = op[g] /\ op[g].c \in Client /\ op[g].c # c
             /\ N[o[g].c].device = client[op[g].c].device
  <2>1. g # h /\ o[g] = op[g]
    BY <1>4, <1>6
  <2>2. op[g].c \in Client /\ client[op[g].c].of = op[g].k /\ op[g].k \in Capsule
    BY <1>6, <2>1, ServedTypes DEF UnpairedInv, OpOK, Building, Unbound
  <2>3. op[g].c # c
    BY <1>1, <2>2, NamesArePositive
  <2> QED BY <1>3, <2>1, <2>2, <2>3
<1>7. InUse(sessions, client, op, k)
  BY DEF InUse
<1>8. ASSUME NEW j \in Capsule, InUse(sessions, N, o, j), B[j].status = "logged_out"
      PROVE  NoKeys(Spent, sessions, B, N, o, j, B[j].device)
  <2> DEFINE d == capsule[j].device
  <2>1. NoKeys(Spent, sessions, capsule, client, op, j, d) /\ B[j].device = d
    BY <1>2, <1>5, <1>8 DEF UnpairedInv, Unpaired
  <2> HIDE DEF d
  <2>2. capsule[k].device = d => k = j
    BY <1>7, <2>1 DEF NoKeys
  <2>3. \A b \in Client : N[b].device = d => N[b].of = j /\ AtRest(N[b])
    BY <1>3, <2>1, <2>2 DEF NoKeys
  <2>4. \A i \in Capsule : InUse(sessions, N, o, i) /\ B[i].device = d => i = j
    BY <1>2, <1>5, <2>1 DEF NoKeys
  <2>5. \A g \in Handler : o[g].pc = "register" => o[g].d # d
    BY <1>4, <2>1 DEF NoKeys
  <2>6. \A g \in Handler : o[g].pc \in {"connect", "pair"} => N[o[g].c].device # d
    BY <1>6, <2>1 DEF NoKeys
  <2>7. NoKeys(Spent, sessions, B, N, o, j, d)
    BY <2>1, <2>3, <2>4, <2>5, <2>6 DEF NoKeys
  <2> QED BY <2>1, <2>7
<1>9. \A g \in Handler : o[g].pc \in {"connect", "pair"} => o[g].c \in Client
  BY <1>6
<1> QED BY <1>8, <1>9 DEF Unpaired, B, N, o

\* A call that ends, or that stays where it is, is calm.
LEMMA CalmOps ==
    ASSUME UnpairedInv, NEW cq, NEW cl, NEW h \in Handler
    PROVE  /\ \A p : OpCalm(cq, cl, sessions, p, NoOp)
           /\ OpCalm(cq, cl, sessions, op[h], op[h])
BY DEF OpCalm, NoOp, UnpairedInv, Unpaired

\* One call moves, the others stay.
LEMMA OneOpCalm ==
    ASSUME UnpairedInv, NEW cq, NEW cl, NEW h \in Handler, NEW p,
           OpCalm(cq, cl, sessions, op[h], p)
    PROVE  \A g \in Handler : OpCalm(cq, cl, sessions, op[g], [op EXCEPT ![h] = p][g])
<1>1. op \in [Handler -> OpRecord]
  BY ServedTypes DEF UnpairedInv, Ops
<1>2. ASSUME NEW g \in Handler PROVE OpCalm(cq, cl, sessions, op[g], [op EXCEPT ![h] = p][g])
  <2>1. CASE g = h
    BY <1>1, <2>1
  <2>2. CASE g # h
    BY <1>1, <2>2, CalmOps
  <2> QED BY <2>1, <2>2
<1> QED BY <1>2

\* Clients that keep their session and device, and rest if they rested.
ClientsRest(cl, cm) ==
    \A c \in Client :
        /\ cm[c].of = cl[c].of /\ cm[c].device = cl[c].device
        /\ AtRest(cl[c]) => AtRest(cm[c])

\* Such clients are calm, and the relation composes.
LEMMA RestingClients ==
    /\ \A cl, cm, cq, o : ClientsRest(cl, cm) => ClientsCalm(cq, o, cl, cm)
    /\ \A cl : ClientsRest(cl, cl)
    /\ \A cl, cm, cn : ClientsRest(cl, cm) /\ ClientsRest(cm, cn) => ClientsRest(cl, cn)
BY DEF ClientsRest, ClientsCalm

\* A disconnect.
LEMMA DisconnectedRests ==
    ASSUME NEW cl \in Clients, NEW c
    PROVE  ClientsRest(cl, Disconnected(cl, c))
<1>1. ASSUME NEW b \in Client
      PROVE  /\ Disconnected(cl, c)[b].of = cl[b].of
             /\ Disconnected(cl, c)[b].device = cl[b].device
             /\ AtRest(cl[b]) => AtRest(Disconnected(cl, c)[b])
  <2>1. cl[b] \in ClientRecord
    BY DEF Clients
  <2>2. CASE b = c
    BY <2>1, <2>2 DEF Disconnected, ClientRecord, AtRest
  <2>3. CASE b # c
    BY <2>3 DEF Disconnected
  <2> QED BY <2>2, <2>3
<1> QED BY <1>1 DEF ClientsRest

\* A cancellation.
LEMMA CancelledRests ==
    ASSUME ServedInv, NEW k \in Capsule
    PROVE  ClientsRest(client, Cancelled(k)) /\ Cancelled(k) \in Clients
<1>1. ASSUME NEW b \in Client
      PROVE  /\ Cancelled(k)[b].of = client[b].of
             /\ Cancelled(k)[b].device = client[b].device
             /\ AtRest(client[b]) => AtRest(Cancelled(k)[b])
  <2>1. client[b] \in ClientRecord
    BY ServedTypes
  <2> QED BY <2>1 DEF Cancelled, ClientRecord, AtRest
<1>2. Cancelled(k) \in Clients
  BY TornServed DEF Served
<1> QED BY <1>1, <1>2 DEF ClientsRest

\* One client changes and keeps its session and device: it was not at rest, or
\* still is.
LEMMA OneClientRests ==
    ASSUME NEW cl \in Clients, NEW c \in Client, NEW r,
           r.of = cl[c].of, r.device = cl[c].device, AtRest(cl[c]) => AtRest(r)
    PROVE  ClientsRest(cl, [cl EXCEPT ![c] = r])
BY DEF ClientsRest, Clients

\* A step from one state to another that is calm in all its parts, with the
\* collection that follows it.
LEMMA CalmUpdate ==
    ASSUME UnpairedInv, Spent' \subseteq Spent, sessions' \in {sessions, 0},
           NEW cs, NEW cl, NEW o, Update(cs, cl, o),
           CapsulesCalm(capsule, cs), ClientsCalm(cs, op, client, cl),
           \A g \in Handler : OpCalm(cs, client, sessions, op[g], o[g])
    PROVE  Unpaired(Spent', sessions', capsule', client', op')
<1>1. Unpaired(Spent', sessions', cs, cl, o)
  BY CalmUnpaired DEF UnpairedInv
<1> QED BY <1>1, UpdateUnpaired

\* Teardowns and reports are calm for the capsules.
LEMMA CalmCapsules ==
    ASSUME ServedInv, NEW k \in Capsule, NEW s \in Status \ {"logged_out"}
    PROVE  /\ CapsulesCalm(capsule, capsule)
           /\ CapsulesCalm(capsule, Torn(k))
           /\ CapsulesCalm(capsule, WithStatus(k, s)) /\ WithStatus(k, s)[k].status = s
<1>1. capsule \in Capsules
  BY ServedTypes
<1>2. CapsulesCalm(capsule, Torn(k))
  BY <1>1 DEF CapsulesCalm, Capsules, Torn
<1>3. CapsulesCalm(capsule, WithStatus(k, s)) /\ WithStatus(k, s)[k].status = s
  BY <1>1 DEF CapsulesCalm, Capsules, WithStatus
<1> QED BY <1>2, <1>3 DEF CapsulesCalm

\* Starting a session: its status changes before its loop runs.
LEMMA StartKeepsUnpaired ==
    ASSUME UnpairedInv, NEW h \in Handler,
           Register(h) \/ Get(h) \/ Manage(h) \/ Spawn(h)
    PROVE  Unpaired(Spent', sessions', capsule', client', op')
<1>1. ServedInv /\ op[h] \in OpRecord /\ OpOK(client, op[h]) /\ op \in Ops /\ client \in Clients
  BY ServedTypes DEF UnpairedInv
<1>2. CapsulesCalm(capsule, capsule) /\ ClientsCalm(capsule, op, client, client)
  BY DEF CapsulesCalm, ClientsCalm
<1>3. CASE Register(h)
  <2> DEFINE p == [NoOp EXCEPT !.pc = "get"]
  <2>1. OpCalm(capsule, client, sessions, op[h], p)
    BY DEF OpCalm, NoOp
  <2>2. op' = [op EXCEPT ![h] = p] /\ op[h].pc = "register"
        /\ client' = client /\ Spent' = Spent
    BY <1>3 DEF Register, At, Spent
  <2> HIDE DEF p
  <2>3. \A g \in Handler : OpCalm(capsule, client, sessions, op[g], op'[g])
    BY <2>1, <2>2, OneOpCalm
  <2>4. CASE sessions # 0
    <3>1. sessions' = sessions /\ capsule' = capsule
      BY <1>3, <2>4 DEF Register
    <3>2. Unpaired(Spent, sessions, capsule, client, op')
      BY <1>2, <2>3, CalmUnpaired DEF UnpairedInv
    <3> QED BY <2>2, <3>1, <3>2
  <2>5. CASE sessions = 0
    <3>1. sessions' \in FreeCapsules
      BY <1>3, <2>5, FreeNames DEF Register
    <3>2. capsule' = [capsule EXCEPT ![sessions'] = [NoCapsule EXCEPT !.device = op[h].d]]
      BY <1>3, <2>5 DEF Register
    <3>3. \A j \in Capsule : InUse(sessions, client, op, j) /\ capsule[j].status = "logged_out"
              => capsule[j].device # op[h].d
      BY <2>2 DEF UnpairedInv, Unpaired, NoKeys
    <3> DEFINE k == sessions'
    <3> HIDE DEF k
    <3>4. k \in FreeCapsules
      BY <3>1 DEF k
    <3> DEFINE oq == op'
    <3>5. \A g \in Handler : OpCalm(capsule, client, sessions, op[g], oq[g])
      BY <2>3
    <3> HIDE DEF oq
    <3>6. Unpaired(Spent, k, [capsule EXCEPT ![k] = [NoCapsule EXCEPT !.device = op[h].d]],
                   client, oq)
      BY <3>3, <3>4, <3>5, RegisteredUnpaired
    <3> QED BY <2>2, <3>2, <3>6 DEF k, oq
  <2> QED BY <2>4, <2>5
<1>4. CASE Get(h)
  <2>1. PICK p : op' = [op EXCEPT ![h] = p] /\ OpCalm(capsule, client, sessions, op[h], p)
    <3>1. CASE sessions = 0
      BY <1>4, <3>1, CalmOps DEF Get, Done
    <3>2. CASE sessions # 0
      <4> DEFINE p == [op[h] EXCEPT !.pc = "manage", !.k = sessions]
      <4>1. op' = [op EXCEPT ![h] = p]
        BY <1>1, <1>4, <3>2 DEF Get, Ops
      <4>2. p.pc = "manage" /\ p.k = sessions
        BY <1>1 DEF OpRecord
      <4>3. OpCalm(capsule, client, sessions, op[h], p)
        BY <4>2 DEF OpCalm
      <4> QED BY <4>1, <4>3
    <3> QED BY <3>1, <3>2
  <2>2. \A g \in Handler : OpCalm(capsule, client, sessions, op[g], op'[g])
    BY <2>1, OneOpCalm
  <2>3. Unpaired(Spent, sessions, capsule, client, op')
    BY <1>2, <2>2, CalmUnpaired DEF UnpairedInv
  <2> QED BY <1>4, <2>3 DEF Get, Spent
<1>5. CASE Manage(h)
  <2>1. op[h].k \in Capsule /\ Spent' = Spent /\ sessions' = sessions
    BY <1>1, <1>5 DEF Manage, At, OpOK, Unbound, Spent
  <2>2. CASE capsule[op[h].k].client # 0
    <3>1. Update(capsule, client, Done(h))
      BY <1>5, <2>2 DEF Manage
    <3>2. \A g \in Handler : OpCalm(capsule, client, sessions, op[g], Done(h)[g])
      BY CalmOps, OneOpCalm DEF Done
    <3> QED BY <1>2, <2>1, <3>1, <3>2, CalmUpdate
  <2>3. CASE capsule[op[h].k].client = 0
    <3> DEFINE c == Least(FreeClients)
    <3>1. c \in FreeClients
      BY <1>5, <2>3, FreeNames DEF Manage
    <3>2. Update(Built(op[h].k, c), NewClient(op[h].k, c, "managed"),
                 [op EXCEPT ![h].pc = "spawn", ![h].c = c])
      BY <1>5, <2>3 DEF Manage
    <3> HIDE DEF c
    <3>3. Unpaired(Spent, sessions, Built(op[h].k, c), NewClient(op[h].k, c, "managed"),
                   [op EXCEPT ![h].pc = "spawn", ![h].c = c])
      BY <2>1, <3>1, BuiltUnpaired
    <3> QED BY <2>1, <3>2, <3>3, UpdateUnpaired
  <2> QED BY <2>2, <2>3
<1>6. CASE Spawn(h)
  <2> DEFINE c == op[h].c
             r == [client[c] EXCEPT !.loop = "top"]
             L == [client EXCEPT ![c].loop = "top"]
             W == WithStatus(op[h].k, "starting")
  <2>1. op[h].k \in Capsule /\ c \in Client /\ client[c].of = op[h].k
        /\ Spent' = Spent /\ sessions' = sessions
    BY <1>1, <1>6 DEF Spawn, At, OpOK, Building, Unbound, Spent
  <2>2. Update(W, L, Done(h))
    BY <1>6 DEF Spawn
  <2>3. CapsulesCalm(capsule, W) /\ W[op[h].k].status = "starting"
    BY <1>1, <2>1, CalmCapsules DEF Status
  <2>4. /\ L[c].of = client[c].of /\ L[c].device = client[c].device
        /\ \A b \in Client : b # c => L[b] = client[b]
    BY <1>1, <2>1 DEF Clients, ClientRecord
  <2> HIDE DEF W, L
  <2>5. ClientsCalm(W, op, client, L)
    BY <2>1, <2>3, <2>4 DEF ClientsCalm
  <2>6. \A g \in Handler : OpCalm(W, client, sessions, op[g], Done(h)[g])
    BY CalmOps, OneOpCalm DEF Done
  <2> QED BY <2>1, <2>2, <2>3, <2>5, <2>6, CalmUpdate
<1> QED BY <1>3, <1>4, <1>5, <1>6

\* Pairing: the status changes before the client connects.
LEMMA PairingKeepsUnpaired ==
    ASSUME UnpairedInv, NEW h \in Handler,
           \/ PairingRuns(h) \/ StartPairing(h) \/ OpenChannel(h) \/ ConnectPairing(h)
           \/ PairPhone(h) \/ PairingFails(h)
    PROVE  Unpaired(Spent', sessions', capsule', client', op')
<1>1. ServedInv /\ op[h] \in OpRecord /\ OpOK(client, op[h]) /\ op \in Ops /\ client \in Clients
  BY ServedTypes DEF UnpairedInv
<1>2. CapsulesCalm(capsule, capsule) /\ ClientsCalm(capsule, op, client, client)
  BY DEF CapsulesCalm, ClientsCalm
<1>3. Spent' = Spent /\ sessions' = sessions
  BY DEF PairingRuns, StartPairing, OpenChannel, ConnectPairing, PairPhone, PairingFails, Spent
<1>4. op[h].k \in Capsule
  BY <1>1 DEF PairingRuns, StartPairing, OpenChannel, ConnectPairing, PairPhone, PairingFails,
       At, OpOK, Unbound
<1>5. ASSUME NEW cq PROVE \A g \in Handler : OpCalm(cq, client, sessions, op[g], Done(h)[g])
  BY CalmOps, OneOpCalm DEF Done
<1>6. ASSUME NEW cq, NEW pc \in Step, pc # "register",
             pc \in {"connect", "pair"} =>
                 /\ op[h].c \in Client
                 /\ \/ op[h].pc \in {"connect", "pair"}
                    \/ /\ client[op[h].c].of \in Capsule
                       /\ cq[client[op[h].c].of].status # "logged_out"
      PROVE  \A g \in Handler : OpCalm(cq, client, sessions, op[g], Moved(h, pc)[g])
  <2> DEFINE p == [op[h] EXCEPT !.pc = pc]
  <2>1. p.pc = pc /\ p.k = op[h].k /\ p.c = op[h].c
    BY <1>1 DEF OpRecord
  <2>2. Moved(h, pc) = [op EXCEPT ![h] = p]
    BY <1>1 DEF Moved, Ops
  <2> HIDE DEF p
  <2>3. OpCalm(cq, client, sessions, op[h], p)
    BY <1>6, <2>1 DEF OpCalm
  <2> QED BY <2>2, <2>3, OneOpCalm
<1>7. CASE PairingRuns(h)
  <2>1. Update(capsule, client, Done(h))
    BY <1>7 DEF PairingRuns
  <2> QED BY <1>2, <1>3, <1>5, <2>1, CalmUpdate
<1>8. CASE StartPairing(h)
  <2> DEFINE c == Least(FreeClients)
  <2>1. c \in FreeClients
    BY <1>8, FreeNames DEF StartPairing
  <2>2. Update(Built(op[h].k, c), NewClient(op[h].k, c, op[h].pc),
               [op EXCEPT ![h].pc = "channel", ![h].c = c])
    BY <1>8 DEF StartPairing
  <2> HIDE DEF c
  <2>3. Unpaired(Spent, sessions, Built(op[h].k, c), NewClient(op[h].k, c, op[h].pc),
                 [op EXCEPT ![h].pc = "channel", ![h].c = c])
    BY <1>4, <2>1, BuiltUnpaired
  <2> QED BY <1>3, <2>2, <2>3, UpdateUnpaired
<1>9. CASE OpenChannel(h)
  <2> DEFINE W == WithStatus(op[h].k, "scan")
  <2>1. op[h].c \in Client /\ client[op[h].c].of = op[h].k
    BY <1>1, <1>9 DEF OpenChannel, At, OpOK, Building
  <2>2. CapsulesCalm(capsule, W) /\ W[op[h].k].status = "scan"
    BY <1>1, <1>4, CalmCapsules DEF Status
  <2>3. \/ op' = Moved(h, "fail") /\ capsule' = capsule /\ client' = client
        \/ op' = Moved(h, "connect") /\ capsule' = W /\ client' = client
    BY <1>9 DEF OpenChannel
  <2> HIDE DEF W
  <2>4. \A g \in Handler : OpCalm(capsule, client, sessions, op[g], Moved(h, "fail")[g])
    BY <1>6 DEF Step, Building
  <2>5. \A g \in Handler : OpCalm(W, client, sessions, op[g], Moved(h, "connect")[g])
    BY <1>4, <1>6, <2>1, <2>2 DEF Step, Building
  <2>6. ClientsCalm(W, op, client, client)
    BY DEF ClientsCalm
  <2>7. Unpaired(Spent, sessions, capsule, client, Moved(h, "fail"))
    BY <1>2, <2>4, CalmUnpaired DEF UnpairedInv
  <2>8. Unpaired(Spent, sessions, W, client, Moved(h, "connect"))
    BY <2>2, <2>5, <2>6, CalmUnpaired DEF UnpairedInv
  <2> QED BY <1>3, <2>3, <2>7, <2>8
<1>10. CASE ConnectPairing(h)
  <2> DEFINE c == op[h].c
             O == [client EXCEPT ![c].link = "open"]
             P == [O EXCEPT ![c].pump = "on", ![c].loop = "wait"]
  <2>1. c \in Client /\ op[h].pc = "connect"
    BY <1>1, <1>10 DEF ConnectPairing, At, OpOK, Building
  <2>2. client[c] \in ClientRecord /\ client \in [Client -> ClientRecord]
    BY <1>1, <2>1 DEF Clients
  <2>3. /\ O[c].of = client[c].of /\ O[c].device = client[c].device
        /\ \A b \in Client : b # c => O[b] = client[b]
    BY <2>1, <2>2 DEF ClientRecord
  <2>4. /\ P[c].of = client[c].of /\ P[c].device = client[c].device
        /\ \A b \in Client : b # c => P[b] = client[b]
    BY <2>1, <2>2 DEF ClientRecord
  <2>5. \/ Update(capsule, O, Moved(h, "pair"))
        \/ Update(capsule, P, Done(h))
    BY <1>10 DEF ConnectPairing
  <2> HIDE DEF O, P
  <2>6. ClientsCalm(capsule, op, client, O) /\ ClientsCalm(capsule, op, client, P)
    BY <2>1, <2>3, <2>4 DEF ClientsCalm
  <2>7. \A g \in Handler : OpCalm(capsule, client, sessions, op[g], Moved(h, "pair")[g])
    BY <1>6, <2>1 DEF Step, Building
  <2>8. CASE Update(capsule, O, Moved(h, "pair"))
    BY <1>2, <1>3, <2>6, <2>7, <2>8, CalmUpdate
  <2>9. CASE Update(capsule, P, Done(h))
    BY <1>2, <1>3, <1>5, <2>6, <2>9, CalmUpdate
  <2> QED BY <2>5, <2>8, <2>9
<1>11. CASE PairPhone(h)
  <2> DEFINE c == op[h].c
             P == [client EXCEPT ![c].loop = "wait"]
  <2>1. c \in Client /\ op[h].pc = "pair"
    BY <1>1, <1>11 DEF PairPhone, At, OpOK, Building
  <2>2. client[c] \in ClientRecord /\ client \in [Client -> ClientRecord]
    BY <1>1, <2>1 DEF Clients
  <2>3. /\ P[c].of = client[c].of /\ P[c].device = client[c].device
        /\ \A b \in Client : b # c => P[b] = client[b]
    BY <2>1, <2>2 DEF ClientRecord
  <2>4. Update(capsule, P, Done(h))
    BY <1>11 DEF PairPhone
  <2> HIDE DEF P
  <2>5. ClientsCalm(capsule, op, client, P)
    BY <2>1, <2>3 DEF ClientsCalm
  <2> QED BY <1>2, <1>3, <1>5, <2>4, <2>5, CalmUpdate
<1>12. CASE PairingFails(h)
  <2>1. op' = Moved(h, "fail") /\ capsule' = capsule /\ client' = client
    BY <1>12 DEF PairingFails
  <2>2. \A g \in Handler : OpCalm(capsule, client, sessions, op[g], Moved(h, "fail")[g])
    BY <1>6 DEF Step, Building
  <2>3. Unpaired(Spent, sessions, capsule, client, Moved(h, "fail"))
    BY <1>2, <2>2, CalmUnpaired DEF UnpairedInv
  <2> QED BY <1>3, <2>1, <2>3
<1> QED BY <1>7, <1>8, <1>9, <1>10, <1>11, <1>12

\* Ending a session, or logging it out.
LEMMA EndKeepsUnpaired ==
    ASSUME UnpairedInv, NEW h \in Handler,
           \/ Teardown(h) \/ Report(h) \/ Drop(h)
           \/ Logout(h) \/ Unlink(h) \/ UnlinkFails(h) \/ LogoutDone(h)
    PROVE  Unpaired(Spent', sessions', capsule', client', op')
<1>1. ServedInv /\ op[h] \in OpRecord /\ OpOK(client, op[h]) /\ op \in Ops /\ client \in Clients
  BY ServedTypes DEF UnpairedInv
<1>2. CapsulesCalm(capsule, capsule) /\ ClientsCalm(capsule, op, client, client)
  BY DEF CapsulesCalm, ClientsCalm
<1>3. Spent' \subseteq Spent /\ sessions' \in {sessions, 0}
  BY DEF Teardown, Report, Drop, Logout, Unlink, UnlinkFails, LogoutDone, DeleteDevice,
         DeviceIsNew, Spent
<1>4. op[h].k \in Capsule
  BY <1>1 DEF Teardown, Report, Drop, Logout, Unlink, UnlinkFails, LogoutDone, At, OpOK, Unbound
<1>5. ASSUME NEW cq PROVE \A g \in Handler : OpCalm(cq, client, sessions, op[g], Done(h)[g])
  BY CalmOps, OneOpCalm DEF Done
<1>6. ASSUME NEW cq PROVE ClientsCalm(cq, op, client, Disconnected(client, op[h].c))
  BY <1>1, DisconnectedRests, RestingClients
<1>7. ASSUME NEW cq, NEW p, p.k = op[h].k, p.pc \notin {"register", "connect", "pair"}
      PROVE  \A g \in Handler : OpCalm(cq, client, sessions, op[g], [op EXCEPT ![h] = p][g])
  <2>1. OpCalm(cq, client, sessions, op[h], p)
    BY <1>7 DEF OpCalm
  <2> QED BY <2>1, OneOpCalm
<1>8. CASE Teardown(h)
  <2> DEFINE k == op[h].k
  <2>1. PICK next \in {"stopped", "drop", "out", "failed"} :
           Update(Torn(k), Cancelled(k), [op EXCEPT ![h].pc = next, ![h].c = capsule[k].client])
    BY <1>8 DEF Teardown
  <2> DEFINE p == [op[h] EXCEPT !.pc = next, !.c = capsule[k].client]
  <2>2. p.pc = next /\ p.k = k
    BY <1>1 DEF OpRecord
  <2>3. [op EXCEPT ![h].pc = next, ![h].c = capsule[k].client] = [op EXCEPT ![h] = p]
    BY <1>1 DEF Ops
  <2> HIDE DEF p
  <2>4. \A g \in Handler : OpCalm(Torn(k), client, sessions, op[g], [op EXCEPT ![h] = p][g])
    BY <1>7, <2>2
  <2>5. ClientsCalm(Torn(k), op, client, Cancelled(k))
    BY <1>1, <1>4, CancelledRests, RestingClients
  <2>6. CapsulesCalm(capsule, Torn(k))
    BY <1>1, <1>4, CalmCapsules DEF Status
  <2> QED BY <1>3, <2>1, <2>3, <2>4, <2>5, <2>6, CalmUpdate
<1>9. CASE Report(h)
  <2> DEFINE W == WithStatus(op[h].k, op[h].pc)
  <2>1. Update(W, Disconnected(client, op[h].c), Done(h))
    BY <1>9 DEF Report
  <2>2. op[h].pc \in Status \ {"logged_out"}
    BY <1>9 DEF Report, Status
  <2>3. CapsulesCalm(capsule, W)
    BY <1>1, <1>4, <2>2, CalmCapsules
  <2> HIDE DEF W
  <2> QED BY <1>3, <1>5, <1>6, <2>1, <2>3, CalmUpdate
<1>10. CASE Drop(h)
  <2>1. Update(capsule, Disconnected(client, op[h].c), Done(h))
    BY <1>10 DEF Drop
  <2> QED BY <1>2, <1>3, <1>5, <1>6, <2>1, CalmUpdate
<1>11. CASE LogoutDone(h)
  <2>1. /\ Update(LoggedOutCapsule(op[h].k), Disconnected(client, op[h].c), Done(h))
        /\ FreeDevices # {} /\ sessions' = sessions
    BY <1>11 DEF LogoutDone
  <2>2. Unpaired(keystore \union (deleted \ {NewDevice}), sessions,
                 LoggedOutCapsule(op[h].k), Disconnected(client, op[h].c), Done(h))
    BY <1>4, <1>5, <1>6, <2>1, FreshUnpaired
  <2>3. Spent' = keystore \union (deleted \ {NewDevice})
    BY <1>11 DEF LogoutDone, DeviceIsNew, Spent
  <2>4. Unpaired(Spent', sessions, capsule', client', op')
    BY <2>1, <2>2, <2>3, UpdateUnpaired
  <2> QED BY <2>1, <2>4
<1>12. CASE Logout(h)
  <2> DEFINE k == op[h].k
             p == [op[h] EXCEPT !.pc = "unlink", !.c = capsule[k].client,
                                !.d = capsule[k].device]
  <2>1. p.pc = "unlink" /\ p.k = k
    BY <1>1 DEF OpRecord
  <2>2. op' = [op EXCEPT ![h] = p]
    BY <1>1, <1>12 DEF Logout, Ops
  <2> HIDE DEF p
  <2>3. \A g \in Handler : OpCalm(capsule, client, sessions, op[g], [op EXCEPT ![h] = p][g])
    BY <1>7, <2>1
  <2>4. Unpaired(Spent, sessions, capsule, client, [op EXCEPT ![h] = p])
    BY <1>2, <2>3, CalmUnpaired DEF UnpairedInv
  <2> QED BY <1>12, <2>2, <2>4 DEF Logout, Spent
<1>13. CASE Unlink(h) \/ UnlinkFails(h)
  <2> DEFINE p == [op[h] EXCEPT !.pc = "quit", !.c = 0, !.d = 0]
             D == Disconnected(client, op[h].c)
  <2>1. p.pc = "quit" /\ p.k = op[h].k
    BY <1>1 DEF OpRecord
  <2>2. [op EXCEPT ![h].pc = "quit", ![h].c = 0, ![h].d = 0] = [op EXCEPT ![h] = p]
    BY <1>1 DEF Ops
  <2> HIDE DEF p
  <2>3. \A g \in Handler : OpCalm(capsule, client, sessions, op[g], [op EXCEPT ![h] = p][g])
    BY <1>7, <2>1
  <2>4. CASE Unlink(h)
    <3>1. Update(capsule, D, [op EXCEPT ![h] = p])
      BY <2>2, <2>4 DEF Unlink
    <3>2. ClientsCalm(capsule, op, client, D)
      BY <1>6
    <3> HIDE DEF D
    <3> QED BY <1>2, <1>3, <2>3, <3>1, <3>2, CalmUpdate
  <2>5. CASE UnlinkFails(h)
    <3>1. Unpaired(Spent, sessions, capsule, client, [op EXCEPT ![h] = p])
      BY <1>2, <2>3, CalmUnpaired DEF UnpairedInv
    <3> QED BY <2>2, <2>5, <3>1 DEF UnlinkFails, Spent
  <2> QED BY <1>13, <2>4, <2>5
<1> QED BY <1>8, <1>9, <1>10, <1>11, <1>12, <1>13

\* The fewer devices have keys or had them deleted, the better.
LEMMA FewerSpent ==
    ASSUME NEW ks, NEW kq \in SUBSET ks, NEW se, NEW cs, NEW cl, NEW o,
           Unpaired(ks, se, cs, cl, o)
    PROVE  Unpaired(kq, se, cs, cl, o)
BY DEF Unpaired, NoKeys

\* A call begins: a session is prepared with a device nothing refers to, or
\* started with one that has keys.
LEMMA BeginKeepsUnpaired ==
    ASSUME UnpairedInv, NEW h \in Handler,
           \/ EnsureDevice(h)
           \/ \E job \in {"stop", "qr", "code", "logout", "forget"} : Call(h, job)
           \/ h = Recon /\ \E d \in Device : StartAssigned(d)
    PROVE  Unpaired(Spent', sessions', capsule', client', op')
<1>1. ServedInv /\ op[h] \in OpRecord /\ op \in Ops
  BY ServedTypes DEF UnpairedInv
<1>2. CapsulesCalm(capsule, capsule) /\ ClientsCalm(capsule, op, client, client)
  BY DEF CapsulesCalm, ClientsCalm
<1>3. CASE EnsureDevice(h)
  <2> DEFINE k == Least(FreeCapsules)
             f == Least(FreeDevices)
  <2>1. k \in FreeCapsules /\ f \in FreeDevices
    BY <1>3, FreeNames DEF EnsureDevice
  <2>2. /\ sessions' = k /\ capsule' = [capsule EXCEPT ![k] = [NoCapsule EXCEPT !.device = f]]
        /\ Spent' \subseteq Spent /\ client' = client /\ op' = op
    BY <1>3 DEF EnsureDevice, DeviceIsNew, Spent
  <2> HIDE DEF k, f
  <2>3. \A j \in Capsule : InUse(sessions, client, op, j) => capsule[j].device # f
    BY <2>1 DEF FreeDevices, DeviceInUse, CapsuleInUse, InUse
  <2>4. \A g \in Handler : OpCalm(capsule, client, sessions, op[g], op[g])
    BY CalmOps
  <2>5. Unpaired(Spent, k, [capsule EXCEPT ![k] = [NoCapsule EXCEPT !.device = f]], client, op)
    BY <2>1, <2>3, <2>4, RegisteredUnpaired
  <2>6. Unpaired(Spent', k, [capsule EXCEPT ![k] = [NoCapsule EXCEPT !.device = f]], client, op)
    BY <2>2, <2>5, FewerSpent
  <2> QED BY <2>2, <2>6
<1>4. ASSUME NEW job \in {"stop", "qr", "code", "logout", "forget"}, Call(h, job)
      PROVE  Unpaired(Spent', sessions', capsule', client', op')
  <2> DEFINE p == [NoOp EXCEPT !.pc = job, !.k = sessions]
  <2>1. op' = [op EXCEPT ![h] = p] /\ UNCHANGED <<Spent, sessions, capsule, client>>
    BY <1>4 DEF Call, Spent
  <2>2. OpCalm(capsule, client, sessions, op[h], p)
    BY DEF OpCalm, NoOp
  <2> HIDE DEF p
  <2>3. \A g \in Handler : OpCalm(capsule, client, sessions, op[g], [op EXCEPT ![h] = p][g])
    BY <2>2, OneOpCalm
  <2>4. Unpaired(Spent, sessions, capsule, client, [op EXCEPT ![h] = p])
    BY <1>2, <2>3, CalmUnpaired DEF UnpairedInv
  <2> QED BY <2>1, <2>4
<1>5. ASSUME NEW d \in Device, h = Recon, StartAssigned(d)
      PROVE  Unpaired(Spent', sessions', capsule', client', op')
  <2> DEFINE p == [NoOp EXCEPT !.pc = "register", !.d = d]
             o == [op EXCEPT ![h] = p]
  <2>1. op' = o /\ UNCHANGED <<Spent, sessions, capsule, client>> /\ d \in Spent
    BY <1>5 DEF StartAssigned, Spent
  <2>2. p.pc = "register" /\ p.k = 0 /\ p.d = d
    BY DEF NoOp
  <2>3. o[h] = p /\ \A g \in Handler : g # h => o[g] = op[g]
    BY <1>1 DEF Ops
  <2> HIDE DEF p, o
  <2>4. ASSUME NEW j \in Capsule, InUse(sessions, client, o, j) PROVE InUse(sessions, client, op, j)
    <3>1. \A g \in Handler : o[g].k = j => op[g].k = j
      BY <2>2, <2>3, NamesArePositive
    <3> QED BY <2>4, <3>1 DEF InUse
  <2>5. ASSUME NEW j \in Capsule, InUse(sessions, client, o, j), capsule[j].status = "logged_out"
        PROVE  NoKeys(Spent, sessions, capsule, client, o, j, capsule[j].device)
    <3> DEFINE e == capsule[j].device
    <3>1. NoKeys(Spent, sessions, capsule, client, op, j, e)
      BY <2>4, <2>5 DEF UnpairedInv, Unpaired
    <3> HIDE DEF e
    <3>2. e # d
      BY <2>1, <3>1 DEF NoKeys
    <3>3. \A i \in Capsule : InUse(sessions, client, o, i) /\ capsule[i].device = e => i = j
      BY <2>4, <3>1 DEF NoKeys
    <3>4. \A g \in Handler : o[g].pc = "register" => o[g].d # e
      BY <2>2, <2>3, <3>1, <3>2 DEF NoKeys
    <3>5. \A g \in Handler : o[g].pc \in {"connect", "pair"} => client[o[g].c].device # e
      BY <2>2, <2>3, <3>1 DEF NoKeys
    <3>6. NoKeys(Spent, sessions, capsule, client, o, j, e)
      BY <3>1, <3>3, <3>4, <3>5 DEF NoKeys
    <3> QED BY <3>6 DEF e
  <2>6. \A g \in Handler : o[g].pc \in {"connect", "pair"} => o[g].c \in Client
    BY <2>2, <2>3 DEF UnpairedInv, Unpaired
  <2>7. Unpaired(Spent, sessions, capsule, client, o)
    BY <2>5, <2>6 DEF Unpaired
  <2> QED BY <2>1, <2>7
<1> QED BY <1>3, <1>4, <1>5

\* The reconnect loop moves a client that is not at rest.
LEMMA LoopKeepsUnpaired ==
    ASSUME UnpairedInv, NEW c \in Client, LoopSteps(c) \/ LoopConnectFails(c)
    PROVE  Unpaired(Spent', sessions', capsule', client', op')
<1>1. ServedInv /\ client \in Clients /\ client[c] \in ClientRecord
      /\ ClientOK(capsule, client, c)
  BY ServedTypes DEF UnpairedInv, Served
<1>2. client[c].loop \in Looping /\ Spent' = Spent /\ sessions' = sessions
  BY DEF LoopSteps, LoopTop, LoopCheck, LoopConnect, LoopWait, LoopConnectFails, Looping, Spent
<1>3. ~AtRest(client[c])
  BY <1>2 DEF AtRest, Looping
<1>4. ASSUME NEW r, r.of = client[c].of, r.device = client[c].device,
             Update(capsule, [client EXCEPT ![c] = r], op)
      PROVE  Unpaired(Spent', sessions', capsule', client', op')
  <2>1. ClientsCalm(capsule, op, client, [client EXCEPT ![c] = r])
    BY <1>1, <1>3, <1>4, OneClientRests, RestingClients
  <2>2. CapsulesCalm(capsule, capsule)
    BY DEF CapsulesCalm
  <2>3. \A g \in Handler : OpCalm(capsule, client, sessions, op[g], op[g])
    BY CalmOps
  <2> QED BY <1>2, <1>4, <2>1, <2>2, <2>3, CalmUpdate
<1>5. ASSUME NEW l, Update(capsule, Loops(c, l), op)
      PROVE  Unpaired(Spent', sessions', capsule', client', op')
  <2> DEFINE r == [client[c] EXCEPT !.loop = l]
  <2>1. r.of = client[c].of /\ r.device = client[c].device
    BY <1>1 DEF ClientRecord
  <2>2. Loops(c, l) = [client EXCEPT ![c] = r]
    BY <1>1 DEF Clients, Loops
  <2> HIDE DEF r
  <2> QED BY <1>4, <1>5, <2>1, <2>2
<1>6. CASE LoopTop(c)
  <2> DEFINE s == capsule[client[c].of].client
             r == [client[c] EXCEPT !.loop = "check", !.seen = s]
             R == [Loops(c, "check") EXCEPT ![c].seen = s]
  <2>1. r.of = client[c].of /\ r.device = client[c].device
    BY <1>1 DEF ClientRecord
  <2>2. R = [client EXCEPT ![c] = r]
    BY <1>1 DEF Clients, Loops
  <2>3. Update(capsule, R, op) \/ Update(capsule, Loops(c, "done"), op)
    BY <1>6 DEF LoopTop
  <2> HIDE DEF r, R
  <2> QED BY <1>4, <1>5, <2>1, <2>2, <2>3
<1>7. CASE LoopCheck(c)
  BY <1>5, <1>7 DEF LoopCheck
<1>8. CASE LoopConnect(c)
  <2> DEFINE r == [client[c] EXCEPT !.loop = "wait", !.link = "open"]
             R == [Loops(c, "wait") EXCEPT ![client[c].seen].link = "open"]
  <2>1. client[c].seen = c
    BY <1>1, <1>8 DEF LoopConnect, ClientOK
  <2>2. r.of = client[c].of /\ r.device = client[c].device
    BY <1>1 DEF ClientRecord
  <2>3. R = [client EXCEPT ![c] = r]
    BY <1>1, <2>1 DEF Clients, Loops
  <2>4. \/ Update(capsule, Loops(c, "done"), op)
        \/ Update(capsule, Again(c), op)
        \/ Update(capsule, R, op)
    BY <1>8 DEF LoopConnect
  <2> HIDE DEF r, R
  <2> QED BY <1>4, <1>5, <2>2, <2>3, <2>4 DEF Again
<1>9. CASE LoopConnectFails(c)
  BY <1>5, <1>9 DEF LoopConnectFails, Again
<1>10. CASE LoopWait(c)
  BY <1>5, <1>10 DEF LoopWait
<1> QED BY <1>6, <1>7, <1>8, <1>9, <1>10 DEF LoopSteps

\* Changes of the callback and the pump of a client leave it at rest.
LEMMA QuietRests ==
    ASSUME NEW x \in ClientRecord, NEW e, NEW p, NEW t
    PROVE  /\ AtRest(x) => AtRest([x EXCEPT !.event = e, !.torn = t])
           /\ AtRest(x) => AtRest([x EXCEPT !.pump = p, !.torn = t])
           /\ AtRest(x) => AtRest([x EXCEPT !.pump = p])
BY DEF AtRest, ClientRecord

\* Callbacks: the one of a logout takes a fresh device, the others leave what
\* they find.
LEMMA CallbackKeepsUnpaired ==
    ASSUME UnpairedInv, NEW c \in Client, CallbackSteps(c)
    PROVE  Unpaired(Spent', sessions', capsule', client', op')
<1>1. ServedInv /\ client \in Clients /\ client[c] \in ClientRecord
  BY ServedTypes DEF UnpairedInv
<1>2. client[c].event # "none" /\ Spent' \subseteq Spent /\ sessions' = sessions
  BY DEF CallbackSteps, CallbackTeardown, CallbackStatus, CallbackLoggedOut, DeviceIsNew, Spent
<1>3. client[c].of \in Capsule
  BY <1>1, <1>2, LiveClient
<1>4. ASSUME NEW cq PROVE \A g \in Handler : OpCalm(cq, client, sessions, op[g], op[g])
  BY CalmOps
<1>5. ASSUME NEW cq PROVE ClientsCalm(cq, op, client, Returned(c))
  <2> DEFINE r == [client[c] EXCEPT !.event = "none", !.torn = 0]
             E == [client EXCEPT ![c].event = "none", ![c].torn = 0]
  <2>1. QuietlyMoves(client[c], r) /\ (AtRest(client[c]) => AtRest(r))
    BY <1>1, QuietFields, QuietRests
  <2>2. E = [client EXCEPT ![c] = r]
    BY <1>1 DEF Clients
  <2>3. Returned(c) = Disconnected(E, client[c].torn)
    BY DEF Returned
  <2> HIDE DEF r, E
  <2>4. ClientsRest(client, E)
    BY <1>1, <2>1, <2>2, OneClientRests DEF QuietlyMoves
  <2>5. E \in Clients
    BY <1>1, <2>1, <2>2 DEF Clients, QuietlyMoves
  <2>6. ClientsRest(E, Returned(c))
    BY <2>3, <2>5, DisconnectedRests
  <2> QED BY <2>4, <2>6, RestingClients
<1>6. CASE CallbackTeardown(c)
  <2> DEFINE k == client[c].of
             C == Cancelled(k)
  <2>1. PICK next \in {"failed", "out"} :
           Update(Torn(k), [C EXCEPT ![c].event = next, ![c].torn = capsule[k].client], op)
    BY <1>6 DEF CallbackTeardown
  <2> DEFINE r == [C[c] EXCEPT !.event = next, !.torn = capsule[k].client]
  <2>2. ClientsRest(client, C) /\ C \in Clients
    BY <1>1, <1>3, CancelledRests
  <2>3. capsule[k].client \in Client \union {0}
    BY <1>1, <1>3, ServedTypes
  <2>4. CapsulesCalm(capsule, Torn(k))
    BY <1>1, <1>3, CalmCapsules DEF Status
  <2> HIDE DEF C
  <2>5. C[c] \in ClientRecord
    BY <2>2 DEF Clients
  <2>6. QuietlyMoves(C[c], r) /\ (AtRest(C[c]) => AtRest(r))
    BY <2>3, <2>5, QuietFields, QuietRests
  <2>7. [C EXCEPT ![c].event = next, ![c].torn = capsule[k].client] = [C EXCEPT ![c] = r]
    BY <2>2 DEF Clients
  <2> HIDE DEF r
  <2>8. ClientsRest(C, [C EXCEPT ![c] = r])
    BY <2>2, <2>6, OneClientRests DEF QuietlyMoves
  <2>9. ClientsCalm(Torn(k), op, client, [C EXCEPT ![c] = r])
    BY <2>2, <2>8, RestingClients
  <2> QED BY <1>2, <1>4, <2>1, <2>4, <2>7, <2>9, CalmUpdate
<1>7. CASE CallbackStatus(c)
  <2> DEFINE s == EventStatus(client[c].event)
             W == WithStatus(client[c].of, s)
  <2>1. s \in Status \ {"logged_out"}
    BY <1>7 DEF CallbackStatus, EventStatus, Status
  <2>2. Update(W, Returned(c), op)
    BY <1>7 DEF CallbackStatus
  <2>3. CapsulesCalm(capsule, W)
    BY <1>1, <1>3, <2>1, CalmCapsules
  <2> HIDE DEF W
  <2> QED BY <1>2, <1>4, <1>5, <2>2, <2>3, CalmUpdate
<1>8. CASE CallbackLoggedOut(c)
  <2>1. Update(LoggedOutCapsule(client[c].of), Returned(c), op) /\ FreeDevices # {}
    BY <1>8 DEF CallbackLoggedOut
  <2>2. Unpaired(keystore \union (deleted \ {NewDevice}), sessions,
                 LoggedOutCapsule(client[c].of), Returned(c), op)
    BY <1>3, <1>4, <1>5, <2>1, FreshUnpaired
  <2>3. Spent' = keystore \union (deleted \ {NewDevice})
    BY <1>8 DEF CallbackLoggedOut, DeviceIsNew, Spent
  <2>4. Unpaired(Spent', sessions, capsule', client', op')
    BY <2>1, <2>2, <2>3, UpdateUnpaired
  <2> QED BY <1>2, <2>4
<1> QED BY <1>6, <1>7, <1>8 DEF CallbackSteps

\* The QR pump.
LEMMA PumpKeepsUnpaired ==
    ASSUME UnpairedInv, NEW c \in Client, PumpSteps(c)
    PROVE  Unpaired(Spent', sessions', capsule', client', op')
<1>1. ServedInv /\ client \in Clients /\ client[c] \in ClientRecord
  BY ServedTypes DEF UnpairedInv
<1>2. client[c].pump # "off" /\ Spent' = Spent /\ sessions' = sessions
  BY DEF PumpSteps, PumpEnd, PumpTimeout, PumpTeardown, Spent
<1>3. client[c].of \in Capsule
  BY <1>1, <1>2, LiveClient
<1>4. ASSUME NEW cq PROVE \A g \in Handler : OpCalm(cq, client, sessions, op[g], op[g])
  BY CalmOps
<1>5. ASSUME NEW p \in {"off", "on", "quit", "disconnect"}, NEW cq
      PROVE  ClientsCalm(cq, op, client, [client EXCEPT ![c].pump = p])
  <2> DEFINE r == [client[c] EXCEPT !.pump = p]
  <2>1. QuietlyMoves(client[c], r) /\ (AtRest(client[c]) => AtRest(r))
    BY <1>1, QuietFields, QuietRests
  <2>2. [client EXCEPT ![c].pump = p] = [client EXCEPT ![c] = r]
    BY <1>1 DEF Clients
  <2> HIDE DEF r
  <2> QED BY <1>1, <2>1, <2>2, OneClientRests, RestingClients DEF QuietlyMoves
<1>6. CASE PumpEnd(c)
  <2>1. Update(capsule, [client EXCEPT ![c].pump = "off"], op)
    BY <1>6 DEF PumpEnd
  <2>2. CapsulesCalm(capsule, capsule)
    BY DEF CapsulesCalm
  <2> QED BY <1>2, <1>4, <1>5, <2>1, <2>2, CalmUpdate
<1>7. CASE PumpTimeout(c)
  <2> DEFINE W == WithStatus(client[c].of, "failed")
  <2>1. Update(W, [client EXCEPT ![c].pump = "quit"], op)
    BY <1>7 DEF PumpTimeout
  <2>2. CapsulesCalm(capsule, W)
    BY <1>1, <1>3, CalmCapsules DEF Status
  <2> HIDE DEF W
  <2> QED BY <1>2, <1>4, <1>5, <2>1, <2>2, CalmUpdate
<1>8. CASE PumpTeardown(c)
  <2> DEFINE k == client[c].of
             C == Cancelled(k)
             r == [C[c] EXCEPT !.pump = "disconnect", !.torn = capsule[k].client]
             R == [C EXCEPT ![c].pump = "disconnect", ![c].torn = capsule[k].client]
             q == [client[c] EXCEPT !.pump = "off", !.torn = 0]
             Q == [client EXCEPT ![c].pump = "off", ![c].torn = 0]
  <2>1. \/ Update(Torn(k), R, op)
        \/ Update(capsule, Disconnected(Q, client[c].torn), op)
    BY <1>8 DEF PumpTeardown
  <2>2. ClientsRest(client, C) /\ C \in Clients
    BY <1>1, <1>3, CancelledRests
  <2>3. capsule[k].client \in Client \union {0}
    BY <1>1, <1>3, ServedTypes
  <2>4. CapsulesCalm(capsule, Torn(k)) /\ CapsulesCalm(capsule, capsule)
    BY <1>1, <1>3, CalmCapsules DEF Status
  <2> HIDE DEF C
  <2>5. C[c] \in ClientRecord
    BY <2>2 DEF Clients
  <2>6. QuietlyMoves(C[c], r) /\ (AtRest(C[c]) => AtRest(r))
    BY <2>3, <2>5, QuietFields, QuietRests
  <2>7. QuietlyMoves(client[c], q) /\ (AtRest(client[c]) => AtRest(q))
    BY <1>1, QuietFields, QuietRests
  <2>8. R = [C EXCEPT ![c] = r] /\ Q = [client EXCEPT ![c] = q]
    BY <1>1, <2>2 DEF Clients
  <2> HIDE DEF r, R, q, Q
  <2>9. ClientsRest(C, R) /\ ClientsRest(client, Q) /\ Q \in Clients
    BY <1>1, <2>2, <2>6, <2>7, <2>8, OneClientRests DEF QuietlyMoves, Clients
  <2>10. ClientsCalm(Torn(k), op, client, R)
    BY <2>2, <2>9, RestingClients
  <2>11. ClientsCalm(capsule, op, client, Disconnected(Q, client[c].torn))
    BY <2>9, DisconnectedRests, RestingClients
  <2>12. CASE Update(Torn(k), R, op)
    BY <1>2, <1>4, <2>4, <2>10, <2>12, CalmUpdate
  <2>13. CASE Update(capsule, Disconnected(Q, client[c].torn), op)
    BY <1>2, <1>4, <2>4, <2>11, <2>13, CalmUpdate
  <2> QED BY <2>1, <2>12, <2>13
<1> QED BY <1>6, <1>7, <1>8 DEF PumpSteps

\* WhatsApp: a device gets keys from a client that is connected with it.
LEMMA WhatsAppKeepsUnpaired ==
    ASSUME UnpairedInv, NEW c \in Client,
           Login(c) \/ Scan(c) \/ DropLink(c) \/ AutoReconnect(c) \/ LoggedOut(c) \/ Fatal(c)
    PROVE  Unpaired(Spent', sessions', capsule', client', op')
<1>1. client \in Clients /\ client[c] \in ClientRecord
  BY ServedTypes DEF UnpairedInv
<1>2. client[c].link # "down" /\ capsule' = capsule /\ op' = op /\ sessions' = sessions
  BY DEF Login, Scan, DropLink, AutoReconnect, LoggedOut, Fatal
<1>3. Spent' \subseteq Spent \union {client[c].device}
  BY DEF Login, Scan, DropLink, AutoReconnect, LoggedOut, Fatal, DeleteDevice, Spent
<1>4. ~AtRest(client[c])
  BY <1>2 DEF AtRest
<1>5. \A b \in Client : /\ client'[b].of = client[b].of /\ client'[b].device = client[b].device
                        /\ b # c => client'[b] = client[b]
  <2>1. CASE DropLink(c) \/ AutoReconnect(c)
    BY <1>1, <2>1 DEF DropLink, AutoReconnect, Clients, ClientRecord
  <2>2. CASE Login(c) \/ Scan(c) \/ LoggedOut(c) \/ Fatal(c)
    <3>1. PICK e, l : client' = [client EXCEPT ![c].event = e, ![c].link = l]
      <4>1. \/ Event(c, "connected", "ready") \/ Event(c, "paired", "open")
            \/ Event(c, "logged_out", "down") \/ Event(c, "fatal", "down")
        BY <2>2 DEF Login, Scan, LoggedOut, Fatal
      <4> QED BY <4>1, Zenon DEF Event
    <3> QED BY <1>1, <3>1 DEF Clients, ClientRecord
  <2> QED BY <2>1, <2>2
<1>6. ClientsCalm(capsule, op, client, client')
  BY <1>4, <1>5 DEF ClientsCalm
<1>7. CapsulesCalm(capsule, capsule)
  BY DEF CapsulesCalm
<1>8. \A g \in Handler : OpCalm(capsule, client, sessions, op[g], op[g])
  BY CalmOps
<1> DEFINE cm == client'
<1>9. ClientsCalm(capsule, op, client, cm)
  BY <1>6
<1> HIDE DEF cm
<1>10. Unpaired(Spent, sessions, capsule, cm, op)
  BY <1>7, <1>8, <1>9, CalmUnpaired DEF UnpairedInv
<1>11. ASSUME NEW j \in Capsule, InUse(sessions, cm, op, j), capsule[j].status = "logged_out"
       PROVE  NoKeys(Spent', sessions, capsule, cm, op, j, capsule[j].device)
  <2> DEFINE d == capsule[j].device
  <2>1. NoKeys(Spent, sessions, capsule, cm, op, j, d)
    BY <1>10, <1>11 DEF Unpaired
  <2>2. InUse(sessions, client, op, j)
    BY <1>5, <1>11 DEF InUse, cm
  <2>3. NoKeys(Spent, sessions, capsule, client, op, j, d)
    BY <1>11, <2>2 DEF UnpairedInv, Unpaired
  <2> HIDE DEF d
  <2>4. client[c].device # d
    BY <1>4, <2>3 DEF NoKeys
  <2>5. d \notin Spent'
    BY <1>3, <2>1, <2>4 DEF NoKeys
  <2>6. NoKeys(Spent', sessions, capsule, cm, op, j, d)
    BY <2>1, <2>5 DEF NoKeys
  <2> QED BY <2>6 DEF d
<1>12. Unpaired(Spent', sessions, capsule, cm, op)
  BY <1>10, <1>11 DEF Unpaired
<1> QED BY <1>2, <1>12 DEF cm

\* Every step keeps the invariant.
LEMMA UnpairedStep == UnpairedInv /\ [Next]_vars => UnpairedInv'
<1> SUFFICES ASSUME UnpairedInv, [Next]_vars PROVE UnpairedInv'
    OBVIOUS
<1>1. ServedInv'
  BY ServedStep DEF UnpairedInv
<1> SUFFICES Unpaired(Spent', sessions', capsule', client', op')
    BY <1>1 DEF UnpairedInv
<1>2. CASE Next
  <2>1. ASSUME NEW h \in Handler, HandlerSteps(h)
        PROVE  Unpaired(Spent', sessions', capsule', client', op')
    BY <2>1, StartKeepsUnpaired, PairingKeepsUnpaired, EndKeepsUnpaired DEF HandlerSteps
  <2>2. ASSUME NEW h \in Handler,
               EnsureDevice(h) \/ \E job \in {"stop", "qr", "code", "logout", "forget"} : Call(h, job)
        PROVE  Unpaired(Spent', sessions', capsule', client', op')
    BY <2>2, BeginKeepsUnpaired
  <2>3. ASSUME NEW h \in Handler, PairingFails(h) \/ UnlinkFails(h)
        PROVE  Unpaired(Spent', sessions', capsule', client', op')
    BY <2>3, PairingKeepsUnpaired, EndKeepsUnpaired
  <2>4. ASSUME NEW d \in Device, StartAssigned(d)
        PROVE  Unpaired(Spent', sessions', capsule', client', op')
    <3>1. Recon \in Handler
      BY DEF Handler
    <3> QED BY <2>4, <3>1, BeginKeepsUnpaired
  <2>5. ASSUME NEW c \in Client, LoopSteps(c) \/ LoopConnectFails(c)
        PROVE  Unpaired(Spent', sessions', capsule', client', op')
    BY <2>5, LoopKeepsUnpaired
  <2>6. ASSUME NEW c \in Client, CallbackSteps(c) \/ PumpSteps(c)
        PROVE  Unpaired(Spent', sessions', capsule', client', op')
    BY <2>6, CallbackKeepsUnpaired, PumpKeepsUnpaired
  <2>7. ASSUME NEW c \in Client,
               \/ Login(c) \/ Scan(c) \/ DropLink(c) \/ AutoReconnect(c)
               \/ LoggedOut(c) \/ Fatal(c)
        PROVE  Unpaired(Spent', sessions', capsule', client', op')
    BY <2>7, WhatsAppKeepsUnpaired
  <2> QED BY <1>2, <2>1, <2>2, <2>3, <2>4, <2>5, <2>6, <2>7 DEF Next
<1>3. CASE UNCHANGED vars
  BY <1>3 DEF vars, UnpairedInv, Spent
<1> QED BY <1>2, <1>3

\* Nothing is logged out at the start.
LEMMA UnpairedAtStart == Init => UnpairedInv
<1> SUFFICES ASSUME Init PROVE UnpairedInv
    OBVIOUS
<1>1. \A h \in Handler : op[h].pc = "idle"
  BY DEF Init, NoOp
<1>2. \A k \in Capsule : capsule[k].status # "logged_out"
  BY DEF Init, NoCapsule
<1> QED BY <1>1, <1>2, ServedAtStart DEF UnpairedInv, Unpaired

\* A session that was reported as logged out, by the phone or by an engine call,
\* holds neither a device that has keys nor the one whose keys were deleted until
\* its status changes: setLoggedOut swaps the device before anything can start or
\* pair the session with the old one.
THEOREM LoggedOutHasNoKeys == Spec => []LoggedOutIsUnpaired
<1>1. UnpairedInv => LoggedOutIsUnpaired
  BY DEF UnpairedInv, ServedInv, Unpaired, InUse, NoKeys, LoggedOutIsUnpaired, Spent
<1> QED BY <1>1, UnpairedAtStart, UnpairedStep, PTL DEF Spec

=============================================================================
