-------------------------- MODULE Enrollment_proofs -------------------------
(***************************************************************************)
(* What enrolment and renewal promise, for any number of handlers, tokens, *)
(* keys, operator transitions and faults: a consumed token has one         *)
(* certificate, the gateway's disk and the API's records agree, and a      *)
(* revocation is complete.                                                 *)
(*                                                                         *)
(* None of the three is inductive.  The records need to know that only the *)
(* newest token can be leased and that a gateway which may enrol has no    *)
(* usable certificate (Records).  The disk needs to know, of every CSR a   *)
(* handler is still at work on, that its key is kept (Kept), and of the    *)
(* answer the client waits for, that it is about the pending key (Client). *)
(***************************************************************************)
EXTENDS Enrollment, FiniteSetTheorems, WellFoundedInduction, TLAPS

GatewayRow == [status: Lifecycle \union {"pending_enrollment", "disabled"},
               enrolled: BOOLEAN, deleted: BOOLEAN, desired: {"run", "drain"}]
TokenRow == [status: {"none", "active", "redeeming", "consumed", "revoked", "locked"},
             attempts: 0..MaxAttempts, nonce: 0..MaxAttempts,
             csr: 0..MaxCsr, leased: BOOLEAN, expired: BOOLEAN]
CertRow == [kind: {"none", "enrollment", "renewal"}, token: 0..MaxTokens,
            serial: SerialType, revoked: BOOLEAN, expired: BOOLEAN, era: 0..MaxTokens]
Redeeming == {"acquire", "sign", "finalize", "recover", "release"}
Renewing == {"prepare", "renewsign", "renew", "settle"}
Work == [pc: {"idle", "answer"} \union Redeeming \union Renewing,
         token: 0..MaxTokens, csr: 0..MaxCsr, nonce: 0..MaxAttempts,
         incumbent: 0..MaxCsr, result: {"none", "ok", "retry", "denied"},
         serial: SerialType]
Volume == [made: 0..MaxCsr, lost: 0..MaxCsr, pending: 0..MaxCsr,
           gens: [Csr -> SerialType], current: 0..MaxCsr, previous: 0..MaxCsr]
Process == [phase: {"down", "enroll", "run", "lapsing", "generation",
                    "previous", "current", "clean"},
            token: 0..MaxTokens, active: 0..MaxCsr,
            waiting: Request \union {NoRequest}, serial: SerialType, conn: BOOLEAN]

\* TypeOK by the sets above.
Typed ==
    /\ gateway \in GatewayRow /\ issued \in Token
    /\ token \in [Token -> TokenRow] /\ cert \in [Csr -> CertRow]
    /\ request \in [Request -> Work] /\ disk \in Volume /\ node \in Process
    /\ placement \in [picked: BOOLEAN, assigned: BOOLEAN]
    /\ admin \in 0..MaxAdmin /\ faults \in 0..MaxFaults

-----------------------------------------------------------------------------
(***************************************************************************)
(* The records.                                                            *)
(***************************************************************************)
\* Tokens are issued in order, and only the newest can be leased.
NewestIsLive ==
    /\ \A t \in Token : t > issued => token[t].status = "none"
    /\ \A t \in Token : Live(t) => t = issued

\* Consumed tokens and enrolment certificates correspond.
Issuance ==
    /\ \A c \in Csr : cert[c].kind = "enrollment" =>
          cert[c].token \in Token /\ token[cert[c].token].status = "consumed"
    /\ \A t \in Token : token[t].status = "consumed" =>
          \E c \in Csr : cert[c].kind = "enrollment" /\ cert[c].token = t
    /\ \A c, d \in Csr :
          /\ cert[c].kind = "enrollment" /\ cert[d].kind = "enrollment"
          /\ cert[c].token = cert[d].token
          => c = d

AllRevoked == \A c \in Csr : Exists(c) => cert[c].revoked

\* A gateway that is to enrol, again or for the first time, has no usable
\* certificate.
Revocation ==
    /\ RevocationIsComplete
    /\ gateway.status = "pending_enrollment" => AllRevoked
    /\ ~gateway.enrolled => \A c \in Csr : ~Exists(c)

Records == NewestIsLive /\ Issuance /\ Revocation

-----------------------------------------------------------------------------
(***************************************************************************)
(* The keys, the handlers and the client.                                  *)
(***************************************************************************)
\* The key of CSR c was generated here and, unless it was on a volume that is
\* lost, is on the disk.
Kept(c) == c <= disk.made /\ (c > disk.lost => c = disk.pending \/ disk.gens[c] # NoSerial)

\* What a handler works from, and what it answers.
Sound(w) ==
    /\ w.pc # "idle" => w.csr \in Csr /\ Kept(w.csr)
    /\ w.pc \in Redeeming => w.token \in Token
    /\ w.pc \in Renewing => w.incumbent \in Csr
    /\ w.pc = "sign" => w.nonce # 0
    /\ w.pc \in {"finalize", "renew"} => w.serial # NoSerial
    /\ w.result = "ok" =>
          w.pc = "answer" /\ Exists(w.csr) /\ w.serial = cert[w.csr].serial

Keys ==
    /\ disk.pending <= disk.made
    /\ \A c \in Csr : Exists(c) => Kept(c) /\ cert[c].serial # NoSerial
    /\ \A c \in Csr :
          disk.gens[c] # NoSerial => Exists(c) /\ disk.gens[c] = cert[c].serial

\* The client waits for an answer about its pending key, and installs it.
Client ==
    /\ node.waiting # NoRequest => /\ node.phase \in {"enroll", "run"}
                                   /\ request[node.waiting].pc # "idle"
                                   /\ request[node.waiting].csr = disk.pending
    /\ node.phase = "generation" =>
          /\ disk.pending \in Csr /\ Exists(disk.pending)
          /\ node.serial = cert[disk.pending].serial
    /\ node.phase \in {"previous", "current", "clean"} =>
          disk.pending \in Csr /\ disk.gens[disk.pending] # NoSerial
    /\ node.phase = "enroll" => disk.pending \in Csr /\ node.token \in Token
    /\ node.phase \in {"run", "lapsing", "clean"} => node.active \in Csr

Handlers == \A r \in Request : Sound(request[r])

Inv == Typed /\ Records /\ Keys /\ Client /\ Handlers

-----------------------------------------------------------------------------
\* The constants' types.
LEMMA Constants ==
    /\ NoRequest \notin Request /\ MaxAttempts \in Nat \ {0} /\ MaxTokens \in Nat \ {0}
    /\ MaxCsr \in Nat /\ MaxAdmin \in Nat /\ MaxFaults \in Nat
    /\ Reported \subseteq Lifecycle
    /\ NoSerial \in SerialType /\ 0 \in 0..MaxCsr /\ 0 \in 0..MaxTokens /\ 0 \in 0..MaxAttempts
    /\ \A c \in Csr : c \in 0..MaxCsr /\ c \in Nat /\ c # NoCsr
    /\ \A c \in 0..MaxCsr : c # NoCsr => c \in Csr
    /\ \A t \in Token : t \in 0..MaxTokens /\ t \in Nat
BY EnrollmentAssumption DEF NoSerial, SerialType, Csr, Token, NoCsr, Lifecycle

\* The empty records.
LEMMA EmptyTypes ==
    /\ NoToken \in TokenRow /\ NoCert \in CertRow /\ NoWork \in Work
    /\ Down \in Process /\ EmptyDisk \in Volume
BY Constants DEF NoToken, TokenRow, NoCert, CertRow, NoWork, Work, Down, Process, EmptyDisk,
                 Volume, NoCsr

\* The gateway and its first token.
LEMMA InitInv == Init => Inv
<1> SUFFICES ASSUME Init PROVE Inv
  OBVIOUS
<1>1. 1 \in Token /\ \A t \in Token : t > 1 => t # 1
  BY Constants DEF Token
<1>2. [NoToken EXCEPT !.status = "active"] \in TokenRow
  BY EmptyTypes DEF TokenRow
<1>3. Typed
  BY <1>1, <1>2, EmptyTypes, Constants DEF Init, Typed, GatewayRow, Lifecycle
<1>4. Records
  <2>1. \A t \in Token : token[t].status = IF t = 1 THEN "active" ELSE "none"
    BY <1>1 DEF Init, NoToken
  <2>2. \A c \in Csr : cert[c].kind = "none"
    BY DEF Init, NoCert
  <2> QED BY <1>1, <2>1, <2>2 DEF Init, Records, NewestIsLive, Live, Issuance, Revocation,
              RevocationIsComplete, AllRevoked, Exists
<1>5. Keys
  BY Constants DEF Init, Keys, Exists, NoCert, EmptyDisk, NoCsr
<1>6. Client
  BY DEF Init, Client, Down
<1>7. Handlers
  BY DEF Init, Handlers, Sound, NoWork, Redeeming, Renewing
<1> QED BY <1>3, <1>4, <1>5, <1>6, <1>7 DEF Inv

-----------------------------------------------------------------------------
(***************************************************************************)
(* Frames: what leaves a part of the invariant alone.                      *)
(***************************************************************************)
\* Placements may end.
LEMMA RecordsFrame ==
    ASSUME Records, UNCHANGED mysql, placement'.assigned => placement.assigned
    PROVE  Records'
BY DEF Records, NewestIsLive, Issuance, Revocation, RevocationIsComplete, AllRevoked, Exists,
       Live, mysql

\* A token's lease changes, or it is locked or expires, but it is neither consumed
\* nor brought back to life.
LEMMA TokenRecords ==
    ASSUME Records, UNCHANGED <<gateway, issued, cert, placement>>,
           \A t \in Token : /\ token'[t].status = "consumed" <=> token[t].status = "consumed"
                            /\ token[t].status = "none" => token'[t].status = "none"
                            /\ Live(t)' => Live(t)
    PROVE  Records'
<1>1. NewestIsLive'
  BY DEF Records, NewestIsLive
<1>2. Issuance'
  BY DEF Records, Issuance
<1>3. Revocation'
  BY DEF Records, Revocation, RevocationIsComplete, AllRevoked, Exists
<1> QED BY <1>1, <1>2, <1>3 DEF Records

\* Certificates on record stay what they are; a new one is for a key that is
\* kept.
CertsGrow ==
    \A c \in Csr :
       /\ Exists(c) => Exists(c)' /\ cert'[c].serial = cert[c].serial
       /\ Exists(c)' /\ ~Exists(c) => Kept(c) /\ cert'[c].serial # NoSerial

\* No certificate changes.
LEMMA CertsFrame == cert' = cert => CertsGrow
BY DEF CertsGrow, Exists

\* The records change while the gateway does nothing; its stream may end.
LEMMA KeysFrame ==
    ASSUME Keys, CertsGrow, disk' = disk PROVE Keys' /\ \A c \in Csr : Kept(c) => Kept(c)'
BY DEF Keys, CertsGrow, Kept

\* A handler that is not concerned.
LEMMA SoundStays ==
    ASSUME NEW w \in Work, Sound(w), CertsGrow,
           \A c \in Csr : Kept(c) => Kept(c)'
    PROVE  Sound(w)'
<1>1. w.pc # "idle" => w.csr \in Csr /\ Kept(w.csr)'
  BY DEF Sound
<1>2. w.result = "ok" =>
        w.pc = "answer" /\ Exists(w.csr)' /\ w.serial = cert'[w.csr].serial
  BY <1>1 DEF Sound, CertsGrow
<1> QED BY <1>1, <1>2 DEF Sound

\* The gateway's process does nothing but lose or open its stream.
SameProcess ==
    /\ disk' = disk
    /\ node'.phase = node.phase /\ node'.token = node.token /\ node'.active = node.active
    /\ node'.waiting = node.waiting /\ node'.serial = node.serial

\* The answer the client waits for is still about its pending key.
LEMMA ClientFrame ==
    ASSUME Client, CertsGrow, SameProcess,
           node.waiting # NoRequest =>
              /\ request'[node.waiting].pc # "idle"
              /\ request'[node.waiting].csr = request[node.waiting].csr
    PROVE  Client'
BY DEF Client, CertsGrow, SameProcess

\* The handlers' state as a whole.
LEMMA WorkFrame ==
    ASSUME Inv, CertsGrow, SameProcess, request' = request
    PROVE  Keys' /\ Client' /\ Handlers'
<1>1. Keys' /\ \A c \in Csr : Kept(c) => Kept(c)'
  BY KeysFrame DEF Inv, SameProcess
<1>2. Client'
  BY ClientFrame DEF Inv, Client
<1>3. Handlers'
  BY <1>1, SoundStays DEF Inv, Typed, Handlers
<1> QED BY <1>1, <1>2, <1>3

\* Handler r goes on: its CSR stays, and what it has now is sound.
Moves(r, w) ==
    /\ w \in Work /\ request' = [request EXCEPT ![r] = w]
    /\ w.pc # "idle" /\ w.csr = request[r].csr

\* One handler moves, the others stay.
LEMMA HandlerFrame ==
    ASSUME Inv, NEW r \in Request, NEW w, Moves(r, w), Sound(w)', CertsGrow, SameProcess
    PROVE  Keys' /\ Client' /\ Handlers'
<1>1. Keys' /\ \A c \in Csr : Kept(c) => Kept(c)'
  BY KeysFrame DEF Inv, SameProcess
<1>2. \A q \in Request : request'[q] = IF q = r THEN w ELSE request[q]
  BY DEF Inv, Typed, Moves
<1>3. node.waiting # NoRequest => node.waiting \in Request
  BY DEF Inv, Typed, Process
<1>4. Client'
  BY <1>2, <1>3, ClientFrame DEF Inv, Client, Moves
<1>5. Handlers'
  <2> SUFFICES ASSUME NEW q \in Request PROVE Sound(request[q])'
    BY DEF Handlers
  <2>1. CASE q = r
    BY <1>2, <2>1 DEF Sound
  <2>2. CASE q # r
    <3>1. request[q] \in Work /\ Sound(request[q])
      BY DEF Inv, Typed, Handlers
    <3>2. PICK v \in Work : v = request[q]
      BY <3>1
    <3>3. Sound(v)'
      BY <1>1, <3>1, <3>2, SoundStays
    <3> QED BY <1>2, <2>2, <3>2, <3>3 DEF Sound
  <2> QED BY <2>1, <2>2
<1> QED BY <1>1, <1>4, <1>5

\* How a handler's record changes.
Became(r, w, pc, result, serial, nonce) ==
    /\ w.pc = pc /\ w.result = result /\ w.serial = serial /\ w.nonce = nonce
    /\ w.token = request[r].token /\ w.incumbent = request[r].incumbent

Onward == {"answer"} \union Redeeming \union Renewing
Outcome == {"none", "ok", "retry", "denied"}

\* The handler takes the next step.
LEMMA GoesMoves ==
    ASSUME Typed, NEW r \in Request, request[r].pc # "idle",
           NEW pc \in Onward,
           Goes(r, pc)
    PROVE  \E w \in Work : Moves(r, w) /\ Became(r, w, pc, request[r].result, request[r].serial, request[r].nonce)
<1> DEFINE v == [request[r] EXCEPT !.pc = pc]
<1>1. request[r] \in Work
  BY DEF Typed
<1>2. v \in Work
  BY <1>1 DEF Work, Onward, Outcome
<1>3. Became(r, v, pc, request[r].result, request[r].serial, request[r].nonce) /\ v.csr = request[r].csr
  BY <1>1 DEF Work, Became
<1>4. request' = [request EXCEPT ![r] = v]
  BY DEF Goes
<1>5. v.pc # "idle"
  BY <1>3 DEF Became, Onward, Redeeming, Renewing
<1> HIDE DEF v
<1> QED BY <1>2, <1>3, <1>4, <1>5 DEF Moves

\* The handler ends with an error.
LEMMA FailsMoves ==
    ASSUME Typed, NEW r \in Request, request[r].pc # "idle",
           NEW result \in Outcome,
           Fails(r, result)
    PROVE  \E w \in Work : Moves(r, w) /\ Became(r, w, "answer", result, request[r].serial, request[r].nonce)
<1> DEFINE v == [request[r] EXCEPT !.pc = "answer", !.result = result]
<1>1. request[r] \in Work
  BY DEF Typed
<1>2. v \in Work
  BY <1>1 DEF Work, Onward, Outcome
<1>3. Became(r, v, "answer", result, request[r].serial, request[r].nonce) /\ v.csr = request[r].csr
  BY <1>1 DEF Work, Became
<1>4. request' = [request EXCEPT ![r] = v]
  BY DEF Fails
<1>5. v.pc # "idle"
  BY <1>3 DEF Became, Onward, Redeeming, Renewing
<1> HIDE DEF v
<1> QED BY <1>2, <1>3, <1>4, <1>5 DEF Moves

\* The handler ends with a certificate.
LEMMA ReturnsMoves ==
    ASSUME Typed, NEW r \in Request, request[r].pc # "idle",
           NEW serial \in SerialType,
           Returns(r, serial)
    PROVE  \E w \in Work : Moves(r, w) /\ Became(r, w, "answer", "ok", serial, request[r].nonce)
<1> DEFINE v == [request[r] EXCEPT !.pc = "answer", !.result = "ok", !.serial = serial]
<1>1. request[r] \in Work
  BY DEF Typed
<1>2. v \in Work
  BY <1>1 DEF Work, Onward, Outcome
<1>3. Became(r, v, "answer", "ok", serial, request[r].nonce) /\ v.csr = request[r].csr
  BY <1>1 DEF Work, Became
<1>4. request' = [request EXCEPT ![r] = v]
  BY DEF Returns
<1>5. v.pc # "idle"
  BY <1>3 DEF Became, Onward, Redeeming, Renewing
<1> HIDE DEF v
<1> QED BY <1>2, <1>3, <1>4, <1>5 DEF Moves

\* The handler takes another path.
LEMMA TurnsMoves ==
    ASSUME Typed, NEW r \in Request, request[r].pc # "idle",
           NEW pc \in Onward, NEW result \in Outcome,
           request' = [request EXCEPT ![r] = [@ EXCEPT !.pc = pc, !.result = result]]
    PROVE  \E w \in Work : Moves(r, w) /\ Became(r, w, pc, result, request[r].serial, request[r].nonce)
<1> DEFINE v == [request[r] EXCEPT !.pc = pc, !.result = result]
<1>1. request[r] \in Work
  BY DEF Typed
<1>2. v \in Work
  BY <1>1 DEF Work, Onward, Outcome
<1>3. Became(r, v, pc, result, request[r].serial, request[r].nonce) /\ v.csr = request[r].csr
  BY <1>1 DEF Work, Became
<1>4. request' = [request EXCEPT ![r] = v]
  BY DEF Typed
<1>5. v.pc # "idle"
  BY <1>3 DEF Became, Onward, Redeeming, Renewing
<1> HIDE DEF v
<1> QED BY <1>2, <1>3, <1>4, <1>5 DEF Moves

\* The handler has a certificate signed.
LEMMA SignsMoves ==
    ASSUME Typed, NEW r \in Request, request[r].pc # "idle",
           NEW pc \in Onward, NEW serial \in SerialType,
           request' = [request EXCEPT ![r] = [@ EXCEPT !.pc = pc, !.serial = serial]]
    PROVE  \E w \in Work : Moves(r, w) /\ Became(r, w, pc, request[r].result, serial, request[r].nonce)
<1> DEFINE v == [request[r] EXCEPT !.pc = pc, !.serial = serial]
<1>1. request[r] \in Work
  BY DEF Typed
<1>2. v \in Work
  BY <1>1 DEF Work, Onward, Outcome
<1>3. Became(r, v, pc, request[r].result, serial, request[r].nonce) /\ v.csr = request[r].csr
  BY <1>1 DEF Work, Became
<1>4. request' = [request EXCEPT ![r] = v]
  BY DEF Typed
<1>5. v.pc # "idle"
  BY <1>3 DEF Became, Onward, Redeeming, Renewing
<1> HIDE DEF v
<1> QED BY <1>2, <1>3, <1>4, <1>5 DEF Moves

\* The handler has leased its token.
LEMMA LeasesMoves ==
    ASSUME Typed, NEW r \in Request, request[r].pc # "idle",
           NEW pc \in Onward, NEW nonce \in 0..MaxAttempts,
           request' = [request EXCEPT ![r] = [@ EXCEPT !.pc = pc, !.nonce = nonce]]
    PROVE  \E w \in Work : Moves(r, w) /\ Became(r, w, pc, request[r].result, request[r].serial, nonce)
<1> DEFINE v == [request[r] EXCEPT !.pc = pc, !.nonce = nonce]
<1>1. request[r] \in Work
  BY DEF Typed
<1>2. v \in Work
  BY <1>1 DEF Work, Onward, Outcome
<1>3. Became(r, v, pc, request[r].result, request[r].serial, nonce) /\ v.csr = request[r].csr
  BY <1>1 DEF Work, Became
<1>4. request' = [request EXCEPT ![r] = v]
  BY DEF Typed
<1>5. v.pc # "idle"
  BY <1>3 DEF Became, Onward, Redeeming, Renewing
<1> HIDE DEF v
<1> QED BY <1>2, <1>3, <1>4, <1>5 DEF Moves

-----------------------------------------------------------------------------
(***************************************************************************)
(* The handlers.                                                           *)
(***************************************************************************)
\* The bounds on faults and operator transitions.
LEMMA BooksTyped ==
    ASSUME Typed,
           UNCHANGED books \/ (Fault /\ admin' = admin) \/ (Operator /\ faults' = faults)
    PROVE  admin' \in 0..MaxAdmin /\ faults' \in 0..MaxFaults
BY Constants DEF Typed, books, Fault, Operator

\* A step that concerns nothing but a handler.
LEMMA RequestOnly ==
    ASSUME Inv, NEW r \in Request, NEW w, Moves(r, w), Sound(w),
           UNCHANGED <<mysql, process, placement>>,
           UNCHANGED books \/ (Fault /\ admin' = admin)
    PROVE  Inv'
<1>1. request' \in [Request -> Work]
  BY DEF Inv, Typed, Moves
<1>2. Typed'
  BY <1>1, BooksTyped DEF Inv, Typed, mysql, process
<1>3. Records'
  BY RecordsFrame DEF Inv
<1>4. CertsGrow /\ SameProcess
  BY CertsFrame DEF mysql, process, SameProcess
<1>5. Sound(w)'
  BY DEF Sound, Kept, Exists, mysql, process
<1> QED BY <1>2, <1>3, <1>4, <1>5, HandlerFrame DEF Inv

\* What a handler knows of itself.
LEMMA Knows ==
    ASSUME Inv, NEW r \in Request, request[r].pc # "idle"
    PROVE  /\ request[r] \in Work /\ Sound(request[r])
           /\ request[r].csr \in Csr /\ Kept(request[r].csr)
           /\ request[r].serial \in SerialType /\ request[r].nonce \in 0..MaxAttempts
           /\ request[r].result \in Outcome
           /\ cert[request[r].csr] \in CertRow /\ cert[request[r].csr].serial \in SerialType
<1>1. request[r] \in Work /\ Sound(request[r])
  BY DEF Inv, Typed, Handlers
<1>2. request[r].csr \in Csr /\ Kept(request[r].csr)
  BY <1>1 DEF Sound
<1>3. cert[request[r].csr] \in CertRow
  BY <1>2 DEF Inv, Typed
<1> QED BY <1>1, <1>2, <1>3 DEF Work, CertRow, Outcome

\* An error or a further step without a new certificate, and a replay.
LEMMA SoundFailure ==
    ASSUME Inv, NEW r \in Request, request[r].pc # "idle", NEW w,
           NEW result \in Outcome \ {"ok"}, NEW nonce,
           Moves(r, w), Became(r, w, "answer", result, request[r].serial, nonce)
    PROVE  Sound(w)
BY Knows DEF Moves, Became, Sound, Redeeming, Renewing

\* An answer with the recorded certificate.
LEMMA SoundAnswer ==
    ASSUME Inv, NEW r \in Request, request[r].pc # "idle", NEW w, NEW nonce,
           Exists(request[r].csr),
           Moves(r, w), Became(r, w, "answer", "ok", cert[request[r].csr].serial, nonce)
    PROVE  Sound(w)
BY Knows DEF Moves, Became, Sound, Redeeming, Renewing

\* The handlers' steps outside MySQL, or that only read.
LEMMA SignStep ==
    ASSUME Inv, NEW r \in Request, Sign(r) \/ SignRenewal(r) PROVE Inv'
<1>0. request[r].pc # "idle" /\ UNCHANGED <<mysql, process, placement, books>>
  BY DEF Sign, SignRenewal
<1>1. CASE Sign(r)
  <2> DEFINE serial == [attempt |-> request[r].nonce, by |-> NoRequest]
  <2>1. /\ serial \in SerialType /\ serial # NoSerial
        /\ request' = [request EXCEPT ![r] = [@ EXCEPT !.pc = "finalize", !.serial = serial]]
        /\ request[r].pc = "sign" /\ request[r].result # "ok"
    BY <1>0, <1>1, Knows DEF Sign, SerialType, NoSerial, Sound
  <2> HIDE DEF serial
  <2>2. PICK w \in Work : /\ Moves(r, w)
                          /\ Became(r, w, "finalize", request[r].result, serial, request[r].nonce)
    BY <1>0, <2>1, SignsMoves DEF Inv, Onward, Redeeming
  <2>3. Sound(w)
    BY <1>0, <2>1, <2>2, Knows DEF Moves, Became, Sound, Redeeming, Renewing
  <2> QED BY <1>0, <2>2, <2>3, RequestOnly
<1>2. CASE SignRenewal(r)
  <2> DEFINE serial == [attempt |-> 0, by |-> r]
  <2>1. /\ serial \in SerialType /\ serial # NoSerial
        /\ request' = [request EXCEPT ![r] = [@ EXCEPT !.pc = "renew", !.serial = serial]]
        /\ request[r].pc = "renewsign" /\ request[r].result # "ok"
    BY <1>0, <1>2, Knows, Constants DEF SignRenewal, SerialType, NoSerial, Sound
  <2> HIDE DEF serial
  <2>2. PICK w \in Work : /\ Moves(r, w)
                          /\ Became(r, w, "renew", request[r].result, serial, request[r].nonce)
    BY <1>0, <2>1, SignsMoves DEF Inv, Onward, Renewing
  <2>3. Sound(w)
    BY <1>0, <2>1, <2>2, Knows DEF Moves, Became, Sound, Redeeming, Renewing
  <2> QED BY <1>0, <2>2, <2>3, RequestOnly
<1> QED BY <1>1, <1>2

\* A handler dies, or its signer fails.
LEMMA FailStep ==
    ASSUME Inv, NEW r \in Request, SignRenewalFails(r) \/ HandlerDies(r) PROVE Inv'
<1>1. /\ request[r].pc # "idle" /\ UNCHANGED <<mysql, process, placement, admin>> /\ Fault
      /\ Fails(r, "retry")
  BY DEF SignRenewalFails, HandlerDies
<1>2. "retry" \in Outcome \ {"ok"} /\ "retry" \in Outcome
  BY DEF Outcome
<1>3. PICK w \in Work :
        /\ Moves(r, w)
        /\ Became(r, w, "answer", "retry", request[r].serial, request[r].nonce)
  BY <1>1, <1>2, FailsMoves DEF Inv
<1>4. Sound(w)
  BY <1>1, <1>2, <1>3, SoundFailure
<1> QED BY <1>1, <1>3, <1>4, RequestOnly

\* The handler turns to recovery, release or the second look.
LEMMA TurnStep ==
    ASSUME Inv, NEW r \in Request,
           SignFails(r) \/ FinalizeRefused(r) \/ FinalizeRenewalRefused(r)
    PROVE  Inv'
<1>1. /\ UNCHANGED <<mysql, process, placement>>
      /\ UNCHANGED books \/ (Fault /\ admin' = admin)
      /\ request[r].pc # "idle"
  BY DEF SignFails, FinalizeRefused, FinalizeRenewalRefused
<1>2. ASSUME NEW pc \in {"release", "recover", "settle"}, NEW result \in Outcome \ {"ok"},
             request' = [request EXCEPT ![r] = [@ EXCEPT !.pc = pc, !.result = result]],
             pc \in {"release", "recover"} => request[r].pc \in Redeeming,
             pc = "settle" => request[r].pc \in Renewing
      PROVE  Inv'
  <2>1. PICK w \in Work : /\ Moves(r, w)
                          /\ Became(r, w, pc, result, request[r].serial, request[r].nonce)
    BY <1>1, <1>2, TurnsMoves DEF Inv, Onward, Redeeming, Renewing
  <2>2. Sound(w)
    BY <1>1, <1>2, <2>1, Knows DEF Moves, Became, Sound, Redeeming, Renewing
  <2> QED BY <1>1, <2>1, <2>2, RequestOnly
<1>3. CASE SignFails(r)
  <2>1. /\ "retry" \in Outcome \ {"ok"} /\ request[r].pc \in Redeeming
        /\ request' = [request EXCEPT ![r] = [@ EXCEPT !.pc = "release", !.result = "retry"]]
    BY <1>3 DEF SignFails, Outcome, Redeeming
  <2> QED BY <1>2, <2>1
<1>4. CASE FinalizeRefused(r)
  <2> DEFINE result == IF Holds(r) /\ token[request[r].token].leased
                          /\ Collides(r) /\ ~OwnRow(r) THEN "retry" ELSE "denied"
  <2>1. /\ result \in Outcome \ {"ok"} /\ request[r].pc \in Redeeming
        /\ request' = [request EXCEPT ![r] = [@ EXCEPT !.pc = "recover", !.result = result]]
    BY <1>4 DEF FinalizeRefused, Outcome, Redeeming
  <2> HIDE DEF result
  <2> QED BY <1>2, <2>1
<1>5. CASE FinalizeRenewalRefused(r)
  <2>1. /\ "denied" \in Outcome \ {"ok"} /\ request[r].pc \in Renewing
        /\ request' = [request EXCEPT ![r] = [@ EXCEPT !.pc = "settle", !.result = "denied"]]
    BY <1>5 DEF FinalizeRenewalRefused, Settles, Outcome, Renewing
  <2> QED BY <1>2, <2>1
<1> QED BY <1>3, <1>4, <1>5

\* recoverCommitted.
LEMMA RecoverStep == ASSUME Inv, NEW r \in Request, Recover(r) PROVE Inv'
<1>1. /\ request[r].pc = "recover" /\ request[r].pc # "idle"
      /\ UNCHANGED <<mysql, process, placement, books>>
  BY DEF Recover
<1>2. CASE Exists(request[r].csr) /\ Returns(r, cert[request[r].csr].serial)
  <2> DEFINE serial == cert[request[r].csr].serial
  <2>1. serial \in SerialType /\ Returns(r, serial)
    BY <1>1, <1>2, Knows
  <2> HIDE DEF serial
  <2>2. PICK w \in Work : Moves(r, w) /\ Became(r, w, "answer", "ok", serial, request[r].nonce)
    BY <1>1, <2>1, ReturnsMoves DEF Inv
  <2>3. Sound(w)
    BY <1>1, <1>2, <2>2, SoundAnswer DEF serial
  <2> QED BY <1>1, <2>2, <2>3, RequestOnly
<1>3. CASE Goes(r, "release")
  <2>1. PICK w \in Work :
          /\ Moves(r, w)
          /\ Became(r, w, "release", request[r].result, request[r].serial, request[r].nonce)
    BY <1>1, <1>3, GoesMoves DEF Inv, Onward, Redeeming
  <2>2. Sound(w)
    BY <1>1, <2>1, Knows DEF Moves, Became, Sound, Redeeming, Renewing
  <2> QED BY <1>1, <2>1, <2>2, RequestOnly
<1> QED BY <1>2, <1>3 DEF Recover, Replayable, Exists

\* PrepareRenewal, before signing or to settle.
LEMMA PrepareStep == ASSUME Inv, NEW r \in Request, PrepareRenewal(r) PROVE Inv'
<1>1. /\ request[r].pc \in {"prepare", "settle"} /\ request[r].pc # "idle"
      /\ UNCHANGED <<mysql, process, placement, books>>
  BY DEF PrepareRenewal
<1>2. CASE Exists(request[r].csr) /\ Returns(r, cert[request[r].csr].serial)
  <2> DEFINE serial == cert[request[r].csr].serial
  <2>1. serial \in SerialType /\ Returns(r, serial)
    BY <1>1, <1>2, Knows
  <2> HIDE DEF serial
  <2>2. PICK w \in Work : Moves(r, w) /\ Became(r, w, "answer", "ok", serial, request[r].nonce)
    BY <1>1, <2>1, ReturnsMoves DEF Inv
  <2>3. Sound(w)
    BY <1>1, <1>2, <2>2, SoundAnswer DEF serial
  <2> QED BY <1>1, <2>2, <2>3, RequestOnly
<1>3. CASE request[r].pc = "prepare" /\ Goes(r, "renewsign")
  <2>1. PICK w \in Work :
          /\ Moves(r, w)
          /\ Became(r, w, "renewsign", request[r].result, request[r].serial, request[r].nonce)
    BY <1>1, <1>3, GoesMoves DEF Inv, Onward, Renewing
  <2>2. Sound(w)
    BY <1>1, <1>3, <2>1, Knows DEF Moves, Became, Sound, Redeeming, Renewing
  <2> QED BY <1>1, <2>1, <2>2, RequestOnly
<1>4. ASSUME NEW result \in Outcome \ {"ok"}, Fails(r, result) PROVE Inv'
  <2>1. PICK w \in Work :
          /\ Moves(r, w)
          /\ Became(r, w, "answer", result, request[r].serial, request[r].nonce)
    BY <1>1, <1>4, FailsMoves DEF Inv
  <2>2. Sound(w)
    BY <1>1, <2>1, SoundFailure
  <2> QED BY <1>1, <2>1, <2>2, RequestOnly
<1>5. request[r].result \in Outcome \ {"ok"} /\ "denied" \in Outcome \ {"ok"}
  BY <1>1, Knows DEF Sound, Outcome
<1> QED BY <1>2, <1>3, <1>4, <1>5 DEF PrepareRenewal

\* A token's lease begins or ends, or the token is locked or expires, under a
\* handler or by itself.
LEMMA TokenOnly ==
    ASSUME Inv, NEW t \in Token, NEW v \in TokenRow,
           token' = token \/ token' = [token EXCEPT ![t] = v],
           \/ v.status = token[t].status
           \/ Live(t) /\ v.status \in {"active", "redeeming", "locked"},
           UNCHANGED <<gateway, issued, cert, process, placement>>,
           UNCHANGED books \/ (Fault /\ admin' = admin),
           \/ request' = request
           \/ \E r \in Request, w \in Work : Moves(r, w) /\ Sound(w)
    PROVE  Inv'
<1>1. token \in [Token -> TokenRow] /\ token' \in [Token -> TokenRow]
  BY DEF Inv, Typed
<1>2. \A s \in Token : token'[s] = token[s] \/ (s = t /\ token'[s] = v)
  BY <1>1
<1>3. Records'
  BY <1>2, TokenRecords DEF Inv, Live
<1>4. CertsGrow /\ SameProcess
  BY CertsFrame DEF process, SameProcess
<1>5. CASE request' = request
  <2>1. Typed'
    BY <1>1, <1>5, BooksTyped DEF Inv, Typed, process
  <2> QED BY <1>3, <1>4, <1>5, <2>1, WorkFrame DEF Inv
<1>6. ASSUME NEW r \in Request, NEW w \in Work, Moves(r, w), Sound(w) PROVE Inv'
  <2>1. request' \in [Request -> Work]
    BY <1>6 DEF Inv, Typed, Moves
  <2>2. Typed'
    BY <1>1, <2>1, BooksTyped DEF Inv, Typed, process
  <2>3. Sound(w)'
    BY <1>6 DEF Sound, Kept, Exists, process
  <2> QED BY <1>3, <1>4, <1>6, <2>2, <2>3, HandlerFrame DEF Inv
<1> QED BY <1>5, <1>6

\* A lease that is taken back.
LEMMA UnleasedTyped ==
    ASSUME NEW tok \in TokenRow,
           NEW status \in {"active", "consumed", "revoked", "locked"}
    PROVE  Unleased(tok, status) \in TokenRow /\ Unleased(tok, status).status = status
BY Constants DEF Unleased, TokenRow, NoCsr

\* AcquireEnrollmentLease: a replay, a refusal, a lock or a lease.
LEMMA AcquireStep == ASSUME Inv, NEW r \in Request, Acquire(r) PROVE Inv'
<1> DEFINE t == request[r].token
           c == request[r].csr
<1>1. /\ request[r].pc = "acquire" /\ request[r].pc # "idle"
      /\ UNCHANGED <<gateway, issued, cert, process, placement, books>>
  BY DEF Acquire
<1>2. /\ t \in Token /\ c \in Csr /\ token[t] \in TokenRow /\ token \in [Token -> TokenRow]
      /\ request[r].result # "ok"
  BY <1>1, Knows DEF Sound, Redeeming, Inv, Typed
<1>3. ASSUME NEW result \in Outcome \ {"ok"}, Fails(r, result)
      PROVE  \E q \in Request, w \in Work : Moves(q, w) /\ Sound(w)
  <2>1. PICK w \in Work :
          /\ Moves(r, w)
          /\ Became(r, w, "answer", result, request[r].serial, request[r].nonce)
    BY <1>1, <1>3, FailsMoves DEF Inv
  <2>2. Sound(w)
    BY <1>1, <2>1, SoundFailure
  <2> QED BY <2>1, <2>2
<1>4. "retry" \in Outcome \ {"ok"} /\ "denied" \in Outcome \ {"ok"}
  BY DEF Outcome
<1> HIDE DEF t, c
<1>5. ASSUME \E q \in Request, w \in Work : Moves(q, w) /\ Sound(w), token' = token
      PROVE  Inv'
  BY <1>1, <1>2, <1>5, TokenOnly
<1>6. CASE Exists(c) /\ Returns(r, cert[c].serial) /\ token' = token
  <2> DEFINE serial == cert[c].serial
  <2>1. serial \in SerialType /\ Returns(r, serial)
    BY <1>1, <1>6, Knows DEF c
  <2> HIDE DEF serial
  <2>2. PICK w \in Work : Moves(r, w) /\ Became(r, w, "answer", "ok", serial, request[r].nonce)
    BY <1>1, <2>1, ReturnsMoves DEF Inv
  <2>3. Sound(w)
    BY <1>1, <1>6, <2>2, SoundAnswer DEF serial, c
  <2> QED BY <1>5, <1>6, <2>2, <2>3
<1>7. CASE \E result \in Outcome \ {"ok"} : Fails(r, result) /\ token' = token
  BY <1>3, <1>5, <1>7
<1>8. CASE /\ Live(t) /\ Fails(r, "retry")
           /\ token' = [token EXCEPT ![t] =
                [Unleased(token[t], "locked") EXCEPT !.attempts = MaxAttempts]]
  <2> DEFINE u == Unleased(token[t], "locked")
             v == [u EXCEPT !.attempts = MaxAttempts]
  <2>1. u \in TokenRow /\ u.status = "locked"
    BY <1>2, UnleasedTyped
  <2> HIDE DEF u
  <2>2. v \in TokenRow /\ v.status = "locked"
    BY <2>1, Constants DEF TokenRow
  <2>3. token' = [token EXCEPT ![t] = v]
    BY <1>8 DEF u
  <2> HIDE DEF v
  <2>4. \E q \in Request, w \in Work : Moves(q, w) /\ Sound(w)
    BY <1>3, <1>4, <1>8
  <2> QED BY <1>1, <1>2, <1>8, <2>2, <2>3, <2>4, TokenOnly
<1>9. CASE /\ Live(t) /\ token[t].attempts < MaxAttempts /\ Begin(t, c)
           /\ request' = [request EXCEPT ![r] =
                 [@ EXCEPT !.pc = "sign", !.nonce = token[t].attempts + 1]]
  <2> DEFINE nonce == token[t].attempts + 1
             v == [token[t] EXCEPT !.status = "redeeming", !.csr = c, !.leased = TRUE,
                                   !.attempts = token[t].attempts + 1, !.nonce = nonce]
  <2>1. nonce \in 0..MaxAttempts /\ nonce # 0 /\ token[t].attempts \in Nat
    BY <1>2, <1>9, Constants DEF TokenRow
  <2>2. v \in TokenRow /\ v.status = "redeeming"
    BY <1>2, <2>1, Constants DEF TokenRow
  <2>3. token' = [token EXCEPT ![t] = v]
    BY <1>9 DEF Begin
  <2>4. request' = [request EXCEPT ![r] = [@ EXCEPT !.pc = "sign", !.nonce = nonce]]
    BY <1>9
  <2> HIDE DEF v, nonce
  <2>5. PICK w \in Work : /\ Moves(r, w)
                          /\ Became(r, w, "sign", request[r].result, request[r].serial, nonce)
    BY <1>1, <2>1, <2>4, LeasesMoves DEF Inv, Onward, Redeeming
  <2>6. Sound(w)
    BY <1>1, <1>2, <2>1, <2>5, Knows DEF Moves, Became, Sound, Redeeming, Renewing, t
  <2> QED BY <1>1, <1>2, <1>9, <2>2, <2>3, <2>5, <2>6, TokenOnly
<1>10. \/ Exists(c) /\ Returns(r, cert[c].serial) /\ token' = token
       \/ Fails(r, "denied") /\ token' = token
       \/ Fails(r, "retry") /\ token' = token
       \/ /\ Live(t) /\ Fails(r, "retry")
          /\ token' = [token EXCEPT ![t] =
                [Unleased(token[t], "locked") EXCEPT !.attempts = MaxAttempts]]
       \/ /\ Live(t) /\ token[t].attempts < MaxAttempts /\ Begin(t, c)
          /\ request' = [request EXCEPT ![r] =
                [@ EXCEPT !.pc = "sign", !.nonce = token[t].attempts + 1]]
  BY DEF Acquire, Replayable, Exists, t, c
<1> QED BY <1>4, <1>6, <1>7, <1>8, <1>9, <1>10

\* ReleaseEnrollmentLease.
LEMMA ReleaseStep == ASSUME Inv, NEW r \in Request, Release(r) PROVE Inv'
<1> DEFINE t == request[r].token
           v == Unleased(token[t], "active")
<1>1. /\ request[r].pc = "release" /\ request[r].pc # "idle" /\ Goes(r, "answer")
      /\ UNCHANGED <<gateway, issued, cert, process, placement, books>>
      /\ token' = IF Holds(r) /\ token[t].leased THEN [token EXCEPT ![t] = v] ELSE token
  BY DEF Release
<1>2. t \in Token /\ token[t] \in TokenRow /\ request[r].result # "ok"
  BY <1>1, Knows DEF Sound, Redeeming, Inv, Typed
<1>3. v \in TokenRow /\ v.status = "active"
  BY <1>2, UnleasedTyped
<1>4. PICK w \in Work :
        /\ Moves(r, w)
        /\ Became(r, w, "answer", request[r].result, request[r].serial, request[r].nonce)
  BY <1>1, GoesMoves DEF Inv, Onward
<1>5. Sound(w)
  BY <1>1, <1>2, <1>4, Knows DEF Moves, Became, Sound, Redeeming, Renewing
<1>6. Holds(r) => Live(t)
  BY DEF Holds, Live
<1> HIDE DEF v, t
<1>7. CASE Holds(r) /\ token[t].leased
  BY <1>1, <1>2, <1>3, <1>4, <1>5, <1>6, <1>7, TokenOnly
<1>8. CASE ~(Holds(r) /\ token[t].leased)
  BY <1>1, <1>2, <1>4, <1>5, <1>8, TokenOnly
<1> QED BY <1>7, <1>8

\* An invalid CSR, a lease that runs out and a token that expires.
LEMMA TokenAlone ==
    ASSUME Inv, NEW t \in Token, AcquireInvalidCSR(t) \/ LeaseRunsOut(t) \/ TokenExpires(t)
    PROVE  Inv'
<1>1. token[t] \in TokenRow
  BY DEF Inv, Typed
<1>2. CASE AcquireInvalidCSR(t)
  <2> DEFINE n == token[t].attempts + 1
             status == IF n >= MaxAttempts THEN "locked" ELSE "active"
             v == [token[t] EXCEPT !.attempts = n, !.status = status]
  <2>0. n \in 0..MaxAttempts /\ status \in {"active", "locked"}
    BY <1>1, <1>2, Constants DEF TokenRow, AcquireInvalidCSR
  <2>1. v \in TokenRow /\ v.status \in {"active", "locked"}
    <3> HIDE DEF n, status
    <3> QED BY <1>1, <2>0 DEF TokenRow
  <2>2. token' = [token EXCEPT ![t] = v] /\ Live(t)
    BY <1>2 DEF AcquireInvalidCSR, Live
  <2>3. /\ UNCHANGED <<gateway, issued, cert, process, placement>> /\ request' = request
        /\ Fault /\ admin' = admin
    BY <1>2 DEF AcquireInvalidCSR
  <2> HIDE DEF v
  <2> QED BY <2>1, <2>2, <2>3, TokenOnly
<1>3. CASE LeaseRunsOut(t)
  <2> DEFINE v == [token[t] EXCEPT !.leased = FALSE]
  <2>1. v \in TokenRow /\ v.status = token[t].status
    BY <1>1 DEF TokenRow
  <2>2. /\ token' = [token EXCEPT ![t] = v] /\ request' = request /\ UNCHANGED books
        /\ UNCHANGED <<gateway, issued, cert, process, placement>>
    BY <1>3 DEF LeaseRunsOut
  <2> HIDE DEF v
  <2> QED BY <2>1, <2>2, TokenOnly
<1>4. CASE TokenExpires(t)
  <2> DEFINE v == [token[t] EXCEPT !.expired = TRUE]
  <2>1. v \in TokenRow /\ v.status = token[t].status
    BY <1>1 DEF TokenRow
  <2>2. /\ token' = [token EXCEPT ![t] = v] /\ request' = request /\ Fault /\ admin' = admin
        /\ UNCHANGED <<gateway, issued, cert, process, placement>>
    BY <1>4 DEF TokenExpires
  <2> HIDE DEF v
  <2> QED BY <2>1, <2>2, TokenOnly
<1> QED BY <1>2, <1>3, <1>4

-----------------------------------------------------------------------------
\* A certificate row is new.
NewCert(c, n) ==
    /\ c \in Csr /\ n \in CertRow /\ n.kind # "none" /\ ~n.revoked /\ n.serial # NoSerial
    /\ cert' = [cert EXCEPT ![c] = n]

\* A transaction that adds certificate n, as the handlers and the client see it.
LEMMA CertAdded ==
    ASSUME Inv, NEW c, NEW n, NewCert(c, n), ~Exists(c), Kept(c)
    PROVE  /\ cert' \in [Csr -> CertRow] /\ CertsGrow /\ Exists(c)' /\ cert'[c] = n
           /\ \A d \in Csr : d # c => cert'[d] = cert[d]
<1>1. cert \in [Csr -> CertRow]
  BY DEF Inv, Typed
<1>2. /\ cert' \in [Csr -> CertRow] /\ cert'[c] = n
      /\ \A d \in Csr : d # c => cert'[d] = cert[d]
  BY <1>1 DEF NewCert
<1>3. Exists(c)' /\ CertsGrow
  BY <1>2 DEF CertsGrow, Exists, NewCert
<1> QED BY <1>2, <1>3

\* The second transaction of an enrolment: a token that is leased has no
\* certificate yet, so the row is new and the gateway was to enrol.
LEMMA FinalizeRecords ==
    ASSUME Inv, NEW r \in Request, request[r].pc = "finalize", FinalizeEnrollmentIssuance(r)
    PROVE  /\ Records' \/ placement' # placement
           /\ gateway' \in GatewayRow /\ issued' \in Token
           /\ token' \in [Token -> TokenRow] /\ cert' \in [Csr -> CertRow]
           /\ CertsGrow /\ cert'[request[r].csr].kind # "none"
           /\ cert'[request[r].csr].serial \in SerialType
<1>a. PICK t : t = request[r].token
  OBVIOUS
<1>b. PICK c : c = request[r].csr
  OBVIOUS
<1>c. PICK n : n = [NoCert EXCEPT !.kind = "enrollment", !.token = t,
                                  !.serial = request[r].serial, !.era = t]
  OBVIOUS
<1>d. PICK v : v = Unleased(token[t], "consumed")
  OBVIOUS
<1>1. /\ t \in Token /\ c \in Csr /\ Kept(c) /\ request[r].serial \in SerialType
      /\ request[r].serial # NoSerial
  BY <1>a, <1>b, Knows DEF Sound, Redeeming
<1>2. /\ gateway \in GatewayRow /\ issued \in Token
      /\ token \in [Token -> TokenRow] /\ cert \in [Csr -> CertRow] /\ token[t] \in TokenRow
      /\ NewestIsLive /\ Issuance /\ Revocation
  BY <1>1 DEF Inv, Typed, Records
<1>3. Holds(r) /\ token[t].status = "redeeming" /\ CanFinalize(r)
  BY <1>a DEF FinalizeEnrollmentIssuance, CanFinalize, Holds
<1>4. ~Collides(r) /\ ~Exists(c)
  <2>1. ~OwnRow(r)
    BY <1>a, <1>b, <1>1, <1>2, <1>3 DEF OwnRow, Issuance
  <2> QED BY <1>b, <1>3, <2>1 DEF CanFinalize, Collides
<1>5. gatewayPending /\ gateway.status = "pending_enrollment" /\ ~gateway.deleted
  BY <1>3, <1>4 DEF CanFinalize, gatewayPending
<1>6. t = issued
  BY <1>1, <1>2, <1>3 DEF NewestIsLive, Live
<1>7. /\ n \in CertRow /\ n.kind = "enrollment" /\ n.token = t /\ n.era = t
      /\ n.serial = request[r].serial /\ ~n.revoked
  BY <1>c, <1>1, EmptyTypes, Constants DEF CertRow, NoCert
<1>8. v \in TokenRow /\ v.status = "consumed"
  BY <1>d, <1>2, UnleasedTyped
<1>9. /\ cert' = [cert EXCEPT ![c] = n] /\ token' = [token EXCEPT ![t] = v]
      /\ issued' = issued
      /\ gateway' = [gateway EXCEPT !.status = "joining", !.enrolled = @ \/ gatewayPending]
  BY <1>a, <1>b, <1>c, <1>d, <1>4 DEF FinalizeEnrollmentIssuance
<1>10. /\ gateway' \in GatewayRow /\ gateway'.status = "joining" /\ gateway'.enrolled
       /\ ~gateway'.deleted
  BY <1>2, <1>5, <1>9 DEF GatewayRow, Lifecycle
<1>11. NewCert(c, n)
  BY <1>1, <1>7, <1>9 DEF NewCert
<1>12. /\ cert' \in [Csr -> CertRow] /\ CertsGrow /\ Exists(c)' /\ cert'[c] = n
       /\ \A d \in Csr : d # c => cert'[d] = cert[d]
  BY <1>1, <1>4, <1>11, CertAdded
<1>13. /\ token' \in [Token -> TokenRow] /\ token'[t] = v
       /\ \A s \in Token : s # t => token'[s] = token[s]
  BY <1>1, <1>2, <1>8, <1>9
<1>14. NewestIsLive'
  BY <1>2, <1>6, <1>8, <1>9, <1>13, Constants DEF NewestIsLive, Live
<1>15. Issuance'
  <2>1. \A d \in Csr : d # c /\ cert[d].kind = "enrollment" => cert[d].token # t
    BY <1>2, <1>3 DEF Issuance
  <2>2. ASSUME NEW d \in Csr, cert'[d].kind = "enrollment"
        PROVE  cert'[d].token \in Token /\ token'[cert'[d].token].status = "consumed"
    <3>1. CASE d = c
      BY <1>1, <1>7, <1>8, <1>12, <1>13, <3>1
    <3>2. CASE d # c
      BY <1>2, <1>12, <1>13, <2>1, <2>2, <3>2 DEF Issuance
    <3> QED BY <3>1, <3>2
  <2>3. ASSUME NEW s \in Token, token'[s].status = "consumed"
        PROVE  \E d \in Csr : cert'[d].kind = "enrollment" /\ cert'[d].token = s
    <3>1. CASE s = t
      BY <1>1, <1>7, <1>12, <3>1
    <3>2. CASE s # t
      <4>1. PICK d \in Csr : cert[d].kind = "enrollment" /\ cert[d].token = s
        BY <1>2, <1>13, <2>3, <3>2 DEF Issuance
      <4>2. d # c
        BY <1>4, <4>1 DEF Exists
      <4> QED BY <1>12, <4>1, <4>2
    <3> QED BY <3>1, <3>2
  <2>4. ASSUME NEW d \in Csr, NEW e \in Csr,
               cert'[d].kind = "enrollment", cert'[e].kind = "enrollment",
               cert'[d].token = cert'[e].token
        PROVE  d = e
    BY <1>2, <1>7, <1>12, <2>1, <2>4 DEF Issuance
  <2> QED BY <2>2, <2>3, <2>4 DEF Issuance
<1>16. placement' = placement => Revocation'
  <2>1. \A d \in Csr : Exists(d)' /\ ~cert'[d].revoked => cert'[d].era = issued'
    BY <1>2, <1>6, <1>7, <1>9, <1>12 DEF Revocation, RevocationIsComplete, Exists
  <2> QED BY <1>10, <2>1 DEF Revocation, RevocationIsComplete
<1> QED BY <1>1, <1>2, <1>7, <1>9, <1>10, <1>12, <1>13, <1>14, <1>15, <1>16, <1>b DEF Records, Exists

\* The commit, known to the handler or not.
LEMMA FinalizeStep ==
    ASSUME Inv, NEW r \in Request, Finalize(r) \/ FinalizeAmbiguous(r) PROVE Inv'
<1>a. PICK c : c = request[r].csr
  OBVIOUS
<1>b. PICK serial : serial = cert'[c].serial
  OBVIOUS
<1>1. /\ request[r].pc = "finalize" /\ request[r].pc # "idle" /\ FinalizeEnrollmentIssuance(r)
      /\ UNCHANGED <<process, placement>>
      /\ UNCHANGED books \/ (Fault /\ admin' = admin)
  BY DEF Finalize, FinalizeAmbiguous
<1>2. /\ Records' /\ gateway' \in GatewayRow /\ issued' \in Token
      /\ token' \in [Token -> TokenRow] /\ cert' \in [Csr -> CertRow]
      /\ CertsGrow /\ Exists(c)' /\ serial \in SerialType
  BY <1>a, <1>b, <1>1, FinalizeRecords DEF Exists
<1>3. /\ c \in Csr /\ Kept(c)' /\ SameProcess /\ request[r].token \in Token
      /\ request[r].result # "ok"
  BY <1>a, <1>1, Knows DEF Kept, SameProcess, process, Sound, Redeeming
<1>4. ASSUME NEW w \in Work, Moves(r, w), Sound(w)' PROVE Inv'
  <2>1. request' \in [Request -> Work]
    BY <1>4 DEF Inv, Typed, Moves
  <2>2. Typed'
    BY <1>1, <1>2, <2>1, BooksTyped DEF Inv, Typed, process
  <2> QED BY <1>2, <1>3, <1>4, <2>2, HandlerFrame DEF Inv
<1>5. CASE Returns(r, serial)
  <2>1. PICK w \in Work : Moves(r, w) /\ Became(r, w, "answer", "ok", serial, request[r].nonce)
    BY <1>1, <1>2, <1>5, ReturnsMoves DEF Inv
  <2>2. Sound(w)'
    BY <1>a, <1>b, <1>2, <1>3, <2>1 DEF Moves, Became, Sound, Redeeming, Renewing
  <2> QED BY <1>4, <2>1, <2>2
<1>6. CASE request' = [request EXCEPT ![r] = [@ EXCEPT !.pc = "recover", !.result = "retry"]]
  <2>1. PICK w \in Work :
          /\ Moves(r, w)
          /\ Became(r, w, "recover", "retry", request[r].serial, request[r].nonce)
    BY <1>1, <1>6, TurnsMoves DEF Inv, Onward, Outcome, Redeeming
  <2>2. Sound(w)'
    BY <1>a, <1>3, <2>1 DEF Moves, Became, Sound, Redeeming, Renewing
  <2> QED BY <1>4, <2>1, <2>2
<1> QED BY <1>a, <1>b, <1>5, <1>6 DEF Finalize, FinalizeAmbiguous

\* The second transaction of a renewal: the incumbent's era is the current one.
LEMMA RenewalRecords ==
    ASSUME Inv, NEW r \in Request, request[r].pc = "renew", InsertRenewal(r),
           UNCHANGED <<gateway, issued, token, placement>>
    PROVE  /\ Records' /\ cert' \in [Csr -> CertRow]
           /\ CertsGrow /\ cert'[request[r].csr].kind # "none"
           /\ cert'[request[r].csr].serial \in SerialType
<1>a. PICK i : i = request[r].incumbent
  OBVIOUS
<1>b. PICK c : c = request[r].csr
  OBVIOUS
<1>c. PICK n : n = [NoCert EXCEPT !.kind = "renewal", !.serial = request[r].serial,
                                  !.era = cert[i].era]
  OBVIOUS
<1>1. /\ i \in Csr /\ c \in Csr /\ Kept(c) /\ request[r].serial \in SerialType
      /\ request[r].serial # NoSerial /\ cert[c].serial \in SerialType
  BY <1>a, <1>b, Knows DEF Sound, Renewing
<1>2. /\ cert \in [Csr -> CertRow] /\ cert[i] \in CertRow
      /\ NewestIsLive /\ Issuance /\ Revocation
  BY <1>1 DEF Inv, Typed, Records
<1>3. /\ Exists(i) /\ ~cert[i].revoked /\ ~gateway.deleted
      /\ gateway.status # "pending_enrollment"
  BY <1>a DEF InsertRenewal, IncumbentValid, Exists, gatewayRecoveryEligible
<1>4. cert[i].era = issued /\ gateway.enrolled
  BY <1>1, <1>2, <1>3 DEF Revocation, RevocationIsComplete
<1>5. CASE Exists(c)
  <2>1. cert' = cert
    BY <1>b, <1>5 DEF InsertRenewal
  <2>2. Records'
    BY <2>1, RecordsFrame DEF Inv, mysql
  <2> QED BY <1>b, <1>1, <1>2, <1>5, <2>1, <2>2, CertsFrame DEF Exists
<1>6. CASE ~Exists(c)
  <2>1. /\ n \in CertRow /\ n.kind = "renewal" /\ n.era = issued
        /\ n.serial = request[r].serial /\ ~n.revoked
    BY <1>c, <1>1, <1>2, <1>4, EmptyTypes DEF CertRow, NoCert
  <2>2. NewCert(c, n)
    BY <1>a, <1>b, <1>c, <1>1, <1>6, <2>1 DEF NewCert, InsertRenewal
  <2>3. /\ cert' \in [Csr -> CertRow] /\ CertsGrow /\ Exists(c)' /\ cert'[c] = n
        /\ \A d \in Csr : d # c => cert'[d] = cert[d]
    BY <1>1, <1>6, <2>2, CertAdded
  <2>4. NewestIsLive'
    BY <1>2 DEF NewestIsLive, Live
  <2>5. Issuance'
    <3>1. \A d \in Csr : cert'[d].kind = "enrollment" => d # c /\ cert'[d] = cert[d]
      BY <2>1, <2>3
    <3>2. \A d \in Csr : cert[d].kind = "enrollment" => d # c
      BY <1>6 DEF Exists
    <3> QED BY <1>2, <2>3, <3>1, <3>2 DEF Issuance
  <2>6. Revocation'
    BY <1>2, <1>3, <1>4, <2>1, <2>3 DEF Revocation, RevocationIsComplete, Exists
  <2> QED BY <1>1, <2>1, <2>3, <2>4, <2>5, <2>6, <1>b DEF Records, Exists
<1> QED BY <1>5, <1>6

\* The commit of a renewal, known to the handler or not.
LEMMA FinalizeRenewalStep ==
    ASSUME Inv, NEW r \in Request, FinalizeRenewal(r) \/ FinalizeRenewalAmbiguous(r) PROVE Inv'
<1>a. PICK c : c = request[r].csr
  OBVIOUS
<1>b. PICK serial : serial = cert'[c].serial
  OBVIOUS
<1>1. /\ request[r].pc = "renew" /\ request[r].pc # "idle" /\ InsertRenewal(r)
      /\ UNCHANGED <<gateway, issued, token, process, placement>>
      /\ UNCHANGED books \/ (Fault /\ admin' = admin)
  BY DEF FinalizeRenewal, FinalizeRenewalAmbiguous
<1>2. /\ Records' /\ cert' \in [Csr -> CertRow]
      /\ CertsGrow /\ Exists(c)' /\ serial \in SerialType
  BY <1>a, <1>b, <1>1, RenewalRecords DEF Exists
<1>3. /\ c \in Csr /\ Kept(c)' /\ SameProcess /\ request[r].incumbent \in Csr
      /\ request[r].result # "ok"
  BY <1>a, <1>1, Knows DEF Kept, SameProcess, process, Sound, Renewing
<1>4. ASSUME NEW w \in Work, Moves(r, w), Sound(w)' PROVE Inv'
  <2>1. request' \in [Request -> Work]
    BY <1>4 DEF Inv, Typed, Moves
  <2>2. Typed'
    BY <1>1, <1>2, <2>1, BooksTyped DEF Inv, Typed, process
  <2> QED BY <1>2, <1>3, <1>4, <2>2, HandlerFrame DEF Inv
<1>5. CASE Returns(r, serial)
  <2>1. PICK w \in Work : Moves(r, w) /\ Became(r, w, "answer", "ok", serial, request[r].nonce)
    BY <1>1, <1>2, <1>5, ReturnsMoves DEF Inv
  <2>2. Sound(w)'
    BY <1>a, <1>b, <1>2, <1>3, <2>1 DEF Moves, Became, Sound, Redeeming, Renewing
  <2> QED BY <1>4, <2>1, <2>2
<1>6. CASE Settles(r, "retry")
  <2>1. request' = [request EXCEPT ![r] = [@ EXCEPT !.pc = "settle", !.result = "retry"]]
    BY <1>6 DEF Settles
  <2>2. PICK w \in Work :
          /\ Moves(r, w)
          /\ Became(r, w, "settle", "retry", request[r].serial, request[r].nonce)
    BY <1>1, <2>1, TurnsMoves DEF Inv, Onward, Outcome, Renewing
  <2>3. Sound(w)'
    BY <1>a, <1>3, <2>2 DEF Moves, Became, Sound, Redeeming, Renewing
  <2> QED BY <1>4, <2>2, <2>3
<1> QED BY <1>a, <1>b, <1>5, <1>6 DEF FinalizeRenewal, FinalizeRenewalAmbiguous

-----------------------------------------------------------------------------
(***************************************************************************)
(* The gateway's process and its disk.                                     *)
(***************************************************************************)
\* A nonempty set of CSRs has a newest one.
LEMMA NewestCsr ==
    ASSUME NEW S \in SUBSET Csr, S # {}
    PROVE  \E c \in S : \A d \in S : d <= c
<1> DEFINE R == OpToRel(<, Nat)
           T == {n \in 0..MaxCsr : MaxCsr - n \in S}
<1>1. MaxCsr \in Nat /\ \A c \in S : c \in Nat /\ c <= MaxCsr
  BY Constants DEF Csr
<1>2. T \in SUBSET Nat /\ T # {}
  <2>1. PICK c \in S : TRUE
    OBVIOUS
  <2>2. MaxCsr - c \in 0..MaxCsr /\ MaxCsr - (MaxCsr - c) = c
    BY <1>1, <2>1
  <2>3. MaxCsr - c \in T
    BY <2>1, <2>2
  <2> QED BY <1>1, <2>3
<1>3. IsWellFoundedOn(R, Nat)
  BY NatLessThanWellFounded
<1> HIDE DEF R, T
<1>4. PICK n \in T : \A k \in T : ~(<<k, n>> \in R)
  BY <1>2, <1>3, WFMin
<1>5. \A k \in T : n <= k
  <2>1. \A k \in T : k < n => <<k, n>> \in R
    BY <1>2, <1>4 DEF R, OpToRel
  <2>2. \A k \in T : ~(k < n)
    BY <1>4, <2>1, Zenon
  <2>3. n \in Nat /\ \A k \in T : k \in Nat
    BY <1>2, <1>4
  <2> QED BY <2>2, <2>3, SMT
<1>6. n \in Nat /\ MaxCsr - n \in S
  BY <1>2, <1>4 DEF T
<1>7. ASSUME NEW d \in S PROVE d <= MaxCsr - n
  <2>1. MaxCsr - d \in 0..MaxCsr /\ MaxCsr - (MaxCsr - d) = d
    BY <1>1, <1>7
  <2>2. MaxCsr - d \in T
    BY <1>7, <2>1 DEF T
  <2>3. n <= MaxCsr - d
    BY <1>5, <2>2
  <2> QED BY <1>1, <1>6, <1>7, <2>3
<1> QED BY <1>6, <1>7

\* Manager.recover returns an installed generation, or none.
LEMMA RecoveredLoads ==
    ASSUME Inv
    PROVE  /\ Recovered \in 0..MaxCsr
           /\ Recovered # NoCsr => Recovered \in Csr /\ disk.gens[Recovered] # NoSerial
<1>1. disk.current \in 0..MaxCsr /\ disk.previous \in 0..MaxCsr
  BY DEF Inv, Typed, Volume
<1>2. CASE Loadable(disk.current)
  BY <1>1, <1>2, Constants DEF Recovered, Loadable
<1>3. CASE ~Loadable(disk.current) /\ Loadable(disk.previous)
  BY <1>1, <1>3, Constants DEF Recovered, Loadable
<1>4. CASE ~Loadable(disk.current) /\ ~Loadable(disk.previous) /\ \E c \in Csr : Loadable(c)
  <2> DEFINE S == {c \in Csr : Loadable(c)}
             P(c) == Loadable(c) /\ \A d \in Csr : Loadable(d) => d <= c
  <2>1. PICK c \in S : \A d \in S : d <= c
    BY <1>4, NewestCsr
  <2>2. c \in Csr /\ P(c)
    BY <2>1
  <2>3. Recovered = CHOOSE x \in Csr : P(x)
    BY <1>4 DEF Recovered
  <2>4. Recovered \in Csr /\ P(Recovered)
    <3> HIDE DEF P
    <3> QED BY <2>2, <2>3
  <2> QED BY <2>4, Constants DEF Loadable
<1>5. CASE ~Loadable(disk.current) /\ ~Loadable(disk.previous) /\ ~\E c \in Csr : Loadable(c)
  BY <1>5, Constants DEF Recovered, NoCsr
<1> QED BY <1>2, <1>3, <1>4, <1>5

\* A pending key is replaced or removed once it is installed; none is lost.
LEMMA KeysKept ==
    ASSUME Inv, disk' \in Volume, disk'.lost = disk.lost, disk'.gens = disk.gens,
           disk'.made >= disk.made, disk'.pending <= disk'.made, cert' = cert,
           \/ disk'.pending = disk.pending
           \/ disk.pending = NoCsr
           \/ disk.pending \in Csr /\ disk.gens[disk.pending] # NoSerial
    PROVE  Keys' /\ \A c \in Csr : Kept(c) => Kept(c)'
<1>1. /\ disk.made \in Nat /\ disk'.made \in Nat /\ disk.lost \in Nat
      /\ \A c \in Csr : c \in Nat /\ c # NoCsr
  BY Constants DEF Inv, Typed, Volume
<1>2. ASSUME NEW c \in Csr, Kept(c) PROVE Kept(c)'
  BY <1>1, <1>2 DEF Kept
<1>3. Keys'
  BY <1>2 DEF Inv, Keys, Exists
<1> QED BY <1>2, <1>3

\* The handlers while the disk changes; handler r may be given new work, or be
\* done.
LEMMA HandlersKept ==
    ASSUME Inv, NEW r \in Request, NEW w, request' = [request EXCEPT ![r] = w],
           w \in Work, Sound(w)', cert' = cert, \A c \in Csr : Kept(c) => Kept(c)'
    PROVE  /\ Handlers' /\ request' \in [Request -> Work] /\ request'[r] = w
           /\ \A q \in Request : q # r => request'[q] = request[q]
<1>1. /\ request' \in [Request -> Work] /\ request'[r] = w
      /\ \A q \in Request : q # r => request'[q] = request[q]
  BY DEF Inv, Typed
<1>2. ASSUME NEW q \in Request PROVE Sound(request[q])'
  <2>1. CASE q = r
    BY <1>1, <2>1 DEF Sound
  <2>2. CASE q # r
    <3>1. request[q] \in Work /\ Sound(request[q])
      BY DEF Inv, Typed, Handlers
    <3>2. PICK v \in Work : v = request[q]
      BY <3>1
    <3>3. Sound(v)'
      BY <3>1, <3>2, SoundStays, CertsFrame
    <3> QED BY <1>1, <2>2, <3>2, <3>3 DEF Sound
  <2> QED BY <2>1, <2>2
<1> QED BY <1>1, <1>2 DEF Handlers

\* The same when no handler is concerned.
LEMMA HandlersStay ==
    ASSUME Inv, request' = request, cert' = cert, \A c \in Csr : Kept(c) => Kept(c)'
    PROVE  Handlers'
BY SoundStays, CertsFrame DEF Inv, Typed, Handlers

\* What a process step leaves alone.
LEMMA ProcessFrame ==
    ASSUME Inv, UNCHANGED <<mysql, placement>>,
           UNCHANGED books \/ (Fault /\ admin' = admin),
           disk' \in Volume, node' \in Process, request' \in [Request -> Work]
    PROVE  Typed' /\ Records' /\ cert' = cert
<1>1. Typed'
  BY BooksTyped DEF Inv, Typed, mysql
<1>2. Records'
  BY RecordsFrame DEF Inv
<1> QED BY <1>1, <1>2 DEF mysql

\* Steps of the process alone: the disk's keys stay.
LEMMA ProcessOnly ==
    ASSUME Inv, UNCHANGED <<mysql, placement, request>>,
           UNCHANGED books \/ (Fault /\ admin' = admin),
           disk' \in Volume, node' \in Process, Client',
           disk'.lost = disk.lost, disk'.gens = disk.gens,
           disk'.made >= disk.made, disk'.pending <= disk'.made,
           \/ disk'.pending = disk.pending
           \/ disk.pending = NoCsr
           \/ disk.pending \in Csr /\ disk.gens[disk.pending] # NoSerial
    PROVE  Inv'
<1>1. request' \in [Request -> Work]
  BY DEF Inv, Typed
<1>2. Typed' /\ Records' /\ cert' = cert
  BY <1>1, ProcessFrame
<1>3. Keys' /\ \A c \in Csr : Kept(c) => Kept(c)'
  BY <1>2, KeysKept
<1>4. Handlers'
  BY <1>2, <1>3, HandlersStay
<1> QED BY <1>2, <1>3, <1>4 DEF Inv

\* The pending CSR that Prepare returns, and its key on the disk.
LEMMA PreparedKept ==
    ASSUME Inv
    PROVE  /\ Prepared \in Nat /\ disk.made \in 0..MaxCsr /\ disk.pending \in 0..MaxCsr
           /\ disk.pending <= disk.made
           /\ disk.pending # NoCsr => disk.pending \in Csr /\ Prepared = disk.pending
           /\ disk.pending = NoCsr => Prepared = disk.made + 1
<1>1. disk \in Volume /\ disk.pending <= disk.made
  BY DEF Inv, Typed, Keys
<1> QED BY <1>1, Constants DEF Prepared, Volume

\* Client.Ensure: the key of an installed certificate may go, a new one comes
\* only where there was none.
LEMMA BootStep == ASSUME Inv, NEW t \in Token, Boot(t) PROVE Inv'
<1> DEFINE active == Recovered
           scanned == active # NoCsr /\ active \notin {disk.current, disk.previous}
           base == [disk EXCEPT !.current = IF scanned THEN active ELSE @]
<1>1. /\ disk \in Volume /\ disk.made \in Nat /\ t \in 0..MaxTokens
      /\ UNCHANGED <<mysql, request, placement, books>>
  BY Constants DEF Inv, Typed, Volume, Boot
<1>2. /\ active \in 0..MaxCsr
      /\ active # NoCsr => active \in Csr /\ disk.gens[active] # NoSerial
  BY RecoveredLoads
<1>3. /\ base \in Volume /\ base.made = disk.made /\ base.lost = disk.lost
      /\ base.pending = disk.pending /\ base.gens = disk.gens
  BY <1>1, <1>2 DEF Volume
<1>4. CASE /\ active # NoCsr
           /\ disk' = [base EXCEPT !.pending = IF @ = active THEN NoCsr ELSE @]
           /\ node' = [Down EXCEPT !.phase = "run", !.active = active, !.token = t]
  <2> HIDE DEF base, active
  <2>1. /\ disk' \in Volume /\ disk'.made = disk.made /\ disk'.lost = disk.lost
        /\ disk'.gens = disk.gens
        /\ disk'.pending = IF disk.pending = active THEN NoCsr ELSE disk.pending
    BY <1>3, <1>4, Constants DEF Volume, NoCsr
  <2>2. /\ node' \in Process /\ node'.phase = "run" /\ node'.active = active
        /\ node'.waiting = NoRequest
    BY <1>1, <1>2, <1>4, EmptyTypes DEF Process, Down
  <2>3. Client'
    BY <1>2, <1>4, <2>2 DEF Client
  <2>4. disk'.made >= disk.made /\ disk'.pending <= disk'.made
    BY <1>1, <2>1, PreparedKept DEF NoCsr
  <2>5. \/ disk'.pending = disk.pending
        \/ disk.pending \in Csr /\ disk.gens[disk.pending] # NoSerial
    BY <1>2, <1>4, <2>1
  <2> QED BY <1>1, <2>1, <2>2, <2>3, <2>4, <2>5, ProcessOnly
<1>5. CASE /\ active = NoCsr /\ Prepared \in Csr
           /\ disk' = [base EXCEPT !.pending = Prepared,
                                   !.made = IF Prepared > @ THEN Prepared ELSE @]
           /\ node' = [Down EXCEPT !.phase = "enroll", !.token = t]
  <2> HIDE DEF base, active
  <2>1. /\ disk' \in Volume /\ disk'.lost = disk.lost /\ disk'.gens = disk.gens
        /\ disk'.made = (IF Prepared > disk.made THEN Prepared ELSE disk.made)
        /\ disk'.pending = Prepared
    BY <1>1, <1>3, <1>5, Constants DEF Volume
  <2>2. /\ node' \in Process /\ node'.phase = "enroll" /\ node'.token = t
        /\ node'.waiting = NoRequest
    BY <1>1, <1>5, EmptyTypes DEF Process, Down
  <2>3. Client'
    BY <1>5, <2>1, <2>2 DEF Client
  <2>4. /\ disk'.made >= disk.made /\ disk'.pending <= disk'.made
        /\ disk'.pending = disk.pending \/ disk.pending = NoCsr
    BY <1>1, <2>1, PreparedKept
  <2> QED BY <1>1, <2>1, <2>2, <2>3, <2>4, ProcessOnly
<1> QED BY <1>4, <1>5 DEF Boot

\* The steps of Manager.Install: the generation is written before the pointers
\* move, and the pending key goes last.
LEMMA InstallStep == ASSUME Inv, Install PROVE Inv'
<1>1. /\ disk \in Volume /\ node \in Process /\ disk.made \in Nat /\ Client
      /\ UNCHANGED <<mysql, request, placement, books>>
  BY DEF Inv, Typed, Volume, Install, InstallGeneration, PublishPrevious, PublishCurrent,
         RemovePending
<1>2. node.phase \notin {"enroll", "run"} /\ node.waiting = NoRequest
  BY <1>1 DEF Client, Install, InstallGeneration, PublishPrevious, PublishCurrent,
              RemovePending
<1>3. CASE InstallGeneration
  <2> DEFINE p == disk.pending
             s == node.serial
  <2>1. /\ p \in Csr /\ Exists(p) /\ s = cert[p].serial /\ s \in SerialType /\ s # NoSerial
        /\ disk' = [disk EXCEPT !.gens[p] = s]
    BY <1>1, <1>3 DEF InstallGeneration, Client, Process, Inv, Keys
  <2>2. /\ disk' \in Volume /\ disk'.made = disk.made /\ disk'.lost = disk.lost
        /\ disk'.pending = disk.pending /\ disk'.gens[p] = s
        /\ \A c \in Csr : c # p => disk'.gens[c] = disk.gens[c]
    BY <1>1, <2>1 DEF Volume
  <2>3. node' \in Process /\ node'.phase = "previous" /\ node'.waiting = NoRequest
    BY <1>1, <1>2, <1>3 DEF InstallGeneration, Process
  <2>4. request' \in [Request -> Work]
    BY <1>1 DEF Inv, Typed
  <2>5. Typed' /\ Records' /\ cert' = cert
    BY <1>1, <2>2, <2>3, <2>4, ProcessFrame
  <2>6. \A c \in Csr : Kept(c) => Kept(c)'
    BY <2>1, <2>2 DEF Kept
  <2>7. Keys'
    BY <2>1, <2>2, <2>5, <2>6 DEF Inv, Keys, Exists
  <2>8. Client'
    BY <2>1, <2>2, <2>3 DEF Client
  <2>9. Handlers'
    BY <1>1, <2>5, <2>6, HandlersStay
  <2> QED BY <2>5, <2>7, <2>8, <2>9 DEF Inv
<1>4. CASE PublishPrevious
  <2>1. /\ disk' \in Volume /\ disk'.made = disk.made /\ disk'.lost = disk.lost
        /\ disk'.pending = disk.pending /\ disk'.gens = disk.gens
    BY <1>1, <1>4 DEF PublishPrevious, Volume
  <2>2. node' \in Process /\ node'.phase = "current" /\ node'.waiting = NoRequest
    BY <1>1, <1>2, <1>4 DEF PublishPrevious, Process
  <2>3. Client'
    BY <1>1, <1>4, <2>1, <2>2 DEF Client, PublishPrevious
  <2>4. disk'.made >= disk.made /\ disk'.pending <= disk'.made
    BY <1>1, <2>1, PreparedKept
  <2> QED BY <1>1, <2>1, <2>2, <2>3, <2>4, ProcessOnly
<1>5. CASE PublishCurrent
  <2>1. /\ disk' \in Volume /\ disk'.made = disk.made /\ disk'.lost = disk.lost
        /\ disk'.pending = disk.pending /\ disk'.gens = disk.gens
    BY <1>1, <1>5 DEF PublishCurrent, Volume
  <2>2. /\ node' \in Process /\ node'.phase = "clean" /\ node'.waiting = NoRequest
        /\ node'.active = disk.pending
    BY <1>1, <1>2, <1>5 DEF PublishCurrent, Process, Volume
  <2>3. Client'
    BY <1>1, <1>5, <2>1, <2>2 DEF Client, PublishCurrent
  <2>4. disk'.made >= disk.made /\ disk'.pending <= disk'.made
    BY <1>1, <2>1, PreparedKept
  <2> QED BY <1>1, <2>1, <2>2, <2>3, <2>4, ProcessOnly
<1>6. CASE RemovePending
  <2>1. /\ disk' \in Volume /\ disk'.made = disk.made /\ disk'.lost = disk.lost
        /\ disk'.pending = NoCsr /\ disk'.gens = disk.gens
    BY <1>1, <1>6, Constants DEF RemovePending, Volume, NoCsr
  <2>2. /\ node' \in Process /\ node'.phase = "run" /\ node'.waiting = NoRequest
        /\ node'.active = node.active
    BY <1>1, <1>2, <1>6, Constants DEF RemovePending, Process
  <2>3. Client'
    BY <1>1, <1>6, <2>1, <2>2 DEF Client, RemovePending
  <2>4. disk'.made >= disk.made /\ disk'.pending <= disk'.made
    BY <1>1, <2>1 DEF NoCsr
  <2>5. disk.pending \in Csr /\ disk.gens[disk.pending] # NoSerial
    BY <1>1, <1>6 DEF Client, RemovePending
  <2> QED BY <1>1, <2>1, <2>2, <2>3, <2>4, <2>5, ProcessOnly
<1> QED BY <1>3, <1>4, <1>5, <1>6 DEF Install

\* The process ends, or stops waiting.
LEMMA EndStep == ASSUME Inv, Lapse \/ NodeCrash \/ GiveUp PROVE Inv'
<1>1. /\ disk \in Volume /\ node \in Process /\ disk.made \in Nat /\ Client
      /\ UNCHANGED <<mysql, request, placement, disk>>
      /\ UNCHANGED books \/ (Fault /\ admin' = admin)
  BY DEF Inv, Typed, Volume, Lapse, NodeCrash, GiveUp
<1>2. disk'.made >= disk.made /\ disk'.pending <= disk'.made
  BY <1>1, PreparedKept
<1>3. node' \in Process /\ Client'
  <2>1. CASE node' = Down
    BY <2>1, EmptyTypes DEF Client, Down
  <2>2. CASE node' = [node EXCEPT !.waiting = NoRequest]
    <3>1. /\ node' \in Process /\ node'.phase = node.phase /\ node'.token = node.token
          /\ node'.active = node.active /\ node'.serial = node.serial
          /\ node'.waiting = NoRequest
      BY <1>1, <2>2 DEF Process
    <3> QED BY <1>1, <3>1 DEF Client, mysql, Exists
  <2> QED BY <2>1, <2>2 DEF Lapse, NodeCrash, GiveUp
<1> QED BY <1>1, <1>2, <1>3, ProcessOnly

\* The volume is lost: every key generated so far was on it.
LEMMA LoseDiskStep == ASSUME Inv, LoseDisk PROVE Inv'
<1>1. /\ disk \in Volume /\ node \in Process /\ Client /\ disk.made \in Nat
      /\ UNCHANGED <<mysql, request, placement, node>> /\ Fault /\ admin' = admin
      /\ node.phase = "down" /\ disk' = [EmptyDisk EXCEPT !.made = disk.made, !.lost = disk.made]
  BY DEF Inv, Typed, Volume, LoseDisk
<1>2. /\ disk' \in Volume /\ disk'.made = disk.made /\ disk'.lost = disk.made
      /\ disk'.pending = NoCsr /\ disk'.gens = [c \in Csr |-> NoSerial]
  BY <1>1, EmptyTypes DEF Volume, EmptyDisk
<1>3. request' \in [Request -> Work]
  BY <1>1 DEF Inv, Typed
<1>4. Typed' /\ Records' /\ cert' = cert
  BY <1>1, <1>2, <1>3, ProcessFrame
<1>5. \A c \in Csr : Kept(c) => Kept(c)'
  BY <1>1, <1>2, Constants DEF Kept
<1>6. Keys'
  BY <1>1, <1>2, <1>4, <1>5 DEF Inv, Keys, Exists, NoCsr
<1>7. Client'
  BY <1>1 DEF Client
<1>8. Handlers'
  BY <1>1, <1>4, <1>5, HandlersStay
<1> QED BY <1>4, <1>6, <1>7, <1>8 DEF Inv

\* One attempt of Client.enroll.
LEMMA CallEnrollStep == ASSUME Inv, NEW r \in Request, CallEnroll(r) PROVE Inv'
<1>1. /\ disk \in Volume /\ node \in Process /\ Client /\ disk' = disk
      /\ UNCHANGED <<mysql, placement, books>>
      /\ node.phase = "enroll" /\ node' = [node EXCEPT !.waiting = r]
      /\ disk.pending \in Csr /\ node.token \in Token
  BY DEF Inv, Typed, CallEnroll, Client
<1>2. PICK w : w = [NoWork EXCEPT !.pc = "acquire", !.token = node.token, !.csr = disk.pending]
  OBVIOUS
<1>3. /\ w \in Work /\ w.pc = "acquire" /\ w.token = node.token /\ w.csr = disk.pending
      /\ w.result = "none"
  BY <1>1, <1>2, EmptyTypes, Constants DEF Work, NoWork, Redeeming
<1>4. request' = [request EXCEPT ![r] = w] /\ cert' = cert
  BY <1>1, <1>2 DEF CallEnroll, mysql
<1>5. \A c \in Csr : Kept(c) => Kept(c)'
  BY <1>1 DEF Kept
<1>6. Sound(w)'
  <2>1. Kept(w.csr)'
    BY <1>1, <1>3, PreparedKept DEF Kept
  <2> QED BY <1>1, <1>3, <2>1 DEF Sound, Redeeming, Renewing
<1>7. /\ Handlers' /\ request' \in [Request -> Work] /\ request'[r] = w
  BY <1>3, <1>4, <1>5, <1>6, HandlersKept
<1>8. /\ node' \in Process /\ node'.phase = node.phase /\ node'.token = node.token
      /\ node'.active = node.active /\ node'.waiting = r
  BY <1>1 DEF Process
<1>9. Typed' /\ Records'
  BY <1>1, <1>7, <1>8, ProcessFrame
<1>10. Keys'
  BY <1>1, <1>4, KeysFrame, CertsFrame DEF Inv
<1>11. Client'
  BY <1>1, <1>3, <1>7, <1>8 DEF Client
<1> QED BY <1>7, <1>9, <1>10, <1>11 DEF Inv

\* Client.BeginRenewal.
LEMMA CallRenewStep == ASSUME Inv, NEW r \in Request, CallRenew(r) PROVE Inv'
<1>1. /\ disk \in Volume /\ node \in Process /\ Client /\ disk.made \in Nat
      /\ UNCHANGED <<mysql, placement, books>>
      /\ node.phase = "run" /\ node' = [node EXCEPT !.waiting = r]
      /\ node.active \in Csr /\ Prepared \in Csr
  BY DEF Inv, Typed, CallRenew, Client, Volume
<1>2. PICK w : w = [NoWork EXCEPT !.csr = Prepared, !.incumbent = node.active,
                       !.pc = IF Authorized(node.active) THEN "prepare" ELSE "answer",
                       !.result = IF Authorized(node.active) THEN "none" ELSE "denied"]
  OBVIOUS
<1>3. /\ w \in Work /\ w.pc \in {"prepare", "answer"} /\ w.csr = Prepared
      /\ w.incumbent = node.active /\ w.result \in {"none", "denied"}
  <2> DEFINE pc == IF Authorized(node.active) THEN "prepare" ELSE "answer"
             result == IF Authorized(node.active) THEN "none" ELSE "denied"
  <2>1. pc \in {"prepare", "answer"} /\ result \in {"none", "denied"}
    OBVIOUS
  <2>2. w = [NoWork EXCEPT !.csr = Prepared, !.incumbent = node.active,
                           !.pc = pc, !.result = result]
    BY <1>2
  <2> HIDE DEF pc, result
  <2> QED BY <1>1, <2>1, <2>2, EmptyTypes, Constants DEF Work, NoWork, Renewing
<1>4. request' = [request EXCEPT ![r] = w] /\ cert' = cert
  BY <1>1, <1>2 DEF CallRenew, mysql
<1>5. /\ disk' \in Volume /\ disk'.lost = disk.lost /\ disk'.gens = disk.gens
      /\ disk'.made = (IF Prepared > disk.made THEN Prepared ELSE disk.made)
      /\ disk'.pending = Prepared
  BY <1>1, Constants DEF CallRenew, Volume
<1>6. /\ disk'.made >= disk.made /\ disk'.pending <= disk'.made
      /\ disk'.pending = disk.pending \/ disk.pending = NoCsr
  BY <1>1, <1>5, PreparedKept
<1>7. Keys' /\ \A c \in Csr : Kept(c) => Kept(c)'
  BY <1>4, <1>5, <1>6, KeysKept
<1>8. Sound(w)'
  <2>1. Kept(w.csr)'
    BY <1>3, <1>5, <1>6 DEF Kept
  <2> QED BY <1>1, <1>3, <2>1 DEF Sound, Redeeming, Renewing
<1>9. /\ Handlers' /\ request' \in [Request -> Work] /\ request'[r] = w
  BY <1>3, <1>4, <1>7, <1>8, HandlersKept
<1>10. /\ node' \in Process /\ node'.phase = node.phase /\ node'.token = node.token
       /\ node'.active = node.active /\ node'.waiting = r
  BY <1>1 DEF Process
<1>11. Typed' /\ Records'
  BY <1>1, <1>5, <1>9, <1>10, ProcessFrame
<1>12. Client'
  BY <1>1, <1>3, <1>5, <1>9, <1>10 DEF Client
<1> QED BY <1>7, <1>9, <1>11, <1>12 DEF Inv

\* The answer arrives, or nobody waits for it.
LEMMA AnswerStep ==
    ASSUME Inv, NEW r \in Request, ReceiveAnswer(r) \/ DropAnswer(r) PROVE Inv'
<1>1. /\ disk' = disk /\ disk \in Volume /\ node \in Process /\ Client
      /\ UNCHANGED <<mysql, placement, books>> /\ request[r].pc = "answer"
      /\ request' = [request EXCEPT ![r] = NoWork] /\ cert' = cert
  BY DEF Inv, Typed, ReceiveAnswer, DropAnswer, process, mysql
<1>2. \A c \in Csr : Kept(c) => Kept(c)'
  BY <1>1 DEF Kept
<1>3. Sound(NoWork)'
  BY DEF Sound, NoWork, Redeeming, Renewing
<1>4. /\ Handlers' /\ request' \in [Request -> Work]
      /\ \A q \in Request : q # r => request'[q] = request[q]
  BY <1>1, <1>2, <1>3, EmptyTypes, HandlersKept
<1>5. Keys'
  BY <1>1, KeysFrame, CertsFrame DEF Inv
<1>6. node' \in Process /\ Client'
  <2>1. CASE DropAnswer(r)
    <3>1. node' = node /\ node.waiting # r
      BY <2>1 DEF DropAnswer, process
    <3>2. node.waiting # NoRequest => node.waiting \in Request
      BY <1>1 DEF Process
    <3> QED BY <1>1, <1>4, <3>1, <3>2 DEF Client, Exists
  <2>2. CASE ReceiveAnswer(r)
    <3> DEFINE idle == [node EXCEPT !.waiting = NoRequest]
    <3>1. /\ node.waiting = r /\ r # NoRequest /\ node.phase \in {"enroll", "run"}
          /\ request[r].csr = disk.pending /\ request[r].csr \in Csr
          /\ request[r].serial \in SerialType
      BY <1>1, <2>2, Constants, Knows DEF ReceiveAnswer, Client
    <3>2. /\ idle \in Process /\ idle.phase = node.phase /\ idle.token = node.token
          /\ idle.active = node.active /\ idle.waiting = NoRequest
      BY <1>1 DEF Process
    <3>3. \/ /\ request[r].result = "ok"
             /\ node' = [idle EXCEPT !.phase = "generation", !.serial = request[r].serial]
          \/ node' = idle \/ node' = Down
          \/ node' = [idle EXCEPT !.phase = "lapsing"] /\ node.phase # "enroll"
      BY <2>2 DEF ReceiveAnswer
    <3> HIDE DEF idle
    <3>4. CASE /\ request[r].result = "ok"
               /\ node' = [idle EXCEPT !.phase = "generation", !.serial = request[r].serial]
      <4>1. Exists(request[r].csr) /\ request[r].serial = cert[request[r].csr].serial
        BY <1>1, <3>4, Knows DEF Sound
      <4>2. /\ node' \in Process /\ node'.phase = "generation"
            /\ node'.serial = request[r].serial /\ node'.waiting = NoRequest
        BY <3>1, <3>2, <3>4 DEF Process
      <4> QED BY <1>1, <3>1, <4>1, <4>2 DEF Client, Exists
    <3>5. CASE node' = idle
      BY <1>1, <3>1, <3>2, <3>5 DEF Client, Exists
    <3>6. CASE node' = Down
      BY <3>6, EmptyTypes DEF Client, Down
    <3>7. CASE node' = [idle EXCEPT !.phase = "lapsing"] /\ node.phase # "enroll"
      <4>1. /\ node' \in Process /\ node'.phase = "lapsing" /\ node'.active = node.active
            /\ node'.waiting = NoRequest
        BY <3>2, <3>7 DEF Process
      <4> QED BY <1>1, <3>1, <3>7, <4>1 DEF Client
    <3> QED BY <3>3, <3>4, <3>5, <3>6, <3>7
  <2> QED BY <2>1, <2>2
<1>7. Typed' /\ Records'
  BY <1>1, <1>4, <1>6, ProcessFrame
<1> QED BY <1>4, <1>5, <1>6, <1>7 DEF Inv

-----------------------------------------------------------------------------
(***************************************************************************)
(* Administration, the gateway's reports, time and placement.              *)
(***************************************************************************)
\* A step of the API's records while handlers and disk stand still.
LEMMA RecordsStep ==
    ASSUME Inv, Records', CertsGrow, SameProcess, request' = request,
           node' \in Process, gateway' \in GatewayRow, issued' \in Token,
           token' \in [Token -> TokenRow], cert' \in [Csr -> CertRow],
           placement' \in [picked: BOOLEAN, assigned: BOOLEAN],
           UNCHANGED books \/ (Fault /\ admin' = admin) \/ (Operator /\ faults' = faults)
    PROVE  Inv'
<1>1. Keys' /\ Client' /\ Handlers'
  BY WorkFrame
<1>2. admin' \in 0..MaxAdmin /\ faults' \in 0..MaxFaults
  BY BooksTyped DEF Inv
<1>3. Typed'
  BY <1>2 DEF Inv, Typed, SameProcess
<1> QED BY <1>1, <1>3 DEF Inv

\* The gateway's row takes another status; only one that was never enrolled
\* becomes pending.
LEMMA GatewayRecords ==
    ASSUME Records, UNCHANGED <<issued, token, cert, placement>>,
           gateway'.enrolled = gateway.enrolled,
           gateway'.deleted = gateway.deleted,
           gateway'.status = "pending_enrollment"
              => gateway.status = "pending_enrollment" \/ ~gateway.enrolled
    PROVE  Records'
<1>1. NewestIsLive' /\ Issuance'
  BY DEF Records, NewestIsLive, Issuance, Live
<1>2. Revocation'
  BY DEF Records, Revocation, RevocationIsComplete, AllRevoked, Exists, Live
<1> QED BY <1>1, <1>2 DEF Records

\* A step of the gateway's row.
LEMMA GatewayOnly ==
    ASSUME Inv, UNCHANGED <<issued, token, cert, placement, request, disk>>,
           gateway' \in GatewayRow, gateway'.enrolled = gateway.enrolled,
           gateway'.deleted = gateway.deleted,
           gateway'.status = "pending_enrollment"
              => gateway.status = "pending_enrollment" \/ ~gateway.enrolled,
           node' = node \/ \E b \in BOOLEAN : node' = [node EXCEPT !.conn = b],
           UNCHANGED books \/ (Operator /\ faults' = faults)
    PROVE  Inv'
<1>1. Records'
  BY GatewayRecords DEF Inv
<1>2. node' \in Process /\ SameProcess
  BY DEF Inv, Typed, Process, SameProcess
<1>3. CertsGrow
  BY CertsFrame
<1> QED BY <1>1, <1>2, <1>3, RecordsStep DEF Inv, Typed

\* Heartbeats, reports and the operator transitions that only set a status.
LEMMA StatusStep ==
    ASSUME Inv,
           \/ \E s \in Reported : Connect(s) \/ ReportStatus(s)
           \/ Drain \/ Resume \/ Disable \/ Reenable
    PROVE  Inv'
<1>1. gateway \in GatewayRow /\ node \in Process
  BY DEF Inv, Typed
<1>2. CASE \E s \in Reported : Connect(s) \/ ReportStatus(s)
  <2>1. PICK s \in Reported : Connect(s) \/ ReportStatus(s)
    BY <1>2
  <2>2. s \in Lifecycle /\ s # "pending_enrollment"
    BY Constants DEF Lifecycle
  <2>3. gateway' = [gateway EXCEPT !.status = s]
    BY <2>1 DEF Connect, ReportStatus
  <2>4. /\ gateway' \in GatewayRow /\ gateway'.enrolled = gateway.enrolled
        /\ gateway'.deleted = gateway.deleted /\ gateway'.status # "pending_enrollment"
    BY <1>1, <2>2, <2>3 DEF GatewayRow
  <2> QED BY <2>1, <2>4, GatewayOnly DEF Connect, ReportStatus, process
<1>3. CASE Drain \/ Resume
  <2>1. /\ gateway' \in GatewayRow /\ gateway'.enrolled = gateway.enrolled
        /\ gateway'.deleted = gateway.deleted /\ gateway'.status = gateway.status
    BY <1>1, <1>3 DEF GatewayRow, Drain, Resume
  <2> QED BY <1>3, <2>1, GatewayOnly DEF Drain, Resume, process
<1>4. CASE Disable
  <2>1. /\ gateway' \in GatewayRow /\ gateway'.enrolled = gateway.enrolled
        /\ gateway'.deleted = gateway.deleted /\ gateway'.status # "pending_enrollment"
    BY <1>1, <1>4 DEF GatewayRow, Disable
  <2> QED BY <1>4, <2>1, GatewayOnly DEF Disable
<1>5. CASE Reenable
  <2>1. /\ gateway' \in GatewayRow /\ gateway'.enrolled = gateway.enrolled
        /\ gateway'.deleted = gateway.deleted
        /\ gateway'.status = "pending_enrollment" => ~gateway.enrolled
    BY <1>1, <1>5 DEF GatewayRow, Reenable, Lifecycle
  <2> QED BY <1>5, <2>1, GatewayOnly DEF Reenable, process
<1> QED BY <1>2, <1>3, <1>4, <1>5

\* Replacing the live tokens by a new one.
LEMMA IssueRecords ==
    ASSUME Typed, NewestIsLive, Issue(RevokeLive)
    PROVE  /\ issued' \in Token /\ token' \in [Token -> TokenRow] /\ NewestIsLive'
           /\ \A t \in Token : token'[t].status = "consumed" <=> token[t].status = "consumed"
<1> DEFINE fresh == [NoToken EXCEPT !.status = "active"]
<1>1. issued + 1 \in Token /\ issued' = issued + 1
  BY Constants DEF Issue, Typed, Token
<1>2. \A t \in Token : /\ token[t] \in TokenRow
                       /\ Unleased(token[t], "revoked") \in TokenRow
                       /\ Unleased(token[t], "revoked").status = "revoked"
  BY UnleasedTyped, Constants DEF Typed, Unleased, TokenRow, NoCsr
<1>3. fresh \in TokenRow /\ fresh.status = "active"
  BY EmptyTypes DEF TokenRow, NoToken
<1> HIDE DEF fresh
<1>4. \A t \in Token : token'[t] = IF t = issued + 1 THEN fresh
                                   ELSE IF Live(t) THEN Unleased(token[t], "revoked")
                                   ELSE token[t]
  BY DEF Issue, RevokeLive, fresh
<1>5. token' \in [Token -> TokenRow]
  <2>1. RevokeLive \in [Token -> TokenRow]
    BY <1>2 DEF RevokeLive
  <2> QED BY <1>3, <2>1 DEF Issue, fresh
<1>6. token[issued + 1].status = "none"
  BY <1>1, Constants DEF NewestIsLive, Typed
<1>7. \A t \in Token : token'[t].status = "consumed" <=> token[t].status = "consumed"
  BY <1>2, <1>3, <1>4, <1>6 DEF Live
<1>8. \A t \in Token : Live(t)' => t = issued'
  BY <1>1, <1>2, <1>3, <1>4 DEF Live
<1>9. ASSUME NEW t \in Token, t > issued' PROVE token'[t].status = "none"
  <2>1. t > issued /\ t # issued + 1
    BY <1>1, <1>9, Constants DEF Typed
  <2>2. token[t].status = "none"
    BY <2>1 DEF NewestIsLive
  <2> QED BY <2>1, <2>2, <1>4 DEF Live
<1> QED BY <1>1, <1>5, <1>7, <1>8, <1>9 DEF NewestIsLive

\* ReplaceLiveToken: a pending gateway has no usable certificate, so its era is
\* free to move.
LEMMA ReplaceStep == ASSUME Inv, ReplaceLiveToken PROVE Inv'
<1>1. Issue(RevokeLive) /\ UNCHANGED <<gateway, cert, request, process, placement, faults>>
  BY DEF ReplaceLiveToken
<1>2. /\ issued' \in Token /\ token' \in [Token -> TokenRow] /\ NewestIsLive'
      /\ \A t \in Token : token'[t].status = "consumed" <=> token[t].status = "consumed"
  BY <1>1, IssueRecords DEF Inv, Records
<1>3. Issuance'
  BY <1>1, <1>2 DEF Inv, Records, Issuance
<1>4. ~gateway.deleted /\ AllRevoked
  BY DEF ReplaceLiveToken, gatewayPending, Inv, Records, Revocation
<1>5. Revocation'
  BY <1>1, <1>4 DEF Inv, Records, Revocation, RevocationIsComplete, AllRevoked, Exists
<1>6. CertsGrow
  BY <1>1, CertsFrame
<1>7. SameProcess /\ node' \in Process
  BY <1>1 DEF SameProcess, process, Inv, Typed
<1>8. Operator /\ faults' = faults
  BY DEF ReplaceLiveToken
<1> QED BY <1>1, <1>2, <1>3, <1>5, <1>6, <1>7, <1>8, RecordsStep DEF Records, Inv, Typed

\* Reenroll revokes every certificate in the transaction that issues the token.
LEMMA ReenrollStep == ASSUME Inv, Reenroll PROVE Inv'
<1>1. Issue(RevokeLive) /\ UNCHANGED <<request, disk, placement, faults>> /\ Operator
  BY DEF Reenroll
<1>2. /\ issued' \in Token /\ token' \in [Token -> TokenRow] /\ NewestIsLive'
      /\ \A t \in Token : token'[t].status = "consumed" <=> token[t].status = "consumed"
  BY <1>1, IssueRecords DEF Inv, Records
<1>3. \A c \in Csr : cert[c] \in CertRow
  BY DEF Inv, Typed
<1>4. \A c \in Csr : cert'[c] = IF Exists(c) THEN [cert[c] EXCEPT !.revoked = TRUE] ELSE cert[c]
  BY DEF Reenroll
<1>5. \A c \in Csr : /\ cert'[c].kind = cert[c].kind /\ cert'[c].token = cert[c].token
                     /\ cert'[c].serial = cert[c].serial /\ cert'[c] \in CertRow
                     /\ Exists(c) => cert'[c].revoked
  BY <1>3, <1>4 DEF CertRow
<1>6. cert' \in [Csr -> CertRow]
  <2>1. cert' = [c \in Csr |-> IF Exists(c) THEN [cert[c] EXCEPT !.revoked = TRUE] ELSE cert[c]]
    BY DEF Reenroll
  <2> QED BY <1>4, <1>5, <2>1
<1>7. Issuance'
  BY <1>2, <1>5 DEF Inv, Records, Issuance
<1>8. /\ gateway' \in GatewayRow /\ gateway'.enrolled /\ ~gateway'.deleted
  BY DEF Reenroll, Inv, Typed, GatewayRow
<1>9. Revocation'
  BY <1>5, <1>8 DEF Revocation, RevocationIsComplete, AllRevoked, Exists
<1>10. CertsGrow
  BY <1>5 DEF CertsGrow, Exists
<1>11. SameProcess /\ node' \in Process
  BY DEF Reenroll, SameProcess, Inv, Typed, Process
<1> QED BY <1>1, <1>2, <1>6, <1>7, <1>8, <1>9, <1>10, <1>11, RecordsStep DEF Records, Inv, Typed

\* Delete checks in its transaction what a deleted gateway must not have.
LEMMA DeleteStep == ASSUME Inv, Delete PROVE Inv'
<1>1. UNCHANGED <<issued, token, cert, request, process, placement, faults>> /\ Operator
  BY DEF Delete
<1>2. /\ gateway' \in GatewayRow /\ gateway'.status # "pending_enrollment"
      /\ gateway'.enrolled = gateway.enrolled
  BY DEF Delete, Inv, Typed, GatewayRow
<1>3. NewestIsLive' /\ Issuance'
  BY <1>1 DEF Inv, Records, NewestIsLive, Issuance, Live
<1>4. Revocation'
  BY <1>1, <1>2 DEF Delete, Inv, Records, Revocation, RevocationIsComplete, AllRevoked, Exists,
     Live
<1>5. CertsGrow
  BY <1>1, CertsFrame
<1>6. SameProcess /\ node' \in Process
  BY <1>1 DEF SameProcess, process, Inv, Typed
<1> QED BY <1>1, <1>2, <1>3, <1>4, <1>5, <1>6, RecordsStep DEF Records, Inv, Typed

\* A certificate that expires stays on record.
LEMMA ExpiryStep == ASSUME Inv, NEW c \in Csr, CertificateExpires(c) PROVE Inv'
<1>1. UNCHANGED <<gateway, issued, token, request, process, placement, admin>> /\ Fault
  BY DEF CertificateExpires
<1>2. cert' \in [Csr -> CertRow]
      /\ \A d \in Csr : /\ cert'[d].kind = cert[d].kind /\ cert'[d].token = cert[d].token
                        /\ cert'[d].serial = cert[d].serial /\ cert'[d].era = cert[d].era
                        /\ cert'[d].revoked = cert[d].revoked
  <2>1. cert \in [Csr -> CertRow]
    BY DEF Inv, Typed
  <2>2. [cert[c] EXCEPT !.expired = TRUE] \in CertRow
    BY <2>1 DEF CertRow
  <2>3. cert' = [cert EXCEPT ![c] = [cert[c] EXCEPT !.expired = TRUE]]
    BY <2>1 DEF CertificateExpires
  <2> QED BY <2>1, <2>2, <2>3 DEF CertRow
<1>3. NewestIsLive' /\ Issuance'
  BY <1>1, <1>2 DEF Inv, Records, NewestIsLive, Issuance, Live
<1>4. Revocation'
  BY <1>1, <1>2 DEF Inv, Records, Revocation, RevocationIsComplete, AllRevoked, Exists, Live
<1>5. CertsGrow
  BY <1>2 DEF CertsGrow, Exists
<1>6. SameProcess /\ node' \in Process
  BY <1>1 DEF SameProcess, process, Inv, Typed
<1> QED BY <1>1, <1>2, <1>3, <1>4, <1>5, <1>6, RecordsStep DEF Records, Inv, Typed

\* A placement creates a session only where the gateway is not deleted.
LEMMA PlacementStep ==
    ASSUME Inv, PickForPlacement \/ CreateSession \/ DeleteSession \/ UNCHANGED vars PROVE Inv'
<1>1. UNCHANGED <<mysql, request, process, books>>
  BY DEF PickForPlacement, CreateSession, DeleteSession, vars
<1>2. /\ placement' \in [picked: BOOLEAN, assigned: BOOLEAN]
      /\ placement'.assigned => placement.assigned \/ ~gateway.deleted
  <2>1. placement \in [picked: BOOLEAN, assigned: BOOLEAN]
    BY DEF Inv, Typed
  <2>2. CASE CreateSession
    <3>1. PICK b \in BOOLEAN : b = (placement.assigned \/ Eligible)
      OBVIOUS
    <3>2. placement' = [picked |-> FALSE, assigned |-> b]
      BY <2>2, <3>1 DEF CreateSession
    <3>3. b => placement.assigned \/ ~gateway.deleted
      BY <3>1 DEF Eligible
    <3> QED BY <3>2, <3>3
  <2>3. CASE PickForPlacement \/ DeleteSession \/ UNCHANGED vars
    BY <2>1, <2>3 DEF PickForPlacement, DeleteSession, vars
  <2> QED BY <2>2, <2>3
<1>3. NewestIsLive' /\ Issuance'
  BY <1>1 DEF mysql, Inv, Records, NewestIsLive, Issuance, Live
<1>4. Revocation'
  BY <1>1, <1>2 DEF mysql, Inv, Records, Revocation, RevocationIsComplete, AllRevoked, Exists,
     Live
<1>5. CertsGrow
  BY <1>1, CertsFrame DEF mysql
<1>6. SameProcess /\ node' \in Process
  BY <1>1 DEF SameProcess, process, Inv, Typed
<1> QED BY <1>1, <1>2, <1>3, <1>4, <1>5, <1>6, RecordsStep DEF Records, Inv, Typed, mysql

-----------------------------------------------------------------------------
(***************************************************************************)
(* The theorems.                                                           *)
(***************************************************************************)
\* Every step keeps the invariant.
LEMMA NextInv == Inv /\ [Next]_vars => Inv'
<1> SUFFICES ASSUME Inv, [Next]_vars PROVE Inv'
  OBVIOUS
<1>1. ASSUME NEW r \in Request, Handler(r) PROVE Inv'
  BY <1>1, AcquireStep, SignStep, FinalizeStep, TurnStep, RecoverStep, ReleaseStep, PrepareStep,
     FinalizeRenewalStep DEF Handler
<1>2. ASSUME NEW r \in Request,
             CallEnroll(r) \/ CallRenew(r) \/ ReceiveAnswer(r) \/ DropAnswer(r)
      PROVE  Inv'
  BY <1>2, CallEnrollStep, CallRenewStep, AnswerStep
<1>3. ASSUME NEW t \in Token, Boot(t) \/ LeaseRunsOut(t) PROVE Inv'
  BY <1>3, BootStep, TokenAlone
<1>4. ASSUME NEW s \in Reported, Connect(s) \/ ReportStatus(s) PROVE Inv'
  BY <1>4, StatusStep
<1>5. CASE Install \/ Lapse
  BY <1>5, InstallStep, EndStep
<1>6. CASE Faulty
  <2>1. ASSUME NEW r \in Request,
               \/ SignFails(r) \/ FinalizeAmbiguous(r) \/ SignRenewalFails(r)
               \/ FinalizeRenewalAmbiguous(r) \/ HandlerDies(r)
        PROVE  Inv'
    BY <2>1, TurnStep, FinalizeStep, FailStep, FinalizeRenewalStep
  <2>2. ASSUME NEW t \in Token, AcquireInvalidCSR(t) \/ TokenExpires(t) PROVE Inv'
    BY <2>2, TokenAlone
  <2>3. ASSUME NEW c \in Csr, CertificateExpires(c) PROVE Inv'
    BY <2>3, ExpiryStep
  <2>4. CASE GiveUp \/ NodeCrash \/ LoseDisk
    BY <2>4, EndStep, LoseDiskStep
  <2> QED BY <1>6, <2>1, <2>2, <2>3, <2>4 DEF Faulty
<1>7. CASE Administration
  BY <1>7, ReplaceStep, StatusStep, ReenrollStep, DeleteStep DEF Administration
<1>8. CASE PickForPlacement \/ CreateSession \/ DeleteSession \/ UNCHANGED vars
  BY <1>8, PlacementStep
<1> QED BY <1>1, <1>2, <1>3, <1>4, <1>5, <1>6, <1>7, <1>8 DEF Next

\* The invariant holds throughout.
LEMMA SpecInv == Spec => []Inv
BY InitInv, NextInv, PTL DEF Spec

\* A one-time token yields exactly one enrolment certificate, in the transaction
\* that consumes it (FinalizeEnrollmentIssuance), however many handlers, expired
\* leases and ambiguous commits race for it.
THEOREM TokenYieldsOneCertificate == Spec => []ConsumedIsIssued
<1>1. Inv => ConsumedIsIssued
  <2> SUFFICES ASSUME Inv, NEW t \in Token
               PROVE  Cardinality({c \in Csr : cert[c].kind = "enrollment" /\ cert[c].token = t})
                        = IF token[t].status = "consumed" THEN 1 ELSE 0
    BY DEF ConsumedIsIssued
  <2> DEFINE S == {c \in Csr : cert[c].kind = "enrollment" /\ cert[c].token = t}
  <2>0. Issuance
    BY DEF Inv, Records
  <2>1. CASE token[t].status = "consumed"
    <3>1. PICK c \in Csr : cert[c].kind = "enrollment" /\ cert[c].token = t
      BY <2>0, <2>1 DEF Issuance
    <3>2. S = {c}
      BY <2>0, <3>1 DEF Issuance
    <3>3. Cardinality(S) = 1
      BY <3>2, FS_Singleton
    <3> QED BY <2>1, <3>3
  <2>2. CASE token[t].status # "consumed"
    <3>1. S = {}
      BY <2>0, <2>2 DEF Issuance
    <3>2. Cardinality(S) = 0
      BY <3>1, FS_EmptySet
    <3> QED BY <2>2, <3>2
  <2> QED BY <2>1, <2>2
<1> QED BY <1>1, SpecInv, PTL

\* Every certificate the gateway installed or is being answered is the one the
\* API recorded, and the key of a recorded certificate is on the disk through
\* every crash of Manager.Install, unless the volume was lost.
THEOREM DiskAndRecordsAgree == Spec => []DiskMatchesRecords
<1>1. Inv => DiskMatchesRecords
  BY DEF Inv, Keys, Kept, Handlers, Sound, DiskMatchesRecords
<1> QED BY <1>1, SpecInv, PTL

\* A re-enrolment revokes for good, and a deleted gateway has no session, no
\* redeemable token and no usable certificate, whatever redemption, renewal or
\* placement was under way.
THEOREM RevocationCompletes == Spec => []RevocationIsComplete
<1>1. Inv => RevocationIsComplete
  BY DEF Inv, Records, Revocation
<1> QED BY <1>1, SpecInv, PTL

=============================================================================
