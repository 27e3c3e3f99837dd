---------------------------- MODULE Login_proofs ----------------------------
(***************************************************************************)
(* What a login yields, for any number of requests, tabs, token calls,     *)
(* rotations and administrators' operations: at most one token set, none   *)
(* after a denial, and one refresh token that can still be rotated.        *)
(*                                                                         *)
(* None of the three is inductive.  A second code is impossible because a  *)
(* request that has not been finalized has led to nothing yet (Once); a    *)
(* second heir, because the family starts with the only exchange of the    *)
(* code, and a family that was revoked is not empty, so that no exchange   *)
(* is left to start it again (Heirs).                                      *)
(***************************************************************************)
EXTENDS Login, FiniteSetTheorems, TLAPS

Status == {"none", "minting", "pending", "verified", "denied", "expired", "finalized", "gone"}
Record == [status: Status, late: BOOLEAN, attempts: Nat, code: UserCode \union {NoCode}]
Step == {"idle", "redeemed", "issue", "rotated", "recheck", "revoke"}
Work == [pc: Step, req: Request \union {NoRequest}]
Token == [consumed: BOOLEAN, revoked: BOOLEAN]

Types ==
    /\ req \in [Request -> Record]
    /\ code \in [Request -> Nat]
    /\ issued \in [Request -> Nat]
    /\ worker \in [Worker -> Work]
    /\ family \in [Request -> Seq(Token)]

\* The request has been finalized, or its key is gone: it cannot be finalized.
Spent(r) == req[r].status \in {"finalized", "gone"}

\* A call that has taken the request's code and not issued its tokens yet.
Exchanging(w, r) == worker[w].pc \in {"redeemed", "issue"} /\ worker[w].req = r

\* A call that will look at, or revoke, the request's family.
Holding(w, r) == worker[w].pc \in {"rotated", "recheck", "revoke"} /\ worker[w].req = r

\* The code, the exchange and the token set of a request exclude each other.
Once(r) ==
    /\ code[r] + issued[r] <= 1
    /\ \A w \in Worker : Exchanging(w, r) => code[r] = 0 /\ issued[r] = 0
    /\ \A w, v \in Worker : Exchanging(w, r) /\ Exchanging(v, r) => w = v
    /\ ~Spent(r) => /\ code[r] = 0 /\ issued[r] = 0
                    /\ \A w \in Worker : ~Exchanging(w, r)

\* The family starts with the token set, and has one heir at most.
Heirs(r) ==
    /\ issued[r] = 0 => family[r] = <<>>
    /\ r \in dead => family[r] # <<>>
    /\ \A w \in Worker : Holding(w, r) => family[r] # <<>>
    /\ \A i, j \in DOMAIN family[r] :
          family[r][i] = NewToken /\ family[r][j] = NewToken => i = j /\ r \notin dead

Inv == Types /\ \A r \in Request : Once(r) /\ Heirs(r)

-----------------------------------------------------------------------------
(* Families.                                                               *)

\* Revoking a family keeps its tokens and leaves none that can be rotated.
LEMMA RevokedFamily ==
    ASSUME NEW f \in Seq(Token)
    PROVE  /\ Revoked(f) \in Seq(Token)
           /\ DOMAIN Revoked(f) = DOMAIN f
           /\ f # <<>> => Revoked(f) # <<>>
           /\ f = <<>> => Revoked(f) = <<>>
           /\ \A i \in DOMAIN f : Revoked(f)[i] # NewToken
<1>1. DOMAIN f = 1..Len(f) /\ Len(f) \in Nat /\ \A i \in 1..Len(f) : f[i] \in Token
  OBVIOUS
<1>2. \A i \in 1..Len(f) : [f[i] EXCEPT !.revoked = TRUE] \in Token
  BY <1>1 DEF Token
<1>3. \A i \in 1..Len(f) : [f[i] EXCEPT !.revoked = TRUE] # NewToken
  BY <1>1 DEF Token, NewToken
<1>4. Revoked(f) = [i \in 1..Len(f) |-> [f[i] EXCEPT !.revoked = TRUE]]
  BY <1>1 DEF Revoked
<1>5. Revoked(f) \in Seq(Token) /\ Len(Revoked(f)) = Len(f)
  BY <1>1, <1>2, <1>4
<1>6. f # <<>> => Revoked(f) # <<>>
  BY <1>1, <1>5
<1>7. f = <<>> => Revoked(f) = <<>>
  BY <1>1, <1>5
<1> QED BY <1>1, <1>3, <1>4, <1>5, <1>6, <1>7

\* A family that gets one token more.
LEMMA GrownFamily ==
    ASSUME NEW h \in Seq(Token), NEW e \in Token
    PROVE  /\ Append(h, e) \in Seq(Token)
           /\ Len(Append(h, e)) = Len(h) + 1
           /\ \A j \in 1..Len(h) : Append(h, e)[j] = h[j]
OBVIOUS

\* A rotation consumes one token and appends its successor.
Consumed(f, i) == [f EXCEPT ![i].consumed = TRUE]
Rotated(f, i) == Append(Consumed(f, i), NewToken)

\* Consuming a token keeps the others and leaves it no heir.
LEMMA ConsumedFamily ==
    ASSUME NEW f \in Seq(Token), NEW i \in DOMAIN f
    PROVE  /\ Consumed(f, i) \in Seq(Token)
           /\ Len(Consumed(f, i)) = Len(f)
           /\ \A j \in 1..Len(f) : Consumed(f, i)[j] = NewToken => j # i /\ f[j] = NewToken
<1> DEFINE e == [f[i] EXCEPT !.consumed = TRUE]
<1>1. DOMAIN f = 1..Len(f) /\ Len(f) \in Nat /\ \A j \in 1..Len(f) : f[j] \in Token
  OBVIOUS
<1>2. e \in Token /\ e # NewToken
  BY <1>1 DEF Token, NewToken
<1>3. Consumed(f, i) = [f EXCEPT ![i] = e]
  BY DEF Consumed
<1> HIDE DEF e
<1> QED BY <1>1, <1>2, <1>3

\* A rotated family keeps its other tokens and is one longer.
LEMMA RotatedFamily ==
    ASSUME NEW f \in Seq(Token), NEW i \in DOMAIN f
    PROVE  /\ Rotated(f, i) \in Seq(Token)
           /\ Rotated(f, i) # <<>>
           /\ DOMAIN Rotated(f, i) = 1..(Len(f) + 1)
           /\ \A j \in DOMAIN f :
                 Rotated(f, i)[j] = NewToken => j # i /\ f[j] = NewToken
<1>1. /\ Consumed(f, i) \in Seq(Token)
      /\ Len(Consumed(f, i)) = Len(f)
      /\ \A j \in 1..Len(f) : Consumed(f, i)[j] = NewToken => j # i /\ f[j] = NewToken
  BY ConsumedFamily
<1>2. NewToken \in Token
  BY DEF NewToken, Token
<1>3. /\ Rotated(f, i) \in Seq(Token)
      /\ Len(Rotated(f, i)) = Len(Consumed(f, i)) + 1
      /\ \A j \in 1..Len(Consumed(f, i)) : Rotated(f, i)[j] = Consumed(f, i)[j]
  BY <1>1, <1>2, GrownFamily DEF Rotated
<1>4. DOMAIN f = 1..Len(f) /\ Len(f) \in Nat
  OBVIOUS
<1>5. DOMAIN Rotated(f, i) = 1..(Len(f) + 1) /\ Rotated(f, i) # <<>>
  BY <1>1, <1>3, <1>4
<1> QED BY <1>1, <1>3, <1>4, <1>5

-----------------------------------------------------------------------------
(* Steps that leave a request's family alone.                              *)

\* The workers' part of such a step: nobody starts an exchange, and a call may
\* take up the family only when there is one.
Calm(s) ==
    /\ \A w \in Worker : Exchanging(w, s)' => Exchanging(w, s)
    /\ \A w \in Worker : Holding(w, s)' => Holding(w, s) \/ family[s] # <<>>

\* Codes may expire and requests move on; the rest of the request's record stays.
LEMMA Untouched ==
    ASSUME Inv, NEW s \in Request, code'[s] \in Nat, code'[s] <= code[s],
           issued'[s] = issued[s], family'[s] = family[s],
           (s \in dead') = (s \in dead), Spent(s) => Spent(s)', Calm(s)
    PROVE  Once(s)' /\ Heirs(s)'
<1>1. code[s] \in Nat /\ issued[s] \in Nat
  BY DEF Inv, Types
<1>2. Once(s) /\ Heirs(s)
  BY DEF Inv
<1>3. Once(s)'
  BY <1>1, <1>2 DEF Once, Calm
<1>4. Heirs(s)'
  BY <1>2 DEF Heirs, Calm
<1> QED BY <1>3, <1>4

\* Nobody's call changes.
LEMMA CallsStay == ASSUME worker' = worker PROVE \A s \in Request : Calm(s)
BY DEF Calm, Exchanging, Holding

\* A step of the browser, the interceptor, the administrator or the bus: tokens
\* stay as they are.
LEMMA BrowserStep ==
    ASSUME Inv, UNCHANGED tokens, req' \in [Request -> Record],
           \A r \in Request : Spent(r) => Spent(r)'
    PROVE  Inv'
<1>1. Types'
  BY DEF Inv, Types, tokens
<1>2. \A s \in Request : Calm(s)
  BY CallsStay DEF tokens
<1>3. ASSUME NEW s \in Request PROVE Once(s)' /\ Heirs(s)'
  <2>1. code'[s] \in Nat /\ code'[s] <= code[s] /\ issued'[s] = issued[s]
        /\ family'[s] = family[s] /\ (s \in dead') = (s \in dead)
    BY DEF Inv, Types, tokens
  <2> QED BY <2>1, <1>2, Untouched
<1> QED BY <1>1, <1>3 DEF Inv

-----------------------------------------------------------------------------
(* The browser's side: what becomes of a request's record.                 *)

\* An update of one field, wherever it lands, leaves records.
LEMMA Records ==
    ASSUME Inv, NEW x, NEW e \in Record, req' = [req EXCEPT ![x] = e],
           x \in Request => (Spent(x) => e.status \in {"finalized", "gone"})
    PROVE  req' \in [Request -> Record] /\ \A r \in Request : Spent(r) => Spent(r)'
<1>1. req \in [Request -> Record]
  BY DEF Inv, Types
<1> QED BY <1>1 DEF Spent

\* Settling a request that has not been finalized.
LEMMA Settles ==
    ASSUME Inv, NEW x, NEW status \in {"denied", "expired"}, Settle(x, status),
           x \in Request => ~Spent(x)
    PROVE  req' \in [Request -> Record] /\ \A r \in Request : Spent(r) => Spent(r)'
<1> DEFINE e == [req[x] EXCEPT !.status = status, !.attempts = 0]
<1>1. req \in [Request -> Record]
  BY DEF Inv, Types
<1>2. req' = [req EXCEPT ![x] = e]
  BY DEF Settle
<1>3. CASE x \in Request
  <2>1. e \in Record
    BY <1>1, <1>3 DEF Record, Status
  <2> HIDE DEF e
  <2> QED BY <1>2, <1>3, <2>1, Records
<1>4. CASE x \notin Request
  BY <1>1, <1>2, <1>4 DEF Spent
<1> QED BY <1>3, <1>4

\* The handler of an authorization request, and time.
LEMMA CreateInv ==
    ASSUME Inv, NEW r \in Request,
           \/ \E c \in UserCode : ReserveUserCode(r, c)
           \/ Create(r) \/ CreateFails(r) \/ Deadline(r) \/ Evict(r)
    PROVE  Inv'
<1>1. req \in [Request -> Record] /\ req[r] \in Record
  BY DEF Inv, Types
<1>2. Gone \in Record /\ Gone.status = "gone"
  BY DEF Gone, NoReq, Record, Status
<1>3. UNCHANGED tokens
  BY DEF ReserveUserCode, Create, CreateFails, Deadline, Evict
<1> DEFINE Moves == req' \in [Request -> Record] /\ \A s \in Request : Spent(s) => Spent(s)'
<1>4. ASSUME NEW c \in UserCode, ReserveUserCode(r, c) PROVE Moves
  <2> DEFINE e == [NoReq EXCEPT !.status = "minting", !.code = c]
  <2>1. e \in Record /\ req' = [req EXCEPT ![r] = e] /\ ~Spent(r)
    BY <1>4 DEF ReserveUserCode, NoReq, Record, Status, Spent
  <2> HIDE DEF e
  <2> QED BY <2>1, Records
<1>5. ASSUME req' = [req EXCEPT ![r] = Gone] PROVE Moves
  BY <1>2, <1>5, Records
<1>6. ASSUME Create(r), req' # [req EXCEPT ![r] = Gone] PROVE Moves
  <2> DEFINE e == [req[r] EXCEPT !.status = "pending"]
  <2>1. e \in Record /\ req' = [req EXCEPT ![r] = e] /\ ~Spent(r)
    BY <1>1, <1>6 DEF Create, Record, Status, Spent
  <2> HIDE DEF e
  <2> QED BY <2>1, Records
<1>7. ASSUME Deadline(r) PROVE Moves
  <2> DEFINE e == [req[r] EXCEPT !.late = TRUE]
  <2>1. e \in Record /\ req' = [req EXCEPT ![r] = e] /\ e.status = req[r].status
    BY <1>1, <1>7 DEF Deadline, Record, Status
  <2>2. Spent(r) => e.status \in {"finalized", "gone"}
    BY <2>1 DEF Spent
  <2> HIDE DEF e
  <2> QED BY <2>1, <2>2, Records
<1>8. CreateFails(r) \/ Evict(r) => req' = [req EXCEPT ![r] = Gone]
  BY DEF CreateFails, Evict
<1>9. Moves
  BY <1>4, <1>5, <1>6, <1>7, <1>8
<1> QED BY <1>3, <1>9, BrowserStep

\* Steps that do not touch a request's record or its tokens.
LEMMA IdleStep == ASSUME Inv, UNCHANGED <<req, tokens>> PROVE Inv'
<1>1. UNCHANGED tokens /\ req' = req /\ req \in [Request -> Record]
  BY DEF Inv, Types
<1>2. \A r \in Request : Spent(r) => Spent(r)'
  BY <1>1 DEF Spent
<1> QED BY <1>1, <1>2, BrowserStep

\* transitionScript leaves a finalized request alone.
LEMMA TransitionStep ==
    ASSUME Inv, NEW r \in Request, NEW status \in {"denied", "expired"},
           NEW allow \in BOOLEAN, Transition(r, status, allow), UNCHANGED tokens
    PROVE  Inv'
<1>1. CASE Settle(r, status) /\ req[r].status \in Open(allow)
  <2>1. ~Spent(r)
    BY <1>1 DEF Open, Spent
  <2> QED BY <1>1, <2>1, Settles, BrowserStep
<1>2. CASE req' = req
  BY <1>2, IdleStep
<1> QED BY <1>1, <1>2 DEF Transition

\* The bot: only a pending request is verified or denied, and STOP denies a
\* verified one.
LEMMA BotInv ==
    ASSUME Inv, \/ \E c \in UserCode : ClaimVerified(c) \/ ClaimMismatch(c)
                \/ DenyRecentForSender
    PROVE  Inv'
<1>1. req \in [Request -> Record]
  BY DEF Inv, Types
<1>2. UNCHANGED tokens
  BY DEF ClaimVerified, ClaimMismatch, DenyRecentForSender
<1>3. ASSUME NEW c \in UserCode, ClaimVerified(c), req' # req PROVE Inv'
  <2> DEFINE x == index[c].req
             e == [req[x] EXCEPT !.status = "verified", !.attempts = 0]
  <2>1. req' = [req EXCEPT ![x] = e] /\ req[x].status = "pending"
    BY <1>3 DEF ClaimVerified
  <2>2. x \in Request
    BY <1>1, <1>3, <2>1
  <2>3. e \in Record /\ ~Spent(x)
    BY <1>1, <2>1, <2>2 DEF Record, Status, Spent
  <2> HIDE DEF x, e
  <2> QED BY <1>2, <2>1, <2>2, <2>3, Records, BrowserStep
<1>4. ASSUME NEW c \in UserCode, ClaimMismatch(c) PROVE Inv'
  <2> DEFINE x == index[c].req
             e == [req[x] EXCEPT !.attempts = @ + 1]
  <2>1. req[x].status = "pending" /\ ~Spent(x)
    BY <1>4 DEF ClaimMismatch, Spent
  <2>2. CASE Settle(x, "denied")
    BY <1>2, <2>1, <2>2, Settles, BrowserStep
  <2>3. CASE req' = [req EXCEPT ![x] = e]
    <3>1. CASE x \in Request
      <4>1. e \in Record
        BY <1>1, <3>1 DEF Record
      <4> HIDE DEF e
      <4> QED BY <1>2, <2>1, <2>3, <3>1, <4>1, Records, BrowserStep
    <3>2. CASE x \notin Request
      <4>1. req' = req
        BY <1>1, <2>3, <3>2
      <4> QED BY <1>2, <4>1, IdleStep
    <3> QED BY <3>1, <3>2
  <2> QED BY <1>4, <2>2, <2>3 DEF ClaimMismatch
<1>5. CASE DenyRecentForSender
  <2>1. Settle(bot.stop, "denied") /\ ~Spent(bot.stop)
    BY <1>5 DEF DenyRecentForSender, Spent
  <2> QED BY <1>2, <2>1, Settles, BrowserStep
<1>6. CASE req' = req
  BY <1>2, <1>6, IdleStep
<1> QED BY <1>3, <1>4, <1>5, <1>6

\* The browser's cancellation and its stream.
LEMMA StreamInv ==
    ASSUME Inv, NEW r \in Request, HandleCancel(r) \/ DeadlineFires(r) \/ DenyClientPending(r)
    PROVE  Inv'
<1>1. CASE HandleCancel(r)
  BY <1>1, TransitionStep DEF HandleCancel
<1>2. CASE DenyClientPending(r)
  BY <1>2, TransitionStep DEF DenyClientPending
<1>3. CASE DeadlineFires(r)
  <2>1. UNCHANGED tokens
    BY <1>3 DEF DeadlineFires
  <2>2. CASE req[r].status = "pending" /\ Settle(r, "expired")
    <3>1. ~Spent(r)
      BY <2>2 DEF Spent
    <3> QED BY <2>1, <2>2, <3>1, Settles, BrowserStep
  <2>3. CASE req' = req
    BY <2>1, <2>3, IdleStep
  <2> QED BY <1>3, <2>2, <2>3 DEF DeadlineFires
<1> QED BY <1>1, <1>2, <1>3

-----------------------------------------------------------------------------
(* Codes, exchanges and families.                                          *)

\* finalizeScript: the first code of a request that was verified.
LEMMA FinalizeInv == ASSUME Inv, NEW t \in Tab, Finalize(t) PROVE Inv'
<1>0. PICK x : x = tab[t].req
  OBVIOUS
<1> DEFINE e == [req[x] EXCEPT !.status = "finalized"]
<1>1. req \in [Request -> Record] /\ code \in [Request -> Nat]
  BY DEF Inv, Types
<1>2. worker' = worker /\ family' = family /\ issued' = issued /\ dead' = dead
  BY DEF Finalize
<1>3. CASE /\ x \in Request /\ req[x].status = "verified"
           /\ req' = [req EXCEPT ![x] = e] /\ code' = [code EXCEPT ![x] = @ + 1]
  <2>1. e \in Record /\ e.status = "finalized"
    BY <1>1, <1>3 DEF Record, Status
  <2> HIDE DEF e
  <2>2. req' \in [Request -> Record] /\ \A r \in Request : Spent(r) => Spent(r)'
    BY <1>3, <2>1, Records
  <2>3. Types'
    BY <1>1, <1>2, <1>3, <2>2 DEF Inv, Types
  <2>4. /\ code[x] = 0 /\ issued[x] = 0 /\ \A w \in Worker : ~Exchanging(w, x)
    BY <1>3 DEF Inv, Once, Spent
  <2>5. code'[x] = 1 /\ Spent(x)'
    BY <1>1, <1>3, <2>1, <2>4 DEF Spent
  <2>6. Once(x)'
    BY <1>2, <2>4, <2>5 DEF Once, Exchanging
  <2>7. Heirs(x)'
    BY <1>2, <1>3 DEF Inv, Heirs, Holding
  <2>8. ASSUME NEW s \in Request, s # x PROVE Once(s)' /\ Heirs(s)'
    <3>1. code'[s] = code[s] /\ code[s] \in Nat /\ Calm(s)
      BY <1>1, <1>2, <1>3, <2>8, CallsStay
    <3> QED BY <1>2, <2>2, <3>1, Untouched
  <2> QED BY <2>3, <2>6, <2>7, <2>8 DEF Inv
<1>4. CASE req' = req /\ code' = code
  <2>1. UNCHANGED <<req, tokens>>
    BY <1>2, <1>4 DEF Finalize, tokens
  <2> QED BY <2>1, IdleStep
<1>5. CASE x \notin Request /\ req' = [req EXCEPT ![x] = e] /\ code' = [code EXCEPT ![x] = @ + 1]
  <2>1. req' = req /\ code' = code
    BY <1>1, <1>5
  <2> QED BY <1>4, <2>1
<1> QED BY <1>0, <1>3, <1>4, <1>5 DEF Finalize, FinalizeScript, Finalizes

\* A call moves on: what it means for exchanges and families.
LEMMA CallMoves ==
    ASSUME Inv, NEW w \in Worker, NEW e \in Work, worker' = [worker EXCEPT ![w] = e]
    PROVE  /\ worker' \in [Worker -> Work]
           /\ \A v \in Worker : worker'[v] = IF v = w THEN e ELSE worker[v]
BY DEF Inv, Types

\* A call that ends, or goes on with the same request.
LEMMA CallInv ==
    ASSUME Inv, NEW w \in Worker, NEW e \in Work, worker' = [worker EXCEPT ![w] = e],
           UNCHANGED <<req, code, issued, family, dead>>,
           \A s \in Request :
              /\ e.pc \in {"redeemed", "issue"} /\ e.req = s => Exchanging(w, s)
              /\ e.pc \in {"rotated", "recheck", "revoke"} /\ e.req = s
                   => Holding(w, s) \/ family[s] # <<>>
    PROVE  Inv'
<1>1. /\ worker' \in [Worker -> Work]
      /\ \A v \in Worker : worker'[v] = IF v = w THEN e ELSE worker[v]
  BY CallMoves
<1>2. Types'
  BY <1>1 DEF Inv, Types
<1>3. ASSUME NEW s \in Request PROVE Once(s)' /\ Heirs(s)'
  <2>1. Calm(s)
    BY <1>1 DEF Calm, Exchanging, Holding
  <2>2. code'[s] \in Nat /\ code'[s] <= code[s] /\ (Spent(s) => Spent(s)')
    BY DEF Inv, Types, Spent
  <2> QED BY <2>1, <2>2, Untouched
<1> QED BY <1>2, <1>3 DEF Inv

\* The record of a call that has ended.
LEMMA Idle == IdleTab \in Work /\ IdleTab.pc = "idle"
BY DEF IdleTab, Work, Step

\* A code runs out.
LEMMA CodeExpiresInv == ASSUME Inv, NEW r \in Request, CodeExpires(r) PROVE Inv'
<1>1. code \in [Request -> Nat]
  BY DEF Inv, Types
<1>2. /\ code' \in [Request -> Nat] /\ \A s \in Request : code'[s] <= code[s]
      /\ UNCHANGED <<req, worker, family, issued, dead>>
  BY <1>1 DEF CodeExpires
<1>3. ASSUME NEW s \in Request PROVE Once(s)' /\ Heirs(s)'
  <2>1. Calm(s) /\ code'[s] \in Nat /\ (Spent(s) => Spent(s)')
    BY <1>2, CallsStay DEF Spent
  <2> QED BY <1>2, <2>1, Untouched
<1> QED BY <1>2, <1>3 DEF Inv, Types

\* The code is exchanged by one call: it is gone with the read.
LEMMA RedeemInv == ASSUME Inv, NEW w \in Worker, NEW r \in Request, RedeemAuthCode(w, r) PROVE Inv'
<1> DEFINE e == [pc |-> "redeemed", req |-> r]
<1>1. e \in Work /\ e.pc = "redeemed" /\ e.req = r
  BY DEF Work, Step
<1>2. /\ worker' = [worker EXCEPT ![w] = e] /\ worker[w].pc = "idle"
      /\ UNCHANGED <<req, issued, family, dead>>
      /\ code[r] > 0 /\ code' = [code EXCEPT ![r] = @ - 1]
  BY DEF RedeemAuthCode, WorkerTakes, WorkerAt, browser
<1> HIDE DEF e
<1>3. /\ worker' \in [Worker -> Work]
      /\ \A v \in Worker : worker'[v] = IF v = w THEN e ELSE worker[v]
  BY <1>1, <1>2, CallMoves
<1>4. code \in [Request -> Nat] /\ issued \in [Request -> Nat]
  BY DEF Inv, Types
<1>5. code' \in [Request -> Nat] /\ \A s \in Request : s # r => code'[s] = code[s]
  BY <1>2, <1>4
<1>6. Types'
  BY <1>2, <1>3, <1>5 DEF Inv, Types
<1>7. /\ code'[r] = 0 /\ issued[r] = 0 /\ Spent(r) /\ \A v \in Worker : ~Exchanging(v, r)
  BY <1>2, <1>4 DEF Inv, Once
<1>8. Once(r)'
  BY <1>1, <1>2, <1>3, <1>7 DEF Once, Exchanging, Spent
<1>9. Heirs(r)'
  <2>1. \A v \in Worker : Holding(v, r)' => Holding(v, r)
    BY <1>1, <1>3 DEF Holding
  <2> QED BY <1>2, <2>1 DEF Inv, Heirs
<1>10. ASSUME NEW s \in Request, s # r PROVE Once(s)' /\ Heirs(s)'
  <2>1. Calm(s)
    BY <1>1, <1>3, <1>10 DEF Calm, Exchanging, Holding
  <2>2. code'[s] \in Nat /\ code'[s] <= code[s] /\ (Spent(s) => Spent(s)')
    BY <1>2, <1>4, <1>5, <1>10 DEF Spent
  <2> QED BY <1>2, <2>1, <2>2, Untouched
<1> QED BY <1>6, <1>8, <1>9, <1>10 DEF Inv

\* The exchange ends with the token set, and with the first token of a family.
LEMMA IssueInv == ASSUME Inv, NEW w \in Worker, IssueTokens(w) PROVE Inv'
<1>0. PICK r : r = worker[w].req
  OBVIOUS
<1>1. /\ worker' = [worker EXCEPT ![w] = IdleTab] /\ worker[w].pc = "issue"
      /\ UNCHANGED <<req, code, dead>>
      /\ issued' = [issued EXCEPT ![r] = @ + 1]
      /\ \/ family' = [family EXCEPT ![r] = Append(@, NewToken)]
         \/ family' = family
  BY <1>0 DEF IssueTokens, WorkerAt, WorkerEnds, browser
<1>2. /\ worker' \in [Worker -> Work]
      /\ \A v \in Worker : worker'[v] = IF v = w THEN IdleTab ELSE worker[v]
  BY <1>1, Idle, CallMoves
<1>3. /\ code \in [Request -> Nat] /\ issued \in [Request -> Nat]
      /\ family \in [Request -> Seq(Token)]
  BY DEF Inv, Types
<1>4. CASE r \notin Request
  <2>1. issued' = issued /\ family' = family
    BY <1>1, <1>3, <1>4
  <2> QED BY <1>1, <2>1, Idle, CallInv
<1>5. CASE r \in Request
  <2>1. Exchanging(w, r)
    BY <1>0, <1>1 DEF Exchanging
  <2>2. /\ code[r] = 0 /\ issued[r] = 0 /\ Spent(r) /\ family[r] = <<>> /\ r \notin dead
        /\ \A v \in Worker : Exchanging(v, r) => v = w
        /\ \A v \in Worker : ~Holding(v, r)
    BY <1>5, <2>1 DEF Inv, Once, Heirs
  <2>3. /\ Append(family[r], NewToken) = <<NewToken>>
        /\ <<NewToken>> \in Seq(Token)
    BY <2>2 DEF NewToken, Token
  <2>4. /\ family' \in [Request -> Seq(Token)]
        /\ family'[r] \in {<<>>, <<NewToken>>}
        /\ \A s \in Request : s # r => family'[s] = family[s]
    BY <1>1, <1>3, <1>5, <2>2, <2>3
  <2>5. /\ issued' \in [Request -> Nat] /\ issued'[r] = 1
        /\ \A s \in Request : s # r => issued'[s] = issued[s]
    BY <1>1, <1>3, <1>5, <2>2
  <2>6. Types'
    BY <1>1, <1>2, <2>4, <2>5 DEF Inv, Types
  <2>7. \A v \in Worker : ~Exchanging(v, r)' /\ ~Holding(v, r)'
    BY <1>2, <2>2, Idle DEF Exchanging, Holding
  <2>8. Once(r)'
    BY <1>1, <2>2, <2>5, <2>7 DEF Once, Spent
  <2>9. Heirs(r)'
    <3>1. \A i, j \in DOMAIN family'[r] : i = j
      BY <2>4
    <3> QED BY <1>1, <2>2, <2>5, <2>7, <3>1 DEF Heirs
  <2>10. ASSUME NEW s \in Request, s # r PROVE Once(s)' /\ Heirs(s)'
    <3>1. Calm(s)
      BY <1>2, Idle DEF Calm, Exchanging, Holding
    <3>2. code'[s] \in Nat /\ code'[s] <= code[s] /\ (Spent(s) => Spent(s)')
      BY <1>1, <1>3 DEF Spent
    <3> QED BY <1>1, <2>4, <2>5, <2>10, <3>1, <3>2, Untouched
  <2> QED BY <2>6, <2>8, <2>9, <2>10 DEF Inv
<1> QED BY <1>4, <1>5

\* A family without heirs: it was not empty, and all its tokens are revoked.
LEMMA Extinct ==
    ASSUME Inv, NEW s \in Request, code'[s] = code[s], issued'[s] = issued[s],
           Spent(s) => Spent(s)', Calm(s), family[s] # <<>>,
           family'[s] = Revoked(family[s])
    PROVE  Once(s)' /\ Heirs(s)'
<1>1. Once(s) /\ Heirs(s) /\ family[s] \in Seq(Token)
  BY DEF Inv, Types
<1>2. /\ family'[s] # <<>>
      /\ \A i \in DOMAIN family'[s] : family'[s][i] # NewToken
  BY <1>1, RevokedFamily
<1>3. Once(s)'
  BY <1>1 DEF Once, Calm
<1>4. Heirs(s)'
  BY <1>1, <1>2 DEF Heirs
<1> QED BY <1>3, <1>4

\* Reuse, a revoked grant or the application's request takes the family.
LEMMA RevokeStep ==
    ASSUME Inv, NEW x, RevokeFamily(x), x \in Request => family[x] # <<>>,
           UNCHANGED <<req, code, issued>>, worker' \in [Worker -> Work],
           \A s \in Request : Calm(s)
    PROVE  Inv'
<1>1. code \in [Request -> Nat] /\ family \in [Request -> Seq(Token)]
  BY DEF Inv, Types
<1>2. /\ family' = [family EXCEPT ![x] = Revoked(family[x])]
      /\ \A s \in Request : s # x => (s \in dead') = (s \in dead)
  BY DEF RevokeFamily
<1>3. x \in Request => Revoked(family[x]) \in Seq(Token)
  BY <1>1, RevokedFamily
<1>4. Types'
  BY <1>1, <1>2, <1>3 DEF Inv, Types
<1>5. ASSUME NEW s \in Request PROVE Once(s)' /\ Heirs(s)'
  <2>1. code'[s] = code[s] /\ code[s] \in Nat /\ issued'[s] = issued[s] /\ (Spent(s) => Spent(s)')
    BY <1>1 DEF Spent
  <2>2. CASE s = x
    <3>1. family'[s] = Revoked(family[s]) /\ family[s] # <<>>
      BY <1>1, <1>2, <2>2
    <3> QED BY <2>1, <3>1, Extinct
  <2>3. CASE s # x
    <3>1. family'[s] = family[s] /\ (s \in dead') = (s \in dead)
      BY <1>1, <1>2, <2>3
    <3> QED BY <2>1, <3>1, Untouched
  <2> QED BY <2>2, <2>3
<1> QED BY <1>4, <1>5 DEF Inv

\* A token's rotation passes the right to rotate on.
LEMMA RotateInv ==
    ASSUME Inv, NEW w \in Worker, NEW r \in Request, RotateRefreshToken(w, r)
    PROVE  Inv'
<1>1. PICK i \in DOMAIN family[r] : Rotate(w, r, i)
  BY DEF RotateRefreshToken
<1>2. UNCHANGED <<req, code, issued>> /\ worker[w].pc = "idle"
  BY DEF RotateRefreshToken, browser, WorkerAt
<1>3. /\ code \in [Request -> Nat] /\ issued \in [Request -> Nat]
      /\ family \in [Request -> Seq(Token)] /\ family[r] \in Seq(Token)
  BY DEF Inv, Types
<1>4. family[r] # <<>>
  BY <1>1, <1>3
<1>5. CASE RevokeFamily(r) /\ worker' = worker
  <2>1. worker' \in [Worker -> Work] /\ \A s \in Request : Calm(s)
    BY <1>5, CallsStay DEF Inv, Types
  <2> QED BY <1>2, <1>4, <1>5, <2>1, RevokeStep
<1>6. CASE /\ family[r][i] = NewToken
           /\ family' = [family EXCEPT ![r] = Append([@ EXCEPT ![i].consumed = TRUE], NewToken)]
           /\ WorkerTakes(w, "rotated", r)
           /\ UNCHANGED dead
  <2> DEFINE e == [pc |-> "rotated", req |-> r]
             f == family[r]
             g == Rotated(f, i)
  <2>1. e \in Work /\ e.pc = "rotated" /\ e.req = r /\ worker' = [worker EXCEPT ![w] = e]
    BY <1>6 DEF Work, Step, WorkerTakes
  <2>2. family' = [family EXCEPT ![r] = g]
    BY <1>6 DEF Rotated, Consumed
  <2>3. /\ g \in Seq(Token) /\ g # <<>> /\ DOMAIN g = 1..(Len(f) + 1)
        /\ \A j \in DOMAIN f : g[j] = NewToken => j # i /\ f[j] = NewToken
    BY <1>1, <1>3, RotatedFamily
  <2> HIDE DEF e, g
  <2>4. /\ worker' \in [Worker -> Work]
        /\ \A v \in Worker : worker'[v] = IF v = w THEN e ELSE worker[v]
    BY <2>1, CallMoves
  <2>5. /\ family' \in [Request -> Seq(Token)] /\ family'[r] = g
        /\ \A s \in Request : s # r => family'[s] = family[s]
    BY <1>3, <2>2, <2>3
  <2>6. Types'
    BY <1>2, <2>4, <2>5 DEF Inv, Types
  <2>7. r \notin dead /\ \A j \in DOMAIN f : f[j] = NewToken => j = i
    BY <1>1, <1>6 DEF Inv, Heirs
  <2>8. \A j \in DOMAIN g : g[j] = NewToken => j = Len(f) + 1
    <3>1. DOMAIN f = 1..Len(f) /\ Len(f) \in Nat
      BY <1>3
    <3> QED BY <2>3, <2>7, <3>1
  <2>9. \A s \in Request : Calm(s)
    BY <1>4, <2>1, <2>4 DEF Calm, Exchanging, Holding
  <2>10. Once(r)'
    BY <1>2, <2>9 DEF Inv, Once, Calm, Spent
  <2>11. Heirs(r)'
    <3>1. issued'[r] # 0
      BY <1>2, <1>4 DEF Inv, Heirs
    <3>2. dead' = dead
      BY <1>6
    <3>3. \A j, k \in DOMAIN family'[r] :
             family'[r][j] = NewToken /\ family'[r][k] = NewToken => j = k
      BY <2>5, <2>8
    <3>4. family'[r] # <<>> /\ r \notin dead'
      BY <2>3, <2>5, <2>7, <3>2
    <3> QED BY <3>1, <3>3, <3>4 DEF Heirs
  <2>12. ASSUME NEW s \in Request, s # r PROVE Once(s)' /\ Heirs(s)'
    <3>1. code'[s] \in Nat /\ code'[s] <= code[s] /\ (Spent(s) => Spent(s)')
      BY <1>2, <1>3 DEF Spent
    <3> QED BY <1>2, <1>6, <2>5, <2>9, <2>12, <3>1, Untouched
  <2> QED BY <2>6, <2>10, <2>11, <2>12 DEF Inv
<1> QED BY <1>1, <1>5, <1>6 DEF Rotate

\* The other steps of HandleToken and HandleRevoke.
LEMMA TokenCallInv ==
    ASSUME Inv, NEW w \in Worker,
           \/ GetActiveByID(w) \/ IsGrantRevoked(w) \/ RecheckGrant(w) \/ RevokePresented(w)
           \/ \E r \in Request : HandleRevoke(w, r)
    PROVE  Inv'
<1>0. PICK x : x = worker[w].req
  OBVIOUS
<1>1. worker \in [Worker -> Work] /\ x \in Request \union {NoRequest}
  BY <1>0 DEF Inv, Types, Work
<1>2. UNCHANGED <<req, code, issued>>
  BY DEF GetActiveByID, IsGrantRevoked, RecheckGrant, RevokePresented, HandleRevoke, browser
<1>3. ASSUME worker' = [worker EXCEPT ![w] = IdleTab], UNCHANGED <<family, dead>> PROVE Inv'
  BY <1>2, <1>3, Idle, CallInv
<1>4. ASSUME NEW pc \in {"issue", "recheck", "revoke"}, NEW r \in Request \union {NoRequest},
             WorkerTakes(w, pc, r), UNCHANGED <<family, dead>>,
             pc = "issue" => worker[w].pc = "redeemed" /\ r = x,
             pc = "recheck" => worker[w].pc = "rotated" /\ r = x,
             pc = "revoke" => r \in Request /\ family[r] # <<>>
      PROVE  Inv'
  <2> DEFINE e == [pc |-> pc, req |-> r]
  <2>1. e \in Work /\ e.pc = pc /\ e.req = r /\ worker' = [worker EXCEPT ![w] = e]
    BY <1>4 DEF Work, Step, WorkerTakes
  <2> HIDE DEF e
  <2>2. \A s \in Request :
           /\ e.pc \in {"redeemed", "issue"} /\ e.req = s => Exchanging(w, s)
           /\ e.pc \in {"rotated", "recheck", "revoke"} /\ e.req = s
                => Holding(w, s) \/ family[s] # <<>>
    BY <1>0, <1>4, <2>1 DEF Exchanging, Holding
  <2> QED BY <1>2, <1>4, <2>1, <2>2, CallInv
<1>5. ASSUME worker' = [worker EXCEPT ![w] = IdleTab], RevokeFamily(x),
             worker[w].pc \in {"rotated", "recheck", "revoke"}
      PROVE  Inv'
  <2>1. /\ worker' \in [Worker -> Work]
        /\ \A v \in Worker : worker'[v] = IF v = w THEN IdleTab ELSE worker[v]
    BY <1>5, Idle, CallMoves
  <2>2. \A s \in Request : Calm(s)
    BY <2>1, Idle DEF Calm, Exchanging, Holding
  <2>3. x \in Request => family[x] # <<>>
    BY <1>0, <1>5 DEF Inv, Heirs, Holding
  <2> QED BY <1>2, <1>5, <2>1, <2>2, <2>3, RevokeStep
<1>6. CASE GetActiveByID(w)
  BY <1>0, <1>1, <1>3, <1>4, <1>6 DEF GetActiveByID, WorkerAt, WorkerEnds
<1>7. CASE IsGrantRevoked(w)
  BY <1>0, <1>1, <1>4, <1>5, <1>7 DEF IsGrantRevoked, WorkerAt, WorkerEnds
<1>8. CASE RecheckGrant(w)
  BY <1>0, <1>3, <1>5, <1>8 DEF RecheckGrant, WorkerAt, WorkerEnds
<1>9. CASE RevokePresented(w)
  BY <1>0, <1>5, <1>9 DEF RevokePresented, WorkerAt, WorkerEnds
<1>10. ASSUME NEW r \in Request, HandleRevoke(w, r) PROVE Inv'
  BY <1>4, <1>10 DEF HandleRevoke
<1> QED BY <1>6, <1>7, <1>8, <1>9, <1>10

\* A caller that goes away takes nothing back.
LEMMA AbandonInv == ASSUME Inv, Abandon PROVE Inv'
<1>1. UNCHANGED <<req, code, issued, family, dead, grant>>
  BY DEF Abandon
<1>2. ASSUME NEW w \in Worker, worker' = [worker EXCEPT ![w] = IdleTab] PROVE Inv'
  BY <1>1, <1>2, Idle, CallInv
<1>3. CASE worker' = worker
  BY <1>1, <1>3, IdleStep DEF tokens
<1> QED BY <1>2, <1>3 DEF Abandon, WorkerEnds

\* The administrator's revocation takes every family there is.
LEMMA RevokeByGrantInv == ASSUME Inv, RevokeByGrant PROVE Inv'
<1>1. /\ UNCHANGED <<req, code, issued, worker>>
      /\ family' = [r \in Request |-> Revoked(family[r])]
      /\ dead' = dead \union {r \in Request : family[r] # <<>>}
  BY DEF RevokeByGrant, handlers, browser
<1>2. code \in [Request -> Nat] /\ \A s \in Request : family[s] \in Seq(Token)
  BY DEF Inv, Types
<1>3. Types'
  <2>1. \A s \in Request : Revoked(family[s]) \in Seq(Token)
    BY <1>2, RevokedFamily
  <2> QED BY <1>1, <2>1 DEF Inv, Types
<1>4. ASSUME NEW s \in Request PROVE Once(s)' /\ Heirs(s)'
  <2>1. /\ code'[s] = code[s] /\ code[s] \in Nat /\ issued'[s] = issued[s]
        /\ (Spent(s) => Spent(s)') /\ Calm(s)
    BY <1>1, <1>2, CallsStay DEF Spent
  <2>2. family'[s] = Revoked(family[s])
    BY <1>1
  <2>3. CASE family[s] # <<>>
    BY <2>1, <2>2, <2>3, Extinct
  <2>4. CASE family[s] = <<>>
    <3>1. family'[s] = family[s] /\ (s \in dead') = (s \in dead)
      BY <1>1, <1>2, <2>2, <2>4, RevokedFamily
    <3> QED BY <2>1, <3>1, Untouched
  <2> QED BY <2>3, <2>4
<1> QED BY <1>3, <1>4 DEF Inv

-----------------------------------------------------------------------------
\* Steps on the grant, the stream, the bus or the provider only.
LEMMA ElsewhereInv ==
    ASSUME Inv, UNCHANGED <<req, code, worker, family, issued, dead>> PROVE Inv'
BY DEF Inv, Types, Once, Heirs, Spent, Exchanging, Holding

\* Initially no request has led to anything.
LEMMA InitInv == Init => Inv
<1> SUFFICES ASSUME Init PROVE Inv
  OBVIOUS
<1>1. Types
  BY Idle DEF Init, Types, NoReq, Record, Status
<1>2. ASSUME NEW r \in Request PROVE Once(r) /\ Heirs(r)
  BY Idle DEF Init, Once, Heirs, Spent, Exchanging, Holding
<1> QED BY <1>1, <1>2 DEF Inv

\* Every step keeps the invariant.
LEMMA NextInv == Inv /\ [Next]_vars => Inv'
<1> SUFFICES ASSUME Inv, [Next]_vars PROVE Inv'
  OBVIOUS
<1>1. ASSUME NEW r \in Request,
             \/ \E c \in UserCode : ReserveUserCode(r, c)
             \/ Create(r) \/ CreateFails(r) \/ Deadline(r) \/ Evict(r)
      PROVE  Inv'
  BY <1>1, CreateInv
<1>2. ASSUME NEW r \in Request, CodeExpires(r) PROVE Inv'
  BY <1>2, CodeExpiresInv
<1>3. ASSUME NEW r \in Request, HandleCancel(r) \/ DeadlineFires(r) \/ DenyClientPending(r)
      PROVE  Inv'
  BY <1>3, StreamInv
<1>4. ASSUME NEW r \in Request,
             \/ OpenStream(r) \/ Subscribe(r) \/ Receive(r) \/ CloseStream(r)
             \/ \E t \in Tab : LoadVerified(t, r)
      PROVE  Inv'
  <2>1. UNCHANGED <<req, tokens>>
    BY <1>4 DEF OpenStream, Subscribe, Receive, CloseStream, LoadVerified
  <2> QED BY <2>1, IdleStep
<1>5. ASSUME NEW r \in Request, NEW w \in Worker, RedeemAuthCode(w, r) PROVE Inv'
  BY <1>5, RedeemInv
<1>6. ASSUME NEW r \in Request, NEW w \in Worker, RotateRefreshToken(w, r) PROVE Inv'
  BY <1>6, RotateInv
<1>7. ASSUME NEW w \in Worker,
             \/ GetActiveByID(w) \/ IsGrantRevoked(w) \/ RecheckGrant(w) \/ RevokePresented(w)
             \/ \E r \in Request : HandleRevoke(w, r)
      PROVE  Inv'
  BY <1>7, TokenCallInv
<1>8. ASSUME NEW w \in Worker, IssueTokens(w) PROVE Inv'
  BY <1>8, IssueInv
<1>9. CASE \/ \E c \in UserCode : ClaimVerified(c) \/ ClaimMismatch(c)
           \/ DenyRecentForSender
  BY <1>9, BotInv
<1>10. CASE \/ \E c \in UserCode : OtherRequest(c) \/ IndexExpires(c)
            \/ RememberStop \/ RememberFails \/ PointerExpires \/ DenyExpires
  <2>1. UNCHANGED <<req, tokens>>
    BY <1>10 DEF OtherRequest, IndexExpires, RememberStop, RememberFails, PointerExpires, DenyExpires
  <2> QED BY <2>1, IdleStep
<1>11. ASSUME NEW t \in Tab, Upsert(t) \/ GetActiveByClientIdentity(t) PROVE Inv'
  <2>1. UNCHANGED <<req, code, worker, family, issued, dead>>
    BY <1>11 DEF Upsert, GetActiveByClientIdentity, tokens
  <2> QED BY <2>1, ElsewhereInv
<1>12. ASSUME NEW t \in Tab, Finalize(t) PROVE Inv'
  BY <1>12, FinalizeInv
<1>13. CASE Abandon
  BY <1>13, AbandonInv
<1>14. CASE RevokeByGrant
  BY <1>14, RevokeByGrantInv
<1>15. CASE \/ \E all \in BOOLEAN : StartRevoke(all)
            \/ RevokeGrant \/ DisableApp \/ PublishGrantRevoked
            \/ \E enabled \in BOOLEAN : ChangeApp(enabled)
            \/ \E n \in {"app", "grant"} : NoticeLost(n)
            \/ MarkGrantRevoked \/ HandleAppChanged
  <2>1. UNCHANGED <<req, code, worker, family, issued, dead>>
    BY <1>15 DEF StartRevoke, RevokeGrant, DisableApp, PublishGrantRevoked, ChangeApp,
                 NoticeLost, MarkGrantRevoked, HandleAppChanged, handlers, browser
  <2> QED BY <2>1, ElsewhereInv
<1>16. CASE UNCHANGED vars
  BY <1>16, ElsewhereInv DEF vars
<1> QED
  BY <1>1, <1>2, <1>3, <1>4, <1>5, <1>6, <1>7, <1>8, <1>9, <1>10, <1>11, <1>12, <1>13,
     <1>14, <1>15, <1>16 DEF Next, Watch

-----------------------------------------------------------------------------
\* The calls that exchange a request's code are at most one.
LEMMA OneExchange ==
    ASSUME Inv, NEW r \in Request
    PROVE  LET S == {w \in Worker : worker[w].pc \in {"redeemed", "issue"} /\ worker[w].req = r}
           IN  \/ S = {} /\ Cardinality(S) = 0
               \/ S # {} /\ Cardinality(S) = 1 /\ code[r] = 0 /\ issued[r] = 0 /\ Spent(r)
<1> DEFINE S == {w \in Worker : worker[w].pc \in {"redeemed", "issue"} /\ worker[w].req = r}
<1>1. Once(r)
  BY DEF Inv
<1>2. \A w \in S : w \in Worker /\ Exchanging(w, r)
  BY DEF Exchanging
<1>3. CASE S = {}
  BY <1>3, FS_EmptySet
<1>4. CASE S # {}
  <2>1. PICK w \in S : TRUE
    BY <1>4
  <2>2. \A v \in S : v = w
    BY <1>1, <1>2 DEF Once
  <2>3. S = {w}
    BY <2>2
  <2>4. Cardinality(S) = 1
    BY <2>3, FS_Singleton
  <2>5. code[r] = 0 /\ issued[r] = 0 /\ Spent(r)
    BY <1>1, <1>2, <2>1 DEF Once
  <2> QED BY <1>4, <2>4, <2>5
<1> QED BY <1>3, <1>4

\* A login yields at most one token set, however many tabs finalize it and however
\* many calls present its code.
THEOREM LoginYieldsOnce == Spec => []OneTokenSet
<1>1. Inv => OneTokenSet
  <2> SUFFICES ASSUME Inv, NEW r \in Request PROVE Yield(r) <= 1
    BY DEF OneTokenSet
  <2>1. code[r] \in Nat /\ issued[r] \in Nat /\ code[r] + issued[r] <= 1
    BY DEF Inv, Types, Once
  <2> DEFINE S == {w \in Worker : worker[w].pc \in {"redeemed", "issue"} /\ worker[w].req = r}
  <2>2. Cardinality(S) = 0 \/ (Cardinality(S) = 1 /\ code[r] = 0 /\ issued[r] = 0)
    BY OneExchange
  <2>3. Yield(r) = code[r] + issued[r] + Cardinality(S)
    BY DEF Yield
  <2> HIDE DEF S
  <2> QED BY <2>1, <2>2, <2>3
<1> QED BY <1>1, InitInv, NextInv, PTL DEF Spec

\* A login that was stopped, cancelled or ran out has yielded nothing, whichever
\* finalization or exchange raced the denial.
THEOREM DenialYieldsNothing == Spec => []DeniedGetsNothing
<1>1. Inv => DeniedGetsNothing
  <2> SUFFICES ASSUME Inv, NEW r \in Request, req[r].status \in {"denied", "expired"}
               PROVE  Yield(r) = 0
    BY DEF DeniedGetsNothing
  <2>1. ~Spent(r)
    BY DEF Spent
  <2>2. code[r] = 0 /\ issued[r] = 0
    BY <2>1 DEF Inv, Once
  <2> QED BY <2>1, <2>2, OneExchange DEF Yield
<1> QED BY <1>1, InitInv, NextInv, PTL DEF Spec

\* One refresh token of a family can be rotated, and none once the family was
\* revoked, for any number of concurrent rotations and revocations.
THEOREM FamilyHasOneHeir == Spec => []OneHeir
<1>1. Inv => OneHeir
  BY DEF Inv, Heirs, OneHeir
<1> QED BY <1>1, InitInv, NextInv, PTL DEF Spec
=============================================================================
