------------------------------- MODULE Login -------------------------------
(***************************************************************************)
(* Login with WhatsApp: the browser's pending request, the code the user   *)
(* sends to the bot, the authorization code, and the refresh tokens.       *)
(*                                                                         *)
(* The module is about one OAuth application, one WhatsApp user, hence one *)
(* grant.  Other users' requests are seen in the user codes they take and  *)
(* give back.  A Redis script is one action, and so is a SQL transaction;  *)
(* the handlers around them are sequences of actions that interleave.  A   *)
(* deadline passes when the request turns late; its Redis key goes later.  *)
(***************************************************************************)
EXTENDS Naturals, Sequences, FiniteSets

CONSTANTS
    Request,       \* browser codes: the user's login attempts
    NoRequest,     \* no login attempt
    UserCode,      \* six-digit codes; few, so that requests collide
    NoCode,        \* no user code
    Tab,           \* browser calls of finalize
    Worker,        \* calls of the application's token and revoke endpoints
    MaxAttempts,   \* mismatches that deny a request (10 in claimScript)
    MaxRotations,  \* bound: rotations of a refresh token family
    MaxAdmin       \* bound: operations of an administrator

ASSUME LoginAssumption ==
    /\ NoRequest \notin Request /\ NoCode \notin UserCode
    /\ MaxAttempts \in Nat \ {0} /\ MaxRotations \in Nat
    /\ MaxAdmin \in Nat

VARIABLES
    req,      \* oauth2:req: and the handler that mints it
    index,    \* oauth2:usercode: what a user code names
    bot,      \* LoginInterceptor: [pc, req, stop], stop being oauth2:stop:sender
    stream,   \* HandleWaitStream of each request
    tab,      \* HandleFinalize calls
    code,     \* authorization codes of a request that can be redeemed
    worker,   \* HandleToken and HandleRevoke calls
    grant,    \* the oauth_grants row
    family,   \* refresh tokens a request led to, oldest first
    issued,   \* token sets its authorization codes were exchanged for
    dead,     \* history: requests whose family was revoked
    admin,    \* OAuthAppService: the revocation under way
    bus,      \* the control bus: notices, and the requests still to be denied
    provider  \* [app, deny, operations]

vars == <<req, index, bot, stream, tab, code, worker, grant, family, issued, dead,
          admin, bus, provider>>

NoReq == [status |-> "none", late |-> FALSE, attempts |-> 0, code |-> NoCode]
Gone == [NoReq EXCEPT !.status = "gone", !.late = TRUE]
NoEntry == [kind |-> "none", req |-> NoRequest]
NoStream == [pc |-> "none", message |-> "none"]
IdleTab == [pc |-> "idle", req |-> NoRequest]
IdleAdmin == [pc |-> "idle", all |-> FALSE, listed |-> FALSE]

Init ==
    /\ req = [r \in Request |-> NoReq]
    /\ index = [c \in UserCode |-> NoEntry]
    /\ bot = [pc |-> "idle", req |-> NoRequest, stop |-> NoRequest]
    /\ stream = [r \in Request |-> NoStream]
    /\ tab = [t \in Tab |-> IdleTab]
    /\ code = [r \in Request |-> 0]
    /\ worker = [w \in Worker |-> IdleTab]
    /\ grant = "none"
    /\ family = [r \in Request |-> <<>>]
    /\ issued = [r \in Request |-> 0]
    /\ dead = {}
    /\ admin = IdleAdmin
    /\ bus = [notices |-> {}, scan |-> {}]
    /\ provider = [app |-> TRUE, deny |-> FALSE, operations |-> 0]

\* The key of a request is in Redis.
Stored(r) == req[r].status \in {"pending", "verified", "denied", "expired", "finalized"}

\* Load: the deadline in the value counts, whatever Redis has evicted.
Loads(r) == Stored(r) /\ ~req[r].late /\ req[r].status # "expired"

\* PUBLISH oauth2:login: the first message ends a listening stream.
Publish(r, status) ==
    stream' = [stream EXCEPT ![r].message =
        IF stream[r].pc = "listening" /\ @ = "none" THEN status ELSE @]

\* The entry of the request's code goes, whichever request it names by now.
Settle(r, status) ==
    /\ req' = [req EXCEPT ![r].status = status, ![r].attempts = 0]
    /\ index' = [index EXCEPT ![req[r].code] = NoEntry]

tokens == <<code, worker, grant, family, issued, dead>>
control == <<admin, bus, provider>>

-----------------------------------------------------------------------------
(***************************************************************************)
(* HandleAuthorize: the code is reserved, then the request is created.     *)
(***************************************************************************)
\* ReserveUserCode: SET NX of an empty value.
ReserveUserCode(r, c) ==
    /\ req[r].status = "none" /\ provider.app /\ index[c] = NoEntry
    /\ req' = [req EXCEPT ![r] = [NoReq EXCEPT !.status = "minting", !.code = c]]
    /\ index' = [index EXCEPT ![c].kind = "reserved"]
    /\ UNCHANGED <<bot, stream, tab, tokens, control>>

\* Another request of the session takes a code.
OtherRequest(c) ==
    /\ index[c] = NoEntry
    /\ index' = [index EXCEPT ![c].kind = "other"]
    /\ UNCHANGED <<req, bot, stream, tab, tokens, control>>

\* Create: an empty or missing index entry becomes the request's, another's is
\* a collision.
Create(r) ==
    LET c == req[r].code IN
    /\ req[r].status = "minting"
    /\ \/ /\ index[c].kind \in {"none", "reserved"}
          /\ req' = [req EXCEPT ![r].status = "pending"]
          /\ index' = [index EXCEPT ![c] = [kind |-> "open", req |-> r]]
       \/ /\ index[c].kind \notin {"none", "reserved"}
          /\ req' = [req EXCEPT ![r] = Gone] /\ UNCHANGED index
    /\ UNCHANGED <<bot, stream, tab, tokens, control>>

\* The handler stalls past the deadline, or its process dies: the reservation stays.
CreateFails(r) ==
    /\ req[r].status = "minting"
    /\ req' = [req EXCEPT ![r] = Gone]
    /\ UNCHANGED <<index, bot, stream, tab, tokens, control>>

-----------------------------------------------------------------------------
(***************************************************************************)
(* Time.                                                                   *)
(***************************************************************************)
Deadline(r) ==
    /\ Stored(r) /\ ~req[r].late
    /\ req' = [req EXCEPT ![r].late = TRUE]
    /\ UNCHANGED <<index, bot, stream, tab, tokens, control>>

\* Redis drops the key at the deadline, an expired request's a minute on.
Evict(r) ==
    /\ Stored(r) /\ (req[r].late \/ req[r].status = "expired")
    /\ req' = [req EXCEPT ![r] = Gone]
    /\ UNCHANGED <<index, bot, stream, tab, tokens, control>>

\* An entry lives as long as its request, a used one for at most a minute;
\* another's may go at any time.
IndexExpires(c) ==
    /\ \/ index[c].kind = "reserved"
          /\ \A r \in Request : req[r].status = "minting" => req[r].code # c
       \/ index[c].kind = "open" /\ (req[index[c].req].late \/ ~Stored(index[c].req))
       \/ index[c].kind \in {"used", "other"}
    /\ index' = [index EXCEPT ![c] = NoEntry]
    /\ UNCHANGED <<req, bot, stream, tab, tokens, control>>

\* The authorization code's TTL passes.
CodeExpires(r) ==
    /\ code[r] > 0
    /\ code' = [code EXCEPT ![r] = @ - 1]
    /\ UNCHANGED <<req, index, bot, stream, tab, worker, grant, family, issued, dead, control>>

\* isGrantRevoked forgets an entry after ten minutes.
DenyExpires ==
    /\ provider.deny
    /\ provider' = [provider EXCEPT !.deny = FALSE]
    /\ UNCHANGED <<req, index, bot, stream, tab, tokens, admin, bus>>

-----------------------------------------------------------------------------
(***************************************************************************)
(* LoginInterceptor.HandleLogin.                                           *)
(***************************************************************************)
\* claimScript: a request is verified, and its index entry spent, at most once.
\* The attempts of a request that is not pending are not read again.
ClaimVerified(c) ==
    LET r == index[c].req IN
    /\ bot.pc = "idle" /\ index[c].kind \in {"reserved", "open"}
    /\ IF index[c].kind = "open" /\ Stored(r) /\ ~req[r].late
       THEN /\ req[r].status = "pending"
            /\ req' = [req EXCEPT ![r].status = "verified", ![r].attempts = 0]
            /\ index' = [index EXCEPT ![c].kind = "used"]
            /\ Publish(r, "verified")
            /\ bot' = [bot EXCEPT !.pc = "remember", !.req = r]
       ELSE /\ index' = [index EXCEPT ![c] = NoEntry]
            /\ UNCHANGED <<req, bot, stream>>
    /\ UNCHANGED <<tab, tokens, control>>

LastAttempt(r) == req[r].attempts + 1 >= MaxAttempts

\* bump: the mode or the command is wrong and the sender is below its own limit.
ClaimMismatch(c) ==
    LET r == index[c].req IN
    /\ bot.pc = "idle" /\ index[c].kind = "open"
    /\ req[r].status = "pending" /\ ~req[r].late
    /\ \/ /\ ~LastAttempt(r)
          /\ req' = [req EXCEPT ![r].attempts = @ + 1]
          /\ UNCHANGED <<index, stream>>
       \/ /\ LastAttempt(r)
          /\ Settle(r, "denied") /\ Publish(r, "denied")
    /\ UNCHANGED <<bot, tab, tokens, control>>

RememberStop ==
    /\ bot.pc = "remember"
    /\ bot' = [pc |-> "idle", req |-> NoRequest, stop |-> bot.req]
    /\ UNCHANGED <<req, index, stream, tab, tokens, control>>

\* The write fails, or the process dies; the message handled again is already_used.
RememberFails ==
    /\ bot.pc = "remember"
    /\ bot' = [bot EXCEPT !.pc = "idle", !.req = NoRequest]
    /\ UNCHANGED <<req, index, stream, tab, tokens, control>>

PointerExpires ==
    /\ bot.stop # NoRequest
    /\ bot' = [bot EXCEPT !.stop = NoRequest]
    /\ UNCHANGED <<req, index, stream, tab, tokens, control>>

\* DenyRecentForSender: STOP denies a request that is verified, and no other.
DenyRecentForSender ==
    LET r == bot.stop IN
    /\ bot.pc = "idle" /\ r # NoRequest
    /\ req[r].status = "verified"
    /\ Settle(r, "denied") /\ Publish(r, "denied")
    /\ bot' = [bot EXCEPT !.stop = NoRequest]
    /\ UNCHANGED <<tab, tokens, control>>

-----------------------------------------------------------------------------
(***************************************************************************)
(* transitionScript and the browser's side of a request.                   *)
(***************************************************************************)
\* Mutant: whatever has a key can be changed.
OpenAny(allowVerified) == {"pending", "verified", "finalized"}

Open(allowVerified) == {"pending"} \union (IF allowVerified THEN {"verified"} ELSE {})

Transition(r, status, allowVerified) ==
    IF req[r].status \in Open(allowVerified)
    THEN Settle(r, status) /\ Publish(r, status)
    ELSE UNCHANGED <<req, index, stream>>

HandleCancel(r) ==
    /\ Stored(r)
    /\ Transition(r, "denied", FALSE)
    /\ UNCHANGED <<bot, tab, tokens, control>>

\* HandleWaitStream: what Load returned is the first frame, and ends the stream
\* unless the request is pending.
OpenStream(r) ==
    /\ stream[r].pc = "none" /\ Loads(r) /\ req[r].status = "pending"
    /\ stream' = [stream EXCEPT ![r].pc = "loaded"]
    /\ UNCHANGED <<req, index, bot, tab, tokens, control>>

\* A state published since Load is missed: no message of it comes.
Subscribe(r) ==
    /\ stream[r].pc = "loaded"
    /\ stream' = [stream EXCEPT ![r].pc = "listening"]
    /\ UNCHANGED <<req, index, bot, tab, tokens, control>>

Receive(r) ==
    /\ stream[r].pc = "listening" /\ stream[r].message # "none"
    /\ stream' = [stream EXCEPT ![r] = NoStream]
    /\ UNCHANGED <<req, index, bot, tab, tokens, control>>

\* Mutant: the stream goes on when there is no request to expire.
DeadlineFiresStored(r) ==
    /\ stream[r].pc = "listening" /\ Stored(r) /\ req[r].late
    /\ stream' = [stream EXCEPT ![r] = NoStream]
    /\ IF req[r].status = "pending" THEN Settle(r, "expired") ELSE UNCHANGED <<req, index>>
    /\ UNCHANGED <<bot, tab, tokens, control>>

\* The stream's deadline: the request expires if it is still pending, and the
\* browser is told that it did.
DeadlineFires(r) ==
    /\ stream[r].pc = "listening" /\ req[r].late
    /\ stream' = [stream EXCEPT ![r] = NoStream]
    /\ IF req[r].status = "pending" THEN Settle(r, "expired") ELSE UNCHANGED <<req, index>>
    /\ UNCHANGED <<bot, tab, tokens, control>>

\* The page goes away; it may come back.
CloseStream(r) ==
    /\ stream[r].pc # "none"
    /\ stream' = [stream EXCEPT ![r] = NoStream]
    /\ UNCHANGED <<req, index, bot, tab, tokens, control>>

-----------------------------------------------------------------------------
(***************************************************************************)
(* HandleFinalize: three steps, which STOP, an administrator or a second   *)
(* call may come between.                                                  *)
(***************************************************************************)
TabAt(t, pc) == tab[t].pc = pc
TabGoes(t, pc) == tab' = [tab EXCEPT ![t].pc = pc]
TabEnds(t) == tab' = [tab EXCEPT ![t] = IdleTab]

\* A finalized request is answered with its redirect as it stands.
LoadVerified(t, r) ==
    /\ TabAt(t, "idle") /\ Loads(r) /\ req[r].status = "verified"
    /\ tab' = [tab EXCEPT ![t] = [pc |-> "upsert", req |-> r]]
    /\ UNCHANGED <<req, index, bot, stream, tokens, control>>

\* Upsert: consent given again clears revoked_at of the one grant.
Upsert(t) ==
    /\ TabAt(t, "upsert") /\ TabGoes(t, "get")
    /\ grant' = "active"
    /\ UNCHANGED <<req, index, bot, stream, code, worker, family, issued, dead, control>>

GetActiveByClientIdentity(t) ==
    /\ TabAt(t, "get")
    /\ IF grant = "active" THEN TabGoes(t, "finalize") ELSE TabEnds(t)
    /\ UNCHANGED <<req, index, bot, stream, tokens, control>>

Finalizes(r) ==
    /\ req' = [req EXCEPT ![r].status = "finalized"]
    /\ code' = [code EXCEPT ![r] = @ + 1]

\* Mutant: a finalized request is finalized again.
FinalizeTwice(r) ==
    IF req[r].status \in {"verified", "finalized"} /\ ~req[r].late THEN Finalizes(r)
    ELSE UNCHANGED <<req, code>>

\* finalizeScript: the code is stored with the change to finalized.
FinalizeScript(r) ==
    IF req[r].status = "verified" /\ ~req[r].late THEN Finalizes(r)
    ELSE UNCHANGED <<req, code>>

Finalize(t) ==
    /\ TabAt(t, "finalize") /\ TabEnds(t)
    /\ FinalizeScript(tab[t].req)
    /\ UNCHANGED <<index, bot, stream, worker, grant, family, issued, dead, control>>

-----------------------------------------------------------------------------
(***************************************************************************)
(* HandleToken and HandleRevoke.  A token is [consumed, revoked].          *)
(***************************************************************************)
browser == <<req, index, bot, stream, tab>>
NewToken == [consumed |-> FALSE, revoked |-> FALSE]

WorkerAt(w, pc) == worker[w].pc = pc
WorkerTakes(w, pc, r) == worker' = [worker EXCEPT ![w] = [pc |-> pc, req |-> r]]
WorkerEnds(w) == worker' = [worker EXCEPT ![w] = IdleTab]

Revoked(fam) == [i \in DOMAIN fam |-> [fam[i] EXCEPT !.revoked = TRUE]]

RevokeFamily(r) ==
    /\ family' = [family EXCEPT ![r] = Revoked(@)]
    /\ dead' = dead \union {r}

\* GETDEL of the code, which is spent even if the exchange fails.
RedeemAuthCode(w, r) ==
    /\ WorkerAt(w, "idle") /\ provider.app /\ code[r] > 0
    /\ code' = [code EXCEPT ![r] = @ - 1]
    /\ WorkerTakes(w, "redeemed", r)
    /\ UNCHANGED <<browser, grant, family, issued, dead, control>>

GetActiveByID(w) ==
    /\ WorkerAt(w, "redeemed")
    /\ IF grant = "active" THEN WorkerTakes(w, "issue", worker[w].req) ELSE WorkerEnds(w)
    /\ UNCHANGED <<browser, code, grant, family, issued, dead, control>>

\* issueTokens, with a refresh token of a new family if offline_access was granted.
IssueTokens(w) ==
    LET r == worker[w].req IN
    /\ WorkerAt(w, "issue") /\ WorkerEnds(w)
    /\ issued' = [issued EXCEPT ![r] = @ + 1]
    /\ \/ family' = [family EXCEPT ![r] = Append(@, NewToken)]
       \/ UNCHANGED family
    /\ UNCHANGED <<browser, code, grant, dead, control>>

\* Mutant: a revoked token rotates like any other.
RotateRevoked(w, r, i) ==
    /\ family[r][i].consumed = FALSE /\ grant = "active" /\ Len(family[r]) <= MaxRotations
    /\ family' = [family EXCEPT ![r] = Append([@ EXCEPT ![i].consumed = TRUE], NewToken)]
    /\ WorkerTakes(w, "rotated", r)
    /\ UNCHANGED dead

\* rotateRefreshToken: a token is consumed with the insertion of its successor;
\* one that was consumed before takes the family with it.
Rotate(w, r, i) ==
    \/ /\ family[r][i].consumed
       /\ RevokeFamily(r) /\ UNCHANGED worker
    \/ /\ family[r][i] = NewToken /\ grant = "active" /\ Len(family[r]) <= MaxRotations
       /\ family' = [family EXCEPT ![r] = Append([@ EXCEPT ![i].consumed = TRUE], NewToken)]
       /\ WorkerTakes(w, "rotated", r)
       /\ UNCHANGED dead

RotateRefreshToken(w, r) ==
    /\ WorkerAt(w, "idle") /\ provider.app
    /\ \E i \in DOMAIN family[r] : Rotate(w, r, i)
    /\ UNCHANGED <<browser, code, grant, issued, control>>

\* isGrantRevoked, then the grant again: either takes the family with it.
IsGrantRevoked(w) ==
    /\ WorkerAt(w, "rotated")
    /\ IF provider.deny
       THEN RevokeFamily(worker[w].req) /\ WorkerEnds(w)
       ELSE WorkerTakes(w, "recheck", worker[w].req) /\ UNCHANGED <<family, dead>>
    /\ UNCHANGED <<browser, code, grant, issued, control>>

RecheckGrant(w) ==
    /\ WorkerAt(w, "recheck") /\ WorkerEnds(w)
    /\ IF grant = "active" THEN UNCHANGED <<family, dead>> ELSE RevokeFamily(worker[w].req)
    /\ UNCHANGED <<browser, code, grant, issued, control>>

\* HandleRevoke of a token whose grant is active: the whole family.
HandleRevoke(w, r) ==
    /\ WorkerAt(w, "idle") /\ provider.app /\ grant = "active" /\ family[r] # <<>>
    /\ WorkerTakes(w, "revoke", r)
    /\ UNCHANGED <<browser, code, grant, family, issued, dead, control>>

RevokePresented(w) ==
    /\ WorkerAt(w, "revoke") /\ WorkerEnds(w)
    /\ RevokeFamily(worker[w].req)
    /\ UNCHANGED <<browser, code, grant, issued, control>>

\* The caller goes away or the process dies: what is done stays done.
Abandon ==
    /\ \/ \E w \in Worker : ~WorkerAt(w, "idle") /\ WorkerEnds(w) /\ UNCHANGED tab
       \/ \E t \in Tab : ~TabAt(t, "idle") /\ TabEnds(t) /\ UNCHANGED worker
    /\ UNCHANGED <<req, index, bot, stream, code, grant, family, issued, dead, control>>

-----------------------------------------------------------------------------
(***************************************************************************)
(* OAuthAppService and the control bus.  RevokeGrant revokes the tokens,   *)
(* then the grant, then publishes; revokeClientGrants lists the active     *)
(* grants first, and a disabled or deleted application goes before the     *)
(* publication.                                                            *)
(***************************************************************************)
handlers == <<browser, code, worker, issued>>

\* "all": the application is deleted or its session logged out.
StartRevoke(all) ==
    /\ admin.pc = "idle" /\ provider.operations < MaxAdmin
    /\ grant # "none" \/ all
    /\ admin' = [pc |-> "tokens", all |-> all, listed |-> grant = "active"]
    /\ provider' = [provider EXCEPT !.operations = @ + 1]
    /\ UNCHANGED <<handlers, grant, family, dead, bus>>

RevokeByGrant ==
    /\ admin.pc = "tokens"
    /\ family' = [r \in Request |-> Revoked(family[r])]
    /\ dead' = dead \union {r \in Request : family[r] # <<>>}
    /\ admin' = [admin EXCEPT !.pc = "grant"]
    /\ UNCHANGED <<handlers, grant, bus, provider>>

\* Revoke of a grant that is revoked is an error, and nothing is published.
RevokeGrant ==
    /\ admin.pc = "grant"
    /\ grant' = IF grant = "active" THEN "revoked" ELSE grant
    /\ admin' = IF grant = "active" \/ admin.all
                THEN [admin EXCEPT !.pc = IF admin.all THEN "app" ELSE "publish",
                                   !.listed = @ \/ ~admin.all]
                ELSE IdleAdmin
    /\ UNCHANGED <<handlers, family, dead, bus, provider>>

DisableApp ==
    /\ admin.pc = "app"
    /\ provider' = [provider EXCEPT !.app = FALSE]
    /\ bus' = [bus EXCEPT !.notices = @ \union {"app"}]
    /\ admin' = [admin EXCEPT !.pc = "publish"]
    /\ UNCHANGED <<handlers, grant, family, dead>>

PublishGrantRevoked ==
    /\ admin.pc = "publish"
    /\ bus' = [bus EXCEPT !.notices = IF admin.listed THEN @ \union {"grant"} ELSE @]
    /\ admin' = IdleAdmin
    /\ UNCHANGED <<handlers, grant, family, dead, provider>>

\* Update, RotateSecret and SetEnabled.
ChangeApp(enabled) ==
    /\ provider.operations < MaxAdmin
    /\ provider' = [provider EXCEPT !.app = enabled, !.operations = @ + 1]
    /\ bus' = [bus EXCEPT !.notices = @ \union {"app"}]
    /\ UNCHANGED <<handlers, grant, family, dead, admin>>

NoticeLost(n) ==
    /\ n \in bus.notices
    /\ bus' = [bus EXCEPT !.notices = @ \ {n}]
    /\ UNCHANGED <<handlers, grant, family, dead, admin, provider>>

MarkGrantRevoked ==
    /\ "grant" \in bus.notices
    /\ bus' = [bus EXCEPT !.notices = @ \ {"grant"}]
    /\ provider' = [provider EXCEPT !.deny = TRUE]
    /\ UNCHANGED <<handlers, grant, family, dead, admin>>

\* DenyClientPending scans the keys and puts each through transitionScript.
HandleAppChanged ==
    /\ "app" \in bus.notices /\ bus.scan = {}
    /\ bus' = [notices |-> bus.notices \ {"app"}, scan |-> {r \in Request : Stored(r)}]
    /\ UNCHANGED <<handlers, grant, family, dead, admin, provider>>

DenyClientPending(r) ==
    /\ r \in bus.scan
    /\ bus' = [bus EXCEPT !.scan = @ \ {r}]
    /\ Transition(r, "denied", TRUE)
    /\ UNCHANGED <<bot, tab, tokens, admin, provider>>

-----------------------------------------------------------------------------
Watch(r) == Subscribe(r) \/ Receive(r) \/ DeadlineFires(r)

Next ==
    \/ \E r \in Request :
          \/ \E c \in UserCode : ReserveUserCode(r, c)
          \/ Create(r) \/ CreateFails(r) \/ Deadline(r) \/ Evict(r) \/ CodeExpires(r)
          \/ HandleCancel(r) \/ OpenStream(r) \/ Watch(r) \/ CloseStream(r)
          \/ \E t \in Tab : LoadVerified(t, r)
          \/ \E w \in Worker : RedeemAuthCode(w, r) \/ RotateRefreshToken(w, r) \/ HandleRevoke(w, r)
          \/ DenyClientPending(r)
    \/ \E c \in UserCode : OtherRequest(c) \/ IndexExpires(c) \/ ClaimVerified(c) \/ ClaimMismatch(c)
    \/ RememberStop \/ RememberFails \/ PointerExpires \/ DenyRecentForSender
    \/ \E t \in Tab : Upsert(t) \/ GetActiveByClientIdentity(t) \/ Finalize(t)
    \/ \E w \in Worker : \/ GetActiveByID(w) \/ IssueTokens(w) \/ IsGrantRevoked(w)
                         \/ RecheckGrant(w) \/ RevokePresented(w)
    \/ Abandon \/ DenyExpires
    \/ \E all \in BOOLEAN : StartRevoke(all)
    \/ RevokeByGrant \/ RevokeGrant \/ DisableApp \/ PublishGrantRevoked
    \/ \E enabled \in BOOLEAN : ChangeApp(enabled)
    \/ \E n \in {"app", "grant"} : NoticeLost(n)
    \/ MarkGrantRevoked \/ HandleAppChanged

Spec == Init /\ [][Next]_vars

\* Time passes, and a stream's handler runs.
Fairness == \A r \in Request : WF_vars(Deadline(r)) /\ WF_vars(Watch(r))

FairSpec == Spec /\ Fairness

-----------------------------------------------------------------------------
(***************************************************************************)
(* Properties.                                                             *)
(***************************************************************************)
TypeOK ==
    /\ req \in [Request -> [status: {"none", "minting", "pending", "verified", "denied",
                                     "expired", "finalized", "gone"},
                            late: BOOLEAN, attempts: 0..(MaxAttempts - 1), code: UserCode \union {NoCode}]]
    /\ index \in [UserCode -> [kind: {"none", "reserved", "open", "used", "other"},
                               req: Request \union {NoRequest}]]
    /\ bot \in [pc: {"idle", "remember"}, req: Request \union {NoRequest},
                stop: Request \union {NoRequest}]
    /\ stream \in [Request -> [pc: {"none", "loaded", "listening"},
                               message: {"none", "verified", "denied", "expired"}]]
    /\ tab \in [Tab -> [pc: {"idle", "upsert", "get", "finalize"}, req: Request \union {NoRequest}]]
    /\ worker \in [Worker -> [pc: {"idle", "redeemed", "issue", "rotated", "recheck", "revoke"},
                              req: Request \union {NoRequest}]]
    /\ code \in [Request -> Nat] /\ issued \in [Request -> Nat]
    /\ grant \in {"none", "active", "revoked"} /\ dead \subseteq Request
    /\ \A r \in Request : \A i \in DOMAIN family[r] :
           family[r][i] \in [consumed: BOOLEAN, revoked: BOOLEAN]
    /\ admin \in [pc: {"idle", "tokens", "grant", "app", "publish"}, all: BOOLEAN, listed: BOOLEAN]
    /\ bus.notices \subseteq {"app", "grant"} /\ bus.scan \subseteq Request

\* What a request has led to: a code, an exchange under way, or token sets.
Yield(r) ==
    code[r] + issued[r] + Cardinality({w \in Worker : /\ worker[w].pc \in {"redeemed", "issue"}
                                                      /\ worker[w].req = r})

\* A login yields at most one token set, however often the browser finalizes it
\* and the application presents its codes.
OneTokenSet == \A r \in Request : Yield(r) <= 1

\* Cancelling, stopping or expiring never overtakes a finalization: a denied or
\* expired request has yielded nothing.
DeniedGetsNothing ==
    \A r \in Request : req[r].status \in {"denied", "expired"} => Yield(r) = 0

\* A family has one token that can still be rotated; once the family is revoked,
\* by reuse, by the application or by an administrator, it never has one again.
OneHeir ==
    \A r \in Request : \A i, j \in DOMAIN family[r] :
        family[r][i] = NewToken /\ family[r][j] = NewToken => i = j /\ r \notin dead

\* No browser is left waiting: a stream ends at the request's deadline at the
\* latest, also one that missed the news and whose request is gone.
StreamsEnd == <>[](\A r \in Request : stream[r] = NoStream)
=============================================================================
