----------------------------- MODULE Enrollment -----------------------------
(***************************************************************************)
(* How one gateway obtains, renews and loses its mTLS credential.          *)
(*                                                                         *)
(* API: an operator creates the gateway with a one-time token, may replace *)
(* the token, disable, re-enable, re-enrol and delete the gateway.  A      *)
(* handler redeems a token in three phases: lease it in one transaction,   *)
(* sign outside MySQL, persist the certificate in a second transaction; it *)
(* then recovers an ambiguous commit and releases a lease it could not use.*)
(* Renewal is the same shape, fenced by the incumbent certificate.         *)
(*                                                                         *)
(* Gateway: the identity directory holds at most one pending key with its  *)
(* CSR, one generation per installed certificate and two pointers.  The    *)
(* client repeats the RPC with the pending CSR until it gets an answer.    *)
(*                                                                         *)
(* Every transaction locks the gateway's row, so gateways are independent  *)
(* and the module is about one.  A CSR stands for its key: CSR n is the    *)
(* n-th the gateway generated.  Validity of keys, chains and CSRs is not   *)
(* modelled beyond the branch an invalid CSR takes; time is the events     *)
(* "lease ran out", "token expired" and "certificate expired".             *)
(***************************************************************************)
EXTENDS Naturals, FiniteSets

CONSTANTS
    Request,      \* handlers of the enrolment service that may run at once
    NoRequest,    \* the client waits for no answer
    Reported,     \* the lifecycle states the gateway reports
    MaxAttempts,  \* EnrollmentConfig.MaxAttempts
    MaxTokens,    \* bound: tokens issued
    MaxCsr,       \* bound: keys the gateway generates
    MaxAdmin,     \* bound: operator transitions
    MaxFaults     \* bound: crashes, lost answers, signer and commit failures

ASSUME EnrollmentAssumption ==
    /\ NoRequest \notin Request
    /\ Reported \subseteq {"joining", "active", "draining", "drained", "degraded"}
    /\ MaxAttempts \in Nat \ {0} /\ MaxTokens \in Nat \ {0} /\ MaxCsr \in Nat
    /\ MaxAdmin \in Nat /\ MaxFaults \in Nat

VARIABLES
    gateway,   \* gateways: [status, enrolled, deleted, desired]
    issued,    \* how many tokens were issued; the last one is the newest
    token,     \* gateway_enrollment_tokens
    cert,      \* gateway_certificates, one row per (gateway, csr_sha256)
    request,   \* the RPC handlers
    disk,      \* the identity directory: [made, lost, pending, gens, current, previous]
    node,      \* the gateway process: [phase, token, active, waiting, serial, conn]
    placement, \* session creation: [picked, assigned]
    admin,     \* operator transitions so far
    faults     \* faults so far

mysql == <<gateway, issued, token, cert>>
process == <<disk, node>>
books == <<admin, faults>>
vars == <<mysql, request, process, placement, books>>

Token == 1..MaxTokens
Csr == 1..MaxCsr
NoCsr == 0
Lifecycle == {"joining", "active", "draining", "drained", "degraded"}

\* Certificates of one CSR are told apart by who had them signed: the token's
\* attempt for an enrolment, the handler for a renewal.
NoSerial == [attempt |-> 0, by |-> NoRequest]

NoToken == [status |-> "none", attempts |-> 0, nonce |-> 0, csr |-> NoCsr,
            leased |-> FALSE, expired |-> FALSE]
NoCert == [kind |-> "none", token |-> 0, serial |-> NoSerial,
           revoked |-> FALSE, expired |-> FALSE, era |-> 0]
NoWork == [pc |-> "idle", token |-> 0, csr |-> NoCsr, nonce |-> 0,
           incumbent |-> NoCsr, result |-> "none", serial |-> NoSerial]

Down == [phase |-> "down", token |-> 0, active |-> NoCsr, waiting |-> NoRequest,
         serial |-> NoSerial, conn |-> FALSE]
EmptyDisk == [made |-> 0, lost |-> 0, pending |-> NoCsr,
              gens |-> [c \in Csr |-> NoSerial], current |-> NoCsr, previous |-> NoCsr]

-----------------------------------------------------------------------------
(***************************************************************************)
(* Shared vocabulary.                                                      *)
(***************************************************************************)
gatewayPending == gateway.status = "pending_enrollment" /\ ~gateway.deleted

gatewayRecoveryEligible ==
    ~gateway.deleted /\ gateway.status \in {"joining", "active", "draining", "drained"}

Live(t) == token[t].status \in {"active", "redeeming"}

Exists(c) == cert[c].kind # "none"

\* getByTokenCSR with certificateMatches: revoked_at is not consulted.
Replayable(t, c) ==
    cert[c].kind = "enrollment" /\ cert[c].token = t /\ ~cert[c].expired

\* AuthorizeGatewayCertificate, on every authenticated RPC.
Authorized(c) ==
    /\ ~gateway.deleted /\ gateway.status # "disabled"
    /\ c # NoCsr /\ Exists(c) /\ ~cert[c].revoked /\ ~cert[c].expired

\* The nonce, the CSR and the lease of a redemption are set and cleared together.
Unleased(tok, status) ==
    [tok EXCEPT !.status = status, !.nonce = 0, !.csr = NoCsr, !.leased = FALSE]

Holds(r) ==
    LET tok == token[request[r].token] IN
    /\ tok.status = "redeeming"
    /\ tok.nonce = request[r].nonce /\ tok.csr = request[r].csr

\* The handler moves on, ends with an error, or ends with a certificate.
Goes(r, pc) == request' = [request EXCEPT ![r].pc = pc]
Fails(r, result) ==
    request' = [request EXCEPT ![r] = [@ EXCEPT !.pc = "answer", !.result = result]]
Returns(r, serial) ==
    request' = [request EXCEPT ![r] =
                  [@ EXCEPT !.pc = "answer", !.result = "ok", !.serial = serial]]

Fault == faults < MaxFaults /\ faults' = faults + 1
Operator == admin < MaxAdmin /\ admin' = admin + 1

\* revokeLiveByGateway.
RevokeLive ==
    [t \in Token |-> IF Live(t) THEN Unleased(token[t], "revoked") ELSE token[t]]

Issue(tokens) ==
    /\ issued < MaxTokens
    /\ issued' = issued + 1
    /\ token' = [tokens EXCEPT ![issued + 1] =
                    [NoToken EXCEPT !.status = "active"]]

\* CreatePendingWithToken: the gateway and its first token, one transaction.
Init ==
    /\ gateway = [status |-> "pending_enrollment", enrolled |-> FALSE,
                  deleted |-> FALSE, desired |-> "run"]
    /\ issued = 1
    /\ token = [t \in Token |->
                  IF t = 1 THEN [NoToken EXCEPT !.status = "active"] ELSE NoToken]
    /\ cert = [c \in Csr |-> NoCert]
    /\ request = [r \in Request |-> NoWork]
    /\ disk = EmptyDisk /\ node = Down
    /\ placement = [picked |-> FALSE, assigned |-> FALSE]
    /\ admin = 0 /\ faults = 0

-----------------------------------------------------------------------------
(***************************************************************************)
(* RedeemWithInput: lease, sign, persist, recover, release.                *)
(***************************************************************************)
\* Mutant: a lease that ran out is not reclaimed.
LeasableActive(t, c) == token[t].status = "active"

\* The token takes a new lease: it is active, or the same CSR reclaims a lease
\* that ran out.
Leasable(t, c) ==
    \/ token[t].status = "active"
    \/ token[t].status = "redeeming" /\ token[t].csr = c /\ ~token[t].leased

Begin(t, c) ==
    token' = [token EXCEPT ![t] =
        [@ EXCEPT !.status = "redeeming", !.csr = c, !.leased = TRUE,
                  !.attempts = token[t].attempts + 1, !.nonce = token[t].attempts + 1]]

\* AcquireEnrollmentLease, with the credential lookup before it (the token's
\* digest never changes).
Acquire(r) ==
    LET t == request[r].token
        c == request[r].csr
        tok == token[t]
    IN
    /\ request[r].pc = "acquire"
    /\ \/ /\ tok.status = "consumed"
          /\ \/ gatewayRecoveryEligible /\ Replayable(t, c) /\ Returns(r, cert[c].serial)
             \/ ~(gatewayRecoveryEligible /\ Replayable(t, c)) /\ Fails(r, "denied")
          /\ UNCHANGED token
       \/ /\ tok.status = "revoked" \/ (tok.status # "consumed" /\ tok.expired)
          /\ Fails(r, "denied") /\ UNCHANGED token
       \/ /\ tok.status = "locked" /\ ~tok.expired
          /\ Fails(r, "retry") /\ UNCHANGED token
       \/ /\ Live(t) /\ ~tok.expired /\ tok.attempts >= MaxAttempts
          /\ token' = [token EXCEPT ![t] =
                [Unleased(tok, "locked") EXCEPT !.attempts = MaxAttempts]]
          /\ Fails(r, "retry")
       \/ /\ Live(t) /\ ~tok.expired /\ tok.attempts < MaxAttempts
          /\ \/ /\ ~Leasable(t, c)
                /\ Fails(r, IF tok.csr = c THEN "retry" ELSE "denied")
                /\ UNCHANGED token
             \/ /\ Leasable(t, c)
                /\ Begin(t, c)
                /\ request' = [request EXCEPT ![r] =
                      [@ EXCEPT !.pc = "sign", !.nonce = tok.attempts + 1]]
    /\ UNCHANGED <<gateway, issued, cert, process, placement, books>>

\* The same transaction for a CSR that does not validate (it names another
\* gateway): it costs an attempt, and the last one locks the token.
AcquireInvalidCSR(t) ==
    /\ token[t].status = "active" /\ ~token[t].expired
    /\ token[t].attempts < MaxAttempts
    /\ Fault
    /\ token' = [token EXCEPT ![t] =
          [@ EXCEPT !.attempts = token[t].attempts + 1,
                    !.status = IF token[t].attempts + 1 >= MaxAttempts
                               THEN "locked" ELSE "active"]]
    /\ UNCHANGED <<gateway, issued, cert, request, process, placement, admin>>

\* signEnrollment and ValidateSignedGateway: within the deadline, outside MySQL.
Sign(r) ==
    /\ request[r].pc = "sign"
    /\ request' = [request EXCEPT ![r] = [@ EXCEPT !.pc = "finalize",
                      !.serial = [attempt |-> request[r].nonce, by |-> NoRequest]]]
    /\ UNCHANGED <<mysql, process, placement, books>>

\* The signer fails, its output is invalid, or the deadline passed before it.
SignFails(r) ==
    /\ request[r].pc = "sign" /\ Fault
    /\ request' = [request EXCEPT ![r] = [@ EXCEPT !.pc = "release", !.result = "retry"]]
    /\ UNCHANGED <<mysql, process, placement, admin>>

\* FinalizeEnrollmentIssuance commits: the certificate row, the gateway's
\* transition and the consumed token.  An insert that collides on (gateway, CSR)
\* is forgiven only if the row belongs to this very token.
Collides(r) == Exists(request[r].csr)
OwnRow(r) ==
    cert[request[r].csr].kind = "enrollment" /\ cert[request[r].csr].token = request[r].token

\* Mutant: the second transaction does not look at the token it leased again.
CanFinalizeUnheld(r) ==
    gatewayPending /\ ~Collides(r)

CanFinalize(r) ==
    /\ Holds(r) /\ token[request[r].token].leased
    /\ Collides(r) => OwnRow(r)
    /\ \/ gatewayPending
       \/ Collides(r) /\ ~gateway.deleted /\ gateway.status = "joining"

\* Mutant: the token is released, not consumed.
FinalizeUnconsumed(r) ==
    LET t == request[r].token
        c == request[r].csr
    IN
    /\ CanFinalize(r)
    /\ cert' = [cert EXCEPT ![c] =
                  [NoCert EXCEPT !.kind = "enrollment", !.token = t,
                                 !.serial = request[r].serial, !.era = t]]
    /\ gateway' = [gateway EXCEPT !.status = "joining", !.enrolled = TRUE]
    /\ token' = [token EXCEPT ![t] = Unleased(@, "active")]
    /\ UNCHANGED issued

FinalizeEnrollmentIssuance(r) ==
    LET t == request[r].token
        c == request[r].csr
    IN
    /\ CanFinalize(r)
    /\ cert' = IF Collides(r) THEN cert
               ELSE [cert EXCEPT ![c] =
                       [NoCert EXCEPT !.kind = "enrollment", !.token = t,
                                      !.serial = request[r].serial, !.era = t]]
    /\ gateway' = [gateway EXCEPT !.status = "joining",
                                  !.enrolled = @ \/ gatewayPending]
    /\ token' = [token EXCEPT ![t] = Unleased(@, "consumed")]
    /\ UNCHANGED issued

Finalize(r) ==
    /\ request[r].pc = "finalize"
    /\ FinalizeEnrollmentIssuance(r)
    /\ Returns(r, cert'[request[r].csr].serial)
    /\ UNCHANGED <<process, placement, books>>

\* The commit is done but its outcome is reported as an error.
FinalizeAmbiguous(r) ==
    /\ request[r].pc = "finalize" /\ Fault
    /\ FinalizeEnrollmentIssuance(r)
    /\ request' = [request EXCEPT ![r] = [@ EXCEPT !.pc = "recover", !.result = "retry"]]
    /\ UNCHANGED <<process, placement, admin>>

\* Nothing is committed: ErrEnrollmentState is a denial, any other error (the
\* insert's included) transient.
FinalizeRefused(r) ==
    /\ request[r].pc = "finalize" /\ ~CanFinalize(r)
    /\ request' = [request EXCEPT ![r] = [@ EXCEPT !.pc = "recover",
          !.result = IF Holds(r) /\ token[request[r].token].leased
                        /\ Collides(r) /\ ~OwnRow(r) THEN "retry" ELSE "denied"]]
    /\ UNCHANGED <<mysql, process, placement, books>>

\* Mutant: the handler answers with the certificate it signed.
RecoverSigned(r) ==
    /\ request[r].pc = "recover"
    /\ \/ /\ token[request[r].token].status = "consumed"
          /\ Returns(r, request[r].serial)
       \/ token[request[r].token].status # "consumed" /\ Goes(r, "release")
    /\ UNCHANGED <<mysql, process, placement, books>>

\* recoverCommitted: the consumed token's own certificate is the answer.
Recover(r) ==
    LET found == /\ token[request[r].token].status = "consumed"
                 /\ gatewayRecoveryEligible
                 /\ Replayable(request[r].token, request[r].csr)
    IN
    /\ request[r].pc = "recover"
    /\ \/ found /\ Returns(r, cert[request[r].csr].serial)
       \/ ~found /\ Goes(r, "release")
    /\ UNCHANGED <<mysql, process, placement, books>>

\* ReleaseEnrollmentLease: only the owner of the nonce, only while leased.
Release(r) ==
    LET t == request[r].token IN
    /\ request[r].pc = "release"
    /\ token' = IF Holds(r) /\ token[t].leased
                THEN [token EXCEPT ![t] = Unleased(@, "active")] ELSE token
    /\ Goes(r, "answer")
    /\ UNCHANGED <<gateway, issued, cert, process, placement, books>>

-----------------------------------------------------------------------------
(***************************************************************************)
(* RenewalService.Renew: validate the incumbent, sign, validate again.     *)
(***************************************************************************)
IncumbentValid(r) ==
    /\ gatewayRecoveryEligible
    /\ LET i == cert[request[r].incumbent] IN
       i.kind # "none" /\ ~i.revoked /\ ~i.expired

\* renewalReplayMatches.
Renewed(c) == cert[c].kind = "renewal" /\ ~cert[c].expired /\ ~cert[c].revoked

\* PrepareRenewal, before signing ("prepare") or to settle a commit whose
\* outcome is unknown ("settle").
PrepareRenewal(r) ==
    LET c == request[r].csr
        refused == ~IncumbentValid(r) \/ (Exists(c) /\ ~Renewed(c))
    IN
    /\ request[r].pc \in {"prepare", "settle"}
    /\ \/ refused /\ Fails(r, IF request[r].pc = "prepare" THEN "denied"
                              ELSE request[r].result)
       \/ ~refused /\ Exists(c) /\ Returns(r, cert[c].serial)
       \/ /\ ~refused /\ ~Exists(c)
          /\ \/ request[r].pc = "prepare" /\ Goes(r, "renewsign")
             \/ request[r].pc = "settle" /\ Fails(r, request[r].result)
    /\ UNCHANGED <<mysql, process, placement, books>>

SignRenewal(r) ==
    /\ request[r].pc = "renewsign"
    /\ request' = [request EXCEPT ![r] = [@ EXCEPT !.pc = "renew",
                      !.serial = [attempt |-> 0, by |-> r]]]
    /\ UNCHANGED <<mysql, process, placement, books>>

SignRenewalFails(r) ==
    /\ request[r].pc = "renewsign" /\ Fault
    /\ Fails(r, "retry")
    /\ UNCHANGED <<mysql, process, placement, admin>>

\* The error to report unless the second look finds the certificate.
Settles(r, result) ==
    request' = [request EXCEPT ![r] = [@ EXCEPT !.pc = "settle", !.result = result]]

\* FinalizeRenewal commits: a row already there for the CSR is the answer.
InsertRenewal(r) ==
    LET c == request[r].csr IN
    /\ IncumbentValid(r)
    /\ Exists(c) => Renewed(c)
    /\ cert' = IF Exists(c) THEN cert
               ELSE [cert EXCEPT ![c] =
                       [NoCert EXCEPT !.kind = "renewal", !.serial = request[r].serial,
                                      !.era = cert[request[r].incumbent].era]]

FinalizeRenewal(r) ==
    /\ request[r].pc = "renew"
    /\ InsertRenewal(r)
    /\ Returns(r, cert'[request[r].csr].serial)
    /\ UNCHANGED <<gateway, issued, token, process, placement, books>>

FinalizeRenewalAmbiguous(r) ==
    /\ request[r].pc = "renew" /\ Fault
    /\ InsertRenewal(r)
    /\ Settles(r, "retry")
    /\ UNCHANGED <<gateway, issued, token, process, placement, admin>>

\* ErrRenewalState, after the same second look.
FinalizeRenewalRefused(r) ==
    /\ request[r].pc = "renew"
    /\ ~(IncumbentValid(r) /\ (Exists(request[r].csr) => Renewed(request[r].csr)))
    /\ Settles(r, "denied")
    /\ UNCHANGED <<mysql, process, placement, books>>

\* The API process dies under the handler; the client sees the call fail.
HandlerDies(r) ==
    /\ request[r].pc \notin {"idle", "answer"} /\ Fault
    /\ Fails(r, "retry")
    /\ UNCHANGED <<mysql, process, placement, admin>>

-----------------------------------------------------------------------------
(***************************************************************************)
(* The gateway: identity directory and control client.                     *)
(***************************************************************************)
Loadable(c) == c # NoCsr /\ disk.gens[c] # NoSerial /\ ~cert[c].expired

\* Manager.recover: the current pointer, the previous one, else the newest
\* generation that loads (and current is pointed at it).
Recovered ==
    IF Loadable(disk.current) THEN disk.current
    ELSE IF Loadable(disk.previous) THEN disk.previous
    ELSE IF \E c \in Csr : Loadable(c)
         THEN CHOOSE c \in Csr : Loadable(c) /\ \A d \in Csr : Loadable(d) => d <= c
         ELSE NoCsr

\* Prepare returns the pending CSR, generating one only if there is none.
Prepared == IF disk.pending # NoCsr THEN disk.pending ELSE disk.made + 1

\* Client.Ensure: Load, then enrol with the configured token if nothing loads.
\* Load removes a pending key whose certificate is the active one.
Boot(t) ==
    LET active == Recovered
        scanned == active # NoCsr /\ active \notin {disk.current, disk.previous}
        base == [disk EXCEPT !.current = IF scanned THEN active ELSE @]
    IN
    /\ node.phase = "down" /\ t <= issued
    /\ \/ /\ active # NoCsr
          /\ disk' = [base EXCEPT !.pending = IF @ = active THEN NoCsr ELSE @]
          /\ node' = [Down EXCEPT !.phase = "run", !.active = active, !.token = t]
       \/ /\ active = NoCsr /\ Prepared \in Csr
          /\ disk' = [base EXCEPT !.pending = Prepared,
                                  !.made = IF Prepared > @ THEN Prepared ELSE @]
          /\ node' = [Down EXCEPT !.phase = "enroll", !.token = t]
    /\ UNCHANGED <<mysql, request, placement, books>>

\* One attempt of Client.enroll.
CallEnroll(r) ==
    /\ node.phase = "enroll" /\ node.waiting = NoRequest
    /\ request[r].pc = "idle"
    /\ node' = [node EXCEPT !.waiting = r]
    /\ request' = [request EXCEPT ![r] =
          [NoWork EXCEPT !.pc = "acquire", !.token = node.token, !.csr = disk.pending]]
    /\ UNCHANGED <<mysql, disk, placement, books>>

\* Client.BeginRenewal inside the renewal window, over the incumbent connection.
CallRenew(r) ==
    /\ node.phase = "run" /\ node.waiting = NoRequest
    /\ ~cert[node.active].expired
    /\ request[r].pc = "idle" /\ Prepared \in Csr
    /\ disk' = [disk EXCEPT !.pending = Prepared,
                            !.made = IF Prepared > @ THEN Prepared ELSE @]
    /\ node' = [node EXCEPT !.waiting = r]
    /\ request' = [request EXCEPT ![r] =
          [NoWork EXCEPT !.csr = Prepared, !.incumbent = node.active,
                         !.pc = IF Authorized(node.active) THEN "prepare" ELSE "answer",
                         !.result = IF Authorized(node.active) THEN "none" ELSE "denied"]]
    /\ UNCHANGED <<mysql, placement, books>>

\* The answer arrives.  A retryable failure is retried, any other ends the
\* enrolment (the process exits) or the renewals of this process.
ReceiveAnswer(r) ==
    LET enrolling == node.phase = "enroll"
        idle == [node EXCEPT !.waiting = NoRequest]
    IN
    /\ request[r].pc = "answer" /\ node.waiting = r
    /\ node' =
         IF request[r].result = "ok" /\ ~cert[request[r].csr].expired
         THEN [idle EXCEPT !.phase = "generation", !.serial = request[r].serial]
         ELSE IF request[r].result = "retry" THEN idle
         ELSE IF enrolling THEN Down ELSE [idle EXCEPT !.phase = "lapsing"]
    /\ request' = [request EXCEPT ![r] = NoWork]
    /\ UNCHANGED <<mysql, disk, placement, books>>

\* Nobody waits for the answer any more.
DropAnswer(r) ==
    /\ request[r].pc = "answer" /\ node.waiting # r
    /\ request' = [request EXCEPT ![r] = NoWork]
    /\ UNCHANGED <<mysql, process, placement, books>>

\* The attempt times out; the handler it started goes on.
GiveUp ==
    /\ node.waiting # NoRequest /\ Fault
    /\ node' = [node EXCEPT !.waiting = NoRequest]
    /\ UNCHANGED <<mysql, request, disk, placement, admin>>

\* Manager.Install, one durable step at a time.
InstallGeneration ==
    /\ node.phase = "generation"
    /\ disk' = [disk EXCEPT !.gens[disk.pending] = node.serial]
    /\ node' = [node EXCEPT !.phase = "previous"]
    /\ UNCHANGED <<mysql, request, placement, books>>

PublishPrevious ==
    /\ node.phase = "previous"
    /\ disk' = [disk EXCEPT !.previous = IF disk.current # NoCsr THEN disk.current ELSE @]
    /\ node' = [node EXCEPT !.phase = "current"]
    /\ UNCHANGED <<mysql, request, placement, books>>

PublishCurrent ==
    /\ node.phase = "current"
    /\ disk' = [disk EXCEPT !.current = disk.pending]
    /\ node' = [node EXCEPT !.phase = "clean", !.active = disk.pending]
    /\ UNCHANGED <<mysql, request, placement, books>>

RemovePending ==
    /\ node.phase = "clean"
    /\ disk' = [disk EXCEPT !.pending = NoCsr]
    /\ node' = [node EXCEPT !.phase = "run", !.serial = NoSerial]
    /\ UNCHANGED <<mysql, request, placement, books>>

\* The active certificate ran out before a renewal succeeded.
Lapse ==
    /\ node.phase \in {"run", "lapsing"} /\ cert[node.active].expired
    /\ node' = Down
    /\ UNCHANGED <<mysql, request, disk, placement, books>>

NodeCrash ==
    /\ node.phase # "down" /\ Fault
    /\ node' = Down
    /\ UNCHANGED <<mysql, request, disk, placement, admin>>

\* The gateway's volume is lost, with its keys.
LoseDisk ==
    /\ node.phase = "down" /\ disk # EmptyDisk /\ Fault
    /\ disk' = [EmptyDisk EXCEPT !.made = disk.made, !.lost = disk.made]
    /\ UNCHANGED <<mysql, request, node, placement, admin>>

\* AcceptConnection under a fresh epoch, then heartbeats and lifecycle reports
\* under it.
Connect(s) ==
    /\ node.phase \in {"run", "lapsing"} /\ ~node.conn
    /\ Authorized(node.active)
    /\ gateway.enrolled /\ gateway.status \notin {"pending_enrollment", "disabled"}
    /\ node' = [node EXCEPT !.conn = TRUE]
    /\ gateway' = [gateway EXCEPT !.status = s]
    /\ UNCHANGED <<issued, token, cert, request, disk, placement, books>>

ReportStatus(s) ==
    /\ node.conn /\ s # gateway.status
    /\ gateway.status \notin {"pending_enrollment", "disabled"} /\ ~gateway.deleted
    /\ gateway' = [gateway EXCEPT !.status = s]
    /\ UNCHANGED <<issued, token, cert, request, process, placement, books>>

-----------------------------------------------------------------------------
(***************************************************************************)
(* Gateway administration, one transaction each.                           *)
(***************************************************************************)
ReplaceLiveToken ==
    /\ gatewayPending /\ Operator
    /\ Issue(RevokeLive)
    /\ UNCHANGED <<gateway, cert, request, process, placement, faults>>

Drain ==
    /\ ~gateway.deleted /\ gateway.enrolled
    /\ gateway.status \in {"joining", "active", "degraded"} /\ Operator
    /\ gateway' = [gateway EXCEPT !.desired = "drain"]
    /\ UNCHANGED <<issued, token, cert, request, process, placement, faults>>

Resume ==
    /\ ~gateway.deleted /\ gateway.enrolled
    /\ gateway.status \in {"draining", "drained"} /\ Operator
    /\ gateway' = [gateway EXCEPT !.desired = "run"]
    /\ UNCHANGED <<issued, token, cert, request, process, placement, faults>>

\* Disable and Reenroll advance the connection epoch: an open stream is stale.
Disable ==
    /\ ~gateway.deleted /\ gateway.status # "disabled" /\ Operator
    /\ gateway' = [gateway EXCEPT !.status = "disabled"]
    /\ node' = [node EXCEPT !.conn = FALSE]
    /\ UNCHANGED <<issued, token, cert, request, disk, placement, faults>>

Reenable ==
    /\ ~gateway.deleted /\ gateway.status = "disabled" /\ Operator
    /\ gateway' = [gateway EXCEPT
          !.status = IF gateway.enrolled THEN "joining" ELSE "pending_enrollment",
          !.desired = "run"]
    /\ UNCHANGED <<issued, token, cert, request, process, placement, faults>>

Reenroll ==
    /\ ~gateway.deleted /\ gateway.enrolled
    /\ gateway.status \in {"drained", "disabled"} /\ Operator
    /\ Issue(RevokeLive)
    /\ cert' = [c \in Csr |-> IF Exists(c) THEN [cert[c] EXCEPT !.revoked = TRUE] ELSE cert[c]]
    /\ gateway' = [gateway EXCEPT !.status = "pending_enrollment", !.desired = "run"]
    /\ node' = [node EXCEPT !.conn = FALSE]
    /\ UNCHANGED <<request, disk, placement, faults>>

Delete ==
    /\ ~gateway.deleted /\ gateway.status \in {"drained", "disabled"} /\ Operator
    /\ ~placement.assigned
    /\ \A t \in Token : ~Live(t)
    /\ \A c \in Csr : Exists(c) => cert[c].revoked
    /\ gateway' = [gateway EXCEPT !.status = "disabled", !.deleted = TRUE]
    /\ UNCHANGED <<issued, token, cert, request, process, placement, faults>>

\* createControlled: PickForPlacement reads, CreateSession checks again.
PickForPlacement ==
    /\ ~placement.picked /\ ~gateway.deleted
    /\ gateway.status = "active" /\ gateway.desired = "run"
    /\ placement' = [placement EXCEPT !.picked = TRUE]
    /\ UNCHANGED <<mysql, request, process, books>>

Eligible == ~gateway.deleted /\ gateway.status \notin {"pending_enrollment", "disabled"}

CreateSession ==
    /\ placement.picked
    /\ placement' = [picked |-> FALSE, assigned |-> placement.assigned \/ Eligible]
    /\ UNCHANGED <<mysql, request, process, books>>

DeleteSession ==
    /\ placement.assigned
    /\ placement' = [placement EXCEPT !.assigned = FALSE]
    /\ UNCHANGED <<mysql, request, process, books>>

-----------------------------------------------------------------------------
(***************************************************************************)
(* Time.                                                                   *)
(***************************************************************************)
\* A lease outlives its handler's signing deadline by a margin, but nothing stops
\* it from running out over a handler that stalls before its second transaction.
Working(t) ==
    \E r \in Request : /\ request[r].token = t /\ Holds(r)
                       /\ request[r].pc \in {"sign", "finalize", "recover", "release"}

LeaseRunsOut(t) ==
    /\ token[t].leased
    /\ token' = [token EXCEPT ![t].leased = FALSE]
    /\ UNCHANGED <<gateway, issued, cert, request, process, placement, books>>

TokenExpires(t) ==
    /\ Live(t) /\ ~token[t].expired /\ Fault
    /\ token' = [token EXCEPT ![t].expired = TRUE]
    /\ UNCHANGED <<gateway, issued, cert, request, process, placement, admin>>

CertificateExpires(c) ==
    /\ Exists(c) /\ ~cert[c].expired /\ Fault
    /\ cert' = [cert EXCEPT ![c].expired = TRUE]
    /\ UNCHANGED <<gateway, issued, token, request, process, placement, admin>>

-----------------------------------------------------------------------------
Handler(r) ==
    \/ Acquire(r) \/ Sign(r) \/ Finalize(r) \/ FinalizeRefused(r) \/ Recover(r)
    \/ Release(r) \/ PrepareRenewal(r) \/ SignRenewal(r) \/ FinalizeRenewal(r)
    \/ FinalizeRenewalRefused(r)

Install == InstallGeneration \/ PublishPrevious \/ PublishCurrent \/ RemovePending

Faulty ==
    \/ \E r \in Request : \/ SignFails(r) \/ FinalizeAmbiguous(r) \/ SignRenewalFails(r)
                          \/ FinalizeRenewalAmbiguous(r) \/ HandlerDies(r)
    \/ \E t \in Token : AcquireInvalidCSR(t) \/ TokenExpires(t)
    \/ \E c \in Csr : CertificateExpires(c)
    \/ GiveUp \/ NodeCrash \/ LoseDisk

Administration ==
    ReplaceLiveToken \/ Drain \/ Resume \/ Disable \/ Reenable \/ Reenroll \/ Delete

Next ==
    \/ \E r \in Request : \/ Handler(r) \/ CallEnroll(r) \/ CallRenew(r)
                          \/ ReceiveAnswer(r) \/ DropAnswer(r)
    \/ \E t \in Token : Boot(t) \/ LeaseRunsOut(t)
    \/ \E s \in Reported : Connect(s) \/ ReportStatus(s)
    \/ Install \/ Lapse
    \/ Faulty
    \/ Administration
    \/ PickForPlacement \/ CreateSession \/ DeleteSession

Spec == Init /\ [][Next]_vars

\* Handlers run to their end, the client repeats its call, and the operator
\* starts the gateway with the newest token; nothing obliges an operator to an
\* administrative step, or a fault to happen.
Fairness ==
    /\ \A r \in Request : /\ WF_vars(Handler(r)) /\ WF_vars(ReceiveAnswer(r))
                          /\ WF_vars(DropAnswer(r))
    /\ WF_vars(\E r \in Request : CallEnroll(r))
    /\ WF_vars(Install) /\ WF_vars(Lapse) /\ SF_vars(Boot(issued))
    /\ \A t \in Token : WF_vars(~Working(t) /\ LeaseRunsOut(t))

FairSpec == Spec /\ Fairness

-----------------------------------------------------------------------------
(***************************************************************************)
(* Properties.                                                             *)
(***************************************************************************)
SerialType == [attempt: 0..MaxAttempts, by: Request \union {NoRequest}]

TypeOK ==
    /\ gateway \in [status: Lifecycle \union {"pending_enrollment", "disabled"},
                    enrolled: BOOLEAN, deleted: BOOLEAN, desired: {"run", "drain"}]
    /\ issued \in Token
    /\ token \in [Token -> [status: {"none", "active", "redeeming", "consumed",
                                     "revoked", "locked"},
                            attempts: 0..MaxAttempts, nonce: 0..MaxAttempts,
                            csr: 0..MaxCsr, leased: BOOLEAN, expired: BOOLEAN]]
    /\ cert \in [Csr -> [kind: {"none", "enrollment", "renewal"},
                         token: 0..MaxTokens, serial: SerialType,
                         revoked: BOOLEAN, expired: BOOLEAN,
                         era: 0..MaxTokens]]
    /\ request \in [Request ->
          [pc: {"idle", "acquire", "sign", "finalize", "recover", "release",
                "prepare", "renewsign", "renew", "settle", "answer"},
           token: 0..MaxTokens, csr: 0..MaxCsr, nonce: 0..MaxAttempts,
           incumbent: 0..MaxCsr, result: {"none", "ok", "retry", "denied"},
           serial: SerialType]]
    /\ disk \in [made: 0..MaxCsr, lost: 0..MaxCsr, pending: 0..MaxCsr,
                 gens: [Csr -> SerialType], current: 0..MaxCsr, previous: 0..MaxCsr]
    /\ node \in [phase: {"down", "enroll", "run", "lapsing", "generation",
                         "previous", "current", "clean"},
                 token: 0..MaxTokens, active: 0..MaxCsr,
                 waiting: Request \union {NoRequest}, serial: SerialType, conn: BOOLEAN]
    /\ placement \in [picked: BOOLEAN, assigned: BOOLEAN]
    /\ admin \in 0..MaxAdmin /\ faults \in 0..MaxFaults

\* A one-time token yields exactly one enrolment certificate, recorded in the
\* transaction that consumes it, whatever retries, stalled signers and ambiguous
\* commits race for it.
ConsumedIsIssued ==
    \A t \in Token :
        Cardinality({c \in Csr : cert[c].kind = "enrollment" /\ cert[c].token = t})
            = IF token[t].status = "consumed" THEN 1 ELSE 0

\* The gateway's disk and the API's records agree.  A certificate the gateway
\* installed, or is being answered, is the one the API recorded for its CSR: a
\* signed certificate that lost the race to be recorded never leaves the API, so
\* every credential in use can be revoked.  And the key of a recorded
\* certificate is on the disk, pending or installed, through every crash of the
\* installation, unless the volume was lost.
DiskMatchesRecords ==
    /\ \A c \in Csr : disk.gens[c] # NoSerial => disk.gens[c] = cert[c].serial
    /\ \A r \in Request :
          request[r].pc = "answer" /\ request[r].result = "ok"
              => request[r].serial = cert[request[r].csr].serial
    /\ \A c \in Csr : Exists(c) /\ c > disk.lost
          => c = disk.pending \/ disk.gens[c] # NoSerial

\* Revocation is complete.  Re-enrolment revokes for good: no redemption or
\* renewal that was under way when the credentials were revoked brings one of
\* their era back to life.  And a deleted gateway has no session, no redeemable
\* token and no usable certificate, although placements and redemptions may be
\* under way.
RevocationIsComplete ==
    /\ \A c \in Csr : Exists(c) /\ ~cert[c].revoked => cert[c].era = issued
    /\ gateway.deleted =>
        /\ ~placement.assigned
        /\ \A t \in Token : ~Live(t)
        /\ \A c \in Csr : Exists(c) => cert[c].revoked

\* Only an operator can help: the gateway is disabled, the newest token is not
\* configured, expired, used up or bound to a lost key, no key with a usable certificate is left, or a
\* revoked identity hides the token.
OperatorDue ==
    \/ gateway.deleted \/ gateway.status = "disabled"
    \/ gatewayPending /\ \/ token[issued].expired \/ token[issued].status = "locked"
                         \/ token[issued].csr \in 1..disk.lost
    \/ node.phase = "enroll" /\ node.token # issued
    \/ ~gatewayPending /\ ~ \E c \in Csr :
          /\ Authorized(c)
          /\ disk.gens[c] # NoSerial \/ (c = disk.pending /\ Replayable(issued, c))
    \/ node.active # NoCsr /\ cert[node.active].revoked
    \/ Recovered = NoCsr /\ Prepared \notin Csr

\* The gateway has no identity left and asks with a CSR that a certificate was
\* recorded for under an earlier token or as a renewal.
CsrWasIssued ==
    gatewayPending /\ Recovered = NoCsr /\ disk.pending # NoCsr /\ Exists(disk.pending)

\* A gateway that keeps asking ends with a credential the API accepts, through
\* dead handlers, lost answers and crashes of its installation, unless an operator
\* is due or its CSR was issued before.
EventuallyCredentialed ==
    <>[](Authorized(node.active) \/ OperatorDue \/ CsrWasIssued)
=============================================================================
