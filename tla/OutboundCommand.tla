-------------------------- MODULE OutboundCommand --------------------------
(***************************************************************************)
(* The life of one outbound command, from the outbox row to WhatsApp.      *)
(*                                                                         *)
(* API: dispatchers (the scheduler's loop on every replica, and front-door *)
(* calls) lease the row and drive it through dispatchClaimed.  Every write *)
(* is fenced by the stamp of the lease; attempts, which every claim        *)
(* increments, stands for that stamp.                                      *)
(*                                                                         *)
(* Gateway: concurrent RPCs of a command join one flight, whose leader     *)
(* looks the command up in the result ledger, checks the assignment fence  *)
(* and the deadline, sends, and saves the result before it answers.        *)
(*                                                                         *)
(* Every statement is keyed by the command ID, so commands do not          *)
(* interfere and one is enough.  A command is one WhatsApp message: albums *)
(* send several.  Sends only: dispatchOp differs in having no projection.  *)
(***************************************************************************)
EXTENDS Naturals

CONSTANTS
    Dispatcher,    \* scheduler loops and front-door calls
    Gateway,       \* gateways the session may be assigned to
    MaxAttempts,   \* OutboundSchedulerConfig.MaxAttempts
    MaxFaults,     \* bound: API crashes, overruns, refusals, failed projections
    MaxLosses      \* bound: gateway crashes, lost results, reassignments

ASSUME OutboundAssumption ==
    /\ Gateway # {}
    /\ MaxAttempts \in Nat \ {0} /\ MaxFaults \in Nat /\ MaxLosses \in Nat

VARIABLES
    row,         \* the outbox row
    expired,     \* expires_at has passed
    dispatcher,  \* dispatchClaimed of every dispatcher
    target,      \* the gateway the session is assigned to
    allows,      \* the gateways whose fence admits the session's mutations
    flight,      \* ApplicationGatewayAdapter.inFlight of every gateway
    ledger,      \* command_results of every gateway
    sends,       \* how often the message went out to WhatsApp
    faults, losses

vars == <<row, expired, dispatcher, target, allows, flight, ledger, sends,
          faults, losses>>

apiVars == <<target, allows, flight, ledger, sends, losses>>
gatewayVars == <<row, expired, target, faults>>

Terminal == {"sent", "failed", "unknown"}

Row == [status : {"none", "queued", "sending"} \union Terminal, attempts : Nat,
        fresh : BOOLEAN, possible : BOOLEAN, acked : BOOLEAN]

Step == {"idle", "start", "mark", "call", "rpc", "wait", "reply", "settle",
         "ack", "project", "complete"}

Result == {"none", "ok", "invalid", "error", "nodispatch"}

\* What the claim read; was is wasPossible, check is checkLimit, gw the
\* resolved target.
Entry == [step : Step, stamp : Nat, check : BOOLEAN, possible : BOOLEAN,
          was : BOOLEAN, acked : BOOLEAN, gw : Gateway, result : Result]

Idle == [step |-> "idle", stamp |-> 0, check |-> FALSE, possible |-> FALSE,
         was |-> FALSE, acked |-> FALSE, gw |-> CHOOSE g \in Gateway : TRUE, result |-> "none"]

Init ==
    /\ row = [status |-> "none", attempts |-> 0, fresh |-> FALSE,
              possible |-> FALSE, acked |-> FALSE]
    /\ expired = FALSE
    /\ dispatcher = [w \in Dispatcher |-> Idle]
    /\ target \in Gateway /\ allows = {target}
    /\ flight = [g \in Gateway |-> "none"]
    /\ ledger = [g \in Gateway |-> "none"]
    /\ sends = 0 /\ faults = 0 /\ losses = 0

Fault == faults < MaxFaults /\ faults' = faults + 1
Loss == losses < MaxLosses /\ losses' = losses + 1

At(w, step) == dispatcher[w].step = step
GoTo(w, step) == dispatcher' = [dispatcher EXCEPT ![w].step = step]
Release(w) == dispatcher' = [dispatcher EXCEPT ![w] = Idle]

-----------------------------------------------------------------------------
(* The outbox.                                                             *)

\* The fence of every write: still sending, under the lease of this claim.
Owns(w) == row.status = "sending" /\ row.attempts = dispatcher[w].stamp

\* The claim of an entry e: what the dispatcher works from.
Claimed(w, e, check) ==
    dispatcher' = [dispatcher EXCEPT ![w] =
      [Idle EXCEPT !.step = "start", !.stamp = e.attempts, !.check = check,
                   !.possible = e.possible, !.was = e.possible, !.acked = e.acked]]

\* Send with Async: a queued row.
EnqueueAsync ==
    /\ row.status = "none" /\ ~expired
    /\ row' = [row EXCEPT !.status = "queued"]
    /\ UNCHANGED <<expired, dispatcher, faults, apiVars>>

\* Send: the row is inserted under this call's lease, as its first attempt.
SendSync(w) ==
    /\ row.status = "none" /\ ~expired /\ At(w, "idle")
    /\ row' = [row EXCEPT !.status = "sending", !.attempts = 1, !.fresh = TRUE]
    /\ Claimed(w, row', FALSE)
    /\ UNCHANGED <<expired, faults, apiVars>>

\* Mutant: a command whose dispatcher died is not taken up again.
ClaimableQueued == row.status = "queued"

\* Queued rows are claimed once due, sending rows once their lease is stale.
Claimable == row.status = "queued" \/ (row.status = "sending" /\ ~row.fresh)

ClaimDue(w) ==
    /\ At(w, "idle") /\ Claimable
    /\ row' = [row EXCEPT !.status = "sending", !.attempts = @ + 1, !.fresh = TRUE]
    /\ Claimed(w, row', TRUE)
    /\ UNCHANGED <<expired, faults, apiVars>>

Holding(w) == dispatcher[w].step # "idle" /\ Owns(w)

\* updated_at falls behind the lease.  With the owner still at it (a batch is
\* worked off under the lease of its claim), that is an overrun.
GoStale ==
    /\ row.status = "sending" /\ row.fresh
    /\ IF \E w \in Dispatcher : Holding(w) THEN Fault ELSE faults' = faults
    /\ row' = [row EXCEPT !.fresh = FALSE]
    /\ UNCHANGED <<expired, dispatcher, apiVars>>

\* The deadline passes.
PassDeadline ==
    /\ ~expired /\ expired' = TRUE
    /\ UNCHANGED <<row, dispatcher, faults, apiVars>>

\* Mutant: CompleteOutbox, which any holder of the command may call.
CompleteUnfenced(w, status) == row' = [row EXCEPT !.status = status]

\* CompleteOwned: the final status, if the lease still holds.
CompleteOwned(w, status) ==
    row' = IF Owns(w) THEN [row EXCEPT !.status = status] ELSE row

Reschedule(w) == row' = IF Owns(w) THEN [row EXCEPT !.status = "queued"] ELSE row

\* expireClaim: failed if nothing can have gone out, unknown otherwise.
Unsettled(w) == IF dispatcher[w].possible THEN "unknown" ELSE "failed"

-----------------------------------------------------------------------------
(* dispatchClaimed.                                                        *)

\* Mutant: the engine is called before the effect is recorded as possible.
StartUnmarked(w) ==
    /\ At(w, "start")
    /\ LET e == dispatcher[w]
           dead == ~e.acked /\ expired /\ ~e.possible
       IN  IF dead THEN CompleteOwned(w, "failed") /\ Release(w)
           ELSE row' = row /\ GoTo(w, IF e.acked THEN "project" ELSE "call")
    /\ UNCHANGED <<expired, faults, apiVars>>

\* Mutant: the deadline is looked at before the acknowledgement.
StartExpires(w) ==
    /\ At(w, "start")
    /\ LET e == dispatcher[w]
       IN  IF expired THEN CompleteOwned(w, Unsettled(w)) /\ Release(w)
           ELSE row' = row /\ GoTo(w, IF e.acked THEN "project"
                                      ELSE IF e.possible THEN "call" ELSE "mark")
    /\ UNCHANGED <<expired, faults, apiVars>>

\* Straight to the projection when the send is acknowledged, otherwise on to
\* the engine, with the effect recorded as possible first.
Start(w) ==
    /\ At(w, "start")
    /\ LET e == dispatcher[w]
           dead == ~e.acked /\ expired /\ ~e.possible
       IN  IF dead THEN CompleteOwned(w, "failed") /\ Release(w)
           ELSE row' = row /\ GoTo(w, IF e.acked THEN "project"
                                      ELSE IF e.possible THEN "call" ELSE "mark")
    /\ UNCHANGED <<expired, faults, apiVars>>

\* The rate limiter refuses a worker's attempt; a front-door call has its token.
RateLimited(w) ==
    /\ At(w, "start") /\ dispatcher[w].check /\ ~dispatcher[w].acked /\ ~expired /\ Fault
    /\ Reschedule(w) /\ Release(w)
    /\ UNCHANGED <<expired, apiVars>>

\* The session lookup or the rate check fails.
CheckFails(w) ==
    /\ At(w, "start") /\ dispatcher[w].check /\ ~dispatcher[w].acked /\ ~expired
    /\ GoTo(w, "settle")
    /\ UNCHANGED <<row, expired, faults, apiVars>>

MarkPossible(w) ==
    /\ At(w, "mark")
    /\ IF Owns(w)
       THEN /\ row' = [row EXCEPT !.possible = TRUE]
            /\ dispatcher' = [dispatcher EXCEPT ![w].step = "call", ![w].possible = TRUE]
       ELSE row' = row /\ Release(w)
    /\ UNCHANGED <<expired, faults, apiVars>>

\* EngineClient.SendMessage resolves the target and issues the RPC.
Call(w) ==
    /\ At(w, "call")
    /\ dispatcher' = [dispatcher EXCEPT ![w].step = "rpc", ![w].gw = target]
    /\ UNCHANGED <<row, expired, faults, apiVars>>

\* It stops before the RPC: NoDispatchError.
CallFails(w) ==
    /\ At(w, "call")
    /\ dispatcher' = [dispatcher EXCEPT ![w].step = "reply", ![w].result = "nodispatch"]
    /\ UNCHANGED <<row, expired, faults, apiVars>>

\* The deadline of the RPC passes or its connection breaks; the gateway may
\* go on with it.
RpcFails(w) ==
    /\ dispatcher[w].step \in {"rpc", "wait"}
    /\ dispatcher' = [dispatcher EXCEPT ![w].step = "reply", ![w].result = "error"]
    /\ UNCHANGED <<row, expired, faults, apiVars>>

ReplyOk(w) ==
    /\ At(w, "reply") /\ dispatcher[w].result = "ok"
    /\ GoTo(w, "ack")
    /\ UNCHANGED <<row, expired, faults, apiVars>>

\* A deterministic rejection is final, unless an earlier attempt may have sent.
ReplyInvalid(w) ==
    /\ At(w, "reply") /\ dispatcher[w].result = "invalid"
    /\ IF dispatcher[w].was THEN row' = row /\ GoTo(w, "settle")
       ELSE CompleteOwned(w, "failed") /\ Release(w)
    /\ UNCHANGED <<expired, faults, apiVars>>

\* clearPossible, if no earlier attempt may have sent; the cause may itself be
\* a rejection.
ReplyNoDispatch(w) ==
    /\ At(w, "reply") /\ dispatcher[w].result = "nodispatch"
    /\ IF dispatcher[w].was THEN row' = row /\ GoTo(w, "settle")
       ELSE IF ~Owns(w) \/ row.acked THEN row' = row /\ Release(w)
       ELSE \/ /\ row' = [row EXCEPT !.possible = FALSE]
               /\ dispatcher' = [dispatcher EXCEPT ![w].step = "settle", ![w].possible = FALSE]
            \/ /\ row' = [row EXCEPT !.possible = FALSE, !.status = "failed"]
               /\ Release(w)
    /\ UNCHANGED <<expired, faults, apiVars>>

ReplyError(w) ==
    /\ At(w, "reply") /\ dispatcher[w].result = "error"
    /\ GoTo(w, "settle")
    /\ UNCHANGED <<row, expired, faults, apiVars>>

\* ambiguous: another attempt, or a final status when time or attempts are up.
Settle(w) ==
    /\ At(w, "settle")
    /\ IF expired \/ dispatcher[w].stamp >= MaxAttempts
       THEN CompleteOwned(w, Unsettled(w))
       ELSE Reschedule(w)
    /\ Release(w)
    /\ UNCHANGED <<expired, faults, apiVars>>

RecordAck(w) ==
    /\ At(w, "ack")
    /\ IF Owns(w) THEN row' = [row EXCEPT !.acked = TRUE] /\ GoTo(w, "project")
                  ELSE row' = row /\ Release(w)
    /\ UNCHANGED <<expired, faults, apiVars>>

\* Media capture, messages table and event log.
Project(w) ==
    /\ At(w, "project") /\ GoTo(w, "complete")
    /\ UNCHANGED <<row, expired, faults, apiVars>>

DeferProjection(w) ==
    /\ At(w, "project") /\ Fault
    /\ Reschedule(w) /\ Release(w)
    /\ UNCHANGED <<expired, apiVars>>

Complete(w) ==
    /\ At(w, "complete")
    /\ CompleteOwned(w, "sent") /\ Release(w)
    /\ UNCHANGED <<expired, faults, apiVars>>

\* The dispatcher's process dies, or the database refuses one of its writes.
Abandon(w) ==
    /\ ~At(w, "idle") /\ Fault
    /\ Release(w)
    /\ UNCHANGED <<row, expired, apiVars>>

-----------------------------------------------------------------------------
(* The gateway.                                                            *)

\* Mutant: every RPC leads a flight of its own.
ArriveLeading(w) ==
    /\ At(w, "rpc")
    /\ flight' = [flight EXCEPT ![dispatcher[w].gw] = "lookup"]
    /\ GoTo(w, "wait")
    /\ UNCHANGED <<gatewayVars, allows, ledger, sends, losses>>

\* joinCommand: the first RPC leads the flight, others wait for its outcome.
Arrive(w) ==
    /\ At(w, "rpc")
    /\ LET g == dispatcher[w].gw
       IN  flight' = [flight EXCEPT ![g] = IF @ = "none" THEN "lookup" ELSE @]
    /\ GoTo(w, "wait")
    /\ UNCHANGED <<gatewayVars, allows, ledger, sends, losses>>

\* The flight ends: every RPC that waits for it gets its outcome.
Land(g, result) ==
    /\ flight' = [flight EXCEPT ![g] = "none"]
    /\ dispatcher' = [w \in Dispatcher |->
         IF At(w, "wait") /\ dispatcher[w].gw = g
         THEN [dispatcher[w] EXCEPT !.step = "reply", !.result = result]
         ELSE dispatcher[w]]

\* Replay before the fence, the fence before the deadline.
Lookup(g) ==
    /\ flight[g] = "lookup"
    /\ CASE ledger[g] = "sent" -> Land(g, "ok")
         [] ledger[g] = "failed" -> Land(g, "invalid")
         [] ledger[g] = "none" /\ g \notin allows -> Land(g, "error")
         [] ledger[g] = "none" /\ g \in allows /\ expired -> Land(g, "invalid")
         [] OTHER -> /\ flight' = [flight EXCEPT ![g] = "dispatch"]
                     /\ UNCHANGED dispatcher
    /\ UNCHANGED <<gatewayVars, allows, ledger, sends, losses>>

\* Dispatch: WhatsApp acknowledges the message.
Dispatch(g) ==
    /\ flight[g] = "dispatch"
    /\ flight' = [flight EXCEPT ![g] = "save"] /\ sends' = sends + 1
    /\ UNCHANGED <<gatewayVars, dispatcher, allows, ledger, losses>>

\* A rejection before anything is sent is recorded; a server that does not
\* implement the message is not.
Reject(g) ==
    /\ flight[g] = "dispatch"
    /\ ledger' = ledger \/ ledger' = [ledger EXCEPT ![g] = "failed"]
    /\ Land(g, "invalid")
    /\ UNCHANGED <<gatewayVars, allows, sends, losses>>

\* Any other failure with nothing sent: ledger, deadline, upload, connection.
FlightFails(g) ==
    /\ flight[g] \in {"lookup", "dispatch"}
    /\ Land(g, "error")
    /\ UNCHANGED <<gatewayVars, allows, ledger, sends, losses>>

\* The message went out and its acknowledgement did not come back.
DispatchUnacked(g) ==
    /\ flight[g] = "dispatch" /\ Loss
    /\ sends' = sends + 1 /\ Land(g, "error")
    /\ UNCHANGED <<gatewayVars, allows, ledger>>

\* saveCommand, before the RPC is answered.
Save(g) ==
    /\ flight[g] = "save"
    /\ ledger' = [ledger EXCEPT ![g] = IF @ = "none" THEN "sent" ELSE @]
    /\ Land(g, "ok")
    /\ UNCHANGED <<gatewayVars, allows, sends, losses>>

SaveFails(g) ==
    /\ flight[g] = "save" /\ Loss
    /\ Land(g, "error")
    /\ UNCHANGED <<gatewayVars, allows, ledger, sends>>

\* The process dies; the result ledger survives.
CrashGateway(g) ==
    /\ flight[g] # "none" /\ Loss
    /\ Land(g, "error")
    /\ UNCHANGED <<gatewayVars, allows, ledger, sends>>

\* The session moves, and with it the target of later RPCs.
Reassign(g) ==
    /\ g # target /\ Loss
    /\ target' = g
    /\ UNCHANGED <<row, expired, dispatcher, allows, flight, ledger, sends, faults>>

\* A gateway's lease runs out, or it applies a snapshot, which may be older
\* than the last move.
Refence(g) ==
    /\ allows' = IF g \in allows THEN allows \ {g} ELSE allows \union {g}
    /\ UNCHANGED <<gatewayVars, dispatcher, flight, ledger, sends, losses>>

-----------------------------------------------------------------------------

DispatcherStep(w) ==
    \/ ClaimDue(w) \/ Start(w) \/ MarkPossible(w) \/ Call(w)
    \/ ReplyOk(w) \/ ReplyInvalid(w) \/ ReplyNoDispatch(w) \/ ReplyError(w)
    \/ Settle(w) \/ RecordAck(w) \/ Project(w) \/ Complete(w) \/ Arrive(w)

DispatcherFault(w) ==
    \/ RateLimited(w) \/ CheckFails(w) \/ CallFails(w) \/ RpcFails(w)
    \/ DeferProjection(w) \/ Abandon(w)

FlightStep(g) == Lookup(g) \/ Dispatch(g) \/ Reject(g) \/ FlightFails(g) \/ Save(g)

GatewayFault(g) ==
    \/ DispatchUnacked(g) \/ SaveFails(g) \/ CrashGateway(g)
    \/ Reassign(g) \/ Refence(g)

Next ==
    \/ EnqueueAsync \/ GoStale \/ PassDeadline
    \/ \E w \in Dispatcher : SendSync(w) \/ DispatcherStep(w) \/ DispatcherFault(w)
    \/ \E g \in Gateway : FlightStep(g) \/ GatewayFault(g)

Spec == Init /\ [][Next]_vars

\* The schedulers poll, RPC handlers run on, leases become stale.
FairSpec ==
    /\ Spec /\ WF_vars(GoStale)
    /\ \A w \in Dispatcher : WF_vars(DispatcherStep(w))
    /\ \A g \in Gateway : WF_vars(FlightStep(g))

-----------------------------------------------------------------------------
(* Properties.                                                             *)

\* The row, the dispatchers and the flights have their types.
TypeOK ==
    /\ row \in Row /\ expired \in BOOLEAN
    /\ dispatcher \in [Dispatcher -> Entry]
    /\ target \in Gateway /\ allows \subseteq Gateway
    /\ flight \in [Gateway -> {"none", "lookup", "dispatch", "save"}]
    /\ ledger \in [Gateway -> {"none", "sent", "failed"}]
    /\ sends \in Nat /\ faults \in 0..MaxFaults /\ losses \in 0..MaxLosses

\* A command reported failed never went out, then or later: effect_possible is
\* set before the RPC, and what any attempt may have sent ends as unknown.
FailedNeverSent == row.status = "failed" => sends = 0

\* An acknowledgement on record is not overturned by a deadline, by exhausted
\* attempts or by a stale owner.
AckNeverErased == row.acked => row.status \notin {"failed", "unknown"}

\* Retries, overruns and duplicate RPCs do not send again: each repetition has
\* its own lost result, gateway crash or reassignment.
OneSendPerLoss == sends <= 1 + losses

\* Neither terminal state dispatches again, whatever stale owners do.
Settled == [][row.status \in Terminal => row' = row]_vars

\* Every accepted command is settled.
EventuallySettled == (row.status # "none") ~> (row.status \in Terminal)

=============================================================================
