---------------------------- MODULE SessionManager ----------------------------
(***************************************************************************)
(* The gateway's session manager (internal/wa/manager.go) for one session: *)
(* calls of the desired-state reconciler and of the engine's RPCs, the     *)
(* reconnect loops, the QR pump and the callbacks of the WhatsApp client,  *)
(* all of them concurrent and each of them a few short critical sections.  *)
(*                                                                         *)
(* A ManagedSession is a capsule, since a call may still hold one that     *)
(* Forget has dropped from the registry.  A client carries the context it  *)
(* was built with, the reconnect loop and the pump that run under that     *)
(* context, and the callback it is in.  Only setStatus's effect on the     *)
(* capsule is kept: publication, back-off times, QR codes, presence,       *)
(* history and the session's configuration are left out.                   *)
(***************************************************************************)
EXTENDS Naturals, FiniteSets

CONSTANTS
    Api,        \* engine RPCs that may be in progress
    Recon,      \* the reconciler, one call at a time (applyMu)
    MaxCapsule, MaxClient, MaxDevice,
    MaxCalls,   \* bound on the calls into the manager
    MaxFaults   \* bound on failures, drops and unlinkings

ASSUME ManagerAssumption ==
    /\ Recon \notin Api
    /\ {MaxCapsule, MaxClient, MaxDevice} \subseteq Nat \ {0}
    /\ {MaxCalls, MaxFaults} \subseteq Nat

Handler == Api \union {Recon}
Capsule == 1..MaxCapsule
Client == 1..MaxClient
Device == 1..MaxDevice

Status == {"stopped", "starting", "scan", "working", "failed", "logged_out"}

VARIABLES
    keystore,   \* devices with a JID in the gateway's keystore
    deleted,    \* devices whose keys were deleted from it (store.Device.Deleted)
    sessions,   \* Manager.sessions: the registered capsule, or 0
    capsule,    \* the ManagedSessions
    client,     \* WhatsApp clients with the goroutines that serve them
    op,         \* the step of each call
    calls, faults

vars == <<keystore, deleted, sessions, capsule, client, op, calls, faults>>
devices == <<keystore, deleted>>
counters == <<calls, faults>>

NoCapsule == [status |-> "stopped", device |-> 0, client |-> 0, reconnect |-> FALSE]
NoClient == [of |-> 0, device |-> 0, link |-> "down", flow |-> "none", pump |-> "off",
             event |-> "none", torn |-> 0, loop |-> "none", seen |-> 0, cancelled |-> TRUE]
NoOp == [pc |-> "idle", k |-> 0, c |-> 0, d |-> 0]

\* The gateway has just started with a paired device, or the session was just
\* prepared for pairing, or just started from its assignment.
Init ==
    /\ \/ /\ keystore = {1} /\ sessions = 0
          /\ capsule = [k \in Capsule |-> NoCapsule]
          /\ client = [c \in Client |-> NoClient]
       \/ /\ keystore = {} /\ sessions = 1
          /\ capsule = [k \in Capsule |->
                IF k # 1 THEN NoCapsule ELSE [NoCapsule EXCEPT !.device = 1]]
          /\ client = [c \in Client |-> NoClient]
       \/ /\ keystore = {1} /\ sessions = 1
          /\ capsule = [k \in Capsule |->
                IF k # 1 THEN NoCapsule
                ELSE [status |-> "starting", device |-> 1, client |-> 1, reconnect |-> TRUE]]
          /\ client = [c \in Client |->
                IF c # 1 THEN NoClient
                ELSE [NoClient EXCEPT !.of = 1, !.device = 1, !.flow = "managed",
                                      !.loop = "top", !.cancelled = FALSE]]
    /\ deleted = {}
    /\ op = [h \in Handler |-> NoOp]
    /\ calls = 0 /\ faults = 0

Fault == faults < MaxFaults /\ faults' = faults + 1
Begins(h) == op[h].pc = "idle" /\ calls < MaxCalls /\ calls' = calls + 1

-----------------------------------------------------------------------------
(* Allocation.  What nothing refers to any more is used again.             *)

CapsuleInUse(k) ==
    \/ sessions = k
    \/ \E h \in Handler : op[h].k = k
    \/ \E c \in Client : client[c].of = k

DeviceInUse(d) ==
    \/ d \in keystore
    \/ \E k \in Capsule : CapsuleInUse(k) /\ capsule[k].device = d
    \/ \E c \in Client : client[c].device = d
    \/ \E h \in Handler : op[h].d = d

FreeCapsules == {k \in Capsule : ~CapsuleInUse(k)}
FreeClients == {c \in Client : client[c].of = 0}
FreeDevices == {d \in Device : ~DeviceInUse(d)}
Least(S) == CHOOSE x \in S : \A y \in S : x <= y

\* A client that nobody holds, and whose goroutines have ended, is collected.
Looping == {"top", "check", "connect", "wait"}

Collected(cl, cs, o) ==
    [c \in Client |->
        IF \/ cl[c].link # "down" \/ cl[c].pump # "off" \/ cl[c].event # "none"
           \/ cl[c].loop \in Looping
           \/ \E k \in Capsule : cs[k].client = c
           \/ \E h \in Handler : o[h].c = c
           \/ \E b \in Client :
                \/ cl[b].torn = c
                \/ cl[b].loop \in {"check", "connect"} /\ cl[b].seen = c
        THEN cl[c] ELSE NoClient]

Update(cs, cl, o) ==
    /\ capsule' = cs /\ op' = o
    /\ client' = Collected(cl, cs, o)

At(h, pc) == op[h].pc = pc
Moved(h, pc) == [op EXCEPT ![h].pc = pc]
Done(h) == [op EXCEPT ![h] = NoOp]

-----------------------------------------------------------------------------
(* The manager's critical sections, as functions of its state.             *)

\* setStatus
WithStatus(k, s) == [capsule EXCEPT ![k].status = s]

\* NewDevice, a device nothing has referred to yet.
NewDevice == Least(FreeDevices)
DeviceIsNew == deleted' = deleted \ {NewDevice}

\* DeleteDevice, here or by whatsmeow, of a device that has keys.
DeleteDevice(d) ==
    /\ keystore' = keystore \ {d}
    /\ deleted' = deleted \union ({d} \intersect keystore)

\* Mutant of LoggedOutCapsule: the session keeps its device.
LoggedOutSameDevice(k) == [capsule EXCEPT ![k].status = "logged_out"]

\* setLoggedOut: the deleted device is swapped for a fresh one.
LoggedOutCapsule(k) ==
    [capsule EXCEPT ![k].status = "logged_out", ![k].device = NewDevice]

\* Mutant of Torn: the session does not let go of its client.
TornKeepsClient(k) == [capsule EXCEPT ![k].reconnect = FALSE]

\* teardown takes whatever client the session has by now: under the lock the
\* session lets go of it and its context is cancelled ...
Torn(k) == [capsule EXCEPT ![k].client = 0, ![k].reconnect = FALSE]
Cancelled(k) ==
    [c \in Client |-> IF c = capsule[k].client THEN [client[c] EXCEPT !.cancelled = TRUE]
                      ELSE client[c]]
\* ... and it is disconnected after the unlock.
Disconnected(cl, c) ==
    [b \in Client |-> IF b = c THEN [cl[b] EXCEPT !.link = "down"] ELSE cl[b]]

\* The section shared by startManaged, StartQR and StartPairingCode.
Built(k, c) == [capsule EXCEPT ![k].client = c, ![k].reconnect = TRUE]
NewClient(k, c, flow) ==
    [client EXCEPT ![c] = [NoClient EXCEPT !.of = k, !.device = capsule[k].device,
                                           !.flow = flow, !.cancelled = FALSE]]

-----------------------------------------------------------------------------
(* Starting a session.                                                     *)

\* EnsureDevice, the body of PrepareSession.
EnsureDevice(h) ==
    /\ h \in Api /\ Begins(h)
    /\ sessions = 0 /\ FreeCapsules # {} /\ FreeDevices # {}
    /\ sessions' = Least(FreeCapsules)
    /\ capsule' = [capsule EXCEPT ![sessions'] =
                      [NoCapsule EXCEPT !.device = NewDevice]]
    /\ DeviceIsNew
    /\ UNCHANGED <<keystore, client, op, faults>>

\* StartAssigned finds the assignment's device in the keystore ...
StartAssigned(d) ==
    /\ Begins(Recon)
    /\ d \in keystore
    /\ op' = [op EXCEPT ![Recon] = [NoOp EXCEPT !.pc = "register", !.d = d]]
    /\ UNCHANGED <<devices, sessions, capsule, client, faults>>

\* ... registers the session, which keeps the device it has if it is known ...
Register(h) ==
    /\ At(h, "register")
    /\ IF sessions # 0 THEN UNCHANGED <<sessions, capsule>>
       ELSE /\ FreeCapsules # {}
            /\ sessions' = Least(FreeCapsules)
            /\ capsule' = [capsule EXCEPT ![sessions'] = [NoCapsule EXCEPT !.device = op[h].d]]
    /\ op' = [op EXCEPT ![h] = [NoOp EXCEPT !.pc = "get"]]
    /\ UNCHANGED <<devices, client, counters>>

\* ... and startManaged looks it up, builds its client unless it has one ...
Get(h) ==
    /\ At(h, "get")
    /\ op' = IF sessions = 0 THEN Done(h)
             ELSE [op EXCEPT ![h].pc = "manage", ![h].k = sessions]
    /\ UNCHANGED <<devices, sessions, capsule, client, counters>>

Manage(h) ==
    /\ At(h, "manage")
    /\ IF capsule[op[h].k].client # 0
       THEN Update(capsule, client, Done(h))
       ELSE /\ FreeClients # {}
            /\ LET c == Least(FreeClients) IN
               Update(Built(op[h].k, c), NewClient(op[h].k, c, "managed"),
                      [op EXCEPT ![h].pc = "spawn", ![h].c = c])
    /\ UNCHANGED <<devices, sessions, counters>>

\* ... reports it as starting and spawns its reconnect loop.
Spawn(h) ==
    /\ At(h, "spawn")
    /\ Update(WithStatus(op[h].k, "starting"), [client EXCEPT ![op[h].c].loop = "top"], Done(h))
    /\ UNCHANGED <<devices, sessions, counters>>

-----------------------------------------------------------------------------
(* The calls that look the session up first, and do nothing without it.    *)
(* They come at any time: the fence on the assignment (fencePairing,       *)
(* runDurableCommand) and the reconciler's reasons are left open.          *)

Call(h, job) ==
    /\ Begins(h)
    /\ sessions # 0
    /\ IF h = Recon THEN job = "stop" ELSE job \in {"qr", "code", "logout", "forget"}
    /\ op' = [op EXCEPT ![h] = [NoOp EXCEPT !.pc = job, !.k = sessions]]
    /\ UNCHANGED <<devices, sessions, capsule, client, faults>>

\* StartQR and StartPairingCode on a session that has a client: a QR flow goes
\* on, anything else is a conflict; neither changes the session.
PairingRuns(h) ==
    /\ At(h, "qr") \/ At(h, "code")
    /\ capsule[op[h].k].client # 0
    /\ Update(capsule, client, Done(h))
    /\ UNCHANGED <<devices, sessions, counters>>

StartPairing(h) ==
    /\ At(h, "qr") \/ At(h, "code")
    /\ capsule[op[h].k].client = 0 /\ FreeClients # {}
    /\ LET c == Least(FreeClients) IN
       Update(Built(op[h].k, c), NewClient(op[h].k, c, op[h].pc),
              [op EXCEPT ![h].pc = "channel", ![h].c = c])
    /\ UNCHANGED <<devices, sessions, counters>>

\* GetQRChannel refuses a device that is paired.
OpenChannel(h) ==
    /\ At(h, "channel")
    /\ IF client[op[h].c].flow = "qr" /\ client[op[h].c].device \in keystore
       THEN op' = Moved(h, "fail") /\ UNCHANGED capsule
       ELSE op' = Moved(h, "connect") /\ capsule' = WithStatus(op[h].k, "scan")
    /\ UNCHANGED <<devices, sessions, client, counters>>

\* Connect; StartQR then spawns the pump and the loop and returns.
ConnectPairing(h) ==
    /\ At(h, "connect")
    /\ LET open == [client EXCEPT ![op[h].c].link = "open"] IN
       IF client[op[h].c].flow = "code"
       THEN Update(capsule, open, Moved(h, "pair"))
       ELSE Update(capsule, [open EXCEPT ![op[h].c].pump = "on", ![op[h].c].loop = "wait"],
                   Done(h))
    /\ UNCHANGED <<devices, sessions, counters>>

PairPhone(h) ==
    /\ At(h, "pair")
    /\ Update(capsule, [client EXCEPT ![op[h].c].loop = "wait"], Done(h))
    /\ UNCHANGED <<devices, sessions, counters>>

PairingFails(h) ==
    /\ Fault
    /\ At(h, "connect") \/ At(h, "pair")
    /\ op' = Moved(h, "fail")
    /\ UNCHANGED <<devices, sessions, capsule, client, calls>>

\* StopAssigned, Forget, the end of Logout and the error paths of a pairing all
\* begin with a teardown ...
Teardown(h) ==
    /\ op[h].pc \in {"stop", "forget", "quit", "fail"}
    /\ LET next == CASE op[h].pc = "stop" -> "stopped"
                     [] op[h].pc = "forget" -> "drop"
                     [] op[h].pc = "quit" -> "out"
                     [] op[h].pc = "fail" -> "failed"
       IN Update(Torn(op[h].k), Cancelled(op[h].k),
                 [op EXCEPT ![h].pc = next, ![h].c = capsule[op[h].k].client])
    /\ UNCHANGED <<devices, sessions, counters>>

\* ... and end with a report, the registry's deletion or the device's swap.
Report(h) ==
    /\ op[h].pc \in {"stopped", "failed"}
    /\ Update(WithStatus(op[h].k, op[h].pc), Disconnected(client, op[h].c), Done(h))
    /\ UNCHANGED <<devices, sessions, counters>>

Drop(h) ==
    /\ At(h, "drop")
    /\ sessions' = 0
    /\ Update(capsule, Disconnected(client, op[h].c), Done(h))
    /\ UNCHANGED <<devices, counters>>

\* Logout reads the client and the device under the lock ...
Logout(h) ==
    /\ At(h, "logout")
    /\ op' = [op EXCEPT ![h].pc = "unlink", ![h].c = capsule[op[h].k].client,
                        ![h].d = capsule[op[h].k].device]
    /\ UNCHANGED <<devices, sessions, capsule, client, counters>>

\* ... unlinks the device at WhatsApp and deletes it locally ...
Unlink(h) ==
    /\ At(h, "unlink")
    /\ DeleteDevice(op[h].d)
    /\ Update(capsule, Disconnected(client, op[h].c),
              [op EXCEPT ![h].pc = "quit", ![h].c = 0, ![h].d = 0])
    /\ UNCHANGED <<sessions, counters>>

\* ... or fails to do both, and goes on either way.
UnlinkFails(h) ==
    /\ Fault
    /\ At(h, "unlink")
    /\ op' = [op EXCEPT ![h].pc = "quit", ![h].c = 0, ![h].d = 0]
    /\ UNCHANGED <<devices, sessions, capsule, client, calls>>

LogoutDone(h) ==
    /\ At(h, "out") /\ FreeDevices # {}
    /\ Update(LoggedOutCapsule(op[h].k), Disconnected(client, op[h].c), Done(h))
    /\ DeviceIsNew
    /\ UNCHANGED <<keystore, sessions, counters>>

-----------------------------------------------------------------------------
(* The reconnect loop of a client's context.                               *)

Loops(c, loop) == [client EXCEPT ![c].loop = loop]

\* Under the lock: is the session to reconnect, and with which client?
LoopTop(c) ==
    /\ client[c].loop = "top"
    /\ LET k == client[c].of IN
       Update(capsule, IF capsule[k].reconnect
                       THEN [Loops(c, "check") EXCEPT ![c].seen = capsule[k].client]
                       ELSE Loops(c, "done"), op)
    /\ UNCHANGED <<devices, sessions, counters>>

LoopCheck(c) ==
    /\ client[c].loop = "check"
    /\ Update(capsule, Loops(c, IF client[c].cancelled THEN "done" ELSE "connect"), op)
    /\ UNCHANGED <<devices, sessions, counters>>

\* The back-off may still be cut short by the context, the Connect may not.  A
\* client that is connected already refuses, and the loop starts over.
Again(c) == Loops(c, IF capsule[client[c].of].reconnect THEN "top" ELSE "done")

LoopConnect(c) ==
    /\ client[c].loop = "connect"
    /\ \/ client[c].cancelled /\ Update(capsule, Loops(c, "done"), op)
       \/ IF client[client[c].seen].link \in {"open", "ready"}
          THEN Update(capsule, Again(c), op)
          ELSE Update(capsule, [Loops(c, "wait") EXCEPT ![client[c].seen].link = "open"], op)
    /\ UNCHANGED <<devices, sessions, counters>>

LoopConnectFails(c) ==
    /\ Fault
    /\ client[c].loop = "connect"
    /\ Update(capsule, Again(c), op)
    /\ UNCHANGED <<devices, sessions, calls>>

\* Mutants of LoopWait: the context is not watched; a drop is not noticed.
LoopWaitDeaf(c) ==
    /\ client[c].loop = "wait"
    /\ LET k == client[c].of
           now == capsule[k].client
       IN \/ ~capsule[k].reconnect /\ Update(capsule, Loops(c, "done"), op)
          \/ /\ capsule[k].reconnect /\ now # 0
             /\ client[now].link \in {"down", "dropped"}
             /\ Update(capsule, Loops(c, "top"), op)
    /\ UNCHANGED <<devices, sessions, counters>>

LoopWaitBlind(c) ==
    /\ client[c].loop = "wait"
    /\ client[c].cancelled \/ ~capsule[client[c].of].reconnect
    /\ Update(capsule, Loops(c, "done"), op)
    /\ UNCHANGED <<devices, sessions, counters>>

\* waitForReconnectSignal looks at the session's client of the moment.
LoopWait(c) ==
    /\ client[c].loop = "wait"
    /\ LET k == client[c].of
           now == capsule[k].client
       IN \/ /\ client[c].cancelled \/ ~capsule[k].reconnect
             /\ Update(capsule, Loops(c, "done"), op)
          \/ /\ capsule[k].reconnect /\ now # 0
             /\ client[now].link \in {"down", "dropped"}
             /\ Update(capsule, Loops(c, "top"), op)
    /\ UNCHANGED <<devices, sessions, counters>>

-----------------------------------------------------------------------------
(* WhatsApp, and the callbacks of a client, one at a time.                 *)

Event(c, event, link) ==
    /\ client[c].event = "none"
    /\ client' = [client EXCEPT ![c].event = event, ![c].link = link]

\* events.Connected
Login(c) ==
    /\ client[c].link = "open" /\ client[c].device \in keystore
    /\ Event(c, "connected", "ready")
    /\ UNCHANGED <<devices, sessions, capsule, op, counters>>

\* events.PairSuccess: the device has its JID before the callback runs.
Scan(c) ==
    /\ client[c].link = "open" /\ client[c].device \notin keystore
    /\ client[c].flow \in {"qr", "code"}
    /\ keystore' = keystore \union {client[c].device}
    /\ deleted' = deleted \ {client[c].device}
    /\ Event(c, "paired", "open")
    /\ UNCHANGED <<sessions, capsule, op, counters>>

\* events.Disconnected has no status; the client's own retry may be the first
\* to connect again.
DropLink(c) ==
    /\ Fault
    /\ client[c].link \in {"open", "ready"}
    /\ client' = [client EXCEPT ![c].link = "dropped"]
    /\ UNCHANGED <<devices, sessions, capsule, op, calls>>

AutoReconnect(c) ==
    /\ client[c].link = "dropped"
    /\ client' = [client EXCEPT ![c].link = "open"]
    /\ UNCHANGED <<devices, sessions, capsule, op, counters>>

\* events.LoggedOut: the phone unlinked the device, whatsmeow deletes it.
LoggedOut(c) ==
    /\ Fault
    /\ client[c].link = "ready"
    /\ DeleteDevice(client[c].device)
    /\ Event(c, "logged_out", "down")
    /\ UNCHANGED <<sessions, capsule, op, calls>>

\* StreamReplaced, a ban, an outdated client, a fatal connect failure.
Fatal(c) ==
    /\ Fault
    /\ client[c].link \in {"open", "ready"}
    /\ Event(c, "fatal", "down")
    /\ UNCHANGED <<devices, sessions, capsule, op, calls>>

\* applyEvent on a terminal event begins with the teardown of the session.
CallbackTeardown(c) ==
    /\ client[c].event \in {"logged_out", "fatal"}
    /\ LET k == client[c].of
           next == IF client[c].event = "fatal" THEN "failed" ELSE "out"
       IN Update(Torn(k), [Cancelled(k) EXCEPT ![c].event = next,
                                               ![c].torn = capsule[k].client], op)
    /\ UNCHANGED <<devices, sessions, counters>>

\* classifyEvent
EventStatus(event) == CASE event = "connected" -> "working"
                        [] event = "paired" -> "starting"
                        [] event = "failed" -> "failed"

\* The callback returns; what it tore down is disconnected.
Returned(c) ==
    Disconnected([client EXCEPT ![c].event = "none", ![c].torn = 0], client[c].torn)

CallbackStatus(c) ==
    /\ client[c].event \in {"connected", "paired", "failed"}
    /\ Update(WithStatus(client[c].of, EventStatus(client[c].event)), Returned(c), op)
    /\ UNCHANGED <<devices, sessions, counters>>

CallbackLoggedOut(c) ==
    /\ client[c].event = "out" /\ FreeDevices # {}
    /\ Update(LoggedOutCapsule(client[c].of), Returned(c), op)
    /\ DeviceIsNew
    /\ UNCHANGED <<keystore, sessions, counters>>

\* pumpQR: the channel ends after a success or with the context ...
PumpEnd(c) ==
    /\ client[c].pump = "on" /\ (client[c].cancelled \/ client[c].device \in keystore)
    /\ Update(capsule, [client EXCEPT ![c].pump = "off"], op)
    /\ UNCHANGED <<devices, sessions, counters>>

\* ... or times out: the session is reported failed ...
PumpTimeout(c) ==
    /\ client[c].pump = "on" /\ client[c].device \notin keystore
    /\ Update(WithStatus(client[c].of, "failed"), [client EXCEPT ![c].pump = "quit"], op)
    /\ UNCHANGED <<devices, sessions, counters>>

\* ... then torn down.
PumpTeardown(c) ==
    /\ \/ /\ client[c].pump = "quit"
          /\ LET k == client[c].of IN
             Update(Torn(k), [Cancelled(k) EXCEPT ![c].pump = "disconnect",
                                                  ![c].torn = capsule[k].client], op)
       \/ /\ client[c].pump = "disconnect"
          /\ Update(capsule, Disconnected([client EXCEPT ![c].pump = "off", ![c].torn = 0],
                                          client[c].torn), op)
    /\ UNCHANGED <<devices, sessions, counters>>

-----------------------------------------------------------------------------
HandlerSteps(h) ==
    \/ Register(h) \/ Get(h) \/ Manage(h) \/ Spawn(h)
    \/ PairingRuns(h) \/ StartPairing(h) \/ OpenChannel(h) \/ ConnectPairing(h) \/ PairPhone(h)
    \/ Logout(h) \/ Unlink(h) \/ LogoutDone(h)
    \/ Teardown(h) \/ Report(h) \/ Drop(h)

LoopSteps(c) == LoopTop(c) \/ LoopCheck(c) \/ LoopConnect(c) \/ LoopWait(c)
CallbackSteps(c) == CallbackTeardown(c) \/ CallbackStatus(c) \/ CallbackLoggedOut(c)
PumpSteps(c) == PumpEnd(c) \/ PumpTimeout(c) \/ PumpTeardown(c)

Next ==
    \/ \E h \in Handler : \/ HandlerSteps(h) \/ EnsureDevice(h)
                          \/ PairingFails(h) \/ UnlinkFails(h)
                          \/ \E job \in {"stop", "qr", "code", "logout", "forget"} : Call(h, job)
    \/ \E d \in Device : StartAssigned(d)
    \/ \E c \in Client : \/ LoopSteps(c) \/ CallbackSteps(c) \/ PumpSteps(c)
                         \/ LoopConnectFails(c) \/ Login(c) \/ Scan(c)
                         \/ DropLink(c) \/ AutoReconnect(c) \/ LoggedOut(c) \/ Fatal(c)

Spec == Init /\ [][Next]_vars

\* Everything but a loop takes finitely many steps between two calls or faults,
\* so it is enough that some of them are taken while any can be: the calls in
\* progress, the callbacks and pumps, and WhatsApp's answer to a login.
Progress ==
    \/ \E h \in Handler : HandlerSteps(h)
    \/ \E c \in Client : CallbackSteps(c) \/ PumpSteps(c) \/ Login(c)

FairSpec ==
    /\ Spec
    /\ WF_vars(Progress)
    /\ \A c \in Client : WF_vars(LoopSteps(c))

-----------------------------------------------------------------------------
TypeOK ==
    /\ keystore \subseteq Device /\ deleted \subseteq Device
    /\ sessions \in Capsule \union {0}
    /\ capsule \in [Capsule -> [status: Status, device: Device \union {0},
                                client: Client \union {0}, reconnect: BOOLEAN]]
    /\ client \in [Client ->
          [of: Capsule \union {0}, device: Device \union {0},
           link: {"down", "dropped", "open", "ready"}, flow: {"none", "managed", "qr", "code"},
           pump: {"off", "on", "quit", "disconnect"},
           event: {"none", "connected", "paired", "logged_out", "fatal", "failed", "out"},
           torn: Client \union {0}, loop: {"none", "done"} \union Looping,
           seen: Client \union {0}, cancelled: BOOLEAN]]
    /\ \A h \in Handler : op[h].k \in Capsule \union {0} /\ op[h].c \in Client \union {0}
    /\ calls \in 0..MaxCalls /\ faults \in 0..MaxFaults

\* A session that holds a client is served: the context of that client is not
\* cancelled, and its reconnect loop is alive or the call that built the client
\* has yet to spawn it, whatever teardowns and starts have overlapped.
Starting(c) == \E h \in Handler :
                  op[h].c = c /\ op[h].pc \in {"spawn", "channel", "connect", "pair", "fail"}

HeldIsServed ==
    \A k \in Capsule : LET c == capsule[k].client IN
        c # 0 => /\ capsule[k].reconnect /\ ~client[c].cancelled /\ client[c].of = k
                 /\ client[c].loop \in Looping \/ Starting(c)

\* Once it was reported as logged out, the registered session holds neither a
\* device that still has keys nor the one whose keys were deleted, by Logout or
\* by the phone: a later start or pairing would use it.  setLoggedOut's swap,
\* the teardown before it and the clients built meanwhile all take part.
LoggedOutIsUnpaired ==
    sessions # 0 /\ capsule[sessions].status = "logged_out"
        => capsule[sessions].device \notin keystore \union deleted

\* After the last call and the last fault, the only reconnect loops that run
\* are those of clients a session holds: an overlapped stop and start leave no
\* second loop behind.
LoopsEnd ==
    <>[](\A c \in Client :
            client[c].loop \in Looping => \E k \in Capsule : capsule[k].client = c)

\* A session that holds on to a client whose device stays paired is logged in
\* for good once faults are over.
HoldsPaired(c) ==
    /\ client[c].device \in keystore
    /\ \E k \in Capsule : capsule[k].client = c

HeldConnects ==
    \A c \in Client : <>[]HoldsPaired(c) => <>[](client[c].link = "ready")
===============================================================================
