----------------------- MODULE OutboundCommand_proofs -----------------------
(***************************************************************************)
(* Type correctness and the two verdicts of an outbound command, for every *)
(* number of dispatchers and gateways: a command reported failed was never *)
(* sent, and an acknowledgement on record is never overturned.             *)
(*                                                                         *)
(* The argument is about the first attempt that may reach the engine.  As  *)
(* long as effect_possible is unset nothing is on its way (Untouched);     *)
(* the owner whose claim found it unset is the only one that can call      *)
(* (FirstAlone), so its own progress tells whether anything was sent.      *)
(***************************************************************************)
EXTENDS OutboundCommand, FiniteSetTheorems, TLAPS

Live(w) == ~At(w, "idle")

\* attempts identifies the claims: no two dispatchers work under the same one.
Stamps ==
    /\ row.status = "none" => row.attempts = 0
    /\ \A w \in Dispatcher : Live(w) => dispatcher[w].stamp \in 1..row.attempts
    /\ \A w, v \in Dispatcher :
         Live(w) /\ Live(v) /\ dispatcher[w].stamp = dispatcher[v].stamp => w = v

\* What a dispatcher remembers of effect_possible.
Memory ==
    \A w \in Dispatcher :
      /\ dispatcher[w].was => dispatcher[w].possible
      /\ At(w, "start") => dispatcher[w].possible = dispatcher[w].was
      /\ At(w, "mark") => ~dispatcher[w].possible
      /\ dispatcher[w].step \in {"call", "rpc", "wait", "reply"} => dispatcher[w].possible

Calling == {"call", "rpc", "wait"}
Harmless(w) == dispatcher[w].step \notin Calling /\ ~dispatcher[w].was
Silent == sends = 0 /\ \A g \in Gateway : flight[g] = "none"
NoEffect == ~row.possible \/ row.status = "failed"

Untouched == NoEffect => Silent /\ \A w \in Dispatcher : Harmless(w)

\* The owner whose claim found effect_possible unset.
First(w) == Live(w) /\ Owns(w) /\ ~dispatcher[w].was

\* Its call has not been made, or has come back without effect.
Unsent(w) ==
    \/ dispatcher[w].step \in {"start", "mark", "call", "rpc"}
    \/ At(w, "reply") /\ dispatcher[w].result \in {"nodispatch", "invalid"}
    \/ At(w, "settle") /\ ~dispatcher[w].possible

FirstAlone ==
    \A w \in Dispatcher : First(w) =>
      /\ \A v \in Dispatcher : v # w => Harmless(v)
      /\ Unsent(w) => Silent
      /\ At(w, "wait") =>
           \A g \in Gateway :
             /\ g # dispatcher[w].gw => flight[g] = "none"
             /\ flight[g] \in {"lookup", "dispatch"} => sends = 0

\* The owner of an acknowledged row knows of the acknowledgement.
AckKept ==
    /\ row.acked => row.status \notin {"failed", "unknown"}
    /\ \A w \in Dispatcher : row.acked /\ Live(w) /\ Owns(w) =>
         \/ At(w, "start") /\ dispatcher[w].acked
         \/ dispatcher[w].step \in {"project", "complete"}

IInv == TypeOK /\ Stamps /\ Memory /\ Untouched /\ FirstAlone /\ AckKept

-----------------------------------------------------------------------------
(* One dispatcher moves on with its claim.                                 *)

Moves(w) ==
    /\ Live(w)
    /\ \A v \in Dispatcher : v # w => dispatcher'[v] = dispatcher[v]
    /\ flight' = flight /\ sends' = sends
    /\ row' = row \/ (Owns(w) /\ row'.attempts = row.attempts /\ row'.status # "none")
    /\ Live(w)' => dispatcher'[w].stamp = dispatcher[w].stamp
    /\ dispatcher'[w].was => dispatcher[w].was
    /\ Live(w)' => dispatcher'[w].was = dispatcher[w].was
    /\ NoEffect' => NoEffect \/ (First(w) /\ Unsent(w))
    /\ dispatcher'[w].step \in Calling =>
         /\ ~NoEffect'
         /\ dispatcher[w].step \in Calling \/ dispatcher[w].was \/ Owns(w)
    /\ First(w) /\ Unsent(w)' => Unsent(w)
    /\ dispatcher'[w].step # "wait"

\* Such a step keeps the stamps and the exclusive first attempt.
LEMMA MovesKeep ==
  ASSUME IInv, NEW w \in Dispatcher, Moves(w)
  PROVE  Stamps' /\ Untouched' /\ FirstAlone'
<1> USE DEF IInv
<1>1. row'.attempts = row.attempts /\ (row'.status = "none" => row.status = "none")
  BY DEF Moves
<1>2. Stamps'
  BY <1>1 DEF Moves, Stamps, Live, At
<1>3. Untouched'
  <2> SUFFICES ASSUME NoEffect' PROVE Silent' /\ \A v \in Dispatcher : Harmless(v)'
    BY DEF Untouched
  <2>1. CASE NoEffect
    BY <2>1 DEF Moves, Untouched, Silent, Harmless
  <2>2. CASE First(w) /\ Unsent(w)
    BY <2>2 DEF Moves, FirstAlone, Silent, Harmless, First
  <2>3. QED
    BY <2>1, <2>2 DEF Moves
<1>4. FirstAlone'
  <2> SUFFICES ASSUME NEW u \in Dispatcher, First(u)'
               PROVE  /\ \A v \in Dispatcher : v # u => Harmless(v)'
                      /\ Unsent(u)' => Silent'
                      /\ At(u, "wait")' =>
                           \A g \in Gateway :
                             /\ g # dispatcher'[u].gw => flight'[g] = "none"
                             /\ flight'[g] \in {"lookup", "dispatch"} => sends' = 0
    BY DEF FirstAlone
  <2>1. CASE u = w
    <3>1. First(w)
      BY <2>1 DEF Moves, First, Owns, Live, At, Stamps
    <3>2. QED
      BY <2>1, <3>1 DEF Moves, FirstAlone, Silent, Harmless, At
  <2>2. CASE u # w
    <3>1. dispatcher'[u] = dispatcher[u] /\ Live(u) /\ dispatcher[u].stamp = row.attempts
      BY <2>2, <1>1 DEF Moves, First, Owns, Live, At
    <3>2. ~Owns(w)
      BY <2>2, <3>1 DEF Stamps, Owns, Moves
    <3>3. row' = row
      BY <3>2 DEF Moves
    <3>4. First(u)
      BY <3>1, <3>3 DEF First, Owns, Live, At
    <3>5. Harmless(w)'
      BY <2>2, <3>2, <3>4 DEF Moves, FirstAlone, Harmless
    <3>6. \A v \in Dispatcher : v # u => Harmless(v)'
      BY <3>4, <3>5 DEF FirstAlone, Harmless, Moves
    <3>7. Unsent(u)' => Silent'
      BY <3>1, <3>4 DEF FirstAlone, Unsent, At, Silent, Moves
    <3>8. QED
      BY <3>1, <3>4, <3>6, <3>7 DEF FirstAlone, At, Moves
  <2>3. QED
    BY <2>1, <2>2
<1>5. QED
  BY <1>2, <1>3, <1>4

\* An idle dispatcher is typed.
LEMMA IdleType == Idle \in Entry
  BY OutboundAssumption DEF Idle, Entry, Step, Result

\* A dispatcher stays typed when its step changes with the possible-dispatch mark,
LEMMA SetPossible ==
  ASSUME TypeOK, NEW w \in Dispatcher, NEW s \in Step, NEW x \in BOOLEAN,
         dispatcher' = [dispatcher EXCEPT ![w].step = s, ![w].possible = x]
  PROVE  dispatcher' \in [Dispatcher -> Entry]
<1> DEFINE e == [dispatcher[w] EXCEPT !.step = s, !.possible = x]
<1>1. e \in Entry
  <2>1. dispatcher[w] \in Entry
    BY DEF TypeOK
  <2> QED BY <2>1 DEF Entry
<1>2. dispatcher' = [dispatcher EXCEPT ![w] = e]
  BY DEF TypeOK
<1>3. QED
  BY <1>1, <1>2 DEF TypeOK

\* the gateway it calls,
LEMMA SetGw ==
  ASSUME TypeOK, NEW w \in Dispatcher, NEW s \in Step, NEW x \in Gateway,
         dispatcher' = [dispatcher EXCEPT ![w].step = s, ![w].gw = x]
  PROVE  dispatcher' \in [Dispatcher -> Entry]
<1> DEFINE e == [dispatcher[w] EXCEPT !.step = s, !.gw = x]
<1>1. e \in Entry
  <2>1. dispatcher[w] \in Entry
    BY DEF TypeOK
  <2> QED BY <2>1 DEF Entry
<1>2. dispatcher' = [dispatcher EXCEPT ![w] = e]
  BY DEF TypeOK
<1>3. QED
  BY <1>1, <1>2 DEF TypeOK

\* or the result it was given.
LEMMA SetResult ==
  ASSUME TypeOK, NEW w \in Dispatcher, NEW s \in Step, NEW x \in Result,
         dispatcher' = [dispatcher EXCEPT ![w].step = s, ![w].result = x]
  PROVE  dispatcher' \in [Dispatcher -> Entry]
<1> DEFINE e == [dispatcher[w] EXCEPT !.step = s, !.result = x]
<1>1. e \in Entry
  <2>1. dispatcher[w] \in Entry
    BY DEF TypeOK
  <2> QED BY <2>1 DEF Entry
<1>2. dispatcher' = [dispatcher EXCEPT ![w] = e]
  BY DEF TypeOK
<1>3. QED
  BY <1>1, <1>2 DEF TypeOK

\* Every step of dispatchClaimed is a move, and keeps what it remembers.
LEMMA StartKeeps ==
  ASSUME IInv, NEW w \in Dispatcher, Start(w)
  PROVE  TypeOK' /\ Moves(w) /\ Memory' /\ AckKept'
<1> USE DEF IInv, Start, At, GoTo, Release, CompleteOwned
<1>1. TypeOK'
  BY IdleType DEF TypeOK, Row, Entry, Step, Result, Terminal, Owns, apiVars
<1>2. Moves(w)
  BY <1>1 DEF Moves, TypeOK, Row, Entry, Live, Owns, apiVars, NoEffect, First,
              Unsent, Calling, Untouched, Harmless, Memory, Idle
<1>3. Memory'
  BY <1>1 DEF Memory, TypeOK, Entry, Idle
<1>4. AckKept'
  BY <1>1 DEF AckKept, TypeOK, Row, Entry, Owns, Live, Memory, Stamps, Idle
<1>5. QED
  BY <1>1, <1>2, <1>3, <1>4

\* RateLimited keeps the invariant.
LEMMA RateLimitedKeeps ==
  ASSUME IInv, NEW w \in Dispatcher, RateLimited(w)
  PROVE  TypeOK' /\ Moves(w) /\ Memory' /\ AckKept'
<1> USE DEF IInv, RateLimited, At, Fault, Reschedule, Release
<1>1. TypeOK'
  BY IdleType, OutboundAssumption DEF TypeOK, Row, Entry, Step, Result, Terminal, Owns, apiVars
<1>2. Moves(w)
  BY <1>1 DEF Moves, TypeOK, Row, Entry, Live, Owns, apiVars, NoEffect, First,
              Unsent, Calling, Untouched, Harmless, Memory, Idle
<1>3. Memory'
  BY <1>1 DEF Memory, TypeOK, Entry, Idle
<1>4. AckKept'
  BY <1>1 DEF AckKept, TypeOK, Row, Entry, Owns, Live, Memory, Stamps, Idle
<1>5. QED
  BY <1>1, <1>2, <1>3, <1>4

\* CheckFails keeps the invariant.
LEMMA CheckFailsKeeps ==
  ASSUME IInv, NEW w \in Dispatcher, CheckFails(w)
  PROVE  TypeOK' /\ Moves(w) /\ Memory' /\ AckKept'
<1> USE DEF IInv, CheckFails, At, GoTo
<1>1. TypeOK'
  BY DEF TypeOK, Row, Entry, Step, Result, Terminal, Owns, apiVars
<1>2. Moves(w)
  BY <1>1 DEF Moves, TypeOK, Row, Entry, Live, Owns, apiVars, NoEffect, First,
              Unsent, Calling, Untouched, Harmless, Memory
<1>3. Memory'
  BY <1>1 DEF Memory, TypeOK, Entry
<1>4. AckKept'
  BY <1>1 DEF AckKept, TypeOK, Row, Entry, Owns, Live, Memory, Stamps
<1>5. QED
  BY <1>1, <1>2, <1>3, <1>4

\* MarkPossible keeps the invariant.
LEMMA MarkPossibleKeeps ==
  ASSUME IInv, NEW w \in Dispatcher, MarkPossible(w)
  PROVE  TypeOK' /\ Moves(w) /\ Memory' /\ AckKept'
<1> USE DEF IInv, MarkPossible, At, Release
<1>1. TypeOK'
  <2>1. "call" \in Step /\ TRUE \in BOOLEAN
    BY DEF TypeOK, Step, Result
  <2>2. dispatcher' \in [Dispatcher -> Entry]
    <3>1. CASE dispatcher' = [dispatcher EXCEPT ![w].step = "call", ![w].possible = TRUE]
      BY <2>1, <3>1, SetPossible
    <3>2. CASE ~(dispatcher' = [dispatcher EXCEPT ![w].step = "call", ![w].possible = TRUE])
      BY <3>2, IdleType DEF TypeOK, Entry, Step
    <3>3. QED
      BY <3>1, <3>2
  <2>3. row' \in Row
    BY DEF TypeOK, Row, Terminal
  <2>4. QED
    BY <2>2, <2>3 DEF TypeOK, apiVars
<1>2. Moves(w)
  BY <1>1 DEF Moves, TypeOK, Row, Entry, Live, Owns, apiVars, NoEffect, First,
              Unsent, Calling, Untouched, Harmless, Memory, Idle
<1>3. Memory'
  BY <1>1 DEF Memory, TypeOK, Entry, Idle
<1>4. AckKept'
  BY <1>1 DEF AckKept, TypeOK, Row, Entry, Owns, Live, Memory, Stamps, Idle
<1>5. QED
  BY <1>1, <1>2, <1>3, <1>4

\* Call keeps the invariant.
LEMMA CallKeeps ==
  ASSUME IInv, NEW w \in Dispatcher, Call(w)
  PROVE  TypeOK' /\ Moves(w) /\ Memory' /\ AckKept'
<1> USE DEF IInv, Call, At
<1>1. TypeOK'
  <2>1. "rpc" \in Step /\ target \in Gateway
    BY DEF TypeOK, Step, Result
  <2>2. dispatcher' \in [Dispatcher -> Entry]
    <3>1. CASE dispatcher' = [dispatcher EXCEPT ![w].step = "rpc", ![w].gw = target]
      BY <2>1, <3>1, SetGw
    <3>2. QED
      BY <3>1
  <2>3. row' \in Row
    BY DEF TypeOK, Row, Terminal
  <2>4. QED
    BY <2>2, <2>3 DEF TypeOK, apiVars
<1>2. Moves(w)
  BY <1>1 DEF Moves, TypeOK, Row, Entry, Live, Owns, apiVars, NoEffect, First,
              Unsent, Calling, Untouched, Harmless, Memory
<1>3. Memory'
  BY <1>1 DEF Memory, TypeOK, Entry
<1>4. AckKept'
  BY <1>1 DEF AckKept, TypeOK, Row, Entry, Owns, Live, Memory, Stamps
<1>5. QED
  BY <1>1, <1>2, <1>3, <1>4

\* CallFails keeps the invariant.
LEMMA CallFailsKeeps ==
  ASSUME IInv, NEW w \in Dispatcher, CallFails(w)
  PROVE  TypeOK' /\ Moves(w) /\ Memory' /\ AckKept'
<1> USE DEF IInv, CallFails, At
<1>1. TypeOK'
  <2>1. "reply" \in Step /\ "nodispatch" \in Result
    BY DEF TypeOK, Step, Result
  <2>2. dispatcher' \in [Dispatcher -> Entry]
    <3>1. CASE dispatcher' = [dispatcher EXCEPT ![w].step = "reply", ![w].result = "nodispatch"]
      BY <2>1, <3>1, SetResult
    <3>2. QED
      BY <3>1
  <2>3. row' \in Row
    BY DEF TypeOK, Row, Terminal
  <2>4. QED
    BY <2>2, <2>3 DEF TypeOK, apiVars
<1>2. Moves(w)
  BY <1>1 DEF Moves, TypeOK, Row, Entry, Live, Owns, apiVars, NoEffect, First,
              Unsent, Calling, Untouched, Harmless, Memory
<1>3. Memory'
  BY <1>1 DEF Memory, TypeOK, Entry
<1>4. AckKept'
  BY <1>1 DEF AckKept, TypeOK, Row, Entry, Owns, Live, Memory, Stamps
<1>5. QED
  BY <1>1, <1>2, <1>3, <1>4

\* RpcFails keeps the invariant.
LEMMA RpcFailsKeeps ==
  ASSUME IInv, NEW w \in Dispatcher, RpcFails(w)
  PROVE  TypeOK' /\ Moves(w) /\ Memory' /\ AckKept'
<1> USE DEF IInv, RpcFails, At
<1>1. TypeOK'
  <2>1. "reply" \in Step /\ "error" \in Result
    BY DEF TypeOK, Step, Result
  <2>2. dispatcher' \in [Dispatcher -> Entry]
    <3>1. CASE dispatcher' = [dispatcher EXCEPT ![w].step = "reply", ![w].result = "error"]
      BY <2>1, <3>1, SetResult
    <3>2. QED
      BY <3>1
  <2>3. row' \in Row
    BY DEF TypeOK, Row, Terminal
  <2>4. QED
    BY <2>2, <2>3 DEF TypeOK, apiVars
<1>2. Moves(w)
  BY <1>1 DEF Moves, TypeOK, Row, Entry, Live, Owns, apiVars, NoEffect, First,
              Unsent, Calling, Untouched, Harmless, Memory
<1>3. Memory'
  BY <1>1 DEF Memory, TypeOK, Entry
<1>4. AckKept'
  BY <1>1 DEF AckKept, TypeOK, Row, Entry, Owns, Live, Memory, Stamps
<1>5. QED
  BY <1>1, <1>2, <1>3, <1>4

\* ReplyOk keeps the invariant.
LEMMA ReplyOkKeeps ==
  ASSUME IInv, NEW w \in Dispatcher, ReplyOk(w)
  PROVE  TypeOK' /\ Moves(w) /\ Memory' /\ AckKept'
<1> USE DEF IInv, ReplyOk, At, GoTo
<1>1. TypeOK'
  BY DEF TypeOK, Row, Entry, Step, Result, Terminal, Owns, apiVars
<1>2. Moves(w)
  BY <1>1 DEF Moves, TypeOK, Row, Entry, Live, Owns, apiVars, NoEffect, First,
              Unsent, Calling, Untouched, Harmless, Memory
<1>3. Memory'
  BY <1>1 DEF Memory, TypeOK, Entry
<1>4. AckKept'
  BY <1>1 DEF AckKept, TypeOK, Row, Entry, Owns, Live, Memory, Stamps
<1>5. QED
  BY <1>1, <1>2, <1>3, <1>4

\* ReplyInvalid keeps the invariant.
LEMMA ReplyInvalidKeeps ==
  ASSUME IInv, NEW w \in Dispatcher, ReplyInvalid(w)
  PROVE  TypeOK' /\ Moves(w) /\ Memory' /\ AckKept'
<1> USE DEF IInv, ReplyInvalid, At, GoTo, CompleteOwned, Release
<1>1. TypeOK'
  BY IdleType DEF TypeOK, Row, Entry, Step, Result, Terminal, Owns, apiVars
<1>2. Moves(w)
  BY <1>1 DEF Moves, TypeOK, Row, Entry, Live, Owns, apiVars, NoEffect, First,
              Unsent, Calling, Untouched, Harmless, Memory, Idle
<1>3. Memory'
  BY <1>1 DEF Memory, TypeOK, Entry, Idle
<1>4. AckKept'
  BY <1>1 DEF AckKept, TypeOK, Row, Entry, Owns, Live, Memory, Stamps, Idle
<1>5. QED
  BY <1>1, <1>2, <1>3, <1>4

\* ReplyNoDispatch keeps the invariant.
LEMMA ReplyNoDispatchKeeps ==
  ASSUME IInv, NEW w \in Dispatcher, ReplyNoDispatch(w)
  PROVE  TypeOK' /\ Moves(w) /\ Memory' /\ AckKept'
<1> USE DEF IInv, ReplyNoDispatch, At, GoTo, Release
<1>1. TypeOK'
  <2>1. "settle" \in Step /\ FALSE \in BOOLEAN
    BY DEF TypeOK, Step, Result
  <2>2. dispatcher' \in [Dispatcher -> Entry]
    <3>1. CASE dispatcher' = [dispatcher EXCEPT ![w].step = "settle", ![w].possible = FALSE]
      BY <2>1, <3>1, SetPossible
    <3>2. CASE dispatcher' = [dispatcher EXCEPT ![w] = Idle]
      BY <3>2, IdleType DEF TypeOK
    <3>3. CASE dispatcher' = [dispatcher EXCEPT ![w].step = "settle"]
      <4>1. dispatcher[w] \in Entry
        BY DEF TypeOK
      <4>2. [dispatcher[w] EXCEPT !.step = "settle"] \in Entry
        BY <2>1, <4>1 DEF Entry
      <4> QED BY <3>3, <4>2 DEF TypeOK
    <3>4. QED
      BY <3>1, <3>2, <3>3
  <2>3. row' \in Row
    <3>1. row \in Row /\ "failed" \in Terminal
      BY DEF TypeOK, Terminal
    <3>2. row' \in {row, [row EXCEPT !.possible = FALSE],
                     [row EXCEPT !.possible = FALSE, !.status = "failed"]}
      OBVIOUS
    <3> QED BY <3>1, <3>2 DEF Row
  <2>4. QED
    BY <2>2, <2>3 DEF TypeOK, apiVars
<1> DEFINE d == dispatcher[w]
           e == dispatcher'[w]
<1>a. \/ row' = row
      \/ /\ Owns(w) /\ ~d.was /\ ~row.acked /\ row'.attempts = row.attempts
         /\ row'.status \in {"sending", "failed"} /\ ~row'.acked
  BY DEF TypeOK, Row, Owns
<1>b. \A v \in Dispatcher : v # w => dispatcher'[v] = dispatcher[v]
  BY DEF TypeOK
<1>c. /\ e.step \in {"idle", "settle"}
      /\ e.was => d.was
      /\ e.step = "settle" => e.stamp = d.stamp /\ e.was = d.was
      /\ e.step = "settle" => d.was \/ Owns(w)
  BY DEF TypeOK, Entry, Idle
<1>2. Moves(w)
  <2>1. First(w) => Unsent(w)
    BY DEF Unsent
  <2>2. NoEffect' => NoEffect \/ First(w)
    BY <1>a DEF NoEffect, First, Live
  <2>3. QED
    BY <1>a, <1>b, <1>c, <2>1, <2>2 DEF Moves, Live, Calling, apiVars
<1>3. Memory'
  BY <1>1 DEF Memory, TypeOK, Entry, Idle
<1>4. AckKept'
  <2>1. ~(row.acked /\ Owns(w))
    BY DEF AckKept, Live
  <2>2. CASE row' = row
    BY <2>1, <2>2, <1>b, <1>c DEF AckKept, Live, Owns
  <2>3. CASE row' # row
    BY <2>3, <1>a DEF AckKept
  <2>4. QED
    BY <2>2, <2>3
<1>5. QED
  BY <1>1, <1>2, <1>3, <1>4

\* ReplyError keeps the invariant.
LEMMA ReplyErrorKeeps ==
  ASSUME IInv, NEW w \in Dispatcher, ReplyError(w)
  PROVE  TypeOK' /\ Moves(w) /\ Memory' /\ AckKept'
<1> USE DEF IInv, ReplyError, At, GoTo
<1>1. TypeOK'
  BY DEF TypeOK, Row, Entry, Step, Result, Terminal, Owns, apiVars
<1>2. Moves(w)
  BY <1>1 DEF Moves, TypeOK, Row, Entry, Live, Owns, apiVars, NoEffect, First,
              Unsent, Calling, Untouched, Harmless, Memory
<1>3. Memory'
  BY <1>1 DEF Memory, TypeOK, Entry
<1>4. AckKept'
  BY <1>1 DEF AckKept, TypeOK, Row, Entry, Owns, Live, Memory, Stamps
<1>5. QED
  BY <1>1, <1>2, <1>3, <1>4

\* Settle keeps the invariant.
LEMMA SettleKeeps ==
  ASSUME IInv, NEW w \in Dispatcher, Settle(w)
  PROVE  TypeOK' /\ Moves(w) /\ Memory' /\ AckKept'
<1> USE DEF IInv, Settle, At, CompleteOwned, Reschedule, Unsettled, Release
<1>1. TypeOK'
  BY IdleType DEF TypeOK, Row, Entry, Step, Result, Terminal, Owns, apiVars
<1>2. Moves(w)
  BY <1>1 DEF Moves, TypeOK, Row, Entry, Live, Owns, apiVars, NoEffect, First,
              Unsent, Calling, Untouched, Harmless, Memory, Idle
<1>3. Memory'
  BY <1>1 DEF Memory, TypeOK, Entry, Idle
<1>4. AckKept'
  BY <1>1 DEF AckKept, TypeOK, Row, Entry, Owns, Live, Memory, Stamps, Idle
<1>5. QED
  BY <1>1, <1>2, <1>3, <1>4

\* RecordAck keeps the invariant.
LEMMA RecordAckKeeps ==
  ASSUME IInv, NEW w \in Dispatcher, RecordAck(w)
  PROVE  TypeOK' /\ Moves(w) /\ Memory' /\ AckKept'
<1> USE DEF IInv, RecordAck, At, GoTo, Release
<1>1. TypeOK'
  <2>1. dispatcher' \in [Dispatcher -> Entry]
    BY IdleType DEF TypeOK, Entry, Step
  <2>2. row' \in Row
    BY DEF TypeOK, Row
  <2>3. QED
    BY <2>1, <2>2 DEF TypeOK, apiVars
<1>2. Moves(w)
  BY <1>1 DEF Moves, TypeOK, Row, Entry, Live, Owns, apiVars, NoEffect, First,
              Unsent, Calling, Untouched, Harmless, Memory, Idle
<1>3. Memory'
  BY <1>1 DEF Memory, TypeOK, Entry, Idle
<1>4. AckKept'
  <2>1. row' = row \/ (row'.acked /\ row'.status = "sending" /\ row'.attempts = row.attempts)
    BY DEF TypeOK, Row, Owns
  <2>2. row'.acked => row'.status \notin {"failed", "unknown"}
    BY <2>1 DEF AckKept
  <2>3. \A v \in Dispatcher : v # w => dispatcher'[v] = dispatcher[v]
    BY DEF TypeOK
  <2>4. \A v \in Dispatcher : v # w /\ Live(v)' /\ Owns(v)' => Live(v) /\ Owns(v) /\ row' = row
    BY <2>1, <2>3 DEF TypeOK, Row, Owns, Live, Stamps
  <2>5. Live(w)' => At(w, "project")'
    BY DEF Live, TypeOK, Entry, Idle
  <2>6. QED
    BY <2>2, <2>3, <2>4, <2>5 DEF AckKept, Owns, Live
<1>5. QED
  BY <1>1, <1>2, <1>3, <1>4

\* Project keeps the invariant.
LEMMA ProjectKeeps ==
  ASSUME IInv, NEW w \in Dispatcher, Project(w)
  PROVE  TypeOK' /\ Moves(w) /\ Memory' /\ AckKept'
<1> USE DEF IInv, Project, At, GoTo
<1>1. TypeOK'
  BY DEF TypeOK, Row, Entry, Step, Result, Terminal, Owns, apiVars
<1>2. Moves(w)
  BY <1>1 DEF Moves, TypeOK, Row, Entry, Live, Owns, apiVars, NoEffect, First,
              Unsent, Calling, Untouched, Harmless, Memory
<1>3. Memory'
  BY <1>1 DEF Memory, TypeOK, Entry
<1>4. AckKept'
  BY <1>1 DEF AckKept, TypeOK, Row, Entry, Owns, Live, Memory, Stamps
<1>5. QED
  BY <1>1, <1>2, <1>3, <1>4

\* DeferProjection keeps the invariant.
LEMMA DeferProjectionKeeps ==
  ASSUME IInv, NEW w \in Dispatcher, DeferProjection(w)
  PROVE  TypeOK' /\ Moves(w) /\ Memory' /\ AckKept'
<1> USE DEF IInv, DeferProjection, At, Fault, Reschedule, Release
<1>1. TypeOK'
  BY IdleType, OutboundAssumption DEF TypeOK, Row, Entry, Step, Result, Terminal, Owns, apiVars
<1>2. Moves(w)
  BY <1>1 DEF Moves, TypeOK, Row, Entry, Live, Owns, apiVars, NoEffect, First,
              Unsent, Calling, Untouched, Harmless, Memory, Idle
<1>3. Memory'
  BY <1>1 DEF Memory, TypeOK, Entry, Idle
<1>4. AckKept'
  BY <1>1 DEF AckKept, TypeOK, Row, Entry, Owns, Live, Memory, Stamps, Idle
<1>5. QED
  BY <1>1, <1>2, <1>3, <1>4

\* Complete keeps the invariant.
LEMMA CompleteKeeps ==
  ASSUME IInv, NEW w \in Dispatcher, Complete(w)
  PROVE  TypeOK' /\ Moves(w) /\ Memory' /\ AckKept'
<1> USE DEF IInv, Complete, At, CompleteOwned, Release
<1>1. TypeOK'
  BY IdleType DEF TypeOK, Row, Entry, Step, Result, Terminal, Owns, apiVars
<1>2. Moves(w)
  BY <1>1 DEF Moves, TypeOK, Row, Entry, Live, Owns, apiVars, NoEffect, First,
              Unsent, Calling, Untouched, Harmless, Memory, Idle
<1>3. Memory'
  BY <1>1 DEF Memory, TypeOK, Entry, Idle
<1>4. AckKept'
  BY <1>1 DEF AckKept, TypeOK, Row, Entry, Owns, Live, Memory, Stamps, Idle
<1>5. QED
  BY <1>1, <1>2, <1>3, <1>4

\* Abandon keeps the invariant.
LEMMA AbandonKeeps ==
  ASSUME IInv, NEW w \in Dispatcher, Abandon(w)
  PROVE  TypeOK' /\ Moves(w) /\ Memory' /\ AckKept'
<1> USE DEF IInv, Abandon, At, Fault, Release
<1>1. TypeOK'
  BY IdleType, OutboundAssumption DEF TypeOK, Row, Entry, Step, Result, Terminal, Owns, apiVars
<1>2. Moves(w)
  BY <1>1 DEF Moves, TypeOK, Row, Entry, Live, Owns, apiVars, NoEffect, First,
              Unsent, Calling, Untouched, Harmless, Memory, Idle
<1>3. Memory'
  BY <1>1 DEF Memory, TypeOK, Entry, Idle
<1>4. AckKept'
  BY <1>1 DEF AckKept, TypeOK, Row, Entry, Owns, Live, Memory, Stamps, Idle
<1>5. QED
  BY <1>1, <1>2, <1>3, <1>4

-----------------------------------------------------------------------------
(* A dispatcher claims the row, or inserts it under its own lease.         *)

\* What a dispatcher holds right after its claim.
LEMMA ClaimedType ==
  ASSUME TypeOK, row' \in Row, NEW w \in Dispatcher, NEW check \in BOOLEAN,
         Claimed(w, row', check)
  PROVE  /\ dispatcher' \in [Dispatcher -> Entry]
         /\ \A v \in Dispatcher : v # w => dispatcher'[v] = dispatcher[v]
         /\ At(w, "start")' /\ dispatcher'[w].stamp = row'.attempts
         /\ dispatcher'[w].possible = row'.possible
         /\ dispatcher'[w].was = row'.possible /\ dispatcher'[w].acked = row'.acked
<1> DEFINE e == [Idle EXCEPT !.step = "start", !.stamp = row'.attempts, !.check = check,
                             !.possible = row'.possible, !.was = row'.possible,
                             !.acked = row'.acked]
<1>1. e \in Entry
  BY IdleType DEF Entry, Row, Step
<1>2. /\ e.step = "start" /\ e.stamp = row'.attempts /\ e.possible = row'.possible
      /\ e.was = row'.possible /\ e.acked = row'.acked
  BY DEF Idle
<1>3. dispatcher' = [dispatcher EXCEPT ![w] = e]
  BY DEF Claimed
<1> HIDE DEF e
<1>4. QED
  BY <1>1, <1>2, <1>3 DEF TypeOK, At

\* Takes(w): the claim as the invariant sees it.
Takes(w) ==
    /\ ~Live(w) /\ \E check \in BOOLEAN : Claimed(w, row', check)
    /\ row'.status = "sending" /\ row'.attempts = row.attempts + 1
    /\ row'.possible = row.possible /\ row'.acked = row.acked
    /\ row.status \notin Terminal
    /\ flight' = flight /\ sends' = sends

\* A claim keeps all but the types.
LEMMA TakesKeep ==
  ASSUME IInv, row' \in Row, NEW w \in Dispatcher, Takes(w)
  PROVE  Stamps' /\ Memory' /\ Untouched' /\ FirstAlone' /\ AckKept'
<1> USE DEF IInv
<1>1. /\ \A v \in Dispatcher : v # w => dispatcher'[v] = dispatcher[v]
      /\ At(w, "start")' /\ dispatcher'[w].stamp = row'.attempts
      /\ dispatcher'[w].possible = row.possible
      /\ dispatcher'[w].was = row.possible /\ dispatcher'[w].acked = row.acked
  BY ClaimedType DEF Takes
<1>2. row.attempts \in Nat /\ row'.attempts = row.attempts + 1
  BY DEF TypeOK, Row, Takes
<1>3. \A v \in Dispatcher : v # w /\ Live(v)' =>
        Live(v) /\ dispatcher'[v].stamp = dispatcher[v].stamp
                /\ dispatcher[v].stamp \in 1..row.attempts
  BY <1>1 DEF Live, At, Stamps
<1>4. \A v \in Dispatcher : v # w /\ Live(v)' => ~Owns(v)'
  BY <1>2, <1>3 DEF Owns
<1>5. Stamps'
  BY <1>1, <1>2, <1>3 DEF Stamps, Takes, Live, At
<1>6. Memory'
  BY <1>1 DEF Memory, At
<1>7. Untouched'
  <2>1. NoEffect' => NoEffect /\ ~row.possible
    BY DEF NoEffect, Takes
  <2>2. QED
    BY <2>1, <1>1 DEF Untouched, Silent, Harmless, Calling, Takes, At
<1>8. FirstAlone'
  <2> SUFFICES ASSUME NEW u \in Dispatcher, First(u)'
               PROVE  /\ \A v \in Dispatcher : v # u => Harmless(v)'
                      /\ Unsent(u)' => Silent'
                      /\ ~At(u, "wait")'
    BY DEF FirstAlone
  <2>1. u = w
    BY <1>4 DEF First
  <2>2. ~row.possible
    BY <1>1, <2>1 DEF First
  <2>3. Silent /\ \A v \in Dispatcher : Harmless(v)
    BY <2>2 DEF Untouched, NoEffect
  <2>4. QED
    BY <1>1, <2>1, <2>3 DEF Harmless, Silent, Takes, At
<1>9. AckKept'
  BY <1>1, <1>4 DEF AckKept, Takes
<1>10. QED
  BY <1>5, <1>6, <1>7, <1>8, <1>9

\* ClaimDue keeps the invariant.
LEMMA ClaimDueKeeps ==
  ASSUME IInv, NEW w \in Dispatcher, ClaimDue(w)
  PROVE  IInv'
<1>1. row' \in Row
  <2>1. row.attempts + 1 \in Nat
    BY DEF IInv, TypeOK, Row
  <2>2. QED
    BY <2>1 DEF IInv, TypeOK, Row, ClaimDue
<1>2. Takes(w)
  BY DEF IInv, TypeOK, Row, ClaimDue, Takes, Live, Claimable, Terminal, apiVars
<1>3. TypeOK'
  <2>1. dispatcher' \in [Dispatcher -> Entry]
    BY <1>1, ClaimedType DEF IInv, ClaimDue
  <2>2. QED
    BY <1>1, <2>1 DEF IInv, TypeOK, ClaimDue, apiVars
<1>4. QED
  BY <1>1, <1>2, <1>3, TakesKeep DEF IInv

\* SendSync keeps the invariant.
LEMMA SendSyncKeeps ==
  ASSUME IInv, NEW w \in Dispatcher, SendSync(w)
  PROVE  IInv'
<1>1. row' \in Row
  BY DEF IInv, TypeOK, Row, SendSync
<1>2. Takes(w)
  <2>1. \E check \in BOOLEAN : Claimed(w, row', check)
    BY DEF SendSync
  <2>2. /\ row'.status = "sending" /\ row'.attempts = row.attempts + 1
        /\ row'.possible = row.possible /\ row'.acked = row.acked
        /\ row.status \notin Terminal
    BY DEF IInv, TypeOK, Row, Stamps, SendSync, Terminal
  <2>3. QED
    BY <2>1, <2>2 DEF SendSync, Takes, Live, apiVars
<1>3. TypeOK'
  <2>1. dispatcher' \in [Dispatcher -> Entry]
    BY <1>1, ClaimedType DEF IInv, SendSync
  <2>2. QED
    BY <1>1, <2>1 DEF IInv, TypeOK, SendSync, apiVars
<1>4. QED
  BY <1>1, <1>2, <1>3, TakesKeep DEF IInv

-----------------------------------------------------------------------------
(* The gateway.                                                            *)

\* The end of a flight, as the invariant sees it.
Lands(g, result) ==
    /\ flight[g] # "none" /\ Land(g, result)
    /\ row' = row
    /\ result = "invalid" => flight[g] \in {"lookup", "dispatch"} /\ sends' = sends

\* What a gateway call leaves when it ends.
LEMMA LandType ==
  ASSUME TypeOK, NEW g \in Gateway, NEW result \in Result, Land(g, result)
  PROVE  /\ dispatcher' \in [Dispatcher -> Entry]
         /\ flight' \in [Gateway -> {"none", "lookup", "dispatch", "save"}]
         /\ flight'[g] = "none"
         /\ \A h \in Gateway : h # g => flight'[h] = flight[h]
         /\ \A w \in Dispatcher :
              \/ dispatcher'[w] = dispatcher[w] /\ ~(At(w, "wait") /\ dispatcher[w].gw = g)
              \/ /\ At(w, "wait") /\ dispatcher[w].gw = g
                 /\ dispatcher'[w] = [dispatcher[w] EXCEPT !.step = "reply", !.result = result]
<1>1. \A w \in Dispatcher :
        [dispatcher[w] EXCEPT !.step = "reply", !.result = result] \in Entry
  <2> TAKE w \in Dispatcher
  <2>1. dispatcher[w] \in Entry /\ "reply" \in Step
    BY DEF TypeOK, Step
  <2> QED BY <2>1 DEF Entry
<1>2. QED
  BY <1>1 DEF Land, TypeOK

\* A call that ends keeps all but the types.
LEMMA LandsKeep ==
  ASSUME IInv, NEW g \in Gateway, NEW result \in Result \ {"nodispatch"}, Lands(g, result)
  PROVE  Stamps' /\ Memory' /\ Untouched' /\ FirstAlone' /\ AckKept'
<1> USE DEF IInv
<1>1. /\ flight'[g] = "none"
      /\ \A h \in Gateway : h # g => flight'[h] = flight[h]
  BY LandType DEF Lands
<1>2. \A w \in Dispatcher :
        \/ dispatcher'[w] = dispatcher[w] /\ ~(At(w, "wait") /\ dispatcher[w].gw = g)
        \/ /\ At(w, "wait") /\ dispatcher[w].gw = g
           /\ dispatcher'[w].step = "reply" /\ dispatcher'[w].result = result
           /\ dispatcher'[w].stamp = dispatcher[w].stamp
           /\ dispatcher'[w].possible = dispatcher[w].possible
           /\ dispatcher'[w].was = dispatcher[w].was
  <2> TAKE w \in Dispatcher
  <2>1. \/ dispatcher'[w] = dispatcher[w] /\ ~(At(w, "wait") /\ dispatcher[w].gw = g)
        \/ /\ At(w, "wait") /\ dispatcher[w].gw = g
           /\ dispatcher'[w] = [dispatcher[w] EXCEPT !.step = "reply", !.result = result]
    <3>1. TypeOK /\ result \in Result /\ Land(g, result)
      BY DEF Lands
    <3> QED BY <3>1 DEF Land
  <2>2. dispatcher[w] \in Entry
    BY DEF TypeOK
  <2>3. QED
    BY <2>1, <2>2 DEF Entry
<1>3. row' = row /\ ~NoEffect
  BY DEF Lands, Untouched, Silent
<1>4. \A w \in Dispatcher : /\ Live(w)' <=> Live(w)
                            /\ Owns(w)' <=> Owns(w)
                            /\ First(w)' <=> First(w)
                            /\ Harmless(w) => Harmless(w)'
  BY <1>2, <1>3 DEF Live, At, Owns, First, Harmless, Calling
<1>5. Stamps'
  BY <1>2, <1>3, <1>4 DEF Stamps
<1>6. Memory'
  BY <1>2 DEF Memory, At
<1>7. Untouched'
  BY <1>3 DEF Untouched, NoEffect
<1>8. FirstAlone'
  <2> SUFFICES ASSUME NEW u \in Dispatcher, First(u)
               PROVE  /\ \A v \in Dispatcher : v # u => Harmless(v)'
                      /\ Unsent(u)' => Silent'
                      /\ ~At(u, "wait")'
    BY <1>4 DEF FirstAlone
  <2>1. \A v \in Dispatcher : v # u => Harmless(v)'
    BY <1>4 DEF FirstAlone
  <2>2. ~Silent
    BY DEF Lands, Silent
  <2>3. ~Unsent(u)
    BY <2>2 DEF FirstAlone
  <2>4. CASE At(u, "wait") /\ dispatcher[u].gw = g
    <3>1. \A h \in Gateway : flight'[h] = "none"
      BY <2>4, <1>1 DEF FirstAlone
    <3>2. Unsent(u)' => result = "invalid"
      BY <2>4, <1>2 DEF Unsent, At
    <3>3. Unsent(u)' => sends' = 0
      BY <2>4, <3>2 DEF FirstAlone, Lands
    <3>4. QED
      BY <2>1, <3>1, <3>3, <2>4, <1>2 DEF Silent, At
  <2>5. CASE ~(At(u, "wait") /\ dispatcher[u].gw = g)
    <3>1. dispatcher'[u] = dispatcher[u]
      BY <2>5, <1>2
    <3>2. ~Unsent(u)'
      BY <3>1, <2>3 DEF Unsent, At
    <3>3. ~At(u, "wait")
      BY <2>5 DEF FirstAlone, Lands
    <3>4. QED
      BY <2>1, <3>1, <3>2, <3>3 DEF At
  <2>6. QED
    BY <2>4, <2>5
<1>9. AckKept'
  BY <1>2, <1>3, <1>4 DEF AckKept, At
<1>10. QED
  BY <1>5, <1>6, <1>7, <1>8, <1>9

\* Every step of a flight but Dispatch ends it or leads it on unsent.
LEMMA LandingKeeps ==
  ASSUME IInv, NEW g \in Gateway, NEW result \in Result \ {"nodispatch"}, Lands(g, result),
         expired' = expired, target' = target, faults' = faults, allows' = allows,
         ledger' \in [Gateway -> {"none", "sent", "failed"}],
         sends' \in Nat, losses' \in 0..MaxLosses
  PROVE  IInv'
<1>1. TypeOK'
  BY LandType DEF IInv, TypeOK, Lands
<1>2. QED
  BY <1>1, LandsKeep DEF IInv

\* Every step of a gateway call keeps the invariant.
LEMMA FlightKeeps ==
  ASSUME IInv, NEW g \in Gateway, FlightStep(g) \/ GatewayFault(g)
  PROVE  IInv'
<1> USE DEF IInv
<1>1. /\ "ok" \in Result \ {"nodispatch"} /\ "invalid" \in Result \ {"nodispatch"}
      /\ "error" \in Result \ {"nodispatch"}
  BY DEF Result
<1>2. Loss => losses' \in 0..MaxLosses
  BY OutboundAssumption DEF Loss, TypeOK
\* A flight that goes on: nothing but flight, ledger and sends changes.
<1>3. ASSUME flight[g] # "none", NEW next \in {"dispatch", "save"},
             flight' = [flight EXCEPT ![g] = next],
             \/ next = "dispatch" /\ flight[g] = "lookup" /\ sends' = sends
             \/ next = "save" /\ sends' = sends + 1,
             UNCHANGED <<row, expired, target, faults, dispatcher, allows, ledger, losses>>
      PROVE  IInv'
  <2>1. TypeOK'
    BY <1>3 DEF TypeOK
  <2>2. ~NoEffect /\ ~Silent
    BY <1>3 DEF Untouched, Silent
  <2>3. Stamps' /\ Memory' /\ AckKept'
    BY <1>3 DEF Stamps, Memory, AckKept, Live, At, Owns
  <2>4. Untouched'
    BY <1>3, <2>2 DEF Untouched, NoEffect
  <2>5. FirstAlone'
    <3> SUFFICES ASSUME NEW u \in Dispatcher, First(u)
                 PROVE  /\ \A v \in Dispatcher : v # u => Harmless(v)
                        /\ ~Unsent(u)
                        /\ At(u, "wait") =>
                             \A h \in Gateway :
                               /\ h # dispatcher[u].gw => flight'[h] = "none"
                               /\ flight'[h] \in {"lookup", "dispatch"} => sends' = 0
      BY <1>3 DEF FirstAlone, First, Live, At, Owns, Unsent, Harmless
    <3>1. ~Unsent(u) /\ \A v \in Dispatcher : v # u => Harmless(v)
      BY <2>2 DEF FirstAlone
    <3>2. ASSUME At(u, "wait"), NEW h \in Gateway
          PROVE  /\ h # dispatcher[u].gw => flight'[h] = "none"
                 /\ flight'[h] \in {"lookup", "dispatch"} => sends' = 0
      <4>1. g = dispatcher[u].gw
        BY <1>3, <3>2 DEF FirstAlone
      <4>2. CASE h = g
        BY <1>3, <3>2, <4>1, <4>2 DEF FirstAlone, TypeOK
      <4>3. CASE h # g
        BY <1>3, <3>2, <4>1, <4>3 DEF FirstAlone, TypeOK
      <4>4. QED
        BY <4>2, <4>3
    <3>3. QED
      BY <3>1, <3>2
  <2>6. QED
    BY <2>1, <2>3, <2>4, <2>5
<1>4. CASE Lookup(g)
  <2>1. ASSUME NEW result \in {"ok", "invalid", "error"}, Land(g, result) PROVE IInv'
    <3>1. Lands(g, result)
      BY <1>4, <2>1 DEF Lookup, Lands, gatewayVars
    <3>2. QED
      BY <1>1, <1>4, <2>1, <3>1, LandingKeeps DEF Lookup, TypeOK, gatewayVars
  <2>2. CASE flight' = [flight EXCEPT ![g] = "dispatch"] /\ UNCHANGED dispatcher
    BY <1>3, <1>4, <2>2 DEF Lookup, gatewayVars
  <2>3. QED
    BY <1>4, <2>1, <2>2 DEF Lookup, TypeOK
<1>5. CASE Dispatch(g)
  BY <1>3, <1>5 DEF Dispatch, gatewayVars
<1>6. CASE Reject(g)
  <2>1. Lands(g, "invalid")
    BY <1>6 DEF Reject, Lands, gatewayVars
  <2>2. ledger' \in [Gateway -> {"none", "sent", "failed"}]
    BY <1>6 DEF Reject, TypeOK
  <2>3. QED
    BY <1>1, <1>6, <2>1, <2>2, LandingKeeps DEF Reject, TypeOK, gatewayVars
<1>7. CASE FlightFails(g)
  <2>1. Lands(g, "error")
    BY <1>7 DEF FlightFails, Lands, gatewayVars
  <2>2. QED
    BY <1>1, <1>7, <2>1, LandingKeeps DEF FlightFails, TypeOK, gatewayVars
<1>8. CASE Save(g)
  <2>1. Lands(g, "ok")
    BY <1>8 DEF Save, Lands, gatewayVars
  <2>2. ledger' \in [Gateway -> {"none", "sent", "failed"}]
    BY <1>8 DEF Save, TypeOK
  <2>3. QED
    BY <1>1, <1>8, <2>1, <2>2, LandingKeeps DEF Save, TypeOK, gatewayVars
<1>9. CASE DispatchUnacked(g)
  <2>1. Lands(g, "error")
    BY <1>9 DEF DispatchUnacked, Lands, gatewayVars
  <2>2. sends' \in Nat
    BY <1>9 DEF DispatchUnacked, TypeOK
  <2>3. QED
    BY <1>1, <1>2, <1>9, <2>1, <2>2, LandingKeeps DEF DispatchUnacked, TypeOK, gatewayVars
<1>10. CASE SaveFails(g)
  <2>1. Lands(g, "error")
    BY <1>10 DEF SaveFails, Lands, gatewayVars
  <2>2. QED
    BY <1>1, <1>2, <1>10, <2>1, LandingKeeps DEF SaveFails, TypeOK, gatewayVars
<1>11. CASE CrashGateway(g)
  <2>1. Lands(g, "error")
    BY <1>11 DEF CrashGateway, Lands, gatewayVars
  <2>2. QED
    BY <1>1, <1>2, <1>11, <2>1, LandingKeeps DEF CrashGateway, TypeOK, gatewayVars
<1>12. CASE Reassign(g) \/ Refence(g)
  <2>1. UNCHANGED <<row, expired, dispatcher, flight, sends>>
    BY <1>12 DEF Reassign, Refence, gatewayVars
  <2>2. TypeOK'
    BY <1>2, <1>12 DEF Reassign, Refence, gatewayVars, TypeOK
  <2>3. QED
    BY <2>1, <2>2 DEF Stamps, Memory, Untouched, FirstAlone, AckKept, Live, At, Owns,
                      NoEffect, Silent, Harmless, First, Unsent
<1>13. QED
  BY <1>4, <1>5, <1>6, <1>7, <1>8, <1>9, <1>10, <1>11, <1>12 DEF FlightStep, GatewayFault

\* Arrive keeps the invariant.
LEMMA ArriveKeeps ==
  ASSUME IInv, NEW w \in Dispatcher, Arrive(w)
  PROVE  IInv'
<1> USE DEF IInv, Arrive, At, GoTo, gatewayVars
<1> DEFINE g == dispatcher[w].gw
<1>1. TypeOK'
  BY DEF TypeOK, Entry, Step
<1>2. /\ \A v \in Dispatcher : v # w => dispatcher'[v] = dispatcher[v]
      /\ dispatcher'[w].step = "wait" /\ dispatcher'[w].gw = g
      /\ dispatcher'[w].stamp = dispatcher[w].stamp
      /\ dispatcher'[w].possible = dispatcher[w].possible
      /\ dispatcher'[w].was = dispatcher[w].was
  BY DEF TypeOK, Entry
<1>3. row' = row /\ sends' = sends /\ \A h \in Gateway : h # g => flight'[h] = flight[h]
  BY DEF TypeOK
<1>4. ~NoEffect
  BY DEF Untouched, Harmless, Calling
<1>5. \A v \in Dispatcher : (Live(v)' <=> Live(v)) /\ (First(v)' <=> First(v))
  BY <1>2, <1>3 DEF Live, First, Owns
<1>6. Stamps'
  BY <1>2, <1>3, <1>5 DEF Stamps
<1>7. Memory'
  BY <1>2 DEF Memory
<1>8. Untouched'
  BY <1>3, <1>4 DEF Untouched, NoEffect
<1>9. FirstAlone'
  <2> SUFFICES ASSUME NEW u \in Dispatcher, First(u)
               PROVE  /\ \A v \in Dispatcher : v # u => Harmless(v)'
                      /\ ~Unsent(u)'
                      /\ \A h \in Gateway :
                           /\ h # dispatcher'[u].gw => flight'[h] = "none"
                           /\ flight'[h] \in {"lookup", "dispatch"} => sends' = 0
    BY <1>5 DEF FirstAlone
  <2>1. u = w
    BY DEF FirstAlone, Harmless, Calling
  <2>2. Silent /\ \A v \in Dispatcher : v # u => Harmless(v)
    BY <2>1 DEF FirstAlone, Unsent
  <2>3. QED
    BY <2>1, <2>2, <1>2, <1>3 DEF Harmless, Silent, Unsent
<1>10. AckKept'
  BY <1>2, <1>3, <1>5 DEF AckKept, Owns, Live
<1>11. QED
  BY <1>1, <1>6, <1>7, <1>8, <1>9, <1>10

-----------------------------------------------------------------------------

\* The initial states satisfy the invariant.
LEMMA InitIInv == Init => IInv
<1> SUFFICES ASSUME Init PROVE IInv
  OBVIOUS
<1> USE DEF Init
<1>1. TypeOK
  <2>1. row \in Row
    BY DEF Row
  <2>2. dispatcher \in [Dispatcher -> Entry]
    BY IdleType
  <2>3. 0 \in 0..MaxFaults /\ 0 \in 0..MaxLosses
    BY OutboundAssumption
  <2>4. QED
    BY <2>1, <2>2, <2>3 DEF TypeOK
<1>2. \A w \in Dispatcher : dispatcher[w].step = "idle" /\ ~dispatcher[w].was
  BY DEF Idle
<1>3. Stamps /\ Memory /\ FirstAlone /\ AckKept
  BY <1>2 DEF Stamps, Memory, FirstAlone, AckKept, First, Live, At
<1>4. Untouched
  BY <1>2 DEF Untouched, Silent, Harmless, Calling
<1>5. QED
  BY <1>1, <1>3, <1>4 DEF IInv

\* The row is queued, its lease grows old, the deadline passes.
LEMMA ClockKeeps ==
  ASSUME IInv, EnqueueAsync \/ GoStale \/ PassDeadline
  PROVE  IInv'
<1> USE DEF IInv, EnqueueAsync, GoStale, PassDeadline, apiVars
<1>1. TypeOK'
  <2>1. row' \in Row
    BY DEF TypeOK, Row
  <2>2. faults' \in 0..MaxFaults
    BY OutboundAssumption DEF TypeOK, Fault
  <2>3. QED
    BY <2>1, <2>2 DEF TypeOK
<1>2. /\ dispatcher' = dispatcher /\ flight' = flight /\ sends' = sends
      /\ row'.attempts = row.attempts /\ row'.possible = row.possible
      /\ row'.acked = row.acked
      /\ \/ row'.status = row.status
         \/ row.status = "none" /\ row'.status = "queued"
  BY DEF TypeOK, Row
<1>3. \A w \in Dispatcher : (First(w)' <=> First(w)) /\ (Live(w)' <=> Live(w))
                            /\ (Owns(w)' <=> Owns(w))
  BY <1>2 DEF First, Owns, Live, At
<1>4. Stamps' /\ Memory' /\ AckKept'
  BY <1>2, <1>3 DEF Stamps, Memory, AckKept, At
<1>5. Untouched' /\ FirstAlone'
  BY <1>2, <1>3 DEF Untouched, FirstAlone, NoEffect, Silent, Harmless, Unsent, At
<1>6. QED
  BY <1>1, <1>4, <1>5

\* Every step of a dispatcher keeps the invariant.
LEMMA DispatcherKeeps ==
  ASSUME IInv, NEW w \in Dispatcher, DispatcherStep(w) \/ DispatcherFault(w)
  PROVE  IInv'
<1>1. CASE ClaimDue(w)
  BY <1>1, ClaimDueKeeps
<1>2. CASE Arrive(w)
  BY <1>2, ArriveKeeps
<1>3. CASE ~ClaimDue(w) /\ ~Arrive(w)
  <2>1. TypeOK' /\ Moves(w) /\ Memory' /\ AckKept'
    BY <1>3, StartKeeps, RateLimitedKeeps, CheckFailsKeeps, MarkPossibleKeeps, CallKeeps,
       CallFailsKeeps, RpcFailsKeeps, ReplyOkKeeps, ReplyInvalidKeeps,
       ReplyNoDispatchKeeps, ReplyErrorKeeps, SettleKeeps, RecordAckKeeps, ProjectKeeps,
       DeferProjectionKeeps, CompleteKeeps, AbandonKeeps
       DEF DispatcherStep, DispatcherFault
  <2>2. QED
    BY <2>1, MovesKeep DEF IInv
<1>4. QED
  BY <1>1, <1>2, <1>3

\* Every step keeps the invariant.
LEMMA NextKeeps == IInv /\ [Next]_vars => IInv'
<1> SUFFICES ASSUME IInv, [Next]_vars PROVE IInv'
  OBVIOUS
<1>1. CASE EnqueueAsync \/ GoStale \/ PassDeadline
  BY <1>1, ClockKeeps
<1>2. CASE \E w \in Dispatcher : SendSync(w) \/ DispatcherStep(w) \/ DispatcherFault(w)
  BY <1>2, SendSyncKeeps, DispatcherKeeps
<1>3. CASE \E g \in Gateway : FlightStep(g) \/ GatewayFault(g)
  BY <1>3, FlightKeeps
<1>4. CASE UNCHANGED vars
  BY <1>4 DEF vars, IInv, TypeOK, Stamps, Memory, Untouched, FirstAlone, AckKept, Live, At,
              Owns, NoEffect, Silent, Harmless, First, Unsent
<1>5. QED
  BY <1>1, <1>2, <1>3, <1>4 DEF Next

\* The invariant holds of every behaviour.
LEMMA Invariance == Spec => []IInv
  BY InitIInv, NextKeeps, PTL DEF Spec

\* Type correctness of the outbox row, the dispatchers and the flights.
THEOREM TypeCorrect == Spec => []TypeOK
<1>1. IInv => TypeOK
  BY DEF IInv
<1>2. QED
  BY <1>1, Invariance, PTL

\* A command that expireClaim, ambiguous or a rejection reports as failed has
\* not gone out to WhatsApp and will not, whatever other attempts, stale owners
\* and flights are under way: the first attempt that may call is alone.
THEOREM FailureIsDefinite == Spec => []FailedNeverSent
<1>1. IInv => FailedNeverSent
  BY DEF IInv, Untouched, NoEffect, Silent, FailedNeverSent
<1>2. QED
  BY <1>1, Invariance, PTL

\* What RecordAcknowledgement has written is not overturned by expiry, by
\* exhausted attempts or by a stale owner.
THEOREM AcknowledgementStands == Spec => []AckNeverErased
<1>1. IInv => AckNeverErased
  BY DEF IInv, AckKept, AckNeverErased
<1>2. QED
  BY <1>1, Invariance, PTL

\* A terminal row stays as it is: every write is fenced by the status sending
\* and the stamp of its claim, so stale owners change nothing.
THEOREM SettledStays == Spec => Settled
<1>1. ASSUME IInv, [Next]_vars, row.status \in Terminal PROVE row' = row
  <2>1. CASE EnqueueAsync \/ GoStale \/ PassDeadline
    BY <1>1, <2>1 DEF EnqueueAsync, GoStale, PassDeadline, Terminal
  <2>2. CASE \E w \in Dispatcher : SendSync(w) \/ ClaimDue(w) \/ Arrive(w)
    BY <1>1, <2>2 DEF SendSync, ClaimDue, Claimable, Arrive, gatewayVars, Terminal
  <2>3. ASSUME NEW w \in Dispatcher, DispatcherStep(w) \/ DispatcherFault(w),
               ~ClaimDue(w), ~Arrive(w)
        PROVE  row' = row
    <3>1. Moves(w)
      BY <1>1, <2>3, StartKeeps, RateLimitedKeeps, CheckFailsKeeps, MarkPossibleKeeps,
         CallKeeps, CallFailsKeeps, RpcFailsKeeps, ReplyOkKeeps, ReplyInvalidKeeps,
         ReplyNoDispatchKeeps, ReplyErrorKeeps, SettleKeeps, RecordAckKeeps, ProjectKeeps,
         DeferProjectionKeeps, CompleteKeeps, AbandonKeeps
         DEF DispatcherStep, DispatcherFault
    <3>2. QED
      BY <1>1, <3>1 DEF Moves, Owns, Terminal
  <2>4. CASE \E g \in Gateway : FlightStep(g) \/ GatewayFault(g)
    BY <2>4 DEF FlightStep, GatewayFault, Lookup, Dispatch, Reject, FlightFails, Save,
                DispatchUnacked, SaveFails, CrashGateway, Reassign, Refence, gatewayVars
  <2>5. CASE UNCHANGED vars
    BY <2>5 DEF vars
  <2>6. QED
    BY <1>1, <2>1, <2>2, <2>3, <2>4, <2>5 DEF Next
<1>2. IInv /\ [Next]_vars => [row.status \in Terminal => row' = row]_vars
  BY <1>1
<1>3. QED
  BY <1>2, Invariance, PTL DEF Spec, Settled

-----------------------------------------------------------------------------
(***************************************************************************)
(* How often a command goes out.  Every gateway that may still be asked to *)
(* send is charged with one send until its message is out and its result   *)
(* is, or is about to be, in its ledger: the first gateway's charge is the *)
(* one send everybody expects, and each later one, as each send whose      *)
(* result does not reach the ledger, has its own loss.                     *)
(***************************************************************************)
Delivered == {g \in Gateway : flight[g] = "save" \/ ledger[g] = "sent"}

\* The gateways T have been, or are, asked to send; a flight that has passed the
\* lookup found no result.
ChargedTo(T) ==
    /\ target \in T
    /\ \A w \in Dispatcher : dispatcher[w].step \in {"rpc", "wait"} => dispatcher[w].gw \in T
    /\ \A g \in Gateway : flight[g] # "none" \/ ledger[g] = "sent" => g \in T
    /\ \A g \in Gateway : flight[g] \in {"dispatch", "save"} => ledger[g] = "none"
    /\ sends + Cardinality(T \ Delivered) <= 1 + losses

Charged == \E T \in SUBSET Gateway : IsFiniteSet(T) /\ ChargedTo(T)

ChargeInv == IInv /\ Charged

\* A gateway joins the charged ones, leaves them, or nothing changes.
LEMMA ChargeChanges ==
    ASSUME NEW D, NEW E, NEW g, IsFiniteSet(D), E \in {D, D \union {g}, D \ {g}}
    PROVE  /\ IsFiniteSet(E) /\ Cardinality(D) \in Nat /\ Cardinality(E) \in Nat
           /\ Cardinality(E) <= Cardinality(D) + 1
           /\ g \notin E => Cardinality(E) <= Cardinality(D)
           /\ g \in D /\ g \notin E => Cardinality(E) = Cardinality(D) - 1
           /\ g \in D => Cardinality(E) <= Cardinality(D)
<1>1. Cardinality(D) \in Nat
  BY FS_CardinalityType
<1>2. CASE E = D
  BY <1>1, <1>2
<1>3. CASE E = D \union {g}
  BY <1>1, <1>3, FS_AddElement
<1>4. CASE E = D \ {g}
  <2>1. /\ IsFiniteSet(E)
        /\ Cardinality(E) = IF g \in D THEN Cardinality(D) - 1 ELSE Cardinality(D)
    BY <1>4, FS_RemoveElement
  <2>2. Cardinality(E) \in Nat
    BY <2>1, FS_CardinalityType
  <2> QED BY <1>1, <1>4, <2>1, <2>2
<1> QED BY <1>2, <1>3, <1>4

\* A step at the charged gateway g: a send takes it off, and whatever puts it
\* back is a loss.
LEMMA ChargeKept ==
    ASSUME IInv, IInv', NEW T \in SUBSET Gateway, IsFiniteSet(T), ChargedTo(T),
           NEW g \in T, target' = target,
           \A w \in Dispatcher :
              dispatcher'[w].step \in {"rpc", "wait"} => dispatcher'[w].gw \in T,
           \A h \in Gateway : h # g => flight'[h] = flight[h] /\ ledger'[h] = ledger[h],
           flight'[g] \in {"dispatch", "save"} => ledger'[g] = "none",
           \/ sends' = sends /\ losses' = losses /\ (g \in Delivered => g \in Delivered')
           \/ sends' = sends + 1 /\ losses' = losses /\ g \notin Delivered /\ g \in Delivered'
           \/ sends' = sends /\ losses' = losses + 1
           \/ /\ sends' = sends + 1 /\ losses' = losses + 1
              /\ g \in Delivered => g \in Delivered'
    PROVE  ChargedTo(T)'
<1> DEFINE D == T \ Delivered
           E == T \ Delivered'
<1>1. /\ sends \in Nat /\ losses \in Nat /\ sends' \in Nat /\ losses' \in Nat
      /\ sends + Cardinality(D) <= 1 + losses
  BY DEF IInv, TypeOK, ChargedTo
<1>2. /\ \A h \in Gateway : flight'[h] # "none" \/ ledger'[h] = "sent" => h \in T
      /\ \A h \in Gateway : flight'[h] \in {"dispatch", "save"} => ledger'[h] = "none"
  BY DEF ChargedTo
<1>3. \A h \in Gateway : h # g => (h \in Delivered <=> h \in Delivered')
  BY DEF Delivered
<1>4. IsFiniteSet(D)
  BY FS_Difference
<1>5. E \in {D, D \union {g}, D \ {g}}
  BY <1>3
<1>6. /\ g \in D <=> g \notin Delivered
      /\ g \in E <=> g \notin Delivered'
  OBVIOUS
<1>7. E = T \ Delivered'
  OBVIOUS
<1> HIDE DEF D, E
<1>8. /\ Cardinality(D) \in Nat /\ Cardinality(E) \in Nat
      /\ Cardinality(E) <= Cardinality(D) + 1
      /\ g \notin E => Cardinality(E) <= Cardinality(D)
      /\ g \in D /\ g \notin E => Cardinality(E) = Cardinality(D) - 1
      /\ g \in D => Cardinality(E) <= Cardinality(D)
  BY <1>4, <1>5, ChargeChanges
<1>9. sends' + Cardinality(E) <= 1 + losses'
  <2>1. CASE sends' = sends /\ losses' = losses /\ (g \in Delivered => g \in Delivered')
    BY <1>1, <1>6, <1>8, <2>1
  <2>2. CASE sends' = sends + 1 /\ losses' = losses /\ g \notin Delivered /\ g \in Delivered'
    BY <1>1, <1>6, <1>8, <2>2
  <2>3. CASE sends' = sends /\ losses' = losses + 1
    BY <1>1, <1>8, <2>3
  <2>4. CASE /\ sends' = sends + 1 /\ losses' = losses + 1
             /\ g \in Delivered => g \in Delivered'
    BY <1>1, <1>6, <1>8, <2>4
  <2> QED BY <2>1, <2>2, <2>3, <2>4
<1> QED BY <1>2, <1>7, <1>9 DEF ChargedTo

\* Steps of the API: an RPC goes to the gateway the session is assigned to.
LEMMA ApiKeepsCharge ==
    ASSUME IInv, IInv', NEW T \in SUBSET Gateway, IsFiniteSet(T), ChargedTo(T),
           UNCHANGED apiVars,
           \A w \in Dispatcher :
              dispatcher'[w].step \in {"rpc", "wait"} =>
                 \/ dispatcher'[w].gw = target
                 \/ dispatcher[w].step \in {"rpc", "wait"} /\ dispatcher'[w].gw = dispatcher[w].gw
    PROVE  ChargedTo(T)'
BY DEF ChargedTo, apiVars, Delivered

\* The end of a flight at gateway g, as far as the dispatchers are concerned.
LEMMA LandCharges ==
    ASSUME IInv, NEW T, ChargedTo(T), NEW g \in Gateway, NEW result \in Result, Land(g, result)
    PROVE  /\ \A w \in Dispatcher :
                 dispatcher'[w].step \in {"rpc", "wait"} => dispatcher'[w].gw \in T
           /\ \A h \in Gateway : h # g => flight'[h] = flight[h]
           /\ flight'[g] = "none"
<1>1. \A w \in Dispatcher :
        \/ dispatcher'[w] = dispatcher[w]
        \/ dispatcher'[w] = [dispatcher[w] EXCEPT !.step = "reply", !.result = result]
  BY DEF Land
<1>2. \A w \in Dispatcher : dispatcher[w] \in Entry
  BY DEF IInv, TypeOK
<1>3. \A w \in Dispatcher : dispatcher'[w] = dispatcher[w] \/ dispatcher'[w].step = "reply"
  BY <1>1, <1>2 DEF Entry
<1> QED BY <1>3, LandType DEF IInv, ChargedTo

\* The steps of the API's dispatchers and of its clock.
LEMMA DispatcherCharges ==
    ASSUME IInv, IInv', NEW T \in SUBSET Gateway, IsFiniteSet(T), ChargedTo(T),
           NEW w \in Dispatcher,
           \/ SendSync(w) \/ DispatcherFault(w) \/ (DispatcherStep(w) /\ ~Arrive(w))
    PROVE  ChargedTo(T)'
<1>1. dispatcher \in [Dispatcher -> Entry]
  BY DEF IInv, TypeOK
<1>2. UNCHANGED apiVars
  BY DEF SendSync, DispatcherFault, DispatcherStep, ClaimDue, Start, MarkPossible, Call,
         ReplyOk, ReplyInvalid, ReplyNoDispatch, ReplyError, Settle, RecordAck, Project,
         Complete, RateLimited, CheckFails, CallFails, RpcFails, DeferProjection, Abandon
<1>3. \A v \in Dispatcher : v # w => dispatcher'[v] = dispatcher[v]
  BY <1>1 DEF SendSync, DispatcherFault, DispatcherStep, ClaimDue, Start, MarkPossible, Call,
         ReplyOk, ReplyInvalid, ReplyNoDispatch, ReplyError, Settle, RecordAck, Project,
         Complete, RateLimited, CheckFails, CallFails, RpcFails, DeferProjection, Abandon,
         GoTo, Release, Claimed
<1>4. dispatcher'[w].step \in {"rpc", "wait"} => dispatcher'[w].gw = target
  <2>1. CASE Call(w)
    BY <1>1, <2>1 DEF Call, Entry
  <2>2. CASE SendSync(w) \/ ClaimDue(w)
    <3>1. TypeOK /\ row' \in Row
      BY DEF IInv, TypeOK
    <3>2. Claimed(w, row', FALSE) \/ Claimed(w, row', TRUE)
      BY <2>2 DEF SendSync, ClaimDue
    <3>3. dispatcher'[w].step = "start"
      BY <3>1, <3>2, ClaimedType DEF At
    <3> QED BY <3>3
  <2>3. CASE Start(w) \/ CheckFails(w) \/ MarkPossible(w)
    BY <1>1, <2>3 DEF Start, CheckFails, MarkPossible, GoTo, Release, Entry, Idle
  <2>4. CASE CallFails(w) \/ RpcFails(w) \/ ReplyOk(w) \/ ReplyInvalid(w) \/ ReplyError(w)
    BY <1>1, <2>4 DEF CallFails, RpcFails, ReplyOk, ReplyInvalid, ReplyError, GoTo, Release,
                      Entry, Idle
  <2>5. CASE ReplyNoDispatch(w) \/ RecordAck(w) \/ Project(w)
    BY <1>1, <2>5 DEF ReplyNoDispatch, RecordAck, Project, GoTo, Release, Entry, Idle
  <2>6. CASE RateLimited(w) \/ Settle(w) \/ DeferProjection(w) \/ Complete(w) \/ Abandon(w)
    BY <1>1, <2>6 DEF RateLimited, Settle, DeferProjection, Complete, Abandon, Release, Idle
  <2> QED BY <2>1, <2>2, <2>3, <2>4, <2>5, <2>6 DEF DispatcherStep, DispatcherFault
<1> QED BY <1>2, <1>3, <1>4, ApiKeepsCharge

\* An RPC arrives at a gateway that is charged already.
LEMMA ArriveCharges ==
    ASSUME IInv, IInv', NEW T \in SUBSET Gateway, IsFiniteSet(T), ChargedTo(T),
           NEW w \in Dispatcher, Arrive(w)
    PROVE  ChargedTo(T)'
<1>1. /\ dispatcher \in [Dispatcher -> Entry] /\ ledger' = ledger
      /\ flight \in [Gateway -> {"none", "lookup", "dispatch", "save"}]
  BY DEF IInv, TypeOK, Arrive
<1> DEFINE g == dispatcher[w].gw
<1>2. g \in T /\ g \in Gateway
  BY DEF ChargedTo, Arrive, At
<1>3. \A v \in Dispatcher :
        dispatcher'[v].step \in {"rpc", "wait"} => dispatcher'[v].gw \in T
  BY <1>1, <1>2 DEF Arrive, GoTo, ChargedTo, Entry
<1>4. /\ \A h \in Gateway : h # g => flight'[h] = flight[h]
      /\ flight'[g] = IF flight[g] = "none" THEN "lookup" ELSE flight[g]
  BY <1>1, <1>2 DEF Arrive
<1>5. target' = target /\ sends' = sends /\ losses' = losses
  BY DEF Arrive, gatewayVars
<1>6. flight'[g] \in {"dispatch", "save"} => ledger'[g] = "none"
  BY <1>1, <1>2, <1>4 DEF ChargedTo
<1>7. g \in Delivered => g \in Delivered'
  BY <1>1, <1>2, <1>4 DEF Delivered
<1> HIDE DEF g
<1> QED BY <1>1, <1>2, <1>3, <1>4, <1>5, <1>6, <1>7, ChargeKept

\* A flight of gateway g: Dispatch takes the charge off, Save keeps it off, and
\* a crash or a lost result puts it back as a loss.
LEMMA FlightCharges ==
    ASSUME IInv, IInv', NEW T \in SUBSET Gateway, IsFiniteSet(T), ChargedTo(T),
           NEW g \in Gateway,
           \/ FlightStep(g) \/ DispatchUnacked(g) \/ SaveFails(g) \/ CrashGateway(g)
    PROVE  ChargedTo(T)'
<1>1. /\ flight \in [Gateway -> {"none", "lookup", "dispatch", "save"}]
      /\ ledger \in [Gateway -> {"none", "sent", "failed"}]
      /\ flight' \in [Gateway -> {"none", "lookup", "dispatch", "save"}]
      /\ ledger' \in [Gateway -> {"none", "sent", "failed"}]
  BY DEF IInv, TypeOK
<1>2. flight[g] # "none"
  BY DEF FlightStep, Lookup, Dispatch, Reject, FlightFails, Save, DispatchUnacked, SaveFails,
         CrashGateway
<1>3. g \in T
  BY <1>2 DEF ChargedTo
<1>4. target' = target /\ \A h \in Gateway : h # g => ledger'[h] = ledger[h]
  BY <1>1 DEF FlightStep, Lookup, Dispatch, Reject, FlightFails, Save, DispatchUnacked,
              SaveFails, CrashGateway, gatewayVars
<1>5. ASSUME NEW result \in Result, Land(g, result),
             \/ sends' = sends /\ losses' = losses /\ (g \in Delivered => g \in Delivered')
             \/ sends' = sends /\ losses' = losses + 1
             \/ /\ sends' = sends + 1 /\ losses' = losses + 1
                /\ g \in Delivered => g \in Delivered'
      PROVE  ChargedTo(T)'
  <2>1. /\ \A w \in Dispatcher :
             dispatcher'[w].step \in {"rpc", "wait"} => dispatcher'[w].gw \in T
        /\ \A h \in Gateway : h # g => flight'[h] = flight[h]
        /\ flight'[g] = "none"
    BY <1>5, LandCharges
  <2> QED BY <1>3, <1>4, <1>5, <2>1, ChargeKept
<1>6. "ok" \in Result /\ "invalid" \in Result /\ "error" \in Result
  BY DEF Result
<1>7. ASSUME NEW next \in {"dispatch", "save"}, flight' = [flight EXCEPT ![g] = next],
             dispatcher' = dispatcher, ledger' = ledger, ledger[g] = "none",
             flight[g] # "save", losses' = losses,
             sends' = IF next = "save" THEN sends + 1 ELSE sends
      PROVE  ChargedTo(T)'
  <2>1. /\ \A h \in Gateway : h # g => flight'[h] = flight[h]
        /\ flight'[g] = next
    BY <1>1, <1>7
  <2>2. \A w \in Dispatcher :
          dispatcher'[w].step \in {"rpc", "wait"} => dispatcher'[w].gw \in T
    BY <1>7 DEF ChargedTo
  <2>3. g \notin Delivered /\ (next = "save" => g \in Delivered')
    BY <1>7, <2>1 DEF Delivered
  <2>4. \/ sends' = sends /\ losses' = losses /\ (g \in Delivered => g \in Delivered')
        \/ sends' = sends + 1 /\ losses' = losses /\ g \notin Delivered /\ g \in Delivered'
    BY <1>7, <2>3
  <2> QED BY <1>3, <1>4, <1>7, <2>1, <2>2, <2>4, ChargeKept
<1>8. CASE Lookup(g)
  <2>1. sends' = sends /\ losses' = losses /\ ledger' = ledger
    BY <1>8 DEF Lookup
  <2>2. g \in Delivered => g \in Delivered'
    BY <1>8, <2>1 DEF Lookup, Delivered
  <2>3. CASE \E result \in {"ok", "invalid", "error"} : Land(g, result)
    BY <1>5, <1>6, <2>1, <2>2, <2>3
  <2>4. CASE ~\E result \in {"ok", "invalid", "error"} : Land(g, result)
    <3>1. flight' = [flight EXCEPT ![g] = "dispatch"] /\ dispatcher' = dispatcher
          /\ ledger[g] = "none"
      BY <1>1, <1>8, <2>4 DEF Lookup
    <3> QED BY <1>7, <1>8, <2>1, <3>1 DEF Lookup
  <2> QED BY <2>3, <2>4
<1>9. CASE Dispatch(g)
  <2>1. ledger[g] = "none"
    BY <1>9 DEF Dispatch, ChargedTo
  <2> QED BY <1>7, <1>9, <2>1 DEF Dispatch
<1>10. CASE Reject(g)
  <2>1. g \notin Delivered /\ sends' = sends /\ losses' = losses
    BY <1>10 DEF Reject, Delivered, ChargedTo
  <2> QED BY <1>5, <1>6, <1>10, <2>1 DEF Reject
<1>11. CASE FlightFails(g)
  <2>1. sends' = sends /\ losses' = losses /\ (g \in Delivered => g \in Delivered')
    BY <1>11 DEF FlightFails, Delivered
  <2> QED BY <1>5, <1>6, <1>11, <2>1 DEF FlightFails
<1>12. CASE DispatchUnacked(g)
  <2>1. /\ sends' = sends + 1 /\ losses' = losses + 1
        /\ g \in Delivered => g \in Delivered'
    BY <1>12 DEF DispatchUnacked, Loss, Delivered
  <2> QED BY <1>5, <1>6, <1>12, <2>1 DEF DispatchUnacked
<1>13. CASE Save(g)
  <2>1. ledger[g] = "none"
    BY <1>13 DEF Save, ChargedTo
  <2>2. sends' = sends /\ losses' = losses /\ g \in Delivered'
    BY <1>1, <1>13, <2>1 DEF Save, Delivered
  <2> QED BY <1>5, <1>6, <1>13, <2>2 DEF Save
<1>14. CASE SaveFails(g) \/ CrashGateway(g)
  BY <1>5, <1>6, <1>14 DEF SaveFails, CrashGateway, Loss
<1> QED
  BY <1>8, <1>9, <1>10, <1>11, <1>12, <1>13, <1>14 DEF FlightStep

\* A reassignment charges one more gateway, and is a loss.
LEMMA ReassignCharges ==
    ASSUME IInv, IInv', NEW T \in SUBSET Gateway, IsFiniteSet(T), ChargedTo(T),
           NEW g \in Gateway, Reassign(g)
    PROVE  IsFiniteSet(T \union {g}) /\ ChargedTo(T \union {g})'
<1> DEFINE D == T \ Delivered
           E == (T \union {g}) \ Delivered
<1>1. IsFiniteSet(D) /\ IsFiniteSet(T \union {g})
  BY FS_Difference, FS_AddElement
<1>2. E \in {D, D \union {g}, D \ {g}}
  OBVIOUS
<1>3. sends + Cardinality(D) <= 1 + losses
  BY DEF ChargedTo
<1>4. sends \in Nat /\ losses \in Nat /\ sends' = sends /\ losses' = losses + 1
  BY DEF IInv, TypeOK, Reassign, Loss
<1>5. Delivered' = Delivered /\ E = (T \union {g}) \ Delivered
  BY DEF Delivered, Reassign
<1> HIDE DEF D, E
<1>6. /\ Cardinality(D) \in Nat /\ Cardinality(E) \in Nat
      /\ Cardinality(E) <= Cardinality(D) + 1
  BY <1>1, <1>2, ChargeChanges
<1>7. sends' + Cardinality(E) <= 1 + losses'
  BY <1>3, <1>4, <1>6
<1> QED BY <1>1, <1>5, <1>7 DEF ChargedTo, Reassign

\* Every step keeps the charges.
LEMMA ChargeStep == ChargeInv /\ [Next]_vars => ChargeInv'
<1> SUFFICES ASSUME ChargeInv, [Next]_vars PROVE ChargeInv'
  OBVIOUS
<1>1. IInv /\ IInv'
  BY NextKeeps DEF ChargeInv
<1>2. PICK T \in SUBSET Gateway : IsFiniteSet(T) /\ ChargedTo(T)
  BY DEF ChargeInv, Charged
<1>3. ASSUME ChargedTo(T)' PROVE ChargeInv'
  BY <1>1, <1>2, <1>3 DEF ChargeInv, Charged
<1>4. CASE EnqueueAsync \/ GoStale \/ PassDeadline \/ UNCHANGED vars
  <2>1. UNCHANGED apiVars /\ dispatcher' = dispatcher
    BY <1>4 DEF EnqueueAsync, GoStale, PassDeadline, vars, apiVars
  <2> QED BY <1>1, <1>2, <1>3, <2>1, ApiKeepsCharge
<1>5. ASSUME NEW w \in Dispatcher, SendSync(w) \/ DispatcherStep(w) \/ DispatcherFault(w)
      PROVE  ChargeInv'
  BY <1>1, <1>2, <1>3, <1>5, DispatcherCharges, ArriveCharges
<1>6. ASSUME NEW g \in Gateway, FlightStep(g) \/ GatewayFault(g) PROVE ChargeInv'
  <2>1. CASE Reassign(g)
    <3>1. PICK U \in SUBSET Gateway : U = T \union {g}
      BY <1>2
    <3>2. IsFiniteSet(U) /\ ChargedTo(U)'
      BY <1>1, <1>2, <2>1, <3>1, ReassignCharges
    <3> QED BY <1>1, <3>2 DEF ChargeInv, Charged
  <2>2. CASE Refence(g)
    BY <1>2, <1>3, <2>2 DEF Refence, gatewayVars, ChargedTo, Delivered
  <2>3. CASE FlightStep(g) \/ DispatchUnacked(g) \/ SaveFails(g) \/ CrashGateway(g)
    BY <1>1, <1>2, <1>3, <2>3, FlightCharges
  <2> QED BY <1>6, <2>1, <2>2, <2>3 DEF GatewayFault
<1> QED BY <1>4, <1>5, <1>6 DEF Next

\* At first only the gateway the session is assigned to is charged.
LEMMA ChargeInit == Init => ChargeInv
<1> SUFFICES ASSUME Init PROVE ChargeInv
  OBVIOUS
<1>1. IInv
  BY InitIInv
<1>2. IsFiniteSet({target}) /\ Cardinality({target}) = 1
  BY FS_Singleton
<1>3. {target} \ Delivered = {target} /\ {target} \in SUBSET Gateway
  BY DEF Init, Delivered
<1>4. ChargedTo({target})
  <2>1. \A w \in Dispatcher : dispatcher[w].step = "idle"
    BY DEF Init, Idle
  <2>2. /\ \A g \in Gateway : flight[g] = "none" /\ ledger[g] = "none"
        /\ sends = 0 /\ losses = 0
    BY DEF Init
  <2> QED BY <1>2, <1>3, <2>1, <2>2 DEF ChargedTo
<1> QED BY <1>1, <1>2, <1>3, <1>4 DEF ChargeInv, Charged

\* Retries, overruns and duplicate RPCs do not make a command go out again:
\* joinCommand and the result ledger see to it that every further send has its
\* own crash, lost result or reassignment.
THEOREM SendsAreAccountedFor == Spec => []OneSendPerLoss
<1>1. ChargeInv => OneSendPerLoss
  <2> SUFFICES ASSUME ChargeInv PROVE OneSendPerLoss
    OBVIOUS
  <2>1. PICK T \in SUBSET Gateway : IsFiniteSet(T) /\ ChargedTo(T)
    BY DEF ChargeInv, Charged
  <2>2. Cardinality(T \ Delivered) \in Nat
    BY <2>1, FS_Difference, FS_CardinalityType
  <2>3. sends \in Nat /\ losses \in Nat /\ sends + Cardinality(T \ Delivered) <= 1 + losses
    BY <2>1 DEF ChargeInv, IInv, TypeOK, ChargedTo
  <2> QED BY <2>2, <2>3 DEF OneSendPerLoss
<1> QED BY <1>1, ChargeInit, ChargeStep, PTL DEF Spec

=============================================================================
