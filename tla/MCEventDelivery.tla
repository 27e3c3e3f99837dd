-------------------------- MODULE MCEventDelivery --------------------------
(***************************************************************************)
(* Small instances of EventDelivery for TLC.                               *)
(***************************************************************************)
EXTENDS EventDelivery

CONSTANTS s1, s2, m1

\* One event of one session, or two, or two which fill a batch and one of another.
OneSessionOf == [i \in {1} |-> s1]
PlainSessionOf == [i \in 1..2 |-> s1]
MixedSessionOf == [i \in 1..3 |-> IF i < 3 THEN s1 ELSE s2]

\* No event is an echo, or the last one is, of a message sent in its session.
PlainEchoOf == [i \in EventId |-> NoMessage]
FirstSentIn == [m \in Message |-> s1]
LastEchoOf == [i \in 1..3 |-> IF i < 3 THEN NoMessage ELSE m1]
LastSentIn == [m \in Message |-> s2]
=============================================================================
