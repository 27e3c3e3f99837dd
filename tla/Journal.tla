------------------------------ MODULE Journal ------------------------------
(***************************************************************************)
(* The gateway's durable event journal (internal/gateway/journal): the     *)
(* SQLite tables journal_entries and journal_meta as one value             *)
(*                                                                         *)
(*    [entries |-> the rows, next |-> the AUTOINCREMENT counter,           *)
(*     acked |-> acked_through]                                            *)
(*                                                                         *)
(* and its operations as operators on that value.  A row carries its       *)
(* sequence number, the event ID and the assignment epoch its payload was  *)
(* labelled with when it was accepted.                                     *)
(***************************************************************************)
EXTENDS Naturals, FiniteSets

\* journal_entries is empty, nothing was acknowledged, the first row gets 1.
EmptyJournal == [entries |-> {}, next |-> 1, acked |-> 0]

\* The sequence number of the newest row of a nonempty set of rows.
LastSeq(rows) == CHOOSE n \in {r.seq : r \in rows} : \A r \in rows : r.seq <= n

\* Journal.Append finds the event ID in a row that is still there.
Journaled(j, id) == \E r \in j.entries : r.id = id

\* Journal.Append inserts a row under the next AUTOINCREMENT value.
AppendRow(j, id, epoch) ==
    [entries |-> j.entries \union {[seq |-> j.next, id |-> id, epoch |-> epoch]},
     next |-> j.next + 1,
     acked |-> j.acked]

\* Journal.ReadUnacked: the n oldest rows.
ReadUnacked(j, n) ==
    {r \in j.entries : Cardinality({q \in j.entries : q.seq < r.seq}) < n}

\* Journal.Ack accepts a position: at or below the watermark (a repetition) or
\* at most MAX(seq); anything else is ErrUnknownAck.
AckKnown(j, through) ==
    through <= j.acked \/ \E r \in j.entries : through <= r.seq

\* Journal.Ack deletes every row through the position and advances the
\* watermark; a repeated acknowledgement changes nothing.
AckThrough(j, through) ==
    IF through <= j.acked
    THEN j
    ELSE [j EXCEPT !.entries = {r \in @ : r.seq > through}, !.acked = through]

=============================================================================
