---------------------------- MODULE MCHistorySync -----------------------------
(* Instances of HistorySync for TLC: two chunks of one account, the first in *)
(* two batches, the second the one that reports 100%, and one of another.    *)
EXTENDS HistorySync

ChunkAccount == [n \in Notification |-> IF n = 3 THEN "b" ELSE "a"]
ChunkParts   == [n \in Notification |-> IF n = 1 THEN 2 ELSE 1]
\* The second batch of the first chunk.
ChunkUnreadable == {<<"batch", 1, 1>>}
=============================================================================
