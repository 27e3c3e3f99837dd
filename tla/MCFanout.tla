------------------------------ MODULE MCFanout ------------------------------
(***************************************************************************)
(* Small instances of Fanout for TLC.                                      *)
(***************************************************************************)
EXTENDS Fanout, TLC

\* Replicas and sessions are interchangeable.
Symmetry == Permutations(Replica) \union Permutations(Session)

=============================================================================
