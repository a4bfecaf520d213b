----------------------------- MODULE MCGatherer -----------------------------
(* A torrent of two files for TLC. *)
EXTENDS Gatherer

TwoFiles == {[offset |-> 0, length |-> 5], [offset |-> 5, length |-> 3]}
=============================================================================
