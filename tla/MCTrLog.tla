------------------------------ MODULE MCTrLog ------------------------------
(* A torrent of three files, the middle one so short that a chunk can       *)
(* reach over it.                                                           *)
EXTENDS TrLog

ThreeFiles ==
  <<[offset |-> 0, length |-> 2], [offset |-> 2, length |-> 1], [offset |-> 3, length |-> 1]>>
=============================================================================
