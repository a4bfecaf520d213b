---------------------------- MODULE MCInterpreter ----------------------------
(* Two files, the first of which takes more time per byte.                 *)
EXTENDS Interpreter

TwoFiles == <<[offset |-> 0, length |-> 3, tempo |-> 2],
              [offset |-> 3, length |-> 1, tempo |-> 1]>>
=============================================================================
