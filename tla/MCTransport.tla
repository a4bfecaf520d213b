---------------------------- MODULE MCTransport -----------------------------
EXTENDS Transport

MCTimes == [kind \in Kind |-> IF kind = "chunk" THEN <<0, 1, 2, 3>> ELSE <<0, 2, 2>>]
=============================================================================
