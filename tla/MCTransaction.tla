---------------------------- MODULE MCTransaction ----------------------------
(* Three closures on one connection, as in the service, or on the          *)
(* connections of two processes.                                           *)
EXTENDS Transaction

CONSTANTS x, y, w1, w2, w3, a, b

MCEventLists == {<<>>, <<x>>, <<x, y>>}
OneConnection == [w \in Writers |-> a]
TwoConnections == [w \in Writers |-> IF w = w1 THEN b ELSE a]
=============================================================================
