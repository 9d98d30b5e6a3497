---------------------------- MODULE MCRelayStream ----------------------------
(* Two streams of one connection, for TLC: the first sends one chunk more   *)
(* than its channel holds, the second only starts and ends.               *)
EXTENDS RelayStream

CONSTANTS e1, e2

TwoAndNone == [s \in Streams |-> IF s = e1 THEN 2 ELSE 0]
=============================================================================
