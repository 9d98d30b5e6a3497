---------------------------- MODULE MCRealtimeHub ----------------------------
(***************************************************************************)
(* Instances of RealtimeHub for TLC.                                       *)
(***************************************************************************)
EXTENDS RealtimeHub, TLC

CONSTANTS u1, u2, a, b, dm, e1, e2, w1, w2, m1, m2, m3

\* The two streams of the runs belong to u1 and u2, or both to u1.
UserOf2 == [s \in Streams |-> IF s = e2 THEN u2 ELSE u1]
UserOf1 == [s \in Streams |-> u1]

\* Every message is u1's: by POST, or m2 through the socket w1.
ByU1 == [m \in Messages |-> u1]
ToA == [m \in Messages |-> a]
AllPost == [m \in Messages |-> None]
M2BySocket == [m \in Messages |-> IF m = m2 THEN w1 ELSE None]
=============================================================================
