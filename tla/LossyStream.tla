----------------------------- MODULE LossyStream -----------------------------
(***************************************************************************)
(* What the relay promises of one proxied event stream, and no more: the   *)
(* public client is written chunks the instance did send, in the order     *)
(* they were sent and none twice, until the response is closed.  Chunks    *)
(* may be missing.  RelayStream is shown to implement this.                *)
(***************************************************************************)
EXTENDS Naturals, Sequences

VARIABLES
  sent,    \* how many chunks the instance has sent
  got,     \* numbers of the chunks written to the public client
  closed   \* the public response is over

vars == <<sent, got, closed>>

Init == sent = 0 /\ got = <<>> /\ closed = FALSE

Send == sent' = sent + 1 /\ UNCHANGED <<got, closed>>

Deliver(n) ==
  /\ ~closed
  /\ \A i \in DOMAIN got : got[i] < n
  /\ got' = Append(got, n)
  /\ UNCHANGED <<sent, closed>>

Close == closed = FALSE /\ closed' = TRUE /\ UNCHANGED <<sent, got>>

Next == Send \/ Close \/ \E n \in 1..sent : Deliver(n)

Spec == Init /\ [][Next]_vars

\* The chunks arrive in the order they were sent and none arrives twice.
InOrder == \A i, j \in DOMAIN got : i < j => got[i] < got[j]

\* Nothing arrives that the instance did not send.
FromInstance == \A i \in DOMAIN got : got[i] \in 1..sent
=============================================================================
