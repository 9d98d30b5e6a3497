---------------------------- MODULE PublicRequest ----------------------------
(***************************************************************************)
(* What the relay promises of one plain HTTP request from the public, and  *)
(* no more: only the instance of its subdomain is handed the request, and  *)
(* carries it out at most once; the answer is that of this instance, or    *)
(* says truly that it was never asked, or that it was late, in which case  *)
(* it may still act.  RelayTunnel is shown to implement this.              *)
(***************************************************************************)
CONSTANTS Subdomains, None

VARIABLES
  asked,   \* the request has come in
  sub,     \* the subdomain it is for
  handed,  \* the subdomain of the instance it was handed to, or None
  run,     \* that instance: "none", "sent", "calling", "lost" or its outcome
  answer   \* status written to the public, or "none"

vars == <<asked, sub, handed, run, answer>>

Outcomes == {"ok", "bad_gateway"}
Refusals == {"offline", "unroutable"}

Init == asked = FALSE /\ sub = None /\ handed = None /\ run = "none" /\ answer = "none"

Ask(s) ==
  /\ ~asked /\ asked' = TRUE /\ sub' = s
  /\ answer' \in {"none", "offline"}
  /\ UNCHANGED <<handed, run>>

Open == asked /\ answer = "none"

Refuse ==
  /\ Open /\ run = "none" /\ answer' \in Refusals
  /\ UNCHANGED <<asked, sub, handed, run>>

HandOver ==
  /\ Open /\ run = "none"
  /\ handed' = sub /\ run' \in {"sent", "lost"}
  /\ UNCHANGED <<asked, sub, answer>>

\* Also of a request whose answer was that it is late.
Act ==
  /\ \/ run = "sent" /\ run' \in {"calling", "lost"}
     \/ run = "calling" /\ run' \in Outcomes \cup {"lost"}
  /\ UNCHANGED <<asked, sub, handed, answer>>

Answer ==
  /\ Open /\ \/ run \in Outcomes /\ answer' = run
             \/ run # "none" /\ answer' = "timeout"
  /\ UNCHANGED <<asked, sub, handed, run>>

Next == Refuse \/ HandOver \/ Act \/ Answer \/ \E s \in Subdomains : Ask(s)

Spec == Init /\ [][Next]_vars

\* No other instance ever has the request; a refusal means that none acts on
\* it, so that it may be repeated; and an outcome is the instance's own.
AnswerTruthful ==
  /\ run # "none" => handed = sub
  /\ answer \in Refusals => run = "none"
  /\ answer \in Outcomes => run = answer
=============================================================================
