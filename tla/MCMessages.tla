----------------------------- MODULE MCMessages -----------------------------
(***************************************************************************)
(* What becomes of a stored message, for TLC: the hub's streams, or the    *)
(* deliveries to webhooks.  They share no state, so a behaviour runs one   *)
(* of them, chosen at the start.                                           *)
(***************************************************************************)
EXTENDS MCRealtimeHub, WebhookDelivery

VARIABLE way

MsgInit ==
  /\ way \in {"streams", "webhooks"} /\ Init /\ HookInit
  /\ way = "streams" => hook = [h \in Hooks |-> "new"]
  /\ way = "webhooks" => member = [u \in Users |-> Channels]

ByStream(A) == way = "streams" /\ A /\ UNCHANGED <<way, hookVars>>
ByWebhook(A) == way = "webhooks" /\ A /\ UNCHANGED <<way, vars>>

msgsVars == <<way, vars, hookVars>>

\* Goroutines run, as in the fairness of the hub and of the deliveries.
MsgSpec ==
  /\ MsgInit /\ [][ByStream(Next) \/ ByWebhook(HookNext)]_msgsVars
  /\ \A s \in Streams : WF_msgsVars(ByStream(StreamStep(s)))
  /\ \A m \in Messages : WF_msgsVars(ByStream(MessageStep(m)))
  /\ \A e \in Events : WF_msgsVars(ByWebhook(GoroutineSteps(e)))
=============================================================================
