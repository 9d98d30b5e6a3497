-------------------------- MODULE MCClientSockets --------------------------
(***************************************************************************)
(* Instances of the three reconnecting clients for TLC.  They share no     *)
(* state, so a behaviour runs one of them, chosen at the start, and leaves *)
(* the others where they begin: their state spaces add up.                 *)
(***************************************************************************)
EXTENDS SdkSocket, ChatSocket, DesktopSocket, TLC

CONSTANTS a, b, m1, m2

\* Each page sends m1 to channel a; others send m2 to channel b.
MC_ChanOf == (m1 :> a) @@ (m2 :> b)

VARIABLE client

Init ==
  /\ client \in {"sdk", "web", "desktop"}
  /\ SdkInit /\ ChatInit /\ DeskInit
  /\ client # "web" => access = "direct"

OfSdk(A) == client = "sdk" /\ A /\ UNCHANGED <<client, chatVars, deskVars>>
OfWeb(A) == client = "web" /\ A /\ UNCHANGED <<client, sdkVars, deskVars>>
OfDesktop(A) == client = "desktop" /\ A /\ UNCHANGED <<client, sdkVars, chatVars>>

Next == OfSdk(SdkNext) \/ OfWeb(ChatNext) \/ OfDesktop(DeskNext)

vars == <<client, sdkVars, chatVars, deskVars>>

\* Browsers deliver the events of their sockets and fire timers; React renders
\* again after a change of state.
Spec ==
  /\ Init /\ [][Next]_vars
  /\ \A s \in SdkSockets : WF_vars(OfSdk(SdkSteps(s)))
  /\ \A s \in Sockets : WF_vars(OfWeb(SocketSteps(s)))
=============================================================================
