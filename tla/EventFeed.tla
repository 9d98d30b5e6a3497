------------------------------ MODULE EventFeed ------------------------------
(***************************************************************************)
(* What GET /events/stream promises one user, and no more: the messages    *)
(* that were stored, of the channels the user was in when asking, each at  *)
(* most once, until the stream is over.  Messages may be missing.          *)
(* RealtimeHub is shown to implement this for every stream.                *)
(***************************************************************************)
EXTENDS Sequences

CONSTANTS
  Messages, Channels,
  Private,  \* channels no stream carries: direct messages
  ChanOf    \* channel of a message

VARIABLES
  stored,   \* messages in the database
  mine,     \* the user's channels
  phase,    \* of the stream: "none", "asked", "over"
  scope,    \* channels it carries, fixed when it was asked for
  seen      \* messages its client was told of, in order

vars == <<stored, mine, phase, scope, seen>>

Init ==
  /\ stored = {} /\ mine \in SUBSET Channels
  /\ phase = "none" /\ scope = {} /\ seen = <<>>

Store(m) ==
  /\ m \notin stored /\ stored' = stored \cup {m}
  /\ UNCHANGED <<mine, phase, scope, seen>>

ComeOrGo == mine' \in SUBSET Channels /\ UNCHANGED <<stored, phase, scope, seen>>

Ask ==
  /\ phase = "none" /\ phase' = "asked" /\ scope' = mine \ Private
  /\ UNCHANGED <<stored, mine, seen>>

Tell(m) ==
  /\ phase = "asked" /\ m \in stored /\ ChanOf[m] \in scope
  /\ \A i \in DOMAIN seen : seen[i] # m
  /\ seen' = Append(seen, m)
  /\ UNCHANGED <<stored, mine, phase, scope>>

End ==
  /\ phase = "asked" /\ phase' = "over"
  /\ UNCHANGED <<stored, mine, scope, seen>>

Next == ComeOrGo \/ Ask \/ End \/ \E m \in Messages : Store(m) \/ Tell(m)

Spec == Init /\ [][Next]_vars

\* Nobody is told of a message that was not stored, of another's channel, or twice.
FeedTruthful ==
  /\ \A i \in DOMAIN seen : seen[i] \in stored /\ ChanOf[seen[i]] \in scope
  /\ \A i, j \in DOMAIN seen : seen[i] = seen[j] => i = j
=============================================================================
