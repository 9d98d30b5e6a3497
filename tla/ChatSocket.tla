----------------------------- MODULE ChatSocket -----------------------------
(***************************************************************************)
(* The web client's conversation: the hook useWebSocket                    *)
(* (apps/web/src/hooks/useWebSocket.ts) with the requests it makes.        *)
(*                                                                         *)
(* Each time the selected channel changes, React runs the cleanups of the  *)
(* hook's two effects and the effects again: one loads the channel's       *)
(* messages, one opens a socket for it.  A socket's callbacks keep the     *)
(* channel they were made for; the refs (wsRef, reconnectTimeoutRef,       *)
(* reconnectAttemptsRef) are shared by all of them.  close() in a cleanup  *)
(* delivers its close event later, when the next channel is on screen.     *)
(***************************************************************************)
EXTENDS Integers, Sequences, FiniteSets

CONSTANTS Channels, Messages,
          ChanOf,          \* the channel of a message
          Own,             \* the messages this page sends; others send the rest
          MaxSockets,      \* sockets the page may create
          MaxAttempts,     \* reconnects without success before giving up: 10
          MaxSelects,      \* changes of the selected channel
          MaxFaults,       \* sockets broken by the network
          None

ASSUME ChatConstantsOK ==
  /\ ChanOf \in [Messages -> Channels]
  /\ Own \subseteq Messages
  /\ None \notin Channels
  /\ MaxSockets \in Nat \ {0} /\ MaxAttempts \in Nat
  /\ MaxSelects \in Nat /\ MaxFaults \in Nat

Sockets == 1 .. MaxSockets
NoRef == 0

VARIABLES
  access,       \* how the page reaches the instance: "direct", through a "relay", or "anonymous"
  mounted, channel,
  born, state, chan,          \* sockets: created, readyState, channel of their closure
  wsRef, timers, timeoutRef,  \* wsRef.current; timers armed by a socket's close; the last of them
  attempts,                   \* reconnectAttemptsRef.current
  status,                     \* connectionStatus
  shown,                      \* messages
  load, loaded,               \* the load of the selected channel and its answer
  subscribed, inbox,          \* at the server: subscribed sockets, what is on its way to each
  stored,                     \* at the server: the messages of each channel, in order
  sending, via,               \* an own message: where it is, and the socket it went by
  selects, faults,
  chain, effect, gaveUp       \* history: run of the effect a socket goes back to; the runs so far; runs that gave up

connection == <<born, state, chan, wsRef, timers, timeoutRef, attempts, chain, gaveUp>>
server == <<subscribed, inbox, stored>>
page == <<mounted, channel, shown, load, loaded, effect, selects>>
chatVars == <<access, connection, status, server, page, sending, via, faults>>

Holds(seq, m) == \E i \in 1 .. Len(seq) : seq[i] = m
Stored(m) == Holds(stored[ChanOf[m]], m)

ChatInit ==
  /\ access \in {"direct", "relay", "anonymous"}
  /\ mounted = TRUE /\ channel = None
  /\ born = 0 /\ state = [s \in Sockets |-> "unborn"] /\ chan = [s \in Sockets |-> None]
  /\ wsRef = NoRef /\ timers = {} /\ timeoutRef = NoRef /\ attempts = 0
  /\ status = IF access = "anonymous" THEN "disconnected" ELSE "reconnecting"
  /\ shown = <<>> /\ load = "none" /\ loaded = <<>>
  /\ subscribed = {} /\ inbox = [s \in Sockets |-> {}] /\ stored = [c \in Channels |-> <<>>]
  /\ sending = [m \in Own |-> "no"] /\ via = [m \in Own |-> NoRef]
  /\ selects = 0 /\ faults = 0
  /\ chain = [s \in Sockets |-> 0] /\ effect = 0 /\ gaveUp = {}

\* The cleanup of the socket's effect: the last timer and the socket in wsRef.
Closing(s) == s = wsRef /\ state[s] \in {"connecting", "open"}

\* The body of connect() for channel c, on behalf of run e, with sockets as st.
Opens(st, c, e) ==
  LET s == born + 1 IN
  /\ born < MaxSockets
  /\ born' = s
  /\ state' = [st EXCEPT ![s] = "connecting"]
  /\ chan' = [chan EXCEPT ![s] = c]
  /\ wsRef' = s
  /\ chain' = [chain EXCEPT ![s] = e]

\* The selected channel changes (None when nothing is left to select).
Select(c) ==
  /\ mounted /\ c # channel /\ selects < MaxSelects
  /\ selects' = selects + 1
  /\ channel' = c
  /\ effect' = effect + 1
  /\ timers' = timers \ {timeoutRef}
  /\ load' = IF c = None THEN "none" ELSE "asked"
  /\ loaded' = <<>>
  /\ shown' = IF c = None THEN <<>> ELSE shown
  /\ LET left == [s \in Sockets |-> IF Closing(s) THEN "closing" ELSE state[s]] IN
     IF access = "direct" /\ c # None
     THEN Opens(left, c, effect + 1) /\ status' = "reconnecting"
     ELSE /\ state' = left /\ wsRef' = NoRef
          /\ status' = IF access = "relay" /\ c # None THEN "disconnected" ELSE status
          /\ UNCHANGED <<born, chan, chain>>
  /\ UNCHANGED <<access, mounted, timeoutRef, attempts, gaveUp, server, sending, via, faults>>

\* The page goes: the cleanups run a last time.
Unmount ==
  /\ mounted
  /\ mounted' = FALSE /\ channel' = None
  /\ shown' = <<>> /\ load' = "none" /\ loaded' = <<>>
  /\ timers' = timers \ {timeoutRef}
  /\ state' = [s \in Sockets |-> IF Closing(s) THEN "closing" ELSE state[s]]
  /\ wsRef' = NoRef
  /\ UNCHANGED <<access, born, chan, timeoutRef, attempts, status, server, sending, via,
                 selects, faults, chain, effect, gaveUp>>

\* setState of an unmounted component does nothing.
Set(var, value) == IF mounted THEN value ELSE var

\* Mutant of Appended: without the check for a message that is shown already.
AppendedAgain(m) == Append(shown, m)

\* Mutant of Appended: appended to the messages the socket's closure saw, none.
AppendedToStale(m) == <<m>>

\* A message is appended unless it is shown already.
Appended(m) == IF Holds(shown, m) THEN shown ELSE Append(shown, m)

-----------------------------------------------------------------------------
(* Sockets *)

\* onopen; the subscription it sends arrives later.
Open(s) ==
  /\ state[s] = "connecting"
  /\ state' = [state EXCEPT ![s] = "open"]
  /\ attempts' = 0
  /\ status' = Set(status, "connected")
  /\ UNCHANGED <<access, born, chan, wsRef, timers, timeoutRef, chain, gaveUp, server, page,
                 sending, via, faults>>

\* Mutant of Break: onerror arms a timer as well.
BreakSchedules(s) ==
  /\ state[s] \in {"connecting", "open"}
  /\ faults < MaxFaults
  /\ faults' = faults + 1
  /\ state' = [state EXCEPT ![s] = "closing"]
  /\ timers' = timers \cup {s}
  /\ timeoutRef' = s
  /\ status' = Set(status, "disconnected")
  /\ UNCHANGED <<access, born, chan, wsRef, attempts, chain, gaveUp, server, page, sending, via>>

\* The network breaks a socket: onerror, and onclose follows.
Break(s) ==
  /\ state[s] \in {"connecting", "open"}
  /\ faults < MaxFaults
  /\ faults' = faults + 1
  /\ state' = [state EXCEPT ![s] = "closing"]
  /\ status' = Set(status, "disconnected")
  /\ UNCHANGED <<access, born, chan, wsRef, timers, timeoutRef, attempts, chain, gaveUp, server,
                 page, sending, via>>

\* onclose, of whichever socket, reconnects to that socket's channel.
Closed(s) ==
  /\ state[s] = "closing"
  /\ state' = [state EXCEPT ![s] = "closed"]
  /\ IF attempts < MaxAttempts
     THEN /\ attempts' = attempts + 1
          /\ status' = Set(status, "reconnecting")
          /\ timers' = timers \cup {s}
          /\ timeoutRef' = s
          /\ UNCHANGED gaveUp
     ELSE /\ status' = Set(status, "disconnected")
          /\ gaveUp' = gaveUp \cup {chain[s]}
          /\ UNCHANGED <<attempts, timers, timeoutRef>>
  /\ subscribed' = subscribed \ {s}
  /\ inbox' = [inbox EXCEPT ![s] = {}]
  /\ sending' = [m \in Own |-> IF sending[m] = "frame" /\ via[m] = s THEN "over" ELSE sending[m]]
  /\ UNCHANGED <<access, born, chan, wsRef, chain, stored, page, via, faults>>

\* Mutant of Reconnect: only the timer the ref knows may still connect.
ReconnectIfLast(s) ==
  /\ s \in timers /\ s = timeoutRef
  /\ timers' = timers \ {s}
  /\ Opens(state, chan[s], chain[s])
  /\ status' = Set(status, "reconnecting")
  /\ UNCHANGED <<access, timeoutRef, attempts, gaveUp, server, page, sending, via, faults>>

\* The timer runs connect() again, and wsRef follows it.
Reconnect(s) ==
  /\ s \in timers
  /\ timers' = timers \ {s}
  /\ Opens(state, chan[s], chain[s])
  /\ status' = Set(status, "reconnecting")
  /\ UNCHANGED <<access, timeoutRef, attempts, gaveUp, server, page, sending, via, faults>>

\* onmessage: shown if it is of the channel of this socket's closure.
Receive(s, m) ==
  /\ state[s] = "open" /\ m \in inbox[s]
  /\ inbox' = [inbox EXCEPT ![s] = @ \ {m}]
  /\ shown' = IF mounted /\ ChanOf[m] = chan[s] THEN Appended(m) ELSE shown
  /\ UNCHANGED <<access, connection, status, subscribed, stored, mounted, channel, load, loaded,
                 effect, selects, sending, via, faults>>

-----------------------------------------------------------------------------
(* The instance: it reads subscriptions, stores messages and broadcasts *)

ServerSubscribes(s) ==
  /\ state[s] = "open" /\ s \notin subscribed
  /\ subscribed' = subscribed \cup {s}
  /\ UNCHANGED <<access, connection, status, inbox, stored, page, sending, via, faults>>

ServerStores(m) ==
  /\ stored' = [stored EXCEPT ![ChanOf[m]] = Append(@, m)]
  /\ inbox' = [s \in Sockets |->
                 IF s \in subscribed /\ chan[s] = ChanOf[m] /\ state[s] = "open"
                 THEN inbox[s] \cup {m} ELSE inbox[s]]
  /\ UNCHANGED <<access, connection, status, subscribed, page, via, faults>>

OthersSend(m) ==
  /\ m \notin Own /\ ~Stored(m)
  /\ ServerStores(m)
  /\ UNCHANGED sending

\* The frame of an own message arrives; a frame whose socket is gone never does.
FrameArrives(m) ==
  /\ sending[m] = "frame" /\ state[via[m]] \in {"open", "closing"}
  /\ ServerStores(m)
  /\ sending' = [sending EXCEPT ![m] = "over"]

PostArrives(m) ==
  /\ sending[m] = "post"
  /\ ServerStores(m)
  /\ sending' = [sending EXCEPT ![m] = "reply"]

-----------------------------------------------------------------------------
(* Loading and sending *)

LoadAnswered ==
  /\ load = "asked"
  /\ load' = "answered" /\ loaded' = stored[channel]
  /\ UNCHANGED <<access, connection, status, server, mounted, channel, shown, effect, selects,
                 sending, via, faults>>

\* The answer replaces whatever is shown; a failed load empties it.
LoadApplied ==
  /\ load = "answered"
  /\ load' = "done" /\ shown' = loaded /\ loaded' = <<>>
  /\ UNCHANGED <<access, connection, status, server, mounted, channel, effect, selects,
                 sending, via, faults>>

LoadFails ==
  /\ load = "asked"
  /\ load' = "done" /\ shown' = <<>>
  /\ UNCHANGED <<access, connection, status, server, mounted, channel, loaded, effect, selects,
                 sending, via, faults>>

\* sendMessage: by the socket in wsRef if it is open, else a request.
Send(m) ==
  /\ mounted /\ channel = ChanOf[m] /\ sending[m] = "no"
  /\ IF wsRef # NoRef /\ state[wsRef] = "open"
     THEN sending' = [sending EXCEPT ![m] = "frame"] /\ via' = [via EXCEPT ![m] = wsRef]
     ELSE sending' = [sending EXCEPT ![m] = "post"] /\ UNCHANGED via
  /\ UNCHANGED <<access, connection, status, server, page, faults>>

\* The answer to the request shows the message at once.
PostReturns(m) ==
  /\ sending[m] = "reply"
  /\ sending' = [sending EXCEPT ![m] = "over"]
  /\ shown' = IF mounted THEN Appended(m) ELSE shown
  /\ UNCHANGED <<access, connection, status, server, mounted, channel, load, loaded, effect,
                 selects, via, faults>>

\* The request fails before or after the instance stored the message.
PostFails(m) ==
  /\ sending[m] \in {"post", "reply"}
  /\ sending' = [sending EXCEPT ![m] = "over"]
  /\ UNCHANGED <<access, connection, status, server, page, via, faults>>

-----------------------------------------------------------------------------
ChatNext ==
  \/ \E c \in Channels \cup {None} : Select(c)
  \/ Unmount
  \/ \E s \in Sockets :
       \/ Open(s) \/ Break(s) \/ Closed(s) \/ Reconnect(s) \/ ServerSubscribes(s)
       \/ \E m \in Messages : Receive(s, m)
  \/ \E m \in Messages : OthersSend(m)
  \/ \E m \in Own : Send(m) \/ FrameArrives(m) \/ PostArrives(m) \/ PostReturns(m) \/ PostFails(m)
  \/ LoadAnswered \/ LoadApplied \/ LoadFails

ChatSpec == ChatInit /\ [][ChatNext]_chatVars

-----------------------------------------------------------------------------
Alive == {s \in Sockets : state[s] \in {"connecting", "open", "closing"}}
Displayed == {shown[i] : i \in 1 .. Len(shown)}

ChatTypeOK ==
  /\ access \in {"direct", "relay", "anonymous"} /\ mounted \in BOOLEAN
  /\ channel \in Channels \cup {None}
  /\ born \in 0 .. MaxSockets
  /\ state \in [Sockets -> {"unborn", "connecting", "open", "closing", "closed"}]
  /\ chan \in [Sockets -> Channels \cup {None}]
  /\ wsRef \in Sockets \cup {NoRef} /\ timers \subseteq Sockets
  /\ timeoutRef \in Sockets \cup {NoRef} /\ attempts \in 0 .. MaxAttempts
  /\ status \in {"connected", "reconnecting", "disconnected"}
  /\ selects \in Nat /\ faults \in Nat /\ effect \in Nat
  /\ chain \in [Sockets -> Nat] /\ gaveUp \subseteq Nat

MessagesTypeOK ==
  /\ shown \in Seq(Messages) /\ loaded \in Seq(Messages)
  /\ stored \in [Channels -> Seq(Messages)]
  /\ load \in {"none", "asked", "answered", "done"}
  /\ subscribed \subseteq Sockets /\ inbox \in [Sockets -> SUBSET Messages]
  /\ sending \in [Own -> {"no", "frame", "post", "reply", "over"}]
  /\ via \in [Own -> Sockets \cup {NoRef}]

\* A conversation shows no message twice, whether it came by the load, by
\* several sockets or by the answer to a request, and none the instance does
\* not have.
ShownOnce ==
  /\ MessagesTypeOK
  /\ \A i, j \in 1 .. Len(shown) : shown[i] = shown[j] => i = j
  /\ \A i \in 1 .. Len(shown) : Stored(shown[i])

Chains ==
  /\ Alive \cap timers = {}
  /\ \A s, t \in Alive \cup timers : chain[s] = chain[t] => s = t
  /\ mounted /\ channel # None /\ access = "direct" =>
       effect \in gaveUp \/ \E s \in Alive \cup timers : chain[s] = effect

StatusHonest ==
  mounted /\ status = "connected" => \E s \in Sockets : state[s] \in {"open", "closing"}

\* Selecting a channel starts one line of sockets and timers.  It never forks,
\* and the one of the selected channel is never cut by the leftovers of
\* earlier channels, which share its refs: it has a socket or a timer, or it
\* gave up after MaxAttempts.  And "connected" is never shown when no socket of
\* the page has opened, or all that did are known to be closed.
ChatInv == ChatTypeOK /\ Chains /\ StatusHonest

\* Once the selected channel is loaded, nothing shown disappears until another
\* one is selected.
StaysShown ==
  [][load = "done" /\ effect' = effect /\ mounted' => Displayed \subseteq Displayed']_chatVars

\* While a channel stays selected its socket comes back after every fault,
\* unless the page gave up.
ChannelReconnects ==
  \A e \in 1 .. MaxSelects :
    mounted /\ effect = e /\ channel # None /\ access = "direct"
      ~> \/ ~mounted \/ effect # e \/ e \in gaveUp
         \/ \E s \in Sockets : chain[s] = e /\ state[s] = "open"

\* "Only add if it's for the current channel": once the selected channel is
\* loaded, the messages shown are of that channel.
OnlyCurrentChannel ==
  load = "done" => \A m \in Displayed : ChanOf[m] = channel

\* The scheduling of the browser: events, timers and requests come about.
SocketSteps(s) == Open(s) \/ Closed(s) \/ Reconnect(s)
=============================================================================
