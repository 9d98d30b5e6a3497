----------------------------- MODULE RealtimeHub -----------------------------
(***************************************************************************)
(* How a message reaches the people who are online: the message handlers   *)
(* (REST and websocket), the hub's fan-out (handlers/ws_hub.go), the SSE   *)
(* stream handler (events_handler.go) and the websocket handler            *)
(* (websocket_handler_v2.go).                                              *)
(*                                                                         *)
(* The hub's maps are guarded by a lock that is held only for one lookup   *)
(* or one update, so every step below that touches them is atomic and      *)
(* everything between two of them interleaves.  A panic in an HTTP handler *)
(* is recovered (router.go) and ends that handler; a panic in a goroutine  *)
(* of its own ends the process.                                            *)
(***************************************************************************)
EXTENDS Naturals, Sequences

CONSTANTS
  Users, Channels,
  DMs,        \* the channels of type "dm"
  Streams,    \* GET /events/stream requests
  Socks,      \* websocket connections
  Messages,   \* calls that send a message
  UserOf,     \* user of a stream
  Author,     \* user who sends a message
  ChanOf,     \* channel it is sent to
  ViaOf,      \* socket whose read loop handles it, None for a POST
  Cap,        \* capacity of a stream's event channel, 128 in the code
  MaxChanges, \* bound on joins and leaves
  None

Writers == Messages \cup {"reply", "ping"}  \* who writes to a socket

ASSUME ConstantsOK ==
  /\ DMs \subseteq Channels
  /\ UserOf \in [Streams -> Users]
  /\ Author \in [Messages -> Users] /\ ChanOf \in [Messages -> Channels]
  /\ ViaOf \in [Messages -> Socks \cup {None}] /\ None \notin Socks
  /\ Cap \in Nat \ {0} /\ MaxChanges \in Nat
  /\ "reply" \notin Messages /\ "ping" \notin Messages
  /\ Streams \cap Socks = {}

VARIABLES
  member,   \* channel_members: channels of each user
  changes,  \* joins and leaves so far
  \* ------------------------------------------------- Hub (ws_hub.go)
  sseSubs,  \* sseSubs[ch]: streams subscribed
  chans,    \* channels[ch]: sockets subscribed
  \* ------------------------------------------------- EventsHandler.Stream
  spc,      \* where the handler is
  listed,   \* channels, as read once by ListByUser
  todo,     \* channels still to subscribe or unsubscribe
  cut,      \* streams whose connection was ended
  buf,      \* eventCh
  got,      \* what reached the client
  dropped,  \* messages the full buffer refused (history)
  \* ------------------------------------------------- WebSocketHandlerV2
  wpc,      \* where the read loop is
  open,     \* sockets whose TCP connection works
  pending,  \* writers about to call WriteMessage
  writing,  \* writers inside it
  wgot,     \* what reached the client
  spoilt,   \* writes that ended without reaching it (history)
  \* ------------------------------------------------- one per message
  mpc,      \* where its handler is
  left,     \* streams its Broadcast still has to send to
  audience, \* subscribers when the call came in (history)
  crashed   \* the process died

hubVars    == <<sseSubs, chans>>
streamVars == <<spc, listed, todo, cut, buf, got, dropped>>
sockVars   == <<wpc, open, pending, writing, wgot, spoilt>>
msgVars    == <<mpc, left, audience>>
vars == <<member, changes, hubVars, streamVars, sockVars, msgVars, crashed>>

In(x, s) == \E i \in 1..Len(s) : s[i] = x

TypeOK ==
  /\ member \in [Users -> SUBSET Channels] /\ changes \in 0..MaxChanges
  /\ sseSubs \in [Channels -> SUBSET Streams]
  /\ chans \in [Channels -> SUBSET Socks]
  /\ spc \in [Streams -> {"idle", "subscribing", "open", "leaving", "closed"}]
  /\ listed \in [Streams -> SUBSET Channels]
  /\ todo \in [Streams -> SUBSET Channels]
  /\ cut \subseteq Streams
  /\ buf \in [Streams -> Seq(Messages)] /\ got \in [Streams -> Seq(Messages)]
  /\ dropped \in [Streams -> SUBSET Messages]
  /\ \A s \in Streams : Len(buf[s]) <= Cap
  /\ wpc \in [Socks -> {"idle", "reading", "replying", "busy", "leaving", "closed"}]
  /\ open \subseteq Socks
  /\ pending \in [Socks -> SUBSET Writers] /\ writing \in [Socks -> SUBSET Writers]
  /\ wgot \in [Socks -> SUBSET Messages] /\ spoilt \in [Socks -> SUBSET Messages]
  /\ mpc \in [Messages -> {"idle", "member", "stored", "sending", "done",
                           "refused", "panicked"}]
  /\ left \in [Messages -> SUBSET Streams]
  /\ audience \in [Messages -> SUBSET (Streams \cup Socks)]
  /\ crashed \in BOOLEAN

Init ==
  /\ member \in [Users -> SUBSET Channels] /\ changes = 0
  /\ sseSubs = [ch \in Channels |-> {}] /\ chans = [ch \in Channels |-> {}]
  /\ spc = [s \in Streams |-> "idle"]
  /\ listed = [s \in Streams |-> {}] /\ todo = [s \in Streams |-> {}]
  /\ cut = {}
  /\ buf = [s \in Streams |-> <<>>] /\ got = [s \in Streams |-> <<>>]
  /\ dropped = [s \in Streams |-> {}]
  /\ wpc = [c \in Socks |-> "idle"] /\ open = {}
  /\ pending = [c \in Socks |-> {}] /\ writing = [c \in Socks |-> {}]
  /\ wgot = [c \in Socks |-> {}] /\ spoilt = [c \in Socks |-> {}]
  /\ mpc = [m \in Messages |-> "idle"] /\ left = [m \in Messages |-> {}]
  /\ audience = [m \in Messages |-> {}]
  /\ crashed = FALSE

-----------------------------------------------------------------------------
(* Membership changes, by requests of their own *)

JoinOrLeave(u, ch) ==
  /\ ~crashed /\ changes < MaxChanges /\ changes' = changes + 1
  /\ member' = [member EXCEPT ![u] = IF ch \in @ THEN @ \ {ch} ELSE @ \cup {ch}]
  /\ UNCHANGED <<hubVars, streamVars, sockVars, msgVars, crashed>>

-----------------------------------------------------------------------------
(* The SSE stream handler *)

\* ListByUser: only channels of type "channel".
Connect(s) ==
  /\ ~crashed /\ spc[s] = "idle" /\ spc' = [spc EXCEPT ![s] = "subscribing"]
  /\ LET chs == member[UserOf[s]] \ DMs IN
     listed' = [listed EXCEPT ![s] = chs] /\ todo' = [todo EXCEPT ![s] = chs]
  /\ UNCHANGED <<member, changes, hubVars, cut, buf, got, dropped, sockVars, msgVars, crashed>>

SubscribeSSE(s, ch) ==
  /\ ~crashed /\ spc[s] = "subscribing" /\ ch \in todo[s]
  /\ todo' = [todo EXCEPT ![s] = @ \ {ch}]
  /\ sseSubs' = [sseSubs EXCEPT ![ch] = @ \cup {s}]
  /\ UNCHANGED <<member, changes, chans, spc, listed, cut, buf, got, dropped,
                 sockVars, msgVars, crashed>>

\* The connect frame is written and the select loop starts.
StreamOpens(s) ==
  /\ ~crashed /\ spc[s] = "subscribing" /\ todo[s] = {}
  /\ spc' = [spc EXCEPT ![s] = "open"]
  /\ UNCHANGED <<member, changes, hubVars, listed, todo, cut, buf, got, dropped,
                 sockVars, msgVars, crashed>>

\* The client goes away, or the server's read and write deadlines, 15 s after
\* the request was read (cmd/server/main.go), pass: the request's context is
\* done and writes may no longer reach the client.
Cut(s) ==
  /\ ~crashed /\ spc[s] \in {"subscribing", "open"} /\ s \notin cut
  /\ cut' = cut \cup {s}
  /\ UNCHANGED <<member, changes, hubVars, spc, listed, todo, buf, got, dropped,
                 sockVars, msgVars, crashed>>

\* Mutant of StreamWrites: a batch of frames, written newest first.
StreamWritesBatch(s) ==
  /\ ~crashed /\ spc[s] = "open" /\ buf[s] # <<>>
  /\ LET n == Len(buf[s]) IN
     /\ got' = [got EXCEPT ![s] = Append(@, buf[s][n])]
     /\ buf' = [buf EXCEPT ![s] = SubSeq(@, 1, n - 1)]
  /\ UNCHANGED <<member, changes, hubVars, spc, listed, todo, cut, dropped,
                 sockVars, msgVars, crashed>>

\* Mutant of StreamWrites: only the newest of several queued messages is written.
StreamWritesNewest(s) ==
  /\ ~crashed /\ spc[s] = "open" /\ buf[s] # <<>>
  /\ got' = [got EXCEPT ![s] = Append(@, buf[s][Len(buf[s])])]
  /\ buf' = [buf EXCEPT ![s] = <<>>]
  /\ UNCHANGED <<member, changes, hubVars, spc, listed, todo, cut, dropped,
                 sockVars, msgVars, crashed>>

\* Mutant of StreamWrites: a message written to a failing connection is kept
\* and written again.
StreamWritesAgain(s) ==
  /\ ~crashed /\ spc[s] = "open" /\ buf[s] # <<>>
  /\ buf' = IF s \notin cut THEN [buf EXCEPT ![s] = Tail(@)] ELSE buf
  /\ got' = [got EXCEPT ![s] = Append(@, Head(buf[s]))]
  /\ Len(got[s]) <= 4
  /\ UNCHANGED <<member, changes, hubVars, spc, listed, todo, cut, dropped,
                 sockVars, msgVars, crashed>>

\* select: a message from eventCh.  Its write error is ignored.
StreamWrites(s) ==
  /\ ~crashed /\ spc[s] = "open" /\ buf[s] # <<>>
  /\ buf' = [buf EXCEPT ![s] = Tail(@)]
  /\ \/ got' = [got EXCEPT ![s] = Append(@, Head(buf[s]))]
     \/ s \in cut /\ UNCHANGED got
  /\ UNCHANGED <<member, changes, hubVars, spc, listed, todo, cut, dropped,
                 sockVars, msgVars, crashed>>

\* Mutant of StreamLeaves: the loop ends only after a failing write, so an
\* idle stream never does.
StreamLeavesOnWrite(s) ==
  /\ ~crashed /\ spc[s] = "open" /\ s \in cut /\ buf[s] # <<>>
  /\ spc' = [spc EXCEPT ![s] = "leaving"]
  /\ todo' = [todo EXCEPT ![s] = listed[s]]
  /\ UNCHANGED <<member, changes, hubVars, listed, cut, buf, got, dropped,
                 sockVars, msgVars, crashed>>

\* Mutant of StreamLeaves: channels are listed again before they are left.
StreamLeavesRelisted(s) ==
  /\ ~crashed /\ spc[s] = "open" /\ s \in cut
  /\ spc' = [spc EXCEPT ![s] = "leaving"]
  /\ todo' = [todo EXCEPT ![s] = member[UserOf[s]] \ DMs]
  /\ UNCHANGED <<member, changes, hubVars, listed, cut, buf, got, dropped,
                 sockVars, msgVars, crashed>>

\* select: ctx.Done(); the deferred function runs.
StreamLeaves(s) ==
  /\ ~crashed /\ spc[s] = "open" /\ s \in cut
  /\ spc' = [spc EXCEPT ![s] = "leaving"]
  /\ todo' = [todo EXCEPT ![s] = listed[s]]
  /\ UNCHANGED <<member, changes, hubVars, listed, cut, buf, got, dropped,
                 sockVars, msgVars, crashed>>

UnsubscribeSSE(s, ch) ==
  /\ ~crashed /\ spc[s] = "leaving" /\ ch \in todo[s]
  /\ todo' = [todo EXCEPT ![s] = @ \ {ch}]
  /\ sseSubs' = [sseSubs EXCEPT ![ch] = @ \ {s}]
  /\ UNCHANGED <<member, changes, chans, spc, listed, cut, buf, got, dropped,
                 sockVars, msgVars, crashed>>

\* close(eventCh)
StreamCloses(s) ==
  /\ ~crashed /\ spc[s] = "leaving" /\ todo[s] = {}
  /\ spc' = [spc EXCEPT ![s] = "closed"]
  /\ buf' = [buf EXCEPT ![s] = <<>>]
  /\ UNCHANGED <<member, changes, hubVars, listed, todo, cut, got, dropped,
                 sockVars, msgVars, crashed>>

-----------------------------------------------------------------------------
(* The websocket handler: one read loop per socket, a ping goroutine, and  *)
(* the goroutine Broadcast starts per message.  WriteMessage allows one    *)
(* writer at a time and nothing here takes turns.                          *)

\* Upgrade and the "connected" acknowledgement, before any other writer.
SocketConnects(c) ==
  /\ ~crashed /\ wpc[c] = "idle" /\ wpc' = [wpc EXCEPT ![c] = "reading"]
  /\ open' = open \cup {c}
  /\ UNCHANGED <<member, changes, hubVars, streamVars, pending, writing, wgot,
                 spoilt, msgVars, crashed>>

\* A "subscribe" frame, perhaps received before the connection went down: hub
\* first, then the reply.
Subscribe(c, ch) ==
  /\ ~crashed /\ wpc[c] = "reading"
  /\ chans' = [chans EXCEPT ![ch] = @ \cup {c}]
  /\ wpc' = [wpc EXCEPT ![c] = "replying"]
  /\ pending' = [pending EXCEPT ![c] = @ \cup {"reply"}]
  /\ UNCHANGED <<member, changes, sseSubs, streamVars, open, writing, wgot,
                 spoilt, msgVars, crashed>>

Ping(c) ==
  /\ ~crashed /\ wpc[c] \in {"reading", "replying", "busy"} /\ c \in open
  /\ "ping" \notin pending[c] \cup writing[c]
  /\ pending' = [pending EXCEPT ![c] = @ \cup {"ping"}]
  /\ UNCHANGED <<member, changes, hubVars, streamVars, wpc, open, writing, wgot,
                 spoilt, msgVars, crashed>>

\* The peer goes away, or stops answering pings.
SocketDrops(c) ==
  /\ ~crashed /\ c \in open /\ open' = open \ {c}
  /\ UNCHANGED <<member, changes, hubVars, streamVars, wpc, pending, writing,
                 wgot, spoilt, msgVars, crashed>>

Alone(c) == c \in open /\ writing[c] = {}

BeginWrite(c, w) ==
  /\ ~crashed /\ w \in pending[c] /\ Alone(c)
  /\ pending' = [pending EXCEPT ![c] = @ \ {w}]
  /\ writing' = [writing EXCEPT ![c] = @ \cup {w}]
  /\ UNCHANGED <<member, changes, hubVars, streamVars, wpc, open, wgot, spoilt,
                 msgVars, crashed>>

\* The read loop goes on after its reply, however that ended.
Resumes(c, ws) ==
  wpc' = IF "reply" \in ws /\ wpc[c] = "replying"
         THEN [wpc EXCEPT ![c] = "reading"] ELSE wpc

EndWrite(c, w) ==
  /\ ~crashed /\ w \in writing[c] /\ c \in open
  /\ writing' = [writing EXCEPT ![c] = @ \ {w}]
  /\ wgot' = [wgot EXCEPT ![c] = @ \cup ({w} \cap Messages)]
  /\ Resumes(c, {w})
  /\ UNCHANGED <<member, changes, hubVars, streamVars, open, pending, spoilt,
                 msgVars, crashed>>

\* The connection is down, or the write's deadline passes, after which every
\* other write fails too.  Only Broadcast's goroutine leaves the hub.
WriteFails(c, w) ==
  /\ ~crashed
  /\ \/ w \in writing[c]
     \/ w \in pending[c] /\ c \notin open
  /\ pending' = [pending EXCEPT ![c] = @ \ {w}]
  /\ writing' = [writing EXCEPT ![c] = @ \ {w}]
  /\ spoilt' = [spoilt EXCEPT ![c] = @ \cup ({w} \cap Messages)]
  /\ open' = open \ {c}
  /\ chans' = IF w \in Messages THEN [ch \in Channels |-> chans[ch] \ {c}] ELSE chans
  /\ Resumes(c, {w})
  /\ UNCHANGED <<member, changes, sseSubs, streamVars, wgot, msgVars, crashed>>

\* Two writers at once, a data race: the library notices in one of them, which
\* panics while the other goes on, or both frames are spoilt.
WritesClash(c, w) ==
  /\ ~crashed /\ w \in pending[c] /\ c \in open /\ writing[c] # {}
  /\ pending' = [pending EXCEPT ![c] = @ \ {w}]
  /\ \/ \E p \in writing[c] \cup {w} :
          /\ writing' = [writing EXCEPT ![c] = (@ \cup {w}) \ {p}]
          /\ IF p = "reply" THEN wpc' = [wpc EXCEPT ![c] = "leaving"] /\ UNCHANGED crashed
             ELSE crashed' = TRUE /\ UNCHANGED wpc
          /\ UNCHANGED spoilt
     \/ /\ writing' = [writing EXCEPT ![c] = {}]
        /\ spoilt' = [spoilt EXCEPT ![c] = @ \cup ((writing[c] \cup {w}) \cap Messages)]
        /\ Resumes(c, writing[c] \cup {w})
        /\ UNCHANGED crashed
  /\ UNCHANGED <<member, changes, hubVars, streamVars, open, wgot, msgVars>>

\* ReadMessage fails, or the handler panicked: Unsubscribe and Close.
SocketExits(c) ==
  /\ ~crashed
  /\ \/ wpc[c] = "leaving"
     \/ wpc[c] = "reading" /\ c \notin open
  /\ wpc' = [wpc EXCEPT ![c] = "closed"]
  /\ open' = open \ {c}
  /\ chans' = [ch \in Channels |-> chans[ch] \ {c}]
  /\ UNCHANGED <<member, changes, sseSubs, streamVars, pending, writing, wgot,
                 spoilt, msgVars, crashed>>

-----------------------------------------------------------------------------
(* Sending a message, by POST or by a "send_message" frame *)

Subscribers(ch) == sseSubs[ch] \cup chans[ch]

\* The call arrives and IsMember answers.
Accept(m) ==
  /\ ~crashed /\ mpc[m] = "idle"
  /\ LET c == ViaOf[m]
         ok == ChanOf[m] \in member[Author[m]] IN
     /\ c # None => wpc[c] = "reading"
     /\ mpc' = [mpc EXCEPT ![m] = IF ok THEN "member" ELSE "refused"]
     /\ wpc' = IF c = None THEN wpc
               ELSE [wpc EXCEPT ![c] = IF ok THEN "busy" ELSE "replying"]
     /\ pending' = IF c = None \/ ok THEN pending
                   ELSE [pending EXCEPT ![c] = @ \cup {"reply"}]
  /\ audience' = [audience EXCEPT ![m] = Subscribers(ChanOf[m])]
  /\ UNCHANGED <<member, changes, hubVars, streamVars, open, writing, wgot,
                 spoilt, left, crashed>>

\* messageRepo.Create; a POST then also tells webhooks and integrations, in
\* goroutines of their own.
Store(m) ==
  /\ ~crashed /\ mpc[m] = "member" /\ mpc' = [mpc EXCEPT ![m] = "stored"]
  /\ UNCHANGED <<member, changes, hubVars, streamVars, sockVars, left, audience, crashed>>

\* Create fails; a socket gets an error reply.
StoreFails(m) ==
  /\ ~crashed /\ mpc[m] = "member" /\ mpc' = [mpc EXCEPT ![m] = "refused"]
  /\ LET c == ViaOf[m] IN
     IF c = None THEN UNCHANGED <<wpc, pending>>
     ELSE /\ wpc' = [wpc EXCEPT ![c] = "replying"]
          /\ pending' = [pending EXCEPT ![c] = @ \cup {"reply"}]
  /\ UNCHANGED <<member, changes, hubVars, streamVars, open, writing, wgot,
                 spoilt, left, audience, crashed>>

\* Broadcast copies both subscriber sets under the lock and starts the
\* goroutines that write to sockets.
Snapshot(m) ==
  /\ ~crashed /\ mpc[m] = "stored" /\ mpc' = [mpc EXCEPT ![m] = "sending"]
  /\ left' = [left EXCEPT ![m] = sseSubs[ChanOf[m]]]
  /\ pending' = [c \in Socks |->
       IF c \in chans[ChanOf[m]] THEN pending[c] \cup {m} ELSE pending[c]]
  /\ UNCHANGED <<member, changes, hubVars, streamVars, wpc, open, writing, wgot,
                 spoilt, audience, crashed>>

\* Mutant of Deliver: a full buffer ends the loop.
DeliverStopsWhenFull(m, s) ==
  /\ ~crashed /\ mpc[m] = "sending" /\ s \in left[m] /\ spc[s] # "closed"
  /\ IF Len(buf[s]) < Cap
     THEN /\ buf' = [buf EXCEPT ![s] = Append(@, m)] /\ UNCHANGED dropped
          /\ left' = [left EXCEPT ![m] = @ \ {s}]
     ELSE /\ dropped' = [dropped EXCEPT ![s] = @ \cup {m}] /\ UNCHANGED buf
          /\ left' = [left EXCEPT ![m] = {}]
  /\ UNCHANGED <<member, changes, hubVars, spc, listed, todo, cut, got, sockVars,
                 mpc, audience, crashed>>

\* The non-blocking send to one event channel.
Deliver(m, s) ==
  /\ ~crashed /\ mpc[m] = "sending" /\ s \in left[m] /\ spc[s] # "closed"
  /\ left' = [left EXCEPT ![m] = @ \ {s}]
  /\ IF Len(buf[s]) < Cap
     THEN buf' = [buf EXCEPT ![s] = Append(@, m)] /\ UNCHANGED dropped
     ELSE dropped' = [dropped EXCEPT ![s] = @ \cup {m}] /\ UNCHANGED buf
  /\ UNCHANGED <<member, changes, hubVars, spc, listed, todo, cut, got, sockVars,
                 mpc, audience, crashed>>

\* A send on a closed channel panics: the rest of the handler is skipped.
DeliverPanics(m, s) ==
  /\ ~crashed /\ mpc[m] = "sending" /\ s \in left[m] /\ spc[s] = "closed"
  /\ mpc' = [mpc EXCEPT ![m] = "panicked"] /\ left' = [left EXCEPT ![m] = {}]
  /\ wpc' = IF ViaOf[m] = None THEN wpc ELSE [wpc EXCEPT ![ViaOf[m]] = "leaving"]
  /\ UNCHANGED <<member, changes, hubVars, streamVars, open, pending, writing,
                 wgot, spoilt, audience, crashed>>

\* The loop is over: a POST is published to Centrifugo, whose errors are
\* ignored, and answered; a socket goes back to reading.
Finish(m) ==
  /\ ~crashed /\ mpc[m] = "sending" /\ left[m] = {}
  /\ mpc' = [mpc EXCEPT ![m] = "done"]
  /\ wpc' = IF ViaOf[m] = None THEN wpc ELSE [wpc EXCEPT ![ViaOf[m]] = "reading"]
  /\ UNCHANGED <<member, changes, hubVars, streamVars, open, pending, writing,
                 wgot, spoilt, left, audience, crashed>>

-----------------------------------------------------------------------------
StreamStep(s) ==
  \/ StreamOpens(s) \/ StreamWrites(s) \/ StreamLeaves(s) \/ StreamCloses(s)
  \/ \E ch \in Channels : SubscribeSSE(s, ch) \/ UnsubscribeSSE(s, ch)

WriterStep(c, w) ==
  BeginWrite(c, w) \/ EndWrite(c, w) \/ WriteFails(c, w) \/ WritesClash(c, w)

MessageStep(m) ==
  \/ Store(m) \/ StoreFails(m) \/ Snapshot(m) \/ Finish(m)
  \/ \E s \in Streams : Deliver(m, s) \/ DeliverPanics(m, s)

Next ==
  \/ \E u \in Users, ch \in Channels : JoinOrLeave(u, ch)
  \/ \E s \in Streams : Connect(s) \/ Cut(s) \/ StreamStep(s)
  \/ \E c \in Socks : SocketConnects(c) \/ Ping(c) \/ SocketDrops(c) \/ SocketExits(c)
  \/ \E c \in Socks, ch \in Channels : Subscribe(c, ch)
  \/ \E c \in Socks, w \in Writers : WriterStep(c, w)
  \/ \E m \in Messages : Accept(m) \/ MessageStep(m)

\* Goroutines run, and a blocked write ends at its deadline; clients,
\* members and networks owe nothing.
Fairness ==
  /\ \A s \in Streams : WF_vars(StreamStep(s))
  /\ \A c \in Socks : WF_vars(SocketExits(c))
  /\ \A c \in Socks, w \in Writers : WF_vars(WriterStep(c, w))
  /\ \A m \in Messages : WF_vars(MessageStep(m))

Spec == Init /\ [][Next]_vars
FairSpec == Spec /\ Fairness

-----------------------------------------------------------------------------
(* Properties *)

Distinct(q) == \A i, j \in 1..Len(q) : q[i] = q[j] => i = j
Log(s) == got[s] \o buf[s]
Reached(m, s) == In(m, got[s]) \/ In(m, buf[s]) \/ m \in dropped[s]
Precedes(a, b, q) == \E i, j \in 1..Len(q) : i < j /\ q[i] = a /\ q[j] = b

\* The parts of the inductive invariant.
\* A stream is subscribed exactly while its handler is between its own
\* SubscribeSSE and UnsubscribeSSE of that channel.
SubscribedWhileServed ==
  \A s \in Streams, ch \in Channels :
    s \in sseSubs[ch] <=>
      \/ spc[s] = "subscribing" /\ ch \in listed[s] \ todo[s]
      \/ spc[s] = "open" /\ ch \in listed[s]
      \/ spc[s] = "leaving" /\ ch \in todo[s]
TodoIsListed ==
  \A s \in Streams : /\ todo[s] \subseteq listed[s]
                     /\ spc[s] = "closed" => buf[s] = <<>>
SocketsAreServed ==
  \A c \in Socks, ch \in Channels : c \in chans[ch] => wpc[c] \notin {"idle", "closed"}
\* A read loop does one thing at a time: its reply, or one message.
InProgress(m) == mpc[m] \in {"member", "stored", "sending"}
ReadLoopSequential ==
  /\ \A c \in Socks :
       /\ "reply" \in pending[c] \cup writing[c] => wpc[c] = "replying"
       /\ "reply" \notin pending[c] \cap writing[c]
  /\ \A m, n \in Messages : InProgress(m) /\ ViaOf[m] # None =>
       /\ wpc[ViaOf[m]] = "busy"
       /\ InProgress(n) /\ ViaOf[n] = ViaOf[m] => m = n
\* A message still to be delivered to a stream is not already on its way.
SentOnce ==
  \A m \in Messages, s \in Streams :
    /\ left[m] # {} => mpc[m] = "sending"
    /\ In(m, got[s]) \/ In(m, buf[s]) =>
         mpc[m] \in {"sending", "done", "panicked"} /\ s \notin left[m]
NoRepeats ==
  \A s \in Streams : /\ Distinct(got[s]) /\ Distinct(buf[s])
                     /\ \A m \in Messages : ~(In(m, got[s]) /\ In(m, buf[s]))
\* Whoever was subscribed when a call came in, and is still served, is still
\* subscribed until the broadcast's snapshot and has the message after it.
AudienceKept ==
  \A m \in Messages :
    /\ \A s \in audience[m] \cap Streams :
         /\ ChanOf[m] \in listed[s] /\ spc[s] # "idle"
         /\ spc[s] = "subscribing" => ChanOf[m] \notin todo[s]
         /\ mpc[m] \in {"sending", "done"} /\ spc[s] \in {"subscribing", "open"}
              /\ s \notin cut => s \in left[m] \/ Reached(m, s)
    /\ \A c \in audience[m] \cap Socks :
         /\ wpc[c] # "idle"
         /\ c \in open /\ wpc[c] # "closed" /\ ~crashed =>
              /\ mpc[m] \in {"member", "stored"} => c \in chans[ChanOf[m]]
              /\ mpc[m] \in {"sending", "done"} =>
                   m \in pending[c] \cup writing[c] \cup wgot[c] \cup spoilt[c]

HubInv ==
  /\ TypeOK /\ SubscribedWhileServed /\ TodoIsListed /\ SocketsAreServed
  /\ ReadLoopSequential /\ SentOnce /\ NoRepeats /\ AudienceKept

\* A finished handler, of a stream or of a socket, is in neither of the
\* hub's maps: no channel keeps a closed event channel or a dead socket.
\* (the deferred functions of events_handler.go and websocket_handler_v2.go)
HubForgets ==
  \A ch \in Channels :
    /\ \A s \in sseSubs[ch] : spc[s] # "closed"
    /\ \A c \in chans[ch] : wpc[c] # "closed"

\* No stream's client sees the same message twice, whatever is still
\* queued for it, being sent to it or already written.  (ws_hub.go Broadcast)
AtMostOnce ==
  \A s \in Streams :
    /\ Distinct(Log(s))
    /\ \A m \in Messages : s \in left[m] => ~In(m, Log(s))

\* When a message's handler has finished, every stream and socket that was
\* subscribed when the call came in, and is still being served, has it: read,
\* queued, or refused by the stream's own full buffer or spoilt on its own
\* socket; never skipped because of another subscriber.  (ws_hub.go Broadcast)
NobodySkipped ==
  \A m \in Messages : mpc[m] = "done" /\ ~crashed =>
    /\ \A s \in audience[m] \cap Streams :
         spc[s] = "open" /\ s \notin cut => Reached(m, s)
    /\ \A c \in audience[m] \cap Socks :
         c \in open /\ wpc[c] # "closed" =>
           m \in pending[c] \cup writing[c] \cup wgot[c] \cup spoilt[c]

\* Each stream is an EventFeed of its user: what it writes is stored, of a
\* channel listed when it was opened, told once, and nothing follows once the
\* handler leaves.  (events_handler.go Stream, ws_hub.go Broadcast)
Feed(s) == INSTANCE EventFeed WITH
  Private <- DMs, mine <- member[UserOf[s]], scope <- listed[s], seen <- got[s],
  stored <- {m \in Messages : mpc[m] \in {"stored", "sending", "done", "panicked"}},
  phase <- CASE spc[s] = "idle" -> "none"
             [] spc[s] \in {"leaving", "closed"} -> "over"
             [] OTHER -> "asked"

ImplementsFeed ==
  /\ \A s \in Streams : Feed(s)!Init
  /\ [][\A s \in Streams : [Feed(s)!Next]_(Feed(s)!vars)]_vars

\* Two messages, the second sent after the first was answered, reach every
\* stream in that order.  (events_handler.go and ws_hub.go: one FIFO channel)
InOrder ==
  \A a, b \in Messages :
    [](mpc[a] = "done" /\ mpc[b] = "idle" =>
         [](\A s \in Streams : ~Precedes(b, a, got[s])))

\* A stream whose client is gone, or whose deadline has passed, ends, and with
\* it its subscriptions.  (events_handler.go: the ctx.Done case)
StreamEnds ==
  \A s \in Streams : (spc[s] = "open" /\ s \in cut) ~> (spc[s] = "closed" \/ crashed)

\* A message queued for a stream is written to it, unless the connection ends.
\* (events_handler.go: the eventCh case)
QueueDrains ==
  \A s \in Streams, m \in Messages :
    In(m, buf[s]) ~> (In(m, got[s]) \/ s \in cut \/ crashed)

-----------------------------------------------------------------------------
(* What the documentation says, and the code does not do *)

\* message_handler.go:224: "always broadcast to legacy WS hub": once the
\* handler of a stored message has ended, however it ended, no subscriber of
\* that time that is still being served was skipped.
AlwaysBroadcast ==
  \A m \in Messages : mpc[m] = "panicked" =>
    \A s \in audience[m] \cap Streams :
      spc[s] = "open" /\ s \notin cut => Reached(m, s)

\* ARCHITECTURE.md:454: "All connected WebSocket clients in that channel
\* receive message": unless the client itself goes away.
SocketsReceive ==
  \A m \in Messages, c \in Socks :
    (mpc[m] = "sending" /\ c \in audience[m]) ~> (m \in wgot[c] \/ c \notin open)
=============================================================================
