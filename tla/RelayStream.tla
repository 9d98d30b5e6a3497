----------------------------- MODULE RelayStream -----------------------------
(***************************************************************************)
(* Server-sent events proxied through one tunnel connection                *)
(* (apps/api/internal/relay): handlePublicSSE on the relay server, one per *)
(* public request; the server's read loop, which all streams of the        *)
(* connection share; and the instance's handleSSERequest goroutines.       *)
(*                                                                         *)
(* A chunk is its number in the stream.  Frames of one direction share one *)
(* FIFO websocket; requests in the other direction each get a goroutine,   *)
(* so their order does not matter.  The connection breaks at most once:    *)
(* the next session has a clientConn, and streams, of its own.             *)
(***************************************************************************)
EXTENDS Naturals, Sequences

CONSTANTS
  Streams,    \* public event-stream requests routed to this connection
  Cap,        \* capacity of a stream's chunkCh (256 in the code)
  MaxChunks   \* MaxChunks[s]: bound on the chunks the instance sends on s

ASSUME ConstantsOK == Cap \in Nat \ {0} /\ MaxChunks \in [Streams -> Nat]

VARIABLES
  \* ------------------------------------------------------- the connection
  up,       \* FALSE once either end or the network broke it
  toInst,   \* streams whose request frame is on its way to the instance
  wire,     \* frames on their way to the server
  \* ------------------------------------ relay server, one handler per stream
  h,        \* handlePublicSSE: "idle", "waiting", "streaming", "done"
  ended,    \* why it returned
  startCh,  \* streams with a start message in their channel
  chunkCh,  \* chunkCh[s]: chunks in the stream's channel
  endCh,    \* streams with an end signal in their channel
  pub,      \* the public client: "reading", "stalled" or "gone"
  out,      \* out[s]: chunks written to the public client
  dropped,  \* dropped[s]: chunks the read loop threw away (history)
  \* ------------------------------------------ instance, one goroutine each
  c,        \* handleSSERequest
  sent      \* sent[s]: chunks read from the local response and written

connVars    == <<up, toInst, wire>>
handlerVars == <<h, ended, startCh, chunkCh, endCh>>
pubVars     == <<pub, out, dropped>>
instVars    == <<c, sent>>
vars == <<connVars, handlerVars, pubVars, instVars>>

Frame == [id : Streams, type : {"sse_start", "sse_chunk", "sse_end", "response"},
          n : Nat]

TypeOK ==
  /\ up \in BOOLEAN
  /\ toInst \subseteq Streams
  /\ wire \in Seq(Frame)
  /\ h \in [Streams -> {"idle", "waiting", "streaming", "done"}]
  /\ ended \in [Streams -> {"no", "unroutable", "timeout", "gone", "eof"}]
  /\ startCh \subseteq Streams /\ endCh \subseteq Streams
  /\ chunkCh \in [Streams -> Seq(Nat)]
  /\ \A s \in Streams : Len(chunkCh[s]) <= Cap
  /\ pub \in [Streams -> {"reading", "stalled", "gone"}]
  /\ out \in [Streams -> Seq(Nat)]
  /\ dropped \in [Streams -> SUBSET Nat]
  /\ c \in [Streams -> {"none", "dialing", "reading", "done", "refused", "lost"}]
  /\ sent \in [Streams -> Nat] /\ \A s \in Streams : sent[s] <= MaxChunks[s]

Init ==
  /\ up = TRUE /\ toInst = {} /\ wire = <<>>
  /\ h = [s \in Streams |-> "idle"]
  /\ ended = [s \in Streams |-> "no"]
  /\ startCh = {} /\ endCh = {}
  /\ chunkCh = [s \in Streams |-> <<>>]
  /\ pub = [s \in Streams |-> "reading"]
  /\ out = [s \in Streams |-> <<>>]
  /\ dropped = [s \in Streams |-> {}]
  /\ c = [s \in Streams |-> "none"]
  /\ sent = [s \in Streams |-> 0]

\* The reply channels of s are in the connection's maps.
Registered(s) == h[s] \in {"waiting", "streaming"}

-----------------------------------------------------------------------------
(* handlePublicSSE *)

\* The handler returns; the deferred deletes forget its channels.
Return(s, why) ==
  /\ h' = [h EXCEPT ![s] = "done"]
  /\ ended' = [ended EXCEPT ![s] = why]
  /\ startCh' = startCh \ {s}
  /\ endCh' = endCh \ {s}
  /\ chunkCh' = [chunkCh EXCEPT ![s] = <<>>]

\* The request is written to the tunnel.  On a broken one the write fails
\* (502), or is accepted by the kernel and lost.
Request(s) ==
  /\ h[s] = "idle"
  /\ \/ /\ h' = [h EXCEPT ![s] = "waiting"]
        /\ toInst' = IF up THEN toInst \cup {s} ELSE toInst
        /\ UNCHANGED <<ended, startCh, chunkCh, endCh>>
     \/ /\ ~up
        /\ Return(s, "unroutable")
        /\ UNCHANGED toInst
  /\ UNCHANGED <<up, wire, pubVars, instVars>>

\* Mutant of TakeStart: chunkCh is made when the headers have arrived.
TakeStartEmptiesQueue(s) ==
  /\ h[s] = "waiting" /\ s \in startCh
  /\ h' = [h EXCEPT ![s] = "streaming"]
  /\ startCh' = startCh \ {s}
  /\ chunkCh' = [chunkCh EXCEPT ![s] = <<>>]
  /\ UNCHANGED <<ended, endCh, connVars, pubVars, instVars>>

TakeStart(s) ==
  /\ h[s] = "waiting" /\ s \in startCh
  /\ h' = [h EXCEPT ![s] = "streaming"]
  /\ startCh' = startCh \ {s}
  /\ UNCHANGED <<ended, chunkCh, endCh, connVars, pubVars, instVars>>

\* Mutant of Timeout: the handler trusts a link that is up to bring an answer.
TimeoutWhenDown(s) ==
  /\ h[s] = "waiting" /\ ~up
  /\ Return(s, "timeout")
  /\ UNCHANGED <<connVars, pubVars, instVars>>

Timeout(s) ==
  /\ h[s] = "waiting"
  /\ Return(s, "timeout")
  /\ UNCHANGED <<connVars, pubVars, instVars>>

\* A handler inside w.Write of a stalled client looks at no channel.
Selecting(s) == h[s] = "streaming" /\ pub[s] # "stalled"

\* Mutant of WriteChunk: the chunk leaves the channel only at the next write.
WriteChunkKeepsLast(s) ==
  /\ Selecting(s) /\ chunkCh[s] # <<>>
  /\ out' = [out EXCEPT ![s] = Append(@, Head(chunkCh[s]))]
  /\ chunkCh' = IF out[s] # <<>> /\ out[s][Len(out[s])] = Head(chunkCh[s])
                THEN [chunkCh EXCEPT ![s] = Tail(@)] ELSE chunkCh
  /\ UNCHANGED <<h, ended, startCh, endCh, pub, dropped, connVars, instVars>>

WriteChunk(s) ==
  /\ Selecting(s) /\ chunkCh[s] # <<>>
  /\ out' = [out EXCEPT ![s] = Append(@, Head(chunkCh[s]))]
  /\ chunkCh' = [chunkCh EXCEPT ![s] = Tail(@)]
  /\ UNCHANGED <<h, ended, startCh, endCh, pub, dropped, connVars, instVars>>

\* select may take endCh while chunkCh still holds chunks.
TakeEnd(s) ==
  /\ Selecting(s) /\ s \in endCh
  /\ Return(s, "eof")
  /\ UNCHANGED <<connVars, pubVars, instVars>>

ContextDone(s) ==
  /\ Registered(s) /\ pub[s] = "gone"
  /\ Return(s, "gone")
  /\ UNCHANGED <<connVars, pubVars, instVars>>

-----------------------------------------------------------------------------
(* readLoop: a send to a reply channel that is full, or gone, is skipped. *)

ReadStart(f) ==
  /\ startCh' = IF Registered(f.id) THEN startCh \cup {f.id} ELSE startCh
  /\ UNCHANGED <<chunkCh, endCh, dropped>>

\* Mutant of ReadChunk: a chunk may recreate the entry of a handler that
\* returned.
ReadChunkLate(f) ==
  /\ IF Len(chunkCh[f.id]) < Cap
     THEN /\ chunkCh' = [chunkCh EXCEPT ![f.id] = Append(@, f.n)]
          /\ UNCHANGED dropped
     ELSE /\ dropped' = [dropped EXCEPT ![f.id] = @ \cup {f.n}]
          /\ UNCHANGED chunkCh
  /\ UNCHANGED <<startCh, endCh>>

\* Mutant of ReadChunk: the read loop waits for room instead of dropping.
ReadChunkBlocks(f) ==
  /\ Registered(f.id) => Len(chunkCh[f.id]) < Cap
  /\ chunkCh' = IF Registered(f.id)
                THEN [chunkCh EXCEPT ![f.id] = Append(@, f.n)] ELSE chunkCh
  /\ UNCHANGED <<startCh, endCh, dropped>>

ReadChunk(f) ==
  /\ IF Registered(f.id) /\ Len(chunkCh[f.id]) < Cap
     THEN /\ chunkCh' = [chunkCh EXCEPT ![f.id] = Append(@, f.n)]
          /\ UNCHANGED dropped
     ELSE /\ dropped' = [dropped EXCEPT ![f.id] = @ \cup {f.n}]
          /\ UNCHANGED chunkCh
  /\ UNCHANGED <<startCh, endCh>>

ReadEnd(f) ==
  /\ endCh' = IF Registered(f.id) THEN endCh \cup {f.id} ELSE endCh
  /\ UNCHANGED <<startCh, chunkCh, dropped>>

\* A "response" frame is looked up in pending, where no stream is listed.
ReadFrame ==
  /\ wire # <<>>
  /\ LET f == Head(wire)
     IN \/ f.type = "sse_start" /\ ReadStart(f)
        \/ f.type = "sse_chunk" /\ ReadChunk(f)
        \/ f.type = "sse_end" /\ ReadEnd(f)
        \/ f.type = "response" /\ UNCHANGED <<startCh, chunkCh, endCh, dropped>>
  /\ wire' = Tail(wire)
  /\ UNCHANGED <<up, toInst, h, ended, pub, out, instVars>>

-----------------------------------------------------------------------------
(* The instance *)

\* writeJSON of one frame by the goroutine of s, which then is at `next`.
\* On a broken link the frame is lost; the write may report it.
Write(s, type, n, next) ==
  /\ wire' = IF up THEN Append(wire, [id |-> s, type |-> type, n |-> n]) ELSE wire
  /\ \/ c' = [c EXCEPT ![s] = next]
     \/ ~up /\ c' = [c EXCEPT ![s] = "lost"]
  /\ UNCHANGED <<up, toInst, handlerVars, pubVars>>

Receive(s) ==
  /\ s \in toInst
  /\ toInst' = toInst \ {s}
  /\ c' = [c EXCEPT ![s] = "dialing"]
  /\ UNCHANGED <<up, wire, handlerVars, pubVars, sent>>

\* The local API cannot be reached: a plain response is sent, status 502.
LocalFails(s) ==
  /\ c[s] = "dialing"
  /\ Write(s, "response", 0, "refused")
  /\ UNCHANGED sent

LocalAnswers(s) ==
  /\ c[s] = "dialing"
  /\ Write(s, "sse_start", 0, "reading")
  /\ UNCHANGED sent

LocalChunk(s) ==
  /\ c[s] = "reading" /\ sent[s] < MaxChunks[s]
  /\ sent' = [sent EXCEPT ![s] = @ + 1]
  /\ Write(s, "sse_chunk", sent[s] + 1, "reading")

LocalEnds(s) ==
  /\ c[s] = "reading"
  /\ Write(s, "sse_end", 0, "done")
  /\ UNCHANGED sent

-----------------------------------------------------------------------------
(* The public client and the network *)

\* It stops reading, reads on, or leaves.
ClientTurns(s, from, to) ==
  /\ Registered(s)
  /\ pub[s] \in from
  /\ pub' = [pub EXCEPT ![s] = to]
  /\ UNCHANGED <<out, dropped, connVars, handlerVars, instVars>>

\* Of what is under way, what already reached the other side is still read.
LinkBreaks ==
  /\ up /\ up' = FALSE
  /\ toInst' \in SUBSET toInst
  /\ \E k \in 0..Len(wire) : wire' = SubSeq(wire, 1, k)
  /\ UNCHANGED <<handlerVars, pubVars, instVars>>

Handler(s) ==
  \/ Request(s) \/ TakeStart(s) \/ Timeout(s)
  \/ WriteChunk(s) \/ TakeEnd(s) \/ ContextDone(s)

Instance(s) ==
  \/ Receive(s) \/ LocalFails(s) \/ LocalAnswers(s) \/ LocalChunk(s) \/ LocalEnds(s)

Public(s) ==
  \/ ClientTurns(s, {"reading"}, "stalled")
  \/ ClientTurns(s, {"stalled"}, "reading")
  \/ ClientTurns(s, {"reading", "stalled"}, "gone")

Next == ReadFrame \/ LinkBreaks \/ \E s \in Streams : Handler(s) \/ Instance(s) \/ Public(s)

Spec == Init /\ [][Next]_vars

\* Goroutines that can run do, and a timer that is due fires.  Public
\* clients, the network and the instance's own API owe nothing.
FairSpec ==
  /\ Spec
  /\ WF_vars(ReadFrame)
  /\ \A s \in Streams :
       /\ WF_vars(Receive(s)) /\ WF_vars(TakeStart(s)) /\ WF_vars(Timeout(s))
       /\ WF_vars(WriteChunk(s)) /\ WF_vars(TakeEnd(s)) /\ WF_vars(ContextDone(s))

-----------------------------------------------------------------------------
(* Properties *)

Carries(f, s) == f.id = s /\ f.type = "sse_chunk"
Holds(q, n) == \E i \in DOMAIN q : q[i] = n
Ascending(q) == \A i, j \in DOMAIN q : i < j => q[i] < q[j]
Below(q, m) == \A i \in DOMAIN q : q[i] < m

OnWire(s, n) == \E i \in DOMAIN wire : Carries(wire[i], s) /\ wire[i].n = n

FramesOrdered ==
  \A i \in DOMAIN wire : \A s \in Streams : Carries(wire[i], s) =>
    /\ wire[i].n \in 1..sent[s]
    /\ Below(chunkCh[s], wire[i].n) /\ Below(out[s], wire[i].n)
    /\ \A j \in DOMAIN wire : i < j /\ Carries(wire[j], s) => wire[i].n < wire[j].n

QueuesOrdered ==
  \A s \in Streams :
    /\ Ascending(chunkCh[s]) /\ Ascending(out[s])
    /\ \A i \in DOMAIN chunkCh[s] : chunkCh[s][i] \in 1..sent[s] /\ Below(out[s], chunkCh[s][i])
    /\ \A i \in DOMAIN out[s] : out[s][i] \in 1..sent[s]

ChannelsForgotten ==
  \A s \in Streams : ~Registered(s) => s \notin startCh \cup endCh /\ chunkCh[s] = <<>>

NotYetAsked ==
  \A s \in Streams : h[s] = "idle" => s \notin toInst /\ c[s] = "none" /\ sent[s] = 0

\* The inductive invariant: from the instance to the public client, the wire,
\* the stream's channel and the response hold ascending chunk numbers, each
\* stage behind the next; and a handler that returned left nothing behind,
\* however late its stream's frames arrive (readLoop, handlePublicSSE), and
\* one that has not begun has nothing under way.
StreamInv ==
  TypeOK /\ FramesOrdered /\ QueuesOrdered /\ ChannelsForgotten /\ NotYetAsked

\* While the link is up and the public request is being served, every chunk
\* the instance sent is in flight, queued, written, or one the read loop
\* dropped because the queue was full: no other step loses data.
AccountedFor ==
  \A s \in Streams : up /\ Registered(s) =>
    \A n \in 1..sent[s] :
      \/ n \in dropped[s] \/ Holds(chunkCh[s], n) \/ Holds(out[s], n)
      \/ OnWire(s, n)

\* Each proxied stream is a LossyStream: what handlePublicSSE writes is an
\* ascending selection of what handleSSERequest sent, until it returns.
Lossy(s) == INSTANCE LossyStream
              WITH sent <- sent[s], got <- out[s], closed <- h[s] = "done"
ImplementsLossyStream ==
  /\ \A s \in Streams : Lossy(s)!Init
  /\ [][\A s \in Streams : [Lossy(s)!Next]_(Lossy(s)!vars)]_vars

\* Every public request is answered: with the instance's headers, or, when
\* these do not come (the link broke, the local API is down, or is late),
\* with a status of the relay's own.
Answered == \A s \in Streams : h[s] = "waiting" ~> h[s] # "waiting"

\* Once the instance has ended a stream, its public response ends too, as
\* long as the link holds and its own client reads, whatever the clients of
\* the other streams of the connection do: one that stalls fills its own
\* channel and never the read loop.
EndsWithInstance ==
  \A s \in Streams :
    (c[s] = "done" /\ Registered(s) /\ up) ~> (h[s] = "done" \/ pub[s] = "stalled" \/ ~up)
=============================================================================
