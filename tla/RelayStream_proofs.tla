------------------------- MODULE RelayStream_proofs -------------------------
(***************************************************************************)
(* RelayStream for every set of streams, every queue capacity and every    *)
(* number of chunks: its inductive invariant, what may lose a chunk, and   *)
(* that each proxied stream implements LossyStream and so keeps what the   *)
(* abstract one promises.                                                  *)
(***************************************************************************)
EXTENDS RelayStream, TLAPS

-----------------------------------------------------------------------------
(* Sequences *)

LEMMA AppendIs ==
  ASSUME NEW S, NEW q \in Seq(S), NEW e \in S
  PROVE  /\ Append(q, e) \in Seq(S)
         /\ DOMAIN Append(q, e) = 1..(Len(q) + 1)
         /\ DOMAIN q = 1..Len(q) /\ Len(q) \in Nat
         /\ \A i \in DOMAIN q : Append(q, e)[i] = q[i]
         /\ Append(q, e)[Len(q) + 1] = e
  OBVIOUS

LEMMA TailIs ==
  ASSUME NEW S, NEW q \in Seq(S), q # <<>>
  PROVE  /\ Tail(q) \in Seq(S) /\ Head(q) = q[1] /\ q[1] \in S
         /\ Len(q) \in Nat \ {0} /\ Len(Tail(q)) = Len(q) - 1
         /\ DOMAIN q = 1..Len(q) /\ DOMAIN Tail(q) = 1..(Len(q) - 1)
         /\ \A i \in DOMAIN Tail(q) : i + 1 \in DOMAIN q /\ Tail(q)[i] = q[i + 1]
  OBVIOUS

LEMMA PrefixIs ==
  ASSUME NEW S, NEW q \in Seq(S), NEW k \in 0..Len(q)
  PROVE  /\ SubSeq(q, 1, k) \in Seq(S)
         /\ DOMAIN SubSeq(q, 1, k) = 1..k /\ 1..k \subseteq DOMAIN q
         /\ \A i \in 1..k : SubSeq(q, 1, k)[i] = q[i]
  OBVIOUS

\* Appending to an ascending sequence what is above it keeps it ascending.
LEMMA AscendingAppend ==
  ASSUME NEW q \in Seq(Nat), NEW n \in Nat, Ascending(q), Below(q, n)
  PROVE  Ascending(Append(q, n))
  BY AppendIs DEF Ascending, Below

LEMMA AscendingTail ==
  ASSUME NEW q \in Seq(Nat), q # <<>>, Ascending(q)
  PROVE  /\ Ascending(Tail(q))
         /\ \A i \in DOMAIN Tail(q) : Head(q) < Tail(q)[i]
  BY TailIs, SMTT(60) DEF Ascending

LEMMA BelowAppend ==
  ASSUME NEW q \in Seq(Nat), NEW n \in Nat, NEW m \in Nat, Below(q, m), n < m
  PROVE  Below(Append(q, n), m)
  BY AppendIs DEF Below

LEMMA BelowTail ==
  ASSUME NEW q \in Seq(Nat), q # <<>>, NEW m \in Nat, Below(q, m)
  PROVE  Below(Tail(q), m) /\ Head(q) < m
  BY TailIs DEF Below

LEMMA FrameIs ==
  ASSUME NEW w \in Seq(Frame), NEW i \in DOMAIN w
  PROVE  w[i].n \in Nat /\ w[i].id \in Streams
<1>1. w[i] \in Frame
  OBVIOUS
<1>. QED
  BY <1>1 DEF Frame

-----------------------------------------------------------------------------
(* The inductive invariant *)

\* A step that moves no chunk has only types and forgotten channels to show.
LEMMA NoChunkMoves ==
  ASSUME StreamInv, TypeOK', ChannelsForgotten', NotYetAsked', UNCHANGED <<wire, sent, chunkCh, out>>
  PROVE  StreamInv'
<1>1. FramesOrdered'
  BY DEF StreamInv, FramesOrdered, Carries, Below
<1>2. QueuesOrdered'
  BY DEF StreamInv, QueuesOrdered, Ascending, Below
<1>. QED
  BY <1>1, <1>2 DEF StreamInv

LEMMA StreamInit == Init => StreamInv
<1> SUFFICES ASSUME Init PROVE StreamInv
  OBVIOUS
<1>1. TypeOK
  BY ConstantsOK DEF Init, ConstantsOK, TypeOK
<1>. QED
  BY <1>1 DEF Init, StreamInv, FramesOrdered, QueuesOrdered, ChannelsForgotten, NotYetAsked,
              Ascending, Below, Registered

\* A handler that returns empties its channels and touches nothing else.
LEMMA ReturnKeepsInv ==
  ASSUME StreamInv, NEW s \in Streams, Return(s, "gone") \/ Return(s, "timeout")
           \/ Return(s, "eof") \/ Return(s, "unroutable"),
         UNCHANGED <<connVars, pubVars, instVars>>
  PROVE  StreamInv'
<1> USE DEF StreamInv, connVars, pubVars, instVars, Return
<1>1. /\ h' \in [Streams -> {"idle", "waiting", "streaming", "done"}]
      /\ ended' \in [Streams -> {"no", "unroutable", "timeout", "gone", "eof"}]
      /\ startCh' \subseteq Streams /\ endCh' \subseteq Streams
  BY DEF TypeOK
<1>7. chunkCh' = [chunkCh EXCEPT ![s] = <<>>] /\ chunkCh \in [Streams -> Seq(Nat)]
  BY DEF TypeOK
<1>8. <<>> \in Seq(Nat) /\ Len(<<>>) = 0 /\ DOMAIN <<>> = {}
  OBVIOUS
<1>2. /\ chunkCh' \in [Streams -> Seq(Nat)]
      /\ chunkCh'[s] = <<>> /\ Len(chunkCh'[s]) = 0 /\ DOMAIN chunkCh'[s] = {}
      /\ \A r \in Streams \ {s} : chunkCh'[r] = chunkCh[r]
  BY <1>7, <1>8
<1>9. \A r \in Streams : Len(chunkCh'[r]) <= Cap
  <2>1. 0 <= Cap /\ \A r \in Streams : Len(chunkCh[r]) <= Cap
    BY ConstantsOK DEF TypeOK, ConstantsOK
  <2>. QED
    BY <1>2, <2>1
<1>6. TypeOK'
  BY <1>1, <1>2, <1>9 DEF TypeOK
<1>3. FramesOrdered'
  <2>1. \A r \in Streams : \A m : Below(chunkCh[r], m) => Below(chunkCh'[r], m)
    BY <1>2 DEF Below
  <2>2. wire' = wire /\ sent' = sent /\ out' = out
    OBVIOUS
  <2>. QED
    BY <2>1, <2>2 DEF FramesOrdered, Carries, Below
<1>4. QueuesOrdered'
  BY <1>2 DEF QueuesOrdered, Ascending, Below
<1>5. ChannelsForgotten'
  <2>1. /\ s \notin startCh' \cup endCh' /\ chunkCh'[s] = <<>>
        /\ startCh' \subseteq startCh /\ endCh' \subseteq endCh
    BY <1>2
  <2>2. ASSUME NEW r \in Streams, r # s
        PROVE  h'[r] = h[r] /\ chunkCh'[r] = chunkCh[r]
    BY <1>2, <2>2 DEF TypeOK
  <2>3. \A r \in Streams : ~Registered(r) => r \notin startCh \cup endCh /\ chunkCh[r] = <<>>
    BY DEF ChannelsForgotten
  <2>4. ASSUME NEW r \in Streams, ~Registered(r)'
        PROVE  r \notin startCh' \cup endCh' /\ chunkCh'[r] = <<>>
    <3>1. CASE r = s
      BY <3>1, <2>1
    <3>2. CASE r # s
      BY <3>2, <2>1, <2>2, <2>3, <2>4 DEF Registered
    <3>. QED
      BY <3>1, <3>2
  <2>. QED
    BY <2>4 DEF ChannelsForgotten
<1>10. NotYetAsked'
  <2>1. h' = [h EXCEPT ![s] = "done"] /\ UNCHANGED <<toInst, c, sent>>
    OBVIOUS
  <2>. QED
    BY <2>1 DEF NotYetAsked, TypeOK
<1>. QED
  BY <1>3, <1>4, <1>5, <1>6, <1>10

\* A frame the instance writes is behind all others and not yet sent.
LEMMA WriteKeepsInv ==
  ASSUME StreamInv, NEW s \in Streams, NEW type, NEW n \in Nat, NEW next,
         Write(s, type, n, next),
         \/ type \in {"sse_start", "sse_end", "response"} /\ sent' = sent
         \/ /\ type = "sse_chunk" /\ n = sent[s] + 1 /\ sent[s] < MaxChunks[s]
            /\ sent' = [sent EXCEPT ![s] = @ + 1],
         next \in {"refused", "reading", "done"}, c[s] # "none"
  PROVE  StreamInv'
<1> USE DEF StreamInv, handlerVars, pubVars, Write
<1> DEFINE f == [id |-> s, type |-> type, n |-> n]
<1>1. f \in Frame
  BY DEF Frame
<1>2. wire \in Seq(Frame) /\ sent \in [Streams -> Nat]
  BY DEF TypeOK
<1>3. wire' = wire \/ wire' = Append(wire, f)
  OBVIOUS
<1>4. wire' \in Seq(Frame)
  BY <1>1, <1>2, <1>3, AppendIs
<1>5. sent' \in [Streams -> Nat] /\ \A r \in Streams : sent[r] <= sent'[r] /\ sent'[r] <= MaxChunks[r]
  <2>1. /\ MaxChunks \in [Streams -> Nat]
        /\ \A r \in Streams : sent[r] \in Nat /\ sent[r] <= MaxChunks[r] /\ MaxChunks[r] \in Nat
    BY ConstantsOK DEF TypeOK, ConstantsOK
  <2>2. CASE sent' = sent
    BY <2>1, <2>2, <1>2
  <2>3. CASE sent[s] < MaxChunks[s] /\ sent' = [sent EXCEPT ![s] = @ + 1]
    BY <2>1, <2>3, <1>2
  <2>. QED
    BY <2>2, <2>3
<1>6. c' \in [Streams -> {"none", "dialing", "reading", "done", "refused", "lost"}]
  BY DEF TypeOK
<1>7. TypeOK'
  BY <1>4, <1>5, <1>6 DEF TypeOK
<1>8. FramesOrdered'
  <2>1. CASE wire' = wire
    <3>1. \A r \in Streams : sent[r] \in Nat /\ sent'[r] \in Nat /\ sent[r] <= sent'[r]
      BY <1>2, <1>5
    <3>2. \A r \in Streams : \A m \in 1..sent[r] : m \in 1..sent'[r]
      BY <3>1
    <3>. QED
      BY <2>1, <3>2, ZenonT(60) DEF FramesOrdered, Carries, Below
  <2>2. CASE wire' = Append(wire, f)
    <3>1. /\ DOMAIN wire' = 1..(Len(wire) + 1) /\ DOMAIN wire = 1..Len(wire) /\ Len(wire) \in Nat
          /\ \A i \in DOMAIN wire : wire'[i] = wire[i] /\ wire'[i] \in Frame
          /\ wire'[Len(wire) + 1] = f
      BY <2>2, <1>1, <1>2, AppendIs
    <3> SUFFICES ASSUME NEW i \in DOMAIN wire', NEW r \in Streams, Carries(wire'[i], r)
                 PROVE  /\ wire'[i].n \in 1..sent'[r]
                        /\ Below(chunkCh'[r], wire'[i].n) /\ Below(out'[r], wire'[i].n)
                        /\ \A j \in DOMAIN wire' : i < j /\ Carries(wire'[j], r) =>
                             wire'[i].n < wire'[j].n
      BY DEF FramesOrdered, Carries, Below
    <3>2. CASE i \in DOMAIN wire
      <4>1. /\ wire[i].n \in 1..sent[r]
            /\ Below(chunkCh[r], wire[i].n) /\ Below(out[r], wire[i].n)
            /\ \A j \in DOMAIN wire : i < j /\ Carries(wire[j], r) => wire[i].n < wire[j].n
        BY <3>1, <3>2 DEF FramesOrdered
      <4>2. wire'[i].n \in 1..sent'[r]
        BY <4>1, <3>1, <3>2, <1>2, <1>5
      <4>3. ASSUME Carries(f, r) PROVE wire[i].n < f.n
        BY <4>3, <4>1, <1>2 DEF Carries
      <4>. QED
        BY <4>1, <4>2, <4>3, <3>1, <3>2
    <3>3. CASE i = Len(wire) + 1
      <4>1. r = s /\ type = "sse_chunk" /\ f.n = sent[s] + 1 /\ sent'[s] = sent[s] + 1 /\ f.n = wire'[i].n
        BY <3>1, <3>3, <1>2 DEF Carries
      <4>2. Below(chunkCh[s], sent[s] + 1) /\ Below(out[s], sent[s] + 1)
        BY <1>2, SMTT(60) DEF QueuesOrdered, TypeOK, Below
      <4>. QED
        BY <4>1, <4>2, <3>1, <3>3, <1>2
    <3>. QED
      BY <3>1, <3>2, <3>3
  <2>. QED
    BY <2>1, <2>2, <1>3
<1>9. QueuesOrdered'
  BY <1>5, <1>2, SMTT(60) DEF QueuesOrdered, Ascending, Below, TypeOK
<1>10. ChannelsForgotten'
  BY DEF ChannelsForgotten, Registered
<1>11. NotYetAsked'
  BY DEF NotYetAsked, TypeOK
<1>. QED
  BY <1>7, <1>8, <1>9, <1>10, <1>11

\* readLoop moves the first frame of the wire to its stream's channel, or
\* throws it away.
LEMMA ReadKeepsInv == StreamInv /\ ReadFrame => StreamInv'
<1> SUFFICES ASSUME StreamInv, ReadFrame PROVE StreamInv'
  OBVIOUS
<1> USE DEF StreamInv, instVars
<1> DEFINE f == Head(wire)
<1>1. /\ wire \in Seq(Frame) /\ wire # <<>> /\ wire' = Tail(wire)
      /\ UNCHANGED <<up, toInst, h, ended, pub, out, c, sent>>
  BY DEF ReadFrame, TypeOK
<1>2. /\ wire' \in Seq(Frame) /\ f = wire[1] /\ f \in Frame
      /\ Len(wire) \in Nat \ {0}
      /\ DOMAIN wire = 1..Len(wire) /\ DOMAIN wire' = 1..(Len(wire) - 1)
      /\ \A i \in DOMAIN wire' : i + 1 \in DOMAIN wire /\ wire'[i] = wire[i + 1]
  BY <1>1, TailIs
<1>3. f.id \in Streams /\ f.n \in Nat
  BY <1>2 DEF Frame
<1>9. ASSUME NEW i \in DOMAIN wire', NEW r \in Streams, Carries(wire'[i], r)
      PROVE  /\ wire'[i].n \in 1..sent[r]
             /\ Below(chunkCh[r], wire'[i].n) /\ Below(out[r], wire'[i].n)
             /\ \A j \in DOMAIN wire' : i < j /\ Carries(wire'[j], r) => wire'[i].n < wire'[j].n
  BY <1>2, <1>9 DEF FramesOrdered
<1>4. ASSUME chunkCh' = chunkCh PROVE FramesOrdered' /\ QueuesOrdered'
  <2>1. FramesOrdered'
    BY <1>1, <1>4, <1>9, ZenonT(60) DEF FramesOrdered, Carries, Below
  <2>2. QueuesOrdered'
    BY <1>1, <1>4 DEF QueuesOrdered, Ascending, Below
  <2>. QED
    BY <2>1, <2>2
<1>5. CASE f.type = "sse_start" /\ ReadStart(f)
  <2>1. TypeOK' /\ ChannelsForgotten' /\ NotYetAsked'
    BY <1>1, <1>2, <1>3, <1>5 DEF ReadStart, TypeOK, ChannelsForgotten, NotYetAsked, Registered
  <2>. QED
    BY <1>4, <1>5, <2>1 DEF ReadStart
<1>6. CASE f.type = "sse_end" /\ ReadEnd(f)
  <2>1. TypeOK' /\ ChannelsForgotten' /\ NotYetAsked'
    BY <1>1, <1>2, <1>3, <1>6 DEF ReadEnd, TypeOK, ChannelsForgotten, NotYetAsked, Registered
  <2>. QED
    BY <1>4, <1>6, <2>1 DEF ReadEnd
<1>7. CASE f.type = "response" /\ UNCHANGED <<startCh, chunkCh, endCh, dropped>>
  <2>1. TypeOK' /\ ChannelsForgotten' /\ NotYetAsked'
    BY <1>1, <1>2, <1>7 DEF TypeOK, ChannelsForgotten, NotYetAsked, Registered
  <2>. QED
    BY <1>4, <1>7, <2>1
<1>8. CASE f.type = "sse_chunk" /\ ReadChunk(f)
  <2> DEFINE s == f.id
  <2>1. CASE chunkCh' = chunkCh /\ dropped' = [dropped EXCEPT ![s] = @ \cup {f.n}]
               /\ UNCHANGED <<startCh, endCh>>
    <3>1. TypeOK' /\ ChannelsForgotten' /\ NotYetAsked'
      BY <1>1, <1>2, <1>3, <2>1 DEF TypeOK, ChannelsForgotten, NotYetAsked, Registered
    <3>. QED
      BY <1>4, <2>1, <3>1
  <2>2. CASE /\ Registered(s) /\ Len(chunkCh[s]) < Cap /\ UNCHANGED <<startCh, endCh, dropped>>
             /\ chunkCh' = [chunkCh EXCEPT ![s] = Append(@, f.n)]
    <3>1. chunkCh[s] \in Seq(Nat) /\ chunkCh \in [Streams -> Seq(Nat)] /\ out[s] \in Seq(Nat)
      BY <1>3 DEF TypeOK
    <3>2. /\ chunkCh' \in [Streams -> Seq(Nat)] /\ chunkCh'[s] = Append(chunkCh[s], f.n)
          /\ \A r \in Streams \ {s} : chunkCh'[r] = chunkCh[r]
      BY <1>3, <2>2, <3>1, AppendIs
    <3>3. /\ f.n \in 1..sent[s]
          /\ Below(chunkCh[s], f.n) /\ Below(out[s], f.n)
          /\ \A j \in DOMAIN wire : 1 < j /\ Carries(wire[j], s) => f.n < wire[j].n
      BY <1>2, <1>3, <1>8 DEF FramesOrdered, Carries
    <3>4. /\ DOMAIN chunkCh[s] = 1..Len(chunkCh[s]) /\ Len(chunkCh[s]) \in Nat
          /\ DOMAIN chunkCh'[s] = 1..(Len(chunkCh[s]) + 1)
          /\ \A i \in DOMAIN chunkCh[s] : chunkCh'[s][i] = chunkCh[s][i]
          /\ chunkCh'[s][Len(chunkCh[s]) + 1] = f.n
          /\ Len(chunkCh'[s]) = Len(chunkCh[s]) + 1
      BY <3>1, <3>2, <1>3, AppendIs
    <3>5. TypeOK'
      <4>1. \A r \in Streams : Len(chunkCh'[r]) <= Cap
        <5>1. Cap \in Nat /\ \A r \in Streams : Len(chunkCh[r]) <= Cap
          BY ConstantsOK DEF TypeOK, ConstantsOK
        <5>. QED
          BY <5>1, <2>2, <3>2, <3>4
      <4>. QED
        BY <1>1, <1>2, <2>2, <3>2, <4>1 DEF TypeOK
    <3>6. ASSUME NEW i \in DOMAIN wire', NEW r \in Streams, Carries(wire'[i], r)
          PROVE  /\ wire'[i].n \in 1..sent'[r]
                 /\ Below(chunkCh'[r], wire'[i].n) /\ Below(out'[r], wire'[i].n)
                 /\ \A j \in DOMAIN wire' : i < j /\ Carries(wire'[j], r) => wire'[i].n < wire'[j].n
      <4>1. /\ wire'[i].n \in 1..sent[r]
            /\ Below(chunkCh[r], wire'[i].n) /\ Below(out[r], wire'[i].n)
            /\ \A j \in DOMAIN wire' : i < j /\ Carries(wire'[j], r) => wire'[i].n < wire'[j].n
        BY <1>9, <3>6
      <4>2. Below(chunkCh'[r], wire'[i].n)
        <5>1. CASE r = s
          <6>1. f.n < wire'[i].n
            BY <1>2, <3>3, <3>6, <5>1
          <6>2. wire'[i].n \in Nat
            BY <1>2, FrameIs
          <6>3. Below(Append(chunkCh[s], f.n), wire'[i].n)
            BY <5>1, <6>1, <6>2, <4>1, <3>1, <1>3, BelowAppend
          <6>. QED
            BY <5>1, <6>3, <3>2
        <5>. QED
          BY <5>1, <4>1, <3>2
      <4>. QED
        BY <4>1, <4>2, <1>1
    <3>7. FramesOrdered'
      BY <3>6 DEF FramesOrdered, Carries, Below
    <3>8. QueuesOrdered'
      <4>1. Ascending(chunkCh'[s])
        BY <3>1, <3>2, <3>3, <1>3, AscendingAppend DEF QueuesOrdered
      <4>2. \A i \in DOMAIN chunkCh'[s] : chunkCh'[s][i] \in 1..sent[s] /\ Below(out[s], chunkCh'[s][i])
        BY <3>3, <3>4, <1>3, SMTT(60) DEF QueuesOrdered
      <4>. QED
        BY <4>1, <4>2, <3>2, <1>1 DEF QueuesOrdered, Ascending, Below
    <3>9. ChannelsForgotten' /\ NotYetAsked'
      BY <1>1, <2>2, <3>2 DEF ChannelsForgotten, NotYetAsked, Registered
    <3>. QED
      BY <3>5, <3>7, <3>8, <3>9
  <2>. QED
    BY <2>1, <2>2, <1>8 DEF ReadChunk
<1>. QED
  BY <1>5, <1>6, <1>7, <1>8 DEF ReadFrame

\* WriteChunk moves the first chunk of the channel to the response.
LEMMA WriteChunkKeepsInv ==
  ASSUME StreamInv, NEW s \in Streams, WriteChunk(s)
  PROVE  StreamInv'
<1> USE DEF StreamInv, connVars, instVars
<1> DEFINE q == chunkCh[s]
           n == Head(q)
<1>1. /\ chunkCh \in [Streams -> Seq(Nat)] /\ out \in [Streams -> Seq(Nat)]
      /\ q \in Seq(Nat) /\ q # <<>> /\ out[s] \in Seq(Nat)
      /\ h[s] = "streaming"
      /\ UNCHANGED <<h, ended, startCh, endCh, pub, dropped, up, toInst, wire, c, sent>>
      /\ out' = [out EXCEPT ![s] = Append(@, n)]
      /\ chunkCh' = [chunkCh EXCEPT ![s] = Tail(@)]
  BY DEF WriteChunk, Selecting, TypeOK
<1>2. /\ n \in Nat /\ n = q[1] /\ Tail(q) \in Seq(Nat) /\ 1 \in DOMAIN q
      /\ Len(q) \in Nat /\ Len(Tail(q)) = Len(q) - 1
      /\ \A i \in DOMAIN Tail(q) : i + 1 \in DOMAIN q /\ Tail(q)[i] = q[i + 1]
  BY <1>1, TailIs
<1>3. /\ chunkCh'[s] = Tail(q) /\ out'[s] = Append(out[s], n)
      /\ \A r \in Streams \ {s} : chunkCh'[r] = chunkCh[r] /\ out'[r] = out[r]
  BY <1>1
<1>4. chunkCh' \in [Streams -> Seq(Nat)] /\ out' \in [Streams -> Seq(Nat)]
  BY <1>1, <1>2, AppendIs
<1>5. Ascending(q) /\ Ascending(out[s]) /\ n \in 1..sent[s] /\ Below(out[s], n)
  BY <1>2 DEF QueuesOrdered
<1>6. Ascending(Tail(q)) /\ \A i \in DOMAIN Tail(q) : n < Tail(q)[i]
  BY <1>1, <1>5, AscendingTail
<1>7. TypeOK'
  <2>1. \A r \in Streams : Len(chunkCh'[r]) <= Cap
    <3>1. Cap \in Nat /\ \A r \in Streams : Len(chunkCh[r]) <= Cap
      BY ConstantsOK DEF TypeOK, ConstantsOK
    <3>2. Len(Tail(q)) <= Cap
      BY <3>1, <1>2
    <3>. QED
      BY <3>1, <3>2, <1>3
  <2>. QED
    BY <1>1, <1>4, <2>1 DEF TypeOK
<1>8. ASSUME NEW i \in DOMAIN wire, Carries(wire[i], s)
      PROVE  Below(Tail(q), wire[i].n) /\ Below(Append(out[s], n), wire[i].n)
  <2>1. wire[i].n \in Nat /\ Below(q, wire[i].n) /\ Below(out[s], wire[i].n)
    <3>1. wire \in Seq(Frame)
      BY DEF TypeOK
    <3>. QED
      BY <3>1, <1>8, FrameIs DEF FramesOrdered
  <2>2. Below(Tail(q), wire[i].n) /\ n < wire[i].n
    BY <2>1, <1>1, BelowTail
  <2>. QED
    BY <2>1, <2>2, <1>1, <1>2, BelowAppend
<1>11. FramesOrdered'
  <2>1. ASSUME NEW i \in DOMAIN wire, NEW r \in Streams, Carries(wire[i], r)
        PROVE  Below(chunkCh'[r], wire[i].n) /\ Below(out'[r], wire[i].n)
    BY <2>1, <1>3, <1>8 DEF FramesOrdered
  <2>. QED
    BY <2>1, <1>1, SMTT(60) DEF FramesOrdered, Carries
<1>9. QueuesOrdered'
  <2>1. Ascending(Append(out[s], n))
    BY <1>1, <1>2, <1>5, AscendingAppend
  <2>2. \A i \in DOMAIN Tail(q) : Tail(q)[i] \in 1..sent[s] /\ Below(Append(out[s], n), Tail(q)[i])
    <3> SUFFICES ASSUME NEW i \in DOMAIN Tail(q)
                 PROVE  Tail(q)[i] \in 1..sent[s] /\ Below(Append(out[s], n), Tail(q)[i])
      OBVIOUS
    <3>1. Tail(q)[i] \in 1..sent[s] /\ Below(out[s], Tail(q)[i]) /\ Tail(q)[i] \in Nat
      BY <1>1, <1>2 DEF QueuesOrdered
    <3>. QED
      BY <3>1, <1>1, <1>2, <1>6, BelowAppend
  <2>3. \A i \in DOMAIN Append(out[s], n) : Append(out[s], n)[i] \in 1..sent[s]
    BY <1>1, <1>2, <1>5, AppendIs DEF QueuesOrdered
  <2>. QED
    BY <2>1, <2>2, <2>3, <1>1, <1>3, <1>6, ZenonT(60) DEF QueuesOrdered, Ascending, Below
<1>10. ChannelsForgotten' /\ NotYetAsked'
  BY <1>1, <1>3 DEF ChannelsForgotten, NotYetAsked, Registered
<1>. QED
  BY <1>7, <1>9, <1>10, <1>11

\* What is left of the wire after a break is a prefix of it.
LEMMA BreakKeepsInv == StreamInv /\ LinkBreaks => StreamInv'
<1> SUFFICES ASSUME StreamInv, LinkBreaks PROVE StreamInv'
  OBVIOUS
<1> USE DEF StreamInv, handlerVars, pubVars, instVars
<1>1. PICK k \in 0..Len(wire) : wire' = SubSeq(wire, 1, k)
  BY DEF LinkBreaks
<1>2. wire \in Seq(Frame)
  BY DEF TypeOK
<1>3. /\ wire' \in Seq(Frame) /\ DOMAIN wire' \subseteq DOMAIN wire
      /\ \A i \in DOMAIN wire' : wire'[i] = wire[i]
  BY <1>1, <1>2, PrefixIs
<1>4. UNCHANGED <<h, ended, startCh, chunkCh, endCh, pub, out, dropped, c, sent>>
      /\ up' = FALSE /\ toInst' \subseteq toInst
  BY DEF LinkBreaks
<1>5. TypeOK'
  BY <1>3, <1>4 DEF TypeOK
<1>6. FramesOrdered'
  BY <1>3, <1>4, ZenonT(60) DEF FramesOrdered, Carries, Below
<1>7. QueuesOrdered' /\ ChannelsForgotten' /\ NotYetAsked'
  BY <1>4 DEF QueuesOrdered, ChannelsForgotten, NotYetAsked, Ascending, Below, Registered
<1>. QED
  BY <1>5, <1>6, <1>7

\* Every step preserves the invariant, one case per action.
LEMMA StreamStep == StreamInv /\ [Next]_vars => StreamInv'
<1> SUFFICES ASSUME StreamInv, [Next]_vars PROVE StreamInv'
  OBVIOUS
<1>1. CASE ReadFrame
  BY <1>1, ReadKeepsInv
<1>2. CASE LinkBreaks
  BY <1>2, BreakKeepsInv
<1>3. ASSUME NEW s \in Streams, Handler(s) PROVE StreamInv'
  <2>1. CASE Request(s)
    <3>1. CASE h' = [h EXCEPT ![s] = "waiting"] /\ toInst' \subseteq toInst \cup {s}
               /\ UNCHANGED <<ended, startCh, chunkCh, endCh>>
      <4>1. TypeOK' /\ ChannelsForgotten' /\ NotYetAsked'
        BY <2>1, <3>1 DEF Request, StreamInv, TypeOK, ChannelsForgotten, NotYetAsked, Registered, pubVars, instVars
      <4>. QED
        BY <2>1, <3>1, <4>1, NoChunkMoves DEF Request, pubVars, instVars
    <3>2. CASE Return(s, "unroutable") /\ UNCHANGED toInst
      BY <2>1, <3>2, ReturnKeepsInv DEF Request, connVars
    <3>. QED
      BY <2>1, <3>1, <3>2 DEF Request
  <2>2. CASE TakeStart(s)
    <3>1. TypeOK' /\ ChannelsForgotten' /\ NotYetAsked'
      BY <2>2 DEF TakeStart, StreamInv, TypeOK, ChannelsForgotten, NotYetAsked, Registered, connVars, pubVars, instVars
    <3>. QED
      BY <2>2, <3>1, NoChunkMoves DEF TakeStart, connVars, pubVars, instVars
  <2>3. CASE Timeout(s)
    BY <2>3, ReturnKeepsInv DEF Timeout
  <2>4. CASE WriteChunk(s)
    BY <2>4, WriteChunkKeepsInv
  <2>5. CASE TakeEnd(s)
    BY <2>5, ReturnKeepsInv DEF TakeEnd
  <2>6. CASE ContextDone(s)
    BY <2>6, ReturnKeepsInv DEF ContextDone
  <2>. QED
    BY <1>3, <2>1, <2>2, <2>3, <2>4, <2>5, <2>6 DEF Handler
<1>4. ASSUME NEW s \in Streams, Instance(s) PROVE StreamInv'
  <2>1. CASE Receive(s)
    <3>1. TypeOK' /\ ChannelsForgotten' /\ NotYetAsked'
      BY <2>1 DEF Receive, StreamInv, TypeOK, ChannelsForgotten, NotYetAsked, Registered, handlerVars, pubVars
    <3>. QED
      BY <2>1, <3>1, NoChunkMoves DEF Receive, handlerVars, pubVars
  <2>2. CASE LocalFails(s)
    BY <2>2, WriteKeepsInv DEF LocalFails
  <2>3. CASE LocalAnswers(s)
    BY <2>3, WriteKeepsInv DEF LocalAnswers
  <2>4. CASE LocalChunk(s)
    <3>1. sent[s] + 1 \in Nat
      BY DEF StreamInv, TypeOK
    <3>. QED
      BY <2>4, <3>1, WriteKeepsInv DEF LocalChunk
  <2>5. CASE LocalEnds(s)
    BY <2>5, WriteKeepsInv DEF LocalEnds
  <2>. QED
    BY <1>4, <2>1, <2>2, <2>3, <2>4, <2>5 DEF Instance
<1>5. ASSUME NEW s \in Streams, Public(s) PROVE StreamInv'
  <2>1. \E to \in {"reading", "stalled", "gone"} : pub' = [pub EXCEPT ![s] = to]
    BY <1>5 DEF Public, ClientTurns
  <2>2. UNCHANGED <<out, dropped, connVars, handlerVars, instVars>>
    BY <1>5 DEF Public, ClientTurns
  <2>3. TypeOK' /\ ChannelsForgotten' /\ NotYetAsked'
    BY <2>1, <2>2 DEF StreamInv, TypeOK, ChannelsForgotten, NotYetAsked, Registered, connVars, handlerVars, instVars
  <2>. QED
    BY <2>2, <2>3, NoChunkMoves DEF connVars, handlerVars, instVars
<1>6. CASE UNCHANGED vars
  <2>1. TypeOK' /\ ChannelsForgotten' /\ NotYetAsked'
    BY <1>6 DEF vars, StreamInv, TypeOK, ChannelsForgotten, NotYetAsked, Registered, connVars, handlerVars, pubVars, instVars
  <2>. QED
    BY <1>6, <2>1, NoChunkMoves DEF vars, connVars, handlerVars, pubVars, instVars
<1>. QED
  BY <1>1, <1>2, <1>3, <1>4, <1>5, <1>6 DEF Next

\* Chunk numbers ascend from the instance to the public client in every
\* reachable state, for every set of streams and every capacity of chunkCh.
THEOREM StreamInvariant == Spec => []StreamInv
  BY StreamInit, StreamStep, PTL DEF Spec

\* Every variable keeps its type; no chunkCh holds more than its capacity.
THEOREM StreamTypes == Spec => []TypeOK
<1>1. StreamInv => TypeOK
  BY DEF StreamInv
<1>. QED
  BY <1>1, StreamInvariant, PTL

-----------------------------------------------------------------------------
(* Refinement *)

\* Every step is, for each stream, a step of LossyStream or none.
LEMMA LossyStep ==
  ASSUME StreamInv, [Next]_vars, NEW s \in Streams
  PROVE  [Lossy(s)!Next]_(Lossy(s)!vars)
<1> USE DEF Lossy!Next, Lossy!Send, Lossy!Close, Lossy!Deliver, Lossy!vars
<1>1. ASSUME UNCHANGED <<sent, out>>,
             h' = h \/ \E r \in Streams, to \in {"waiting", "streaming", "done"} :
                         h[r] # "done" /\ h' = [h EXCEPT ![r] = to]
      PROVE  [Lossy(s)!Next]_(Lossy(s)!vars)
  <2>1. h[s] = "done" => h'[s] = "done"
    BY <1>1 DEF StreamInv, TypeOK
  <2>2. ((h[s] = "done")' = (h[s] = "done")) \/ ((h[s] = "done") = FALSE /\ (h[s] = "done")' = TRUE)
    BY <2>1
  <2>. QED
    BY <1>1, <2>2
<1>2. ASSUME NEW r \in Streams, WriteChunk(r)
      PROVE  [Lossy(s)!Next]_(Lossy(s)!vars)
  <2>1. /\ h' = h /\ sent' = sent /\ h[r] = "streaming" /\ chunkCh[r] # <<>>
        /\ out' = [out EXCEPT ![r] = Append(@, Head(chunkCh[r]))]
    BY <1>2 DEF WriteChunk, Selecting, instVars
  <2>2. Head(chunkCh[r]) \in 1..sent[r] /\ Below(out[r], Head(chunkCh[r]))
    <3>1. chunkCh[r] \in Seq(Nat)
      BY DEF StreamInv, TypeOK
    <3>2. 1 \in DOMAIN chunkCh[r] /\ Head(chunkCh[r]) = chunkCh[r][1]
      BY <2>1, <3>1, TailIs
    <3>. QED
      BY <3>2 DEF StreamInv, QueuesOrdered
  <2>3. CASE r = s
    <3>1. out'[s] = Append(out[s], Head(chunkCh[s])) /\ h[s] # "done"
      BY <2>1, <2>3 DEF StreamInv, TypeOK
    <3>2. Lossy(s)!Deliver(Head(chunkCh[s]))
      BY <2>1, <2>2, <2>3, <3>1 DEF Below
    <3>. QED
      BY <3>2, <2>2, <2>3
  <2>4. CASE r # s
    BY <2>1, <2>4 DEF StreamInv, TypeOK
  <2>. QED
    BY <2>3, <2>4
<1>3. ASSUME NEW r \in Streams, LocalChunk(r)
      PROVE  [Lossy(s)!Next]_(Lossy(s)!vars)
  <2>1. /\ sent' = [sent EXCEPT ![r] = @ + 1] /\ sent \in [Streams -> Nat]
        /\ h' = h /\ out' = out
    BY <1>3 DEF LocalChunk, Write, handlerVars, pubVars, StreamInv, TypeOK
  <2>. QED
    BY <2>1
<1>4. CASE ReadFrame \/ LinkBreaks \/ UNCHANGED vars
  BY <1>4, <1>1 DEF ReadFrame, LinkBreaks, vars, handlerVars, pubVars, instVars
<1>5. ASSUME NEW r \in Streams, Handler(r)
      PROVE  [Lossy(s)!Next]_(Lossy(s)!vars)
  <2>1. CASE WriteChunk(r)
    BY <2>1, <1>2
  <2>2. CASE Request(r) \/ TakeStart(r) \/ Timeout(r) \/ TakeEnd(r) \/ ContextDone(r)
    <3>1. UNCHANGED <<sent, out>>
      BY <2>2 DEF Request, TakeStart, Timeout, TakeEnd, ContextDone, pubVars, instVars
    <3>2. \E to \in {"waiting", "streaming", "done"} :
            h[r] # "done" /\ h' = [h EXCEPT ![r] = to]
      BY <2>2 DEF Request, TakeStart, Timeout, TakeEnd, ContextDone, Return, Selecting, Registered
    <3>. QED
      BY <3>1, <3>2, <1>1
  <2>. QED
    BY <1>5, <2>1, <2>2 DEF Handler
<1>6. ASSUME NEW r \in Streams, Instance(r)
      PROVE  [Lossy(s)!Next]_(Lossy(s)!vars)
  <2>1. CASE LocalChunk(r)
    BY <2>1, <1>3
  <2>2. CASE Receive(r) \/ LocalFails(r) \/ LocalAnswers(r) \/ LocalEnds(r)
    BY <2>2, <1>1 DEF Receive, LocalFails, LocalAnswers, LocalEnds, Write, handlerVars, pubVars
  <2>. QED
    BY <1>6, <2>1, <2>2 DEF Instance
<1>7. ASSUME NEW r \in Streams, Public(r)
      PROVE  [Lossy(s)!Next]_(Lossy(s)!vars)
  BY <1>7, <1>1 DEF Public, ClientTurns, handlerVars, instVars
<1>. QED
  BY <1>4, <1>5, <1>6, <1>7 DEF Next

\* The relay's proxying of event streams implements LossyStream, stream by
\* stream: an ascending selection of what the instance sent, until the end.
THEOREM RelayImplementsLossyStream == Spec => ImplementsLossyStream
<1>1. Init => \A s \in Streams : Lossy(s)!Init
  BY DEF Init, Lossy!Init
<1>2. StreamInv /\ [Next]_vars => [\A s \in Streams : [Lossy(s)!Next]_(Lossy(s)!vars)]_vars
  BY LossyStep
<1>. QED
  BY <1>1, <1>2, StreamInvariant, PTL DEF Spec, ImplementsLossyStream

\* So what the public client has read, at any moment, is in the order the
\* instance sent it, with nothing twice and nothing of its own making.
THEOREM ReadAsSent == Spec => [](\A s \in Streams : Lossy(s)!InOrder /\ Lossy(s)!FromInstance)
<1>1. StreamInv => \A s \in Streams : Lossy(s)!InOrder /\ Lossy(s)!FromInstance
  BY DEF StreamInv, QueuesOrdered, Ascending, Lossy!InOrder, Lossy!FromInstance
<1>. QED
  BY <1>1, StreamInvariant, PTL

-----------------------------------------------------------------------------
(* Nothing is lost but by a full queue or a broken link *)

LEMMA HoldsAppend ==
  ASSUME NEW q \in Seq(Nat), NEW m \in Nat, NEW n
  PROVE  Holds(Append(q, m), n) <=> Holds(q, n) \/ n = m
<1>1. Len(q) + 1 \in DOMAIN Append(q, m)
  BY AppendIs
<1>. QED
  BY <1>1, AppendIs DEF Holds

LEMMA HoldsTail ==
  ASSUME NEW q \in Seq(Nat), q # <<>>, NEW n
  PROVE  Holds(q, n) => n = Head(q) \/ Holds(Tail(q), n)
<1> SUFFICES ASSUME NEW i \in DOMAIN q, q[i] = n, i # 1
             PROVE  Holds(Tail(q), n)
  BY TailIs DEF Holds
<1>1. i - 1 \in DOMAIN Tail(q) /\ Tail(q)[i - 1] = q[i]
  BY TailIs
<1>. QED
  BY <1>1 DEF Holds

LEMMA AccountedStep ==
  ASSUME StreamInv, AccountedFor, [Next]_vars
  PROVE  AccountedFor'
<1> SUFFICES ASSUME NEW s \in Streams, up', Registered(s)', NEW n \in 1..sent'[s]
             PROVE  \/ n \in dropped'[s] \/ Holds(chunkCh'[s], n) \/ Holds(out'[s], n)
                    \/ OnWire(s, n)'
  BY DEF AccountedFor, Holds
<1> DEFINE Safe == \/ n \in dropped[s] \/ Holds(chunkCh[s], n) \/ Holds(out[s], n)
                   \/ OnWire(s, n)
           Safe2 == \/ n \in dropped'[s] \/ Holds(chunkCh'[s], n) \/ Holds(out'[s], n)
                    \/ OnWire(s, n)'
<1> USE DEF StreamInv
<1>0. /\ wire \in Seq(Frame) /\ sent \in [Streams -> Nat]
      /\ chunkCh \in [Streams -> Seq(Nat)] /\ out \in [Streams -> Seq(Nat)]
      /\ dropped \in [Streams -> SUBSET Nat]
      /\ h \in [Streams -> {"idle", "waiting", "streaming", "done"}]
  BY DEF TypeOK
<1>1. ASSUME up, Registered(s), n \in 1..sent[s] PROVE Safe
  BY <1>1 DEF AccountedFor
\* Steps that move no chunk of s.
<1>2. ASSUME UNCHANGED <<up, wire, sent, out, dropped>>, chunkCh'[s] = chunkCh[s],
             Registered(s)
      PROVE  Safe2
  BY <1>1, <1>2 DEF OnWire, Holds
\* The instance writes a frame.
<1>3. ASSUME NEW r \in Streams, NEW type, NEW m \in Nat, NEW next, Write(r, type, m, next),
             \/ sent' = sent
             \/ type = "sse_chunk" /\ m = sent[r] + 1 /\ sent' = [sent EXCEPT ![r] = @ + 1],
             type \in {"sse_start", "sse_chunk", "sse_end", "response"}
      PROVE  Safe2
  <2> DEFINE f == [id |-> r, type |-> type, n |-> m]
  <2>1. /\ up /\ Registered(s) /\ wire' = Append(wire, f)
        /\ UNCHANGED <<chunkCh, out, dropped>>
    BY <1>3 DEF Write, handlerVars, pubVars, Registered
  <2>2. f \in Frame
    BY <1>3 DEF Frame
  <2>3. /\ \A i \in DOMAIN wire : i \in DOMAIN wire' /\ wire'[i] = wire[i]
        /\ Len(wire) + 1 \in DOMAIN wire' /\ wire'[Len(wire) + 1] = f
    BY <2>1, <2>2, <1>0, AppendIs
  <2>4. CASE n \in 1..sent[s]
    <3>1. Safe
      BY <2>1, <2>4, <1>1
    <3>2. OnWire(s, n) => OnWire(s, n)'
      BY <2>3 DEF OnWire
    <3>. QED
      BY <2>1, <3>1, <3>2 DEF Holds
  <2>5. CASE r = s /\ type = "sse_chunk" /\ n = m
    BY <2>3, <2>5 DEF OnWire, Carries
  <2>6. CASE sent' = sent
    BY <2>4, <2>6
  <2>7. CASE type = "sse_chunk" /\ m = sent[r] + 1 /\ sent' = [sent EXCEPT ![r] = @ + 1]
    <3>1. sent[s] \in Nat /\ sent[r] \in Nat
      BY <1>0
    <3>2. sent'[s] = IF r = s THEN sent[s] + 1 ELSE sent[s]
      BY <2>7, <1>0
    <3>3. n \in 1..sent[s] \/ (r = s /\ n = m)
      BY <2>7, <3>1, <3>2
    <3>. QED
      BY <2>4, <2>5, <2>7, <3>3
  <2>. QED
    BY <2>6, <2>7, <1>3
<1>4. ASSUME ReadFrame PROVE Safe2
  <2> DEFINE f == Head(wire)
  <2>1. /\ wire # <<>> /\ wire' = Tail(wire) /\ UNCHANGED <<up, h, out, sent>>
        /\ Registered(s) /\ n \in 1..sent[s]
    BY <1>4 DEF ReadFrame, instVars, Registered
  <2>2. Safe
    BY <2>1, <1>1
  <2>3. f \in Frame /\ f.id \in Streams /\ f.n \in Nat /\ f = wire[1]
    <3>1. f \in Frame /\ f = wire[1]
      BY <2>1, <1>0, TailIs
    <3>. QED
      BY <3>1 DEF Frame
  <2>4. OnWire(s, n) => OnWire(s, n)' \/ (Carries(f, s) /\ f.n = n)
    <3> SUFFICES ASSUME NEW i \in DOMAIN wire, Carries(wire[i], s), wire[i].n = n, i # 1
                 PROVE  OnWire(s, n)'
      BY <2>3 DEF OnWire
    <3>1. i - 1 \in DOMAIN wire' /\ wire'[i - 1] = wire[i]
      BY <2>1, <1>0, TailIs
    <3>. QED
      BY <3>1 DEF OnWire, Carries
  <2>5. CASE f.type = "sse_chunk" /\ ReadChunk(f)
    <3>1. CASE f.id = s
      <4>1. \/ dropped' = [dropped EXCEPT ![s] = @ \cup {f.n}] /\ chunkCh' = chunkCh
            \/ chunkCh' = [chunkCh EXCEPT ![s] = Append(@, f.n)] /\ dropped' = dropped
        BY <2>5, <3>1 DEF ReadChunk
      <4>2. CASE dropped' = [dropped EXCEPT ![s] = @ \cup {f.n}] /\ chunkCh' = chunkCh
        <5>1. dropped'[s] = dropped[s] \cup {f.n}
          BY <4>2, <1>0
        <5>. QED
          BY <5>1, <4>2, <2>1, <2>2, <2>4 DEF Holds
      <4>3. CASE chunkCh' = [chunkCh EXCEPT ![s] = Append(@, f.n)] /\ dropped' = dropped
        <5>1. chunkCh'[s] = Append(chunkCh[s], f.n) /\ chunkCh[s] \in Seq(Nat)
          BY <4>3, <1>0
        <5>2. Holds(chunkCh'[s], n) <=> Holds(chunkCh[s], n) \/ n = f.n
          BY <5>1, <2>3, HoldsAppend
        <5>. QED
          BY <5>2, <4>3, <2>1, <2>2, <2>4
      <4>. QED
        BY <4>1, <4>2, <4>3
    <3>2. CASE f.id # s
      <4>1. dropped'[s] = dropped[s] /\ chunkCh'[s] = chunkCh[s]
        BY <2>5, <2>3, <3>2, <1>0 DEF ReadChunk
      <4>2. ~Carries(f, s)
        BY <3>2 DEF Carries
      <4>. QED
        BY <4>1, <4>2, <2>1, <2>2, <2>4
    <3>. QED
      BY <3>1, <3>2
  <2>6. CASE f.type # "sse_chunk" /\ UNCHANGED <<chunkCh, dropped>>
    BY <2>6, <2>1, <2>2, <2>4 DEF Carries
  <2>. QED
    BY <1>4, <2>5, <2>6 DEF ReadFrame, ReadStart, ReadEnd
<1>5. ASSUME NEW r \in Streams, WriteChunk(r) PROVE Safe2
  <2>1. /\ UNCHANGED <<up, wire, h, sent, dropped>> /\ chunkCh[r] # <<>> /\ Registered(s)
        /\ out' = [out EXCEPT ![r] = Append(@, Head(chunkCh[r]))]
        /\ chunkCh' = [chunkCh EXCEPT ![r] = Tail(@)]
    BY <1>5 DEF WriteChunk, connVars, instVars, Registered
  <2>2. Safe
    BY <2>1, <1>1
  <2>3. OnWire(s, n) => OnWire(s, n)'
    BY <2>1 DEF OnWire
  <2>4. CASE r = s
    <3>1. chunkCh[s] \in Seq(Nat) /\ out[s] \in Seq(Nat) /\ Head(chunkCh[s]) \in Nat
      BY <2>1, <2>4, <1>0, TailIs
    <3>2. out'[s] = Append(out[s], Head(chunkCh[s])) /\ chunkCh'[s] = Tail(chunkCh[s])
      BY <2>1, <2>4, <1>0
    <3>3. Holds(out'[s], n) <=> Holds(out[s], n) \/ n = Head(chunkCh[s])
      BY <3>1, <3>2, HoldsAppend
    <3>4. Holds(chunkCh[s], n) => n = Head(chunkCh[s]) \/ Holds(chunkCh'[s], n)
      BY <2>1, <2>4, <3>1, <3>2, HoldsTail
    <3>. QED
      BY <3>3, <3>4, <2>1, <2>2, <2>3
  <2>5. CASE r # s
    BY <2>1, <2>2, <2>3, <2>5, <1>0
  <2>. QED
    BY <2>4, <2>5
<1>6. ASSUME NEW r \in Streams, Handler(r), ~WriteChunk(r) PROVE Safe2
  <2>1. CASE Request(r) /\ r = s
    BY <2>1, <1>0 DEF Request, NotYetAsked, instVars
  <2>2. ASSUME NEW why, Return(r, why), UNCHANGED <<up, wire, sent, out, dropped>>
        PROVE  Safe2
    <3>1. r # s /\ Registered(s) /\ chunkCh'[s] = chunkCh[s]
      BY <2>2, <1>0 DEF Return, Registered
    <3>. QED
      BY <2>2, <3>1, <1>2
  <2>3. CASE Request(r) /\ r # s /\ h' = [h EXCEPT ![r] = "waiting"] /\ chunkCh' = chunkCh
    <3>1. Registered(s) /\ UNCHANGED <<up, wire, sent, out, dropped>>
      BY <2>3, <1>0 DEF Request, Registered, pubVars, instVars
    <3>. QED
      BY <2>3, <3>1, <1>2
  <2>4. CASE Request(r)
    BY <2>4, <2>1, <2>2, <2>3 DEF Request, pubVars, instVars
  <2>5. CASE TakeStart(r)
    <3>1. Registered(s) /\ UNCHANGED <<up, wire, sent, out, dropped, chunkCh>>
      BY <2>5, <1>0 DEF TakeStart, Registered, connVars, pubVars, instVars
    <3>. QED
      BY <3>1, <1>2
  <2>6. CASE Timeout(r) \/ TakeEnd(r) \/ ContextDone(r)
    BY <2>6, <2>2 DEF Timeout, TakeEnd, ContextDone, connVars, pubVars, instVars
  <2>. QED
    BY <1>6, <2>4, <2>5, <2>6 DEF Handler
<1>7. ASSUME NEW r \in Streams, Instance(r) PROVE Safe2
  <2>1. CASE Receive(r)
    <3>1. Registered(s) /\ UNCHANGED <<up, wire, sent, out, dropped, chunkCh>>
      BY <2>1 DEF Receive, Registered, handlerVars, pubVars
    <3>. QED
      BY <3>1, <1>2
  <2>2. CASE LocalFails(r) \/ LocalAnswers(r) \/ LocalEnds(r)
    BY <2>2, <1>3 DEF LocalFails, LocalAnswers, LocalEnds
  <2>3. CASE LocalChunk(r)
    <3>1. sent[r] + 1 \in Nat
      BY <1>0
    <3>. QED
      BY <2>3, <3>1, <1>3 DEF LocalChunk
  <2>. QED
    BY <1>7, <2>1, <2>2, <2>3 DEF Instance
<1>8. CASE \E r \in Streams : Public(r)
  <2>1. Registered(s) /\ UNCHANGED <<up, wire, sent, out, dropped, chunkCh>>
    BY <1>8 DEF Public, ClientTurns, Registered, connVars, handlerVars, instVars
  <2>. QED
    BY <2>1, <1>2
<1>9. CASE UNCHANGED vars
  <2>1. Registered(s) /\ UNCHANGED <<up, wire, sent, out, dropped, chunkCh>>
    BY <1>9 DEF vars, Registered, connVars, handlerVars, pubVars, instVars
  <2>. QED
    BY <2>1, <1>2
<1>10. ~LinkBreaks
  BY DEF LinkBreaks
<1>. QED
  BY <1>4, <1>5, <1>6, <1>7, <1>8, <1>9, <1>10 DEF Next

\* While the link is up, a chunk of a stream being served can only be lost
\* at a full queue, whatever else happens on the connection.
THEOREM ChunksAccountedFor == Spec => []AccountedFor
<1>1. Init => AccountedFor
  BY DEF Init, AccountedFor, Registered
<1>. QED
  BY <1>1, AccountedStep, StreamInvariant, PTL DEF Spec
=============================================================================
