------------------------- MODULE RealtimeHub_proofs -------------------------
(***************************************************************************)
(* Safety of RealtimeHub for every set of users, channels, streams,        *)
(* sockets and messages and every buffer size: the inductive invariant     *)
(* HubInv, what follows from it, the order of what a client is told, that  *)
(* each event stream implements EventFeed, and what alone can cut a        *)
(* broadcast short.                                                        *)
(***************************************************************************)
EXTENDS RealtimeHub, TLAPS

\* What appending a new element to a queue does to membership and repeats.
LEMMA AppendLemma ==
  ASSUME NEW S, NEW q \in Seq(S), NEW x \in S
  PROVE  /\ Append(q, x) \in Seq(S) /\ Len(Append(q, x)) = Len(q) + 1
         /\ \A y \in S : In(y, Append(q, x)) <=> In(y, q) \/ y = x
         /\ Distinct(q) /\ ~In(x, q) => Distinct(Append(q, x))
<1> DEFINE r == Append(q, x)
<1>1. /\ r \in Seq(S) /\ Len(r) = Len(q) + 1 /\ Len(q) \in Nat
      /\ \A i \in 1..Len(q) : r[i] = q[i]
      /\ r[Len(q) + 1] = x
  OBVIOUS
<1>2. ASSUME NEW y \in S PROVE In(y, r) <=> In(y, q) \/ y = x
  BY <1>1 DEF In
<1>3. ASSUME Distinct(q), ~In(x, q) PROVE Distinct(r)
  BY <1>1, <1>3 DEF In, Distinct
<1>. QED
  BY <1>1, <1>2, <1>3

\* What taking the head off a queue does to membership and repeats.
LEMMA TailLemma ==
  ASSUME NEW S, NEW q \in Seq(S), q # <<>>
  PROVE  /\ Head(q) \in S /\ In(Head(q), q)
         /\ Tail(q) \in Seq(S) /\ Len(Tail(q)) = Len(q) - 1
         /\ \A y \in S : In(y, q) <=> In(y, Tail(q)) \/ y = Head(q)
         /\ Distinct(q) => Distinct(Tail(q)) /\ ~In(Head(q), Tail(q))
<1> DEFINE r == Tail(q)
<1>1. /\ Len(q) \in Nat \ {0} /\ Head(q) = q[1] /\ q[1] \in S
      /\ r \in Seq(S) /\ Len(r) = Len(q) - 1
      /\ \A i \in 1..Len(r) : r[i] = q[i + 1]
  OBVIOUS
<1>2. In(Head(q), q)
  BY <1>1 DEF In
<1>3. ASSUME NEW y \in S PROVE In(y, q) <=> In(y, r) \/ y = Head(q)
  <2>1. ASSUME In(y, q), y # Head(q) PROVE In(y, r)
    <3>1. PICK i \in 1..Len(q) : q[i] = y
      BY <2>1 DEF In
    <3>2. i # 1 /\ i - 1 \in 1..Len(r) /\ r[i - 1] = y
      BY <1>1, <2>1, <3>1
    <3>. QED
      BY <3>2 DEF In
  <2>2. ASSUME In(y, r) PROVE In(y, q)
    <3>1. PICK i \in 1..Len(r) : r[i] = y
      BY <2>2 DEF In
    <3>2. i + 1 \in 1..Len(q) /\ q[i + 1] = y
      BY <1>1, <3>1
    <3>. QED
      BY <3>2 DEF In
  <2>. QED
    BY <1>2, <2>1, <2>2
<1>4. ASSUME Distinct(q) PROVE Distinct(r) /\ ~In(Head(q), r)
  <2>1. ASSUME NEW i \in 1..Len(r), NEW j \in 1..Len(r), r[i] = r[j] PROVE i = j
    <3>1. i + 1 \in 1..Len(q) /\ j + 1 \in 1..Len(q) /\ q[i + 1] = q[j + 1]
      BY <1>1, <2>1
    <3>. QED
      BY <1>4, <3>1 DEF Distinct
  <2>2. ASSUME NEW i \in 1..Len(r) PROVE r[i] # Head(q)
    <3>1. i + 1 \in 1..Len(q) /\ 1 \in 1..Len(q) /\ i + 1 # 1
      BY <1>1
    <3>. QED
      BY <1>1, <1>4, <3>1 DEF Distinct
  <2>. QED
    BY <2>1, <2>2 DEF In, Distinct
<1>. QED
  BY <1>1, <1>2, <1>3, <1>4

\* Nothing is in the empty queue.
LEMMA EmptyLemma == Distinct(<<>>) /\ \A y : ~In(y, <<>>)
  BY DEF In, Distinct

\* Two queues without repeats and with nothing in common make one without.
LEMMA ConcatLemma ==
  ASSUME NEW S, NEW p \in Seq(S), NEW q \in Seq(S),
         Distinct(p), Distinct(q), \A y \in S : ~(In(y, p) /\ In(y, q))
  PROVE  /\ Distinct(p \o q)
         /\ \A y \in S : In(y, p \o q) => In(y, p) \/ In(y, q)
<1> DEFINE r == p \o q
<1>1. /\ Len(p) \in Nat /\ Len(q) \in Nat /\ Len(r) = Len(p) + Len(q)
      /\ \A i \in 1..Len(p) : r[i] = p[i] /\ p[i] \in S
      /\ \A i \in 1..Len(q) : q[i] \in S
      /\ \A i \in 1..Len(r) : i > Len(p) => i - Len(p) \in 1..Len(q) /\ r[i] = q[i - Len(p)]
  OBVIOUS
<1>2. ASSUME NEW i \in 1..Len(r), NEW j \in 1..Len(r), r[i] = r[j], i <= Len(p), j > Len(p)
      PROVE  FALSE
  <2>1. i \in 1..Len(p) /\ j - Len(p) \in 1..Len(q) /\ p[i] = q[j - Len(p)] /\ p[i] \in S
    BY <1>1, <1>2
  <2>. QED
    BY <2>1 DEF In
<1>3. Distinct(r)
  <2> SUFFICES ASSUME NEW i \in 1..Len(r), NEW j \in 1..Len(r), r[i] = r[j] PROVE i = j
    BY DEF Distinct
  <2>1. CASE i <= Len(p) /\ j <= Len(p)
    BY <1>1, <2>1 DEF Distinct
  <2>2. CASE i > Len(p) /\ j > Len(p)
    <3>1. /\ i - Len(p) \in 1..Len(q) /\ j - Len(p) \in 1..Len(q)
          /\ q[i - Len(p)] = q[j - Len(p)]
      BY <1>1, <2>2
    <3>2. i - Len(p) = j - Len(p)
      BY <3>1 DEF Distinct
    <3>. QED
      BY <1>1, <3>2
  <2>. QED
    BY <1>1, <1>2, <2>1, <2>2
<1>4. ASSUME NEW y \in S, In(y, r) PROVE In(y, p) \/ In(y, q)
  <2>1. PICK i \in 1..Len(r) : r[i] = y
    BY <1>4 DEF In
  <2>2. CASE i <= Len(p)
    BY <1>1, <2>1, <2>2 DEF In
  <2>3. CASE i > Len(p)
    <3>1. i - Len(p) \in 1..Len(q) /\ q[i - Len(p)] = y
      BY <1>1, <2>1, <2>3
    <3>. QED
      BY <3>1 DEF In
  <2>. QED
    BY <1>1, <2>2, <2>3
<1>. QED
  BY <1>3, <1>4

-----------------------------------------------------------------------------
\* The initial states satisfy the invariant.
LEMMA HubInit == Init => HubInv
<1> SUFFICES ASSUME Init PROVE HubInv
  OBVIOUS
<1>1. /\ buf \in [Streams -> Seq(Messages)] /\ got \in [Streams -> Seq(Messages)]
      /\ \A s \in Streams : Len(buf[s]) <= Cap
  <2>1. <<>> \in Seq(Messages) /\ Len(<<>>) = 0
    OBVIOUS
  <2>. QED
    BY <2>1, ConstantsOK DEF Init, ConstantsOK
<1>2. crashed \in BOOLEAN
  BY DEF Init
<1>3. TypeOK
  BY <1>1, <1>2, ConstantsOK DEF Init, TypeOK, ConstantsOK
<1>. QED
  BY <1>3, EmptyLemma
  DEF Init, HubInv, SubscribedWhileServed, TodoIsListed, SocketsAreServed,
      ReadLoopSequential, InProgress,
      SentOnce, NoRepeats, AudienceKept

\* Writing the head of a stream's queue preserves the invariant.
LEMMA StreamWritesStep ==
  ASSUME HubInv, NEW s \in Streams, StreamWrites(s)
  PROVE  HubInv'
<1> DEFINE x == Head(buf[s])
<1>1. /\ buf \in [Streams -> Seq(Messages)] /\ got \in [Streams -> Seq(Messages)]
      /\ \A t \in Streams : Len(buf[t]) <= Cap
      /\ TypeOK /\ SubscribedWhileServed /\ TodoIsListed /\ SocketsAreServed
      /\ ReadLoopSequential /\ SentOnce /\ NoRepeats /\ AudienceKept
  BY DEF HubInv, TypeOK
<1>2. /\ spc[s] = "open" /\ buf[s] # <<>> /\ buf' = [buf EXCEPT ![s] = Tail(buf[s])]
      /\ UNCHANGED <<member, changes, hubVars, spc, listed, todo, cut, dropped,
                     sockVars, msgVars, crashed>>
  BY DEF StreamWrites
<1>3. got' = [got EXCEPT ![s] = Append(got[s], x)] \/ (got' = got /\ s \in cut)
  BY DEF StreamWrites
<1>4. /\ x \in Messages /\ In(x, buf[s])
      /\ Tail(buf[s]) \in Seq(Messages) /\ Len(Tail(buf[s])) = Len(buf[s]) - 1
      /\ \A y \in Messages : In(y, buf[s]) <=> In(y, Tail(buf[s])) \/ y = x
      /\ Distinct(buf[s]) => Distinct(Tail(buf[s])) /\ ~In(x, Tail(buf[s]))
  BY <1>1, <1>2, TailLemma
<1>5. /\ Distinct(got[s]) /\ Distinct(buf[s])
      /\ \A y \in Messages : ~(In(y, got[s]) /\ In(y, buf[s]))
  BY <1>1 DEF NoRepeats
<1>6. /\ Append(got[s], x) \in Seq(Messages) /\ Distinct(Append(got[s], x))
      /\ \A y \in Messages : In(y, Append(got[s], x)) <=> In(y, got[s]) \/ y = x
  BY <1>1, <1>4, <1>5, AppendLemma
<1>7. /\ buf' \in [Streams -> Seq(Messages)] /\ buf'[s] = Tail(buf[s])
      /\ \A t \in Streams \ {s} : buf'[t] = buf[t]
  BY <1>1, <1>2, <1>4
<1>8. /\ got' \in [Streams -> Seq(Messages)]
      /\ got'[s] = Append(got[s], x) \/ (got'[s] = got[s] /\ s \in cut)
      /\ \A t \in Streams \ {s} : got'[t] = got[t]
  BY <1>1, <1>3, <1>6
<1>9. \A t \in Streams : Len(buf'[t]) <= Cap
  <2>1. Len(buf[s]) \in Nat /\ Len(buf[s]) <= Cap /\ Cap \in Nat
    BY <1>1, ConstantsOK DEF ConstantsOK
  <2>2. Len(buf'[s]) <= Cap
    BY <1>4, <1>7, <2>1
  <2>. QED
    BY <1>1, <1>7, <2>2
<1>10. ASSUME NEW y \in Messages
       PROVE  /\ In(y, got'[s]) => In(y, got[s]) \/ In(y, buf[s])
              /\ In(y, buf'[s]) => In(y, buf[s])
              /\ ~(In(y, got'[s]) /\ In(y, buf'[s]))
              /\ In(y, buf[s]) /\ s \notin cut => In(y, got'[s]) \/ In(y, buf'[s])
              /\ In(y, got[s]) => In(y, got'[s])
  <2>1. CASE got'[s] = Append(got[s], x)
    BY <1>4, <1>5, <1>6, <1>7, <2>1
  <2>2. CASE got'[s] = got[s] /\ s \in cut
    BY <1>4, <1>5, <1>7, <2>2
  <2>. QED
    BY <1>8, <2>1, <2>2
<1>11. TypeOK'
  BY <1>1, <1>2, <1>7, <1>8, <1>9 DEF TypeOK, hubVars, sockVars, msgVars, Writers
<1>12. SubscribedWhileServed' /\ TodoIsListed' /\ SocketsAreServed' /\ ReadLoopSequential'
  BY <1>1, <1>2, <1>7 DEF SubscribedWhileServed, TodoIsListed, SocketsAreServed,
     ReadLoopSequential, InProgress, hubVars, sockVars, msgVars
<1>13. SentOnce'
  <2> SUFFICES ASSUME NEW m \in Messages, NEW t \in Streams
               PROVE  /\ left[m] # {} => mpc[m] = "sending"
                      /\ In(m, got'[t]) \/ In(m, buf'[t]) =>
                           mpc[m] \in {"sending", "done", "panicked"} /\ t \notin left[m]
    BY <1>2 DEF SentOnce, msgVars
  <2>1. CASE t = s
    BY <1>1, <1>10, <2>1 DEF SentOnce
  <2>2. CASE t # s
    BY <1>1, <1>7, <1>8, <2>2 DEF SentOnce
  <2>. QED
    BY <2>1, <2>2
<1>14. NoRepeats'
  <2>1. Distinct(got'[s]) /\ Distinct(buf'[s])
    BY <1>4, <1>5, <1>6, <1>7, <1>8
  <2> SUFFICES ASSUME NEW t \in Streams
               PROVE  /\ Distinct(got'[t]) /\ Distinct(buf'[t])
                      /\ \A m \in Messages : ~(In(m, got'[t]) /\ In(m, buf'[t]))
    BY DEF NoRepeats
  <2>2. CASE t = s
    BY <1>10, <2>1, <2>2
  <2>3. CASE t # s
    BY <1>1, <1>7, <1>8, <2>3 DEF NoRepeats
  <2>. QED
    BY <2>2, <2>3
<1>15. AudienceKept'
  <2>1. ASSUME NEW t \in Streams, NEW y \in Messages, Reached(y, t), t \notin cut
        PROVE  Reached(y, t)'
    <3>1. CASE t = s
      BY <1>2, <1>10, <2>1, <3>1 DEF Reached
    <3>2. CASE t # s
      BY <1>2, <1>7, <1>8, <2>1, <3>2 DEF Reached
    <3>. QED
      BY <3>1, <3>2
  <2>. QED
    BY <1>1, <1>2, <2>1 DEF AudienceKept, hubVars, sockVars, msgVars
<1>. QED
  BY <1>11, <1>12, <1>13, <1>14, <1>15 DEF HubInv

\* Two writers meeting in one socket preserve the invariant.
LEMMA WritesClashStep ==
  ASSUME HubInv, NEW c \in Socks, NEW w \in Writers, WritesClash(c, w)
  PROVE  HubInv'
<1> DEFINE P == {"idle", "reading", "replying", "busy", "leaving", "closed"}
<1>1. /\ TypeOK /\ SubscribedWhileServed /\ TodoIsListed /\ SocketsAreServed
      /\ ReadLoopSequential /\ SentOnce /\ NoRepeats /\ AudienceKept
  BY DEF HubInv
<1>2. /\ wpc \in [Socks -> P] /\ pending \in [Socks -> SUBSET Writers]
      /\ writing \in [Socks -> SUBSET Writers] /\ spoilt \in [Socks -> SUBSET Messages]
  BY <1>1 DEF TypeOK
<1>3. /\ ~crashed /\ w \in pending[c] /\ c \in open
      /\ pending' = [pending EXCEPT ![c] = pending[c] \ {w}]
      /\ UNCHANGED <<member, changes, hubVars, streamVars, open, wgot, msgVars>>
  BY DEF WritesClash
<1> DEFINE ws == writing[c] \cup {w}
<1>4. \/ /\ "reply" \in ws /\ wpc' = [wpc EXCEPT ![c] = "leaving"]
         /\ writing' = [writing EXCEPT ![c] = ws \ {"reply"}]
         /\ spoilt' = spoilt /\ crashed' = crashed
      \/ /\ crashed' = TRUE /\ wpc' = wpc /\ spoilt' = spoilt
         /\ \E p \in ws : writing' = [writing EXCEPT ![c] = ws \ {p}]
      \/ /\ writing' = [writing EXCEPT ![c] = {}]
         /\ spoilt' = [spoilt EXCEPT ![c] = spoilt[c] \cup (ws \cap Messages)]
         /\ wpc' = IF "reply" \in ws /\ wpc[c] = "replying"
                   THEN [wpc EXCEPT ![c] = "reading"] ELSE wpc
         /\ crashed' = crashed
  BY DEF WritesClash, Resumes
<1>0. "reply" \in pending[c] \cup writing[c] => wpc[c] = "replying"
  BY <1>1 DEF ReadLoopSequential
<1>14. "reply" \notin Messages
  BY ConstantsOK DEF ConstantsOK
<1>5. /\ spoilt' \in [Socks -> SUBSET Messages]
      /\ \A d \in Socks : spoilt[d] \subseteq spoilt'[d]
      /\ ~crashed' => ws \cap Messages \subseteq spoilt'[c] \cup writing'[c]
  BY <1>2, <1>4, <1>14
<1>6. /\ wpc' \in [Socks -> P] /\ pending' \in [Socks -> SUBSET Writers]
      /\ writing' \in [Socks -> SUBSET Writers] /\ crashed' \in BOOLEAN
  <2>1. crashed \in BOOLEAN
    BY <1>1 DEF TypeOK
  <2>. QED
    BY <1>2, <1>3, <1>4, <2>1
<1>7. TypeOK'
  BY <1>1, <1>3, <1>5, <1>6 DEF TypeOK, hubVars, streamVars, msgVars
<1>8. SubscribedWhileServed' /\ TodoIsListed' /\ SentOnce' /\ NoRepeats'
  BY <1>1, <1>3 DEF SubscribedWhileServed, TodoIsListed, SentOnce, NoRepeats,
     hubVars, streamVars, msgVars
<1>9. /\ \A d \in Socks : d # c => /\ wpc'[d] = wpc[d] /\ pending'[d] = pending[d]
                                   /\ writing'[d] = writing[d]
      /\ wpc'[c] = wpc[c] \/ (wpc[c] = "replying" /\ wpc'[c] \in {"leaving", "reading"})
      /\ pending'[c] = pending[c] \ {w} /\ writing'[c] \subseteq ws
      /\ "reply" \in writing'[c] \cup pending'[c] => wpc'[c] = wpc[c]
  <2>1. w \in pending[c] /\ pending' = [pending EXCEPT ![c] = pending[c] \ {w}]
    BY <1>3
  <2>2. pending'[c] = pending[c] \ {w} /\ \A d \in Socks : d # c => pending'[d] = pending[d]
    BY <1>2, <2>1
  <2>3. writing'[c] \subseteq ws /\ \A d \in Socks : d # c => writing'[d] = writing[d]
    BY <1>2, <1>4
  <2>4. wpc'[c] = wpc[c] \/ (wpc[c] = "replying" /\ wpc'[c] \in {"leaving", "reading"})
    <3>1. CASE wpc' = wpc
      BY <3>1
    <3>2. CASE wpc' = [wpc EXCEPT ![c] = "leaving"] /\ "reply" \in ws
      BY <1>0, <1>2, <2>1, <3>2
    <3>3. CASE wpc' = [wpc EXCEPT ![c] = "reading"] /\ wpc[c] = "replying"
      BY <1>2, <3>3
    <3>. QED
      BY <1>4, <3>1, <3>2, <3>3
  <2>5. \A d \in Socks : d # c => wpc'[d] = wpc[d]
    BY <1>2, <1>4
  <2>6. "reply" \in writing'[c] \cup pending'[c] => wpc'[c] = wpc[c]
    <3>1. CASE "reply" \in ws /\ writing' = [writing EXCEPT ![c] = ws \ {"reply"}]
      BY <1>1, <1>2, <2>1, <2>2, <3>1 DEF ReadLoopSequential
    <3>2. CASE writing' = [writing EXCEPT ![c] = {}]
      BY <1>1, <1>2, <1>4, <2>1, <2>2, <3>2 DEF ReadLoopSequential
    <3>. QED
      BY <1>4, <3>1, <3>2
  <2>. QED
    BY <2>2, <2>3, <2>4, <2>5, <2>6
<1>10. SocketsAreServed'
  BY <1>1, <1>3, <1>9 DEF SocketsAreServed, hubVars
<1>11. ReadLoopSequential'
  <2>1. ASSUME NEW d \in Socks
        PROVE  /\ "reply" \in pending'[d] \cup writing'[d] => wpc'[d] = "replying"
               /\ "reply" \notin pending'[d] \cap writing'[d]
    <3>1. "reply" \in pending[d] \cup writing[d] => wpc[d] = "replying"
      BY <1>1 DEF ReadLoopSequential
    <3>2. "reply" \notin pending[d] \cap writing[d]
      BY <1>1 DEF ReadLoopSequential
    <3>3. CASE d # c
      BY <1>9, <3>1, <3>2, <3>3
    <3>4. CASE d = c
      <4>1. "reply" \in pending'[c] \cup writing'[c] => "reply" \in pending[c] \cup writing[c]
        BY <1>3, <1>9
      <4>2. "reply" \notin pending'[c] \cap writing'[c]
        BY <1>9, <3>2, <3>4
      <4>. QED
        BY <1>9, <3>1, <3>4, <4>1, <4>2
    <3>. QED
      BY <3>3, <3>4
  <2>2. ASSUME NEW m \in Messages, NEW n \in Messages, InProgress(m), ViaOf[m] # None
        PROVE  /\ wpc'[ViaOf[m]] = "busy"
               /\ InProgress(n) /\ ViaOf[n] = ViaOf[m] => m = n
    BY <1>1, <1>9, <2>2, ConstantsOK DEF ReadLoopSequential, ConstantsOK
  <2>. QED
    BY <1>3, <2>1, <2>2 DEF ReadLoopSequential, InProgress, msgVars
<1>12. AudienceKept'
  <2>1. \A m \in Messages, d \in Socks : ~crashed' =>
          (m \in pending[d] \cup writing[d] \cup wgot[d] \cup spoilt[d] =>
             m \in pending'[d] \cup writing'[d] \cup wgot[d] \cup spoilt'[d])
    BY <1>5, <1>9
  <2>2. \A d \in Socks : wpc[d] # "idle" /\ wpc[d] # "closed" => wpc'[d] # "idle"
    BY <1>9
  <2>3. \A d \in Socks : wpc[d] \in {"idle", "closed"} => wpc'[d] = wpc[d]
    BY <1>9
  <2>. QED
    BY <1>1, <1>3, <2>1, <2>2, <2>3
    DEF AudienceKept, Reached, hubVars, streamVars, msgVars
<1>. QED
  BY <1>7, <1>8, <1>10, <1>11, <1>12 DEF HubInv

\* A failed insert, and the error reply to a socket, preserve the invariant.
LEMMA StoreFailsStep ==
  ASSUME HubInv, NEW m \in Messages, StoreFails(m)
  PROVE  HubInv'
<1> DEFINE P == {"idle", "reading", "replying", "busy", "leaving", "closed"}
<1> DEFINE v == ViaOf[m]
<1>1. /\ TypeOK /\ SubscribedWhileServed /\ TodoIsListed /\ SocketsAreServed
      /\ ReadLoopSequential /\ SentOnce /\ NoRepeats /\ AudienceKept
  BY DEF HubInv
<1>2. /\ wpc \in [Socks -> P] /\ pending \in [Socks -> SUBSET Writers]
      /\ v = None \/ v \in Socks
  BY <1>1, ConstantsOK DEF TypeOK, ConstantsOK
<1>3. /\ ~crashed /\ mpc[m] = "member" /\ mpc' = [mpc EXCEPT ![m] = "refused"]
      /\ UNCHANGED <<member, changes, hubVars, streamVars, open, writing, wgot,
                     spoilt, left, audience, crashed>>
  BY DEF StoreFails
<1>4. \/ v = None /\ wpc' = wpc /\ pending' = pending
      \/ /\ v # None /\ wpc' = [wpc EXCEPT ![v] = "replying"]
         /\ pending' = [pending EXCEPT ![v] = pending[v] \cup {"reply"}]
  BY DEF StoreFails
<1>5. wpc' \in [Socks -> P] /\ pending' \in [Socks -> SUBSET Writers]
  BY <1>2, <1>4 DEF Writers
<1>6. v # None => /\ v \in Socks /\ wpc[v] = "busy" /\ wpc'[v] = "replying"
                  /\ pending'[v] = pending[v] \cup {"reply"}
  BY <1>1, <1>2, <1>3, <1>4 DEF ReadLoopSequential, InProgress
<1>7. \A d \in Socks : v = None \/ d # v => wpc'[d] = wpc[d] /\ pending'[d] = pending[d]
  BY <1>2, <1>4
<1>8. /\ mpc'[m] = "refused" /\ mpc' \in [Messages -> {"idle", "member", "stored",
                                     "sending", "done", "refused", "panicked"}]
      /\ \A n \in Messages \ {m} : mpc'[n] = mpc[n]
  BY <1>1, <1>3 DEF TypeOK
<1>9. TypeOK'
  BY <1>1, <1>3, <1>5, <1>8 DEF TypeOK, hubVars, streamVars
<1>10. SubscribedWhileServed' /\ TodoIsListed' /\ NoRepeats'
  BY <1>1, <1>3 DEF SubscribedWhileServed, TodoIsListed, NoRepeats, hubVars, streamVars
<1>11. SentOnce'
  BY <1>1, <1>3, <1>8 DEF SentOnce, streamVars
<1>12. SocketsAreServed'
  BY <1>1, <1>3, <1>6, <1>7 DEF SocketsAreServed, hubVars
<1>13. ReadLoopSequential'
  <2>1. ASSUME NEW d \in Socks
        PROVE  /\ "reply" \in pending'[d] \cup writing[d] => wpc'[d] = "replying"
               /\ "reply" \notin pending'[d] \cap writing[d]
    BY <1>1, <1>6, <1>7 DEF ReadLoopSequential
  <2>2. ASSUME NEW k \in Messages, InProgress(k)'
        PROVE  InProgress(k) /\ k # m
    BY <1>8, <2>2 DEF InProgress
  <2>3. ASSUME NEW k \in Messages, InProgress(k)', ViaOf[k] # None
        PROVE  wpc'[ViaOf[k]] = "busy"
    <3>1. ViaOf[k] \in Socks /\ ViaOf[k] # v /\ wpc[ViaOf[k]] = "busy"
      BY <1>1, <1>3, <2>2, <2>3, ConstantsOK DEF ReadLoopSequential, InProgress, ConstantsOK
    <3>. QED
      BY <1>7, <3>1
  <2>. QED
    BY <1>1, <1>3, <2>1, <2>2, <2>3 DEF ReadLoopSequential
<1>14. AudienceKept'
  BY <1>1, <1>3, <1>6, <1>7, <1>8 DEF AudienceKept, Reached, hubVars, streamVars
<1>. QED
  BY <1>9, <1>10, <1>11, <1>12, <1>13, <1>14 DEF HubInv

\* Every step preserves the invariant, one case per action.
LEMMA HubStep == HubInv /\ [Next]_vars => HubInv'
<1> SUFFICES ASSUME HubInv, [Next]_vars PROVE HubInv'
  OBVIOUS
<1> USE ConstantsOK DEF ConstantsOK, Writers, TypeOK, HubInv, SubscribedWhileServed,
        TodoIsListed, SocketsAreServed, ReadLoopSequential, InProgress, SentOnce, NoRepeats, AudienceKept, Reached,
        hubVars, streamVars, sockVars, msgVars
<1>1. ASSUME NEW u \in Users, NEW ch \in Channels, JoinOrLeave(u, ch)
      PROVE  HubInv'
  BY <1>1 DEF JoinOrLeave
<1>2. ASSUME NEW s \in Streams, Connect(s)
      PROVE  HubInv'
  BY <1>2 DEF Connect
<1>3. ASSUME NEW s \in Streams, NEW ch \in Channels, SubscribeSSE(s, ch)
      PROVE  HubInv'
  BY <1>3 DEF SubscribeSSE
<1>4. ASSUME NEW s \in Streams, StreamOpens(s)
      PROVE  HubInv'
  <2>1. TypeOK'
    BY <1>4 DEF StreamOpens
  <2>2. SubscribedWhileServed' /\ TodoIsListed' /\ SocketsAreServed' /\ ReadLoopSequential'
    BY <1>4 DEF StreamOpens
  <2>3. SentOnce' /\ NoRepeats'
    BY <1>4 DEF StreamOpens
  <2>4. AudienceKept'
    BY <1>4 DEF StreamOpens
  <2>. QED
    BY <2>1, <2>2, <2>3, <2>4
<1>5. ASSUME NEW s \in Streams, Cut(s)
      PROVE  HubInv'
  BY <1>5 DEF Cut
<1>6. ASSUME NEW s \in Streams, StreamWrites(s)
      PROVE  HubInv'
  BY <1>6, StreamWritesStep
<1>7. ASSUME NEW s \in Streams, StreamLeaves(s)
      PROVE  HubInv'
  BY <1>7 DEF StreamLeaves
<1>8. ASSUME NEW s \in Streams, NEW ch \in Channels, UnsubscribeSSE(s, ch)
      PROVE  HubInv'
  BY <1>8 DEF UnsubscribeSSE
<1>9. ASSUME NEW s \in Streams, StreamCloses(s)
      PROVE  HubInv'
  <2>1. TypeOK'
    BY <1>9 DEF StreamCloses
  <2>2. SubscribedWhileServed' /\ TodoIsListed' /\ SocketsAreServed' /\ ReadLoopSequential'
    BY <1>9 DEF StreamCloses
  <2>3. SentOnce' /\ NoRepeats'
    BY <1>9, EmptyLemma DEF StreamCloses
  <2>4. AudienceKept'
    BY <1>9 DEF StreamCloses
  <2>. QED
    BY <2>1, <2>2, <2>3, <2>4
<1>10. ASSUME NEW c \in Socks, SocketConnects(c)
      PROVE  HubInv'
  BY <1>10 DEF SocketConnects
<1>11. ASSUME NEW c \in Socks, NEW ch \in Channels, Subscribe(c, ch)
      PROVE  HubInv'
  BY <1>11 DEF Subscribe
<1>12. ASSUME NEW c \in Socks, Ping(c)
      PROVE  HubInv'
  BY <1>12 DEF Ping
<1>13. ASSUME NEW c \in Socks, SocketDrops(c)
      PROVE  HubInv'
  BY <1>13 DEF SocketDrops
<1>14. ASSUME NEW c \in Socks, NEW w \in Writers, BeginWrite(c, w)
      PROVE  HubInv'
  BY <1>14 DEF BeginWrite, Alone
<1>15. ASSUME NEW c \in Socks, NEW w \in Writers, EndWrite(c, w)
      PROVE  HubInv'
  BY <1>15 DEF EndWrite, Resumes
<1>16. ASSUME NEW c \in Socks, NEW w \in Writers, WriteFails(c, w)
      PROVE  HubInv'
  BY <1>16 DEF WriteFails, Resumes
<1>17. ASSUME NEW c \in Socks, NEW w \in Writers, WritesClash(c, w)
      PROVE  HubInv'
  BY <1>17, WritesClashStep
<1>18. ASSUME NEW c \in Socks, SocketExits(c)
      PROVE  HubInv'
  BY <1>18 DEF SocketExits
<1>19. ASSUME NEW m \in Messages, Accept(m)
      PROVE  HubInv'
  <2>1. TypeOK'
    BY <1>19 DEF Accept, Subscribers
  <2>2. SubscribedWhileServed' /\ TodoIsListed' /\ SocketsAreServed' /\ ReadLoopSequential'
    BY <1>19 DEF Accept, Subscribers
  <2>3. SentOnce' /\ NoRepeats'
    BY <1>19 DEF Accept, Subscribers
  <2>4. AudienceKept'
    BY <1>19 DEF Accept, Subscribers
  <2>. QED
    BY <2>1, <2>2, <2>3, <2>4
<1>20. ASSUME NEW m \in Messages, Store(m)
      PROVE  HubInv'
  <2>1. TypeOK'
    BY <1>20 DEF Store
  <2>2. SubscribedWhileServed' /\ TodoIsListed' /\ SocketsAreServed' /\ ReadLoopSequential'
    BY <1>20 DEF Store
  <2>3. SentOnce' /\ NoRepeats'
    BY <1>20 DEF Store
  <2>4. AudienceKept'
    BY <1>20 DEF Store
  <2>. QED
    BY <2>1, <2>2, <2>3, <2>4
<1>21. ASSUME NEW m \in Messages, StoreFails(m)
      PROVE  HubInv'
  BY <1>21, StoreFailsStep
<1>22. ASSUME NEW m \in Messages, Snapshot(m)
      PROVE  HubInv'
  BY <1>22 DEF Snapshot
<1>23. ASSUME NEW m \in Messages, NEW s \in Streams, Deliver(m, s)
      PROVE  HubInv'
  <2>a. m \notin {y \in Messages : In(y, got[s]) \/ In(y, buf[s])}
    BY <1>23 DEF Deliver
  <2>b. /\ Append(buf[s], m) \in Seq(Messages) /\ Distinct(Append(buf[s], m))
        /\ Len(Append(buf[s], m)) = Len(buf[s]) + 1
        /\ \A y \in Messages : In(y, Append(buf[s], m)) <=> In(y, buf[s]) \/ y = m
    BY <2>a, AppendLemma
  <2>c. /\ mpc[m] = "sending" /\ s \in left[m] /\ spc[s] # "closed"
        /\ left' = [left EXCEPT ![m] = @ \ {s}]
        /\ UNCHANGED <<member, changes, hubVars, spc, listed, todo, cut, got, sockVars,
                       mpc, audience, crashed>>
    BY <1>23 DEF Deliver
  <2>d. CASE Len(buf[s]) < Cap
    <3>1. /\ buf' = [buf EXCEPT ![s] = Append(@, m)] /\ dropped' = dropped
      BY <1>23, <2>d DEF Deliver
    <3>2. /\ buf' \in [Streams -> Seq(Messages)] /\ buf'[s] = Append(buf[s], m)
          /\ \A t \in Streams \ {s} : buf'[t] = buf[t]
          /\ \A t \in Streams : Len(buf'[t]) <= Cap
      BY <2>b, <2>d, <3>1
    <3>3. TypeOK'
      BY <2>c, <3>1, <3>2
    <3>4. SubscribedWhileServed' /\ TodoIsListed' /\ SocketsAreServed' /\ ReadLoopSequential'
      BY <2>c, <3>1, <3>2
    <3>5. SentOnce' /\ NoRepeats'
      BY <2>a, <2>b, <2>c, <3>1, <3>2
    <3>6. AudienceKept'
      BY <2>b, <2>c, <3>1, <3>2
    <3>. QED
      BY <3>3, <3>4, <3>5, <3>6
  <2>e. CASE ~(Len(buf[s]) < Cap)
    <3>1. dropped' = [dropped EXCEPT ![s] = @ \cup {m}] /\ buf' = buf
      BY <1>23, <2>e DEF Deliver
    <3>. QED
      BY <2>c, <3>1
  <2>. QED
    BY <2>d, <2>e
<1>24. ASSUME NEW m \in Messages, NEW s \in Streams, DeliverPanics(m, s)
      PROVE  HubInv'
  <2>1. TypeOK'
    BY <1>24 DEF DeliverPanics
  <2>2. SubscribedWhileServed' /\ TodoIsListed' /\ SocketsAreServed' /\ ReadLoopSequential'
    BY <1>24 DEF DeliverPanics
  <2>3. SentOnce' /\ NoRepeats'
    BY <1>24 DEF DeliverPanics
  <2>4. AudienceKept'
    BY <1>24 DEF DeliverPanics
  <2>. QED
    BY <2>1, <2>2, <2>3, <2>4
<1>25. ASSUME NEW m \in Messages, Finish(m)
      PROVE  HubInv'
  <2>1. TypeOK'
    BY <1>25 DEF Finish
  <2>2. SubscribedWhileServed' /\ TodoIsListed' /\ SocketsAreServed' /\ ReadLoopSequential'
    BY <1>25 DEF Finish
  <2>3. SentOnce' /\ NoRepeats'
    BY <1>25 DEF Finish
  <2>4. AudienceKept'
    BY <1>25 DEF Finish
  <2>. QED
    BY <2>1, <2>2, <2>3, <2>4
<1>26. CASE UNCHANGED vars
  BY <1>26 DEF vars
<1> HIDE DEF ConstantsOK, Writers, TypeOK, HubInv, SubscribedWhileServed,
        TodoIsListed, SocketsAreServed, ReadLoopSequential, InProgress, SentOnce,
        NoRepeats, AudienceKept, Reached, hubVars, streamVars, sockVars, msgVars
<1>. QED
  BY <1>1, <1>2, <1>3, <1>4, <1>5, <1>6, <1>7, <1>8, <1>9, <1>10,
      <1>11, <1>12, <1>13, <1>14, <1>15, <1>16, <1>17, <1>18, <1>19, <1>20, <1>21, <1>22, <1>23, <1>24, <1>25, <1>26
  DEF Next, StreamStep, WriterStep, MessageStep

-----------------------------------------------------------------------------
(* The theorems *)

\* The inductive invariant of the hub: subscriptions follow the handlers that
\* own them, a read loop does one thing at a time, and a message is in one
\* place per stream.  (ws_hub.go, events_handler.go, websocket_handler_v2.go)
THEOREM HubInvariant == Spec => []HubInv
<1>1. HubInv /\ [Next]_vars => HubInv'
  BY HubStep
<1>. QED
  BY HubInit, <1>1, PTL DEF Spec

\* Every variable keeps to its type: in particular no stream's buffer ever
\* holds more than its capacity.
THEOREM HubTypes == Spec => []TypeOK
<1>1. HubInv => TypeOK
  BY DEF HubInv
<1>. QED
  BY HubInvariant, <1>1, PTL

\* No channel keeps a stream whose handler has closed its event channel, or a
\* socket whose handler has ended: Broadcast never sends on a closed channel
\* that it still finds in the hub.
THEOREM HubForgetsClosed == Spec => []HubForgets
<1>1. ASSUME HubInv PROVE HubForgets
  <2>1. \A ch \in Channels : sseSubs[ch] \subseteq Streams /\ chans[ch] \subseteq Socks
    BY <1>1 DEF HubInv, TypeOK
  <2>2. SubscribedWhileServed /\ SocketsAreServed
    BY <1>1 DEF HubInv
  <2>. QED
    BY <2>1, <2>2 DEF SubscribedWhileServed, SocketsAreServed, HubForgets
<1>. QED
  BY HubInvariant, <1>1, PTL

\* No client of a stream is sent the same message twice.
THEOREM DeliveredAtMostOnce == Spec => []AtMostOnce
<1>1. ASSUME HubInv PROVE AtMostOnce
  <2> SUFFICES ASSUME NEW s \in Streams
               PROVE  /\ Distinct(Log(s))
                      /\ \A m \in Messages : s \in left[m] => ~In(m, Log(s))
    BY DEF AtMostOnce
  <2>1. got[s] \in Seq(Messages) /\ buf[s] \in Seq(Messages)
    BY <1>1 DEF HubInv, TypeOK
  <2>2. /\ Distinct(got[s]) /\ Distinct(buf[s])
        /\ \A m \in Messages : ~(In(m, got[s]) /\ In(m, buf[s]))
    BY <1>1 DEF HubInv, NoRepeats
  <2>3. \A m \in Messages : In(m, got[s]) \/ In(m, buf[s]) => s \notin left[m]
    BY <1>1 DEF HubInv, SentOnce
  <2>. QED
    BY <2>1, <2>2, <2>3, ConcatLemma DEF Log
<1>. QED
  BY HubInvariant, <1>1, PTL

\* A finished broadcast has served everyone who was subscribed when the call
\* came in and is still served, whatever happened to the others.
THEOREM FanOutComplete == Spec => []NobodySkipped
<1>1. ASSUME HubInv PROVE NobodySkipped
  <2>1. ASSUME NEW m \in Messages, mpc[m] = "done", ~crashed
        PROVE  /\ \A s \in audience[m] \cap Streams :
                    spc[s] = "open" /\ s \notin cut => Reached(m, s)
               /\ \A c \in audience[m] \cap Socks :
                    c \in open /\ wpc[c] # "closed" =>
                      m \in pending[c] \cup writing[c] \cup wgot[c] \cup spoilt[c]
    <3>1. \A s \in Streams : s \notin left[m]
      BY <1>1, <2>1 DEF HubInv, SentOnce
    <3>. QED
      BY <1>1, <2>1, <3>1 DEF HubInv, AudienceKept
  <2>. QED
    BY <2>1 DEF NobodySkipped
<1>. QED
  BY HubInvariant, <1>1, PTL

-----------------------------------------------------------------------------
(* The order in which a stream's client is told *)

\* What appending an element to a queue does to the order of two others.
LEMMA AppendOrder ==
  ASSUME NEW S, NEW q \in Seq(S), NEW x \in S, NEW a \in S, NEW b \in S,
         Precedes(b, a, Append(q, x))
  PROVE  Precedes(b, a, q) \/ (x = a /\ In(b, q))
<1> DEFINE r == Append(q, x)
<1>1. /\ Len(r) = Len(q) + 1 /\ Len(q) \in Nat
      /\ \A i \in 1..Len(q) : r[i] = q[i]
      /\ r[Len(q) + 1] = x
  OBVIOUS
<1>2. PICK i \in 1..Len(r), j \in 1..Len(r) : i < j /\ r[i] = b /\ r[j] = a
  BY DEF Precedes
<1>3. i \in 1..Len(q) /\ q[i] = b
  BY <1>1, <1>2
<1>4. CASE j = Len(q) + 1
  BY <1>1, <1>2, <1>3, <1>4 DEF In
<1>5. CASE j # Len(q) + 1
  <2>1. j \in 1..Len(q) /\ q[j] = a
    BY <1>1, <1>2, <1>5
  <2>. QED
    BY <1>2, <1>3, <2>1 DEF Precedes
<1>. QED
  BY <1>4, <1>5

\* What taking the head off a queue does to it: the head came before the rest.
LEMMA TailOrder ==
  ASSUME NEW S, NEW q \in Seq(S), q # <<>>, NEW a \in S, NEW b \in S
  PROVE  /\ Precedes(b, a, Tail(q)) => Precedes(b, a, q)
         /\ b = Head(q) /\ In(a, Tail(q)) => Precedes(b, a, q)
<1> DEFINE r == Tail(q)
<1>1. /\ Len(q) \in Nat \ {0} /\ Head(q) = q[1]
      /\ Len(r) = Len(q) - 1 /\ \A i \in 1..Len(r) : r[i] = q[i + 1]
  OBVIOUS
<1>2. ASSUME NEW i \in 1..Len(r) PROVE i + 1 \in 1..Len(q) /\ q[i + 1] = r[i] /\ 1 < i + 1
  BY <1>1
<1>3. ASSUME Precedes(b, a, r) PROVE Precedes(b, a, q)
  <2>1. PICK i \in 1..Len(r), j \in 1..Len(r) : i < j /\ r[i] = b /\ r[j] = a
    BY <1>3 DEF Precedes
  <2>2. i + 1 < j + 1
    BY <1>1, <2>1
  <2>. QED
    BY <1>2, <2>1, <2>2 DEF Precedes
<1>4. ASSUME b = Head(q), In(a, r) PROVE Precedes(b, a, q)
  <2>1. PICK i \in 1..Len(r) : r[i] = a
    BY <1>4 DEF In
  <2>2. 1 \in 1..Len(q) /\ q[1] = b
    BY <1>1, <1>4
  <2>. QED
    BY <1>2, <2>1, <2>2 DEF Precedes
<1>. QED
  BY <1>3, <1>4

\* Once the handler of a has answered, no stream has, or will have, b before a:
\* neither in what its client read, nor in its queue, nor across the two.
After(a, b) ==
  /\ mpc[a] = "done"
  /\ \A s \in Streams : /\ ~Precedes(b, a, got[s]) /\ ~Precedes(b, a, buf[s])
                        /\ ~(In(b, got[s]) /\ In(a, buf[s]))

\* It holds from the moment a is answered and b is not sent yet ...
LEMMA AfterStarts ==
  ASSUME NEW a \in Messages, NEW b \in Messages, HubInv, mpc[a] = "done", mpc[b] = "idle"
  PROVE  After(a, b)
<1>1. \A s \in Streams : ~In(b, got[s]) /\ ~In(b, buf[s])
  BY DEF HubInv, SentOnce
<1>2. ASSUME NEW q, Precedes(b, a, q) PROVE In(b, q)
  BY <1>2 DEF Precedes, In
<1>. QED
  BY <1>1, <1>2 DEF After

\* ... and every step keeps it: the only queue that grows grows at its end, by
\* a message whose broadcast is still going on, and a client reads at the head.
LEMMA AfterStep ==
  ASSUME NEW a \in Messages, NEW b \in Messages, HubInv, After(a, b), [Next]_vars
  PROVE  After(a, b)'
<1>1. /\ buf \in [Streams -> Seq(Messages)] /\ got \in [Streams -> Seq(Messages)]
      /\ mpc \in [Messages -> {"idle", "member", "stored", "sending", "done",
                               "refused", "panicked"}]
  BY DEF HubInv, TypeOK
<1>2. mpc[a] = "done"
  BY DEF After
<1>3. ASSUME NEW s \in Streams
      PROVE  /\ ~Precedes(b, a, got[s]) /\ ~Precedes(b, a, buf[s])
             /\ ~(In(b, got[s]) /\ In(a, buf[s]))
  BY DEF After
<1>4. ASSUME mpc' = mpc, buf' = buf, got' = got PROVE After(a, b)'
  BY <1>4 DEF After
<1>5. ASSUME NEW m \in Messages, mpc[m] # "done", buf' = buf, got' = got,
             NEW p, mpc' = [mpc EXCEPT ![m] = p]
      PROVE  After(a, b)'
  <2>1. mpc'[a] = "done"
    BY <1>1, <1>2, <1>5
  <2>. QED
    BY <1>5, <2>1 DEF After
<1>6. ASSUME NEW s \in Streams, StreamWrites(s) PROVE After(a, b)'
  <2> DEFINE x == Head(buf[s])
  <2>1. /\ buf[s] # <<>> /\ buf' = [buf EXCEPT ![s] = Tail(buf[s])] /\ mpc' = mpc
        /\ got' = [got EXCEPT ![s] = Append(got[s], x)] \/ got' = got
    BY <1>6 DEF StreamWrites, msgVars
  <2>2. /\ x \in Messages /\ In(x, buf[s]) /\ Tail(buf[s]) \in Seq(Messages)
        /\ \A y \in Messages : In(y, Tail(buf[s])) => In(y, buf[s])
    BY <1>1, <2>1, TailLemma
  <2>3. /\ Precedes(b, a, Tail(buf[s])) => Precedes(b, a, buf[s])
        /\ b = x /\ In(a, Tail(buf[s])) => Precedes(b, a, buf[s])
    BY <1>1, <2>1, TailOrder
  <2>4. /\ Precedes(b, a, Append(got[s], x)) => Precedes(b, a, got[s]) \/ (x = a /\ In(b, got[s]))
        /\ In(b, Append(got[s], x)) <=> In(b, got[s]) \/ b = x
    BY <1>1, <2>2, AppendOrder, AppendLemma
  <2>5. buf'[s] = Tail(buf[s]) /\ \A t \in Streams \ {s} : buf'[t] = buf[t]
    BY <1>1, <2>1
  <2>6. got'[s] \in {got[s], Append(got[s], x)} /\ \A t \in Streams \ {s} : got'[t] = got[t]
    BY <1>1, <2>1
  <2>7. /\ ~Precedes(b, a, got'[s]) /\ ~Precedes(b, a, buf'[s])
        /\ ~(In(b, got'[s]) /\ In(a, buf'[s]))
    BY <1>3, <2>2, <2>3, <2>4, <2>5, <2>6
  <2>. QED
    BY <1>2, <1>3, <2>1, <2>5, <2>6, <2>7 DEF After
<1>7. ASSUME NEW s \in Streams, StreamCloses(s) PROVE After(a, b)'
  <2>1. buf' = [buf EXCEPT ![s] = <<>>] /\ got' = got /\ mpc' = mpc
    BY <1>7 DEF StreamCloses, msgVars
  <2>2. ~Precedes(b, a, <<>>) /\ ~In(a, <<>>)
    BY DEF Precedes, In
  <2>3. \A t \in Streams : buf'[t] \in {buf[t], <<>>}
    BY <1>1, <2>1
  <2>. QED
    BY <1>2, <1>3, <2>1, <2>2, <2>3 DEF After
<1>8. ASSUME NEW m \in Messages, NEW s \in Streams, Deliver(m, s) PROVE After(a, b)'
  <2>1. /\ mpc[m] = "sending" /\ got' = got /\ mpc' = mpc
        /\ buf' = buf \/ buf' = [buf EXCEPT ![s] = Append(buf[s], m)]
    BY <1>8 DEF Deliver
  <2>2. m # a
    BY <1>2, <2>1
  <2>3. /\ Precedes(b, a, Append(buf[s], m)) => Precedes(b, a, buf[s])
        /\ In(a, Append(buf[s], m)) => In(a, buf[s])
    BY <1>1, <2>2, AppendOrder, AppendLemma
  <2>4. \A t \in Streams : buf'[t] = buf[t] \/ (t = s /\ buf'[t] = Append(buf[s], m))
    BY <1>1, <2>1
  <2>. QED
    BY <1>2, <1>3, <2>1, <2>3, <2>4 DEF After
<1>9. ASSUME NEW s \in Streams,
             \/ Connect(s) \/ Cut(s) \/ StreamOpens(s) \/ StreamLeaves(s)
             \/ \E ch \in Channels : SubscribeSSE(s, ch) \/ UnsubscribeSSE(s, ch)
      PROVE  After(a, b)'
  BY <1>4, <1>9 DEF Connect, Cut, StreamOpens, StreamLeaves, SubscribeSSE, UnsubscribeSSE, msgVars
<1>10. ASSUME NEW c \in Socks,
              \/ SocketConnects(c) \/ Ping(c) \/ SocketDrops(c) \/ SocketExits(c)
              \/ \E ch \in Channels : Subscribe(c, ch)
       PROVE  After(a, b)'
  BY <1>4, <1>10
  DEF SocketConnects, Ping, SocketDrops, SocketExits, Subscribe, streamVars, msgVars
<1>11. ASSUME NEW c \in Socks, NEW w \in Writers, WriterStep(c, w)
       PROVE  After(a, b)'
  BY <1>4, <1>11
  DEF WriterStep, BeginWrite, EndWrite, WriteFails, WritesClash, streamVars, msgVars
<1>12. ASSUME NEW m \in Messages,
              \/ Accept(m) \/ Store(m) \/ StoreFails(m) \/ Snapshot(m) \/ Finish(m)
              \/ \E s \in Streams : DeliverPanics(m, s)
       PROVE  After(a, b)'
  BY <1>5, <1>12
  DEF Accept, Store, StoreFails, Snapshot, Finish, DeliverPanics, streamVars
<1>13. ASSUME NEW u \in Users, NEW ch \in Channels, JoinOrLeave(u, ch) PROVE After(a, b)'
  BY <1>4, <1>13 DEF JoinOrLeave, streamVars, msgVars
<1>14. CASE UNCHANGED vars
  BY <1>4, <1>14 DEF vars, streamVars, msgVars
<1>. QED
  BY <1>6, <1>7, <1>8, <1>9, <1>10, <1>11, <1>12, <1>13, <1>14
  DEF Next, StreamStep, MessageStep

\* Of two messages the second of which was sent after the first was answered,
\* no stream's client ever reads the second first: one FIFO queue per stream
\* and a broadcast that queues before it answers are enough, with any number of
\* channels, streams and messages.  (events_handler.go and ws_hub.go)
THEOREM ToldInOrder == Spec => InOrder
<1>1. ASSUME NEW a \in Messages, NEW b \in Messages
      PROVE  Spec => [](mpc[a] = "done" /\ mpc[b] = "idle" =>
                          [](\A s \in Streams : ~Precedes(b, a, got[s])))
  <2>1. HubInv /\ mpc[a] = "done" /\ mpc[b] = "idle" => After(a, b)
    BY AfterStarts
  <2>2. HubInv /\ After(a, b) /\ [Next]_vars => After(a, b)'
    BY AfterStep
  <2>3. After(a, b) => \A s \in Streams : ~Precedes(b, a, got[s])
    BY DEF After
  <2>. QED
    BY <2>1, <2>2, <2>3, HubInvariant, PTL DEF Spec
<1>. QED
  BY <1>1 DEF InOrder

-----------------------------------------------------------------------------
(* Refinement: every stream is an EventFeed *)

\* Whatever a stream is being sent, has queued or has written is of a channel
\* that its handler listed when it was opened.
Aimed(m, s) == s \in left[m] \/ In(m, buf[s]) \/ In(m, got[s])
InScope == \A m \in Messages, s \in Streams :
             Aimed(m, s) => spc[s] # "idle" /\ ChanOf[m] \in listed[s]

LEMMA InScopeInitially == Init => InScope
  BY EmptyLemma DEF Init, InScope, Aimed

LEMMA InScopeStep ==
  ASSUME HubInv, InScope, [Next]_vars
  PROVE  InScope'
<1>1. /\ buf \in [Streams -> Seq(Messages)] /\ got \in [Streams -> Seq(Messages)]
      /\ left \in [Messages -> SUBSET Streams]
      /\ spc \in [Streams -> {"idle", "subscribing", "open", "leaving", "closed"}]
      /\ listed \in [Streams -> SUBSET Channels]
  BY DEF HubInv, TypeOK
<1>2. ASSUME \A m \in Messages, s \in Streams : Aimed(m, s)' => Aimed(m, s),
             \A s \in Streams : spc[s] # "idle" => spc'[s] # "idle" /\ listed'[s] = listed[s]
      PROVE  InScope'
  BY <1>2 DEF InScope
<1>3. ASSUME spc' = spc, listed' = listed, buf' = buf, got' = got,
             \A m \in Messages : left'[m] \subseteq left[m]
      PROVE  InScope'
  BY <1>2, <1>3 DEF Aimed
<1>4. ASSUME NEW s \in Streams, NEW p, p # "idle", spc' = [spc EXCEPT ![s] = p],
             buf' = buf, got' = got, left' = left,
             listed' = listed \/ (spc[s] = "idle" /\ \E l : listed' = [listed EXCEPT ![s] = l])
      PROVE  InScope'
  BY <1>1, <1>2, <1>4 DEF Aimed
<1>5. ASSUME NEW s \in Streams, StreamWrites(s) PROVE InScope'
  <2> DEFINE x == Head(buf[s])
  <2>1. /\ buf[s] # <<>> /\ buf' = [buf EXCEPT ![s] = Tail(buf[s])]
        /\ got' = [got EXCEPT ![s] = Append(got[s], x)] \/ got' = got
        /\ spc' = spc /\ listed' = listed /\ left' = left
    BY <1>5 DEF StreamWrites, msgVars
  <2>2. /\ x \in Messages /\ In(x, buf[s])
        /\ \A m \in Messages : In(m, Tail(buf[s])) => In(m, buf[s])
    BY <1>1, <2>1, TailLemma
  <2>3. \A m \in Messages : In(m, Append(got[s], x)) => In(m, got[s]) \/ m = x
    BY <1>1, <2>2, AppendLemma
  <2>4. buf'[s] = Tail(buf[s]) /\ \A t \in Streams \ {s} : buf'[t] = buf[t]
    BY <1>1, <2>1
  <2>5. got'[s] \in {got[s], Append(got[s], x)} /\ \A t \in Streams \ {s} : got'[t] = got[t]
    BY <1>1, <2>1
  <2>6. ASSUME NEW m \in Messages, NEW t \in Streams, Aimed(m, t)' PROVE Aimed(m, t)
    BY <2>1, <2>2, <2>3, <2>4, <2>5, <2>6 DEF Aimed
  <2>. QED
    BY <1>2, <2>1, <2>6
<1>6. ASSUME NEW s \in Streams, StreamCloses(s) PROVE InScope'
  <2>1. /\ buf' = [buf EXCEPT ![s] = <<>>] /\ got' = got /\ left' = left /\ listed' = listed
        /\ spc' = [spc EXCEPT ![s] = "closed"]
    BY <1>6 DEF StreamCloses, msgVars
  <2>2. ASSUME NEW m \in Messages, NEW t \in Streams, Aimed(m, t)' PROVE Aimed(m, t)
    BY <1>1, <2>1, <2>2, EmptyLemma DEF Aimed
  <2>. QED
    BY <1>1, <1>2, <2>1, <2>2
<1>7. ASSUME NEW m \in Messages, Snapshot(m) PROVE InScope'
  <2>1. /\ left' = [left EXCEPT ![m] = sseSubs[ChanOf[m]]]
        /\ buf' = buf /\ got' = got /\ spc' = spc /\ listed' = listed
    BY <1>7 DEF Snapshot, streamVars
  <2>2. ASSUME NEW s \in Streams, s \in sseSubs[ChanOf[m]]
        PROVE  spc[s] # "idle" /\ ChanOf[m] \in listed[s]
    BY <2>2, ConstantsOK DEF HubInv, SubscribedWhileServed, TodoIsListed, ConstantsOK
  <2>. QED
    BY <1>1, <2>1, <2>2 DEF InScope, Aimed
<1>8. ASSUME NEW m \in Messages, NEW s \in Streams, Deliver(m, s) PROVE InScope'
  <2>1. /\ s \in left[m] /\ left' = [left EXCEPT ![m] = left[m] \ {s}]
        /\ buf' = buf \/ buf' = [buf EXCEPT ![s] = Append(buf[s], m)]
        /\ got' = got /\ spc' = spc /\ listed' = listed
    BY <1>8 DEF Deliver
  <2>2. \A n \in Messages : In(n, Append(buf[s], m)) => In(n, buf[s]) \/ n = m
    BY <1>1, AppendLemma
  <2>3. \A t \in Streams : buf'[t] = buf[t] \/ (t = s /\ buf'[t] = Append(buf[s], m))
    BY <1>1, <2>1
  <2>4. \A n \in Messages : left'[n] \subseteq left[n]
    BY <1>1, <2>1
  <2>5. ASSUME NEW n \in Messages, NEW t \in Streams, Aimed(n, t)' PROVE Aimed(n, t)
    BY <2>1, <2>2, <2>3, <2>4, <2>5 DEF Aimed
  <2>. QED
    BY <1>2, <2>1, <2>5
<1>9. ASSUME NEW m \in Messages, NEW s \in Streams, DeliverPanics(m, s) PROVE InScope'
  <2>1. left' = [left EXCEPT ![m] = {}] /\ UNCHANGED streamVars
    BY <1>9 DEF DeliverPanics
  <2>. QED
    BY <1>1, <1>3, <2>1 DEF streamVars
<1>10. ASSUME NEW s \in Streams, Connect(s) \/ StreamOpens(s) \/ StreamLeaves(s) PROVE InScope'
  <2>1. CASE Connect(s)
    BY <2>1, <1>4 DEF Connect, msgVars
  <2>2. CASE StreamOpens(s) \/ StreamLeaves(s)
    BY <2>2, <1>4 DEF StreamOpens, StreamLeaves, msgVars
  <2>. QED
    BY <1>10, <2>1, <2>2
<1>11. ASSUME NEW s \in Streams,
              Cut(s) \/ \E ch \in Channels : SubscribeSSE(s, ch) \/ UnsubscribeSSE(s, ch)
       PROVE  InScope'
  BY <1>3, <1>11 DEF Cut, SubscribeSSE, UnsubscribeSSE, msgVars
<1>12. ASSUME NEW c \in Socks,
              \/ SocketConnects(c) \/ Ping(c) \/ SocketDrops(c) \/ SocketExits(c)
              \/ \E ch \in Channels : Subscribe(c, ch)
              \/ \E w \in Writers : WriterStep(c, w)
       PROVE  InScope'
  BY <1>3, <1>12
  DEF SocketConnects, Ping, SocketDrops, SocketExits, Subscribe, WriterStep, BeginWrite,
      EndWrite, WriteFails, WritesClash, streamVars, msgVars
<1>13. ASSUME NEW m \in Messages, Accept(m) \/ Store(m) \/ StoreFails(m) \/ Finish(m)
       PROVE  InScope'
  BY <1>3, <1>13 DEF Accept, Store, StoreFails, Finish, streamVars
<1>14. ASSUME NEW u \in Users, NEW ch \in Channels, JoinOrLeave(u, ch) PROVE InScope'
  BY <1>3, <1>14 DEF JoinOrLeave, streamVars, msgVars
<1>15. CASE UNCHANGED vars
  BY <1>3, <1>15 DEF vars, streamVars, msgVars
<1>. QED
  BY <1>5, <1>6, <1>7, <1>8, <1>9, <1>10, <1>11, <1>12, <1>13, <1>14, <1>15
  DEF Next, StreamStep, MessageStep

LEMMA InScopeAlways == Spec => []InScope
<1>1. HubInv /\ InScope /\ [Next]_vars => InScope'
  BY InScopeStep
<1>. QED
  BY <1>1, InScopeInitially, HubInvariant, PTL DEF Spec

\* The mapping: the messages that are stored, and where a stream stands.
Kept == {m \in Messages : mpc[m] \in {"stored", "sending", "done", "panicked"}}
PhaseOf(s) == CASE spc[s] = "idle" -> "none"
                [] spc[s] \in {"leaving", "closed"} -> "over"
                [] OTHER -> "asked"

\* Every step is, for each stream, a step of EventFeed or none.
LEMMA FeedStep ==
  ASSUME HubInv, InScope, [Next]_vars, NEW s \in Streams
  PROVE  [Feed(s)!Next]_(Feed(s)!vars)
<1> DEFINE Steps == [Feed(s)!Next]_(Feed(s)!vars)
<1>1. /\ member \in [Users -> SUBSET Channels] /\ UserOf[s] \in Users
      /\ buf \in [Streams -> Seq(Messages)] /\ got \in [Streams -> Seq(Messages)]
      /\ spc \in [Streams -> {"idle", "subscribing", "open", "leaving", "closed"}]
      /\ listed \in [Streams -> SUBSET Channels]
      /\ mpc \in [Messages -> {"idle", "member", "stored", "sending", "done",
                               "refused", "panicked"}]
  BY ConstantsOK DEF HubInv, TypeOK, ConstantsOK
<1>2. ASSUME Kept' = Kept, member' = member, PhaseOf(s)' = PhaseOf(s),
             listed'[s] = listed[s], got'[s] = got[s]
      PROVE  Steps
  BY <1>2 DEF Feed!vars, Kept, PhaseOf
<1>3. ASSUME mpc' = mpc, member' = member, spc' = spc, listed' = listed, got' = got
      PROVE  Steps
  BY <1>2, <1>3 DEF Kept, PhaseOf
<1>4. ASSUME NEW u \in Users, NEW ch \in Channels, JoinOrLeave(u, ch) PROVE Steps
  <2>1. /\ mpc' = mpc /\ spc' = spc /\ listed' = listed /\ got' = got
        /\ member'[UserOf[s]] \in SUBSET Channels
    BY <1>1, <1>4 DEF JoinOrLeave, streamVars, msgVars
  <2>. QED
    BY <2>1 DEF Feed!Next, Feed!ComeOrGo
<1>5. ASSUME NEW r \in Streams, Connect(r) PROVE Steps
  <2>1. /\ spc[r] = "idle" /\ spc' = [spc EXCEPT ![r] = "subscribing"]
        /\ listed' = [listed EXCEPT ![r] = member[UserOf[r]] \ DMs]
        /\ mpc' = mpc /\ member' = member /\ got' = got
    BY <1>5 DEF Connect, msgVars
  <2>2. CASE r = s
    BY <1>1, <2>1, <2>2 DEF Feed!Next, Feed!Ask
  <2>3. CASE r # s
    BY <1>1, <1>2, <2>1, <2>3 DEF Kept, PhaseOf
  <2>. QED
    BY <2>2, <2>3
<1>6. ASSUME NEW r \in Streams, StreamWrites(r) PROVE Steps
  <2> DEFINE x == Head(buf[r])
  <2>1. /\ spc[r] = "open" /\ buf[r] # <<>>
        /\ got' = [got EXCEPT ![r] = Append(got[r], x)] \/ got' = got
        /\ mpc' = mpc /\ member' = member /\ spc' = spc /\ listed' = listed
    BY <1>6 DEF StreamWrites, msgVars
  <2>2. CASE got' = got
    BY <1>3, <2>1, <2>2
  <2>3. CASE r # s
    BY <1>1, <1>2, <2>1, <2>3 DEF Kept, PhaseOf
  <2>4. CASE r = s /\ got' = [got EXCEPT ![r] = Append(got[r], x)]
    <3>1. x \in Messages /\ In(x, buf[s])
      BY <1>1, <2>1, <2>4, TailLemma
    <3>2. mpc[x] \in {"sending", "done", "panicked"} /\ ChanOf[x] \in listed[s]
      BY <3>1 DEF HubInv, SentOnce, InScope, Aimed
    <3>3. \A i \in DOMAIN got[s] : got[s][i] # x
      <4>1. ~In(x, got[s]) /\ DOMAIN got[s] = 1..Len(got[s])
        BY <1>1, <3>1 DEF HubInv, NoRepeats
      <4>. QED
        BY <4>1 DEF In
    <3>4. got'[s] = Append(got[s], x)
      BY <1>1, <2>4
    <3>5. Feed(s)!Tell(x)
      BY <2>1, <2>4, <3>1, <3>2, <3>3, <3>4 DEF Feed!Tell
    <3>. QED
      BY <3>1, <3>5 DEF Feed!Next
  <2>. QED
    BY <2>1, <2>2, <2>3, <2>4
<1>7. ASSUME NEW r \in Streams, StreamLeaves(r) PROVE Steps
  <2>1. /\ spc[r] = "open" /\ spc' = [spc EXCEPT ![r] = "leaving"]
        /\ mpc' = mpc /\ member' = member /\ got' = got /\ listed' = listed
    BY <1>7 DEF StreamLeaves, msgVars
  <2>2. CASE r = s
    BY <1>1, <2>1, <2>2 DEF Feed!Next, Feed!End
  <2>3. CASE r # s
    BY <1>1, <1>2, <2>1, <2>3 DEF Kept, PhaseOf
  <2>. QED
    BY <2>2, <2>3
<1>8. ASSUME NEW r \in Streams, StreamOpens(r) \/ StreamCloses(r) PROVE Steps
  <2>1. /\ mpc' = mpc /\ member' = member /\ got' = got /\ listed' = listed
        /\ \/ spc[r] = "subscribing" /\ spc' = [spc EXCEPT ![r] = "open"]
           \/ spc[r] = "leaving" /\ spc' = [spc EXCEPT ![r] = "closed"]
    BY <1>8 DEF StreamOpens, StreamCloses, msgVars
  <2>2. PhaseOf(s)' = PhaseOf(s)
    BY <1>1, <2>1 DEF PhaseOf
  <2>. QED
    BY <1>2, <2>1, <2>2 DEF Kept
<1>9. ASSUME NEW m \in Messages, Store(m) PROVE Steps
  <2>1. /\ mpc[m] = "member" /\ mpc' = [mpc EXCEPT ![m] = "stored"]
        /\ member' = member /\ spc' = spc /\ listed' = listed /\ got' = got
    BY <1>9 DEF Store, streamVars
  <2>2. m \notin Kept /\ Kept' = Kept \cup {m}
    BY <1>1, <2>1 DEF Kept
  <2>3. Feed(s)!Store(m)
    BY <2>1, <2>2 DEF Feed!Store, Kept
  <2>. QED
    BY <2>3 DEF Feed!Next
<1>10. ASSUME NEW m \in Messages, NEW p, mpc' = [mpc EXCEPT ![m] = p],
              mpc[m] \in {"stored", "sending"} <=> p \in {"stored", "sending", "done", "panicked"},
              mpc[m] \in {"idle", "member", "stored", "sending"},
              UNCHANGED <<member, streamVars>>
       PROVE  Steps
  <2>1. Kept' = Kept
    BY <1>1, <1>10 DEF Kept
  <2>. QED
    BY <1>2, <1>10, <2>1 DEF PhaseOf, streamVars
<1>11. ASSUME NEW m \in Messages, Accept(m) PROVE Steps
  BY <1>10, <1>11 DEF Accept
<1>12. ASSUME NEW m \in Messages,
              \/ StoreFails(m) \/ Snapshot(m) \/ Finish(m)
              \/ \E r \in Streams : DeliverPanics(m, r)
       PROVE  Steps
  BY <1>10, <1>12 DEF StoreFails, Snapshot, Finish, DeliverPanics
<1>13. ASSUME NEW m \in Messages, NEW r \in Streams, Deliver(m, r) PROVE Steps
  BY <1>3, <1>13 DEF Deliver
<1>14. ASSUME NEW r \in Streams,
              Cut(r) \/ \E ch \in Channels : SubscribeSSE(r, ch) \/ UnsubscribeSSE(r, ch)
       PROVE  Steps
  BY <1>3, <1>14 DEF Cut, SubscribeSSE, UnsubscribeSSE, msgVars
<1>15. ASSUME NEW c \in Socks,
              \/ SocketConnects(c) \/ Ping(c) \/ SocketDrops(c) \/ SocketExits(c)
              \/ \E ch \in Channels : Subscribe(c, ch)
              \/ \E w \in Writers : WriterStep(c, w)
       PROVE  Steps
  BY <1>3, <1>15
  DEF SocketConnects, Ping, SocketDrops, SocketExits, Subscribe, WriterStep, BeginWrite,
      EndWrite, WriteFails, WritesClash, streamVars, msgVars
<1>16. ASSUME UNCHANGED vars PROVE Steps
  BY <1>3, <1>16 DEF vars, streamVars, msgVars
<1> HIDE DEF Steps
<1>17. Steps
  BY <1>4, <1>5, <1>6, <1>7, <1>8, <1>9, <1>11, <1>12, <1>13, <1>14, <1>15, <1>16
  DEF Next, StreamStep, MessageStep
<1>. QED
  BY <1>17 DEF Steps

\* Every event stream of the hub implements EventFeed: what its client reads
\* is stored messages of the channels its user was in when it was opened, none
\* of them a direct message, each once, and nothing after the handler began to
\* leave; whatever joins, leaves, panics and closes around it.
\* (events_handler.go Stream, ws_hub.go Broadcast)
THEOREM StreamsImplementFeed == Spec => ImplementsFeed
<1>1. Init => \A s \in Streams : Feed(s)!Init
  <2> SUFFICES ASSUME Init, NEW s \in Streams PROVE Feed(s)!Init
    OBVIOUS
  <2>1. member[UserOf[s]] \in SUBSET Channels
    BY ConstantsOK DEF Init, ConstantsOK
  <2>2. spc[s] = "idle" /\ listed[s] = {} /\ got[s] = <<>> /\ Kept = {}
    BY DEF Init, Kept
  <2>. QED
    BY <2>1, <2>2 DEF Feed!Init, Kept
<1>2. HubInv /\ InScope /\ [Next]_vars => [\A s \in Streams : [Feed(s)!Next]_(Feed(s)!vars)]_vars
  BY FeedStep
<1>. QED
  BY <1>1, <1>2, HubInvariant, InScopeAlways, PTL DEF Spec, ImplementsFeed

\* So a stream's client is never told of a message that was not stored, of a
\* channel that was not listed for its user, or twice: not only in each step
\* but of everything it has read so far.
THEOREM StreamsTruthful == Spec => [](\A s \in Streams : Feed(s)!FeedTruthful)
<1>1. ASSUME HubInv, InScope, NEW s \in Streams PROVE Feed(s)!FeedTruthful
  <2>1. /\ got[s] \in Seq(Messages) /\ DOMAIN got[s] = 1..Len(got[s]) /\ Distinct(got[s])
    BY <1>1 DEF HubInv, TypeOK, NoRepeats
  <2>2. ASSUME NEW i \in DOMAIN got[s]
        PROVE  got[s][i] \in Kept /\ ChanOf[got[s][i]] \in listed[s]
    <3>1. got[s][i] \in Messages /\ In(got[s][i], got[s])
      BY <2>1 DEF In
    <3>. QED
      BY <1>1, <3>1 DEF HubInv, SentOnce, InScope, Aimed, Kept
  <2>. QED
    BY <2>1, <2>2 DEF Feed!FeedTruthful, Kept, Distinct
<1>2. HubInv /\ InScope => \A s \in Streams : Feed(s)!FeedTruthful
  BY <1>1
<1>. QED
  BY <1>2, HubInvariant, InScopeAlways, PTL

-----------------------------------------------------------------------------
(* What can cut a broadcast short *)

\* A stream that has ended and that carried the channel of m.
Blamed(m) == \E s \in Streams : spc[s] = "closed" /\ ChanOf[m] \in listed[s]
CutShortByClosed == \A m \in Messages : mpc[m] = "panicked" => Blamed(m)

LEMMA CutShortStep ==
  ASSUME HubInv, InScope, CutShortByClosed, [Next]_vars
  PROVE  CutShortByClosed'
<1>1. /\ spc \in [Streams -> {"idle", "subscribing", "open", "leaving", "closed"}]
      /\ listed \in [Streams -> SUBSET Channels]
      /\ mpc \in [Messages -> {"idle", "member", "stored", "sending", "done",
                               "refused", "panicked"}]
  BY DEF HubInv, TypeOK
<1>2. ASSUME mpc' = mpc \/ \E m \in Messages, p \in {"member", "refused", "stored", "sending", "done"} :
                             mpc' = [mpc EXCEPT ![m] = p],
             spc' = spc, listed' = listed
      PROVE  CutShortByClosed'
  BY <1>1, <1>2 DEF CutShortByClosed, Blamed
<1>3. ASSUME NEW s \in Streams, Connect(s) \/ StreamOpens(s) \/ StreamLeaves(s) \/ StreamCloses(s)
      PROVE  CutShortByClosed'
  <2>1. mpc' = mpc /\ spc[s] # "closed" /\ \A t \in Streams \ {s} : spc'[t] = spc[t] /\ listed'[t] = listed[t]
    BY <1>1, <1>3 DEF Connect, StreamOpens, StreamLeaves, StreamCloses, msgVars
  <2>. QED
    BY <2>1 DEF CutShortByClosed, Blamed
<1>4. ASSUME NEW m \in Messages, NEW s \in Streams, DeliverPanics(m, s) PROVE CutShortByClosed'
  <2>1. /\ s \in left[m] /\ spc[s] = "closed" /\ mpc' = [mpc EXCEPT ![m] = "panicked"]
        /\ spc' = spc /\ listed' = listed
    BY <1>4 DEF DeliverPanics, streamVars
  <2>2. Blamed(m)
    BY <2>1 DEF InScope, Aimed, Blamed
  <2>. QED
    BY <1>1, <2>1, <2>2 DEF CutShortByClosed, Blamed
<1>5. ASSUME NEW s \in Streams,
             \/ Cut(s) \/ StreamWrites(s)
             \/ \E ch \in Channels : SubscribeSSE(s, ch) \/ UnsubscribeSSE(s, ch)
      PROVE  CutShortByClosed'
  BY <1>2, <1>5 DEF Cut, StreamWrites, SubscribeSSE, UnsubscribeSSE, msgVars
<1>6. ASSUME NEW m \in Messages,
             \/ Accept(m) \/ Store(m) \/ StoreFails(m) \/ Snapshot(m) \/ Finish(m)
             \/ \E s \in Streams : Deliver(m, s)
      PROVE  CutShortByClosed'
  BY <1>2, <1>6 DEF Accept, Store, StoreFails, Snapshot, Finish, Deliver, streamVars
<1>7. ASSUME NEW c \in Socks,
             \/ SocketConnects(c) \/ Ping(c) \/ SocketDrops(c) \/ SocketExits(c)
             \/ \E ch \in Channels : Subscribe(c, ch)
             \/ \E w \in Writers : WriterStep(c, w)
      PROVE  CutShortByClosed'
  BY <1>2, <1>7
  DEF SocketConnects, Ping, SocketDrops, SocketExits, Subscribe, WriterStep, BeginWrite,
      EndWrite, WriteFails, WritesClash, streamVars, msgVars
<1>8. ASSUME NEW u \in Users, NEW ch \in Channels, JoinOrLeave(u, ch) PROVE CutShortByClosed'
  BY <1>2, <1>8 DEF JoinOrLeave, streamVars, msgVars
<1>9. CASE UNCHANGED vars
  BY <1>2, <1>9 DEF vars, streamVars, msgVars
<1>. QED
  BY <1>3, <1>4, <1>5, <1>6, <1>7, <1>8, <1>9 DEF Next, StreamStep, MessageStep

\* The only panic of a broadcast is a send on the event channel of a stream
\* that carried the message's channel and has ended since: a POST or a frame
\* that is never answered always has such a stream to blame, however many
\* others came and went.  (ws_hub.go:82 and events_handler.go:57)
THEOREM CutShortOnlyByClosedStream == Spec => []CutShortByClosed
<1>1. Init => CutShortByClosed
  BY DEF Init, CutShortByClosed
<1>2. HubInv /\ InScope /\ CutShortByClosed /\ [Next]_vars => CutShortByClosed'
  BY CutShortStep
<1>. QED
  BY <1>1, <1>2, HubInvariant, InScopeAlways, PTL DEF Spec
=============================================================================
