------------------------- MODULE RelayTunnel_proofs -------------------------
(***************************************************************************)
(* Safety of RelayTunnel for every set of tokens, clients, connections,    *)
(* subdomains and requests: the inductive invariant RelayInv and the four  *)
(* properties it contains, and that each public request implements         *)
(* PublicRequest.                                                          *)
(***************************************************************************)
EXTENDS RelayTunnel, TLAPS

\* The initial states satisfy the invariant.
LEMMA RelayInit == Init => RelayInv
<1> SUFFICES ASSUME Init PROVE RelayInv
  OBVIOUS
<1>1. cancelled \in [Clients -> BOOLEAN] /\ started \in BOOLEAN /\ tunnel \in BOOLEAN
  BY DEF Init
<1>2. faults \in [net : 0..MaxNetFaults, redis : 0..MaxRedisFaults]
  BY ConstantsOK DEF Init, ConstantsOK
<1>3. TypeOK
  BY <1>1, <1>2 DEF Init, TypeOK
<1>. QED
  BY <1>3, ConstantsOK
  DEF Init, ConstantsOK, ConnSub, TypeOK, RelayInv, RoutedToOwnSubdomain,
      OneLiveClient, OneLinkPerClient, FinishedIsForgotten

\* Every step preserves the invariant, one case per action.
LEMMA RelayStep == RelayInv /\ [Next]_vars => RelayInv'
<1> SUFFICES ASSUME RelayInv, [Next]_vars
             PROVE  RelayInv'
  OBVIOUS
<1> USE ConstantsOK DEF ConstantsOK, ConnSub, TypeOK, RelayInv, RoutedToOwnSubdomain,
        OneLiveClient, OneLinkPerClient, FinishedIsForgotten,
        mgrVars, clientVars, serverVars, reqVars
<1>1. ASSUME Start
      PROVE  RelayInv'
  BY <1>1 DEF Start, StartLocked, Unborn
<1>2. ASSUME NEW t \in Tokens, UpdateToken(t)
      PROVE  RelayInv'
  <2> DEFINE stopped == {running} \ {None}
  <2>1. PICK k \in Clients :
          /\ cpc[k] = "unborn"
          /\ cpc' = [cpc EXCEPT ![k] = "loop"]
          /\ ctoken' = [ctoken EXCEPT ![k] = t]
          /\ cancelled' = [j \in Clients |-> cancelled[j] \/ j \in stopped]
          /\ running' = k
    BY <1>2 DEF UpdateToken, StartLocked, Unborn
  <2>2. /\ started /\ started' = started /\ mtoken' = t /\ tunnel' = TRUE
        /\ UNCHANGED <<cconn, serverVars, link, reqVars, faults>>
    BY <1>2 DEF UpdateToken
  <2>3. cancelled' \in [Clients -> BOOLEAN]
    BY <2>1
  <2>4. TypeOK'
    BY <2>1, <2>2, <2>3
  <2>5. OneLiveClient'
    <3> SUFFICES ASSUME NEW j \in Clients, cpc'[j] # "unborn", j # k
                 PROVE  cancelled'[j]
      BY <2>1
    <3>1. cpc[j] # "unborn"
      BY <2>1
    <3>2. cancelled'[j] <=> cancelled[j] \/ j \in stopped
      BY <2>1
    <3>3. cancelled[j] \/ j = running
      BY <3>1
    <3>. QED
      BY <3>2, <3>3
  <2>6. RoutedToOwnSubdomain' /\ OneLinkPerClient' /\ FinishedIsForgotten'
    BY <2>1, <2>2
  <2>. QED
    BY <2>1, <2>2, <2>4, <2>5, <2>6
<1>3. ASSUME NEW k \in Clients, LoopTop(k)
      PROVE  RelayInv'
  BY <1>3 DEF LoopTop
<1>4. ASSUME NEW k \in Clients, Dial(k)
      PROVE  RelayInv'
  BY <1>4 DEF Dial
<1>5. ASSUME NEW k \in Clients, DialFails(k)
      PROVE  RelayInv'
  BY <1>5 DEF DialFails, NetFault
<1>6. ASSUME NEW k \in Clients, SessionEnds(k)
      PROVE  RelayInv'
  BY <1>6 DEF SessionEnds
<1>7. ASSUME NEW k \in Clients, BackoffElapses(k)
      PROVE  RelayInv'
  BY <1>7 DEF BackoffElapses
<1>8. ASSUME NEW c \in Conns, Register(c)
      PROVE  RelayInv'
  BY <1>8 DEF Register
<1>9. ASSUME NEW c \in Conns, RefuseRegister(c)
      PROVE  RelayInv'
  BY <1>9 DEF RefuseRegister
<1>10. ASSUME NEW c \in Conns, SetKey(c)
      PROVE  RelayInv'
  BY <1>10 DEF SetKey, RedisFault
<1>11. ASSUME NEW c \in Conns, SendRegistered(c)
      PROVE  RelayInv'
  BY <1>11 DEF SendRegistered
<1>12. ASSUME NEW c \in Conns, SendRegisteredFails(c)
      PROVE  RelayInv'
  BY <1>12 DEF SendRegisteredFails, RemoveClient
<1>13. ASSUME NEW c \in Conns, HeartbeatFails(c)
      PROVE  RelayInv'
  BY <1>13 DEF HeartbeatFails, RemoveClient
<1>14. ASSUME NEW c \in Conns, ReadLoopEnds(c)
      PROVE  RelayInv'
  BY <1>14 DEF ReadLoopEnds, RemoveClient
<1>15. ASSUME NEW c \in Conns, LinkBreaks(c)
      PROVE  RelayInv'
  BY <1>15 DEF LinkBreaks, NetFault
<1>16. ASSUME NEW s \in Subdomains, KeyExpires(s)
      PROVE  RelayInv'
  BY <1>16 DEF KeyExpires
<1>17. ASSUME NEW s \in Subdomains, KeyLost(s)
      PROVE  RelayInv'
  BY <1>17 DEF KeyLost, RedisFault
<1>18. ASSUME NEW r \in Requests, NEW s \in Subdomains, Lookup(r, s)
      PROVE  RelayInv'
  <2>1. CASE Finish(r, "offline") /\ UNCHANGED rconn
    <3>1. /\ rpc[r] = "idle" /\ rconn[r] = None
          /\ rsub' = [rsub EXCEPT ![r] = s]
          /\ UNCHANGED <<mgrVars, clientVars, serverVars, link, work>>
          /\ faults' \in [net : 0..MaxNetFaults, redis : 0..MaxRedisFaults]
      BY <1>18, <2>1 DEF Lookup, RedisFault
    <3>. QED
      BY <2>1, <3>1 DEF Finish
  <2>2. CASE key[s] # None /\ rpc' = [rpc EXCEPT ![r] = "found"]
             /\ rconn' = [rconn EXCEPT ![r] = key[s]] /\ UNCHANGED <<answer, faults>>
    <3>1. /\ key[s] \in Conns /\ spc[key[s]] # "free"
          /\ ctoken[owner[key[s]]] \in Admitted /\ ConnSub(key[s]) = s
      BY <2>2
    <3>2. /\ rpc[r] = "idle"
          /\ rpc' = [rpc EXCEPT ![r] = "found"]
          /\ rsub' = [rsub EXCEPT ![r] = s]
          /\ rconn' = [rconn EXCEPT ![r] = key[s]]
          /\ UNCHANGED <<answer, mgrVars, clientVars, serverVars, link, work, faults>>
      BY <1>18, <2>2 DEF Lookup
    <3>5. rsub' \in [Requests -> Subdomains \cup {None}]
      BY <3>2
    <3>6. rconn' \in [Requests -> Conns \cup {None}]
      BY <3>1, <3>2
    <3>7. rpc' \in [Requests -> {"idle", "found", "reading", "routed", "waiting", "done"}]
      BY <3>2
    <3>3. TypeOK'
      BY <3>2, <3>5, <3>6, <3>7
    <3>4. RoutedToOwnSubdomain'
      <4> SUFFICES ASSUME NEW q \in Requests, rconn'[q] # None
                   PROVE  /\ ctoken[owner[rconn'[q]]] \in Admitted
                          /\ ConnSub(rconn'[q]) = rsub'[q]
        BY <3>2
      <4>1. CASE q = r
        BY <4>1, <3>1, <3>2
      <4>2. CASE q # r
        BY <4>2, <3>2
      <4>. QED
        BY <4>1, <4>2
    <3>8. \A q \in Requests :
            rconn'[q] # None => spc'[rconn'[q]] # "free" /\ rpc'[q] # "idle"
      BY <3>1, <3>2
    <3>9. OneLiveClient' /\ OneLinkPerClient' /\ FinishedIsForgotten'
      BY <3>2
    <3>10. /\ started' = started /\ running' = running /\ cpc' = cpc
           /\ ctoken' = ctoken /\ cconn' = cconn /\ owner' = owner
           /\ spc' = spc /\ link' = link /\ clients' = clients /\ key' = key
      BY <3>2
    <3>11. /\ ~started' => running' = None /\ \A k \in Clients : cpc'[k] = "unborn"
           /\ \A k \in Clients :
                /\ cpc'[k] # "unborn" <=> ctoken'[k] \in Tokens
                /\ cpc'[k] = "session" <=> cconn'[k] \in Conns
      BY <3>10
    <3>. QED
      BY <3>10, <3>11, <3>3, <3>4, <3>8, <3>9
  <2>. QED
    BY <1>18, <2>1, <2>2 DEF Lookup
<1>19. ASSUME NEW r \in Requests, GetClient(r)
      PROVE  RelayInv'
  BY <1>19, SMTT(60) DEF GetClient, Finish
<1>26. ASSUME NEW r \in Requests, ReadBody(r)
      PROVE  RelayInv'
  BY <1>26 DEF ReadBody
<1>20. ASSUME NEW r \in Requests, SendRequest(r)
      PROVE  RelayInv'
  BY <1>20, SMTT(60) DEF SendRequest, Finish
<1>21. ASSUME NEW r \in Requests, Receive(r)
      PROVE  RelayInv'
  BY <1>21 DEF Receive
<1>22. ASSUME NEW r \in Requests, CallLocal(r)
      PROVE  RelayInv'
  BY <1>22 DEF CallLocal
<1>23. ASSUME NEW r \in Requests, Respond(r)
      PROVE  RelayInv'
  BY <1>23 DEF Respond, Finish
<1>24. ASSUME NEW r \in Requests, Timeout(r)
      PROVE  RelayInv'
  BY <1>24 DEF Timeout, Finish
<1>25. CASE UNCHANGED vars
  BY <1>25 DEF vars
<1>. QED
  BY <1>1, <1>2, <1>3, <1>4, <1>5, <1>6, <1>7, <1>8, <1>9, <1>10, <1>11, <1>12, <1>13, <1>14, <1>15, <1>16, <1>17, <1>18, <1>19, <1>20, <1>21, <1>22, <1>23, <1>24, <1>25, <1>26 DEF Next, ClientStep, ConnStep, RequestStep

\* RelayInv holds in every reachable state.
THEOREM RelayInvariant == Spec => []RelayInv
  BY RelayInit, RelayStep, PTL DEF Spec

\* Every variable keeps its type (relay/*.go).
THEOREM RelayTypeCorrect == Spec => []TypeOK
<1>1. RelayInv => TypeOK
  BY DEF RelayInv
<1>. QED
  BY <1>1, RelayInvariant, PTL

\* A public request travels only on a connection registered for its own
\* subdomain, with any number of connections, tokens and concurrent requests
\* (server.go handlePublicHTTP and handleTunnel).
THEOREM RequestIsolation == Spec => []RoutedToOwnSubdomain
<1>1. RelayInv => RoutedToOwnSubdomain
  BY DEF RelayInv
<1>. QED
  BY <1>1, RelayInvariant, PTL

\* However often the token changes, at most one client has a live context, and
\* it is the one the manager can cancel (manager.go UpdateToken).
THEOREM SingleLiveClient == Spec => []OneLiveClient
<1>1. RelayInv => OneLiveClient
  BY DEF RelayInv
<1>. QED
  BY <1>1, RelayInvariant, PTL

\* No client holds two open links, and a finished handler leaves neither an
\* entry nor an open link behind (client.go runSession, server.go removeClient).
THEOREM NoLeakedConnection == Spec => [](OneLinkPerClient /\ FinishedIsForgotten)
<1>1. RelayInv => OneLinkPerClient /\ FinishedIsForgotten
  BY DEF RelayInv
<1>. QED
  BY <1>1, RelayInvariant, PTL

-----------------------------------------------------------------------------
(* Refinement: each public request is a PublicRequest *)

\* Where a request's handler is, what it has answered and what the instance
\* does agree: an answer ends the handler, only the write to the tunnel sets
\* the instance to work, and it goes where the handler was routed.
Known(r) ==
  /\ rpc[r] = "done" <=> answer[r] # "none"
  /\ rpc[r] \in {"idle", "found", "reading", "routed"} => work[r] = "none"
  /\ rpc[r] = "waiting" => work[r] # "none"
  /\ rpc[r] \in {"found", "reading", "routed"} \/ work[r] # "none" => rconn[r] # None
  /\ rpc[r] = "idle" => rsub[r] = None
  /\ answer[r] \in {"offline", "unroutable"} => work[r] = "none"
  /\ answer[r] \in {"ok", "bad_gateway"} => work[r] = answer[r]
RequestsKnown == \A r \in Requests : Known(r)

LEMMA RequestsKnownInitially == Init => RequestsKnown
  BY DEF Init, RequestsKnown, Known

\* A step that is not the request's own leaves all of this alone.
Untouched(r) ==
  /\ rpc'[r] = rpc[r] /\ rsub'[r] = rsub[r] /\ rconn'[r] = rconn[r]
  /\ work'[r] = work[r] /\ answer'[r] = answer[r]

LEMMA OnlyItsOwnSteps ==
  ASSUME TypeOK, [Next]_vars, NEW r \in Requests
  PROVE  Untouched(r) \/ RequestStep(r)
<1>1. CASE UNCHANGED reqVars
  BY <1>1 DEF reqVars, Untouched
<1>2. ASSUME NEW q \in Requests, q # r, RequestStep(q)
      PROVE  Untouched(r)
  BY <1>2 DEF RequestStep, Lookup, GetClient, ReadBody, SendRequest, Receive, CallLocal, Respond,
              Timeout, Finish, Untouched, TypeOK
<1>3. (\E q \in Requests : RequestStep(q)) \/ UNCHANGED reqVars
  <2>1. Start \/ (\E t \in Tokens : UpdateToken(t)) => UNCHANGED reqVars
    BY DEF Start, UpdateToken
  <2>2. \A k \in Clients : ClientStep(k) => UNCHANGED reqVars
    BY DEF ClientStep, LoopTop, Dial, DialFails, SessionEnds, BackoffElapses
  <2>3. \A c \in Conns : ConnStep(c) => UNCHANGED reqVars
    BY DEF ConnStep, Register, RefuseRegister, SetKey, SendRegistered, SendRegisteredFails,
           HeartbeatFails, ReadLoopEnds, RemoveClient, LinkBreaks
  <2>4. \A s \in Subdomains : KeyExpires(s) \/ KeyLost(s) => UNCHANGED reqVars
    BY DEF KeyExpires, KeyLost
  <2>5. UNCHANGED vars => UNCHANGED reqVars
    BY DEF vars
  <2>. QED
    BY <2>1, <2>2, <2>3, <2>4, <2>5 DEF Next
<1>. QED
  BY <1>1, <1>2, <1>3

LEMMA RequestsKnownStep ==
  ASSUME RelayInv, RequestsKnown, [Next]_vars
  PROVE  RequestsKnown'
<1> SUFFICES ASSUME NEW r \in Requests PROVE Known(r)'
  BY DEF RequestsKnown
<1>1. /\ Known(r) /\ rpc \in [Requests -> {"idle", "found", "reading", "routed", "waiting", "done"}]
      /\ rsub \in [Requests -> Subdomains \cup {None}]
      /\ rconn \in [Requests -> Conns \cup {None}]
      /\ work \in [Requests -> {"none", "sent", "calling", "ok", "bad_gateway", "lost"}]
      /\ answer \in [Requests -> {"none", "ok", "bad_gateway", "offline", "unroutable", "timeout"}]
  BY DEF RequestsKnown, RelayInv, TypeOK
<1>2. CASE Untouched(r)
  BY <1>1, <1>2 DEF Untouched, Known
<1>3. ASSUME NEW s \in Subdomains, Lookup(r, s) PROVE Known(r)'
  BY <1>1, <1>3 DEF Known, Lookup, Finish
<1>4. CASE GetClient(r)
  BY <1>1, <1>4 DEF Known, GetClient, Finish
<1>11. CASE ReadBody(r)
  BY <1>1, <1>11 DEF Known, ReadBody
<1>5. CASE SendRequest(r)
  BY <1>1, <1>5 DEF Known, SendRequest, Finish
<1>6. CASE Receive(r)
  BY <1>1, <1>6 DEF Known, Receive
<1>7. CASE CallLocal(r)
  BY <1>1, <1>7 DEF Known, CallLocal
<1>8. CASE Respond(r)
  BY <1>1, <1>8 DEF Known, Respond, Finish
<1>9. CASE Timeout(r)
  BY <1>1, <1>9 DEF Known, Timeout, Finish
<1>10. TypeOK
  BY DEF RelayInv
<1>. QED
  BY <1>2, <1>3, <1>4, <1>5, <1>6, <1>7, <1>8, <1>9, <1>10, <1>11, OnlyItsOwnSteps DEF RequestStep

LEMMA RequestsKnownAlways == Spec => []RequestsKnown
<1>1. RelayInv /\ RequestsKnown /\ [Next]_vars => RequestsKnown'
  BY RequestsKnownStep
<1>. QED
  BY <1>1, RequestsKnownInitially, RelayInvariant, PTL DEF Spec

\* A request that was handed over went to its own subdomain, and no change of
\* clients or connections since has made it another's.
LEMMA HandedToItsOwn ==
  ASSUME RelayInv, RequestsKnown, NEW r \in Requests, work[r] # "none"
  PROVE  ConnSub(rconn[r]) = rsub[r]
  BY DEF RelayInv, RoutedToOwnSubdomain, RequestsKnown, Known

LEMMA PublicRequestStep ==
  ASSUME RelayInv, RelayInv', RequestsKnown, RequestsKnown', [Next]_vars, NEW r \in Requests
  PROVE  [Public(r)!Next]_(Public(r)!vars)
<1> DEFINE Handed == IF work[r] = "none" THEN None ELSE ConnSub(rconn[r])
<1>1. /\ Known(r) /\ Known(r)'
      /\ rpc \in [Requests -> {"idle", "found", "reading", "routed", "waiting", "done"}]
      /\ rsub \in [Requests -> Subdomains \cup {None}]
      /\ rconn \in [Requests -> Conns \cup {None}]
      /\ work \in [Requests -> {"none", "sent", "calling", "ok", "bad_gateway", "lost"}]
      /\ answer \in [Requests -> {"none", "ok", "bad_gateway", "offline", "unroutable", "timeout"}]
  BY DEF RequestsKnown, RelayInv, TypeOK
<1>2. Handed = IF work[r] = "none" THEN None ELSE rsub[r]
  BY HandedToItsOwn
<1>3. Handed' = IF work'[r] = "none" THEN None ELSE rsub'[r]
  BY DEF RelayInv, RoutedToOwnSubdomain, RequestsKnown, Known
<1> HIDE DEF Handed
<1>4. ASSUME Untouched(r) PROVE UNCHANGED Public(r)!vars
  BY <1>2, <1>3, <1>4 DEF Untouched, Public!vars, Handed
<1>5. ASSUME NEW s \in Subdomains, Lookup(r, s) PROVE Public(r)!Ask(s)
  BY <1>1, <1>2, <1>3, <1>5 DEF Known, Lookup, Finish, Public!Ask, Handed
<1>6. CASE GetClient(r)
  BY <1>1, <1>2, <1>3, <1>6
  DEF Known, GetClient, Finish, Public!Refuse, Public!Open, Public!Refusals, Public!Next, Public!vars, Handed
<1>13. CASE ReadBody(r)
  BY <1>1, <1>2, <1>3, <1>13 DEF Known, ReadBody, Public!vars, Handed
<1>7. CASE SendRequest(r)
  BY <1>1, <1>2, <1>3, <1>7
  DEF Known, SendRequest, Finish, Public!Refuse, Public!HandOver, Public!Open,
      Public!Refusals, Public!Next, Handed
<1>8. CASE Receive(r)
  BY <1>1, <1>2, <1>3, <1>8 DEF Known, Receive, Public!Act, Public!Next, Handed
<1>9. CASE CallLocal(r)
  BY <1>1, <1>2, <1>3, <1>9
  DEF Known, CallLocal, Public!Act, Public!Outcomes, Public!Next, Handed
<1>10. CASE Respond(r)
  BY <1>1, <1>2, <1>3, <1>10
  DEF Known, Respond, Finish, Public!Answer, Public!Open, Public!Outcomes, Public!Next, Handed
<1>11. CASE Timeout(r)
  BY <1>1, <1>2, <1>3, <1>11
  DEF Known, Timeout, Finish, Public!Answer, Public!Open, Public!Next, Handed
<1>12. Untouched(r) \/ RequestStep(r)
  BY OnlyItsOwnSteps DEF RelayInv
<1>. QED
  BY <1>4, <1>5, <1>6, <1>7, <1>8, <1>9, <1>10, <1>11, <1>12, <1>13 DEF RequestStep, Public!Next

\* Every public request of the tunnel implements PublicRequest, with any number
\* of tokens, clients, reconnects and keys that go stale between redis.Get and
\* the write (server.go handlePublicHTTP, client.go handleRequest).
THEOREM RequestsImplementPublicRequest == Spec => ImplementsPublicRequest
<1>1. Init => \A r \in Requests : Public(r)!Init
  BY DEF Init, Public!Init
<1>2. RelayInv /\ RequestsKnown /\ [Next]_vars
        => [\A r \in Requests : [Public(r)!Next]_(Public(r)!vars)]_vars
  BY RelayStep, RequestsKnownStep, PublicRequestStep
<1>. QED
  BY <1>1, <1>2, RelayInvariant, RequestsKnownAlways, PTL DEF Spec, ImplementsPublicRequest

\* So at every moment: no other instance has the request, a refused one is
\* acted on by nobody and may be repeated, and an outcome is the instance's own.
THEOREM AnswersTruthful == Spec => [](\A r \in Requests : Public(r)!AnswerTruthful)
<1>1. ASSUME RelayInv, RequestsKnown, NEW r \in Requests PROVE Public(r)!AnswerTruthful
  BY <1>1, HandedToItsOwn
  DEF RequestsKnown, Known, Public!AnswerTruthful, Public!Refusals, Public!Outcomes
<1>2. RelayInv /\ RequestsKnown => \A r \in Requests : Public(r)!AnswerTruthful
  BY <1>1
<1>. QED
  BY <1>2, RelayInvariant, RequestsKnownAlways, PTL
=============================================================================
