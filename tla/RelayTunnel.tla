---------------------------- MODULE RelayTunnel ----------------------------
(***************************************************************************)
(* The tunnel between an instance's embedded relay client and the public   *)
(* relay server (apps/api/internal/relay): the manager that starts and     *)
(* cancels clients, the reconnect loop of each client, the server's        *)
(* registration handler with its heartbeat and read loop, the registry in  *)
(* redis that maps a subdomain to a connection, and plain HTTP requests    *)
(* routed through that registry.                                           *)
(*                                                                         *)
(* A connection is one websocket between one client and the server.  Time  *)
(* is abstract: a timeout may fire whenever the code waits on it.          *)
(***************************************************************************)
EXTENDS Naturals

CONSTANTS
  Tokens,      \* relay tokens an operator may configure
  Admitted,    \* the tokens handleTunnel accepts (prefix and JWT checks)
  Subdomains,  \* public subdomains
  SubOf,       \* SubOf[t]: deterministicSubdomain(t), a hash of the token
  Clients,     \* relay.Client objects, one per startLocked
  Conns,       \* connection ids; each is used once (uuid.NewString)
  Requests,    \* public HTTP requests
  MaxNetFaults,   \* bound on broken links and failed dials
  MaxRedisFaults, \* bound on failed Sets and keys redis loses
  None         \* nil

ASSUME ConstantsOK ==
  /\ Admitted \subseteq Tokens
  /\ SubOf \in [Tokens -> Subdomains]
  /\ MaxNetFaults \in Nat /\ MaxRedisFaults \in Nat
  /\ None \notin Tokens \cup Clients \cup Conns

VARIABLES
  \* ------------------------------------------------ Manager (manager.go)
  started,    \* parentCtx # nil
  tunnel,     \* deploymentMode = "tunnel"
  mtoken,     \* token, None when empty
  running,    \* the client whose context m.cancel cancels, None when nil
  \* -------------------------------------------------- Client (client.go)
  cpc,        \* where the goroutine running Client.Start is
  ctoken,     \* token it was created with, None before that
  cancelled,  \* ctx.Done() is closed
  cconn,      \* the connection of the session under way
  \* -------------------------------------------------- Server (server.go)
  owner,      \* owner[c]: the client that dialled c
  link,       \* "none", "up", or "down" once either end or the network broke it
  spc,        \* where handleTunnel is for c
  beating,    \* connections whose heartbeat goroutine runs
  clients,    \* keys of Server.clients
  key,        \* redis relay:subdomain:<sub>
  \* ------------------------------------- handlePublicHTTP, one per request
  rpc,        \* where the handler is
  rsub,       \* subdomain of the Host header
  rconn,      \* connection the request was routed to
  work,       \* the instance's side: goroutine of handleRequest
  answer,     \* status written to the public client
  faults      \* injected faults so far: [net |-> _, redis |-> _]

mgrVars    == <<started, tunnel, mtoken, running>>
clientVars == <<cpc, ctoken, cancelled, cconn>>
serverVars == <<owner, spc, beating, clients, key>>
reqVars    == <<rpc, rsub, rconn, work, answer>>
vars == <<mgrVars, clientVars, serverVars, link, reqVars, faults>>

ConnSub(c) == SubOf[ctoken[owner[c]]]

NetFault   == /\ faults.net < MaxNetFaults
              /\ faults' = [faults EXCEPT !.net = @ + 1]
RedisFault == /\ faults.redis < MaxRedisFaults
              /\ faults' = [faults EXCEPT !.redis = @ + 1]

TypeOK ==
  /\ started \in BOOLEAN /\ tunnel \in BOOLEAN
  /\ mtoken \in Tokens \cup {None}
  /\ running \in Clients \cup {None}
  /\ cpc \in [Clients -> {"unborn", "loop", "dial", "session", "backoff", "done"}]
  /\ ctoken \in [Clients -> Tokens \cup {None}]
  /\ cancelled \in [Clients -> BOOLEAN]
  /\ cconn \in [Clients -> Conns \cup {None}]
  /\ owner \in [Conns -> Clients \cup {None}]
  /\ link \in [Conns -> {"none", "up", "down"}]
  /\ spc \in [Conns -> {"free", "upgraded", "inserted", "keyed", "serving", "closed"}]
  /\ beating \subseteq Conns
  /\ clients \subseteq Conns
  /\ key \in [Subdomains -> Conns \cup {None}]
  /\ rpc \in [Requests -> {"idle", "found", "reading", "routed", "waiting", "done"}]
  /\ rsub \in [Requests -> Subdomains \cup {None}]
  /\ rconn \in [Requests -> Conns \cup {None}]
  /\ work \in [Requests -> {"none", "sent", "calling", "ok", "bad_gateway", "lost"}]
  /\ answer \in [Requests -> {"none", "ok", "bad_gateway", "offline", "unroutable", "timeout"}]
  /\ faults \in [net : 0..MaxNetFaults, redis : 0..MaxRedisFaults]

Init ==
  /\ started = FALSE /\ tunnel \in BOOLEAN
  /\ mtoken \in Tokens \cup {None} /\ running = None
  /\ cpc = [k \in Clients |-> "unborn"]
  /\ ctoken = [k \in Clients |-> None]
  /\ cancelled = [k \in Clients |-> FALSE]
  /\ cconn = [k \in Clients |-> None]
  /\ owner = [c \in Conns |-> None]
  /\ link = [c \in Conns |-> "none"]
  /\ spc = [c \in Conns |-> "free"]
  /\ beating = {} /\ clients = {}
  /\ key = [s \in Subdomains |-> None]
  /\ rpc = [r \in Requests |-> "idle"]
  /\ rsub = [r \in Requests |-> None]
  /\ rconn = [r \in Requests |-> None]
  /\ work = [r \in Requests |-> "none"]
  /\ answer = [r \in Requests |-> "none"]
  /\ faults = [net |-> 0, redis |-> 0]

-----------------------------------------------------------------------------
(* Manager *)

Unborn == {k \in Clients : cpc[k] = "unborn"}

\* startLocked with the given token, from a state where `stopped` are the
\* clients whose context has just been cancelled.
StartLocked(on, mode, token, stopped) ==
  IF ~on \/ ~mode \/ token = None
  THEN /\ cancelled' = [k \in Clients |-> cancelled[k] \/ k \in stopped]
       /\ running' = IF stopped = {} THEN running ELSE None
       /\ UNCHANGED <<cpc, ctoken>>
  ELSE \E k \in Unborn :
         /\ cpc' = [cpc EXCEPT ![k] = "loop"]
         /\ ctoken' = [ctoken EXCEPT ![k] = token]
         /\ cancelled' = [j \in Clients |-> cancelled[j] \/ j \in stopped]
         /\ running' = k

\* main.go calls Start once, after the token came from the configuration.
Start ==
  /\ ~started
  /\ started' = TRUE
  /\ StartLocked(TRUE, tunnel, mtoken, {})
  /\ UNCHANGED <<tunnel, mtoken, cconn, serverVars, link, reqVars, faults>>

\* Mutant of UpdateToken: the previous client is not cancelled.
UpdateTokenKeepsOld(t) ==
  /\ started
  /\ mtoken' = t /\ tunnel' = TRUE
  /\ StartLocked(started, TRUE, t, {})
  /\ UNCHANGED <<started, cconn, serverVars, link, reqVars, faults>>

\* Serialised by m.mu; the old client is cancelled before the new one starts.
UpdateToken(t) ==
  /\ started
  /\ mtoken' = t
  /\ tunnel' = TRUE
  /\ StartLocked(started, TRUE, t, {running} \ {None})
  /\ UNCHANGED <<started, cconn, serverVars, link, reqVars, faults>>

-----------------------------------------------------------------------------
(* Client.Start and runSession *)

\* The check at the top of the loop.
LoopTop(k) ==
  /\ cpc[k] = "loop"
  /\ cpc' = [cpc EXCEPT ![k] = IF cancelled[k] THEN "done" ELSE "dial"]
  /\ UNCHANGED <<mgrVars, ctoken, cancelled, cconn, serverVars, link, reqVars, faults>>

\* Dial and the register write that follows it.  Dial takes no context, so a
\* cancellation between LoopTop and here goes unnoticed.
Dial(k) ==
  /\ cpc[k] = "dial"
  /\ \E c \in Conns :
       /\ spc[c] = "free"
       /\ cpc' = [cpc EXCEPT ![k] = "session"]
       /\ cconn' = [cconn EXCEPT ![k] = c]
       /\ owner' = [owner EXCEPT ![c] = k]
       /\ link' = [link EXCEPT ![c] = "up"]
       /\ spc' = [spc EXCEPT ![c] = "upgraded"]
  /\ UNCHANGED <<mgrVars, ctoken, cancelled, beating, clients, key, reqVars, faults>>

DialFails(k) ==
  /\ cpc[k] = "dial"
  /\ NetFault
  /\ cpc' = [cpc EXCEPT ![k] = "backoff"]
  /\ UNCHANGED <<mgrVars, ctoken, cancelled, cconn, serverVars, link, reqVars>>

\* Mutant of SessionEnds: Start returns instead of retrying.
SessionEndsForGood(k) ==
  /\ cpc[k] = "session" /\ link[cconn[k]] = "down"
  /\ cpc' = [cpc EXCEPT ![k] = "done"]
  /\ cconn' = [cconn EXCEPT ![k] = None]
  /\ UNCHANGED <<mgrVars, ctoken, cancelled, serverVars, link, reqVars, faults>>

\* The read loop of runSession fails, or an error message arrives: nothing
\* else ends a session, in particular not the context.
SessionEnds(k) ==
  /\ cpc[k] = "session"
  /\ link[cconn[k]] = "down"
  /\ cpc' = [cpc EXCEPT ![k] = "backoff"]
  /\ cconn' = [cconn EXCEPT ![k] = None]
  /\ UNCHANGED <<mgrVars, ctoken, cancelled, serverVars, link, reqVars, faults>>

\* select { time.After(backoff) ; ctx.Done }
BackoffElapses(k) ==
  /\ cpc[k] = "backoff"
  /\ \/ cpc' = [cpc EXCEPT ![k] = "loop"]
     \/ cancelled[k] /\ cpc' = [cpc EXCEPT ![k] = "done"]
  /\ UNCHANGED <<mgrVars, ctoken, cancelled, cconn, serverVars, link, reqVars, faults>>

-----------------------------------------------------------------------------
(* Server.handleTunnel, heartbeat, readLoop *)

\* removeClient: close the connection and forget it, if it is still known.
\* The redis key is left as it is.
RemoveClient(c) ==
  /\ clients' = clients \ {c}
  /\ link' = IF c \in clients THEN [link EXCEPT ![c] = "down"] ELSE link

\* ReadJSON(&reg) succeeds, the token is admitted, the connection is inserted.
Register(c) ==
  /\ spc[c] = "upgraded"
  /\ ctoken[owner[c]] \in Admitted
  /\ spc' = [spc EXCEPT ![c] = "inserted"]
  /\ clients' = clients \cup {c}
  /\ UNCHANGED <<mgrVars, clientVars, owner, link, beating, key, reqVars, faults>>

\* The register message did not arrive, or its token is refused.
RefuseRegister(c) ==
  /\ spc[c] = "upgraded"
  /\ link[c] = "down" \/ ctoken[owner[c]] \notin Admitted
  /\ spc' = [spc EXCEPT ![c] = "closed"]
  /\ link' = [link EXCEPT ![c] = "down"]
  /\ UNCHANGED <<mgrVars, clientVars, owner, beating, clients, key, reqVars, faults>>

\* Mutant of SetKey: the key is derived from the manager's latest token.
SetKeyOfLatestToken(c) ==
  /\ spc[c] = "inserted"
  /\ spc' = [spc EXCEPT ![c] = "keyed"]
  /\ key' = [key EXCEPT ![SubOf[mtoken]] = c]
  /\ UNCHANGED <<mgrVars, clientVars, owner, link, beating, clients, reqVars, faults>>

\* redis.Set, whose error is ignored.
SetKey(c) ==
  /\ spc[c] = "inserted"
  /\ spc' = [spc EXCEPT ![c] = "keyed"]
  /\ \/ key' = [key EXCEPT ![ConnSub(c)] = c] /\ UNCHANGED faults
     \/ RedisFault /\ UNCHANGED key
  /\ UNCHANGED <<mgrVars, clientVars, owner, link, beating, clients, reqVars>>

\* The registered message.  A write on a broken link may still be buffered.
SendRegistered(c) ==
  /\ spc[c] = "keyed"
  /\ spc' = [spc EXCEPT ![c] = "serving"]
  /\ beating' = beating \cup {c}
  /\ UNCHANGED <<mgrVars, clientVars, owner, link, clients, key, reqVars, faults>>

\* Mutant of SendRegisteredFails: the handler returns without removeClient.
SendRegisteredFailsKeepsEntry(c) ==
  /\ spc[c] = "keyed" /\ link[c] = "down"
  /\ spc' = [spc EXCEPT ![c] = "closed"]
  /\ UNCHANGED <<mgrVars, clientVars, owner, link, beating, clients, key, reqVars, faults>>

SendRegisteredFails(c) ==
  /\ spc[c] = "keyed"
  /\ link[c] = "down"
  /\ spc' = [spc EXCEPT ![c] = "closed"]
  /\ RemoveClient(c)
  /\ UNCHANGED <<mgrVars, clientVars, owner, beating, key, reqVars, faults>>

\* A ping that succeeds only prolongs the key's expiry (see KeyExpires); one
\* that fails removes the connection and ends the goroutine.
HeartbeatFails(c) ==
  /\ c \in beating
  /\ link[c] = "down"
  /\ beating' = beating \ {c}
  /\ RemoveClient(c)
  /\ UNCHANGED <<mgrVars, clientVars, owner, spc, key, reqVars, faults>>

\* ReadMessage fails; the deferred removeClient runs.
ReadLoopEnds(c) ==
  /\ spc[c] = "serving"
  /\ link[c] = "down"
  /\ spc' = [spc EXCEPT ![c] = "closed"]
  /\ RemoveClient(c)
  /\ UNCHANGED <<mgrVars, clientVars, owner, beating, key, reqVars, faults>>

\* The two-minute expiry passes.  A heartbeat of any connection of the same
\* subdomain calls Expire every 30 seconds, whatever connection the key names;
\* a handler that has just Set the key starts its heartbeat well within that.
KeyExpires(s) ==
  /\ key[s] # None
  /\ \A c \in Conns : c \in beating \/ spc[c] = "keyed" => ConnSub(c) # s
  /\ key' = [key EXCEPT ![s] = None]
  /\ UNCHANGED <<mgrVars, clientVars, owner, spc, beating, clients, link, reqVars, faults>>

-----------------------------------------------------------------------------
(* handlePublicHTTP and handleRequest *)

Finish(r, a) ==
  /\ rpc' = [rpc EXCEPT ![r] = "done"]
  /\ answer' = [answer EXCEPT ![r] = a]

\* redis.Get for the subdomain of the Host header; an error of redis is answered
\* like a key that is not there.
Lookup(r, s) ==
  /\ rpc[r] = "idle"
  /\ rsub' = [rsub EXCEPT ![r] = s]
  /\ \/ /\ (key[s] = None /\ UNCHANGED faults) \/ RedisFault
        /\ Finish(r, "offline")
        /\ UNCHANGED rconn
     \/ /\ key[s] # None
        /\ rpc' = [rpc EXCEPT ![r] = "found"]
        /\ rconn' = [rconn EXCEPT ![r] = key[s]]
        /\ UNCHANGED <<answer, faults>>
  /\ UNCHANGED <<mgrVars, clientVars, serverVars, link, work>>

GetClient(r) ==
  /\ rpc[r] = "found"
  /\ \/ rconn[r] \notin clients /\ Finish(r, "offline")
     \/ /\ rconn[r] \in clients
        /\ rpc' = [rpc EXCEPT ![r] = "reading"]
        /\ UNCHANGED answer
  /\ UNCHANGED <<mgrVars, clientVars, serverVars, link, rsub, rconn, work, faults>>

\* io.ReadAll of the public's body, which nothing limits in time.
ReadBody(r) ==
  /\ rpc[r] = "reading"
  /\ rpc' = [rpc EXCEPT ![r] = "routed"]
  /\ UNCHANGED <<mgrVars, clientVars, serverVars, link, rsub, rconn, work, answer, faults>>

\* pending.Store, then the request is written to the tunnel, under writeMu and
\* without a deadline: while the link is up the write may stay where it is.  It
\* fails once removeClient closed the connection; before that, one on a link
\* the other end has left may be buffered and lost.
SendRequest(r) ==
  /\ rpc[r] = "routed"
  /\ \/ /\ rpc' = [rpc EXCEPT ![r] = "waiting"]
        /\ work' = [work EXCEPT ![r] = IF link[rconn[r]] = "up" THEN "sent" ELSE "lost"]
        /\ rconn[r] \in clients
        /\ UNCHANGED answer
     \/ /\ link[rconn[r]] = "down"
        /\ Finish(r, "unroutable")
        /\ UNCHANGED work
  /\ UNCHANGED <<mgrVars, clientVars, serverVars, link, rsub, rconn, faults>>

\* The client reads the request and starts handleRequest.
Receive(r) ==
  /\ work[r] = "sent"
  /\ \/ /\ cconn[owner[rconn[r]]] = rconn[r]
        /\ work' = [work EXCEPT ![r] = "calling"]
     \/ /\ link[rconn[r]] = "down"
        /\ work' = [work EXCEPT ![r] = "lost"]
  /\ UNCHANGED <<mgrVars, clientVars, serverVars, link, rpc, rsub, rconn, answer, faults>>

\* The call to the local API; a cancelled context fails it.  The response
\* reaches the server's read loop only while the link is up.
CallLocal(r) ==
  /\ work[r] = "calling"
  /\ \E out \in {"ok", "bad_gateway"} :
       /\ out = "ok" => ~cancelled[owner[rconn[r]]]
       /\ work' = [work EXCEPT ![r] = IF link[rconn[r]] = "up" THEN out ELSE "lost"]
  /\ UNCHANGED <<mgrVars, clientVars, serverVars, link, rpc, rsub, rconn, answer, faults>>

\* readLoop hands the response to pending, the handler writes it out.
Respond(r) ==
  /\ rpc[r] = "waiting"
  /\ work[r] \in {"ok", "bad_gateway"}
  /\ spc[rconn[r]] = "serving"
  /\ Finish(r, work[r])
  /\ UNCHANGED <<mgrVars, clientVars, serverVars, link, rsub, rconn, work, faults>>

\* Mutant of Timeout: only a request on a live tunnel times out.
TimeoutWhileUp(r) ==
  /\ rpc[r] = "waiting" /\ link[rconn[r]] = "up"
  /\ Finish(r, "timeout")
  /\ UNCHANGED <<mgrVars, clientVars, serverVars, link, rsub, rconn, work, faults>>

\* time.After(30s).  The waiter is not told when the tunnel goes away.
Timeout(r) ==
  /\ rpc[r] = "waiting"
  /\ Finish(r, "timeout")
  /\ UNCHANGED <<mgrVars, clientVars, serverVars, link, rsub, rconn, work, faults>>

-----------------------------------------------------------------------------
(* Environment *)

LinkBreaks(c) ==
  /\ link[c] = "up"
  /\ NetFault
  /\ link' = [link EXCEPT ![c] = "down"]
  /\ UNCHANGED <<mgrVars, clientVars, serverVars, reqVars>>

\* redis restarts or evicts the key.
KeyLost(s) ==
  /\ key[s] # None
  /\ RedisFault
  /\ key' = [key EXCEPT ![s] = None]
  /\ UNCHANGED <<mgrVars, clientVars, owner, spc, beating, clients, link, reqVars>>

-----------------------------------------------------------------------------
ClientStep(k) ==
  LoopTop(k) \/ Dial(k) \/ DialFails(k) \/ SessionEnds(k) \/ BackoffElapses(k)

ConnStep(c) ==
  \/ Register(c) \/ RefuseRegister(c) \/ SetKey(c)
  \/ SendRegistered(c) \/ SendRegisteredFails(c)
  \/ HeartbeatFails(c) \/ ReadLoopEnds(c) \/ LinkBreaks(c)

RequestStep(r) ==
  \/ \E s \in Subdomains : Lookup(r, s)
  \/ GetClient(r) \/ ReadBody(r) \/ SendRequest(r) \/ Receive(r) \/ CallLocal(r)
  \/ Respond(r) \/ Timeout(r)

Next ==
  \/ Start
  \/ \E t \in Tokens : UpdateToken(t)
  \/ \E k \in Clients : ClientStep(k)
  \/ \E c \in Conns : ConnStep(c)
  \/ \E s \in Subdomains : KeyExpires(s) \/ KeyLost(s)
  \/ \E r \in Requests : RequestStep(r)

Spec == Init /\ [][Next]_vars

\* Every goroutine that can run does run.  Operators, the public, the network
\* and redis owe nothing: a body may never be read to its end, and a write of a
\* request to a link that is up may never end.
FairSpec ==
  /\ Spec
  /\ WF_vars(Start)
  /\ \A k \in Clients :
       WF_vars(LoopTop(k) \/ Dial(k) \/ SessionEnds(k) \/ BackoffElapses(k))
  /\ \A c \in Conns :
       /\ WF_vars(\/ Register(c) \/ RefuseRegister(c) \/ SetKey(c)
                  \/ SendRegistered(c) \/ SendRegisteredFails(c) \/ ReadLoopEnds(c))
       /\ WF_vars(HeartbeatFails(c))
  /\ \A r \in Requests :
       /\ WF_vars(GetClient(r) \/ Respond(r) \/ Timeout(r))
       /\ WF_vars(SendRequest(r) /\ link[rconn[r]] = "down")
       /\ WF_vars(Receive(r) \/ CallLocal(r))

-----------------------------------------------------------------------------
(* What the registry and the tunnel owe the public and the operator. *)

\* A public request only ever travels on a connection that registered with a
\* token of the request's own subdomain, however the key changed between
\* redis.Get, getClient and the write (server.go handlePublicHTTP).
RoutedToOwnSubdomain ==
  \A r \in Requests :
    rconn[r] # None =>
      /\ ctoken[owner[rconn[r]]] \in Admitted
      /\ ConnSub(rconn[r]) = rsub[r]

\* However often the token is replaced, only the client started last keeps a
\* live context; every older one has been cancelled (manager.go UpdateToken).
OneLiveClient ==
  \A k \in Clients : cpc[k] # "unborn" /\ ~cancelled[k] => k = running

\* A client never has two open connections to the relay: a new session starts
\* only after the previous link is gone (client.go runSession, defer Close).
OneLinkPerClient ==
  \A c \in Conns : link[c] = "up" => cconn[owner[c]] = c

\* Whichever of heartbeat, read loop and handler notices the end first, a
\* finished handler leaves neither a map entry nor an open link behind
\* (server.go removeClient).
FinishedIsForgotten ==
  \A c \in Conns : spc[c] = "closed" => c \notin clients /\ link[c] = "down"

\* The strengthening of the four invariants above that every step preserves:
\* nothing runs before Start, a client has a token from birth on, a connection
\* has an owner once dialled, only admitted connections are inserted or named
\* by a key, and a session is exactly a client with a connection.
RelayInv ==
  /\ TypeOK
  /\ ~started => running = None /\ \A k \in Clients : cpc[k] = "unborn"
  /\ \A k \in Clients :
       /\ cpc[k] # "unborn" <=> ctoken[k] \in Tokens
       /\ cpc[k] = "session" <=> cconn[k] \in Conns
  /\ \A c \in Conns :
       /\ spc[c] # "free" => owner[c] \in Clients /\ cpc[owner[c]] # "unborn"
       /\ spc[c] = "free" <=> link[c] = "none"
       /\ spc[c] \in {"inserted", "keyed", "serving"} => ctoken[owner[c]] \in Admitted
       /\ c \in clients => spc[c] \in {"inserted", "keyed", "serving"}
  /\ \A s \in Subdomains :
       key[s] # None =>
         spc[key[s]] # "free" /\ ctoken[owner[key[s]]] \in Admitted /\ ConnSub(key[s]) = s
  /\ \A r \in Requests :
       rconn[r] # None => spc[rconn[r]] # "free" /\ rpc[r] # "idle"
  /\ RoutedToOwnSubdomain /\ OneLiveClient /\ OneLinkPerClient /\ FinishedIsForgotten

\* Each public request implements PublicRequest: whatever the registry says
\* by the time of the write, only the instance of its subdomain is handed it,
\* acts on it at most once, and "offline" or "unroutable" is never said of a
\* request that may still be acted on (server.go handlePublicHTTP, client.go
\* handleRequest).
Public(r) ==
  INSTANCE PublicRequest
    WITH asked <- rpc[r] # "idle", sub <- rsub[r],
         handed <- IF work[r] = "none" THEN None ELSE ConnSub(rconn[r]),
         run <- work[r], answer <- answer[r]
ImplementsPublicRequest ==
  /\ \A r \in Requests : Public(r)!Init
  /\ [][\A r \in Requests : [Public(r)!Next]_(Public(r)!vars)]_vars

\* What no timer of the relay limits: the public's body, and a write to a link
\* that is up.
Untimed(r) == rpc[r] = "reading" \/ (rpc[r] = "routed" /\ link[rconn[r]] = "up")

\* Every public request is answered in the end, whatever happens to the tunnel
\* while it is looked up, written or waited for, unless the public does not
\* finish its body or the tunnel stays up and does not take the request (server.go
\* handlePublicHTTP: the timer of 30 seconds starts after the write).
RequestAnswered ==
  \A r \in Requests : <>[](rpc[r] \in {"idle", "done"} \/ Untimed(r))

Current(k) == running = k /\ ctoken[k] \in Admitted
Serving(k) == cpc[k] = "session" /\ spc[cconn[k]] = "serving"

\* Once the operator leaves the token alone and faults cease, the current
\* client holds a session the server is serving (client.go Start).
Reconnects ==
  \A k \in Clients : <>[]Current(k) => <>[]Serving(k)

\* ... and public requests for its subdomain find a connection.
ReachableAgain ==
  \A k \in Clients :
    <>[]Current(k) => <>[](ctoken[k] \in Tokens /\ key[SubOf[ctoken[k]]] \in clients)
=============================================================================
