------------------------- MODULE ClientSockets_proofs -------------------------
(***************************************************************************)
(* The SDK's realtime client and the web client's sockets, for any number  *)
(* of sockets, calls, channels, changes of channel, attempts and faults.   *)
(* SdkInv is inductive as it stands.  That the line of the web client's    *)
(* selected channel never forks and is never cut rests on every socket     *)
(* going back to a run of the effect there has been, on the timers being   *)
(* those of closed sockets, and on a new socket's number being free.  That *)
(* a conversation shows each message once, and keeps what it shows, rests  *)
(* on what each answer still under way may hold.                           *)
(***************************************************************************)
EXTENDS SdkSocket, ChatSocket, TLAPS

-----------------------------------------------------------------------------
(* The SDK *)

\* The numbers a socket may have, and the state of one that is alive.
LEMMA SocketNumbers == /\ NoSocket \notin SdkSockets
                       /\ \A s \in SdkSockets : s \in Nat
                       /\ \A s \in SdkLive : sdkState[s] # "unborn" /\ sdkState[s] # "closed"
  BY SdkConstantsOK DEF SdkConstantsOK, SdkSockets, NoSocket, SdkLive

LEMMA SdkInitially == SdkInit => SdkInv
<1> SUFFICES ASSUME SdkInit PROVE SdkInv
  OBVIOUS
<1>1. SdkLive = {} /\ SdkUsable = {}
  BY DEF SdkInit, SdkLive, SdkUsable
<1>2. SdkTypeOK
  <2>1. sdkManual \in BOOLEAN
    BY DEF SdkInit
  <2>2. 0 \in 0 .. SdkMaxSockets
    BY SdkConstantsOK DEF SdkConstantsOK
  <2>3. /\ sdkState \in [SdkSockets -> {"unborn", "connecting", "open", "closing", "closed"}]
        /\ sdkCall \in [SdkSockets -> Nat]
    BY DEF SdkInit
  <2>. QED
    BY <2>1, <2>2, <2>3 DEF SdkInit, SdkTypeOK
<1>3. SdkBornOnce
  BY SdkConstantsOK DEF SdkInit, SdkBornOnce, SdkConstantsOK, SdkSockets
<1>4. SdkOneChain /\ SdkSettles /\ SdkSingleCall
  BY <1>1 DEF SdkInit, SdkOneChain, SdkSettles, SdkSingleCall
<1>. QED
  BY <1>2, <1>3, <1>4 DEF SdkInv

\* A new socket keeps the invariant if its call has no other socket and no
\* other timer, and an application that has called once has none at all.
LEMMA NewSocketKeeps ==
  ASSUME SdkInv, NEW c \in Nat, c >= 1, c <= sdkCalls', sdkCalls <= sdkCalls', sdkCalls' \in Nat,
         NewSocket(c), sdkTimers' \subseteq sdkTimers,
         UNCHANGED <<sdkTimer, sdkDisconnects, sdkFaults>>,
         \A s \in SdkLive \cup sdkTimers' : sdkCall[s] # c
  PROVE  SdkInv'
<1> DEFINE new == sdkBorn + 1
<1> USE DEF SdkInv, SdkTypeOK
<1>1. /\ new \in SdkSockets /\ sdkState[new] = "unborn" /\ new \notin sdkTimers /\ new # NoSocket
      /\ sdkBorn' = new /\ sdkSocket' = new /\ sdkManual' = FALSE
      /\ sdkState' = [sdkState EXCEPT ![new] = "connecting"]
      /\ sdkPending' = sdkPending \cup {new}
      /\ sdkCall' = [sdkCall EXCEPT ![new] = c]
  BY SdkConstantsOK DEF NewSocket, SdkConstantsOK, SdkSockets, SdkBornOnce, NoSocket
<1>2. SdkLive' = SdkLive \cup {new} /\ new \notin SdkLive
  BY <1>1 DEF SdkLive
<1>3. SdkTypeOK'
  <2>1. sdkManual' \in BOOLEAN
    BY <1>1
  <2>2. sdkBorn' \in 0 .. SdkMaxSockets
    BY <1>1, SdkConstantsOK DEF SdkConstantsOK, SdkSockets
  <2>3. /\ sdkState' \in [SdkSockets -> {"unborn", "connecting", "open", "closing", "closed"}]
        /\ sdkCall' \in [SdkSockets -> Nat]
    BY <1>1
  <2>. QED
    BY <1>1, <2>1, <2>2, <2>3
<1>4. SdkBornOnce'
  <2>1. \A s \in SdkSockets : s # new =>
          /\ sdkState'[s] = sdkState[s] /\ sdkCall'[s] = sdkCall[s]
          /\ s > sdkBorn' <=> s > sdkBorn
    BY <1>1, SocketNumbers DEF SdkSockets
  <2>2. sdkState'[new] = "connecting" /\ sdkCall'[new] = c
    BY <1>1
  <2>. QED
    BY <1>1, <2>1, <2>2, SocketNumbers DEF SdkBornOnce, SdkSockets
<1>5. SdkOneChain'
  <2>1. SdkLive' \cap sdkTimers' = {}
    BY <1>1, <1>2 DEF SdkOneChain
  <2>2. ASSUME NEW s \in SdkLive' \cup sdkTimers', NEW t \in SdkLive' \cup sdkTimers',
               sdkCall'[s] = sdkCall'[t]
        PROVE  s = t
    <3>1. \A u \in SdkLive \cup sdkTimers' : u # new /\ sdkCall'[u] = sdkCall[u] /\ sdkCall'[u] # c
      BY <1>1, <1>2 DEF SdkLive
    <3>2. sdkCall'[new] = c
      BY <1>1
    <3>3. \A u \in SdkLive' \cup sdkTimers' : u = new \/ u \in SdkLive \cup sdkTimers'
      BY <1>2
    <3>. QED
      BY <2>2, <3>1, <3>2, <3>3 DEF SdkOneChain
  <2>. QED
    BY <2>1, <2>2 DEF SdkOneChain
<1>6. SdkSettles'
  BY <1>1, <1>2 DEF SdkSettles
<1>7. SdkSingleCall'
  <2> SUFFICES ASSUME sdkCalls' <= 1
               PROVE  SdkLive = {} /\ sdkTimers' = {}
    BY <1>1, <1>2 DEF SdkSingleCall, SdkLive, SdkUsable
  <2>1. c = 1
    OBVIOUS
  <2>2. \A s \in SdkLive \cup sdkTimers : s \in SdkSockets /\ sdkCall[s] = 1
    <3> SUFFICES ASSUME NEW s \in SdkLive \cup sdkTimers
                 PROVE  s \in SdkSockets /\ sdkCall[s] = 1
      OBVIOUS
    <3>1. s \in SdkSockets /\ sdkState[s] # "unborn"
      BY SocketNumbers DEF SdkLive, SdkBornOnce
    <3>2. s <= sdkBorn
      BY <3>1, SocketNumbers DEF SdkBornOnce, SdkSockets
    <3>3. sdkCall[s] \in Nat /\ sdkCall[s] >= 1 /\ sdkCall[s] <= sdkCalls
      BY <3>1, <3>2 DEF SdkBornOnce
    <3>. QED
      BY <3>1, <3>3
  <2>. QED
    BY <2>1, <2>2
<1>. QED
  BY <1>3, <1>4, <1>5, <1>6, <1>7

\* An application that called connect() at most once has one socket or timer.
LEMMA OneOfOneCall ==
  ASSUME SdkInv, sdkCalls <= 1
  PROVE  \A s, t \in SdkLive \cup sdkTimers : s = t
<1> SUFFICES ASSUME NEW s \in SdkLive \cup sdkTimers
             PROVE  sdkCall[s] = 1
  BY DEF SdkInv, SdkOneChain
<1>1. s \in SdkSockets /\ sdkState[s] # "unborn"
  BY SocketNumbers DEF SdkInv, SdkTypeOK, SdkLive, SdkBornOnce
<1>2. s <= sdkBorn
  BY <1>1, SocketNumbers DEF SdkInv, SdkTypeOK, SdkBornOnce, SdkSockets
<1>. QED
  BY <1>1, <1>2 DEF SdkInv, SdkTypeOK, SdkBornOnce

LEMMA SdkStep == SdkInv /\ [SdkNext]_sdkVars => SdkInv'
<1> SUFFICES ASSUME SdkInv, [SdkNext]_sdkVars
             PROVE  SdkInv'
  OBVIOUS
<1> USE DEF SdkInv
<1>1. ASSUME SdkConnect
      PROVE  SdkInv'
  <2>1. sdkCalls \in Nat /\ sdkCalls' = sdkCalls + 1 /\ NewSocket(sdkCalls + 1)
    BY <1>1 DEF SdkConnect, SdkTypeOK
  <2>2. \A s \in SdkLive \cup sdkTimers : sdkCall[s] # sdkCalls + 1
    <3>1. \A s \in SdkSockets : sdkCall[s] \in Nat /\ sdkCall[s] <= sdkCalls
      BY DEF SdkTypeOK, SdkBornOnce
    <3>. QED
      BY <2>1, <3>1 DEF SdkTypeOK, SdkLive
  <2>3. UNCHANGED <<sdkTimers, sdkTimer, sdkDisconnects, sdkFaults>>
    BY <1>1 DEF SdkConnect
  <2>. QED
    BY <2>1, <2>2, <2>3, NewSocketKeeps
<1>2. ASSUME SdkDisconnect
      PROVE  SdkInv'
  <2>1. SdkLive' = SdkLive /\ SdkUsable' = SdkUsable \ {sdkSocket} /\ sdkTimers' \subseteq sdkTimers
    BY <1>2 DEF SdkDisconnect, SdkLive, SdkUsable, SdkTypeOK
  <2>2. SdkTypeOK'
    BY <1>2 DEF SdkDisconnect, SdkTypeOK
  <2>3. SdkBornOnce'
    <3>1. \A s \in SdkSockets : /\ sdkState'[s] = "unborn" <=> sdkState[s] = "unborn"
                                /\ sdkState[s] = "closed" => sdkState'[s] = "closed"
      BY <1>2 DEF SdkDisconnect, SdkTypeOK
    <3>2. UNCHANGED <<sdkBorn, sdkCall, sdkCalls>> /\ sdkSocket' = NoSocket
      BY <1>2 DEF SdkDisconnect
    <3>. QED
      BY <2>1, <3>1, <3>2 DEF SdkBornOnce, SdkTypeOK
  <2>4. SdkOneChain' /\ SdkSettles'
    BY <1>2, <2>1 DEF SdkDisconnect, SdkOneChain, SdkSettles
  <2>5. SdkSingleCall'
    BY <1>2, <2>1 DEF SdkDisconnect, SdkSingleCall
  <2>. QED
    BY <2>2, <2>3, <2>4, <2>5
<1>3. ASSUME NEW s \in SdkSockets, SdkOpen(s)
      PROVE  SdkInv'
  <2>1. SdkLive' = SdkLive /\ SdkUsable' = SdkUsable
    BY <1>3 DEF SdkOpen, SdkLive, SdkUsable, SdkTypeOK
  <2>. QED
    BY <1>3, <2>1 DEF SdkOpen, SdkTypeOK, SdkBornOnce, SdkOneChain, SdkSettles, SdkSingleCall
<1>4. ASSUME NEW s \in SdkSockets, SdkError(s)
      PROVE  SdkInv'
  <2>1. SdkLive' = SdkLive /\ SdkUsable' = SdkUsable \ {s}
    BY <1>4 DEF SdkError, SdkLive, SdkUsable, SdkTypeOK
  <2>. QED
    BY <1>4, <2>1 DEF SdkError, SdkTypeOK, SdkBornOnce, SdkOneChain, SdkSettles, SdkSingleCall
<1>5. ASSUME NEW s \in SdkSockets, SdkClosed(s)
      PROVE  SdkInv'
  <2>1. SdkLive' = SdkLive \ {s} /\ SdkUsable' = SdkUsable /\ s \in SdkLive /\ s \notin SdkUsable
    BY <1>5 DEF SdkClosed, SdkLive, SdkUsable, SdkTypeOK
  <2>2. \/ sdkTimers' = sdkTimers \cup {s} /\ sdkTimer' = s /\ ~sdkManual
        \/ UNCHANGED <<sdkTimers, sdkTimer>>
    BY <1>5 DEF SdkClosed, ScheduleReconnect
  <2>3. SdkTypeOK'
    BY <1>5, <2>2 DEF SdkClosed, SdkTypeOK
  <2>4. SdkBornOnce'
    BY <1>5, <2>2 DEF SdkClosed, SdkTypeOK, SdkBornOnce
  <2>5. SdkOneChain'
    BY <1>5, <2>1, <2>2 DEF SdkClosed, SdkOneChain
  <2>6. SdkSettles'
    BY <1>5, <2>1 DEF SdkClosed, SdkSettles
  <2>7. SdkSingleCall'
    <3> SUFFICES ASSUME sdkCalls <= 1
                 PROVE  SdkUsable = {} /\ sdkTimers = {}
      BY <1>5, <2>1, <2>2 DEF SdkClosed, SdkSingleCall
    <3>1. \A t \in SdkLive \cup sdkTimers : t = s
      BY <2>1, OneOfOneCall
    <3>2. SdkUsable \subseteq SdkLive
      BY DEF SdkUsable, SdkLive
    <3>. QED
      BY <2>1, <3>1, <3>2 DEF SdkOneChain
  <2>. QED
    BY <2>3, <2>4, <2>5, <2>6, <2>7
<1>6. ASSUME NEW s \in SdkSockets, SdkReconnect(s)
      PROVE  SdkInv'
  <2>1. s \in sdkTimers /\ sdkTimers' = sdkTimers \ {s} /\ NewSocket(sdkCall[s])
    BY <1>6 DEF SdkReconnect
  <2>2. sdkCall[s] \in Nat /\ sdkCall[s] >= 1 /\ sdkCall[s] <= sdkCalls
    <3>1. sdkState[s] # "unborn"
      BY <2>1 DEF SdkBornOnce
    <3>2. s <= sdkBorn
      BY <3>1, SocketNumbers DEF SdkTypeOK, SdkBornOnce, SdkSockets
    <3>. QED
      BY <3>2 DEF SdkTypeOK, SdkBornOnce
  <2>3. \A t \in SdkLive \cup sdkTimers' : sdkCall[t] # sdkCall[s]
    BY <2>1 DEF SdkOneChain
  <2>4. UNCHANGED <<sdkTimer, sdkCalls, sdkDisconnects, sdkFaults>> /\ sdkCalls \in Nat
    BY <1>6 DEF SdkReconnect, SdkTypeOK
  <2>. QED
    BY <2>1, <2>2, <2>3, <2>4, NewSocketKeeps
<1>7. CASE UNCHANGED sdkVars
  BY <1>7 DEF sdkVars, SdkTypeOK, SdkBornOnce, SdkOneChain, SdkSettles, SdkSingleCall, SdkLive, SdkUsable
<1>. QED
  BY <1>1, <1>2, <1>3, <1>4, <1>5, <1>6, <1>7 DEF SdkNext

\* However often the application connects and disconnects, and in whatever
\* order old sockets report their end, a call of connect() never has two
\* sockets or a socket and a timer, an open promise has a socket that will
\* settle it, and after one connect() a disconnect() leaves nothing that would
\* connect again (realtime.ts connect, disconnect, scheduleReconnect).
THEOREM SdkNeverMultiplies == SdkSpec => []SdkInv
  BY SdkInitially, SdkStep, PTL DEF SdkSpec

-----------------------------------------------------------------------------
(* The web client *)

ChatLinks ==
  /\ \A s \in Sockets : state[s] = "unborn" <=> s > born
  /\ \A s \in timers : state[s] = "closed"
  /\ \A s \in Sockets : chain[s] <= effect

ChatIInv == ChatInv /\ ChatLinks

\* A socket has a number, and none has the number of no socket.
LEMMA ChatNumbers == NoRef \notin Sockets /\ \A s \in Sockets : s \in Nat /\ s > 0
  BY ChatConstantsOK DEF ChatConstantsOK, Sockets, NoRef

LEMMA ChatInitially == ChatInit => ChatIInv
<1> SUFFICES ASSUME ChatInit PROVE ChatIInv
  OBVIOUS
<1>1. /\ state \in [Sockets -> {"unborn", "connecting", "open", "closing", "closed"}]
      /\ \A s \in Sockets : state[s] = "unborn"
      /\ chain \in [Sockets -> Nat] /\ \A s \in Sockets : chain[s] = 0
      /\ chan \in [Sockets -> Channels \cup {None}]
  BY DEF ChatInit
<1>2. 0 \in 0 .. MaxSockets /\ 0 \in 0 .. MaxAttempts
  BY ChatConstantsOK DEF ChatConstantsOK
<1>3. Alive = {} /\ timers = {}
  BY <1>1 DEF Alive, ChatInit
<1>4. status \in {"disconnected", "reconnecting"}
  BY DEF ChatInit
<1>5. ChatTypeOK
  BY <1>1, <1>2, <1>4 DEF ChatInit, ChatTypeOK
<1>6. Chains /\ StatusHonest
  BY <1>3, <1>4 DEF ChatInit, Chains, StatusHonest
<1>7. ChatLinks
  BY <1>1, ChatNumbers DEF ChatInit, ChatLinks
<1>. QED
  BY <1>5, <1>6, <1>7 DEF ChatIInv, ChatInv

\* A new socket for run e, with the others as before or told to close.
LEMMA OpensKeeps ==
  ASSUME ChatIInv, NEW st, NEW c \in Channels \cup {None}, NEW e \in Nat, Opens(st, c, e),
         st \in [Sockets -> {"unborn", "connecting", "open", "closing", "closed"}],
         \A s \in Sockets : st[s] # state[s] => state[s] \in {"connecting", "open"} /\ st[s] = "closing"
  PROVE  /\ born' \in 0 .. MaxSockets /\ wsRef' \in Sockets
         /\ state' \in [Sockets -> {"unborn", "connecting", "open", "closing", "closed"}]
         /\ chan' \in [Sockets -> Channels \cup {None}] /\ chain' \in [Sockets -> Nat]
         /\ \A s \in Sockets : state'[s] = "unborn" <=> s > born'
         /\ born + 1 \in Sockets /\ born + 1 \notin Alive \cup timers
         /\ state'[born + 1] = "connecting" /\ chain'[born + 1] = e
         /\ \A s \in Sockets : s # born + 1 => state'[s] = st[s] /\ chain'[s] = chain[s]
         /\ Alive' = Alive \cup {born + 1}
<1> DEFINE new == born + 1
<1>1. /\ ChatTypeOK /\ ChatLinks
  BY DEF ChatIInv, ChatInv
<1>2. /\ new \in Sockets /\ born' = new /\ wsRef' = new /\ new \in 0 .. MaxSockets /\ born \in Nat
      /\ state' = [st EXCEPT ![new] = "connecting"]
      /\ chan' = [chan EXCEPT ![new] = c] /\ chain' = [chain EXCEPT ![new] = e]
  BY <1>1, ChatConstantsOK DEF Opens, ChatTypeOK, Sockets, ChatConstantsOK
<1>3. state[new] = "unborn"
  BY <1>1, <1>2 DEF ChatLinks
<1>4. /\ state' \in [Sockets -> {"unborn", "connecting", "open", "closing", "closed"}]
      /\ chan' \in [Sockets -> Channels \cup {None}] /\ chain' \in [Sockets -> Nat]
  BY <1>1, <1>2 DEF ChatTypeOK
<1>5. /\ state'[new] = "connecting" /\ chain'[new] = e
      /\ \A s \in Sockets : s # new => state'[s] = st[s] /\ chain'[s] = chain[s]
  BY <1>1, <1>2 DEF ChatTypeOK
<1>6. \A s \in Sockets : state'[s] = "unborn" <=> s > born'
  BY <1>1, <1>2, <1>3, <1>5, ChatNumbers DEF ChatLinks
<1>7. new \notin Alive \cup timers
  BY <1>1, <1>3 DEF Alive, ChatLinks
<1>8. \A s \in Sockets : s # new => (s \in Alive' <=> s \in Alive)
  BY <1>5 DEF Alive
<1>9. Alive \subseteq Sockets /\ Alive' \subseteq Sockets /\ new \in Alive'
  BY <1>2, <1>5 DEF Alive
<1>10. Alive' = Alive \cup {new}
  <2> HIDE DEF new
  <2>. QED
    BY <1>2, <1>7, <1>8, <1>9
<1>. QED
  BY <1>2, <1>4, <1>5, <1>6, <1>7, <1>10

\* What the page does with messages leaves sockets and channel alone.
LEMMA ChatTalkKeeps ==
  ASSUME ChatIInv, UNCHANGED <<access, connection, status, mounted, channel, effect, selects, faults>>
  PROVE  ChatIInv'
<1>1. Alive' = Alive
  BY DEF Alive, connection
<1>2. ChatTypeOK'
  BY DEF ChatIInv, ChatInv, ChatTypeOK, connection
<1>3. Chains' /\ StatusHonest'
  BY <1>1 DEF ChatIInv, ChatInv, Chains, StatusHonest, connection
<1>4. ChatLinks'
  BY DEF ChatIInv, ChatLinks, connection
<1>. QED
  BY <1>2, <1>3, <1>4 DEF ChatIInv, ChatInv

\* The timer's socket takes the place of the one that closed, in the same run.
LEMMA ReconnectKeeps == \A s \in Sockets : ChatIInv /\ Reconnect(s) => ChatIInv'
<1> SUFFICES ASSUME NEW s \in Sockets, ChatIInv, Reconnect(s) PROVE ChatIInv'
  OBVIOUS
<1> DEFINE new == born + 1
<1>0. ChatTypeOK /\ Chains /\ StatusHonest /\ ChatLinks
  BY DEF ChatIInv, ChatInv
<1>1. /\ s \in timers /\ timers' = timers \ {s} /\ Opens(state, chan[s], chain[s])
      /\ status' = (IF mounted THEN "reconnecting" ELSE status)
      /\ UNCHANGED <<access, timeoutRef, attempts, gaveUp, mounted, channel, effect, selects, faults>>
  BY DEF Reconnect, Set, page
<1>2. /\ state \in [Sockets -> {"unborn", "connecting", "open", "closing", "closed"}]
      /\ chan[s] \in Channels \cup {None} /\ chain[s] \in Nat /\ timers \subseteq Sockets
  BY <1>0 DEF ChatTypeOK
<1>3. /\ born' \in 0 .. MaxSockets /\ wsRef' \in Sockets
      /\ state' \in [Sockets -> {"unborn", "connecting", "open", "closing", "closed"}]
      /\ chan' \in [Sockets -> Channels \cup {None}] /\ chain' \in [Sockets -> Nat]
      /\ \A t \in Sockets : state'[t] = "unborn" <=> t > born'
      /\ new \in Sockets /\ new \notin Alive \cup timers
      /\ state'[new] = "connecting" /\ chain'[new] = chain[s]
      /\ \A t \in Sockets : t # new => state'[t] = state[t] /\ chain'[t] = chain[t]
      /\ Alive' = Alive \cup {new}
  BY <1>1, <1>2, OpensKeeps
<1> HIDE DEF new
<1>4. Alive \subseteq Sockets
  BY DEF Alive
<1>5. ChatTypeOK'
  <2>1. status' \in {"connected", "reconnecting", "disconnected"}
    BY <1>0, <1>1 DEF ChatTypeOK
  <2>. QED
    BY <1>0, <1>1, <1>3, <2>1 DEF ChatTypeOK
<1>6. ChatLinks'
  BY <1>0, <1>1, <1>2, <1>3 DEF ChatLinks
<1>7. Chains'
  <2>1. Alive' \cap timers' = {}
    BY <1>0, <1>1, <1>3 DEF Chains
  <2>2. ASSUME NEW t \in Alive' \cup timers', NEW u \in Alive' \cup timers', chain'[t] = chain'[u]
        PROVE  t = u
    <3>1. \A v \in Alive \cup timers' : /\ v # new /\ chain'[v] = chain[v] /\ v # s
                                        /\ v \in Alive \cup timers
      BY <1>0, <1>1, <1>2, <1>3, <1>4 DEF Chains
    <3>2. \A v \in Alive \cup timers' : chain'[v] # chain'[new]
      BY <1>0, <1>1, <1>3, <3>1 DEF Chains
    <3>3. \A v \in Alive' \cup timers' : v = new \/ v \in Alive \cup timers'
      BY <1>3
    <3>. QED
      BY <1>0, <2>2, <3>1, <3>2, <3>3 DEF Chains
  <2>3. mounted' /\ channel' # None /\ access' = "direct" =>
          effect' \in gaveUp' \/ \E t \in Alive' \cup timers' : chain'[t] = effect'
    <3> SUFFICES ASSUME mounted, channel # None, access = "direct", effect \notin gaveUp
                 PROVE  \E t \in Alive' \cup timers' : chain'[t] = effect
      BY <1>1
    <3>1. PICK t \in Alive \cup timers : chain[t] = effect
      BY <1>0 DEF Chains
    <3>2. CASE t = s
      BY <1>3, <3>1, <3>2
    <3>3. CASE t # s
      <4>1. t \in Alive' \cup timers' /\ t # new /\ t \in Sockets
        BY <1>1, <1>2, <1>3, <1>4, <3>1, <3>3
      <4>. QED
        BY <1>3, <3>1, <4>1
    <3>. QED
      BY <3>2, <3>3
  <2>. QED
    BY <2>1, <2>2, <2>3 DEF Chains
<1>8. StatusHonest'
  BY <1>1 DEF StatusHonest
<1>. QED
  BY <1>5, <1>6, <1>7, <1>8 DEF ChatIInv, ChatInv

LEMMA SelectKeeps == \A c \in Channels \cup {None} : ChatIInv /\ Select(c) => ChatIInv'
<1> SUFFICES ASSUME NEW c \in Channels \cup {None}, ChatIInv, Select(c) PROVE ChatIInv'
  OBVIOUS
<1> DEFINE left == [s \in Sockets |-> IF Closing(s) THEN "closing" ELSE state[s]]
           new == born + 1
<1>0. ChatTypeOK /\ Chains /\ StatusHonest /\ ChatLinks
  BY DEF ChatIInv, ChatInv
<1>1. /\ mounted /\ selects' = selects + 1 /\ channel' = c /\ effect' = effect + 1
      /\ timers' = timers \ {timeoutRef} /\ selects \in Nat /\ effect \in Nat
      /\ UNCHANGED <<access, mounted, timeoutRef, attempts, gaveUp, faults>>
  BY <1>0 DEF Select, ChatTypeOK
<1>2. /\ left \in [Sockets -> {"unborn", "connecting", "open", "closing", "closed"}]
      /\ \A s \in Sockets : left[s] # state[s] => state[s] \in {"connecting", "open"} /\ left[s] = "closing"
  BY <1>0 DEF Closing, ChatTypeOK
<1>3. /\ Alive \subseteq Sockets /\ timers \subseteq Sockets
      /\ \A s \in Sockets : chain[s] \in Nat /\ chain[s] < effect'
  BY <1>0, <1>1 DEF Alive, ChatTypeOK, ChatLinks
<1>4. CASE access = "direct" /\ c # None
  <2>1. Opens(left, c, effect') /\ status' = "reconnecting"
    BY <1>1, <1>4 DEF Select
  <2>2. effect' \in Nat
    BY <1>1
  <2>3. /\ born' \in 0 .. MaxSockets /\ wsRef' \in Sockets
        /\ state' \in [Sockets -> {"unborn", "connecting", "open", "closing", "closed"}]
        /\ chan' \in [Sockets -> Channels \cup {None}] /\ chain' \in [Sockets -> Nat]
        /\ \A t \in Sockets : state'[t] = "unborn" <=> t > born'
        /\ new \in Sockets /\ new \notin Alive \cup timers
        /\ state'[new] = "connecting" /\ chain'[new] = effect'
        /\ \A t \in Sockets : t # new => state'[t] = left[t] /\ chain'[t] = chain[t]
        /\ Alive' = Alive \cup {new}
    <3> HIDE DEF left
    <3>. QED
      BY <1>2, <2>1, <2>2, OpensKeeps
  <2> HIDE DEF new, left
  <2>4. ChatTypeOK'
    BY <1>0, <1>1, <2>1, <2>2, <2>3 DEF ChatTypeOK
  <2>5. ChatLinks'
    <3>1. \A t \in Sockets : chain'[t] <= effect'
      BY <1>1, <1>3, <2>3
    <3>2. \A t \in timers' : state'[t] = "closed"
      BY <1>0, <1>1, <1>2, <1>3, <2>3 DEF ChatLinks
    <3>. QED
      BY <2>3, <3>1, <3>2 DEF ChatLinks
  <2>6. Chains'
    <3>1. Alive' \cap timers' = {}
      BY <1>0, <1>1, <2>3 DEF Chains
    <3>2. ASSUME NEW t \in Alive' \cup timers', NEW u \in Alive' \cup timers', chain'[t] = chain'[u]
          PROVE  t = u
      <4>1. \A v \in Alive \cup timers : /\ v # new /\ chain'[v] = chain[v] /\ chain'[v] # effect'
        BY <1>1, <1>3, <2>3
      <4>2. \A v \in Alive' \cup timers' : v = new \/ v \in Alive \cup timers
        BY <1>1, <2>3
      <4>. QED
        BY <1>0, <2>3, <3>2, <4>1, <4>2 DEF Chains
    <3>3. new \in Alive' \cup timers' /\ chain'[new] = effect'
      BY <2>3
    <3>. QED
      BY <3>1, <3>2, <3>3 DEF Chains
  <2>7. StatusHonest'
    BY <2>1 DEF StatusHonest
  <2>. QED
    BY <2>4, <2>5, <2>6, <2>7 DEF ChatIInv, ChatInv
<1>5. CASE ~(access = "direct" /\ c # None)
  <2>1. /\ state' = left /\ wsRef' = NoRef /\ UNCHANGED <<born, chan, chain>>
        /\ status' = (IF access = "relay" /\ c # None THEN "disconnected" ELSE status)
    BY <1>5 DEF Select
  <2>2. Alive' = Alive
    <3>1. \A s \in Sockets : s \in Alive' <=> s \in Alive
      BY <1>2, <2>1 DEF Alive
    <3>2. Alive' \subseteq Sockets
      BY DEF Alive
    <3>. QED
      BY <1>3, <3>1, <3>2
  <2>3. ChatTypeOK'
    <3>1. status' \in {"connected", "reconnecting", "disconnected"}
      BY <1>0, <2>1 DEF ChatTypeOK
    <3>. QED
      BY <1>0, <1>1, <1>2, <2>1, <3>1 DEF ChatTypeOK
  <2>4. ChatLinks'
    BY <1>0, <1>1, <1>2, <1>3, <2>1 DEF ChatLinks
  <2>5. Chains'
    BY <1>0, <1>1, <1>5, <2>1, <2>2 DEF Chains
  <2>6. StatusHonest'
    BY <1>0, <1>1, <1>2, <2>1 DEF StatusHonest
  <2>. QED
    BY <2>3, <2>4, <2>5, <2>6 DEF ChatIInv, ChatInv
<1>. QED
  BY <1>4, <1>5

LEMMA UnmountKeeps == ChatIInv /\ Unmount => ChatIInv'
<1> SUFFICES ASSUME ChatIInv, Unmount PROVE ChatIInv'
  OBVIOUS
<1>0. ChatTypeOK /\ Chains /\ ChatLinks
  BY DEF ChatIInv, ChatInv
<1>1. /\ mounted' = FALSE /\ channel' = None /\ timers' = timers \ {timeoutRef} /\ wsRef' = NoRef
      /\ state' = [s \in Sockets |-> IF Closing(s) THEN "closing" ELSE state[s]]
      /\ UNCHANGED <<access, born, chan, timeoutRef, attempts, status, selects, faults, chain, effect, gaveUp>>
  BY DEF Unmount
<1>2. /\ state' \in [Sockets -> {"unborn", "connecting", "open", "closing", "closed"}]
      /\ \A s \in Sockets : state'[s] # state[s] => state[s] \in {"connecting", "open"} /\ state'[s] = "closing"
  BY <1>0, <1>1 DEF Closing, ChatTypeOK
<1>3. Alive' = Alive
  <2>1. \A s \in Sockets : s \in Alive' <=> s \in Alive
    BY <1>2 DEF Alive
  <2>2. Alive' \subseteq Sockets /\ Alive \subseteq Sockets
    BY DEF Alive
  <2>. QED
    BY <2>1, <2>2
<1>4. ChatTypeOK'
  <2>1. mounted' \in BOOLEAN
    BY <1>1
  <2>. QED
    BY <1>0, <1>1, <1>2, <2>1 DEF ChatTypeOK
<1>5. ChatLinks'
  BY <1>0, <1>1, <1>2 DEF ChatLinks, ChatTypeOK
<1>6. Chains' /\ StatusHonest'
  BY <1>0, <1>1, <1>3 DEF Chains, StatusHonest
<1>. QED
  BY <1>4, <1>5, <1>6 DEF ChatIInv, ChatInv

\* A socket opens or breaks: it stays alive.
LEMMA OpenOrBreakKeeps == \A s \in Sockets : ChatIInv /\ (Open(s) \/ Break(s)) => ChatIInv'
<1> SUFFICES ASSUME NEW s \in Sockets, ChatIInv, Open(s) \/ Break(s) PROVE ChatIInv'
  OBVIOUS
<1>0. ChatTypeOK /\ Chains /\ StatusHonest /\ ChatLinks
  BY DEF ChatIInv, ChatInv
<1>1. PICK to \in {"open", "closing"} :
         /\ state' = [state EXCEPT ![s] = to]
         /\ \/ to = "open"
            \/ to = "closing" /\ status' \in {status, "disconnected"}
  BY DEF Open, Break, Set
<1>2. /\ state[s] \in {"connecting", "open"} /\ attempts' \in {0, attempts}
      /\ status' \in {status, "connected", "disconnected"} /\ faults' \in {faults, faults + 1}
      /\ UNCHANGED <<access, born, chan, wsRef, timers, timeoutRef, chain, gaveUp,
                     mounted, channel, effect, selects>>
  BY DEF Open, Break, Set, page
<1>3. /\ state' \in [Sockets -> {"unborn", "connecting", "open", "closing", "closed"}]
      /\ state'[s] = to /\ \A t \in Sockets : t # s => state'[t] = state[t]
  BY <1>0, <1>1 DEF ChatTypeOK
<1>4. Alive' = Alive
  <2>1. \A t \in Sockets : t \in Alive' <=> t \in Alive
    BY <1>2, <1>3 DEF Alive
  <2>2. Alive' \subseteq Sockets /\ Alive \subseteq Sockets
    BY DEF Alive
  <2>. QED
    BY <2>1, <2>2
<1>5. ChatTypeOK'
  <2>1. attempts' \in 0 .. MaxAttempts /\ faults' \in Nat
    BY <1>0, <1>2, ChatConstantsOK DEF ChatTypeOK, ChatConstantsOK
  <2>2. status' \in {"connected", "reconnecting", "disconnected"}
    BY <1>0, <1>2 DEF ChatTypeOK
  <2>. QED
    BY <1>0, <1>2, <1>3, <2>1, <2>2 DEF ChatTypeOK
<1>6. ChatLinks'
  BY <1>0, <1>2, <1>3 DEF ChatLinks, ChatTypeOK
<1>7. Chains'
  BY <1>0, <1>2, <1>4 DEF Chains
<1>8. StatusHonest'
  <2>1. CASE to = "open"
    BY <1>3, <2>1 DEF StatusHonest
  <2>2. CASE to = "closing"
    <3>1. state'[s] = "closing"
      BY <1>3, <2>2
    <3>. QED
      BY <3>1 DEF StatusHonest
  <2>. QED
    BY <1>1, <2>1, <2>2
<1>. QED
  BY <1>5, <1>6, <1>7, <1>8 DEF ChatIInv, ChatInv

\* A close leaves a timer, or is the end of its run.
LEMMA ClosedKeeps == \A s \in Sockets : ChatIInv /\ Closed(s) => ChatIInv'
<1> SUFFICES ASSUME NEW s \in Sockets, ChatIInv, Closed(s) PROVE ChatIInv'
  OBVIOUS
<1>0. ChatTypeOK /\ Chains /\ StatusHonest /\ ChatLinks
  BY DEF ChatIInv, ChatInv
<1>1. /\ state[s] = "closing" /\ state' = [state EXCEPT ![s] = "closed"]
      /\ \/ /\ attempts < MaxAttempts /\ attempts' = attempts + 1
            /\ status' = (IF mounted THEN "reconnecting" ELSE status)
            /\ timers' = timers \cup {s} /\ timeoutRef' = s /\ UNCHANGED gaveUp
         \/ /\ status' = (IF mounted THEN "disconnected" ELSE status)
            /\ gaveUp' = gaveUp \cup {chain[s]} /\ UNCHANGED <<attempts, timers, timeoutRef>>
      /\ UNCHANGED <<access, born, chan, wsRef, chain, mounted, channel, effect, selects, faults>>
  BY DEF Closed, Set, page
<1>2. /\ state' \in [Sockets -> {"unborn", "connecting", "open", "closing", "closed"}]
      /\ state'[s] = "closed" /\ \A t \in Sockets : t # s => state'[t] = state[t]
  BY <1>0, <1>1 DEF ChatTypeOK
<1>3. s \in Alive /\ Alive' = Alive \ {s}
  <2>1. s \in Alive /\ s \notin Alive' /\ \A t \in Sockets : t # s => (t \in Alive' <=> t \in Alive)
    BY <1>1, <1>2 DEF Alive
  <2>2. Alive' \subseteq Sockets /\ Alive \subseteq Sockets
    BY DEF Alive
  <2>. QED
    BY <2>1, <2>2
<1>4. ChatTypeOK'
  <2>0. attempts \in 0 .. MaxAttempts /\ gaveUp \subseteq Nat /\ chain[s] \in Nat
    BY <1>0 DEF ChatTypeOK
  <2>1. /\ attempts' \in 0 .. MaxAttempts /\ timers' \subseteq Sockets
        /\ timeoutRef' \in Sockets \cup {NoRef} /\ gaveUp' \subseteq Nat
    <3>1. attempts' \in 0 .. MaxAttempts
      BY <1>1, <2>0, ChatConstantsOK DEF ChatConstantsOK
    <3>2. gaveUp' \subseteq Nat
      BY <1>1, <2>0
    <3>3. timers' \subseteq Sockets /\ timeoutRef' \in Sockets \cup {NoRef}
      BY <1>0, <1>1 DEF ChatTypeOK
    <3>. QED
      BY <3>1, <3>2, <3>3
  <2>2. status' \in {"connected", "reconnecting", "disconnected"}
    BY <1>0, <1>1 DEF ChatTypeOK
  <2>. QED
    BY <1>0, <1>1, <1>2, <2>1, <2>2 DEF ChatTypeOK
<1>5. ChatLinks'
  BY <1>0, <1>1, <1>2 DEF ChatLinks, ChatTypeOK
<1>6. Chains'
  <2>1. Alive' \cap timers' = {} /\ Alive' \cup timers' \subseteq Alive \cup timers
    BY <1>0, <1>1, <1>3 DEF Chains
  <2>2. \A t, u \in Alive' \cup timers' : chain'[t] = chain'[u] => t = u
    BY <1>0, <1>1, <2>1 DEF Chains
  <2>3. mounted' /\ channel' # None /\ access' = "direct" =>
          effect' \in gaveUp' \/ \E t \in Alive' \cup timers' : chain'[t] = effect'
    <3> SUFFICES ASSUME mounted, channel # None, access = "direct", effect \notin gaveUp'
                 PROVE  \E t \in Alive' \cup timers' : chain[t] = effect
      BY <1>1
    <3>1. PICK t \in Alive \cup timers : chain[t] = effect
      BY <1>0, <1>1 DEF Chains
    <3>2. CASE t = s
      <4>1. gaveUp' # gaveUp \cup {chain[s]}
        BY <3>1, <3>2
      <4>2. timers' = timers \cup {s}
        BY <1>1, <4>1
      <4>. QED
        BY <3>1, <3>2, <4>2
    <3>3. CASE t # s
      <4>1. t \in Alive' \cup timers'
        BY <1>1, <1>3, <3>1, <3>3
      <4>. QED
        BY <3>1, <4>1
    <3>. QED
      BY <3>2, <3>3
  <2>. QED
    BY <2>1, <2>2, <2>3 DEF Chains
<1>7. StatusHonest'
  BY <1>1 DEF StatusHonest
<1>. QED
  BY <1>4, <1>5, <1>6, <1>7 DEF ChatIInv, ChatInv

LEMMA ChatStep == ChatIInv /\ [ChatNext]_chatVars => ChatIInv'
<1> SUFFICES ASSUME ChatIInv, [ChatNext]_chatVars
             PROVE  ChatIInv'
  OBVIOUS
<1>1. ASSUME NEW c \in Channels \cup {None}, Select(c) PROVE ChatIInv'
  BY <1>1, SelectKeeps
<1>2. ASSUME Unmount PROVE ChatIInv'
  BY <1>2, UnmountKeeps
<1>3. ASSUME NEW s \in Sockets, Open(s) \/ Break(s) \/ Closed(s) \/ Reconnect(s) PROVE ChatIInv'
  BY <1>3, OpenOrBreakKeeps, ClosedKeeps, ReconnectKeeps
<1>4. ASSUME NEW s \in Sockets, ServerSubscribes(s) \/ \E m \in Messages : Receive(s, m) PROVE ChatIInv'
  BY <1>4, ChatTalkKeeps DEF ServerSubscribes, Receive, page
<1>5. ASSUME \/ \E m \in Messages : OthersSend(m)
             \/ \E m \in Own : FrameArrives(m) \/ PostArrives(m)
      PROVE  ChatIInv'
  BY <1>5, ChatTalkKeeps DEF OthersSend, FrameArrives, PostArrives, ServerStores, page
<1>6. ASSUME NEW m \in Own, Send(m) \/ PostReturns(m) \/ PostFails(m) PROVE ChatIInv'
  BY <1>6, ChatTalkKeeps DEF Send, PostReturns, PostFails, page
<1>7. ASSUME LoadAnswered \/ LoadApplied \/ LoadFails PROVE ChatIInv'
  BY <1>7, ChatTalkKeeps DEF LoadAnswered, LoadApplied, LoadFails
<1>8. CASE UNCHANGED chatVars
  BY <1>8, ChatTalkKeeps DEF chatVars, page
<1>. QED
  BY <1>1, <1>2, <1>3, <1>4, <1>5, <1>6, <1>7, <1>8 DEF ChatNext

\* However channels are changed and sockets fail, the sockets and timers of one
\* selection never fork, the selected channel has one of them unless the page
\* gave up, and the page does not say it is connected when none of its sockets
\* is (web useWebSocket.ts, the effect of the socket and its callbacks).
THEOREM SelectedChannelKept == ChatSpec => []ChatInv
<1>1. ChatIInv => ChatInv
  BY DEF ChatIInv
<1>. QED
  BY <1>1, ChatInitially, ChatStep, PTL DEF ChatSpec

-----------------------------------------------------------------------------
(* The messages of the web client *)

Once(q) == \A i, j \in 1 .. Len(q) : q[i] = q[j] => i = j

\* What is shown, was loaded or is on its way is stored, and stored once in the
\* list of its own channel; an own message is stored when its request reaches
\* the instance and not before.
Lists ==
  /\ Once(shown) /\ Once(loaded)
  /\ \A c \in Channels : /\ Once(stored[c])
                         /\ \A m \in Messages : Holds(stored[c], m) => ChanOf[m] = c
  /\ \A m \in Messages : Holds(shown, m) \/ Holds(loaded, m) => Stored(m)
  /\ \A s \in Sockets : \A m \in inbox[s] : Stored(m)
  /\ \A m \in Own : /\ sending[m] \in {"no", "frame", "post"} => ~Stored(m)
                    /\ sending[m] = "reply" => Stored(m)
  /\ load \in {"asked", "answered"} => channel \in Channels

TalkInv == MessagesTypeOK /\ Lists

\* An element appended to a list is in it, and repeats nothing if it was not.
LEMMA AppendHolds ==
  ASSUME NEW S, NEW q \in Seq(S), NEW x \in S
  PROVE  /\ Append(q, x) \in Seq(S)
         /\ \A y : Holds(Append(q, x), y) <=> Holds(q, y) \/ y = x
         /\ Once(q) /\ ~Holds(q, x) => Once(Append(q, x))
<1> DEFINE r == Append(q, x)
<1>1. /\ r \in Seq(S) /\ Len(r) = Len(q) + 1 /\ Len(q) \in Nat
      /\ \A i \in 1 .. Len(q) : r[i] = q[i]
      /\ r[Len(q) + 1] = x
  OBVIOUS
<1> HIDE DEF r
<1>2. ASSUME NEW y PROVE Holds(r, y) <=> Holds(q, y) \/ y = x
  BY <1>1 DEF Holds
<1>3. ASSUME Once(q), ~Holds(q, x) PROVE Once(r)
  BY <1>1, <1>3 DEF Holds, Once
<1>. QED
  BY <1>1, <1>2, <1>3 DEF r

\* A message that is appended is shown, once.
LEMMA AppendedIs ==
  ASSUME TalkInv, NEW m \in Messages
  PROVE  /\ Appended(m) \in Seq(Messages) /\ Once(Appended(m))
         /\ \A y : Holds(Appended(m), y) <=> Holds(shown, y) \/ y = m
<1>1. shown \in Seq(Messages) /\ Once(shown)
  BY DEF TalkInv, MessagesTypeOK, Lists
<1>2. CASE Holds(shown, m)
  BY <1>1, <1>2 DEF Appended
<1>3. CASE ~Holds(shown, m)
  BY <1>1, <1>3, AppendHolds DEF Appended
<1>. QED
  BY <1>2, <1>3

\* Nothing is in the empty list.
LEMMA EmptyList == Once(<<>>) /\ \A S, y : <<>> \in Seq(S) /\ ~Holds(<<>>, y)
  BY DEF Once, Holds

LEMMA TalkInitially == ChatInit => TalkInv
<1> SUFFICES ASSUME ChatInit PROVE TalkInv
  OBVIOUS
<1>1. /\ shown = <<>> /\ loaded = <<>> /\ load = "none"
      /\ stored \in [Channels -> Seq(Messages)] /\ \A c \in Channels : stored[c] = <<>>
      /\ inbox \in [Sockets -> SUBSET Messages] /\ \A s \in Sockets : inbox[s] = {}
      /\ sending \in [Own -> {"no"}] /\ via \in [Own -> {NoRef}] /\ subscribed = {}
  BY DEF ChatInit
<1>2. \A m \in Messages : ~Stored(m)
  BY <1>1, EmptyList, ChatConstantsOK DEF ChatConstantsOK, Stored
<1>3. \A m \in Own : sending[m] = "no" /\ m \in Messages
  BY <1>1, ChatConstantsOK DEF ChatConstantsOK
<1>. QED
  BY <1>1, <1>2, <1>3, EmptyList DEF TalkInv, MessagesTypeOK, Lists

\* The page's lists change, the instance does not: what is then shown, loaded
\* or on its way must have been stored.
LEMMA PageKeeps ==
  ASSUME TalkInv, UNCHANGED stored,
         shown' \in Seq(Messages), loaded' \in Seq(Messages), Once(shown'), Once(loaded'),
         \A m \in Messages : Holds(shown', m) \/ Holds(loaded', m) => Stored(m),
         load' \in {"none", "asked", "answered", "done"},
         load' \in {"asked", "answered"} => channel' \in Channels,
         subscribed' \subseteq Sockets,
         inbox' \in [Sockets -> SUBSET Messages], \A s \in Sockets : inbox'[s] \subseteq inbox[s],
         sending' \in [Own -> {"no", "frame", "post", "reply", "over"}],
         via' \in [Own -> Sockets \cup {NoRef}],
         \A m \in Own : \/ sending'[m] \in {sending[m], "over"}
                        \/ sending[m] = "no" /\ sending'[m] \in {"frame", "post"}
  PROVE  TalkInv'
<1>1. MessagesTypeOK /\ Lists
  BY DEF TalkInv
<1>2. \A m \in Messages : Stored(m)' <=> Stored(m)
  BY DEF Stored
<1>3. MessagesTypeOK'
  BY <1>1 DEF MessagesTypeOK
<1>4. \A m \in Own : m \in Messages /\ sending[m] \in {"no", "frame", "post", "reply", "over"}
  BY <1>1, ChatConstantsOK DEF ChatConstantsOK, MessagesTypeOK
<1>5. \A m \in Own : /\ sending'[m] \in {"no", "frame", "post"} => ~Stored(m)'
                     /\ sending'[m] = "reply" => Stored(m)'
  BY <1>1, <1>2, <1>4 DEF Lists
<1>6. \A s \in Sockets : \A m \in inbox'[s] : Stored(m)'
  BY <1>1, <1>2 DEF Lists, MessagesTypeOK
<1>7. \A c \in Channels : /\ Once(stored'[c])
                          /\ \A m \in Messages : Holds(stored'[c], m) => ChanOf[m] = c
  BY <1>1 DEF Lists
<1>8. Once(shown)' /\ Once(loaded)'
  BY DEF Once
<1>9. \A m \in Messages : Holds(shown, m)' \/ Holds(loaded, m)' => Stored(m)'
  BY <1>2 DEF Holds
<1>10. \A c \in Channels : Once(stored[c])' /\ \A m \in Messages : Holds(stored[c], m)' => ChanOf[m] = c
  BY <1>7 DEF Once, Holds
<1>. QED
  BY <1>3, <1>5, <1>6, <1>8, <1>9, <1>10 DEF TalkInv, Lists

\* The instance stores a message it does not have: everything that was stored
\* still is, and the message now is, in the list of its channel.
LEMMA StoresKeeps ==
  ASSUME TalkInv, NEW m \in Messages, ServerStores(m), ~Stored(m),
         sending' \in [Own -> {"no", "frame", "post", "reply", "over"}],
         m \in Own => sending'[m] \in {"reply", "over"},
         \A n \in Own : n # m => sending'[n] = sending[n]
  PROVE  TalkInv'
<1> DEFINE c == ChanOf[m]
<1>1. MessagesTypeOK /\ Lists /\ c \in Channels
  BY ChatConstantsOK DEF TalkInv, ChatConstantsOK
<1>2. /\ stored \in [Channels -> Seq(Messages)] /\ stored[c] \in Seq(Messages)
      /\ stored' = [stored EXCEPT ![c] = Append(stored[c], m)]
      /\ UNCHANGED <<shown, load, loaded, channel, subscribed, via>>
  BY <1>1 DEF ServerStores, MessagesTypeOK, page
<1> HIDE DEF c
<1>3. /\ Append(stored[c], m) \in Seq(Messages)
      /\ \A y : Holds(Append(stored[c], m), y) <=> Holds(stored[c], y) \/ y = m
      /\ Once(Append(stored[c], m))
  <2>1. Once(stored[c]) /\ ~Holds(stored[c], m)
    BY <1>1 DEF Lists, Stored, c
  <2>. QED
    BY <1>2, <2>1, AppendHolds
<1>4. /\ stored' \in [Channels -> Seq(Messages)] /\ stored'[c] = Append(stored[c], m)
      /\ \A d \in Channels : d # c => stored'[d] = stored[d]
  BY <1>1, <1>2, <1>3
<1>5. \A y \in Messages : Stored(y)' <=> Stored(y) \/ y = m
  <2> SUFFICES ASSUME NEW y \in Messages PROVE Stored(y)' <=> Stored(y) \/ y = m
    OBVIOUS
  <2>1. ChanOf[y] \in Channels /\ (Stored(y)' <=> Holds(stored'[ChanOf[y]], y))
    BY ChatConstantsOK DEF ChatConstantsOK, Stored, Holds
  <2>2. CASE ChanOf[y] = c
    BY <1>3, <1>4, <2>1, <2>2 DEF Stored
  <2>3. CASE ChanOf[y] # c
    BY <1>4, <2>1, <2>3 DEF Stored, c
  <2>. QED
    BY <2>2, <2>3
<1>6. /\ inbox' \in [Sockets -> SUBSET Messages]
      /\ \A s \in Sockets : inbox'[s] \subseteq inbox[s] \cup {m}
  BY <1>1 DEF ServerStores, MessagesTypeOK
<1>7. MessagesTypeOK'
  BY <1>1, <1>2, <1>4, <1>6 DEF MessagesTypeOK
<1>8. \A d \in Channels : /\ Once(stored[d])'
                          /\ \A y \in Messages : Holds(stored[d], y)' => ChanOf[y] = d
  <2> SUFFICES ASSUME NEW d \in Channels
               PROVE  /\ Once(stored'[d])
                      /\ \A y \in Messages : Holds(stored'[d], y) => ChanOf[y] = d
    BY DEF Once, Holds
  <2>1. CASE d = c
    BY <1>1, <1>3, <1>4, <2>1 DEF Lists, c
  <2>2. CASE d # c
    BY <1>1, <1>4, <2>2 DEF Lists
  <2>. QED
    BY <2>1, <2>2
<1>9. \A y \in Messages : Holds(shown, y)' \/ Holds(loaded, y)' => Stored(y)'
  BY <1>1, <1>2, <1>5 DEF Holds, Lists
<1>10. Once(shown)' /\ Once(loaded)'
  BY <1>1, <1>2 DEF Once, Lists
<1>11. \A s \in Sockets : \A y \in inbox'[s] : Stored(y)'
  BY <1>1, <1>5, <1>6 DEF Lists, MessagesTypeOK
<1>12. \A n \in Own : /\ sending'[n] \in {"no", "frame", "post"} => ~Stored(n)'
                      /\ sending'[n] = "reply" => Stored(n)'
  <2>1. Own \subseteq Messages
    BY ChatConstantsOK DEF ChatConstantsOK
  <2>. QED
    BY <1>1, <1>5, <2>1 DEF Lists
<1>13. load' \in {"asked", "answered"} => channel' \in Channels
  BY <1>1, <1>2 DEF Lists
<1>. QED
  BY <1>7, <1>8, <1>9, <1>10, <1>11, <1>12, <1>13 DEF TalkInv, Lists

\* Sockets, timers and broken sends: the messages stay what they are, some are
\* no longer on their way.
LEMMA SocketsKeepTalk ==
  ASSUME TalkInv, NEW s \in Sockets, Open(s) \/ Break(s) \/ Closed(s) \/ Reconnect(s) \/ ServerSubscribes(s)
  PROVE  TalkInv'
<1>1. MessagesTypeOK /\ Lists
  BY DEF TalkInv
<1>2. /\ UNCHANGED <<stored, shown, load, loaded, channel, via>>
      /\ subscribed' \subseteq subscribed \cup {s}
      /\ inbox' \in [Sockets -> SUBSET Messages] /\ \A t \in Sockets : inbox'[t] \subseteq inbox[t]
  BY <1>1 DEF Open, Break, Closed, Reconnect, ServerSubscribes, MessagesTypeOK, server, page
<1>3. /\ sending' \in [Own -> {"no", "frame", "post", "reply", "over"}]
      /\ \A m \in Own : sending'[m] \in {sending[m], "over"}
  BY <1>1 DEF Open, Break, Closed, Reconnect, ServerSubscribes, MessagesTypeOK
<1>. QED
  BY <1>1, <1>2, <1>3, PageKeeps DEF MessagesTypeOK, Lists

LEMMA ReceiveKeepsTalk ==
  ASSUME TalkInv, NEW s \in Sockets, NEW m \in Messages, Receive(s, m) PROVE TalkInv'
<1>1. MessagesTypeOK /\ Lists /\ Stored(m)
  BY DEF TalkInv, Lists, Receive
<1>2. /\ UNCHANGED <<stored, load, loaded, channel, subscribed, sending, via>>
      /\ inbox' \in [Sockets -> SUBSET Messages] /\ \A t \in Sockets : inbox'[t] \subseteq inbox[t]
      /\ shown' \in {Appended(m), shown}
  BY <1>1 DEF Receive, MessagesTypeOK
<1>3. /\ shown' \in Seq(Messages) /\ Once(shown')
      /\ \A y \in Messages : Holds(shown', y) => Stored(y)
  BY <1>1, <1>2, AppendedIs DEF MessagesTypeOK, Lists
<1>. QED
  BY <1>1, <1>2, <1>3, PageKeeps DEF MessagesTypeOK, Lists

LEMMA OwnKeepsTalk ==
  ASSUME TalkInv, ChatTypeOK, NEW m \in Own, Send(m) \/ PostReturns(m) \/ PostFails(m)
  PROVE  TalkInv'
<1>1. MessagesTypeOK /\ Lists /\ m \in Messages
  BY ChatConstantsOK DEF TalkInv, ChatConstantsOK
<1>2. /\ UNCHANGED <<stored, load, loaded, channel, subscribed, inbox>>
      /\ shown' \in {Appended(m), shown} /\ (shown' # shown => Stored(m))
  BY <1>1 DEF Send, PostReturns, PostFails, Lists, server, page
<1>3. /\ shown' \in Seq(Messages) /\ Once(shown')
      /\ \A y \in Messages : Holds(shown', y) => Stored(y)
  BY <1>1, <1>2, AppendedIs DEF MessagesTypeOK, Lists
<1>4. /\ sending' \in [Own -> {"no", "frame", "post", "reply", "over"}]
      /\ \A n \in Own : \/ sending'[n] \in {sending[n], "over"}
                        \/ sending[n] = "no" /\ sending'[n] \in {"frame", "post"}
  BY <1>1 DEF Send, PostReturns, PostFails, MessagesTypeOK
<1>5. via' \in [Own -> Sockets \cup {NoRef}]
  <2>1. CASE Send(m) /\ wsRef # NoRef /\ state[wsRef] = "open"
    BY <1>1, <2>1 DEF Send, MessagesTypeOK, ChatTypeOK
  <2>2. CASE ~(Send(m) /\ wsRef # NoRef /\ state[wsRef] = "open")
    BY <1>1, <2>2 DEF Send, PostReturns, PostFails, MessagesTypeOK
  <2>. QED
    BY <2>1, <2>2
<1>. QED
  BY <1>1, <1>2, <1>3, <1>4, <1>5, PageKeeps DEF MessagesTypeOK, Lists

\* Another channel is selected, or the page goes.
LEMMA SelectKeepsTalk ==
  ASSUME TalkInv, NEW c \in Channels \cup {None}, Select(c) \/ Unmount PROVE TalkInv'
<1>1. MessagesTypeOK /\ Lists
  BY DEF TalkInv
<1>2. /\ UNCHANGED <<stored, subscribed, inbox, sending, via>>
      /\ loaded' = <<>> /\ shown' \in {shown, <<>>} /\ load' \in {"none", "asked"}
      /\ load' = "asked" => channel' \in Channels
  BY DEF Select, Unmount, server
<1>3. /\ shown' \in Seq(Messages) /\ loaded' \in Seq(Messages) /\ Once(shown') /\ Once(loaded')
      /\ \A m \in Messages : Holds(shown', m) \/ Holds(loaded', m) => Stored(m)
  BY <1>1, <1>2, EmptyList DEF MessagesTypeOK, Lists
<1>. QED
  BY <1>1, <1>2, <1>3, PageKeeps DEF MessagesTypeOK

\* The answer to a load is the list the instance has at that moment; it is
\* shown later, and what came in between is gone from the screen.
LEMMA LoadKeepsTalk ==
  ASSUME TalkInv, LoadAnswered \/ LoadApplied \/ LoadFails PROVE TalkInv'
<1>1. MessagesTypeOK /\ Lists
  BY DEF TalkInv
<1>2. /\ UNCHANGED <<stored, subscribed, inbox, sending, via, channel>>
      /\ shown' \in {shown, loaded, <<>>} /\ load' \in {"answered", "done"}
      /\ load' = "answered" => channel' \in Channels
  BY <1>1 DEF LoadAnswered, LoadApplied, LoadFails, Lists, server
<1>3. \/ loaded' \in {loaded, <<>>}
      \/ channel \in Channels /\ loaded' = stored[channel]
  BY <1>1 DEF LoadAnswered, LoadApplied, LoadFails, Lists
<1>4. ASSUME channel \in Channels
      PROVE  /\ stored[channel] \in Seq(Messages) /\ Once(stored[channel])
             /\ \A m \in Messages : Holds(stored[channel], m) => Stored(m)
  BY <1>1, <1>4 DEF MessagesTypeOK, Lists, Stored
<1>5. /\ loaded' \in Seq(Messages) /\ Once(loaded')
      /\ \A m \in Messages : Holds(loaded', m) => Stored(m)
  BY <1>1, <1>3, <1>4, EmptyList DEF MessagesTypeOK, Lists
<1>6. /\ shown' \in Seq(Messages) /\ Once(shown')
      /\ \A m \in Messages : Holds(shown', m) => Stored(m)
  BY <1>1, <1>2, EmptyList DEF MessagesTypeOK, Lists
<1>. QED
  BY <1>1, <1>2, <1>5, <1>6, PageKeeps DEF MessagesTypeOK

LEMMA ServerKeepsTalk ==
  ASSUME TalkInv, NEW m \in Messages,
         OthersSend(m) \/ (m \in Own /\ (FrameArrives(m) \/ PostArrives(m)))
  PROVE  TalkInv'
<1>1. MessagesTypeOK /\ Lists
  BY DEF TalkInv
<1>2. ServerStores(m) /\ ~Stored(m)
  BY <1>1 DEF OthersSend, FrameArrives, PostArrives, Lists
<1>3. /\ sending' \in [Own -> {"no", "frame", "post", "reply", "over"}]
      /\ m \in Own => sending'[m] \in {"reply", "over"}
      /\ \A n \in Own : n # m => sending'[n] = sending[n]
  BY <1>1 DEF OthersSend, FrameArrives, PostArrives, MessagesTypeOK
<1>. QED
  BY <1>2, <1>3, StoresKeeps

LEMMA TalkStep == TalkInv /\ ChatIInv /\ [ChatNext]_chatVars => TalkInv'
<1> SUFFICES ASSUME TalkInv, ChatTypeOK, [ChatNext]_chatVars PROVE TalkInv'
  BY DEF ChatIInv, ChatInv
<1>1. ASSUME NEW c \in Channels \cup {None}, Select(c) PROVE TalkInv'
  BY <1>1, SelectKeepsTalk
<1>2. CASE Unmount
  BY <1>2, SelectKeepsTalk
<1>3. ASSUME NEW s \in Sockets, Open(s) \/ Break(s) \/ Closed(s) \/ Reconnect(s) \/ ServerSubscribes(s)
      PROVE  TalkInv'
  BY <1>3, SocketsKeepTalk
<1>4. ASSUME NEW s \in Sockets, NEW m \in Messages, Receive(s, m) PROVE TalkInv'
  BY <1>4, ReceiveKeepsTalk
<1>5. ASSUME NEW m \in Messages, OthersSend(m) PROVE TalkInv'
  BY <1>5, ServerKeepsTalk
<1>6. ASSUME NEW m \in Own, FrameArrives(m) \/ PostArrives(m) PROVE TalkInv'
  BY <1>6, ServerKeepsTalk, ChatConstantsOK DEF ChatConstantsOK
<1>7. ASSUME NEW m \in Own, Send(m) \/ PostReturns(m) \/ PostFails(m) PROVE TalkInv'
  BY <1>7, OwnKeepsTalk
<1>8. CASE LoadAnswered \/ LoadApplied \/ LoadFails
  BY <1>8, LoadKeepsTalk
<1>9. CASE UNCHANGED chatVars
  <2>1. UNCHANGED <<shown, loaded, stored, load, channel, subscribed, inbox, sending, via>>
    BY <1>9 DEF chatVars, server, page
  <2>. QED
    BY <2>1, PageKeeps DEF TalkInv, MessagesTypeOK, Lists
<1>. QED
  BY <1>1, <1>2, <1>3, <1>4, <1>5, <1>6, <1>7, <1>8, <1>9 DEF ChatNext

LEMMA TalkAlways == ChatSpec => [](ChatIInv /\ TalkInv)
  BY ChatInitially, ChatStep, TalkInitially, TalkStep, PTL DEF ChatSpec

\* A message that comes by the load, by several sockets and by the answer to a
\* request is on the screen once, and nothing is that the instance did not store
\* (web useWebSocket.ts, the check before each append).
THEOREM ConversationShownOnce == ChatSpec => []ShownOnce
<1>1. TalkInv => ShownOnce
  <2> SUFFICES ASSUME MessagesTypeOK, Lists PROVE ShownOnce
    BY DEF TalkInv
  <2>1. \A i \in 1 .. Len(shown) : shown[i] \in Messages /\ Holds(shown, shown[i])
    BY DEF MessagesTypeOK, Holds
  <2>. QED
    BY <2>1 DEF Lists, Once, ShownOnce
<1>. QED
  BY <1>1, TalkAlways, PTL

\* Once the selected channel is loaded, no frame, answer, broken socket or
\* reconnect takes a message off the screen (web useWebSocket.ts).
THEOREM NothingDisappears == ChatSpec => StaysShown
<1> DEFINE Stays == load = "done" /\ effect' = effect /\ mounted' => Displayed \subseteq Displayed'
<1>1. ASSUME TalkInv, ChatIInv, ChatNext, load = "done", effect' = effect, mounted'
      PROVE  shown' = shown \/ \E m \in Messages : shown' = Appended(m)
  <2>1. effect \in Nat /\ Own \subseteq Messages
    BY <1>1, ChatConstantsOK DEF ChatIInv, ChatInv, ChatTypeOK, ChatConstantsOK
  <2>2. ASSUME NEW c \in Channels \cup {None}, Select(c) PROVE FALSE
    BY <1>1, <2>1, <2>2 DEF Select
  <2>3. ~Unmount /\ ~LoadAnswered /\ ~LoadApplied /\ ~LoadFails
    BY <1>1 DEF Unmount, LoadAnswered, LoadApplied, LoadFails
  <2>4. ASSUME NEW s \in Sockets, Open(s) \/ Break(s) \/ Closed(s) \/ Reconnect(s) \/ ServerSubscribes(s)
        PROVE  shown' = shown
    BY <2>4 DEF Open, Break, Closed, Reconnect, ServerSubscribes, page
  <2>5. ASSUME NEW s \in Sockets, NEW m \in Messages, Receive(s, m) PROVE shown' \in {shown, Appended(m)}
    BY <2>5 DEF Receive
  <2>6. ASSUME NEW m \in Messages, OthersSend(m) \/ FrameArrives(m) \/ PostArrives(m)
        PROVE  shown' = shown
    BY <2>6 DEF OthersSend, FrameArrives, PostArrives, ServerStores, page
  <2>7. ASSUME NEW m \in Own, Send(m) \/ PostReturns(m) \/ PostFails(m)
        PROVE  shown' \in {shown, Appended(m)}
    BY <2>7 DEF Send, PostReturns, PostFails, page
  <2>. QED
    BY <1>1, <2>1, <2>2, <2>3, <2>4, <2>5, <2>6, <2>7 DEF ChatNext
<1>2. \A x : Holds(shown, x) <=> x \in Displayed
  BY DEF Holds, Displayed
<1>3. TalkInv /\ ChatIInv /\ [ChatNext]_chatVars => [Stays]_chatVars
  <2> SUFFICES ASSUME TalkInv, ChatIInv, ChatNext, load = "done", effect' = effect, mounted'
               PROVE  Displayed \subseteq Displayed'
    OBVIOUS
  <2>1. shown' = shown \/ \E m \in Messages : shown' = Appended(m)
    BY <1>1
  <2>2. \A y : Holds(shown, y) => Holds(shown', y)
    BY <2>1, AppendedIs
  <2>3. \A x : x \in Displayed' <=> Holds(shown', x)
    BY DEF Holds, Displayed
  <2>. QED
    BY <1>2, <2>2, <2>3
<1>. QED
  BY <1>3, TalkAlways, PTL DEF ChatSpec, StaysShown
=============================================================================
