--------------------------- MODULE DesktopSocket ---------------------------
(***************************************************************************)
(* The desktop client's connection and conversation:                       *)
(* apps/desktop/src/services/WebSocketService.ts and hooks/useWebSocket.ts *)
(* as App.final.tsx and MainContent.tsx use them.                          *)
(*                                                                         *)
(* The hook takes the service singleton when it renders and replaces it in *)
(* an effect after the first render: the first service is connected and    *)
(* then abandoned for the second when the hook renders again.              *)
(* Nothing arrives over the socket: the server sends a channel's frames to *)
(* subscribed sockets only (websocket_handler_v2.go) and this client       *)
(* never subscribes.  Messages come by requests, which each connection and *)
(* each selection make.                                                    *)
(***************************************************************************)
EXTENDS Integers, Sequences, FiniteSets

CONSTANTS DeskChannels, DeskMessages,
          DeskChanOf,       \* the channel of a message
          DeskOwn,          \* the messages this window sends
          DeskMaxSockets, DeskMaxAttempts, DeskMaxSelects, DeskMaxFaults,
          DeskNone

ASSUME DeskConstantsOK ==
  /\ DeskChanOf \in [DeskMessages -> DeskChannels]
  /\ DeskOwn \subseteq DeskMessages /\ DeskNone \notin DeskChannels
  /\ DeskMaxSockets \in Nat \ {0, 1} /\ DeskMaxAttempts \in Nat
  /\ DeskMaxSelects \in Nat /\ DeskMaxFaults \in Nat

Services == {1, 2}
DeskSockets == 1 .. DeskMaxSockets
DeskNoSocket == 0

VARIABLES
  deskBound,       \* the service the hook's callbacks are bound to
  deskBorn, deskState, deskOwner,  \* sockets: created, readyState, their service
  deskWs, deskIsConnecting, deskAttempts,  \* of each service: ws, isConnecting, reconnectAttempts
  deskTimer,       \* services with a reconnectTimer
  deskConnected, deskConnecting,   \* the hook's state
  deskListed,      \* the channels have been fetched
  deskActive,      \* activeChannel
  deskShown,       \* messages: of each channel
  deskLoads,       \* loads under way: number, channel, and the answer if there is one
  deskLoadCount,
  deskSending,     \* an own message: where it is
  deskStored,      \* at the server: the messages of each channel
  deskSelects, deskFaults,
  deskEnded        \* history: services that gave up, or whose peer said goodbye

deskLink == <<deskBorn, deskState, deskOwner, deskWs, deskIsConnecting, deskAttempts,
              deskTimer, deskEnded, deskBound>>
deskTalk == <<deskShown, deskSending, deskStored>>
deskVars == <<deskLink, deskTalk, deskConnected, deskConnecting, deskListed, deskActive,
              deskLoads, deskLoadCount, deskSelects, deskFaults>>

\* connect() of a service that has no open socket and is not connecting: only
\* these occur, and a socket still opening is the one it is connecting with.
DeskOpens(f, st) ==
  LET s == deskBorn + 1 IN
  /\ deskBorn < DeskMaxSockets
  /\ deskBorn' = s
  /\ deskState' = [st EXCEPT ![s] = "connecting"]
  /\ deskOwner' = [deskOwner EXCEPT ![s] = f]

\* disconnect() of a service.  Closing an open socket is clean, closing one that
\* is still opening is not.
DeskLeft(f) ==
  [s \in DeskSockets |->
     CASE s = deskWs[f] /\ deskState[s] = "open" -> "leaving"
       [] s = deskWs[f] /\ deskState[s] = "connecting" -> "broken"
       [] OTHER -> deskState[s]]

\* The first render and its effects: the singleton is replaced, then the first
\* service, which the render took, is connected.
DeskInit ==
  /\ deskBound = 1
  /\ deskBorn = 1
  /\ deskState = [s \in DeskSockets |-> IF s = 1 THEN "connecting" ELSE "unborn"]
  /\ deskOwner = [s \in DeskSockets |-> 1]
  /\ deskWs = [f \in Services |-> IF f = 1 THEN 1 ELSE DeskNoSocket]
  /\ deskIsConnecting = [f \in Services |-> f = 1]
  /\ deskAttempts = [f \in Services |-> 0] /\ deskTimer = {}
  /\ deskConnected = FALSE /\ deskConnecting = TRUE
  /\ deskListed = FALSE /\ deskActive = DeskNone
  /\ deskShown = [c \in DeskChannels |-> <<>>]
  /\ deskLoads = {} /\ deskLoadCount = 0
  /\ deskSending = [m \in DeskOwn |-> "no"] /\ deskStored = [c \in DeskChannels |-> <<>>]
  /\ deskSelects = 0 /\ deskFaults = 0 /\ deskEnded = {}

\* The second render: the callbacks change, so their effects are cleaned up
\* (disconnect() of the first service) and run for the second.
DeskRebind ==
  /\ deskBound = 1
  /\ deskBound' = 2
  /\ DeskOpens(2, DeskLeft(1))
  /\ deskWs' = [deskWs EXCEPT ![1] = DeskNoSocket, ![2] = deskBorn + 1]
  /\ deskIsConnecting' = [deskIsConnecting EXCEPT ![2] = TRUE]
  /\ deskTimer' = deskTimer \ {1}
  /\ deskConnecting' = TRUE
  /\ UNCHANGED <<deskTalk, deskAttempts, deskEnded, deskConnected, deskListed, deskActive,
                 deskLoads, deskLoadCount, deskSelects, deskFaults>>

\* The effect that fetches the messages of c; nothing cancels an earlier one.
DeskAsks(c) ==
  IF c = DeskNone THEN UNCHANGED <<deskLoads, deskLoadCount>>
  ELSE /\ deskLoadCount' = deskLoadCount + 1
       /\ deskLoads' = deskLoads \cup
            {[n |-> deskLoadCount + 1, chan |-> c, answered |-> FALSE, list |-> <<>>]}

\* onopen.  The hook hears of it if the service is the one it is bound to; it
\* fetches the messages again if it was not connected.
DeskOpen(s) ==
  LET f == deskOwner[s] IN
  /\ deskState[s] = "connecting"
  /\ deskState' = [deskState EXCEPT ![s] = "open"]
  /\ deskIsConnecting' = [deskIsConnecting EXCEPT ![f] = FALSE]
  /\ deskAttempts' = [deskAttempts EXCEPT ![f] = 0]
  /\ IF f = deskBound
     THEN /\ deskConnected' = TRUE /\ deskConnecting' = FALSE
          /\ DeskAsks(IF deskConnected THEN DeskNone ELSE deskActive)
     ELSE UNCHANGED <<deskConnected, deskConnecting, deskLoads, deskLoadCount>>
  /\ UNCHANGED <<deskTalk, deskBound, deskBorn, deskOwner, deskWs, deskTimer, deskEnded,
                 deskListed, deskActive, deskSelects, deskFaults>>

\* Mutant of DeskBreak: onerror schedules a reconnect as well.
DeskBreakSchedules(s, how) ==
  /\ deskFaults < DeskMaxFaults
  /\ deskFaults' = deskFaults + 1
  /\ deskState[s] \in {"connecting", "open"} /\ how = "broken"
  /\ deskState' = [deskState EXCEPT ![s] = how]
  /\ deskTimer' = deskTimer \cup {deskOwner[s]}
  /\ UNCHANGED <<deskTalk, deskBound, deskBorn, deskOwner, deskWs, deskIsConnecting,
                 deskAttempts, deskEnded, deskConnected, deskConnecting,
                 deskListed, deskActive, deskLoads, deskLoadCount, deskSelects>>

\* The connection breaks, or the peer closes it with a close frame.
DeskBreak(s, how) ==
  /\ deskFaults < DeskMaxFaults
  /\ deskFaults' = deskFaults + 1
  /\ \/ deskState[s] \in {"connecting", "open"} /\ how = "broken"
     \/ deskState[s] = "open" /\ how = "leaving"
  /\ deskState' = [deskState EXCEPT ![s] = how]
  /\ UNCHANGED <<deskTalk, deskBound, deskBorn, deskOwner, deskWs, deskIsConnecting,
                 deskAttempts, deskTimer, deskEnded, deskConnected, deskConnecting,
                 deskListed, deskActive, deskLoads, deskLoadCount, deskSelects>>

\* onclose: scheduleReconnect() keeps the timer there is.
DeskClosed(s) ==
  LET f == deskOwner[s] IN
  /\ deskState[s] \in {"broken", "leaving"}
  /\ deskState' = [deskState EXCEPT ![s] = "closed"]
  /\ deskIsConnecting' = [deskIsConnecting EXCEPT ![f] = FALSE]
  /\ IF f = deskBound THEN deskConnected' = FALSE /\ deskConnecting' = FALSE
     ELSE UNCHANGED <<deskConnected, deskConnecting>>
  /\ IF deskState[s] = "broken" /\ deskAttempts[f] < DeskMaxAttempts
     THEN deskTimer' = deskTimer \cup {f} /\ UNCHANGED deskEnded
     ELSE deskEnded' = deskEnded \cup {f} /\ UNCHANGED deskTimer
  /\ UNCHANGED <<deskTalk, deskBound, deskBorn, deskOwner, deskWs, deskAttempts, deskListed,
                 deskActive, deskLoads, deskLoadCount, deskSelects, deskFaults>>

\* The reconnect timer; the page keeps showing "offline" meanwhile.
DeskReconnect(f) ==
  /\ f \in deskTimer
  /\ deskTimer' = deskTimer \ {f}
  /\ deskAttempts' = [deskAttempts EXCEPT ![f] = @ + 1]
  /\ DeskOpens(f, deskState)
  /\ deskWs' = [deskWs EXCEPT ![f] = deskBorn + 1]
  /\ deskIsConnecting' = [deskIsConnecting EXCEPT ![f] = TRUE]
  /\ UNCHANGED <<deskTalk, deskBound, deskEnded, deskConnected, deskConnecting, deskListed,
                 deskActive, deskLoads, deskLoadCount, deskSelects, deskFaults>>

-----------------------------------------------------------------------------
\* The fetch of the channels that a connection starts is answered.
DeskList ==
  /\ deskConnected /\ ~deskListed
  /\ deskListed' = TRUE
  /\ UNCHANGED <<deskLink, deskTalk, deskConnected, deskConnecting, deskActive, deskLoads,
                 deskLoadCount, deskSelects, deskFaults>>

\* What the sidebar offers, connected or not.
DeskOffered == IF deskListed THEN DeskChannels ELSE {}

DeskSelect(c) ==
  /\ c \in DeskOffered \ {deskActive}
  /\ deskSelects < DeskMaxSelects
  /\ deskSelects' = deskSelects + 1
  /\ deskActive' = c
  /\ DeskAsks(IF deskConnected THEN c ELSE DeskNone)
  /\ UNCHANGED <<deskLink, deskTalk, deskConnected, deskConnecting, deskListed, deskFaults>>

DeskAnswer(l) ==
  /\ l \in deskLoads /\ ~l.answered
  /\ deskLoads' = (deskLoads \ {l}) \cup
       {[l EXCEPT !.answered = TRUE,
                  !.list = deskStored[l.chan]]}
  /\ UNCHANGED <<deskLink, deskTalk, deskConnected, deskConnecting, deskListed, deskActive,
                 deskLoadCount, deskSelects, deskFaults>>

\* Mutant of DeskShow: the answer is stored under the channel on screen.
DeskShowActive(l) ==
  /\ l \in deskLoads /\ l.answered
  /\ deskLoads' = deskLoads \ {l}
  /\ deskShown' = [deskShown EXCEPT ![deskActive] = l.list]
  /\ UNCHANGED <<deskLink, deskSending, deskStored, deskConnected, deskConnecting, deskListed,
                 deskActive, deskLoadCount, deskSelects, deskFaults>>

\* An answer replaces what is shown of its channel, however late it comes.
DeskShow(l) ==
  /\ l \in deskLoads /\ l.answered
  /\ deskLoads' = deskLoads \ {l}
  /\ deskShown' = [deskShown EXCEPT ![l.chan] = l.list]
  /\ UNCHANGED <<deskLink, deskSending, deskStored, deskConnected, deskConnecting, deskListed,
                 deskActive, deskLoadCount, deskSelects, deskFaults>>

DeskLoadFails(l) ==
  /\ l \in deskLoads /\ ~l.answered
  /\ deskLoads' = deskLoads \ {l}
  /\ UNCHANGED <<deskLink, deskTalk, deskConnected, deskConnecting, deskListed, deskActive,
                 deskLoadCount, deskSelects, deskFaults>>

\* What the main panel shows.
DeskView == CASE deskConnecting -> "connecting"
              [] ~deskConnecting /\ ~deskConnected -> "offline"
              [] OTHER -> "conversation"

\* The composer sends to the selected channel and forgets the text at once.
\* With none selected it sends to a channel that does not exist: the request
\* fails and the text is lost.
DeskSend(m) ==
  /\ DeskView = "conversation"
  /\ deskSending[m] = "no"
  /\ \/ deskActive = DeskChanOf[m] /\ deskSending' = [deskSending EXCEPT ![m] = "post"]
     \/ deskActive = DeskNone /\ deskSending' = [deskSending EXCEPT ![m] = "over"]
  /\ UNCHANGED <<deskLink, deskShown, deskStored, deskConnected, deskConnecting, deskListed,
                 deskActive, deskLoads, deskLoadCount, deskSelects, deskFaults>>

DeskIsStored(m) ==
  \E i \in 1 .. Len(deskStored[DeskChanOf[m]]) : deskStored[DeskChanOf[m]][i] = m

DeskStores(m) ==
  /\ IF m \in DeskOwn
     THEN deskSending[m] = "post" /\ deskSending' = [deskSending EXCEPT ![m] = "reply"]
     ELSE ~DeskIsStored(m) /\ UNCHANGED deskSending
  /\ deskStored' = [deskStored EXCEPT ![DeskChanOf[m]] = Append(@, m)]
  /\ UNCHANGED <<deskLink, deskShown, deskConnected, deskConnecting, deskListed, deskActive,
                 deskLoads, deskLoadCount, deskSelects, deskFaults>>

\* The answer to the request appends, without looking whether a load did already.
DeskReturns(m) ==
  /\ deskSending[m] = "reply"
  /\ deskSending' = [deskSending EXCEPT ![m] = "over"]
  /\ deskShown' = [deskShown EXCEPT ![DeskChanOf[m]] = Append(@, m)]
  /\ UNCHANGED <<deskLink, deskStored, deskConnected, deskConnecting, deskListed, deskActive,
                 deskLoads, deskLoadCount, deskSelects, deskFaults>>

DeskSendFails(m) ==
  /\ deskSending[m] \in {"post", "reply"}
  /\ deskSending' = [deskSending EXCEPT ![m] = "over"]
  /\ UNCHANGED <<deskLink, deskShown, deskStored, deskConnected, deskConnecting, deskListed,
                 deskActive, deskLoads, deskLoadCount, deskSelects, deskFaults>>

DeskNext ==
  \/ DeskRebind \/ DeskList
  \/ \E s \in DeskSockets :
       \/ DeskOpen(s) \/ DeskClosed(s)
       \/ \E how \in {"broken", "leaving"} : DeskBreak(s, how)
  \/ \E f \in Services : DeskReconnect(f)
  \/ \E c \in DeskChannels : DeskSelect(c)
  \/ \E l \in deskLoads : DeskAnswer(l) \/ DeskShow(l) \/ DeskLoadFails(l)
  \/ \E m \in DeskMessages : DeskStores(m)
  \/ \E m \in DeskOwn : DeskSend(m) \/ DeskReturns(m) \/ DeskSendFails(m)

DeskSpec == DeskInit /\ [][DeskNext]_deskVars

-----------------------------------------------------------------------------
DeskAlive(f) == {s \in DeskSockets :
  deskState[s] \in {"connecting", "open", "broken", "leaving"} /\ deskOwner[s] = f}

DeskTypeOK ==
  /\ deskBound \in Services /\ deskBorn \in 1 .. DeskMaxSockets
  /\ deskState \in [DeskSockets ->
       {"unborn", "connecting", "open", "broken", "leaving", "closed"}]
  /\ deskOwner \in [DeskSockets -> Services]
  /\ deskWs \in [Services -> DeskSockets \cup {DeskNoSocket}]
  /\ deskIsConnecting \in [Services -> BOOLEAN]
  /\ deskAttempts \in [Services -> 0 .. DeskMaxAttempts]
  /\ deskTimer \subseteq Services /\ deskEnded \subseteq Services
  /\ deskConnected \in BOOLEAN /\ deskConnecting \in BOOLEAN /\ deskListed \in BOOLEAN
  /\ deskActive \in DeskChannels \cup {DeskNone}

DeskTalkTypeOK ==
  /\ deskShown \in [DeskChannels -> Seq(DeskMessages)]
  /\ deskSending \in [DeskOwn -> {"no", "post", "reply", "over"}]
  /\ deskStored \in [DeskChannels -> Seq(DeskMessages)]

\* A service has one socket or one timer, never both or two, even the abandoned
\* one that connects again behind the page's back; the bound one always has
\* one, unless it gave up or its peer said goodbye; and what the window says of
\* the connection is true of the bound service's socket, whatever the other does.
DeskInv ==
  /\ DeskTypeOK
  /\ \A f \in Services :
       /\ \A s, t \in DeskAlive(f) : s = t
       /\ f \in deskTimer => DeskAlive(f) = {}
       /\ deskIsConnecting[f] => \E s \in DeskAlive(f) : deskState[s] # "open"
  /\ deskBound \in deskTimer \cup deskEnded \/ DeskAlive(deskBound) # {}
  /\ deskConnected /\ ~deskConnecting =>
       \E s \in DeskAlive(deskBound) : deskState[s] # "connecting"

\* Loads overtake each other and are never cancelled, yet what is shown under a
\* channel is of that channel and known to the server.
DeskOwnChannel ==
  /\ DeskTalkTypeOK
  /\ \A c \in DeskChannels : \A i \in 1 .. Len(deskShown[c]) :
       /\ DeskChanOf[deskShown[c][i]] = c
       /\ DeskIsStored(deskShown[c][i])
=============================================================================
