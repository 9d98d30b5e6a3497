----------------------------- MODULE SdkSocket -----------------------------
(***************************************************************************)
(* The realtime client of the TypeScript SDK                               *)
(* (packages/typescript/src/realtime.ts): the application calls connect()  *)
(* and disconnect() at any time; sockets open, break and report their      *)
(* close later; a close may arm a timer that connects again.               *)
(*                                                                         *)
(* A socket's callbacks are closures over that socket, but they write the  *)
(* one field `socket', so an old socket's close is felt by a newer one.    *)
(***************************************************************************)
EXTENDS Integers, FiniteSets

CONSTANTS AutoReconnect,     \* options.autoReconnect
          SdkMaxSockets,     \* sockets the client may create
          SdkMaxCalls,       \* calls of connect() by the application
          SdkMaxDisconnects, \* calls of disconnect()
          SdkMaxFaults       \* breaks of the network

ASSUME SdkConstantsOK ==
  /\ AutoReconnect \in BOOLEAN
  /\ SdkMaxSockets \in Nat \ {0}
  /\ SdkMaxCalls \in Nat /\ SdkMaxDisconnects \in Nat /\ SdkMaxFaults \in Nat

SdkSockets == 1 .. SdkMaxSockets
NoSocket == 0

VARIABLES
  sdkBorn,      \* sockets created so far
  sdkSocket,    \* this.socket
  sdkState,     \* of each socket; "closing" until its close event is delivered
  sdkPending,   \* sockets whose connect() promise is not settled
  sdkTimers,    \* timers under way, named by the socket whose close armed them
  sdkTimer,     \* this.reconnectTimer
  sdkManual,    \* this.manuallyClosed
  sdkCalls, sdkDisconnects, sdkFaults,
  sdkCall       \* history: the application's call a socket goes back to

sdkVars == <<sdkBorn, sdkSocket, sdkState, sdkPending, sdkTimers, sdkTimer,
             sdkManual, sdkCalls, sdkDisconnects, sdkFaults, sdkCall>>

SdkInit ==
  /\ sdkBorn = 0 /\ sdkSocket = NoSocket
  /\ sdkState = [s \in SdkSockets |-> "unborn"]
  /\ sdkPending = {} /\ sdkTimers = {} /\ sdkTimer = NoSocket
  /\ sdkManual = FALSE
  /\ sdkCalls = 0 /\ sdkDisconnects = 0 /\ sdkFaults = 0
  /\ sdkCall = [s \in SdkSockets |-> 0]

\* connect(): a new socket, which `socket' names from now on; whatever else is
\* alive is left alone.  The call it goes back to is c.
NewSocket(c) ==
  LET s == sdkBorn + 1 IN
  /\ sdkBorn < SdkMaxSockets
  /\ sdkBorn' = s
  /\ sdkSocket' = s
  /\ sdkState' = [sdkState EXCEPT ![s] = "connecting"]
  /\ sdkPending' = sdkPending \cup {s}
  /\ sdkManual' = FALSE
  /\ sdkCall' = [sdkCall EXCEPT ![s] = c]

SdkConnect ==
  /\ sdkCalls < SdkMaxCalls
  /\ sdkCalls' = sdkCalls + 1
  /\ NewSocket(sdkCalls + 1)
  /\ UNCHANGED <<sdkTimers, sdkTimer, sdkDisconnects, sdkFaults>>

\* Mutant of SdkDisconnect: the timer is forgotten without being cleared.
SdkDisconnectKeepsTimer ==
  /\ sdkDisconnects < SdkMaxDisconnects
  /\ sdkDisconnects' = sdkDisconnects + 1
  /\ sdkManual' = TRUE
  /\ sdkTimer' = NoSocket
  /\ sdkState' = [s \in SdkSockets |->
                    IF s = sdkSocket /\ sdkState[s] \in {"connecting", "open"}
                    THEN "closing" ELSE sdkState[s]]
  /\ sdkSocket' = NoSocket
  /\ UNCHANGED <<sdkBorn, sdkPending, sdkTimers, sdkCalls, sdkFaults, sdkCall>>

\* disconnect() knows one timer and one socket: the latest of each.
SdkDisconnect ==
  /\ sdkDisconnects < SdkMaxDisconnects
  /\ sdkDisconnects' = sdkDisconnects + 1
  /\ sdkManual' = TRUE
  /\ sdkTimers' = sdkTimers \ {sdkTimer}
  /\ sdkTimer' = NoSocket
  /\ sdkState' = [s \in SdkSockets |->
                    IF s = sdkSocket /\ sdkState[s] \in {"connecting", "open"}
                    THEN "closing" ELSE sdkState[s]]
  /\ sdkSocket' = NoSocket
  /\ UNCHANGED <<sdkBorn, sdkPending, sdkCalls, sdkFaults, sdkCall>>

\* The open event resolves the promise.
SdkOpen(s) ==
  /\ sdkState[s] = "connecting"
  /\ sdkState' = [sdkState EXCEPT ![s] = "open"]
  /\ sdkPending' = sdkPending \ {s}
  /\ UNCHANGED <<sdkBorn, sdkSocket, sdkTimers, sdkTimer, sdkManual,
                 sdkCalls, sdkDisconnects, sdkFaults, sdkCall>>

\* scheduleReconnect: the timer of an earlier close is forgotten, not cleared.
ScheduleReconnect(s) ==
  /\ sdkTimers' = sdkTimers \cup {s}
  /\ sdkTimer' = s

\* Mutant of SdkError: the error handler schedules a reconnect as well.
SdkErrorSchedules(s) ==
  /\ sdkState[s] \in {"connecting", "open"}
  /\ sdkFaults < SdkMaxFaults
  /\ sdkFaults' = sdkFaults + 1
  /\ sdkState' = [sdkState EXCEPT ![s] = "closing"]
  /\ sdkPending' = sdkPending \ {s}
  /\ IF ~sdkManual THEN ScheduleReconnect(s) ELSE UNCHANGED <<sdkTimers, sdkTimer>>
  /\ UNCHANGED <<sdkBorn, sdkSocket, sdkManual, sdkCalls, sdkDisconnects, sdkCall>>

\* The error event of a socket that cannot connect or breaks: the promise is
\* rejected, the close event follows.
SdkError(s) ==
  /\ sdkState[s] \in {"connecting", "open"}
  /\ sdkFaults < SdkMaxFaults
  /\ sdkFaults' = sdkFaults + 1
  /\ sdkState' = [sdkState EXCEPT ![s] = "closing"]
  /\ sdkPending' = sdkPending \ {s}
  /\ UNCHANGED <<sdkBorn, sdkSocket, sdkTimers, sdkTimer, sdkManual,
                 sdkCalls, sdkDisconnects, sdkCall>>

\* Mutant of SdkClosed: only the socket that `socket' names is replaced.
SdkClosedIfNamed(s) ==
  /\ sdkState[s] = "closing"
  /\ sdkState' = [sdkState EXCEPT ![s] = "closed"]
  /\ sdkPending' = sdkPending \ {s}
  /\ sdkSocket' = NoSocket
  /\ IF ~sdkManual /\ AutoReconnect /\ sdkSocket = s
     THEN ScheduleReconnect(s) ELSE UNCHANGED <<sdkTimers, sdkTimer>>
  /\ UNCHANGED <<sdkBorn, sdkManual, sdkCalls, sdkDisconnects, sdkFaults, sdkCall>>

\* The close event: `socket' is cleared, whichever socket it names by now.
SdkClosed(s) ==
  /\ sdkState[s] = "closing"
  /\ sdkState' = [sdkState EXCEPT ![s] = "closed"]
  /\ sdkPending' = sdkPending \ {s}
  /\ sdkSocket' = NoSocket
  /\ IF ~sdkManual /\ AutoReconnect
     THEN ScheduleReconnect(s) ELSE UNCHANGED <<sdkTimers, sdkTimer>>
  /\ UNCHANGED <<sdkBorn, sdkManual, sdkCalls, sdkDisconnects, sdkFaults, sdkCall>>

\* The timer: connect() again, which also takes back manuallyClosed.
SdkReconnect(s) ==
  /\ s \in sdkTimers
  /\ sdkTimers' = sdkTimers \ {s}
  /\ NewSocket(sdkCall[s])
  /\ UNCHANGED <<sdkTimer, sdkCalls, sdkDisconnects, sdkFaults>>

SdkNext ==
  \/ SdkConnect \/ SdkDisconnect
  \/ \E s \in SdkSockets : SdkOpen(s) \/ SdkError(s) \/ SdkClosed(s) \/ SdkReconnect(s)

SdkSpec == SdkInit /\ [][SdkNext]_sdkVars

\* The browser delivers a socket's events and fires its timers; the
\* application owes nothing, and faults are bounded.
SdkSteps(s) == SdkOpen(s) \/ SdkClosed(s) \/ SdkReconnect(s)

-----------------------------------------------------------------------------
SdkLive == {s \in SdkSockets : sdkState[s] \in {"connecting", "open", "closing"}}
SdkUsable == {s \in SdkSockets : sdkState[s] \in {"connecting", "open"}}

SdkTypeOK ==
  /\ sdkBorn \in 0 .. SdkMaxSockets /\ sdkSocket \in SdkSockets \cup {NoSocket}
  /\ sdkState \in [SdkSockets -> {"unborn", "connecting", "open", "closing", "closed"}]
  /\ sdkPending \subseteq SdkSockets /\ sdkTimers \subseteq SdkSockets
  /\ sdkTimer \in SdkSockets \cup {NoSocket}
  /\ sdkManual \in BOOLEAN
  /\ sdkCalls \in Nat /\ sdkDisconnects \in Nat /\ sdkFaults \in Nat
  /\ sdkCall \in [SdkSockets -> Nat]

\* However connect() and disconnect() are called and in whatever order old
\* sockets report their end, one call of connect() never has two sockets, two
\* timers, or a socket and a timer: reconnecting replaces, it does not multiply.
SdkOneChain ==
  /\ SdkLive \cap sdkTimers = {}
  /\ \A s, t \in SdkLive \cup sdkTimers : sdkCall[s] = sdkCall[t] => s = t

\* An application that called connect() once can rely on the two fields: a
\* usable socket is the one `socket' names, so send() reaches it; an armed
\* timer is the one disconnect() clears; and after disconnect() no socket is
\* usable and none will be.
SdkSingleCall ==
  sdkCalls <= 1 =>
    /\ SdkUsable \subseteq {sdkSocket}
    /\ sdkTimers \subseteq {sdkTimer}
    /\ sdkManual => SdkUsable = {} /\ sdkTimers = {}

\* A promise of connect() is open only as long as its socket may still report.
SdkSettles == sdkPending \subseteq SdkLive

SdkBornOnce ==
  /\ \A s \in SdkSockets : sdkState[s] = "unborn" <=> s > sdkBorn
  /\ \A s \in sdkTimers : sdkState[s] = "closed"
  /\ \A s \in SdkSockets : sdkCall[s] <= sdkCalls
  /\ \A s \in SdkSockets : s <= sdkBorn => sdkCall[s] >= 1
  /\ sdkSocket # NoSocket => sdkState[sdkSocket] # "unborn"

SdkInv == SdkTypeOK /\ SdkBornOnce /\ SdkOneChain /\ SdkSettles /\ SdkSingleCall

\* After its last fault a client that was connected and not told to stop has
\* an open socket again.
SdkRecovers ==
  sdkCalls > 0 /\ ~sdkManual ~> sdkManual \/ \E s \in SdkSockets : sdkState[s] = "open"

=============================================================================
