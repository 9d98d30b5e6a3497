------------------------- MODULE DesktopApp_proofs --------------------------
(***************************************************************************)
(* The desktop app, for any number of sockets, attempts, faults, channels, *)
(* notifications and moves: what its two socket services do, what the      *)
(* window keeps of each channel, and the queue of native notifications.    *)
(***************************************************************************)
EXTENDS DesktopSocket, DesktopShell, SequenceTheorems, TLAPS

-----------------------------------------------------------------------------
(* The two services.  DeskInv alone is not inductive: that a service never  *)
(* forks rests on a new socket's number being free, that its attempts stay  *)
(* in bounds on the timer being there only below the bound, and the change  *)
(* to the second service on that one having nothing yet.                    *)

DeskLinks ==
  /\ \A s \in DeskSockets : deskState[s] = "unborn" <=> s > deskBorn
  /\ \A f \in deskTimer : deskAttempts[f] < DeskMaxAttempts
  /\ deskBound = 1 => 2 \notin deskTimer /\ \A s \in DeskSockets : deskOwner[s] = 1

DeskIInv == DeskInv /\ DeskLinks

\* A socket has a number, and none has the number of no socket.
LEMMA DeskNumbers == /\ DeskNoSocket \notin DeskSockets
                     /\ \A s \in DeskSockets : s \in Nat
  BY DeskConstantsOK DEF DeskConstantsOK, DeskSockets, DeskNoSocket

LEMMA DeskInitially == DeskInit => DeskIInv
<1> SUFFICES ASSUME DeskInit PROVE DeskIInv
  OBVIOUS
<1>1. 1 \in DeskSockets /\ 1 \in 1 .. DeskMaxSockets /\ 0 \in 0 .. DeskMaxAttempts
  BY DeskConstantsOK DEF DeskConstantsOK, DeskSockets
<1>2. /\ deskState \in [DeskSockets ->
           {"unborn", "connecting", "open", "broken", "leaving", "closed"}]
      /\ deskState[1] = "connecting"
      /\ \A s \in DeskSockets : s # 1 => deskState[s] = "unborn"
  BY <1>1 DEF DeskInit
<1>3. /\ deskOwner \in [DeskSockets -> Services] /\ \A s \in DeskSockets : deskOwner[s] = 1
      /\ deskWs \in [Services -> DeskSockets \cup {DeskNoSocket}]
      /\ deskAttempts \in [Services -> 0 .. DeskMaxAttempts]
  BY <1>1 DEF DeskInit, Services
<1>4. /\ deskIsConnecting \in [Services -> BOOLEAN]
      /\ \A f \in Services : deskIsConnecting[f] => f = 1
  BY DEF DeskInit, Services
<1>5. deskConnected \in BOOLEAN /\ deskConnecting \in BOOLEAN /\ deskListed \in BOOLEAN
  BY DEF DeskInit
<1>6. DeskTypeOK
  BY <1>1, <1>2, <1>3, <1>4, <1>5 DEF DeskInit, DeskTypeOK, Services
<1>7. 1 \in DeskAlive(1) /\ \A f \in Services : \A s \in DeskAlive(f) : s = 1
  BY <1>1, <1>2, <1>3 DEF DeskAlive
<1>8. DeskInv
  BY <1>2, <1>4, <1>6, <1>7 DEF DeskInit, DeskInv
<1>9. DeskLinks
  BY <1>1, <1>2, <1>3, DeskNumbers DEF DeskInit, DeskLinks, DeskSockets
<1>. QED
  BY <1>8, <1>9 DEF DeskIInv

\* What a step does to the sockets and timers of one service keeps that
\* service's part of the invariant.
DeskOne(f) ==
  /\ \A s, t \in DeskAlive(f) : s = t
  /\ f \in deskTimer => DeskAlive(f) = {}
  /\ deskIsConnecting[f] => \E s \in DeskAlive(f) : deskState[s] # "open"

DeskBoundUp == deskBound \in deskTimer \cup deskEnded \/ DeskAlive(deskBound) # {}

DeskTold == deskConnected /\ ~deskConnecting =>
              \E s \in DeskAlive(deskBound) : deskState[s] # "connecting"

\* The invariant in the parts its proof goes through.
LEMMA DeskParts == DeskIInv <=> /\ DeskTypeOK /\ DeskLinks /\ DeskBoundUp /\ DeskTold
                                /\ \A f \in Services : DeskOne(f)
  BY DEF DeskIInv, DeskInv, DeskBoundUp, DeskTold, DeskOne

\* A new socket of a service that has none and no timer any more, the others'
\* sockets being as before or told to close.
LEMMA DeskOpensKeeps ==
  ASSUME DeskIInv, NEW f \in Services, NEW st, DeskOpens(f, st),
         st \in [DeskSockets -> {"unborn", "connecting", "open", "broken", "leaving", "closed"}],
         \A s \in DeskSockets : deskState[s] # st[s] =>
            deskState[s] \in {"connecting", "open"} /\ st[s] \in {"broken", "leaving"},
         \A s \in DeskSockets : deskState[s] = "connecting" => st[s] # "leaving",
         DeskAlive(f) = {}
  PROVE  /\ deskBorn' \in 1 .. DeskMaxSockets
         /\ deskState' \in [DeskSockets -> {"unborn", "connecting", "open", "broken", "leaving", "closed"}]
         /\ deskOwner' \in [DeskSockets -> Services]
         /\ \A s \in DeskSockets : deskState'[s] = "unborn" <=> s > deskBorn'
         /\ DeskAlive(f)' = {deskBorn + 1} /\ deskState'[deskBorn + 1] = "connecting"
         /\ deskBorn + 1 \in DeskSockets
         /\ \A g \in Services \ {f} : DeskAlive(g)' = DeskAlive(g)
         /\ \A s \in DeskSockets : s # deskBorn + 1 => deskState'[s] = st[s] /\ deskOwner'[s] = deskOwner[s]
<1> DEFINE new == deskBorn + 1
<1> USE DEF DeskIInv, DeskInv, DeskTypeOK, DeskLinks
<1>1. /\ new \in DeskSockets /\ deskState[new] = "unborn" /\ st[new] = "unborn"
      /\ deskBorn' = new /\ deskBorn \in Nat /\ new \in 1 .. DeskMaxSockets
  <2>1. new \in DeskSockets /\ deskBorn' = new /\ deskBorn \in Nat /\ new \in 1 .. DeskMaxSockets
    BY DeskConstantsOK DEF DeskOpens, DeskSockets, DeskConstantsOK
  <2>. QED
    BY <2>1
<1>2. /\ deskState' = [st EXCEPT ![new] = "connecting"] /\ deskOwner' = [deskOwner EXCEPT ![new] = f]
  BY DEF DeskOpens
<1>3. \A s \in DeskSockets : s # new => deskState'[s] = st[s] /\ deskOwner'[s] = deskOwner[s]
  BY <1>1, <1>2
<1>4. deskState'[new] = "connecting" /\ deskOwner'[new] = f
  BY <1>1, <1>2
<1>5. \A s \in DeskSockets : s # new => (st[s] = "unborn" <=> deskState[s] = "unborn")
  OBVIOUS
<1>6. \A s \in DeskSockets : deskState'[s] = "unborn" <=> s > deskBorn'
  BY <1>1, <1>3, <1>4, <1>5, DeskNumbers
<1> HIDE DEF DeskIInv, DeskInv, DeskTypeOK, DeskLinks
<1>7. \A g \in Services : \A s \in DeskSockets : s # new => (s \in DeskAlive(g)' <=> s \in DeskAlive(g))
  BY <1>3 DEF DeskAlive
<1>8. new \in DeskAlive(f)' /\ \A g \in Services \ {f} : new \notin DeskAlive(g)' /\ new \notin DeskAlive(g)
  BY <1>1, <1>4 DEF DeskAlive
<1>9. \A g \in Services : DeskAlive(g) \subseteq DeskSockets /\ DeskAlive(g)' \subseteq DeskSockets
  BY DEF DeskAlive
<1>10. DeskAlive(f)' = {new} /\ \A g \in Services \ {f} : DeskAlive(g)' = DeskAlive(g)
  <2>1. DeskAlive(f)' = {new}
    <3>1. \A s \in DeskAlive(f)' : s = new
      BY <1>7, <1>9
    <3>. QED
      BY <1>8, <3>1
  <2>2. ASSUME NEW g \in Services \ {f}
        PROVE  DeskAlive(g)' = DeskAlive(g)
    <3>1. \A s \in DeskSockets : s \in DeskAlive(g)' <=> s \in DeskAlive(g)
      BY <1>7, <1>8, Zenon
    <3>2. g \in Services
      OBVIOUS
    <3>. QED
      BY <1>9, <3>1, <3>2, Zenon
  <2>. QED
    BY <2>1, <2>2
<1>11. /\ deskState' \in [DeskSockets -> {"unborn", "connecting", "open", "broken", "leaving", "closed"}]
       /\ deskOwner' \in [DeskSockets -> Services]
  BY <1>2 DEF DeskIInv, DeskInv, DeskTypeOK
<1>. QED
  BY <1>1, <1>3, <1>4, <1>6, <1>10, <1>11

\* A step that takes one socket from one state to another, leaving the others
\* and their services alone.
LEMMA DeskMoves ==
  ASSUME DeskIInv, NEW s \in DeskSockets, NEW own \in Services, own = deskOwner[s], NEW to,
         deskState[s] # "unborn",
         to \in {"open", "broken", "leaving", "closed"},
         deskState' = [deskState EXCEPT ![s] = to], UNCHANGED <<deskBorn, deskOwner>>
  PROVE  /\ deskState' \in [DeskSockets -> {"unborn", "connecting", "open", "broken", "leaving", "closed"}]
         /\ deskState'[s] = to /\ \A t \in DeskSockets : t # s => deskState'[t] = deskState[t]
         /\ \A t \in DeskSockets : deskState'[t] = "unborn" <=> t > deskBorn'
         /\ \A f \in Services \ {own} : DeskAlive(f)' = DeskAlive(f)
         /\ deskState[s] # "closed" => s \in DeskAlive(own)
         /\ to = "closed" => DeskAlive(own)' = DeskAlive(own) \ {s}
         /\ to # "closed" /\ deskState[s] # "closed" =>
              DeskAlive(own)' = DeskAlive(own)
<1> USE DEF DeskIInv, DeskInv, DeskTypeOK, DeskLinks
<1>1. /\ deskState' \in [DeskSockets -> {"unborn", "connecting", "open", "broken", "leaving", "closed"}]
      /\ deskState'[s] = to /\ \A t \in DeskSockets : t # s => deskState'[t] = deskState[t]
  OBVIOUS
<1>2. \A t \in DeskSockets : deskState'[t] = "unborn" <=> t > deskBorn'
  BY <1>1
<1> HIDE DEF DeskIInv, DeskInv, DeskTypeOK, DeskLinks
<1>3. \A f : \A t \in DeskSockets : t # s => (t \in DeskAlive(f)' <=> t \in DeskAlive(f))
  BY <1>1 DEF DeskAlive
<1>4. \A f : DeskAlive(f) \subseteq DeskSockets /\ DeskAlive(f)' \subseteq DeskSockets
  BY DEF DeskAlive
<1>5. \A f \in Services \ {own} : s \notin DeskAlive(f) /\ s \notin DeskAlive(f)'
  <2>1. deskOwner' = deskOwner /\ own = deskOwner[s]
    OBVIOUS
  <2>. QED
    BY <2>1 DEF DeskAlive
<1>6. \A f \in Services \ {own} : DeskAlive(f)' = DeskAlive(f)
  <2> SUFFICES ASSUME NEW f \in Services \ {own}
               PROVE  DeskAlive(f)' = DeskAlive(f)
    OBVIOUS
  <2>1. \A t \in DeskSockets : t \in DeskAlive(f)' <=> t \in DeskAlive(f)
    BY <1>3, <1>5, Zenon
  <2>. QED
    BY <1>4, <2>1, Zenon
<1>7. deskState[s] # "closed" => s \in DeskAlive(own)
  <2>1. deskState[s] \in {"unborn", "connecting", "open", "broken", "leaving", "closed"}
    BY DEF DeskIInv, DeskInv, DeskTypeOK
  <2>. QED
    BY <2>1 DEF DeskAlive
<1>8. to = "closed" => s \notin DeskAlive(own)'
  BY <1>1 DEF DeskAlive
<1>9. to # "closed" => s \in DeskAlive(own)'
  BY <1>1 DEF DeskAlive
<1>10. to = "closed" => DeskAlive(own)' = DeskAlive(own) \ {s}
  <2> SUFFICES ASSUME to = "closed", NEW t
               PROVE  t \in DeskAlive(own)' <=> t \in DeskAlive(own) /\ t # s
    OBVIOUS
  <2>1. t \in DeskAlive(own)' \/ t \in DeskAlive(own) => t \in DeskSockets
    BY <1>4
  <2>2. CASE t = s
    BY <1>8, <2>2
  <2>3. CASE t # s
    BY <1>3, <2>1, <2>3
  <2>. QED
    BY <2>2, <2>3
<1>11. to # "closed" /\ deskState[s] # "closed" => DeskAlive(own)' = DeskAlive(own)
  <2> SUFFICES ASSUME to # "closed", deskState[s] # "closed", NEW t
               PROVE  t \in DeskAlive(own)' <=> t \in DeskAlive(own)
    OBVIOUS
  <2>1. t \in DeskAlive(own)' \/ t \in DeskAlive(own) => t \in DeskSockets
    BY <1>4
  <2>2. CASE t = s
    BY <1>7, <1>9, <2>2
  <2>3. CASE t # s
    BY <1>3, <2>1, <2>3
  <2>. QED
    BY <2>2, <2>3
<1>. QED
  BY <1>1, <1>2, <1>6, <1>7, <1>10, <1>11

\* The parts again, of the next state.
LEMMA DeskTogether ==
  ASSUME DeskTypeOK', DeskLinks', DeskBoundUp', DeskTold', \A f \in Services : DeskOne(f)'
  PROVE  DeskIInv'
  BY DEF DeskIInv, DeskInv, DeskBoundUp, DeskTold, DeskOne

\* What the page does with channels and messages leaves the connection alone.
LEMMA DeskTalkKeeps ==
  ASSUME DeskIInv, UNCHANGED <<deskLink, deskConnected, deskConnecting>>,
         deskListed' \in BOOLEAN, deskActive' \in DeskChannels \cup {DeskNone}
  PROVE  DeskIInv'
<1>1. \A f : DeskAlive(f)' = DeskAlive(f)
  BY DEF DeskAlive, deskLink
<1>2. DeskTypeOK'
  BY DEF DeskIInv, DeskInv, DeskTypeOK, deskLink
<1>3. DeskLinks'
  BY DEF DeskIInv, DeskLinks, deskLink
<1>4. DeskBoundUp' /\ DeskTold'
  BY <1>1, DeskParts DEF DeskBoundUp, DeskTold, deskLink
<1>5. \A f \in Services : DeskOne(f)'
  BY <1>1, DeskParts DEF DeskOne, deskLink
<1>. QED
  BY <1>2, <1>3, <1>4, <1>5, DeskTogether

\* The second service takes over: every socket there is was the first one's.
LEMMA DeskRebindKeeps == DeskIInv /\ DeskRebind => DeskIInv'
<1> SUFFICES ASSUME DeskIInv, DeskRebind PROVE DeskIInv'
  OBVIOUS
<1> DEFINE new == deskBorn + 1
<1>0. /\ DeskTypeOK /\ DeskLinks /\ 1 \in Services /\ 2 \in Services
      /\ \A f \in Services : f = 1 \/ f = 2
      /\ DeskOne(1)
  BY DeskParts DEF Services
<1>1. /\ deskBound = 1 /\ deskBound' = 2 /\ DeskOpens(2, DeskLeft(1)) /\ deskConnecting' = TRUE
      /\ deskIsConnecting' = [deskIsConnecting EXCEPT ![2] = TRUE]
      /\ deskWs' = [deskWs EXCEPT ![1] = DeskNoSocket, ![2] = new]
      /\ deskTimer' = deskTimer \ {1}
      /\ UNCHANGED <<deskAttempts, deskEnded, deskConnected, deskListed, deskActive>>
  BY DEF DeskRebind
<1>2. DeskAlive(2) = {} /\ 2 \notin deskTimer
  BY <1>0, <1>1 DEF DeskAlive, DeskLinks
<1>3. /\ DeskLeft(1) \in [DeskSockets -> {"unborn", "connecting", "open", "broken", "leaving", "closed"}]
      /\ \A s \in DeskSockets : deskState[s] # DeskLeft(1)[s] =>
           deskState[s] \in {"connecting", "open"} /\ DeskLeft(1)[s] \in {"broken", "leaving"}
      /\ \A s \in DeskSockets : deskState[s] = "connecting" => DeskLeft(1)[s] # "leaving"
      /\ \A s \in DeskSockets : deskState[s] # "open" => DeskLeft(1)[s] # "open"
  BY <1>0 DEF DeskLeft, DeskTypeOK
<1>4. /\ deskBorn' \in 1 .. DeskMaxSockets
      /\ deskState' \in [DeskSockets -> {"unborn", "connecting", "open", "broken", "leaving", "closed"}]
      /\ deskOwner' \in [DeskSockets -> Services]
      /\ \A s \in DeskSockets : deskState'[s] = "unborn" <=> s > deskBorn'
      /\ DeskAlive(2)' = {new} /\ deskState'[new] = "connecting" /\ new \in DeskSockets
      /\ DeskAlive(1)' = DeskAlive(1)
      /\ \A s \in DeskSockets : s # new => deskState'[s] = DeskLeft(1)[s]
  <2> HIDE DEF new
  <2>1. \A g \in Services \ {2} : DeskAlive(g)' = DeskAlive(g)
    BY <1>0, <1>1, <1>2, <1>3, DeskOpensKeeps
  <2>. QED
    BY <1>0, <1>1, <1>2, <1>3, <2>1, DeskOpensKeeps DEF new
<1> HIDE DEF new
<1>5. DeskTypeOK'
  <2>1. deskConnecting' \in BOOLEAN /\ deskIsConnecting' \in [Services -> BOOLEAN]
    BY <1>0, <1>1 DEF DeskTypeOK
  <2>2. deskWs' \in [Services -> DeskSockets \cup {DeskNoSocket}]
    BY <1>0, <1>1, <1>4 DEF DeskTypeOK
  <2>. QED
    BY <1>0, <1>1, <1>4, <2>1, <2>2 DEF DeskTypeOK
<1>6. DeskLinks'
  BY <1>0, <1>1, <1>4 DEF DeskLinks
<1>7. DeskBoundUp' /\ DeskTold'
  BY <1>1, <1>4 DEF DeskBoundUp, DeskTold
<1>8. DeskOne(2)'
  BY <1>0, <1>1, <1>2, <1>4 DEF DeskOne
<1>9. DeskOne(1)'
  <2>1. deskIsConnecting'[1] = deskIsConnecting[1] /\ 1 \notin deskTimer'
    BY <1>0, <1>1 DEF DeskTypeOK
  <2>2. \A s \in DeskAlive(1) : s \in DeskSockets /\ s # new
    BY <1>0, <1>4 DEF DeskAlive, DeskLinks, new, DeskOpens, DeskTypeOK
  <2>3. \A s \in DeskAlive(1) : deskState[s] # "open" => deskState'[s] # "open"
    BY <1>3, <1>4, <2>2
  <2>. QED
    BY <1>0, <1>4, <2>1, <2>3 DEF DeskOne
<1>. QED
  BY <1>0, <1>5, <1>6, <1>7, <1>8, <1>9, DeskTogether

\* The timer of a service connects it again.
LEMMA DeskReconnectKeeps == \A f \in Services : DeskIInv /\ DeskReconnect(f) => DeskIInv'
<1> SUFFICES ASSUME NEW f \in Services, DeskIInv, DeskReconnect(f) PROVE DeskIInv'
  OBVIOUS
<1> DEFINE new == deskBorn + 1
<1>0. /\ DeskTypeOK /\ DeskLinks /\ DeskBoundUp /\ DeskTold
      /\ \A g \in Services : DeskOne(g)
  BY DeskParts
<1>1. /\ f \in deskTimer /\ deskTimer' = deskTimer \ {f} /\ DeskOpens(f, deskState)
      /\ deskAttempts' = [deskAttempts EXCEPT ![f] = @ + 1]
      /\ deskWs' = [deskWs EXCEPT ![f] = new]
      /\ deskIsConnecting' = [deskIsConnecting EXCEPT ![f] = TRUE]
      /\ UNCHANGED <<deskBound, deskEnded, deskConnected, deskConnecting, deskListed, deskActive>>
  BY DEF DeskReconnect
<1>2. DeskAlive(f) = {} /\ deskAttempts[f] < DeskMaxAttempts
  BY <1>0, <1>1 DEF DeskOne, DeskLinks
<1>3. deskState \in [DeskSockets -> {"unborn", "connecting", "open", "broken", "leaving", "closed"}]
  BY <1>0 DEF DeskTypeOK
<1>4. /\ deskBorn' \in 1 .. DeskMaxSockets
      /\ deskState' \in [DeskSockets -> {"unborn", "connecting", "open", "broken", "leaving", "closed"}]
      /\ deskOwner' \in [DeskSockets -> Services]
      /\ \A s \in DeskSockets : deskState'[s] = "unborn" <=> s > deskBorn'
      /\ DeskAlive(f)' = {new} /\ deskState'[new] = "connecting" /\ new \in DeskSockets
      /\ \A g \in Services \ {f} : DeskAlive(g)' = DeskAlive(g)
      /\ \A s \in DeskSockets : s # new => deskState'[s] = deskState[s] /\ deskOwner'[s] = deskOwner[s]
  BY <1>1, <1>2, <1>3, DeskOpensKeeps
<1>5. DeskTypeOK'
  <2>1. deskAttempts' \in [Services -> 0 .. DeskMaxAttempts]
    BY <1>0, <1>1, <1>2, DeskConstantsOK DEF DeskTypeOK, DeskConstantsOK
  <2>2. /\ deskIsConnecting' \in [Services -> BOOLEAN]
        /\ deskWs' \in [Services -> DeskSockets \cup {DeskNoSocket}]
    BY <1>0, <1>1, <1>4 DEF DeskTypeOK
  <2>. QED
    BY <1>0, <1>1, <1>4, <2>1, <2>2 DEF DeskTypeOK
<1>6. DeskLinks'
  <2>1. \A g \in deskTimer' : deskAttempts'[g] < DeskMaxAttempts
    BY <1>0, <1>1 DEF DeskTypeOK, DeskLinks
  <2>2. deskBound' = 1 => 2 \notin deskTimer' /\ \A s \in DeskSockets : deskOwner'[s] = 1
    <3> SUFFICES ASSUME deskBound = 1
                 PROVE  2 \notin deskTimer' /\ \A s \in DeskSockets : deskOwner'[s] = 1
      BY <1>1
    <3>1. f = 1 /\ 2 \notin deskTimer /\ \A s \in DeskSockets : deskOwner[s] = 1
      BY <1>0, <1>1 DEF DeskLinks, Services
    <3>2. deskOwner' = [deskOwner EXCEPT ![new] = f]
      BY <1>1 DEF DeskOpens
    <3>. QED
      BY <1>0, <1>1, <1>4, <3>1, <3>2 DEF DeskTypeOK
  <2>. QED
    BY <1>4, <2>1, <2>2 DEF DeskLinks
<1> HIDE DEF new
<1>7. DeskBoundUp'
  <2>1. CASE deskBound = f
    BY <1>1, <1>4, <2>1 DEF DeskBoundUp
  <2>2. CASE deskBound # f
    BY <1>0, <1>1, <1>4, <2>2 DEF DeskBoundUp, DeskTypeOK
  <2>. QED
    BY <2>1, <2>2
<1>8. \A g \in Services : \A s \in DeskAlive(g) : s \in DeskSockets /\ s # new
  BY <1>0, <1>4 DEF DeskAlive, DeskLinks, new, DeskTypeOK, DeskSockets
<1>9. DeskTold'
  <2>1. CASE deskBound = f
    BY <1>0, <1>1, <1>2, <2>1 DEF DeskTold
  <2>2. CASE deskBound # f
    <3>1. deskBound \in Services \ {f} /\ DeskAlive(deskBound)' = DeskAlive(deskBound)
      BY <1>0, <1>1, <1>4, <2>2 DEF DeskTypeOK
    <3>. QED
      BY <1>0, <1>1, <1>4, <1>8, <3>1 DEF DeskTold
  <2>. QED
    BY <2>1, <2>2
<1>10. DeskOne(f)'
  BY <1>0, <1>1, <1>4 DEF DeskOne
<1>11. ASSUME NEW g \in Services \ {f}
       PROVE  DeskOne(g)'
  <2>1. DeskAlive(g)' = DeskAlive(g) /\ deskIsConnecting'[g] = deskIsConnecting[g] /\ (g \in deskTimer' <=> g \in deskTimer)
    BY <1>0, <1>1, <1>4 DEF DeskTypeOK
  <2>2. \A s \in DeskAlive(g) : deskState'[s] = deskState[s]
    BY <1>4, <1>8
  <2>. QED
    BY <1>0, <2>1, <2>2 DEF DeskOne
<1>. QED
  BY <1>5, <1>6, <1>7, <1>9, <1>10, <1>11, DeskTogether

\* A socket opens, breaks, and is closed.
LEMMA DeskOpenKeeps == \A s \in DeskSockets : DeskIInv /\ DeskOpen(s) => DeskIInv'
<1> SUFFICES ASSUME NEW s \in DeskSockets, DeskIInv, DeskOpen(s) PROVE DeskIInv'
  OBVIOUS
<1>0. /\ DeskTypeOK /\ DeskLinks /\ DeskBoundUp /\ DeskTold
      /\ \A g \in Services : DeskOne(g)
  BY DeskParts
<1>1. PICK own \in Services : own = deskOwner[s]
  BY <1>0 DEF DeskTypeOK
<1>2. /\ deskState[s] = "connecting" /\ deskState' = [deskState EXCEPT ![s] = "open"]
      /\ deskIsConnecting' = [deskIsConnecting EXCEPT ![own] = FALSE]
      /\ deskAttempts' = [deskAttempts EXCEPT ![own] = 0]
      /\ IF own = deskBound THEN deskConnected' = TRUE /\ deskConnecting' = FALSE
         ELSE UNCHANGED <<deskConnected, deskConnecting>>
      /\ UNCHANGED <<deskBound, deskBorn, deskOwner, deskWs, deskTimer, deskEnded, deskListed, deskActive>>
  BY <1>1 DEF DeskOpen
<1>3. /\ deskState' \in [DeskSockets -> {"unborn", "connecting", "open", "broken", "leaving", "closed"}]
      /\ deskState'[s] = "open" /\ \A t \in DeskSockets : t # s => deskState'[t] = deskState[t]
      /\ \A t \in DeskSockets : deskState'[t] = "unborn" <=> t > deskBorn'
      /\ \A f \in Services : DeskAlive(f)' = DeskAlive(f)
      /\ s \in DeskAlive(own)
  BY <1>1, <1>2, DeskMoves
<1>4. own \notin deskTimer
  BY <1>0, <1>1, <1>3 DEF DeskOne
<1>5. DeskTypeOK'
  <2>1. /\ deskAttempts' \in [Services -> 0 .. DeskMaxAttempts]
        /\ deskIsConnecting' \in [Services -> BOOLEAN]
    BY <1>0, <1>1, <1>2, DeskConstantsOK DEF DeskTypeOK, DeskConstantsOK
  <2>2. deskConnected' \in BOOLEAN /\ deskConnecting' \in BOOLEAN
    BY <1>0, <1>2 DEF DeskTypeOK
  <2>. QED
    BY <1>0, <1>2, <1>3, <2>1, <2>2 DEF DeskTypeOK
<1>6. DeskLinks'
  <2>1. \A g \in deskTimer' : deskAttempts'[g] < DeskMaxAttempts
    BY <1>0, <1>1, <1>2, <1>4 DEF DeskTypeOK, DeskLinks
  <2>. QED
    BY <1>0, <1>2, <1>3, <2>1 DEF DeskLinks
<1>7. DeskBoundUp'
  BY <1>0, <1>2, <1>3 DEF DeskBoundUp, DeskTypeOK
<1>8. \A g \in Services \ {own} : \A t \in DeskAlive(g) : t \in DeskSockets /\ t # s
  BY <1>1 DEF DeskAlive
<1>9. DeskTold'
  <2>1. CASE deskBound = own
    BY <1>2, <1>3, <2>1 DEF DeskTold
  <2>2. CASE deskBound # own
    BY <1>0, <1>2, <1>3, <1>8, <2>2, ZenonT(60) DEF DeskTold, DeskTypeOK
  <2>. QED
    BY <2>1, <2>2
<1>10. ASSUME NEW g \in Services PROVE DeskOne(g)'
  <2>1. CASE g = own
    BY <1>0, <1>1, <1>2, <1>3, <2>1 DEF DeskOne, DeskTypeOK
  <2>2. CASE g # own
    <3>1. deskIsConnecting'[g] = deskIsConnecting[g]
      BY <1>0, <1>2, <2>2 DEF DeskTypeOK
    <3>. QED
      BY <1>0, <1>2, <1>3, <1>8, <2>2, <3>1 DEF DeskOne
  <2>. QED
    BY <2>1, <2>2
<1>. QED
  BY <1>5, <1>6, <1>7, <1>9, <1>10, DeskTogether

LEMMA DeskBreakKeeps ==
  \A s \in DeskSockets, how \in {"broken", "leaving"} : DeskIInv /\ DeskBreak(s, how) => DeskIInv'
<1> SUFFICES ASSUME NEW s \in DeskSockets, NEW how \in {"broken", "leaving"}, DeskIInv, DeskBreak(s, how)
             PROVE  DeskIInv'
  OBVIOUS
<1>0. /\ DeskTypeOK /\ DeskLinks /\ DeskBoundUp /\ DeskTold
      /\ \A g \in Services : DeskOne(g)
  BY DeskParts
<1>1. PICK own \in Services : own = deskOwner[s]
  BY <1>0 DEF DeskTypeOK
<1>2. /\ deskState[s] \in {"connecting", "open"} /\ deskState' = [deskState EXCEPT ![s] = how]
      /\ UNCHANGED <<deskBound, deskBorn, deskOwner, deskWs, deskIsConnecting, deskAttempts, deskTimer,
                     deskEnded, deskConnected, deskConnecting, deskListed, deskActive>>
  BY DEF DeskBreak
<1>3. /\ deskState' \in [DeskSockets -> {"unborn", "connecting", "open", "broken", "leaving", "closed"}]
      /\ deskState'[s] = how /\ \A t \in DeskSockets : t # s => deskState'[t] = deskState[t]
      /\ \A t \in DeskSockets : deskState'[t] = "unborn" <=> t > deskBorn'
      /\ \A f \in Services : DeskAlive(f)' = DeskAlive(f)
  BY <1>1, <1>2, DeskMoves
<1>4. \A g : \A t \in DeskAlive(g) : t \in DeskSockets
  BY DEF DeskAlive
<1>5. DeskTypeOK'
  BY <1>0, <1>2, <1>3 DEF DeskTypeOK
<1>6. DeskLinks'
  BY <1>0, <1>2, <1>3 DEF DeskLinks
<1>7. DeskBoundUp'
  BY <1>0, <1>2, <1>3 DEF DeskBoundUp, DeskTypeOK
<1>8. \A t \in DeskSockets : /\ deskState[t] # "connecting" => deskState'[t] # "connecting"
                             /\ deskState[t] # "open" => deskState'[t] # "open"
  BY <1>3
<1>9. DeskTold'
  BY <1>0, <1>2, <1>3, <1>4, <1>8 DEF DeskTold, DeskTypeOK
<1>10. ASSUME NEW g \in Services PROVE DeskOne(g)'
  BY <1>0, <1>2, <1>3, <1>4, <1>8 DEF DeskOne
<1>. QED
  BY <1>5, <1>6, <1>7, <1>9, <1>10, DeskTogether

LEMMA DeskClosedKeeps == \A s \in DeskSockets : DeskIInv /\ DeskClosed(s) => DeskIInv'
<1> SUFFICES ASSUME NEW s \in DeskSockets, DeskIInv, DeskClosed(s) PROVE DeskIInv'
  OBVIOUS
<1>0. /\ DeskTypeOK /\ DeskLinks /\ DeskBoundUp /\ DeskTold
      /\ \A g \in Services : DeskOne(g)
  BY DeskParts
<1>1. PICK own \in Services : own = deskOwner[s]
  BY <1>0 DEF DeskTypeOK
<1>2. /\ deskState[s] \in {"broken", "leaving"} /\ deskState' = [deskState EXCEPT ![s] = "closed"]
      /\ deskIsConnecting' = [deskIsConnecting EXCEPT ![own] = FALSE]
      /\ IF own = deskBound THEN deskConnected' = FALSE /\ deskConnecting' = FALSE
         ELSE UNCHANGED <<deskConnected, deskConnecting>>
      /\ \/ /\ deskAttempts[own] < DeskMaxAttempts
            /\ deskTimer' = deskTimer \cup {own} /\ UNCHANGED deskEnded
         \/ deskEnded' = deskEnded \cup {own} /\ UNCHANGED deskTimer
      /\ UNCHANGED <<deskBound, deskBorn, deskOwner, deskWs, deskAttempts, deskListed, deskActive>>
  BY <1>1 DEF DeskClosed
<1>3. /\ deskState' \in [DeskSockets -> {"unborn", "connecting", "open", "broken", "leaving", "closed"}]
      /\ deskState'[s] = "closed" /\ \A t \in DeskSockets : t # s => deskState'[t] = deskState[t]
      /\ \A t \in DeskSockets : deskState'[t] = "unborn" <=> t > deskBorn'
      /\ \A f \in Services \ {own} : DeskAlive(f)' = DeskAlive(f)
      /\ s \in DeskAlive(own) /\ DeskAlive(own)' = DeskAlive(own) \ {s}
  BY <1>1, <1>2, DeskMoves
<1>4. DeskAlive(own)' = {} /\ own \notin deskTimer
  BY <1>0, <1>1, <1>3 DEF DeskOne
<1>5. DeskTypeOK'
  <2>1. deskIsConnecting' \in [Services -> BOOLEAN]
    BY <1>0, <1>2 DEF DeskTypeOK
  <2>2. deskConnected' \in BOOLEAN /\ deskConnecting' \in BOOLEAN
    BY <1>0, <1>2 DEF DeskTypeOK
  <2>. QED
    BY <1>0, <1>1, <1>2, <1>3, <2>1, <2>2 DEF DeskTypeOK
<1>6. DeskLinks'
  <2>1. \A g \in deskTimer' : deskAttempts'[g] < DeskMaxAttempts
    BY <1>0, <1>2 DEF DeskLinks
  <2>2. deskBound = 1 => own = 1
    BY <1>0, <1>1 DEF DeskLinks
  <2>. QED
    BY <1>0, <1>2, <1>3, <2>1, <2>2 DEF DeskLinks
<1>7. DeskBoundUp'
  <2>1. CASE deskBound = own
    BY <1>2, <2>1 DEF DeskBoundUp
  <2>2. CASE deskBound # own
    BY <1>0, <1>2, <1>3, <2>2 DEF DeskBoundUp, DeskTypeOK
  <2>. QED
    BY <2>1, <2>2
<1>8. \A g \in Services \ {own} : \A t \in DeskAlive(g) : t \in DeskSockets /\ t # s
  BY <1>1 DEF DeskAlive
<1>9. DeskTold'
  <2>1. CASE deskBound = own
    BY <1>2, <2>1 DEF DeskTold
  <2>2. CASE deskBound # own
    BY <1>0, <1>2, <1>3, <1>8, <2>2, ZenonT(60) DEF DeskTold, DeskTypeOK
  <2>. QED
    BY <2>1, <2>2
<1>10. ASSUME NEW g \in Services PROVE DeskOne(g)'
  <2>1. CASE g = own
    BY <1>0, <1>2, <1>4, <2>1 DEF DeskOne, DeskTypeOK
  <2>2. CASE g # own
    <3>1. deskIsConnecting'[g] = deskIsConnecting[g] /\ (g \in deskTimer' <=> g \in deskTimer)
      BY <1>0, <1>2, <2>2 DEF DeskTypeOK
    <3>. QED
      BY <1>0, <1>3, <1>8, <2>2, <3>1 DEF DeskOne
  <2>. QED
    BY <2>1, <2>2
<1>. QED
  BY <1>5, <1>6, <1>7, <1>9, <1>10, DeskTogether

LEMMA DeskStep == DeskIInv /\ [DeskNext]_deskVars => DeskIInv'
<1> SUFFICES ASSUME DeskIInv, [DeskNext]_deskVars
             PROVE  DeskIInv'
  OBVIOUS
<1>0. deskListed \in BOOLEAN /\ deskActive \in DeskChannels \cup {DeskNone}
  BY DEF DeskIInv, DeskInv, DeskTypeOK
<1>1. ASSUME DeskRebind PROVE DeskIInv'
  BY <1>1, DeskRebindKeeps
<1>2. ASSUME NEW s \in DeskSockets,
             DeskOpen(s) \/ DeskClosed(s) \/ \E how \in {"broken", "leaving"} : DeskBreak(s, how)
      PROVE  DeskIInv'
  BY <1>2, DeskOpenKeeps, DeskClosedKeeps, DeskBreakKeeps
<1>3. ASSUME NEW f \in Services, DeskReconnect(f) PROVE DeskIInv'
  BY <1>3, DeskReconnectKeeps
<1>4. ASSUME DeskList \/ \E c \in DeskChannels : DeskSelect(c) PROVE DeskIInv'
  <2>1. UNCHANGED <<deskLink, deskConnected, deskConnecting>>
    BY <1>4 DEF DeskList, DeskSelect
  <2>2. deskListed' \in BOOLEAN /\ deskActive' \in DeskChannels \cup {DeskNone}
    BY <1>0, <1>4 DEF DeskList, DeskSelect
  <2>. QED
    BY <2>1, <2>2, DeskTalkKeeps
<1>5. ASSUME NEW l \in deskLoads, DeskAnswer(l) \/ DeskShow(l) \/ DeskLoadFails(l) PROVE DeskIInv'
  BY <1>0, <1>5, DeskTalkKeeps DEF DeskAnswer, DeskShow, DeskLoadFails
<1>6. ASSUME \/ \E m \in DeskMessages : DeskStores(m)
             \/ \E m \in DeskOwn : DeskSend(m) \/ DeskReturns(m) \/ DeskSendFails(m)
      PROVE  DeskIInv'
  BY <1>0, <1>6, DeskTalkKeeps DEF DeskStores, DeskSend, DeskReturns, DeskSendFails
<1>7. CASE UNCHANGED deskVars
  BY <1>0, <1>7, DeskTalkKeeps DEF deskVars
<1>. QED
  BY <1>1, <1>2, <1>3, <1>4, <1>5, <1>6, <1>7 DEF DeskNext

\* However the connection breaks and whichever service the hook is bound to, a
\* service never has two sockets or a socket and a timer, the bound one has
\* something unless it gave up or was told goodbye, and what the window says
\* about the connection is true of it (WebSocketService.ts connect,
\* scheduleReconnect; desktop useWebSocket.ts).
THEOREM DeskNeverForks == DeskSpec => []DeskInv
<1>1. DeskIInv => DeskInv
  BY DEF DeskIInv
<1>. QED
  BY <1>1, DeskInitially, DeskStep, PTL DEF DeskSpec

-----------------------------------------------------------------------------
(* The messages of the window.  What a load carries, however late it is    *)
(* shown, was read from the list of the channel it was asked for.           *)

DeskOf(c, q) == \A i \in 1 .. Len(q) : DeskChanOf[q[i]] = c /\ DeskIsStored(q[i])

DeskAnswers ==
  [n : Nat, chan : DeskChannels, answered : BOOLEAN, list : Seq(DeskMessages)]

DeskLists ==
  /\ \A c \in DeskChannels : DeskOf(c, deskShown[c]) /\ DeskOf(c, deskStored[c])
  /\ deskLoads \subseteq DeskAnswers /\ deskLoadCount \in Nat
  /\ \A l \in deskLoads : DeskOf(l.chan, l.list)
  /\ \A m \in DeskOwn : deskSending[m] = "reply" => DeskIsStored(m)

DeskTalkInv == DeskTalkTypeOK /\ DeskLists

LEMMA DeskTalkInitially == DeskInit => DeskTalkInv
<1> SUFFICES ASSUME DeskInit PROVE DeskTalkInv
  OBVIOUS
<1>1. /\ deskShown \in [DeskChannels -> {<<>>}] /\ deskStored \in [DeskChannels -> {<<>>}]
      /\ deskSending \in [DeskOwn -> {"no"}] /\ deskLoads = {} /\ deskLoadCount = 0
  BY DEF DeskInit
<1>2. \A c : DeskOf(c, <<>>)
  BY DEF DeskOf
<1>3. DeskTalkTypeOK
  <2>1. <<>> \in Seq(DeskMessages)
    OBVIOUS
  <2>. QED
    BY <1>1, <2>1 DEF DeskTalkTypeOK
<1>. QED
  BY <1>1, <1>2, <1>3 DEF DeskTalkInv, DeskLists

\* Nothing new is stored; what is shown and what loads carry comes from what
\* there was.
LEMMA DeskWindowKeeps ==
  ASSUME DeskTalkInv, UNCHANGED deskStored,
         deskShown' \in [DeskChannels -> Seq(DeskMessages)],
         \A c \in DeskChannels : DeskOf(c, deskShown'[c]),
         deskLoads' \subseteq DeskAnswers, deskLoadCount' \in Nat,
         \A l \in deskLoads' : DeskOf(l.chan, l.list),
         deskSending' \in [DeskOwn -> {"no", "post", "reply", "over"}],
         \A m \in DeskOwn : deskSending'[m] = "reply" => deskSending[m] = "reply"
  PROVE  DeskTalkInv'
<1>1. DeskTalkTypeOK /\ DeskLists
  BY DEF DeskTalkInv
<1>2. \A m : DeskIsStored(m)' <=> DeskIsStored(m)
  BY DEF DeskIsStored
<1>3. /\ \A c \in DeskChannels : DeskOf(c, deskShown[c])' /\ DeskOf(c, deskStored[c])'
      /\ \A l \in deskLoads' : DeskOf(l.chan, l.list)'
  BY <1>1, <1>2 DEF DeskOf, DeskLists
<1>4. DeskTalkTypeOK'
  BY <1>1 DEF DeskTalkTypeOK
<1>5. \A m \in DeskOwn : deskSending'[m] = "reply" => DeskIsStored(m)'
  BY <1>1, <1>2 DEF DeskLists
<1>. QED
  BY <1>3, <1>4, <1>5 DEF DeskTalkInv, DeskLists

LEMMA DeskStoresKeepsTalk == \A m \in DeskMessages : DeskTalkInv /\ DeskStores(m) => DeskTalkInv'
<1> SUFFICES ASSUME NEW m \in DeskMessages, DeskTalkInv, DeskStores(m) PROVE DeskTalkInv'
  OBVIOUS
<1> DEFINE c == DeskChanOf[m]
<1>1. DeskTalkTypeOK /\ DeskLists /\ c \in DeskChannels
  BY DeskConstantsOK DEF DeskTalkInv, DeskConstantsOK
<1>2. /\ deskStored' = [deskStored EXCEPT ![c] = Append(deskStored[c], m)]
      /\ UNCHANGED <<deskShown, deskLoads, deskLoadCount>>
      /\ deskSending' \in [DeskOwn -> {"no", "post", "reply", "over"}]
      /\ \A n \in DeskOwn : deskSending'[n] = "reply" => n = m \/ deskSending[n] = "reply"
  BY <1>1 DEF DeskStores, DeskTalkTypeOK
<1>3. deskStored \in [DeskChannels -> Seq(DeskMessages)] /\ deskStored[c] \in Seq(DeskMessages)
  BY <1>1 DEF DeskTalkTypeOK
<1>4. /\ deskStored' \in [DeskChannels -> Seq(DeskMessages)]
      /\ Len(deskStored'[c]) = Len(deskStored[c]) + 1 /\ Len(deskStored[c]) \in Nat
      /\ deskStored'[c][Len(deskStored[c]) + 1] = m
      /\ \A i \in 1 .. Len(deskStored[c]) : deskStored'[c][i] = deskStored[c][i]
      /\ \A d \in DeskChannels : d # c => deskStored'[d] = deskStored[d]
  <2> HIDE DEF c
  <2>. QED
    BY <1>1, <1>2, <1>3
<1> DEFINE Has(x) == \E i \in 1 .. Len(deskStored'[DeskChanOf[x]]) : deskStored'[DeskChanOf[x]][i] = x
<1>5. \A x \in DeskMessages : DeskIsStored(x) => Has(x)
  <2> SUFFICES ASSUME NEW x \in DeskMessages, DeskIsStored(x) PROVE Has(x)
    OBVIOUS
  <2>1. DeskChanOf[x] \in DeskChannels
    BY DeskConstantsOK DEF DeskConstantsOK
  <2>2. CASE DeskChanOf[x] = c
    BY <1>4, <2>2 DEF DeskIsStored
  <2>3. CASE DeskChanOf[x] # c
    BY <1>4, <2>1, <2>3 DEF DeskIsStored
  <2>. QED
    BY <2>2, <2>3
<1>6. Has(m)
  BY <1>4
<1> HIDE DEF Has
<1>7. ASSUME NEW d \in DeskChannels, NEW q \in Seq(DeskMessages), DeskOf(d, q)
      PROVE  \A i \in 1 .. Len(q) : DeskChanOf[q[i]] = d /\ Has(q[i])
  <2>1. \A i \in 1 .. Len(q) : q[i] \in DeskMessages
    OBVIOUS
  <2>. QED
    BY <1>5, <1>7, <2>1 DEF DeskOf
<1>8. \A d \in DeskChannels : DeskOf(d, deskShown[d])' /\ DeskOf(d, deskStored[d])'
  <2> SUFFICES ASSUME NEW d \in DeskChannels
               PROVE  DeskOf(d, deskShown[d])' /\ DeskOf(d, deskStored[d])'
    OBVIOUS
  <2>1. /\ DeskOf(d, deskShown[d]) /\ DeskOf(d, deskStored[d])
        /\ deskShown[d] \in Seq(DeskMessages) /\ deskStored[d] \in Seq(DeskMessages)
    BY <1>1 DEF DeskTalkTypeOK, DeskLists
  <2>2. \A i \in 1 .. Len(deskShown[d]) : DeskChanOf[deskShown[d][i]] = d /\ Has(deskShown[d][i])
    BY <1>7, <2>1
  <2>3. \A i \in 1 .. Len(deskStored[d]) : DeskChanOf[deskStored[d][i]] = d /\ Has(deskStored[d][i])
    BY <1>7, <2>1
  <2>4. DeskOf(d, deskShown[d])'
    BY <1>2, <2>2 DEF DeskOf, DeskIsStored, Has
  <2>5. CASE d # c
    BY <1>4, <2>3, <2>4, <2>5 DEF DeskOf, DeskIsStored, Has
  <2>6. CASE d = c
    <3>1. \A i \in 1 .. Len(deskStored'[d]) : i = Len(deskStored[d]) + 1 \/ i \in 1 .. Len(deskStored[d])
      BY <1>4, <2>6
    <3>2. \A i \in 1 .. Len(deskStored'[d]) :
            DeskChanOf[deskStored'[d][i]] = d /\ Has(deskStored'[d][i])
      BY <1>4, <1>6, <2>3, <2>6, <3>1
    <3>. QED
      BY <2>4, <3>2 DEF DeskOf, DeskIsStored, Has
  <2>. QED
    BY <2>5, <2>6
<1>9. \A l \in deskLoads' : DeskOf(l.chan, l.list)'
  <2> SUFFICES ASSUME NEW l \in deskLoads PROVE DeskOf(l.chan, l.list)'
    BY <1>2
  <2>1. l.chan \in DeskChannels /\ l.list \in Seq(DeskMessages) /\ DeskOf(l.chan, l.list)
    BY <1>1 DEF DeskLists, DeskAnswers
  <2>. QED
    BY <1>7, <2>1 DEF DeskOf, DeskIsStored, Has
<1>10. DeskTalkTypeOK'
  BY <1>1, <1>2, <1>4 DEF DeskTalkTypeOK
<1>11. \A n \in DeskOwn : deskSending'[n] = "reply" => DeskIsStored(n)'
  <2>1. DeskOwn \subseteq DeskMessages
    BY DeskConstantsOK DEF DeskConstantsOK
  <2>. QED
    BY <1>1, <1>2, <1>5, <1>6, <2>1 DEF DeskLists, DeskIsStored, Has
<1>. QED
  BY <1>1, <1>2, <1>8, <1>9, <1>10, <1>11 DEF DeskTalkInv, DeskLists

\* A load begins, for the channel that is selected, with nothing read yet.
LEMMA DeskAsksKeeps ==
  ASSUME DeskTalkInv, UNCHANGED deskTalk, NEW c \in DeskChannels \cup {DeskNone}, DeskAsks(c)
  PROVE  DeskTalkInv'
<1>1. DeskTalkTypeOK /\ DeskLists
  BY DEF DeskTalkInv
<1> DEFINE new == [n |-> deskLoadCount + 1, chan |-> c, answered |-> FALSE, list |-> <<>>]
<1>2. CASE c = DeskNone
  BY <1>1, <1>2, DeskWindowKeeps DEF DeskAsks, DeskTalkTypeOK, DeskLists, deskTalk
<1>3. CASE c # DeskNone
  <2>1. <<>> \in Seq(DeskMessages) /\ deskLoadCount + 1 \in Nat
    BY <1>1 DEF DeskLists
  <2>2. new \in DeskAnswers /\ DeskOf(new.chan, new.list)
    BY <1>3, <2>1 DEF DeskAnswers, DeskOf
  <2>3. deskLoads' = deskLoads \cup {new} /\ deskLoadCount' \in Nat
    BY <1>3, <2>1 DEF DeskAsks
  <2>. QED
    BY <1>1, <2>2, <2>3, DeskWindowKeeps DEF DeskTalkTypeOK, DeskLists, deskTalk
<1>. QED
  BY <1>2, <1>3

LEMMA DeskLoadKeepsTalk ==
  ASSUME DeskTalkInv, NEW l \in deskLoads, DeskAnswer(l) \/ DeskShow(l) \/ DeskLoadFails(l)
  PROVE  DeskTalkInv'
<1>1. /\ DeskTalkTypeOK /\ DeskLists
      /\ l \in DeskAnswers /\ l.chan \in DeskChannels /\ DeskOf(l.chan, l.list)
  BY DEF DeskTalkInv, DeskLists, DeskAnswers
<1>2. CASE DeskAnswer(l)
  <2> DEFINE new == [l EXCEPT !.answered = TRUE, !.list = deskStored[l.chan]]
  <2>1. deskStored[l.chan] \in Seq(DeskMessages) /\ DeskOf(l.chan, deskStored[l.chan])
    BY <1>1 DEF DeskTalkTypeOK, DeskLists
  <2>2. new \in DeskAnswers /\ new.chan = l.chan /\ new.list = deskStored[l.chan]
    BY <1>1, <2>1 DEF DeskAnswers
  <2>3. /\ deskLoads' = (deskLoads \ {l}) \cup {new}
        /\ UNCHANGED <<deskStored, deskShown, deskSending, deskLoadCount>>
    BY <1>2 DEF DeskAnswer, deskTalk
  <2> HIDE DEF new
  <2>. QED
    BY <1>1, <2>1, <2>2, <2>3, DeskWindowKeeps DEF DeskTalkTypeOK, DeskLists
<1>3. CASE DeskShow(l)
  <2>1. l.list \in Seq(DeskMessages)
    BY <1>1 DEF DeskAnswers
  <2>2. /\ deskLoads' \subseteq deskLoads /\ deskShown' = [deskShown EXCEPT ![l.chan] = l.list]
        /\ UNCHANGED <<deskStored, deskSending, deskLoadCount>>
    BY <1>3 DEF DeskShow
  <2>3. /\ deskShown' \in [DeskChannels -> Seq(DeskMessages)]
        /\ \A c \in DeskChannels : DeskOf(c, deskShown'[c])
    BY <1>1, <2>1, <2>2 DEF DeskTalkTypeOK, DeskLists
  <2>. QED
    BY <1>1, <2>2, <2>3, DeskWindowKeeps DEF DeskTalkTypeOK, DeskLists
<1>4. CASE DeskLoadFails(l)
  <2>1. deskLoads' \subseteq deskLoads /\ UNCHANGED <<deskStored, deskShown, deskSending, deskLoadCount>>
    BY <1>4 DEF DeskLoadFails, deskTalk
  <2>. QED
    BY <1>1, <2>1, DeskWindowKeeps DEF DeskTalkTypeOK, DeskLists
<1>. QED
  BY <1>2, <1>3, <1>4

LEMMA DeskOwnKeepsTalk ==
  ASSUME DeskTalkInv, NEW m \in DeskOwn, DeskSend(m) \/ DeskReturns(m) \/ DeskSendFails(m)
  PROVE  DeskTalkInv'
<1>1. DeskTalkTypeOK /\ DeskLists /\ m \in DeskMessages /\ DeskChanOf[m] \in DeskChannels
  BY DeskConstantsOK DEF DeskTalkInv, DeskConstantsOK
<1>2. /\ UNCHANGED <<deskStored, deskLoads, deskLoadCount>>
      /\ deskSending' \in [DeskOwn -> {"no", "post", "reply", "over"}]
      /\ \A n \in DeskOwn : deskSending'[n] = "reply" => deskSending[n] = "reply"
  BY <1>1 DEF DeskSend, DeskReturns, DeskSendFails, DeskTalkTypeOK
<1>3. /\ deskShown' \in [DeskChannels -> Seq(DeskMessages)]
      /\ \A c \in DeskChannels : DeskOf(c, deskShown'[c])
  <2>1. CASE ~DeskReturns(m)
    BY <1>1, <2>1 DEF DeskSend, DeskSendFails, DeskTalkTypeOK, DeskLists
  <2>2. CASE DeskReturns(m)
    <3> DEFINE d == DeskChanOf[m]
    <3>1. /\ DeskIsStored(m) /\ deskShown[d] \in Seq(DeskMessages) /\ DeskOf(d, deskShown[d])
          /\ deskShown' = [deskShown EXCEPT ![d] = Append(deskShown[d], m)]
      BY <1>1, <2>2 DEF DeskReturns, DeskTalkTypeOK, DeskLists
    <3>2. Append(deskShown[d], m) \in Seq(DeskMessages) /\ DeskOf(d, Append(deskShown[d], m))
      BY <1>1, <3>1 DEF DeskOf
    <3> HIDE DEF d
    <3>. QED
      BY <1>1, <3>1, <3>2 DEF DeskTalkTypeOK, DeskLists
  <2>. QED
    BY <2>1, <2>2
<1>. QED
  BY <1>1, <1>2, <1>3, DeskWindowKeeps DEF DeskLists

LEMMA DeskTalkStep == DeskTalkInv /\ DeskIInv /\ [DeskNext]_deskVars => DeskTalkInv'
<1> SUFFICES ASSUME DeskTalkInv, DeskIInv, [DeskNext]_deskVars PROVE DeskTalkInv'
  OBVIOUS
<1>0. deskActive \in DeskChannels \cup {DeskNone} /\ DeskTalkTypeOK /\ DeskLists
  BY DEF DeskIInv, DeskInv, DeskTypeOK, DeskTalkInv
<1>1. ASSUME UNCHANGED <<deskTalk, deskLoads, deskLoadCount>> PROVE DeskTalkInv'
  BY <1>0, <1>1, DeskWindowKeeps DEF DeskTalkTypeOK, DeskLists, deskTalk
<1>2. ASSUME DeskRebind \/ DeskList PROVE DeskTalkInv'
  BY <1>1, <1>2 DEF DeskRebind, DeskList
<1>3. ASSUME NEW s \in DeskSockets,
             DeskClosed(s) \/ \E how \in {"broken", "leaving"} : DeskBreak(s, how)
      PROVE  DeskTalkInv'
  BY <1>1, <1>3 DEF DeskClosed, DeskBreak
<1>4. ASSUME NEW f \in Services, DeskReconnect(f) PROVE DeskTalkInv'
  BY <1>1, <1>4 DEF DeskReconnect
<1>5. ASSUME NEW s \in DeskSockets, DeskOpen(s) PROVE DeskTalkInv'
  <2>1. CASE deskOwner[s] = deskBound
    <3>1. /\ UNCHANGED deskTalk
          /\ DeskAsks(IF deskConnected THEN DeskNone ELSE deskActive)
      BY <1>5, <2>1 DEF DeskOpen
    <3>2. (IF deskConnected THEN DeskNone ELSE deskActive) \in DeskChannels \cup {DeskNone}
      BY <1>0
    <3>. QED
      BY <3>1, <3>2, DeskAsksKeeps
  <2>2. CASE deskOwner[s] # deskBound
    BY <1>1, <1>5, <2>2 DEF DeskOpen
  <2>. QED
    BY <2>1, <2>2
<1>6. ASSUME NEW c \in DeskChannels, DeskSelect(c) PROVE DeskTalkInv'
  <2>1. UNCHANGED deskTalk /\ DeskAsks(IF deskConnected THEN c ELSE DeskNone)
    BY <1>6 DEF DeskSelect
  <2>. QED
    BY <2>1, DeskAsksKeeps
<1>7. ASSUME NEW l \in deskLoads, DeskAnswer(l) \/ DeskShow(l) \/ DeskLoadFails(l) PROVE DeskTalkInv'
  BY <1>7, DeskLoadKeepsTalk
<1>8. ASSUME NEW m \in DeskMessages, DeskStores(m) PROVE DeskTalkInv'
  BY <1>8, DeskStoresKeepsTalk
<1>9. ASSUME NEW m \in DeskOwn, DeskSend(m) \/ DeskReturns(m) \/ DeskSendFails(m) PROVE DeskTalkInv'
  BY <1>9, DeskOwnKeepsTalk
<1>10. CASE UNCHANGED deskVars
  BY <1>1, <1>10 DEF deskVars
<1>. QED
  BY <1>2, <1>3, <1>4, <1>5, <1>6, <1>7, <1>8, <1>9, <1>10 DEF DeskNext

\* However many loads are under way and in whatever order they are answered
\* and shown, a channel shows its own messages only, and only messages the
\* instance has (desktop useWebSocket.ts, fetchMessages and sendMessage).
THEOREM ChannelShowsItsOwn == DeskSpec => []DeskOwnChannel
<1>1. DeskTalkInv => DeskOwnChannel
  BY DEF DeskTalkInv, DeskLists, DeskOf, DeskOwnChannel
<1>. QED
  BY <1>1, DeskInitially, DeskStep, DeskTalkInitially, DeskTalkStep, PTL DEF DeskSpec

-----------------------------------------------------------------------------
(* The queue of notifications: NotifyInv is inductive as it stands.         *)

\* The first of what waits goes to the end of what was shown.
LEMMA MovesOver ==
  ASSUME NEW shown \in Seq(Nat), NEW queue \in Seq(Nat), queue # <<>>
  PROVE  /\ Append(shown, Head(queue)) \in Seq(Nat) /\ Tail(queue) \in Seq(Nat)
         /\ Append(shown, Head(queue)) \o Tail(queue) = shown \o queue
<1> DEFINE h == Head(queue)
           t == Tail(queue)
<1>1. h \in Nat /\ t \in Seq(Nat) /\ <<h>> \in Seq(Nat)
  BY HeadTailProperties
<1>2. Append(shown, h) \in Seq(Nat) /\ Append(shown, h) = shown \o <<h>>
  BY <1>1, AppendProperties, AppendIsConcat
<1>3. <<h>> \o t = queue
  <2>1. /\ Len(<<h>> \o t) = 1 + Len(t) /\ <<h>> \o t \in Seq(Nat)
        /\ \A i \in 1 .. 1 + Len(t) : (<<h>> \o t)[i] = IF i <= 1 THEN h ELSE t[i - 1]
    BY <1>1, ConcatProperties
  <2>2. Len(t) = Len(queue) - 1 /\ \A i \in 1 .. Len(t) : t[i] = queue[i + 1]
    BY HeadTailProperties
  <2>3. Len(queue) \in Nat /\ queue[1] = h
    OBVIOUS
  <2>4. \A i \in 1 .. Len(queue) : (<<h>> \o t)[i] = queue[i]
    BY <2>1, <2>2, <2>3
  <2>. QED
    BY <2>1, <2>2, <2>3, <2>4, SeqEqual
<1>4. (shown \o <<h>>) \o t = shown \o (<<h>> \o t)
  BY <1>1, ConcatAssociative, SMTT(60)
<1>. QED
  BY <1>1, <1>2, <1>3, <1>4

\* What is asked for last waits last.
LEMMA WaitsLast ==
  ASSUME NEW shown \in Seq(Nat), NEW queue \in Seq(Nat), NEW note \in Nat
  PROVE  /\ Append(shown \o queue, note) = shown \o Append(queue, note)
         /\ Append(queue, note) \in Seq(Nat) /\ Append(queue, note) # <<>>
<1>1. <<note>> \in Seq(Nat) /\ shown \o queue \in Seq(Nat)
  BY ConcatProperties
<1>2. Append(shown \o queue, note) = (shown \o queue) \o <<note>> /\ Append(queue, note) = queue \o <<note>>
  BY <1>1, AppendIsConcat
<1>3. (shown \o queue) \o <<note>> = shown \o (queue \o <<note>>)
  BY <1>1, ConcatAssociative, SMTT(60)
<1>. QED
  BY <1>2, <1>3, AppendProperties

\* processNotificationQueue shows the first of a queue and sets one timeout.
LEMMA ProcessKeeps ==
  ASSUME NEW queue \in Seq(Nat), NEW shown \in Seq(Nat), shOnScreen = shown,
         ProcessQueue(queue, 0)
  PROVE  /\ shQueue' \in Seq(Nat) /\ shOnScreen' \in Seq(Nat) /\ shProcessing' \in BOOLEAN
         /\ shOnScreen' \o shQueue' = shown \o queue
         /\ shTimers' = (IF shProcessing' THEN 1 ELSE 0)
         /\ shQueue' # <<>> => shProcessing'
<1>1. CASE queue = <<>>
  BY <1>1 DEF ProcessQueue
<1>2. CASE queue # <<>>
  <2>1. /\ shProcessing' = TRUE /\ shTimers' = 1
        /\ shQueue' = Tail(queue) /\ shOnScreen' = Append(shown, Head(queue))
    BY <1>2 DEF ProcessQueue
  <2>2. /\ Append(shown, Head(queue)) \in Seq(Nat) /\ Tail(queue) \in Seq(Nat)
        /\ Append(shown, Head(queue)) \o Tail(queue) = shown \o queue
    BY <1>2, MovesOver
  <2>3. shOnScreen' \in Seq(Nat) /\ shQueue' \in Seq(Nat) /\ shOnScreen' \o shQueue' = shown \o queue
    BY <2>1, <2>2
  <2>. QED
    BY <2>1, <2>3
<1>. QED
  BY <1>1, <1>2

LEMMA ShellInitially == ShellInit => NotifyInv
<1> SUFFICES ASSUME ShellInit PROVE NotifyInv
  OBVIOUS
<1>1. /\ shMac \in BOOLEAN /\ shFocused \in BOOLEAN /\ shNotify \in BOOLEAN /\ shDockBadge \in BOOLEAN
      /\ shAtLogin \in BOOLEAN /\ shProcessing \in BOOLEAN
  BY DEF ShellInit
<1>2. <<>> \in Seq(Nat) /\ <<>> = <<>> \o <<>>
  BY ConcatEmptySeq
<1>3. ShellTypeOK
  BY <1>1, <1>2 DEF ShellInit, ShellTypeOK
<1>. QED
  BY <1>2, <1>3 DEF ShellInit, NotifyInv

\* A step that leaves the notifications alone keeps the invariant if it keeps the types.
LEMMA OthersKeep ==
  ASSUME NotifyInv, UNCHANGED shNoteVars,
         shMac' \in BOOLEAN, shApp' \in {"starting", "ready", "quit"},
         shWindow' \in {"none", "loading", "shown", "maximized", "minimized"}, shFocused' \in BOOLEAN,
         shBadge' \in {0, 1}, shNotify' \in BOOLEAN, shDockBadge' \in BOOLEAN, shAtLogin' \in BOOLEAN,
         shSent' \subseteq {"menu-action", "deep-link", "navigate-to-channel"}, shMoves' \in Nat
  PROVE  NotifyInv'
  BY DEF NotifyInv, ShellTypeOK, shNoteVars

\* The helpers of the window and of what is sent keep the types.
LEMMA HelpersKeep ==
  ASSUME ShellTypeOK
  PROVE  /\ Focused => shFocused' \in BOOLEAN /\ shBadge' \in {0, 1}
         /\ RestoredAndFocused => /\ shFocused' \in BOOLEAN /\ shBadge' \in {0, 1}
                                  /\ shWindow' \in {"none", "loading", "shown", "maximized", "minimized"}
         /\ CreateWindow => /\ shFocused' \in BOOLEAN /\ shBadge' \in {0, 1}
                            /\ shWindow' \in {"none", "loading", "shown", "maximized", "minimized"}
         /\ \A kind \in {"menu-action", "deep-link", "navigate-to-channel"} :
              Sends(kind) => shSent' \subseteq {"menu-action", "deep-link", "navigate-to-channel"}
         /\ ShellMove => shMoves' \in Nat
<1> USE DEF ShellTypeOK
<1>1. Focused => shFocused' \in BOOLEAN /\ shBadge' \in {0, 1}
  BY DEF Focused
<1>2. RestoredAndFocused => /\ shFocused' \in BOOLEAN /\ shBadge' \in {0, 1}
                            /\ shWindow' \in {"none", "loading", "shown", "maximized", "minimized"}
  BY <1>1 DEF RestoredAndFocused
<1>3. CreateWindow => /\ shFocused' \in BOOLEAN /\ shBadge' \in {0, 1}
                      /\ shWindow' \in {"none", "loading", "shown", "maximized", "minimized"}
  BY DEF CreateWindow
<1>4. \A kind \in {"menu-action", "deep-link", "navigate-to-channel"} :
        Sends(kind) => shSent' \subseteq {"menu-action", "deep-link", "navigate-to-channel"}
  BY DEF Sends
<1>5. ShellMove => shMoves' \in Nat
  BY DEF ShellMove
<1>. QED
  BY <1>1, <1>2, <1>3, <1>4, <1>5

LEMMA ShellStep == NotifyInv /\ [ShellNext]_shellVars => NotifyInv'
<1> SUFFICES ASSUME NotifyInv, [ShellNext]_shellVars
             PROVE  NotifyInv'
  OBVIOUS
<1>0. ShellTypeOK
  BY DEF NotifyInv
<1>1. ASSUME ShellReady \/ ReadyToShow
      PROVE  NotifyInv'
  BY <1>0, <1>1, HelpersKeep, OthersKeep DEF ShellReady, ReadyToShow, shConfigVars, ShellTypeOK
<1>2. ASSUME WindowFocus \/ WindowSize \/ WindowClose
      PROVE  NotifyInv'
  BY <1>0, <1>2, HelpersKeep, OthersKeep, ZenonT(60) DEF WindowFocus, WindowSize, WindowClose,
     shConfigVars, ShellTypeOK
<1>3. ASSUME Activate \/ AppQuit
      PROVE  NotifyInv'
  BY <1>0, <1>3, HelpersKeep, OthersKeep DEF Activate, AppQuit, shConfigVars, ShellTypeOK
<1>4. ASSUME MenuAction \/ DockMenu \/ NotifyClick
      PROVE  NotifyInv'
  BY <1>0, <1>4, HelpersKeep, OthersKeep
  DEF MenuAction, DockMenu, NotifyClick, shConfigVars, shWindowVars, ShellTypeOK
<1>5. ASSUME DeepLink \/ SecondInstance
      PROVE  NotifyInv'
  BY <1>0, <1>5, HelpersKeep, OthersKeep, ZenonT(60)
  DEF DeepLink, SecondInstance, shConfigVars, shWindowVars, ShellTypeOK
<1>6. ASSUME ConfigSet \/ BadgeSet
      PROVE  NotifyInv'
  <2>1. /\ UNCHANGED <<shMac, shApp, shWindow, shFocused, shNoteVars, shSent>>
        /\ ShellMove /\ shBadge' \in {0, 1}
    BY <1>0, <1>6 DEF ConfigSet, BadgeSet, shConfigVars, shWindowVars, ShellTypeOK
  <2>2. /\ shNotify' = shNotify \/ shNotify' = ~shNotify
        /\ shDockBadge' = shDockBadge \/ shDockBadge' = ~shDockBadge
        /\ shAtLogin' = shAtLogin \/ shAtLogin' = ~shAtLogin
    BY <1>6, Zenon DEF ConfigSet, BadgeSet, shConfigVars
  <2>3. shNotify' \in BOOLEAN /\ shDockBadge' \in BOOLEAN /\ shAtLogin' \in BOOLEAN
    BY <1>0, <2>2 DEF ShellTypeOK
  <2>. QED
    BY <1>0, <2>1, <2>3, HelpersKeep, OthersKeep DEF ShellTypeOK
<1>7. ASSUME ShowNotification
      PROVE  NotifyInv'
  <2> DEFINE note == shNotes + 1
             queue == Append(shQueue, note)
  <2>1. /\ shQueue \in Seq(Nat) /\ shOnScreen \in Seq(Nat) /\ shAsked = shOnScreen \o shQueue
        /\ note \in Nat /\ shNotes' = note /\ shAsked \in Seq(Nat) /\ shProcessing \in BOOLEAN
        /\ shTimers = (IF shProcessing THEN 1 ELSE 0) /\ (shQueue # <<>> => shProcessing)
    BY <1>7 DEF ShowNotification, NotifyInv, ShellTypeOK
  <2>2. queue \in Seq(Nat) /\ queue # <<>> /\ Append(shAsked, note) = shOnScreen \o queue
    BY <2>1, WaitsLast
  <2>3. Append(shAsked, note) \in Seq(Nat)
    BY <2>1, AppendProperties
  <2>4. /\ shQueue' \in Seq(Nat) /\ shOnScreen' \in Seq(Nat) /\ shAsked' \in Seq(Nat)
        /\ shProcessing' \in BOOLEAN /\ shTimers' \in Nat
        /\ shAsked' = shOnScreen' \o shQueue'
        /\ shTimers' = (IF shProcessing' THEN 1 ELSE 0)
        /\ shQueue' # <<>> => shProcessing'
    <3>1. CASE UNCHANGED <<shQueue, shProcessing, shTimers, shOnScreen, shAsked>>
      BY <2>1, <3>1
    <3>2. CASE /\ shAsked' = Append(shAsked, note) /\ shProcessing /\ shQueue' = queue
               /\ UNCHANGED <<shProcessing, shTimers, shOnScreen>>
      BY <2>1, <2>2, <2>3, <3>2
    <3>3. CASE /\ shAsked' = Append(shAsked, note) /\ ~shProcessing
               /\ ProcessQueue(queue, shTimers)
      <4>1. ProcessQueue(queue, 0)
        BY <2>1, <3>3
      <4>2. /\ shQueue' \in Seq(Nat) /\ shOnScreen' \in Seq(Nat) /\ shProcessing' \in BOOLEAN
            /\ shOnScreen' \o shQueue' = shOnScreen \o queue
            /\ shTimers' = (IF shProcessing' THEN 1 ELSE 0)
            /\ shQueue' # <<>> => shProcessing'
        <5> HIDE DEF queue
        <5>. QED
          BY <2>1, <2>2, <4>1, ProcessKeeps
      <4>3. shAsked' = shOnScreen' \o shQueue' /\ shAsked' \in Seq(Nat)
        BY <2>2, <2>3, <3>3, <4>2
      <4>4. shTimers' \in Nat
        BY <4>2
      <4>. QED
        BY <4>2, <4>3, <4>4
    <3>. QED
      BY <1>7, <2>1, <3>1, <3>2, <3>3 DEF ShowNotification
  <2>5. ShellTypeOK'
    BY <1>0, <1>7, <2>1, <2>4 DEF ShowNotification, ShellTypeOK, shConfigVars, shWindowVars
  <2>. QED
    BY <2>4, <2>5 DEF NotifyInv
<1>8. ASSUME NotifyTimer
      PROVE  NotifyInv'
  <2>1. shTimers = 1 /\ ProcessQueue(shQueue, 0)
    BY <1>8 DEF NotifyTimer, NotifyInv, ShellTypeOK
  <2>2. /\ shQueue \in Seq(Nat) /\ shOnScreen \in Seq(Nat) /\ shAsked \in Seq(Nat)
        /\ shAsked = shOnScreen \o shQueue
    BY DEF NotifyInv, ShellTypeOK
  <2>3. /\ shQueue' \in Seq(Nat) /\ shOnScreen' \in Seq(Nat) /\ shProcessing' \in BOOLEAN
        /\ shOnScreen' \o shQueue' = shOnScreen \o shQueue
        /\ shTimers' = (IF shProcessing' THEN 1 ELSE 0)
        /\ shQueue' # <<>> => shProcessing'
    BY <2>1, <2>2, ProcessKeeps
  <2>4. ShellTypeOK'
    BY <1>0, <1>8, <2>3 DEF NotifyTimer, ShellTypeOK, shConfigVars, shWindowVars
  <2>. QED
    BY <1>8, <2>2, <2>3, <2>4 DEF NotifyTimer, NotifyInv
<1>9. CASE UNCHANGED shellVars
  BY <1>0, <1>9, OthersKeep DEF shellVars, shConfigVars, shWindowVars, ShellTypeOK
<1>. QED
  BY <1>1, <1>2, <1>3, <1>4, <1>5, <1>6, <1>7, <1>8, <1>9 DEF ShellNext

\* Whatever happens to the window, the focus and the settings meanwhile, every
\* notification let through is shown once and in order, and the timeout that
\* drains the queue is there exactly as long as the flag says so (main.ts
\* showNotification, processNotificationQueue).
THEOREM NotificationsInOrder == ShellSpec => []NotifyInv
  BY ShellInitially, ShellStep, PTL DEF ShellSpec
=============================================================================
